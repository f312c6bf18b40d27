SPECIFICATION OutboundBeatSpec
CONSTANTS
    Senders = {x1}
    Domains = {d1}
    Campaigns = {k1}
    NoCampaign = NoCampaign
    HourlyLimit = 2
    SenderLimit = 2
    DomainLimit = 2
    CampaignLimit = 2
    MinSample = 1
    HoursPerDay = 1
    MaxHour = 0
    MaxBounces = 1
    MaxLost = 0
PROPERTY UnhealthyIsPaused
CHECK_DEADLOCK FALSE
