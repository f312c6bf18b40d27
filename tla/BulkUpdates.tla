----------------------------- MODULE BulkUpdates -----------------------------
(***************************************************************************)
(* Requests that update many leads in one transaction (app/api/leads.py:   *)
(* enrich_all_leads and send_campaign, with find_paginated and update of   *)
(* the repository).  Each UPDATE writes a whole row from the copy read at  *)
(* the start and keeps it locked until the commit after the last lead.     *)
(***************************************************************************)
EXTENDS Integers, Sequences

CONSTANTS
    LeadCount,      \* leads, numbered in the order created_at DESC
    BulkCalls       \* requests that may overlap

ASSUME BulkAssumption == LeadCount \in Nat \ {0}

BulkLeads == 1 .. LeadCount
Requests == { "enrich_all", "send_all", "send_listed" }
BulkStages == { "idle", "http", "update", "aborted" }
Row == [domain : BOOLEAN, sent : BOOLEAN]
NotBulk == [op |-> "none", stage |-> "idle", todo |-> << >>, copies |-> [l \in BulkLeads |->
                [domain |-> FALSE, sent |-> FALSE]], held |-> {}]

VARIABLES
    rows,           \* the committed rows
    bulk            \* the requests, with their copies and the rows they hold

bulkVars == << rows, bulk >>

BulkInit ==
    /\ rows \in [BulkLeads -> { r \in Row : ~r.sent }]
    /\ bulk = [c \in BulkCalls |-> NotBulk]

BulkGoes(c, w) == bulk' = [bulk EXCEPT ![c] = w]
Holder(l) == { c \in BulkCalls : l \in bulk[c].held }

(* Who waits for whom, one holder at most; in a circle each waits for one   *)
(* of them and is waited for. *)
WaitsFor(c) ==
    IF bulk[c].stage = "update" THEN Holder(Head(bulk[c].todo)) \ {c} ELSE {}
Circle(S) ==
    /\ S # {} /\ \A c \in S : WaitsFor(c) # {}
    /\ UNION { WaitsFor(c) : c \in S } = S
-----------------------------------------------------------------------------
\* Mutant: the page has no order.
Page_Unordered == { s \in [BulkLeads -> BulkLeads] : \A l \in BulkLeads : \E i \in BulkLeads : s[i] = l }

(* find_paginated with the default page: every lead, the newest first. *)
Page == { [i \in BulkLeads |-> i] }

(* The orders a request may go through its leads: lead_ids in any order and *)
(* choice, otherwise a page. *)
Lists(op) ==
    IF op # "send_listed" THEN Page
    ELSE UNION { { s \in [1 .. n -> BulkLeads] : \A i, j \in 1 .. n : s[i] = s[j] => i = j } : n \in BulkLeads }

(* A request reads its leads. *)
StartBulk(c, op, list) ==
    /\ bulk[c].stage = "idle" /\ list \in Lists(op)
    /\ BulkGoes(c, [NotBulk EXCEPT !.op = op, !.stage = "http", !.todo = list, !.copies = rows])
    /\ UNCHANGED rows

(* The next lead: skipped, for one without a domain is not mailed and one   *)
(* with a domain not enriched; or called for, but no domain is found, the   *)
(* mail refused, or the lead may not become OUTREACH_SENT - then there is   *)
(* nothing to update.  In an aborted transaction every UPDATE is an error. *)
HttpCall(c) ==
    LET w == bulk[c]
        l == Head(w.todo)
    IN  /\ w.stage \in { "http", "aborted" } /\ w.todo # << >>
        /\ \/ BulkGoes(c, [w EXCEPT !.todo = Tail(@)])
           \/ /\ w.stage = "http" /\ w.copies[l].domain = (w.op # "enrich_all")
              /\ w.op # "enrich_all" => ~w.copies[l].sent
              /\ BulkGoes(c, [w EXCEPT !.stage = "update"])
        /\ UNCHANGED rows

(* UPDATE of the whole row from the copy, once nobody else holds it. *)
UpdateRow(c) ==
    LET w == bulk[c]
        l == Head(w.todo)
    IN  /\ w.stage = "update" /\ WaitsFor(c) = {}
        /\ BulkGoes(c, [w EXCEPT !.stage = "http", !.todo = Tail(@), !.held = @ \cup {l},
                                 !.copies[l] = IF w.op = "enrich_all" THEN [@ EXCEPT !.domain = TRUE]
                                               ELSE [@ EXCEPT !.sent = TRUE]])
        /\ UNCHANGED rows

(* PostgreSQL breaks a circle of waits: one of its transactions is aborted  *)
(* and loses its updates and locks; the request goes on with its list.      *)
AbortDeadlock(c) ==
    /\ \E S \in SUBSET BulkCalls : c \in S /\ Circle(S)
    /\ BulkGoes(c, [bulk[c] EXCEPT !.stage = "aborted", !.todo = Tail(@), !.held = {}])
    /\ UNCHANGED rows

(* The commit at the end; of an aborted transaction nothing is committed,   *)
(* and the request answers with what it had counted. *)
CommitBulk(c) ==
    LET w == bulk[c]
    IN  /\ w.stage \in { "http", "aborted" } /\ w.todo = << >>
        /\ rows' = [l \in BulkLeads |-> IF l \in w.held THEN w.copies[l] ELSE rows[l]]
        /\ BulkGoes(c, NotBulk)

BulkNext ==
    \E c \in BulkCalls :
        \/ \E op \in Requests : \E list \in Lists(op) : StartBulk(c, op, list)
        \/ HttpCall(c) \/ UpdateRow(c) \/ AbortDeadlock(c) \/ CommitBulk(c)

BulkTypeOK ==
    /\ rows \in [BulkLeads -> Row]
    /\ \A c \in BulkCalls :
        /\ bulk[c].op \in Requests \cup { "none" } /\ bulk[c].stage \in BulkStages
        /\ bulk[c].todo \in Seq(BulkLeads) /\ bulk[c].copies \in [BulkLeads -> Row]
        /\ bulk[c].held \subseteq BulkLeads

(* Requests that hold rows while they wait for others can only wait in a    *)
(* circle if one of them goes through lead_ids in the client's order: those *)
(* that take a page all go from the newest lead to the oldest, whatever     *)
(* leads their copies let them skip. *)
CircleNeedsAList ==
    \A S \in SUBSET BulkCalls : Circle(S) => \E c \in S : bulk[c].op = "send_listed"

BulkSpec == BulkInit /\ [][BulkNext]_bulkVars
=============================================================================
