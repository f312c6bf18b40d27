----------------------------- MODULE SignedBackups -----------------------------
(***************************************************************************)
(* Signed backups (app/services/signed_backup.py): a manifest in a Redis   *)
(* hash, the data in a key of its own, and one signing key that the first  *)
(* call to need it makes.  Verifying marks a manifest it has read before.  *)
(***************************************************************************)
EXTENDS Integers, FiniteSets

CONSTANTS
    BackupCalls,    \* API calls that may overlap
    MaxBackups,     \* bound: backups created
    MaxBackupCrashes, \* bound: processes lost during a call
    MaxAltered      \* bound: backups whose data is altered in Redis

ASSUME BackupsAssumption ==
    MaxBackups \in Nat \ {0} /\ MaxBackupCrashes \in Nat /\ MaxAltered \in Nat

BackupIds == 1 .. MaxBackups
NoManifest == [status |-> "none", key |-> 0]
BackupIdle == [op |-> "idle", id |-> 0, creates |-> FALSE, copy |-> NoManifest, key |-> 0]

VARIABLES
    signingKey,     \* backups:signing_key, 0 for none
    madeKeys,       \* keys made so far
    manifests,      \* the hash of manifests
    backupData,     \* the ids with a key backup:data:{id}
    altered,        \* the ids whose data is no more what was stored
    backups,        \* backups begun so far
    backupCall,     \* the calls in flight
    gone,           \* history: data that expired, or was never stored for a crash
    backupCrashes   \* bound

backupsVars == << signingKey, madeKeys, manifests, backupData, altered, backups, backupCall, gone, backupCrashes >>
keyVars == << signingKey, madeKeys >>
storedVars == << manifests, backupData, altered >>

BackupsInit ==
    /\ signingKey = 0 /\ madeKeys = 0 /\ backups = 0
    /\ manifests = [id \in BackupIds |-> NoManifest] /\ backupData = {} /\ altered = {}
    /\ backupCall = [c \in BackupCalls |-> BackupIdle]
    /\ gone = {} /\ backupCrashes = 0

(* A call begins, goes on with a key, and ends. *)
BackupBegins(c, op, id, creates, copy) == backupCall' = [backupCall EXCEPT ![c] =
    [op |-> op, id |-> id, creates |-> creates, copy |-> copy, key |-> 0]]
BackupGoes(c, op, key) == LET w == backupCall[c] IN backupCall' = [backupCall EXCEPT ![c] =
    [op |-> op, id |-> w.id, creates |-> w.creates, copy |-> w.copy, key |-> key]]
BackupEnds(c) == backupCall' = [backupCall EXCEPT ![c] = BackupIdle]
HasManifest(id) == manifests[id] # NoManifest
-----------------------------------------------------------------------------
CreateBackup(c) ==
    /\ backupCall[c] = BackupIdle /\ backups < MaxBackups
    /\ backups' = backups + 1
    /\ BackupBegins(c, "get_key", backups + 1, TRUE, NoManifest)
    /\ UNCHANGED << keyVars, storedVars, gone, backupCrashes >>

(* _get_signing_key: who reads no key makes one and sets it, *)
GetSigningKey(c) ==
    /\ backupCall[c].op = "get_key"
    /\ BackupGoes(c, IF signingKey = 0 THEN "set_key" ELSE "sign", signingKey)
    /\ UNCHANGED << keyVars, storedVars, backups, gone, backupCrashes >>

(* over one that another call has set meanwhile. *)
SetSigningKey(c) ==
    /\ backupCall[c].op = "set_key"
    /\ madeKeys' = madeKeys + 1 /\ signingKey' = madeKeys + 1
    /\ BackupGoes(c, "sign", madeKeys + 1)
    /\ UNCHANGED << storedVars, backups, gone, backupCrashes >>

(* The manifest goes first, *)
StoreManifest(c) ==
    LET w == backupCall[c]
    IN  /\ w.op = "sign" /\ w.creates
        /\ manifests' = [manifests EXCEPT ![w.id] = [status |-> "verified", key |-> w.key]]
        /\ BackupGoes(c, "data", w.key)
        /\ UNCHANGED << keyVars, backupData, altered, backups, gone, backupCrashes >>

(* then the data. *)
StoreData(c) ==
    /\ backupCall[c].op = "data"
    /\ backupData' = backupData \cup { backupCall[c].id }
    /\ BackupEnds(c)
    /\ UNCHANGED << keyVars, manifests, altered, backups, gone, backupCrashes >>

(* verify_backup, of a restore too: the manifest, the data with its checksum, *)
VerifyBackup(c, id) ==
    /\ backupCall[c] = BackupIdle /\ HasManifest(id)
    /\ BackupBegins(c, "check", id, FALSE, manifests[id])
    /\ UNCHANGED << keyVars, storedVars, backups, gone, backupCrashes >>

CheckData(c) ==
    /\ backupCall[c].op = "check"
    /\ IF backupCall[c].id \notin backupData THEN BackupEnds(c)
       ELSE BackupGoes(c, IF backupCall[c].id \in altered THEN "mark" ELSE "get_key", 0)
    /\ UNCHANGED << keyVars, storedVars, backups, gone, backupCrashes >>

(* which if it differs marks the copy and sets it, *)
ChecksumDiffers(c) ==
    LET w == backupCall[c]
    IN  /\ w.op = "mark"
        /\ manifests' = [manifests EXCEPT ![w.id] = [status |-> "corrupted", key |-> w.copy.key]]
        /\ BackupEnds(c)
        /\ UNCHANGED << keyVars, backupData, altered, backups, gone, backupCrashes >>

\* Mutant: a success is noted in the manifest too.
VerifySignature_Noted(c) ==
    LET w == backupCall[c]
    IN  /\ w.op = "sign" /\ ~w.creates
        /\ manifests' = [manifests EXCEPT ![w.id] =
                [w.copy EXCEPT !.status = IF w.copy.key = w.key THEN "verified" ELSE "corrupted"]]
        /\ BackupEnds(c)
        /\ UNCHANGED << keyVars, backupData, altered, backups, gone, backupCrashes >>

(* the key, and a signature that differs does the same, even if the backup  *)
(* was deleted meanwhile. *)
VerifySignature(c) ==
    LET w == backupCall[c]
    IN  /\ w.op = "sign" /\ ~w.creates
        /\ manifests' = IF w.copy.key = w.key THEN manifests
                        ELSE [manifests EXCEPT ![w.id] = [status |-> "corrupted", key |-> w.copy.key]]
        /\ BackupEnds(c)
        /\ UNCHANGED << keyVars, backupData, altered, backups, gone, backupCrashes >>

DeleteBackup(c, id) ==
    /\ backupCall[c] = BackupIdle /\ HasManifest(id)
    /\ BackupBegins(c, "delete", id, FALSE, NoManifest)
    /\ UNCHANGED << keyVars, storedVars, backups, gone, backupCrashes >>

DeleteManifest(c) ==
    /\ backupCall[c].op = "delete"
    /\ manifests' = [manifests EXCEPT ![backupCall[c].id] = NoManifest]
    /\ BackupGoes(c, "delete_data", 0)
    /\ UNCHANGED << keyVars, backupData, altered, backups, gone, backupCrashes >>

DeleteData(c) ==
    /\ backupCall[c].op = "delete_data"
    /\ backupData' = backupData \ { backupCall[c].id }
    /\ BackupEnds(c)
    /\ UNCHANGED << keyVars, manifests, altered, backups, gone, backupCrashes >>

(* The data lives for 30 days, the manifest for ever. *)
DataExpires(id) ==
    /\ id \in backupData
    /\ backupData' = backupData \ { id } /\ gone' = gone \cup { id }
    /\ UNCHANGED << keyVars, manifests, altered, backups, backupCall, backupCrashes >>

(* From outside, or by a fault of the memory. *)
DataAltered(id) ==
    /\ id \in backupData \ altered /\ Cardinality(altered) < MaxAltered
    /\ altered' = altered \cup { id }
    /\ UNCHANGED << keyVars, manifests, backupData, backups, backupCall, gone, backupCrashes >>

BackupCrash(c) ==
    LET w == backupCall[c]
    IN  /\ w # BackupIdle /\ backupCrashes < MaxBackupCrashes
        /\ gone' = IF w.op = "data" THEN gone \cup { w.id } ELSE gone
        /\ backupCrashes' = backupCrashes + 1
        /\ BackupEnds(c)
        /\ UNCHANGED << keyVars, storedVars, backups >>

BackupsNext ==
    \/ \E c \in BackupCalls :
        \/ CreateBackup(c) \/ GetSigningKey(c) \/ SetSigningKey(c) \/ StoreManifest(c) \/ StoreData(c)
        \/ CheckData(c) \/ ChecksumDiffers(c) \/ VerifySignature(c)
        \/ DeleteManifest(c) \/ DeleteData(c) \/ BackupCrash(c)
        \/ \E id \in BackupIds : VerifyBackup(c, id) \/ DeleteBackup(c, id)
    \/ \E id \in BackupIds : DataExpires(id) \/ DataAltered(id)

BackupsTypeOK ==
    /\ signingKey \in 0 .. madeKeys /\ backups \in 0 .. MaxBackups
    /\ backupData \subseteq BackupIds /\ altered \subseteq BackupIds /\ gone \subseteq BackupIds
    /\ manifests \in [BackupIds -> [status : { "none", "verified", "corrupted" }, key : 0 .. madeKeys]]
    /\ \A c \in BackupCalls : backupCall[c].id \in 0 .. backups /\ backupCall[c].key \in 0 .. madeKeys

(* What a manifest says is true, however create, verify and delete overlap: *)
(* one that says verified has its data, or will have it, or the data went   *)
(* by age or with a process; one that says corrupted has data that was      *)
(* altered, or is signed with a key that two first calls made apart and one *)
(* of them replaced, so it will never verify again.  (It may be one that was *)
(* deleted, and one that says verified may not have been looked at since.)  *)
ManifestsAreTrue ==
    \A id \in BackupIds :
        /\ manifests[id].status = "verified" =>
            \/ id \in backupData \cup gone
            \/ \E c \in BackupCalls : backupCall[c].op = "data" /\ backupCall[c].id = id
        /\ manifests[id].status = "corrupted" => id \in altered \/ manifests[id].key # signingKey

BackupsSpec == BackupsInit /\ [][BackupsNext]_backupsVars
=============================================================================
