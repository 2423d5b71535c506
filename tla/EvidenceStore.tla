---------------------------- MODULE EvidenceStore ----------------------------
(***************************************************************************)
(* The private evidence store (external_evidence, code_snapshots): records *)
(* and code snapshots that are staged and renamed into place, and the one  *)
(* verification a record may have.  Processes may die between two file     *)
(* operations.  Every request first checks that the whole store stays      *)
(* within a number of files, and is refused when it does not.              *)
(***************************************************************************)
EXTENDS Integers, Sequences

CONSTANTS
  Processes,
  Records,
  Snapshots,
  RecordFiles, \* the files of a record
  MaxFiles,    \* STORE_MAX_FILES
  Nobody, Missing

VARIABLES
  saved,    \* the records and snapshots in their places
  files,    \* the number of files in the store
  extra,    \* of these, the ones verifications have added (observed, not stored)
  locks,    \* the lock files that exist: "target" and a record for its verification
  lock,     \* who holds the store lock
  busy,     \* who holds the verification lock of each record
  attempt,  \* verification-attempt.json of each record: Missing, "partial" or "whole"
  started,  \* the records with a .verifier-started
  receipt,  \* verification.json: Missing, "partial" or an acceptance
  process,
  verdicts  \* what each verifier run of a record came to (observed, not stored)

vars == <<saved, files, extra, locks, lock, busy, attempt, started, receipt, process, verdicts>>

Acceptances == {"NOT_VERIFIED", "VERIFIED_PASS", "VERIFIED_FAIL"}

Idle == [pc |-> "idle"]

Init ==
  /\ saved = {} /\ files = 0 /\ extra = 0 /\ locks = {}
  /\ lock = Nobody /\ busy = [r \in Records |-> Nobody]
  /\ attempt = [r \in Records |-> Missing]
  /\ started = {}
  /\ receipt = [r \in Records |-> Missing]
  /\ process = [p \in Processes |-> Idle]
  /\ verdicts = [r \in Records |-> <<>>]

At(p, pc) == process[p].pc = pc
Goto(p, pc) == process' = [process EXCEPT ![p].pc = pc]
Item(p) == process[p].item

Leave(p) ==
  /\ process' = [process EXCEPT ![p] = Idle]
  /\ lock' = IF lock = p THEN Nobody ELSE lock
  /\ busy' = [r \in Records |-> IF busy[r] = p THEN Nobody ELSE busy[r]]

Adds(n) == files' = files + n

Verifications == <<attempt, started, receipt, verdicts>>

\* load_policy: validate_store refuses a store that has grown too large.
Request(p, item, pc) ==
  /\ At(p, "idle") /\ files <= MaxFiles
  /\ process' = [process EXCEPT ![p] = [pc |-> pc, item |-> item]]
  /\ UNCHANGED <<saved, files, extra, locks, lock, busy, Verifications>>

Ingest(p) == \E r \in Records : Request(p, r, "ingest")
Confirm(p) == \E k \in Snapshots : Request(p, k, "confirm")
VerifyWorkspace(p) == \E r \in Records \cap saved : Request(p, r, "verify")

\* Mutant: confirm does not take the lock of the store.
Waits_RecordsOnly(p) == At(p, "ingest")
Waits(p) == At(p, "ingest") \/ At(p, "confirm")

\* ingest and confirm wait for the store lock.
TakeStoreLock(p) ==
  /\ process[p].pc \in {"ingest", "confirm"}
  /\ Waits(p) => lock = Nobody
  /\ lock' = IF Waits(p) THEN p ELSE lock
  /\ Goto(p, IF At(p, "ingest") THEN "stage" ELSE "room")
  /\ UNCHANGED <<saved, files, extra, locks, busy, Verifications>>

\* ingest: a record is staged inside the store, whatever room there is ...
StageRecord(p) ==
  /\ At(p, "stage")
  /\ IF Item(p) \in saved
     THEN Leave(p) /\ UNCHANGED files
     ELSE Adds(RecordFiles) /\ Goto(p, "publish") /\ UNCHANGED <<lock, busy>>
  /\ UNCHANGED <<saved, extra, locks, Verifications>>

\* ... and renamed to its place. What a dead process staged stays.
Publish(p) ==
  /\ At(p, "publish")
  /\ saved' = saved \cup {Item(p)}
  /\ Leave(p)
  /\ UNCHANGED <<files, extra, locks, Verifications>>

\* An exception on the way: the staging directory is removed.
Unstage(p) ==
  /\ At(p, "publish")
  /\ files' = files - RecordFiles
  /\ Leave(p)
  /\ UNCHANGED <<saved, extra, locks, Verifications>>

HasRoom == files <= MaxFiles - 2

\* confirm: there is room for the snapshot and for the lock file of the snapshots.
CheckRoom(p) ==
  /\ At(p, "room")
  /\ IF Item(p) \in saved \/ HasRoom
     THEN /\ process' = [process EXCEPT ![p] =
               [pc |-> "target", item |-> Item(p), extra |-> extra]]
          /\ UNCHANGED <<lock, busy>>
     ELSE Leave(p)
  /\ UNCHANGED <<saved, files, extra, locks, Verifications>>

\* The lock file of the snapshots is created by whoever comes first.
OpenTarget(p) ==
  /\ At(p, "target")
  /\ Adds(IF "target" \in locks THEN 0 ELSE 1)
  /\ locks' = locks \cup {"target"}
  /\ Goto(p, "move")
  /\ UNCHANGED <<saved, extra, lock, busy, Verifications>>

\* The snapshot is staged beside the store and renamed into it.
MoveSnapshot(p) ==
  /\ At(p, "move")
  /\ Adds(IF Item(p) \in saved THEN 0 ELSE 1)
  /\ saved' = saved \cup {Item(p)}
  /\ Leave(p)
  /\ UNCHANGED <<extra, locks, Verifications>>

-----------------------------------------------------------------------------
(* verify_workspace, under the lock of its record only. *)

\* Opening the lock file creates it; a lock that is taken raises.
LockRecord(p) ==
  /\ At(p, "verify")
  /\ LET new == IF Item(p) \in locks THEN 0 ELSE 1
     IN  Adds(new) /\ extra' = extra + new
  /\ locks' = locks \cup {Item(p)}
  /\ IF busy[Item(p)] = Nobody
     THEN /\ busy' = [busy EXCEPT ![Item(p)] = p]
          /\ Goto(p, "prior") /\ UNCHANGED lock
     ELSE Leave(p)
  /\ UNCHANGED <<saved, Verifications>>

\* A receipt is returned, one that does not decode raises.
Prior(p) ==
  /\ At(p, "prior")
  /\ IF receipt[Item(p)] = Missing
     THEN Goto(p, "attempt") /\ UNCHANGED <<lock, busy>>
     ELSE Leave(p)
  /\ UNCHANGED <<saved, files, extra, locks, Verifications>>

\* _write_once, for a file that only its writer can find empty; a file that is
\* there must hold the same bytes.
Attempt(p) ==
  /\ At(p, "attempt")
  /\ CASE attempt[Item(p)] = Missing ->
            /\ attempt' = [attempt EXCEPT ![Item(p)] = "partial"]
            /\ Adds(1) /\ extra' = extra + 1
            /\ Goto(p, "fill_attempt") /\ UNCHANGED <<lock, busy>>
       [] attempt[Item(p)] = "whole" ->
            Goto(p, "start") /\ UNCHANGED <<attempt, files, extra, lock, busy>>
       [] attempt[Item(p)] = "partial" ->
            Leave(p) /\ UNCHANGED <<attempt, files, extra>>
  /\ UNCHANGED <<saved, locks, started, receipt, verdicts>>

FillAttempt(p) ==
  /\ At(p, "fill_attempt")
  /\ attempt' = [attempt EXCEPT ![Item(p)] = "whole"]
  /\ Goto(p, "start")
  /\ UNCHANGED <<saved, files, extra, locks, lock, busy, started, receipt, verdicts>>

\* Mutant: like the attempt, a start that is there already is as good.
Burnt_Never(r) == FALSE
Burnt(r) == r \in started

\* "Existence itself must burn the attempt".
StartVerifier(p) ==
  /\ At(p, "start")
  /\ IF Burnt(Item(p))
     THEN Leave(p) /\ UNCHANGED <<files, extra>>
     ELSE Adds(1) /\ extra' = extra + 1 /\ Goto(p, "run") /\ UNCHANGED <<lock, busy>>
  /\ started' = started \cup {Item(p)}
  /\ UNCHANGED <<saved, locks, attempt, receipt, verdicts>>

\* The sandbox runs the hidden verifier; a report that is incomplete or does not
\* come leaves the receipt NOT_VERIFIED.
RunVerifier(p) ==
  /\ At(p, "run")
  /\ \E acceptance \in Acceptances :
        /\ verdicts' = [verdicts EXCEPT ![Item(p)] = Append(@, acceptance)]
        /\ process' = [process EXCEPT ![p] =
             [pc |-> "receipt", item |-> Item(p), acceptance |-> acceptance]]
  /\ UNCHANGED <<saved, files, extra, locks, lock, busy, attempt, started, receipt>>

CreateReceipt(p) ==
  /\ At(p, "receipt")
  /\ receipt' = [receipt EXCEPT ![Item(p)] = "partial"]
  /\ Adds(1) /\ extra' = extra + 1
  /\ Goto(p, "fill_receipt")
  /\ UNCHANGED <<saved, locks, lock, busy, attempt, started, verdicts>>

FillReceipt(p) ==
  /\ At(p, "fill_receipt")
  /\ receipt' = [receipt EXCEPT ![Item(p)] = process[p].acceptance]
  /\ Leave(p)
  /\ UNCHANGED <<saved, files, extra, locks, attempt, started, verdicts>>

\* The process dies, or raises without anything to remove.
Crash(p) ==
  /\ ~At(p, "idle")
  /\ Leave(p)
  /\ UNCHANGED <<saved, files, extra, locks, Verifications>>

Next ==
  \E p \in Processes :
     \/ Ingest(p) \/ Confirm(p) \/ VerifyWorkspace(p) \/ TakeStoreLock(p)
     \/ StageRecord(p) \/ Publish(p) \/ Unstage(p)
     \/ CheckRoom(p) \/ OpenTarget(p) \/ MoveSnapshot(p)
     \/ LockRecord(p) \/ Prior(p) \/ Attempt(p) \/ FillAttempt(p) \/ StartVerifier(p)
     \/ RunVerifier(p) \/ CreateReceipt(p) \/ FillReceipt(p)
     \/ Crash(p)

Spec == Init /\ [][Next]_vars

-----------------------------------------------------------------------------
(* Properties. *)

\* One attempt and no retry: however often verification of a record is asked
\* for, raced for and killed, its verifier runs once at most, and a receipt that
\* accepts or rejects the workspace says what that run said.
OneVerification ==
  \A r \in Records :
     /\ Len(verdicts[r]) <= 1
     /\ receipt[r] \in {"VERIFIED_PASS", "VERIFIED_FAIL"} => verdicts[r] = <<receipt[r]>>

\* "A new snapshot cannot exceed the shared envelope": storing one takes the
\* store past its limit only by the files that verifications, which do not take
\* the store lock, added after its room was checked.
SnapshotKeepsEnvelope ==
  \A p \in Processes :
     At(p, "move") /\ process'[p] = Idle /\ saved' # saved
       => files' <= MaxFiles + (extra - process[p].extra)
SnapshotsKeepEnvelope == [][SnapshotKeepsEnvelope]_vars
=============================================================================
