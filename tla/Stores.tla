------------------------------- MODULE Stores -------------------------------
(***************************************************************************)
(* The file stores and the sandbox side by side.  They share neither a     *)
(* file nor a process, so a behaviour is one of a single system: "store"   *)
(* says which.  The task store is used through the product or through both *)
(* its entry points, the canary by one executor or by several.             *)
(***************************************************************************)
EXTENDS Integers, Sequences

CONSTANTS
  Importers, Packages, TaskOf, MaxImports,               \* see TaskStore
  Lone,                                                  \* an executor that is the only one
  Executors, N, MaxLaunches,                             \* see CanaryJournal: N calls
  Processes, Records, Snapshots, RecordFiles, MaxFiles,  \* see EvidenceStore
  Nobody, Missing, Garbled, Partial

VARIABLES
  store,
  snapshot, index, importer, importLock, clock,
  marker, evidence, provider, closeout, executor, launches, answers,
  saved, files, extra, locks, storeLock, busy, attempt, started, receipt, process, verdicts,
  client, security, status, listed, container, requested, root, artifacts, manifest, returned

taskVars == <<snapshot, index, importer, importLock, clock>>
canaryVars == <<marker, evidence, provider, closeout, executor, launches, answers>>
evidenceVars ==
  <<saved, files, extra, locks, storeLock, busy, attempt, started, receipt, process, verdicts>>
sandboxVars ==
  <<client, security, status, listed, container, requested, root, artifacts, manifest, returned>>
vars == <<store, taskVars, canaryVars, evidenceVars, sandboxVars>>

\* The entry points through which tasks are imported.
Entries == IF store = "product" THEN {"product"} ELSE {"product", "command line"}

Task == INSTANCE TaskStore WITH lock <- importLock, entries <- Entries

Canary == INSTANCE CanaryJournal WITH Executors <- {Lone}, Calls <- 1 .. N
Canaries == INSTANCE CanaryJournal WITH Calls <- 1 .. N

Evidence == INSTANCE EvidenceStore WITH lock <- storeLock

Sandbox == INSTANCE SandboxRun

ASSUME StoresAssumption ==
  /\ MaxImports \in Nat /\ Nobody \notin Importers
  /\ Missing # Garbled /\ {Missing, Garbled} \cap Task!Record = {}
  /\ N \in Nat \ {0}
  /\ Missing # Partial /\ {Missing, Partial} \cap (Canaries!Statuses \cup {"whole"}) = {}
  /\ MaxFiles \in Nat /\ RecordFiles \in Nat
  /\ Nobody \notin Processes /\ Missing \notin Evidence!Acceptances

Init ==
  /\ store \in {"product", "both", "canary", "canaries", "evidence", "sandbox"}
  /\ Task!Empty
  /\ IF store = "canary" THEN Canary!Init ELSE Canaries!Init
  /\ Evidence!Init /\ Sandbox!Init

Imports ==
  /\ store \in {"product", "both"}
  /\ UNCHANGED <<store, canaryVars, evidenceVars, sandboxVars>>
  /\ Task!Next

Launches ==
  /\ \/ store = "canary" /\ Canary!Next
     \/ store = "canaries" /\ Canaries!Next
  /\ UNCHANGED <<store, taskVars, evidenceVars, sandboxVars>>

Requests ==
  /\ store = "evidence" /\ Evidence!Next
  /\ UNCHANGED <<store, taskVars, canaryVars, sandboxVars>>

Verifiers ==
  /\ store = "sandbox" /\ Sandbox!Next
  /\ UNCHANGED <<store, taskVars, canaryVars, evidenceVars>>

Next == Imports \/ Launches \/ Requests \/ Verifiers

Spec == Init /\ [][Next]_vars

-----------------------------------------------------------------------------
\* Snapshots and entries stay what they are; see TaskStore.
TasksAreImmutable == Task!TasksAreImmutable

\* Even product imports alone are not idempotent; see TaskStore.
ReimportsAgree == Task!ProductOnly => Task!ReimportsAgree

\* One executor sends no call twice; see CanaryJournal.
LaunchedOnce == store = "canary" => Canary!LaunchedOnce

\* Even several executors send no call past a failure, and what one executor rests
\* on stays; see CanaryJournal.
NoLaunchPastFailure ==
  Canaries!NoLaunchPastFailure /\ (store = "canary" => Canary!EvidenceStands)

\* A record is verified once; see EvidenceStore.
OneVerification == Evidence!OneVerification

\* A verified cleanup means no container; see SandboxRun.
RecordedMeansGone == Sandbox!RecordedMeansGone

\* Snapshots are confined to the envelope; see EvidenceStore.
SnapshotsKeepEnvelope == Evidence!SnapshotsKeepEnvelope
=============================================================================
