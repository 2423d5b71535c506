---------------------------- MODULE StoresProofs ----------------------------
(***************************************************************************)
(* Theorems about the stores of Stores, for all importers, packages,       *)
(* executors, calls, processes and records: the task store and the sandbox *)
(* are proved about here, the canary and the evidence store through the    *)
(* theorems of CanaryJournalProofs and EvidenceStoreProofs.                *)
(***************************************************************************)
EXTENDS Stores, TLAPS

-----------------------------------------------------------------------------
(* The task store: its invariant. *)

\* The points of an import at which its snapshot is in place.
Placed == {"open", "write", "verify"}

Import == [pc : {"look", "rename"} \cup Placed, record : Task!Record]

ImportShape ==
  /\ snapshot \in [Packages -> Task!Record \cup {Missing}]
  /\ index \in [Task!Tasks -> Task!Record \cup {Missing, Garbled}]
  /\ importer \in [Importers -> {Task!Idle} \cup Import]
  /\ clock \in Nat \ {0}

\* The task that an import is about.
Subject(i) == TaskOf[importer[i].record.package]

\* An index file that says anything names the task and a snapshot in place, and an
\* import writes it once its own snapshot is.
EntriesOK ==
  /\ \A t \in Task!Tasks :
       index[t] \in Task!Record
         => TaskOf[index[t].package] = t /\ snapshot[index[t].package] # Missing
  /\ \A i \in Importers :
       importer[i].pc \in Placed => snapshot[importer[i].record.package] # Missing

\* A product import has the store to itself, and writes an index file that it
\* found missing.
Alone ==
  Task!ProductOnly =>
    \A i \in Importers :
       /\ importer[i].pc # "idle" => importLock = i
       /\ importer[i].pc \in {"rename", "open"} => index[Subject(i)] = Missing
       /\ importer[i].pc = "write" => index[Subject(i)] = Garbled

TaskInv == ImportShape /\ EntriesOK /\ Alone

\* What a step of an import may do: no snapshot changes, and where there are only
\* product imports, no binding.
TaskStep == Task!EntriesNameSnapshots /\ (Task!ProductOnly => Task!BindingsStay)

LEMMA RecordFacts ==
  ASSUME NEW record \in Task!Record
  PROVE  /\ record.package \in Packages /\ TaskOf[record.package] \in Task!Tasks
         /\ record # Missing /\ record # Garbled
  BY StoresAssumption DEF Task!Record, Task!Tasks

LEMMA ImportFacts ==
  ASSUME ImportShape, NEW i \in Importers, importer[i].pc # "idle"
  PROVE  /\ importer[i] \in Import /\ importer[i].record \in Task!Record
         /\ importer[i].pc \in {"look", "rename"} \cup Placed
         /\ Subject(i) \in Task!Tasks
  <1>1. importer[i] \in Import
    BY DEF ImportShape, Task!Idle
  <1>. QED
    BY <1>1, RecordFacts DEF Import, Subject

LEMMA IdleFacts ==
  /\ Task!Idle.pc = "idle" /\ Task!Idle \notin Import
  /\ \A x \in Import : x.pc # "idle"
  BY DEF Task!Idle, Import, Placed

\* An import that returns, raises or dies.
LEMMA LeaveKeepsTasks ==
  ASSUME TaskInv, NEW i \in Importers, ~Task!At(i, "idle"), Task!Leave(i),
         UNCHANGED <<snapshot, index, clock, Entries>>
  PROVE  TaskInv' /\ TaskStep
  <1>1. \A j \in Importers : importer'[j] = IF j = i THEN Task!Idle ELSE importer[j]
    BY DEF Task!Leave, TaskInv, ImportShape
  <1>2. ImportShape'
    BY DEF Task!Leave, TaskInv, ImportShape
  <1>3. EntriesOK'
    BY <1>1, IdleFacts DEF TaskInv, EntriesOK, Placed
  <1>4. Alone'
    <2> SUFFICES ASSUME Task!ProductOnly', NEW j \in Importers, importer'[j].pc # "idle"
                 PROVE  FALSE
      BY <1>1, IdleFacts DEF Alone
    <2>1. j # i /\ importer[j].pc # "idle"
      BY <1>1, IdleFacts
    <2>. QED
      BY <2>1 DEF TaskInv, Alone, Task!ProductOnly, Task!At
  <1>5. TaskStep
    BY RecordFacts DEF TaskStep, Task!EntriesNameSnapshots, Task!BindingsStay, Task!Bindings,
                       TaskInv, ImportShape, EntriesOK
  <1>. QED
    BY <1>2, <1>3, <1>4, <1>5 DEF TaskInv

\* An import that goes on, with its record, to the next point.
LEMMA StepKeepsTasks ==
  ASSUME TaskInv, NEW i \in Importers, importer[i].pc # "idle",
         NEW pc \in {"look", "rename"} \cup Placed,
         importer' = [importer EXCEPT ![i].pc = pc],
         UNCHANGED <<importLock, clock, Entries>>,
         \* one file at most is written, and it stays in order
         snapshot' \in [Packages -> Task!Record \cup {Missing}],
         \A p \in Packages : snapshot[p] # Missing => snapshot'[p] = snapshot[p],
         pc \in Placed => snapshot'[importer[i].record.package] # Missing,
         NEW entry \in Task!Record \cup {Missing, Garbled},
         index' = [index EXCEPT ![Subject(i)] = entry],
         entry \in Task!Record
           => TaskOf[entry.package] = Subject(i) /\ snapshot'[entry.package] # Missing,
         Task!ProductOnly /\ index[Subject(i)] \notin {Missing, Garbled}
           => entry = index[Subject(i)],
         Task!ProductOnly /\ pc \in {"rename", "open"} => entry = Missing,
         Task!ProductOnly /\ pc = "write" => entry = Garbled
  PROVE  TaskInv' /\ TaskStep
  <1>0. ImportShape /\ EntriesOK /\ Alone
    BY DEF TaskInv
  <1>1. importer[i] \in Import /\ Subject(i) \in Task!Tasks
    BY <1>0, ImportFacts
  <1> DEFINE next == [importer[i] EXCEPT !.pc = pc]
  <1>2. next \in Import /\ next.pc = pc /\ next.record = importer[i].record
    BY <1>1 DEF Import
  <1>3. \A j \in Importers : importer'[j] = IF j = i THEN next ELSE importer[j]
    BY <1>0 DEF ImportShape
  <1>4. \A t \in Task!Tasks : index'[t] = IF t = Subject(i) THEN entry ELSE index[t]
    BY <1>0 DEF ImportShape
  <1>5. ImportShape'
    <2>1. importer' \in [Importers -> {Task!Idle} \cup Import]
      BY <1>0, <1>2 DEF ImportShape
    <2>. QED
      BY <1>0, <2>1 DEF ImportShape
  <1>. HIDE DEF next
  <1>6. EntriesOK'
    <2>1. ASSUME NEW t \in Task!Tasks, index'[t] \in Task!Record
          PROVE  TaskOf[index'[t].package] = t /\ snapshot'[index'[t].package] # Missing
      BY <1>0, <1>4, <2>1, RecordFacts DEF EntriesOK
    <2>2. ASSUME NEW j \in Importers, importer'[j].pc \in Placed
          PROVE  snapshot'[importer'[j].record.package] # Missing
      <3>1. CASE j = i
        BY <1>2, <1>3, <2>2, <3>1
      <3>2. CASE j # i
        <4>1. importer[j].pc # "idle" /\ importer[j].pc \in Placed /\ importer'[j] = importer[j]
          BY <1>3, <2>2, <3>2 DEF Placed
        <4>2. importer[j].record.package \in Packages
          BY <1>0, <4>1, ImportFacts, RecordFacts
        <4>. QED
          BY <1>0, <4>1, <4>2 DEF EntriesOK
      <3>. QED
        BY <3>1, <3>2
    <2>. QED
      BY <2>1, <2>2 DEF EntriesOK
  <1>7. Alone'
    <2> SUFFICES ASSUME Task!ProductOnly', NEW j \in Importers, importer'[j].pc # "idle"
                 PROVE  /\ importLock' = j
                        /\ importer'[j].pc \in {"rename", "open"} => index'[Subject(j)'] = Missing
                        /\ importer'[j].pc = "write" => index'[Subject(j)'] = Garbled
      BY DEF Alone, Placed
    <2>1. Task!ProductOnly /\ importLock = i
      BY <1>0 DEF Alone, Task!ProductOnly
    <2>2. j = i
      BY <1>0, <1>3, <2>1 DEF Alone
    <2>3. Subject(j)' = Subject(i) /\ importer'[j].pc = pc
      BY <1>2, <1>3, <2>2 DEF Subject
    <2>. QED
      BY <1>1, <1>4, <2>1, <2>2, <2>3
  <1>8. TaskStep
    <2>1. Task!EntriesNameSnapshots
      <3> SUFFICES ASSUME NEW t \in Task!Tasks, index'[t] \notin {Missing, Garbled}
                   PROVE  TaskOf[index'[t].package] = t /\ snapshot'[index'[t].package] # Missing
        BY DEF Task!EntriesNameSnapshots, Task!Bindings
      <3>. QED
        BY <1>5, <1>6 DEF ImportShape, EntriesOK
    <2>2. Task!ProductOnly => Task!BindingsStay
      BY <1>4 DEF Task!BindingsStay, Task!Bindings
    <2>. QED
      BY <2>1, <2>2 DEF TaskStep
  <1>. QED
    BY <1>5, <1>6, <1>7, <1>8 DEF TaskInv

\* An import of the product finds the store to itself.
LEMMA BeginKeepsTasks ==
  ASSUME TaskInv, NEW i \in Importers, NEW entry \in Entries, NEW p \in Packages,
         Task!Begin(i, entry, p), UNCHANGED Entries
  PROVE  TaskInv' /\ TaskStep
  <1> DEFINE record == [package |-> p, imported_at |-> clock]
             begun == [pc |-> "look", record |-> record]
  <1>0. ImportShape /\ EntriesOK /\ Alone /\ UNCHANGED <<snapshot, index>>
    BY DEF TaskInv, Task!Begin
  <1>1. begun \in Import /\ begun.pc = "look"
    BY <1>0, StoresAssumption DEF Task!Begin, ImportShape, Task!Record, Import
  <1>2. \A j \in Importers : importer'[j] = IF j = i THEN begun ELSE importer[j]
    BY <1>0 DEF Task!Begin, ImportShape
  <1>3. ImportShape'
    <2>1. importer' \in [Importers -> {Task!Idle} \cup Import]
      BY <1>0, <1>1 DEF Task!Begin, ImportShape
    <2>. QED
      BY <1>0, <2>1 DEF Task!Begin, ImportShape
  <1>. HIDE DEF begun
  <1>4. EntriesOK'
    BY <1>0, <1>1, <1>2 DEF EntriesOK, Placed
  <1>5. Alone'
    <2> SUFFICES ASSUME Task!ProductOnly', NEW j \in Importers, importer'[j].pc # "idle"
                 PROVE  /\ importLock' = j /\ importer'[j].pc = "look"
      BY DEF Alone
    <2>1. Task!ProductOnly /\ importLock = Nobody /\ importLock' = i
      BY DEF Task!ProductOnly, Task!Begin, Task!LockTaken
    <2>2. j = i
      BY <1>0, <1>2, <2>1, StoresAssumption DEF Alone
    <2>. QED
      BY <1>1, <1>2, <2>1, <2>2
  <1>6. TaskStep
    BY <1>0, RecordFacts DEF TaskStep, Task!EntriesNameSnapshots, Task!BindingsStay,
                             Task!Bindings, ImportShape, EntriesOK
  <1>. QED
    BY <1>3, <1>4, <1>5, <1>6 DEF TaskInv

LEMMA LookKeepsTasks ==
  ASSUME TaskInv, NEW i \in Importers, Task!Look(i), UNCHANGED Entries
  PROVE  TaskInv' /\ TaskStep
  <1>0. ImportShape /\ importer[i].pc = "look"
    BY DEF TaskInv, Task!Look, Task!At
  <1>1. importer[i].pc # "idle" /\ importer[i].record \in Task!Record
    BY <1>0, ImportFacts
  <1>2. index[Subject(i)] = Missing /\ Subject(i) \in Task!Tasks
    BY <1>0, <1>1, ImportFacts DEF Task!Look, Subject
  <1> DEFINE pc == IF snapshot[importer[i].record.package] = Missing THEN "rename" ELSE "open"
  <1>3. importer' = [importer EXCEPT ![i].pc = pc]
        /\ UNCHANGED <<importLock, clock, Entries, snapshot, index>>
    BY DEF Task!Look, Task!Goto
  <1>4. pc \in {"rename", "open"} /\ (pc \in Placed => snapshot[importer[i].record.package] # Missing)
    BY DEF Placed
  <1>5. index' = [index EXCEPT ![Subject(i)] = Missing]
    BY <1>0, <1>2, <1>3 DEF ImportShape
  <1>6. pc \in {"look", "rename"} \cup Placed /\ pc # "write"
    BY DEF Placed
  <1>7. snapshot' \in [Packages -> Task!Record \cup {Missing}]
    BY <1>0, <1>3 DEF ImportShape
  <1>. HIDE DEF pc
  <1>8. Missing \notin Task!Record
    BY StoresAssumption
  <1>. QED
    BY <1>1, <1>2, <1>3, <1>4, <1>5, <1>6, <1>7, <1>8, StepKeepsTasks

\* A snapshot is published where there is none.
LEMMA RenameKeepsTasks ==
  ASSUME TaskInv, NEW i \in Importers, Task!Rename(i), UNCHANGED Entries
  PROVE  TaskInv' /\ TaskStep
  <1>0. ImportShape /\ Alone /\ importer[i].pc = "rename"
    BY DEF TaskInv, Task!Rename, Task!At
  <1>1. importer[i].pc # "idle" /\ importer[i].record \in Task!Record
        /\ importer[i].record.package \in Packages /\ Subject(i) \in Task!Tasks
    BY <1>0, ImportFacts, RecordFacts
  <1> DEFINE p == importer[i].record.package
             entry == index[Subject(i)]
  <1>2. CASE snapshot[p] # Missing
    <2>1. Task!Leave(i) /\ ~Task!At(i, "idle") /\ UNCHANGED <<snapshot, index, clock>>
      BY <1>0, <1>2 DEF Task!Rename, Task!At
    <2>. QED
      BY <2>1, LeaveKeepsTasks
  <1>3. CASE snapshot[p] = Missing
    <2>1. /\ snapshot' = [snapshot EXCEPT ![p] = importer[i].record]
          /\ importer' = [importer EXCEPT ![i].pc = "open"]
          /\ UNCHANGED <<importLock, clock, index>>
      BY <1>3 DEF Task!Rename, Task!Goto
    <2>2. /\ snapshot' \in [Packages -> Task!Record \cup {Missing}]
          /\ \A q \in Packages : snapshot[q] # Missing => snapshot'[q] = snapshot[q]
          /\ snapshot'[p] # Missing
      BY <1>0, <1>1, <1>3, <2>1, RecordFacts DEF ImportShape
    <2>3. entry \in Task!Record \cup {Missing, Garbled}
          /\ index' = [index EXCEPT ![Subject(i)] = entry]
      BY <1>0, <1>1, <2>1 DEF ImportShape
    <2>4. entry \in Task!Record
            => TaskOf[entry.package] = Subject(i) /\ snapshot'[entry.package] # Missing
      BY <1>1, <2>2, RecordFacts DEF TaskInv, EntriesOK
    <2>5. Task!ProductOnly => entry = Missing
      BY <1>0 DEF Alone
    <2>6. "open" \in Placed
      BY DEF Placed
    <2>. HIDE DEF entry
    <2>7. Task!ProductOnly /\ index[Subject(i)] \notin {Missing, Garbled} => entry = index[Subject(i)]
      BY DEF entry
    <2>. QED
      BY <1>1, <2>1, <2>2, <2>3, <2>4, <2>5, <2>6, <2>7, StepKeepsTasks
  <1>. QED
    BY <1>2, <1>3

\* The index file that a product import empties was missing ...
LEMMA OpenIndexKeepsTasks ==
  ASSUME TaskInv, NEW i \in Importers, Task!OpenIndex(i), UNCHANGED Entries
  PROVE  TaskInv' /\ TaskStep
  <1>0. ImportShape /\ EntriesOK /\ Alone /\ importer[i].pc = "open"
    BY DEF TaskInv, Task!OpenIndex, Task!At
  <1>1. /\ importer' = [importer EXCEPT ![i].pc = "write"]
        /\ index' = [index EXCEPT ![Subject(i)] = Garbled]
        /\ UNCHANGED <<importLock, clock, snapshot, Entries>>
    BY DEF Task!OpenIndex, Task!Goto, Subject
  <1>2. "write" \in Placed /\ "open" \in Placed /\ Garbled \notin Task!Record
    BY StoresAssumption DEF Placed
  <1>3. importer[i].pc # "idle" /\ snapshot'[importer[i].record.package] # Missing
    BY <1>0, <1>1, <1>2 DEF EntriesOK
  <1>4. Task!ProductOnly => index[Subject(i)] = Missing
    BY <1>0 DEF Alone
  <1>5. snapshot' \in [Packages -> Task!Record \cup {Missing}]
    BY <1>0, <1>1 DEF ImportShape
  <1>6. "write" \in {"look", "rename"} \cup Placed /\ Garbled \in Task!Record \cup {Missing, Garbled}
    BY <1>2
  <1>7. /\ Task!ProductOnly /\ index[Subject(i)] \notin {Missing, Garbled}
             => Garbled = index[Subject(i)]
        /\ Task!ProductOnly /\ "write" \in {"rename", "open"} => Garbled = Missing
    BY <1>4
  <1>. QED
    BY <1>1, <1>2, <1>3, <1>5, <1>6, <1>7, StepKeepsTasks

\* ... and the one that it writes empty.
LEMMA WriteIndexKeepsTasks ==
  ASSUME TaskInv, NEW i \in Importers, Task!WriteIndex(i), UNCHANGED Entries
  PROVE  TaskInv' /\ TaskStep
  <1>0. ImportShape /\ EntriesOK /\ Alone /\ importer[i].pc = "write"
    BY DEF TaskInv, Task!WriteIndex, Task!At
  <1>1. PICK entry \in {importer[i].record} \cup {Garbled} :
             index' = [index EXCEPT ![Subject(i)] = entry]
    BY DEF Task!WriteIndex, Subject
  <1>2. /\ importer' = [importer EXCEPT ![i].pc = "verify"]
        /\ UNCHANGED <<importLock, clock, snapshot, Entries>>
    BY DEF Task!WriteIndex, Task!Goto
  <1>3. "write" \in Placed /\ "verify" \in Placed /\ Garbled \notin Task!Record
    BY StoresAssumption DEF Placed
  <1>4. importer[i].pc # "idle" /\ snapshot'[importer[i].record.package] # Missing
    BY <1>0, <1>2, <1>3 DEF EntriesOK
  <1>5. importer[i].record \in Task!Record
    BY <1>0, <1>4, ImportFacts
  <1>6. entry \in Task!Record
          => TaskOf[entry.package] = Subject(i) /\ snapshot'[entry.package] # Missing
    BY <1>1, <1>3, <1>4 DEF Subject
  <1>7. Task!ProductOnly => index[Subject(i)] = Garbled
    BY <1>0 DEF Alone
  <1>8. snapshot' \in [Packages -> Task!Record \cup {Missing}]
    BY <1>0, <1>2 DEF ImportShape
  <1>9. entry \in Task!Record \cup {Missing, Garbled}
    BY <1>1, <1>5
  <1>10. /\ Task!ProductOnly /\ index[Subject(i)] \notin {Missing, Garbled}
              => entry = index[Subject(i)]
         /\ Task!ProductOnly /\ "verify" \in {"rename", "open"} => entry = Missing
         /\ "verify" \in {"look", "rename"} \cup Placed
    BY <1>3, <1>7
  <1>. QED
    BY <1>1, <1>2, <1>4, <1>6, <1>8, <1>9, <1>10, StepKeepsTasks

LEMMA TaskInitially == Task!Empty => TaskInv
  <1> SUFFICES ASSUME Task!Empty PROVE TaskInv
    OBVIOUS
  <1>1. ImportShape
    BY DEF Task!Empty, ImportShape
  <1>2. \A i \in Importers : importer[i].pc = "idle"
    BY IdleFacts DEF Task!Empty
  <1>3. \A t \in Task!Tasks : index[t] \notin Task!Record
    BY StoresAssumption DEF Task!Empty
  <1>. QED
    BY <1>1, <1>2, <1>3 DEF TaskInv, EntriesOK, Alone, Placed

LEMMA ImportsKeepTasks == TaskInv /\ Imports => TaskInv' /\ TaskStep
  <1> SUFFICES ASSUME TaskInv, Imports PROVE TaskInv' /\ TaskStep
    OBVIOUS
  <1>1. PICK i \in Importers :
             \/ \E entry \in Entries, p \in Packages : Task!Begin(i, entry, p)
             \/ Task!Bound(i) \/ Task!Look(i) \/ Task!Rename(i) \/ Task!OpenIndex(i)
             \/ Task!WriteIndex(i) \/ Task!Verify(i) \/ Task!Fail(i)
    BY DEF Imports, Task!Next
  <1>2. UNCHANGED Entries
    BY DEF Imports, Task!Next
  <1>3. CASE \E entry \in Entries, p \in Packages : Task!Begin(i, entry, p)
    BY <1>2, <1>3, BeginKeepsTasks
  <1>4. CASE Task!Bound(i) \/ Task!Verify(i) \/ Task!Fail(i)
    BY <1>2, <1>4, LeaveKeepsTasks DEF Task!Bound, Task!Verify, Task!Fail, Task!At
  <1>5. CASE Task!Look(i) BY <1>2, <1>5, LookKeepsTasks
  <1>6. CASE Task!Rename(i) BY <1>2, <1>6, RenameKeepsTasks
  <1>7. CASE Task!OpenIndex(i) BY <1>2, <1>7, OpenIndexKeepsTasks
  <1>8. CASE Task!WriteIndex(i) BY <1>2, <1>8, WriteIndexKeepsTasks
  <1>. QED
    BY <1>1, <1>3, <1>4, <1>5, <1>6, <1>7, <1>8

\* Whatever the other stores do.
LEMMA OthersKeepTasks ==
  TaskInv /\ UNCHANGED <<store, taskVars>> => TaskInv' /\ TaskStep
  <1> SUFFICES ASSUME TaskInv, UNCHANGED <<store, taskVars>> PROVE TaskInv' /\ TaskStep
    OBVIOUS
  <1>1. TaskInv'
    BY DEF TaskInv, ImportShape, EntriesOK, Alone, Subject, Task!ProductOnly, Entries, taskVars
  <1>2. TaskStep
    BY RecordFacts DEF TaskStep, Task!EntriesNameSnapshots, Task!BindingsStay, Task!Bindings,
                       TaskInv, ImportShape, EntriesOK, taskVars
  <1>. QED
    BY <1>1, <1>2

\* A published snapshot never changes and an index file that binds a task names a
\* snapshot in place, whichever importers overlap and wherever they die; where all
\* imports are product imports no binding changes either.
THEOREM TasksStayImmutable == Spec => TasksAreImmutable
  <1>1. Init => TaskInv
    BY TaskInitially DEF Init
  <1>2. TaskInv /\ [Next]_vars => TaskInv' /\ TaskStep
    <2>1. CASE Imports BY <2>1, ImportsKeepTasks
    <2>2. ASSUME [Next]_vars, ~Imports PROVE UNCHANGED <<store, taskVars>>
      BY <2>2 DEF Next, Launches, Requests, Verifiers, vars
    <2>. QED
      BY <2>1, <2>2, OthersKeepTasks
  <1>3. TaskStep => [Task!EntriesNameSnapshots /\ (Task!ProductOnly => Task!BindingsStay)]_(Task!vars)
    BY DEF TaskStep
  <1>. QED
    BY <1>1, <1>2, <1>3, PTL DEF Spec, TasksAreImmutable, Task!TasksAreImmutable

-----------------------------------------------------------------------------
(* The sandbox: its invariant. *)

\* A run works with the container between its create and its manifest.
Working == {"create", "creating", "inspect", "wait", "own", "kill", "list", "decide",
            "copy", "write"}

\* A create that is still to be carried out has no container yet, and there is
\* one create for an artifact directory.
OneCreate ==
  /\ requested => container = "absent" /\ artifacts
  /\ container # "absent" => artifacts
  /\ manifest # Missing => artifacts
  /\ client = "create" => container = "absent" /\ ~requested /\ ~security
  /\ client = "prepare" => ~security
  /\ client \in Working => artifacts /\ manifest = Missing

\* Whoever has inspected a container has seen the create carried out.
InspectedInTime ==
  /\ client \in {"inspect", "wait"} => ~requested
  /\ client = "wait" => security
  /\ security => ~requested

\* A cleanup that the run at hand, or the manifest, calls verified left nothing.
ListedInTime ==
  /\ client \in {"copy", "write"} => security
  /\ client = "copy" => listed
  /\ client \in {"decide", "copy", "write"} /\ security /\ listed => container = "absent"
  /\ manifest # Missing /\ manifest.cleanup_verified => container = "absent" /\ ~requested

\* A success is one of a container that was inspected, and listed as gone.
EarnedSuccess ==
  /\ status = "SUCCEEDED" /\ client # "idle" => security
  /\ client = "write" /\ status = "SUCCEEDED" => listed
  /\ client = "clear" /\ status = "SUCCEEDED" /\ manifest # Missing
       => manifest.status = "SUCCEEDED" /\ manifest.cleanup_verified
  /\ returned => /\ manifest # Missing
                 /\ manifest.status = "SUCCEEDED" /\ manifest.cleanup_verified

SandboxInv ==
  /\ OneCreate /\ InspectedInTime /\ ListedInTime /\ EarnedSuccess
  /\ security \in BOOLEAN /\ listed \in BOOLEAN /\ returned \in BOOLEAN

\* Each group of steps keeps the invariant: up to the inspection ...
LEMMA PreparingKeepsSandbox ==
  ASSUME SandboxInv,
         \/ Sandbox!Reserve \/ Sandbox!Prepare \/ Sandbox!Create
         \/ Sandbox!DaemonCreates \/ Sandbox!DaemonRefuses \/ Sandbox!Created
         \/ Sandbox!Abort \/ Sandbox!CancelEarly \/ Sandbox!Inspect
  PROVE  SandboxInv'
  <1>. USE DEF SandboxInv, OneCreate, InspectedInTime, ListedInTime, EarnedSuccess, Working
  <1>1. CASE Sandbox!Reserve BY <1>1 DEF Sandbox!Reserve, Sandbox!Docker
  <1>2. CASE Sandbox!Prepare BY <1>2 DEF Sandbox!Prepare, Sandbox!Docker
  <1>3. CASE Sandbox!Create BY <1>3 DEF Sandbox!Create, Sandbox!disk
  <1>4. CASE Sandbox!DaemonCreates BY <1>4 DEF Sandbox!DaemonCreates, Sandbox!local, Sandbox!disk
  <1>5. CASE Sandbox!DaemonRefuses BY <1>5 DEF Sandbox!DaemonRefuses, Sandbox!disk
  <1>6. CASE Sandbox!Created BY <1>6 DEF Sandbox!Created, Sandbox!Docker, Sandbox!disk
  <1>7. CASE Sandbox!Abort BY <1>7 DEF Sandbox!Abort, Sandbox!Docker, Sandbox!disk
  <1>8. CASE Sandbox!CancelEarly BY <1>8 DEF Sandbox!CancelEarly, Sandbox!Docker, Sandbox!disk
  <1>9. CASE Sandbox!Inspect BY <1>9 DEF Sandbox!Inspect, Sandbox!Docker, Sandbox!disk
  <1>. QED
    BY <1>1, <1>2, <1>3, <1>4, <1>5, <1>6, <1>7, <1>8, <1>9

\* ... and from the start of the container on.
LEMMA RunningKeepsSandbox ==
  ASSUME SandboxInv,
         \/ Sandbox!Start \/ Sandbox!Exit \/ Sandbox!Attached \/ Sandbox!Own \/ Sandbox!Remove
         \/ Sandbox!List \/ Sandbox!Decide \/ Sandbox!Copy \/ Sandbox!Write
         \/ Sandbox!Raise \/ Sandbox!Clear \/ Sandbox!Crash
  PROVE  SandboxInv'
  <1>. USE DEF SandboxInv, OneCreate, InspectedInTime, ListedInTime, EarnedSuccess, Working
  <1>1. CASE Sandbox!Start BY <1>1 DEF Sandbox!Start, Sandbox!local, Sandbox!disk
  <1>2. CASE Sandbox!Exit BY <1>2 DEF Sandbox!Exit, Sandbox!local, Sandbox!disk
  <1>3. CASE Sandbox!Attached BY <1>3 DEF Sandbox!Attached, Sandbox!Docker, Sandbox!disk
  <1>4. CASE Sandbox!Own BY <1>4 DEF Sandbox!Own, Sandbox!Docker, Sandbox!disk
  <1>5. CASE Sandbox!Remove BY <1>5 DEF Sandbox!Remove, Sandbox!disk
  <1>6. CASE Sandbox!List BY <1>6 DEF Sandbox!List, Sandbox!Absent, Sandbox!Docker, Sandbox!disk
  <1>7. CASE Sandbox!Decide BY <1>7 DEF Sandbox!Decide, Sandbox!Docker, Sandbox!disk
  <1>8. CASE Sandbox!Copy BY <1>8 DEF Sandbox!Copy, Sandbox!Docker, Sandbox!disk
  <1>9. CASE Sandbox!Write BY <1>9 DEF Sandbox!Write, Sandbox!Docker
  <1>10. CASE Sandbox!Raise BY <1>10 DEF Sandbox!Raise, Sandbox!Docker, Sandbox!disk
  <1>11. CASE Sandbox!Clear BY <1>11 DEF Sandbox!Clear, Sandbox!Docker
  <1>12. CASE Sandbox!Crash BY <1>12 DEF Sandbox!Crash, Sandbox!Docker, Sandbox!disk
  <1>. QED
    BY <1>1, <1>2, <1>3, <1>4, <1>5, <1>6, <1>7, <1>8, <1>9, <1>10, <1>11, <1>12

LEMMA OthersKeepSandbox == SandboxInv /\ UNCHANGED sandboxVars => SandboxInv'
  BY DEF SandboxInv, OneCreate, InspectedInTime, ListedInTime, EarnedSuccess, Working, sandboxVars

\* When the workspace is copied, and once a manifest says that the cleanup was
\* verified, there is no container and none can come; only then is a result
\* returned.
THEOREM RecordedIsGone == Spec => []RecordedMeansGone
  <1>1. Init => SandboxInv
    BY DEF Init, Sandbox!Init, SandboxInv, OneCreate, InspectedInTime, ListedInTime,
           EarnedSuccess, Working
  <1>2. SandboxInv /\ [Next]_vars => SandboxInv'
    <2>1. ASSUME SandboxInv, Verifiers PROVE SandboxInv'
      BY <2>1, PreparingKeepsSandbox, RunningKeepsSandbox DEF Verifiers, Sandbox!Next
    <2>2. ASSUME [Next]_vars, ~Verifiers PROVE UNCHANGED sandboxVars
      BY <2>2 DEF Next, Imports, Launches, Requests, vars
    <2>. QED
      BY <2>1, <2>2, OthersKeepSandbox
  <1>3. SandboxInv => RecordedMeansGone
    BY DEF SandboxInv, OneCreate, InspectedInTime, ListedInTime, EarnedSuccess,
           RecordedMeansGone, Sandbox!RecordedMeansGone
  <1>. QED
    BY <1>1, <1>2, <1>3, PTL DEF Spec

-----------------------------------------------------------------------------
(* The evidence store and the canary: their behaviours are among those of      *)
(* Stores, so the theorems about them carry over.                              *)

EvidenceP == INSTANCE EvidenceStoreProofs WITH lock <- storeLock

LEMMA EvidenceParameters == EvidenceP!Parameters /\ EvidenceP!Counting
  BY StoresAssumption DEF EvidenceP!Parameters, EvidenceP!Counting, EvidenceP!Acceptances,
                          Evidence!Acceptances

LEMMA SameEvidence ==
  /\ Evidence!Init => EvidenceP!Init
  /\ Evidence!Next => EvidenceP!Next
  <1>1. Evidence!Init => EvidenceP!Init
    BY DEF Evidence!Init, Evidence!Idle, EvidenceP!Init, EvidenceP!Idle
  <1>2. Evidence!Next => EvidenceP!Next
    BY Zenon DEF Evidence!Next, Evidence!Acceptances, Evidence!Idle, Evidence!At, Evidence!Goto,
           Evidence!Item, Evidence!Leave, Evidence!Adds, Evidence!Verifications,
           Evidence!Request, Evidence!Ingest, Evidence!Confirm, Evidence!VerifyWorkspace,
           Evidence!Waits, Evidence!TakeStoreLock, Evidence!StageRecord, Evidence!Publish,
           Evidence!Unstage, Evidence!HasRoom, Evidence!CheckRoom, Evidence!OpenTarget,
           Evidence!MoveSnapshot, Evidence!LockRecord, Evidence!Prior, Evidence!Attempt,
           Evidence!FillAttempt, Evidence!Burnt, Evidence!StartVerifier,
           Evidence!RunVerifier, Evidence!CreateReceipt, Evidence!FillReceipt,
           Evidence!Crash, EvidenceP!Next, EvidenceP!Acceptances, EvidenceP!Idle,
           EvidenceP!At, EvidenceP!Goto, EvidenceP!Item, EvidenceP!Leave, EvidenceP!Adds,
           EvidenceP!Verifications, EvidenceP!Request, EvidenceP!Ingest, EvidenceP!Confirm,
           EvidenceP!VerifyWorkspace, EvidenceP!Waits, EvidenceP!TakeStoreLock,
           EvidenceP!StageRecord, EvidenceP!Publish, EvidenceP!Unstage, EvidenceP!HasRoom,
           EvidenceP!CheckRoom, EvidenceP!OpenTarget, EvidenceP!MoveSnapshot,
           EvidenceP!LockRecord, EvidenceP!Prior, EvidenceP!Attempt, EvidenceP!FillAttempt,
           EvidenceP!Burnt, EvidenceP!StartVerifier, EvidenceP!RunVerifier,
           EvidenceP!CreateReceipt, EvidenceP!FillReceipt, EvidenceP!Crash
  <1>. QED
    BY <1>1, <1>2

\* What happens to the evidence store is a behaviour of EvidenceStore.
LEMMA EvidenceBehaves == Spec => EvidenceP!Spec
  <1>1. Init => EvidenceP!Init
    BY SameEvidence DEF Init
  <1>2. [Next]_vars => [EvidenceP!Next]_(EvidenceP!vars)
    <2>1. Requests => EvidenceP!Next
      BY SameEvidence DEF Requests
    <2>2. [Next]_vars /\ ~Requests => UNCHANGED evidenceVars
      BY DEF Next, Imports, Launches, Verifiers, vars
    <2>3. UNCHANGED evidenceVars => UNCHANGED EvidenceP!vars
      BY DEF evidenceVars, EvidenceP!vars
    <2>. QED
      BY <2>1, <2>2, <2>3
  <1>. QED
    BY <1>1, <1>2, PTL DEF Spec, EvidenceP!Spec

\* However often verify_workspace is asked to verify a record, raced and killed,
\* the hidden verifier runs once at most, and a receipt that accepts or rejects
\* says what that run said.
THEOREM RecordsVerifiedOnce == Spec => []OneVerification
  <1>1. EvidenceP!Spec => []EvidenceP!OneVerification
    BY EvidenceParameters, EvidenceP!VerifiedOnce
  <1>2. EvidenceP!OneVerification => OneVerification
    BY DEF EvidenceP!OneVerification, OneVerification, Evidence!OneVerification
  <1>. QED
    BY <1>1, <1>2, EvidenceBehaves, PTL

\* confirm takes the store past its limit only by the files that verifications
\* added since it checked the room.
THEOREM SnapshotsStayInEnvelope == Spec => SnapshotsKeepEnvelope
  <1>1. EvidenceP!Spec => EvidenceP!SnapshotsKeepEnvelope
    BY EvidenceParameters, EvidenceP!EnvelopeIsKept
  <1>2. [EvidenceP!SnapshotKeepsEnvelope]_(EvidenceP!vars)
          => [Evidence!SnapshotKeepsEnvelope]_(Evidence!vars)
    BY DEF EvidenceP!SnapshotKeepsEnvelope, Evidence!SnapshotKeepsEnvelope, EvidenceP!vars,
           Evidence!vars, EvidenceP!At, Evidence!At, EvidenceP!Idle, Evidence!Idle
  <1>. QED
    BY <1>1, <1>2, EvidenceBehaves, PTL
    DEF EvidenceP!SnapshotsKeepEnvelope, SnapshotsKeepEnvelope, Evidence!SnapshotsKeepEnvelope

\* The canary with one executor and with several.
CanaryP == INSTANCE CanaryJournalProofs WITH Executors <- {Lone}, Calls <- 1 .. N
CanariesP == INSTANCE CanaryJournalProofs WITH Calls <- 1 .. N

OneCanary == store = "canary"

LEMMA CanaryParameters ==
  CanaryP!Parameters /\ CanaryP!OneExecutor /\ CanariesP!Parameters
  BY StoresAssumption DEF CanaryP!Parameters, CanaryP!OneExecutor, CanariesP!Parameters,
       CanaryP!Statuses, CanariesP!Statuses, Canaries!Statuses,
       CanaryP!Failures, CanariesP!Failures, Canaries!Failures

LEMMA SameCanary ==
  /\ Canary!Init => CanaryP!Init
  /\ Canary!Next => CanaryP!Next
  <1>1. Canary!Init => CanaryP!Init
    BY DEF Canary!Init, Canary!Idle, CanaryP!Init, CanaryP!Idle
  <1>2. Canary!Next => CanaryP!Next
    BY Zenon DEF Canary!Next, Canary!Failures, Canary!Statuses, Canary!Idle, Canary!At,
           Canary!Leave, Canary!Here, Canary!AfterCall, Canary!Start, Canary!TakeOver,
           Canary!MayLaunch, Canary!Refuse, Canary!Decide, Canary!CreateMarker,
           Canary!FindMarker, Canary!FillMarker, Canary!SyncMarker, Canary!UnwriteMarker,
           Canary!Launch, Canary!Record, Canary!Answer, Canary!Describe, Canary!Described,
           Canary!FillEvidence, Canary!SyncEvidence, Canary!UnwriteEvidence, Canary!Close,
           Canary!FillCloseout, Canary!SyncCloseout, Canary!UnwriteCloseout, Canary!Crash,
           CanaryP!Next, CanaryP!Failures, CanaryP!Statuses, CanaryP!Idle, CanaryP!At,
           CanaryP!Leave, CanaryP!Here, CanaryP!AfterCall, CanaryP!Start, CanaryP!TakeOver,
           CanaryP!MayLaunch, CanaryP!Refuse, CanaryP!Decide, CanaryP!CreateMarker,
           CanaryP!FindMarker, CanaryP!FillMarker, CanaryP!SyncMarker, CanaryP!UnwriteMarker,
           CanaryP!Launch, CanaryP!Record, CanaryP!Answer, CanaryP!Describe, CanaryP!Described,
           CanaryP!FillEvidence, CanaryP!SyncEvidence, CanaryP!UnwriteEvidence, CanaryP!Close,
           CanaryP!FillCloseout, CanaryP!SyncCloseout, CanaryP!UnwriteCloseout, CanaryP!Crash
  <1>. QED
    BY <1>1, <1>2

LEMMA SameCanaries ==
  /\ Canaries!Init => CanariesP!Init
  /\ Canaries!Next => CanariesP!Next
  <1>1. Canaries!Init => CanariesP!Init
    BY DEF Canaries!Init, Canaries!Idle, CanariesP!Init, CanariesP!Idle
  <1>2. Canaries!Next => CanariesP!Next
    BY Zenon DEF Canaries!Next, Canaries!Failures, Canaries!Statuses, Canaries!Idle,
           Canaries!At, Canaries!Leave, Canaries!Here, Canaries!AfterCall, Canaries!Start,
           Canaries!TakeOver, Canaries!MayLaunch, Canaries!Refuse, Canaries!Decide,
           Canaries!CreateMarker, Canaries!FindMarker, Canaries!FillMarker,
           Canaries!SyncMarker, Canaries!UnwriteMarker, Canaries!Launch, Canaries!Record,
           Canaries!Answer, Canaries!Describe, Canaries!Described, Canaries!FillEvidence,
           Canaries!SyncEvidence, Canaries!UnwriteEvidence, Canaries!Close,
           Canaries!FillCloseout, Canaries!SyncCloseout, Canaries!UnwriteCloseout,
           Canaries!Crash, CanariesP!Next, CanariesP!Failures, CanariesP!Statuses,
           CanariesP!Idle, CanariesP!At, CanariesP!Leave, CanariesP!Here, CanariesP!AfterCall,
           CanariesP!Start, CanariesP!TakeOver, CanariesP!MayLaunch, CanariesP!Refuse,
           CanariesP!Decide, CanariesP!CreateMarker, CanariesP!FindMarker,
           CanariesP!FillMarker, CanariesP!SyncMarker, CanariesP!UnwriteMarker,
           CanariesP!Launch, CanariesP!Record, CanariesP!Answer, CanariesP!Describe,
           CanariesP!Described, CanariesP!FillEvidence, CanariesP!SyncEvidence,
           CanariesP!UnwriteEvidence, CanariesP!Close, CanariesP!FillCloseout,
           CanariesP!SyncCloseout, CanariesP!UnwriteCloseout, CanariesP!Crash
  <1>. QED
    BY <1>1, <1>2

\* What happens to the canary is a behaviour of CanaryJournal, with one executor
\* or with several.
LEMMA CanaryBehaves ==
  Spec => (OneCanary /\ []OneCanary /\ CanaryP!Spec) \/ ([]~OneCanary /\ CanariesP!Spec)
  <1>1. Init => (OneCanary /\ CanaryP!Init) \/ (~OneCanary /\ CanariesP!Init)
    BY SameCanary, SameCanaries DEF Init, OneCanary
  <1>2. [Next]_vars => (OneCanary' <=> OneCanary)
    BY DEF Next, Imports, Launches, Requests, Verifiers, vars, OneCanary
  <1>3. [Next]_vars /\ ~Launches => UNCHANGED canaryVars
    BY DEF Next, Imports, Requests, Verifiers, vars
  <1>4. UNCHANGED canaryVars => UNCHANGED CanaryP!vars /\ UNCHANGED CanariesP!vars
    BY DEF canaryVars, CanaryP!vars, CanariesP!vars
  <1>5. OneCanary /\ [Next]_vars => [CanaryP!Next]_(CanaryP!vars)
    BY <1>3, <1>4, SameCanary DEF Launches, OneCanary
  <1>6. ~OneCanary /\ [Next]_vars => [CanariesP!Next]_(CanariesP!vars)
    BY <1>3, <1>4, SameCanaries DEF Launches, OneCanary
  <1>. QED
    BY <1>1, <1>2, <1>5, <1>6, PTL DEF Spec, CanaryP!Spec, CanariesP!Spec

\* "Retries are zero": however often the one executor dies and is started again,
\* no call of v6_canary.py's execute is sent twice.
THEOREM NoCallTwice == Spec => []LaunchedOnce
  <1>1. CanaryP!Spec => []CanaryP!LaunchedOnce
    BY CanaryParameters, CanaryP!NoCallIsSentTwice
  <1>2. CanaryP!LaunchedOnce => LaunchedOnce
    BY DEF CanaryP!LaunchedOnce, LaunchedOnce, Canary!LaunchedOnce
  <1>3. ~OneCanary => LaunchedOnce
    BY DEF OneCanary, LaunchedOnce
  <1>. QED
    BY <1>1, <1>2, <1>3, CanaryBehaves, PTL

\* One executor or several, dead or alive, whatever they fail to flush: no call of
\* v6_canary.py's execute is sent before every earlier one has answered with
\* success, and a closeout sums up answers that were really given; with one
\* executor the evidence of those answers is on disk for good.
THEOREM NoCallPastAFailure == Spec => []NoLaunchPastFailure
  <1>1. CanaryP!Spec => []CanaryP!NoLaunchPastFailure
    BY CanaryParameters, CanaryP!NothingPastAFailure
  <1>2. CanaryP!Spec => []CanaryP!EvidenceStands
    BY CanaryParameters, CanaryP!EvidenceIsKept
  <1>3. CanariesP!Spec => []CanariesP!NoLaunchPastFailure
    BY CanaryParameters, CanariesP!NothingPastAFailure
  <1>4. CanaryP!NoLaunchPastFailure /\ CanaryP!EvidenceStands => NoLaunchPastFailure
    BY DEF CanaryP!NoLaunchPastFailure, CanaryP!EvidenceStands, NoLaunchPastFailure,
           Canaries!NoLaunchPastFailure, Canary!EvidenceStands
  <1>5. CanariesP!NoLaunchPastFailure /\ ~OneCanary => NoLaunchPastFailure
    BY DEF CanariesP!NoLaunchPastFailure, NoLaunchPastFailure,
           Canaries!NoLaunchPastFailure, OneCanary
  <1>. QED
    BY <1>1, <1>2, <1>3, <1>4, <1>5, CanaryBehaves, PTL
=============================================================================
