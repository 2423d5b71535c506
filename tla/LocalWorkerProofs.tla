------------------------- MODULE LocalWorkerProofs -------------------------
(***************************************************************************)
(* Theorems about LocalWorker for every set of runs and processes and      *)
(* every lease time: its types, the invariant from which the file lock and *)
(* the clean end of every run follow, what is stored, and that workers     *)
(* implement SingleAttempt.                                                *)
(***************************************************************************)
EXTENDS LocalWorker, TLAPS

-----------------------------------------------------------------------------
(* Type correctness. *)

\* The lease updates return lease rows.
LEMMA LeaseUpdates ==
  ASSUME NEW row \in LeaseRow
  PROVE  /\ CancelledLease(row) \in LeaseRow
         /\ \A w \in Workers : ClaimedLease(row, w) \in LeaseRow
         /\ \A status \in TERMINAL : EndedLease(row, status) \in LeaseRow
         /\ \A status \in {"QUEUED", "RUNNING"} : [row EXCEPT !.status = status] \in LeaseRow
         /\ \A n \in 0 .. LeaseTicks : [row EXCEPT !.ticks = n] \in LeaseRow
  <1>. USE DEF LeaseRow, ACTIVE
  <1>1. CancelledLease(row) \in LeaseRow
    BY DEF CancelledLease, TERMINAL
  <1>2. LeaseTicks \in 0 .. LeaseTicks /\ 1 \in 0 .. 1 /\ 0 \in 0 .. LeaseTicks
    BY WorkerAssumption
  <1>3. \A w \in Workers : ClaimedLease(row, w) \in LeaseRow
    BY <1>2 DEF ClaimedLease
  <1>4. \A status \in TERMINAL : EndedLease(row, status) \in LeaseRow
    BY <1>2 DEF EndedLease
  <1>. QED
    BY <1>1, <1>3, <1>4

\* Documents have terminal statuses.
LEMMA Documents ==
  /\ \A status \in TERMINAL, episode \in BOOLEAN :
       [status |-> status, episode |-> episode] \in Document
  /\ \A status \in TERMINAL : Plain(status) \in Document
  /\ {"BLOCKED", "FAILED_INFRA", "CANCELLED", "INTERRUPTED", "TIMEOUT"} \subseteq TERMINAL
  /\ Verdicts \subseteq TERMINAL
  /\ \A doc \in Document : doc.status \in TERMINAL
  /\ NoDocument.status \notin TERMINAL
  BY DEF Document, Plain, TERMINAL, NoDocument, Verdicts

\* What a recovery records is a document.
LEMMA RecoveredTyped ==
  ASSUME TypeOK, NEW r \in Runs
  PROVE  Recovered(r) \in Document
  BY Documents DEF Recovered, TypeOK

\* What an executor stores is a document.
LEMMA FinalTyped ==
  ASSUME TypeOK, NEW w \in Workers, worker[w].pc = "storing"
  PROVE  FinalDocument(w) \in Document
  <1>1. worker[w].doc \in Document
    BY DEF TypeOK
  <1>2. [worker[w].doc EXCEPT !.status = "CANCELLED"] \in Document
    BY <1>1 DEF Document, TERMINAL
  <1>. QED
    BY <1>1, <1>2 DEF FinalDocument

\* The last conjunct of TypeOK.
InHand(p) ==
  /\ p.pc \notin {"idle", "scanning"} => p.run \in Runs
  /\ p.pc \in {"ended", "sealing", "storing"} => p.doc \in Document

\* Replacing one process by a well-typed one.
LEMMA OneProcess ==
  ASSUME TypeOK, NEW w \in Workers, NEW p \in Process, InHand(p),
         worker' = [worker EXCEPT ![w] = p]
  PROVE  /\ worker' \in [Workers -> Process]
         /\ \A v \in Workers : InHand(worker'[v])
         /\ worker'[w] = p /\ \A v \in Workers \ {w} : worker'[v] = worker[v]
  BY DEF TypeOK, InHand

LEMMA IdleTyped == Idle \in Process /\ InHand(Idle)
  BY DEF Idle, Process, InHand

\* A process that ends leaves well-typed locks and processes.
LEMMA ExitTyped ==
  ASSUME TypeOK, NEW w \in Workers, Exit(w)
  PROVE  /\ worker' \in [Workers -> Process]
         /\ \A v \in Workers : InHand(worker'[v])
         /\ lock' \in [Runs -> Workers \cup {NoWorker}]
  <1>1. lock' \in [Runs -> Workers \cup {NoWorker}]
    BY DEF Exit, Unlocked, TypeOK
  <1>. QED
    BY <1>1, IdleTyped, OneProcess DEF Exit

LEMMA InitTyped == Init => TypeOK
  BY WorkerAssumption, IdleTyped DEF Init, TypeOK, NewLease, LeaseRow, NoDocument, Idle, InHand

\* The steps of a recovery.
LEMMA RecoverTyped ==
  ASSUME TypeOK, NEW w \in Workers,
         Scan(w) \/ LockAbandoned(w) \/ CleanAbandoned(w) \/ RecordLost(w) \/ Claim(w)
  PROVE  TypeOK'
  <1>0. worker[w] \in Process /\ InHand(worker[w])
    BY DEF TypeOK, InHand
  <1>1. CASE Scan(w)
    <2> DEFINE p == [worker[w] EXCEPT !.pc = "scanning", !.todo = {r \in Runs : Expired(r)}]
    <2>1. p \in Process /\ InHand(p)
      BY <1>0 DEF Process, InHand
    <2>2. worker' = [worker EXCEPT ![w] = p] /\ UNCHANGED <<lease, stored, lock, files, docker>>
      BY <1>1 DEF Scan
    <2>. QED
      BY <2>1, <2>2, OneProcess DEF TypeOK, InHand, files, docker
  <1>2. CASE LockAbandoned(w)
    <2>1. PICK r \in worker[w].todo :
            \/ /\ lock' = [lock EXCEPT ![r] = w]
               /\ worker' = [worker EXCEPT ![w] =
                     [worker[w] EXCEPT !.pc = "cleaning", !.run = r, !.todo = worker[w].todo \ {r}]]
            \/ /\ worker' = [worker EXCEPT ![w] = [worker[w] EXCEPT !.todo = worker[w].todo \ {r}]]
               /\ UNCHANGED lock
      BY <1>2 DEF LockAbandoned
    <2>2. r \in Runs /\ lock' \in [Runs -> Workers \cup {NoWorker}]
      BY <1>0, <2>1 DEF Process, TypeOK
    <2> DEFINE p == [worker[w] EXCEPT !.pc = "cleaning", !.run = r, !.todo = worker[w].todo \ {r}]
               q == [worker[w] EXCEPT !.todo = worker[w].todo \ {r}]
    <2>a. worker[w].todo \ {r} \in SUBSET Runs
      BY <1>0 DEF Process
    <2>b. p \in Process /\ InHand(p)
      BY <1>0, <2>2, <2>a DEF Process, InHand
    <2>c. q \in Process
      BY <1>0, <2>a DEF Process
    <2>d. InHand(q)
      BY <1>0 DEF Process, InHand
    <2>3. p \in Process /\ InHand(p) /\ q \in Process /\ InHand(q)
      BY <2>b, <2>c, <2>d
    <2>4. worker' = [worker EXCEPT ![w] = p] \/ worker' = [worker EXCEPT ![w] = q]
      BY <2>1
    <2>5. UNCHANGED <<lease, stored, files, docker>>
      BY <1>2 DEF LockAbandoned
    <2>. HIDE DEF p, q
    <2>6. worker' \in [Workers -> Process] /\ \A v \in Workers : InHand(worker'[v])
      BY <2>3, <2>4, OneProcess
    <2>. QED
      BY <2>2, <2>5, <2>6 DEF TypeOK, InHand, files, docker
  <1>3. CASE CleanAbandoned(w)
    <2> DEFINE p == [worker[w] EXCEPT !.pc = "recording"]
    <2>1. p \in Process /\ InHand(p)
      BY <1>0, <1>3 DEF Process, InHand, CleanAbandoned
    <2>2. /\ worker' = [worker EXCEPT ![w] = p]
          /\ container' = [container EXCEPT ![worker[w].run] = FALSE]
          /\ UNCHANGED <<lease, stored, lock, files, launched>>
      BY <1>3 DEF CleanAbandoned
    <2>. HIDE DEF p
    <2>3. worker' \in [Workers -> Process] /\ \A v \in Workers : InHand(worker'[v])
      BY <2>1, <2>2, OneProcess
    <2>4. container' \in [Runs -> BOOLEAN]
      BY <2>2 DEF TypeOK
    <2>. QED
      BY <2>2, <2>3, <2>4 DEF TypeOK, InHand, files
  <1>4. CASE RecordLost(w)
    <2> DEFINE r == worker[w].run
               p == [worker[w] EXCEPT !.pc = "scanning", !.run = NoRun]
    <2>1. r \in Runs /\ p \in Process /\ InHand(p)
      BY <1>0, <1>4 DEF Process, InHand, RecordLost
    <2>2. Recovered(r).status \in TERMINAL
      BY <2>1, RecoveredTyped, Documents
    <2>3. EndedLease(lease[r], Recovered(r).status) \in LeaseRow
      BY <2>1, <2>2, LeaseUpdates DEF TypeOK
    <2>4. stored' \in [Runs -> TERMINAL \cup {"none"}] /\ lease' \in [Runs -> LeaseRow]
      BY <1>4, <2>2, <2>3 DEF RecordLost, TypeOK
    <2>5. worker' = [worker EXCEPT ![w] = p] /\ lock' = Unlocked(w) /\ UNCHANGED <<files, docker>>
      BY <1>4 DEF RecordLost
    <2>. HIDE DEF p
    <2>6. worker' \in [Workers -> Process] /\ \A v \in Workers : InHand(worker'[v])
      BY <2>1, <2>5, OneProcess
    <2>7. lock' \in [Runs -> Workers \cup {NoWorker}]
      BY <2>5 DEF Unlocked, TypeOK
    <2>. QED
      BY <2>4, <2>5, <2>6, <2>7 DEF TypeOK, InHand, files, docker
  <1>5. CASE Claim(w)
    <2>1. CASE worker' = [worker EXCEPT ![w] = Idle] /\ UNCHANGED lease
      <3>. worker' \in [Workers -> Process] /\ \A v \in Workers : InHand(worker'[v])
        BY <2>1, IdleTyped, OneProcess
      <3>. QED
        BY <1>5, <2>1 DEF Claim, TypeOK, InHand, files, docker
    <2>2. ASSUME NEW r \in Runs,
                 lease' = [lease EXCEPT ![r] = ClaimedLease(@, w)],
                 worker' = [worker EXCEPT ![w] = [@ EXCEPT !.pc = "claimed", !.run = r]]
          PROVE  TypeOK'
      <3> DEFINE p == [worker[w] EXCEPT !.pc = "claimed", !.run = r]
      <3>1. p \in Process /\ InHand(p)
        BY <1>0 DEF Process, InHand, Executing
      <3>2. worker' = [worker EXCEPT ![w] = p]
        BY <2>2
      <3>. HIDE DEF p
      <3>3. worker' \in [Workers -> Process] /\ \A v \in Workers : InHand(worker'[v])
        BY <3>1, <3>2, OneProcess
      <3>4. lease' \in [Runs -> LeaseRow]
        BY <2>2, LeaseUpdates DEF TypeOK
      <3>. QED
        BY <1>5, <3>3, <3>4 DEF Claim, TypeOK, InHand, files, docker
    <2>. QED
      BY <1>5, <2>1, <2>2 DEF Claim
  <1>. QED
    BY <1>1, <1>2, <1>3, <1>4, <1>5

\* The steps of an execution.
LEMMA ExecuteTyped ==
  ASSUME TypeOK, NEW w \in Workers,
         \/ LockClaimed(w) \/ Prepare(w) \/ Launch(w) \/ Watch(w) \/ Stop(w)
         \/ LaneEnds(w) \/ CleanUp(w) \/ Seal(w) \/ Store(w)
  PROVE  TypeOK'
  <1> DEFINE r == worker[w].run
             To(pc) == [worker[w] EXCEPT !.pc = pc]
             Sealed(doc) == [worker[w] EXCEPT !.pc = "sealing", !.doc = doc]
             Workable == worker' \in [Workers -> Process] /\ \A v \in Workers : InHand(worker'[v])
  <1>0. worker[w] \in Process /\ InHand(worker[w]) /\ r \in Runs /\ lease[r] \in LeaseRow
    BY DEF TypeOK, InHand, LockClaimed, Prepare, Launch, Watch, Stop, LaneEnds, CleanUp, Seal,
       Store
  <1>1. ASSUME NEW pc \in {"locked", "prepared", "running"}, worker' = [worker EXCEPT ![w] = To(pc)]
        PROVE  Workable
    <2>. To(pc) \in Process /\ InHand(To(pc))
      BY <1>0 DEF Process, InHand, Executing
    <2>. QED
      BY <1>1, OneProcess
  <1>2. ASSUME NEW doc \in Document, worker' = [worker EXCEPT ![w] = Sealed(doc)]
        PROVE  Workable
    <2>. Sealed(doc) \in Process /\ InHand(Sealed(doc))
      BY <1>0 DEF Process, InHand, Executing
    <2>. QED
      BY <1>2, OneProcess
  <1>3. CASE LockClaimed(w)
    <2>1. CASE Exit(w)
      BY <1>3, <2>1, ExitTyped DEF LockClaimed, TypeOK, InHand, files, docker
    <2>2. CASE /\ lock' = [lock EXCEPT ![r] = w]
               /\ worker' = [worker EXCEPT ![w] = To("locked")]
      BY <1>3, <2>2, <1>0, <1>1 DEF LockClaimed, TypeOK, InHand, files, docker
    <2>. QED
      BY <1>3, <2>1, <2>2 DEF LockClaimed
  <1>4. CASE Prepare(w)
    <2>1. CASE /\ lease' = [lease EXCEPT ![r] = [@ EXCEPT !.status = "RUNNING"]]
               /\ worker' = [worker EXCEPT ![w] = To("prepared")]
      <3>. lease' \in [Runs -> LeaseRow]
        BY <2>1, <1>0, LeaseUpdates DEF TypeOK
      <3>. QED
        BY <1>4, <2>1, <1>1 DEF Prepare, TypeOK, InHand, files, docker
    <2>2. ASSUME NEW status \in {"BLOCKED", "FAILED_INFRA", "CANCELLED"},
                 worker' = [worker EXCEPT ![w] = Sealed(Plain(status))], UNCHANGED lease
          PROVE  TypeOK'
      <3>. Workable
        BY <2>2, <1>2, Documents
      <3>. QED
        BY <1>4, <2>2 DEF Prepare, TypeOK, InHand, files, docker
    <2>. QED
      BY <1>4, <2>1, <2>2 DEF Prepare, Sealing
  <1>5. CASE Launch(w)
    <2>1. CASE /\ container' = [container EXCEPT ![r] = TRUE]
               /\ launched' = [launched EXCEPT ![r] = @ + 1]
               /\ worker' = [worker EXCEPT ![w] = To("running")]
      <3>1. \A n \in Nat : n + 1 \in Nat
        OBVIOUS
      <3>. container' \in [Runs -> BOOLEAN] /\ launched' \in [Runs -> Nat]
        BY <2>1, <3>1, <1>0 DEF TypeOK
      <3>. QED
        BY <1>5, <2>1, <1>1 DEF Launch, TypeOK, InHand, files
    <2>2. CASE worker' = [worker EXCEPT ![w] = Sealed(Plain("FAILED_INFRA"))] /\ UNCHANGED docker
      <3>. Workable
        BY <2>2, <1>2, Documents
      <3>. QED
        BY <1>5, <2>2 DEF Launch, TypeOK, InHand, files, docker
    <2>. QED
      BY <1>5, <2>1, <2>2 DEF Launch, Sealing
  <1>6. CASE Watch(w)
    <2>1. LeaseTicks \in 0 .. LeaseTicks
      BY WorkerAssumption
    <2>2. [lease[r] EXCEPT !.ticks = LeaseTicks] \in LeaseRow
      BY <1>0, <2>1, LeaseUpdates
    <2>. lease' \in [Runs -> LeaseRow]
      BY <1>6, <2>2 DEF Watch, TypeOK
    <2>. QED
      BY <1>6 DEF Watch, TypeOK, files, docker
  <1>7. CASE Stop(w)
    <2> DEFINE p == [worker[w] EXCEPT !.stopping = TRUE]
    <2>1. p \in Process /\ InHand(p)
      BY <1>0 DEF Process, InHand
    <2>2. worker' = [worker EXCEPT ![w] = p]
      BY <1>7 DEF Stop
    <2>. QED
      BY <1>7, <2>1, <2>2, OneProcess DEF Stop, TypeOK, InHand, files, docker
  <1>8. CASE LaneEnds(w)
    <2>1. PICK outcome \in LaneOutcomes(worker[w].stopping), episode \in BOOLEAN, left \in BOOLEAN :
            /\ worker' = [worker EXCEPT ![w] =
                  [worker[w] EXCEPT !.pc = "ended", !.stopping = FALSE,
                                    !.doc = [status |-> outcome, episode |-> episode]]]
            /\ container' = [container EXCEPT ![worker[w].run] = left]
      BY <1>8 DEF LaneEnds
    <2> DEFINE doc == [status |-> outcome, episode |-> episode]
               p == [worker[w] EXCEPT !.pc = "ended", !.stopping = FALSE, !.doc = doc]
    <2>2. doc \in Document
      BY <2>1, Documents DEF LaneOutcomes
    <2>3. worker' = [worker EXCEPT ![w] = p]
      BY <2>1
    <2>. HIDE DEF doc
    <2>4. p \in Process /\ InHand(p)
      BY <1>0, <2>2 DEF Process, InHand, Executing
    <2>. HIDE DEF p
    <2>5. Workable
      BY <2>3, <2>4, OneProcess
    <2>6. container' \in [Runs -> BOOLEAN]
      BY <2>1 DEF TypeOK
    <2>. QED
      BY <1>8, <2>5, <2>6 DEF LaneEnds, TypeOK, InHand, files
  <1>9. CASE CleanUp(w)
    <2>1. To("sealing") \in Process /\ InHand(To("sealing"))
      BY <1>0, <1>9 DEF CleanUp, Process, InHand, Executing
    <2>2. worker' = [worker EXCEPT ![w] = To("sealing")] /\ container' \in [Runs -> BOOLEAN]
      BY <1>9 DEF CleanUp, TypeOK
    <2>. QED
      BY <1>9, <2>1, <2>2, OneProcess DEF CleanUp, TypeOK, InHand, files
  <1>10. CASE Seal(w)
    <2>1. CASE Exit(w) /\ UNCHANGED sealed
      BY <1>10, <2>1, ExitTyped DEF Seal, TypeOK, InHand, docker
    <2>2. CASE /\ sealed' = [sealed EXCEPT ![r] = worker[w].doc]
               /\ worker' = [worker EXCEPT ![w] = To("storing")] /\ UNCHANGED lock
      <3>1. worker[w].doc \in Document /\ To("storing") \in Process /\ InHand(To("storing"))
        BY <1>0, <1>10 DEF Seal, Process, InHand, Executing
      <3>2. sealed' \in [Runs -> Document \cup {NoDocument}]
        BY <2>2, <3>1 DEF TypeOK
      <3>. QED
        BY <1>10, <2>2, <3>1, <3>2, OneProcess DEF Seal, TypeOK, InHand, docker
    <2>. QED
      BY <1>10, <2>1, <2>2 DEF Seal
  <1>11. CASE Store(w)
    <2>1. FinalDocument(w).status \in TERMINAL
      BY <1>11, FinalTyped, Documents DEF Store
    <2>2. EndedLease(lease[r], FinalDocument(w).status) \in LeaseRow
      BY <1>0, <2>1, LeaseUpdates
    <2>3. stored' \in [Runs -> TERMINAL \cup {"none"}] /\ lease' \in [Runs -> LeaseRow]
      BY <1>11, <2>1, <2>2 DEF Store, TypeOK
    <2>. QED
      BY <1>11, <2>3, ExitTyped DEF Store, TypeOK, InHand, files, docker
  <1>. QED
    BY <1>3, <1>4, <1>5, <1>6, <1>7, <1>8, <1>9, <1>10, <1>11

\* The operator, the clock, the disk and the death of a process.
LEMMA EnvironmentTyped ==
  ASSUME TypeOK,
         \/ \E w \in Workers : CleanupFails(w) \/ Crash(w)
         \/ \E r \in Runs : Authorize(r) \/ Cancel(r) \/ Damage(r)
         \/ Tick
  PROVE  TypeOK'
  <1>1. ASSUME NEW w \in Workers, CleanupFails(w) \/ Crash(w) PROVE TypeOK'
    BY <1>1, ExitTyped DEF CleanupFails, Crash, TypeOK, InHand, files, docker
  <1>2. ASSUME NEW r \in Runs, Authorize(r) \/ Cancel(r) PROVE TypeOK'
    <2>1. lease[r] \in LeaseRow
      BY DEF TypeOK
    <2>2. [lease[r] EXCEPT !.status = "QUEUED"] \in LeaseRow /\ CancelledLease(lease[r]) \in LeaseRow
      BY <2>1, LeaseUpdates
    <2>. lease' \in [Runs -> LeaseRow]
      BY <1>2, <2>2 DEF Authorize, Cancel, TypeOK
    <2>. QED
      BY <1>2 DEF Authorize, Cancel, TypeOK, files, docker
  <1>3. ASSUME NEW r \in Runs, Damage(r) PROVE TypeOK'
    BY <1>3 DEF Damage, TypeOK, docker
  <1>4. CASE Tick
    <2>1. \A r \in Runs : lease[r].ticks > 0 => lease[r].ticks - 1 \in 0 .. LeaseTicks
      BY WorkerAssumption DEF TypeOK, LeaseRow
    <2>2. \A r \in Runs : lease[r].ticks > 0 => [lease[r] EXCEPT !.ticks = @ - 1] \in LeaseRow
      BY <2>1, LeaseUpdates DEF TypeOK
    <2>3. lease' \in [Runs -> LeaseRow]
      BY <1>4, <2>2 DEF Tick, TypeOK
    <2>. QED
      BY <1>4, <2>3 DEF Tick, TypeOK, files, docker
  <1>. QED
    BY <1>1, <1>2, <1>3, <1>4

LEMMA NextTyped == TypeOK /\ [Next]_vars => TypeOK'
  <1>. SUFFICES ASSUME TypeOK, [Next]_vars PROVE TypeOK'
    OBVIOUS
  <1>1. CASE UNCHANGED vars
    BY <1>1 DEF vars, files, docker, TypeOK
  <1>2. CASE Next
    BY <1>2, RecoverTyped, ExecuteTyped, EnvironmentTyped DEF Next, Once
  <1>. QED
    BY <1>1, <1>2

\* Every reachable state is well typed: a busy process always has a run in
\* hand, and a document from the end of its lane on.
THEOREM WorkerTypeCorrect == Spec => []TypeOK
  BY InitTyped, NextTyped, PTL DEF Spec

-----------------------------------------------------------------------------
(* The inductive invariant. *)

\* Rows: a queued run is fresh, a consumed one has its attempt, a container
\* lives only under a RUNNING lease that was launched, a sealed verdict was
\* launched too, and a lock is held by a process that works on the run.
RowInv(r) ==
  /\ lease[r].status \in {"NONE", "QUEUED"} => lease[r].attempt = 0
  /\ lease[r].status \in ACTIVE => lease[r].attempt = 1
  /\ launched[r] \in {0, 1} /\ (launched[r] = 1 => lease[r].attempt = 1)
  /\ container[r] => lease[r].status = "RUNNING" /\ launched[r] = 1
  /\ sealed[r].status \in Verdicts => launched[r] = 1
  /\ lock[r] # NoWorker => worker[lock[r]].pc \in Holding /\ worker[lock[r]].run = r

\* Processes: who stands between two steps has the lock and the consumed
\* attempt, and finds the run as it left it.
ProcessInv(w) ==
  LET p == worker[w] IN
  /\ p.pc \in Holding => lock[p.run] = w
  /\ p.pc \in Executing => lease[p.run].attempt = 1
  /\ p.pc \in {"claimed", "locked", "prepared"} => launched[p.run] = 0
  /\ p.pc \in {"running", "ended"} => launched[p.run] = 1
  /\ p.pc \in {"prepared", "running", "ended"} => lease[p.run].status = "RUNNING"
  /\ p.pc \in {"sealing", "storing", "recording"} => ~container[p.run]
  /\ p.doc.status \in Verdicts =>
       /\ p.pc \in {"ended", "sealing", "storing"}
       /\ launched[p.run] = 1 /\ lease[p.run].status = "RUNNING"
  /\ p.pc = "storing" => sealed[p.run] = p.doc

\* An attempt has one executor.
OneExecutor ==
  \A v, w \in Workers :
     v # w /\ worker[v].pc \in Executing /\ worker[w].pc \in Executing
        => worker[v].run # worker[w].run

Inv ==
  /\ TypeOK /\ OneExecutor
  /\ \A r \in Runs : RowInv(r)
  /\ \A w \in Workers : ProcessInv(w)

LEMMA InitInv == Init => Inv
  <1>. SUFFICES ASSUME Init PROVE Inv
    OBVIOUS
  <1>1. TypeOK
    BY InitTyped
  <1>2. \A w \in Workers : worker[w].pc = "idle" /\ worker[w].doc.status = "none"
    BY DEF Init, Idle, NoDocument
  <1>3. OneExecutor /\ \A w \in Workers : ProcessInv(w)
    BY <1>2 DEF OneExecutor, ProcessInv, Executing, Holding, Verdicts
  <1>4. \A r \in Runs : RowInv(r)
    BY DEF Init, RowInv, NewLease, NoDocument, ACTIVE, Verdicts
  <1>. QED
    BY <1>1, <1>3, <1>4 DEF Inv

\* A step that only moves attempts which nobody has claimed.
LEMMA Quiet ==
  ASSUME Inv, TypeOK', UNCHANGED <<worker, lock, sealed, container, launched>>,
         \A s \in Runs :
           /\ lease'[s].attempt = lease[s].attempt
           /\ \/ lease'[s].status = lease[s].status
              \/ /\ lease[s].status \in {"NONE", "QUEUED"}
                 /\ lease'[s].status \in {"QUEUED", "CANCELLED"}
  PROVE  Inv'
  <1>1. \A s \in Runs : RowInv(s)'
    BY DEF Inv, RowInv, ACTIVE
  <1>2. OneExecutor'
    BY DEF Inv, OneExecutor
  <1>3. ASSUME NEW v \in Workers PROVE ProcessInv(v)'
    <2>1. ProcessInv(v) /\ (worker[v].pc \notin {"idle", "scanning"} => worker[v].run \in Runs)
      BY DEF Inv, TypeOK
    <2>2. CASE worker[v].pc \in {"idle", "scanning"}
      BY <2>1, <2>2 DEF ProcessInv, Executing, Holding
    <2>3. CASE worker[v].run \in Runs
      BY <2>1, <2>3 DEF ProcessInv
    <2>. QED
      BY <2>1, <2>2, <2>3
  <1>. QED
    BY <1>1, <1>2, <1>3 DEF Inv

\* A step of a process that has nothing in hand before and after.
LEMMA Waiting ==
  ASSUME Inv, TypeOK', UNCHANGED <<lease, lock, sealed, container, launched>>,
         NEW w \in Workers, \A v \in Workers \ {w} : worker'[v] = worker[v],
         worker[w].pc \in {"idle", "scanning"}, worker'[w].pc \in {"idle", "scanning"},
         worker'[w].doc \in {worker[w].doc, NoDocument}
  PROVE  Inv'
  <1>1. \A s \in Runs : lock[s] # w
    BY WorkerAssumption DEF Inv, RowInv, TypeOK, Holding, Executing, Verdicts
  <1>2. \A s \in Runs : RowInv(s)'
    BY <1>1 DEF Inv, RowInv, TypeOK
  <1>3. OneExecutor'
    BY DEF Inv, OneExecutor, Executing
  <1>4. ProcessInv(w)'
    BY DEF Inv, ProcessInv, Executing, Holding, NoDocument, Verdicts
  <1>5. \A v \in Workers \ {w} : ProcessInv(v)'
    BY DEF Inv, ProcessInv
  <1>. QED
    BY <1>2, <1>3, <1>4, <1>5 DEF Inv

\* A process that ends gives up its lock and leaves everything else.
LEMMA Ended ==
  ASSUME Inv, TypeOK', NEW w \in Workers, Exit(w),
         UNCHANGED <<lease, sealed, container, launched>>
  PROVE  Inv'
  <1>1. worker'[w] = Idle /\ \A v \in Workers \ {w} : worker'[v] = worker[v]
    BY DEF Exit, Inv, TypeOK
  <1>2. \A s \in Runs : lock'[s] # w /\ (lock'[s] = NoWorker \/ lock'[s] = lock[s])
    BY WorkerAssumption DEF Exit, Unlocked
  <1>3. \A s \in Runs : lock[s] # w => lock'[s] = lock[s]
    BY DEF Exit, Unlocked
  <1>4. \A s \in Runs : RowInv(s)'
    BY <1>1, <1>2 DEF Inv, RowInv, TypeOK
  <1>5. OneExecutor'
    BY <1>1 DEF Inv, OneExecutor, Idle, Executing
  <1>6. ProcessInv(w)'
    BY <1>1 DEF ProcessInv, Idle, Executing, Holding, NoDocument, Verdicts
  <1>7. ASSUME NEW v \in Workers \ {w} PROVE ProcessInv(v)'
    <2>1. worker[v].pc \in Holding => worker[v].run \in Runs /\ lock[worker[v].run] = v
      BY DEF Inv, TypeOK, ProcessInv, Holding, Executing
    <2>. QED
      BY <1>1, <1>3, <2>1 DEF Inv, ProcessInv
  <1>. QED
    BY <1>4, <1>5, <1>6, <1>7 DEF Inv

\* A step of process w that touches no run but r.
LEMMA Local ==
  ASSUME Inv, TypeOK', NEW w \in Workers, NEW r \in Runs,
         \A v \in Workers \ {w} : worker'[v] = worker[v],
         \A s \in Runs \ {r} :
           /\ lease'[s] = lease[s] /\ lock'[s] = lock[s] /\ sealed'[s] = sealed[s]
           /\ container'[s] = container[s] /\ launched'[s] = launched[s],
         worker[w].run = r \/ worker[w].pc \notin Holding,
         worker'[w].pc \in Executing =>
           \A v \in Workers \ {w} :
             worker[v].pc \in Executing => worker[v].run # worker'[w].run,
         RowInv(r)', ProcessInv(w)',
         \A v \in Workers \ {w} : worker[v].run = r => ProcessInv(v)'
  PROVE  Inv'
  <1>1. \A s \in Runs \ {r} : lock[s] # w
    BY WorkerAssumption DEF Inv, RowInv, TypeOK
  <1>2. \A s \in Runs \ {r} : RowInv(s)'
    BY <1>1 DEF Inv, RowInv, TypeOK
  <1>3. OneExecutor'
    BY DEF Inv, OneExecutor
  <1>4. ASSUME NEW v \in Workers \ {w}, worker[v].run # r PROVE ProcessInv(v)'
    <2>1. ProcessInv(v) /\ (worker[v].pc \notin {"idle", "scanning"} => worker[v].run \in Runs)
      BY DEF Inv, TypeOK
    <2>2. CASE worker[v].pc \in {"idle", "scanning"}
      BY <2>1, <2>2 DEF ProcessInv, Executing, Holding
    <2>3. CASE worker[v].run \in Runs
      BY <1>4, <2>1, <2>3 DEF ProcessInv
    <2>. QED
      BY <2>1, <2>2, <2>3
  <1>. QED
    BY <1>2, <1>3, <1>4 DEF Inv

\* A process that holds the lock of its run shares the run with nobody but a
\* process that has claimed it and not yet got the lock; an executor that holds
\* it shares it with nobody at work.
LEMMA Alone ==
  ASSUME Inv, NEW w \in Workers, worker[w].pc \in Holding,
         NEW v \in Workers \ {w}, worker[v].run = worker[w].run
  PROVE  /\ worker[v].pc \in {"idle", "scanning", "claimed"}
         /\ worker[w].pc \in Executing => worker[v].pc \in {"idle", "scanning"}
         /\ worker[v].doc.status \notin Verdicts
  <1>1. worker[v] \in Process /\ worker[w] \in Process /\ ProcessInv(v) /\ ProcessInv(w)
    BY DEF Inv, TypeOK
  <1>2. worker[v].pc \notin Holding
    BY <1>1 DEF ProcessInv
  <1>3. worker[v].pc \in {"idle", "scanning", "claimed"}
    BY <1>1, <1>2 DEF Process, Holding, Executing
  <1>4. worker[w].pc \in Executing => worker[v].pc # "claimed"
    BY DEF Inv, OneExecutor, Executing
  <1>. QED
    BY <1>1, <1>3, <1>4 DEF ProcessInv

\* An executor that goes on with its run: nobody else minds.
LEMMA Executor ==
  ASSUME Inv, TypeOK', NEW w \in Workers, NEW r \in Runs,
         worker[w].pc \in Holding \cap Executing, worker[w].run = r,
         \A v \in Workers \ {w} : worker'[v] = worker[v],
         worker'[w].run = r \/ worker'[w] = Idle,
         \A s \in Runs \ {r} :
           /\ lease'[s] = lease[s] /\ lock'[s] = lock[s] /\ sealed'[s] = sealed[s]
           /\ container'[s] = container[s] /\ launched'[s] = launched[s],
         RowInv(r)', ProcessInv(w)'
  PROVE  Inv'
  <1>1. \A v \in Workers \ {w} : worker[v].run = r => ProcessInv(v)'
    <2>. SUFFICES ASSUME NEW v \in Workers \ {w}, worker[v].run = r PROVE ProcessInv(v)'
      OBVIOUS
    <2>1. worker[v].pc \in {"idle", "scanning"} /\ worker[v].doc.status \notin Verdicts
      BY Alone
    <2>. QED
      BY <2>1 DEF ProcessInv, Holding, Executing
  <1>2. worker'[w].pc \in Executing =>
          \A v \in Workers \ {w} : worker[v].pc \in Executing => worker[v].run # worker'[w].run
    BY DEF Inv, OneExecutor, Idle, Executing
  <1>. QED
    BY <1>1, <1>2, Local

\* What a process that is at work finds.
LEMMA AtWork ==
  ASSUME Inv, NEW w \in Workers, worker[w].pc \notin {"idle", "scanning"}
  PROVE  /\ worker[w] \in Process /\ worker[w].run \in Runs
         /\ lease[worker[w].run] \in LeaseRow
         /\ RowInv(worker[w].run) /\ ProcessInv(w)
         /\ worker[w].pc \in Holding => lock[worker[w].run] = w
  BY DEF Inv, TypeOK, ProcessInv

\* What is left when one process goes on: its run, and all other processes.
LEMMA GoesOn ==
  ASSUME Inv, NEW w \in Workers, worker[w].pc \notin {"idle", "scanning"},
         NEW pc, worker' = [worker EXCEPT ![w] = [@ EXCEPT !.pc = pc]]
  PROVE  /\ worker'[w].pc = pc /\ worker'[w].run = worker[w].run
         /\ worker'[w].doc = worker[w].doc
         /\ \A v \in Workers \ {w} : worker'[v] = worker[v]
  BY AtWork DEF Process, Inv, TypeOK

\* Nothing was launched: the executor gives the attempt up.
LEMMA GiveUpInv ==
  ASSUME Inv, TypeOK', NEW w \in Workers, worker[w].pc \in {"locked", "prepared"},
         NEW status \in {"BLOCKED", "FAILED_INFRA", "CANCELLED"}, Sealing(w, Plain(status)),
         UNCHANGED <<lease, lock, sealed, container, launched>>
  PROVE  Inv'
  <1>0. PICK r \in Runs :
          /\ worker[w] \in Process /\ r = worker[w].run /\ RowInv(r) /\ ProcessInv(w)
          /\ lock[r] = w
    BY AtWork DEF Holding, Executing
  <1>2. /\ worker'[w].pc = "sealing" /\ worker'[w].run = r /\ worker'[w].doc.status = status
        /\ \A v \in Workers \ {w} : worker'[v] = worker[v]
    BY <1>0 DEF Sealing, Process, Plain, Inv, TypeOK
  <1>3. RowInv(r)'
    <2>1. worker'[lock'[r]].pc \in Holding /\ worker'[lock'[r]].run = r
      BY <1>0, <1>2 DEF Holding, Executing
    <2>. QED
      BY <1>0, <1>2, <2>1 DEF RowInv, ProcessInv
  <1>4. ~container[r]
    BY <1>0 DEF RowInv, ProcessInv
  <1>5. ProcessInv(w)'
    BY <1>0, <1>2, <1>4 DEF ProcessInv, Holding, Executing, Verdicts
  <1>. QED
    BY <1>0, <1>2, <1>3, <1>5, Executor DEF Holding, Executing

LEMMA PrepareInv ==
  ASSUME Inv, TypeOK', NEW w \in Workers, Prepare(w)
  PROVE  Inv'
  <1>0. PICK r \in Runs :
          /\ worker[w] \in Process /\ r = worker[w].run /\ lease[r] \in LeaseRow
          /\ RowInv(r) /\ ProcessInv(w) /\ worker[w].pc = "locked"
          /\ lock[r] = w
    BY AtWork DEF Holding, Executing, Prepare
  <1>1. UNCHANGED <<lock, sealed, container, launched>>
    BY DEF Prepare, files, docker
  <1>2. CASE /\ lease[r].status \in ACTIVE
             /\ lease' = [lease EXCEPT ![r] = [@ EXCEPT !.status = "RUNNING"]]
             /\ worker' = [worker EXCEPT ![w] = [@ EXCEPT !.pc = "prepared"]]
    <2>0. lease[r].attempt = 1
      BY <1>0, <1>2 DEF RowInv
    <2>1. /\ lease'[r].status = "RUNNING" /\ lease'[r].attempt = 1
          /\ \A s \in Runs \ {r} : lease'[s] = lease[s]
      BY <1>0, <1>2, <2>0 DEF LeaseRow, Inv, TypeOK
    <2>2. /\ worker'[w].pc = "prepared" /\ worker'[w].run = r /\ worker'[w].doc = worker[w].doc
          /\ \A v \in Workers \ {w} : worker'[v] = worker[v]
      BY <1>0, <1>2, GoesOn
    <2>3. RowInv(r)'
      <3>1. worker'[lock'[r]].pc \in Holding /\ worker'[lock'[r]].run = r
        BY <1>0, <1>1, <2>1, <2>2 DEF Holding, Executing
      <3>. QED
        BY <1>0, <1>1, <2>1, <2>2, <3>1 DEF RowInv, ACTIVE
    <2>4. ProcessInv(w)'
      BY <1>0, <1>1, <2>1, <2>2 DEF ProcessInv, Holding, Executing
    <2>. QED
      BY <1>0, <1>1, <2>1, <2>2, <2>3, <2>4, Executor DEF Holding, Executing
  <1>3. ASSUME NEW status \in {"BLOCKED", "FAILED_INFRA", "CANCELLED"},
               Sealing(w, Plain(status)), UNCHANGED lease
        PROVE  Inv'
    BY <1>0, <1>1, <1>3, GiveUpInv
  <1>. QED
    BY <1>0, <1>2, <1>3 DEF Prepare, Owned

LEMMA LaunchInv ==
  ASSUME Inv, TypeOK', NEW w \in Workers, Launch(w)
  PROVE  Inv'
  <1>0. PICK r \in Runs :
          /\ worker[w] \in Process /\ r = worker[w].run /\ lease[r] \in LeaseRow
          /\ RowInv(r) /\ ProcessInv(w) /\ worker[w].pc = "prepared"
          /\ lock[r] = w
    BY AtWork DEF Holding, Executing, Launch
  <1>1. UNCHANGED <<lease, lock, sealed>>
    BY DEF Launch, files
  <1>2. CASE /\ container' = [container EXCEPT ![r] = TRUE]
             /\ launched' = [launched EXCEPT ![r] = @ + 1]
             /\ worker' = [worker EXCEPT ![w] = [@ EXCEPT !.pc = "running"]]
    <2>1. launched[r] = 0 /\ lease[r].attempt = 1 /\ lease[r].status = "RUNNING"
      BY <1>0 DEF ProcessInv, Executing
    <2>2. launched'[r] = 1 /\ \A s \in Runs \ {r} : launched'[s] = launched[s]
      BY <1>0, <1>2, <2>1 DEF Inv, TypeOK
    <2>3. \A s \in Runs \ {r} : container'[s] = container[s]
      BY <1>2 DEF Inv, TypeOK
    <2>4. /\ worker'[w].pc = "running" /\ worker'[w].run = r /\ worker'[w].doc = worker[w].doc
          /\ \A v \in Workers \ {w} : worker'[v] = worker[v]
      BY <1>0, <1>2, GoesOn
    <2>5. RowInv(r)'
      <3>1. worker'[lock'[r]].pc \in Holding /\ worker'[lock'[r]].run = r
        BY <1>0, <1>1, <2>2, <2>4 DEF Holding, Executing
      <3>. QED
        BY <1>0, <1>1, <2>1, <2>2, <2>4, <3>1 DEF RowInv
    <2>6. ProcessInv(w)'
      BY <1>0, <1>1, <2>2, <2>4 DEF ProcessInv, Holding, Executing
    <2>. QED
      BY <1>0, <1>1, <2>2, <2>3, <2>4, <2>5, <2>6, Executor DEF Holding, Executing
  <1>3. CASE Sealing(w, Plain("FAILED_INFRA")) /\ UNCHANGED docker
    BY <1>0, <1>1, <1>3, GiveUpInv DEF docker
  <1>. QED
    BY <1>0, <1>2, <1>3 DEF Launch

LEMMA LaneEndsInv ==
  ASSUME Inv, TypeOK', NEW w \in Workers, LaneEnds(w)
  PROVE  Inv'
  <1>0. PICK r \in Runs :
          /\ worker[w] \in Process /\ r = worker[w].run
          /\ RowInv(r) /\ ProcessInv(w) /\ worker[w].pc = "running"
          /\ lock[r] = w
    BY AtWork DEF Holding, Executing, LaneEnds
  <1>1. UNCHANGED <<lease, lock, sealed, launched>>
    BY DEF LaneEnds, files
  <1>2. PICK outcome \in LaneOutcomes(worker[w].stopping), episode \in BOOLEAN,
             left \in BOOLEAN :
          /\ worker' = [worker EXCEPT ![w] =
                [worker[w] EXCEPT !.pc = "ended", !.stopping = FALSE,
                                  !.doc = [status |-> outcome, episode |-> episode]]]
          /\ container' = [container EXCEPT ![worker[w].run] = left]
    BY DEF LaneEnds
  <1>3. /\ worker'[w].pc = "ended" /\ worker'[w].run = r
        /\ \A v \in Workers \ {w} : worker'[v] = worker[v]
    <2>1. worker \in [Workers -> Process]
      BY DEF Inv, TypeOK
    <2>2. worker'[w].pc = "ended" /\ worker'[w].run = r
      BY <1>0, <1>2, <2>1 DEF Process
    <2>. QED
      BY <1>2, <2>1, <2>2
  <1>4. \A s \in Runs \ {r} : container'[s] = container[s]
    BY <1>0, <1>2 DEF Inv, TypeOK
  <1>5. RowInv(r)'
    <2>1. worker'[lock'[r]].pc \in Holding /\ worker'[lock'[r]].run = r
      BY <1>0, <1>1, <1>3 DEF Holding, Executing
    <2>. QED
      BY <1>0, <1>1, <1>3, <2>1 DEF RowInv, ProcessInv
  <1>6. ProcessInv(w)'
    BY <1>0, <1>1, <1>3 DEF ProcessInv, Holding, Executing
  <1>. QED
    BY <1>0, <1>1, <1>3, <1>4, <1>5, <1>6, Executor DEF Holding, Executing

LEMMA CleanUpInv ==
  ASSUME Inv, TypeOK', NEW w \in Workers, CleanUp(w)
  PROVE  Inv'
  <1>0. PICK r \in Runs :
          /\ worker[w] \in Process /\ r = worker[w].run
          /\ RowInv(r) /\ ProcessInv(w) /\ worker[w].pc = "ended"
          /\ lock[r] = w
    BY AtWork DEF Holding, Executing, CleanUp
  <1>1. UNCHANGED <<lease, lock, sealed, launched>>
    BY DEF CleanUp, files
  <1>2. /\ worker'[w].pc = "sealing" /\ worker'[w].run = r /\ worker'[w].doc = worker[w].doc
        /\ \A v \in Workers \ {w} : worker'[v] = worker[v]
    BY <1>0, GoesOn DEF CleanUp
  <1>3. ~container'[r] /\ \A s \in Runs \ {r} : container'[s] = container[s]
    BY <1>0 DEF CleanUp, Inv, TypeOK
  <1>4. RowInv(r)'
    <2>1. worker'[lock'[r]].pc \in Holding /\ worker'[lock'[r]].run = r
      BY <1>0, <1>1, <1>2, <1>3 DEF Holding, Executing
    <2>. QED
      BY <1>0, <1>1, <1>2, <1>3, <2>1 DEF RowInv, ProcessInv
  <1>5. ProcessInv(w)'
    BY <1>0, <1>1, <1>2, <1>3 DEF ProcessInv, Holding, Executing
  <1>. QED
    BY <1>0, <1>1, <1>2, <1>3, <1>4, <1>5, Executor DEF Holding, Executing

LEMMA SealInv ==
  ASSUME Inv, TypeOK', NEW w \in Workers, Seal(w)
  PROVE  Inv'
  <1>0. PICK r \in Runs :
          /\ worker[w] \in Process /\ r = worker[w].run
          /\ RowInv(r) /\ ProcessInv(w) /\ worker[w].pc = "sealing"
          /\ lock[r] = w
    BY AtWork DEF Holding, Executing, Seal
  <1>1. UNCHANGED <<lease, container, launched>>
    BY DEF Seal, docker
  <1>2. CASE Exit(w) /\ UNCHANGED sealed
    BY <1>1, <1>2, Ended
  <1>3. CASE /\ sealed' = [sealed EXCEPT ![r] = worker[w].doc]
             /\ worker' = [worker EXCEPT ![w] = [@ EXCEPT !.pc = "storing"]]
             /\ UNCHANGED lock
    <2>1. sealed'[r] = worker[w].doc /\ \A s \in Runs \ {r} : sealed'[s] = sealed[s]
      BY <1>0, <1>3 DEF Inv, TypeOK
    <2>2. /\ worker'[w].pc = "storing" /\ worker'[w].run = r /\ worker'[w].doc = worker[w].doc
          /\ \A v \in Workers \ {w} : worker'[v] = worker[v]
      BY <1>0, <1>3, GoesOn
    <2>3. RowInv(r)'
      <3>1. worker'[lock'[r]].pc \in Holding /\ worker'[lock'[r]].run = r
        BY <1>0, <1>1, <1>3, <2>1, <2>2 DEF Holding, Executing
      <3>. QED
        BY <1>0, <1>1, <1>3, <2>1, <2>2, <3>1 DEF RowInv, ProcessInv
    <2>4. ProcessInv(w)'
      BY <1>0, <1>1, <1>3, <2>1, <2>2 DEF ProcessInv, Holding, Executing
    <2>. QED
      BY <1>0, <1>1, <1>3, <2>1, <2>2, <2>3, <2>4, Executor DEF Holding, Executing
  <1>. QED
    BY <1>0, <1>2, <1>3 DEF Seal

LEMMA StoreInv ==
  ASSUME Inv, TypeOK', NEW w \in Workers, Store(w)
  PROVE  Inv'
  <1>0. PICK r \in Runs :
          /\ worker[w] \in Process /\ r = worker[w].run /\ lease[r] \in LeaseRow
          /\ RowInv(r) /\ ProcessInv(w) /\ worker[w].pc = "storing"
    BY AtWork DEF Store
  <1> DEFINE row == EndedLease(lease[r], FinalDocument(w).status)
  <1>1. Exit(w) /\ UNCHANGED <<sealed, container, launched>>
    BY DEF Store, files, docker
  <1>2. CASE UNCHANGED lease
    BY <1>1, <1>2, Ended
  <1>3. CASE lease' = [lease EXCEPT ![r] = row]
    <2>1. FinalDocument(w).status \in TERMINAL
      BY <1>0, FinalTyped, Documents DEF Inv
    <2>2. row.status = FinalDocument(w).status /\ row.attempt = lease[r].attempt
      BY <1>0 DEF EndedLease, LeaseRow
    <2>. HIDE DEF row
    <2>3. lease'[r] = row /\ \A s \in Runs \ {r} : lease'[s] = lease[s]
      BY <1>0, <1>3 DEF Inv, TypeOK
    <2>4. lease'[r].status \in TERMINAL /\ lease'[r].attempt = 1
      BY <1>0, <2>1, <2>2, <2>3 DEF ProcessInv, Executing
    <2>5. worker'[w] = Idle /\ \A v \in Workers \ {w} : worker'[v] = worker[v]
      BY <1>1 DEF Exit, Inv, TypeOK
    <2>6. lock'[r] = NoWorker
      BY <1>0, <1>1 DEF Exit, Unlocked, ProcessInv, Holding, Executing
    <2>7. \A s \in Runs \ {r} : lock'[s] = lock[s]
      <3>1. \A s \in Runs \ {r} : lock[s] # w
        BY <1>0, WorkerAssumption DEF Inv, RowInv
      <3>. QED
        BY <1>1, <3>1 DEF Exit, Unlocked, Inv, TypeOK
    <2>8. ~container[r]
      BY <1>0 DEF ProcessInv
    <2>9. RowInv(r)'
      BY <1>0, <1>1, <2>4, <2>6, <2>8 DEF RowInv, ACTIVE, TERMINAL, Verdicts
    <2>10. ProcessInv(w)'
      BY <2>5 DEF ProcessInv, Idle, Executing, Holding, NoDocument, Verdicts
    <2>. QED
      BY <1>0, <1>1, <2>3, <2>5, <2>7, <2>9, <2>10, Executor DEF Holding, Executing
  <1>. QED
    BY <1>0, <1>2, <1>3 DEF Store

LEMMA LockClaimedInv ==
  ASSUME Inv, TypeOK', NEW w \in Workers, LockClaimed(w)
  PROVE  Inv'
  <1>0. PICK r \in Runs :
          /\ worker[w] \in Process /\ r = worker[w].run
          /\ RowInv(r) /\ ProcessInv(w) /\ worker[w].pc = "claimed"
    BY AtWork DEF LockClaimed
  <1>1. UNCHANGED <<lease, sealed, container, launched>>
    BY DEF LockClaimed, files, docker
  <1>2. CASE Exit(w)
    BY <1>1, <1>2, Ended
  <1>3. CASE /\ lock[r] = NoWorker /\ lock' = [lock EXCEPT ![r] = w]
             /\ worker' = [worker EXCEPT ![w] = [@ EXCEPT !.pc = "locked"]]
    <2>1. lock'[r] = w /\ \A s \in Runs \ {r} : lock'[s] = lock[s]
      BY <1>3 DEF Inv, TypeOK
    <2>2. /\ worker'[w].pc = "locked" /\ worker'[w].run = r /\ worker'[w].doc = worker[w].doc
          /\ \A v \in Workers \ {w} : worker'[v] = worker[v]
      BY <1>0, <1>3, GoesOn
    <2>3. RowInv(r)'
      BY <1>0, <1>1, <2>1, <2>2 DEF RowInv, Holding, Executing
    <2>4. ProcessInv(w)'
      BY <1>0, <1>1, <2>1, <2>2 DEF ProcessInv, Holding, Executing
    <2>5. ASSUME NEW v \in Workers \ {w}, worker[v].run = r PROVE ProcessInv(v)'
      <3>1. ProcessInv(v) /\ worker[v].pc \notin Holding
        BY <1>3, <2>5, WorkerAssumption DEF Inv, ProcessInv
      <3>2. worker[v].pc # "claimed"
        BY <1>0, <2>5 DEF Inv, OneExecutor, Executing
      <3>. QED
        BY <1>1, <2>2, <3>1, <3>2 DEF ProcessInv, Holding, Executing
    <2>6. \A v \in Workers \ {w} : worker[v].pc \in Executing => worker[v].run # worker'[w].run
      BY <1>0, <2>2 DEF Inv, OneExecutor, Executing
    <2>. QED
      BY <1>0, <1>1, <2>1, <2>2, <2>3, <2>4, <2>5, <2>6, Local
  <1>. QED
    BY <1>0, <1>2, <1>3 DEF LockClaimed, LockFree

LEMMA ClaimInv ==
  ASSUME Inv, TypeOK', NEW w \in Workers, Claim(w)
  PROVE  Inv'
  <1>0. UNCHANGED <<lock, sealed, container, launched>> /\ worker[w].pc = "scanning"
    BY DEF Claim, files, docker
  <1>1. CASE worker' = [worker EXCEPT ![w] = Idle] /\ UNCHANGED lease
    BY <1>0, <1>1, Waiting DEF Idle, Inv, TypeOK
  <1>2. ASSUME NEW r \in Runs, Claimable(r),
               lease' = [lease EXCEPT ![r] = ClaimedLease(@, w)],
               worker' = [worker EXCEPT ![w] = [@ EXCEPT !.pc = "claimed", !.run = r]]
        PROVE  Inv'
    <2>0. lease[r].status = "QUEUED" /\ lease[r].attempt = 0 /\ RowInv(r) /\ ProcessInv(w)
      BY <1>2 DEF Claimable, Inv
    <2>1. /\ lease'[r].status = "CLAIMED" /\ lease'[r].attempt = 1
          /\ \A s \in Runs \ {r} : lease'[s] = lease[s]
      BY <1>2 DEF ClaimedLease, LeaseRow, Inv, TypeOK
    <2>2. /\ worker'[w].pc = "claimed" /\ worker'[w].run = r /\ worker'[w].doc = worker[w].doc
          /\ \A v \in Workers \ {w} : worker'[v] = worker[v]
      BY <1>2 DEF Process, Inv, TypeOK
    <2>3. lock[r] # w
      BY <1>0, WorkerAssumption DEF Inv, RowInv, Holding, Executing
    <2>4. RowInv(r)'
      BY <1>0, <2>0, <2>1, <2>2, <2>3 DEF RowInv, ACTIVE, Inv, TypeOK
    <2>5. ProcessInv(w)'
      BY <1>0, <2>0, <2>1, <2>2 DEF RowInv, ProcessInv, Holding, Executing
    <2>6. ASSUME NEW v \in Workers \ {w}, worker[v].run = r
          PROVE  worker[v].pc \notin Executing /\ ProcessInv(v)'
      <3>1. ProcessInv(v)
        BY DEF Inv
      <3>. QED
        BY <1>0, <2>0, <2>2, <2>6, <3>1 DEF ProcessInv, Executing
    <2>. QED
      BY <1>0, <2>1, <2>2, <2>4, <2>5, <2>6, Local DEF Holding, Executing
  <1>. QED
    BY <1>1, <1>2 DEF Claim

LEMMA LockAbandonedInv ==
  ASSUME Inv, TypeOK', NEW w \in Workers, LockAbandoned(w)
  PROVE  Inv'
  <1>0. /\ UNCHANGED <<lease, sealed, container, launched>>
        /\ worker[w].pc = "scanning" /\ worker[w] \in Process /\ worker[w].todo \subseteq Runs
    BY DEF LockAbandoned, files, docker, Inv, TypeOK, Process
  <1>1. ASSUME NEW r \in Runs, lock[r] = NoWorker, lock' = [lock EXCEPT ![r] = w],
               worker' = [worker EXCEPT ![w] =
                 [worker[w] EXCEPT !.pc = "cleaning", !.run = r, !.todo = worker[w].todo \ {r}]]
        PROVE  Inv'
    <2>0. RowInv(r) /\ ProcessInv(w)
      BY DEF Inv
    <2>1. lock'[r] = w /\ \A s \in Runs \ {r} : lock'[s] = lock[s]
      BY <1>1 DEF Inv, TypeOK
    <2>2. /\ worker'[w].pc = "cleaning" /\ worker'[w].run = r /\ worker'[w].doc = worker[w].doc
          /\ \A v \in Workers \ {w} : worker'[v] = worker[v]
      BY <1>0, <1>1 DEF Process, Inv, TypeOK
    <2>3. RowInv(r)'
      BY <1>0, <2>0, <2>1, <2>2 DEF RowInv, Holding
    <2>4. ProcessInv(w)'
      BY <1>0, <2>0, <2>1, <2>2 DEF ProcessInv, Executing
    <2>5. ASSUME NEW v \in Workers \ {w}, worker[v].run = r PROVE ProcessInv(v)'
      <3>1. ProcessInv(v) /\ worker[v].pc \notin Holding
        BY <1>1, <2>5, WorkerAssumption DEF Inv, ProcessInv
      <3>. QED
        BY <1>0, <2>2, <2>5, <3>1 DEF ProcessInv, Holding, Executing
    <2>. QED
      BY <1>0, <2>1, <2>2, <2>3, <2>4, <2>5, Local DEF Holding, Executing
  <1>2. ASSUME NEW r \in Runs, UNCHANGED lock,
               worker' = [worker EXCEPT ![w] = [worker[w] EXCEPT !.todo = worker[w].todo \ {r}]]
        PROVE  Inv'
    <2>1. /\ worker'[w].pc = "scanning" /\ worker'[w].doc = worker[w].doc
          /\ \A v \in Workers \ {w} : worker'[v] = worker[v]
      BY <1>0, <1>2 DEF Process, Inv, TypeOK
    <2>. QED
      BY <1>0, <1>2, <2>1, Waiting
  <1>. QED
    BY <1>0, <1>1, <1>2 DEF LockAbandoned, LockFree

LEMMA ScanInv ==
  ASSUME Inv, TypeOK', NEW w \in Workers, Scan(w)
  PROVE  Inv'
  <1>1. worker \in [Workers -> Process] /\ worker[w] \in Process
    BY DEF Inv, TypeOK
  <1>2. worker[w].pc = "idle" /\ worker'[w].pc = "scanning" /\ worker'[w].doc = worker[w].doc
    BY <1>1 DEF Scan, Process
  <1>3. \A v \in Workers \ {w} : worker'[v] = worker[v]
    BY <1>1 DEF Scan
  <1>4. UNCHANGED <<lease, lock, sealed, container, launched>>
    BY DEF Scan, files, docker
  <1>. QED
    BY <1>2, <1>3, <1>4, Waiting

LEMMA CleanAbandonedInv ==
  ASSUME Inv, TypeOK', NEW w \in Workers, CleanAbandoned(w)
  PROVE  Inv'
  <1>0. PICK r \in Runs :
          /\ worker[w] \in Process /\ r = worker[w].run
          /\ RowInv(r) /\ ProcessInv(w) /\ worker[w].pc = "cleaning"
          /\ lock[r] = w
    BY AtWork DEF Holding, CleanAbandoned
  <1>1. UNCHANGED <<lease, lock, sealed, launched>>
    BY DEF CleanAbandoned, files
  <1>2. /\ worker'[w].pc = "recording" /\ worker'[w].run = r /\ worker'[w].doc = worker[w].doc
        /\ \A v \in Workers \ {w} : worker'[v] = worker[v]
    BY <1>0, GoesOn DEF CleanAbandoned
  <1>3. ~container'[r] /\ \A s \in Runs \ {r} : container'[s] = container[s]
    BY <1>0 DEF CleanAbandoned, Inv, TypeOK
  <1>4. RowInv(r)'
    BY <1>0, <1>1, <1>2, <1>3 DEF RowInv, Holding
  <1>5. ProcessInv(w)'
    BY <1>0, <1>1, <1>2, <1>3 DEF ProcessInv, Holding, Executing
  <1>6. ASSUME NEW v \in Workers \ {w}, worker[v].run = r PROVE ProcessInv(v)'
    <2>1. ProcessInv(v) /\ worker'[v] = worker[v]
      BY <1>2 DEF Inv
    <2>. QED
      BY <1>1, <1>3, <1>6, <2>1 DEF ProcessInv
  <1>. QED
    BY <1>0, <1>1, <1>2, <1>3, <1>4, <1>5, <1>6, Local DEF Executing

LEMMA RecordLostInv ==
  ASSUME Inv, TypeOK', NEW w \in Workers, RecordLost(w)
  PROVE  Inv'
  <1>0. PICK r \in Runs :
          /\ worker[w] \in Process /\ r = worker[w].run /\ lease[r] \in LeaseRow
          /\ RowInv(r) /\ ProcessInv(w) /\ worker[w].pc = "recording"
    BY AtWork DEF RecordLost
  <1>1. /\ UNCHANGED <<sealed, container, launched>> /\ lock' = Unlocked(w)
        /\ worker' = [worker EXCEPT ![w] = [@ EXCEPT !.pc = "scanning", !.run = NoRun]]
    BY DEF RecordLost, files, docker
  <1>2. /\ worker'[w].pc = "scanning" /\ worker'[w].doc = worker[w].doc
        /\ \A v \in Workers \ {w} : worker'[v] = worker[v]
    BY <1>0, <1>1 DEF Process, Inv, TypeOK
  <1>3. lock'[r] = NoWorker
    BY <1>0, <1>1 DEF Unlocked, ProcessInv, Holding
  <1>4. \A s \in Runs \ {r} : lock'[s] = lock[s]
    <2>1. \A s \in Runs \ {r} : lock[s] # w
      BY <1>0, WorkerAssumption DEF Inv, RowInv
    <2>. QED
      BY <1>1, <2>1 DEF Unlocked, Inv, TypeOK
  <1>5. /\ lease'[r].attempt = lease[r].attempt
        /\ \/ lease'[r].status = lease[r].status
           \/ lease[r].status \in ACTIVE /\ lease'[r].status \in TERMINAL
        /\ \A s \in Runs \ {r} : lease'[s] = lease[s]
    <2> DEFINE row == EndedLease(lease[r], Recovered(r).status)
    <2>1. Recovered(r).status \in TERMINAL
      BY RecoveredTyped, Documents DEF Inv
    <2>2. row.status = Recovered(r).status /\ row.attempt = lease[r].attempt
      BY <1>0 DEF EndedLease, LeaseRow
    <2>. HIDE DEF row
    <2>3. UNCHANGED lease \/ (lease[r].status \in ACTIVE /\ lease' = [lease EXCEPT ![r] = row])
      BY <1>0 DEF RecordLost, Expired, row
    <2>. QED
      BY <2>1, <2>2, <2>3 DEF Inv, TypeOK
  <1>6. ~container[r]
    BY <1>0 DEF ProcessInv
  <1>7. RowInv(r)'
    BY <1>0, <1>1, <1>3, <1>5, <1>6 DEF RowInv, ACTIVE, TERMINAL, Verdicts
  <1>8. ProcessInv(w)'
    BY <1>0, <1>2 DEF ProcessInv, Executing, Holding
  <1>9. ASSUME NEW v \in Workers \ {w}, worker[v].run = r PROVE ProcessInv(v)'
    <2>1. worker[v].pc \in {"idle", "scanning", "claimed"} /\ worker[v].doc.status \notin Verdicts
      BY <1>0, <1>9, Alone DEF Holding
    <2>2. ProcessInv(v) /\ worker'[v] = worker[v]
      BY <1>2 DEF Inv
    <2>. QED
      BY <1>1, <1>5, <1>9, <2>1, <2>2 DEF ProcessInv, Executing, Holding
  <1>. QED
    BY <1>0, <1>1, <1>2, <1>4, <1>5, <1>7, <1>8, <1>9, Local DEF Executing

\* The operator, the clock, the disk and the watcher move no attempt that
\* somebody has claimed.
LEMMA QuietInv ==
  ASSUME Inv, TypeOK',
         \/ \E r \in Runs : Authorize(r) \/ Cancel(r) \/ Damage(r)
         \/ Tick
         \/ \E w \in Workers : Watch(w)
  PROVE  Inv'
  <1>0. \A s \in Runs : lease[s] \in LeaseRow /\ RowInv(s)
    BY DEF Inv, TypeOK
  <1>1. ASSUME NEW r \in Runs, Authorize(r) PROVE Inv'
    <2>1. \A s \in Runs :
            /\ lease'[s].attempt = lease[s].attempt
            /\ \/ lease'[s].status = lease[s].status
               \/ lease[s].status = "NONE" /\ lease'[s].status = "QUEUED"
      BY <1>0, <1>1 DEF Authorize, LeaseRow, Inv, TypeOK
    <2>. QED
      BY <1>1, <2>1, Quiet DEF Authorize, files, docker
  <1>2. ASSUME NEW r \in Runs, Cancel(r) PROVE Inv'
    <2>1. /\ CancelledLease(lease[r]).attempt = lease[r].attempt
          /\ \/ CancelledLease(lease[r]).status = lease[r].status
             \/ lease[r].status = "QUEUED" /\ CancelledLease(lease[r]).status = "CANCELLED"
      BY <1>0 DEF CancelledLease, LeaseRow
    <2>2. \A s \in Runs :
            /\ lease'[s].attempt = lease[s].attempt
            /\ \/ lease'[s].status = lease[s].status
               \/ lease[s].status = "QUEUED" /\ lease'[s].status = "CANCELLED"
      BY <1>2, <2>1 DEF Cancel, Inv, TypeOK
    <2>. QED
      BY <1>2, <2>2, Quiet DEF Cancel, files, docker
  <1>3. ASSUME NEW r \in Runs, Damage(r) PROVE Inv'
    BY <1>3, Quiet DEF Damage, docker
  <1>4. CASE Tick
    <2>1. \A s \in Runs :
            lease'[s].attempt = lease[s].attempt /\ lease'[s].status = lease[s].status
      BY <1>0, <1>4 DEF Tick, LeaseRow
    <2>. QED
      BY <1>4, <2>1, Quiet DEF Tick, files, docker
  <1>5. ASSUME NEW w \in Workers, Watch(w) PROVE Inv'
    <2>1. \A s \in Runs :
            lease'[s].attempt = lease[s].attempt /\ lease'[s].status = lease[s].status
      BY <1>0, <1>5 DEF Watch, LeaseRow, Inv, TypeOK
    <2>. QED
      BY <1>5, <2>1, Quiet DEF Watch, files, docker
  <1>. QED
    BY <1>1, <1>2, <1>3, <1>4, <1>5

LEMMA StopInv ==
  ASSUME Inv, TypeOK', NEW w \in Workers, Stop(w)
  PROVE  Inv'
  <1>0. PICK r \in Runs :
          /\ worker[w] \in Process /\ r = worker[w].run
          /\ RowInv(r) /\ ProcessInv(w) /\ worker[w].pc = "running"
          /\ lock[r] = w
    BY AtWork DEF Holding, Executing, Stop
  <1>1. UNCHANGED <<lease, lock, sealed, container, launched>>
    BY DEF Stop, files, docker
  <1>2. /\ worker'[w].pc = "running" /\ worker'[w].run = r /\ worker'[w].doc = worker[w].doc
        /\ \A v \in Workers \ {w} : worker'[v] = worker[v]
    BY <1>0 DEF Stop, Process, Inv, TypeOK
  <1>3. RowInv(r)'
    <2>1. worker'[lock'[r]].pc \in Holding /\ worker'[lock'[r]].run = r
      BY <1>0, <1>1, <1>2 DEF Holding, Executing
    <2>. QED
      BY <1>0, <1>1, <1>2, <2>1 DEF RowInv
  <1>4. ProcessInv(w)'
    BY <1>0, <1>1, <1>2 DEF ProcessInv
  <1>. QED
    BY <1>0, <1>1, <1>2, <1>3, <1>4, Executor DEF Holding, Executing

LEMMA NextInv == Inv /\ [Next]_vars => Inv'
  <1>. SUFFICES ASSUME Inv, [Next]_vars PROVE Inv'
    OBVIOUS
  <1>0. TypeOK'
    BY NextTyped DEF Inv
  <1>1. CASE UNCHANGED vars
    <2>. UNCHANGED <<worker, lease, lock, sealed, container, launched>>
      BY <1>1 DEF vars, files, docker
    <2>. QED
      BY <1>0, Quiet
  <1>2. ASSUME NEW w \in Workers, Once(w) PROVE Inv'
    BY <1>0, <1>2, ScanInv, LockAbandonedInv, CleanAbandonedInv, RecordLostInv, ClaimInv,
       LockClaimedInv, PrepareInv, LaunchInv, LaneEndsInv, CleanUpInv, SealInv, StoreInv
    DEF Once
  <1>3. ASSUME NEW w \in Workers, CleanupFails(w) \/ Crash(w) PROVE Inv'
    BY <1>0, <1>3, Ended DEF CleanupFails, Crash, files, docker
  <1>. QED
    BY <1>0, <1>1, <1>2, <1>3, QuietInv, StopInv DEF Next

LEMMA Invariant == Spec => []Inv
  BY InitInv, NextInv, PTL DEF Spec

\* "A terminal receipt requires subject/verifier container absence": for any
\* number of processes, a run that has ended has no container, and none is
\* started later.
THEOREM EndedRunsAreClean == Spec => []TerminalIsClean
  <1>1. Inv => TerminalIsClean
    BY DEF Inv, RowInv, TerminalIsClean, TERMINAL, Verdicts
  <1>. QED
    BY <1>1, Invariant, PTL

\* Nobody cleans or records a run that a living process executes under its
\* file lock, even if the lease of that process has run out.
THEOREM LockKeepsApart == Spec => []LockExcludes
  <1>1. Inv => LockExcludes
    BY DEF Inv, ProcessInv, LockExcludes
  <1>. QED
    BY <1>1, Invariant, PTL

-----------------------------------------------------------------------------
(* Results. *)

\* The three result properties at one run.
ResultInv(r) ==
  /\ IF lease[r].attempt = 1 /\ lease[r].status \in TERMINAL
     THEN stored[r] = lease[r].status ELSE stored[r] = "none"
  /\ lease[r].status \in Verdicts =>
       sealed[r].status = lease[r].status /\ ~lease[r].cancellation_requested
  /\ /\ sealed[r].status \in Verdicts /\ lease[r].status \in TERMINAL
     /\ ~lease[r].cancellation_requested /\ ~damaged[r]
     => lease[r].status = sealed[r].status

Results == \A r \in Runs : ResultInv(r)

LEMMA StatusKinds ==
  /\ Verdicts \subseteq TERMINAL /\ "CANCELLED" \in TERMINAL \ Verdicts
  /\ TERMINAL \cap (ACTIVE \cup {"NONE", "QUEUED"}) = {}
  BY DEF Verdicts, TERMINAL, ACTIVE

\* Steps that neither store nor seal anything: a run stays as it is, stays
\* unended, or is withdrawn from the queue.
LEMMA NothingStored ==
  ASSUME Inv, Results, UNCHANGED <<stored, sealed>>,
         \A s \in Runs :
           /\ damaged[s] => damaged'[s]
           /\ \/ /\ lease'[s].status = lease[s].status
                 /\ lease'[s].attempt = lease[s].attempt
                 /\ lease'[s].cancellation_requested = lease[s].cancellation_requested
              \/ lease[s].status \notin TERMINAL /\ lease'[s].status \notin TERMINAL
              \/ /\ lease[s].status = "QUEUED" /\ lease'[s].status = "CANCELLED"
                 /\ lease'[s].attempt = lease[s].attempt
  PROVE  Results'
  <1>. SUFFICES ASSUME NEW s \in Runs PROVE ResultInv(s)'
    BY DEF Results
  <1>1. RowInv(s) /\ ResultInv(s)
    BY DEF Inv, Results
  <1>. QED
    BY <1>1, StatusKinds DEF RowInv, ResultInv

\* A document is sealed once, while its run is not ended.
LEMMA SealResults ==
  ASSUME Inv, Results, NEW w \in Workers, Seal(w)
  PROVE  Results'
  <1>0. PICK r \in Runs : r = worker[w].run /\ RowInv(r) /\ ProcessInv(w) /\ ResultInv(r)
    BY AtWork DEF Seal, Results
  <1>1. UNCHANGED <<lease, stored, damaged>>
    BY DEF Seal
  <1>2. CASE UNCHANGED sealed
    BY <1>1, <1>2, NothingStored
  <1>3. CASE sealed[r] = NoDocument /\ sealed' = [sealed EXCEPT ![r] = worker[w].doc]
    <2>1. sealed'[r] = worker[w].doc /\ \A s \in Runs \ {r} : sealed'[s] = sealed[s]
      BY <1>3 DEF Inv, TypeOK
    <2>2. lease[r].status \notin Verdicts
      BY <1>0, <1>3, Documents, StatusKinds DEF ResultInv
    <2>3. worker[w].doc.status \in Verdicts => lease[r].status \notin TERMINAL
      BY <1>0, StatusKinds DEF ProcessInv, ACTIVE
    <2>4. ResultInv(r)'
      BY <1>0, <1>1, <2>1, <2>2, <2>3 DEF ResultInv
    <2>5. \A s \in Runs \ {r} : ResultInv(s)'
      BY <1>1, <2>1 DEF ResultInv, Results
    <2>. QED
      BY <2>4, <2>5 DEF Results
  <1>. QED
    BY <1>0, <1>2, <1>3 DEF Seal

\* Ending run r with the outcome that a document says.
LEMMA EndResults ==
  ASSUME Inv, Results, NEW r \in Runs, lease[r].attempt = 1, NEW status \in TERMINAL,
         stored' = [stored EXCEPT ![r] = status],
         lease' = [lease EXCEPT ![r] = EndedLease(@, status)],
         UNCHANGED <<sealed, damaged>>,
         status \in Verdicts =>
           status = sealed[r].status /\ ~lease[r].cancellation_requested,
         /\ sealed[r].status \in Verdicts /\ ~lease[r].cancellation_requested
         /\ ~damaged[r]
         => status = sealed[r].status
  PROVE  Results'
  <1> DEFINE row == EndedLease(lease[r], status)
  <1>0. lease[r] \in LeaseRow
    BY DEF Inv, TypeOK
  <1>1. /\ row.status = status /\ row.attempt = lease[r].attempt
        /\ row.cancellation_requested = lease[r].cancellation_requested
    BY <1>0 DEF EndedLease, LeaseRow
  <1>2. lease' = [lease EXCEPT ![r] = row]
    OBVIOUS
  <1>. HIDE DEF row
  <1>3. lease'[r] = row /\ \A s \in Runs \ {r} : lease'[s] = lease[s]
    BY <1>2 DEF Inv, TypeOK
  <1>4. stored'[r] = status /\ \A s \in Runs \ {r} : stored'[s] = stored[s]
    BY DEF Inv, TypeOK
  <1>5. ResultInv(r)'
    BY <1>1, <1>3, <1>4 DEF ResultInv
  <1>6. \A s \in Runs \ {r} : ResultInv(s)'
    BY <1>3, <1>4 DEF ResultInv, Results
  <1>. QED
    BY <1>5, <1>6 DEF Results

LEMMA StoreResults ==
  ASSUME Inv, Results, NEW w \in Workers, Store(w)
  PROVE  Results'
  <1>0. PICK r \in Runs :
          /\ r = worker[w].run /\ ProcessInv(w) /\ worker[w].pc = "storing"
          /\ worker[w] \in Process
    BY AtWork DEF Store
  <1>1. UNCHANGED <<sealed, damaged>>
    BY DEF Store, files
  <1>2. CASE UNCHANGED <<stored, lease>>
    BY <1>1, <1>2, NothingStored
  <1>3. CASE /\ stored' = [stored EXCEPT ![r] = FinalDocument(w).status]
             /\ lease' = [lease EXCEPT ![r] = EndedLease(@, FinalDocument(w).status)]
    <2>1. lease[r].attempt = 1 /\ sealed[r] = worker[w].doc
      BY <1>0 DEF ProcessInv, Executing
    <2>2. worker[w].doc \in Document /\ FinalDocument(w).status \in TERMINAL
      BY <1>0, FinalTyped, Documents DEF Inv, TypeOK
    <2>3. IF lease[r].cancellation_requested
          THEN FinalDocument(w).status \notin Verdicts
          ELSE FinalDocument(w).status = sealed[r].status
      BY <1>0, <2>1, <2>2 DEF FinalDocument, Verdicts, Document
    <2>. QED
      BY <1>1, <1>3, <2>1, <2>2, <2>3, EndResults
  <1>. QED
    BY <1>0, <1>2, <1>3 DEF Store

LEMMA RecordLostResults ==
  ASSUME Inv, Results, NEW w \in Workers, RecordLost(w)
  PROVE  Results'
  <1>0. PICK r \in Runs : r = worker[w].run /\ RowInv(r)
    BY AtWork DEF RecordLost
  <1>1. UNCHANGED <<sealed, damaged>>
    BY DEF RecordLost, files
  <1>2. CASE UNCHANGED <<stored, lease>>
    BY <1>1, <1>2, NothingStored
  <1>3. CASE /\ Expired(r) /\ stored' = [stored EXCEPT ![r] = Recovered(r).status]
             /\ lease' = [lease EXCEPT ![r] = EndedLease(@, Recovered(r).status)]
    <2>1. lease[r].attempt = 1
      BY <1>0, <1>3 DEF Expired, RowInv
    <2>2. Recovered(r).status \in TERMINAL
      BY RecoveredTyped, Documents DEF Inv
    <2>3. Recovered(r).status \in Verdicts =>
            Recovered(r).status = sealed[r].status /\ ~lease[r].cancellation_requested
      BY DEF Recovered, Plain, Verdicts
    <2>4. /\ sealed[r].status \in Verdicts /\ ~lease[r].cancellation_requested /\ ~damaged[r]
          => Recovered(r).status = sealed[r].status
      BY Documents, StatusKinds DEF Recovered, Valid
    <2>. QED
      BY <1>1, <1>3, <2>1, <2>2, <2>3, <2>4, EndResults
  <1>. QED
    BY <1>0, <1>2, <1>3 DEF RecordLost

\* The other steps of the processes.
LEMMA WorkResults ==
  ASSUME Inv, Results, NEW w \in Workers,
         \/ Scan(w) \/ LockAbandoned(w) \/ CleanAbandoned(w) \/ Claim(w) \/ LockClaimed(w)
         \/ Prepare(w) \/ Launch(w) \/ LaneEnds(w) \/ CleanUp(w)
         \/ Watch(w) \/ Stop(w) \/ CleanupFails(w) \/ Crash(w)
  PROVE  Results'
  <1>0. UNCHANGED <<stored, sealed, damaged>>
    BY DEF Scan, LockAbandoned, CleanAbandoned, Claim, LockClaimed, Prepare, Launch, LaneEnds,
       CleanUp, Watch, Stop, CleanupFails, Crash, files
  <1>1. CASE Claim(w)
    <2>1. CASE UNCHANGED lease
      BY <1>0, <2>1, NothingStored
    <2>2. ASSUME NEW r \in Runs, Claimable(r), lease' = [lease EXCEPT ![r] = ClaimedLease(@, w)]
          PROVE  Results'
      <3>1. lease[r].status \notin TERMINAL /\ lease'[r].status \notin TERMINAL
        BY <2>2, StatusKinds DEF Claimable, ClaimedLease, LeaseRow, ACTIVE, Inv, TypeOK
      <3>2. \A s \in Runs \ {r} : lease'[s] = lease[s]
        BY <2>2 DEF Inv, TypeOK
      <3>. QED
        BY <1>0, <3>1, <3>2, NothingStored
    <2>. QED
      BY <1>1, <2>1, <2>2 DEF Claim
  <1>2. CASE Prepare(w)
    <2>1. CASE UNCHANGED lease
      BY <1>0, <2>1, NothingStored
    <2>2. ASSUME NEW r \in Runs, lease[r].status \in ACTIVE,
                 lease' = [lease EXCEPT ![r] = [@ EXCEPT !.status = "RUNNING"]]
          PROVE  Results'
      <3>1. lease[r].status \notin TERMINAL /\ lease'[r].status \notin TERMINAL
        BY <2>2, StatusKinds DEF LeaseRow, ACTIVE, Inv, TypeOK
      <3>2. \A s \in Runs \ {r} : lease'[s] = lease[s]
        BY <2>2 DEF Inv, TypeOK
      <3>. QED
        BY <1>0, <3>1, <3>2, NothingStored
    <2>. QED
      BY <1>2, <2>1, <2>2, AtWork DEF Prepare, Owned
  <1>3. CASE Watch(w)
    <2>1. \A s \in Runs :
            /\ lease'[s].status = lease[s].status
            /\ lease'[s].attempt = lease[s].attempt
            /\ lease'[s].cancellation_requested = lease[s].cancellation_requested
      BY <1>3 DEF Watch, LeaseRow, Inv, TypeOK
    <2>. QED
      BY <1>0, <2>1, NothingStored
  <1>4. CASE UNCHANGED lease
    BY <1>0, <1>4, NothingStored
  <1>. QED
    BY <1>1, <1>2, <1>3, <1>4
    DEF Scan, LockAbandoned, CleanAbandoned, LockClaimed, Launch, LaneEnds, CleanUp, Stop,
        CleanupFails, Crash

\* The operator, the clock and the disk.
LEMMA EnvironmentResults ==
  ASSUME Inv, Results, Tick \/ \E r \in Runs : Authorize(r) \/ Cancel(r) \/ Damage(r)
  PROVE  Results'
  <1>0. UNCHANGED <<stored, sealed>> /\ \A s \in Runs : lease[s] \in LeaseRow
    BY DEF Authorize, Cancel, Damage, Tick, files, Inv, TypeOK
  <1>1. CASE Tick
    <2>1. \A s \in Runs :
            /\ lease'[s].status = lease[s].status
            /\ lease'[s].attempt = lease[s].attempt
            /\ lease'[s].cancellation_requested = lease[s].cancellation_requested
      BY <1>0, <1>1 DEF Tick, LeaseRow
    <2>. QED
      BY <1>0, <1>1, <2>1, NothingStored DEF Tick, files
  <1>2. ASSUME NEW r \in Runs, Authorize(r) PROVE Results'
    <2>1. lease[r].status \notin TERMINAL /\ lease'[r].status \notin TERMINAL
      BY <1>0, <1>2, StatusKinds DEF Authorize, LeaseRow, Inv, TypeOK
    <2>2. \A s \in Runs \ {r} : lease'[s] = lease[s]
      BY <1>2 DEF Authorize, Inv, TypeOK
    <2>. QED
      BY <1>0, <1>2, <2>1, <2>2, NothingStored DEF Authorize, files
  <1>3. ASSUME NEW r \in Runs, Cancel(r) PROVE Results'
    <2> DEFINE row == CancelledLease(lease[r])
    <2>1. /\ row.attempt = lease[r].attempt
          /\ \/ row.status = lease[r].status
             \/ lease[r].status = "QUEUED" /\ row.status = "CANCELLED"
      BY <1>0 DEF CancelledLease, LeaseRow
    <2>2. lease' = [lease EXCEPT ![r] = row] /\ lease[r].status \notin TERMINAL
      BY <1>3 DEF Cancel
    <2>. HIDE DEF row
    <2>3. lease'[r] = row /\ \A s \in Runs \ {r} : lease'[s] = lease[s]
      BY <2>2 DEF Inv, TypeOK
    <2>. QED
      BY <1>0, <1>3, <2>1, <2>2, <2>3, NothingStored DEF Cancel, files
  <1>4. ASSUME NEW r \in Runs, Damage(r) PROVE Results'
    <2>. UNCHANGED lease /\ \A s \in Runs : damaged[s] => damaged'[s]
      BY <1>4 DEF Damage, Inv, TypeOK
    <2>. QED
      BY <1>0, NothingStored
  <1>. QED
    BY <1>1, <1>2, <1>3, <1>4

LEMMA ResultsInvariant == Spec => []Results
  <1>1. Init => Results
    <2>. SUFFICES ASSUME Init, NEW r \in Runs PROVE ResultInv(r)
      BY DEF Results
    <2>1. /\ lease[r].status = "NONE" /\ lease[r].attempt = 0
          /\ stored[r] = "none" /\ sealed[r].status = "none"
      BY DEF Init, NewLease, NoDocument
    <2>. QED
      BY <2>1 DEF ResultInv, Verdicts
  <1>2. Inv /\ Results /\ [Next]_vars => Results'
    <2>. SUFFICES ASSUME Inv, Results, [Next]_vars PROVE Results'
      OBVIOUS
    <2>1. CASE UNCHANGED vars
      BY <2>1, NothingStored DEF vars, files
    <2>2. CASE Next
      BY <2>2, SealResults, StoreResults, RecordLostResults, WorkResults, EnvironmentResults
      DEF Next, Once
    <2>. QED
      BY <2>1, <2>2
  <1>. QED
    BY <1>1, <1>2, Invariant, PTL DEF Spec

\* The result row and the lease row never disagree, although three handlers
\* write them.
THEOREM ResultsAgree == Spec => []ResultMatchesLease
  <1>1. Results => ResultMatchesLease
    BY DEF Results, ResultInv, ResultMatchesLease
  <1>. QED
    BY <1>1, ResultsInvariant, PTL

\* A stored verdict is the sealed one, and nobody had cancelled the run; a sealed
\* verdict survives the death of every process, unless its evidence is damaged.
THEOREM SealedVerdictsSurvive == Spec => []VerdictsSurvive
  <1>1. Results => VerdictIsSealed
    BY DEF Results, ResultInv, VerdictIsSealed
  <1>2. Results => VerdictIsKept
    BY DEF Results, ResultInv, VerdictIsKept
  <1>3. Results => VerdictsSurvive
    BY <1>1, <1>2 DEF VerdictsSurvive
  <1>. QED
    BY <1>3, ResultsInvariant, PTL

-----------------------------------------------------------------------------
(* LocalWorker implements SingleAttempt. *)

\* One step of the abstract specification, read off the rows of r.
AttemptMove(r) ==
  \/ /\ lease[r].status = "NONE" /\ lease'[r].status = "QUEUED"
     /\ launched'[r] = launched[r]
  \/ /\ lease[r].status = "QUEUED" /\ lease'[r].status = "CANCELLED"
     /\ launched'[r] = launched[r]
  \/ /\ lease[r].status = "QUEUED" /\ lease'[r].status = "CLAIMED"
     /\ launched'[r] = launched[r]
  \/ /\ lease[r].status \in ACTIVE /\ lease'[r].status = lease[r].status
     /\ launched[r] = 0 /\ launched'[r] = 1
  \/ /\ lease[r].status \in ACTIVE /\ lease'[r].status \in TERMINAL
     /\ lease'[r].status \in Verdicts => launched[r] = 1
     /\ launched'[r] = launched[r]

\* A stutter: an attempt may go from CLAIMED to RUNNING.
AttemptStays(r) ==
  /\ \/ lease'[r].status = lease[r].status
     \/ lease[r].status \in ACTIVE /\ lease'[r].status \in ACTIVE
  /\ launched'[r] = launched[r]

LEMMA Phases ==
  /\ PhaseOf["NONE"] = "none" /\ PhaseOf["QUEUED"] = "waiting"
  /\ \A status \in ACTIVE : PhaseOf[status] = "consumed"
  /\ \A status \in TERMINAL : PhaseOf[status] = "ended"
  BY DEF PhaseOf, ACTIVE, TERMINAL, Verdicts

\* At most one run moves: a step of the abstract specification or a stutter.
LEMMA MoveRefines ==
  ASSUME Inv, TypeOK', NEW r \in Runs, AttemptMove(r) \/ AttemptStays(r),
         \A s \in Runs \ {r} : AttemptStays(s)
  PROVE  [Attempt!Next]_(Attempt!vars)
  <1> DEFINE phase == [s \in Runs |-> PhaseOf[lease[s].status]]
             verdict == [s \in Runs |->
               IF lease[s].status \in TERMINAL THEN lease[s].status ELSE "none"]
  <1>1. \A s \in Runs : AttemptStays(s) =>
          /\ PhaseOf[lease'[s].status] = PhaseOf[lease[s].status]
          /\ (IF lease'[s].status \in TERMINAL THEN lease'[s].status ELSE "none") =
             (IF lease[s].status \in TERMINAL THEN lease[s].status ELSE "none")
    BY Phases, StatusKinds DEF AttemptStays
  <1>2. launched \in [Runs -> Nat] /\ launched' \in [Runs -> Nat]
    BY DEF Inv, TypeOK
  <1>3. CASE AttemptStays(r)
    <2>1. phase' = phase /\ verdict' = verdict
      BY <1>1, <1>3
    <2>2. launched' = launched
      BY <1>2, <1>3 DEF AttemptStays
    <2>. QED
      BY <2>1, <2>2 DEF Attempt!vars
  <1>4. CASE AttemptMove(r)
    <2>1. \A s \in Runs \ {r} : phase'[s] = phase[s] /\ verdict'[s] = verdict[s]
      BY <1>1
    <2>2. \A s \in Runs \ {r} : launched'[s] = launched[s]
      BY DEF AttemptStays
    <2>3. /\ phase' = [phase EXCEPT ![r] = PhaseOf[lease'[r].status]]
          /\ verdict' = [verdict EXCEPT ![r] =
               IF lease'[r].status \in TERMINAL THEN lease'[r].status ELSE "none"]
          /\ launched' = [launched EXCEPT ![r] = launched'[r]]
      BY <1>2, <2>1, <2>2
    <2>4. phase[r] = PhaseOf[lease[r].status]
      OBVIOUS
    <2>5. verdict[r] = IF lease[r].status \in TERMINAL THEN lease[r].status ELSE "none"
      OBVIOUS
    <2>6. launched'[r] = launched[r] => launched' = launched
      BY <1>2, <2>2
    <2>7. lease'[r].status \notin TERMINAL /\ lease[r].status \notin TERMINAL
          => verdict' = verdict
      BY <2>1
    <2>. HIDE DEF phase, verdict
    <2>8. CASE /\ lease[r].status = "NONE" /\ lease'[r].status = "QUEUED"
               /\ launched'[r] = launched[r]
      <3>. Attempt!Authorize(r)
        BY <2>8, <2>3, <2>4, <2>6, <2>7, Phases, StatusKinds DEF Attempt!Authorize, phase, verdict
      <3>. QED
        BY DEF Attempt!Next
    <2>9. CASE /\ lease[r].status = "QUEUED" /\ lease'[r].status = "CANCELLED"
               /\ launched'[r] = launched[r]
      <3>. Attempt!Withdraw(r)
        BY <2>9, <2>3, <2>4, <2>6, Phases, StatusKinds DEF Attempt!Withdraw, phase, verdict
      <3>. QED
        BY DEF Attempt!Next
    <2>10. CASE /\ lease[r].status = "QUEUED" /\ lease'[r].status = "CLAIMED"
                /\ launched'[r] = launched[r]
      <3>1. PhaseOf["CLAIMED"] = "consumed" /\ {"QUEUED", "CLAIMED"} \cap TERMINAL = {}
        BY Phases, StatusKinds DEF ACTIVE
      <3>. Attempt!Consume(r)
        BY <2>10, <2>3, <2>4, <2>6, <2>7, <3>1, Phases DEF Attempt!Consume, phase, verdict
      <3>. QED
        BY DEF Attempt!Next
    <2>11. CASE /\ lease[r].status \in ACTIVE /\ lease'[r].status = lease[r].status
                /\ launched[r] = 0 /\ launched'[r] = 1
      <3>1. phase' = phase /\ verdict' = verdict
        BY <2>1, <2>11 DEF phase, verdict
      <3>2. Attempt!Launch(r)
        BY <2>11, <2>3, <2>4, <3>1, Phases DEF Attempt!Launch, phase, verdict
      <3>. QED
        BY <3>2 DEF Attempt!Next
    <2>12. CASE /\ lease[r].status \in ACTIVE /\ lease'[r].status \in TERMINAL
                /\ lease'[r].status \in Verdicts => launched[r] = 1
                /\ launched'[r] = launched[r]
      <3>0. PICK outcome \in TERMINAL : outcome = lease'[r].status
        BY <2>12
      <3>1. Attempt!End(r, outcome)
        BY <2>12, <2>3, <2>4, <2>6, <3>0, Phases, StatusKinds
        DEF Attempt!End, Attempt!Verdicts, Verdicts, phase, verdict
      <3>2. outcome \in Attempt!TERMINAL
        BY DEF Attempt!TERMINAL, Attempt!Verdicts, TERMINAL, Verdicts
      <3>3. Attempt!Next
        BY <3>1, <3>2 DEF Attempt!Next
      <3>. QED
        BY <3>3
    <2>. QED
      BY <1>4, <2>8, <2>9, <2>10, <2>11, <2>12 DEF AttemptMove
  <1>. QED
    BY <1>3, <1>4

\* Nobody's status or launches change.
LEMMA NobodyMoves ==
  ASSUME Inv, TypeOK', UNCHANGED launched,
         \A s \in Runs : lease'[s].status = lease[s].status
  PROVE  [Attempt!Next]_(Attempt!vars)
  <1>1. \A s \in Runs :
          /\ PhaseOf[lease'[s].status] = PhaseOf[lease[s].status]
          /\ (IF lease'[s].status \in TERMINAL THEN lease'[s].status ELSE "none") =
             (IF lease[s].status \in TERMINAL THEN lease[s].status ELSE "none")
    OBVIOUS
  <1>. QED
    BY <1>1 DEF Attempt!vars

\* Only the row of r is written, launched is not.
LEMMA RowMove ==
  ASSUME Inv, TypeOK', NEW r \in Runs, NEW row, lease' = [lease EXCEPT ![r] = row],
         UNCHANGED launched,
         \/ row.status = lease[r].status
         \/ lease[r].status = "NONE" /\ row.status = "QUEUED"
         \/ lease[r].status = "QUEUED" /\ row.status \in {"CANCELLED", "CLAIMED"}
         \/ lease[r].status \in ACTIVE /\ row.status \in ACTIVE
         \/ /\ lease[r].status \in ACTIVE /\ row.status \in TERMINAL
            /\ row.status \in Verdicts => launched[r] = 1
  PROVE  [Attempt!Next]_(Attempt!vars)
  <1>1. lease'[r] = row /\ \A s \in Runs \ {r} : lease'[s] = lease[s]
    BY DEF Inv, TypeOK
  <1>2. AttemptMove(r) \/ AttemptStays(r)
    BY <1>1 DEF AttemptMove, AttemptStays
  <1>3. \A s \in Runs \ {r} : AttemptStays(s)
    BY <1>1 DEF AttemptStays
  <1>. QED
    BY <1>2, <1>3, MoveRefines

LEMMA ProcessRefines ==
  ASSUME Inv, TypeOK', NEW w \in Workers,
         Once(w) \/ Watch(w) \/ Stop(w) \/ CleanupFails(w) \/ Crash(w)
  PROVE  [Attempt!Next]_(Attempt!vars)
  <1>1. CASE UNCHANGED <<lease, launched>>
    BY <1>1, NobodyMoves
  <1>2. CASE RecordLost(w)
    <2>1. PICK r \in Runs : r = worker[w].run /\ RowInv(r) /\ lease[r] \in LeaseRow
      BY <1>2, AtWork DEF RecordLost
    <2> DEFINE row == EndedLease(lease[r], Recovered(r).status)
    <2>2. row.status = Recovered(r).status
      BY <2>1 DEF EndedLease, LeaseRow
    <2>3. row.status \in TERMINAL
      BY <2>2, RecoveredTyped, Documents DEF Inv
    <2>4. row.status \in Verdicts => launched[r] = 1
      BY <2>1, <2>2 DEF Recovered, Plain, Verdicts, RowInv
    <2>5. UNCHANGED launched
      BY <1>2 DEF RecordLost, docker
    <2>. HIDE DEF row
    <2>6. UNCHANGED lease \/ (lease[r].status \in ACTIVE /\ lease' = [lease EXCEPT ![r] = row])
      BY <1>2, <2>1 DEF RecordLost, Expired, row
    <2>. QED
      BY <1>1, <2>3, <2>4, <2>5, <2>6, RowMove
  <1>3. CASE Claim(w)
    <2>1. ASSUME NEW r \in Runs, Claimable(r), lease' = [lease EXCEPT ![r] = ClaimedLease(@, w)]
          PROVE  [Attempt!Next]_(Attempt!vars)
      <3>1. ClaimedLease(lease[r], w).status = "CLAIMED"
        BY DEF ClaimedLease, LeaseRow, Inv, TypeOK
      <3>. QED
        BY <1>3, <2>1, <3>1, RowMove DEF Claimable, Claim, docker
    <2>. QED
      BY <1>1, <1>3, <2>1 DEF Claim, docker
  <1>4. CASE Prepare(w)
    <2>1. PICK r \in Runs : r = worker[w].run /\ lease[r] \in LeaseRow
      BY <1>4, AtWork DEF Prepare
    <2> DEFINE row == [lease[r] EXCEPT !.status = "RUNNING"]
    <2>2. row.status = "RUNNING" /\ row.status \in ACTIVE
      BY <2>1 DEF LeaseRow, ACTIVE
    <2>. HIDE DEF row
    <2>3. UNCHANGED lease \/ (lease[r].status \in ACTIVE /\ lease' = [lease EXCEPT ![r] = row])
      BY <1>4, <2>1 DEF Prepare, Owned, row
    <2>. QED
      BY <1>1, <1>4, <2>2, <2>3, RowMove DEF Prepare, docker
  <1>5. CASE Launch(w)
    <2>1. PICK r \in Runs : r = worker[w].run /\ ProcessInv(w) /\ worker[w].pc = "prepared"
      BY <1>5, AtWork DEF Launch
    <2>2. launched[r] = 0 /\ lease[r].status \in ACTIVE
      BY <2>1 DEF ProcessInv, ACTIVE
    <2>3. UNCHANGED lease /\ (UNCHANGED launched \/ launched' = [launched EXCEPT ![r] = @ + 1])
      BY <1>5, <2>1 DEF Launch, docker
    <2>4. CASE launched' = [launched EXCEPT ![r] = @ + 1]
      <3>1. launched'[r] = 1 /\ \A s \in Runs \ {r} : launched'[s] = launched[s]
        BY <2>2, <2>4 DEF Inv, TypeOK
      <3>2. AttemptMove(r) /\ \A s \in Runs \ {r} : AttemptStays(s)
        BY <2>2, <2>3, <3>1 DEF AttemptMove, AttemptStays
      <3>. QED
        BY <3>2, MoveRefines
    <2>. QED
      BY <1>1, <2>3, <2>4
  <1>6. CASE Store(w)
    <2>1. PICK r \in Runs :
            /\ r = worker[w].run /\ lease[r] \in LeaseRow /\ ProcessInv(w)
            /\ worker[w].pc = "storing" /\ worker[w].doc \in Document
      BY <1>6, AtWork DEF Store, Inv, TypeOK
    <2> DEFINE row == EndedLease(lease[r], FinalDocument(w).status)
    <2>2. row.status = FinalDocument(w).status
      BY <2>1 DEF EndedLease, LeaseRow
    <2>3. row.status \in TERMINAL
      BY <2>1, <2>2, FinalTyped, Documents DEF Inv
    <2>4. row.status \in Verdicts => launched[r] = 1
      <3>1. FinalDocument(w).status \in Verdicts => worker[w].doc.status \in Verdicts
        BY <2>1 DEF FinalDocument, Document, Verdicts
      <3>. QED
        BY <2>1, <2>2, <3>1 DEF ProcessInv
    <2>5. UNCHANGED launched
      BY <1>6 DEF Store, docker
    <2>. HIDE DEF row
    <2>6. UNCHANGED lease \/ (lease[r].status \in ACTIVE /\ lease' = [lease EXCEPT ![r] = row])
      BY <1>6, <2>1 DEF Store, Owned, row
    <2>. QED
      BY <1>1, <2>3, <2>4, <2>5, <2>6, RowMove
  <1>7. CASE Watch(w)
    <2>1. \A s \in Runs : lease'[s].status = lease[s].status
      BY <1>7 DEF Watch, LeaseRow, Inv, TypeOK
    <2>. QED
      BY <1>7, <2>1, NobodyMoves DEF Watch, docker
  <1>8. CASE \/ Scan(w) \/ LockAbandoned(w) \/ CleanAbandoned(w) \/ LockClaimed(w)
             \/ LaneEnds(w) \/ CleanUp(w) \/ Seal(w)
             \/ Stop(w) \/ CleanupFails(w) \/ Crash(w)
    <2>. UNCHANGED <<lease, launched>>
      BY <1>8 DEF Scan, LockAbandoned, CleanAbandoned, LockClaimed, LaneEnds, CleanUp, Seal,
         Stop, CleanupFails, Crash, docker
    <2>. QED
      BY <1>1
  <1>. QED
    BY <1>2, <1>3, <1>4, <1>5, <1>6, <1>7, <1>8 DEF Once

LEMMA EnvironmentRefines ==
  ASSUME Inv, TypeOK', Tick \/ \E r \in Runs : Authorize(r) \/ Cancel(r) \/ Damage(r)
  PROVE  [Attempt!Next]_(Attempt!vars)
  <1>0. \A s \in Runs : lease[s] \in LeaseRow
    BY DEF Inv, TypeOK
  <1>1. CASE Tick
    <2>1. \A s \in Runs : lease'[s].status = lease[s].status
      BY <1>0, <1>1 DEF Tick, LeaseRow
    <2>. QED
      BY <1>1, <2>1, NobodyMoves DEF Tick, docker
  <1>2. ASSUME NEW r \in Runs, Authorize(r) PROVE [Attempt!Next]_(Attempt!vars)
    <2>1. [lease[r] EXCEPT !.status = "QUEUED"].status = "QUEUED"
      BY <1>0 DEF LeaseRow
    <2>. QED
      BY <1>2, <2>1, RowMove DEF Authorize, docker
  <1>3. ASSUME NEW r \in Runs, Cancel(r) PROVE [Attempt!Next]_(Attempt!vars)
    <2>1. \/ CancelledLease(lease[r]).status = lease[r].status
          \/ lease[r].status = "QUEUED" /\ CancelledLease(lease[r]).status = "CANCELLED"
      BY <1>0 DEF CancelledLease, LeaseRow
    <2>. QED
      BY <1>3, <2>1, RowMove DEF Cancel, docker
  <1>4. ASSUME NEW r \in Runs, Damage(r) PROVE [Attempt!Next]_(Attempt!vars)
    BY <1>4, NobodyMoves DEF Damage, docker
  <1>. QED
    BY <1>1, <1>2, <1>3, <1>4

\* Lease, file lock, sealed file and containers implement the single attempt:
\* whatever happens to the processes, a run is consumed at most once, launched
\* at most once and never after its end, and ends once.
THEOREM WorkersImplementSingleAttempt == Spec => ImplementsSingleAttempt
  <1>1. Init => Attempt!Init
    <2>. SUFFICES ASSUME Init PROVE Attempt!Init
      OBVIOUS
    <2>1. \A r \in Runs : lease[r].status = "NONE"
      BY DEF Init, NewLease
    <2>2. launched = [r \in Runs |-> 0]
      BY DEF Init
    <2>. QED
      BY <2>1, <2>2, Phases, StatusKinds DEF Attempt!Init
  <1>2. Inv /\ Inv' /\ [Next]_vars => [Attempt!Next]_(Attempt!vars)
    <2>. SUFFICES ASSUME Inv, TypeOK', [Next]_vars PROVE [Attempt!Next]_(Attempt!vars)
      BY DEF Inv
    <2>1. CASE UNCHANGED vars
      BY <2>1, NobodyMoves DEF vars, docker
    <2>2. CASE Next
      BY <2>2, ProcessRefines, EnvironmentRefines DEF Next
    <2>. QED
      BY <2>1, <2>2
  <1>. QED
    BY <1>1, <1>2, Invariant, PTL DEF Spec, ImplementsSingleAttempt, Attempt!Spec

=============================================================================
