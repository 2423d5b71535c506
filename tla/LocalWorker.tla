---------------------------- MODULE LocalWorker ----------------------------
(***************************************************************************)
(* Local execution: worker processes take authorized runs from a durable   *)
(* queue.  A run is protected twice, by a lease row that expires and by a  *)
(* file lock (flock) that lasts exactly as long as its process.  The       *)
(* outcome is sealed in a file before it is stored in the database, and a  *)
(* process that finds an expired lease recovers the run: it removes the    *)
(* containers and stores the sealed outcome, or INTERRUPTED.               *)
(*                                                                         *)
(* A step of a worker is what lies between two points where its process    *)
(* may die: a database transaction, a file operation or a wait.            *)
(***************************************************************************)
EXTENDS Naturals

CONSTANTS
  Runs,        \* saved plans, each with its one run
  Workers,     \* worker processes
  NoWorker,    \* no lease owner, no holder of a lock
  NoRun,       \* no run in hand
  LeaseTicks   \* lease_seconds, in clock ticks

ASSUME WorkerAssumption ==
  /\ NoWorker \notin Workers /\ NoRun \notin Runs
  /\ LeaseTicks \in Nat \ {0}

VARIABLES
  lease,      \* execution_lease rows
  stored,     \* local_execution_result rows (the status of the document)
  lock,       \* lock[r]: the process that holds the flock of r
  sealed,     \* <run>.result.json
  container,  \* is a subject or verifier container of r alive
  launched,   \* how often runner.run was entered for r
  damaged,    \* the episode files of r are altered or missing
  worker      \* worker[w]: where process w stands

vars == <<lease, stored, lock, sealed, container, launched, damaged, worker>>
files == <<sealed, damaged>>
docker == <<container, launched>>

-----------------------------------------------------------------------------
ACTIVE == {"CLAIMED", "RUNNING"}
Verdicts == {"VERIFIED_PASS", "VERIFIED_FAIL"}
TERMINAL ==
  Verdicts \cup {"TIMEOUT", "CANCELLED", "FAILED_INFRA", "INTERRUPTED", "BLOCKED"}

\* "NONE" before the plan is authorized; ticks: the life left of the lease.
LeaseRow ==
  [status : {"NONE", "QUEUED"} \cup ACTIVE \cup TERMINAL, attempt : 0 .. 1,
   owner : Workers \cup {NoWorker}, ticks : 0 .. LeaseTicks,
   cancellation_requested : BOOLEAN]

\* result_document: does it embed the episode that the lane recorded?
Document == [status : TERMINAL, episode : BOOLEAN]
NoDocument == [status |-> "none", episode |-> FALSE]
Plain(status) == [status |-> status, episode |-> FALSE]

\* Where a process stands: in recover (scanning, cleaning, recording), in
\* execute (claimed ... storing), or not running at all (idle).
Executing ==
  {"claimed", "locked", "prepared", "running", "ended", "sealing", "storing"}
Holding == (Executing \ {"claimed"}) \cup {"cleaning", "recording"}

Process ==
  [pc : {"idle", "scanning", "cleaning", "recording"} \cup Executing,
   run : Runs \cup {NoRun}, todo : SUBSET Runs,
   doc : Document \cup {NoDocument}, stopping : BOOLEAN]

Idle ==
  [pc |-> "idle", run |-> NoRun, todo |-> {}, doc |-> NoDocument, stopping |-> FALSE]

NewLease ==
  [status |-> "NONE", attempt |-> 0, owner |-> NoWorker, ticks |-> 0,
   cancellation_requested |-> FALSE]

Init ==
  /\ lease = [r \in Runs |-> NewLease]
  /\ stored = [r \in Runs |-> "none"]
  /\ lock = [r \in Runs |-> NoWorker]
  /\ sealed = [r \in Runs |-> NoDocument]
  /\ container = [r \in Runs |-> FALSE]
  /\ launched = [r \in Runs |-> 0]
  /\ damaged = [r \in Runs |-> FALSE]
  /\ worker = [w \in Workers |-> Idle]

-----------------------------------------------------------------------------
(* The operator: service.authorize and service.cancel. *)

\* The plan row is locked and one authorization is bound to it for ever.
Authorize(r) ==
  /\ lease[r].status = "NONE"
  /\ lease' = [lease EXCEPT ![r] = [@ EXCEPT !.status = "QUEUED"]]
  /\ UNCHANGED <<stored, lock, files, docker, worker>>

\* Mutant: a claimed run is taken to be still in the queue.
CancelledLease_Claimed(row) ==
  [row EXCEPT !.cancellation_requested = TRUE,
              !.status = IF row.status \in {"QUEUED", "CLAIMED"} THEN "CANCELLED" ELSE @]

CancelledLease(row) ==
  [row EXCEPT !.cancellation_requested = TRUE,
              !.status = IF row.status = "QUEUED" THEN "CANCELLED" ELSE @]

Cancel(r) ==
  /\ lease[r].status \notin TERMINAL \cup {"NONE"}
  /\ lease' = [lease EXCEPT ![r] = CancelledLease(@)]
  /\ UNCHANGED <<stored, lock, files, docker, worker>>

-----------------------------------------------------------------------------
(* LocalWorker.recover, at the start of every once(). *)

Unlocked(w) == [r \in Runs |-> IF lock[r] = w THEN NoWorker ELSE lock[r]]

\* The process dies or an exception ends it: its files are closed.
Exit(w) ==
  /\ worker' = [worker EXCEPT ![w] = Idle]
  /\ lock' = Unlocked(w)

\* Mutant: only a RUNNING attempt is looked for.
Expired_RunningOnly(r) == lease[r].status = "RUNNING" /\ lease[r].ticks = 0

Expired(r) == lease[r].status \in ACTIVE /\ lease[r].ticks = 0

\* The ids are read without a lock.
Scan(w) ==
  /\ worker[w].pc = "idle"
  /\ worker' = [worker EXCEPT ![w] =
                  [@ EXCEPT !.pc = "scanning", !.todo = {r \in Runs : Expired(r)}]]
  /\ UNCHANGED <<lease, stored, lock, files, docker>>

\* Mutant: the expired lease is trusted to keep the two processes apart.
LockFree_IfExpired(r) == lock[r] = NoWorker \/ Expired(r)

\* flock(LOCK_EX | LOCK_NB)
LockFree(r) == lock[r] = NoWorker

LockAbandoned(w) ==
  /\ worker[w].pc = "scanning"
  /\ \E r \in worker[w].todo :
     \/ /\ LockFree(r)
        /\ lock' = [lock EXCEPT ![r] = w]
        /\ worker' = [worker EXCEPT ![w] =
                        [@ EXCEPT !.pc = "cleaning", !.run = r, !.todo = worker[w].todo \ {r}]]
     \/ /\ ~LockFree(r)
        /\ worker' = [worker EXCEPT ![w] = [@ EXCEPT !.todo = worker[w].todo \ {r}]]
        /\ UNCHANGED lock
  /\ UNCHANGED <<lease, stored, files, docker>>

\* _cleanup_abandoned has verified that the containers are absent.
CleanAbandoned(w) ==
  /\ worker[w].pc = "cleaning"
  /\ container' = [container EXCEPT ![worker[w].run] = FALSE]
  /\ worker' = [worker EXCEPT ![w] = [@ EXCEPT !.pc = "recording"]]
  /\ UNCHANGED <<lease, stored, lock, files, launched>>

\* It raises: the process ends, whatever else it had still to recover.
CleanupFails(w) ==
  /\ worker[w].pc \in {"cleaning", "ended"}
  /\ Exit(w)
  /\ UNCHANGED <<lease, stored, files, docker>>

\* validate_result reads the episode again and compares it.
Valid(r, doc) == ~(doc.episode /\ damaged[r])

\* Mutant: no sealed result is looked for.
Recovered_AlwaysInterrupted(r) == Plain("INTERRUPTED")

\* Only a sealed, valid result is imported, and only if nobody cancelled.
Recovered(r) ==
  IF sealed[r] # NoDocument /\ ~lease[r].cancellation_requested
  THEN IF Valid(r, sealed[r]) THEN sealed[r] ELSE Plain("FAILED_INFRA")
  ELSE Plain("INTERRUPTED")

EndedLease(row, status) ==
  [row EXCEPT !.status = status, !.owner = NoWorker, !.ticks = 0]

RecordLost(w) ==
  /\ worker[w].pc = "recording"
  /\ LET r == worker[w].run IN
     \/ /\ Expired(r)
        /\ stored' = [stored EXCEPT ![r] = Recovered(r).status]
        /\ lease' = [lease EXCEPT ![r] = EndedLease(@, Recovered(r).status)]
     \/ ~Expired(r) /\ UNCHANGED <<stored, lease>>
  /\ lock' = Unlocked(w)
  /\ worker' = [worker EXCEPT ![w] = [@ EXCEPT !.pc = "scanning", !.run = NoRun]]
  /\ UNCHANGED <<files, docker>>

-----------------------------------------------------------------------------
(* LocalWorker.claim and LocalWorker.execute. *)

\* Mutant: an expired attempt goes back to the queue.
Claimable_AgainAfterExpiry(r) ==
  \/ lease[r].status = "QUEUED" /\ ~lease[r].cancellation_requested
  \/ Expired(r) /\ lock[r] = NoWorker

Claimable(r) ==
  /\ lease[r].status = "QUEUED" /\ lease[r].attempt = 0
  /\ ~lease[r].cancellation_requested

\* Mutant: the lease is one tick too long.
ClaimedLease_TooLong(row, w) ==
  [row EXCEPT !.attempt = 1, !.status = "CLAIMED", !.owner = w, !.ticks = LeaseTicks + 1]

ClaimedLease(row, w) ==
  [row EXCEPT !.attempt = 1, !.status = "CLAIMED", !.owner = w, !.ticks = LeaseTicks]

Claim(w) ==
  /\ worker[w].pc = "scanning" /\ worker[w].todo = {}
  /\ \/ \E r \in Runs :
        /\ Claimable(r)
        /\ lease' = [lease EXCEPT ![r] = ClaimedLease(@, w)]
        /\ worker' = [worker EXCEPT ![w] = [@ EXCEPT !.pc = "claimed", !.run = r]]
     \/ /\ \A r \in Runs : ~Claimable(r)
        /\ worker' = [worker EXCEPT ![w] = Idle]
        /\ UNCHANGED lease
  /\ UNCHANGED <<stored, lock, files, docker>>

\* execute raises if somebody is recovering the run already.
LockClaimed(w) ==
  /\ worker[w].pc = "claimed"
  /\ \/ /\ LockFree(worker[w].run)
        /\ lock' = [lock EXCEPT ![worker[w].run] = w]
        /\ worker' = [worker EXCEPT ![w] = [@ EXCEPT !.pc = "locked"]]
     \/ ~LockFree(worker[w].run) /\ Exit(w)
  /\ UNCHANGED <<lease, stored, files, docker>>

\* _owned
Owned(w) ==
  LET row == lease[worker[w].run] IN
  /\ row.owner = w /\ row.attempt = 1 /\ row.status \in ACTIVE /\ row.ticks > 0

Sealing(w, doc) ==
  worker' = [worker EXCEPT ![w] = [@ EXCEPT !.pc = "sealing", !.doc = doc]]

\* _prepare.  Lost, cancelled, stale or drifted is BLOCKED, an unexpected
\* error FAILED_INFRA, a SIGTERM CANCELLED; each rolls the transaction back.
Prepare(w) ==
  /\ worker[w].pc = "locked"
  /\ \/ /\ Owned(w) /\ ~lease[worker[w].run].cancellation_requested
        /\ lease' = [lease EXCEPT ![worker[w].run] = [@ EXCEPT !.status = "RUNNING"]]
        /\ worker' = [worker EXCEPT ![w] = [@ EXCEPT !.pc = "prepared"]]
     \/ \E status \in {"BLOCKED", "FAILED_INFRA", "CANCELLED"} :
        Sealing(w, Plain(status)) /\ UNCHANGED lease
  /\ UNCHANGED <<stored, lock, files, docker>>

\* Backend and sandbox are built, then the runner is entered.
Launch(w) ==
  /\ worker[w].pc = "prepared"
  /\ \/ /\ container' = [container EXCEPT ![worker[w].run] = TRUE]
        /\ launched' = [launched EXCEPT ![worker[w].run] = @ + 1]
        /\ worker' = [worker EXCEPT ![w] = [@ EXCEPT !.pc = "running"]]
     \/ Sealing(w, Plain("FAILED_INFRA")) /\ UNCHANGED docker
  /\ UNCHANGED <<lease, stored, lock, files>>

\* _watch renews the lease ...
Watch(w) ==
  /\ worker[w].pc = "running" /\ ~worker[w].stopping
  /\ Owned(w) /\ ~lease[worker[w].run].cancellation_requested
  /\ lease' = [lease EXCEPT ![worker[w].run] = [@ EXCEPT !.ticks = LeaseTicks]]
  /\ UNCHANGED <<stored, lock, files, docker, worker>>

\* ... or cancels the lane: a cancellation, a lost lease, any exception.  A
\* SIGTERM has the same effect.
Stop(w) ==
  /\ worker[w].pc = "running" /\ ~worker[w].stopping
  /\ worker' = [worker EXCEPT ![w] = [@ EXCEPT !.stopping = TRUE]]
  /\ UNCHANGED <<lease, stored, lock, files, docker>>

LaneOutcomes(stopping) ==
  TERMINAL \ ({"INTERRUPTED"} \cup IF stopping THEN Verdicts ELSE {})

\* The lane records an episode, or raises and leaves none; it removes its
\* containers unless Docker fails.
LaneEnds(w) ==
  /\ worker[w].pc = "running"
  /\ \E outcome \in LaneOutcomes(worker[w].stopping), episode \in BOOLEAN, left \in BOOLEAN :
     /\ ~episode => outcome \in {"CANCELLED", "FAILED_INFRA", "BLOCKED"}
     /\ episode => outcome # "BLOCKED"
     /\ worker' = [worker EXCEPT ![w] =
                     [@ EXCEPT !.pc = "ended", !.stopping = FALSE,
                               !.doc = [status |-> outcome, episode |-> episode]]]
     /\ container' = [container EXCEPT ![worker[w].run] = left]
  /\ UNCHANGED <<lease, stored, lock, files, launched>>

\* Mutant: the containers are left to the lane.
CleanUp_Skipped(w) ==
  /\ worker[w].pc = "ended"
  /\ worker' = [worker EXCEPT ![w] = [@ EXCEPT !.pc = "sealing"]]
  /\ UNCHANGED <<lease, stored, lock, files, docker>>

CleanUp(w) ==
  /\ worker[w].pc = "ended"
  /\ container' = [container EXCEPT ![worker[w].run] = FALSE]
  /\ worker' = [worker EXCEPT ![w] = [@ EXCEPT !.pc = "sealing"]]
  /\ UNCHANGED <<lease, stored, lock, files, launched>>

\* persist_completion: write, fsync, rename; never over a sealed result.
Seal(w) ==
  /\ worker[w].pc = "sealing"
  /\ LET r == worker[w].run IN
     \/ /\ sealed[r] = NoDocument
        /\ sealed' = [sealed EXCEPT ![r] = worker[w].doc]
        /\ worker' = [worker EXCEPT ![w] = [@ EXCEPT !.pc = "storing"]]
        /\ UNCHANGED lock
     \/ sealed[r] # NoDocument /\ Exit(w) /\ UNCHANGED sealed
  /\ UNCHANGED <<lease, stored, docker, damaged>>

\* A cancellation wins over every outcome but these two.
FinalDocument(w) ==
  LET doc == worker[w].doc IN
  IF /\ lease[worker[w].run].cancellation_requested
     /\ doc.status \notin {"FAILED_INFRA", "CANCELLED"}
  THEN [doc EXCEPT !.status = "CANCELLED"] ELSE doc

Store(w) ==
  /\ worker[w].pc = "storing"
  /\ LET r == worker[w].run IN
     \/ /\ Owned(w) /\ Valid(r, FinalDocument(w))
        /\ stored' = [stored EXCEPT ![r] = FinalDocument(w).status]
        /\ lease' = [lease EXCEPT ![r] = EndedLease(@, FinalDocument(w).status)]
     \/ /\ ~(Owned(w) /\ Valid(r, FinalDocument(w)))
        /\ UNCHANGED <<stored, lease>>
  /\ Exit(w)
  /\ UNCHANGED <<files, docker>>

\* SIGKILL, a power failure, or a SIGTERM outside the lane.
Crash(w) ==
  /\ worker[w].pc # "idle"
  /\ Exit(w)
  /\ UNCHANGED <<lease, stored, files, docker>>

\* Artifacts are lost or altered on disk.
Damage(r) ==
  /\ launched[r] > 0 /\ ~damaged[r]
  /\ damaged' = [damaged EXCEPT ![r] = TRUE]
  /\ UNCHANGED <<lease, stored, lock, sealed, docker, worker>>

Tick ==
  /\ \E r \in Runs : lease[r].ticks > 0
  /\ lease' = [r \in Runs |->
       IF lease[r].ticks > 0 THEN [lease[r] EXCEPT !.ticks = @ - 1] ELSE lease[r]]
  /\ UNCHANGED <<stored, lock, files, docker, worker>>

-----------------------------------------------------------------------------
\* once(): recover, claim, execute.
Once(w) ==
  \/ Scan(w) \/ LockAbandoned(w) \/ CleanAbandoned(w) \/ RecordLost(w)
  \/ Claim(w) \/ LockClaimed(w) \/ Prepare(w) \/ Launch(w)
  \/ LaneEnds(w) \/ CleanUp(w) \/ Seal(w) \/ Store(w)

Next ==
  \/ \E w \in Workers : Once(w) \/ Watch(w) \/ Stop(w) \/ CleanupFails(w) \/ Crash(w)
  \/ \E r \in Runs : Authorize(r) \/ Cancel(r) \/ Damage(r)
  \/ Tick

Spec == Init /\ [][Next]_vars

\* A process that was ended is started again and goes on, the lane ends (the
\* subject and the verifier have timeouts) and the clock runs.  Processes die,
\* and Docker fails to remove a container, only finitely often.  (A process
\* that dies and one that finds nothing to claim may take the same step.)
Fairness ==
  /\ \A w \in Workers : WF_vars(Once(w))
  /\ WF_vars(Tick)
  /\ <>[][\A w \in Workers : ~(CleanupFails(w) \/ (Crash(w) /\ ~Claim(w)))]_vars

FairSpec == Spec /\ Fairness

-----------------------------------------------------------------------------
(* Properties. *)

\* A busy process has a run in hand, and a document once its lane has ended.
TypeOK ==
  /\ lease \in [Runs -> LeaseRow]
  /\ stored \in [Runs -> TERMINAL \cup {"none"}]
  /\ lock \in [Runs -> Workers \cup {NoWorker}]
  /\ sealed \in [Runs -> Document \cup {NoDocument}]
  /\ container \in [Runs -> BOOLEAN]
  /\ launched \in [Runs -> Nat]
  /\ damaged \in [Runs -> BOOLEAN]
  /\ worker \in [Workers -> Process]
  /\ \A w \in Workers :
       /\ worker[w].pc \notin {"idle", "scanning"} => worker[w].run \in Runs
       /\ worker[w].pc \in {"ended", "sealing", "storing"} => worker[w].doc \in Document

\* "A terminal receipt requires subject/verifier container absence": whoever
\* ends a run, its executor or a recovery, leaves no container behind and
\* nobody starts one later.
TerminalIsClean ==
  \A r \in Runs : lease[r].status \in TERMINAL => ~container[r]

\* Nobody tears down what a living process runs: while a process executes a
\* run under its lock, no other process cleans or records that run.
LockExcludes ==
  \A v, w \in Workers :
     /\ v # w /\ worker[v].run = worker[w].run
     /\ worker[v].pc \in Holding
     => worker[w].pc \notin Holding

\* The result row and the lease row agree (view answers 409 if they do not):
\* a consumed run is terminal exactly when its result is stored.
ResultMatchesLease ==
  \A r \in Runs :
     IF lease[r].attempt = 1 /\ lease[r].status \in TERMINAL
     THEN stored[r] = lease[r].status
     ELSE stored[r] = "none"

\* A stored verdict is the one the executor sealed, and nobody had cancelled.
VerdictIsSealed ==
  \A r \in Runs :
     lease[r].status \in Verdicts
        => sealed[r].status = lease[r].status /\ ~lease[r].cancellation_requested

\* A sealed verdict is never lost: whatever dies, the run ends with it, unless
\* it was cancelled or its evidence is damaged.
VerdictIsKept ==
  \A r \in Runs :
     /\ sealed[r].status \in Verdicts /\ lease[r].status \in TERMINAL
     /\ ~lease[r].cancellation_requested /\ ~damaged[r]
     => lease[r].status = sealed[r].status

\* A verdict reaches the result exactly as the executor sealed it: none without
\* a seal, none against a cancellation, none lost.
VerdictsSurvive == VerdictIsSealed /\ VerdictIsKept

\* Lease, lock, files and containers implement the single attempt.
PhaseOf ==
  [status \in {"NONE", "QUEUED"} \cup ACTIVE \cup TERMINAL |->
     CASE status = "NONE" -> "none" [] status = "QUEUED" -> "waiting"
       [] status \in ACTIVE -> "consumed" [] OTHER -> "ended"]
Attempt ==
  INSTANCE SingleAttempt WITH
    phase <- [r \in Runs |-> PhaseOf[lease[r].status]],
    launches <- launched,
    verdict <- [r \in Runs |->
      IF lease[r].status \in TERMINAL THEN lease[r].status ELSE "none"]
ImplementsSingleAttempt == Attempt!Spec

\* Every authorized run ends, also when the process that had it is lost.
AuthorizedRunEnds ==
  \A r \in Runs : lease[r].status # "NONE" ~> lease[r].status \in TERMINAL
=============================================================================
