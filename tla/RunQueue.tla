------------------------------ MODULE RunQueue ------------------------------
(***************************************************************************)
(* The durable queue of one experiment whose runs have no authoritative    *)
(* attempt rows (experiment/queue.py without an AuthoritativeClaimGate),   *)
(* and the coroutines of ExperimentRunExecutor that claim and drive them.  *)
(* Here a lost run is reclaimed under the next attempt number, a claim can *)
(* be given back, and a repaired failure is queued again.  Every database  *)
(* transaction is one action.                                              *)
(***************************************************************************)
EXTENDS Naturals, FiniteSets, Lifecycle

CONSTANTS
  Runs,           \* logical runs (slots) of the experiment
  Workers,        \* executions: coroutines of ExperimentRunExecutor.execute
  Owner,          \* Owner[w]: the lease owner identity of w's executor
  NoOwner,        \* lease_owner IS NULL
  TTL,            \* lease lifetime in clock ticks
  MaxAttempt,     \* bound on the attempts of one run
  SchemaVersion,  \* of the experiment: 1, or 2 for methodology v2
  Unavailable,    \* runs of blocks whose provider is unavailable
  LaneOutcomes    \* what the evidence of a lane may be normalized to

ASSUME QueueAssumption ==
  /\ NoOwner \notin {Owner[w] : w \in Workers}
  /\ TTL \in Nat \ {0} /\ MaxAttempt \in Nat \ {0}
  /\ SchemaVersion \in {1, 2} /\ Unavailable \subseteq Runs
  /\ SchemaVersion = 1 => Unavailable = {}
  /\ LaneOutcomes \subseteq StatisticalOutcome

VARIABLES
  run,      \* experiment_run rows
  worker    \* worker[w]: where execution w stands and what it claimed

queueVars == <<run, worker>>

-----------------------------------------------------------------------------
AttemptNumber == 1 .. MaxAttempt
LeaseOwner == {Owner[w] : w \in Workers} \cup {NoOwner}

\* evidence: the attempt whose manifest and digest the row refers to, or 0.
RunRow ==
  [status : RunStatus, attempt : 0 .. MaxAttempt,
   lease_owner : LeaseOwner, lease : 0 .. TTL,
   cancellation_requested : BOOLEAN,
   normalized_outcome : StatisticalOutcome \cup {"none"},
   evidence : 0 .. MaxAttempt]

Step == {"claimed", "prepared", "running", "dispatched", "verified", "scored"}

\* An execution that is not under way: none yet, one that returned a snapshot,
\* one that raised.
AtRest == {[pc |-> end] : end \in {"idle", "returned", "raised"}}
Busy ==
  [pc : Step, run : Runs, attempt : AttemptNumber,
   beat : {"ok", "stopped"}, result : {"none", "lane", "error"}]

\* enqueue_plan: one queued row per slot of the plan.
Init ==
  /\ run = [r \in Runs |->
        [status |-> "QUEUED", attempt |-> 0, lease_owner |-> NoOwner, lease |-> 0,
         cancellation_requested |-> FALSE, normalized_outcome |-> "none",
         evidence |-> 0]]
  /\ worker = [w \in Workers |-> [pc |-> "idle"]]

-----------------------------------------------------------------------------
(* Row updates. *)

LeaseCleared(row) == [row EXCEPT !.lease_owner = NoOwner, !.lease = 0]

\* Mutant: the source outcome is stored as the normalized one.
CancelledRun_SwapsOutcomes(row) ==
  [LeaseCleared(row) EXCEPT !.status = "CANCELLED",
                            !.normalized_outcome = "cancellation_requested"]

\* _cancel_run
CancelledRun(row) ==
  [LeaseCleared(row) EXCEPT !.status = "CANCELLED", !.normalized_outcome = "cancelled"]

\* Mutant: a reclaim keeps the attempt number.
ClaimedRun_SameAttempt(row, owner) ==
  [row EXCEPT !.status = "CLAIMED", !.lease_owner = owner, !.lease = TTL,
              !.attempt = IF row.attempt = 0 THEN 1 ELSE row.attempt]
ClaimedRun(row, owner) ==
  [row EXCEPT !.status = "CLAIMED", !.lease_owner = owner, !.lease = TTL,
              !.attempt = row.attempt + 1]

ReleasedRun(row) ==
  IF row.cancellation_requested
  THEN CancelledRun(row)
  ELSE [LeaseCleared(row) EXCEPT !.status = "QUEUED"]

\* requeue_failed_infra_after_repair leaves cancellation_requested as it is.
RequeuedRun(row) ==
  [LeaseCleared(row) EXCEPT !.status = "QUEUED", !.normalized_outcome = "none"]

FinishedRun(row, outcome, evidence) ==
  [LeaseCleared(row) EXCEPT !.status = TERMINAL_STATUS_BY_OUTCOME[outcome],
                            !.normalized_outcome = outcome,
                            !.evidence = evidence]

-----------------------------------------------------------------------------
(* claim_next_run and reconcile_expired_cancellations.  SKIP LOCKED passes *)
(* over the rows in locked, which other transactions hold at that moment;  *)
(* the first claimable row in slot order that is not locked may therefore  *)
(* be any claimable row.                                                   *)

Expired(r) == run[r].status \in ACTIVE_STATUSES /\ run[r].lease = 0

\* Mutant: queue maintenance looks at queued runs only.
Abandoned_QueuedOnly ==
  {r \in Runs : run[r].cancellation_requested /\ run[r].status = "QUEUED"}

\* Cancelled runs whose worker is gone.
Abandoned == {r \in Runs : run[r].cancellation_requested /\ Expired(r)}

Reconciled(locked) ==
  [r \in Runs |-> IF r \in Abandoned \ locked THEN CancelledRun(run[r]) ELSE run[r]]

\* MaxAttempt bounds the model; the code counts attempts without limit.
Claimable(slots) ==
  {r \in slots \ Unavailable :
     /\ ~run[r].cancellation_requested
     /\ run[r].status = "QUEUED" \/ Expired(r)
     /\ run[r].attempt < MaxAttempt}

ClaimNextRun(w, slots, locked) ==
  /\ worker[w] \in AtRest
  /\ \/ \E r \in Claimable(slots) \ locked :
        /\ run' = [Reconciled(locked) EXCEPT ![r] = ClaimedRun(run[r], Owner[w])]
        /\ worker' = [worker EXCEPT ![w] =
                        [pc |-> "claimed", run |-> r, attempt |-> ClaimedRun(run[r], Owner[w]).attempt,
                         beat |-> "ok", result |-> "none"]]
     \/ /\ Claimable(slots) \ locked = {}
        /\ run' = Reconciled(locked)
        /\ worker' = [worker EXCEPT ![w] = [pc |-> "idle"]]

-----------------------------------------------------------------------------
(* The execution of a claim.  A handler that raises ends it. *)

Return(w) == worker' = [worker EXCEPT ![w] = [pc |-> "returned"]]
Raise(w) == worker' = [worker EXCEPT ![w] = [pc |-> "raised"]] /\ UNCHANGED run

\* Mutant: the attempt of the claim is not checked.
ActiveOwner_AnyAttempt(w) ==
  LET row == run[worker[w].run] IN row.lease_owner = Owner[w] /\ row.lease > 0

\* _require_active_owner
ActiveOwner(w) ==
  LET row == run[worker[w].run] IN
  /\ row.lease_owner = Owner[w]
  /\ row.attempt = worker[w].attempt
  /\ row.lease > 0

\* transition_run, called by execute at step pc, which goes on at step next.
TransitionRun(w, pc, target, next) ==
  /\ worker[w].pc = pc
  /\ LET r == worker[w].run IN
     \/ /\ ActiveOwner(w) /\ run[r].cancellation_requested
        /\ run' = [run EXCEPT ![r] = CancelledRun(@)]
        /\ Return(w)
     \/ /\ ActiveOwner(w) /\ ~run[r].cancellation_requested
        /\ target \in TRANSITIONS[run[r].status]
        /\ run' = [run EXCEPT ![r].status = target]
        /\ worker' = [worker EXCEPT ![w].pc = next]
     \/ /\ ~(ActiveOwner(w) /\ (\/ run[r].cancellation_requested
                                \/ target \in TRANSITIONS[run[r].status]))
        /\ Raise(w)

Prepare(w) == TransitionRun(w, "claimed", "PREPARING", "prepared")
Start(w)   == TransitionRun(w, "prepared", "RUNNING", "running")
Verify(w)  == TransitionRun(w, "dispatched", "VERIFYING", "verified")
Score(w)   == TransitionRun(w, "verified", "SCORING", "scored")

\* heartbeat_run, called by _maintain_heartbeat while the lane executes; a
\* cancellation stops the task, and so does whatever the transaction raises, be
\* it a refusal or a lost connection; execute will notice.
Heartbeat(w) ==
  /\ worker[w].pc = "running" /\ worker[w].beat = "ok"
  /\ LET r == worker[w].run
         owned == ActiveOwner(w) /\ run[r].status \in ACTIVE_STATUSES
     IN
     \/ /\ owned /\ ~run[r].cancellation_requested
        /\ run' = [run EXCEPT ![r].lease = TTL]
        /\ UNCHANGED worker
     \/ /\ owned /\ run[r].cancellation_requested
        /\ run' = [run EXCEPT ![r] = CancelledRun(@)]
        /\ worker' = [worker EXCEPT ![w].beat = "stopped"]
     \/ /\ worker' = [worker EXCEPT ![w].beat = "stopped"]
        /\ UNCHANGED run

\* The lane runner returns a result or raises.  If the heartbeat had stopped,
\* execute returns the row as it is and writes nothing more, even when the row
\* is still active and its lease alive.
Dispatched(w) ==
  /\ worker[w].pc = "running"
  /\ \/ /\ worker[w].beat = "ok"
        /\ \E result \in {"lane", "error"} :
              worker' = [worker EXCEPT ![w].pc = "dispatched", ![w].result = result]
     \/ /\ worker[w].beat = "stopped"
        /\ Return(w)
  /\ UNCHANGED run

\* Mutant: the late cancellation is ignored.
Endings_IgnoresCancellation(w) ==
  IF worker[w].result = "error" THEN {<<"infra_failure", 0>>}
  ELSE {<<"infra_failure", 0>>} \cup (LaneOutcomes \X {worker[w].attempt})

\* The outcomes finish_run can be left with, and the attempt whose evidence it
\* stores: a manifest that does not validate is an infrastructure failure
\* without evidence.
Endings(w) ==
  IF run[worker[w].run].cancellation_requested THEN {<<"cancelled", 0>>}
  ELSE IF worker[w].result = "error" THEN {<<"infra_failure", 0>>}
  ELSE {<<"infra_failure", 0>>} \cup (LaneOutcomes \X {worker[w].attempt})

FinishRun(w) ==
  /\ worker[w].pc = "scored"
  /\ LET r == worker[w].run
         allowed == ActiveOwner(w) /\ run[r].status = "SCORING"
     IN
     \/ /\ allowed
        /\ \E ending \in Endings(w) :
              run' = [run EXCEPT ![r] = FinishedRun(@, ending[1], ending[2])]
        /\ Return(w)
     \/ ~allowed /\ Raise(w)

\* release_run: the holder of the claim gives it back, whether or not its
\* execution goes on (it will then find that it owns nothing).
ReleaseRun(w) ==
  /\ worker[w] \notin AtRest
  /\ ActiveOwner(w) /\ run[worker[w].run].status \in ACTIVE_STATUSES
  /\ run' = [run EXCEPT ![worker[w].run] = ReleasedRun(@)]
  /\ UNCHANGED worker

\* The process of an execution dies, or its task is cancelled.
Crash(w) ==
  /\ worker[w] \notin AtRest
  /\ worker' = [worker EXCEPT ![w] = [pc |-> "idle"]]
  /\ UNCHANGED run

\* The clock: every held lease comes one tick closer to its expiry.
Tick ==
  /\ \E r \in Runs : run[r].lease > 0
  /\ run' = [r \in Runs |->
               IF run[r].lease > 0 THEN [run[r] EXCEPT !.lease = @ - 1] ELSE run[r]]
  /\ UNCHANGED worker

-----------------------------------------------------------------------------
(* The operator. *)

\* request_run_cancellation raises the flag of terminal runs as well.
RequestRunCancellation(r) ==
  /\ run' = [run EXCEPT ![r] =
       LET asked == [@ EXCEPT !.cancellation_requested = TRUE] IN
       IF @.status = "QUEUED" \/ Expired(r) THEN CancelledRun(asked) ELSE asked]
  /\ UNCHANGED worker

\* requeue_failed_infra_after_repair: the operator names the exact failure.
Requeueable(r) ==
  /\ SchemaVersion = 1
  /\ run[r].status = "FAILED_INFRA" /\ run[r].normalized_outcome = "infra_failure"
  /\ run[r].attempt >= 1 /\ run[r].evidence = 0

RequeueFailedInfra(r) ==
  /\ Requeueable(r)
  /\ run' = [run EXCEPT ![r] = RequeuedRun(@)]
  /\ UNCHANGED worker

-----------------------------------------------------------------------------
Execute(w) ==
  \/ Prepare(w) \/ Start(w) \/ Dispatched(w) \/ Verify(w) \/ Score(w) \/ FinishRun(w)

Next ==
  \/ \E w \in Workers :
        \/ \E locked \in SUBSET Runs : ClaimNextRun(w, Runs, locked)
        \/ Execute(w) \/ Heartbeat(w) \/ ReleaseRun(w) \/ Crash(w)
  \/ Tick
  \/ \E r \in Runs : RequestRunCancellation(r) \/ RequeueFailedInfra(r)

Spec == Init /\ [][Next]_queueVars

\* The operator keeps running workers whose claims find no row locked by
\* somebody else, an execution goes on, the clock runs.  Nobody promises
\* heartbeats, that a process survives, or that the operator acts.
Fairness ==
  /\ \A w \in Workers : WF_queueVars(ClaimNextRun(w, Runs, {})) /\ WF_queueVars(Execute(w))
  /\ WF_queueVars(Tick)

FairSpec == Spec /\ Fairness

-----------------------------------------------------------------------------
(* Properties. *)

TypeOK ==
  /\ run \in [Runs -> RunRow]
  /\ worker \in [Workers -> Busy \cup AtRest]

\* "Each physical attempt receives a distinct attempt-scoped artifact run id":
\* no two executions that may still write artifacts carry the same run and
\* attempt, through reclaims, releases and requeues of one owner identity.
AttemptsDistinct ==
  \A w, v \in Workers :
     /\ w # v /\ worker[w] \notin AtRest /\ worker[v] \notin AtRest
     /\ worker[w].run = worker[v].run
     => worker[w].attempt # worker[v].attempt

\* "A worker that loses ownership cannot transition or terminalize the durable
\* row": an active run stands where the execution of its current attempt left
\* it, whatever stale executions of the same owner do.
StatusOfStep ==
  [pc \in Step |->
     CASE pc = "claimed" -> "CLAIMED"
       [] pc = "prepared" -> "PREPARING"
       [] pc \in {"running", "dispatched"} -> "RUNNING"
       [] pc = "verified" -> "VERIFYING"
       [] OTHER -> "SCORING"]
OneDriver ==
  \A w \in Workers :
     /\ worker[w] \notin AtRest
     /\ run[worker[w].run].status \in ACTIVE_STATUSES
     /\ run[worker[w].run].attempt = worker[w].attempt
     => run[worker[w].run].status = StatusOfStep[worker[w].pc]

\* What the AttemptLog sees of a row.
SlotOf(row) ==
  [phase |-> CASE row.status = "QUEUED" -> "waiting"
               [] row.status \in ACTIVE_STATUSES -> "held"
               [] OTHER -> "done",
   attempt |-> row.attempt, stop |-> row.cancellation_requested,
   evidence |-> row.evidence]

\* The rows implement the AttemptLog: every handler moves a run along it.
Log == INSTANCE AttemptLog WITH slot <- [r \in Runs |-> SlotOf(run[r])]
ImplementsAttemptLog == Log!Spec

\* A queued run can be claimed: none waits with a pending cancellation, which
\* no claim selects and no queue maintenance ends.
NoStrandedRun == \A r \in Runs : run[r].status = "QUEUED" => ~run[r].cancellation_requested

\* No attempt holds its run for ever: it ends, is given back, is reclaimed, or,
\* cancelled and abandoned, is ended by queue maintenance.
\* (At the bound MaxAttempt nobody can reclaim, so that one is left out.)
AttemptEnds ==
  \A r \in Runs : \A n \in 1 .. (MaxAttempt - 1) :
     run[r].status \in ACTIVE_STATUSES /\ run[r].attempt = n
       ~> ~(run[r].status \in ACTIVE_STATUSES /\ run[r].attempt = n)
=============================================================================
