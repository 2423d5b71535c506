------------------------- MODULE AuthoritativeRuns -------------------------
(***************************************************************************)
(* One experiment under the authoritative lifecycle: its run rows, their   *)
(* physical attempts, the durable budget ledger, the operator's controls,  *)
(* and the worker coroutines of ExperimentRunExecutor that claim and drive *)
(* the runs.  Every database transaction is one action, except CANCEL,     *)
(* which reads the attempts without locking them (see IssueCancel).        *)
(*                                                                         *)
(* Time is the remaining life of each lease; the ledger has one ENFORCED   *)
(* dimension and every slot reserves the same Maximum of it.               *)
(***************************************************************************)
EXTENDS Naturals, FiniteSets, FiniteSetsExt, Lifecycle

CONSTANTS
  Runs,              \* logical runs (slots) of the experiment
  Workers,           \* worker coroutines
  Owner,             \* Owner[w]: the lease owner identity of w's executor
  NoOwner,           \* lease_owner IS NULL
  MaxRecovery,       \* maximum_recovery_attempts
  TTL,               \* lease lifetime in clock ticks
  Maximum,           \* maximum_resources of one reservation unit
  Ceiling,           \* the ceiling of the enforced dimension
  Controls,          \* the operator requests a run may issue
  OverlappedCancel   \* may other transactions overlap a CANCEL?

ASSUME ParameterAssumption ==
  /\ NoOwner \notin {Owner[w] : w \in Workers}
  /\ MaxRecovery \in Nat /\ TTL \in Nat \ {0}
  /\ Maximum \in Nat /\ Ceiling \in Nat /\ IsFiniteSet(Runs)
  /\ OverlappedCancel \in BOOLEAN

VARIABLES
  control,      \* control_state: ACTIVE, PAUSED or CANCELLED
  lastControl,  \* "PAUSE" when the last control event is a PAUSE
  cancel,       \* the CANCEL transaction in flight and what it has read
  run,          \* experiment_run rows
  made,         \* made[r]: how many attempts run r has
  att,          \* att[r][n]: attempt n of run r, with its event chain,
                \* reservation and reconciliation
  reserved,     \* reserved_totals of the scope ledger
  consumed,     \* consumed_totals
  worker        \* worker[w]: where coroutine w stands and what it claimed

vars == <<control, lastControl, cancel, run, made, att, reserved, consumed, worker>>
operatorVars == <<control, lastControl, cancel>>
ledger == <<reserved, consumed>>

-----------------------------------------------------------------------------
AttemptNumber == 1 .. (MaxRecovery + 1)
LeaseOwner == {Owner[w] : w \in Workers} \cup {NoOwner}

RunRow ==
  [status : RunStatus, attempt : 0 .. (MaxRecovery + 1),
   lease_owner : LeaseOwner, lease : 0 .. TTL,
   cancellation_requested : BOOLEAN,
   normalized_outcome : StatisticalOutcome \cup {"none"}]

\* replay is the state _validate_attempt_event_chain reaches, or BROKEN.
\* reconciliation: UNAVAILABLE when settled without a lane result, at the
\* maximum; OBSERVED when settled from the metrics of one; EXCEEDED when these
\* pass the envelope, and then nothing is moved in the ledger.
AttemptRow ==
  [state : LifecycleState, replay : LifecycleState \cup {"BROKEN"},
   reservation : {"NONE", "ACCEPTED", "DENIED"},
   reconciliation : {"NONE", "UNAVAILABLE", "OBSERVED", "EXCEEDED"},
   charged : 0 .. Maximum]

WorkerStep ==
  {"claimed", "prepared", "running", "dispatched", "verified", "scored",
   "reconciled", "ended", "interrupted", "cancelled"}

Idle == [pc |-> "idle"]
Busy ==
  [pc : WorkerStep, run : Runs, attempt : AttemptNumber,
   beat : {"ok", "lost", "cancelled"}, result : {"none", "lane", "error"}]

NewAttempt ==
  [state |-> "QUEUED", replay |-> "QUEUED", reservation |-> "NONE",
   reconciliation |-> "NONE", charged |-> 0]

NoCancel == [open |-> FALSE, slots |-> {}, seen |-> [r \in Runs |-> "QUEUED"]]

\* enqueue_plan, initialize_authoritative_lifecycle, initialize_budget_scope
Init ==
  /\ control = "ACTIVE" /\ lastControl = "NONE" /\ cancel = NoCancel
  /\ run = [r \in Runs |->
        [status |-> "QUEUED", attempt |-> 0, lease_owner |-> NoOwner, lease |-> 0,
         cancellation_requested |-> FALSE, normalized_outcome |-> "none"]]
  /\ made = [r \in Runs |-> 1]
  /\ att = [r \in Runs |-> [n \in AttemptNumber |-> NewAttempt]]
  /\ reserved = 0 /\ consumed = 0
  /\ worker = [w \in Workers |-> Idle]

-----------------------------------------------------------------------------
(* Row updates shared by several handlers. *)

\* current_attempt_record
Current(r) == att[r][made[r]]

\* append_attempt_transition: the event carries the from_state the session
\* has cached; the chain replays only if that is where the last event ended.
AppendFrom(a, source, target) ==
  [a EXCEPT !.state = target,
            !.replay = IF a.replay = source THEN target ELSE "BROKEN"]

AppendEvent(a, target) == AppendFrom(a, a.state, target)

LeaseCleared(row) == [row EXCEPT !.lease_owner = NoOwner, !.lease = 0]

CancelledRun(row) ==
  [LeaseCleared(row) EXCEPT !.status = "CANCELLED", !.normalized_outcome = "cancelled"]

\* Mutant: the row keeps its active status.
InfraFailedRun_KeepsStatus(row, n) ==
  [LeaseCleared(row) EXCEPT
     !.normalized_outcome = IF n = 1 THEN "infra_failure" ELSE @]

\* A lost lease or an exceeded envelope: only a PRIMARY attempt (n = 1)
\* writes the outcome of the run.
InfraFailedRun(row, n) ==
  [LeaseCleared(row) EXCEPT
     !.status = "FAILED_INFRA",
     !.normalized_outcome = IF n = 1 THEN "infra_failure" ELSE @]

\* Mutant: the charge is off by one.
Settled_OffByOne(a, status, amount) ==
  [a EXCEPT !.reconciliation = status, !.charged = amount + 1]

Settled(a, status, amount) == [a EXCEPT !.reconciliation = status, !.charged = amount]

-----------------------------------------------------------------------------
(* expire_authoritative_leases: every active run whose lease has run out. *)

\* Mutants: a claimed run is not yet counted as active; only the lease counts.
Lost_IgnoresClaimed ==
  {r \in Runs : /\ run[r].status \in ACTIVE_STATUSES \ {"CLAIMED"}
                /\ run[r].lease_owner # NoOwner /\ run[r].lease = 0
                /\ Current(r).state \notin TERMINAL_STATES}
Lost_ByLeaseOnly == {r \in Runs : run[r].lease_owner # NoOwner /\ run[r].lease = 0}

Lost ==
  {r \in Runs : /\ run[r].status \in ACTIVE_STATUSES
                /\ run[r].lease_owner # NoOwner /\ run[r].lease = 0
                /\ Current(r).state \notin TERMINAL_STATES}

ExpiredAttempt(a) ==
  IF a.reconciliation = "NONE"
  THEN Settled(AppendEvent(a, "FAILED_INFRA"), "UNAVAILABLE", Maximum)
  ELSE AppendEvent(a, "FAILED_INFRA")

RunAfterExpiry ==
  [r \in Runs |-> IF r \in Lost THEN InfraFailedRun(run[r], made[r]) ELSE run[r]]

AttAfterExpiry ==
  [r \in Runs |->
     IF r \in Lost THEN [att[r] EXCEPT ![made[r]] = ExpiredAttempt(@)] ELSE att[r]]

\* Mutant: attempts already reconciled are charged again.
ExpiryCharge_Twice == Maximum * Cardinality(Lost)

\* What the expired attempts move from reserved to consumed: their maximum.
ExpiryCharge ==
  Maximum * Cardinality({r \in Lost : Current(r).reconciliation = "NONE"})

(* claim_authoritative_run: expire, pick a queued run, reserve its maximum. *)

Claimable ==
  {r \in Runs : /\ run[r].status = "QUEUED" /\ ~run[r].cancellation_requested
                /\ Current(r).state = "QUEUED"}

\* reserve_budget accepts when the slot has no open reservation and the
\* enforced ceiling is not passed; expiry leaves reserved + consumed alone.
OpenReservation(r) ==
  \E n \in 1 .. made[r] :
     att[r][n].reservation = "ACCEPTED" /\ att[r][n].reconciliation = "NONE"

\* Mutant: what is already consumed is not projected.
Accepted_IgnoresConsumed(r) == ~OpenReservation(r) /\ reserved + Maximum <= Ceiling

Accepted(r) == ~OpenReservation(r) /\ reserved + consumed + Maximum <= Ceiling

ClaimAuthoritativeRun(w) ==
  /\ worker[w] = Idle
  /\ ~cancel.open                 \* the experiment row is locked by a CANCEL
  /\ control = "ACTIVE"           \* checked before the leases are expired
  /\ ExpiryCharge <= reserved     \* _subtract_exact raises otherwise
  /\ consumed' = consumed + ExpiryCharge
  /\ \/ /\ Lost # {}              \* no slot among slot_ids is claimable
        /\ run' = RunAfterExpiry /\ att' = AttAfterExpiry
        /\ reserved' = reserved - ExpiryCharge
        /\ UNCHANGED worker
     \/ \E r \in Claimable :
        /\ Accepted(r)
        /\ run' = [RunAfterExpiry EXCEPT ![r] =
                     [@ EXCEPT !.status = "CLAIMED", !.attempt = made[r],
                               !.lease_owner = Owner[w], !.lease = TTL]]
        /\ att' = [AttAfterExpiry EXCEPT ![r][made[r]] =
                     [@ EXCEPT !.reservation = "ACCEPTED"]]
        /\ reserved' = (reserved - ExpiryCharge) + Maximum
        /\ worker' = [worker EXCEPT ![w] =
                        [pc |-> "claimed", run |-> r, attempt |-> made[r],
                         beat |-> "ok", result |-> "none"]]
     \/ \E r \in Claimable :
        /\ ~Accepted(r)
        /\ run' = [RunAfterExpiry EXCEPT ![r] = [@ EXCEPT !.status = "BUDGET_EXHAUSTED"]]
        /\ att' = [AttAfterExpiry EXCEPT ![r][made[r]] =
                     [AppendEvent(@, "BUDGET_EXHAUSTED") EXCEPT !.reservation = "DENIED"]]
        /\ reserved' = reserved - ExpiryCharge
        /\ UNCHANGED worker
  /\ UNCHANGED <<operatorVars, made>>

-----------------------------------------------------------------------------
(* The executor's coroutine.  A handler that raises rolls back and ends it. *)

\* Mutant: the immutable claim attempt is not checked.
ActiveOwner_AnyAttempt(w) ==
  LET row == run[worker[w].run] IN row.lease_owner = Owner[w] /\ row.lease > 0

\* _require_active_owner
ActiveOwner(w) ==
  LET row == run[worker[w].run] IN
  /\ row.lease_owner = Owner[w]
  /\ row.attempt = worker[w].attempt
  /\ row.lease > 0

\* A cancellation is due and append_attempt_transition accepts it.
CancelDue(r) ==
  /\ run[r].cancellation_requested
  /\ "CANCELLED" \in ALLOWED_TRANSITIONS[Current(r).state]

CancelNow(r) ==
  /\ run' = [run EXCEPT ![r] = CancelledRun(@)]
  /\ att' = [att EXCEPT ![r][made[r]] = AppendEvent(@, "CANCELLED")]

\* What transition_run writes when no cancellation is pending.
Advance(r, target) ==
  /\ ~run[r].cancellation_requested
  /\ target \in TRANSITIONS[run[r].status]
  /\ run' = [run EXCEPT ![r].status = target]
  /\ IF target = "SCORING"
     THEN UNCHANGED att
     ELSE /\ target \in ALLOWED_TRANSITIONS[Current(r).state]
          /\ att' = [att EXCEPT ![r][made[r]] = AppendEvent(@, target)]

Advanceable(r, target) ==
  /\ ~run[r].cancellation_requested
  /\ target \in TRANSITIONS[run[r].status]
  /\ target = "SCORING" \/ target \in ALLOWED_TRANSITIONS[Current(r).state]

Raise(w) ==
  /\ worker' = [worker EXCEPT ![w] = Idle]
  /\ UNCHANGED <<run, att>>

\* transition_run, called by execute at step pc, which goes on at step next.
TransitionRun(w, pc, target, next) ==
  /\ worker[w].pc = pc
  /\ LET r == worker[w].run IN
     \/ /\ ActiveOwner(w) /\ CancelDue(r) /\ CancelNow(r)
        /\ worker' = [worker EXCEPT ![w].pc = "cancelled"]
     \/ /\ ActiveOwner(w) /\ Advance(r, target)
        /\ worker' = [worker EXCEPT ![w].pc = next]
     \/ /\ ~(ActiveOwner(w) /\ (CancelDue(r) \/ Advanceable(r, target)))
        /\ Raise(w)
  /\ UNCHANGED <<operatorVars, made, ledger>>

Prepare(w)  == TransitionRun(w, "claimed", "PREPARING", "prepared")
Start(w)    == TransitionRun(w, "prepared", "RUNNING", "running")
Verify(w)   == TransitionRun(w, "dispatched", "VERIFYING", "verified")
Score(w)    == TransitionRun(w, "verified", "SCORING", "scored")

\* _maintain_heartbeat and heartbeat_run, while the lane runner executes.  The
\* heartbeat is lost to a refusal, and to a transaction that fails.
Heartbeat(w) ==
  /\ worker[w].pc = "running" /\ worker[w].beat = "ok"
  /\ LET r == worker[w].run
         owned == ActiveOwner(w) /\ run[r].status \in ACTIVE_STATUSES
     IN
     \/ /\ owned /\ ~run[r].cancellation_requested
        /\ run' = [run EXCEPT ![r].lease = TTL]
        /\ UNCHANGED <<att, worker>>
     \/ /\ owned /\ CancelDue(r) /\ CancelNow(r)
        /\ worker' = [worker EXCEPT ![w].beat = "cancelled"]
     \/ /\ worker' = [worker EXCEPT ![w].beat = "lost"]
        /\ UNCHANGED <<run, att>>
  /\ UNCHANGED <<operatorVars, made, ledger>>

\* dispatcher.execute returns a lane result or raises; the heartbeat stops.
Dispatched(w) ==
  /\ worker[w].pc = "running"
  /\ \E result \in {"lane", "error"} :
        worker' = [worker EXCEPT ![w] =
                     [@ EXCEPT !.pc = IF worker[w].beat = "ok" THEN "dispatched" ELSE "ended",
                               !.beat = "ok", !.result = result]]
  /\ UNCHANGED <<operatorVars, run, made, att, ledger>>

\* After a lost or cancelled heartbeat: _inspect decides about reconciling.
Inspect(w) ==
  /\ worker[w].pc = "ended"
  /\ worker' = [worker EXCEPT ![w] =
                  IF run[@.run].status \in {"FAILED_INFRA", "CANCELLED"}
                  THEN [@ EXCEPT !.pc = "interrupted"] ELSE Idle]
  /\ UNCHANGED <<operatorVars, run, made, att, ledger>>

(* _reconcile_terminal and reconcile_attempt_resources.  A usage comes from *)
(* the metrics of a lane result or is wholly unavailable.                   *)

Measured(w) == worker[w].pc # "cancelled" /\ worker[w].result = "lane"

\* Mutant: a stale claim reconciles whatever attempt is current.
MayReconcile_StaleClaim(w) == Current(worker[w].run).reservation = "ACCEPTED"

MayReconcile(w) ==
  LET r == worker[w].run IN
  /\ run[r].attempt = worker[w].attempt /\ made[r] = worker[w].attempt
  /\ Current(r).reservation = "ACCEPTED"

AfterReconcile(w) ==
  IF worker[w].pc = "scored" THEN [worker[w] EXCEPT !.pc = "reconciled"] ELSE Idle

\* A second reconciliation returns the first receipt if it says the same.
SameReceipt(w) ==
  Current(worker[w].run).reconciliation = "UNAVAILABLE" /\ ~Measured(w)

Reconcile(w) ==
  /\ MayReconcile(w)
  /\ LET r == worker[w].run
         settle(status, amount) ==
           /\ att' = [att EXCEPT ![r][made[r]] = Settled(@, status, amount)]
           /\ reserved' = reserved - Maximum
           /\ consumed' = consumed + amount
           /\ worker' = [worker EXCEPT ![w] = AfterReconcile(w)]
           /\ UNCHANGED run
         fresh == Current(r).reconciliation = "NONE"
     IN
     \/ /\ SameReceipt(w)
        /\ worker' = [worker EXCEPT ![w] = AfterReconcile(w)]
        /\ UNCHANGED <<run, att, ledger>>
     \/ /\ fresh /\ ~Measured(w) /\ Maximum <= reserved
        /\ settle("UNAVAILABLE", Maximum)
     \/ /\ fresh /\ Measured(w) /\ Maximum <= reserved
        /\ \E amount \in 0 .. Maximum : settle("OBSERVED", amount)
     \/ /\ fresh /\ Measured(w)      \* more was used than was reserved
        /\ IF Current(r).state \in TERMINAL_STATES
           THEN /\ att' = [att EXCEPT ![r][made[r]] = Settled(@, "EXCEEDED", 0)]
                /\ UNCHANGED run
           ELSE /\ att' = [att EXCEPT ![r][made[r]] =
                             AppendEvent(Settled(@, "EXCEEDED", 0), "FAILED_INFRA")]
                /\ run' = [run EXCEPT ![r] = InfraFailedRun(@, made[r])]
        /\ worker' = [worker EXCEPT ![w] = Idle]
        /\ UNCHANGED ledger

ReconcileTerminal(w) ==
  /\ worker[w].pc \in {"cancelled", "interrupted", "scored"}
  /\ \/ Reconcile(w)
     \/ /\ LET first == Current(worker[w].run).reconciliation = "NONE" IN
           ~(MayReconcile(w) /\ (SameReceipt(w) \/ (first /\ Maximum <= reserved)))
        /\ Raise(w)
        /\ UNCHANGED ledger
  /\ UNCHANGED <<operatorVars, made>>

\* Mutant: the late cancellation is ignored.
FinishOutcomes_IgnoresCancellation(w) ==
  IF worker[w].result = "error" THEN {"infra_failure"} ELSE StatisticalOutcome

\* finish_run: a cancellation wins over the outcome, an executor error is an
\* infrastructure failure, a lane result may normalize to any outcome.
FinishOutcomes(w) ==
  IF run[worker[w].run].cancellation_requested THEN {"cancelled"}
  ELSE IF worker[w].result = "error" THEN {"infra_failure"}
  ELSE StatisticalOutcome

MayFinish(w) ==
  LET r == worker[w].run IN
  /\ ActiveOwner(w)
  /\ run[r].status = "SCORING"
  /\ Current(r).reconciliation # "NONE"
  /\ Current(r).state = "VERIFYING"

FinishedRun(row, n, outcome) ==
  [LeaseCleared(row) EXCEPT
     !.status = TERMINAL_STATUS_BY_OUTCOME[outcome],
     !.normalized_outcome = IF n = 1 THEN outcome ELSE @]

FinishRun(w) ==
  /\ worker[w].pc = "reconciled"
  /\ LET r == worker[w].run IN
     \/ /\ MayFinish(w)
        /\ \E outcome \in FinishOutcomes(w) :
           /\ run' = [run EXCEPT ![r] = FinishedRun(@, made[r], outcome)]
           /\ att' = [att EXCEPT ![r][made[r]] =
                        AppendEvent(@, LifecycleTerminalByOutcome[outcome])]
        /\ worker' = [worker EXCEPT ![w] = Idle]
     \/ ~MayFinish(w) /\ Raise(w)
  /\ UNCHANGED <<operatorVars, made, ledger>>

\* The process of a coroutine dies between two of its transactions.
Crash(w) ==
  /\ worker[w] # Idle
  /\ worker' = [worker EXCEPT ![w] = Idle]
  /\ UNCHANGED <<operatorVars, run, made, att, ledger>>

\* The clock: every held lease comes one tick closer to its expiry.
Tick ==
  /\ \E r \in Runs : run[r].lease > 0
  /\ run' = [r \in Runs |->
               IF run[r].lease > 0 THEN [run[r] EXCEPT !.lease = @ - 1] ELSE run[r]]
  /\ UNCHANGED <<operatorVars, made, att, ledger, worker>>

-----------------------------------------------------------------------------
(* issue_control and request_run_cancellation: the operator.  issue_control *)
(* holds the experiment row, so no two controls and no claim overlap.       *)

Control(kind) == kind \in Controls /\ ~cancel.open

Pause ==
  /\ Control("PAUSE") /\ control = "ACTIVE"
  /\ control' = "PAUSED" /\ lastControl' = "PAUSE"
  /\ UNCHANGED <<cancel, run, made, att, ledger, worker>>

\* RESUME requires the PAUSE to be the very last control event.
Resume ==
  /\ Control("RESUME") /\ control = "PAUSED" /\ lastControl = "PAUSE"
  /\ control' = "ACTIVE" /\ lastControl' = "RESUME"
  /\ UNCHANGED <<cancel, run, made, att, ledger, worker>>

\* RUN_REMAINING only records an event.
RunRemaining ==
  /\ Control("RUN_REMAINING") /\ control # "CANCELLED"
  /\ lastControl' = "RUN_REMAINING"
  /\ UNCHANGED <<control, cancel, run, made, att, ledger, worker>>

RequeuedRun(row, n) ==
  [LeaseCleared(row) EXCEPT !.status = "QUEUED", !.attempt = n,
                            !.cancellation_requested = FALSE]

\* RETRY_INFRA_SELECTED: create_recovery_attempt for every selected slot.
RetryInfraSelected(slots) ==
  /\ Control("RETRY_INFRA_SELECTED") /\ control # "CANCELLED" /\ slots # {}
  /\ \A r \in slots : Current(r).state = "FAILED_INFRA" /\ made[r] - 1 < MaxRecovery
  /\ made' = [r \in Runs |-> IF r \in slots THEN made[r] + 1 ELSE made[r]]
  /\ run' = [r \in Runs |->
       IF r \in slots THEN RequeuedRun(run[r], made[r]) ELSE run[r]]
  /\ lastControl' = "RETRY_INFRA_SELECTED"
  /\ UNCHANGED <<control, cancel, att, ledger, worker>>

\* Mutant: CANCEL looks at the primary attempt only.
Seen_Primary == [r \in Runs |-> att[r][1].state]

\* CANCEL selects the attempts without a lock and acts on the state it read:
\* the FOR UPDATE of append_attempt_transition locks the row but does not
\* refresh the object the session already holds.
Seen == [r \in Runs |-> Current(r).state]

\* No slots at all means the whole experiment.
Selected(slots) == IF slots = {} THEN Runs ELSE slots

ApplyCancel(slots, seen) ==
  LET withdrawn == {r \in Selected(slots) : seen[r] = "QUEUED"}
      flagged == {r \in Selected(slots) : seen[r] \notin TERMINAL_STATES} \ withdrawn
  IN
  \* An event later than the CANCEL's own timestamp is refused as not
  \* monotonic: at most the one that overlapped the read can be overwritten.
  /\ \A r \in withdrawn : Current(r).state \in {"QUEUED", "PREPARING", "CANCELLED"}
  /\ run' = [r \in Runs |->
       CASE r \in withdrawn -> [run[r] EXCEPT !.status = "CANCELLED"]
         [] r \in flagged   -> [run[r] EXCEPT !.cancellation_requested = TRUE]
         [] OTHER           -> run[r]]
  /\ att' = [r \in Runs |->
       IF r \in withdrawn
       THEN [att[r] EXCEPT ![made[r]] = AppendFrom(@, seen[r], "CANCELLED")]
       ELSE att[r]]
  /\ control' = IF slots = {} THEN "CANCELLED" ELSE control
  /\ lastControl' = "CANCEL"
  /\ UNCHANGED <<made, ledger, worker>>

\* A CANCEL that nothing overlaps.
IssueCancel(slots) ==
  /\ Control("CANCEL") /\ ~OverlappedCancel
  /\ ApplyCancel(slots, Seen)
  /\ UNCHANGED cancel

\* The same transaction in two steps: the read, then the commit or, when a
\* later event makes its timestamp stale, the rollback.
ReadCancel(slots) ==
  /\ Control("CANCEL") /\ OverlappedCancel
  /\ cancel' = [open |-> TRUE, slots |-> slots, seen |-> Seen]
  /\ UNCHANGED <<control, lastControl, run, made, att, ledger, worker>>

CommitCancel ==
  /\ cancel.open
  /\ ApplyCancel(cancel.slots, cancel.seen)
  /\ cancel' = NoCancel

RollBackCancel ==
  /\ cancel.open
  /\ \E r \in Selected(cancel.slots) :
        cancel.seen[r] = "QUEUED" /\ Current(r).state # "QUEUED"
  /\ cancel' = NoCancel
  /\ UNCHANGED <<control, lastControl, run, made, att, ledger, worker>>

RequestRunCancellation(r) ==
  /\ "CANCEL_RUN" \in Controls
  /\ IF run[r].status = "QUEUED"
     THEN /\ "CANCELLED" \in ALLOWED_TRANSITIONS[Current(r).state]
          /\ run' = [run EXCEPT ![r] = [CancelledRun(@) EXCEPT !.cancellation_requested = TRUE]]
          /\ att' = [att EXCEPT ![r][made[r]] = AppendEvent(@, "CANCELLED")]
     ELSE /\ run' = [run EXCEPT ![r].cancellation_requested = TRUE]
          /\ UNCHANGED att
  /\ UNCHANGED <<operatorVars, made, ledger, worker>>

-----------------------------------------------------------------------------
Execute(w) ==
  \/ Prepare(w) \/ Start(w) \/ Verify(w) \/ Score(w)
  \/ Dispatched(w) \/ Inspect(w) \/ ReconcileTerminal(w) \/ FinishRun(w)

Operator ==
  \/ Pause \/ Resume \/ RunRemaining
  \/ \E slots \in SUBSET Runs :
        RetryInfraSelected(slots) \/ IssueCancel(slots) \/ ReadCancel(slots)
  \/ CommitCancel \/ RollBackCancel
  \/ \E r \in Runs : RequestRunCancellation(r)

Next ==
  \/ \E w \in Workers : ClaimAuthoritativeRun(w) \/ Execute(w) \/ Heartbeat(w) \/ Crash(w)
  \/ Tick
  \/ Operator

Spec == Init /\ [][Next]_vars

\* A worker keeps claiming and a coroutine keeps going; the clock runs; a
\* CANCEL commits or rolls back.  A claim waits for the row lock of the experiment,
\* which the database grants in the order of the requests: an operator who keeps
\* opening CANCELs, each of which disables the claim while it is open, delays it but
\* cannot starve it (SF).  Nobody promises heartbeats, that a process survives, or
\* that the operator acts.
Fairness ==
  /\ \A w \in Workers : SF_vars(ClaimAuthoritativeRun(w)) /\ WF_vars(Execute(w))
  /\ WF_vars(Tick)
  /\ WF_vars(CommitCancel \/ RollBackCancel)

FairSpec == Spec /\ Fairness

-----------------------------------------------------------------------------
(* Properties. *)

TypeOK ==
  /\ control \in {"ACTIVE", "PAUSED", "CANCELLED"}
  /\ lastControl \in {"NONE", "PAUSE", "RESUME", "RUN_REMAINING",
                      "RETRY_INFRA_SELECTED", "CANCEL"}
  /\ cancel \in [open : BOOLEAN, slots : SUBSET Runs, seen : [Runs -> LifecycleState]]
  /\ run \in [Runs -> RunRow]
  /\ made \in [Runs -> AttemptNumber]
  /\ att \in [Runs -> [AttemptNumber -> AttemptRow]]
  /\ reserved \in Nat /\ consumed \in Nat
  /\ worker \in [Workers -> Busy \cup {Idle}]

\* The run row that old readers see and the current attempt never disagree,
\* though they are written by separate statements of six handlers: a CLAIMED
\* run has a QUEUED attempt, any other status maps to the attempt's state.
StatusFollowsAttempt ==
  \A r \in Runs :
     IF run[r].status = "CLAIMED"
     THEN Current(r).state = "QUEUED"
     ELSE LifecycleOfStatus[run[r].status] = Current(r).state

\* Whatever workers, expiries and retries do, what is reserved and what is
\* already spent stay within the frozen ceiling (reserve_budget).
BudgetWithinCeiling == reserved + consumed <= Ceiling

\* The ledger totals are exactly what the attempts account for: a reservation
\* is held once until it is settled (for ever if the envelope was exceeded),
\* and every settled attempt is charged once.
Attempts == {a \in Runs \X AttemptNumber : a[2] <= made[a[1]]}
Held(r, n) ==
  /\ att[r][n].reservation = "ACCEPTED"
  /\ att[r][n].reconciliation \in {"NONE", "EXCEEDED"}
LedgerBalances ==
  /\ reserved = Maximum * Cardinality({a \in Attempts : Held(a[1], a[2])})
  /\ consumed = MapThenSumSet(LAMBDA a : att[a[1]][a[2]].charged, Attempts)

\* The reservation follows the run: while it is queued none of an earlier attempt
\* is open (reserve_budget would deny the retry as a duplicate unit), while it
\* executes its own is accepted and nobody has settled it, and capability
\* evidence comes only from an attempt that was settled from its own lane result,
\* never from one that an expiry or an interrupted coroutine had settled.
ReservationFollowsRun ==
  /\ \A r \in Runs : run[r].status = "QUEUED" => ~OpenReservation(r)
  /\ \A r \in Runs :
       run[r].status \in ACTIVE_STATUSES \ {"SCORING"}
         => /\ Current(r).reservation = "ACCEPTED"
            /\ Current(r).reconciliation = "NONE"
  /\ \A r \in Runs : \A n \in 1 .. made[r] :
       att[r][n].state \in {"COMPLETED", "FAILED_CAPABILITY"}
         => att[r][n].reconciliation = "OBSERVED"

\* The coroutine that claimed the running attempt finds the run where it left
\* it: no sibling with the same owner identity and a stale claim moves it.
StatusOfStep ==
  [pc \in WorkerStep |->
     CASE pc = "claimed" -> "CLAIMED"
       [] pc = "prepared" -> "PREPARING"
       [] pc \in {"running", "dispatched", "ended"} -> "RUNNING"
       [] pc = "verified" -> "VERIFYING"
       [] OTHER -> "SCORING"]
OneDriver ==
  \A w \in Workers :
     /\ worker[w] # Idle
     /\ run[worker[w].run].status \in ACTIVE_STATUSES
     /\ run[worker[w].run].attempt = worker[w].attempt
     => run[worker[w].run].status = StatusOfStep[worker[w].pc]

\* Once the whole experiment is cancelled no run can be claimed again and
\* every run still executing has been told to stop.
CancelledExperimentStops ==
  control = "CANCELLED" =>
     \A r \in Runs : /\ run[r].status # "QUEUED"
                     /\ run[r].status \in ACTIVE_STATUSES => run[r].cancellation_requested

\* "Cancellation short-circuits later transitions and never promotes a
\* cancelled physical attempt into authoritative capability evidence."
CancelledNeverEvidence ==
  [][\A r \in Runs :
       run[r].cancellation_requested /\ run[r].status \in ACTIVE_STATUSES
          => run[r].status' \notin {"COMPLETED", "FAILED_SUBJECT"}]_vars

\* The durable rows implement the immutable RunLifecycle ledger.
RunLedger ==
  INSTANCE RunLifecycle WITH
    Slots <- Runs, count <- made,
    state <- [r \in Runs |-> [n \in AttemptNumber |-> att[r][n].state]]
ImplementsRunLifecycle == RunLedger!Spec

\* An attempt whose worker is lost does not stay active for ever, unless the
\* experiment is paused or cancelled: nothing is claimed then, and leases are
\* expired only inside a claim.
LostWorkIsTerminalized ==
  \A r \in Runs : run[r].status \in ACTIVE_STATUSES ~>
                    run[r].status \notin ACTIVE_STATUSES \/ control # "ACTIVE"

(* What the repository says and the code does not do. *)

\* "authoritative attempt resources must reconcile before terminal outcome":
\* a terminal attempt nobody works on any more has settled its reservation.
TerminalAttemptsReconciled ==
  \A r \in Runs : \A n \in 1 .. made[r] :
     /\ att[r][n].state \in TERMINAL_STATES /\ att[r][n].reservation = "ACCEPTED"
     /\ \A w \in Workers :
          worker[w] # Idle => ~(worker[w].run = r /\ worker[w].attempt = n)
     => att[r][n].reconciliation # "NONE"

\* "attempt lifecycle event chain is inconsistent": every chain replays.
EventChainsReplay ==
  \A r \in Runs : \A n \in 1 .. made[r] : att[r][n].replay = att[r][n].state

\* "primary outcomes are never overwritten"
PrimaryOutcomeFrozen ==
  [][\A r \in Runs : run[r].normalized_outcome # "none"
        => run[r].normalized_outcome' = run[r].normalized_outcome]_vars
=============================================================================
