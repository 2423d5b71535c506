----------------------- MODULE AuthoritativeRunsProofs -----------------------
(***************************************************************************)
(* Theorems about AuthoritativeRuns for every set of runs and workers and  *)
(* every value of its bounds.                                              *)
(***************************************************************************)
EXTENDS AuthoritativeRuns, FiniteSetTheorems, TLAPS

-----------------------------------------------------------------------------
(* The row updates keep the rows in their types. *)

\* Clearing a lease leaves a run row.
LEMMA LeaseClearedType ==
  ASSUME NEW row \in RunRow
  PROVE  LeaseCleared(row) \in RunRow
  <1>. NoOwner \in LeaseOwner /\ 0 \in 0 .. TTL
    BY ParameterAssumption DEF LeaseOwner
  <1>. QED
    BY DEF LeaseCleared, RunRow

\* Cancelling leaves a run row.
LEMMA CancelledRunType ==
  ASSUME NEW row \in RunRow
  PROVE  CancelledRun(row) \in RunRow
  BY LeaseClearedType DEF CancelledRun, RunRow, RunStatus, TERMINAL_STATUSES,
     StatisticalOutcome

\* Failing for an infrastructure reason leaves a run row.
LEMMA InfraFailedRunType ==
  ASSUME NEW row \in RunRow, NEW n
  PROVE  InfraFailedRun(row, n) \in RunRow
  BY LeaseClearedType DEF InfraFailedRun, RunRow, RunStatus, TERMINAL_STATUSES,
     StatisticalOutcome

\* Appending an event leaves an attempt row in the target state.
LEMMA AppendFromType ==
  ASSUME NEW a \in AttemptRow, NEW source, NEW target \in LifecycleState
  PROVE  /\ AppendFrom(a, source, target) \in AttemptRow
         /\ AppendFrom(a, source, target).state = target
         /\ AppendFrom(a, source, target).reconciliation = a.reconciliation
  BY DEF AppendFrom, AttemptRow

LEMMA AppendEventType ==
  ASSUME NEW a \in AttemptRow, NEW target \in LifecycleState
  PROVE  /\ AppendEvent(a, target) \in AttemptRow
         /\ AppendEvent(a, target).state = target
         /\ AppendEvent(a, target).reconciliation = a.reconciliation
  BY AppendFromType DEF AppendEvent

\* Settling leaves an attempt row and its state alone.
LEMMA SettledType ==
  ASSUME NEW a \in AttemptRow, NEW status \in {"UNAVAILABLE", "OBSERVED", "EXCEEDED"},
         NEW amount \in 0 .. Maximum
  PROVE  /\ Settled(a, status, amount) \in AttemptRow
         /\ Settled(a, status, amount).state = a.state
  BY DEF Settled, AttemptRow

LEMMA StatesInType ==
  /\ "FAILED_INFRA" \in LifecycleState /\ "CANCELLED" \in LifecycleState
  /\ "BUDGET_EXHAUSTED" \in LifecycleState
  BY DEF LifecycleState

\* Expiring leaves an attempt row that failed for an infrastructure reason.
LEMMA ExpiredAttemptType ==
  ASSUME NEW a \in AttemptRow
  PROVE  ExpiredAttempt(a) \in AttemptRow /\ ExpiredAttempt(a).state = "FAILED_INFRA"
  <1>. /\ AppendEvent(a, "FAILED_INFRA") \in AttemptRow
       /\ AppendEvent(a, "FAILED_INFRA").state = "FAILED_INFRA"
    BY AppendEventType, StatesInType
  <1>. Maximum \in 0 .. Maximum
    BY ParameterAssumption
  <1>. QED
    BY SettledType DEF ExpiredAttempt

-----------------------------------------------------------------------------
(* Type correctness. *)

\* The current attempt of a run is a row, and replacing it keeps the type.
LEMMA CurrentType ==
  ASSUME TypeOK, NEW r \in Runs
  PROVE  /\ run[r] \in RunRow /\ made[r] \in AttemptNumber
         /\ Current(r) \in AttemptRow /\ Current(r) = att[r][made[r]]
         /\ \A a \in AttemptRow :
              [att EXCEPT ![r][made[r]] = a] \in [Runs -> [AttemptNumber -> AttemptRow]]
         /\ \A row \in RunRow : [run EXCEPT ![r] = row] \in [Runs -> RunRow]
  BY DEF TypeOK, Current

\* What an expiry charges is a natural number.
LEMMA ExpiryChargeType == ExpiryCharge \in Nat
  <1> DEFINE S == {r \in Lost : Current(r).reconciliation = "NONE"}
  <1>1. IsFiniteSet(S)
    <2>1. S \subseteq Runs
      BY DEF Lost
    <2>. QED
      BY <2>1, ParameterAssumption, FS_Subset
  <1>2. Cardinality(S) \in Nat
    BY <1>1, FS_CardinalityType
  <1>3. \A i, j \in Nat : i * j \in Nat
    OBVIOUS
  <1>. HIDE DEF S
  <1>4. Maximum * Cardinality(S) \in Nat
    BY <1>2, <1>3, ParameterAssumption
  <1>. QED
    BY <1>4 DEF ExpiryCharge, S

\* The rows after an expiry are well typed.
LEMMA AfterExpiryType ==
  ASSUME TypeOK
  PROVE  /\ RunAfterExpiry \in [Runs -> RunRow]
         /\ AttAfterExpiry \in [Runs -> [AttemptNumber -> AttemptRow]]
         /\ \A r \in Runs : r \notin Lost => RunAfterExpiry[r] = run[r] /\ AttAfterExpiry[r] = att[r]
  <1>1. \A r \in Runs : InfraFailedRun(run[r], made[r]) \in RunRow
    BY InfraFailedRunType, CurrentType
  <1>2. \A r \in Runs : ExpiredAttempt(att[r][made[r]]) \in AttemptRow
    BY ExpiredAttemptType, CurrentType
  <1>3. \A r \in Runs : run[r] \in RunRow /\ att[r] \in [AttemptNumber -> AttemptRow]
    BY DEF TypeOK
  <1>4. RunAfterExpiry \in [Runs -> RunRow]
    BY <1>1, <1>3 DEF RunAfterExpiry
  <1>5. AttAfterExpiry \in [Runs -> [AttemptNumber -> AttemptRow]]
    BY <1>2, <1>3 DEF AttAfterExpiry
  <1>. QED
    BY <1>4, <1>5 DEF RunAfterExpiry, AttAfterExpiry

\* A claimable run is not lost: it is queued.
LEMMA ClaimableNotLost ==
  ASSUME NEW r \in Claimable
  PROVE  r \in Runs /\ r \notin Lost
  BY DEF Claimable, Lost, ACTIVE_STATUSES

LEMMA ClaimKeepsType ==
  ASSUME TypeOK, NEW w \in Workers, ClaimAuthoritativeRun(w)
  PROVE  TypeOK'
  <1>. USE AfterExpiryType, ExpiryChargeType, ParameterAssumption
  <1>0. /\ UNCHANGED <<operatorVars, made>>
        /\ ExpiryCharge <= reserved /\ consumed' = consumed + ExpiryCharge
    BY DEF ClaimAuthoritativeRun
  <1>1. CASE /\ run' = RunAfterExpiry /\ att' = AttAfterExpiry
             /\ reserved' = reserved - ExpiryCharge /\ UNCHANGED worker
    BY <1>0, <1>1 DEF TypeOK, operatorVars
  <1>2. ASSUME NEW r \in Claimable, 
               run' = [RunAfterExpiry EXCEPT ![r] =
                     [@ EXCEPT !.status = "CLAIMED", !.attempt = made[r],
                               !.lease_owner = Owner[w], !.lease = TTL]],
               att' = [AttAfterExpiry EXCEPT ![r][made[r]] =
                     [@ EXCEPT !.reservation = "ACCEPTED"]],
               reserved' = (reserved - ExpiryCharge) + Maximum,
               worker' = [worker EXCEPT ![w] =
                        [pc |-> "claimed", run |-> r, attempt |-> made[r],
                         beat |-> "ok", result |-> "none"]]
        PROVE  TypeOK'
    <2>1. r \in Runs /\ made[r] \in AttemptNumber /\ r \notin Lost
      BY ClaimableNotLost, CurrentType
    <2>2. /\ "CLAIMED" \in RunStatus /\ Owner[w] \in LeaseOwner /\ TTL \in 0 .. TTL
          /\ made[r] \in 0 .. (MaxRecovery + 1)
      BY <2>1 DEF RunStatus, ACTIVE_STATUSES, LeaseOwner, AttemptNumber
    <2>3. run' \in [Runs -> RunRow]
      <3> DEFINE row == [RunAfterExpiry[r] EXCEPT !.status = "CLAIMED", !.attempt = made[r],
                               !.lease_owner = Owner[w], !.lease = TTL]
      <3>1. RunAfterExpiry[r] \in RunRow
        BY <2>1
      <3>2. row \in RunRow
        BY <3>1, <2>2 DEF RunRow
      <3>. QED
        BY <3>2, <2>1, <1>2
    <2>4. att' \in [Runs -> [AttemptNumber -> AttemptRow]]
      <3> DEFINE a == [AttAfterExpiry[r][made[r]] EXCEPT !.reservation = "ACCEPTED"]
      <3>1. AttAfterExpiry[r][made[r]] \in AttemptRow
        BY <2>1
      <3>2. a \in AttemptRow
        BY <3>1 DEF AttemptRow
      <3>. QED
        BY <3>2, <2>1, <1>2
    <2>5. worker' \in [Workers -> Busy \cup {Idle}]
      BY <2>1, <1>2 DEF Busy, WorkerStep, TypeOK
    <2>. QED
      BY <1>0, <1>2, <2>3, <2>4, <2>5 DEF TypeOK, operatorVars
  <1>3. ASSUME NEW r \in Claimable, 
               run' = [RunAfterExpiry EXCEPT ![r] = [@ EXCEPT !.status = "BUDGET_EXHAUSTED"]],
               att' = [AttAfterExpiry EXCEPT ![r][made[r]] =
                     [AppendEvent(@, "BUDGET_EXHAUSTED") EXCEPT !.reservation = "DENIED"]],
               reserved' = reserved - ExpiryCharge,
               UNCHANGED worker
        PROVE  TypeOK'
    <2>1. r \in Runs /\ made[r] \in AttemptNumber
      BY ClaimableNotLost, CurrentType
    <2>2. run' \in [Runs -> RunRow]
      <3>1. [RunAfterExpiry[r] EXCEPT !.status = "BUDGET_EXHAUSTED"] \in RunRow
        BY <2>1 DEF RunRow, RunStatus, TERMINAL_STATUSES
      <3>. QED
        BY <3>1, <2>1, <1>3
    <2>3. att' \in [Runs -> [AttemptNumber -> AttemptRow]]
      <3> DEFINE b == AppendEvent(AttAfterExpiry[r][made[r]], "BUDGET_EXHAUSTED")
      <3>1. b \in AttemptRow
        BY <2>1, AppendEventType, StatesInType
      <3>2. [b EXCEPT !.reservation = "DENIED"] \in AttemptRow
        BY <3>1 DEF AttemptRow
      <3>. QED
        BY <3>2, <2>1, <1>3
    <2>. QED
      BY <1>0, <1>3, <2>2, <2>3 DEF TypeOK, operatorVars
  <1>. QED
    BY <1>1, <1>2, <1>3 DEF ClaimAuthoritativeRun

\* A handler that raises leaves the rows alone.
LEMMA RaiseType ==
  ASSUME TypeOK, NEW w \in Workers, Raise(w)
  PROVE  /\ UNCHANGED <<run, att>>
         /\ worker' \in [Workers -> Busy \cup {Idle}]
  BY DEF TypeOK, Raise

\* A worker that stands at a step has claimed a run.
LEMMA BusyType ==
  ASSUME TypeOK, NEW w \in Workers, worker[w].pc # "idle"
  PROVE  worker[w] \in Busy /\ worker[w].run \in Runs
  BY DEF TypeOK, Busy, Idle

\* Moving the program counter of a busy worker keeps its type.
LEMMA WorkerStepType ==
  ASSUME TypeOK, NEW w \in Workers, worker[w].pc # "idle", NEW pc \in WorkerStep
  PROVE  [worker EXCEPT ![w].pc = pc] \in [Workers -> Busy \cup {Idle}]
  BY BusyType DEF TypeOK, Busy

\* A cancellation that takes effect keeps the rows in their types.
LEMMA CancelNowType ==
  ASSUME TypeOK, NEW r \in Runs, CancelNow(r)
  PROVE  /\ run' \in [Runs -> RunRow]
         /\ att' \in [Runs -> [AttemptNumber -> AttemptRow]]
  <1>1. CancelledRun(run[r]) \in RunRow
    BY CancelledRunType, CurrentType
  <1>2. AppendEvent(att[r][made[r]], "CANCELLED") \in AttemptRow
    BY AppendEventType, StatesInType, CurrentType
  <1>. QED
    BY <1>1, <1>2, CurrentType DEF CancelNow

\* Every target of TRANSITIONS is a run status; but for SCORING it is also
\* an attempt state.
LEMMA TransitionTarget ==
  ASSUME NEW status \in RunStatus, NEW target \in TRANSITIONS[status]
  PROVE  target \in RunStatus /\ (target # "SCORING" => target \in LifecycleState)
  BY DEF TRANSITIONS, RunStatus, ACTIVE_STATUSES, LifecycleState

LEMMA AdvanceType ==
  ASSUME TypeOK, NEW r \in Runs, NEW target, Advance(r, target)
  PROVE  /\ run' \in [Runs -> RunRow]
         /\ att' \in [Runs -> [AttemptNumber -> AttemptRow]]
  <1>1. run[r] \in RunRow /\ run[r].status \in RunStatus
    BY CurrentType DEF RunRow
  <1>2. target \in RunStatus /\ (target # "SCORING" => target \in LifecycleState)
    BY <1>1, TransitionTarget DEF Advance
  <1>3. [run[r] EXCEPT !.status = target] \in RunRow
    BY <1>1, <1>2 DEF RunRow
  <1>4. run' = [run EXCEPT ![r] = [run[r] EXCEPT !.status = target]]
    BY <1>1 DEF Advance, TypeOK
  <1>5. CASE target = "SCORING"
    BY <1>3, <1>4, <1>5, CurrentType DEF Advance, TypeOK
  <1>6. CASE target # "SCORING"
    <2>1. AppendEvent(att[r][made[r]], target) \in AttemptRow
      BY <1>2, <1>6, AppendEventType, CurrentType
    <2>2. att' = [att EXCEPT ![r][made[r]] = AppendEvent(att[r][made[r]], target)]
      BY <1>6 DEF Advance
    <2>3. run' \in [Runs -> RunRow]
      BY <1>3, <1>4, CurrentType
    <2>4. att' \in [Runs -> [AttemptNumber -> AttemptRow]]
      BY <2>1, <2>2, CurrentType
    <2>. QED
      BY <2>3, <2>4
  <1>. QED
    BY <1>5, <1>6

LEMMA TransitionRunKeepsType ==
  ASSUME TypeOK, NEW w \in Workers, NEW pc \in WorkerStep, NEW target, NEW next \in WorkerStep,
         TransitionRun(w, pc, target, next)
  PROVE  TypeOK'
  <1>1. worker[w].pc # "idle"
    BY DEF TransitionRun, WorkerStep
  <1>2. worker[w].run \in Runs
    BY <1>1, BusyType
  <1>3. UNCHANGED <<operatorVars, made, ledger>>
    BY DEF TransitionRun
  <1>4. CASE CancelNow(worker[w].run) /\ worker' = [worker EXCEPT ![w].pc = "cancelled"]
    <2>1. worker' \in [Workers -> Busy \cup {Idle}]
      BY <1>1, <1>4, WorkerStepType DEF WorkerStep
    <2>. QED
      BY <1>2, <1>3, <1>4, <2>1, CancelNowType DEF TypeOK, operatorVars, ledger
  <1>5. CASE Advance(worker[w].run, target) /\ worker' = [worker EXCEPT ![w].pc = next]
    <2>1. worker' \in [Workers -> Busy \cup {Idle}]
      BY <1>1, <1>5, WorkerStepType
    <2>. QED
      BY <1>2, <1>3, <1>5, <2>1, AdvanceType DEF TypeOK, operatorVars, ledger
  <1>6. CASE Raise(w)
    BY <1>3, <1>6, RaiseType DEF TypeOK, operatorVars, ledger
  <1>. QED
    BY <1>4, <1>5, <1>6 DEF TransitionRun

LEMMA HeartbeatKeepsType ==
  ASSUME TypeOK, NEW w \in Workers, Heartbeat(w)
  PROVE  TypeOK'
  <1>1. worker[w] \in Busy /\ worker[w].run \in Runs
    BY BusyType DEF Heartbeat
  <1>2. UNCHANGED <<operatorVars, made, ledger>>
    BY DEF Heartbeat
  <1>3. CASE /\ run' = [run EXCEPT ![worker[w].run].lease = TTL]
             /\ UNCHANGED <<att, worker>>
    <2>1. PICK r \in Runs : r = worker[w].run
      BY <1>1
    <2>2. PICK row : row = [run[r] EXCEPT !.lease = TTL]
      OBVIOUS
    <2>3. row \in RunRow
      BY <2>2, CurrentType, ParameterAssumption DEF RunRow
    <2>4. run' = [run EXCEPT ![r] = row]
      BY <1>3, <2>1, <2>2 DEF TypeOK
    <2>5. run' \in [Runs -> RunRow]
      BY <2>3, <2>4, CurrentType
    <2>. QED
      BY <1>2, <1>3, <2>5 DEF TypeOK, operatorVars, ledger
  <1>4. CASE /\ CancelNow(worker[w].run)
             /\ worker' = [worker EXCEPT ![w].beat = "cancelled"]
    <2>1. worker' \in [Workers -> Busy \cup {Idle}]
      BY <1>1, <1>4 DEF TypeOK, Busy
    <2>. QED
      BY <1>1, <1>2, <1>4, <2>1, CancelNowType DEF TypeOK, operatorVars, ledger
  <1>5. CASE worker' = [worker EXCEPT ![w].beat = "lost"] /\ UNCHANGED <<run, att>>
    BY <1>1, <1>2, <1>5 DEF TypeOK, Busy, operatorVars, ledger
  <1>. QED
    BY <1>3, <1>4, <1>5 DEF Heartbeat

\* What Reconcile writes, settled or exceeded, is well typed.
LEMMA ReconcileKeepsType ==
  ASSUME TypeOK, NEW w \in Workers, worker[w].pc # "idle", Reconcile(w),
         UNCHANGED <<operatorVars, made>>
  PROVE  TypeOK'
  <1> DEFINE r == worker[w].run
  <1>1. worker[w] \in Busy /\ r \in Runs
    BY BusyType
  <1>2. AfterReconcile(w) \in Busy \cup {Idle}
    BY <1>1 DEF AfterReconcile, Busy, WorkerStep
  <1>3. Maximum \in Nat /\ Maximum \in 0 .. Maximum /\ 0 \in 0 .. Maximum
    BY ParameterAssumption
  <1>4. \A status \in {"UNAVAILABLE", "OBSERVED", "EXCEEDED"}, amount \in 0 .. Maximum :
           Settled(att[r][made[r]], status, amount) \in AttemptRow
    BY <1>1, SettledType, CurrentType
  <1>. HIDE DEF r
  <1>5. CASE /\ worker' = [worker EXCEPT ![w] = AfterReconcile(w)]
             /\ UNCHANGED <<run, att, ledger>>
    BY <1>2, <1>5 DEF TypeOK, operatorVars, ledger
  <1>6. ASSUME NEW status \in {"UNAVAILABLE", "OBSERVED", "EXCEEDED"},
               NEW amount \in 0 .. Maximum, Maximum <= reserved,
               att' = [att EXCEPT ![r][made[r]] = Settled(@, status, amount)],
               reserved' = reserved - Maximum, consumed' = consumed + amount,
               worker' = [worker EXCEPT ![w] = AfterReconcile(w)], UNCHANGED run
        PROVE  TypeOK'
    <2>1. att' \in [Runs -> [AttemptNumber -> AttemptRow]]
      BY <1>1, <1>4, <1>6, CurrentType
    <2>2. reserved' \in Nat /\ consumed' \in Nat
      BY <1>3, <1>6 DEF TypeOK
    <2>3. worker' \in [Workers -> Busy \cup {Idle}]
      BY <1>2, <1>6 DEF TypeOK
    <2>. QED
      BY <2>1, <2>2, <2>3, <1>6 DEF TypeOK, operatorVars
  <1>7. CASE /\ IF Current(r).state \in TERMINAL_STATES
                THEN /\ att' = [att EXCEPT ![r][made[r]] = Settled(@, "EXCEEDED", 0)]
                     /\ UNCHANGED run
                ELSE /\ att' = [att EXCEPT ![r][made[r]] =
                                  AppendEvent(Settled(@, "EXCEEDED", 0), "FAILED_INFRA")]
                     /\ run' = [run EXCEPT ![r] = InfraFailedRun(@, made[r])]
             /\ worker' = [worker EXCEPT ![w] = Idle]
             /\ UNCHANGED ledger
    <2>1. Settled(att[r][made[r]], "EXCEEDED", 0) \in AttemptRow
      BY <1>3, <1>4
    <2>2. AppendEvent(Settled(att[r][made[r]], "EXCEEDED", 0), "FAILED_INFRA") \in AttemptRow
      BY <2>1, AppendEventType, StatesInType
    <2>3. InfraFailedRun(run[r], made[r]) \in RunRow
      BY <1>1, InfraFailedRunType, CurrentType
    <2>4. att' \in [Runs -> [AttemptNumber -> AttemptRow]]
      BY <1>1, <1>7, <2>1, <2>2, CurrentType
    <2>5. run' \in [Runs -> RunRow]
      BY <1>1, <1>7, <2>3, CurrentType DEF TypeOK
    <2>6. worker' \in [Workers -> Busy \cup {Idle}]
      BY <1>7 DEF TypeOK
    <2>. QED
      BY <1>7, <2>4, <2>5, <2>6 DEF TypeOK, operatorVars, ledger
  <1>. QED
    BY <1>3, <1>5, <1>6, <1>7 DEF Reconcile, r

\* Every outcome of finish_run names a run status and a terminal state.
LEMMA OutcomeTables ==
  ASSUME NEW outcome \in StatisticalOutcome
  PROVE  /\ TERMINAL_STATUS_BY_OUTCOME[outcome] \in TERMINAL_STATUSES
         /\ LifecycleTerminalByOutcome[outcome] \in
              {"COMPLETED", "FAILED_CAPABILITY", "FAILED_INFRA", "CANCELLED"}
  <1>1. /\ TERMINAL_STATUS_BY_OUTCOME[outcome] \in
             {"COMPLETED", "FAILED_SUBJECT", "FAILED_INFRA", "CANCELLED"}
    BY DEF TERMINAL_STATUS_BY_OUTCOME, StatisticalOutcome
  <1>2. \A s \in {"COMPLETED", "FAILED_SUBJECT", "FAILED_INFRA", "CANCELLED"} :
           /\ s \in RunStatus /\ s \in TERMINAL_STATUSES
           /\ LifecycleOfStatus[s] \in
                {"COMPLETED", "FAILED_CAPABILITY", "FAILED_INFRA", "CANCELLED"}
    BY DEF LifecycleOfStatus, RunStatus, ACTIVE_STATUSES, TERMINAL_STATUSES
  <1>. QED
    BY <1>1, <1>2 DEF LifecycleTerminalByOutcome

LEMMA FinishOutcomesType ==
  ASSUME NEW w \in Workers, NEW outcome \in FinishOutcomes(w)
  PROVE  outcome \in StatisticalOutcome
  BY DEF FinishOutcomes, StatisticalOutcome

LEMMA FinishRunKeepsType ==
  ASSUME TypeOK, NEW w \in Workers, FinishRun(w)
  PROVE  TypeOK'
  <1> DEFINE r == worker[w].run
  <1>1. worker[w] \in Busy /\ r \in Runs
    BY BusyType DEF FinishRun
  <1>2. UNCHANGED <<operatorVars, made, ledger>>
    BY DEF FinishRun
  <1>3. ASSUME NEW outcome \in FinishOutcomes(w),
               run' = [run EXCEPT ![r] = FinishedRun(@, made[r], outcome)],
               att' = [att EXCEPT ![r][made[r]] =
                        AppendEvent(@, LifecycleTerminalByOutcome[outcome])],
               worker' = [worker EXCEPT ![w] = Idle]
        PROVE  TypeOK'
    <2>1. /\ outcome \in StatisticalOutcome
          /\ TERMINAL_STATUS_BY_OUTCOME[outcome] \in RunStatus
          /\ LifecycleTerminalByOutcome[outcome] \in LifecycleState
      BY FinishOutcomesType, OutcomeTables DEF RunStatus, LifecycleState
    <2>2. run[r] \in RunRow /\ LeaseCleared(run[r]) \in RunRow
      BY <1>1, LeaseClearedType, CurrentType
    <2>3. FinishedRun(run[r], made[r], outcome) \in RunRow
      BY <2>1, <2>2 DEF FinishedRun, RunRow
    <2>4. run' \in [Runs -> RunRow]
      BY <1>1, <1>3, <2>3, CurrentType
    <2>5. AppendEvent(att[r][made[r]], LifecycleTerminalByOutcome[outcome]) \in AttemptRow
      BY <1>1, <2>1, AppendEventType, CurrentType
    <2>6. att' \in [Runs -> [AttemptNumber -> AttemptRow]]
      BY <1>1, <1>3, <2>5, CurrentType
    <2>. QED
      BY <1>2, <1>3, <2>4, <2>6 DEF TypeOK, operatorVars, ledger
  <1>4. CASE Raise(w)
    BY <1>2, <1>4, RaiseType DEF TypeOK, operatorVars, ledger
  <1>. QED
    BY <1>3, <1>4 DEF FinishRun

LEMMA ExecuteKeepsType ==
  ASSUME TypeOK, NEW w \in Workers, Execute(w)
  PROVE  TypeOK'
  <1>1. CASE Prepare(w) \/ Start(w) \/ Verify(w) \/ Score(w)
    BY <1>1, TransitionRunKeepsType
       DEF Prepare, Start, Verify, Score, WorkerStep
  <1>2. CASE Dispatched(w)
    <2>1. worker[w] \in Busy
      BY <1>2, BusyType DEF Dispatched
    <2>2. \A result \in {"lane", "error"}, pc \in {"dispatched", "ended"} :
            [worker[w] EXCEPT !.pc = pc, !.beat = "ok", !.result = result] \in Busy
      BY <2>1 DEF Busy, WorkerStep
    <2>3. worker' \in [Workers -> Busy \cup {Idle}]
      <3>1. PICK result \in {"lane", "error"} :
              worker' = [worker EXCEPT ![w] =
                     [@ EXCEPT !.pc = IF worker[w].beat = "ok" THEN "dispatched" ELSE "ended",
                               !.beat = "ok", !.result = result]]
        BY <1>2 DEF Dispatched
      <3>. QED
        BY <2>2, <3>1 DEF TypeOK
    <2>. QED
      BY <1>2, <2>3 DEF Dispatched, TypeOK, operatorVars, ledger
  <1>3. CASE Inspect(w)
    <2>1. worker[w] \in Busy
      BY <1>3, BusyType DEF Inspect
    <2>2. [worker[w] EXCEPT !.pc = "interrupted"] \in Busy
      BY <2>1 DEF Busy, WorkerStep
    <2>. QED
      BY <1>3, <2>2 DEF Inspect, TypeOK, operatorVars, ledger
  <1>4. CASE ReconcileTerminal(w)
    <2>1. CASE Reconcile(w)
      BY <1>4, <2>1, ReconcileKeepsType DEF ReconcileTerminal
    <2>2. CASE Raise(w) /\ UNCHANGED ledger
      BY <1>4, <2>2, RaiseType DEF ReconcileTerminal, TypeOK, operatorVars, ledger
    <2>. QED
      BY <1>4, <2>1, <2>2 DEF ReconcileTerminal
  <1>5. CASE FinishRun(w)
    BY <1>5, FinishRunKeepsType
  <1>. QED
    BY <1>1, <1>2, <1>3, <1>4, <1>5 DEF Execute

LEMMA CrashKeepsType ==
  ASSUME TypeOK, NEW w \in Workers, Crash(w)
  PROVE  TypeOK'
  BY DEF Crash, TypeOK, operatorVars, ledger

LEMMA TickKeepsType ==
  ASSUME TypeOK, Tick
  PROVE  TypeOK'
  <1>1. ASSUME NEW r \in Runs, run[r].lease > 0
        PROVE  [run[r] EXCEPT !.lease = @ - 1] \in RunRow
    <2>1. run[r] \in RunRow /\ run[r].lease \in 0 .. TTL
      BY CurrentType DEF RunRow
    <2>2. run[r].lease - 1 \in 0 .. TTL
      BY <1>1, <2>1, ParameterAssumption
    <2>. QED
      BY <2>1, <2>2 DEF RunRow
  <1>2. run' \in [Runs -> RunRow]
    BY <1>1 DEF Tick, TypeOK
  <1>. QED
    BY <1>2 DEF Tick, TypeOK, operatorVars, ledger

LEMMA RetryKeepsType ==
  ASSUME TypeOK, NEW slots \in SUBSET Runs, RetryInfraSelected(slots)
  PROVE  TypeOK'
  <1>1. \A r \in Runs : made[r] \in 1 .. (MaxRecovery + 1) /\ run[r] \in RunRow
    BY DEF TypeOK, AttemptNumber
  <1>2. \A r \in slots : made[r] + 1 \in AttemptNumber
    <2>1. \A n \in 1 .. (MaxRecovery + 1) : n - 1 < MaxRecovery => n + 1 \in AttemptNumber
      BY ParameterAssumption DEF AttemptNumber
    <2>2. \A r \in slots : made[r] - 1 < MaxRecovery
      BY DEF RetryInfraSelected
    <2>. QED
      BY <1>1, <2>1, <2>2
  <1>3. made' \in [Runs -> AttemptNumber]
    BY <1>1, <1>2 DEF RetryInfraSelected, AttemptNumber
  <1>4. \A r \in slots : RequeuedRun(run[r], made[r]) \in RunRow
    <2>1. \A r \in slots : LeaseCleared(run[r]) \in RunRow /\ made[r] \in 0 .. (MaxRecovery + 1)
      BY <1>1, LeaseClearedType
    <2>. QED
      BY <2>1 DEF RequeuedRun, RunRow, RunStatus
  <1>5. run' \in [Runs -> RunRow]
    BY <1>1, <1>4 DEF RetryInfraSelected
  <1>. QED
    BY <1>3, <1>5 DEF RetryInfraSelected, TypeOK, ledger

LEMMA NoCancelType ==
  NoCancel \in [open : BOOLEAN, slots : SUBSET Runs, seen : [Runs -> LifecycleState]]
  BY DEF NoCancel, LifecycleState

\* Committing a CANCEL, whatever it read.
LEMMA ApplyCancelKeepsType ==
  ASSUME TypeOK, NEW slots \in SUBSET Runs, NEW seen \in [Runs -> LifecycleState],
         ApplyCancel(slots, seen), cancel' \in {cancel, NoCancel}
  PROVE  TypeOK'
  <1>1. \A r \in Runs : /\ run[r] \in RunRow /\ att[r] \in [AttemptNumber -> AttemptRow]
                        /\ made[r] \in AttemptNumber
    BY DEF TypeOK
  <1>2. \A r \in Runs :
          /\ [run[r] EXCEPT !.status = "CANCELLED"] \in RunRow
          /\ [run[r] EXCEPT !.cancellation_requested = TRUE] \in RunRow
    BY <1>1 DEF RunRow, RunStatus, TERMINAL_STATUSES
  <1>3. \A r \in Runs : AppendFrom(att[r][made[r]], seen[r], "CANCELLED") \in AttemptRow
    BY <1>1, AppendFromType, StatesInType
  <1>4. run' \in [Runs -> RunRow]
    BY <1>1, <1>2 DEF ApplyCancel
  <1>5. att' \in [Runs -> [AttemptNumber -> AttemptRow]]
    BY <1>1, <1>3 DEF ApplyCancel
  <1>6. cancel' \in [open : BOOLEAN, slots : SUBSET Runs, seen : [Runs -> LifecycleState]]
    BY NoCancelType DEF TypeOK
  <1>7. control' \in {"ACTIVE", "PAUSED", "CANCELLED"} /\ lastControl' = "CANCEL"
    BY DEF ApplyCancel, TypeOK
  <1>. QED
    BY <1>4, <1>5, <1>6, <1>7 DEF ApplyCancel, TypeOK, ledger

LEMMA SeenType ==
  ASSUME TypeOK
  PROVE  Seen \in [Runs -> LifecycleState]
  BY CurrentType DEF Seen, AttemptRow

LEMMA RequestRunCancellationKeepsType ==
  ASSUME TypeOK, NEW r \in Runs, RequestRunCancellation(r)
  PROVE  TypeOK'
  <1>1. /\ CancelledRun(run[r]) \in RunRow /\ run[r] \in RunRow
    BY CancelledRunType, CurrentType
  <1>2. /\ [CancelledRun(run[r]) EXCEPT !.cancellation_requested = TRUE] \in RunRow
        /\ [run[r] EXCEPT !.cancellation_requested = TRUE] \in RunRow
    BY <1>1 DEF RunRow
  <1>3. AppendEvent(att[r][made[r]], "CANCELLED") \in AttemptRow
    BY AppendEventType, StatesInType, CurrentType
  <1>4. run' \in [Runs -> RunRow]
    <2>1. \/ run' = [run EXCEPT ![r] =
                       [CancelledRun(run[r]) EXCEPT !.cancellation_requested = TRUE]]
          \/ run' = [run EXCEPT ![r] = [run[r] EXCEPT !.cancellation_requested = TRUE]]
      BY DEF RequestRunCancellation, TypeOK
    <2>. QED
      BY <1>2, <2>1, CurrentType
  <1>5. att' \in [Runs -> [AttemptNumber -> AttemptRow]]
    <2>1. \/ att' = [att EXCEPT ![r][made[r]] = AppendEvent(att[r][made[r]], "CANCELLED")]
          \/ att' = att
      BY DEF RequestRunCancellation
    <2>2. att \in [Runs -> [AttemptNumber -> AttemptRow]]
      BY DEF TypeOK
    <2>. QED
      BY <1>3, <2>1, <2>2, CurrentType
  <1>. QED
    BY <1>4, <1>5 DEF RequestRunCancellation, TypeOK, operatorVars, ledger

LEMMA OperatorKeepsType ==
  ASSUME TypeOK, Operator
  PROVE  TypeOK'
  <1>1. CASE Pause
    BY <1>1 DEF Pause, TypeOK, ledger
  <1>2. CASE Resume
    BY <1>2 DEF Resume, TypeOK, ledger
  <1>3. CASE RunRemaining
    BY <1>3 DEF RunRemaining, TypeOK, ledger
  <1>4. ASSUME NEW slots \in SUBSET Runs, RetryInfraSelected(slots)
        PROVE  TypeOK'
    BY <1>4, RetryKeepsType
  <1>5. ASSUME NEW slots \in SUBSET Runs, IssueCancel(slots)
        PROVE  TypeOK'
    BY <1>5, ApplyCancelKeepsType, SeenType DEF IssueCancel
  <1>6. ASSUME NEW slots \in SUBSET Runs, ReadCancel(slots)
        PROVE  TypeOK'
    BY <1>6, SeenType DEF ReadCancel, TypeOK, ledger
  <1>7. CASE CommitCancel
    <2>1. cancel.slots \in SUBSET Runs /\ cancel.seen \in [Runs -> LifecycleState]
      BY DEF TypeOK
    <2>. QED
      BY <1>7, <2>1, ApplyCancelKeepsType DEF CommitCancel
  <1>8. CASE RollBackCancel
    BY <1>8, NoCancelType DEF RollBackCancel, TypeOK, ledger
  <1>9. ASSUME NEW r \in Runs, RequestRunCancellation(r)
        PROVE  TypeOK'
    BY <1>9, RequestRunCancellationKeepsType
  <1>. QED
    BY <1>1, <1>2, <1>3, <1>4, <1>5, <1>6, <1>7, <1>8, <1>9 DEF Operator

LEMMA InitTypeOK == Init => TypeOK
  <1>. SUFFICES ASSUME Init PROVE TypeOK
    OBVIOUS
  <1>. USE ParameterAssumption
  <1>1. run \in [Runs -> RunRow]
    BY DEF Init, RunRow, RunStatus, LeaseOwner
  <1>2. made \in [Runs -> AttemptNumber]
    BY DEF Init, AttemptNumber
  <1>3. NewAttempt \in AttemptRow
    BY DEF NewAttempt, AttemptRow, LifecycleState
  <1>4. att \in [Runs -> [AttemptNumber -> AttemptRow]]
    BY <1>3 DEF Init
  <1>5. cancel \in [open : BOOLEAN, slots : SUBSET Runs, seen : [Runs -> LifecycleState]]
    BY NoCancelType DEF Init
  <1>. QED
    BY <1>1, <1>2, <1>4, <1>5 DEF Init, TypeOK

LEMMA NextKeepsType == TypeOK /\ [Next]_vars => TypeOK'
  <1>. SUFFICES ASSUME TypeOK, [Next]_vars PROVE TypeOK'
    OBVIOUS
  <1>1. ASSUME NEW w \in Workers, ClaimAuthoritativeRun(w) PROVE TypeOK'
    BY <1>1, ClaimKeepsType
  <1>2. ASSUME NEW w \in Workers, Execute(w) PROVE TypeOK'
    BY <1>2, ExecuteKeepsType
  <1>3. ASSUME NEW w \in Workers, Heartbeat(w) PROVE TypeOK'
    BY <1>3, HeartbeatKeepsType
  <1>4. ASSUME NEW w \in Workers, Crash(w) PROVE TypeOK'
    BY <1>4, CrashKeepsType
  <1>5. CASE Tick
    BY <1>5, TickKeepsType
  <1>6. CASE Operator
    BY <1>6, OperatorKeepsType
  <1>7. CASE UNCHANGED vars
    BY <1>7 DEF vars, TypeOK
  <1>. QED
    BY <1>1, <1>2, <1>3, <1>4, <1>5, <1>6, <1>7 DEF Next

\* Every reachable state of the experiment is well typed, for any number of
\* runs, workers, recoveries and any lease length: the rows hold only states
\* of the two vocabularies, an attempt number never passes the recovery
\* limit, and the ledger totals are never negative.
THEOREM TypeCorrect == Spec => []TypeOK
  BY InitTypeOK, NextKeepsType, PTL DEF Spec

-----------------------------------------------------------------------------
(* The budget. *)

\* A worker step outside reconciliation does not touch the ledger.
LEMMA LedgerUntouched ==
  ASSUME NEW w \in Workers,
         \/ Prepare(w) \/ Start(w) \/ Verify(w) \/ Score(w) \/ Dispatched(w)
         \/ Inspect(w) \/ FinishRun(w) \/ Heartbeat(w) \/ Crash(w)
  PROVE  reserved' = reserved /\ consumed' = consumed
  BY DEF Prepare, Start, Verify, Score, TransitionRun, Dispatched, Inspect, FinishRun,
     Heartbeat, Crash, ledger

\* Neither do the clock and the operator.
LEMMA LedgerUntouchedByOperator ==
  ASSUME Tick \/ Operator
  PROVE  reserved' = reserved /\ consumed' = consumed
  BY DEF Tick, Operator, Pause, Resume, RunRemaining, RetryInfraSelected, IssueCancel,
     ReadCancel, CommitCancel, RollBackCancel, ApplyCancel, RequestRunCancellation, ledger

LEMMA ClaimKeepsBudget ==
  ASSUME TypeOK, BudgetWithinCeiling, NEW w \in Workers, ClaimAuthoritativeRun(w)
  PROVE  BudgetWithinCeiling'
  <1>1. /\ reserved \in Nat /\ consumed \in Nat /\ ExpiryCharge \in Nat
        /\ Maximum \in Nat /\ Ceiling \in Nat
    BY ExpiryChargeType, ParameterAssumption DEF TypeOK
  <1>2. consumed' = consumed + ExpiryCharge
    BY DEF ClaimAuthoritativeRun
  <1>3. CASE reserved' = reserved - ExpiryCharge
    BY <1>1, <1>2, <1>3 DEF BudgetWithinCeiling
  <1>4. ASSUME NEW r \in Claimable, Accepted(r),
               reserved' = (reserved - ExpiryCharge) + Maximum
        PROVE  BudgetWithinCeiling'
    <2>1. reserved + consumed + Maximum <= Ceiling
      BY <1>4 DEF Accepted
    <2>. QED
      BY <1>1, <1>2, <1>4, <2>1 DEF BudgetWithinCeiling
  <1>. QED
    BY <1>3, <1>4 DEF ClaimAuthoritativeRun

LEMMA ReconcileKeepsBudget ==
  ASSUME TypeOK, BudgetWithinCeiling, NEW w \in Workers, ReconcileTerminal(w)
  PROVE  BudgetWithinCeiling'
  <1>1. reserved \in Nat /\ consumed \in Nat /\ Maximum \in Nat /\ Ceiling \in Nat
    BY ParameterAssumption DEF TypeOK
  <1>2. \/ UNCHANGED ledger
        \/ /\ reserved' = reserved - Maximum
           /\ \E amount \in 0 .. Maximum : consumed' = consumed + amount
    <2>1. Maximum \in 0 .. Maximum
      BY <1>1
    <2>. QED
      BY <2>1 DEF ReconcileTerminal, Reconcile
  <1>3. CASE UNCHANGED ledger
    BY <1>3 DEF ledger, BudgetWithinCeiling
  <1>4. ASSUME NEW amount \in 0 .. Maximum, reserved' = reserved - Maximum,
               consumed' = consumed + amount
        PROVE  BudgetWithinCeiling'
    BY <1>1, <1>4 DEF BudgetWithinCeiling
  <1>. QED
    BY <1>2, <1>3, <1>4

LEMMA NextKeepsBudget ==
  TypeOK /\ BudgetWithinCeiling /\ [Next]_vars => BudgetWithinCeiling'
  <1>. SUFFICES ASSUME TypeOK, BudgetWithinCeiling, [Next]_vars
                PROVE  BudgetWithinCeiling'
    OBVIOUS
  <1>1. ASSUME NEW w \in Workers, ClaimAuthoritativeRun(w) PROVE BudgetWithinCeiling'
    BY <1>1, ClaimKeepsBudget
  <1>2. ASSUME NEW w \in Workers, Execute(w) \/ Heartbeat(w) \/ Crash(w)
        PROVE  BudgetWithinCeiling'
    <2>1. CASE ReconcileTerminal(w)
      BY <2>1, ReconcileKeepsBudget
    <2>2. CASE ~ReconcileTerminal(w)
      BY <1>2, <2>2, LedgerUntouched DEF Execute, BudgetWithinCeiling
    <2>. QED
      BY <2>1, <2>2
  <1>3. CASE Tick \/ Operator
    BY <1>3, LedgerUntouchedByOperator DEF BudgetWithinCeiling
  <1>4. CASE UNCHANGED vars
    BY <1>4 DEF vars, BudgetWithinCeiling
  <1>. QED
    BY <1>1, <1>2, <1>3, <1>4 DEF Next

\* However many runs, workers, expiries, retries and cancellations there are,
\* what is reserved and what is spent together stay within the frozen ceiling.
\* TypeOK is the strengthening: an expiry or a reconciliation never releases
\* more than is reserved, so no total is negative.
THEOREM BudgetSafe == Spec => []BudgetWithinCeiling
  <1>1. Init => BudgetWithinCeiling
    BY ParameterAssumption DEF Init, BudgetWithinCeiling
  <1>. QED
    BY <1>1, NextKeepsBudget, TypeCorrect, PTL DEF Spec

-----------------------------------------------------------------------------
(* The durable rows implement the immutable ledger.  LedgerMove(r) is one   *)
(* step of slot r in RunLifecycle, read off the rows.                       *)

Stays(r) == \A n \in AttemptNumber : att'[r][n].state = att[r][n].state
MovesTo(r, target) ==
  \A n \in AttemptNumber :
     att'[r][n].state = IF n = made[r] THEN target ELSE att[r][n].state

LedgerMove(r) ==
  \/ made'[r] = made[r] /\ Stays(r)
  \/ /\ made'[r] = made[r]
     /\ \E target \in ALLOWED_TRANSITIONS[Current(r).state] : MovesTo(r, target)
  \/ /\ made'[r] = made[r] + 1 /\ Stays(r)
     /\ Current(r).state = "FAILED_INFRA" /\ made[r] - 1 < MaxRecovery

\* An unfinished attempt may always fail; a queued one may also be withdrawn.
LEMMA MayAlwaysFail ==
  ASSUME NEW s \in LifecycleState \ TERMINAL_STATES
  PROVE  {"FAILED_INFRA", "CANCELLED", "BUDGET_EXHAUSTED"} \subseteq ALLOWED_TRANSITIONS[s]
  BY DEF LifecycleState, TERMINAL_STATES, ALLOWED_TRANSITIONS, Interruptions

\* Replacing the current attempt of one run by a row whose state is the old
\* one or an allowed next one is a move of that slot.
LEMMA ReplacedAttemptMoves ==
  ASSUME TypeOK, NEW r \in Runs, NEW a, made' = made,
         att' = [att EXCEPT ![r][made[r]] = a],
         a.state = Current(r).state \/ a.state \in ALLOWED_TRANSITIONS[Current(r).state]
  PROVE  \A s \in Runs : LedgerMove(s)
  <1>1. att \in [Runs -> [AttemptNumber -> AttemptRow]] /\ made \in [Runs -> AttemptNumber]
    BY DEF TypeOK
  <1>2. \A s \in Runs : s # r => LedgerMove(s)
    BY <1>1 DEF LedgerMove, Stays
  <1>3. MovesTo(r, a.state)
    BY <1>1 DEF MovesTo
  <1>4. a.state = Current(r).state => Stays(r)
    BY <1>1, <1>3 DEF MovesTo, Stays, Current
  <1>. QED
    BY <1>2, <1>3, <1>4 DEF LedgerMove

LEMMA UnchangedAttemptsMove ==
  ASSUME att' = att, made' = made
  PROVE  \A s \in Runs : LedgerMove(s)
  BY DEF LedgerMove, Stays

LEMMA CancelNowMoves ==
  ASSUME TypeOK, NEW r \in Runs, CancelDue(r), CancelNow(r), made' = made
  PROVE  \A s \in Runs : LedgerMove(s)
  <1>1. AppendEvent(att[r][made[r]], "CANCELLED").state = "CANCELLED"
    BY AppendEventType, StatesInType, CurrentType
  <1>. QED
    BY <1>1, ReplacedAttemptMoves DEF CancelDue, CancelNow

LEMMA AdvanceMoves ==
  ASSUME TypeOK, NEW r \in Runs, NEW target, Advance(r, target), made' = made
  PROVE  \A s \in Runs : LedgerMove(s)
  <1>1. CASE target = "SCORING"
    BY <1>1, UnchangedAttemptsMove DEF Advance
  <1>2. CASE target # "SCORING"
    <2>1. target \in LifecycleState
      BY <1>2, TransitionTarget, CurrentType DEF Advance, RunRow
    <2>2. AppendEvent(att[r][made[r]], target).state = target
      BY <2>1, AppendEventType, CurrentType
    <2>3. /\ target \in ALLOWED_TRANSITIONS[Current(r).state]
          /\ att' = [att EXCEPT ![r][made[r]] = AppendEvent(att[r][made[r]], target)]
      BY <1>2 DEF Advance
    <2>. QED
      BY <2>2, <2>3, ReplacedAttemptMoves
  <1>. QED
    BY <1>1, <1>2

LEMMA TransitionRunMoves ==
  ASSUME TypeOK, NEW w \in Workers, NEW pc \in WorkerStep, NEW target, NEW next,
         TransitionRun(w, pc, target, next)
  PROVE  \A s \in Runs : LedgerMove(s)
  <1>1. worker[w].run \in Runs /\ made' = made
    BY BusyType DEF TransitionRun, WorkerStep
  <1>. QED
    BY <1>1, CancelNowMoves, AdvanceMoves, UnchangedAttemptsMove DEF TransitionRun, Raise

LEMMA HeartbeatMoves ==
  ASSUME TypeOK, NEW w \in Workers, Heartbeat(w)
  PROVE  \A s \in Runs : LedgerMove(s)
  <1>1. worker[w].run \in Runs /\ made' = made
    BY BusyType DEF Heartbeat
  <1>. QED
    BY <1>1, CancelNowMoves, UnchangedAttemptsMove DEF Heartbeat

LEMMA ReconcileMoves ==
  ASSUME TypeOK, NEW w \in Workers, ReconcileTerminal(w)
  PROVE  \A s \in Runs : LedgerMove(s)
  <1> DEFINE r == worker[w].run
             a == att[r][made[r]]
  <1>1. r \in Runs /\ made' = made
    BY BusyType DEF ReconcileTerminal
  <1>2. \A status \in {"UNAVAILABLE", "OBSERVED", "EXCEEDED"}, amount \in 0 .. Maximum :
           Settled(a, status, amount) \in AttemptRow /\ Settled(a, status, amount).state = a.state
    BY <1>1, SettledType, CurrentType
  <1>3. Maximum \in 0 .. Maximum /\ 0 \in 0 .. Maximum /\ a = Current(r) /\ a \in AttemptRow
    BY <1>1, CurrentType, ParameterAssumption
  <1>4. a.state \in LifecycleState
    BY <1>3 DEF AttemptRow
  <1>. HIDE DEF r, a
  <1>5. ASSUME NEW status \in {"UNAVAILABLE", "OBSERVED", "EXCEEDED"},
               NEW amount \in 0 .. Maximum,
               att' = [att EXCEPT ![r][made[r]] = Settled(a, status, amount)]
        PROVE  \A s \in Runs : LedgerMove(s)
    BY <1>1, <1>2, <1>3, <1>5, ReplacedAttemptMoves
  <1>6. ASSUME Current(r).state \notin TERMINAL_STATES,
               att' = [att EXCEPT ![r][made[r]] =
                         AppendEvent(Settled(a, "EXCEEDED", 0), "FAILED_INFRA")]
        PROVE  \A s \in Runs : LedgerMove(s)
    <2>1. AppendEvent(Settled(a, "EXCEEDED", 0), "FAILED_INFRA").state = "FAILED_INFRA"
      BY <1>2, <1>3, AppendEventType, StatesInType
    <2>2. "FAILED_INFRA" \in ALLOWED_TRANSITIONS[Current(r).state]
      BY <1>3, <1>4, <1>6, MayAlwaysFail
    <2>. QED
      BY <1>1, <1>6, <2>1, <2>2, ReplacedAttemptMoves
  <1>7. CASE att' = att
    BY <1>1, <1>7, UnchangedAttemptsMove
  <1>. QED
    BY <1>3, <1>5, <1>6, <1>7 DEF ReconcileTerminal, Reconcile, Raise, r, a

LEMMA FinishRunMoves ==
  ASSUME TypeOK, NEW w \in Workers, FinishRun(w)
  PROVE  \A s \in Runs : LedgerMove(s)
  <1> DEFINE r == worker[w].run
  <1>1. r \in Runs /\ made' = made
    BY BusyType DEF FinishRun
  <1>2. CASE Raise(w)
    BY <1>1, <1>2, UnchangedAttemptsMove DEF Raise
  <1>3. ASSUME NEW outcome \in FinishOutcomes(w), MayFinish(w),
               att' = [att EXCEPT ![r][made[r]] =
                         AppendEvent(@, LifecycleTerminalByOutcome[outcome])]
        PROVE  \A s \in Runs : LedgerMove(s)
    <2> DEFINE target == LifecycleTerminalByOutcome[outcome]
    <2>1. target \in {"COMPLETED", "FAILED_CAPABILITY", "FAILED_INFRA", "CANCELLED"}
      BY FinishOutcomesType, OutcomeTables
    <2>2. target \in LifecycleState /\ target \in ALLOWED_TRANSITIONS["VERIFYING"]
      BY <2>1 DEF LifecycleState, ALLOWED_TRANSITIONS, Interruptions
    <2>3. AppendEvent(att[r][made[r]], target).state = target
      BY <1>1, <2>2, AppendEventType, CurrentType
    <2>4. Current(r).state = "VERIFYING"
      BY <1>3 DEF MayFinish
    <2>. HIDE DEF target
    <2>. QED
      BY <1>1, <1>3, <2>2, <2>3, <2>4, ReplacedAttemptMoves DEF target
  <1>. QED
    BY <1>2, <1>3 DEF FinishRun

\* A claim may move several slots: every lost one fails, the picked one stays
\* queued or is denied.
LEMMA ClaimMoves ==
  ASSUME TypeOK, NEW w \in Workers, ClaimAuthoritativeRun(w)
  PROVE  \A s \in Runs : LedgerMove(s)
  <1>1. made' = made
    BY DEF ClaimAuthoritativeRun
  <1>2. /\ att \in [Runs -> [AttemptNumber -> AttemptRow]] /\ made \in [Runs -> AttemptNumber]
        /\ AttAfterExpiry \in [Runs -> [AttemptNumber -> AttemptRow]]
    BY AfterExpiryType DEF TypeOK
  <1>3. ASSUME NEW s \in Lost, att'[s] = AttAfterExpiry[s]
        PROVE  LedgerMove(s)
    <2>1. s \in Runs /\ Current(s).state \notin TERMINAL_STATES
      BY DEF Lost
    <2>2. "FAILED_INFRA" \in ALLOWED_TRANSITIONS[Current(s).state]
      BY <2>1, MayAlwaysFail, CurrentType DEF AttemptRow
    <2>3. ExpiredAttempt(att[s][made[s]]).state = "FAILED_INFRA"
      BY <2>1, ExpiredAttemptType, CurrentType
    <2>4. att'[s] = [att[s] EXCEPT ![made[s]] = ExpiredAttempt(att[s][made[s]])]
      BY <1>3, <2>1 DEF AttAfterExpiry
    <2>5. MovesTo(s, "FAILED_INFRA")
      BY <1>2, <2>1, <2>3, <2>4 DEF MovesTo
    <2>. QED
      BY <1>1, <2>2, <2>5 DEF LedgerMove
  <1>4. ASSUME NEW s \in Runs, s \notin Lost, att'[s] = AttAfterExpiry[s]
        PROVE  LedgerMove(s)
    BY <1>1, <1>4, AfterExpiryType DEF LedgerMove, Stays
  <1>5. ASSUME NEW r \in Claimable,
               att' = [AttAfterExpiry EXCEPT ![r][made[r]] = [@ EXCEPT !.reservation = "ACCEPTED"]]
        PROVE  \A s \in Runs : LedgerMove(s)
    <2>1. r \in Runs /\ made[r] \in AttemptNumber /\ AttAfterExpiry[r] = att[r]
      BY ClaimableNotLost, AfterExpiryType, <1>2
    <2>2. \A s \in Runs : s # r => att'[s] = AttAfterExpiry[s]
      BY <1>2, <1>5
    <2>3. att'[r] = [att[r] EXCEPT ![made[r]] = [att[r][made[r]] EXCEPT !.reservation = "ACCEPTED"]]
      BY <1>2, <1>5, <2>1
    <2>4. att[r][made[r]] \in AttemptRow
      BY <1>2, <2>1
    <2>5. [att[r][made[r]] EXCEPT !.reservation = "ACCEPTED"].state = att[r][made[r]].state
      BY <2>4 DEF AttemptRow
    <2>6. Stays(r)
      BY <1>2, <2>1, <2>3, <2>5 DEF Stays
    <2>. QED
      BY <1>1, <1>3, <1>4, <2>2, <2>6 DEF LedgerMove
  <1>6. ASSUME NEW r \in Claimable,
               att' = [AttAfterExpiry EXCEPT ![r][made[r]] =
                     [AppendEvent(@, "BUDGET_EXHAUSTED") EXCEPT !.reservation = "DENIED"]]
        PROVE  \A s \in Runs : LedgerMove(s)
    <2>1. r \in Runs /\ made[r] \in AttemptNumber /\ AttAfterExpiry[r] = att[r]
      BY ClaimableNotLost, AfterExpiryType, <1>2
    <2>2. \A s \in Runs : s # r => att'[s] = AttAfterExpiry[s]
      BY <1>2, <1>6
    <2> DEFINE b == AppendEvent(att[r][made[r]], "BUDGET_EXHAUSTED")
    <2>3. b \in AttemptRow /\ b.state = "BUDGET_EXHAUSTED"
      BY <1>2, <2>1, AppendEventType, StatesInType
    <2>4. att'[r] = [att[r] EXCEPT ![made[r]] = [b EXCEPT !.reservation = "DENIED"]]
      BY <1>2, <1>6, <2>1
    <2>. HIDE DEF b
    <2>5. [b EXCEPT !.reservation = "DENIED"].state = "BUDGET_EXHAUSTED"
      BY <2>3 DEF AttemptRow
    <2>6. MovesTo(r, "BUDGET_EXHAUSTED")
      BY <1>2, <2>1, <2>4, <2>5 DEF MovesTo
    <2>7. "BUDGET_EXHAUSTED" \in ALLOWED_TRANSITIONS[Current(r).state]
      <3>1. Current(r).state = "QUEUED"
        BY DEF Claimable
      <3>. QED
        BY <3>1, MayAlwaysFail DEF LifecycleState, TERMINAL_STATES
    <2>8. LedgerMove(r)
      BY <1>1, <2>6, <2>7 DEF LedgerMove
    <2>. QED
      BY <1>3, <1>4, <2>2, <2>8
  <1>7. CASE att' = AttAfterExpiry
    BY <1>3, <1>4, <1>7
  <1>. QED
    BY <1>5, <1>6, <1>7 DEF ClaimAuthoritativeRun

\* A CANCEL withdraws only attempts that it may withdraw or has already.
LEMMA ApplyCancelMoves ==
  ASSUME TypeOK, NEW slots \in SUBSET Runs, NEW seen, ApplyCancel(slots, seen)
  PROVE  \A s \in Runs : LedgerMove(s)
  <1>1. made' = made
    BY DEF ApplyCancel
  <1>. SUFFICES ASSUME NEW s \in Runs PROVE LedgerMove(s)
    OBVIOUS
  <1>2. /\ att[s] \in [AttemptNumber -> AttemptRow] /\ made[s] \in AttemptNumber
        /\ Current(s) = att[s][made[s]] /\ Current(s) \in AttemptRow
    BY CurrentType DEF TypeOK
  <1>3. CASE att'[s] = att[s]
    BY <1>1, <1>3 DEF LedgerMove, Stays
  <1>4. CASE /\ Current(s).state \in {"QUEUED", "PREPARING", "CANCELLED"}
             /\ att'[s] = [att[s] EXCEPT ![made[s]] = AppendFrom(@, seen[s], "CANCELLED")]
    <2>1. AppendFrom(att[s][made[s]], seen[s], "CANCELLED").state = "CANCELLED"
      BY <1>2, AppendFromType, StatesInType
    <2>2. MovesTo(s, "CANCELLED")
      BY <1>2, <1>4, <2>1 DEF MovesTo
    <2>3. CASE Current(s).state = "CANCELLED"
      BY <1>1, <1>2, <2>2, <2>3 DEF LedgerMove, MovesTo, Stays
    <2>4. CASE Current(s).state # "CANCELLED"
      <3>1. "CANCELLED" \in ALLOWED_TRANSITIONS[Current(s).state]
        BY <1>4, <2>4, MayAlwaysFail DEF LifecycleState, TERMINAL_STATES
      <3>. QED
        BY <1>1, <2>2, <3>1 DEF LedgerMove
    <2>. QED
      BY <2>3, <2>4
  <1>. QED
    BY <1>3, <1>4 DEF ApplyCancel

LEMMA OperatorMoves ==
  ASSUME TypeOK, Operator
  PROVE  \A s \in Runs : LedgerMove(s)
  <1>1. CASE Pause \/ Resume \/ RunRemaining \/ RollBackCancel
    BY <1>1, UnchangedAttemptsMove DEF Pause, Resume, RunRemaining, RollBackCancel
  <1>2. ASSUME NEW slots \in SUBSET Runs, RetryInfraSelected(slots)
        PROVE  \A s \in Runs : LedgerMove(s)
    BY <1>2 DEF RetryInfraSelected, LedgerMove, Stays
  <1>3. ASSUME NEW slots \in SUBSET Runs, IssueCancel(slots)
        PROVE  \A s \in Runs : LedgerMove(s)
    BY <1>3, ApplyCancelMoves DEF IssueCancel
  <1>4. ASSUME NEW slots \in SUBSET Runs, ReadCancel(slots)
        PROVE  \A s \in Runs : LedgerMove(s)
    BY <1>4, UnchangedAttemptsMove DEF ReadCancel
  <1>5. CASE CommitCancel
    <2>1. cancel.slots \in SUBSET Runs
      BY DEF TypeOK
    <2>. QED
      BY <1>5, <2>1, ApplyCancelMoves DEF CommitCancel
  <1>6. ASSUME NEW r \in Runs, RequestRunCancellation(r)
        PROVE  \A s \in Runs : LedgerMove(s)
    <2>1. made' = made
      BY <1>6 DEF RequestRunCancellation
    <2>2. AppendEvent(att[r][made[r]], "CANCELLED").state = "CANCELLED"
      BY AppendEventType, StatesInType, CurrentType
    <2>3. \/ att' = att
          \/ /\ "CANCELLED" \in ALLOWED_TRANSITIONS[Current(r).state]
             /\ att' = [att EXCEPT ![r][made[r]] = AppendEvent(att[r][made[r]], "CANCELLED")]
      BY <1>6 DEF RequestRunCancellation
    <2>. QED
      BY <2>1, <2>2, <2>3, ReplacedAttemptMoves, UnchangedAttemptsMove
  <1>. QED
    BY <1>1, <1>2, <1>3, <1>4, <1>5, <1>6 DEF Operator

\* Every transaction moves every slot by at most one step of the ledger.
LEMMA NextMoves ==
  TypeOK /\ [Next]_vars => \A s \in Runs : LedgerMove(s)
  <1>. SUFFICES ASSUME TypeOK, [Next]_vars PROVE \A s \in Runs : LedgerMove(s)
    OBVIOUS
  <1>1. ASSUME NEW w \in Workers, ClaimAuthoritativeRun(w)
        PROVE  \A s \in Runs : LedgerMove(s)
    BY <1>1, ClaimMoves
  <1>2. ASSUME NEW w \in Workers, Execute(w)
        PROVE  \A s \in Runs : LedgerMove(s)
    <2>1. CASE Prepare(w) \/ Start(w) \/ Verify(w) \/ Score(w)
      BY <2>1, TransitionRunMoves DEF Prepare, Start, Verify, Score, WorkerStep
    <2>2. CASE Dispatched(w) \/ Inspect(w)
      BY <2>2, UnchangedAttemptsMove DEF Dispatched, Inspect
    <2>3. CASE ReconcileTerminal(w)
      BY <2>3, ReconcileMoves
    <2>4. CASE FinishRun(w)
      BY <2>4, FinishRunMoves
    <2>. QED
      BY <1>2, <2>1, <2>2, <2>3, <2>4 DEF Execute
  <1>3. ASSUME NEW w \in Workers, Heartbeat(w)
        PROVE  \A s \in Runs : LedgerMove(s)
    BY <1>3, HeartbeatMoves
  <1>4. CASE (\E w \in Workers : Crash(w)) \/ Tick \/ UNCHANGED vars
    BY <1>4, UnchangedAttemptsMove DEF Crash, Tick, vars
  <1>5. CASE Operator
    BY <1>5, OperatorMoves
  <1>. QED
    BY <1>1, <1>2, <1>3, <1>4, <1>5 DEF Next

\* The tables of the ledger are those of the rows.
LEMMA SameTables ==
  /\ RunLedger!ALLOWED_TRANSITIONS = ALLOWED_TRANSITIONS
  /\ RunLedger!AttemptNumber = AttemptNumber
  BY DEF RunLedger!ALLOWED_TRANSITIONS, ALLOWED_TRANSITIONS, RunLedger!LifecycleState,
     LifecycleState, RunLedger!Interruptions, Interruptions, RunLedger!AttemptNumber,
     AttemptNumber

LEMMA MovesRefine ==
  ASSUME TypeOK, TypeOK', \A s \in Runs : LedgerMove(s)
  PROVE  RunLedger!Next
  <1> DEFINE state == [r \in Runs |-> [n \in AttemptNumber |-> att[r][n].state]]
  <1>. SUFFICES ASSUME NEW s \in Runs
                PROVE  \/ RunLedger!Transition(s)
                       \/ RunLedger!RecoverInfrastructureFailure(s)
                       \/ RunLedger!Unchanged(s)
    BY DEF RunLedger!Next
  <1>1. /\ made[s] \in AttemptNumber /\ Current(s) = att[s][made[s]]
        /\ state[s] = [n \in AttemptNumber |-> att[s][n].state]
        /\ state'[s] = [n \in AttemptNumber |-> att'[s][n].state]
        /\ state[s][made[s]] = Current(s).state
    BY CurrentType
  <1>2. CASE made'[s] = made[s] /\ Stays(s)
    <2>1. state'[s] = state[s]
      BY <1>1, <1>2 DEF Stays
    <2>. QED
      BY <1>2, <2>1 DEF RunLedger!Unchanged
  <1>3. ASSUME made'[s] = made[s],
               NEW target \in ALLOWED_TRANSITIONS[Current(s).state], MovesTo(s, target)
        PROVE  RunLedger!Transition(s)
    <2>1. state'[s] = [state[s] EXCEPT ![made[s]] = target]
      BY <1>1, <1>3 DEF MovesTo
    <2>. QED
      BY <1>1, <1>3, <2>1, SameTables DEF RunLedger!Transition
  <1>4. CASE /\ made'[s] = made[s] + 1 /\ Stays(s)
             /\ Current(s).state = "FAILED_INFRA" /\ made[s] - 1 < MaxRecovery
    <2>1. state'[s] = state[s]
      BY <1>1, <1>4 DEF Stays
    <2>. QED
      BY <1>1, <1>4, <2>1 DEF RunLedger!RecoverInfrastructureFailure
  <1>. QED
    BY <1>2, <1>3, <1>4 DEF LedgerMove

\* The durable rows, written by many workers and an operator whose CANCEL acts
\* on what it read earlier, implement the immutable RunLifecycle ledger: each
\* transaction takes every slot along ALLOWED_TRANSITIONS or into a recovery
\* of a FAILED_INFRA attempt, and never touches an earlier attempt.
THEOREM RowsImplementLedger == Spec => ImplementsRunLifecycle
  <1>1. Init => RunLedger!Init
    BY ParameterAssumption, SameTables
       DEF Init, NewAttempt, RunLedger!Init, AttemptNumber, RunLedger!AttemptNumber
  <1>2. TypeOK /\ TypeOK' /\ [Next]_vars => [RunLedger!Next]_(RunLedger!vars)
    BY NextMoves, MovesRefine
  <1>. QED
    BY <1>1, <1>2, TypeCorrect, PTL DEF Spec, ImplementsRunLifecycle, RunLedger!Spec
-----------------------------------------------------------------------------
(* The rows and the coroutines: one inductive invariant, relating the run    *)
(* row, its attempts, what each coroutine knows of them, and what an open    *)
(* CANCEL has read.                                                          *)

Agree(status, state) ==
  IF status = "CLAIMED" THEN state = "QUEUED" ELSE LifecycleOfStatus[status] = state

\* An attempt that failed for an infrastructure reason holds no open reservation,
\* and evidence was settled from a lane result.
AttemptOK(a) ==
  /\ a.state = "FAILED_INFRA" /\ a.reservation = "ACCEPTED" => a.reconciliation # "NONE"
  /\ a.state \in {"COMPLETED", "FAILED_CAPABILITY"} => a.reconciliation = "OBSERVED"

\* A run row and its attempt n, the current one.
RowOK(row, a, n) ==
  /\ Agree(row.status, a.state)
  /\ row.status = "QUEUED" => a.reservation = "NONE" /\ a.reconciliation = "NONE"
  /\ row.status \in ACTIVE_STATUSES \ {"SCORING"}
       => a.reservation = "ACCEPTED" /\ a.reconciliation = "NONE"
  /\ row.status \in ACTIVE_STATUSES => row.attempt = n
  /\ row.attempt <= n
  /\ AttemptOK(a)

\* Earlier attempts failed for an infrastructure reason, later ones are not made.
HistoryOK(r) ==
  \A n \in AttemptNumber :
     /\ n < made[r] => att[r][n].state = "FAILED_INFRA" /\ AttemptOK(att[r][n])
     /\ n > made[r] => att[r][n] = NewAttempt

SlotOK(r) == RowOK(run[r], att[r][made[r]], made[r]) /\ HistoryOK(r)
SlotInv == \A r \in Runs : SlotOK(r)

\* What a coroutine v knows about the row of its run, which has n attempts, and
\* about how its own attempt was settled.
Worked == {"dispatched", "verified", "scored", "reconciled"}
Knows(v, row, n, settled) ==
  /\ v.attempt <= n
  /\ row.status = "QUEUED" => v.attempt < n
  /\ row.status \in ACTIVE_STATUSES /\ row.attempt = v.attempt
       => v.pc \notin {"cancelled", "interrupted"} /\ row.status = StatusOfStep[v.pc]
  /\ v.pc \in Worked => v.result # "none"
  /\ v.pc = "reconciled" /\ v.result = "lane" => settled = "OBSERVED"

WorkerInv ==
  \A w \in Workers : worker[w] # Idle =>
     Knows(worker[w], run[worker[w].run], made[worker[w].run],
           att[worker[w].run][worker[w].attempt].reconciliation)

\* No two coroutines hold the same attempt.
OneCoroutine ==
  \A v, w \in Workers :
     worker[v] # Idle /\ worker[w] # Idle /\ worker[v].run = worker[w].run
       /\ worker[v].attempt = worker[w].attempt => v = w

\* What an open CANCEL has read is outdated in one direction only.
CancelInv ==
  cancel.open => \A r \in Runs :
    /\ cancel.seen[r] \in TERMINAL_STATES => Current(r).state \in TERMINAL_STATES
    /\ cancel.seen[r] # "QUEUED" => Current(r).state # "QUEUED"

(* What one transaction may do to one run: its row, row2 afterwards, and its *)
(* current attempt, a before and b afterwards.                               *)

Keeps(row, row2, a, b) ==
  row2.status = row.status /\ row2.attempt = row.attempt /\ b = a

Ends(row, row2, a, b) ==
  /\ row2.attempt = row.attempt /\ row2.status \in TERMINAL_STATUSES
  /\ Agree(row2.status, b.state) /\ AttemptOK(b)
  /\ a.reconciliation = "OBSERVED" => b.reconciliation = "OBSERVED"

Claims(row, row2, a, b, n) ==
  /\ row.status = "QUEUED" /\ row2.status = "CLAIMED" /\ row2.attempt = n
  /\ b.state = a.state
  /\ b.reservation = "ACCEPTED" /\ b.reconciliation = a.reconciliation

Advances(row, row2, a, b) ==
  /\ row2.attempt = row.attempt /\ row2.status \in TRANSITIONS[row.status]
  /\ Agree(row2.status, b.state)
  /\ b.reservation = a.reservation /\ b.reconciliation = a.reconciliation

Settles(row, row2, a, b) ==
  /\ row2.status = row.status /\ row2.attempt = row.attempt
  /\ row.status \notin (ACTIVE_STATUSES \ {"SCORING"}) \cup {"QUEUED"}
  /\ b.state = a.state /\ b.reservation = a.reservation
  /\ a.reconciliation = "NONE" /\ b.reconciliation # "NONE"

Retried(r) ==
  /\ made'[r] = made[r] + 1 /\ att'[r] = att[r]
  /\ att[r][made[r]].state = "FAILED_INFRA"
  /\ run'[r].status = "QUEUED" /\ run'[r].attempt = made[r]

EarlierKept(r) ==
  made'[r] = made[r] /\ \A n \in AttemptNumber : n # made[r] => att'[r][n] = att[r][n]

Advancing(r) == Advances(run[r], run'[r], att[r][made[r]], att'[r][made[r]])
Claiming(r) == Claims(run[r], run'[r], att[r][made[r]], att'[r][made[r]], made[r])

\* Every move but an advance.
Moved(r) ==
  \/ Retried(r)
  \/ /\ EarlierKept(r)
     /\ \/ Keeps(run[r], run'[r], att[r][made[r]], att'[r][made[r]])
        \/ Ends(run[r], run'[r], att[r][made[r]], att'[r][made[r]])
        \/ Claiming(r)
        \/ Settles(run[r], run'[r], att[r][made[r]], att'[r][made[r]])

SlotStep(r) == Moved(r) \/ (EarlierKept(r) /\ Advancing(r))

-----------------------------------------------------------------------------
\* The moves keep a row and its current attempt in agreement.
LEMMA MoveKeepsRow ==
  ASSUME NEW row \in RunRow, NEW row2 \in RunRow, NEW a \in AttemptRow, NEW b \in AttemptRow,
         NEW n \in AttemptNumber, RowOK(row, a, n),
         \/ Keeps(row, row2, a, b) \/ Ends(row, row2, a, b) \/ Claims(row, row2, a, b, n)
         \/ Advances(row, row2, a, b) \/ Settles(row, row2, a, b)
  PROVE  RowOK(row2, b, n)
  <1>0. /\ row.status \in RunStatus /\ row2.status \in RunStatus
        /\ row.attempt \in Int /\ row2.attempt \in Int /\ n \in Int
    BY ParameterAssumption DEF RunRow, AttemptNumber
  <1>1. CASE Keeps(row, row2, a, b)
    BY <1>1 DEF Keeps, RowOK
  <1>2. CASE Ends(row, row2, a, b)
    BY <1>0, <1>2 DEF Ends, RowOK, TERMINAL_STATUSES, ACTIVE_STATUSES
  <1>3. CASE Claims(row, row2, a, b, n)
    BY <1>0, <1>3 DEF Claims, RowOK, Agree, AttemptOK, ACTIVE_STATUSES, LifecycleOfStatus, RunStatus
  <1>4. CASE Advances(row, row2, a, b)
    <2>1. row.status \in ACTIVE_STATUSES \ {"SCORING"} /\ row2.status \in ACTIVE_STATUSES
      BY <1>0, <1>4 DEF Advances, TRANSITIONS, RunStatus, ACTIVE_STATUSES, TERMINAL_STATUSES
    <2>2. b.state \in {"QUEUED", "PREPARING", "RUNNING", "VERIFYING"}
      BY <1>0, <1>4, <2>1 DEF Advances, Agree, LifecycleOfStatus, ACTIVE_STATUSES
    <2>3. row2.status # "QUEUED"
      BY <2>1 DEF ACTIVE_STATUSES
    <2>. QED
      BY <1>0, <1>4, <2>1, <2>2, <2>3 DEF Advances, RowOK, AttemptOK
  <1>5. CASE Settles(row, row2, a, b)
    <2>1. AttemptOK(b)
      BY <1>5 DEF Settles, RowOK, AttemptOK
    <2>. QED
      BY <1>0, <1>5, <2>1 DEF Settles, RowOK
  <1>. QED
    BY <1>1, <1>2, <1>3, <1>4, <1>5

LEMMA StepKeepsSlot ==
  ASSUME TypeOK, TypeOK', NEW r \in Runs, SlotOK(r), SlotStep(r)
  PROVE  SlotOK(r)'
  <1>1. /\ run[r] \in RunRow /\ run'[r] \in RunRow /\ made[r] \in AttemptNumber
        /\ made'[r] \in AttemptNumber
        /\ att[r] \in [AttemptNumber -> AttemptRow] /\ att'[r] \in [AttemptNumber -> AttemptRow]
    BY DEF TypeOK
  <1>2. \A n \in AttemptNumber : n \in Int
    BY DEF AttemptNumber
  <1>3. CASE EarlierKept(r) /\ SlotStep(r) /\ ~Retried(r)
    <2>1. RowOK(run'[r], att'[r][made[r]], made[r])
      BY <1>1, <1>3, MoveKeepsRow DEF SlotStep, Moved, Advancing, Claiming, SlotOK
    <2>2. HistoryOK(r)'
      BY <1>1, <1>2, <1>3 DEF EarlierKept, HistoryOK, SlotOK
    <2>. QED
      BY <1>3, <2>1, <2>2 DEF EarlierKept, SlotOK
  <1>4. CASE Retried(r)
    <2>1. att[r][made[r] + 1] = NewAttempt
      BY <1>1, <1>2, <1>4 DEF Retried, HistoryOK, SlotOK
    <2>2. RowOK(run'[r], att'[r][made'[r]], made'[r])
      BY <1>1, <1>2, <1>4, <2>1
         DEF Retried, RowOK, Agree, AttemptOK, NewAttempt, LifecycleOfStatus, RunStatus, ACTIVE_STATUSES
    <2>3. AttemptOK(att[r][made[r]])
      BY DEF SlotOK, RowOK
    <2>4. HistoryOK(r)'
      BY <1>1, <1>2, <1>4, <2>3 DEF Retried, HistoryOK, SlotOK
    <2>. QED
      BY <2>2, <2>4 DEF SlotOK
  <1>. QED
    BY <1>3, <1>4 DEF SlotStep, Moved

\* A coroutine that a step leaves alone knows as much afterwards, unless the row
\* that advances is the one it drives itself.
LEMMA StepKeepsKnowledge ==
  ASSUME TypeOK, TypeOK', NEW v \in Busy, SlotOK(v.run),
         Knows(v, run[v.run], made[v.run], att[v.run][v.attempt].reconciliation),
         \/ Moved(v.run)
         \/ EarlierKept(v.run) /\ Advancing(v.run) /\ v.attempt # run[v.run].attempt
  PROVE  Knows(v, run'[v.run], made'[v.run], att'[v.run][v.attempt].reconciliation)
  <1> DEFINE r == v.run
  <1>1. /\ r \in Runs /\ v.attempt \in AttemptNumber
    BY DEF Busy
  <1>2. /\ run[r] \in RunRow /\ run'[r] \in RunRow /\ made[r] \in AttemptNumber
        /\ made'[r] \in AttemptNumber
        /\ att[r] \in [AttemptNumber -> AttemptRow] /\ att'[r] \in [AttemptNumber -> AttemptRow]
    BY <1>1 DEF TypeOK
  <1>3. /\ \A n \in AttemptNumber : n \in Int
        /\ run[r].status \in RunStatus
    BY <1>2 DEF AttemptNumber, RunRow
  <1>. HIDE DEF r
  <1>4. att[r][v.attempt].reconciliation = "OBSERVED" => att'[r][v.attempt].reconciliation = "OBSERVED"
    <2>1. CASE Retried(r)
      BY <2>1 DEF Retried
    <2>2. CASE EarlierKept(r) /\ v.attempt # made[r]
      BY <1>1, <2>2 DEF EarlierKept
    <2>3. CASE v.attempt = made[r] /\ EarlierKept(r) /\ (Moved(r) \/ Advancing(r)) /\ ~Retried(r)
      BY <2>3 DEF Moved, Keeps, Ends, Claiming, Claims, Advancing, Advances, Settles
    <2>. QED
      BY <2>1, <2>2, <2>3 DEF Moved, r
  <1>5. made'[r] >= made[r] /\ v.attempt \in Int
    BY <1>1, <1>2, <1>3 DEF Moved, Retried, EarlierKept, r
  <1>6. CASE Retried(r)
    <2>1. run'[r].status \notin ACTIVE_STATUSES
      BY <1>6 DEF Retried, ACTIVE_STATUSES
    <2>. QED
      BY <1>1, <1>2, <1>3, <1>4, <1>6, <2>1 DEF Knows, Retried, r
  <1>7. CASE EarlierKept(r) /\ Keeps(run[r], run'[r], att[r][made[r]], att'[r][made[r]])
    BY <1>4, <1>7 DEF EarlierKept, Keeps, Knows, r
  <1>8. CASE EarlierKept(r) /\ Ends(run[r], run'[r], att[r][made[r]], att'[r][made[r]])
    BY <1>4, <1>8 DEF EarlierKept, Ends, Knows, TERMINAL_STATUSES, ACTIVE_STATUSES, r
  <1>9. CASE EarlierKept(r) /\ Claiming(r)
    <2>1. v.attempt < made[r] /\ run'[r].attempt = made[r] /\ run'[r].status = "CLAIMED"
      BY <1>9 DEF Claiming, Claims, Knows, r
    <2>. QED
      BY <1>1, <1>2, <1>3, <1>4, <1>9, <2>1 DEF EarlierKept, Knows, r
  <1>10. CASE EarlierKept(r) /\ Settles(run[r], run'[r], att[r][made[r]], att'[r][made[r]])
    BY <1>4, <1>10 DEF EarlierKept, Settles, Knows, r
  <1>11. CASE EarlierKept(r) /\ Advancing(r) /\ v.attempt # run[r].attempt
    <2>1. run'[r].status # "QUEUED" /\ run'[r].attempt = run[r].attempt
      BY <1>3, <1>11 DEF Advancing, Advances, TRANSITIONS, RunStatus, ACTIVE_STATUSES, TERMINAL_STATUSES
    <2>. QED
      BY <1>4, <1>11, <2>1 DEF EarlierKept, Knows, r
  <1>. QED
    BY <1>6, <1>7, <1>8, <1>9, <1>10, <1>11 DEF Moved, r

-----------------------------------------------------------------------------
(* What the row updates write. *)

LEMMA LeaseClearedIs ==
  ASSUME NEW row \in RunRow
  PROVE  /\ LeaseCleared(row) \in RunRow
         /\ LeaseCleared(row).status = row.status /\ LeaseCleared(row).attempt = row.attempt
         /\ LeaseCleared(row).cancellation_requested = row.cancellation_requested
  <1>1. LeaseCleared(row) \in RunRow
    BY LeaseClearedType
  <1>. QED
    BY <1>1, ZenonT(40) DEF LeaseCleared, RunRow

LEMMA CancelledRunIs ==
  ASSUME NEW row \in RunRow
  PROVE  /\ CancelledRun(row).status = "CANCELLED" /\ CancelledRun(row).attempt = row.attempt
         /\ CancelledRun(row).cancellation_requested = row.cancellation_requested
  <1>1. PICK cleared \in RunRow :
          /\ cleared = LeaseCleared(row) /\ cleared.attempt = row.attempt
          /\ cleared.cancellation_requested = row.cancellation_requested
    BY LeaseClearedIs
  <1>2. CancelledRun(row) =
          [cleared EXCEPT !.status = "CANCELLED", !.normalized_outcome = "cancelled"]
    BY <1>1 DEF CancelledRun
  <1>. QED
    BY <1>1, <1>2, ZenonT(40) DEF RunRow

LEMMA InfraFailedRunIs ==
  ASSUME NEW row \in RunRow, NEW n
  PROVE  /\ InfraFailedRun(row, n).status = "FAILED_INFRA"
         /\ InfraFailedRun(row, n).attempt = row.attempt
         /\ InfraFailedRun(row, n).cancellation_requested = row.cancellation_requested
  <1>1. PICK cleared \in RunRow :
          /\ cleared = LeaseCleared(row) /\ cleared.attempt = row.attempt
          /\ cleared.cancellation_requested = row.cancellation_requested
    BY LeaseClearedIs
  <1>2. PICK outcome :
          outcome = IF n = 1 THEN "infra_failure" ELSE cleared.normalized_outcome
    OBVIOUS
  <1>3. InfraFailedRun(row, n) =
          [cleared EXCEPT !.status = "FAILED_INFRA", !.normalized_outcome = outcome]
    BY <1>1, <1>2 DEF InfraFailedRun
  <1>. QED
    BY <1>1, <1>3, ZenonT(40) DEF RunRow

LEMMA FinishedRunIs ==
  ASSUME NEW row \in RunRow, NEW n, NEW outcome \in StatisticalOutcome
  PROVE  /\ FinishedRun(row, n, outcome).status = TERMINAL_STATUS_BY_OUTCOME[outcome]
         /\ FinishedRun(row, n, outcome).attempt = row.attempt
         /\ FinishedRun(row, n, outcome).cancellation_requested = row.cancellation_requested
  <1>1. PICK cleared \in RunRow :
          /\ cleared = LeaseCleared(row) /\ cleared.attempt = row.attempt
          /\ cleared.cancellation_requested = row.cancellation_requested
    BY LeaseClearedIs
  <1>2. PICK said : said = IF n = 1 THEN outcome ELSE cleared.normalized_outcome
    OBVIOUS
  <1>3. PICK status : status = TERMINAL_STATUS_BY_OUTCOME[outcome]
    OBVIOUS
  <1>4. FinishedRun(row, n, outcome) =
          [cleared EXCEPT !.status = status, !.normalized_outcome = said]
    BY <1>1, <1>2, <1>3 DEF FinishedRun
  <1>. QED
    BY <1>1, <1>3, <1>4, ZenonT(40) DEF RunRow

LEMMA RequeuedRunIs ==
  ASSUME NEW row \in RunRow, NEW n \in AttemptNumber
  PROVE  RequeuedRun(row, n).status = "QUEUED" /\ RequeuedRun(row, n).attempt = n
  <1>1. PICK cleared \in RunRow : cleared = LeaseCleared(row)
    BY LeaseClearedIs
  <1>2. PICK no : no = FALSE
    OBVIOUS
  <1>3. RequeuedRun(row, n) =
          [cleared EXCEPT !.status = "QUEUED", !.attempt = n, !.cancellation_requested = no]
    BY <1>1, <1>2 DEF RequeuedRun
  <1>. QED
    BY <1>1, <1>3, ZenonT(40) DEF RunRow

\* A single field of a row.
LEMMA FlaggedRowIs ==
  ASSUME NEW row \in RunRow, NEW yes \in BOOLEAN
  PROVE  /\ [row EXCEPT !.cancellation_requested = yes].status = row.status
         /\ [row EXCEPT !.cancellation_requested = yes].attempt = row.attempt
         /\ [row EXCEPT !.cancellation_requested = yes].cancellation_requested = yes
  BY ZenonT(40) DEF RunRow

LEMMA LeasedRowIs ==
  ASSUME NEW row \in RunRow, NEW ticks
  PROVE  /\ [row EXCEPT !.lease = ticks].status = row.status
         /\ [row EXCEPT !.lease = ticks].attempt = row.attempt
         /\ [row EXCEPT !.lease = ticks].cancellation_requested = row.cancellation_requested
  BY ZenonT(40) DEF RunRow

LEMMA MovedRowIs ==
  ASSUME NEW row \in RunRow, NEW status
  PROVE  /\ [row EXCEPT !.status = status].status = status
         /\ [row EXCEPT !.status = status].attempt = row.attempt
         /\ [row EXCEPT !.status = status].cancellation_requested = row.cancellation_requested
  BY ZenonT(40) DEF RunRow

LEMMA ClaimedRowIs ==
  ASSUME NEW row \in RunRow, NEW n, NEW owner
  PROVE  LET claimed == [row EXCEPT !.status = "CLAIMED", !.attempt = n,
                                    !.lease_owner = owner, !.lease = TTL]
         IN  /\ claimed.status = "CLAIMED" /\ claimed.attempt = n
             /\ claimed.cancellation_requested = row.cancellation_requested
  BY ZenonT(40) DEF RunRow

LEMMA AppendedIs ==
  ASSUME NEW a \in AttemptRow, NEW source, NEW target \in LifecycleState
  PROVE  /\ AppendFrom(a, source, target).state = target
         /\ AppendFrom(a, source, target).reservation = a.reservation
         /\ AppendFrom(a, source, target).reconciliation = a.reconciliation
         /\ AppendEvent(a, target).state = target
         /\ AppendEvent(a, target).reservation = a.reservation
         /\ AppendEvent(a, target).reconciliation = a.reconciliation
  BY DEF AppendFrom, AppendEvent, AttemptRow

LEMMA SettledIs ==
  ASSUME NEW a \in AttemptRow, NEW status, NEW amount
  PROVE  /\ Settled(a, status, amount).state = a.state
         /\ Settled(a, status, amount).reservation = a.reservation
         /\ Settled(a, status, amount).reconciliation = status
  BY DEF Settled, AttemptRow

LEMMA ReservedIs ==
  ASSUME NEW a \in AttemptRow, NEW answer
  PROVE  /\ [a EXCEPT !.reservation = answer].state = a.state
         /\ [a EXCEPT !.reservation = answer].reservation = answer
         /\ [a EXCEPT !.reservation = answer].reconciliation = a.reconciliation
  BY DEF AttemptRow

-----------------------------------------------------------------------------
(* Each transaction moves every run by one of the moves. *)

LEMMA UntouchedMoves ==
  ASSUME NEW s \in Runs, made'[s] = made[s], att'[s] = att[s],
         run'[s].status = run[s].status, run'[s].attempt = run[s].attempt
  PROVE  Moved(s)
  BY DEF Moved, Keeps, EarlierKept

\* One row and its current attempt are replaced.
LEMMA ReplacedSlot ==
  ASSUME TypeOK, NEW r \in Runs, NEW row2, NEW b, made' = made,
         run' = [run EXCEPT ![r] = row2], att' = [att EXCEPT ![r][made[r]] = b]
  PROVE  /\ run'[r] = row2 /\ att'[r][made[r]] = b /\ EarlierKept(r)
         /\ \A s \in Runs : s # r => Moved(s)
  <1>1. /\ run \in [Runs -> RunRow] /\ made[r] \in AttemptNumber
        /\ att \in [Runs -> [AttemptNumber -> AttemptRow]]
    BY DEF TypeOK
  <1>2. run'[r] = row2 /\ att'[r][made[r]] = b /\ EarlierKept(r)
    BY <1>1 DEF EarlierKept
  <1>3. \A s \in Runs : s # r => run'[s] = run[s] /\ att'[s] = att[s] /\ made'[s] = made[s]
    BY <1>1
  <1>. QED
    BY <1>2, <1>3, UntouchedMoves

\* Only a row is replaced, and it keeps its status and attempt.
LEMMA ReplacedRow ==
  ASSUME TypeOK, NEW r \in Runs, NEW row2, made' = made, att' = att,
         run' = [run EXCEPT ![r] = row2],
         row2.status = run[r].status, row2.attempt = run[r].attempt
  PROVE  \A s \in Runs : Moved(s)
  <1>1. \A s \in Runs : run'[s] = IF s = r THEN row2 ELSE run[s]
    BY DEF TypeOK
  <1>. QED
    BY <1>1, UntouchedMoves

LEMMA RowsKeptMove ==
  ASSUME run' = run, att' = att, made' = made
  PROVE  \A s \in Runs : Moved(s)
  BY UntouchedMoves

LEMMA SlotTypes ==
  ASSUME TypeOK, NEW r \in Runs
  PROVE  /\ run[r] \in RunRow /\ att[r][made[r]] \in AttemptRow /\ made[r] \in AttemptNumber
         /\ Current(r) = att[r][made[r]]
         /\ run[r].status \in RunStatus /\ att[r][made[r]].state \in LifecycleState
         /\ run[r].attempt \in Int /\ made[r] \in Int
  BY ParameterAssumption DEF TypeOK, Current, RunRow, AttemptRow, AttemptNumber

\* A cancellation that takes effect ends the attempt.
LEMMA CancelNowEnds ==
  ASSUME TypeOK, NEW r \in Runs, CancelNow(r), made' = made
  PROVE  (\A s \in Runs : Moved(s)) /\ run'[r].status = "CANCELLED"
  <1> DEFINE b == AppendEvent(att[r][made[r]], "CANCELLED")
  <1>1. run[r] \in RunRow /\ att[r][made[r]] \in AttemptRow /\ made[r] \in AttemptNumber
    BY DEF TypeOK
  <1>2. /\ b.state = "CANCELLED" /\ b.reservation = att[r][made[r]].reservation
        /\ b.reconciliation = att[r][made[r]].reconciliation
    BY <1>1, AppendedIs, StatesInType
  <1>3. CancelledRun(run[r]).status = "CANCELLED" /\ CancelledRun(run[r]).attempt = run[r].attempt
    BY <1>1, CancelledRunIs
  <1>4. run' = [run EXCEPT ![r] = CancelledRun(run[r])] /\ att' = [att EXCEPT ![r][made[r]] = b]
    BY DEF CancelNow
  <1>. HIDE DEF b
  <1>5. /\ run'[r] = CancelledRun(run[r]) /\ att'[r][made[r]] = b /\ EarlierKept(r)
        /\ \A s \in Runs : s # r => Moved(s)
    BY <1>4, ReplacedSlot
  <1>6. Ends(run[r], run'[r], att[r][made[r]], att'[r][made[r]])
    BY <1>2, <1>3, <1>5
       DEF Ends, Agree, AttemptOK, TERMINAL_STATUSES, LifecycleOfStatus, RunStatus
  <1>. QED
    BY <1>3, <1>5, <1>6 DEF Moved

LEMMA AdvanceAdvances ==
  ASSUME TypeOK, NEW r \in Runs, SlotOK(r), NEW target, Advance(r, target), made' = made
  PROVE  /\ \A s \in Runs : s # r => Moved(s)
         /\ EarlierKept(r) /\ Advancing(r) /\ run'[r].status = target
         /\ run'[r].attempt = run[r].attempt
  <1>1. /\ run[r] \in RunRow /\ att[r][made[r]] \in AttemptRow /\ made[r] \in AttemptNumber
        /\ run[r].status \in RunStatus /\ Current(r) = att[r][made[r]]
        /\ att[r][made[r]].state \in LifecycleState
    BY SlotTypes
  <1>2. run' = [run EXCEPT ![r] = [run[r] EXCEPT !.status = target]]
    BY <1>1 DEF Advance, TypeOK
  <1>3. /\ [run[r] EXCEPT !.status = target].status = target
        /\ [run[r] EXCEPT !.status = target].attempt = run[r].attempt
    BY <1>1, MovedRowIs
  <1>4. target \in TRANSITIONS[run[r].status]
    BY DEF Advance
  <1>5. target \in RunStatus /\ (target # "SCORING" => target \in LifecycleState)
    BY <1>1, <1>4, TransitionTarget
  <1>6. target \in {"PREPARING", "RUNNING", "VERIFYING", "SCORING"}
    BY <1>1, <1>4 DEF TRANSITIONS, RunStatus, ACTIVE_STATUSES, TERMINAL_STATUSES
  <1>7. CASE target = "SCORING"
    <2>1. att' = att /\ run[r].status = "VERIFYING"
      BY <1>1, <1>4, <1>7 DEF Advance, TRANSITIONS, RunStatus, ACTIVE_STATUSES, TERMINAL_STATUSES
    <2>2. \A s \in Runs : run'[s] = IF s = r THEN [run[r] EXCEPT !.status = target] ELSE run[s]
      BY <1>2 DEF TypeOK
    <2>3. att[r][made[r]].state = "VERIFYING"
      BY <2>1 DEF SlotOK, RowOK, Agree, LifecycleOfStatus, RunStatus, ACTIVE_STATUSES
    <2>4. Agree("SCORING", att[r][made[r]].state)
      BY <2>3 DEF Agree, LifecycleOfStatus, RunStatus, ACTIVE_STATUSES
    <2>5. run'[r].status = target /\ run'[r].attempt = run[r].attempt
      BY <1>3, <2>2
    <2>. HIDE DEF Agree
    <2>6. EarlierKept(r) /\ Advancing(r)
      BY <1>4, <1>7, <2>1, <2>4, <2>5 DEF EarlierKept, Advancing, Advances
    <2>7. \A s \in Runs : s # r => Moved(s)
      BY <2>1, <2>2, UntouchedMoves
    <2>. QED
      BY <2>5, <2>6, <2>7
  <1>8. CASE target # "SCORING"
    <2> DEFINE b == AppendEvent(att[r][made[r]], target)
    <2>1. /\ b.state = target /\ b.reservation = att[r][made[r]].reservation
          /\ b.reconciliation = att[r][made[r]].reconciliation
      BY <1>1, <1>5, <1>8, AppendedIs
    <2>2. att' = [att EXCEPT ![r][made[r]] = b]
      BY <1>8 DEF Advance
    <2>. HIDE DEF b
    <2>3. /\ run'[r] = [run[r] EXCEPT !.status = target] /\ att'[r][made[r]] = b
          /\ EarlierKept(r) /\ \A s \in Runs : s # r => Moved(s)
      BY <1>2, <2>2, ReplacedSlot
    <2>4. run'[r].status = target /\ run'[r].attempt = run[r].attempt
      BY <1>3, <2>3
    <2>5. Agree(target, target)
      BY <1>6, <1>8 DEF Agree, LifecycleOfStatus, RunStatus, ACTIVE_STATUSES
    <2>6. Advancing(r)
      BY <1>4, <2>1, <2>3, <2>4, <2>5 DEF Advancing, Advances
    <2>. QED
      BY <2>3, <2>4, <2>6
  <1>. QED
    BY <1>7, <1>8

LEMMA ExpiredAttemptIs ==
  ASSUME NEW a \in AttemptRow, AttemptOK(a)
  PROVE  /\ ExpiredAttempt(a).state = "FAILED_INFRA"
         /\ ExpiredAttempt(a).reconciliation # "NONE"
         /\ a.reconciliation = "OBSERVED" => ExpiredAttempt(a).reconciliation = "OBSERVED"
  <1> DEFINE b == AppendEvent(a, "FAILED_INFRA")
  <1>1. b \in AttemptRow /\ b.state = "FAILED_INFRA" /\ b.reconciliation = a.reconciliation
    BY AppendedIs, AppendEventType, StatesInType
  <1>. HIDE DEF b
  <1>2. CASE a.reconciliation = "NONE"
    <2>1. ExpiredAttempt(a) = Settled(b, "UNAVAILABLE", Maximum)
      BY <1>2 DEF ExpiredAttempt, b
    <2>. QED
      BY <1>1, <1>2, <2>1, SettledIs
  <1>3. CASE a.reconciliation # "NONE"
    <2>1. ExpiredAttempt(a) = b
      BY <1>3 DEF ExpiredAttempt, b
    <2>. QED
      BY <1>1, <1>3, <2>1
  <1>. QED
    BY <1>2, <1>3

\* An expiry ends the attempts that are lost.
LEMMA ExpiryMoves ==
  ASSUME TypeOK, NEW s \in Runs, SlotOK(s), made' = made,
         run'[s] = RunAfterExpiry[s], att'[s] = AttAfterExpiry[s]
  PROVE  Moved(s)
  <1>1. /\ run[s] \in RunRow /\ att[s][made[s]] \in AttemptRow /\ made[s] \in AttemptNumber
        /\ att[s] \in [AttemptNumber -> AttemptRow]
    BY DEF TypeOK
  <1>2. CASE s \in Lost
    <2>1. /\ run'[s] = InfraFailedRun(run[s], made[s])
          /\ att'[s] = [att[s] EXCEPT ![made[s]] = ExpiredAttempt(att[s][made[s]])]
      BY <1>2 DEF RunAfterExpiry, AttAfterExpiry
    <2>2. run'[s].status = "FAILED_INFRA" /\ run'[s].attempt = run[s].attempt
      BY <1>1, <2>1, InfraFailedRunIs
    <2>3. /\ att'[s][made[s]] = ExpiredAttempt(att[s][made[s]])
          /\ \A n \in AttemptNumber : n # made[s] => att'[s][n] = att[s][n]
      BY <1>1, <2>1
    <2>4. /\ att'[s][made[s]].state = "FAILED_INFRA"
          /\ att'[s][made[s]].reconciliation # "NONE"
          /\ att[s][made[s]].reconciliation = "OBSERVED"
               => att'[s][made[s]].reconciliation = "OBSERVED"
      BY <1>1, <2>3, ExpiredAttemptIs DEF SlotOK, RowOK
    <2>5. Ends(run[s], run'[s], att[s][made[s]], att'[s][made[s]])
      BY <2>2, <2>4 DEF Ends, Agree, AttemptOK, TERMINAL_STATUSES, LifecycleOfStatus, RunStatus
    <2>. QED
      BY <2>3, <2>5 DEF Moved, EarlierKept
  <1>3. CASE s \notin Lost
    BY <1>3, AfterExpiryType, UntouchedMoves
  <1>. QED
    BY <1>2, <1>3

LEMMA ClaimMovesSlots ==
  ASSUME TypeOK, SlotInv, NEW w \in Workers, ClaimAuthoritativeRun(w)
  PROVE  /\ \A s \in Runs : Moved(s)
         /\ \/ UNCHANGED worker
            \/ \E r \in Runs :
                 /\ EarlierKept(r) /\ Claiming(r) /\ run[r].status = "QUEUED"
                 /\ run'[r].status = "CLAIMED"
                 /\ worker' = [worker EXCEPT ![w] =
                        [pc |-> "claimed", run |-> r, attempt |-> made[r],
                         beat |-> "ok", result |-> "none"]]
  <1>1. made' = made
    BY DEF ClaimAuthoritativeRun
  <1>2. /\ run \in [Runs -> RunRow] /\ att \in [Runs -> [AttemptNumber -> AttemptRow]]
        /\ made \in [Runs -> AttemptNumber]
        /\ RunAfterExpiry \in [Runs -> RunRow]
        /\ AttAfterExpiry \in [Runs -> [AttemptNumber -> AttemptRow]]
    BY AfterExpiryType DEF TypeOK
  <1>3. CASE run' = RunAfterExpiry /\ att' = AttAfterExpiry /\ UNCHANGED worker
    BY <1>1, <1>3, ExpiryMoves DEF SlotInv
  <1>4. ASSUME NEW r \in Claimable,
               run' = [RunAfterExpiry EXCEPT ![r] =
                     [@ EXCEPT !.status = "CLAIMED", !.attempt = made[r],
                               !.lease_owner = Owner[w], !.lease = TTL]],
               att' = [AttAfterExpiry EXCEPT ![r][made[r]] =
                     [@ EXCEPT !.reservation = "ACCEPTED"]],
               worker' = [worker EXCEPT ![w] =
                        [pc |-> "claimed", run |-> r, attempt |-> made[r],
                         beat |-> "ok", result |-> "none"]]
        PROVE  /\ \A s \in Runs : Moved(s)
               /\ EarlierKept(r) /\ Claiming(r) /\ run[r].status = "QUEUED"
               /\ run'[r].status = "CLAIMED"
    <2>1. /\ r \in Runs /\ made[r] \in AttemptNumber /\ run[r].status = "QUEUED"
          /\ RunAfterExpiry[r] = run[r] /\ AttAfterExpiry[r] = att[r]
      BY <1>2, ClaimableNotLost, AfterExpiryType DEF Claimable
    <2>2. \A s \in Runs : s # r => run'[s] = RunAfterExpiry[s] /\ att'[s] = AttAfterExpiry[s]
      BY <1>2, <1>4, <2>1
    <2>3. \A s \in Runs : s # r => Moved(s)
      BY <1>1, <2>2, ExpiryMoves DEF SlotInv
    <2>4. /\ run'[r] = [run[r] EXCEPT !.status = "CLAIMED", !.attempt = made[r],
                               !.lease_owner = Owner[w], !.lease = TTL]
          /\ att'[r] = [att[r] EXCEPT ![made[r]] = [att[r][made[r]] EXCEPT !.reservation = "ACCEPTED"]]
      BY <1>2, <1>4, <2>1
    <2>5. run'[r].status = "CLAIMED" /\ run'[r].attempt = made[r]
      BY <1>2, <2>1, <2>4, ClaimedRowIs
    <2>6. /\ att'[r][made[r]] = [att[r][made[r]] EXCEPT !.reservation = "ACCEPTED"]
          /\ \A n \in AttemptNumber : n # made[r] => att'[r][n] = att[r][n]
      BY <1>2, <2>1, <2>4
    <2>7. /\ att'[r][made[r]].state = att[r][made[r]].state
          /\ att'[r][made[r]].reservation = "ACCEPTED"
          /\ att'[r][made[r]].reconciliation = att[r][made[r]].reconciliation
      BY <1>2, <2>1, <2>6, ReservedIs
    <2>8. EarlierKept(r) /\ Claiming(r)
      BY <1>1, <2>1, <2>5, <2>6, <2>7 DEF EarlierKept, Claiming, Claims
    <2>. QED
      BY <2>1, <2>3, <2>5, <2>8 DEF Moved
  <1>5. ASSUME NEW r \in Claimable,
               run' = [RunAfterExpiry EXCEPT ![r] = [@ EXCEPT !.status = "BUDGET_EXHAUSTED"]],
               att' = [AttAfterExpiry EXCEPT ![r][made[r]] =
                     [AppendEvent(@, "BUDGET_EXHAUSTED") EXCEPT !.reservation = "DENIED"]]
        PROVE  \A s \in Runs : Moved(s)
    <2>1. /\ r \in Runs /\ made[r] \in AttemptNumber
          /\ RunAfterExpiry[r] = run[r] /\ AttAfterExpiry[r] = att[r]
      BY <1>2, ClaimableNotLost, AfterExpiryType
    <2>2. \A s \in Runs : s # r => run'[s] = RunAfterExpiry[s] /\ att'[s] = AttAfterExpiry[s]
      BY <1>2, <1>5, <2>1
    <2>3. \A s \in Runs : s # r => Moved(s)
      BY <1>1, <2>2, ExpiryMoves DEF SlotInv
    <2> DEFINE b == AppendEvent(att[r][made[r]], "BUDGET_EXHAUSTED")
    <2>4. /\ run'[r] = [run[r] EXCEPT !.status = "BUDGET_EXHAUSTED"]
          /\ att'[r] = [att[r] EXCEPT ![made[r]] = [b EXCEPT !.reservation = "DENIED"]]
      BY <1>2, <1>5, <2>1
    <2>5. run'[r].status = "BUDGET_EXHAUSTED" /\ run'[r].attempt = run[r].attempt
      BY <1>2, <2>1, <2>4, MovedRowIs
    <2>6. /\ b \in AttemptRow /\ b.state = "BUDGET_EXHAUSTED"
          /\ b.reconciliation = att[r][made[r]].reconciliation
      BY <1>2, <2>1, AppendedIs, AppendEventType, StatesInType
    <2>. HIDE DEF b
    <2>7. /\ att'[r][made[r]] = [b EXCEPT !.reservation = "DENIED"]
          /\ \A n \in AttemptNumber : n # made[r] => att'[r][n] = att[r][n]
      BY <1>2, <2>1, <2>4
    <2>8. /\ att'[r][made[r]].state = "BUDGET_EXHAUSTED"
          /\ att'[r][made[r]].reconciliation = att[r][made[r]].reconciliation
      BY <2>6, <2>7, ReservedIs
    <2>9. Ends(run[r], run'[r], att[r][made[r]], att'[r][made[r]])
      BY <2>5, <2>8 DEF Ends, Agree, AttemptOK, TERMINAL_STATUSES, LifecycleOfStatus, RunStatus
    <2>. QED
      BY <1>1, <2>3, <2>7, <2>9 DEF Moved, EarlierKept
  <1>6. \A r \in Claimable : r \in Runs
    BY ClaimableNotLost
  <1>. QED
    BY <1>3, <1>4, <1>5, <1>6 DEF ClaimAuthoritativeRun

-----------------------------------------------------------------------------
\* What a coroutine that may reconcile knows of its run.
LEMMA ReconciledSlot ==
  ASSUME TypeOK, SlotInv, WorkerInv, NEW w \in Workers,
         worker[w].pc \in {"cancelled", "interrupted", "scored"}, MayReconcile(w)
  PROVE  LET r == worker[w].run IN
         /\ worker[w] # Idle /\ worker[w] \in Busy /\ r \in Runs
         /\ worker[w].attempt = made[r] /\ run[r].attempt = made[r]
         /\ run[r].status \notin (ACTIVE_STATUSES \ {"SCORING"}) \cup {"QUEUED"}
  <1> DEFINE r == worker[w].run
  <1>1. worker[w] # Idle /\ worker[w] \in Busy /\ r \in Runs /\ worker[w].pc \in WorkerStep
    BY BusyType DEF Idle, WorkerStep
  <1>2. Knows(worker[w], run[r], made[r], att[r][worker[w].attempt].reconciliation)
    BY <1>1 DEF WorkerInv
  <1>3. worker[w].attempt = made[r] /\ run[r].attempt = made[r] /\ made[r] \in Int
    BY <1>1, SlotTypes DEF MayReconcile
  <1>4. run[r].status # "QUEUED"
    BY <1>2, <1>3 DEF Knows
  <1>5. run[r].status \in ACTIVE_STATUSES => run[r].status = "SCORING"
    BY <1>1, <1>2, <1>3 DEF Knows, StatusOfStep
  <1>. QED
    BY <1>1, <1>3, <1>4, <1>5

LEMMA ReconcileMovesSlots ==
  ASSUME TypeOK, SlotInv, WorkerInv, NEW w \in Workers, ReconcileTerminal(w)
  PROVE  \A s \in Runs : Moved(s)
  <1>1. made' = made /\ worker[w].pc \in {"cancelled", "interrupted", "scored"}
    BY DEF ReconcileTerminal
  <1>2. CASE run' = run /\ att' = att
    BY <1>1, <1>2, RowsKeptMove
  <1>3. CASE MayReconcile(w) /\ ~(run' = run /\ att' = att) /\ Reconcile(w)
    <2>1. PICK r \in Runs :
            /\ r = worker[w].run /\ run[r].attempt = made[r]
            /\ run[r].status \notin (ACTIVE_STATUSES \ {"SCORING"}) \cup {"QUEUED"}
      BY <1>1, <1>3, ReconciledSlot
    <2> DEFINE a == att[r][made[r]]
    <2>2. run[r] \in RunRow /\ a \in AttemptRow /\ made[r] \in AttemptNumber /\ Current(r) = a
      BY <2>1, SlotTypes
    <2>. HIDE DEF a
    <2>3. ASSUME a.reconciliation = "NONE",
                 NEW status \in {"UNAVAILABLE", "OBSERVED", "EXCEEDED"}, NEW amount,
                 run' = run, att' = [att EXCEPT ![r][made[r]] = Settled(a, status, amount)]
          PROVE  \A s \in Runs : Moved(s)
      <3>1. /\ Settled(a, status, amount).state = a.state
            /\ Settled(a, status, amount).reservation = a.reservation
            /\ Settled(a, status, amount).reconciliation # "NONE"
        BY <2>2, <2>3, SettledIs
      <3>2. run' = [run EXCEPT ![r] = run[r]]
        BY <2>3 DEF TypeOK
      <3>3. /\ run'[r] = run[r] /\ att'[r][made[r]] = Settled(a, status, amount)
            /\ EarlierKept(r) /\ \A s \in Runs : s # r => Moved(s)
        <4>1. made' = made /\ r \in Runs
          BY <1>1
        <4>2. att' = [att EXCEPT ![r][made[r]] = Settled(a, status, amount)]
          BY <2>3
        <4>. QED
          BY <3>2, <4>1, <4>2, ReplacedSlot
      <3>4. Settles(run[r], run'[r], a, att'[r][made[r]])
        BY <2>1, <2>3, <3>1, <3>3 DEF Settles
      <3>. QED
        BY <3>3, <3>4 DEF Moved, a
    <2>4. ASSUME a.reconciliation = "NONE",
                 run' = [run EXCEPT ![r] = InfraFailedRun(run[r], made[r])],
                 att' = [att EXCEPT ![r][made[r]] =
                           AppendEvent(Settled(a, "EXCEEDED", 0), "FAILED_INFRA")]
          PROVE  \A s \in Runs : Moved(s)
      <3> DEFINE b == AppendEvent(Settled(a, "EXCEEDED", 0), "FAILED_INFRA")
      <3>0. 0 \in 0 .. Maximum
        BY ParameterAssumption
      <3>1. Settled(a, "EXCEEDED", 0) \in AttemptRow
        BY <2>2, <3>0, SettledType
      <3>2. b.state = "FAILED_INFRA" /\ b.reconciliation = "EXCEEDED"
        BY <2>2, <3>1, SettledIs, AppendedIs, StatesInType
      <3>. HIDE DEF b
      <3>3. /\ InfraFailedRun(run[r], made[r]).status = "FAILED_INFRA"
            /\ InfraFailedRun(run[r], made[r]).attempt = run[r].attempt
        BY <2>2, InfraFailedRunIs
      <3>4. att' = [att EXCEPT ![r][made[r]] = b]
        BY <2>4 DEF b
      <3>5. /\ run'[r] = InfraFailedRun(run[r], made[r]) /\ att'[r][made[r]] = b
            /\ EarlierKept(r) /\ \A s \in Runs : s # r => Moved(s)
        <4>1. made' = made /\ r \in Runs
          BY <1>1
        <4>2. run' = [run EXCEPT ![r] = InfraFailedRun(run[r], made[r])]
          BY <2>4
        <4>. QED
          BY <3>4, <4>1, <4>2, ReplacedSlot
      <3>6. Ends(run[r], run'[r], a, att'[r][made[r]])
        BY <2>4, <3>2, <3>3, <3>5
           DEF Ends, Agree, AttemptOK, TERMINAL_STATUSES, LifecycleOfStatus, RunStatus
      <3>. QED
        BY <3>5, <3>6 DEF Moved, a
    <2>. QED
      BY <1>3, <2>1, <2>2, <2>3, <2>4 DEF Reconcile, a
  <1>. QED
    BY <1>2, <1>3 DEF ReconcileTerminal, Raise, Reconcile

\* finish_run ends an attempt that was settled, and settled from a lane result if
\* it becomes evidence.
LEMMA FinishMovesSlots ==
  ASSUME TypeOK, SlotInv, WorkerInv, NEW w \in Workers, FinishRun(w)
  PROVE  \A s \in Runs : Moved(s)
  <1>1. made' = made /\ worker[w].pc = "reconciled"
    BY DEF FinishRun
  <1>0. PICK r \in Runs : r = worker[w].run /\ worker[w] # Idle /\ worker[w] \in Busy
    BY <1>1, BusyType DEF Idle
  <1> DEFINE a == att[r][made[r]]
  <1>2. CASE Raise(w)
    BY <1>1, <1>2, RowsKeptMove DEF Raise
  <1>3. ASSUME MayFinish(w), NEW outcome \in FinishOutcomes(w),
               run' = [run EXCEPT ![r] = FinishedRun(run[r], made[r], outcome)],
               att' = [att EXCEPT ![r][made[r]] =
                         AppendEvent(a, LifecycleTerminalByOutcome[outcome])]
        PROVE  \A s \in Runs : Moved(s)
    <2>1. worker[w] # Idle /\ worker[w] \in Busy /\ r \in Runs /\ r = worker[w].run
      BY <1>0
    <2>2. /\ run[r] \in RunRow /\ a \in AttemptRow /\ made[r] \in AttemptNumber /\ Current(r) = a
      BY <2>1, SlotTypes
    <2>3. run[r].status \in ACTIVE_STATUSES /\ run[r].attempt = worker[w].attempt
      BY <1>3, <2>1 DEF MayFinish, ActiveOwner, ACTIVE_STATUSES
    <2>4. worker[w].attempt = made[r]
      BY <2>1, <2>3 DEF SlotInv, SlotOK, RowOK
    <2>5. Knows(worker[w], run[r], made[r], a.reconciliation)
      BY <2>1, <2>4 DEF WorkerInv
    <2>6. outcome \in StatisticalOutcome /\
          (outcome \in {"capability_pass", "capability_fail"} => worker[w].result = "lane")
      <3>1. worker[w].result \in {"lane", "error"}
        BY <1>1, <2>1, <2>5 DEF Knows, Worked, Busy
      <3>. QED
        BY <1>3, <2>1, <3>1 DEF FinishOutcomes, StatisticalOutcome
    <2>7. outcome \in {"capability_pass", "capability_fail"} => a.reconciliation = "OBSERVED"
      BY <1>1, <2>5, <2>6 DEF Knows
    <2>8. a.reconciliation # "NONE"
      BY <1>3, <2>1, <2>2 DEF MayFinish
    <2>9a. PICK status, target :
             /\ status = TERMINAL_STATUS_BY_OUTCOME[outcome]
             /\ target = LifecycleTerminalByOutcome[outcome]
      OBVIOUS
    <2> DEFINE b == AppendEvent(a, target)
    <2>9. /\ status \in TERMINAL_STATUSES /\ target = LifecycleOfStatus[status]
          /\ target \in {"COMPLETED", "FAILED_CAPABILITY", "FAILED_INFRA", "CANCELLED"}
          /\ target \in {"COMPLETED", "FAILED_CAPABILITY"}
               => outcome \in {"capability_pass", "capability_fail"}
      BY <2>6, <2>9a DEF TERMINAL_STATUS_BY_OUTCOME, LifecycleTerminalByOutcome, StatisticalOutcome,
                  LifecycleOfStatus, TERMINAL_STATUSES, RunStatus
    <2>10. b.state = target /\ b.reconciliation = a.reconciliation
      <3>1. target \in LifecycleState
        BY <2>9 DEF LifecycleState
      <3>. QED
        BY <2>2, <3>1, AppendedIs
    <2>11. /\ FinishedRun(run[r], made[r], outcome).status = status
           /\ FinishedRun(run[r], made[r], outcome).attempt = run[r].attempt
      BY <2>2, <2>6, <2>9a, FinishedRunIs
    <2>12. att' = [att EXCEPT ![r][made[r]] = b]
      BY <1>3, <2>9a
    <2>. HIDE DEF b, a
    <2>13. /\ run'[r] = FinishedRun(run[r], made[r], outcome) /\ att'[r][made[r]] = b
           /\ EarlierKept(r) /\ \A s \in Runs : s # r => Moved(s)
      <3>1. made' = made /\ r \in Runs
        BY <1>1
      <3>2. run' = [run EXCEPT ![r] = FinishedRun(run[r], made[r], outcome)]
        BY <1>3
      <3>. QED
        BY <2>12, <3>1, <3>2, ReplacedSlot
    <2>14. Agree(status, target)
      BY <2>9 DEF Agree, TERMINAL_STATUSES
    <2>15. AttemptOK(b)
      BY <2>7, <2>8, <2>9, <2>10 DEF AttemptOK
    <2>16. Ends(run[r], run'[r], a, att'[r][made[r]])
      BY <2>9, <2>10, <2>11, <2>13, <2>14, <2>15 DEF Ends
    <2>. QED
      BY <2>13, <2>16 DEF Moved, a
  <1>. QED
    BY <1>0, <1>2, <1>3 DEF FinishRun

-----------------------------------------------------------------------------
(* The operator and the clock. *)

\* A CANCEL ends what it withdraws and leaves every other status alone.
LEMMA ApplyCancelMovesSlots ==
  ASSUME TypeOK, NEW slots \in SUBSET Runs, NEW seen, ApplyCancel(slots, seen)
  PROVE  \A s \in Runs : Moved(s)
  <1> DEFINE withdrawn == {r \in Selected(slots) : seen[r] = "QUEUED"}
             flagged == {r \in Selected(slots) : seen[r] \notin TERMINAL_STATES} \ withdrawn
  <1>1. SUFFICES ASSUME NEW s \in Runs PROVE Moved(s)
    OBVIOUS
  <1>2. /\ run[s] \in RunRow /\ att[s][made[s]] \in AttemptRow /\ made[s] \in AttemptNumber
        /\ att[s] \in [AttemptNumber -> AttemptRow]
    BY DEF TypeOK
  <1>3. made'[s] = made[s]
    BY DEF ApplyCancel
  <1>4. CASE s \in withdrawn
    <2>1. run'[s] = [run[s] EXCEPT !.status = "CANCELLED"]
      BY <1>4 DEF ApplyCancel
    <2>2. att'[s] = [att[s] EXCEPT ![made[s]] = AppendFrom(att[s][made[s]], seen[s], "CANCELLED")]
      BY <1>4 DEF ApplyCancel
    <2>3. run'[s].status = "CANCELLED" /\ run'[s].attempt = run[s].attempt
      BY <1>2, <2>1, MovedRowIs
    <2>4. PICK b : b = AppendFrom(att[s][made[s]], seen[s], "CANCELLED")
      OBVIOUS
    <2>5. b.state = "CANCELLED" /\ b.reconciliation = att[s][made[s]].reconciliation
      BY <1>2, <2>4, AppendedIs, StatesInType
    <2>6. att'[s][made[s]] = b /\ \A n \in AttemptNumber : n # made[s] => att'[s][n] = att[s][n]
      BY <1>2, <2>2, <2>4
    <2>7. Ends(run[s], run'[s], att[s][made[s]], att'[s][made[s]])
      BY <2>3, <2>5, <2>6
         DEF Ends, Agree, AttemptOK, TERMINAL_STATUSES, LifecycleOfStatus, RunStatus
    <2>. QED
      BY <1>3, <2>6, <2>7 DEF Moved, EarlierKept
  <1>5. CASE s \notin withdrawn
    <2>1. att'[s] = att[s]
      BY <1>5 DEF ApplyCancel
    <2>2. \/ run'[s] = run[s]
          \/ run'[s] = [run[s] EXCEPT !.cancellation_requested = TRUE]
      BY <1>5, Zenon DEF ApplyCancel
    <2>3. run'[s].status = run[s].status /\ run'[s].attempt = run[s].attempt
      BY <1>2, <2>2, FlaggedRowIs
    <2>. QED
      BY <1>3, <2>1, <2>3, UntouchedMoves
  <1>. QED
    BY <1>4, <1>5

LEMMA RetryMovesSlots ==
  ASSUME TypeOK, NEW slots \in SUBSET Runs, RetryInfraSelected(slots)
  PROVE  \A s \in Runs : Moved(s)
  <1>1. SUFFICES ASSUME NEW s \in Runs PROVE Moved(s)
    OBVIOUS
  <1>2. CASE s \in slots
    <2>1. /\ made'[s] = made[s] + 1 /\ att'[s] = att[s]
          /\ run'[s] = RequeuedRun(run[s], made[s]) /\ Current(s).state = "FAILED_INFRA"
      BY <1>2 DEF RetryInfraSelected
    <2>2. run'[s].status = "QUEUED" /\ run'[s].attempt = made[s]
      BY <2>1, SlotTypes, RequeuedRunIs
    <2>. QED
      BY <2>1, <2>2 DEF Moved, Retried, Current
  <1>3. CASE s \notin slots
    <2>1. made'[s] = made[s] /\ att'[s] = att[s] /\ run'[s] = run[s]
      BY <1>3 DEF RetryInfraSelected
    <2>. QED
      BY <2>1, UntouchedMoves
  <1>. QED
    BY <1>2, <1>3

LEMMA RunCancellationMovesSlots ==
  ASSUME TypeOK, NEW r \in Runs, RequestRunCancellation(r)
  PROVE  \A s \in Runs : Moved(s)
  <1>1. made' = made
    BY DEF RequestRunCancellation
  <1>2. /\ run[r] \in RunRow /\ att[r][made[r]] \in AttemptRow /\ made[r] \in AttemptNumber
    BY DEF TypeOK
  <1>3. PICK yes \in BOOLEAN : yes = TRUE
    BY Zenon
  <1>4. CASE run[r].status = "QUEUED"
    <2>1. PICK cancelled \in RunRow :
            /\ cancelled = CancelledRun(run[r])
            /\ cancelled.status = "CANCELLED" /\ cancelled.attempt = run[r].attempt
      BY <1>2, CancelledRunIs, CancelledRunType
    <2>2. PICK b : b = AppendEvent(att[r][made[r]], "CANCELLED")
      OBVIOUS
    <2>3. b.state = "CANCELLED" /\ b.reconciliation = att[r][made[r]].reconciliation
      BY <1>2, <2>2, AppendedIs, StatesInType
    <2>4. PICK row2 : row2 = [cancelled EXCEPT !.cancellation_requested = yes]
      OBVIOUS
    <2>5. row2.status = "CANCELLED" /\ row2.attempt = run[r].attempt
      BY <2>1, <2>4, FlaggedRowIs
    <2>6. run' = [run EXCEPT ![r] = row2]
      BY <1>3, <1>4, <2>1, <2>4, Zenon DEF RequestRunCancellation
    <2>7. att' = [att EXCEPT ![r][made[r]] = b]
      BY <1>4, <2>2 DEF RequestRunCancellation
    <2>8. /\ run'[r] = row2 /\ att'[r][made[r]] = b /\ EarlierKept(r)
          /\ \A s \in Runs : s # r => Moved(s)
      BY <1>1, <2>6, <2>7, ReplacedSlot
    <2>9. Ends(run[r], run'[r], att[r][made[r]], att'[r][made[r]])
      BY <2>3, <2>5, <2>8
         DEF Ends, Agree, AttemptOK, TERMINAL_STATUSES, LifecycleOfStatus, RunStatus
    <2>. QED
      BY <2>8, <2>9 DEF Moved
  <1>5. CASE run[r].status # "QUEUED"
    <2>1. PICK row2 : row2 = [run[r] EXCEPT !.cancellation_requested = yes]
      OBVIOUS
    <2>2. row2.status = run[r].status /\ row2.attempt = run[r].attempt
      BY <1>2, <2>1, FlaggedRowIs
    <2>3. run' = [run EXCEPT ![r].cancellation_requested = yes]
      BY <1>3, <1>5, Zenon DEF RequestRunCancellation
    <2>4. run' = [run EXCEPT ![r] = row2]
      BY <2>1, <2>3 DEF TypeOK
    <2>5. att' = att
      BY <1>5 DEF RequestRunCancellation
    <2>. QED
      BY <1>1, <2>2, <2>4, <2>5, ReplacedRow
  <1>. QED
    BY <1>4, <1>5

LEMMA OperatorMovesSlots ==
  ASSUME TypeOK, Operator
  PROVE  (\A s \in Runs : Moved(s)) /\ worker' = worker
  <1>1. CASE Pause \/ Resume \/ RunRemaining \/ RollBackCancel
    BY <1>1, RowsKeptMove DEF Pause, Resume, RunRemaining, RollBackCancel
  <1>2. ASSUME NEW slots \in SUBSET Runs, RetryInfraSelected(slots)
        PROVE  (\A s \in Runs : Moved(s)) /\ worker' = worker
    BY <1>2, RetryMovesSlots DEF RetryInfraSelected
  <1>3. ASSUME NEW slots \in SUBSET Runs, IssueCancel(slots)
        PROVE  (\A s \in Runs : Moved(s)) /\ worker' = worker
    BY <1>3, ApplyCancelMovesSlots DEF IssueCancel, ApplyCancel
  <1>4. ASSUME NEW slots \in SUBSET Runs, ReadCancel(slots)
        PROVE  (\A s \in Runs : Moved(s)) /\ worker' = worker
    BY <1>4, RowsKeptMove DEF ReadCancel
  <1>5. CASE CommitCancel
    <2>1. cancel.slots \in SUBSET Runs /\ ApplyCancel(cancel.slots, cancel.seen)
      BY <1>5 DEF TypeOK, CommitCancel
    <2>2. worker' = worker
      BY <2>1 DEF ApplyCancel
    <2>. QED
      BY <2>1, <2>2, ApplyCancelMovesSlots
  <1>6. ASSUME NEW r \in Runs, RequestRunCancellation(r)
        PROVE  (\A s \in Runs : Moved(s)) /\ worker' = worker
    BY <1>6, RunCancellationMovesSlots DEF RequestRunCancellation
  <1>. QED
    BY <1>1, <1>2, <1>3, <1>4, <1>5, <1>6 DEF Operator

LEMMA TickMovesSlots ==
  ASSUME TypeOK, Tick
  PROVE  \A s \in Runs : Moved(s)
  <1>1. SUFFICES ASSUME NEW s \in Runs PROVE Moved(s)
    OBVIOUS
  <1>2. /\ run[s] \in RunRow
        /\ made'[s] = made[s] /\ att'[s] = att[s]
        /\ run'[s] = IF run[s].lease > 0 THEN [run[s] EXCEPT !.lease = @ - 1] ELSE run[s]
    BY DEF Tick, TypeOK
  <1>3. run'[s].status = run[s].status /\ run'[s].attempt = run[s].attempt
    <2>1. CASE run'[s] = run[s]
      BY <2>1
    <2>2. PICK ticks : ticks = run[s].lease - 1
      OBVIOUS
    <2>3. CASE run'[s] = [run[s] EXCEPT !.lease = ticks]
      BY <1>2, <2>3, LeasedRowIs
    <2>. QED
      BY <1>2, <2>1, <2>2, <2>3
  <1>. QED
    BY <1>2, <1>3, UntouchedMoves

\* The heartbeat renews the lease, or ends a run whose cancellation was requested.
LEMMA HeartbeatMovesSlots ==
  ASSUME TypeOK, NEW w \in Workers, Heartbeat(w)
  PROVE  \A s \in Runs : Moved(s)
  <1>1. PICK r \in Runs : r = worker[w].run
    BY BusyType DEF Heartbeat
  <1>2. made' = made
    BY DEF Heartbeat
  <1>3. CASE CancelNow(r)
    BY <1>2, <1>3, CancelNowEnds
  <1>4. CASE run' = run /\ att' = att
    BY <1>2, <1>4, RowsKeptMove
  <1>5. CASE run' = [run EXCEPT ![r].lease = TTL] /\ att' = att
    <2>1. PICK row2 : row2 = [run[r] EXCEPT !.lease = TTL]
      OBVIOUS
    <2>2. row2.status = run[r].status /\ row2.attempt = run[r].attempt
      BY <2>1, SlotTypes, LeasedRowIs
    <2>3. run' = [run EXCEPT ![r] = row2]
      BY <1>5, <2>1 DEF TypeOK
    <2>4. att' = att
      BY <1>5
    <2>. QED
      BY <1>2, <2>2, <2>3, <2>4, ReplacedRow
  <1>. QED
    BY <1>1, <1>3, <1>4, <1>5 DEF Heartbeat

-----------------------------------------------------------------------------
(* The coroutines. *)

\* One coroutine moves; the others keep what they know, and their attempts apart.
LEMMA WorkersKeep ==
  ASSUME TypeOK, TypeOK', SlotInv, WorkerInv, OneCoroutine, NEW w \in Workers,
         \A v \in Workers : v # w => worker'[v] = worker[v],
         \A s \in Runs :
            \/ Moved(s)
            \/ /\ EarlierKept(s) /\ Advancing(s)
               /\ \A v \in Workers : v # w /\ worker[v] # Idle /\ worker[v].run = s
                    => worker[v].attempt # run[s].attempt,
         worker'[w] # Idle =>
            /\ Knows(worker'[w], run'[worker'[w].run], made'[worker'[w].run],
                     att'[worker'[w].run][worker'[w].attempt].reconciliation)
            /\ \A v \in Workers : v # w /\ worker[v] # Idle /\ worker[v].run = worker'[w].run
                 => worker[v].attempt # worker'[w].attempt
  PROVE  WorkerInv' /\ OneCoroutine'
  <1>1. ASSUME NEW v \in Workers, v # w, worker[v] # Idle
        PROVE  Knows(worker[v], run'[worker[v].run], made'[worker[v].run],
                     att'[worker[v].run][worker[v].attempt].reconciliation)
    <2>1. PICK x \in Busy : x = worker[v]
      BY <1>1 DEF TypeOK
    <2>2. x.run \in Runs
      BY DEF Busy
    <2>3. SlotOK(x.run) /\
          Knows(x, run[x.run], made[x.run], att[x.run][x.attempt].reconciliation)
      BY <1>1, <2>1, <2>2 DEF SlotInv, WorkerInv
    <2>4. \/ Moved(x.run)
          \/ EarlierKept(x.run) /\ Advancing(x.run) /\ x.attempt # run[x.run].attempt
      BY <1>1, <2>1, <2>2
    <2>5. Knows(x, run'[x.run], made'[x.run], att'[x.run][x.attempt].reconciliation)
      BY <2>3, <2>4, StepKeepsKnowledge
    <2>. QED
      BY <2>1, <2>5
  <1>2. WorkerInv'
    BY <1>1 DEF WorkerInv
  <1>3. OneCoroutine'
    BY DEF OneCoroutine
  <1>. QED
    BY <1>2, <1>3

\* A coroutine ends, or nothing happens to any.
LEMMA EndedWorkersKeep ==
  ASSUME TypeOK, TypeOK', SlotInv, WorkerInv, OneCoroutine, NEW w \in Workers,
         worker' = [worker EXCEPT ![w] = Idle], \A s \in Runs : Moved(s)
  PROVE  WorkerInv' /\ OneCoroutine'
  <1>1. /\ \A v \in Workers : v # w => worker'[v] = worker[v]
        /\ worker'[w] = Idle
    BY DEF TypeOK
  <1>. QED
    BY <1>1, WorkersKeep

LEMMA RestingWorkersKeep ==
  ASSUME TypeOK, TypeOK', SlotInv, WorkerInv, OneCoroutine,
         worker' = worker, \A s \in Runs : Moved(s)
  PROVE  WorkerInv' /\ OneCoroutine'
  <1>1. ASSUME NEW v \in Workers, worker[v] # Idle
        PROVE  Knows(worker[v], run'[worker[v].run], made'[worker[v].run],
                     att'[worker[v].run][worker[v].attempt].reconciliation)
    <2>1. PICK x \in Busy : x = worker[v]
      BY <1>1 DEF TypeOK
    <2>2. x.run \in Runs
      BY DEF Busy
    <2>3. SlotOK(x.run) /\
          Knows(x, run[x.run], made[x.run], att[x.run][x.attempt].reconciliation)
      BY <1>1, <2>1, <2>2 DEF SlotInv, WorkerInv
    <2>4. Moved(x.run)
      BY <2>2
    <2>5. Knows(x, run'[x.run], made'[x.run], att'[x.run][x.attempt].reconciliation)
      BY <2>3, <2>4, StepKeepsKnowledge
    <2>. QED
      BY <2>1, <2>5
  <1>. QED
    BY <1>1 DEF WorkerInv, OneCoroutine

\* The coroutine that moves goes on with its claim: what must be shown is that
\* it knows its row at its next step, if it knew it before.
LEMMA GoingOnKeeps ==
  ASSUME TypeOK, TypeOK', SlotInv, WorkerInv, OneCoroutine, NEW w \in Workers, NEW x \in Busy,
         worker[w] # Idle, worker' = [worker EXCEPT ![w] = x], \A s \in Runs : Moved(s),
         x.run = worker[w].run, x.attempt = worker[w].attempt,
         run'[x.run].status \in ACTIVE_STATUSES /\ run'[x.run].attempt = x.attempt
           => \/ worker[w].pc \in {"cancelled", "interrupted"}
              \/ run'[x.run].status # StatusOfStep[worker[w].pc]
              \/ x.pc \notin {"cancelled", "interrupted"} /\ run'[x.run].status = StatusOfStep[x.pc],
         x.pc \in Worked => x.result # "none",
         x.pc = "reconciled" /\ x.result = "lane"
              => att'[x.run][x.attempt].reconciliation = "OBSERVED"
  PROVE  WorkerInv' /\ OneCoroutine'
  <1>1. /\ \A v \in Workers : v # w => worker'[v] = worker[v]
        /\ worker'[w] = x
    BY DEF TypeOK
  <1>2. PICK v \in Busy : v = worker[w]
    BY DEF TypeOK
  <1>3. v.run \in Runs
    BY DEF Busy
  <1>4. SlotOK(v.run) /\
        Knows(v, run[v.run], made[v.run], att[v.run][v.attempt].reconciliation)
    BY <1>2, <1>3 DEF SlotInv, WorkerInv
  <1>5. Moved(v.run)
    BY <1>3
  <1>6. Knows(v, run'[v.run], made'[v.run], att'[v.run][v.attempt].reconciliation)
    BY <1>4, <1>5, StepKeepsKnowledge
  <1>7. Knows(x, run'[x.run], made'[x.run], att'[x.run][x.attempt].reconciliation)
    BY <1>2, <1>6 DEF Knows
  <1>8. \A u \in Workers : u # w /\ worker[u] # Idle /\ worker[u].run = x.run
            => worker[u].attempt # x.attempt
    BY DEF OneCoroutine
  <1>. QED
    BY <1>1, <1>7, <1>8, WorkersKeep

-----------------------------------------------------------------------------
LEMMA ClaimKeepsWorkers ==
  ASSUME TypeOK, TypeOK', SlotInv, WorkerInv, OneCoroutine, NEW w \in Workers,
         ClaimAuthoritativeRun(w)
  PROVE  WorkerInv' /\ OneCoroutine'
  <1>1. CASE worker' = worker
    BY <1>1, ClaimMovesSlots, RestingWorkersKeep
  <1>2. ASSUME NEW r \in Runs, EarlierKept(r), Claiming(r), run[r].status = "QUEUED",
               run'[r].status = "CLAIMED",
               worker' = [worker EXCEPT ![w] =
                        [pc |-> "claimed", run |-> r, attempt |-> made[r],
                         beat |-> "ok", result |-> "none"]]
        PROVE  WorkerInv' /\ OneCoroutine'
    <2>1. PICK x : x = [pc |-> "claimed", run |-> r, attempt |-> made[r],
                        beat |-> "ok", result |-> "none"]
      OBVIOUS
    <2>2. /\ x.pc = "claimed" /\ x.run = r /\ x.attempt = made[r] /\ x.result = "none"
      BY <2>1
    <2>3. /\ \A v \in Workers : v # w => worker'[v] = worker[v]
          /\ worker'[w] = x
      BY <1>2, <2>1 DEF TypeOK
    <2>4. made'[r] = made[r] /\ run'[r].attempt = made[r] /\ made[r] \in Int
      BY <1>2, SlotTypes DEF EarlierKept, Claiming, Claims
    <2>5. Knows(x, run'[r], made'[r], att'[r][x.attempt].reconciliation)
      BY <1>2, <2>2, <2>4 DEF Knows, StatusOfStep, WorkerStep, Worked
    <2>6. ASSUME NEW v \in Workers, v # w, worker[v] # Idle, worker[v].run = r
          PROVE  worker[v].attempt # made[r]
      <3>1. worker[v].attempt < made[r] /\ worker[v].attempt \in Int
        BY <1>2, <2>6 DEF WorkerInv, Knows, TypeOK, Busy, AttemptNumber
      <3>. QED
        BY <2>4, <3>1
    <2>7. \A s \in Runs : Moved(s)
      BY ClaimMovesSlots
    <2>. QED
      BY <2>2, <2>3, <2>5, <2>6, <2>7, WorkersKeep
  <1>. QED
    BY <1>1, <1>2, ClaimMovesSlots

LEMMA TransitionRunKeepsWorkers ==
  ASSUME TypeOK, TypeOK', SlotInv, WorkerInv, OneCoroutine, NEW w \in Workers,
         NEW pc \in WorkerStep, NEW target,
         NEW next \in {"prepared", "running", "verified", "scored"},
         target = StatusOfStep[next], next \in Worked => pc \in Worked,
         TransitionRun(w, pc, target, next)
  PROVE  /\ \A s \in Runs : SlotStep(s)
         /\ WorkerInv' /\ OneCoroutine'
  <1>1. PICK r \in Runs : r = worker[w].run /\ worker[w] # Idle /\ worker[w] \in Busy
    BY BusyType DEF TransitionRun, WorkerStep, Idle
  <1>2. made' = made /\ worker[w].pc = pc
    BY DEF TransitionRun
  <1>3. CASE Raise(w)
    <2>1. \A s \in Runs : Moved(s)
      BY <1>2, <1>3, RowsKeptMove DEF Raise
    <2>2. worker' = [worker EXCEPT ![w] = Idle]
      BY <1>3 DEF Raise
    <2>. QED
      BY <2>1, <2>2, EndedWorkersKeep DEF SlotStep
  <1>4. CASE CancelNow(r) /\ worker' = [worker EXCEPT ![w].pc = "cancelled"]
    <2>1. (\A s \in Runs : Moved(s)) /\ run'[r].status = "CANCELLED"
      BY <1>2, <1>4, CancelNowEnds
    <2>2. PICK x : x = [worker[w] EXCEPT !.pc = "cancelled"]
      OBVIOUS
    <2>3. x \in Busy /\ x.pc = "cancelled" /\ x.run = r /\ x.attempt = worker[w].attempt
      BY <1>1, <2>2 DEF Busy, WorkerStep
    <2>4. worker' = [worker EXCEPT ![w] = x]
      BY <1>4, <2>2 DEF TypeOK
    <2>5. run'[r].status \notin ACTIVE_STATUSES
      BY <2>1 DEF ACTIVE_STATUSES
    <2>6. x.run = worker[w].run /\ run'[x.run].status \notin ACTIVE_STATUSES
      BY <1>1, <2>3, <2>5
    <2>7. x.pc \notin Worked /\ x.pc # "reconciled"
      BY <2>3 DEF Worked
    <2>8. WorkerInv' /\ OneCoroutine'
      BY <1>1, <2>1, <2>3, <2>4, <2>6, <2>7, GoingOnKeeps
    <2>. QED
      BY <2>1, <2>8 DEF SlotStep
  <1>5. CASE ActiveOwner(w) /\ Advance(r, target) /\ worker' = [worker EXCEPT ![w].pc = next]
    <2>1. /\ \A s \in Runs : s # r => Moved(s)
          /\ EarlierKept(r) /\ Advancing(r) /\ run'[r].status = target
          /\ run'[r].attempt = run[r].attempt
      BY <1>2, <1>5, AdvanceAdvances DEF SlotInv
    <2>2. run[r].attempt = worker[w].attempt /\ made'[r] = made[r]
      BY <1>1, <1>2, <1>5 DEF ActiveOwner
    <2>3. PICK x : x = [worker[w] EXCEPT !.pc = next]
      OBVIOUS
    <2>4. /\ x \in Busy /\ x.pc = next /\ x.run = r /\ x.attempt = worker[w].attempt
          /\ x.result = worker[w].result
      BY <1>1, <2>3 DEF Busy, WorkerStep
    <2>5. /\ \A v \in Workers : v # w => worker'[v] = worker[v]
          /\ worker'[w] = x
      BY <1>5, <2>3 DEF TypeOK
    <2>6. Knows(worker[w], run[r], made[r], att[r][worker[w].attempt].reconciliation)
      BY <1>1 DEF WorkerInv
    <2>7. target # "QUEUED"
      BY DEF StatusOfStep, WorkerStep
    <2>8. Knows(x, run'[r], made'[r], att'[r][x.attempt].reconciliation)
      BY <1>2, <2>1, <2>2, <2>4, <2>6, <2>7 DEF Knows
    <2>9. \A v \in Workers : v # w /\ worker[v] # Idle /\ worker[v].run = r
             => worker[v].attempt # worker[w].attempt
      BY <1>1 DEF OneCoroutine
    <2>10. \A s \in Runs :
             \/ Moved(s)
             \/ /\ EarlierKept(s) /\ Advancing(s)
                /\ \A v \in Workers : v # w /\ worker[v] # Idle /\ worker[v].run = s
                     => worker[v].attempt # run[s].attempt
      BY <2>1, <2>2, <2>9
    <2>11. WorkerInv' /\ OneCoroutine'
      BY <2>4, <2>5, <2>8, <2>9, <2>10, WorkersKeep
    <2>12. \A s \in Runs : SlotStep(s)
      BY <2>1 DEF SlotStep
    <2>. QED
      BY <2>11, <2>12
  <1>. QED
    BY <1>1, <1>3, <1>4, <1>5 DEF TransitionRun

\* A beat: the lease is renewed, the run is cancelled, or the claim is lost.
LEMMA HeartbeatKeepsWorkers ==
  ASSUME TypeOK, TypeOK', SlotInv, WorkerInv, OneCoroutine, NEW w \in Workers, Heartbeat(w)
  PROVE  WorkerInv' /\ OneCoroutine'
  <1>1. PICK r \in Runs : r = worker[w].run /\ worker[w] # Idle /\ worker[w] \in Busy
    BY BusyType DEF Heartbeat, Idle
  <1>2. worker[w].pc = "running"
    BY DEF Heartbeat
  <1>3. \A s \in Runs : Moved(s)
    BY HeartbeatMovesSlots
  <1>4. CASE worker' = worker
    BY <1>3, <1>4, RestingWorkersKeep
  <1>5. ASSUME NEW beat \in {"lost", "cancelled"}, worker' = [worker EXCEPT ![w].beat = beat]
        PROVE  WorkerInv' /\ OneCoroutine'
    <2>1. PICK x : x = [worker[w] EXCEPT !.beat = beat]
      OBVIOUS
    <2>2. /\ x \in Busy /\ x.pc = "running" /\ x.run = worker[w].run
          /\ x.attempt = worker[w].attempt /\ x.result = worker[w].result
      BY <1>1, <1>2, <2>1 DEF Busy
    <2>3. worker' = [worker EXCEPT ![w] = x]
      BY <1>5, <2>1 DEF TypeOK
    <2>4. \/ run'[x.run].status # StatusOfStep[worker[w].pc]
          \/ x.pc \notin {"cancelled", "interrupted"} /\ run'[x.run].status = StatusOfStep[x.pc]
      BY <1>2, <2>2
    <2>5. x.pc \notin Worked /\ x.pc # "reconciled"
      BY <2>2 DEF Worked
    <2>6. x.run = worker[w].run /\ x.attempt = worker[w].attempt
      BY <2>2
    <2>7. x \in Busy
      BY <2>2
    <2>. QED
      BY <1>1, <1>3, <2>3, <2>4, <2>5, <2>6, <2>7, GoingOnKeeps
  <1>. QED
    BY <1>4, <1>5 DEF Heartbeat

LEMMA DispatchedKeepsWorkers ==
  ASSUME TypeOK, TypeOK', SlotInv, WorkerInv, OneCoroutine, NEW w \in Workers, Dispatched(w)
  PROVE  WorkerInv' /\ OneCoroutine'
  <1>1. worker[w] # Idle /\ worker[w] \in Busy /\ worker[w].pc = "running"
    BY BusyType DEF Dispatched, Idle
  <1>2. \A s \in Runs : Moved(s)
    BY RowsKeptMove DEF Dispatched
  <1>3. PICK result \in {"lane", "error"} :
          worker' = [worker EXCEPT ![w] =
                     [worker[w] EXCEPT
                        !.pc = IF worker[w].beat = "ok" THEN "dispatched" ELSE "ended",
                        !.beat = "ok", !.result = result]]
    BY DEF Dispatched
  <1>4. PICK pc \in {"dispatched", "ended"} :
          pc = IF worker[w].beat = "ok" THEN "dispatched" ELSE "ended"
    OBVIOUS
  <1>5. PICK x : x = [worker[w] EXCEPT !.pc = pc, !.beat = "ok", !.result = result]
    OBVIOUS
  <1>6. /\ x \in Busy /\ x.pc = pc /\ x.run = worker[w].run
        /\ x.attempt = worker[w].attempt /\ x.result = result
    BY <1>1, <1>5 DEF Busy, WorkerStep
  <1>7. worker' = [worker EXCEPT ![w] = x]
    BY <1>3, <1>4, <1>5
  <1>8. StatusOfStep["running"] = "RUNNING" /\ StatusOfStep[pc] = "RUNNING"
    BY DEF StatusOfStep, WorkerStep
  <1>9. \/ run'[x.run].status # StatusOfStep[worker[w].pc]
        \/ x.pc \notin {"cancelled", "interrupted"} /\ run'[x.run].status = StatusOfStep[x.pc]
    BY <1>1, <1>6, <1>8
  <1>10. x.result # "none" /\ x.pc # "reconciled"
    BY <1>6
  <1>11. x.run = worker[w].run /\ x.attempt = worker[w].attempt
    BY <1>6
  <1>12. x \in Busy
    BY <1>6
  <1>. QED
    BY <1>1, <1>2, <1>7, <1>9, <1>10, <1>11, <1>12, GoingOnKeeps

LEMMA InspectKeepsWorkers ==
  ASSUME TypeOK, TypeOK', SlotInv, WorkerInv, OneCoroutine, NEW w \in Workers, Inspect(w)
  PROVE  WorkerInv' /\ OneCoroutine'
  <1>1. worker[w] # Idle /\ worker[w] \in Busy /\ worker[w].pc = "ended"
    BY BusyType DEF Inspect, Idle
  <1>2. (\A s \in Runs : Moved(s)) /\ run' = run
    BY RowsKeptMove DEF Inspect
  <1>3. CASE run[worker[w].run].status \in {"FAILED_INFRA", "CANCELLED"}
    <2>1. PICK x : x = [worker[w] EXCEPT !.pc = "interrupted"]
      OBVIOUS
    <2>2. /\ x \in Busy /\ x.pc = "interrupted" /\ x.run = worker[w].run
          /\ x.attempt = worker[w].attempt
      BY <1>1, <2>1 DEF Busy, WorkerStep
    <2>3. worker' = [worker EXCEPT ![w] = x]
      BY <1>3, <2>1 DEF Inspect
    <2>4. run'[x.run].status \notin ACTIVE_STATUSES
      BY <1>2, <1>3, <2>2 DEF ACTIVE_STATUSES
    <2>5. x.pc \notin Worked /\ x.pc # "reconciled"
      BY <2>2 DEF Worked
    <2>6. x.run = worker[w].run /\ x.attempt = worker[w].attempt
      BY <2>2
    <2>7. x \in Busy
      BY <2>2
    <2>8. \A s \in Runs : Moved(s)
      BY <1>2
    <2>. QED
      BY <1>1, <2>3, <2>4, <2>5, <2>6, <2>7, <2>8, GoingOnKeeps
  <1>4. CASE run[worker[w].run].status \notin {"FAILED_INFRA", "CANCELLED"}
    <2>1. worker' = [worker EXCEPT ![w] = Idle]
      BY <1>4 DEF Inspect
    <2>. QED
      BY <1>2, <2>1, EndedWorkersKeep
  <1>. QED
    BY <1>3, <1>4

\* A settlement: the coroutine that scored goes on to finish_run, and it carries
\* a lane result only if the attempt was settled from one.
LEMMA ReconcileKeepsWorkers ==
  ASSUME TypeOK, TypeOK', SlotInv, WorkerInv, OneCoroutine, NEW w \in Workers,
         ReconcileTerminal(w)
  PROVE  WorkerInv' /\ OneCoroutine'
  <1>1. worker[w].pc \in {"cancelled", "interrupted", "scored"}
    BY DEF ReconcileTerminal
  <1>2. worker[w] # Idle /\ worker[w] \in Busy /\ worker[w].run \in Runs
    BY <1>1, BusyType DEF Idle
  <1>3. \A s \in Runs : Moved(s)
    BY ReconcileMovesSlots
  <1>4. CASE worker' = [worker EXCEPT ![w] = Idle]
    BY <1>3, <1>4, EndedWorkersKeep
  <1>5. CASE MayReconcile(w) /\ Reconcile(w) /\ worker[w].pc = "scored"
             /\ worker' = [worker EXCEPT ![w] = AfterReconcile(w)]
    <2>1. PICK x : x = [worker[w] EXCEPT !.pc = "reconciled"]
      OBVIOUS
    <2>2. /\ x \in Busy /\ x.pc = "reconciled" /\ x.run = worker[w].run
          /\ x.attempt = worker[w].attempt /\ x.result = worker[w].result
      BY <1>2, <2>1 DEF Busy, WorkerStep
    <2>3. worker' = [worker EXCEPT ![w] = x]
      BY <1>5, <2>1 DEF AfterReconcile
    <2>4. StatusOfStep["scored"] = "SCORING" /\ StatusOfStep["reconciled"] = "SCORING"
      BY DEF StatusOfStep, WorkerStep
    <2>5. \/ run'[x.run].status # StatusOfStep[worker[w].pc]
          \/ x.pc \notin {"cancelled", "interrupted"} /\ run'[x.run].status = StatusOfStep[x.pc]
      BY <1>5, <2>2, <2>4
    <2>6. x.result # "none"
      BY <1>2, <1>5, <2>2 DEF WorkerInv, Knows, Worked
    <2>7. ASSUME x.result = "lane"
          PROVE  att'[x.run][x.attempt].reconciliation = "OBSERVED"
      <3>1. PICK r \in Runs : r = worker[w].run /\ made[r] = worker[w].attempt
        BY <1>2 , <1>5 DEF MayReconcile
      <3>2. Measured(w) /\ ~SameReceipt(w)
        BY <1>5, <2>2, <2>7 DEF Measured, SameReceipt
      <3>3. worker[w].pc # "idle" /\ AfterReconcile(w) # Idle
        BY <1>5, <2>1, <2>2 DEF AfterReconcile, Idle
      <3>4. worker' # [worker EXCEPT ![w] = Idle]
        BY <1>5, <3>3 DEF TypeOK
      <3>5. PICK amount \in 0 .. Maximum :
              att' = [att EXCEPT ![r][made[r]] = Settled(att[r][made[r]], "OBSERVED", amount)]
        BY <1>5, <3>1, <3>2, <3>4 DEF Reconcile
      <3>6. PICK b : b = Settled(att[r][made[r]], "OBSERVED", amount)
        OBVIOUS
      <3>7. b.reconciliation = "OBSERVED"
        BY <3>1, <3>6, SlotTypes, SettledIs
      <3>8. att'[r][made[r]] = b
        BY <3>1, <3>5, <3>6 DEF TypeOK
      <3>. QED
        BY <2>2, <3>1, <3>7, <3>8
    <2>8. x.run = worker[w].run /\ x.attempt = worker[w].attempt
      BY <2>2
    <2>9. x \in Busy
      BY <2>2
    <2>. QED
      BY <1>2, <1>3, <2>3, <2>5, <2>6, <2>7, <2>8, <2>9, GoingOnKeeps
  <1>6. \/ worker' = [worker EXCEPT ![w] = Idle]
        \/ /\ MayReconcile(w) /\ Reconcile(w)
           /\ worker' = [worker EXCEPT ![w] = AfterReconcile(w)]
    <2>1. CASE Raise(w)
      BY <2>1 DEF Raise
    <2>2. CASE Reconcile(w)
      BY <2>2, Zenon DEF Reconcile
    <2>. QED
      BY <2>1, <2>2 DEF ReconcileTerminal
  <1>7. worker[w].pc # "scored" => AfterReconcile(w) = Idle
    BY DEF AfterReconcile
  <1>. QED
    BY <1>4, <1>5, <1>6, <1>7

LEMMA FinishKeepsWorkers ==
  ASSUME TypeOK, TypeOK', SlotInv, WorkerInv, OneCoroutine, NEW w \in Workers, FinishRun(w)
  PROVE  WorkerInv' /\ OneCoroutine'
  <1>1. worker' = [worker EXCEPT ![w] = Idle]
    BY DEF FinishRun, Raise
  <1>. QED
    BY <1>1, FinishMovesSlots, EndedWorkersKeep

-----------------------------------------------------------------------------
(* The invariant is inductive. *)

CoreInv == TypeOK /\ SlotInv /\ WorkerInv /\ OneCoroutine

LEMMA ExecuteKeepsCore ==
  ASSUME TypeOK, TypeOK', SlotInv, WorkerInv, OneCoroutine, NEW w \in Workers, Execute(w)
  PROVE  /\ \A s \in Runs : SlotStep(s)
         /\ WorkerInv' /\ OneCoroutine'
  <1>1. /\ StatusOfStep["prepared"] = "PREPARING" /\ StatusOfStep["running"] = "RUNNING"
        /\ StatusOfStep["verified"] = "VERIFYING" /\ StatusOfStep["scored"] = "SCORING"
    BY DEF StatusOfStep, WorkerStep
  <1>2. CASE Prepare(w)
    BY <1>1, <1>2, TransitionRunKeepsWorkers DEF Prepare, WorkerStep, Worked
  <1>3. CASE Start(w)
    BY <1>1, <1>3, TransitionRunKeepsWorkers DEF Start, WorkerStep, Worked
  <1>4. CASE Verify(w)
    BY <1>1, <1>4, TransitionRunKeepsWorkers DEF Verify, WorkerStep, Worked
  <1>5. CASE Score(w)
    BY <1>1, <1>5, TransitionRunKeepsWorkers DEF Score, WorkerStep, Worked
  <1>6. CASE Dispatched(w)
    <2>1. \A s \in Runs : Moved(s)
      BY <1>6, RowsKeptMove DEF Dispatched
    <2>. QED
      BY <1>6, <2>1, DispatchedKeepsWorkers DEF SlotStep
  <1>7. CASE Inspect(w)
    <2>1. \A s \in Runs : Moved(s)
      BY <1>7, RowsKeptMove DEF Inspect
    <2>. QED
      BY <1>7, <2>1, InspectKeepsWorkers DEF SlotStep
  <1>8. CASE ReconcileTerminal(w)
    BY <1>8, ReconcileMovesSlots, ReconcileKeepsWorkers DEF SlotStep
  <1>9. CASE FinishRun(w)
    BY <1>9, FinishMovesSlots, FinishKeepsWorkers DEF SlotStep
  <1>. QED
    BY <1>2, <1>3, <1>4, <1>5, <1>6, <1>7, <1>8, <1>9 DEF Execute

LEMMA StepKeepsWorkers ==
  ASSUME TypeOK, TypeOK', SlotInv, WorkerInv, OneCoroutine, [Next]_vars
  PROVE  /\ \A s \in Runs : SlotStep(s)
         /\ WorkerInv' /\ OneCoroutine'
  <1>1. ASSUME NEW w \in Workers, ClaimAuthoritativeRun(w)
        PROVE  (\A s \in Runs : SlotStep(s)) /\ WorkerInv' /\ OneCoroutine'
    BY <1>1, ClaimMovesSlots, ClaimKeepsWorkers DEF SlotStep
  <1>2. ASSUME NEW w \in Workers, Execute(w)
        PROVE  (\A s \in Runs : SlotStep(s)) /\ WorkerInv' /\ OneCoroutine'
    BY <1>2, ExecuteKeepsCore
  <1>3. ASSUME NEW w \in Workers, Heartbeat(w)
        PROVE  (\A s \in Runs : SlotStep(s)) /\ WorkerInv' /\ OneCoroutine'
    BY <1>3, HeartbeatMovesSlots, HeartbeatKeepsWorkers DEF SlotStep
  <1>4. ASSUME NEW w \in Workers, Crash(w)
        PROVE  (\A s \in Runs : SlotStep(s)) /\ WorkerInv' /\ OneCoroutine'
    <2>1. \A s \in Runs : Moved(s)
      BY <1>4, RowsKeptMove DEF Crash
    <2>2. worker' = [worker EXCEPT ![w] = Idle]
      BY <1>4 DEF Crash
    <2>. QED
      BY <2>1, <2>2, EndedWorkersKeep DEF SlotStep
  <1>5. CASE Tick
    <2>1. worker' = worker /\ \A s \in Runs : Moved(s)
      BY <1>5, TickMovesSlots DEF Tick
    <2>. QED
      BY <2>1, RestingWorkersKeep DEF SlotStep
  <1>6. CASE Operator
    <2>1. worker' = worker /\ \A s \in Runs : Moved(s)
      BY <1>6, OperatorMovesSlots
    <2>. QED
      BY <2>1, RestingWorkersKeep DEF SlotStep
  <1>7. CASE UNCHANGED vars
    <2>1. worker' = worker /\ \A s \in Runs : Moved(s)
      BY <1>7, RowsKeptMove DEF vars
    <2>. QED
      BY <2>1, RestingWorkersKeep DEF SlotStep
  <1>. QED
    BY <1>1, <1>2, <1>3, <1>4, <1>5, <1>6, <1>7 DEF Next

LEMMA InitCore == Init => CoreInv
  <1>. SUFFICES ASSUME Init PROVE CoreInv
    OBVIOUS
  <1>1. TypeOK
    BY InitTypeOK
  <1>2. ASSUME NEW r \in Runs PROVE SlotOK(r)
    <2>1. /\ run[r].status = "QUEUED" /\ run[r].attempt = 0 /\ made[r] = 1
          /\ att[r] = [n \in AttemptNumber |-> NewAttempt]
      BY DEF Init
    <2>2. 1 \in AttemptNumber /\ \A n \in AttemptNumber : n \in Int /\ n >= 1
      BY ParameterAssumption DEF AttemptNumber
    <2>3. AttemptOK(NewAttempt) /\ Agree("QUEUED", NewAttempt.state)
      BY DEF AttemptOK, NewAttempt, Agree, LifecycleOfStatus, RunStatus
    <2>4. "QUEUED" \notin ACTIVE_STATUSES
      BY DEF ACTIVE_STATUSES
    <2>5. NewAttempt.reservation = "NONE" /\ NewAttempt.reconciliation = "NONE"
      BY DEF NewAttempt
    <2>6. att[r][1] = NewAttempt
      BY <2>1, <2>2
    <2>7. RowOK(run[r], att[r][made[r]], made[r])
      BY <2>1, <2>3, <2>4, <2>5, <2>6 DEF RowOK
    <2>. QED
      BY <2>1, <2>2, <2>7 DEF SlotOK, HistoryOK
  <1>3. WorkerInv /\ OneCoroutine
    BY DEF Init, WorkerInv, OneCoroutine
  <1>. QED
    BY <1>1, <1>2, <1>3 DEF CoreInv, SlotInv

LEMMA NextKeepsCore == CoreInv /\ [Next]_vars => CoreInv'
  <1>. SUFFICES ASSUME CoreInv, [Next]_vars PROVE CoreInv'
    OBVIOUS
  <1>1. TypeOK /\ TypeOK' /\ SlotInv /\ WorkerInv /\ OneCoroutine
    BY NextKeepsType DEF CoreInv
  <1>2. (\A s \in Runs : SlotStep(s)) /\ WorkerInv' /\ OneCoroutine'
    BY <1>1, StepKeepsWorkers
  <1>3. SlotInv'
    <2>1. ASSUME NEW s \in Runs PROVE SlotOK(s)'
      BY <1>1, <1>2, StepKeepsSlot DEF SlotInv
    <2>. QED
      BY <2>1 DEF SlotInv
  <1>. QED
    BY <1>1, <1>2, <1>3 DEF CoreInv

LEMMA CoreInvariant == Spec => []CoreInv
  BY InitCore, NextKeepsCore, PTL DEF Spec

\* Whatever the claims, transitions, expiries, retries and cancellations of
\* several executors and operators, the run row that old readers see and the state of
\* the current attempt agree after every transaction.
THEOREM RowFollowsAttempt == Spec => []StatusFollowsAttempt
  <1>1. CoreInv => StatusFollowsAttempt
    <2>. SUFFICES ASSUME CoreInv, NEW r \in Runs
                  PROVE  IF run[r].status = "CLAIMED"
                         THEN Current(r).state = "QUEUED"
                         ELSE LifecycleOfStatus[run[r].status] = Current(r).state
      BY DEF StatusFollowsAttempt
    <2>. QED
      BY DEF CoreInv, SlotInv, SlotOK, RowOK, Agree, Current
  <1>. QED
    BY <1>1, CoreInvariant, PTL

\* A queued run holds no open reservation (reserve_budget never denies a retry
\* as a duplicate unit), an executing one holds exactly its own, unsettled, and every
\* attempt that ended in capability evidence was settled from its own lane result.
THEOREM ReservationsFollowRuns == Spec => []ReservationFollowsRun
  <1>1. CoreInv => ReservationFollowsRun
    <2>. SUFFICES ASSUME CoreInv PROVE ReservationFollowsRun
      OBVIOUS
    <2>1. ASSUME NEW r \in Runs
          PROVE  /\ SlotOK(r) /\ made[r] \in Int /\ Current(r) = att[r][made[r]]
                 /\ \A n \in 1 .. made[r] : n \in AttemptNumber /\ n \in Int
      <3>1. made[r] \in 1 .. (MaxRecovery + 1)
        BY DEF CoreInv, TypeOK, AttemptNumber
      <3>. QED
        BY <3>1, ParameterAssumption DEF CoreInv, SlotInv, AttemptNumber, Current
    <2>2. ASSUME NEW r \in Runs, NEW n \in 1 .. made[r], n # made[r]
          PROVE  /\ att[r][n].state = "FAILED_INFRA"
                 /\ att[r][n].reservation = "ACCEPTED" => att[r][n].reconciliation # "NONE"
      <3>1. n \in AttemptNumber /\ n < made[r] /\ HistoryOK(r)
        BY <2>1, <2>2 DEF SlotOK
      <3>. QED
        BY <3>1 DEF HistoryOK, AttemptOK
    <2>3. ASSUME NEW r \in Runs, run[r].status = "QUEUED"
          PROVE  ~OpenReservation(r)
      <3>1. att[r][made[r]].reservation = "NONE"
        BY <2>1, <2>3 DEF SlotOK, RowOK
      <3>. QED
        BY <2>2, <3>1 DEF OpenReservation
    <2>4. ASSUME NEW r \in Runs, run[r].status \in ACTIVE_STATUSES \ {"SCORING"}
          PROVE  Current(r).reservation = "ACCEPTED" /\ Current(r).reconciliation = "NONE"
      BY <2>1, <2>4 DEF SlotOK, RowOK
    <2>5. ASSUME NEW r \in Runs, NEW n \in 1 .. made[r],
                 att[r][n].state \in {"COMPLETED", "FAILED_CAPABILITY"}
          PROVE  att[r][n].reconciliation = "OBSERVED"
      <3>1. n = made[r]
        BY <2>2, <2>5
      <3>. QED
        BY <2>1, <2>5, <3>1 DEF SlotOK, RowOK, AttemptOK
    <2>. QED
      BY <2>3, <2>4, <2>5 DEF ReservationFollowsRun
  <1>. QED
    BY <1>1, CoreInvariant, PTL

\* While the attempt a coroutine claimed is the one that executes, the run
\* stands exactly where that coroutine left it, so no other coroutine of the same
\* executor, with a claim an expiry made stale, has moved it.
THEOREM RunHasOneDriver == Spec => []OneDriver
  <1>1. CoreInv => OneDriver
    BY DEF CoreInv, WorkerInv, Knows, OneDriver
  <1>. QED
    BY <1>1, CoreInvariant, PTL

-----------------------------------------------------------------------------
(* Cancellation: the request stays on the row until a retry, and keeps the   *)
(* run from becoming evidence.                                               *)

Evidence == {"COMPLETED", "FAILED_SUBJECT"}
FlagKept(row, row2) ==
  row.cancellation_requested =>
     /\ row2.cancellation_requested
     /\ row2.status \in Evidence => row2.status = row.status
Heeded(r) == FlagKept(run[r], run'[r]) \/ Retried(r)

LEMMA FlagOperators ==
  ASSUME NEW row \in RunRow, NEW n
  PROVE  /\ FlagKept(row, CancelledRun(row)) /\ FlagKept(row, InfraFailedRun(row, n))
         /\ \A ticks : FlagKept(row, [row EXCEPT !.lease = ticks])
         /\ \A status : status \notin Evidence => FlagKept(row, [row EXCEPT !.status = status])
  <1>1. FlagKept(row, CancelledRun(row))
    <2>1. PICK row2 : row2 = CancelledRun(row)
      OBVIOUS
    <2>2. row2.status = "CANCELLED" /\ row2.cancellation_requested = row.cancellation_requested
      BY <2>1, CancelledRunIs
    <2>3. row2.status \notin Evidence
      BY <2>2 DEF Evidence
    <2>. QED
      BY <2>1, <2>2, <2>3, Zenon DEF FlagKept
  <1>2. FlagKept(row, InfraFailedRun(row, n))
    <2>1. PICK row2 : row2 = InfraFailedRun(row, n)
      OBVIOUS
    <2>2. row2.status = "FAILED_INFRA" /\ row2.cancellation_requested = row.cancellation_requested
      BY <2>1, InfraFailedRunIs
    <2>3. row2.status \notin Evidence
      BY <2>2 DEF Evidence
    <2>. QED
      BY <2>1, <2>2, <2>3, Zenon DEF FlagKept
  <1>3. ASSUME NEW ticks PROVE FlagKept(row, [row EXCEPT !.lease = ticks])
    BY LeasedRowIs, Zenon DEF FlagKept
  <1>4. ASSUME NEW status, status \notin Evidence
        PROVE  FlagKept(row, [row EXCEPT !.status = status])
    <2>1. PICK row2 : row2 = [row EXCEPT !.status = status]
      OBVIOUS
    <2>2. row2.status = status /\ row2.cancellation_requested = row.cancellation_requested
      BY <2>1, MovedRowIs
    <2>. QED
      BY <1>4, <2>1, <2>2, Zenon DEF FlagKept
  <1>. QED
    BY <1>1, <1>2, <1>3, <1>4

LEMMA SameFlag ==
  ASSUME NEW row
  PROVE  FlagKept(row, row)
  BY Zenon DEF FlagKept

\* One row is replaced.
LEMMA ReplacedHeeds ==
  ASSUME TypeOK, NEW r \in Runs, NEW row2, run' = [run EXCEPT ![r] = row2],
         FlagKept(run[r], row2)
  PROVE  \A s \in Runs : Heeded(s)
  <1>1. \A s \in Runs : run'[s] = IF s = r THEN row2 ELSE run[s]
    BY DEF TypeOK
  <1>2. SUFFICES ASSUME NEW s \in Runs PROVE FlagKept(run[s], run'[s])
    BY DEF Heeded
  <1>3. CASE s = r
    BY <1>1, <1>3, Zenon
  <1>4. CASE s # r
    BY <1>1, <1>4, SameFlag, Zenon
  <1>. QED
    BY <1>3, <1>4

LEMMA KeptHeeds ==
  ASSUME run' = run
  PROVE  \A s \in Runs : Heeded(s)
  BY SameFlag DEF Heeded

LEMMA ClaimHeeds ==
  ASSUME TypeOK, NEW w \in Workers, ClaimAuthoritativeRun(w)
  PROVE  \A s \in Runs : Heeded(s)
  <1>1. /\ RunAfterExpiry \in [Runs -> RunRow]
        /\ \A s \in Runs : run[s] \in RunRow
    BY AfterExpiryType DEF TypeOK
  <1>2. ASSUME NEW s \in Runs PROVE FlagKept(run[s], RunAfterExpiry[s])
    <2>1. CASE s \in Lost
      <3>1. RunAfterExpiry[s] = InfraFailedRun(run[s], made[s])
        BY <2>1 DEF RunAfterExpiry
      <3>. QED
        BY <1>1, <3>1, FlagOperators
    <2>2. CASE s \notin Lost
      <3>1. RunAfterExpiry[s] = run[s]
        BY <2>2, AfterExpiryType
      <3>. QED
        BY <3>1, SameFlag
    <2>. QED
      BY <2>1, <2>2
  <1>3. CASE run' = RunAfterExpiry
    BY <1>2, <1>3 DEF Heeded
  <1>4. ASSUME NEW r \in Claimable, NEW row2, run' = [RunAfterExpiry EXCEPT ![r] = row2],
               FlagKept(run[r], row2)
        PROVE  \A s \in Runs : Heeded(s)
    <2>1. SUFFICES ASSUME NEW s \in Runs PROVE FlagKept(run[s], run'[s])
      BY DEF Heeded
    <2>2. CASE s = r
      BY <1>1, <1>4, <2>2
    <2>3. CASE s # r
      <3>1. run'[s] = RunAfterExpiry[s]
        BY <1>1, <1>4, <2>3
      <3>. QED
        BY <1>2, <3>1
    <2>. QED
      BY <2>2, <2>3
  <1>5. ASSUME NEW r \in Claimable,
               run' = [RunAfterExpiry EXCEPT ![r] =
                     [@ EXCEPT !.status = "CLAIMED", !.attempt = made[r],
                               !.lease_owner = Owner[w], !.lease = TTL]]
        PROVE  \A s \in Runs : Heeded(s)
    <2>1. r \in Runs /\ RunAfterExpiry[r] = run[r]
      BY ClaimableNotLost, AfterExpiryType
    <2>2. PICK row2 : row2 = [run[r] EXCEPT !.status = "CLAIMED", !.attempt = made[r],
                               !.lease_owner = Owner[w], !.lease = TTL]
      OBVIOUS
    <2>3. row2.status = "CLAIMED" /\ row2.cancellation_requested = run[r].cancellation_requested
      BY <1>1, <2>1, <2>2, ClaimedRowIs
    <2>4. row2.status \notin Evidence
      BY <2>3 DEF Evidence
    <2>5. FlagKept(run[r], row2)
      BY <2>3, <2>4, Zenon DEF FlagKept
    <2>6. run' = [RunAfterExpiry EXCEPT ![r] = row2]
      BY <1>5, <2>1, <2>2
    <2>. QED
      BY <1>4, <2>5, <2>6
  <1>6. ASSUME NEW r \in Claimable,
               run' = [RunAfterExpiry EXCEPT ![r] = [@ EXCEPT !.status = "BUDGET_EXHAUSTED"]]
        PROVE  \A s \in Runs : Heeded(s)
    <2>1. r \in Runs /\ RunAfterExpiry[r] = run[r] /\ "BUDGET_EXHAUSTED" \notin Evidence
      BY ClaimableNotLost, AfterExpiryType DEF Evidence
    <2>2. FlagKept(run[r], [run[r] EXCEPT !.status = "BUDGET_EXHAUSTED"])
      BY <1>1, <2>1, FlagOperators
    <2>3. run' = [RunAfterExpiry EXCEPT ![r] = [run[r] EXCEPT !.status = "BUDGET_EXHAUSTED"]]
      BY <1>6, <2>1
    <2>. QED
      BY <1>4, <2>2, <2>3
  <1>. QED
    BY <1>3, <1>5, <1>6 DEF ClaimAuthoritativeRun

LEMMA CancelNowHeeds ==
  ASSUME TypeOK, NEW r \in Runs, CancelNow(r)
  PROVE  \A s \in Runs : Heeded(s)
  <1>1. PICK row2 : row2 = CancelledRun(run[r])
    OBVIOUS
  <1>2. FlagKept(run[r], row2) /\ run' = [run EXCEPT ![r] = row2]
    BY <1>1, SlotTypes, FlagOperators DEF CancelNow
  <1>. QED
    BY <1>2, ReplacedHeeds

LEMMA ExecuteHeeds ==
  ASSUME TypeOK, NEW w \in Workers, Execute(w)
  PROVE  \A s \in Runs : Heeded(s)
  <1>1. CASE Prepare(w) \/ Start(w) \/ Verify(w) \/ Score(w)
    <2>1. PICK pc \in WorkerStep, target \in RunStatus, next \in WorkerStep :
            TransitionRun(w, pc, target, next)
      BY <1>1 DEF Prepare, Start, Verify, Score, WorkerStep, RunStatus, ACTIVE_STATUSES
    <2>2. PICK r \in Runs : r = worker[w].run
      BY <2>1, BusyType DEF TransitionRun, WorkerStep
    <2>3. CASE CancelNow(r)
      BY <2>3, CancelNowHeeds
    <2>4. CASE Advance(r, target)
      <3>1. run[r] \in RunRow /\ target \notin Evidence
        BY <2>4, SlotTypes
           DEF Advance, TRANSITIONS, RunStatus, ACTIVE_STATUSES, TERMINAL_STATUSES, Evidence
      <3>2. PICK row2 : row2 = [run[r] EXCEPT !.status = target]
        OBVIOUS
      <3>3. FlagKept(run[r], row2)
        BY <3>1, <3>2, FlagOperators
      <3>4. run' = [run EXCEPT ![r] = row2]
        BY <2>4, <3>2 DEF Advance, TypeOK
      <3>. QED
        BY <3>3, <3>4, ReplacedHeeds
    <2>5. CASE Raise(w)
      BY <2>5, KeptHeeds DEF Raise
    <2>. QED
      BY <2>1, <2>2, <2>3, <2>4, <2>5 DEF TransitionRun
  <1>2. CASE Dispatched(w) \/ Inspect(w)
    BY <1>2, KeptHeeds DEF Dispatched, Inspect
  <1>3. CASE ReconcileTerminal(w)
    <2>1. PICK r \in Runs : r = worker[w].run
      BY <1>3, BusyType DEF ReconcileTerminal
    <2>2. run' = run \/ run' = [run EXCEPT ![r] = InfraFailedRun(run[r], made[r])]
      BY <1>3, <2>1, Zenon DEF ReconcileTerminal, Reconcile, Raise
    <2>3. PICK row2 : row2 = InfraFailedRun(run[r], made[r])
      OBVIOUS
    <2>4. FlagKept(run[r], row2)
      BY <2>3, SlotTypes, FlagOperators
    <2>. QED
      BY <2>2, <2>3, <2>4, KeptHeeds, ReplacedHeeds
  <1>4. CASE FinishRun(w)
    <2>1. PICK r \in Runs : r = worker[w].run
      BY <1>4, BusyType DEF FinishRun
    <2>2. CASE Raise(w)
      BY <2>2, KeptHeeds DEF Raise
    <2>3. ASSUME NEW outcome \in FinishOutcomes(w),
                 run' = [run EXCEPT ![r] = FinishedRun(run[r], made[r], outcome)]
          PROVE  \A s \in Runs : Heeded(s)
      <3>1. PICK row2 : row2 = FinishedRun(run[r], made[r], outcome)
        OBVIOUS
      <3>2. /\ row2.status = TERMINAL_STATUS_BY_OUTCOME[outcome]
            /\ row2.cancellation_requested = run[r].cancellation_requested
        BY <2>3, <3>1, SlotTypes, FinishOutcomesType, FinishedRunIs
      <3>3. run[r].cancellation_requested => outcome = "cancelled"
        BY <2>1, <2>3 DEF FinishOutcomes
      <3>4. TERMINAL_STATUS_BY_OUTCOME["cancelled"] \notin Evidence
        BY DEF TERMINAL_STATUS_BY_OUTCOME, StatisticalOutcome, Evidence
      <3>5. FlagKept(run[r], row2)
        BY <3>2, <3>3, <3>4, Zenon DEF FlagKept
      <3>. QED
        BY <2>3, <3>1, <3>5, ReplacedHeeds
    <2>. QED
      BY <1>4, <2>1, <2>2, <2>3 DEF FinishRun
  <1>. QED
    BY <1>1, <1>2, <1>3, <1>4 DEF Execute

LEMMA HeartbeatHeeds ==
  ASSUME TypeOK, NEW w \in Workers, Heartbeat(w)
  PROVE  \A s \in Runs : Heeded(s)
  <1>1. PICK r \in Runs : r = worker[w].run
    BY BusyType DEF Heartbeat
  <1>2. CASE CancelNow(r)
    BY <1>2, CancelNowHeeds
  <1>3. CASE run' = run
    BY <1>3, KeptHeeds
  <1>4. CASE run' = [run EXCEPT ![r].lease = TTL]
    <2>1. PICK row2 : row2 = [run[r] EXCEPT !.lease = TTL]
      OBVIOUS
    <2>2. run' = [run EXCEPT ![r] = row2] /\ FlagKept(run[r], row2)
      BY <1>4, <2>1, SlotTypes, FlagOperators DEF TypeOK
    <2>. QED
      BY <2>2, ReplacedHeeds
  <1>. QED
    BY <1>1, <1>2, <1>3, <1>4 DEF Heartbeat

LEMMA TickHeeds ==
  ASSUME TypeOK, Tick
  PROVE  \A s \in Runs : Heeded(s)
  <1>1. SUFFICES ASSUME NEW s \in Runs PROVE FlagKept(run[s], run'[s])
    BY DEF Heeded
  <1>2. run[s] \in RunRow
    BY DEF TypeOK
  <1>3. PICK ticks : ticks = run[s].lease - 1
    OBVIOUS
  <1>4. run'[s] = run[s] \/ run'[s] = [run[s] EXCEPT !.lease = ticks]
    BY <1>3 DEF Tick
  <1>. QED
    BY <1>2, <1>4, SameFlag, FlagOperators

LEMMA ApplyCancelHeeds ==
  ASSUME TypeOK, NEW slots \in SUBSET Runs, NEW seen, ApplyCancel(slots, seen)
  PROVE  \A s \in Runs : Heeded(s)
  <1>1. SUFFICES ASSUME NEW s \in Runs PROVE FlagKept(run[s], run'[s])
    BY DEF Heeded
  <1>2. run[s] \in RunRow /\ "CANCELLED" \notin Evidence
    BY DEF TypeOK, Evidence
  <1>3. PICK yes \in BOOLEAN : yes = TRUE
    BY Zenon
  <1>4. \/ run'[s] = run[s] \/ run'[s] = [run[s] EXCEPT !.status = "CANCELLED"]
        \/ run'[s] = [run[s] EXCEPT !.cancellation_requested = yes]
    BY <1>3, Zenon DEF ApplyCancel
  <1>5. FlagKept(run[s], [run[s] EXCEPT !.cancellation_requested = yes])
    BY <1>2, <1>3, FlaggedRowIs, Zenon DEF FlagKept
  <1>6. FlagKept(run[s], run[s]) /\ FlagKept(run[s], [run[s] EXCEPT !.status = "CANCELLED"])
    BY <1>2, SameFlag, FlagOperators
  <1>. QED
    BY <1>4, <1>5, <1>6

LEMMA RunCancellationHeeds ==
  ASSUME TypeOK, NEW r \in Runs, RequestRunCancellation(r)
  PROVE  \A s \in Runs : Heeded(s)
  <1>1. run[r] \in RunRow
    BY DEF TypeOK
  <1>2. PICK yes \in BOOLEAN : yes = TRUE
    BY Zenon
  <1>3. CASE run[r].status = "QUEUED"
    <2>1. PICK cancelled \in RunRow : cancelled = CancelledRun(run[r]) /\ cancelled.status = "CANCELLED"
      BY <1>1, CancelledRunIs, CancelledRunType
    <2>2. PICK row2 : row2 = [cancelled EXCEPT !.cancellation_requested = yes]
      OBVIOUS
    <2>3. row2.status = "CANCELLED" /\ row2.cancellation_requested = yes
      BY <2>1, <2>2, FlaggedRowIs
    <2>4. row2.status \notin Evidence
      BY <2>3 DEF Evidence
    <2>5. run' = [run EXCEPT ![r] = row2]
      BY <1>2, <1>3, <2>1, <2>2, Zenon DEF RequestRunCancellation
    <2>6. FlagKept(run[r], row2)
      BY <1>2, <2>3, <2>4, Zenon DEF FlagKept
    <2>. QED
      BY <2>5, <2>6, ReplacedHeeds
  <1>4. CASE run[r].status # "QUEUED"
    <2>1. PICK row2 : row2 = [run[r] EXCEPT !.cancellation_requested = yes]
      OBVIOUS
    <2>2. FlagKept(run[r], row2)
      BY <1>1, <1>2, <2>1, FlaggedRowIs, Zenon DEF FlagKept
    <2>3. run' = [run EXCEPT ![r].cancellation_requested = yes]
      BY <1>2, <1>4, Zenon DEF RequestRunCancellation
    <2>4. run' = [run EXCEPT ![r] = row2]
      BY <2>1, <2>3 DEF TypeOK
    <2>. QED
      BY <2>2, <2>4, ReplacedHeeds
  <1>. QED
    BY <1>3, <1>4

LEMMA RetryHeeds ==
  ASSUME TypeOK, NEW slots \in SUBSET Runs, RetryInfraSelected(slots)
  PROVE  \A s \in Runs : Heeded(s)
  <1>1. SUFFICES ASSUME NEW s \in Runs PROVE Heeded(s)
    OBVIOUS
  <1>2. CASE s \in slots
    <2>1. /\ made'[s] = made[s] + 1 /\ att'[s] = att[s]
          /\ run'[s] = RequeuedRun(run[s], made[s]) /\ Current(s).state = "FAILED_INFRA"
      BY <1>2 DEF RetryInfraSelected
    <2>2. run'[s].status = "QUEUED" /\ run'[s].attempt = made[s]
      BY <2>1, SlotTypes, RequeuedRunIs
    <2>. QED
      BY <2>1, <2>2 DEF Heeded, Retried, Current
  <1>3. CASE s \notin slots
    BY <1>3, SameFlag DEF RetryInfraSelected, Heeded
  <1>. QED
    BY <1>2, <1>3

LEMMA StepHeeds ==
  ASSUME TypeOK, [Next]_vars
  PROVE  \A s \in Runs : Heeded(s)
  <1>1. ASSUME NEW w \in Workers, ClaimAuthoritativeRun(w) PROVE \A s \in Runs : Heeded(s)
    BY <1>1, ClaimHeeds
  <1>2. ASSUME NEW w \in Workers, Execute(w) PROVE \A s \in Runs : Heeded(s)
    BY <1>2, ExecuteHeeds
  <1>3. ASSUME NEW w \in Workers, Heartbeat(w) PROVE \A s \in Runs : Heeded(s)
    BY <1>3, HeartbeatHeeds
  <1>4. ASSUME NEW w \in Workers, Crash(w) PROVE \A s \in Runs : Heeded(s)
    BY <1>4, KeptHeeds DEF Crash
  <1>5. CASE Tick
    BY <1>5, TickHeeds
  <1>6. CASE Operator
    <2>1. CASE Pause \/ Resume \/ RunRemaining \/ RollBackCancel
      BY <2>1, KeptHeeds DEF Pause, Resume, RunRemaining, RollBackCancel
    <2>2. ASSUME NEW slots \in SUBSET Runs, RetryInfraSelected(slots)
          PROVE  \A s \in Runs : Heeded(s)
      BY <2>2, RetryHeeds
    <2>3. ASSUME NEW slots \in SUBSET Runs, IssueCancel(slots)
          PROVE  \A s \in Runs : Heeded(s)
      BY <2>3, ApplyCancelHeeds DEF IssueCancel
    <2>4. ASSUME NEW slots \in SUBSET Runs, ReadCancel(slots)
          PROVE  \A s \in Runs : Heeded(s)
      BY <2>4, KeptHeeds DEF ReadCancel
    <2>5. CASE CommitCancel
      <3>1. cancel.slots \in SUBSET Runs /\ ApplyCancel(cancel.slots, cancel.seen)
        BY <2>5 DEF TypeOK, CommitCancel
      <3>. QED
        BY <3>1, ApplyCancelHeeds
    <2>6. ASSUME NEW r \in Runs, RequestRunCancellation(r)
          PROVE  \A s \in Runs : Heeded(s)
      BY <2>6, RunCancellationHeeds
    <2>. QED
      BY <1>6, <2>1, <2>2, <2>3, <2>4, <2>5, <2>6 DEF Operator
  <1>7. CASE UNCHANGED vars
    BY <1>7, KeptHeeds DEF vars
  <1>. QED
    BY <1>1, <1>2, <1>3, <1>4, <1>5, <1>6, <1>7 DEF Next

\* An attempt whose cancellation was requested while it executes does not end
\* in capability evidence, whichever of the transition, heartbeat, finish, expiry or
\* operator transactions ends it.
THEOREM CancellationIsHeeded == Spec => CancelledNeverEvidence
  <1>1. TypeOK /\ [Next]_vars =>
          [\A r \in Runs :
             run[r].cancellation_requested /\ run[r].status \in ACTIVE_STATUSES
               => run[r].status' \notin {"COMPLETED", "FAILED_SUBJECT"}]_vars
    <2>. SUFFICES ASSUME TypeOK, [Next]_vars, NEW r \in Runs,
                         run[r].cancellation_requested, run[r].status \in ACTIVE_STATUSES
                  PROVE  run'[r].status \notin {"COMPLETED", "FAILED_SUBJECT"}
      OBVIOUS
    <2>1. run[r].status \notin Evidence
      BY DEF ACTIVE_STATUSES, Evidence
    <2>2. CASE FlagKept(run[r], run'[r])
      BY <2>1, <2>2, Zenon DEF FlagKept, Evidence
    <2>3. CASE Retried(r)
      BY <2>3 DEF Retried
    <2>. QED
      BY <2>2, <2>3, StepHeeds DEF Heeded
  <1>. QED
    BY <1>1, TypeCorrect, PTL DEF Spec, CancelledNeverEvidence

-----------------------------------------------------------------------------
(* CANCEL of the whole experiment. *)

\* Only a CANCEL opens, and what it reads is current then.
LEMMA CancelStep ==
  ASSUME [Next]_vars
  PROVE  \/ cancel' = cancel \/ cancel' = NoCancel
         \/ cancel'.seen = Seen /\ att' = att /\ made' = made
  <1>1. ASSUME NEW w \in Workers, ClaimAuthoritativeRun(w) PROVE cancel' = cancel
    BY <1>1 DEF ClaimAuthoritativeRun, operatorVars
  <1>2. ASSUME NEW w \in Workers, Execute(w) \/ Heartbeat(w) \/ Crash(w)
        PROVE  cancel' = cancel
    BY <1>2 DEF Execute, Prepare, Start, Verify, Score, TransitionRun, Dispatched, Inspect,
       ReconcileTerminal, FinishRun, Heartbeat, Crash, operatorVars
  <1>3. CASE Tick
    BY <1>3 DEF Tick, operatorVars
  <1>4. ASSUME NEW slots \in SUBSET Runs,
               RetryInfraSelected(slots) \/ IssueCancel(slots) \/ ReadCancel(slots)
        PROVE  cancel' = cancel \/ (cancel'.seen = Seen /\ att' = att /\ made' = made)
    BY <1>4 DEF RetryInfraSelected, IssueCancel, ReadCancel
  <1>5. CASE Pause \/ Resume \/ RunRemaining \/ CommitCancel \/ RollBackCancel
    BY <1>5 DEF Pause, Resume, RunRemaining, CommitCancel, RollBackCancel
  <1>6. ASSUME NEW r \in Runs, RequestRunCancellation(r) PROVE cancel' = cancel
    BY <1>6 DEF RequestRunCancellation, operatorVars
  <1>7. CASE UNCHANGED vars
    BY <1>7 DEF vars
  <1>. QED
    BY <1>1, <1>2, <1>3, <1>4, <1>5, <1>6, <1>7 DEF Next, Operator

\* A recovery attempt is created by a retry alone, which an open CANCEL and a
\* cancelled experiment both refuse.
LEMMA OnlyRetryAttempts ==
  ASSUME [Next]_vars, cancel.open \/ control = "CANCELLED"
  PROVE  made' = made
  <1>1. ASSUME NEW w \in Workers, ClaimAuthoritativeRun(w) PROVE made' = made
    BY <1>1 DEF ClaimAuthoritativeRun
  <1>2. ASSUME NEW w \in Workers, Execute(w) \/ Heartbeat(w) \/ Crash(w)
        PROVE  made' = made
    BY <1>2 DEF Execute, Prepare, Start, Verify, Score, TransitionRun, Dispatched, Inspect,
       ReconcileTerminal, FinishRun, Heartbeat, Crash
  <1>3. CASE Tick
    BY <1>3 DEF Tick
  <1>4. ASSUME NEW slots \in SUBSET Runs, RetryInfraSelected(slots) PROVE FALSE
    BY <1>4 DEF RetryInfraSelected, Control
  <1>5. ASSUME NEW slots \in SUBSET Runs, IssueCancel(slots) \/ ReadCancel(slots)
        PROVE  made' = made
    BY <1>5 DEF IssueCancel, ReadCancel, ApplyCancel
  <1>6. CASE Pause \/ Resume \/ RunRemaining \/ CommitCancel \/ RollBackCancel
    BY <1>6 DEF Pause, Resume, RunRemaining, CommitCancel, RollBackCancel, ApplyCancel
  <1>7. ASSUME NEW r \in Runs, RequestRunCancellation(r) PROVE made' = made
    BY <1>7 DEF RequestRunCancellation
  <1>8. CASE UNCHANGED vars
    BY <1>8 DEF vars
  <1>. QED
    BY <1>1, <1>2, <1>3, <1>4, <1>5, <1>6, <1>7, <1>8 DEF Next, Operator

LEMMA StepKeepsCancel ==
  ASSUME TypeOK, TypeOK', CancelInv, [Next]_vars
  PROVE  CancelInv'
  <1>1. CASE cancel' = NoCancel
    BY <1>1 DEF CancelInv, NoCancel
  <1>2. CASE cancel'.seen = Seen /\ att' = att /\ made' = made
    BY <1>2 DEF CancelInv, Seen, Current
  <1>3. CASE cancel' = cancel /\ cancel.open
    <2>1. made' = made
      BY <1>3, OnlyRetryAttempts
    <2>2. ASSUME NEW r \in Runs
          PROVE  \/ Current(r)'.state = Current(r).state
                 \/ Current(r)'.state \in ALLOWED_TRANSITIONS[Current(r).state]
      <3>1. LedgerMove(r) /\ made[r] \in AttemptNumber /\ made[r] \in Int
        BY NextMoves, SlotTypes
      <3>2. Current(r) = att[r][made[r]] /\ Current(r)' = att'[r][made[r]]
        BY <2>1 DEF Current
      <3>. QED
        BY <2>1, <3>1, <3>2 DEF LedgerMove, Stays, MovesTo
    <2>3. \A r \in Runs : Current(r).state \in LifecycleState
      BY SlotTypes
    <2>4. \A s \in LifecycleState :
            /\ "QUEUED" \notin ALLOWED_TRANSITIONS[s]
            /\ s \in TERMINAL_STATES => ALLOWED_TRANSITIONS[s] = {}
      BY DEF ALLOWED_TRANSITIONS, LifecycleState, TERMINAL_STATES, Interruptions
    <2>5. ASSUME NEW r \in Runs
          PROVE  /\ cancel.seen[r] \in TERMINAL_STATES => Current(r)'.state \in TERMINAL_STATES
                 /\ cancel.seen[r] # "QUEUED" => Current(r)'.state # "QUEUED"
      BY <1>3, <2>2, <2>3, <2>4 DEF CancelInv
    <2>. QED
      BY <1>3, <2>5 DEF CancelInv
  <1>4. CASE cancel' = cancel /\ ~cancel.open
    BY <1>4 DEF CancelInv
  <1>. QED
    BY <1>1, <1>2, <1>3, <1>4, CancelStep

\* The experiment is cancelled by a CANCEL of all of it.
LEMMA ControlStep ==
  ASSUME TypeOK, [Next]_vars, control' = "CANCELLED", control # "CANCELLED"
  PROVE  \E seen : ApplyCancel({}, seen) /\ (seen = Seen \/ (cancel.open /\ seen = cancel.seen))
  <1>1. ASSUME NEW w \in Workers, ClaimAuthoritativeRun(w) PROVE FALSE
    BY <1>1 DEF ClaimAuthoritativeRun, operatorVars
  <1>2. ASSUME NEW w \in Workers, Execute(w) \/ Heartbeat(w) \/ Crash(w) PROVE FALSE
    BY <1>2 DEF Execute, Prepare, Start, Verify, Score, TransitionRun, Dispatched, Inspect,
       ReconcileTerminal, FinishRun, Heartbeat, Crash, operatorVars
  <1>3. ~Tick
    BY DEF Tick, operatorVars
  <1>4. ASSUME NEW slots \in SUBSET Runs, RetryInfraSelected(slots) \/ ReadCancel(slots)
        PROVE  FALSE
    BY <1>4 DEF RetryInfraSelected, ReadCancel
  <1>5. ~(Pause \/ Resume \/ RunRemaining \/ RollBackCancel)
    BY DEF Pause, Resume, RunRemaining, RollBackCancel
  <1>6. ASSUME NEW r \in Runs, RequestRunCancellation(r) PROVE FALSE
    BY <1>6 DEF RequestRunCancellation, operatorVars
  <1>7. ASSUME NEW slots \in SUBSET Runs, IssueCancel(slots)
        PROVE  ApplyCancel({}, Seen)
    <2>1. ApplyCancel(slots, Seen) /\ slots = {}
      BY <1>7 DEF IssueCancel, ApplyCancel
    <2>. QED
      BY <2>1
  <1>8. CASE CommitCancel
    <2>1. ApplyCancel(cancel.slots, cancel.seen) /\ cancel.slots = {} /\ cancel.open
      BY <1>8 DEF CommitCancel, ApplyCancel
    <2>. QED
      BY <2>1
  <1>9. ~UNCHANGED vars
    BY DEF vars
  <1>. QED
    BY <1>1, <1>2, <1>3, <1>4, <1>5, <1>6, <1>7, <1>8, <1>9 DEF Next, Operator

\* A CANCEL of everything leaves no run queued and none executing untold.
LEMMA CancelStops ==
  ASSUME TypeOK, SlotInv, NEW seen, ApplyCancel({}, seen), NEW r \in Runs,
         seen[r] \in TERMINAL_STATES => Current(r).state \in TERMINAL_STATES,
         seen[r] # "QUEUED" => Current(r).state # "QUEUED"
  PROVE  /\ run'[r].status # "QUEUED"
         /\ run'[r].status \in ACTIVE_STATUSES => run'[r].cancellation_requested
  <1>1. /\ run[r] \in RunRow /\ run[r].status \in RunStatus
        /\ Agree(run[r].status, Current(r).state)
    BY SlotTypes DEF SlotInv, SlotOK, RowOK
  <1>2. PICK yes \in BOOLEAN : yes = TRUE
    BY Zenon
  <1>3. r \in Selected({})
    BY DEF Selected
  <1>4. CASE seen[r] = "QUEUED"
    <2>1. run'[r] = [run[r] EXCEPT !.status = "CANCELLED"]
      BY <1>3, <1>4 DEF ApplyCancel
    <2>2. run'[r].status = "CANCELLED"
      BY <1>1, <2>1, MovedRowIs
    <2>. QED
      BY <2>2 DEF ACTIVE_STATUSES
  <1>5. CASE seen[r] # "QUEUED" /\ seen[r] \notin TERMINAL_STATES
    <2>1. run'[r] = [run[r] EXCEPT !.cancellation_requested = yes]
      BY <1>2, <1>3, <1>5, Zenon DEF ApplyCancel
    <2>2. run'[r].status = run[r].status /\ run'[r].cancellation_requested = yes
      BY <1>1, <2>1, FlaggedRowIs
    <2>3. run[r].status # "QUEUED"
      BY <1>1, <1>5 DEF Agree, LifecycleOfStatus, RunStatus
    <2>. QED
      BY <1>2, <2>2, <2>3, Zenon
  <1>6. CASE seen[r] \in TERMINAL_STATES /\ seen[r] # "QUEUED"
    <2>1. run'[r] = run[r]
      BY <1>6 DEF ApplyCancel
    <2>2. run[r].status # "QUEUED" /\ run[r].status \notin ACTIVE_STATUSES
      BY <1>1, <1>6 DEF Agree, LifecycleOfStatus, RunStatus, ACTIVE_STATUSES, TERMINAL_STATES
    <2>. QED
      BY <2>1, <2>2
  <1>. QED
    BY <1>4, <1>5, <1>6

LEMMA StepKeepsStopped ==
  ASSUME TypeOK, SlotInv, CancelInv, CancelledExperimentStops, [Next]_vars,
         \A s \in Runs : SlotStep(s)
  PROVE  CancelledExperimentStops'
  <1>. SUFFICES ASSUME control' = "CANCELLED", NEW r \in Runs
                PROVE  /\ run'[r].status # "QUEUED"
                       /\ run'[r].status \in ACTIVE_STATUSES => run'[r].cancellation_requested
    BY DEF CancelledExperimentStops
  <1>1. CASE control # "CANCELLED"
    <2>1. PICK seen : ApplyCancel({}, seen) /\ (seen = Seen \/ (cancel.open /\ seen = cancel.seen))
      BY <1>1, ControlStep
    <2>2. seen[r] \in TERMINAL_STATES => Current(r).state \in TERMINAL_STATES
      BY <2>1 DEF Seen, CancelInv
    <2>3. seen[r] # "QUEUED" => Current(r).state # "QUEUED"
      BY <2>1 DEF Seen, CancelInv
    <2>. QED
      BY <2>1, <2>2, <2>3, CancelStops
  <1>2. CASE control = "CANCELLED"
    <2>1. /\ run[r].status # "QUEUED" /\ run[r].status \in RunStatus
          /\ run[r].status \in ACTIVE_STATUSES => run[r].cancellation_requested
      BY <1>2, SlotTypes DEF CancelledExperimentStops
    <2>2. ~Retried(r)
      <3>1. made' = made /\ made[r] \in Int
        BY <1>2, OnlyRetryAttempts, SlotTypes
      <3>. QED
        BY <3>1 DEF Retried
    <2>3. \/ run'[r].status = run[r].status
          \/ run'[r].status \in TERMINAL_STATUSES
          \/ run[r].status \in ACTIVE_STATUSES /\ run'[r].status \in ACTIVE_STATUSES
      <3>1. ~Claiming(r)
        BY <2>1 DEF Claiming, Claims
      <3>2. CASE Advancing(r)
        BY <2>1, <3>2
           DEF Advancing, Advances, TRANSITIONS, RunStatus, ACTIVE_STATUSES, TERMINAL_STATUSES
      <3>. QED
        BY <2>2, <3>1, <3>2 DEF SlotStep, Moved, Keeps, Ends, Settles
    <2>4. run'[r].status # "QUEUED" /\
          (run'[r].status \in ACTIVE_STATUSES => run[r].status \in ACTIVE_STATUSES)
      BY <2>1, <2>3 DEF TERMINAL_STATUSES, ACTIVE_STATUSES
    <2>5. FlagKept(run[r], run'[r])
      BY <2>2, StepHeeds DEF Heeded
    <2>6. run'[r].status \in ACTIVE_STATUSES => run'[r].cancellation_requested
      BY <2>1, <2>4, <2>5, Zenon DEF FlagKept
    <2>. QED
      BY <2>4, <2>6
  <1>. QED
    BY <1>1, <1>2

\* Once a CANCEL of the whole experiment has committed, however it overlapped
\* the transactions of the workers, no run is queued any more and every run that still
\* executes has been told to stop; no later claim, retry or expiry undoes it.
THEOREM CancelStopsExperiment == Spec => []CancelledExperimentStops
  <1>1. Init => CancelInv /\ CancelledExperimentStops
    BY DEF Init, NoCancel, CancelInv, CancelledExperimentStops
  <1>2. CoreInv /\ CancelInv /\ CancelledExperimentStops /\ [Next]_vars
          => CancelInv' /\ CancelledExperimentStops'
    <2>. SUFFICES ASSUME CoreInv, CancelInv, CancelledExperimentStops, [Next]_vars
                  PROVE  CancelInv' /\ CancelledExperimentStops'
      OBVIOUS
    <2>1. TypeOK /\ TypeOK' /\ SlotInv /\ WorkerInv /\ OneCoroutine
      BY NextKeepsType DEF CoreInv
    <2>2. \A s \in Runs : SlotStep(s)
      BY <2>1, StepKeepsWorkers
    <2>. QED
      BY <2>1, <2>2, StepKeepsCancel, StepKeepsStopped
  <1>. QED
    BY <1>1, <1>2, CoreInvariant, PTL DEF Spec

-----------------------------------------------------------------------------
(* Sums over finite sets.  MapThenSumSet is a recursive fold, and no library  *)
(* theorem says what it returns: the facts below are proved by least          *)
(* counterexample on the number of elements.                                  *)

\* The sum of the weights c[a] of the elements a of S.
Total(c, S) == MapThenSumSet(LAMBDA a : c[a], S)

\* The recursion of the fold, and what it means for g to solve it on the parts of S.
Picked(s) == CHOOSE x \in s : TRUE
Unfolded(c, g, s) == IF s = {} THEN 0 ELSE c[Picked(s)] + g[s \ {Picked(s)}]
IsSum(c, S, g) == g = [s \in SUBSET S |-> Unfolded(c, g, s)]

\* A nonempty set of natural numbers has a least element.
LEMMA Least ==
  ASSUME NEW S, S \subseteq Nat, S # {}
  PROVE  \E n \in S : \A m \in S : n <= m
  <1>1. PICK n \in S : \A m \in S : ~(<<m, n>> \in OpToRel(<, Nat))
    BY WFMin, NatLessThanWellFounded
  <1>2. \A m \in S : ~(m < n)
    BY <1>1 DEF OpToRel
  <1>. QED
    BY <1>2

\* So one of its elements does not follow another.
LEMMA LeastOne ==
  ASSUME NEW S, S \subseteq Nat, S # {}
  PROVE  \E n \in S : n \in Nat /\ n - 1 \notin S
  <1>1. PICK n \in S : \A m \in S : n <= m
    BY Least
  <1>2. n \in Nat
    OBVIOUS
  <1>. QED
    BY <1>1, <1>2

\* Taking one element out of a part of a finite set leaves a smaller part.
LEMMA Without ==
  ASSUME NEW S, IsFiniteSet(S), NEW s \in SUBSET S, NEW x \in s
  PROVE  /\ s \ {x} \in SUBSET S
         /\ Cardinality(s) \in Nat /\ Cardinality(s) # 0
         /\ Cardinality(s \ {x}) = Cardinality(s) - 1
  <1>1. IsFiniteSet(s)
    BY FS_Subset
  <1>2. Cardinality(s) \in Nat /\ Cardinality(s \ {x}) = Cardinality(s) - 1
    BY <1>1, FS_CardinalityType, FS_RemoveElement
  <1>3. Cardinality(s) # 0
    BY <1>1, FS_EmptySet
  <1>. QED
    BY <1>2, <1>3

\* The recursive definition of the sum has a solution on the parts of S: one that
\* solves it for the parts of n elements extends to the parts of n + 1.
LEMMA SumsExist ==
  ASSUME NEW S, IsFiniteSet(S), NEW c, \A a \in S : c[a] \in Nat
  PROVE  \E g \in [SUBSET S -> Nat] : IsSum(c, S, g)
  <1> DEFINE Solves(g, n) ==
               \A s \in SUBSET S : Cardinality(s) <= n => g[s] = Unfolded(c, g, s)
             Good(n) == \E g \in [SUBSET S -> Nat] : Solves(g, n)
             Bad == {n \in Nat : ~Good(n)}
  <1>0. \A s \in SUBSET S : Cardinality(s) \in Nat
    BY FS_Subset, FS_CardinalityType
  <1>1. Good(0)
    <2> DEFINE g == [s \in SUBSET S |-> 0]
    <2>1. g \in [SUBSET S -> Nat]
      OBVIOUS
    <2>2. ASSUME NEW s \in SUBSET S, Cardinality(s) <= 0
          PROVE  g[s] = Unfolded(c, g, s)
      <3>1. Cardinality(s) = 0
        BY <2>2, <1>0
      <3>2. s = {}
        BY <3>1, FS_Subset, FS_EmptySet
      <3>. QED
        BY <3>2 DEF Unfolded
    <2>. QED
      BY <2>1, <2>2
  <1>2. ASSUME NEW n \in Nat, Good(n)
        PROVE  Good(n + 1)
    <2>1. PICK g \in [SUBSET S -> Nat] : Solves(g, n)
      BY <1>2
    <2> DEFINE h == [s \in SUBSET S |->
                       IF Cardinality(s) <= n THEN g[s] ELSE Unfolded(c, g, s)]
    <2>2. \A s \in SUBSET S : Unfolded(c, g, s) \in Nat
      <3>1. ASSUME NEW s \in SUBSET S, s # {}
            PROVE  Picked(s) \in s /\ s \ {Picked(s)} \in SUBSET S
        BY <3>1 DEF Picked
      <3>. QED
        BY <3>1 DEF Unfolded
    <2>3. h \in [SUBSET S -> Nat]
      BY <2>2
    <2>4. ASSUME NEW s \in SUBSET S, Cardinality(s) <= n + 1
          PROVE  h[s] = Unfolded(c, h, s)
      <3>1. h[s] = Unfolded(c, g, s)
        BY <2>1
      <3>2. CASE s = {}
        BY <3>1, <3>2 DEF Unfolded
      <3>3. CASE s # {}
        <4> DEFINE t == s \ {Picked(s)}
        <4>1. Picked(s) \in s
          BY <3>3 DEF Picked
        <4>2. /\ t \in SUBSET S /\ Cardinality(s) \in Nat
              /\ Cardinality(t) = Cardinality(s) - 1
          BY <4>1, Without
        <4>3. Cardinality(t) <= n
          BY <4>2, <2>4
        <4>4. h[t] = g[t]
          BY <4>2, <4>3
        <4>. QED
          BY <3>1, <3>3, <4>4 DEF Unfolded
      <3>. QED
        BY <3>2, <3>3
    <2>. QED
      BY <2>3, <2>4
  <1> HIDE DEF Good
  <1>3. Bad = {}
    <2>1. SUFFICES ASSUME Bad # {} PROVE FALSE
      OBVIOUS
    <2>2. PICK n \in Bad : \A m \in Bad : n <= m
      BY <2>1, Least
    <2>3. n # 0 /\ n - 1 \in Nat /\ n - 1 \notin Bad
      BY <2>2, <1>1
    <2>4. Good(n - 1)
      BY <2>3
    <2>. QED
      BY <2>2, <2>3, <2>4, <1>2
  <1>4. Good(Cardinality(S))
    BY <1>3, <1>0
  <1>5. PICK g \in [SUBSET S -> Nat] : Solves(g, Cardinality(S))
    BY <1>4 DEF Good
  <1>6. \A s \in SUBSET S : Cardinality(s) <= Cardinality(S)
    BY FS_Subset
  <1>. QED
    BY <1>5, <1>6 DEF IsSum

\* Two solutions agree on the parts of both sets whose elements they weigh alike.
LEMMA SumsAgree ==
  ASSUME NEW S, IsFiniteSet(S), NEW c, NEW g, IsSum(c, S, g),
         NEW T, NEW d, NEW h, IsSum(d, T, h),
         NEW U, U \subseteq S, U \subseteq T, \A x \in U : c[x] = d[x]
  PROVE  g[U] = h[U]
  <1> DEFINE Bad == {n \in Nat : \E s \in SUBSET U : Cardinality(s) = n /\ g[s] # h[s]}
  <1>0. IsFiniteSet(U)
    BY FS_Subset
  <1>1. SUFFICES ASSUME g[U] # h[U] PROVE FALSE
    OBVIOUS
  <1>2. Cardinality(U) \in Bad
    BY <1>0, <1>1, FS_CardinalityType
  <1>3. PICK n \in Bad : n \in Nat /\ n - 1 \notin Bad
    <2>1. Bad \subseteq Nat
      OBVIOUS
    <2>. HIDE DEF Bad
    <2>. QED
      BY <1>2, <2>1, LeastOne
  <1>4. PICK s \in SUBSET U : Cardinality(s) = n /\ g[s] # h[s]
    BY <1>3
  <1>5. g[s] = Unfolded(c, g, s) /\ h[s] = Unfolded(d, h, s)
    BY <1>4 DEF IsSum
  <1>6. s # {}
    BY <1>4, <1>5 DEF Unfolded
  <1> DEFINE x == Picked(s)
             t == s \ {x}
  <1>7. x \in s
    BY <1>6 DEF Picked
  <1>8. /\ t \in SUBSET U /\ Cardinality(s) \in Nat /\ Cardinality(s) # 0
        /\ Cardinality(t) = Cardinality(s) - 1
    BY <1>0, <1>7, Without
  <1>9. g[t] = h[t]
    <2>1. Cardinality(t) = n - 1 /\ Cardinality(t) \in Nat
      BY <1>4, <1>8
    <2>. QED
      BY <1>3, <1>8, <2>1
  <1>10. c[x] = d[x]
    BY <1>7
  <1>. QED
    BY <1>4, <1>5, <1>6, <1>9, <1>10 DEF Unfolded

\* The library's fold is such a solution, so the only one.
LEMMA TotalIsSum ==
  ASSUME NEW S, IsFiniteSet(S), NEW c, \A a \in S : c[a] \in Nat
  PROVE  \E g \in [SUBSET S -> Nat] : IsSum(c, S, g) /\ Total(c, S) = g[S]
  <1> DEFINE iter == CHOOSE iter :
               iter = [s \in SUBSET S |->
                         IF s = {} THEN 0 ELSE c[Picked(s)] + iter[s \ {Picked(s)}]]
  <1>1. Total(c, S) = iter[S]
    BY DEF Total, MapThenSumSet, MapThenFoldSet, Picked
  <1>2. PICK g \in [SUBSET S -> Nat] : IsSum(c, S, g)
    BY SumsExist
  <1>3. g = [s \in SUBSET S |->
               IF s = {} THEN 0 ELSE c[Picked(s)] + g[s \ {Picked(s)}]]
    BY <1>2 DEF IsSum, Unfolded
  <1>4. iter = [s \in SUBSET S |->
                  IF s = {} THEN 0 ELSE c[Picked(s)] + iter[s \ {Picked(s)}]]
    BY <1>3
  <1> HIDE DEF iter
  <1>5. IsSum(c, S, iter)
    BY <1>4 DEF IsSum, Unfolded
  <1>6. iter[S] = g[S]
    BY <1>2, <1>5, SumsAgree
  <1>. QED
    BY <1>1, <1>2, <1>6

\* The sum over a part of S is what the solution on S gives it.
LEMMA TotalOfPart ==
  ASSUME NEW S, IsFiniteSet(S), NEW c, \A a \in S : c[a] \in Nat,
         NEW g, IsSum(c, S, g), NEW s \in SUBSET S
  PROVE  Total(c, s) = g[s]
  <1>1. IsFiniteSet(s) /\ \A a \in s : c[a] \in Nat
    BY FS_Subset
  <1>2. PICK h \in [SUBSET s -> Nat] : IsSum(c, s, h) /\ Total(c, s) = h[s]
    BY <1>1, TotalIsSum
  <1>3. g[s] = h[s]
    BY <1>2, SumsAgree
  <1>. QED
    BY <1>2, <1>3

AnyFirst(c, S, g) == \A T \in SUBSET S : \A z \in T : g[T] = c[z] + g[T \ {z}]

\* A solution counts every element once, whichever is taken out first.
LEMMA SumRemoves ==
  ASSUME NEW S, IsFiniteSet(S), NEW c, \A a \in S : c[a] \in Nat,
         NEW g \in [SUBSET S -> Nat], IsSum(c, S, g)
  PROVE  AnyFirst(c, S, g)
  <1> DEFINE Off(s, x) == g[s] # c[x] + g[s \ {x}]
             Bad == {n \in Nat : \E s \in SUBSET S : \E x \in s :
                                    Cardinality(s) = n /\ Off(s, x)}
  <1>1. SUFFICES ASSUME NEW T \in SUBSET S, NEW z \in T, Off(T, z)
        PROVE  FALSE
    BY DEF AnyFirst
  <1>2. Cardinality(T) \in Bad
    BY <1>1, FS_Subset, FS_CardinalityType
  <1>3. PICK n \in Bad : n \in Nat /\ n - 1 \notin Bad
    <2>1. Bad \subseteq Nat
      OBVIOUS
    <2>. HIDE DEF Bad
    <2>. QED
      BY <1>2, <2>1, LeastOne
  <1>4. PICK s \in SUBSET S : \E x \in s : Cardinality(s) = n /\ Off(s, x)
    BY <1>3
  <1>4a. PICK x \in s : Cardinality(s) = n /\ Off(s, x)
    BY <1>4
  <1>5. \A t \in SUBSET S : Cardinality(t) = n - 1 => \A v \in t : ~Off(t, v)
    <2>. HIDE DEF Off
    <2>2. SUFFICES ASSUME NEW t \in SUBSET S, Cardinality(t) = n - 1, NEW v \in t
          PROVE  ~Off(t, v)
      OBVIOUS
    <2>3. n - 1 \in Nat
      BY <2>2, FS_Subset, FS_CardinalityType
    <2>. QED
      BY <1>3, <2>2, <2>3
  <1> DEFINE y == Picked(s)
  <1>6. y \in s
    BY <1>4a DEF Picked
  <1>7. g[s] = c[y] + g[s \ {y}]
    BY <1>6 DEF IsSum, Unfolded
  <1>8. x # y
    BY <1>4a, <1>7
  <1>9. g[s \ {y}] = c[x] + g[(s \ {y}) \ {x}]
    <2>1. s \ {y} \in SUBSET S /\ Cardinality(s \ {y}) = n - 1
      BY <1>4a, <1>6, Without
    <2>. QED
      BY <1>5, <1>8, <2>1
  <1>10. g[s \ {x}] = c[y] + g[(s \ {x}) \ {y}]
    <2>1. s \ {x} \in SUBSET S /\ Cardinality(s \ {x}) = n - 1
      BY <1>4a, Without
    <2>. QED
      BY <1>5, <1>6, <1>8, <2>1
  <1> DEFINE rest == (s \ {x}) \ {y}
  <1>11. (s \ {y}) \ {x} = rest
    OBVIOUS
  <1>12. g[rest] \in Nat /\ c[x] \in Nat /\ c[y] \in Nat
    BY <1>6
  <1>13. g[s] = c[y] + (c[x] + g[rest]) /\ g[s] # c[x] + (c[y] + g[rest])
    BY <1>4a, <1>7, <1>9, <1>10, <1>11
  <1> HIDE DEF rest, y
  <1>. QED
    BY <1>12, <1>13

(* What is used of the sum. *)

\* The sum of natural numbers is one; over no elements it is 0, and taking out any
\* element takes out its weight.
LEMMA TotalFacts ==
  ASSUME NEW S, IsFiniteSet(S), NEW c, \A a \in S : c[a] \in Nat
  PROVE  /\ Total(c, S) \in Nat
         /\ S = {} => Total(c, S) = 0
         /\ \A x \in S : Total(c, S) = c[x] + Total(c, S \ {x})
  <1>1. PICK g \in [SUBSET S -> Nat] : IsSum(c, S, g) /\ Total(c, S) = g[S]
    BY TotalIsSum
  <1>2. ASSUME S = {}
        PROVE  Total(c, S) = 0
    BY <1>1, <1>2 DEF IsSum, Unfolded
  <1>3. ASSUME NEW x \in S
        PROVE  Total(c, S) = c[x] + Total(c, S \ {x})
    <2>1. g[S] = c[x] + g[S \ {x}]
      <3>1. S \in SUBSET S
        OBVIOUS
      <3>2. AnyFirst(c, S, g)
        BY <1>1, SumRemoves
      <3>. QED
        BY <3>1, <3>2 DEF AnyFirst
    <2>2. Total(c, S \ {x}) = g[S \ {x}]
      BY <1>1, TotalOfPart
    <2>. QED
      BY <1>1, <2>1, <2>2
  <1>. QED
    BY <1>1, <1>2, <1>3

\* Adding m to the weight of every element of F adds m to the sum for each.
LEMMA TotalRaised ==
  ASSUME NEW S, IsFiniteSet(S), NEW F \in SUBSET S, NEW m \in Nat,
         NEW c, \A a \in S : c[a] \in Nat,
         NEW d, \A a \in S : d[a] = IF a \in F THEN c[a] + m ELSE c[a]
  PROVE  Total(d, S) = Total(c, S) + m * Cardinality(F)
  <1> DEFINE Off(s) == Total(d, s) # Total(c, s) + m * Cardinality(F \cap s)
             Bad == {n \in Nat : \E s \in SUBSET S : Cardinality(s) = n /\ Off(s)}
  <1>0. \A s \in SUBSET S :
           /\ IsFiniteSet(s) /\ Cardinality(s) \in Nat
           /\ \A a \in s : c[a] \in Nat /\ d[a] \in Nat
    BY FS_Subset, FS_CardinalityType
  <1>1. SUFFICES ASSUME Off(S) PROVE FALSE
    <2>1. F \cap S = F
      OBVIOUS
    <2>. QED
      BY <2>1
  <1>2. Cardinality(S) \in Bad
    BY <1>0, <1>1
  <1>3. PICK n \in Bad : n \in Nat /\ n - 1 \notin Bad
    <2>1. Bad \subseteq Nat
      OBVIOUS
    <2>. HIDE DEF Bad
    <2>. QED
      BY <1>2, <2>1, LeastOne
  <1>4. PICK s \in SUBSET S : Cardinality(s) = n /\ Off(s)
    BY <1>3
  <1>5. s # {}
    <2>1. SUFFICES ASSUME s = {} PROVE FALSE
      OBVIOUS
    <2>2. Total(c, s) = 0 /\ Total(d, s) = 0
      BY <2>1, <1>0, TotalFacts
    <2>3. F \cap s = {} /\ Cardinality({}) = 0
      BY <2>1, FS_EmptySet
    <2>4. m * Cardinality(F \cap s) = 0
      <3>1. m * 0 = 0
        OBVIOUS
      <3>2. Cardinality(F \cap s) = 0
        BY <2>3
      <3>. QED
        BY <3>1, <3>2
    <2>. QED
      BY <1>4, <2>2, <2>4
  <1>6. PICK x : x \in s
    BY <1>5
  <1> DEFINE t == s \ {x}
  <1>7. t \in SUBSET S /\ ~Off(t)
    <2>1. t \in SUBSET S /\ Cardinality(t) = n - 1 /\ n # 0
      BY <1>4, <1>6, Without
    <2>2. n - 1 \in Nat
      BY <2>1, <1>0
    <2>. QED
      BY <1>3, <2>1, <2>2
  <1>8. Total(c, s) = c[x] + Total(c, t) /\ Total(d, s) = d[x] + Total(d, t)
    BY <1>0, <1>6, TotalFacts
  <1>9. Total(c, t) \in Nat /\ Total(d, t) \in Nat /\ c[x] \in Nat
    BY <1>0, <1>6, <1>7, TotalFacts
  <1>10. IsFiniteSet(F \cap s) /\ IsFiniteSet(F \cap t)
    BY <1>0, <1>7, FS_Subset
  <1>11. Cardinality(F \cap s) \in Nat /\ Cardinality(F \cap t) \in Nat
    BY <1>10, FS_CardinalityType
  <1>12. CASE x \in F
    <2>1. F \cap t = (F \cap s) \ {x} /\ x \in F \cap s
      BY <1>6, <1>12
    <2>2. Cardinality(F \cap t) = Cardinality(F \cap s) - 1
      <3> DEFINE K == F \cap s
      <3>1. IsFiniteSet(K) /\ x \in K /\ F \cap t = K \ {x}
        BY <1>10, <2>1
      <3> HIDE DEF K, t
      <3>2. Cardinality(K \ {x}) = Cardinality(K) - 1
        BY <3>1, FS_RemoveElement
      <3>. QED
        BY <3>1, <3>2 DEF K
    <2>3. \A k \in Nat : m * (k + 1) = m * k + m /\ m * k \in Nat
      OBVIOUS
    <2>4. m * Cardinality(F \cap s) = m * Cardinality(F \cap t) + m
      BY <1>11, <2>2, <2>3
    <2>5. m * Cardinality(F \cap t) \in Nat
      BY <1>11, <2>3
    <2>6. d[x] = c[x] + m
      BY <1>6, <1>12
    <2>7. Total(d, t) = Total(c, t) + m * Cardinality(F \cap t)
      BY <1>7
    <2> DEFINE p == m * Cardinality(F \cap s)
               q == m * Cardinality(F \cap t)
    <2>8. p = q + m /\ q \in Nat /\ Total(d, t) = Total(c, t) + q
          /\ Total(d, s) # Total(c, s) + p
      BY <1>4, <2>4, <2>5, <2>7
    <2> HIDE DEF p, q, t
    <2>. QED
      BY <2>8, <2>6, <1>8, <1>9
  <1>13. CASE x \notin F
    <2>1. F \cap t = F \cap s
      BY <1>13
    <2>2. d[x] = c[x]
      BY <1>6, <1>13
    <2> DEFINE p == m * Cardinality(F \cap s)
    <2>3. p \in Nat
      BY <1>11
    <2>4. Total(d, t) = Total(c, t) + p /\ Total(d, s) # Total(c, s) + p
      BY <1>4, <1>7, <2>1
    <2> HIDE DEF p, t
    <2>. QED
      BY <2>2, <2>3, <2>4, <1>8, <1>9
  <1>. QED
    BY <1>12, <1>13

\* Elements that weigh nothing may be left out.
LEMMA TotalWithoutZeros ==
  ASSUME NEW S, IsFiniteSet(S), NEW T \in SUBSET S, NEW c, \A a \in S : c[a] \in Nat,
         \A a \in S \ T : c[a] = 0
  PROVE  Total(c, S) = Total(c, T)
  <1> DEFINE Off(s) == Total(c, s) # Total(c, s \cap T)
             Bad == {n \in Nat : \E s \in SUBSET S : Cardinality(s) = n /\ Off(s)}
  <1>0. \A s \in SUBSET S :
           /\ IsFiniteSet(s) /\ Cardinality(s) \in Nat
           /\ \A a \in s : c[a] \in Nat
    BY FS_Subset, FS_CardinalityType
  <1>1. SUFFICES ASSUME Off(S) PROVE FALSE
    <2>1. S \cap T = T
      OBVIOUS
    <2>. QED
      BY <2>1
  <1>2. Cardinality(S) \in Bad
    BY <1>0, <1>1
  <1>3. PICK n \in Bad : n \in Nat /\ n - 1 \notin Bad
    <2>1. Bad \subseteq Nat
      OBVIOUS
    <2>. HIDE DEF Bad
    <2>. QED
      BY <1>2, <2>1, LeastOne
  <1>4. PICK s \in SUBSET S : Cardinality(s) = n /\ Off(s)
    BY <1>3
  <1>5. PICK x : x \in s \ T
    <2>1. s \cap T = s \/ \E x : x \in s \ T
      OBVIOUS
    <2>. QED
      BY <1>4, <2>1
  <1> DEFINE t == s \ {x}
  <1>6. t \in SUBSET S /\ ~Off(t)
    <2>1. t \in SUBSET S /\ Cardinality(t) = n - 1 /\ n # 0
      BY <1>4, <1>5, Without
    <2>2. n - 1 \in Nat
      BY <2>1, <1>0
    <2>. QED
      BY <1>3, <2>1, <2>2
  <1>7. Total(c, s) = c[x] + Total(c, t)
    BY <1>0, <1>5, TotalFacts
  <1>8. Total(c, t) \in Nat /\ c[x] = 0
    BY <1>0, <1>5, <1>6, TotalFacts
  <1>9. t \cap T = s \cap T
    BY <1>5
  <1>. QED
    BY <1>4, <1>6, <1>7, <1>8, <1>9

-----------------------------------------------------------------------------
(* The ledger: its totals are sums over the attempts. *)

Cells == Runs \X AttemptNumber
Charges == [a \in Cells |-> att[a[1]][a[2]].charged]
HeldCells == {a \in Cells : Held(a[1], a[2])}
AccountInv ==
  /\ reserved = Maximum * Cardinality(HeldCells)
  /\ consumed = Total(Charges, Cells)

\* An executing run has its reservation accepted; what is not settled is not charged.
AcceptedInv ==
  \A r \in Runs : run[r].status \in ACTIVE_STATUSES => att[r][made[r]].reservation = "ACCEPTED"
UnsettledInv ==
  \A r \in Runs : \A n \in AttemptNumber :
     att[r][n].reconciliation = "NONE" => att[r][n].charged = 0

\* One transaction settles the attempts F, charging m for each, and opens those of G.
AccountStep(F, G, m) ==
  /\ F \subseteq HeldCells /\ G \subseteq Cells \ HeldCells /\ m \in Nat
  /\ HeldCells' = (HeldCells \ F) \cup G
  /\ \A a \in Cells : Charges'[a] = IF a \in F THEN Charges[a] + m ELSE Charges[a]
  /\ reserved' = (reserved - Maximum * Cardinality(F)) + Maximum * Cardinality(G)
  /\ consumed' = consumed + m * Cardinality(F)

SameAccount(a, b) ==
  b.reservation = a.reservation /\ b.reconciliation = a.reconciliation /\ b.charged = a.charged
AccountsKept ==
  \A r \in Runs : \A n \in AttemptNumber : SameAccount(att[r][n], att'[r][n])

\* There are finitely many attempts.
LEMMA CellsAreFinite ==
  /\ IsFiniteSet(Cells)
  /\ \A S \in SUBSET Cells : IsFiniteSet(S) /\ Cardinality(S) \in Nat
  <1>1. IsFiniteSet(AttemptNumber)
    BY ParameterAssumption, FS_Interval DEF AttemptNumber
  <1>2. IsFiniteSet(Cells)
    BY <1>1, ParameterAssumption, FS_Product DEF Cells
  <1>. QED
    BY <1>2, FS_Subset, FS_CardinalityType

\* What one cell of the tables is.
LEMMA CellFacts ==
  ASSUME TypeOK
  PROVE  /\ \A a \in Cells : /\ a[1] \in Runs /\ a[2] \in AttemptNumber
                             /\ att[a[1]][a[2]] \in AttemptRow
                             /\ Charges[a] = att[a[1]][a[2]].charged
                             /\ Charges[a] \in Nat
         /\ \A r \in Runs : \A n \in AttemptNumber : <<r, n>> \in Cells
         /\ HeldCells \subseteq Cells
  <1>1. \A a \in Cells : a[1] \in Runs /\ a[2] \in AttemptNumber
    BY DEF Cells
  <1>2. \A a \in Cells : att[a[1]][a[2]] \in AttemptRow
    BY <1>1 DEF TypeOK
  <1>3. \A row \in AttemptRow : row.charged \in Nat
    BY ParameterAssumption DEF AttemptRow
  <1>. QED
    BY <1>1, <1>2, <1>3 DEF Charges, HeldCells, Cells

\* Removing F from a finite set that contains it and adding the new G.
LEMMA CardinalityMoves ==
  ASSUME NEW H \in SUBSET Cells, NEW F \in SUBSET H, NEW G \in SUBSET Cells, G \cap H = {}
  PROVE  Cardinality((H \ F) \cup G) = (Cardinality(H) - Cardinality(F)) + Cardinality(G)
  <1>1. IsFiniteSet(H) /\ IsFiniteSet(F) /\ IsFiniteSet(G) /\ IsFiniteSet(H \ F)
    BY CellsAreFinite
  <1>2. Cardinality(H) \in Nat /\ Cardinality(F) \in Nat /\ Cardinality(G) \in Nat
        /\ Cardinality(H \ F) \in Nat
    BY CellsAreFinite
  <1>3. Cardinality(H \ F) = Cardinality(H) - Cardinality(F)
    <2>1. H \cap F = F
      OBVIOUS
    <2>. QED
      BY <1>1, <2>1, FS_Difference
  <1>4. Cardinality((H \ F) \cup G) =
          Cardinality(H \ F) + Cardinality(G) - Cardinality((H \ F) \cap G)
    BY <1>1, FS_Union
  <1>5. Cardinality((H \ F) \cap G) = 0
    <2>1. (H \ F) \cap G = {}
      OBVIOUS
    <2>. QED
      BY <2>1, FS_EmptySet
  <1> DEFINE h == Cardinality(H)
             f == Cardinality(F)
             g == Cardinality(G)
             k == Cardinality((H \ F) \cup G)
  <1>6. h \in Nat /\ f \in Nat /\ g \in Nat /\ k = (h - f) + g - 0
    BY <1>2, <1>3, <1>4, <1>5
  <1>7. k = (h - f) + g
    <2>. HIDE DEF h, f, g, k
    <2>. QED
      BY <1>6
  <1>. QED
    BY <1>7

\* A product over the moved cardinalities.
LEMMA TimesDistributes ==
  ASSUME NEW m \in Nat, NEW h \in Nat, NEW f \in Nat, NEW g \in Nat
  PROVE  m * ((h - f) + g) = (m * h - m * f) + m * g
  OBVIOUS

\* A transaction that settles F and opens G leaves the totals balanced.
LEMMA AccountStepKeepsTotals ==
  ASSUME TypeOK, TypeOK', AccountInv, NEW F, NEW G, NEW m, AccountStep(F, G, m)
  PROVE  AccountInv'
  <1>1. /\ F \in SUBSET HeldCells /\ G \in SUBSET Cells /\ G \cap HeldCells = {} /\ m \in Nat
        /\ HeldCells \in SUBSET Cells /\ F \in SUBSET Cells
    BY CellFacts DEF AccountStep
  <1>2. reserved' = Maximum * Cardinality(HeldCells')
    <2>1. Cardinality(HeldCells') =
            (Cardinality(HeldCells) - Cardinality(F)) + Cardinality(G)
      BY <1>1, CardinalityMoves DEF AccountStep
    <2>2. /\ Cardinality(HeldCells) \in Nat /\ Cardinality(F) \in Nat
          /\ Cardinality(G) \in Nat
      BY <1>1, CellsAreFinite
    <2>3. Maximum * Cardinality(HeldCells') =
            (Maximum * Cardinality(HeldCells) - Maximum * Cardinality(F))
              + Maximum * Cardinality(G)
      BY <2>1, <2>2, TimesDistributes, ParameterAssumption
    <2>. QED
      BY <2>3 DEF AccountStep, AccountInv
  <1>3. PICK c : c = Charges'
    OBVIOUS
  <1>4. consumed' = Total(c, Cells)
    <2>1. \A a \in Cells : Charges[a] \in Nat
      BY CellFacts
    <2>2. \A a \in Cells : c[a] = IF a \in F THEN Charges[a] + m ELSE Charges[a]
      BY <1>3 DEF AccountStep
    <2>3. Total(c, Cells) = Total(Charges, Cells) + m * Cardinality(F)
      BY <1>1, <2>1, <2>2, CellsAreFinite, TotalRaised
    <2>. QED
      BY <2>3 DEF AccountStep, AccountInv
  <1>5. consumed' = Total(Charges, Cells)'
    BY <1>3, <1>4 DEF Total, MapThenSumSet, MapThenFoldSet
  <1>. QED
    BY <1>2, <1>5 DEF AccountInv

-----------------------------------------------------------------------------
(* The transactions that settle and open nothing. *)

\* Appending a lifecycle event touches neither reservation nor charge.
LEMMA AppendKeepsAccount ==
  ASSUME NEW a \in AttemptRow, NEW source, NEW target
  PROVE  SameAccount(a, AppendFrom(a, source, target)) /\ SameAccount(a, AppendEvent(a, target))
  BY DEF AppendFrom, AppendEvent, AttemptRow, SameAccount

\* One attempt is replaced by one with the same account.
LEMMA ReplacedKeepsAccounts ==
  ASSUME TypeOK, NEW r \in Runs, NEW b, SameAccount(att[r][made[r]], b),
         att' = [att EXCEPT ![r][made[r]] = b]
  PROVE  AccountsKept
  <1>1. made[r] \in AttemptNumber /\ att \in [Runs -> [AttemptNumber -> AttemptRow]]
    BY DEF TypeOK
  <1>2. \A s \in Runs : \A n \in AttemptNumber :
          att'[s][n] = IF s = r /\ n = made[r] THEN b ELSE att[s][n]
    BY <1>1
  <1>. QED
    BY <1>2 DEF AccountsKept, SameAccount

\* No attempt is written.
LEMMA SameAttemptsKeepAccounts ==
  ASSUME att' = att
  PROVE  AccountsKept
  BY DEF AccountsKept, SameAccount

\* Where the accounts are kept the ledger still balances if it is left alone.
LEMMA KeptAccountsBalance ==
  ASSUME TypeOK, TypeOK', AccountInv, UnsettledInv, AccountsKept,
         reserved' = reserved, consumed' = consumed
  PROVE  AccountInv' /\ UnsettledInv'
  <1>1. \A a \in Cells : SameAccount(att[a[1]][a[2]], att'[a[1]][a[2]])
    BY DEF Cells, AccountsKept
  <1>2. HeldCells' = HeldCells
    BY <1>1 DEF HeldCells, Held, SameAccount
  <1>3. Charges' = Charges
    BY <1>1 DEF Charges, SameAccount
  <1>4. AccountStep({}, {}, 0)
    <2>1. Cardinality({}) = 0 /\ Maximum * 0 = 0 /\ 0 * 0 = 0
      BY ParameterAssumption, FS_EmptySet
    <2>2. reserved \in Nat /\ consumed \in Nat
      BY DEF TypeOK
    <2>. QED
      BY <1>2, <1>3, <2>1, <2>2 DEF AccountStep
  <1>5. AccountInv'
    BY <1>4, AccountStepKeepsTotals
  <1>6. UnsettledInv'
    BY DEF UnsettledInv, AccountsKept, SameAccount
  <1>. QED
    BY <1>5, <1>6

\* A cancellation that takes effect settles nothing.
LEMMA CancelNowKeepsAccounts ==
  ASSUME TypeOK, NEW r \in Runs, CancelNow(r)
  PROVE  AccountsKept
  <1>1. PICK b : b = AppendEvent(att[r][made[r]], "CANCELLED")
    OBVIOUS
  <1>2. att' = [att EXCEPT ![r][made[r]] = b]
    BY <1>1 DEF CancelNow
  <1>3. SameAccount(att[r][made[r]], b)
    BY <1>1, SlotTypes, AppendKeepsAccount
  <1>. QED
    BY <1>2, <1>3, ReplacedKeepsAccounts

\* transition_run settles nothing.
LEMMA AdvanceKeepsAccounts ==
  ASSUME TypeOK, NEW r \in Runs, NEW target, Advance(r, target)
  PROVE  AccountsKept
  <1>1. PICK b : b = AppendEvent(att[r][made[r]], target)
    OBVIOUS
  <1>2. att' = att \/ att' = [att EXCEPT ![r][made[r]] = b]
    BY <1>1 DEF Advance
  <1>3. SameAccount(att[r][made[r]], b)
    BY <1>1, SlotTypes, AppendKeepsAccount
  <1>. QED
    BY <1>2, <1>3, ReplacedKeepsAccounts, SameAttemptsKeepAccounts

\* Every step of a coroutine but the reconciliation.
LEMMA DrivingKeepsAccounts ==
  ASSUME TypeOK, NEW w \in Workers,
         \/ Prepare(w) \/ Start(w) \/ Verify(w) \/ Score(w) \/ Dispatched(w)
         \/ Inspect(w) \/ FinishRun(w) \/ Heartbeat(w) \/ Crash(w)
  PROVE  AccountsKept
  <1>1. CASE Prepare(w) \/ Start(w) \/ Verify(w) \/ Score(w)
    <2>1. PICK pc \in WorkerStep, target \in RunStatus, next \in WorkerStep :
            TransitionRun(w, pc, target, next)
      BY <1>1 DEF Prepare, Start, Verify, Score, WorkerStep, RunStatus, ACTIVE_STATUSES
    <2>2. PICK r \in Runs : r = worker[w].run
      BY <2>1, BusyType DEF TransitionRun, WorkerStep
    <2>3. CASE CancelNow(r)
      BY <2>3, CancelNowKeepsAccounts
    <2>4. CASE Advance(r, target)
      BY <2>4, AdvanceKeepsAccounts
    <2>5. CASE Raise(w)
      BY <2>5, SameAttemptsKeepAccounts DEF Raise
    <2>. QED
      BY <2>1, <2>2, <2>3, <2>4, <2>5 DEF TransitionRun
  <1>2. CASE Dispatched(w) \/ Inspect(w) \/ Crash(w)
    BY <1>2, SameAttemptsKeepAccounts DEF Dispatched, Inspect, Crash
  <1>3. CASE FinishRun(w)
    <2>1. PICK r \in Runs : r = worker[w].run
      BY <1>3, BusyType DEF FinishRun
    <2>2. CASE Raise(w)
      BY <2>2, SameAttemptsKeepAccounts DEF Raise
    <2>3. ASSUME NEW outcome,
                 att' = [att EXCEPT ![r][made[r]] =
                           AppendEvent(att[r][made[r]], LifecycleTerminalByOutcome[outcome])]
          PROVE  AccountsKept
      <3>1. PICK b : b = AppendEvent(att[r][made[r]], LifecycleTerminalByOutcome[outcome])
        OBVIOUS
      <3>2. SameAccount(att[r][made[r]], b)
        BY <3>1, SlotTypes, AppendKeepsAccount
      <3>. QED
        BY <2>3, <3>1, <3>2, ReplacedKeepsAccounts
    <2>. QED
      BY <1>3, <2>1, <2>2, <2>3 DEF FinishRun
  <1>4. CASE Heartbeat(w)
    <2>1. PICK r \in Runs : r = worker[w].run
      BY <1>4, BusyType DEF Heartbeat
    <2>2. CASE CancelNow(r)
      BY <2>2, CancelNowKeepsAccounts
    <2>3. CASE att' = att
      BY <2>3, SameAttemptsKeepAccounts
    <2>. QED
      BY <1>4, <2>1, <2>2, <2>3 DEF Heartbeat
  <1>. QED
    BY <1>1, <1>2, <1>3, <1>4

\* Neither the clock nor an operator's control settles or opens anything.
LEMMA OperatorKeepsAccounts ==
  ASSUME TypeOK, Tick \/ Operator
  PROVE  AccountsKept
  <1>1. CASE Tick \/ Pause \/ Resume \/ RunRemaining \/ RollBackCancel
    BY <1>1, SameAttemptsKeepAccounts DEF Tick, Pause, Resume, RunRemaining, RollBackCancel
  <1>2. ASSUME NEW slots \in SUBSET Runs, RetryInfraSelected(slots) \/ ReadCancel(slots)
        PROVE  AccountsKept
    BY <1>2, SameAttemptsKeepAccounts DEF RetryInfraSelected, ReadCancel
  <1>3. ASSUME NEW slots, NEW seen, ApplyCancel(slots, seen)
        PROVE  AccountsKept
    <2>1. SUFFICES ASSUME NEW s \in Runs, NEW n \in AttemptNumber
                   PROVE  SameAccount(att[s][n], att'[s][n])
      BY DEF AccountsKept
    <2>2. /\ att[s][made[s]] \in AttemptRow /\ made[s] \in AttemptNumber
          /\ att[s] \in [AttemptNumber -> AttemptRow]
      BY DEF TypeOK
    <2>3. PICK b : b = AppendFrom(att[s][made[s]], seen[s], "CANCELLED")
      OBVIOUS
    <2>4. SameAccount(att[s][made[s]], b) /\ SameAccount(att[s][n], att[s][n])
      BY <2>2, <2>3, AppendKeepsAccount DEF SameAccount
    <2>5. att'[s] = att[s] \/ att'[s] = [att[s] EXCEPT ![made[s]] = b]
      BY <1>3, <2>3 DEF ApplyCancel
    <2>6. att'[s][n] = att[s][n] \/ (n = made[s] /\ att'[s][n] = b)
      BY <2>2, <2>5
    <2>. QED
      BY <2>4, <2>6
  <1>4. ASSUME NEW r \in Runs, RequestRunCancellation(r)
        PROVE  AccountsKept
    <2>1. PICK b : b = AppendEvent(att[r][made[r]], "CANCELLED")
      OBVIOUS
    <2>2. att' = att \/ att' = [att EXCEPT ![r][made[r]] = b]
      BY <1>4, <2>1 DEF RequestRunCancellation
    <2>3. SameAccount(att[r][made[r]], b)
      BY <2>1, SlotTypes, AppendKeepsAccount
    <2>. QED
      BY <2>2, <2>3, ReplacedKeepsAccounts, SameAttemptsKeepAccounts
  <1>. QED
    BY <1>1, <1>2, <1>3, <1>4 DEF Operator, IssueCancel, CommitCancel

-----------------------------------------------------------------------------
(* The reconciliation settles one attempt, an expiry those that were lost. *)

\* What settling writes.
LEMMA SettledAccount ==
  ASSUME NEW a \in AttemptRow, NEW status, NEW amount
  PROVE  /\ Settled(a, status, amount).reservation = a.reservation
         /\ Settled(a, status, amount).reconciliation = status
         /\ Settled(a, status, amount).charged = amount
  BY DEF Settled, AttemptRow

\* A reservation that was held is settled and charged.
LEMMA OneSettles ==
  ASSUME TypeOK, TypeOK', AccountInv, UnsettledInv, NEW r \in Runs, NEW amount \in Nat,
         Held(r, made[r]), att[r][made[r]].reconciliation = "NONE",
         NEW b, b.charged = amount, b.reconciliation \in {"UNAVAILABLE", "OBSERVED"},
         att' = [att EXCEPT ![r][made[r]] = b],
         reserved' = reserved - Maximum, consumed' = consumed + amount
  PROVE  AccountInv' /\ UnsettledInv'
  <1> DEFINE c == <<r, made[r]>>
  <1>1. /\ made[r] \in AttemptNumber /\ att \in [Runs -> [AttemptNumber -> AttemptRow]]
        /\ reserved \in Nat /\ consumed \in Nat
    BY DEF TypeOK
  <1>2. c \in Cells /\ c \in HeldCells
    BY <1>1 DEF Cells, HeldCells
  <1>3. \A s \in Runs : \A n \in AttemptNumber :
          att'[s][n] = IF s = r /\ n = made[r] THEN b ELSE att[s][n]
    BY <1>1
  <1>4. \A a \in Cells : att'[a[1]][a[2]] = IF a = c THEN b ELSE att[a[1]][a[2]]
    BY <1>3 DEF Cells
  <1>5. att[r][made[r]].charged = 0
    BY <1>1 DEF UnsettledInv
  <1>6. HeldCells' = (HeldCells \ {c}) \cup {}
    BY <1>4 DEF HeldCells, Held
  <1>7. \A a \in Cells : Charges'[a] = IF a \in {c} THEN Charges[a] + amount ELSE Charges[a]
    <2>1. Charges[c] = 0
      BY <1>2, <1>5 DEF Charges
    <2>. QED
      BY <1>4, <2>1 DEF Charges
  <1>8. AccountStep({c}, {}, amount)
    <2>1. Cardinality({c}) = 1 /\ Cardinality({}) = 0
      BY FS_Singleton, FS_EmptySet
    <2>2. Maximum * 1 = Maximum /\ Maximum * 0 = 0 /\ amount * 1 = amount
      BY ParameterAssumption
    <2>3. reserved' = (reserved - Maximum) + 0
      BY <1>1, ParameterAssumption
    <2>. HIDE DEF c
    <2>. QED
      BY <1>2, <1>6, <1>7, <2>1, <2>2, <2>3 DEF AccountStep
  <1>9. AccountInv'
    BY <1>8, AccountStepKeepsTotals
  <1>10. UnsettledInv'
    BY <1>3 DEF UnsettledInv
  <1>. QED
    BY <1>9, <1>10

\* An envelope that was exceeded: the reservation stays held and nothing is charged.
LEMMA OneExceeds ==
  ASSUME TypeOK, TypeOK', AccountInv, UnsettledInv, NEW r \in Runs,
         Held(r, made[r]), att[r][made[r]].reconciliation = "NONE",
         NEW b, b.charged = 0, b.reconciliation = "EXCEEDED", b.reservation = "ACCEPTED",
         att' = [att EXCEPT ![r][made[r]] = b],
         reserved' = reserved, consumed' = consumed
  PROVE  AccountInv' /\ UnsettledInv'
  <1>1. /\ made[r] \in AttemptNumber /\ att \in [Runs -> [AttemptNumber -> AttemptRow]]
    BY DEF TypeOK
  <1>3. \A s \in Runs : \A n \in AttemptNumber :
          att'[s][n] = IF s = r /\ n = made[r] THEN b ELSE att[s][n]
    BY <1>1
  <1>4. \A a \in Cells : att'[a[1]][a[2]] = IF a = <<r, made[r]>> THEN b ELSE att[a[1]][a[2]]
    BY <1>3 DEF Cells
  <1>5. att[r][made[r]].charged = 0
    BY <1>1 DEF UnsettledInv
  <1>6. HeldCells' = HeldCells
    BY <1>1, <1>4 DEF HeldCells, Held
  <1>7. Charges' = Charges
    BY <1>4, <1>5 DEF Charges
  <1>8. AccountStep({}, {}, 0)
    <2>1. Cardinality({}) = 0 /\ Maximum * 0 = 0 /\ 0 * 0 = 0
      BY ParameterAssumption, FS_EmptySet
    <2>2. reserved \in Nat /\ consumed \in Nat
      BY DEF TypeOK
    <2>. QED
      BY <1>6, <1>7, <2>1, <2>2 DEF AccountStep
  <1>9. AccountInv'
    BY <1>8, AccountStepKeepsTotals
  <1>10. UnsettledInv'
    BY <1>3 DEF UnsettledInv
  <1>. QED
    BY <1>9, <1>10

\* Whatever reconcile_attempt_resources decides, the ledger balances.
LEMMA ReconcileBalances ==
  ASSUME TypeOK, TypeOK', AccountInv, UnsettledInv, NEW w \in Workers, ReconcileTerminal(w)
  PROVE  AccountInv' /\ UnsettledInv'
  <1>1. PICK r \in Runs : r = worker[w].run
    BY BusyType DEF ReconcileTerminal
  <1>2. /\ att[r][made[r]] \in AttemptRow /\ Current(r) = att[r][made[r]]
    BY SlotTypes
  <1>3. CASE att' = att /\ UNCHANGED ledger
    BY <1>3, SameAttemptsKeepAccounts, KeptAccountsBalance DEF ledger
  <1>4. CASE Reconcile(w) /\ ~(att' = att /\ UNCHANGED ledger)
    <2> DEFINE a == att[r][made[r]]
    <2>1. a.reservation = "ACCEPTED" /\ a.reconciliation = "NONE"
      BY <1>1, <1>2, <1>4 DEF Reconcile, MayReconcile
    <2>2. Held(r, made[r])
      BY <2>1 DEF Held
    <2>3. ASSUME NEW status \in {"UNAVAILABLE", "OBSERVED"}, NEW amount \in Nat,
                 att' = [att EXCEPT ![r][made[r]] = Settled(a, status, amount)],
                 reserved' = reserved - Maximum, consumed' = consumed + amount
          PROVE  AccountInv' /\ UnsettledInv'
      <3>1. PICK b : b = Settled(a, status, amount)
        OBVIOUS
      <3>2. b.charged = amount /\ b.reconciliation \in {"UNAVAILABLE", "OBSERVED"}
        BY <1>2, <3>1, SettledAccount
      <3>. QED
        BY <2>1, <2>2, <2>3, <3>1, <3>2, OneSettles
    <2>4. ASSUME NEW b, b = Settled(a, "EXCEEDED", 0)
                        \/ b = AppendEvent(Settled(a, "EXCEEDED", 0), "FAILED_INFRA"),
                 att' = [att EXCEPT ![r][made[r]] = b], UNCHANGED ledger
          PROVE  AccountInv' /\ UnsettledInv'
      <3>1. 0 \in 0 .. Maximum
        BY ParameterAssumption
      <3>2. PICK d \in AttemptRow : d = Settled(a, "EXCEEDED", 0)
        BY <1>2, <3>1, SettledType
      <3>3. d.charged = 0 /\ d.reconciliation = "EXCEEDED" /\ d.reservation = "ACCEPTED"
        BY <1>2, <2>1, <3>2, SettledAccount
      <3>4. b = d \/ b = AppendEvent(d, "FAILED_INFRA")
        BY <2>4, <3>2
      <3>5. b.charged = 0 /\ b.reconciliation = "EXCEEDED" /\ b.reservation = "ACCEPTED"
        BY <3>3, <3>4, AppendKeepsAccount DEF SameAccount
      <3>. QED
        BY <2>1, <2>2, <2>4, <3>5, OneExceeds DEF ledger
    <2>5. Maximum \in Nat /\ \A amount \in 0 .. Maximum : amount \in Nat
      BY ParameterAssumption
    <2>. HIDE DEF a
    <2>6. Current(r) = a
      BY <1>2 DEF a
    <2>7. PICK s1, s2 : s1 = Settled(a, "EXCEEDED", 0)
                         /\ s2 = AppendEvent(Settled(a, "EXCEEDED", 0), "FAILED_INFRA")
      OBVIOUS
    <2>8. \/ \E status \in {"UNAVAILABLE", "OBSERVED"} : \E amount \in Nat :
                /\ att' = [att EXCEPT ![r][made[r]] = Settled(a, status, amount)]
                /\ reserved' = reserved - Maximum /\ consumed' = consumed + amount
          \/ /\ att' = [att EXCEPT ![r][made[r]] = s1] \/ att' = [att EXCEPT ![r][made[r]] = s2]
             /\ UNCHANGED ledger
      BY <1>1, <1>4, <2>5, <2>6, <2>7 DEF Reconcile, a, Current
    <2>. QED
      BY <2>3, <2>4, <2>7, <2>8
  <1>. QED
    BY <1>3, <1>4 DEF ReconcileTerminal, Raise

Unsettled == {r \in Lost : Current(r).reconciliation = "NONE"}
ExpiredCells == {<<r, made[r]>> : r \in Unsettled}

\* What an expiry settles was held, one attempt for each lost run.
LEMMA ExpiredAreHeld ==
  ASSUME TypeOK, AcceptedInv
  PROVE  /\ ExpiredCells \subseteq HeldCells
         /\ ExpiryCharge = Maximum * Cardinality(ExpiredCells)
  <1>1. ASSUME NEW r \in Unsettled
        PROVE  /\ r \in Runs /\ <<r, made[r]>> \in Cells /\ Held(r, made[r])
    <2>1. r \in Runs /\ run[r].status \in ACTIVE_STATUSES /\ Current(r).reconciliation = "NONE"
      BY DEF Unsettled, Lost
    <2>2. att[r][made[r]].reservation = "ACCEPTED"
      BY <2>1 DEF AcceptedInv
    <2>. QED
      BY <2>1, <2>2, SlotTypes DEF Held, Cells
  <1>2. ExpiredCells \subseteq HeldCells
    BY <1>1 DEF ExpiredCells, HeldCells
  <1>3. Cardinality(ExpiredCells) = Cardinality(Unsettled)
    <2> DEFINE f == [r \in Unsettled |-> <<r, made[r]>>]
    <2>1. f \in [Unsettled -> ExpiredCells]
      BY DEF ExpiredCells
    <2>2. \A r, s \in Unsettled : f[r] = f[s] => r = s
      OBVIOUS
    <2>3. \A c \in ExpiredCells : \E r \in Unsettled : f[r] = c
      BY DEF ExpiredCells
    <2>4. f \in Bijection(Unsettled, ExpiredCells)
      BY <2>1, <2>2, <2>3 DEF Bijection, Injection, IsInjective, Surjection
    <2>5. IsFiniteSet(Unsettled)
      BY <1>1, ParameterAssumption, FS_Subset
    <2>. HIDE DEF f
    <2>. QED
      BY <2>4, <2>5, FS_Bijection DEF ExistsBijection
  <1>. QED
    BY <1>2, <1>3 DEF ExpiryCharge, Unsettled

\* An expiry charges the maximum to an attempt nobody settled, and nothing to another.
LEMMA ExpiredAccount ==
  ASSUME NEW a \in AttemptRow
  PROVE  IF a.reconciliation = "NONE"
         THEN /\ ExpiredAttempt(a).reservation = a.reservation
              /\ ExpiredAttempt(a).reconciliation = "UNAVAILABLE"
              /\ ExpiredAttempt(a).charged = Maximum
         ELSE SameAccount(a, ExpiredAttempt(a))
  <1>1. PICK b : b = AppendEvent(a, "FAILED_INFRA")
    OBVIOUS
  <1>2. b \in AttemptRow /\ SameAccount(a, b)
    BY <1>1, AppendEventType, StatesInType, AppendKeepsAccount
  <1>3. ExpiredAttempt(a) = IF a.reconciliation = "NONE"
                            THEN Settled(b, "UNAVAILABLE", Maximum) ELSE b
    BY <1>1 DEF ExpiredAttempt
  <1>. QED
    BY <1>2, <1>3, SettledAccount DEF SameAccount

\* The account of every attempt after an expiry.
LEMMA AccountsAfterExpiry ==
  ASSUME TypeOK, NEW a \in Cells
  PROVE  LET old == att[a[1]][a[2]]
             new == AttAfterExpiry[a[1]][a[2]]
         IN  IF a \in ExpiredCells
             THEN /\ old.reconciliation = "NONE"
                  /\ new.reservation = old.reservation /\ new.charged = Maximum
                  /\ new.reconciliation = "UNAVAILABLE"
             ELSE SameAccount(old, new)
  <1> DEFINE r == a[1]
             n == a[2]
  <1>1. /\ r \in Runs /\ n \in AttemptNumber /\ a = <<r, n>> /\ made[r] \in AttemptNumber
        /\ att[r] \in [AttemptNumber -> AttemptRow] /\ att[r][made[r]] \in AttemptRow
        /\ Current(r) = att[r][made[r]]
    BY SlotTypes DEF Cells, TypeOK
  <1>2. a \in ExpiredCells <=>
          r \in Lost /\ n = made[r] /\ att[r][made[r]].reconciliation = "NONE"
    BY <1>1 DEF ExpiredCells, Unsettled
  <1>. HIDE DEF r, n
  <1>3. CASE r \in Lost /\ n = made[r]
    <2>1. AttAfterExpiry[r][n] = ExpiredAttempt(att[r][n])
      BY <1>1, <1>3 DEF AttAfterExpiry
    <2>. QED
      BY <1>1, <1>2, <1>3, <2>1, ExpiredAccount DEF r, n
  <1>4. CASE ~(r \in Lost /\ n = made[r])
    <2>1. AttAfterExpiry[r][n] = att[r][n]
      BY <1>1, <1>4 DEF AttAfterExpiry
    <2>2. SameAccount(att[r][n], att[r][n])
      BY DEF SameAccount
    <2>. QED
      BY <1>2, <1>4, <2>1, <2>2 DEF r, n
  <1>. QED
    BY <1>3, <1>4

\* An expiry, together with the reservations G that are accepted in the same claim.
LEMMA ExpiryBalances ==
  ASSUME TypeOK, TypeOK', AccountInv, UnsettledInv, AcceptedInv,
         NEW G \in SUBSET Cells, G \cap HeldCells = {},
         \A a \in Cells :
            LET old == AttAfterExpiry[a[1]][a[2]]
                new == att'[a[1]][a[2]]
            IN  /\ new.charged = old.charged /\ new.reconciliation = old.reconciliation
                /\ a \in G => new.reservation = "ACCEPTED" /\ new.reconciliation = "NONE"
                /\ a \notin G => (new.reservation = "ACCEPTED" <=> old.reservation = "ACCEPTED"),
         reserved' = (reserved - ExpiryCharge) + Maximum * Cardinality(G),
         consumed' = consumed + ExpiryCharge
  PROVE  AccountInv' /\ UnsettledInv'
  <1>1. Maximum \in Nat /\ \A a \in Cells : a[1] \in Runs /\ a[2] \in AttemptNumber
    BY ParameterAssumption DEF Cells
  <1>2. \A a \in Cells : Charges'[a] = IF a \in ExpiredCells THEN Charges[a] + Maximum ELSE Charges[a]
    <2>1. SUFFICES ASSUME NEW a \in Cells
          PROVE  att'[a[1]][a[2]].charged = IF a \in ExpiredCells
                   THEN att[a[1]][a[2]].charged + Maximum ELSE att[a[1]][a[2]].charged
      BY DEF Charges
    <2>2. att'[a[1]][a[2]].charged = AttAfterExpiry[a[1]][a[2]].charged
      OBVIOUS
    <2>3. CASE a \in ExpiredCells
      <3>1. /\ att[a[1]][a[2]].reconciliation = "NONE"
            /\ AttAfterExpiry[a[1]][a[2]].charged = Maximum
        BY <2>3, AccountsAfterExpiry
      <3>2. att[a[1]][a[2]].charged = 0
        BY <1>1, <3>1 DEF UnsettledInv
      <3>. QED
        BY <1>1, <2>2, <2>3, <3>1, <3>2
    <2>4. CASE a \notin ExpiredCells
      BY <2>2, <2>4, AccountsAfterExpiry DEF SameAccount
    <2>. QED
      BY <2>3, <2>4
  <1>3. HeldCells' = (HeldCells \ ExpiredCells) \cup G
    <2>1. SUFFICES ASSUME NEW a \in Cells
          PROVE  a \in HeldCells' <=> (a \in HeldCells /\ a \notin ExpiredCells) \/ a \in G
      <3>1. HeldCells' \subseteq Cells /\ HeldCells \subseteq Cells
        BY DEF HeldCells
      <3>. QED
        BY <3>1
    <2>2. CASE a \in G
      BY <2>2 DEF HeldCells, Held
    <2>3. CASE a \notin G /\ a \in ExpiredCells
      BY <2>3, AccountsAfterExpiry DEF HeldCells, Held
    <2>4. CASE a \notin G /\ a \notin ExpiredCells
      BY <2>4, AccountsAfterExpiry DEF HeldCells, Held, SameAccount
    <2>. QED
      BY <2>2, <2>3, <2>4
  <1>4. AccountStep(ExpiredCells, G, Maximum)
    BY <1>1, <1>2, <1>3, ExpiredAreHeld DEF AccountStep
  <1>5. AccountInv'
    BY <1>4, AccountStepKeepsTotals
  <1>6. UnsettledInv'
    <2>1. SUFFICES ASSUME NEW s \in Runs, NEW n \in AttemptNumber,
                          att'[s][n].reconciliation = "NONE"
                   PROVE  att'[s][n].charged = 0
      BY DEF UnsettledInv
    <2>2. PICK a \in Cells : a[1] = s /\ a[2] = n
      <3>1. <<s, n>> \in Cells /\ <<s, n>>[1] = s /\ <<s, n>>[2] = n
        BY DEF Cells
      <3>. QED
        BY <3>1
    <2>3. /\ AttAfterExpiry[s][n].reconciliation = "NONE"
          /\ att'[s][n].charged = AttAfterExpiry[s][n].charged
      BY <2>1, <2>2
    <2>4. SameAccount(att[s][n], AttAfterExpiry[s][n])
      BY <2>2, <2>3, AccountsAfterExpiry
    <2>. QED
      BY <2>3, <2>4 DEF SameAccount, UnsettledInv
  <1>. QED
    BY <1>5, <1>6

\* A claim settles what was lost and opens at most one reservation.
LEMMA ClaimBalances ==
  ASSUME TypeOK, TypeOK', SlotInv, AccountInv, UnsettledInv, AcceptedInv,
         NEW w \in Workers, ClaimAuthoritativeRun(w)
  PROVE  AccountInv' /\ UnsettledInv'
  <1>1. /\ AttAfterExpiry \in [Runs -> [AttemptNumber -> AttemptRow]]
        /\ reserved \in Nat /\ ExpiryCharge \in Nat /\ Maximum \in Nat
        /\ Cardinality({}) = 0 /\ Maximum * 0 = 0
    BY AfterExpiryType, ExpiryChargeType, ParameterAssumption, FS_EmptySet DEF TypeOK
  <1>2. consumed' = consumed + ExpiryCharge
    BY DEF ClaimAuthoritativeRun
  <1>3. \A a \in Cells : a[1] \in Runs /\ a[2] \in AttemptNumber
    BY DEF Cells
  <1>4. CASE att' = AttAfterExpiry /\ reserved' = reserved - ExpiryCharge
    <2>1. reserved' = (reserved - ExpiryCharge) + Maximum * Cardinality({})
      BY <1>1, <1>4
    <2>2. {} \in SUBSET Cells /\ {} \cap HeldCells = {}
      OBVIOUS
    <2>. QED
      BY <1>2, <1>4, <2>1, <2>2, ExpiryBalances
  <1>5. ASSUME NEW r \in Claimable, NEW b,
               b.charged = att[r][made[r]].charged,
               b.reconciliation = att[r][made[r]].reconciliation,
               b.reservation \in {"ACCEPTED", "DENIED"},
               att' = [AttAfterExpiry EXCEPT ![r][made[r]] = b],
               reserved' = IF b.reservation = "ACCEPTED"
                           THEN (reserved - ExpiryCharge) + Maximum
                           ELSE reserved - ExpiryCharge
        PROVE  AccountInv' /\ UnsettledInv'
    <2> DEFINE c == <<r, made[r]>>
               G == IF b.reservation = "ACCEPTED" THEN {c} ELSE {}
    <2>1. /\ r \in Runs /\ made[r] \in AttemptNumber /\ AttAfterExpiry[r] = att[r]
          /\ run[r].status = "QUEUED"
      BY ClaimableNotLost, AfterExpiryType, SlotTypes DEF Claimable
    <2>2. att[r][made[r]].reservation = "NONE" /\ att[r][made[r]].reconciliation = "NONE"
      BY <2>1 DEF SlotInv, SlotOK, RowOK
    <2>3. c \in Cells /\ c \notin HeldCells
      BY <2>1, <2>2 DEF Cells, HeldCells, Held
    <2>4. \A a \in Cells : att'[a[1]][a[2]] = IF a = c THEN b ELSE AttAfterExpiry[a[1]][a[2]]
      BY <1>1, <1>3, <1>5, <2>1 DEF Cells
    <2>5. c[1] = r /\ c[2] = made[r]
      OBVIOUS
    <2>6. G \in SUBSET Cells /\ G \cap HeldCells = {}
      BY <2>3
    <2>7. reserved' = (reserved - ExpiryCharge) + Maximum * Cardinality(G)
      <3>1. Cardinality({c}) = 1
        BY FS_Singleton
      <3>2. Maximum * 1 = Maximum
        BY <1>1
      <3>3. G = {c} => Maximum * Cardinality(G) = Maximum
        BY <3>1, <3>2
      <3>4. G = {} => Maximum * Cardinality(G) = 0
        BY <1>1
      <3>. QED
        BY <1>1, <1>5, <3>3, <3>4
    <2>8. ASSUME NEW a \in Cells
          PROVE  LET old == AttAfterExpiry[a[1]][a[2]]
                     new == att'[a[1]][a[2]]
                 IN  /\ new.charged = old.charged /\ new.reconciliation = old.reconciliation
                     /\ a \in G => new.reservation = "ACCEPTED" /\ new.reconciliation = "NONE"
                     /\ a \notin G => (new.reservation = "ACCEPTED" <=> old.reservation = "ACCEPTED")
      <3>1. CASE a # c
        BY <2>4, <3>1
      <3>2. CASE a = c
        <4>1. att'[a[1]][a[2]] = b /\ AttAfterExpiry[a[1]][a[2]] = att[r][made[r]]
          BY <2>1, <2>4, <2>5, <3>2
        <4>2. a \in G <=> b.reservation = "ACCEPTED"
          BY <3>2
        <4>. HIDE DEF G, c
        <4>. QED
          BY <1>5, <2>2, <4>1, <4>2
      <3>. QED
        BY <3>1, <3>2
    <2>. HIDE DEF G, c
    <2>. QED
      BY <1>2, <2>6, <2>7, <2>8, ExpiryBalances
  <1>6. ASSUME NEW r \in Claimable,
               att' = [AttAfterExpiry EXCEPT ![r][made[r]] =
                         [@ EXCEPT !.reservation = "ACCEPTED"]],
               reserved' = (reserved - ExpiryCharge) + Maximum
        PROVE  AccountInv' /\ UnsettledInv'
    <2>1. r \in Runs /\ AttAfterExpiry[r] = att[r] /\ att[r][made[r]] \in AttemptRow
      BY ClaimableNotLost, AfterExpiryType, SlotTypes
    <2>2. PICK b : b = [att[r][made[r]] EXCEPT !.reservation = "ACCEPTED"]
      OBVIOUS
    <2>3. /\ b.reservation = "ACCEPTED" /\ b.charged = att[r][made[r]].charged
          /\ b.reconciliation = att[r][made[r]].reconciliation
      BY <2>1, <2>2 DEF AttemptRow
    <2>4. att' = [AttAfterExpiry EXCEPT ![r][made[r]] = b]
      BY <1>1, <1>6, <2>1, <2>2
    <2>. QED
      BY <1>5, <1>6, <2>3, <2>4
  <1>7. ASSUME NEW r \in Claimable,
               att' = [AttAfterExpiry EXCEPT ![r][made[r]] =
                         [AppendEvent(@, "BUDGET_EXHAUSTED") EXCEPT !.reservation = "DENIED"]],
               reserved' = reserved - ExpiryCharge
        PROVE  AccountInv' /\ UnsettledInv'
    <2>1. r \in Runs /\ AttAfterExpiry[r] = att[r] /\ att[r][made[r]] \in AttemptRow
      BY ClaimableNotLost, AfterExpiryType, SlotTypes
    <2>2. PICK d : d = AppendEvent(att[r][made[r]], "BUDGET_EXHAUSTED")
      OBVIOUS
    <2>3. d \in AttemptRow /\ SameAccount(att[r][made[r]], d)
      BY <2>1, <2>2, AppendEventType, StatesInType, AppendKeepsAccount
    <2>4. PICK b : b = [d EXCEPT !.reservation = "DENIED"]
      OBVIOUS
    <2>5. /\ b.reservation = "DENIED" /\ b.charged = att[r][made[r]].charged
          /\ b.reconciliation = att[r][made[r]].reconciliation
      BY <2>3, <2>4 DEF AttemptRow, SameAccount
    <2>6. att' = [AttAfterExpiry EXCEPT ![r][made[r]] = b]
      BY <1>1, <1>7, <2>1, <2>2, <2>4
    <2>. QED
      BY <1>5, <1>7, <2>5, <2>6
  <1>. QED
    BY <1>4, <1>6, <1>7 DEF ClaimAuthoritativeRun

\* An executing run keeps the reservation it was claimed with.
LEMMA StepKeepsAccepted ==
  ASSUME TypeOK, TypeOK', AcceptedInv, \A s \in Runs : SlotStep(s)
  PROVE  AcceptedInv'
  <1>1. SUFFICES ASSUME NEW s \in Runs, run'[s].status \in ACTIVE_STATUSES
                 PROVE  att'[s][made'[s]].reservation = "ACCEPTED"
    BY DEF AcceptedInv
  <1>2. run[s].status \in ACTIVE_STATUSES => att[s][made[s]].reservation = "ACCEPTED"
    BY DEF AcceptedInv
  <1>3. run[s].status \in RunStatus
    BY SlotTypes
  <1>4. ~Retried(s)
    BY <1>1 DEF Retried, ACTIVE_STATUSES
  <1>5. made'[s] = made[s]
    BY <1>4 DEF SlotStep, Moved, EarlierKept
  <1>6. CASE Advancing(s)
    <2>1. run[s].status \in ACTIVE_STATUSES
      BY <1>3, <1>6
         DEF Advancing, Advances, TRANSITIONS, RunStatus, ACTIVE_STATUSES, TERMINAL_STATUSES
    <2>. QED
      BY <1>2, <1>5, <1>6, <2>1 DEF Advancing, Advances
  <1>7. CASE Keeps(run[s], run'[s], att[s][made[s]], att'[s][made[s]])
    BY <1>1, <1>2, <1>5, <1>7 DEF Keeps
  <1>8. CASE Ends(run[s], run'[s], att[s][made[s]], att'[s][made[s]])
    BY <1>1, <1>8 DEF Ends, ACTIVE_STATUSES, TERMINAL_STATUSES
  <1>9. CASE Claiming(s)
    BY <1>5, <1>9 DEF Claiming, Claims
  <1>10. CASE Settles(run[s], run'[s], att[s][made[s]], att'[s][made[s]])
    BY <1>1, <1>2, <1>5, <1>10 DEF Settles
  <1>. QED
    BY <1>4, <1>6, <1>7, <1>8, <1>9, <1>10 DEF SlotStep, Moved

LedgerInv == CoreInv /\ AcceptedInv /\ UnsettledInv /\ AccountInv

\* The strengthened ledger invariant is inductive.
LEMMA NextKeepsLedger == LedgerInv /\ [Next]_vars => LedgerInv'
  <1>. SUFFICES ASSUME LedgerInv, [Next]_vars PROVE LedgerInv'
    OBVIOUS
  <1>1. CoreInv' /\ TypeOK /\ TypeOK' /\ SlotInv
    BY NextKeepsCore DEF LedgerInv, CoreInv
  <1>2. AcceptedInv'
    BY <1>1, StepKeepsWorkers, StepKeepsAccepted DEF LedgerInv, CoreInv
  <1>3. AccountInv' /\ UnsettledInv'
    <2>1. ASSUME NEW w \in Workers, ClaimAuthoritativeRun(w)
          PROVE  AccountInv' /\ UnsettledInv'
      BY <1>1, <2>1, ClaimBalances DEF LedgerInv
    <2>2. ASSUME NEW w \in Workers, Execute(w) \/ Heartbeat(w) \/ Crash(w)
          PROVE  AccountInv' /\ UnsettledInv'
      <3>1. CASE ReconcileTerminal(w)
        BY <1>1, <3>1, ReconcileBalances DEF LedgerInv
      <3>2. CASE ~ReconcileTerminal(w)
        BY <1>1, <2>2, <3>2, DrivingKeepsAccounts, LedgerUntouched, KeptAccountsBalance
           DEF LedgerInv, Execute
      <3>. QED
        BY <3>1, <3>2
    <2>3. CASE Tick \/ Operator
      BY <1>1, <2>3, OperatorKeepsAccounts, LedgerUntouchedByOperator, KeptAccountsBalance
         DEF LedgerInv
    <2>4. CASE UNCHANGED vars
      BY <1>1, <2>4, SameAttemptsKeepAccounts, KeptAccountsBalance DEF LedgerInv, vars
    <2>. QED
      BY <2>1, <2>2, <2>3, <2>4 DEF Next
  <1>. QED
    BY <1>1, <1>2, <1>3 DEF LedgerInv

\* It holds initially: nothing is reserved and nothing consumed.
LEMMA InitLedger == Init => LedgerInv
  <1>. SUFFICES ASSUME Init PROVE LedgerInv
    OBVIOUS
  <1>1. CoreInv /\ TypeOK
    BY InitCore DEF CoreInv
  <1>2. \A r \in Runs : run[r].status = "QUEUED"
    BY DEF Init
  <1>3. AcceptedInv
    BY <1>2 DEF AcceptedInv, ACTIVE_STATUSES
  <1>4. \A r \in Runs : \A n \in AttemptNumber : att[r][n] = NewAttempt
    BY DEF Init
  <1>5. UnsettledInv
    BY <1>4 DEF UnsettledInv, NewAttempt
  <1>6. HeldCells = {}
    BY <1>4 DEF HeldCells, Held, Cells, NewAttempt
  <1>7. \A a \in Cells : Charges[a] = 0
    BY <1>4 DEF Charges, Cells, NewAttempt
  <1>8. Total(Charges, Cells) = 0
    <2>1. \A a \in Cells : Charges[a] \in Nat
      BY <1>7
    <2>2. Total(Charges, Cells) = Total(Charges, {})
      BY <1>7, <2>1, CellsAreFinite, TotalWithoutZeros
    <2>3. Total(Charges, {}) = 0
      BY FS_EmptySet, TotalFacts
    <2>. QED
      BY <2>2, <2>3
  <1>9. Cardinality({}) = 0 /\ Maximum * 0 = 0 /\ reserved = 0 /\ consumed = 0
    BY FS_EmptySet, ParameterAssumption DEF Init
  <1>10. AccountInv
    BY <1>6, <1>8, <1>9 DEF AccountInv
  <1>. QED
    BY <1>1, <1>3, <1>5, <1>10 DEF LedgerInv

\* The fold over the attempts that LedgerBalances writes is the sum of the charges.
LEMMA FoldIsTotal ==
  ASSUME TypeOK
  PROVE  MapThenSumSet(LAMBDA a : att[a[1]][a[2]].charged, Attempts) = Total(Charges, Attempts)
  <1> DEFINE iter == CHOOSE iter :
               iter = [s \in SUBSET Attempts |->
                         IF s = {} THEN 0
                         ELSE att[Picked(s)[1]][Picked(s)[2]].charged + iter[s \ {Picked(s)}]]
  <1>1. MapThenSumSet(LAMBDA a : att[a[1]][a[2]].charged, Attempts) = iter[Attempts]
    BY DEF MapThenSumSet, MapThenFoldSet, Picked
  <1>2. Attempts \subseteq Cells /\ IsFiniteSet(Attempts)
    <2>1. Attempts \subseteq Cells
      BY DEF Attempts, Cells
    <2>. QED
      BY <2>1, CellsAreFinite
  <1>3. \A a \in Attempts : Charges[a] \in Nat /\ Charges[a] = att[a[1]][a[2]].charged
    BY <1>2, CellFacts
  <1>4. PICK g \in [SUBSET Attempts -> Nat] :
          IsSum(Charges, Attempts, g) /\ Total(Charges, Attempts) = g[Attempts]
    BY <1>2, <1>3, TotalIsSum
  <1>5. \A s \in SUBSET Attempts : s # {} =>
          Charges[Picked(s)] = att[Picked(s)[1]][Picked(s)[2]].charged
    BY <1>3 DEF Picked
  <1>6. g = [s \in SUBSET Attempts |->
               IF s = {} THEN 0
               ELSE att[Picked(s)[1]][Picked(s)[2]].charged + g[s \ {Picked(s)}]]
    BY <1>4, <1>5 DEF IsSum, Unfolded
  <1>7. iter = [s \in SUBSET Attempts |->
                  IF s = {} THEN 0
                  ELSE att[Picked(s)[1]][Picked(s)[2]].charged + iter[s \ {Picked(s)}]]
    BY <1>6
  <1> HIDE DEF iter
  <1>8. IsSum(Charges, Attempts, iter)
    BY <1>5, <1>7 DEF IsSum, Unfolded
  <1>9. iter[Attempts] = g[Attempts]
    BY <1>2, <1>4, <1>8, SumsAgree
  <1>. QED
    BY <1>1, <1>4, <1>9

\* Whatever claims, expiries, retries, reconciliations and cancellations of several
\* executors do, the totals of the durable ledger are exactly what the attempt rows
\* account for: every accepted reservation is held once until it is settled, and every
\* settled attempt is charged once.
THEOREM LedgerAlwaysBalances == Spec => []LedgerBalances
  <1>1. LedgerInv => LedgerBalances
    <2>. SUFFICES ASSUME LedgerInv PROVE LedgerBalances
      OBVIOUS
    <2>1. TypeOK /\ SlotInv /\ AccountInv
      BY DEF LedgerInv, CoreInv
    <2>2. ASSUME NEW a \in Cells \ Attempts
          PROVE  att[a[1]][a[2]] = NewAttempt
      <3>1. /\ a[1] \in Runs /\ a[2] \in AttemptNumber /\ ~(a[2] <= made[a[1]])
            /\ made[a[1]] \in AttemptNumber
        BY <2>1, <2>2, SlotTypes DEF Cells, Attempts
      <3>2. a[2] > made[a[1]]
        BY <3>1 DEF AttemptNumber
      <3>. QED
        BY <2>1, <3>1, <3>2 DEF SlotInv, SlotOK, HistoryOK
    <2>3. Attempts \subseteq Cells
      BY DEF Attempts, Cells
    <2>4. {a \in Attempts : Held(a[1], a[2])} = HeldCells
      BY <2>2, <2>3 DEF HeldCells, Held, NewAttempt
    <2>5. Total(Charges, Cells) = Total(Charges, Attempts)
      <3>1. \A a \in Cells : Charges[a] \in Nat
        BY <2>1, CellFacts
      <3>2. \A a \in Cells \ Attempts : Charges[a] = 0
        BY <2>2 DEF Charges, NewAttempt
      <3>. QED
        BY <2>3, <3>1, <3>2, CellsAreFinite, TotalWithoutZeros
    <2>. QED
      BY <2>1, <2>4, <2>5, FoldIsTotal DEF AccountInv, LedgerBalances
  <1>. QED
    BY <1>1, InitLedger, NextKeepsLedger, PTL DEF Spec
=============================================================================
