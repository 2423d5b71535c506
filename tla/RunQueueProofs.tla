---------------------------- MODULE RunQueueProofs ----------------------------
(***************************************************************************)
(* Theorems about RunQueue for every set of runs and workers, every owner  *)
(* identity of the workers, both schema versions and every bound.          *)
(***************************************************************************)
EXTENDS RunQueue, TLAPS

-----------------------------------------------------------------------------
(* The inductive invariant. *)

\* Only an active row has an owner, only an ended one has evidence, and in
\* schema version 2 no queued one waits with a cancellation.
RowOK(row) ==
  /\ row.status \notin ACTIVE_STATUSES => row.lease_owner = NoOwner
  /\ row.status \notin TERMINAL_STATUSES => row.evidence = 0
  /\ SchemaVersion = 2 /\ row.status = "QUEUED" => ~row.cancellation_requested

\* No execution has claimed an attempt that its run has not reached.
Behind ==
  \A w \in Workers :
     worker[w] \notin AtRest => worker[w].attempt <= run[worker[w].run].attempt

Inv ==
  /\ TypeOK
  /\ \A r \in Runs : RowOK(run[r])
  /\ Behind /\ AttemptsDistinct /\ OneDriver

\* Row b follows row a in the AttemptLog.
Logged(a, b) == SlotOf(b) = SlotOf(a) \/ Log!SlotStep(SlotOf(a), SlotOf(b))

\* Row b follows row a within one attempt: it keeps its place, or it is no
\* longer active.
Moves(a, b) ==
  /\ b \in RunRow /\ RowOK(b) /\ Logged(a, b)
  /\ b.attempt = a.attempt
  /\ \/ b.status = a.status /\ b.lease_owner = a.lease_owner
     \/ b.status \notin ACTIVE_STATUSES

-----------------------------------------------------------------------------
(* The status sets and what the AttemptLog sees of a row. *)

LEMMA StatusSets ==
  /\ "QUEUED" \notin ACTIVE_STATUSES /\ "QUEUED" \notin TERMINAL_STATUSES
  /\ "CLAIMED" \in ACTIVE_STATUSES /\ "SCORING" \in ACTIVE_STATUSES
  /\ "CANCELLED" \in TERMINAL_STATUSES /\ "FAILED_INFRA" \in TERMINAL_STATUSES
  /\ \A s \in ACTIVE_STATUSES : s \notin TERMINAL_STATUSES /\ s \in RunStatus
  /\ \A s \in TERMINAL_STATUSES : s \notin ACTIVE_STATUSES /\ s # "QUEUED" /\ s \in RunStatus
  /\ "QUEUED" \in RunStatus
  /\ \A s \in RunStatus : s = "QUEUED" \/ s \in ACTIVE_STATUSES \/ s \in TERMINAL_STATUSES
  BY DEF ACTIVE_STATUSES, TERMINAL_STATUSES, RunStatus

\* A worker moves an active run to an active status, the one of its next step.
LEMMA Targets ==
  ASSUME NEW status \in RunStatus, NEW target \in TRANSITIONS[status]
  PROVE  /\ status \in ACTIVE_STATUSES /\ target \in ACTIVE_STATUSES
         /\ status = "CLAIMED" => target = "PREPARING"
         /\ status = "PREPARING" => target = "RUNNING"
         /\ status = "RUNNING" => target = "VERIFYING"
         /\ status = "VERIFYING" => target = "SCORING"
  BY DEF TRANSITIONS, RunStatus, ACTIVE_STATUSES, TERMINAL_STATUSES

\* Every outcome ends a run.
LEMMA OutcomesEnd ==
  ASSUME NEW outcome \in StatisticalOutcome
  PROVE  TERMINAL_STATUS_BY_OUTCOME[outcome] \in TERMINAL_STATUSES
  BY DEF TERMINAL_STATUS_BY_OUTCOME, StatisticalOutcome, TERMINAL_STATUSES

LEMMA SlotFields ==
  ASSUME NEW row \in RunRow
  PROVE  /\ SlotOf(row) \in [phase : Log!Phase, attempt : Nat, stop : BOOLEAN, evidence : Nat]
         /\ SlotOf(row) = [phase |-> SlotOf(row).phase, attempt |-> row.attempt,
                           stop |-> row.cancellation_requested, evidence |-> row.evidence]
         /\ SlotOf(row).attempt = row.attempt
         /\ SlotOf(row).stop = row.cancellation_requested
         /\ SlotOf(row).evidence = row.evidence
         /\ row.status = "QUEUED" => SlotOf(row).phase = "waiting"
         /\ row.status \in ACTIVE_STATUSES => SlotOf(row).phase = "held"
         /\ row.status \in TERMINAL_STATUSES => SlotOf(row).phase = "done"
  <1>1. row.attempt \in Nat /\ row.evidence \in Nat /\ row.cancellation_requested \in BOOLEAN
    BY QueueAssumption DEF RunRow
  <1>2. row.status \in RunStatus
    BY DEF RunRow
  <1> DEFINE phase == CASE row.status = "QUEUED" -> "waiting"
                        [] row.status \in ACTIVE_STATUSES -> "held"
                        [] OTHER -> "done"
  <1>3. /\ phase \in Log!Phase
        /\ row.status = "QUEUED" => phase = "waiting"
        /\ row.status \in ACTIVE_STATUSES => phase = "held"
        /\ row.status \in TERMINAL_STATUSES => phase = "done"
    BY <1>2, StatusSets DEF Log!Phase
  <1>4. SlotOf(row) = [phase |-> phase, attempt |-> row.attempt,
                       stop |-> row.cancellation_requested, evidence |-> row.evidence]
    BY DEF SlotOf
  <1>. HIDE DEF phase
  <1>. QED
    BY <1>1, <1>3, <1>4

\* Moving a slot to another phase.
LEMMA MovedSlot ==
  ASSUME NEW row \in RunRow, NEW phase
  PROVE  Log!Moved(SlotOf(row), phase)
           = [phase |-> phase, attempt |-> row.attempt,
              stop |-> row.cancellation_requested, evidence |-> row.evidence]
  <1>1. PICK p : SlotOf(row) = [phase |-> p, attempt |-> row.attempt,
                                stop |-> row.cancellation_requested, evidence |-> row.evidence]
    BY SlotFields
  <1>. QED
    BY <1>1 DEF Log!Moved

-----------------------------------------------------------------------------
(* The row updates. *)

LEMMA RowFields ==
  ASSUME NEW row \in RunRow
  PROVE  /\ row.status \in RunStatus /\ row.attempt \in 0 .. MaxAttempt
         /\ row.lease_owner \in LeaseOwner /\ row.lease \in 0 .. TTL
         /\ row.cancellation_requested \in BOOLEAN
         /\ row.normalized_outcome \in StatisticalOutcome \cup {"none"}
         /\ row.evidence \in 0 .. MaxAttempt
         /\ NoOwner \in LeaseOwner /\ 0 \in 0 .. TTL /\ 0 \in 0 .. MaxAttempt
         /\ TTL \in 0 .. TTL
  BY QueueAssumption DEF RunRow, LeaseOwner

\* Keeping a row is a move.
LEMMA KeepMoves ==
  ASSUME NEW row \in RunRow, RowOK(row)
  PROVE  Moves(row, row)
  BY DEF Moves, Logged

\* Renewing a lease or letting it run down is a move.
LEMMA LeaseMoves ==
  ASSUME NEW row \in RunRow, RowOK(row), NEW n \in 0 .. TTL
  PROVE  Moves(row, [row EXCEPT !.lease = n])
  <1> DEFINE b == [row EXCEPT !.lease = n]
  <1>1. /\ b \in RunRow
        /\ b.status = row.status /\ b.lease_owner = row.lease_owner
        /\ b.attempt = row.attempt /\ b.evidence = row.evidence
        /\ b.cancellation_requested = row.cancellation_requested
    BY DEF RunRow
  <1>. HIDE DEF b
  <1>2. SlotOf(b) = SlotOf(row)
    BY <1>1 DEF SlotOf
  <1>3. Moves(row, b)
    BY <1>1, <1>2 DEF Moves, Logged, RowOK
  <1>. QED
    BY <1>3 DEF b

\* Raising the cancellation flag of a run that does not wait is a move.
LEMMA AskMoves ==
  ASSUME NEW row \in RunRow, RowOK(row), row.status # "QUEUED"
  PROVE  Moves(row, [row EXCEPT !.cancellation_requested = TRUE])
  <1> DEFINE b == [row EXCEPT !.cancellation_requested = TRUE]
  <1>1. /\ b \in RunRow
        /\ b.status = row.status /\ b.lease_owner = row.lease_owner
        /\ b.attempt = row.attempt /\ b.evidence = row.evidence
        /\ b.cancellation_requested = TRUE
    BY DEF RunRow
  <1>. HIDE DEF b
  <1>2. SlotOf(b).phase = SlotOf(row).phase
    BY <1>1, SlotFields, RowFields, StatusSets
  <1>3. SlotOf(b) = [SlotOf(row) EXCEPT !.stop = TRUE]
    BY <1>1, <1>2, SlotFields
  <1>4. Moves(row, b)
    BY <1>1, <1>3 DEF Moves, Logged, RowOK, Log!SlotStep, Log!AskToStop
  <1>. QED
    BY <1>4 DEF b

\* Ending a run that has not ended as cancelled, with the flag already raised
\* or raised by the same transaction, is a move.
LEMMA CancelMoves ==
  ASSUME NEW row \in RunRow, RowOK(row), row.status \notin TERMINAL_STATUSES,
         NEW asked \in RunRow, asked.cancellation_requested,
         asked.attempt = row.attempt, asked.evidence = row.evidence
  PROVE  Moves(row, CancelledRun(asked))
  <1> DEFINE b == CancelledRun(asked)
  <1>1. "CANCELLED" \in RunStatus /\ "cancelled" \in StatisticalOutcome
    BY StatusSets DEF StatisticalOutcome
  <1>2. /\ b \in RunRow /\ b.status = "CANCELLED" /\ b.lease_owner = NoOwner
        /\ b.attempt = row.attempt /\ b.evidence = row.evidence
        /\ b.cancellation_requested = asked.cancellation_requested
    BY <1>1, RowFields DEF CancelledRun, LeaseCleared, RunRow
  <1>3. b.cancellation_requested = TRUE
    BY <1>2, RowFields
  <1>. HIDE DEF b
  <1>4. SlotOf(row).phase \in {"waiting", "held"}
    BY SlotFields, RowFields, StatusSets
  <1>5. SlotOf(b).phase = "done" /\ SlotOf(b).stop = TRUE
    BY <1>2, <1>3, SlotFields, StatusSets
  <1>6. SlotOf(b) = [Log!Moved(SlotOf(row), "done") EXCEPT !.stop = TRUE]
    <2>1. SlotOf(b) = [Log!Moved(SlotOf(row), "done") EXCEPT !.stop = b.cancellation_requested]
      BY <1>2, <1>5, SlotFields, MovedSlot
    <2>. QED
      BY <1>3, <2>1, Zenon
  <1>7. Log!Withdraw(SlotOf(row), SlotOf(b))
    BY <1>4, <1>6 DEF Log!Withdraw
  <1>8. Moves(row, b)
    BY <1>2, <1>7, StatusSets DEF Moves, Logged, RowOK, Log!SlotStep
  <1>. QED
    BY <1>8 DEF b

\* Giving an active run back is a move.
LEMMA ReleaseMoves ==
  ASSUME NEW row \in RunRow, RowOK(row), row.status \in ACTIVE_STATUSES
  PROVE  Moves(row, ReleasedRun(row))
  <1>1. CASE row.cancellation_requested
    <2>1. row.status \notin TERMINAL_STATUSES
      BY StatusSets
    <2>2. Moves(row, CancelledRun(row))
      BY <1>1, <2>1, CancelMoves
    <2>. QED
      BY <1>1, <2>2 DEF ReleasedRun
  <1>2. CASE ~row.cancellation_requested
    <2> DEFINE b == [LeaseCleared(row) EXCEPT !.status = "QUEUED"]
    <2>1. /\ b \in RunRow /\ b.status = "QUEUED" /\ b.lease_owner = NoOwner
          /\ b.attempt = row.attempt /\ b.evidence = row.evidence
          /\ b.cancellation_requested = row.cancellation_requested
      BY RowFields, StatusSets DEF LeaseCleared, RunRow
    <2>2. ReleasedRun(row) = b
      BY <1>2 DEF ReleasedRun
    <2>. HIDE DEF b
    <2>3. SlotOf(b) = Log!Moved(SlotOf(row), "waiting")
      BY <2>1, SlotFields, MovedSlot
    <2>4. Log!GiveBack(SlotOf(row), SlotOf(b))
      BY <1>2, <2>3, SlotFields DEF Log!GiveBack
    <2>5. RowOK(b)
      BY <1>2, <2>1, StatusSets DEF RowOK
    <2>. QED
      BY <2>1, <2>2, <2>4, <2>5, StatusSets DEF Moves, Logged, Log!SlotStep
  <1>. QED
    BY <1>1, <1>2

\* Queueing a repaired failure is a move.
LEMMA RequeueMoves ==
  ASSUME NEW row \in RunRow, RowOK(row), row.status = "FAILED_INFRA",
         row.attempt >= 1, row.evidence = 0, SchemaVersion = 1
  PROVE  Moves(row, RequeuedRun(row))
  <1> DEFINE b == RequeuedRun(row)
  <1>1. /\ b \in RunRow /\ b.status = "QUEUED" /\ b.lease_owner = NoOwner
        /\ b.attempt = row.attempt /\ b.evidence = row.evidence
        /\ b.cancellation_requested = row.cancellation_requested
    BY RowFields, StatusSets DEF RequeuedRun, LeaseCleared, RunRow
  <1>. HIDE DEF b
  <1>2. SlotOf(b) = Log!Moved(SlotOf(row), "waiting")
    BY <1>1, SlotFields, MovedSlot
  <1>3. row.attempt > 0
    BY RowFields, QueueAssumption
  <1>4. Log!Reopen(SlotOf(row), SlotOf(b))
    BY <1>2, <1>3, SlotFields, StatusSets DEF Log!Reopen
  <1>5. Moves(row, b)
    BY <1>1, <1>4, StatusSets DEF Moves, Logged, RowOK, Log!SlotStep
  <1>. QED
    BY <1>5 DEF b

\* Ending a scored run is a move: without evidence if it was cancelled, else
\* with the evidence of its own attempt or none.
LEMMA FinishMoves ==
  ASSUME NEW row \in RunRow, RowOK(row), row.status = "SCORING",
         NEW outcome \in StatisticalOutcome, NEW evidence \in {0, row.attempt},
         row.cancellation_requested => evidence = 0
  PROVE  Moves(row, FinishedRun(row, outcome, evidence))
  <1> DEFINE b == FinishedRun(row, outcome, evidence)
  <1>1. evidence \in 0 .. MaxAttempt
    BY RowFields
  <1>2. /\ TERMINAL_STATUS_BY_OUTCOME[outcome] \in TERMINAL_STATUSES
        /\ TERMINAL_STATUS_BY_OUTCOME[outcome] \in RunStatus
    BY OutcomesEnd, StatusSets
  <1>3. /\ b \in RunRow /\ b.status \in TERMINAL_STATUSES /\ b.lease_owner = NoOwner
        /\ b.attempt = row.attempt /\ b.evidence = evidence
        /\ b.cancellation_requested = row.cancellation_requested
    BY <1>1, <1>2, RowFields DEF FinishedRun, LeaseCleared, RunRow
  <1>. HIDE DEF b
  <1>4. SlotOf(row).phase = "held" /\ SlotOf(b).phase = "done" /\ row.evidence = 0
    BY <1>3, SlotFields, StatusSets DEF RowOK
  <1>5. CASE row.cancellation_requested
    <2>1. row.cancellation_requested = TRUE /\ evidence = 0
      BY <1>5, RowFields
    <2>2. SlotOf(b) = [Log!Moved(SlotOf(row), "done") EXCEPT !.stop = TRUE]
      <3>1. SlotOf(b) = [Log!Moved(SlotOf(row), "done") EXCEPT !.stop = b.cancellation_requested]
        BY <1>3, <1>4, <2>1, SlotFields, MovedSlot
      <3>2. b.cancellation_requested = TRUE
        BY <1>3, <2>1
      <3>. QED
        BY <3>1, <3>2, Zenon
    <2>3. Log!Withdraw(SlotOf(row), SlotOf(b))
      BY <1>4, <2>2 DEF Log!Withdraw
    <2>. QED
      BY <1>3, <2>3, StatusSets DEF Moves, Logged, RowOK, Log!SlotStep, b
  <1>6. CASE ~row.cancellation_requested
    <2>1. SlotOf(b) = [Log!Moved(SlotOf(row), "done") EXCEPT !.evidence = evidence]
      <3>1. SlotOf(b) = [phase |-> "done", attempt |-> row.attempt,
                         stop |-> row.cancellation_requested, evidence |-> evidence]
        BY <1>3, <1>4, SlotFields
      <3>. QED
        BY <3>1, SlotFields, MovedSlot
    <2>2. evidence \in {0, SlotOf(row).attempt} /\ ~SlotOf(row).stop
      BY <1>6, SlotFields
    <2>3. Log!Finish(SlotOf(row), SlotOf(b))
      BY <1>4, <2>1, <2>2 DEF Log!Finish
    <2>. QED
      BY <1>3, <2>3, StatusSets DEF Moves, Logged, RowOK, Log!SlotStep, b
  <1>. QED
    BY <1>5, <1>6

\* A claim begins the next attempt.
LEMMA ClaimLogged ==
  ASSUME NEW row \in RunRow, RowOK(row), row.status \notin TERMINAL_STATUSES,
         ~row.cancellation_requested, row.attempt < MaxAttempt, NEW w \in Workers
  PROVE  LET b == ClaimedRun(row, Owner[w]) IN
         /\ b \in RunRow /\ RowOK(b) /\ Logged(row, b)
         /\ b.attempt = row.attempt + 1 /\ b.attempt \in AttemptNumber
         /\ b.status = "CLAIMED"
  <1> DEFINE b == ClaimedRun(row, Owner[w])
  <1>1. row.attempt + 1 \in AttemptNumber /\ row.attempt + 1 \in 0 .. MaxAttempt
    BY RowFields, QueueAssumption DEF AttemptNumber
  <1>2. Owner[w] \in LeaseOwner /\ "CLAIMED" \in RunStatus
    BY StatusSets DEF LeaseOwner
  <1>3. /\ b \in RunRow /\ b.status = "CLAIMED"
        /\ b.attempt = row.attempt + 1 /\ b.evidence = row.evidence
        /\ b.cancellation_requested = row.cancellation_requested
    BY <1>1, <1>2, RowFields DEF ClaimedRun, RunRow
  <1>. HIDE DEF b
  <1>4. SlotOf(row).phase \in {"waiting", "held"} /\ ~SlotOf(row).stop
    BY SlotFields, RowFields, StatusSets
  <1>5. SlotOf(b).phase = "held"
    BY <1>3, SlotFields, StatusSets
  <1>6. SlotOf(b) = [Log!Moved(SlotOf(row), "held") EXCEPT !.attempt = SlotOf(row).attempt + 1]
    <2>1. SlotOf(b) = [phase |-> "held", attempt |-> row.attempt + 1,
                       stop |-> row.cancellation_requested, evidence |-> row.evidence]
      BY <1>3, <1>5, SlotFields
    <2>. QED
      BY <2>1, SlotFields, MovedSlot
  <1>7. Log!Take(SlotOf(row), SlotOf(b))
    BY <1>4, <1>6 DEF Log!Take
  <1>8. RowOK(b) /\ Logged(row, b)
    BY <1>3, <1>7, StatusSets DEF RowOK, Logged, Log!SlotStep
  <1>. QED
    BY <1>1, <1>3, <1>8 DEF b

\* An active run that goes on keeps its attempt and its owner.
LEMMA AdvanceLogged ==
  ASSUME NEW row \in RunRow, RowOK(row), NEW target \in TRANSITIONS[row.status]
  PROVE  LET b == [row EXCEPT !.status = target] IN
         /\ b \in RunRow /\ RowOK(b) /\ Logged(row, b)
         /\ b.attempt = row.attempt /\ b.status = target
  <1> DEFINE b == [row EXCEPT !.status = target]
  <1>1. row.status \in ACTIVE_STATUSES /\ target \in ACTIVE_STATUSES /\ target \in RunStatus
    BY Targets, RowFields, StatusSets
  <1>2. /\ b \in RunRow /\ b.status = target
        /\ b.attempt = row.attempt /\ b.evidence = row.evidence
        /\ b.cancellation_requested = row.cancellation_requested
    BY <1>1, RowFields DEF RunRow
  <1>. HIDE DEF b
  <1>3. SlotOf(b).phase = SlotOf(row).phase
    BY <1>1, <1>2, SlotFields
  <1>4. SlotOf(b) = SlotOf(row)
    BY <1>2, <1>3, SlotFields
  <1>5. RowOK(b) /\ Logged(row, b)
    BY <1>1, <1>2, <1>4, StatusSets DEF RowOK, Logged
  <1>. QED
    BY <1>2, <1>5 DEF b

-----------------------------------------------------------------------------
(* The executions. *)

\* Execution b follows execution a: it has ended, or it goes on with the same
\* attempt at a step that leaves the run where it is.
Follows(a, b) ==
  \/ b \in AtRest
  \/ b = a
  \/ /\ a \in Busy /\ b \in Busy
     /\ b.run = a.run /\ b.attempt = a.attempt
     /\ StatusOfStep[b.pc] = StatusOfStep[a.pc]

\* An execution is under way exactly if it stands at a step.
LEMMA BusyOrAtRest ==
  /\ \A x \in Busy : x \notin AtRest /\ x.pc \in Step /\ x.run \in Runs
                     /\ x.attempt \in AttemptNumber /\ x.attempt \in Nat
  /\ \A x \in AtRest : x.pc \notin Step
  /\ [pc |-> "idle"] \in AtRest /\ [pc |-> "returned"] \in AtRest
  /\ [pc |-> "raised"] \in AtRest
  <1>1. \A x \in Busy : x.pc \in Step /\ x.run \in Runs
                     /\ x.attempt \in AttemptNumber /\ x.attempt \in Nat
    BY QueueAssumption DEF Busy, AttemptNumber
  <1>2. \A x \in AtRest : x.pc \notin Step
    BY DEF AtRest, Step
  <1>. QED
    BY <1>1, <1>2 DEF AtRest

LEMMA StatusOfSteps ==
  /\ StatusOfStep["claimed"] = "CLAIMED" /\ StatusOfStep["prepared"] = "PREPARING"
  /\ StatusOfStep["running"] = "RUNNING" /\ StatusOfStep["dispatched"] = "RUNNING"
  /\ StatusOfStep["verified"] = "VERIFYING" /\ StatusOfStep["scored"] = "SCORING"
  BY DEF StatusOfStep, Step

\* An active owner stands at an active row.
LEMMA OwnerIsActive ==
  ASSUME Inv, NEW w \in Workers, worker[w] \in Busy, ActiveOwner(w)
  PROVE  /\ run[worker[w].run].status \in ACTIVE_STATUSES
         /\ run[worker[w].run].attempt = worker[w].attempt
  <1>1. PICK r \in Runs : r = worker[w].run
    BY BusyOrAtRest
  <1>2. run[r].lease_owner = Owner[w] /\ Owner[w] # NoOwner
    BY <1>1, QueueAssumption DEF ActiveOwner
  <1>3. RowOK(run[r])
    BY DEF Inv
  <1>. QED
    BY <1>1, <1>2, <1>3 DEF RowOK, ActiveOwner

-----------------------------------------------------------------------------
(* The kinds of steps.  Each keeps the invariant and is a step of the       *)
(* AttemptLog.                                                              *)

LEMMA LogStep ==
  ASSUME run \in [Runs -> RunRow], run' \in [Runs -> RunRow],
         \A r \in Runs : Logged(run[r], run'[r])
  PROVE  Log!Next
  <1>1. \A r \in Runs :
          SlotOf(run'[r]) \in [phase : Log!Phase, attempt : Nat, stop : BOOLEAN, evidence : Nat]
    BY SlotFields
  <1>2. [r \in Runs |-> SlotOf(run'[r])]
           \in [Runs -> [phase : Log!Phase, attempt : Nat, stop : BOOLEAN, evidence : Nat]]
    BY <1>1
  <1>3. \A r \in Runs :
          \/ [q \in Runs |-> SlotOf(run'[q])][r] = [q \in Runs |-> SlotOf(run[q])][r]
          \/ Log!SlotStep([q \in Runs |-> SlotOf(run[q])][r], [q \in Runs |-> SlotOf(run'[q])][r])
    BY DEF Logged
  <1>. QED
    BY <1>2, <1>3 DEF Log!Next

\* Nobody claims and nobody advances.
LEMMA CalmStep ==
  ASSUME Inv, run' \in [Runs -> RunRow],
         \A r \in Runs : Moves(run[r], run'[r]),
         worker' \in [Workers -> Busy \cup AtRest],
         \A w \in Workers : Follows(worker[w], worker'[w])
  PROVE  Inv' /\ Log!Next
  <1>1. TypeOK' /\ \A r \in Runs : RowOK(run'[r])
    BY DEF TypeOK, Moves
  <1>2. \A w \in Workers : worker'[w] \notin AtRest =>
           /\ worker[w] \in Busy /\ worker'[w] \in Busy
           /\ worker'[w].run = worker[w].run /\ worker'[w].attempt = worker[w].attempt
           /\ StatusOfStep[worker'[w].pc] = StatusOfStep[worker[w].pc]
    BY DEF Follows, Inv, TypeOK
  <1>3. \A r \in Runs : run'[r].attempt = run[r].attempt
    BY DEF Moves
  <1>4. Behind'
    BY <1>2, <1>3, BusyOrAtRest DEF Inv, Behind
  <1>5. AttemptsDistinct'
    BY <1>2, BusyOrAtRest DEF Inv, AttemptsDistinct
  <1>6. OneDriver'
    <2>. SUFFICES ASSUME NEW w \in Workers, worker'[w] \notin AtRest,
                         run'[worker'[w].run].status \in ACTIVE_STATUSES,
                         run'[worker'[w].run].attempt = worker'[w].attempt
                  PROVE  run'[worker'[w].run].status = StatusOfStep[worker'[w].pc]
      BY DEF OneDriver
    <2>1. PICK r \in Runs : r = worker'[w].run /\ r = worker[w].run
      BY <1>2, BusyOrAtRest
    <2>2. run'[r].status = run[r].status /\ run'[r].attempt = run[r].attempt
      BY <2>1 DEF Moves
    <2>3. run[r].status = StatusOfStep[worker[w].pc]
      BY <1>2, <2>1, <2>2, BusyOrAtRest DEF Inv, OneDriver
    <2>. QED
      BY <1>2, <2>1, <2>2, <2>3
  <1>7. Log!Next
    BY LogStep DEF Inv, TypeOK, Moves
  <1>. QED
    BY <1>1, <1>4, <1>5, <1>6, <1>7 DEF Inv

\* A worker that is at rest begins the next attempt of a run; the other runs
\* move as they like within their attempts.
LEMMA ClaimStep ==
  ASSUME Inv, run' \in [Runs -> RunRow], NEW w \in Workers, worker[w] \in AtRest,
         NEW r \in Runs, run[r].attempt < MaxAttempt,
         \A q \in Runs \ {r} : Moves(run[q], run'[q]),
         RowOK(run'[r]), Logged(run[r], run'[r]), run'[r].status = "CLAIMED",
         run'[r].attempt = run[r].attempt + 1,
         NEW claim \in Busy, claim.run = r, claim.attempt = run'[r].attempt,
         claim.pc = "claimed",
         worker' = [worker EXCEPT ![w] = claim]
  PROVE  Inv' /\ Log!Next
  <1>1. worker'[w] = claim /\ \A v \in Workers \ {w} : worker'[v] = worker[v]
    BY DEF Inv, TypeOK
  <1>2. TypeOK' /\ \A q \in Runs : RowOK(run'[q])
    BY DEF Inv, TypeOK, Moves
  <1>3. \A q \in Runs : run[q].attempt \in Nat
    BY QueueAssumption DEF Inv, TypeOK, RunRow
  <1>4. \A v \in Workers \ {w} : worker[v] \notin AtRest =>
           /\ worker[v] \in Busy /\ worker[v].run \in Runs /\ worker[v].attempt \in Nat
           /\ worker[v].attempt <= run[worker[v].run].attempt
    BY BusyOrAtRest DEF Inv, TypeOK, Behind
  <1>5. \A q \in Runs \ {r} : run'[q].attempt = run[q].attempt
    BY DEF Moves
  <1>6. \A v \in Workers \ {w} : worker[v] \notin AtRest /\ worker[v].run = r
           => worker[v].attempt < run'[r].attempt
    BY <1>3, <1>4
  <1>7. Behind'
    <2>. SUFFICES ASSUME NEW v \in Workers, worker'[v] \notin AtRest
                  PROVE  worker'[v].attempt <= run'[worker'[v].run].attempt
      BY DEF Behind
    <2>1. CASE v = w
      BY <2>1, <1>1, <1>3
    <2>2. CASE v # w
      BY <2>2, <1>1, <1>3, <1>4, <1>5, <1>6
    <2>. QED
      BY <2>1, <2>2
  <1>8. AttemptsDistinct'
    <2>. SUFFICES ASSUME NEW u \in Workers, NEW v \in Workers, u # v,
                         worker'[u] \notin AtRest, worker'[v] \notin AtRest,
                         worker'[u].run = worker'[v].run
                  PROVE  worker'[u].attempt # worker'[v].attempt
      BY DEF AttemptsDistinct
    <2>1. CASE u # w /\ v # w
      BY <2>1, <1>1 DEF Inv, AttemptsDistinct
    <2>2. CASE u = w
      BY <2>2, <1>1, <1>3, <1>4, <1>6
    <2>3. CASE v = w
      BY <2>3, <1>1, <1>3, <1>4, <1>6
    <2>. QED
      BY <2>1, <2>2, <2>3
  <1>9. OneDriver'
    <2>. SUFFICES ASSUME NEW v \in Workers, worker'[v] \notin AtRest,
                         run'[worker'[v].run].status \in ACTIVE_STATUSES,
                         run'[worker'[v].run].attempt = worker'[v].attempt
                  PROVE  run'[worker'[v].run].status = StatusOfStep[worker'[v].pc]
      BY DEF OneDriver
    <2>1. CASE v = w
      BY <2>1, <1>1, StatusOfSteps
    <2>2. CASE v # w
      <3>1. PICK q \in Runs : q = worker[v].run
        BY <2>2, <1>1, <1>4
      <3>2. q # r
        BY <2>2, <3>1, <1>1, <1>3, <1>4, <1>6
      <3>3. run'[q].status = run[q].status /\ run'[q].attempt = run[q].attempt
        BY <2>2, <3>1, <3>2, <1>1 DEF Moves
      <3>. QED
        BY <2>2, <3>1, <3>3, <1>1 DEF Inv, OneDriver
    <2>. QED
      BY <2>1, <2>2
  <1>10. Log!Next
    BY LogStep DEF Inv, TypeOK, Moves
  <1>. QED
    BY <1>2, <1>7, <1>8, <1>9, <1>10 DEF Inv

\* The owner of an active run takes it one status further.
LEMMA AdvanceStep ==
  ASSUME Inv, NEW w \in Workers, worker[w] \in Busy, ActiveOwner(w), NEW next \in Step,
         NEW r \in Runs, r = worker[w].run,
         StatusOfStep[next] \in TRANSITIONS[run[r].status],
         run' = [run EXCEPT ![r].status = StatusOfStep[next]],
         worker' = [worker EXCEPT ![w].pc = next]
  PROVE  Inv' /\ Log!Next
  <1>1. /\ run[r] \in RunRow /\ RowOK(run[r])
        /\ run' = [run EXCEPT ![r] = [run[r] EXCEPT !.status = StatusOfStep[next]]]
    BY DEF Inv, TypeOK
  <1>2. /\ run'[r] \in RunRow /\ RowOK(run'[r]) /\ Logged(run[r], run'[r])
        /\ run'[r].attempt = run[r].attempt /\ run'[r].status = StatusOfStep[next]
    BY <1>1, AdvanceLogged DEF Inv, TypeOK
  <1>3. \A q \in Runs \ {r} : run'[q] = run[q]
    BY DEF Inv, TypeOK
  <1>4. run' \in [Runs -> RunRow] /\ \A q \in Runs : RowOK(run'[q]) /\ Logged(run[q], run'[q])
    BY <1>1, <1>2, <1>3 DEF Inv, TypeOK, Logged
  <1>5. /\ worker'[w] \in Busy /\ worker'[w].run = r
        /\ worker'[w].attempt = worker[w].attempt /\ worker'[w].pc = next
        /\ worker' \in [Workers -> Busy \cup AtRest]
        /\ \A v \in Workers \ {w} : worker'[v] = worker[v]
    BY DEF Inv, TypeOK, Busy
  <1>6. \A q \in Runs : run'[q].attempt = run[q].attempt
    BY <1>2, <1>3
  <1>7. \A v \in Workers : worker'[v] \notin AtRest =>
           /\ worker[v] \in Busy
           /\ worker'[v].run = worker[v].run /\ worker'[v].attempt = worker[v].attempt
    BY <1>5 DEF Inv, TypeOK
  <1>8. TypeOK'
    BY <1>4, <1>5 DEF TypeOK
  <1>9. Behind'
    BY <1>6, <1>7, BusyOrAtRest DEF Inv, Behind
  <1>10. AttemptsDistinct'
    BY <1>7, BusyOrAtRest DEF Inv, AttemptsDistinct
  <1>11. OneDriver'
    <2>. SUFFICES ASSUME NEW v \in Workers, worker'[v] \notin AtRest,
                         run'[worker'[v].run].status \in ACTIVE_STATUSES,
                         run'[worker'[v].run].attempt = worker'[v].attempt
                  PROVE  run'[worker'[v].run].status = StatusOfStep[worker'[v].pc]
      BY DEF OneDriver
    <2>1. CASE v = w
      BY <2>1, <1>2, <1>5
    <2>2. CASE v # w
      <3>1. PICK q \in Runs : q = worker[v].run
        BY <1>7, BusyOrAtRest
      <3>2. q # r
        BY <2>2, <3>1, <1>5, <1>6, <1>7, OwnerIsActive, BusyOrAtRest
           DEF Inv, AttemptsDistinct
      <3>. QED
        BY <2>2, <3>1, <3>2, <1>3, <1>5 DEF Inv, OneDriver
    <2>. QED
      BY <2>1, <2>2
  <1>12. Log!Next
    BY <1>4, LogStep DEF Inv, TypeOK
  <1>. QED
    BY <1>4, <1>8, <1>9, <1>10, <1>11, <1>12 DEF Inv

-----------------------------------------------------------------------------
(* The actions. *)

\* One row moves.
LEMMA OneRow ==
  ASSUME Inv, NEW r \in Runs, NEW row, Moves(run[r], row),
         run' = [run EXCEPT ![r] = row]
  PROVE  run' \in [Runs -> RunRow] /\ \A q \in Runs : Moves(run[q], run'[q])
  <1>1. run'[r] = row /\ row \in RunRow
    BY DEF Inv, TypeOK, Moves
  <1>2. \A q \in Runs \ {r} : run'[q] = run[q]
    BY DEF Inv, TypeOK
  <1>3. \A q \in Runs : Moves(run[q], run[q])
    BY KeepMoves DEF Inv, TypeOK
  <1>. QED
    BY <1>1, <1>2, <1>3 DEF Inv, TypeOK

LEMMA SameRows ==
  ASSUME Inv, UNCHANGED run
  PROVE  run' \in [Runs -> RunRow] /\ \A q \in Runs : Moves(run[q], run'[q])
  BY KeepMoves DEF Inv, TypeOK

\* One execution ends or goes on.
LEMMA OneWorker ==
  ASSUME Inv, NEW w \in Workers, NEW x \in Busy \cup AtRest, Follows(worker[w], x),
         worker' = [worker EXCEPT ![w] = x]
  PROVE  /\ worker' \in [Workers -> Busy \cup AtRest]
         /\ \A v \in Workers : Follows(worker[v], worker'[v])
  BY DEF Inv, TypeOK, Follows

LEMMA SameWorkers ==
  ASSUME Inv, UNCHANGED worker
  PROVE  /\ worker' \in [Workers -> Busy \cup AtRest]
         /\ \A v \in Workers : Follows(worker[v], worker'[v])
  BY DEF Inv, TypeOK, Follows

\* An execution that returns or raises, whatever it did to its row.
LEMMA EndedWorker ==
  ASSUME Inv, NEW w \in Workers, NEW x \in AtRest, worker' = [worker EXCEPT ![w] = x]
  PROVE  /\ worker' \in [Workers -> Busy \cup AtRest]
         /\ \A v \in Workers : Follows(worker[v], worker'[v])
  BY OneWorker DEF Follows

\* What a worker claims and the row of it.
LEMMA Claimed ==
  ASSUME Inv, NEW w \in Workers, worker[w] \in Busy
  PROVE  /\ worker[w].run \in Runs
         /\ run[worker[w].run] \in RunRow /\ RowOK(run[worker[w].run])
  BY BusyOrAtRest DEF Inv, TypeOK

LEMMA AtStep ==
  ASSUME Inv, NEW w \in Workers, worker[w].pc \in Step
  PROVE  worker[w] \in Busy
  BY BusyOrAtRest DEF Inv, TypeOK

LEMMA RaiseStep ==
  ASSUME Inv, NEW w \in Workers, Raise(w)
  PROVE  Inv' /\ Log!Next
  <1>1. [pc |-> "raised"] \in AtRest
    BY BusyOrAtRest
  <1>. QED
    BY <1>1, SameRows, EndedWorker, CalmStep DEF Raise

\* Queue maintenance moves every row.
LEMMA ReconciledMoves ==
  ASSUME Inv, NEW locked
  PROVE  /\ Reconciled(locked) \in [Runs -> RunRow]
         /\ \A r \in Runs : Moves(run[r], Reconciled(locked)[r])
         /\ \A r \in Runs : ~run[r].cancellation_requested => Reconciled(locked)[r] = run[r]
  <1>1. \A r \in Runs : run[r] \in RunRow /\ RowOK(run[r]) /\ Moves(run[r], run[r])
    BY KeepMoves DEF Inv, TypeOK
  <1>2. \A r \in Abandoned : /\ r \in Runs /\ run[r].cancellation_requested
                            /\ run[r].status \notin TERMINAL_STATUSES
    BY StatusSets DEF Abandoned, Expired
  <1>3. \A r \in Abandoned : Moves(run[r], CancelledRun(run[r]))
    BY <1>1, <1>2, CancelMoves
  <1>4. \A r \in Runs : Moves(run[r], Reconciled(locked)[r])
    BY <1>1, <1>3 DEF Reconciled
  <1>5. \A r \in Runs : Reconciled(locked)[r] \in RunRow
    BY <1>4 DEF Moves
  <1>6. Reconciled(locked) = [r \in Runs |-> Reconciled(locked)[r]]
    BY DEF Reconciled
  <1>7. Reconciled(locked) \in [Runs -> RunRow]
    BY <1>5, <1>6
  <1>. QED
    BY <1>2, <1>4, <1>7 DEF Reconciled

LEMMA ClaimNextRunStep ==
  ASSUME Inv, NEW w \in Workers, NEW locked, ClaimNextRun(w, Runs, locked)
  PROVE  Inv' /\ Log!Next
  <1>1. ASSUME NEW r \in Claimable(Runs) \ locked,
               run' = [Reconciled(locked) EXCEPT ![r] = ClaimedRun(run[r], Owner[w])],
               worker' = [worker EXCEPT ![w] =
                  [pc |-> "claimed", run |-> r, attempt |-> ClaimedRun(run[r], Owner[w]).attempt,
                   beat |-> "ok", result |-> "none"]]
        PROVE  Inv' /\ Log!Next
    <2> DEFINE b == ClaimedRun(run[r], Owner[w])
               claim == [pc |-> "claimed", run |-> r, attempt |-> b.attempt,
                         beat |-> "ok", result |-> "none"]
    <2>1. /\ r \in Runs /\ ~run[r].cancellation_requested /\ run[r].attempt < MaxAttempt
          /\ run[r].status \notin TERMINAL_STATUSES
      BY StatusSets DEF Claimable, Expired
    <2>2. run[r] \in RunRow /\ RowOK(run[r]) /\ worker[w] \in AtRest
      BY <2>1 DEF Inv, TypeOK, ClaimNextRun
    <2>3. /\ b \in RunRow /\ RowOK(b) /\ Logged(run[r], b)
          /\ b.attempt = run[r].attempt + 1 /\ b.attempt \in AttemptNumber
          /\ b.status = "CLAIMED"
      BY <2>1, <2>2, ClaimLogged
    <2>. HIDE DEF b
    <2>4. claim \in Busy /\ claim.run = r /\ claim.attempt = b.attempt /\ claim.pc = "claimed"
      BY <2>1, <2>3 DEF Busy, Step
    <2>5. run' = [Reconciled(locked) EXCEPT ![r] = b] /\ worker' = [worker EXCEPT ![w] = claim]
      BY <1>1 DEF b
    <2>. HIDE DEF claim
    <2>6. run'[r] = b /\ run' \in [Runs -> RunRow]
      BY <2>1, <2>3, <2>5, ReconciledMoves
    <2>7. \A q \in Runs \ {r} : Moves(run[q], run'[q])
      BY <2>5, ReconciledMoves
    <2>. QED
      BY <2>1, <2>2, <2>3, <2>4, <2>5, <2>6, <2>7, ClaimStep
  <1>2. CASE run' = Reconciled(locked) /\ worker' = [worker EXCEPT ![w] = [pc |-> "idle"]]
    BY <1>2, ReconciledMoves, BusyOrAtRest, EndedWorker, CalmStep
  <1>. QED
    BY <1>1, <1>2 DEF ClaimNextRun

LEMMA TransitionStep ==
  ASSUME Inv, NEW w \in Workers, NEW pc \in Step, NEW next \in Step,
         TransitionRun(w, pc, StatusOfStep[next], next)
  PROVE  Inv' /\ Log!Next
  <1>1. worker[w] \in Busy
    BY AtStep DEF TransitionRun
  <1>2. PICK r \in Runs : r = worker[w].run
    BY <1>1, Claimed
  <1>3. run[r] \in RunRow /\ RowOK(run[r])
    BY <1>1, <1>2, Claimed
  <1>4. CASE /\ ActiveOwner(w) /\ run[r].cancellation_requested
             /\ run' = [run EXCEPT ![r] = CancelledRun(@)]
             /\ Return(w)
    <2>1. run[r].status \notin TERMINAL_STATUSES
      BY <1>1, <1>2, <1>4, OwnerIsActive, StatusSets
    <2>2. Moves(run[r], CancelledRun(run[r]))
      BY <1>3, <1>4, <2>1, CancelMoves
    <2>3. run' = [run EXCEPT ![r] = CancelledRun(run[r])]
      BY <1>4
    <2>. QED
      BY <1>4, <2>2, <2>3, OneRow, BusyOrAtRest, EndedWorker, CalmStep DEF Return
  <1>5. CASE /\ ActiveOwner(w) /\ StatusOfStep[next] \in TRANSITIONS[run[r].status]
             /\ run' = [run EXCEPT ![r].status = StatusOfStep[next]]
             /\ worker' = [worker EXCEPT ![w].pc = next]
    BY <1>1, <1>2, <1>5, AdvanceStep
  <1>6. CASE Raise(w)
    BY <1>6, RaiseStep
  <1>. QED
    BY <1>2, <1>4, <1>5, <1>6 DEF TransitionRun

LEMMA HeartbeatStep ==
  ASSUME Inv, NEW w \in Workers, Heartbeat(w)
  PROVE  Inv' /\ Log!Next
  <1>1. worker[w] \in Busy
    BY AtStep DEF Heartbeat, Step
  <1>2. PICK r \in Runs : r = worker[w].run
    BY <1>1, Claimed
  <1>3. run[r] \in RunRow /\ RowOK(run[r])
    BY <1>1, <1>2, Claimed
  <1>4. [worker[w] EXCEPT !.beat = "stopped"] \in Busy
    BY <1>1 DEF Busy
  <1>5. Follows(worker[w], [worker[w] EXCEPT !.beat = "stopped"])
    <2>1. /\ [worker[w] EXCEPT !.beat = "stopped"].run = worker[w].run
          /\ [worker[w] EXCEPT !.beat = "stopped"].attempt = worker[w].attempt
          /\ [worker[w] EXCEPT !.beat = "stopped"].pc = worker[w].pc
      BY <1>1 DEF Busy
    <2>. QED
      BY <1>1, <1>4, <2>1 DEF Follows
  <1>6. CASE run' = [run EXCEPT ![r].lease = TTL] /\ UNCHANGED worker
    <2>1. Moves(run[r], [run[r] EXCEPT !.lease = TTL])
      BY <1>3, RowFields, LeaseMoves
    <2>2. run' = [run EXCEPT ![r] = [run[r] EXCEPT !.lease = TTL]]
      BY <1>6
    <2>. QED
      BY <1>6, <2>1, <2>2, OneRow, SameWorkers, CalmStep
  <1>7. CASE /\ ActiveOwner(w) /\ run[r].cancellation_requested
             /\ run' = [run EXCEPT ![r] = CancelledRun(@)]
             /\ worker' = [worker EXCEPT ![w].beat = "stopped"]
    <2>1. run[r].status \notin TERMINAL_STATUSES
      BY <1>1, <1>2, <1>7, OwnerIsActive, StatusSets
    <2>2. Moves(run[r], CancelledRun(run[r]))
      BY <1>3, <1>7, <2>1, CancelMoves
    <2>3. /\ run' = [run EXCEPT ![r] = CancelledRun(run[r])]
          /\ worker' = [worker EXCEPT ![w] = [worker[w] EXCEPT !.beat = "stopped"]]
      BY <1>7
    <2>. QED
      BY <1>4, <1>5, <2>2, <2>3, OneRow, OneWorker, CalmStep
  <1>8. CASE worker' = [worker EXCEPT ![w].beat = "stopped"] /\ UNCHANGED run
    <2>1. worker' = [worker EXCEPT ![w] = [worker[w] EXCEPT !.beat = "stopped"]]
      BY <1>8
    <2>. QED
      BY <1>4, <1>5, <1>8, <2>1, SameRows, OneWorker, CalmStep
  <1>. QED
    BY <1>2, <1>6, <1>7, <1>8 DEF Heartbeat

LEMMA DispatchedStep ==
  ASSUME Inv, NEW w \in Workers, Dispatched(w)
  PROVE  Inv' /\ Log!Next
  <1>1. worker[w] \in Busy /\ worker[w].pc = "running"
    BY AtStep DEF Dispatched, Step
  <1>2. ASSUME NEW result \in {"lane", "error"}, UNCHANGED run,
               worker' = [worker EXCEPT ![w].pc = "dispatched", ![w].result = result]
        PROVE  Inv' /\ Log!Next
    <2> DEFINE x == [worker[w] EXCEPT !.pc = "dispatched", !.result = result]
    <2>1. /\ x \in Busy /\ x.run = worker[w].run /\ x.attempt = worker[w].attempt
          /\ x.pc = "dispatched"
      BY <1>1 DEF Busy, Step
    <2>2. worker' = [worker EXCEPT ![w] = x]
      BY <1>2 DEF Inv, TypeOK
    <2>. HIDE DEF x
    <2>3. Follows(worker[w], x)
      BY <1>1, <2>1, StatusOfSteps DEF Follows
    <2>. QED
      BY <1>2, <2>1, <2>2, <2>3, SameRows, OneWorker, CalmStep
  <1>3. CASE Return(w) /\ UNCHANGED run
    BY <1>3, SameRows, BusyOrAtRest, EndedWorker, CalmStep DEF Return
  <1>. QED
    BY <1>2, <1>3 DEF Dispatched

LEMMA FinishRunStep ==
  ASSUME Inv, NEW w \in Workers, FinishRun(w)
  PROVE  Inv' /\ Log!Next
  <1>1. worker[w] \in Busy
    BY AtStep DEF FinishRun, Step
  <1>2. PICK r \in Runs : r = worker[w].run
    BY <1>1, Claimed
  <1>3. run[r] \in RunRow /\ RowOK(run[r])
    BY <1>1, <1>2, Claimed
  <1>4. ASSUME ActiveOwner(w), run[r].status = "SCORING", Return(w), NEW ending \in Endings(w),
               run' = [run EXCEPT ![r] = FinishedRun(@, ending[1], ending[2])]
        PROVE  Inv' /\ Log!Next
    <2>1. run[r].attempt = worker[w].attempt
      BY <1>2, <1>4 DEF ActiveOwner
    <2>2. /\ ending[1] \in StatisticalOutcome /\ ending[2] \in {0, run[r].attempt}
          /\ run[r].cancellation_requested => ending[2] = 0
      <3>1. /\ "cancelled" \in StatisticalOutcome /\ "infra_failure" \in StatisticalOutcome
            /\ \A o \in LaneOutcomes : o \in StatisticalOutcome
        BY QueueAssumption DEF StatisticalOutcome
      <3>2. CASE run[r].cancellation_requested
        <4>1. ending = <<"cancelled", 0>>
          BY <1>2, <3>2 DEF Endings
        <4>. QED
          BY <3>1, <4>1
      <3>3. CASE ~run[r].cancellation_requested /\ ending = <<"infra_failure", 0>>
        BY <3>1, <3>3
      <3>4. CASE ~run[r].cancellation_requested /\ ending \in LaneOutcomes \X {worker[w].attempt}
        <4>1. ending[1] \in LaneOutcomes /\ ending[2] = worker[w].attempt
          BY <3>4
        <4>. QED
          BY <2>1, <3>1, <3>4, <4>1
      <3>5. \/ run[r].cancellation_requested
            \/ ending = <<"infra_failure", 0>>
            \/ ending \in LaneOutcomes \X {worker[w].attempt}
        BY <1>2 DEF Endings
      <3>. QED
        BY <3>2, <3>3, <3>4, <3>5
    <2>3. Moves(run[r], FinishedRun(run[r], ending[1], ending[2]))
      BY <1>3, <1>4, <2>2, FinishMoves
    <2>4. run' = [run EXCEPT ![r] = FinishedRun(run[r], ending[1], ending[2])]
      BY <1>4
    <2>. QED
      BY <1>4, <2>3, <2>4, OneRow, BusyOrAtRest, EndedWorker, CalmStep DEF Return
  <1>5. CASE Raise(w)
    BY <1>5, RaiseStep
  <1>. QED
    BY <1>2, <1>4, <1>5 DEF FinishRun

LEMMA ReleaseRunStep ==
  ASSUME Inv, NEW w \in Workers, ReleaseRun(w)
  PROVE  Inv' /\ Log!Next
  <1>1. worker[w] \in Busy
    BY DEF Inv, TypeOK, ReleaseRun
  <1>2. PICK r \in Runs : r = worker[w].run
    BY <1>1, Claimed
  <1>3. run[r] \in RunRow /\ RowOK(run[r]) /\ run[r].status \in ACTIVE_STATUSES
    BY <1>1, <1>2, Claimed DEF ReleaseRun
  <1>4. Moves(run[r], ReleasedRun(run[r]))
    BY <1>3, ReleaseMoves
  <1>5. run' = [run EXCEPT ![r] = ReleasedRun(run[r])] /\ UNCHANGED worker
    BY <1>2 DEF ReleaseRun
  <1>. QED
    BY <1>4, <1>5, OneRow, SameWorkers, CalmStep

LEMMA CrashStep ==
  ASSUME Inv, NEW w \in Workers, Crash(w)
  PROVE  Inv' /\ Log!Next
  BY SameRows, BusyOrAtRest, EndedWorker, CalmStep DEF Crash

LEMMA TickStep ==
  ASSUME Inv, Tick
  PROVE  Inv' /\ Log!Next
  <1>1. \A r \in Runs : run[r] \in RunRow /\ RowOK(run[r]) /\ run[r].lease \in 0 .. TTL
    BY RowFields DEF Inv, TypeOK
  <1>2. \A n \in 0 .. TTL : n > 0 => n - 1 \in 0 .. TTL
    BY QueueAssumption
  <1>3. \A r \in Runs : run[r].lease > 0 => Moves(run[r], [run[r] EXCEPT !.lease = @ - 1])
    <2>. SUFFICES ASSUME NEW r \in Runs, run[r].lease > 0
                  PROVE  Moves(run[r], [run[r] EXCEPT !.lease = run[r].lease - 1])
      OBVIOUS
    <2>. QED
      BY <1>1, <1>2, LeaseMoves
  <1>4. \A r \in Runs : Moves(run[r], run[r])
    BY <1>1, KeepMoves
  <1>5. \A r \in Runs : Moves(run[r], run'[r])
    BY <1>3, <1>4 DEF Tick
  <1>6. run' \in [Runs -> RunRow]
    <2>1. \A r \in Runs : run'[r] \in RunRow
      BY <1>5 DEF Moves
    <2>2. run' = [r \in Runs |-> run'[r]]
      BY DEF Tick
    <2>. QED
      BY <2>1, <2>2
  <1>. QED
    BY <1>5, <1>6, SameWorkers, CalmStep DEF Tick

LEMMA RequestCancellationStep ==
  ASSUME Inv, NEW r \in Runs, RequestRunCancellation(r)
  PROVE  Inv' /\ Log!Next
  <1> DEFINE asked == [run[r] EXCEPT !.cancellation_requested = TRUE]
  <1>1. run[r] \in RunRow /\ RowOK(run[r])
    BY DEF Inv, TypeOK
  <1>2. /\ asked \in RunRow /\ asked.cancellation_requested
        /\ asked.attempt = run[r].attempt /\ asked.evidence = run[r].evidence
    BY <1>1 DEF RunRow
  <1>3. run[r].status # "QUEUED" => Moves(run[r], asked)
    BY <1>1, AskMoves
  <1>. HIDE DEF asked
  <1>4. CASE run[r].status = "QUEUED" \/ Expired(r)
    <2>1. run[r].status \notin TERMINAL_STATUSES
      BY <1>4, StatusSets DEF Expired
    <2>2. Moves(run[r], CancelledRun(asked))
      BY <1>1, <1>2, <2>1, CancelMoves
    <2>3. run' = [run EXCEPT ![r] = CancelledRun(asked)] /\ UNCHANGED worker
      BY <1>4 DEF RequestRunCancellation, asked
    <2>. QED
      BY <2>2, <2>3, OneRow, SameWorkers, CalmStep
  <1>5. CASE ~(run[r].status = "QUEUED" \/ Expired(r))
    <2>1. run' = [run EXCEPT ![r] = asked] /\ UNCHANGED worker
      BY <1>5 DEF RequestRunCancellation, asked
    <2>. QED
      BY <1>3, <1>5, <2>1, OneRow, SameWorkers, CalmStep
  <1>. QED
    BY <1>4, <1>5

LEMMA RequeueStep ==
  ASSUME Inv, NEW r \in Runs, RequeueFailedInfra(r)
  PROVE  Inv' /\ Log!Next
  <1>1. run[r] \in RunRow /\ RowOK(run[r])
    BY DEF Inv, TypeOK
  <1>2. Moves(run[r], RequeuedRun(run[r]))
    BY <1>1, RequeueMoves DEF RequeueFailedInfra, Requeueable
  <1>3. run' = [run EXCEPT ![r] = RequeuedRun(run[r])] /\ UNCHANGED worker
    BY DEF RequeueFailedInfra
  <1>. QED
    BY <1>2, <1>3, OneRow, SameWorkers, CalmStep

LEMMA NextStep ==
  ASSUME Inv, Next
  PROVE  Inv' /\ Log!Next
  <1>1. ASSUME NEW w \in Workers, NEW locked \in SUBSET Runs, ClaimNextRun(w, Runs, locked)
        PROVE  Inv' /\ Log!Next
    BY <1>1, ClaimNextRunStep
  <1>2. ASSUME NEW w \in Workers, Execute(w)
        PROVE  Inv' /\ Log!Next
    <2>1. /\ "claimed" \in Step /\ "prepared" \in Step /\ "running" \in Step
          /\ "dispatched" \in Step /\ "verified" \in Step /\ "scored" \in Step
      BY DEF Step
    <2>2. CASE Prepare(w)
      BY <2>1, <2>2, StatusOfSteps, TransitionStep DEF Prepare
    <2>3. CASE Start(w)
      BY <2>1, <2>3, StatusOfSteps, TransitionStep DEF Start
    <2>4. CASE Verify(w)
      BY <2>1, <2>4, StatusOfSteps, TransitionStep DEF Verify
    <2>5. CASE Score(w)
      BY <2>1, <2>5, StatusOfSteps, TransitionStep DEF Score
    <2>. QED
      BY <1>2, <2>2, <2>3, <2>4, <2>5, DispatchedStep, FinishRunStep DEF Execute
  <1>3. ASSUME NEW w \in Workers, Heartbeat(w) \/ ReleaseRun(w) \/ Crash(w)
        PROVE  Inv' /\ Log!Next
    BY <1>3, HeartbeatStep, ReleaseRunStep, CrashStep
  <1>4. ASSUME NEW r \in Runs, RequestRunCancellation(r) \/ RequeueFailedInfra(r)
        PROVE  Inv' /\ Log!Next
    BY <1>4, RequestCancellationStep, RequeueStep
  <1>. QED
    BY <1>1, <1>2, <1>3, <1>4, TickStep DEF Next

-----------------------------------------------------------------------------
(* The theorems. *)

LEMMA InitInv == Init => Inv
  <1>. SUFFICES ASSUME Init PROVE Inv
    OBVIOUS
  <1>1. /\ "QUEUED" \in RunStatus /\ NoOwner \in LeaseOwner /\ 0 \in 0 .. TTL
        /\ 0 \in 0 .. MaxAttempt
    BY QueueAssumption, StatusSets DEF LeaseOwner
  <1>2. run \in [Runs -> RunRow] /\ \A r \in Runs : RowOK(run[r])
    BY <1>1, StatusSets DEF Init, RunRow, RowOK
  <1>3. worker \in [Workers -> AtRest]
    BY BusyOrAtRest DEF Init
  <1>. QED
    BY <1>2, <1>3 DEF Inv, TypeOK, Behind, AttemptsDistinct, OneDriver

LEMMA Stutter ==
  ASSUME Inv, UNCHANGED queueVars
  PROVE  Inv'
  BY DEF Inv, TypeOK, RowOK, Behind, AttemptsDistinct, OneDriver, queueVars

LEMMA Invariance == Spec => []Inv
  <1>1. Inv /\ [Next]_queueVars => Inv'
    BY NextStep, Stutter
  <1>. QED
    BY InitInv, <1>1, PTL DEF Spec

\* Every reachable row and execution is well typed: attempts, leases and
\* outcomes stay in their ranges (contracts/run.py, queue.py).
THEOREM QueueTypeCorrect == Spec => []TypeOK
  <1>1. Inv => TypeOK
    BY DEF Inv
  <1>. QED
    BY Invariance, <1>1, PTL

\* No two executions that are under way carry the same run and attempt, so
\* their artifact directories differ (attempt_execution_id).
THEOREM AttemptsStayDistinct == Spec => []AttemptsDistinct
  <1>1. Inv => AttemptsDistinct
    BY DEF Inv
  <1>. QED
    BY Invariance, <1>1, PTL

\* An active run stands where the execution of its current attempt left it,
\* whatever stale executions do (_require_active_owner).
THEOREM OneDriverHolds == Spec => []OneDriver
  <1>1. Inv => OneDriver
    BY DEF Inv
  <1>. QED
    BY Invariance, <1>1, PTL

\* In schema version 2, whose failures are never requeued, every queued run
\* can be claimed (claim_next_run, request_run_cancellation, release_run).
THEOREM NoStrandedRunInV2 ==
  ASSUME SchemaVersion = 2
  PROVE  Spec => []NoStrandedRun
  <1>1. Inv => NoStrandedRun
    BY DEF Inv, RowOK, NoStrandedRun
  <1>. QED
    BY Invariance, <1>1, PTL

\* The rows of the queue implement the AttemptLog.
THEOREM RowsImplementAttemptLog == Spec => ImplementsAttemptLog
  <1>1. Init => Log!Init
    BY StatusSets DEF Init, SlotOf, Log!Init
  <1>2. Inv /\ [Next]_queueVars => [Log!Next]_([r \in Runs |-> SlotOf(run[r])])
    BY NextStep DEF queueVars
  <1>. QED
    BY <1>1, <1>2, Invariance, PTL DEF Spec, ImplementsAttemptLog, Log!Spec
=============================================================================
