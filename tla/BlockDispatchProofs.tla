------------------------- MODULE BlockDispatchProofs -------------------------
(***************************************************************************)
(* Theorems about BlockDispatch for every plan, every set of coordinators  *)
(* and all capacities: the frozen order of slots and blocks, the places of *)
(* a coordinator and the caps on what it has under way or leased; with a   *)
(* single coordinator, the caps on those of the whole plan.                *)
(***************************************************************************)
EXTENDS BlockDispatch, FiniteSetTheorems, WellFoundedInduction, TLAPS

-----------------------------------------------------------------------------
(* Rows: what an update may do to one. *)

Row == Queue!RunRow

\* A row that is not active holds no lease.
RowOK(row) == row \in Row /\ (row.status \notin ACTIVE_STATUSES => row.lease = 0)

\* Row b follows row a without a claim: it stays in its attempt, is never
\* queued again, and no lease begins.
Moves(a, b) ==
  /\ RowOK(b)
  /\ b.attempt = a.attempt
  /\ b.status = "QUEUED" => a.status = "QUEUED"
  /\ b.lease > 0 => a.lease > 0 /\ b.lease_owner = a.lease_owner

Rows == run \in [Runs -> Row] /\ \A r \in Runs : RowOK(run[r])
RowsMove == run' \in [Runs -> Row] /\ \A r \in Runs : Moves(run[r], run'[r])

LEMMA RowType ==
  Row = [status : RunStatus, attempt : 0 .. MaxAttempt, lease_owner : Queue!LeaseOwner,
         lease : 0 .. TTL, cancellation_requested : BOOLEAN,
         normalized_outcome : StatisticalOutcome \cup {"none"}, evidence : 0 .. MaxAttempt]
  BY DEF Row, Queue!RunRow, Queue!RunStatus, Queue!StatisticalOutcome, RunStatus,
         StatisticalOutcome, Queue!ACTIVE_STATUSES, Queue!TERMINAL_STATUSES,
         ACTIVE_STATUSES, TERMINAL_STATUSES

LEMMA SameStatuses ==
  /\ Queue!ACTIVE_STATUSES = ACTIVE_STATUSES /\ Queue!TERMINAL_STATUSES = TERMINAL_STATUSES
  /\ Queue!RunStatus = RunStatus /\ Queue!StatisticalOutcome = StatisticalOutcome
  /\ Queue!TRANSITIONS = TRANSITIONS
  /\ Queue!TERMINAL_STATUS_BY_OUTCOME = TERMINAL_STATUS_BY_OUTCOME
  BY DEF Queue!RunStatus, Queue!StatisticalOutcome, RunStatus, StatisticalOutcome,
         Queue!ACTIVE_STATUSES, Queue!TERMINAL_STATUSES, ACTIVE_STATUSES, TERMINAL_STATUSES,
         Queue!TRANSITIONS, TRANSITIONS, TERMINAL_STATUS_BY_OUTCOME,
         Queue!TERMINAL_STATUS_BY_OUTCOME

LEMMA RowFields ==
  ASSUME NEW row \in Row
  PROVE  /\ row.status \in RunStatus /\ row.attempt \in 0 .. MaxAttempt
         /\ row.lease \in 0 .. TTL /\ row.lease \in Nat /\ row.attempt \in Nat
         /\ row.cancellation_requested \in BOOLEAN
  BY RowType, DispatchAssumption

LEMMA OwnersOK ==
  /\ NoOwner \in Queue!LeaseOwner /\ 0 \in 0 .. TTL /\ TTL \in 0 .. TTL /\ 0 \in 0 .. MaxAttempt
  /\ \A t \in Tasks : OwnerOf[t[1]] \in Queue!LeaseOwner
  BY DispatchAssumption DEF Queue!LeaseOwner

LEMMA KeptRow ==
  ASSUME NEW row \in Row, RowOK(row)
  PROVE  Moves(row, row)
  BY DEF Moves

LEMMA CancelledRow ==
  ASSUME NEW row \in Row, RowOK(row)
  PROVE  /\ Moves(row, Queue!CancelledRun(row))
         /\ Queue!CancelledRun(row).lease = 0
  <1> DEFINE b == Queue!CancelledRun(row)
  <1>1. "CANCELLED" \in RunStatus /\ "cancelled" \in StatisticalOutcome \cup {"none"}
    BY DEF StatisticalOutcome, RunStatus, TERMINAL_STATUSES
  <1>2. b \in Row /\ b.status = "CANCELLED" /\ b.lease = 0 /\ b.attempt = row.attempt
    BY <1>1, RowType, OwnersOK DEF Queue!CancelledRun, Queue!LeaseCleared
  <1>. QED
    BY <1>2 DEF Moves, RowOK

LEMMA FinishedRow ==
  ASSUME NEW row \in Row, RowOK(row), NEW outcome \in StatisticalOutcome,
         NEW evidence \in 0 .. MaxAttempt
  PROVE  /\ Moves(row, Queue!FinishedRun(row, outcome, evidence))
         /\ Queue!FinishedRun(row, outcome, evidence).lease = 0
  <1>1. TERMINAL_STATUS_BY_OUTCOME[outcome] \in TERMINAL_STATUSES
    BY DEF TERMINAL_STATUS_BY_OUTCOME, StatisticalOutcome, TERMINAL_STATUSES
  <1>2. /\ TERMINAL_STATUS_BY_OUTCOME[outcome] \in RunStatus
        /\ TERMINAL_STATUS_BY_OUTCOME[outcome] # "QUEUED"
    BY <1>1 DEF RunStatus, TERMINAL_STATUSES
  <1> DEFINE b == Queue!FinishedRun(row, outcome, evidence)
  <1>3. /\ b \in Row /\ b.status = TERMINAL_STATUS_BY_OUTCOME[outcome]
        /\ b.lease = 0 /\ b.attempt = row.attempt
    BY <1>2, RowType, OwnersOK, SameStatuses DEF Queue!FinishedRun, Queue!LeaseCleared
  <1>. QED
    BY <1>2, <1>3 DEF Moves, RowOK

\* Going on to the next status, renewing a lease, letting it run down.
LEMMA AdvancedRow ==
  ASSUME NEW row \in Row, RowOK(row), NEW target \in TRANSITIONS[row.status]
  PROVE  Moves(row, [row EXCEPT !.status = target])
  <1>1. row.status \in RunStatus
    BY RowFields
  <1>2. target \in ACTIVE_STATUSES /\ row.status \in ACTIVE_STATUSES /\ target \in RunStatus
        /\ target # "QUEUED"
    BY <1>1 DEF TRANSITIONS, RunStatus, ACTIVE_STATUSES, TERMINAL_STATUSES
  <1>. QED
    BY <1>2, RowType DEF Moves, RowOK

LEMMA LeasedRow ==
  ASSUME NEW row \in Row, RowOK(row), row.lease > 0, NEW n \in 0 .. TTL
  PROVE  Moves(row, [row EXCEPT !.lease = n])
  BY RowType DEF Moves, RowOK

LEMMA AskedRow ==
  ASSUME NEW row \in Row, RowOK(row)
  PROVE  Moves(row, [row EXCEPT !.cancellation_requested = TRUE])
  BY RowType DEF Moves, RowOK

LEMMA MovesTwice ==
  ASSUME NEW a, NEW b, NEW d, Moves(a, b), Moves(b, d)
  PROVE  Moves(a, d)
  BY DEF Moves

LEMMA ClaimedRow ==
  ASSUME NEW row \in Row, RowOK(row), row.attempt < MaxAttempt,
         NEW owner \in Queue!LeaseOwner
  PROVE  LET b == Queue!ClaimedRun(row, owner) IN
         /\ RowOK(b) /\ b.status = "CLAIMED" /\ b.attempt = row.attempt + 1
         /\ b.attempt \in 1 .. MaxAttempt
         /\ b.lease_owner = owner
  <1>1. row.attempt + 1 \in 0 .. MaxAttempt /\ row.attempt + 1 \in 1 .. MaxAttempt
    BY RowFields, DispatchAssumption
  <1>. QED
    BY <1>1, RowType, OwnersOK DEF RowOK, Queue!ClaimedRun, RunStatus, ACTIVE_STATUSES

-----------------------------------------------------------------------------
(* The inductive invariant of the order and the places. *)

Call ==
  [pc : {"dispatching", "draining"}, represented : SUBSET Runs, active : SUBSET Runs,
   allowed : SUBSET Runs]

Execution == Queue!Busy \cup Queue!AtRest

TypeInv ==
  /\ Rows
  /\ worker \in [Tasks -> Execution]
  /\ coord \in [Coordinators -> {Away} \cup Call]

\* What a coordinator has represented is not queued, and never again.
Begun ==
  \A c \in Coordinators :
     coord[c] # Away => \A r \in coord[c].represented : run[r].status # "QUEUED"

\* An execution under way has a place.
TasksHavePlaces ==
  \A c \in Coordinators, r \in Runs :
     worker[<<c, r>>] \notin Queue!AtRest => coord[c] # Away /\ r \in coord[c].active

OrderInv == TypeInv /\ Begun /\ PlacesAreHeld /\ TasksHavePlaces

LEMMA CallFields ==
  ASSUME TypeInv, NEW c \in Coordinators, coord[c] # Away
  PROVE  /\ coord[c] \in Call
         /\ coord[c].represented \subseteq Runs /\ coord[c].active \subseteq Runs
         /\ coord[c].allowed \subseteq Runs
  BY DEF TypeInv, Call

LEMMA AwayIsNoCall == Away \notin Call
  BY DEF Away, Call

LEMMA RestFacts ==
  /\ Idle \in Execution
  /\ [pc |-> "idle"] \in Queue!AtRest /\ [pc |-> "returned"] \in Queue!AtRest
  /\ [pc |-> "raised"] \in Queue!AtRest
  /\ [pc |-> "returned"] # Idle /\ [pc |-> "raised"] # Idle
  /\ \A x \in Queue!AtRest : x \in Execution /\ x.pc \in {"idle", "returned", "raised"}
  /\ \A x \in Queue!Busy : x \in Execution /\ x # Idle /\ x \notin Queue!AtRest
  BY DEF Idle, Execution, Queue!AtRest, Queue!Busy, Queue!Step

\* Whoever is at a step of an execution has a run in hand.
LEMMA BusyFacts ==
  ASSUME TypeInv, NEW t \in Tasks, worker[t] \notin Queue!AtRest
  PROVE  /\ worker[t] \in Queue!Busy /\ worker[t].run \in Runs
         /\ worker[t].attempt \in 1 .. MaxAttempt
         /\ run[worker[t].run] \in Row /\ RowOK(run[worker[t].run])
  BY DEF TypeInv, Execution, Queue!Busy, Queue!AttemptNumber, Rows

LEMMA StepIsBusy ==
  ASSUME TypeInv, NEW t \in Tasks,
         worker[t].pc \notin {"idle", "returned", "raised"}
  PROVE  worker[t] \notin Queue!AtRest
  BY RestFacts

-----------------------------------------------------------------------------
(* Steps that leave the calls alone: executions, the clock, the operator. *)

LEMMA OneRowMoves ==
  ASSUME Rows, NEW r \in Runs, NEW b, Moves(run[r], b), run' = [run EXCEPT ![r] = b]
  PROVE  RowsMove
  <1>1. b \in Row
    BY DEF Moves, RowOK
  <1>2. \A q \in Runs : run'[q] = IF q = r THEN b ELSE run[q]
    BY DEF Rows
  <1>3. run' \in [Runs -> Row]
    BY <1>1 DEF Rows
  <1>4. \A q \in Runs : Moves(run[q], run[q])
    BY KeptRow DEF Rows
  <1>. QED
    BY <1>2, <1>3, <1>4 DEF RowsMove

LEMMA NoRowMoves ==
  ASSUME Rows, run' = run
  PROVE  RowsMove
  BY KeptRow DEF Rows, RowsMove

LEMMA RowsAfter ==
  ASSUME RowsMove
  PROVE  Rows'
  BY DEF RowsMove, Rows, Moves, RowOK

\* What a task under way becomes in one of its steps.
Becomes(t, x) ==
  /\ worker[t] \notin Queue!AtRest /\ x \in Execution \ {Idle}
  /\ worker' = [worker EXCEPT ![t] = x]

LEMMA EndsWell ==
  ASSUME NEW t \in Tasks, worker[t] \notin Queue!AtRest, Queue!Return(t) \/ Queue!Raise(t)
  PROVE  \E x : Becomes(t, x)
  BY RestFacts DEF Becomes, Queue!Return, Queue!Raise

LEMMA GoesOnTo ==
  ASSUME TypeInv, NEW t \in Tasks, worker[t] \notin Queue!AtRest,
         NEW x \in Queue!Busy, worker' = [worker EXCEPT ![t] = x]
  PROVE  \E y : Becomes(t, y)
  BY RestFacts DEF Becomes

LEMMA TransitionMoves ==
  ASSUME TypeInv, NEW t \in Tasks, NEW pc \in Queue!Step, NEW target, NEW next \in Queue!Step,
         Queue!TransitionRun(t, pc, target, next)
  PROVE  RowsMove /\ \E x : Becomes(t, x)
  <1>1. worker[t] \notin Queue!AtRest
    BY StepIsBusy DEF Queue!TransitionRun, Queue!Step
  <1> DEFINE r == worker[t].run
  <1>2. r \in Runs /\ run[r] \in Row /\ RowOK(run[r]) /\ Rows /\ worker[t] \in Queue!Busy
    BY <1>1, BusyFacts DEF TypeInv
  <1>3. CASE run' = [run EXCEPT ![r] = Queue!CancelledRun(run[r])] /\ Queue!Return(t)
    BY <1>1, <1>2, <1>3, CancelledRow, OneRowMoves, EndsWell
  <1>4. CASE /\ target \in Queue!TRANSITIONS[run[r].status]
             /\ run' = [run EXCEPT ![r].status = target]
             /\ worker' = [worker EXCEPT ![t].pc = next]
    <2>1. Moves(run[r], [run[r] EXCEPT !.status = target])
      BY <1>2, <1>4, AdvancedRow, SameStatuses
    <2>2. [worker[t] EXCEPT !.pc = next] \in Queue!Busy
      BY <1>2 DEF Queue!Busy
    <2>. QED
      BY <1>1, <1>2, <1>4, <2>1, <2>2, OneRowMoves, GoesOnTo
  <1>5. CASE Queue!Raise(t)
    BY <1>1, <1>2, <1>5, NoRowMoves, EndsWell DEF Queue!Raise
  <1>. QED
    BY <1>3, <1>4, <1>5 DEF Queue!TransitionRun

LEMMA HeartbeatMoves ==
  ASSUME TypeInv, NEW t \in Tasks, Queue!Heartbeat(t)
  PROVE  RowsMove /\ \E x : Becomes(t, x)
  <1>1. worker[t] \notin Queue!AtRest
    BY StepIsBusy DEF Queue!Heartbeat
  <1> DEFINE r == worker[t].run
  <1>2. r \in Runs /\ run[r] \in Row /\ RowOK(run[r]) /\ Rows /\ worker[t] \in Queue!Busy
    BY <1>1, BusyFacts DEF TypeInv
  <1>3. CASE /\ Queue!ActiveOwner(t) /\ run' = [run EXCEPT ![r].lease = TTL]
             /\ UNCHANGED worker
    <2>1. Moves(run[r], [run[r] EXCEPT !.lease = TTL])
      BY <1>2, <1>3, LeasedRow, OwnersOK DEF Queue!ActiveOwner
    <2>2. worker' = [worker EXCEPT ![t] = worker[t]]
      BY <1>3 DEF TypeInv
    <2>. QED
      BY <1>1, <1>2, <1>3, <2>1, <2>2, OneRowMoves, GoesOnTo
  <1>4. [worker[t] EXCEPT !.beat = "stopped"] \in Queue!Busy
    BY <1>2 DEF Queue!Busy
  <1>5. CASE /\ run' = [run EXCEPT ![r] = Queue!CancelledRun(run[r])]
             /\ worker' = [worker EXCEPT ![t].beat = "stopped"]
    BY <1>1, <1>2, <1>4, <1>5, CancelledRow, OneRowMoves, GoesOnTo
  <1>6. CASE run' = run /\ worker' = [worker EXCEPT ![t].beat = "stopped"]
    BY <1>1, <1>2, <1>4, <1>6, NoRowMoves, GoesOnTo
  <1>. QED
    BY <1>3, <1>5, <1>6 DEF Queue!Heartbeat

LEMMA DispatchedMoves ==
  ASSUME TypeInv, NEW t \in Tasks, Queue!Dispatched(t)
  PROVE  RowsMove /\ \E x : Becomes(t, x)
  <1>1. worker[t] \notin Queue!AtRest
    BY StepIsBusy DEF Queue!Dispatched
  <1>2. Rows /\ worker[t] \in Queue!Busy /\ run' = run
    BY <1>1, BusyFacts DEF TypeInv, Queue!Dispatched
  <1>3. CASE \E result \in {"lane", "error"} :
               worker' = [worker EXCEPT ![t].pc = "dispatched", ![t].result = result]
    <2>1. PICK result \in {"lane", "error"} :
            worker' = [worker EXCEPT ![t].pc = "dispatched", ![t].result = result]
      BY <1>3
    <2>2. [worker[t] EXCEPT !.pc = "dispatched", !.result = result] \in Queue!Busy
      BY <1>2 DEF Queue!Busy, Queue!Step
    <2>3. worker' = [worker EXCEPT ![t] =
                       [worker[t] EXCEPT !.pc = "dispatched", !.result = result]]
      BY <2>1 DEF TypeInv
    <2>. QED
      BY <1>1, <1>2, <2>2, <2>3, NoRowMoves, GoesOnTo
  <1>4. CASE Queue!Return(t)
    BY <1>1, <1>2, <1>4, NoRowMoves, EndsWell
  <1>. QED
    BY <1>3, <1>4 DEF Queue!Dispatched

LEMMA FinishRunMoves ==
  ASSUME TypeInv, NEW t \in Tasks, Queue!FinishRun(t)
  PROVE  RowsMove /\ \E x : Becomes(t, x)
  <1>1. worker[t] \notin Queue!AtRest
    BY StepIsBusy DEF Queue!FinishRun
  <1> DEFINE r == worker[t].run
  <1>2. /\ r \in Runs /\ run[r] \in Row /\ RowOK(run[r]) /\ Rows
        /\ worker[t].attempt \in 1 .. MaxAttempt
    BY <1>1, BusyFacts DEF TypeInv
  <1>3. CASE /\ \E ending \in Queue!Endings(t) :
                  run' = [run EXCEPT ![r] = Queue!FinishedRun(run[r], ending[1], ending[2])]
             /\ Queue!Return(t)
    <2>1. PICK ending \in Queue!Endings(t) :
            run' = [run EXCEPT ![r] = Queue!FinishedRun(run[r], ending[1], ending[2])]
      BY <1>3
    <2>2. ending[1] \in StatisticalOutcome /\ ending[2] \in 0 .. MaxAttempt
      <3>1. 0 \in 0 .. MaxAttempt /\ worker[t].attempt \in 0 .. MaxAttempt
        BY <1>2, OwnersOK
      <3>2. {"cancelled", "infra_failure"} \subseteq StatisticalOutcome
        BY DEF StatisticalOutcome
      <3>. QED
        BY <3>1, <3>2, DispatchAssumption DEF Queue!Endings
    <2>. QED
      BY <1>1, <1>2, <1>3, <2>1, <2>2, FinishedRow, OneRowMoves, EndsWell
  <1>4. CASE Queue!Raise(t)
    BY <1>1, <1>2, <1>4, NoRowMoves, EndsWell DEF Queue!Raise
  <1>. QED
    BY <1>3, <1>4 DEF Queue!FinishRun

LEMMA TaskMoves ==
  ASSUME TypeInv, NEW t \in Tasks, Queue!Execute(t) \/ Queue!Heartbeat(t)
  PROVE  RowsMove /\ \E x : Becomes(t, x)
  <1>1. {"claimed", "prepared", "running", "dispatched", "verified", "scored"} = Queue!Step
    BY DEF Queue!Step
  <1>. QED
    BY <1>1, TransitionMoves, HeartbeatMoves, DispatchedMoves, FinishRunMoves
       DEF Queue!Execute, Queue!Prepare, Queue!Start, Queue!Verify, Queue!Score

LEMMA ReconciledMoves ==
  ASSUME Rows, NEW locked, run' = Queue!Reconciled(locked)
  PROVE  RowsMove
  <1>1. \A r \in Runs : run'[r] = run[r] \/ run'[r] = Queue!CancelledRun(run[r])
    BY DEF Queue!Reconciled
  <1>2. \A r \in Runs : Moves(run[r], run'[r])
    BY <1>1, KeptRow, CancelledRow DEF Rows
  <1>3. run' \in [Runs -> Row]
    BY <1>2 DEF Queue!Reconciled, Moves, RowOK
  <1>. QED
    BY <1>2, <1>3 DEF RowsMove

LEMMA TickMoves ==
  ASSUME Rows, Queue!Tick
  PROVE  RowsMove
  <1>1. \A r \in Runs : Moves(run[r], run'[r])
    <2> TAKE r \in Runs
    <2>1. run[r] \in Row /\ RowOK(run[r]) /\ run[r].lease \in 0 .. TTL
      BY RowFields DEF Rows
    <2>2. run'[r] = IF run[r].lease > 0 THEN [run[r] EXCEPT !.lease = run[r].lease - 1]
                    ELSE run[r]
      BY DEF Queue!Tick
    <2>3. run[r].lease > 0 => run[r].lease - 1 \in 0 .. TTL
      BY <2>1, DispatchAssumption
    <2>. QED
      BY <2>1, <2>2, <2>3, LeasedRow, KeptRow
  <1>2. run' \in [Runs -> Row]
    BY <1>1 DEF Queue!Tick, Moves, RowOK
  <1>. QED
    BY <1>1, <1>2 DEF RowsMove

LEMMA RequestMoves ==
  ASSUME Rows, NEW r \in Runs, Queue!RequestRunCancellation(r)
  PROVE  RowsMove
  <1> DEFINE asked == [run[r] EXCEPT !.cancellation_requested = TRUE]
  <1>1. Moves(run[r], asked) /\ asked \in Row /\ RowOK(asked)
    BY AskedRow DEF Rows, Moves, RowOK
  <1>2. Moves(run[r], Queue!CancelledRun(asked))
    BY <1>1, CancelledRow, MovesTwice
  <1>3. \/ run' = [run EXCEPT ![r] = asked]
        \/ run' = [run EXCEPT ![r] = Queue!CancelledRun(asked)]
    BY DEF Queue!RequestRunCancellation, Rows
  <1>. QED
    BY <1>1, <1>2, <1>3, OneRowMoves

-----------------------------------------------------------------------------
(* The slot that is claimed next. *)

\* A set of numbers that is not empty has a least one.
LEMMA Least ==
  ASSUME NEW S, S \subseteq Nat, S # {}
  PROVE  \E n \in S : \A m \in S : n <= m
  <1>1. PICK n \in S : \A m \in S : ~(<<m, n>> \in OpToRel(<, Nat))
    BY WFMin, NatLessThanWellFounded
  <1>2. \A m \in S : ~(m < n)
    BY <1>1 DEF OpToRel
  <1>. QED
    BY <1>2

\* Blocks before the one of the next slot are represented, and so are the slots
\* before it that the coordinator was given.
LEMMA NextSlotFacts ==
  ASSUME TypeInv, NEW c \in Coordinators, Ready(c), NEW r \in NextSlot(c)
  PROVE  /\ coord[c] \in Call /\ coord[c].pc = "dispatching" /\ coord[c] # Away
         /\ r \in Runs /\ r \notin coord[c].represented /\ Capacity(c, r)
         /\ \E b \in 1 .. Len(Schedule) : \E i \in 1 .. Len(Schedule[b]) :
              /\ Schedule[b][i] = r
              /\ \A d \in 1 .. (b - 1) : SlotsOf(d) \subseteq coord[c].represented
              /\ \A j \in 1 .. (i - 1) :
                   Schedule[b][j] \in coord[c].allowed
                     => Schedule[b][j] \in coord[c].represented
  <1>1. coord[c].pc = "dispatching" /\ coord[c] # Away /\ coord[c] \in Call
    BY CallFields DEF Ready, Away
  <1> DEFINE b == FirstIncomplete(c)
             open == {i \in 1 .. Len(Schedule[b]) :
                        Schedule[b][i] \in coord[c].allowed \ coord[c].represented}
  <1>2. /\ b # 0 /\ Capacity(c, r)
        /\ r \in {Schedule[b][i] : i \in {i \in open : \A j \in open : i <= j}}
    BY DEF NextSlot
  <1>3. PICK i \in open : Schedule[b][i] = r /\ \A j \in open : i <= j
    BY <1>2
  <1>4. Incomplete(c) # {} /\ Incomplete(c) \subseteq Nat
    BY <1>2 DEF FirstIncomplete, Incomplete
  <1>5. b \in Incomplete(c) /\ \A d \in Incomplete(c) : b <= d
    <2>1. \E n \in Incomplete(c) : \A m \in Incomplete(c) : n <= m
      BY <1>4, Least
    <2>. QED
      BY <1>4, <2>1 DEF FirstIncomplete
  <1>. HIDE DEF b
  <1>6. b \in 1 .. Len(Schedule) /\ i \in 1 .. Len(Schedule[b])
    BY <1>5 DEF Incomplete
  <1>7. Len(Schedule) \in Int
    BY <1>6
  <1>8. ASSUME NEW d \in 1 .. (b - 1) PROVE SlotsOf(d) \subseteq coord[c].represented
    BY <1>5, <1>6 DEF Incomplete
  <1>9. ASSUME NEW j \in 1 .. (i - 1), Schedule[b][j] \in coord[c].allowed
        PROVE  Schedule[b][j] \in coord[c].represented
    <2>1. j \in 1 .. Len(Schedule[b]) /\ ~(i <= j)
      BY <1>6
    <2>. QED
      BY <1>3, <1>9, <2>1
  <1>10. r \in Runs /\ r \notin coord[c].represented
    BY <1>1, <1>3 DEF Call
  <1>. QED
    BY <1>1, <1>2, <1>3, <1>6, <1>8, <1>9, <1>10

-----------------------------------------------------------------------------
(* Every step keeps the invariant and the order.  Only a launch begins an   *)
(* attempt or takes a place.                                                *)

\* No attempt begins and no coordinator takes a place.
NothingBegins ==
  /\ \A r \in Runs : run'[r].attempt = run[r].attempt
  /\ \A c \in Coordinators, r \in Runs : ~Launches(c, r)

InOrder == LaterBlockWaits /\ SlotIsNext

LEMMA SlotsAreRuns ==
  ASSUME NEW b \in 1 .. Len(Schedule)
  PROVE  /\ SlotsOf(b) \subseteq Runs
         /\ \A i \in 1 .. Len(Schedule[b]) : Schedule[b][i] \in Runs
                                             /\ Schedule[b][i] \in SlotsOf(b)
  <1>1. SlotsOf(b) \subseteq UNION {SlotsOf(d) : d \in 1 .. Len(Schedule)}
    OBVIOUS
  <1>2. \A i \in 1 .. Len(Schedule[b]) : Schedule[b][i] \in SlotsOf(b)
    BY DEF SlotsOf
  <1>. QED
    BY <1>1, <1>2, DispatchAssumption

LEMMA NothingIsInOrder ==
  ASSUME Rows, NothingBegins
  PROVE  InOrder
  <1>1. \A r \in Runs : ~(run'[r].attempt > run[r].attempt)
    BY RowFields DEF NothingBegins, Rows
  <1>2. LaterBlockWaits
    BY <1>1, SlotsAreRuns DEF LaterBlockWaits
  <1>3. SlotIsNext
    BY SlotsAreRuns DEF SlotIsNext, NothingBegins
  <1>. QED
    BY <1>2, <1>3 DEF InOrder

LEMMA BegunStays ==
  ASSUME Rows, RowsMove, NEW r \in Runs, run[r].status # "QUEUED"
  PROVE  run'[r].status # "QUEUED"
  BY DEF RowsMove, Moves

\* Executions, the clock and the operator.
LEMMA CalmStep ==
  ASSUME OrderInv, RowsMove, UNCHANGED coord,
         UNCHANGED worker \/ \E t \in Tasks : \E x : Becomes(t, x)
  PROVE  OrderInv' /\ NothingBegins
  <1>0. UNCHANGED worker \/ \E t \in Tasks, x \in Execution \ {Idle} :
                               worker' = [worker EXCEPT ![t] = x]
    BY DEF Becomes
  <1>1. TypeInv'
    BY <1>0, RowsAfter DEF OrderInv, TypeInv
  <1>2. Begun'
    BY BegunStays, CallFields DEF OrderInv, TypeInv, Begun
  <1>3. PlacesAreHeld'
    <2> SUFFICES ASSUME NEW c \in Coordinators, coord[c] # Away, NEW r \in coord[c].active
                 PROVE  worker'[<<c, r>>] # Idle
      BY DEF PlacesAreHeld
    <2>1. <<c, r>> \in Tasks /\ worker[<<c, r>>] # Idle
      BY CallFields DEF Tasks, OrderInv, PlacesAreHeld
    <2>2. \A t \in Tasks : worker'[t] = worker[t] \/ worker'[t] \in Execution \ {Idle}
      BY <1>0 DEF OrderInv, TypeInv
    <2>. QED
      BY <2>1, <2>2
  <1>4. NothingBegins
    BY DEF NothingBegins, Launches, RowsMove, Moves
  <1>5. TasksHavePlaces'
    <2>1. \A t \in Tasks : worker'[t] = worker[t] \/ worker[t] \notin Queue!AtRest
      BY DEF OrderInv, TypeInv, Becomes
    <2>2. \A c \in Coordinators, r \in Runs : <<c, r>> \in Tasks
      BY DEF Tasks
    <2>. QED
      BY <2>1, <2>2 DEF OrderInv, TasksHavePlaces
  <1>. QED
    BY <1>1, <1>2, <1>3, <1>4, <1>5 DEF OrderInv

\* A coordinator leaves run.
LEMMA LeaveStep ==
  ASSUME OrderInv, RowsMove, NEW c \in Coordinators, Leave(c)
  PROVE  OrderInv' /\ NothingBegins
  <1>1. /\ \A d \in Coordinators : coord'[d] = IF d = c THEN Away ELSE coord[d]
        /\ coord' \in [Coordinators -> {Away} \cup Call]
    BY DEF Leave, OrderInv, TypeInv
  <1>2. /\ \A t \in Tasks : worker'[t] = IF t[1] = c THEN Idle ELSE worker[t]
        /\ worker' \in [Tasks -> Execution]
    BY RestFacts DEF Leave, OrderInv, TypeInv
  <1>3. Begun'
    BY <1>1, BegunStays, CallFields DEF OrderInv, TypeInv, Begun
  <1>4. PlacesAreHeld'
    <2> SUFFICES ASSUME NEW d \in Coordinators, coord'[d] # Away, NEW r \in coord'[d].active
                 PROVE  worker'[<<d, r>>] # Idle
      BY DEF PlacesAreHeld
    <2>1. d # c /\ coord'[d] = coord[d] /\ r \in Runs
      BY <1>1, CallFields DEF OrderInv
    <2>2. <<d, r>> \in Tasks /\ <<d, r>>[1] # c
      BY <2>1 DEF Tasks
    <2>. QED
      BY <1>2, <2>1, <2>2 DEF OrderInv, PlacesAreHeld
  <1>5. NothingBegins
    BY <1>1 DEF NothingBegins, Launches, RowsMove, Moves
  <1>6. TasksHavePlaces'
    <2> SUFFICES ASSUME NEW d \in Coordinators, NEW r \in Runs,
                        worker'[<<d, r>>] \notin Queue!AtRest
                 PROVE  coord'[d] # Away /\ r \in coord'[d].active
      BY DEF TasksHavePlaces
    <2>1. <<d, r>> \in Tasks /\ <<d, r>>[1] = d
      BY DEF Tasks
    <2>2. d # c /\ worker'[<<d, r>>] = worker[<<d, r>>]
      BY <1>2, <2>1, RestFacts DEF Idle
    <2>. QED
      BY <1>1, <2>2 DEF OrderInv, TasksHavePlaces
  <1>. QED
    BY <1>1, <1>2, <1>3, <1>4, <1>5, <1>6, RowsAfter DEF OrderInv, TypeInv

LEMMA ResumeStep ==
  ASSUME OrderInv, NEW c \in Coordinators, NEW locked, NEW allowed \in SUBSET Runs,
         Resume(c, allowed, locked)
  PROVE  OrderInv' /\ NothingBegins
  <1>1. RowsMove /\ coord[c] = Away /\ worker' = worker
    BY ReconciledMoves DEF Resume, OrderInv, TypeInv
  <1> DEFINE call == [pc |-> "dispatching", represented |-> Terminal(run'),
                      active |-> {}, allowed |-> allowed]
  <1>2. CASE UNCHANGED coord
    BY <1>1, <1>2, CalmStep
  <1>3. CASE coord' = [coord EXCEPT ![c] = call]
    <2>1. call \in Call
      BY DEF Call, Terminal
    <2>2. /\ \A d \in Coordinators : coord'[d] = IF d = c THEN call ELSE coord[d]
          /\ coord' \in [Coordinators -> {Away} \cup Call]
      BY <1>3, <2>1 DEF OrderInv, TypeInv
    <2>3. \A r \in Terminal(run') : run'[r].status # "QUEUED"
      BY DEF Terminal, TERMINAL_STATUSES
    <2>4. Begun'
      BY <1>1, <2>2, <2>3, BegunStays, CallFields DEF OrderInv, TypeInv, Begun
    <2>5. PlacesAreHeld'
      BY <1>1, <2>2 DEF OrderInv, PlacesAreHeld
    <2>6. NothingBegins
      BY <1>1, <2>2 DEF NothingBegins, Launches, RowsMove, Moves
    <2>7. TasksHavePlaces'
      BY <1>1, <2>2 DEF OrderInv, TasksHavePlaces
    <2>. QED
      BY <1>1, <2>2, <2>4, <2>5, <2>6, <2>7, RowsAfter DEF OrderInv, TypeInv
  <1>. QED
    BY <1>2, <1>3 DEF Resume

\* What a launch of slot r does to the rows, the task and the call.
Launched(c, r, pc, locked) ==
  /\ Ready(c) /\ r \in Runs
  /\ run[r].attempt < MaxAttempt
  /\ run' = [Queue!Reconciled(locked) EXCEPT
               ![r] = Queue!ClaimedRun(run[r], OwnerOf[c])]
  /\ worker' = [worker EXCEPT ![<<c, r>>] =
       [pc |-> "claimed", run |-> r,
        attempt |-> Queue!ClaimedRun(run[r], OwnerOf[c]).attempt,
        beat |-> "ok", result |-> "none"]]
  /\ coord' = [coord EXCEPT ![c] =
       [pc |-> pc, represented |-> @.represented \cup {r},
        active |-> @.active \cup {r}, allowed |-> @.allowed]]

LEMMA LaunchFacts ==
  ASSUME TypeInv, NEW c \in Coordinators, NEW locked, Launch(c, locked)
  PROVE  \E r \in NextSlot(c), pc \in {"dispatching", "draining"} : Launched(c, r, pc, locked)
  <1>1. PICK r \in NextSlot(c) :
          /\ Queue!Claimable({r}) \ locked # {}
          /\ Queue!ClaimNextRun(<<c, r>>, {r}, locked)
          /\ \E pc \in {"dispatching", "draining"} :
             coord' = [coord EXCEPT ![c] =
                [pc |-> pc, represented |-> @.represented \cup {r},
                 active |-> @.active \cup {r}, allowed |-> @.allowed]]
    BY DEF Launch, TypeInv
  <1>2. r \in Runs /\ Ready(c)
    BY NextSlotFacts DEF Launch
  <1>3. <<c, r>> \in Tasks /\ <<c, r>>[1] = c
    BY <1>2 DEF Tasks
  <1>4. Queue!Claimable({r}) \subseteq {r} /\ \A q \in Queue!Claimable({r}) : run[q].attempt < MaxAttempt
    BY DEF Queue!Claimable
  <1>5. PICK q \in Queue!Claimable({r}) \ locked :
          /\ run' = [Queue!Reconciled(locked) EXCEPT
                       ![q] = Queue!ClaimedRun(run[q], OwnerOf[c])]
          /\ worker' = [worker EXCEPT ![<<c, r>>] =
               [pc |-> "claimed", run |-> q,
                attempt |-> Queue!ClaimedRun(run[q], OwnerOf[c]).attempt,
                beat |-> "ok", result |-> "none"]]
    BY <1>1, <1>3 DEF Queue!ClaimNextRun
  <1>6. q = r
    BY <1>4, <1>5
  <1>. QED
    BY <1>1, <1>2, <1>4, <1>5, <1>6 DEF Launched

LEMMA LaunchStep ==
  ASSUME OrderInv, NEW c \in Coordinators, NEW locked, Launch(c, locked)
  PROVE  OrderInv' /\ InOrder
  <1>0. TypeInv
    BY DEF OrderInv
  <1>1. PICK r \in NextSlot(c), pc \in {"dispatching", "draining"} : Launched(c, r, pc, locked)
    BY <1>0, LaunchFacts
  <1>. USE DEF Launched
  <1>2. Rows /\ run[r] \in Row /\ RowOK(run[r])
    BY <1>1 DEF OrderInv, TypeInv, Rows
  <1> DEFINE claimed == Queue!ClaimedRun(run[r], OwnerOf[c])
             task == [pc |-> "claimed", run |-> r, attempt |-> claimed.attempt,
                      beat |-> "ok", result |-> "none"]
             call == [pc |-> pc, represented |-> coord[c].represented \cup {r},
                      active |-> coord[c].active \cup {r}, allowed |-> coord[c].allowed]
  <1>3. /\ RowOK(claimed) /\ claimed.status = "CLAIMED" /\ claimed.attempt = run[r].attempt + 1
        /\ claimed.attempt \in 1 .. MaxAttempt
    <2>1. OwnerOf[c] \in Queue!LeaseOwner
      BY <1>1, OwnersOK DEF Tasks
    <2>. QED
      BY <1>1, <1>2, <2>1, ClaimedRow
  <1>4. task \in Queue!Busy
    BY <1>1, <1>3 DEF Queue!Busy, Queue!Step, Queue!AttemptNumber
  <1>5. coord[c] \in Call /\ coord[c] # Away
    BY <1>1, NextSlotFacts DEF OrderInv
  <1>6. /\ call \in Call /\ call # Away
        /\ call.represented = coord[c].represented \cup {r}
        /\ call.active = coord[c].active \cup {r} /\ call.allowed = coord[c].allowed
    <2>1. call \in Call
      BY <1>1, <1>5 DEF Call
    <2>. QED
      BY <1>5, <2>1, AwayIsNoCall DEF Call
  <1>. HIDE DEF claimed, task, call
  <1>7. \A q \in Runs : IF q = r THEN run'[q] = claimed ELSE Moves(run[q], run'[q])
    <2>1. \A q \in Runs : Queue!Reconciled(locked)[q] \in {run[q], Queue!CancelledRun(run[q])}
      BY DEF Queue!Reconciled
    <2>2. \A q \in Runs : Moves(run[q], Queue!Reconciled(locked)[q])
      BY <1>2, <2>1, KeptRow, CancelledRow DEF Rows
    <2>3. \A q \in Runs : run'[q] = IF q = r THEN claimed ELSE Queue!Reconciled(locked)[q]
      BY <1>1 DEF claimed, Queue!Reconciled
    <2>. QED
      BY <2>2, <2>3
  <1>8. run' \in [Runs -> Row] /\ Rows'
    <2>1. \A q \in Runs : RowOK(run'[q])
      BY <1>3, <1>7 DEF Moves
    <2>2. run' = [q \in Runs |-> run'[q]]
      BY <1>1 DEF Queue!Reconciled
    <2>. QED
      BY <2>1, <2>2 DEF Rows, RowOK
  <1>9. /\ \A d \in Coordinators : coord'[d] = IF d = c THEN call ELSE coord[d]
        /\ coord' \in [Coordinators -> {Away} \cup Call]
    <2>1. coord' = [coord EXCEPT ![c] = call]
      BY <1>1 DEF call
    <2>. QED
      BY <1>6, <2>1 DEF OrderInv, TypeInv
  <1>10. /\ \A t \in Tasks : worker'[t] = IF t = <<c, r>> THEN task ELSE worker[t]
         /\ worker' \in [Tasks -> Execution]
    BY <1>1, <1>4, RestFacts DEF OrderInv, TypeInv, task, claimed
  <1>11. \A q \in Runs : run[q].status # "QUEUED" => run'[q].status # "QUEUED"
    BY <1>3, <1>7 DEF Moves
  <1>12. run'[r].status # "QUEUED"
    BY <1>1, <1>3, <1>7
  <1>13. Begun'
    <2> SUFFICES ASSUME NEW d \in Coordinators, coord'[d] # Away,
                        NEW q \in coord'[d].represented
                 PROVE  run'[q].status # "QUEUED"
      BY DEF Begun
    <2>1. q = r \/ (coord[d] # Away /\ q \in coord[d].represented)
      BY <1>5, <1>6, <1>9
    <2>2. coord[d] # Away /\ q \in coord[d].represented => q \in Runs /\ run[q].status # "QUEUED"
      BY CallFields DEF OrderInv, Begun
    <2>. QED
      BY <1>11, <1>12, <2>1, <2>2
  <1>14. PlacesAreHeld'
    <2> SUFFICES ASSUME NEW d \in Coordinators, coord'[d] # Away, NEW q \in coord'[d].active
                 PROVE  worker'[<<d, q>>] # Idle
      BY DEF PlacesAreHeld
    <2>1. q \in Runs /\ <<d, q>> \in Tasks
      BY <1>9 DEF Call, Tasks
    <2>2. <<d, q>> = <<c, r>> \/ (coord[d] # Away /\ q \in coord[d].active)
      BY <1>5, <1>6, <1>9
    <2>. QED
      BY <1>4, <1>10, <2>1, <2>2, RestFacts DEF OrderInv, PlacesAreHeld
  <1>15a. PICK b \in 1 .. Len(Schedule) : \E i \in 1 .. Len(Schedule[b]) :
           /\ Schedule[b][i] = r
           /\ \A d \in 1 .. (b - 1) : SlotsOf(d) \subseteq coord[c].represented
           /\ \A j \in 1 .. (i - 1) :
                Schedule[b][j] \in coord[c].allowed => Schedule[b][j] \in coord[c].represented
    BY <1>1, NextSlotFacts DEF OrderInv
  <1>15. PICK i \in 1 .. Len(Schedule[b]) :
           /\ Schedule[b][i] = r
           /\ \A d \in 1 .. (b - 1) : SlotsOf(d) \subseteq coord[c].represented
           /\ \A j \in 1 .. (i - 1) :
                Schedule[b][j] \in coord[c].allowed => Schedule[b][j] \in coord[c].represented
    BY <1>15a
  <1>16. \A q \in coord[c].represented : run'[q].status # "QUEUED"
    BY <1>5, <1>11, CallFields DEF OrderInv, Begun
  <1>17. LaterBlockWaits
    <2> SUFFICES ASSUME NEW e \in 1 .. Len(Schedule), NEW p \in SlotsOf(e),
                        run'[p].attempt > run[p].attempt,
                        NEW d \in 1 .. (e - 1), NEW q \in SlotsOf(d)
                 PROVE  run'[q].status # "QUEUED"
      BY DEF LaterBlockWaits
    <2>1. p \in Runs
      BY SlotsAreRuns
    <2>2. p = r
      BY <1>2, <1>7, <2>1, RowFields DEF Moves, Rows
    <2>3. e = b
      BY <1>15, <2>2, DispatchAssumption DEF SlotsOf
    <2>. QED
      BY <1>15, <1>16, <2>3
  <1>18. SlotIsNext
    <2> SUFFICES ASSUME NEW d \in Coordinators, NEW e \in 1 .. Len(Schedule),
                        NEW k \in 1 .. Len(Schedule[e]), Launches(d, Schedule[e][k]),
                        NEW j \in 1 .. (k - 1), Schedule[e][j] \in coord[d].allowed
                 PROVE  run'[Schedule[e][j]].status # "QUEUED"
      BY DEF SlotIsNext
    <2>1. d = c /\ Schedule[e][k] = r
      BY <1>6, <1>9 DEF Launches
    <2>2. e = b /\ k = i
      BY <1>15, <2>1, DispatchAssumption
    <2>. QED
      BY <1>15, <1>16, <2>1, <2>2
  <1>19. TasksHavePlaces'
    <2> SUFFICES ASSUME NEW d \in Coordinators, NEW q \in Runs,
                        worker'[<<d, q>>] \notin Queue!AtRest
                 PROVE  coord'[d] # Away /\ q \in coord'[d].active
      BY DEF TasksHavePlaces
    <2>1. <<d, q>> \in Tasks
      BY DEF Tasks
    <2>2. CASE d = c /\ q = r
      BY <1>6, <1>9, <2>2
    <2>3. CASE ~(d = c /\ q = r)
      <3>1. coord[d] # Away /\ q \in coord[d].active
        BY <1>10, <2>1, <2>3 DEF OrderInv, TasksHavePlaces
      <3>. QED
        BY <1>6, <1>9, <3>1
    <2>. QED
      BY <2>2, <2>3
  <1>. QED
    BY <1>8, <1>9, <1>10, <1>13, <1>14, <1>17, <1>18, <1>19 DEF OrderInv, TypeInv, InOrder

LEMMA FinishStep ==
  ASSUME OrderInv, NEW c \in Coordinators, FinishOne(c)
  PROVE  OrderInv' /\ NothingBegins
  <1>1. RowsMove /\ coord[c] # Away /\ coord[c] \in Call
    BY NoRowMoves, CallFields DEF OrderInv, TypeInv, FinishOne
  <1>2. CASE Leave(c)
    BY <1>1, <1>2, LeaveStep
  <1>3. CASE /\ coord' = [coord EXCEPT ![c].active = StillActive(c)]
             /\ worker' = [t \in Tasks |->
                  IF t[1] = c /\ t[2] \in Ended(c) THEN Idle ELSE worker[t]]
    <2> DEFINE call == [coord[c] EXCEPT !.active = StillActive(c)]
    <2>1. /\ call \in Call /\ call.represented = coord[c].represented
          /\ call.active = coord[c].active \ Ended(c)
      BY <1>1 DEF Call, StillActive
    <2>2. /\ \A d \in Coordinators : coord'[d] = IF d = c THEN call ELSE coord[d]
          /\ coord' \in [Coordinators -> {Away} \cup Call]
      BY <1>3, <2>1 DEF OrderInv, TypeInv
    <2>. HIDE DEF call
    <2>3. worker' \in [Tasks -> Execution]
      BY <1>3, RestFacts DEF OrderInv, TypeInv
    <2>4. Begun'
      BY <1>1, <2>1, <2>2, BegunStays, CallFields DEF OrderInv, TypeInv, Begun
    <2>5. PlacesAreHeld'
      <3> SUFFICES ASSUME NEW d \in Coordinators, coord'[d] # Away, NEW q \in coord'[d].active
                   PROVE  worker'[<<d, q>>] # Idle
        BY DEF PlacesAreHeld
      <3>1. coord[d] # Away /\ q \in coord[d].active /\ (d = c => q \notin Ended(c))
        BY <1>1, <2>1, <2>2
      <3>2. <<d, q>> \in Tasks /\ <<d, q>>[1] = d /\ <<d, q>>[2] = q
        BY <3>1, CallFields DEF OrderInv, Tasks
      <3>. QED
        BY <1>3, <3>1, <3>2 DEF OrderInv, PlacesAreHeld
    <2>6. NothingBegins
      BY <1>1, <2>1, <2>2 DEF NothingBegins, Launches, RowsMove, Moves
    <2>7. TasksHavePlaces'
      <3> SUFFICES ASSUME NEW d \in Coordinators, NEW q \in Runs,
                          worker'[<<d, q>>] \notin Queue!AtRest
                   PROVE  coord'[d] # Away /\ q \in coord'[d].active
        BY DEF TasksHavePlaces
      <3>1. <<d, q>> \in Tasks /\ <<d, q>>[1] = d /\ <<d, q>>[2] = q
        BY DEF Tasks
      <3>2. (d = c => q \notin Ended(c)) /\ worker'[<<d, q>>] = worker[<<d, q>>]
        BY <1>3, <3>1, RestFacts DEF Idle
      <3>3. coord[d] # Away /\ q \in coord[d].active
        BY <3>2 DEF OrderInv, TasksHavePlaces
      <3>. QED
        BY <1>1, <2>1, <2>2, <3>2, <3>3, AwayIsNoCall
    <2>. QED
      BY <1>1, <2>2, <2>3, <2>4, <2>5, <2>6, <2>7, RowsAfter DEF OrderInv, TypeInv
  <1>. QED
    BY <1>2, <1>3 DEF FinishOne

LEMMA FailStep ==
  ASSUME OrderInv, NEW t \in Tasks, Fail(t)
  PROVE  OrderInv' /\ NothingBegins
  <1>1. RowsMove
    BY NoRowMoves DEF Fail, OrderInv, TypeInv
  <1>2. Becomes(t, [pc |-> "raised"])
    BY RestFacts DEF Fail, Becomes
  <1>3. UNCHANGED coord
    BY DEF Fail
  <1>. QED
    BY <1>1, <1>2, <1>3, CalmStep

\* The deployment at hand is one of those considered.
Deployed == deployment \in Deployments

\* Whoever calls run is one of the coordinators, with slots of the plan.
LEMMA CallsAreDeployed ==
  ASSUME Deployed, NEW call \in deployment
  PROVE  call[1] \in Coordinators /\ call[2] \in SUBSET Runs
  BY DispatchAssumption DEF Deployed

\* The steps of a coordinator, one at a time.
LEMMA CoordinateSteps ==
  ASSUME Deployed, NEW c \in Coordinators, Coordinate(c)
  PROVE  \/ \E allowed \in SUBSET Runs : \E locked : Resume(c, allowed, locked)
         \/ \E locked : Launch(c, locked) \/ LoseClaim(c, locked)
         \/ FinishOne(c) \/ Return(c) \/ Crash(c)
  <1>1. ASSUME NEW call \in deployment, NEW locked, call[1] = c, Resume(c, call[2], locked)
        PROVE  \E allowed \in SUBSET Runs : \E other : Resume(c, allowed, other)
    BY <1>1, CallsAreDeployed
  <1>. QED
    BY <1>1 DEF Coordinate

LEMMA NextStep ==
  ASSUME OrderInv, Deployed, [Next]_vars
  PROVE  OrderInv' /\ InOrder
  <1>1. Rows /\ TypeInv
    BY DEF OrderInv, TypeInv
  <1>2. CASE UNCHANGED vars
    <2>1. OrderInv' /\ NothingBegins
      BY <1>1, <1>2, NoRowMoves, CalmStep DEF vars
    <2>. QED
      BY <1>1, <2>1, NothingIsInOrder
  <1>3. ASSUME NEW c \in Coordinators, Coordinate(c) PROVE OrderInv' /\ InOrder
    <2>1. ASSUME NEW locked, NEW allowed \in SUBSET Runs, Resume(c, allowed, locked)
          PROVE  OrderInv' /\ InOrder
      BY <1>1, <2>1, ResumeStep, NothingIsInOrder
    <2>2. ASSUME NEW locked, Launch(c, locked) PROVE OrderInv' /\ InOrder
      BY <2>2, LaunchStep
    <2>3. ASSUME NEW locked, LoseClaim(c, locked) PROVE OrderInv' /\ InOrder
      BY <1>1, <2>3, ReconciledMoves, LeaveStep, NothingIsInOrder DEF LoseClaim
    <2>4. CASE FinishOne(c)
      BY <1>1, <2>4, FinishStep, NothingIsInOrder
    <2>5. CASE Return(c) \/ Crash(c)
      BY <1>1, <2>5, NoRowMoves, LeaveStep, NothingIsInOrder DEF Return, Crash
    <2>. QED
      BY <1>3, <2>1, <2>2, <2>3, <2>4, <2>5, CoordinateSteps
  <1>4. ASSUME NEW t \in Tasks, Task(t) PROVE OrderInv' /\ InOrder
    BY <1>1, <1>4, TaskMoves, CalmStep, NothingIsInOrder DEF Task
  <1>5. ASSUME NEW t \in Tasks, Fail(t) PROVE OrderInv' /\ InOrder
    BY <1>1, <1>5, FailStep, NothingIsInOrder
  <1>6. CASE Queue!Tick /\ UNCHANGED coord
    <2>1. worker' = worker
      BY <1>6 DEF Queue!Tick
    <2>. QED
      BY <1>1, <1>6, <2>1, TickMoves, CalmStep, NothingIsInOrder
  <1>7. ASSUME NEW r \in Runs, Queue!RequestRunCancellation(r), UNCHANGED coord
        PROVE  OrderInv' /\ InOrder
    <2>1. worker' = worker
      BY <1>7 DEF Queue!RequestRunCancellation
    <2>. QED
      BY <1>1, <1>7, <2>1, RequestMoves, CalmStep, NothingIsInOrder
  <1>. QED
    BY <1>2, <1>3, <1>4, <1>5, <1>6, <1>7, DispatchAssumption DEF Next

LEMMA InitOrder == Init => OrderInv
  <1> SUFFICES ASSUME Init PROVE OrderInv
    OBVIOUS
  <1>1. \A r \in Runs : RowOK(run[r]) /\ run[r] \in Row
    BY RowType, OwnersOK DEF Init, Queue!Init, RowOK, RunStatus
  <1>2. run \in [Runs -> Row]
    BY <1>1 DEF Init, Queue!Init
  <1>3. worker \in [Tasks -> Execution]
    BY RestFacts DEF Init, Queue!Init
  <1>4. \A c \in Coordinators : coord[c] = Away
    BY DEF Init
  <1>5. coord \in [Coordinators -> {Away} \cup Call]
    BY DEF Init
  <1>6. TasksHavePlaces
    <2>1. \A c \in Coordinators, r \in Runs : worker[<<c, r>>] = Idle
      BY DEF Init, Queue!Init, Tasks, Idle
    <2>. QED
      BY <2>1, RestFacts DEF TasksHavePlaces, Idle
  <1>. QED
    BY <1>1, <1>2, <1>3, <1>4, <1>5, <1>6 DEF OrderInv, TypeInv, Rows, Begun, PlacesAreHeld

LEMMA OrderInvariant == Spec => [](OrderInv /\ Deployed)
  <1>1. Init => Deployed
    BY DEF Init, Deployed
  <1>2. Deployed /\ [Next]_vars => Deployed'
    BY DEF Next, vars, Deployed
  <1>3. OrderInv /\ Deployed /\ [Next]_vars => OrderInv'
    BY NextStep
  <1>. QED
    BY InitOrder, <1>1, <1>2, <1>3, PTL DEF Spec

\* run in dispatch.py never waits for a place that nobody can give back: every
\* place a coordinator has taken belongs to a task under way or to one that has
\* ended and can be collected.
THEOREM PlacesHeld == Spec => []PlacesAreHeld
  <1>1. OrderInv => PlacesAreHeld
    BY DEF OrderInv
  <1>. QED
    BY <1>1, OrderInvariant, PTL

\* "A later block may begin only after all seven slots of the current block are
\* durably represented": for any number of coordinators, crashes and restarts, no
\* attempt begins while a slot of an earlier block is still queued.
THEOREM BlocksInOrder == Spec => LaterBlocksWait
  <1>1. OrderInv /\ Deployed /\ [Next]_vars => [LaterBlockWaits]_vars
    BY NextStep DEF InOrder
  <1>. QED
    BY <1>1, OrderInvariant, PTL DEF Spec, LaterBlocksWait

\* "It no longer skips to a later slot in the block": next_slot claims the slots
\* it was given in the frozen order, whatever finishes, fails or restarts first.
THEOREM SlotsInOrder == Spec => FrozenOrder
  <1>1. OrderInv /\ Deployed /\ [Next]_vars => [SlotIsNext]_vars
    BY NextStep DEF InOrder
  <1>. QED
    BY <1>1, OrderInvariant, PTL DEF Spec, FrozenOrder

-----------------------------------------------------------------------------
(* The caps. *)

\* The slots in S fit under every cap.
CapsOf(S) ==
  /\ Cardinality(S) <= GlobalConcurrency
  /\ \A l \in {"direct", "harness"} :
       Cardinality({r \in S : LaneClass[r] = l}) <= LaneCap[l]
  /\ \A r \in Runs :
       Cardinality({q \in S : Provider[q] = Provider[r]}) <= ProviderCap[Provider[r]]

Raised == [pc |-> "raised"]

\* Task t has failed and is still to be noticed, or it drives the attempt of its
\* slot, whether or not its heartbeat goes on.
Holds(t) ==
  \/ worker[t] = Raised
  \/ /\ worker[t] \in Queue!Busy
     /\ worker[t].run = t[2]
     /\ worker[t].attempt = run[t[2]].attempt
     /\ run[t[2]].lease_owner = OwnerOf[t[1]]

\* The live leases of c that no execution has left behind.
Charged(c) == Leased(c) \ unattended

\* An unattended lease stays one as long as it lives.
StaysUnattended ==
  \A r \in Runs : r \in unattended /\ run'[r].lease > 0 => r \in unattended'

\* A coordinator under way has a place, and a task, for each of those leases.
PlaceFor(c, r) ==
  coord[c] # Away /\ r \in Charged(c) => r \in coord[c].active /\ Holds(<<c, r>>)

CapsOfOne(c) ==
  /\ CapsOf(Charged(c))
  /\ coord[c] # Away => CapsOf(coord[c].active)
  /\ \A r \in Runs : PlaceFor(c, r)

CapInv == OrderInv /\ Deployed /\ \A c \in Coordinators : CapsOfOne(c)

\* Every coordinator has an owner identity of its own.
DistinctOwners == \A c, d \in Coordinators : OwnerOf[c] = OwnerOf[d] => c = d

LEMMA CapsShrink ==
  ASSUME NEW S, NEW T, S \subseteq T, T \subseteq Runs, CapsOf(T)
  PROVE  CapsOf(S)
  <1>1. ASSUME NEW A, NEW B, A \subseteq B, B \subseteq Runs, NEW n \in Nat, Cardinality(B) <= n
        PROVE  Cardinality(A) <= n
    <2>1. IsFiniteSet(B)
      BY <1>1, FS_Subset, DispatchAssumption
    <2>2. IsFiniteSet(A) /\ Cardinality(A) <= Cardinality(B)
      BY <1>1, <2>1, FS_Subset
    <2>. QED
      BY <1>1, <2>1, <2>2, FS_CardinalityType
  <1>2. Cardinality(S) <= GlobalConcurrency
    BY <1>1, DispatchAssumption DEF CapsOf
  <1>3. ASSUME NEW l \in {"direct", "harness"}
        PROVE  Cardinality({r \in S : LaneClass[r] = l}) <= LaneCap[l]
    <2>1. LaneCap[l] \in Nat
      BY DispatchAssumption
    <2>. QED
      BY <1>1, <2>1 DEF CapsOf
  <1>4. ASSUME NEW r \in Runs
        PROVE  Cardinality({q \in S : Provider[q] = Provider[r]}) <= ProviderCap[Provider[r]]
    <2>1. ProviderCap[Provider[r]] \in Nat
      BY DispatchAssumption
    <2>. QED
      BY <1>1, <2>1 DEF CapsOf
  <1>. QED
    BY <1>2, <1>3, <1>4 DEF CapsOf

LEMMA NoneFits == CapsOf({})
  <1>1. Cardinality({}) = 0 /\ \A l : {r \in {} : LaneClass[r] = l} = {}
        /\ \A p : {q \in {} : Provider[q] = p} = {}
    BY FS_EmptySet
  <1>2. GlobalConcurrency \in Nat /\ \A l \in {"direct", "harness"} : LaneCap[l] \in Nat
    BY DispatchAssumption
  <1>3. \A r \in Runs : ProviderCap[Provider[r]] \in Nat
    BY DispatchAssumption
  <1>. QED
    BY <1>1, <1>2, <1>3 DEF CapsOf

\* One more slot, under a limit that is not reached.
LEMMA OneMore ==
  ASSUME NEW S, S \subseteq Runs, NEW r, NEW n \in Nat, Cardinality(S) < n
  PROVE  Cardinality(S \cup {r}) <= n
  <1>1. IsFiniteSet(S) /\ Cardinality(S) \in Nat
    BY FS_Subset, FS_CardinalityType, DispatchAssumption
  <1>2. Cardinality(S \cup {r}) \in {Cardinality(S), Cardinality(S) + 1}
    BY <1>1, FS_AddElement
  <1>. QED
    BY <1>1, <1>2

LEMMA CapsGrow ==
  ASSUME NEW c \in Coordinators, NEW r \in Runs, coord[c].active \subseteq Runs,
         CapsOf(coord[c].active), Capacity(c, r)
  PROVE  CapsOf(coord[c].active \cup {r})
  <1> DEFINE active == coord[c].active
             lane(S, l) == {q \in S : LaneClass[q] = l}
             provider(S, p) == {q \in S : Provider[q] = p}
  <1>1. Cardinality(active \cup {r}) <= GlobalConcurrency
    BY OneMore, DispatchAssumption DEF Capacity
  <1>2. ASSUME NEW l \in {"direct", "harness"}
        PROVE  Cardinality(lane(active \cup {r}, l)) <= LaneCap[l]
    <2>1. CASE l = LaneClass[r]
      <3>1. lane(active \cup {r}, l) = lane(active, l) \cup {r}
        BY <2>1
      <3>2. Cardinality(lane(active, l)) < LaneCap[l] /\ LaneCap[l] \in Nat
        BY <2>1, DispatchAssumption DEF Capacity
      <3>3. lane(active, l) \subseteq Runs
        OBVIOUS
      <3>. HIDE DEF active, lane
      <3>. QED
        BY <3>1, <3>2, <3>3, OneMore
    <2>2. CASE l # LaneClass[r]
      <3>1. lane(active \cup {r}, l) = lane(active, l)
        BY <2>2
      <3>. QED
        BY <3>1 DEF CapsOf
    <2>. QED
      BY <2>1, <2>2
  <1>3. ASSUME NEW s \in Runs
        PROVE  Cardinality(provider(active \cup {r}, Provider[s])) <= ProviderCap[Provider[s]]
    <2>1. CASE Provider[s] = Provider[r]
      <3>1. provider(active \cup {r}, Provider[s]) = provider(active, Provider[s]) \cup {r}
        BY <2>1
      <3>2. /\ Cardinality(provider(active, Provider[s])) < ProviderCap[Provider[s]]
            /\ ProviderCap[Provider[s]] \in Nat
        BY <2>1, DispatchAssumption DEF Capacity
      <3>3. provider(active, Provider[s]) \subseteq Runs
        OBVIOUS
      <3>. HIDE DEF active, provider
      <3>. QED
        BY <3>1, <3>2, <3>3, OneMore
    <2>2. CASE Provider[s] # Provider[r]
      <3>1. provider(active \cup {r}, Provider[s]) = provider(active, Provider[s])
        BY <2>2
      <3>. QED
        BY <3>1 DEF CapsOf
    <2>. QED
      BY <2>1, <2>2
  <1>. QED
    BY <1>1, <1>2, <1>3 DEF CapsOf

LEMMA ObserveStays ==
  ASSUME unattended' = Unattended \/ UNCHANGED unattended
  PROVE  StaysUnattended
  BY DEF StaysUnattended, Unattended

\* The leases of a coordinator only end while their rows move.
LEMMA LeasesEnd ==
  ASSUME NEW c \in Coordinators, CapsOf(Charged(c)), StaysUnattended,
         \A r \in Charged(c)' : Moves(run[r], run'[r])
  PROVE  Charged(c)' \subseteq Charged(c) /\ CapsOf(Charged(c))'
  <1>1. Charged(c)' \subseteq Charged(c) /\ Charged(c) \subseteq Runs
    BY DEF Charged, Leased, Moves, StaysUnattended
  <1>2. CapsOf(Charged(c)')
    BY <1>1, CapsShrink
  <1>. QED
    BY <1>1, <1>2 DEF CapsOf

LEMMA HoldsStill ==
  ASSUME NEW t \in Tasks, Holds(t), worker'[t] = worker[t], run'[t[2]].lease > 0,
         Moves(run[t[2]], run'[t[2]])
  PROVE  Holds(t)'
  BY DEF Moves, Holds

\* A task keeps its lease, or goes on under it, or fails: when it returns before
\* the lease has ended, the lease is unattended.
LEMMA TaskHolds ==
  ASSUME TypeInv, NEW t \in Tasks, Task(t), Holds(t), run[t[2]].lease > 0,
         run'[t[2]].lease > 0, unattended' = Unattended, t[2] \notin unattended'
  PROVE  Holds(t)'
  <1>1. worker[t] \notin Queue!AtRest
    <2>1. CASE \E pc, target, next : Queue!TransitionRun(t, pc, target, next)
                                     /\ pc \in {"claimed", "prepared", "dispatched", "verified"}
      BY <2>1, StepIsBusy DEF Queue!TransitionRun
    <2>2. CASE Queue!Dispatched(t) \/ Queue!FinishRun(t) \/ Queue!Heartbeat(t)
      <3>1. worker[t].pc \in {"running", "scored"}
        BY <2>2 DEF Queue!Dispatched, Queue!FinishRun, Queue!Heartbeat
      <3>. QED
        BY <3>1, StepIsBusy
    <2>. QED
      BY <2>1, <2>2
         DEF Task, Queue!Execute, Queue!Prepare, Queue!Start, Queue!Verify, Queue!Score
  <1> DEFINE r == t[2]
  <1>2. /\ r \in Runs /\ run[r] \in Row /\ RowOK(run[r]) /\ Rows
        /\ worker[t] \in Queue!Busy /\ worker[t].run = r
        /\ worker[t].attempt = run[r].attempt /\ run[r].lease_owner = OwnerOf[t[1]]
    BY <1>1, BusyFacts, RestFacts DEF TypeInv, Holds, Raised
  <1>3. Queue!ActiveOwner(t) /\ run[r].status \in Queue!ACTIVE_STATUSES
    BY <1>2, SameStatuses DEF Queue!ActiveOwner, RowOK
  <1>4. run' = [run EXCEPT ![r] = Queue!CancelledRun(run[r])] => FALSE
    BY <1>2, CancelledRow DEF Rows
  <1>5. CASE Queue!Raise(t)
    BY <1>2, <1>5 DEF Queue!Raise, Holds, Raised, TypeInv
  <1>6. ASSUME NEW x \in Queue!Busy, x.run = r, x.attempt = worker[t].attempt,
               worker' = [worker EXCEPT ![t] = x],
               run'[r].attempt = run[r].attempt, run'[r].lease_owner = run[r].lease_owner
        PROVE  Holds(t)'
    BY <1>2, <1>6 DEF Holds, TypeInv
  <1>7. ASSUME NEW pc, NEW target, NEW next \in Queue!Step, Queue!TransitionRun(t, pc, target, next)
        PROVE  Holds(t)'
    <2>1. CASE run' = [run EXCEPT ![r].status = target] /\ worker' = [worker EXCEPT ![t].pc = next]
      <3> DEFINE x == [worker[t] EXCEPT !.pc = next]
      <3>1. x \in Queue!Busy /\ x.run = r /\ x.attempt = worker[t].attempt
        BY <1>2 DEF Queue!Busy
      <3>2. /\ worker' = [worker EXCEPT ![t] = x]
            /\ run'[r].attempt = run[r].attempt /\ run'[r].lease_owner = run[r].lease_owner
        BY <1>2, <2>1, RowType DEF Rows
      <3>. HIDE DEF x
      <3>. QED
        BY <1>6, <3>1, <3>2
    <2>. QED
      BY <1>2, <1>4, <1>5, <1>7, <2>1 DEF Queue!TransitionRun
  <1>8. CASE Queue!Heartbeat(t)
    <2>1. CASE run' = [run EXCEPT ![r].lease = TTL] /\ worker' = worker
      BY <1>2, <2>1, RowType DEF Rows, Holds
    <2>2. CASE run' = run /\ worker' = [worker EXCEPT ![t].beat = "stopped"]
      <3> DEFINE x == [worker[t] EXCEPT !.beat = "stopped"]
      <3>1. x \in Queue!Busy /\ x.run = r /\ x.attempt = worker[t].attempt
        BY <1>2 DEF Queue!Busy
      <3>2. worker' = [worker EXCEPT ![t] = x]
        BY <2>2
      <3>. HIDE DEF x
      <3>. QED
        BY <1>6, <2>2, <3>1, <3>2
    <2>. QED
      BY <1>2, <1>4, <1>8, <2>1, <2>2 DEF Queue!Heartbeat
  <1>12. \E c \in Coordinators : t = <<c, r>>
    BY DEF Tasks
  <1>13. ~Queue!Return(t)
    <2> SUFFICES ASSUME Queue!Return(t) PROVE FALSE
      OBVIOUS
    <2>1. worker'[t].pc = "returned"
      BY <1>2 DEF Queue!Return, TypeInv
    <2>2. \E c \in Coordinators : LeavesLease(<<c, r>>)
      BY <1>1, <1>2, <1>12, <2>1 DEF LeavesLease
    <2>. QED
      BY <1>2, <2>2 DEF Unattended
  <1>9. CASE Queue!Dispatched(t)
    <2>1. PICK result \in {"lane", "error"} :
            worker' = [worker EXCEPT ![t].pc = "dispatched", ![t].result = result]
      BY <1>9, <1>13 DEF Queue!Dispatched
    <2> DEFINE x == [worker[t] EXCEPT !.pc = "dispatched", !.result = result]
    <2>2. x \in Queue!Busy /\ x.run = r /\ x.attempt = worker[t].attempt
      BY <1>2 DEF Queue!Busy, Queue!Step
    <2>3. worker' = [worker EXCEPT ![t] = x] /\ run' = run
      BY <1>9, <2>1 DEF TypeInv, Queue!Dispatched
    <2>. HIDE DEF x
    <2>. QED
      BY <1>6, <2>2, <2>3
  <1>10. CASE Queue!FinishRun(t)
    <2>1. ASSUME NEW ending \in Queue!Endings(t),
                 run' = [run EXCEPT ![r] = Queue!FinishedRun(run[r], ending[1], ending[2])]
          PROVE  FALSE
      <3>1. run'[r] = Queue!FinishedRun(run[r], ending[1], ending[2])
        BY <1>2, <2>1 DEF Rows
      <3>2. run'[r].lease = 0
        BY <1>2, <3>1, RowType DEF Queue!FinishedRun, Queue!LeaseCleared
      <3>. QED
        BY <3>2
    <2>. QED
      BY <1>2, <1>5, <1>10, <2>1 DEF Queue!FinishRun
  <1>11. {"claimed", "prepared", "running", "dispatched", "verified", "scored"} = Queue!Step
    BY DEF Queue!Step
  <1>. QED
    BY <1>7, <1>8, <1>9, <1>10, <1>11
       DEF Task, Queue!Execute, Queue!Prepare, Queue!Start, Queue!Verify, Queue!Score

-----------------------------------------------------------------------------
(* Every step keeps CapInv: first the coordinators whose call it leaves alone. *)

LEMMA SameCallCaps ==
  ASSUME CapInv, StaysUnattended, NEW d \in Coordinators, coord'[d] = coord[d],
         \A r \in Charged(d)' : Moves(run[r], run'[r]),
         \A r \in Charged(d)' : coord[d] # Away /\ r \in Charged(d) /\ Holds(<<d, r>>)
                                 => Holds(<<d, r>>)'
  PROVE  CapsOfOne(d)'
  <1>1. CapsOfOne(d)
    BY DEF CapInv
  <1>2. Charged(d)' \subseteq Charged(d) /\ CapsOf(Charged(d))'
    BY <1>1, LeasesEnd DEF CapsOfOne
  <1>3. (coord[d] # Away => CapsOf(coord[d].active))'
    BY <1>1 DEF CapsOfOne, CapsOf
  <1>4. ASSUME NEW r \in Runs PROVE PlaceFor(d, r)'
    BY <1>1, <1>2 DEF CapsOfOne, PlaceFor
  <1>. QED
    BY <1>2, <1>3, <1>4 DEF CapsOfOne

\* Another coordinator whose tasks do not step.
LEMMA OthersKeepCaps ==
  ASSUME CapInv, StaysUnattended, NEW d \in Coordinators, coord'[d] = coord[d],
         \A r \in Runs : worker'[<<d, r>>] = worker[<<d, r>>],
         \A r \in Charged(d)' : Moves(run[r], run'[r])
  PROVE  CapsOfOne(d)'
  <1>1. ASSUME NEW r \in Charged(d)', Holds(<<d, r>>)
        PROVE  Holds(<<d, r>>)'
    <2>1. r \in Runs /\ <<d, r>> \in Tasks /\ <<d, r>>[2] = r /\ run'[r].lease > 0
      BY DEF Charged, Leased, Tasks
    <2>. QED
      BY <1>1, <2>1, HoldsStill
  <1>. QED
    BY <1>1, SameCallCaps

LEMMA AllMove ==
  ASSUME RowsMove, NEW d \in Coordinators
  PROVE  \A r \in Charged(d)' : Moves(run[r], run'[r])
  BY DEF RowsMove, Charged, Leased

\* Steps that leave the calls alone and every task that holds a lease with it.
LEMMA CalmCaps ==
  ASSUME CapInv, OrderInv', Deployed', StaysUnattended, RowsMove, UNCHANGED coord,
         \A c \in Coordinators : \A r \in coord[c].active :
           /\ coord[c] # Away /\ run[r].lease > 0 /\ Holds(<<c, r>>)
           /\ run'[r].lease > 0 /\ r \notin unattended'
           => Holds(<<c, r>>)'
  PROVE  CapInv'
  <1>1. ASSUME NEW c \in Coordinators PROVE CapsOfOne(c)'
    <2>1. ASSUME NEW r \in Charged(c)', coord[c] # Away, r \in Charged(c), Holds(<<c, r>>)
          PROVE  Holds(<<c, r>>)'
      <3>1. /\ r \in coord[c].active /\ run[r].lease > 0 /\ run'[r].lease > 0
            /\ r \notin unattended'
        BY <2>1 DEF CapInv, CapsOfOne, PlaceFor, Charged, Leased
      <3>. QED
        BY <2>1, <3>1
    <2>. QED
      BY <2>1, SameCallCaps, AllMove
  <1>. QED
    BY <1>1 DEF CapInv

\* A coordinator that is away afterwards has no places to account for.
LEMMA AwayCaps ==
  ASSUME CapInv, StaysUnattended, RowsMove, NEW c \in Coordinators, coord'[c] = Away
  PROVE  CapsOfOne(c)'
  <1>1. CapsOf(Charged(c))'
    BY LeasesEnd, AllMove DEF CapInv, CapsOfOne
  <1>. QED
    BY <1>1 DEF CapsOfOne, PlaceFor

LEMMA LeaveCaps ==
  ASSUME CapInv, OrderInv', Deployed', StaysUnattended, RowsMove, NEW c \in Coordinators, Leave(c)
  PROVE  CapInv'
  <1>1. ASSUME NEW d \in Coordinators, d # c PROVE CapsOfOne(d)'
    <2>1. coord'[d] = coord[d]
      BY <1>1 DEF Leave, CapInv, OrderInv, TypeInv
    <2>2. \A r \in Runs : worker'[<<d, r>>] = worker[<<d, r>>]
      BY <1>1 DEF Leave, Tasks
    <2>. QED
      BY <2>1, <2>2, OthersKeepCaps, AllMove
  <1>2. coord'[c] = Away
    BY DEF Leave, CapInv, OrderInv, TypeInv
  <1>. QED
    BY <1>1, <1>2, AwayCaps DEF CapInv

LEMMA ResumeCaps ==
  ASSUME CapInv, OrderInv', Deployed', StaysUnattended, NEW c \in Coordinators, NEW allowed, NEW locked,
         Resume(c, allowed, locked)
  PROVE  CapInv'
  <1>0. TypeInv
    BY DEF CapInv, OrderInv
  <1>1. RowsMove /\ coord[c] = Away /\ worker' = worker
    BY <1>0, ReconciledMoves DEF Resume, TypeInv
  <1>2. ASSUME NEW d \in Coordinators, coord'[d] = coord[d] PROVE CapsOfOne(d)'
    BY <1>1, <1>2, OthersKeepCaps, AllMove
  <1>3. \A d \in Coordinators : d # c => coord'[d] = coord[d]
    BY <1>0 DEF Resume, TypeInv
  <1>4. CASE UNCHANGED coord
    BY <1>2, <1>4 DEF CapInv
  <1>5. CASE Live(run') = {} /\ coord' # coord
    <2>1. Charged(c)' = {}
      <3>1. \A r \in Runs : RowOK(run'[r])
        BY <1>1 DEF RowsMove, Moves
      <3>. QED
        BY <1>5, <3>1 DEF Charged, Leased, RowOK, Live
    <2>2. coord'[c].active = {}
      BY <1>0, <1>1, <1>5 DEF Resume, TypeInv
    <2>3. CapsOf(Charged(c))' /\ CapsOf(coord[c].active)'
      BY <2>1, <2>2, NoneFits DEF CapsOf
    <2>4. CapsOfOne(c)'
      BY <2>1, <2>3 DEF CapsOfOne, PlaceFor
    <2>. QED
      BY <1>2, <1>3, <2>4 DEF CapInv
  <1>. QED
    BY <1>4, <1>5 DEF Resume

\* A lease of another coordinator that the claim takes over is not its own any more.
LEMMA LaunchCaps ==
  ASSUME DistinctOwners, CapInv, OrderInv', Deployed', StaysUnattended, NEW c \in Coordinators, NEW locked,
         Launch(c, locked)
  PROVE  CapInv'
  <1>0. TypeInv /\ Rows
    BY DEF CapInv, OrderInv, TypeInv
  <1>1. PICK r \in NextSlot(c), pc \in {"dispatching", "draining"} : Launched(c, r, pc, locked)
    BY <1>0, LaunchFacts
  <1>. USE DEF Launched
  <1>2. coord[c] # Away /\ coord[c].active \subseteq Runs /\ Capacity(c, r)
    BY <1>0, <1>1, NextSlotFacts, CallFields
  <1>3. /\ coord'[c].active = coord[c].active \cup {r}
        /\ \A d \in Coordinators : d # c => coord'[d] = coord[d]
    BY <1>0, <1>1 DEF TypeInv
  <1>4. CapsOf(coord'[c].active)
    BY <1>1, <1>2, <1>3, CapsGrow DEF CapInv, CapsOfOne
  <1>5. \A q \in Runs \ {r} : Moves(run[q], run'[q])
    <2> TAKE q \in Runs \ {r}
    <2>1. run'[q] \in {run[q], Queue!CancelledRun(run[q])}
      BY <1>1 DEF Queue!Reconciled
    <2>. QED
      BY <1>0, <2>1, KeptRow, CancelledRow DEF Rows
  <1> DEFINE claimed == Queue!ClaimedRun(run[r], OwnerOf[c])
             task == [pc |-> "claimed", run |-> r, attempt |-> claimed.attempt,
                      beat |-> "ok", result |-> "none"]
  <1>6. <<c, r>> \in Tasks /\ <<c, r>>[1] = c /\ <<c, r>>[2] = r
    BY <1>1 DEF Tasks
  <1>7. /\ run'[r] = claimed
        /\ claimed.attempt \in 1 .. MaxAttempt /\ claimed.lease_owner = OwnerOf[c]
    BY <1>0, <1>1, <1>6, OwnersOK, ClaimedRow DEF Rows, Queue!Reconciled
  <1>8. \A t \in Tasks : worker'[t] = IF t = <<c, r>> THEN task ELSE worker[t]
    BY <1>0, <1>1, <1>6 DEF TypeInv
  <1>9. task \in Queue!Busy /\ task.run = r /\ task.beat = "ok" /\ task.attempt = claimed.attempt
    BY <1>1, <1>7 DEF Queue!Busy, Queue!Step, Queue!AttemptNumber
  <1>. HIDE DEF claimed, task
  <1>10. ASSUME NEW q \in Charged(c)'
         PROVE  q \in coord'[c].active /\ Holds(<<c, q>>)'
    <2>0. q \in Runs /\ run'[q].lease > 0 /\ run'[q].lease_owner = OwnerOf[c]
      BY DEF Charged, Leased
    <2>1. CASE q = r
      BY <1>3, <1>6, <1>7, <1>8, <1>9, <2>1 DEF Holds
    <2>2. CASE q # r
      <3>1. Moves(run[q], run'[q]) /\ q \in Charged(c)
        BY <1>5, <2>0, <2>2 DEF Moves, Charged, Leased, StaysUnattended
      <3>2. q \in coord[c].active /\ Holds(<<c, q>>)
        BY <1>2, <2>0, <3>1 DEF CapInv, CapsOfOne, PlaceFor
      <3>3. /\ <<c, q>> \in Tasks /\ <<c, q>> # <<c, r>> /\ <<c, q>>[2] = q
        BY <2>0, <2>2 DEF Tasks
      <3>. QED
        BY <1>3, <1>8, <2>0, <3>1, <3>2, <3>3, HoldsStill
    <2>. QED
      BY <2>1, <2>2
  <1>11. CapsOf(Charged(c))'
    <2>1. Charged(c)' \subseteq coord'[c].active /\ coord'[c].active \subseteq Runs
      BY <1>1, <1>2, <1>3, <1>10
    <2>2. CapsOf(Charged(c)')
      BY <1>4, <2>1, CapsShrink
    <2>. QED
      BY <2>2 DEF CapsOf
  <1>12. CapsOf(coord[c].active)'
    BY <1>4 DEF CapsOf
  <1>13. CapsOfOne(c)'
    BY <1>10, <1>11, <1>12 DEF CapsOfOne, PlaceFor
  <1>14. ASSUME NEW d \in Coordinators, d # c PROVE CapsOfOne(d)'
    <2>1. r \notin Charged(d)' /\ Charged(d)' \subseteq Runs
      BY <1>7, <1>14 DEF Charged, Leased, DistinctOwners
    <2>2. \A q \in Charged(d)' : Moves(run[q], run'[q])
      BY <1>5, <2>1
    <2>3. \A q \in Runs : <<d, q>> \in Tasks /\ <<d, q>> # <<c, r>>
      BY <1>14 DEF Tasks
    <2>. QED
      BY <1>3, <1>8, <1>14, <2>2, <2>3, OthersKeepCaps
  <1>. QED
    BY <1>13, <1>14 DEF CapInv

\* Whatever task has returned, its lease has ended before or is unattended: its
\* place is free.
LEMMA FinishCaps ==
  ASSUME CapInv, OrderInv', Deployed', StaysUnattended, NEW c \in Coordinators, FinishOne(c)
  PROVE  CapInv'
  <1>0. TypeInv /\ Rows
    BY DEF CapInv, OrderInv, TypeInv
  <1>1. RowsMove /\ run' = run /\ coord[c] # Away /\ coord[c].active \subseteq Runs
    BY <1>0, NoRowMoves, CallFields DEF FinishOne
  <1>2. CASE Leave(c)
    BY <1>1, <1>2, LeaveCaps
  <1>3. CASE /\ ~\E r \in Ended(c) : worker[<<c, r>>].pc = "raised"
             /\ coord' = [coord EXCEPT ![c].active = StillActive(c)]
             /\ worker' = [t \in Tasks |->
                  IF t[1] = c /\ t[2] \in Ended(c) THEN Idle ELSE worker[t]]
    <2>1. coord'[c].active = coord[c].active \ Ended(c)
      BY <1>0, <1>1, <1>3, CallFields DEF StillActive, TypeInv, Call
    <2>2. CapsOf(coord'[c].active)
      BY <1>1, <2>1, CapsShrink DEF CapInv, CapsOfOne
    <2>3. ASSUME NEW r \in Charged(c)'
          PROVE  r \in coord'[c].active /\ Holds(<<c, r>>)'
      <3>1. r \in Runs /\ r \in Charged(c)
        BY <1>1 DEF Charged, Leased, StaysUnattended
      <3>2. r \in coord[c].active /\ Holds(<<c, r>>)
        BY <1>1, <3>1 DEF CapInv, CapsOfOne, PlaceFor
      <3>3. r \notin Ended(c)
        <4>1. CASE worker[<<c, r>>] = Raised
          BY <1>3, <4>1 DEF Raised
        <4>2. CASE worker[<<c, r>>] \in Queue!Busy
          BY <4>2 DEF Ended, Queue!Busy, Queue!Step
        <4>. QED
          BY <3>2, <4>1, <4>2 DEF Holds
      <3>4. <<c, r>> \in Tasks /\ <<c, r>>[1] = c /\ <<c, r>>[2] = r
        BY <3>1 DEF Tasks
      <3>5. worker'[<<c, r>>] = worker[<<c, r>>]
        BY <1>3, <3>3, <3>4
      <3>. QED
        BY <1>1, <2>1, <3>2, <3>3, <3>5 DEF Holds
    <2>4. CapsOf(Charged(c))'
      BY <1>1, LeasesEnd, AllMove DEF CapInv, CapsOfOne
    <2>5. CapsOf(coord[c].active)'
      BY <2>2 DEF CapsOf
    <2>6. CapsOfOne(c)'
      BY <2>3, <2>4, <2>5 DEF CapsOfOne, PlaceFor
    <2>7. ASSUME NEW d \in Coordinators, d # c PROVE CapsOfOne(d)'
      <3>1. coord'[d] = coord[d]
        BY <1>0, <1>3, <2>7 DEF TypeInv
      <3>2. \A r \in Runs : worker'[<<d, r>>] = worker[<<d, r>>]
        BY <1>3, <2>7 DEF Tasks
      <3>. QED
        BY <1>1, <3>1, <3>2, OthersKeepCaps, AllMove
    <2>. QED
      BY <2>6, <2>7 DEF CapInv
  <1>. QED
    BY <1>2, <1>3 DEF FinishOne

LEMMA TaskCaps ==
  ASSUME CapInv, OrderInv', Deployed', StaysUnattended, NEW t \in Tasks, Task(t) \/ Fail(t),
         unattended' = Unattended
  PROVE  CapInv'
  <1>0. TypeInv /\ Rows
    BY DEF CapInv, OrderInv, TypeInv
  <1>1. /\ RowsMove /\ UNCHANGED coord
        /\ \A u \in Tasks : u # t => worker'[u] = worker[u]
    BY <1>0, TaskMoves, NoRowMoves DEF Task, Fail, Becomes, TypeInv
  <1>2. ASSUME NEW c \in Coordinators, coord[c] # Away, NEW r \in coord[c].active,
               run[r].lease > 0, Holds(<<c, r>>), run'[r].lease > 0, r \notin unattended'
        PROVE  Holds(<<c, r>>)'
    <2>1. <<c, r>> \in Tasks /\ <<c, r>>[2] = r /\ Moves(run[r], run'[r])
      BY <1>0, <1>1, <1>2, CallFields DEF Tasks, RowsMove
    <2>2. CASE <<c, r>> # t
      BY <1>1, <1>2, <2>1, <2>2, HoldsStill
    <2>3. CASE <<c, r>> = t /\ Task(t)
      BY <1>0, <1>2, <2>1, <2>3, TaskHolds
    <2>4. CASE <<c, r>> = t /\ Fail(t)
      BY <1>0, <2>1, <2>4 DEF Fail, Holds, Raised, TypeInv
    <2>. QED
      BY <2>2, <2>3, <2>4
  <1>. QED
    BY <1>1, <1>2, CalmCaps

LEMMA CapStep ==
  ASSUME DistinctOwners, CapInv, [Next]_vars
  PROVE  CapInv'
  <1>1. Rows /\ TypeInv /\ OrderInv' /\ Deployed' /\ StaysUnattended
    BY NextStep, ObserveStays DEF CapInv, OrderInv, TypeInv, Deployed, Next, vars
  <1>2. ASSUME RowsMove, UNCHANGED <<coord, worker>> PROVE CapInv'
    <2>1. ASSUME NEW c \in Coordinators, coord[c] # Away, NEW r \in coord[c].active,
                 Holds(<<c, r>>), run'[r].lease > 0
          PROVE  Holds(<<c, r>>)'
      <3>1. <<c, r>> \in Tasks /\ <<c, r>>[2] = r /\ Moves(run[r], run'[r])
        BY <1>1, <1>2, <2>1, CallFields DEF Tasks, RowsMove
      <3>. QED
        BY <1>2, <2>1, <3>1, HoldsStill
    <2>. QED
      BY <1>1, <1>2, <2>1, CalmCaps
  <1>3. CASE UNCHANGED vars
    BY <1>1, <1>2, <1>3, NoRowMoves DEF vars
  <1>4. ASSUME NEW c \in Coordinators, Coordinate(c) PROVE CapInv'
    <2>1. ASSUME RowsMove, Leave(c) PROVE CapInv'
      BY <1>1, <2>1, LeaveCaps
    <2>2. ASSUME NEW locked, NEW allowed \in SUBSET Runs, Resume(c, allowed, locked)
          PROVE  CapInv'
      BY <1>1, <2>2, ResumeCaps
    <2>3. ASSUME NEW locked, Launch(c, locked) PROVE CapInv'
      BY <1>1, <2>3, LaunchCaps
    <2>4. ASSUME NEW locked, LoseClaim(c, locked) PROVE CapInv'
      BY <1>1, <2>1, <2>4, ReconciledMoves DEF LoseClaim
    <2>5. CASE FinishOne(c)
      BY <1>1, <2>5, FinishCaps
    <2>6. CASE Return(c) \/ Crash(c)
      BY <1>1, <2>1, <2>6, NoRowMoves DEF Return, Crash
    <2>. QED
      BY <1>4, <2>2, <2>3, <2>4, <2>5, <2>6, CoordinateSteps DEF CapInv
  <1>5. ASSUME NEW t \in Tasks, Task(t) \/ Fail(t), unattended' = Unattended PROVE CapInv'
    BY <1>1, <1>5, TaskCaps
  <1>6. CASE Queue!Tick /\ UNCHANGED coord
    BY <1>1, <1>2, <1>6, TickMoves DEF Queue!Tick
  <1>7. ASSUME NEW r \in Runs, Queue!RequestRunCancellation(r), UNCHANGED coord
        PROVE  CapInv'
    BY <1>1, <1>2, <1>7, RequestMoves DEF Queue!RequestRunCancellation
  <1>. QED
    BY <1>3, <1>4, <1>5, <1>6, <1>7, DispatchAssumption DEF Next

LEMMA InitCaps == Init => CapInv
  <1> SUFFICES ASSUME Init PROVE CapInv
    OBVIOUS
  <1>1. \A r \in Runs : run[r].lease = 0
    BY DEF Init, Queue!Init
  <1>2. \A c \in Coordinators : Charged(c) = {} /\ coord[c] = Away
    BY <1>1 DEF Charged, Leased, Init
  <1>. QED
    BY <1>2, InitOrder, NoneFits DEF CapInv, CapsOfOne, PlaceFor, Deployed, Init

\* What a coordinator occupies: its charged leases, and its tasks, which have places.
LEMMA OccupiedFits ==
  ASSUME CapInv, NEW c \in Coordinators
  PROVE  CapsOf(Occupied(c))
  <1> DEFINE underWay == {r \in Runs : worker[<<c, r>>] \notin Queue!AtRest}
  <1>1. Occupied(c) = underWay \cup Charged(c) /\ Charged(c) \subseteq Runs
    BY DEF Occupied, Charged, Leased
  <1>2. coord[c] # Away => underWay \subseteq coord[c].active
    BY DEF CapInv, OrderInv, TasksHavePlaces
  <1>3. coord[c] = Away => underWay = {}
    BY DEF CapInv, OrderInv, TasksHavePlaces
  <1>. HIDE DEF underWay
  <1>4. CASE coord[c] = Away
    <2>1. Occupied(c) = Charged(c)
      BY <1>1, <1>3, <1>4
    <2>. QED
      BY <2>1 DEF CapInv, CapsOfOne
  <1>5. CASE coord[c] # Away
    <2>1. coord[c].active \subseteq Runs /\ CapsOf(coord[c].active)
      BY <1>5, CallFields DEF CapInv, CapsOfOne, OrderInv
    <2>2. Charged(c) \subseteq coord[c].active
      BY <1>1, <1>5 DEF CapInv, CapsOfOne, PlaceFor
    <2>. QED
      BY <1>1, <1>2, <1>5, <2>1, <2>2, CapsShrink
  <1>. QED
    BY <1>4, <1>5

\* "Fixed global, lane, and provider caps are enforced before exact-slot claims":
\* the executions of a coordinator and its live leases never pass a cap, through
\* lost leases, crashes, aborts and resumes and whatever the other coordinators do;
\* left out are leases whose execution returned after a failed heartbeat.
THEOREM CapsKept ==
  ASSUME DistinctOwners
  PROVE  Spec => []LiveWithinCaps
  <1>1. CapInv /\ [Next]_vars => CapInv'
    BY CapStep
  <1>2. CapInv => LiveWithinCaps
    BY OccupiedFits DEF CapsOf, LiveWithinCaps
  <1>. QED
    BY InitCaps, <1>1, <1>2, PTL DEF Spec

-----------------------------------------------------------------------------
(* The caps of the whole plan. *)

\* What the plan occupies: slots with an execution under way or a lease that no
\* execution has left behind.
PlanOccupied ==
  {r \in Runs : \/ \E t \in Tasks : t[2] = r /\ worker[t] \notin Queue!AtRest
                \/ run[r].lease > 0 /\ r \notin unattended}

\* Every live lease is one of the coordinators'.
Owned ==
  \A r \in Runs : run[r].lease > 0 => \E c \in Coordinators : r \in Leased(c)

LEMMA OwnedStep ==
  ASSUME OrderInv, Deployed, Owned, [Next]_vars
  PROVE  Owned'
  <1>1. Rows /\ TypeInv
    BY DEF OrderInv, TypeInv
  <1>2. ASSUME RowsMove PROVE Owned'
    <2> SUFFICES ASSUME NEW r \in Runs, run'[r].lease > 0
                 PROVE  \E c \in Coordinators : r \in Leased(c)'
      BY DEF Owned
    <2>1. Moves(run[r], run'[r])
      BY <1>2 DEF RowsMove
    <2>2. PICK c \in Coordinators : r \in Leased(c)
      BY <2>1 DEF Moves, Owned
    <2>. QED
      BY <2>1, <2>2 DEF Moves, Leased
  <1>3. CASE UNCHANGED vars
    BY <1>1, <1>2, <1>3, NoRowMoves DEF vars
  <1>4. ASSUME NEW c \in Coordinators, NEW locked, Launch(c, locked) PROVE Owned'
    <2>1. PICK r \in NextSlot(c), pc \in {"dispatching", "draining"} : Launched(c, r, pc, locked)
      BY <1>1, <1>4, LaunchFacts
    <2>2. r \in Runs /\ run[r] \in Row /\ RowOK(run[r]) /\ OwnerOf[c] \in Queue!LeaseOwner
          /\ run[r].attempt < MaxAttempt
      BY <1>1, <2>1, OwnersOK DEF Launched, Tasks, Rows, Queue!LeaseOwner
    <2>3. run'[r].lease_owner = OwnerOf[c]
      <3>1. run'[r] = Queue!ClaimedRun(run[r], OwnerOf[c])
        BY <2>1, <2>2 DEF Launched, Queue!Reconciled
      <3>. QED
        BY <2>2, <3>1, ClaimedRow
    <2>4. ASSUME NEW q \in Runs, q # r, run'[q].lease > 0
          PROVE  \E d \in Coordinators : q \in Leased(d)'
      <3>1. run'[q] \in {run[q], Queue!CancelledRun(run[q])}
        BY <2>1, <2>4 DEF Launched, Queue!Reconciled
      <3>2. Moves(run[q], run'[q])
        BY <1>1, <3>1, KeptRow, CancelledRow DEF Rows
      <3>3. PICK d \in Coordinators : q \in Leased(d)
        BY <2>4, <3>2 DEF Moves, Owned
      <3>. QED
        BY <2>4, <3>2, <3>3 DEF Moves, Leased
    <2>5. run'[r].lease > 0 => \E d \in Coordinators : r \in Leased(d)'
      BY <2>2, <2>3 DEF Leased
    <2>. QED
      BY <2>4, <2>5 DEF Owned
  <1>5. ASSUME NEW c \in Coordinators, Coordinate(c) PROVE Owned'
    <2>1. ASSUME NEW locked, NEW allowed, Resume(c, allowed, locked) PROVE Owned'
      BY <1>1, <1>2, <2>1, ReconciledMoves DEF Resume
    <2>2. ASSUME NEW locked, LoseClaim(c, locked) PROVE Owned'
      BY <1>1, <1>2, <2>2, ReconciledMoves DEF LoseClaim
    <2>3. CASE FinishOne(c) \/ Return(c) \/ Crash(c)
      BY <1>1, <1>2, <2>3, NoRowMoves DEF FinishOne, Return, Crash
    <2>. QED
      BY <1>4, <1>5, <2>1, <2>2, <2>3, CoordinateSteps
  <1>6. ASSUME NEW t \in Tasks, Task(t) \/ Fail(t) PROVE Owned'
    BY <1>1, <1>2, <1>6, TaskMoves, NoRowMoves DEF Task, Fail
  <1>7. CASE Queue!Tick
    BY <1>1, <1>2, <1>7, TickMoves
  <1>8. ASSUME NEW r \in Runs, Queue!RequestRunCancellation(r) PROVE Owned'
    BY <1>1, <1>2, <1>8, RequestMoves
  <1>. QED
    BY <1>3, <1>5, <1>6, <1>7, <1>8, DispatchAssumption DEF Next

\* A single process dispatches the plan: then the executions under way and the
\* live leases of the whole plan, except those whose execution returned after a
\* failed heartbeat, never pass a cap, whatever its earlier calls have left behind.
THEOREM PlanWithinCaps ==
  ASSUME NEW c, Coordinators = {c}
  PROVE  Spec => [](CapsOf(PlanOccupied))
  <1>1. DistinctOwners
    BY DEF DistinctOwners
  <1>2. Init => Owned
    BY DEF Init, Queue!Init, Owned
  <1>3. OrderInv /\ Deployed /\ Owned /\ [Next]_vars => Owned'
    BY OwnedStep
  <1>4. LiveWithinCaps /\ Owned => CapsOf(PlanOccupied)
    <2> SUFFICES ASSUME LiveWithinCaps, Owned PROVE CapsOf(PlanOccupied)
      OBVIOUS
    <2>1. PlanOccupied \subseteq Occupied(c) /\ Occupied(c) \subseteq Runs
      <3>1. ASSUME NEW r \in Runs, NEW t \in Tasks, t[2] = r, worker[t] \notin Queue!AtRest
            PROVE  worker[<<c, r>>] \notin Queue!AtRest
        BY <3>1 DEF Tasks
      <3>. QED
        BY <3>1 DEF PlanOccupied, Owned, Occupied, Leased
    <2>2. CapsOf(Occupied(c))
      BY DEF LiveWithinCaps, CapsOf
    <2>. QED
      BY <2>1, <2>2, CapsShrink
  <1>. QED
    BY <1>1, <1>2, <1>3, <1>4, OrderInvariant, CapsKept, PTL DEF Spec
=============================================================================
