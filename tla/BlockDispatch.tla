---------------------------- MODULE BlockDispatch ----------------------------
(***************************************************************************)
(* BlockAwareDispatcher (experiment/dispatch.py): coordinators that hand   *)
(* the slots of a methodology-v2 plan to executions in the frozen block    *)
(* order under fixed capacities.  The rows, the exact-slot claims and the  *)
(* executions are those of RunQueue; the task a coordinator starts for a   *)
(* slot is the execution <<coordinator, slot>>.                            *)
(***************************************************************************)
EXTENDS Naturals, FiniteSets, Sequences, Lifecycle

CONSTANTS
  Runs, NoOwner, TTL, MaxAttempt, LaneOutcomes,  \* see RunQueue
  Coordinators,       \* processes that dispatch the plan
  OwnerOf,            \* OwnerOf[c]: the lease owner identity of c
  Schedule,           \* schedule_blocks: a sequence of sequences of slots
  UnavailableBlocks,  \* indexes of blocks whose provider is unavailable
  LaneClass,          \* LaneClass[r]: "direct" or "harness"
  Provider,           \* Provider[r]: the provider family of r
  GlobalConcurrency, LaneCap, ProviderCap,   \* the DispatchProfile
  Cancellable,        \* bound: the slots whose cancellation may be requested
  Deployments         \* a deployment: which coordinators call run, and with what
                      \* slot_ids, as pairs <<coordinator, set of slots>>

Tasks == Coordinators \X Runs
SlotsOf(b) == {Schedule[b][i] : i \in 1 .. Len(Schedule[b])}

ASSUME DispatchAssumption ==
  /\ IsFiniteSet(Runs) /\ NoOwner \notin {OwnerOf[c] : c \in Coordinators}
  /\ TTL \in Nat \ {0} /\ MaxAttempt \in Nat \ {0} /\ LaneOutcomes \subseteq StatisticalOutcome
  /\ UNION {SlotsOf(b) : b \in 1 .. Len(Schedule)} = Runs
  \* A plan schedules a slot once.
  /\ \A b, d \in 1 .. Len(Schedule) : \A i \in 1 .. Len(Schedule[b]), j \in 1 .. Len(Schedule[d]) :
       Schedule[b][i] = Schedule[d][j] => b = d /\ i = j
  /\ UnavailableBlocks \subseteq 1 .. Len(Schedule)
  /\ LaneClass \in [Runs -> {"direct", "harness"}]
  /\ GlobalConcurrency \in Nat \ {0}
  /\ \A l \in {"direct", "harness"} : LaneCap[l] \in 1 .. GlobalConcurrency
  /\ \A r \in Runs : ProviderCap[Provider[r]] \in 1 .. GlobalConcurrency
  /\ Cancellable \subseteq Runs
  /\ Deployments \subseteq SUBSET (Coordinators \X SUBSET Runs)

VARIABLES
  run, worker,   \* see RunQueue
  coord,         \* coord[c]: the call of run that coordinator c is in
  deployment,    \* the deployment at hand, which stays what it is
  unattended     \* slots whose execution returned while its lease goes on
                 \* (observed, not stored)

vars == <<run, worker, coord, deployment, unattended>>

Queue ==
  INSTANCE RunQueue WITH
    Workers <- Tasks, Owner <- [t \in Tasks |-> OwnerOf[t[1]]],
    SchemaVersion <- 2,
    Unavailable <- UNION {SlotsOf(b) : b \in UnavailableBlocks}

\* A coordinator outside run, or in it: [pc, represented, active, allowed], with
\* the fields of the BlockDispatchCoordinator and of run; "draining" once max_runs
\* slots have been launched.
Away == [pc |-> "away"]

Init ==
  /\ Queue!Init /\ coord = [c \in Coordinators |-> Away]
  /\ deployment \in Deployments
  /\ unattended = {}

-----------------------------------------------------------------------------
Idle == [pc |-> "idle"]

\* run is left: a raise cancels and awaits every task of the coordinator.
Leave(c) ==
  /\ coord' = [coord EXCEPT ![c] = Away]
  /\ worker' = [t \in Tasks |-> IF t[1] = c THEN Idle ELSE worker[t]]

\* Mutant: another coordinator's leases are not looked at.
Live_Nobody(rows) == {}

\* Rows whose lease somebody still holds.
Live(rows) == {r \in Runs : rows[r].status \in ACTIVE_STATUSES /\ rows[r].lease > 0}

Terminal(rows) == {r \in Runs : rows[r].status \in TERMINAL_STATUSES}

\* run begins: _resume_state reconciles abandoned cancellations and reads the
\* terminal slots; a live lease is an error.
Resume(c, allowed, locked) ==
  /\ coord[c] = Away
  /\ run' = Queue!Reconciled(locked)
  /\ IF Live(run') # {}
     THEN UNCHANGED coord
     ELSE coord' = [coord EXCEPT ![c] =
                      [pc |-> "dispatching", represented |-> Terminal(run'),
                       active |-> {}, allowed |-> allowed]]
  /\ UNCHANGED worker

(* next_slot: the first slot of the first incomplete block, if capacity.    *)

Incomplete(c) == {b \in 1 .. Len(Schedule) : SlotsOf(b) \ coord[c].represented # {}}

\* Mutant: the index is off by one.
FirstIncomplete_OffByOne(c) ==
  LET first == IF Incomplete(c) = {} THEN 0
               ELSE CHOOSE b \in Incomplete(c) : \A d \in Incomplete(c) : b <= d
  IN IF first \in 1 .. (Len(Schedule) - 1) THEN first + 1 ELSE first

\* _first_incomplete_block_index; 0 when every block is represented.
FirstIncomplete(c) ==
  IF Incomplete(c) = {} THEN 0
  ELSE CHOOSE b \in Incomplete(c) : \A d \in Incomplete(c) : b <= d

\* The global, lane and provider limits leave room for r.
Capacity(c, r) ==
  LET active == coord[c].active IN
  /\ Cardinality(active) < GlobalConcurrency
  /\ Cardinality({q \in active : LaneClass[q] = LaneClass[r]}) < LaneCap[LaneClass[r]]
  /\ Cardinality({q \in active : Provider[q] = Provider[r]}) < ProviderCap[Provider[r]]

\* Mutant: a capped slot is skipped for a later one of the block.
NextSlot_SkipsCapped(c) ==
  LET b == FirstIncomplete(c)
      open == {i \in 1 .. Len(Schedule[b]) :
                 /\ Schedule[b][i] \in coord[c].allowed \ coord[c].represented
                 /\ Capacity(c, Schedule[b][i])}
  IN IF b = 0 \/ b \in UnavailableBlocks THEN {}
     ELSE {Schedule[b][i] : i \in {i \in open : \A j \in open : i <= j}}

\* The slot to claim next, as a set of at most one: the first open slot of the
\* block waits for its capacity, no later slot overtakes it.
NextSlot(c) ==
  LET b == FirstIncomplete(c)
      open == {i \in 1 .. Len(Schedule[b]) :
                 Schedule[b][i] \in coord[c].allowed \ coord[c].represented}
  IN IF b = 0 \/ b \in UnavailableBlocks THEN {}
     ELSE {r \in {Schedule[b][i] : i \in {i \in open : \A j \in open : i <= j}} :
             Capacity(c, r)}

(* The loop of run. *)

Ready(c) == coord[c].pc = "dispatching" /\ NextSlot(c) # {}

\* The exact-slot claim wins and a task is created; this may be the last of
\* max_runs.
Launch(c, locked) ==
  /\ Ready(c)
  /\ \E r \in NextSlot(c) :
     /\ Queue!Claimable({r}) \ locked # {}
     /\ Queue!ClaimNextRun(<<c, r>>, {r}, locked)
     /\ \E pc \in {"dispatching", "draining"} :
        coord' = [coord EXCEPT ![c] =
                    [pc |-> pc, represented |-> @.represented \cup {r},
                     active |-> @.active \cup {r}, allowed |-> @.allowed]]

\* The claim loses (the row is locked, cancelled, or somebody else's): what
\* queue maintenance did stays, and the coordinator gives up.
LoseClaim(c, locked) ==
  /\ Ready(c)
  /\ \E r \in NextSlot(c) : Queue!Claimable({r}) \ locked = {}
  /\ run' = Queue!Reconciled(locked)
  /\ Leave(c)

Ended(c) == {r \in coord[c].active : worker[<<c, r>>].pc \in {"returned", "raised"}}

\* Mutant: the finished slots keep their places.
StillActive_All(c) == coord[c].active
StillActive(c) == coord[c].active \ Ended(c)

\* finish_one: some tasks have ended; if one of them raised, so does run.
FinishOne(c) ==
  /\ coord[c] # Away /\ ~Ready(c) /\ Ended(c) # {}
  /\ IF \E r \in Ended(c) : worker[<<c, r>>].pc = "raised"
     THEN Leave(c)
     ELSE /\ coord' = [coord EXCEPT ![c].active = StillActive(c)]
          /\ worker' = [t \in Tasks |->
               IF t[1] = c /\ t[2] \in Ended(c) THEN Idle ELSE worker[t]]
  /\ UNCHANGED run

\* run returns: nothing is launched any more and no task is left.
Return(c) ==
  /\ coord[c] # Away /\ ~Ready(c) /\ coord[c].active = {}
  /\ Leave(c)
  /\ UNCHANGED run

\* The coordinator's process dies.
Crash(c) ==
  /\ coord[c] # Away
  /\ Leave(c)
  /\ UNCHANGED run

\* A transaction of an execution fails (its connection is lost).  While the lane
\* runs only heartbeats go to the database, and those do not raise; once one has
\* stopped, the row is read.
Fail(t) ==
  /\ worker[t] \notin Queue!AtRest
  /\ worker[t].pc = "running" => worker[t].beat = "stopped"
  /\ worker' = [worker EXCEPT ![t] = [pc |-> "raised"]]
  /\ UNCHANGED <<run, coord>>

Task(t) == (Queue!Execute(t) \/ Queue!Heartbeat(t)) /\ UNCHANGED coord

\* Another transaction may hold any rows; it matters for those that queue
\* maintenance or the claim would take.
Coordinate(c) ==
  \/ \E call \in deployment, locked \in SUBSET Queue!Abandoned :
        call[1] = c /\ Resume(c, call[2], locked)
  \/ \E locked \in SUBSET (Queue!Abandoned \cup Queue!Claimable(Runs)) :
        Launch(c, locked) \/ LoseClaim(c, locked)
  \/ FinishOne(c) \/ Return(c) \/ Crash(c)

\* execute returns a row that is still active: its heartbeat failed, not its lease.
LeavesLease(t) ==
  /\ worker[t] \notin Queue!AtRest /\ worker'[t].pc = "returned"
  /\ worker[t].attempt = run[t[2]].attempt

Unattended ==
  {r \in Runs : /\ run'[r].lease > 0
                /\ r \in unattended \/ \E c \in Coordinators : LeavesLease(<<c, r>>)}

Next ==
  /\ \/ \E c \in Coordinators : Coordinate(c)
     \/ \E t \in Tasks : Task(t) \/ Fail(t)
     \/ Queue!Tick /\ UNCHANGED coord
     \/ \E r \in Cancellable : Queue!RequestRunCancellation(r) /\ UNCHANGED coord
  /\ UNCHANGED deployment
  /\ unattended' = Unattended

Spec == Init /\ [][Next]_vars

-----------------------------------------------------------------------------
(* Properties. *)

\* "Fixed global, lane, and provider caps are enforced before exact-slot
\* claims": counted over the rows of the plan, through crashes, aborts and
\* restarts, a coordinator's executions under way and its live leases never
\* pass a cap; those of the whole plan when it is the only one.  Left out are
\* the leases whose execution returned after a failed heartbeat: the coordinator
\* gives their places away while they run out.
Leased(c) == {r \in Runs : run[r].lease > 0 /\ run[r].lease_owner = OwnerOf[c]}
Occupied(c) ==
  {r \in Runs : worker[<<c, r>>] \notin Queue!AtRest} \cup (Leased(c) \ unattended)
LiveWithinCaps ==
  \A c \in Coordinators :
     /\ Cardinality(Occupied(c)) <= GlobalConcurrency
     /\ \A l \in {"direct", "harness"} :
          Cardinality({r \in Occupied(c) : LaneClass[r] = l}) <= LaneCap[l]
     /\ \A r \in Runs :
          Cardinality({q \in Occupied(c) : Provider[q] = Provider[r]}) <= ProviderCap[Provider[r]]

\* "A later block may begin only after all seven slots of the current block
\* are durably represented": whenever an attempt begins, every slot of every
\* earlier block is claimed or ended.
LaterBlockWaits ==
  \A b \in 1 .. Len(Schedule) : \A r \in SlotsOf(b) :
     run'[r].attempt > run[r].attempt
       => \A d \in 1 .. (b - 1) : \A q \in SlotsOf(d) : run'[q].status # "QUEUED"
LaterBlocksWait == [][LaterBlockWaits]_vars

\* "It no longer skips to a later slot in the block": a coordinator claims the
\* slots it was given in the frozen order, whatever finishes, fails or restarts
\* first.
Launches(c, r) ==
  coord[c] # Away /\ coord'[c] # Away /\ r \in coord'[c].active \ coord[c].active
SlotIsNext ==
  \A c \in Coordinators, b \in 1 .. Len(Schedule) : \A i \in 1 .. Len(Schedule[b]) :
     Launches(c, Schedule[b][i])
       => \A j \in 1 .. (i - 1) :
            Schedule[b][j] \in coord[c].allowed => run'[Schedule[b][j]].status # "QUEUED"
FrozenOrder == [][SlotIsNext]_vars

\* run never waits for a place that nobody can give back: every place that is
\* taken belongs to a task that is under way or has ended and can be collected.
PlacesAreHeld ==
  \A c \in Coordinators :
     coord[c] # Away => \A r \in coord[c].active : worker[<<c, r>>] # Idle

=============================================================================
