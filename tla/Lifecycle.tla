----------------------------- MODULE Lifecycle -----------------------------
(***************************************************************************)
(* The two status vocabularies of an experiment and the tables between     *)
(* them: the authoritative states of a physical attempt                    *)
(* (experiment/lifecycle.py) and the persisted status of a logical run     *)
(* (contracts/run.py, experiment/queue.py, experiment/outcomes.py).        *)
(***************************************************************************)

\* LifecycleState: the states of one physical attempt.
LifecycleState ==
  {"QUEUED", "PREPARING", "RUNNING", "VERIFYING", "COMPLETED",
   "FAILED_CAPABILITY", "FAILED_INFRA", "CANCELLED", "BUDGET_EXHAUSTED"}

TERMINAL_STATES ==
  {"COMPLETED", "FAILED_CAPABILITY", "FAILED_INFRA", "CANCELLED", "BUDGET_EXHAUSTED"}

\* The failures every unfinished attempt may end in.
Interruptions == {"FAILED_INFRA", "CANCELLED", "BUDGET_EXHAUSTED"}

ALLOWED_TRANSITIONS ==
  [s \in LifecycleState |->
     CASE s = "QUEUED"    -> {"PREPARING"} \cup Interruptions
       [] s = "PREPARING" -> {"RUNNING"} \cup Interruptions
       [] s = "RUNNING"   -> {"VERIFYING"} \cup Interruptions
       [] s = "VERIFYING" -> {"COMPLETED", "FAILED_CAPABILITY"} \cup Interruptions
       [] OTHER           -> {}]

-----------------------------------------------------------------------------
\* The persisted status of a logical run (queue.py).
ACTIVE_STATUSES == {"CLAIMED", "PREPARING", "RUNNING", "VERIFYING", "SCORING"}
TERMINAL_STATUSES ==
  {"COMPLETED", "FAILED_INFRA", "FAILED_SUBJECT", "CANCELLED", "BUDGET_EXHAUSTED"}
RunStatus == {"QUEUED"} \cup ACTIVE_STATUSES \cup TERMINAL_STATUSES

\* TRANSITIONS.get(status, set()): the statuses a worker may move a run to.
TRANSITIONS ==
  [s \in RunStatus |->
     CASE s = "CLAIMED"   -> {"PREPARING"}
       [] s = "PREPARING" -> {"RUNNING"}
       [] s = "RUNNING"   -> {"VERIFYING"}
       [] s = "VERIFYING" -> {"SCORING"}
       [] OTHER           -> {}]

\* lifecycle_state_from_persisted: the attempt state a run status stands for.
LifecycleOfStatus ==
  [s \in RunStatus |->
     CASE s = "CLAIMED"        -> "PREPARING"
       [] s = "SCORING"        -> "VERIFYING"
       [] s = "FAILED_SUBJECT" -> "FAILED_CAPABILITY"
       [] OTHER                -> s]

-----------------------------------------------------------------------------
StatisticalOutcome == {"capability_pass", "capability_fail", "infra_failure", "cancelled"}

\* TERMINAL_STATUS_BY_OUTCOME, and the attempt state finish_run gives it.
TERMINAL_STATUS_BY_OUTCOME ==
  [o \in StatisticalOutcome |->
     CASE o = "capability_pass" -> "COMPLETED"
       [] o = "capability_fail" -> "FAILED_SUBJECT"
       [] o = "infra_failure"   -> "FAILED_INFRA"
       [] o = "cancelled"       -> "CANCELLED"]

LifecycleTerminalByOutcome ==
  [o \in StatisticalOutcome |-> LifecycleOfStatus[TERMINAL_STATUS_BY_OUTCOME[o]]]
=============================================================================
