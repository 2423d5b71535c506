---------------------------- MODULE RunLifecycle ----------------------------
(***************************************************************************)
(* What a run ledger promises: the immutable RunLifecycle value of         *)
(* experiment/lifecycle.py, one per slot.  A primary attempt moves along   *)
(* ALLOWED_TRANSITIONS; only a FAILED_INFRA attempt may be followed by a   *)
(* recovery attempt, and at most MaxRecovery of them; every attempt before *)
(* the current one is frozen.  AuthoritativeRuns, the durable rows that    *)
(* several workers and an operator write, implements it.                   *)
(***************************************************************************)
EXTENDS Naturals, Lifecycle

CONSTANTS Slots,          \* the logical slots of the plan
          MaxRecovery     \* maximum_recovery_attempts

AttemptNumber == 1 .. (MaxRecovery + 1)

VARIABLES count,          \* count[s]: len(attempts) in the ledger of slot s
          state           \* state[s][n]: the state of attempt n

vars == <<count, state>>

\* RunLifecycle.queued.  An attempt not yet created is in its initial state.
Init ==
  /\ count = [s \in Slots |-> 1]
  /\ state = [s \in Slots |-> [n \in AttemptNumber |-> "QUEUED"]]

\* RunLifecycle.transition: only the current attempt moves.
Transition(s) ==
  /\ \E target \in ALLOWED_TRANSITIONS[state[s][count[s]]] :
        state'[s] = [state[s] EXCEPT ![count[s]] = target]
  /\ count'[s] = count[s]

\* RunLifecycle.recover_infrastructure_failure
RecoverInfrastructureFailure(s) ==
  /\ state[s][count[s]] = "FAILED_INFRA"
  /\ count[s] - 1 < MaxRecovery
  /\ count'[s] = count[s] + 1
  /\ state'[s] = state[s]

Unchanged(s) == count'[s] = count[s] /\ state'[s] = state[s]

\* One database transaction may move several slots, each by one step.
Next ==
  \A s \in Slots : Transition(s) \/ RecoverInfrastructureFailure(s) \/ Unchanged(s)

Spec == Init /\ [][Next]_vars
=============================================================================
