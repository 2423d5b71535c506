--------------------------- MODULE SingleAttempt ---------------------------
(***************************************************************************)
(* What local execution promises for each authorized run, whatever happens *)
(* to its workers: the single attempt is consumed at most once, the        *)
(* subject is launched at most once and never after the run has ended, and *)
(* the run ends once, with a verification verdict only if it was launched. *)
(***************************************************************************)
EXTENDS Naturals

CONSTANT Runs

VARIABLES
  phase,      \* "none", "waiting" (queued), "consumed" (claimed), "ended"
  launches,   \* how often the subject was launched
  verdict     \* the immutable outcome, "none" until the run has ended

vars == <<phase, launches, verdict>>

Verdicts == {"VERIFIED_PASS", "VERIFIED_FAIL"}
TERMINAL ==
  Verdicts \cup {"TIMEOUT", "CANCELLED", "FAILED_INFRA", "INTERRUPTED", "BLOCKED"}

Init ==
  /\ phase = [r \in Runs |-> "none"]
  /\ launches = [r \in Runs |-> 0]
  /\ verdict = [r \in Runs |-> "none"]

Authorize(r) ==
  /\ phase[r] = "none"
  /\ phase' = [phase EXCEPT ![r] = "waiting"]
  /\ UNCHANGED <<launches, verdict>>

\* A cancellation in the queue ends the run before anything is launched.
Withdraw(r) ==
  /\ phase[r] = "waiting"
  /\ phase' = [phase EXCEPT ![r] = "ended"]
  /\ verdict' = [verdict EXCEPT ![r] = "CANCELLED"]
  /\ UNCHANGED launches

Consume(r) ==
  /\ phase[r] = "waiting"
  /\ phase' = [phase EXCEPT ![r] = "consumed"]
  /\ UNCHANGED <<launches, verdict>>

Launch(r) ==
  /\ phase[r] = "consumed" /\ launches[r] = 0
  /\ launches' = [launches EXCEPT ![r] = 1]
  /\ UNCHANGED <<phase, verdict>>

End(r, outcome) ==
  /\ phase[r] = "consumed"
  /\ outcome \in Verdicts => launches[r] = 1
  /\ phase' = [phase EXCEPT ![r] = "ended"]
  /\ verdict' = [verdict EXCEPT ![r] = outcome]
  /\ UNCHANGED launches

Next ==
  \E r \in Runs :
     \/ Authorize(r) \/ Withdraw(r) \/ Consume(r) \/ Launch(r)
     \/ \E outcome \in TERMINAL : End(r, outcome)

Spec == Init /\ [][Next]_vars
=============================================================================
