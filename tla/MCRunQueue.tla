----------------------------- MODULE MCRunQueue -----------------------------
(* Finite instances of RunQueue. *)
EXTENDS RunQueue

CONSTANTS r1, w1, w2, o1

OneRun == {r1}
TwoWorkers == {w1, w2}
\* Two coroutines of one executor share its owner identity (run_bounded).
SharedOwner == [w \in Workers |-> o1]
NoRuns == {}

AllOutcomes == StatisticalOutcome
=============================================================================
