------------------------ MODULE MCAuthoritativeRuns ------------------------
(* Finite instances of AuthoritativeRuns. *)
EXTENDS AuthoritativeRuns, TLC

CONSTANTS r1, r2, w1, w2, o1

OneRun == {r1}
TwoRuns == {r1, r2}
OneWorker == {w1}
TwoWorkers == {w1, w2}
\* Two coroutines of one executor share its owner identity (run_bounded).
SharedOwner == [w \in Workers |-> o1]

\* Runs have equal envelopes and coroutines of one owner are interchangeable.
Symmetry == Permutations(Runs) \cup Permutations(Workers)

AllControls ==
  {"PAUSE", "RESUME", "RUN_REMAINING", "RETRY_INFRA_SELECTED", "CANCEL", "CANCEL_RUN"}
RetryAndCancelRun == {"RETRY_INFRA_SELECTED", "CANCEL_RUN"}
RetryAndCancel == {"RETRY_INFRA_SELECTED", "CANCEL"}
CancelOnly == {"CANCEL"}
=============================================================================
