-------------------------- MODULE MCAnalystSession --------------------------
(* Finite instances of AnalystSession. *)
EXTENDS AnalystSession, TLC

CONSTANTS p1, p2, k1, k2, k3, q1

TwoProcesses == {p1, p2}
ThreeKeys == {k1, k2, k3}
\* A later decision may ask again for a call of an earlier one.
SomeCalls == {{k1}, {k1, k2, k3}}
OnePlan == {q1}
=============================================================================
