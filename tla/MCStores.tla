------------------------------ MODULE MCStores ------------------------------
(* A small instance of each store, and the sandbox.                         *)
EXTENDS Stores

CONSTANTS a1, a2, b1, p1, p2, q1, q2, s1, s2

\* Two packages for one task and one for another.
ThreePackages == {a1, a2, b1}
TwoTasks == [p \in ThreePackages |-> IF p = b1 THEN "b@1" ELSE "a@1"]

TwoProcesses == {p1, p2}

\* A store that two records, one verification and two snapshots fill.
TwoRecords == {q1, q2}
TwoSnapshots == {s1, s2}
=============================================================================
