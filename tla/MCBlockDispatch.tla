--------------------------- MODULE MCBlockDispatch ---------------------------
(* Three slots in two blocks, dispatched by one coordinator that is given    *)
(* all slots or the last one, or by two that stop before the last slot.      *)
EXTENDS BlockDispatch, TLC

CONSTANTS r1, r2, r3, c1, c2, p1, p2

ThreeRuns == {r1, r2, r3}
TwoCoordinators == {c1, c2}
\* Every coordinator has an owner identity of its own.
OwnOwner == [c \in TwoCoordinators |-> c]

\* While r1 of the first block runs, the harness lane is full for r2, but r3 of
\* the same block could run; r2 and r3 share a provider.
TwoBlocks == << <<r1>>, <<r2, r3>> >>
Lanes == [r \in ThreeRuns |-> IF r = r3 THEN "direct" ELSE "harness"]
Providers == [r \in ThreeRuns |-> IF r = r1 THEN p1 ELSE p2]
OnePerLane == [l \in {"direct", "harness"} |-> 1]
OnePerProvider == [p \in {p1, p2} |-> 1]
NoBlocks == {}
FirstTwo == {r1, r2}

OneOrTwo ==
  {{c} \X {ThreeRuns, {r3}} : c \in TwoCoordinators}
    \cup {TwoCoordinators \X {{r1, r2}}}

\* What a lane result says does not matter to the dispatch: every result fails its
\* validation, the smallest set of endings.
NoOutcomes == {}

Symmetry == Permutations(TwoCoordinators)
=============================================================================
