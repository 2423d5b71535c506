--------------------------- MODULE MCLocalWorker ---------------------------
(* Finite instances of LocalWorker. *)
EXTENDS LocalWorker, TLC

CONSTANTS p1, w1, w2, w3

OneRun == {p1}
ThreeWorkers == {w1, w2, w3}

=============================================================================
