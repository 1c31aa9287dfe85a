---------------------------- MODULE MCBootstrap ----------------------------
(* Values of the constants of Bootstrap for model checking. *)
EXTENDS Bootstrap

CONSTANTS c1

MCCall == {c1}
TwoNodes == {1, 2}
ThreeNodes == {1, 2, 3}
ByAddress == [i \in 0..(N - 1) |-> i + 1]
MCPartition == 0..(N - 1)
=============================================================================
