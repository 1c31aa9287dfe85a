---------------------------- MODULE MCClientKeys ----------------------------
(* Values of the constants of ClientKeys for model checking. *)
EXTENDS ClientKeys

CONSTANTS n1, n2, n3

MCNode == {n1, n2, n3}
InOrder == <<n1, n2, n3>>
=============================================================================
