------------------------------- MODULE MCRest -------------------------------
(* Values of the constants of Rest for model checking. *)
EXTENDS Rest

CONSTANTS k1, i1, l1, l2

MCKey == {k1}
MCItem == {i1}
MCLeaf == {l1, l2}
=============================================================================
