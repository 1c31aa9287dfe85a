------------------------------ MODULE MCStore ------------------------------
(* Values of the constants of Store for model checking. *)
EXTENDS ExpireHeap

CONSTANTS k1, k2, g1, g2

MCKey == {k1, k2}
MCDeletable == {k1}
MCRun == {g1, g2}
MCTTL == {0, 1, 2}
=============================================================================
