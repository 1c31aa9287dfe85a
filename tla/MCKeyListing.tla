---------------------------- MODULE MCKeyListing ----------------------------
(* Values of the constants of KeyListing for model checking. *)
EXTENDS KeyListing, TLC

CONSTANTS k1, k2, r1, r2

MCKey == {k1, k2}
MCReader == {r1, r2}

Symmetry == Permutations(MCKey) \cup Permutations(MCReader)
=============================================================================
