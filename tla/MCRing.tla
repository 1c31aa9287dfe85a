------------------------------- MODULE MCRing -------------------------------
(* Values of the constants of Ring for model checking. *)
EXTENDS Ring

MCValue == {"n1", "n2", "n3"}
=============================================================================
