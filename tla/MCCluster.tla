----------------------------- MODULE MCCluster -----------------------------
(* Values of the constants of Cluster for model checking. *)
EXTENDS Cluster

CONSTANTS c1, c2

Calls2 == {c1, c2}

TwoNodes == {1, 2}

TwoKeys == {"k0", "k1"}
Partitions == [k \in Key |-> IF k = "k0" THEN 0 ELSE 1]

(* Every node is known by one address, whoever sorts. *)
SameAddr == [n \in Node |-> [m \in Node |-> m]]

(* Every node listens on the wildcard address and has itself first, since  *)
(* "0.0.0.0:2371" precedes the addresses its peers are joined by.          *)
WildcardAddr == [n \in Node |-> [m \in Node |-> IF m = n THEN 0 ELSE m]]
=============================================================================
