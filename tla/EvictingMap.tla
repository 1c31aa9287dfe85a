---------------------------- MODULE EvictingMap ----------------------------
(***************************************************************************)
(* What the store promises to its clients: a map from which keys may be    *)
(* evicted, but only on a deadline that was set for the key by some store  *)
(* with a time to live, and not before the deadline is reached.  No heap,  *)
(* no timer, no goroutine: deadlines is the set of those still to serve.   *)
(*                                                                         *)
(* The promise is as weak as the code makes it.  A deadline is served even *)
(* when the key was deleted, re-created or made permanent since it was     *)
(* set, and nothing is said of how long after the deadline.                *)
(***************************************************************************)
EXTENDS Integers

CONSTANTS Key,                  \* the keys clients use
          Deletable,            \* those of them that clients delete
          TTL                   \* the times to live they ask for

VARIABLES now,                  \* the clock
          live,                 \* the keys that have a record
          born,                 \* when the record of a live key was created
          deadlines             \* pairs of a key and a time to evict it

vars == <<now, live, born, deadlines>>

Never == 0                      \* born, of a key that is not live

Init == /\ now = 1
        /\ live = {}
        /\ born = [k \in Key |-> Never]
        /\ deadlines = {}

Without(gone) ==
    /\ live' = live \ gone
    /\ born' = [k \in Key |-> IF k \in gone THEN Never ELSE born[k]]

(* Storing over a live key does not make it any younger. *)
Put(k, ttl) ==
    /\ live' = live \cup {k}
    /\ born' = [born EXCEPT ![k] = IF k \in live THEN @ ELSE now]
    /\ deadlines' = IF ttl > 0
                    THEN deadlines \cup {<<k, born'[k] + ttl>>}
                    ELSE deadlines
    /\ UNCHANGED now

Remove(k) ==
    /\ Without({k})
    /\ UNCHANGED <<now, deadlines>>

(* A reader meets a key at least one of whose deadlines has passed. *)
Lapse(k) ==
    /\ \E d \in deadlines : d[1] = k /\ d[2] < now
    /\ Without({k})
    /\ UNCHANGED <<now, deadlines>>

(* Some of the deadlines that are reached are served together: their keys  *)
(* go, and with them no deadline but these.                                *)
Evict(served) ==
    /\ \A d \in served : d[2] <= now
    /\ Without({d[1] : d \in served})
    /\ deadlines \ served \subseteq deadlines'
    /\ deadlines' \subseteq deadlines
    /\ UNCHANGED now

Tick == /\ now' = now + 1
        /\ UNCHANGED <<live, born, deadlines>>

Next == \/ \E k \in Key, ttl \in TTL : Put(k, ttl)
        \/ \E k \in Deletable : Remove(k)
        \/ \E k \in Key : Lapse(k)
        \/ \E served \in SUBSET deadlines : Evict(served)
        \/ Tick

Spec == Init /\ [][Next]_vars

=============================================================================
