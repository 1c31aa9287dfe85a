----------------------------- MODULE ShardedMap -----------------------------
(***************************************************************************)
(* What the cluster promises to its clients: one map, on which every call  *)
(* takes effect at most once and at one moment, between its invocation and *)
(* its answer when it is answered without an error.  A call that fails may *)
(* have had its effect, may have it later, or never.  Nothing is durable:  *)
(* keys may vanish at any time, by eviction or with the node that has them.*)
(***************************************************************************)
EXTENDS Naturals

CONSTANTS Key,                  \* the keys clients use
          Call,                 \* the calls clients make, each one once
          NoValue               \* the value of a key that is not stored

Op == {"store", "load", "delete"}

VARIABLES map,                  \* the value of each key
          request,              \* what each call asks for
          status,               \* "new", "open" or "returned"
          effect,               \* the reply a call earned by taking effect
          answer                \* the reply its client was given

vars == <<map, request, status, effect, answer>>

Ok(v)   == [status |-> "ok", value |-> v]
Missing == [status |-> "missing", value |-> NoValue]
Failed  == [status |-> "error", value |-> NoValue]
NoReply == [status |-> "none", value |-> NoValue]

NoRequest == [op |-> "load", key |-> CHOOSE k \in Key : TRUE]

(* A call stores itself, so that the value tells who stored it. *)
ReplyTo(c, val) ==
    CASE request[c].op = "store"  -> Ok(c)
      [] request[c].op = "delete" -> Ok(NoValue)
      [] request[c].op = "load"   -> IF val = NoValue THEN Missing ELSE Ok(val)

(* Mutant of ValueAfter: stores the key for the value. *)
ValueAfterMutant(c, val) ==
    CASE request[c].op = "store"  -> request[c].key
      [] request[c].op = "delete" -> NoValue
      [] request[c].op = "load"   -> val

ValueAfter(c, val) ==
    CASE request[c].op = "store"  -> c
      [] request[c].op = "delete" -> NoValue
      [] request[c].op = "load"   -> val

Init == /\ map = [k \in Key |-> NoValue]
        /\ request = [c \in Call |-> NoRequest]
        /\ status = [c \in Call |-> "new"]
        /\ effect = [c \in Call |-> NoReply]
        /\ answer = [c \in Call |-> NoReply]

Invoke(c, op, k) ==
    /\ status[c] = "new"
    /\ status' = [status EXCEPT ![c] = "open"]
    /\ request' = [request EXCEPT ![c] = [op |-> op, key |-> k]]
    /\ UNCHANGED <<map, effect, answer>>

TakeEffect(c) ==
    /\ status[c] # "new"
    /\ effect[c] = NoReply
    /\ LET k == request[c].key
       IN  /\ effect' = [effect EXCEPT ![c] = ReplyTo(c, map[k])]
           /\ map' = [map EXCEPT ![k] = ValueAfter(c, @)]
    /\ UNCHANGED <<request, status, answer>>

Answer(c) ==
    /\ status[c] = "open"
    /\ status' = [status EXCEPT ![c] = "returned"]
    /\ \/ effect[c] # NoReply /\ answer' = [answer EXCEPT ![c] = effect[c]]
       \/ answer' = [answer EXCEPT ![c] = Failed]
    /\ UNCHANGED <<map, request, effect>>

Lose(gone) ==
    /\ map' = [k \in Key |-> IF k \in gone THEN NoValue ELSE map[k]]
    /\ UNCHANGED <<request, effect>>

(* A crash loses keys and fails the calls of the node's clients at once. *)
LoseAndFail(gone, failed) ==
    /\ \A c \in failed : status[c] = "open"
    /\ Lose(gone)
    /\ status' = [c \in Call |-> IF c \in failed THEN "returned" ELSE status[c]]
    /\ answer' = [c \in Call |-> IF c \in failed THEN Failed ELSE answer[c]]

Next == \/ \E c \in Call, op \in Op, k \in Key : Invoke(c, op, k)
        \/ \E c \in Call : TakeEffect(c)
        \/ \E c \in Call : Answer(c)
        \/ \E gone \in SUBSET Key, failed \in SUBSET Call : LoseAndFail(gone, failed)

Spec == Init /\ [][Next]_vars

=============================================================================
