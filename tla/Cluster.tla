------------------------------ MODULE Cluster ------------------------------
(***************************************************************************)
(* The server of every node, from Do down to the wire.  A client's call    *)
(* runs Do at the node that got it; Do serves the key from the local store *)
(* or redirects the request over the node's connection to the owner, where *)
(* the connection's handler runs Do in turn.  A connection carries one     *)
(* round trip at a time, under the mutex of the node record, and once it   *)
(* is broken nothing dials it again, short of a restart of its dialer.     *)
(*                                                                         *)
(* Nodes start before Init, as Start does when it returns (a full mesh of  *)
(* connections and a filled ring).  A restarted node comes back through    *)
(* Start too: with an empty store, after dialing every peer, while the     *)
(* connections its peers had to it stay broken.  A store is the map that   *)
(* EvictingMap describes: a key may vanish from it.                        *)
(***************************************************************************)
EXTENDS Integers, Sequences, FiniteSets

CONSTANTS Node, Key, Call,
          NoValue,              \* the value of a key that is not stored
          Nobody,               \* a mutex that is free
          Addr,                 \* Addr[n][m]: the address n sorts m by, by its rank
          Partition,            \* the partition of each key
          MaxFailures           \* bound: broken connections and crashes

Link == {l \in Node \X Node : l[1] # l[2]}      \* dialer, listener

ASSUME AddrAssumption ==
    /\ IsFiniteSet(Node) /\ Node # {}
    /\ Addr \in [Node -> [Node -> Int]]
    /\ \A n, m, x \in Node : Addr[n][m] = Addr[n][x] => m = x
ASSUME PartitionAssumption == Key # {} /\ Partition \in [Key -> Nat]
ASSUME ValueAssumption ==
    NoValue \notin Call /\ Nobody \notin Call \cup Link /\ Call \cap Link = {}
ASSUME BoundAssumption == MaxFailures \in Nat

VARIABLES up,                   \* the nodes that run
          store,                \* s.store of each node
          broken,               \* the links whose connection is broken
          req, resp,            \* the messages on each link's connection
          mu,                   \* node.mu of each link: the task that holds it
          task,                 \* the Do of each client call and link handler
          at,                   \* the node that got each call
          request, status, effect, answer,  \* of each call, as in ShardedMap
          failures              \* how many failures there were

callVars == <<request, status, effect, answer>>
wireVars == <<broken, req, resp, mu>>
vars == <<up, store, wireVars, task, at, callVars, failures>>

Map == INSTANCE ShardedMap WITH
           map <- [k \in Key |-> IF \E n \in Node : store[n][k] # NoValue
                                 THEN store[CHOOSE n \in Node : store[n][k] # NoValue][k]
                                 ELSE NoValue]

(* A task is the goroutine of a client's call, or the handler of a link,   *)
(* which reads, serves and answers one request after the other.            *)
Task == Call \cup Link

Resting == [pc |-> "idle", call |-> Nobody, reply |-> Map!NoReply]

NodeOf(t) == IF t \in Call THEN at[t] ELSE t[2]

-----------------------------------------------------------------------------

(* Mutant of Index: the node itself is appended after sorting. *)
IndexMutant(n, m) ==
    IF m = n THEN Cardinality(Node) - 1
             ELSE Cardinality({x \in Node \ {n} : Addr[n][x] < Addr[n][m]})

(* Start sorts the nodes and inserts their indexes into the ring, which    *)
(* assigns partition p to index p % len(nodes).                            *)
Index(n, m) == Cardinality({x \in Node : Addr[n][x] < Addr[n][m]})

Owner(n, k) == CHOOSE m \in Node : Index(n, m) = Partition[k] % Cardinality(Node)

Init == /\ up = Node
        /\ store = [n \in Node |-> [k \in Key |-> NoValue]]
        /\ broken = {}
        /\ req = [l \in Link |-> <<>>]
        /\ resp = [l \in Link |-> <<>>]
        /\ mu = [l \in Link |-> Nobody]
        /\ task = [t \in Task |-> Resting]
        /\ at \in [Call -> Node]
        /\ request = [c \in Call |-> Map!NoRequest]
        /\ status = [c \in Call |-> "new"]
        /\ effect = [c \in Call |-> Map!NoReply]
        /\ answer = [c \in Call |-> Map!NoReply]
        /\ failures = 0

(* A client's request reaches the server of at[c], which runs Do. *)
Invoke(c, op, k) ==
    /\ at[c] \in up
    /\ status[c] = "new"
    /\ status' = [status EXCEPT ![c] = "open"]
    /\ request' = [request EXCEPT ![c] = [op |-> op, key |-> k]]
    /\ task' = [task EXCEPT ![c] = [Resting EXCEPT !.pc = "do", !.call = c]]
    /\ UNCHANGED <<up, store, wireVars, at, effect, answer, failures>>

(* What Do does next at a task's node: the owner as this node has it. *)
Target(t) == Owner(NodeOf(t), request[task[t].call].key)

(* Do, the local case. *)
Serve(t) ==
    /\ task[t].pc = "do"
    /\ Target(t) = NodeOf(t)
    /\ LET c == task[t].call
           k == request[c].key
           n == NodeOf(t)
           reply == Map!ReplyTo(c, store[n][k])
       IN  /\ store' = [store EXCEPT ![n][k] = Map!ValueAfter(c, @)]
           /\ effect' = [effect EXCEPT ![c] = reply]
           /\ task' = [task EXCEPT ![t].pc = "done", ![t].reply = reply]
    /\ UNCHANGED <<up, wireVars, at, request, status, answer, failures>>

Via(t) == <<NodeOf(t), Target(t)>>

(* Mutants of Send: without the mutex; serving the key itself when the     *)
(* owner cannot be reached.                                                *)
SendUnlockedMutant(t) ==
    /\ task[t].pc = "do"
    /\ Target(t) # NodeOf(t)
    /\ Via(t) \notin broken
    /\ req' = [req EXCEPT ![Via(t)] = Append(@, task[t].call)]
    /\ task' = [task EXCEPT ![t].pc = "waiting"]
    /\ UNCHANGED <<up, store, broken, resp, mu, at, callVars, failures>>

SendFallbackMutant(t) ==
    /\ task[t].pc = "do"
    /\ Target(t) # NodeOf(t)
    /\ LET l == Via(t)
           c == task[t].call
           k == request[c].key
           n == NodeOf(t)
           reply == Map!ReplyTo(c, store[n][k])
       IN  /\ mu[l] = Nobody
           /\ \/ /\ l \in broken
                 /\ store' = [store EXCEPT ![n][k] = Map!ValueAfter(c, @)]
                 /\ effect' = [effect EXCEPT ![c] = reply]
                 /\ task' = [task EXCEPT ![t].pc = "done", ![t].reply = reply]
                 /\ UNCHANGED <<req, mu>>
              \/ /\ l \notin broken
                 /\ mu' = [mu EXCEPT ![l] = t]
                 /\ req' = [req EXCEPT ![l] = Append(@, c)]
                 /\ task' = [task EXCEPT ![t].pc = "waiting"]
                 /\ UNCHANGED <<store, effect>>
    /\ UNCHANGED <<up, broken, resp, at, request, status, answer, failures>>

(* roundTrip up to the written request; on a broken connection the write   *)
(* fails, the mutex is given back, and Do answers with the error.          *)
Send(t) ==
    /\ task[t].pc = "do"
    /\ Target(t) # NodeOf(t)
    /\ LET l == Via(t)
       IN  /\ mu[l] = Nobody
           /\ \/ /\ l \in broken
                 /\ task' = [task EXCEPT ![t].pc = "done", ![t].reply = Map!Failed]
                 /\ UNCHANGED <<req, mu>>
              \/ /\ l \notin broken
                 /\ mu' = [mu EXCEPT ![l] = t]
                 /\ req' = [req EXCEPT ![l] = Append(@, task[t].call)]
                 /\ task' = [task EXCEPT ![t].pc = "waiting"]
    /\ UNCHANGED <<up, store, broken, resp, at, callVars, failures>>

(* roundTrip reads the response. *)
Receive(t) ==
    /\ task[t].pc = "waiting"
    /\ LET l == Via(t)
       IN  /\ resp[l] # <<>>
           /\ task' = [task EXCEPT ![t].pc = "done", ![t].reply = Head(resp[l]).reply]
           /\ resp' = [resp EXCEPT ![l] = Tail(@)]
           /\ mu' = [mu EXCEPT ![l] = Nobody]
    /\ UNCHANGED <<up, store, broken, req, at, callVars, failures>>

(* Mutants of ReadFails: giving up on a connection that works; keeping the *)
(* mutex on the error path.                                                *)
ReadFailsTimeoutMutant(t) ==
    /\ task[t].pc = "waiting"
    /\ task' = [task EXCEPT ![t].pc = "done", ![t].reply = Map!Failed]
    /\ mu' = [mu EXCEPT ![Via(t)] = Nobody]
    /\ UNCHANGED <<up, store, broken, req, resp, at, callVars, failures>>

ReadFailsKeepsMutexMutant(t) ==
    /\ task[t].pc = "waiting"
    /\ Via(t) \in broken
    /\ task' = [task EXCEPT ![t].pc = "done", ![t].reply = Map!Failed]
    /\ resp' = [resp EXCEPT ![Via(t)] = <<>>]
    /\ UNCHANGED <<up, store, broken, req, mu, at, callVars, failures>>

(* Reading fails; what the peer had sent is lost. *)
ReadFails(t) ==
    /\ task[t].pc = "waiting"
    /\ LET l == Via(t)
       IN  /\ l \in broken
           /\ task' = [task EXCEPT ![t].pc = "done", ![t].reply = Map!Failed]
           /\ resp' = [resp EXCEPT ![l] = <<>>]
           /\ mu' = [mu EXCEPT ![l] = Nobody]
    /\ UNCHANGED <<up, store, broken, req, at, callVars, failures>>

(* Do returns to the client. *)
Return(c) ==
    /\ task[c].pc = "done"
    /\ task' = [task EXCEPT ![c] = Resting]
    /\ status' = [status EXCEPT ![c] = "returned"]
    /\ answer' = [answer EXCEPT ![c] = task[c].reply]
    /\ UNCHANGED <<up, store, wireVars, at, request, effect, failures>>

(* handle reads the next request of its connection and runs Do. *)
Handle(l) ==
    /\ l[2] \in up
    /\ task[l].pc = "idle"
    /\ req[l] # <<>>
    /\ task' = [task EXCEPT ![l] = [Resting EXCEPT !.pc = "do", !.call = Head(req[l])]]
    /\ req' = [req EXCEPT ![l] = Tail(@)]
    /\ UNCHANGED <<up, store, broken, resp, mu, at, callVars, failures>>

(* handle writes the response, unless the connection broke. *)
Reply(l) ==
    /\ task[l].pc = "done"
    /\ resp' = IF l \in broken
               THEN resp
               ELSE [resp EXCEPT ![l] = Append(@, [call  |-> task[l].call,
                                                   reply |-> task[l].reply])]
    /\ task' = [task EXCEPT ![l] = Resting]
    /\ UNCHANGED <<up, store, broken, req, mu, at, callVars, failures>>

(* handle finds its connection broken and leaves what it has not read. *)
HandlerExits(l) ==
    /\ l \in broken
    /\ task[l].pc = "idle"
    /\ req[l] # <<>>
    /\ req' = [req EXCEPT ![l] = <<>>]
    /\ UNCHANGED <<up, store, broken, resp, mu, task, at, callVars, failures>>

-----------------------------------------------------------------------------

(* A key is evicted, as the store of its node may do. *)
Evict(n, k) ==
    /\ store[n][k] # NoValue
    /\ store' = [store EXCEPT ![n][k] = NoValue]
    /\ UNCHANGED <<up, wireVars, task, at, callVars, failures>>

(* The keepalive of a connection gives up on it. *)
Break(l) ==
    /\ failures < MaxFailures
    /\ l \notin broken
    /\ failures' = failures + 1
    /\ broken' = broken \cup {l}
    /\ UNCHANGED <<up, store, req, resp, mu, task, at, callVars>>

(* The process of n dies with its store, its calls and its handlers.  The  *)
(* requests it had sent are still with its peers.                          *)
Crash(n) ==
    /\ failures < MaxFailures
    /\ n \in up
    /\ failures' = failures + 1
    /\ up' = up \ {n}
    /\ store' = [store EXCEPT ![n] = [k \in Key |-> NoValue]]
    /\ broken' = broken \cup {l \in Link : n \in {l[1], l[2]}}
    /\ req' = [l \in Link |-> IF l[2] = n THEN <<>> ELSE req[l]]
    /\ resp' = [l \in Link |-> IF l[1] = n THEN <<>> ELSE resp[l]]
    /\ mu' = [l \in Link |-> IF l[1] = n THEN Nobody ELSE mu[l]]
    /\ task' = [t \in Task |-> IF NodeOf(t) = n THEN Resting ELSE task[t]]
    /\ LET lost == {c \in Call : at[c] = n /\ status[c] = "open"}
       IN  /\ status' = [c \in Call |-> IF c \in lost THEN "returned" ELSE status[c]]
           /\ answer' = [c \in Call |-> IF c \in lost THEN Map!Failed ELSE answer[c]]
    /\ UNCHANGED <<at, request, effect>>

(* A restarted node dials every peer; with one that is down, Start fails   *)
(* and the process ends.  The handlers of its former connections are gone  *)
(* by then.                                                                *)
Restart(n) ==
    /\ up = Node \ {n}
    /\ LET dialed == {l \in Link : l[1] = n}
       IN  /\ \A l \in dialed : task[l] = Resting /\ req[l] = <<>>
           /\ broken' = broken \ dialed
    /\ up' = Node
    /\ UNCHANGED <<store, req, resp, mu, task, at, callVars, failures>>

(* Every client has its answer, and nothing is under way. *)
Quiet == /\ \A c \in Call : status[c] = "returned" \/ at[c] \notin up
         /\ \A t \in Task : task[t] = Resting
         /\ UNCHANGED vars

Next == \/ \E c \in Call, op \in Map!Op, k \in Key : Invoke(c, op, k)
        \/ \E t \in Task : Serve(t)
        \/ \E t \in Task : Send(t)
        \/ \E t \in Task : Receive(t)
        \/ \E t \in Task : ReadFails(t)
        \/ \E c \in Call : Return(c)
        \/ \E l \in Link : Handle(l)
        \/ \E l \in Link : Reply(l)
        \/ \E l \in Link : HandlerExits(l)
        \/ \E n \in Node, k \in Key : Evict(n, k)
        \/ \E l \in Link : Break(l)
        \/ \E n \in Node : Crash(n)
        \/ \E n \in Node : Restart(n)
        \/ Quiet

Spec == Init /\ [][Next]_vars

(* Goroutines run, a broken connection is noticed by whoever reads it or   *)
(* writes to it, and the mutex of a node goes to each that waits for it.   *)
Fairness == /\ \A t \in Task : /\ WF_vars(Serve(t))
                               /\ SF_vars(Send(t))
                               /\ WF_vars(Receive(t) \/ ReadFails(t))
            /\ \A c \in Call : WF_vars(Return(c))
            /\ \A l \in Link : WF_vars(Handle(l) \/ HandlerExits(l)) /\ WF_vars(Reply(l))

FairSpec == Spec /\ Fairness

-----------------------------------------------------------------------------

Replies == [status : {"none", "ok", "missing", "error"}, value : Call \cup {NoValue}]

Response == [call : Call, reply : Replies]

TaskState == [pc    : {"idle", "do", "waiting", "done"},
              call  : Call \cup {Nobody},
              reply : Replies]

(* The type invariant. *)
TypeOK ==
    /\ up \subseteq Node
    /\ store \in [Node -> [Key -> Call \cup {NoValue}]]
    /\ broken \subseteq Link
    /\ req \in [Link -> Seq(Call)]
    /\ resp \in [Link -> Seq(Response)]
    /\ mu \in [Link -> Task \cup {Nobody}]
    /\ task \in [Task -> TaskState]
    /\ at \in [Call -> Node]
    /\ request \in [Call -> [op : Map!Op, key : Key]]
    /\ status \in [Call -> {"new", "open", "returned"}]
    /\ effect \in [Call -> Replies]
    /\ answer \in [Call -> Replies]
    /\ failures \in 0..MaxFailures

(* What may be between the two ends of a link. *)
InFlight(l) == Len(req[l]) + Len(resp[l]) + (IF task[l].pc = "idle" THEN 0 ELSE 1)

(* A connection that works carries one round trip at a time, and only      *)
(* while its mutex is held by the task that waits for it: readWire may     *)
(* then throw its decoder away with all it has buffered, and responses     *)
(* need no identifier (server.go:447-489).                                 *)
OneRoundTrip ==
    \A l \in Link \ broken : InFlight(l) = IF mu[l] = Nobody THEN 0 ELSE 1

(* The response next to be read on a link answers the request of the task  *)
(* that will read it, also after failed round trips and restarts.          *)
ResponseMatches ==
    \A l \in Link : resp[l] # <<>> /\ mu[l] # Nobody =>
        Head(resp[l]).call = task[mu[l]].call

(* "Each partition will is assigned to the concrete node in a cluster"     *)
(* (README.md:39-40), because "on each node the order will be preserved"   *)
(* (server.go:413-415): a key is never in the stores of two nodes.         *)
OneNodePerKey ==
    \A k \in Key : Cardinality({n \in Node : store[n][k] # NoValue}) <= 1

(* The cluster implements ShardedMap: a redirected call takes effect once, *)
(* its client is given the reply it earned at that moment or an error, and *)
(* one client's reply never goes to another.                               *)
ActsAsOneMap == Map!Spec

(* Every call is answered, be it with an error: round trips over shared    *)
(* connections do not block each other for good, and no caller waits for a *)
(* peer that is gone.                                                      *)
EveryCallReturns == []<>(\A c \in Call : status[c] \in {"new", "returned"})

=============================================================================
