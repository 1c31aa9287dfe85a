------------------------------ MODULE Bootstrap ------------------------------
(***************************************************************************)
(* How a cluster comes up: the processes of its nodes are launched in any  *)
(* order, each listens for its peers, dials all of them, and only then     *)
(* sorts the nodes, fills its ring and serves clients.  A node that fails  *)
(* to start ends its process, and somebody may launch it again.            *)
(*                                                                         *)
(* A peer can be dialed, and can redirect requests, as soon as the         *)
(* listener of a node is up, so requests may reach a node that is still    *)
(* starting.  A request is modelled by the chain of nodes it has gone      *)
(* through: each holds the mutex of the connection to the next until the   *)
(* answer comes.  When one of them ends, the call fails at once; what      *)
(* happens to the rest of the chain is the subject of Cluster.             *)
(***************************************************************************)
EXTENDS Integers, Sequences, FiniteSets

CONSTANTS Node,                 \* the nodes; each joins all others
          Sorted,               \* the nodes by their addresses, from index 0
          Call,                 \* the calls of clients
          Partition,            \* the partitions of the ring
          retries,              \* join-retries
          MaxRelaunches         \* bound: launches of nodes that had ended

N == Cardinality(Node)

ASSUME NodeAssumption == IsFiniteSet(Node) /\ Node # {}
ASSUME SortedAssumption == /\ Sorted \in [0..(N - 1) -> Node]
                           /\ \A m \in Node : \E i \in 0..(N - 1) : Sorted[i] = m
ASSUME PartitionAssumption == Partition \subseteq Nat
ASSUME RetriesAssumption == retries \in Nat
ASSUME MaxRelaunchesAssumption == MaxRelaunches \in Nat

VARIABLES phase,                \* the process of each node
          relaunches,           \* how often one was launched again
          listening,            \* its listener is bound
          tries,                \* failed attempts to dial each peer
          joined,               \* peers that have a connection in s.nodes
          order,                \* s.nodes, once sorted
          filled,               \* elements of its ring
          inserting,            \* an Insert into the ring is under way
          broken,               \* connections whose peer is gone
          call                  \* the calls: state, partition, chain of nodes

procVars == <<phase, relaunches, listening, tries, joined, order, filled, inserting, broken>>
vars == <<procVars, call>>

Peers(n) == Node \ {n}
Link == {l \in Node \X Node : l[1] # l[2]}

NoTries == [m \in Node |-> 0]
Unsorted == [i \in 0..(N - 1) |-> Sorted[0]]

-----------------------------------------------------------------------------

Init == /\ phase = [n \in Node |-> "off"]
        /\ relaunches = 0
        /\ listening = [n \in Node |-> FALSE]
        /\ tries = [n \in Node |-> NoTries]
        /\ joined = [n \in Node |-> {}]
        /\ order = [n \in Node |-> Unsorted]
        /\ filled = [n \in Node |-> 0]
        /\ inserting = [n \in Node |-> FALSE]
        /\ broken = {}
        /\ call = [c \in Call |-> [status |-> "new", part |-> 0, path |-> <<>>]]

(* main up to Start: a process with nothing yet. *)
Launch(n) ==
    /\ \/ phase[n] = "off" /\ UNCHANGED relaunches
       \/ /\ phase[n] = "ended"
          /\ relaunches < MaxRelaunches
          /\ relaunches' = relaunches + 1
    /\ phase' = [phase EXCEPT ![n] = "joining"]
    /\ UNCHANGED <<listening, tries, joined, order, filled, inserting, broken, call>>

Running(n) == phase[n] \in {"joining", "filling", "serving"}

(* What is gone with the process of n: its listener, its ring, its         *)
(* connections, and the connections of its peers to it, which they keep.   *)
Ends(n) ==
    /\ phase' = [phase EXCEPT ![n] = "ended"]
    /\ listening' = [listening EXCEPT ![n] = FALSE]
    /\ tries' = [tries EXCEPT ![n] = NoTries]
    /\ joined' = [joined EXCEPT ![n] = {}]
    /\ order' = [order EXCEPT ![n] = Unsorted]
    /\ filled' = [filled EXCEPT ![n] = 0]
    /\ inserting' = [inserting EXCEPT ![n] = FALSE]
    /\ broken' = {l \in broken : l[1] # n} \cup {l \in Link : l[2] = n /\ n \in joined[l[1]]}
    /\ UNCHANGED relaunches

InChain(c, n) == \E i \in 1..Len(call[c].path) : call[c].path[i] = n

Loses(n) ==
    call' = [c \in Call |-> IF call[c].status = "open" /\ InChain(c, n)
                            THEN [call[c] EXCEPT !.status = "failed"]
                            ELSE call[c]]

(* The listener's goroutine binds the address for peers. *)
Listen(n) ==
    /\ Running(n)
    /\ ~listening[n]
    /\ listening' = [listening EXCEPT ![n] = TRUE]
    /\ UNCHANGED <<phase, relaunches, tries, joined, order, filled, inserting, broken, call>>

(* It panics when it cannot, as main does with the address for clients.    *)
BindFails(n) ==
    /\ Running(n)
    /\ ~listening[n] \/ (phase[n] = "filling" /\ filled[n] = N)
    /\ Ends(n)
    /\ Loses(n)

Dialing(n, m) == phase[n] = "joining" /\ m \in Peers(n) \ joined[n] /\ tries[n][m] <= retries

(* A goroutine of joinN reaches its peer. *)
Dial(n, m) ==
    /\ Dialing(n, m)
    /\ listening[m]
    /\ joined' = [joined EXCEPT ![n] = @ \cup {m}]
    /\ UNCHANGED <<phase, relaunches, listening, tries, order, filled, inserting, broken, call>>

(* Mutant of DialFails: attempts are not counted. *)
DialFailsMutant(n, m) ==
    /\ Dialing(n, m)
    /\ UNCHANGED vars

(* It does not, whatever the reason, and sleeps or gives up. *)
DialFails(n, m) ==
    /\ Dialing(n, m)
    /\ tries' = [tries EXCEPT ![n][m] = @ + 1]
    /\ UNCHANGED <<phase, relaunches, listening, joined, order, filled, inserting, broken, call>>

(* wg.Wait is over. *)
AllDone(n) == phase[n] = "joining" /\ \A m \in Peers(n) : ~Dialing(n, m)

JoinFails(n) ==
    /\ AllDone(n)
    /\ joined[n] # Peers(n)
    /\ Ends(n)
    /\ Loses(n)

(* Mutants of Sorts: joining counts as done when some peer is reached; the *)
(* node itself is appended after sorting.                                  *)
SortsSomeMutant(n) ==
    /\ AllDone(n)
    /\ joined[n] # {}
    /\ phase' = [phase EXCEPT ![n] = "filling"]
    /\ order' = [order EXCEPT ![n] = Sorted]
    /\ UNCHANGED <<relaunches, listening, tries, joined, filled, inserting, broken, call>>

SortsLateMutant(n) ==
    /\ AllDone(n)
    /\ joined[n] = Peers(n)
    /\ phase' = [phase EXCEPT ![n] = "filling"]
    /\ LET self == CHOOSE i \in 0..(N - 1) : Sorted[i] = n
       IN  order' = [order EXCEPT ![n] = [i \in 0..(N - 1) |->
                        IF i = N - 1 THEN n ELSE IF i < self THEN Sorted[i] ELSE Sorted[i + 1]]]
    /\ UNCHANGED <<relaunches, listening, tries, joined, filled, inserting, broken, call>>

(* Every peer is joined: the node adds itself and sorts. *)
Sorts(n) ==
    /\ AllDone(n)
    /\ joined[n] = Peers(n)
    /\ phase' = [phase EXCEPT ![n] = "filling"]
    /\ order' = [order EXCEPT ![n] = Sorted]
    /\ UNCHANGED <<relaunches, listening, tries, joined, filled, inserting, broken, call>>

(* Mutant of InsertBegin: one index too many. *)
InsertBeginMutant(n) ==
    /\ phase[n] = "filling"
    /\ ~inserting[n]
    /\ filled[n] <= N
    /\ inserting' = [inserting EXCEPT ![n] = TRUE]
    /\ UNCHANGED <<phase, relaunches, listening, tries, joined, order, filled, broken, call>>

(* Indexes go into the ring one after the other; requests do not wait.     *)
InsertBegin(n) ==
    /\ phase[n] = "filling"
    /\ ~inserting[n]
    /\ filled[n] < N
    /\ inserting' = [inserting EXCEPT ![n] = TRUE]
    /\ UNCHANGED <<phase, relaunches, listening, tries, joined, order, filled, broken, call>>

InsertEnd(n) ==
    /\ inserting[n]
    /\ inserting' = [inserting EXCEPT ![n] = FALSE]
    /\ filled' = [filled EXCEPT ![n] = @ + 1]
    /\ UNCHANGED <<phase, relaunches, listening, tries, joined, order, broken, call>>

(* Mutant of ServeHTTP: on a goroutine of its own, beside Start. *)
ServeHTTPMutant(n) ==
    /\ phase[n] = "filling"
    /\ ~inserting[n]
    /\ phase' = [phase EXCEPT ![n] = "serving"]
    /\ UNCHANGED <<relaunches, listening, tries, joined, order, filled, inserting, broken, call>>

(* Start has returned, and main serves clients. *)
ServeHTTP(n) ==
    /\ phase[n] = "filling"
    /\ filled[n] = N
    /\ phase' = [phase EXCEPT ![n] = "serving"]
    /\ UNCHANGED <<relaunches, listening, tries, joined, order, filled, inserting, broken, call>>

-----------------------------------------------------------------------------

Invoke(c, n, p) ==
    /\ call[c].status = "new"
    /\ phase[n] = "serving"
    /\ call' = [call EXCEPT ![c] = [status |-> "open", part |-> p, path |-> <<n>>]]
    /\ UNCHANGED procVars

At(c) == call[c].path[Len(call[c].path)]

(* ring.Find without a lock: what it may find are indexes of the           *)
(* assignment before and after an Insert that is under way; with no        *)
(* element, or a torn slice of elements, it panics.                        *)
Indexes(n, p) ==
    LET sizes == {filled[n]} \cup (IF inserting[n] THEN {filled[n] + 1} ELSE {})
    IN  {p % s : s \in sizes \ {0}}

MayPanic(n) == filled[n] = 0 \/ inserting[n]

(* A panic of Find in a link's handler ends the process of its node; one   *)
(* in its HTTP server costs the client its connection.                     *)
Panics(c) ==
    /\ call[c].status = "open"
    /\ MayPanic(At(c))
    /\ IF Len(call[c].path) > 1
       THEN /\ Ends(At(c))
            /\ call' = [d \in Call |-> IF call[d].status = "open" /\ InChain(d, At(c))
                                       THEN [call[d] EXCEPT !.status =
                                                IF d = c THEN "fatal" ELSE "failed"]
                                       ELSE call[d]]
       ELSE /\ call' = [call EXCEPT ![c].status = "failed"]
            /\ UNCHANGED procVars

Finish(c, status) ==
    /\ call' = [call EXCEPT ![c].status = status]
    /\ UNCHANGED procVars

(* Do, when the node that is found has no connection: the store is asked.  *)
ServeLocal(c) ==
    /\ call[c].status = "open"
    /\ \E i \in Indexes(At(c), call[c].part) : order[At(c)][i] \notin joined[At(c)]
    /\ Finish(c, "served")

Held(l) == \E c \in Call : /\ call[c].status = "open"
                           /\ \E i \in 1..(Len(call[c].path) - 1) :
                                  l = <<call[c].path[i], call[c].path[i + 1]>>

(* Do, when it has one: the request goes there under the connection's      *)
(* mutex, or the write fails.                                              *)
Redirect(c) ==
    /\ call[c].status = "open"
    /\ \E i \in Indexes(At(c), call[c].part) :
           LET m == order[At(c)][i]
               l == <<At(c), m>>
           IN  /\ m \in joined[At(c)]
               /\ ~Held(l)
               /\ IF l \in broken
                  THEN Finish(c, "failed")
                  ELSE /\ call' = [call EXCEPT ![c].path = Append(@, m)]
                       /\ UNCHANGED procVars

Next == \/ \E n \in Node : Launch(n)
        \/ \E n \in Node : Listen(n)
        \/ \E n \in Node : BindFails(n)
        \/ \E n, m \in Node : Dial(n, m)
        \/ \E n, m \in Node : DialFails(n, m)
        \/ \E n \in Node : JoinFails(n)
        \/ \E n \in Node : Sorts(n)
        \/ \E n \in Node : InsertBegin(n)
        \/ \E n \in Node : InsertEnd(n)
        \/ \E n \in Node : ServeHTTP(n)
        \/ \E c \in Call, n \in Node, p \in Partition : Invoke(c, n, p)
        \/ \E c \in Call : Panics(c)
        \/ \E c \in Call : ServeLocal(c)
        \/ \E c \in Call : Redirect(c)

Spec == Init /\ [][Next]_vars

(* The goroutines of Start run; clients and operators need not act.        *)
Fairness ==
    \A n \in Node : /\ \A m \in Node : WF_vars(Dial(n, m) \/ DialFails(n, m))
                    /\ WF_vars(JoinFails(n))
                    /\ WF_vars(Sorts(n))
                    /\ WF_vars(InsertBegin(n))
                    /\ WF_vars(InsertEnd(n))
                    /\ WF_vars(ServeHTTP(n))

FairSpec == Spec /\ Fairness

-----------------------------------------------------------------------------

(* The type invariant. *)
TypeOK ==
    /\ phase \in [Node -> {"off", "joining", "filling", "serving", "ended"}]
    /\ relaunches \in 0..MaxRelaunches
    /\ listening \in [Node -> BOOLEAN]
    /\ tries \in [Node -> [Node -> 0..(retries + 1)]]
    /\ joined \in [Node -> SUBSET Node]
    /\ order \in [Node -> [0..(N - 1) -> Node]]
    /\ filled \in [Node -> 0..N]
    /\ inserting \in [Node -> BOOLEAN]
    /\ broken \subseteq Link
    /\ call \in [Call -> [status : {"new", "open", "served", "failed", "fatal"},
                          part   : Nat,
                          path   : Seq(Node)]]

Owner(p) == Sorted[p % N]

(* Nodes that start by themselves, at any time and in any order, come to   *)
(* one assignment: a client's request goes straight to the owner of its    *)
(* partition, or is served by the node it came to because that one is the  *)
(* owner, whatever the rest of the cluster is up to (server.go:411-422 and *)
(* memhashd.go:107-117).                                                   *)
FirstHopRight ==
    \A c \in Call : LET path == call[c].path
                    IN  /\ Len(path) > 1 => path[2] = Owner(call[c].part)
                        /\ Len(path) = 1 /\ call[c].status = "served" =>
                               path[1] = Owner(call[c].part)

(* Requests are fatal only to nodes that are starting: one that serves     *)
(* clients, and has its listener, stays.                                   *)
ServingNodesStay ==
    [][\A n \in Node : phase[n] = "serving" /\ listening[n] => phase'[n] = "serving"]_vars

(* "After this operation cluster should create a full-mesh of the          *)
(* connections (one to all nodes)" (server.go:224-226).  It does, when     *)
(* every node serves and none had to be launched twice; a process that     *)
(* gave up, though, takes with it the connections that others have made.   *)
MeshFull ==
    relaunches = 0 /\ (\A n \in Node : phase[n] = "serving") =>
        broken = {} /\ \A n \in Node : joined[n] = Peers(n)

(* Start always comes to an end, one way or the other: attempts are        *)
(* limited, and wg.Wait waits for goroutines that all finish.              *)
EveryStartEnds == []<>(\A n \in Node : phase[n] \in {"off", "serving", "ended"})

(* What the proofs of the safety properties add to them: what a process    *)
(* has in each of its phases; that only a process that has ended breaks    *)
(* connections; and that calls under way are with processes that run.      *)
PhaseInv ==
    \A n \in Node :
        /\ phase[n] \in {"off", "joining", "ended"} => filled[n] = 0 /\ ~inserting[n]
        /\ phase[n] \in {"filling", "serving"} => joined[n] = Peers(n) /\ order[n] = Sorted
        /\ phase[n] = "serving" => filled[n] = N /\ ~inserting[n]
        /\ inserting[n] => filled[n] < N

BrokenInv == relaunches = 0 => \A l \in broken : phase[l[2]] = "ended"

CallInv ==
    \A c \in Call :
        /\ call[c].status # "new" => call[c].path # <<>>
        /\ call[c].status = "open" => phase[call[c].path[1]] = "serving"

IInv == TypeOK /\ PhaseInv /\ BrokenInv /\ CallInv /\ FirstHopRight

(* Do "processes request according to the location of the nodes in a       *)
(* cluster" and "redirects a request to another node if necessary"         *)
(* (server.go:491-493): the node a request is redirected to is its owner,  *)
(* and serves it.                                                          *)
RedirectsReachOwner ==
    \A c \in Call : Len(call[c].path) <= 2 /\ call[c].status # "fatal"

=============================================================================
