--------------------------- MODULE ClusterProofs ---------------------------
(***************************************************************************)
(* The cluster, for any number of nodes, calls and keys: the wire carries  *)
(* one round trip at a time, answers find their callers, and, when every   *)
(* node sorts the nodes alike, all the nodes together are one map.         *)
(***************************************************************************)
EXTENDS Cluster, FiniteSetTheorems, TLAPS

(***************************************************************************)
(* The inductive invariant of the wire.  A link is empty or carries one    *)
(* call, as a request, in the hands of its handler, or as a response.      *)
(***************************************************************************)
Running(t) == task[t].pc # "idle"

Empty(l) == req[l] = <<>> /\ resp[l] = <<>> /\ task[l] = Resting

Requested(l, c) == req[l] = <<c>> /\ resp[l] = <<>> /\ task[l] = Resting

Handled(l, c) == req[l] = <<>> /\ resp[l] = <<>> /\ Running(l) /\ task[l].call = c

Answered(l, c) ==
    /\ req[l] = <<>> /\ task[l] = Resting
    /\ \E r \in Replies : resp[l] = <<[call |-> c, reply |-> r]>>

Carries(l, c) == Requested(l, c) \/ Handled(l, c) \/ Answered(l, c)

(* A broken connection may still carry the call of a round trip that was   *)
(* given up, until its handler has seen it; one that works, only the call  *)
(* of the task that has the mutex.                                         *)
WireOK(l) ==
    /\ Empty(l) \/ \E c \in Call : Carries(l, c) /\ status[c] # "new"
    /\ mu[l] = Nobody => resp[l] = <<>> /\ (l \notin broken => Empty(l))
    /\ \A t \in Task : mu[l] = t =>
           /\ task[t].pc = "waiting" /\ Via(t) = l
           /\ Empty(l) => l \in broken
           /\ \A c \in Call : Carries(l, c) => c = task[t].call

TaskOK(t) ==
    /\ task[t].pc = "idle" => task[t] = Resting
    /\ Running(t) => /\ task[t].call \in Call
                     /\ status[task[t].call] # "new"
                     /\ NodeOf(t) \in up
    /\ task[t].pc = "waiting" => Target(t) # NodeOf(t) /\ mu[Via(t)] = t
    /\ t \in Call /\ Running(t) => task[t].call = t /\ status[t] = "open"

IInv == /\ TypeOK
        /\ \A l \in Link : WireOK(l)
        /\ \A t \in Task : TaskOK(t)

(***************************************************************************)
(* What the refinement adds.  A call that can still take effect is in one  *)
(* place: with a task that is about to serve or send it, or on its way.    *)
(***************************************************************************)
Holds(t, c) == \/ task[t].pc = "do" /\ task[t].call = c
               \/ t \in Link /\ req[t] = <<c>>

Earned(c, r) == r = Map!Failed \/ (r = effect[c] /\ r # Map!NoReply)

Once == \A c \in Call :
    /\ status[c] = "new" => effect[c] = Map!NoReply
    /\ \A t \in Task : Holds(t, c) =>
           /\ status[c] # "new" /\ effect[c] = Map!NoReply
           /\ \A u \in Task : Holds(u, c) => u = t

RepliesEarned ==
    /\ \A t \in Task : task[t].pc = "done" => Earned(task[t].call, task[t].reply)
    /\ \A l \in Link : resp[l] # <<>> => Earned(Head(resp[l]).call, Head(resp[l]).reply)

(* A key is stored only where it belongs, as its node has it. *)
OwnerHolds == \A n \in Node, k \in Key : store[n][k] # NoValue => Owner(n, k) = n

RInv == IInv /\ Once /\ RepliesEarned /\ OwnerHolds

-----------------------------------------------------------------------------

(***************************************************************************)
(* The owner of a key.  The index a node gives another is the number of    *)
(* nodes it sorts before it.                                               *)
(***************************************************************************)
Before(n, m) == {x \in Node : Addr[n][x] < Addr[n][m]}

LEMMA NodeCount == Cardinality(Node) \in Nat /\ Cardinality(Node) > 0
BY AddrAssumption, FS_CardinalityType, FS_EmptySet

LEMMA IndexInRange ==
    ASSUME NEW n \in Node, NEW m \in Node
    PROVE  Index(n, m) \in 0..(Cardinality(Node) - 1)
<1> DEFINE B == Before(n, m)
           c == Cardinality(B)
           N == Cardinality(Node)
<1>1. B \in SUBSET Node /\ m \notin B
  BY AddrAssumption DEF Before
<1>2. IsFiniteSet(B) /\ c \in Nat /\ c <= N /\ (N = c => Node = B)
  <2> HIDE DEF B
  <2> QED BY <1>1, AddrAssumption, FS_Subset, FS_CardinalityType
<1>3. c # N
  BY <1>1, <1>2
<1>4. Index(n, m) = c
  BY DEF Index, Before
<1> HIDE DEF c, N
<1>5. c \in 0..(N - 1)
  BY <1>2, <1>3, NodeCount DEF N
<1> QED
  BY <1>4, <1>5 DEF N

LEMMA IndexInjective ==
    ASSUME NEW n \in Node, NEW m \in Node, NEW x \in Node, Addr[n][m] < Addr[n][x]
    PROVE  Index(n, m) # Index(n, x)
<1> DEFINE B == Before(n, m)
           C == Before(n, x)
<1>1. B \in SUBSET C /\ m \in C /\ m \notin B /\ C \in SUBSET Node
  BY AddrAssumption DEF Before
<1>2. Cardinality(B) # Cardinality(C)
  <2> HIDE DEF B, C
  <2>1. IsFiniteSet(C)
    BY <1>1, AddrAssumption, FS_Subset
  <2> QED BY <1>1, <2>1, FS_Subset
<1> QED
  BY <1>2 DEF Index, Before

(* Every partition has its node, and one node only. *)
LEMMA OwnerIsNode ==
    ASSUME NEW n \in Node, NEW k \in Key
    PROVE  /\ Owner(n, k) \in Node
           /\ Index(n, Owner(n, k)) = Partition[k] % Cardinality(Node)
<1> DEFINE N == Cardinality(Node)
           I == 0..(N - 1)
           f == [m \in Node |-> Index(n, m)]
<1>1. N \in Nat /\ N > 0
  BY NodeCount
<1>2. f \in [Node -> I]
  BY IndexInRange
<1>3. \A m, x \in Node : f[m] = f[x] => m = x
  <2> SUFFICES ASSUME NEW m \in Node, NEW x \in Node, m # x
               PROVE  Index(n, m) # Index(n, x)
    OBVIOUS
  <2>1. Addr[n][m] < Addr[n][x] \/ Addr[n][x] < Addr[n][m]
    <3>1. Addr[n] \in [Node -> Int] /\ Addr[n][m] # Addr[n][x]
      BY AddrAssumption
    <3> QED BY <3>1
  <2> QED BY <2>1, IndexInjective
<1>4. IsFiniteSet(I) /\ Cardinality(I) = N
  <2> HIDE DEF N
  <2> QED BY <1>1, FS_Interval
<1>5. f \in Injection(Node, I)
  BY <1>2, <1>3 DEF Injection, IsInjective
<1>6. f \in Surjection(Node, I)
  <2> HIDE DEF f, N
  <2> QED BY <1>4, <1>5, FS_Injection DEF N
<1>7. Partition[k] % N \in I
  <2> HIDE DEF N
  <2> QED BY <1>1, PartitionAssumption
<1>8. \E m \in Node : Index(n, m) = Partition[k] % N
  BY <1>6, <1>7 DEF Surjection
<1> QED
  BY <1>8 DEF Owner

-----------------------------------------------------------------------------

LEMMA ReplyFacts ==
    ASSUME TypeOK, NEW c \in Call, NEW v \in Call \cup {NoValue}
    PROVE  /\ Map!NoReply \in Replies /\ Map!Failed \in Replies
           /\ Map!ReplyTo(c, v) \in Replies /\ Map!ReplyTo(c, v) # Map!NoReply
           /\ Map!ValueAfter(c, v) \in Call \cup {NoValue}
<1>1. request[c].op \in {"store", "load", "delete"}
  BY DEF TypeOK, Map!Op
<1> QED
  BY <1>1 DEF Replies, Map!NoReply, Map!Failed, Map!ReplyTo, Map!ValueAfter, Map!Ok, Map!Missing

LEMMA RestingFacts ==
    /\ Resting.pc = "idle" /\ Resting.call = Nobody /\ Resting.reply = Map!NoReply
    /\ Map!NoReply \in Replies /\ Map!Failed \in Replies /\ Map!Failed # Map!NoReply
BY DEF Resting, Map!NoReply, Map!Failed, Replies

(* The nodes a running task is at and is bound for. *)
LEMMA Places ==
    ASSUME TypeOK, NEW t \in Task
    PROVE  /\ NodeOf(t) \in Node
           /\ task[t].call \in Call =>
                /\ Target(t) \in Node
                /\ Target(t) # NodeOf(t) => Via(t) \in Link
<1>1. NodeOf(t) \in Node
  BY DEF TypeOK, Task, Link, NodeOf
<1>2. ASSUME task[t].call \in Call
      PROVE  Target(t) \in Node
  BY <1>1, <1>2, OwnerIsNode DEF TypeOK, Target
<1> QED
  BY <1>1, <1>2 DEF Via, Link

LEMMA InitIInv == Init => IInv
<1> SUFFICES ASSUME Init PROVE IInv
  OBVIOUS
<1> USE RestingFacts
<1>1. Map!NoRequest \in [op : Map!Op, key : Key]
  BY PartitionAssumption DEF Map!NoRequest, Map!Op
<1>2. TypeOK
  BY <1>1, BoundAssumption DEF Init, TypeOK, TaskState, Resting
<1>3. \A l \in Link : WireOK(l)
  BY ValueAssumption DEF Init, WireOK, Empty, Task
<1>4. \A t \in Task : TaskOK(t)
  BY DEF Init, TaskOK, Running
<1> QED
  BY <1>2, <1>3, <1>4 DEF IInv

(* What the elements of the state are, one by one. *)
LEMMA Elements ==
    ASSUME TypeOK
    PROVE  /\ \A t \in Task : /\ task[t] \in TaskState
                               /\ task[t].pc \in {"idle", "do", "waiting", "done"}
                               /\ task[t].call \in Call \cup {Nobody}
                               /\ task[t].reply \in Replies
           /\ \A c \in Call : c \in Task /\ request[c].key \in Key /\ request[c].op \in Map!Op
           /\ \A l \in Link : /\ l \in Task /\ l \notin Call
                               /\ req[l] \in Seq(Call) /\ resp[l] \in Seq(Response)
           /\ \A n \in Node, k \in Key : store[n][k] \in Call \cup {NoValue}
BY ValueAssumption DEF TypeOK, Task, TaskState

(* What the states of a task become in the actions. *)
LEMMA NewStates ==
    /\ Resting \in TaskState
    /\ \A c \in Call : [Resting EXCEPT !.pc = "do", !.call = c] \in TaskState
    /\ \A s \in TaskState :
          /\ [s EXCEPT !.pc = "waiting"] \in TaskState
          /\ \A r \in Replies : [s EXCEPT !.pc = "done", !.reply = r] \in TaskState
    /\ \A c \in Call, r \in Replies : [call |-> c, reply |-> r] \in Response
BY RestingFacts DEF TaskState, Resting, Response

LEMMA SequenceFacts ==
    ASSUME NEW S
    PROVE  /\ <<>> \in Seq(S)
           /\ \A s \in Seq(S), e \in S : Append(s, e) \in Seq(S)
           /\ \A s \in Seq(S) : s # <<>> => Head(s) \in S /\ Tail(s) \in Seq(S)
           /\ \A e \in S : /\ Append(<<>>, e) = <<e>> /\ <<e>> # <<>>
                            /\ Head(<<e>>) = e /\ Tail(<<e>>) = <<>>
OBVIOUS

LEMMA TypeStep == IInv /\ Next => TypeOK'
<1> SUFFICES ASSUME IInv, Next PROVE TypeOK'
  OBVIOUS
<1>0. TypeOK /\ \A t \in Task : TaskOK(t)
  BY DEF IInv
<1>1. ASSUME NEW c \in Call, NEW op \in Map!Op, NEW k \in Key, Invoke(c, op, k)
      PROVE  TypeOK'
  BY <1>0, <1>1, RestingFacts DEF Invoke, TypeOK, wireVars, Resting, TaskState, Task
<1>2. ASSUME NEW t \in Task, Serve(t)
      PROVE  TypeOK'
  <2> DEFINE c == task[t].call
             k == request[c].key
             n == NodeOf(t)
  <2>1. c \in Call /\ k \in Key /\ n \in Node /\ store[n][k] \in Call \cup {NoValue}
    BY <1>0, <1>2, Places DEF Serve, TaskOK, Running, TypeOK
  <2>2. Map!ReplyTo(c, store[n][k]) \in Replies /\ Map!ValueAfter(c, store[n][k]) \in Call \cup {NoValue}
    BY <1>0, <2>1, ReplyFacts
  <2> QED BY <1>0, <1>2, <2>1, <2>2 DEF Serve, TypeOK, TaskState, wireVars
<1>3. ASSUME NEW t \in Task, Send(t)
      PROVE  TypeOK'
  <2>1. task[t].call \in Call /\ Via(t) \in Link
    BY <1>0, <1>3, Places DEF Send, TaskOK, Running
  <2>2. Append(req[Via(t)], task[t].call) \in Seq(Call)
    BY <1>0, <2>1, Elements, SequenceFacts
  <2>3. CASE Via(t) \in broken
    <3>1. /\ task' = [task EXCEPT ![t] = [@ EXCEPT !.pc = "done", !.reply = Map!Failed]]
          /\ UNCHANGED <<req, mu>>
      BY <1>3, <2>3 DEF Send
    <3>2. task' \in [Task -> TaskState]
      BY <1>0, <3>1, Elements, NewStates, RestingFacts DEF TypeOK
    <3> QED BY <1>0, <1>3, <3>1, <3>2 DEF Send, TypeOK, callVars
  <2>4. CASE Via(t) \notin broken
    <3>1. /\ task' = [task EXCEPT ![t] = [@ EXCEPT !.pc = "waiting"]]
          /\ mu' = [mu EXCEPT ![Via(t)] = t]
          /\ req' = [req EXCEPT ![Via(t)] = Append(@, task[t].call)]
      BY <1>3, <2>4 DEF Send
    <3>2. task' \in [Task -> TaskState]
      BY <1>0, <3>1, Elements, NewStates DEF TypeOK
    <3>3. req' \in [Link -> Seq(Call)] /\ mu' \in [Link -> Task \cup {Nobody}]
      BY <1>0, <2>1, <2>2, <3>1 DEF TypeOK
    <3> QED BY <1>0, <1>3, <3>2, <3>3 DEF Send, TypeOK, callVars
  <2> QED BY <2>3, <2>4
<1>4. ASSUME NEW t \in Task, Receive(t)
      PROVE  TypeOK'
  <2>1. task[t].call \in Call /\ Via(t) \in Link
    BY <1>0, <1>4, Places DEF Receive, TaskOK, Running
  <2>2. Head(resp[Via(t)]).reply \in Replies /\ Tail(resp[Via(t)]) \in Seq(Response)
    <3>1. resp[Via(t)] \in Seq(Response) /\ resp[Via(t)] # <<>>
      BY <1>0, <1>4, <2>1, Elements DEF Receive
    <3>2. Head(resp[Via(t)]) \in Response /\ Tail(resp[Via(t)]) \in Seq(Response)
      BY <3>1, SequenceFacts
    <3> QED BY <3>2 DEF Response
  <2>3. task' \in [Task -> TaskState]
    BY <1>0, <1>4, <2>2, Elements, NewStates DEF Receive, TypeOK
  <2> QED BY <1>0, <1>4, <2>2, <2>3 DEF Receive, TypeOK, callVars
<1>5. ASSUME NEW t \in Task, ReadFails(t)
      PROVE  TypeOK'
  <2>1. task[t].call \in Call /\ Via(t) \in Link
    BY <1>0, <1>5, Places DEF ReadFails, TaskOK, Running
  <2>2. task' \in [Task -> TaskState]
    BY <1>0, <1>5, Elements, NewStates, RestingFacts DEF ReadFails, TypeOK
  <2> QED BY <1>0, <1>5, <2>1, <2>2, SequenceFacts DEF ReadFails, TypeOK, callVars
<1>6. ASSUME NEW c \in Call, Return(c)
      PROVE  TypeOK'
  BY <1>0, <1>6, RestingFacts DEF Return, TypeOK, wireVars, Task, TaskState, Resting
<1>7. ASSUME NEW l \in Link, Handle(l)
      PROVE  TypeOK'
  <2>1. Head(req[l]) \in Call /\ Tail(req[l]) \in Seq(Call)
    BY <1>0, <1>7, Elements, SequenceFacts DEF Handle
  <2>2. task' \in [Task -> TaskState]
    BY <1>0, <1>7, <2>1, NewStates DEF Handle, TypeOK
  <2> QED BY <1>0, <1>7, <2>1, <2>2 DEF Handle, TypeOK, callVars
<1>8. ASSUME NEW l \in Link, Reply(l)
      PROVE  TypeOK'
  <2>1. task[l].call \in Call /\ task[l].reply \in Replies
    BY <1>0, <1>8, Elements DEF Reply, TaskOK, Running
  <2> DEFINE r == [call |-> task[l].call, reply |-> task[l].reply]
  <2>2. r \in Response
    BY <2>1, NewStates
  <2>3. resp[l] \in Seq(Response)
    BY <1>0, Elements
  <2>4. Append(resp[l], r) \in Seq(Response)
    <3> HIDE DEF r
    <3> QED BY <2>2, <2>3, SequenceFacts
  <2> QED BY <1>0, <1>8, <2>4, NewStates DEF Reply, TypeOK, callVars
<1>9. ASSUME NEW l \in Link, HandlerExits(l)
      PROVE  TypeOK'
  BY <1>0, <1>9, SequenceFacts DEF HandlerExits, TypeOK, callVars
<1>10. ASSUME NEW n \in Node, NEW k \in Key, Evict(n, k)
       PROVE  TypeOK'
  BY <1>0, <1>10 DEF Evict, TypeOK, callVars, wireVars
<1>11. ASSUME NEW l \in Link, Break(l)
       PROVE  TypeOK'
  <2>1. failures' \in 0..MaxFailures
    BY <1>0, <1>11, BoundAssumption DEF Break, TypeOK
  <2> QED BY <1>0, <1>11, <2>1 DEF Break, TypeOK, callVars
<1>12. ASSUME NEW n \in Node, Crash(n)
       PROVE  TypeOK'
  <2>1. req' \in [Link -> Seq(Call)] /\ resp' \in [Link -> Seq(Response)]
    BY <1>0, <1>12, SequenceFacts, Elements DEF Crash
  <2>2. /\ task' \in [Task -> TaskState] /\ mu' \in [Link -> Task \cup {Nobody}]
        /\ store' \in [Node -> [Key -> Call \cup {NoValue}]]
    BY <1>0, <1>12, NewStates DEF Crash, TypeOK
  <2>3. status' \in [Call -> {"new", "open", "returned"}] /\ answer' \in [Call -> Replies]
    BY <1>0, <1>12, RestingFacts DEF Crash, TypeOK
  <2>4. up' \in SUBSET Node /\ broken' \in SUBSET Link
    BY <1>0, <1>12 DEF Crash, TypeOK
  <2>5. failures' \in 0..MaxFailures
    BY <1>0, <1>12, BoundAssumption DEF Crash, TypeOK
  <2> QED BY <1>0, <1>12, <2>1, <2>2, <2>3, <2>4, <2>5 DEF Crash, TypeOK
<1>13. ASSUME NEW n \in Node, Restart(n)
       PROVE  TypeOK'
  BY <1>0, <1>13 DEF Restart, TypeOK, callVars
<1>14. CASE Quiet
  BY <1>0, <1>14 DEF Quiet, vars, TypeOK, callVars, wireVars
<1> QED
  BY <1>1, <1>2, <1>3, <1>4, <1>5, <1>6, <1>7, <1>8, <1>9, <1>10, <1>11, <1>12, <1>13, <1>14 DEF Next

-----------------------------------------------------------------------------

(***************************************************************************)
(* What an action does not touch stays right.                              *)
(***************************************************************************)
Steady ==
    /\ at' = at
    /\ \A c \in Call : status[c] # "new" => status'[c] # "new" /\ request'[c] = request[c]

LinkKept(l) ==
    /\ req'[l] = req[l] /\ resp'[l] = resp[l] /\ task'[l] = task[l]
    /\ mu'[l] = mu[l]
    /\ l \in broken' <=> l \in broken

LEMMA SteadyStep == IInv /\ Next => Steady
<1> SUFFICES ASSUME IInv, Next PROVE Steady
  OBVIOUS
<1>0. TypeOK
  BY DEF IInv
<1>1. ASSUME NEW c \in Call, NEW op \in Map!Op, NEW k \in Key, Invoke(c, op, k)
      PROVE  Steady
  BY <1>0, <1>1 DEF Invoke, Steady, TypeOK
<1>2. ASSUME NEW c \in Call, Return(c)
      PROVE  Steady
  BY <1>0, <1>2 DEF Return, Steady, TypeOK
<1>3. ASSUME NEW n \in Node, Crash(n)
      PROVE  Steady
  BY <1>0, <1>3 DEF Crash, Steady, TypeOK
<1> QED
  BY <1>1, <1>2, <1>3
  DEF Next, Serve, Send, Receive, ReadFails, Handle, Reply, HandlerExits, Evict, Break,
      Restart, Quiet, Steady, vars, callVars

(* A running task stays where it is, bound for where it was. *)
LEMMA PlacesKept ==
    ASSUME IInv, Steady, NEW t \in Task, Running(t), task'[t].call = task[t].call
    PROVE  /\ NodeOf(t)' = NodeOf(t)
           /\ Target(t)' = Target(t)
           /\ Via(t)' = Via(t)
<1>1. task[t].call \in Call /\ status[task[t].call] # "new"
  BY DEF IInv, TaskOK
<1>2. NodeOf(t)' = NodeOf(t)
  BY DEF Steady, NodeOf
<1>3. Target(t)' = Target(t)
  BY <1>1, <1>2 DEF Steady, Target
<1> QED
  BY <1>2, <1>3 DEF Via

LEMMA WireFrame ==
    ASSUME IInv, Steady, NEW l \in Link, LinkKept(l),
           \A t \in Task : mu[l] = t => task'[t] = task[t]
    PROVE  WireOK(l)'
<1>1. WireOK(l) /\ mu[l] \in Task \cup {Nobody}
  BY DEF IInv, TypeOK
<1>2. \A c \in Call : Carries(l, c)' <=> Carries(l, c)
  BY DEF LinkKept, Carries, Requested, Handled, Answered, Running
<1>3. Empty(l)' <=> Empty(l)
  BY DEF LinkKept, Empty
<1>4. \A t \in Task : mu[l] = t => Via(t)' = l
  BY <1>1, PlacesKept DEF WireOK, Running
<1> QED
  BY <1>1, <1>2, <1>3, <1>4 DEF WireOK, LinkKept, Steady

LEMMA TaskFrame ==
    ASSUME IInv, Steady, NEW t \in Task, task'[t] = task[t],
           Running(t) => NodeOf(t) \in up',
           t \in Call /\ Running(t) => status'[t] = status[t],
           task[t].pc = "waiting" => mu'[Via(t)] = mu[Via(t)]
    PROVE  TaskOK(t)'
<1>1. TaskOK(t)
  BY DEF IInv
<1>2. CASE ~Running(t)
  BY <1>1, <1>2 DEF TaskOK, Running
<1>3. CASE Running(t)
  <2>1. NodeOf(t)' = NodeOf(t) /\ Target(t)' = Target(t) /\ Via(t)' = Via(t)
    BY <1>3, PlacesKept
  <2> QED BY <1>1, <1>3, <2>1 DEF TaskOK, Running, Steady
<1> QED
  BY <1>2, <1>3

(* The connections stay as they are, and a task that is not waiting serves *)
(* or fails its call, or a call's task begins or ends.                     *)
LEMMA WiresRest ==
    ASSUME IInv, Steady, UNCHANGED wireVars, NEW t \in Task,
           \A u \in Task : u # t => task'[u] = task[u],
           task[t].pc # "waiting",
           t \in Link => Running(t) /\ task'[t].pc # "idle" /\ task'[t].call = task[t].call,
           NEW l \in Link
    PROVE  WireOK(l)'
<1>1. WireOK(l) /\ mu[l] \in Task \cup {Nobody}
  BY DEF IInv, TypeOK
<1>2. \A u \in Task : mu[l] = u => task'[u] = task[u]
  BY <1>1 DEF WireOK
<1>3. CASE l # t
  <2>1. l \in Task
    BY DEF Task
  <2> QED BY <1>2, <1>3, <2>1, WireFrame DEF LinkKept, wireVars
<1>4. CASE l = t
  <2>1. Running(l) /\ Running(l)' /\ task'[l].call = task[l].call
    BY <1>4 DEF Running
  <2>2. task[l] # Resting /\ task'[l] # Resting
    BY <2>1, RestingFacts DEF Running
  <2>3. \A c \in Call : Carries(l, c)' <=> Carries(l, c)
    BY <2>1, <2>2 DEF wireVars, Carries, Requested, Handled, Answered
  <2>4. ~Empty(l)' /\ ~Empty(l)
    BY <2>2 DEF Empty
  <2>5. \A u \in Task : mu[l] = u => Via(u)' = l
    BY <1>1, <1>2, PlacesKept DEF WireOK, Running
  <2> QED BY <1>1, <1>2, <2>3, <2>4, <2>5 DEF WireOK, wireVars, Steady
<1> QED
  BY <1>3, <1>4

-----------------------------------------------------------------------------

(***************************************************************************)
(* Each action keeps the wires and the tasks right.                        *)
(***************************************************************************)
WiresAndTasks == (\A l \in Link : WireOK(l)) /\ (\A t \in Task : TaskOK(t))

LEMMA InvokeStep ==
    ASSUME IInv, Steady, TypeOK', NEW c \in Call, NEW op \in Map!Op, NEW k \in Key,
           Invoke(c, op, k)
    PROVE  WiresAndTasks'
<1>0. TypeOK /\ c \in Task /\ TaskOK(c) /\ c \notin Link
  BY ValueAssumption DEF IInv, Task
<1>1. /\ ~Running(c) /\ UNCHANGED <<up, wireVars>>
      /\ status' = [status EXCEPT ![c] = "open"]
      /\ \A u \in Task : u # c => task'[u] = task[u]
      /\ task'[c].pc = "do" /\ task'[c].call = c
  BY <1>0 DEF Invoke, TaskOK, TypeOK, Running, Resting
<1>2. \A l \in Link : WireOK(l)'
  BY <1>0, <1>1, WiresRest DEF Running
<1>3. ASSUME NEW t \in Task
      PROVE  TaskOK(t)'
  <2>1. CASE t = c
    <3>1. NodeOf(c)' \in up' /\ status'[c] = "open"
      BY <1>0, <1>1 DEF NodeOf, Invoke, TypeOK
    <3> QED BY <1>1, <2>1, <3>1 DEF TaskOK, Running
  <2>2. CASE t # c
    <3>1. t \in Call => status'[t] = status[t]
      BY <1>0, <1>1, <2>2 DEF TypeOK
    <3>2. task'[t] = task[t] /\ (Running(t) => NodeOf(t) \in up') /\ mu' = mu
      BY <1>1, <2>2 DEF IInv, TaskOK, wireVars
    <3> QED BY <3>1, <3>2, TaskFrame
  <2> QED BY <2>1, <2>2
<1> QED
  BY <1>2, <1>3 DEF WiresAndTasks

(* A task serves its call, or fails to send it. *)
LEMMA ServedStep ==
    ASSUME IInv, Steady, UNCHANGED <<up, wireVars, status>>, NEW t \in Task,
           task[t].pc = "do", NEW r,
           task' = [task EXCEPT ![t] = [@ EXCEPT !.pc = "done", !.reply = r]]
    PROVE  WiresAndTasks'
<1>0. TypeOK /\ TaskOK(t) /\ Running(t)
  BY DEF IInv, Running
<1>1. /\ \A u \in Task : u # t => task'[u] = task[u]
      /\ task'[t].pc = "done" /\ task'[t].call = task[t].call
  BY <1>0 DEF TypeOK, TaskState
<1>2. \A l \in Link : WireOK(l)'
  BY <1>0, <1>1, WiresRest
<1>3. ASSUME NEW u \in Task
      PROVE  TaskOK(u)'
  <2>1. CASE u = t
    <3>1. NodeOf(t)' = NodeOf(t)
      BY <1>0, <1>1, PlacesKept
    <3> QED BY <1>0, <1>1, <2>1, <3>1 DEF TaskOK, Running
  <2>2. CASE u # t
    <3>1. task'[u] = task[u] /\ (Running(u) => NodeOf(u) \in up') /\ mu' = mu /\ status' = status
      BY <1>1, <2>2 DEF IInv, TaskOK, wireVars
    <3> QED BY <3>1, TaskFrame
  <2> QED BY <2>1, <2>2
<1> QED
  BY <1>2, <1>3 DEF WiresAndTasks

LEMMA ReturnStep ==
    ASSUME IInv, Steady, TypeOK', NEW c \in Call, Return(c)
    PROVE  WiresAndTasks'
<1>0. TypeOK /\ c \in Task /\ TaskOK(c) /\ c \notin Link
  BY ValueAssumption DEF IInv, Task
<1>1. /\ task[c].pc = "done" /\ UNCHANGED <<up, wireVars>>
      /\ status' = [status EXCEPT ![c] = "returned"]
      /\ \A u \in Task : u # c => task'[u] = task[u]
      /\ task'[c] = Resting
  BY <1>0 DEF Return, TypeOK
<1>2. \A l \in Link : WireOK(l)'
  BY <1>0, <1>1, WiresRest
<1>3. ASSUME NEW t \in Task
      PROVE  TaskOK(t)'
  <2>1. CASE t = c
    BY <1>1, <2>1, RestingFacts DEF TaskOK, Running
  <2>2. CASE t # c
    <3>1. t \in Call => status'[t] = status[t]
      BY <1>0, <1>1, <2>2 DEF TypeOK
    <3>2. task'[t] = task[t] /\ (Running(t) => NodeOf(t) \in up') /\ mu' = mu
      BY <1>1, <2>2 DEF IInv, TaskOK, wireVars
    <3> QED BY <3>1, <3>2, TaskFrame
  <2> QED BY <2>1, <2>2
<1> QED
  BY <1>2, <1>3 DEF WiresAndTasks

(* A task takes the mutex of its link, which was empty, and writes.        *)
LEMMA SentStep ==
    ASSUME IInv, Steady, NEW t \in Task, task[t].pc = "do", Target(t) # NodeOf(t),
           NEW l \in Link, Via(t) = l, NEW c \in Call, task[t].call = c,
           mu[l] = Nobody, l \notin broken,
           mu' = [mu EXCEPT ![l] = t],
           req' = [req EXCEPT ![l] = Append(@, c)],
           task' = [task EXCEPT ![t] = [@ EXCEPT !.pc = "waiting"]],
           UNCHANGED <<up, broken, resp, status>>
    PROVE  WiresAndTasks'
<1>0. TypeOK /\ TaskOK(t) /\ Running(t)
  BY DEF IInv, Running
<1>2. WireOK(l) /\ Empty(l)
  BY DEF IInv, WireOK
<1>3. l # t /\ l \in Task
  BY <1>0, <1>2, RestingFacts DEF Empty, Running, Task
<1>4. /\ \A u \in Task : u # t => task'[u] = task[u]
      /\ task'[t].pc = "waiting" /\ task'[t].call = c
      /\ \A i \in Link : i # l => mu'[i] = mu[i] /\ req'[i] = req[i]
      /\ mu'[l] = t
  BY <1>0 DEF TypeOK, TaskState
<1>5. NodeOf(t)' = NodeOf(t) /\ Target(t)' = Target(t) /\ Via(t)' = l
  BY <1>0, <1>4, PlacesKept
<1>6. Requested(l, c)' /\ req'[l] # <<>>
  <2>1. req'[l] = Append(<<>>, c)
    BY <1>0, <1>2 DEF TypeOK, Empty
  <2>2. req'[l] = <<c>> /\ <<c>> # <<>>
    BY <2>1, SequenceFacts
  <2> QED BY <1>2, <1>3, <1>4, <2>2 DEF Requested, Empty
<1>7. WireOK(l)'
  <2>1. ~Empty(l)' /\ status'[c] # "new" /\ t # Nobody
    BY <1>0, <1>6, ValueAssumption DEF Empty, TaskOK, Task
  <2>2. \A d \in Call : Carries(l, d)' => d = c
    BY <1>6 DEF Carries, Requested, Handled, Answered
  <2> QED BY <1>4, <1>5, <1>6, <2>1, <2>2 DEF WireOK, Carries
<1>8. ASSUME NEW i \in Link, i # l
      PROVE  WireOK(i)'
  <2>0. WireOK(i) /\ i \in Task /\ mu'[i] = mu[i] /\ req'[i] = req[i]
    BY <1>4, <1>8 DEF IInv, Task
  <2>1. \A u \in Task : mu[i] = u => task'[u] = task[u]
    BY <2>0, <1>4 DEF WireOK
  <2>2. CASE i # t
    BY <1>4, <2>0, <2>1, <2>2, WireFrame DEF LinkKept
  <2>3. CASE i = t
    <3>1. Running(i) /\ Running(i)' /\ task'[i].call = task[i].call
      BY <1>0, <1>4, <2>3 DEF Running
    <3>2. task[i] # Resting /\ task'[i] # Resting
      BY <3>1, RestingFacts DEF Running
    <3>3. \A d \in Call : Carries(i, d)' <=> Carries(i, d)
      BY <2>0, <3>1, <3>2 DEF Carries, Requested, Handled, Answered
    <3>4. ~Empty(i)' /\ ~Empty(i)
      BY <3>2 DEF Empty
    <3>5. \A u \in Task : mu[i] = u => Via(u)' = i
      BY <2>0, <2>1, PlacesKept DEF WireOK, Running
    <3> QED BY <2>0, <2>1, <3>3, <3>4, <3>5 DEF WireOK, Steady
  <2> QED BY <2>2, <2>3
<1>9. ASSUME NEW u \in Task
      PROVE  TaskOK(u)'
  <2>1. CASE u = t
    BY <1>0, <1>4, <1>5, <2>1 DEF TaskOK, Running
  <2>2. CASE u # t
    <3>1. task'[u] = task[u] /\ (Running(u) => NodeOf(u) \in up') /\ status' = status
      BY <1>4, <2>2 DEF IInv, TaskOK
    <3>2. task[u].pc = "waiting" => Via(u) \in Link /\ Via(u) # l
      BY <1>0, Places, ValueAssumption DEF IInv, TaskOK, Running, Task
    <3>3. task[u].pc = "waiting" => mu'[Via(u)] = mu[Via(u)]
      BY <1>4, <3>2
    <3> QED BY <3>1, <3>3, TaskFrame
  <2> QED BY <2>1, <2>2
<1> QED
  BY <1>7, <1>8, <1>9 DEF WiresAndTasks

(* A task gives the mutex back, with an answer or an error, and leaves no  *)
(* response behind.                                                        *)
LEMMA ReceivedStep ==
    ASSUME IInv, Steady, NEW t \in Task, task[t].pc = "waiting",
           NEW l \in Link, Via(t) = l, resp[l] # <<>> \/ l \in broken, NEW r,
           task' = [task EXCEPT ![t] = [@ EXCEPT !.pc = "done", !.reply = r]],
           resp' = [resp EXCEPT ![l] = <<>>],
           mu' = [mu EXCEPT ![l] = Nobody],
           UNCHANGED <<up, broken, req, status>>
    PROVE  WiresAndTasks'
<1>0. TypeOK /\ TaskOK(t) /\ Running(t) /\ mu[l] = t /\ WireOK(l)
  BY DEF IInv, Running, TaskOK
<1>1. l # t /\ l \in Task
  BY ValueAssumption DEF Via, NodeOf, Link, Task
<1>2. /\ \A u \in Task : u # t => task'[u] = task[u]
      /\ task'[t].pc = "done" /\ task'[t].call = task[t].call
      /\ \A i \in Link : i # l => mu'[i] = mu[i] /\ resp'[i] = resp[i]
      /\ mu'[l] = Nobody /\ resp'[l] = <<>> /\ task'[l] = task[l]
  BY <1>0, <1>1 DEF TypeOK, TaskState
<1>3. WireOK(l)'
  <2>1. \A c \in Call : /\ Requested(l, c) => Requested(l, c)'
                        /\ Handled(l, c) => Handled(l, c)'
                        /\ Answered(l, c) => Empty(l)'
    BY <1>2 DEF Requested, Handled, Answered, Empty, Running
  <2>2. Empty(l) => Empty(l)'
    BY <1>2 DEF Empty
  <2>3. Empty(l)' \/ \E c \in Call : Carries(l, c)' /\ status'[c] # "new"
    BY <1>0, <2>1, <2>2 DEF WireOK, Carries
  <2>4. resp[l] # <<>> => Empty(l)'
    BY <1>0, <2>1 DEF WireOK, Carries, Empty, Requested, Handled
  <2> QED BY <1>2, <2>3, <2>4, ValueAssumption DEF WireOK, Task
<1>4. ASSUME NEW i \in Link, i # l
      PROVE  WireOK(i)'
  <2>0. WireOK(i) /\ i \in Task /\ mu'[i] = mu[i] /\ resp'[i] = resp[i]
    BY <1>2, <1>4 DEF IInv, Task
  <2>1. \A u \in Task : mu[i] = u => task'[u] = task[u]
    BY <1>2, <1>4, <2>0 DEF WireOK
  <2>2. CASE i # t
    BY <1>2, <2>0, <2>1, <2>2, WireFrame DEF LinkKept
  <2>3. CASE i = t
    <3>1. Running(i) /\ Running(i)' /\ task'[i].call = task[i].call
      BY <1>0, <1>2, <2>3 DEF Running
    <3>2. task[i] # Resting /\ task'[i] # Resting
      BY <3>1, RestingFacts DEF Running
    <3>3. \A d \in Call : Carries(i, d)' <=> Carries(i, d)
      BY <2>0, <3>1, <3>2 DEF Carries, Requested, Handled, Answered
    <3>4. ~Empty(i)' /\ ~Empty(i)
      BY <3>2 DEF Empty
    <3>5. \A u \in Task : mu[i] = u => Via(u)' = i
      BY <2>0, <2>1, PlacesKept DEF WireOK, Running
    <3> QED BY <2>0, <2>1, <3>3, <3>4, <3>5 DEF WireOK, Steady
  <2> QED BY <2>2, <2>3
<1>5. ASSUME NEW u \in Task
      PROVE  TaskOK(u)'
  <2>1. CASE u = t
    <3>1. NodeOf(t)' = NodeOf(t)
      BY <1>0, <1>2, PlacesKept
    <3> QED BY <1>0, <1>2, <2>1, <3>1 DEF TaskOK, Running
  <2>2. CASE u # t
    <3>1. task'[u] = task[u] /\ (Running(u) => NodeOf(u) \in up') /\ status' = status
      BY <1>2, <2>2 DEF IInv, TaskOK
    <3>2. task[u].pc = "waiting" => Via(u) \in Link /\ Via(u) # l
      BY <1>0, <2>2, Places DEF IInv, TaskOK, Running
    <3>3. task[u].pc = "waiting" => mu'[Via(u)] = mu[Via(u)]
      BY <1>2, <3>2
    <3> QED BY <3>1, <3>3, TaskFrame
  <2> QED BY <2>1, <2>2
<1> QED
  BY <1>3, <1>4, <1>5 DEF WiresAndTasks

LEMMA Singletons ==
    /\ \A x, y : <<x>> = <<y>> => x = y
    /\ \A x : <<x>> # <<>>
    /\ \A x, y, p, q : [call |-> x, reply |-> p] = [call |-> y, reply |-> q] => x = y
<1>1. ASSUME NEW x, NEW y, <<x>> = <<y>>
      PROVE  x = y
  <2>1. <<x>>[1] = x /\ <<y>>[1] = y
    OBVIOUS
  <2> QED BY <1>1, <2>1
<1>2. ASSUME NEW x, NEW y, NEW p, NEW q, [call |-> x, reply |-> p] = [call |-> y, reply |-> q]
      PROVE  x = y
  <2>1. [call |-> x, reply |-> p].call = x /\ [call |-> y, reply |-> q].call = y
    OBVIOUS
  <2> QED BY <1>2, <2>1
<1> QED
  BY <1>1, <1>2

(* What a handler does concerns its own link alone, as long as the call on *)
(* it stays the same or is dropped with the connection.                    *)
LEMMA HandlerStep ==
    ASSUME IInv, Steady, NEW l \in Link, task[l].pc # "waiting",
           \A u \in Task : u # l => task'[u] = task[u],
           \A i \in Link : i # l => req'[i] = req[i] /\ resp'[i] = resp[i],
           UNCHANGED <<up, broken, mu, status>>,
           NEW c \in Call, Carries(l, c),
           Carries(l, c)' \/ (l \in broken /\ Empty(l)'),
           mu[l] = Nobody => resp'[l] = <<>>,
           TaskOK(l)'
    PROVE  WiresAndTasks'
<1>0. TypeOK /\ WireOK(l)
  BY DEF IInv
<1>1. ~Empty(l) /\ status[c] # "new" /\ (mu[l] = Nobody => l \in broken)
  <2>1. \A d \in Call : Carries(l, d) => d = c
    BY <1>0, Singletons, RestingFacts DEF Carries, Requested, Handled, Answered, Running
  <2>2. ~Empty(l)
    BY Singletons, RestingFacts DEF Carries, Requested, Handled, Answered, Empty, Running
  <2> QED BY <1>0, <2>1, <2>2 DEF WireOK
<1>2. WireOK(l)'
  <2>1. \A u \in Task : mu[l] = u => /\ task'[u] = task[u] /\ task[u].pc = "waiting"
                                    /\ Via(u)' = l /\ task[u].call = c
    BY <1>0, PlacesKept DEF WireOK, Running
  <2>2. Carries(l, c)' => \A d \in Call : Carries(l, d)' => d = c
    BY Singletons, RestingFacts DEF Carries, Requested, Handled, Answered, Running
  <2>3. Empty(l)' => \A d \in Call : ~Carries(l, d)'
    BY Singletons, RestingFacts DEF Carries, Requested, Handled, Answered, Empty, Running
  <2> QED BY <1>1, <2>1, <2>2, <2>3 DEF WireOK
<1>3. ASSUME NEW i \in Link, i # l
      PROVE  WireOK(i)'
  <2>1. WireOK(i) /\ i \in Task
    BY DEF IInv, Task
  <2>2. \A u \in Task : mu[i] = u => task'[u] = task[u]
    BY <2>1 DEF WireOK
  <2> QED BY <1>3, <2>1, <2>2, WireFrame DEF LinkKept
<1>4. ASSUME NEW u \in Task
      PROVE  TaskOK(u)'
  <2>1. CASE u = l
    BY <2>1
  <2>2. CASE u # l
    <3>1. task'[u] = task[u] /\ (Running(u) => NodeOf(u) \in up') /\ status' = status /\ mu' = mu
      BY <2>2 DEF IInv, TaskOK
    <3> QED BY <3>1, TaskFrame
  <2> QED BY <2>1, <2>2
<1> QED
  BY <1>2, <1>3, <1>4 DEF WiresAndTasks

(* A connection that breaks still carries what it carried.                 *)
LEMMA BreakStep ==
    ASSUME IInv, Steady, NEW l \in Link, Break(l)
    PROVE  WiresAndTasks'
<1>0. /\ UNCHANGED <<up, req, resp, mu, task, status>>
      /\ broken' = broken \cup {l}
  BY DEF Break, callVars
<1>1. ASSUME NEW i \in Link
      PROVE  WireOK(i)'
  <2>0. WireOK(i)
    BY DEF IInv
  <2>1. CASE i # l
    BY <1>0, <2>1, WireFrame DEF LinkKept
  <2>2. CASE i = l
    <3>1. \A d \in Call : Carries(i, d)' <=> Carries(i, d)
      BY <1>0 DEF Carries, Requested, Handled, Answered, Running
    <3>2. Empty(i)' <=> Empty(i)
      BY <1>0 DEF Empty
    <3>3. \A u \in Task : mu[i] = u => Via(u)' = i
      BY <1>0, <2>0, PlacesKept DEF WireOK, Running
    <3> QED BY <1>0, <2>0, <2>2, <3>1, <3>2, <3>3 DEF WireOK
  <2> QED BY <2>1, <2>2
<1>2. ASSUME NEW u \in Task
      PROVE  TaskOK(u)'
  <2>1. task'[u] = task[u] /\ (Running(u) => NodeOf(u) \in up') /\ status' = status /\ mu' = mu
    BY <1>0 DEF IInv, TaskOK
  <2> QED BY <2>1, TaskFrame
<1> QED
  BY <1>1, <1>2 DEF WiresAndTasks

(* Every round trip a node takes part in is over when the node dies: its   *)
(* own calls end with it, and what its peers wait for will not come.       *)
LEMMA CrashStep ==
    ASSUME IInv, Steady, NEW n \in Node, Crash(n)
    PROVE  WiresAndTasks'
<1>0. TypeOK
  BY DEF IInv
<1>1. /\ up' = up \ {n}
      /\ \A l \in Link : /\ l \in broken' <=> l \in broken \/ n \in {l[1], l[2]}
                         /\ req'[l] = IF l[2] = n THEN <<>> ELSE req[l]
                         /\ resp'[l] = IF l[1] = n THEN <<>> ELSE resp[l]
                         /\ mu'[l] = IF l[1] = n THEN Nobody ELSE mu[l]
      /\ \A t \in Task : task'[t] = IF NodeOf(t) = n THEN Resting ELSE task[t]
      /\ \A c \in Call : at[c] # n => status'[c] = status[c]
  BY <1>0 DEF Crash, TypeOK
<1>2. ASSUME NEW l \in Link
      PROVE  WireOK(l)'
  <2>0. WireOK(l) /\ l \in Task /\ NodeOf(l) = l[2]
    BY ValueAssumption DEF IInv, Task, NodeOf
  <2>1. l[1] # n => \A u \in Task : mu[l] = u => NodeOf(u) # n /\ task'[u] = task[u]
    BY <1>1, <2>0 DEF WireOK, Via
  <2>2. CASE n \notin {l[1], l[2]}
    BY <1>1, <2>0, <2>1, <2>2, WireFrame DEF LinkKept
  <2>3. CASE l[1] = n
    <3>1. l[2] # n
      BY <2>3 DEF Link
    <3>2. /\ l \in broken' /\ mu'[l] = Nobody /\ resp'[l] = <<>>
          /\ req'[l] = req[l] /\ task'[l] = task[l]
      BY <1>1, <2>0, <2>3, <3>1
    <3>3. \A c \in Call : /\ Requested(l, c) => Requested(l, c)'
                          /\ Handled(l, c) => Handled(l, c)'
                          /\ Answered(l, c) => Empty(l)'
      BY <3>2 DEF Requested, Handled, Answered, Empty, Running
    <3>4. Empty(l) => Empty(l)'
      BY <3>2 DEF Empty
    <3>5. Empty(l)' \/ \E c \in Call : Carries(l, c)' /\ status'[c] # "new"
      BY <2>0, <3>3, <3>4 DEF WireOK, Carries, Steady
    <3> QED BY <3>2, <3>5, ValueAssumption DEF WireOK, Task
  <2>4. CASE l[2] = n
    <3>1. l[1] # n
      BY <2>4 DEF Link
    <3>2. /\ l \in broken' /\ mu'[l] = mu[l] /\ resp'[l] = resp[l]
          /\ req'[l] = <<>> /\ task'[l] = Resting
      BY <1>1, <2>0, <2>4, <3>1
    <3>3. \A c \in Call : Carries(l, c)' => Carries(l, c)
      <4>1. \A c \in Call : Carries(l, c)' => Answered(l, c)'
        BY <3>2, Singletons, RestingFacts DEF Carries, Requested, Handled, Running
      <4>2. \A c \in Call : Answered(l, c)' => resp[l] # <<>>
        BY <3>2, Singletons DEF Answered
      <4>3. resp[l] # <<>> => \E c \in Call : Answered(l, c)
        BY <2>0 DEF WireOK, Carries, Requested, Handled, Empty
      <4>4. \A c, d \in Call : Answered(l, c)' /\ Answered(l, d) => Answered(l, c)
        BY <3>2 DEF Answered
      <4> QED BY <4>1, <4>2, <4>3, <4>4 DEF Carries
    <3>4. Empty(l)' \/ \E c \in Call : Carries(l, c)' /\ status'[c] # "new"
      <4>1. \A c \in Call : /\ Requested(l, c) \/ Handled(l, c) => Empty(l)'
                            /\ Answered(l, c) => Answered(l, c)'
        BY <3>2 DEF Requested, Handled, Empty, Answered
      <4>2. Empty(l) => Empty(l)'
        BY <3>2 DEF Empty
      <4> QED BY <2>0, <4>1, <4>2 DEF WireOK, Carries, Steady
    <3>5. \A u \in Task : mu[l] = u => /\ task'[u] = task[u] /\ task[u].pc = "waiting"
                                      /\ Via(u)' = l
      BY <2>0, <2>1, <3>1, PlacesKept DEF WireOK, Running
    <3>6. mu[l] = Nobody => resp[l] = <<>>
      BY <2>0 DEF WireOK
    <3> QED BY <2>0, <3>2, <3>3, <3>4, <3>5, <3>6 DEF WireOK
  <2> QED BY <2>2, <2>3, <2>4
<1>3. ASSUME NEW u \in Task
      PROVE  TaskOK(u)'
  <2>1. CASE NodeOf(u) = n
    BY <1>1, <2>1, RestingFacts DEF TaskOK, Running
  <2>2. CASE NodeOf(u) # n
    <3>1. task'[u] = task[u] /\ (Running(u) => NodeOf(u) \in up')
      BY <1>1, <2>2 DEF IInv, TaskOK
    <3>2. u \in Call => status'[u] = status[u]
      BY <1>1, <2>2 DEF NodeOf
    <3>3. task[u].pc = "waiting" => Via(u) \in Link /\ Via(u)[1] # n
      BY <1>0, <2>2, Places DEF IInv, TaskOK, Running, Via
    <3>4. task[u].pc = "waiting" => mu'[Via(u)] = mu[Via(u)]
      BY <1>1, <3>3
    <3> QED BY <3>1, <3>2, <3>4, TaskFrame
  <2> QED BY <2>1, <2>2
<1> QED
  BY <1>2, <1>3 DEF WiresAndTasks

(* The connections a restarted node dials are as new.                      *)
LEMMA RestartStep ==
    ASSUME IInv, Steady, NEW n \in Node, Restart(n)
    PROVE  WiresAndTasks'
<1>0. /\ UNCHANGED <<req, resp, mu, task, status>>
      /\ n \notin up /\ up' = Node
      /\ broken' = broken \ {l \in Link : l[1] = n}
      /\ \A l \in Link : l[1] = n => task[l] = Resting /\ req[l] = <<>>
  BY DEF Restart, callVars
<1>1. ASSUME NEW l \in Link
      PROVE  WireOK(l)'
  <2>0. WireOK(l) /\ mu[l] \in Task \cup {Nobody}
    BY DEF IInv, TypeOK
  <2>1. CASE l[1] # n
    BY <1>0, <2>1, WireFrame DEF LinkKept
  <2>2. CASE l[1] = n
    <3>1. mu[l] = Nobody
      <4> SUFFICES ASSUME NEW u \in Task, mu[l] = u
                   PROVE  FALSE
        BY <2>0
      <4>1. Running(u) /\ NodeOf(u) = n
        BY <2>0, <2>2 DEF WireOK, Running, Via
      <4> QED BY <1>0, <4>1 DEF IInv, TaskOK
    <3>2. Empty(l)
      BY <1>0, <2>0, <2>2, <3>1 DEF WireOK, Empty
    <3> QED BY <1>0, <3>1, <3>2, ValueAssumption DEF WireOK, Empty, Task
  <2> QED BY <2>1, <2>2
<1>2. ASSUME NEW u \in Task
      PROVE  TaskOK(u)'
  <2>1. task'[u] = task[u] /\ (Running(u) => NodeOf(u) \in up') /\ status' = status /\ mu' = mu
    BY <1>0, Places DEF IInv, TaskOK
  <2> QED BY <2>1, TaskFrame
<1> QED
  BY <1>1, <1>2 DEF WiresAndTasks

-----------------------------------------------------------------------------

LEMMA NextWiresAndTasks == IInv /\ Next => WiresAndTasks'
<1> SUFFICES ASSUME IInv, Next PROVE WiresAndTasks'
  OBVIOUS
<1>0. TypeOK /\ TypeOK' /\ Steady
  BY TypeStep, SteadyStep DEF IInv
<1>1. ASSUME NEW c \in Call, NEW op \in Map!Op, NEW k \in Key, Invoke(c, op, k)
      PROVE  WiresAndTasks'
  BY <1>0, <1>1, InvokeStep
<1>2. ASSUME NEW t \in Task, Serve(t)
      PROVE  WiresAndTasks'
  <2>1. PICK r : task' = [task EXCEPT ![t] = [@ EXCEPT !.pc = "done", !.reply = r]]
    BY <1>2 DEF Serve
  <2> QED BY <1>0, <1>2, <2>1, ServedStep DEF Serve
<1>3. ASSUME NEW t \in Task, Send(t)
      PROVE  WiresAndTasks'
  <2>1. CASE Via(t) \in broken
    <3>1. task' = [task EXCEPT ![t] = [@ EXCEPT !.pc = "done", !.reply = Map!Failed]]
      BY <1>3, <2>1 DEF Send
    <3>2. UNCHANGED <<up, wireVars, status>> /\ task[t].pc = "do"
      BY <1>3, <2>1 DEF Send, wireVars, callVars
    <3> QED BY <1>0, <3>1, <3>2, ServedStep
  <2>2. CASE Via(t) \notin broken
    <3>1. task[t].call \in Call /\ Via(t) \in Link
      BY <1>0, <1>3, Places DEF IInv, TaskOK, Running, Send
    <3>2. PICK l \in Link, c \in Call : l = Via(t) /\ c = task[t].call
      BY <3>1
    <3>3. /\ mu[l] = Nobody
          /\ mu' = [mu EXCEPT ![l] = t]
          /\ req' = [req EXCEPT ![l] = Append(@, c)]
          /\ task' = [task EXCEPT ![t] = [@ EXCEPT !.pc = "waiting"]]
          /\ UNCHANGED <<up, broken, resp, status>>
      BY <1>3, <2>2, <3>2 DEF Send, callVars
    <3> QED BY <1>0, <1>3, <2>2, <3>2, <3>3, SentStep DEF Send
  <2> QED BY <2>1, <2>2
<1>4. ASSUME NEW t \in Task, Receive(t)
      PROVE  WiresAndTasks'
  <2>1. task[t].call \in Call /\ Via(t) \in Link /\ mu[Via(t)] = t
    BY <1>0, <1>4, Places DEF IInv, TaskOK, Running, Receive
  <2>2. PICK l \in Link : l = Via(t)
    BY <2>1
  <2>3. PICK r : task' = [task EXCEPT ![t] = [@ EXCEPT !.pc = "done", !.reply = r]]
    BY <1>4 DEF Receive
  <2>4. resp[l] # <<>> /\ Tail(resp[l]) = <<>>
    <3>1. resp[l] # <<>>
      BY <1>4, <2>2 DEF Receive
    <3>2. \E c \in Call : Answered(l, c)
      BY <3>1 DEF IInv, WireOK, Carries, Requested, Handled, Empty
    <3> QED BY <3>1, <3>2, SequenceFacts DEF Answered
  <2>5. /\ resp' = [resp EXCEPT ![l] = <<>>] /\ mu' = [mu EXCEPT ![l] = Nobody]
        /\ UNCHANGED <<up, broken, req, status>>
    BY <1>0, <1>4, <2>2, <2>4 DEF Receive, callVars
  <2>6. task[t].pc = "waiting" /\ Via(t) = l /\ (resp[l] # <<>> \/ l \in broken)
    BY <1>4, <2>2, <2>4 DEF Receive
  <2> QED BY <1>0, <2>3, <2>5, <2>6, ReceivedStep
<1>5. ASSUME NEW t \in Task, ReadFails(t)
      PROVE  WiresAndTasks'
  <2>1. task[t].call \in Call /\ Via(t) \in Link
    BY <1>0, <1>5, Places DEF IInv, TaskOK, Running, ReadFails
  <2>2. PICK l \in Link : l = Via(t)
    BY <2>1
  <2>3. task' = [task EXCEPT ![t] = [@ EXCEPT !.pc = "done", !.reply = Map!Failed]]
    BY <1>5 DEF ReadFails
  <2>4. /\ resp' = [resp EXCEPT ![l] = <<>>] /\ mu' = [mu EXCEPT ![l] = Nobody]
        /\ l \in broken /\ UNCHANGED <<up, broken, req, status>>
    BY <1>5, <2>2 DEF ReadFails, callVars
  <2>5. task[t].pc = "waiting" /\ Via(t) = l /\ (resp[l] # <<>> \/ l \in broken)
    BY <1>5, <2>2, <2>4 DEF ReadFails
  <2> QED BY <1>0, <2>3, <2>4, <2>5, ReceivedStep
<1>6. ASSUME NEW c \in Call, Return(c)
      PROVE  WiresAndTasks'
  BY <1>0, <1>6, ReturnStep
<1>7. ASSUME NEW l \in Link, Handle(l)
      PROVE  WiresAndTasks'
  <2>1. WireOK(l) /\ req[l] # <<>> /\ l \in Task /\ l \notin Call /\ NodeOf(l)' = l[2]
    BY <1>7, ValueAssumption DEF IInv, Handle, Task, NodeOf
  <2>2. PICK c \in Call : Requested(l, c) /\ status[c] # "new"
    BY <2>1 DEF WireOK, Carries, Handled, Answered, Empty
  <2>3. /\ task'[l] = [Resting EXCEPT !.pc = "do", !.call = c] /\ req'[l] = <<>>
        /\ \A u \in Task : u # l => task'[u] = task[u]
        /\ \A i \in Link : i # l => req'[i] = req[i]
        /\ UNCHANGED <<up, broken, mu, status, resp>> /\ l[2] \in up
    BY <1>0, <1>7, <2>1, <2>2, SequenceFacts DEF Handle, Requested, TypeOK, callVars
  <2>4. task'[l].pc = "do" /\ task'[l].call = c
    BY <2>3, RestingFacts DEF Resting
  <2>5. Handled(l, c)' /\ resp'[l] = <<>>
    BY <2>2, <2>3, <2>4 DEF Handled, Requested, Running
  <2>6. TaskOK(l)'
    BY <2>1, <2>2, <2>3, <2>4 DEF TaskOK, Running
  <2> QED BY <1>0, <1>7, <2>2, <2>3, <2>5, <2>6, HandlerStep DEF Handle, Carries
<1>8. ASSUME NEW l \in Link, Reply(l)
      PROVE  WiresAndTasks'
  <2>1. WireOK(l) /\ task[l].pc = "done" /\ l \in Task /\ task[l] # Resting
    BY <1>8, RestingFacts DEF IInv, Reply, Task
  <2>2. PICK c \in Call : Handled(l, c)
    BY <2>1 DEF WireOK, Carries, Requested, Answered, Empty
  <2>3. /\ task'[l] = Resting
        /\ \A u \in Task : u # l => task'[u] = task[u]
        /\ \A i \in Link : i # l => resp'[i] = resp[i]
        /\ UNCHANGED <<up, broken, mu, status, req>>
    BY <1>0, <1>8, <2>1 DEF Reply, TypeOK, callVars
  <2>4. TaskOK(l)'
    BY <2>3, RestingFacts DEF TaskOK, Running
  <2>5. CASE l \in broken
    <3>1. Empty(l)' /\ resp'[l] = <<>>
      BY <1>8, <2>2, <2>3, <2>5 DEF Reply, Handled, Empty
    <3> QED BY <1>0, <2>1, <2>2, <2>3, <2>4, <2>5, <3>1, HandlerStep DEF Carries
  <2>6. CASE l \notin broken
    <3>1. mu[l] # Nobody
      BY <2>1, <2>6 DEF WireOK, Empty
    <3>2. resp'[l] = <<[call |-> c, reply |-> task[l].reply]>> /\ task[l].reply \in Replies
      <4>1. resp'[l] = Append(resp[l], [call |-> c, reply |-> task[l].reply])
        BY <1>0, <1>8, <2>2, <2>6 DEF Reply, Handled, TypeOK
      <4>2. [call |-> c, reply |-> task[l].reply] \in Response /\ task[l].reply \in Replies
        BY <1>0, <2>1, Elements, NewStates
      <4>3. resp[l] = <<>>
        BY <2>2 DEF Handled
      <4> QED BY <4>1, <4>2, <4>3, SequenceFacts
    <3>3. Answered(l, c)'
      BY <2>2, <2>3, <3>2 DEF Answered, Handled
    <3> QED BY <1>0, <2>1, <2>2, <2>3, <2>4, <3>1, <3>3, HandlerStep DEF Carries
  <2> QED BY <2>5, <2>6
<1>9. ASSUME NEW l \in Link, HandlerExits(l)
      PROVE  WiresAndTasks'
  <2>1. WireOK(l) /\ task[l].pc = "idle" /\ req[l] # <<>> /\ l \in broken
        /\ l \in Task /\ task[l] = Resting
    BY <1>9 DEF IInv, HandlerExits, TaskOK, Task
  <2>2. PICK c \in Call : Requested(l, c)
    BY <2>1 DEF WireOK, Carries, Handled, Answered, Empty
  <2>3. /\ req'[l] = <<>>
        /\ \A i \in Link : i # l => req'[i] = req[i]
        /\ UNCHANGED <<up, broken, mu, status, resp, task>>
    BY <1>0, <1>9, <2>1 DEF HandlerExits, TypeOK, callVars
  <2>4. TaskOK(l)' /\ Empty(l)' /\ resp'[l] = <<>>
    BY <2>1, <2>2, <2>3, RestingFacts DEF TaskOK, Running, Empty, Requested
  <2> QED BY <1>0, <2>1, <2>2, <2>3, <2>4, HandlerStep DEF Carries
<1>10. ASSUME NEW n \in Node, NEW k \in Key, Evict(n, k)
       PROVE  WiresAndTasks'
  <2>1. UNCHANGED <<up, wireVars, task, status>>
    BY <1>10 DEF Evict, callVars
  <2>2. \A l \in Link : WireOK(l)'
    BY <1>0, <2>1, WireFrame DEF LinkKept, wireVars
  <2>3. \A t \in Task : TaskOK(t)'
    BY <1>0, <2>1, TaskFrame DEF IInv, TaskOK, wireVars
  <2> QED BY <2>2, <2>3 DEF WiresAndTasks
<1>11. ASSUME NEW l \in Link, Break(l)
       PROVE  WiresAndTasks'
  BY <1>0, <1>11, BreakStep
<1>12. ASSUME NEW n \in Node, Crash(n)
       PROVE  WiresAndTasks'
  BY <1>0, <1>12, CrashStep
<1>13. ASSUME NEW n \in Node, Restart(n)
       PROVE  WiresAndTasks'
  BY <1>0, <1>13, RestartStep
<1>14. CASE Quiet
  <2>1. UNCHANGED <<up, wireVars, task, status>>
    BY <1>14 DEF Quiet, vars, callVars
  <2>2. \A l \in Link : WireOK(l)'
    BY <1>0, <2>1, WireFrame DEF LinkKept, wireVars
  <2>3. \A t \in Task : TaskOK(t)'
    BY <1>0, <2>1, TaskFrame DEF IInv, TaskOK, wireVars
  <2> QED BY <2>2, <2>3 DEF WiresAndTasks
<1> QED
  BY <1>1, <1>2, <1>3, <1>4, <1>5, <1>6, <1>7, <1>8, <1>9, <1>10, <1>11, <1>12, <1>13, <1>14 DEF Next

LEMMA NextIInv == IInv /\ [Next]_vars => IInv'
<1>1. ASSUME IInv, UNCHANGED vars
      PROVE  IInv'
  BY <1>1 DEF IInv, TypeOK, WireOK, TaskOK, Empty, Carries, Requested, Handled, Answered,
              Running, Via, Target, NodeOf, vars, wireVars, callVars
<1>2. ASSUME IInv, Next
      PROVE  IInv'
  <2>1. TypeOK' /\ WiresAndTasks'
    BY <1>2, TypeStep, NextWiresAndTasks
  <2> QED BY <2>1 DEF IInv, WiresAndTasks
<1> QED
  BY <1>1, <1>2

(* Every wire carries at most one call, and only what its mutex's holder   *)
(* waits for.                                                              *)
THEOREM InductiveInvariant == Spec => []IInv
BY InitIInv, NextIInv, PTL DEF Spec

(* The type invariant of the cluster: in particular a mutex is held by a   *)
(* task or nobody, and a wire carries calls and their replies only.        *)
THEOREM TypeCorrect == Spec => []TypeOK
<1>1. IInv => TypeOK
  BY DEF IInv
<1> QED
  BY <1>1, InductiveInvariant, PTL

LEMMA RoundTripOfIInv == IInv => OneRoundTrip
<1> SUFFICES ASSUME IInv, NEW l \in Link, l \notin broken
             PROVE  InFlight(l) = IF mu[l] = Nobody THEN 0 ELSE 1
  BY DEF OneRoundTrip
<1>1. WireOK(l) /\ mu[l] \in Task \cup {Nobody}
  BY DEF IInv, TypeOK
<1>2. Len(<<>>) = 0 /\ \A x : Len(<<x>>) = 1
  OBVIOUS
<1>3. CASE mu[l] = Nobody
  <2>1. Len(req[l]) = 0 /\ Len(resp[l]) = 0 /\ task[l].pc = "idle"
    BY <1>1, <1>2, <1>3, RestingFacts DEF WireOK, Empty
  <2> QED BY <1>3, <2>1 DEF InFlight
<1>4. CASE mu[l] # Nobody
  <2>1. PICK c \in Call : Carries(l, c)
    BY <1>1, <1>4 DEF WireOK
  <2>2. CASE Requested(l, c)
    <3>1. Len(req[l]) = 1 /\ Len(resp[l]) = 0 /\ task[l].pc = "idle"
      BY <1>2, <2>2, RestingFacts DEF Requested
    <3> QED BY <1>4, <3>1 DEF InFlight
  <2>3. CASE Handled(l, c)
    <3>1. Len(req[l]) = 0 /\ Len(resp[l]) = 0 /\ task[l].pc # "idle"
      BY <1>2, <2>3 DEF Handled, Running
    <3> QED BY <1>4, <3>1 DEF InFlight
  <2>4. CASE Answered(l, c)
    <3>1. Len(req[l]) = 0 /\ Len(resp[l]) = 1 /\ task[l].pc = "idle"
      BY <1>2, <2>4, RestingFacts DEF Answered
    <3> QED BY <1>4, <3>1 DEF InFlight
  <2> QED BY <2>1, <2>2, <2>3, <2>4 DEF Carries
<1> QED
  BY <1>3, <1>4

(* A connection that works carries one round trip at a time (OneRoundTrip),*)
(* for any number of nodes and calls, whichever way each node sorts the    *)
(* others: the mutex of a node record is enough, and no stale request or   *)
(* response meets the next round trip (server.go:447-489).                 *)
THEOREM RoundTripsAreSingle == Spec => []OneRoundTrip
BY InductiveInvariant, RoundTripOfIInv, PTL

LEMMA ResponseOfIInv == IInv => ResponseMatches
<1> SUFFICES ASSUME IInv, NEW l \in Link, resp[l] # <<>>, mu[l] # Nobody
             PROVE  Head(resp[l]).call = task[mu[l]].call
  BY DEF ResponseMatches
<1>1. WireOK(l) /\ mu[l] \in Task
  BY DEF IInv, TypeOK
<1>2. PICK c \in Call : Answered(l, c)
  BY <1>1 DEF WireOK, Carries, Requested, Handled, Empty
<1>3. Head(resp[l]).call = c
  BY <1>2 DEF Answered
<1> QED
  BY <1>1, <1>2, <1>3 DEF WireOK, Carries

(* The task that reads a response is the one whose request it answers      *)
(* (ResponseMatches), although a response names no request.                *)
THEOREM ResponsesMatch == Spec => []ResponseMatches
BY InductiveInvariant, ResponseOfIInv, PTL

-----------------------------------------------------------------------------

(***************************************************************************)
(* Where the keys are.  "On each node the order will be preserved"         *)
(* (server.go:413-415): any two nodes sort the nodes the same way.  This   *)
(* is what the comment says of the code and what a cluster needs; nodes    *)
(* that listen on a wildcard address do not have it.                       *)
(***************************************************************************)
SameOrder ==
    \A n, m, x, y \in Node : Addr[n][x] < Addr[n][y] <=> Addr[m][x] < Addr[m][y]

LEMMA OwnersAgree ==
    ASSUME SameOrder, NEW n \in Node, NEW m \in Node, NEW k \in Key
    PROVE  Owner(n, k) = Owner(m, k)
<1>1. \A x \in Node : Index(n, x) = Index(m, x)
  <2> TAKE x \in Node
  <2>1. Before(n, x) = Before(m, x)
    BY DEF SameOrder, Before
  <2> QED BY <2>1 DEF Index, Before
<1> QED
  BY <1>1 DEF Owner

LEMMA InitOwnerHolds == Init => OwnerHolds
BY DEF Init, OwnerHolds

LEMMA NextOwnerHolds == IInv /\ OwnerHolds /\ [Next]_vars => OwnerHolds'
<1> SUFFICES ASSUME IInv, OwnerHolds, [Next]_vars PROVE OwnerHolds'
  OBVIOUS
<1>0. TypeOK
  BY DEF IInv
<1>1. ASSUME NEW t \in Task, Serve(t)
      PROVE  OwnerHolds'
  <2>1. PICK v : store' = [store EXCEPT ![NodeOf(t)][request[task[t].call].key] = v]
    BY <1>1 DEF Serve
  <2>2. Owner(NodeOf(t), request[task[t].call].key) = NodeOf(t)
    BY <1>1 DEF Serve, Target
  <2> QED BY <1>0, <2>1, <2>2 DEF OwnerHolds, TypeOK
<1>2. ASSUME NEW n \in Node, NEW k \in Key, Evict(n, k)
      PROVE  OwnerHolds'
  BY <1>0, <1>2 DEF Evict, OwnerHolds, TypeOK
<1>3. ASSUME NEW n \in Node, Crash(n)
      PROVE  OwnerHolds'
  BY <1>0, <1>3 DEF Crash, OwnerHolds, TypeOK
<1>4. UNCHANGED store => OwnerHolds'
  BY DEF OwnerHolds
<1> QED
  BY <1>1, <1>2, <1>3, <1>4
  DEF Next, vars, Invoke, Send, Receive, ReadFails, Return, Handle, Reply, HandlerExits, Break,
      Restart, Quiet

(* A node stores only the keys that are its own, as its own ring has it.   *)
THEOREM OwnersStore == Spec => []OwnerHolds
BY InductiveInvariant, InitOwnerHolds, NextOwnerHolds, PTL DEF Spec

LEMMA OneNodeOfOwner == SameOrder /\ OwnerHolds => OneNodePerKey
<1> SUFFICES ASSUME SameOrder, OwnerHolds, NEW k \in Key
             PROVE  Cardinality({n \in Node : store[n][k] # NoValue}) <= 1
  BY DEF OneNodePerKey
<1> DEFINE S == {n \in Node : store[n][k] # NoValue}
<1>1. \A n, m \in S : n = m
  BY OwnersAgree DEF OwnerHolds
<1>2. S = {} \/ \E n : S = {n}
  <2> HIDE DEF S
  <2> QED BY <1>1
<1>3. Cardinality(S) = 0 \/ Cardinality(S) = 1
  <2> HIDE DEF S
  <2> QED BY <1>2, FS_EmptySet, FS_Singleton
<1> QED
  BY <1>3

(* When every node sorts the nodes alike, a key is never in the stores of  *)
(* two nodes (OneNodePerKey), through crashes and restarts.                *)
THEOREM KeysHaveOneNode ==
    ASSUME SameOrder PROVE Spec => []OneNodePerKey
BY SameOrder, OwnersStore, OneNodeOfOwner, PTL

-----------------------------------------------------------------------------

(***************************************************************************)
(* A call takes effect once.                                               *)
(***************************************************************************)
LEMMA OnceShrinks ==
    ASSUME Once, UNCHANGED effect,
           \A c \in Call : status'[c] = "new" <=> status[c] = "new",
           \A t \in Task, c \in Call : Holds(t, c)' => Holds(t, c)
    PROVE  Once'
BY DEF Once

LEMMA InvokeOnce ==
    ASSUME IInv, Once, NEW c \in Call, NEW op \in Map!Op, NEW k \in Key, Invoke(c, op, k)
    PROVE  Once'
<1>1. TypeOK /\ c \in Task /\ c \notin Link
  BY ValueAssumption DEF IInv, Task
<1>2. /\ status[c] = "new" /\ effect' = effect /\ req' = req
      /\ status' = [status EXCEPT ![c] = "open"]
      /\ \A t \in Task : t # c => task'[t] = task[t]
      /\ task'[c].call = c
  BY <1>1 DEF Invoke, wireVars, TypeOK, Resting
<1>3. \A t \in Task, d \in Call : Holds(t, d)' => Holds(t, d) \/ (t = c /\ d = c)
  BY <1>1, <1>2 DEF Holds
<1>4. \A t \in Task : ~Holds(t, c)
  BY <1>2 DEF Once
<1> QED
  BY <1>1, <1>2, <1>3, <1>4 DEF Once, TypeOK

LEMMA ServeOnce ==
    ASSUME IInv, Once, NEW t \in Task, Serve(t), NEW c \in Call, task[t].call = c
    PROVE  /\ Once'
           /\ effect[c] = Map!NoReply /\ status[c] # "new"
           /\ \A d \in Call : d # c => effect'[d] = effect[d]
<1>1. TypeOK /\ task[t].pc = "do"
  BY DEF IInv, Serve
<1>2. /\ \A d \in Call : d # c => effect'[d] = effect[d]
      /\ UNCHANGED <<status, req>>
      /\ \A u \in Task : u # t => task'[u] = task[u]
      /\ task'[t].pc = "done"
  BY <1>1 DEF Serve, wireVars, TypeOK, TaskState
<1>3. Holds(t, c)
  BY <1>1 DEF Holds
<1>4. \A d \in Call : ~Holds(t, d)'
  <2>1. t \in Link => req[t] = <<>>
    BY <1>1, RestingFacts DEF IInv, WireOK, Carries, Empty, Requested, Handled, Answered
  <2> QED BY <1>2, <2>1, Singletons DEF Holds
<1>5. \A u \in Task, d \in Call : Holds(u, d)' => u # t /\ Holds(u, d)
  BY <1>2, <1>4 DEF Holds
<1> QED
  BY <1>2, <1>3, <1>5 DEF Once

LEMMA SendOnce ==
    ASSUME IInv, Once, NEW t \in Task, Send(t)
    PROVE  Once'
<1>0. TypeOK /\ TaskOK(t) /\ task[t].pc = "do"
  BY DEF IInv, Send
<1>1. task[t].call \in Call /\ Via(t) \in Link
  BY <1>0, Places DEF Send, TaskOK, Running
<1>2. PICK c \in Call, l \in Link : c = task[t].call /\ l = Via(t)
  BY <1>1
<1>3. CASE l \in broken
  <2>1. /\ UNCHANGED <<effect, status, req>>
        /\ \A u \in Task : u # t => task'[u] = task[u]
        /\ task'[t].pc = "done"
    BY <1>0, <1>2, <1>3 DEF Send, callVars, TypeOK, TaskState
  <2>2. \A u \in Task, d \in Call : Holds(u, d)' => Holds(u, d)
    BY <2>1 DEF Holds
  <2> QED BY <2>1, <2>2, OnceShrinks
<1>4. CASE l \notin broken
  <2>1. /\ UNCHANGED <<effect, status>>
        /\ \A u \in Task : u # t => task'[u] = task[u]
        /\ task'[t].pc = "waiting"
        /\ req'[l] = Append(req[l], c)
        /\ \A i \in Link : i # l => req'[i] = req[i]
        /\ mu[l] = Nobody
    BY <1>0, <1>2, <1>4 DEF Send, callVars, TypeOK, TaskState
  <2>2. Empty(l)
    BY <1>4, <2>1 DEF IInv, WireOK
  <2>3. req'[l] = <<c>> /\ task[l].pc # "do" /\ l # t
    BY <1>0, <2>1, <2>2, SequenceFacts, RestingFacts DEF Empty
  <2>4. t \in Link => req[t] = <<>>
    BY <1>0, RestingFacts DEF IInv, WireOK, Carries, Empty, Requested, Handled, Answered
  <2>5. Holds(t, c)
    BY <1>0, <1>2 DEF Holds
  <2>6. \A u \in Task, d \in Call :
            Holds(u, d)' => (u = l /\ d = c) \/ (u # l /\ u # t /\ Holds(u, d))
    BY <2>1, <2>3, <2>4, Singletons DEF Holds
  <2> QED BY <2>1, <2>5, <2>6 DEF Once
<1> QED
  BY <1>3, <1>4

LEMMA NextOnce == IInv /\ Once /\ [Next]_vars => Once'
<1> SUFFICES ASSUME IInv, Once, [Next]_vars PROVE Once'
  OBVIOUS
<1>0. TypeOK
  BY DEF IInv
<1>1. ASSUME NEW c \in Call, NEW op \in Map!Op, NEW k \in Key, Invoke(c, op, k)
      PROVE  Once'
  BY <1>1, InvokeOnce
<1>2. ASSUME NEW t \in Task, Serve(t)
      PROVE  Once'
  <2>1. PICK c \in Call : c = task[t].call
    BY <1>2 DEF IInv, TaskOK, Running, Serve
  <2> QED BY <1>2, <2>1, ServeOnce
<1>3. ASSUME NEW t \in Task, Send(t)
      PROVE  Once'
  BY <1>3, SendOnce
<1>4. ASSUME NEW t \in Task, Receive(t) \/ ReadFails(t)
      PROVE  Once'
  <2>1. /\ UNCHANGED <<effect, status, req>>
        /\ \A u \in Task : u # t => task'[u] = task[u]
        /\ task'[t].pc = "done"
    BY <1>0, <1>4 DEF Receive, ReadFails, callVars, TypeOK, TaskState
  <2>2. \A u \in Task, d \in Call : Holds(u, d)' => Holds(u, d)
    BY <2>1 DEF Holds
  <2> QED BY <2>1, <2>2, OnceShrinks
<1>5. ASSUME NEW c \in Call, Return(c)
      PROVE  Once'
  <2>0. status[c] = "open" /\ c \in Task
    BY <1>5 DEF IInv, TaskOK, Running, Return, Task
  <2>1. /\ UNCHANGED <<effect, req>>
        /\ \A d \in Call : status'[d] = "new" <=> status[d] = "new"
        /\ \A u \in Task : u # c => task'[u] = task[u]
        /\ task'[c].pc = "idle"
    BY <1>0, <1>5, <2>0, RestingFacts DEF Return, wireVars, TypeOK
  <2>2. \A u \in Task, d \in Call : Holds(u, d)' => Holds(u, d)
    BY <2>1 DEF Holds
  <2> QED BY <2>1, <2>2, OnceShrinks
<1>6. ASSUME NEW l \in Link, Handle(l)
      PROVE  Once'
  <2>0. l \in Task /\ WireOK(l)
    BY DEF IInv, Task
  <2>1. PICK c \in Call : req[l] = <<c>>
    BY <1>6, <2>0 DEF Handle, WireOK, Carries, Requested, Handled, Answered, Empty
  <2>2. /\ UNCHANGED <<effect, status>>
        /\ \A u \in Task : u # l => task'[u] = task[u]
        /\ task'[l].call = c /\ req'[l] = <<>>
        /\ \A i \in Link : i # l => req'[i] = req[i]
    BY <1>0, <1>6, <2>0, <2>1, SequenceFacts DEF Handle, callVars, TypeOK, Resting
  <2>3. \A u \in Task, d \in Call : Holds(u, d)' => Holds(u, d)
    BY <2>1, <2>2, Singletons DEF Holds
  <2> QED BY <2>2, <2>3, OnceShrinks
<1>7. ASSUME NEW l \in Link, Reply(l) \/ HandlerExits(l)
      PROVE  Once'
  <2>0. l \in Task
    BY DEF Task
  <2>1. /\ UNCHANGED <<effect, status>>
        /\ \A u \in Task : task'[u] = task[u] \/ task'[u].pc = "idle"
        /\ \A i \in Link : req'[i] = req[i] \/ req'[i] = <<>>
    BY <1>0, <1>7, <2>0, RestingFacts DEF Reply, HandlerExits, callVars, TypeOK
  <2>3. \A u \in Task, d \in Call : Holds(u, d)' => Holds(u, d)
    BY <2>1, Singletons DEF Holds
  <2> QED BY <2>1, <2>3, OnceShrinks
<1>8. ASSUME NEW n \in Node, Crash(n)
      PROVE  Once'
  <2>1. /\ UNCHANGED effect
        /\ \A c \in Call : status'[c] = "new" <=> status[c] = "new"
        /\ \A u \in Task : task'[u] = task[u] \/ task'[u].pc = "idle"
        /\ \A i \in Link : req'[i] = req[i] \/ req'[i] = <<>>
    BY <1>0, <1>8, RestingFacts DEF Crash, TypeOK
  <2>3. \A u \in Task, d \in Call : Holds(u, d)' => Holds(u, d)
    BY <2>1, Singletons DEF Holds
  <2> QED BY <2>1, <2>3, OnceShrinks
<1>9. UNCHANGED <<effect, status, task, req>> => Once'
  BY DEF Once, Holds
<1> QED
  BY <1>1, <1>2, <1>3, <1>4, <1>5, <1>6, <1>7, <1>8, <1>9
  DEF Next, vars, callVars, wireVars, Evict, Break, Restart, Quiet

(***************************************************************************)
(* A reply is the one its call earned, or an error.                        *)
(***************************************************************************)
EffectsStay == \A c \in Call : effect[c] # Map!NoReply => effect'[c] = effect[c]

LEMMA EarnedStays ==
    ASSUME EffectsStay, NEW c \in Call, NEW r, Earned(c, r)
    PROVE  Earned(c, r)'
BY RestingFacts DEF EffectsStay, Earned

LEMMA NextEffects == IInv /\ Once /\ [Next]_vars => EffectsStay
<1> SUFFICES ASSUME IInv, Once, [Next]_vars PROVE EffectsStay
  OBVIOUS
<1>1. ASSUME NEW t \in Task, Serve(t)
      PROVE  EffectsStay
  <2>1. PICK c \in Call : c = task[t].call
    BY <1>1 DEF IInv, TaskOK, Running, Serve
  <2> QED BY <1>1, <2>1, ServeOnce DEF EffectsStay
<1>2. UNCHANGED effect => EffectsStay
  BY DEF EffectsStay
<1> QED
  BY <1>1, <1>2
  DEF Next, vars, callVars, Invoke, Send, Receive, ReadFails, Return, Handle, Reply,
      HandlerExits, Evict, Break, Crash, Restart, Quiet

LEMMA EarnedFrame ==
    ASSUME IInv, RepliesEarned, EffectsStay,
           \A t \in Task : task'[t].pc = "done" =>
               \/ task[t].pc = "done" /\ task'[t] = task[t]
               \/ Earned(task[t].call, task[t].reply)',
           \A l \in Link : resp'[l] # <<>> =>
               \/ resp'[l] = resp[l]
               \/ Earned(Head(resp[l]).call, Head(resp[l]).reply)'
    PROVE  RepliesEarned'
<1>1. ASSUME NEW t \in Task, task'[t].pc = "done"
      PROVE  Earned(task[t].call, task[t].reply)'
  <2>1. CASE task[t].pc = "done" /\ task'[t] = task[t]
    <3>1. PICK c \in Call : c = task[t].call
      BY <2>1 DEF IInv, TaskOK, Running
    <3>2. PICK r : r = task[t].reply
      OBVIOUS
    <3>3. Earned(c, r)'
      BY <2>1, <3>1, <3>2, EarnedStays DEF RepliesEarned
    <3> QED BY <2>1, <3>1, <3>2, <3>3 DEF Earned
  <2> QED BY <1>1, <2>1
<1>2. ASSUME NEW l \in Link, resp'[l] # <<>>
      PROVE  Earned(Head(resp[l]).call, Head(resp[l]).reply)'
  <2>1. CASE resp'[l] = resp[l]
    <3>1. PICK c \in Call : Answered(l, c)
      BY <1>2, <2>1 DEF IInv, WireOK, Carries, Requested, Handled, Empty
    <3>2. c = Head(resp[l]).call
      BY <3>1 DEF Answered
    <3>3. PICK r : r = Head(resp[l]).reply
      OBVIOUS
    <3>4. Earned(c, r)'
      BY <1>2, <2>1, <3>2, <3>3, EarnedStays DEF RepliesEarned
    <3> QED BY <2>1, <3>2, <3>3, <3>4 DEF Earned
  <2> QED BY <1>2, <2>1
<1> QED
  BY <1>1, <1>2 DEF RepliesEarned

LEMMA NextEarned == IInv /\ Once /\ RepliesEarned /\ [Next]_vars => RepliesEarned'
<1> SUFFICES ASSUME IInv, Once, RepliesEarned, [Next]_vars PROVE RepliesEarned'
  OBVIOUS
<1>0. TypeOK /\ EffectsStay
  BY NextEffects DEF IInv
<1>1. ASSUME NEW t \in Task, Serve(t)
      PROVE  RepliesEarned'
  <2>1. PICK c \in Call : c = task[t].call
    BY <1>1 DEF IInv, TaskOK, Running, Serve
  <2>2. PICK r : r = Map!ReplyTo(c, store[NodeOf(t)][request[c].key])
    OBVIOUS
  <2>3. r # Map!NoReply
    <3>1. store[NodeOf(t)][request[c].key] \in Call \cup {NoValue}
      BY <1>0, Places, Elements
    <3> QED BY <1>0, <2>2, <3>1, ReplyFacts
  <2>4. /\ resp' = resp /\ effect'[c] = r
        /\ \A u \in Task : u # t => task'[u] = task[u]
        /\ task'[t].call = c /\ task'[t].reply = r
    BY <1>0, <1>1, <2>1, <2>2 DEF Serve, wireVars, TypeOK, TaskState
  <2>5. Earned(task[t].call, task[t].reply)'
    BY <2>3, <2>4 DEF Earned
  <2> QED BY <1>0, <2>4, <2>5, EarnedFrame
<1>2. ASSUME NEW t \in Task, Send(t) \/ ReadFails(t)
      PROVE  RepliesEarned'
  <2>1. /\ \A u \in Task : u # t => task'[u] = task[u]
        /\ task'[t].pc = "done" => task'[t].reply = Map!Failed
    BY <1>0, <1>2 DEF Send, ReadFails, TypeOK, TaskState
  <2>2. \A l \in Link : resp'[l] = resp[l] \/ resp'[l] = <<>>
    BY <1>0, <1>2 DEF Send, ReadFails, TypeOK
  <2> QED BY <1>0, <2>1, <2>2, EarnedFrame DEF Earned
<1>3. ASSUME NEW t \in Task, Receive(t)
      PROVE  RepliesEarned'
  <2>1. PICK c \in Call, l \in Link : c = task[t].call /\ l = Via(t)
    BY <1>0, <1>3, Places DEF IInv, TaskOK, Running, Receive
  <2>2. mu[l] = t /\ resp[l] # <<>>
    BY <1>3, <2>1 DEF IInv, TaskOK, Receive
  <2>3. Head(resp[l]).call = c
    BY <2>1, <2>2, ResponseOfIInv, ValueAssumption DEF ResponseMatches, Task
  <2>4. PICK r : r = Head(resp[l]).reply
    OBVIOUS
  <2>5. Earned(c, r)'
    BY <1>0, <2>2, <2>3, <2>4, EarnedStays DEF RepliesEarned
  <2>6. /\ \A u \in Task : u # t => task'[u] = task[u]
        /\ task'[t].call = c /\ task'[t].reply = r
    BY <1>0, <1>3, <2>1, <2>4 DEF Receive, TypeOK, TaskState
  <2>7. \A i \in Link : resp'[i] = resp[i] \/ resp'[i] = <<>>
    <3>1. Tail(resp[l]) = <<>>
      <4>1. \E d \in Call : Answered(l, d)
        BY <2>2 DEF IInv, WireOK, Carries, Requested, Handled, Empty
      <4> QED BY <4>1, SequenceFacts DEF Answered
    <3> QED BY <1>0, <1>3, <2>1, <3>1 DEF Receive, TypeOK
  <2>8. Earned(task[t].call, task[t].reply)'
    BY <2>5, <2>6 DEF Earned
  <2> QED BY <1>0, <2>6, <2>7, <2>8, EarnedFrame
<1>4. ASSUME NEW l \in Link, Reply(l)
      PROVE  RepliesEarned'
  <2>0. l \in Task /\ WireOK(l)
    BY DEF IInv, Task
  <2>1. /\ \A u \in Task : u # l => task'[u] = task[u]
        /\ task'[l].pc = "idle"
        /\ \A i \in Link : i # l => resp'[i] = resp[i]
    BY <1>0, <1>4, <2>0, RestingFacts DEF Reply, TypeOK
  <2>2. PICK c \in Call : c = task[l].call /\ resp[l] = <<>>
    BY <1>4, <2>0, RestingFacts DEF Reply, WireOK, Carries, Requested, Handled, Answered, Empty
  <2>3. PICK r : r = task[l].reply
    OBVIOUS
  <2>4. Earned(c, r)'
    BY <1>0, <1>4, <2>0, <2>2, <2>3, EarnedStays DEF Reply, RepliesEarned
  <2>5. CASE l \in broken
    BY <1>0, <1>4, <2>1, <2>5, EarnedFrame DEF Reply
  <2>6. CASE l \notin broken
    <3>1. resp'[l] = Append(<<>>, [call |-> c, reply |-> r])
      BY <1>0, <1>4, <2>2, <2>3, <2>6 DEF Reply, TypeOK
    <3>2. [call |-> c, reply |-> r] \in Response
      BY <1>0, <2>0, <2>3, Elements, NewStates
    <3>3. Head(resp'[l]) = [call |-> c, reply |-> r]
      BY <3>1, <3>2, SequenceFacts
    <3>4. Earned(Head(resp[l]).call, Head(resp[l]).reply)'
      BY <2>4, <3>3 DEF Earned
    <3> QED BY <1>0, <2>1, <3>4, EarnedFrame
  <2> QED BY <2>5, <2>6
<1>5. ASSUME NEW l \in Link, Handle(l)
      PROVE  RepliesEarned'
  <2>1. /\ \A u \in Task : u # l => task'[u] = task[u]
        /\ task'[l].pc = "do" /\ resp' = resp
    BY <1>0, <1>5 DEF Handle, TypeOK, Resting, Task
  <2> QED BY <1>0, <2>1, EarnedFrame
<1>6. ASSUME NEW c \in Call, Return(c)
      PROVE  RepliesEarned'
  <2>1. /\ \A u \in Task : u # c => task'[u] = task[u]
        /\ task'[c].pc = "idle" /\ resp' = resp
    BY <1>0, <1>6, RestingFacts DEF Return, TypeOK, Task, wireVars
  <2> QED BY <1>0, <2>1, EarnedFrame
<1>7. ASSUME NEW c \in Call, NEW op \in Map!Op, NEW k \in Key, Invoke(c, op, k)
      PROVE  RepliesEarned'
  <2>1. /\ \A u \in Task : u # c => task'[u] = task[u]
        /\ task'[c].pc = "do" /\ resp' = resp
    BY <1>0, <1>7 DEF Invoke, TypeOK, Resting, Task, wireVars
  <2> QED BY <1>0, <2>1, EarnedFrame
<1>8. ASSUME NEW n \in Node, Crash(n)
      PROVE  RepliesEarned'
  <2>1. /\ \A u \in Task : task'[u] = task[u] \/ task'[u].pc = "idle"
        /\ \A i \in Link : resp'[i] = resp[i] \/ resp'[i] = <<>>
    BY <1>0, <1>8, RestingFacts DEF Crash, TypeOK
  <2> QED BY <1>0, <2>1, EarnedFrame
<1>9. UNCHANGED <<task, resp>> => RepliesEarned'
  BY <1>0, EarnedFrame
<1> QED
  BY <1>1, <1>2, <1>3, <1>4, <1>5, <1>6, <1>7, <1>8, <1>9
  DEF Next, vars, callVars, wireVars, HandlerExits, Evict, Break, Restart, Quiet

LEMMA InitRInv == Init => RInv
<1> SUFFICES ASSUME Init PROVE RInv
  OBVIOUS
<1>1. IInv /\ OwnerHolds
  BY InitIInv, InitOwnerHolds
<1>2. Once
  BY RestingFacts, Singletons DEF Init, Once, Holds
<1>3. RepliesEarned
  BY RestingFacts DEF Init, RepliesEarned
<1> QED
  BY <1>1, <1>2, <1>3 DEF RInv

LEMMA NextRInv == RInv /\ [Next]_vars => RInv'
BY NextIInv, NextOnce, NextEarned, NextOwnerHolds DEF RInv

-----------------------------------------------------------------------------

(***************************************************************************)
(* The refinement.  The value of a key is what its owner has stored.       *)
(***************************************************************************)
Merged(s) == [k \in Key |-> IF \E n \in Node : s[n][k] # NoValue
                            THEN s[CHOOSE n \in Node : s[n][k] # NoValue][k]
                            ELSE NoValue]

LEMMA MergedAtOwner ==
    ASSUME SameOrder, NEW s, NEW k \in Key, NEW n \in Node,
           \A m \in Node, x \in Key : s[m][x] # NoValue => Owner(m, x) = m
    PROVE  Merged(s)[k] = s[Owner(n, k)][k]
<1>1. Owner(n, k) \in Node
  BY OwnerIsNode
<1>2. \A m \in Node : s[m][k] # NoValue => m = Owner(n, k)
  BY OwnersAgree
<1>3. CASE \E m \in Node : s[m][k] # NoValue
  <2> DEFINE o == CHOOSE m \in Node : s[m][k] # NoValue
  <2>1. o \in Node /\ s[o][k] # NoValue
    BY <1>3
  <2>2. o = Owner(n, k)
    BY <1>2, <2>1
  <2>3. Merged(s)[k] = s[o][k]
    BY <1>3 DEF Merged
  <2> QED BY <2>2, <2>3
<1>4. CASE ~\E m \in Node : s[m][k] # NoValue
  BY <1>1, <1>4 DEF Merged
<1> QED
  BY <1>3, <1>4

LEMMA ServeRefines ==
    ASSUME SameOrder, RInv, OwnerHolds', NEW t \in Task, Serve(t),
           NEW c \in Call, task[t].call = c
    PROVE  Map!TakeEffect(c)
<1>0. IInv /\ TypeOK /\ OwnerHolds /\ Once
  BY DEF RInv, IInv
<1>1. PICK n \in Node, k \in Key : n = NodeOf(t) /\ k = request[c].key
  BY <1>0, Places, Elements
<1>2. /\ effect[c] = Map!NoReply /\ status[c] # "new"
  BY <1>0, ServeOnce
<1>3. /\ Owner(n, k) = n
      /\ store' = [store EXCEPT ![n][k] = Map!ValueAfter(c, @)]
      /\ effect' = [effect EXCEPT ![c] = Map!ReplyTo(c, store[n][k])]
      /\ UNCHANGED <<request, status, answer>>
  BY <1>1 DEF Serve, Target
<1>4. Merged(store)[k] = store[n][k]
  BY <1>0, <1>3, MergedAtOwner DEF OwnerHolds
<1>5. /\ store'[n][k] = Map!ValueAfter(c, store[n][k])
      /\ \A m \in Node, x \in Key : m # n \/ x # k => store'[m][x] = store[m][x]
  BY <1>0, <1>3 DEF TypeOK
<1>6. \A x \in Key : /\ Merged(store)[x] = store[Owner(n, x)][x]
                    /\ Merged(store')[x] = store'[Owner(n, x)][x]
  BY <1>0, MergedAtOwner DEF OwnerHolds
<1>7. Merged(store') = [Merged(store) EXCEPT ![k] = Map!ValueAfter(c, @)]
  <2>1. Merged(store')[k] = Map!ValueAfter(c, Merged(store)[k])
    BY <1>3, <1>4, <1>5, <1>6
  <2>2. \A x \in Key : x # k => Merged(store')[x] = Merged(store)[x]
    BY <1>5, <1>6, OwnerIsNode
  <2>3. \A s : Merged(s) = [x \in Key |-> Merged(s)[x]]
    BY DEF Merged
  <2> QED BY <2>1, <2>2, <2>3
<1>8. /\ effect' = [effect EXCEPT ![c] = Map!ReplyTo(c, Merged(store)[request[c].key])]
      /\ Merged(store') = [Merged(store) EXCEPT ![request[c].key] = Map!ValueAfter(c, @)]
  BY <1>1, <1>3, <1>4, <1>7
<1> QED
  BY <1>2, <1>3, <1>8 DEF Map!TakeEffect, Merged

LEMMA ReturnRefines ==
    ASSUME RInv, NEW c \in Call, Return(c)
    PROVE  Map!Answer(c)
<1>1. IInv /\ c \in Task /\ task[c].pc = "done"
  BY DEF RInv, Return, Task
<1>2. task[c].call = c /\ status[c] = "open"
  BY <1>1 DEF IInv, TaskOK, Running
<1>3. Earned(c, task[c].reply)
  BY <1>1, <1>2 DEF RInv, RepliesEarned
<1> QED
  BY <1>2, <1>3 DEF Return, Map!Answer, Earned

LEMMA EvictRefines ==
    ASSUME SameOrder, RInv, OwnerHolds', NEW n \in Node, NEW k \in Key, Evict(n, k)
    PROVE  Map!LoseAndFail({k}, {})
<1>0. TypeOK /\ OwnerHolds
  BY DEF RInv, IInv
<1>1. /\ Owner(n, k) = n
      /\ store' = [store EXCEPT ![n][k] = NoValue]
      /\ UNCHANGED callVars
  BY <1>0 DEF Evict, OwnerHolds
<1>2. \A x \in Key : /\ Merged(store)[x] = store[Owner(n, x)][x]
                    /\ Merged(store')[x] = store'[Owner(n, x)][x]
  BY <1>0, MergedAtOwner DEF OwnerHolds
<1>3. \A x \in Key : Merged(store')[x] = IF x \in {k} THEN NoValue ELSE Merged(store)[x]
  BY <1>0, <1>1, <1>2, OwnerIsNode DEF TypeOK
<1>4. Merged(store') = [x \in Key |-> IF x \in {k} THEN NoValue ELSE Merged(store)[x]]
  <2>1. \A s : Merged(s) = [x \in Key |-> Merged(s)[x]]
    BY DEF Merged
  <2> QED BY <1>3, <2>1
<1>5. /\ status' = [c \in Call |-> status[c]]
      /\ answer' = [c \in Call |-> answer[c]]
      /\ UNCHANGED <<request, effect>>
  BY <1>0, <1>1 DEF TypeOK, callVars
<1> QED
  BY <1>4, <1>5 DEF Map!LoseAndFail, Map!Lose, Merged

LEMMA CrashRefines ==
    ASSUME SameOrder, RInv, OwnerHolds', NEW n \in Node, Crash(n)
    PROVE  \E gone \in SUBSET Key, failed \in SUBSET Call : Map!LoseAndFail(gone, failed)
<1>0. TypeOK /\ OwnerHolds
  BY DEF RInv, IInv
<1> DEFINE gone == {k \in Key : Owner(n, k) = n}
           failed == {c \in Call : at[c] = n /\ status[c] = "open"}
<1>1. \A m \in Node, k \in Key : store'[m][k] = IF m = n THEN NoValue ELSE store[m][k]
  BY <1>0 DEF Crash, TypeOK
<1>2. \A x \in Key : /\ Merged(store)[x] = store[Owner(n, x)][x]
                    /\ Merged(store')[x] = store'[Owner(n, x)][x]
  BY <1>0, MergedAtOwner DEF OwnerHolds
<1>3. \A x \in Key : Merged(store')[x] = IF x \in gone THEN NoValue ELSE Merged(store)[x]
  BY <1>1, <1>2, OwnerIsNode
<1>4. Merged(store') = [x \in Key |-> IF x \in gone THEN NoValue ELSE Merged(store)[x]]
  <2>1. \A s : Merged(s) = [x \in Key |-> Merged(s)[x]]
    BY DEF Merged
  <2> QED BY <1>3, <2>1
<1>5. /\ status' = [c \in Call |-> IF c \in failed THEN "returned" ELSE status[c]]
      /\ answer' = [c \in Call |-> IF c \in failed THEN Map!Failed ELSE answer[c]]
      /\ UNCHANGED <<request, effect>>
  BY DEF Crash
<1>6. Map!LoseAndFail(gone, failed)
  BY <1>4, <1>5 DEF Map!LoseAndFail, Map!Lose, Merged
<1> QED
  BY <1>6

LEMMA InitRefines == Init => Map!Init
<1> SUFFICES ASSUME Init PROVE Map!Init
  OBVIOUS
<1>1. \A n \in Node, k \in Key : store[n][k] = NoValue
  BY DEF Init
<1>2. Merged(store) = [k \in Key |-> NoValue]
  BY <1>1 DEF Merged
<1> QED
  BY <1>2 DEF Init, Map!Init, Merged

LEMMA StepRefines ==
    ASSUME SameOrder, RInv, OwnerHolds', [Next]_vars
    PROVE  [Map!Next]_(Map!vars)
<1>1. ASSUME NEW c \in Call, NEW op \in Map!Op, NEW k \in Key, Invoke(c, op, k)
      PROVE  Map!Next
  <2>1. Map!Invoke(c, op, k)
    BY <1>1 DEF Invoke, Map!Invoke
  <2> QED BY <2>1 DEF Map!Next
<1>2. ASSUME NEW t \in Task, Serve(t)
      PROVE  Map!Next
  <2>1. PICK c \in Call : task[t].call = c
    BY <1>2 DEF RInv, IInv, TaskOK, Running, Serve
  <2>2. Map!TakeEffect(c)
    BY <1>2, <2>1, ServeRefines
  <2> QED BY <2>2 DEF Map!Next
<1>3. ASSUME NEW c \in Call, Return(c)
      PROVE  Map!Next
  <2>1. Map!Answer(c)
    BY <1>3, ReturnRefines
  <2> QED BY <2>1 DEF Map!Next
<1>4. ASSUME NEW n \in Node, NEW k \in Key, Evict(n, k)
      PROVE  Map!Next
  <2>1. Map!LoseAndFail({k}, {})
    BY <1>4, EvictRefines
  <2>2. {k} \in SUBSET Key /\ {} \in SUBSET Call
    OBVIOUS
  <2> QED BY <2>1, <2>2 DEF Map!Next
<1>5. ASSUME NEW n \in Node, Crash(n)
      PROVE  Map!Next
  BY <1>5, CrashRefines DEF Map!Next
<1>6. UNCHANGED <<store, callVars>> => UNCHANGED Map!vars
  BY DEF Map!vars, callVars
<1>7. UNCHANGED vars => UNCHANGED <<store, callVars>>
  BY DEF vars
<1>8. Next => \/ UNCHANGED <<store, callVars>>
              \/ \E c \in Call, op \in Map!Op, k \in Key : Invoke(c, op, k)
              \/ \E t \in Task : Serve(t)
              \/ \E c \in Call : Return(c)
              \/ \E n \in Node, k \in Key : Evict(n, k)
              \/ \E n \in Node : Crash(n)
  BY DEF Next, vars, callVars, Send, Receive, ReadFails, Handle, Reply, HandlerExits, Break,
         Restart, Quiet
<1> QED
  BY <1>1, <1>2, <1>3, <1>4, <1>5, <1>6, <1>7, <1>8

(* The cluster is one map to its clients (ActsAsOneMap), when every node   *)
(* sorts the nodes alike: each call takes effect at most once, where its   *)
(* key belongs, and is answered with the reply it earned there or an error,*)
(* through redirection, shared connections, broken connections, crashes    *)
(* and restarts, for any number of nodes, keys and calls.                  *)
THEOREM ClusterImplementsMap ==
    ASSUME SameOrder PROVE Spec => ActsAsOneMap
<1>1. RInv => OwnerHolds
  BY DEF RInv
<1> QED
  BY SameOrder, <1>1, InitRefines, InitRInv, NextRInv, StepRefines, PTL DEF Spec, ActsAsOneMap, Map!Spec

=============================================================================
