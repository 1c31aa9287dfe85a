--------------------------- MODULE BootstrapProofs ---------------------------
(***************************************************************************)
(* How a cluster comes up, for any number of nodes, calls, attempts and    *)
(* launches.                                                               *)
(***************************************************************************)
EXTENDS Bootstrap, TLAPS, FiniteSetTheorems

LEMMA NodeCount == N \in Nat \ {0}
<1>1. N \in Nat /\ (N = 0 <=> Node = {})
  BY NodeAssumption, FS_CardinalityType, FS_EmptySet DEF N
<1> QED
  BY <1>1, NodeAssumption

Phases == {"off", "joining", "filling", "serving", "ended"}
Calls == [status : {"new", "open", "served", "failed", "fatal"}, part : Nat, path : Seq(Node)]

(* Full filled rings find one index, and it is that of the owner.          *)
LEMMA OwnerFound ==
    ASSUME NEW p \in Nat
    PROVE  p % N \in 0..(N - 1) /\ Owner(p) \in Node
<1>1. \A a \in Nat, b \in Nat \ {0} : a % b \in 0..(b - 1)
  OBVIOUS
<1>2. p % N \in 0..(N - 1)
  BY <1>1, NodeCount
<1> QED
  BY <1>2, SortedAssumption DEF Owner

LEMMA ServingFinds ==
    ASSUME IInv, NEW n \in Node, phase[n] = "serving", NEW p \in Nat, NEW i \in Indexes(n, p)
    PROVE  order[n][i] = Owner(p) /\ joined[n] = Peers(n) /\ ~MayPanic(n)
<1>1. filled[n] = N /\ ~inserting[n] /\ joined[n] = Peers(n) /\ order[n] = Sorted
  BY DEF IInv, PhaseInv
<1>2. i = p % N
  BY <1>1, NodeCount DEF Indexes
<1> QED
  BY <1>1, <1>2, NodeCount DEF Owner, MayPanic

(* A serving node does not panic, whatever is asked of it.                 *)
LEMMA ServingSafe ==
    ASSUME IInv, NEW n \in Node, phase[n] = "serving"
    PROVE  ~MayPanic(n)
BY NodeCount DEF IInv, PhaseInv, MayPanic

-----------------------------------------------------------------------------

LEMMA InitIInv == Init => IInv
<1> SUFFICES ASSUME Init PROVE IInv
  OBVIOUS
<1>1. 0 \in 0..N /\ 0 \in 0..(retries + 1) /\ 0 \in 0..MaxRelaunches /\ 0 \in 0..(N - 1)
  BY NodeCount, RetriesAssumption, MaxRelaunchesAssumption
<1>2. Unsorted \in [0..(N - 1) -> Node] /\ NoTries \in [Node -> 0..(retries + 1)]
  BY <1>1, SortedAssumption DEF Unsorted, NoTries
<1>3. TypeOK
  <2>1. call \in [Call -> Calls]
    BY DEF Init, Calls
  <2>2. /\ phase \in [Node -> Phases]
        /\ relaunches \in 0..MaxRelaunches
        /\ listening \in [Node -> BOOLEAN]
        /\ inserting \in [Node -> BOOLEAN]
    BY <1>1 DEF Init, Phases
  <2>3. /\ tries \in [Node -> [Node -> 0..(retries + 1)]]
        /\ joined \in [Node -> SUBSET Node]
        /\ order \in [Node -> [0..(N - 1) -> Node]]
        /\ filled \in [Node -> 0..N]
        /\ broken \subseteq Link
    BY <1>1, <1>2 DEF Init
  <2> QED BY <2>1, <2>2, <2>3 DEF TypeOK, Phases, Calls
<1>4. PhaseInv /\ BrokenInv /\ CallInv /\ FirstHopRight
  BY DEF Init, PhaseInv, BrokenInv, CallInv, FirstHopRight
<1> QED
  BY <1>3, <1>4 DEF IInv

(* A step that leaves the calls and the serving nodes alone.               *)
LEMMA CallsKept ==
    ASSUME CallInv, FirstHopRight, call' = call,
           \A n \in Node : phase[n] = "serving" => phase'[n] = "serving",
           TypeOK
    PROVE  CallInv' /\ FirstHopRight'
<1>1. \A c \in Call : call[c].status = "open" => call[c].path[1] \in Node
  BY DEF CallInv, TypeOK
<1>2. CallInv'
  BY <1>1 DEF CallInv
<1> QED
  BY <1>2 DEF FirstHopRight, Owner

-----------------------------------------------------------------------------

(* The steps of a process that runs.                                       *)
LEMMA LaunchStep ==
    ASSUME IInv, NEW n \in Node, Launch(n)
    PROVE  IInv'
<1>1. TypeOK'
  <2>1. relaunches' \in 0..MaxRelaunches
    BY MaxRelaunchesAssumption DEF Launch, IInv, TypeOK
  <2>2. phase' \in [Node -> Phases]
    BY DEF Launch, IInv, TypeOK, Phases
  <2> QED BY <2>1, <2>2 DEF Launch, IInv, TypeOK, Phases
<1>2. PhaseInv'
  BY DEF Launch, IInv, PhaseInv, TypeOK
<1>3. BrokenInv'
  <2>1. CASE phase[n] = "off"
    BY <2>1 DEF Launch, IInv, BrokenInv, TypeOK
  <2>2. CASE relaunches' = relaunches + 1
    <3>1. relaunches' # 0
      BY <2>2 DEF IInv, TypeOK
    <3> QED BY <3>1 DEF BrokenInv
  <2> QED BY <2>1, <2>2 DEF Launch
<1>4. CallInv' /\ FirstHopRight'
  <2>1. \A m \in Node : phase[m] = "serving" => phase'[m] = "serving"
    BY DEF Launch, IInv, TypeOK
  <2> QED BY <2>1, CallsKept DEF Launch, IInv
<1> QED BY <1>1, <1>2, <1>3, <1>4 DEF IInv

LEMMA ListenStep ==
    ASSUME IInv, NEW n \in Node, Listen(n)
    PROVE  IInv'
<1>1. TypeOK'
  BY DEF Listen, IInv, TypeOK
<1>2. PhaseInv' /\ BrokenInv'
  BY DEF Listen, IInv, PhaseInv, BrokenInv
<1>3. CallInv' /\ FirstHopRight'
  BY CallsKept DEF Listen, IInv
<1> QED BY <1>1, <1>2, <1>3 DEF IInv

LEMMA DialStep ==
    ASSUME IInv, NEW n \in Node, NEW m \in Node, Dial(n, m)
    PROVE  IInv'
<1>1. TypeOK'
  BY DEF Dial, IInv, TypeOK
<1>2. PhaseInv' /\ BrokenInv'
  BY DEF Dial, Dialing, IInv, PhaseInv, BrokenInv, TypeOK
<1>3. CallInv' /\ FirstHopRight'
  BY CallsKept DEF Dial, IInv
<1> QED BY <1>1, <1>2, <1>3 DEF IInv

LEMMA DialFailsStep ==
    ASSUME IInv, NEW n \in Node, NEW m \in Node, DialFails(n, m)
    PROVE  IInv'
<1>1. TypeOK'
  <2>1. tries[n][m] + 1 \in 0..(retries + 1)
    BY RetriesAssumption DEF DialFails, Dialing, IInv, TypeOK
  <2>2. tries' \in [Node -> [Node -> 0..(retries + 1)]]
    BY <2>1 DEF DialFails, IInv, TypeOK
  <2> QED BY <2>2 DEF DialFails, IInv, TypeOK
<1>2. PhaseInv' /\ BrokenInv'
  BY DEF DialFails, IInv, PhaseInv, BrokenInv
<1>3. CallInv' /\ FirstHopRight'
  BY CallsKept DEF DialFails, IInv
<1> QED BY <1>1, <1>2, <1>3 DEF IInv

LEMMA SortsStep ==
    ASSUME IInv, NEW n \in Node, Sorts(n)
    PROVE  IInv'
<1>1. TypeOK'
  <2>1. phase' \in [Node -> Phases] /\ order' \in [Node -> [0..(N - 1) -> Node]]
    BY SortedAssumption DEF Sorts, IInv, TypeOK, Phases
  <2> QED BY <2>1 DEF Sorts, IInv, TypeOK, Phases
<1>2. PhaseInv'
  BY DEF Sorts, AllDone, IInv, PhaseInv, TypeOK
<1>3. BrokenInv'
  BY DEF Sorts, AllDone, IInv, BrokenInv, TypeOK
<1>4. CallInv' /\ FirstHopRight'
  <2>1. \A m \in Node : phase[m] = "serving" => phase'[m] = "serving"
    BY DEF Sorts, AllDone, IInv, TypeOK
  <2> QED BY <2>1, CallsKept DEF Sorts, IInv
<1> QED BY <1>1, <1>2, <1>3, <1>4 DEF IInv

LEMMA InsertBeginStep ==
    ASSUME IInv, NEW n \in Node, InsertBegin(n)
    PROVE  IInv'
<1>1. TypeOK'
  BY DEF InsertBegin, IInv, TypeOK
<1>2. PhaseInv' /\ BrokenInv'
  BY DEF InsertBegin, IInv, PhaseInv, BrokenInv, TypeOK
<1>3. CallInv' /\ FirstHopRight'
  BY CallsKept DEF InsertBegin, IInv
<1> QED BY <1>1, <1>2, <1>3 DEF IInv

LEMMA InsertEndStep ==
    ASSUME IInv, NEW n \in Node, InsertEnd(n)
    PROVE  IInv'
<1>1. /\ filled[n] \in 0..N
      /\ filled[n] < N
      /\ phase[n] = "filling"
      /\ inserting' = [inserting EXCEPT ![n] = FALSE]
      /\ filled' = [filled EXCEPT ![n] = @ + 1]
      /\ UNCHANGED <<phase, relaunches, listening, tries, joined, order, broken, call>>
  <2>1. phase[n] \in Phases /\ filled[n] \in 0..N
    BY DEF IInv, TypeOK, Phases
  <2>2. inserting[n]
    BY DEF InsertEnd
  <2>3. filled[n] < N /\ phase[n] = "filling"
    BY <2>1, <2>2 DEF IInv, PhaseInv, Phases
  <2> QED BY <2>1, <2>3 DEF InsertEnd
<1>2. filled[n] + 1 \in 0..N
  BY <1>1, NodeCount
<1>3. TypeOK'
  BY <1>1, <1>2 DEF IInv, TypeOK
<1>4. PhaseInv'
  <2>1. phase' = phase /\ joined' = joined /\ order' = order
    BY <1>1
  <2>2. ASSUME NEW m \in Node
        PROVE  /\ phase[m] \in {"off", "joining", "ended"} => filled'[m] = 0 /\ ~inserting'[m]
               /\ phase[m] = "serving" => filled'[m] = N /\ ~inserting'[m]
               /\ inserting'[m] => filled'[m] < N
    <3>1. CASE m = n
      BY <1>1, <3>1 DEF IInv, TypeOK
    <3>2. CASE m # n
      BY <1>1, <3>2 DEF IInv, PhaseInv, TypeOK
    <3> QED BY <3>1, <3>2
  <2> QED BY <2>1, <2>2 DEF IInv, PhaseInv
<1>5. BrokenInv'
  BY <1>1 DEF IInv, BrokenInv
<1>6. CallInv' /\ FirstHopRight'
  BY <1>1, CallsKept DEF IInv
<1> QED BY <1>3, <1>4, <1>5, <1>6 DEF IInv

LEMMA ServeHTTPStep ==
    ASSUME IInv, NEW n \in Node, ServeHTTP(n)
    PROVE  IInv'
<1>1. TypeOK'
  BY DEF ServeHTTP, IInv, TypeOK
<1>2. PhaseInv'
  <2>1. inserting[n] => filled[n] < N
    BY DEF IInv, PhaseInv
  <2>2. ~inserting[n] /\ filled[n] = N /\ phase[n] = "filling"
    BY <2>1, NodeCount DEF ServeHTTP
  <2>3. ASSUME NEW m \in Node
        PROVE  /\ phase'[m] \in {"off", "joining", "ended"} => filled[m] = 0 /\ ~inserting[m]
               /\ phase'[m] \in {"filling", "serving"} => joined[m] = Peers(m) /\ order[m] = Sorted
               /\ phase'[m] = "serving" => filled[m] = N /\ ~inserting[m]
               /\ inserting[m] => filled[m] < N
    BY <2>2 DEF ServeHTTP, IInv, PhaseInv, TypeOK
  <2> QED BY <2>3 DEF ServeHTTP, PhaseInv
<1>3. BrokenInv'
  BY DEF ServeHTTP, IInv, BrokenInv, TypeOK
<1>4. CallInv' /\ FirstHopRight'
  <2>1. \A m \in Node : phase[m] = "serving" => phase'[m] = "serving"
    BY DEF ServeHTTP, IInv, TypeOK
  <2> QED BY <2>1, CallsKept DEF ServeHTTP, IInv
<1> QED BY <1>1, <1>2, <1>3, <1>4 DEF IInv

-----------------------------------------------------------------------------

(* What the end of a process leaves of the others.                         *)
LEMMA EndsFacts ==
    ASSUME IInv, NEW n \in Node, Ends(n), call' \in [Call -> Calls]
    PROVE  TypeOK' /\ PhaseInv' /\ BrokenInv'
<1>1. 0 \in 0..N /\ 0 \in 0..(retries + 1) /\ 0 \in 0..(N - 1)
  BY NodeCount, RetriesAssumption
<1>2. Unsorted \in [0..(N - 1) -> Node] /\ NoTries \in [Node -> 0..(retries + 1)]
  BY <1>1, SortedAssumption DEF Unsorted, NoTries
<1>3. TypeOK'
  <2>1. /\ phase' \in [Node -> Phases]
        /\ listening' \in [Node -> BOOLEAN]
        /\ inserting' \in [Node -> BOOLEAN]
        /\ relaunches' \in 0..MaxRelaunches
    BY DEF Ends, IInv, TypeOK, Phases
  <2>2. /\ tries' \in [Node -> [Node -> 0..(retries + 1)]]
        /\ order' \in [Node -> [0..(N - 1) -> Node]]
        /\ joined' \in [Node -> SUBSET Node]
        /\ filled' \in [Node -> 0..N]
    BY <1>1, <1>2 DEF Ends, IInv, TypeOK
  <2>3. broken' \subseteq Link
    BY DEF Ends, IInv, TypeOK
  <2> QED BY <2>1, <2>2, <2>3 DEF TypeOK, Phases, Calls
<1>4. PhaseInv'
  BY DEF Ends, IInv, PhaseInv, TypeOK
<1>5. BrokenInv'
  <2> SUFFICES ASSUME relaunches' = 0, NEW l \in broken' PROVE phase'[l[2]] = "ended"
    BY DEF BrokenInv
  <2>1. CASE l \in broken
    BY <2>1 DEF Ends, IInv, BrokenInv, TypeOK, Link
  <2>2. CASE l[2] = n
    BY <2>2 DEF Ends, IInv, TypeOK
  <2> QED BY <2>1, <2>2 DEF Ends
<1> QED BY <1>3, <1>4, <1>5

(* The calls it is in the chain of are lost, the others go on.             *)
Lost(n) ==
    \A c \in Call :
        \/ call'[c] = call[c] /\ ~(call[c].status = "open" /\ InChain(c, n))
        \/ /\ call[c].status = "open"
           /\ call'[c].status \in {"failed", "fatal"}
           /\ call'[c].path = call[c].path
           /\ call'[c].part = call[c].part

LEMMA EndsStep ==
    ASSUME IInv, NEW n \in Node, Ends(n), call' \in [Call -> Calls], Lost(n)
    PROVE  IInv'
<1>1. CallInv'
  <2> SUFFICES ASSUME NEW c \in Call
               PROVE  /\ call'[c].status # "new" => call'[c].path # <<>>
                      /\ call'[c].status = "open" => phase'[call'[c].path[1]] = "serving"
    BY DEF CallInv
  <2>1. call'[c].status # "new" => call'[c].path # <<>>
    BY DEF IInv, CallInv, Lost
  <2>2. ASSUME call'[c].status = "open" PROVE phase'[call'[c].path[1]] = "serving"
    <3>1. call[c].status = "open" /\ call'[c] = call[c] /\ ~InChain(c, n)
      BY <2>2 DEF Lost
    <3>2. call[c].path # <<>> /\ call[c].path \in Seq(Node)
      BY <3>1 DEF IInv, CallInv, TypeOK
    <3>3. 1 \in 1..Len(call[c].path) /\ call[c].path[1] \in Node
      BY <3>2
    <3>4. call[c].path[1] # n
      BY <3>1, <3>3 DEF InChain
    <3> QED BY <3>1, <3>3, <3>4 DEF IInv, CallInv, Ends, TypeOK
  <2> QED BY <2>1, <2>2
<1>2. FirstHopRight'
  BY DEF IInv, FirstHopRight, Owner, Lost
<1> QED BY <1>1, <1>2, EndsFacts DEF IInv

LEMMA ProcessEnds ==
    ASSUME IInv, NEW n \in Node, Ends(n), Loses(n)
    PROVE  IInv'
<1>1. \A c \in Call : call[c] \in Calls
  BY DEF IInv, TypeOK, Calls
<1>2. call' \in [Call -> Calls]
  BY <1>1 DEF Loses, Calls
<1>3. Lost(n)
  BY <1>1 DEF Loses, Lost, Calls
<1> QED BY <1>2, <1>3, EndsStep

-----------------------------------------------------------------------------

(* The steps of a call.                                                    *)
LEMMA OnlyCalls ==
    ASSUME IInv, UNCHANGED procVars, call' \in [Call -> Calls], CallInv', FirstHopRight'
    PROVE  IInv'
<1>1. TypeOK' /\ PhaseInv' /\ BrokenInv'
  BY DEF procVars, IInv, TypeOK, PhaseInv, BrokenInv, Calls
<1> QED BY <1>1 DEF IInv

LEMMA InvokeStep ==
    ASSUME IInv, NEW c \in Call, NEW n \in Node, NEW p \in Partition, Invoke(c, n, p)
    PROVE  IInv'
<1>1. \A d \in Call : call[d] \in Calls
  BY DEF IInv, TypeOK, Calls
<1> DEFINE new == [status |-> "open", part |-> p, path |-> <<n>>]
<1>2. new \in Calls /\ new.path # <<>> /\ Len(new.path) = 1 /\ new.path[1] = n
  BY PartitionAssumption DEF Calls
<1> HIDE DEF new
<1>3. call' = [call EXCEPT ![c] = new] /\ phase[n] = "serving" /\ phase' = phase
  BY DEF Invoke, new, procVars
<1>4. new.status = "open"
  BY DEF new
<1>5. call' \in [Call -> Calls]
  BY <1>1, <1>2, <1>3 DEF IInv, TypeOK, Calls
<1>6. CallInv'
  BY <1>1, <1>2, <1>3 DEF IInv, CallInv, TypeOK
<1>7. FirstHopRight'
  <2>1. call'[c] = new /\ \A d \in Call \ {c} : call'[d] = call[d]
    BY <1>3 DEF IInv, TypeOK
  <2> QED BY <1>2, <1>4, <2>1 DEF IInv, FirstHopRight, Owner
<1> QED BY <1>5, <1>6, <1>7, OnlyCalls DEF Invoke

(* A call that ends where it is, served by the owner or without success.   *)
LEMMA FinishStep ==
    ASSUME IInv, NEW c \in Call, call[c].status = "open", NEW status \in {"served", "failed"},
           Finish(c, status),
           status = "served" /\ Len(call[c].path) = 1 => call[c].path[1] = Owner(call[c].part)
    PROVE  IInv'
<1>1. \A d \in Call : call[d] \in Calls
  BY DEF IInv, TypeOK, Calls
<1>2. call' = [call EXCEPT ![c].status = status] /\ phase' = phase
  BY DEF Finish, procVars
<1>3. call' \in [Call -> Calls]
  BY <1>1, <1>2 DEF IInv, TypeOK, Calls
<1>4. CallInv'
  BY <1>1, <1>2 DEF IInv, CallInv, TypeOK, Calls
<1>5. FirstHopRight'
  BY <1>1, <1>2 DEF IInv, FirstHopRight, TypeOK, Owner, Calls
<1> QED BY <1>3, <1>4, <1>5, OnlyCalls DEF Finish

LEMMA AtFacts ==
    ASSUME IInv, NEW c \in Call, call[c].status = "open"
    PROVE  /\ call[c].path \in Seq(Node)
           /\ Len(call[c].path) \in Nat \ {0}
           /\ At(c) \in Node
           /\ InChain(c, At(c))
           /\ call[c].part \in Nat
           /\ Len(call[c].path) = 1 => call[c].path[1] = At(c) /\ phase[At(c)] = "serving"
<1>1. call[c].path \in Seq(Node) /\ call[c].path # <<>> /\ call[c].part \in Nat
  BY DEF IInv, TypeOK, CallInv
<1>2. Len(call[c].path) \in 1..Len(call[c].path)
  BY <1>1
<1>3. phase[call[c].path[1]] = "serving"
  BY DEF IInv, CallInv
<1> QED BY <1>1, <1>2, <1>3 DEF At, InChain

LEMMA ServeLocalStep ==
    ASSUME IInv, NEW c \in Call, ServeLocal(c)
    PROVE  IInv'
<1>1. call[c].status = "open" /\ Finish(c, "served")
  BY DEF ServeLocal
<1>2. PICK i \in Indexes(At(c), call[c].part) : order[At(c)][i] \notin joined[At(c)]
  BY DEF ServeLocal
<1>3. ASSUME Len(call[c].path) = 1 PROVE call[c].path[1] = Owner(call[c].part)
  <2>1. order[At(c)][i] = Owner(call[c].part) /\ joined[At(c)] = Peers(At(c))
    BY <1>1, <1>3, AtFacts, ServingFinds
  <2>2. Owner(call[c].part) \in Node
    BY <1>1, AtFacts, OwnerFound
  <2> QED BY <1>1, <1>2, <1>3, <2>1, <2>2, AtFacts DEF Peers
<1> QED BY <1>1, <1>3, FinishStep

LEMMA RedirectStep ==
    ASSUME IInv, NEW c \in Call, Redirect(c)
    PROVE  IInv'
<1>1. PICK i \in Indexes(At(c), call[c].part) :
          LET m == order[At(c)][i]
          IN  /\ m \in joined[At(c)]
              /\ \/ Finish(c, "failed")
                 \/ /\ call' = [call EXCEPT ![c].path = Append(@, m)]
                    /\ UNCHANGED procVars
  BY DEF Redirect
<1>2. call[c].status = "open"
  BY DEF Redirect
<1>3. CASE Finish(c, "failed")
  BY <1>2, <1>3, FinishStep
<1> DEFINE m == order[At(c)][i]
           path == call[c].path
<1>4. CASE call' = [call EXCEPT ![c].path = Append(path, m)] /\ UNCHANGED procVars
  <2>1. m \in Node
    BY <1>1, <1>2, AtFacts DEF IInv, TypeOK
  <2>2. /\ Append(path, m) \in Seq(Node)
        /\ Append(path, m) # <<>>
        /\ Append(path, m)[1] = path[1]
        /\ Len(Append(path, m)) = Len(path) + 1
        /\ Len(path) = 1 => Append(path, m)[2] = m
        /\ Len(path) > 1 => Append(path, m)[2] = path[2]
    BY <1>2, <2>1, AtFacts
  <2>3. Len(path) = 1 => m = Owner(call[c].part)
    BY <1>2, AtFacts, ServingFinds
  <2>4. \A d \in Call : call[d] \in Calls
    BY DEF IInv, TypeOK, Calls
  <2> DEFINE longer == Append(path, m)
  <2>5. Len(path) \in Nat \ {0}
    BY <1>2, AtFacts
  <2>6. longer[2] = Owner(call[c].part) /\ Len(longer) > 1
    <3>1. CASE Len(path) = 1
      BY <2>2, <2>3, <3>1
    <3>2. CASE Len(path) > 1
      <4>1. path[2] = Owner(call[c].part)
        BY <3>2 DEF IInv, FirstHopRight
      <4>2. longer[2] = path[2]
        BY <2>2, <3>2
      <4>3. Len(longer) > 1
        BY <2>2, <2>5
      <4> HIDE DEF longer, path
      <4> QED BY <4>1, <4>2, <4>3
    <3>3. Len(path) = 1 \/ Len(path) > 1
      <4>1. \A k \in Nat \ {0} : k = 1 \/ k > 1
        OBVIOUS
      <4> HIDE DEF path
      <4> QED BY <2>5, <4>1
    <3> HIDE DEF longer, path
    <3> QED BY <3>1, <3>2, <3>3
  <2>7. call' = [call EXCEPT ![c].path = longer] /\ phase' = phase
    BY <1>4 DEF procVars
  <2>8. longer \in Seq(Node) /\ longer # <<>> /\ longer[1] = path[1]
    BY <2>2
  <2> HIDE DEF longer, path, m
  <2>9. call' \in [Call -> Calls]
    BY <2>4, <2>7, <2>8 DEF IInv, TypeOK, Calls
  <2>10. CallInv'
    BY <2>4, <2>7, <2>8 DEF IInv, CallInv, TypeOK, Calls, path
  <2>11. FirstHopRight'
    <3>1. /\ call'[c].path = longer
          /\ call'[c].part = call[c].part
          /\ \A d \in Call \ {c} : call'[d] = call[d]
      BY <2>4, <2>7 DEF IInv, TypeOK, Calls
    <3> QED BY <2>6, <3>1 DEF IInv, FirstHopRight, Owner
  <2> QED BY <1>4, <2>9, <2>10, <2>11, OnlyCalls
<1> QED BY <1>1, <1>3, <1>4

(* A node whose handler panics is not serving yet.                         *)
LEMMA PanicsStep ==
    ASSUME IInv, NEW c \in Call, Panics(c)
    PROVE  IInv'
<1>1. call[c].status = "open" /\ At(c) \in Node
  BY AtFacts DEF Panics
<1>2. CASE Len(call[c].path) > 1
  <2>1. \A d \in Call : call[d] \in Calls
    BY DEF IInv, TypeOK, Calls
  <2>2. call' \in [Call -> Calls]
    BY <1>2, <2>1 DEF Panics, Calls
  <2>3. Lost(At(c))
    BY <1>2, <2>1 DEF Panics, Lost, Calls
  <2>4. Ends(At(c))
    BY <1>2 DEF Panics
  <2> QED BY <1>1, <2>2, <2>3, <2>4, EndsStep
<1>3. CASE ~(Len(call[c].path) > 1)
  <2>1. Finish(c, "failed")
    BY <1>3 DEF Panics, Finish
  <2> QED BY <1>1, <2>1, FinishStep
<1> QED BY <1>2, <1>3

-----------------------------------------------------------------------------

LEMMA IInvStep == IInv /\ [Next]_vars => IInv'
<1> SUFFICES ASSUME IInv, [Next]_vars PROVE IInv'
  OBVIOUS
<1>1. CASE \E n \in Node : Launch(n) \/ Listen(n) \/ Sorts(n) \/ ServeHTTP(n)
  BY <1>1, LaunchStep, ListenStep, SortsStep, ServeHTTPStep
<1>2. CASE \E n \in Node : InsertBegin(n) \/ InsertEnd(n)
  BY <1>2, InsertBeginStep, InsertEndStep
<1>3. CASE \E n, m \in Node : Dial(n, m) \/ DialFails(n, m)
  BY <1>3, DialStep, DialFailsStep
<1>4. CASE \E n \in Node : BindFails(n) \/ JoinFails(n)
  BY <1>4, ProcessEnds DEF BindFails, JoinFails
<1>5. CASE \E c \in Call, n \in Node, p \in Partition : Invoke(c, n, p)
  BY <1>5, InvokeStep
<1>6. CASE \E c \in Call : Panics(c) \/ ServeLocal(c) \/ Redirect(c)
  BY <1>6, PanicsStep, ServeLocalStep, RedirectStep
<1>7. CASE UNCHANGED vars
  BY <1>7 DEF vars, procVars, IInv, TypeOK, PhaseInv, BrokenInv, CallInv, FirstHopRight
<1> QED
  BY <1>1, <1>2, <1>3, <1>4, <1>5, <1>6, <1>7 DEF Next

(* The inductive invariant of the start-up: what a process has in each     *)
(* phase (newServer, joinN, Start), where calls are, and what broke.       *)
THEOREM IInvHolds == Spec => []IInv
<1> QED
  BY InitIInv, IInvStep, PTL DEF Spec

(* The state of processes and calls keeps its types.                       *)
THEOREM TypeCorrect == Spec => []TypeOK
<1>1. IInv => TypeOK
  BY DEF IInv
<1> QED
  BY <1>1, IInvHolds, PTL

(* A client's request goes straight to the owner of its partition, however *)
(* the nodes of a cluster of any size come up.                             *)
THEOREM RoutedRight == Spec => []FirstHopRight
<1>1. IInv => FirstHopRight
  BY DEF IInv
<1> QED
  BY <1>1, IInvHolds, PTL

(* When all nodes serve and none was launched again, the mesh is full.     *)
THEOREM MeshComplete == Spec => []MeshFull
<1>1. IInv => MeshFull
  <2> SUFFICES ASSUME IInv, relaunches = 0, \A n \in Node : phase[n] = "serving"
               PROVE  broken = {} /\ \A n \in Node : joined[n] = Peers(n)
    BY DEF MeshFull
  <2>1. \A l \in broken : l[2] \in Node /\ phase[l[2]] = "ended"
    BY DEF IInv, BrokenInv, TypeOK, Link
  <2>2. \A n \in Node : joined[n] = Peers(n)
    BY DEF IInv, PhaseInv
  <2> QED BY <2>1, <2>2
<1> QED
  BY <1>1, IInvHolds, PTL

LEMMA StayStep ==
    IInv /\ [Next]_vars =>
        [\A n \in Node : phase[n] = "serving" /\ listening[n] => phase'[n] = "serving"]_vars
<1> SUFFICES ASSUME IInv, Next, NEW n \in Node, phase[n] = "serving", listening[n]
             PROVE  phase'[n] = "serving"
  BY DEF vars
<1>1. \A m \in Node : Ends(m) => m = n \/ phase'[n] = phase[n]
  BY DEF Ends, IInv, TypeOK
<1>2. CASE \E m \in Node : Launch(m) \/ Listen(m) \/ Sorts(m) \/ ServeHTTP(m)
  BY <1>2 DEF Launch, Listen, Sorts, ServeHTTP, AllDone, IInv, TypeOK
<1>3. CASE \E m \in Node : InsertBegin(m) \/ InsertEnd(m)
  BY <1>3 DEF InsertBegin, InsertEnd
<1>4. CASE \E k, m \in Node : Dial(k, m) \/ DialFails(k, m)
  BY <1>4 DEF Dial, DialFails
<1>5. CASE \E m \in Node : BindFails(m) \/ JoinFails(m)
  BY <1>1, <1>5 DEF BindFails, JoinFails, AllDone
<1>6. CASE \E c \in Call, m \in Node, p \in Partition : Invoke(c, m, p)
  BY <1>6 DEF Invoke, procVars
<1>7. CASE \E c \in Call : Panics(c)
  <2>1. PICK c \in Call : Panics(c)
    BY <1>7
  <2>2. At(c) \in Node /\ MayPanic(At(c))
    BY <2>1, AtFacts DEF Panics
  <2>3. At(c) # n
    BY <2>2, ServingSafe
  <2>4. Ends(At(c)) \/ phase' = phase
    BY <2>1 DEF Panics, procVars
  <2> QED BY <1>1, <2>2, <2>3, <2>4
<1>8. CASE \E c \in Call : ServeLocal(c) \/ Redirect(c)
  BY <1>8 DEF ServeLocal, Redirect, Finish, procVars
<1> QED
  BY <1>2, <1>3, <1>4, <1>5, <1>6, <1>7, <1>8 DEF Next

(* No request and no peer ends a node that serves and listens: its Find    *)
(* never meets an empty ring.                                              *)
THEOREM ServingStays == Spec => ServingNodesStay
<1> QED
  BY StayStep, IInvHolds, PTL DEF Spec, ServingNodesStay

=============================================================================
