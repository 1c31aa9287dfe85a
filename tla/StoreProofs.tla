---------------------------- MODULE StoreProofs ----------------------------
(***************************************************************************)
(* The store, for every set of keys, times to live and goroutines and      *)
(* every value of the bounds: first what a push does to the entries of     *)
(* the heap, then the invariants, and last the refinement of EvictingMap,  *)
(* whose initial states are those of the store and whose steps the store's *)
(* are, or a stutter.                                                      *)
(***************************************************************************)
EXTENDS Store, TLAPS

(***************************************************************************)
(* The heap.                                                               *)
(***************************************************************************)
(* The path to the root goes on from every position but the root. *)
LEMMA PathClosed ==
    ASSUME NEW n \in Nat \ {0}
    PROVE  /\ n \in Path(n)
           /\ \A i \in Path(n) : i \in 1..n
           /\ \A i \in Path(n) : i > 1 => Parent(i) \in Path(n)
<1>1. n \in Path(n)
  BY DEF Path
<1>2. \A i \in Path(n) : i \in 1..n
  BY DEF Path
<1>3. \A i \in 1..n : i > 1 => Parent(i) \in 1..n
  BY DEF Parent
<1> QED
  BY <1>1, <1>2, <1>3 DEF Path

(* The path came from somewhere: every position on it but the end is the   *)
(* parent of another.                                                      *)
LEMMA PathStep ==
    ASSUME NEW n \in Nat \ {0}, NEW a \in Path(n), a # n
    PROVE  \E c \in Path(n) : c > 1 /\ Parent(c) = a
<1> SUFFICES ASSUME \A c \in Path(n) : c > 1 => Parent(c) # a
             PROVE  FALSE
  OBVIOUS
<1> DEFINE S == Path(n) \ {a}
<1>1. S \in SUBSET (1..n) /\ n \in S
  BY PathClosed
<1>2. \A i \in S : i > 1 => Parent(i) \in S
  BY PathClosed
<1>3. a \in S
  <2> HIDE DEF S
  <2> QED BY <1>1, <1>2 DEF Path
<1> QED
  BY <1>3

(* A push adds one element at the end of the array's index range.          *)
LEMMA PushType ==
    ASSUME NEW E, NEW h \in Seq(E), NEW e \in E,
           NEW p \in 1..(Len(h) + 1)
    PROVE  /\ Push(h, e, p) \in Seq(E)
           /\ Len(Push(h, e, p)) = Len(h) + 1
<1>1. \A i \in 2..(Len(h) + 1) : Parent(i) \in 1..Len(h)
  BY DEF Parent
<1>2. \A i \in 1..(Len(h) + 1) : i # p /\ i \in Path(Len(h) + 1) /\ i > p
                                    => h[Parent(i)] \in E
  BY <1>1
<1>3. \A i \in 1..(Len(h) + 1) : i # p /\ ~(i \in Path(Len(h) + 1) /\ i > p)
                                    => h[i] \in E
  <2> SUFFICES ASSUME NEW i \in 1..(Len(h) + 1), i # p,
                      ~(i \in Path(Len(h) + 1) /\ i > p)
               PROVE  i \in 1..Len(h)
    OBVIOUS
  <2> QED BY PathClosed
<1>4. \A i \in 1..(Len(h) + 1) : Push(h, e, p)[i] \in E
  BY <1>2, <1>3 DEF Push
<1> QED
  BY <1>4 DEF Push

(* A push loses no entry, adds the new one, and adds nothing else: what    *)
(* Scheduled and the deadlines of EvictingMap need of container/heap.      *)
THEOREM PushKeepsEntries ==
    ASSUME NEW E, NEW h \in Seq(E), NEW e \in E,
           NEW p \in 1..(Len(h) + 1), StopsAt(h, e, p)
    PROVE  /\ \E i \in 1..(Len(h) + 1) : Push(h, e, p)[i] = e
           /\ \A j \in 1..Len(h) : \E i \in 1..(Len(h) + 1) : Push(h, e, p)[i] = h[j]
           /\ \A i \in 1..(Len(h) + 1) :
                 Push(h, e, p)[i] = e \/ \E j \in 1..Len(h) : Push(h, e, p)[i] = h[j]
<1> DEFINE n == Len(h) + 1
           P == Push(h, e, p)
<1>0. n \in Nat \ {0} /\ p \in Path(n)
  BY DEF StopsAt
<1>1. P[p] = e
  BY DEF Push
<1>2. ASSUME NEW j \in 1..Len(h)
      PROVE  \E i \in 1..n : P[i] = h[j]
  <2>1. CASE j \in Path(n) /\ j >= p
    <3>1. PICK c \in Path(n) : c > 1 /\ Parent(c) = j
      BY <1>0, <2>1, PathStep
    <3>2. c \in 1..n /\ c > p
      BY <1>0, <2>1, <3>1, PathClosed DEF Parent
    <3> QED BY <3>1, <3>2 DEF Push
  <2>2. CASE ~(j \in Path(n) /\ j >= p)
    <3>1. j # p /\ j \in 1..n
      BY <1>0, <2>2
    <3>2. P[j] = h[j]
      BY <2>2, <3>1 DEF Push
    <3> QED BY <3>1, <3>2
  <2> QED BY <2>1, <2>2
<1>3. ASSUME NEW i \in 1..n
      PROVE  P[i] = e \/ \E j \in 1..Len(h) : P[i] = h[j]
  <2>1. CASE i = p
    BY <1>1, <2>1
  <2>2. CASE i # p /\ i \in Path(n) /\ i > p
    <3>1. Parent(i) \in 1..Len(h)
      BY <2>2 DEF Parent
    <3> QED BY <2>2, <3>1 DEF Push
  <2>3. CASE i # p /\ ~(i \in Path(n) /\ i > p)
    <3>1. i \in 1..Len(h)
      BY <1>0, <2>3, PathClosed
    <3> QED BY <2>3, <3>1 DEF Push
  <2> QED BY <2>1, <2>2, <2>3
<1> QED
  BY <1>1, <1>2, <1>3

(* The positions of the path follow one another: none lies between an      *)
(* element of it and its parent.                                           *)
LEMMA PathHasNoGap ==
    ASSUME NEW n \in Nat \ {0}
    PROVE  \A p, z \in Path(n) : z > p => Parent(z) >= p
<1> DEFINE G == {x \in Path(n) : \A z \in Path(n) : z > x => Parent(z) >= x}
<1>1. Path(n) \in SUBSET (1..n) /\ n \in Path(n)
  BY PathClosed
<1>2. G \in SUBSET (1..n) /\ n \in G
  BY <1>1
<1>3. ASSUME NEW x \in G, x > 1
      PROVE  Parent(x) \in G
  <2>1. x \in Path(n) /\ Parent(x) \in Path(n) /\ Parent(x) < x /\ x \in 1..n
    BY <1>1, <1>3, PathClosed DEF Parent
  <2> DEFINE S == {y \in Path(n) : y >= x \/ y <= Parent(x)}
  <2>2. S \in SUBSET (1..n) /\ n \in S
    BY <1>1, <2>1
  <2>3. ASSUME NEW y \in S, y > 1
        PROVE  Parent(y) \in S
    <3>1. Parent(y) \in Path(n) /\ y \in 1..n /\ Parent(y) <= y /\ Parent(y) \in 1..n
      BY <1>1, <2>3, PathClosed DEF Parent
    <3>2. CASE y > x
      BY <1>3, <3>1, <3>2
    <3>3. CASE y <= x
      <4>1. y = x \/ y <= Parent(x)
        BY <2>1, <2>3, <3>1, <3>3
      <4> QED BY <1>1, <2>1, <3>1, <4>1
    <3> QED BY <2>1, <3>1, <3>2, <3>3
  <2>4. \A z \in Path(n) : z \in S
    <3> HIDE DEF S
    <3> QED BY <2>2, <2>3 DEF Path
  <2>5. ASSUME NEW z \in Path(n), z > Parent(x)
        PROVE  Parent(z) >= Parent(x)
    <3>1. z \in 1..n /\ z >= x
      BY <1>1, <2>1, <2>4, <2>5
    <3>2. CASE z = x
      BY <2>1, <3>2 DEF Parent
    <3>3. CASE z > x
      <4>1. Parent(z) >= x /\ Parent(z) \in Nat
        BY <1>3, <3>1, <3>3 DEF Parent
      <4> QED BY <2>1, <4>1 DEF Parent
    <3> QED BY <2>1, <3>1, <3>2, <3>3
  <2> QED BY <2>1, <2>5
<1>4. \A x \in Path(n) : x \in G
  <2> HIDE DEF G
  <2> QED BY <1>2, <1>3 DEF Path
<1> QED
  BY <1>4

(* A push keeps the order of the heap: the elements that come down the     *)
(* path are later than the new one, and so are their other children.       *)
LEMMA PushKeepsOrder ==
    ASSUME NEW E, \A x \in E : x.time \in Nat,
           NEW h \in Seq(E), NEW e \in E, NEW p \in 1..(Len(h) + 1), StopsAt(h, e, p),
           \A i \in 2..Len(h) : h[Parent(i)].time <= h[i].time
    PROVE  \A i \in 2..(Len(h) + 1) : Push(h, e, p)[Parent(i)].time <= Push(h, e, p)[i].time
<1> DEFINE n == Len(h) + 1
           P == Push(h, e, p)
<1>0. /\ n \in Nat \ {0} /\ p \in Path(n) /\ n \in Path(n)
      /\ e.time \in Nat /\ \A i \in 1..Len(h) : h[i].time \in Nat
      /\ \A i \in Path(n) : i > p => e.time < h[Parent(i)].time
      /\ p > 1 => ~(e.time < h[Parent(p)].time)
  BY PathClosed DEF StopsAt, Rises, Less
<1>1. P[p] = e
  BY DEF Push
<1>2. \A i \in 1..n : i \in Path(n) /\ i > p => P[i] = h[Parent(i)]
  BY DEF Push
<1>3. \A i \in 1..n : i # p /\ ~(i \in Path(n) /\ i > p) => P[i] = h[i] /\ i <= Len(h)
  BY <1>0 DEF Push
<1> SUFFICES ASSUME NEW i \in 2..n
             PROVE  P[Parent(i)].time <= P[i].time
  OBVIOUS
<1> DEFINE j == Parent(i)
<1>4. i \in 1..n /\ j \in 1..Len(h) /\ j < i
  BY DEF Parent
<1>5. i <= Len(h) => h[j].time <= h[i].time
  BY <1>4
<1>6. j > 1 => Parent(j) \in 1..Len(h) /\ h[Parent(j)].time <= h[j].time
  BY <1>4 DEF Parent
<1> SUFFICES P[j].time <= P[i].time
  OBVIOUS
<1> HIDE DEF P, j, n
<1>7. CASE i = p
  <2>1. P[j] = h[j]
    BY <1>3, <1>4, <1>7 DEF n
  <2> QED BY <1>0, <1>1, <1>4, <1>7, <2>1 DEF j
<1>8. CASE i \in Path(n) /\ i > p
  <2>1. P[i] = h[j] /\ e.time < h[j].time
    BY <1>0, <1>2, <1>4, <1>8 DEF j
  <2>2. j \in Path(n) /\ j >= p
    BY <1>0, <1>4, <1>8, PathClosed, PathHasNoGap DEF j
  <2>3. CASE j = p
    BY <1>0, <1>1, <1>4, <2>1, <2>3
  <2>4. CASE j > p
    <3>1. P[j] = h[Parent(j)] /\ j > 1
      BY <1>2, <1>4, <2>2, <2>4 DEF n
    <3> QED BY <1>6, <2>1, <3>1
  <2> QED BY <1>4, <2>2, <2>3, <2>4
<1>9. CASE i # p /\ ~(i \in Path(n) /\ i > p)
  <2>1. P[i] = h[i] /\ h[j].time <= h[i].time /\ i <= Len(h)
    BY <1>3, <1>4, <1>5, <1>9
  <2>2. CASE j = p
    <3>1. p # n
      BY <1>4, <2>2 DEF n
    <3>2. PICK c \in Path(n) : c > 1 /\ Parent(c) = p
      BY <1>0, <3>1, PathStep
    <3>3. c > p
      BY <1>0, <3>2, PathClosed DEF Parent
    <3>4. e.time < h[j].time
      BY <1>0, <2>2, <3>2, <3>3
    <3> QED BY <1>0, <1>1, <1>4, <2>1, <2>2, <3>4
  <2>3. CASE j \in Path(n) /\ j > p
    <3>1. P[j] = h[Parent(j)] /\ j > 1
      BY <1>2, <1>4, <2>3 DEF n
    <3> QED BY <1>0, <1>4, <1>6, <2>1, <3>1
  <2>4. CASE j # p /\ ~(j \in Path(n) /\ j > p)
    BY <1>3, <1>4, <2>1, <2>4 DEF n
  <2> QED BY <2>2, <2>3, <2>4
<1> QED
  BY <1>7, <1>8, <1>9

(***************************************************************************)
(* The invariants.                                                         *)
(***************************************************************************)

(* Abbreviations used throughout. *)
Entry == [time : Time, key : Key]

LEMMA InitIInv == Init => IInv
<1> SUFFICES ASSUME Init PROVE IInv
  OBVIOUS
<1> USE DEF Init, Hash!Init, Hash!ZeroTime, Hash!ZeroRecord, Hash!Stored
<1>1. TypeOK
  <2>1. now \in 1..MaxTime
    BY BoundsAssumption
  <2>2. records \in [Key -> Record]
    BY BoundsAssumption DEF Record, Time
  <2>3. heap \in Seq([time : Time, key : Key]) /\ Len(heap) <= MaxHeap
    BY BoundsAssumption
  <2>4. timer \in [cutoff : Time, armed : BOOLEAN]
    BY BoundsAssumption DEF Time
  <2>5. run \in [Run -> [pc : {"idle", "purge", "reschedule"}, cutoff : Time]]
    BY BoundsAssumption DEF Time, Idle
  <2> QED
    BY <2>1, <2>2, <2>3, <2>4, <2>5 DEF TypeOK
<1>2. ClockBound
  BY DEF ClockBound, Idle
<1>3. FutureTimer
  BY DEF FutureTimer
<1>4. KeysCoherent
  BY DEF KeysCoherent
<1>5. Scheduled
  BY DEF Scheduled, Temporary
<1>6. TimerCoversHeap
  BY DEF TimerCoversHeap
<1> QED
  BY <1>1, <1>2, <1>3, <1>4, <1>5, <1>6 DEF IInv

(***************************************************************************)
(* What the methods of the hash table keep.                                *)
(***************************************************************************)
LEMMA HashStoreFacts ==
    ASSUME TypeOK, ClockBound, NEW k \in Key, NEW ttl \in TTL,
           records[k].index < MaxIndex, Hash!Store(k, ttl, now)
    PROVE  /\ records' \in [Key -> Record]
           /\ keys' \in SUBSET Key /\ dirty' \in BOOLEAN
           /\ \A x \in Key : records'[x].created <= now
           /\ \A x \in Key : x # k => records'[x] = records[x]
           /\ records'[k].expire = ttl
           /\ records'[k].created = IF k \in Hash!Stored THEN records[k].created ELSE now
           /\ Hash!Stored' = Hash!Stored \cup {k}
           /\ KeysCoherent => KeysCoherent'
<1> USE DEF Hash!ZeroTime
<1> DEFINE u == Hash!Updated(k, ttl, now)
<1>1. records' = [records EXCEPT ![k] = u] /\ dirty' = dirty
      /\ keys' = IF dirty THEN keys ELSE keys \cup {k}
  BY DEF Hash!Store
<1>2. /\ u \in Record
      /\ u.expire = ttl /\ u.index > 0
      /\ u.created = IF k \in Hash!Stored THEN records[k].created ELSE now
  <2>1. records[k] \in Record /\ now \in Time
    BY DEF TypeOK, Time
  <2>2. records[k].index + 1 \in 1..MaxIndex
    BY <2>1, BoundsAssumption DEF Record
  <2>3. (IF k \in Hash!Stored THEN records[k].created ELSE now) \in Time
    BY <2>1 DEF Record
  <2> QED
    BY <2>1, <2>2, <2>3 DEF Hash!Updated, Record
<1>3. records' \in [Key -> Record] /\ records'[k] = u
      /\ \A x \in Key : x # k => records'[x] = records[x]
  BY <1>1, <1>2 DEF TypeOK
<1>4. Hash!Stored' = Hash!Stored \cup {k}
  BY <1>2, <1>3 DEF Hash!Stored
<1>5. keys' \in SUBSET Key /\ dirty' \in BOOLEAN
  BY <1>1 DEF TypeOK
<1>6. \A x \in Key : records'[x].created <= now
  BY <1>2, <1>3 DEF ClockBound, TypeOK
<1>7. KeysCoherent => KeysCoherent'
  BY <1>1, <1>4 DEF KeysCoherent
<1> QED
  BY <1>2, <1>3, <1>4, <1>5, <1>6, <1>7

LEMMA HashDeleteFacts ==
    ASSUME TypeOK, ClockBound, NEW gone, Hash!Delete(gone)
    PROVE  /\ records' \in [Key -> Record]
           /\ keys' \in SUBSET Key /\ dirty' \in BOOLEAN
           /\ \A x \in Key : records'[x].created <= now
           /\ \A x \in Key : x \notin gone => records'[x] = records[x]
           /\ Hash!Stored' = Hash!Stored \ gone
           /\ KeysCoherent => KeysCoherent'
<1> USE DEF Hash!ZeroTime, Hash!ZeroRecord
<1>1. /\ records' = [x \in Key |-> IF x \in gone THEN Hash!ZeroRecord ELSE records[x]]
      /\ dirty' = (dirty \/ gone \cap Hash!Stored # {})
      /\ keys' = keys
  BY DEF Hash!Delete
<1>2. Hash!ZeroRecord \in Record
  BY BoundsAssumption DEF Record, Time
<1>3. records' \in [Key -> Record]
  BY <1>1, <1>2 DEF TypeOK
<1>4. \A x \in Key : records'[x].created <= now
  BY <1>1 DEF ClockBound, TypeOK
<1>5. Hash!Stored' = Hash!Stored \ gone
  BY <1>1 DEF Hash!Stored
<1>6. KeysCoherent => KeysCoherent'
  BY <1>1, <1>5 DEF KeysCoherent
<1>7. keys' \in SUBSET Key /\ dirty' \in BOOLEAN
  BY <1>1 DEF TypeOK
<1> QED
  BY <1>1, <1>3, <1>4, <1>5, <1>6, <1>7

(***************************************************************************)
(* What re-scheduling the timer comes to.                                  *)
(***************************************************************************)
LEMMA AfterFuncFacts ==
    ASSUME TypeOK, FutureTimer, NEW t \in Time, AfterFunc(t)
    PROVE  /\ timer' \in [cutoff : Time, armed : BOOLEAN]
           /\ timer'.armed
           /\ timer'.cutoff = t \/ (now < timer.cutoff /\ timer' = timer)
<1>1. CASE timer.cutoff # Hash!ZeroTime /\ timer.cutoff < t /\ now < timer.cutoff
  BY <1>1 DEF AfterFunc, FutureTimer, TypeOK
<1>2. CASE ~(timer.cutoff # Hash!ZeroTime /\ timer.cutoff < t /\ now < timer.cutoff)
  <2>1. timer' = [cutoff |-> t, armed |-> TRUE]
    BY <1>2 DEF AfterFunc
  <2> QED BY <2>1
<1> QED
  BY <1>1, <1>2

(***************************************************************************)
(* One lemma for each kind of step.                                        *)
(***************************************************************************)
LEMMA StorePermanentStep ==
    ASSUME IInv, NEW k \in Key, NEW ttl \in TTL, StorePermanent(k, ttl)
    PROVE  IInv'
<1>1. /\ ttl <= 0 /\ records[k].index < MaxIndex /\ Hash!Store(k, ttl, now)
      /\ UNCHANGED <<now, heap, timer, run>>
  BY DEF StorePermanent
<1>2. TypeOK /\ ClockBound /\ FutureTimer /\ KeysCoherent /\ Scheduled /\ TimerCoversHeap
  BY DEF IInv
<1>3. /\ records' \in [Key -> Record]
      /\ keys' \in SUBSET Key /\ dirty' \in BOOLEAN
      /\ \A x \in Key : records'[x].created <= now
      /\ \A x \in Key : x # k => records'[x] = records[x]
      /\ records'[k].expire = ttl
      /\ Hash!Stored' = Hash!Stored \cup {k}
      /\ KeysCoherent'
  BY <1>1, <1>2, HashStoreFacts
<1>4. TypeOK'
  BY <1>1, <1>2, <1>3 DEF TypeOK
<1>5. ClockBound' /\ FutureTimer' /\ TimerCoversHeap'
  BY <1>1, <1>2, <1>3 DEF ClockBound, FutureTimer, TimerCoversHeap, Active
<1>6. Scheduled'
  <2> SUFFICES ASSUME NEW x \in Key, Temporary(x)'
               PROVE  (\E i \in 1..Len(heap) : heap[i] = Element(Hash!ExpiresAt(records[x]), x))'
    BY DEF Scheduled
  <2>1. x # k
    BY <1>1, <1>3 DEF Temporary, Hash!IsPermanent
  <2>2. Temporary(x)
    BY <1>3, <2>1 DEF Temporary, Hash!IsPermanent
  <2> QED
    BY <1>1, <1>2, <1>3, <2>1, <2>2 DEF Scheduled, Hash!ExpiresAt
<1> QED
  BY <1>3, <1>4, <1>5, <1>6 DEF IInv

LEMMA StoreTemporaryStep ==
    ASSUME IInv, NEW k \in Key, NEW ttl \in TTL, StoreTemporary(k, ttl)
    PROVE  IInv'
<1> DEFINE cutoff == Hash!ExpiresAt(records'[k])
           e == Element(cutoff, k)
<1>1. PICK p \in 1..(Len(heap) + 1) : StopsAt(heap, e, p) /\ heap' = Push(heap, e, p)
  BY DEF StoreTemporary
<1>2. /\ ttl > 0 /\ records[k].index < MaxIndex /\ Hash!Store(k, ttl, now)
      /\ Len(heap) < MaxHeap /\ now + ttl <= MaxTime
      /\ AfterFunc(cutoff)
      /\ now' = now /\ run' = run
  BY DEF StoreTemporary
<1>3. TypeOK /\ ClockBound /\ FutureTimer /\ KeysCoherent /\ Scheduled /\ TimerCoversHeap
  BY DEF IInv
<1>4. /\ records' \in [Key -> Record]
      /\ keys' \in SUBSET Key /\ dirty' \in BOOLEAN
      /\ \A x \in Key : records'[x].created <= now
      /\ \A x \in Key : x # k => records'[x] = records[x]
      /\ records'[k].expire = ttl
      /\ Hash!Stored' = Hash!Stored \cup {k}
      /\ KeysCoherent'
  BY <1>2, <1>3, HashStoreFacts
<1>5. cutoff \in Time
  <2>1. records'[k].created \in Nat /\ ttl \in Int /\ now \in Nat
    BY <1>3, <1>4, TTLAssumption, BoundsAssumption DEF Record, Time, TypeOK
  <2> QED BY <1>2, <1>4, <2>1, BoundsAssumption DEF Hash!ExpiresAt, Time
<1>6. e \in Entry /\ heap \in Seq(Entry)
  BY <1>3, <1>5 DEF Element, Entry, TypeOK
<1> HIDE DEF cutoff, e
<1>7. heap' \in Seq(Entry) /\ Len(heap') = Len(heap) + 1
  BY <1>1, <1>6, PushType
<1>8. /\ \E i \in 1..Len(heap') : heap'[i] = e
      /\ \A j \in 1..Len(heap) : \E i \in 1..Len(heap') : heap'[i] = heap[j]
  BY <1>1, <1>6, <1>7, PushKeepsEntries
<1>9. /\ timer' \in [cutoff : Time, armed : BOOLEAN]
      /\ timer'.armed
      /\ timer'.cutoff = cutoff \/ (now < timer.cutoff /\ timer' = timer)
  BY <1>2, <1>3, <1>5, AfterFuncFacts
<1>10. TypeOK'
  <2>1. Len(heap') <= MaxHeap
    BY <1>2, <1>6, <1>7, BoundsAssumption
  <2> QED BY <1>2, <1>3, <1>4, <1>7, <1>9, <2>1 DEF TypeOK, Entry
<1>11. ClockBound'
  BY <1>2, <1>3, <1>4 DEF ClockBound
<1>12. FutureTimer'
  <2>1. e.time = cutoff
    BY DEF e, Element
  <2>2. CASE timer'.cutoff = cutoff
    BY <1>8, <1>9, <2>1, <2>2 DEF FutureTimer
  <2>3. CASE now < timer.cutoff /\ timer' = timer
    BY <1>2, <1>3, <1>8, <1>9, <2>3 DEF FutureTimer
  <2> QED BY <1>9, <2>2, <2>3
<1>13. TimerCoversHeap'
  BY <1>9 DEF TimerCoversHeap
<1>14. Scheduled'
  <2> SUFFICES ASSUME NEW x \in Key, Temporary(x)'
               PROVE  \E i \in 1..Len(heap') : heap'[i] = Element(Hash!ExpiresAt(records'[x]), x)
    BY DEF Scheduled, Hash!ExpiresAt
  <2>1. CASE x = k
    BY <1>8, <2>1 DEF e, cutoff
  <2>2. CASE x # k
    <3>1. Temporary(x) /\ records'[x] = records[x]
      BY <1>4, <2>2 DEF Temporary, Hash!IsPermanent
    <3> QED BY <1>3, <1>8, <3>1 DEF Scheduled
  <2> QED BY <2>1, <2>2
<1> QED
  BY <1>4, <1>10, <1>11, <1>12, <1>13, <1>14 DEF IInv

(* Load of an expired record, and Delete, come to the same.                *)
LEMMA DeletionStep ==
    ASSUME IInv, NEW gone, Hash!Delete(gone), UNCHANGED <<now, heap, timer, run>>
    PROVE  IInv'
<1>1. TypeOK /\ ClockBound /\ FutureTimer /\ KeysCoherent /\ Scheduled /\ TimerCoversHeap
  BY DEF IInv
<1>2. /\ records' \in [Key -> Record]
      /\ keys' \in SUBSET Key /\ dirty' \in BOOLEAN
      /\ \A x \in Key : records'[x].created <= now
      /\ \A x \in Key : x \notin gone => records'[x] = records[x]
      /\ Hash!Stored' = Hash!Stored \ gone
      /\ KeysCoherent'
  BY <1>1, HashDeleteFacts
<1>3. TypeOK'
  BY <1>1, <1>2 DEF TypeOK
<1>4. ClockBound' /\ FutureTimer' /\ TimerCoversHeap'
  BY <1>1, <1>2 DEF ClockBound, FutureTimer, TimerCoversHeap, Active
<1>5. Scheduled'
  BY <1>1, <1>2 DEF Scheduled, Temporary, Hash!IsPermanent, Hash!ExpiresAt
<1> QED
  BY <1>2, <1>3, <1>4, <1>5 DEF IInv

LEMMA KeysStep ==
    ASSUME IInv, Keys
    PROVE  IInv'
<1>1. TypeOK /\ ClockBound /\ FutureTimer /\ KeysCoherent /\ Scheduled /\ TimerCoversHeap
  BY DEF IInv
<1>2. /\ keys' = (IF dirty THEN Hash!Stored ELSE keys) /\ dirty' = FALSE
      /\ UNCHANGED <<records, now, heap, timer, run>>
  BY DEF Keys, Hash!Keys
<1>3. Hash!Stored \subseteq Key /\ Hash!Stored' = Hash!Stored
  BY <1>2 DEF Hash!Stored
<1>4. TypeOK'
  BY <1>1, <1>2, <1>3 DEF TypeOK
<1>5. KeysCoherent'
  BY <1>1, <1>2, <1>3 DEF KeysCoherent
<1>6. ClockBound' /\ FutureTimer' /\ TimerCoversHeap'
  BY <1>1, <1>2 DEF ClockBound, FutureTimer, TimerCoversHeap, Active
<1>7. Scheduled'
  BY <1>1, <1>2, <1>3 DEF Scheduled, Temporary, Hash!IsPermanent, Hash!ExpiresAt
<1> QED
  BY <1>4, <1>5, <1>6, <1>7 DEF IInv

LEMMA TimerFireStep ==
    ASSUME IInv, NEW g \in Run, TimerFire(g)
    PROVE  IInv'
<1>1. TypeOK /\ ClockBound /\ FutureTimer /\ KeysCoherent /\ Scheduled /\ TimerCoversHeap
  BY DEF IInv
<1>2. /\ timer.armed /\ timer.cutoff <= now
      /\ timer' = [timer EXCEPT !.armed = FALSE]
      /\ run' = [run EXCEPT ![g] = [pc |-> "purge", cutoff |-> timer.cutoff]]
      /\ UNCHANGED <<now, records, keys, dirty, heap>>
  BY DEF TimerFire
<1>3. TypeOK'
  BY <1>1, <1>2 DEF TypeOK
<1>4. ClockBound'
  BY <1>1, <1>2 DEF ClockBound, TypeOK
<1>5. FutureTimer'
  BY <1>1, <1>2, BoundsAssumption DEF FutureTimer, TypeOK, Time
<1>6. TimerCoversHeap'
  <2>1. run'[g].pc # "idle"
    BY <1>1, <1>2 DEF TypeOK
  <2> QED BY <2>1 DEF TimerCoversHeap, Active
<1>7. Scheduled' /\ KeysCoherent'
  BY <1>1, <1>2 DEF Scheduled, Temporary, KeysCoherent, Hash!Stored,
                    Hash!IsPermanent, Hash!ExpiresAt
<1> QED
  BY <1>3, <1>4, <1>5, <1>6, <1>7 DEF IInv

LEMMA PurgeStep ==
    ASSUME IInv, NEW g \in Run, Purge(g)
    PROVE  IInv'
<1> DEFINE cutoff == run[g].cutoff
<1>1. TypeOK /\ ClockBound /\ FutureTimer /\ KeysCoherent /\ Scheduled /\ TimerCoversHeap
  BY DEF IInv
<1>2. PICK n \in 0..Len(heap) :
         /\ PopsDownTo(heap, cutoff, n)
         /\ heap' = SubSeq(heap, 1, n)
         /\ Hash!Delete({heap[i].key : i \in (n + 1)..Len(heap)})
  BY DEF Purge, DeleteExpiredKeys
<1>3. /\ run' = [run EXCEPT ![g].pc = "reschedule"]
      /\ UNCHANGED <<now, timer>>
  BY DEF Purge
<1> DEFINE gone == {heap[i].key : i \in (n + 1)..Len(heap)}
<1>4. /\ records' \in [Key -> Record]
      /\ keys' \in SUBSET Key /\ dirty' \in BOOLEAN
      /\ \A x \in Key : records'[x].created <= now
      /\ \A x \in Key : x \notin gone => records'[x] = records[x]
      /\ Hash!Stored' = Hash!Stored \ gone
      /\ KeysCoherent'
  BY <1>1, <1>2, HashDeleteFacts
<1>5. heap \in Seq(Entry) /\ Len(heap) \in Nat
  BY <1>1 DEF TypeOK, Entry
<1>6. /\ heap' \in Seq(Entry) /\ Len(heap') = n
      /\ \A i \in 1..n : heap'[i] = heap[i]
  BY <1>2, <1>5
<1>7. \A i \in (n + 1)..Len(heap) : heap[i].time <= cutoff
  BY <1>2 DEF PopsDownTo
<1>8. cutoff \in Time /\ cutoff <= now /\ now \in Time
  BY <1>1, BoundsAssumption DEF TypeOK, ClockBound, Time
<1>9. TypeOK'
  <2>1. run' \in [Run -> [pc : {"idle", "purge", "reschedule"}, cutoff : Time]]
    BY <1>1, <1>3 DEF TypeOK
  <2>2. Len(heap') <= MaxHeap
    BY <1>1, <1>2, <1>5, <1>6, BoundsAssumption DEF TypeOK
  <2> QED BY <1>1, <1>3, <1>4, <1>6, <2>1, <2>2 DEF TypeOK, Entry
<1>10. ClockBound'
  BY <1>1, <1>3, <1>4 DEF ClockBound, TypeOK
<1>11. FutureTimer'
  <2> SUFFICES ASSUME now < timer.cutoff
               PROVE  timer.armed /\ \E i \in 1..Len(heap') : heap'[i].time = timer.cutoff
    BY <1>3 DEF FutureTimer
  <2>1. timer.armed /\ \E i \in 1..Len(heap) : heap[i].time = timer.cutoff
    BY <1>1 DEF FutureTimer
  <2>2. PICK i \in 1..Len(heap) : heap[i].time = timer.cutoff
    BY <2>1
  <2>3. timer.cutoff \in Time
    BY <1>1 DEF TypeOK
  <2>4. i \in 1..n
    <3>1. ~(timer.cutoff <= cutoff)
      BY <1>8, <2>3 DEF Time
    <3> QED BY <1>5, <1>7, <2>2, <3>1
  <2> QED BY <1>6, <2>1, <2>2, <2>4
<1>12. TimerCoversHeap'
  <2>1. run'[g].pc # "idle"
    BY <1>1, <1>3 DEF TypeOK
  <2> QED BY <2>1 DEF TimerCoversHeap, Active
<1>13. Scheduled'
  <2> SUFFICES ASSUME NEW x \in Key, Temporary(x)'
               PROVE  \E i \in 1..Len(heap') : heap'[i] = Element(Hash!ExpiresAt(records'[x]), x)
    BY DEF Scheduled, Hash!ExpiresAt
  <2>1. x \notin gone /\ x \in Hash!Stored
    BY <1>4 DEF Temporary
  <2>2. records'[x] = records[x] /\ Temporary(x)
    BY <1>4, <2>1 DEF Temporary, Hash!IsPermanent
  <2>3. PICK i \in 1..Len(heap) : heap[i] = Element(Hash!ExpiresAt(records[x]), x)
    BY <1>1, <2>2 DEF Scheduled
  <2>4. heap[i].key = x
    BY <2>3 DEF Element
  <2>5. i \in 1..n
    BY <1>5, <2>1, <2>4
  <2> QED BY <1>6, <2>2, <2>3, <2>5
<1> QED
  BY <1>4, <1>9, <1>10, <1>11, <1>12, <1>13 DEF IInv

LEMMA RescheduleStep ==
    ASSUME IInv, NEW g \in Run, Reschedule(g)
    PROVE  IInv'
<1>1. TypeOK /\ ClockBound /\ FutureTimer /\ KeysCoherent /\ Scheduled /\ TimerCoversHeap
  BY DEF IInv
<1>2. /\ heap = <<>> => UNCHANGED timer
      /\ heap # <<>> => AfterFunc(Peek(heap).time)
      /\ run' = [run EXCEPT ![g] = Idle]
      /\ UNCHANGED <<now, records, keys, dirty, heap>>
  BY DEF Reschedule
<1>3. heap # <<>> =>
         /\ timer' \in [cutoff : Time, armed : BOOLEAN]
         /\ timer'.armed
         /\ \/ \E i \in 1..Len(heap) : timer'.cutoff = heap[i].time
            \/ now < timer.cutoff /\ timer' = timer
  <2> SUFFICES ASSUME heap # <<>>
               PROVE  /\ timer' \in [cutoff : Time, armed : BOOLEAN]
                      /\ timer'.armed
                      /\ \/ \E i \in 1..Len(heap) : timer'.cutoff = heap[i].time
                         \/ now < timer.cutoff /\ timer' = timer
    OBVIOUS
  <2>1. heap \in Seq(Entry) /\ Len(heap) \in 1..Len(heap)
    BY <1>1 DEF TypeOK, Entry
  <2>2. Peek(heap).time = heap[Len(heap)].time /\ heap[Len(heap)] \in Entry
    BY <2>1 DEF Peek
  <2>3. Peek(heap).time \in Time
    BY <2>2 DEF Entry
  <2> QED
    BY <1>1, <1>2, <2>1, <2>2, <2>3, AfterFuncFacts
<1>4. TypeOK'
  <2>1. run' \in [Run -> [pc : {"idle", "purge", "reschedule"}, cutoff : Time]]
    BY <1>1, <1>2, BoundsAssumption DEF TypeOK, Idle, Hash!ZeroTime, Time
  <2> QED BY <1>1, <1>2, <1>3, <2>1 DEF TypeOK
<1>5. ClockBound'
  BY <1>1, <1>2, BoundsAssumption DEF ClockBound, TypeOK, Idle, Hash!ZeroTime
<1>6. FutureTimer'
  BY <1>1, <1>2, <1>3 DEF FutureTimer
<1>7. TimerCoversHeap'
  BY <1>2, <1>3 DEF TimerCoversHeap
<1>8. Scheduled' /\ KeysCoherent'
  BY <1>1, <1>2 DEF Scheduled, Temporary, KeysCoherent, Hash!Stored,
                    Hash!IsPermanent, Hash!ExpiresAt
<1> QED
  BY <1>4, <1>5, <1>6, <1>7, <1>8 DEF IInv

LEMMA TickStep ==
    ASSUME IInv, Tick
    PROVE  IInv'
<1>1. TypeOK /\ ClockBound /\ FutureTimer /\ KeysCoherent /\ Scheduled /\ TimerCoversHeap
  BY DEF IInv
<1>2. now < MaxTime /\ now' = now + 1 /\ UNCHANGED storeVars
  BY DEF Tick
<1>3. TypeOK'
  BY <1>1, <1>2, BoundsAssumption DEF TypeOK, storeVars
<1>4. ClockBound'
  BY <1>1, <1>2, BoundsAssumption DEF TypeOK, ClockBound, storeVars, Record, Time
<1>5. FutureTimer'
  BY <1>1, <1>2, BoundsAssumption DEF TypeOK, FutureTimer, storeVars, Time
<1>6. TimerCoversHeap' /\ Scheduled' /\ KeysCoherent'
  BY <1>1, <1>2 DEF TimerCoversHeap, Active, Scheduled, Temporary, KeysCoherent,
                    Hash!Stored, Hash!IsPermanent, Hash!ExpiresAt, storeVars
<1> QED
  BY <1>3, <1>4, <1>5, <1>6 DEF IInv

LEMMA StutterStep ==
    ASSUME IInv, UNCHANGED vars
    PROVE  IInv'
BY DEF vars, storeVars, IInv, TypeOK, ClockBound, FutureTimer, TimerCoversHeap, Active,
       Scheduled, Temporary, KeysCoherent, Hash!Stored, Hash!IsPermanent, Hash!ExpiresAt

(***************************************************************************)
(* The theorems.                                                           *)
(***************************************************************************)
LEMMA NextIInv == IInv /\ [Next]_vars => IInv'
<1> SUFFICES ASSUME IInv, [Next]_vars PROVE IInv'
  OBVIOUS
<1>1. ASSUME NEW k \in Key, NEW ttl \in TTL, StorePermanent(k, ttl) PROVE IInv'
  BY <1>1, StorePermanentStep
<1>2. ASSUME NEW k \in Key, NEW ttl \in TTL, StoreTemporary(k, ttl) PROVE IInv'
  BY <1>2, StoreTemporaryStep
<1>3. ASSUME NEW k \in Key, LoadExpired(k) PROVE IInv'
  <2>1. Hash!Delete({k}) /\ UNCHANGED <<now, heap, timer, run>>
    BY <1>3 DEF LoadExpired
  <2> QED BY <2>1, DeletionStep
<1>4. ASSUME NEW k \in Deletable, Delete(k) PROVE IInv'
  <2>1. Hash!Delete({k}) /\ UNCHANGED <<now, heap, timer, run>>
    BY <1>4 DEF Delete
  <2> QED BY <2>1, DeletionStep
<1>5. CASE Keys
  BY <1>5, KeysStep
<1>6. ASSUME NEW g \in Run, TimerFire(g) PROVE IInv'
  BY <1>6, TimerFireStep
<1>7. ASSUME NEW g \in Run, Purge(g) PROVE IInv'
  BY <1>7, PurgeStep
<1>8. ASSUME NEW g \in Run, Reschedule(g) PROVE IInv'
  BY <1>8, RescheduleStep
<1>9. CASE Tick
  BY <1>9, TickStep
<1>10. CASE UNCHANGED vars
  BY <1>10, StutterStep
<1> QED
  BY <1>1, <1>2, <1>3, <1>4, <1>5, <1>6, <1>7, <1>8, <1>9, <1>10 DEF Next, Client

(* The inductive invariant holds of every reachable state: an execution of *)
(* the store's methods and of any number of deleteAfter goroutines.        *)
THEOREM InductiveInvariant == Spec => []IInv
<1>1. Init => IInv
  BY InitIInv
<1>2. IInv /\ [Next]_vars => IInv'
  BY NextIInv
<1> QED
  BY <1>1, <1>2, PTL DEF Spec

(* Every state of the store has the types that TypeOK gives it; no         *)
(* deadline is ever beyond the clock's horizon.                            *)
THEOREM TypeCorrect == Spec => []TypeOK
<1>1. IInv => TypeOK
  BY DEF IInv
<1> QED
  BY <1>1, InductiveInvariant, PTL

(* The key list that is not marked dirty names exactly the stored keys.    *)
THEOREM KeysAreCoherent == Spec => []KeysCoherent
<1>1. IInv => KeysCoherent
  BY DEF IInv
<1> QED
  BY <1>1, InductiveInvariant, PTL

(* Every temporary record has a heap entry at its present deadline.        *)
THEOREM TemporariesAreScheduled == Spec => []Scheduled
<1>1. IInv => Scheduled
  BY DEF IInv
<1> QED
  BY <1>1, InductiveInvariant, PTL

(* A heap with entries always has a pending timer or a deleteAfter that    *)
(* has still to re-schedule it.                                            *)
THEOREM TimerIsHandedOver == Spec => []TimerCoversHeap
<1>1. IInv => TimerCoversHeap
  BY DEF IInv
<1> QED
  BY <1>1, InductiveInvariant, PTL

(* The timer is never set beyond the last deadline of the heap: when every *)
(* entry is due, so is the timer, or a deleteAfter is under way.           *)
THEOREM TimerIsNotLate == Spec => []LingerBound
<1>1. IInv => LingerBound
  <2> SUFFICES ASSUME IInv, heap # <<>>, ~Active,
                      \A i \in 1..Len(heap) : heap[i].time <= now
               PROVE  timer.armed /\ timer.cutoff <= now
    BY DEF LingerBound
  <2>1. timer.armed
    BY DEF IInv, TimerCoversHeap
  <2>2. ~(now < timer.cutoff)
    <3> SUFFICES ASSUME now < timer.cutoff PROVE FALSE
      OBVIOUS
    <3>1. PICK i \in 1..Len(heap) : heap[i].time = timer.cutoff
      BY DEF IInv, FutureTimer
    <3> QED
      BY <3>1, BoundsAssumption DEF IInv, TypeOK, Time
  <2> QED
    BY <2>1, <2>2, BoundsAssumption DEF IInv, TypeOK, Time
<1> QED
  BY <1>1, InductiveInvariant, PTL

LEMMA TemporaryEntry ==
    ASSUME IInv, NEW k \in Key, NEW ttl \in TTL, StoreTemporary(k, ttl)
    PROVE  Element(Hash!ExpiresAt(records'[k]), k) \in Entry
<1>1. /\ ttl > 0 /\ now + ttl <= MaxTime /\ TypeOK /\ ClockBound
      /\ records[k].index < MaxIndex /\ Hash!Store(k, ttl, now)
  BY DEF StoreTemporary, IInv
<1>2. /\ records' \in [Key -> Record]
      /\ \A x \in Key : records'[x].created <= now
      /\ records'[k].expire = ttl
  BY <1>1, HashStoreFacts
<1>3. records'[k].created \in Nat /\ ttl \in Int /\ now \in Nat
  BY <1>1, <1>2, TTLAssumption, BoundsAssumption DEF Record, Time, TypeOK
<1> QED
  BY <1>1, <1>2, <1>3, BoundsAssumption DEF Hash!ExpiresAt, Time, Element, Entry

(* The heap is ordered, although its last element is popped instead of its *)
(* root: a push keeps the order, and what is left of an ordered array when *)
(* its end is cut off is ordered.                                          *)
THEOREM HeapStaysOrdered == Spec => []HeapOrdered
<1>1. Init => HeapOrdered
  BY DEF Init, HeapOrdered
<1>2. ASSUME IInv, HeapOrdered, [Next]_vars
      PROVE  HeapOrdered'
  <2>0. TypeOK /\ heap \in Seq(Entry)
    BY <1>2 DEF IInv, TypeOK, Entry
  <2>1. ASSUME NEW k \in Key, NEW ttl \in TTL, StoreTemporary(k, ttl)
        PROVE  HeapOrdered'
    <3>1. PICK p \in 1..(Len(heap) + 1) :
              /\ StopsAt(heap, Element(Hash!ExpiresAt(records'[k]), k), p)
              /\ heap' = Push(heap, Element(Hash!ExpiresAt(records'[k]), k), p)
      BY <2>1 DEF StoreTemporary
    <3>2. PICK e : e = Element(Hash!ExpiresAt(records'[k]), k)
      OBVIOUS
    <3>3. e \in Entry
      BY <1>2, <2>1, <3>2, TemporaryEntry
    <3>4. \A x \in Entry : x.time \in Nat
      BY BoundsAssumption DEF Entry, Time
    <3>5. \A i \in 2..Len(heap) : heap[Parent(i)].time <= heap[i].time
      BY <1>2 DEF HeapOrdered
    <3>6. Len(heap') = Len(heap) + 1
      BY <3>1 DEF Push
    <3> QED BY <2>0, <3>1, <3>2, <3>3, <3>4, <3>5, <3>6, PushKeepsOrder DEF HeapOrdered
  <2>2. ASSUME NEW g \in Run, Purge(g)
        PROVE  HeapOrdered'
    <3>1. PICK n \in 0..Len(heap) : heap' = SubSeq(heap, 1, n)
      BY <2>2 DEF Purge, DeleteExpiredKeys
    <3>2. Len(heap') = n /\ \A i \in 1..n : heap'[i] = heap[i]
      BY <2>0, <3>1
    <3>3. \A i \in 2..n : Parent(i) \in 1..n
      BY DEF Parent
    <3> QED BY <1>2, <3>2, <3>3 DEF HeapOrdered
  <2>3. UNCHANGED heap => HeapOrdered'
    BY <1>2 DEF HeapOrdered
  <2> QED BY <1>2, <2>1, <2>2, <2>3
          DEF Next, Client, vars, storeVars, StorePermanent, LoadExpired, Delete, Keys,
              TimerFire, Reschedule, Tick
<1> QED
  BY <1>1, <1>2, InductiveInvariant, PTL DEF Spec

(***************************************************************************)
(* The refinement of EvictingMap.                                          *)
(***************************************************************************)
live      == Hash!Stored
born      == [k \in Key |-> records[k].created]
deadlines == {<<heap[i].key, heap[i].time>> : i \in 1..Len(heap)}

absVars == <<now, live, born, deadlines>>

LEMMA InitRefines == Init => Abstract!Init
BY DEF Init, Hash!Init, Hash!ZeroRecord, Hash!ZeroTime, Hash!Stored,
       Abstract!Init, Abstract!Never

(* A Store is a Put, be the record permanent or temporary.                 *)
LEMMA PermanentRefines ==
    ASSUME IInv, NEW k \in Key, NEW ttl \in TTL, StorePermanent(k, ttl)
    PROVE  Abstract!Put(k, ttl)
<1>1. /\ ~(ttl > 0) /\ UNCHANGED <<now, heap>>
      /\ TypeOK /\ ClockBound
      /\ records[k].index < MaxIndex /\ Hash!Store(k, ttl, now)
  BY TTLAssumption DEF StorePermanent, IInv
<1>2. /\ \A x \in Key : x # k => records'[x] = records[x]
      /\ records'[k].created = IF k \in Hash!Stored THEN records[k].created ELSE now
      /\ Hash!Stored' = Hash!Stored \cup {k}
  BY <1>1, HashStoreFacts
<1>3. born' = [born EXCEPT ![k] = IF k \in Hash!Stored THEN @ ELSE now]
  BY <1>2 DEF born
<1> QED
  BY <1>1, <1>2, <1>3 DEF Abstract!Put, born

LEMMA TemporaryRefines ==
    ASSUME IInv, NEW k \in Key, NEW ttl \in TTL, StoreTemporary(k, ttl)
    PROVE  Abstract!Put(k, ttl)
<1> DEFINE cutoff == Hash!ExpiresAt(records'[k])
           e == Element(cutoff, k)
<1>1. /\ ttl > 0 /\ now' = now /\ now + ttl <= MaxTime
      /\ TypeOK /\ ClockBound
      /\ records[k].index < MaxIndex /\ Hash!Store(k, ttl, now)
  BY DEF StoreTemporary, IInv
<1>2. PICK p \in 1..(Len(heap) + 1) : StopsAt(heap, e, p) /\ heap' = Push(heap, e, p)
  BY DEF StoreTemporary
<1>3. /\ records' \in [Key -> Record]
      /\ \A x \in Key : records'[x].created <= now
      /\ \A x \in Key : x # k => records'[x] = records[x]
      /\ records'[k].expire = ttl
      /\ records'[k].created = IF k \in Hash!Stored THEN records[k].created ELSE now
      /\ Hash!Stored' = Hash!Stored \cup {k}
  BY <1>1, HashStoreFacts
<1>4. born' = [born EXCEPT ![k] = IF k \in Hash!Stored THEN @ ELSE now]
  BY <1>3 DEF born
<1>5. born'[k] + ttl = cutoff
  BY <1>3 DEF born, Hash!ExpiresAt
<1>6. cutoff \in Time
  <2>1. records'[k].created \in Nat /\ ttl \in Int /\ now \in Nat
    BY <1>1, <1>3, TTLAssumption, BoundsAssumption DEF Record, Time, TypeOK
  <2> QED BY <1>1, <1>3, <2>1, BoundsAssumption DEF Hash!ExpiresAt, Time
<1> HIDE DEF cutoff
<1>7. e \in Entry /\ heap \in Seq(Entry) /\ e.time = cutoff /\ e.key = k
  BY <1>1, <1>6 DEF Element, Entry, TypeOK
<1> HIDE DEF e
<1>8. Len(heap') = Len(heap) + 1
  BY <1>2, <1>7, PushType
<1>9. /\ \E i \in 1..Len(heap') : heap'[i] = e
      /\ \A j \in 1..Len(heap) : \E i \in 1..Len(heap') : heap'[i] = heap[j]
      /\ \A i \in 1..Len(heap') : heap'[i] = e \/ \E j \in 1..Len(heap) : heap'[i] = heap[j]
  <2>1. /\ \E i \in 1..(Len(heap) + 1) : Push(heap, e, p)[i] = e
        /\ \A j \in 1..Len(heap) :
              \E i \in 1..(Len(heap) + 1) : Push(heap, e, p)[i] = heap[j]
        /\ \A i \in 1..(Len(heap) + 1) :
              Push(heap, e, p)[i] = e
                \/ \E j \in 1..Len(heap) : Push(heap, e, p)[i] = heap[j]
    BY <1>2, <1>7, PushKeepsEntries
  <2> QED BY ONLY <1>2, <1>8, <2>1
<1>10. deadlines' = deadlines \cup {<<k, cutoff>>}
  <2>1. ASSUME NEW d \in deadlines' PROVE d \in deadlines \cup {<<k, cutoff>>}
    <3>1. PICK i \in 1..Len(heap') : d = <<heap'[i].key, heap'[i].time>>
      BY <2>1 DEF deadlines
    <3>2. CASE heap'[i] = e
      BY <1>7, <3>1, <3>2
    <3>3. CASE \E j \in 1..Len(heap) : heap'[i] = heap[j]
      BY <3>1, <3>3 DEF deadlines
    <3> QED BY <1>9, <3>2, <3>3
  <2>2. deadlines \subseteq deadlines'
    BY <1>9 DEF deadlines
  <2>3. <<k, cutoff>> \in deadlines'
    BY <1>7, <1>9 DEF deadlines
  <2> QED BY <2>1, <2>2, <2>3
<1> QED
  BY <1>1, <1>3, <1>4, <1>5, <1>10 DEF Abstract!Put, born, deadlines

(* Deleting keys from the table takes them out of the map.                 *)
LEMMA DeleteRefines ==
    ASSUME NEW gone, Hash!Delete(gone)
    PROVE  Abstract!Without(gone)
<1>1. records' = [k \in Key |-> IF k \in gone THEN Hash!ZeroRecord ELSE records[k]]
  BY DEF Hash!Delete
<1>2. Hash!Stored' = Hash!Stored \ gone
  BY <1>1 DEF Hash!Stored, Hash!ZeroRecord
<1>3. born' = [k \in Key |-> IF k \in gone THEN 0 ELSE born[k]]
  BY <1>1 DEF born, Hash!ZeroRecord, Hash!ZeroTime
<1> QED
  BY <1>2, <1>3 DEF Abstract!Without, Abstract!Never, born

(* An expired record has a deadline that has passed.                       *)
LEMMA LoadRefines ==
    ASSUME IInv, NEW k \in Key, LoadExpired(k)
    PROVE  Abstract!Lapse(k)
<1>1. /\ k \in Hash!Stored /\ Hash!IsExpired(records[k], now)
      /\ Hash!Delete({k}) /\ UNCHANGED <<now, heap>>
  BY DEF LoadExpired, Hash!Loaded, Hash!IsExpired, Hash!IsPermanent, IInv, TypeOK, Record
<1>2. Temporary(k) /\ now - records[k].created > records[k].expire
  BY <1>1 DEF Temporary, Hash!IsExpired
<1>3. PICK i \in 1..Len(heap) : heap[i] = Element(Hash!ExpiresAt(records[k]), k)
  BY <1>2 DEF IInv, Scheduled
<1>4. heap[i].key = k /\ heap[i].time = records[k].created + records[k].expire
  BY <1>3 DEF Element, Hash!ExpiresAt
<1>5. heap[i].time < now
  <2>1. records[k] \in Record /\ now \in Nat
    BY <1>1, BoundsAssumption DEF IInv, TypeOK, Hash!Stored
  <2>2. records[k].created \in Nat /\ records[k].expire \in Int
    <3>1. records[k].created \in Time /\ records[k].expire \in TTL \cup {0}
      BY <2>1 DEF Record
    <3>2. Time \subseteq Nat /\ TTL \cup {0} \subseteq Int
      BY TTLAssumption, BoundsAssumption DEF Time
    <3> QED BY <3>1, <3>2
  <2> QED BY <1>2, <1>4, <2>1, <2>2
<1>6. \E d \in deadlines : d[1] = k /\ d[2] < now
  <2> DEFINE d == <<heap[i].key, heap[i].time>>
  <2>1. d \in deadlines
    BY DEF deadlines
  <2>2. d[1] = k /\ d[2] < now
    BY <1>4, <1>5
  <2> HIDE DEF d
  <2> QED BY <2>1, <2>2
<1> QED
  BY <1>1, <1>6, DeleteRefines DEF Abstract!Lapse, deadlines

(* A purge serves the deadlines of the entries it pops.                    *)
LEMMA PurgeRefines ==
    ASSUME IInv, NEW g \in Run, Purge(g)
    PROVE  \E served \in SUBSET deadlines : Abstract!Evict(served)
<1>1. PICK n \in 0..Len(heap) :
         /\ PopsDownTo(heap, run[g].cutoff, n)
         /\ heap' = SubSeq(heap, 1, n)
         /\ Hash!Delete({heap[i].key : i \in (n + 1)..Len(heap)})
  BY DEF Purge, DeleteExpiredKeys
<1>2. now' = now /\ heap \in Seq(Entry) /\ run[g].cutoff <= now
  BY DEF Purge, IInv, TypeOK, ClockBound, Entry
<1>3. run[g].cutoff \in Time /\ now \in Time
  BY BoundsAssumption DEF IInv, TypeOK, Time
<1>4. PICK served : served = {<<heap[i].key, heap[i].time>> : i \in (n + 1)..Len(heap)}
  OBVIOUS
<1>5. PICK gone : gone = {heap[i].key : i \in (n + 1)..Len(heap)}
  OBVIOUS
<1>6. {d[1] : d \in served} = gone
  <2>1. ASSUME NEW k \in gone PROVE k \in {d[1] : d \in served}
    <3>1. PICK i \in (n + 1)..Len(heap) : k = heap[i].key
      BY <1>5, <2>1
    <3>2. <<heap[i].key, heap[i].time>> \in served
      BY <1>4
    <3>3. <<heap[i].key, heap[i].time>>[1] = k
      BY <3>1
    <3> QED BY <3>2, <3>3
  <2>2. ASSUME NEW d \in served PROVE d[1] \in gone
    <3>1. PICK i \in (n + 1)..Len(heap) : d = <<heap[i].key, heap[i].time>>
      BY <1>4, <2>2
    <3> QED BY <1>5, <3>1
  <2> QED BY <2>1, <2>2
<1>7. Abstract!Without({d[1] : d \in served})
  <2>1. Hash!Delete(gone)
    BY <1>1, <1>5 DEF Hash!Delete
  <2>2. Abstract!Without(gone)
    BY <2>1, DeleteRefines
  <2> QED BY <1>6, <2>2 DEF Abstract!Without
<1>8. \A d \in served : d[2] <= now
  <2> SUFFICES ASSUME NEW i \in (n + 1)..Len(heap) PROVE heap[i].time <= now
    BY <1>4
  <2>1. heap[i].time <= run[g].cutoff
    BY <1>1 DEF PopsDownTo
  <2>2. heap[i].time \in Time
    <3>1. i \in 1..Len(heap)
      BY <1>2
    <3>2. heap[i] \in Entry
      BY <1>2, <3>1
    <3> QED BY <3>2 DEF Entry
  <2> QED BY <1>2, <1>3, <2>1, <2>2, BoundsAssumption DEF Time
<1>9. Len(heap') = n /\ \A i \in 1..n : heap'[i] = heap[i]
  BY <1>1, <1>2
<1>10. deadlines \ served \subseteq deadlines' /\ deadlines' \subseteq deadlines
  <2>1. ASSUME NEW d \in deadlines, d \notin served PROVE d \in deadlines'
    <3>1. PICK i \in 1..Len(heap) : d = <<heap[i].key, heap[i].time>>
      BY DEF deadlines
    <3>2. i \in 1..n
      BY <1>2, <1>4, <2>1, <3>1
    <3> QED BY <1>9, <3>1, <3>2 DEF deadlines
  <2>2. deadlines' \subseteq deadlines
    BY <1>2, <1>9 DEF deadlines
  <2> QED BY <2>1, <2>2
<1>11. served \in SUBSET deadlines
  BY <1>2, <1>4 DEF deadlines
<1>12. Abstract!Evict(served)
  BY <1>2, <1>7, <1>8, <1>10 DEF Abstract!Evict, deadlines
<1> QED
  BY <1>11, <1>12

LEMMA NextRefines == IInv /\ [Next]_vars => [Abstract!Next]_absVars
<1> SUFFICES ASSUME IInv, [Next]_vars PROVE [Abstract!Next]_absVars
  OBVIOUS
<1>1. ASSUME NEW k \in Key, NEW ttl \in TTL,
             StorePermanent(k, ttl) \/ StoreTemporary(k, ttl)
      PROVE  Abstract!Next
  <2>1. Abstract!Put(k, ttl)
    BY <1>1, PermanentRefines, TemporaryRefines
  <2> QED BY <2>1 DEF Abstract!Next
<1>2. ASSUME NEW k \in Key, LoadExpired(k) PROVE Abstract!Next
  <2>1. Abstract!Lapse(k)
    BY <1>2, LoadRefines
  <2> QED BY <2>1 DEF Abstract!Next
<1>3. ASSUME NEW k \in Deletable, Delete(k) PROVE Abstract!Next
  <2>1. Hash!Delete({k}) /\ UNCHANGED <<now, heap>>
    BY <1>3 DEF Delete
  <2>2. Abstract!Remove(k)
    BY <2>1, DeleteRefines DEF Abstract!Remove
  <2> QED BY <2>2 DEF Abstract!Next
<1>4. ASSUME NEW g \in Run, Purge(g) PROVE Abstract!Next
  <2>1. \E served \in SUBSET deadlines : Abstract!Evict(served)
    BY <1>4, PurgeRefines
  <2> QED BY <2>1 DEF Abstract!Next, deadlines
<1>5. CASE Tick
  BY <1>5 DEF Tick, storeVars, Abstract!Next, Abstract!Tick, Hash!Stored
<1>6. ASSUME UNCHANGED <<now, records, heap>> PROVE UNCHANGED absVars
  BY <1>6 DEF absVars, live, born, deadlines, Hash!Stored
<1>7. CASE Keys
  BY <1>6, <1>7 DEF Keys, Hash!Keys
<1>8. ASSUME NEW g \in Run, TimerFire(g) \/ Reschedule(g) PROVE UNCHANGED absVars
  BY <1>6, <1>8 DEF TimerFire, Reschedule
<1>9. CASE UNCHANGED vars
  BY <1>6, <1>9 DEF vars, storeVars
<1> QED
  BY <1>1, <1>2, <1>3, <1>4, <1>5, <1>7, <1>8, <1>9 DEF Next, Client

(* The store implements EvictingMap, for any keys, times to live, number   *)
(* of goroutines and bounds: a client sees a key vanish only by a Delete,  *)
(* if it is one that clients delete, or on a deadline that some Store set  *)
(* for it and that is reached.                                             *)
THEOREM StoreImplementsEvictingMap == Spec => EvictsOnDeadline
<1>1. Init => Abstract!Init
  BY InitRefines
<1>2. IInv /\ [Next]_vars => [Abstract!Next]_(Abstract!vars)
  BY NextRefines DEF absVars, live, born, deadlines, Abstract!vars
<1> QED
  BY <1>1, <1>2, InductiveInvariant, PTL DEF Spec, EvictsOnDeadline, Abstract!Spec

=============================================================================
