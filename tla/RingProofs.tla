---------------------------- MODULE RingProofs ----------------------------
(***************************************************************************)
(* The ring, for every set of values, number of partitions and bound.      *)
(***************************************************************************)
EXTENDS Ring, FiniteSetTheorems, FunctionTheorems, TLAPS

(* A partition modulo the number of elements is the index of one.          *)
LEMMA RepartitionFacts ==
    ASSUME NEW num \in Nat \ {0}, Repartition(num)
    PROVE  /\ virtual' \in [Partition -> Nat]
           /\ \A p \in Partition : virtual'[p] < num
<1>1. \A p \in Partition : p \in Nat
  BY RatioAssumption DEF Partition
<1>2. \A p \in Nat : p % num \in Nat /\ p % num < num
  OBVIOUS
<1> QED
  BY <1>1, <1>2 DEF Repartition

(* Removing an element leaves a shorter sequence of the same values.       *)
LEMMA RemoveAtFacts ==
    ASSUME NEW s \in Seq(Value), NEW i \in 1..Len(s)
    PROVE  /\ Seqs!RemoveAt(s, i) \in Seq(Value)
           /\ Len(Seqs!RemoveAt(s, i)) = Len(s) - 1
<1> DEFINE a == SubSeq(s, 1, i - 1)
           b == SubSeq(s, i + 1, Len(s))
<1>1. a \in Seq(Value) /\ Len(a) = i - 1
  OBVIOUS
<1>2. b \in Seq(Value) /\ Len(b) = Len(s) - i
  OBVIOUS
<1>3. Seqs!RemoveAt(s, i) = a \o b
  BY DEF Seqs!RemoveAt
<1> HIDE DEF a, b
<1> QED
  BY <1>1, <1>2, <1>3

(* The three invariants are inductive together.                            *)
RingInv == TypeOK /\ VirtualInRange /\ PanicsOnlyWhenEmpty

LEMMA InitRingInv == Init => RingInv
<1> SUFFICES ASSUME Init PROVE RingInv
  OBVIOUS
<1>1. TypeOK
  <2>1. elements \in Seq(Value) /\ Len(elements) <= MaxElements
    BY MaxElementsAssumption DEF Init
  <2>2. virtual \in [Partition -> Nat]
    BY DEF Init
  <2> QED BY <2>1, <2>2 DEF Init, TypeOK
<1> QED
  BY <1>1 DEF Init, RingInv, VirtualInRange, PanicsOnlyWhenEmpty

LEMMA InsertStep ==
    ASSUME RingInv, NEW v \in Value, Insert(v)
    PROVE  RingInv'
<1>1. elements \in Seq(Value) /\ Len(elements) < MaxElements
      /\ elements' = Append(elements, v) /\ ~panicked /\ panicked' = panicked
  BY DEF Insert, RingInv, TypeOK
<1>2. elements' \in Seq(Value) /\ Len(elements') = Len(elements) + 1
  BY <1>1
<1>3. /\ virtual' \in [Partition -> Nat]
      /\ \A p \in Partition : virtual'[p] < Len(elements')
  <2>1. Len(elements') \in Nat \ {0}
    BY <1>1, <1>2
  <2>2. Repartition(Len(elements'))
    BY DEF Insert
  <2> QED BY <2>1, <2>2, RepartitionFacts DEF Repartition
<1>4. TypeOK'
  <2>1. Len(elements') <= MaxElements
    BY <1>1, <1>2, MaxElementsAssumption
  <2>2. panicked' \in BOOLEAN
    BY <1>1 DEF RingInv, TypeOK
  <2> QED BY <1>2, <1>3, <2>1, <2>2 DEF TypeOK
<1>5. VirtualInRange' /\ PanicsOnlyWhenEmpty'
  BY <1>1, <1>3 DEF VirtualInRange, PanicsOnlyWhenEmpty
<1> QED
  BY <1>4, <1>5 DEF RingInv

LEMMA RemoveStep ==
    ASSUME RingInv, NEW v \in Value, Remove(v)
    PROVE  RingInv'
<1>1. TypeOK /\ VirtualInRange /\ ~panicked
  BY DEF RingInv, Remove
<1>2. elements' \in Seq(Value) /\ Len(elements') <= Len(elements)
  <2>1. CASE elements' = elements
    BY <1>1, <2>1 DEF TypeOK
  <2>2. CASE \E i \in 1..Len(elements) : elements' = Seqs!RemoveAt(elements, i)
    BY <1>1, <2>2, RemoveAtFacts DEF TypeOK
  <2> QED BY <2>1, <2>2 DEF Remove, Removed
<1>3. Len(elements') <= MaxElements
  BY <1>1, <1>2, MaxElementsAssumption DEF TypeOK
<1>4. CASE elements' = <<>>
  <2>1. panicked' = TRUE /\ virtual' = virtual
    BY <1>4 DEF Remove
  <2> QED
    BY <1>1, <1>2, <1>3, <1>4, <2>1
    DEF RingInv, TypeOK, VirtualInRange, PanicsOnlyWhenEmpty
<1>5. CASE elements' # <<>>
  <2>1. Repartition(Len(elements')) /\ panicked' = panicked
    BY <1>5 DEF Remove
  <2>2. Len(elements') \in Nat \ {0}
    BY <1>2, <1>5
  <2>3. /\ virtual' \in [Partition -> Nat]
        /\ \A p \in Partition : virtual'[p] < Len(elements')
    BY <2>1, <2>2, RepartitionFacts DEF Repartition
  <2>4. TypeOK'
    BY <1>1, <1>2, <1>3, <2>1, <2>3 DEF TypeOK
  <2>5. VirtualInRange' /\ PanicsOnlyWhenEmpty'
    BY <1>1, <2>1, <2>3 DEF VirtualInRange, PanicsOnlyWhenEmpty
  <2> QED BY <2>4, <2>5 DEF RingInv
<1> QED
  BY <1>4, <1>5

LEMMA FindStep ==
    ASSUME RingInv, NEW p \in Partition, Find(p)
    PROVE  RingInv'
<1>1. /\ TypeOK /\ VirtualInRange
      /\ panicked' = (virtual[p] >= Len(elements))
      /\ UNCHANGED <<elements, virtual>>
  BY DEF RingInv, Find
<1>2. TypeOK' /\ VirtualInRange'
  BY <1>1 DEF TypeOK, VirtualInRange
<1>3. PanicsOnlyWhenEmpty'
  <2>1. elements # <<>> => ~(virtual[p] >= Len(elements))
    BY <1>1 DEF TypeOK, VirtualInRange
  <2> QED BY <1>1, <2>1 DEF PanicsOnlyWhenEmpty
<1> QED
  BY <1>2, <1>3 DEF RingInv

LEMMA NextRingInv == RingInv /\ [Next]_vars => RingInv'
<1> SUFFICES ASSUME RingInv, [Next]_vars PROVE RingInv'
  OBVIOUS
<1>1. ASSUME NEW v \in Value, Insert(v) PROVE RingInv'
  BY <1>1, InsertStep
<1>2. ASSUME NEW v \in Value, Remove(v) PROVE RingInv'
  BY <1>2, RemoveStep
<1>3. ASSUME NEW p \in Partition, Find(p) PROVE RingInv'
  BY <1>3, FindStep
<1>4. CASE UNCHANGED vars
  BY <1>4 DEF vars, RingInv, TypeOK, VirtualInRange, PanicsOnlyWhenEmpty
<1> QED
  BY <1>1, <1>2, <1>3, <1>4 DEF Next

(* Whatever is inserted and removed, in whatever order, the ring keeps its *)
(* types, its partitions name elements that exist, and its methods panic   *)
(* on an empty ring only.                                                  *)
THEOREM RingIsSound == Spec => []RingInv
<1>1. Init => RingInv
  BY InitRingInv
<1>2. RingInv /\ [Next]_vars => RingInv'
  BY NextRingInv
<1> QED
  BY <1>1, <1>2, PTL DEF Spec

(* While the ring has elements, every partition belongs to one of them.    *)
THEOREM PartitionsHaveOwners == Spec => []VirtualInRange
<1>1. RingInv => VirtualInRange
  BY DEF RingInv
<1> QED
  BY <1>1, RingIsSound, PTL

(* No lookup panics on a ring that has an element, and no removal does     *)
(* that leaves one.                                                        *)
THEOREM NonEmptyRingNeverPanics == Spec => []PanicsOnlyWhenEmpty
<1>1. RingInv => PanicsOnlyWhenEmpty
  BY DEF RingInv
<1> QED
  BY <1>1, RingIsSound, PTL

(* The type invariant, with the bound on the number of elements.           *)
THEOREM TypeCorrect == Spec => []TypeOK
<1>1. RingInv => TypeOK
  BY DEF RingInv
<1> QED
  BY <1>1, RingIsSound, PTL

-----------------------------------------------------------------------------
(* How the shares of the elements compare: partitions that differ by less  *)
(* than the number of elements are assigned to neighbours, so moving each  *)
(* partition of element i by j - i leads to the partitions of element j,   *)
(* and at most one partition of i ends up beyond the last one.             *)

(* Division by n leaves one remainder only. *)
LEMMA OneRemainder ==
    ASSUME NEW n \in Nat \ {0}, NEW a \in Nat, NEW b \in Nat, b < n,
           NEW q \in Nat, NEW r \in Nat, r < n, n * a + b = n * q + r
    PROVE  b = r
<1>1. CASE a = q
  BY <1>1
<1>2. CASE a < q
  <2>1. PICK k \in Nat : q = a + 1 + k
    BY <1>2
  <2>2. n * q = n * a + n + n * k /\ n * k \in Nat
    BY <2>1
  <2> QED
    BY <2>2
<1>3. CASE a > q
  <2>1. PICK k \in Nat : a = q + 1 + k
    BY <1>3
  <2>2. n * a = n * q + n + n * k /\ n * k \in Nat
    BY <2>1
  <2> QED
    BY <2>2
<1> QED
  BY <1>1, <1>2, <1>3

(* A number is a multiple and a remainder. *)
LEMMA Division ==
    ASSUME NEW n \in Nat \ {0}, NEW p \in Nat
    PROVE  /\ p \div n \in Nat
           /\ p % n \in Nat
           /\ p % n < n
           /\ p = n * (p \div n) + (p % n)
  OBVIOUS

(* A step that the remainder can make without leaving 0..n-1 moves the     *)
(* remainder along.                                                        *)
LEMMA ShiftedRemainder ==
    ASSUME NEW n \in Nat \ {0}, NEW p \in Nat, NEW d \in Int,
           (p % n) + d \in 0..(n - 1)
    PROVE  /\ p + d \in Nat
           /\ (p + d) % n = (p % n) + d
<1>1. /\ p \div n \in Nat
      /\ p % n \in Nat
      /\ p = n * (p \div n) + (p % n)
      /\ n * (p \div n) \in Nat
  BY Division
<1>2. p + d \in Nat /\ p + d = n * (p \div n) + ((p % n) + d)
  BY <1>1
<1>3. /\ (p + d) \div n \in Nat
      /\ (p + d) % n \in Nat
      /\ (p + d) % n < n
      /\ p + d = n * ((p + d) \div n) + ((p + d) % n)
  BY <1>2, Division
<1>4. (p % n) + d \in Nat /\ (p % n) + d < n
  OBVIOUS
<1>5. n * (p \div n) + ((p % n) + d) = n * ((p + d) \div n) + ((p + d) % n)
  BY <1>2, <1>3
<1> DEFINE b == (p % n) + d
           r == (p + d) % n
           a == p \div n
           q == (p + d) \div n
<1> HIDE DEF b, r, a, q
<1>6. b = r
  BY <1>1, <1>3, <1>4, <1>5, OneRemainder DEF b, r, a, q
<1> QED
  BY <1>2, <1>6 DEF b, r

(* Numbers of the same remainder are at least n apart. *)
LEMMA Gap ==
    ASSUME NEW n \in Nat \ {0}, NEW p \in Nat, NEW q \in Nat,
           p % n = q % n, p < q
    PROVE  p + n <= q
<1>1. CASE q - p < n
  <2>1. CASE (p % n) + (q - p) < n
    <3> DEFINE d == q - p
    <3>1. d \in Int /\ d > 0 /\ p + d = q
      OBVIOUS
    <3>2. p % n \in Nat /\ (p % n) + d \in 0..(n - 1)
      <4>1. p % n \in Nat
        BY Division
      <4>2. (p % n) + d \in Nat
        BY <3>1, <4>1
      <4> QED
        BY <2>1, <4>1, <4>2
    <3> HIDE DEF d
    <3>3. (p + d) % n = (p % n) + d
      BY <3>1, <3>2, ShiftedRemainder, Zenon
    <3>4. (p + d) % n = p % n
      BY <3>1
    <3> QED
      BY <3>1, <3>2, <3>3, <3>4
  <2>2. CASE (p % n) + (q - p) >= n
    <3> DEFINE d == q - p - n
    <3>1. d \in Int /\ (p % n) + d \in 0..(n - 1)
      BY <1>1, <2>2, Division
    <3>2. (p + d) % n = (p % n) + d /\ p + d \in Nat
      BY <3>1, ShiftedRemainder
    <3>3. (q % n) - (p % n) = 0 /\ d < 0 /\ q = (p + d) + n
      BY <1>1, Division
    <3>4. (p + d) \div n \in Nat /\ p + d = n * ((p + d) \div n) + ((p + d) % n)
      BY <3>2, Division
    <3>5. q = n * (((p + d) \div n) + 1) + ((p % n) + d)
      BY <3>2, <3>3, <3>4
    <3>6. q = n * (q \div n) + (q % n) /\ q \div n \in Nat /\ q % n \in Nat /\ q % n < n
      BY Division
    <3> HIDE DEF d
    <3> DEFINE a == ((p + d) \div n) + 1
               b == (p % n) + d
               c == q \div n
               r == q % n
    <3>7. a \in Nat /\ b \in Nat /\ b < n /\ c \in Nat /\ r \in Nat /\ r < n
          /\ n * a + b = n * c + r
      BY <3>1, <3>4, <3>5, <3>6
    <3> HIDE DEF a, b, c, r
    <3>8. b = r
      BY <3>7, OneRemainder
    <3> QED
      BY <3>1, <3>3, <3>8, Division DEF b, r
  <2> QED
    BY <2>1, <2>2, Division
<1> QED
  BY <1>1

(* The partitions are assigned by their remainders, from the first         *)
(* insertion on.                                                           *)
Dealt == elements # <<>> => virtual = [ii \in Partition |-> ii % Len(elements)]

LEMMA PartitionsAreDealt == Spec => []Dealt
<1>1. Init => Dealt
  BY DEF Init, Dealt
<1>2. Dealt /\ [Next]_vars => Dealt'
  <2> SUFFICES ASSUME Dealt, [Next]_vars PROVE Dealt'
    OBVIOUS
  <2>1. ASSUME NEW v \in Value, Insert(v) PROVE Dealt'
    BY <2>1 DEF Insert, Repartition, Dealt
  <2>2. ASSUME NEW v \in Value, Remove(v) PROVE Dealt'
    BY <2>2 DEF Remove, Repartition, Dealt
  <2>3. ASSUME NEW p \in Partition, Find(p) PROVE Dealt'
    BY <2>3 DEF Find, Dealt
  <2>4. CASE UNCHANGED vars
    BY <2>4 DEF vars, Dealt
  <2> QED
    BY <2>1, <2>2, <2>3, <2>4 DEF Next
<1> QED
  BY <1>1, <1>2, PTL DEF Spec

LEMMA DealtIsBalanced == RingInv /\ Dealt => Balanced
<1> SUFFICES ASSUME RingInv, Dealt, elements # <<>>,
                    NEW i \in 0..(Len(elements) - 1), NEW j \in 0..(Len(elements) - 1)
             PROVE  Share(i) <= Share(j) + 1
  BY DEF Balanced
<1> DEFINE n == Len(elements)
           S(k) == {p \in Partition : virtual[p] = k}
           d == j - i
           Over == {p \in S(i) : p + d >= ratio}
           f == [p \in S(i) \ Over |-> p + d]
<1>1. n \in Nat \ {0} /\ i \in Nat /\ j \in Nat /\ d \in Int /\ d < n
  BY DEF RingInv, TypeOK
<1>2. Partition \subseteq Nat /\ ratio \in Nat /\ \A p \in Nat : p \in Partition <=> p < ratio
  BY RatioAssumption DEF Partition
<1>3. \A p \in Partition : virtual[p] = p % n
  BY DEF Dealt
<1>4. IsFiniteSet(S(i)) /\ IsFiniteSet(S(j))
  <2>1. IsFiniteSet(Partition)
    BY <1>2, FS_Interval DEF Partition
  <2> QED
    BY <2>1, FS_Subset
<1> HIDE DEF n, d
<1>5. ASSUME NEW p \in S(i) \ Over PROVE p + d \in S(j)
  <2>1. p \in Nat /\ p % n = i /\ p + d < ratio
    BY <1>1, <1>2, <1>3
  <2>2. (p % n) + d = j /\ j \in 0..(n - 1)
    BY <1>1, <2>1 DEF d, n
  <2>3. p + d \in Nat /\ (p + d) % n = j
    BY <1>1, <2>1, <2>2, ShiftedRemainder
  <2> QED
    BY <1>2, <1>3, <2>1, <2>3
<1>6. f \in Injection(S(i) \ Over, S(j))
  <2>1. f \in [S(i) \ Over -> S(j)]
    BY <1>5
  <2>2. \A p, q \in S(i) \ Over : f[p] = f[q] => p = q
    BY <1>1, <1>2
  <2> QED
    BY <2>1, <2>2 DEF Injection, IsInjective
<1>7. Cardinality(S(i) \ Over) <= Cardinality(S(j)) /\ IsFiniteSet(S(i) \ Over)
  BY <1>4, <1>6, FS_Injection
<1>8. ASSUME NEW p \in Over, NEW q \in Over PROVE p = q
  <2>1. p \in Nat /\ q \in Nat /\ p < ratio /\ q < ratio /\ p % n = q % n
        /\ p + d >= ratio /\ q + d >= ratio
    BY <1>2, <1>3
  <2>2. ASSUME p < q PROVE FALSE
    <3>1. p + n <= q
      BY <1>1, <2>1, <2>2, Gap
    <3> QED
      BY <1>1, <1>2, <2>1, <3>1
  <2>3. ASSUME q < p PROVE FALSE
    <3>1. q + n <= p
      BY <1>1, <2>1, <2>3, Gap
    <3> QED
      BY <1>1, <1>2, <2>1, <3>1
  <2> QED
    BY <2>1, <2>2, <2>3
<1>9. \E x : S(i) \ Over = S(i) \ {x}
  <2>1. CASE Over = {}
    <3>1. S(i) \ Over = S(i) \ {-1}
      BY <1>2, <2>1
    <3> QED
      BY <3>1
  <2>2. CASE Over # {}
    <3>1. PICK x \in Over : Over = {x}
      BY <1>8, <2>2
    <3> QED
      BY <3>1
  <2> QED
    BY <2>1, <2>2
<1>10. Cardinality(S(i)) <= Cardinality(S(i) \ Over) + 1
  <2>1. PICK x : S(i) \ Over = S(i) \ {x}
    BY <1>9
  <2>2. Cardinality(S(i)) \in Nat
    BY <1>4, FS_CardinalityType
  <2>3. CASE x \in S(i)
    <3>1. Cardinality(S(i) \ {x}) = Cardinality(S(i)) - 1
      BY <1>4, <2>3, FS_RemoveElement
    <3>2. Cardinality(S(i) \ Over) = Cardinality(S(i)) - 1
      BY <2>1, <3>1
    <3> DEFINE c == Cardinality(S(i))
               e == Cardinality(S(i) \ Over)
    <3>3. c \in Nat /\ e = c - 1
      BY <2>2, <3>2
    <3> HIDE DEF c, e
    <3>4. c <= e + 1
      BY <3>3
    <3> QED
      BY <3>4 DEF c, e
  <2>4. CASE x \notin S(i)
    <3>1. Cardinality(S(i) \ Over) = Cardinality(S(i))
      BY <2>1, <2>4
    <3> DEFINE c == Cardinality(S(i))
               e == Cardinality(S(i) \ Over)
    <3>2. c \in Nat /\ e = c
      BY <2>2, <3>1
    <3> HIDE DEF c, e
    <3>3. c <= e + 1
      BY <3>2
    <3> QED
      BY <3>3 DEF c, e
  <2> QED
    BY <2>3, <2>4
<1>11. Cardinality(S(i)) \in Nat /\ Cardinality(S(j)) \in Nat
       /\ Cardinality(S(i) \ Over) \in Nat
  BY <1>4, <1>7, FS_CardinalityType
<1> QED
  BY <1>7, <1>10, <1>11 DEF Share

(* However elements come and go, none of them is in charge of two          *)
(* partitions more than another, for any number of partitions.             *)
THEOREM SharesAreEven == Spec => []Balanced
  BY RingIsSound, PartitionsAreDealt, DealtIsBalanced, PTL

=============================================================================
