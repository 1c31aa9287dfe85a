-------------------------------- MODULE Ring --------------------------------
(***************************************************************************)
(* The ring of container/ring: a number of virtual partitions, each        *)
(* assigned to one of the inserted elements.  A key belongs to the         *)
(* partition of its checksum modulo the number of partitions, so a lookup  *)
(* is modelled by the partition it ends up in.  Indexes of elements count  *)
(* from 0, as in the code; the sequence that holds them counts from 1.     *)
(*                                                                         *)
(* Remove of the last element divides by zero, and Find on a ring that has *)
(* no element indexes an empty slice: both panic, and nothing follows.     *)
(***************************************************************************)
EXTENDS Integers, Sequences, FiniteSets

Seqs == INSTANCE SequencesExt

CONSTANTS Value,                \* the values elements carry
          ratio,                \* the number of virtual partitions
          MaxElements           \* bound: elements of the ring

ASSUME RatioAssumption == ratio \in Nat \ {0}       \* newRing panics otherwise
ASSUME MaxElementsAssumption == MaxElements \in Nat

VARIABLES elements,             \* r.elements, in insertion order
          virtual,              \* r.virtual: partition -> index of an element
          panicked              \* a method panicked

vars == <<elements, virtual, panicked>>

Partition == 0..(ratio - 1)

Init == /\ elements = <<>>
        /\ virtual = [ii \in Partition |-> 0]
        /\ panicked = FALSE

(* Mutants of Repartition: one too low; one too high; the remainder goes   *)
(* to the last element.                                                    *)
RepartitionLowMutant(num) == virtual' = [ii \in Partition |-> (ii % num) - 1]
RepartitionHighMutant(num) == virtual' = [ii \in Partition |-> (ii % num) + 1]
RepartitionLastMutant(num) ==
    virtual' = [ii \in Partition |-> IF ii < num THEN ii ELSE num - 1]

(* The remapping of the partitions to num elements. *)
Repartition(num) == virtual' = [ii \in Partition |-> ii % num]

Insert(v) ==
    /\ ~panicked
    /\ Len(elements) < MaxElements
    /\ elements' = Append(elements, v)
    /\ Repartition(Len(elements'))
    /\ UNCHANGED panicked

(* Position i is that of the first element with the value v. *)
First(v, i) == elements[i] = v /\ \A j \in 1..(i - 1) : elements[j] # v

Removed(v) ==
    \/ /\ \A i \in 1..Len(elements) : elements[i] # v
       /\ UNCHANGED elements
    \/ \E i \in 1..Len(elements) : First(v, i) /\ elements' = Seqs!RemoveAt(elements, i)

(* Mutant of Remove: forgets to repartition. *)
RemoveMutant(v) ==
    /\ ~panicked
    /\ Removed(v)
    /\ UNCHANGED <<virtual, panicked>>

(* The partitions are remapped even when no element has the value. *)
Remove(v) ==
    /\ ~panicked
    /\ Removed(v)
    /\ IF elements' = <<>>
       THEN panicked' = TRUE /\ UNCHANGED virtual
       ELSE Repartition(Len(elements')) /\ UNCHANGED panicked

(* The element of a partition, when there is one. *)
Owner(p) == elements[virtual[p] + 1]

Find(p) ==
    /\ ~panicked
    /\ panicked' = (virtual[p] >= Len(elements))
    /\ UNCHANGED <<elements, virtual>>

Next == \/ \E v \in Value : Insert(v)
        \/ \E v \in Value : Remove(v)
        \/ \E p \in Partition : Find(p)

Spec == Init /\ [][Next]_vars

-----------------------------------------------------------------------------

(* The type invariant. *)
TypeOK == /\ elements \in Seq(Value)
          /\ Len(elements) <= MaxElements
          /\ virtual \in [Partition -> Nat]
          /\ panicked \in BOOLEAN

(* The two tables agree: while the ring has elements, every partition is   *)
(* assigned to one of them, whatever was inserted and removed, in whatever *)
(* order, and with a value inserted more than once.                        *)
VirtualInRange ==
    elements # <<>> => \A p \in Partition : virtual[p] < Len(elements)

(* No ring that has an element panics, in Find or in Remove.               *)
PanicsOnlyWhenEmpty == panicked => elements = <<>>

(* "The ring is [...] used for equal balancing of the data" (ring.go:9-10):*)
(* no element is in charge of two partitions more than another.            *)
Share(i) == Cardinality({p \in Partition : virtual[p] = i})

Balanced ==
    elements # <<>> =>
        \A i, j \in 0..(Len(elements) - 1) : Share(i) <= Share(j) + 1

=============================================================================
