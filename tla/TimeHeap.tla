------------------------------ MODULE TimeHeap ------------------------------
(***************************************************************************)
(* The heap of expiration times of container/store/time.go, as pure        *)
(* operators on sequences.  Positions count from 1, so the parent of       *)
(* position i is i \div 2.                                                 *)
(*                                                                         *)
(* The code pushes through container/heap, which sifts the new element up, *)
(* but it peeks and pops through the type's own methods, which take the    *)
(* last element of the slice and not the root.                             *)
(***************************************************************************)
EXTENDS Integers, Sequences

Element(t, k) == [time |-> t, key |-> k]

Parent(i) == i \div 2

(* Mutants of Less: the latest first; equal times are swapped. *)
LessMutant(x, y) == x.time > y.time
LessOrEqualMutant(x, y) == x.time <= y.time

Less(x, y) == x.time < y.time

(* The positions between the end n of an array and its root: the least set *)
(* that has n and the parent of every position but the root.               *)
Path(n) ==
    LET Closed(S) == n \in S /\ \A i \in S : i > 1 => Parent(i) \in S
    IN  {i \in 1..n : \A S \in SUBSET (1..n) : Closed(S) => i \in S}

(* heap.up swaps the new element e, having reached position i, with its    *)
(* parent as long as it is less, and so it stops at position p.            *)
Rises(h, e, i) == i > 1 /\ Less(e, h[Parent(i)])

StopsAt(h, e, p) ==
    /\ p \in Path(Len(h) + 1)
    /\ ~Rises(h, e, p)
    /\ \A i \in Path(Len(h) + 1) : i > p => Rises(h, e, i)

(* heap.Push of e, which stops at p: the elements it was swapped with have *)
(* come down one step of the path.                                         *)
Push(h, e, p) ==
    [i \in 1..(Len(h) + 1) |->
        IF i = p THEN e
        ELSE IF i \in Path(Len(h) + 1) /\ i > p THEN h[Parent(i)]
        ELSE h[i]]

(* Peek, of a heap that is not empty. *)
Peek(h) == h[Len(h)]

(* Pop removes what Peek returned.  Popping while the peeked element is    *)
(* not later than cutoff leaves the first n elements.                      *)
PopsDownTo(h, cutoff, n) ==
    /\ n \in 0..Len(h)
    /\ n > 0 => h[n].time > cutoff
    /\ \A i \in (n + 1)..Len(h) : h[i].time <= cutoff

=============================================================================
