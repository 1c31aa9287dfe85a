----------------------------- MODULE ExpireHeap -----------------------------
(***************************************************************************)
(* What a push on the expiration heap is: Store has its outcome in closed  *)
(* form, and here is the loop of container/heap that it stands for.  (This *)
(* module declares a RECURSIVE operator, so the proofs about Store do not  *)
(* extend it.)                                                             *)
(***************************************************************************)
EXTENDS Store

(* The loop of container/heap.up, whose positions count from 0: swap the   *)
(* element at j with its parent while it is less.                          *)
Swapped(h, i, j) == [h EXCEPT ![i] = h[j], ![j] = h[i]]

RECURSIVE Up(_, _)
Up(h, j) ==
    LET i == IF j = 0 THEN 0 ELSE (j - 1) \div 2
    IN  IF i = j \/ ~(h[j + 1].time < h[i + 1].time)
        THEN h
        ELSE Up(Swapped(h, i + 1, j + 1), i)

(* Storing a temporary record does to the heap what container/heap.Push    *)
(* does: append its entry and move it up by swaps.  In particular it loses *)
(* and duplicates no entry.                                                *)
PushSiftsUp ==
    [][\A k \in Key, ttl \in TTL : StoreTemporary(k, ttl) =>
        LET entry == [time |-> records'[k].created + ttl, key |-> k]
        IN  heap' = Up(Append(heap, entry), Len(heap))]_vars

=============================================================================
