------------------------------- MODULE Store -------------------------------
(***************************************************************************)
(* The store of container/store: a hash table whose temporary records are  *)
(* purged by a timer.                                                      *)
(*                                                                         *)
(* Every method runs under worldMu, so a method is one step, except        *)
(* deleteAfter, which the timer runs on a goroutine of its own and which   *)
(* locks twice: it purges in one critical section and re-schedules the     *)
(* timer in the next, and anything may happen before and between the two.  *)
(* Time is an integer clock that advances between steps.                   *)
(***************************************************************************)
EXTENDS TimeHeap

CONSTANTS Key,                  \* the keys clients use
          Deletable,            \* those of them that clients delete
          TTL,                  \* the ExpireTime values clients ask for
          Run,                  \* the goroutines on which the timer fires
          MaxTime,              \* bound: the last moment of the clock
          MaxHeap,              \* bound: entries in the heap
          MaxIndex              \* bound: updates of one record

ASSUME DeletableAssumption == Deletable \subseteq Key
ASSUME TTLAssumption == TTL \subseteq Int
ASSUME BoundsAssumption == /\ MaxTime \in Nat \ {0}
                           /\ MaxHeap \in Nat
                           /\ MaxIndex \in Nat

VARIABLES now,                  \* the clock
          records, keys, dirty, \* s.hashMap
          heap,                 \* s.expireHeap.arr
          timer,                \* s.expireTimer: its cutoff, whether it is pending
          run                   \* the deleteAfter call of each goroutine

storeVars == <<records, keys, dirty, heap, timer, run>>
vars == <<now, storeVars>>

Hash == INSTANCE UnsafeHash

Temporary(k) == k \in Hash!Stored /\ ~Hash!IsPermanent(records[k])

Idle == [pc |-> "idle", cutoff |-> Hash!ZeroTime]

-----------------------------------------------------------------------------

Init == /\ now = 1
        /\ Hash!Init
        /\ heap = <<>>
        /\ timer = [cutoff |-> Hash!ZeroTime, armed |-> FALSE]
        /\ run = [g \in Run |-> Idle]

(* Mutants of AfterFunc: a timer that has fired counts as pending; the     *)
(* timer is a moment late.                                                 *)
AfterFuncFiredMutant(t) ==
    timer' = IF timer.cutoff # Hash!ZeroTime /\ timer.cutoff < t
             THEN timer
             ELSE [cutoff |-> t, armed |-> TRUE]

AfterFuncLateMutant(t) == timer' = [cutoff |-> t + 1, armed |-> TRUE]

(* refreshTimer.AfterFunc: keep the pending timer when it fires before t,  *)
(* else stop whatever is pending and start over.                           *)
AfterFunc(t) ==
    timer' = IF /\ timer.cutoff # Hash!ZeroTime
                /\ timer.cutoff < t
                /\ now < timer.cutoff
             THEN timer
             ELSE [cutoff |-> t, armed |-> TRUE]

(* store.Store.  The clock has room for every deadline. *)
StorePermanent(k, ttl) ==
    /\ ttl <= 0
    /\ records[k].index < MaxIndex
    /\ Hash!Store(k, ttl, now)
    /\ UNCHANGED <<now, heap, timer, run>>

StoreTemporary(k, ttl) ==
    /\ ttl > 0
    /\ records[k].index < MaxIndex
    /\ Len(heap) < MaxHeap
    /\ now + ttl <= MaxTime
    /\ Hash!Store(k, ttl, now)
    /\ LET cutoff == Hash!ExpiresAt(records'[k])
           entry == Element(cutoff, k)
       IN  /\ \E p \in 1..(Len(heap) + 1) :
                  StopsAt(heap, entry, p) /\ heap' = Push(heap, entry, p)
           /\ AfterFunc(cutoff)
    /\ UNCHANGED <<now, run>>

(* store.Load changes the store only when it meets an expired record. *)
LoadExpired(k) ==
    /\ k \in Hash!Stored
    /\ Hash!IsExpired(Hash!Loaded(k, now), now)
    /\ Hash!Delete({k})
    /\ UNCHANGED <<now, heap, timer, run>>

(* store.Delete: the heap keeps the entries of the key. *)
Delete(k) ==
    /\ Hash!Delete({k})
    /\ UNCHANGED <<now, heap, timer, run>>

(* store.Keys *)
Keys == /\ Hash!Keys
        /\ UNCHANGED <<now, heap, timer, run>>

(* The Go runtime starts deleteAfter(cutoff) once the timer is due. *)
TimerFire(g) ==
    /\ timer.armed
    /\ timer.cutoff <= now
    /\ run[g].pc = "idle"
    /\ timer' = [timer EXCEPT !.armed = FALSE]
    /\ run' = [run EXCEPT ![g] = [pc |-> "purge", cutoff |-> timer.cutoff]]
    /\ UNCHANGED <<now, records, keys, dirty, heap>>

(* Mutant of DeleteExpiredKeys: pops the entries that are due, but deletes *)
(* only records that are already expired.                                  *)
DeleteExpiredKeysMutant(cutoff) ==
    \E n \in 0..Len(heap) :
        /\ PopsDownTo(heap, cutoff, n)
        /\ heap' = SubSeq(heap, 1, n)
        /\ Hash!Delete({k \in {heap[i].key : i \in (n + 1)..Len(heap)} :
                            Hash!IsExpired(records[k], now)})

(* DeleteExpiredKeys: pop from the end of the heap, and delete the key of  *)
(* every entry popped, until the last entry is later than the cutoff.      *)
DeleteExpiredKeys(cutoff) ==
    \E n \in 0..Len(heap) :
        /\ PopsDownTo(heap, cutoff, n)
        /\ heap' = SubSeq(heap, 1, n)
        /\ Hash!Delete({heap[i].key : i \in (n + 1)..Len(heap)})

Purge(g) ==
    /\ run[g].pc = "purge"
    /\ DeleteExpiredKeys(run[g].cutoff)
    /\ run' = [run EXCEPT ![g].pc = "reschedule"]
    /\ UNCHANGED <<now, timer>>

(* Mutant of Reschedule: the timer is left to the next Store. *)
RescheduleMutant(g) ==
    /\ run[g].pc = "reschedule"
    /\ run' = [run EXCEPT ![g] = Idle]
    /\ UNCHANGED <<now, records, keys, dirty, heap, timer>>

(* The second critical section of deleteAfter. *)
Reschedule(g) ==
    /\ run[g].pc = "reschedule"
    /\ IF heap = <<>> THEN UNCHANGED timer ELSE AfterFunc(Peek(heap).time)
    /\ run' = [run EXCEPT ![g] = Idle]
    /\ UNCHANGED <<now, records, keys, dirty, heap>>

Tick == /\ now < MaxTime
        /\ now' = now + 1
        /\ UNCHANGED storeVars

Client == \/ \E k \in Key, ttl \in TTL : StorePermanent(k, ttl)
          \/ \E k \in Key, ttl \in TTL : StoreTemporary(k, ttl)
          \/ \E k \in Key : LoadExpired(k)
          \/ \E k \in Deletable : Delete(k)
          \/ Keys

Next == \/ Client
        \/ \E g \in Run : TimerFire(g)
        \/ \E g \in Run : Purge(g)
        \/ \E g \in Run : Reschedule(g)
        \/ Tick

Spec == Init /\ [][Next]_vars

(* Time passes, a due timer fires, and its goroutine gets the lock: the    *)
(* runtime promises that much.  Clients promise nothing.                   *)
Fairness == /\ WF_vars(Tick)
            /\ WF_vars(\E g \in Run : TimerFire(g))
            /\ \A g \in Run : WF_vars(Purge(g)) /\ WF_vars(Reschedule(g))

FairSpec == Spec /\ Fairness

-----------------------------------------------------------------------------

Time == 0..MaxTime

Record == [index    : 0..MaxIndex,
           expire   : TTL \cup {0},
           accessed : {Hash!ZeroTime},
           created  : Time,
           updated  : Time]

(* The type invariant.  A deadline never leaves the clock, because an      *)
(* update keeps the creation time, and the loaded copy of a record, which  *)
(* carries the access time, never gets back into the table.                *)
TypeOK == /\ now \in 1..MaxTime
          /\ records \in [Key -> Record]
          /\ keys \in SUBSET Key
          /\ dirty \in BOOLEAN
          /\ heap \in Seq([time : Time, key : Key])
          /\ Len(heap) <= MaxHeap
          /\ timer \in [cutoff : Time, armed : BOOLEAN]
          /\ run \in [Run -> [pc : {"idle", "purge", "reschedule"}, cutoff : Time]]

(* The lazily rebuilt key list: unless it is marked dirty, h.keys names    *)
(* exactly the keys that have a record, whichever way they came and went   *)
(* (clients, expired loads, purges), so Keys may return it without looking *)
(* at the map (hash.go:113-117).                                           *)
KeysCoherent == ~dirty => keys = Hash!Stored

(* No temporary record is forgotten: one of the heap's entries is for its  *)
(* key at its present deadline, so some purge will remove it even though   *)
(* entries are never taken out by Load, Delete or a later Store.           *)
Scheduled ==
    \A k \in Key : Temporary(k) =>
        \E i \in 1..Len(heap) :
            heap[i] = Element(Hash!ExpiresAt(records[k]), k)

Active == \E g \in Run : run[g].pc # "idle"

(* The hand-over between the timer and deleteAfter: as long as the heap    *)
(* has entries, a timer is pending or a deleteAfter that will re-schedule  *)
(* it has not finished, although AfterFunc may skip, stop and replace the  *)
(* timer between the two critical sections of deleteAfter.                 *)
TimerCoversHeap == heap # <<>> => timer.armed \/ Active

(* How late a purge can be.  The timer may overtake earlier deadlines that *)
(* the heap hides behind its last element, but it never waits beyond the   *)
(* latest one: when every entry is due, the timer is due too, or a         *)
(* deleteAfter is under way.                                               *)
LingerBound ==
    (heap # <<>> /\ \A i \in 1..Len(heap) : heap[i].time <= now)
        => (timer.armed /\ timer.cutoff <= now) \/ Active

(* The array is a min-heap however stores and purges, which pop its last   *)
(* elements, interleave.                                                   *)
HeapOrdered == \A i \in 2..Len(heap) : heap[Parent(i)].time <= heap[i].time

(* What the proofs of the invariants above add to them: nothing is created *)
(* in the future, no goroutine purges ahead of the clock, and a timer that *)
(* is still to come is pending and stands for an entry of the heap.        *)
ClockBound == /\ \A k \in Key : records[k].created <= now
              /\ \A g \in Run : run[g].cutoff <= now

FutureTimer ==
    now < timer.cutoff =>
        timer.armed /\ \E i \in 1..Len(heap) : heap[i].time = timer.cutoff

IInv == /\ TypeOK
        /\ ClockBound
        /\ FutureTimer
        /\ KeysCoherent
        /\ Scheduled
        /\ TimerCoversHeap

(* Once clients stop storing temporary records, which the horizon of the   *)
(* clock makes them do, no temporary record stays in memory: the timer     *)
(* gets to each one, even when nobody loads it (store.go:87-88).           *)
EventuallyPurged == []<>(\A k \in Key : ~Temporary(k))

(* Meta.ExpireTime (hash.go:18-19): "If time to live is less than or equal *)
(* to zero, record won't be ever evicted from the storage"; and a record   *)
(* with a timeout "will be automatically purged from the store after" it   *)
(* (README.md:118-120).  So no step of the timer's goroutine, and no Load, *)
(* removes a record before it has lived for the time it was last stored    *)
(* for, nor a permanent one ever.                                          *)
StoredRecordLives ==
    [][((\E g \in Run : Purge(g)) \/ (\E k \in Key : LoadExpired(k))) =>
        \A k \in Hash!Stored \ Hash!Stored' :
            Temporary(k) /\ records[k].updated + records[k].expire <= now]_vars

(* The store implements EvictingMap.  The records give the live keys and   *)
(* their ages; a deadline is an entry of the heap, and serving it is       *)
(* popping the entry.  So whatever the heap, the timer and the two         *)
(* critical sections of deleteAfter do, a client sees keys appear by Store *)
(* only, and vanish by Delete or on a deadline that is reached; a key that *)
(* clients do not delete, on a deadline only.                              *)
Abstract == INSTANCE EvictingMap WITH
                live <- Hash!Stored,
                born <- [k \in Key |-> records[k].created],
                deadlines <- {<<heap[i].key, heap[i].time>> : i \in 1..Len(heap)}

EvictsOnDeadline == Abstract!Spec

=============================================================================
