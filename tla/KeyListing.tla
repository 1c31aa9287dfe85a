----------------------------- MODULE KeyListing -----------------------------
(***************************************************************************)
(* The key list that hash.Keys returns, as the Go slice it is.             *)
(*                                                                         *)
(* UnsafeHash takes h.keys for a set.  Here it is a backing array, a       *)
(* length and a capacity, because the slice leaves the store: Keys returns *)
(* h.keys itself, the store's lock is released, and the caller encodes the *)
(* elements one after the other while other requests append to the same    *)
(* array or rebuild it in place.  A backing array is written only through  *)
(* h.keys, so an array that append has replaced never changes again, and a *)
(* listing is either shared with h.keys or frozen.                         *)
(*                                                                         *)
(* A Go string is two words.  One that is read while it is written can be  *)
(* the old one, the new one, or a mix of both words: Torn.                 *)
(***************************************************************************)
EXTENDS Integers, Sequences, SequencesExt

CONSTANTS Key,                  \* the keys clients use
          Reader,               \* the goroutines that list the keys
          Unset,                \* an element of an array never written
          Torn,                 \* a string mixed from two others
          MaxLen                \* bound: elements of the key list

ASSUME ElementAssumption == Unset \notin Key /\ Torn \notin Key /\ Unset # Torn

Free == "free"                  \* the lock has no holder
Writer == "writer"              \* it is held by a store.Store

ASSUME ReaderAssumption == Free \notin Reader /\ Writer \notin Reader

VARIABLES stored,               \* the keys of h.records
          array, len,           \* h.keys: its backing array up to its capacity, its length
          dirty,                \* h.dirty
          holder,               \* who holds the store's lock
          todo,                 \* the keys its holder has still to append
          writing,              \* it is writing array[len + 1]
          view,                 \* the listing of each reader
          rebuilt,              \* history: a rebuild began since the listing was returned
          snapshot              \* history: the elements of the listing when it was returned

listVars == <<array, len, writing>>
vars == <<stored, array, len, dirty, holder, todo, writing, view, rebuilt, snapshot>>

(* A reader's slice: what array it is on (Shared, or a frozen one), its    *)
(* length, and the elements encoded so far.                                *)
Shared == <<>>
NoView == [reading |-> FALSE, frozen |-> Shared, len |-> 0, out |-> <<>>]

ArrayOf(r) == IF view[r].frozen = Shared THEN array ELSE view[r].frozen

-----------------------------------------------------------------------------

Init == /\ stored = {}
        /\ array = <<>> /\ len = 0
        /\ dirty = FALSE
        /\ holder = Free
        /\ todo = <<>>
        /\ writing = FALSE
        /\ view = [r \in Reader |-> NoView]
        /\ rebuilt = [r \in Reader |-> FALSE]
        /\ snapshot = [r \in Reader |-> <<>>]

(* hash.Store: append the key, be it new or not, unless the list is dirty. *)
Store(k) ==
    /\ holder = Free
    /\ stored' = stored \cup {k}
    /\ IF dirty
       THEN UNCHANGED <<holder, todo>>
       ELSE len < MaxLen /\ holder' = Writer /\ todo' = <<k>>
    /\ UNCHANGED <<listVars, dirty, view, rebuilt, snapshot>>

(* Mutant of Delete: closes the gap in the list right away. *)
DeleteMutant(k) ==
    /\ holder = Free
    /\ stored' = stored \ {k}
    /\ IF ~dirty /\ k \in stored
       THEN \E i \in 1..len :
                /\ array[i] = k
                /\ array' = [j \in 1..Len(array) |->
                               IF j \in i..(len - 1) THEN array[j + 1] ELSE array[j]]
                /\ len' = len - 1
       ELSE UNCHANGED <<array, len>>
    /\ UNCHANGED <<writing, dirty, holder, todo, view, rebuilt, snapshot>>

(* hash.Delete *)
Delete(k) ==
    /\ holder = Free
    /\ stored' = stored \ {k}
    /\ dirty' = (dirty \/ k \in stored)
    /\ UNCHANGED <<listVars, holder, todo, view, rebuilt, snapshot>>

(* append, when the capacity is used up: the elements move to an array     *)
(* twice as large, and the listings on the old one stay behind.            *)
Grow ==
    /\ todo # <<>> /\ ~writing
    /\ len = Len(array)
    /\ array' = array \o [i \in 1..(IF len = 0 THEN 1 ELSE len) |-> Unset]
    /\ view' = [r \in Reader |->
                    IF view[r].reading /\ view[r].frozen = Shared
                    THEN [view[r] EXCEPT !.frozen = array]
                    ELSE view[r]]
    /\ UNCHANGED <<stored, len, dirty, holder, todo, writing, rebuilt, snapshot>>

(* Mutant of BeginWrite: does not look at the capacity. *)
BeginWriteMutant ==
    /\ todo # <<>> /\ ~writing
    /\ writing' = TRUE
    /\ UNCHANGED <<stored, array, len, dirty, holder, todo, view, rebuilt, snapshot>>

(* append, in place: the write takes a while. *)
BeginWrite ==
    /\ todo # <<>> /\ ~writing
    /\ len < Len(array)
    /\ writing' = TRUE
    /\ UNCHANGED <<stored, array, len, dirty, holder, todo, view, rebuilt, snapshot>>

EndWrite ==
    /\ writing
    /\ array' = [array EXCEPT ![len + 1] = Head(todo)]
    /\ len' = len + 1
    /\ todo' = Tail(todo)
    /\ writing' = FALSE
    /\ UNCHANGED <<stored, dirty, holder, view, rebuilt, snapshot>>

(* store.Store returns. *)
StoreReturn ==
    /\ holder = Writer
    /\ todo = <<>>
    /\ holder' = Free
    /\ UNCHANGED <<stored, listVars, dirty, todo, view, rebuilt, snapshot>>

(* The slice r is given, and with it the lock given up. *)
Return(r) ==
    /\ holder' = Free
    /\ view' = [view EXCEPT ![r] = [NoView EXCEPT !.reading = TRUE, !.len = len]]
    /\ rebuilt' = [rebuilt EXCEPT ![r] = FALSE]
    /\ snapshot' = [snapshot EXCEPT ![r] = SubSeq(array, 1, len)]

(* hash.Keys, the list being clean. *)
KeysCached(r) ==
    /\ holder = Free
    /\ ~view[r].reading
    /\ ~dirty
    /\ Return(r)
    /\ UNCHANGED <<stored, listVars, dirty, todo>>

(* Mutant of KeysRebuild: appends to the list instead of starting over. *)
KeysRebuildMutant(r) ==
    /\ holder = Free
    /\ ~view[r].reading
    /\ dirty
    /\ holder' = r
    /\ todo' \in SetToSeqs(stored)
    /\ rebuilt' = [s \in Reader |-> rebuilt[s] \/ view[s].reading]
    /\ UNCHANGED <<stored, array, len, writing, dirty, view, snapshot>>

(* hash.Keys, the list being dirty: cut the slice to no element, keeping   *)
(* its array, and append the keys in the order the map yields them.        *)
KeysRebuild(r) ==
    /\ holder = Free
    /\ ~view[r].reading
    /\ dirty
    /\ holder' = r
    /\ len' = 0
    /\ todo' \in SetToSeqs(stored)
    /\ rebuilt' = [s \in Reader |-> rebuilt[s] \/ view[s].reading]
    /\ UNCHANGED <<stored, array, writing, dirty, view, snapshot>>

KeysReturn(r) ==
    /\ holder = r
    /\ todo = <<>>
    /\ dirty' = FALSE
    /\ Return(r)
    /\ UNCHANGED <<stored, listVars, todo>>

(* The caller encodes its next element, without the lock. *)
Encode(r) ==
    /\ view[r].reading
    /\ LET i == Len(view[r].out) + 1
           racing == view[r].frozen = Shared /\ writing /\ i = len + 1
       IN  /\ i <= view[r].len
           /\ \E e \in IF racing THEN {array[i], Head(todo), Torn}
                                 ELSE {ArrayOf(r)[i]} :
                view' = [view EXCEPT ![r].out = Append(@, e)]
    /\ UNCHANGED <<stored, listVars, dirty, holder, todo, rebuilt, snapshot>>

(* All elements are encoded and the response is gone. *)
Finish(r) ==
    /\ view[r].reading
    /\ Len(view[r].out) = view[r].len
    /\ view' = [view EXCEPT ![r] = NoView]
    /\ rebuilt' = [rebuilt EXCEPT ![r] = FALSE]
    /\ snapshot' = [snapshot EXCEPT ![r] = <<>>]
    /\ UNCHANGED <<stored, listVars, dirty, holder, todo>>

Next == \/ \E k \in Key : Store(k) \/ Delete(k)
        \/ Grow \/ BeginWrite \/ EndWrite \/ StoreReturn
        \/ \E r \in Reader : KeysCached(r)
        \/ \E r \in Reader : KeysRebuild(r)
        \/ \E r \in Reader : KeysReturn(r)
        \/ \E r \in Reader : Encode(r)
        \/ \E r \in Reader : Finish(r)

Spec == Init /\ [][Next]_vars

-----------------------------------------------------------------------------

(* The type invariant; in particular the list never has more elements than *)
(* its array, and only the holder of the lock writes.                      *)
TypeOK ==
    /\ stored \subseteq Key
    /\ array \in Seq(Key \cup {Unset})
    /\ len \in 0..Len(array)
    /\ dirty \in BOOLEAN /\ writing \in BOOLEAN
    /\ holder \in Reader \cup {Free, Writer}
    /\ todo \in Seq(Key)
    /\ todo # <<>> \/ writing => holder # Free
    /\ \A r \in Reader : view[r].len <= Len(ArrayOf(r))

(* The list Keys may return without looking at the map: unless dirty, and  *)
(* with nobody appending, it has every stored key and no other, through    *)
(* in-place rebuilds, growth of the array and skipped appends.             *)
CachedListComplete ==
    holder = Free /\ ~dirty => ToSet(SubSeq(array, 1, len)) = stored

(* Appending, in place or to a larger array, does not disturb a listing    *)
(* that was returned before: as long as no rebuild began, its elements are *)
(* those it was returned with.                                             *)
AppendKeepsListings ==
    \A r \in Reader : view[r].reading /\ ~rebuilt[r] =>
        SubSeq(ArrayOf(r), 1, view[r].len) = snapshot[r]

(* store.go:169-170: "An access to the store is synchronized with a world  *)
(* mutex".  What a caller of Keys encodes is the list as it was under the  *)
(* lock, whatever other requests do meanwhile.                             *)
ListingIsSnapshot ==
    \A r \in Reader : view[r].reading =>
        view[r].out = SubSeq(snapshot[r], 1, Len(view[r].out))

=============================================================================
