-------------------------- MODULE KeyListingProofs --------------------------
(***************************************************************************)
(* The key list as a slice, for any keys, any number of readers and lists  *)
(* of any length: what is true of it under the lock, and what remains true *)
(* of a listing after the lock is given up.                                *)
(***************************************************************************)
EXTENDS KeyListing, FiniteSetTheorems, TLAPS

Element == Key \cup {Unset}

View == [reading : BOOLEAN, frozen : Seq(Element), len : Nat, out : Seq(Element \cup {Torn})]

(* The elements of h.keys. *)
Listed == {array[i] : i \in 1..len}

(* Whoever holds the lock has still to append what the list lacks, and a   *)
(* Writer holds it only when the list is clean.                            *)
ListOK ==
    /\ IsFiniteSet(stored)
    /\ holder = Free /\ ~dirty => Listed = stored
    /\ holder # Free => Listed \cup ToSet(todo) = stored
    /\ holder = Writer => ~dirty
    /\ writing => todo # <<>> /\ len < Len(array)

(* A listing on the array of h.keys is a part of the list, until a rebuild *)
(* begins.                                                                 *)
ViewOK(r) ==
    /\ ~view[r].reading => view[r] = NoView
    /\ view[r].len <= Len(ArrayOf(r))
    /\ view[r].reading /\ ~rebuilt[r] =>
          /\ SubSeq(ArrayOf(r), 1, view[r].len) = snapshot[r]
          /\ view[r].frozen = Shared => view[r].len <= len

IInv ==
    /\ TypeOK
    /\ ListOK
    /\ view \in [Reader -> View]
    /\ rebuilt \in [Reader -> BOOLEAN]
    /\ snapshot \in [Reader -> Seq(Element)]
    /\ \A r \in Reader : ViewOK(r)

-----------------------------------------------------------------------------

(***************************************************************************)
(* Sequences.                                                              *)
(***************************************************************************)
LEMMA PrefixFacts ==
    ASSUME NEW S, NEW s \in Seq(S), NEW n \in 0..Len(s)
    PROVE  /\ SubSeq(s, 1, n) \in Seq(S) /\ Len(SubSeq(s, 1, n)) = n
           /\ \A i \in 1..n : SubSeq(s, 1, n)[i] = s[i]
           /\ ToSet(SubSeq(s, 1, n)) = {s[i] : i \in 1..n}
<1>1. /\ SubSeq(s, 1, n) \in Seq(S) /\ Len(SubSeq(s, 1, n)) = n
      /\ \A i \in 1..n : SubSeq(s, 1, n)[i] = s[i]
  OBVIOUS
<1>2. DOMAIN SubSeq(s, 1, n) = 1..n
  BY <1>1
<1> QED
  BY <1>1, <1>2 DEF ToSet

LEMMA SamePrefix ==
    ASSUME NEW S, NEW s \in Seq(S), NEW t \in Seq(S),
           NEW n \in Nat, n <= Len(s), n <= Len(t), \A i \in 1..n : s[i] = t[i]
    PROVE  SubSeq(s, 1, n) = SubSeq(t, 1, n)
OBVIOUS

LEMMA ElementsOfSeq ==
    ASSUME NEW S, NEW s \in Seq(S)
    PROVE  /\ s = <<>> => ToSet(s) = {}
           /\ s # <<>> => /\ Head(s) \in S /\ Tail(s) \in Seq(S)
                          /\ ToSet(s) = {Head(s)} \cup ToSet(Tail(s))
<1>1. s = <<>> => ToSet(s) = {}
  BY DEF ToSet
<1>2. ASSUME s # <<>>
      PROVE  ToSet(s) = {Head(s)} \cup ToSet(Tail(s))
  <2>1. /\ Len(s) \in Nat \ {0} /\ DOMAIN s = 1..Len(s) /\ Head(s) = s[1]
        /\ Tail(s) \in Seq(S) /\ Len(Tail(s)) = Len(s) - 1
        /\ \A i \in 1..(Len(s) - 1) : Tail(s)[i] = s[i + 1]
    BY <1>2
  <2>2. DOMAIN Tail(s) = 1..(Len(s) - 1)
    BY <2>1
  <2>3. \A i \in 1..Len(s) : i = 1 \/ i - 1 \in 1..(Len(s) - 1)
    BY <2>1
  <2>4. \A i \in 1..(Len(s) - 1) : i + 1 \in 1..Len(s)
    BY <2>1
  <2>5. \A x \in ToSet(s) : x = Head(s) \/ x \in ToSet(Tail(s))
    <3> TAKE x \in ToSet(s)
    <3>1. PICK i \in 1..Len(s) : x = s[i]
      BY <2>1 DEF ToSet
    <3>2. CASE i = 1
      BY <2>1, <3>1, <3>2
    <3>3. CASE i # 1
      <4>1. PICK j \in 1..(Len(s) - 1) : j = i - 1
        BY <2>3, <3>3
      <4>2. Tail(s)[j] = s[j + 1] /\ j + 1 = i
        BY <2>1, <4>1
      <4> QED BY <2>2, <3>1, <4>2 DEF ToSet
    <3> QED BY <3>2, <3>3
  <2>6. \A x \in ToSet(Tail(s)) : x \in ToSet(s)
    BY <2>1, <2>2, <2>4 DEF ToSet
  <2>7. Head(s) \in ToSet(s)
    BY <2>1 DEF ToSet
  <2> QED BY <2>5, <2>6, <2>7
<1> QED
  BY <1>1, <1>2

(* The range over a map, in any order, has every key.                      *)
LEMMA RangeOfMap ==
    ASSUME NEW S, IsFiniteSet(S), NEW s \in SetToSeqs(S)
    PROVE  s \in Seq(S) /\ ToSet(s) = S
<1> DEFINE n == Cardinality(S)
<1>1. n \in Nat
  BY FS_CardinalityType
<1>2. s \in [1..n -> S] /\ \A i, j \in 1..n : i # j => s[i] # s[j]
  BY DEF SetToSeqs
<1> HIDE DEF n
<1>3. s \in Injection(1..n, S)
  BY <1>2 DEF Injection, IsInjective
<1>4. IsFiniteSet(1..n) /\ Cardinality(1..n) = n
  BY <1>1, FS_Interval
<1>5. s \in Surjection(1..n, S)
  BY <1>3, <1>4, FS_Injection DEF n
<1>6. DOMAIN s = 1..n
  BY <1>2
<1>7. ToSet(s) = S
  BY <1>2, <1>5, <1>6 DEF Surjection, ToSet
<1> QED
  BY <1>1, <1>2, <1>7

LEMMA ListedIs ==
    ASSUME TypeOK
    PROVE  ToSet(SubSeq(array, 1, len)) = Listed
BY PrefixFacts DEF TypeOK, Listed

LEMMA InitIInv == Init => IInv
<1> SUFFICES ASSUME Init PROVE IInv
  OBVIOUS
<1>1. NoView \in View /\ <<>> \in Seq(Element)
  BY DEF NoView, View, Shared
<1>2. TypeOK
  <2>1. \A r \in Reader : view[r].len = 0 /\ ArrayOf(r) = <<>>
    BY DEF Init, ArrayOf, NoView, Shared
  <2>2. Len(<<>>) = 0 /\ <<>> \in Seq(Key)
    OBVIOUS
  <2>3. array \in Seq(Key \cup {Unset}) /\ len \in 0..Len(array) /\ todo \in Seq(Key)
    BY <1>1, <2>2 DEF Init, Element
  <2>4. \A r \in Reader : view[r].len <= Len(ArrayOf(r))
    BY <2>1, <2>2
  <2> QED BY <2>3, <2>4 DEF Init, TypeOK
<1>3. ListOK
  <2>1. Listed = {}
    BY DEF Init, Listed
  <2> QED BY <2>1, FS_EmptySet DEF Init, ListOK, Free, Writer
<1>4. \A r \in Reader : ViewOK(r)
  BY <1>2 DEF Init, ViewOK, NoView, TypeOK
<1> QED
  BY <1>1, <1>2, <1>3, <1>4 DEF Init, IInv

-----------------------------------------------------------------------------

(***************************************************************************)
(* Each action.                                                            *)
(***************************************************************************)
LEMMA ViewFrame ==
    ASSUME IInv, NEW r \in Reader,
           view'[r] = view[r], rebuilt'[r] = rebuilt[r], snapshot'[r] = snapshot[r],
           array' \in Seq(Element), Len(array') = Len(array),
           len' \in Nat, len <= len', \A i \in 1..len : array'[i] = array[i]
    PROVE  ViewOK(r)'
<1>1. /\ ViewOK(r) /\ view[r] \in View /\ array \in Seq(Element) /\ len \in Nat
      /\ rebuilt[r] \in BOOLEAN
  BY DEF IInv, TypeOK, Element
<1>2. view[r].len \in Nat /\ view[r].reading \in BOOLEAN /\ len \in 0..Len(array)
  BY <1>1 DEF View, IInv, TypeOK
<1>3. CASE view[r].frozen = Shared
  <2>1. ArrayOf(r) = array /\ ArrayOf(r)' = array'
    BY <1>3 DEF ArrayOf
  <2>2. ASSUME view[r].len <= len
        PROVE  SubSeq(array', 1, view[r].len) = SubSeq(array, 1, view[r].len)
    <3>1. /\ view[r].len <= Len(array) /\ view[r].len <= Len(array')
          /\ \A i \in 1..view[r].len : array'[i] = array[i]
      BY <1>1, <1>2, <2>2
    <3> QED BY <1>1, <1>2, <3>1, SamePrefix
  <2>3. view[r].len <= len => view[r].len <= len'
    BY <1>1, <1>2
  <2> QED BY <1>1, <1>2, <1>3, <2>1, <2>2, <2>3 DEF ViewOK
<1>4. CASE view[r].frozen # Shared
  <2>1. ArrayOf(r)' = ArrayOf(r)
    BY <1>4 DEF ArrayOf
  <2> QED BY <1>1, <1>4, <2>1 DEF ViewOK
<1> QED
  BY <1>3, <1>4

(* What the state's parts are. *)
LEMMA Facts ==
    ASSUME IInv
    PROVE  /\ TypeOK /\ ListOK
           /\ array \in Seq(Element) /\ len \in Nat /\ len <= Len(array) /\ Len(array) \in Nat
           /\ todo \in Seq(Key) /\ writing \in BOOLEAN /\ dirty \in BOOLEAN
           /\ view \in [Reader -> View] /\ rebuilt \in [Reader -> BOOLEAN]
           /\ snapshot \in [Reader -> Seq(Element)]
BY DEF IInv, TypeOK, Element

(* TypeOK', once the views are right. *)
LEMMA TypeOfViews ==
    ASSUME stored' \subseteq Key, array' \in Seq(Element), len' \in 0..Len(array'),
           dirty' \in BOOLEAN, writing' \in BOOLEAN, holder' \in Reader \cup {Free, Writer},
           todo' \in Seq(Key), todo' # <<>> \/ writing' => holder' # Free,
           \A r \in Reader : ViewOK(r)'
    PROVE  TypeOK'
BY DEF TypeOK, ViewOK, Element

LEMMA StoreStep ==
    ASSUME IInv, NEW k \in Key, Store(k)
    PROVE  IInv'
<1>1. /\ holder = Free /\ stored' = stored \cup {k}
      /\ UNCHANGED <<array, len, writing, dirty, view, rebuilt, snapshot>>
      /\ dirty => UNCHANGED <<holder, todo>>
      /\ ~dirty => holder' = Writer /\ todo' = <<k>>
  BY DEF Store, listVars
<1>2. /\ TypeOK /\ ListOK /\ todo = <<>> /\ ~writing
  BY <1>1, Facts DEF TypeOK
<1>3. \A r \in Reader : ViewOK(r)'
  BY <1>1, Facts, ViewFrame
<1>4. TypeOK'
  <2>1. todo' \in Seq(Key) /\ holder' \in {Free, Writer} /\ Writer # Free
        /\ (todo' # <<>> => holder' # Free)
    <3>1. <<k>> \in Seq(Key) /\ <<k>> # <<>> /\ <<>> \in Seq(Key)
      OBVIOUS
    <3>2. Writer # Free
      BY DEF Free, Writer
    <3>3. CASE dirty
      BY <1>1, <1>2, <3>1, <3>2, <3>3
    <3>4. CASE ~dirty
      BY <1>1, <3>1, <3>2, <3>4
    <3> QED BY <3>3, <3>4
  <2> QED BY <1>1, <1>2, <1>3, <2>1, Facts, TypeOfViews DEF TypeOK
<1>5. ListOK'
  <2>1. Listed' = Listed
    BY <1>1 DEF Listed
  <2>2. ToSet(<<k>>) = {k}
    BY DEF ToSet
  <2>3. IsFiniteSet(stored')
    BY <1>1, <1>2, FS_AddElement DEF ListOK
  <2> QED BY <1>1, <1>2, <2>1, <2>2, <2>3 DEF ListOK, Free, Writer
<1> QED
  BY <1>1, <1>3, <1>4, <1>5 DEF IInv

LEMMA DeleteStep ==
    ASSUME IInv, NEW k \in Key, Delete(k)
    PROVE  IInv'
<1>1. /\ holder = Free /\ stored' = stored \ {k} /\ dirty' = (dirty \/ k \in stored)
      /\ UNCHANGED <<array, len, writing, holder, todo, view, rebuilt, snapshot>>
  BY DEF Delete, listVars
<1>2. /\ TypeOK /\ ListOK /\ todo = <<>> /\ ~writing
  BY <1>1, Facts DEF TypeOK
<1>3. \A r \in Reader : ViewOK(r)'
  BY <1>1, Facts, ViewFrame
<1>4. TypeOK'
  BY <1>1, <1>2, <1>3, Facts, TypeOfViews DEF TypeOK
<1>5. ListOK'
  <2>1. Listed' = Listed
    BY <1>1 DEF Listed
  <2>2. IsFiniteSet(stored')
    BY <1>1, <1>2, FS_RemoveElement DEF ListOK
  <2>3. ~dirty' => stored' = stored
    BY <1>1
  <2> QED BY <1>1, <1>2, <2>1, <2>2, <2>3 DEF ListOK, Free, Writer
<1> QED
  BY <1>1, <1>3, <1>4, <1>5 DEF IInv

(* The listings on the old array keep it, and it is written no more.       *)
LEMMA GrowStep ==
    ASSUME IInv, Grow
    PROVE  IInv'
<1> DEFINE more == [i \in 1..(IF len = 0 THEN 1 ELSE len) |-> Unset]
<1>1. /\ todo # <<>> /\ ~writing /\ len = Len(array) /\ array' = array \o more
      /\ view' = [r \in Reader |->
                      IF view[r].reading /\ view[r].frozen = Shared
                      THEN [view[r] EXCEPT !.frozen = array]
                      ELSE view[r]]
      /\ UNCHANGED <<stored, len, dirty, holder, todo, writing, rebuilt, snapshot>>
  BY DEF Grow
<1>2. more \in Seq(Element)
  BY Facts DEF Element
<1> HIDE DEF more
<1>3. /\ array' \in Seq(Element) /\ Len(array') >= Len(array) /\ Len(array') \in Nat
      /\ \A i \in 1..len : array'[i] = array[i]
  BY <1>1, <1>2, Facts
<1>4. ASSUME NEW r \in Reader
      PROVE  ViewOK(r)'
  <2>0. /\ ViewOK(r) /\ view[r] \in View /\ view[r].len \in Nat /\ rebuilt'[r] = rebuilt[r]
        /\ snapshot'[r] = snapshot[r] /\ len' = len
    BY <1>1, Facts DEF IInv, View
  <2>1. CASE view[r].reading /\ view[r].frozen = Shared
    <3>1. /\ view'[r].frozen = array /\ view'[r].reading /\ view'[r].len = view[r].len
      BY <1>1, <2>0, <2>1 DEF View
    <3>2. ArrayOf(r) = array /\ view[r].len <= Len(array)
      BY <2>0, <2>1 DEF ViewOK, ArrayOf
    <3>3. CASE array = Shared
      <4>1. ArrayOf(r)' = array' /\ len = 0 /\ view[r].len = 0
        BY <1>1, <2>0, <3>1, <3>2, <3>3, Facts DEF ArrayOf, Shared
      <4>2. SubSeq(array', 1, 0) = SubSeq(array, 1, 0)
        BY <1>3, Facts, SamePrefix
      <4> QED BY <1>3, <2>0, <2>1, <3>1, <3>2, <4>1, <4>2 DEF ViewOK
    <3>4. CASE array # Shared
      <4>1. ArrayOf(r)' = array
        BY <3>1, <3>4 DEF ArrayOf
      <4> QED BY <2>0, <2>1, <3>1, <3>2, <3>4, <4>1 DEF ViewOK
    <3> QED BY <3>3, <3>4
  <2>2. CASE view[r].reading /\ view[r].frozen # Shared
    <3>1. view'[r] = view[r] /\ ArrayOf(r)' = ArrayOf(r)
      BY <1>1, <2>2 DEF ArrayOf
    <3> QED BY <2>0, <2>2, <3>1 DEF ViewOK
  <2>3. CASE ~view[r].reading
    <3>1. view'[r] = NoView /\ ArrayOf(r)' = array' /\ view'[r].len = 0 /\ ~view'[r].reading
      BY <1>1, <2>0, <2>3 DEF ViewOK, NoView, ArrayOf
    <3> QED BY <1>3, <3>1 DEF ViewOK
  <2> QED BY <2>1, <2>2, <2>3
<1>5. TypeOK'
  <2>1. len' \in 0..Len(array')
    BY <1>1, <1>3, Facts
  <2> QED BY <1>1, <1>3, <1>4, <2>1, Facts, TypeOfViews DEF TypeOK
<1>6. ListOK'
  <2>1. Listed' = Listed
    BY <1>1, <1>3 DEF Listed
  <2> QED BY <1>1, <2>1, Facts DEF ListOK
<1>7. view' \in [Reader -> View]
  BY <1>1, Facts DEF View
<1> QED
  BY <1>1, <1>4, <1>5, <1>6, <1>7, Facts DEF IInv

LEMMA BeginWriteStep ==
    ASSUME IInv, BeginWrite
    PROVE  IInv'
<1>1. /\ todo # <<>> /\ len < Len(array) /\ writing' = TRUE
      /\ UNCHANGED <<stored, array, len, dirty, holder, todo, view, rebuilt, snapshot>>
  BY DEF BeginWrite
<1>2. \A r \in Reader : ViewOK(r)'
  BY <1>1, Facts, ViewFrame
<1>3. TypeOK'
  BY <1>1, <1>2, Facts, TypeOfViews DEF TypeOK
<1>4. ListOK'
  BY <1>1, Facts DEF ListOK, Listed
<1> QED
  BY <1>1, <1>2, <1>3, <1>4, Facts DEF IInv

(* The element is written behind the list, where no listing reaches.       *)
LEMMA EndWriteStep ==
    ASSUME IInv, EndWrite
    PROVE  IInv'
<1>1. /\ writing /\ array' = [array EXCEPT ![len + 1] = Head(todo)] /\ len' = len + 1
      /\ todo' = Tail(todo) /\ writing' = FALSE
      /\ UNCHANGED <<stored, dirty, holder, view, rebuilt, snapshot>>
  BY DEF EndWrite
<1>2. todo # <<>> /\ len < Len(array) /\ holder # Free
  BY <1>1, Facts DEF ListOK, TypeOK
<1>3. /\ Head(todo) \in Key /\ Tail(todo) \in Seq(Key)
      /\ ToSet(todo) = {Head(todo)} \cup ToSet(Tail(todo))
  BY <1>2, Facts, ElementsOfSeq
<1>4. /\ array' \in Seq(Element) /\ Len(array') = Len(array)
      /\ \A i \in 1..len : array'[i] = array[i]
      /\ array'[len + 1] = Head(todo)
      /\ len' \in 0..Len(array') /\ len <= len'
  BY <1>1, <1>2, <1>3, Facts DEF Element
<1>5. \A r \in Reader : ViewOK(r)'
  BY <1>1, <1>4, Facts, ViewFrame
<1>6. TypeOK'
  BY <1>1, <1>2, <1>3, <1>4, <1>5, Facts, TypeOfViews DEF TypeOK
<1>7. ListOK'
  <2>1. Listed' = Listed \cup {Head(todo)}
    <3>1. \A i \in 1..(len + 1) : i \in 1..len \/ i = len + 1
      BY Facts
    <3>2. \A i \in 1..len : i \in 1..(len + 1)
      BY Facts
    <3>3. len + 1 \in 1..(len + 1)
      BY Facts
    <3> QED BY <1>1, <1>4, <3>1, <3>2, <3>3 DEF Listed
  <2> QED BY <1>1, <1>2, <1>3, <2>1, Facts DEF ListOK
<1> QED
  BY <1>1, <1>5, <1>6, <1>7, Facts DEF IInv

LEMMA StoreReturnStep ==
    ASSUME IInv, StoreReturn
    PROVE  IInv'
<1>1. /\ holder = Writer /\ todo = <<>> /\ holder' = Free
      /\ UNCHANGED <<stored, array, len, writing, dirty, todo, view, rebuilt, snapshot>>
  BY DEF StoreReturn, listVars
<1>2. ~writing /\ ~dirty /\ Listed = stored
  BY <1>1, Facts, ElementsOfSeq DEF ListOK, Free, Writer
<1>3. \A r \in Reader : ViewOK(r)'
  BY <1>1, Facts, ViewFrame
<1>4. TypeOK'
  BY <1>1, <1>2, <1>3, Facts, TypeOfViews DEF TypeOK
<1>5. ListOK'
  BY <1>1, <1>2, Facts DEF ListOK, Listed, Free, Writer
<1> QED
  BY <1>1, <1>3, <1>4, <1>5, Facts DEF IInv

(* The listing a reader is given is the list.                              *)
LEMMA ReturnFacts ==
    ASSUME IInv, NEW r \in Reader, Return(r), UNCHANGED <<array, len>>
    PROVE  /\ \A s \in Reader : ViewOK(s)'
           /\ view' \in [Reader -> View]
           /\ rebuilt' \in [Reader -> BOOLEAN]
           /\ snapshot' \in [Reader -> Seq(Element)]
<1> DEFINE given == [NoView EXCEPT !.reading = TRUE, !.len = len]
           list == SubSeq(array, 1, len)
<1>1. /\ given \in View /\ given.reading /\ given.len = len /\ given.frozen = Shared
      /\ list \in Seq(Element)
  <2>1. NoView \in View /\ NoView.frozen = Shared
    BY DEF NoView, View, Shared
  <2>2. list \in Seq(Element)
    BY Facts, PrefixFacts DEF list
  <2>3. len \in Nat
    BY Facts
  <2> HIDE DEF list
  <2> QED BY <2>1, <2>2, <2>3 DEF View, given
<1>2. /\ view' = [view EXCEPT ![r] = given]
      /\ rebuilt' = [rebuilt EXCEPT ![r] = FALSE]
      /\ snapshot' = [snapshot EXCEPT ![r] = list]
  BY DEF Return
<1> HIDE DEF given, list
<1>3. ViewOK(r)'
  <2>1. view'[r] = given /\ snapshot'[r] = list
    BY <1>2, Facts
  <2>2. ArrayOf(r)' = array
    BY <1>1, <2>1 DEF ArrayOf
  <2> QED BY <1>1, <2>1, <2>2, Facts DEF ViewOK, list
<1>4. ASSUME NEW s \in Reader, s # r
      PROVE  ViewOK(s)'
  <2>1. view'[s] = view[s] /\ rebuilt'[s] = rebuilt[s] /\ snapshot'[s] = snapshot[s]
    BY <1>2, <1>4, Facts
  <2> QED BY <2>1, Facts, ViewFrame
<1>5. view' \in [Reader -> View]
  BY <1>1, <1>2, Facts
<1>6. rebuilt' \in [Reader -> BOOLEAN] /\ snapshot' \in [Reader -> Seq(Element)]
  BY <1>1, <1>2, Facts
<1> QED
  BY <1>3, <1>4, <1>5, <1>6

LEMMA KeysCachedStep ==
    ASSUME IInv, NEW r \in Reader, KeysCached(r)
    PROVE  IInv'
<1>1. /\ holder = Free /\ ~dirty /\ Return(r) /\ holder' = Free
      /\ UNCHANGED <<stored, array, len, writing, dirty, todo>>
  BY DEF KeysCached, Return, listVars
<1>2. /\ TypeOK /\ ListOK /\ todo = <<>> /\ ~writing
  BY <1>1, Facts DEF TypeOK
<1>3. TypeOK'
  BY <1>1, <1>2, Facts, ReturnFacts, TypeOfViews DEF TypeOK
<1>4. ListOK'
  BY <1>1, <1>2 DEF ListOK, Listed
<1> QED
  BY <1>1, <1>3, <1>4, ReturnFacts DEF IInv

(* The array is kept and will be written over: every listing on it is lost.*)
LEMMA KeysRebuildStep ==
    ASSUME IInv, NEW r \in Reader, KeysRebuild(r)
    PROVE  IInv'
<1>1. /\ holder = Free /\ holder' = r /\ len' = 0 /\ todo' \in SetToSeqs(stored)
      /\ rebuilt' = [s \in Reader |-> rebuilt[s] \/ view[s].reading]
      /\ UNCHANGED <<stored, array, writing, dirty, view, snapshot>>
  BY DEF KeysRebuild
<1>2. /\ TypeOK /\ ListOK /\ todo = <<>> /\ ~writing /\ stored \subseteq Key
      /\ IsFiniteSet(stored)
  BY <1>1, Facts DEF TypeOK, ListOK
<1>3. todo' \in Seq(stored) /\ ToSet(todo') = stored
  BY <1>1, <1>2, RangeOfMap
<1>4. todo' \in Seq(Key)
  BY <1>2, <1>3
<1>5. ASSUME NEW s \in Reader
      PROVE  ViewOK(s)'
  <2>1. /\ view'[s] = view[s] /\ ArrayOf(s)' = ArrayOf(s) /\ ViewOK(s)
        /\ rebuilt'[s] = (rebuilt[s] \/ view[s].reading)
    BY <1>1 DEF ArrayOf, IInv
  <2> QED BY <2>1 DEF ViewOK
<1>6. r # Free /\ r # Writer
  BY ReaderAssumption
<1>7. TypeOK'
  <2>1. len' \in 0..Len(array')
    BY <1>1, Facts
  <2> QED BY <1>1, <1>2, <1>4, <1>5, <1>6, <2>1, Facts, TypeOfViews
<1>8. ListOK'
  <2>1. Listed' = {}
    BY <1>1 DEF Listed
  <2> QED BY <1>1, <1>2, <1>3, <1>6, <2>1 DEF ListOK
<1>9. rebuilt' \in [Reader -> BOOLEAN]
  BY <1>1, Facts DEF View
<1> QED
  BY <1>1, <1>5, <1>7, <1>8, <1>9, Facts DEF IInv

LEMMA KeysReturnStep ==
    ASSUME IInv, NEW r \in Reader, KeysReturn(r)
    PROVE  IInv'
<1>1. /\ holder = r /\ todo = <<>> /\ dirty' = FALSE /\ Return(r) /\ holder' = Free
      /\ UNCHANGED <<stored, array, len, writing, todo>>
  BY DEF KeysReturn, Return, listVars
<1>2. r # Free
  BY ReaderAssumption
<1>3. TypeOK /\ ListOK /\ ~writing /\ Listed = stored
  BY <1>1, <1>2, Facts, ElementsOfSeq DEF ListOK
<1>4. TypeOK'
  BY <1>1, <1>3, Facts, ReturnFacts, TypeOfViews DEF TypeOK
<1>5. ListOK'
  BY <1>1, <1>3 DEF ListOK, Listed, Free, Writer
<1> QED
  BY <1>1, <1>4, <1>5, ReturnFacts DEF IInv

(* What is encoded may be torn, but what it is read from does not change.  *)
LEMMA EncodeStep ==
    ASSUME IInv, NEW r \in Reader, Encode(r)
    PROVE  IInv'
<1>1. /\ view[r].reading /\ Len(view[r].out) + 1 <= view[r].len
      /\ UNCHANGED <<stored, array, len, writing, dirty, holder, todo, rebuilt, snapshot>>
  BY DEF Encode, listVars
<1>2. /\ ViewOK(r) /\ view[r] \in View /\ view[r].len \in Nat
      /\ view[r].out \in Seq(Element \cup {Torn})
      /\ view[r].frozen \in Seq(Element) /\ view[r].len <= Len(ArrayOf(r))
  BY Facts DEF IInv, ViewOK, View
<1>3. PICK e : /\ \/ /\ writing /\ view[r].frozen = Shared
                     /\ e \in {array[Len(view[r].out) + 1], Head(todo), Torn}
                  \/ e = ArrayOf(r)[Len(view[r].out) + 1]
               /\ view' = [view EXCEPT ![r].out = Append(@, e)]
  BY DEF Encode
<1>4. e \in Element \cup {Torn}
  <2>1. ArrayOf(r) \in Seq(Element)
    BY <1>2, Facts DEF ArrayOf
  <2>2. ArrayOf(r)[Len(view[r].out) + 1] \in Element
    BY <1>1, <1>2, <2>1
  <2>3. writing => Head(todo) \in Element
    BY Facts, ElementsOfSeq DEF ListOK, Element
  <2>4. view[r].frozen = Shared => ArrayOf(r) = array
    BY DEF ArrayOf
  <2> QED BY <1>3, <2>2, <2>3, <2>4
<1>5. /\ view' \in [Reader -> View]
      /\ \A s \in Reader : s # r => view'[s] = view[s]
      /\ view'[r].reading /\ view'[r].len = view[r].len /\ view'[r].frozen = view[r].frozen
  <2>1. Append(view[r].out, e) \in Seq(Element \cup {Torn})
    BY <1>2, <1>4
  <2>2. view'[r] = [view[r] EXCEPT !.out = Append(view[r].out, e)]
    BY <1>3, Facts
  <2>3. /\ view'[r] \in View
        /\ view'[r].reading /\ view'[r].len = view[r].len /\ view'[r].frozen = view[r].frozen
    BY <1>1, <1>2, <2>1, <2>2 DEF View
  <2> QED BY <1>3, <2>3, Facts
<1>6. ASSUME NEW s \in Reader
      PROVE  ViewOK(s)'
  <2>1. CASE s = r
    <3>1. ArrayOf(r)' = ArrayOf(r)
      BY <1>1, <1>5 DEF ArrayOf
    <3> QED BY <1>1, <1>2, <1>5, <2>1, <3>1 DEF ViewOK
  <2>2. CASE s # r
    BY <1>1, <1>5, <2>2, Facts, ViewFrame
  <2> QED BY <2>1, <2>2
<1>7. TypeOK'
  BY <1>1, <1>6, Facts, TypeOfViews DEF TypeOK
<1>8. ListOK'
  BY <1>1, Facts DEF ListOK, Listed
<1> QED
  BY <1>1, <1>5, <1>6, <1>7, <1>8, Facts DEF IInv

LEMMA FinishStep ==
    ASSUME IInv, NEW r \in Reader, Finish(r)
    PROVE  IInv'
<1>1. /\ view' = [view EXCEPT ![r] = NoView]
      /\ rebuilt' = [rebuilt EXCEPT ![r] = FALSE]
      /\ snapshot' = [snapshot EXCEPT ![r] = <<>>]
      /\ UNCHANGED <<stored, array, len, writing, dirty, holder, todo>>
  BY DEF Finish, listVars
<1>2. NoView \in View /\ ~NoView.reading /\ NoView.len = 0 /\ NoView.frozen = Shared
  BY DEF NoView, View, Shared
<1>3. ASSUME NEW s \in Reader
      PROVE  ViewOK(s)'
  <2>1. CASE s = r
    <3>1. view'[r] = NoView
      BY <1>1, Facts
    <3>2. ArrayOf(r)' = array
      BY <1>1, <1>2, <3>1 DEF ArrayOf
    <3>3. /\ ~view'[r].reading /\ view'[r].len = 0 /\ 0 <= Len(array)
      BY <1>2, <3>1, Facts
    <3> QED BY <2>1, <3>1, <3>2, <3>3 DEF ViewOK
  <2>2. CASE s # r
    <3>1. view'[s] = view[s] /\ rebuilt'[s] = rebuilt[s] /\ snapshot'[s] = snapshot[s]
      BY <1>1, <2>2, Facts
    <3>2. /\ array' \in Seq(Element) /\ Len(array') = Len(array)
          /\ len' \in Nat /\ len <= len' /\ \A i \in 1..len : array'[i] = array[i]
      BY <1>1, Facts
    <3> QED BY <3>1, <3>2, ViewFrame
  <2> QED BY <2>1, <2>2
<1>4. TypeOK'
  BY <1>1, <1>3, Facts, TypeOfViews DEF TypeOK
<1>5. ListOK'
  BY <1>1, Facts DEF ListOK, Listed
<1>6. view' \in [Reader -> View]
  BY <1>1, <1>2, Facts
<1>7. rebuilt' \in [Reader -> BOOLEAN] /\ snapshot' \in [Reader -> Seq(Element)]
  <2>1. <<>> \in Seq(Element)
    OBVIOUS
  <2> QED BY <1>1, <2>1, Facts
<1> QED
  BY <1>3, <1>4, <1>5, <1>6, <1>7 DEF IInv

LEMMA NextIInv == IInv /\ [Next]_vars => IInv'
<1> SUFFICES ASSUME IInv, [Next]_vars PROVE IInv'
  OBVIOUS
<1>1. ASSUME NEW k \in Key, Store(k) \/ Delete(k)
      PROVE  IInv'
  BY <1>1, StoreStep, DeleteStep
<1>2. CASE Grow \/ BeginWrite \/ EndWrite \/ StoreReturn
  BY <1>2, GrowStep, BeginWriteStep, EndWriteStep, StoreReturnStep
<1>3. ASSUME NEW r \in Reader, KeysCached(r) \/ KeysRebuild(r) \/ KeysReturn(r)
      PROVE  IInv'
  BY <1>3, KeysCachedStep, KeysRebuildStep, KeysReturnStep
<1>4. ASSUME NEW r \in Reader, Encode(r) \/ Finish(r)
      PROVE  IInv'
  BY <1>4, EncodeStep, FinishStep
<1>5. CASE UNCHANGED vars
  <2>1. UNCHANGED <<stored, array, len, dirty, holder, todo, writing, view, rebuilt, snapshot>>
    BY <1>5 DEF vars
  <2>2. \A r \in Reader : ViewOK(r)'
    BY <2>1, Facts, ViewFrame
  <2>3. TypeOK'
    BY <2>1, <2>2, Facts, TypeOfViews DEF TypeOK
  <2>4. ListOK'
    BY <2>1, Facts DEF ListOK, Listed
  <2> QED BY <2>1, <2>2, <2>3, <2>4, Facts DEF IInv
<1> QED
  BY <1>1, <1>2, <1>3, <1>4, <1>5 DEF Next

-----------------------------------------------------------------------------

(***************************************************************************)
(* The results.                                                            *)
(***************************************************************************)

(* What the list still lacks is always what the holder of the lock is      *)
(* about to append, and a listing no rebuild has touched lies within the   *)
(* list or on an array that is written no more (hash.Store, hash.Delete    *)
(* and hash.Keys, with append taken apart).                                *)
THEOREM InductiveInvariant == Spec => []IInv
<1>1. Init => IInv
  BY InitIInv
<1>2. IInv /\ [Next]_vars => IInv'
  BY NextIInv
<1> QED
  BY <1>1, <1>2, PTL DEF Spec

(* h.keys is never longer than its array, and it is written only by the    *)
(* holder of the store's lock.                                             *)
THEOREM TypeCorrect == Spec => []TypeOK
<1>1. IInv => TypeOK
  BY DEF IInv
<1> QED
  BY <1>1, InductiveInvariant, PTL

(* The list hash.Keys returns without a rebuild has the stored keys and no *)
(* other, for any history of updates, deletions, growths and rebuilds.     *)
THEOREM CachedListsAreComplete == Spec => []CachedListComplete
<1>1. IInv => CachedListComplete
  BY Facts, ListedIs DEF ListOK, CachedListComplete
<1> QED
  BY <1>1, InductiveInvariant, PTL

(* A listing that left the lock is not disturbed by appending, in place or *)
(* to a larger array, whoever appends: only the rebuild of hash.Keys,      *)
(* which reuses the array, can change what its holder goes on to read.     *)
THEOREM ListingsSurviveAppends == Spec => []AppendKeepsListings
<1>1. IInv => AppendKeepsListings
  BY DEF IInv, ViewOK, AppendKeepsListings
<1> QED
  BY <1>1, InductiveInvariant, PTL

=============================================================================
