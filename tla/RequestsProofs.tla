--------------------------- MODULE RequestsProofs ---------------------------
(***************************************************************************)
(* What lookups answer, and which of them are fatal, for any keys, items,  *)
(* leaves and length of lists.                                             *)
(***************************************************************************)
EXTENDS Requests, TLAPS, FiniteSetTheorems

(* A position is in the range of a list if it is less than the length.     *)
LEMMA ListRange ==
    ASSUME NEW d \in Data, d.kind = "list", NEW i \in Nat
    PROVE  i < Cardinality(DOMAIN d.at) <=> i \in DOMAIN d.at
<1>1. \E n \in Nat : DOMAIN d.at = 0..(n - 1)
  <2>1. CASE d \in Lists
    <3>1. PICK f \in UNION {[0..(n - 1) -> Leaf] : n \in 1..MaxLen} : d = [kind |-> "list", at |-> f]
      BY <2>1 DEF Lists
    <3>2. PICK n \in 1..MaxLen : f \in [0..(n - 1) -> Leaf]
      BY <3>1
    <3>3. n \in Nat /\ DOMAIN d.at = 0..(n - 1)
      BY <3>1, <3>2, MaxLenAssumption
    <3> QED BY <3>3
  <2>2. CASE d \in Empty
    <3>1. d.at = <<>>
      BY <2>2 DEF Empty
    <3>2. DOMAIN d.at = 0..(0 - 1)
      BY <3>1
    <3> QED BY <3>2
  <2>3. CASE d \in {Null, Scalar} \cup Dicts
    BY <2>3 DEF Null, Scalar, Dicts
  <2> QED BY <2>1, <2>2, <2>3 DEF Data
<1>2. PICK n \in Nat : DOMAIN d.at = 0..(n - 1)
  BY <1>1
<1>3. Cardinality(0..(n - 1)) = n
  <2>1. 0 \in Int /\ n - 1 \in Int
    OBVIOUS
  <2>2. Cardinality(0..(n - 1)) = IF 0 > n - 1 THEN 0 ELSE (n - 1) - 0 + 1
    BY <2>1, FS_Interval
  <2> QED BY <2>2
<1> QED
  BY <1>2, <1>3

(* Only a lookup into a null panics.                                       *)
LEMMA PanicFacts ==
    ASSUME NEW r, Process(data[r.key], r).status = "panic", r.op \in {"store", "load", "delete", "index", "item"}
    PROVE  r.op \in {"index", "item"} /\ data[r.key] = Null
<1> USE DEF Ok, Error, Panic
<1>1. CASE r.op = "store" \/ r.op = "delete"
  BY <1>1 DEF Process
<1>2. CASE r.op = "load"
  BY <1>2 DEF Process, Load
<1>3. CASE r.op = "index"
  BY <1>3 DEF Process, ListIndex
<1>4. CASE r.op = "item"
  BY <1>4 DEF Process, DictItem
<1> QED
  BY <1>1, <1>2, <1>3, <1>4

LEMMA FatalStep == [Next]_vars => (up /\ ~up' =>
                       data[last'.request.key] = Null /\ last'.request.op \in {"index", "item"})
<1> SUFFICES ASSUME [Next]_vars, up, ~up'
             PROVE  data[last'.request.key] = Null /\ last'.request.op \in {"index", "item"}
  OBVIOUS
<1>1. PICK r \in Request : PanicInHandler(r)
  BY DEF Next, vars, Serve, PanicInHTTP, Unreachable, Restart, Relink, Elsewhere
<1>2. last'.request = r /\ Process(data[r.key], r).status = "panic"
  BY <1>1 DEF PanicInHandler, Answers
<1>3. r.op \in {"store", "load", "delete", "index", "item"}
  BY DEF Request
<1> QED
  BY <1>2, <1>3, PanicFacts

(* What a lookup finds, and the values it may answer with.                 *)
LEMMA IndexExact ==
    ASSUME NEW d \in Data \cup {Absent}, NEW i \in 0..MaxLen, ListIndex(d, i).status # "panic"
    PROVE  IF d # Absent /\ d.kind = "list" /\ i \in DOMAIN d.at
           THEN ListIndex(d, i) = Ok(d.at[i])
           ELSE ListIndex(d, i).status # "ok"
<1> USE DEF Ok, Error, Panic
<1>1. CASE d = Absent
  BY <1>1 DEF ListIndex
<1>2. CASE d # Absent /\ d = Null
  BY <1>2 DEF ListIndex
<1>3. CASE d # Absent /\ d # Null
  <2>1. ListIndex(d, i) = IF d.kind = "list" /\ i < Cardinality(DOMAIN d.at)
                          THEN Ok(d.at[i]) ELSE Error("conflict")
    BY <1>3 DEF ListIndex
  <2>2. d.kind = "list" => (i < Cardinality(DOMAIN d.at) <=> i \in DOMAIN d.at)
    BY <1>3, ListRange, MaxLenAssumption
  <2> QED BY <1>3, <2>1, <2>2
<1> QED BY <1>1, <1>2, <1>3

LEMMA ItemExact ==
    ASSUME NEW d \in Data \cup {Absent}, NEW item \in Item \cup {NotAName}
    PROVE  IF d # Absent /\ d.kind = "dict" /\ item \in DOMAIN d.at
           THEN DictItem(d, item) = Ok(d.at[item])
           ELSE DictItem(d, item).status # "ok"
<1> USE DEF Ok, Error, Panic
<1>1. CASE d = Absent
  BY <1>1 DEF DictItem
<1>2. CASE d # Absent /\ d = Null
  BY <1>2 DEF DictItem, Null
<1>3. CASE d # Absent /\ d # Null
  <2>1. DictItem(d, item) = IF d.kind # "dict" \/ item = NotAName THEN Error("conflict")
                            ELSE IF item \in DOMAIN d.at THEN Ok(d.at[item])
                            ELSE Error("internal")
    BY <1>3 DEF DictItem
  <2>2. d.kind = "dict" => DOMAIN d.at \subseteq Item
    <3>1. CASE d \in Dicts
      BY <3>1 DEF Dicts
    <3>2. CASE d \in Empty
      BY <3>2 DEF Empty
    <3>3. CASE d \in {Null, Scalar} \cup Lists
      BY <3>3 DEF Null, Scalar, Lists
    <3> QED BY <1>3, <3>1, <3>2, <3>3 DEF Data
  <2> QED BY <1>3, <2>1, <2>2, ItemAssumption
<1> QED BY <1>1, <1>2, <1>3

DataOK == data \in [Key -> Data \cup {Absent}]

(* What every request leaves is data again.                                *)
LEMMA DataStep == DataOK /\ [Next]_vars => DataOK'
<1> SUFFICES ASSUME DataOK, [Next]_vars PROVE DataOK'
  OBVIOUS
<1> USE DEF DataOK
<1>1. ASSUME NEW r \in Request, Serve(r) PROVE DataOK'
  <2>1. CASE r.op \in {"store", "delete"}
    <3>1. r.key \in Key /\ r.arg \in Data \cup {Absent}
      BY <2>1 DEF Request
    <3>2. data' = [data EXCEPT ![r.key] = r.arg]
      BY <1>1, <2>1 DEF Serve, After
    <3> QED BY <3>1, <3>2
  <2>2. CASE r.op \notin {"store", "delete"}
    BY <1>1, <2>2 DEF Serve, After
  <2> QED BY <2>1, <2>2
<1>2. ASSUME NEW r \in Request, PanicInHandler(r) PROVE DataOK'
  BY <1>2 DEF PanicInHandler
<1>3. CASE UNCHANGED data
  BY <1>3
<1> QED
  BY <1>1, <1>2, <1>3 DEF Next, vars, PanicInHTTP, Unreachable, Restart, Relink, Elsewhere

(* What lists and dictionaries contain are leaves.                         *)
LEMMA LeavesInside ==
    ASSUME NEW d \in Data, NEW i \in DOMAIN d.at
    PROVE  d.at[i] \in Leaf
<1>1. CASE d \in Lists
  <2>1. PICK f \in UNION {[0..(n - 1) -> Leaf] : n \in 1..MaxLen} : d = [kind |-> "list", at |-> f]
    BY <1>1 DEF Lists
  <2>2. PICK n \in 1..MaxLen : f \in [0..(n - 1) -> Leaf]
    BY <2>1
  <2> QED BY <2>1, <2>2
<1>2. CASE d \in Dicts
  <2>1. PICK f \in UNION {[D -> Leaf] : D \in (SUBSET Item) \ {{}}} : d = [kind |-> "dict", at |-> f]
    BY <1>2 DEF Dicts
  <2>2. PICK D \in SUBSET Item : f \in [D -> Leaf]
    BY <2>1
  <2> QED BY <2>1, <2>2
<1>3. CASE d \in {Null, Scalar} \cup Empty
  <2>1. d.at = <<>>
    BY <1>3 DEF Null, Scalar, Empty
  <2> QED BY <2>1
<1> QED BY <1>1, <1>2, <1>3 DEF Data

LEMMA ReplyType ==
    ASSUME NEW d \in Data \cup {Absent}, NEW r \in Request
    PROVE  /\ Process(d, r).status \in {"ok", "missing", "conflict", "internal", "panic"}
           /\ Process(d, r).data \in Data \cup Leaf \cup {Absent}
<1> USE DEF Ok, Error, Panic
<1>1. CASE r.op = "store"
  BY <1>1 DEF Process, Request
<1>2. CASE r.op = "delete"
  BY <1>2 DEF Process
<1>3. CASE r.op = "load"
  BY <1>3 DEF Process, Load
<1>4. CASE r.op = "index"
  <2>1. r.arg \in 0..MaxLen /\ Process(d, r) = ListIndex(d, r.arg)
    BY <1>4 DEF Request, Process
  <2>2. ListIndex(d, r.arg).status \in {"ok", "missing", "conflict", "panic"}
    BY DEF ListIndex
  <2>3. CASE ListIndex(d, r.arg).status = "panic"
    BY <2>1, <2>3 DEF ListIndex
  <2>4. CASE ListIndex(d, r.arg).status # "panic"
    <3>1. CASE d # Absent /\ d.kind = "list" /\ r.arg \in DOMAIN d.at
      BY <2>1, <2>2, <2>4, <3>1, IndexExact, LeavesInside
    <3>2. CASE ~(d # Absent /\ d.kind = "list" /\ r.arg \in DOMAIN d.at)
      <4>1. ListIndex(d, r.arg).status # "ok"
        BY <2>1, <2>4, <3>2, IndexExact
      <4>2. ListIndex(d, r.arg).data = Absent
        BY <4>1 DEF ListIndex
      <4> QED BY <2>1, <2>2, <4>2
    <3> QED BY <3>1, <3>2
  <2> QED BY <2>3, <2>4
<1>5. CASE r.op = "item"
  <2>1. r.arg \in Item \cup {NotAName} /\ Process(d, r) = DictItem(d, r.arg)
    BY <1>5 DEF Request, Process
  <2>2. DictItem(d, r.arg).status \in {"ok", "missing", "conflict", "internal", "panic"}
    BY DEF DictItem
  <2>3. CASE d # Absent /\ d.kind = "dict" /\ r.arg \in DOMAIN d.at
    BY <2>1, <2>2, <2>3, ItemExact, LeavesInside
  <2>4. CASE ~(d # Absent /\ d.kind = "dict" /\ r.arg \in DOMAIN d.at)
    <3>1. DictItem(d, r.arg).status # "ok"
      BY <2>1, <2>4, ItemExact
    <3>2. DictItem(d, r.arg).data = Absent
      BY <3>1 DEF DictItem
    <3> QED BY <2>1, <2>2, <3>2
  <2> QED BY <2>3, <2>4
<1> QED BY <1>1, <1>2, <1>3, <1>4, <1>5 DEF Request

(* Data stays data, and requests and replies what they can be.             *)
THEOREM RequestsTyped == Spec => []TypeOK
<1>1. Nothing.request \in Request /\ Nothing.reply = Ok(Absent)
  BY KeyAssumption DEF Nothing, Request
<1>2. Init => TypeOK
  BY <1>1 DEF Init, TypeOK, Ok
<1>3. TypeOK /\ [Next]_vars => TypeOK'
  <2> SUFFICES ASSUME TypeOK, [Next]_vars PROVE TypeOK'
    OBVIOUS
  <2>1. (data \in [Key -> Data \cup {Absent}])'
    BY DataStep DEF TypeOK, DataOK
  <2>2. ASSUME NEW r \in Request, Serve(r) PROVE TypeOK'
    <3>1. data[r.key] \in Data \cup {Absent}
      BY DEF Request, TypeOK
    <3>2. last' = [request |-> r, reply |-> Process(data[r.key], r)] /\ UNCHANGED <<up, linked>>
      BY <2>2 DEF Serve, Answers
    <3>3. Process(data[r.key], r).status \in {"ok", "missing", "conflict", "internal"}
      BY <2>2, <3>1, ReplyType DEF Serve
    <3>4. Process(data[r.key], r).data \in Data \cup Leaf \cup {Absent}
      BY <3>1, ReplyType
    <3> QED BY <2>1, <3>2, <3>3, <3>4 DEF TypeOK
  <2>3. ASSUME NEW r \in Request, PanicInHTTP(r) \/ PanicInHandler(r) \/ Unreachable(r) PROVE TypeOK'
    <3>1. last'.request = r /\ last'.reply \in {Error("closed"), Error("unreachable")}
      BY <2>3 DEF PanicInHTTP, PanicInHandler, Unreachable, Answers
    <3>2. last'.reply.status \in {"closed", "unreachable"} /\ last'.reply.data = Absent
      BY <3>1 DEF Error
    <3>3. (up' = FALSE /\ linked' = FALSE) \/ UNCHANGED <<up, linked>>
      BY <2>3 DEF PanicInHTTP, PanicInHandler, Unreachable
    <3>4. (up \in BOOLEAN /\ linked \in BOOLEAN /\ (linked => up))'
      <4>1. up \in BOOLEAN /\ linked \in BOOLEAN /\ (linked => up)
        BY DEF TypeOK
      <4>2. CASE up' = FALSE /\ linked' = FALSE
        BY <4>2, Zenon
      <4>3. CASE UNCHANGED <<up, linked>>
        BY <4>1, <4>3, Zenon
      <4> QED BY <3>3, <4>2, <4>3
    <3> QED BY <2>1, <3>1, <3>2, <3>4 DEF TypeOK
  <2>4. CASE Restart \/ Relink \/ UNCHANGED vars
    <3>1. last' = last
      BY <2>4 DEF Restart, Relink, vars
    <3>2. (up \in BOOLEAN /\ linked \in BOOLEAN /\ (linked => up))'
      <4>1. up \in BOOLEAN /\ linked \in BOOLEAN /\ (linked => up)
        BY DEF TypeOK
      <4>2. CASE Restart
        BY <4>1, <4>2, Zenon DEF Restart
      <4>3. CASE Relink
        <5>1. up' = up /\ up /\ linked' = TRUE
          BY <4>3 DEF Relink
        <5> QED BY <4>1, <5>1, Zenon
      <4>4. CASE UNCHANGED vars
        <5>1. up' = up /\ linked' = linked
          BY <4>4 DEF vars
        <5> QED BY <4>1, <5>1, Zenon
      <4> QED BY <2>4, <4>2, <4>3, <4>4
    <3> QED BY <2>1, <3>1, <3>2 DEF TypeOK
  <2>5. CASE Elsewhere
    BY <1>1, <2>1, <2>5 DEF Elsewhere, TypeOK, Ok
  <2> QED BY <2>2, <2>3, <2>4, <2>5 DEF Next
<1> QED BY <1>2, <1>3, PTL DEF Spec

(* A lookup that is served finds what there is.                            *)
LEMMA ServedExact ==
    ASSUME DataOK, NEW r \in Request, Serve(r)
    PROVE  LookupsAreExact'
<1> SUFFICES ASSUME r.op \in {"index", "item"}
             PROVE  IF r \in Paths /\ Found(r)'
                    THEN Process(data[r.key], r) = Ok(data'[r.key].at[r.arg])
                    ELSE Process(data[r.key], r).status # "ok"
  BY DEF LookupsAreExact, Serve, Answers, Paths, Found
<1>1. r.key \in Key /\ data[r.key] \in Data \cup {Absent}
  BY DEF Request, DataOK
<1>2. data' = data
  BY <1>1 DEF Serve, After, DataOK
<1>3. CASE r.op = "index"
  <2>1. r.arg \in 0..MaxLen /\ r = [op |-> "index", key |-> r.key, arg |-> r.arg]
    BY <1>3 DEF Request
  <2>2. r \in Paths
    BY <1>1, <2>1 DEF Paths
  <2>3. Process(data[r.key], r) = ListIndex(data[r.key], r.arg)
    BY <1>3 DEF Process
  <2>4. ListIndex(data[r.key], r.arg).status # "panic"
    BY <2>3 DEF Serve
  <2> QED BY <1>2, <1>1, <1>3, <2>1, <2>2, <2>3, <2>4, IndexExact DEF Found, Kind
<1>4. CASE r.op = "item"
  <2>1. r.arg \in Item \cup {NotAName} /\ r = [op |-> "item", key |-> r.key, arg |-> r.arg]
    BY <1>4 DEF Request
  <2>2. Process(data[r.key], r) = DictItem(data[r.key], r.arg)
    BY <1>4 DEF Process
  <2>3. CASE r.arg \in Item
    <3>1. r \in Paths
      BY <1>1, <2>1, <2>3 DEF Paths
    <3> QED BY <1>2, <1>1, <1>4, <2>1, <2>2, <3>1, ItemExact DEF Found, Kind
  <2>4. CASE r.arg = NotAName
    <3>1. DictItem(data[r.key], r.arg).status # "ok"
      BY <2>4 DEF DictItem, Error, Panic
    <3>2. ~Found(r)'
      <4> SUFFICES ASSUME Found(r)' PROVE FALSE
        OBVIOUS
      <4>1. data[r.key] # Absent /\ data[r.key].kind = "dict" /\ r.arg \in DOMAIN data[r.key].at
        BY <1>2, <1>4 DEF Found, Kind
      <4>2. DictItem(data[r.key], r.arg) = Ok(data[r.key].at[r.arg])
        BY <1>1, <2>1, <4>1, ItemExact
      <4> QED BY <3>1, <4>2 DEF Ok
    <3> QED BY <2>2, <3>1, <3>2
  <2> QED BY <2>1, <2>3, <2>4
<1> QED
  BY <1>3, <1>4

(* A lookup that reaches the owner answers with what is at its path, and   *)
(* with an error when nothing is, for lists of any length and any names.   *)
THEOREM LookupsFindWhatIsThere == Spec => []LookupsAreExact
<1> DEFINE Inv == DataOK /\ LookupsAreExact
<1>1. Init => Inv
  BY DEF Init, Nothing, DataOK, LookupsAreExact
<1>2. Inv /\ [Next]_vars => Inv'
  <2> SUFFICES ASSUME Inv, [Next]_vars PROVE Inv'
    OBVIOUS
  <2>1. DataOK'
    BY DataStep
  <2>2. ASSUME NEW r \in Request, Serve(r) PROVE LookupsAreExact'
    BY <2>2, ServedExact
  <2>3. ASSUME NEW r \in Request, PanicInHTTP(r) PROVE LookupsAreExact'
    <3> SUFFICES ASSUME r.op \in {"index", "item"}, Found(r)' PROVE FALSE
      BY <2>3 DEF PanicInHTTP, Answers, LookupsAreExact, Error
    <3>1. data[r.key] = Null /\ data' = data
      BY <2>3, PanicFacts DEF PanicInHTTP
    <3> QED BY <3>1 DEF Found, Kind, Null
  <2>4. ASSUME NEW r \in Request, PanicInHandler(r) \/ Unreachable(r) PROVE LookupsAreExact'
    BY <2>4 DEF PanicInHandler, Unreachable, Answers, LookupsAreExact, Error
  <2>5. ASSUME UNCHANGED <<data, last>> PROVE LookupsAreExact'
    BY <2>5 DEF LookupsAreExact, Found
  <2>6. ASSUME Elsewhere PROVE LookupsAreExact'
    BY <2>6 DEF Elsewhere, Nothing, LookupsAreExact
  <2>7. LookupsAreExact'
    BY <2>2, <2>3, <2>4, <2>5, <2>6 DEF Next, vars, Restart, Relink
  <2> QED BY <2>1, <2>7
<1>3. Inv => LookupsAreExact
  OBVIOUS
<1> QED
  BY <1>1, <1>2, <1>3, PTL DEF Spec

(* A node dies of nothing but a lookup into a null: no request, whatever   *)
(* its position or item, makes the process of a key's owner panic else.    *)
THEOREM OnlyNullLookupsKill == Spec => OnlyNullIsFatal
<1>1. [Next]_vars => [up /\ ~up' => data[last'.request.key] = Null
                        /\ last'.request.op \in {"index", "item"}]_vars
  BY FatalStep
<1> QED
  BY <1>1, PTL DEF Spec, OnlyNullIsFatal

=============================================================================
