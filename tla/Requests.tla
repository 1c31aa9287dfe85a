------------------------------ MODULE Requests ------------------------------
(***************************************************************************)
(* What the requests of container/store/request.go do to the node that     *)
(* owns their key, and what their clients get back.                        *)
(*                                                                         *)
(* Data is what JSON decodes to.  Of a list or a dictionary the model      *)
(* keeps what is found at each position or name; what is found is a leaf,  *)
(* and never looked into, since requests look one level deep only.         *)
(*                                                                         *)
(* A request is served on the goroutine that got it.  When that is the     *)
(* HTTP server's, at the owner itself, a panic costs the client its        *)
(* connection (net/http recovers).  When it is the handler of a link,      *)
(* nothing recovers, and the process of the owner ends with all its data.  *)
(* Links break here only for that reason; Cluster has them break anyhow.   *)
(***************************************************************************)
EXTENDS Naturals, FiniteSets

CONSTANTS Key,                  \* the keys of one owner
          Item,                 \* names in dictionaries
          NotAName,             \* an item asked for that is no string
          Leaf,                 \* what lists and dictionaries contain
          Absent,               \* no record
          MaxLen                \* bound: elements of a list

ASSUME KeyAssumption == Key # {}
ASSUME LeafAssumption == Absent \notin Leaf
ASSUME ItemAssumption == NotAName \notin Item
ASSUME MaxLenAssumption == MaxLen \in Nat

VARIABLES data,                 \* the data of each key
          up,                   \* the owner runs
          linked,               \* the nodes that redirect have links to it
          last                  \* the last request and its reply

vars == <<data, up, linked, last>>

Null == [kind |-> "null", at |-> <<>>]
Scalar == [kind |-> "scalar", at |-> <<>>]
Lists == {[kind |-> "list", at |-> f] : f \in UNION {[0..(n - 1) -> Leaf] : n \in 1..MaxLen}}
Dicts == {[kind |-> "dict", at |-> f] : f \in UNION {[D -> Leaf] : D \in (SUBSET Item) \ {{}}}}
Empty == {[kind |-> kind, at |-> <<>>] : kind \in {"list", "dict"}}

Data == {Null, Scalar} \cup Lists \cup Dicts \cup Empty

Request == [op : {"store"}, key : Key, arg : Data]
           \cup [op : {"load", "delete"}, key : Key, arg : {Absent}]
           \cup [op : {"index"}, key : Key, arg : 0..MaxLen]
           \cup [op : {"item"}, key : Key, arg : Item \cup {NotAName}]

-----------------------------------------------------------------------------

Ok(val) == [status |-> "ok", data |-> val]
Error(status) == [status |-> status, data |-> Absent]

(* reflect.TypeOf gives no type for a null, and Kind is called on it.      *)
Panic == Error("panic")

(* Mutant of ListIndex: the range check is one off. *)
ListIndexMutant(d, i) ==
    CASE d = Absent       -> Error("missing")
      [] d = Null         -> Panic
      [] OTHER            ->
            IF d.kind # "list" \/ Cardinality(DOMAIN d.at) < i THEN Error("conflict")
            ELSE IF i \in DOMAIN d.at THEN Ok(d.at[i])
            ELSE Panic

ListIndex(d, i) ==
    CASE d = Absent       -> Error("missing")
      [] d = Null         -> Panic
      [] OTHER            ->
            IF d.kind = "list" /\ i < Cardinality(DOMAIN d.at)
            THEN Ok(d.at[i])
            ELSE Error("conflict")

(* Mutant of DictItem: a name that is not there is given an empty value. *)
DictItemMutant(d, item) ==
    CASE d = Absent       -> Error("missing")
      [] d = Null         -> Panic
      [] OTHER            ->
            IF d.kind # "dict" \/ item = NotAName THEN Error("conflict")
            ELSE IF item \in DOMAIN d.at THEN Ok(d.at[item])
            ELSE Ok(Absent)

(* An item that is no string makes MapIndex panic, which mapIndex turns    *)
(* into an error; a name that is not there is an internal error.           *)
DictItem(d, item) ==
    CASE d = Absent       -> Error("missing")
      [] d = Null         -> Panic
      [] OTHER            ->
            IF d.kind # "dict" \/ item = NotAName THEN Error("conflict")
            ELSE IF item \in DOMAIN d.at THEN Ok(d.at[item])
            ELSE Error("internal")

Load(d) == IF d = Absent THEN Error("missing") ELSE Ok(d)

(* Process of each type of request on a record of data d, as the status    *)
(* its outcome is given.                                                   *)
Process(d, r) ==
    CASE r.op = "store"  -> Ok(r.arg)
      [] r.op = "load"   -> Load(d)
      [] r.op = "delete" -> Ok(Absent)
      [] r.op = "index"  -> ListIndex(d, r.arg)
      [] r.op = "item"   -> DictItem(d, r.arg)

(* Mutant of After: an item that is looked up replaces what it was in. *)
AfterMutant(d, r) ==
    IF r.op \in {"store", "delete", "index"} /\ Process(d, r).status = "ok"
    THEN Process(d, r).data
    ELSE d

(* What a request that did not panic leaves of the record. *)
After(d, r) == IF r.op \in {"store", "delete"} THEN r.arg ELSE d

-----------------------------------------------------------------------------

(* A deletion of what was not there, which is as good as no request. *)
Nothing == [request |-> [op |-> "delete", key |-> CHOOSE k \in Key : TRUE, arg |-> Absent],
            reply   |-> Ok(Absent)]

Init == /\ data = [k \in Key |-> Absent]
        /\ up = TRUE
        /\ linked = TRUE
        /\ last = Nothing

Answers(r, reply) == last' = [request |-> r, reply |-> reply]

(* A request is processed, on whatever goroutine, and answered. *)
Serve(r) ==
    /\ up
    /\ Process(data[r.key], r).status # "panic"
    /\ data' = [data EXCEPT ![r.key] = After(@, r)]
    /\ Answers(r, Process(data[r.key], r))
    /\ UNCHANGED <<up, linked>>

(* It panics on a goroutine of the owner's HTTP server. *)
PanicInHTTP(r) ==
    /\ up
    /\ Process(data[r.key], r).status = "panic"
    /\ Answers(r, Error("closed"))
    /\ UNCHANGED <<data, up, linked>>

(* It panics in the handler of a link: the owner dies, and the node that   *)
(* redirected the request fails to read the response.                      *)
PanicInHandler(r) ==
    /\ up
    /\ linked
    /\ Process(data[r.key], r).status = "panic"
    /\ up' = FALSE
    /\ linked' = FALSE
    /\ data' = [k \in Key |-> Absent]
    /\ Answers(r, Error("unreachable"))

(* The redirect of another node fails on a link that is no more. *)
Unreachable(r) ==
    /\ ~linked
    /\ Answers(r, Error("unreachable"))
    /\ UNCHANGED <<data, up, linked>>

(* Somebody starts the owner again, which does not renew the links to it. *)
Restart == /\ ~up
           /\ up' = TRUE
           /\ UNCHANGED <<data, linked, last>>

(* Somebody starts the nodes that redirect again, which do. *)
Relink == /\ up
          /\ ~linked
          /\ linked' = TRUE
          /\ UNCHANGED <<data, up, last>>

(* A request is made that is not for the owner's keys. *)
Elsewhere == /\ last' = Nothing
             /\ UNCHANGED <<data, up, linked>>

Next == \/ \E r \in Request : Serve(r)
        \/ \E r \in Request : PanicInHTTP(r)
        \/ \E r \in Request : PanicInHandler(r)
        \/ \E r \in Request : Unreachable(r)
        \/ Restart
        \/ Relink
        \/ Elsewhere

Spec == Init /\ [][Next]_vars

-----------------------------------------------------------------------------

(* The type invariant. *)
TypeOK == /\ data \in [Key -> Data \cup {Absent}]
          /\ up \in BOOLEAN
          /\ linked \in BOOLEAN
          /\ linked => up
          /\ last.request \in Request
          /\ last.reply.status \in {"ok", "missing", "conflict", "internal", "closed", "unreachable"}
          /\ last.reply.data \in Data \cup Leaf \cup {Absent}

(* Reference for the lookups: all there is to find, as paths into the data *)
(* of the keys.                                                            *)
Kind(op) == IF op = "index" THEN "list" ELSE "dict"

Paths == {[op |-> op, key |-> k, arg |-> a] : op \in {"index", "item"}, k \in Key,
                                              a \in (0..MaxLen) \cup Item}

Found(p) == /\ data[p.key] # Absent
            /\ data[p.key].kind = Kind(p.op)
            /\ p.arg \in DOMAIN data[p.key].at

(* A lookup that reaches the owner answers with what is at its path, and   *)
(* with an error exactly when nothing is, whatever stores and deletions    *)
(* came before, through the range check, the dynamic types and the         *)
(* recovered panic of mapIndex; and it leaves the data alone, as the       *)
(* answer still agrees with it afterwards.                                 *)
LookupsAreExact ==
    last.request.op \in {"index", "item"} /\ last.reply.status # "unreachable" =>
        IF last.request \in Paths /\ Found(last.request)
        THEN last.reply = Ok(data[last.request.key].at[last.request.arg])
        ELSE last.reply.status # "ok"

(* The one request that costs a node its life, and the cluster the data of *)
(* that node, is a lookup into a null: no position is so far out of range, *)
(* and no item so strange, that it would.                                  *)
OnlyNullIsFatal ==
    [][up /\ ~up' => data[last'.request.key] = Null
                     /\ last'.request.op \in {"index", "item"}]_vars

=============================================================================
