-------------------------------- MODULE Rest --------------------------------
(***************************************************************************)
(* The REST service in front of the requests of Requests, and the client   *)
(* library that calls it.                                                  *)
(*                                                                         *)
(* A request arrives at the owner of the named keys or at another node,    *)
(* which redirects it.  The empty key belongs to nobody: Do serves it on   *)
(* whatever node it arrives, so each node keeps a record of its own.       *)
(*                                                                         *)
(* A client pastes its key into a path.  The multiplexer matches the path, *)
(* pastes the key unescaped into a query, and the handler parses it out of *)
(* there.  What matters of the first segment of a key is the server's key  *)
(* it ends as: the same text, a text it is a different spelling of ("a&b"  *)
(* and "%61" end as "a"), or, when it is no valid query, the empty key.    *)
(* A slash ends the segment; what follows is modelled where it matters.    *)
(***************************************************************************)
EXTENDS Requests, Sequences

CONSTANTS NoKey,                \* the empty key
          NoCall,               \* a request sent by hand
          NotServed             \* no request for the store

ASSUME NoKeyAssumption == NoKey \notin Key

VARIABLES unnamed,              \* the data of the empty key at each node
          call                  \* the last call: by whom, what for, its outcome

restVars == <<vars, unnamed, call>>

Entry == {"owner", "other"}

Segment == [form : {"plain", "coded"}, text : Key] \cup [form : {"broken"}, text : {NoKey}]
NoSegment == [form |-> "none", text |-> NoKey]
(* Keys, the empty one too; what follows a slash is that of a plain key.   *)
Name == [segment : Segment \cup {NoSegment}, tail : {<<>>}]
        \cup [segment : [form : {"plain"}, text : Key], tail : {<<"index">>, <<"item">>, <<"else">>}]

(* What is sent by hand: a body that is not there, no JSON, or no options. *)
NoBody == [field |-> "none", val |-> Absent]
BadBody == [field |-> "bad", val |-> Absent]
NoOptions == [field |-> "unknown", val |-> Absent]

Formatters == {"", "*/*", "application/json"}
Foreign == "application/x-www-form-urlencoded"
JSON == [type |-> "application/json", accept |-> "*/*"]

HTTP == [method : {"GET", "PUT", "DELETE", "POST"}, path : Name, media : {JSON},
         body : {NoBody, BadBody, NoOptions}]
        \cup [method : {"GET", "PUT"}, path : Name, body : {NoOptions},
              media : {[JSON EXCEPT !.type = Foreign], [JSON EXCEPT !.accept = Foreign]}]

-----------------------------------------------------------------------------
(* What a client sends. *)

ClientCall == [op : {"store"}, name : Name, arg : Data]
              \cup [op : {"load", "delete"}, name : Name, arg : {Absent}]
              \cup [op : {"index"}, name : Name, arg : 0..MaxLen]
              \cup [op : {"item"}, name : Name, arg : Item \cup {NotAName}]

Method(op) == CASE op = "store" -> "PUT" [] op = "delete" -> "DELETE" [] OTHER -> "GET"

Sent(c) ==
    [method |-> Method(c.op),
     path   |-> IF c.op \in {"index", "item"} THEN [c.name EXCEPT !.tail = Append(@, c.op)] ELSE c.name,
     media  |-> [type |-> "", accept |-> ""],
     body   |-> CASE c.op \in {"index", "item"} -> [field |-> c.op, val |-> c.arg]
                  [] c.op = "store"             -> [field |-> "data", val |-> c.arg]
                  [] OTHER                      -> NoBody]

(* The error of a client is nil only for an answer with status 200. *)
NilError(status) == status = "ok"

-----------------------------------------------------------------------------
(* What the service makes of it. *)

(* Mutant of Table: the handler of stores is registered for another method. *)
TableMutant == {[method |-> "GET",    tail |-> <<>>,        op |-> "load"],
                [method |-> "GET",    tail |-> <<"index">>, op |-> "index"],
                [method |-> "GET",    tail |-> <<"item">>,  op |-> "item"],
                [method |-> "POST",   tail |-> <<>>,        op |-> "store"],
                [method |-> "DELETE", tail |-> <<>>,        op |-> "delete"]}

(* The handlers of keys and what they are registered for. *)
Table == {[method |-> "GET",    tail |-> <<>>,        op |-> "load"],
          [method |-> "GET",    tail |-> <<"index">>, op |-> "index"],
          [method |-> "GET",    tail |-> <<"item">>,  op |-> "item"],
          [method |-> "PUT",    tail |-> <<>>,        op |-> "store"],
          [method |-> "DELETE", tail |-> <<>>,        op |-> "delete"]}

Matching(h) == {t \in Table : t.method = h.method /\ t.tail = h.path.tail /\ h.path.segment # NoSegment}

Op(h) == (CHOOSE t \in Matching(h) : TRUE).op

(* Param, of the query the multiplexer made: the server's key. *)
Param(segment) == IF segment.form = "broken" THEN NoKey ELSE segment.text

(* Mutant of Refusal: a request without a body is one with all defaults. *)
RefusalMutant(h) ==
    IF h.method \notin {t.method : t \in Table} THEN "not_allowed"
    ELSE IF Matching(h) = {} THEN "not_found"
    ELSE IF h.media.type \notin Formatters THEN "unsupported"
    ELSE IF h.media.accept \notin Formatters THEN "not_acceptable"
    ELSE IF Op(h) \in {"store", "index", "item"} /\ h.body = BadBody THEN "bad_request"
    ELSE "none"

(* The first thing a request is turned down for: by the multiplexer, by    *)
(* Format, or because its handler cannot read the options in its body.     *)
Refusal(h) ==
    IF h.method \notin {t.method : t \in Table} THEN "not_allowed"
    ELSE IF Matching(h) = {} THEN "not_found"
    ELSE IF h.media.type \notin Formatters THEN "unsupported"
    ELSE IF h.media.accept \notin Formatters THEN "not_acceptable"
    ELSE IF Op(h) \in {"store", "index", "item"} /\ h.body \in {NoBody, BadBody} THEN "bad_request"
    ELSE "none"

(* Mutant of Option: there is no data to store in a body without data. *)
OptionMutant(op, body) ==
    CASE op = "store" -> IF body.field = "data"  THEN body.val ELSE Absent
      [] op = "index" -> IF body.field = "index" THEN body.val ELSE 0
      [] op = "item"  -> IF body.field = "item"  THEN body.val ELSE NotAName
      [] OTHER        -> Absent

(* The options a handler reads: a field that is not there has the zero     *)
(* value of its type, whatever else the body says.                         *)
Option(op, body) ==
    CASE op = "store" -> IF body.field = "data"  THEN body.val ELSE Null
      [] op = "index" -> IF body.field = "index" THEN body.val ELSE 0
      [] op = "item"  -> IF body.field = "item"  THEN body.val ELSE NotAName
      [] OTHER        -> Absent

RequestOf(h) == [op |-> Op(h), key |-> Param(h.path.segment), arg |-> Option(Op(h), h.body)]

-----------------------------------------------------------------------------

(* No call: the answer to the last one is with its client. *)
Idle == [by |-> NoCall, request |-> NotServed, status |-> "none"]

RestInit == /\ Init
            /\ unnamed = [e \in Entry |-> Absent]
            /\ call = Idle

Runs(e) == e = "owner" => up

Ends(c, r, status) == call' = [by |-> c, request |-> r, status |-> status]

(* Mutant of Refuse: the handler of stores goes on after readReq failed. *)
RefuseMutant(e, c, h) ==
    /\ Runs(e)
    /\ Refusal(h) # "none"
    /\ Ends(c, NotServed, Refusal(h))
    /\ unnamed' = IF Refusal(h) = "bad_request" /\ Op(h) = "store" /\ RequestOf(h).key = NoKey
                  THEN [unnamed EXCEPT ![e] = Null]
                  ELSE unnamed
    /\ Elsewhere

(* A request is turned down where it arrives. *)
Refuse(e, c, h) ==
    /\ Runs(e)
    /\ Refusal(h) # "none"
    /\ Ends(c, NotServed, Refusal(h))
    /\ Elsewhere
    /\ UNCHANGED unnamed

(* The empty key: served where the request arrives, on a goroutine of the  *)
(* HTTP server.                                                            *)
ServeUnnamed(e, c, h) ==
    /\ Runs(e)
    /\ Refusal(h) = "none"
    /\ LET r == RequestOf(h)
           reply == Process(unnamed[e], r)
       IN  /\ r.key = NoKey
           /\ IF reply.status = "panic"
              THEN Ends(c, r, "closed") /\ UNCHANGED unnamed
              ELSE Ends(c, r, reply.status) /\ unnamed' = [unnamed EXCEPT ![e] = After(@, r)]
    /\ Elsewhere

(* Any other key: Do serves it at its owner, and redirects it elsewhere.   *)
ServeOwned(e, c, h) ==
    /\ Refusal(h) = "none"
    /\ LET r == RequestOf(h)
       IN  /\ r.key # NoKey
           /\ \/ e = "owner" /\ (Serve(r) \/ PanicInHTTP(r))
              \/ e = "other" /\ ((linked /\ Serve(r)) \/ PanicInHandler(r) \/ Unreachable(r))
           /\ Ends(c, r, last'.reply.status)
    /\ unnamed' = IF up /\ ~up' THEN [unnamed EXCEPT !["owner"] = Absent] ELSE unnamed

Handle(e, c, h) ==
    /\ call = Idle
    /\ Refuse(e, c, h) \/ ServeUnnamed(e, c, h) \/ ServeOwned(e, c, h)

(* The handler returns, and the client has its answer or its error. *)
Delivered ==
    /\ call # Idle
    /\ call' = Idle
    /\ Elsewhere
    /\ UNCHANGED unnamed

OwnerRestarts == Restart /\ UNCHANGED <<unnamed, call>>

OthersRestart == Relink /\ unnamed' = [unnamed EXCEPT !["other"] = Absent] /\ UNCHANGED call

RestNext == \/ \E e \in Entry, c \in ClientCall : Handle(e, c, Sent(c))
            \/ \E e \in Entry, h \in HTTP : Handle(e, NoCall, h)
            \/ Delivered
            \/ OwnerRestarts
            \/ OthersRestart

RestSpec == RestInit /\ [][RestNext]_restVars

-----------------------------------------------------------------------------

Refusals == {"not_allowed", "not_found", "unsupported", "not_acceptable",
             "bad_request"}

(* The type invariant: what reaches a store is a request it knows. *)
RestTypeOK == /\ unnamed \in [Entry -> Data \cup {Absent}]
              /\ call.by \in ClientCall \cup {NoCall}
              /\ \/ call = Idle
                 \/ call.request = NotServed /\ call.status \in Refusals
                 \/ /\ call.request.key \in Key \cup {NoKey}
                    /\ \E k \in Key : [call.request EXCEPT !.key = k] \in Request
                    /\ call.status \in {"ok", "missing", "conflict", "internal", "closed",
                                        "unreachable"}

(* A client whose call returns no error got what it asked for: its         *)
(* operation, with its argument, on the key it named.  A key with a slash  *)
(* in it is never served, neither cut nor taken for the path of another    *)
(* operation (a load of "k/index" is routed to the lookups, mux.go:139).   *)
SuccessIsOfTheCall ==
    call.by # NoCall /\ NilError(call.status) =>
        /\ call.request.op = call.by.op
        /\ call.request.arg = call.by.arg
        /\ call.by.name.tail = <<>>
        /\ call.by.name.segment.form = "plain" => call.request.key = call.by.name.segment.text

(* The two ends agree on methods, paths, types and bodies: a call whose    *)
(* key is neither empty nor has a slash is never turned down unserved.     *)
ClientIsUnderstood ==
    call.by # NoCall /\ call.by.name.tail = <<>> /\ call.by.name.segment # NoSegment =>
        call.status \notin Refusals

(* A request that fails leaves the records of every node as they were,     *)
(* whatever it failed for, unless it costs the owner its life.             *)
OnlySuccessChanges ==
    [][~NilError(call'.status) /\ up' = up /\ linked' = linked => UNCHANGED <<data, unnamed>>]_restVars

=============================================================================
