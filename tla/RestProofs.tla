----------------------------- MODULE RestProofs -----------------------------
(***************************************************************************)
(* The REST service does nothing to the owner that Requests does not, for  *)
(* any keys, items, leaves and length of lists; so what is proved of       *)
(* lookups holds behind it.  And what clients may take for granted.        *)
(***************************************************************************)
EXTENDS Rest, RequestsProofs, SequenceTheorems

(* The paths of the table, and of calls, differ where they should.         *)
LEMMA Tails ==
    /\ <<"index">> # <<"item">> /\ <<>> # <<"index">> /\ <<>> # <<"item">>
    /\ <<"else">> \notin {<<>>, <<"index">>, <<"item">>}
    /\ Append(<<>>, "index") = <<"index">> /\ Append(<<>>, "item") = <<"item">>
    /\ \A x, y \in {"index", "item", "else"} : Append(<<x>>, y) \notin {<<>>, <<"index">>, <<"item">>}
<1>1. ASSUME NEW x, NEW y
      PROVE  Len(<<x>>) = 1 /\ Len(<<>>) = 0 /\ <<x>>[1] = x /\ Append(<<>>, y) = <<y>>
  OBVIOUS
<1>2. ASSUME NEW x, NEW y PROVE Len(Append(<<x>>, y)) = 2
  <2>1. <<x>> \in Seq({x, y}) /\ y \in {x, y}
    OBVIOUS
  <2> QED BY <1>1, <2>1, AppendProperties
<1>3. Append(<<>>, "index") = <<"index">> /\ Append(<<>>, "item") = <<"item">>
  BY <1>1
<1>4. \A x \in {"index", "item", "else"} : Len(<<x>>) = 1 /\ <<x>>[1] = x /\ <<x>> # <<>>
  BY <1>1
<1>5. <<"index">> # <<"item">> /\ <<"else">> # <<"item">> /\ <<"else">> # <<"index">>
  BY <1>4
<1>6. ASSUME NEW x \in {"index", "item", "else"}, NEW y \in {"index", "item", "else"}
      PROVE  Append(<<x>>, y) \notin {<<>>, <<"index">>, <<"item">>}
  <2>1. Len(Append(<<x>>, y)) = 2 /\ Len(<<>>) = 0
    BY <1>1, <1>2
  <2>2. Len(<<"index">>) = 1 /\ Len(<<"item">>) = 1
    BY <1>1
  <2> QED BY <2>1, <2>2
<1> QED BY <1>3, <1>4, <1>5, <1>6

(* What a request is matched with is what its operation is.                *)
LEMMA OpOfMatch ==
    ASSUME NEW h, NEW t \in Matching(h)
    PROVE  Op(h) = t.op
<1>1. \A u \in Matching(h) : u = t
  BY Tails DEF Matching, Table
<1> QED BY <1>1 DEF Op

LEMMA ServedMatches ==
    ASSUME NEW h, Refusal(h) = "none"
    PROVE  /\ Matching(h) # {}
           /\ Op(h) \in {"store", "index", "item"} => h.body \notin {NoBody, BadBody}
BY DEF Refusal

(* A call that is not turned down is served for what it is.                *)
LEMMA Dispatch ==
    ASSUME NEW c \in ClientCall, Refusal(Sent(c)) = "none"
    PROVE  /\ c.name.tail = <<>>
           /\ RequestOf(Sent(c)) = [op |-> c.op, key |-> Param(c.name.segment), arg |-> c.arg]
<1> DEFINE h == Sent(c)
<1>1. PICK t \in Matching(h) : Op(h) = t.op
  BY ServedMatches, OpOfMatch
<1>2. t \in Table /\ t.method = Method(c.op) /\ t.tail = h.path.tail
  BY <1>1 DEF Matching, Sent
<1>3. c.name.tail \in {<<>>, <<"index">>, <<"item">>, <<"else">>}
  BY DEF ClientCall, Name
<1>4. CASE c.op \in {"store", "load", "delete"}
  <2>1. t.tail = c.name.tail
    BY <1>2, <1>4 DEF Sent
  <2>2. c.name.tail = <<>> /\ t.op = c.op
    <3>1. CASE c.op = "load"
      <4>1. t.op \in {"load", "index", "item"} /\ (t.op = "load" => t.tail = <<>>)
        BY <1>2, <3>1 DEF Table, Method
      <4>2. h.body = NoBody
        BY <3>1 DEF Sent
      <4> QED BY <1>1, <2>1, <3>1, <4>1, <4>2, ServedMatches
    <3>2. CASE c.op \in {"store", "delete"}
      BY <1>2, <2>1, <3>2 DEF Table, Method
    <3> QED BY <1>4, <3>1, <3>2
  <2>3. Option(c.op, h.body) = c.arg
    BY <1>4 DEF Option, Sent, ClientCall
  <2>4. h.path.segment = c.name.segment
    BY <1>4 DEF Sent
  <2> QED BY <1>1, <2>2, <2>3, <2>4 DEF RequestOf
<1>5. CASE c.op \in {"index", "item"}
  <2>1. t.tail = Append(c.name.tail, c.op)
    BY <1>2, <1>5 DEF Sent, ClientCall, Name
  <2>2. t.tail \in {<<>>, <<"index">>, <<"item">>}
    BY <1>2 DEF Table
  <2>3. c.name.tail = <<>>
    BY <1>3, <1>5, <2>1, <2>2, Tails
  <2>4. t.tail = <<c.op>>
    BY <1>5, <2>1, <2>3, Tails
  <2>5. t.op = c.op
    BY <1>2, <1>5, <2>4, Tails DEF Table
  <2>6. Option(c.op, h.body) = c.arg
    BY <1>5 DEF Option, Sent
  <2>7. h.path.segment = c.name.segment
    BY <1>5 DEF Sent, ClientCall, Name
  <2> QED BY <1>1, <2>3, <2>5, <2>6, <2>7 DEF RequestOf
<1> QED BY <1>4, <1>5 DEF ClientCall

(* What a request asks of the store, whoever sent it and whatever for.     *)
LEMMA Asked ==
    ASSUME NEW h, (h \in HTTP \/ \E c \in ClientCall : h = Sent(c)), Refusal(h) = "none"
    PROVE  /\ RequestOf(h).key \in Key \cup {NoKey}
           /\ RequestOf(h).op = "store" => RequestOf(h).arg \in Data
           /\ RequestOf(h).op = "index" => RequestOf(h).arg \in 0..MaxLen
           /\ RequestOf(h).op = "item" => RequestOf(h).arg \in Item \cup {NotAName}
           /\ RequestOf(h).op \in {"load", "delete"} => RequestOf(h).arg = Absent
           /\ RequestOf(h).op \in {"store", "load", "delete", "index", "item"}
           /\ RequestOf(h) = [op |-> RequestOf(h).op, key |-> RequestOf(h).key,
                              arg |-> RequestOf(h).arg]
<1>1. ASSUME NEW seg \in Segment PROVE Param(seg) \in Key \cup {NoKey}
  BY <1>1 DEF Segment, Param
<1>2. CASE h \in HTTP
  <2>1. PICK t \in Matching(h) : Op(h) = t.op
    BY <1>2, ServedMatches, OpOfMatch
  <2>2. t.op \in {"store", "load", "delete", "index", "item"}
    BY DEF Matching, Table
  <2>3. h.path.segment \in Segment
    BY <1>2, <2>1 DEF Matching, HTTP, Name, Segment, NoSegment
  <2>4. h.body.field \notin {"data", "index", "item"}
    <3>1. h.body \in {NoBody, BadBody, NoOptions}
      BY <1>2 DEF HTTP
    <3> QED BY <3>1 DEF NoBody, BadBody, NoOptions
  <2>5. 0 \in 0..MaxLen
    BY MaxLenAssumption
  <2>6. Null \in Data
    BY DEF Data
  <2>7. /\ Op(h) = "store" => Option(Op(h), h.body) = Null
        /\ Op(h) = "index" => Option(Op(h), h.body) = 0
        /\ Op(h) = "item" => Option(Op(h), h.body) = NotAName
        /\ Op(h) \in {"load", "delete"} => Option(Op(h), h.body) = Absent
    BY <2>4 DEF Option
  <2> QED BY <1>1, <2>1, <2>2, <2>3, <2>5, <2>6, <2>7 DEF RequestOf
<1>3. ASSUME NEW c \in ClientCall, h = Sent(c)
      PROVE  /\ RequestOf(h) = [op |-> c.op, key |-> Param(c.name.segment), arg |-> c.arg]
             /\ c.name.segment \in Segment
  <2>1. RequestOf(h) = [op |-> c.op, key |-> Param(c.name.segment), arg |-> c.arg]
    BY <1>3, Dispatch
  <2>2. h.path.segment = c.name.segment
    BY <1>3 DEF Sent, ClientCall, Name
  <2>3. c.name.segment # NoSegment
    BY <2>2, ServedMatches DEF Matching
  <2> QED BY <2>1, <2>3 DEF ClientCall, Name, Segment
<1>4. ASSUME NEW c \in ClientCall, h = Sent(c)
      PROVE  /\ Param(c.name.segment) \in Key \cup {NoKey}
             /\ c.op = "store" => c.arg \in Data
             /\ c.op = "index" => c.arg \in 0..MaxLen
             /\ c.op = "item" => c.arg \in Item \cup {NotAName}
             /\ c.op \in {"load", "delete"} => c.arg = Absent
             /\ c.op \in {"store", "load", "delete", "index", "item"}
  BY <1>1, <1>3, <1>4 DEF ClientCall
<1> QED BY <1>2, <1>3, <1>4

LEMMA AskedIsRequest ==
    ASSUME NEW h, (h \in HTTP \/ \E c \in ClientCall : h = Sent(c)), Refusal(h) = "none",
           NEW k \in Key
    PROVE  [RequestOf(h) EXCEPT !.key = k] \in Request
<1> DEFINE r == RequestOf(h)
<1>1. [r EXCEPT !.key = k] = [op |-> r.op, key |-> k, arg |-> r.arg]
  BY Asked
<1> HIDE DEF r
<1>2. [op |-> r.op, key |-> k, arg |-> r.arg] \in Request
  BY Asked DEF Request, r
<1> QED BY <1>1, <1>2 DEF r

(* Whatever arrives does to the owner what Requests lets it.               *)
LEMMA HandledStep ==
    ASSUME NEW e \in Entry, NEW c, NEW h, h \in HTTP \/ \E d \in ClientCall : h = Sent(d),
           Handle(e, c, h)
    PROVE  [Next]_vars
<1>1. CASE Refuse(e, c, h) \/ ServeUnnamed(e, c, h)
  BY <1>1 DEF Refuse, ServeUnnamed, Next
<1>2. CASE ServeOwned(e, c, h)
  <2> DEFINE r == RequestOf(h)
  <2>1. Refusal(h) = "none" /\ r.key \in Key
    BY <1>2, Asked DEF ServeOwned
  <2>2. [r EXCEPT !.key = r.key] \in Request
    BY <2>1, AskedIsRequest
  <2>3. [r EXCEPT !.key = r.key] = r
    BY DEF RequestOf
  <2>4. r \in Request
    BY <2>2, <2>3
  <2>5. Serve(r) \/ PanicInHTTP(r) \/ PanicInHandler(r) \/ Unreachable(r)
    BY <1>2 DEF ServeOwned
  <2> HIDE DEF r
  <2> QED BY <2>4, <2>5 DEF Next
<1> QED BY <1>1, <1>2 DEF Handle

LEMMA StepRefines == [RestNext]_restVars => [Next]_vars
<1> SUFFICES ASSUME [RestNext]_restVars PROVE [Next]_vars
  OBVIOUS
<1>1. CASE \E e \in Entry, c \in ClientCall : Handle(e, c, Sent(c))
  BY <1>1, HandledStep
<1>2. CASE \E e \in Entry, h \in HTTP : Handle(e, NoCall, h)
  BY <1>2, HandledStep
<1>3. CASE Delivered \/ OwnerRestarts \/ OthersRestart
  BY <1>3 DEF Delivered, OwnerRestarts, OthersRestart, Next
<1>4. CASE UNCHANGED restVars
  BY <1>4 DEF restVars
<1> QED BY <1>1, <1>2, <1>3, <1>4 DEF RestNext

(* Behind the REST service, the owner's keys behave as Requests says.      *)
THEOREM RestRefinesRequests == RestSpec => Spec
<1>1. RestInit => Init
  BY DEF RestInit
<1> QED BY <1>1, StepRefines, PTL DEF RestSpec, Spec

(* A lookup made through the REST service finds what there is.             *)
THEOREM RestLookups == RestSpec => []LookupsAreExact
BY RestRefinesRequests, LookupsFindWhatIsThere, PTL

(* Through the REST service too, only a lookup into a null kills a node.   *)
THEOREM RestOnlyNullKills == RestSpec => OnlyNullIsFatal
BY RestRefinesRequests, OnlyNullLookupsKill, PTL

-----------------------------------------------------------------------------

Outcomes == {"ok", "missing", "conflict", "internal", "panic"}

LEMMA ProcessOutcome ==
    ASSUME NEW d, NEW r, r.op \in {"store", "load", "delete", "index", "item"}
    PROVE  /\ Process(d, r).status \in Outcomes
           /\ r.op \in {"store", "delete"} => Process(d, r).status = "ok"
<1> USE DEF Ok, Error, Panic, Outcomes
<1>1. CASE r.op \in {"store", "delete"}
  BY <1>1 DEF Process
<1>2. CASE r.op = "load"
  BY <1>2 DEF Process, Load
<1>3. CASE r.op = "index"
  BY <1>3 DEF Process, ListIndex
<1>4. CASE r.op = "item"
  BY <1>4 DEF Process, DictItem
<1> QED BY <1>1, <1>2, <1>3, <1>4

(* The status of a request that is not turned down.                        *)
LEMMA ServedStatus ==
    ASSUME NEW e \in Entry, NEW c, NEW h, h \in HTTP \/ \E d \in ClientCall : h = Sent(d),
           ServeUnnamed(e, c, h) \/ ServeOwned(e, c, h)
    PROVE  /\ Refusal(h) = "none"
           /\ call' = [by |-> c, request |-> RequestOf(h), status |-> call'.status]
           /\ call'.status \in {"ok", "missing", "conflict", "internal", "closed", "unreachable"}
<1> DEFINE r == RequestOf(h)
<1>1. Refusal(h) = "none"
  BY DEF ServeUnnamed, ServeOwned
<1>2. r.op \in {"store", "load", "delete", "index", "item"}
  BY <1>1, Asked
<1>3. \A d : Process(d, r).status \in Outcomes
  BY <1>2, ProcessOutcome
<1> HIDE DEF r
<1>4. CASE ServeUnnamed(e, c, h)
  BY <1>1, <1>3, <1>4 DEF ServeUnnamed, Ends, Outcomes, r
<1>5. CASE ServeOwned(e, c, h)
  <2>1. Serve(r) \/ PanicInHTTP(r) \/ PanicInHandler(r) \/ Unreachable(r)
    BY <1>5 DEF ServeOwned, r
  <2>2. last'.reply.status \in {"ok", "missing", "conflict", "internal", "closed", "unreachable"}
    BY <1>3, <2>1 DEF Serve, PanicInHTTP, PanicInHandler, Unreachable, Answers, Error, Outcomes
  <2> QED BY <1>1, <1>5, <2>2 DEF ServeOwned, Ends, r
<1> QED BY <1>4, <1>5

LEMMA RefusedStatus ==
    ASSUME NEW h, Refusal(h) # "none"
    PROVE  Refusal(h) \in Refusals
BY DEF Refusal, Refusals

(* What a client's call ends as.                                           *)
LEMMA CallStep ==
    ASSUME NEW e \in Entry, NEW c \in ClientCall, Handle(e, c, Sent(c))
    PROVE  /\ call'.by = c
           /\ \/ Refusal(Sent(c)) # "none" /\ call'.status \in Refusals
              \/ /\ Refusal(Sent(c)) = "none"
                 /\ call'.status \notin Refusals
                 /\ c.name.tail = <<>>
                 /\ call'.request = [op |-> c.op, key |-> Param(c.name.segment), arg |-> c.arg]
<1>1. CASE Refuse(e, c, Sent(c))
  BY <1>1, RefusedStatus DEF Refuse, Ends
<1>2. CASE ServeUnnamed(e, c, Sent(c)) \/ ServeOwned(e, c, Sent(c))
  <2>1. /\ Refusal(Sent(c)) = "none"
        /\ call' = [by |-> c, request |-> RequestOf(Sent(c)), status |-> call'.status]
        /\ call'.status \in {"ok", "missing", "conflict", "internal", "closed", "unreachable"}
    BY <1>2, ServedStatus
  <2>2. /\ c.name.tail = <<>>
        /\ RequestOf(Sent(c)) = [op |-> c.op, key |-> Param(c.name.segment), arg |-> c.arg]
    BY <2>1, Dispatch
  <2>3. call'.status \notin Refusals
    BY <2>1 DEF Refusals
  <2>4. call'.by = c /\ call'.request = RequestOf(Sent(c))
    BY <2>1
  <2> QED BY <2>1, <2>2, <2>3, <2>4
<1> QED BY <1>1, <1>2 DEF Handle

(* What happens to call, by whom the step is taken.                        *)
LEMMA ByWhom ==
    ASSUME [RestNext]_restVars
    PROVE  \/ \E e \in Entry, c \in ClientCall : Handle(e, c, Sent(c))
           \/ call'.by = NoCall
           \/ UNCHANGED call
<1>1. ASSUME NEW e \in Entry, NEW h \in HTTP, Handle(e, NoCall, h) PROVE call'.by = NoCall
  BY <1>1, ServedStatus DEF Handle, Refuse, Ends
<1> QED BY <1>1 DEF RestNext, Delivered, Idle, OwnerRestarts, OthersRestart, restVars

(* No error of a client's call means that what it asked for was done.      *)
THEOREM SuccessIsWhatWasAsked == RestSpec => []SuccessIsOfTheCall
<1>1. RestInit => SuccessIsOfTheCall
  <2>1. RestInit => call.by = NoCall
    BY DEF RestInit, Idle
  <2> QED BY <2>1 DEF SuccessIsOfTheCall
<1>2. SuccessIsOfTheCall /\ [RestNext]_restVars => SuccessIsOfTheCall'
  <2> SUFFICES ASSUME SuccessIsOfTheCall, [RestNext]_restVars PROVE SuccessIsOfTheCall'
    OBVIOUS
  <2>1. ASSUME NEW e \in Entry, NEW c \in ClientCall, Handle(e, c, Sent(c))
        PROVE  SuccessIsOfTheCall'
    <3> SUFFICES ASSUME call'.status = "ok"
                 PROVE  /\ call'.request.op = c.op /\ call'.request.arg = c.arg
                        /\ c.name.tail = <<>>
                        /\ c.name.segment.form = "plain" => call'.request.key = c.name.segment.text
      BY <2>1, CallStep DEF SuccessIsOfTheCall, NilError
    <3>1. call'.status \notin Refusals
      BY DEF Refusals
    <3>2. /\ c.name.tail = <<>>
          /\ call'.request = [op |-> c.op, key |-> Param(c.name.segment), arg |-> c.arg]
      BY <2>1, <3>1, CallStep
    <3> QED BY <3>2 DEF Param
  <2>2. CASE call'.by = NoCall \/ UNCHANGED call
    BY <2>2 DEF SuccessIsOfTheCall
  <2> QED BY <2>1, <2>2, ByWhom
<1> QED BY <1>1, <1>2, PTL DEF RestSpec

(* A client library call with a whole key is served, never turned down.    *)
THEOREM ClientsAreUnderstood == RestSpec => []ClientIsUnderstood
<1>1. RestInit => ClientIsUnderstood
  <2>1. RestInit => call.by = NoCall
    BY DEF RestInit, Idle
  <2> QED BY <2>1 DEF ClientIsUnderstood
<1>2. ASSUME NEW c \in ClientCall, c.name.tail = <<>>, c.name.segment # NoSegment
      PROVE  Refusal(Sent(c)) = "none"
  <2> DEFINE h == Sent(c)
  <2>1. h.method = Method(c.op) /\ h.path.segment # NoSegment
        /\ h.path.tail = (IF c.op \in {"index", "item"} THEN <<c.op>> ELSE <<>>)
    BY <1>2, Tails DEF Sent, ClientCall, Name
  <2>2. \E t \in Table : t.method = h.method /\ t.tail = h.path.tail /\ t.op = c.op
    BY <2>1 DEF Table, Method, ClientCall
  <2>3. PICK t \in Matching(h) : t.op = c.op
    BY <2>1, <2>2 DEF Matching
  <2>4. h.method \in {u.method : u \in Table} /\ Matching(h) # {}
    BY <2>2, <2>3
  <2>5. Op(h) = c.op
    BY <2>3, OpOfMatch
  <2>6. h.media.type \in Formatters /\ h.media.accept \in Formatters
    BY DEF Sent, Formatters
  <2>7. c.op \in {"store", "index", "item"} => h.body.field \in {"data", "index", "item"}
    BY DEF Sent
  <2>8. c.op \in {"store", "index", "item"} => h.body \notin {NoBody, BadBody}
    BY <2>7 DEF NoBody, BadBody
  <2> HIDE DEF h
  <2> QED BY <2>4, <2>5, <2>6, <2>8 DEF Refusal, h
<1>3. ClientIsUnderstood /\ [RestNext]_restVars => ClientIsUnderstood'
  <2> SUFFICES ASSUME ClientIsUnderstood, [RestNext]_restVars PROVE ClientIsUnderstood'
    OBVIOUS
  <2>1. ASSUME NEW e \in Entry, NEW c \in ClientCall, Handle(e, c, Sent(c))
        PROVE  ClientIsUnderstood'
    BY <1>2, <2>1, CallStep DEF ClientIsUnderstood
  <2>2. CASE call'.by = NoCall \/ UNCHANGED call
    BY <2>2 DEF ClientIsUnderstood
  <2> QED BY <2>1, <2>2, ByWhom
<1> QED BY <1>1, <1>3, PTL DEF RestSpec

-----------------------------------------------------------------------------

RecordsOK == DataOK /\ unnamed \in [Entry -> Data \cup {Absent}]

(* What a failed request leaves; RecordsOK makes the records functions, so *)
(* that a record assigned to itself is no change.                          *)
LEMMA FailedStep ==
    ASSUME RecordsOK, NEW e \in Entry, NEW c, NEW h,
           h \in HTTP \/ \E d \in ClientCall : h = Sent(d), Handle(e, c, h)
    PROVE  /\ (unnamed \in [Entry -> Data \cup {Absent}])'
           /\ ~NilError(call'.status) /\ up' = up => UNCHANGED <<data, unnamed>>
<1> DEFINE r == RequestOf(h)
<1>1. CASE Refuse(e, c, h)
  BY <1>1 DEF Refuse, Elsewhere, RecordsOK
<1>2. ASSUME Refusal(h) = "none"
      PROVE  /\ r.op \in {"store", "load", "delete", "index", "item"}
             /\ r.op = "store" => r.arg \in Data
             /\ r.op = "delete" => r.arg = Absent
             /\ r.key \in Key \cup {NoKey}
  BY <1>2, Asked
<1> HIDE DEF r
<1>3. CASE ServeUnnamed(e, c, h)
  <2>1. Refusal(h) = "none" /\ UNCHANGED data
    BY <1>3 DEF ServeUnnamed, Elsewhere
  <2>2. CASE UNCHANGED unnamed
    BY <2>1, <2>2 DEF RecordsOK
  <2>3. CASE unnamed' = [unnamed EXCEPT ![e] = After(@, r)]
             /\ call'.status = Process(unnamed[e], r).status
    <3>1. After(unnamed[e], r) \in Data \cup {Absent}
      BY <1>2, <2>1 DEF After, RecordsOK
    <3>2. (unnamed \in [Entry -> Data \cup {Absent}])'
      BY <2>3, <3>1 DEF RecordsOK
    <3>3. ASSUME ~NilError(call'.status) PROVE UNCHANGED unnamed
      <4>1. r.op \notin {"store", "delete"}
        BY <1>2, <2>1, <2>3, <3>3, ProcessOutcome DEF NilError
      <4> QED BY <2>3, <4>1 DEF After, RecordsOK
    <3> QED BY <2>1, <3>2, <3>3
  <2> QED BY <1>3, <2>2, <2>3 DEF ServeUnnamed, Ends, r
<1>4. CASE ServeOwned(e, c, h)
  <2>1. /\ Refusal(h) = "none" /\ r.key # NoKey
        /\ Serve(r) \/ PanicInHTTP(r) \/ PanicInHandler(r) \/ Unreachable(r)
        /\ call'.status = last'.reply.status
        /\ unnamed' = IF up /\ ~up' THEN [unnamed EXCEPT !["owner"] = Absent] ELSE unnamed
    BY <1>4 DEF ServeOwned, Ends, r
  <2>2. (unnamed \in [Entry -> Data \cup {Absent}])'
    BY <2>1 DEF RecordsOK
  <2>3. ASSUME ~NilError(call'.status), up' = up PROVE UNCHANGED <<data, unnamed>>
    <3>1. UNCHANGED unnamed
      BY <2>1, <2>3
    <3>2. CASE Serve(r)
      <4>1. r.op \notin {"store", "delete"}
        BY <1>2, <2>1, <2>3, <3>2, ProcessOutcome DEF NilError, Serve, Answers
      <4> QED BY <1>2, <2>1, <3>1, <3>2, <4>1 DEF Serve, After, RecordsOK, DataOK
    <3>3. CASE PanicInHTTP(r) \/ Unreachable(r)
      BY <3>1, <3>3 DEF PanicInHTTP, Unreachable
    <3>4. CASE PanicInHandler(r)
      BY <2>3, <3>4 DEF PanicInHandler
    <3> QED BY <2>1, <3>2, <3>3, <3>4
  <2> QED BY <2>2, <2>3
<1> QED BY <1>1, <1>3, <1>4 DEF Handle

LEMMA RestStep ==
    RecordsOK /\ [RestNext]_restVars =>
        /\ RecordsOK'
        /\ ~NilError(call'.status) /\ up' = up /\ linked' = linked => UNCHANGED <<data, unnamed>>
<1> SUFFICES ASSUME RecordsOK, [RestNext]_restVars
             PROVE  /\ (unnamed \in [Entry -> Data \cup {Absent}])'
                    /\ ~NilError(call'.status) /\ up' = up /\ linked' = linked
                        => UNCHANGED <<data, unnamed>>
  BY DataStep, StepRefines DEF RecordsOK
<1>1. CASE \E e \in Entry, c \in ClientCall : Handle(e, c, Sent(c))
  BY <1>1, FailedStep
<1>2. CASE \E e \in Entry, h \in HTTP : Handle(e, NoCall, h)
  BY <1>2, FailedStep
<1>3. CASE OwnerRestarts
  BY <1>3 DEF OwnerRestarts, Restart, RecordsOK
<1>4. CASE OthersRestart
  <2>1. up /\ ~linked /\ linked' = TRUE
    BY <1>4 DEF OthersRestart, Relink
  <2>2. (unnamed \in [Entry -> Data \cup {Absent}])'
    BY <1>4 DEF OthersRestart, RecordsOK
  <2> QED BY <2>1, <2>2
<1>5. CASE Delivered
  BY <1>5 DEF Delivered, Elsewhere, RecordsOK
<1>6. CASE UNCHANGED restVars
  BY <1>6 DEF restVars, vars, RecordsOK
<1> QED BY <1>1, <1>2, <1>3, <1>4, <1>5, <1>6 DEF RestNext

(* A request that fails, for whatever reason, leaves every record as it    *)
(* was, unless it costs the owner its life.                                *)
THEOREM FailuresChangeNothing == RestSpec => OnlySuccessChanges
<1>1. RestInit => RecordsOK
  BY DEF RestInit, Init, RecordsOK, DataOK
<1>2. RecordsOK /\ [RestNext]_restVars =>
        RecordsOK' /\ [~NilError(call'.status) /\ up' = up /\ linked' = linked
                         => UNCHANGED <<data, unnamed>>]_restVars
  BY RestStep
<1> QED BY <1>1, <1>2, PTL DEF RestSpec, OnlySuccessChanges

(* What reaches a store is a request it knows, whatever is sent.           *)
THEOREM RestTyped == RestSpec => []RestTypeOK
<1> DEFINE CallOK(s) == /\ s.by \in ClientCall \cup {NoCall}
                        /\ \/ s = Idle
                           \/ s.request = NotServed /\ s.status \in Refusals
                           \/ /\ s.request.key \in Key \cup {NoKey}
                              /\ \E k \in Key : [s.request EXCEPT !.key = k] \in Request
                              /\ s.status \in {"ok", "missing", "conflict", "internal", "closed",
                                              "unreachable"}
<1>1. RestTypeOK <=> unnamed \in [Entry -> Data \cup {Absent}] /\ CallOK(call)
  BY DEF RestTypeOK
<1>2. RestInit => CallOK(call)
  BY DEF RestInit, Idle
<1>3. ASSUME NEW e \in Entry, NEW c \in ClientCall \cup {NoCall}, NEW h,
             h \in HTTP \/ \E d \in ClientCall : h = Sent(d), Handle(e, c, h)
      PROVE  CallOK(call')
  <2>1. CASE Refuse(e, c, h)
    BY <1>3, <2>1, RefusedStatus DEF Refuse, Ends
  <2>2. CASE ServeUnnamed(e, c, h) \/ ServeOwned(e, c, h)
    <3> DEFINE r == RequestOf(h)
    <3>1. /\ Refusal(h) = "none"
          /\ call' = [by |-> c, request |-> r, status |-> call'.status]
          /\ call'.status \in {"ok", "missing", "conflict", "internal", "closed", "unreachable"}
      BY <1>3, <2>2, ServedStatus
    <3>2. r.key \in Key \cup {NoKey}
      BY <1>3, <3>1, Asked
    <3>3. PICK k \in Key : TRUE
      BY KeyAssumption
    <3>4. [r EXCEPT !.key = k] \in Request
      BY <1>3, <3>1, AskedIsRequest
    <3> HIDE DEF r
    <3>5. call'.by = c /\ call'.request = r
      BY <3>1
    <3> QED BY <1>3, <3>1, <3>2, <3>4, <3>5
  <2> QED BY <1>3, <2>1, <2>2 DEF Handle
<1> HIDE DEF CallOK
<1>4. CallOK(call) /\ [RestNext]_restVars => CallOK(call')
  <2> SUFFICES ASSUME CallOK(call), [RestNext]_restVars PROVE CallOK(call')
    OBVIOUS
  <2>1. CASE UNCHANGED call
    BY <2>1
  <2>2. CASE \E e \in Entry, c \in ClientCall : Handle(e, c, Sent(c))
    BY <1>3, <2>2
  <2>3. CASE \E e \in Entry, h \in HTTP : Handle(e, NoCall, h)
    BY <1>3, <2>3
  <2>4. CASE Delivered
    BY <2>4 DEF Delivered, Idle, CallOK
  <2> QED BY <2>1, <2>2, <2>3, <2>4 DEF RestNext, OwnerRestarts, OthersRestart, restVars
<1> DEFINE Inv == RecordsOK /\ CallOK(call)
<1>5. RestInit => Inv
  BY <1>2 DEF RestInit, Init, RecordsOK, DataOK
<1>6. Inv /\ [RestNext]_restVars => Inv'
  BY <1>4, RestStep
<1>7. Inv => RestTypeOK
  BY <1>1 DEF RecordsOK
<1> QED BY <1>5, <1>6, <1>7, PTL DEF RestSpec

(* The types of Requests, behind the REST service.                         *)
THEOREM RestRequestsTyped == RestSpec => []TypeOK
BY RestRefinesRequests, RequestsTyped, PTL

=============================================================================
