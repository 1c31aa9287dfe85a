-------------------------- MODULE ClientKeysProofs --------------------------
(***************************************************************************)
(* What Keys returns, for any number of nodes, failures and order of the   *)
(* goroutines' steps.                                                      *)
(***************************************************************************)
EXTENDS ClientKeys, TLAPS, FiniteSetTheorems, SequenceTheorems

Last == Len(Listed)

Entries == [pc   : {"new", "read", "poll", "errs", "keys", "done"},
            addr : Node \cup {Torn},
            ok   : BOOLEAN]

HasRead == {"poll", "errs", "keys", "done"}

Types == /\ up \subseteq Node
         /\ failures \in 0..MaxFailures
         /\ pc \in {"nodes", "loop", "wait", "returned"}
         /\ started \in 0..Last
         /\ copying \in BOOLEAN
         /\ go \in [Goroutine -> Entries]
         /\ errs \in Seq(BOOLEAN)
         /\ keys \in Seq(Node \cup {Torn})

(* How far the loop is, and the goroutines that are started.               *)
Loop == /\ copying => started < Last
        /\ pc = "wait" => started = Last
        /\ \A g \in Goroutine : go[g].pc # "new" => g <= started

(* What a goroutine has read.                                              *)
Heard == \A g \in Goroutine :
             /\ go[g].pc \in HasRead => \/ \E i \in g..Last : go[g].addr = Listed[i]
                                        \/ (go[g].addr = Torn /\ g < Last)
             /\ go[g].ok => go[g].pc \in {"errs", "keys", "done"} /\ go[g].addr # Torn

(* What the channels have of it.                                           *)
Told == /\ \A g \in Goroutine : go[g].pc \in {"keys", "done"} /\ ~go[g].ok =>
                                    \E i \in DOMAIN errs : errs[i]
        /\ \A g \in Goroutine : go[g].pc = "done" /\ go[g].ok =>
                                    \E i \in DOMAIN keys : keys[i] = go[g].addr
        /\ \A i \in DOMAIN keys : keys[i] = Torn => \E j \in DOMAIN errs : errs[j]
        /\ Len(keys) = Cardinality({g \in Goroutine : go[g].pc = "done"})

(* What the caller makes of it.                                            *)
Returned == /\ pc # "returned" => result = NoResult
            /\ pc = "returned" => \/ result = Failure
                                  \/ /\ result = [err |-> FALSE, listings |-> keys]
                                     /\ Joined
                                     /\ \A i \in DOMAIN errs : ~errs[i]

IInv == Types /\ Loop /\ Heard /\ Told /\ Returned

LEMMA Facts == /\ Last \in Nat /\ Last > 0
               /\ Goroutine = 1..Last
               /\ \A i \in 1..Last : Listed[i] \in Node /\ Listed[i] # Torn
<1>1. Listed \in Seq(Node) /\ Listed # <<>>
  BY ListedAssumption
<1>2. Last \in Nat /\ Last > 0
  BY <1>1, EmptySeq DEF Last
<1>3. \A i \in 1..Last : Listed[i] \in Node
  BY <1>1 DEF Last
<1> QED BY <1>2, <1>3, TornAssumption DEF Goroutine, Last

LEMMA InitOK == Init => IInv
<1> SUFFICES ASSUME Init PROVE IInv
  OBVIOUS
<1> USE Facts DEF Init
<1>1. Types
  <2>1. go \in [Goroutine -> Entries]
    BY DEF Entries
  <2>2. errs \in Seq(BOOLEAN) /\ keys \in Seq(Node \cup {Torn})
    OBVIOUS
  <2>3. failures \in 0..MaxFailures /\ started \in 0..Last
    BY MaxFailuresAssumption
  <2>4. copying \in BOOLEAN
    BY Zenon
  <2> QED BY <2>1, <2>2, <2>3, <2>4 DEF Types
<1>2. Loop
  BY DEF Loop
<1>3. Heard
  BY DEF Heard, HasRead
<1>4. Told
  <2>1. {g \in Goroutine : go[g].pc = "done"} = {}
    OBVIOUS
  <2>2. Len(keys) = 0 /\ DOMAIN keys = {}
    OBVIOUS
  <2>3. Cardinality({g \in Goroutine : go[g].pc = "done"}) = 0
    BY <2>1, FS_EmptySet
  <2>4. \A g \in Goroutine : go[g].pc = "new"
    OBVIOUS
  <2> QED BY <2>2, <2>3, <2>4 DEF Told
<1>5. Returned
  BY DEF Returned
<1> QED BY <1>1, <1>2, <1>3, <1>4, <1>5 DEF IInv

(* The caller's steps.                                                     *)
LEMMA CallerStep ==
    ASSUME IInv, Nodes \/ Copy \/ Go \/ LoopEnds \/ Return
    PROVE  IInv'
<1> USE Facts
<1>1. CASE Nodes
  <2>1. pc = "nodes" /\ UNCHANGED <<up, failures, started, copying, go, errs, keys>>
        /\ ((pc' = "loop" /\ UNCHANGED result) \/ (pc' = "returned" /\ result' = Failure))
    BY <1>1 DEF Nodes
  <2>2. Types' /\ Heard' /\ Told'
    BY <2>1 DEF IInv, Types, Heard, Told
  <2>3. Loop'
    BY <2>1 DEF IInv, Loop
  <2>4. Returned'
    BY <2>1 DEF IInv, Returned
  <2> QED BY <2>2, <2>3, <2>4 DEF IInv
<1>2. CASE Copy
  BY <1>2 DEF Copy, IInv, Types, Loop, Heard, Told, Returned, Joined, Last
<1>3. CASE Go
  <2> DEFINE s == started + 1
  <2>1. s \in Goroutine /\ go[s].pc = "new" /\ ~go[s].ok
    BY <1>3 DEF Go, IInv, Loop, Types, Heard, Entries
  <2>2. go' = [go EXCEPT ![s].pc = "read"] /\ go \in [Goroutine -> Entries]
    BY <1>3 DEF Go, IInv, Types
  <2>3. \A g \in Goroutine : /\ g # s => go'[g] = go[g]
                             /\ go'[s].pc = "read" /\ go'[s].ok = go[s].ok
    BY <2>1, <2>2 DEF Entries
  <2>4. {g \in Goroutine : go'[g].pc = "done"} = {g \in Goroutine : go[g].pc = "done"}
    BY <2>1, <2>3
  <2>5. Types'
    <3>1. go' \in [Goroutine -> Entries]
      BY <2>1, <2>2 DEF Entries
    <3>2. started' \in 0..Last
      BY <1>3 DEF Go, IInv, Types, Loop
    <3>3. copying' \in BOOLEAN
      BY <1>3, Zenon DEF Go
    <3> QED BY <1>3, <3>1, <3>2, <3>3 DEF Go, IInv, Types
  <2>6. Loop'
    BY <1>3, <2>1, <2>3 DEF Go, IInv, Types, Loop
  <2>7. Heard'
    BY <2>1, <2>3 DEF IInv, Heard, HasRead
  <2>8. Told'
    <3>1. \A g \in Goroutine : go'[g].pc \in {"keys", "done"} => go'[g] = go[g]
      BY <2>3
    <3>2. UNCHANGED <<errs, keys>> /\ Told
      BY <1>3 DEF Go, IInv
    <3>3. Len(keys') = Cardinality({g \in Goroutine : go'[g].pc = "done"})
      BY <2>4, <3>2 DEF Told
    <3> QED BY <3>1, <3>2, <3>3 DEF Told
  <2>9. Returned'
    BY <1>3 DEF Go, IInv, Returned
  <2> QED BY <2>5, <2>6, <2>7, <2>8, <2>9 DEF IInv
<1>4. CASE LoopEnds
  BY <1>4 DEF LoopEnds, IInv, Types, Loop, Heard, Told, Returned, Last
<1>5. CASE Return
  <2>1. Types' /\ Loop' /\ Heard' /\ Told'
    BY <1>5 DEF Return, IInv, Types, Loop, Heard, Told
  <2>2. Returned'
    BY <1>5 DEF Return, Returned, Joined
  <2> QED BY <2>1, <2>2 DEF IInv
<1> QED BY <1>1, <1>2, <1>3, <1>4, <1>5

(* A goroutine's steps; the others keep what they have.                    *)
LEMMA ReadStep ==
    ASSUME IInv, NEW g \in Goroutine, Read(g)
    PROVE  IInv'
<1> USE Facts
<1>1. PICK addr \in Addresses : go' = [go EXCEPT ![g].pc = "poll", ![g].addr = addr]
  BY DEF Read
<1>2. go \in [Goroutine -> Entries] /\ go[g].pc = "read" /\ ~go[g].ok
      /\ UNCHANGED <<up, failures, pc, started, copying, errs, keys, result>>
  BY DEF Read, IInv, Types, Heard, Entries
<1>3. g <= started /\ started <= Last /\ (copying => started < Last) /\ started \in Nat
  BY <1>2 DEF IInv, Types, Loop
<1>4. \/ \E i \in g..Last : addr = Listed[i]
      \/ (addr = Torn /\ g < Last)
  <2>1. CASE addr = Listed[started]
    BY <1>3, <2>1
  <2>2. CASE copying /\ (addr = Listed[started + 1] \/ addr = Torn)
    BY <1>3, <2>2
  <2> QED BY <2>1, <2>2 DEF Addresses
<1>5. addr \in Node \cup {Torn}
  BY <1>4
<1>6. /\ go'[g] = [go[g] EXCEPT !.pc = "poll", !.addr = addr]
      /\ \A h \in Goroutine : h # g => go'[h] = go[h]
  BY <1>1, <1>2
<1>7. go'[g].pc = "poll" /\ go'[g].addr = addr /\ go'[g].ok = go[g].ok /\ go'[g] \in Entries
  BY <1>2, <1>5, <1>6 DEF Entries
<1>8. go' \in [Goroutine -> Entries]
  BY <1>1, <1>2, <1>6, <1>7
<1>9. Types' /\ Loop'
  BY <1>2, <1>3, <1>6, <1>8 DEF IInv, Types, Loop
<1>10. Heard'
  <2>1. ASSUME NEW h \in Goroutine, h # g
        PROVE  /\ go'[h].pc \in HasRead => \/ \E i \in h..Last : go'[h].addr = Listed[i]
                                           \/ (go'[h].addr = Torn /\ h < Last)
               /\ go'[h].ok => go'[h].pc \in {"errs", "keys", "done"} /\ go'[h].addr # Torn
    BY <1>6, <2>1 DEF IInv, Heard
  <2>2. /\ \/ \E i \in g..Last : go'[g].addr = Listed[i]
           \/ (go'[g].addr = Torn /\ g < Last)
        /\ ~go'[g].ok
    BY <1>2, <1>4, <1>7
  <2> QED BY <2>1, <2>2 DEF Heard
<1>11. {h \in Goroutine : go'[h].pc = "done"} = {h \in Goroutine : go[h].pc = "done"}
  BY <1>2, <1>6, <1>7
<1>12. \A h \in Goroutine : go'[h].pc \in {"keys", "done"} => go'[h] = go[h]
  BY <1>6, <1>7
<1>13. Told'
  <2>1. Len(keys') = Cardinality({h \in Goroutine : go'[h].pc = "done"})
    BY <1>2, <1>11 DEF IInv, Told
  <2> QED BY <1>2, <1>12, <2>1 DEF IInv, Told
<1>14. Returned'
  BY <1>2, <1>6 DEF IInv, Returned, Joined
<1> QED BY <1>9, <1>10, <1>13, <1>14 DEF IInv

LEMMA PollStep ==
    ASSUME IInv, NEW g \in Goroutine, Poll(g)
    PROVE  IInv'
<1> USE Facts
<1> DEFINE good == go[g].addr \in up \cap HTTPNode
<1>1. go' = [go EXCEPT ![g].pc = "errs", ![g].ok = good]
  BY DEF Poll
<1>2. go \in [Goroutine -> Entries] /\ go[g].pc = "poll"
      /\ UNCHANGED <<up, failures, pc, started, copying, errs, keys, result>>
  BY DEF Poll, IInv, Types
<1>3. good \in BOOLEAN /\ (good => go[g].addr # Torn)
  BY TornAssumption DEF IInv, Types
<1> HIDE DEF good
<1>4. /\ go'[g] = [go[g] EXCEPT !.pc = "errs", !.ok = good]
      /\ \A h \in Goroutine : h # g => go'[h] = go[h]
  BY <1>1, <1>2
<1>5. go'[g].pc = "errs" /\ go'[g].addr = go[g].addr /\ go'[g].ok = good /\ go'[g] \in Entries
  BY <1>2, <1>3, <1>4 DEF Entries
<1>6. go' \in [Goroutine -> Entries]
  BY <1>1, <1>2, <1>4, <1>5
<1>7. Types' /\ Loop'
  BY <1>2, <1>4, <1>6 DEF IInv, Types, Loop
<1>8. Heard'
  <2>1. ASSUME NEW h \in Goroutine, h # g
        PROVE  /\ go'[h].pc \in HasRead => \/ \E i \in h..Last : go'[h].addr = Listed[i]
                                           \/ (go'[h].addr = Torn /\ h < Last)
               /\ go'[h].ok => go'[h].pc \in {"errs", "keys", "done"} /\ go'[h].addr # Torn
    BY <1>4, <2>1 DEF IInv, Heard
  <2>2. /\ \/ \E i \in g..Last : go'[g].addr = Listed[i]
           \/ (go'[g].addr = Torn /\ g < Last)
        /\ go'[g].ok => go'[g].addr # Torn
    BY <1>2, <1>3, <1>5 DEF IInv, Heard, HasRead
  <2> QED BY <1>5, <2>1, <2>2 DEF Heard
<1>9. {h \in Goroutine : go'[h].pc = "done"} = {h \in Goroutine : go[h].pc = "done"}
  BY <1>2, <1>4, <1>5
<1>10. \A h \in Goroutine : go'[h].pc \in {"keys", "done"} => go'[h] = go[h]
  BY <1>4, <1>5
<1>11. Told'
  <2>1. Len(keys') = Cardinality({h \in Goroutine : go'[h].pc = "done"})
    BY <1>2, <1>9 DEF IInv, Told
  <2> QED BY <1>2, <1>10, <2>1 DEF IInv, Told
<1>12. Returned'
  BY <1>2, <1>4 DEF IInv, Returned, Joined
<1> QED BY <1>7, <1>8, <1>11, <1>12 DEF IInv

LEMMA SendErrStep ==
    ASSUME IInv, NEW g \in Goroutine, SendErr(g)
    PROVE  IInv'
<1> USE Facts
<1>1. go' = [go EXCEPT ![g].pc = "keys"] /\ errs' = Append(errs, ~go[g].ok)
  BY DEF SendErr
<1>2. go \in [Goroutine -> Entries] /\ go[g].pc = "errs" /\ errs \in Seq(BOOLEAN)
      /\ UNCHANGED <<up, failures, pc, started, copying, keys, result>>
  BY DEF SendErr, IInv, Types
<1>3. /\ go'[g] = [go[g] EXCEPT !.pc = "keys"]
      /\ \A h \in Goroutine : h # g => go'[h] = go[h]
  BY <1>1, <1>2
<1>4. go'[g].pc = "keys" /\ go'[g].addr = go[g].addr /\ go'[g].ok = go[g].ok /\ go'[g] \in Entries
  BY <1>2, <1>3 DEF Entries
<1>5. go' \in [Goroutine -> Entries]
  BY <1>1, <1>2, <1>3, <1>4
<1>6. (~go[g].ok) \in BOOLEAN
  BY Zenon
<1>7. /\ errs' \in Seq(BOOLEAN) /\ Len(errs') = Len(errs) + 1
      /\ \A i \in 1..Len(errs) : errs'[i] = errs[i]
      /\ errs'[Len(errs) + 1] = ~go[g].ok
  BY <1>1, <1>2, <1>6, AppendProperties
<1>8. DOMAIN errs = 1..Len(errs) /\ DOMAIN errs' = 1..(Len(errs) + 1) /\ Len(errs) \in Nat
  BY <1>2, <1>7
<1>9. Types' /\ Loop'
  BY <1>2, <1>3, <1>5, <1>7 DEF IInv, Types, Loop
<1>10. Heard'
  <2>1. ASSUME NEW h \in Goroutine, h # g
        PROVE  /\ go'[h].pc \in HasRead => \/ \E i \in h..Last : go'[h].addr = Listed[i]
                                           \/ (go'[h].addr = Torn /\ h < Last)
               /\ go'[h].ok => go'[h].pc \in {"errs", "keys", "done"} /\ go'[h].addr # Torn
    BY <1>3, <2>1 DEF IInv, Heard
  <2>2. /\ \/ \E i \in g..Last : go'[g].addr = Listed[i]
           \/ (go'[g].addr = Torn /\ g < Last)
        /\ go'[g].ok => go'[g].addr # Torn
    BY <1>2, <1>4 DEF IInv, Heard, HasRead
  <2> QED BY <1>4, <2>1, <2>2 DEF Heard
<1>11. {h \in Goroutine : go'[h].pc = "done"} = {h \in Goroutine : go[h].pc = "done"}
  BY <1>2, <1>3, <1>4
<1>12. (\E i \in DOMAIN errs : errs[i]) => \E i \in DOMAIN errs' : errs'[i]
  BY <1>7, <1>8
<1>13. Told'
  <2>1. Len(keys') = Cardinality({h \in Goroutine : go'[h].pc = "done"})
    BY <1>2, <1>11 DEF IInv, Told
  <2>2. ASSUME NEW h \in Goroutine, go'[h].pc \in {"keys", "done"}, ~go'[h].ok
        PROVE  \E i \in DOMAIN errs' : errs'[i]
    <3>1. CASE h = g
      BY <1>4, <1>7, <1>8, <2>2, <3>1
    <3>2. CASE h # g
      BY <1>3, <1>12, <2>2, <3>2 DEF IInv, Told
    <3> QED BY <3>1, <3>2
  <2>3. ASSUME NEW h \in Goroutine, go'[h].pc = "done", go'[h].ok
        PROVE  \E i \in DOMAIN keys' : keys'[i] = go'[h].addr
    <3>1. h # g /\ go[h].pc = "done" /\ go[h].ok /\ go'[h].addr = go[h].addr
      BY <1>3, <1>4, <2>3
    <3>2. \E i \in DOMAIN keys : keys[i] = go[h].addr
      BY <3>1 DEF IInv, Told
    <3>3. keys' = keys
      BY <1>2
    <3> QED BY <3>1, <3>2, <3>3
  <2>4. \A i \in DOMAIN keys' : keys'[i] = Torn => \E j \in DOMAIN errs' : errs'[j]
    BY <1>2, <1>12 DEF IInv, Told
  <2> QED BY <2>1, <2>2, <2>3, <2>4 DEF Told
<1>14. Returned'
  <2>1. ~Joined
    BY <1>2 DEF Joined
  <2> QED BY <1>2, <2>1 DEF IInv, Returned
<1> QED BY <1>9, <1>10, <1>13, <1>14 DEF IInv

LEMMA SendKeysStep ==
    ASSUME IInv, NEW g \in Goroutine, SendKeys(g)
    PROVE  IInv'
<1> USE Facts
<1> DEFINE sent == IF go[g].ok THEN go[g].addr ELSE Torn
<1>1. go' = [go EXCEPT ![g].pc = "done"] /\ keys' = Append(keys, sent)
  BY DEF SendKeys
<1>2. go \in [Goroutine -> Entries] /\ go[g].pc = "keys" /\ keys \in Seq(Node \cup {Torn})
      /\ UNCHANGED <<up, failures, pc, started, copying, errs, result>>
  BY DEF SendKeys, IInv, Types
<1>3. /\ go'[g] = [go[g] EXCEPT !.pc = "done"]
      /\ \A h \in Goroutine : h # g => go'[h] = go[h]
  BY <1>1, <1>2
<1>4. go'[g].pc = "done" /\ go'[g].addr = go[g].addr /\ go'[g].ok = go[g].ok /\ go'[g] \in Entries
  BY <1>2, <1>3 DEF Entries
<1>5. go' \in [Goroutine -> Entries]
  BY <1>1, <1>2, <1>3, <1>4
<1>6. sent \in Node \cup {Torn} /\ (go[g].ok => sent = go[g].addr) /\ (sent = Torn => ~go[g].ok)
  BY <1>2 DEF Entries, IInv, Heard
<1> HIDE DEF sent
<1>7. /\ keys' \in Seq(Node \cup {Torn}) /\ Len(keys') = Len(keys) + 1
      /\ \A i \in 1..Len(keys) : keys'[i] = keys[i]
      /\ keys'[Len(keys) + 1] = sent
  BY <1>1, <1>2, <1>6, AppendProperties
<1>8. DOMAIN keys = 1..Len(keys) /\ DOMAIN keys' = 1..(Len(keys) + 1) /\ Len(keys) \in Nat
  BY <1>2, <1>7
<1>9. Types' /\ Loop'
  BY <1>2, <1>3, <1>5, <1>7 DEF IInv, Types, Loop
<1>10. Heard'
  <2>1. ASSUME NEW h \in Goroutine, h # g
        PROVE  /\ go'[h].pc \in HasRead => \/ \E i \in h..Last : go'[h].addr = Listed[i]
                                           \/ (go'[h].addr = Torn /\ h < Last)
               /\ go'[h].ok => go'[h].pc \in {"errs", "keys", "done"} /\ go'[h].addr # Torn
    BY <1>3, <2>1 DEF IInv, Heard
  <2>2. /\ \/ \E i \in g..Last : go'[g].addr = Listed[i]
           \/ (go'[g].addr = Torn /\ g < Last)
        /\ go'[g].ok => go'[g].addr # Torn
    BY <1>2, <1>4 DEF IInv, Heard, HasRead
  <2> QED BY <1>4, <2>1, <2>2 DEF Heard
<1>11. Told'
  <2> DEFINE D == {h \in Goroutine : go[h].pc = "done"}
  <2>1. {h \in Goroutine : go'[h].pc = "done"} = D \cup {g}
    BY <1>3, <1>4
  <2>2. IsFiniteSet(D) /\ g \notin D
    <3>1. IsFiniteSet(1..Last)
      BY FS_Interval
    <3>2. D \subseteq 1..Last
      OBVIOUS
    <3>3. IsFiniteSet(D)
      BY <3>1, <3>2, FS_Subset
    <3> QED BY <1>2, <3>3
  <2>3. Cardinality(D \cup {g}) = Cardinality(D) + 1
    BY <2>2, FS_AddElement
  <2>4. Len(keys') = Cardinality({h \in Goroutine : go'[h].pc = "done"})
    BY <1>7, <2>1, <2>3 DEF IInv, Told
  <2>5. ASSUME NEW h \in Goroutine, go'[h].pc \in {"keys", "done"}, ~go'[h].ok
        PROVE  \E i \in DOMAIN errs' : errs'[i]
    BY <1>2, <1>3, <1>4, <2>5 DEF IInv, Told
  <2>6. ASSUME NEW h \in Goroutine, go'[h].pc = "done", go'[h].ok
        PROVE  \E i \in DOMAIN keys' : keys'[i] = go'[h].addr
    <3>1. CASE h = g
      BY <1>4, <1>6, <1>7, <1>8, <2>6, <3>1
    <3>2. CASE h # g
      <4>1. PICK i \in DOMAIN keys : keys[i] = go[h].addr
        BY <1>3, <2>6, <3>2 DEF IInv, Told
      <4> QED BY <1>3, <1>7, <1>8, <3>2, <4>1
    <3> QED BY <3>1, <3>2
  <2>7. ASSUME NEW i \in DOMAIN keys', keys'[i] = Torn
        PROVE  \E j \in DOMAIN errs' : errs'[j]
    <3>1. CASE i \in DOMAIN keys
      BY <1>2, <1>7, <1>8, <2>7, <3>1 DEF IInv, Told
    <3>2. CASE i = Len(keys) + 1
      BY <1>2, <1>6, <1>7, <2>7, <3>2 DEF IInv, Told
    <3> QED BY <1>8, <3>1, <3>2
  <2> QED BY <2>4, <2>5, <2>6, <2>7 DEF Told
<1>12. Returned'
  <2>1. ~Joined
    BY <1>2 DEF Joined
  <2>2. result = NoResult \/ result = Failure
    BY <2>1 DEF IInv, Returned
  <2> QED BY <1>2, <2>1, <2>2 DEF IInv, Returned
<1> QED BY <1>9, <1>10, <1>11, <1>12 DEF IInv

(* Nodes that go down and come up.                                         *)
LEMMA NodeStep ==
    ASSUME IInv, NEW n \in Node, Crash(n) \/ Recover(n)
    PROVE  IInv'
<1>1. UNCHANGED <<pc, started, copying, go, errs, keys, result>>
  BY DEF Crash, Recover
<1>2. Types'
  <2>1. up' \subseteq Node /\ failures' \in 0..MaxFailures
    BY MaxFailuresAssumption DEF Crash, Recover, IInv, Types
  <2> QED BY <1>1, <2>1 DEF IInv, Types
<1>3. Loop' /\ Heard' /\ Told' /\ Returned'
  BY <1>1 DEF IInv, Loop, Heard, Told, Returned, Joined
<1> QED BY <1>2, <1>3 DEF IInv

LEMMA Inductive == IInv /\ [Next]_vars => IInv'
<1> SUFFICES ASSUME IInv, [Next]_vars PROVE IInv'
  OBVIOUS
<1>1. CASE UNCHANGED vars
  BY <1>1 DEF vars, IInv, Types, Loop, Heard, Told, Returned, Joined
<1> QED
  BY <1>1, CallerStep, ReadStep, PollStep, SendErrStep, SendKeysStep, NodeStep DEF Next

LEMMA IInvHolds == Spec => []IInv
BY InitOK, Inductive, PTL DEF Spec

(* The results of Keys have their types; in particular no result without   *)
(* an error holds a listing that was not got.                              *)
THEOREM KeysTyped == Spec => []TypeOK
<1>1. IInv => TypeOK
  <2> SUFFICES ASSUME IInv PROVE TypeOK
    OBVIOUS
  <2>1. result \in {Failure} \cup [err : {FALSE}, listings : Seq(Node)]
    <3>1. CASE result = NoResult \/ result = Failure
      <4>1. <<>> \in Seq(Node)
        OBVIOUS
      <4>2. NoResult \in [err : {FALSE}, listings : Seq(Node)]
        BY <4>1 DEF NoResult
      <4> QED BY <3>1, <4>2
    <3>2. CASE /\ result = [err |-> FALSE, listings |-> keys]
               /\ \A i \in DOMAIN errs : ~errs[i]
      <4>1. \A i \in 1..Len(keys) : keys[i] \in Node
        BY <3>2 DEF IInv, Types, Told
      <4>2. keys \in Seq(Node)
        BY <4>1, SeqDef DEF IInv, Types
      <4> QED BY <3>2, <4>2
    <3>3. \/ result = NoResult \/ result = Failure
          \/ (/\ result = [err |-> FALSE, listings |-> keys]
              /\ \A i \in DOMAIN errs : ~errs[i])
      BY DEF IInv, Returned
    <3> QED BY <3>1, <3>2, <3>3
  <2> QED BY <2>1 DEF IInv, Types, TypeOK, Entries, Last, Listing
<1> QED BY <1>1, IInvHolds, PTL

(* No error of a goroutine gets lost on its way to the caller.             *)
THEOREM ErrorsReported == Spec => []NoErrorIsLost
<1>1. IInv => NoErrorIsLost
  <2> SUFFICES ASSUME IInv, Succeeded PROVE NoErrorIsLost
    BY DEF NoErrorIsLost
  <2>1. /\ result = [err |-> FALSE, listings |-> keys] /\ Joined
        /\ \A i \in DOMAIN errs : ~errs[i]
    BY DEF Succeeded, IInv, Returned, Failure
  <2>2. \A g \in Goroutine : go[g].pc = "done" /\ go[g].ok
    BY <2>1 DEF Joined, IInv, Told
  <2>3. {g \in Goroutine : go[g].pc = "done"} = 1..Last
    BY <2>2, Facts
  <2>4. Cardinality(1..Last) = Last
    BY Facts, FS_Interval
  <2>5. Len(keys) = Last
    BY <2>3, <2>4 DEF IInv, Told
  <2> QED BY <2>1, <2>2, <2>5 DEF IInv, Told, NoErrorIsLost, Last
<1> QED BY <1>1, IInvHolds, PTL

(* A goroutine gets the keys of its node or of a later one.                *)
THEOREM LaterNodes == Spec => []OnlyLaterNodes
<1>1. IInv => OnlyLaterNodes
  BY DEF IInv, Heard, HasRead, OnlyLaterNodes, Last
<1> QED BY <1>1, IInvHolds, PTL

(* The last node of the list is never missing from a result.               *)
THEOREM LastListed == Spec => []LastNodeListed
<1>1. IInv => LastNodeListed
  <2> SUFFICES ASSUME IInv, Succeeded
               PROVE  \E i \in DOMAIN keys : keys[i] = Listed[Last] /\ result.listings = keys
    BY DEF LastNodeListed, Last
  <2>1. /\ result = [err |-> FALSE, listings |-> keys] /\ Joined
        /\ \A i \in DOMAIN errs : ~errs[i]
    BY DEF Succeeded, IInv, Returned, Failure
  <2>2. Last \in Goroutine
    BY Facts
  <2>3. go[Last].pc = "done" /\ go[Last].ok
    BY <2>1, <2>2 DEF Joined, IInv, Told
  <2>4. \E i \in Last..Last : go[Last].addr = Listed[i]
    BY <2>2, <2>3 DEF IInv, Heard, HasRead
  <2>5. go[Last].addr = Listed[Last]
    BY <2>4, Facts
  <2> QED BY <2>1, <2>2, <2>3, <2>5 DEF IInv, Told
<1> QED BY <1>1, IInvHolds, PTL

=============================================================================
