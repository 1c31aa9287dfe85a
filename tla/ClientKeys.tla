----------------------------- MODULE ClientKeys -----------------------------
(***************************************************************************)
(* Keys of the client library: one goroutine per node of the cluster asks  *)
(* it for its keys, and the caller waits for all of them and concatenates  *)
(* the listings.                                                           *)
(*                                                                         *)
(* All goroutines get the address of the same loop variable, and read it   *)
(* when they run.  The loop overwrites it meanwhile, with no               *)
(* synchronisation, so a goroutine may find the node it was started for,   *)
(* a later one, or the halves of two addresses.                            *)
(*                                                                         *)
(* A node's listing is modelled by the node.  Polling fails when the node  *)
(* is down, or when the address by which it is listed does not serve HTTP, *)
(* as the addresses nodesHandler lists do not: they are those of the       *)
(* listeners for peers, which close a connection they cannot decode        *)
(* (httprest/server.go:332-339, server.go:363-368).                        *)
(***************************************************************************)
EXTENDS Naturals, Sequences, FiniteSets

CONSTANTS Node,                 \* the nodes of the cluster
          Listed,               \* they, in the order they are listed
          HTTPNode,             \* those listed by an address that serves HTTP
          Torn,                 \* an address that is half one and half another
          MaxFailures           \* bound: nodes going down

Goroutine == 1..Len(Listed)

ASSUME ListedAssumption == Listed \in Seq(Node) /\ Listed # <<>>
ASSUME HTTPNodeAssumption == HTTPNode \subseteq Node
ASSUME TornAssumption == Torn \notin Node
ASSUME MaxFailuresAssumption == MaxFailures \in Nat

VARIABLES up,                   \* the nodes that answer
          failures,             \* how often one went down
          pc,                   \* the caller of Keys
          started,              \* iterations of its loop that are done
          copying,              \* the next element is being copied into node
          go,                   \* the goroutines: state, address, outcome
          errs, keys,           \* the channels
          result                \* what Keys has returned

vars == <<up, failures, pc, started, copying, go, errs, keys, result>>

NoResult == [err |-> FALSE, listings |-> <<>>]
Failure == [err |-> TRUE, listings |-> <<>>]

Init == /\ up = Node
        /\ failures = 0
        /\ pc = "nodes"
        /\ started = 0
        /\ copying = FALSE
        /\ go = [g \in Goroutine |-> [pc |-> "new", addr |-> Torn, ok |-> FALSE]]
        /\ errs = <<>>
        /\ keys = <<>>
        /\ result = NoResult

(* GET /v1/nodes answers, or does not. *)
Nodes == /\ pc = "nodes"
         /\ \/ pc' = "loop" /\ UNCHANGED result
            \/ pc' = "returned" /\ result' = Failure
         /\ UNCHANGED <<up, failures, started, copying, go, errs, keys>>

(* The range clause writes the next element over node.                     *)
Copy == /\ pc = "loop"
        /\ started < Len(Listed)
        /\ ~copying
        /\ copying' = TRUE
        /\ UNCHANGED <<up, failures, pc, started, go, errs, keys, result>>

(* Mutant of Go: the goroutine is started ahead of the copy. *)
GoMutant ==
    /\ pc = "loop"
    /\ copying
    /\ copying' = FALSE
    /\ started' = started + 1
    /\ go' = [g \in Goroutine |-> IF g = started + 1 \/ g = started + 2
                                  THEN [go[g] EXCEPT !.pc = IF @ = "new" THEN "read" ELSE @]
                                  ELSE go[g]]
    /\ UNCHANGED <<up, failures, pc, errs, keys, result>>

Go == /\ pc = "loop"
      /\ copying
      /\ copying' = FALSE
      /\ started' = started + 1
      /\ go' = [go EXCEPT ![started + 1].pc = "read"]
      /\ UNCHANGED <<up, failures, pc, errs, keys, result>>

LoopEnds == /\ pc = "loop"
            /\ started = Len(Listed)
            /\ pc' = "wait"
            /\ UNCHANGED <<up, failures, started, copying, go, errs, keys, result>>

(* What node.Addr may read as. *)
Addresses == {Listed[started]} \cup (IF copying THEN {Listed[started + 1], Torn} ELSE {})

(* retrieve builds the URL. *)
Read(g) ==
    /\ go[g].pc = "read"
    /\ \E addr \in Addresses : go' = [go EXCEPT ![g].pc = "poll", ![g].addr = addr]
    /\ UNCHANGED <<up, failures, pc, started, copying, errs, keys, result>>

(* GET /v1/keys. *)
Poll(g) ==
    /\ go[g].pc = "poll"
    /\ go' = [go EXCEPT ![g].pc = "errs", ![g].ok = (go[g].addr \in up \cap HTTPNode)]
    /\ UNCHANGED <<up, failures, pc, started, copying, errs, keys, result>>

(* Mutant of Capacity: the channels have no room for the last outcome. *)
CapacityMutant == Len(Listed) - 1

Capacity == Len(Listed)

SendErr(g) ==
    /\ go[g].pc = "errs"
    /\ Len(errs) < Capacity
    /\ errs' = Append(errs, ~go[g].ok)
    /\ go' = [go EXCEPT ![g].pc = "keys"]
    /\ UNCHANGED <<up, failures, pc, started, copying, keys, result>>

(* The listing, which is empty after an error; then wg.Done. *)
SendKeys(g) ==
    /\ go[g].pc = "keys"
    /\ Len(keys) < Capacity
    /\ keys' = Append(keys, IF go[g].ok THEN go[g].addr ELSE Torn)
    /\ go' = [go EXCEPT ![g].pc = "done"]
    /\ UNCHANGED <<up, failures, pc, started, copying, errs, result>>

(* Mutant of Joined: the goroutines that have not sent are not waited for. *)
JoinedMutant == \A g \in Goroutine : go[g].pc \in {"keys", "done"}

(* wg.Wait is over. *)
Joined == \A g \in Goroutine : go[g].pc = "done"

(* Mutants of Return: only the first outcome counts; the listings are      *)
(* returned along with the error.                                          *)
ReturnFirstMutant ==
    /\ pc = "wait"
    /\ Joined
    /\ pc' = "returned"
    /\ result' = IF Head(errs) THEN Failure ELSE [err |-> FALSE, listings |-> keys]
    /\ UNCHANGED <<up, failures, started, copying, go, errs, keys>>

ReturnBothMutant ==
    /\ pc = "wait"
    /\ Joined
    /\ pc' = "returned"
    /\ result' = [err |-> \E i \in DOMAIN errs : errs[i], listings |-> keys]
    /\ UNCHANGED <<up, failures, started, copying, go, errs, keys>>

(* The channels are closed and read: any error is an error of Keys.        *)
Return ==
    /\ pc = "wait"
    /\ Joined
    /\ pc' = "returned"
    /\ result' = IF \E i \in DOMAIN errs : errs[i]
                 THEN Failure
                 ELSE [err |-> FALSE, listings |-> keys]
    /\ UNCHANGED <<up, failures, started, copying, go, errs, keys>>

-----------------------------------------------------------------------------

Crash(n) ==
    /\ n \in up
    /\ failures < MaxFailures
    /\ failures' = failures + 1
    /\ up' = up \ {n}
    /\ UNCHANGED <<pc, started, copying, go, errs, keys, result>>

Recover(n) ==
    /\ n \in Node \ up
    /\ up' = up \cup {n}
    /\ UNCHANGED <<failures, pc, started, copying, go, errs, keys, result>>

Next == \/ Nodes
        \/ Copy
        \/ Go
        \/ LoopEnds
        \/ \E g \in Goroutine : Read(g)
        \/ \E g \in Goroutine : Poll(g)
        \/ \E g \in Goroutine : SendErr(g)
        \/ \E g \in Goroutine : SendKeys(g)
        \/ Return
        \/ \E n \in Node : Crash(n)
        \/ \E n \in Node : Recover(n)

Spec == Init /\ [][Next]_vars

(* The caller and its goroutines run; a request that is not answered       *)
(* times out.                                                              *)
Fairness == /\ WF_vars(Nodes \/ Copy \/ Go \/ LoopEnds \/ Return)
            /\ \A g \in Goroutine : WF_vars(Read(g) \/ Poll(g) \/ SendErr(g) \/ SendKeys(g))

FairSpec == Spec /\ Fairness

-----------------------------------------------------------------------------

Listing == Seq(Node \cup {Torn})

(* The type invariant.  An error comes without listings, and no listing of *)
(* a failed poll comes without an error.                                   *)
TypeOK ==
    /\ up \subseteq Node
    /\ failures \in 0..MaxFailures
    /\ pc \in {"nodes", "loop", "wait", "returned"}
    /\ started \in 0..Len(Listed)
    /\ copying \in BOOLEAN
    /\ go \in [Goroutine -> [pc   : {"new", "read", "poll", "errs", "keys", "done"},
                             addr : Node \cup {Torn},
                             ok   : BOOLEAN]]
    /\ errs \in Seq(BOOLEAN)
    /\ keys \in Listing
    /\ result \in {Failure} \cup [err : {FALSE}, listings : Seq(Node)]

Succeeded == pc = "returned" /\ ~result.err

(* "This operation is extremly fragile as error on single node causes an   *)
(* error of the whole operation" (client.go:278-279): when Keys succeeds,  *)
(* every goroutine got a listing, and all the listings are in the result,  *)
(* however the goroutines' sends interleave.                               *)
NoErrorIsLost ==
    Succeeded => /\ Len(result.listings) = Len(Listed)
                 /\ \A g \in Goroutine :
                        /\ go[g].ok
                        /\ \E i \in DOMAIN result.listings : result.listings[i] = go[g].addr

(* What the shared variable leaves of the result: the last node of the     *)
(* list is in it, whichever others are missing or come twice.              *)
LastNodeListed ==
    Succeeded => \E i \in DOMAIN result.listings : result.listings[i] = Listed[Len(Listed)]

(* The loop only moves on, so a goroutine gets the keys of the node it was *)
(* started for or of a later one, never of an earlier one.                 *)
OnlyLaterNodes ==
    \A g \in Goroutine : go[g].ok => \E i \in g..Len(Listed) : go[g].addr = Listed[i]

(* Keys returns: no goroutine is stuck with a send, and wg.Wait waits for  *)
(* no goroutine that does not come.                                        *)
KeysReturns == pc = "nodes" ~> pc = "returned"

(* Keys "polls each one in parallel to retrieve the list of keys"          *)
(* (client.go:273-276): when no node fails, the listing of each one is in  *)
(* a result that reports no error.                                         *)
EveryNodeListed ==
    Succeeded /\ failures = 0 =>
        \A n \in Node : \E i \in DOMAIN result.listings : result.listings[i] = n

=============================================================================
