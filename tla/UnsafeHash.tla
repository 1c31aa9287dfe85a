----------------------------- MODULE UnsafeHash -----------------------------
(***************************************************************************)
(* The hash table of container/hash: a map of records plus a lazily        *)
(* rebuilt list of its keys.  This is a data structure, not a process: the *)
(* module gives one action operator per method and no next-state relation; *)
(* the store instantiates it and calls the methods under its own lock.     *)
(*                                                                         *)
(* A record is its metadata; the payload (Data) is abstracted away, since  *)
(* no decision of the table or of the store reads it.  A missing key maps  *)
(* to ZeroRecord, which is what a Go map returns for it.  The key list is  *)
(* abstracted to the set of its elements here: its order, its duplicates   *)
(* and its sharing with callers are the subject of KeyListing.             *)
(***************************************************************************)
EXTENDS Integers

CONSTANT Key                    \* the keys clients use

VARIABLES records,              \* h.records: what is stored under each key
          keys,                 \* h.keys, as a set
          dirty                 \* h.dirty: the key list needs a rebuild

hashVars == <<records, keys, dirty>>

ZeroTime == 0                   \* the clock starts after it

ZeroRecord == [index    |-> 0,
               expire   |-> 0,
               accessed |-> ZeroTime,
               created  |-> ZeroTime,
               updated  |-> ZeroTime]

IsPermanent(rec) == rec.expire <= 0

ExpiresAt(rec) == rec.created + rec.expire

(* Mutant of IsExpired: forgets that a permanent record does not expire. *)
IsExpiredMutant(rec, now) == now - rec.created > rec.expire

IsExpired(rec, now) == ~IsPermanent(rec) /\ now - rec.created > rec.expire

\* The keys that have a record: a stored record has been updated at least once.
Stored == {k \in Key : records[k].index > 0}

-----------------------------------------------------------------------------

Init == /\ records = [k \in Key |-> ZeroRecord]
        /\ keys = {}
        /\ dirty = FALSE

(* The list is rebuilt only when a deletion made it dirty. *)
Keys == /\ keys' = IF dirty THEN Stored ELSE keys
        /\ dirty' = FALSE
        /\ UNCHANGED records

(* What Load hands to its caller: a copy of the record, with a fresh       *)
(* access time.  The table keeps the original.                             *)
Loaded(k, now) == [records[k] EXCEPT !.accessed = now]

(* Mutant of Updated: a store prolongs the time to live of the record. *)
UpdatedMutant(k, ttl, now) ==
    [index    |-> records[k].index + 1,
     expire   |-> records[k].expire + ttl,
     accessed |-> records[k].accessed,
     created  |-> IF k \in Stored THEN records[k].created ELSE now,
     updated  |-> now]

(* The record Store leaves under k: an update keeps the creation time of   *)
(* the record it replaces, an insertion sets it.                           *)
Updated(k, ttl, now) ==
    [index    |-> records[k].index + 1,
     expire   |-> ttl,
     accessed |-> records[k].accessed,
     created  |-> IF k \in Stored THEN records[k].created ELSE now,
     updated  |-> now]

Store(k, ttl, now) ==
    /\ keys' = IF dirty THEN keys ELSE keys \cup {k}
    /\ records' = [records EXCEPT ![k] = Updated(k, ttl, now)]
    /\ UNCHANGED dirty

(* Mutant of Delete: the key list is not marked dirty. *)
DeleteMutant(gone) ==
    /\ records' = [k \in Key |-> IF k \in gone THEN ZeroRecord ELSE records[k]]
    /\ UNCHANGED <<keys, dirty>>

(* Delete, called once for each key of gone. *)
Delete(gone) ==
    /\ records' = [k \in Key |-> IF k \in gone THEN ZeroRecord ELSE records[k]]
    /\ dirty' = (dirty \/ gone \cap Stored # {})
    /\ UNCHANGED keys

=============================================================================
