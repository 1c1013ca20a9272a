--------------------------- MODULE VerifiedSpool ----------------------------
(***************************************************************************)
(* services/api/app/storage.py: what the API reads from the object store.  *)
(* A whole object is fetched into a private spool, checked there against   *)
(* its record and only then made streamable, once.  Spools, retained       *)
(* documents and buffered request bodies share one bounded budget of       *)
(* transient bytes; every byte is owned by a token that gives it back      *)
(* exactly once.                                                           *)
(*                                                                         *)
(* Bytes are counted in stream chunks.  What the record, the headers and   *)
(* the body say of an object is its size, its bytes ("recorded" or not)    *)
(* and the digest written beside it.                                       *)
(***************************************************************************)
EXTENDS Integers, FiniteSets, Functions

CONSTANTS
    Organizations,  \* tenants; each has at most one operation under way
    Kinds,          \* the objects a tenant's rows name
    SizeOf,         \* recorded size of each kind, in chunks
    Capacity,       \* MAX_API_TRANSIENT_BYTES, in chunks
    MaxDisturbances \* bound: faults, and row changes by others, in one behaviour

ASSUME SpoolAssumption ==
    /\ IsFiniteSet(Organizations) /\ IsFiniteSet(Kinds)
    /\ SizeOf \in [Kinds -> Nat \ {0}]
    /\ Capacity \in Nat /\ MaxDisturbances \in Nat

VARIABLES store, reserved, io, disturbances
storageVars == <<store, reserved, io, disturbances>>

Recorded(k) == [size |-> SizeOf[k], bytes |-> "recorded", sha |-> "recorded"]
Missing == [size |-> 0, bytes |-> "other", sha |-> "other"]
NoBody == Missing

(* What one operation holds: the token's reservation, the retained one, the *)
(* provider body with its deadline, the spool and its read position.        *)
NoIO == [held |-> 0, retained |-> 0, body |-> NoBody, read |-> 0, expired |-> FALSE,
         token |-> "none", pos |-> 0, iterating |-> FALSE, releasing |-> "nobody"]

SpoolInit ==
    /\ store = [t \in Organizations |-> [k \in Kinds |-> Recorded(k)]]
    /\ reserved = 0
    /\ io = [t \in Organizations |-> NoIO]
    /\ disturbances = 0

Disturbance == disturbances < MaxDisturbances /\ disturbances' = disturbances + 1

----------------------------------------------------------------------------
(* The budget *)
CanReserve(n) == n <= Capacity - reserved

reserve(t, n) ==
    /\ CanReserve(n)
    /\ reserved' = reserved + n
    /\ io' = [io EXCEPT ![t].held = n]

reserve_transient_bytes(t, n) ==
    /\ CanReserve(n)
    /\ reserved' = reserved + n
    /\ io' = [io EXCEPT ![t].retained = @ + n]

----------------------------------------------------------------------------
(* Checks against the record *)
HeadersMatch(object, k) == object.size = SizeOf[k]
DigestMetadataMatches(object) == object.sha = "recorded"
BytesMatch(object, k) == object.size = SizeOf[k] /\ object.bytes = "recorded"

(* HEAD: the size and the digest beside the object, its bytes unread; an    *)
(* object stored without a digest is read after all.                         *)
verify_metadata(t, k) ==
    /\ HeadersMatch(store[t][k], k)
    /\ IF store[t][k].sha = "none" THEN BytesMatch(store[t][k], k)
       ELSE DigestMetadataMatches(store[t][k])

(* HEAD, then the bytes are streamed through the hash. *)
verify_stored_object(t, k) == verify_metadata(t, k) /\ BytesMatch(store[t][k], k)

(* GET of a small object into memory. *)
read_verified_stored_object(t, k) == HeadersMatch(store[t][k], k) /\ BytesMatch(store[t][k], k)

----------------------------------------------------------------------------
(* Opening a verified object *)
OpenSpool == UNCHANGED <<store, disturbances>>

get_object(t, k) ==
    /\ io[t].body = NoBody
    /\ HeadersMatch(store[t][k], k) /\ DigestMetadataMatches(store[t][k])
    /\ io' = [io EXCEPT ![t].body = store[t][k], ![t].read = 0]
    /\ UNCHANGED reserved /\ OpenSpool

_read_storage_chunk(t) ==
    /\ io[t].body # NoBody /\ ~io[t].expired
    /\ io[t].read < io[t].body.size
    /\ io' = [io EXCEPT ![t].read = @ + 1]
    /\ UNCHANGED reserved /\ OpenSpool

(* The body ends before its announced length, or runs on past it. *)
body_misdelivered(t) ==
    /\ io[t].body # NoBody /\ ~io[t].expired /\ io[t].read < io[t].body.size
    /\ Disturbance
    /\ \E size \in {io[t].read, io[t].body.size + 1} :
          io' = [io EXCEPT ![t].body.size = size]
    /\ UNCHANGED <<store, reserved>>

(* The timer aborts the body at the deadline; whatever was read is void. *)
abort(t) ==
    /\ io[t].body # NoBody /\ ~io[t].expired
    /\ io' = [io EXCEPT ![t].expired = TRUE]
    /\ UNCHANGED reserved /\ OpenSpool

SpoolVerified(t, k) ==
    /\ io[t].read = SizeOf[k]
    /\ io[t].body.bytes = "recorded"
    /\ ~io[t].expired

(* End of body, digest equal, spool rewound: the one-shot token exists. *)
open_verified_stored_object(t, k) ==
    /\ io[t].body # NoBody
    /\ io[t].read = io[t].body.size
    /\ SpoolVerified(t, k)
    /\ io' = [io EXCEPT ![t].token = "open", ![t].pos = 0]
    /\ UNCHANGED reserved /\ OpenSpool

----------------------------------------------------------------------------
(* The token *)
\* Mutant: the spool is handed on where the verification left it.
StaysAtEnd(size) == size
RewindsAfter(size) == 0

(* Reads everything for validation and rewinds; refused once streaming. *)
CanValidate(t) == io[t].token = "open" /\ ~io[t].iterating
validation_bytes(rec, k) == [rec EXCEPT !.pos = RewindsAfter(SizeOf[k])]

iter_bytes(t) ==
    /\ io[t].token = "open" /\ ~io[t].iterating
    /\ io' = [io EXCEPT ![t].iterating = TRUE]
    /\ UNCHANGED reserved

_next_stream_chunk(t) ==
    /\ io[t].token = "open" /\ io[t].pos < io[t].read
    /\ io' = [io EXCEPT ![t].pos = @ + 1]
    /\ UNCHANGED reserved

(* close() by whoever comes first: the flag is taken under the lock ... *)
ClaimClose(t, who) ==
    /\ io[t].token = "open"
    /\ io' = [io EXCEPT ![t].token = "closed", ![t].releasing = who]
    /\ UNCHANGED reserved

\* Mutant: a close that fails keeps the reservation.
FreedUnlessSpoolFails(t, spoolFails) == IF spoolFails THEN 0 ELSE io[t].held
FreedOnClose(t, spoolFails) == io[t].held

(* ... then the winner closes the spool, and the reservation even when that *)
(* raises.                                                                  *)
close(t, spoolFails) ==
    /\ io[t].releasing # "nobody"
    /\ reserved' = reserved - FreedOnClose(t, spoolFails)
    /\ io' = [io EXCEPT ![t].held = 0, ![t].releasing = "nobody"]

----------------------------------------------------------------------------
(* Writing: a conditional PUT that never replaces an object, and whose     *)
(* answer may be lost.  Only the verification that follows counts.         *)
PutOnce(t, k) ==
    IF store[t][k] = Missing THEN [store EXCEPT ![t][k] = Recorded(k)] ELSE store

(* Faults of the store: an object vanishes, rots or is replaced.           *)
Rotten(k) ==
    { Missing,
      [Recorded(k) EXCEPT !.bytes = "other"],
      [Recorded(k) EXCEPT !.bytes = "other", !.sha = "other"],
      [Recorded(k) EXCEPT !.sha = "none"],
      [Recorded(k) EXCEPT !.bytes = "other", !.sha = "none"] }

object_rots(t, k) ==
    /\ Disturbance
    /\ \E object \in Rotten(k) : store' = [store EXCEPT ![t][k] = object]
    /\ UNCHANGED <<reserved, io>>

----------------------------------------------------------------------------
OwnedBytes == [t \in Organizations |-> io[t].held + io[t].retained]
HeldBytes == SumFunctionOnSet(OwnedBytes, Organizations)

(* Every reserved byte has an owner that will give it back, no byte is     *)
(* given back twice, and the container is never overcommitted: _release    *)
(* would raise on an underflow, and a lost token would shrink the budget   *)
(* until the process restarts (storage.py _TransientByteBudget).           *)
BudgetBalances == reserved = HeldBytes /\ reserved <= Capacity
=============================================================================
