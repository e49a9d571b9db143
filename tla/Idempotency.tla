---------------------------- MODULE Idempotency ----------------------------
(***************************************************************************)
(* The memory of recent mutations (src/localApi/idempotencyStore.ts).      *)
(*                                                                         *)
(* entries is a Map in insertion order; each entry belongs to a scoped key *)
(* and an operation, and is in flight or completed.  The entry of a key    *)
(* can go away under its claim, by age or by capacity, and settle() acts   *)
(* on whatever entry the key has by then.                                  *)
(***************************************************************************)
EXTENDS Naturals, Sequences

CONSTANTS
  Keys,        \* credential and key, as scopedKey combines them
  Operations,  \* method and path
  MaxEntries   \* maxEntries

ASSUME MaxEntriesAssumption == MaxEntries \in Nat

VARIABLES
  entries,  \* sequence of [key, operation, state]
  lost      \* how often each key has lost its entry while it was wanted

idempotencyVars == <<entries, lost>>

Entry == [key: Keys, operation: Operations, state: {"in-flight", "completed"}]
IdempotencyTypeOK == entries \in Seq(Entry) /\ lost \in [Keys -> Nat]
IdempotencyInit == entries = <<>> /\ lost = [k \in Keys |-> 0]

Has(k) == \E i \in DOMAIN entries : entries[i].key = k
IndexOf(es, k) == CHOOSE i \in DOMAIN es : es[i].key = k
EntryOf(k) == entries[IndexOf(entries, k)]

\* Map.delete.
Delete(es, i) == SubSeq(es, 1, i - 1) \o SubSeq(es, i + 1, Len(es))
Without(es, k) == IF \E i \in DOMAIN es : es[i].key = k THEN Delete(es, IndexOf(es, k)) ELSE es

\* Map.set keeps the place of a key it already has.
Set(es, e) ==
  IF \E i \in DOMAIN es : es[i].key = e.key
  THEN [i \in DOMAIN es |-> IF es[i].key = e.key THEN e ELSE es[i]]
  ELSE Append(es, e)

\* enforceCapacity(): the oldest entries go, in flight or not.
Overflow(es) == IF Len(es) > MaxEntries THEN SubSeq(es, 1, Len(es) - MaxEntries) ELSE <<>>
Lose(gone) == lost' = [k \in Keys |-> IF \E i \in DOMAIN gone : gone[i].key = k
                                      THEN lost[k] + 1 ELSE lost[k]]

\* evictExpired(): an entry is older than the retention, and dropped by the
\* next caller.  Settling renews the age of an entry and not its place.
Expire(i) ==
  /\ i \in DOMAIN entries
  /\ entries' = Delete(entries, i)
  /\ Lose(<<entries[i]>>)

\* Fault: only a completed entry stands in the way of a claim.
Answer_InFlightIgnored(k, op) ==
  IF ~Has(k) THEN "claim"
  ELSE IF EntryOf(k).operation # op THEN "different"
  ELSE IF EntryOf(k).state = "in-flight" THEN "claim" ELSE "replay"

\* begin(): what is done with a request that carries key k.
Answer(k, op) ==
  IF ~Has(k) THEN "claim"
  ELSE IF EntryOf(k).operation # op THEN "different"
  ELSE IF EntryOf(k).state = "in-flight" THEN "in flight" ELSE "replay"

Claim(k, op) ==
  LET es == Set(entries, [key |-> k, operation |-> op, state |-> "in-flight"])
  IN /\ entries' = SubSeq(es, Len(Overflow(es)) + 1, Len(es))
     /\ Lose(Overflow(es))

\* settle(): a failure, or an answer that is no small JSON, releases the key.
Release(k) == entries' = Without(entries, k) /\ UNCHANGED lost
Complete(k, op) ==
  entries' = Set(entries, [key |-> k, operation |-> op, state |-> "completed"]) /\ UNCHANGED lost

\* The process ends: nothing here is durable.
Forget == entries' = <<>> /\ Lose(entries)

=============================================================================
