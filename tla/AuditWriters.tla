---------------------------- MODULE AuditWriters ----------------------------
(***************************************************************************)
(* The audit chain by itself: transactions that write an entry and commit  *)
(* or roll back, the primary keys that PostgreSQL gives the rows, what it  *)
(* gives back when a row is read, and audit.Verify, which hashes what it   *)
(* reads.                                                                  *)
(***************************************************************************)
EXTENDS AuditChain

CONSTANTS Bodies,   \* [stamp, payload] of the entries that are written
          MaxSerial \* bound: values taken from the BIGSERIAL sequence

VARIABLES serial,   \* the last value the sequence has given out
          key,      \* key[t]: the value t's INSERT has taken
          keys      \* keys[i]: audit_log.seq of the i-th row

vars == <<chainVars, serial, key, keys>>

Init == ChainInit /\ serial = 0 /\ key = [t \in Txs |-> 0] /\ keys = <<>>

Write(t, body) ==
    /\ holder # t /\ serial < MaxSerial
    /\ WriteEntry(t, body)
    /\ serial' = serial + 1
    /\ key' = [key EXCEPT ![t] = serial + 1]
    /\ UNCHANGED keys

CommitWrite(t) ==
    /\ holder = t
    /\ PublishEntry(t)
    /\ keys' = Append(keys, key[t])
    /\ UNCHANGED <<serial, key>>

(* The value of the sequence is not given back.                            *)
RollBack(t) == holder = t /\ DiscardEntry(t) /\ UNCHANGED <<serial, key, keys>>

Next == \E t \in Txs : \/ \E body \in Bodies : Write(t, body)
                       \/ CommitWrite(t) \/ RollBack(t)

Spec == Init /\ [][Next]_vars

-----------------------------------------------------------------------------
(* A TIMESTAMPTZ column keeps microseconds of the nanoseconds in the hash, *)
(* and a JSONB column gives its own text of an object, with spaces, not    *)
(* the canonical one that was hashed.                                      *)
Reread(body) == [stamp   |-> IF body.stamp = "ns" THEN "us" ELSE body.stamp,
                 payload |-> IF body.payload = "canonical" THEN "jsonb text"
                             ELSE body.payload]

RowAt(k) == CHOOSE i \in 1 .. Len(log) : keys[i] = k
Found(k) == \E i \in 1 .. Len(log) : keys[i] = k

(* The hash Verify compares the first row's link with: the one before it,  *)
(* or for a range from the start the sentinel's, which is the head's.      *)
Anchor(from) == IF from = 1 THEN sentinel.self ELSE log[RowAt(from - 1)].self

(* Verify(from, to): the rows in the order of their keys, which must not   *)
(* skip one, each hashed again from its stored fields and the hash of the  *)
(* row before it.                                                          *)
VerifiesRow(from, k) ==
    log[RowAt(k)].self =
        Hash(k, IF k = from THEN Anchor(from) ELSE log[RowAt(k - 1)].self,
             Reread(log[RowAt(k)].body))

Verifies(from, to) ==
    \A k \in from .. to :
        (\E j \in k .. to : Found(j)) => Found(k) /\ VerifiesRow(from, k)

(* "The hash MUST use the same timestamp value that is persisted to        *)
(* audit_log.occurred_at, otherwise Verify will recompute a hash that does *)
(* not match the stored row" (writer.go): nobody tampers with the rows     *)
(* here, so Verify accepts every range whose anchor exists.                *)
IntactChainVerifies ==
    \A from \in 1 .. MaxSerial, to \in 1 .. MaxSerial :
        from = 1 \/ Found(from - 1) => Verifies(from, to)
=============================================================================
