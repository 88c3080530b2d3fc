----------------------------- MODULE AuditChain -----------------------------
(***************************************************************************)
(* The audit hash chain as its writers use it: audit.WriteEntry locks the  *)
(* one sentinel row, chains a new row to it, and the transaction of the    *)
(* caller commits or rolls back both. The module has no specification of   *)
(* its own: the modules of the writers extend it.                          *)
(*                                                                         *)
(* SHA-256 is free of collisions here: a hash is the sequence of all that  *)
(* was hashed into it.                                                     *)
(***************************************************************************)
EXTENDS Integers, Sequences

CONSTANTS Txs,      \* connections on which transactions run
          NoTx,     \* the owner of a free sentinel lock
          NoRow     \* a transaction that has not written its entry

VARIABLES log,      \* audit.audit_log in the order of the commits
          sentinel, \* audit.audit_sentinel: the head's number and hash
          holder,   \* the transaction with the lock on the sentinel row
          draft     \* draft[t]: the row t has inserted and not yet committed

chainVars == <<log, sentinel, holder, draft>>

Genesis == [seq |-> 0, self |-> <<>>]

(* computeSelfHash                                                         *)
Hash(n, prev, body) == Append(prev, <<n, body>>)

Row(head, body) == [prev |-> head.self,
                    self |-> Hash(head.seq + 1, head.self, body),
                    num  |-> head.seq + 1,
                    body |-> body]
HeadOf(row) == [seq |-> row.num, self |-> row.self]

NobodyWrites == holder = NoTx /\ draft = [t \in Txs |-> NoRow]

ChainInit == log = <<>> /\ sentinel = Genesis /\ NobodyWrites

(* The chain that an earlier writer has begun with one entry.              *)
ChainBegun(body) == LET first == Row(Genesis, body)
                    IN log = <<first>> /\ sentinel = HeadOf(first) /\ NobodyWrites


SentinelIgnored == TRUE
SentinelFree    == holder = NoTx

(* WriteEntry in transaction t. The number that is hashed comes from the   *)
(* sentinel. (The primary key comes from a sequence of its own: module     *)
(* AuditWriters.)                                                          *)
WriteEntry(t, body) ==
    /\ SentinelFree
    /\ holder' = t
    /\ draft' = [draft EXCEPT ![t] = Row(sentinel, body)]
    /\ UNCHANGED <<log, sentinel>>

Unlock(t) == /\ holder' = IF holder = t THEN NoTx ELSE holder
             /\ draft' = [draft EXCEPT ![t] = NoRow]

(* COMMIT of the transaction that called WriteEntry.                       *)
PublishEntry(t) ==
    /\ log' = Append(log, draft[t])
    /\ sentinel' = HeadOf(draft[t])
    /\ Unlock(t)

(* ROLLBACK                                                                *)
ForgetRollback(t) == UNCHANGED chainVars
DiscardEntry(t) == Unlock(t) /\ UNCHANGED <<log, sentinel>>

-----------------------------------------------------------------------------
(* Every row of the log carries the hash of its predecessor, and the       *)
(* sentinel the number and hash of the last one, whoever wrote the rows    *)
(* and whatever was rolled back in between (writer.go: the FOR UPDATE lock *)
(* on the sentinel is the chain's only serialisation).                     *)
ChainUnbroken ==
    /\ \A i \in 1 .. Len(log) :
          log[i].prev = IF i = 1 THEN Genesis.self ELSE log[i - 1].self
    /\ sentinel = IF log = <<>> THEN Genesis
                  ELSE [seq |-> Len(log), self |-> log[Len(log)].self]
=============================================================================
