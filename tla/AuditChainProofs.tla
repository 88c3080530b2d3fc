-------------------------- MODULE AuditChainProofs --------------------------
(***************************************************************************)
(* Lemmas about AuditChain for the proofs of the modules that extend it:   *)
(* what WriteEntry, a commit and a rollback do to the chain, whatever the  *)
(* entries say. B is the set of what the entries of a writer may say.      *)
(***************************************************************************)
EXTENDS AuditChain, SequenceTheorems, TLAPS

ChainHash(B) == Seq(Nat \X B)
ChainRow(B)  == [prev : ChainHash(B), self : ChainHash(B), num : Nat, body : B]
ChainHead(B) == [seq : Nat, self : ChainHash(B)]

(* ChainUnbroken is not inductive: a commit publishes a row that was       *)
(* written earlier. What keeps it fit is that only the holder of the       *)
(* sentinel has such a row, and that the sentinel does not move meanwhile. *)
DraftFits(B) ==
    /\ draft = [t \in Txs |-> draft[t]]
    /\ holder \in Txs \cup {NoTx}
    /\ \A t \in Txs : holder = t => \E b \in B : draft[t] = Row(sentinel, b)

ChainInv(B) == /\ log \in Seq(ChainRow(B))
               /\ sentinel \in ChainHead(B)
               /\ DraftFits(B)
               /\ ChainUnbroken

(* A row chained to the head of the log is a row, and its head a head.     *)
LEMMA RowType ==
    ASSUME NEW B, NEW head \in ChainHead(B), NEW b \in B
    PROVE  /\ Row(head, b) \in ChainRow(B)
           /\ HeadOf(Row(head, b)) \in ChainHead(B)
           /\ Row(head, b).body = b
           /\ Row(head, b).num = head.seq + 1
           /\ Row(head, b).prev = head.self
           /\ HeadOf(Row(head, b)) = [seq |-> head.seq + 1, self |-> Row(head, b).self]
  <1>1. /\ head.seq \in Nat /\ head.seq + 1 \in Nat
        /\ head.self \in ChainHash(B)
    BY DEF ChainHead
  <1>2. <<head.seq + 1, b>> \in Nat \X B
    BY <1>1
  <1>3. Hash(head.seq + 1, head.self, b) \in ChainHash(B)
    BY <1>1, <1>2, AppendProperties DEF Hash, ChainHash
  <1> QED BY <1>1, <1>3 DEF Row, HeadOf, ChainRow, ChainHead

LEMMA InitKeepsChain ==
    ASSUME NEW B, NoTx \notin Txs, ChainInit
    PROVE  ChainInv(B)
  <1>1. log = <<>> /\ sentinel = Genesis /\ holder = NoTx /\ draft = [t \in Txs |-> NoRow]
    BY DEF ChainInit, NobodyWrites
  <1>2. log \in Seq(ChainRow(B)) /\ Len(log) = 0
    BY <1>1
  <1>3. Genesis \in ChainHead(B)
    BY DEF Genesis, ChainHead, ChainHash
  <1>4. ChainUnbroken
    BY <1>1, <1>2 DEF ChainUnbroken
  <1> QED BY <1>1, <1>2, <1>3, <1>4 DEF ChainInv, DraftFits

(* The chain that starts with one entry.                                   *)
LEMMA BegunKeepsChain ==
    ASSUME NEW B, NEW b \in B, NoTx \notin Txs, ChainBegun(b)
    PROVE  /\ ChainInv(B)
           /\ Len(log) = 1 /\ log[1].body = b
           /\ holder = NoTx
  <1> DEFINE first == Row(Genesis, b)
  <1>1. log = <<first>> /\ sentinel = HeadOf(first) /\ holder = NoTx
        /\ draft = [t \in Txs |-> NoRow]
    BY DEF ChainBegun, NobodyWrites
  <1>2. Genesis \in ChainHead(B) /\ Genesis.seq = 0
    BY DEF Genesis, ChainHead, ChainHash
  <1>3. /\ first \in ChainRow(B) /\ HeadOf(first) \in ChainHead(B)
        /\ first.body = b /\ first.prev = Genesis.self
        /\ HeadOf(first) = [seq |-> 1, self |-> first.self]
    BY <1>2, RowType
  <1> HIDE DEF first
  <1>4. log \in Seq(ChainRow(B)) /\ Len(log) = 1 /\ log[1] = first /\ log # <<>>
    BY <1>1, <1>3
  <1>5. ChainUnbroken
    BY <1>1, <1>3, <1>4 DEF ChainUnbroken
  <1> QED BY <1>1, <1>3, <1>4, <1>5 DEF ChainInv, DraftFits

(* WriteEntry: the row fits the head it was made for.                      *)
LEMMA WriteKeepsChain ==
    ASSUME NEW B, NEW t \in Txs, NEW b \in B, NoTx \notin Txs,
           ChainInv(B), WriteEntry(t, b)
    PROVE  /\ ChainInv(B)'
           /\ holder = NoTx /\ holder' = t
           /\ draft'[t].body = b
           /\ UNCHANGED <<log, sentinel>>
  <1>1. holder = NoTx /\ holder' = t /\ UNCHANGED <<log, sentinel>>
    BY DEF WriteEntry, SentinelFree
  <1>2. draft' = [draft EXCEPT ![t] = Row(sentinel, b)]
    BY DEF WriteEntry
  <1>3. draft' = [x \in Txs |-> draft'[x]] /\ draft'[t] = Row(sentinel, b)
    BY <1>2 DEF ChainInv, DraftFits
  <1>4. draft'[t].body = b
    BY <1>3, RowType DEF ChainInv
  <1>5. DraftFits(B)'
    BY <1>1, <1>3 DEF DraftFits
  <1>6. ChainUnbroken'
    BY <1>1 DEF ChainInv, ChainUnbroken
  <1> QED BY <1>1, <1>4, <1>5, <1>6 DEF ChainInv

(* COMMIT by the holder of the sentinel: the log grows by its row.         *)
LEMMA PublishKeepsChain ==
    ASSUME NEW B, NEW t \in Txs, NoTx \notin Txs,
           ChainInv(B), holder = t, PublishEntry(t)
    PROVE  /\ ChainInv(B)'
           /\ holder' = NoTx
           /\ Len(log) \in Nat /\ Len(log') = Len(log) + 1
           /\ \A i \in 1 .. Len(log) : log'[i] = log[i]
           /\ log'[Len(log) + 1].body = draft[t].body
           /\ log'[Len(log) + 1].num = Len(log) + 1
           /\ draft[t].body \in B
           /\ draft[t].num = sentinel.seq + 1 /\ sentinel.seq = Len(log)
  <1>1. PICK b \in B : draft[t] = Row(sentinel, b)
    BY DEF ChainInv, DraftFits
  <1>2. /\ draft[t] \in ChainRow(B) /\ draft[t].prev = sentinel.self
        /\ draft[t].body = b /\ draft[t].num = sentinel.seq + 1
        /\ HeadOf(draft[t]) \in ChainHead(B)
        /\ HeadOf(draft[t]) = [seq |-> sentinel.seq + 1, self |-> draft[t].self]
    BY <1>1, RowType DEF ChainInv
  <1>3. log' = Append(log, draft[t]) /\ sentinel' = HeadOf(draft[t])
        /\ holder' = NoTx /\ draft' = [draft EXCEPT ![t] = NoRow]
    BY DEF PublishEntry, Unlock
  <1>4. Len(log) \in Nat
    BY DEF ChainInv
  <1>5. /\ log' \in Seq(ChainRow(B)) /\ Len(log') = Len(log) + 1
        /\ \A i \in 1 .. Len(log) : log'[i] = log[i]
        /\ log'[Len(log) + 1] = draft[t] /\ log' # <<>>
    BY <1>2, <1>3, AppendProperties DEF ChainInv
  <1>6. DraftFits(B)'
    <2>1. draft' = [x \in Txs |-> draft'[x]]
      BY <1>3 DEF ChainInv, DraftFits
    <2> QED BY <2>1, <1>3 DEF DraftFits
  <1>7. /\ sentinel.self = IF log = <<>> THEN Genesis.self ELSE log[Len(log)].self
        /\ sentinel.seq = Len(log)
    <2>1. CASE log = <<>>
      BY <2>1 DEF ChainInv, ChainUnbroken, Genesis
    <2>2. CASE log # <<>>
      BY <2>2 DEF ChainInv, ChainUnbroken
    <2> QED BY <2>1, <2>2
  <1>8. ChainUnbroken'
    <2>1. ASSUME NEW i \in 1 .. Len(log')
          PROVE  log'[i].prev = IF i = 1 THEN Genesis.self ELSE log'[i - 1].self
      <3>1. CASE i \in 1 .. Len(log)
        <4>1. log[i].prev = IF i = 1 THEN Genesis.self ELSE log[i - 1].self
          BY <3>1 DEF ChainInv, ChainUnbroken
        <4>2. log'[i] = log[i] /\ (i # 1 => log'[i - 1] = log[i - 1])
          BY <3>1, <1>4, <1>5
        <4> QED BY <4>1, <4>2
      <3>2. CASE i = Len(log) + 1
        <4>1. log'[i] = draft[t] /\ log'[i].prev = sentinel.self
          BY <3>2, <1>2, <1>5
        <4>2. (log = <<>>) <=> (Len(log) = 0)
          BY DEF ChainInv
        <4>3. i # 1 => log'[i - 1] = log[Len(log)]
          BY <3>2, <1>4, <1>5
        <4> QED BY <4>1, <4>2, <4>3, <1>7, <3>2, <1>4
      <3> QED BY <3>1, <3>2, <1>4, <1>5, <2>1
    <2>2. sentinel' = [seq |-> Len(log'), self |-> log'[Len(log')].self]
      BY <1>2, <1>3, <1>5, <1>7
    <2> QED BY <2>1, <2>2, <1>5 DEF ChainUnbroken
  <1>9. ChainInv(B)'
    BY <1>2, <1>3, <1>5, <1>6, <1>8 DEF ChainInv
  <1> QED BY <1>2, <1>3, <1>4, <1>5, <1>7, <1>9

(* ROLLBACK, of whoever holds the sentinel or does not.                    *)
LEMMA DiscardKeepsChain ==
    ASSUME NEW B, NEW t \in Txs, NoTx \notin Txs, ChainInv(B), DiscardEntry(t)
    PROVE  /\ ChainInv(B)'
           /\ holder' = IF holder = t THEN NoTx ELSE holder
           /\ \A x \in Txs \ {t} : draft'[x] = draft[x]
           /\ UNCHANGED <<log, sentinel>>
  <1>1. /\ UNCHANGED <<log, sentinel>> /\ holder' = IF holder = t THEN NoTx ELSE holder
        /\ draft' = [draft EXCEPT ![t] = NoRow]
    BY DEF DiscardEntry, Unlock
  <1>2. draft = [x \in Txs |-> draft[x]]
    BY DEF ChainInv, DraftFits
  <1>3. draft' = [x \in Txs |-> draft'[x]] /\ \A x \in Txs \ {t} : draft'[x] = draft[x]
    BY <1>1, <1>2
  <1>4. DraftFits(B)'
    <2>1. ASSUME NEW x \in Txs, holder' = x
          PROVE  \E b \in B : draft'[x] = Row(sentinel', b)
      <3>1. holder = x /\ x # t
        BY <2>1, <1>1
      <3>2. \E b \in B : draft[x] = Row(sentinel, b)
        BY <3>1 DEF ChainInv, DraftFits
      <3> QED BY <3>1, <3>2, <1>1, <1>3
    <2>2. holder' \in Txs \cup {NoTx}
      BY <1>1 DEF ChainInv, DraftFits
    <2> QED BY <2>1, <2>2, <1>3 DEF DraftFits
  <1>5. ChainUnbroken'
    BY <1>1 DEF ChainInv, ChainUnbroken
  <1> QED BY <1>1, <1>3, <1>4, <1>5 DEF ChainInv

(* A step of a transaction that leaves the chain alone.                    *)
LEMMA QuietKeepsChain ==
    ASSUME NEW B, ChainInv(B), UNCHANGED chainVars
    PROVE  ChainInv(B)' /\ UNCHANGED <<log, sentinel, holder, draft>>
  BY DEF ChainInv, DraftFits, ChainUnbroken, chainVars

(* The sentinel counts the entries.                                        *)
LEMMA HeadCounts ==
    ASSUME NEW B, ChainInv(B)
    PROVE  Len(log) \in Nat /\ sentinel.seq = Len(log)
  <1>1. log \in Seq(ChainRow(B)) /\ Len(log) \in Nat
    BY DEF ChainInv
  <1>2. CASE log = <<>>
    BY <1>1, <1>2 DEF ChainInv, ChainUnbroken, Genesis
  <1>3. CASE log # <<>>
    BY <1>1, <1>3 DEF ChainInv, ChainUnbroken
  <1> QED BY <1>1, <1>2, <1>3

=============================================================================
