-------------------------- MODULE GovernanceProofs --------------------------
(***************************************************************************)
(* Proofs about Governance for any versions, users, handlers, schedulers,  *)
(* quorums, comments and faults: the audit chain stays linked, approvals   *)
(* have their quorum in the audit trail, trail and rows tell the same      *)
(* story, and the workflow implements Ballot.                              *)
(***************************************************************************)
EXTENDS Governance, AuditChainProofs, FiniteSetTheorems

Events == {"submitted", "auto_approved", "approved", "rejected", "sla_breached"}
Bodies == [event : Events, review : Nat, actor : Users \cup {Nobody}]

AnyRole == {"privacy-team"} \cup UNION {x.roles : x \in Routes}
Quoted == [approvals : Nat, names : SUBSET Users]
ReviewRows == [version : Versions, submitter : Users, needed : Needs,
               roles : SUBSET AnyRole, votes : SUBSET Users, quoted : Quoted,
               decider : Users \cup {Nobody},
               status : {"auto_approved", "in_review", "approved", "rejected"},
               breached : BOOLEAN]

Submissions == {q \in [op : {"submit"}, version : Versions, by : Users,
                       roles : SUBSET AnyRole, needed : Needs, auto : BOOLEAN] :
                  q.auto => q.version \notin HumanOnly}
Decisions == [op : {"approve", "reject"}, review : Nat, by : Users,
              seen : SUBSET Users, quoted : Quoted, comment : Comments]
Breaches == [event : {"sla_breached"}, review : Nat, actor : {Nobody}]

TypeInv ==
    /\ reviews \in Seq(ReviewRows)
    /\ gov = [v \in Versions |-> gov[v]]
    /\ pc = [t \in Txs |-> pc[t]] /\ req = [t \in Txs |-> req[t]]
    /\ \A t \in Handlers :
          /\ pc[t] \in {"idle", "insert", "seal", "commit"}
          /\ pc[t] = "insert" => req[t] \in Submissions
          /\ InTx(t) => req[t] \in Submissions \cup Decisions
    /\ \A s \in Scanners :
          /\ pc[s] \in {"idle", "mark"}
          /\ pc[s] = "mark" => req[s] \in Breaches /\ req[s].review \in queue[s]
    /\ queue \in [Scanners -> SUBSET Ids]

(* Whoever is past WriteEntry holds the sentinel, and its row says what    *)
(* the transaction will commit.                                            *)
Sealed ==
    /\ \A t \in Handlers : pc[t] = "commit" =>
          holder = t /\ draft[t].body = Entry(req[t])
    /\ \A s \in Scanners : pc[s] = "mark" =>
          holder = s /\ draft[s].body = req[s]

(* What a transaction has read under its row lock is still true, and no    *)
(* other transaction has the same row or the same place in the index.      *)
ReadHolds(t) ==
    InTx(t) =>
        IF req[t].op = "submit" THEN Undecided(req[t].version) = {}
        ELSE LET i == req[t].review
             IN /\ i \in Ids
                /\ reviews[i].decider = Nobody
                /\ req[t].seen = reviews[i].votes
                /\ req[t].quoted = reviews[i].quoted
                /\ req[t].by # reviews[i].submitter
                /\ req[t].by \notin req[t].seen
Apart(t, u) ==
    InTx(t) /\ InTx(u) =>
        /\ req[t].op = "submit" /\ req[u].op = "submit" =>
              req[t].version # req[u].version
        /\ req[t].op # "submit" /\ req[u].op # "submit" =>
              req[t].review # req[u].review

LocksHold ==
    /\ \A t \in Handlers : ReadHolds(t)
    /\ \A t, u \in Handlers : t # u => Apart(t, u)

(* The row of a review by itself.                                          *)
RowSound(i) ==
    /\ IsFiniteSet(reviews[i].votes)
    /\ reviews[i].submitter \notin reviews[i].votes
    /\ reviews[i].status = "approved" =>
          Cardinality(reviews[i].votes) + reviews[i].quoted.approvals >= reviews[i].needed
    /\ reviews[i].decider # Nobody <=> reviews[i].status \in {"approved", "rejected"}

(* The trail of one review, as TrailComplete asks for it.                  *)
TrailOf(i) ==
    /\ Cardinality(Entries("submitted", i) \cup Entries("auto_approved", i)) = 1
    /\ Actors("approved", i) = reviews[i].votes
    /\ Cardinality(Entries("approved", i)) = Cardinality(reviews[i].votes)
    /\ Cardinality(Entries("rejected", i)) =
          IF reviews[i].status = "rejected" THEN 1 ELSE 0
    /\ reviews[i].breached <=> Entries("sla_breached", i) # {}

(* A breach that was reported is reported again only by the schedulers     *)
(* that listed the row before, each of them once.                          *)
Pending(i) == {s \in Scanners : i \in queue[s]}
BreachesLeft(i) ==
    reviews[i].breached =>
        Cardinality(Entries("sla_breached", i)) + Cardinality(Pending(i))
            <= Cardinality(Scanners)

TrailInv ==
    /\ \A i \in Ids : RowSound(i) /\ TrailOf(i) /\ BreachesLeft(i)
    /\ \A k \in 1 .. Len(log) : log[k].body.review \in Ids
    /\ \A n \in notices : \E k \in 1 .. Len(log) : log[k].body = n

IInv == TypeInv /\ ChainInv(Bodies) /\ Sealed /\ LocksHold /\ TrailInv

-----------------------------------------------------------------------------
(* Operators                                                               *)

(* Each entry that is committed is counted where it belongs.               *)
LogGrows(b) ==
    /\ Len(log) \in Nat /\ Len(log') = Len(log) + 1
    /\ \A k \in 1 .. Len(log) : log'[k] = log[k]
    /\ log'[Len(log) + 1].body = b

LEMMA EntriesFinite ==
    ASSUME Len(log) \in Nat, NEW e, NEW i
    PROVE  /\ Entries(e, i) \subseteq 1 .. Len(log)
           /\ IsFiniteSet(Entries(e, i)) /\ Cardinality(Entries(e, i)) \in Nat
  <1>1. Entries(e, i) \subseteq 1 .. Len(log)
    BY DEF Entries
  <1>2. IsFiniteSet(1 .. Len(log))
    BY FS_Interval
  <1> QED BY <1>1, <1>2, FS_Subset, FS_CardinalityType

LEMMA EntryCounted ==
    ASSUME NEW b, LogGrows(b), NEW e, NEW i
    PROVE  /\ b.event = e /\ b.review = i =>
                /\ Entries(e, i)' = Entries(e, i) \cup {Len(log) + 1}
                /\ Cardinality(Entries(e, i)') = Cardinality(Entries(e, i)) + 1
                /\ Actors(e, i)' = Actors(e, i) \cup {b.actor}
           /\ ~ (b.event = e /\ b.review = i) =>
                Entries(e, i)' = Entries(e, i) /\ Actors(e, i)' = Actors(e, i)
  <1> DEFINE n == Len(log) + 1
  <1>1. /\ \A k : k \in 1 .. Len(log)' <=> k \in 1 .. Len(log) \/ k = n
        /\ n \notin 1 .. Len(log)
    BY DEF LogGrows
  <1>2. ASSUME b.event = e, b.review = i
        PROVE  /\ Entries(e, i)' = Entries(e, i) \cup {n}
               /\ Cardinality(Entries(e, i)') = Cardinality(Entries(e, i)) + 1
               /\ Actors(e, i)' = Actors(e, i) \cup {b.actor}
    <2>1. Entries(e, i)' = Entries(e, i) \cup {n}
      BY <1>1, <1>2 DEF Entries, LogGrows
    <2>2. IsFiniteSet(Entries(e, i)) /\ n \notin Entries(e, i)
      <3>1. Len(log) \in Nat
        BY DEF LogGrows
      <3> QED BY <3>1, <1>1, EntriesFinite
    <2>3. Cardinality(Entries(e, i)') = Cardinality(Entries(e, i)) + 1
      BY <2>1, <2>2, FS_AddElement
    <2>4. \A k \in Entries(e, i) : log'[k].body.actor = log[k].body.actor
      BY DEF Entries, LogGrows
    <2>5. log'[n].body.actor = b.actor
      BY DEF LogGrows
    <2>6. Actors(e, i)' = {log'[k].body.actor : k \in Entries(e, i) \cup {n}}
      BY <2>1 DEF Actors
    <2>7. Actors(e, i)' = Actors(e, i) \cup {b.actor}
      BY <2>4, <2>5, <2>6 DEF Actors
    <2> QED BY <2>1, <2>3, <2>7
  <1>3. ASSUME ~ (b.event = e /\ b.review = i)
        PROVE  Entries(e, i)' = Entries(e, i) /\ Actors(e, i)' = Actors(e, i)
    <2>1. Entries(e, i)' = Entries(e, i)
      BY <1>1, <1>3 DEF Entries, LogGrows
    <2>2. \A k \in Entries(e, i) : log'[k].body.actor = log[k].body.actor
      BY DEF Entries, LogGrows
    <2> QED BY <2>1, <2>2 DEF Actors
  <1> QED BY <1>2, <1>3

(* The trail knows nothing of a review that has no row.                    *)
LEMMA NoEntriesYet ==
    ASSUME TrailInv, NEW i, i \notin Ids, NEW e
    PROVE  Entries(e, i) = {} /\ Actors(e, i) = {}
  BY DEF TrailInv, Entries, Actors

(* Quorums are numbers, also for the pool that the privacy team joins.     *)
LEMMA NeedsType ==
    /\ \A n \in Needs : n \in Int
    /\ \A x \in Routes : \A roles \in {x.roles, x.roles \cup {"privacy-team"}} :
          normaliseQuorum(x.quorum, Cardinality(roles)) \in Needs
  <1>1. ASSUME NEW x \in Routes
        PROVE  /\ IsFiniteSet(x.roles) /\ Cardinality(x.roles) \in Nat /\ x.quorum \in Int
               /\ \/ Cardinality(x.roles \cup {"privacy-team"}) = Cardinality(x.roles)
                  \/ Cardinality(x.roles \cup {"privacy-team"}) = Cardinality(x.roles) + 1
    BY GovernanceAssumption, FS_CardinalityType, FS_AddElement
  <1>2. \A c \in Nat, d \in {0, 1} : c + d \in Int
    OBVIOUS
  <1>3. \A c \in Nat : c + 0 = c
    OBVIOUS
  <1>4. ASSUME NEW n \in Needs PROVE n \in Int
    <2>1. PICK x \in Routes, d \in {0, 1} :
             n = normaliseQuorum(x.quorum, Cardinality(x.roles) + d)
      BY <1>4 DEF Needs
    <2>2. Cardinality(x.roles) + d \in Int
      BY <1>1, <1>2
    <2> QED BY <2>1, <2>2, <1>1 DEF normaliseQuorum
  <1>5. ASSUME NEW x \in Routes, NEW roles \in {x.roles, x.roles \cup {"privacy-team"}}
        PROVE  normaliseQuorum(x.quorum, Cardinality(roles)) \in Needs
    <2>1. PICK d \in {0, 1} : Cardinality(roles) = Cardinality(x.roles) + d
      <3>1. CASE Cardinality(roles) = Cardinality(x.roles)
        <4>1. Cardinality(roles) = Cardinality(x.roles) + 0
          BY <3>1, <1>1, <1>3
        <4> QED BY <4>1
      <3>2. CASE Cardinality(roles) = Cardinality(x.roles) + 1
        BY <3>2
      <3> QED BY <3>1, <3>2, <1>1, <1>5
    <2> QED BY <2>1 DEF Needs
  <1> QED BY <1>4, <1>5

-----------------------------------------------------------------------------
(* Steps that commit nothing                                               *)

LEMMA PendingFinite ==
    ASSUME NEW i
    PROVE  /\ IsFiniteSet(Pending(i)) /\ Cardinality(Pending(i)) \in Nat
           /\ Cardinality(Pending(i)) <= Cardinality(Scanners)
           /\ Cardinality(Scanners) \in Nat
  <1>1. Pending(i) \subseteq Scanners /\ IsFiniteSet(Scanners)
    BY GovernanceAssumption DEF Pending
  <1> QED BY <1>1, FS_Subset, FS_CardinalityType

LEMMA QuietKeepsTrail ==
    ASSUME TrailInv, Len(log) \in Nat, UNCHANGED <<log, reviews, notices>>,
           \A i \in Ids : reviews[i].breached => Pending(i)' \subseteq Pending(i)
    PROVE  TrailInv'
  <1>1. /\ Ids' = Ids /\ \A i \in Ids : RowSound(i)'
        /\ \A e, i : Entries(e, i)' = Entries(e, i) /\ Actors(e, i)' = Actors(e, i)
    BY DEF TrailInv, Ids, RowSound, Entries, Actors
  <1>2. ASSUME NEW i \in Ids PROVE TrailOf(i)'
    BY <1>1 DEF TrailInv, TrailOf
  <1>3. ASSUME NEW i \in Ids PROVE BreachesLeft(i)'
    <2>1. SUFFICES ASSUME reviews[i].breached
                   PROVE  Cardinality(Entries("sla_breached", i)) + Cardinality(Pending(i)')
                              <= Cardinality(Scanners)
      BY <1>1 DEF BreachesLeft
    <2>2. Cardinality(Pending(i)') <= Cardinality(Pending(i)) /\ Cardinality(Pending(i)') \in Nat
      <3>1. Pending(i)' \subseteq Pending(i)
        BY <2>1
      <3> QED BY <3>1, PendingFinite, FS_Subset, FS_CardinalityType
    <2>3. Cardinality(Entries("sla_breached", i)) + Cardinality(Pending(i))
              <= Cardinality(Scanners)
      BY <2>1 DEF TrailInv, BreachesLeft
    <2> QED BY <2>2, <2>3, EntriesFinite, PendingFinite
  <1>4. \A k \in 1 .. Len(log)' : log'[k].body.review \in Ids'
    BY <1>1 DEF TrailInv
  <1> QED BY <1>1, <1>2, <1>3, <1>4 DEF TrailInv

LEMMA IdsType ==
    ASSUME TypeInv
    PROVE  /\ Len(reviews) \in Nat /\ Ids \subseteq Nat
           /\ \A i \in Ids : reviews[i] \in ReviewRows
  <1>1. reviews \in Seq(ReviewRows)
    BY DEF TypeInv
  <1> QED BY <1>1, ElementOfSeq, LenProperties DEF Ids

(* Who has sealed keeps what it has sealed while a handler that has not    *)
(* sealed goes on.                                                         *)
LEMMA SealedStays ==
    ASSUME TypeInv, Sealed, NEW t \in Handlers, NEW label, NEW q,
           pc' = [pc EXCEPT ![t] = label], req' = [req EXCEPT ![t] = q],
           label # "commit", UNCHANGED <<reviews, holder, draft>>
    PROVE  Sealed'
  <1>1. /\ t \in Txs /\ \A u \in Handlers \ {t} : u \in Txs
        /\ \A s \in Scanners : s \in Txs /\ s # t
    BY GovernanceAssumption
  <1>2. /\ pc'[t] # "commit"
        /\ \A u \in Handlers \ {t} : pc'[u] = pc[u] /\ req'[u] = req[u]
        /\ \A s \in Scanners : pc'[s] = pc[s] /\ req'[s] = req[s]
    BY <1>1 DEF TypeInv
  <1>3. ASSUME NEW u \in Handlers \ {t} PROVE Entry(req[u])' = Entry(req[u])
    <2>1. req'[u] = req[u] /\ reviews' = reviews
      BY <1>2
    <2>2. Subject(req[u])' = Subject(req[u])
      BY <2>1 DEF Subject
    <2>3. Event(req[u])' = Event(req[u])
      BY <2>1 DEF Event
    <2> QED BY <2>1, <2>2, <2>3 DEF Entry
  <1> QED BY <1>2, <1>3 DEF Sealed

(* What the locks protect when one handler goes on and no row changes.     *)
LEMMA LocksStay ==
    ASSUME TypeInv, LocksHold, NEW t \in Handlers, NEW label, NEW q,
           pc' = [pc EXCEPT ![t] = label], req' = [req EXCEPT ![t] = q],
           UNCHANGED reviews, ReadHolds(t)',
           \A u \in Handlers \ {t} : Apart(t, u)'
    PROVE  LocksHold'
  <1>1. t \in Txs /\ \A u \in Handlers \ {t} : u \in Txs
    BY GovernanceAssumption
  <1>2. \A u \in Handlers \ {t} : pc'[u] = pc[u] /\ req'[u] = req[u]
    BY <1>1 DEF TypeInv
  <1>3. \A u \in Handlers \ {t} : ReadHolds(u)'
    BY <1>2 DEF LocksHold, ReadHolds, InTx, Undecided, Ids
  <1>4. \A u \in Handlers \ {t} : Apart(u, t)'
    BY DEF Apart
  <1>5. \A u, x \in Handlers \ {t} : u # x => Apart(u, x)'
    BY <1>2 DEF LocksHold, Apart, InTx
  <1> QED BY <1>3, <1>4, <1>5 DEF LocksHold

(* Nor do the steps of a scanner touch them.                               *)
LEMMA LocksIgnoreScanners ==
    ASSUME LocksHold, UNCHANGED reviews,
           \A t \in Handlers : pc'[t] = pc[t] /\ req'[t] = req[t]
    PROVE  LocksHold'
  <1>1. \A t \in Handlers : ReadHolds(t)'
    BY DEF LocksHold, ReadHolds, InTx, Undecided, Ids
  <1>2. \A t, u \in Handlers : t # u => Apart(t, u)'
    BY DEF LocksHold, Apart, InTx
  <1> QED BY <1>1, <1>2 DEF LocksHold

LEMMA SubmitCheckKeeps ==
    ASSUME IInv, NEW t \in Handlers, NEW v \in Versions, NEW u \in Submitters,
           NEW x \in Routes, NEW f \in {"none", "blocking", "pii"},
           SubmitCheck(t, v, u, x, f)
    PROVE  IInv'
  <1> USE DEF IInv
  <1>1. /\ pc[t] = "idle" /\ pc' = [pc EXCEPT ![t] = "insert"]
        /\ UNCHANGED <<chainVars, govVars, notices, queue>>
    BY DEF SubmitCheck, Goto
  <1>2. PICK q \in Submissions : req' = [req EXCEPT ![t] = q]
    <2> DEFINE roles == x.roles \cup (IF f = "pii" THEN {"privacy-team"} ELSE {})
               q == [op |-> "submit", version |-> v, by |-> u, roles |-> roles,
                     needed |-> normaliseQuorum(x.quorum, Cardinality(roles)),
                     auto |-> Check(v, f)]
    <2>1. req' = [req EXCEPT ![t] = q]
      BY DEF SubmitCheck
    <2>2. roles \in {x.roles, x.roles \cup {"privacy-team"}}
      OBVIOUS
    <2>3. normaliseQuorum(x.quorum, Cardinality(roles)) \in Needs
      BY <2>2, NeedsType
    <2>4. roles \in SUBSET AnyRole
      BY DEF AnyRole
    <2>5. /\ Check(v, f) \in BOOLEAN /\ u \in Users
          /\ Check(v, f) => v \notin HumanOnly
      BY GovernanceAssumption DEF Check
    <2> HIDE DEF roles
    <2>6. q \in Submissions
      BY <2>3, <2>4, <2>5 DEF Submissions
    <2> QED BY <2>1, <2>6
  <1>3. TypeInv'
    BY <1>1, <1>2, GovernanceAssumption DEF TypeInv, InTx, Ids, govVars
  <1>4. ChainInv(Bodies)'
    BY <1>1, QuietKeepsChain
  <1>5. Sealed'
    BY <1>1, <1>2, SealedStays DEF chainVars, govVars
  <1>6. LocksHold'
    <2>1. ~ InTx(t)'
      BY <1>1, GovernanceAssumption DEF TypeInv, InTx
    <2>2. ReadHolds(t)' /\ \A y \in Handlers \ {t} : Apart(t, y)'
      BY <2>1 DEF ReadHolds, Apart
    <2> QED BY <1>1, <1>2, <2>2, LocksStay DEF govVars
  <1>7. TrailInv'
    BY <1>1, QuietKeepsTrail DEF chainVars, govVars, ChainInv, Pending
  <1> QED BY <1>3, <1>4, <1>5, <1>6, <1>7

LEMMA SubmitInsertKeeps ==
    ASSUME IInv, NEW t \in Handlers, SubmitInsert(t)
    PROVE  IInv'
  <1> USE DEF IInv
  <1>1. /\ pc[t] = "insert" /\ ~ SlotTaken(req[t].version)
        /\ UNCHANGED <<chainVars, govVars, notices, queue>>
        /\ req[t] \in Submissions /\ req[t].op = "submit"
    BY DEF SubmitInsert, TypeInv, Submissions
  <1>2. \/ /\ Undecided(req[t].version) = {}
           /\ pc' = [pc EXCEPT ![t] = "seal"] /\ req' = req
        \/ /\ pc' = [pc EXCEPT ![t] = "idle"]
           /\ req' = [req EXCEPT ![t] = NoRequest]
    BY DEF SubmitInsert, Goto, Done
  <1>3. PICK label, q : /\ pc' = [pc EXCEPT ![t] = label] /\ label # "commit"
                        /\ req' = [req EXCEPT ![t] = q]
                        /\ label = "seal" => q = req[t] /\ Undecided(req[t].version) = {}
                        /\ label # "seal" => label = "idle"
    <2>1. CASE req' = req
      <3>1. req' = [req EXCEPT ![t] = req[t]]
        BY <2>1, GovernanceAssumption DEF TypeInv
      <3> QED BY <3>1, <1>2, GovernanceAssumption DEF TypeInv
    <2> QED BY <2>1, <1>2
  <1>4. TypeInv'
    BY <1>1, <1>2, GovernanceAssumption DEF TypeInv, InTx, Ids, govVars
  <1>5. ChainInv(Bodies)'
    BY <1>1, QuietKeepsChain
  <1>6. Sealed'
    BY <1>1, <1>3, SealedStays DEF chainVars, govVars
  <1>7. LocksHold'
    <2>1. \A u \in Handlers : InTx(u) /\ req[u].op = "submit" =>
             req[u].version # req[t].version
      BY <1>1 DEF SlotTaken
    <2>2. t \in Txs /\ \A u \in Handlers \ {t} : u \in Txs
      BY GovernanceAssumption
    <2>3. \A u \in Handlers \ {t} : pc'[u] = pc[u] /\ req'[u] = req[u]
      BY <2>2, <1>3 DEF TypeInv
    <2>4. InTx(t)' => req'[t] = req[t] /\ Undecided(req[t].version) = {}
      BY <1>3, <2>2 DEF TypeInv, InTx
    <2>5. ReadHolds(t)'
      BY <2>4, <1>1 DEF ReadHolds, Undecided, Ids, govVars
    <2>6. \A u \in Handlers \ {t} : Apart(t, u)'
      BY <2>1, <2>3, <2>4, <1>1 DEF Apart, InTx
    <2> QED BY <2>5, <2>6, <1>1, <1>3, LocksStay DEF govVars
  <1>8. TrailInv'
    BY <1>1, QuietKeepsTrail DEF chainVars, govVars, ChainInv, Pending
  <1> QED BY <1>4, <1>5, <1>6, <1>7, <1>8

LEMMA DecideKeeps ==
    ASSUME IInv, NEW t \in Handlers, NEW i \in Ids, NEW u \in Users,
           NEW op \in {"approve", "reject"}, NEW c \in Comments, Decide(t, i, u, op, c)
    PROVE  IInv'
  <1> USE DEF IInv
  <1> DEFINE q == [op |-> op, review |-> i, by |-> u, seen |-> reviews[i].votes,
                   quoted |-> reviews[i].quoted, comment |-> c]
  <1>1. /\ pc[t] = "idle" /\ pc' = [pc EXCEPT ![t] = "seal"]
        /\ req' = [req EXCEPT ![t] = q]
        /\ reviews[i].decider = Nobody /\ u # reviews[i].submitter
        /\ u \notin reviews[i].votes
        /\ UNCHANGED <<chainVars, govVars, notices, queue>>
    BY DEF Decide, Goto, hasPriorVote
  <1>2. \A x \in Handlers : InTx(x) /\ req[x].op # "submit" => req[x].review # i
    BY DEF Decide, ReviewLocked, Decides, TypeInv, Submissions, Decisions
  <1>3. q \in Decisions
    <2>1. i \in Nat /\ reviews[i] \in ReviewRows
      BY IdsType
    <2> QED BY <2>1 DEF Decisions, ReviewRows
  <1>4. /\ q.op # "submit" /\ q.review = i /\ q.by = u /\ q.seen = reviews[i].votes
        /\ q.quoted = reviews[i].quoted
    OBVIOUS
  <1> HIDE DEF q
  <1>5. TypeInv'
    BY <1>1, <1>3, GovernanceAssumption DEF TypeInv, InTx, Ids, govVars
  <1>6. ChainInv(Bodies)'
    BY <1>1, QuietKeepsChain
  <1>7. Sealed'
    BY <1>1, SealedStays DEF chainVars, govVars
  <1>8. LocksHold'
    <2>1. t \in Txs /\ \A x \in Handlers \ {t} : x \in Txs
      BY GovernanceAssumption
    <2>2. /\ pc'[t] = "seal" /\ req'[t] = q
          /\ \A x \in Handlers \ {t} : pc'[x] = pc[x] /\ req'[x] = req[x]
      BY <1>1, <2>1 DEF TypeInv
    <2>3. ReadHolds(t)'
      BY <2>2, <1>1, <1>4 DEF ReadHolds, Ids, govVars
    <2>4. \A x \in Handlers \ {t} : Apart(t, x)'
      BY <2>2, <1>2, <1>4 DEF Apart, InTx
    <2> QED BY <1>1, <2>3, <2>4, LocksStay DEF govVars
  <1>9. TrailInv'
    BY <1>1, QuietKeepsTrail DEF chainVars, govVars, ChainInv, Pending
  <1> QED BY <1>5, <1>6, <1>7, <1>8, <1>9

LEMMA EntryType ==
    ASSUME TypeInv, NEW t \in Handlers, InTx(t)
    PROVE  Entry(req[t]) \in Bodies
  <1>1. CASE req[t] \in Submissions
    <2>1. req[t].op = "submit" /\ req[t].auto \in BOOLEAN /\ req[t].by \in Users
      BY <1>1 DEF Submissions
    <2>2. Event(req[t]) \in Events
      BY <2>1 DEF Event, Events
    <2>3. Subject(req[t]) \in Nat
      BY <2>1, IdsType DEF Subject
    <2> QED BY <2>1, <2>2, <2>3 DEF Entry, Bodies
  <1>2. CASE req[t] \in Decisions
    <2>1. req[t].op \in {"approve", "reject"} /\ req[t].review \in Nat /\ req[t].by \in Users
      BY <1>2 DEF Decisions
    <2>2. Event(req[t]) \in Events
      BY <2>1 DEF Event, Events
    <2>3. Subject(req[t]) \in Nat
      BY <2>1 DEF Subject
    <2> QED BY <2>1, <2>2, <2>3 DEF Entry, Bodies
  <1> QED BY <1>1, <1>2 DEF TypeInv

LEMMA SealKeeps ==
    ASSUME IInv, NEW t \in Handlers, Seal(t)
    PROVE  IInv'
  <1> USE DEF IInv
  <1>1. /\ pc[t] = "seal" /\ pc' = [pc EXCEPT ![t] = "commit"] /\ req' = req
        /\ WriteEntry(t, Entry(req[t]))
        /\ UNCHANGED <<govVars, notices, queue>>
    BY DEF Seal, Goto
  <1>2. t \in Txs /\ NoTx \notin Txs /\ Scanners \subseteq Txs /\ Handlers \subseteq Txs
        /\ t \notin Scanners
    BY GovernanceAssumption
  <1>3. Entry(req[t]) \in Bodies
    BY <1>1, EntryType DEF InTx
  <1>4. /\ ChainInv(Bodies)' /\ holder = NoTx /\ holder' = t
        /\ draft'[t].body = Entry(req[t]) /\ log' = log
    BY <1>1, <1>2, <1>3, WriteKeepsChain
  <1>5. TypeInv'
    BY <1>1, <1>2 DEF TypeInv, InTx, Ids, govVars
  <1>6. Sealed'
    <2>1. /\ \A u \in Handlers : pc[u] # "commit"
          /\ \A s \in Scanners : pc[s] # "mark"
      BY <1>2, <1>4 DEF Sealed
    <2>2. /\ \A u \in Handlers \ {t} : pc'[u] # "commit"
          /\ \A s \in Scanners : pc'[s] # "mark"
      BY <2>1, <1>1, <1>2 DEF TypeInv
    <2>3. Entry(req[t])' = Entry(req[t])
      <3>1. Subject(req[t])' = Subject(req[t]) /\ Event(req[t])' = Event(req[t])
        BY <1>1 DEF Subject, Event, govVars
      <3> QED BY <3>1, <1>1 DEF Entry
    <2> QED BY <2>2, <2>3, <1>4 DEF Sealed
  <1>7. LocksHold'
    <2>1. /\ pc'[t] = "commit" /\ req' = [req EXCEPT ![t] = req[t]]
          /\ \A u \in Handlers \ {t} : pc'[u] = pc[u]
      BY <1>1, <1>2 DEF TypeInv
    <2>2. ReadHolds(t)'
      BY <2>1, <1>1 DEF LocksHold, ReadHolds, InTx, Ids, Undecided, govVars
    <2>3. \A u \in Handlers \ {t} : Apart(t, u)'
      BY <2>1, <1>1 DEF LocksHold, Apart, InTx
    <2> QED BY <2>1, <2>2, <2>3, <1>1, LocksStay DEF govVars
  <1>8. TrailInv'
    BY <1>1, <1>4, QuietKeepsTrail DEF govVars, ChainInv, Pending
  <1> QED BY <1>4, <1>5, <1>6, <1>7, <1>8

(* The end of a transaction without a commit.                              *)
LEMMA RollbackKeeps ==
    ASSUME IInv, NEW t \in Handlers, DiscardEntry(t), Done(t),
           UNCHANGED <<govVars, queue, notices>>
    PROVE  IInv'
  <1> USE DEF IInv
  <1>1. /\ pc' = [pc EXCEPT ![t] = "idle"]
        /\ req' = [req EXCEPT ![t] = NoRequest]
    BY DEF Done, Goto
  <1>2. t \in Txs /\ NoTx \notin Txs /\ Scanners \subseteq Txs /\ Handlers \subseteq Txs
        /\ t \notin Scanners
    BY GovernanceAssumption
  <1>3. /\ ChainInv(Bodies)' /\ holder' = IF holder = t THEN NoTx ELSE holder
        /\ \A x \in Txs \ {t} : draft'[x] = draft[x]
        /\ log' = log
    BY <1>2, DiscardKeepsChain
  <1>4. TypeInv'
    BY <1>1, <1>2 DEF TypeInv, InTx, Ids, govVars
  <1>5. /\ pc'[t] = "idle" /\ \A x \in Txs \ {t} : pc'[x] = pc[x] /\ req'[x] = req[x]
    BY <1>1, <1>2 DEF TypeInv
  <1>6. Sealed'
    <2>1. ASSUME NEW u \in Handlers \ {t}, pc'[u] = "commit"
          PROVE  holder' = u /\ draft'[u].body = Entry(req[u])'
      <3>1. /\ holder = u /\ draft[u].body = Entry(req[u]) /\ req'[u] = req[u]
            /\ draft'[u] = draft[u] /\ reviews' = reviews
        BY <2>1, <1>2, <1>3, <1>5 DEF Sealed, govVars
      <3>2. Subject(req[u])' = Subject(req[u]) /\ Event(req[u])' = Event(req[u])
        BY <3>1 DEF Subject, Event
      <3>3. Entry(req[u])' = Entry(req[u])
        BY <3>1, <3>2 DEF Entry
      <3> QED BY <3>1, <3>3, <1>3
    <2>2. ASSUME NEW s \in Scanners, pc'[s] = "mark"
          PROVE  holder' = s /\ draft'[s].body = req'[s]
      BY <2>2, <1>2, <1>3, <1>5 DEF Sealed
    <2> QED BY <2>1, <2>2, <1>5 DEF Sealed
  <1>7. LocksHold'
    <2>1. ~ InTx(t)'
      BY <1>5 DEF InTx
    <2>2. ReadHolds(t)' /\ \A u \in Handlers \ {t} : Apart(t, u)'
      BY <2>1 DEF ReadHolds, Apart
    <2> QED BY <2>2, <1>1, LocksStay DEF govVars
  <1>8. TrailInv'
    BY <1>3, QuietKeepsTrail DEF govVars, ChainInv, Pending
  <1> QED BY <1>3, <1>4, <1>6, <1>7, <1>8

(* A scanner lists rows, or stops before its commit.                       *)
LEMMA ScanSelectKeeps ==
    ASSUME IInv, NEW s \in Scanners, ScanSelect(s)
    PROVE  IInv'
  <1> USE DEF IInv
  <1> DEFINE found == {i \in Ids : Breachable(i)}
  <1>1. /\ pc[s] = "idle" /\ queue' = [queue EXCEPT ![s] = found]
        /\ UNCHANGED <<chainVars, govVars, pc, req, notices>>
    BY DEF ScanSelect
  <1>2. TypeInv'
    <2>1. queue' \in [Scanners -> SUBSET Ids]
      BY <1>1 DEF TypeInv
    <2>2. ASSUME NEW x \in Scanners, pc'[x] = "mark"
          PROVE  req'[x] \in Breaches /\ req'[x].review \in queue'[x]
      BY <2>2, <1>1 DEF TypeInv
    <2>3. Ids' = Ids
      BY <1>1 DEF Ids, govVars
    <2> QED BY <2>1, <2>2, <2>3, <1>1 DEF TypeInv, InTx, govVars
  <1>3. ChainInv(Bodies)' /\ UNCHANGED <<log, holder, draft>>
    BY <1>1, QuietKeepsChain
  <1>4. Sealed'
    <2>1. ASSUME NEW u \in Handlers PROVE Entry(req[u])' = Entry(req[u])
      <3>1. Subject(req[u])' = Subject(req[u]) /\ Event(req[u])' = Event(req[u])
        BY <1>1 DEF Subject, Event, govVars
      <3> QED BY <3>1, <1>1 DEF Entry
    <2> QED BY <2>1, <1>1, <1>3 DEF Sealed
  <1>5. LocksHold'
    BY <1>1, LocksIgnoreScanners DEF govVars
  <1>6. ASSUME NEW i \in Ids, reviews[i].breached
        PROVE  Pending(i)' \subseteq Pending(i)
    BY <1>1, <1>6 DEF TypeInv, Pending, Breachable
  <1>7. TrailInv'
    <2> HIDE DEF found
    <2> QED BY <1>1, <1>3, <1>6, QuietKeepsTrail DEF govVars, ChainInv
  <1> QED BY <1>2, <1>3, <1>4, <1>5, <1>7

LEMMA ScanSealKeeps ==
    ASSUME IInv, NEW s \in Scanners, NEW i \in Ids, ScanSeal(s, i)
    PROVE  IInv'
  <1> USE DEF IInv
  <1> DEFINE e == [event |-> "sla_breached", review |-> i, actor |-> Nobody]
  <1>1. /\ pc[s] = "idle" /\ i \in queue[s] /\ WriteEntry(s, e)
        /\ pc' = [pc EXCEPT ![s] = "mark"] /\ req' = [req EXCEPT ![s] = e]
        /\ UNCHANGED <<govVars, queue, notices>>
    BY DEF ScanSeal, Goto
  <1>2. s \in Txs /\ NoTx \notin Txs /\ Scanners \subseteq Txs /\ Handlers \subseteq Txs
        /\ s \notin Handlers
    BY GovernanceAssumption
  <1>3. e \in Bodies /\ e \in Breaches /\ e.review = i
    BY IdsType DEF Bodies, Events, Breaches
  <1> HIDE DEF e
  <1>4. /\ ChainInv(Bodies)' /\ holder = NoTx /\ holder' = s
        /\ draft'[s].body = e /\ log' = log
    BY <1>1, <1>2, <1>3, WriteKeepsChain
  <1>5. /\ pc'[s] = "mark" /\ req'[s] = e
        /\ \A x \in Txs \ {s} : pc'[x] = pc[x] /\ req'[x] = req[x]
    BY <1>1, <1>2 DEF TypeInv
  <1>6. TypeInv'
    BY <1>1, <1>2, <1>3, <1>5 DEF TypeInv, InTx, Ids, govVars
  <1>7. Sealed'
    <2>1. /\ \A u \in Handlers : pc[u] # "commit"
          /\ \A x \in Scanners : pc[x] # "mark"
      BY <1>2, <1>4 DEF Sealed
    <2> QED BY <2>1, <1>2, <1>4, <1>5 DEF Sealed
  <1>8. LocksHold'
    BY <1>1, <1>2, <1>5, LocksIgnoreScanners DEF govVars
  <1>9. TrailInv'
    BY <1>1, <1>4, QuietKeepsTrail DEF govVars, ChainInv, Pending
  <1> QED BY <1>4, <1>6, <1>7, <1>8, <1>9

LEMMA ScanAbortsKeeps ==
    ASSUME IInv, NEW s \in Scanners, ScanAborts(s), UNCHANGED reviews
    PROVE  IInv'
  <1> USE DEF IInv
  <1>1. /\ DiscardEntry(s) /\ queue' = [queue EXCEPT ![s] = {}]
        /\ pc' = [pc EXCEPT ![s] = "idle"] /\ req' = [req EXCEPT ![s] = NoRequest]
        /\ UNCHANGED <<govVars, notices>>
    BY DEF ScanAborts, Done, Goto, govVars
  <1>2. s \in Txs /\ NoTx \notin Txs /\ Scanners \subseteq Txs /\ Handlers \subseteq Txs
        /\ s \notin Handlers
    BY GovernanceAssumption
  <1>3. /\ ChainInv(Bodies)' /\ holder' = IF holder = s THEN NoTx ELSE holder
        /\ \A x \in Txs \ {s} : draft'[x] = draft[x]
        /\ log' = log
    BY <1>1, <1>2, DiscardKeepsChain
  <1>4. /\ pc'[s] = "idle"
        /\ \A x \in Txs \ {s} : pc'[x] = pc[x] /\ req'[x] = req[x]
        /\ \A x \in Scanners \ {s} : queue'[x] = queue[x]
    BY <1>1, <1>2 DEF TypeInv
  <1>5. TypeInv'
    BY <1>1, <1>2, <1>4 DEF TypeInv, InTx, Ids, govVars
  <1>6. Sealed'
    <2>1. ASSUME NEW u \in Handlers PROVE Entry(req[u])' = Entry(req[u])
      <3>1. req'[u] = req[u] /\ reviews' = reviews
        BY <1>2, <1>4
      <3>2. Subject(req[u])' = Subject(req[u]) /\ Event(req[u])' = Event(req[u])
        BY <3>1 DEF Subject, Event
      <3> QED BY <3>1, <3>2 DEF Entry
    <2> QED BY <2>1, <1>2, <1>3, <1>4 DEF Sealed
  <1>7. LocksHold'
    BY <1>1, <1>2, <1>4, LocksIgnoreScanners
  <1>8. \A i \in Ids : Pending(i)' \subseteq Pending(i)
    BY <1>1 DEF TypeInv, Pending
  <1>9. TrailInv'
    BY <1>1, <1>3, <1>8, QuietKeepsTrail DEF govVars, ChainInv
  <1> QED BY <1>3, <1>5, <1>6, <1>7, <1>9

LEMMA PassDeadlineKeeps ==
    ASSUME IInv, NEW i \in Ids, PassDeadline(i)
    PROVE  IInv'
  <1> USE DEF IInv
  <1>1. UNCHANGED <<chainVars, govVars, pc, req, queue, notices>>
    BY DEF PassDeadline
  <1>2. ChainInv(Bodies)' /\ UNCHANGED <<log, holder, draft>>
    BY <1>1, QuietKeepsChain
  <1>3. Sealed'
    <2>1. ASSUME NEW u \in Handlers PROVE Entry(req[u])' = Entry(req[u])
      <3>1. Subject(req[u])' = Subject(req[u]) /\ Event(req[u])' = Event(req[u])
        BY <1>1 DEF Subject, Event, govVars
      <3> QED BY <3>1, <1>1 DEF Entry
    <2> QED BY <2>1, <1>1, <1>2 DEF Sealed
  <1>4. TypeInv' /\ LocksHold'
    BY <1>1, LocksIgnoreScanners DEF TypeInv, InTx, Ids, govVars
  <1>5. TrailInv'
    BY <1>1, <1>2, QuietKeepsTrail DEF govVars, ChainInv, Pending
  <1> QED BY <1>2, <1>3, <1>4, <1>5

(* Reassign touches the roles alone, which no decision looks at.           *)
LEMMA ReassignKeeps ==
    ASSUME IInv, NEW i \in Ids, NEW roles \in {x.roles : x \in Routes}, Reassign(i, roles)
    PROVE  IInv'
  <1> USE DEF IInv
  <1>1. /\ reviews' = [reviews EXCEPT ![i].roles = roles]
        /\ UNCHANGED <<chainVars, gov, pc, req, queue, notices>>
    BY DEF Reassign
  <1>2. roles \in SUBSET AnyRole
    BY DEF AnyRole
  <1>3. /\ Len(reviews) \in Nat /\ \A j \in Ids : reviews[j] \in ReviewRows
        /\ [reviews[i] EXCEPT !.roles = roles] \in ReviewRows
    BY <1>2, IdsType DEF ReviewRows
  <1>4. /\ reviews' \in Seq(ReviewRows) /\ Len(reviews') = Len(reviews) /\ Ids' = Ids
        /\ \A j \in Ids : reviews'[j] = IF j = i THEN [reviews[i] EXCEPT !.roles = roles]
                                        ELSE reviews[j]
    BY <1>1, <1>3, ExceptSeq DEF TypeInv, Ids
  <1>5. ASSUME NEW j \in Ids
        PROVE  /\ reviews'[j].version = reviews[j].version
               /\ reviews'[j].submitter = reviews[j].submitter
               /\ reviews'[j].needed = reviews[j].needed
               /\ reviews'[j].votes = reviews[j].votes
               /\ reviews'[j].quoted = reviews[j].quoted
               /\ reviews'[j].decider = reviews[j].decider
               /\ reviews'[j].status = reviews[j].status
               /\ reviews'[j].breached = reviews[j].breached
    BY <1>3, <1>4 DEF ReviewRows
  <1>6. ChainInv(Bodies)' /\ UNCHANGED <<log, holder, draft>>
    BY <1>1, QuietKeepsChain
  <1>7. TypeInv'
    BY <1>1, <1>4 DEF TypeInv, InTx
  <1>8. Sealed'
    <2>1. ASSUME NEW u \in Handlers PROVE Entry(req[u])' = Entry(req[u])
      <3>1. Subject(req[u])' = Subject(req[u]) /\ Event(req[u])' = Event(req[u])
        BY <1>1, <1>4 DEF Subject, Event
      <3> QED BY <3>1, <1>1 DEF Entry
    <2> QED BY <2>1, <1>1, <1>6 DEF Sealed
  <1>9. LocksHold'
    <2>1. \A v : Undecided(v)' = Undecided(v)
      BY <1>4, <1>5 DEF Undecided
    <2>2. ASSUME NEW t \in Handlers PROVE ReadHolds(t)'
      <3>1. SUFFICES ASSUME InTx(t)' PROVE ReadHolds(t)'
        BY DEF ReadHolds
      <3>2. InTx(t) /\ ReadHolds(t) /\ req'[t] = req[t]
        BY <3>1, <1>1 DEF LocksHold, InTx
      <3>3. CASE req[t].op = "submit"
        <4>1. Undecided(req[t].version) = {}
          BY <3>2, <3>3 DEF ReadHolds
        <4> QED BY <4>1, <2>1, <3>2, <3>3 DEF ReadHolds
      <3>4. CASE req[t].op # "submit"
        <4>1. req[t].review \in Ids
          BY <3>2, <3>4 DEF ReadHolds
        <4> DEFINE j == req[t].review
        <4>2. /\ reviews'[j].decider = reviews[j].decider
              /\ reviews'[j].votes = reviews[j].votes
              /\ reviews'[j].quoted = reviews[j].quoted
              /\ reviews'[j].submitter = reviews[j].submitter
          BY <4>1, <1>5
        <4> QED BY <4>1, <4>2, <1>4, <3>2, <3>4 DEF ReadHolds
      <3> QED BY <3>3, <3>4
    <2>3. \A t, u \in Handlers : t # u => Apart(t, u)'
      BY <1>1 DEF LocksHold, Apart, InTx
    <2> QED BY <2>2, <2>3 DEF LocksHold
  <1>10. TrailInv'
    <2>1. \A e, j : Entries(e, j)' = Entries(e, j) /\ Actors(e, j)' = Actors(e, j)
      BY <1>6 DEF Entries, Actors
    <2>2. \A j \in Ids : RowSound(j)'
      BY <1>5 DEF TrailInv, RowSound
    <2>3. ASSUME NEW j \in Ids PROVE TrailOf(j)'
      <3>1. TrailOf(j)
        BY DEF TrailInv
      <3>2. /\ Actors("approved", j)' = Actors("approved", j)
            /\ \A e : Entries(e, j)' = Entries(e, j)
        BY <2>1
      <3>3. /\ reviews'[j].votes = reviews[j].votes
            /\ reviews'[j].status = reviews[j].status
            /\ reviews'[j].breached = reviews[j].breached
        BY <1>5
      <3> QED BY <3>1, <3>2, <3>3 DEF TrailOf
    <2>4. \A j \in Ids : BreachesLeft(j)'
      BY <2>1, <1>1, <1>5 DEF TrailInv, BreachesLeft, Pending
    <2> QED BY <2>2, <2>3, <2>4, <1>1, <1>4, <1>6 DEF TrailInv
  <1> QED BY <1>6, <1>7, <1>8, <1>9, <1>10

-----------------------------------------------------------------------------
(* Commits                                                                 *)

(* The trail after an entry about review i: the other reviews and what is  *)
(* told of them stay, so that only i has to be looked at.                  *)
LEMMA TrailExtended ==
    ASSUME TrailInv, NEW b, LogGrows(b), NEW i, b.review = i, Ids' = Ids \cup {i},
           \A j \in Ids \ {i} : reviews'[j] = reviews[j] /\ Pending(j)' \subseteq Pending(j),
           RowSound(i)', TrailOf(i)', BreachesLeft(i)',
           notices' \subseteq notices \cup {b}
    PROVE  TrailInv'
  <1>1. ASSUME NEW j \in Ids \ {i}
        PROVE  RowSound(j)' /\ TrailOf(j)' /\ BreachesLeft(j)'
    <2>1. \A e : Entries(e, j)' = Entries(e, j) /\ Actors(e, j)' = Actors(e, j)
      BY EntryCounted
    <2>2. reviews'[j] = reviews[j] /\ RowSound(j) /\ TrailOf(j) /\ BreachesLeft(j)
      BY DEF TrailInv
    <2>3. RowSound(j)' /\ TrailOf(j)'
      BY <2>1, <2>2 DEF RowSound, TrailOf
    <2>4. /\ Cardinality(Pending(j)') <= Cardinality(Pending(j))
          /\ Cardinality(Pending(j)') \in Nat
      BY PendingFinite, FS_Subset, FS_CardinalityType
    <2>5. BreachesLeft(j)'
      <3>1. Len(log) \in Nat
        BY DEF LogGrows
      <3>2. Cardinality(Entries("sla_breached", j)) \in Nat
        BY <3>1, EntriesFinite
      <3> QED BY <2>1, <2>2, <2>4, <3>2, PendingFinite DEF BreachesLeft
    <2> QED BY <2>3, <2>5
  <1>2. \A k \in 1 .. Len(log)' : \/ k \in 1 .. Len(log) /\ log'[k] = log[k]
                                  \/ k = Len(log) + 1 /\ log'[k].body = b
    BY DEF LogGrows
  <1>3. \A k \in 1 .. Len(log)' : log'[k].body.review \in Ids'
    BY <1>2 DEF TrailInv
  <1>4. ASSUME NEW n \in notices'
        PROVE  \E k \in 1 .. Len(log)' : log'[k].body = n
    <2>1. CASE n = b
      <3>1. Len(log) + 1 \in 1 .. Len(log)' /\ log'[Len(log) + 1].body = n
        BY <2>1 DEF LogGrows
      <3> QED BY <3>1
    <2>2. CASE n \in notices
      <3>1. PICK k \in 1 .. Len(log) : log[k].body = n
        BY <2>2 DEF TrailInv
      <3>2. k \in 1 .. Len(log)' /\ log'[k].body = n
        BY <3>1 DEF LogGrows
      <3> QED BY <3>2
    <2> QED BY <2>1, <2>2
  <1> QED BY <1>1, <1>3, <1>4 DEF TrailInv

(* What every commit has in common: it has the sentinel for itself.        *)
LEMMA CommitFacts ==
    ASSUME IInv, NEW t \in Txs, holder = t, PublishEntry(t), Done(t),
           \/ t \in Handlers /\ draft[t].body = Entry(req[t])
           \/ t \in Scanners /\ draft[t].body = req[t]
    PROVE  /\ ChainInv(Bodies)' /\ LogGrows(draft[t].body) /\ Sealed'
           /\ \A x \in Txs \ {t} : pc'[x] = pc[x] /\ req'[x] = req[x]
           /\ pc'[t] = "idle" /\ pc' = [x \in Txs |-> pc'[x]] /\ req' = [x \in Txs |-> req'[x]]
           /\ \A u \in Handlers \ {t} : pc[u] # "commit"
           /\ \A s \in Scanners \ {t} : pc[s] # "mark"
  <1> USE DEF IInv
  <1>1. NoTx \notin Txs /\ Handlers \subseteq Txs /\ Scanners \subseteq Txs
    BY GovernanceAssumption
  <1>2. ChainInv(Bodies)' /\ LogGrows(draft[t].body)
    BY <1>1, PublishKeepsChain DEF LogGrows
  <1>3. /\ pc'[t] = "idle" /\ pc' = [x \in Txs |-> pc'[x]] /\ req' = [x \in Txs |-> req'[x]]
        /\ \A x \in Txs \ {t} : pc'[x] = pc[x] /\ req'[x] = req[x]
    BY DEF Done, Goto, TypeInv
  <1>4. /\ \A u \in Handlers \ {t} : pc[u] # "commit"
        /\ \A s \in Scanners \ {t} : pc[s] # "mark"
    BY DEF Sealed
  <1>5. Sealed'
    BY <1>1, <1>3, <1>4 DEF Sealed
  <1> QED BY <1>2, <1>3, <1>4, <1>5

(* The committing transaction lets go of its locks, and what the others    *)
(* have read is still there.                                               *)
LEMMA CommitKeepsLocks ==
    ASSUME LocksHold,
           \A u \in Handlers :
              \/ pc'[u] = "idle"
              \/ /\ pc'[u] = pc[u] /\ req'[u] = req[u]
                 /\ InTx(u) /\ req[u].op = "submit" => Undecided(req[u].version)' = {}
                 /\ InTx(u) /\ req[u].op # "submit" =>
                       /\ req[u].review \in Ids'
                       /\ reviews'[req[u].review].decider = reviews[req[u].review].decider
                       /\ reviews'[req[u].review].votes = reviews[req[u].review].votes
                       /\ reviews'[req[u].review].quoted = reviews[req[u].review].quoted
                       /\ reviews'[req[u].review].submitter = reviews[req[u].review].submitter
    PROVE  LocksHold'
  <1>1. ASSUME NEW u \in Handlers PROVE ReadHolds(u)'
    <2>1. CASE pc'[u] = "idle"
      BY <2>1 DEF ReadHolds, InTx
    <2>2. CASE pc'[u] # "idle"
      <3>1. SUFFICES ASSUME InTx(u) PROVE ReadHolds(u)'
        BY <2>2 DEF ReadHolds, InTx
      <3>2. ReadHolds(u) /\ req'[u] = req[u]
        BY <2>2 DEF LocksHold
      <3>3. CASE req[u].op = "submit"
        BY <3>1, <3>2, <3>3, <2>2 DEF ReadHolds
      <3>4. CASE req[u].op # "submit"
        BY <3>1, <3>2, <3>4, <2>2 DEF ReadHolds
      <3> QED BY <3>3, <3>4
    <2> QED BY <2>1, <2>2
  <1>2. ASSUME NEW t \in Handlers, NEW u \in Handlers, t # u PROVE Apart(t, u)'
    <2>1. SUFFICES ASSUME InTx(t)', InTx(u)' PROVE Apart(t, u)'
      BY DEF Apart
    <2>2. /\ pc'[t] = pc[t] /\ req'[t] = req[t] /\ pc'[u] = pc[u] /\ req'[u] = req[u]
      BY <2>1 DEF InTx
    <2>3. Apart(t, u)
      BY <1>2 DEF LocksHold
    <2> QED BY <2>1, <2>2, <2>3 DEF Apart, InTx
  <1> QED BY <1>1, <1>2 DEF LocksHold

(* What a commit of handler t does besides Publish.                        *)
LEMMA HandlerCommits ==
    ASSUME IInv, NEW t \in Handlers, Commit(t)
    PROVE  /\ pc[t] = "commit" /\ InTx(t) /\ Publish(req[t]) /\ ReadHolds(t)
           /\ req[t] \in Submissions \cup Decisions
           /\ ChainInv(Bodies)' /\ LogGrows(Entry(req[t])) /\ Sealed'
           /\ notices' \subseteq notices \cup {Entry(req[t])} /\ queue' = queue
           /\ pc'[t] = "idle" /\ \A x \in Txs \ {t} : pc'[x] = pc[x] /\ req'[x] = req[x]
           /\ pc' = [x \in Txs |-> pc'[x]] /\ req' = [x \in Txs |-> req'[x]]
           /\ \A s \in Scanners : pc[s] # "mark"
  <1>1. /\ pc[t] = "commit" /\ InTx(t) /\ Publish(req[t]) /\ queue' = queue
        /\ PublishEntry(t) /\ Done(t)
        /\ notices' \subseteq notices \cup {Entry(req[t])}
    BY DEF Commit, Enqueue, InTx
  <1>2. t \in Txs /\ t \notin Scanners
    BY GovernanceAssumption
  <1>3. holder = t /\ draft[t].body = Entry(req[t])
    BY <1>1 DEF IInv, Sealed
  <1>4. ReadHolds(t) /\ req[t] \in Submissions \cup Decisions
    BY <1>1 DEF IInv, LocksHold, TypeInv
  <1> QED BY <1>1, <1>2, <1>3, <1>4, CommitFacts

LEMMA CommitKeepsType ==
    ASSUME TypeInv, NEW t \in Txs, pc'[t] = "idle",
           \A x \in Txs \ {t} : pc'[x] = pc[x] /\ req'[x] = req[x],
           pc' = [x \in Txs |-> pc'[x]], req' = [x \in Txs |-> req'[x]],
           \A s \in Scanners \ {t} : pc[s] # "mark",
           gov' = [v \in Versions |-> gov'[v]],
           reviews' \in Seq(ReviewRows), queue' \in [Scanners -> SUBSET Ids']
    PROVE  TypeInv'
  <1>1. Handlers \subseteq Txs /\ Scanners \subseteq Txs
    BY GovernanceAssumption
  <1>2. ASSUME NEW u \in Handlers
        PROVE  /\ pc'[u] \in {"idle", "insert", "seal", "commit"}
               /\ pc'[u] = "insert" => req'[u] \in Submissions
               /\ InTx(u)' => req'[u] \in Submissions \cup Decisions
    <2>1. CASE u = t
      BY <2>1 DEF InTx
    <2>2. CASE u # t
      BY <2>2, <1>1 DEF TypeInv, InTx
    <2> QED BY <2>1, <2>2
  <1>3. \A s \in Scanners : pc'[s] = "idle"
    BY <1>1 DEF TypeInv
  <1> QED BY <1>2, <1>3 DEF TypeInv

(* A decision changes its own row, which nobody else has locked.           *)
LEMMA DecisionKeeps ==
    ASSUME IInv, NEW t \in Handlers, Commit(t), req[t].op # "submit",
           NEW i \in Ids, i = req[t].review, NEW r \in ReviewRows,
           reviews' = [reviews EXCEPT ![i] = r],
           r.version = reviews[i].version, r.breached = reviews[i].breached,
           gov' = [v \in Versions |-> gov'[v]],
           RowSound(i)', TrailOf(i)', Entry(req[t]).event # "sla_breached"
    PROVE  IInv'
  <1> USE DEF IInv
  <1>1. t \in Txs /\ Handlers \subseteq Txs /\ t \notin Scanners /\ Scanners \subseteq Txs
    BY GovernanceAssumption
  <1>2. /\ reviews' \in Seq(ReviewRows) /\ Len(reviews') = Len(reviews) /\ Ids' = Ids
        /\ \A j \in Ids : reviews'[j] = IF j = i THEN r ELSE reviews[j]
    BY IdsType, ExceptSeq DEF TypeInv, Ids
  <1>3. TypeInv'
    <2>1. queue' \in [Scanners -> SUBSET Ids']
      BY <1>2, HandlerCommits DEF TypeInv
    <2> QED BY <1>1, <1>2, <2>1, HandlerCommits, CommitKeepsType
  <1>4. LocksHold'
    <2>1. reviews[i].decider = Nobody /\ InTx(t)
      BY HandlerCommits DEF ReadHolds
    <2>2. \A v : Undecided(v) = {} => Undecided(v)' = {}
      BY <1>2, <2>1 DEF Undecided
    <2>3. pc'[t] = "idle" /\ \A u \in Handlers \ {t} : pc'[u] = pc[u] /\ req'[u] = req[u]
      BY <1>1, HandlerCommits
    <2>4. ASSUME NEW u \in Handlers \ {t}, InTx(u)
          PROVE  /\ req[u].op = "submit" => Undecided(req[u].version)' = {}
                 /\ req[u].op # "submit" => req[u].review \in Ids /\ req[u].review # i
      <3>1. ReadHolds(u) /\ Apart(u, t)
        BY DEF LocksHold
      <3>2. CASE req[u].op = "submit"
        <4>1. Undecided(req[u].version) = {}
          BY <3>1, <3>2, <2>4 DEF ReadHolds
        <4> QED BY <4>1, <2>2, <2>3, <3>2
      <3>3. CASE req[u].op # "submit"
        <4>1. req[u].review \in Ids
          BY <3>1, <3>3, <2>4 DEF ReadHolds
        <4>2. req[u].review # req[t].review
          BY <3>1, <3>3, <2>1, <2>4 DEF Apart
        <4> QED BY <4>1, <4>2, <3>3
      <3> QED BY <3>2, <3>3
    <2>5. ASSUME NEW u \in Handlers \ {t}, InTx(u), req[u].op # "submit"
          PROVE  req[u].review \in Ids' /\ reviews'[req[u].review] = reviews[req[u].review]
      BY <2>4, <2>5, <1>2
    <2> QED BY <2>3, <2>4, <2>5, CommitKeepsLocks
  <1>5. TrailInv'
    <2> DEFINE b == Entry(req[t])
    <2>1. b.review = i
      BY DEF Entry, Subject
    <2>2. LogGrows(b) /\ notices' \subseteq notices \cup {b} /\ queue' = queue
      BY HandlerCommits
    <2> HIDE DEF b
    <2>3. \A j : Pending(j)' = Pending(j)
      BY <2>2 DEF Pending
    <2>4. BreachesLeft(i)'
      <3>1. Entries("sla_breached", i)' = Entries("sla_breached", i)
        BY <2>2, EntryCounted DEF b
      <3>2. reviews'[i].breached = reviews[i].breached /\ BreachesLeft(i)
        BY <1>2 DEF TrailInv
      <3> QED BY <3>1, <3>2, <2>3 DEF BreachesLeft
    <2>5. Ids' = Ids \cup {i} /\ \A j \in Ids \ {i} : reviews'[j] = reviews[j]
      BY <1>2
    <2> QED BY <2>1, <2>2, <2>3, <2>4, <2>5, TrailExtended
  <1> QED BY <1>3, <1>4, <1>5, HandlerCommits

(* A decision as one update of the row.                                    *)
Decided(row, votes, quoted, status, decider) ==
    [row EXCEPT !.votes = votes, !.quoted = quoted, !.status = status, !.decider = decider]

(* Handler t replaces row i by r, on which `by' has just decided.          *)
Replaces(t, i, by, r) ==
    /\ i = req[t].review /\ by = req[t].by
    /\ reviews[i].decider = Nobody
    /\ by # reviews[i].submitter /\ by \notin reviews[i].votes
    /\ r.version = reviews[i].version /\ r.submitter = reviews[i].submitter
    /\ r.needed = reviews[i].needed /\ r.breached = reviews[i].breached
    /\ reviews' = [reviews EXCEPT ![i] = r]
    /\ Ids' = Ids
    /\ \A j \in Ids : reviews'[j] = IF j = i THEN r ELSE reviews[j]

LEMMA LockedRow ==
    ASSUME IInv, NEW t \in Handlers, Commit(t), req[t].op # "submit"
    PROVE  \E i \in Ids, by \in Users :
              /\ i = req[t].review /\ by = req[t].by
              /\ reviews[i] \in ReviewRows /\ RowSound(i) /\ TrailOf(i)
              /\ reviews[i].decider = Nobody /\ req[t].seen = reviews[i].votes
              /\ req[t].quoted = reviews[i].quoted /\ req[t].comment \in Comments
              /\ by # reviews[i].submitter /\ by \notin reviews[i].votes
              /\ reviews[i].status \notin {"approved", "rejected"}
  <1>1. req[t].review \in Ids /\ ReadHolds(t) /\ InTx(t)
    BY HandlerCommits DEF ReadHolds
  <1>2. req[t].by \in Users /\ req[t].comment \in Comments
    BY HandlerCommits DEF Submissions, Decisions
  <1>3. RowSound(req[t].review) /\ TrailOf(req[t].review)
    BY <1>1 DEF IInv, TrailInv
  <1> QED BY <1>1, <1>2, <1>3, IdsType DEF IInv, ReadHolds, RowSound

LEMMA ApproveFacts ==
    ASSUME IInv, NEW t \in Handlers, Commit(t), req[t].op = "approve"
    PROVE  \E i \in Ids, by \in Users, c \in Comments, r \in ReviewRows,
                enough \in BOOLEAN :
              /\ Replaces(t, i, by, r)
              /\ r.votes = reviews[i].votes \cup {by}
              /\ IsFiniteSet(r.votes) /\ Cardinality(r.votes) = Cardinality(reviews[i].votes) + 1
              /\ r.quoted.approvals = reviews[i].quoted.approvals + c.approvals
              /\ enough <=> Cardinality(r.votes) + reviews[i].quoted.approvals >= r.needed
              /\ r.status = IF enough THEN "approved" ELSE reviews[i].status
              /\ r.decider = IF enough THEN by ELSE Nobody
              /\ gov' = IF enough THEN [gov EXCEPT ![reviews[i].version] = "active"] ELSE gov
  <1> USE DEF IInv
  <1>1. PICK i \in Ids, by \in Users, c \in Comments :
           /\ i = req[t].review /\ by = req[t].by /\ c = req[t].comment
           /\ reviews[i] \in ReviewRows /\ RowSound(i)
           /\ reviews[i].decider = Nobody /\ req[t].seen = reviews[i].votes
           /\ req[t].quoted = reviews[i].quoted
           /\ by # reviews[i].submitter /\ by \notin reviews[i].votes
    BY LockedRow
  <1>2. PICK enough \in BOOLEAN : enough <=> Enough(req[t])
    OBVIOUS
  <1>3. PICK votes, quoted, status, decider :
           /\ votes = reviews[i].votes \cup {by}
           /\ quoted = WithQuotes(reviews[i].quoted, c)
           /\ status = IF enough THEN "approved" ELSE reviews[i].status
           /\ decider = IF enough THEN by ELSE Nobody
    OBVIOUS
  <1>4. /\ votes \in SUBSET Users
        /\ quoted \in Quoted
        /\ quoted.approvals = reviews[i].quoted.approvals + c.approvals
        /\ status \in {"auto_approved", "in_review", "approved", "rejected"}
        /\ decider \in Users \cup {Nobody}
    <2>1. c \in Quoted /\ reviews[i].quoted \in Quoted /\ reviews[i] \in ReviewRows
      BY <1>1, GovernanceAssumption DEF ReviewRows, Quoted
    <2>2. /\ quoted \in Quoted
          /\ quoted.approvals = reviews[i].quoted.approvals + c.approvals
      BY <2>1, <1>3 DEF WithQuotes, Quoted
    <2> QED BY <2>1, <2>2, <1>1, <1>3 DEF ReviewRows
  <1>5. PICK row, r :
           /\ row \in ReviewRows /\ row = reviews[i]
           /\ r = Decided(row, votes, quoted, status, decider)
    BY <1>1
  <1>6. /\ r \in ReviewRows
        /\ r.votes = votes /\ r.quoted = quoted /\ r.status = status /\ r.decider = decider
        /\ r.version = row.version /\ r.submitter = row.submitter
        /\ r.needed = row.needed /\ r.breached = row.breached
        /\ status = row.status /\ decider = row.decider =>
              r = [row EXCEPT !.votes = votes, !.quoted = quoted]
    BY <1>4, <1>5 DEF ReviewRows, Decided
  <1>7. /\ reviews' = [reviews EXCEPT ![i] = r]
        /\ gov' = IF enough THEN [gov EXCEPT ![reviews[i].version] = "active"] ELSE gov
    <2>1. reviews \in Seq(ReviewRows) /\ i \in 1 .. Len(reviews)
      BY DEF TypeInv, Ids
    <2>2. CASE enough
      <3>1. /\ reviews' = [reviews EXCEPT ![i].votes = votes, ![i].quoted = quoted,
                                          ![i].status = status, ![i].decider = decider]
            /\ gov' = [gov EXCEPT ![reviews[i].version] = "active"]
        BY <2>2, <1>1, <1>2, <1>3, HandlerCommits DEF Publish
      <3>2. [reviews EXCEPT ![i].votes = votes, ![i].quoted = quoted, ![i].status = status,
                            ![i].decider = decider]
               = [reviews EXCEPT ![i] = Decided(reviews[i], votes, quoted, status, decider)]
        BY <2>1 DEF Decided
      <3> QED BY <3>1, <3>2, <1>5, <2>2
    <2>3. CASE ~ enough
      <3>1. reviews' = [reviews EXCEPT ![i].votes = votes, ![i].quoted = quoted] /\ gov' = gov
        BY <2>3, <1>1, <1>2, <1>3, HandlerCommits DEF Publish
      <3>2. r = [reviews[i] EXCEPT !.votes = votes, !.quoted = quoted]
        BY <2>3, <1>1, <1>3, <1>5, <1>6
      <3> QED BY <3>1, <3>2, <2>1, <2>3
    <2> QED BY <2>2, <2>3
  <1>8. /\ Ids' = Ids
        /\ \A j \in Ids : reviews'[j] = IF j = i THEN r ELSE reviews[j]
    BY <1>7, <1>6, IdsType, ExceptSeq DEF TypeInv, Ids
  <1>9. IsFiniteSet(votes) /\ Cardinality(votes) = Cardinality(reviews[i].votes) + 1
    BY <1>1, <1>3, FS_AddElement DEF RowSound
  <1>10. enough <=> Cardinality(votes) + reviews[i].quoted.approvals >= r.needed
    <2>1. reviews[i].quoted.approvals \in Nat /\ Cardinality(reviews[i].votes) \in Nat
      BY <1>1, FS_CardinalityType DEF ReviewRows, Quoted, RowSound
    <2>2. Enough(req[t]) <=>
             Cardinality(reviews[i].votes) + reviews[i].quoted.approvals + 1 >= reviews[i].needed
      BY <1>1 DEF Enough, countApprovals
    <2> QED BY <2>1, <2>2, <1>2, <1>5, <1>6, <1>9
  <1>11. Replaces(t, i, by, r)
    BY <1>1, <1>5, <1>6, <1>7, <1>8 DEF Replaces
  <1>12. r.quoted.approvals = reviews[i].quoted.approvals + c.approvals
    BY <1>4, <1>6
  <1>13. /\ r.votes = reviews[i].votes \cup {by}
         /\ IsFiniteSet(r.votes) /\ Cardinality(r.votes) = Cardinality(reviews[i].votes) + 1
         /\ enough <=> Cardinality(r.votes) + reviews[i].quoted.approvals >= r.needed
         /\ r.status = IF enough THEN "approved" ELSE reviews[i].status
         /\ r.decider = IF enough THEN by ELSE Nobody
    BY <1>3, <1>6, <1>9, <1>10
  <1> QED BY <1>6, <1>7, <1>11, <1>12, <1>13

LEMMA ApproveKeeps ==
    ASSUME IInv, NEW t \in Handlers, Commit(t), req[t].op = "approve"
    PROVE  IInv'
  <1> USE DEF IInv
  <1>1. PICK i \in Ids, by \in Users, c \in Comments, r \in ReviewRows,
                enough \in BOOLEAN :
           /\ Replaces(t, i, by, r)
           /\ r.votes = reviews[i].votes \cup {by}
           /\ IsFiniteSet(r.votes) /\ Cardinality(r.votes) = Cardinality(reviews[i].votes) + 1
           /\ r.quoted.approvals = reviews[i].quoted.approvals + c.approvals
           /\ enough <=> Cardinality(r.votes) + reviews[i].quoted.approvals >= r.needed
           /\ r.status = IF enough THEN "approved" ELSE reviews[i].status
           /\ r.decider = IF enough THEN by ELSE Nobody
           /\ gov' = IF enough THEN [gov EXCEPT ![reviews[i].version] = "active"] ELSE gov
    BY ApproveFacts
  <1>2. /\ i = req[t].review /\ by = req[t].by /\ reviews'[i] = r
        /\ reviews' = [reviews EXCEPT ![i] = r]
        /\ r.version = reviews[i].version /\ r.submitter = reviews[i].submitter
        /\ r.needed = reviews[i].needed /\ r.breached = reviews[i].breached
        /\ by # reviews[i].submitter
    BY <1>1 DEF Replaces
  <1>3. /\ reviews[i] \in ReviewRows /\ RowSound(i) /\ TrailOf(i)
        /\ reviews[i].decider = Nobody
        /\ reviews[i].status \notin {"approved", "rejected"}
    BY <1>2, LockedRow
  <1>4. gov' = [v \in Versions |-> gov'[v]]
    BY <1>1, <1>3 DEF TypeInv, ReviewRows
  <1>5. RowSound(i)'
    <2>1. c.approvals \in Nat /\ reviews[i].quoted.approvals \in Nat
          /\ Cardinality(r.votes) \in Nat /\ r.needed \in Int
      BY <1>1, <1>3, GovernanceAssumption, FS_CardinalityType, NeedsType
         DEF ReviewRows, Quoted
    <2>2. enough => Cardinality(r.votes) + r.quoted.approvals >= r.needed
      BY <2>1, <1>1
    <2> QED BY <2>2, <1>1, <1>2, <1>3, GovernanceAssumption DEF RowSound
  <1>6. TrailOf(i)'
    <2> DEFINE b == Entry(req[t])
    <2>1. b.event = "approved" /\ b.review = i /\ b.actor = by /\ LogGrows(b)
      BY <1>2, HandlerCommits DEF Entry, Event, Subject
    <2> HIDE DEF b
    <2>2. \A e : e # "approved" => Entries(e, i)' = Entries(e, i)
      BY <2>1, EntryCounted
    <2>3. /\ Cardinality(Entries("approved", i)') = Cardinality(Entries("approved", i)) + 1
          /\ Actors("approved", i)' = Actors("approved", i) \cup {by}
      BY <2>1, EntryCounted
    <2>4. /\ Cardinality(Entries("submitted", i)' \cup Entries("auto_approved", i)') = 1
          /\ Cardinality(Entries("rejected", i)') = IF r.status = "rejected" THEN 1 ELSE 0
          /\ r.breached <=> Entries("sla_breached", i)' # {}
      <3>1. r.status # "rejected" /\ r.breached = reviews[i].breached
        BY <1>1, <1>2, <1>3
      <3> QED BY <3>1, <2>2, <1>3 DEF TrailOf
    <2>5. /\ Actors("approved", i)' = r.votes
          /\ Cardinality(Entries("approved", i)') = Cardinality(r.votes)
      BY <2>3, <1>1, <1>3 DEF TrailOf
    <2> QED BY <2>4, <2>5, <1>2 DEF TrailOf
  <1>7. Entry(req[t]).event # "sla_breached"
    BY DEF Entry, Event
  <1> QED BY <1>2, <1>4, <1>5, <1>6, <1>7, DecisionKeeps

LEMMA RejectFacts ==
    ASSUME IInv, NEW t \in Handlers, Commit(t), req[t].op = "reject"
    PROVE  \E i \in Ids, by \in Users, c \in Comments, r \in ReviewRows :
              /\ Replaces(t, i, by, r)
              /\ r.quoted.approvals = reviews[i].quoted.approvals + c.approvals
              /\ r.votes = reviews[i].votes /\ r.status = "rejected" /\ r.decider = by
              /\ gov' = [gov EXCEPT ![reviews[i].version] = "rejected"]
  <1> USE DEF IInv
  <1>1. PICK i \in Ids, by \in Users, c \in Comments :
           /\ i = req[t].review /\ by = req[t].by /\ c = req[t].comment
           /\ req[t].quoted = reviews[i].quoted
           /\ reviews[i] \in ReviewRows /\ reviews[i].decider = Nobody
           /\ by # reviews[i].submitter /\ by \notin reviews[i].votes
    BY LockedRow
  <1>7. PICK quoted : quoted = WithQuotes(reviews[i].quoted, c)
    OBVIOUS
  <1>8. quoted \in Quoted /\ quoted.approvals = reviews[i].quoted.approvals + c.approvals
    <2>1. c \in Quoted /\ reviews[i].quoted \in Quoted
      BY <1>1, GovernanceAssumption DEF ReviewRows, Quoted
    <2> QED BY <2>1, <1>7 DEF WithQuotes, Quoted
  <1>2. PICK row, r :
           /\ row \in ReviewRows /\ row = reviews[i]
           /\ r = Decided(row, row.votes, quoted, "rejected", by)
    BY <1>1
  <1>3. /\ r \in ReviewRows
        /\ r.votes = row.votes /\ r.quoted = quoted /\ r.status = "rejected" /\ r.decider = by
        /\ r.version = row.version /\ r.submitter = row.submitter
        /\ r.needed = row.needed /\ r.breached = row.breached
        /\ r = [row EXCEPT !.quoted = quoted, !.status = "rejected", !.decider = by]
    BY <1>1, <1>2, <1>8 DEF ReviewRows, Decided
  <1>4. /\ reviews' = [reviews EXCEPT ![i] = r]
        /\ gov' = [gov EXCEPT ![reviews[i].version] = "rejected"]
    <2>1. reviews \in Seq(ReviewRows) /\ i \in 1 .. Len(reviews)
      BY <1>1 DEF TypeInv, Ids
    <2>2. /\ reviews' = [reviews EXCEPT ![i].quoted = quoted, ![i].status = "rejected",
                                        ![i].decider = by]
          /\ gov' = [gov EXCEPT ![reviews[i].version] = "rejected"]
      <3>1. WithQuotes(req[t].quoted, req[t].comment) = quoted
        BY <1>1, <1>7
      <3>2. Publish(req[t]) /\ req[t].op = "reject"
        BY HandlerCommits
      <3>3. /\ reviews' = [reviews EXCEPT
                   ![req[t].review].quoted = WithQuotes(req[t].quoted, req[t].comment),
                   ![req[t].review].status = "rejected",
                   ![req[t].review].decider = req[t].by]
            /\ gov' = [gov EXCEPT ![reviews[req[t].review].version] = "rejected"]
        BY <3>2 DEF Publish
      <3> QED BY <3>1, <3>3, <1>1
    <2>3. [reviews EXCEPT ![i].quoted = quoted, ![i].status = "rejected", ![i].decider = by]
             = [reviews EXCEPT ![i] = [reviews[i] EXCEPT !.quoted = quoted,
                                                         !.status = "rejected", !.decider = by]]
      BY <2>1
    <2> QED BY <2>2, <2>3, <1>2, <1>3
  <1>5. /\ Ids' = Ids
        /\ \A j \in Ids : reviews'[j] = IF j = i THEN r ELSE reviews[j]
    BY <1>3, <1>4, IdsType, ExceptSeq DEF TypeInv, Ids
  <1>6. Replaces(t, i, by, r)
    BY <1>1, <1>2, <1>3, <1>4, <1>5 DEF Replaces
  <1> QED BY <1>2, <1>3, <1>4, <1>6, <1>8

LEMMA RejectKeeps ==
    ASSUME IInv, NEW t \in Handlers, Commit(t), req[t].op = "reject"
    PROVE  IInv'
  <1> USE DEF IInv
  <1>1. PICK i \in Ids, by \in Users, c \in Comments, r \in ReviewRows :
           /\ Replaces(t, i, by, r)
           /\ r.quoted.approvals = reviews[i].quoted.approvals + c.approvals
           /\ r.votes = reviews[i].votes /\ r.status = "rejected" /\ r.decider = by
           /\ gov' = [gov EXCEPT ![reviews[i].version] = "rejected"]
    BY RejectFacts
  <1>2. /\ i = req[t].review /\ by = req[t].by /\ reviews'[i] = r
        /\ reviews' = [reviews EXCEPT ![i] = r]
        /\ r.version = reviews[i].version /\ r.submitter = reviews[i].submitter
        /\ r.needed = reviews[i].needed /\ r.breached = reviews[i].breached
    BY <1>1 DEF Replaces
  <1>3. /\ reviews[i] \in ReviewRows /\ RowSound(i) /\ TrailOf(i)
        /\ reviews[i].status \notin {"approved", "rejected"}
    BY <1>2, LockedRow
  <1>4. gov' = [v \in Versions |-> gov'[v]]
    BY <1>1, <1>3 DEF TypeInv, ReviewRows
  <1>5. RowSound(i)'
    BY <1>1, <1>2, <1>3, GovernanceAssumption DEF RowSound
  <1>6. TrailOf(i)'
    <2> DEFINE b == Entry(req[t])
    <2>1. b.event = "rejected" /\ b.review = i /\ LogGrows(b)
      BY <1>2, HandlerCommits DEF Entry, Event, Subject
    <2> HIDE DEF b
    <2>2. \A e : e # "rejected" =>
             Entries(e, i)' = Entries(e, i) /\ Actors(e, i)' = Actors(e, i)
      BY <2>1, EntryCounted
    <2>3. Cardinality(Entries("rejected", i)') = 1
      BY <2>1, <1>3, EntryCounted DEF TrailOf
    <2>4. /\ Cardinality(Entries("submitted", i)' \cup Entries("auto_approved", i)') = 1
          /\ Actors("approved", i)' = r.votes
          /\ Cardinality(Entries("approved", i)') = Cardinality(r.votes)
          /\ r.breached <=> Entries("sla_breached", i)' # {}
      <3>1. r.votes = reviews[i].votes /\ r.breached = reviews[i].breached
        BY <1>1, <1>2
      <3> QED BY <3>1, <2>2, <1>3 DEF TrailOf
    <2> QED BY <2>3, <2>4, <1>1, <1>2 DEF TrailOf
  <1>7. Entry(req[t]).event # "sla_breached"
    BY DEF Entry, Event
  <1> QED BY <1>2, <1>4, <1>5, <1>6, <1>7, DecisionKeeps

(* A submission adds a row, whose version had no undecided review.         *)
LEMMA SubmitFacts ==
    ASSUME IInv, NEW t \in Handlers, Commit(t), req[t].op = "submit"
    PROVE  \E q \in Submissions, row \in ReviewRows :
              /\ q = req[t] /\ Undecided(q.version) = {}
              /\ reviews' = Append(reviews, row)
              /\ row.version = q.version /\ row.submitter = q.by /\ row.needed = q.needed
              /\ row.votes = {} /\ row.quoted.approvals = 0
                 /\ row.decider = Nobody /\ row.breached = FALSE
              /\ row.status \in {"auto_approved", "in_review"}
              /\ Ids' = Ids \cup {Len(reviews) + 1} /\ Len(reviews) + 1 \notin Ids
              /\ reviews'[Len(reviews) + 1] = row
              /\ \A j \in Ids : reviews'[j] = reviews[j]
              /\ gov' = [gov EXCEPT ![q.version] = IF q.auto THEN "active" ELSE "in_review"]
  <1> USE DEF IInv
  <1>1. PICK q \in Submissions : q = req[t] /\ Undecided(q.version) = {}
    BY HandlerCommits DEF ReadHolds, Decisions
  <1> DEFINE opened == [version |-> q.version, submitter |-> q.by, needed |-> q.needed,
                        roles |-> q.roles, votes |-> {}, quoted |-> NoQuotes,
                        decider |-> Nobody,
                        status |-> IF q.auto THEN "auto_approved" ELSE "in_review",
                        breached |-> FALSE]
  <1>2. /\ reviews' = Append(reviews, opened)
        /\ gov' = [gov EXCEPT ![q.version] = IF q.auto THEN "active" ELSE "in_review"]
    BY <1>1, HandlerCommits DEF Publish
  <1>3. /\ opened.version = q.version /\ opened.submitter = q.by /\ opened.needed = q.needed
        /\ opened.votes = {} /\ opened.quoted.approvals = 0
        /\ opened.decider = Nobody /\ opened.breached = FALSE
        /\ opened.status \in {"auto_approved", "in_review"}
        /\ opened \in ReviewRows
    BY DEF ReviewRows, Submissions, Quoted, NoQuotes
  <1> HIDE DEF opened
  <1>4. /\ Ids' = Ids \cup {Len(reviews) + 1} /\ Len(reviews) + 1 \notin Ids
        /\ reviews'[Len(reviews) + 1] = opened
        /\ \A j \in Ids : reviews'[j] = reviews[j]
    BY <1>2, <1>3, AppendProperties, IdsType DEF TypeInv, Ids
  <1> QED BY <1>1, <1>2, <1>3, <1>4

LEMMA SubmitKeeps ==
    ASSUME IInv, NEW t \in Handlers, Commit(t), req[t].op = "submit"
    PROVE  IInv'
  <1> USE DEF IInv
  <1>1. t \in Txs /\ Handlers \subseteq Txs /\ t \notin Scanners /\ Nobody \notin Users
    BY GovernanceAssumption
  <1>2. PICK q \in Submissions, row \in ReviewRows :
           /\ q = req[t] /\ Undecided(q.version) = {}
           /\ reviews' = Append(reviews, row)
           /\ row.version = q.version /\ row.submitter = q.by /\ row.needed = q.needed
           /\ row.votes = {} /\ row.quoted.approvals = 0
                 /\ row.decider = Nobody /\ row.breached = FALSE
           /\ row.status \in {"auto_approved", "in_review"}
           /\ Ids' = Ids \cup {Len(reviews) + 1} /\ Len(reviews) + 1 \notin Ids
           /\ reviews'[Len(reviews) + 1] = row
           /\ \A j \in Ids : reviews'[j] = reviews[j]
           /\ gov' = [gov EXCEPT ![q.version] = IF q.auto THEN "active" ELSE "in_review"]
    BY SubmitFacts
  <1>3. PICK i : /\ i = Len(reviews) + 1 /\ Ids' = Ids \cup {i} /\ i \notin Ids
                 /\ reviews'[i] = row
    BY <1>2
  <1>4. TypeInv'
    <2>1. gov' = [v \in Versions |-> gov'[v]]
      BY <1>2 DEF TypeInv, Submissions
    <2>2. queue' \in [Scanners -> SUBSET Ids']
      BY <1>2, HandlerCommits DEF TypeInv
    <2>3. reviews' \in Seq(ReviewRows)
      BY <1>2, AppendProperties DEF TypeInv
    <2> QED BY <1>1, <2>1, <2>2, <2>3, HandlerCommits, CommitKeepsType
  <1>5. LocksHold'
    <2>1. \A v : v # q.version /\ Undecided(v) = {} => Undecided(v)' = {}
      <3>1. \A j \in Ids' : \/ j \in Ids /\ reviews'[j] = reviews[j]
                            \/ reviews'[j].version = q.version
        BY <1>2, <1>3
      <3> QED BY <3>1 DEF Undecided
    <2>2. pc'[t] = "idle" /\ \A u \in Handlers \ {t} : pc'[u] = pc[u] /\ req'[u] = req[u]
      BY <1>1, HandlerCommits
    <2>3. ASSUME NEW u \in Handlers \ {t}, InTx(u), req[u].op = "submit"
          PROVE  Undecided(req[u].version)' = {}
      <3>1. Undecided(req[u].version) = {} /\ Apart(u, t)
        BY <2>3 DEF LocksHold, ReadHolds
      <3>2. req[u].version # q.version
        BY <3>1, <1>2, <2>3, HandlerCommits DEF Apart
      <3> QED BY <3>1, <3>2, <2>1, <2>2
    <2>4. ASSUME NEW u \in Handlers \ {t}, InTx(u), req[u].op # "submit"
          PROVE  req[u].review \in Ids' /\ reviews'[req[u].review] = reviews[req[u].review]
      <3>1. req[u].review \in Ids
        BY <2>4 DEF LocksHold, ReadHolds
      <3> QED BY <3>1, <1>2
    <2> QED BY <2>2, <2>3, <2>4, CommitKeepsLocks
  <1>6. TrailInv'
    <2> DEFINE b == Entry(req[t])
    <2>1. /\ b.event \in {"submitted", "auto_approved"} /\ b.review = i
          /\ LogGrows(b) /\ notices' \subseteq notices \cup {b} /\ queue' = queue
      BY <1>2, <1>3, HandlerCommits DEF Entry, Event, Subject
    <2> HIDE DEF b
    <2>2. \A e : Entries(e, i) = {} /\ Actors(e, i) = {}
      BY <1>2, <1>3, NoEntriesYet
    <2>3. \A e : e # b.event => Entries(e, i)' = {} /\ Actors(e, i)' = {}
      BY <2>1, <2>2, EntryCounted
    <2>4. ASSUME NEW e, e = b.event PROVE Entries(e, i)' = {Len(log) + 1}
      BY <2>1, <2>2, <2>4, EntryCounted
    <2>5. Cardinality(Entries("submitted", i)' \cup Entries("auto_approved", i)') = 1
      <3>1. Entries("submitted", i)' \cup Entries("auto_approved", i)' = {Len(log) + 1}
        BY <2>1, <2>3, <2>4
      <3> QED BY <3>1, FS_Singleton
    <2>6. RowSound(i)'
      BY <1>2, <1>3, FS_EmptySet DEF RowSound
    <2>7. TrailOf(i)' /\ BreachesLeft(i)'
      BY <1>2, <1>3, <2>1, <2>3, <2>5, FS_EmptySet DEF TrailOf, BreachesLeft
    <2>8. \A j : Pending(j)' = Pending(j)
      BY <2>1 DEF Pending
    <2> QED BY <1>2, <1>3, <2>1, <2>6, <2>7, <2>8, TrailExtended
  <1> QED BY <1>4, <1>5, <1>6, HandlerCommits

(* A breach: the row is marked whatever it has become, and the scanner has *)
(* one row less to report.                                                 *)
LEMMA ScanCommitKeeps ==
    ASSUME IInv, NEW s \in Scanners, ScanCommit(s)
    PROVE  IInv'
  <1> USE DEF IInv
  <1>1. s \in Txs /\ s \notin Handlers /\ Handlers \subseteq Txs
    BY GovernanceAssumption
  <1>2. PICK i \in Nat : /\ i = req[s].review /\ i \in queue[s]
                         /\ req[s].event = "sla_breached"
    BY DEF ScanCommit, TypeInv, Breaches
  <1>3. /\ pc[s] = "mark" /\ PublishEntry(s) /\ Done(s) /\ gov' = gov
        /\ ~ ReviewLocked(i)
        /\ reviews' = [reviews EXCEPT ![i].breached = TRUE]
        /\ queue' = [queue EXCEPT ![s] = queue[s] \ {i}]
        /\ notices' \subseteq notices \cup {req[s]}
    BY <1>2 DEF ScanCommit, MarkBreached, Enqueue
  <1>4. i \in Ids
    BY <1>2 DEF TypeInv
  <1>5. PICK row, r : /\ row \in ReviewRows /\ row = reviews[i]
                       /\ r = [row EXCEPT !.breached = TRUE]
    BY <1>4, IdsType
  <1>6. /\ r \in ReviewRows /\ r.breached = TRUE
        /\ r.version = row.version /\ r.submitter = row.submitter /\ r.needed = row.needed
        /\ r.votes = row.votes /\ r.quoted = row.quoted
        /\ r.decider = row.decider /\ r.status = row.status
    BY <1>5 DEF ReviewRows
  <1>7. /\ reviews' \in Seq(ReviewRows) /\ Ids' = Ids
        /\ \A j \in Ids : reviews'[j] = IF j = i THEN r ELSE reviews[j]
    <2>1. reviews' = [reviews EXCEPT ![i] = [reviews[i] EXCEPT !.breached = TRUE]]
      BY <1>3, <1>4 DEF TypeInv, Ids
    <2>2. reviews' = [reviews EXCEPT ![i] = r]
      BY <2>1, <1>5
    <2> QED BY <2>2, <1>4, <1>6, ExceptSeq DEF TypeInv, Ids
  <1>8. /\ holder = s /\ draft[s].body = req[s]
    BY <1>3 DEF Sealed
  <1>9. /\ ChainInv(Bodies)' /\ LogGrows(req[s]) /\ Sealed'
        /\ \A x \in Txs \ {s} : pc'[x] = pc[x] /\ req'[x] = req[x]
        /\ pc'[s] = "idle" /\ pc' = [x \in Txs |-> pc'[x]] /\ req' = [x \in Txs |-> req'[x]]
        /\ \A x \in Scanners \ {s} : pc[x] # "mark"
    BY <1>1, <1>3, <1>8, CommitFacts
  <1>10. TypeInv'
    <2>1. queue' \in [Scanners -> SUBSET Ids']
      BY <1>3, <1>7 DEF TypeInv
    <2>2. gov' = [v \in Versions |-> gov'[v]]
      BY <1>3 DEF TypeInv
    <2> QED BY <1>1, <1>7, <1>9, <2>1, <2>2, CommitKeepsType
  <1>11. LocksHold'
    <2>1. ASSUME NEW j \in Ids
          PROVE  /\ reviews'[j].version = reviews[j].version
                 /\ reviews'[j].decider = reviews[j].decider
                 /\ reviews'[j].votes = reviews[j].votes
                 /\ reviews'[j].quoted = reviews[j].quoted
                 /\ reviews'[j].submitter = reviews[j].submitter
      BY <1>5, <1>6, <1>7
    <2>2. \A v : Undecided(v)' = Undecided(v)
      BY <2>1, <1>7 DEF Undecided
    <2>3. \A u \in Handlers : pc'[u] = pc[u] /\ req'[u] = req[u]
      BY <1>1, <1>9
    <2>4. ASSUME NEW u \in Handlers, InTx(u), req[u].op = "submit"
          PROVE  Undecided(req[u].version)' = {}
      BY <2>2, <2>3, <2>4 DEF LocksHold, ReadHolds
    <2>5. ASSUME NEW u \in Handlers, InTx(u), req[u].op # "submit"
          PROVE  req[u].review \in Ids
      BY <2>5 DEF LocksHold, ReadHolds
    <2> QED BY <1>7, <2>1, <2>3, <2>4, <2>5, CommitKeepsLocks
  <1>12. TrailInv'
    <2>1. PICK b : b = req[s]
      OBVIOUS
    <2>2. LogGrows(b) /\ b.event = "sla_breached" /\ b.review = i
      BY <2>1, <1>2, <1>9
    <2>3. /\ \A e : e # "sla_breached" =>
                Entries(e, i)' = Entries(e, i) /\ Actors(e, i)' = Actors(e, i)
          /\ Entries("sla_breached", i)' # {}
          /\ Cardinality(Entries("sla_breached", i)') =
                Cardinality(Entries("sla_breached", i)) + 1
      <3>1. \A e : e # "sla_breached" =>
              Entries(e, i)' = Entries(e, i) /\ Actors(e, i)' = Actors(e, i)
        BY <2>2, EntryCounted
      <3>2. /\ Entries("sla_breached", i)' = Entries("sla_breached", i) \cup {Len(log) + 1}
            /\ Cardinality(Entries("sla_breached", i)') =
                  Cardinality(Entries("sla_breached", i)) + 1
        BY <2>2, EntryCounted
      <3> QED BY <3>1, <3>2
    <2>4. reviews'[i] = r /\ RowSound(i) /\ TrailOf(i) /\ BreachesLeft(i)
      BY <1>4, <1>7 DEF TrailInv
    <2>5. RowSound(i)'
      BY <2>4, <1>5, <1>6 DEF RowSound
    <2>6. TrailOf(i)'
      <3>1. /\ Cardinality(Entries("submitted", i)' \cup Entries("auto_approved", i)') = 1
            /\ Actors("approved", i)' = r.votes
            /\ Cardinality(Entries("approved", i)') = Cardinality(r.votes)
            /\ Cardinality(Entries("rejected", i)') = IF r.status = "rejected" THEN 1 ELSE 0
        BY <2>3, <2>4, <1>5, <1>6 DEF TrailOf
      <3> QED BY <3>1, <2>3, <2>4, <1>6 DEF TrailOf
    <2>7. BreachesLeft(i)'
      <3>1. s \in Pending(i) /\ Pending(i)' = Pending(i) \ {s}
        BY <1>2, <1>3 DEF Pending, TypeInv
      <3>2. Cardinality(Pending(i)') = Cardinality(Pending(i)) - 1
        BY <3>1, PendingFinite, FS_RemoveElement
      <3>3. Cardinality(Entries("sla_breached", i)) + Cardinality(Pending(i))
               <= Cardinality(Scanners)
        <4>1. CASE row.breached
          BY <4>1, <2>4, <1>5 DEF BreachesLeft
        <4>2. CASE ~ row.breached
          <5>1. Entries("sla_breached", i) = {}
            BY <4>2, <2>4, <1>5 DEF TrailOf
          <5> QED BY <5>1, FS_EmptySet, PendingFinite
        <4> QED BY <4>1, <4>2
      <3>4. Cardinality(Entries("sla_breached", i)) \in Nat
        BY <2>2, EntriesFinite DEF LogGrows
      <3>5. Cardinality(Entries("sla_breached", i)') + Cardinality(Pending(i)')
               <= Cardinality(Scanners)
        BY <2>3, <3>2, <3>3, <3>4, PendingFinite
      <3> QED BY <3>5 DEF BreachesLeft
    <2>8. ASSUME NEW j \in Ids \ {i}
          PROVE  reviews'[j] = reviews[j] /\ Pending(j)' \subseteq Pending(j)
      BY <1>3, <1>7 DEF Pending, TypeInv
    <2>9. Ids' = Ids \cup {i} /\ notices' \subseteq notices \cup {b}
      BY <2>1, <1>3, <1>4, <1>7
    <2> QED BY <2>2, <2>5, <2>6, <2>7, <2>8, <2>9, TrailExtended
  <1> QED BY <1>9, <1>10, <1>11, <1>12

-----------------------------------------------------------------------------
(* The inductive invariant                                                 *)

LEMMA InitIInv == Init => IInv
  <1> SUFFICES ASSUME Init PROVE IInv
    OBVIOUS
  <1>1. /\ reviews = <<>> /\ Ids = {} /\ log = <<>> /\ notices = {}
        /\ pc = [t \in Txs |-> "idle"] /\ req = [t \in Txs |-> NoRequest]
        /\ Handlers \subseteq Txs /\ Scanners \subseteq Txs
    BY GovernanceAssumption DEF Init, ChainInit, Ids
  <1>2. TypeInv
    BY <1>1 DEF Init, TypeInv, InTx
  <1>3. ChainInv(Bodies)
    BY InitKeepsChain, GovernanceAssumption DEF Init
  <1>4. Sealed /\ LocksHold
    BY <1>1 DEF Sealed, LocksHold, ReadHolds, Apart, InTx
  <1>5. TrailInv
    BY <1>1 DEF TrailInv
  <1> QED BY <1>2, <1>3, <1>4, <1>5 DEF IInv

LEMMA NextKeeps == IInv /\ [Next]_vars => IInv'
  <1> SUFFICES ASSUME IInv, [Next]_vars PROVE IInv'
    OBVIOUS
  <1>1. ASSUME NEW t \in Handlers, Request(t) PROVE IInv'
    BY <1>1, SubmitCheckKeeps, DecideKeeps DEF Request
  <1>2. ASSUME NEW t \in Handlers, Commit(t) PROVE IInv'
    <2>1. req[t].op \in {"submit", "approve", "reject"}
      BY <1>2, HandlerCommits DEF Submissions, Decisions
    <2> QED BY <1>2, <2>1, SubmitKeeps, ApproveKeeps, RejectKeeps
  <1>3. ASSUME NEW t \in Handlers, Proceed(t) PROVE IInv'
    BY <1>2, <1>3, SubmitInsertKeeps, SealKeeps DEF Proceed
  <1>4. ASSUME NEW t \in Handlers, HandlerFault(t) PROVE IInv'
    BY <1>4, RollbackKeeps DEF HandlerFault, govVars
  <1>5. ASSUME NEW s \in Scanners, Scan(s) PROVE IInv'
    BY <1>5, ScanSelectKeeps, ScanCommitKeeps, ScanSealKeeps DEF Scan
  <1>6. ASSUME NEW s \in Scanners, ScanFault(s) PROVE IInv'
    BY <1>6, ScanAbortsKeeps DEF ScanFault
  <1>7. ASSUME NEW s \in Scanners, NEW t \in Handlers, AbortHandler(s, t) \/ AbortScan(s, t)
        PROVE  IInv'
    BY <1>7, RollbackKeeps, ScanAbortsKeeps DEF AbortHandler, AbortScan, govVars
  <1>8. ASSUME UNCHANGED vars PROVE IInv'
    <2>1. ChainInv(Bodies)'
      BY <1>8, QuietKeepsChain DEF vars, IInv
    <2>2. TypeInv'
      BY <1>8 DEF vars, govVars, IInv, TypeInv, InTx, Ids
    <2>3. Sealed'
      <3>1. ASSUME NEW u \in Handlers PROVE Entry(req[u])' = Entry(req[u])
        <4>1. Subject(req[u])' = Subject(req[u]) /\ Event(req[u])' = Event(req[u])
          BY <1>8 DEF vars, govVars, Subject, Event
        <4> QED BY <4>1, <1>8 DEF vars, Entry
      <3> QED BY <3>1, <1>8 DEF vars, chainVars, IInv, Sealed
    <2>4. LocksHold'
      BY <1>8, LocksIgnoreScanners DEF vars, govVars, IInv
    <2>5. TrailInv'
      BY <1>8, QuietKeepsTrail DEF vars, chainVars, govVars, IInv, ChainInv, Pending
    <2> QED BY <2>1, <2>2, <2>3, <2>4, <2>5 DEF IInv
  <1> QED BY <1>1, <1>3, <1>4, <1>5, <1>6, <1>7, <1>8, ReassignKeeps, PassDeadlineKeeps
          DEF Next, Detect

(* For any number of handlers and scanners, whatever is rolled back or     *)
(* aborted: rows, locks, audit chain and trail fit together.               *)
THEOREM GovernanceInvariant == Spec => []IInv
  BY InitIInv, NextKeeps, PTL DEF Spec

(* audit.WriteEntry inside the workflow's transactions never forks the     *)
(* hash chain.                                                             *)
THEOREM ChainStaysLinked == Spec => []ChainUnbroken
  <1>1. IInv => ChainUnbroken
    BY DEF IInv, ChainInv
  <1> QED BY <1>1, GovernanceInvariant, PTL

(* decide: an approved review has as many approvals in the audit trail, by *)
(* people other than its submitter, as the quorum it was submitted with,   *)
(* less the approvals that comments quoted, whatever the comments are.     *)
THEOREM ApprovalsHaveQuorum == Spec => []QuorumHonoured
  <1>1. IInv => QuorumHonoured
    <2> SUFFICES ASSUME IInv, NEW i \in Ids, reviews[i].status = "approved"
                 PROVE  Cardinality(Actors("approved", i) \ {reviews[i].submitter})
                           + reviews[i].quoted.approvals >= reviews[i].needed
      BY DEF QuorumHonoured
    <2>1. RowSound(i) /\ TrailOf(i)
      BY DEF IInv, TrailInv
    <2>2. Actors("approved", i) \ {reviews[i].submitter} = reviews[i].votes
      BY <2>1 DEF RowSound, TrailOf
    <2> QED BY <2>1, <2>2 DEF RowSound
  <1> QED BY <1>1, GovernanceInvariant, PTL

(* Trail, rows and notifications tell the same story: one entry for each   *)
(* submission, vote and rejection, breaches at most once by each scheduler *)
(* and no notification of what was rolled back (CR-04).                    *)
THEOREM TrailIsComplete == Spec => []TrailComplete
  <1>1. IInv => TrailComplete
    <2> SUFFICES ASSUME IInv PROVE TrailComplete
      OBVIOUS
    <2>1. ASSUME NEW i \in Ids
          PROVE  TrailOf(i) /\ Cardinality(Entries("sla_breached", i)) <= Cardinality(Scanners)
      <3>1. TrailOf(i) /\ BreachesLeft(i)
        BY DEF IInv, TrailInv
      <3>2. Cardinality(Entries("sla_breached", i)) \in Nat
        BY EntriesFinite DEF IInv, ChainInv
      <3>3. CASE reviews[i].breached
        BY <3>1, <3>2, <3>3, PendingFinite DEF BreachesLeft
      <3>4. CASE ~ reviews[i].breached
        <4>1. Entries("sla_breached", i) = {}
          BY <3>1, <3>4 DEF TrailOf
        <4> QED BY <4>1, <3>1, FS_EmptySet, PendingFinite
      <3> QED BY <3>3, <3>4
    <2>2. /\ \A k \in 1 .. Len(log) : log[k].body.review \in Ids
          /\ \A n \in notices : \E k \in 1 .. Len(log) : log[k].body = n
      BY DEF IInv, TrailInv
    <2> QED BY <2>1, <2>2 DEF TrailComplete, TrailOf
  <1> QED BY <1>1, GovernanceInvariant, PTL

-----------------------------------------------------------------------------
(* The refinement of Ballot                                                *)

(* A row that no step touches is the same ballot.                          *)
LEMMA SameBallots ==
    ASSUME Len(reviews) \in Nat, Ids' = Ids,
           \A i \in Ids :
              /\ reviews'[i].version = reviews[i].version
              /\ reviews'[i].submitter = reviews[i].submitter
              /\ reviews'[i].needed = reviews[i].needed
              /\ reviews'[i].votes = reviews[i].votes
              /\ reviews'[i].quoted = reviews[i].quoted
              /\ reviews'[i].decider = reviews[i].decider
              /\ reviews'[i].status = reviews[i].status
    PROVE  ballots' = ballots
  <1>1. ASSUME NEW i \in Ids PROVE Outcome(i)' = Outcome(i)
    BY DEF Outcome
  <1> QED BY <1>1 DEF ballots

BallotRows == [version : Versions, submitter : Users, needed : Needs,
               votes : SUBSET Users, quoted : Nat,
               outcome : {"open", "accepted", "refused"}]

LEMMA BallotFacts ==
    ASSUME IInv
    PROVE  /\ ballots \in Seq(BallotRows) /\ Len(ballots) = Len(reviews)
           /\ Len(reviews) \in Nat
           /\ \A i \in Ids :
                 /\ ballots[i].version = reviews[i].version
                 /\ ballots[i].submitter = reviews[i].submitter
                 /\ ballots[i].needed = reviews[i].needed
                 /\ ballots[i].votes = reviews[i].votes
                 /\ ballots[i].quoted = reviews[i].quoted.approvals
                 /\ (ballots[i].outcome = "open") <=> (reviews[i].decider = Nobody)
           /\ \A v : Ballots!Undecided(v) = Undecided(v)
  <1>1. Len(reviews) \in Nat
    BY IdsType DEF IInv
  <1>2. ASSUME NEW i \in Ids
        PROVE  /\ ballots[i] \in BallotRows
               /\ ballots[i].version = reviews[i].version
               /\ ballots[i].submitter = reviews[i].submitter
               /\ ballots[i].needed = reviews[i].needed
               /\ ballots[i].votes = reviews[i].votes
               /\ ballots[i].quoted = reviews[i].quoted.approvals
               /\ (ballots[i].outcome = "open") <=> (reviews[i].decider = Nobody)
    <2>1. RowSound(i) /\ reviews[i] \in ReviewRows
      BY IdsType DEF IInv, TrailInv
    <2>2. (Outcome(i) = "open") <=> (reviews[i].decider = Nobody)
      <3>1. CASE reviews[i].decider = Nobody
        BY <2>1, <3>1 DEF RowSound, Outcome
      <3>2. CASE reviews[i].decider # Nobody
        BY <2>1, <3>2 DEF RowSound, Outcome
      <3> QED BY <3>1, <3>2
    <2>3. Outcome(i) \in {"open", "accepted", "refused"}
      <3>1. CASE reviews[i].decider = Nobody
        BY <2>1, <3>1 DEF RowSound, Outcome
      <3>2. CASE reviews[i].decider # Nobody
        BY <2>1, <3>2 DEF RowSound, Outcome
      <3> QED BY <3>1, <3>2
    <2> QED BY <2>1, <2>2, <2>3 DEF ballots, ReviewRows, BallotRows, Quoted
  <1>3. ballots \in [1 .. Len(reviews) -> BallotRows]
    BY <1>2 DEF ballots, Ids
  <1>4. ballots \in Seq(BallotRows) /\ Len(ballots) = Len(reviews)
    BY <1>1, <1>3, SeqDef, LenProperties
  <1>5. \A v : Ballots!Undecided(v) = Undecided(v)
    BY <1>2, <1>4 DEF Undecided, Ballots!Undecided, Ids
  <1> QED BY <1>1, <1>2, <1>4, <1>5

LEMMA SubmitOpens ==
    ASSUME IInv, NEW t \in Handlers, Commit(t), req[t].op = "submit"
    PROVE  Ballots!Next
  <1>1. PICK q \in Submissions, row \in ReviewRows :
           /\ q = req[t] /\ Undecided(q.version) = {}
           /\ reviews' = Append(reviews, row)
           /\ row.version = q.version /\ row.submitter = q.by /\ row.needed = q.needed
           /\ row.votes = {} /\ row.quoted.approvals = 0
                 /\ row.decider = Nobody /\ row.breached = FALSE
           /\ row.status \in {"auto_approved", "in_review"}
           /\ Ids' = Ids \cup {Len(reviews) + 1} /\ Len(reviews) + 1 \notin Ids
           /\ reviews'[Len(reviews) + 1] = row
           /\ \A j \in Ids : reviews'[j] = reviews[j]
           /\ gov' = [gov EXCEPT ![q.version] = IF q.auto THEN "active" ELSE "in_review"]
    BY SubmitFacts
  <1>2. PICK n : n = Len(reviews) + 1
    OBVIOUS
  <1> DEFINE opened == [version |-> q.version, submitter |-> q.by, needed |-> q.needed,
                        votes |-> {}, quoted |-> 0, outcome |-> "open"]
  <1>3. ballots' = Append(ballots, opened)
    <2>1. /\ ballots \in Seq(BallotRows) /\ Len(ballots) = Len(reviews)
          /\ Len(reviews) \in Nat /\ Ids = 1 .. Len(reviews) /\ Ids' = 1 .. n
      BY <1>1, <1>2, BallotFacts DEF Ids
    <2>2. \A i \in Ids : ballots'[i] = ballots[i]
      <3>1. \A i \in Ids : Outcome(i)' = Outcome(i)
        BY <1>1 DEF Outcome
      <3> QED BY <3>1, <1>1 DEF ballots
    <2>3. ballots'[n] = opened
      <3>1. reviews'[n] = row /\ n \in Ids'
        BY <1>1, <1>2
      <3>2. Outcome(n)' = "open"
        BY <3>1, <1>1 DEF Outcome
      <3> QED BY <3>1, <3>2, <1>1 DEF ballots
    <2>4. ballots' = [i \in 1 .. n |-> ballots'[i]]
      BY <2>1 DEF ballots
    <2>5. opened \in BallotRows
      BY DEF BallotRows, Submissions
    <2> HIDE DEF opened
    <2>6. /\ Append(ballots, opened) \in [1 .. n -> BallotRows]
          /\ Append(ballots, opened)[n] = opened
          /\ \A i \in 1 .. Len(reviews) : Append(ballots, opened)[i] = ballots[i]
      <3>1. /\ Append(ballots, opened) \in Seq(BallotRows)
            /\ Len(Append(ballots, opened)) = n
            /\ Append(ballots, opened)[n] = opened
            /\ \A i \in 1 .. Len(reviews) : Append(ballots, opened)[i] = ballots[i]
        BY <2>1, <2>5, <1>2, AppendProperties
      <3> QED BY <3>1, LenProperties
    <2>7. \A i \in 1 .. n : i \in Ids \/ i = n
      BY <2>1, <1>2
    <2>8. \A i \in 1 .. n : ballots'[i] = Append(ballots, opened)[i]
      BY <2>1, <2>2, <2>3, <2>6, <2>7
    <2> QED BY <2>4, <2>6, <2>8
  <1>4. /\ q.version \in Versions /\ q.by \in Users /\ q.needed \in Needs /\ q.auto \in BOOLEAN
        /\ q.auto => q.version \notin HumanOnly
    BY DEF Submissions
  <1>5. Ballots!Undecided(q.version) = {}
    BY <1>1, BallotFacts
  <1>6. Ballots!Open(q.version, q.by, q.needed, q.auto)
    BY <1>1, <1>3, <1>4, <1>5 DEF Ballots!Open
  <1> QED BY <1>4, <1>6 DEF Ballots!Next

(* The ballots after a decision: only the decided one is another.          *)
LEMMA BallotReplaced ==
    ASSUME IInv, NEW t, NEW i \in Ids, NEW by \in Users, NEW r \in ReviewRows,
           Replaces(t, i, by, r), NEW b \in BallotRows,
           b.version = reviews[i].version, b.submitter = reviews[i].submitter,
           b.needed = reviews[i].needed, b.votes = r.votes,
           b.quoted = r.quoted.approvals, b.outcome = Outcome(i)'
    PROVE  /\ ballots' = [ballots EXCEPT ![i] = b]
           /\ i \in 1 .. Len(ballots) /\ Ballots!Eligible(i, by)
  <1>1. /\ reviews[i].decider = Nobody /\ by # reviews[i].submitter
        /\ by \notin reviews[i].votes /\ Ids' = Ids /\ reviews'[i] = r
        /\ r.version = reviews[i].version /\ r.submitter = reviews[i].submitter
        /\ r.needed = reviews[i].needed
        /\ \A j \in Ids \ {i} : reviews'[j] = reviews[j]
    BY DEF Replaces
  <1>2. \A j \in Ids \ {i} : ballots'[j] = ballots[j]
    <2>1. \A j \in Ids \ {i} : Outcome(j)' = Outcome(j)
      BY <1>1 DEF Outcome
    <2> QED BY <2>1, <1>1 DEF ballots
  <1>3. ballots'[i] = b
    BY <1>1 DEF ballots, BallotRows
  <1>4. ballots' = [j \in Ids |-> ballots'[j]] /\ ballots = [j \in Ids |-> ballots[j]]
    BY <1>1 DEF ballots
  <1>5. ballots' = [ballots EXCEPT ![i] = b]
    BY <1>2, <1>3, <1>4
  <1>6. i \in 1 .. Len(ballots) /\ Ballots!Eligible(i, by)
    BY <1>1, BallotFacts DEF Ballots!Eligible, Ids
  <1> QED BY <1>5, <1>6

LEMMA ApproveVotes ==
    ASSUME IInv, NEW t \in Handlers, Commit(t), req[t].op = "approve"
    PROVE  Ballots!Next
  <1>1. PICK i \in Ids, by \in Users, c \in Comments, r \in ReviewRows,
                enough \in BOOLEAN :
           /\ Replaces(t, i, by, r)
           /\ r.votes = reviews[i].votes \cup {by}
           /\ IsFiniteSet(r.votes) /\ Cardinality(r.votes) = Cardinality(reviews[i].votes) + 1
           /\ r.quoted.approvals = reviews[i].quoted.approvals + c.approvals
           /\ enough <=> Cardinality(r.votes) + reviews[i].quoted.approvals >= r.needed
           /\ r.status = IF enough THEN "approved" ELSE reviews[i].status
           /\ r.decider = IF enough THEN by ELSE Nobody
           /\ gov' = IF enough THEN [gov EXCEPT ![reviews[i].version] = "active"] ELSE gov
    BY ApproveFacts
  <1>2. PICK b : b = [version |-> reviews[i].version, submitter |-> reviews[i].submitter,
                      needed |-> reviews[i].needed, votes |-> r.votes,
                      quoted |-> r.quoted.approvals,
                      outcome |-> IF enough THEN "accepted" ELSE "open"]
    OBVIOUS
  <1>3. Outcome(i)' = IF enough THEN "accepted" ELSE "open"
    <2>1. reviews'[i] = r /\ by # Nobody /\ i = req[t].review
      BY <1>1, GovernanceAssumption DEF Replaces
    <2>2. reviews[i].status # "approved"
      BY <2>1, LockedRow
    <2>3. CASE enough
      BY <2>1, <2>3, <1>1 DEF Outcome
    <2>4. CASE ~ enough
      BY <2>1, <2>2, <2>4, <1>1 DEF Outcome
    <2> QED BY <2>3, <2>4
  <1>4. b \in BallotRows
    <2>1. /\ reviews[i] \in ReviewRows /\ r.votes \in SUBSET Users
          /\ r.quoted.approvals \in Nat
      BY IdsType DEF IInv, ReviewRows, Quoted
    <2> QED BY <2>1, <1>2 DEF BallotRows, ReviewRows
  <1>5. /\ ballots' = [ballots EXCEPT ![i] = b]
        /\ i \in 1 .. Len(ballots) /\ Ballots!Eligible(i, by)
    <2>1. /\ b.version = reviews[i].version /\ b.submitter = reviews[i].submitter
          /\ b.needed = reviews[i].needed /\ b.votes = r.votes
          /\ b.quoted = r.quoted.approvals /\ b.outcome = Outcome(i)'
      BY <1>2, <1>3
    <2>2. Replaces(t, i, by, r)
      BY <1>1
    <2> QED BY <2>1, <2>2, <1>4, BallotReplaced
  <1>6. /\ ballots[i].version = reviews[i].version /\ ballots[i].needed = r.needed
        /\ ballots[i].votes \cup {by} = r.votes
        /\ ballots[i].quoted = reviews[i].quoted.approvals
        /\ ballots[i].quoted + c.approvals = r.quoted.approvals
    BY <1>1, BallotFacts DEF Replaces
  <1>7. ballots' = [ballots EXCEPT ![i].votes = r.votes,
                                   ![i].quoted = r.quoted.approvals,
                                   ![i].outcome = IF enough THEN "accepted" ELSE "open"]
    <2>1. PICK row, out : /\ row \in BallotRows /\ row = ballots[i]
                           /\ out = IF enough THEN "accepted" ELSE "open"
      BY <1>5, BallotFacts, ElementOfSeq
    <2>2. b = [row EXCEPT !.votes = r.votes, !.quoted = r.quoted.approvals, !.outcome = out]
      <3>1. /\ row.version = b.version /\ row.submitter = b.submitter /\ row.needed = b.needed
            /\ r.votes = b.votes /\ r.quoted.approvals = b.quoted /\ out = b.outcome
        BY <2>1, <1>2, BallotFacts
      <3> QED BY <2>1, <3>1, <1>4 DEF BallotRows
    <2>3. [ballots EXCEPT ![i].votes = r.votes, ![i].quoted = r.quoted.approvals,
                            ![i].outcome = out]
             = [ballots EXCEPT ![i] = [ballots[i] EXCEPT !.votes = r.votes,
                                                         !.quoted = r.quoted.approvals,
                                                         !.outcome = out]]
      BY <1>5, BallotFacts
    <2> QED BY <2>1, <2>2, <2>3, <1>5
  <1>8. Ballots!Vote(i, by, c.approvals)
    <2>1. enough <=> Cardinality(ballots[i].votes \cup {by}) + ballots[i].quoted >= ballots[i].needed
      BY <1>1, <1>6
    <2>2. (IF enough THEN "accepted" ELSE "open") =
             IF Cardinality(ballots[i].votes \cup {by}) + ballots[i].quoted >= ballots[i].needed
             THEN "accepted" ELSE "open"
      BY <2>1
    <2>3. ballots' = [ballots EXCEPT
             ![i].votes = ballots[i].votes \cup {by},
             ![i].quoted = ballots[i].quoted + c.approvals,
             ![i].outcome = IF Cardinality(ballots[i].votes \cup {by}) + ballots[i].quoted >= ballots[i].needed
                            THEN "accepted" ELSE "open"]
      BY <2>2, <1>6, <1>7
    <2>4. gov' = IF Cardinality(ballots[i].votes \cup {by}) + ballots[i].quoted >= ballots[i].needed
                 THEN [gov EXCEPT ![ballots[i].version] = "active"] ELSE gov
      BY <2>1, <1>1, <1>6
    <2>5. \A S : Ballots!Cardinality(S) = Cardinality(S)
      BY DEF Ballots!Cardinality, Cardinality
    <2> QED BY <2>3, <2>4, <2>5, <1>5 DEF Ballots!Vote
  <1> QED BY <1>5, <1>8 DEF Ballots!Next

LEMMA RejectVetoes ==
    ASSUME IInv, NEW t \in Handlers, Commit(t), req[t].op = "reject"
    PROVE  Ballots!Next
  <1>1. PICK i \in Ids, by \in Users, c \in Comments, r \in ReviewRows :
           /\ Replaces(t, i, by, r)
           /\ r.quoted.approvals = reviews[i].quoted.approvals + c.approvals
           /\ r.votes = reviews[i].votes /\ r.status = "rejected" /\ r.decider = by
           /\ gov' = [gov EXCEPT ![reviews[i].version] = "rejected"]
    BY RejectFacts
  <1>2. PICK b : b = [version |-> reviews[i].version, submitter |-> reviews[i].submitter,
                      needed |-> reviews[i].needed, votes |-> r.votes,
                      quoted |-> r.quoted.approvals,
                      outcome |-> "refused"]
    OBVIOUS
  <1>3. Outcome(i)' = "refused"
    <2>1. reviews'[i] = r /\ by # Nobody
      BY <1>1, GovernanceAssumption DEF Replaces
    <2> QED BY <2>1, <1>1 DEF Outcome
  <1>4. b \in BallotRows
    <2>1. /\ reviews[i] \in ReviewRows /\ r.votes \in SUBSET Users
          /\ r.quoted.approvals \in Nat
      BY IdsType DEF IInv, ReviewRows, Quoted
    <2> QED BY <2>1, <1>2 DEF BallotRows, ReviewRows
  <1>5. /\ ballots' = [ballots EXCEPT ![i] = b]
        /\ i \in 1 .. Len(ballots) /\ Ballots!Eligible(i, by)
    <2>1. /\ b.version = reviews[i].version /\ b.submitter = reviews[i].submitter
          /\ b.needed = reviews[i].needed /\ b.votes = r.votes
          /\ b.quoted = r.quoted.approvals /\ b.outcome = Outcome(i)'
      BY <1>2, <1>3
    <2>2. Replaces(t, i, by, r)
      BY <1>1
    <2> QED BY <2>1, <2>2, <1>4, BallotReplaced
  <1>6. ballots' = [ballots EXCEPT ![i].quoted = ballots[i].quoted + c.approvals,
                                   ![i].outcome = "refused"]
    <2>1. PICK row \in BallotRows : row = ballots[i]
      BY <1>5, BallotFacts, ElementOfSeq
    <2>4. PICK n : n = ballots[i].quoted + c.approvals
      OBVIOUS
    <2>2. b = [row EXCEPT !.quoted = n, !.outcome = "refused"]
      <3>1. /\ row.version = b.version /\ row.submitter = b.submitter
            /\ row.needed = b.needed /\ row.votes = b.votes /\ n = b.quoted
        BY <2>1, <2>4, <1>1, <1>2, BallotFacts
      <3> QED BY <3>1, <2>1, <1>2, <1>4 DEF BallotRows
    <2>3. [ballots EXCEPT ![i].quoted = n, ![i].outcome = "refused"]
             = [ballots EXCEPT ![i] = [ballots[i] EXCEPT !.quoted = n, !.outcome = "refused"]]
      BY <1>5, BallotFacts
    <2> QED BY <2>1, <2>2, <2>3, <2>4, <1>5
  <1>7. Ballots!Veto(i, by, c.approvals)
    BY <1>1, <1>5, <1>6, BallotFacts DEF Ballots!Veto
  <1> QED BY <1>5, <1>7 DEF Ballots!Next

(* The reviewers of a row and its breach are not the ballot's.             *)
LEMMA OneFieldKept ==
    ASSUME IInv, NEW i \in Ids,
           \/ \E roles : reviews' = [reviews EXCEPT ![i].roles = roles]
           \/ reviews' = [reviews EXCEPT ![i].breached = TRUE]
    PROVE  ballots' = ballots
  <1>1. reviews \in Seq(ReviewRows) /\ Len(reviews) \in Nat
    BY IdsType DEF IInv, TypeInv
  <1>2. PICK row \in ReviewRows : row = reviews[i]
    BY IdsType DEF IInv
  <1>3. PICK r : /\ \/ \E roles : r = [row EXCEPT !.roles = roles]
                    \/ r = [row EXCEPT !.breached = TRUE]
                 /\ reviews' = [reviews EXCEPT ![i] = r]
    <2>1. CASE \E roles : reviews' = [reviews EXCEPT ![i].roles = roles]
      <3>1. PICK roles : reviews' = [reviews EXCEPT ![i].roles = roles]
        BY <2>1
      <3>2. reviews' = [reviews EXCEPT ![i] = [reviews[i] EXCEPT !.roles = roles]]
        BY <3>1, <1>1 DEF Ids
      <3> QED BY <3>2, <1>2
    <2>2. CASE reviews' = [reviews EXCEPT ![i].breached = TRUE]
      <3>1. reviews' = [reviews EXCEPT ![i] = [reviews[i] EXCEPT !.breached = TRUE]]
        BY <2>2, <1>1 DEF Ids
      <3> QED BY <3>1, <1>2
    <2> QED BY <2>1, <2>2
  <1>4. /\ r.version = row.version /\ r.submitter = row.submitter /\ r.needed = row.needed
        /\ r.votes = row.votes /\ r.quoted = row.quoted
        /\ r.decider = row.decider /\ r.status = row.status
    BY <1>2, <1>3 DEF ReviewRows
  <1>5. /\ Ids' = Ids /\ reviews'[i] = r
        /\ \A j \in Ids \ {i} : reviews'[j] = reviews[j]
    BY <1>1, <1>3 DEF Ids
  <1> QED BY <1>1, <1>2, <1>4, <1>5, SameBallots

(* Every step of the workflow is a step of the ballots or hidden in them.  *)
LEMMA NextIsBallots ==
    ASSUME IInv, [Next]_vars
    PROVE  Ballots!Next \/ UNCHANGED <<gov, ballots>>
  <1>1. ASSUME UNCHANGED govVars
        PROVE  UNCHANGED <<gov, ballots>>
    BY <1>1, BallotFacts, SameBallots DEF govVars, Ids
  <1>2. ASSUME NEW t \in Handlers, Commit(t) PROVE Ballots!Next
    <2>1. req[t].op \in {"submit", "approve", "reject"}
      BY <1>2, HandlerCommits DEF Submissions, Decisions
    <2> QED BY <1>2, <2>1, SubmitOpens, ApproveVotes, RejectVetoes
  <1>3. ASSUME NEW t \in Handlers, Request(t) \/ HandlerFault(t)
        PROVE  UNCHANGED <<gov, ballots>>
    BY <1>1, <1>3 DEF Request, HandlerFault, SubmitCheck, Decide
  <1>4. ASSUME NEW t \in Handlers, Proceed(t)
        PROVE  Ballots!Next \/ UNCHANGED <<gov, ballots>>
    BY <1>1, <1>2, <1>4 DEF Proceed, SubmitInsert, Seal
  <1>5. ASSUME NEW s \in Scanners, ScanCommit(s)
        PROVE  UNCHANGED <<gov, ballots>>
    <2>1. PICK i \in Ids : reviews' = [reviews EXCEPT ![i].breached = TRUE]
      BY <1>5 DEF ScanCommit, MarkBreached, IInv, TypeInv
    <2>2. gov' = gov
      BY <1>5 DEF ScanCommit
    <2> QED BY <2>1, <2>2, IdsType, OneFieldKept
  <1>6. ASSUME NEW s \in Scanners, Scan(s) \/ ScanFault(s)
        PROVE  UNCHANGED <<gov, ballots>>
    BY <1>1, <1>5, <1>6 DEF Scan, ScanSelect, ScanSeal, ScanFault, ScanAborts, govVars
  <1>7. ASSUME NEW i \in Ids, NEW roles, Reassign(i, roles)
        PROVE  UNCHANGED <<gov, ballots>>
    BY <1>7, IdsType, OneFieldKept DEF Reassign
  <1>8. ASSUME NEW i \in Ids, PassDeadline(i)
        PROVE  UNCHANGED <<gov, ballots>>
    BY <1>1, <1>8 DEF PassDeadline
  <1>9. ASSUME Detect
        PROVE  UNCHANGED <<gov, ballots>>
    BY <1>1, <1>9 DEF Detect, AbortHandler, AbortScan, ScanAborts, govVars
  <1>10. ASSUME UNCHANGED vars
         PROVE  UNCHANGED <<gov, ballots>>
    BY <1>1, <1>10 DEF vars
  <1> QED BY <1>3, <1>4, <1>6, <1>7, <1>8, <1>9, <1>10 DEF Next

(* The review workflow promises what Ballot says: one open ballot for each *)
(* version, one vote for each person and none for the submitter, as many   *)
(* votes as the ballot needs, and decisions that are final.                *)
THEOREM GovernanceImplementsBallot == Spec => ImplementsBallot
  <1>1. Init => Ballots!Init
    <2> SUFFICES ASSUME Init PROVE Ballots!Init
      OBVIOUS
    <2>1. reviews = <<>> /\ Ids = {}
      BY DEF Init, Ids
    <2>2. ballots = <<>>
      BY <2>1 DEF ballots
    <2> QED BY <2>2 DEF Init, Ballots!Init
  <1>2. IInv /\ [Next]_vars => [Ballots!Next]_(Ballots!vars)
    BY NextIsBallots DEF Ballots!vars
  <1> QED BY <1>1, <1>2, GovernanceInvariant, PTL DEF Spec, ImplementsBallot, Ballots!Spec

(* What follows from it for a reader of the tables.                        *)
DecidedStays ==
    /\ Len(reviews) <= Len(reviews')
    /\ \A i \in Ids :
          /\ reviews[i].votes \subseteq reviews'[i].votes
          /\ reviews[i].decider # Nobody =>
                ballots'[i] = ballots[i] /\ reviews'[i].votes = reviews[i].votes

LEMMA BallotFactsPrimed ==
    ASSUME IInv'
    PROVE  /\ Len(ballots') = Len(reviews') /\ Len(reviews') \in Nat
           /\ \A i \in Ids' : ballots'[i].votes = reviews'[i].votes
  <1>1. reviews' \in Seq(ReviewRows)
    BY DEF IInv, TypeInv
  <1>2. Len(reviews') \in Nat
    BY <1>1
  <1>3. ballots' \in [1 .. Len(reviews') -> {ballots'[i] : i \in 1 .. Len(reviews')}]
    BY DEF ballots, Ids
  <1>4. Len(ballots') = Len(reviews')
    BY <1>2, <1>3, SeqDef, LenProperties
  <1> QED BY <1>2, <1>4 DEF ballots, Ids

LEMMA BallotStepStays ==
    ASSUME IInv, IInv', Ballots!Next PROVE DecidedStays
  <1>1. /\ ballots \in Seq(BallotRows) /\ Len(ballots) = Len(reviews) /\ Len(reviews) \in Nat
        /\ \A i \in Ids : /\ ballots[i].votes = reviews[i].votes
                          /\ (ballots[i].outcome = "open") <=> (reviews[i].decider = Nobody)
    BY BallotFacts
  <1>2. /\ Len(ballots') = Len(reviews') /\ Len(reviews') \in Nat
        /\ \A i \in Ids' : ballots'[i].votes = reviews'[i].votes
    BY BallotFactsPrimed
  <1>3. ASSUME NEW v, NEW u, NEW n, NEW a, Ballots!Open(v, u, n, a)
        PROVE  /\ Len(ballots') = Len(ballots) + 1
               /\ \A i \in 1 .. Len(ballots) : ballots'[i] = ballots[i]
    <2>1. PICK b : ballots' = Append(ballots, b)
      BY <1>3 DEF Ballots!Open
    <2>2. ballots \in Seq(BallotRows \cup {b})
      BY <1>1
    <2> QED BY <2>1, <2>2
  <1>4. ASSUME NEW i \in 1 .. Len(ballots), NEW u, NEW n,
               Ballots!Vote(i, u, n) \/ Ballots!Veto(i, u, n)
        PROVE  /\ Len(ballots') = Len(ballots)
               /\ \A j \in 1 .. Len(ballots) : j # i => ballots'[j] = ballots[j]
               /\ ballots[i].outcome = "open"
               /\ ballots[i].votes \subseteq ballots'[i].votes
    <2>1. ballots[i].outcome = "open" /\ ballots[i] \in BallotRows
      BY <1>1, <1>4 DEF Ballots!Vote, Ballots!Veto, Ballots!Eligible
    <2>2. PICK b : ballots' = [ballots EXCEPT ![i] = b] /\ ballots[i].votes \subseteq b.votes
      <3>1. CASE Ballots!Vote(i, u, n)
        <4>1. PICK o, k : ballots' = [ballots EXCEPT ![i].votes = ballots[i].votes \cup {u},
                                                     ![i].quoted = k, ![i].outcome = o]
          BY <3>1 DEF Ballots!Vote
        <4> DEFINE b == [ballots[i] EXCEPT !.votes = ballots[i].votes \cup {u},
                                           !.quoted = k, !.outcome = o]
        <4>2. ballots' = [ballots EXCEPT ![i] = b]
          BY <4>1
        <4>3. ballots[i].votes \subseteq b.votes
          BY <2>1 DEF BallotRows
        <4> QED BY <4>2, <4>3
      <3>2. CASE Ballots!Veto(i, u, n)
        <4>3. PICK k : ballots' = [ballots EXCEPT ![i].quoted = k, ![i].outcome = "refused"]
          BY <3>2 DEF Ballots!Veto
        <4> DEFINE b == [ballots[i] EXCEPT !.quoted = k, !.outcome = "refused"]
        <4>1. ballots' = [ballots EXCEPT ![i] = b]
          BY <4>3
        <4>2. b.votes = ballots[i].votes
          BY <2>1 DEF BallotRows
        <4> QED BY <4>1, <4>2
      <3> QED BY <1>4, <3>1, <3>2
    <2>3. ballots \in Seq(BallotRows \cup {b})
      BY <1>1
    <2> QED BY <2>1, <2>2, <2>3
  <1>5. Len(ballots) <= Len(ballots') /\ \A i \in 1 .. Len(ballots) :
          /\ ballots[i].votes \subseteq ballots'[i].votes
          /\ ballots[i].outcome # "open" => ballots'[i] = ballots[i]
    BY <1>1, <1>3, <1>4 DEF Ballots!Next
  <1>6. Ids = 1 .. Len(ballots) /\ \A i \in Ids : i \in Ids'
    BY <1>1, <1>2, <1>5 DEF Ids
  <1> QED BY <1>1, <1>2, <1>5, <1>6 DEF DecidedStays

(* A review that was decided keeps its decision and its votes, and no vote *)
(* is ever withdrawn: whoever commits later, with what it had read before, *)
(* and whatever the SLA scan or a reassignment writes to the row.          *)
THEOREM DecisionsAreFinal == Spec => [][DecidedStays]_vars
  <1>1. ASSUME IInv, IInv', [Next]_vars PROVE [DecidedStays]_vars
    <2>1. CASE Ballots!Next
      BY <1>1, <2>1, BallotStepStays
    <2>2. CASE UNCHANGED <<gov, ballots>>
      <3>1. Len(ballots) = Len(reviews) /\ \A i \in Ids : ballots[i].votes = reviews[i].votes
        BY <1>1, BallotFacts
      <3>2. Len(ballots') = Len(reviews') /\ \A i \in Ids' : ballots'[i].votes = reviews'[i].votes
        BY <1>1, BallotFactsPrimed
      <3>3. Len(reviews) = Len(reviews') /\ Len(reviews) \in Nat /\ Ids' = Ids
        BY <1>1, <2>2, <3>1, <3>2, BallotFacts DEF Ids
      <3> QED BY <2>2, <3>1, <3>2, <3>3 DEF DecidedStays
    <2> QED BY <1>1, <2>1, <2>2, NextIsBallots
  <1>2. IInv /\ IInv' /\ [Next]_vars => [DecidedStays]_vars
    BY <1>1
  <1> QED BY <1>2, GovernanceInvariant, PTL DEF Spec

=============================================================================
