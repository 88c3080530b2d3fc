----------------------------- MODULE Governance -----------------------------
(***************************************************************************)
(* The governance workflow: API handlers that submit an asset version for  *)
(* review, approve, reject and reassign a review, and the SLA scanners of  *)
(* the scheduler processes. Every change is one transaction that also      *)
(* writes its entry of the audit hash chain; the notification is enqueued  *)
(* after the commit. A transaction is several steps here: the reads and    *)
(* checks before it, the row lock, the sentinel lock, and the commit.      *)
(***************************************************************************)
EXTENDS AuditChain, FiniteSets

CONSTANTS
    Versions,     \* registered asset versions
    HumanOnly,    \* versions whose Builder calls RequireHumanReview
    Users,        \* users
    Submitters,   \* bound: the users that submit
    Routes,       \* [quorum, roles]: what ResolveReviewers may return
    Findings,     \* Findings[n]: what the checks of AutoApprovalChecker may
                  \* find in the n-th submission
    QuorumAll,    \* the quorum that stands for the whole pool
    Comments,     \* [approvals, names]: the lines of a decision's comment that
                  \* read like a vote, of whom, and how many like an approval
    Handlers,     \* requests the API server serves at the same time
    Scanners,     \* scheduler processes
    Nobody,       \* SQL NULL for a user
    MaxReviews,   \* bound: rows of governance_reviews
    Late,         \* bound: the reviews whose SLA may run out
    MaxCalls,     \* bound: requests to submit or decide
    MaxFaults     \* bound: failing statements, lost answers, dead processes

ASSUME GovernanceAssumption ==
    /\ Handlers \cup Scanners = Txs /\ Handlers \cap Scanners = {}
    /\ NoTx \notin Txs /\ IsFiniteSet(Scanners)
    /\ HumanOnly \subseteq Versions
    /\ Findings \in [1 .. MaxReviews -> SUBSET {"none", "blocking", "pii"}]
    /\ Submitters \subseteq Users /\ Nobody \notin Users
    /\ \A x \in Routes : x.quorum \in Int /\ IsFiniteSet(x.roles)
    /\ QuorumAll \in Int /\ QuorumAll < 0
    /\ Comments \subseteq [approvals : Nat, names : SUBSET Users]
    /\ MaxReviews \in Nat /\ MaxFaults \in Nat

VARIABLES
    gov,        \* asset_versions.governance_state
    reviews,    \* the rows of governance_reviews, in the order of insertion
    overdue,    \* the reviews whose SLA has run out
    pc,         \* control state of a handler or scanner
    req,        \* what a handler works on, with what it read
    queue,      \* the rows a scanner's SELECT returned and it still has to do
    notices,    \* the notifications that were enqueued
    calls,      \* requests served so far
    faults

govVars   == <<gov, reviews>>
vars == <<chainVars, govVars, overdue, pc, req, queue, notices, calls, faults>>

Ids == 1 .. Len(reviews)
Undecided(v) == {i \in Ids : reviews[i].version = v /\ reviews[i].decider = Nobody}

NoRequest == [op |-> "none"]
Goto(t, label) == pc' = [pc EXCEPT ![t] = label]
Done(t) == Goto(t, "idle") /\ req' = [req EXCEPT ![t] = NoRequest]

Init == /\ ChainInit
        /\ gov = [v \in Versions |-> "draft"]
        /\ reviews = <<>> /\ overdue = {}
        /\ pc = [t \in Txs |-> "idle"]
        /\ req = [t \in Txs |-> NoRequest]
        /\ queue = [s \in Scanners |-> {}]
        /\ notices = {}
        /\ calls = 0 /\ faults = MaxFaults

Called == calls < MaxCalls /\ calls' = calls + 1
Fault == faults > 0 /\ faults' = faults - 1

-----------------------------------------------------------------------------
(* Row locks. A decision holds its review from SELECT ... FOR UPDATE on;   *)
(* a submission holds the place of its version in the partial unique index *)
(* from its INSERT on; a scanner takes the review's lock after the         *)
(* sentinel's, in its UPDATE just before the commit.                       *)

InTx(t) == pc[t] \in {"seal", "commit"}
Decides(t, i) == InTx(t) /\ req[t].op \in {"approve", "reject"} /\ req[t].review = i
NoRowLock(i)    == FALSE
ReviewLocked(i) == \E t \in Handlers : Decides(t, i)

SlotTaken(v) == \E t \in Handlers :
    /\ InTx(t)
    /\ \/ req[t].op = "submit" /\ req[t].version = v
       \/ \E i \in Undecided(v) : Decides(t, i)

-----------------------------------------------------------------------------
(* Submit                                                                  *)

(* QuorumAll is the size of the pool; a ballot needs one vote at least.    *)
normaliseQuorum(q, poolSize) ==
    IF q = QuorumAll /\ poolSize > 0 THEN poolSize ELSE IF q < 1 THEN 1 ELSE q

(* AutoApprovalChecker.Check: nothing found and no RequireHumanReview. The *)
(* checks themselves read other tables (module Catalog).                   *)
Check(v, finding) == finding = "none" /\ v \notin HumanOnly

(* Before the transaction: the reviewer pool and the verdict of Check. PII *)
(* adds the privacy team to the pool.                                      *)
SubmitCheck(t, v, u, x, finding) ==
    /\ pc[t] = "idle"
    /\ Len(reviews) < MaxReviews /\ finding \in Findings[Len(reviews) + 1]
    /\ LET roles == x.roles \cup (IF finding = "pii" THEN {"privacy-team"} ELSE {})
       IN req' = [req EXCEPT ![t] =
                    [op |-> "submit", version |-> v, by |-> u, roles |-> roles,
                     needed |-> normaliseQuorum(x.quorum, Cardinality(roles)),
                     auto |-> Check(v, finding)]]
    /\ Goto(t, "insert") /\ Called
    /\ UNCHANGED <<chainVars, govVars, overdue, queue, notices, faults>>

(* INSERT INTO governance_reviews and the UPDATE of the version. It waits  *)
(* for a transaction that holds the version's place in the index, and      *)
(* fails when an undecided review has it.                                  *)
SubmitInsert(t) ==
    /\ pc[t] = "insert"
    /\ ~ SlotTaken(req[t].version)
    /\ IF Undecided(req[t].version) = {} /\ Len(reviews) < MaxReviews
       THEN Goto(t, "seal") /\ UNCHANGED req
       ELSE Done(t)
    /\ UNCHANGED <<chainVars, govVars, overdue, queue, notices, faults, calls>>

-----------------------------------------------------------------------------
(* Approve and Reject                                                      *)

(* The votes are lines of the review's comment. Each decision appends one, *)
(* "[approved by <uuid>] ...", followed by the decider's own comment as it *)
(* is: lines of a comment that look like votes, a quotation of the earlier *)
(* ones say, are read as votes from then on. votes are the approvals that  *)
(* decide appended, quoted is what comments brought along.                 *)
NoQuotes == [approvals |-> 0, names |-> {}]
WithQuotes(a, b) == [approvals |-> a.approvals + b.approvals, names |-> a.names \cup b.names]

NeverVoted(i, u)   == FALSE
hasPriorVote(i, u) == u \in reviews[i].votes \cup reviews[i].quoted.names

(* SELECT ... FOR UPDATE and the checks on the locked row: it is not       *)
(* decided, the decider did not submit it and has no line in the comment.  *)
(* The status is not looked at. The comment is read here and written back  *)
(* with one vote more.                                                     *)
Decide(t, i, u, op, c) ==
    /\ pc[t] = "idle"
    /\ ~ ReviewLocked(i)
    /\ reviews[i].decider = Nobody
    /\ u # reviews[i].submitter
    /\ ~ hasPriorVote(i, u)
    /\ req' = [req EXCEPT ![t] = [op |-> op, review |-> i, by |-> u,
                                  seen |-> reviews[i].votes,
                                  quoted |-> reviews[i].quoted, comment |-> c]]
    /\ Goto(t, "seal") /\ Called
    /\ UNCHANGED <<chainVars, govVars, overdue, queue, notices, faults>>

(* countApprovals(currentComment) + 1 >= needed: every line that reads     *)
(* like an approval counts, those of the decision's own comment not yet.   *)
countApprovals(q)  == Cardinality(q.seen) + q.quoted.approvals
EnoughOffByOne(q) == countApprovals(q) + 2 >= reviews[q.review].needed
Enough(q) == countApprovals(q) + 1 >= reviews[q.review].needed

-----------------------------------------------------------------------------
(* The second half of a handler's transaction                              *)

Event(q) == CASE q.op = "submit" -> IF q.auto THEN "auto_approved" ELSE "submitted"
              [] q.op = "approve" -> "approved"
              [] OTHER -> "rejected"

Subject(q) == IF q.op = "submit" THEN Len(reviews) + 1 ELSE q.review

Entry(q) == [event |-> Event(q), review |-> Subject(q), actor |-> q.by]

(* audit.WriteEntry                                                        *)
Seal(t) ==
    /\ pc[t] = "seal"
    /\ WriteEntry(t, Entry(req[t]))
    /\ Goto(t, "commit")
    /\ UNCHANGED <<govVars, overdue, req, queue, notices, faults, calls>>

(* The rows the transaction has written become visible.                    *)
Publish(q) ==
    \/ /\ q.op = "submit"
       /\ reviews' = Append(reviews,
            [version |-> q.version, submitter |-> q.by, needed |-> q.needed,
             roles |-> q.roles, votes |-> {}, quoted |-> NoQuotes,
             decider |-> Nobody,
             status |-> IF q.auto THEN "auto_approved" ELSE "in_review",
             breached |-> FALSE])
       /\ gov' = [gov EXCEPT ![q.version] =
                    IF q.auto THEN "active" ELSE "in_review"]
    \/ /\ q.op = "approve" /\ Enough(q)
       /\ reviews' = [reviews EXCEPT ![q.review].votes = q.seen \cup {q.by},
                                     ![q.review].quoted = WithQuotes(q.quoted, q.comment),
                                     ![q.review].status = "approved",
                                     ![q.review].decider = q.by]
       /\ gov' = [gov EXCEPT ![reviews[q.review].version] = "active"]
    \/ /\ q.op = "approve" /\ ~ Enough(q)
       /\ reviews' = [reviews EXCEPT ![q.review].votes = q.seen \cup {q.by},
                                     ![q.review].quoted = WithQuotes(q.quoted, q.comment)]
       /\ UNCHANGED gov
    \/ /\ q.op = "reject"
       /\ reviews' = [reviews EXCEPT ![q.review].quoted = WithQuotes(q.quoted, q.comment),
                                     ![q.review].status = "rejected",
                                     ![q.review].decider = q.by]
       /\ gov' = [gov EXCEPT ![reviews[q.review].version] = "rejected"]

(* The enqueue after the commit. Its error is ignored.                     *)
Enqueue(n) == \/ notices' = notices \cup {n} /\ UNCHANGED faults
              \/ Fault /\ UNCHANGED notices

Commit(t) ==
    /\ pc[t] = "commit"
    /\ Publish(req[t])
    /\ PublishEntry(t)
    /\ Enqueue(Entry(req[t]))
    /\ Done(t)
    /\ UNCHANGED <<overdue, queue, calls>>

(* A statement fails or the process dies, and everything is rolled back.   *)
(* (The commit may also happen and its answer be lost; that is a commit    *)
(* whose notification is lost.)                                            *)
HandlerFault(t) ==
    /\ t \in Handlers /\ pc[t] = "commit"
    /\ Fault
    /\ DiscardEntry(t)
    /\ Done(t)
    /\ UNCHANGED <<govVars, overdue, queue, notices, calls>>

(* Reassign: one transaction on an undecided row. It writes no audit       *)
(* entry and leaves the quorum as it is.                                   *)
Reassign(i, roles) ==
    /\ ~ ReviewLocked(i)
    /\ reviews[i].decider = Nobody
    /\ reviews' = [reviews EXCEPT ![i].roles = roles]
    /\ UNCHANGED <<chainVars, gov, overdue, pc, req, queue, notices, faults, calls>>

-----------------------------------------------------------------------------
(* SLAScanner.Scan                                                         *)

PassDeadline(i) ==
    /\ i \in Late \ overdue
    /\ overdue' = overdue \cup {i}
    /\ UNCHANGED <<chainVars, govVars, pc, req, queue, notices, faults, calls>>

OverdueUndecided(i) == i \in overdue /\ reviews[i].decider = Nobody
Unvoted(i) == OverdueUndecided(i) /\ ~ reviews[i].breached /\ reviews[i].votes = {}
Breachable(i) == /\ i \in overdue
                 /\ reviews[i].decider = Nobody
                 /\ ~ reviews[i].breached

(* The SELECT, which locks nothing.                                        *)
ScanSelect(s) ==
    /\ pc[s] = "idle" /\ queue[s] = {}
    /\ LET found == {i \in Ids : Breachable(i)}
       IN found # {} /\ queue' = [queue EXCEPT ![s] = found]
    /\ UNCHANGED <<chainVars, govVars, overdue, pc, req, notices, faults, calls>>

(* The next row: the sentinel is locked first, the review afterwards.      *)
ScanSeal(s, i) ==
    /\ pc[s] = "idle" /\ i \in queue[s]
    /\ LET e == [event |-> "sla_breached", review |-> i, actor |-> Nobody]
       IN WriteEntry(s, e) /\ req' = [req EXCEPT ![s] = e]
    /\ Goto(s, "mark")
    /\ UNCHANGED <<govVars, overdue, queue, notices, faults, calls>>

(* UPDATE ... SET sla_breach_emitted_at WHERE id, whatever the row has     *)
(* become since the SELECT.                                                *)
MarkBreached(s) == reviews' = [reviews EXCEPT ![req[s].review].breached = TRUE]

ScanCommit(s) ==
    /\ pc[s] = "mark"
    /\ ~ ReviewLocked(req[s].review)
    /\ MarkBreached(s)
    /\ PublishEntry(s)
    /\ queue' = [queue EXCEPT ![s] = @ \ {req[s].review}]
    /\ Enqueue(req[s])
    /\ Done(s)
    /\ UNCHANGED <<gov, overdue, calls>>

(* An error ends the whole scan; the next tick starts a new one.           *)
ScanAborts(s) ==
    /\ DiscardEntry(s)
    /\ queue' = [queue EXCEPT ![s] = {}]
    /\ Done(s)
    /\ UNCHANGED <<gov, overdue, notices, calls>>

ScanFault(s) ==
    /\ pc[s] = "mark"
    /\ Fault
    /\ ScanAborts(s)
    /\ UNCHANGED reviews

(* A decision locks review, then sentinel; a scan sentinel, then review.   *)
(* PostgreSQL finds the cycle and aborts one of the two.                   *)
Deadlock(s, t) == pc[s] = "mark" /\ pc[t] = "seal" /\ Decides(t, req[s].review)

AbortHandler(s, t) ==
    /\ Deadlock(s, t)
    /\ DiscardEntry(t) /\ Done(t)
    /\ UNCHANGED <<govVars, overdue, queue, notices, faults, calls>>

AbortScan(s, t) ==
    /\ Deadlock(s, t)
    /\ ScanAborts(s)
    /\ UNCHANGED <<reviews, faults>>

-----------------------------------------------------------------------------
Request(t) ==
    \/ \E v \in Versions, u \in Submitters, x \in Routes, f \in {"none", "blocking", "pii"} :
          SubmitCheck(t, v, u, x, f)
    \/ \E i \in Ids, u \in Users, op \in {"approve", "reject"}, c \in Comments :
          Decide(t, i, u, op, c)

Proceed(t) == SubmitInsert(t) \/ Seal(t) \/ Commit(t)

Scan(s) == \/ ScanSelect(s) \/ ScanCommit(s)
           \/ \E i \in Ids : ScanSeal(s, i)

Detect == \E s \in Scanners, t \in Handlers : AbortHandler(s, t) \/ AbortScan(s, t)

Next == \/ \E t \in Handlers : Request(t) \/ Proceed(t) \/ HandlerFault(t)
        \/ \E s \in Scanners : Scan(s) \/ ScanFault(s)
        \/ \E i \in Ids, roles \in {x.roles : x \in Routes} : Reassign(i, roles)
        \/ \E i \in Ids : PassDeadline(i)
        \/ Detect

Spec == Init /\ [][Next]_vars

(* Fairness: a handler that serves a request goes on, the scheduler ticks, *)
(* the deadlock detector runs. It is strong where a step waits for a lock: *)
(* PostgreSQL queues the waiters. Requests, faults and time stay unfair.   *)
Fairness == /\ \A t \in Handlers : SF_vars(Proceed(t))
            /\ \A s \in Scanners : WF_vars(Scan(s)) /\ SF_vars(ScanCommit(s))
            /\ WF_vars(Detect)

FairSpec == Spec /\ Fairness

-----------------------------------------------------------------------------

Entries(e, i) == {k \in 1 .. Len(log) : log[k].body.event = e /\ log[k].body.review = i}
Actors(e, i) == {log[k].body.actor : k \in Entries(e, i)}

(* An approved review has as many approvals in the audit trail, by people  *)
(* other than its submitter and each counted once, as the quorum it was    *)
(* submitted with, less the approvals that comments quoted into the review *)
(* (decide: four-eyes, one vote per decider, CR-03). Where no comment has  *)
(* a line that reads like a vote the quorum is one of people.              *)
QuorumHonoured ==
    \A i \in Ids : reviews[i].status = "approved" =>
        Cardinality(Actors("approved", i) \ {reviews[i].submitter})
            + reviews[i].quoted.approvals >= reviews[i].needed

(* The trail, the rows and the notifications tell the same story: one      *)
(* entry for each review, one for each vote, one for a rejection, one from *)
(* each scheduler process at most for a breach, none for what was rolled   *)
(* back; and "a rolled-back tx never produces a phantom notification"      *)
(* (CR-04).                                                                *)
TrailComplete ==
    /\ \A i \in Ids :
          /\ Cardinality(Entries("submitted", i) \cup Entries("auto_approved", i)) = 1
          /\ Actors("approved", i) = reviews[i].votes
          /\ Cardinality(Entries("approved", i)) = Cardinality(reviews[i].votes)
          /\ Cardinality(Entries("rejected", i)) =
                IF reviews[i].status = "rejected" THEN 1 ELSE 0
          /\ reviews[i].breached <=> Entries("sla_breached", i) # {}
          /\ Cardinality(Entries("sla_breached", i)) <= Cardinality(Scanners)
    /\ \A k \in 1 .. Len(log) : log[k].body.review \in Ids
    /\ \A n \in notices : \E k \in 1 .. Len(log) : log[k].body = n

(* The workflow implements the ballots it promises.                        *)
Outcome(i) == CASE reviews[i].decider = Nobody -> "open"
                [] reviews[i].status = "approved" -> "accepted"
                [] OTHER -> "refused"
ballots == [i \in Ids |->
              [version |-> reviews[i].version, submitter |-> reviews[i].submitter,
               needed |-> reviews[i].needed, votes |-> reviews[i].votes,
               quoted |-> reviews[i].quoted.approvals, outcome |-> Outcome(i)]]
(* The votes that ResolveReviewers and the privacy team may lead to.       *)
Needs == {normaliseQuorum(x.quorum, Cardinality(x.roles) + d) :
            x \in Routes, d \in {0, 1}}
Ballots == INSTANCE Ballot WITH Thresholds <- Needs,
                               Quotations <- {c.approvals : c \in Comments}
ImplementsBallot == Ballots!Spec

(* Every request is answered: no lock is held for ever, in spite of the    *)
(* two orders in which review and sentinel are locked.                     *)
EveryRequestAnswered == \A t \in Handlers : pc[t] # "idle" ~> pc[t] = "idle"

(* An undecided review whose SLA has run out is reported or decided.       *)
OverdueIsHandled ==
    \A i \in Late :
        i \in overdue ~> i \in Ids /\ (reviews[i].breached \/ reviews[i].decider # Nobody)
=============================================================================
