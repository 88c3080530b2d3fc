----------------------- MODULE AuditedServicesProofs -----------------------
(***************************************************************************)
(* Proofs about AuditedServices, for any number of requests, workers,      *)
(* users, roles and code hashes: the chain that role changes and overrides *)
(* share is never broken, the trail and the rows agree, an invite is spent *)
(* once, an override is audited once, and no observation is lost.          *)
(*                                                                         *)
(* Each property has an invariant of its own; all rest on the types and on *)
(* who holds the sentinel.                                                 *)
(***************************************************************************)
EXTENDS AuditedServices, AuditChainProofs, FiniteSetTheorems,
        WellFoundedInduction, TLAPS

-----------------------------------------------------------------------------
(* Types                                                                   *)

RoleOps == {"create", "delete", "assign", "revoke"}
Bodies  == [event : RoleOps \cup {"overridden"}, role : RoleNames \cup {NoTag},
            user : Users \cup {Nobody, NoTag}]

Account == [email : Emails, via : Invites \cup {NoInvite}, admin : BOOLEAN]
Grant   == [user : Users, role : RoleNames, state : {"active", "revoked", "deleted"}]

AccountJob == [op : {"register", "accept"}, at : {"account", "commit"}, email : Emails,
               admin : BOOLEAN, via : Invites \cup {NoInvite}]
CreateJob  == [op : {"create"}, at : {"seal", "commit"}, role : RoleNames,
               user : {Nobody}, inserted : BOOLEAN]
DeleteJob  == [op : {"delete"}, at : {"drop", "seal", "commit"}, role : RoleNames,
               user : {Nobody}, rows : SUBSET Nat, dropped : BOOLEAN]
AssignJob  == [op : {"assign"}, at : {"seal", "commit"}, role : RoleNames,
               user : Users, inserted : BOOLEAN]
RevokeJob  == [op : {"revoke"}, at : {"seal", "commit"}, role : RoleNames,
               user : Users, rows : SUBSET Nat]
RoleJob    == CreateJob \cup DeleteJob \cup AssignJob \cup RevokeJob
Jobs       == {NoJob} \cup AccountJob \cup RoleJob

RolesType ==
    /\ accounts \in Seq(Account)
    /\ invites \in [Invites -> {"none", "sent", "accepted"}]
    /\ roles \subseteq RoleNames
    /\ grants \in Seq(Grant)
    /\ job \in [Admins -> Jobs]
    /\ calls \in Nat

Version == [schema : Schemas, at : Nat, code : Codes \cup {FirstCode}, breaks : BOOLEAN,
            acked : BOOLEAN]
Submission == [at : {"none", "breaks", "probed", "active", "in_review"}, clear : BOOLEAN,
               seen : SUBSET Version, off : BOOLEAN]
StepRec == [at : {"tag", "seal", "version", "describe", "compare", "commit"},
            code : Codes, drifted : BOOLEAN, prior : Nat \cup {NoTag},
            entry : Nat \cup {NoTag}, schema : Schemas, now : Nat,
            prev : {NoTag} \cup SUBSET Version]

CatalogType ==
    /\ table \in Schemas
    /\ versions \subseteq Version
    /\ tag \in Nat \cup {NoTag}
    /\ drift \in [Codes -> {"none", "clean", "pending"}]
    /\ drifted \subseteq Codes
    /\ step \in [Workers -> {NoStep} \cup StepRec]
    /\ submission \in [Submitted -> Submission]
    /\ clock \in Nat /\ steps \in Nat /\ alters \in Nat

-----------------------------------------------------------------------------
(* What a job is, read off its place and operation.                        *)
LEMMA JobShape ==
    ASSUME NEW j \in Jobs
    PROVE  /\ (j = NoJob) <=> (j.at = "idle")
           /\ j # NoJob => \/ j.op \in {"register", "accept"} /\ j \in AccountJob
                           \/ j.op = "create" /\ j \in CreateJob
                           \/ j.op = "delete" /\ j \in DeleteJob
                           \/ j.op = "assign" /\ j \in AssignJob
                           \/ j.op = "revoke" /\ j \in RevokeJob
           /\ j.at = "account" => j \in AccountJob
           /\ j.at = "seal" => j \in RoleJob
           /\ j.at = "drop" => j \in DeleteJob
  <1>1. CASE j = NoJob
    BY <1>1 DEF NoJob
  <1>2. CASE j \in AccountJob
    BY <1>2 DEF AccountJob, NoJob
  <1>3. CASE j \in CreateJob
    BY <1>3 DEF CreateJob, RoleJob, NoJob
  <1>4. CASE j \in DeleteJob
    BY <1>4 DEF DeleteJob, RoleJob, NoJob
  <1>5. CASE j \in AssignJob
    BY <1>5 DEF AssignJob, RoleJob, NoJob
  <1>6. CASE j \in RevokeJob
    BY <1>6 DEF RevokeJob, RoleJob, NoJob
  <1> QED BY <1>1, <1>2, <1>3, <1>4, <1>5, <1>6 DEF Jobs, RoleJob

(* A transaction that goes on to its entry or its commit keeps the rest.   *)
LEMMA LabelMoves ==
    ASSUME NEW j \in Jobs, NEW k, k \in {[j EXCEPT !.at = "commit"], [j EXCEPT !.at = "seal"]}
    PROVE  /\ j \in AccountJob /\ k.at = "commit" =>
                k \in AccountJob /\ k.op = j.op /\ k.email = j.email /\ k.via = j.via
           /\ j \in CreateJob =>
                /\ k \in CreateJob /\ k.role = j.role /\ k.user = j.user
                /\ k.inserted = j.inserted
           /\ j \in DeleteJob =>
                /\ k \in DeleteJob /\ k.role = j.role /\ k.user = j.user
                /\ k.rows = j.rows /\ k.dropped = j.dropped
           /\ j \in AssignJob =>
                /\ k \in AssignJob /\ k.role = j.role /\ k.user = j.user
                /\ k.inserted = j.inserted
           /\ j \in RevokeJob =>
                k \in RevokeJob /\ k.role = j.role /\ k.user = j.user /\ k.rows = j.rows
  <1>1. ASSUME j \in AccountJob, k.at = "commit"
        PROVE  k \in AccountJob /\ k.op = j.op /\ k.email = j.email /\ k.via = j.via
    BY <1>1 DEF AccountJob
  <1>2. ASSUME j \in CreateJob
        PROVE  /\ k \in CreateJob /\ k.role = j.role /\ k.user = j.user
               /\ k.inserted = j.inserted
    BY <1>2 DEF CreateJob
  <1>3. ASSUME j \in DeleteJob
        PROVE  /\ k \in DeleteJob /\ k.role = j.role /\ k.user = j.user
               /\ k.rows = j.rows /\ k.dropped = j.dropped
    BY <1>3 DEF DeleteJob
  <1>4. ASSUME j \in AssignJob
        PROVE  /\ k \in AssignJob /\ k.role = j.role /\ k.user = j.user
               /\ k.inserted = j.inserted
    BY <1>4 DEF AssignJob
  <1>5. ASSUME j \in RevokeJob
        PROVE  k \in RevokeJob /\ k.role = j.role /\ k.user = j.user /\ k.rows = j.rows
    BY <1>5 DEF RevokeJob
  <1> QED BY <1>1, <1>2, <1>3, <1>4, <1>5

(* One transaction changes, the others are as they were.                   *)
LEMMA JobMoves ==
    ASSUME RolesType, NEW h \in Admins, NEW j \in Jobs, job' = [job EXCEPT ![h] = j]
    PROVE  /\ job' \in [Admins -> Jobs]
           /\ job'[h] = j
           /\ \A g \in Admins \ {h} : job'[g] = job[g]
  BY DEF RolesType

-----------------------------------------------------------------------------
(* What the steps of a request do to its transaction, and to types.        *)

Alone(h) == \A g \in Admins \ {h} : job'[g] = job[g]

LEMMA RegisterFacts ==
    ASSUME RolesType, NEW h \in Admins, NEW e \in Emails, Register(h, e)
    PROVE  /\ RolesType' /\ Alone(h)
           /\ job'[h] \in AccountJob /\ job'[h].at = "account"
           /\ job'[h].op = "register" /\ job'[h].via = NoInvite
           /\ UNCHANGED <<accounts, invites, roles, grants, chainVars>>
  <1>1. PICK j : /\ j = [op |-> "register", at |-> "account", email |-> e,
                         admin |-> accounts = <<>>, via |-> NoInvite]
                 /\ job' = [job EXCEPT ![h] = j] /\ calls' = calls + 1
                 /\ UNCHANGED <<accounts, invites, roles, grants, chainVars>>
    BY DEF Register, Begin, NoWrite
  <1>2. j \in AccountJob
    BY <1>1 DEF AccountJob
  <1>3. j \in Jobs
    BY <1>2 DEF Jobs
  <1>4. job' \in [Admins -> Jobs] /\ job'[h] = j /\ Alone(h)
    BY <1>1, <1>3, JobMoves DEF Alone
  <1> QED BY <1>1, <1>2, <1>4 DEF RolesType

LEMMA InviteFacts ==
    ASSUME RolesType, NEW i \in Invites, Invite(i)
    PROVE  /\ RolesType'
           /\ invites[i] = "none" /\ invites' = [invites EXCEPT ![i] = "sent"]
           /\ UNCHANGED <<accounts, roles, grants, job, chainVars>>
  BY DEF Invite, RolesType

LEMMA AcceptInviteFacts ==
    ASSUME RolesType, NEW h \in Admins, NEW i \in Invites, AcceptInvite(h, i)
    PROVE  /\ RolesType' /\ Alone(h)
           /\ job'[h] \in AccountJob /\ job'[h].at = "account"
           /\ job'[h].op = "accept" /\ job'[h].via = i /\ job'[h].email = Invitee[i]
           /\ UNCHANGED <<accounts, invites, roles, grants, chainVars>>
  <1>1. PICK j : /\ j = [op |-> "accept", at |-> "account", email |-> Invitee[i],
                         admin |-> FALSE, via |-> i]
                 /\ job' = [job EXCEPT ![h] = j] /\ calls' = calls + 1
                 /\ UNCHANGED <<accounts, invites, roles, grants, chainVars>>
    BY DEF AcceptInvite, Begin, NoWrite
  <1>2. j \in AccountJob
    BY <1>1, RolesAssumption DEF AccountJob
  <1>3. j \in Jobs
    BY <1>2 DEF Jobs
  <1>4. job' \in [Admins -> Jobs] /\ job'[h] = j /\ Alone(h)
    BY <1>1, <1>3, JobMoves DEF Alone
  <1> QED BY <1>1, <1>2, <1>4 DEF RolesType

LEMMA InsertAccountFacts ==
    ASSUME RolesType, NEW h \in Admins, InsertAccount(h)
    PROVE  /\ RolesType' /\ Alone(h)
           /\ job[h] \in AccountJob /\ EmailFree(job[h].email)
           /\ \/ job'[h] = NoJob
              \/ /\ job'[h] \in AccountJob /\ job'[h].at = "commit"
                 /\ job'[h].op = job[h].op /\ job'[h].via = job[h].via
                 /\ job'[h].email = job[h].email
                 /\ \A k \in DOMAIN accounts : accounts[k].email # job[h].email
           /\ UNCHANGED <<accounts, invites, roles, grants, chainVars>>
  <1>1. job[h] \in Jobs /\ job[h] \in AccountJob
    BY JobShape DEF InsertAccount, RolesType
  <1>2. /\ EmailFree(job[h].email) /\ UNCHANGED calls
        /\ UNCHANGED <<accounts, invites, roles, grants, chainVars>>
    BY DEF InsertAccount, Answer, GoOn, NoWrite
  <1>3. CASE job' = [job EXCEPT ![h] = NoJob]
    <2>1. job' \in [Admins -> Jobs] /\ job'[h] = NoJob /\ Alone(h)
      BY <1>3, JobMoves DEF Alone, Jobs
    <2> QED BY <2>1, <1>1, <1>2 DEF RolesType
  <1>4. CASE /\ job' = [job EXCEPT ![h].at = "commit"]
             /\ \A k \in DOMAIN accounts : accounts[k].email # job[h].email
    <2>1. PICK j : j = [job[h] EXCEPT !.at = "commit"]
      OBVIOUS
    <2>2. j.at = "commit"
      BY <2>1, <1>1 DEF AccountJob
    <2>3. j \in AccountJob /\ j.op = job[h].op /\ j.email = job[h].email /\ j.via = job[h].via
      BY <2>1, <2>2, <1>1, LabelMoves
    <2>4. job' = [job EXCEPT ![h] = j] /\ j \in Jobs
      BY <1>4, <2>1, <2>3 DEF Jobs
    <2>5. job' \in [Admins -> Jobs] /\ job'[h] = j /\ Alone(h)
      BY <2>4, JobMoves DEF Alone
    <2> QED BY <2>2, <2>3, <2>5, <1>1, <1>2, <1>4 DEF RolesType
  <1> QED BY <1>3, <1>4 DEF InsertAccount, Answer, GoOn

LEMMA CommitAccountFacts ==
    ASSUME RolesType, NEW h \in Admins, CommitAccount(h)
    PROVE  /\ RolesType' /\ Alone(h)
           /\ job[h] \in AccountJob /\ job[h].at = "commit" /\ job'[h] = NoJob
           /\ \E a \in Account : /\ a.email = job[h].email /\ a.via = job[h].via
                                 /\ accounts' = Append(accounts, a)
           /\ invites' = IF job[h].op = "accept"
                         THEN [invites EXCEPT ![job[h].via] = "accepted"] ELSE invites
           /\ UNCHANGED <<roles, grants, chainVars>>
  <1>1. job[h] \in Jobs /\ job[h].at = "commit" /\ job[h].op \in {"register", "accept"}
    BY DEF CommitAccount, RolesType
  <1>2. job[h] \in AccountJob
    BY <1>1, JobShape
  <1>3. PICK a : a = [email |-> job[h].email, via |-> job[h].via, admin |-> job[h].admin]
    OBVIOUS
  <1>4. a \in Account /\ a.email = job[h].email /\ a.via = job[h].via
    BY <1>2, <1>3 DEF Account, AccountJob
  <1>5. /\ accounts' = Append(accounts, a) /\ UNCHANGED <<calls, roles, grants, chainVars>>
        /\ invites' = IF job[h].op = "accept"
                      THEN [invites EXCEPT ![job[h].via] = "accepted"] ELSE invites
        /\ job' = [job EXCEPT ![h] = NoJob]
    BY <1>3 DEF CommitAccount, MarkAccepted, Answer
  <1>6. job' \in [Admins -> Jobs] /\ job'[h] = NoJob /\ Alone(h)
    BY <1>5, JobMoves DEF Alone, Jobs
  <1>7. accounts' \in Seq(Account)
    BY <1>4, <1>5, AppendProperties DEF RolesType
  <1>8. invites' \in [Invites -> {"none", "sent", "accepted"}]
    BY <1>5 DEF RolesType
  <1>9. RolesType'
    BY <1>5, <1>6, <1>7, <1>8 DEF RolesType
  <1> QED BY <1>1, <1>2, <1>4, <1>5, <1>6, <1>9

LEMMA CreateRoleFacts ==
    ASSUME RolesType, NEW h \in Admins, NEW r \in RoleNames, CreateRole(h, r)
    PROVE  /\ RolesType' /\ Alone(h) /\ job[h] = NoJob
           /\ job'[h] \in CreateJob /\ job'[h].at = "seal" /\ job'[h].role = r
           /\ job'[h].inserted
           /\ UNCHANGED <<accounts, invites, roles, grants, chainVars>>
  <1>1. PICK j : /\ j = [op |-> "create", at |-> "seal", role |-> r, user |-> Nobody,
                         inserted |-> TRUE]
                 /\ job' = [job EXCEPT ![h] = j] /\ calls' = calls + 1 /\ job[h] = NoJob
                 /\ UNCHANGED <<accounts, invites, roles, grants, chainVars>>
    BY DEF CreateRole, Begin, NoWrite
  <1>2. j \in CreateJob /\ j.at = "seal" /\ j.role = r /\ j.inserted
    BY <1>1 DEF CreateJob
  <1>3. job' \in [Admins -> Jobs] /\ job'[h] = j /\ Alone(h)
    BY <1>1, <1>2, JobMoves DEF Alone, Jobs, RoleJob
  <1> QED BY <1>1, <1>2, <1>3 DEF RolesType

LEMMA RowsNumbered ==
    ASSUME RolesType
    PROVE  /\ Len(grants) \in Nat /\ Rows = 1 .. Len(grants) /\ Rows \subseteq Nat
           /\ \A k \in Rows : grants[k] \in Grant
           /\ \A u, r : Active(u, r) \subseteq Rows /\ Live(r) \subseteq Rows
           /\ \A u, r : Active(u, r) \subseteq Live(r)
  BY DEF RolesType, Rows, Active, Live

LEMMA DeleteRoleFacts ==
    ASSUME RolesType, NEW h \in Admins, NEW r \in RoleNames, DeleteRole(h, r)
    PROVE  /\ RolesType' /\ Alone(h) /\ job[h] = NoJob
           /\ job'[h] \in DeleteJob /\ job'[h].at = "drop" /\ job'[h].role = r
           /\ job'[h].rows = Live(r) /\ RowsFree(Live(r))
           /\ UNCHANGED <<accounts, invites, roles, grants, chainVars>>
  <1>1. PICK j : /\ j = [op |-> "delete", at |-> "drop", role |-> r, user |-> Nobody,
                         rows |-> Live(r), dropped |-> FALSE]
                 /\ job' = [job EXCEPT ![h] = j] /\ calls' = calls + 1 /\ job[h] = NoJob
                 /\ UNCHANGED <<accounts, invites, roles, grants, chainVars>>
                 /\ RowsFree(Live(r))
    BY DEF DeleteRole, Begin, NoWrite
  <1>2. Live(r) \subseteq Nat
    BY RowsNumbered
  <1>3. j \in DeleteJob /\ j.at = "drop" /\ j.role = r /\ j.rows = Live(r)
    BY <1>1, <1>2 DEF DeleteJob
  <1>4. job' \in [Admins -> Jobs] /\ job'[h] = j /\ Alone(h)
    BY <1>1, <1>3, JobMoves DEF Alone, Jobs, RoleJob
  <1> QED BY <1>1, <1>3, <1>4 DEF RolesType

LEMMA DropRoleFacts ==
    ASSUME RolesType, NEW h \in Admins, DropRole(h)
    PROVE  /\ RolesType' /\ Alone(h)
           /\ job[h] \in DeleteJob /\ job[h].at = "drop"
           /\ \/ job'[h] = NoJob
              \/ /\ job'[h] \in DeleteJob /\ job'[h].at = "seal"
                 /\ job'[h].role = job[h].role /\ job'[h].rows = job[h].rows
           /\ UNCHANGED <<accounts, invites, roles, grants, chainVars>>
  <1>1. job[h] \in Jobs /\ job[h].at = "drop" /\ job[h] \in DeleteJob
    BY JobShape DEF DropRole, RolesType
  <1>2. UNCHANGED <<calls, accounts, invites, roles, grants, chainVars>>
    BY DEF DropRole, Answer, GoOn, NoWrite
  <1>3. PICK j : j = [job[h] EXCEPT !.at = "seal"]
    OBVIOUS
  <1>4. /\ j \in DeleteJob /\ j.at = "seal"
        /\ j.role = job[h].role /\ j.rows = job[h].rows
    BY <1>1, <1>3 DEF DeleteJob
  <1>5. PICK k : k = [job[h] EXCEPT !.at = "seal", !.dropped = TRUE]
    OBVIOUS
  <1>6. /\ k \in DeleteJob /\ k.at = "seal"
        /\ k.role = job[h].role /\ k.rows = job[h].rows
    BY <1>1, <1>5 DEF DeleteJob
  <1>7. PICK m \in {NoJob, j, k} : job' = [job EXCEPT ![h] = m]
    BY <1>3, <1>5 DEF DropRole, GoOn, Answer
  <1>8. m \in Jobs
    BY <1>4, <1>6 DEF Jobs, RoleJob
  <1>9. job' \in [Admins -> Jobs] /\ job'[h] = m /\ Alone(h)
    BY <1>7, <1>8, JobMoves DEF Alone
  <1> QED BY <1>1, <1>2, <1>4, <1>6, <1>9 DEF RolesType

LEMMA AssignRoleFacts ==
    ASSUME RolesType, NEW h \in Admins, NEW u \in Users, NEW r \in RoleNames,
           AssignRole(h, u, r)
    PROVE  /\ RolesType' /\ Alone(h) /\ job[h] = NoJob
           /\ job'[h] \in AssignJob /\ job'[h].at = "seal"
           /\ job'[h].user = u /\ job'[h].role = r
           /\ job'[h].inserted <=> (Active(u, r) = {})
           /\ PlaceFree(u, r)
           /\ UNCHANGED <<accounts, invites, roles, grants, chainVars>>
  <1>1. PICK j : /\ j = [op |-> "assign", at |-> "seal", role |-> r, user |-> u,
                         inserted |-> Active(u, r) = {}]
                 /\ job' = [job EXCEPT ![h] = j] /\ calls' = calls + 1 /\ job[h] = NoJob
                 /\ UNCHANGED <<accounts, invites, roles, grants, chainVars>>
                 /\ PlaceFree(u, r)
    BY DEF AssignRole, Begin, NoWrite
  <1>2. /\ j \in AssignJob /\ j.at = "seal" /\ j.user = u /\ j.role = r
        /\ j.inserted <=> (Active(u, r) = {})
    BY <1>1 DEF AssignJob
  <1>3. job' \in [Admins -> Jobs] /\ job'[h] = j /\ Alone(h)
    BY <1>1, <1>2, JobMoves DEF Alone, Jobs, RoleJob
  <1> QED BY <1>1, <1>2, <1>3 DEF RolesType

LEMMA RevokeRoleFacts ==
    ASSUME RolesType, NEW h \in Admins, NEW u \in Users, NEW r \in RoleNames,
           RevokeRole(h, u, r)
    PROVE  /\ RolesType' /\ Alone(h) /\ job[h] = NoJob
           /\ job'[h] \in RevokeJob /\ job'[h].at = "seal"
           /\ job'[h].user = u /\ job'[h].role = r /\ job'[h].rows = Active(u, r)
           /\ RowsFree(Active(u, r)) /\ Active(u, r) # {}
           /\ UNCHANGED <<accounts, invites, roles, grants, chainVars>>
  <1>1. PICK j : /\ j = [op |-> "revoke", at |-> "seal", role |-> r, user |-> u,
                         rows |-> Active(u, r)]
                 /\ job' = [job EXCEPT ![h] = j] /\ calls' = calls + 1 /\ job[h] = NoJob
                 /\ UNCHANGED <<accounts, invites, roles, grants, chainVars>>
                 /\ RowsFree(Active(u, r)) /\ Active(u, r) # {}
    BY DEF RevokeRole, Begin, NoWrite
  <1>2. Active(u, r) \subseteq Nat
    BY RowsNumbered
  <1>3. j \in RevokeJob /\ j.at = "seal" /\ j.user = u /\ j.role = r /\ j.rows = Active(u, r)
    BY <1>1, <1>2 DEF RevokeJob
  <1>4. job' \in [Admins -> Jobs] /\ job'[h] = j /\ Alone(h)
    BY <1>1, <1>3, JobMoves DEF Alone, Jobs, RoleJob
  <1> QED BY <1>1, <1>3, <1>4 DEF RolesType

(* The same request, further on.                                           *)
SameRequest(j, k) ==
    /\ k.op = j.op /\ k.role = j.role /\ k.user = j.user
    /\ j \in CreateJob => k \in CreateJob /\ k.inserted = j.inserted
    /\ j \in DeleteJob => k \in DeleteJob /\ k.rows = j.rows /\ k.dropped = j.dropped
    /\ j \in AssignJob => k \in AssignJob /\ k.inserted = j.inserted
    /\ j \in RevokeJob => k \in RevokeJob /\ k.rows = j.rows

LEMMA RoleJobShape ==
    ASSUME NEW j \in RoleJob
    PROVE  /\ j \in Jobs /\ j # NoJob
           /\ j.op \in RoleOps /\ j.role \in RoleNames /\ j.user \in Users \cup {Nobody}
           /\ j.op = "create" <=> j \in CreateJob
           /\ j.op = "delete" <=> j \in DeleteJob
           /\ j.op = "assign" <=> j \in AssignJob
           /\ j.op = "revoke" <=> j \in RevokeJob
           /\ j \notin AccountJob
           /\ [event |-> j.op, role |-> j.role, user |-> j.user] \in Bodies
           /\ j.op \in {"create", "delete"} => j.user = Nobody
           /\ j.op \in {"assign", "revoke"} => j.user \in Users
  <1>1. /\ j \in Jobs /\ j.at \in {"drop", "seal", "commit"}
        /\ j.op \in RoleOps /\ j.role \in RoleNames /\ j.user \in Users \cup {Nobody}
        /\ j.op \in {"create", "delete"} => j.user = Nobody
        /\ j.op \in {"assign", "revoke"} => j.user \in Users
    BY DEF RoleJob, CreateJob, DeleteJob, AssignJob, RevokeJob, Jobs, RoleOps
  <1>2. j # NoJob
    BY <1>1, JobShape
  <1>3. j.op = "create" <=> j \in CreateJob
    BY DEF RoleJob, CreateJob, DeleteJob, AssignJob, RevokeJob
  <1>4. j.op = "delete" <=> j \in DeleteJob
    BY DEF RoleJob, CreateJob, DeleteJob, AssignJob, RevokeJob
  <1>5. j.op = "assign" <=> j \in AssignJob
    BY DEF RoleJob, CreateJob, DeleteJob, AssignJob, RevokeJob
  <1>6. j.op = "revoke" <=> j \in RevokeJob
    BY DEF RoleJob, CreateJob, DeleteJob, AssignJob, RevokeJob
  <1>7. j \notin AccountJob
    BY <1>1 DEF AccountJob, RoleOps
  <1>8. [event |-> j.op, role |-> j.role, user |-> j.user] \in Bodies
    BY <1>1 DEF Bodies
  <1> QED BY <1>1, <1>2, <1>3, <1>4, <1>5, <1>6, <1>7, <1>8

LEMMA SealRoleFacts ==
    ASSUME RolesType, NEW h \in Admins, SealRole(h)
    PROVE  /\ RolesType' /\ Alone(h)
           /\ job[h] \in RoleJob /\ job[h].at = "seal"
           /\ job'[h] \in RoleJob /\ job'[h].at = "commit"
           /\ SameRequest(job[h], job'[h])
           /\ WriteEntry(h, [event |-> job[h].op, role |-> job[h].role, user |-> job[h].user])
           /\ UNCHANGED <<accounts, invites, roles, grants>>
  <1>1. /\ job[h] \in RoleJob /\ job[h] \in Jobs /\ job[h].at = "seal"
        /\ WriteEntry(h, [event |-> job[h].op, role |-> job[h].role, user |-> job[h].user])
        /\ UNCHANGED <<calls, accounts, invites, roles, grants>>
    BY JobShape DEF SealRole, GoOn, NoWrite, RolesType
  <1>2. PICK j : j = [job[h] EXCEPT !.at = "commit"]
    OBVIOUS
  <1>3. j \in RoleJob /\ j.at = "commit" /\ j.op = job[h].op
    BY <1>1, <1>2 DEF RoleJob, CreateJob, DeleteJob, AssignJob, RevokeJob
  <1>4. SameRequest(job[h], j)
    <2>1. j.role = job[h].role /\ j.user = job[h].user
      BY <1>1, <1>2, LabelMoves DEF RoleJob
    <2> QED BY <1>1, <1>2, <1>3, <2>1, LabelMoves DEF SameRequest
  <1>5. job' = [job EXCEPT ![h] = j] /\ j \in Jobs
    BY <1>2, <1>3 DEF SealRole, GoOn, Jobs
  <1>6. job' \in [Admins -> Jobs] /\ job'[h] = j /\ Alone(h)
    BY <1>5, JobMoves DEF Alone
  <1> QED BY <1>1, <1>3, <1>4, <1>6 DEF RolesType

LEMMA FailRoleFacts ==
    ASSUME RolesType, NEW h \in Admins, FailRole(h)
    PROVE  /\ RolesType' /\ Alone(h)
           /\ job[h].at = "commit" /\ job'[h] = NoJob
           /\ DiscardEntry(h)
           /\ UNCHANGED <<accounts, invites, roles, grants>>
  <1>1. /\ job[h].at = "commit" /\ DiscardEntry(h) /\ job' = [job EXCEPT ![h] = NoJob]
        /\ UNCHANGED <<calls, accounts, invites, roles, grants>>
    BY DEF FailRole, Answer, NoWrite
  <1>2. job' \in [Admins -> Jobs] /\ job'[h] = NoJob /\ Alone(h)
    BY <1>1, JobMoves DEF Alone, Jobs
  <1> QED BY <1>1, <1>2 DEF RolesType

(* A commit that updates rows, and one that appends one.                   *)
LEMMA RewrittenRows ==
    ASSUME RolesType, NEW rows, NEW state \in {"revoked", "deleted"},
           grants' = Rewritten(rows, state)
    PROVE  /\ grants' \in Seq(Grant) /\ Rows' = Rows
           /\ \A k \in Rows : /\ grants'[k].user = grants[k].user
                              /\ grants'[k].role = grants[k].role
                              /\ grants'[k].state = IF k \in rows THEN state
                                                    ELSE grants[k].state
  <1>1. /\ Len(grants) \in Nat /\ Rows = 1 .. Len(grants)
        /\ \A k \in Rows : grants[k] \in Grant
    BY RowsNumbered
  <1>2. grants' = [k \in 1 .. Len(grants) |->
                     IF k \in rows THEN [grants[k] EXCEPT !.state = state] ELSE grants[k]]
    BY <1>1 DEF Rewritten
  <1>3. \A k \in Rows : /\ [grants[k] EXCEPT !.state = state] \in Grant
                        /\ [grants[k] EXCEPT !.state = state].user = grants[k].user
                        /\ [grants[k] EXCEPT !.state = state].role = grants[k].role
                        /\ [grants[k] EXCEPT !.state = state].state = state
    BY <1>1 DEF Grant
  <1>4. grants' \in [1 .. Len(grants) -> Grant]
    BY <1>1, <1>2, <1>3
  <1>5. grants' \in Seq(Grant) /\ Len(grants') = Len(grants)
    BY <1>1, <1>4
  <1> QED BY <1>1, <1>2, <1>3, <1>5 DEF Rows

LEMMA AppendedRow ==
    ASSUME RolesType, NEW g \in Grant, grants' = Append(grants, g)
    PROVE  /\ grants' \in Seq(Grant) /\ Rows' = Rows \cup {Len(grants) + 1}
           /\ Len(grants) + 1 \notin Rows /\ grants'[Len(grants) + 1] = g
           /\ \A k \in Rows : grants'[k] = grants[k]
  <1>1. Len(grants) \in Nat /\ Rows = 1 .. Len(grants)
    BY RowsNumbered
  <1>2. /\ grants' \in Seq(Grant) /\ Len(grants') = Len(grants) + 1
        /\ grants'[Len(grants) + 1] = g
        /\ \A k \in 1 .. Len(grants) : grants'[k] = grants[k]
    BY AppendProperties DEF RolesType
  <1> QED BY <1>1, <1>2 DEF Rows

LEMMA CommitRoleFacts ==
    ASSUME RolesType, NEW h \in Admins, CommitRole(h)
    PROVE  /\ RolesType' /\ Alone(h)
           /\ job[h] \in RoleJob /\ job[h].at = "commit" /\ job'[h] = NoJob
           /\ PublishEntry(h)
           /\ job[h].op # "delete" => roles \subseteq roles'
           /\ job[h].op = "delete" => roles \ {job[h].role} \subseteq roles'
           /\ job[h].op = "create" /\ job[h].inserted => job[h].role \in roles'
           /\ \/ grants' = grants /\ (job[h].op = "create"
                                      \/ (job[h].op = "assign" /\ ~ job[h].inserted))
              \/ job[h].op = "delete" /\ grants' = Rewritten(job[h].rows, "deleted")
              \/ job[h].op = "revoke" /\ grants' = Rewritten(job[h].rows, "revoked")
              \/ /\ job[h].op = "assign" /\ job[h].inserted
                 /\ grants' = Append(grants, [user |-> job[h].user, role |-> job[h].role,
                                              state |-> "active"])
           /\ UNCHANGED <<accounts, invites>>
  <1>1. /\ job[h] \in Jobs /\ job[h].at = "commit"
        /\ job[h].op \in {"create", "delete", "assign", "revoke"}
        /\ PublishEntry(h) /\ UNCHANGED <<calls, accounts, invites>>
        /\ job' = [job EXCEPT ![h] = NoJob]
    BY DEF CommitRole, Answer, RolesType
  <1>2. job[h] \in RoleJob
    BY <1>1, JobShape DEF RoleJob, NoJob
  <1>3. job[h].role \in RoleNames
    BY <1>2, RoleJobShape
  <1>4. roles' = CASE job[h].op = "create" /\ job[h].inserted -> roles \cup {job[h].role}
                   [] job[h].op = "delete" /\ job[h].dropped -> roles \ {job[h].role}
                   [] OTHER -> roles
    BY DEF CommitRole
  <1>5. /\ roles' \subseteq RoleNames
        /\ job[h].op # "delete" => roles \subseteq roles'
        /\ job[h].op = "delete" => roles \ {job[h].role} \subseteq roles'
        /\ job[h].op = "create" /\ job[h].inserted => job[h].role \in roles'
    BY <1>1, <1>3, <1>4 DEF RolesType
  <1>6. grants' = CASE job[h].op = "delete" -> Rewritten(job[h].rows, "deleted")
                    [] job[h].op = "revoke" -> Rewritten(job[h].rows, "revoked")
                    [] job[h].op = "assign" /\ job[h].inserted ->
                         Append(grants, [user |-> job[h].user, role |-> job[h].role,
                                         state |-> "active"])
                    [] OTHER -> grants
    BY DEF CommitRole
  <1>7. \/ grants' = grants /\ (job[h].op = "create"
                                \/ (job[h].op = "assign" /\ ~ job[h].inserted))
        \/ job[h].op = "delete" /\ grants' = Rewritten(job[h].rows, "deleted")
        \/ job[h].op = "revoke" /\ grants' = Rewritten(job[h].rows, "revoked")
        \/ /\ job[h].op = "assign" /\ job[h].inserted
           /\ grants' = Append(grants, [user |-> job[h].user, role |-> job[h].role,
                                        state |-> "active"])
    BY <1>1, <1>6
  <1>8. grants' \in Seq(Grant)
    <2>1. CASE grants' = grants
      BY <2>1 DEF RolesType
    <2>2. CASE grants' = Rewritten(job[h].rows, "deleted")
      BY <2>2, RewrittenRows
    <2>3. CASE grants' = Rewritten(job[h].rows, "revoked")
      BY <2>3, RewrittenRows
    <2>4. CASE job[h].op = "assign" /\ grants' = Append(grants,
                 [user |-> job[h].user, role |-> job[h].role, state |-> "active"])
      <3>1. [user |-> job[h].user, role |-> job[h].role, state |-> "active"] \in Grant
        BY <1>2, <1>3, <2>4, RoleJobShape DEF Grant
      <3> QED BY <2>4, <3>1, AppendedRow
    <2> QED BY <1>7, <2>1, <2>2, <2>3, <2>4
  <1>9. job' \in [Admins -> Jobs] /\ job'[h] = NoJob /\ Alone(h)
    BY <1>1, JobMoves DEF Alone, Jobs
  <1> QED BY <1>1, <1>2, <1>5, <1>7, <1>8, <1>9 DEF RolesType

-----------------------------------------------------------------------------
(* The steps of a worker                                                   *)

(* Captures are dated before now, so that one of them is the latest.       *)
ClockBounds ==
    /\ versions # {} /\ \A v \in versions : v.at <= clock
    /\ \A w \in Workers : step[w] # NoStep => step[w].now <= clock

LEMMA LatestIsVersion ==
    ASSUME CatalogType, ClockBounds
    PROVE  Latest \in versions
  <1> DEFINE Age == {clock - v.at : v \in versions}
  <1>1. \A v \in versions : v.at \in Nat /\ v.at <= clock
    BY DEF CatalogType, ClockBounds, Version
  <1>2. Age \subseteq Nat /\ Age # {}
    BY <1>1 DEF CatalogType, ClockBounds
  <1>3. PICK a \in Age : \A b \in Age : ~ (<<b, a>> \in OpToRel(<, Nat))
    <2> HIDE DEF Age
    <2> QED BY <1>2, NatLessThanWellFounded, WFMin
  <1>4. PICK v \in versions : a = clock - v.at
    BY <1>3
  <1>5. \A u \in versions : u.at <= v.at
    <2> TAKE u \in versions
    <2>1. clock - u.at \in Age
      OBVIOUS
    <2>2. ~ (clock - u.at < a)
      BY <1>2, <1>3, <2>1 DEF OpToRel
    <2> QED BY <2>2, <1>1, <1>4 DEF CatalogType
  <1>6. \E v_1 \in versions : \A u \in versions : u.at <= v_1.at
    BY <1>5
  <1> QED BY <1>6 DEF Latest, LatestOf

LEMMA StepShape ==
    ASSUME NEW s \in {NoStep} \cup StepRec
    PROVE  /\ (s = NoStep) <=> (s.at = "idle")
           /\ s.at # "idle" => s \in StepRec
  BY DEF NoStep, StepRec

Only(w) == \A x \in Workers \ {w} : step'[x] = step[x]

LEMMA StepMoves ==
    ASSUME CatalogType, NEW w \in Workers, NEW s \in {NoStep} \cup StepRec,
           step' = [step EXCEPT ![w] = s]
    PROVE  /\ step' \in [Workers -> {NoStep} \cup StepRec]
           /\ step'[w] = s /\ Only(w)
  BY DEF CatalogType, Only

(* What a step read and wrote before stays with it.                        *)
SameStep(s, t) ==
    /\ t.code = s.code /\ t.drifted = s.drifted /\ t.prior = s.prior

LEMMA BeginStepFacts ==
    ASSUME CatalogType, ClockBounds,
           NEW w \in Workers, NEW c \in Codes, NEW off \in BOOLEAN, BeginStep(w, c, off)
    PROVE  /\ CatalogType' /\ ClockBounds' /\ Only(w) /\ step[w] = NoStep
           /\ step'[w] \in StepRec /\ step'[w].code = c
           /\ step'[w].at = IF c \in Overriding THEN "tag" ELSE "version"
           /\ step'[w].prior = tag /\ step'[w].entry = NoTag
           /\ UNCHANGED <<versions, tag, drift, drifted, submission, chainVars>>
  <1>1. PICK s : /\ s = [at |-> IF c \in Overriding THEN "tag" ELSE "version",
                         code |-> c, drifted |-> off, prior |-> tag, entry |-> NoTag,
                         schema |-> FirstSchema, now |-> 0, prev |-> NoTag]
                 /\ step' = [step EXCEPT ![w] = s]
                 /\ step[w] = NoStep /\ steps' = steps + 1
                 /\ UNCHANGED <<table, versions, tag, drift, drifted, submission, alters, clock,
                                chainVars>>
    BY DEF BeginStep, Committed
  <1>2. /\ s \in StepRec /\ s.code = c /\ s.now = 0
        /\ s.at = IF c \in Overriding THEN "tag" ELSE "version"
        /\ s.prior = tag /\ s.entry = NoTag
    BY <1>1, CatalogAssumption DEF CatalogType, StepRec
  <1>3. step' \in [Workers -> {NoStep} \cup StepRec] /\ step'[w] = s /\ Only(w)
    BY <1>1, <1>2, StepMoves
  <1>4. CatalogType'
    BY <1>1, <1>3 DEF CatalogType
  <1>5. ClockBounds'
    BY <1>1, <1>2, <1>3 DEF ClockBounds, Only, CatalogType
  <1> QED BY <1>1, <1>2, <1>3, <1>4, <1>5

(* The steps that only move on within a transaction.                       *)
LEMMA MoveFacts ==
    ASSUME CatalogType, ClockBounds, NEW w \in Workers,
           NEW s \in {NoStep} \cup StepRec, s # NoStep => s.now <= clock',
           step' = [step EXCEPT ![w] = s],
           clock' \in Nat, clock <= clock',
           UNCHANGED <<table, versions, tag, drift, drifted, submission, alters, steps>>
    PROVE  /\ CatalogType' /\ ClockBounds' /\ Only(w) /\ step'[w] = s
  <1>1. step' \in [Workers -> {NoStep} \cup StepRec] /\ step'[w] = s /\ Only(w)
    BY StepMoves
  <1>2. CatalogType'
    BY <1>1 DEF CatalogType
  <1>3. \A v \in versions' : v.at <= clock'
    BY DEF CatalogType, ClockBounds, Version
  <1>4. \A x \in Workers : step'[x] # NoStep => step'[x].now <= clock'
    <2> TAKE x \in Workers
    <2>1. CASE x = w
      BY <2>1, <1>1
    <2>2. CASE x # w
      <3>1. step'[x] = step[x] /\ step[x] \in {NoStep} \cup StepRec
        BY <2>2, <1>1 DEF Only, CatalogType
      <3>2. step[x] # NoStep => step[x].now \in Nat /\ step[x].now <= clock
        BY <3>1 DEF ClockBounds, StepRec
      <3> QED BY <3>1, <3>2 DEF CatalogType
    <2> QED BY <2>1, <2>2
  <1>5. ClockBounds'
    BY <1>3, <1>4 DEF ClockBounds
  <1> QED BY <1>1, <1>2, <1>5

LEMMA WriteTagFacts ==
    ASSUME CatalogType, ClockBounds, NEW w \in Workers, WriteTag(w)
    PROVE  /\ CatalogType' /\ ClockBounds' /\ Only(w)
           /\ step[w] \in StepRec /\ step[w].at = "tag" /\ ~ TagLocked(w)
           /\ \/ step'[w] = NoStep
              \/ /\ step'[w] \in StepRec /\ SameStep(step[w], step'[w])
                 /\ step'[w].entry = step[w].entry
                 /\ step'[w].at = IF step[w].prior = NoTag THEN "seal" ELSE "version"
                 /\ step[w].prior = NoTag => tag = NoTag
           /\ UNCHANGED <<versions, tag, drift, drifted, submission, chainVars>>
  <1>1. /\ step[w] \in StepRec /\ step[w].at = "tag" /\ ~ TagLocked(w)
        /\ step[w].now <= clock /\ step[w] # NoStep
    BY StepShape DEF WriteTag, CatalogType, ClockBounds
  <1>2. UNCHANGED <<table, versions, tag, drift, drifted, submission, alters, clock, steps,
                    chainVars>>
    BY DEF WriteTag, Committed
  <1>3. clock' \in Nat /\ clock <= clock'
    BY <1>2 DEF CatalogType
  <1>4. CASE step' = [step EXCEPT ![w] = NoStep]
    BY <1>1, <1>2, <1>3, <1>4, MoveFacts
  <1>5. CASE /\ Now(w, IF EmitAudit(w) THEN "seal" ELSE "version")
             /\ ~ (step[w].prior = NoTag /\ tag # NoTag)
    <2>1. PICK s : s = [step[w] EXCEPT !.at = IF step[w].prior = NoTag THEN "seal"
                                              ELSE "version"]
      OBVIOUS
    <2>2. /\ s \in StepRec /\ SameStep(step[w], s) /\ s.entry = step[w].entry
          /\ s.now = step[w].now
          /\ s.at = IF step[w].prior = NoTag THEN "seal" ELSE "version"
      BY <1>1, <2>1 DEF StepRec, SameStep
    <2>3. step' = [step EXCEPT ![w] = s]
      BY <1>5, <2>1 DEF Now, EmitAudit
    <2>4. CatalogType' /\ ClockBounds' /\ Only(w) /\ step'[w] = s
      BY <1>1, <1>2, <1>3, <2>2, <2>3, MoveFacts
    <2> QED BY <1>1, <1>2, <1>5, <2>2, <2>4
  <1> QED BY <1>4, <1>5 DEF WriteTag

LEMMA SealOverrideFacts ==
    ASSUME CatalogType, ClockBounds, sentinel.seq + 1 \in Nat,
           NEW w \in Workers, SealOverride(w)
    PROVE  /\ CatalogType' /\ ClockBounds' /\ Only(w)
           /\ step[w] \in StepRec /\ step[w].at = "seal"
           /\ step'[w] \in StepRec /\ SameStep(step[w], step'[w])
           /\ step'[w].at = "version" /\ step'[w].entry = sentinel.seq + 1
           /\ WriteEntry(w, [event |-> "overridden", user |-> NoTag, role |-> NoTag])
           /\ UNCHANGED <<versions, tag, drift, drifted, submission>>
  <1>1. /\ step[w] \in StepRec /\ step[w].at = "seal"
        /\ step[w].now <= clock /\ step[w] # NoStep
    BY StepShape DEF SealOverride, CatalogType, ClockBounds
  <1>2. /\ UNCHANGED <<table, versions, tag, drift, drifted, submission, alters, clock, steps>>
        /\ WriteEntry(w, [event |-> "overridden", user |-> NoTag, role |-> NoTag])
        /\ clock' \in Nat /\ clock <= clock'
    BY DEF SealOverride, Committed, CatalogType
  <1>3. PICK s : s = [step[w] EXCEPT !.at = "version", !.entry = sentinel.seq + 1]
    OBVIOUS
  <1>4. /\ s \in StepRec /\ SameStep(step[w], s) /\ s.entry = sentinel.seq + 1
        /\ s.now = step[w].now /\ s.at = "version"
    BY <1>1, <1>3 DEF StepRec, SameStep
  <1>5. step' = [step EXCEPT ![w] = s]
    BY <1>3 DEF SealOverride
  <1>6. CatalogType' /\ ClockBounds' /\ Only(w) /\ step'[w] = s
    BY <1>1, <1>2, <1>4, <1>5, MoveFacts
  <1> QED BY <1>1, <1>2, <1>4, <1>6

(* CaptureRun, DescribeFails: a change of the place alone.                 *)
LEMMA PlaceMoves ==
    ASSUME CatalogType, ClockBounds, NEW w \in Workers, step[w].at # "idle",
           NEW l \in {"describe", "commit"}, Now(w, l), UNCHANGED <<Committed, clock, steps>>
    PROVE  /\ CatalogType' /\ ClockBounds' /\ Only(w)
           /\ step[w] \in StepRec /\ step'[w] \in StepRec
           /\ SameStep(step[w], step'[w]) /\ step'[w].at = l
           /\ step'[w].entry = step[w].entry /\ step'[w].prev = step[w].prev
           /\ step'[w].now = step[w].now /\ step'[w].schema = step[w].schema
  <1>1. step[w] \in StepRec /\ step[w].now <= clock /\ step[w] # NoStep
    BY StepShape DEF CatalogType, ClockBounds
  <1>2. PICK s : s = [step[w] EXCEPT !.at = l]
    OBVIOUS
  <1>3. /\ s \in StepRec /\ SameStep(step[w], s) /\ s.at = l
        /\ s.entry = step[w].entry /\ s.prev = step[w].prev
        /\ s.now = step[w].now /\ s.schema = step[w].schema
    BY <1>1, <1>2 DEF StepRec, SameStep
  <1>4. /\ step' = [step EXCEPT ![w] = s] /\ clock' \in Nat /\ clock <= clock'
        /\ s.now <= clock'
    BY <1>1, <1>2, <1>3 DEF Now, CatalogType
  <1>5. CatalogType' /\ ClockBounds' /\ Only(w) /\ step'[w] = s
    BY <1>3, <1>4, MoveFacts DEF Committed
  <1> QED BY <1>1, <1>3, <1>5

LEMMA DescribeFacts ==
    ASSUME CatalogType, ClockBounds, NEW w \in Workers, Describe(w)
    PROVE  /\ CatalogType' /\ ClockBounds' /\ Only(w)
           /\ step[w] \in StepRec /\ step[w].at = "describe"
           /\ step'[w] \in StepRec /\ SameStep(step[w], step'[w])
           /\ step'[w].at = "compare" /\ step'[w].entry = step[w].entry
           /\ UNCHANGED <<versions, tag, drift, drifted, submission, chainVars>>
  <1>1. step[w] \in StepRec /\ step[w].at = "describe"
    BY StepShape DEF Describe, CatalogType
  <1>2. /\ UNCHANGED <<table, versions, tag, drift, drifted, submission, alters, steps, chainVars>>
        /\ clock' = clock + 1 /\ clock' \in Nat /\ clock <= clock'
    BY DEF Describe, Committed, CatalogType
  <1>3. PICK s : s = [step[w] EXCEPT !.at = "compare", !.schema = table, !.now = clock + 1]
    OBVIOUS
  <1>4. /\ s \in StepRec /\ SameStep(step[w], s) /\ s.entry = step[w].entry
        /\ s.now <= clock' /\ s.at = "compare"
    <2>1. /\ table \in Schemas /\ clock + 1 \in Nat /\ clock' = clock + 1
          /\ clock + 1 <= clock'
      BY <1>2 DEF CatalogType
    <2>2. s \in StepRec /\ s.at = "compare" /\ s.now = clock + 1
      BY <1>1, <1>3, <2>1 DEF StepRec
    <2>3. SameStep(step[w], s) /\ s.entry = step[w].entry
      BY <1>1, <1>3 DEF StepRec, SameStep
    <2> QED BY <2>1, <2>2, <2>3
  <1>5. step' = [step EXCEPT ![w] = s]
    BY <1>3 DEF Describe
  <1>6. CatalogType' /\ ClockBounds' /\ Only(w) /\ step'[w] = s
    BY <1>2, <1>4, <1>5, MoveFacts
  <1> QED BY <1>1, <1>2, <1>4, <1>6

LEMMA CompareFacts ==
    ASSUME CatalogType, ClockBounds, NEW w \in Workers, Compare(w)
    PROVE  /\ CatalogType' /\ ClockBounds' /\ Only(w)
           /\ step[w] \in StepRec /\ step[w].at = "compare"
           /\ step'[w] \in StepRec /\ SameStep(step[w], step'[w])
           /\ step'[w].at = "commit" /\ step'[w].entry = step[w].entry
           /\ step'[w].prev = {Latest} /\ Latest \in versions
           /\ UNCHANGED <<versions, tag, drift, drifted, submission, chainVars>>
  <1>1. /\ step[w] \in StepRec /\ step[w].at = "compare"
        /\ step[w].now <= clock /\ step[w] # NoStep
    BY StepShape DEF Compare, CatalogType, ClockBounds
  <1>2. /\ UNCHANGED <<table, versions, tag, drift, drifted, submission, alters, clock, steps,
                       chainVars>>
        /\ clock' \in Nat /\ clock <= clock'
    BY DEF Compare, Committed, CatalogType
  <1>3. Latest \in versions /\ {Latest} \in SUBSET Version
    BY LatestIsVersion DEF CatalogType
  <1>4. PICK s : s = [step[w] EXCEPT !.at = "commit", !.prev = {Latest}]
    OBVIOUS
  <1>5. /\ s \in StepRec /\ SameStep(step[w], s) /\ s.entry = step[w].entry
        /\ s.now = step[w].now /\ s.at = "commit" /\ s.prev = {Latest}
    BY <1>1, <1>3, <1>4 DEF StepRec, SameStep
  <1>6. step' = [step EXCEPT ![w] = s]
    BY <1>4 DEF Compare, Previous
  <1>7. CatalogType' /\ ClockBounds' /\ Only(w) /\ step'[w] = s
    BY <1>1, <1>2, <1>5, <1>6, MoveFacts
  <1> QED BY <1>1, <1>2, <1>3, <1>5, <1>7

LEMMA NewVersionsType ==
    ASSUME CatalogType, ClockBounds, NEW w \in Workers, step[w] \in StepRec
    PROVE  NewVersions(w) \subseteq Version /\ \A v \in NewVersions(w) : v.at <= clock
  <1>1. /\ step[w].schema \in Schemas /\ step[w].now \in Nat /\ step[w].code \in Codes
        /\ step[w].now <= clock
    BY StepShape DEF StepRec, ClockBounds, NoStep
  <1>2. ASSUME NEW v \in NewVersions(w)
        PROVE  v \in Version /\ v.at = step[w].now
    <2>1. v = [schema |-> step[w].schema, at |-> step[w].now, code |-> step[w].code,
               breaks |-> \E u \in step[w].prev :
                             <<u.schema, step[w].schema>> \notin NonBreaking,
               acked |-> FALSE]
      BY <1>2 DEF NewVersions
    <2> QED BY <1>1, <2>1 DEF Version
  <1> QED BY <1>1, <1>2

LEMMA CommitStepFacts ==
    ASSUME CatalogType, ClockBounds, NEW w \in Workers, CommitStep(w),
           step[w] \in StepRec, step[w].entry # NoTag => step[w].entry \in Nat
    PROVE  /\ CatalogType' /\ ClockBounds' /\ Only(w)
           /\ step[w].at = "commit" /\ step'[w] = NoStep
           /\ versions' = versions \cup NewVersions(w)
           /\ drift' = [drift EXCEPT ![step[w].code] = DriftAfter(w)]
           /\ drifted' = drifted \cup (IF step[w].drifted THEN {step[w].code} ELSE {})
           /\ IF step[w].entry = NoTag THEN UNCHANGED <<tag, chainVars>>
              ELSE tag' = step[w].entry /\ PublishEntry(w)
           /\ UNCHANGED submission
  <1>1. /\ step[w].at = "commit" /\ versions' = versions \cup NewVersions(w)
        /\ drift' = [drift EXCEPT ![step[w].code] = DriftAfter(w)]
        /\ drifted' = drifted \cup (IF step[w].drifted THEN {step[w].code} ELSE {})
        /\ IF step[w].entry = NoTag THEN UNCHANGED <<tag, chainVars>>
           ELSE tag' = step[w].entry /\ PublishEntry(w)
        /\ step' = [step EXCEPT ![w] = NoStep]
        /\ UNCHANGED <<table, submission, alters, clock, steps>>
    BY DEF CommitStep
  <1>2. step' \in [Workers -> {NoStep} \cup StepRec] /\ step'[w] = NoStep /\ Only(w)
    BY <1>1, StepMoves
  <1>3. NewVersions(w) \subseteq Version /\ \A v \in NewVersions(w) : v.at <= clock
    BY NewVersionsType
  <1>4. step[w].code \in Codes /\ DriftAfter(w) \in {"none", "clean", "pending"}
    BY DEF StepRec, DriftAfter, CatalogType
  <1>5. /\ drift' \in [Codes -> {"none", "clean", "pending"}] /\ drifted' \subseteq Codes
        /\ tag' \in Nat \cup {NoTag} /\ versions' \subseteq Version
    BY <1>1, <1>3, <1>4 DEF CatalogType
  <1>6. CatalogType'
    BY <1>1, <1>2, <1>5 DEF CatalogType
  <1>7. ClockBounds'
    BY <1>1, <1>2, <1>3 DEF ClockBounds, Only
  <1> QED BY <1>1, <1>2, <1>6, <1>7

LEMMA FailStepFacts ==
    ASSUME CatalogType, ClockBounds, NEW w \in Workers, FailStep(w)
    PROVE  /\ CatalogType' /\ ClockBounds' /\ Only(w)
           /\ step[w].at = "commit" /\ step'[w] = NoStep /\ DiscardEntry(w)
           /\ UNCHANGED <<versions, tag, drift, drifted, submission>>
  <1>1. /\ step[w].at = "commit" /\ step' = [step EXCEPT ![w] = NoStep] /\ DiscardEntry(w)
        /\ UNCHANGED <<table, versions, tag, drift, drifted, submission, alters, clock, steps>>
        /\ clock' \in Nat /\ clock <= clock'
    BY DEF FailStep, Committed, CatalogType
  <1>2. CatalogType' /\ ClockBounds' /\ Only(w) /\ step'[w] = NoStep
    BY <1>1, MoveFacts
  <1> QED BY <1>1, <1>2

LEMMA AlterTableFacts ==
    ASSUME CatalogType, ClockBounds, NEW s \in Schemas, AlterTable(s)
    PROVE  /\ CatalogType' /\ ClockBounds'
           /\ UNCHANGED <<versions, tag, drift, drifted, step, submission, chainVars>>
  BY DEF AlterTable, CatalogType, ClockBounds

LEMMA AcknowledgeFacts ==
    ASSUME CatalogType, ClockBounds, NEW v \in versions, Acknowledge(v)
    PROVE  /\ CatalogType' /\ ClockBounds'
           /\ v.breaks
           /\ \E a \in Version : /\ a.schema = v.schema /\ a.breaks
                                 /\ versions' = (versions \ {v}) \cup {a}
           /\ UNCHANGED <<tag, drift, drifted, step, submission, chainVars>>
  <1>1. PICK a : a = [v EXCEPT !.acked = TRUE]
    OBVIOUS
  <1>2. v \in Version /\ v.breaks /\ v.at <= clock
    BY DEF Acknowledge, CatalogType, ClockBounds
  <1>3. a \in Version /\ a.schema = v.schema /\ a.breaks /\ a.at <= clock
    BY <1>1, <1>2 DEF Version
  <1>4. /\ versions' = (versions \ {v}) \cup {a}
        /\ UNCHANGED <<table, tag, drift, drifted, step, submission, alters, clock, steps,
                       chainVars>>
    BY <1>1 DEF Acknowledge
  <1>5. CatalogType' /\ ClockBounds'
    BY <1>3, <1>4 DEF CatalogType, ClockBounds
  <1> QED BY <1>2, <1>3, <1>4, <1>5

(* A submission moves on; all else is as it was.                           *)
LEMMA SubmitFacts ==
    ASSUME CatalogType, ClockBounds, NEW c \in Submitted,
           ProbeBreaks(c) \/ ProbeDrift(c) \/ Activate(c)
    PROVE  /\ CatalogType' /\ ClockBounds'
           /\ \A d \in Submitted \ {c} : submission'[d] = submission[d]
           /\ UNCHANGED <<versions, tag, drift, drifted, step, chainVars>>
           /\ ProbeBreaks(c) =>
                 /\ submission'[c].at = "breaks"
                 /\ submission'[c].clear <=> ~ hasUnackBreakingSchemaChange(c)
                 /\ submission'[c].seen = versions
                 /\ submission'[c].off <=> c \in drifted
           /\ ProbeDrift(c) =>
                 /\ submission[c].at = "breaks" /\ submission'[c].at = "probed"
                 /\ submission'[c].clear <=> submission[c].clear /\ ~ driftPending(c)
                 /\ submission'[c].seen = submission[c].seen
                 /\ submission'[c].off <=> submission[c].off
           /\ Activate(c) =>
                 /\ submission[c].at = "probed"
                 /\ submission'[c].at \in {"active", "in_review"}
                 /\ submission'[c].at = "active" => submission[c].clear
                 /\ submission'[c].clear <=> submission[c].clear
                 /\ submission'[c].seen = submission[c].seen
                 /\ submission'[c].off <=> submission[c].off
  <1>1. /\ submission \in [Submitted -> Submission] /\ submission[c] \in Submission
        /\ versions \subseteq Version
    BY DEF CatalogType
  <1>2. UNCHANGED <<table, versions, tag, drift, drifted, step, alters, clock, steps, chainVars>>
    BY DEF ProbeBreaks, ProbeDrift, Activate
  <1>3. ASSUME NEW s \in Submission, submission' = [submission EXCEPT ![c] = s]
        PROVE  /\ CatalogType' /\ ClockBounds' /\ submission'[c] = s
               /\ \A d \in Submitted \ {c} : submission'[d] = submission[d]
    BY <1>1, <1>2, <1>3 DEF CatalogType, ClockBounds
  <1>4. CASE ProbeBreaks(c)
    <2>1. PICK s : s = [at |-> "breaks", clear |-> ~ hasUnackBreakingSchemaChange(c),
                        seen |-> versions, off |-> c \in drifted]
      OBVIOUS
    <2>2. /\ s.at = "breaks" /\ s.seen = versions
          /\ s.clear = ~ hasUnackBreakingSchemaChange(c) /\ s.off = (c \in drifted)
      BY <2>1, Zenon
    <2>3. s \in Submission
      <3>1. s.clear \in BOOLEAN /\ s.off \in BOOLEAN
        <4>1. /\ (~ hasUnackBreakingSchemaChange(c)) \in BOOLEAN
              /\ (c \in drifted) \in BOOLEAN
          OBVIOUS
        <4> QED BY <2>2, <4>1, Zenon
      <3>2. PICK x \in BOOLEAN, y \in BOOLEAN : x = s.clear /\ y = s.off
        BY <3>1, Zenon
      <3>3. s = [at |-> "breaks", clear |-> x, seen |-> versions, off |-> y]
        BY <2>1, <2>2, <3>2, Zenon
      <3> QED BY <1>1, <3>3 DEF Submission
    <2>4. submission' = [submission EXCEPT ![c] = s] /\ submission[c].at = "none"
      BY <1>4, <2>1, Zenon DEF ProbeBreaks, Submit
    <2> QED BY <1>2, <1>3, <2>2, <2>3, <2>4 DEF ProbeDrift, Activate
  <1>5. CASE ProbeDrift(c)
    <2>1. PICK s : s = [submission[c] EXCEPT !.at = "probed",
                                             !.clear = @ /\ ~ driftPending(c)]
      OBVIOUS
    <2>2. /\ s.at = "probed" /\ s.seen = submission[c].seen
          /\ s.off = submission[c].off
      BY <1>1, <2>1 DEF Submission
    <2>3. s.clear = (submission[c].clear /\ ~ driftPending(c))
      BY <1>1, <2>1, Zenon DEF Submission
    <2>4. s \in Submission
      BY <1>1, <2>1 DEF Submission
    <2>5. submission' = [submission EXCEPT ![c] = s] /\ submission[c].at = "breaks"
      BY <1>5, <2>1 DEF ProbeDrift, Submit
    <2> QED BY <1>2, <1>3, <2>2, <2>3, <2>4, <2>5 DEF ProbeBreaks, Activate
  <1>6. CASE Activate(c)
    <2>1. PICK s : s = [submission[c] EXCEPT !.at = IF submission[c].clear THEN "active"
                                                    ELSE "in_review"]
      OBVIOUS
    <2>2. /\ s.seen = submission[c].seen /\ s.off = submission[c].off
          /\ s.clear = submission[c].clear /\ s \in Submission
          /\ s.at = IF submission[c].clear THEN "active" ELSE "in_review"
      BY <1>1, <2>1 DEF Submission
    <2>3. submission' = [submission EXCEPT ![c] = s] /\ submission[c].at = "probed"
      BY <1>6, <2>1 DEF Activate, Submit
    <2> QED BY <1>2, <1>3, <2>2, <2>3 DEF ProbeBreaks, ProbeDrift
  <1> QED BY <1>4, <1>5, <1>6

-----------------------------------------------------------------------------
(* The chain, and who may extend it.                                       *)

(* A request that has its entry holds the sentinel until it ends, and so   *)
(* does a step that overrides a tag; its entry is the next of the log.     *)
RoleLink == \A h \in Admins : job[h] \in RoleJob /\ job[h].at = "commit" =>
    /\ holder = h
    /\ draft[h].body = [event |-> job[h].op, role |-> job[h].role, user |-> job[h].user]
StepLink == \A w \in Workers : step[w] \in StepRec /\ step[w].entry # NoTag =>
    /\ holder = w /\ draft[w].body.event = "overridden"
    /\ step[w].entry = Len(log) + 1

IInv == /\ RolesType /\ CatalogType /\ ClockBounds
        /\ ChainInv(Bodies) /\ RoleLink /\ StepLink

LEMMA TxsApart ==
    ASSUME NEW h \in Admins, NEW w \in Workers
    PROVE  h \in Txs /\ w \in Txs /\ NoTx \notin Txs /\ h # w
  BY RolesAssumption, CatalogAssumption, ServicesAssumption

(* A step that leaves the chain alone and brings no request to its commit. *)
LEMMA QuietKeepsLinks ==
    ASSUME IInv, UNCHANGED chainVars,
           RolesType', CatalogType', ClockBounds',
           \A h \in Admins : \/ job'[h] = job[h]
                             \/ ~ (job'[h] \in RoleJob /\ job'[h].at = "commit"),
           \A w \in Workers : \/ step'[w] = step[w]
                              \/ step'[w] = NoStep
                              \/ step'[w].entry = NoTag
                              \/ step[w] \in StepRec /\ step'[w].entry = step[w].entry
    PROVE  IInv'
  <1>1. ChainInv(Bodies)' /\ UNCHANGED <<log, sentinel, holder, draft>>
    BY QuietKeepsChain DEF IInv
  <1>2. RoleLink'
    BY <1>1 DEF IInv, RoleLink
  <1>3. NoStep \notin StepRec
    BY DEF NoStep, StepRec
  <1>4. ASSUME NEW w \in Workers, step'[w] \in StepRec, step'[w].entry # NoTag
        PROVE  /\ holder' = w /\ draft'[w].body.event = "overridden"
               /\ step'[w].entry = Len(log') + 1
    <2>1. step[w] \in StepRec /\ step'[w].entry = step[w].entry
      BY <1>3, <1>4
    <2> QED BY <1>1, <1>4, <2>1 DEF IInv, StepLink
  <1>5. StepLink'
    BY <1>4 DEF StepLink
  <1> QED BY <1>1, <1>2, <1>5 DEF IInv

LEMMA SealRoleLinks ==
    ASSUME IInv, NEW h \in Admins, SealRole(h), UNCHANGED catalogVars
    PROVE  IInv'
  <1>1. /\ RolesType' /\ Alone(h) /\ job[h] \in RoleJob
        /\ SameRequest(job[h], job'[h])
        /\ WriteEntry(h, [event |-> job[h].op, role |-> job[h].role, user |-> job[h].user])
    BY SealRoleFacts DEF IInv
  <1>2. [event |-> job[h].op, role |-> job[h].role, user |-> job[h].user] \in Bodies
    BY <1>1, RoleJobShape
  <1>3. h \in Txs /\ NoTx \notin Txs
    BY RolesAssumption
  <1>4. /\ ChainInv(Bodies)' /\ holder = NoTx /\ holder' = h /\ UNCHANGED <<log, sentinel>>
        /\ draft'[h].body = [event |-> job[h].op, role |-> job[h].role, user |-> job[h].user]
    BY <1>1, <1>2, <1>3, WriteKeepsChain DEF IInv
  <1>5. RoleLink'
    <2> SUFFICES ASSUME NEW g \in Admins, job'[g] \in RoleJob, job'[g].at = "commit"
                 PROVE  /\ holder' = g
                        /\ draft'[g].body = [event |-> job'[g].op, role |-> job'[g].role,
                                             user |-> job'[g].user]
      BY DEF RoleLink
    <2>1. g = h
      BY <1>1, <1>3, <1>4, RolesAssumption DEF IInv, RoleLink, Alone
    <2> QED BY <2>1, <1>1, <1>4 DEF SameRequest
  <1>6. StepLink'
    BY <1>3, <1>4, CatalogAssumption DEF IInv, StepLink, catalogVars
  <1>7. CatalogType' /\ ClockBounds'
    BY DEF IInv, CatalogType, ClockBounds, catalogVars
  <1> QED BY <1>1, <1>4, <1>5, <1>6, <1>7 DEF IInv

LEMMA CommitRoleLinks ==
    ASSUME IInv, NEW h \in Admins, CommitRole(h), UNCHANGED catalogVars
    PROVE  /\ IInv'
           /\ holder = h
           /\ Len(log) \in Nat /\ Len(log') = Len(log) + 1
           /\ \A i \in 1 .. Len(log) : log'[i] = log[i]
           /\ log'[Len(log) + 1].body =
                [event |-> job[h].op, role |-> job[h].role, user |-> job[h].user]
  <1>1. /\ RolesType' /\ Alone(h) /\ job[h] \in RoleJob /\ job[h].at = "commit"
        /\ job'[h] = NoJob /\ PublishEntry(h)
    BY CommitRoleFacts DEF IInv
  <1>2. h \in Txs /\ NoTx \notin Txs
    BY RolesAssumption
  <1>3. /\ holder = h
        /\ draft[h].body = [event |-> job[h].op, role |-> job[h].role, user |-> job[h].user]
    BY <1>1 DEF IInv, RoleLink
  <1>4. /\ ChainInv(Bodies)'
        /\ Len(log) \in Nat /\ Len(log') = Len(log) + 1
        /\ \A i \in 1 .. Len(log) : log'[i] = log[i]
        /\ log'[Len(log) + 1].body = draft[h].body
    BY <1>1, <1>2, <1>3, PublishKeepsChain DEF IInv
  <1>5. RoleLink'
    <2>1. NoJob \notin RoleJob
      BY RoleJobShape
    <2> QED BY <1>1, <1>3, <2>1 DEF IInv, RoleLink, Alone
  <1>6. StepLink'
    BY <1>3, TxsApart DEF IInv, StepLink, catalogVars
  <1>7. CatalogType' /\ ClockBounds'
    BY DEF IInv, CatalogType, ClockBounds, catalogVars
  <1> QED BY <1>1, <1>3, <1>4, <1>5, <1>6, <1>7 DEF IInv

LEMMA FailRoleLinks ==
    ASSUME IInv, NEW h \in Admins, FailRole(h), UNCHANGED catalogVars
    PROVE  IInv' /\ UNCHANGED log
  <1>1. /\ RolesType' /\ Alone(h) /\ job'[h] = NoJob /\ DiscardEntry(h)
    BY FailRoleFacts DEF IInv
  <1>2. h \in Txs /\ NoTx \notin Txs
    BY RolesAssumption
  <1>3. /\ ChainInv(Bodies)' /\ UNCHANGED <<log, sentinel>>
        /\ holder' = IF holder = h THEN NoTx ELSE holder
        /\ \A x \in Txs \ {h} : draft'[x] = draft[x]
    BY <1>1, <1>2, DiscardKeepsChain DEF IInv
  <1>4. RoleLink'
    <2> SUFFICES ASSUME NEW g \in Admins, job'[g] \in RoleJob, job'[g].at = "commit"
                 PROVE  /\ holder' = g
                        /\ draft'[g].body = [event |-> job'[g].op, role |-> job'[g].role,
                                             user |-> job'[g].user]
      BY DEF RoleLink
    <2>1. g # h
      BY <1>1, RoleJobShape
    <2>2. job'[g] = job[g] /\ g \in Txs \ {h}
      BY <1>1, <2>1, RolesAssumption DEF Alone
    <2>3. /\ holder = g
          /\ draft[g].body = [event |-> job[g].op, role |-> job[g].role, user |-> job[g].user]
      BY <2>2 DEF IInv, RoleLink
    <2> QED BY <2>1, <2>2, <2>3, <1>3
  <1>5. StepLink'
    <2> SUFFICES ASSUME NEW w \in Workers, step'[w] \in StepRec, step'[w].entry # NoTag
                 PROVE  /\ holder' = w /\ draft'[w].body.event = "overridden"
                        /\ step'[w].entry = Len(log') + 1
      BY DEF StepLink
    <2>1. step' = step
      BY DEF catalogVars
    <2>2. /\ holder = w /\ draft[w].body.event = "overridden"
          /\ step[w].entry = Len(log) + 1
      BY <2>1 DEF IInv, StepLink
    <2>3. w # h /\ w \in Txs \ {h}
      BY TxsApart
    <2> QED BY <2>1, <2>2, <2>3, <1>3
  <1>6. CatalogType' /\ ClockBounds'
    BY DEF IInv, CatalogType, ClockBounds, catalogVars
  <1> QED BY <1>1, <1>3, <1>4, <1>5, <1>6 DEF IInv

LEMMA SealOverrideLinks ==
    ASSUME IInv, NEW w \in Workers, SealOverride(w), UNCHANGED rolesVars
    PROVE  IInv' /\ UNCHANGED log
  <1>1. Len(log) \in Nat /\ sentinel.seq = Len(log)
    BY HeadCounts DEF IInv
  <1>2. /\ CatalogType' /\ ClockBounds' /\ Only(w)
        /\ step'[w].entry = sentinel.seq + 1
        /\ WriteEntry(w, [event |-> "overridden", user |-> NoTag, role |-> NoTag])
    BY <1>1, SealOverrideFacts DEF IInv
  <1>3. [event |-> "overridden", user |-> NoTag, role |-> NoTag] \in Bodies
    BY DEF Bodies
  <1>4. w \in Txs /\ NoTx \notin Txs
    BY CatalogAssumption
  <1>5. /\ ChainInv(Bodies)' /\ holder = NoTx /\ holder' = w /\ UNCHANGED <<log, sentinel>>
        /\ draft'[w].body = [event |-> "overridden", user |-> NoTag, role |-> NoTag]
    BY <1>2, <1>3, <1>4, WriteKeepsChain DEF IInv
  <1>6. StepLink'
    BY <1>1, <1>2, <1>4, <1>5, CatalogAssumption DEF IInv, StepLink, Only
  <1>7. RoleLink'
    BY <1>4, <1>5, RolesAssumption DEF IInv, RoleLink, rolesVars
  <1>8. RolesType'
    BY DEF IInv, RolesType, rolesVars
  <1> QED BY <1>2, <1>5, <1>6, <1>7, <1>8 DEF IInv

LEMMA FailStepLinks ==
    ASSUME IInv, NEW w \in Workers, FailStep(w), UNCHANGED rolesVars
    PROVE  IInv' /\ UNCHANGED log
  <1>1. CatalogType' /\ ClockBounds' /\ Only(w) /\ step'[w] = NoStep /\ DiscardEntry(w)
    BY FailStepFacts DEF IInv
  <1>2. w \in Txs /\ NoTx \notin Txs
    BY CatalogAssumption
  <1>3. /\ ChainInv(Bodies)' /\ UNCHANGED <<log, sentinel>>
        /\ holder' = IF holder = w THEN NoTx ELSE holder
        /\ \A x \in Txs \ {w} : draft'[x] = draft[x]
    BY <1>1, <1>2, DiscardKeepsChain DEF IInv
  <1>4. StepLink'
    <2> SUFFICES ASSUME NEW x \in Workers, step'[x] \in StepRec, step'[x].entry # NoTag
                 PROVE  /\ holder' = x /\ draft'[x].body.event = "overridden"
                        /\ step'[x].entry = Len(log') + 1
      BY DEF StepLink
    <2>1. x # w
      BY <1>1 DEF NoStep, StepRec
    <2>2. step'[x] = step[x] /\ x \in Txs \ {w}
      BY <1>1, <2>1, CatalogAssumption DEF Only
    <2>3. /\ holder = x /\ draft[x].body.event = "overridden"
          /\ step[x].entry = Len(log) + 1
      BY <2>2 DEF IInv, StepLink
    <2> QED BY <2>1, <2>2, <2>3, <1>3
  <1>5. RoleLink'
    <2> SUFFICES ASSUME NEW g \in Admins, job'[g] \in RoleJob, job'[g].at = "commit"
                 PROVE  /\ holder' = g
                        /\ draft'[g].body = [event |-> job'[g].op, role |-> job'[g].role,
                                             user |-> job'[g].user]
      BY DEF RoleLink
    <2>1. job' = job
      BY DEF rolesVars
    <2>2. /\ holder = g
          /\ draft[g].body = [event |-> job[g].op, role |-> job[g].role, user |-> job[g].user]
      BY <2>1 DEF IInv, RoleLink
    <2>3. g # w /\ g \in Txs \ {w}
      BY TxsApart
    <2> QED BY <2>1, <2>2, <2>3, <1>3
  <1>6. RolesType'
    BY DEF IInv, RolesType, rolesVars
  <1> QED BY <1>1, <1>3, <1>4, <1>5, <1>6 DEF IInv

(* CommitStep, with an entry and without one.                              *)
LEMMA CommitStepLinks ==
    ASSUME IInv, NEW w \in Workers, CommitStep(w), UNCHANGED rolesVars
    PROVE  /\ IInv'
           /\ step[w] \in StepRec /\ Len(log) \in Nat
           /\ \/ step[w].entry = NoTag /\ UNCHANGED <<tag, log>>
              \/ /\ step[w].entry # NoTag /\ tag' = step[w].entry
                 /\ step[w].entry = Len(log) + 1
                 /\ holder = w
                 /\ Len(log') = Len(log) + 1
                 /\ \A i \in 1 .. Len(log) : log'[i] = log[i]
                 /\ log'[Len(log) + 1].body.event = "overridden"
                 /\ log'[Len(log) + 1].num = step[w].entry
  <1>1. step[w] \in StepRec
    BY StepShape DEF IInv, CommitStep, CatalogType
  <1>2. step[w].entry # NoTag => step[w].entry \in Nat
    BY <1>1 DEF StepRec
  <1>3. /\ CatalogType' /\ ClockBounds' /\ Only(w) /\ step'[w] = NoStep
        /\ IF step[w].entry = NoTag THEN UNCHANGED <<tag, chainVars>>
           ELSE tag' = step[w].entry /\ PublishEntry(w)
    BY <1>1, <1>2, CommitStepFacts DEF IInv
  <1>4. Len(log) \in Nat /\ w \in Txs /\ NoTx \notin Txs
    BY HeadCounts, CatalogAssumption DEF IInv
  <1>5. RolesType' /\ job' = job
    BY DEF IInv, RolesType, rolesVars
  <1>6. CASE step[w].entry = NoTag
    <2>1. UNCHANGED chainVars /\ UNCHANGED <<tag, log>>
      BY <1>3, <1>6 DEF chainVars
    <2>2. IInv'
      BY <1>3, <1>5, <2>1, QuietKeepsLinks DEF Only
    <2> QED BY <1>1, <1>4, <1>6, <2>1, <2>2
  <1>7. CASE step[w].entry # NoTag
    <2>1. /\ holder = w /\ draft[w].body.event = "overridden"
          /\ step[w].entry = Len(log) + 1
      BY <1>1, <1>7 DEF IInv, StepLink
    <2>2. /\ ChainInv(Bodies)'
          /\ Len(log') = Len(log) + 1
          /\ \A i \in 1 .. Len(log) : log'[i] = log[i]
          /\ log'[Len(log) + 1].body = draft[w].body
          /\ log'[Len(log) + 1].num = step[w].entry
      BY <1>3, <1>4, <1>7, <2>1, PublishKeepsChain DEF IInv
    <2>3. StepLink'
      <3>1. \A x \in Workers : step'[x] \in StepRec => x # w /\ step'[x] = step[x]
        BY <1>3 DEF NoStep, StepRec, Only
      <3> QED BY <2>1, <3>1 DEF IInv, StepLink
    <2>4. RoleLink'
      BY <1>5, <2>1, TxsApart DEF IInv, RoleLink
    <2>5. IInv'
      BY <1>3, <1>5, <2>2, <2>3, <2>4 DEF IInv
    <2> QED BY <1>1, <1>3, <1>4, <1>7, <2>1, <2>2, <2>5
  <1> QED BY <1>6, <1>7

(* The other steps of a request do not touch the chain.                    *)
QuietStep(h) ==
    \/ \E e \in Emails : Register(h, e)
    \/ \E i \in Invites : AcceptInvite(h, i)
    \/ \E r \in RoleNames : CreateRole(h, r) \/ DeleteRole(h, r)
    \/ \E u \in Users, r \in RoleNames : AssignRole(h, u, r) \/ RevokeRole(h, u, r)
    \/ InsertAccount(h) \/ CommitAccount(h) \/ DropRole(h)

LEMMA QuietStepFacts ==
    ASSUME RolesType, NEW h \in Admins, QuietStep(h)
    PROVE  /\ RolesType' /\ Alone(h)
           /\ ~ (job'[h] \in RoleJob /\ job'[h].at = "commit")
           /\ UNCHANGED <<roles, grants, chainVars>>
  <1>1. NoJob \notin RoleJob /\ \A j \in AccountJob : j \notin RoleJob
    BY RoleJobShape
  <1>2. ASSUME NEW e \in Emails, Register(h, e)
        PROVE  /\ RolesType' /\ Alone(h) /\ job'[h] \notin RoleJob
               /\ UNCHANGED <<roles, grants, chainVars>>
    BY <1>1, <1>2, RegisterFacts
  <1>3. ASSUME NEW i \in Invites, AcceptInvite(h, i)
        PROVE  /\ RolesType' /\ Alone(h) /\ job'[h] \notin RoleJob
               /\ UNCHANGED <<roles, grants, chainVars>>
    BY <1>1, <1>3, AcceptInviteFacts
  <1>4. ASSUME NEW r \in RoleNames, CreateRole(h, r)
        PROVE  /\ RolesType' /\ Alone(h) /\ job'[h].at = "seal"
               /\ UNCHANGED <<roles, grants, chainVars>>
    BY <1>4, CreateRoleFacts
  <1>5. ASSUME NEW r \in RoleNames, DeleteRole(h, r)
        PROVE  /\ RolesType' /\ Alone(h) /\ job'[h].at = "drop"
               /\ UNCHANGED <<roles, grants, chainVars>>
    BY <1>5, DeleteRoleFacts
  <1>6. ASSUME NEW u \in Users, NEW r \in RoleNames, AssignRole(h, u, r)
        PROVE  /\ RolesType' /\ Alone(h) /\ job'[h].at = "seal"
               /\ UNCHANGED <<roles, grants, chainVars>>
    BY <1>6, AssignRoleFacts
  <1>7. ASSUME NEW u \in Users, NEW r \in RoleNames, RevokeRole(h, u, r)
        PROVE  /\ RolesType' /\ Alone(h) /\ job'[h].at = "seal"
               /\ UNCHANGED <<roles, grants, chainVars>>
    BY <1>7, RevokeRoleFacts
  <1>8. ASSUME InsertAccount(h)
        PROVE  /\ RolesType' /\ Alone(h) /\ job'[h] \notin RoleJob
               /\ UNCHANGED <<roles, grants, chainVars>>
    BY <1>1, <1>8, InsertAccountFacts
  <1>9. ASSUME CommitAccount(h)
        PROVE  /\ RolesType' /\ Alone(h) /\ job'[h] \notin RoleJob
               /\ UNCHANGED <<roles, grants, chainVars>>
    BY <1>1, <1>9, CommitAccountFacts
  <1>10. ASSUME DropRole(h)
         PROVE  /\ RolesType' /\ Alone(h) /\ (job'[h] = NoJob \/ job'[h].at = "seal")
                /\ UNCHANGED <<roles, grants, chainVars>>
    BY <1>10, DropRoleFacts
  <1> QED BY <1>1, <1>2, <1>3, <1>4, <1>5, <1>6, <1>7, <1>8, <1>9, <1>10 DEF QuietStep

LEMMA QuietStepLinks ==
    ASSUME IInv, NEW h \in Admins, QuietStep(h), UNCHANGED catalogVars
    PROVE  IInv' /\ UNCHANGED <<log, roles, grants>>
  <1>1. CatalogType' /\ ClockBounds' /\ step' = step
    BY DEF IInv, CatalogType, ClockBounds, catalogVars
  <1>2. /\ RolesType' /\ Alone(h)
        /\ ~ (job'[h] \in RoleJob /\ job'[h].at = "commit")
        /\ UNCHANGED <<roles, grants, chainVars>>
    BY QuietStepFacts DEF IInv
  <1>3. \A g \in Admins : \/ job'[g] = job[g]
                          \/ ~ (job'[g] \in RoleJob /\ job'[g].at = "commit")
    BY <1>2 DEF Alone
  <1>4. IInv'
    BY <1>1, <1>2, <1>3, QuietKeepsLinks
  <1> QED BY <1>2, <1>4 DEF chainVars

LEMMA InviteLinks ==
    ASSUME IInv, NEW i \in Invites, Invite(i), UNCHANGED catalogVars
    PROVE  IInv' /\ UNCHANGED <<log, roles, grants, job>>
  <1>1. CatalogType' /\ ClockBounds' /\ step' = step
    BY DEF IInv, CatalogType, ClockBounds, catalogVars
  <1>2. RolesType' /\ UNCHANGED <<roles, grants, job, chainVars>>
    BY InviteFacts DEF IInv
  <1>3. IInv'
    BY <1>1, <1>2, QuietKeepsLinks
  <1> QED BY <1>2, <1>3 DEF chainVars

(* The steps of a worker that do not touch the chain.                      *)
QuietWork(w) ==
    \/ \E c \in Codes, off \in BOOLEAN : BeginStep(w, c, off)
    \/ WriteTag(w) \/ CaptureRun(w) \/ Describe(w) \/ DescribeFails(w) \/ Compare(w)

LEMMA QuietWorkFacts ==
    ASSUME CatalogType, ClockBounds, NEW w \in Workers, QuietWork(w)
    PROVE  /\ CatalogType' /\ ClockBounds' /\ Only(w)
           /\ \/ step'[w] = NoStep
              \/ step'[w].entry = NoTag
              \/ step[w] \in StepRec /\ step'[w].entry = step[w].entry
           /\ UNCHANGED <<versions, tag, drift, drifted, submission, chainVars>>
  <1>1. ASSUME NEW c \in Codes, NEW off \in BOOLEAN, BeginStep(w, c, off)
        PROVE  /\ CatalogType' /\ ClockBounds' /\ Only(w) /\ step'[w].entry = NoTag
               /\ UNCHANGED <<versions, tag, drift, drifted, submission, chainVars>>
    BY <1>1, BeginStepFacts
  <1>2. CASE WriteTag(w)
    BY <1>2, WriteTagFacts
  <1>3. CASE CaptureRun(w)
    BY <1>3, PlaceMoves DEF CaptureRun, Committed
  <1>4. CASE Describe(w)
    BY <1>4, DescribeFacts
  <1>5. CASE DescribeFails(w)
    BY <1>5, PlaceMoves DEF DescribeFails, Committed
  <1>6. CASE Compare(w)
    BY <1>6, CompareFacts
  <1> QED BY <1>1, <1>2, <1>3, <1>4, <1>5, <1>6 DEF QuietWork

LEMMA QuietWorkLinks ==
    ASSUME IInv, NEW w \in Workers, QuietWork(w), UNCHANGED rolesVars
    PROVE  IInv' /\ UNCHANGED log
  <1>1. RolesType' /\ job' = job
    BY DEF IInv, RolesType, rolesVars
  <1>2. /\ CatalogType' /\ ClockBounds' /\ Only(w) /\ UNCHANGED chainVars
        /\ \/ step'[w] = NoStep
           \/ step'[w].entry = NoTag
           \/ step[w] \in StepRec /\ step'[w].entry = step[w].entry
    BY QuietWorkFacts DEF IInv
  <1>3. IInv'
    BY <1>1, <1>2, QuietKeepsLinks DEF Only
  <1> QED BY <1>2, <1>3 DEF chainVars

(* The owner of the table, the engineers, the submissions.                 *)
Around == \/ \E s \in Schemas : AlterTable(s)
          \/ \E v \in versions : Acknowledge(v)
          \/ \E c \in Submitted : ProbeBreaks(c) \/ ProbeDrift(c) \/ Activate(c)

LEMMA AroundLinks ==
    ASSUME IInv, Around, UNCHANGED rolesVars
    PROVE  IInv' /\ UNCHANGED <<log, tag, drift, drifted, step>>
  <1>1. RolesType' /\ job' = job
    BY DEF IInv, RolesType, rolesVars
  <1>2. /\ CatalogType' /\ ClockBounds'
        /\ UNCHANGED <<tag, drift, drifted, step, chainVars>>
    BY AlterTableFacts, AcknowledgeFacts, SubmitFacts DEF IInv, Around
  <1>3. IInv'
    BY <1>1, <1>2, QuietKeepsLinks
  <1> QED BY <1>2, <1>3 DEF chainVars

-----------------------------------------------------------------------------

(* The steps, as the proofs divide them.                                   *)
RolesStep ==
    \/ \E i \in Invites : Invite(i)
    \/ \E h \in Admins : QuietStep(h) \/ SealRole(h) \/ CommitRole(h) \/ FailRole(h)
CatalogStep ==
    \/ \E w \in Workers : QuietWork(w) \/ SealOverride(w) \/ CommitStep(w) \/ FailStep(w)
    \/ Around

LEMMA NextDivides ==
    ASSUME Next
    PROVE  \/ RolesStep /\ UNCHANGED catalogVars
           \/ CatalogStep /\ UNCHANGED rolesVars
  <1>1. RolesNext => RolesStep
    BY DEF RolesNext, RolesStep, QuietStep, RolesProceed
  <1>2. CatalogNext => CatalogStep
    BY DEF CatalogNext, CatalogStep, QuietWork, StepProceed, Around
  <1> QED BY <1>1, <1>2 DEF Next

LEMMA InitIInv == Init => IInv
  <1> SUFFICES ASSUME Init PROVE IInv
    OBVIOUS
  <1>1. RolesType /\ \A h \in Admins : job[h] = NoJob
    BY RolesAssumption DEF Init, RolesInit, RolesType, Jobs
  <1>2. NotSubmitted \in Submission
    BY DEF NotSubmitted, Submission
  <1>3. PICK v : /\ v = [schema |-> FirstSchema, at |-> 0, code |-> FirstCode,
                         breaks |-> FALSE, acked |-> FALSE]
                 /\ versions = {v}
    BY DEF Init, CatalogInit
  <1>4. v \in Version /\ v.at = 0
    BY <1>3, CatalogAssumption DEF Version
  <1>5. CatalogType /\ ClockBounds /\ \A w \in Workers : step[w] = NoStep
    <2>1. /\ table = FirstSchema /\ tag = NoTag /\ drifted = {}
          /\ drift = [d \in Codes |-> "none"] /\ step = [w \in Workers |-> NoStep]
          /\ submission = [d \in Submitted |-> NotSubmitted]
          /\ clock = 0 /\ steps = 0 /\ alters = 0
      BY DEF Init, CatalogInit
    <2>2. drift \in [Codes -> {"none", "clean", "pending"}]
      BY <2>1
    <2>3. submission \in [Submitted -> Submission]
      BY <1>2, <2>1
    <2>4. step \in [Workers -> {NoStep} \cup StepRec] /\ \A w \in Workers : step[w] = NoStep
      BY <2>1
    <2>5. CatalogType
      BY <1>3, <1>4, <2>1, <2>2, <2>3, <2>4, CatalogAssumption DEF CatalogType
    <2>6. ClockBounds
      BY <1>3, <1>4, <2>1, <2>4 DEF ClockBounds
    <2> QED BY <2>4, <2>5, <2>6
  <1>6. PICK r \in Created : ChainBegun([event |-> "create", role |-> r, user |-> Nobody])
    BY DEF Init
  <1>7. [event |-> "create", role |-> r, user |-> Nobody] \in Bodies
    BY RolesAssumption DEF Bodies, RoleOps
  <1>8. ChainInv(Bodies)
    BY <1>6, <1>7, RolesAssumption, BegunKeepsChain
  <1>9. RoleLink /\ StepLink
    <2>1. NoJob \notin RoleJob /\ NoStep \notin StepRec
      BY RoleJobShape DEF NoStep, StepRec
    <2> QED BY <1>1, <1>5, <2>1 DEF RoleLink, StepLink
  <1> QED BY <1>1, <1>5, <1>8, <1>9 DEF IInv

LEMMA NextKeeps == IInv /\ [Next]_vars => IInv'
  <1> SUFFICES ASSUME IInv, [Next]_vars PROVE IInv'
    OBVIOUS
  <1>1. CASE RolesStep /\ UNCHANGED catalogVars
    BY <1>1, InviteLinks, QuietStepLinks, SealRoleLinks, CommitRoleLinks, FailRoleLinks
    DEF RolesStep
  <1>2. CASE CatalogStep /\ UNCHANGED rolesVars
    BY <1>2, QuietWorkLinks, SealOverrideLinks, CommitStepLinks, FailStepLinks, AroundLinks
    DEF CatalogStep
  <1>3. CASE UNCHANGED vars
    <2>1. RolesType' /\ CatalogType' /\ ClockBounds' /\ UNCHANGED <<chainVars, job, step>>
      BY <1>3 DEF vars, IInv, RolesType, CatalogType, ClockBounds, rolesVars, catalogVars
    <2> QED BY <2>1, QuietKeepsLinks
  <1> QED BY <1>1, <1>2, <1>3, NextDivides

(* Every state has the types above, one unbroken chain, and a sentinel     *)
(* that is held by whoever has an entry under way.                         *)
THEOREM ServicesInvariant == Spec => []IInv
  BY InitIInv, NextKeeps, PTL DEF Spec

(* Role changes and overrides of tags share one hash chain, and it is      *)
(* never broken, whatever fails.                                           *)
THEOREM SharedChainStaysLinked == Spec => []ChainUnbroken
  <1>1. IInv => ChainUnbroken
    BY DEF IInv, ChainInv
  <1> QED BY <1>1, ServicesInvariant, PTL

-----------------------------------------------------------------------------
(* InviteSpentOnce. No lock is taken on the row of a token; what makes it  *)
(* single-use is the unique email: a transaction that reached its commit   *)
(* has the email for itself, and the email names the token's account.      *)
Reserves(h) == job[h] \in AccountJob /\ job[h].at = "commit"

AccountsInv ==
    /\ \A j, k \in DOMAIN accounts : accounts[j].email = accounts[k].email => j = k
    /\ \A k \in DOMAIN accounts : accounts[k].via \in Invites =>
          /\ accounts[k].email = Invitee[accounts[k].via]
          /\ invites[accounts[k].via] = "accepted"
    /\ \A i \in Invites : invites[i] = "accepted" =>
          \E k \in DOMAIN accounts : accounts[k].via = i
    /\ \A h \in Admins : job[h] \in AccountJob =>
          IF job[h].op = "accept"
          THEN job[h].via \in Invites /\ job[h].email = Invitee[job[h].via]
          ELSE job[h].via = NoInvite
    /\ \A h \in Admins : Reserves(h) =>
          /\ \A k \in DOMAIN accounts : accounts[k].email # job[h].email
          /\ \A g \in Admins \ {h} : Reserves(g) => job[g].email # job[h].email

LEMMA QuietAccounts ==
    ASSUME AccountsInv, NEW h \in Admins, Alone(h), UNCHANGED <<accounts, invites>>,
           ~ Reserves(h)',
           job'[h] \in AccountJob => IF job'[h].op = "accept"
                                     THEN /\ job'[h].via \in Invites
                                          /\ job'[h].email = Invitee[job'[h].via]
                                     ELSE job'[h].via = NoInvite
    PROVE  AccountsInv'
  <1>1. \A g \in Admins : job'[g] \in AccountJob =>
           IF job'[g].op = "accept"
           THEN job'[g].via \in Invites /\ job'[g].email = Invitee[job'[g].via]
           ELSE job'[g].via = NoInvite
    BY DEF AccountsInv, Alone
  <1>2. \A g \in Admins : Reserves(g)' => g # h /\ Reserves(g) /\ job'[g] = job[g]
    BY DEF Reserves, Alone
  <1>3. \A g \in Admins : Reserves(g)' =>
          /\ \A k \in DOMAIN accounts' : accounts'[k].email # job'[g].email
          /\ \A f \in Admins \ {g} : Reserves(f)' => job'[f].email # job'[g].email
    BY <1>2 DEF AccountsInv
  <1> QED BY <1>1, <1>3 DEF AccountsInv

LEMMA InviteAccounts ==
    ASSUME IInv, AccountsInv, NEW i \in Invites, Invite(i)
    PROVE  AccountsInv'
  <1>1. /\ invites[i] = "none" /\ invites' = [invites EXCEPT ![i] = "sent"]
        /\ UNCHANGED <<accounts, job>> /\ invites \in [Invites -> {"none", "sent", "accepted"}]
    BY InviteFacts DEF IInv, RolesType
  <1>2. \A n \in Invites : (invites'[n] = "accepted") <=> (invites[n] = "accepted")
    BY <1>1
  <1> QED BY <1>1, <1>2 DEF AccountsInv, Reserves

LEMMA InsertAccountAccounts ==
    ASSUME IInv, AccountsInv, NEW h \in Admins, InsertAccount(h)
    PROVE  AccountsInv'
  <1>1. /\ Alone(h) /\ job[h] \in AccountJob /\ EmailFree(job[h].email)
        /\ UNCHANGED <<accounts, invites>>
        /\ \/ job'[h] = NoJob
           \/ /\ job'[h] \in AccountJob /\ job'[h].at = "commit"
              /\ job'[h].op = job[h].op /\ job'[h].via = job[h].via
              /\ job'[h].email = job[h].email
              /\ \A k \in DOMAIN accounts : accounts[k].email # job[h].email
    BY InsertAccountFacts DEF IInv
  <1>2. CASE job'[h] = NoJob
    <2>1. job'[h] \notin AccountJob
      BY <1>2 DEF NoJob, AccountJob
    <2> QED BY <1>1, <2>1, QuietAccounts DEF Reserves
  <1>3. CASE /\ job'[h] \in AccountJob /\ job'[h].at = "commit"
             /\ job'[h].op = job[h].op /\ job'[h].via = job[h].via
             /\ job'[h].email = job[h].email
             /\ \A k \in DOMAIN accounts : accounts[k].email # job[h].email
    <2>1. \A g \in Admins : Reserves(g) => job[g].email # job[h].email
      <3> SUFFICES ASSUME NEW g \in Admins, Reserves(g) PROVE job[g].email # job[h].email
        OBVIOUS
      <3>1. Holds(g, "register") \/ Holds(g, "accept")
        BY DEF Reserves, Holds, AccountJob
      <3> QED BY <3>1, <1>1 DEF EmailFree
    <2>2. \A g \in Admins \ {h} : job'[g] = job[g] /\ (Reserves(g)' <=> Reserves(g))
      BY <1>1 DEF Alone, Reserves
    <2>3. \A g \in Admins : Reserves(g)' =>
            /\ \A k \in DOMAIN accounts' : accounts'[k].email # job'[g].email
            /\ \A f \in Admins \ {g} : Reserves(f)' => job'[f].email # job'[g].email
      <3> SUFFICES ASSUME NEW g \in Admins, Reserves(g)'
                   PROVE  /\ \A k \in DOMAIN accounts' : accounts'[k].email # job'[g].email
                          /\ \A f \in Admins \ {g} : Reserves(f)' => job'[f].email # job'[g].email
        OBVIOUS
      <3>1. CASE g = h
        BY <3>1, <1>1, <1>3, <2>1, <2>2
      <3>2. CASE g # h
        BY <3>2, <1>1, <1>3, <2>1, <2>2 DEF AccountsInv
      <3> QED BY <3>1, <3>2
    <2>4. \A g \in Admins : job'[g] \in AccountJob =>
            IF job'[g].op = "accept"
            THEN job'[g].via \in Invites /\ job'[g].email = Invitee[job'[g].via]
            ELSE job'[g].via = NoInvite
      <3> SUFFICES ASSUME NEW g \in Admins, job'[g] \in AccountJob
                   PROVE  IF job'[g].op = "accept"
                          THEN job'[g].via \in Invites /\ job'[g].email = Invitee[job'[g].via]
                          ELSE job'[g].via = NoInvite
        OBVIOUS
      <3>1. CASE g = h
        BY <3>1, <1>1, <1>3 DEF AccountsInv
      <3>2. CASE g # h
        BY <3>2, <2>2 DEF AccountsInv
      <3> QED BY <3>1, <3>2
    <2> QED BY <1>1, <2>3, <2>4 DEF AccountsInv
  <1> QED BY <1>1, <1>2, <1>3

LEMMA CommitAccountAccounts ==
    ASSUME IInv, AccountsInv, NEW h \in Admins, CommitAccount(h)
    PROVE  AccountsInv'
  <1>1. /\ Alone(h) /\ job[h] \in AccountJob /\ job[h].at = "commit" /\ job'[h] = NoJob
        /\ \E a \in Account : /\ a.email = job[h].email /\ a.via = job[h].via
                              /\ accounts' = Append(accounts, a)
        /\ invites' = IF job[h].op = "accept"
                      THEN [invites EXCEPT ![job[h].via] = "accepted"] ELSE invites
    BY CommitAccountFacts DEF IInv
  <1>2. PICK a \in Account : /\ a.email = job[h].email /\ a.via = job[h].via
                             /\ accounts' = Append(accounts, a)
    BY <1>1
  <1>3. /\ accounts \in Seq(Account) /\ Len(accounts) \in Nat
        /\ DOMAIN accounts = 1 .. Len(accounts)
        /\ invites \in [Invites -> {"none", "sent", "accepted"}]
    BY DEF IInv, RolesType
  <1>4. PICK n : n = Len(accounts) + 1
    OBVIOUS
  <1>5. /\ DOMAIN accounts' = DOMAIN accounts \cup {n} /\ n \notin DOMAIN accounts
        /\ accounts'[n] = a /\ \A k \in DOMAIN accounts : accounts'[k] = accounts[k]
    BY <1>2, <1>3, <1>4, AppendProperties
  <1>6. /\ \A k \in DOMAIN accounts : accounts[k].email # job[h].email
        /\ \A g \in Admins \ {h} : Reserves(g) => job[g].email # job[h].email
    BY <1>1 DEF AccountsInv, Reserves
  <1>7. /\ job[h].op \in {"register", "accept"}
        /\ job[h].op = "accept" => job[h].via \in Invites /\ job[h].email = Invitee[job[h].via]
        /\ job[h].op = "register" => job[h].via = NoInvite
    BY <1>1 DEF AccountsInv, AccountJob
  <1>8. \A j, k \in DOMAIN accounts' : accounts'[j].email = accounts'[k].email => j = k
    BY <1>2, <1>5, <1>6 DEF AccountsInv
  <1>9. \A i \in Invites : /\ invites[i] = "accepted" => invites'[i] = "accepted"
                           /\ invites'[i] = "accepted" => \/ invites[i] = "accepted"
                                                          \/ i = job[h].via
                           /\ i = job[h].via => invites'[i] = "accepted"
    BY <1>1, <1>3, <1>7, RolesAssumption
  <1>10. \A k \in DOMAIN accounts' : accounts'[k].via \in Invites =>
            /\ accounts'[k].email = Invitee[accounts'[k].via]
            /\ invites'[accounts'[k].via] = "accepted"
    <2> SUFFICES ASSUME NEW k \in DOMAIN accounts', accounts'[k].via \in Invites
                 PROVE  /\ accounts'[k].email = Invitee[accounts'[k].via]
                        /\ invites'[accounts'[k].via] = "accepted"
      OBVIOUS
    <2>1. CASE k = n
      BY <2>1, <1>2, <1>5, <1>7, <1>9, RolesAssumption
    <2>2. CASE k # n
      BY <2>2, <1>5, <1>9 DEF AccountsInv
    <2> QED BY <2>1, <2>2
  <1>11. \A i \in Invites : invites'[i] = "accepted" =>
            \E k \in DOMAIN accounts' : accounts'[k].via = i
    <2> SUFFICES ASSUME NEW i \in Invites, invites'[i] = "accepted"
                 PROVE  \E k \in DOMAIN accounts' : accounts'[k].via = i
      OBVIOUS
    <2>1. CASE i = job[h].via
      BY <2>1, <1>2, <1>5
    <2>2. CASE invites[i] = "accepted"
      BY <2>2, <1>5 DEF AccountsInv
    <2> QED BY <2>1, <2>2, <1>9
  <1>12. \A g \in Admins : job'[g] \in AccountJob \/ Reserves(g)' =>
            g # h /\ job'[g] = job[g] /\ (Reserves(g)' => Reserves(g))
    BY <1>1 DEF Alone, Reserves, NoJob, AccountJob
  <1>13. \A g \in Admins : job'[g] \in AccountJob =>
            IF job'[g].op = "accept"
            THEN job'[g].via \in Invites /\ job'[g].email = Invitee[job'[g].via]
            ELSE job'[g].via = NoInvite
    BY <1>12 DEF AccountsInv
  <1>14. \A g \in Admins : Reserves(g)' =>
            /\ \A k \in DOMAIN accounts' : accounts'[k].email # job'[g].email
            /\ \A f \in Admins \ {g} : Reserves(f)' => job'[f].email # job'[g].email
    <2> SUFFICES ASSUME NEW g \in Admins, Reserves(g)'
                 PROVE  /\ \A k \in DOMAIN accounts' : accounts'[k].email # job'[g].email
                        /\ \A f \in Admins \ {g} : Reserves(f)' => job'[f].email # job'[g].email
      OBVIOUS
    <2>1. g # h /\ job'[g] = job[g] /\ Reserves(g)
      BY <1>12
    <2>2. \A k \in DOMAIN accounts' : accounts'[k].email # job'[g].email
      BY <2>1, <1>2, <1>5, <1>6 DEF AccountsInv
    <2>3. \A f \in Admins \ {g} : Reserves(f)' => job'[f].email # job'[g].email
      BY <2>1, <1>12 DEF AccountsInv
    <2> QED BY <2>2, <2>3
  <1> QED BY <1>8, <1>10, <1>11, <1>13, <1>14 DEF AccountsInv

LEMMA AccountsKeep ==
    ASSUME IInv, AccountsInv, [Next]_vars
    PROVE  AccountsInv'
  <1>1. RolesType /\ \A j \in RoleJob : j \notin AccountJob
    BY RoleJobShape DEF IInv
  <1>2. NoJob \notin AccountJob
    BY DEF NoJob, AccountJob
  <1>3. ASSUME NEW h \in Admins, Alone(h), job'[h] \notin AccountJob,
               UNCHANGED <<accounts, invites>>
        PROVE  AccountsInv'
    BY <1>3, QuietAccounts DEF Reserves
  <1>4. ASSUME NEW h \in Admins, QuietStep(h)
        PROVE  AccountsInv'
    <2>1. ASSUME NEW e \in Emails, Register(h, e)
          PROVE  AccountsInv'
      BY <2>1, <1>1, RegisterFacts, QuietAccounts DEF Reserves
    <2>2. ASSUME NEW i \in Invites, AcceptInvite(h, i)
          PROVE  AccountsInv'
      BY <2>2, <1>1, AcceptInviteFacts, QuietAccounts DEF Reserves
    <2>3. ASSUME NEW r \in RoleNames, CreateRole(h, r)
          PROVE  AccountsInv'
      BY <2>3, <1>1, <1>3, CreateRoleFacts DEF RoleJob
    <2>4. ASSUME NEW r \in RoleNames, DeleteRole(h, r)
          PROVE  AccountsInv'
      BY <2>4, <1>1, <1>3, DeleteRoleFacts DEF RoleJob
    <2>5. ASSUME NEW u \in Users, NEW r \in RoleNames, AssignRole(h, u, r)
          PROVE  AccountsInv'
      BY <2>5, <1>1, <1>3, AssignRoleFacts DEF RoleJob
    <2>6. ASSUME NEW u \in Users, NEW r \in RoleNames, RevokeRole(h, u, r)
          PROVE  AccountsInv'
      BY <2>6, <1>1, <1>3, RevokeRoleFacts DEF RoleJob
    <2>7. CASE DropRole(h)
      BY <2>7, <1>1, <1>2, <1>3, DropRoleFacts DEF RoleJob
    <2> QED BY <1>4, <2>1, <2>2, <2>3, <2>4, <2>5, <2>6, <2>7, InsertAccountAccounts,
               CommitAccountAccounts DEF QuietStep
  <1>5. ASSUME NEW h \in Admins, SealRole(h) \/ CommitRole(h) \/ FailRole(h)
        PROVE  AccountsInv'
    BY <1>1, <1>2, <1>3, <1>5, SealRoleFacts, CommitRoleFacts, FailRoleFacts
  <1>6. CASE RolesStep
    BY <1>4, <1>5, <1>6, InviteAccounts DEF RolesStep
  <1>7. CASE UNCHANGED rolesVars
    BY <1>7 DEF rolesVars, AccountsInv, Reserves
  <1> QED BY <1>6, <1>7, NextDivides DEF vars

(* "Single-use invite token": however many requests spend one token at the *)
(* same time, and although they only read it, one account is made with it. *)
THEOREM InvitesAreSpentOnce == Spec => []InviteSpentOnce
  <1>1. Init => AccountsInv
    BY DEF Init, RolesInit, AccountsInv, Reserves, NoJob, AccountJob
  <1>2. IInv /\ AccountsInv /\ [Next]_vars => AccountsInv'
    BY AccountsKeep
  <1>3. IInv /\ AccountsInv => InviteSpentOnce
    <2> SUFFICES ASSUME IInv, AccountsInv, NEW i \in Invites
                 PROVE  Cardinality({k \in DOMAIN accounts : accounts[k].via = i}) =
                          IF invites[i] = "accepted" THEN 1 ELSE 0
      BY DEF InviteSpentOnce
    <2>1. CASE invites[i] = "accepted"
      <3>1. PICK k \in DOMAIN accounts : accounts[k].via = i
        BY <2>1 DEF AccountsInv
      <3>2. \A j \in DOMAIN accounts : accounts[j].via = i => j = k
        BY <3>1 DEF AccountsInv
      <3>3. {j \in DOMAIN accounts : accounts[j].via = i} = {k}
        BY <3>1, <3>2
      <3> QED BY <2>1, <3>3, FS_Singleton
    <2>2. CASE invites[i] # "accepted"
      <3>1. {k \in DOMAIN accounts : accounts[k].via = i} = {}
        BY <2>2 DEF AccountsInv
      <3> QED BY <2>2, <3>1, FS_EmptySet
    <2> QED BY <2>1, <2>2
  <1> QED BY <1>1, <1>2, <1>3, ServicesInvariant, PTL DEF Spec

-----------------------------------------------------------------------------
(* OverrideAuditedOnce. Of the steps that override the tag one is past the *)
(* row at a time, and while it has an entry under way the row has none.    *)
Overrides(w) == InStep(w) /\ step[w].code \in Overriding

TagInv ==
    /\ OverrideAuditedOnce
    /\ \A w, x \in Workers : Overrides(w) /\ Overrides(x) => w = x
    /\ \A w \in Workers : step[w] \in StepRec =>
          /\ step[w].at \in {"tag", "seal"} => /\ step[w].code \in Overriding
                                               /\ step[w].entry = NoTag
          /\ step[w].at = "seal" => tag = NoTag
          /\ step[w].entry # NoTag => step[w].code \in Overriding /\ tag = NoTag

LEMMA QuietTag ==
    ASSUME IInv, TagInv, NEW w \in Workers, Only(w), UNCHANGED <<log, tag>>,
           \/ step'[w] = NoStep
           \/ /\ step'[w] \in StepRec /\ SameStep(step[w], step'[w])
              /\ step[w] \in StepRec /\ step'[w].entry = step[w].entry
              /\ InStep(w) /\ step'[w].at \in {"describe", "compare", "commit"}
    PROVE  TagInv'
  <1>1. \A x \in Workers : step'[x] \in StepRec =>
            /\ step[x] \in StepRec /\ step'[x].entry = step[x].entry
            /\ step'[x].code = step[x].code
            /\ step'[x].at = step[x].at \/ step'[x].at \in {"describe", "compare", "commit"}
    BY DEF Only, NoStep, StepRec, SameStep
  <1>2. \A x \in Workers : Overrides(x)' => Overrides(x)
    BY DEF Only, SameStep, Overrides, InStep, NoStep
  <1>3. OverrideAuditedOnce'
    BY DEF TagInv, OverrideAuditedOnce
  <1>4. \A x \in Workers : step'[x] \in StepRec =>
          /\ step'[x].at \in {"tag", "seal"} => /\ step'[x].code \in Overriding
                                                /\ step'[x].entry = NoTag
          /\ step'[x].at = "seal" => tag' = NoTag
          /\ step'[x].entry # NoTag => step'[x].code \in Overriding /\ tag' = NoTag
    BY <1>1 DEF TagInv
  <1> QED BY <1>2, <1>3, <1>4 DEF TagInv

LEMMA BeginTag ==
    ASSUME IInv, TagInv, NEW w \in Workers, NEW c \in Codes, NEW off \in BOOLEAN,
           BeginStep(w, c, off)
    PROVE  TagInv'
  <1>1. /\ Only(w) /\ step[w] = NoStep /\ step'[w] \in StepRec /\ step'[w].code = c
        /\ step'[w].at = IF c \in Overriding THEN "tag" ELSE "version"
        /\ step'[w].entry = NoTag /\ UNCHANGED <<tag, chainVars>>
    BY BeginStepFacts DEF IInv
  <1>2. OverrideAuditedOnce'
    BY <1>1 DEF TagInv, OverrideAuditedOnce, chainVars
  <1>3. \A x \in Workers : Overrides(x)' => Overrides(x)
    BY <1>1 DEF Only, Overrides, InStep
  <1>4. \A x \in Workers : step'[x] \in StepRec =>
          /\ step'[x].at \in {"tag", "seal"} => /\ step'[x].code \in Overriding
                                                /\ step'[x].entry = NoTag
          /\ step'[x].at = "seal" => tag' = NoTag
          /\ step'[x].entry # NoTag => step'[x].code \in Overriding /\ tag' = NoTag
    BY <1>1 DEF TagInv, Only
  <1> QED BY <1>2, <1>3, <1>4 DEF TagInv

LEMMA WriteTagTag ==
    ASSUME IInv, TagInv, NEW w \in Workers, WriteTag(w)
    PROVE  TagInv'
  <1>1. /\ Only(w) /\ step[w] \in StepRec /\ step[w].at = "tag" /\ ~ TagLocked(w)
        /\ UNCHANGED <<tag, log>>
        /\ \/ step'[w] = NoStep
           \/ /\ step'[w] \in StepRec /\ SameStep(step[w], step'[w])
              /\ step'[w].entry = step[w].entry
              /\ step'[w].at = IF step[w].prior = NoTag THEN "seal" ELSE "version"
              /\ step[w].prior = NoTag => tag = NoTag
    BY WriteTagFacts DEF IInv, chainVars
  <1>2. CASE step'[w] = NoStep
    BY <1>1, <1>2, QuietTag
  <1>3. CASE /\ step'[w] \in StepRec /\ SameStep(step[w], step'[w])
             /\ step'[w].entry = step[w].entry
             /\ step'[w].at = IF step[w].prior = NoTag THEN "seal" ELSE "version"
             /\ step[w].prior = NoTag => tag = NoTag
    <2>1. \A x \in Workers \ {w} : ~ Overrides(x) /\ ~ Overrides(x)'
      BY <1>1 DEF TagLocked, Overrides, InStep, Only
    <2>2. step[w].code \in Overriding /\ step[w].entry = NoTag
      BY <1>1 DEF TagInv
    <2>3. OverrideAuditedOnce'
      BY <1>1 DEF TagInv, OverrideAuditedOnce
    <2>4. step'[w].code \in Overriding /\ step'[w].entry = NoTag
          /\ (step'[w].at = "seal" => tag' = NoTag)
      BY <1>1, <1>3, <2>2 DEF SameStep
    <2>5. \A x \in Workers : step'[x] \in StepRec =>
            /\ step'[x].at \in {"tag", "seal"} => /\ step'[x].code \in Overriding
                                                  /\ step'[x].entry = NoTag
            /\ step'[x].at = "seal" => tag' = NoTag
            /\ step'[x].entry # NoTag => step'[x].code \in Overriding /\ tag' = NoTag
      BY <1>1, <2>4 DEF TagInv, Only
    <2> QED BY <2>1, <2>3, <2>5 DEF TagInv
  <1> QED BY <1>1, <1>2, <1>3

LEMMA SealOverrideTag ==
    ASSUME IInv, TagInv, NEW w \in Workers, SealOverride(w)
    PROVE  TagInv'
  <1>1. Len(log) \in Nat /\ sentinel.seq = Len(log)
    BY HeadCounts DEF IInv
  <1>2. /\ Only(w) /\ step[w] \in StepRec /\ step[w].at = "seal"
        /\ step'[w] \in StepRec /\ SameStep(step[w], step'[w])
        /\ step'[w].at = "version" /\ UNCHANGED tag
        /\ UNCHANGED log
    BY <1>1, SealOverrideFacts DEF IInv, WriteEntry
  <1>3. step[w].code \in Overriding /\ tag = NoTag /\ Overrides(w)
    BY <1>2 DEF TagInv, Overrides, InStep
  <1>4. OverrideAuditedOnce'
    BY <1>2 DEF TagInv, OverrideAuditedOnce
  <1>5. \A x \in Workers : Overrides(x)' => Overrides(x)
    BY <1>2, <1>3 DEF Only, Overrides, InStep
  <1>6. \A x \in Workers : step'[x] \in StepRec =>
          /\ step'[x].at \in {"tag", "seal"} => /\ step'[x].code \in Overriding
                                                /\ step'[x].entry = NoTag
          /\ step'[x].at = "seal" => tag' = NoTag
          /\ step'[x].entry # NoTag => step'[x].code \in Overriding /\ tag' = NoTag
    BY <1>2, <1>3 DEF TagInv, Only, SameStep
  <1> QED BY <1>4, <1>5, <1>6 DEF TagInv

(* Entries that say something else leave the count of overrides alone.     *)
LEMMA OtherEntry ==
    ASSUME OverrideAuditedOnce, Len(log) \in Nat, Len(log') = Len(log) + 1,
           DOMAIN log = 1 .. Len(log), DOMAIN log' = 1 .. Len(log'),
           \A i \in 1 .. Len(log) : log'[i] = log[i], UNCHANGED tag,
           log'[Len(log) + 1].body.event # "overridden"
    PROVE  OverrideAuditedOnce'
  <1>1. {k \in DOMAIN log' : log'[k].body.event = "overridden"} =
        {k \in DOMAIN log : log[k].body.event = "overridden"}
    OBVIOUS
  <1>2. \A k \in DOMAIN log : log'[k] = log[k]
    OBVIOUS
  <1> QED BY <1>1, <1>2 DEF OverrideAuditedOnce

LEMMA CommitStepTag ==
    ASSUME IInv, TagInv, NEW w \in Workers, CommitStep(w), UNCHANGED rolesVars
    PROVE  TagInv'
  <1>1. /\ IInv' /\ step[w] \in StepRec /\ Len(log) \in Nat
        /\ \/ step[w].entry = NoTag /\ UNCHANGED <<tag, log>>
           \/ /\ step[w].entry # NoTag /\ tag' = step[w].entry
              /\ step[w].entry = Len(log) + 1 /\ holder = w
              /\ Len(log') = Len(log) + 1
              /\ \A i \in 1 .. Len(log) : log'[i] = log[i]
              /\ log'[Len(log) + 1].body.event = "overridden"
              /\ log'[Len(log) + 1].num = step[w].entry
    BY CommitStepLinks
  <1>2. /\ Only(w) /\ step'[w] = NoStep /\ step[w].at = "commit"
    <2>1. step[w].entry # NoTag => step[w].entry \in Nat
      BY <1>1
    <2> QED BY <1>1, <2>1, CommitStepFacts DEF IInv
  <1>3. CASE step[w].entry = NoTag
    BY <1>1, <1>2, <1>3, QuietTag
  <1>4. CASE step[w].entry # NoTag
    <2>1. step[w].code \in Overriding /\ tag = NoTag /\ Overrides(w)
      BY <1>1, <1>2, <1>4 DEF TagInv, Overrides, InStep
    <2>2. DOMAIN log = 1 .. Len(log) /\ DOMAIN log' = 1 .. Len(log')
      BY <1>1 DEF IInv, ChainInv
    <2>3. {k \in DOMAIN log : log[k].body.event = "overridden"} = {}
      BY <2>1 DEF TagInv, OverrideAuditedOnce
    <2>4. {k \in DOMAIN log' : log'[k].body.event = "overridden"} = {Len(log) + 1}
      <3>1. \A k \in 1 .. Len(log) : log'[k].body.event # "overridden"
        BY <1>1, <1>4, <2>2, <2>3
      <3>2. /\ Len(log) \in Nat /\ Len(log') = Len(log) + 1
            /\ log'[Len(log) + 1].body.event = "overridden"
        BY <1>1, <1>4
      <3>3. 1 .. Len(log') = (1 .. Len(log)) \cup {Len(log) + 1}
        BY <3>2
      <3>4. DOMAIN log' = (1 .. Len(log)) \cup {Len(log) + 1}
        BY <2>2, <3>3
      <3> QED BY <3>1, <3>2, <3>4
    <2>5. tag' = log'[Len(log) + 1].num /\ tag' # NoTag
      BY <1>1, <1>4
    <2>6. OverrideAuditedOnce'
      BY <2>4, <2>5 DEF OverrideAuditedOnce
    <2>7. \A x \in Workers : Overrides(x)' => x # w /\ Overrides(x)
      BY <1>2 DEF Overrides, InStep, Only, NoStep
    <2>8. \A x \in Workers : step'[x] \in StepRec =>
            /\ x # w /\ step'[x] = step[x]
            /\ step[x].at = "seal" => FALSE
            /\ step[x].entry # NoTag => FALSE
      <3> SUFFICES ASSUME NEW x \in Workers, step'[x] \in StepRec
                   PROVE  /\ x # w /\ step'[x] = step[x]
                          /\ step[x].at = "seal" => FALSE
                          /\ step[x].entry # NoTag => FALSE
        OBVIOUS
      <3>1. x # w /\ step'[x] = step[x]
        BY <1>2 DEF Only, NoStep, StepRec
      <3>2. step[x].at = "seal" => Overrides(x)
        BY <3>1 DEF TagInv, Overrides, InStep
      <3>3. step[x].entry # NoTag => holder = x
        BY <3>1 DEF IInv, StepLink
      <3> QED BY <1>1, <1>4, <2>1, <3>1, <3>2, <3>3 DEF TagInv
    <2>9. \A x \in Workers : step'[x] \in StepRec =>
          /\ step'[x].at \in {"tag", "seal"} => /\ step'[x].code \in Overriding
                                                /\ step'[x].entry = NoTag
          /\ step'[x].at = "seal" => tag' = NoTag
          /\ step'[x].entry # NoTag => step'[x].code \in Overriding /\ tag' = NoTag
      BY <2>8 DEF TagInv
    <2> QED BY <2>6, <2>7, <2>9 DEF TagInv
  <1> QED BY <1>3, <1>4

LEMMA TagKeeps ==
    ASSUME IInv, TagInv, [Next]_vars
    PROVE  TagInv'
  <1>1. CASE RolesStep /\ UNCHANGED catalogVars
    <2>1. ASSUME UNCHANGED log
          PROVE  TagInv'
      BY <1>1, <2>1 DEF catalogVars, TagInv, OverrideAuditedOnce, Overrides, InStep
    <2>2. ASSUME NEW h \in Admins, CommitRole(h)
          PROVE  TagInv'
      <3>1. /\ IInv' /\ Len(log) \in Nat /\ Len(log') = Len(log) + 1
            /\ \A i \in 1 .. Len(log) : log'[i] = log[i]
            /\ log'[Len(log) + 1].body =
                 [event |-> job[h].op, role |-> job[h].role, user |-> job[h].user]
        BY <1>1, <2>2, CommitRoleLinks
      <3>2. job[h].op \in RoleOps
        BY <2>2, CommitRoleFacts, RoleJobShape DEF IInv
      <3>3. DOMAIN log = 1 .. Len(log) /\ DOMAIN log' = 1 .. Len(log')
        BY <3>1 DEF IInv, ChainInv
      <3>4. log'[Len(log) + 1].body.event # "overridden"
        BY <3>1, <3>2 DEF RoleOps
      <3>5. OverrideAuditedOnce'
        BY <1>1, <3>1, <3>3, <3>4, OtherEntry DEF TagInv, catalogVars
      <3> QED BY <1>1, <3>5 DEF catalogVars, TagInv, Overrides, InStep
    <2>3. ASSUME NEW h \in Admins, SealRole(h)
          PROVE  UNCHANGED log
      BY <2>3 DEF SealRole, WriteEntry
    <2> QED BY <1>1, <2>1, <2>2, <2>3, InviteLinks, QuietStepLinks, FailRoleLinks
        DEF RolesStep
  <1>2. ASSUME NEW w \in Workers, QuietWork(w)
        PROVE  TagInv'
    <2>1. UNCHANGED <<log, tag>> /\ Only(w)
      BY <1>2, QuietWorkFacts DEF IInv, chainVars
    <2>2. CASE CaptureRun(w)
      BY <2>1, <2>2, PlaceMoves, QuietTag DEF CaptureRun, InStep, IInv
    <2>3. CASE Describe(w)
      BY <2>1, <2>3, DescribeFacts, QuietTag DEF InStep, IInv
    <2>4. CASE DescribeFails(w)
      BY <2>1, <2>4, PlaceMoves, QuietTag DEF DescribeFails, InStep, IInv
    <2>5. CASE Compare(w)
      BY <2>1, <2>5, CompareFacts, QuietTag DEF InStep, IInv
    <2> QED BY <1>2, <2>2, <2>3, <2>4, <2>5, BeginTag, WriteTagTag DEF QuietWork
  <1>3. ASSUME NEW w \in Workers, FailStep(w), UNCHANGED rolesVars
        PROVE  TagInv'
    BY <1>3, FailStepFacts, FailStepLinks, QuietTag DEF IInv
  <1>4. CASE Around /\ UNCHANGED rolesVars
    BY <1>4, AroundLinks DEF TagInv, OverrideAuditedOnce, Overrides, InStep
  <1>5. CASE UNCHANGED vars
    BY <1>5 DEF vars, chainVars, catalogVars, TagInv, OverrideAuditedOnce, Overrides, InStep
  <1> QED BY <1>1, <1>2, <1>3, <1>4, <1>5, NextDivides, SealOverrideTag, CommitStepTag
      DEF CatalogStep

(* The override of a tag is audited once, and its row bears the number     *)
(* that is hashed into the entry, however many workers commit the step at  *)
(* the same time, and whoever of them fails.                               *)
THEOREM OverridesAreAuditedOnce == Spec => []OverrideAuditedOnce
  <1>1. Init => TagInv
    <2> SUFFICES ASSUME Init PROVE TagInv
      OBVIOUS
    <2>1. PICK r \in Created : ChainBegun([event |-> "create", role |-> r, user |-> Nobody])
      BY DEF Init
    <2>2. [event |-> "create", role |-> r, user |-> Nobody] \in Bodies
      BY RolesAssumption DEF Bodies, RoleOps
    <2>3. /\ Len(log) = 1 /\ log[1].body.event = "create"
          /\ log \in Seq(ChainRow(Bodies))
      BY <2>1, <2>2, RolesAssumption, BegunKeepsChain DEF ChainInv
    <2>4. {k \in DOMAIN log : log[k].body.event = "overridden"} = {}
      BY <2>3
    <2>5. tag = NoTag /\ \A w \in Workers : step[w] = NoStep
      BY DEF Init, CatalogInit
    <2>6. OverrideAuditedOnce
      BY <2>4, <2>5 DEF OverrideAuditedOnce
    <2> QED BY <2>5, <2>6 DEF TagInv, Overrides, InStep, NoStep, StepRec
  <1>2. IInv /\ TagInv /\ [Next]_vars => TagInv'
    BY TagKeeps
  <1>3. TagInv => OverrideAuditedOnce
    BY DEF TagInv
  <1> QED BY <1>1, <1>2, <1>3, ServicesInvariant, PTL DEF Spec

-----------------------------------------------------------------------------
(* ObservationsOnRecord. What a step compares with may be old when it      *)
(* commits; it was on record then, and what is on record stays.            *)
OnRecord(s) == \/ <<FirstSchema, s>> \in NonBreaking
               \/ \E u \in versions : u.breaks

RecordInv ==
    /\ \A c \in drifted : drift[c] = "pending"
    /\ \A v \in versions : OnRecord(v.schema)
    /\ \A w \in Workers : step[w] \in StepRec =>
          /\ step[w].at \notin {"compare", "commit"} => step[w].now = 0
          /\ step[w].at = "commit" =>
                \/ step[w].now = 0
                \/ \E v \in step[w].prev : /\ step[w].prev = {v} /\ v \in Version
                                              /\ OnRecord(v.schema)

LEMMA QuietRecord ==
    ASSUME IInv, RecordInv, NEW w \in Workers, Only(w),
           UNCHANGED <<versions, drift, drifted>>,
           step'[w] \in StepRec =>
              /\ step'[w].at \notin {"compare", "commit"} => step'[w].now = 0
              /\ step'[w].at = "commit" =>
                    \/ step'[w].now = 0
                    \/ \E v \in step'[w].prev : /\ step'[w].prev = {v} /\ v \in Version
                                               /\ OnRecord(v.schema)
    PROVE  RecordInv'
  <1>1. \A s : OnRecord(s)' <=> OnRecord(s)
    BY DEF OnRecord
  <1>2. \A x \in Workers : step'[x] \in StepRec =>
          /\ step'[x].at \notin {"compare", "commit"} => step'[x].now = 0
          /\ step'[x].at = "commit" =>
                \/ step'[x].now = 0
                \/ \E v \in step'[x].prev : /\ step'[x].prev = {v} /\ v \in Version
                                               /\ OnRecord(v.schema)
    BY DEF Only, RecordInv
  <1> QED BY <1>1, <1>2 DEF RecordInv

LEMMA QuietWorkRecord ==
    ASSUME IInv, RecordInv, NEW w \in Workers, QuietWork(w)
    PROVE  RecordInv'
  <1>1. UNCHANGED <<versions, drift, drifted>> /\ Only(w)
    BY QuietWorkFacts DEF IInv
  <1>2. NoStep \notin StepRec
    BY DEF NoStep, StepRec
  <1>3. ASSUME NEW c \in Codes, NEW off \in BOOLEAN, BeginStep(w, c, off)
        PROVE  RecordInv'
    <2>1. step' = [step EXCEPT ![w] =
                  [at |-> IF c \in Overriding THEN "tag" ELSE "version",
                   code |-> c, drifted |-> off, prior |-> tag, entry |-> NoTag,
                   schema |-> FirstSchema, now |-> 0, prev |-> NoTag]]
      BY <1>3 DEF BeginStep
    <2>2. step'[w].now = 0 /\ step'[w].at \in {"tag", "version"}
      BY <2>1 DEF IInv, CatalogType
    <2> QED BY <1>1, <2>2, QuietRecord
  <1>4. CASE WriteTag(w)
    <2>1. step[w] \in StepRec /\ step[w].at = "tag" /\ step[w].now = 0
      BY <1>4, WriteTagFacts DEF IInv, RecordInv
    <2>2. \/ step' = [step EXCEPT ![w] = NoStep]
          \/ step' = [step EXCEPT ![w].at = IF EmitAudit(w) THEN "seal" ELSE "version"]
      BY <1>4 DEF WriteTag, Now
    <2>3. step'[w] = NoStep \/ (step'[w].now = 0 /\ step'[w].at \in {"seal", "version"})
      BY <2>1, <2>2 DEF IInv, CatalogType, StepRec
    <2> QED BY <1>1, <1>2, <2>3, QuietRecord
  <1>5. CASE CaptureRun(w)
    <2>1. /\ step[w] \in StepRec /\ step[w].at = "version"
          /\ step'[w].at = "describe" /\ step'[w].now = step[w].now
      BY <1>5, PlaceMoves DEF CaptureRun, IInv
    <2>2. step'[w].now = 0
      BY <2>1 DEF RecordInv
    <2> QED BY <1>1, <2>1, <2>2, QuietRecord
  <1>6. CASE Describe(w)
    <2>1. step'[w].at = "compare"
      BY <1>6, DescribeFacts DEF IInv
    <2> QED BY <1>1, <2>1, QuietRecord
  <1>7. CASE DescribeFails(w)
    <2>1. /\ step[w] \in StepRec /\ step[w].at = "describe"
          /\ step'[w].at = "commit" /\ step'[w].now = step[w].now
      BY <1>7, PlaceMoves DEF DescribeFails, IInv
    <2>2. step'[w].now = 0
      BY <2>1 DEF RecordInv
    <2> QED BY <1>1, <2>1, <2>2, QuietRecord
  <1>8. CASE Compare(w)
    <2>1. step'[w].at = "commit" /\ step'[w].prev = {Latest} /\ Latest \in versions
      BY <1>8, CompareFacts DEF IInv
    <2>2. OnRecord(Latest.schema) /\ Latest \in Version
      BY <2>1 DEF RecordInv, IInv, CatalogType
    <2>3. \E v \in step'[w].prev : /\ step'[w].prev = {v} /\ v \in Version
                                               /\ OnRecord(v.schema)
      BY <2>1, <2>2
    <2> QED BY <1>1, <2>1, <2>3, QuietRecord
  <1> QED BY <1>3, <1>4, <1>5, <1>6, <1>7, <1>8 DEF QuietWork

LEMMA SealOverrideRecord ==
    ASSUME IInv, RecordInv, NEW w \in Workers, SealOverride(w)
    PROVE  RecordInv'
  <1>1. Len(log) \in Nat /\ sentinel.seq = Len(log)
    BY HeadCounts DEF IInv
  <1>2. /\ Only(w) /\ step[w] \in StepRec /\ step[w].at = "seal"
        /\ UNCHANGED <<versions, drift, drifted>>
    BY <1>1, SealOverrideFacts DEF IInv
  <1>3. step' = [step EXCEPT ![w].at = "version", ![w].entry = sentinel.seq + 1]
    BY DEF SealOverride
  <1>4. step'[w].now = step[w].now /\ step'[w].at = "version"
    BY <1>2, <1>3 DEF IInv, CatalogType, StepRec
  <1>5. step[w].now = 0
    BY <1>2 DEF RecordInv
  <1> QED BY <1>2, <1>4, <1>5, QuietRecord

(* What is on record stays when versions are added or replaced by ones     *)
(* that say the same.                                                      *)
LEMMA RecordGrows ==
    ASSUME NEW s, OnRecord(s), \A u \in versions : u.breaks => \E t \in versions' : t.breaks
    PROVE  OnRecord(s)'
  BY DEF OnRecord

LEMMA NewVersionOnRecord ==
    ASSUME IInv, RecordInv, NEW w \in Workers, step[w] \in StepRec,
           step[w].at = "commit", NEW n \in NewVersions(w)
    PROVE  <<FirstSchema, n.schema>> \in NonBreaking
           \/ n.breaks \/ \E u \in versions : u.breaks
  <1>1. step[w].now # 0 /\ ~ \E v \in step[w].prev : v.schema = step[w].schema
    BY DEF NewVersions
  <1>2. n = [schema |-> step[w].schema, at |-> step[w].now, code |-> step[w].code,
             breaks |-> \E v \in step[w].prev :
                           <<v.schema, step[w].schema>> \notin NonBreaking,
             acked |-> FALSE]
    BY <1>1 DEF NewVersions
  <1>3. /\ n.schema = step[w].schema /\ step[w].schema \in Schemas
        /\ n.breaks <=> \E v \in step[w].prev :
                           <<v.schema, step[w].schema>> \notin NonBreaking
    BY <1>2 DEF StepRec
  <1>4. PICK v \in step[w].prev : step[w].prev = {v} /\ v \in Version /\ OnRecord(v.schema)
    BY <1>1 DEF RecordInv
  <1>5. v.schema \in Schemas /\ FirstSchema \in Schemas
    BY <1>4, CatalogAssumption DEF Version
  <1>6. CASE <<v.schema, step[w].schema>> \notin NonBreaking
    BY <1>3, <1>4, <1>6
  <1>7. CASE <<v.schema, step[w].schema>> \in NonBreaking
    <2>1. <<FirstSchema, v.schema>> \in NonBreaking =>
             <<FirstSchema, step[w].schema>> \in NonBreaking
      BY <1>3, <1>5, <1>7, CatalogAssumption
    <2> QED BY <1>3, <1>4, <2>1 DEF OnRecord
  <1> QED BY <1>6, <1>7

LEMMA CommitStepRecord ==
    ASSUME IInv, RecordInv, NEW w \in Workers, CommitStep(w)
    PROVE  RecordInv'
  <1>1. step[w] \in StepRec /\ step[w].code \in Codes
    BY StepShape DEF IInv, CommitStep, CatalogType, StepRec
  <1>2. step[w].entry # NoTag => step[w].entry \in Nat
    BY <1>1 DEF StepRec
  <1>3. /\ Only(w) /\ step[w].at = "commit" /\ step'[w] = NoStep
        /\ versions' = versions \cup NewVersions(w)
        /\ drift' = [drift EXCEPT ![step[w].code] = DriftAfter(w)]
        /\ drifted' = drifted \cup (IF step[w].drifted THEN {step[w].code} ELSE {})
    BY <1>1, <1>2, CommitStepFacts DEF IInv
  <1>4. \A s : OnRecord(s) => OnRecord(s)'
    BY <1>3 DEF OnRecord
  <1>5. \A v \in versions' : OnRecord(v.schema)'
    <2> TAKE v \in versions'
    <2>1. CASE v \in versions
      BY <2>1, <1>4 DEF RecordInv
    <2>2. CASE v \in NewVersions(w)
      <3>1. \/ <<FirstSchema, v.schema>> \in NonBreaking
            \/ v.breaks \/ \E u \in versions : u.breaks
        BY <2>2, <1>1, <1>3, NewVersionOnRecord
      <3> QED BY <3>1, <1>3 DEF OnRecord
    <2> QED BY <2>1, <2>2, <1>3
  <1>6. \A c \in drifted' : drift'[c] = "pending"
    <2> TAKE c \in drifted'
    <2>1. drift \in [Codes -> {"none", "clean", "pending"}] /\ drifted \subseteq Codes
      BY DEF IInv, CatalogType
    <2>2. CASE c # step[w].code
      <3>1. c \in drifted /\ drift'[c] = drift[c]
        BY <2>1, <2>2, <1>3
      <3> QED BY <3>1 DEF RecordInv
    <2>3. CASE c = step[w].code
      <3>1. drift'[c] = DriftAfter(w)
        BY <2>1, <2>3, <1>1, <1>3
      <3>2. step[w].drifted \/ drift[c] = "pending"
        BY <1>3, <2>3 DEF RecordInv
      <3> QED BY <2>3, <3>1, <3>2 DEF DriftAfter
    <2> QED BY <2>2, <2>3
  <1>7. \A x \in Workers : step'[x] \in StepRec => step'[x] = step[x]
    BY <1>3 DEF Only, NoStep, StepRec
  <1>8. \A x \in Workers : step'[x] \in StepRec =>
          /\ step'[x].at \notin {"compare", "commit"} => step'[x].now = 0
          /\ step'[x].at = "commit" =>
                \/ step'[x].now = 0
                \/ \E v \in step'[x].prev : /\ step'[x].prev = {v} /\ v \in Version
                                            /\ OnRecord(v.schema)'
    BY <1>4, <1>7 DEF RecordInv
  <1> QED BY <1>5, <1>6, <1>8 DEF RecordInv

LEMMA AcknowledgeRecord ==
    ASSUME IInv, RecordInv, NEW v \in versions, Acknowledge(v)
    PROVE  RecordInv'
  <1>1. /\ \E a \in Version : /\ a.schema = v.schema /\ a.breaks
                              /\ versions' = (versions \ {v}) \cup {a}
        /\ UNCHANGED <<drift, drifted, step>>
    BY AcknowledgeFacts DEF IInv
  <1>2. PICK a \in Version : /\ a.schema = v.schema /\ a.breaks
                             /\ versions' = (versions \ {v}) \cup {a}
    BY <1>1
  <1>3. \A s : OnRecord(s)'
    BY <1>2 DEF OnRecord
  <1> QED BY <1>1, <1>3 DEF RecordInv

LEMMA RecordKeeps ==
    ASSUME IInv, RecordInv, [Next]_vars
    PROVE  RecordInv'
  <1>1. ASSUME UNCHANGED <<versions, drift, drifted, step>>
        PROVE  RecordInv'
    BY <1>1 DEF RecordInv, OnRecord
  <1>2. ASSUME NEW w \in Workers, FailStep(w)
        PROVE  RecordInv'
    <2>1. /\ Only(w) /\ step'[w] = NoStep /\ UNCHANGED <<versions, drift, drifted>>
      BY <1>2, FailStepFacts DEF IInv
    <2>2. step'[w] \notin StepRec
      BY <2>1 DEF NoStep, StepRec
    <2> QED BY <2>1, <2>2, QuietRecord
  <1>3. CASE Around
    BY <1>1, <1>3, AcknowledgeRecord, AlterTableFacts, SubmitFacts DEF Around, IInv
  <1>4. CASE CatalogStep
    BY <1>2, <1>3, <1>4, QuietWorkRecord, SealOverrideRecord, CommitStepRecord
    DEF CatalogStep
  <1>5. CASE UNCHANGED catalogVars
    BY <1>1, <1>5 DEF catalogVars
  <1> QED BY <1>4, <1>5, NextDivides DEF vars

LEMMA RecordHolds == Spec => []RecordInv
  <1>1. Init => RecordInv
    <2> SUFFICES ASSUME Init PROVE RecordInv
      OBVIOUS
    <2>1. drifted = {} /\ \A w \in Workers : step[w] = NoStep
      BY DEF Init, CatalogInit
    <2>2. \A v \in versions : v.schema = FirstSchema
      BY DEF Init, CatalogInit
    <2>3. NoStep \notin StepRec
      BY DEF NoStep, StepRec
    <2> QED BY <2>1, <2>2, <2>3, CatalogAssumption DEF RecordInv, OnRecord
  <1>2. IInv /\ RecordInv /\ [Next]_vars => RecordInv'
    BY RecordKeeps
  <1> QED BY <1>1, <1>2, ServicesInvariant, PTL DEF Spec

(* What committed steps have observed stays on record: drift of a code     *)
(* hash, and that some version broke the readers of the first schema, also *)
(* when the commits overlap and compare with the same earlier version.     *)
THEOREM ObservationsStay == Spec => []ObservationsOnRecord
  <1>1. RecordInv => ObservationsOnRecord
    BY DEF RecordInv, OnRecord, ObservationsOnRecord
  <1> QED BY <1>1, RecordHolds, PTL

(* ApprovalSeesAll. What a submission remembers is no longer touched by    *)
(* what is committed later, and drift that was on record then still is     *)
(* when the second probe looks.                                            *)
Weighed(c, s) ==
    /\ s.clear => \A v \in s.seen : v.breaks => v.acked
    /\ \/ <<FirstSchema, LatestOf(s.seen).schema>> \in NonBreaking
       \/ \E v \in s.seen : v.breaks
    /\ s.off => c \in drifted
    /\ s.clear /\ s.at # "breaks" => ~ s.off
    /\ s.at = "active" => s.clear

SubmissionInv ==
    \A c \in Submitted : submission[c].at # "none" => Weighed(c, submission[c])

LEMMA DriftedGrows ==
    ASSUME IInv, [Next]_vars
    PROVE  /\ drifted \subseteq drifted'
           /\ \/ UNCHANGED submission
              \/ \E c \in Submitted : ProbeBreaks(c) \/ ProbeDrift(c) \/ Activate(c)
  <1>1. ASSUME NEW w \in Workers,
               QuietWork(w) \/ SealOverride(w) \/ CommitStep(w) \/ FailStep(w)
        PROVE  drifted \subseteq drifted' /\ UNCHANGED submission
    <2>1. QuietWork(w) => UNCHANGED <<drifted, submission>>
      BY QuietWorkFacts DEF IInv
    <2> QED BY <1>1, <2>1 DEF SealOverride, CommitStep, FailStep, Committed
  <1>2. CASE Around
    BY <1>2, AlterTableFacts, AcknowledgeFacts, SubmitFacts DEF Around, IInv
  <1>3. CASE UNCHANGED catalogVars
    BY <1>3 DEF catalogVars
  <1> QED BY <1>1, <1>2, <1>3, NextDivides DEF CatalogStep, vars

LEMMA SubmissionKeeps ==
    ASSUME IInv, RecordInv, SubmissionInv, [Next]_vars
    PROVE  SubmissionInv'
  <1>1. drifted \subseteq drifted'
    BY DriftedGrows
  <1>2. ASSUME NEW d \in Submitted, submission'[d] = submission[d]
        PROVE  submission'[d].at # "none" => Weighed(d, submission[d])'
    BY <1>1, <1>2 DEF SubmissionInv, Weighed, LatestOf
  <1>3. CASE UNCHANGED submission
    BY <1>2, <1>3 DEF SubmissionInv
  <1>4. ASSUME NEW c \in Submitted, ProbeBreaks(c) \/ ProbeDrift(c) \/ Activate(c)
        PROVE  SubmissionInv'
    <2>1. /\ \A d \in Submitted \ {c} : submission'[d] = submission[d]
          /\ UNCHANGED <<versions, drift, drifted>>
      BY <1>4, SubmitFacts DEF IInv
    <2>2. CASE ProbeBreaks(c)
      <3>1. /\ submission'[c].at = "breaks"
            /\ submission'[c].clear <=> ~ hasUnackBreakingSchemaChange(c)
            /\ submission'[c].seen = versions
            /\ submission'[c].off <=> c \in drifted
        BY <2>2, SubmitFacts DEF IInv
      <3>2. submission'[c].clear => \A v \in versions : v.breaks => v.acked
        BY <3>1 DEF hasUnackBreakingSchemaChange
      <3>3. Latest \in versions
        BY LatestIsVersion DEF IInv
      <3>4. \/ <<FirstSchema, LatestOf(versions).schema>> \in NonBreaking
            \/ \E v \in versions : v.breaks
        BY <3>3 DEF RecordInv, OnRecord, Latest
      <3>5. Weighed(c, submission[c])'
        BY <2>1, <3>1, <3>2, <3>4 DEF Weighed
      <3> QED BY <1>2, <2>1, <3>5 DEF SubmissionInv
    <2>3. CASE ProbeDrift(c)
      <3>1. /\ submission[c].at = "breaks" /\ submission'[c].at = "probed"
            /\ submission'[c].clear <=> submission[c].clear /\ ~ driftPending(c)
            /\ submission'[c].seen = submission[c].seen
            /\ submission'[c].off <=> submission[c].off
        BY <2>3, SubmitFacts DEF IInv
      <3>2. Weighed(c, submission[c])
        BY <3>1 DEF SubmissionInv
      <3>3. submission'[c].clear => ~ submission'[c].off
        BY <3>1, <3>2 DEF Weighed, driftPending, RecordInv
      <3>4. Weighed(c, submission[c])'
        BY <2>1, <3>1, <3>2, <3>3 DEF Weighed
      <3> QED BY <1>2, <2>1, <3>4 DEF SubmissionInv
    <2>4. CASE Activate(c)
      <3>1. /\ submission[c].at = "probed"
            /\ submission'[c].at \in {"active", "in_review"}
            /\ submission'[c].at = "active" => submission[c].clear
            /\ submission'[c].clear <=> submission[c].clear
            /\ submission'[c].seen = submission[c].seen
            /\ submission'[c].off <=> submission[c].off
        BY <2>4, SubmitFacts DEF IInv
      <3>2. Weighed(c, submission[c])
        BY <3>1 DEF SubmissionInv
      <3>3. Weighed(c, submission[c])'
        BY <2>1, <3>1, <3>2 DEF Weighed
      <3> QED BY <1>2, <2>1, <3>3 DEF SubmissionInv
    <2> QED BY <1>4, <2>2, <2>3, <2>4
  <1> QED BY <1>3, <1>4, DriftedGrows

(* A version that was activated automatically had no unacknowledged break  *)
(* and no drift among what was on record when its probes began, and what   *)
(* was on record leaves out no break of the first schema; later            *)
(* acknowledgements and captures do not change that.                       *)
THEOREM ApprovalsSeeEverything == Spec => []ApprovalSeesAll
  <1>1. Init => SubmissionInv
    BY DEF Init, CatalogInit, SubmissionInv, NotSubmitted
  <1>2. IInv /\ RecordInv /\ SubmissionInv /\ [Next]_vars => SubmissionInv'
    BY SubmissionKeeps
  <1>3. SubmissionInv => ApprovalSeesAll
    BY DEF SubmissionInv, Weighed, ApprovalSeesAll
  <1> QED BY <1>1, <1>2, <1>3, ServicesInvariant, RecordHolds, PTL DEF Spec

-----------------------------------------------------------------------------
(* RolesFollowTrail. The rows that requests have under way are theirs      *)
(* alone: a revocation has all the active rows of its assignment, and an   *)
(* assignment that inserts is the only one and finds none.                 *)
GrantsInv ==
    /\ RolesFollowTrail
    /\ \A h \in Admins : job[h] \in CreateJob => job[h].inserted
    /\ \A h \in Admins : LockedRows(h) \subseteq Rows
    /\ \A g, h \in Admins : g # h => LockedRows(g) \cap LockedRows(h) = {}
    /\ \A h \in Admins : job[h] \in RevokeJob =>
          job[h].rows = Active(job[h].user, job[h].role) /\ job[h].rows # {}
    /\ \A h \in Admins : job[h] \in AssignJob /\ job[h].inserted =>
          /\ Active(job[h].user, job[h].role) = {}
          /\ \A g \in Admins \ {h} : job[g] \in AssignJob /\ job[g].inserted =>
                job[g].user # job[h].user \/ job[g].role # job[h].role

(* The rows a request has locked.                                          *)
LockedOf(j) == IF j \in DeleteJob \cup RevokeJob THEN j.rows ELSE {}

LEMMA HoldsShape ==
    ASSUME NEW j \in Jobs
    PROVE  /\ j.at \in {"drop", "seal", "commit"} /\ j.op = "delete" <=> j \in DeleteJob
           /\ j.at \in {"drop", "seal", "commit"} /\ j.op = "revoke" <=> j \in RevokeJob
           /\ j.at \in {"drop", "seal", "commit"} /\ j.op = "assign" <=> j \in AssignJob
  <1>1. /\ j \in DeleteJob => j.at \in {"drop", "seal", "commit"} /\ j.op = "delete"
        /\ j \in RevokeJob => j.at \in {"drop", "seal", "commit"} /\ j.op = "revoke"
        /\ j \in AssignJob => j.at \in {"drop", "seal", "commit"} /\ j.op = "assign"
    BY DEF DeleteJob, RevokeJob, AssignJob
  <1>2. CASE j = NoJob
    BY <1>1, <1>2 DEF NoJob
  <1>3. CASE j # NoJob
    BY <1>1, <1>3, JobShape
  <1> QED BY <1>2, <1>3

LEMMA LockedShape ==
    /\ RolesType => \A h \in Admins : LockedRows(h) = LockedOf(job[h])
    /\ RolesType' => \A h \in Admins : LockedRows(h)' = LockedOf(job'[h])
  <1>1. ASSUME RolesType, NEW h \in Admins
        PROVE  LockedRows(h) = LockedOf(job[h])
    <2>1. /\ Holds(h, "delete") <=> job[h] \in DeleteJob
          /\ Holds(h, "revoke") <=> job[h] \in RevokeJob
      BY <1>1, HoldsShape DEF RolesType, Holds
    <2> QED BY <2>1 DEF LockedRows, LockedOf
  <1>2. ASSUME RolesType', NEW h \in Admins
        PROVE  LockedRows(h)' = LockedOf(job'[h])
    <2>1. /\ Holds(h, "delete")' <=> job'[h] \in DeleteJob
          /\ Holds(h, "revoke")' <=> job'[h] \in RevokeJob
      BY <1>2, HoldsShape DEF RolesType, Holds
    <2> QED BY <2>1 DEF LockedRows, LockedOf
  <1> QED BY <1>1, <1>2

(* What may be said of a request that is not the one that moves.           *)
LEMMA QuietGrants ==
    ASSUME IInv, GrantsInv, RolesType', NEW h \in Admins, Alone(h),
           UNCHANGED <<log, roles, grants>>,
           job'[h] \in CreateJob => job'[h].inserted,
           LockedOf(job'[h]) \subseteq Rows,
           \A g \in Admins \ {h} : LockedOf(job[g]) \cap LockedOf(job'[h]) = {},
           job'[h] \in RevokeJob =>
               /\ job'[h].rows = Active(job'[h].user, job'[h].role) /\ job'[h].rows # {},
           job'[h] \in AssignJob /\ job'[h].inserted =>
               /\ Active(job'[h].user, job'[h].role) = {}
               /\ \A g \in Admins \ {h} : job[g] \in AssignJob /\ job[g].inserted =>
                     job[g].user # job'[h].user \/ job[g].role # job'[h].role
    PROVE  GrantsInv'
  <1>1. /\ \A g \in Admins : LockedRows(g) = LockedOf(job[g])
        /\ \A g \in Admins : LockedRows(g)' = LockedOf(job'[g])
    BY LockedShape DEF IInv
  <1>2. /\ Rows' = Rows /\ \A u, r : Active(u, r)' = Active(u, r)
    BY DEF Rows, Active
  <1>3. RolesFollowTrail'
    <2>1. \A E, u, r : Entries(E, u, r)' = Entries(E, u, r)
      BY DEF Entries
    <2>2. \A e, E, u, r : LastIs(e, Entries(E, u, r))' <=> LastIs(e, Entries(E, u, r))
      BY <2>1 DEF LastIs
    <2> QED BY <1>2, <2>2 DEF GrantsInv, RolesFollowTrail
  <1>4. \A g \in Admins \ {h} : job'[g] = job[g]
    BY DEF Alone
  <1>5. \A g \in Admins : job'[g] \in CreateJob => job'[g].inserted
    BY <1>4 DEF GrantsInv
  <1>6. \A g \in Admins : LockedRows(g)' \subseteq Rows'
    BY <1>1, <1>2, <1>4 DEF GrantsInv
  <1>7. \A f, g \in Admins : f # g => LockedRows(f)' \cap LockedRows(g)' = {}
    BY <1>1, <1>4 DEF GrantsInv
  <1>8. ASSUME NEW g \in Admins, job'[g] \in RevokeJob
        PROVE  job'[g].rows = Active(job[g].user, job[g].role)' /\ job'[g].rows # {}
    <2>1. PICK u, r : u = job'[g].user /\ r = job'[g].role
      OBVIOUS
    <2>2. job'[g].rows = Active(u, r) /\ job'[g].rows # {}
      BY <1>4, <1>8, <2>1 DEF GrantsInv
    <2> QED BY <1>2, <2>1, <2>2 DEF Active
  <1>9. ASSUME NEW g \in Admins, job'[g] \in AssignJob, job'[g].inserted
        PROVE  /\ Active(job[g].user, job[g].role)' = {}
               /\ \A f \in Admins \ {g} : job'[f] \in AssignJob /\ job'[f].inserted =>
                     job'[f].user # job'[g].user \/ job'[f].role # job'[g].role
    <2>1. PICK u, r : u = job'[g].user /\ r = job'[g].role
      OBVIOUS
    <2>2. Active(u, r) = {}
      BY <1>4, <1>9, <2>1 DEF GrantsInv
    <2>3. Active(u, r)' = {}
      BY <1>2, <2>2
    <2>4. \A f \in Admins \ {g} : job'[f] \in AssignJob /\ job'[f].inserted =>
             job'[f].user # job'[g].user \/ job'[f].role # job'[g].role
      BY <1>4, <1>9 DEF GrantsInv
    <2> QED BY <2>1, <2>3, <2>4 DEF Active
  <1> QED BY <1>3, <1>5, <1>6, <1>7, <1>8, <1>9 DEF GrantsInv

LEMMA KindsApart ==
    /\ \A j \in CreateJob : j \notin DeleteJob \cup RevokeJob \cup AssignJob
    /\ \A j \in AssignJob : j \notin DeleteJob \cup RevokeJob \cup CreateJob
    /\ \A j \in DeleteJob : j \notin CreateJob \cup RevokeJob \cup AssignJob
    /\ \A j \in RevokeJob : j \notin DeleteJob \cup CreateJob \cup AssignJob
    /\ \A j \in {NoJob} \cup AccountJob :
          j \notin DeleteJob \cup CreateJob \cup AssignJob \cup RevokeJob
  <1>1. \A j \in CreateJob : j \notin DeleteJob \cup RevokeJob \cup AssignJob
    BY DEF CreateJob, DeleteJob, AssignJob, RevokeJob
  <1>2. \A j \in AssignJob : j \notin DeleteJob \cup RevokeJob \cup CreateJob
    BY DEF CreateJob, DeleteJob, AssignJob, RevokeJob
  <1>3. \A j \in DeleteJob : j \notin CreateJob \cup RevokeJob \cup AssignJob
    BY DEF CreateJob, DeleteJob, AssignJob, RevokeJob
  <1>4. \A j \in RevokeJob : j \notin DeleteJob \cup CreateJob \cup AssignJob
    BY DEF CreateJob, DeleteJob, AssignJob, RevokeJob
  <1>5. \A j \in {NoJob} \cup AccountJob : j \notin RoleJob
    BY RoleJobShape
  <1> QED BY <1>1, <1>2, <1>3, <1>4, <1>5 DEF RoleJob

(* A request that ends, or that has no row of a role.                      *)
LEMMA EndedGrants ==
    ASSUME IInv, GrantsInv, RolesType', NEW h \in Admins, Alone(h),
           UNCHANGED <<log, roles, grants>>, job'[h] \in {NoJob} \cup AccountJob
    PROVE  GrantsInv'
  <1>1. job'[h] \notin DeleteJob \cup CreateJob \cup AssignJob \cup RevokeJob
    BY KindsApart
  <1>2. LockedOf(job'[h]) = {}
    BY <1>1 DEF LockedOf
  <1> QED BY <1>1, <1>2, QuietGrants

(* A request that goes on.                                                 *)
LEMMA SameGrants ==
    ASSUME IInv, GrantsInv, RolesType', NEW h \in Admins, Alone(h),
           UNCHANGED <<log, roles, grants>>,
           job[h] \in RoleJob, SameRequest(job[h], job'[h]), job'[h] \in RoleJob
    PROVE  GrantsInv'
  <1>1. /\ job'[h].role = job[h].role /\ job'[h].user = job[h].user
        /\ job'[h] \in CreateJob => job[h] \in CreateJob /\ job'[h].inserted = job[h].inserted
        /\ job'[h] \in DeleteJob => job[h] \in DeleteJob /\ job'[h].rows = job[h].rows
        /\ job'[h] \in AssignJob => job[h] \in AssignJob /\ job'[h].inserted = job[h].inserted
        /\ job'[h] \in RevokeJob => job[h] \in RevokeJob /\ job'[h].rows = job[h].rows
    BY RoleJobShape DEF SameRequest
  <1>2. LockedOf(job'[h]) = LockedOf(job[h])
    BY <1>1, RoleJobShape DEF LockedOf, SameRequest
  <1>3. \A g \in Admins : LockedRows(g) = LockedOf(job[g])
    BY LockedShape DEF IInv
  <1>4. /\ job'[h] \in CreateJob => job'[h].inserted
        /\ LockedOf(job'[h]) \subseteq Rows
        /\ \A g \in Admins \ {h} : LockedOf(job[g]) \cap LockedOf(job'[h]) = {}
    BY <1>1, <1>2, <1>3 DEF GrantsInv
  <1>5. job'[h] \in RevokeJob =>
           job'[h].rows = Active(job'[h].user, job'[h].role) /\ job'[h].rows # {}
    BY <1>1 DEF GrantsInv
  <1>6. job'[h] \in AssignJob /\ job'[h].inserted =>
           /\ Active(job'[h].user, job'[h].role) = {}
           /\ \A g \in Admins \ {h} : job[g] \in AssignJob /\ job[g].inserted =>
                 job[g].user # job'[h].user \/ job[g].role # job'[h].role
    BY <1>1 DEF GrantsInv
  <1> QED BY <1>4, <1>5, <1>6, QuietGrants

LEMMA QuietStepGrants ==
    ASSUME IInv, GrantsInv, NEW h \in Admins, QuietStep(h), UNCHANGED catalogVars
    PROVE  GrantsInv'
  <1>1. /\ RolesType' /\ Alone(h) /\ UNCHANGED <<log, roles, grants>>
        /\ RolesType
    BY QuietStepFacts, QuietStepLinks DEF IInv
  <1>2. \A g \in Admins : LockedRows(g) = LockedOf(job[g])
    BY LockedShape DEF IInv
  <1>3. \A u, r : Active(u, r) \subseteq Rows /\ Live(r) \subseteq Rows
    BY <1>1, RowsNumbered
  <1>4. ASSUME NEW r \in RoleNames, CreateRole(h, r)
        PROVE  GrantsInv'
    <2>1. job'[h] \in CreateJob /\ job'[h].inserted
      BY <1>1, <1>4, CreateRoleFacts
    <2>2. LockedOf(job'[h]) = {} /\ job'[h] \notin RevokeJob /\ job'[h] \notin AssignJob
      BY <2>1, KindsApart DEF LockedOf
    <2> QED BY <1>1, <2>1, <2>2, QuietGrants
  <1>5. ASSUME NEW r \in RoleNames, DeleteRole(h, r)
        PROVE  GrantsInv'
    <2>1. job'[h] \in DeleteJob /\ job'[h].rows = Live(r) /\ RowsFree(Live(r))
      BY <1>1, <1>5, DeleteRoleFacts
    <2>2. /\ LockedOf(job'[h]) = Live(r) /\ job'[h] \notin RevokeJob
          /\ job'[h] \notin AssignJob /\ job'[h] \notin CreateJob
      BY <2>1, KindsApart DEF LockedOf
    <2>3. \A g \in Admins \ {h} : LockedOf(job[g]) \cap LockedOf(job'[h]) = {}
      BY <1>2, <2>1, <2>2 DEF RowsFree
    <2> QED BY <1>1, <1>3, <2>2, <2>3, QuietGrants
  <1>6. ASSUME NEW u \in Users, NEW r \in RoleNames, AssignRole(h, u, r)
        PROVE  GrantsInv'
    <2>1. /\ job'[h] \in AssignJob /\ job'[h].user = u /\ job'[h].role = r
          /\ job'[h].inserted <=> (Active(u, r) = {})
          /\ PlaceFree(u, r)
      BY <1>1, <1>6, AssignRoleFacts
    <2>2. /\ LockedOf(job'[h]) = {} /\ job'[h] \notin RevokeJob
          /\ job'[h] \notin CreateJob
      BY <2>1, KindsApart DEF LockedOf
    <2>3. \A g \in Admins : job[g] \in AssignJob /\ job[g].inserted =>
             job[g].user # u \/ job[g].role # r
      <3> SUFFICES ASSUME NEW g \in Admins, job[g] \in AssignJob, job[g].inserted
                   PROVE  job[g].user # u \/ job[g].role # r
        OBVIOUS
      <3>1. Holds(g, "assign")
        BY <1>1, HoldsShape DEF RolesType, Holds
      <3> QED BY <2>1, <3>1 DEF PlaceFree
    <2> QED BY <1>1, <2>1, <2>2, <2>3, QuietGrants
  <1>7. ASSUME NEW u \in Users, NEW r \in RoleNames, RevokeRole(h, u, r)
        PROVE  GrantsInv'
    <2>1. /\ job'[h] \in RevokeJob /\ job'[h].user = u /\ job'[h].role = r
          /\ job'[h].rows = Active(u, r) /\ RowsFree(Active(u, r)) /\ Active(u, r) # {}
      BY <1>1, <1>7, RevokeRoleFacts
    <2>2. /\ LockedOf(job'[h]) = Active(u, r) /\ job'[h] \notin AssignJob
          /\ job'[h] \notin CreateJob
      BY <2>1, KindsApart DEF LockedOf
    <2>3. \A g \in Admins \ {h} : LockedOf(job[g]) \cap LockedOf(job'[h]) = {}
      BY <1>2, <2>1, <2>2 DEF RowsFree
    <2> QED BY <1>1, <1>3, <2>1, <2>2, <2>3, QuietGrants
  <1>8. CASE DropRole(h)
    <2>1. /\ job[h] \in DeleteJob
          /\ \/ job'[h] = NoJob
             \/ /\ job'[h] \in DeleteJob /\ job'[h].at = "seal"
                /\ job'[h].role = job[h].role /\ job'[h].rows = job[h].rows
      BY <1>1, <1>8, DropRoleFacts
    <2>2. CASE job'[h] = NoJob
      BY <1>1, <2>2, EndedGrants
    <2>3. CASE job'[h] \in DeleteJob /\ job'[h].rows = job[h].rows
      <3>1. LockedOf(job'[h]) = LockedRows(h)
        BY <1>2, <2>1, <2>3 DEF LockedOf
      <3>2. /\ job'[h] \notin RevokeJob /\ job'[h] \notin AssignJob
            /\ job'[h] \notin CreateJob
        BY <2>3, KindsApart
      <3>3. /\ LockedOf(job'[h]) \subseteq Rows
            /\ \A g \in Admins \ {h} : LockedOf(job[g]) \cap LockedOf(job'[h]) = {}
        BY <1>2, <3>1 DEF GrantsInv
      <3> QED BY <1>1, <3>2, <3>3, QuietGrants
    <2> QED BY <2>1, <2>2, <2>3
  <1>9. ASSUME NEW e \in Emails, Register(h, e)
        PROVE  GrantsInv'
    BY <1>1, <1>9, RegisterFacts, EndedGrants
  <1>10. ASSUME NEW i \in Invites, AcceptInvite(h, i)
         PROVE  GrantsInv'
    BY <1>1, <1>10, AcceptInviteFacts, EndedGrants
  <1>11. CASE InsertAccount(h)
    BY <1>1, <1>11, InsertAccountFacts, EndedGrants
  <1>12. CASE CommitAccount(h)
    BY <1>1, <1>12, CommitAccountFacts, EndedGrants
  <1> QED BY <1>4, <1>5, <1>6, <1>7, <1>8, <1>9, <1>10, <1>11, <1>12 DEF QuietStep

(* What a new entry does to the last entry about a role, or a user and a   *)
(* role.                                                                   *)
LEMMA LastEntry ==
    ASSUME Len(log) \in Nat, Len(log') = Len(log) + 1,
           DOMAIN log = 1 .. Len(log), DOMAIN log' = 1 .. Len(log'),
           \A i \in 1 .. Len(log) : log'[i] = log[i],
           NEW b, log'[Len(log) + 1].body = b,
           NEW e, NEW E, NEW u, NEW r
    PROVE  /\ b.event \in E /\ b.user = u /\ b.role = r =>
                (LastIs(e, Entries(E, u, r))' <=> b.event = e)
           /\ ~ (b.event \in E /\ b.user = u /\ b.role = r) =>
                (LastIs(e, Entries(E, u, r))' <=> LastIs(e, Entries(E, u, r)))
  <1>1. PICK n : n = Len(log) + 1
    OBVIOUS
  <1>2. /\ DOMAIN log' = DOMAIN log \cup {n} /\ n \notin DOMAIN log
        /\ log'[n].body = b /\ \A k \in DOMAIN log : log'[k] = log[k]
        /\ \A k \in DOMAIN log : k <= n /\ ~ (n <= k)
        /\ n <= n
    <2>1. 1 .. Len(log') = (1 .. Len(log)) \cup {n}
      BY <1>1
    <2>2. n \notin 1 .. Len(log) /\ \A k \in 1 .. Len(log) : k <= n /\ ~ (n <= k)
      BY <1>1
    <2> QED BY <1>1, <2>1, <2>2
  <1>3. PICK old : old = Entries(E, u, r)
    OBVIOUS
  <1>4. PICK new : new = Entries(E, u, r)'
    OBVIOUS
  <1>5. /\ old \subseteq DOMAIN log
        /\ (LastIs(e, Entries(E, u, r)) <=>
              \E k \in old : log[k].body.event = e /\ \A j \in old : j <= k)
        /\ (LastIs(e, Entries(E, u, r))' <=>
              \E k \in new : log'[k].body.event = e /\ \A j \in new : j <= k)
    BY <1>3, <1>4 DEF LastIs, Entries
  <1>6. /\ b.event \in E /\ b.user = u /\ b.role = r => new = old \cup {n}
        /\ ~ (b.event \in E /\ b.user = u /\ b.role = r) => new = old
    BY <1>2, <1>3, <1>4 DEF Entries
  <1>7. ASSUME b.event \in E /\ b.user = u /\ b.role = r
        PROVE  LastIs(e, Entries(E, u, r))' <=> b.event = e
    <2>1. new = old \cup {n}
      BY <1>6, <1>7
    <2> QED BY <1>2, <1>5, <2>1
  <1>8. ASSUME ~ (b.event \in E /\ b.user = u /\ b.role = r)
        PROVE  LastIs(e, Entries(E, u, r))' <=> LastIs(e, Entries(E, u, r))
    BY <1>2, <1>5, <1>6, <1>8
  <1> QED BY <1>7, <1>8

(* What a commit does to the active rows of an assignment.                 *)
LEMMA ActiveRewritten ==
    ASSUME RolesType, NEW rows, NEW state \in {"revoked", "deleted"},
           grants' = Rewritten(rows, state)
    PROVE  /\ Rows' = Rows
           /\ \A u, r : Active(u, r)' = Active(u, r) \ rows
  BY RewrittenRows DEF Active

LEMMA ActiveAppended ==
    ASSUME RolesType, NEW v \in Users, NEW q \in RoleNames,
           grants' = Append(grants, [user |-> v, role |-> q, state |-> "active"])
    PROVE  /\ Rows \subseteq Rows'
           /\ Active(v, q)' # {}
           /\ \A u, r : u # v \/ r # q => Active(u, r)' = Active(u, r)
  <1>1. PICK g : g = [user |-> v, role |-> q, state |-> "active"]
    OBVIOUS
  <1>2. g \in Grant /\ g.user = v /\ g.role = q /\ g.state = "active"
    BY <1>1 DEF Grant
  <1>3. /\ Rows' = Rows \cup {Len(grants) + 1}
        /\ Len(grants) + 1 \notin Rows /\ grants'[Len(grants) + 1] = g
        /\ \A k \in Rows : grants'[k] = grants[k]
    BY <1>1, <1>2, AppendedRow
  <1> QED BY <1>2, <1>3 DEF Active

(* What the commit of h leaves of the rows that others have under way.     *)
LEMMA CommitRows ==
    ASSUME IInv, GrantsInv, NEW h \in Admins, CommitRole(h)
    PROVE  /\ Rows \subseteq Rows'
           /\ \A u, r : \/ Active(u, r)' \subseteq Active(u, r)
                        \/ job[h].op = "assign" /\ job[h].user = u /\ job[h].role = r
           /\ \A u, r : job[h].op = "revoke" /\ job[h].user = u /\ job[h].role = r =>
                           Active(u, r)' = {}
           /\ \A g \in Admins \ {h} : \A u, r :
                job[g].user = u /\ job[g].role = r =>
                  /\ job[g] \in RevokeJob => Active(u, r)' = Active(u, r)
                  /\ job[g] \in AssignJob /\ job[g].inserted => Active(u, r)' = {}
  <1>1. /\ RolesType /\ RolesType' /\ job[h] \in RoleJob
        /\ \/ grants' = grants /\ (job[h].op = "create"
                                   \/ (job[h].op = "assign" /\ ~ job[h].inserted))
           \/ job[h].op = "delete" /\ grants' = Rewritten(job[h].rows, "deleted")
           \/ job[h].op = "revoke" /\ grants' = Rewritten(job[h].rows, "revoked")
           \/ /\ job[h].op = "assign" /\ job[h].inserted
              /\ grants' = Append(grants, [user |-> job[h].user, role |-> job[h].role,
                                           state |-> "active"])
    BY CommitRoleFacts DEF IInv
  <1>2. \A g \in Admins : LockedRows(g) = LockedOf(job[g])
    BY LockedShape DEF IInv
  <1>3. \A g \in Admins \ {h} : \A u, r :
           job[g] \in RevokeJob /\ job[g].user = u /\ job[g].role = r =>
             LockedOf(job[g]) = Active(u, r) /\ Active(u, r) # {}
    BY DEF GrantsInv, LockedOf
  <1>4. \A g \in Admins \ {h} : \A u, r :
           job[g] \in AssignJob /\ job[g].inserted /\ job[g].user = u /\ job[g].role = r =>
             Active(u, r) = {}
    BY DEF GrantsInv
  <1>5. CASE grants' = grants /\ job[h].op # "revoke"
    <2>1. Rows' = Rows /\ \A u, r : Active(u, r)' = Active(u, r)
      BY <1>5 DEF Rows, Active
    <2> QED BY <1>4, <1>5, <2>1
  <1>6. ASSUME NEW state \in {"revoked", "deleted"}, job[h].op \in {"delete", "revoke"},
               grants' = Rewritten(job[h].rows, state)
        PROVE  /\ Rows' = Rows
               /\ \A u, r : Active(u, r)' = Active(u, r) \ job[h].rows
               /\ \A g \in Admins \ {h} : \A u, r :
                    job[g].user = u /\ job[g].role = r =>
                      /\ job[g] \in RevokeJob => Active(u, r)' = Active(u, r)
                      /\ job[g] \in AssignJob /\ job[g].inserted => Active(u, r)' = {}
    <2>1. Rows' = Rows /\ \A u, r : Active(u, r)' = Active(u, r) \ job[h].rows
      BY <1>1, <1>6, ActiveRewritten
    <2>2. LockedRows(h) = job[h].rows
      BY <1>1, <1>2, <1>6, RoleJobShape DEF LockedOf
    <2>3. \A g \in Admins \ {h} : LockedOf(job[g]) \cap job[h].rows = {}
      BY <1>2, <2>2 DEF GrantsInv
    <2> QED BY <1>3, <1>4, <2>1, <2>3
  <1>7. CASE job[h].op = "delete" /\ grants' = Rewritten(job[h].rows, "deleted")
    BY <1>6, <1>7
  <1>8. CASE job[h].op = "revoke" /\ grants' = Rewritten(job[h].rows, "revoked")
    <2>1. job[h] \in RevokeJob
      BY <1>1, <1>8, RoleJobShape
    <2>2. \A u, r : job[h].user = u /\ job[h].role = r => Active(u, r) = job[h].rows
      BY <2>1 DEF GrantsInv
    <2> QED BY <1>6, <1>8, <2>2
  <1>9. CASE /\ job[h].op = "assign" /\ job[h].inserted
             /\ grants' = Append(grants, [user |-> job[h].user, role |-> job[h].role,
                                          state |-> "active"])
    <2>1. job[h] \in AssignJob /\ job[h].user \in Users /\ job[h].role \in RoleNames
      BY <1>1, <1>9, RoleJobShape
    <2>2. /\ Rows \subseteq Rows'
          /\ \A u, r : u # job[h].user \/ r # job[h].role => Active(u, r)' = Active(u, r)
      BY <1>1, <1>9, <2>1, ActiveAppended
    <2>3. Active(job[h].user, job[h].role) = {}
      BY <1>9, <2>1 DEF GrantsInv
    <2>4. ASSUME NEW g \in Admins \ {h}, NEW u, NEW r, job[g].user = u, job[g].role = r
          PROVE  /\ job[g] \in RevokeJob => Active(u, r)' = Active(u, r)
                 /\ job[g] \in AssignJob /\ job[g].inserted => Active(u, r)' = {}
      <3>1. job[g] \in RevokeJob => u # job[h].user \/ r # job[h].role
        BY <1>3, <2>3, <2>4
      <3>2. job[g] \in AssignJob /\ job[g].inserted => u # job[h].user \/ r # job[h].role
        BY <1>9, <2>1, <2>4 DEF GrantsInv
      <3> QED BY <1>4, <2>2, <2>4, <3>1, <3>2
    <2> QED BY <1>9, <2>2, <2>4
  <1> QED BY <1>1, <1>5, <1>7, <1>8, <1>9

LEMMA CommitTrail ==
    ASSUME IInv, GrantsInv, NEW h \in Admins, CommitRole(h), UNCHANGED catalogVars
    PROVE  RolesFollowTrail'
  <1>1. /\ IInv' /\ Len(log) \in Nat /\ Len(log') = Len(log) + 1
        /\ \A i \in 1 .. Len(log) : log'[i] = log[i]
        /\ log'[Len(log) + 1].body =
             [event |-> job[h].op, role |-> job[h].role, user |-> job[h].user]
    BY CommitRoleLinks
  <1>2. DOMAIN log = 1 .. Len(log) /\ DOMAIN log' = 1 .. Len(log')
    BY <1>1 DEF IInv, ChainInv
  <1>3. PICK b : b = [event |-> job[h].op, role |-> job[h].role, user |-> job[h].user]
    OBVIOUS
  <1>4. /\ log'[Len(log) + 1].body = b
        /\ b.event = job[h].op /\ b.user = job[h].user /\ b.role = job[h].role
    BY <1>1, <1>3
  <1>5. /\ job[h] \in RoleJob
        /\ job[h].op # "delete" => roles \subseteq roles'
        /\ job[h].op = "delete" => roles \ {job[h].role} \subseteq roles'
        /\ job[h].op = "create" /\ job[h].inserted => job[h].role \in roles'
    BY CommitRoleFacts DEF IInv
  <1>6. /\ job[h].op = "create" => job[h].inserted
        /\ job[h].op \in {"create", "delete"} => job[h].user = Nobody
        /\ job[h].op \in RoleOps
    BY <1>5, RoleJobShape DEF GrantsInv
  <1>7. ASSUME NEW r \in RoleNames, LastIs("create", Entries({"create", "delete"}, Nobody, r))'
        PROVE  r \in roles'
    <2>1. CASE b.event \in {"create", "delete"} /\ b.user = Nobody /\ b.role = r
      <3>1. b.event = "create"
        BY <1>1, <1>2, <1>4, <1>7, <2>1, LastEntry
      <3> QED BY <1>4, <1>5, <1>6, <2>1, <3>1
    <2>2. CASE ~ (b.event \in {"create", "delete"} /\ b.user = Nobody /\ b.role = r)
      <3>1. LastIs("create", Entries({"create", "delete"}, Nobody, r))
        BY <1>1, <1>2, <1>4, <1>7, <2>2, LastEntry
      <3>2. r \in roles
        BY <3>1 DEF GrantsInv, RolesFollowTrail
      <3> QED BY <1>4, <1>5, <1>6, <2>2, <3>2
    <2> QED BY <2>1, <2>2
  <1>8. ASSUME NEW u \in Users, NEW r \in RoleNames, Active(u, r)' # {}
        PROVE  LastIs("assign", Entries({"assign", "revoke"}, u, r))'
    <2>1. CASE b.event \in {"assign", "revoke"} /\ b.user = u /\ b.role = r
      <3>1. b.event # "revoke"
        <4> SUFFICES ASSUME b.event = "revoke" PROVE FALSE
          OBVIOUS
        <4>1. job[h].op = "revoke" /\ job[h].user = u /\ job[h].role = r
          BY <1>4, <2>1
        <4>2. Active(u, r)' = {}
          BY <4>1, CommitRows
        <4> QED BY <1>8, <4>2
      <3> QED BY <1>1, <1>2, <1>4, <2>1, <3>1, LastEntry
    <2>2. CASE ~ (b.event \in {"assign", "revoke"} /\ b.user = u /\ b.role = r)
      <3>1. Active(u, r) # {}
        <4>1. ~ (job[h].op = "assign" /\ job[h].user = u /\ job[h].role = r)
          BY <1>4, <2>2
        <4>2. Active(u, r)' \subseteq Active(u, r)
          BY <4>1, CommitRows
        <4> QED BY <1>8, <4>2
      <3>2. LastIs("assign", Entries({"assign", "revoke"}, u, r))
        BY <3>1 DEF GrantsInv, RolesFollowTrail
      <3> QED BY <1>1, <1>2, <1>4, <2>2, <3>2, LastEntry
    <2> QED BY <2>1, <2>2
  <1> QED BY <1>7, <1>8 DEF RolesFollowTrail

LEMMA CommitGrants ==
    ASSUME IInv, GrantsInv, NEW h \in Admins, CommitRole(h), UNCHANGED catalogVars
    PROVE  GrantsInv'
  <1>1. /\ RolesType /\ RolesType' /\ Alone(h) /\ job'[h] = NoJob
    BY CommitRoleFacts DEF IInv
  <1>2. /\ job'[h] \notin DeleteJob \cup CreateJob \cup AssignJob \cup RevokeJob
        /\ LockedOf(job'[h]) = {}
    BY <1>1, KindsApart DEF LockedOf
  <1>3. \A g \in Admins \ {h} : job'[g] = job[g]
    BY <1>1 DEF Alone
  <1>4. /\ \A g \in Admins : LockedRows(g) = LockedOf(job[g])
        /\ \A g \in Admins : LockedRows(g)' = LockedOf(job'[g])
    BY <1>1, LockedShape
  <1>5. \A g \in Admins : job'[g] \in CreateJob => job'[g].inserted
    BY <1>2, <1>3 DEF GrantsInv
  <1>6. \A g \in Admins : LockedRows(g)' \subseteq Rows'
    BY <1>2, <1>3, <1>4, CommitRows DEF GrantsInv
  <1>7. \A f, g \in Admins : f # g => LockedRows(f)' \cap LockedRows(g)' = {}
    BY <1>2, <1>3, <1>4 DEF GrantsInv
  <1>8. ASSUME NEW g \in Admins, job'[g] \in RevokeJob
        PROVE  job'[g].rows = Active(job[g].user, job[g].role)' /\ job'[g].rows # {}
    <2>1. PICK u, r : u = job'[g].user /\ r = job'[g].role
      OBVIOUS
    <2>2. g # h /\ job'[g] = job[g]
      BY <1>2, <1>3, <1>8
    <2>3. job'[g].rows = Active(u, r) /\ job'[g].rows # {}
      BY <1>8, <2>1, <2>2 DEF GrantsInv
    <2>4. Active(u, r)' = Active(u, r)
      BY <1>8, <2>1, <2>2, CommitRows
    <2> QED BY <2>1, <2>3, <2>4 DEF Active
  <1>9. ASSUME NEW g \in Admins, job'[g] \in AssignJob, job'[g].inserted
        PROVE  /\ Active(job[g].user, job[g].role)' = {}
               /\ \A f \in Admins \ {g} : job'[f] \in AssignJob /\ job'[f].inserted =>
                     job'[f].user # job'[g].user \/ job'[f].role # job'[g].role
    <2>1. PICK u, r : u = job'[g].user /\ r = job'[g].role
      OBVIOUS
    <2>2. g # h /\ job'[g] = job[g]
      BY <1>2, <1>3, <1>9
    <2>3. Active(u, r)' = {}
      BY <1>9, <2>1, <2>2, CommitRows
    <2>4. \A f \in Admins \ {g} : job'[f] \in AssignJob /\ job'[f].inserted =>
             job'[f].user # job'[g].user \/ job'[f].role # job'[g].role
      BY <1>2, <1>3, <1>9, <2>2 DEF GrantsInv
    <2> QED BY <2>1, <2>3, <2>4 DEF Active
  <1>10. RolesFollowTrail'
    BY CommitTrail
  <1> QED BY <1>5, <1>6, <1>7, <1>8, <1>9, <1>10 DEF GrantsInv

(* An override's entry is about no user and no role.                       *)
LEMMA OverrideGrants ==
    ASSUME IInv, GrantsInv, NEW w \in Workers, CommitStep(w), UNCHANGED rolesVars
    PROVE  GrantsInv'
  <1>1. /\ IInv' /\ Len(log) \in Nat
        /\ \/ UNCHANGED log
           \/ /\ Len(log') = Len(log) + 1
              /\ \A i \in 1 .. Len(log) : log'[i] = log[i]
              /\ log'[Len(log) + 1].body.event = "overridden"
    BY CommitStepLinks
  <1>2. DOMAIN log = 1 .. Len(log) /\ DOMAIN log' = 1 .. Len(log')
    BY <1>1 DEF IInv, ChainInv
  <1>3. \A e, u, r : \A E \in {{"create", "delete"}, {"assign", "revoke"}} :
           LastIs(e, Entries(E, u, r))' <=> LastIs(e, Entries(E, u, r))
    <2>1. CASE UNCHANGED log
      BY <2>1 DEF LastIs, Entries
    <2>2. CASE /\ Len(log') = Len(log) + 1
               /\ \A i \in 1 .. Len(log) : log'[i] = log[i]
               /\ log'[Len(log) + 1].body.event = "overridden"
      <3>1. PICK b : b = log'[Len(log) + 1].body
        OBVIOUS
      <3>2. \A E \in {{"create", "delete"}, {"assign", "revoke"}} : b.event \notin E
        BY <2>2, <3>1
      <3> QED BY <1>1, <1>2, <2>2, <3>1, <3>2, LastEntry
    <2> QED BY <1>1, <2>1, <2>2
  <1>4. UNCHANGED <<job, grants, roles>>
    BY DEF rolesVars
  <1>5. \A u, r : Active(u, r)' = Active(u, r)
    BY <1>4 DEF Active, Rows
  <1>6. RolesFollowTrail'
    BY <1>3, <1>4, <1>5 DEF GrantsInv, RolesFollowTrail
  <1> QED BY <1>4, <1>6 DEF GrantsInv, LockedRows, Holds, Rows, Active

LEMMA GrantsKeep ==
    ASSUME IInv, GrantsInv, [Next]_vars
    PROVE  GrantsInv'
  <1>1. ASSUME UNCHANGED <<job, grants, roles, log>>
        PROVE  GrantsInv'
    BY <1>1 DEF GrantsInv, RolesFollowTrail, LastIs, Entries, LockedRows, Holds, Rows, Active
  <1>2. ASSUME NEW h \in Admins, SealRole(h)
        PROVE  GrantsInv'
    <2>1. /\ RolesType' /\ Alone(h) /\ job[h] \in RoleJob /\ job'[h] \in RoleJob
          /\ SameRequest(job[h], job'[h]) /\ UNCHANGED <<roles, grants>>
      BY <1>2, SealRoleFacts DEF IInv
    <2>2. UNCHANGED log
      BY <1>2 DEF SealRole, WriteEntry
    <2> QED BY <2>1, <2>2, SameGrants
  <1>3. ASSUME NEW h \in Admins, FailRole(h), UNCHANGED catalogVars
        PROVE  GrantsInv'
    BY <1>3, FailRoleFacts, FailRoleLinks, EndedGrants DEF IInv
  <1>4. CASE RolesStep /\ UNCHANGED catalogVars
    BY <1>1, <1>2, <1>3, <1>4, InviteLinks, QuietStepGrants, CommitGrants DEF RolesStep
  <1>5. CASE CatalogStep /\ UNCHANGED rolesVars
    BY <1>1, <1>5, QuietWorkLinks, SealOverrideLinks, FailStepLinks, AroundLinks,
       OverrideGrants DEF CatalogStep, rolesVars
  <1>6. CASE UNCHANGED vars
    BY <1>1, <1>6 DEF vars, rolesVars, chainVars
  <1> QED BY <1>4, <1>5, <1>6, NextDivides

(* The rows of roles and assignments agree with the last entries about     *)
(* them, however requests about one role overlap and fail.                 *)
THEOREM TrailMatchesRows == Spec => []RolesFollowTrail
  <1>1. Init => GrantsInv
    <2> SUFFICES ASSUME Init PROVE GrantsInv
      OBVIOUS
    <2>1. PICK q \in Created : ChainBegun([event |-> "create", role |-> q, user |-> Nobody])
      BY DEF Init
    <2>2. PICK b : b = [event |-> "create", role |-> q, user |-> Nobody]
      OBVIOUS
    <2>3. b \in Bodies /\ b.event = "create" /\ b.role = q
      BY <2>2, RolesAssumption DEF Bodies, RoleOps
    <2>4. Len(log) = 1 /\ log[1].body = b /\ log \in Seq(ChainRow(Bodies))
      BY <2>1, <2>2, <2>3, RolesAssumption, BegunKeepsChain DEF ChainInv
    <2>5. /\ roles = Created /\ grants = <<>> /\ \A h \in Admins : job[h] = NoJob
      BY DEF Init, RolesInit
    <2>6. Rows = {} /\ \A u, r : Active(u, r) = {}
      BY <2>5 DEF Rows, Active
    <2>7. ASSUME NEW r \in RoleNames, LastIs("create", Entries({"create", "delete"}, Nobody, r))
          PROVE  r \in roles
      <3>1. PICK k \in DOMAIN log : log[k].body.role = r
        BY <2>7 DEF LastIs, Entries
      <3>2. k = 1
        BY <2>4, <3>1
      <3> QED BY <2>3, <2>4, <2>5, <3>1, <3>2
    <2>8. RolesFollowTrail
      BY <2>6, <2>7 DEF RolesFollowTrail
    <2>9. \A h \in Admins : /\ job[h] \notin CreateJob \cup AssignJob \cup RevokeJob
                            /\ LockedRows(h) = {}
      BY <2>5, KindsApart DEF LockedRows, Holds, NoJob
    <2> QED BY <2>6, <2>8, <2>9 DEF GrantsInv
  <1>2. IInv /\ GrantsInv /\ [Next]_vars => GrantsInv'
    BY GrantsKeep
  <1>3. GrantsInv => RolesFollowTrail
    BY DEF GrantsInv
  <1> QED BY <1>1, <1>2, <1>3, ServicesInvariant, PTL DEF Spec
=============================================================================
