------------------------------- MODULE Roles -------------------------------
(***************************************************************************)
(* Accounts and roles (package auth): registration, invitations, and the   *)
(* four role changes, each a transaction that ends with an entry of the    *)
(* audit hash chain. A transaction is a step for each statement that may   *)
(* have to wait for a row of another one, the sentinel lock, and the       *)
(* commit. What a step writes is visible to the others from the commit on. *)
(*                                                                         *)
(* The Casbin rules that the code updates on a connection of its own are   *)
(* left out: nothing here reads them.                                      *)
(***************************************************************************)
EXTENDS AuditChain, FiniteSets

CONSTANTS
    Admins,       \* requests the API server serves at the same time
    Users,        \* users that roles are given to
    RoleNames,
    Created,      \* the roles that were created before
    Emails,
    Invites,      \* invite tokens
    Invitee,      \* Invitee[i]: the email token i was made for
    NoInvite,     \* an account that registered by itself
    Nobody,       \* the user of an entry about a role
    MaxCalls      \* bound: requests

ASSUME RolesAssumption ==
    /\ Admins \subseteq Txs /\ NoTx \notin Txs
    /\ Invitee \in [Invites -> Emails] /\ NoInvite \notin Invites
    /\ Nobody \notin Users /\ Created \subseteq RoleNames
    /\ MaxCalls \in Nat

VARIABLES
    accounts,  \* the rows of "user", in the order of the commits
    invites,   \* invite_token: not sent, sent, accepted
    roles,     \* the rows of roles
    grants,    \* the rows of role_assignments, deleted ones included
    job,       \* the transaction of each request, with what it has read
    calls

rolesVars == <<accounts, invites, roles, grants, job, calls>>

Rows == 1 .. Len(grants)
Live(r)      == {k \in Rows : grants[k].role = r /\ grants[k].state # "deleted"}
Active(u, r) == {k \in Rows : /\ grants[k].user = u /\ grants[k].role = r
                              /\ grants[k].state = "active"}

NoJob == [at |-> "idle"]
RolesInit == /\ accounts = <<>>
             /\ invites = [i \in Invites |-> "none"]
             /\ roles = Created
             /\ grants = <<>>
             /\ job = [h \in Admins |-> NoJob]
             /\ calls = 0

Begin(h, request) == /\ job[h] = NoJob /\ calls < MaxCalls
                     /\ calls' = calls + 1
                     /\ job' = [job EXCEPT ![h] = request]
GoOn(h, label)    == job' = [job EXCEPT ![h].at = label] /\ UNCHANGED calls
Answer(h)         == job' = [job EXCEPT ![h] = NoJob] /\ UNCHANGED calls
NoWrite           == UNCHANGED <<accounts, invites, roles, grants>>

-----------------------------------------------------------------------------
(* Row locks                                                               *)

Holds(h, op) == job[h].at \in {"drop", "seal", "commit"} /\ job[h].op = op

(* Rows of role_assignments that a transaction has updated or deleted.     *)
LockedRows(h) == CASE Holds(h, "delete") -> job[h].rows
                   [] Holds(h, "revoke") -> job[h].rows
                   [] OTHER -> {}
RowsFree(rows) == \A h \in Admins : rows \cap LockedRows(h) = {}

EmailFree(e) == \A h \in Admins :
    ~ ((Holds(h, "register") \/ Holds(h, "accept")) /\ job[h].email = e)

(* The row of role r, when it is inserted or deleted.                      *)
Creating(r) == \E h \in Admins : Holds(h, "create") /\ job[h].role = r
Dropping(r) == \E h \in Admins : /\ Holds(h, "delete") /\ job[h].role = r
                                 /\ job[h].dropped
(* The foreign key of a new assignment locks the role it refers to.        *)
Referring(r) == \E h \in Admins : /\ Holds(h, "assign") /\ job[h].role = r
                                  /\ job[h].inserted
(* The place of an active assignment in role_assignments_active_unique.    *)
PlaceFree(u, r) ==
    /\ RowsFree(Active(u, r))
    /\ \A h \in Admins : ~ (/\ Holds(h, "assign") /\ job[h].inserted
                            /\ job[h].user = u /\ job[h].role = r)

-----------------------------------------------------------------------------
(* Register: the transaction counts the users first.                       *)
Register(h, e) ==
    /\ Begin(h, [op |-> "register", at |-> "account", email |-> e,
                 admin |-> accounts = <<>>, via |-> NoInvite])
    /\ NoWrite /\ UNCHANGED chainVars

(* Invite: one INSERT.                                                     *)
Invite(i) ==
    /\ invites[i] = "none" /\ calls < MaxCalls
    /\ invites' = [invites EXCEPT ![i] = "sent"]
    /\ calls' = calls + 1
    /\ UNCHANGED <<accounts, roles, grants, job, chainVars>>

(* AcceptInvite: the token is read, not locked.                            *)
AcceptInvite(h, i) ==
    /\ invites[i] = "sent"
    /\ Begin(h, [op |-> "accept", at |-> "account", email |-> Invitee[i],
                 admin |-> FALSE, via |-> i])
    /\ NoWrite /\ UNCHANGED chainVars

(* The INSERT of the account, which the unique email may reject, and the   *)
(* UPDATE of the token.                                                    *)
InsertAccount(h) ==
    /\ job[h].at = "account"
    /\ EmailFree(job[h].email)
    /\ IF \E k \in DOMAIN accounts : accounts[k].email = job[h].email
       THEN Answer(h)
       ELSE GoOn(h, "commit")
    /\ NoWrite /\ UNCHANGED chainVars

AccountOnly(h) == UNCHANGED invites
MarkAccepted(h) == invites' = IF job[h].op = "accept"
                              THEN [invites EXCEPT ![job[h].via] = "accepted"]
                              ELSE invites

CommitAccount(h) ==
    /\ job[h].at = "commit" /\ job[h].op \in {"register", "accept"}
    /\ accounts' = Append(accounts, [email |-> job[h].email, via |-> job[h].via,
                                     admin |-> job[h].admin])
    /\ MarkAccepted(h)
    /\ Answer(h)
    /\ UNCHANGED <<roles, grants, chainVars>>

-----------------------------------------------------------------------------

(* CreateRole: INSERT ... ON CONFLICT DO NOTHING. When the role exists the *)
(* transaction commits at once, without an entry.                          *)
CreateRole(h, r) ==
    /\ ~ Creating(r) /\ ~ Dropping(r)
    /\ r \notin roles
    /\ Begin(h, [op |-> "create", at |-> "seal", role |-> r, user |-> Nobody,
                 inserted |-> r \notin roles])
    /\ NoWrite /\ UNCHANGED chainVars

(* DeleteRole: the DELETE of the assignments that are visible.             *)
DeleteRole(h, r) ==
    /\ RowsFree(Live(r))
    /\ Begin(h, [op |-> "delete", at |-> "drop", role |-> r, user |-> Nobody,
                 rows |-> Live(r), dropped |-> FALSE])
    /\ NoWrite /\ UNCHANGED chainVars

(* The DELETE of the role. A role that another transaction is creating is  *)
(* not seen; one that is referred to by then is kept by its foreign key,   *)
(* and the request fails.                                                  *)
DropRole(h) ==
    /\ job[h].at = "drop"
    /\ LET r == job[h].role
       IN \/ /\ r \notin roles
             /\ GoOn(h, "seal")
          \/ /\ r \in roles /\ ~ Dropping(r) /\ ~ Referring(r)
             /\ IF Live(r) \subseteq job[h].rows
                THEN /\ job' = [job EXCEPT ![h].at = "seal", ![h].dropped = TRUE]
                     /\ UNCHANGED calls
                ELSE Answer(h)
    /\ NoWrite /\ UNCHANGED chainVars

(* AssignRole: INSERT ... ON CONFLICT DO NOTHING. With or without a new    *)
(* row, an entry is written.                                               *)
AssignRole(h, u, r) ==
    /\ PlaceFree(u, r)
    /\ Active(u, r) = {} => r \in roles /\ ~ Dropping(r)
    /\ Begin(h, [op |-> "assign", at |-> "seal", role |-> r, user |-> u,
                 inserted |-> Active(u, r) = {}])
    /\ NoWrite /\ UNCHANGED chainVars

(* RevokeRole: the UPDATE of the active row, without which it fails.       *)
RevokeUnchecked(h, u, r) ==
    /\ RowsFree(Active(u, r))
    /\ Begin(h, [op |-> "revoke", at |-> "seal", role |-> r, user |-> u,
                 rows |-> Active(u, r)])
    /\ NoWrite /\ UNCHANGED chainVars

RevokeRole(h, u, r) ==
    /\ RowsFree(Active(u, r))
    /\ Active(u, r) # {}
    /\ Begin(h, [op |-> "revoke", at |-> "seal", role |-> r, user |-> u,
                 rows |-> Active(u, r)])
    /\ NoWrite /\ UNCHANGED chainVars

(* audit.WriteEntry                                                        *)
SealRole(h) ==
    /\ job[h].at = "seal"
    /\ WriteEntry(h, [event |-> job[h].op, role |-> job[h].role, user |-> job[h].user])
    /\ GoOn(h, "commit")
    /\ NoWrite

Rewritten(rows, state) ==
    [k \in Rows |-> IF k \in rows THEN [grants[k] EXCEPT !.state = state] ELSE grants[k]]

CommitRole(h) ==
    /\ job[h].at = "commit" /\ job[h].op \in {"create", "delete", "assign", "revoke"}
    /\ roles' = CASE job[h].op = "create" /\ job[h].inserted -> roles \cup {job[h].role}
                  [] job[h].op = "delete" /\ job[h].dropped -> roles \ {job[h].role}
                  [] OTHER -> roles
    /\ grants' = CASE job[h].op = "delete" -> Rewritten(job[h].rows, "deleted")
                   [] job[h].op = "revoke" -> Rewritten(job[h].rows, "revoked")
                   [] job[h].op = "assign" /\ job[h].inserted ->
                        Append(grants, [user |-> job[h].user, role |-> job[h].role,
                                        state |-> "active"])
                   [] OTHER -> grants
    /\ PublishEntry(h)
    /\ Answer(h)
    /\ UNCHANGED <<accounts, invites>>

(* A statement or the commit fails: ROLLBACK.                              *)
FailRole(h) ==
    /\ job[h].at = "commit"
    /\ DiscardEntry(h)
    /\ Answer(h)
    /\ NoWrite

-----------------------------------------------------------------------------
RolesProceed(h) == InsertAccount(h) \/ CommitAccount(h) \/ DropRole(h)
                   \/ SealRole(h) \/ CommitRole(h)

RolesNext ==
    \/ \E i \in Invites : Invite(i)
    \/ \E h \in Admins :
          \/ \E e \in Emails : Register(h, e)
          \/ \E i \in Invites : AcceptInvite(h, i)
          \/ \E r \in RoleNames : CreateRole(h, r) \/ DeleteRole(h, r)
          \/ \E u \in Users, r \in RoleNames : AssignRole(h, u, r) \/ RevokeRole(h, u, r)
          \/ RolesProceed(h) \/ FailRole(h)

-----------------------------------------------------------------------------

Entries(events, u, r) ==
    {k \in DOMAIN log : /\ log[k].body.event \in events
                        /\ log[k].body.user = u /\ log[k].body.role = r}
LastIs(event, ks) == \E k \in ks : log[k].body.event = event /\ \A j \in ks : j <= k

(* Rows and audit trail agree, however requests about one role overlap. A  *)
(* role whose last entry is its creation exists: no-op calls of CreateRole *)
(* do not bring it back on paper (auth/service.go, WR-10). An active       *)
(* assignment is one that was given and not taken back since. (The         *)
(* converses do not hold: see DropRole, and AssignRole audits also when it *)
(* changes nothing.)                                                       *)
RolesFollowTrail ==
    \A r \in RoleNames :
        /\ LastIs("create", Entries({"create", "delete"}, Nobody, r)) => r \in roles
        /\ \A u \in Users : Active(u, r) # {} =>
              LastIs("assign", Entries({"assign", "revoke"}, u, r))

(* "Single-use invite token": a token was marked as accepted exactly when  *)
(* one account was made with it, although no lock is taken on its row.     *)
InviteSpentOnce ==
    \A i \in Invites : Cardinality({k \in DOMAIN accounts : accounts[k].via = i}) =
                       IF invites[i] = "accepted" THEN 1 ELSE 0
=============================================================================
