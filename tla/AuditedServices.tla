--------------------------- MODULE AuditedServices ---------------------------
(***************************************************************************)
(* Role changes of the API server and step commits of the workers, which   *)
(* share the one sentinel row of the audit chain: whoever has written an   *)
(* entry keeps every other writer of the platform waiting until its        *)
(* transaction ends, and already holds the rows it has touched.            *)
(***************************************************************************)
EXTENDS Roles, Catalog

CONSTANT MaxWork   \* bound: requests, and commits of steps, which count twice

ASSUME ServicesAssumption ==
    /\ Created # {} /\ MaxWork \in Nat
    /\ Admins \cap Workers = {}  \* processes with connections of their own

vars == <<chainVars, rolesVars, catalogVars>>

(* One role has been created, which is all the audit trail tells of yet.   *)
Init == /\ \E r \in Created : ChainBegun([event |-> "create", role |-> r, user |-> Nobody])
        /\ RolesInit /\ CatalogInit

Next == \/ RolesNext /\ UNCHANGED catalogVars /\ calls' + 2 * steps <= MaxWork
        \/ CatalogNext /\ UNCHANGED rolesVars /\ calls + 2 * steps' <= MaxWork

Spec == Init /\ [][Next]_vars

(* A transaction that has begun goes on; the database queues those that    *)
(* wait for a lock, so that each has its turn.                             *)
Fairness ==
    /\ \A h \in Admins : SF_vars(RolesProceed(h) /\ UNCHANGED catalogVars)
    /\ \A w \in Workers : SF_vars(StepProceed(w) /\ UNCHANGED rolesVars)

FairSpec == Spec /\ Fairness

-----------------------------------------------------------------------------

(* Every role request and every commit of a step comes to an end: rows are *)
(* locked before the sentinel among them, and whoever holds the sentinel   *)
(* lets go of it, whatever fails. (Decisions on reviews, which share a row *)
(* with the steps, are not among them.)                                    *)
EveryTransactionEnds ==
    /\ \A h \in Admins : job[h].at # "idle" ~> job[h].at = "idle"
    /\ \A w \in Workers : step[w].at # "idle" ~> step[w].at = "idle"
=============================================================================
