----------------------------- MODULE TokenPool -----------------------------
(***************************************************************************)
(* concurrency.Pool statement by statement. Acquire runs a transaction:    *)
(* it takes an advisory lock on the tag, reads SUM(weight) of the tag's    *)
(* committed rows, gives up if the weight does not fit, and otherwise      *)
(* inserts its row and commits, which frees the lock. Release, ReleaseAll  *)
(* and ReleaseStale are single DELETEs that take no lock and may land      *)
(* between the read and the commit of an Acquire.                          *)
(***************************************************************************)
EXTENDS Integers, FiniteSets

CONSTANTS Runs, Tags, Units, Capacity,
          Clients,      \* connections on which Acquire transactions run
          NoClient,     \* the owner of a free lock
          Weights       \* the weights callers ask for

ASSUME PoolAssumption ==
    /\ Capacity \in [Tags -> Nat]
    /\ Weights \subseteq Int
    /\ NoClient \notin Clients
    /\ IsFiniteSet(Units)
    /\ Runs # {} /\ Tags # {} /\ Weights # {}

VARIABLES tokens,       \* the committed rows of concurrency_tokens
          old,          \* the units whose acquired_at is before the stale cutoff
          lock,         \* lock[t]: the connection that holds the advisory lock
          cpc,          \* control state of each Acquire transaction
          req           \* its arguments: run, tag and effective weight

vars == <<tokens, old, lock, cpc, req>>

Abstract == INSTANCE AtomicPool
                WITH Runs <- Runs, Tags <- Tags, Units <- Units,
                     Capacity <- Capacity, tokens <- tokens

Used(t) == Cardinality({k \in tokens : k.tag = t})
FreeUnits(t) == Units \ {k.unit : k \in {l \in tokens : l.tag = t}}
Row(r, t, S) == {[run |-> r, tag |-> t, unit |-> u] : u \in S}

(* The units an INSERT of weight n stands for.                             *)
PickUnits(t, n) == CHOOSE S \in SUBSET FreeUnits(t) : Cardinality(S) = n

Requests == [run : Runs, tag : Tags, weight : Nat \ {0}]

(* A non-positive weight counts as one.                                    *)
NormWeight(n) == IF n <= 0 THEN 1 ELSE n

LockIgnored(t) == TRUE
LockFree(t)    == lock[t] = NoClient

Init == /\ tokens = {} /\ old = {}
        /\ lock = [t \in Tags |-> NoClient]
        /\ cpc = [c \in Clients |-> "idle"]
        /\ \E r \in Runs, t \in Tags :
             req = [c \in Clients |-> [run |-> r, tag |-> t, weight |-> 1]]

(* Acquire(run, tag, weight) is called and begins its transaction.         *)
Begin(c, r, t, n) ==
    /\ cpc[c] = "idle"
    /\ req' = [req EXCEPT ![c] =
                 [run |-> r, tag |-> t, weight |-> NormWeight(n)]]
    /\ cpc' = [cpc EXCEPT ![c] = "begun"]
    /\ UNCHANGED <<tokens, old, lock>>

(* pg_advisory_xact_lock blocks until the lock of the tag is free.         *)
TakeLock(c) ==
    /\ cpc[c] = "begun"
    /\ LockFree(req[c].tag)
    /\ lock' = [lock EXCEPT ![req[c].tag] = c]
    /\ cpc' = [cpc EXCEPT ![c] = "locked"]
    /\ UNCHANGED <<tokens, old, req>>

EndKeepingLock(c) == /\ cpc' = [cpc EXCEPT ![c] = "idle"]
                     /\ UNCHANGED lock

(* The transaction ends; its advisory lock, if it has one, is freed.       *)
End(c) == /\ cpc' = [cpc EXCEPT ![c] = "idle"]
          /\ lock' = [lock EXCEPT ![req[c].tag] =
                        IF @ = c THEN NoClient ELSE @]

(* SELECT SUM(weight): enough headroom.                                    *)
CheckFits(c) ==
    /\ cpc[c] = "locked"
    /\ Used(req[c].tag) + req[c].weight <= Capacity[req[c].tag]
    /\ cpc' = [cpc EXCEPT ![c] = "checked"]
    /\ UNCHANGED <<tokens, old, lock, req>>

(* ErrCapacity, and the deferred rollback.                                 *)
CheckFull(c) ==
    /\ cpc[c] = "locked"
    /\ Used(req[c].tag) + req[c].weight > Capacity[req[c].tag]
    /\ End(c)
    /\ UNCHANGED <<tokens, old, req>>

(* INSERT and COMMIT: the row becomes visible and the lock is freed.       *)
InsertCommit(c) ==
    LET t == req[c].tag
        S == PickUnits(t, req[c].weight)
    IN /\ cpc[c] = "checked"
       /\ S \in {U \in SUBSET FreeUnits(t) : Cardinality(U) = req[c].weight}
       /\ tokens' = tokens \cup Row(req[c].run, t, S)
       /\ End(c)
       /\ UNCHANGED <<old, req>>

(* A statement fails or the connection is lost: the transaction is rolled  *)
(* back.                                                                   *)
Abort(c) ==
    /\ cpc[c] # "idle"
    /\ End(c)
    /\ UNCHANGED <<tokens, old, req>>

Delete(gone) == /\ tokens' = tokens \ gone
                /\ old' = old \ gone
                /\ UNCHANGED <<lock, cpc, req>>

Release(r, t)  == Delete({k \in tokens : k.run = r /\ k.tag = t})
ReleaseAll(r)  == Delete({k \in tokens : k.run = r})
ReleaseStale   == Delete(old)

(* Time passes for one unit.                                               *)
Age(k) == /\ old' = old \cup {k}
          /\ UNCHANGED <<tokens, lock, cpc, req>>

Next == \/ \E c \in Clients :
             \/ \E r \in Runs, t \in Tags, n \in Weights : Begin(c, r, t, n)
             \/ TakeLock(c) \/ CheckFits(c) \/ CheckFull(c)
             \/ InsertCommit(c) \/ Abort(c)
        \/ \E r \in Runs : ReleaseAll(r) \/ \E t \in Tags : Release(r, t)
        \/ ReleaseStale
        \/ \E k \in tokens : Age(k)

Spec == Init /\ [][Next]_vars

(* Every Acquire that has begun runs its statements; a waiter gets a lock  *)
(* that is free again and again (PostgreSQL queues lock waiters).          *)
Fairness == \A c \in Clients : /\ SF_vars(TakeLock(c))
                               /\ WF_vars(CheckFits(c) \/ CheckFull(c))
                               /\ WF_vars(InsertCommit(c))

FairSpec == Spec /\ Fairness

-----------------------------------------------------------------------------
TypeOK ==
    /\ tokens \subseteq [run : Runs, tag : Tags, unit : Units]
    /\ old \subseteq tokens
    /\ lock \in [Tags -> Clients \cup {NoClient}]
    /\ cpc \in [Clients -> {"idle", "begun", "locked", "checked"}]
    /\ req \in [Clients -> Requests]

(* The sum a client has read is still an upper bound when it inserts:      *)
(* unlocked DELETEs can only lower it.                                     *)
CheckStillHolds ==
    \A c \in Clients :
        cpc[c] = "checked" =>
            Used(req[c].tag) + req[c].weight <= Capacity[req[c].tag]

(* No tag is ever overcommitted.                                           *)
CapacityRespected == \A t \in Tags : Used(t) <= Capacity[t]

(* The statement sequence implements the indivisible pool.                 *)
ImplementsAtomicPool == Abstract!Spec

(* No Acquire waits forever: the locks of several tags are never nested,   *)
(* so no set of callers can wait for each other.                           *)
AcquireAnswers == \A c \in Clients : cpc[c] # "idle" ~> cpc[c] = "idle"
=============================================================================
