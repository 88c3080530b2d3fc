---------------------------- MODULE LibraryProofs ----------------------------
(***************************************************************************)
(* Proofs about the packages that every process links and calls, for all   *)
(* values of the constants: the token pool (no tag is overcommitted, and   *)
(* the locked transaction implements the indivisible pool) and the         *)
(* algorithms (partition keys, execution plans, retry delays, schema       *)
(* comparison), each under a specification of its own.                     *)
(***************************************************************************)
EXTENDS TokenPool, PartitionKeys, Dag, Backoff, SchemaDiff,
        FiniteSetTheorems, SequenceTheorems, WellFoundedInduction, TLAPS

-----------------------------------------------------------------------------
(* The token pool                                                          *)

(* The units of tag t among the rows T.                                    *)
OfTag(T, t) == {k \in T : k.tag = t}

(* A client past the lock statement owns the lock of its tag, so at most   *)
(* one Acquire per tag is between its read and its commit.                 *)
LockHeld == \A c \in Clients :
                /\ cpc[c] \in {"locked", "checked"} => lock[req[c].tag] = c
                /\ \A t \in Tags : lock[t] = c =>
                     req[c].tag = t /\ cpc[c] \in {"locked", "checked"}

(* The inductive invariant: besides the capacity itself, that a client     *)
(* that has passed its check still fits, that it holds the lock (so no     *)
(* second client can pass the same check), and that the table is finite.   *)
IInv == /\ TypeOK
        /\ IsFiniteSet(tokens)
        /\ LockHeld
        /\ CheckStillHolds
        /\ CapacityRespected

(* A DELETE lowers the use of every tag, or leaves it.                     *)
LEMMA DeleteLowers ==
    ASSUME NEW T, IsFiniteSet(T), NEW G, NEW t
    PROVE  /\ IsFiniteSet(T \ G)
           /\ Cardinality(OfTag(T, t)) \in Nat
           /\ Cardinality(OfTag(T \ G, t)) \in Nat
           /\ Cardinality(OfTag(T \ G, t)) <= Cardinality(OfTag(T, t))
  <1>1. OfTag(T, t) \subseteq T /\ OfTag(T \ G, t) \subseteq OfTag(T, t)
    BY DEF OfTag
  <1>2. IsFiniteSet(T \ G) /\ IsFiniteSet(OfTag(T, t))
    BY <1>1, FS_Subset
  <1>3. /\ IsFiniteSet(OfTag(T \ G, t))
        /\ Cardinality(OfTag(T \ G, t)) <= Cardinality(OfTag(T, t))
    BY <1>1, <1>2, FS_Subset
  <1> QED BY <1>2, <1>3, FS_CardinalityType

LEMMA UsedIsOfTag == \A t : Used(t) = Cardinality(OfTag(tokens, t))
  BY DEF Used, OfTag

(* An INSERT of the row (r, t, S) adds at most its weight to the use of    *)
(* its own tag and nothing to another.                                     *)
LEMMA InsertAdds ==
    ASSUME IsFiniteSet(tokens), NEW r, NEW t, NEW S, IsFiniteSet(S),
           tokens' = tokens \cup Row(r, t, S)
    PROVE  /\ IsFiniteSet(tokens')
           /\ \A u : Used(u) \in Nat /\ Used(u)' \in Nat
           /\ Used(t)' <= Used(t) + Cardinality(S)
           /\ \A u : u # t => Used(u)' = Used(u)
  <1> DEFINE R == Row(r, t, S)
             f == [v \in S |-> [run |-> r, tag |-> t, unit |-> v]]
  <1>1. f \in Surjection(S, R)
    BY DEF Surjection, Row
  <1>2. IsFiniteSet(R) /\ Cardinality(R) <= Cardinality(S)
    <2> HIDE DEF f, R
    <2> QED BY <1>1, FS_Surjection
  <1>3. Cardinality(R) \in Nat /\ Cardinality(S) \in Nat
    BY <1>2, FS_CardinalityType
  <1>4. IsFiniteSet(tokens \cup R)
    BY <1>2, FS_Union
  <1>5. ASSUME NEW x
        PROVE  /\ IsFiniteSet(OfTag(tokens, x)) /\ Cardinality(OfTag(tokens, x)) \in Nat
               /\ Cardinality(OfTag(tokens \cup R, x)) \in Nat
    <2>1. OfTag(tokens, x) \subseteq tokens /\ OfTag(tokens \cup R, x) \subseteq tokens \cup R
      BY DEF OfTag
    <2>2. IsFiniteSet(OfTag(tokens, x)) /\ IsFiniteSet(OfTag(tokens \cup R, x))
      BY <2>1, <1>4, FS_Subset
    <2> QED BY <2>2, FS_CardinalityType
  <1>6. OfTag(tokens \cup R, t) = OfTag(tokens, t) \cup R
    BY DEF OfTag, Row
  <1>7. Cardinality(OfTag(tokens, t) \cap R) \in Nat
    <2>1. OfTag(tokens, t) \cap R \subseteq R
      OBVIOUS
    <2>2. IsFiniteSet(OfTag(tokens, t) \cap R)
      BY <2>1, <1>2, FS_Subset
    <2> QED BY <2>2, FS_CardinalityType
  <1>8. Cardinality(OfTag(tokens, t) \cup R)
          = Cardinality(OfTag(tokens, t)) + Cardinality(R) - Cardinality(OfTag(tokens, t) \cap R)
    BY <1>2, <1>5, FS_Union
  <1>9. Cardinality(OfTag(tokens \cup R, t)) <= Cardinality(OfTag(tokens, t)) + Cardinality(S)
    <2>1. Cardinality(OfTag(tokens, t)) \in Nat
      BY <1>5
    <2>2. Cardinality(OfTag(tokens \cup R, t))
            = Cardinality(OfTag(tokens, t)) + Cardinality(R) - Cardinality(OfTag(tokens, t) \cap R)
      BY <1>6, <1>8
    <2> HIDE DEF R, f
    <2> QED BY <2>1, <2>2, <1>2, <1>3, <1>7
  <1>10. \A u : u # t => OfTag(tokens \cup R, u) = OfTag(tokens, u)
    BY DEF OfTag, Row
  <1>11. /\ \A u : Used(u)' = Cardinality(OfTag(tokens \cup R, u))
         /\ \A u : Used(u) = Cardinality(OfTag(tokens, u))
    BY DEF Used, OfTag
  <1> QED
    <2> HIDE DEF R, f
    <2>1. IsFiniteSet(tokens')
      BY <1>4 DEF R
    <2>2. \A u : Used(u) \in Nat /\ Used(u)' \in Nat
      BY <1>5, <1>11
    <2>3. Used(t)' <= Used(t) + Cardinality(S)
      BY <1>9, <1>11
    <2>4. \A u : u # t => Used(u)' = Used(u)
      BY <1>10, <1>11
    <2> QED BY <2>1, <2>2, <2>3, <2>4

(* The checks that have passed stay valid when the use of a tag falls, and *)
(* no other client can have passed a check on a tag somebody has locked.   *)
LEMMA LockExcludes ==
    ASSUME LockHeld, NEW c \in Clients, NEW d \in Clients, c # d,
           cpc[c] \in {"locked", "checked"}, cpc[d] \in {"locked", "checked"}
    PROVE  req[c].tag # req[d].tag
  BY DEF LockHeld

LEMMA InitIInv == Init => IInv
  <1> SUFFICES ASSUME Init PROVE IInv
    OBVIOUS
  <1> USE PoolAssumption
  <1>1. TypeOK
    BY DEF Init, TypeOK, Requests
  <1>2. IsFiniteSet(tokens)
    BY FS_EmptySet DEF Init
  <1>3. LockHeld /\ CheckStillHolds
    BY DEF Init, LockHeld, CheckStillHolds
  <1>4. CapacityRespected
    <2>1. \A t \in Tags : {k \in tokens : k.tag = t} = {}
      BY DEF Init
    <2> QED BY <2>1, FS_EmptySet DEF CapacityRespected, Used
  <1> QED BY <1>1, <1>2, <1>3, <1>4 DEF IInv

(* Every step of Next keeps the inductive invariant.                       *)
LEMMA NextIInv == IInv /\ [Next]_vars => IInv'
  <1> SUFFICES ASSUME IInv, [Next]_vars PROVE IInv'
    OBVIOUS
  <1> USE PoolAssumption DEF IInv, Requests
  <1>1. ASSUME NEW c \in Clients, NEW r \in Runs, NEW t \in Tags,
               NEW n \in Weights, Begin(c, r, t, n)
        PROVE  IInv'
    <2>1. TypeOK'
      BY <1>1 DEF Begin, NormWeight, TypeOK
    <2>2. LockHeld' /\ CheckStillHolds'
      BY <1>1 DEF Begin, TypeOK, LockHeld, CheckStillHolds, Used
    <2>3. CapacityRespected' /\ IsFiniteSet(tokens')
      BY <1>1 DEF Begin, CapacityRespected, Used
    <2> QED BY <2>1, <2>2, <2>3
  <1>2. ASSUME NEW c \in Clients, TakeLock(c)
        PROVE  IInv'
    <2>1. TypeOK'
      BY <1>2 DEF TakeLock, TypeOK
    <2>2. LockHeld' /\ CheckStillHolds'
      BY <1>2 DEF TakeLock, LockFree, TypeOK, LockHeld, CheckStillHolds, Used
    <2>3. CapacityRespected' /\ IsFiniteSet(tokens')
      BY <1>2 DEF TakeLock, CapacityRespected, Used
    <2> QED BY <2>1, <2>2, <2>3
  <1>3. ASSUME NEW c \in Clients, CheckFits(c)
        PROVE  IInv'
    <2>1. TypeOK'
      BY <1>3 DEF CheckFits, TypeOK
    <2>2. LockHeld'
      BY <1>3 DEF CheckFits, TypeOK, LockHeld
    <2>4. \A t : Used(t)' = Used(t)
      BY <1>3 DEF CheckFits, Used
    <2>5. CheckStillHolds'
      BY <1>3, <2>4 DEF CheckFits, TypeOK, CheckStillHolds
    <2>3. CapacityRespected' /\ IsFiniteSet(tokens')
      BY <1>3 DEF CheckFits, CapacityRespected, Used
    <2> QED BY <2>1, <2>2, <2>3, <2>5
  <1>4. ASSUME NEW c \in Clients, End(c), UNCHANGED <<tokens, old, req>>
        PROVE  IInv'
    <2>1. TypeOK'
      BY <1>4 DEF End, TypeOK
    <2>2. LockHeld' /\ CheckStillHolds'
      BY <1>4 DEF End, TypeOK, LockHeld, CheckStillHolds, Used
    <2>3. CapacityRespected' /\ IsFiniteSet(tokens')
      BY <1>4 DEF CapacityRespected, Used
    <2> QED BY <2>1, <2>2, <2>3
  <1>5. ASSUME NEW c \in Clients, InsertCommit(c)
        PROVE  IInv'
    <2>0. PICK r \in Runs, t \in Tags, n \in Nat, S \in SUBSET Units :
            /\ req[c] = [run |-> r, tag |-> t, weight |-> n]
            /\ cpc[c] = "checked" /\ Cardinality(S) = n
            /\ tokens' = tokens \cup Row(r, t, S)
            /\ End(c) /\ UNCHANGED <<old, req>>
      <3> DEFINE S == PickUnits(req[c].tag, req[c].weight)
      <3>1. /\ cpc[c] = "checked" /\ S \in SUBSET Units /\ Cardinality(S) = req[c].weight
            /\ tokens' = tokens \cup Row(req[c].run, req[c].tag, S)
            /\ End(c) /\ UNCHANGED <<old, req>>
        BY <1>5 DEF InsertCommit, FreeUnits
      <3>2. req[c] \in Requests
        BY DEF TypeOK
      <3> HIDE DEF S
      <3> QED BY <3>1, <3>2
    <2>1. req[c].run = r /\ req[c].tag = t /\ req[c].weight = n
      BY <2>0
    <2>2. IsFiniteSet(tokens) /\ IsFiniteSet(S)
      BY FS_Subset
    <2>3. IsFiniteSet(tokens')
      BY <2>0, <2>2, InsertAdds
    <2>4. /\ \A u : Used(u) \in Nat /\ Used(u)' \in Nat
          /\ Used(t)' <= Used(t) + n
          /\ \A u : u # t => Used(u)' = Used(u)
      BY <2>0, <2>2, InsertAdds
    <2>5. TypeOK'
      <3>1. Row(r, t, S) \subseteq [run : Runs, tag : Tags, unit : Units]
        BY DEF Row
      <3> QED BY <3>1, <2>0 DEF TypeOK, End
    <2>6. LockHeld'
      BY <2>0, <2>1 DEF End, TypeOK, LockHeld
    <2>7. CapacityRespected'
      <3> SUFFICES ASSUME NEW u \in Tags PROVE Used(u)' <= Capacity[u]
        BY DEF CapacityRespected
      <3>1. CASE u = t
        BY <3>1, <2>0, <2>1, <2>4 DEF CheckStillHolds
      <3>2. CASE u # t
        BY <3>2, <2>4 DEF CapacityRespected
      <3> QED BY <3>1, <3>2
    <2>8. CheckStillHolds'
      <3> SUFFICES ASSUME NEW d \in Clients, cpc'[d] = "checked"
                   PROVE  Used(req[d].tag)' + req[d].weight <= Capacity[req[d].tag]
        BY <2>0 DEF CheckStillHolds
      <3>1. d # c /\ cpc[d] = "checked"
        BY <2>0 DEF End, TypeOK
      <3>2. req[d].tag # t
        BY <3>1, <2>0, <2>1, LockExcludes
      <3>3. Used(req[d].tag)' = Used(req[d].tag)
        BY <3>2, <2>0, <2>4
      <3> QED BY <3>1, <3>3 DEF CheckStillHolds
    <2> QED BY <2>3, <2>5, <2>6, <2>7, <2>8
  <1>6. ASSUME NEW gone, Delete(gone)
        PROVE  IInv'
    <2>1. IsFiniteSet(tokens')
      BY <1>6, DeleteLowers DEF Delete
    <2>2. \A t : /\ Used(t) \in Nat /\ Used(t)' \in Nat /\ Used(t)' <= Used(t)
      <3>1. \A t : Used(t)' = Cardinality(OfTag(tokens \ gone, t))
        BY <1>6 DEF Delete, Used, OfTag
      <3> QED BY <3>1, DeleteLowers, UsedIsOfTag
    <2>3. TypeOK' /\ LockHeld'
      BY <1>6 DEF Delete, TypeOK, LockHeld
    <2>4. CapacityRespected'
      <3> SUFFICES ASSUME NEW t \in Tags PROVE Used(t)' <= Capacity[t]
        BY DEF CapacityRespected
      <3> QED BY <2>2 DEF CapacityRespected
    <2>5. CheckStillHolds'
      <3> SUFFICES ASSUME NEW d \in Clients, cpc[d] = "checked"
                   PROVE  Used(req[d].tag)' + req[d].weight <= Capacity[req[d].tag]
        BY <1>6 DEF CheckStillHolds, Delete
      <3>1. req[d].tag \in Tags /\ req[d].weight \in Nat
        BY DEF TypeOK
      <3>2. Used(req[d].tag) + req[d].weight <= Capacity[req[d].tag]
        BY DEF CheckStillHolds
      <3>3. /\ Used(req[d].tag)' <= Used(req[d].tag)
            /\ Used(req[d].tag) \in Nat /\ Used(req[d].tag)' \in Nat
        BY <2>2, <1>6 DEF Delete
      <3>4. Capacity[req[d].tag] \in Nat
        BY <3>1
      <3> QED BY <3>1, <3>2, <3>3, <3>4
    <2> QED BY <2>1, <2>3, <2>4, <2>5
  <1>7. ASSUME NEW k \in tokens, Age(k)
        PROVE  IInv'
    <2>1. TypeOK' /\ LockHeld' /\ IsFiniteSet(tokens')
      BY <1>7 DEF Age, TypeOK, LockHeld
    <2>2. CheckStillHolds' /\ CapacityRespected'
      BY <1>7 DEF Age, CheckStillHolds, CapacityRespected, Used
    <2> QED BY <2>1, <2>2
  <1>8. CASE UNCHANGED vars
    <2>1. TypeOK' /\ LockHeld' /\ IsFiniteSet(tokens')
      BY <1>8 DEF vars, TypeOK, LockHeld
    <2>2. CheckStillHolds' /\ CapacityRespected'
      BY <1>8 DEF vars, CheckStillHolds, CapacityRespected, Used
    <2> QED BY <2>1, <2>2
  <1> QED
    BY <1>1, <1>2, <1>3, <1>4, <1>5, <1>6, <1>7, <1>8
       DEF Next, CheckFull, Abort, Release, ReleaseAll, ReleaseStale

(* The inductive invariant holds of every behaviour of the pool.           *)
THEOREM PoolInvariant == Spec => []IInv
  BY InitIInv, NextIInv, PTL DEF Spec

(* No sequence of Acquire, Release, ReleaseAll and ReleaseStale calls      *)
(* overcommits a tag, for any limits and weights: Acquire's advisory lock  *)
(* keeps the sum it read an upper bound until it commits.                  *)
THEOREM PoolCapacity == Spec => []CapacityRespected
  BY PoolInvariant, PTL DEF IInv

(* The sum an Acquire has read stays an upper bound until it inserts:      *)
(* whatever DELETEs land in between, its weight still fits.                *)
THEOREM PoolCheckStillHolds == Spec => []CheckStillHolds
  BY PoolInvariant, PTL DEF IInv

(* The advisory locks of several tags are never nested: who waits for one  *)
(* holds none, and nobody is between checkouts with one. So callers that   *)
(* ask for their tags in different orders cannot wait for each other.      *)
THEOREM PoolLocksDoNotNest ==
    Spec => [](\A c \in Clients : cpc[c] \in {"idle", "begun"} => \A t \in Tags : lock[t] # c)
  <1> DEFINE NoNesting == \A c \in Clients :
                            cpc[c] \in {"idle", "begun"} => \A t \in Tags : lock[t] # c
  <1>1. IInv => NoNesting
    BY DEF IInv, LockHeld
  <1>2. Spec => []NoNesting
    BY <1>1, PoolInvariant, PTL
  <1> QED BY <1>2

-----------------------------------------------------------------------------
(* Refinement                                                              *)

(* The instance brings its own copy of the counting operators.            *)
LEMMA AbstractDefs ==
    /\ \A S : Abstract!Cardinality(S) = Cardinality(S)
    /\ \A S : Abstract!IsFiniteSet(S) = IsFiniteSet(S)
    /\ \A t : Abstract!Used(t) = Used(t)
    /\ \A t : Abstract!FreeUnits(t) = FreeUnits(t)
    /\ \A r, t, S : Abstract!Row(r, t, S) = Row(r, t, S)
  <1>1. \A S : Abstract!Cardinality(S) = Cardinality(S)
    BY DEF Abstract!Cardinality, Cardinality
  <1>2. \A S : Abstract!IsFiniteSet(S) = IsFiniteSet(S)
    BY DEF Abstract!IsFiniteSet, IsFiniteSet
  <1>3. \A t : Abstract!Used(t) = Used(t)
    BY <1>1 DEF Abstract!Used, Used
  <1>4. \A t : Abstract!FreeUnits(t) = FreeUnits(t)
    BY DEF Abstract!FreeUnits, FreeUnits
  <1>5. \A r, t, S : Abstract!Row(r, t, S) = Row(r, t, S)
    BY DEF Abstract!Row, Row
  <1> QED BY <1>1, <1>2, <1>3, <1>4, <1>5

(* Each statement of the transaction is a step of the indivisible pool or  *)
(* leaves the committed rows alone.                                        *)
LEMMA StepRefines == IInv /\ [Next]_vars => [Abstract!Next]_tokens
  <1> SUFFICES ASSUME IInv, [Next]_vars PROVE [Abstract!Next]_tokens
    OBVIOUS
  <1>1. ASSUME NEW c \in Clients, InsertCommit(c)
        PROVE  Abstract!Next
    <2> DEFINE t == req[c].tag
               S == PickUnits(t, req[c].weight)
    <2>1. /\ cpc[c] = "checked" /\ t \in Tags /\ req[c].run \in Runs
          /\ S \subseteq FreeUnits(t) /\ S \in SUBSET Units
          /\ Cardinality(S) = req[c].weight
          /\ tokens' = tokens \cup Row(req[c].run, t, S)
      BY <1>1 DEF InsertCommit, IInv, TypeOK, FreeUnits, Requests
    <2>2. Used(t) + req[c].weight <= Capacity[t]
      BY <2>1 DEF IInv, CheckStillHolds
    <2> HIDE DEF S, t
    <2>3. IsFiniteSet(S)
      BY <2>1, PoolAssumption, FS_Subset
    <2>4. Abstract!Acquire(req[c].run, t, S)
      BY <2>1, <2>2, <2>3, AbstractDefs DEF Abstract!Acquire
    <2> QED BY <2>1, <2>4 DEF Abstract!Next
  <1>2. ASSUME NEW gone, Delete(gone)
        PROVE  Abstract!Next
    <2>1. tokens' = tokens \ (gone \cap tokens)
      BY <1>2 DEF Delete
    <2>2. gone \cap tokens \in SUBSET tokens
      OBVIOUS
    <2> QED BY <2>1, <2>2 DEF Abstract!Next, Abstract!GiveBack
  <1>3. CASE UNCHANGED tokens
    BY <1>3
  <1> QED
    BY <1>1, <1>2, <1>3 DEF Next, Begin, TakeLock, CheckFits, CheckFull, Abort,
       Age, Release, ReleaseAll, ReleaseStale, vars

(* The statement sequence implements the indivisible pool: the run engine  *)
(* may treat Acquire as one step.                                          *)
THEOREM PoolRefines == Spec => ImplementsAtomicPool
  <1>1. Init => Abstract!Init
    BY DEF Init, Abstract!Init
  <1> QED
    BY <1>1, StepRefines, PoolInvariant, PTL
       DEF Spec, Abstract!Spec, ImplementsAtomicPool

-----------------------------------------------------------------------------
(* Induction                                                               *)

LEMMA LeastNatural ==
    ASSUME NEW T, T \subseteq Nat, T # {}
    PROVE  \E x \in T : \A y \in T : x <= y
  <1> DEFINE R == OpToRel(<, Nat)
  <1>1. IsWellFoundedOn(R, Nat)
    BY NatLessThanWellFounded
  <1>2. \A x, y \in Nat : <<y, x>> \in R <=> y < x
    BY DEF OpToRel
  <1> HIDE DEF R
  <1>3. PICK x \in T : \A y \in T : ~ (<<y, x>> \in R)
    BY <1>1, WFMin
  <1>4. x \in Nat /\ \A y \in T : y \in Nat /\ ~ (y < x)
    BY <1>2, <1>3, Zenon
  <1>5. \A y \in T : x <= y
    BY <1>4
  <1> QED BY <1>3, <1>5

(* Induction over the natural numbers, for a set instead of a predicate.   *)
LEMMA NatSetInduction ==
    ASSUME NEW S, 0 \in S, \A n \in Nat : n \in S => n + 1 \in S
    PROVE  Nat \subseteq S
  <1> SUFFICES ASSUME Nat \ S # {} PROVE FALSE
    OBVIOUS
  <1>1. PICK x \in Nat \ S : \A y \in Nat \ S : x <= y
    BY LeastNatural
  <1>2. x - 1 \in Nat /\ x - 1 < x /\ (x - 1) + 1 = x
    BY <1>1
  <1>3. x - 1 \in S
    BY <1>1, <1>2
  <1> QED BY <1>1, <1>2, <1>3

-----------------------------------------------------------------------------
(* Partition keys                                                          *)

(* The leap days before the first day of month i.                          *)
LeapDays(i) == {z \in FirstYear .. MonthOf(i)[1] :
                  Leap(z) /\ (z < MonthOf(i)[1] \/ MonthOf(i)[2] > 2)}

LEMMA StartOfMonth ==
    ASSUME NEW i
    PROVE  MonthStart(i) = 365 * (MonthOf(i)[1] - FirstYear)
                           + DaysBefore[MonthOf(i)[2]] + Cardinality(LeapDays(i))
  BY DEF MonthStart, LeapDays

LEMMA MonthStartType ==
    ASSUME NEW i \in Nat
    PROVE  /\ MonthStart(i) = 365 * (i \div 12) + DaysBefore[(i % 12) + 1] + Cardinality(LeapDays(i))
           /\ i \div 12 \in Nat /\ i % 12 \in 0 .. 11 /\ i = (12 * (i \div 12)) + (i % 12)
           /\ DaysBefore[(i % 12) + 1] \in Nat
           /\ IsFiniteSet(LeapDays(i)) /\ Cardinality(LeapDays(i)) \in Nat
           /\ MonthStart(i) \in Nat
  <1>1. i \div 12 \in Nat /\ i % 12 \in 0 .. 11 /\ i = (12 * (i \div 12)) + (i % 12)
    OBVIOUS
  <1>2. DaysBefore[(i % 12) + 1] \in Nat
    <2>1. \A m \in 1 .. 12 : DaysBefore[m] \in Nat
      BY DEF DaysBefore
    <2> QED BY <1>1, <2>1
  <1>3. IsFiniteSet(FirstYear .. MonthOf(i)[1])
    BY <1>1, KeysAssumption, FS_Interval DEF MonthOf
  <1>4. IsFiniteSet(LeapDays(i)) /\ Cardinality(LeapDays(i)) \in Nat
    BY <1>3, FS_Subset, FS_CardinalityType DEF LeapDays
  <1>5. MonthStart(i) = 365 * (i \div 12) + DaysBefore[(i % 12) + 1] + Cardinality(LeapDays(i))
    <2>1. MonthOf(i)[1] = FirstYear + (i \div 12) /\ MonthOf(i)[2] = (i % 12) + 1
      BY DEF MonthOf
    <2>2. MonthOf(i)[1] - FirstYear = i \div 12
      BY <1>1, <2>1, KeysAssumption
    <2> QED BY <2>1, <2>2, StartOfMonth
  <1> QED BY <1>1, <1>2, <1>4, <1>5

LEMMA MonthStartNat == \A i \in Nat : MonthStart(i) \in Nat
  BY MonthStartType

LEMMA FirstMonth == MonthStart(0) = 0
  <1>1. MonthOf(0)[1] = FirstYear /\ MonthOf(0)[2] = 1
    BY KeysAssumption DEF MonthOf
  <1>2. LeapDays(0) = {}
    BY <1>1, KeysAssumption DEF LeapDays
  <1>3. DaysBefore[1] = 0
    BY DEF DaysBefore
  <1>4. MonthStart(0) = 365 * (FirstYear - FirstYear) + 0 + 0
    BY <1>1, <1>2, <1>3, StartOfMonth, FS_EmptySet
  <1> QED BY <1>4, KeysAssumption

(* A month has 28 to 31 days.                                              *)
LEMMA MonthLength ==
    ASSUME NEW i \in Nat
    PROVE  MonthStart(i) + 28 <= MonthStart(i + 1) /\ MonthStart(i + 1) <= MonthStart(i) + 31
  <1> DEFINE y == FirstYear + (i \div 12)
             d == i % 12
             L == Cardinality(LeapDays(i))
  <1>1. /\ i + 1 \in Nat /\ d \in 0 .. 11 /\ y \in Nat
        /\ MonthOf(i)[1] = y /\ MonthOf(i)[2] = d + 1
    BY KeysAssumption DEF MonthOf
  <1>2. /\ MonthStart(i) = 365 * (y - FirstYear) + DaysBefore[d + 1] + L
        /\ L \in Nat /\ IsFiniteSet(LeapDays(i))
    BY <1>1, StartOfMonth, MonthStartType
  <1>3. FirstYear \in Nat
    BY KeysAssumption
  <1>4. CASE d = 11
    <2>1. MonthOf(i + 1)[1] = y + 1 /\ MonthOf(i + 1)[2] = 1
      <3>1. (i + 1) % 12 = 0 /\ (i + 1) \div 12 = (i \div 12) + 1
        BY <1>4
      <3> QED BY <1>1, <1>3, <3>1 DEF MonthOf
    <2> HIDE DEF y, d, L
    <2>2. LeapDays(i + 1) = LeapDays(i)
      <3>1. ASSUME NEW z \in Int PROVE z \in FirstYear .. y + 1 /\ z < y + 1 <=> z \in FirstYear .. y
        BY <1>1, <1>3
      <3> QED BY <1>1, <1>3, <1>4, <2>1, <3>1 DEF LeapDays
    <2>3. MonthStart(i + 1) = 365 * ((y + 1) - FirstYear) + DaysBefore[1] + L
      BY <2>1, <2>2, StartOfMonth DEF L
    <2>4. DaysBefore[12] = 334 /\ DaysBefore[1] = 0
      BY DEF DaysBefore
    <2>5. MonthStart(i) = 365 * (y - FirstYear) + 334 + L
      BY <1>2, <1>4, <2>4
    <2>6. MonthStart(i + 1) = 365 * ((y + 1) - FirstYear) + 0 + L
      BY <2>3, <2>4
    <2> QED BY <1>1, <1>2, <1>3, <2>5, <2>6
  <1>5. CASE d # 11
    <2>1. MonthOf(i + 1)[1] = y /\ MonthOf(i + 1)[2] = d + 2
      <3>1. (i + 1) % 12 = d + 1 /\ (i + 1) \div 12 = i \div 12
        BY <1>5
      <3> QED BY <1>1, <1>3, <3>1 DEF MonthOf
    <2> HIDE DEF y, d
    <2>2. MonthStart(i + 1) = 365 * (y - FirstYear) + DaysBefore[d + 2] + Cardinality(LeapDays(i + 1))
      BY <2>1, StartOfMonth
    <2>3. CASE d # 1
      <3>1. LeapDays(i + 1) = LeapDays(i)
        <4>1. d + 1 > 2 <=> d + 2 > 2
          BY <1>1, <2>3
        <4> QED BY <1>1, <2>1, <4>1 DEF LeapDays
      <3>2. \A m \in 1 .. 11 : m # 2 => /\ DaysBefore[m] \in Nat
                                        /\ DaysBefore[m + 1] - DaysBefore[m] \in 30 .. 31
                                        /\ DaysBefore[m + 1] \in Nat
        BY DEF DaysBefore
      <3>3. d + 1 \in 1 .. 11 /\ d + 1 # 2 /\ (d + 1) + 1 = d + 2
        BY <1>1, <1>5, <2>3
      <3>4. /\ DaysBefore[d + 1] \in Nat /\ DaysBefore[d + 2] \in Nat
            /\ DaysBefore[d + 2] - DaysBefore[d + 1] \in 30 .. 31
        BY <3>2, <3>3
      <3>5. MonthStart(i + 1) = 365 * (y - FirstYear) + DaysBefore[d + 2] + L
        BY <2>2, <3>1
      <3> HIDE DEF L
      <3> QED BY <1>1, <1>2, <1>3, <3>4, <3>5
    <2>4. CASE d = 1
      <3>1. LeapDays(i + 1) = IF Leap(y) THEN LeapDays(i) \cup {y} ELSE LeapDays(i)
        <4>1. LeapDays(i) = {z \in FirstYear .. y : Leap(z) /\ z < y}
          BY <1>1, <2>4 DEF LeapDays
        <4>2. LeapDays(i + 1) = {z \in FirstYear .. y : Leap(z)}
          BY <2>1, <2>4 DEF LeapDays
        <4>3. y \in FirstYear .. y /\ \A z \in FirstYear .. y : z < y \/ z = y
          <5>1. y >= FirstYear
            BY <1>3, MonthStartType DEF y
          <5> QED BY <1>1, <1>3, <5>1
        <4> QED BY <4>1, <4>2, <4>3
      <3>2. Cardinality(LeapDays(i + 1)) \in L .. L + 1
        <4>1. Cardinality(LeapDays(i) \cup {y}) \in {L, L + 1}
          BY <1>2, FS_AddElement
        <4> HIDE DEF L
        <4>2. L \in L .. L + 1 /\ L + 1 \in L .. L + 1
          BY <1>2
        <4> QED BY <3>1, <4>1, <4>2 DEF L
      <3>3. DaysBefore[3] = 59 /\ DaysBefore[2] = 31
        BY DEF DaysBefore
      <3>4. MonthStart(i) = 365 * (y - FirstYear) + 31 + L
        BY <1>2, <2>4, <3>3
      <3>5. MonthStart(i + 1) = 365 * (y - FirstYear) + 59 + Cardinality(LeapDays(i + 1))
        BY <2>2, <2>4, <3>3
      <3> HIDE DEF L
      <3> QED BY <1>1, <1>2, <1>3, <3>2, <3>4, <3>5
    <2> QED BY <2>3, <2>4
  <1> QED BY <1>4, <1>5

(* Month i begins 28 to 31 days per month after day 0.                     *)
LEMMA MonthBounds ==
    ASSUME NEW i \in Nat
    PROVE  28 * i <= MonthStart(i) /\ MonthStart(i) <= 31 * i
  <1> DEFINE S == {j \in Nat : 28 * j <= MonthStart(j) /\ MonthStart(j) <= 31 * j}
  <1>1. 0 \in S
    BY FirstMonth
  <1>2. ASSUME NEW j \in Nat, j \in S PROVE j + 1 \in S
    BY <1>2, MonthLength, MonthStartNat
  <1>3. Nat \subseteq S
    <2> HIDE DEF S
    <2> QED BY <1>1, <1>2, NatSetInduction
  <1> QED BY <1>3

LEMMA MonthsAscend ==
    ASSUME NEW i \in Nat, NEW j \in Nat, i <= j
    PROVE  MonthStart(i) <= MonthStart(j)
  <1> DEFINE S == {d \in Nat : MonthStart(i) <= MonthStart(i + d)}
  <1>1. 0 \in S
    BY MonthStartNat
  <1>2. ASSUME NEW d \in Nat, d \in S PROVE d + 1 \in S
    <2>1. MonthStart(i + d) + 28 <= MonthStart((i + d) + 1) /\ (i + d) + 1 = i + (d + 1)
      BY MonthLength
    <2> QED BY <1>2, <2>1, MonthStartNat
  <1>3. Nat \subseteq S
    <2> HIDE DEF S
    <2> QED BY <1>1, <1>2, NatSetInduction
  <1>4. j - i \in Nat /\ i + (j - i) = j
    OBVIOUS
  <1> QED BY <1>3, <1>4

(* The month of a day: it exists, and no other month holds the day.        *)
LEMMA MonthOfDay ==
    ASSUME NEW n \in Nat
    PROVE  /\ MonthAt(n) \in Nat
           /\ MonthStart(MonthAt(n)) <= n /\ n < MonthStart(MonthAt(n) + 1)
  <1> DEFINE Tried == ((n \div 31) - 1) .. (n \div 28)
             T == {i \in Nat : n < MonthStart(i + 1)}
  <1>1. \E i \in Tried : MonthStart(i) <= n /\ n < MonthStart(i + 1)
    <2>1. n \in T
      BY MonthBounds, MonthStartNat
    <2>2. PICK i \in T : \A k \in T : i <= k
      BY <2>1, LeastNatural
    <2>3. MonthStart(i) <= n
      <3>1. CASE i = 0
        BY <3>1, FirstMonth
      <3>2. CASE i # 0
        <4>1. i - 1 \in Nat /\ i - 1 \notin T /\ (i - 1) + 1 = i
          BY <2>2, <3>2
        <4> QED BY <4>1, MonthStartNat
      <3> QED BY <3>1, <3>2
    <2>4. i \in Nat /\ 28 * i <= n /\ n < 31 * (i + 1)
      BY <2>2, <2>3, MonthBounds, MonthStartNat
    <2>5. i \in Tried
      BY <2>4
    <2> QED BY <2>2, <2>3, <2>5
  <1>2. MonthAt(n) \in Tried /\ MonthStart(MonthAt(n)) <= n /\ n < MonthStart(MonthAt(n) + 1)
    BY <1>1 DEF MonthAt
  <1>3. MonthAt(n) \in Int /\ MonthAt(n) >= -1
    BY <1>2
  <1>4. MonthAt(n) # -1
    BY <1>2, FirstMonth
  <1> QED BY <1>2, <1>3, <1>4

LEMMA OnlyMonthOfDay ==
    ASSUME NEW n \in Nat, NEW i \in Nat, MonthStart(i) <= n, n < MonthStart(i + 1)
    PROVE  MonthAt(n) = i
  <1>1. CASE MonthAt(n) < i
    <2>1. MonthAt(n) + 1 <= i /\ MonthAt(n) + 1 \in Nat
      BY <1>1, MonthOfDay
    <2> QED BY <2>1, MonthsAscend, MonthStartNat, MonthOfDay
  <1>2. CASE MonthAt(n) > i
    <2>1. i + 1 <= MonthAt(n) /\ i + 1 \in Nat
      BY <1>2, MonthOfDay
    <2> QED BY <2>1, MonthsAscend, MonthStartNat, MonthOfDay
  <1> QED BY <1>1, <1>2, MonthOfDay

LEMMA FirstDayOfMonth ==
    ASSUME NEW i \in Nat
    PROVE  MonthStart(i) \in Nat /\ MonthAt(MonthStart(i)) = i /\ DayOfMonth(MonthStart(i)) = 1
  <1>1. MonthStart(i) \in Nat /\ MonthStart(i) < MonthStart(i + 1)
    BY MonthLength, MonthStartNat
  <1>2. MonthAt(MonthStart(i)) = i
    BY <1>1, OnlyMonthOfDay
  <1> QED BY <1>1, <1>2 DEF DayOfMonth

LEMMA MonthAtAscends ==
    ASSUME NEW n \in Nat, NEW k \in Nat, n <= k
    PROVE  MonthAt(n) <= MonthAt(k)
  <1> SUFFICES ASSUME MonthAt(k) + 1 <= MonthAt(n) PROVE FALSE
    BY MonthOfDay
  <1>1. MonthAt(k) + 1 \in Nat /\ MonthAt(n) \in Nat
    BY MonthOfDay
  <1> QED BY <1>1, MonthsAscend, MonthStartNat, MonthOfDay

-----------------------------------------------------------------------------
(* The months of a range.                                                  *)
LEMMA MonthlyKeysAre ==
    ASSUME NEW s \in Nat, NEW e \in Nat, s <= e
    PROVE  /\ MonthAt(s) \in Nat /\ MonthAt(e) \in Nat /\ MonthAt(s) <= MonthAt(e)
           /\ MonthlyKeys(s, e) =
                [i \in 1 .. (MonthAt(e) - MonthAt(s)) + 1 |-> MonthOf(MonthAt(s) + i - 1)]
  <1> DEFINE a == MonthAt(s)
             b == MonthAt(e)
  <1>1. a \in Nat /\ b \in Nat /\ a <= b
    BY MonthOfDay, MonthAtAscends
  <1> HIDE DEF a, b
  <1>2. MonthAt(MonthStart(a)) = a /\ MonthAt(MonthStart(b)) = b /\ DayOfMonth(MonthStart(a)) = 1
    BY <1>1, FirstDayOfMonth
  <1>3. Iterations(a, b, 1) = (b - a) + 1
    BY <1>1 DEF Iterations
  <1>4. ASSUME NEW i \in 1 .. (b - a) + 1
        PROVE  MonthlyKey(AddMonths(MonthStart(a), i - 1)) = MonthOf(a + i - 1)
    <2>1. a + (i - 1) \in Nat /\ a + (i - 1) = a + i - 1
      BY <1>1
    <2>2. MonthStart(a + (i - 1)) \in Nat /\ MonthAt(MonthStart(a + (i - 1))) = a + (i - 1)
      BY <2>1, FirstDayOfMonth
    <2>3. AddMonths(MonthStart(a), i - 1) = MonthStart(a + (i - 1))
      BY <1>2, <2>2 DEF AddMonths
    <2> QED BY <2>1, <2>2, <2>3 DEF MonthlyKey
  <1>5. MonthlyKeys(s, e) = [i \in 1 .. (b - a) + 1 |-> MonthlyKey(AddMonths(MonthStart(a), i - 1))]
    BY <1>2, <1>3 DEF MonthlyKeys, a, b
  <1>6. MonthlyKeys(s, e) = [i \in 1 .. (b - a) + 1 |-> MonthOf(a + i - 1)]
    BY <1>4, <1>5, Zenon
  <1> QED BY <1>1, <1>6 DEF a, b

LEMMA MonthlyCovers ==
    ASSUME start \in Nat, end \in Nat, start <= end
    PROVE  Covers(MonthlyKeys(start, end), MonthlyKey)
  <1> DEFINE keys == MonthlyKeys(start, end)
             a == MonthAt(start)
             b == MonthAt(end)
  <1>1. a \in Nat /\ b \in Nat /\ a <= b
        /\ keys = [i \in 1 .. (b - a) + 1 |-> MonthOf(a + i - 1)]
    BY MonthlyKeysAre
  <1>2. ASSUME NEW n \in start .. end PROVE \E i \in DOMAIN keys : keys[i] = MonthlyKey(n)
    <2>1. n \in Nat /\ start <= n /\ n <= end
      OBVIOUS
    <2>2. MonthAt(n) \in Nat /\ a <= MonthAt(n) /\ MonthAt(n) <= b
      BY <2>1, MonthOfDay, MonthAtAscends
    <2> DEFINE i == (MonthAt(n) - a) + 1
    <2> HIDE DEF a, b, keys
    <2>3. i \in 1 .. (b - a) + 1 /\ a + i - 1 = MonthAt(n)
      BY <1>1, <2>2
    <2> HIDE DEF i
    <2> QED BY <1>1, <2>3 DEF MonthlyKey
  <1>3. ASSUME NEW i \in DOMAIN keys PROVE \E n \in start .. end : keys[i] = MonthlyKey(n)
    <2> DEFINE m == a + i - 1
               n == IF MonthStart(m) < start THEN start ELSE MonthStart(m)
    <2>1. i \in 1 .. (b - a) + 1 /\ keys[i] = MonthOf(m)
      <3> HIDE DEF a, b, keys
      <3> QED BY <1>1
    <2>2. m \in Nat /\ a <= m /\ m <= b /\ m + 1 \in Nat /\ a + 1 \in Nat
      <3> HIDE DEF a, b
      <3> QED BY <1>1, <2>1
    <2>3. /\ MonthStart(m) \in Nat /\ MonthStart(b) \in Nat /\ MonthStart(m) <= MonthStart(b)
          /\ MonthStart(m) < MonthStart(m + 1) /\ MonthStart(m + 1) \in Nat
      <3> HIDE DEF a, b, m
      <3>1. MonthStart(m) \in Nat /\ MonthStart(b) \in Nat /\ MonthStart(m + 1) \in Nat
        BY <1>1, <2>2, MonthStartNat
      <3>2. MonthStart(m) <= MonthStart(b)
        BY <1>1, <2>2, MonthsAscend
      <3>3. MonthStart(m) + 28 <= MonthStart(m + 1)
        BY <2>2, MonthLength
      <3> QED BY <3>1, <3>2, <3>3
    <2>4. MonthStart(b) <= end /\ start < MonthStart(a + 1)
      BY MonthOfDay
    <2>5. MonthStart(a + 1) <= MonthStart(m + 1) /\ MonthStart(a + 1) \in Nat
      <3> HIDE DEF a, m
      <3>1. a \in Nat /\ a + 1 <= m + 1
        BY <1>1, <2>2
      <3> QED BY <2>2, <3>1, MonthStartNat, MonthsAscend
    <2> HIDE DEF a, b, m
    <2>6. n \in start .. end /\ MonthStart(m) <= n /\ n < MonthStart(m + 1)
      BY <2>3, <2>4, <2>5
    <2> HIDE DEF n
    <2>7. MonthAt(n) = m
      BY <2>2, <2>6, OnlyMonthOfDay
    <2> QED BY <2>1, <2>6, <2>7 DEF MonthlyKey
  <1> HIDE DEF keys
  <1>4. {keys[i] : i \in DOMAIN keys} = {MonthlyKey(n) : n \in start .. end}
    BY <1>2, <1>3
  <1> QED BY <1>4 DEF Covers, keys

LEMMA MonthlyAscends ==
    ASSUME start \in Nat, end \in Nat, start <= end
    PROVE  Ascending(MonthlyKeys(start, end), Before)
  <1> DEFINE keys == MonthlyKeys(start, end)
             a == MonthAt(start)
             b == MonthAt(end)
  <1>1. a \in Nat /\ b \in Nat /\ a <= b
        /\ keys = [i \in 1 .. (b - a) + 1 |-> MonthOf(a + i - 1)]
    BY MonthlyKeysAre
  <1> HIDE DEF keys, a, b
  <1>2. Len(keys) = (b - a) + 1
    BY <1>1
  <1>3. ASSUME NEW i \in 1 .. Len(keys) - 1 PROVE Before(keys[i], keys[i + 1])
    <2> DEFINE m == a + i - 1
    <2>1. keys[i] = MonthOf(m) /\ keys[i + 1] = MonthOf(m + 1) /\ m \in Nat
      <3>1. i \in 1 .. (b - a) + 1 /\ i + 1 \in 1 .. (b - a) + 1 /\ a + (i + 1) - 1 = m + 1
        BY <1>1, <1>2
      <3> QED BY <1>1, <3>1
    <2> HIDE DEF m
    <2>2. m \div 12 \in Nat /\ m % 12 \in 0 .. 11
      BY <2>1
    <2>3. \/ (m + 1) % 12 = (m % 12) + 1 /\ (m + 1) \div 12 = m \div 12
          \/ (m + 1) \div 12 = (m \div 12) + 1
      BY <2>1
    <2> QED BY <2>1, <2>2, <2>3, KeysAssumption DEF Before, MonthOf
  <1> QED BY <1>3 DEF Ascending, keys

-----------------------------------------------------------------------------
(* The weeks of a range. The key of a day is the key of its Thursday.      *)
ThursdayKey(t) ==
    LET year == MonthOf(MonthAt(t))[1]
    IN <<year, ((t - MonthStart(MonthIndex(year, 1))) \div 7) + 1>>

LEMMA WeeklyKeyIs ==
    ASSUME NEW n
    PROVE  WeeklyKey(n) = ThursdayKey(n - (n % 7) + 3)
  BY DEF WeeklyKey, ThursdayKey, Weekday

LEMMA WeekStartIs ==
    ASSUME NEW n \in Nat
    PROVE  isoWeekStart(n) = n - (n % 7) /\ isoWeekStart(n) \in Nat
  BY DEF isoWeekStart, GoWeekday, Weekday

LEMMA WeekBeforeIs ==
    ASSUME NEW n \in Nat
    PROVE  PrecedingWeekKey(n) = WeeklyKey(isoWeekStart(n) - 1)
  <1>1. (n - 7) - ((n - 7) % 7) + 3 = (n - (n % 7) - 1) - ((n - (n % 7) - 1) % 7) + 3
    OBVIOUS
  <1> QED BY <1>1, WeekStartIs, WeeklyKeyIs DEF PrecedingWeekKey

LEMMA WeeklyKeysAre ==
    ASSUME NEW s \in Nat, NEW e \in Nat, s <= e
    PROVE  LET w == s - (s % 7)
               k == ((e - w) \div 7) + 1
           IN  /\ w \in Nat /\ k \in Nat /\ k >= 1
               /\ WeeklyKeys(s, e) = [i \in 1 .. k |-> ThursdayKey(w + 7 * (i - 1) + 3)]
  <1> DEFINE w == s - (s % 7)
             k == ((e - w) \div 7) + 1
  <1>1. w \in Nat /\ k \in Nat /\ k >= 1 /\ w % 7 = 0 /\ isoWeekStart(s) = w
    BY WeekStartIs
  <1> HIDE DEF w
  <1>2. Iterations(w, e, 7) = k
    BY DEF Iterations
  <1> HIDE DEF k
  <1>3. ASSUME NEW i \in 1 .. k PROVE WeeklyKey(w + 7 * (i - 1)) = ThursdayKey(w + 7 * (i - 1) + 3)
    <2> DEFINE n == w + 7 * (i - 1)
    <2>1. n \in Nat /\ n % 7 = 0
      BY <1>1
    <2> HIDE DEF n
    <2>2. n - (n % 7) + 3 = n + 3
      BY <2>1
    <2>3. WeeklyKey(n) = ThursdayKey(n + 3)
      BY <2>2, WeeklyKeyIs
    <2> QED BY <2>3 DEF n
  <1>4. WeeklyKeys(s, e) = [i \in 1 .. k |-> WeeklyKey(w + 7 * (i - 1))]
    BY <1>1, <1>2 DEF WeeklyKeys
  <1>5. WeeklyKeys(s, e) = [i \in 1 .. k |-> ThursdayKey(w + 7 * (i - 1) + 3)]
    BY <1>3, <1>4, Zenon
  <1> QED BY <1>1, <1>5 DEF w, k

LEMMA WeeklyCovers ==
    ASSUME start \in Nat, end \in Nat, start <= end
    PROVE  Covers(WeeklyKeys(start, end), WeeklyKey)
  <1> DEFINE keys == WeeklyKeys(start, end)
             w == start - (start % 7)
             k == ((end - w) \div 7) + 1
  <1>1. w \in Nat /\ k \in Nat /\ k >= 1
        /\ keys = [i \in 1 .. k |-> ThursdayKey(w + 7 * (i - 1) + 3)]
    BY WeeklyKeysAre
  <1>2. w <= start /\ start < w + 7 /\ w % 7 = 0
    OBVIOUS
  <1> HIDE DEF keys, w
  <1>3. ASSUME NEW n \in start .. end PROVE \E i \in DOMAIN keys : keys[i] = WeeklyKey(n)
    <2> DEFINE i == ((n - w) \div 7) + 1
    <2>1. i \in 1 .. k /\ w + 7 * (i - 1) + 3 = n - (n % 7) + 3
      BY <1>1, <1>2
    <2> HIDE DEF i, k
    <2> QED BY <1>1, <2>1, WeeklyKeyIs
  <1>4. ASSUME NEW i \in DOMAIN keys PROVE \E n \in start .. end : keys[i] = WeeklyKey(n)
    <2> DEFINE m == w + 7 * (i - 1)
               n == IF i = 1 THEN start ELSE m
    <2>1. i \in 1 .. k /\ keys[i] = ThursdayKey(m + 3)
      <3> HIDE DEF k
      <3> QED BY <1>1
    <2>2. n \in start .. end /\ n - (n % 7) + 3 = m + 3
      BY <1>1, <1>2, <2>1
    <2> HIDE DEF n, m
    <2> QED BY <2>1, <2>2, WeeklyKeyIs
  <1>5. {keys[i] : i \in DOMAIN keys} = {WeeklyKey(n) : n \in start .. end}
    BY <1>3, <1>4
  <1> QED BY <1>5 DEF Covers, keys

LEMMA ThursdaysAscend ==
    ASSUME NEW t \in Nat
    PROVE  Before(ThursdayKey(t), ThursdayKey(t + 7))
  <1> DEFINE year(n) == FirstYear + (MonthAt(n) \div 12)
             newYear(y) == MonthStart(MonthIndex(y, 1))
  <1>1. /\ MonthAt(t) \in Nat /\ MonthAt(t + 7) \in Nat /\ MonthAt(t) <= MonthAt(t + 7)
    BY MonthOfDay, MonthAtAscends
  <1>2. year(t) \in Nat /\ year(t + 7) \in Nat /\ year(t) <= year(t + 7)
    BY <1>1, KeysAssumption
  <1>3. newYear(year(t)) \in Nat
    <2>1. MonthIndex(year(t), 1) \in Nat
      BY <1>1, KeysAssumption DEF MonthIndex
    <2> QED BY <2>1, MonthStartNat
  <1>4. \A n : ThursdayKey(n) = <<year(n), ((n - newYear(year(n))) \div 7) + 1>>
    BY DEF ThursdayKey, MonthOf
  <1> HIDE DEF year, newYear
  <1>5. CASE year(t) < year(t + 7)
    BY <1>4, <1>5 DEF Before
  <1>6. CASE year(t) = year(t + 7)
    <2> DEFINE f == newYear(year(t))
    <2>1. f \in Nat
      BY <1>3
    <2>2. ThursdayKey(t)[2] = ((t - f) \div 7) + 1 /\ ThursdayKey(t + 7)[2] = (((t + 7) - f) \div 7) + 1
      BY <1>4, <1>6
    <2>3. ThursdayKey(t)[1] = year(t) /\ ThursdayKey(t + 7)[1] = year(t)
      BY <1>4, <1>6
    <2> HIDE DEF f
    <2>4. (t - f) \div 7 < ((t + 7) - f) \div 7 /\ (t - f) \div 7 \in Int /\ ((t + 7) - f) \div 7 \in Int
      BY <2>1
    <2> QED BY <2>2, <2>3, <2>4 DEF Before
  <1> QED BY <1>2, <1>5, <1>6

LEMMA WeeklyAscends ==
    ASSUME start \in Nat, end \in Nat, start <= end
    PROVE  Ascending(WeeklyKeys(start, end), Before)
  <1> DEFINE keys == WeeklyKeys(start, end)
             w == start - (start % 7)
             k == ((end - w) \div 7) + 1
  <1>1. w \in Nat /\ k \in Nat /\ k >= 1
        /\ keys = [i \in 1 .. k |-> ThursdayKey(w + 7 * (i - 1) + 3)]
    BY WeeklyKeysAre
  <1> HIDE DEF keys, w, k
  <1>2. Len(keys) = k
    BY <1>1
  <1>3. ASSUME NEW i \in 1 .. Len(keys) - 1 PROVE Before(keys[i], keys[i + 1])
    <2> DEFINE t == w + 7 * (i - 1) + 3
    <2>1. /\ i \in 1 .. k /\ i + 1 \in 1 .. k /\ t \in Nat
          /\ w + 7 * ((i + 1) - 1) + 3 = t + 7
      BY <1>1, <1>2
    <2>2. keys[i] = ThursdayKey(t) /\ keys[i + 1] = ThursdayKey(t + 7)
      BY <1>1, <2>1
    <2> HIDE DEF t
    <2> QED BY <2>1, <2>2, ThursdaysAscend
  <1> QED BY <1>3 DEF Ascending, keys

-----------------------------------------------------------------------------
LEMMA DailyCovers ==
    ASSUME start \in Nat, end \in Nat, start <= end
    PROVE  Covers(DailyKeys(start, end), DailyKey)
  <1> DEFINE keys == DailyKeys(start, end)
  <1>1. Iterations(start, end, 1) = (end - start) + 1
    BY DEF Iterations
  <1>2. keys = [i \in 1 .. (end - start) + 1 |-> start + i - 1]
    BY <1>1 DEF DailyKeys, DailyKey
  <1> HIDE DEF keys
  <1>3. ASSUME NEW n \in start .. end PROVE \E i \in DOMAIN keys : keys[i] = n
    <2>1. (n - start) + 1 \in 1 .. (end - start) + 1 /\ start + ((n - start) + 1) - 1 = n
      OBVIOUS
    <2> QED BY <1>2, <2>1
  <1>4. \A i \in DOMAIN keys : keys[i] \in start .. end
    BY <1>2
  <1>5. {keys[i] : i \in DOMAIN keys} = {n : n \in start .. end}
    BY <1>3, <1>4
  <1> QED BY <1>5 DEF Covers, DailyKey, keys

RangeInv == start \in Nat /\ end \in Nat /\ start <= end

(* The month before a fire, as computeFirePartitionKey has it: it is the   *)
(* month before exactly when that one has as many days as the day of the   *)
(* fire says; on any other day AddDate runs over into the fire's month.    *)
LEMMA PrecedingMonthIs ==
    ASSUME NEW n \in Nat, MonthAt(n) > 0
    PROVE  LET m == MonthAt(n)
           IN  /\ DayOfMonth(n) <= MonthStart(m) - MonthStart(m - 1)
                     => PrecedingMonthKey(n) = MonthOf(m - 1)
               /\ DayOfMonth(n) > MonthStart(m) - MonthStart(m - 1)
                     => PrecedingMonthKey(n) = MonthlyKey(n)
  <1> DEFINE m == MonthAt(n)
             k == m - 1
             d == DayOfMonth(n)
             x == MonthStart(k) + d - 1
  <1>1. m \in Nat /\ k \in Nat /\ k + 1 = m /\ m + 1 \in Nat
    BY MonthOfDay
  <1>2. /\ MonthStart(k) \in Nat /\ MonthStart(m) \in Nat /\ MonthStart(m + 1) \in Nat
        /\ MonthStart(k) + 28 <= MonthStart(m) /\ MonthStart(m) + 28 <= MonthStart(m + 1)
    <2> HIDE DEF m, k
    <2> QED BY <1>1, MonthStartNat, MonthLength
  <1>3. d = n - MonthStart(m) + 1 /\ MonthStart(m) <= n /\ n < MonthStart(m + 1)
    BY MonthOfDay DEF DayOfMonth
  <1>4. MonthStart(m + 1) <= MonthStart(m) + 31
    <2> HIDE DEF m
    <2> QED BY <1>1, MonthLength
  <1>5. PrecedingMonthKey(n) = MonthlyKey(x)
    <2>1. m + (-1) = k
      BY <1>1
    <2> QED BY <2>1 DEF PrecedingMonthKey, AddMonths
  <1> HIDE DEF m, k, d
  <1>6. x \in Nat /\ MonthStart(k) <= x /\ x < MonthStart(m + 1)
    BY <1>2, <1>3, <1>4
  <1>7. ASSUME d <= MonthStart(m) - MonthStart(k) PROVE MonthAt(x) = k
    <2>1. x < MonthStart(k + 1)
      BY <1>1, <1>2, <1>3, <1>7
    <2> HIDE DEF x
    <2> QED BY <1>1, <1>6, <2>1, OnlyMonthOfDay
  <1>8. ASSUME d > MonthStart(m) - MonthStart(k) PROVE MonthAt(x) = m
    <2>1. MonthStart(m) <= x
      BY <1>2, <1>3, <1>8
    <2> HIDE DEF x
    <2> QED BY <1>1, <1>6, <2>1, OnlyMonthOfDay
  <1> QED BY <1>5, <1>7, <1>8 DEF MonthlyKey, m, k, d

(* KeysBetween for any range of days, at the ends of months, years and     *)
(* centuries alike, and the key of the week before a fire.                 *)
THEOREM KeysAreExact == KeysSpec => []KeysExact
  <1>1. KeysInit => RangeInv
    BY KeysAssumption DEF KeysInit, RangeInv
  <1>2. RangeInv /\ [Extend]_keysVars => RangeInv'
    BY DEF RangeInv, Extend, keysVars
  <1>3. RangeInv => KeysExact
    BY DailyCovers, WeeklyCovers, WeeklyAscends, MonthlyCovers, MonthlyAscends, WeekBeforeIs
       DEF RangeInv, KeysExact
  <1> QED BY <1>1, <1>2, <1>3, PTL DEF KeysSpec

(* The key of the month before a fire, for any day of any year.            *)
THEOREM MonthKeysAreExact == KeysSpec => []MonthKeyExact
  <1>1. KeysInit => RangeInv
    BY KeysAssumption DEF KeysInit, RangeInv
  <1>2. RangeInv /\ [Extend]_keysVars => RangeInv'
    BY DEF RangeInv, Extend, keysVars
  <1>3. RangeInv => MonthKeyExact
    <2> SUFFICES ASSUME RangeInv, MonthAt(start) > 0
                 PROVE  LET m == MonthAt(start)
                        IN  PrecedingMonthKey(start) =
                                MonthOf(IF DayOfMonth(start) <= MonthStart(m) - MonthStart(m - 1)
                                        THEN m - 1 ELSE m)
      BY DEF MonthKeyExact
    <2>1. start \in Nat
      BY DEF RangeInv
    <2>2. MonthAt(start) \in Nat
      BY <2>1, MonthOfDay
    <2>3. /\ DayOfMonth(start) \in Int
          /\ MonthStart(MonthAt(start)) \in Int /\ MonthStart(MonthAt(start) - 1) \in Int
      BY <2>1, <2>2, MonthStartNat DEF DayOfMonth
    <2> QED BY <2>1, <2>2, <2>3, PrecedingMonthIs DEF MonthlyKey
  <1> QED BY <1>1, <1>2, <1>3, PTL DEF KeysSpec

-----------------------------------------------------------------------------
(* Execution plans                                                         *)

(* What a sequence without repetition holds, before and after an operation.*)
Distinct(s) == \A i, j \in 1 .. Len(s) : s[i] = s[j] => i = j
Members(s)  == {s[i] : i \in 1 .. Len(s)}

LEMMA AppendMembers ==
    ASSUME NEW S, NEW s \in Seq(S), NEW x \in S
    PROVE  /\ Members(Append(s, x)) = Members(s) \cup {x}
           /\ Distinct(s) /\ x \notin Members(s) => Distinct(Append(s, x))
  <1>1. /\ Append(s, x) \in Seq(S) /\ Len(Append(s, x)) = Len(s) + 1 /\ Len(s) \in Nat
        /\ \A i \in 1 .. Len(s) : Append(s, x)[i] = s[i]
        /\ Append(s, x)[Len(s) + 1] = x
    OBVIOUS
  <1>2. 1 .. Len(s) + 1 = (1 .. Len(s)) \cup {Len(s) + 1}
    BY <1>1
  <1>3. Members(Append(s, x)) = Members(s) \cup {x}
    BY <1>1, <1>2 DEF Members
  <1>4. ASSUME Distinct(s), x \notin Members(s) PROVE Distinct(Append(s, x))
    BY <1>1, <1>2, <1>4 DEF Distinct, Members
  <1> QED BY <1>3, <1>4

LEMMA TailMembers ==
    ASSUME NEW S, NEW s \in Seq(S), s # <<>>, Distinct(s)
    PROVE  /\ Head(s) \in Members(s) /\ Head(s) \in S
           /\ Tail(s) \in Seq(S)
           /\ Members(Tail(s)) = Members(s) \ {Head(s)}
           /\ Distinct(Tail(s))
  <1>1. /\ Tail(s) \in Seq(S) /\ Len(s) \in Nat \ {0} /\ Len(Tail(s)) = Len(s) - 1
        /\ \A i \in 1 .. Len(s) - 1 : Tail(s)[i] = s[i + 1]
        /\ Head(s) = s[1] /\ Head(s) \in S
    OBVIOUS
  <1>2. Distinct(Tail(s))
    BY <1>1 DEF Distinct
  <1>3. ASSUME NEW y \in Members(s), y # Head(s) PROVE y \in Members(Tail(s))
    <2>1. PICK i \in 1 .. Len(s) : y = s[i]
      BY <1>3 DEF Members
    <2>2. i # 1 /\ i - 1 \in 1 .. Len(Tail(s)) /\ Tail(s)[i - 1] = s[i]
      BY <1>1, <1>3, <2>1
    <2> QED BY <2>1, <2>2 DEF Members
  <1>4. ASSUME NEW y \in Members(Tail(s)) PROVE y \in Members(s) /\ y # Head(s)
    <2>1. PICK i \in 1 .. Len(s) - 1 : y = s[i + 1]
      BY <1>1, <1>4 DEF Members
    <2> QED BY <1>1, <2>1 DEF Members, Distinct
  <1>5. Head(s) \in Members(s)
    BY <1>1 DEF Members
  <1> QED BY <1>1, <1>2, <1>3, <1>4, <1>5

LEMMA ConcatMembers ==
    ASSUME NEW S, NEW s \in Seq(S), NEW t \in Seq(S)
    PROVE  /\ s \o t \in Seq(S)
           /\ Members(s \o t) = Members(s) \cup Members(t)
           /\ Distinct(s) /\ Distinct(t) /\ Members(s) \cap Members(t) = {} => Distinct(s \o t)
  <1>1. /\ s \o t \in Seq(S) /\ Len(s) \in Nat /\ Len(t) \in Nat
        /\ Len(s \o t) = Len(s) + Len(t)
        /\ \A i \in 1 .. Len(s) : (s \o t)[i] = s[i]
        /\ \A i \in Len(s) + 1 .. Len(s) + Len(t) : (s \o t)[i] = t[i - Len(s)]
    OBVIOUS
  <1>2. ASSUME NEW y \in Members(s \o t) PROVE y \in Members(s) \cup Members(t)
    <2>1. PICK i \in 1 .. Len(s) + Len(t) : y = (s \o t)[i]
      BY <1>1, <1>2 DEF Members
    <2>2. i \in 1 .. Len(s) \/ (i \in Len(s) + 1 .. Len(s) + Len(t) /\ i - Len(s) \in 1 .. Len(t))
      BY <1>1
    <2> QED BY <1>1, <2>1, <2>2 DEF Members
  <1>3. ASSUME NEW y \in Members(s) PROVE y \in Members(s \o t)
    <2>1. PICK i \in 1 .. Len(s) : y = s[i]
      BY <1>3 DEF Members
    <2>2. i \in 1 .. Len(s \o t) /\ (s \o t)[i] = y
      BY <1>1, <2>1
    <2> QED BY <2>2 DEF Members
  <1>4. ASSUME NEW y \in Members(t) PROVE y \in Members(s \o t)
    <2>1. PICK i \in 1 .. Len(t) : y = t[i]
      BY <1>4 DEF Members
    <2>2. i + Len(s) \in 1 .. Len(s \o t) /\ (s \o t)[i + Len(s)] = y
      BY <1>1, <2>1
    <2> QED BY <2>2 DEF Members
  <1>5. ASSUME Distinct(s), Distinct(t), Members(s) \cap Members(t) = {} PROVE Distinct(s \o t)
    <2> SUFFICES ASSUME NEW i \in 1 .. Len(s) + Len(t), NEW j \in 1 .. Len(s) + Len(t),
                        (s \o t)[i] = (s \o t)[j]
                 PROVE  i = j
      BY <1>1 DEF Distinct
    <2>1. CASE i <= Len(s) /\ j <= Len(s)
      BY <1>1, <1>5, <2>1 DEF Distinct
    <2>2. CASE i > Len(s) /\ j > Len(s)
      <3>1. i - Len(s) \in 1 .. Len(t) /\ j - Len(s) \in 1 .. Len(t)
        BY <1>1, <2>2
      <3>2. t[i - Len(s)] = t[j - Len(s)]
        BY <1>1, <2>2
      <3>3. i - Len(s) = j - Len(s)
        BY <1>5, <3>1, <3>2 DEF Distinct
      <3> QED BY <1>1, <3>3
    <2>3. ASSUME NEW k \in 1 .. Len(s), NEW l \in Len(s) + 1 .. Len(s) + Len(t)
          PROVE  (s \o t)[k] # (s \o t)[l]
      <3>1. (s \o t)[k] \in Members(s)
        BY <1>1 DEF Members
      <3>2. l - Len(s) \in 1 .. Len(t) /\ (s \o t)[l] = t[l - Len(s)]
        BY <1>1
      <3>3. (s \o t)[l] \in Members(t)
        BY <3>2 DEF Members
      <3> QED BY <1>5, <3>1, <3>3
    <2>4. CASE i <= Len(s) /\ j > Len(s)
      BY <1>1, <2>3, <2>4
    <2>5. CASE i > Len(s) /\ j <= Len(s)
      BY <1>1, <2>3, <2>5
    <2> QED BY <1>1, <2>1, <2>2, <2>4, <2>5
  <1> QED BY <1>1, <1>2, <1>3, <1>4, <1>5

LEMMA DistinctCounts ==
    ASSUME NEW S, IsFiniteSet(S), NEW s \in Seq(S), Distinct(s)
    PROVE  /\ IsFiniteSet(Members(s)) /\ Members(s) \subseteq S
           /\ Cardinality(Members(s)) = Len(s)
  <1>1. Members(s) \subseteq S /\ Len(s) \in Nat
    BY DEF Members
  <1>2. s \in Bijection(1 .. Len(s), Members(s))
    <2>1. s \in [1 .. Len(s) -> Members(s)]
      BY DEF Members
    <2> QED BY <2>1 DEF Bijection, Injection, Surjection, Distinct, Members, IsInjective
  <1>3. ExistsBijection(1 .. Len(s), Members(s))
    BY <1>2 DEF ExistsBijection
  <1> QED BY <1>1, <1>3, FS_CountingElements, FS_Subset

LEMMA ArrangedMembers ==
    ASSUME NEW S, IsFiniteSet(S), NEW q \in SetToSeqs(S)
    PROVE  q \in Seq(S) /\ Distinct(q) /\ Members(q) = S
  <1>1. Cardinality(S) \in Nat
    BY FS_CardinalityType
  <1>2. /\ q \in [1 .. Cardinality(S) -> S]
        /\ \A i, j \in 1 .. Cardinality(S) : i # j => q[i] # q[j]
    BY DEF SetToSeqs
  <1>3. q \in Seq(S) /\ Len(q) = Cardinality(S)
    BY <1>1, <1>2
  <1>4. Distinct(q)
    BY <1>2, <1>3 DEF Distinct
  <1>5. Members(q) \subseteq S /\ Cardinality(Members(q)) = Cardinality(S)
    BY <1>3, <1>4, DistinctCounts
  <1> QED BY <1>3, <1>4, <1>5, FS_Subset
-----------------------------------------------------------------------------
(* What the walk has reached is needed, and in the end it is all.          *)
DagType ==
    /\ upstreams \in [Assets -> SUBSET Assets]
    /\ phase \in {"walk", "edges", "sort", "done", "cycle"}
    /\ seen \in SUBSET Assets /\ linked \in SUBSET seen
    /\ inDeg \in [Assets -> Int]
    /\ queue \in Seq(Assets) /\ order \in Seq(Assets)

WalkInv ==
    /\ Target \in seen
    /\ \A S \in SUBSET Assets : Target \in S /\ Closed(S) => seen \subseteq S
    /\ phase # "walk" => Closed(seen)

(* Kahn: an asset of the order comes after its upstreams; in-degrees count *)
(* the upstreams that are still to come, and who waits for none is queued. *)
OrderInv ==
    /\ Distinct(order) /\ Members(order) \subseteq seen
    /\ \A j \in 1 .. Len(order) : \A u \in upstreams[order[j]] :
          \E i \in 1 .. j - 1 : order[i] = u
    /\ phase = "done" => Members(order) = seen
QueueInv ==
    phase = "sort" =>
        /\ Distinct(queue)
        /\ \A b \in seen : inDeg[b] = Cardinality(upstreams[b] \ Members(order))
        /\ Members(queue) = {b \in seen \ Members(order) : upstreams[b] \subseteq Members(order)}
NothingOrdered == phase \in {"walk", "edges"} => order = <<>>

DagInv == /\ DagType /\ WalkInv /\ OrderInv /\ QueueInv /\ NothingOrdered
          /\ phase = "cycle" => Cyclic

LEMMA NeededIsSeen ==
    ASSUME DagType, WalkInv, phase # "walk"
    PROVE  Needed = seen
  <1> DEFINE P(S) == /\ Target \in S /\ Closed(S)
                     /\ \A R \in SUBSET S : Target \in R /\ Closed(R) => R = S
  <1>1. seen \in SUBSET Assets /\ P(seen)
    BY DEF DagType, WalkInv
  <1>2. ASSUME NEW S \in SUBSET Assets, P(S) PROVE S = seen
    BY <1>1, <1>2 DEF WalkInv
  <1> QED BY <1>1, <1>2 DEF Needed

LEMMA CyclicMeans ==
    ASSUME DagType, WalkInv, phase # "walk"
    PROVE  Cyclic <=> \E S \in SUBSET seen : S # {} /\ \A a \in S : upstreams[a] \cap S # {}
  <1>1. Needed = seen
    BY NeededIsSeen
  <1> HIDE DEF Needed
  <1> QED BY <1>1 DEF Cyclic

LEMMA EmptySequence == Members(<<>>) = {} /\ Distinct(<<>>)
  BY DEF Members, Distinct

LEMMA InitDag == DagInit([Assets -> SUBSET Assets]) => DagInv
  <1> SUFFICES ASSUME DagInit([Assets -> SUBSET Assets]) PROVE DagInv
    OBVIOUS
  <1>1. DagType
    BY DagAssumption DEF DagInit, DagType
  <1>2. WalkInv
    BY DEF DagInit, WalkInv
  <1>3. OrderInv
    BY EmptySequence DEF DagInit, OrderInv
  <1> QED BY <1>1, <1>2, <1>3 DEF DagInv, DagInit, QueueInv, NothingOrdered

LEMMA WalkStep ==
    ASSUME DagInv, NEW a \in Assets, Walk(a) PROVE DagInv'
  <1>1. DagType'
    BY DEF DagInv, DagType, Walk
  <1>2. \A S \in SUBSET Assets : Closed(S)' <=> Closed(S)
    BY DEF Walk, Closed
  <1>3. WalkInv'
    <2>1. PICK b \in seen : a \in upstreams[b]
      BY DEF Walk, Unseen
    <2>2. \A S \in SUBSET Assets : Target \in S /\ Closed(S) => seen \cup {a} \subseteq S
      BY <2>1 DEF DagInv, WalkInv, Closed
    <2> QED BY <1>2, <2>2 DEF DagInv, WalkInv, Walk
  <1>4. order = <<>> /\ order' = <<>>
    BY DEF DagInv, NothingOrdered, Walk
  <1>5. OrderInv'
    BY <1>4, EmptySequence DEF OrderInv, Walk
  <1> QED BY <1>1, <1>3, <1>4, <1>5 DEF DagInv, QueueInv, NothingOrdered, Walk

LEMMA EndWalkStep ==
    ASSUME DagInv, EndWalk PROVE DagInv'
  <1>1. DagType'
    BY DEF DagInv, DagType, EndWalk
  <1>2. Closed(seen)
    <2>1. ASSUME NEW a \in seen, NEW u \in upstreams[a] PROVE u \in seen
      <3>1. upstreams[a] \in {upstreams[b] : b \in seen}
        OBVIOUS
      <3>2. u \in seen \/ u \in Unseen
        BY <2>1, <3>1 DEF Unseen
      <3> QED BY <3>2 DEF EndWalk
    <2> QED BY <2>1 DEF Closed
  <1>3. WalkInv'
    BY <1>2 DEF DagInv, WalkInv, EndWalk, Closed
  <1>4. order = <<>> /\ order' = <<>>
    BY DEF DagInv, NothingOrdered, EndWalk
  <1>5. OrderInv'
    BY <1>4, EmptySequence DEF OrderInv, EndWalk
  <1> QED BY <1>1, <1>3, <1>4, <1>5 DEF DagInv, QueueInv, NothingOrdered, EndWalk

(* An edge that the library refuses closes a cycle of what was declared.   *)
LEMMA RefusedIsCyclic ==
    ASSUME DagInv, phase = "edges", NEW a \in seen, NEW u \in upstreams[a], a \in Above(u)
    PROVE  Cyclic
  <1> DEFINE Path(P, x) == /\ u \in P /\ x \in P
                           /\ \A y \in P \ {x} : upstreams[y] \cap P # {}
             G == {x \in seen : \E P \in SUBSET seen : Path(P, x)}
  <1>1. Closed(seen) /\ seen \subseteq Assets /\ upstreams \in [Assets -> SUBSET Assets]
    BY DEF DagInv, WalkInv, DagType
  <1>2. u \in seen
    BY <1>1 DEF Closed
  <1>3. u \in G
    <2>1. {u} \in SUBSET seen /\ Path({u}, u)
      BY <1>2
    <2> QED BY <1>2, <2>1
  <1>4. ASSUME NEW c \in G, NEW x \in upstreams[c] PROVE x \in G
    <2>1. PICK P \in SUBSET seen : Path(P, c)
      BY <1>4
    <2>2. x \in seen
      BY <1>1, <1>4 DEF Closed
    <2>3. Path(P \cup {x}, x)
      BY <1>4, <2>1
    <2>4. P \cup {x} \in SUBSET seen
      BY <2>1, <2>2
    <2> QED BY <2>2, <2>3, <2>4
  <1>5. G \in SUBSET Assets
    BY <1>1
  <1>6. a \in G
    <2>1. \A c \in G \cap linked : upstreams[c] \subseteq G
      BY <1>4
    <2> HIDE DEF G
    <2> QED BY <1>3, <1>5, <2>1 DEF Above
  <1>7. PICK P \in SUBSET seen : Path(P, a)
    BY <1>6
  <1>8. \A y \in P : upstreams[y] \cap P # {}
    BY <1>7
  <1>9. P # {}
    BY <1>7
  <1> QED BY <1>8, <1>9, CyclicMeans DEF DagInv

LEMMA CyclicStays ==
    ASSUME DagInv, UNCHANGED upstreams, Cyclic PROVE Cyclic'
  <1>1. Needed' = Needed
    BY DEF Needed, Closed
  <1> HIDE DEF Needed
  <1> QED BY <1>1 DEF Cyclic

LEMMA AddEdgesStep ==
    ASSUME DagInv, NEW a \in Assets, AddEdges(a) PROVE DagInv'
  <1>1. DagType'
    BY DEF DagInv, DagType, AddEdges
  <1>2. WalkInv'
    BY DEF DagInv, WalkInv, AddEdges, Closed
  <1>3. order = <<>> /\ order' = <<>>
    BY DEF DagInv, NothingOrdered, AddEdges
  <1>4. OrderInv'
    BY <1>3, EmptySequence DEF OrderInv, AddEdges
  <1>5. phase' = "cycle" => Cyclic'
    <2> SUFFICES ASSUME phase' = "cycle" PROVE Cyclic'
      OBVIOUS
    <2>1. PICK u \in upstreams[a] : a \in Above(u)
      BY DEF AddEdges
    <2>2. Cyclic
      BY <2>1, RefusedIsCyclic DEF AddEdges
    <2> QED BY <2>2, CyclicStays DEF AddEdges
  <1>6. phase' \in {"edges", "cycle"}
    BY DEF AddEdges
  <1> QED BY <1>1, <1>2, <1>3, <1>4, <1>5, <1>6 DEF DagInv, QueueInv, NothingOrdered

LEMMA StartSortStep ==
    ASSUME DagInv, StartSort PROVE DagInv'
  <1> DEFINE Roots == {a \in seen : Parents(a) = {}}
  <1>1. /\ seen \subseteq Assets /\ IsFiniteSet(seen) /\ IsFiniteSet(Roots)
        /\ upstreams \in [Assets -> SUBSET Assets]
        /\ \A a \in Assets : IsFiniteSet(upstreams[a])
    BY DagAssumption, FS_Subset DEF DagInv, DagType
  <1>2. queue' \in Seq(Roots) /\ Distinct(queue') /\ Members(queue') = Roots
    <2>1. queue' \in SetToSeqs(Roots)
      BY DEF StartSort
    <2> HIDE DEF Roots
    <2> QED BY <1>1, <2>1, ArrangedMembers
  <1>3. queue' \in Seq(Assets)
    BY <1>1, <1>2
  <1>4. inDeg' \in [Assets -> Int]
    BY <1>1, FS_CardinalityType DEF StartSort, Parents
  <1>5. DagType'
    BY <1>3, <1>4 DEF DagInv, DagType, StartSort
  <1>6. WalkInv'
    BY DEF DagInv, WalkInv, StartSort, Closed
  <1>7. order = <<>> /\ order' = <<>> /\ Members(order') = {}
    BY EmptySequence DEF DagInv, NothingOrdered, StartSort
  <1>8. OrderInv'
    BY <1>7, EmptySequence DEF OrderInv, StartSort
  <1>9. QueueInv'
    <2>1. \A b \in seen : inDeg'[b] = Cardinality(upstreams[b] \ {})
      BY <1>1 DEF StartSort, Parents
    <2> QED BY <1>2, <1>7, <2>1 DEF QueueInv, StartSort, Parents
  <1> QED BY <1>5, <1>6, <1>7, <1>8, <1>9 DEF DagInv, NothingOrdered, StartSort

LEMMA DequeueStep ==
    ASSUME DagInv, Dequeue PROVE DagInv'
  <1> DEFINE n == Head(queue)
             Freed == {b \in Children(n) : Ready(b)}
             Out == Members(order)
  <1>1. PICK ready \in SetToSeqs(Freed) : queue' = Tail(queue) \o ready
    BY DEF Dequeue
  <1>2. /\ order' = Append(order, n)
        /\ inDeg' = [b \in Assets |-> IF b \in Children(n) THEN inDeg[b] - 1 ELSE inDeg[b]]
        /\ phase = "sort" /\ queue # <<>>
        /\ UNCHANGED <<upstreams, phase, seen, linked>>
    BY DEF Dequeue
  <1>3. /\ seen \subseteq Assets /\ upstreams \in [Assets -> SUBSET Assets]
        /\ order \in Seq(Assets) /\ queue \in Seq(Assets) /\ inDeg \in [Assets -> Int]
        /\ \A b \in Assets : IsFiniteSet(upstreams[b])
    BY DagAssumption, FS_Subset DEF DagInv, DagType
  <1>4. /\ Distinct(queue) /\ Distinct(order) /\ Out \subseteq seen
        /\ \A b \in seen : inDeg[b] = Cardinality(upstreams[b] \ Out)
        /\ Members(queue) = {b \in seen \ Out : upstreams[b] \subseteq Out}
    BY <1>2 DEF DagInv, QueueInv, OrderInv
  <1>5. /\ n \in Members(queue) /\ n \in Assets /\ Tail(queue) \in Seq(Assets)
        /\ Members(Tail(queue)) = Members(queue) \ {n} /\ Distinct(Tail(queue))
    BY <1>2, <1>3, <1>4, TailMembers
  <1>6. n \in seen \ Out /\ upstreams[n] \subseteq Out
    BY <1>4, <1>5
  <1>7. /\ order' \in Seq(Assets) /\ Members(order') = Out \cup {n} /\ Distinct(order')
    BY <1>2, <1>3, <1>4, <1>5, <1>6, AppendMembers
  <1> HIDE DEF n, Freed, Out
  <1>8. ASSUME NEW b \in seen
        PROVE  /\ IsFiniteSet(upstreams[b] \ Out)
               /\ Cardinality(upstreams[b] \ Out) \in Nat
               /\ Cardinality(upstreams[b] \ (Out \cup {n}))
                     = IF n \in upstreams[b] THEN inDeg[b] - 1 ELSE inDeg[b]
               /\ Cardinality(upstreams[b] \ (Out \cup {n})) = 0
                     <=> upstreams[b] \subseteq Out \cup {n}
    <2>1. IsFiniteSet(upstreams[b] \ Out) /\ Cardinality(upstreams[b] \ Out) \in Nat
      BY <1>3, FS_Difference, FS_CardinalityType
    <2>2. upstreams[b] \ (Out \cup {n}) = (upstreams[b] \ Out) \ {n}
      OBVIOUS
    <2>3. IsFiniteSet(upstreams[b] \ (Out \cup {n}))
      BY <2>1, <2>2, FS_RemoveElement
    <2>4. Cardinality(upstreams[b] \ (Out \cup {n})) = 0 <=> upstreams[b] \ (Out \cup {n}) = {}
      BY <2>3, FS_EmptySet
    <2>5. Cardinality((upstreams[b] \ Out) \ {n})
             = IF n \in upstreams[b] \ Out THEN Cardinality(upstreams[b] \ Out) - 1
               ELSE Cardinality(upstreams[b] \ Out)
      BY <2>1, FS_RemoveElement
    <2>6. n \in upstreams[b] \ Out <=> n \in upstreams[b]
      BY <1>6
    <2>7. Cardinality(upstreams[b] \ Out) = inDeg[b]
      BY <1>4
    <2>8. upstreams[b] \ (Out \cup {n}) = {} <=> upstreams[b] \subseteq Out \cup {n}
      OBVIOUS
    <2>9. Cardinality(upstreams[b] \ (Out \cup {n}))
             = IF n \in upstreams[b] THEN inDeg[b] - 1 ELSE inDeg[b]
      BY <2>2, <2>5, <2>6, <2>7
    <2> QED BY <2>1, <2>4, <2>8, <2>9
  <1>9. \A b \in seen : inDeg'[b] = Cardinality(upstreams[b] \ (Out \cup {n}))
    BY <1>2, <1>3, <1>8 DEF Children
  <1>10. Freed = {b \in seen \ (Out \cup {n}) :
                     n \in upstreams[b] /\ upstreams[b] \subseteq Out \cup {n}}
    <2>1. \A b \in Out : upstreams[b] \subseteq Out
      <3> SUFFICES ASSUME NEW j \in 1 .. Len(order) PROVE upstreams[order[j]] \subseteq Out
        BY DEF Out, Members
      <3>1. \A u \in upstreams[order[j]] : \E i \in 1 .. j - 1 : order[i] = u
        BY DEF DagInv, OrderInv
      <3>2. 1 .. j - 1 \subseteq 1 .. Len(order)
        BY <1>3
      <3> QED BY <3>1, <3>2 DEF Out, Members
    <2>2. \A b \in Children(n) : b \notin Out /\ b # n
      BY <1>6, <2>1 DEF Children
    <2>3. \A b \in Children(n) : Ready(b) <=> upstreams[b] \subseteq Out \cup {n}
      BY <1>8 DEF Children, Ready
    <2> QED BY <2>2, <2>3 DEF Freed, Children
  <1>11. /\ ready \in Seq(Assets) /\ Distinct(ready) /\ Members(ready) = Freed
    <2>1. Freed \subseteq Assets
      BY <1>3, <1>10
    <2>2. IsFiniteSet(Freed)
      BY <2>1, DagAssumption, FS_Subset
    <2>3. ready \in Seq(Freed) /\ Distinct(ready) /\ Members(ready) = Freed
      BY <2>2, ArrangedMembers
    <2> QED BY <2>1, <2>3
  <1>12. Members(Tail(queue)) \cap Members(ready) = {}
    BY <1>4, <1>5, <1>6, <1>10, <1>11
  <1>13. /\ queue' \in Seq(Assets) /\ Distinct(queue')
         /\ Members(queue') = Members(Tail(queue)) \cup Freed
    <2> DEFINE rest == Tail(queue)
    <2>1. rest \in Seq(Assets) /\ Distinct(rest)
      BY <1>5
    <2>2. queue' = rest \o ready
      BY <1>1
    <2>3. Members(rest) \cap Members(ready) = {}
      BY <1>12
    <2> HIDE DEF rest
    <2>4. /\ rest \o ready \in Seq(Assets) /\ Distinct(rest \o ready)
          /\ Members(rest \o ready) = Members(rest) \cup Members(ready)
      BY <1>11, <2>1, <2>3, ConcatMembers
    <2> QED BY <1>11, <2>2, <2>4 DEF rest
  <1>14. Members(queue') = {b \in seen \ (Out \cup {n}) : upstreams[b] \subseteq Out \cup {n}}
    BY <1>4, <1>5, <1>10, <1>13
  <1>15. QueueInv'
    BY <1>2, <1>7, <1>9, <1>13, <1>14 DEF QueueInv
  <1>16. OrderInv'
    <2>1. Members(order') \subseteq seen'
      BY <1>2, <1>4, <1>6, <1>7
    <2>2. /\ Len(order) \in Nat /\ Len(order') = Len(order) + 1
          /\ \A i \in 1 .. Len(order) : order'[i] = order[i]
          /\ order'[Len(order) + 1] = n
      BY <1>2, <1>3, <1>5
    <2>3. ASSUME NEW j \in 1 .. Len(order'), NEW u \in upstreams[order'[j]]
          PROVE  \E i \in 1 .. j - 1 : order'[i] = u
      <3>1. CASE j \in 1 .. Len(order)
        <4>1. PICK i \in 1 .. j - 1 : order[i] = u
          BY <2>2, <2>3, <3>1 DEF DagInv, OrderInv
        <4>2. i \in 1 .. Len(order)
          BY <2>2, <3>1
        <4> QED BY <2>2, <4>1, <4>2
      <3>2. CASE j = Len(order) + 1
        <4>1. u \in Out
          BY <1>6, <2>2, <2>3, <3>2
        <4>2. PICK i \in 1 .. Len(order) : order[i] = u
          BY <4>1 DEF Out, Members
        <4> QED BY <2>2, <3>2, <4>2
      <3> QED BY <2>2, <3>1, <3>2
    <2> QED BY <1>2, <1>7, <2>1, <2>3 DEF OrderInv
  <1>17. DagType'
    <2>1. inDeg' \in [Assets -> Int]
      BY <1>2, <1>3
    <2> QED BY <1>2, <1>7, <1>13, <2>1 DEF DagInv, DagType
  <1>18. WalkInv'
    BY <1>2 DEF DagInv, WalkInv, Closed
  <1> QED BY <1>2, <1>15, <1>16, <1>17, <1>18 DEF DagInv, NothingOrdered

LEMMA EndSortStep ==
    ASSUME DagInv, EndSort PROVE DagInv'
  <1>1. DagType' /\ WalkInv'
    BY DEF DagInv, DagType, WalkInv, EndSort, Closed
  <1>2. /\ IsFiniteSet(Assets) /\ IsFiniteSet(seen)
        /\ Distinct(order) /\ Members(order) \subseteq seen
        /\ Cardinality(Members(order)) = Len(order)
    BY DagAssumption, FS_Subset, DistinctCounts DEF DagInv, DagType, OrderInv
  <1>3. Len(order) = Cardinality(seen) <=> Members(order) = seen
    BY <1>2, FS_Subset
  <1>4. OrderInv'
    BY <1>3 DEF DagInv, OrderInv, EndSort
  <1>5. ASSUME phase' = "cycle" PROVE Cyclic'
    <2> DEFINE Left == seen \ Members(order)
    <2>1. Left # {} /\ Left \in SUBSET seen
      BY <1>2, <1>3, <1>5 DEF EndSort
    <2>2. Members(queue) = {}
      BY EmptySequence DEF EndSort
    <2>3. ASSUME NEW b \in Left PROVE upstreams[b] \cap Left # {}
      <3>1. ~ (upstreams[b] \subseteq Members(order))
        BY <2>2, <2>3 DEF DagInv, QueueInv, EndSort
      <3>2. upstreams[b] \subseteq seen
        BY <2>3 DEF DagInv, WalkInv, Closed, EndSort
      <3> QED BY <3>1, <3>2
    <2>4. Cyclic
      BY <2>1, <2>3, CyclicMeans DEF DagInv, EndSort
    <2> QED BY <2>4, CyclicStays DEF EndSort
  <1>6. phase' \in {"done", "cycle"}
    BY DEF EndSort
  <1> QED BY <1>1, <1>4, <1>5, <1>6 DEF DagInv, QueueInv, NothingOrdered

LEMMA OrderedIsAcyclic ==
    ASSUME DagInv, phase = "done" PROVE ~ Cyclic
  <1> SUFFICES ASSUME NEW S \in SUBSET seen, S # {}, \A a \in S : upstreams[a] \cap S # {}
               PROVE  FALSE
    BY CyclicMeans DEF DagInv
  <1> DEFINE T == {i \in 1 .. Len(order) : order[i] \in S}
  <1>1. order \in Seq(Assets) /\ Len(order) \in Nat /\ Members(order) = seen
    BY DEF DagInv, DagType, OrderInv
  <1>2. T \subseteq Nat /\ T # {}
    BY <1>1 DEF Members
  <1>3. PICK j \in T : \A i \in T : j <= i
    BY <1>2, LeastNatural
  <1>4. PICK u \in S : u \in upstreams[order[j]]
    BY <1>3
  <1>5. PICK i \in 1 .. j - 1 : order[i] = u
    BY <1>3, <1>4 DEF DagInv, OrderInv
  <1>6. i \in T /\ i < j
    BY <1>1, <1>3, <1>4, <1>5
  <1> QED BY <1>1, <1>3, <1>6

(* BuildDAG and TopologicalOrder: the plan of any declarations is what the *)
(* target needs, each asset once and after its upstreams, and ErrCycle is  *)
(* returned for a cycle among them only, whatever order Go's maps give.    *)
THEOREM PlansAreExact == DagSpec => []PlanExact
  <1>1. DagInv /\ [DagNext]_dagVars => DagInv'
    <2> SUFFICES ASSUME DagInv, [DagNext]_dagVars PROVE DagInv'
      OBVIOUS
    <2>1. CASE UNCHANGED dagVars
      <3>1. UNCHANGED upstreams /\ phase' = phase
        BY <2>1 DEF dagVars
      <3>2. DagType'
        BY <2>1 DEF dagVars, DagInv, DagType
      <3>3. WalkInv'
        BY <2>1 DEF dagVars, DagInv, WalkInv, Closed
      <3>4. OrderInv'
        BY <2>1 DEF dagVars, DagInv, OrderInv
      <3>5. QueueInv'
        BY <2>1 DEF dagVars, DagInv, QueueInv
      <3>6. NothingOrdered'
        BY <2>1 DEF dagVars, DagInv, NothingOrdered
      <3>7. Cyclic => Cyclic'
        BY <3>1, CyclicStays
      <3> QED BY <3>1, <3>2, <3>3, <3>4, <3>5, <3>6, <3>7 DEF DagInv
    <2> QED BY <2>1, WalkStep, EndWalkStep, AddEdgesStep, StartSortStep, DequeueStep,
               EndSortStep DEF DagNext
  <1>2. DagInv => PlanExact
    <2> SUFFICES ASSUME DagInv, phase = "done"
                 PROVE  /\ ~ Cyclic
                        /\ Len(order) = Cardinality(Needed)
                        /\ {order[i] : i \in DOMAIN order} = Needed
                        /\ \A i, j \in DOMAIN order : order[i] \in upstreams[order[j]] => i < j
      BY DEF DagInv, PlanExact
    <2>1. order \in Seq(Assets) /\ DOMAIN order = 1 .. Len(order) /\ Len(order) \in Nat
      BY DEF DagInv, DagType
    <2>2. Needed = seen /\ Members(order) = seen
      BY NeededIsSeen DEF DagInv, OrderInv
    <2>3. Len(order) = Cardinality(Needed)
      BY <2>1, <2>2, DagAssumption, DistinctCounts DEF DagInv, OrderInv
    <2>4. ASSUME NEW i \in 1 .. Len(order), NEW j \in 1 .. Len(order),
                 order[i] \in upstreams[order[j]]
          PROVE  i < j
      <3>1. PICK k \in 1 .. j - 1 : order[k] = order[i]
        BY <2>4 DEF DagInv, OrderInv
      <3>2. k = i
        BY <2>1, <3>1 DEF DagInv, OrderInv, Distinct
      <3> QED BY <2>1, <3>1, <3>2
    <2> QED BY <2>1, <2>2, <2>3, <2>4, OrderedIsAcyclic DEF Members
  <1> QED BY <1>1, <1>2, InitDag, PTL DEF DagSpec

-----------------------------------------------------------------------------
(* Retry delays                                                            *)

(* A power of two is the number of subsets of a set of that many elements. *)
LEMMA PowerOfTwo ==
    ASSUME NEW n \in Nat
    PROVE  2 ^ n \in Nat /\ 2 ^ (n + 1) = 2 ^ n + 2 ^ n
  <1> DEFINE S == 1 .. n
             x == n + 1
             A == SUBSET S
             B == {T \cup {x} : T \in A}
  <1>1. IsFiniteSet(S) /\ Cardinality(S) = n
    BY FS_Interval
  <1>2. IsFiniteSet(S \cup {x}) /\ Cardinality(S \cup {x}) = n + 1
    BY <1>1, FS_AddElement
  <1>3. /\ IsFiniteSet(A) /\ Cardinality(A) = 2 ^ n
        /\ Cardinality(SUBSET (S \cup {x})) = 2 ^ (n + 1)
    BY <1>1, <1>2, FS_SUBSET
  <1>4. ExistsBijection(A, B)
    <2> DEFINE f == [T \in A |-> T \cup {x}]
    <2>1. f \in [A -> B] /\ \A T, U \in A : f[T] = f[U] => T = U
      <3>1. ASSUME NEW T \in A PROVE f[T] \ {x} = T
        <4>1. x \notin T
          OBVIOUS
        <4> QED BY <4>1
      <3>2. f \in [A -> B]
        OBVIOUS
      <3> HIDE DEF f, A
      <3> QED BY <3>1, <3>2
    <2>2. \A y \in B : \E T \in A : f[T] = y
      OBVIOUS
    <2> HIDE DEF f, A, B
    <2>3. f \in Bijection(A, B)
      BY <2>1, <2>2 DEF Bijection, Injection, Surjection, IsInjective
    <2> QED BY <2>3 DEF ExistsBijection
  <1>5. IsFiniteSet(B) /\ Cardinality(B) = Cardinality(A)
    BY <1>3, <1>4, FS_Bijection
  <1>6. A \cap B = {}
    OBVIOUS
  <1>7. SUBSET (S \cup {x}) = A \cup B
    <2>1. ASSUME NEW T \in SUBSET (S \cup {x}) PROVE T \in A \cup B
      <3>1. CASE x \in T
        <4>1. T \ {x} \in A /\ T = (T \ {x}) \cup {x}
          BY <3>1
        <4> QED BY <4>1
      <3>2. CASE x \notin T
        BY <3>2
      <3> QED BY <3>1, <3>2
    <2> QED BY <2>1
  <1> HIDE DEF A, B
  <1>8. Cardinality(A \cup B) = Cardinality(A) + Cardinality(B) - Cardinality(A \cap B)
    BY <1>3, <1>5, FS_Union
  <1>9. Cardinality(A) \in Nat /\ Cardinality({}) = 0
    BY <1>3, FS_CardinalityType, FS_EmptySet
  <1>10. Cardinality(A \cup B) = Cardinality(A) + Cardinality(A)
    <2>1. Cardinality(A \cap B) = 0
      BY <1>6, <1>9
    <2>2. \A a, b, c \in Nat : b = a /\ c = 0 => a + b - c = a + a
      OBVIOUS
    <2> QED BY <1>5, <1>8, <1>9, <2>1, <2>2
  <1>11. 2 ^ (n + 1) = Cardinality(A \cup B)
    BY <1>3, <1>7
  <1> QED BY <1>3, <1>9, <1>10, <1>11

LEMMA DoubledGrows ==
    ASSUME NEW p \in Policies, NEW n \in Nat \ {0}
    PROVE  /\ Doubled(n, p) \in Nat
           /\ Doubled(n + 1, p) \in Nat
           /\ Doubled(n, p) <= Doubled(n + 1, p)
  <1>1. p.initial \in Nat /\ n - 1 \in Nat /\ (n + 1) - 1 = (n - 1) + 1
    BY BackoffAssumption DEF Policies
  <1>2. 2 ^ (n - 1) \in Nat /\ 2 ^ ((n + 1) - 1) = 2 ^ (n - 1) + 2 ^ (n - 1)
    BY <1>1, PowerOfTwo
  <1>3. \A a, b \in Nat : a * b \in Nat /\ a * (b + b) \in Nat /\ a * b <= a * (b + b)
    OBVIOUS
  <1> QED BY <1>1, <1>2, <1>3 DEF Doubled

LEMMA JitterBound ==
    ASSUME NEW d \in Nat, NEW m \in Nat, NEW k \in Nat, NEW j \in Int, d <= m, j <= k
    PROVE  d * (100 + j) \in Int /\ m * (100 + k) \in Nat /\ d * (100 + j) <= m * (100 + k)
  <1>1. \A a, b, c \in Nat : a <= b => a * c <= b * c /\ c * a <= c * b
    OBVIOUS
  <1>2. CASE 100 + j \in Nat
    <2>1. d * (100 + j) <= m * (100 + j)
      BY <1>1, <1>2
    <2>2. m * (100 + j) <= m * (100 + k)
      BY <1>1, <1>2
    <2> QED BY <1>2, <2>1, <2>2
  <1>3. CASE 100 + j < 0
    BY <1>3
  <1> QED BY <1>2, <1>3

LEMMA CappedGrows ==
    ASSUME NEW p \in Policies, NEW n \in Nat \ {0}, Doubled(n, p) <= MaxDuration
    PROVE  /\ CappedDelay(n, p) \in Nat
           /\ p.maxDelay > 0 => CappedDelay(n, p) <= p.maxDelay
           /\ n > 1 => /\ CappedDelay(n - 1, p) \in Nat
                       /\ CappedDelay(n - 1, p) <= CappedDelay(n, p)
  <1>1. Doubled(n, p) \in Nat /\ MaxDuration \in Nat /\ p.maxDelay \in Nat
    BY DoubledGrows, BackoffAssumption DEF Policies
  <1>2. n > 1 => Doubled(n - 1, p) \in Nat /\ Doubled(n - 1, p) <= Doubled(n, p)
    <2>1. n > 1 => n - 1 \in Nat \ {0} /\ (n - 1) + 1 = n
      OBVIOUS
    <2> QED BY <2>1, DoubledGrows
  <1> QED BY <1>1, <1>2 DEF CappedDelay, ToDuration

LEMMA ScheduleBounds ==
    ASSUME NEW p \in Policies, NEW n \in Nat \ {0}, ~ IsZero(p),
           Doubled(n, p) <= MaxDuration, NEW x \in Schedule(n, p)
    PROVE  /\ x \in Nat
           /\ p.maxDelay > 0 => 100 * x <= p.maxDelay * (100 + p.jitter)
           /\ p.jitter = 0 => x = CappedDelay(n, p)
  <1> DEFINE d == CappedDelay(n, p)
             m == IF p.maxDelay > 0 THEN p.maxDelay ELSE d
  <1>1. /\ d \in Nat /\ m \in Nat /\ d <= m /\ p.jitter \in Nat
        /\ MaxDuration \in Nat /\ p.maxDelay \in Nat
    BY CappedGrows, BackoffAssumption DEF Policies
  <1>2. CASE p.jitter = 0
    <2>1. x = d
      BY <1>2 DEF Schedule
    <2> QED BY <1>1, <1>2, <2>1
  <1>3. CASE p.jitter # 0
    <2>1. PICK j \in {-p.jitter, 0, p.jitter} :
             LET y == ToDuration((d * (100 + j)) \div 100) IN x = IF y < 0 THEN 0 ELSE y
      BY <1>3 DEF Schedule
    <2>2. j \in Int /\ j <= p.jitter
      BY <1>1, <2>1
    <2> DEFINE q == d * (100 + j)
               u == m * (100 + p.jitter)
    <2>3. q \in Int /\ u \in Nat /\ q <= u
      BY <1>1, <2>2, JitterBound
    <2> HIDE DEF q, u, d, m
    <2>4. q \div 100 \in Int /\ 100 * (q \div 100) <= q
      BY <2>3
    <2>5. x = 0 \/ (x = q \div 100 /\ x >= 0)
      BY <1>1, <2>1, <2>4 DEF ToDuration, q
    <2>6. x \in Nat /\ 100 * x <= u
      BY <2>3, <2>4, <2>5
    <2> QED BY <1>3, <2>6, <1>1 DEF u, m
  <1> QED BY <1>1, <1>2, <1>3

(* What was returned for the last attempt and for the one before.          *)
BackoffInv ==
    /\ policy \in Policies /\ attempt \in Nat \ {0}
    /\ attempt <= (IF policy.max > 1 THEN policy.max ELSE 1)
    /\ attempt > 1 => ~ IsZero(policy) /\ delay \in Schedule(attempt - 1, policy)
    /\ attempt > 2 => waited \in Schedule(attempt - 2, policy)
    /\ attempt = 2 => waited = 0
    /\ attempt = 1 => delay = 0

(* Policy.Schedule over the attempts of a step: with delays that fit a     *)
(* Duration, none is negative or exceeds its cap and jitter, and without   *)
(* jitter none is shorter than the one before.                             *)
THEOREM DelaysArePaced == BackoffSpec => []DelaysPaced
  <1>1. BackoffInit(Policies) => BackoffInv
    BY DEF BackoffInit, BackoffInv, Policies
  <1>2. BackoffInv /\ [Retry]_backoffVars => BackoffInv'
    <2>1. CASE Retry
      <3> SUFFICES ASSUME BackoffInv PROVE BackoffInv'
        BY <2>1
      <3>1. /\ attempt' - 1 = attempt /\ attempt' \in Nat \ {0} /\ attempt' > 1
            /\ attempt' > 2 => attempt > 1 /\ attempt' - 2 = attempt - 1
            /\ attempt' = 2 => attempt = 1
        BY <2>1 DEF Retry, BackoffInv
      <3>2. attempt < policy.max /\ policy.max \in Nat /\ ~ IsZero(policy)
        BY <2>1 DEF Retry, ShouldRetry, BackoffInv, Policies
      <3> QED BY <2>1, <3>1, <3>2 DEF Retry, BackoffInv
    <2>2. CASE UNCHANGED backoffVars
      BY <2>2 DEF backoffVars, BackoffInv
    <2> QED BY <2>1, <2>2
  <1>3. BackoffInv => DelaysPaced
    <2> SUFFICES ASSUME BackoffInv, attempt > 1, Doubled(attempt - 1, policy) <= MaxDuration
                 PROVE  /\ policy.maxDelay > 0 =>
                              100 * delay <= policy.maxDelay * (100 + policy.jitter)
                        /\ policy.jitter = 0 => delay >= waited
                        /\ delay >= 0
      BY DEF BackoffInv, DelaysPaced
    <2> DEFINE n == attempt - 1
    <2>1. n \in Nat \ {0} /\ policy \in Policies /\ delay \in Schedule(n, policy) /\ ~ IsZero(policy)
      BY DEF BackoffInv
    <2>2. /\ delay \in Nat
          /\ policy.maxDelay > 0 => 100 * delay <= policy.maxDelay * (100 + policy.jitter)
          /\ policy.jitter = 0 => delay = CappedDelay(n, policy)
      BY <2>1, ScheduleBounds
    <2>3. ASSUME policy.jitter = 0 PROVE delay >= waited
      <3>1. CASE attempt = 2
        BY <2>2, <3>1 DEF BackoffInv
      <3>2. CASE attempt # 2
        <4>1. n > 1 /\ n - 1 \in Nat \ {0} /\ attempt - 2 = n - 1
          BY <2>1, <3>2 DEF BackoffInv
        <4>2. waited \in Schedule(n - 1, policy)
          BY <4>1 DEF BackoffInv
        <4>3. waited = CappedDelay(n - 1, policy)
          BY <2>1, <2>3, <4>1, <4>2 DEF Schedule
        <4> QED BY <2>1, <2>2, <2>3, <4>1, <4>3, CappedGrows
      <3> QED BY <3>1, <3>2
    <2> QED BY <2>2, <2>3
  <1> QED BY <1>1, <1>2, <1>3, PTL DEF BackoffSpec

-----------------------------------------------------------------------------
(* Schema comparison                                                       *)

(* What a change that breaks nobody is, column by column: the key stays,   *)
(* no column goes, its type holds more and it takes what it took.          *)
Widens(from, to) == from = to \/ (Known(from, to) /\ IsWidening(from, to))
Accepts(s, t) ==
    /\ s.key = t.key
    /\ \A c \in ColumnNames : Has(s, c) =>
          /\ Has(t, c)
          /\ Widens(s.columns[c].type, t.columns[c].type)
          /\ s.columns[c].nullable => t.columns[c].nullable

LEMMA ColumnType ==
    ASSUME NEW s \in Schemas, NEW c \in ColumnNames, Has(s, c)
    PROVE  /\ s.columns[c] \in Columns
           /\ s.columns[c].type \in Types
           /\ s.columns[c].nullable \in BOOLEAN
  <1>1. s.columns \in [ColumnNames -> Columns \cup {Absent}]
    BY DEF Schemas
  <1>2. s.columns[c] \in Columns
    BY <1>1 DEF Has
  <1> QED BY <1>2 DEF Columns

LEMMA NonBreakingAccepts ==
    ASSUME NEW s \in Schemas, NEW t \in Schemas
    PROVE  NonBreakingChange(s, t) <=> Accepts(s, t)
  <1>1. ASSUME Accepts(s, t), NEW x \in Diff(s, t) PROVE ~ IsBreaking(ChangeType(x, s, t))
    <2>1. x.kind \notin {"column_dropped", "nullable_removed", "pk_changed"}
      BY <1>1, ColumnType DEF Accepts, Diff, DiffButDefaults, Kept
    <2>2. x.kind = "type_widened" =>
             /\ x.column \in Kept(s, t)
             /\ s.columns[x.column].type # t.columns[x.column].type
      BY <1>1 DEF Diff, DiffButDefaults
    <2>3. x.kind \in {"column_added", "type_widened", "nullable_added", "comment_changed",
                      "default_changed"}
      BY <1>1, <2>1 DEF Diff, DiffButDefaults
    <2> QED BY <1>1, <2>2, <2>3 DEF Accepts, Widens, Kept, ChangeType, IsBreaking
  <1>2. ASSUME NonBreakingChange(s, t) PROVE Accepts(s, t)
    <2>1. \A x \in Diff(s, t) : ~ IsBreaking(ChangeType(x, s, t))
      BY <1>2 DEF NonBreakingChange, Classified
    <2>2. s.key = t.key
      <3>1. s.key # t.key => [kind |-> "pk_changed", column |-> "none"] \in Diff(s, t)
        BY DEF Diff, DiffButDefaults
      <3> QED BY <2>1, <3>1 DEF ChangeType, IsBreaking
    <2>3. ASSUME NEW c \in ColumnNames, Has(s, c) PROVE Has(t, c)
      <3>1. ~ Has(t, c) => [kind |-> "column_dropped", column |-> c] \in Diff(s, t)
        BY <2>3 DEF Diff, DiffButDefaults
      <3> QED BY <2>1, <3>1 DEF ChangeType, IsBreaking
    <2>4. ASSUME NEW c \in ColumnNames, Has(s, c)
          PROVE  Widens(s.columns[c].type, t.columns[c].type)
      <3>1. s.columns[c].type # t.columns[c].type
               => [kind |-> "type_widened", column |-> c] \in Diff(s, t)
        BY <2>3, <2>4 DEF Diff, DiffButDefaults, Kept
      <3> QED BY <2>1, <3>1 DEF ChangeType, IsBreaking, Widens
    <2>5. ASSUME NEW c \in ColumnNames, Has(s, c), s.columns[c].nullable
          PROVE  t.columns[c].nullable
      <3>1. ~ t.columns[c].nullable
               => [kind |-> "nullable_removed", column |-> c] \in Diff(s, t)
        BY <2>3, <2>5 DEF Diff, DiffButDefaults, Kept
      <3> QED BY <2>1, <3>1 DEF ChangeType, IsBreaking
    <2> QED BY <2>2, <2>3, <2>4, <2>5 DEF Accepts
  <1> QED BY <1>1, <1>2 DEF NonBreakingChange, Classified

LEMMA WidensComposes ==
    ASSUME NEW t \in Types, NEW u \in Types, NEW v \in Types, Widens(t, u), Widens(u, v)
    PROVE  Widens(t, v)
  BY SchemaAssumption DEF Widens, Known, IsWidening, Ordered, TextFamily

(* The changes that SchemaDiff and Classify let pass without a migration   *)
(* are a preorder on the schemas, which is what CatalogAssumption asks of  *)
(* NonBreaking.                                                            *)
THEOREM HarmlessIsPreorder ==
    /\ \A s \in Schemas : NonBreakingChange(s, s)
    /\ \A s, t, u \in Schemas :
          NonBreakingChange(s, t) /\ NonBreakingChange(t, u) => NonBreakingChange(s, u)
  <1>1. \A s \in Schemas : Accepts(s, s)
    BY DEF Accepts, Widens
  <1>2. ASSUME NEW s \in Schemas, NEW t \in Schemas, NEW u \in Schemas,
               Accepts(s, t), Accepts(t, u)
        PROVE  Accepts(s, u)
    BY <1>2, WidensComposes, ColumnType DEF Accepts
  <1> QED BY <1>1, <1>2, NonBreakingAccepts

LEMMA WiderHoldsMore ==
    ASSUME NEW t \in Types, NEW u \in Types, Widens(t, u),
           t.family = "decimal" => u.size - u.scale >= t.size - t.scale
    PROVE  Values(t) \subseteq Values(u)
  <1>1. /\ t.size \in Nat /\ t.scale \in Nat /\ u.size \in Nat /\ u.scale \in Nat
        /\ MaxLength \in Nat
        /\ t.family = "varchar" => t.size <= MaxLength
    BY SchemaAssumption
  <1>2. CASE t = u
    BY <1>2
  <1>3. CASE t.family = "varchar" /\ u.family = "text"
    BY <1>1, <1>3 DEF Values
  <1>4. CASE t.family = u.family /\ t.family \in Ordered /\ u.size >= t.size
    <2>1. CASE t.family = "decimal"
      <3>1. u.scale >= t.scale \/ t = u
        BY <1>4, <2>1 DEF Widens, IsWidening
      <3>2. CASE u.scale >= t.scale
        <4>1. 0 .. t.size - t.scale \subseteq 0 .. u.size - u.scale
          BY <1>1, <2>1
        <4>2. 0 .. t.scale \subseteq 0 .. u.scale
          BY <1>1, <3>2
        <4> QED BY <1>4, <2>1, <4>1, <4>2 DEF Values
      <3> QED BY <3>1, <3>2
    <2>2. CASE t.family # "decimal"
      <3>1. 0 .. t.size \subseteq 0 .. u.size
        BY <1>1, <1>4
      <3> QED BY <1>4, <2>2, <3>1 DEF Values, Ordered
    <2> QED BY <2>1, <2>2
  <1> QED BY <1>2, <1>3, <1>4 DEF Widens, IsWidening

SchemaInv == first \in Schemas /\ previous \in Schemas /\ current \in Schemas

LEMMA WithColumn ==
    ASSUME NEW s \in Schemas, NEW c \in ColumnNames, NEW d \in Columns \cup {Absent}
    PROVE  [s EXCEPT !.columns[c] = d] \in Schemas
  <1>1. s = [columns |-> s.columns, key |-> s.key]
        /\ s.columns \in [ColumnNames -> Columns \cup {Absent}] /\ s.key \in Seq(ColumnNames)
    BY DEF Schemas
  <1>2. [s EXCEPT !.columns[c] = d] = [columns |-> [s.columns EXCEPT ![c] = d], key |-> s.key]
    BY <1>1
  <1>3. [s.columns EXCEPT ![c] = d] \in [ColumnNames -> Columns \cup {Absent}]
    BY <1>1
  <1> QED BY <1>1, <1>2, <1>3 DEF Schemas

LEMMA KeyedIsSchema ==
    ASSUME NEW s \in Schemas, NEW k \in Seq(ColumnNames)
    PROVE  Keyed(s, k) \in Schemas
  <1>1. ASSUME NEW c \in ColumnNames, Has(s, c)
        PROVE  [s.columns[c] EXCEPT !.pk = c \in Range(k)] \in Columns
    <2>1. s.columns[c] \in Columns
      BY <1>1, ColumnType
    <2>2. \A b \in BOOLEAN : [s.columns[c] EXCEPT !.pk = b] \in Columns
      BY <2>1 DEF Columns
    <2>3. (c \in Range(k)) \in BOOLEAN
      OBVIOUS
    <2> QED BY <2>2, <2>3, Zenon
  <1> QED BY <1>1 DEF Keyed, Schemas

LEMMA EditedIsSchema ==
    ASSUME NEW s \in Schemas, NEW t \in Edited(s) PROVE t \in Schemas
  <1>1. CASE t \in Rekeyed(s)
    <2>1. <<>> \in Seq(ColumnNames) /\ \A c \in ColumnNames : <<c>> \in Seq(ColumnNames)
      OBVIOUS
    <2>2. \/ t = Keyed(s, <<>>)
          \/ \E c \in ColumnNames : t = Keyed(s, <<c>>)
      BY <1>1, Zenon DEF Rekeyed
    <2> QED BY <2>1, <2>2, KeyedIsSchema
  <1>4. CASE t \in Reflagged(s)
    <2>1. PICK c \in ColumnNames : Has(s, c) /\ t = [s EXCEPT !.columns[c].pk = ~ @]
      BY <1>4 DEF Reflagged
    <2>2. s.columns[c] \in Columns
      BY <2>1, ColumnType
    <2>3. [s.columns[c] EXCEPT !.pk = ~ @] \in Columns
      BY <2>2 DEF Columns
    <2>4. t = [s EXCEPT !.columns[c] = [s.columns[c] EXCEPT !.pk = ~ @]]
      BY <2>1
    <2> QED BY <2>3, <2>4, WithColumn
  <1>2. ASSUME NEW c \in ColumnNames, ~ Has(s, c), t \in Added(s, c) PROVE t \in Schemas
    <2>1. PICK d \in Columns : t = [s EXCEPT !.columns[c] = d]
      BY <1>2 DEF Added, Columns
    <2> QED BY <2>1, WithColumn
  <1>3. ASSUME NEW c \in ColumnNames, Has(s, c), t \in Altered(s, c) PROVE t \in Schemas
    <2>1. s.columns[c] \in Columns
      BY <1>3, ColumnType
    <2>2. /\ \A ty \in Types : [s.columns[c] EXCEPT !.type = ty] \in Columns
          /\ \A v \in {"none", "some"} : [s.columns[c] EXCEPT !.default = v] \in Columns
          /\ \A v \in {"", "text"} : [s.columns[c] EXCEPT !.comment = v] \in Columns
          /\ [s.columns[c] EXCEPT !.nullable = ~ @] \in Columns
      BY <2>1 DEF Columns
    <2>3. ASSUME NEW ty \in Types, t = [s EXCEPT !.columns[c].type = ty] PROVE t \in Schemas
      <3>1. t = [s EXCEPT !.columns[c] = [s.columns[c] EXCEPT !.type = ty]]
        BY <2>3
      <3> QED BY <2>2, <3>1, WithColumn
    <2>4. ASSUME NEW v, v \in {"none", "some"}, t = [s EXCEPT !.columns[c].default = v]
          PROVE  t \in Schemas
      <3>1. t = [s EXCEPT !.columns[c] = [s.columns[c] EXCEPT !.default = v]]
        BY <2>4
      <3>2. [s.columns[c] EXCEPT !.default = v] \in Columns
        BY <2>2, <2>4
      <3> QED BY <3>1, <3>2, WithColumn
    <2>5. ASSUME NEW v, v \in {"", "text"}, t = [s EXCEPT !.columns[c].comment = v]
          PROVE  t \in Schemas
      <3>1. t = [s EXCEPT !.columns[c] = [s.columns[c] EXCEPT !.comment = v]]
        BY <2>5
      <3>2. [s.columns[c] EXCEPT !.comment = v] \in Columns
        BY <2>2, <2>5
      <3> QED BY <3>1, <3>2, WithColumn
    <2>6. ASSUME t = [s EXCEPT !.columns[c].nullable = ~ @] PROVE t \in Schemas
      <3>1. t = [s EXCEPT !.columns[c] = [s.columns[c] EXCEPT !.nullable = ~ @]]
        BY <2>6
      <3> QED BY <2>2, <3>1, WithColumn
    <2>7. ASSUME t = Dropped(s, c) PROVE t \in Schemas
      <3>1. [s EXCEPT !.columns[c] = Absent] \in Schemas
        BY WithColumn
      <3>2. <<>> \in Seq(ColumnNames)
        OBVIOUS
      <3> QED BY <2>7, <3>1, <3>2, KeyedIsSchema DEF Dropped
    <2> QED BY <1>3, <2>3, <2>4, <2>5, <2>6, <2>7 DEF Altered
  <1> QED BY <1>1, <1>2, <1>3, <1>4 DEF Edited

LEMMA SchemasAlways == SchemaSpec => []SchemaInv
  <1>1. SchemaInit(Schemas) => SchemaInv
    BY DEF SchemaInit, SchemaInv
  <1>2. SchemaInv /\ [Recapture(TRUE)]_schemaVars => SchemaInv'
    BY EditedIsSchema DEF SchemaInv, Recapture, schemaVars
  <1> QED BY <1>1, <1>2, PTL DEF SchemaSpec

LEMMA AcceptsHoldsMore ==
    ASSUME NEW s \in Schemas, NEW t \in Schemas, Accepts(s, t), ~ IntegerDigitsLost(s, t),
           NEW c \in ColumnNames, Has(s, c)
    PROVE  Values(s.columns[c].type) \subseteq Values(t.columns[c].type)
  <1>1. /\ Has(t, c) /\ Widens(s.columns[c].type, t.columns[c].type)
        /\ s.columns[c].type \in Types /\ t.columns[c].type \in Types
    BY ColumnType DEF Accepts
  <1> DEFINE from == s.columns[c].type
             to == t.columns[c].type
  <1>2. from.family = "decimal" => to.family = "decimal"
    BY <1>1 DEF Widens, IsWidening
  <1>3. c \in Kept(s, t)
    BY <1>1 DEF Kept
  <1>4. from.family = "decimal" => to.size - to.scale >= from.size - from.scale
    BY <1>1, <1>2, <1>3, SchemaAssumption DEF IntegerDigitsLost
  <1> QED BY <1>1, <1>4, WiderHoldsMore

(* Two captures in a row that Classify finds harmless are harmless         *)
(* together: whoever reads the first schema reads the last one, but for a  *)
(* decimal that trades integer digits for scale.                           *)
THEOREM HarmlessChangesCompose == SchemaSpec => []HarmlessComposes
  <1>1. SchemaInv => HarmlessComposes
    <2> SUFFICES ASSUME SchemaInv PROVE HarmlessComposes
      OBVIOUS
    <2>1. /\ NonBreakingChange(first, previous) /\ NonBreakingChange(previous, current)
               => NonBreakingChange(first, current)
          /\ NonBreakingChange(first, current) <=> Accepts(first, current)
      BY HarmlessIsPreorder, NonBreakingAccepts DEF SchemaInv
    <2> QED BY <2>1, AcceptsHoldsMore DEF HarmlessComposes, SchemaInv, Accepts
  <1> QED BY <1>1, SchemasAlways, PTL

(* Two schemas have one hash exactly when they differ in comments at most, *)
(* and the columns' flags agree.                                           *)
SameButComments(s, t) ==
    /\ s.key = t.key
    /\ \A c \in ColumnNames :
         /\ Has(s, c) <=> Has(t, c)
         /\ Has(s, c) => /\ s.columns[c].type = t.columns[c].type
                         /\ s.columns[c].nullable = t.columns[c].nullable
                         /\ s.columns[c].default = t.columns[c].default

LEMMA HashTells ==
    ASSUME NEW s \in Schemas, NEW t \in Schemas
    PROVE  HashSchema(s) = HashSchema(t) <=> SameButComments(s, t) /\ SameFlags(s, t)
  <1> DEFINE cols(x) == {c \in ColumnNames : Has(x, c)}
             hash(x) == [c \in cols(x) |->
                           <<x.columns[c].type, x.columns[c].nullable,
                             x.columns[c].default, x.columns[c].pk>>]
  <1>1. HashSchema(s) = HashSchema(t) <=> s.key = t.key /\ hash(s) = hash(t)
    BY DEF HashSchema
  <1>2. ASSUME hash(s) = hash(t) PROVE cols(s) = cols(t)
    <2>1. DOMAIN hash(s) = cols(s) /\ DOMAIN hash(t) = cols(t)
      OBVIOUS
    <2> HIDE DEF hash
    <2> QED BY <1>2, <2>1
  <1>3. ASSUME hash(s) = hash(t), NEW c \in cols(s)
        PROVE  /\ s.columns[c].type = t.columns[c].type
               /\ s.columns[c].nullable = t.columns[c].nullable
               /\ s.columns[c].default = t.columns[c].default
               /\ s.columns[c].pk = t.columns[c].pk
    <2>1. c \in cols(t)
      BY <1>2, <1>3
    <2>2. /\ hash(s)[c] = <<s.columns[c].type, s.columns[c].nullable,
                            s.columns[c].default, s.columns[c].pk>>
          /\ hash(t)[c] = <<t.columns[c].type, t.columns[c].nullable,
                            t.columns[c].default, t.columns[c].pk>>
      BY <1>3, <2>1
    <2>3. hash(s)[c] = hash(t)[c]
      BY <1>3
    <2> HIDE DEF hash
    <2> QED BY <2>2, <2>3
  <1>4. ASSUME SameButComments(s, t), SameFlags(s, t) PROVE hash(s) = hash(t)
    <2>1. cols(s) = cols(t)
      BY <1>4 DEF SameButComments
    <2>2. \A c \in cols(s) : s.columns[c].pk = t.columns[c].pk
      BY <1>4, <2>1 DEF SameFlags, Kept
    <2> QED BY <1>4, <2>1, <2>2 DEF SameButComments
  <1>5. s.key = t.key /\ hash(s) = hash(t) => SameButComments(s, t)
    <2> HIDE DEF hash
    <2> QED BY <1>2, <1>3 DEF SameButComments
  <1>6. hash(s) = hash(t) => SameFlags(s, t)
    <2> HIDE DEF hash
    <2> QED BY <1>2, <1>3 DEF SameFlags, Kept
  <1> HIDE DEF hash
  <1> QED BY <1>1, <1>4, <1>5, <1>6 DEF SameButComments

LEMMA DiffTells ==
    ASSUME NEW s \in Schemas, NEW t \in Schemas
    PROVE  Classified(s, t) \subseteq {"comment_changed"} <=> SameButComments(s, t)
  <1>1. ASSUME SameButComments(s, t), NEW x \in Diff(s, t)
        PROVE  ChangeType(x, s, t) = "comment_changed"
    <2>1. x.kind = "comment_changed"
      BY <1>1 DEF SameButComments, Diff, DiffButDefaults, Kept
    <2> QED BY <2>1 DEF ChangeType
  <1>2. ASSUME \A x \in Diff(s, t) : ChangeType(x, s, t) = "comment_changed"
        PROVE  SameButComments(s, t)
    <2>1. \A x \in Diff(s, t) : x.kind = "comment_changed"
      BY <1>2 DEF ChangeType
    <2>2. s.key = t.key
      <3>1. s.key # t.key => [kind |-> "pk_changed", column |-> "none"] \in Diff(s, t)
        BY DEF Diff, DiffButDefaults
      <3> QED BY <2>1, <3>1
    <2>3. ASSUME NEW c \in ColumnNames PROVE Has(s, c) <=> Has(t, c)
      <3>1. Has(s, c) /\ ~ Has(t, c) => [kind |-> "column_dropped", column |-> c] \in Diff(s, t)
        BY DEF Diff, DiffButDefaults
      <3>2. ~ Has(s, c) /\ Has(t, c) => [kind |-> "column_added", column |-> c] \in Diff(s, t)
        BY DEF Diff, DiffButDefaults
      <3> QED BY <2>1, <3>1, <3>2
    <2>4. ASSUME NEW c \in ColumnNames, Has(s, c)
          PROVE  s.columns[c].type = t.columns[c].type
      <3>1. s.columns[c].type # t.columns[c].type
               => [kind |-> "type_widened", column |-> c] \in Diff(s, t)
        BY <2>3, <2>4 DEF Diff, DiffButDefaults, Kept
      <3> QED BY <2>1, <3>1
    <2>5. ASSUME NEW c \in ColumnNames, Has(s, c)
          PROVE  s.columns[c].nullable = t.columns[c].nullable
      <3>1. s.columns[c].nullable # t.columns[c].nullable
               => \E k \in {"nullable_added", "nullable_removed"} :
                     [kind |-> k, column |-> c] \in Diff(s, t)
        <4>1. /\ Has(t, c) /\ s.columns[c].nullable \in BOOLEAN
              /\ t.columns[c].nullable \in BOOLEAN
          BY <2>3, <2>5, ColumnType
        <4> QED BY <2>5, <4>1 DEF Diff, DiffButDefaults, Kept
      <3> QED BY <2>1, <3>1
    <2>6. ASSUME NEW c \in ColumnNames, Has(s, c)
          PROVE  s.columns[c].default = t.columns[c].default
      <3>1. s.columns[c].default # t.columns[c].default
               => [kind |-> "default_changed", column |-> c] \in Diff(s, t)
        BY <2>3, <2>6 DEF Diff, Kept
      <3> QED BY <2>1, <3>1
    <2> QED BY <2>2, <2>3, <2>4, <2>5, <2>6 DEF SameButComments
  <1> QED BY <1>1, <1>2 DEF Classified

(* Between schemas whose flags follow their keys, no flag changes without  *)
(* the key.                                                                *)
LEMMA DescribedFlags ==
    ASSUME NEW s \in Schemas, NEW t \in Schemas, Described(s), Described(t), s.key = t.key
    PROVE  SameFlags(s, t)
  <1>1. ASSUME NEW c \in Kept(s, t) PROVE s.columns[c].pk = t.columns[c].pk
    <2>1. /\ c \in ColumnNames /\ Has(s, c) /\ Has(t, c)
          /\ s.columns[c].pk \in BOOLEAN /\ t.columns[c].pk \in BOOLEAN
      BY ColumnType DEF Kept, Columns
    <2>2. (s.columns[c].pk <=> InKey(s, c)) /\ (t.columns[c].pk <=> InKey(s, c))
      BY <2>1 DEF Described, InKey
    <2> QED BY <2>1, <2>2, Zenon
  <1> QED BY <1>1 DEF SameFlags

(* HashSchema and Diff agree on what a new version is, but for the flags   *)
(* that only the hash reads: a capture is skipped as unchanged exactly     *)
(* when a comment is all that Diff could report and no kept column changed *)
(* its flag, and where a descriptor reports the flags the first decides.   *)
THEOREM HashDecidesVersions == SchemaSpec => []HashFollowsDiff
  <1>1. SchemaInv => HashFollowsDiff
    <2> SUFFICES ASSUME SchemaInv PROVE HashFollowsDiff
      OBVIOUS
    <2>1. previous \in Schemas /\ current \in Schemas
      BY DEF SchemaInv
    <2>2. /\ HashSchema(previous) = HashSchema(current)
               <=> SameButComments(previous, current) /\ SameFlags(previous, current)
          /\ Classified(previous, current) \subseteq {"comment_changed"}
               <=> SameButComments(previous, current)
      BY <2>1, HashTells, DiffTells
    <2>3. Described(previous) /\ Described(current) /\ SameButComments(previous, current)
             => SameFlags(previous, current)
      BY <2>1, DescribedFlags DEF SameButComments
    <2> QED BY <2>2, <2>3, Zenon DEF HashFollowsDiff
  <1> QED BY <1>1, SchemasAlways, PTL
=============================================================================
