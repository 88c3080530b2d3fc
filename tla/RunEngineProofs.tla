-------------------------- MODULE RunEngineProofs --------------------------
(***************************************************************************)
(* Proofs about RunEngine for any number of runs, workers, tags and steps, *)
(* and for any number of crashes, failing statements and stalls: the row   *)
(* of a run keeps the promises of RunLifecycle, concurrent reapers reset a *)
(* claim at most once, an in-flight row can always be reaped, and the      *)
(* token table stays within the limits. As long as workers heartbeat in    *)
(* time, no run is executed twice at once and the functions that run need  *)
(* no more of a tag than its limit; and as long as no statement fails      *)
(* either, the events say what the rows say.                               *)
(***************************************************************************)
EXTENDS RunEngine, FiniteSetTheorems, FunctionTheorems, TLAPS

(* A worker in or before the token loop has requests left.                 *)
RequestsLeft ==
    \A w \in Workers : pc[w] \in {"gate", "acquire"} => held[w] < Len(Need(w))

(* A claimer holds the lock of a queued row; nobody else claims that row.  *)
ClaimsAreLocks ==
    \A w \in Workers : pc[w] = "claiming" =>
        /\ state[job[w]] = "queued"
        /\ \A v \in Workers \ {w} : pc[v] = "claiming" => job[v] # job[w]

(* A worker inside Run works on a run that exists, has committed every     *)
(* step before its current one, and all of them once it is done.           *)
StepsInOrder ==
    /\ \A r \in Runs : done[r] \subseteq StepsOf[r]
    /\ \A w \in Workers :
         /\ pc[w] \in InRun => state[job[w]] # "absent"
         /\ pc[w] \in InStep => \A i \in 1 .. (step[w] - 1) : i \in done[job[w]]
         /\ pc[w] = "succeeding" => done[job[w]] = StepsOf[job[w]]

(* What holds of the rows whatever fails.                                  *)
RowInv == /\ ClaimsAreLocks
          /\ StepsInOrder
          /\ InFlightReapable
          /\ OneResetPerClaim
          /\ SucceededMeansCommitted

(* What heartbeats in time add: a worker inside Run is the claimant of its *)
(* row, nobody else executes it, and no reaper has it in its sights.       *)
OwnsRun(w) ==
    LET r == job[w] IN
    /\ claimedBy[r] = w
    /\ state[r] \notin {"absent", "queued"}
    /\ pc[w] = "starting" => state[r] = "starting"
    /\ pc[w] \in InStep => state[r] = "running"
    /\ state[r] \in InFlight => heartbeat[r] = "fresh"
    /\ \A v \in Workers : r \notin old[v]
    /\ \A v \in Workers \ {w} : pc[v] \in InRun => job[v] # r

(* The inductive invariant of an engine in which no heartbeat was late.    *)
OwnershipInv ==
    /\ stalls = MaxStalls
    /\ \A w \in Workers : pc[w] \in InRun => OwnsRun(w)

-----------------------------------------------------------------------------
(* Helpers of the model                                                    *)

(* The requests of an attempt are well typed, and there is at least the    *)
(* one for the global tag.                                                 *)
LEMMA RequestsType ==
    ASSUME NEW r \in Runs, NEW a \in Assets
    PROVE  /\ Requests(r, a) \in Seq([tag : Tags, weight : Int])
           /\ Len(Requests(r, a)) \in Nat /\ Len(Requests(r, a)) > 0
  <1> USE ConstantsAssumption
  <1> DEFINE R == [tag : Tags, weight : Int]
             q(t) == [tag |-> t, weight |-> 1]
             B == IF Priority[r] = "backfill" THEN <<q("backfill")>> ELSE <<>>
  <1>1. Resources[a] \in Seq(R)
    OBVIOUS
  <1>2. B \in Seq(R) /\ <<q("global")>> \in Seq(R)
    <2>1. q("global") \in R /\ q("backfill") \in R
      OBVIOUS
    <2> HIDE DEF q, R
    <2>2. <<q("global")>> \in Seq(R) /\ <<q("backfill")>> \in Seq(R) /\ <<>> \in Seq(R)
      BY <2>1
    <2> QED BY <2>2
  <1>3. Requests(r, a) = <<q("global")>> \o B \o Resources[a]
    BY DEF Requests
  <1> HIDE DEF B, q, R
  <1>4. <<q("global")>> \o B \in Seq(R)
    BY <1>2
  <1>5. Requests(r, a) \in Seq(R)
    BY <1>1, <1>3, <1>4
  <1>6. Len(Requests(r, a)) = 1 + Len(B) + Len(Resources[a])
    BY <1>1, <1>2, <1>3, <1>4
  <1>7. Len(B) \in Nat /\ Len(Resources[a]) \in Nat
    BY <1>1, <1>2
  <1> QED BY <1>5, <1>6, <1>7 DEF R

LEMMA ElementType ==
    ASSUME NEW R, NEW s \in Seq(R), NEW n \in Nat, n < Len(s)
    PROVE  s[n + 1] \in R
  <1>1. Len(s) \in Nat
    OBVIOUS
  <1>2. n + 1 \in 1 .. Len(s)
    BY <1>1
  <1> QED BY <1>2

LEMMA PlanType ==
    ASSUME NEW r \in Runs
    PROVE  /\ Len(Plan[r]) \in Nat /\ 1 \in StepsOf[r]
           /\ StepsOf[r] = 1 .. Len(Plan[r])
           /\ \A i \in StepsOf[r] : Plan[r][i] \in Assets
  <1>1. Plan[r] \in Seq(Assets) /\ Plan[r] # <<>>
    BY ConstantsAssumption
  <1>2. Len(Plan[r]) \in Nat /\ Len(Plan[r]) # 0
    BY <1>1
  <1>3. StepsOf[r] = 1 .. Len(Plan[r])
    BY DEF StepsOf
  <1> QED BY <1>1, <1>2, <1>3

LEMMA NeedType ==
    ASSUME TypeOK, NEW w \in Workers, pc[w] \in InStep
    PROVE  /\ job[w] \in Runs /\ StepAsset(w) \in Assets
           /\ Need(w) \in Seq([tag : Tags, weight : Int])
           /\ Len(Need(w)) \in Nat /\ Len(Need(w)) > 0
  <1>1. job[w] \in Runs /\ step[w] \in StepsOf[job[w]]
    BY DEF TypeOK, InStep
  <1>2. StepAsset(w) \in Assets
    BY <1>1, PlanType DEF StepAsset
  <1> QED BY <1>1, <1>2, RequestsType DEF Need

(* Rows leave the token table together with their age marks.               *)
LEMMA DropType ==
    ASSUME TypeOK, NEW gone, DropTokens(gone)
    PROVE  tokens' \subseteq Token /\ aged' \subseteq tokens'
  BY DEF TypeOK, DropTokens

(* The units an INSERT adds are units of the run and the tag asked for.    *)
LEMMA InsertType ==
    ASSUME TypeOK, NEW w \in Workers, job[w] \in Runs,
           NEW q \in [tag : Tags, weight : Int], UnitsLeft(q)
    PROVE  Insert(w, q) \subseteq Token
  BY DEF UnitsLeft, Insert, Token, FreeUnits

(* Where runStep goes after a failed attempt.                              *)
LEMMA RetryOrFailType ==
    ASSUME TypeOK, NEW w \in Workers, pc[w] \in InStep, NEW e \in Errors,
           RetryOrFail(w, e)
    PROVE  /\ \/ pc' = [pc EXCEPT ![w] = "acquire"]
              \/ pc' = [pc EXCEPT ![w] = "failing"]
           /\ attempt' \in [Workers -> Nat]
           /\ held' = [held EXCEPT ![w] = 0]
           /\ err' \in [Workers -> Errors]
  BY DEF TypeOK, RetryOrFail, StepFails, Goto

(* TypeOK, part by part.                                                   *)
RowTypes == /\ state \in [Runs -> States]
            /\ claimedBy \in [Runs -> Workers \cup {NoWorker}]
            /\ heartbeat \in [Runs -> {"null", "fresh", "stale"}]
            /\ queuedAt \in [Runs -> Nat]
TokenTypes == tokens \subseteq Token /\ aged \subseteq tokens
WorkerTypes ==
    /\ pc \in [Workers -> PC]
    /\ job \in [Workers -> Runs \cup {NoRun}]
    /\ step \in [Workers -> Nat]
    /\ attempt \in [Workers -> Nat]
    /\ held \in [Workers -> Nat]
    /\ err \in [Workers -> Errors]
    /\ \A w \in Workers : /\ job[w] = NoRun <=> pc[w] \in {"down", "idle"}
                          /\ pc[w] \in InStep => step[w] \in StepsOf[job[w]]
    /\ RequestsLeft
SweepTypes == cand \in [Workers -> SUBSET Runs] /\ old \in [Workers -> SUBSET Runs]
HistTypes == /\ done \in [Runs -> SUBSET Nat]
             /\ events \subseteq Runs \X {"succeeded", "failed"}
             /\ outstanding \in [Runs -> Int]
BoundTypes == crashes \in Nat /\ dbFaults \in Nat /\ stalls \in Nat

Types == RowTypes /\ TokenTypes /\ WorkerTypes /\ SweepTypes /\ HistTypes /\ BoundTypes

LEMMA TypeParts == Types <=> TypeOK /\ RequestsLeft
  BY DEF Types, TypeOK, RowTypes, TokenTypes, WorkerTypes, SweepTypes, HistTypes, BoundTypes

(* Parts that a step leaves alone.                                         *)
LEMMA TypesUnchanged ==
    /\ RowTypes /\ UNCHANGED rowVars => RowTypes'
    /\ TokenTypes /\ UNCHANGED tokenVars => TokenTypes'
    /\ WorkerTypes /\ UNCHANGED workerVars => WorkerTypes'
    /\ SweepTypes /\ UNCHANGED sweepVars => SweepTypes'
    /\ HistTypes /\ UNCHANGED histVars => HistTypes'
    /\ BoundTypes /\ UNCHANGED boundVars => BoundTypes'
  BY DEF RowTypes, TokenTypes, WorkerTypes, SweepTypes, HistTypes, BoundTypes,
     RequestsLeft, Need, StepAsset, rowVars, tokenVars, workerVars, sweepVars,
     histVars, boundVars
(* What the worker part needs of the other workers: their requests depend  *)
(* on their own job and step only.                                         *)
LEMMA OthersKeepTypes ==
    ASSUME WorkerTypes, NEW w \in Workers,
           \A v \in Workers \ {w} :
               /\ pc'[v] = pc[v] /\ job'[v] = job[v]
               /\ step'[v] = step[v] /\ held'[v] = held[v],
           pc' \in [Workers -> PC], job' \in [Workers -> Runs \cup {NoRun}],
           step' \in [Workers -> Nat], attempt' \in [Workers -> Nat],
           held' \in [Workers -> Nat], err' \in [Workers -> Errors],
           job'[w] = NoRun <=> pc'[w] \in {"down", "idle"},
           pc'[w] \in InStep => step'[w] \in StepsOf[job'[w]],
           pc'[w] \in {"gate", "acquire"} => held'[w] < Len(Need(w)')
    PROVE  WorkerTypes'
  <1>1. \A v \in Workers \ {w} : Need(v)' = Need(v)
    BY DEF Need, StepAsset
  <1>2. RequestsLeft'
    <2> SUFFICES ASSUME NEW v \in Workers, pc'[v] \in {"gate", "acquire"}
                 PROVE  held'[v] < Len(Need(v)')
      BY DEF RequestsLeft
    <2>1. CASE v = w
      BY <2>1
    <2>2. CASE v # w
      BY <2>2, <1>1 DEF WorkerTypes, RequestsLeft
    <2> QED BY <2>1, <2>2
  <1> QED BY <1>2 DEF WorkerTypes

(* Run returns to the claim loop.                                          *)
LEMMA ReturnType ==
    ASSUME WorkerTypes, NEW w \in Workers, Return(w)
    PROVE  WorkerTypes'
  <1>1. /\ pc' \in [Workers -> PC] /\ job' \in [Workers -> Runs \cup {NoRun}]
        /\ step' \in [Workers -> Nat] /\ attempt' \in [Workers -> Nat]
        /\ held' \in [Workers -> Nat] /\ err' \in [Workers -> Errors]
        /\ pc'[w] = "idle" /\ job'[w] = NoRun
        /\ \A v \in Workers \ {w} :
               /\ pc'[v] = pc[v] /\ job'[v] = job[v]
               /\ step'[v] = step[v] /\ held'[v] = held[v]
    BY DEF WorkerTypes, Return, Goto, PC, Errors
  <1> QED BY <1>1, OthersKeepTypes DEF InStep

(* A worker moves on inside Run without changing its job.                  *)
LEMMA MoveType ==
    ASSUME WorkerTypes, NEW w \in Workers, NEW l \in InRun,
           pc' = [pc EXCEPT ![w] = l], UNCHANGED job, pc[w] \notin {"down", "idle"},
           step' \in [Workers -> Nat], attempt' \in [Workers -> Nat],
           held' \in [Workers -> Nat], err' \in [Workers -> Errors],
           \A v \in Workers \ {w} : step'[v] = step[v] /\ held'[v] = held[v],
           l \in InStep => step'[w] \in StepsOf[job[w]],
           l \in {"gate", "acquire"} => held'[w] < Len(Need(w)')
    PROVE  WorkerTypes'
  <1>1. /\ pc' \in [Workers -> PC] /\ job' \in [Workers -> Runs \cup {NoRun}]
        /\ pc'[w] = l /\ job'[w] = job[w]
        /\ \A v \in Workers \ {w} : pc'[v] = pc[v] /\ job'[v] = job[v]
    BY DEF WorkerTypes, PC
  <1>2. job'[w] = NoRun <=> pc'[w] \in {"down", "idle"}
    BY <1>1 DEF WorkerTypes, InRun
  <1> QED BY <1>1, <1>2, OthersKeepTypes

(* The attempt is repeated or the step ends in an error.                   *)
LEMMA RetryType ==
    ASSUME TypeOK, WorkerTypes, NEW w \in Workers, pc[w] \in {"acquire", "materialize"},
           NEW e \in Errors, RetryOrFail(w, e), UNCHANGED <<job, step>>
    PROVE  WorkerTypes'
  <1>0. pc[w] \in InStep
    BY DEF InStep
  <1>1. /\ \/ pc' = [pc EXCEPT ![w] = "acquire"]
           \/ pc' = [pc EXCEPT ![w] = "failing"]
        /\ attempt' \in [Workers -> Nat]
        /\ held' = [held EXCEPT ![w] = 0]
        /\ err' \in [Workers -> Errors]
    BY <1>0, RetryOrFailType
  <1>2. Need(w)' = Need(w) /\ Len(Need(w)) > 0
    BY <1>0, NeedType DEF Need, StepAsset
  <1>3. /\ held' \in [Workers -> Nat] /\ step' \in [Workers -> Nat] /\ held'[w] = 0
        /\ \A v \in Workers \ {w} : step'[v] = step[v] /\ held'[v] = held[v]
        /\ step'[w] \in StepsOf[job[w]]
    BY <1>0, <1>1 DEF WorkerTypes
  <1>4. CASE pc' = [pc EXCEPT ![w] = "acquire"]
    BY <1>1, <1>2, <1>3, <1>4, MoveType DEF InRun
  <1>5. CASE pc' = [pc EXCEPT ![w] = "failing"]
    BY <1>1, <1>2, <1>3, <1>5, MoveType DEF InRun
  <1> QED BY <1>1, <1>4, <1>5

(* The step ends in an error.                                              *)
LEMMA StepFailsType ==
    ASSUME WorkerTypes, NEW w \in Workers, pc[w] \in InStep,
           NEW e \in Errors, StepFails(w, e), UNCHANGED <<job, step>>
    PROVE  WorkerTypes'
  <1>1. /\ pc' = [pc EXCEPT ![w] = "failing"] /\ "failing" \in InRun
        /\ held' \in [Workers -> Nat] /\ step' \in [Workers -> Nat]
        /\ attempt' \in [Workers -> Nat] /\ err' \in [Workers -> Errors]
        /\ \A v \in Workers \ {w} : step'[v] = step[v] /\ held'[v] = held[v]
        /\ step'[w] \in StepsOf[job[w]]
    BY DEF WorkerTypes, StepFails, Goto, InRun
  <1> QED BY <1>1, MoveType DEF InStep

(* A worker begins step i.                                                 *)
LEMMA BeginStepType ==
    ASSUME WorkerTypes, NEW w \in Workers, job[w] \in Runs, NEW i \in StepsOf[job[w]],
           pc[w] \notin {"down", "idle"}, BeginStep(w, i), UNCHANGED <<job, err>>
    PROVE  WorkerTypes'
  <1>0. i \in Nat
    BY PlanType
  <1>1. /\ pc' = [pc EXCEPT ![w] = "gate"] /\ "gate" \in InRun
        /\ held' \in [Workers -> Nat] /\ step' \in [Workers -> Nat]
        /\ attempt' \in [Workers -> Nat] /\ err' \in [Workers -> Errors]
        /\ \A v \in Workers \ {w} : step'[v] = step[v] /\ held'[v] = held[v]
        /\ step'[w] = i /\ held'[w] = 0
    BY <1>0 DEF WorkerTypes, BeginStep, Goto, InRun
  <1>2. Need(w)' = Requests(job[w], Plan[job[w]][i])
    BY <1>1 DEF Need, StepAsset
  <1>3. held'[w] < Len(Need(w)')
    BY <1>1, <1>2, PlanType, RequestsType
  <1> QED BY <1>1, <1>3, MoveType

(* The claim UPDATE.                                                       *)
LEMMA ClaimRowType ==
    ASSUME RowTypes, SweepTypes, HistTypes, NEW w \in Workers, job[w] \in Runs,
           ClaimRow(w)
    PROVE  RowTypes' /\ SweepTypes' /\ HistTypes'
  <1>1. RowTypes'
    BY DEF ClaimRow, RowTypes, States, InFlight
  <1>2. SweepTypes'
    BY DEF ClaimRow, ForgetOld, SweepTypes
  <1>3. HistTypes'
    BY DEF ClaimRow, HistTypes
  <1> QED BY <1>1, <1>2, <1>3

LEMMA DbFaultType == BoundTypes /\ DbFault => BoundTypes'
  BY DEF BoundTypes, DbFault

LEMMA ReleaseType ==
    ASSUME TypeOK, NEW w, ReleaseAcquired(w)
    PROVE  TokenTypes' /\ BoundTypes'
  <1>1. TokenTypes'
    BY DropType DEF ReleaseAcquired, TokenTypes
  <1>2. BoundTypes'
    BY DEF ReleaseAcquired, DbFault, boundVars, BoundTypes, TypeOK
  <1> QED BY <1>1, <1>2
-----------------------------------------------------------------------------
(* Types                                                                   *)

LEMMA InitTypes == Init => Types
  <1>1. Init => TypeOK /\ RequestsLeft
    BY ConstantsAssumption
       DEF Init, TypeOK, RequestsLeft, States, PC, Errors, InStep
  <1> QED BY <1>1, TypeParts

(* Every step of Next keeps the types.                                     *)
LEMMA NextTypes == Types /\ [Next]_vars => Types'
  <1> SUFFICES ASSUME Types, [Next]_vars
               PROVE  Types'
    OBVIOUS
  <1> USE ConstantsAssumption
  <1>0. /\ TypeOK /\ RowTypes /\ TokenTypes /\ WorkerTypes
        /\ SweepTypes /\ HistTypes /\ BoundTypes
    BY TypeParts DEF Types
  <1>1. ASSUME NEW r \in Runs, Enqueue(r)
        PROVE  Types'
    <2>0. Cardinality({q \in Runs : state[q] # "absent"}) \in Nat
      <3>1. IsFiniteSet({q \in Runs : state[q] # "absent"})
        BY FS_Subset
      <3> QED BY <3>1, FS_CardinalityType
    <2>1. RowTypes'
      BY <1>0, <1>1, <2>0 DEF Enqueue, RowTypes, States
    <2>2. TokenTypes' /\ WorkerTypes' /\ SweepTypes' /\ HistTypes' /\ BoundTypes'
      BY <1>0, <1>1, TypesUnchanged DEF Enqueue, rowVars, tokenVars, workerVars,
         sweepVars, histVars, boundVars
    <2> QED BY <2>1, <2>2 DEF Types
  <1>2. ASSUME NEW r \in Runs, Expire(r)
        PROVE  Types'
    <2>1. RowTypes' /\ BoundTypes'
      BY <1>0, <1>2 DEF Expire, RowTypes, BoundTypes
    <2>2. TokenTypes' /\ WorkerTypes' /\ SweepTypes' /\ HistTypes'
      BY <1>0, <1>2, TypesUnchanged DEF Expire, rowVars, tokenVars, workerVars,
         sweepVars, histVars, boundVars
    <2> QED BY <2>1, <2>2 DEF Types
  <1>3. ASSUME NEW w \in Workers, ClaimSelect(w)
        PROVE  Types'
    <2>1. WorkerTypes'
      <3>1. PICK r \in Runs : job' = [job EXCEPT ![w] = r]
        BY <1>3 DEF ClaimSelect
      <3>2. /\ pc' \in [Workers -> PC] /\ job' \in [Workers -> Runs \cup {NoRun}]
            /\ UNCHANGED <<step, attempt, held, err>>
            /\ pc'[w] = "claiming" /\ job'[w] = r /\ r # NoRun
            /\ \A v \in Workers \ {w} : pc'[v] = pc[v] /\ job'[v] = job[v]
        BY <1>0, <1>3, <3>1 DEF ClaimSelect, WorkerTypes, Goto, PC
      <3>3. /\ step' \in [Workers -> Nat] /\ attempt' \in [Workers -> Nat]
            /\ held' \in [Workers -> Nat] /\ err' \in [Workers -> Errors]
            /\ \A v \in Workers \ {w} : step'[v] = step[v] /\ held'[v] = held[v]
        BY <1>0, <3>2 DEF WorkerTypes
      <3> QED BY <1>0, <3>2, <3>3, OthersKeepTypes DEF InStep
    <2>2. RowTypes' /\ TokenTypes' /\ SweepTypes' /\ HistTypes' /\ BoundTypes'
      BY <1>0, <1>3, TypesUnchanged DEF ClaimSelect, rowVars, tokenVars, workerVars,
         sweepVars, histVars, boundVars
    <2> QED BY <2>1, <2>2 DEF Types
  <1>4. ASSUME NEW w \in Workers, ClaimCommit(w)
        PROVE  Types'
    <2>1. job[w] \in Runs
      BY <1>0, <1>4 DEF ClaimCommit, WorkerTypes
    <2>2. WorkerTypes'
      BY <1>0, <1>4, MoveType DEF ClaimCommit, WorkerTypes, Goto, InRun, InStep
    <2>3. RowTypes' /\ SweepTypes' /\ HistTypes'
      BY <1>0, <1>4, <2>1, ClaimRowType DEF ClaimCommit
    <2>4. TokenTypes' /\ BoundTypes'
      BY <1>0, <1>4, TypesUnchanged DEF ClaimCommit, ClaimRow, tokenVars, boundVars
    <2> QED BY <2>1, <2>2, <2>3, <2>4 DEF Types
  <1>5. ASSUME NEW w \in Workers, ClaimFault(w)
        PROVE  Types'
    <2>1. job[w] \in Runs
      BY <1>0, <1>5 DEF ClaimFault, WorkerTypes
    <2>2. WorkerTypes' /\ BoundTypes'
      BY <1>0, <1>5, ReturnType, DbFaultType DEF ClaimFault
    <2>3. RowTypes' /\ SweepTypes' /\ HistTypes'
      BY <1>0, <1>5, <2>1, ClaimRowType, TypesUnchanged DEF ClaimFault
    <2>4. TokenTypes'
      BY <1>0, <1>5, TypesUnchanged DEF ClaimFault, ClaimRow, tokenVars
    <2> QED BY <2>1, <2>2, <2>3, <2>4 DEF Types
  <1>6. ASSUME NEW w \in Workers, Start(w)
        PROVE  Types'
    <2>1. job[w] \in Runs /\ 1 \in StepsOf[job[w]]
      BY <1>0, <1>6, PlanType DEF Start, WorkerTypes
    <2>2. WorkerTypes'
      BY <1>0, <1>6, <2>1, BeginStepType DEF Start
    <2>3. RowTypes'
      BY <1>0, <1>6, <2>1 DEF Start, Transition, RowTypes, States, InFlight
    <2>4. TokenTypes' /\ SweepTypes' /\ HistTypes' /\ BoundTypes'
      BY <1>0, <1>6, TypesUnchanged DEF Start, rowVars, tokenVars, workerVars,
         sweepVars, histVars, boundVars
    <2> QED BY <2>1, <2>2, <2>3, <2>4 DEF Types
  <1>7. ASSUME NEW w \in Workers, StartFault(w)
        PROVE  Types'
    <2>1. job[w] \in Runs
      BY <1>0, <1>7 DEF StartFault, WorkerTypes
    <2>2. WorkerTypes' /\ BoundTypes'
      BY <1>0, <1>7, ReturnType, DbFaultType DEF StartFault
    <2>3. RowTypes'
      BY <1>0, <1>7, <2>1 DEF StartFault, Transition, RowTypes, States, InFlight
    <2>4. TokenTypes' /\ SweepTypes' /\ HistTypes'
      BY <1>0, <1>7, TypesUnchanged DEF StartFault, rowVars, tokenVars, workerVars,
         sweepVars, histVars, boundVars
    <2> QED BY <2>1, <2>2, <2>3, <2>4 DEF Types
  <1>8. ASSUME NEW w \in Workers, Unresolvable(w)
        PROVE  Types'
    <2>1. WorkerTypes'
      BY <1>0, <1>8, ReturnType DEF Unresolvable
    <2>2. RowTypes' /\ TokenTypes' /\ SweepTypes' /\ HistTypes' /\ BoundTypes'
      BY <1>0, <1>8, TypesUnchanged DEF Unresolvable, rowVars, tokenVars, workerVars,
         sweepVars, histVars, boundVars
    <2> QED BY <2>1, <2>2 DEF Types
  <1>9. ASSUME NEW w \in Workers, Gate(w)
        PROVE  Types'
    <2>1. pc[w] \in InStep
      BY <1>9 DEF Gate, InStep
    <2>2. job[w] \in Runs /\ step[w] \in StepsOf[job[w]] /\ held[w] < Len(Need(w)) /\ Need(w)' = Need(w)
      BY <1>0, <1>9, <2>1, NeedType DEF Gate, WorkerTypes, RequestsLeft, Need, StepAsset
    <2>3. WorkerTypes'
      <3>1. CASE StepFails(w, "gate")
        BY <1>0, <1>9, <2>1, <3>1, StepFailsType DEF Gate, Errors
      <3>2. CASE Goto(w, "acquire") /\ UNCHANGED <<attempt, held, err>>
        BY <1>0, <1>9, <2>1, <2>2, <3>2, MoveType DEF Gate, WorkerTypes, Goto, InRun
      <3> QED BY <1>9, <3>1, <3>2 DEF Gate
    <2>4. RowTypes' /\ TokenTypes' /\ SweepTypes' /\ HistTypes' /\ BoundTypes'
      BY <1>0, <1>9, TypesUnchanged DEF Gate, rowVars, tokenVars, workerVars,
         sweepVars, histVars, boundVars
    <2> QED BY <2>1, <2>2, <2>3, <2>4 DEF Types
  <1>10. ASSUME NEW w \in Workers, AcquireOk(w)
        PROVE  Types'
    <2>1. pc[w] \in InStep
      BY <1>10 DEF AcquireOk, InStep
    <2>2. /\ job[w] \in Runs /\ step[w] \in StepsOf[job[w]] /\ held[w] < Len(Need(w))
          /\ Need(w) \in Seq([tag : Tags, weight : Int]) /\ Len(Need(w)) \in Nat
          /\ Need(w)' = Need(w) /\ held[w] \in Nat
      BY <1>0, <1>10, <2>1, NeedType DEF AcquireOk, WorkerTypes, RequestsLeft, Need, StepAsset
    <2>3. TokenTypes'
      <3>1. Need(w)[held[w] + 1] \in [tag : Tags, weight : Int]
        BY <2>2, ElementType
      <3> QED BY <1>0, <1>10, <2>2, <3>1, InsertType DEF AcquireOk, TokenTypes
    <2>4. WorkerTypes'
      <3>1. /\ held' \in [Workers -> Nat] /\ held'[w] = held[w] + 1
            /\ step' \in [Workers -> Nat] /\ attempt' \in [Workers -> Nat]
            /\ err' \in [Workers -> Errors]
            /\ \A v \in Workers \ {w} : step'[v] = step[v] /\ held'[v] = held[v]
        BY <1>0, <1>10 DEF AcquireOk, WorkerTypes
      <3>2. CASE held[w] + 1 = Len(Need(w))
        BY <1>0, <1>10, <2>2, <3>1, <3>2, MoveType DEF AcquireOk, Goto, InRun
      <3>3. CASE held[w] + 1 # Len(Need(w))
        <4>1. pc' = [pc EXCEPT ![w] = "acquire"]
          BY <1>0, <1>10, <3>3 DEF AcquireOk, WorkerTypes
        <4>2. held'[w] < Len(Need(w)')
          BY <2>2, <3>1, <3>3
        <4> QED BY <1>0, <1>10, <2>2, <3>1, <4>1, <4>2, MoveType DEF AcquireOk, InRun
      <3> QED BY <3>2, <3>3
    <2>5. RowTypes' /\ SweepTypes' /\ HistTypes' /\ BoundTypes'
      BY <1>0, <1>10, TypesUnchanged DEF AcquireOk, rowVars, tokenVars, workerVars,
         sweepVars, histVars, boundVars
    <2> QED BY <2>1, <2>2, <2>3, <2>4, <2>5 DEF Types
  <1>11. ASSUME NEW w \in Workers, AcquireMiss(w)
        PROVE  Types'
    <2>1. TokenTypes' /\ BoundTypes'
      BY <1>0, <1>11, ReleaseType DEF AcquireMiss
    <2>2. WorkerTypes'
      BY <1>0, <1>11, RetryType DEF AcquireMiss, Errors
    <2>3. RowTypes' /\ SweepTypes' /\ HistTypes'
      BY <1>0, <1>11, TypesUnchanged DEF AcquireMiss, rowVars, tokenVars, workerVars,
         sweepVars, histVars, boundVars
    <2> QED BY <2>1, <2>2, <2>3 DEF Types
  <1>12. ASSUME NEW w \in Workers, AcquireFault(w)
        PROVE  Types'
    <2>1. pc[w] \in InStep
      BY <1>12 DEF AcquireFault, InStep
    <2>2. /\ job[w] \in Runs
          /\ Need(w)[held[w] + 1] \in [tag : Tags, weight : Int]
      <3>1. /\ held[w] < Len(Need(w)) /\ held[w] \in Nat /\ job[w] \in Runs
            /\ Need(w) \in Seq([tag : Tags, weight : Int]) /\ Len(Need(w)) \in Nat
        BY <1>0, <1>12, <2>1, NeedType DEF AcquireFault, WorkerTypes, RequestsLeft
      <3> QED BY <3>1, ElementType
    <2>3. TokenTypes'
      <3> DEFINE q == Need(w)[held[w] + 1]
      <3>1. UnitsLeft(q) => Insert(w, q) \subseteq Token
        BY <1>0, <2>2, InsertType
      <3>2. PICK add, lost :
              /\ add \subseteq Token
              /\ tokens' = (tokens \cup add) \ Released(w, tokens \cup add, lost)
              /\ aged' = aged \ Released(w, tokens, lost)
        <4> HIDE DEF q
        <4> QED BY <1>12, <3>1 DEF AcquireFault, q
      <3>3. ASSUME NEW k \in aged, k \in Released(w, tokens \cup add, lost)
            PROVE  k \in Released(w, tokens, lost)
        BY <1>0, <3>3 DEF Released, TokenTypes
      <3> QED BY <1>0, <3>2, <3>3 DEF TokenTypes
    <2>4. WorkerTypes' /\ BoundTypes'
      BY <1>0, <1>12, RetryType, DbFaultType DEF AcquireFault, Errors
    <2>5. RowTypes' /\ SweepTypes' /\ HistTypes'
      BY <1>0, <1>12, TypesUnchanged DEF AcquireFault, rowVars, tokenVars, workerVars,
         sweepVars, histVars, boundVars
    <2> QED BY <2>1, <2>2, <2>3, <2>4, <2>5 DEF Types
  <1>13. ASSUME NEW w \in Workers, MaterializeOk(w)
        PROVE  Types'
    <2>1. TokenTypes' /\ BoundTypes'
      BY <1>0, <1>13, ReleaseType DEF MaterializeOk
    <2>2. WorkerTypes'
      <3>1. /\ held' \in [Workers -> Nat] /\ step' \in [Workers -> Nat]
            /\ attempt' \in [Workers -> Nat] /\ err' \in [Workers -> Errors]
            /\ \A v \in Workers \ {w} : step'[v] = step[v] /\ held'[v] = held[v]
            /\ step'[w] \in StepsOf[job[w]]
        BY <1>0, <1>13 DEF MaterializeOk, WorkerTypes, InStep
      <3> QED BY <1>0, <1>13, <3>1, MoveType DEF MaterializeOk, Goto, InRun
    <2>3. RowTypes' /\ SweepTypes' /\ HistTypes'
      BY <1>0, <1>13, TypesUnchanged DEF MaterializeOk, rowVars, tokenVars, workerVars,
         sweepVars, histVars, boundVars
    <2> QED BY <2>1, <2>2, <2>3 DEF Types
  <1>14. ASSUME NEW w \in Workers, MaterializeErr(w)
        PROVE  Types'
    <2>1. TokenTypes' /\ BoundTypes'
      BY <1>0, <1>14, ReleaseType DEF MaterializeErr
    <2>2. WorkerTypes'
      BY <1>0, <1>14, RetryType DEF MaterializeErr, Errors
    <2>3. RowTypes' /\ SweepTypes' /\ HistTypes'
      BY <1>0, <1>14, TypesUnchanged DEF MaterializeErr, rowVars, tokenVars, workerVars,
         sweepVars, histVars, boundVars
    <2> QED BY <2>1, <2>2, <2>3 DEF Types
  <1>15. ASSUME NEW w \in Workers, MaskErr(w)
        PROVE  Types'
    <2>1. TokenTypes' /\ BoundTypes'
      BY <1>0, <1>15, DropType, DbFaultType DEF MaskErr, TokenTypes
    <2>2. WorkerTypes'
      BY <1>0, <1>15, StepFailsType DEF MaskErr, Errors, InStep
    <2>3. RowTypes' /\ SweepTypes' /\ HistTypes'
      BY <1>0, <1>15, TypesUnchanged DEF MaskErr, rowVars, tokenVars, workerVars,
         sweepVars, histVars, boundVars
    <2> QED BY <2>1, <2>2, <2>3 DEF Types
  <1>16. ASSUME NEW w \in Workers, CommitOk(w)
        PROVE  Types'
    <2>1. /\ job[w] \in Runs /\ step[w] \in StepsOf[job[w]]
          /\ StepsOf[job[w]] = 1 .. Len(Plan[job[w]]) /\ Len(Plan[job[w]]) \in Nat
      BY <1>0, <1>16, PlanType DEF CommitOk, WorkerTypes, InStep
    <2>2. HistTypes'
      BY <1>0, <1>16, <2>1 DEF CommitOk, CommitStep, HistTypes
    <2>3. WorkerTypes'
      <3>1. CASE StepsLeft(w)
        <4>1. step[w] + 1 \in StepsOf[job[w]]
          BY <2>1, <3>1 DEF StepsLeft
        <4> QED BY <1>0, <1>16, <2>1, <3>1, <4>1, BeginStepType DEF CommitOk
      <3>2. CASE ~ StepsLeft(w)
        BY <1>0, <1>16, <2>1, <3>2, MoveType DEF CommitOk, Goto, WorkerTypes, InRun
      <3> QED BY <3>1, <3>2
    <2>4. RowTypes' /\ TokenTypes' /\ SweepTypes' /\ BoundTypes'
      BY <1>0, <1>16, TypesUnchanged DEF CommitOk, rowVars, tokenVars, workerVars,
         sweepVars, histVars, boundVars
    <2> QED BY <2>1, <2>2, <2>3, <2>4 DEF Types
  <1>17. ASSUME NEW w \in Workers, CommitErr(w)
        PROVE  Types'
    <2>1. /\ job[w] \in Runs /\ step[w] \in StepsOf[job[w]]
          /\ StepsOf[job[w]] = 1 .. Len(Plan[job[w]]) /\ Len(Plan[job[w]]) \in Nat
      BY <1>0, <1>17, PlanType DEF CommitErr, WorkerTypes, InStep
    <2>2. HistTypes'
      <3>1. CASE CommitStep(w)
        BY <1>0, <1>17, <2>1, <3>1 DEF CommitErr, CommitStep, HistTypes
      <3>2. CASE UNCHANGED done
        BY <1>0, <1>17, <3>2 DEF CommitErr, HistTypes
      <3> QED BY <1>17, <3>1, <3>2 DEF CommitErr
    <2>3. WorkerTypes' /\ BoundTypes'
      BY <1>0, <1>17, StepFailsType, DbFaultType DEF CommitErr, Errors, InStep
    <2>4. RowTypes' /\ TokenTypes' /\ SweepTypes'
      BY <1>0, <1>17, TypesUnchanged DEF CommitErr, rowVars, tokenVars, workerVars,
         sweepVars, histVars, boundVars
    <2> QED BY <2>1, <2>2, <2>3, <2>4 DEF Types
  <1>18. ASSUME NEW w \in Workers, Succeed(w)
        PROVE  Types'
    <2>1. job[w] \in Runs
      BY <1>0, <1>18 DEF Succeed, Finish, WorkerTypes
    <2>2. RowTypes'
      BY <1>0, <1>18, <2>1 DEF Succeed, Finish, Transition, RowTypes, States, Terminal
    <2>3. WorkerTypes'
      BY <1>0, <1>18, <2>1, MoveType DEF Succeed, Finish, Goto, WorkerTypes, InRun, InStep
    <2>4. BoundTypes'
      BY <1>0, <1>18, DbFaultType, TypesUnchanged DEF Succeed, Finish
    <2>5. TokenTypes' /\ SweepTypes' /\ HistTypes'
      BY <1>0, <1>18, TypesUnchanged DEF Succeed, Finish
    <2> QED BY <2>1, <2>2, <2>3, <2>4, <2>5 DEF Types
  <1>19. ASSUME NEW w \in Workers, Fail(w)
        PROVE  Types'
    <2>1. job[w] \in Runs
      BY <1>0, <1>19 DEF Fail, Finish, WorkerTypes
    <2>2. RowTypes'
      BY <1>0, <1>19, <2>1 DEF Fail, Finish, Transition, RowTypes, States, Terminal
    <2>3. WorkerTypes'
      BY <1>0, <1>19, <2>1, MoveType DEF Fail, Finish, Goto, WorkerTypes, InRun, InStep
    <2>4. BoundTypes'
      BY <1>0, <1>19, DbFaultType, TypesUnchanged DEF Fail, Finish
    <2>5. TokenTypes' /\ SweepTypes' /\ HistTypes'
      BY <1>0, <1>19, TypesUnchanged DEF Fail, Finish
    <2> QED BY <2>1, <2>2, <2>3, <2>4, <2>5 DEF Types
  <1>20. ASSUME NEW w \in Workers, EmitTerminal(w)
        PROVE  Types'
    <2>1. job[w] \in Runs
      BY <1>0, <1>20 DEF EmitTerminal, WorkerTypes
    <2>2. HistTypes'
      <3>1. CASE UNCHANGED events
        BY <1>0, <1>20, <3>1 DEF EmitTerminal, HistTypes
      <3>2. CASE UNCHANGED boundVars
        <4>1. \A e \in events' : e \in Runs \X {"succeeded", "failed"}
          BY <1>0, <1>20, <2>1, <3>2 DEF EmitTerminal, HistTypes
        <4> QED BY <1>0, <1>20, <4>1 DEF EmitTerminal, HistTypes
      <3> QED BY <1>20, <3>1, <3>2 DEF EmitTerminal
    <2>3. WorkerTypes'
      BY <1>0, <1>20, <2>1, MoveType DEF EmitTerminal, Goto, WorkerTypes, InRun, InStep
    <2>4. BoundTypes'
      BY <1>0, <1>20, DbFaultType, TypesUnchanged DEF EmitTerminal
    <2>5. RowTypes' /\ TokenTypes' /\ SweepTypes'
      BY <1>0, <1>20, TypesUnchanged DEF EmitTerminal, rowVars, tokenVars, workerVars,
         sweepVars, histVars, boundVars
    <2> QED BY <2>1, <2>2, <2>3, <2>4, <2>5 DEF Types
  <1>21. ASSUME NEW w \in Workers, Cleanup(w)
        PROVE  Types'
    <2>1. TokenTypes'
      BY <1>0, <1>21, DropType, TypesUnchanged DEF Cleanup, TokenTypes
    <2>2. BoundTypes' /\ WorkerTypes'
      BY <1>0, <1>21, DbFaultType, TypesUnchanged, ReturnType DEF Cleanup
    <2>3. RowTypes' /\ SweepTypes' /\ HistTypes'
      BY <1>0, <1>21, TypesUnchanged DEF Cleanup, rowVars, tokenVars, workerVars,
         sweepVars, histVars, boundVars
    <2> QED BY <2>1, <2>2, <2>3 DEF Types
  <1>22. ASSUME NEW w \in Workers, Heartbeat(w)
        PROVE  Types'
    <2>1. RowTypes' /\ SweepTypes'
      BY <1>0, <1>22 DEF Heartbeat, ForgetOld, RowTypes, SweepTypes
    <2>2. TokenTypes' /\ WorkerTypes' /\ HistTypes' /\ BoundTypes'
      BY <1>0, <1>22, TypesUnchanged DEF Heartbeat, rowVars, tokenVars, workerVars,
         sweepVars, histVars, boundVars
    <2> QED BY <2>1, <2>2 DEF Types
  <1>23. ASSUME NEW w \in Workers, SweepSelect(w)
        PROVE  Types'
    <2>1. SweepTypes'
      BY <1>0, <1>23 DEF SweepSelect, SweepTypes
    <2>2. RowTypes' /\ TokenTypes' /\ WorkerTypes' /\ HistTypes' /\ BoundTypes'
      BY <1>0, <1>23, TypesUnchanged DEF SweepSelect, rowVars, tokenVars, workerVars,
         sweepVars, histVars, boundVars
    <2> QED BY <2>1, <2>2 DEF Types
  <1>24. ASSUME NEW w \in Workers, NEW r \in Runs, SweepRow(w, r)
        PROVE  Types'
    <2>1. RowTypes'
      BY <1>0, <1>24 DEF SweepRow, RowTypes, States
    <2>2. SweepTypes'
      <3>1. CASE StillStale(w, r)
        BY <1>0, <1>24, <3>1 DEF SweepRow, ForgetOld, SweepTypes
      <3>2. CASE ~ StillStale(w, r)
        <4>1. old[w] \ {r} \in SUBSET Runs /\ cand[w] \ {r} \in SUBSET Runs
          BY <1>0 DEF SweepTypes
        <4>2. /\ old' = [old EXCEPT ![w] = old[w] \ {r}]
              /\ cand' = [cand EXCEPT ![w] = cand[w] \ {r}]
          BY <1>24, <3>2 DEF SweepRow
        <4> QED BY <1>0, <4>1, <4>2 DEF SweepTypes
      <3> QED BY <3>1, <3>2
    <2>3. HistTypes'
      BY <1>0, <1>24 DEF SweepRow, HistTypes
    <2>4. TokenTypes' /\ WorkerTypes' /\ BoundTypes'
      BY <1>0, <1>24, TypesUnchanged DEF SweepRow, rowVars, tokenVars, workerVars,
         sweepVars, histVars, boundVars
    <2> QED BY <2>1, <2>2, <2>3, <2>4 DEF Types
  <1>25. ASSUME NEW w \in Workers, Crash(w)
        PROVE  Types'
    <2>1. TokenTypes' /\ SweepTypes' /\ BoundTypes'
      BY <1>0, <1>25, DropType DEF Crash, TokenTypes, SweepTypes, BoundTypes
    <2>2. WorkerTypes'
      <3>1. /\ pc' \in [Workers -> PC] /\ job' \in [Workers -> Runs \cup {NoRun}]
            /\ step' \in [Workers -> Nat] /\ attempt' \in [Workers -> Nat]
            /\ held' \in [Workers -> Nat] /\ err' \in [Workers -> Errors]
            /\ pc'[w] = "down" /\ job'[w] = NoRun
            /\ \A v \in Workers \ {w} :
                   /\ pc'[v] = pc[v] /\ job'[v] = job[v]
                   /\ step'[v] = step[v] /\ held'[v] = held[v]
        BY <1>0, <1>25 DEF Crash, WorkerTypes, PC, Errors
      <3> QED BY <1>0, <3>1, OthersKeepTypes DEF InStep
    <2>3. RowTypes' /\ HistTypes'
      BY <1>0, <1>25, TypesUnchanged DEF Crash, rowVars, tokenVars, workerVars,
         sweepVars, histVars, boundVars
    <2> QED BY <2>1, <2>2, <2>3 DEF Types
  <1>26. ASSUME NEW w \in Workers, Restart(w)
        PROVE  Types'
    <2>1. TokenTypes'
      BY <1>0, <1>26, DropType DEF Restart, TokenTypes
    <2>2. WorkerTypes'
      BY <1>0, <1>26, OthersKeepTypes DEF Restart, Goto, WorkerTypes, PC, InStep
    <2>3. RowTypes' /\ SweepTypes' /\ HistTypes' /\ BoundTypes'
      BY <1>0, <1>26, TypesUnchanged DEF Restart, rowVars, tokenVars, workerVars,
         sweepVars, histVars, boundVars
    <2> QED BY <2>1, <2>2, <2>3 DEF Types
  <1>27. ASSUME NEW k \in tokens, AgeToken(k)
        PROVE  Types'
    <2>1. TokenTypes' /\ BoundTypes'
      BY <1>0, <1>27 DEF AgeToken, TokenTypes, BoundTypes
    <2>2. RowTypes' /\ WorkerTypes' /\ SweepTypes' /\ HistTypes'
      BY <1>0, <1>27, TypesUnchanged DEF AgeToken, rowVars, tokenVars, workerVars,
         sweepVars, histVars, boundVars
    <2> QED BY <2>1, <2>2 DEF Types
  <1>28. CASE UNCHANGED vars
    BY <1>0, <1>28, TypesUnchanged DEF vars, Types
  <1>29. ASSUME NEW w \in Workers, NEW r \in Runs, SweepFault(w, r)
        PROVE  Types'
    <2>1. SweepTypes'
      <3>1. old[w] \ {r} \in SUBSET Runs /\ cand[w] \ {r} \in SUBSET Runs
        BY <1>0 DEF SweepTypes
      <3>2. /\ old' = [old EXCEPT ![w] = old[w] \ {r}]
            /\ cand' = [cand EXCEPT ![w] = cand[w] \ {r}]
        BY <1>29 DEF SweepFault
      <3> QED BY <1>0, <3>1, <3>2 DEF SweepTypes
    <2>2. BoundTypes'
      BY <1>0, <1>29, DbFaultType DEF SweepFault
    <2>3. RowTypes' /\ TokenTypes' /\ WorkerTypes' /\ HistTypes'
      BY <1>0, <1>29, TypesUnchanged DEF SweepFault, rowVars, tokenVars, workerVars,
         sweepVars, histVars, boundVars
    <2> QED BY <2>1, <2>2, <2>3 DEF Types
  <1> QED
    BY <1>1, <1>2, <1>3, <1>4, <1>5, <1>6, <1>7, <1>8, <1>9, <1>10, <1>11, <1>12, <1>13, <1>14, <1>15, <1>16, <1>17, <1>18, <1>19, <1>20, <1>21, <1>22, <1>23, <1>24, <1>25, <1>26, <1>27, <1>28, <1>29
       DEF Next, Work, Sweep, Fault
-----------------------------------------------------------------------------
(* The rows, whatever fails                                                *)

(* What most steps of a worker have in common: the rows stay, and the      *)
(* worker leaves its run or moves on inside the same step of it.           *)
Quiet(w) ==
    /\ UNCHANGED <<state, claimedBy, heartbeat, done, outstanding>>
    /\ pc' = [pc EXCEPT ![w] = pc'[w]]
    /\ job' = [job EXCEPT ![w] = job'[w]]
    /\ step' = [step EXCEPT ![w] = step'[w]]
    /\ \/ pc'[w] \in {"idle", "down"}
       \/ /\ pc[w] \in InRun /\ job'[w] = job[w] /\ step'[w] = step[w]
          /\ pc'[w] \in InRun \ {"starting"}
          /\ pc'[w] \in InStep => pc[w] \in InStep
          /\ pc'[w] # "succeeding"

LEMMA QuietSteps ==
    ASSUME Types, NEW w \in Workers,
           \/ Gate(w) \/ AcquireOk(w) \/ AcquireMiss(w) \/ AcquireFault(w)
           \/ MaterializeOk(w) \/ MaterializeErr(w) \/ MaskErr(w) \/ EmitTerminal(w)
           \/ Unresolvable(w) \/ Cleanup(w) \/ Crash(w) \/ Restart(w)
    PROVE  Quiet(w)
  <1> USE DEF rowVars, tokenVars, workerVars, sweepVars, histVars
  <1>0. WorkerTypes
    BY DEF Types
  <1>1. CASE Gate(w)
    BY <1>0, <1>1 DEF Gate, StepFails, Goto, Quiet, WorkerTypes, InRun, InStep
  <1>2. CASE AcquireOk(w)
    BY <1>0, <1>2 DEF AcquireOk, Goto, Quiet, WorkerTypes, InRun, InStep
  <1>3. CASE AcquireMiss(w)
    BY <1>0, <1>3 DEF AcquireMiss, RetryOrFail, StepFails, Goto, Quiet, WorkerTypes, InRun, InStep
  <1>4. CASE AcquireFault(w)
    BY <1>0, <1>4 DEF AcquireFault, RetryOrFail, StepFails, Goto, Quiet, WorkerTypes, InRun, InStep
  <1>5. CASE MaterializeOk(w)
    BY <1>0, <1>5 DEF MaterializeOk, Goto, Quiet, WorkerTypes, InRun, InStep
  <1>6. CASE MaterializeErr(w)
    BY <1>0, <1>6 DEF MaterializeErr, RetryOrFail, StepFails, Goto, Quiet, WorkerTypes, InRun, InStep
  <1>7. CASE MaskErr(w)
    BY <1>0, <1>7 DEF MaskErr, StepFails, Goto, Quiet, WorkerTypes, InRun, InStep
  <1>8. CASE EmitTerminal(w)
    BY <1>0, <1>8 DEF EmitTerminal, Goto, Quiet, WorkerTypes, InRun, InStep
  <1>9. CASE Unresolvable(w)
    BY <1>0, <1>9 DEF Unresolvable, Return, Goto, Quiet, WorkerTypes
  <1>10. CASE Cleanup(w)
    BY <1>0, <1>10 DEF Cleanup, Return, Goto, Quiet, WorkerTypes
  <1>11. CASE Crash(w)
    BY <1>0, <1>11 DEF Crash, Quiet, WorkerTypes
  <1>12. CASE Restart(w)
    BY <1>0, <1>12 DEF Restart, Goto, Quiet, WorkerTypes
  <1> QED BY <1>1, <1>2, <1>3, <1>4, <1>5, <1>6, <1>7, <1>8, <1>9, <1>10, <1>11, <1>12

LEMMA QuietKeepsRows ==
    ASSUME Types, RowInv, NEW w \in Workers, Quiet(w)
    PROVE  RowInv'
  <1>0. WorkerTypes
    BY DEF Types
  <1>1. InFlightReapable' /\ OneResetPerClaim' /\ SucceededMeansCommitted'
    BY DEF RowInv, Quiet, InFlightReapable, OneResetPerClaim, SucceededMeansCommitted
  <1>2. ClaimsAreLocks'
    BY <1>0 DEF RowInv, Quiet, ClaimsAreLocks, WorkerTypes, InRun
  <1>3. StepsInOrder'
    BY <1>0 DEF RowInv, Quiet, StepsInOrder, WorkerTypes, InRun, InStep
  <1> QED BY <1>1, <1>2, <1>3 DEF RowInv
LEMMA JobIsRun ==
    ASSUME WorkerTypes, NEW v \in Workers, pc[v] \notin {"down", "idle"}
    PROVE  job[v] \in Runs
  BY DEF WorkerTypes

(* No new claimer, and the rows of the claimers stay queued.               *)
LEMMA LocksStay ==
    ASSUME ClaimsAreLocks,
           \A v \in Workers : pc'[v] = "claiming" =>
               /\ pc[v] = "claiming" /\ job'[v] = job[v]
               /\ state'[job[v]] = "queued"
    PROVE  ClaimsAreLocks'
  BY DEF ClaimsAreLocks

(* Only worker w moves, no row disappears and no step is forgotten.        *)
LEMMA StepsStay ==
    ASSUME WorkerTypes, StepsInOrder, NEW w \in Workers,
           \A v \in Workers \ {w} :
               pc'[v] = pc[v] /\ job'[v] = job[v] /\ step'[v] = step[v],
           \A r \in Runs : /\ state[r] # "absent" => state'[r] # "absent"
                           /\ done[r] \subseteq done'[r] /\ done'[r] \subseteq StepsOf[r],
           pc'[w] \in InRun => state'[job'[w]] # "absent",
           pc'[w] \in InStep => \A i \in 1 .. (step'[w] - 1) : i \in done'[job'[w]],
           pc'[w] = "succeeding" => done'[job'[w]] = StepsOf[job'[w]]
    PROVE  StepsInOrder'
  <1>1. ASSUME NEW v \in Workers
        PROVE  /\ pc'[v] \in InRun => state'[job'[v]] # "absent"
               /\ pc'[v] \in InStep => \A i \in 1 .. (step'[v] - 1) : i \in done'[job'[v]]
               /\ pc'[v] = "succeeding" => done'[job'[v]] = StepsOf[job'[v]]
    <2>1. CASE v = w
      BY <2>1
    <2>2. CASE v # w /\ pc[v] \notin InRun
      BY <2>2 DEF InRun, InStep
    <2>3. CASE v # w /\ pc[v] \in InRun
      <3>1. job[v] \in Runs
        BY <2>3 DEF WorkerTypes, InRun
      <3>2. /\ state[job[v]] # "absent"
            /\ pc[v] \in InStep => \A i \in 1 .. (step[v] - 1) : i \in done[job[v]]
            /\ pc[v] = "succeeding" => done[job[v]] = StepsOf[job[v]]
        BY <2>3 DEF StepsInOrder
      <3>3. done[job[v]] \subseteq done'[job[v]] /\ done'[job[v]] \subseteq StepsOf[job[v]]
        BY <3>1
      <3>4. pc'[v] = pc[v] /\ job'[v] = job[v] /\ step'[v] = step[v]
        BY <2>3
      <3>5. state'[job'[v]] # "absent"
        BY <3>1, <3>2, <3>4
      <3>6. pc'[v] \in InStep => \A i \in 1 .. (step'[v] - 1) : i \in done'[job'[v]]
        BY <3>2, <3>3, <3>4
      <3>7. pc'[v] = "succeeding" => done'[job'[v]] = StepsOf[job'[v]]
        <4>1. ASSUME pc[v] = "succeeding" PROVE done'[job[v]] = StepsOf[job[v]]
          <5>1. done[job[v]] = StepsOf[job[v]]
            BY <3>2, <4>1
          <5> QED BY <5>1, <3>3
        <4> QED BY <4>1, <3>4
      <3> QED BY <3>5, <3>6, <3>7
    <2> QED BY <2>1, <2>2, <2>3
  <1> QED BY <1>1 DEF StepsInOrder

(* The claim: the lock makes the row queued, and its answer may be lost.   *)
LEMMA ClaimKeepsRows ==
    ASSUME Types, RowInv, NEW w \in Workers, pc[w] = "claiming", ClaimRow(w),
           pc' = [pc EXCEPT ![w] = pc'[w]], job' = [job EXCEPT ![w] = job'[w]],
           step' = [step EXCEPT ![w] = step'[w]],
           pc'[w] = "idle" \/ (pc'[w] = "starting" /\ job'[w] = job[w])
    PROVE  RowInv'
  <1>0. RowTypes /\ WorkerTypes /\ HistTypes /\ job[w] \in Runs /\ state[job[w]] = "queued"
    BY DEF Types, WorkerTypes, RowInv, ClaimsAreLocks
  <1> USE ConstantsAssumption
  <1>1. InFlightReapable'
    BY <1>0 DEF RowInv, ClaimRow, InFlightReapable, RowTypes, InFlight
  <1>2. OneResetPerClaim'
    BY <1>0 DEF RowInv, ClaimRow, OneResetPerClaim, RowTypes, HistTypes
  <1>3. SucceededMeansCommitted'
    BY <1>0 DEF RowInv, ClaimRow, SucceededMeansCommitted, RowTypes
  <1>4. ClaimsAreLocks'
    <2>1. ASSUME NEW v \in Workers, pc'[v] = "claiming"
          PROVE  pc[v] = "claiming" /\ job'[v] = job[v] /\ state'[job[v]] = "queued"
      <3>1. v # w /\ pc[v] = "claiming" /\ job'[v] = job[v]
        BY <1>0, <2>1 DEF WorkerTypes
      <3>2. job[v] # job[w] /\ state[job[v]] = "queued" /\ job[v] \in Runs
        BY <1>0, <3>1 DEF RowInv, ClaimsAreLocks, WorkerTypes
      <3> QED BY <1>0, <3>1, <3>2 DEF ClaimRow, RowTypes
    <2> QED BY <2>1, LocksStay DEF RowInv
  <1>5. StepsInOrder'
    <2>1. /\ \A v \in Workers \ {w} :
                pc'[v] = pc[v] /\ job'[v] = job[v] /\ step'[v] = step[v]
          /\ pc'[w] \in InRun => state'[job'[w]] # "absent"
          /\ pc'[w] \notin InStep
      BY <1>0 DEF ClaimRow, RowTypes, WorkerTypes, InRun, InStep
    <2>2. \A r \in Runs : /\ state[r] # "absent" => state'[r] # "absent"
                          /\ done[r] \subseteq done'[r] /\ done'[r] \subseteq StepsOf[r]
      BY <1>0 DEF ClaimRow, RowTypes, RowInv, StepsInOrder
    <2> QED BY <1>0, <2>1, <2>2, StepsStay DEF RowInv, InStep
  <1> QED BY <1>1, <1>2, <1>3, <1>4, <1>5 DEF RowInv

(* Every step of Next keeps the rows as they should be.                    *)
LEMMA NextRows == Types /\ RowInv /\ [Next]_vars => RowInv'
  <1> SUFFICES ASSUME Types, RowInv, [Next]_vars
               PROVE  RowInv'
    OBVIOUS
  <1> USE ConstantsAssumption
          DEF rowVars, tokenVars, workerVars, sweepVars, histVars, boundVars
  <1>0. RowTypes /\ WorkerTypes /\ HistTypes
    BY DEF Types
  <1>1. ASSUME NEW r \in Runs, Enqueue(r)
        PROVE  RowInv'
    <2>1. InFlightReapable' /\ OneResetPerClaim' /\ SucceededMeansCommitted'
      BY <1>0, <1>1 DEF RowInv, Enqueue, InFlightReapable, OneResetPerClaim,
         SucceededMeansCommitted, RowTypes, InFlight
    <2>2. ClaimsAreLocks'
      BY <1>0, <1>1 DEF RowInv, Enqueue, ClaimsAreLocks, RowTypes, WorkerTypes
    <2>3. StepsInOrder'
      BY <1>0, <1>1 DEF RowInv, Enqueue, StepsInOrder, RowTypes, WorkerTypes, InRun
    <2> QED BY <2>1, <2>2, <2>3 DEF RowInv
  <1>2. ASSUME NEW r \in Runs, Expire(r)
        PROVE  RowInv'
    <2>1. InFlightReapable' /\ OneResetPerClaim' /\ SucceededMeansCommitted'
      BY <1>0, <1>2 DEF RowInv, Expire, InFlightReapable, OneResetPerClaim,
         SucceededMeansCommitted, RowTypes, InFlight
    <2>2. ClaimsAreLocks' /\ StepsInOrder'
      BY <1>2 DEF RowInv, Expire, ClaimsAreLocks, StepsInOrder
    <2> QED BY <2>1, <2>2 DEF RowInv
  <1>3. ASSUME NEW w \in Workers, ClaimSelect(w)
        PROVE  RowInv'
    <2>0. PICK r \in Runs : /\ state[r] = "queued" /\ r \notin Locked
                            /\ job' = [job EXCEPT ![w] = r]
      BY <1>3 DEF ClaimSelect
    <2>1. InFlightReapable' /\ OneResetPerClaim' /\ SucceededMeansCommitted'
      BY <1>3 DEF RowInv, ClaimSelect, InFlightReapable, OneResetPerClaim,
         SucceededMeansCommitted
    <2>2. ClaimsAreLocks'
      BY <1>0, <1>3, <2>0
         DEF RowInv, ClaimSelect, Goto, Locked, ClaimsAreLocks, WorkerTypes
    <2>3. StepsInOrder'
      BY <1>0, <1>3, <2>0
         DEF RowInv, ClaimSelect, Goto, StepsInOrder, WorkerTypes, InRun, InStep
    <2> QED BY <2>1, <2>2, <2>3 DEF RowInv
  <1>4. ASSUME NEW w \in Workers, ClaimCommit(w)
        PROVE  RowInv'
    BY <1>0, <1>4, ClaimKeepsRows DEF ClaimCommit, Goto, WorkerTypes
  <1>5. ASSUME NEW w \in Workers, ClaimFault(w)
        PROVE  RowInv'
    <2>1. CASE ClaimRow(w)
      BY <1>0, <1>5, <2>1, ClaimKeepsRows DEF ClaimFault, Return, Goto, WorkerTypes
    <2>2. CASE UNCHANGED <<rowVars, tokenVars, sweepVars, histVars>>
      <3>1. Quiet(w)
        BY <1>0, <1>5, <2>2 DEF ClaimFault, Return, Goto, Quiet, WorkerTypes
      <3> QED BY <3>1, QuietKeepsRows
    <2> QED BY <1>5, <2>1, <2>2 DEF ClaimFault
  <1>6. ASSUME NEW w \in Workers, Start(w) \/ StartFault(w)
        PROVE  RowInv'
    <2>0. /\ pc[w] = "starting" /\ job[w] \in Runs
          /\ UNCHANGED <<claimedBy, heartbeat, done, outstanding>>
          /\ Transition(job[w], "starting", "running") \/ UNCHANGED state
          /\ pc' = [pc EXCEPT ![w] = pc'[w]]
          /\ job' = [job EXCEPT ![w] = job'[w]]
          /\ step' = [step EXCEPT ![w] = step'[w]]
          /\ \/ pc'[w] = "gate" /\ job'[w] = job[w] /\ step'[w] = 1
             \/ pc'[w] = "idle"
      BY <1>0, <1>6 DEF Start, StartFault, BeginStep, Return, Goto, WorkerTypes
    <2>1. InFlightReapable' /\ OneResetPerClaim' /\ SucceededMeansCommitted'
      BY <1>0, <2>0 DEF RowInv, Transition, InFlightReapable, OneResetPerClaim,
         SucceededMeansCommitted, RowTypes, InFlight
    <2>2. \A r \in Runs : /\ state[r] = "queued" => state'[r] = "queued"
                          /\ state[r] # "absent" => state'[r] # "absent"
                          /\ done[r] \subseteq done'[r] /\ done'[r] \subseteq StepsOf[r]
      BY <1>0, <2>0 DEF RowInv, StepsInOrder, Transition, RowTypes
    <2>3. /\ \A v \in Workers \ {w} :
                pc'[v] = pc[v] /\ job'[v] = job[v] /\ step'[v] = step[v]
          /\ pc'[w] \in InStep => pc'[w] = "gate" /\ job'[w] = job[w] /\ step'[w] = 1
      BY <1>0, <2>0 DEF WorkerTypes, InStep
    <2>4. ClaimsAreLocks'
      <3>1. ASSUME NEW v \in Workers, pc'[v] = "claiming"
            PROVE  pc[v] = "claiming" /\ job'[v] = job[v] /\ state'[job[v]] = "queued"
        <4>1. v # w
          BY <1>0, <2>0, <3>1 DEF WorkerTypes
        <4>2. pc[v] = "claiming" /\ job'[v] = job[v]
          BY <2>3, <3>1, <4>1
        <4>3. state[job[v]] = "queued" /\ job[v] \in Runs
          BY <1>0, <4>2, JobIsRun DEF RowInv, ClaimsAreLocks
        <4> QED BY <2>2, <4>2, <4>3
      <3> QED BY <3>1, LocksStay DEF RowInv
    <2>5. StepsInOrder'
      <3>1. pc'[w] \in InRun => state'[job'[w]] # "absent"
        BY <1>0, <2>0, <2>2 DEF RowInv, StepsInOrder, InRun
      <3>2. pc'[w] \in InStep => \A i \in 1 .. (step'[w] - 1) : i \in done'[job'[w]]
        BY <2>3
      <3>3. pc'[w] # "succeeding"
        BY <2>0
      <3> QED BY <1>0, <2>2, <2>3, <3>1, <3>2, <3>3, StepsStay DEF RowInv
    <2> QED BY <2>1, <2>4, <2>5 DEF RowInv
  <1>7. ASSUME NEW w \in Workers,
               \/ Gate(w) \/ AcquireOk(w) \/ AcquireMiss(w) \/ AcquireFault(w)
               \/ MaterializeOk(w) \/ MaterializeErr(w) \/ MaskErr(w) \/ EmitTerminal(w)
               \/ Unresolvable(w) \/ Cleanup(w) \/ Crash(w) \/ Restart(w)
        PROVE  RowInv'
    BY <1>7, QuietSteps, QuietKeepsRows
  <1>8. ASSUME NEW w \in Workers, CommitOk(w) \/ CommitErr(w)
        PROVE  RowInv'
    <2>0. /\ pc[w] = "commit" /\ job[w] \in Runs /\ step[w] \in StepsOf[job[w]]
          /\ StepsOf[job[w]] = 1 .. Len(Plan[job[w]]) /\ Len(Plan[job[w]]) \in Nat
      BY <1>0, <1>8, PlanType DEF CommitOk, CommitErr, WorkerTypes, InStep
    <2>1. /\ UNCHANGED <<state, claimedBy, heartbeat, outstanding, job>>
          /\ done' = [done EXCEPT ![job[w]] = @ \cup {step[w]}] \/ UNCHANGED done
          /\ pc' = [pc EXCEPT ![w] = pc'[w]]
          /\ step' = [step EXCEPT ![w] = step'[w]]
          /\ \/ pc'[w] = "failing" /\ step'[w] = step[w]
             \/ /\ pc'[w] = "gate" /\ step'[w] = step[w] + 1
                /\ done' = [done EXCEPT ![job[w]] = @ \cup {step[w]}]
             \/ /\ pc'[w] = "succeeding" /\ step'[w] = step[w]
                /\ step[w] = Len(Plan[job[w]])
                /\ done' = [done EXCEPT ![job[w]] = @ \cup {step[w]}]
      <3>1. CASE CommitErr(w)
        BY <1>0, <3>1 DEF CommitErr, CommitStep, StepFails, Goto, WorkerTypes
      <3>2. CASE CommitOk(w) /\ StepsLeft(w)
        BY <1>0, <3>2 DEF CommitOk, CommitStep, BeginStep, Goto, WorkerTypes
      <3>3. CASE CommitOk(w) /\ ~ StepsLeft(w)
        <4>1. step[w] = Len(Plan[job[w]])
          BY <2>0, <3>3 DEF StepsLeft
        <4> QED BY <1>0, <3>3, <4>1 DEF CommitOk, CommitStep, Goto, WorkerTypes
      <3> QED BY <1>8, <3>1, <3>2, <3>3
    <2>2. InFlightReapable' /\ OneResetPerClaim' /\ ClaimsAreLocks'
      BY <1>0, <2>0, <2>1 DEF RowInv, InFlightReapable, OneResetPerClaim,
         ClaimsAreLocks, WorkerTypes
    <2>3. \A r \in Runs : done[r] \subseteq done'[r] /\ done'[r] \subseteq StepsOf[r]
      <3>1. \A r \in Runs : done[r] \subseteq StepsOf[r]
        BY DEF RowInv, StepsInOrder
      <3>2. CASE UNCHANGED done
        BY <3>1, <3>2
      <3>3. CASE done' = [done EXCEPT ![job[w]] = @ \cup {step[w]}]
        BY <1>0, <2>0, <3>1, <3>3 DEF HistTypes
      <3> QED BY <2>1, <3>2, <3>3
    <2>4. SucceededMeansCommitted'
      BY <2>1, <2>3 DEF RowInv, SucceededMeansCommitted
    <2>5. StepsInOrder'
      <3>1. /\ \A v \in Workers \ {w} :
                   pc'[v] = pc[v] /\ job'[v] = job[v] /\ step'[v] = step[v]
            /\ \A r \in Runs : state[r] # "absent" => state'[r] # "absent"
            /\ job'[w] = job[w]
        BY <1>0, <2>1 DEF WorkerTypes
      <3>2. /\ \A i \in 1 .. (step[w] - 1) : i \in done[job[w]]
            /\ state'[job[w]] # "absent"
        BY <2>0, <2>1 DEF RowInv, StepsInOrder, InRun, InStep
      <3>3. \A i \in 1 .. (step[w] - 1) : i \in done'[job[w]]
        BY <2>0, <2>3, <3>2
      <3>4. CASE pc'[w] = "failing"
        <4>1. \A i \in 1 .. (step'[w] - 1) : i \in done'[job'[w]]
          BY <2>1, <3>1, <3>3, <3>4
        <4> QED BY <1>0, <2>3, <3>1, <3>2, <3>4, <4>1, StepsStay DEF RowInv
      <3>5. CASE pc'[w] # "failing"
        <4>1. step[w] \in done'[job[w]]
          BY <1>0, <2>0, <2>1, <3>5 DEF HistTypes
        <4>2. \A i \in 1 .. step[w] : i \in done'[job[w]]
          BY <2>0, <3>3, <4>1
        <4>3. CASE pc'[w] = "gate"
          <5>1. \A i \in 1 .. (step'[w] - 1) : i \in done'[job'[w]]
            BY <2>0, <2>1, <3>1, <4>2, <4>3
          <5> QED BY <1>0, <2>3, <3>1, <3>2, <4>3, <5>1, StepsStay DEF RowInv
        <4>4. CASE pc'[w] = "succeeding"
          <5>1. done'[job'[w]] = StepsOf[job'[w]]
            BY <2>0, <2>1, <2>3, <3>1, <4>2, <4>4
          <5>2. \A i \in 1 .. (step'[w] - 1) : i \in done'[job'[w]]
            BY <2>1, <3>1, <3>3, <4>4
          <5> QED BY <1>0, <2>3, <3>1, <3>2, <5>1, <5>2, StepsStay DEF RowInv
        <4> QED BY <2>1, <3>5, <4>3, <4>4
      <3> QED BY <3>4, <3>5
    <2> QED BY <2>2, <2>4, <2>5 DEF RowInv
  <1>9. ASSUME NEW w \in Workers, Succeed(w) \/ Fail(w)
        PROVE  RowInv'
    <2>0. /\ pc[w] \in {"succeeding", "failing"} /\ job[w] \in Runs
          /\ UNCHANGED <<claimedBy, heartbeat, done, outstanding, job, step>>
          /\ \/ UNCHANGED state
             \/ Transition(job[w], "running", "failed")
             \/ Transition(job[w], "running", "succeeded") /\ pc[w] = "succeeding"
          /\ pc' = [pc EXCEPT ![w] = pc'[w]]
          /\ pc'[w] \in {"emit_succeeded", "emit_failed"}
      BY <1>0, <1>9 DEF Succeed, Fail, Finish, Goto, WorkerTypes
    <2>1. \A r \in Runs :
              state'[r] # state[r] => state[r] = "running" /\ state'[r] \in {"failed", "succeeded"}
      BY <1>0, <2>0 DEF Transition, RowTypes
    <2>2. InFlightReapable'
      BY <2>0, <2>1 DEF RowInv, InFlightReapable, InFlight
    <2>3. OneResetPerClaim'
      BY <2>0, <2>1 DEF RowInv, OneResetPerClaim
    <2>4. SucceededMeansCommitted'
      BY <1>0, <2>0 DEF RowInv, Transition, SucceededMeansCommitted, StepsInOrder, RowTypes
    <2>5. ClaimsAreLocks'
      <3>1. ASSUME NEW v \in Workers, pc'[v] = "claiming"
            PROVE  pc[v] = "claiming" /\ job'[v] = job[v] /\ state'[job[v]] = "queued"
        <4>1. pc[v] = "claiming" /\ job'[v] = job[v]
          BY <1>0, <2>0, <3>1 DEF WorkerTypes
        <4>2. state[job[v]] = "queued" /\ job[v] \in Runs
          BY <1>0, <4>1, JobIsRun DEF RowInv, ClaimsAreLocks
        <4> QED BY <2>1, <4>1, <4>2
      <3> QED BY <3>1, LocksStay DEF RowInv
    <2>6. StepsInOrder'
      <3>1. /\ \A v \in Workers \ {w} :
                   pc'[v] = pc[v] /\ job'[v] = job[v] /\ step'[v] = step[v]
            /\ pc'[w] \notin InStep /\ pc'[w] # "succeeding" /\ job'[w] = job[w]
        BY <1>0, <2>0 DEF WorkerTypes, InStep
      <3>2. \A r \in Runs : /\ state[r] # "absent" => state'[r] # "absent"
                            /\ done[r] \subseteq done'[r] /\ done'[r] \subseteq StepsOf[r]
        BY <2>0, <2>1 DEF RowInv, StepsInOrder
      <3>3. state'[job'[w]] # "absent"
        BY <2>0, <3>1, <3>2 DEF RowInv, StepsInOrder, InRun
      <3> QED BY <1>0, <3>1, <3>2, <3>3, StepsStay DEF RowInv
    <2> QED BY <2>4, <2>5, <2>6, <2>2, <2>3 DEF RowInv
  <1>10. ASSUME NEW w \in Workers, Heartbeat(w)
        PROVE  RowInv'
    <2>1. InFlightReapable' /\ OneResetPerClaim' /\ SucceededMeansCommitted'
      BY <1>0, <1>10 DEF RowInv, Heartbeat, InFlightReapable, OneResetPerClaim,
         SucceededMeansCommitted, RowTypes, InFlight
    <2>2. ClaimsAreLocks' /\ StepsInOrder'
      BY <1>10 DEF RowInv, Heartbeat, ClaimsAreLocks, StepsInOrder
    <2> QED BY <2>1, <2>2 DEF RowInv
  <1>11. ASSUME NEW w \in Workers, NEW r \in Runs, SweepRow(w, r)
        PROVE  RowInv'
    <2>1. CASE StillStale(w, r)
      <3>1. /\ state[r] \in InFlight
            /\ state' = [state EXCEPT ![r] = "queued"]
            /\ claimedBy' = [claimedBy EXCEPT ![r] = NoWorker]
            /\ heartbeat' = [heartbeat EXCEPT ![r] = "null"]
            /\ outstanding' = [outstanding EXCEPT ![r] = @ - 1]
            /\ UNCHANGED <<workerVars, done>>
        BY <1>11, <2>1 DEF SweepRow, StillStale
      <3>2. InFlightReapable' /\ SucceededMeansCommitted'
        BY <1>0, <3>1 DEF RowInv, InFlightReapable, SucceededMeansCommitted, RowTypes, InFlight
      <3>3. OneResetPerClaim'
        BY <1>0, <3>1 DEF RowInv, OneResetPerClaim, RowTypes, HistTypes, InFlight
      <3>4. ClaimsAreLocks'
        <4>1. ASSUME NEW v \in Workers, pc'[v] = "claiming"
              PROVE  pc[v] = "claiming" /\ job'[v] = job[v] /\ state'[job[v]] = "queued"
          BY <1>0, <3>1, <4>1 DEF RowInv, ClaimsAreLocks, RowTypes, WorkerTypes, InFlight
        <4> QED BY <4>1, LocksStay DEF RowInv
      <3>5. StepsInOrder'
        <4>1. \A q \in Runs : /\ state[q] # "absent" => state'[q] # "absent"
                              /\ done[q] \subseteq done'[q] /\ done'[q] \subseteq StepsOf[q]
          BY <1>0, <3>1 DEF RowInv, StepsInOrder, RowTypes
        <4>2. /\ pc[w] \in InRun => state'[job[w]] # "absent"
              /\ pc[w] \in InStep => \A i \in 1 .. (step[w] - 1) : i \in done'[job[w]]
              /\ pc[w] = "succeeding" => done'[job[w]] = StepsOf[job[w]]
          BY <1>0, <3>1, <4>1 DEF RowInv, StepsInOrder, WorkerTypes, InRun
        <4> QED BY <1>0, <3>1, <4>1, <4>2, StepsStay DEF RowInv
      <3> QED BY <3>2, <3>3, <3>4, <3>5 DEF RowInv
    <2>2. CASE ~ StillStale(w, r)
      BY <1>11, <2>2 DEF SweepRow, RowInv, ClaimsAreLocks, StepsInOrder,
         InFlightReapable, OneResetPerClaim, SucceededMeansCommitted
    <2> QED BY <2>1, <2>2
  <1>12. ASSUME UNCHANGED <<rowVars, workerVars, histVars>>
        PROVE  RowInv'
    BY <1>12 DEF RowInv, ClaimsAreLocks, StepsInOrder, InFlightReapable,
       OneResetPerClaim, SucceededMeansCommitted
  <1> QED
    BY <1>1, <1>2, <1>3, <1>4, <1>5, <1>6, <1>7, <1>8, <1>9, <1>10, <1>11, <1>12
       DEF Next, Work, Sweep, Fault, SweepSelect, SweepFault, AgeToken, vars
LEMMA InitRows == Init => RowInv
  <1> SUFFICES ASSUME Init PROVE RowInv
    OBVIOUS
  <1>1. ClaimsAreLocks /\ InFlightReapable /\ OneResetPerClaim /\ SucceededMeansCommitted
    BY DEF Init, ClaimsAreLocks, InFlightReapable, OneResetPerClaim,
       SucceededMeansCommitted, InFlight
  <1>2. StepsInOrder
    BY DEF Init, StepsInOrder, InRun, InStep
  <1> QED BY <1>1, <1>2 DEF RowInv

(* The inductive invariant of every engine, for any bounds on crashes,     *)
(* failing statements and stalls.                                          *)
THEOREM EngineInvariant == Spec => [](Types /\ RowInv)
  <1>1. Init => Types /\ RowInv
    BY InitTypes, InitRows
  <1>2. Types /\ RowInv /\ [Next]_vars => (Types /\ RowInv)'
    BY NextTypes, NextRows
  <1> QED BY <1>1, <1>2, PTL DEF Spec

(* The engine's variables keep their types; in particular a worker has a   *)
(* job exactly when it is claiming or inside Run.                          *)
THEOREM EngineTypes == Spec => []TypeOK
  <1>1. Types => TypeOK
    BY TypeParts
  <1> QED BY <1>1, EngineInvariant, PTL

(* The reaper can find every in-flight run: no claim, crash or reset ever  *)
(* leaves a 'starting' or 'running' row without a heartbeat, which its     *)
(* filter would never match.                                               *)
THEOREM RowsStayReapable == Spec => []InFlightReapable
  <1>1. RowInv => InFlightReapable
    BY DEF RowInv
  <1> QED BY <1>1, EngineInvariant, PTL

(* SweepOnce is safe to invoke concurrently: any number of reapers resets  *)
(* a claim at most once.                                                   *)
THEOREM ResetsAreUnique == Spec => []OneResetPerClaim
  <1>1. RowInv => OneResetPerClaim
    BY DEF RowInv
  <1> QED BY <1>1, EngineInvariant, PTL

(* No run is marked succeeded before every step of its plan has committed  *)
(* its results, even by a worker that has lost its claim.                  *)
THEOREM SuccessIsCommitted == Spec => []SucceededMeansCommitted
  <1>1. RowInv => SucceededMeansCommitted
    BY DEF RowInv
  <1> QED BY <1>1, EngineInvariant, PTL

-----------------------------------------------------------------------------
(* Refinement                                                              *)

LEMMA LifecycleDefs ==
    /\ Lifecycle!States = States
    /\ Lifecycle!legalTransitions = legalTransitions
    /\ Lifecycle!resetTransitions = resetTransitions
  BY DEF Lifecycle!States, States, Lifecycle!Terminal, Terminal, Lifecycle!InFlight,
     InFlight, Lifecycle!legalTransitions, legalTransitions,
     Lifecycle!resetTransitions, resetTransitions

(* A forward edge of one row.                                              *)
LEMMA AdvanceRefines ==
    ASSUME NEW r \in Runs, NEW to \in States, <<state[r], to>> \in legalTransitions,
           to = "succeeded" => done[r] = StepsOf[r],
           state' = [state EXCEPT ![r] = to], UNCHANGED done
    PROVE  Lifecycle!Next
  <1>1. Lifecycle!Advance(r, to)
    BY LifecycleDefs DEF Lifecycle!Advance
  <1> QED BY <1>1, LifecycleDefs DEF Lifecycle!Next

(* The UPDATE of transition() is a forward edge or does nothing.           *)
LEMMA TransitionRefines ==
    ASSUME NEW r \in Runs, NEW from, NEW to \in States,
           <<from, to>> \in legalTransitions,
           to = "succeeded" => done[r] = StepsOf[r],
           Transition(r, from, to), UNCHANGED done
    PROVE  [Lifecycle!Next]_<<state, done>>
  <1>1. CASE state[r] = from
    BY <1>1, AdvanceRefines DEF Transition
  <1>2. CASE state[r] # from
    BY <1>2 DEF Transition
  <1> QED BY <1>1, <1>2

(* Every step of the engine is a step of the lifecycle of one row, or      *)
(* leaves states and committed steps alone.                                *)
LEMMA StepRefines ==
    Types /\ RowInv /\ [Next]_vars => [Lifecycle!Next]_<<state, done>>
  <1> SUFFICES ASSUME Types, RowInv, [Next]_vars
               PROVE  [Lifecycle!Next]_<<state, done>>
    OBVIOUS
  <1> USE DEF rowVars, tokenVars, workerVars, sweepVars, histVars, boundVars
  <1>0. RowTypes /\ WorkerTypes /\ HistTypes
    BY DEF Types
  <1>1. ASSUME NEW r \in Runs, Enqueue(r)
        PROVE  Lifecycle!Next
    <2>1. Lifecycle!Enqueue(r)
      BY <1>1 DEF Enqueue, Lifecycle!Enqueue
    <2> QED BY <2>1 DEF Lifecycle!Next
  <1>2. ASSUME NEW w \in Workers, pc[w] = "claiming", ClaimRow(w)
        PROVE  Lifecycle!Next
    <2>1. job[w] \in Runs /\ state[job[w]] = "queued"
      BY <1>0, <1>2, JobIsRun DEF RowInv, ClaimsAreLocks
    <2>2. <<state[job[w]], "starting">> \in legalTransitions /\ "starting" \in States
      BY <2>1 DEF legalTransitions, States, InFlight
    <2> QED BY <1>2, <2>1, <2>2, AdvanceRefines DEF ClaimRow
  <1>3. ASSUME NEW w \in Workers, pc[w] = "starting", UNCHANGED done,
               Transition(job[w], "starting", "running")
        PROVE  [Lifecycle!Next]_<<state, done>>
    <2>1. job[w] \in Runs
      BY <1>0, <1>3, JobIsRun
    <2>2. <<"starting", "running">> \in legalTransitions /\ "running" \in States
      BY DEF legalTransitions, States, InFlight
    <2> QED BY <1>3, <2>1, <2>2, TransitionRefines
  <1>4. ASSUME NEW w \in Workers, CommitOk(w) \/ CommitErr(w)
        PROVE  [Lifecycle!Next]_<<state, done>>
    <2>1. /\ pc[w] = "commit" /\ UNCHANGED state
          /\ done' = [done EXCEPT ![job[w]] = @ \cup {step[w]}] \/ UNCHANGED done
      BY <1>4 DEF CommitOk, CommitErr, CommitStep
    <2>2. job[w] \in Runs /\ step[w] \in StepsOf[job[w]] /\ state[job[w]] # "absent"
      BY <1>0, <2>1, JobIsRun DEF WorkerTypes, RowInv, StepsInOrder, InRun, InStep
    <2>3. CASE done' = [done EXCEPT ![job[w]] = @ \cup {step[w]}]
      <3>1. Lifecycle!CommitStep(job[w], step[w])
        BY <2>1, <2>2, <2>3 DEF Lifecycle!CommitStep
      <3> QED BY <2>2, <3>1 DEF Lifecycle!Next
    <2> QED BY <2>1, <2>3
  <1>5. ASSUME NEW w \in Workers, Succeed(w)
        PROVE  [Lifecycle!Next]_<<state, done>>
    <2>1. /\ pc[w] = "succeeding" /\ UNCHANGED done
          /\ Transition(job[w], "running", "succeeded") \/ UNCHANGED state
      BY <1>5 DEF Succeed, Finish
    <2>2. job[w] \in Runs /\ done[job[w]] = StepsOf[job[w]]
      BY <1>0, <2>1, JobIsRun DEF RowInv, StepsInOrder
    <2>3. <<"running", "succeeded">> \in legalTransitions /\ "succeeded" \in States
      BY DEF legalTransitions, States, Terminal
    <2> QED BY <2>1, <2>2, <2>3, TransitionRefines
  <1>6. ASSUME NEW w \in Workers, Fail(w)
        PROVE  [Lifecycle!Next]_<<state, done>>
    <2>1. /\ pc[w] = "failing" /\ UNCHANGED done
          /\ Transition(job[w], "running", "failed") \/ UNCHANGED state
      BY <1>6 DEF Fail, Finish
    <2>2. job[w] \in Runs
      BY <1>0, <2>1, JobIsRun
    <2>3. <<"running", "failed">> \in legalTransitions /\ "failed" \in States
      BY DEF legalTransitions, States, Terminal
    <2> QED BY <2>1, <2>2, <2>3, TransitionRefines
  <1>7. ASSUME NEW w \in Workers, NEW r \in Runs, SweepRow(w, r)
        PROVE  [Lifecycle!Next]_<<state, done>>
    <2>1. CASE StillStale(w, r)
      <3>1. Lifecycle!Reset(r)
        BY <1>7, <2>1, LifecycleDefs
           DEF SweepRow, StillStale, Lifecycle!Reset, resetTransitions, InFlight
      <3> QED BY <3>1 DEF Lifecycle!Next
    <2>2. CASE ~ StillStale(w, r)
      BY <1>7, <2>2 DEF SweepRow
    <2> QED BY <2>1, <2>2
  <1>8. ASSUME NEW w \in Workers,
               \/ Gate(w) \/ AcquireOk(w) \/ AcquireMiss(w) \/ AcquireFault(w)
               \/ MaterializeOk(w) \/ MaterializeErr(w) \/ MaskErr(w) \/ EmitTerminal(w)
               \/ Unresolvable(w) \/ Cleanup(w) \/ Crash(w) \/ Restart(w)
        PROVE  UNCHANGED <<state, done>>
    BY <1>8, QuietSteps DEF Quiet
  <1>9. CASE UNCHANGED <<state, done>>
    BY <1>9
  <1> QED
    BY <1>1, <1>2, <1>3, <1>4, <1>5, <1>6, <1>7, <1>8, <1>9
       DEF Next, Work, Sweep, Fault, ClaimCommit, ClaimFault, Start, StartFault,
           ClaimSelect, Expire, Heartbeat, SweepSelect, SweepFault, AgeToken, vars

(* The engine implements the lifecycle it promises of every row, for any   *)
(* workers, crashes, failing statements and stalls.                        *)
THEOREM EngineImplementsLifecycle == Spec => ImplementsLifecycle
  <1>1. Init => Lifecycle!Init
    BY DEF Init, Lifecycle!Init
  <1>2. Types /\ RowInv /\ [Next]_vars => [Lifecycle!Next]_(Lifecycle!vars)
    BY StepRefines DEF Lifecycle!vars
  <1> QED
    BY <1>1, <1>2, EngineInvariant, PTL DEF Spec, ImplementsLifecycle, Lifecycle!Spec
-----------------------------------------------------------------------------
(* Exclusive execution                                                     *)

(* What a step leaves of the row that worker v executes.                   *)
KeepsRow(v) ==
    /\ claimedBy'[job[v]] = claimedBy[job[v]]
    /\ state'[job[v]] \notin {"absent", "queued"}
    /\ pc'[v] = "starting" => state'[job[v]] = "starting"
    /\ pc'[v] \in InStep => state'[job[v]] = "running"
    /\ state'[job[v]] \in InFlight => heartbeat'[job[v]] = "fresh"
    /\ \A u \in Workers : job[v] \notin old'[u]

(* The rows of the runs that workers are executing stay as they are, and   *)
(* worker w leaves its run or moves on inside it.                          *)
LEMMA OwnershipStays ==
    ASSUME WorkerTypes, OwnershipInv, NEW w \in Workers,
           stalls' = stalls,
           \A v \in Workers \ {w} : pc'[v] = pc[v] /\ job'[v] = job[v],
           pc'[w] \in InRun => pc[w] \in InRun /\ job'[w] = job[w],
           \A v \in Workers : pc'[v] \in InRun => KeepsRow(v)
    PROVE  OwnershipInv'
  <1>1. \A v \in Workers : pc'[v] \in InRun => pc[v] \in InRun /\ job'[v] = job[v]
    OBVIOUS
  <1>2. ASSUME NEW v \in Workers, pc'[v] \in InRun
        PROVE  OwnsRun(v)'
    <2>1. claimedBy[job[v]] = v
      BY <1>1, <1>2 DEF OwnershipInv, OwnsRun
    <2>2. \A u \in Workers \ {v} : pc'[u] \in InRun => job'[u] # job'[v]
      BY <1>1, <1>2 DEF OwnershipInv, OwnsRun
    <2> QED BY <1>1, <1>2, <2>1, <2>2 DEF OwnsRun, KeepsRow
  <1> QED BY <1>2 DEF OwnershipInv

(* What OwnsRun says of the rows, for a worker that stays inside Run.      *)
LEMMA OwnerRow ==
    ASSUME OwnershipInv, NEW v \in Workers, pc[v] \in InRun
    PROVE  /\ claimedBy[job[v]] = v /\ state[job[v]] \notin {"absent", "queued"}
           /\ pc[v] = "starting" => state[job[v]] = "starting"
           /\ pc[v] \in InStep => state[job[v]] = "running"
           /\ state[job[v]] \in InFlight => heartbeat[job[v]] = "fresh"
           /\ \A u \in Workers : job[v] \notin old[u]
           /\ \A u \in Workers \ {v} : pc[u] \in InRun => job[u] # job[v]
  BY DEF OwnershipInv, OwnsRun

(* A step that leaves the row of v alone, and v where it is in Run or past *)
(* the start of it.                                                        *)
LEMMA SameRow ==
    ASSUME OwnershipInv, NEW v \in Workers, pc[v] \in InRun,
           \/ pc'[v] = pc[v]
           \/ pc'[v] # "starting" /\ (pc'[v] \in InStep => pc[v] \in InStep),
           claimedBy'[job[v]] = claimedBy[job[v]], state'[job[v]] = state[job[v]],
           heartbeat[job[v]] = "fresh" => heartbeat'[job[v]] = "fresh",
           \A u \in Workers : job[v] \notin old'[u]
    PROVE  KeepsRow(v)
  <1>1. /\ state[job[v]] \notin {"absent", "queued"}
        /\ pc[v] = "starting" => state[job[v]] = "starting"
        /\ pc[v] \in InStep => state[job[v]] = "running"
        /\ state[job[v]] \in InFlight => heartbeat[job[v]] = "fresh"
    BY OwnerRow
  <1>2. /\ pc'[v] = "starting" => pc[v] = "starting"
        /\ pc'[v] \in InStep => pc[v] \in InStep
    OBVIOUS
  <1> QED BY <1>1, <1>2 DEF KeepsRow

(* Reapers keep their hands off the runs that are being executed.          *)
LEMMA NextOwnership ==
    Types /\ RowInv /\ OwnershipInv /\ [Next]_vars /\ stalls' = MaxStalls => OwnershipInv'
  <1> SUFFICES ASSUME Types, RowInv, OwnershipInv, [Next]_vars, stalls' = MaxStalls
               PROVE  OwnershipInv'
    OBVIOUS
  <1> USE ConstantsAssumption
          DEF rowVars, tokenVars, workerVars, sweepVars, histVars, boundVars
  <1>0. RowTypes /\ WorkerTypes /\ SweepTypes
    BY DEF Types
  <1>1. ASSUME NEW r \in Runs, Enqueue(r)
        PROVE  OwnershipInv'
    <2>1. \A v \in Workers : pc[v] \in InRun => job[v] # r
      BY <1>1, OwnerRow DEF Enqueue
    <2> QED BY <1>0, <1>1, <2>1 DEF Enqueue, OwnershipInv, OwnsRun, RowTypes
  <1>2. ASSUME NEW r \in Runs, Expire(r)
        PROVE  OwnershipInv'
    <2>1. ~ Executing(r) /\ UNCHANGED stalls
      BY <1>2 DEF Expire, OwnershipInv
    <2>2. \A v \in Workers : pc[v] \in InRun => job[v] # r
      BY <2>1 DEF Executing
    <2> QED BY <1>0, <1>2, <2>1, <2>2 DEF Expire, OwnershipInv, OwnsRun, RowTypes
  <1>3. ASSUME NEW w \in Workers, ClaimSelect(w)
        PROVE  OwnershipInv'
    <2>1. /\ pc'[w] = "claiming"
          /\ \A v \in Workers \ {w} : pc'[v] = pc[v] /\ job'[v] = job[v]
      BY <1>0, <1>3 DEF ClaimSelect, Goto, WorkerTypes
    <2>2. "claiming" \notin InRun
      BY DEF InRun
    <2>3. UNCHANGED <<state, claimedBy, heartbeat, old, stalls>>
      BY <1>3 DEF ClaimSelect
    <2>4. ASSUME NEW v \in Workers, pc'[v] \in InRun
          PROVE  KeepsRow(v)
      <3>1. pc[v] \in InRun /\ pc'[v] = pc[v]
        BY <2>1, <2>2, <2>4
      <3>2. \A u \in Workers : job[v] \notin old'[u]
        BY <2>3, <3>1, OwnerRow
      <3> QED BY <2>3, <3>1, <3>2, SameRow
    <2>5. pc'[w] \in InRun => pc[w] \in InRun /\ job'[w] = job[w]
      BY <2>1, <2>2
    <2> QED BY <1>0, <2>1, <2>3, <2>4, <2>5, OwnershipStays
  <1>4. ASSUME NEW w \in Workers, pc[w] = "claiming", ClaimRow(w), UNCHANGED stalls,
               pc' = [pc EXCEPT ![w] = pc'[w]], job' = [job EXCEPT ![w] = job'[w]],
               pc'[w] = "idle" \/ (pc'[w] = "starting" /\ job'[w] = job[w])
        PROVE  OwnershipInv'
    <2>0. /\ job[w] \in Runs /\ state[job[w]] = "queued"
          /\ \A v \in Workers \ {w} : pc'[v] = pc[v] /\ job'[v] = job[v]
      BY <1>0, <1>4, JobIsRun DEF RowInv, ClaimsAreLocks, WorkerTypes
    <2>1. \A v \in Workers : pc[v] \in InRun => job[v] # job[w] /\ v # w
      BY <1>4, <2>0, OwnerRow DEF InRun
    <2>2. ASSUME NEW v \in Workers, v # w, pc'[v] \in InRun
          PROVE  OwnsRun(v)'
      <3>1. pc[v] \in InRun /\ job'[v] = job[v] /\ pc'[v] = pc[v] /\ job[v] # job[w]
        BY <2>0, <2>1, <2>2
      <3>2. /\ claimedBy'[job[v]] = claimedBy[job[v]] /\ state'[job[v]] = state[job[v]]
            /\ heartbeat'[job[v]] = heartbeat[job[v]]
            /\ \A u \in Workers : old'[u] \subseteq old[u]
        BY <1>0, <1>4, <3>1 DEF ClaimRow, ForgetOld, RowTypes
      <3>3. \A u \in Workers \ {v} : pc'[u] \in InRun => job'[u] # job[v]
        <4> SUFFICES ASSUME NEW u \in Workers \ {v}, pc'[u] \in InRun
                     PROVE  job'[u] # job[v]
          OBVIOUS
        <4>0. "idle" \notin InRun
          BY DEF InRun
        <4>1. CASE u = w
          <5>1. job'[w] = job[w]
            BY <1>4, <4>0, <4>1
          <5> QED BY <3>1, <4>1, <5>1
        <4>2. CASE u # w
          <5>1. pc[u] \in InRun /\ job'[u] = job[u]
            BY <2>0, <4>2
          <5>2. job[u] # job[v]
            BY <3>1, <5>1, OwnerRow
          <5> QED BY <5>1, <5>2
        <4> QED BY <4>1, <4>2
      <3> QED BY <3>1, <3>2, <3>3, OwnerRow DEF OwnsRun
    <2>3. ASSUME pc'[w] \in InRun
          PROVE  OwnsRun(w)'
      <3>1. pc'[w] = "starting" /\ job'[w] = job[w]
        BY <1>4, <2>3 DEF InRun
      <3>2. /\ claimedBy'[job[w]] = w /\ state'[job[w]] = "starting"
            /\ heartbeat'[job[w]] = "fresh"
            /\ \A u \in Workers : job[w] \notin old'[u]
        BY <1>0, <1>4, <2>0 DEF ClaimRow, ForgetOld, RowTypes
      <3>3. \A u \in Workers \ {w} : pc'[u] \in InRun => job'[u] # job[w]
        BY <2>0, <2>1
      <3> QED BY <3>1, <3>2, <3>3 DEF OwnsRun, InStep
    <2> QED BY <1>4, <2>2, <2>3 DEF OwnershipInv
  <1>5. ASSUME NEW w \in Workers, Start(w) \/ StartFault(w)
        PROVE  OwnershipInv'
    <2>0. /\ pc[w] = "starting" /\ job[w] \in Runs
          /\ UNCHANGED <<claimedBy, heartbeat, old, stalls>>
          /\ Transition(job[w], "starting", "running") \/ UNCHANGED state
          /\ \A v \in Workers \ {w} : pc'[v] = pc[v] /\ job'[v] = job[v]
          /\ \/ /\ pc'[w] = "gate" /\ job'[w] = job[w]
                /\ Transition(job[w], "starting", "running")
             \/ pc'[w] = "idle"
      BY <1>0, <1>5 DEF Start, StartFault, BeginStep, Return, Goto, DbFault, WorkerTypes
    <2>1. /\ state[job[w]] = "starting" /\ pc[w] \in InRun
          /\ \A v \in Workers \ {w} : pc[v] \in InRun => job[v] # job[w]
      BY <2>0, OwnerRow DEF InRun
    <2>2. \A r \in Runs \ {job[w]} : state'[r] = state[r]
      BY <1>0, <2>0 DEF Transition, RowTypes
    <2>3. pc'[w] = "gate" => state'[job[w]] = "running"
      BY <1>0, <2>0, <2>1 DEF Transition, RowTypes
    <2>4. ASSUME NEW v \in Workers, pc'[v] \in InRun
          PROVE  KeepsRow(v)
      <3>1. CASE v = w
        <4>1. pc'[w] = "gate"
          BY <2>0, <2>4, <3>1 DEF InRun
        <4>2. heartbeat[job[w]] = "fresh" /\ \A u \in Workers : job[w] \notin old[u]
          BY <2>1, OwnerRow DEF InFlight
        <4> QED BY <2>0, <2>3, <3>1, <4>1, <4>2 DEF KeepsRow
      <3>2. CASE v # w
        <4>1. pc[v] \in InRun /\ pc'[v] = pc[v] /\ job[v] # job[w]
          BY <2>0, <2>1, <2>4, <3>2
        <4>2. job[v] \in Runs
          BY <1>0, <4>1, JobIsRun DEF InRun
        <4>3. \A u \in Workers : job[v] \notin old'[u]
          BY <2>0, <4>1, OwnerRow
        <4> QED BY <2>0, <2>2, <4>1, <4>2, <4>3, SameRow
      <3> QED BY <3>1, <3>2
    <2>5. pc'[w] \in InRun => pc[w] \in InRun /\ job'[w] = job[w]
      BY <2>0, <2>1 DEF InRun
    <2> QED BY <1>0, <2>0, <2>4, <2>5, OwnershipStays
  <1>6. ASSUME NEW w \in Workers, UNCHANGED <<state, claimedBy, heartbeat, stalls>>,
               \A u \in Workers : old'[u] \subseteq old[u],
               \A v \in Workers \ {w} : pc'[v] = pc[v] /\ job'[v] = job[v],
               pc'[w] \in InRun =>
                   /\ pc[w] \in InRun /\ job'[w] = job[w] /\ pc'[w] # "starting"
                   /\ pc'[w] \in InStep => pc[w] \in InStep
        PROVE  OwnershipInv'
    <2>1. ASSUME NEW v \in Workers, pc'[v] \in InRun
          PROVE  KeepsRow(v)
      <3>1. /\ pc[v] \in InRun
            /\ \/ pc'[v] = pc[v]
               \/ pc'[v] # "starting" /\ (pc'[v] \in InStep => pc[v] \in InStep)
        BY <1>6, <2>1
      <3>2. \A u \in Workers : job[v] \notin old'[u]
        BY <1>6, <3>1, OwnerRow
      <3> QED BY <1>6, <3>1, <3>2, SameRow
    <2> QED BY <1>0, <1>6, <2>1, OwnershipStays
  <1>7. ASSUME NEW w \in Workers,
               \/ Gate(w) \/ AcquireOk(w) \/ AcquireMiss(w) \/ AcquireFault(w)
               \/ MaterializeOk(w) \/ MaterializeErr(w) \/ MaskErr(w) \/ EmitTerminal(w)
               \/ Unresolvable(w) \/ Cleanup(w) \/ Crash(w) \/ Restart(w)
        PROVE  OwnershipInv'
    <2>1. Quiet(w)
      BY <1>7, QuietSteps
    <2>2. UNCHANGED stalls
      BY <1>7 DEF Gate, AcquireOk, AcquireMiss, AcquireFault, MaterializeOk,
         MaterializeErr, MaskErr, EmitTerminal, Unresolvable, Cleanup, Crash, Restart,
         ReleaseAcquired, DbFault
    <2>3. \A u \in Workers : old'[u] \subseteq old[u]
      BY <1>0, <1>7 DEF Gate, AcquireOk, AcquireMiss, AcquireFault, MaterializeOk,
         MaterializeErr, MaskErr, EmitTerminal, Unresolvable, Cleanup, Crash, Restart,
         SweepTypes
    <2>4. /\ \A v \in Workers \ {w} : pc'[v] = pc[v] /\ job'[v] = job[v]
          /\ pc'[w] \in InRun =>
               /\ pc[w] \in InRun /\ job'[w] = job[w] /\ pc'[w] # "starting"
               /\ pc'[w] \in InStep => pc[w] \in InStep
      BY <1>0, <2>1 DEF Quiet, WorkerTypes, InRun
    <2> QED BY <1>6, <2>1, <2>2, <2>3, <2>4 DEF Quiet
  <1>8. ASSUME NEW w \in Workers, CommitOk(w) \/ CommitErr(w)
        PROVE  OwnershipInv'
    <2>1. /\ UNCHANGED <<state, claimedBy, heartbeat, stalls, old, job>>
          /\ \A v \in Workers \ {w} : pc'[v] = pc[v]
          /\ pc[w] = "commit" /\ pc'[w] # "starting"
      BY <1>0, <1>8 DEF CommitOk, CommitErr, StepsLeft, BeginStep, StepFails, Goto,
         DbFault, WorkerTypes
    <2>2. pc[w] \in InRun /\ pc[w] \in InStep
      BY <2>1 DEF InRun, InStep
    <2> QED BY <1>6, <2>1, <2>2
  <1>9. ASSUME NEW w \in Workers, Succeed(w) \/ Fail(w)
        PROVE  OwnershipInv'
    <2>0. /\ pc[w] \in InRun /\ job[w] \in Runs
          /\ UNCHANGED <<claimedBy, heartbeat, old, job, stalls>>
          /\ \/ UNCHANGED state
             \/ Transition(job[w], "running", "failed")
             \/ Transition(job[w], "running", "succeeded")
          /\ \A v \in Workers \ {w} : pc'[v] = pc[v]
          /\ pc'[w] \in {"emit_succeeded", "emit_failed"}
      BY <1>0, <1>9 DEF Succeed, Fail, Finish, Goto, WorkerTypes, DbFault, InRun
    <2>1. /\ \A r \in Runs \ {job[w]} : state'[r] = state[r]
          /\ state'[job[w]] \in {state[job[w]], "failed", "succeeded"}
      BY <1>0, <2>0 DEF Transition, RowTypes
    <2>2. pc'[w] \notin InStep /\ pc'[w] # "starting"
      BY <2>0 DEF InStep
    <2>3. ASSUME NEW v \in Workers, pc'[v] \in InRun
          PROVE  KeepsRow(v)
      <3>1. CASE v = w
        <4>1. state'[job[w]] \in InFlight => state'[job[w]] = state[job[w]]
          BY <2>1 DEF InFlight
        <4>2. /\ state'[job[w]] \notin {"absent", "queued"}
              /\ state[job[w]] \in InFlight => heartbeat[job[w]] = "fresh"
              /\ \A u \in Workers : job[w] \notin old[u]
          BY <2>0, <2>1, OwnerRow
        <4> QED BY <2>0, <2>2, <3>1, <4>1, <4>2 DEF KeepsRow
      <3>2. CASE v # w
        <4>1. pc[v] \in InRun /\ pc'[v] = pc[v]
          BY <2>0, <2>3, <3>2
        <4>2. job[v] \in Runs
          BY <1>0, <4>1, JobIsRun DEF InRun
        <4>3. job[v] # job[w]
          BY <2>0, <3>2, <4>1, OwnerRow
        <4>4. \A u \in Workers : job[v] \notin old'[u]
          BY <2>0, <4>1, OwnerRow
        <4> QED BY <2>0, <2>1, <4>1, <4>2, <4>4, <4>3, SameRow
      <3> QED BY <3>1, <3>2
    <2> QED BY <1>0, <2>0, <2>3, OwnershipStays
  <1>10. ASSUME NEW w \in Workers, Heartbeat(w)
        PROVE  OwnershipInv'
    <2>1. job[w] \in Runs
      BY <1>0, <1>10, JobIsRun DEF Heartbeat, InRun
    <2>2. \A v \in Workers : /\ heartbeat[job[v]] = "fresh" => heartbeat'[job[v]] = "fresh"
                             /\ old'[v] \subseteq old[v]
      BY <1>0, <1>10, <2>1 DEF Heartbeat, ForgetOld, RowTypes
    <2>3. UNCHANGED <<state, claimedBy, pc, job, stalls>>
      BY <1>10 DEF Heartbeat
    <2>4. ASSUME NEW v \in Workers, pc'[v] \in InRun
          PROVE  KeepsRow(v)
      <3>1. pc[v] \in InRun
        BY <2>3, <2>4
      <3>2. \A u \in Workers : job[v] \notin old'[u]
        BY <2>2, <3>1, OwnerRow
      <3> QED BY <2>2, <2>3, <3>1, <3>2, SameRow
    <2> QED BY <1>0, <2>3, <2>4, OwnershipStays
  <1>11. ASSUME NEW w \in Workers, SweepSelect(w)
        PROVE  OwnershipInv'
    <2>1. \A v \in Workers, u \in Workers : pc[v] \in InRun => job[v] \notin old'[u]
      BY <1>0, <1>11, OwnerRow DEF SweepSelect, Reapable, SweepTypes
    <2>2. UNCHANGED <<state, claimedBy, heartbeat, pc, job, stalls>>
      BY <1>11 DEF SweepSelect
    <2>3. ASSUME NEW v \in Workers, pc'[v] \in InRun
          PROVE  KeepsRow(v)
      BY <2>1, <2>2, <2>3, SameRow
    <2> QED BY <1>0, <2>2, <2>3, OwnershipStays
  <1>12. ASSUME NEW w \in Workers, NEW r \in Runs, SweepRow(w, r)
        PROVE  OwnershipInv'
    <2>1. \A u \in Workers : old'[u] \subseteq old[u]
      <3>1. CASE StillStale(w, r)
        BY <1>12, <3>1 DEF SweepRow, ForgetOld
      <3>2. CASE ~ StillStale(w, r)
        <4>1. old' = [old EXCEPT ![w] = old[w] \ {r}]
          BY <1>12, <3>2 DEF SweepRow
        <4> QED BY <1>0, <4>1 DEF SweepTypes
      <3> QED BY <3>1, <3>2
    <2>2. \A v \in Workers : pc[v] \in InRun =>
            /\ state'[job[v]] = state[job[v]] /\ claimedBy'[job[v]] = claimedBy[job[v]]
            /\ heartbeat'[job[v]] = heartbeat[job[v]]
      <3>1. CASE StillStale(w, r)
        <4>1. \A v \in Workers : pc[v] \in InRun => job[v] # r
          BY <3>1, OwnerRow DEF StillStale
        <4>2. \A q \in Runs \ {r} : /\ state'[q] = state[q] /\ heartbeat'[q] = heartbeat[q]
                                    /\ claimedBy'[q] = claimedBy[q]
          BY <1>0, <1>12, <3>1 DEF SweepRow, RowTypes
        <4>3. \A v \in Workers : pc[v] \in InRun => job[v] \in Runs
          BY <1>0, JobIsRun DEF InRun
        <4> QED BY <4>1, <4>2, <4>3
      <3>2. CASE ~ StillStale(w, r)
        BY <1>12, <3>2 DEF SweepRow
      <3> QED BY <3>1, <3>2
    <2>3. UNCHANGED <<pc, job, stalls>>
      BY <1>12 DEF SweepRow
    <2>4. ASSUME NEW v \in Workers, pc'[v] \in InRun
          PROVE  KeepsRow(v)
      <3>1. pc[v] \in InRun
        BY <2>3, <2>4
      <3>2. \A u \in Workers : job[v] \notin old'[u]
        BY <2>1, <3>1, OwnerRow
      <3> QED BY <2>2, <2>3, <3>1, <3>2, SameRow
    <2> QED BY <1>0, <2>3, <2>4, OwnershipStays
  <1>13. ASSUME NEW w \in Workers, NEW r \in Runs, SweepFault(w, r)
        PROVE  OwnershipInv'
    <2>1. /\ UNCHANGED <<state, claimedBy, heartbeat, pc, job, stalls>>
          /\ old' = [old EXCEPT ![w] = old[w] \ {r}]
      BY <1>13 DEF SweepFault, DbFault
    <2>2. \A u \in Workers : old'[u] \subseteq old[u]
      BY <1>0, <2>1 DEF SweepTypes
    <2>3. ASSUME NEW v \in Workers, pc'[v] \in InRun
          PROVE  KeepsRow(v)
      <3>1. pc[v] \in InRun
        BY <2>1, <2>3
      <3>2. \A u \in Workers : job[v] \notin old'[u]
        BY <2>2, <3>1, OwnerRow
      <3> QED BY <2>1, <3>1, <3>2, SameRow
    <2> QED BY <1>0, <2>1, <2>3, OwnershipStays
  <1>14. ASSUME NEW k \in tokens, AgeToken(k)
        PROVE  OwnershipInv'
    BY <1>14 DEF AgeToken, OwnershipInv, OwnsRun
  <1>15. CASE UNCHANGED vars
    BY <1>15 DEF vars, OwnershipInv, OwnsRun
  <1>16. ASSUME NEW w \in Workers, ClaimCommit(w)
        PROVE  OwnershipInv'
    BY <1>0, <1>4, <1>16 DEF ClaimCommit, Goto, WorkerTypes
  <1>17. ASSUME NEW w \in Workers, ClaimFault(w)
        PROVE  OwnershipInv'
    <2>0. /\ pc[w] = "claiming" /\ UNCHANGED stalls /\ pc'[w] = "idle"
          /\ pc' = [pc EXCEPT ![w] = pc'[w]] /\ job' = [job EXCEPT ![w] = job'[w]]
          /\ \A v \in Workers \ {w} : pc'[v] = pc[v] /\ job'[v] = job[v]
      BY <1>0, <1>17 DEF ClaimFault, Return, Goto, DbFault, WorkerTypes
    <2>1. CASE ClaimRow(w)
      BY <1>4, <2>0, <2>1
    <2>2. CASE UNCHANGED <<rowVars, tokenVars, sweepVars, histVars>>
      BY <1>6, <2>0, <2>2 DEF InRun
    <2> QED BY <1>17, <2>1, <2>2 DEF ClaimFault
  <1> QED
    BY <1>1, <1>2, <1>3, <1>5, <1>7, <1>8, <1>9, <1>10, <1>11, <1>12, <1>14, <1>15,
       <1>16, <1>17, <1>13
       DEF Next, Work, Sweep, Fault

(* No step gives back a stall or a fault.                                  *)
LEMMA BoundsFall ==
    Types /\ [Next]_vars => stalls' <= stalls /\ dbFaults' <= dbFaults
  <1> SUFFICES ASSUME Types, [Next]_vars
               PROVE  stalls' <= stalls /\ dbFaults' <= dbFaults
    OBVIOUS
  <1> USE DEF boundVars
  <1>0. stalls \in Nat /\ dbFaults \in Nat
    BY DEF Types, BoundTypes
  <1>1. ASSUME UNCHANGED boundVars \/ DbFault
        PROVE  stalls' <= stalls /\ dbFaults' <= dbFaults
    BY <1>0, <1>1 DEF DbFault
  <1>2. ASSUME NEW r \in Runs, Enqueue(r) \/ Expire(r)
        PROVE  stalls' <= stalls /\ dbFaults' <= dbFaults
    BY <1>0, <1>2 DEF Enqueue, Expire
  <1>3. ASSUME NEW w \in Workers,
               \/ ClaimSelect(w) \/ ClaimCommit(w) \/ Start(w) \/ Unresolvable(w)
               \/ Gate(w) \/ AcquireOk(w) \/ CommitOk(w) \/ Heartbeat(w)
               \/ SweepSelect(w) \/ Restart(w)
        PROVE  UNCHANGED boundVars
    BY <1>3 DEF ClaimSelect, ClaimCommit, Start, Unresolvable, Gate, AcquireOk, CommitOk,
       Heartbeat, SweepSelect, Restart
  <1>4. ASSUME NEW w \in Workers,
               \/ AcquireMiss(w) \/ MaterializeOk(w) \/ MaterializeErr(w)
               \/ Succeed(w) \/ Fail(w) \/ EmitTerminal(w) \/ Cleanup(w)
        PROVE  UNCHANGED boundVars \/ DbFault
    BY <1>4 DEF AcquireMiss, MaterializeOk, MaterializeErr, ReleaseAcquired, Succeed,
       Fail, Finish, EmitTerminal, Cleanup
  <1>5. ASSUME NEW w \in Workers,
               \/ ClaimFault(w) \/ StartFault(w) \/ AcquireFault(w) \/ MaskErr(w)
               \/ CommitErr(w)
        PROVE  DbFault
    BY <1>5 DEF ClaimFault, StartFault, AcquireFault, MaskErr, CommitErr
  <1>6. ASSUME NEW w \in Workers, NEW r \in Runs, SweepRow(w, r) \/ SweepFault(w, r)
        PROVE  UNCHANGED boundVars \/ DbFault
    BY <1>6 DEF SweepRow, SweepFault
  <1>7. ASSUME NEW w \in Workers, Crash(w)
        PROVE  stalls' <= stalls /\ dbFaults' <= dbFaults
    BY <1>0, <1>7 DEF Crash
  <1>8. ASSUME NEW k \in tokens, AgeToken(k)
        PROVE  stalls' <= stalls /\ dbFaults' <= dbFaults
    BY <1>0, <1>8 DEF AgeToken
  <1>9. CASE UNCHANGED vars
    BY <1>0, <1>9 DEF vars
  <1> QED
    BY <1>1, <1>2, <1>3, <1>4, <1>5, <1>6, <1>7, <1>8, <1>9
       DEF Next, Work, Sweep, Fault

(* What holds as long as no heartbeat was late: the bounds only fall, so a *)
(* step after which none was late had none late before it.                 *)
OnTimeInv == /\ stalls <= MaxStalls /\ dbFaults <= MaxDbFaults
             /\ stalls = MaxStalls => OwnershipInv

LEMMA InitOnTime == Init => OnTimeInv
  BY ConstantsAssumption DEF Init, OnTimeInv, OwnershipInv, InRun

LEMMA StillOnTime ==
    ASSUME Types, OnTimeInv, [Next]_vars
    PROVE  /\ stalls' <= MaxStalls /\ dbFaults' <= MaxDbFaults
           /\ stalls' = MaxStalls => stalls = MaxStalls
           /\ dbFaults' = MaxDbFaults => dbFaults = MaxDbFaults
  <1>1. stalls' <= stalls /\ dbFaults' <= dbFaults
    BY BoundsFall
  <1>2. /\ stalls \in Nat /\ dbFaults \in Nat /\ stalls' \in Nat /\ dbFaults' \in Nat
        /\ MaxStalls \in Nat /\ MaxDbFaults \in Nat
    BY NextTypes, ConstantsAssumption DEF Types, BoundTypes
  <1> QED BY <1>1, <1>2 DEF OnTimeInv

LEMMA NextOnTime == Types /\ RowInv /\ OnTimeInv /\ [Next]_vars => OnTimeInv'
  BY StillOnTime, NextOwnership DEF OnTimeInv

LEMMA OnTimeAlways == Spec => [](Types /\ RowInv /\ OnTimeInv)
  <1>1. Init => Types /\ RowInv /\ OnTimeInv
    BY InitTypes, InitRows, InitOnTime
  <1>2. Types /\ RowInv /\ OnTimeInv /\ [Next]_vars => (Types /\ RowInv /\ OnTimeInv)'
    BY NextTypes, NextRows, NextOnTime
  <1> QED BY <1>1, <1>2, PTL DEF Spec

(* With live workers that heartbeat within StaleAfter, the worker inside   *)
(* Run is the claimant of its row and no other worker executes that run,   *)
(* for any number of workers, reapers, crashes and failing statements.     *)
THEOREM ExecutionIsExclusive ==
    ASSUME MaxStalls = 0
    PROVE  Spec => []ExclusiveExecution
  <1>1. Types /\ OnTimeInv => stalls = MaxStalls
    BY DEF Types, BoundTypes, OnTimeInv
  <1>2. OwnershipInv => ExclusiveExecution
    BY DEF OwnershipInv, OwnsRun, ExclusiveExecution
  <1>3. Types /\ OnTimeInv => ExclusiveExecution
    BY <1>1, <1>2 DEF OnTimeInv
  <1> QED BY <1>3, OnTimeAlways, PTL

-----------------------------------------------------------------------------
(* Events                                                                  *)

(* What failing statements could spoil: a worker that is about to append   *)
(* the run.succeeded or run.failed event has made that transition, and the *)
(* row of an event stays as the event says, for it is terminal.            *)
EmitsFollowRow ==
    \A w \in Workers : /\ pc[w] = "emit_succeeded" => state[job[w]] = "succeeded"
                       /\ pc[w] = "emit_failed" => state[job[w]] = "failed"
EventInv ==
    stalls = MaxStalls /\ dbFaults = MaxDbFaults => EmitsFollowRow /\ EventsMatchRows

(* A row never leaves a terminal state.                                    *)
LEMMA TerminalStays ==
    ASSUME Types, RowInv, [Next]_vars, NEW r \in Runs, state[r] \in Terminal
    PROVE  state'[r] = state[r]
  <1>1. [Lifecycle!Next]_<<state, done>>
    BY StepRefines
  <1>2. RowTypes
    BY DEF Types
  <1>3. \A x \in States : <<state[r], x>> \notin legalTransitions \cup resetTransitions
    BY DEF Terminal, legalTransitions, resetTransitions
  <1>4. ASSUME NEW q \in Runs, NEW to \in States, Lifecycle!Advance(q, to)
        PROVE  state'[r] = state[r]
    BY <1>2, <1>3, <1>4, LifecycleDefs DEF Lifecycle!Advance, RowTypes
  <1>5. ASSUME NEW q \in Runs, Lifecycle!Reset(q)
        PROVE  state'[r] = state[r]
    <2>1. "queued" \in States
      BY DEF States
    <2> QED BY <1>2, <1>3, <1>5, <2>1, LifecycleDefs DEF Lifecycle!Reset, RowTypes
  <1>6. ASSUME NEW q \in Runs, Lifecycle!Enqueue(q)
        PROVE  state'[r] = state[r]
    BY <1>2, <1>6 DEF Lifecycle!Enqueue, RowTypes, Terminal
  <1>7. ASSUME NEW q \in Runs, NEW s, Lifecycle!CommitStep(q, s)
        PROVE  state'[r] = state[r]
    BY <1>7 DEF Lifecycle!CommitStep
  <1> QED BY <1>1, <1>4, <1>5, <1>6, <1>7, LifecycleDefs DEF Lifecycle!Next

(* A worker reaches the append only through its terminal transition.       *)
LEMMA EmitsAfterFinish ==
    ASSUME Types, [Next]_vars, NEW w \in Workers,
           pc'[w] \in {"emit_succeeded", "emit_failed"}
    PROVE  /\ job'[w] = job[w]
           /\ \/ pc'[w] = pc[w]
              \/ Succeed(w) /\ pc'[w] = "emit_succeeded"
              \/ Fail(w) /\ pc'[w] = "emit_failed"
  <1> USE DEF rowVars, tokenVars, workerVars, sweepVars, histVars, boundVars
  <1>0. WorkerTypes
    BY DEF Types
  <1>1. ASSUME NEW v \in Workers,
               \/ Gate(v) \/ AcquireOk(v) \/ AcquireMiss(v) \/ AcquireFault(v)
               \/ MaterializeOk(v) \/ MaterializeErr(v) \/ MaskErr(v)
               \/ Unresolvable(v) \/ Cleanup(v) \/ Crash(v) \/ Restart(v)
        PROVE  /\ pc' = [pc EXCEPT ![v] = pc'[v]] /\ job' = [job EXCEPT ![v] = job'[v]]
               /\ pc'[v] \notin {"emit_succeeded", "emit_failed"}
    <2>1. Quiet(v)
      BY <1>1, QuietSteps
    <2>2. pc'[v] \notin {"emit_succeeded", "emit_failed"}
      BY <1>0, <1>1 DEF Gate, AcquireOk, AcquireMiss, AcquireFault, MaterializeOk,
         MaterializeErr, MaskErr, Unresolvable, Cleanup, Crash, Restart, RetryOrFail,
         StepFails, Goto, Return, WorkerTypes
    <2> QED BY <2>1, <2>2 DEF Quiet
  <1>2. ASSUME NEW v \in Workers,
               \/ ClaimSelect(v) \/ ClaimCommit(v) \/ ClaimFault(v) \/ Start(v)
               \/ StartFault(v) \/ CommitOk(v) \/ CommitErr(v) \/ EmitTerminal(v)
        PROVE  /\ \A u \in Workers \ {v} : pc'[u] = pc[u] /\ job'[u] = job[u]
               /\ pc'[v] \notin {"emit_succeeded", "emit_failed"}
    BY <1>0, <1>2 DEF ClaimSelect, ClaimCommit, ClaimFault, Start, StartFault, CommitOk,
       CommitErr, EmitTerminal, BeginStep, StepFails, Return, Goto, WorkerTypes
  <1>3. ASSUME NEW v \in Workers, Succeed(v) \/ Fail(v)
        PROVE  /\ job' = job /\ \A u \in Workers \ {v} : pc'[u] = pc[u]
               /\ Succeed(v) => pc'[v] = "emit_succeeded"
               /\ Fail(v) => pc'[v] = "emit_failed"
    BY <1>0, <1>3 DEF Succeed, Fail, Finish, Goto, WorkerTypes
  <1>4. ASSUME NEW v \in Workers, Heartbeat(v) \/ SweepSelect(v)
        PROVE  UNCHANGED <<pc, job>>
    BY <1>4 DEF Heartbeat, SweepSelect
  <1>5. ASSUME NEW v \in Workers, NEW r \in Runs, SweepRow(v, r) \/ SweepFault(v, r)
        PROVE  UNCHANGED <<pc, job>>
    BY <1>5 DEF SweepRow, SweepFault
  <1>6. ASSUME NEW r \in Runs, Enqueue(r) \/ Expire(r)
        PROVE  UNCHANGED <<pc, job>>
    BY <1>6 DEF Enqueue, Expire
  <1>7. ASSUME NEW k \in tokens, AgeToken(k)
        PROVE  UNCHANGED <<pc, job>>
    BY <1>7 DEF AgeToken
  <1>8. CASE UNCHANGED vars
    BY <1>8 DEF vars
  <1>9. ASSUME NEW v \in Workers,
               \/ Gate(v) \/ AcquireOk(v) \/ AcquireMiss(v) \/ AcquireFault(v)
               \/ MaterializeOk(v) \/ MaterializeErr(v) \/ MaskErr(v)
               \/ Unresolvable(v) \/ Cleanup(v) \/ Crash(v) \/ Restart(v)
        PROVE  pc'[w] = pc[w] /\ job'[w] = job[w]
    BY <1>0, <1>1, <1>9 DEF WorkerTypes
  <1> QED
    BY <1>2, <1>3, <1>4, <1>5, <1>6, <1>7, <1>8, <1>9 DEF Next, Work, Sweep, Fault

(* Only EmitTerminal appends, and what it appends is the worker's outcome. *)
LEMMA EventsGrow ==
    ASSUME [Next]_vars
    PROVE  \/ UNCHANGED events
           \/ \E w \in Workers :
                /\ EmitTerminal(w)
                /\ \/ /\ pc[w] = "emit_succeeded"
                      /\ events' = events \cup {<<job[w], "succeeded">>}
                   \/ /\ pc[w] = "emit_failed"
                      /\ events' = events \cup {<<job[w], "failed">>}
  <1> USE DEF rowVars, tokenVars, workerVars, sweepVars, histVars, boundVars
  <1>1. ASSUME NEW w \in Workers,
               \/ ClaimSelect(w) \/ ClaimCommit(w) \/ ClaimFault(w) \/ Start(w)
               \/ StartFault(w) \/ Unresolvable(w) \/ Gate(w) \/ AcquireOk(w)
               \/ AcquireMiss(w) \/ AcquireFault(w) \/ MaterializeOk(w)
               \/ MaterializeErr(w) \/ MaskErr(w) \/ CommitOk(w) \/ CommitErr(w)
        PROVE  UNCHANGED events
    BY <1>1 DEF ClaimSelect, ClaimCommit, ClaimFault, ClaimRow, Start, StartFault,
       Unresolvable, Gate, AcquireOk, AcquireMiss, AcquireFault, MaterializeOk,
       MaterializeErr, MaskErr, CommitOk, CommitErr
  <1>2. ASSUME NEW w \in Workers,
               \/ Succeed(w) \/ Fail(w) \/ Cleanup(w) \/ Heartbeat(w)
               \/ SweepSelect(w) \/ Crash(w) \/ Restart(w)
        PROVE  UNCHANGED events
    BY <1>2 DEF Succeed, Fail, Finish, Cleanup, Heartbeat, SweepSelect, Crash, Restart
  <1>3. ASSUME NEW w \in Workers, NEW r \in Runs, SweepRow(w, r) \/ SweepFault(w, r)
        PROVE  UNCHANGED events
    BY <1>3 DEF SweepRow, SweepFault
  <1>4. ASSUME NEW r \in Runs, Enqueue(r) \/ Expire(r)
        PROVE  UNCHANGED events
    BY <1>4 DEF Enqueue, Expire
  <1>5. ASSUME NEW k \in tokens, AgeToken(k)
        PROVE  UNCHANGED events
    BY <1>5 DEF AgeToken
  <1>6. CASE UNCHANGED vars
    BY <1>6 DEF vars
  <1>7. ASSUME NEW w \in Workers, EmitTerminal(w)
        PROVE  \/ UNCHANGED events
               \/ /\ pc[w] = "emit_succeeded"
                  /\ events' = events \cup {<<job[w], "succeeded">>}
               \/ /\ pc[w] = "emit_failed"
                  /\ events' = events \cup {<<job[w], "failed">>}
    BY <1>7 DEF EmitTerminal
  <1> QED
    BY <1>1, <1>2, <1>3, <1>4, <1>5, <1>6, <1>7 DEF Next, Work, Sweep, Fault

LEMMA NextEvents ==
    Types /\ RowInv /\ OnTimeInv /\ EventInv /\ [Next]_vars => EventInv'
  <1> SUFFICES ASSUME Types, RowInv, OnTimeInv, EventInv, [Next]_vars,
                      stalls' = MaxStalls, dbFaults' = MaxDbFaults
               PROVE  EmitsFollowRow' /\ EventsMatchRows'
    BY DEF EventInv
  <1>1. /\ OwnershipInv /\ dbFaults' = dbFaults
        /\ EmitsFollowRow /\ EventsMatchRows
    BY StillOnTime DEF OnTimeInv, EventInv
  <1>2. RowTypes /\ WorkerTypes /\ HistTypes
    BY DEF Types
  <1>3. ~ DbFault
    BY <1>1 DEF DbFault, Types, BoundTypes
  <1>4. "succeeded" \in Terminal /\ "failed" \in Terminal
    BY DEF Terminal
  <1>5. EmitsFollowRow'
    <2> SUFFICES ASSUME NEW w \in Workers, pc'[w] \in {"emit_succeeded", "emit_failed"}
                 PROVE  state'[job[w]] = IF pc'[w] = "emit_succeeded"
                                         THEN "succeeded" ELSE "failed"
      BY EmitsAfterFinish DEF EmitsFollowRow
    <2>1. CASE pc'[w] = pc[w]
      <3>1. job[w] \in Runs
        BY <1>2, <2>1, JobIsRun
      <3>2. state[job[w]] = IF pc'[w] = "emit_succeeded" THEN "succeeded" ELSE "failed"
        BY <1>1, <2>1 DEF EmitsFollowRow
      <3> QED BY <1>4, <3>1, <3>2, TerminalStays
    <2>2. ASSUME Succeed(w), pc'[w] = "emit_succeeded"
          PROVE  state'[job[w]] = "succeeded"
      <3>1. pc[w] = "succeeding" /\ Transition(job[w], "running", "succeeded")
        BY <1>3, <2>2 DEF Succeed, Finish
      <3>2. job[w] \in Runs /\ pc[w] \in InRun /\ pc[w] \in InStep
        BY <1>2, <3>1, JobIsRun DEF InRun, InStep
      <3>3. state[job[w]] = "running"
        BY <1>1, <3>2, OwnerRow
      <3> QED BY <1>2, <3>1, <3>2, <3>3 DEF Transition, RowTypes
    <2>3. ASSUME Fail(w), pc'[w] = "emit_failed"
          PROVE  state'[job[w]] = "failed"
      <3>1. pc[w] = "failing" /\ Transition(job[w], "running", "failed")
        BY <1>3, <2>3 DEF Fail, Finish
      <3>2. job[w] \in Runs /\ pc[w] \in InRun /\ pc[w] \in InStep
        BY <1>2, <3>1, JobIsRun DEF InRun, InStep
      <3>3. state[job[w]] = "running"
        BY <1>1, <3>2, OwnerRow
      <3> QED BY <1>2, <3>1, <3>2, <3>3 DEF Transition, RowTypes
    <2> QED BY <2>1, <2>2, <2>3, EmitsAfterFinish
  <1>6. EventsMatchRows'
    <2> SUFFICES ASSUME NEW e \in events'
                 PROVE  state'[e[1]] = e[2]
      BY DEF EventsMatchRows
    <2>1. state[e[1]] = e[2] /\ e[1] \in Runs /\ e[2] \in {"succeeded", "failed"}
      <3>1. CASE e \in events
        BY <1>1, <1>2, <3>1 DEF EventsMatchRows, HistTypes
      <3>2. ASSUME NEW w \in Workers, pc[w] = "emit_succeeded", e = <<job[w], "succeeded">>
            PROVE  state[e[1]] = e[2] /\ e[1] \in Runs /\ e[2] = "succeeded"
        BY <1>1, <1>2, <3>2, JobIsRun DEF EmitsFollowRow
      <3>3. ASSUME NEW w \in Workers, pc[w] = "emit_failed", e = <<job[w], "failed">>
            PROVE  state[e[1]] = e[2] /\ e[1] \in Runs /\ e[2] = "failed"
        BY <1>1, <1>2, <3>3, JobIsRun DEF EmitsFollowRow
      <3> QED BY <3>1, <3>2, <3>3, EventsGrow
    <2>2. state[e[1]] \in Terminal
      BY <1>4, <2>1
    <2> QED BY <2>1, <2>2, TerminalStays
  <1> QED BY <1>5, <1>6

(* As long as no statement has failed and no heartbeat was late, whatever  *)
(* processes die, an event run.succeeded or run.failed says what the row   *)
(* of its run says: no run is reported both ways.                          *)
THEOREM EventsAgreeWithRows ==
    Spec => [](stalls = MaxStalls /\ dbFaults = MaxDbFaults => EventsMatchRows)
  <1>1. Init => EventInv
    BY DEF Init, EventInv, EmitsFollowRow, EventsMatchRows
  <1>2. EventInv => (stalls = MaxStalls /\ dbFaults = MaxDbFaults => EventsMatchRows)
    BY DEF EventInv
  <1> QED BY <1>1, <1>2, NextEvents, OnTimeAlways, PTL DEF Spec

(* The same where no statement fails and no heartbeat is late at all.      *)
THEOREM EventsNeverContradict ==
    ASSUME MaxStalls = 0, MaxDbFaults = 0
    PROVE  Spec => []EventsMatchRows
  <1>1. Types /\ OnTimeInv => stalls = MaxStalls /\ dbFaults = MaxDbFaults
    BY DEF Types, BoundTypes, OnTimeInv
  <1> QED BY <1>1, EventsAgreeWithRows, OnTimeAlways, PTL

-----------------------------------------------------------------------------
(* Concurrency                                                             *)

InTokenLoop == {"acquire", "materialize"}

(* The rows of tag t that worker w has checked out for the run it is on    *)
(* and no ReleaseStale may delete; the units that its first n requests     *)
(* for tag t ask for.                                                      *)
Mine(w, t) == {k \in tokens \ aged : k.by = w /\ k.run = job[w] /\ k.tag = t}
Wanted(w, t, n) ==
    {x \in (1 .. n) \X Nat : /\ Need(w)[x[1]].tag = t
                             /\ x[2] \in 1 .. Weight(Need(w)[x[1]])}

(* A worker outside the token loop has checked out nothing, one inside its *)
(* user function everything; and what it counts as checked out is still in *)
(* the table, one row unit per unit asked for.                             *)
HeldInLoop == \A w \in Workers :
    /\ held[w] > 0 => pc[w] \in InTokenLoop
    /\ pc[w] = "materialize" => held[w] = Len(Need(w))
HoldsWanted == \A w \in Workers, t \in Tags :
    pc[w] \in InTokenLoop => ExistsInjection(Wanted(w, t, held[w]), Mine(w, t))

(* The rows T overcommit no tag.                                           *)
FitsTable(T) == /\ IsFiniteSet(T)
                /\ \A t \in Tags : Cardinality({k \in T : k.tag = t}) <= Capacity[t]

HoldInv == /\ FitsTable(tokens)
           /\ stalls = MaxStalls => HeldInLoop /\ HoldsWanted

(* Injections into a larger set, and side by side.                         *)
LEMMA InjectWiden ==
    ASSUME NEW A, NEW B, NEW C, ExistsInjection(A, B), B \subseteq C
    PROVE  ExistsInjection(A, C)
  <1>1. PICK f : f \in Injection(A, B)
    BY Fun_ExistsInj
  <1>2. f \in [A -> C] /\ \A x, y \in A : f[x] = f[y] => x = y
    <2>1. f \in [A -> B] /\ \A x, y \in A : f[x] = f[y] => x = y
      BY <1>1, Fun_InjectionProperties
    <2> QED BY <2>1
  <1>3. f \in Injection(A, C)
    BY <1>2, Fun_IsInj
  <1> QED BY <1>3, Fun_ExistsInj

LEMMA InjectUnion ==
    ASSUME NEW A, NEW B, NEW C, NEW D, ExistsInjection(A, B), ExistsInjection(C, D),
           A \cap C = {}, B \cap D = {}
    PROVE  ExistsInjection(A \cup C, B \cup D)
  <1>1. PICK f : f \in Injection(A, B)
    BY Fun_ExistsInj
  <1>2. PICK g : g \in Injection(C, D)
    BY Fun_ExistsInj
  <1>3. f \in [A -> B] /\ \A x, y \in A : f[x] = f[y] => x = y
    BY <1>1, Fun_InjectionProperties
  <1>4. g \in [C -> D] /\ \A x, y \in C : g[x] = g[y] => x = y
    BY <1>2, Fun_InjectionProperties
  <1> DEFINE h == [x \in A \cup C |-> IF x \in A THEN f[x] ELSE g[x]]
  <1>5. h \in [A \cup C -> B \cup D]
    BY <1>3, <1>4
  <1>6. \A x, y \in A \cup C : h[x] = h[y] => x = y
    BY <1>3, <1>4
  <1> HIDE DEF h
  <1>7. h \in Injection(A \cup C, B \cup D)
    BY <1>5, <1>6, Fun_IsInj
  <1> QED BY <1>7, Fun_ExistsInj

LEMMA InjectNothing == ASSUME NEW B PROVE ExistsInjection({}, B)
  <1>1. [x \in {} |-> x] \in [{} -> B]
    OBVIOUS
  <1>2. [x \in {} |-> x] \in Injection({}, B)
    BY <1>1, Fun_IsInj
  <1> QED BY <1>2, Fun_ExistsInj

LEMMA WeightPositive ==
    ASSUME NEW q \in [tag : Tags, weight : Int]
    PROVE  Weight(q) \in Nat /\ Weight(q) > 0
  BY DEF Weight

(* What an INSERT adds: as many free units of the tag as the weight.       *)
LEMMA PickedUnits ==
    ASSUME NEW q \in [tag : Tags, weight : Int], UnitsLeft(q)
    PROVE  LET S == PickUnits(q.tag, Weight(q)) IN
           /\ S \subseteq FreeUnits(q.tag) /\ IsFiniteSet(S)
           /\ Cardinality(S) = Weight(q) /\ ExistsBijection(1 .. Weight(q), S)
  <1> DEFINE S == PickUnits(q.tag, Weight(q))
  <1>1. S \subseteq FreeUnits(q.tag) /\ Cardinality(S) = Weight(q)
    BY DEF UnitsLeft
  <1>2. S \in SUBSET Units
    BY <1>1 DEF FreeUnits
  <1> HIDE DEF S
  <1>3. IsFiniteSet(S)
    BY <1>2, ConstantsAssumption, FS_Subset
  <1>4. ExistsBijection(1 .. Weight(q), S)
    BY <1>1, <1>3, FS_CardinalityType
  <1> QED BY <1>1, <1>3, <1>4 DEF S

(* DELETE and INSERT keep the table within the limits.                     *)
LEMMA DeleteFits ==
    ASSUME NEW T, FitsTable(T), NEW S, S \subseteq T
    PROVE  FitsTable(S)
  <1>1. IsFiniteSet(S)
    BY FS_Subset DEF FitsTable
  <1>2. ASSUME NEW t \in Tags
        PROVE  Cardinality({k \in S : k.tag = t}) <= Capacity[t]
    <2> DEFINE A == {k \in S : k.tag = t}
               B == {k \in T : k.tag = t}
    <2>1. A \subseteq B /\ B \subseteq T
      OBVIOUS
    <2>2. Cardinality(B) <= Capacity[t]
      BY DEF FitsTable
    <2> HIDE DEF A, B
    <2>3. IsFiniteSet(B)
      BY <2>1, FS_Subset DEF FitsTable
    <2>4. IsFiniteSet(A) /\ Cardinality(A) <= Cardinality(B)
      BY <2>1, <2>3, FS_Subset
    <2>5. Cardinality(A) \in Nat /\ Cardinality(B) \in Nat /\ Capacity[t] \in Nat
      BY <2>3, <2>4, FS_CardinalityType, ConstantsAssumption
    <2>6. Cardinality(A) <= Capacity[t]
      BY <2>2, <2>4, <2>5
    <2> QED BY <2>6 DEF A
  <1> QED BY <1>1, <1>2 DEF FitsTable

LEMMA InsertFits ==
    ASSUME FitsTable(tokens), NEW w \in Workers, NEW q \in [tag : Tags, weight : Int],
           Fits(q), UnitsLeft(q)
    PROVE  FitsTable(tokens \cup Insert(w, q))
  <1> DEFINE S == PickUnits(q.tag, Weight(q))
             I == Insert(w, q)
             f == [u \in S |-> [run |-> job[w], tag |-> q.tag, unit |-> u, by |-> w]]
             B(t) == {k \in tokens : k.tag = t}
             A(t) == {k \in tokens \cup I : k.tag = t}
  <1>1. IsFiniteSet(S) /\ Cardinality(S) = Weight(q)
    BY PickedUnits
  <1>2. f \in Surjection(S, I)
    BY DEF Surjection, Insert
  <1>3. (\A k \in I : k.tag = q.tag) /\ q.tag \in Tags
    BY DEF Insert
  <1>4. IsFiniteSet(tokens) /\ \A t \in Tags : Cardinality(B(t)) <= Capacity[t]
    BY DEF FitsTable
  <1>5. Cardinality(B(q.tag)) + Weight(q) <= Capacity[q.tag]
    BY DEF Fits, Used
  <1>6. \A t : B(t) \subseteq tokens
    OBVIOUS
  <1>7. A(q.tag) = B(q.tag) \cup I /\ \A t : t # q.tag => A(t) = B(t)
    BY <1>3
  <1> SUFFICES /\ IsFiniteSet(tokens \cup I)
               /\ \A t \in Tags : Cardinality(A(t)) <= Capacity[t]
    BY DEF FitsTable
  <1> HIDE DEF S, I, f, A, B
  <1>8. IsFiniteSet(I) /\ Cardinality(I) <= Weight(q)
    BY <1>1, <1>2, FS_Surjection
  <1>9. IsFiniteSet(B(q.tag))
    BY <1>4, <1>6, FS_Subset
  <1>10. Cardinality(A(q.tag)) <= Capacity[q.tag]
    <2>1. /\ Cardinality(B(q.tag)) \in Nat /\ Cardinality(I) \in Nat
          /\ Weight(q) \in Nat /\ Capacity[q.tag] \in Nat
      BY <1>3, <1>8, <1>9, FS_CardinalityType, WeightPositive, ConstantsAssumption
    <2>2. IsFiniteSet(B(q.tag) \cap I)
      BY <1>8, FS_Subset
    <2>3. Cardinality(B(q.tag) \cap I) \in Nat
      BY <2>2, FS_CardinalityType
    <2>4. Cardinality(A(q.tag))
            = Cardinality(B(q.tag)) + Cardinality(I) - Cardinality(B(q.tag) \cap I)
      BY <1>7, <1>8, <1>9, FS_Union
    <2> QED BY <1>5, <1>8, <2>1, <2>3, <2>4
  <1> QED BY <1>4, <1>7, <1>8, <1>10, FS_Union

(* What a step changes of the table: rows go, or one request that fits is  *)
(* inserted.                                                               *)
LEMMA TableMoves ==
    ASSUME Types, [Next]_vars
    PROVE  \/ tokens' \subseteq tokens
           \/ \E w \in Workers, q \in [tag : Tags, weight : Int] :
                Fits(q) /\ UnitsLeft(q) /\ tokens' \subseteq tokens \cup Insert(w, q)
  <1> USE DEF rowVars, tokenVars, workerVars, sweepVars, histVars, boundVars
  <1>1. ASSUME NEW w \in Workers, AcquireOk(w) \/ AcquireFault(w)
        PROVE  \/ tokens' \subseteq tokens
               \/ \E q \in [tag : Tags, weight : Int] :
                    Fits(q) /\ UnitsLeft(q) /\ tokens' \subseteq tokens \cup Insert(w, q)
    <2> DEFINE q == Need(w)[held[w] + 1]
    <2>1. pc[w] = "acquire" /\ pc[w] \in InStep
      BY <1>1 DEF AcquireOk, AcquireFault, InStep
    <2>2. /\ TypeOK /\ held[w] \in Nat /\ held[w] < Len(Need(w))
          /\ Need(w) \in Seq([tag : Tags, weight : Int])
      BY <2>1, TypeParts, NeedType DEF RequestsLeft, TypeOK
    <2>3. q \in [tag : Tags, weight : Int]
      BY <2>2, ElementType
    <2>4. CASE AcquireOk(w)
      BY <2>3, <2>4 DEF AcquireOk
    <2>5. CASE AcquireFault(w)
      BY <2>3, <2>5 DEF AcquireFault
    <2> QED BY <1>1, <2>4, <2>5
  <1>2. ASSUME NEW w \in Workers,
               \/ ClaimSelect(w) \/ ClaimCommit(w) \/ ClaimFault(w) \/ Start(w)
               \/ StartFault(w) \/ Unresolvable(w) \/ Gate(w) \/ CommitOk(w)
               \/ CommitErr(w) \/ Succeed(w) \/ Fail(w) \/ EmitTerminal(w)
               \/ Heartbeat(w) \/ SweepSelect(w)
        PROVE  UNCHANGED tokens
    BY <1>2 DEF ClaimSelect, ClaimCommit, ClaimFault, ClaimRow, Start, StartFault,
       Unresolvable, Gate, CommitOk, CommitErr, Succeed, Fail, Finish, EmitTerminal,
       Heartbeat, SweepSelect
  <1>3. ASSUME NEW w \in Workers,
               \/ AcquireMiss(w) \/ MaterializeOk(w) \/ MaterializeErr(w) \/ MaskErr(w)
               \/ Cleanup(w) \/ Crash(w) \/ Restart(w)
        PROVE  tokens' \subseteq tokens
    BY <1>3 DEF AcquireMiss, MaterializeOk, MaterializeErr, MaskErr, Cleanup, Crash,
       Restart, ReleaseAcquired, DropTokens
  <1>4. ASSUME NEW w \in Workers, NEW r \in Runs, SweepRow(w, r) \/ SweepFault(w, r)
        PROVE  UNCHANGED tokens
    BY <1>4 DEF SweepRow, SweepFault
  <1>5. ASSUME NEW r \in Runs, Enqueue(r) \/ Expire(r)
        PROVE  UNCHANGED tokens
    BY <1>5 DEF Enqueue, Expire
  <1>6. ASSUME NEW k \in tokens, AgeToken(k)
        PROVE  UNCHANGED tokens
    BY <1>6 DEF AgeToken
  <1>7. CASE UNCHANGED vars
    BY <1>7 DEF vars
  <1> QED
    BY <1>1, <1>2, <1>3, <1>4, <1>5, <1>6, <1>7 DEF Next, Work, Sweep, Fault

LEMMA TableStaysFit ==
    ASSUME Types, FitsTable(tokens), [Next]_vars
    PROVE  FitsTable(tokens')
  <1>1. CASE tokens' \subseteq tokens
    BY <1>1, DeleteFits
  <1>2. ASSUME NEW w \in Workers, NEW q \in [tag : Tags, weight : Int],
               Fits(q), UnitsLeft(q), tokens' \subseteq tokens \cup Insert(w, q)
        PROVE  FitsTable(tokens')
    <2>1. FitsTable(tokens \cup Insert(w, q))
      BY <1>2, InsertFits
    <2> QED BY <1>2, <2>1, DeleteFits
  <1> QED BY <1>1, <1>2, TableMoves

(* Worker v keeps its place in the token loop and all its rows.            *)
Carries(v) ==
    /\ pc[v] \in InTokenLoop /\ pc'[v] = pc[v]
    /\ job'[v] = job[v] /\ step'[v] = step[v] /\ held'[v] = held[v]
    /\ \A k \in tokens \ aged :
         k.by = v /\ k.run = job[v] => k \in tokens' \ aged'

(* Worker v is outside the loop, or at its beginning.                      *)
Empty(v) == held'[v] = 0 /\ pc'[v] # "materialize"

(* Worker v does not move and its rows stay.                               *)
LEMMA Carried ==
    ASSUME Types, HeldInLoop, NEW v \in Workers,
           pc'[v] = pc[v], job'[v] = job[v], step'[v] = step[v], held'[v] = held[v],
           pc[v] \in InTokenLoop =>
               \A k \in tokens \ aged :
                   k.by = v /\ k.run = job[v] => k \in tokens' \ aged'
    PROVE  Carries(v) \/ Empty(v)
  <1>1. held[v] \in Nat /\ (held[v] > 0 => pc[v] \in InTokenLoop)
    BY DEF Types, WorkerTypes, HeldInLoop
  <1> QED BY <1>1 DEF Carries, Empty, InTokenLoop

(* A step of another worker that deletes only rows of the run it is on, of *)
(* which worker v is not.                                                  *)
LEMMA OthersRows ==
    ASSUME Types, OwnershipInv, HeldInLoop, NEW w \in Workers, NEW v \in Workers \ {w},
           \A u \in Workers \ {w} : /\ pc'[u] = pc[u] /\ job'[u] = job[u]
                                    /\ step'[u] = step[u] /\ held'[u] = held[u],
           \/ pc[w] \in InRun
           \/ tokens \subseteq tokens',
           \A k \in tokens : k.run # job[w] => k \in tokens',
           aged' \subseteq aged
    PROVE  Carries(v) \/ Empty(v)
  <1>1. ASSUME pc[v] \in InTokenLoop, NEW k \in tokens \ aged, k.run = job[v]
        PROVE  k \in tokens' \ aged'
    <2>1. pc[v] \in InRun
      BY <1>1 DEF InTokenLoop, InRun
    <2>2. CASE pc[w] \in InRun
      <3>1. job[w] # job[v]
        BY <2>1, <2>2, OwnerRow
      <3> QED BY <1>1, <3>1
    <2>3. CASE tokens \subseteq tokens'
      BY <1>1, <2>3
    <2> QED BY <2>2, <2>3
  <1> QED BY <1>1, Carried

(* As long as no heartbeat is late, a worker in the token loop loses none  *)
(* of its rows before it leaves the loop: releases are keyed by the run,   *)
(* which nobody else executes, and no row of a live attempt is a day old.  *)
LEMMA LoopSteps ==
    ASSUME Types, OwnershipInv, HeldInLoop, [Next]_vars, stalls' = MaxStalls,
           NEW v \in Workers
    PROVE  Carries(v) \/ Empty(v) \/ AcquireOk(v)
  <1> USE DEF rowVars, tokenVars, workerVars, sweepVars, histVars, boundVars
  <1>0. /\ WorkerTypes /\ TokenTypes
        /\ \A w \in Workers : /\ held[w] \in Nat
                              /\ pc[w] \notin InTokenLoop => held[w] = 0
    BY DEF Types, WorkerTypes, HeldInLoop
  <1>1. ASSUME NEW w \in Workers,
               \/ ClaimSelect(w) \/ ClaimCommit(w) \/ ClaimFault(w) \/ Start(w)
               \/ StartFault(w) \/ Unresolvable(w) \/ Gate(w) \/ CommitOk(w)
               \/ CommitErr(w) \/ Succeed(w) \/ Fail(w) \/ EmitTerminal(w)
        PROVE  Carries(v) \/ Empty(v)
    <2>1. UNCHANGED tokenVars
      BY <1>1 DEF ClaimSelect, ClaimCommit, ClaimFault, ClaimRow, Start, StartFault,
         Unresolvable, Gate, CommitOk, CommitErr, Succeed, Fail, Finish, EmitTerminal
    <2>2. /\ \A u \in Workers \ {w} : /\ pc'[u] = pc[u] /\ job'[u] = job[u]
                                      /\ step'[u] = step[u] /\ held'[u] = held[u]
          /\ pc'[w] # "materialize" /\ held'[w] \in {0, held[w]}
          /\ pc[w] \notin InTokenLoop
      BY <1>0, <1>1 DEF ClaimSelect, ClaimCommit, ClaimFault, Start, StartFault,
         Unresolvable, Gate, CommitOk, CommitErr, Succeed, Fail, Finish, EmitTerminal,
         BeginStep, StepFails, Return, Goto, WorkerTypes, InTokenLoop
    <2>3. CASE v = w
      BY <1>0, <2>2, <2>3 DEF Empty
    <2> QED BY <2>1, <2>2, <2>3, OthersRows
  <1>2. ASSUME NEW w \in Workers, AcquireOk(w)
        PROVE  Carries(v) \/ Empty(v) \/ AcquireOk(v)
    <2>1. /\ tokens \subseteq tokens' /\ UNCHANGED aged
          /\ \A u \in Workers \ {w} : /\ pc'[u] = pc[u] /\ job'[u] = job[u]
                                      /\ step'[u] = step[u] /\ held'[u] = held[u]
      BY <1>0, <1>2 DEF AcquireOk, Goto, WorkerTypes
    <2> QED BY <1>2, <2>1, OthersRows
  <1>3. ASSUME NEW w \in Workers,
               \/ AcquireMiss(w) \/ AcquireFault(w) \/ MaterializeOk(w)
               \/ MaterializeErr(w) \/ MaskErr(w) \/ Cleanup(w) \/ Crash(w)
        PROVE  Carries(v) \/ Empty(v)
    <2>1. /\ \A u \in Workers \ {w} : /\ pc'[u] = pc[u] /\ job'[u] = job[u]
                                      /\ step'[u] = step[u] /\ held'[u] = held[u]
          /\ pc'[w] # "materialize" /\ held'[w] = 0
      BY <1>0, <1>3 DEF AcquireMiss, AcquireFault, MaterializeOk, MaterializeErr, MaskErr,
         Cleanup, Crash, RetryOrFail, StepFails, Return, Goto, WorkerTypes
    <2>2. (\A k \in tokens : k.run # job[w] => k \in tokens') /\ aged' \subseteq aged
      <3>1. CASE AcquireMiss(w) \/ MaterializeOk(w) \/ MaterializeErr(w)
        BY <3>1 DEF AcquireMiss, MaterializeOk, MaterializeErr, ReleaseAcquired,
           DropTokens, Released
      <3>2. CASE AcquireFault(w)
        BY <3>2 DEF AcquireFault, Released
      <3>3. CASE MaskErr(w) \/ Crash(w)
        BY <3>3 DEF MaskErr, Crash, DropTokens, Released
      <3>4. CASE Cleanup(w)
        BY <3>4 DEF Cleanup, DropTokens, ReleaseAll
      <3> QED BY <1>3, <3>1, <3>2, <3>3, <3>4
    <2>3. pc[w] \in InRun \/ tokens \subseteq tokens'
      <3>1. CASE Crash(w) /\ pc[w] \notin InRun
        <4>1. held[w] = 0
          BY <1>0, <3>1 DEF InRun, InTokenLoop
        <4>2. \A lost : Released(w, tokens, lost) = {}
          BY <4>1 DEF Released
        <4> QED BY <3>1, <4>2 DEF Crash, DropTokens
      <3>2. CASE ~ Crash(w)
        BY <1>3, <3>2 DEF AcquireMiss, AcquireFault, MaterializeOk, MaterializeErr, MaskErr,
           Cleanup, InRun
      <3> QED BY <3>1, <3>2
    <2>4. CASE v = w
      BY <2>1, <2>4 DEF Empty
    <2> QED BY <2>1, <2>2, <2>3, <2>4, OthersRows
  <1>4. ASSUME NEW w \in Workers, Restart(w)
        PROVE  Carries(v) \/ Empty(v)
    <2>1. /\ tokens' = tokens \ aged /\ aged' = {} /\ pc[w] = "down" /\ pc'[w] = "idle"
          /\ \A u \in Workers \ {w} : pc'[u] = pc[u]
          /\ UNCHANGED <<job, step, held>>
      BY <1>0, <1>4 DEF Restart, DropTokens, Goto, WorkerTypes
    <2>2. CASE v = w
      BY <1>0, <2>1, <2>2 DEF Empty, InTokenLoop
    <2>3. CASE v # w
      BY <2>1, <2>3, Carried
    <2> QED BY <2>2, <2>3
  <1>5. ASSUME UNCHANGED <<pc, job, step, held, tokenVars>>
        PROVE  Carries(v) \/ Empty(v)
    BY <1>5, Carried
  <1>6. ASSUME NEW k \in tokens, AgeToken(k)
        PROVE  Carries(v) \/ Empty(v)
    <2>1. /\ UNCHANGED <<pc, job, step, held, tokens>> /\ aged' = aged \cup {k}
          /\ ~ (job[k.by] = k.run /\ pc[k.by] \in InRun)
      BY <1>6 DEF AgeToken, OwnershipInv, Types, BoundTypes
    <2>2. InTokenLoop \subseteq InRun
      BY DEF InTokenLoop, InRun
    <2>3. ASSUME pc[v] \in InTokenLoop, NEW l \in tokens \ aged, l.by = v, l.run = job[v]
          PROVE  l \in tokens' \ aged'
      BY <2>1, <2>2, <2>3
    <2> QED BY <2>1, <2>3, Carried
  <1>7. ASSUME NEW w \in Workers, Heartbeat(w) \/ SweepSelect(w)
        PROVE  UNCHANGED <<pc, job, step, held, tokenVars>>
    BY <1>7 DEF Heartbeat, SweepSelect
  <1>8. ASSUME NEW w \in Workers, NEW r \in Runs, SweepRow(w, r) \/ SweepFault(w, r)
        PROVE  UNCHANGED <<pc, job, step, held, tokenVars>>
    BY <1>8 DEF SweepRow, SweepFault
  <1>9. ASSUME NEW r \in Runs, Enqueue(r) \/ Expire(r)
        PROVE  UNCHANGED <<pc, job, step, held, tokenVars>>
    BY <1>9 DEF Enqueue, Expire
  <1>10. CASE UNCHANGED vars
    BY <1>5, <1>10 DEF vars
  <1> QED
    BY <1>1, <1>2, <1>3, <1>4, <1>5, <1>6, <1>7, <1>8, <1>9, <1>10
       DEF Next, Work, Sweep, Fault

(* The acquisition of the next request takes one unit per unit asked for.  *)
LEMMA AcquireHolds ==
    ASSUME Types, NEW w \in Workers, NEW t \in Tags, AcquireOk(w),
           ExistsInjection(Wanted(w, t, held[w]), Mine(w, t))
    PROVE  /\ ExistsInjection(Wanted(w, t, held[w])', Mine(w, t)')
           /\ pc'[w] = "materialize" => held'[w] = Len(Need(w))
           /\ UNCHANGED <<job, step>>
  <1> DEFINE q == Need(w)[held[w] + 1]
             n == held[w]
             S == PickUnits(q.tag, Weight(q))
             I == Insert(w, q)
             A == Wanted(w, t, n)
             C == {n + 1} \X (1 .. Weight(q))
  <1>1. /\ pc[w] = "acquire" /\ UnitsLeft(q) /\ tokens' = tokens \cup I
        /\ held'[w] = n + 1 /\ UNCHANGED <<aged, job, step>>
        /\ pc'[w] = "materialize" => n + 1 = Len(Need(w))
    BY DEF AcquireOk, Goto, Types, WorkerTypes, tokenVars
  <1>2. /\ job[w] \in Runs /\ n \in Nat /\ n < Len(Need(w))
        /\ Need(w) \in Seq([tag : Tags, weight : Int])
    BY <1>1, TypeParts, NeedType DEF RequestsLeft, TypeOK, InStep
  <1>3. q \in [tag : Tags, weight : Int]
    BY <1>2, ElementType
  <1>4. Weight(q) \in Nat
    BY <1>3, WeightPositive
  <1>5. Need(w)' = Need(w)
    BY <1>1 DEF Need, StepAsset
  <1>6. Wanted(w, t, held[w])' = {x \in (1 .. n + 1) \X Nat :
                                    /\ Need(w)[x[1]].tag = t
                                    /\ x[2] \in 1 .. Weight(Need(w)[x[1]])}
    BY <1>1, <1>5 DEF Wanted
  <1>7. Mine(w, t) \subseteq Mine(w, t)'
    BY <1>1 DEF Mine
  <1>8. 1 .. n + 1 = (1 .. n) \cup {n + 1}
    BY <1>2
  <1>9. ExistsInjection(Wanted(w, t, held[w])', Mine(w, t)')
    <2>1. CASE q.tag # t
      <3>1. Wanted(w, t, held[w])' = A
        BY <1>6, <1>8, <2>1 DEF Wanted
      <3> QED BY <1>7, <3>1, InjectWiden
    <2>2. CASE q.tag = t
      <3>1. Wanted(w, t, held[w])' = A \cup C
        <4>1. \A x \in {n + 1} \X Nat :
                Need(w)[x[1]].tag = t /\ (x[2] \in 1 .. Weight(Need(w)[x[1]]) <=> x \in C)
          BY <1>4, <2>2
        <4>2. (1 .. n + 1) \X Nat = ((1 .. n) \X Nat) \cup ({n + 1} \X Nat)
          BY <1>8
        <4>3. C \subseteq {n + 1} \X Nat
          BY <1>4
        <4> HIDE DEF C
        <4> QED BY <1>6, <4>1, <4>2, <4>3 DEF Wanted
      <3>2. A \cap C = {}
        BY <1>2 DEF Wanted
      <3>3. /\ S \subseteq FreeUnits(q.tag)
            /\ ExistsBijection(1 .. Weight(q), S)
        BY <1>1, <1>3, PickedUnits
      <3>4. I \subseteq Token
        BY <1>1, <1>2, <1>3, TypeParts, InsertType
      <3>5. /\ \A k \in I : /\ k.unit \in S /\ k.tag = t /\ k.run = job[w] /\ k.by = w
            /\ \A u \in S : [run |-> job[w], tag |-> t, unit |-> u, by |-> w] \in I
        BY <2>2 DEF Insert
      <3>6. \A k \in I : k \notin tokens
        BY <2>2, <3>3, <3>5 DEF FreeUnits
      <3>7. I \subseteq Mine(w, t)' /\ Mine(w, t) \cap I = {}
        <4>1. aged \subseteq tokens
          BY DEF Types, TokenTypes
        <4> QED BY <1>1, <3>5, <3>6, <4>1 DEF Mine
      <3>8. ExistsInjection(C, I)
        <4>1. PICK f : f \in Bijection(1 .. Weight(q), S)
          BY <3>3, Fun_ExistsBij
        <4>2. /\ f \in [1 .. Weight(q) -> S]
              /\ \A x, y \in 1 .. Weight(q) : f[x] = f[y] => x = y
          <5> HIDE DEF S, q
          <5> DEFINE D == 1 .. Weight(q)
          <5>1. f \in Bijection(D, S)
            BY <4>1
          <5> HIDE DEF D
          <5>2. f \in [D -> S] /\ \A x, y \in D : f[x] = f[y] => x = y
            BY <5>1, Fun_BijectionProperties
          <5> QED BY <5>2 DEF D
        <4> DEFINE g == [x \in C |-> [run |-> job[w], tag |-> t, unit |-> f[x[2]], by |-> w]]
        <4>3. \A x \in C : x = <<n + 1, x[2]>> /\ x[2] \in 1 .. Weight(q)
          OBVIOUS
        <4> HIDE DEF C, S, I
        <4>4. g \in [C -> I]
          BY <3>5, <4>2, <4>3
        <4>5. \A x, y \in C : g[x] = g[y] => x = y
          <5> SUFFICES ASSUME NEW x \in C, NEW y \in C, g[x] = g[y]
                       PROVE  x = y
            OBVIOUS
          <5>1. f[x[2]] = f[y[2]]
            OBVIOUS
          <5>2. x[2] = y[2]
            BY <4>2, <4>3, <5>1
          <5> QED BY <4>3, <5>2
        <4> HIDE DEF g
        <4>6. g \in Injection(C, I)
          BY <4>4, <4>5, Fun_IsInj
        <4> QED BY <4>6, Fun_ExistsInj
      <3> HIDE DEF A, C, I
      <3>9. ExistsInjection(A \cup C, Mine(w, t) \cup I)
        BY <3>2, <3>7, <3>8, InjectUnion DEF A
      <3> QED BY <1>7, <3>1, <3>7, <3>9, InjectWiden
    <2> QED BY <2>1, <2>2
  <1> QED BY <1>1, <1>9

LEMMA NextHold ==
    Types /\ RowInv /\ OnTimeInv /\ HoldInv /\ [Next]_vars => HoldInv'
  <1> SUFFICES ASSUME Types, RowInv, OnTimeInv, HoldInv, [Next]_vars
               PROVE  HoldInv'
    OBVIOUS
  <1>1. FitsTable(tokens)'
    BY TableStaysFit DEF HoldInv, FitsTable
  <1>2. ASSUME stalls' = MaxStalls
        PROVE  (HeldInLoop /\ HoldsWanted)'
    <2>1. OwnershipInv /\ HeldInLoop /\ HoldsWanted
      BY <1>2, StillOnTime DEF OnTimeInv, HoldInv
    <2>2. WorkerTypes /\ "materialize" \in InTokenLoop /\ "acquire" \in InTokenLoop
      BY DEF Types, InTokenLoop
    <2>3. ASSUME NEW v \in Workers
          PROVE  /\ held'[v] > 0 => pc'[v] \in InTokenLoop
                 /\ pc'[v] = "materialize" => held'[v] = Len(Need(v)')
                 /\ \A t \in Tags : pc'[v] \in InTokenLoop =>
                      ExistsInjection(Wanted(v, t, held[v])', Mine(v, t)')
      <3>1. CASE Carries(v)
        <4>1. Need(v)' = Need(v)
          BY <3>1 DEF Carries, Need, StepAsset
        <4>2. \A t \in Tags : /\ Wanted(v, t, held[v])' = Wanted(v, t, held[v])
                              /\ Mine(v, t) \subseteq Mine(v, t)'
          BY <3>1, <4>1 DEF Carries, Wanted, Mine
        <4>3. /\ held'[v] > 0 => pc'[v] \in InTokenLoop
              /\ pc'[v] = "materialize" => held'[v] = Len(Need(v)')
          BY <2>1, <3>1, <4>1 DEF Carries, HeldInLoop
        <4>4. ASSUME NEW t \in Tags, pc'[v] \in InTokenLoop
              PROVE  ExistsInjection(Wanted(v, t, held[v])', Mine(v, t)')
          <5>1. ExistsInjection(Wanted(v, t, held[v]), Mine(v, t))
            BY <2>1, <3>1, <4>4 DEF Carries, HoldsWanted
          <5> QED BY <4>2, <5>1, InjectWiden
        <4> QED BY <4>3, <4>4
      <3>2. CASE Empty(v)
        <4>1. ASSUME NEW t \in Tags
              PROVE  ExistsInjection(Wanted(v, t, held[v])', Mine(v, t)')
          <5>1. Wanted(v, t, held[v])' = {}
            BY <3>2 DEF Empty, Wanted
          <5> QED BY <5>1, InjectNothing
        <4> QED BY <3>2, <4>1 DEF Empty
      <3>3. CASE AcquireOk(v)
        <4>1. pc[v] = "acquire" /\ pc'[v] \in InTokenLoop
          BY <2>2, <3>3 DEF AcquireOk, Goto, WorkerTypes
        <4>2. \A t \in Tags : ExistsInjection(Wanted(v, t, held[v]), Mine(v, t))
          BY <2>1, <2>2, <4>1 DEF HoldsWanted
        <4>3. \A t \in Tags : ExistsInjection(Wanted(v, t, held[v])', Mine(v, t)')
          BY <3>3, <4>2, AcquireHolds
        <4>4. /\ pc'[v] = "materialize" => held'[v] = Len(Need(v))
              /\ UNCHANGED <<job, step>>
          <5>1. "global" \in Tags
            BY ConstantsAssumption
          <5> QED BY <3>3, <4>2, <5>1, AcquireHolds
        <4>5. Need(v)' = Need(v)
          BY <4>4 DEF Need, StepAsset
        <4> QED BY <4>1, <4>3, <4>4, <4>5
      <3> QED BY <1>2, <2>1, <3>1, <3>2, <3>3, LoopSteps
    <2> QED BY <2>3 DEF HeldInLoop, HoldsWanted
  <1> QED BY <1>1, <1>2 DEF HoldInv

LEMMA InitHold == Init => HoldInv
  <1> SUFFICES ASSUME Init PROVE HoldInv
    OBVIOUS
  <1>1. \A t : {k \in tokens : k.tag = t} = {}
    BY DEF Init
  <1>2. FitsTable(tokens)
    BY <1>1, FS_EmptySet, ConstantsAssumption DEF Init, FitsTable
  <1>3. HeldInLoop /\ HoldsWanted
    BY DEF Init, HeldInLoop, HoldsWanted, InTokenLoop
  <1> QED BY <1>2, <1>3 DEF HoldInv

(* The units that the workers inside user functions need are rows of the   *)
(* table, each counted once.                                               *)
LEMMA DemandIsHeld ==
    ASSUME FitsTable(tokens), HeldInLoop, HoldsWanted, NEW t \in Tags
    PROVE  Cardinality(Demand(t)) <= Capacity[t]
  <1> DEFINE D == Demand(t)
             U == {k \in tokens : k.tag = t}
             A(w) == Wanted(w, t, Len(Need(w)))
             f(w) == CHOOSE g : g \in Injection(A(w), Mine(w, t))
             h == [x \in D |-> f(x[1])[<<x[2], x[3]>>]]
  <1>1. IsFiniteSet(U) /\ Cardinality(U) <= Capacity[t]
    <2>1. U \subseteq tokens
      OBVIOUS
    <2> QED BY <2>1, FS_Subset DEF FitsTable
  <1>2. ASSUME NEW w \in Workers, pc[w] = "materialize"
        PROVE  /\ f(w) \in [A(w) -> Mine(w, t)]
               /\ \A x, y \in A(w) : f(w)[x] = f(w)[y] => x = y
    <2>1. ExistsInjection(A(w), Mine(w, t))
      BY <1>2 DEF HeldInLoop, HoldsWanted, InTokenLoop
    <2>2. f(w) \in Injection(A(w), Mine(w, t))
      BY <2>1, Fun_ExistsInj
    <2> HIDE DEF A, f
    <2> QED BY <2>2, Fun_InjectionProperties
  <1>3. ASSUME NEW x \in D
        PROVE  /\ x = <<x[1], x[2], x[3]>> /\ x[1] \in Workers
               /\ pc[x[1]] = "materialize" /\ <<x[2], x[3]>> \in A(x[1])
    <2>1. PICK w \in {v \in Workers : pc[v] = "materialize"} :
            \E i \in RequestsFor(w, t) : \E u \in 1 .. Weight(Need(w)[i]) : x = <<w, i, u>>
      BY DEF Demand
    <2>2. PICK i \in RequestsFor(w, t) :
            \E u \in 1 .. Weight(Need(w)[i]) : x = <<w, i, u>>
      BY <2>1
    <2>3. PICK u \in 1 .. Weight(Need(w)[i]) : x = <<w, i, u>>
      BY <2>2
    <2>4. <<i, u>> \in A(w)
      BY DEF Wanted, RequestsFor
    <2> QED BY <2>1, <2>3, <2>4
  <1>4. ASSUME NEW x \in D
        PROVE  h[x] \in U /\ h[x].by = x[1]
    <2>1. h[x] \in Mine(x[1], t)
      <3> HIDE DEF A, f, D
      <3> QED BY <1>2, <1>3, <1>4
    <2> HIDE DEF h
    <2> QED BY <2>1 DEF Mine
  <1>5. ASSUME NEW x \in D, NEW y \in D, h[x] = h[y]
        PROVE  x = y
    <2>1. x[1] = y[1]
      <3> HIDE DEF h, D, U
      <3> QED BY <1>4, <1>5
    <2>2. f(x[1])[<<x[2], x[3]>>] = f(x[1])[<<y[2], y[3]>>]
      BY <1>5, <2>1
    <2> HIDE DEF A, f, D, h
    <2>3. <<x[2], x[3]>> = <<y[2], y[3]>>
      BY <1>2, <1>3, <2>1, <2>2
    <2> QED BY <1>3, <2>1, <2>3
  <1>6. h \in Injection(D, U)
    <2>1. h \in [D -> U]
      BY <1>4
    <2> HIDE DEF h, D, U
    <2> QED BY <1>5, <2>1, Fun_IsInj
  <1> HIDE DEF h, D, U
  <1>7. IsFiniteSet(D) /\ Cardinality(D) <= Cardinality(U)
    BY <1>1, <1>6, FS_Injection
  <1>8. Cardinality(D) \in Nat /\ Cardinality(U) \in Nat /\ Capacity[t] \in Nat
    BY <1>1, <1>7, FS_CardinalityType, ConstantsAssumption
  <1>9. Cardinality(D) <= Capacity[t]
    BY <1>1, <1>7, <1>8
  <1> QED BY <1>9 DEF D

(* As long as no heartbeat was late, the workers that are inside a user    *)
(* function at the same time need no more of a tag than its limit, for any *)
(* workers, weights, limits, crashes and failing DELETEs: a worker inside  *)
(* one still holds every row it checked out.                               *)
THEOREM LimitsAreHonoured == Spec => []ConcurrencyHonoured
  <1>1. HoldInv => ConcurrencyHonoured
    BY DemandIsHeld DEF HoldInv, ConcurrencyHonoured
  <1> QED BY <1>1, InitHold, NextHold, OnTimeAlways, PTL DEF Spec

(* Whatever stalls and fails, the token table never adds up to more than   *)
(* the limit of a tag, leaked rows and double executions included.         *)
THEOREM TableWithinLimits == Spec => []CapacityRespected
  <1>1. HoldInv => CapacityRespected
    BY DEF HoldInv, FitsTable, CapacityRespected, Used
  <1> QED BY <1>1, InitHold, NextHold, OnTimeAlways, PTL DEF Spec

=============================================================================
