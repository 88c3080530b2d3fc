-------------------------- MODULE PolicySyncProofs --------------------------
(***************************************************************************)
(* Proofs about PolicySync, for every set of masks and workers and every   *)
(* bound: the rule that a step applies is the one that Resolve reported    *)
(* when the step began to read, whatever the sync jobs write to the rows,  *)
(* and with no policy then, which commits between its two queries decide.  *)
(***************************************************************************)
EXTENDS PolicySync, TLAPS

Modes    == {"unknown", "in-pipeline", "warehouse-native"}
Statuses == {"pending", "syncing", "synced", "failed"}
Rows     == [mask : Masks, mode : Modes, status : Statuses, recent : BOOLEAN]
Attempts == 1 .. MaxAttempts
Works    == [pc : {"idle", "pipeline", "syncing", "push", "record", "status", "failed"},
             mask : Masks \cup {None}, attempt : Attempts \cup {0}]
Steps    == [pc : {"idle", "first", "ran"}, rule : Masks \cup {None},
             first : Masks \cup {None}, last : Masks \cup {None}]

TypeInv ==
    /\ rows \in [Sources -> Rows \cup {None}]
    /\ pii \in BOOLEAN /\ provisioner \in BOOLEAN /\ hadWarehouse \in BOOLEAN
    /\ native \in Masks \cup {None}
    /\ jobs \in [Attempts -> Nat]
    /\ work \in [Workers -> Works]
    /\ tick \in [on : BOOLEAN, actual : Masks \cup {None}]
    /\ step \in Steps
    /\ changes \in Nat /\ faults \in Nat /\ redeploys \in Nat /\ steps \in Nat

(* On an asset that never had a masking warehouse no job is past the check *)
(* for the warehouse, and the rows are in no mode that the executor passes *)
(* over. A worker that is busy knows its mask.                             *)
Plain == {"idle", "pipeline", "status"}
NeverNative ==
    ~ hadWarehouse =>
        /\ ~ provisioner
        /\ \A w \in Workers : work[w].pc \in Plain
        /\ \A s \in Sources : rows[s] # None => rows[s].mode # "warehouse-native"

(* Rows are marked as enforced, or about to be, only after the warehouse   *)
(* has taken a mask.                                                       *)
NativeWasPushed ==
    native = None =>
        /\ \A w \in Workers : work[w].pc # "record"
        /\ \A s \in Sources : rows[s] # None => rows[s].mode # "warehouse-native"

(* What the first query of a step has found.                               *)
StepRead ==
    step.pc = "first" =>
        /\ ~ hadWarehouse => step.rule = step.first
        /\ step.first # None /\ step.rule = None => native # None

BusyHasMask ==
    \A w \in Workers : work[w].pc # "idle" =>
        work[w].mask \in Masks /\ work[w].attempt \in Attempts

IInv == /\ TypeInv /\ NeverNative /\ NativeWasPushed /\ BusyHasMask
        /\ StepRead /\ StepFollowsPolicy

-----------------------------------------------------------------------------
(* Lemmas about the rows.                                                  *)

(* A set of layers has a best one.                                         *)
LEMMA BestIsHighest ==
    ASSUME NEW S \in SUBSET Sources, S # {}
    PROVE  Best(S) \in S /\ \A q \in S : Precedence[Best(S)] <= Precedence[q]
  <1>1. /\ Precedence["runtime"] = 1 /\ Precedence["builder"] = 2
        /\ Precedence["yaml-default"] = 3
    BY DEF Precedence, Sources
  <1>2. \E s \in S : \A q \in S : Precedence[s] <= Precedence[q]
    <2> SUFFICES \E s \in S : \A q \in S : q # s => Precedence[s] <= Precedence[q]
      BY <1>1 DEF Sources
    <2>1. CASE "runtime" \in S
      BY <1>1, <2>1 DEF Sources
    <2>2. CASE "runtime" \notin S /\ "builder" \in S
      <3>1. \A q \in S : q # "builder" => q = "yaml-default"
        BY <2>2 DEF Sources
      <3> QED BY <1>1, <2>2, <3>1
    <2>3. CASE "runtime" \notin S /\ "builder" \notin S
      <3>1. \A q \in S : q = "yaml-default"
        BY <2>3 DEF Sources
      <3> QED BY <3>1
    <2> QED BY <2>1, <2>2, <2>3
  <1> QED BY <1>2 DEF Best

(* Resolve finds a mask if and only if the column has an active row, and   *)
(* it is the mask of the layer that precedes the others.                   *)
LEMMA EffectiveIsHighest ==
    ASSUME rows \in [Sources -> Rows \cup {None}]
    PROVE  /\ Effective = None <=> Active = {}
           /\ Effective \in Masks \cup {None}
           /\ \A s \in Active : Precedence[Best(Active)] <= Precedence[s]
  <1>1. CASE Active = {}
    BY <1>1 DEF Effective, MaskOf
  <1>2. CASE Active # {}
    <2>1. /\ Active \in SUBSET Sources
          /\ \A s \in Active : rows[s] \in Rows
      BY DEF Active
    <2>2. /\ Best(Active) \in Active
          /\ \A s \in Active : Precedence[Best(Active)] <= Precedence[s]
      BY <1>2, <2>1, BestIsHighest
    <2>3. rows[Best(Active)].mask \in Masks
      BY <2>1, <2>2 DEF Rows
    <2> QED BY <1>2, <2>2, <2>3, PolicyAssumption DEF Effective, MaskOf
  <1> QED BY <1>1, <1>2

LEMMA NewRowType ==
    ASSUME NEW m \in Masks
    PROVE  NewRow(m) \in Rows /\ NewRow(m).mode = "unknown"
  BY DEF NewRow, Rows, Modes, Statuses

(* An outcome is written to every active row.                              *)
LEMMA OutcomeType ==
    ASSUME rows \in [Sources -> Rows \cup {None}], NEW st \in Statuses,
           NEW mode \in Modes
    PROVE  /\ WithStatus(st) \in [Sources -> Rows \cup {None}]
           /\ WithMode(mode) \in [Sources -> Rows \cup {None}]
           /\ \A s \in Sources :
                /\ WithStatus(st)[s] # None =>
                     rows[s] # None /\ WithStatus(st)[s].mode = rows[s].mode
                /\ WithMode(mode)[s] # None => WithMode(mode)[s].mode = mode
  <1>1. \A s \in Sources : rows[s] # None =>
          /\ rows[s] \in Rows
          /\ [rows[s] EXCEPT !.status = st] \in Rows
          /\ [rows[s] EXCEPT !.status = st].mode = rows[s].mode
          /\ [rows[s] EXCEPT !.mode = mode] \in Rows
          /\ [rows[s] EXCEPT !.mode = mode].mode = mode
    BY DEF Rows
  <1> QED BY <1>1 DEF WithStatus, WithMode

(* While no row is marked as enforced by the warehouse, what the first     *)
(* query of a step finds is what Resolve reports.                          *)
LEMMA FirstQueryFindsEffective ==
    ASSUME rows \in [Sources -> Rows \cup {None}],
           \A s \in Sources : rows[s] # None => rows[s].mode # "warehouse-native"
    PROVE  MaskOf(InStep) = Effective
  <1>1. \A s \in Active : rows[s].mode \in {"in-pipeline", "unknown"}
    BY DEF Active, Rows, Modes
  <1>2. InStep = Active
    BY <1>1 DEF InStep
  <1> QED BY <1>2 DEF Effective

LEMMA RuleType ==
    ASSUME rows \in [Sources -> Rows \cup {None}]
    PROVE  MaskOf(InStep) \in Masks \cup {None}
  <1>1. CASE InStep = {}
    BY <1>1 DEF MaskOf
  <1>2. CASE InStep # {}
    <2>1. InStep \in SUBSET Sources /\ \A s \in InStep : rows[s] \in Rows
      BY DEF InStep, Active
    <2>2. Best(InStep) \in InStep
      BY <1>2, <2>1, BestIsHighest
    <2> QED BY <1>2, <2>1, <2>2 DEF MaskOf, Rows
  <1> QED BY <1>1, <1>2

-----------------------------------------------------------------------------
LEMMA InitIInv == Init => IInv
  <1> SUFFICES ASSUME Init PROVE IInv
    OBVIOUS
  <1>1. Idle \in Works /\ Idle.pc = "idle"
    BY DEF Idle, Works
  <1>2. NoStep \in Steps /\ NoStep.pc = "idle"
    BY DEF NoStep, Steps
  <1>3. jobs \in [Attempts -> Nat]
    BY DEF Init, Attempts
  <1>4. TypeInv
    BY <1>1, <1>2, <1>3, PolicyAssumption DEF Init, TypeInv
  <1>5. NeverNative
    BY <1>1 DEF Init, NeverNative, Plain
  <1>6. NativeWasPushed /\ BusyHasMask
    BY <1>1 DEF Init, NativeWasPushed, BusyHasMask
  <1>7. StepRead /\ StepFollowsPolicy
    BY <1>2 DEF Init, StepRead, StepFollowsPolicy
  <1> QED BY <1>4, <1>5, <1>6, <1>7 DEF IInv

(* What a step has read stays as it was while other processes go on.       *)
LEMMA StepStays ==
    ASSUME IInv, UNCHANGED <<exec, pii>>,
           ~ hadWarehouse' => ~ hadWarehouse, native # None => native' # None
    PROVE  StepRead' /\ StepFollowsPolicy'
  BY DEF IInv, exec, StepRead, StepFollowsPolicy

(* Workers that do something else.                                         *)
LEMMA BecomeType ==
    ASSUME IInv, NEW w \in Workers, NEW x \in Works, Become(w, x),
           x.pc # "idle" => x.mask \in Masks /\ x.attempt \in Attempts,
           ~ hadWarehouse => x.pc \in Plain
    PROVE  /\ work' \in [Workers -> Works]
           /\ \A v \in Workers : work'[v].pc # "idle" =>
                work'[v].mask \in Masks /\ work'[v].attempt \in Attempts
           /\ ~ hadWarehouse => \A v \in Workers : work'[v].pc \in Plain
           /\ \A v \in Workers : work'[v].pc = "record" =>
                x.pc = "record" \/ work[v].pc = "record"
  BY DEF Become, IInv, TypeInv, BusyHasMask, NeverNative

(* Rows are new, touched or retired.                                       *)
LEMMA RowsKeep ==
    ASSUME IInv, UNCHANGED <<pii, conn, native, work, exec>>,
           changes' \in Nat, faults' \in Nat, jobs' \in [Attempts -> Nat],
           tick' \in [on : BOOLEAN, actual : Masks \cup {None}],
           rows' \in [Sources -> Rows \cup {None}],
           \A s \in Sources : rows'[s] # None =>
             \/ rows'[s].mode = "unknown"
             \/ rows[s] # None /\ rows'[s].mode = rows[s].mode
    PROVE  IInv'
  <1> USE DEF IInv
  <1>1. TypeInv'
    BY DEF TypeInv, conn, exec
  <1>2. NeverNative' /\ NativeWasPushed' /\ BusyHasMask'
    BY DEF conn, NeverNative, NativeWasPushed, BusyHasMask
  <1>3. StepRead' /\ StepFollowsPolicy'
    BY StepStays DEF conn
  <1> QED BY <1>1, <1>2, <1>3

(* Changes of the policy.                                                  *)
LEMMA ChangesKeep ==
    ASSUME IInv,
           \/ \E m \in Masks : Patch(m) \/ Apply(m) \/ ApplyYAML(m)
           \/ Apply(None) \/ Delete
    PROVE  IInv'
  <1> USE DEF IInv, TypeInv
  <1>1. /\ UNCHANGED <<pii, conn, native, work, tick, exec, faults>>
        /\ changes' \in Nat
        /\ jobs' \in [Attempts -> Nat]
    <2>1. 1 \in Attempts
      BY PolicyAssumption DEF Attempts
    <2> QED BY <2>1 DEF Patch, Apply, ApplyYAML, Delete, Change, Enqueue
  <1>2. /\ rows' \in [Sources -> Rows \cup {None}]
        /\ \A s \in Sources : rows'[s] # None =>
             \/ rows'[s].mode = "unknown"
             \/ rows[s] # None /\ rows'[s].mode = rows[s].mode
    <2>1. "runtime" \in Sources /\ "builder" \in Sources /\ "yaml-default" \in Sources
      BY DEF Sources
    <2>2. \A s \in Sources : rows[s] # None =>
            /\ [rows[s] EXCEPT !.recent = TRUE] \in Rows
            /\ [rows[s] EXCEPT !.recent = TRUE].mode = rows[s].mode
      BY DEF Rows
    <2>3. ASSUME NEW m \in Masks, Patch(m) \/ Apply(m) \/ ApplyYAML(m)
          PROVE  \E s \in Sources, r \in Rows :
                   /\ rows' = [rows EXCEPT ![s] = r]
                   /\ \/ r.mode = "unknown"
                      \/ rows[s] # None /\ r.mode = rows[s].mode
      <3>1. NewRow(m) \in Rows /\ NewRow(m).mode = "unknown" /\ m # None
        BY NewRowType, PolicyAssumption
      <3>2. CASE Patch(m)
        BY <2>1, <3>1, <3>2 DEF Patch
      <3>3. CASE Apply(m)
        <4>1. CASE rows["builder"] # None /\ rows["builder"].mask = m
          <5>1. rows' = [rows EXCEPT !["builder"] = [rows["builder"] EXCEPT !.recent = TRUE]]
            BY <3>1, <3>3, <4>1 DEF Apply
          <5> QED BY <2>1, <2>2, <4>1, <5>1
        <4>2. CASE ~ (rows["builder"] # None /\ rows["builder"].mask = m)
          <5>1. rows' = [rows EXCEPT !["builder"] = NewRow(m)]
            BY <3>1, <3>3, <4>2 DEF Apply
          <5> QED BY <2>1, <3>1, <5>1
        <4> QED BY <4>1, <4>2
      <3>4. CASE ApplyYAML(m)
        <4>1. CASE rows["yaml-default"] # None /\ rows["yaml-default"].mask = m
          <5>1. rows' = [rows EXCEPT !["yaml-default"] =
                           [rows["yaml-default"] EXCEPT !.recent = TRUE]]
            BY <3>4, <4>1 DEF ApplyYAML
          <5> QED BY <2>1, <2>2, <4>1, <5>1
        <4>2. CASE ~ (rows["yaml-default"] # None /\ rows["yaml-default"].mask = m)
          <5>1. rows' = [rows EXCEPT !["yaml-default"] = NewRow(m)]
            BY <3>4, <4>2 DEF ApplyYAML
          <5> QED BY <2>1, <3>1, <5>1
        <4> QED BY <4>1, <4>2
      <3> QED BY <2>3, <3>2, <3>3, <3>4
    <2>4. ASSUME Apply(None) \/ Delete
          PROVE  \E s \in Sources : rows' = [rows EXCEPT ![s] = None]
      BY <2>1, <2>4 DEF Apply, Delete
    <2> QED BY <2>3, <2>4
  <1> QED BY <1>1, <1>2, RowsKeep

(* What a worker's step can write to the rows, and what it does next.      *)
LEMMA WorkWrites ==
    ASSUME IInv, NEW w \in Workers, Work(w)
    PROVE  /\ rows' \in [Sources -> Rows \cup {None}]
           /\ \A s \in Sources : rows'[s] # None =>
                \/ rows[s] # None /\ rows'[s].mode = rows[s].mode
                \/ rows'[s].mode = "in-pipeline"
                \/ work[w].pc = "record"
  <1> USE DEF IInv, TypeInv
  <1>1. CASE rows' = rows
    BY <1>1
  <1>2. ASSUME NEW st \in Statuses, rows' = WithStatus(st)
        PROVE  /\ rows' \in [Sources -> Rows \cup {None}]
               /\ \A s \in Sources : rows'[s] # None =>
                    rows[s] # None /\ rows'[s].mode = rows[s].mode
    <2>1. "unknown" \in Modes
      BY DEF Modes
    <2> QED BY <1>2, <2>1, OutcomeType
  <1>3. ASSUME NEW mode \in Modes, rows' = WithMode(mode)
        PROVE  /\ rows' \in [Sources -> Rows \cup {None}]
               /\ \A s \in Sources : rows'[s] # None => rows'[s].mode = mode
    <2>1. "synced" \in Statuses
      BY DEF Statuses
    <2> QED BY <1>3, <2>1, OutcomeType
  <1>4. \/ rows' = rows
        \/ \E st \in Statuses : rows' = WithStatus(st)
        \/ rows' = WithMode("in-pipeline")
        \/ work[w].pc = "record" /\ rows' = WithMode("warehouse-native")
    BY DEF Work, Take, TakeFails, InPipeline, Syncing, Push, Synced, Status, PushFails,
           Record, Statuses
  <1>5. "in-pipeline" \in Modes /\ "warehouse-native" \in Modes
    BY DEF Modes
  <1> QED BY <1>1, <1>2, <1>3, <1>4, <1>5

LEMMA WorkGoesOn ==
    ASSUME IInv, NEW w \in Workers, Work(w)
    PROVE  \/ UNCHANGED work
           \/ \E x \in Works :
                /\ Become(w, x)
                /\ x.pc # "idle" => x.mask \in Masks /\ x.attempt \in Attempts
                /\ ~ hadWarehouse => x.pc \in Plain
                /\ x.pc = "record" => native' # None
  <1> USE DEF IInv, TypeInv
  <1>1. work[w] \in Works /\ Idle \in Works /\ Idle.pc = "idle"
    BY DEF Idle, Works
  <1>2. CASE Become(w, Idle) \/ UNCHANGED work
    BY <1>1, <1>2 DEF Plain
  <1>3. ASSUME NEW n \in Attempts, Take(w, n), ~ UNCHANGED work
        PROVE  \E x \in Works :
                 /\ Become(w, x)
                 /\ x.mask \in Masks /\ x.attempt \in Attempts
                 /\ ~ hadWarehouse => x.pc \in Plain
                 /\ x.pc # "record"
    <2>1. Effective \in Masks
      BY <1>3, EffectiveIsHighest DEF Take
    <2>2. PICK x : x = [pc |-> IF provisioner THEN "syncing" ELSE "pipeline",
                        mask |-> Effective, attempt |-> n]
      OBVIOUS
    <2>3. x \in Works
      BY <2>1, <2>2 DEF Works
    <2>4. Become(w, x)
      BY <1>3, <2>2 DEF Take
    <2> QED BY <2>1, <2>2, <2>3, <2>4 DEF NeverNative, Plain
  <1>4. ASSUME NEW label \in {"push", "record", "status", "failed"},
               work[w].pc # "idle", Become(w, [work[w] EXCEPT !.pc = label]),
               work[w].pc \in Plain => label \in Plain,
               label = "record" => native' # None
        PROVE  \E x \in Works :
                 /\ Become(w, x)
                 /\ x.mask \in Masks /\ x.attempt \in Attempts
                 /\ ~ hadWarehouse => x.pc \in Plain
                 /\ x.pc = "record" => native' # None
    <2>1. PICK x : x = [work[w] EXCEPT !.pc = label]
      OBVIOUS
    <2>2. /\ x \in Works /\ x.pc = label
          /\ x.mask = work[w].mask /\ x.attempt = work[w].attempt
      BY <1>1, <2>1 DEF Works
    <2> QED BY <1>4, <2>1, <2>2 DEF BusyHasMask, NeverNative
  <1>5. CASE InPipeline(w) \/ Synced(w)
    <2>1. Become(w, [work[w] EXCEPT !.pc = "status"]) /\ work[w].pc # "idle"
      BY <1>5 DEF InPipeline, Synced
    <2> QED BY <1>4, <2>1 DEF Plain
  <1>6. CASE Syncing(w)
    <2>1. Become(w, [work[w] EXCEPT !.pc = "push"]) /\ work[w].pc = "syncing"
      BY <1>6 DEF Syncing
    <2> QED BY <1>4, <2>1 DEF Plain
  <1>7. CASE Push(w)
    <2>1. /\ Become(w, [work[w] EXCEPT !.pc = "record"]) /\ work[w].pc = "push"
          /\ native' = work[w].mask
      BY <1>7 DEF Push
    <2>2. native' # None
      BY <2>1, PolicyAssumption DEF BusyHasMask
    <2> QED BY <1>4, <2>1, <2>2 DEF Plain
  <1>8. CASE PushFails(w)
    <2>1. work[w].pc = "push"
      BY <1>8 DEF PushFails
    <2>2. CASE work[w].attempt < MaxAttempts
      BY <1>2, <1>8, <2>2 DEF PushFails
    <2>3. CASE ~ (work[w].attempt < MaxAttempts)
      <3>1. Become(w, [work[w] EXCEPT !.pc = "failed"])
        BY <1>8, <2>3 DEF PushFails
      <3> QED BY <1>4, <2>1, <3>1 DEF Plain
    <2> QED BY <2>2, <2>3
  <1>9. CASE Status(w)
    BY <1>2, <1>9 DEF Status
  <1>10. CASE \E n \in Attempts : TakeFails(w, n)
    BY <1>10 DEF TakeFails
  <1> QED BY <1>2, <1>3, <1>5, <1>6, <1>7, <1>8, <1>9, <1>10 DEF Work, Attempts

LEMMA WorkKeeps ==
    ASSUME IInv, NEW w \in Workers, Work(w)
    PROVE  IInv'
  <1> USE DEF IInv, TypeInv
  <1>1. UNCHANGED <<pii, conn, tick, exec, changes>>
    BY DEF Work, Take, TakeFails, InPipeline, Syncing, Push, Synced, Status, PushFails
  <1>2. faults' \in Nat
    <2>1. UNCHANGED faults \/ Fault
      BY DEF Work, Take, TakeFails, InPipeline, Syncing, Push, Synced, Status,
             PushFails, Record
    <2> QED BY <2>1 DEF Fault
  <1>3. /\ native' \in Masks \cup {None}
        /\ native # None => native' # None
    <2>1. native' = native \/ (work[w].pc = "push" /\ native' = work[w].mask)
      BY DEF Work, Take, TakeFails, InPipeline, Syncing, Push, Synced, Status, PushFails
    <2> QED BY <2>1, PolicyAssumption DEF BusyHasMask
  <1>4. jobs' \in [Attempts -> Nat]
    <2>1. ASSUME NEW j \in [Attempts -> Nat], NEW n \in Attempts
          PROVE  Again(j, n) \in [Attempts -> Nat]
      <3>1. n \in Nat /\ (n < MaxAttempts => n + 1 \in Attempts)
        BY PolicyAssumption DEF Attempts
      <3> QED BY <3>1 DEF Again
    <2>2. CASE UNCHANGED jobs
      BY <2>2
    <2>3. ASSUME NEW n \in Attempts, jobs[n] > 0
          PROVE  [jobs EXCEPT ![n] = @ - 1] \in [Attempts -> Nat]
      BY <2>3
    <2>4. ASSUME NEW n \in Attempts, Take(w, n) PROVE jobs' \in [Attempts -> Nat]
      BY <2>3, <2>4 DEF Take
    <2>5. ASSUME NEW n \in Attempts, TakeFails(w, n) PROVE jobs' \in [Attempts -> Nat]
      BY <2>1, <2>3, <2>5 DEF TakeFails
    <2>6. CASE PushFails(w)
      <3>1. work[w].attempt \in Attempts
        BY <2>6 DEF PushFails, BusyHasMask
      <3> QED BY <2>1, <2>6, <3>1 DEF PushFails
    <2> QED BY <2>2, <2>4, <2>5, <2>6
            DEF Work, InPipeline, Syncing, Push, Synced, Status, Attempts
  <1>5. /\ work' \in [Workers -> Works]
        /\ BusyHasMask'
        /\ ~ hadWarehouse => \A v \in Workers : work'[v].pc \in Plain
        /\ \A v \in Workers : work'[v].pc = "record" =>
             native' # None \/ work[v].pc = "record"
    <2>1. CASE UNCHANGED work
      BY <2>1 DEF BusyHasMask, NeverNative
    <2>2. ASSUME NEW x \in Works, Become(w, x),
                 x.pc # "idle" => x.mask \in Masks /\ x.attempt \in Attempts,
                 ~ hadWarehouse => x.pc \in Plain,
                 x.pc = "record" => native' # None
          PROVE  /\ work' \in [Workers -> Works]
                 /\ BusyHasMask'
                 /\ ~ hadWarehouse => \A v \in Workers : work'[v].pc \in Plain
                 /\ \A v \in Workers : work'[v].pc = "record" =>
                      native' # None \/ work[v].pc = "record"
      BY <2>2, BecomeType DEF BusyHasMask
    <2> QED BY <2>1, <2>2, WorkGoesOn
  <1>6. rows' \in [Sources -> Rows \cup {None}]
    BY WorkWrites
  <1>7. NeverNative'
    BY <1>1, <1>5, WorkWrites DEF NeverNative, conn, Plain
  <1>8. NativeWasPushed'
    BY <1>3, <1>5, WorkWrites DEF NativeWasPushed
  <1>9. StepRead' /\ StepFollowsPolicy'
    BY <1>1, <1>3, StepStays DEF conn
  <1> QED BY <1>1, <1>2, <1>3, <1>4, <1>5, <1>6, <1>7, <1>8, <1>9 DEF conn, exec

(* The reconciler, time, and a deployment with another connector.          *)
LEMMA TicksKeep ==
    ASSUME IInv,
           \/ TickList \/ TickCompare \/ TickFails \/ (\E s \in Sources : Age(s))
           \/ UNCHANGED vars
    PROVE  IInv'
  <1>1. TypeInv
    BY DEF IInv
  <1>2. /\ UNCHANGED <<pii, conn, native, work, exec, changes>>
        /\ jobs' = jobs \/ jobs' = [jobs EXCEPT ![1] = @ + 1]
        /\ faults' = faults \/ Fault
        /\ tick' \in {tick, [on |-> TRUE, actual |-> native], [on |-> FALSE, actual |-> None]}
    BY DEF TickList, TickCompare, TickFails, Age, Enqueue, vars
  <1>3. 1 \in Attempts
    BY PolicyAssumption DEF Attempts
  <1>4. /\ jobs' \in [Attempts -> Nat] /\ faults' \in Nat
        /\ tick' \in [on : BOOLEAN, actual : Masks \cup {None}]
        /\ changes' \in Nat
    <2>1. jobs' \in [Attempts -> Nat]
      BY <1>1, <1>2, <1>3 DEF TypeInv
    <2>2. faults' \in Nat /\ changes' \in Nat
      BY <1>1, <1>2 DEF TypeInv, Fault
    <2>3. /\ [on |-> TRUE, actual |-> native] \in [on : BOOLEAN, actual : Masks \cup {None}]
          /\ [on |-> FALSE, actual |-> None] \in [on : BOOLEAN, actual : Masks \cup {None}]
      BY <1>1 DEF TypeInv
    <2>4. tick \in [on : BOOLEAN, actual : Masks \cup {None}]
      BY <1>1 DEF TypeInv
    <2> QED BY <1>2, <2>1, <2>2, <2>3, <2>4
  <1>5. ASSUME NEW s \in Sources, Age(s)
        PROVE  /\ rows' \in [Sources -> Rows \cup {None}]
               /\ \A q \in Sources : rows'[q] # None =>
                    rows[q] # None /\ rows'[q].mode = rows[q].mode
    <2>1. PICK r : r = [rows[s] EXCEPT !.recent = FALSE]
      OBVIOUS
    <2>2. rows' = [rows EXCEPT ![s] = r]
      BY <1>5, <2>1 DEF Age
    <2>3. rows[s] # None /\ r \in Rows /\ r.mode = rows[s].mode
      BY <1>1, <1>5, <2>1 DEF Age, Rows, TypeInv
    <2> QED BY <1>1, <2>2, <2>3 DEF TypeInv
  <1>6. /\ rows' \in [Sources -> Rows \cup {None}]
        /\ \A q \in Sources : rows'[q] # None =>
             rows[q] # None /\ rows'[q].mode = rows[q].mode
    <2>1. CASE UNCHANGED rows
      BY <1>1, <2>1 DEF TypeInv
    <2> QED BY <1>5, <2>1 DEF TickList, TickCompare, TickFails, vars
  <1> QED BY <1>2, <1>4, <1>6, RowsKeep

LEMMA RedeployKeeps ==
    ASSUME IInv, Redeploy
    PROVE  IInv'
  <1> USE DEF IInv
  <1>1. TypeInv'
    BY DEF TypeInv, Redeploy, exec
  <1>2. NeverNative' /\ NativeWasPushed' /\ BusyHasMask'
    BY DEF Redeploy, NeverNative, NativeWasPushed, BusyHasMask
  <1>3. StepRead' /\ StepFollowsPolicy'
    BY StepStays DEF Redeploy
  <1> QED BY <1>1, <1>2, <1>3

(* The two queries of a step.                                              *)
LEMMA StepKeeps ==
    ASSUME IInv, ReadPolicies \/ ReadFallback
    PROVE  IInv'
  <1> USE DEF IInv
  <1>1. /\ UNCHANGED <<rows, pii, conn, native, jobs, work, tick, changes, faults>>
        /\ steps' \in Nat
    BY DEF ReadPolicies, ReadFallback, TypeInv
  <1>2. rows \in [Sources -> Rows \cup {None}]
    BY DEF TypeInv
  <1>3. Effective \in Masks \cup {None} /\ (Effective = None <=> Active = {})
    BY <1>2, EffectiveIsHighest
  <1>4. NeverNative' /\ NativeWasPushed' /\ BusyHasMask'
    BY <1>1 DEF conn, NeverNative, NativeWasPushed, BusyHasMask
  <1>5. CASE ReadPolicies
    <2>1. step' = [pc |-> "first", rule |-> MaskOf(InStep),
                   first |-> Effective, last |-> None]
      BY <1>5 DEF ReadPolicies
    <2>2. step' \in Steps
      BY <1>2, <1>3, <2>1, RuleType DEF Steps
    <2>3. ~ hadWarehouse \/ native = None => MaskOf(InStep) = Effective
      BY <1>2, FirstQueryFindsEffective DEF NeverNative, NativeWasPushed
    <2>4. StepRead'
      BY <1>1, <2>1, <2>3 DEF StepRead, conn
    <2>5. StepFollowsPolicy'
      BY <2>1 DEF StepFollowsPolicy
    <2> QED BY <1>1, <1>4, <2>2, <2>4, <2>5 DEF TypeInv, conn
  <1>6. CASE ReadFallback
    <2>1. PICK rule : rule = IF step.rule = None /\ pii /\ Active = {}
                             THEN "redact" ELSE step.rule
      OBVIOUS
    <2>2. step.pc = "first" /\ step \in Steps
      BY <1>6 DEF ReadFallback, TypeInv
    <2>3. step' = [step EXCEPT !.pc = "ran", !.last = Effective, !.rule = rule]
      BY <1>6, <2>1 DEF ReadFallback
    <2>4. rule \in Masks \cup {None}
      BY <2>1, <2>2, PolicyAssumption DEF Steps
    <2>5. /\ step' \in Steps /\ step'.pc = "ran" /\ step'.rule = rule
          /\ step'.first = step.first /\ step'.last = Effective
      BY <1>3, <2>2, <2>3, <2>4 DEF Steps
    <2>6. StepRead'
      BY <2>5 DEF StepRead
    <2>7. /\ ~ hadWarehouse => step.rule = step.first
          /\ step.first # None /\ step.rule = None => native # None
      BY <2>2 DEF StepRead
    <2>8. ~ hadWarehouse =>
            rule = IF step.first # None THEN step.first
                   ELSE IF pii /\ Effective = None THEN "redact" ELSE None
      BY <1>3, <2>1, <2>7
    <2>9. step.first # None /\ rule = None => native # None
      BY <2>1, <2>7, PolicyAssumption
    <2>10. StepFollowsPolicy'
      BY <1>1, <2>5, <2>8, <2>9 DEF StepFollowsPolicy, conn
    <2> QED BY <1>1, <1>4, <2>5, <2>6, <2>10 DEF TypeInv, conn
  <1> QED BY <1>5, <1>6

LEMMA NextKeeps == IInv /\ [Next]_vars => IInv'
  BY ChangesKeep, WorkKeeps, TicksKeep, RedeployKeeps, StepKeeps DEF Next

(* The state is well typed; an asset that never had a masking warehouse    *)
(* has no row marked as enforced by one, and no row is marked so before a  *)
(* warehouse has taken a mask.                                             *)
THEOREM PolicyInvariant == Spec => []IInv
  <1> QED BY InitIInv, NextKeeps, PTL DEF Spec

(* Where no warehouse has ever masked, a step applies the policy that      *)
(* Resolve reported at its first query, or the default mask of a PII       *)
(* column that has no policy at either query; elsewhere it passes over a   *)
(* policy only after a warehouse has taken a mask.                         *)
THEOREM StepsFollowPolicy == Spec => []StepFollowsPolicy
  <1>1. IInv => StepFollowsPolicy
    BY DEF IInv
  <1> QED BY <1>1, InitIInv, NextKeeps, PTL DEF Spec

=============================================================================
