----------------------------- MODULE PolicySync -----------------------------
(***************************************************************************)
(* Column policies and their enforcement, for one column of one asset: the *)
(* three layers of column_policies, the sync jobs that push the effective  *)
(* mask into a warehouse, the reconciler that compares the two, and the    *)
(* step of a run that writes the column under the mask rules it reads when *)
(* the asset's connector cannot mask.                                      *)
(*                                                                         *)
(* A statement is a step. A sync job reads the effective policy once; the  *)
(* rows may change before it calls the warehouse and before each of the    *)
(* two statements that write the outcome to whatever rows are active then. *)
(* The executor reads its rules with two queries outside a transaction.    *)
(***************************************************************************)
EXTENDS Integers, FiniteSets

CONSTANTS
    Masks,       \* mask types
    None,        \* no row, no mask
    Workers,     \* workers of the job queue
    MaxAttempts, \* MaxSyncAttempts
    MaxChanges,  \* bound: changes of a policy
    MaxJobs,     \* bound: queued jobs (the queue drains between two ticks)
    MaxFaults,   \* bound: failing calls and statements
    MaxRedeploys,\* bound: changes of the asset's connector
    MaxSteps     \* bound: materializations of the asset

ASSUME PolicyAssumption ==
    /\ None \notin Masks /\ "redact" \in Masks
    /\ MaxAttempts \in Nat \ {0}
    /\ MaxChanges \in Nat /\ MaxJobs \in Nat /\ MaxFaults \in Nat
    /\ MaxRedeploys \in Nat /\ MaxSteps \in Nat

VARIABLES
    rows,        \* the active row of each source, or None
    pii,         \* column_pii_tags.pii of the column
    provisioner, \* the connector implements MaskingProvisioner
    hadWarehouse,\* history: some connector of the asset has implemented it
    native,      \* the mask in the warehouse
    jobs,        \* jobs[n]: queued sync jobs on their n-th attempt
    work,        \* what each worker does
    tick,        \* the mask a reconciler tick has read from the warehouse
    step,        \* what a run's step has read; its first and last remember
                 \* what Resolve would have said at each of the two queries
    changes, faults, redeploys, steps

conn == <<provisioner, hadWarehouse, redeploys>>
exec == <<step, steps>>
vars == <<rows, pii, conn, native, jobs, work, tick, exec, changes, faults>>

Sources == {"runtime", "builder", "yaml-default"}
Precedence == [s \in Sources |-> CASE s = "runtime" -> 1 [] s = "builder" -> 2
                                   [] OTHER -> 3]
Active == {s \in Sources : rows[s] # None}

(* The highest-precedence of a set of sources, and its row's mask.         *)
Best(S) == CHOOSE s \in S : \A q \in S : Precedence[s] <= Precedence[q]
MaskOf(S) == IF S = {} THEN None ELSE rows[Best(S)].mask

(* Store.Resolve                                                           *)
Effective == MaskOf(Active)

NewRow(m) == [mask |-> m, mode |-> "unknown", status |-> "pending", recent |-> TRUE]

(* SetSyncStatus and SetEnforcementMode write all active rows.             *)
WithStatus(st) == [s \in Sources |->
    IF rows[s] = None THEN None ELSE [rows[s] EXCEPT !.status = st]]
WithMode(mode) == [s \in Sources |->
    IF rows[s] = None THEN None ELSE [rows[s] EXCEPT !.mode = mode]]

Idle == [pc |-> "idle", mask |-> None, attempt |-> 0]
NoStep == [pc |-> "idle", rule |-> None, first |-> None, last |-> None]

Init == /\ rows = [s \in Sources |-> None]
        /\ pii \in BOOLEAN /\ provisioner \in BOOLEAN
        /\ hadWarehouse = provisioner
        /\ native = None
        /\ jobs = [n \in 1 .. MaxAttempts |-> 0]
        /\ work = [w \in Workers |-> Idle]
        /\ tick = [on |-> FALSE, actual |-> None]
        /\ step = NoStep
        /\ changes = MaxChanges /\ faults = MaxFaults
        /\ redeploys = MaxRedeploys /\ steps = MaxSteps

Fault == faults > 0 /\ faults' = faults - 1
Change == changes > 0 /\ changes' = changes - 1

Enqueue(n) == jobs' = [jobs EXCEPT ![n] = @ + 1]

-----------------------------------------------------------------------------
(* Changes of the policy; each is one transaction                          *)

(* Store.Patch: retire the runtime row, insert the new one as pending, and *)
(* enqueue the sync job with the commit.                                   *)
Patch(m) ==
    /\ Change
    /\ rows' = [rows EXCEPT !["runtime"] = NewRow(m)]
    /\ Enqueue(1)
    /\ UNCHANGED <<pii, conn, native, work, tick, exec, faults>>

(* Store.Delete: only the runtime row can be retired.                      *)
Delete ==
    /\ Change
    /\ rows["runtime"] # None
    /\ rows' = [rows EXCEPT !["runtime"] = None]
    /\ Enqueue(1)
    /\ UNCHANGED <<pii, conn, native, work, tick, exec, faults>>

(* Store.Apply with the Builder's policy for the column, or none. The same *)
(* mask only touches the row. No job is enqueued.                          *)
Apply(m) ==
    /\ Change
    /\ rows' = [rows EXCEPT !["builder"] =
                  IF m = None THEN None
                  ELSE IF @ # None /\ @.mask = m THEN [@ EXCEPT !.recent = TRUE]
                  ELSE NewRow(m)]
    /\ UNCHANGED <<pii, conn, native, jobs, work, tick, exec, faults>>

(* Store.ApplyYAML reaches only columns that have an active row.           *)
ApplyYAML(m) ==
    /\ Change
    /\ Active # {}
    /\ rows' = [rows EXCEPT !["yaml-default"] =
                  IF @ # None /\ @.mask = m THEN [@ EXCEPT !.recent = TRUE]
                  ELSE NewRow(m)]
    /\ UNCHANGED <<pii, conn, native, jobs, work, tick, exec, faults>>

-----------------------------------------------------------------------------
(* PolicySyncWorker.Work                                                   *)

Become(w, x) == work' = [work EXCEPT ![w] = x]

(* A job is taken and reads the effective policy: without one there is     *)
(* nothing to do.                                                          *)
Take(w, n) ==
    /\ work[w].pc = "idle" /\ jobs[n] > 0
    /\ jobs' = [jobs EXCEPT ![n] = @ - 1]
    /\ IF Effective = None THEN UNCHANGED work
       ELSE Become(w, [pc |-> IF provisioner THEN "syncing" ELSE "pipeline",
                       mask |-> Effective, attempt |-> n])
    /\ UNCHANGED <<rows, pii, conn, native, tick, exec, changes, faults>>

(* The queue tries a failed job again unless it was the last attempt.      *)
Again(j, n) == IF n < MaxAttempts THEN [j EXCEPT ![n + 1] = @ + 1] ELSE j

(* The policy or the connector cannot be resolved: the last attempt leaves *)
(* no mark on the rows.                                                    *)
TakeFails(w, n) ==
    /\ work[w].pc = "idle" /\ jobs[n] > 0
    /\ Fault
    /\ jobs' = Again([jobs EXCEPT ![n] = @ - 1], n)
    /\ UNCHANGED <<rows, pii, conn, native, work, tick, exec, changes>>

(* One statement writes the active rows; its error is ignored and the next *)
(* one is tried all the same.                                              *)
Record(newRows) == \/ rows' = newRows /\ UNCHANGED faults
                   \/ Fault /\ UNCHANGED rows

(* SetEnforcementMode, then the status.                                    *)
InPipeline(w) ==
    /\ work[w].pc = "pipeline"
    /\ Record(WithMode("in-pipeline"))
    /\ Become(w, [work[w] EXCEPT !.pc = "status"])
    /\ UNCHANGED <<pii, conn, native, jobs, tick, exec, changes>>

Syncing(w) ==
    /\ work[w].pc = "syncing"
    /\ Record(WithStatus("syncing"))
    /\ Become(w, [work[w] EXCEPT !.pc = "push"])
    /\ UNCHANGED <<pii, conn, native, jobs, tick, exec, changes>>

(* ApplyMaskingPolicy succeeds.                                            *)
Push(w) ==
    /\ work[w].pc = "push"
    /\ native' = work[w].mask
    /\ Become(w, [work[w] EXCEPT !.pc = "record"])
    /\ UNCHANGED <<rows, pii, conn, jobs, tick, exec, changes, faults>>

(* SetEnforcementMode, then the status.                                    *)
Synced(w) ==
    /\ work[w].pc = "record"
    /\ Record(WithMode("warehouse-native"))
    /\ Become(w, [work[w] EXCEPT !.pc = "status"])
    /\ UNCHANGED <<pii, conn, native, jobs, tick, exec, changes>>

(* SetSyncStatus ends a job.                                               *)
Status(w) ==
    /\ work[w].pc \in {"status", "failed"}
    /\ Record(WithStatus(IF work[w].pc = "status" THEN "synced" ELSE "failed"))
    /\ Become(w, Idle)
    /\ UNCHANGED <<pii, conn, native, jobs, tick, exec, changes>>

(* ApplyMaskingPolicy fails, or its answer is lost: the queue tries again, *)
(* and the last attempt goes on to mark the rows.                          *)
PushFails(w) ==
    /\ work[w].pc = "push"
    /\ Fault
    /\ native' \in {native, work[w].mask}
    /\ jobs' = Again(jobs, work[w].attempt)
    /\ Become(w, IF work[w].attempt < MaxAttempts THEN Idle
                 ELSE [work[w] EXCEPT !.pc = "failed"])
    /\ UNCHANGED <<rows, pii, conn, tick, exec, changes>>

-----------------------------------------------------------------------------
(* Reconciler.tickAsset                                                    *)

(* ListMaskingPolicies; only assets with an active row are visited.        *)
TickList ==
    /\ provisioner /\ ~ tick.on /\ Active # {}
    /\ tick' = [on |-> TRUE, actual |-> native]
    /\ UNCHANGED <<rows, pii, conn, native, jobs, work, exec, changes, faults>>

DriftedUnlessSynced == \* mutant: trusts sync_status
    /\ Active # {} /\ rows[Best(Active)].status # "synced"
    /\ ~ rows[Best(Active)].recent /\ tick.actual # Effective

Drifted == /\ Active # {}
           /\ ~ rows[Best(Active)].recent
           /\ tick.actual # Effective

(* The comparison with the rows as they are now; a drift is reported and   *)
(* its sync job enqueued again. A recent change is left alone.             *)
TickCompare ==
    /\ tick.on
    /\ tick' = [on |-> FALSE, actual |-> None]
    /\ IF Drifted /\ jobs[1] < MaxJobs THEN Enqueue(1) ELSE UNCHANGED jobs
    /\ UNCHANGED <<rows, pii, conn, native, work, exec, changes, faults>>

(* The rows cannot be read, or the job cannot be enqueued: the next tick   *)
(* starts anew.                                                            *)
TickFails ==
    /\ tick.on /\ Fault
    /\ tick' = [on |-> FALSE, actual |-> None]
    /\ UNCHANGED <<rows, pii, conn, native, jobs, work, exec, changes>>

(* The grace period of a row passes.                                       *)
Age(s) ==
    /\ rows[s] # None /\ rows[s].recent
    /\ rows' = [rows EXCEPT ![s].recent = FALSE]
    /\ UNCHANGED <<pii, conn, native, jobs, work, tick, exec, changes, faults>>

-----------------------------------------------------------------------------
(* The asset is deployed with another connector. Jobs that have resolved   *)
(* the old one finish with it; the rows keep their modes, and the          *)
(* warehouse keeps its mask.                                               *)
Redeploy ==
    /\ redeploys > 0 /\ redeploys' = redeploys - 1
    /\ provisioner' = ~ provisioner
    /\ hadWarehouse' = TRUE
    /\ UNCHANGED <<rows, pii, native, jobs, work, tick, exec, changes, faults>>

-----------------------------------------------------------------------------
(* Executor.maybeWrapMaskingIO and Store.MaskRulesForAsset                 *)

InStepOnceSynced == {s \in Active : rows[s].mode = "in-pipeline"} \* mutant

(* The active rows that the warehouse does not enforce.                    *)
InStep == {s \in Active : rows[s].mode \in {"in-pipeline", "unknown"}}

(* A step asks for rules if its connector cannot mask. The first query     *)
(* returns the best of the rows the warehouse does not enforce.            *)
ReadPolicies ==
    /\ ~ provisioner /\ step.pc # "first"
    /\ steps > 0 /\ steps' = steps - 1
    /\ step' = [pc |-> "first", rule |-> MaskOf(InStep),
                first |-> Effective, last |-> None]
    /\ UNCHANGED <<rows, pii, conn, native, jobs, work, tick, changes, faults>>

(* The second adds the default mask of a PII column that has no active row *)
(* and was not covered by the first. The step then writes the column.      *)
ReadFallback ==
    /\ step.pc = "first"
    /\ step' = [step EXCEPT !.pc = "ran", !.last = Effective,
                            !.rule = IF @ = None /\ pii /\ Active = {}
                                     THEN "redact" ELSE @]
    /\ UNCHANGED <<rows, pii, conn, native, jobs, work, tick, steps, changes, faults>>

-----------------------------------------------------------------------------
Work(w) == \/ \E n \in 1 .. MaxAttempts : Take(w, n) \/ TakeFails(w, n)
           \/ InPipeline(w) \/ Syncing(w) \/ Push(w) \/ PushFails(w)
           \/ Synced(w) \/ Status(w)

Next == \/ \E m \in Masks : Patch(m) \/ Apply(m) \/ ApplyYAML(m)
        \/ Apply(None) \/ Delete
        \/ \E w \in Workers : Work(w)
        \/ TickList \/ TickCompare \/ TickFails
        \/ \E s \in Sources : Age(s)
        \/ Redeploy
        \/ ReadPolicies \/ ReadFallback

Spec == Init /\ [][Next]_vars

(* Fairness: workers work, the reconciler ticks, a step goes on, time      *)
(* passes. Changes of the policy, redeployments and faults stay unfair.    *)
Fairness == /\ \A w \in Workers : WF_vars(Work(w))
            /\ WF_vars(TickList) /\ WF_vars(TickCompare)
            /\ WF_vars(ReadFallback)
            /\ \A s \in Sources : WF_vars(Age(s))

FairSpec == Spec /\ Fairness

-----------------------------------------------------------------------------
(* What a step writes. On an asset that never had a masking warehouse the  *)
(* rule is the policy that Resolve reported at the first query, whatever   *)
(* sync jobs of older policies have written to the rows meanwhile; with no *)
(* policy then, a PII column gets the default mask unless a first policy   *)
(* is committed before the second query, in which case it gets neither.    *)
(* On any asset, a policy is passed over only after a warehouse has taken  *)
(* a mask for the column.                                                  *)
StepFollowsPolicy ==
    step.pc = "ran" =>
        /\ ~ hadWarehouse =>
             step.rule = IF step.first # None THEN step.first
                         ELSE IF pii /\ step.last = None THEN "redact" ELSE None
        /\ step.first # None /\ step.rule = None => native # None

(* Once the policies stop changing, the warehouse gets the effective mask  *)
(* and keeps it, whatever order the jobs of older policies finish in.      *)
MaskEventuallyEnforced ==
    \A m \in Masks : <>[](provisioner /\ Effective = m) => <>[](native = m)
=============================================================================
