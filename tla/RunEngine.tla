------------------------------ MODULE RunEngine ------------------------------
(***************************************************************************)
(* The run engine: worker processes that claim queued runs from the        *)
(* PostgreSQL table, execute their steps under the concurrency token pool, *)
(* tick a heartbeat, and run a reaper that re-queues runs whose heartbeat  *)
(* went stale.                                                             *)
(*                                                                         *)
(* A SQL statement or transaction of the code is one step here, except the *)
(* claim, whose row lock is visible to the other claimers (SKIP LOCKED).   *)
(* Time is abstracted to what the code compares: a heartbeat is "fresh",   *)
(* or "stale" once it is older than StaleAfter; a sweep remembers for      *)
(* which rows the heartbeat is older than the cutoff it started with.      *)
(***************************************************************************)
EXTENDS RunStates, Sequences, FiniteSets

CONSTANTS
    Runs,         \* run ids
    Workers,      \* worker processes, each with its own reaper goroutine
    NoWorker,     \* SQL NULL in claimed_by
    NoRun,        \* a worker's job when it has none
    Assets,       \* asset names
    Priority,     \* Priority[r]: runs.priority
    Plan,         \* Plan[r]: the assets of run r in topological order
    Resolvable,   \* the runs whose target asset this binary can resolve
    Tags,         \* the resource tags of the token pool
    Resources,    \* Resources[a]: the sequence of [tag, weight] asset a declares
    Capacity,     \* Capacity[t]: the configured limit of tag t
    RetryMax,     \* RetryMax[a]: policy.Max of asset a
    Gating,       \* GovernanceGatingEnabled
    Units,        \* ids for units of token weight
    MaxCrashes,   \* bound: process deaths and graceful shutdowns
    MaxDbFaults,  \* bound: steps in which some statements report an error
    MaxStalls     \* bound: heartbeats that a live worker misses for StaleAfter

ASSUME ConstantsAssumption ==
    /\ Priority \in [Runs -> Priorities]
    /\ Plan \in [Runs -> Seq(Assets)]
    /\ \A r \in Runs : Plan[r] # <<>>
    /\ Resolvable \subseteq Runs
    /\ {"global", "backfill"} \subseteq Tags
    /\ Resources \in [Assets -> Seq([tag : Tags, weight : Int])]
    /\ Capacity \in [Tags -> Nat]
    /\ RetryMax \in [Assets -> Nat]
    /\ Gating \in BOOLEAN
    /\ MaxCrashes \in Nat /\ MaxDbFaults \in Nat /\ MaxStalls \in Nat
    /\ NoWorker \notin Workers /\ NoRun \notin Runs
    /\ IsFiniteSet(Units) /\ IsFiniteSet(Runs)

VARIABLES
    \* the runs table
    state, claimedBy, heartbeat, queuedAt,
    \* the concurrency_tokens table, one element per unit of weight (by is the
    \* acquiring worker, a ghost), and the units whose row is older than 24h
    tokens, aged,
    \* one worker process: control state, the claimed run, the index of the
    \* current step, the attempt, the number of tags acquired, the error
    \* runStep returned, and the reaper's candidate list and cutoff
    pc, job, step, attempt, held, err, cand, old,
    \* history: committed steps, run.succeeded / run.failed events, claims
    \* minus resets
    done, events, outstanding,
    \* what is left of the bounds
    crashes, dbFaults, stalls

rowVars    == <<state, claimedBy, heartbeat, queuedAt>>
tokenVars  == <<tokens, aged>>
workerVars == <<pc, job, step, attempt, held, err>>
sweepVars  == <<cand, old>>
histVars   == <<done, events, outstanding>>
boundVars  == <<crashes, dbFaults, stalls>>
vars == <<rowVars, tokenVars, workerVars, sweepVars, histVars, boundVars>>

(* Control states of Executor.Run, in the order a worker goes through them *)
(* after "idle"; "down" is a dead process.                                 *)
InRun == {"starting", "gate", "acquire", "materialize", "commit",
          "succeeding", "failing", "emit_succeeded", "emit_failed", "cleanup"}
InStep == {"gate", "acquire", "materialize", "commit", "succeeding", "failing"}
PC == {"down", "idle", "claiming"} \cup InRun

Errors == {"none", "gate", "capacity", "materialize", "mask", "commit"}
Token  == [run : Runs, tag : Tags, unit : Units, by : Workers]

-----------------------------------------------------------------------------
(* Helpers                                                                 *)

StepsOf == [r \in Runs |-> 1 .. Len(Plan[r])]

(* The asset worker w is working on.                                       *)
StepAsset(w) == Plan[job[w]][step[w]]

(* The token requests of one attempt, in the order runStep makes them.     *)
Requests(r, a) ==
    <<[tag |-> "global", weight |-> 1]>>
    \o (IF Priority[r] = "backfill"
        THEN <<[tag |-> "backfill", weight |-> 1]>> ELSE <<>>)
    \o Resources[a]

Need(w) == Requests(job[w], StepAsset(w))

(* A non-positive weight counts as one.                                    *)
Weight(q) == IF q.weight <= 0 THEN 1 ELSE q.weight

(* SELECT SUM(weight) ... WHERE resource_tag = t.                          *)
Used(t) == Cardinality({k \in tokens : k.tag = t})

(* used + weight <= limit. A tag without a configured limit has the        *)
(* largest one.                                                            *)
FitsWithoutOwnWeight(q) == Used(q.tag) <= Capacity[q.tag]
Fits(q) == Used(q.tag) + Weight(q) <= Capacity[q.tag]

FreeUnits(t) == Units \ {k.unit : k \in {l \in tokens : l.tag = t}}

(* The token row that INSERT adds, as `weight` units nobody uses.          *)
PickUnits(t, n) == CHOOSE S \in SUBSET FreeUnits(t) : Cardinality(S) = n
Insert(w, q) == { [run |-> job[w], tag |-> q.tag, unit |-> u, by |-> w] :
                    u \in PickUnits(q.tag, Weight(q)) }

(* DELETE ... WHERE run_id = r.                                            *)
ReleaseAll(r) == {k \in tokens : k.run = r}

(* releaseAcquired deletes the tags this attempt has checked out one by    *)
(* one; lost are those whose DELETE did not happen. What it takes out of   *)
(* the rows T.                                                             *)
Released(w, T, lost) ==
    {k \in T : /\ k.run = job[w]
               /\ \E i \in (1 .. held[w]) \ lost : k.tag = Need(w)[i].tag}

ShouldRetry(n, a) == n < RetryMax[a]

(* The rows that some claim transaction has locked.                        *)
Locked == {job[w] : w \in {v \in Workers : pc[v] = "claiming"}}

(* ORDER BY priority tier, queued_at.                                      *)
Outranks(r, q) ==
    LET pr == PriorityOrder(Priority[r])
        pq == PriorityOrder(Priority[q])
    IN pr < pq \/ (pr = pq /\ queuedAt[r] < queuedAt[q])

(* Some live worker is inside Executor.Run for r: its heartbeat goroutine  *)
(* is ticking.                                                             *)
Executing(r) == \E w \in Workers : job[w] = r /\ pc[w] \in InRun

(* A write of last_heartbeat is newer than the cutoff of every sweep.      *)
ForgetOld(r) == old' = [w \in Workers |-> old[w] \ {r}]

Goto(w, label) == pc' = [pc EXCEPT ![w] = label]

DropTokens(gone) == /\ tokens' = tokens \ gone
                    /\ aged' = aged \ gone

(* Bound: enough unit ids are left for the row of request q.               *)
UnitsLeft(q) ==
    PickUnits(q.tag, Weight(q))
        \in {S \in SUBSET FreeUnits(q.tag) : Cardinality(S) = Weight(q)}

-----------------------------------------------------------------------------
Init ==
    /\ state = [r \in Runs |-> "absent"]
    /\ claimedBy = [r \in Runs |-> NoWorker]
    /\ heartbeat = [r \in Runs |-> "null"]
    /\ queuedAt = [r \in Runs |-> 0]
    /\ tokens = {} /\ aged = {}
    /\ pc = [w \in Workers |-> "idle"]
    /\ job = [w \in Workers |-> NoRun]
    /\ step = [w \in Workers |-> 0]
    /\ attempt = [w \in Workers |-> 0]
    /\ held = [w \in Workers |-> 0]
    /\ err = [w \in Workers |-> "none"]
    /\ cand = [w \in Workers |-> {}]
    /\ old = [w \in Workers |-> {}]
    /\ done = [r \in Runs |-> {}]
    /\ events = {}
    /\ outstanding = [r \in Runs |-> 0]
    /\ crashes = MaxCrashes /\ dbFaults = MaxDbFaults /\ stalls = MaxStalls

(* A statement of the current action reports an error.                     *)
DbFault == /\ dbFaults > 0
           /\ dbFaults' = dbFaults - 1
           /\ UNCHANGED <<crashes, stalls>>

ReturnKeepingJob(w) ==
    /\ Goto(w, "idle")
    /\ step' = [step EXCEPT ![w] = 0]
    /\ attempt' = [attempt EXCEPT ![w] = 0]
    /\ held' = [held EXCEPT ![w] = 0]
    /\ err' = [err EXCEPT ![w] = "none"]
    /\ UNCHANGED job

(* Run returns: the heartbeat goroutine has been joined, the worker loops. *)
Return(w) == /\ Goto(w, "idle")
             /\ job' = [job EXCEPT ![w] = NoRun]
             /\ step' = [step EXCEPT ![w] = 0]
             /\ attempt' = [attempt EXCEPT ![w] = 0]
             /\ held' = [held EXCEPT ![w] = 0]
             /\ err' = [err EXCEPT ![w] = "none"]

-----------------------------------------------------------------------------
(* Enqueueing and claiming                                                 *)

(* INSERT INTO runs (state = 'queued'), e.g. by the materialize command.   *)
Enqueue(r) ==
    /\ state[r] = "absent"
    /\ state' = [state EXCEPT ![r] = "queued"]
    /\ queuedAt' = [queuedAt EXCEPT ![r] =
                        1 + Cardinality({q \in Runs : state[q] # "absent"})]
    /\ UNCHANGED <<claimedBy, heartbeat, tokenVars, workerVars, sweepVars,
                   histVars, boundVars>>

(* SELECT ... FOR UPDATE SKIP LOCKED LIMIT 1.                              *)
ClaimSelect(w) ==
    /\ pc[w] = "idle"
    /\ \E r \in Runs :
         /\ state[r] = "queued" /\ r \notin Locked
         /\ \A q \in Runs \ {r} :
              state[q] = "queued" /\ q \notin Locked => Outranks(r, q)
         /\ job' = [job EXCEPT ![w] = r]
    /\ Goto(w, "claiming")
    /\ UNCHANGED <<rowVars, tokenVars, step, attempt, held, err, sweepVars,
                   histVars, boundVars>>

ClaimRowSilently(w) ==
    LET r == job[w] IN
    /\ state' = [state EXCEPT ![r] = "starting"]
    /\ claimedBy' = [claimedBy EXCEPT ![r] = w]
    /\ outstanding' = [outstanding EXCEPT ![r] = @ + 1]
    /\ UNCHANGED <<heartbeat, queuedAt, sweepVars, done, events, tokenVars>>

(* The claim UPDATE and its COMMIT.                                        *)
ClaimRow(w) ==
    LET r == job[w] IN
    /\ state' = [state EXCEPT ![r] = "starting"]
    /\ claimedBy' = [claimedBy EXCEPT ![r] = w]
    /\ heartbeat' = [heartbeat EXCEPT ![r] = "fresh"]
    /\ outstanding' = [outstanding EXCEPT ![r] = @ + 1]
    /\ ForgetOld(r)
    /\ UNCHANGED <<queuedAt, cand, done, events, tokenVars>>

ClaimCommit(w) ==
    /\ pc[w] = "claiming"
    /\ state[job[w]] = "queued"
    /\ ClaimRow(w)
    /\ Goto(w, "starting")
    /\ UNCHANGED <<job, step, attempt, held, err, boundVars>>

(* The claim fails: rolled back, or committed with the answer lost.        *)
ClaimFault(w) ==
    /\ pc[w] = "claiming"
    /\ DbFault
    /\ Return(w)
    /\ \/ ClaimRow(w)
       \/ UNCHANGED <<rowVars, tokenVars, sweepVars, histVars>>

-----------------------------------------------------------------------------
(* Executor.Run                                                            *)

TransitionById(r, from, to) == state' = [state EXCEPT ![r] = to]

(* UPDATE runs SET state = to WHERE id = r AND state = from. The number of *)
(* rows and the claimant are not looked at.                                *)
Transition(r, from, to) ==
    state' = IF state[r] = from THEN [state EXCEPT ![r] = to] ELSE state

BeginStep(w, i) == /\ Goto(w, "gate")
                   /\ step' = [step EXCEPT ![w] = i]
                   /\ attempt' = [attempt EXCEPT ![w] = 1]
                   /\ held' = [held EXCEPT ![w] = 0]

Start(w) ==
    /\ pc[w] = "starting" /\ job[w] \in Resolvable
    /\ Transition(job[w], "starting", "running")
    /\ BeginStep(w, 1)
    /\ UNCHANGED <<claimedBy, heartbeat, queuedAt, tokenVars, job, err,
                   sweepVars, histVars, boundVars>>

(* The transition reports an error, done or not: Run returns.              *)
StartFault(w) ==
    /\ pc[w] = "starting" /\ job[w] \in Resolvable
    /\ DbFault
    /\ Return(w)
    /\ Transition(job[w], "starting", "running") \/ UNCHANGED state
    /\ UNCHANGED <<claimedBy, heartbeat, queuedAt, tokenVars, sweepVars,
                   histVars>>

(* The registry or the graph refuses the plan: Run returns before the      *)
(* transition and the row stays 'starting'.                                *)
Unresolvable(w) ==
    /\ pc[w] = "starting" /\ job[w] \notin Resolvable
    /\ Return(w)
    /\ UNCHANGED <<rowVars, tokenVars, sweepVars, histVars, boundVars>>

(* runStep returns error e to the step loop of Run.                        *)
StepFails(w, e) == /\ Goto(w, "failing")
                   /\ err' = [err EXCEPT ![w] = e]
                   /\ held' = [held EXCEPT ![w] = 0]
                   /\ UNCHANGED attempt

(* Another attempt after its delay, or the end of the step.                *)
RetryOrFail(w, e) ==
    IF ShouldRetry(attempt[w], StepAsset(w))
    THEN /\ Goto(w, "acquire")
         /\ attempt' = [attempt EXCEPT ![w] = @ + 1]
         /\ held' = [held EXCEPT ![w] = 0]
         /\ UNCHANGED err
    ELSE StepFails(w, e)

(* The governance gate, looked at once per step.                           *)
Gate(w) ==
    /\ pc[w] = "gate"
    /\ \/ Goto(w, "acquire") /\ UNCHANGED <<attempt, held, err>>
       \/ Gating /\ StepFails(w, "gate")
    /\ UNCHANGED <<rowVars, tokenVars, job, step, sweepVars, histVars,
                   boundVars>>

(* Pool.Acquire of the next request; after the last one the step runs.     *)
AcquireOk(w) ==
    /\ pc[w] = "acquire"
    /\ LET q == Need(w)[held[w] + 1] IN
         /\ Fits(q) /\ UnitsLeft(q)
         /\ tokens' = tokens \cup Insert(w, q)
    /\ held' = [held EXCEPT ![w] = @ + 1]
    /\ IF held[w] + 1 = Len(Need(w)) THEN Goto(w, "materialize")
                                     ELSE UNCHANGED pc
    /\ UNCHANGED <<rowVars, aged, job, step, attempt, err, sweepVars,
                   histVars, boundVars>>

(* releaseAcquired, whose own errors are ignored and leave rows behind.    *)
ReleaseAcquired(w) ==
    \E lost \in SUBSET (1 .. held[w]) :
        /\ DropTokens(Released(w, tokens, lost))
        /\ IF lost = {} THEN UNCHANGED boundVars ELSE DbFault

(* ErrCapacity: everything acquired so far goes back before the retry.     *)
AcquireMiss(w) ==
    /\ pc[w] = "acquire"
    /\ ~ Fits(Need(w)[held[w] + 1])
    /\ ReleaseAcquired(w)
    /\ RetryOrFail(w, "capacity")
    /\ UNCHANGED <<rowVars, job, step, sweepVars, histVars>>

(* Acquire reports another error; its row may have been committed, and is  *)
(* released only if the tag is among those acquired before.                *)
AcquireFault(w) ==
    /\ pc[w] = "acquire"
    /\ DbFault
    /\ LET q == Need(w)[held[w] + 1]
           late == IF Fits(q) /\ UnitsLeft(q) THEN Insert(w, q) ELSE {}
       IN \E add \in {{}, late}, lost \in SUBSET (1 .. held[w]) :
            /\ tokens' = (tokens \cup add) \ Released(w, tokens \cup add, lost)
            /\ aged' = aged \ Released(w, tokens, lost)
    /\ RetryOrFail(w, "capacity")
    /\ UNCHANGED <<rowVars, job, step, sweepVars, histVars>>

(* The user function ends and the tokens go back.                          *)
MaterializeOk(w) ==
    /\ pc[w] = "materialize"
    /\ ReleaseAcquired(w)
    /\ Goto(w, "commit")
    /\ held' = [held EXCEPT ![w] = 0]
    /\ UNCHANGED <<rowVars, job, step, attempt, err, sweepVars, histVars>>

MaterializeErr(w) ==
    /\ pc[w] = "materialize"
    /\ ReleaseAcquired(w)
    /\ RetryOrFail(w, "materialize")
    /\ UNCHANGED <<rowVars, job, step, sweepVars, histVars>>

(* maybeWrapMaskingIO cannot read the mask rules: no retry.                *)
MaskErr(w) ==
    /\ pc[w] = "materialize"
    /\ DbFault
    /\ \E lost \in SUBSET (1 .. held[w]) : DropTokens(Released(w, tokens, lost))
    /\ StepFails(w, "mask")
    /\ UNCHANGED <<rowVars, job, step, sweepVars, histVars>>

StepsLeftButOne(w) == step[w] + 1 < Len(Plan[job[w]])
StepsLeft(w) == step[w] < Len(Plan[job[w]])

(* commitSuccess: the step's results become durable in one transaction.    *)
CommitStep(w) == done' = [done EXCEPT ![job[w]] = @ \cup {step[w]}]

CommitOk(w) ==
    /\ pc[w] = "commit"
    /\ CommitStep(w)
    /\ IF StepsLeft(w)
       THEN BeginStep(w, step[w] + 1)
       ELSE Goto(w, "succeeding") /\ UNCHANGED <<step, attempt, held>>
    /\ UNCHANGED <<rowVars, tokenVars, job, err, sweepVars, events,
                   outstanding, boundVars>>

(* commitSuccess reports an error, rolled back or committed.               *)
CommitErr(w) ==
    /\ pc[w] = "commit"
    /\ DbFault
    /\ CommitStep(w) \/ UNCHANGED done
    /\ StepFails(w, "commit")
    /\ UNCHANGED <<rowVars, tokenVars, job, step, sweepVars, events,
                   outstanding>>

(* The terminal transition. An error of it is only logged.                 *)
Finish(w, from, to, label) ==
    /\ pc[w] = from
    /\ \/ Transition(job[w], "running", to) /\ UNCHANGED boundVars
       \/ DbFault /\ UNCHANGED state
    /\ Goto(w, label)
    /\ UNCHANGED <<claimedBy, heartbeat, queuedAt, tokenVars, job, step,
                   attempt, held, err, sweepVars, histVars>>

Succeed(w) == Finish(w, "succeeding", "succeeded", "emit_succeeded")
Fail(w)    == Finish(w, "failing", "failed", "emit_failed")

(* appendEvent(run.succeeded / run.failed), whose error is only logged.    *)
EmitTerminal(w) ==
    /\ pc[w] \in {"emit_succeeded", "emit_failed"}
    /\ \/ /\ events' = events \cup
              {<<job[w], IF pc[w] = "emit_succeeded" THEN "succeeded" ELSE "failed">>}
          /\ UNCHANGED boundVars
       \/ DbFault /\ UNCHANGED events
    /\ Goto(w, "cleanup")
    /\ UNCHANGED <<rowVars, tokenVars, job, step, attempt, held, err,
                   sweepVars, done, outstanding>>

(* Pool.ReleaseAll, whose error is ignored, and return.                    *)
Cleanup(w) ==
    /\ pc[w] = "cleanup"
    /\ \/ DropTokens(ReleaseAll(job[w])) /\ UNCHANGED boundVars
       \/ DbFault /\ UNCHANGED tokenVars
    /\ Return(w)
    /\ UNCHANGED <<rowVars, sweepVars, histVars>>

-----------------------------------------------------------------------------
(* Heartbeats, the reaper and process death                                *)

(* UPDATE runs SET last_heartbeat = NOW() WHERE id AND state in flight. It *)
(* is keyed by the run only, not by the worker.                            *)
Heartbeat(w) ==
    /\ pc[w] \in InRun /\ state[job[w]] \in InFlight
    /\ heartbeat' = [heartbeat EXCEPT ![job[w]] = "fresh"]
    /\ ForgetOld(job[w])
    /\ UNCHANGED <<state, claimedBy, queuedAt, tokenVars, workerVars, cand,
                   histVars, boundVars>>

(* StaleAfter passes since the last heartbeat of r. While a worker is in   *)
(* Run for r this takes a stall: ten missed ticks.                         *)
Expire(r) ==
    /\ state[r] \in InFlight /\ heartbeat[r] = "fresh"
    /\ IF Executing(r) THEN stalls > 0 /\ stalls' = stalls - 1
                       ELSE UNCHANGED stalls
    /\ heartbeat' = [heartbeat EXCEPT ![r] = "stale"]
    /\ UNCHANGED <<state, claimedBy, queuedAt, tokenVars, workerVars,
                   sweepVars, histVars, crashes, dbFaults>>

ReapableWhenRunning(r) == state[r] = "running" /\ heartbeat[r] = "stale"
Reapable(r) == state[r] \in InFlight /\ heartbeat[r] = "stale"

(* Step 1 of SweepOnce: SELECT the in-flight rows older than the cutoff.   *)
SweepSelect(w) ==
    /\ pc[w] # "down" /\ cand[w] = {}
    /\ LET stale == {r \in Runs : Reapable(r)}
       IN /\ stale # {}
          /\ cand' = [cand EXCEPT ![w] = stale]
          /\ old'  = [old EXCEPT ![w] = stale]
    /\ UNCHANGED <<rowVars, tokenVars, workerVars, histVars, boundVars>>

ResetById(w, r)     == TRUE
ResetInFlight(w, r) == state[r] \in InFlight
StillStale(w, r)    == state[r] \in InFlight /\ r \in old[w]

(* Step 2 for one candidate: the UPDATE filters on state and heartbeat     *)
(* again, and a row that matches goes back to the queue.                   *)
SweepRow(w, r) ==
    /\ r \in cand[w]
    /\ cand' = [cand EXCEPT ![w] = @ \ {r}]
    /\ IF StillStale(w, r)
       THEN /\ state' = [state EXCEPT ![r] = "queued"]
            /\ claimedBy' = [claimedBy EXCEPT ![r] = NoWorker]
            /\ heartbeat' = [heartbeat EXCEPT ![r] = "null"]
            /\ outstanding' = [outstanding EXCEPT ![r] = @ - 1]
            /\ ForgetOld(r)
       ELSE /\ old' = [old EXCEPT ![w] = @ \ {r}]
            /\ UNCHANGED <<state, claimedBy, heartbeat, outstanding>>
    /\ UNCHANGED <<queuedAt, tokenVars, workerVars, done, events, boundVars>>

(* The UPDATE fails: the error is logged and the candidate skipped.        *)
SweepFault(w, r) ==
    /\ r \in cand[w]
    /\ DbFault
    /\ cand' = [cand EXCEPT ![w] = @ \ {r}]
    /\ old' = [old EXCEPT ![w] = @ \ {r}]
    /\ UNCHANGED <<rowVars, tokenVars, workerVars, histVars>>

(* 24 hours pass since unit k was acquired. No attempt of a live worker    *)
(* lasts that long (StepTimeout), unless the worker stalls.                *)
AgeToken(k) ==
    /\ k \in tokens \ aged
    /\ IF job[k.by] = k.run /\ pc[k.by] \in InRun
       THEN stalls > 0 /\ stalls' = stalls - 1
       ELSE UNCHANGED stalls
    /\ aged' = aged \cup {k}
    /\ UNCHANGED <<rowVars, tokens, workerVars, sweepVars, histVars, crashes,
                   dbFaults>>

(* The process dies, or its context is canceled by SIGTERM: none of its    *)
(* later statements succeeds. Row locks are freed with the connection; a   *)
(* releaseAcquired may have been cut short.                                *)
Crash(w) ==
    /\ pc[w] # "down"
    /\ crashes > 0 /\ crashes' = crashes - 1
    /\ pc' = [pc EXCEPT ![w] = "down"]
    /\ job' = [job EXCEPT ![w] = NoRun]
    /\ step' = [step EXCEPT ![w] = 0]
    /\ attempt' = [attempt EXCEPT ![w] = 0]
    /\ held' = [held EXCEPT ![w] = 0]
    /\ err' = [err EXCEPT ![w] = "none"]
    /\ cand' = [cand EXCEPT ![w] = {}]
    /\ old' = [old EXCEPT ![w] = {}]
    /\ \E lost \in SUBSET (1 .. held[w]) : DropTokens(Released(w, tokens, lost))
    /\ UNCHANGED <<rowVars, histVars, dbFaults, stalls>>

(* A new process in its place; it starts with ReleaseStale(24h).           *)
Restart(w) ==
    /\ pc[w] = "down"
    /\ Goto(w, "idle")
    /\ DropTokens(aged)
    /\ UNCHANGED <<rowVars, job, step, attempt, held, err, sweepVars,
                   histVars, boundVars>>

-----------------------------------------------------------------------------
Work(w) == \/ ClaimSelect(w) \/ ClaimCommit(w) \/ Start(w) \/ Unresolvable(w)
           \/ Gate(w) \/ AcquireOk(w) \/ AcquireMiss(w) \/ MaterializeOk(w)
           \/ MaterializeErr(w) \/ CommitOk(w) \/ Succeed(w) \/ Fail(w)
           \/ EmitTerminal(w) \/ Cleanup(w)

Sweep(w) == SweepSelect(w) \/ \E r \in Runs : SweepRow(w, r)

Fault(w) == \/ ClaimFault(w) \/ StartFault(w) \/ AcquireFault(w) \/ MaskErr(w)
            \/ CommitErr(w) \/ Crash(w) \/ \E r \in Runs : SweepFault(w, r)

Next == \/ \E r \in Runs : Enqueue(r) \/ Expire(r)
        \/ \E w \in Workers : Work(w) \/ Heartbeat(w) \/ Sweep(w) \/ Fault(w)
                              \/ Restart(w)
        \/ \E k \in tokens : AgeToken(k)

Spec == Init /\ [][Next]_vars

(* Fairness: a live worker keeps executing (the user function is bounded   *)
(* by StepTimeout), its reaper keeps sweeping, time passes for a run that  *)
(* nobody executes, and a supervisor restarts a dead worker. Enqueueing,   *)
(* faults, stalls and token ages stay unfair.                              *)
Fairness ==
    /\ \A w \in Workers : WF_vars(Work(w)) /\ WF_vars(Sweep(w)) /\ WF_vars(Restart(w))
    /\ \A r \in Runs : WF_vars(~Executing(r) /\ Expire(r))

FairSpec == Spec /\ Fairness

-----------------------------------------------------------------------------
(* Properties that hold with crashes, failing statements and stalls        *)

TypeOK ==
    /\ state \in [Runs -> States]
    /\ claimedBy \in [Runs -> Workers \cup {NoWorker}]
    /\ heartbeat \in [Runs -> {"null", "fresh", "stale"}]
    /\ queuedAt \in [Runs -> Nat]
    /\ tokens \subseteq Token /\ aged \subseteq tokens
    /\ pc \in [Workers -> PC]
    /\ job \in [Workers -> Runs \cup {NoRun}]
    /\ step \in [Workers -> Nat]
    /\ attempt \in [Workers -> Nat]
    /\ held \in [Workers -> Nat]
    /\ err \in [Workers -> Errors]
    /\ cand \in [Workers -> SUBSET Runs]
    /\ old \in [Workers -> SUBSET Runs]
    /\ done \in [Runs -> SUBSET Nat]
    /\ events \subseteq Runs \X {"succeeded", "failed"}
    /\ outstanding \in [Runs -> Int]
    /\ crashes \in Nat /\ dbFaults \in Nat /\ stalls \in Nat
    /\ \A w \in Workers : /\ job[w] = NoRun <=> pc[w] \in {"down", "idle"}
                          /\ pc[w] \in InStep => step[w] \in StepsOf[job[w]]

(* The reaper can always find an in-flight run: its row has a heartbeat    *)
(* that can go stale and a claimant, and a queued row has neither (the     *)
(* reaper's filter never matches a NULL heartbeat).                        *)
InFlightReapable ==
    \A r \in Runs :
        /\ state[r] \in InFlight => heartbeat[r] # "null" /\ claimedBy[r] # NoWorker
        /\ state[r] \in {"absent", "queued"} =>
               heartbeat[r] = "null" /\ claimedBy[r] = NoWorker

(* Concurrent sweeps reset a claim at most once (SweepOnce is "safe to     *)
(* invoke concurrently"): claims minus resets is one exactly for a run     *)
(* that has left the queue.                                                *)
OneResetPerClaim ==
    \A r \in Runs :
        outstanding[r] = IF state[r] \in {"absent", "queued"} THEN 0 ELSE 1

(* A run is marked succeeded only if every step of its plan has committed, *)
(* even when a worker that lost its claim is the one that marks it.        *)
SucceededMeansCommitted ==
    \A r \in Runs : state[r] = "succeeded" => done[r] = StepsOf[r]

(* SUM(weight) of a tag never exceeds its configured limit, in spite of    *)
(* leaked rows and of two workers checking out for the same run.           *)
CapacityRespected == \A t \in Tags : Used(t) <= Capacity[t]

(* The engine implements the lifecycle it promises.                        *)
Lifecycle == INSTANCE RunLifecycle
                 WITH Runs <- Runs, StepsOf <- StepsOf, state <- state, done <- done
ImplementsLifecycle == Lifecycle!Spec

-----------------------------------------------------------------------------
(* Properties of an engine whose live workers heartbeat in time            *)

(* A worker inside Run owns its run: the row is in flight under its name,  *)
(* 'running' from the first step on, and no other worker executes it. The  *)
(* terminal transition may be behind it already.                           *)
ExclusiveExecution ==
    \A w \in Workers :
        pc[w] \in InRun =>
            /\ claimedBy[job[w]] = w
            /\ state[job[w]] \notin {"absent", "queued"}
            /\ pc[w] \in InStep => state[job[w]] = "running"
            /\ \A v \in Workers \ {w} : pc[v] \in InRun => job[v] # job[w]

(* The units of tag t that the live workers inside a user function need.   *)
RequestsFor(w, t) == {i \in 1 .. Len(Need(w)) : Need(w)[i].tag = t}
Demand(t) ==
    UNION {UNION {{<<w, i, u>> : u \in 1 .. Weight(Need(w)[i])} :
                    i \in RequestsFor(w, t)} :
             w \in {v \in Workers : pc[v] = "materialize"}}

(* The pool does what it is for: the live workers that are inside a user   *)
(* function at the same time need no more of a tag than its limit, as long *)
(* as no heartbeat was late.                                               *)
ConcurrencyHonoured ==
    stalls = MaxStalls => \A t \in Tags : Cardinality(Demand(t)) <= Capacity[t]

(* run.succeeded and run.failed events agree with the row. (With failing   *)
(* statements they need not: a failed terminal transition is only logged.) *)
EventsMatchRows == \A e \in events : state[e[1]] = e[2]

(* Every run that can be resolved and is queued reaches a terminal state,  *)
(* whatever finite number of workers dies on the way.                      *)
EveryRunSettles ==
    \A r \in Resolvable : state[r] = "queued" ~> state[r] \in Terminal

=============================================================================
