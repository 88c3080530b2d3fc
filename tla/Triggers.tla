------------------------------ MODULE Triggers ------------------------------
(***************************************************************************)
(* Where runs come from: scheduler processes that drain the due rows of    *)
(* the schedules and sensors tables, and backfill submissions. They share  *)
(* the runs table, whose partial unique index admits one in-flight run per *)
(* (asset, partition key).                                                 *)
(*                                                                         *)
(* A transaction is two steps: BEGIN with the SELECT ... FOR UPDATE SKIP   *)
(* LOCKED, and everything up to COMMIT. NOW() is the time of the BEGIN.    *)
(* Two clocks are read: the database's, which is `now`, and the process's  *)
(* own, which is Skew[p] ahead of it (behind it, when it is negative).     *)
(***************************************************************************)
EXTENDS Integers, Sequences, FiniteSets

CONSTANTS
    Procs,          \* scheduler processes
    Skew,           \* Skew[p]: how far the clock of p is ahead
    Schedules,      \* schedule ids, one per asset with a schedule
    Sensors,        \* sensor ids
    Backfills,      \* ids of backfill submissions
    Nobody,         \* no row, no owner
    NoCron,         \* the registry has no schedule, the table has no row
    CronOf,         \* CronOf[p][s]: the windows of s in the registry of p
    Known,          \* Known[p]: the sensors in the registry of p, and the
                    \*   schedules whose assets are
    Slots, NoSlot,  \* (asset, partition key) pairs; NULL partition_key
    FireSlot,       \* FireSlot[s][t]: computeFirePartitionKey of window t
    RunKeys, NoKey, \* the keys a Sense function may return; ""
    DatedKeys,      \* DatedKeys[x]: the keys valid for the partitions of x
    KeySlot,        \* KeySlot[x][k]: the partition that valid key k names
    Fallback,       \* Fallback[x][t]: the partition preceding t
    MinInterval,    \* MinInterval[x], Cooldown[x]: of the sensor's spec
    Cooldown,
    DisableAfter,   \* failures after which a sensor is disabled
    Specs,          \* what a backfill may ask for: sequences of slots
    StartTime,      \* bounds of the database clock
    MaxTime,
    Horizon,        \* later than every clock: stands for a far window
    MaxCrashes,     \* bound: process deaths
    MaxDbFaults     \* bound: transactions that report an error

ASSUME TriggersAssumption ==
    /\ Skew \in [Procs -> Int]
    /\ StartTime \in Nat /\ MaxTime \in Nat /\ Horizon \in Nat
    /\ StartTime <= MaxTime
    /\ \A p \in Procs : StartTime + Skew[p] >= 0 /\ MaxTime + Skew[p] < Horizon
    /\ \A c \in SUBSET (0 .. Horizon - 1) : c # NoCron
    /\ CronOf \in [Procs -> [Schedules -> {NoCron} \cup SUBSET (0 .. Horizon - 1)]]
    /\ Known \in [Procs -> SUBSET (Sensors \cup Schedules)]
    /\ \A p \in Procs : {s \in Schedules : CronOf[p][s] # NoCron} \subseteq Known[p]
    /\ NoSlot \notin Slots /\ NoKey \notin RunKeys
    /\ Nobody \notin Schedules \cup Sensors \cup Backfills
    /\ Schedules \cap Sensors = {}
    /\ FireSlot \in [Schedules -> [0 .. Horizon -> Slots \cup {NoSlot}]]
    /\ DatedKeys \in [Sensors -> SUBSET RunKeys]
    /\ KeySlot \in [Sensors -> [RunKeys -> Slots \cup {NoSlot}]]
    /\ Fallback \in [Sensors -> [0 .. Horizon -> Slots \cup {NoSlot}]]
    /\ MinInterval \in [Sensors -> Nat] /\ Cooldown \in [Sensors -> Nat]
    /\ DisableAfter \in Nat \ {0}
    /\ Specs \subseteq Seq(Slots)
    /\ MaxCrashes \in Nat /\ MaxDbFaults \in Nat

VARIABLES
    now,                            \* the database clock
    cron, due, last,                \* schedules: cron_expr, next_/last_fire_at
    seen, lastEval, lastKey,        \* sensors: the rows, last_evaluated_at,
    coolUntil, failures, disabled,  \*   last_run_key, cooldown_until, ...
    owner,                          \* owner[k]: who enqueued the in-flight run
    total,                          \* backfills: total_partitions
    pc, clk, txn, sel, row,         \* a process: control state, the clock it
                                    \*   read, NOW(), the row it has locked,
                                    \*   and what it has read there
    fired, twice, reported, early,  \* history of schedules
    sensed, streak,                 \* history of sensors
    crashes, dbFaults               \* what is left of the bounds

schedVars  == <<cron, due, last, fired, twice, reported, early>>
sensorVars == <<seen, lastEval, lastKey, coolUntil, failures, disabled,
                sensed, streak>>
procVars   == <<pc, clk, txn, sel, row>>
boundVars  == <<crashes, dbFaults>>
vars == <<now, schedVars, sensorVars, owner, total, procVars, boundVars>>

NoTime   == -1     \* SQL NULL in a timestamp column
ZeroTime == -2     \* the zero time.Time, before every clock

(* What a process remembers of the row it has selected: of a schedule, the *)
(* window to fire and the windows it skips; of a sensor, last_run_key and  *)
(* cooldown_until.                                                         *)
NoRow == [win |-> 0, skip |-> {}, key |-> NoKey, cool |-> NoTime]
ScheduleRow(w, S) == [NoRow EXCEPT !.win = w, !.skip = S]
SensorRead(k, t)  == [NoRow EXCEPT !.key = k, !.cool = t]

-----------------------------------------------------------------------------
(* Cron windows                                                            *)

Smallest(S) == CHOOSE t \in S : \A u \in S : t <= u
Largest(S)  == CHOOSE t \in S : \A u \in S : t >= u

(* sched.Next(t): the first window after t; the zero time for a crontab    *)
(* that parses and names no date (c = {}), as that of 30 February.         *)
NextWindow(c, t) == IF c = {} THEN ZeroTime
                    ELSE Smallest({u \in c : u > t} \cup {Horizon})

OpenedAgain(c, lf, t) == {u \in c : lf <= u /\ u <= t}

(* The windows since the last fire that have opened by t.                  *)
Opened(c, lf, t) == {u \in c : lf < u /\ u <= t}

(* computeNextAndDetectMiss: the latest open window, else the next one;    *)
(* and the windows it skips. A schedule that never fired misses nothing.   *)
(* Its loops leave off at a window later than t: they do end if c # {}.    *)
WindowToFire(c, lf, t) ==
    IF Opened(c, lf, t) = {} THEN NextWindow(c, IF lf = NoTime THEN t ELSE lf)
    ELSE Largest(Opened(c, lf, t))
Skipped(c, lf, t) ==
    IF lf = NoTime THEN {} ELSE Opened(c, lf, t) \ {WindowToFire(c, lf, t)}

-----------------------------------------------------------------------------
Clock(p) == now + Skew[p]
Locked   == {sel[p] : p \in Procs}

Init ==
    /\ now = StartTime
    /\ cron = [s \in Schedules |-> NoCron]
    /\ due = [s \in Schedules |-> NoTime]
    /\ last = [s \in Schedules |-> NoTime]
    /\ fired = [s \in Schedules |-> {}]
    /\ twice = [s \in Schedules |-> {}]
    /\ reported = [s \in Schedules |-> {}]
    /\ early = [s \in Schedules |-> {}]
    /\ seen = {}
    /\ lastEval = [x \in Sensors |-> NoTime]
    /\ lastKey = [x \in Sensors |-> NoKey]
    /\ coolUntil = [x \in Sensors |-> NoTime]
    /\ failures = [x \in Sensors |-> 0]
    /\ disabled = {}
    /\ sensed = [x \in Sensors |-> <<>>]
    /\ streak = [x \in Sensors |-> 0]
    /\ owner = [k \in Slots |-> Nobody]
    /\ total = [b \in Backfills |-> 0]
    /\ pc = [p \in Procs |-> "boot"]
    /\ clk = [p \in Procs |-> 0]
    /\ txn = [p \in Procs |-> 0]
    /\ sel = [p \in Procs |-> Nobody]
    /\ row = [p \in Procs |-> NoRow]
    /\ crashes = MaxCrashes /\ dbFaults = MaxDbFaults

Goto(p, label) == pc' = [pc EXCEPT ![p] = label]

DbFault == /\ dbFaults > 0 /\ dbFaults' = dbFaults - 1
           /\ UNCHANGED crashes

EndTxKeepingRow(p, label) == /\ Goto(p, label)
                             /\ UNCHANGED <<clk, txn, sel, row>>

(* The transaction of p ends, its row lock is freed; what it has read is   *)
(* not used again.                                                         *)
EndTx(p, label) == /\ Goto(p, label)
                   /\ sel' = [sel EXCEPT ![p] = Nobody]
                   /\ row' = [row EXCEPT ![p] = NoRow]
                   /\ clk' = [clk EXCEPT ![p] = 0]
                   /\ txn' = [txn EXCEPT ![p] = 0]

(* BEGIN and a SELECT that locks a row and reads what.                     *)
BeginTx(p, id, what, label) == /\ Goto(p, label)
                               /\ sel' = [sel EXCEPT ![p] = id]
                               /\ row' = [row EXCEPT ![p] = what]
                               /\ txn' = [txn EXCEPT ![p] = now]
                               /\ UNCHANGED clk

(* INSERT INTO runs: the partial unique index admits it ...                *)
Vacant(k) == k \in Slots => owner[k] = Nobody
(* ... and the row is in flight.                                           *)
InsertRun(k, who) ==
    owner' = [j \in Slots |-> IF j = k THEN who ELSE owner[j]]

-----------------------------------------------------------------------------
(* Startup: UpsertSchedules, UpsertSensors                                 *)

(* The schedules S and the sensors X of the registry of p are reconciled.  *)
(* The UPDATE of a row that is locked waits.                               *)
Upsert(p, S, X) ==
    LET new == {s \in S : cron[s] # CronOf[p][s]}
    IN /\ new \cap Locked = {}
       /\ cron' = [s \in Schedules |->
                     IF s \in new THEN CronOf[p][s] ELSE cron[s]]
       /\ due' = [s \in Schedules |->
                    IF s \in new THEN NextWindow(CronOf[p][s], Clock(p))
                    ELSE due[s]]
       /\ seen' = seen \cup X
       /\ UNCHANGED <<last, fired, twice, reported, early, lastEval, lastKey,
                      coolUntil, failures, disabled, sensed, streak>>

(* Every crontab that parses is registered.                                *)
Registered(p) == {s \in Schedules : CronOf[p][s] # NoCron}

Boot(p) ==
    /\ pc[p] = "boot"
    /\ Upsert(p, Registered(p), Known[p] \cap Sensors)
    /\ Goto(p, "fire")
    /\ UNCHANGED <<now, owner, total, clk, txn, sel, row, boundVars>>

(* A serialization failure (another process starts, or had the row to be   *)
(* updated) or an error ends the registration where it is; it is only      *)
(* logged.                                                                 *)
BootAborted(p) ==
    /\ pc[p] = "boot"
    /\ \/ DbFault
       \/ /\ \/ \E q \in Procs \ {p} : pc[q] = "boot"
             \/ \E q \in Procs : /\ sel[q] \in Registered(p) /\ pc[q] # "walk"
                                 /\ cron[sel[q]] # CronOf[p][sel[q]]
          /\ UNCHANGED boundVars
    /\ \E S \in SUBSET Registered(p), X \in SUBSET (Known[p] \cap Sensors) :
         Upsert(p, S, X)
    /\ Goto(p, "fire")
    /\ UNCHANGED <<now, owner, total, clk, txn, sel, row>>

-----------------------------------------------------------------------------
(* The schedule pass of a tick: FireOneSchedule until no row is due        *)

(* time.Now() is evaluated before the call.                                *)
ReadClock(p) ==
    /\ pc[p] = "fire"
    /\ clk' = [clk EXCEPT ![p] = Clock(p)]
    /\ Goto(p, "select")
    /\ UNCHANGED <<now, schedVars, sensorVars, owner, total, txn, sel, row,
                   boundVars>>

DueSchedules(t) == {s \in Schedules : due[s] # NoTime /\ due[s] <= t}

LockIgnored == {}
LockedRows  == Locked

(* The row's text was parsed when its process was built (Builder.Build),   *)
(* so that parsing it again does not fail. In "walk" a process goes round  *)
(* the loop of computeNextAndDetectMiss, holding the row, and has no step. *)
SelectSchedule(p) ==
    /\ pc[p] = "select"
    /\ LET free == DueSchedules(clk[p]) \ LockedRows
       IN \/ free = {} /\ EndTx(p, "sense")
          \/ \E s \in free :
               /\ \A r \in free : due[s] <= due[r]
               /\ \/ cron[s] = {} /\ BeginTx(p, s, NoRow, "walk")
                  \/ /\ cron[s] # {}
                     /\ BeginTx(p, s,
                                ScheduleRow(WindowToFire(cron[s], last[s], clk[p]),
                                            Skipped(cron[s], last[s], clk[p])),
                                "firing")
    /\ UNCHANGED <<now, schedVars, sensorVars, owner, total, boundVars>>

Window(p) == row[p].win

NextFire(c, w, t) == NextWindow(c, t)

(* computeFirePartitionKey: none for an asset that p does not know.        *)
SlotOf(p, s) == IF s \in Known[p] THEN FireSlot[s][Window(p)] ELSE NoSlot

(* The UPDATEs and the INSERT of a fire. The windows it handles before the *)
(* database's clock has reached them are noted.                            *)
FireRow(p) ==
    LET s == sel[p] IN
    /\ Vacant(SlotOf(p, s))
    /\ InsertRun(SlotOf(p, s), s)
    /\ last' = [last EXCEPT ![s] = txn[p]]
    /\ due' = [due EXCEPT ![s] = NextFire(cron[s], Window(p), clk[p])]
    /\ fired' = [fired EXCEPT ![s] = @ \cup {Window(p)}]
    /\ twice' = [twice EXCEPT ![s] = @ \cup ({Window(p)} \cap fired[s])]
    /\ early' = [early EXCEPT ![s] =
                   @ \cup {w \in {Window(p)} \cup row[p].skip : w > txn[p]}]
    /\ UNCHANGED cron

Fire(p) ==
    /\ pc[p] = "firing" /\ Window(p) <= clk[p]
    /\ FireRow(p)
    /\ reported' = [reported EXCEPT ![sel[p]] = @ \cup row[p].skip]
    /\ EndTx(p, "fire")
    /\ UNCHANGED <<now, sensorVars, total, boundVars>>

(* The walker says that no window has opened since the last fire.          *)
RollForwardRow(p) ==
    /\ Window(p) > clk[p]
    /\ due' = [due EXCEPT ![sel[p]] = Window(p)]
    /\ UNCHANGED <<cron, last, fired, twice, early, owner>>

RollForward(p) ==
    /\ pc[p] = "firing"
    /\ RollForwardRow(p)
    /\ EndTx(p, "fire")
    /\ UNCHANGED <<now, reported, sensorVars, total, boundVars>>

(* The unique index rejects the run: rolled back, the row stays due and    *)
(* the schedule pass of this tick ends.                                    *)
FireConflict(p) ==
    /\ pc[p] = "firing" /\ Window(p) <= clk[p]
    /\ ~ Vacant(SlotOf(p, sel[p]))
    /\ EndTx(p, "sense")
    /\ UNCHANGED <<now, schedVars, sensorVars, owner, total, boundVars>>

(* A statement fails, or the commit's answer is lost; no event is emitted. *)
FireFault(p) ==
    /\ pc[p] = "firing"
    /\ DbFault
    /\ \/ Window(p) <= clk[p] /\ FireRow(p)
       \/ RollForwardRow(p)
       \/ UNCHANGED <<cron, last, due, fired, twice, early, owner>>
    /\ EndTx(p, "sense")
    /\ UNCHANGED <<now, reported, sensorVars, total>>

-----------------------------------------------------------------------------
(* The sensor pass of a tick: evaluateOneSensor until no row is due        *)

DueSensors(t) ==
    {x \in seen \ disabled : \/ lastEval[x] = NoTime
                             \/ lastEval[x] + MinInterval[x] <= t}

SelectSensor(p) ==
    /\ pc[p] = "sense"
    /\ LET free == DueSensors(now) \ LockedRows
       IN \/ free = {} /\ EndTx(p, "fire")
          \/ \E x \in free : /\ \A y \in free : lastEval[x] <= lastEval[y]
                             /\ BeginTx(p, x, SensorRead(lastKey[x], coolUntil[x]),
                                        "sensing")
    /\ UNCHANGED <<now, schedVars, sensorVars, owner, total, boundVars>>

(* resolveSensorPartitionKey.                                              *)
SensorSlot(x, k, t) == IF k \in DatedKeys[x] THEN KeySlot[x][k]
                       ELSE Fallback[x][t]

(* The two layers of deduplication: the key of the last run, the cooldown. *)
Cooling(p)            == Clock(p) < row[p].cool
RepeatedIfCool(p, k) == k # NoKey /\ row[p].key = k /\ Cooling(p)
Repeated(p, k)        == k # NoKey /\ row[p].key = k

(* last_evaluated_at = NOW(), consecutive_failures = 0.                    *)
EvaluatedOk(p) ==
    /\ lastEval' = [lastEval EXCEPT ![sel[p]] = txn[p]]
    /\ failures' = [failures EXCEPT ![sel[p]] = 0]
    /\ streak' = [streak EXCEPT ![sel[p]] = 0]
    /\ UNCHANGED <<seen, disabled>>

(* Sense does not fire, or fires with the key of the last run, or fires    *)
(* during the cooldown.                                                    *)
QuietRow(p) ==
    /\ EvaluatedOk(p)
    /\ UNCHANGED <<lastKey, coolUntil, sensed, owner>>

(* Sense fires with key k and a run is enqueued.                           *)
SensorRow(p, k) ==
    LET x == sel[p] IN
    /\ ~ Repeated(p, k) /\ ~ Cooling(p)
    /\ Vacant(SensorSlot(x, k, Clock(p)))
    /\ InsertRun(SensorSlot(x, k, Clock(p)), x)
    /\ EvaluatedOk(p)
    /\ lastKey' = [lastKey EXCEPT ![x] = k]
    /\ coolUntil' = [coolUntil EXCEPT ![x] = Clock(p) + Cooldown[x]]
    /\ sensed' = [sensed EXCEPT ![x] = Append(@, [key |-> k, at |-> now, by |-> p])]

DisableLate(n) == n > DisableAfter
Disables(n)    == n >= DisableAfter

(* handleError: an error, a panic or a timeout of Sense.                   *)
ErrorRow(p) ==
    LET x == sel[p] IN
    /\ failures' = [failures EXCEPT ![x] = @ + 1]
    /\ streak' = [streak EXCEPT ![x] = @ + 1]
    /\ lastEval' = [lastEval EXCEPT ![x] = txn[p]]
    /\ disabled' = IF Disables(failures[x] + 1) THEN disabled \cup {x} ELSE disabled
    /\ UNCHANGED <<seen, lastKey, coolUntil, sensed, owner>>

(* autoDisableOrphan: the registry of p does not have the sensor.          *)
OrphanRow(p) ==
    /\ disabled' = disabled \cup {sel[p]}
    /\ UNCHANGED <<seen, lastEval, lastKey, coolUntil, failures, sensed, streak,
                   owner>>

(* What a committed evaluation does to the database.                       *)
EvaluatedRow(p) ==
    IF sel[p] \notin Known[p] THEN OrphanRow(p)
    ELSE QuietRow(p) \/ ErrorRow(p) \/ \E k \in RunKeys \cup {NoKey} : SensorRow(p, k)

Evaluate(p) ==
    /\ pc[p] = "sensing"
    /\ EvaluatedRow(p)
    /\ EndTx(p, "sense")
    /\ UNCHANGED <<now, schedVars, total, boundVars>>

(* The unique index rejects the run: rolled back, and the tick ends.       *)
SensorConflict(p) ==
    /\ pc[p] = "sensing" /\ sel[p] \in Known[p]
    /\ \E k \in RunKeys \cup {NoKey} :
         /\ ~ Repeated(p, k) /\ ~ Cooling(p)
         /\ ~ Vacant(SensorSlot(sel[p], k, Clock(p)))
    /\ EndTx(p, "fire")
    /\ UNCHANGED <<now, schedVars, sensorVars, owner, total, boundVars>>

SensorFault(p) ==
    /\ pc[p] = "sensing"
    /\ DbFault
    /\ EvaluatedRow(p) \/ UNCHANGED <<sensorVars, owner>>
    /\ EndTx(p, "fire")
    /\ UNCHANGED <<now, schedVars, total>>

-----------------------------------------------------------------------------
(* Backfills, the engine, time and process death                           *)

(* backfill.Submit: INSERT ... ON CONFLICT DO NOTHING for every key.       *)
Submit(b) ==
    /\ total[b] = 0
    /\ \E spec \in Specs :
         LET free == {spec[i] : i \in DOMAIN spec} \cap {k \in Slots : Vacant(k)}
         IN /\ spec # <<>>
            /\ total' = [total EXCEPT ![b] = Len(spec)]
            /\ owner' = [k \in Slots |-> IF k \in free THEN b ELSE owner[k]]
    /\ UNCHANGED <<now, schedVars, sensorVars, procVars, boundVars>>

(* The in-flight run of slot k reaches a terminal state.                   *)
Settle(k) ==
    /\ owner[k] # Nobody
    /\ owner' = [owner EXCEPT ![k] = Nobody]
    /\ UNCHANGED <<now, schedVars, sensorVars, total, procVars, boundVars>>

Tick == /\ now < MaxTime
        /\ now' = now + 1
        /\ UNCHANGED <<schedVars, sensorVars, owner, total, procVars,
                       boundVars>>

(* The process dies, its transaction is rolled back, and it starts again.  *)
Crash(p) ==
    /\ crashes > 0 /\ crashes' = crashes - 1
    /\ EndTx(p, "boot")
    /\ UNCHANGED <<now, schedVars, sensorVars, owner, total, dbFaults>>

Step(p) == \/ Boot(p) \/ BootAborted(p)
           \/ ReadClock(p) \/ SelectSchedule(p) \/ Fire(p) \/ RollForward(p)
           \/ FireConflict(p) \/ SelectSensor(p) \/ Evaluate(p)
           \/ SensorConflict(p)

Next == \/ Tick
        \/ \E p \in Procs : Step(p) \/ FireFault(p) \/ SensorFault(p) \/ Crash(p)
        \/ \E b \in Backfills : Submit(b)
        \/ \E k \in Slots : Settle(k)

Spec == Init /\ [][Next]_vars

(* Fairness: scheduler processes keep ticking (Sense is bounded by its     *)
(* timeout), and runs settle, which is what the run engine guarantees.     *)
Fairness == /\ \A p \in Procs : WF_vars(Step(p))
            /\ \A k \in Slots : WF_vars(Settle(k))

FairSpec == Spec /\ Fairness

-----------------------------------------------------------------------------

(* A window of a schedule fires a second time only if it was handled early *)
(* the first time: by a process whose clock showed the window while NOW(), *)
(* which the fire writes to last_fire_at, was before it (fire.go:78,122).  *)
(* Otherwise it fires once, whatever crontabs the replicas deploy, however *)
(* often a fire is retried and whoever dies during it.                     *)
WindowFiredOnce == \A s \in Schedules : twice[s] \subseteq early[s]

(* A window that a schedule.missed event counts, and that was fired too,   *)
(* was handled early: with a clock that is not ahead of the database's,    *)
(* only windows that were not fired are reported missed. (With one that is *)
(* a fired window can be, although missed.go:36 says that the count is of  *)
(* windows skipped while the daemon was down.)                             *)
MissedWereNotFired ==
    \A s \in Schedules : reported[s] \cap fired[s] \subseteq early[s]

(* Two successive runs of a sensor do not have the same run key and are a  *)
(* cooldown apart, less what the clock of the second one's process is      *)
(* ahead of the clock of the first one's: cooldown_until is written by one *)
(* clock and compared with another (evaluate.go:234,262,304), not with     *)
(* NOW() as the comment at evaluate.go:226 says.                           *)
SensorRunsSpaced ==
    \A x \in Sensors : \A i \in 1 .. Len(sensed[x]) - 1 :
        LET one == sensed[x][i]
            two == sensed[x][i + 1]
        IN /\ two.at - one.at >= Cooldown[x] - (Skew[two.by] - Skew[one.by])
           /\ one.key # NoKey => two.key # one.key

(* A sensor that fails every time is evaluated DisableAfter times, no more *)
(* (processes that evaluate it at the same time included).                 *)
FailingSensorStops == \A x \in Sensors : streak[x] <= DisableAfter

(* A due schedule whose crontab has dates is handled, although another     *)
(* row's conflict may end the tick before it and a process may die. A row  *)
(* whose crontab has none takes one process for good: the walk over its    *)
(* windows does not end, although missed.go:51 says that it is bounded. So *)
(* there have to be more processes than such rows.                         *)
HasDates(s) == \A p \in Procs : CronOf[p][s] # {}
DueScheduleHandled ==
    \A s \in {r \in Schedules : HasDates(r)} :
        s \in DueSchedules(now) ~> s \notin DueSchedules(now)

(* A due sensor is evaluated, although another sensor's conflict may end   *)
(* the tick before it.                                                     *)
DueSensorHandled ==
    \A x \in Sensors : x \in DueSensors(now) ~> x \notin DueSensors(now)
=============================================================================
