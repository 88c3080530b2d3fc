--------------------------- MODULE TriggersProofs ---------------------------
(***************************************************************************)
(* Proofs about Triggers, for every number of processes, schedules and     *)
(* sensors, every crontab, cooldown and bound, and every difference of the *)
(* processes' clocks: a window that is not handled early fires once and is *)
(* reported missed only if it was not fired, the runs of a sensor keep     *)
(* their distance, and a failing sensor is disabled in time.               *)
(***************************************************************************)
EXTENDS Triggers, FiniteSetTheorems, SequenceTheorems, WellFoundedInduction,
        TLAPS

-----------------------------------------------------------------------------
(* The window algorithms.                                                  *)

(* A non-empty set of numbers has a smallest one.                          *)
LEMMA SmallestIsLeast ==
    ASSUME NEW S \in SUBSET Nat, S # {}
    PROVE  Smallest(S) \in S /\ \A u \in S : Smallest(S) <= u
  <1>1. \E x \in S : \A y \in S : ~ (<<y, x>> \in OpToRel(<, Nat))
    BY NatLessThanWellFounded, WFMin
  <1>2. PICK x \in S : \A y \in S : ~ (<<y, x>> \in OpToRel(<, Nat))
    BY <1>1
  <1>3. \A y \in S : x <= y
    <2> TAKE y \in S
    <2>1. <<y, x>> \in Nat \X Nat /\ ~ (y < x)
      BY <1>2 DEF OpToRel
    <2> QED BY <2>1
  <1> QED BY <1>3 DEF Smallest

(* A non-empty set of numbers that is bounded has a largest one.           *)
LEMMA LargestIsGreatest ==
    ASSUME NEW n \in Nat, NEW S \in SUBSET (0 .. n), S # {}
    PROVE  Largest(S) \in S /\ \A u \in S : u <= Largest(S)
  <1> DEFINE Below == {n - u : u \in S}
  <1>1. Below \in SUBSET Nat /\ Below # {}
    <2>1. \A u \in S : n - u \in Nat
      OBVIOUS
    <2> QED BY <2>1
  <1>2. Smallest(Below) \in Below /\ \A b \in Below : Smallest(Below) <= b
    <2> HIDE DEF Below
    <2> QED BY <1>1, SmallestIsLeast
  <1>3. PICK g \in S : Smallest(Below) = n - g
    BY <1>2
  <1>4. \A u \in S : u <= g
    <2> TAKE u \in S
    <2>1. n - u \in Below
      OBVIOUS
    <2>2. n - g <= n - u
      BY <1>2, <1>3, <2>1
    <2> QED BY <2>2
  <1>5. \A u \in S : g >= u
    BY <1>4
  <1>6. Largest(S) \in S /\ \A u \in S : Largest(S) >= u
    BY <1>5 DEF Largest
  <1> QED BY <1>6

(* sched.Next of a crontab with dates: a window of the crontab later than  *)
(* t, or a far one, and no window of the crontab is in between.            *)
LEMMA NextWindowIsNext ==
    ASSUME NEW c \in SUBSET (0 .. Horizon - 1), c # {}, NEW t \in Int
    PROVE  /\ NextWindow(c, t) \in {u \in c : u > t} \cup {Horizon}
           /\ NextWindow(c, t) \in 0 .. Horizon
           /\ \A u \in c : u > t => NextWindow(c, t) <= u
  <1> DEFINE S == {u \in c : u > t} \cup {Horizon}
  <1>1. Horizon \in Nat /\ \A u \in c : u \in 0 .. Horizon
    BY TriggersAssumption
  <1>2. S \in SUBSET Nat /\ S # {}
    <2>1. \A u \in c : u \in Nat
      BY <1>1
    <2> QED BY <1>1, <2>1
  <1>3. Smallest(S) \in S /\ \A u \in S : Smallest(S) <= u
    <2> HIDE DEF S
    <2> QED BY <1>2, SmallestIsLeast
  <1>4. NextWindow(c, t) \in S /\ \A u \in S : NextWindow(c, t) <= u
    BY <1>3 DEF NextWindow
  <1>5. NextWindow(c, t) \in 0 .. Horizon
    <2>1. Horizon \in 0 .. Horizon
      BY <1>1
    <2> QED BY <1>1, <1>4, <2>1
  <1> QED BY <1>4, <1>5

(* computeNextAndDetectMiss: a window that has opened is later than the    *)
(* last fire and the latest that has opened; the windows skipped have      *)
(* opened since, and the one to fire is not among them.                    *)
LEMMA WindowToFireIsLatest ==
    ASSUME NEW c \in SUBSET (0 .. Horizon - 1), c # {},
           NEW lf \in Nat \cup {NoTime}, NEW t \in 0 .. Horizon - 1
    PROVE  /\ WindowToFire(c, lf, t) \in c \cup {Horizon}
           /\ WindowToFire(c, lf, t) \in 0 .. Horizon
           /\ WindowToFire(c, lf, t) <= t =>
                /\ WindowToFire(c, lf, t) > lf
                /\ \A u \in c : u <= t => u <= WindowToFire(c, lf, t)
           /\ Skipped(c, lf, t) \subseteq {u \in c : lf < u /\ u <= t}
           /\ WindowToFire(c, lf, t) \notin Skipped(c, lf, t)
  <1> SUFFICES ASSUME NEW w, w = WindowToFire(c, lf, t)
               PROVE  /\ w \in c \cup {Horizon} /\ w \in 0 .. Horizon
                      /\ w <= t => w > lf /\ \A u \in c : u <= t => u <= w
                      /\ Skipped(c, lf, t) \subseteq {u \in c : lf < u /\ u <= t}
                      /\ w \notin Skipped(c, lf, t)
    OBVIOUS
  <1> DEFINE O == Opened(c, lf, t)
  <1>1. Horizon \in Nat /\ lf \in Int /\ \A u \in c : u \in 0 .. Horizon
    BY TriggersAssumption DEF NoTime
  <1>2. /\ O \in SUBSET (0 .. Horizon) /\ O \subseteq c
        /\ \A u \in c : u \in O <=> lf < u /\ u <= t
    BY <1>1 DEF Opened
  <1>3. CASE O = {}
    <2> DEFINE from == IF lf = NoTime THEN t ELSE lf
    <2>1. from \in Int /\ w = NextWindow(c, from)
      BY <1>1, <1>3 DEF WindowToFire
    <2>2. /\ w \in {u \in c : u > from} \cup {Horizon} /\ w \in 0 .. Horizon
      <3> HIDE DEF from
      <3> QED BY <2>1, NextWindowIsNext
    <2>3. w > t
      BY <1>1, <1>2, <1>3, <2>2
    <2>4. Skipped(c, lf, t) = {}
      BY <1>3 DEF Skipped
    <2> QED BY <1>1, <2>2, <2>3, <2>4
  <1>4. CASE O # {}
    <2>1. w \in O /\ \A u \in O : u <= w
      <3>1. w = Largest(O)
        BY <1>4 DEF WindowToFire
      <3> HIDE DEF O
      <3> QED BY <1>1, <1>2, <1>4, <3>1, LargestIsGreatest
    <2>2. w \in c /\ w \in 0 .. Horizon /\ lf < w /\ w <= t
      BY <1>2, <2>1
    <2>3. \A u \in c : u <= t => u <= w
      BY <1>1, <1>2, <2>1, <2>2
    <2>4. /\ Skipped(c, lf, t) \subseteq O
          /\ w \notin Skipped(c, lf, t)
      BY DEF Skipped
    <2> QED BY <1>2, <2>2, <2>3, <2>4
  <1> QED BY <1>3, <1>4

-----------------------------------------------------------------------------
(* What every step keeps: the types, the row locks, and that what a        *)
(* transaction has read of its row is what the row says.                   *)

Labels    == {"boot", "fire", "select", "firing", "walk", "sense", "sensing"}
Times     == Nat \cup {NoTime}
Crontabs  == {NoCron} \cup SUBSET (0 .. Horizon - 1)
Keys      == RunKeys \cup {NoKey}
Rows      == [win : Nat, skip : SUBSET Nat, key : Keys, cool : Int]
Enqueued  == [key : Keys, at : Nat, by : Procs]
Unlocking == {"boot", "fire", "sense"}

ScheduleTypes ==
    /\ cron \in [Schedules -> Crontabs]
    /\ due \in [Schedules -> Times \cup {ZeroTime}]
    /\ \A s \in Schedules : due[s] # NoTime => cron[s] # NoCron
    /\ last \in [Schedules -> Times]
    /\ fired \in [Schedules -> SUBSET Nat] /\ twice \in [Schedules -> SUBSET Nat]
    /\ reported \in [Schedules -> SUBSET Nat] /\ early \in [Schedules -> SUBSET Nat]

SensorTypes ==
    /\ seen \in SUBSET Sensors /\ disabled \in SUBSET Sensors
    /\ lastEval \in [Sensors -> Times]
    /\ lastKey \in [Sensors -> Keys]
    /\ coolUntil \in [Sensors -> Int]
    /\ failures \in [Sensors -> Nat] /\ streak \in [Sensors -> Nat]
    /\ sensed \in [Sensors -> Seq(Enqueued)]

ProcTypes ==
    /\ pc \in [Procs -> Labels]
    /\ clk \in [Procs -> 0 .. Horizon - 1]
    /\ txn \in [Procs -> Nat]
    /\ sel \in [Procs -> Schedules \cup Sensors \cup {Nobody}]
    /\ row \in [Procs -> Rows]

RunTypes ==
    /\ owner \in [Slots -> Schedules \cup Sensors \cup Backfills \cup {Nobody}]
    /\ total \in [Backfills -> Nat]
    /\ crashes \in Nat /\ dbFaults \in Nat

TypeInv == /\ now \in StartTime .. MaxTime
           /\ ScheduleTypes /\ SensorTypes /\ ProcTypes /\ RunTypes

(* FOR UPDATE SKIP LOCKED: no two transactions have the same row.          *)
LocksHold ==
    /\ \A p \in Procs : /\ pc[p] \in {"firing", "walk"} => sel[p] \in Schedules
                        /\ pc[p] = "sensing" => sel[p] \in Sensors
                        /\ pc[p] \notin {"firing", "walk", "sensing"} => sel[p] = Nobody
    /\ \A p, q \in Procs : p # q /\ sel[p] = sel[q] => sel[p] = Nobody

FireRead(p) ==
    /\ due[sel[p]] # NoTime /\ due[sel[p]] <= clk[p]
    /\ cron[sel[p]] # {}
    /\ row[p].win = WindowToFire(cron[sel[p]], last[sel[p]], clk[p])
    /\ row[p].skip = Skipped(cron[sel[p]], last[sel[p]], clk[p])

SenseRead(p) ==
    /\ sel[p] \notin disabled
    /\ row[p].key = lastKey[sel[p]] /\ row[p].cool = coolUntil[sel[p]]

ReadHolds == \A p \in Procs : /\ pc[p] = "firing" => FireRead(p)
                              /\ pc[p] = "sensing" => SenseRead(p)

IInv == TypeInv /\ LocksHold /\ ReadHolds

(* A process's clock is below the horizon.                                 *)
LEMMA ClockType ==
    ASSUME now \in StartTime .. MaxTime, NEW p \in Procs
    PROVE  Clock(p) \in 0 .. Horizon - 1 /\ Skew[p] \in Int /\ 0 \in 0 .. Horizon - 1
  <1>1. /\ Skew[p] \in Int /\ StartTime \in Nat /\ MaxTime \in Nat /\ Horizon \in Nat
        /\ StartTime + Skew[p] >= 0 /\ MaxTime + Skew[p] < Horizon
    BY TriggersAssumption
  <1>2. now \in Int /\ StartTime <= now /\ now <= MaxTime
    BY <1>1
  <1> QED BY <1>1, <1>2 DEF Clock

(* The first state.                                                        *)
LEMMA InitIInv == Init => IInv
  <1> SUFFICES ASSUME Init PROVE IInv
    OBVIOUS
  <1>1. now \in StartTime .. MaxTime
    BY TriggersAssumption DEF Init
  <1>2. ScheduleTypes
    BY DEF Init, ScheduleTypes, Times, Crontabs
  <1>3. SensorTypes
    <2>1. sensed \in [Sensors -> Seq(Enqueued)]
      BY DEF Init
    <2> QED BY <2>1 DEF Init, SensorTypes, Times, Keys, NoTime
  <1>4. ProcTypes
    <2>1. NoRow \in Rows
      BY DEF NoRow, Rows, Keys, NoTime
    <2>2. clk \in [Procs -> 0 .. Horizon - 1]
      BY <1>1, ClockType DEF Init
    <2> QED BY <2>1, <2>2 DEF Init, ProcTypes, Labels
  <1>5. RunTypes
    BY TriggersAssumption DEF Init, RunTypes
  <1>6. LocksHold /\ ReadHolds
    BY DEF Init, LocksHold, ReadHolds
  <1> QED BY <1>1, <1>2, <1>3, <1>4, <1>5, <1>6 DEF IInv, TypeInv

-----------------------------------------------------------------------------
(* What the statements of a transaction write.                             *)

(* The end of a transaction and the death of a process.                    *)
LEMMA EndTxKeeps ==
    ASSUME ProcTypes, LocksHold, now \in StartTime .. MaxTime,
           NEW p \in Procs, NEW label \in Unlocking, EndTx(p, label)
    PROVE  ProcTypes' /\ LocksHold'
  <1>1. label \in Labels /\ label \notin {"firing", "walk", "sensing"}
    BY DEF Unlocking, Labels
  <1>2. NoRow \in Rows
    BY DEF NoRow, Rows, Keys, NoTime
  <1>3. ProcTypes'
    BY <1>1, <1>2, ClockType DEF ProcTypes, EndTx, Goto
  <1>4. sel'[p] = Nobody /\ pc'[p] = label
    BY DEF EndTx, Goto, ProcTypes
  <1>5. \A q \in Procs : q # p => sel'[q] = sel[q] /\ pc'[q] = pc[q]
    BY DEF EndTx, Goto, ProcTypes
  <1> QED BY <1>1, <1>3, <1>4, <1>5 DEF LocksHold

(* It does not disturb what the other transactions have read, if it wrote  *)
(* only the row that it had locked.                                        *)
OnlyOwnSchedule(p) ==
    \A s \in Schedules : s # sel[p] =>
        cron'[s] = cron[s] /\ due'[s] = due[s] /\ last'[s] = last[s]
OnlyOwnSensor(p) ==
    \A x \in Sensors : x # sel[p] =>
        /\ lastKey'[x] = lastKey[x] /\ coolUntil'[x] = coolUntil[x]
        /\ x \in disabled' => x \in disabled

LEMMA EndTxKeepsReads ==
    ASSUME ProcTypes, LocksHold, ReadHolds, NEW p \in Procs,
           NEW label \in Unlocking, EndTx(p, label),
           OnlyOwnSchedule(p), OnlyOwnSensor(p)
    PROVE  ReadHolds'
  <1>1. pc'[p] \notin {"firing", "sensing"}
    BY DEF EndTx, Goto, ProcTypes, Unlocking
  <1>2. SUFFICES ASSUME NEW q \in Procs, q # p
                 PROVE  /\ pc'[q] = "firing" => FireRead(q)'
                        /\ pc'[q] = "sensing" => SenseRead(q)'
    BY <1>1 DEF ReadHolds
  <1>3. /\ pc'[q] = pc[q] /\ sel'[q] = sel[q] /\ row'[q] = row[q]
        /\ clk'[q] = clk[q]
    BY <1>2 DEF EndTx, Goto, ProcTypes
  <1>4. sel[q] # Nobody => sel[q] # sel[p]
    BY <1>2 DEF LocksHold
  <1>5. ASSUME pc[q] = "firing" PROVE FireRead(q)'
    <2>1. sel[q] \in Schedules /\ sel[q] # Nobody
      BY <1>5, TriggersAssumption DEF LocksHold
    <2>2. /\ cron'[sel[q]] = cron[sel[q]] /\ due'[sel[q]] = due[sel[q]]
          /\ last'[sel[q]] = last[sel[q]]
      BY <1>4, <2>1 DEF OnlyOwnSchedule
    <2>3. FireRead(q)
      BY <1>5 DEF ReadHolds
    <2> QED BY <1>3, <2>2, <2>3 DEF FireRead
  <1>6. ASSUME pc[q] = "sensing" PROVE SenseRead(q)'
    <2>1. sel[q] \in Sensors /\ sel[q] # Nobody
      BY <1>6, TriggersAssumption DEF LocksHold
    <2>2. /\ lastKey'[sel[q]] = lastKey[sel[q]] /\ coolUntil'[sel[q]] = coolUntil[sel[q]]
          /\ sel[q] \in disabled' => sel[q] \in disabled
      BY <1>4, <2>1 DEF OnlyOwnSensor
    <2>3. SenseRead(q)
      BY <1>6 DEF ReadHolds
    <2> QED BY <1>3, <2>2, <2>3 DEF SenseRead
  <1> QED BY <1>3, <1>5, <1>6

(* What the transaction of a fire may leave behind.                        *)
Fires(p)  == Window(p) <= clk[p] /\ FireRow(p)
Counts(p) == reported' = [reported EXCEPT ![sel[p]] = @ \cup row[p].skip]
FireTx(p) ==
    /\ pc[p] = "firing"
    /\ \/ Fires(p) /\ (Counts(p) \/ UNCHANGED reported)
       \/ RollForwardRow(p) /\ UNCHANGED reported
       \/ UNCHANGED <<schedVars, owner>>

LEMMA FireTxTypes ==
    ASSUME TypeInv, LocksHold, ReadHolds, NEW p \in Procs, FireTx(p)
    PROVE  /\ ScheduleTypes' /\ OnlyOwnSchedule(p)
           /\ owner' \in [Slots -> Schedules \cup Sensors \cup Backfills \cup {Nobody}]
  <1>1. /\ sel[p] \in Schedules /\ row[p] \in Rows /\ clk[p] \in Int
        /\ Window(p) \in Nat /\ row[p].skip \in SUBSET Nat /\ txn[p] \in Nat
    <2>1. sel[p] \in Schedules
      BY DEF FireTx, LocksHold
    <2>2. row[p] \in Rows /\ clk[p] \in 0 .. Horizon - 1 /\ txn[p] \in Nat /\ Horizon \in Nat
      BY TriggersAssumption DEF TypeInv, ProcTypes
    <2> QED BY <2>1, <2>2 DEF Rows, Window
  <1>2. ScheduleTypes /\ owner \in [Slots -> Schedules \cup Sensors \cup Backfills \cup {Nobody}]
    BY DEF TypeInv, RunTypes
  <1>6. cron[sel[p]] # {} /\ cron[sel[p]] # NoCron
    <2>1. due[sel[p]] # NoTime /\ cron[sel[p]] # {}
      BY DEF FireTx, ReadHolds, FireRead
    <2> QED BY <1>1, <1>2, <2>1 DEF ScheduleTypes
  <1>3. CASE Fires(p) /\ (Counts(p) \/ UNCHANGED reported)
    <2>1. cron[sel[p]] \in SUBSET (0 .. Horizon - 1)
      BY <1>1, <1>2, <1>6 DEF ScheduleTypes, Crontabs
    <2>2. /\ due' \in [Schedules -> Times \cup {ZeroTime}]
          /\ last' \in [Schedules -> Times]
          /\ \A s \in Schedules : due'[s] # NoTime => cron[s] # NoCron
      <3>1. NextWindow(cron[sel[p]], clk[p]) \in Nat
        <4>1. clk[p] \in Int /\ Horizon \in Nat
          BY <1>1, TriggersAssumption
        <4>2. NextWindow(cron[sel[p]], clk[p]) \in 0 .. Horizon
          BY <1>6, <2>1, <4>1, NextWindowIsNext
        <4> QED BY <4>1, <4>2
      <3> QED BY <1>1, <1>2, <1>3, <1>6, <3>1
              DEF Fires, FireRow, NextFire, ScheduleTypes, Times
    <2>3. /\ fired' \in [Schedules -> SUBSET Nat] /\ twice' \in [Schedules -> SUBSET Nat]
          /\ early' \in [Schedules -> SUBSET Nat]
      <3>1. {w \in {Window(p)} \cup row[p].skip : w > txn[p]} \in SUBSET Nat
        BY <1>1
      <3>2. \A s \in Schedules : fired[s] \in SUBSET Nat /\ twice[s] \in SUBSET Nat
        BY <1>2 DEF ScheduleTypes
      <3>3. fired' \in [Schedules -> SUBSET Nat] /\ twice' \in [Schedules -> SUBSET Nat]
        BY <1>1, <1>2, <1>3, <3>2 DEF Fires, FireRow, ScheduleTypes
      <3>4. early' \in [Schedules -> SUBSET Nat]
        BY <1>1, <1>2, <1>3, <3>1 DEF Fires, FireRow, ScheduleTypes
      <3> QED BY <3>3, <3>4
    <2>4. reported' \in [Schedules -> SUBSET Nat]
      BY <1>1, <1>2, <1>3 DEF Counts, ScheduleTypes
    <2>5. owner' \in [Slots -> Schedules \cup Sensors \cup Backfills \cup {Nobody}]
      BY <1>1, <1>2, <1>3 DEF Fires, FireRow, InsertRun
    <2>6. cron' = cron
      BY <1>3 DEF Fires, FireRow
    <2>7. OnlyOwnSchedule(p)
      BY <1>1, <1>2, <1>3 DEF Fires, FireRow, OnlyOwnSchedule, ScheduleTypes
    <2> QED BY <1>2, <2>2, <2>3, <2>4, <2>5, <2>6, <2>7 DEF ScheduleTypes
  <1>4. CASE RollForwardRow(p) /\ UNCHANGED reported
    BY <1>1, <1>2, <1>4, <1>6 DEF RollForwardRow, ScheduleTypes, OnlyOwnSchedule, Times
  <1>5. CASE UNCHANGED <<schedVars, owner>>
    BY <1>2, <1>5 DEF ScheduleTypes, OnlyOwnSchedule, schedVars
  <1> QED BY <1>3, <1>4, <1>5 DEF FireTx

(* What the transaction of an evaluation may leave behind.                 *)
SenseTx(p) ==
    /\ pc[p] = "sensing"
    /\ EvaluatedRow(p) \/ UNCHANGED <<sensorVars, owner>>

LEMMA SenseTxTypes ==
    ASSUME TypeInv, LocksHold, NEW p \in Procs, SenseTx(p)
    PROVE  /\ SensorTypes' /\ OnlyOwnSensor(p)
           /\ owner' \in [Slots -> Schedules \cup Sensors \cup Backfills \cup {Nobody}]
  <1>1. sel[p] \in Sensors /\ txn[p] \in Nat
    BY DEF SenseTx, LocksHold, TypeInv, ProcTypes
  <1>2. SensorTypes /\ owner \in [Slots -> Schedules \cup Sensors \cup Backfills \cup {Nobody}]
    BY DEF TypeInv, RunTypes
  <1>3. CASE UNCHANGED <<sensorVars, owner>>
    BY <1>2, <1>3 DEF SensorTypes, OnlyOwnSensor, sensorVars
  <1>4. CASE OrphanRow(p)
    BY <1>1, <1>2, <1>4 DEF OrphanRow, SensorTypes, OnlyOwnSensor
  <1>5. CASE QuietRow(p)
    BY <1>1, <1>2, <1>5 DEF QuietRow, EvaluatedOk, SensorTypes, OnlyOwnSensor, Times
  <1>6. CASE ErrorRow(p)
    <2>1. disabled' \subseteq disabled \cup {sel[p]}
      BY <1>6 DEF ErrorRow
    <2>2. failures' \in [Sensors -> Nat] /\ streak' \in [Sensors -> Nat]
      BY <1>1, <1>2, <1>6 DEF ErrorRow, SensorTypes
    <2>3. lastEval' \in [Sensors -> Times]
      BY <1>1, <1>2, <1>6 DEF ErrorRow, SensorTypes, Times
    <2>4. UNCHANGED <<seen, lastKey, coolUntil, sensed, owner>>
      BY <1>6 DEF ErrorRow
    <2> QED BY <1>1, <1>2, <2>1, <2>2, <2>3, <2>4 DEF SensorTypes, OnlyOwnSensor
  <1>7. ASSUME NEW k \in Keys, SensorRow(p, k)
        PROVE  /\ SensorTypes' /\ OnlyOwnSensor(p)
               /\ owner' \in [Slots -> Schedules \cup Sensors \cup Backfills \cup {Nobody}]
    <2>1. Clock(p) + Cooldown[sel[p]] \in Int
      <3>1. Clock(p) \in 0 .. Horizon - 1 /\ Cooldown[sel[p]] \in Nat /\ Horizon \in Nat
        BY <1>1, ClockType, TriggersAssumption DEF TypeInv
      <3> QED BY <3>1
    <2>2. [key |-> k, at |-> now, by |-> p] \in Enqueued
      BY TriggersAssumption DEF Enqueued, TypeInv
    <2>3. sensed' \in [Sensors -> Seq(Enqueued)]
      <3>1. Append(sensed[sel[p]], [key |-> k, at |-> now, by |-> p]) \in Seq(Enqueued)
        BY <1>1, <1>2, <2>2 DEF SensorTypes
      <3> QED BY <1>1, <1>2, <1>7, <3>1 DEF SensorRow, SensorTypes
    <2>4. lastKey' \in [Sensors -> Keys] /\ coolUntil' \in [Sensors -> Int]
      BY <1>1, <1>2, <1>7, <2>1 DEF SensorRow, SensorTypes
    <2>5. /\ lastEval' \in [Sensors -> Times]
          /\ failures' \in [Sensors -> Nat] /\ streak' \in [Sensors -> Nat]
          /\ UNCHANGED <<seen, disabled>>
      BY <1>1, <1>2, <1>7 DEF SensorRow, EvaluatedOk, SensorTypes, Times
    <2>6. owner' \in [Slots -> Schedules \cup Sensors \cup Backfills \cup {Nobody}]
      BY <1>1, <1>2, <1>7 DEF SensorRow, InsertRun
    <2>7. OnlyOwnSensor(p)
      BY <1>1, <1>2, <1>7 DEF SensorRow, EvaluatedOk, SensorTypes, OnlyOwnSensor
    <2> QED BY <1>2, <2>3, <2>4, <2>5, <2>6, <2>7 DEF SensorTypes
  <1> QED BY <1>3, <1>4, <1>5, <1>6, <1>7 DEF SenseTx, EvaluatedRow, Keys

(* The startup of a process: a row that is locked is not written.          *)
Upserts(p) ==
    \E S \in SUBSET Registered(p), X \in SUBSET (Known[p] \cap Sensors) : Upsert(p, S, X)

LEMMA BootsUpsert ==
    ASSUME NEW p \in Procs, Boot(p) \/ BootAborted(p)
    PROVE  Upserts(p)
  BY DEF Boot, BootAborted, Upserts

LEMMA UpsertKeeps ==
    ASSUME IInv, NEW p \in Procs, Upserts(p), Goto(p, "fire"),
           pc[p] = "boot", UNCHANGED <<clk, txn, sel, row>>
    PROVE  /\ ScheduleTypes' /\ SensorTypes' /\ ProcTypes'
           /\ LocksHold' /\ ReadHolds'
  <1> USE DEF IInv, TypeInv
  <1>1. PICK S \in SUBSET Registered(p), X \in SUBSET (Known[p] \cap Sensors) : Upsert(p, S, X)
    BY DEF Upserts
  <1>2. CronOf[p] \in [Schedules -> Crontabs]
    BY TriggersAssumption DEF Crontabs
  <1>3. \A s \in Registered(p) : NextWindow(CronOf[p][s], Clock(p)) \in Times \cup {ZeroTime}
    <2> TAKE s \in Registered(p)
    <2>1. CronOf[p][s] \in SUBSET (0 .. Horizon - 1)
      BY <1>2 DEF Registered, Crontabs
    <2>2. Clock(p) \in Int /\ Horizon \in Nat
      BY ClockType, TriggersAssumption
    <2>3. CASE CronOf[p][s] = {}
      BY <2>3 DEF NextWindow
    <2>4. CASE CronOf[p][s] # {}
      <3>1. NextWindow(CronOf[p][s], Clock(p)) \in 0 .. Horizon
        BY <2>1, <2>2, <2>4, NextWindowIsNext
      <3> HIDE DEF Times
      <3>2. 0 .. Horizon \subseteq Times
        BY <2>2 DEF Times
      <3> QED BY <3>1, <3>2
    <2> QED BY <2>3, <2>4
  <1>4. /\ cron' \in [Schedules -> Crontabs] /\ due' \in [Schedules -> Times \cup {ZeroTime}]
        /\ \A s \in Schedules : due'[s] # NoTime => cron'[s] # NoCron
    <2>1. cron' \in [Schedules -> Crontabs]
      BY <1>1, <1>2 DEF Upsert, ScheduleTypes
    <2>2. due' \in [Schedules -> Times \cup {ZeroTime}]
      BY <1>1, <1>3 DEF Upsert, ScheduleTypes
    <2>3. \A s \in Schedules : due'[s] # NoTime => cron'[s] # NoCron
      BY <1>1 DEF Upsert, ScheduleTypes, Registered
    <2> QED BY <2>1, <2>2, <2>3
  <1>5. ScheduleTypes' /\ SensorTypes'
    BY <1>1, <1>2, <1>4 DEF Upsert, ScheduleTypes, SensorTypes
  <1>6. pc'[p] = "fire" /\ \A q \in Procs : q # p => pc'[q] = pc[q]
    BY DEF Goto, ProcTypes
  <1>7. ProcTypes' /\ LocksHold'
    <2>1. ProcTypes'
      BY DEF Goto, ProcTypes, Labels
    <2> QED BY <1>6, <2>1 DEF LocksHold
  <1>8. \A s \in Schedules \cap Locked : cron'[s] = cron[s] /\ due'[s] = due[s]
    BY <1>1 DEF Upsert, ScheduleTypes
  <1>9. ASSUME NEW q \in Procs, q # p
        PROVE  /\ pc'[q] = "firing" => FireRead(q)'
               /\ pc'[q] = "sensing" => SenseRead(q)'
    <2>1. UNCHANGED <<last, lastKey, coolUntil, disabled, clk, sel, row>>
      BY <1>1 DEF Upsert
    <2>2. pc[q] = "firing" => /\ cron'[sel[q]] = cron[sel[q]] /\ due'[sel[q]] = due[sel[q]]
                              /\ FireRead(q)
      BY <1>8 DEF LocksHold, Locked, ReadHolds
    <2>3. pc[q] = "sensing" => SenseRead(q)
      BY DEF ReadHolds
    <2> QED BY <1>6, <1>9, <2>1, <2>2, <2>3 DEF FireRead, SenseRead
  <1> QED BY <1>5, <1>6, <1>7, <1>9 DEF ReadHolds

(* A SELECT ... FOR UPDATE SKIP LOCKED locks a row that nobody has.        *)
LEMMA BeginTxKeeps ==
    ASSUME ProcTypes, LocksHold, now \in StartTime .. MaxTime,
           NEW p \in Procs, NEW id, NEW what \in Rows,
           NEW label \in {"firing", "walk", "sensing"}, BeginTx(p, id, what, label),
           id \in (IF label = "sensing" THEN Sensors ELSE Schedules) \ Locked
    PROVE  ProcTypes' /\ LocksHold'
  <1>1. label \in Labels /\ now \in Nat
    BY TriggersAssumption DEF Labels
  <1>2. id \in Schedules \cup Sensors /\ \A q \in Procs : id # sel[q]
    BY DEF Locked
  <1>3. ProcTypes'
    BY <1>1, <1>2 DEF ProcTypes, BeginTx, Goto
  <1>4. sel'[p] = id /\ pc'[p] = label
    BY DEF BeginTx, Goto, ProcTypes
  <1>5. \A q \in Procs : q # p => sel'[q] = sel[q] /\ pc'[q] = pc[q]
    BY DEF BeginTx, Goto, ProcTypes
  <1> QED BY <1>2, <1>3, <1>4, <1>5 DEF LocksHold

LEMMA SelectScheduleKeeps ==
    ASSUME IInv, NEW p \in Procs, SelectSchedule(p)
    PROVE  ProcTypes' /\ LocksHold' /\ ReadHolds'
  <1> USE DEF IInv, TypeInv
  <1>1. UNCHANGED <<schedVars, sensorVars>>
    BY DEF SelectSchedule
  <1>2. CASE EndTx(p, "sense")
    <2>1. OnlyOwnSchedule(p) /\ OnlyOwnSensor(p)
      BY <1>1 DEF OnlyOwnSchedule, OnlyOwnSensor, schedVars, sensorVars
    <2>2. "sense" \in Unlocking
      BY DEF Unlocking
    <2> QED BY <1>2, <2>1, <2>2, EndTxKeeps, EndTxKeepsReads
  <1>3. ASSUME NEW s \in DueSchedules(clk[p]) \ Locked, cron[s] # {},
               BeginTx(p, s, ScheduleRow(WindowToFire(cron[s], last[s], clk[p]),
                                         Skipped(cron[s], last[s], clk[p])), "firing")
        PROVE  ProcTypes' /\ LocksHold' /\ ReadHolds'
    <2> DEFINE w == WindowToFire(cron[s], last[s], clk[p])
               m == Skipped(cron[s], last[s], clk[p])
    <2>1. s \in Schedules /\ due[s] # NoTime /\ due[s] <= clk[p]
      BY DEF DueSchedules
    <2>2. /\ cron[s] \in SUBSET (0 .. Horizon - 1) /\ last[s] \in Nat \cup {NoTime}
          /\ clk[p] \in 0 .. Horizon - 1 /\ Horizon \in Nat
      BY <2>1, TriggersAssumption DEF ScheduleTypes, ProcTypes, Times, Crontabs
    <2>3. w \in 0 .. Horizon /\ m \subseteq {u \in cron[s] : last[s] < u /\ u <= clk[p]}
      BY <1>3, <2>2, WindowToFireIsLatest
    <2>4. w \in Nat /\ m \in SUBSET Nat
      BY <2>2, <2>3
    <2>5. /\ ScheduleRow(w, m) \in Rows
          /\ ScheduleRow(w, m).win = w /\ ScheduleRow(w, m).skip = m
      <3> HIDE DEF w, m
      <3>1. NoRow \in Rows
        BY DEF NoRow, Rows, Keys, NoTime
      <3> QED BY <2>4, <3>1 DEF ScheduleRow, Rows, NoRow
    <2>6. ProcTypes' /\ LocksHold'
      <3> HIDE DEF w, m
      <3>1. BeginTx(p, s, ScheduleRow(w, m), "firing")
        BY <1>3 DEF w, m
      <3>2. s \in (IF "firing" = "sensing" THEN Sensors ELSE Schedules) \ Locked
        BY <2>1
      <3> QED BY <2>5, <3>1, <3>2, BeginTxKeeps
    <2>7. /\ pc'[p] = "firing" /\ sel'[p] = s /\ row'[p] = ScheduleRow(w, m)
          /\ clk' = clk
      BY <1>3 DEF BeginTx, Goto, ProcTypes
    <2>8. \A q \in Procs : q # p => pc'[q] = pc[q] /\ sel'[q] = sel[q] /\ row'[q] = row[q]
      BY <1>3 DEF BeginTx, Goto, ProcTypes
    <2>9. FireRead(p)'
      BY <1>1, <1>3, <2>1, <2>5, <2>7 DEF FireRead, schedVars
    <2>10. \A q \in Procs : q # p => /\ pc'[q] = "firing" => FireRead(q)'
                                     /\ pc'[q] = "sensing" => SenseRead(q)'
      BY <1>1, <2>7, <2>8 DEF ReadHolds, FireRead, SenseRead, schedVars, sensorVars
    <2> QED BY <2>6, <2>7, <2>9, <2>10 DEF ReadHolds
  <1>4. ASSUME NEW s \in DueSchedules(clk[p]) \ Locked, BeginTx(p, s, NoRow, "walk")
        PROVE  ProcTypes' /\ LocksHold' /\ ReadHolds'
    <2>1. s \in (IF "walk" = "sensing" THEN Sensors ELSE Schedules) \ Locked
      BY DEF DueSchedules
    <2>2. NoRow \in Rows
      BY DEF NoRow, Rows, Keys, NoTime
    <2>3. ProcTypes' /\ LocksHold'
      BY <1>4, <2>1, <2>2, BeginTxKeeps
    <2>4. pc'[p] = "walk" /\ clk' = clk
      BY <1>4 DEF BeginTx, Goto, ProcTypes
    <2>5. \A q \in Procs : q # p => pc'[q] = pc[q] /\ sel'[q] = sel[q] /\ row'[q] = row[q]
      BY <1>4 DEF BeginTx, Goto, ProcTypes
    <2>6. \A q \in Procs : q # p => /\ pc'[q] = "firing" => FireRead(q)'
                                    /\ pc'[q] = "sensing" => SenseRead(q)'
      BY <1>1, <2>4, <2>5 DEF ReadHolds, FireRead, SenseRead, schedVars, sensorVars
    <2> QED BY <2>3, <2>4, <2>6 DEF ReadHolds
  <1> QED BY <1>2, <1>3, <1>4 DEF SelectSchedule, LockedRows

LEMMA SelectSensorKeeps ==
    ASSUME IInv, NEW p \in Procs, SelectSensor(p)
    PROVE  ProcTypes' /\ LocksHold' /\ ReadHolds'
  <1> USE DEF IInv, TypeInv
  <1>1. UNCHANGED <<schedVars, sensorVars>>
    BY DEF SelectSensor
  <1>2. CASE EndTx(p, "fire")
    <2>1. OnlyOwnSchedule(p) /\ OnlyOwnSensor(p)
      BY <1>1 DEF OnlyOwnSchedule, OnlyOwnSensor, schedVars, sensorVars
    <2>2. "fire" \in Unlocking
      BY DEF Unlocking
    <2> QED BY <1>2, <2>1, <2>2, EndTxKeeps, EndTxKeepsReads
  <1>3. ASSUME NEW x \in DueSensors(now) \ Locked,
               BeginTx(p, x, SensorRead(lastKey[x], coolUntil[x]), "sensing")
        PROVE  ProcTypes' /\ LocksHold' /\ ReadHolds'
    <2>1. x \in Sensors /\ x \notin disabled
      BY DEF DueSensors, SensorTypes
    <2>2. lastKey[x] \in Keys /\ coolUntil[x] \in Int
      BY <2>1 DEF SensorTypes
    <2>3. /\ SensorRead(lastKey[x], coolUntil[x]) \in Rows
          /\ SensorRead(lastKey[x], coolUntil[x]).key = lastKey[x]
          /\ SensorRead(lastKey[x], coolUntil[x]).cool = coolUntil[x]
      BY <2>2 DEF SensorRead, Rows, NoRow
    <2>4. ProcTypes' /\ LocksHold'
      <3>1. x \in (IF "sensing" = "sensing" THEN Sensors ELSE Schedules) \ Locked
        BY <2>1
      <3> QED BY <1>3, <2>3, <3>1, BeginTxKeeps
    <2>5. /\ pc'[p] = "sensing" /\ sel'[p] = x /\ clk' = clk
          /\ row'[p] = SensorRead(lastKey[x], coolUntil[x])
      BY <1>3 DEF BeginTx, Goto, ProcTypes
    <2>6. \A q \in Procs : q # p => pc'[q] = pc[q] /\ sel'[q] = sel[q] /\ row'[q] = row[q]
      BY <1>3 DEF BeginTx, Goto, ProcTypes
    <2>7. SenseRead(p)'
      BY <1>1, <2>1, <2>3, <2>5 DEF SenseRead, sensorVars
    <2>8. \A q \in Procs : q # p => /\ pc'[q] = "firing" => FireRead(q)'
                                    /\ pc'[q] = "sensing" => SenseRead(q)'
      BY <1>1, <2>5, <2>6 DEF ReadHolds, FireRead, SenseRead, schedVars, sensorVars
    <2> QED BY <2>4, <2>5, <2>7, <2>8 DEF ReadHolds
  <1> QED BY <1>2, <1>3 DEF SelectSensor, LockedRows

(* The transactions that end: they keep the invariant.                     *)
LEMMA FireTxKeeps ==
    ASSUME IInv, NEW p \in Procs, NEW label \in Unlocking, FireTx(p),
           EndTx(p, label), UNCHANGED <<now, sensorVars, total, crashes>>,
           dbFaults' \in Nat
    PROVE  IInv'
  <1> USE DEF IInv
  <1>1. /\ ScheduleTypes' /\ OnlyOwnSchedule(p)
        /\ owner' \in [Slots -> Schedules \cup Sensors \cup Backfills \cup {Nobody}]
    BY FireTxTypes
  <1>2. SensorTypes' /\ OnlyOwnSensor(p)
    BY DEF TypeInv, SensorTypes, OnlyOwnSensor, sensorVars
  <1>3. RunTypes'
    BY <1>1 DEF TypeInv, RunTypes
  <1>4. ProcTypes' /\ LocksHold' /\ ReadHolds'
    BY <1>1, <1>2, EndTxKeeps, EndTxKeepsReads DEF TypeInv
  <1> QED BY <1>1, <1>2, <1>3, <1>4 DEF TypeInv

LEMMA SenseTxKeeps ==
    ASSUME IInv, NEW p \in Procs, NEW label \in Unlocking, SenseTx(p),
           EndTx(p, label), UNCHANGED <<now, schedVars, total, crashes>>,
           dbFaults' \in Nat
    PROVE  IInv'
  <1> USE DEF IInv
  <1>1. /\ SensorTypes' /\ OnlyOwnSensor(p)
        /\ owner' \in [Slots -> Schedules \cup Sensors \cup Backfills \cup {Nobody}]
    BY SenseTxTypes
  <1>2. ScheduleTypes' /\ OnlyOwnSchedule(p)
    BY DEF TypeInv, ScheduleTypes, OnlyOwnSchedule, schedVars
  <1>3. RunTypes'
    BY <1>1 DEF TypeInv, RunTypes
  <1>4. ProcTypes' /\ LocksHold' /\ ReadHolds'
    BY <1>1, <1>2, EndTxKeeps, EndTxKeepsReads DEF TypeInv
  <1> QED BY <1>1, <1>2, <1>3, <1>4 DEF TypeInv

(* Each action as one of these transactions.                               *)
LEMMA FireSteps ==
    ASSUME TypeInv, NEW p \in Procs,
           Fire(p) \/ RollForward(p) \/ FireConflict(p) \/ FireFault(p)
    PROVE  /\ FireTx(p) /\ UNCHANGED <<now, sensorVars, total, crashes>>
           /\ dbFaults' \in Nat
           /\ \E label \in Unlocking : EndTx(p, label)
  <1> USE DEF FireTx, boundVars, schedVars, TypeInv, RunTypes
  <1>1. "fire" \in Unlocking /\ "sense" \in Unlocking
    BY DEF Unlocking
  <1>2. CASE Fire(p)
    BY <1>1, <1>2 DEF Fire, Fires, Counts
  <1>3. CASE RollForward(p)
    BY <1>1, <1>3 DEF RollForward
  <1>4. CASE FireConflict(p)
    BY <1>1, <1>4 DEF FireConflict
  <1>5. CASE FireFault(p)
    BY <1>1, <1>5 DEF FireFault, DbFault, Fires
  <1> QED BY <1>2, <1>3, <1>4, <1>5

LEMMA SenseSteps ==
    ASSUME TypeInv, NEW p \in Procs,
           Evaluate(p) \/ SensorConflict(p) \/ SensorFault(p)
    PROVE  /\ SenseTx(p) /\ UNCHANGED <<now, schedVars, total, crashes>>
           /\ dbFaults' \in Nat
           /\ \E label \in Unlocking : EndTx(p, label)
  <1> USE DEF SenseTx, boundVars, TypeInv, RunTypes
  <1>1. "fire" \in Unlocking /\ "sense" \in Unlocking
    BY DEF Unlocking
  <1>2. CASE Evaluate(p)
    BY <1>1, <1>2 DEF Evaluate
  <1>3. CASE SensorConflict(p)
    BY <1>1, <1>3 DEF SensorConflict
  <1>4. CASE SensorFault(p)
    BY <1>1, <1>4 DEF SensorFault, DbFault
  <1> QED BY <1>2, <1>3, <1>4

(* Every step.                                                             *)
LEMMA NextKeeps == IInv /\ [Next]_vars => IInv'
  <1> SUFFICES ASSUME IInv, [Next]_vars PROVE IInv'
    OBVIOUS
  <1> USE DEF IInv
  <1>1. ASSUME NEW p \in Procs, Boot(p) \/ BootAborted(p) PROVE IInv'
    <2>1. /\ UNCHANGED <<now, owner, total, crashes, clk, txn, sel, row>>
          /\ Goto(p, "fire") /\ pc[p] = "boot" /\ dbFaults' \in Nat
      BY <1>1 DEF Boot, BootAborted, DbFault, boundVars, TypeInv, RunTypes
    <2>2. ScheduleTypes' /\ SensorTypes' /\ ProcTypes' /\ LocksHold' /\ ReadHolds'
      BY <1>1, <2>1, BootsUpsert, UpsertKeeps
    <2> QED BY <2>1, <2>2 DEF TypeInv, RunTypes
  <1>2. ASSUME NEW p \in Procs, ReadClock(p) PROVE IInv'
    <2>1. /\ UNCHANGED <<now, schedVars, sensorVars, owner, total, boundVars, txn, sel, row>>
          /\ pc[p] = "fire" /\ pc' = [pc EXCEPT ![p] = "select"]
          /\ clk' = [clk EXCEPT ![p] = Clock(p)]
      BY <1>2 DEF ReadClock, Goto
    <2>2. TypeInv'
      <3>1. ProcTypes'
        BY <2>1, ClockType DEF TypeInv, ProcTypes, Labels
      <3> QED BY <2>1, <3>1 DEF TypeInv, ScheduleTypes, SensorTypes, RunTypes,
                                schedVars, sensorVars, boundVars
    <2>3. LocksHold'
      BY <2>1 DEF LocksHold, TypeInv, ProcTypes
    <2>4. ReadHolds'
      BY <2>1 DEF ReadHolds, FireRead, SenseRead, TypeInv, ProcTypes, schedVars, sensorVars
    <2> QED BY <2>2, <2>3, <2>4
  <1>3. ASSUME NEW p \in Procs, SelectSchedule(p) \/ SelectSensor(p) PROVE IInv'
    <2>1. ProcTypes' /\ LocksHold' /\ ReadHolds'
      BY <1>3, SelectScheduleKeeps, SelectSensorKeeps
    <2>2. UNCHANGED <<now, schedVars, sensorVars, owner, total, boundVars>>
      BY <1>3 DEF SelectSchedule, SelectSensor
    <2> QED BY <2>1, <2>2 DEF TypeInv, ScheduleTypes, SensorTypes, RunTypes,
                              schedVars, sensorVars, boundVars
  <1>4. ASSUME NEW p \in Procs,
               Fire(p) \/ RollForward(p) \/ FireConflict(p) \/ FireFault(p)
        PROVE  IInv'
    BY <1>4, FireSteps, FireTxKeeps
  <1>5. ASSUME NEW p \in Procs, Evaluate(p) \/ SensorConflict(p) \/ SensorFault(p)
        PROVE  IInv'
    BY <1>5, SenseSteps, SenseTxKeeps
  <1>6. ASSUME NEW p \in Procs, Crash(p) PROVE IInv'
    <2>1. /\ UNCHANGED <<now, schedVars, sensorVars, owner, total, dbFaults>>
          /\ EndTx(p, "boot") /\ "boot" \in Unlocking /\ crashes' \in Nat
      BY <1>6 DEF Crash, Unlocking, TypeInv, RunTypes
    <2>2. OnlyOwnSchedule(p) /\ OnlyOwnSensor(p)
      BY <2>1 DEF OnlyOwnSchedule, OnlyOwnSensor, schedVars, sensorVars
    <2>3. ProcTypes' /\ LocksHold' /\ ReadHolds'
      BY <2>1, <2>2, EndTxKeeps, EndTxKeepsReads DEF TypeInv
    <2> QED BY <2>1, <2>3 DEF TypeInv, ScheduleTypes, SensorTypes, RunTypes,
                              schedVars, sensorVars
  <1>7. ASSUME UNCHANGED <<now, schedVars, sensorVars, procVars, boundVars>>,
               owner' \in [Slots -> Schedules \cup Sensors \cup Backfills \cup {Nobody}],
               total' \in [Backfills -> Nat]
        PROVE  IInv'
    BY <1>7 DEF TypeInv, ScheduleTypes, SensorTypes, ProcTypes, RunTypes, LocksHold,
                ReadHolds, FireRead, SenseRead, schedVars, sensorVars, procVars, boundVars
  <1>8. ASSUME NEW b \in Backfills, Submit(b) PROVE IInv'
    <2>1. PICK spec \in Specs :
            LET free == {spec[i] : i \in DOMAIN spec} \cap {k \in Slots : Vacant(k)}
            IN /\ total' = [total EXCEPT ![b] = Len(spec)]
               /\ owner' = [k \in Slots |-> IF k \in free THEN b ELSE owner[k]]
      BY <1>8 DEF Submit
    <2>2. spec \in Seq(Slots)
      BY TriggersAssumption
    <2>3. /\ owner' \in [Slots -> Schedules \cup Sensors \cup Backfills \cup {Nobody}]
          /\ total' \in [Backfills -> Nat]
      BY <2>1, <2>2 DEF TypeInv, RunTypes
    <2> QED BY <1>7, <1>8, <2>3 DEF Submit
  <1>9. ASSUME NEW k \in Slots, Settle(k) PROVE IInv'
    <2>1. /\ owner' \in [Slots -> Schedules \cup Sensors \cup Backfills \cup {Nobody}]
          /\ total' \in [Backfills -> Nat]
      BY <1>9 DEF Settle, TypeInv, RunTypes
    <2> QED BY <1>7, <1>9, <2>1 DEF Settle
  <1>10. ASSUME UNCHANGED vars PROVE IInv'
    <2>1. /\ owner' \in [Slots -> Schedules \cup Sensors \cup Backfills \cup {Nobody}]
          /\ total' \in [Backfills -> Nat]
      BY <1>10 DEF vars, TypeInv, RunTypes
    <2> QED BY <1>7, <1>10, <2>1 DEF vars
  <1>11. ASSUME Tick PROVE IInv'
    <2>1. now' \in StartTime .. MaxTime
      BY <1>11, TriggersAssumption DEF Tick, TypeInv
    <2> QED BY <1>11, <2>1 DEF Tick, TypeInv, ScheduleTypes, SensorTypes, ProcTypes,
              RunTypes, LocksHold, ReadHolds, FireRead, SenseRead, schedVars,
              sensorVars, procVars, boundVars
  <1> QED BY <1>1, <1>2, <1>3, <1>4, <1>5, <1>6, <1>8, <1>9, <1>10, <1>11
          DEF Next, Step

(* The state is well typed, a row that a scheduler process has locked      *)
(* belongs to it alone, and what it has read of the row stays true until   *)
(* its transaction ends, whatever the other processes do meanwhile.        *)
THEOREM TriggersInvariant == Spec => []IInv
  <1> QED BY InitIInv, NextKeeps, PTL DEF Spec

-----------------------------------------------------------------------------
(* What a step is for the schedules.                                       *)

(* No schedule fires, and no transaction that fires one begins; and the    *)
(* schedules are not upserted either.                                      *)
NothingFires ==
    /\ UNCHANGED <<last, fired, twice, reported, early>> /\ now <= now'
    /\ \A q \in Procs :
         /\ clk'[q] \in {clk[q], 0}
         /\ pc'[q] = "firing" => /\ pc[q] = "firing" /\ clk'[q] = clk[q]
                                 /\ txn'[q] = txn[q] /\ sel'[q] = sel[q]

QuietForSchedules == NothingFires /\ UNCHANGED <<cron, due>>

FireStep(p) == /\ FireTx(p) /\ \E label \in Unlocking : EndTx(p, label)
               /\ UNCHANGED now

UpsertStep(p) == Upserts(p) /\ NothingFires

SelectStep(p) ==
    /\ UNCHANGED <<now, schedVars>>
    /\ \E s \in Schedules : \E what : BeginTx(p, s, what, "firing")

(* A transaction that ends leaves the others as they are.                  *)
LEMMA EndTxIsQuiet ==
    ASSUME IInv, NEW p \in Procs, NEW label \in Unlocking, EndTx(p, label)
    PROVE  \A q \in Procs :
             /\ clk'[q] \in {clk[q], 0}
             /\ pc'[q] = "firing" => /\ pc[q] = "firing" /\ clk'[q] = clk[q]
                                     /\ txn'[q] = txn[q] /\ sel'[q] = sel[q]
  <1>1. label # "firing"
    BY DEF Unlocking
  <1> QED BY <1>1 DEF IInv, TypeInv, ProcTypes, EndTx, Goto

LEMMA ScheduleSteps ==
    ASSUME IInv, [Next]_vars
    PROVE  \/ QuietForSchedules
           \/ \E p \in Procs : FireStep(p) \/ UpsertStep(p) \/ ReadClock(p) \/ SelectStep(p)
  <1> USE DEF IInv
  <1>1. now \in Int
    BY TriggersAssumption DEF TypeInv
  <1>2. "fire" \in Unlocking /\ "sense" \in Unlocking /\ "boot" \in Unlocking
    BY DEF Unlocking
  <1>3. ASSUME NEW p \in Procs, Boot(p) \/ BootAborted(p) PROVE UpsertStep(p)
    <2>1. Upserts(p) /\ Goto(p, "fire") /\ UNCHANGED <<now, clk, txn, sel>>
      BY <1>3, BootsUpsert DEF Boot, BootAborted
    <2>2. UNCHANGED <<last, fired, twice, reported, early>>
      BY <2>1 DEF Upserts, Upsert
    <2>3. \A q \in Procs : pc'[q] = "firing" => pc[q] = "firing"
      BY <2>1 DEF Goto, TypeInv, ProcTypes
    <2> QED BY <1>1, <2>1, <2>2, <2>3 DEF UpsertStep, NothingFires
  <1>4. ASSUME NEW p \in Procs, SelectSchedule(p) PROVE QuietForSchedules \/ SelectStep(p)
    <2>1. CASE EndTx(p, "sense")
      BY <1>1, <1>2, <1>4, <2>1, EndTxIsQuiet DEF SelectSchedule, QuietForSchedules, NothingFires, schedVars
    <2>2. ASSUME NEW s \in DueSchedules(clk[p]), NEW what, BeginTx(p, s, what, "firing")
          PROVE  SelectStep(p)
      <3>1. s \in Schedules /\ UNCHANGED <<now, schedVars>>
        BY <1>4 DEF SelectSchedule, DueSchedules
      <3> QED BY <2>2, <3>1 DEF SelectStep
    <2>3. ASSUME NEW s, NEW what, BeginTx(p, s, what, "walk") PROVE QuietForSchedules
      <3>1. pc'[p] = "walk" /\ clk' = clk
        BY <2>3 DEF BeginTx, Goto, TypeInv, ProcTypes
      <3>2. \A q \in Procs : q # p =>
              pc'[q] = pc[q] /\ sel'[q] = sel[q] /\ txn'[q] = txn[q]
        BY <2>3 DEF BeginTx, Goto, TypeInv, ProcTypes
      <3> QED BY <1>1, <1>4, <3>1, <3>2
              DEF SelectSchedule, QuietForSchedules, NothingFires, schedVars
    <2> QED BY <1>4, <2>1, <2>2, <2>3 DEF SelectSchedule
  <1>5. ASSUME NEW p \in Procs, SelectSensor(p) PROVE QuietForSchedules
    <2>1. CASE EndTx(p, "fire")
      BY <1>1, <1>2, <1>5, <2>1, EndTxIsQuiet DEF SelectSensor, QuietForSchedules, NothingFires, schedVars
    <2>2. CASE ~ EndTx(p, "fire")
      <3>1. PICK x, what : BeginTx(p, x, what, "sensing")
        BY <1>5, <2>2 DEF SelectSensor
      <3>2. pc'[p] = "sensing" /\ clk' = clk
        BY <3>1 DEF BeginTx, Goto, TypeInv, ProcTypes
      <3>3. \A q \in Procs : q # p =>
              pc'[q] = pc[q] /\ sel'[q] = sel[q] /\ txn'[q] = txn[q]
        BY <3>1 DEF BeginTx, Goto, TypeInv, ProcTypes
      <3> QED BY <1>1, <1>5, <3>2, <3>3 DEF SelectSensor, QuietForSchedules, NothingFires, schedVars
    <2> QED BY <2>1, <2>2
  <1>6. ASSUME NEW p \in Procs,
               Fire(p) \/ RollForward(p) \/ FireConflict(p) \/ FireFault(p)
        PROVE  FireStep(p)
    BY <1>6, FireSteps DEF FireStep
  <1>7. ASSUME NEW p \in Procs,
               Evaluate(p) \/ SensorConflict(p) \/ SensorFault(p)
        PROVE  QuietForSchedules
    <2>1. /\ UNCHANGED <<now, schedVars>>
          /\ \E label \in Unlocking : EndTx(p, label)
      BY <1>7, SenseSteps
    <2> QED BY <1>1, <2>1, EndTxIsQuiet DEF QuietForSchedules, NothingFires, schedVars
  <1>8. ASSUME NEW p \in Procs, Crash(p) PROVE QuietForSchedules
    BY <1>1, <1>2, <1>8, EndTxIsQuiet DEF Crash, QuietForSchedules, NothingFires, schedVars
  <1>9. ASSUME \/ Tick \/ UNCHANGED vars
               \/ \E b \in Backfills : Submit(b)
               \/ \E k \in Slots : Settle(k)
        PROVE  QuietForSchedules
    <2>1. UNCHANGED schedVars /\ UNCHANGED procVars /\ now <= now'
      BY <1>1, <1>9 DEF Tick, vars, Submit, Settle
    <2> QED BY <2>1 DEF QuietForSchedules, NothingFires, procVars, schedVars
  <1> QED BY <1>3, <1>4, <1>5, <1>6, <1>7, <1>8, <1>9 DEF Next, Step

-----------------------------------------------------------------------------
(* A window that is not handled early fires once, and is not reported      *)
(* missed if it was fired.                                                 *)

(* What was fired or reported is not later than the last fire, or it was   *)
(* handled early; what will be fired is later: last_fire_at is the time of *)
(* the BEGIN of a transaction that had the row locked.                     *)
PastInv ==
    /\ \A s \in Schedules :
         /\ last[s] <= now
         /\ twice[s] \subseteq early[s]
         /\ reported[s] \cap fired[s] \subseteq early[s]
         /\ \A w \in fired[s] \cup reported[s] : w <= last[s] \/ w \in early[s]
    /\ \A p \in Procs : pc[p] = "firing" => txn[p] <= now /\ last[sel[p]] <= txn[p]

LEMMA InitPast == Init => PastInv
  <1>1. StartTime \in Nat
    BY TriggersAssumption
  <1> QED BY <1>1 DEF Init, PastInv, NoTime

LEMMA QuietKeepsPast ==
    ASSUME IInv, PastInv, NothingFires, now' \in StartTime .. MaxTime
    PROVE  PastInv'
  <1> USE DEF PastInv
  <1>1. now \in Nat /\ now' \in Nat /\ now <= now'
    BY TriggersAssumption DEF NothingFires, IInv, TypeInv
  <1>2. \A s \in Schedules : last'[s] <= now'
    <2> TAKE s \in Schedules
    <2>1. last[s] \in Int
      BY DEF IInv, TypeInv, ScheduleTypes, Times, NoTime
    <2> QED BY <1>1, <2>1 DEF NothingFires
  <1>3. ASSUME NEW p \in Procs, pc'[p] = "firing"
        PROVE  txn'[p] <= now' /\ last'[sel'[p]] <= txn'[p]
    <2>1. /\ pc[p] = "firing" /\ txn'[p] = txn[p] /\ sel'[p] = sel[p] /\ last' = last
          /\ txn[p] \in Int
      BY <1>3 DEF NothingFires, IInv, TypeInv, ProcTypes
    <2> QED BY <1>1, <2>1
  <1> QED BY <1>2, <1>3 DEF NothingFires

LEMMA FireKeepsPast ==
    ASSUME IInv, PastInv, NEW p \in Procs, FireStep(p)
    PROVE  PastInv'
  <1> USE DEF PastInv
  <1>1. PICK s \in Schedules : s = sel[p]
    BY DEF FireStep, FireTx, IInv, LocksHold
  <1>2. PICK w : w = Window(p)
    OBVIOUS
  <1>3. /\ pc[p] = "firing" /\ FireRead(p) /\ w = WindowToFire(cron[s], last[s], clk[p])
        /\ row[p].skip = Skipped(cron[s], last[s], clk[p])
    BY <1>1, <1>2 DEF FireStep, FireTx, IInv, ReadHolds, FireRead, Window
  <1>4. /\ clk[p] \in 0 .. Horizon - 1 /\ txn[p] \in Nat /\ now \in Nat
        /\ last[s] \in Nat \cup {NoTime} /\ last[s] \in Int /\ Horizon \in Nat
        /\ cron[s] \in SUBSET (0 .. Horizon - 1) /\ cron[s] # {}
    BY <1>1, <1>3, TriggersAssumption
       DEF IInv, TypeInv, ScheduleTypes, ProcTypes, Times, NoTime, Crontabs, FireRead
  <1>5. txn[p] <= now /\ last[s] <= txn[p] /\ now' = now
    BY <1>1, <1>3 DEF FireStep
  <1>6. /\ w \in 0 .. Horizon
        /\ w <= clk[p] => w > last[s]
        /\ row[p].skip \subseteq {u \in cron[s] : last[s] < u /\ u <= clk[p]}
        /\ w \notin row[p].skip
    <2>1. /\ WindowToFire(cron[s], last[s], clk[p]) \in 0 .. Horizon
          /\ WindowToFire(cron[s], last[s], clk[p]) <= clk[p] =>
               WindowToFire(cron[s], last[s], clk[p]) > last[s]
          /\ Skipped(cron[s], last[s], clk[p]) \subseteq
               {u \in cron[s] : last[s] < u /\ u <= clk[p]}
          /\ WindowToFire(cron[s], last[s], clk[p]) \notin Skipped(cron[s], last[s], clk[p])
      BY <1>4, WindowToFireIsLatest
    <2> QED BY <1>3, <2>1
  <1>7. ASSUME NEW r \in Schedules, r # s
        PROVE  /\ last'[r] = last[r] /\ fired'[r] = fired[r] /\ twice'[r] = twice[r]
               /\ reported'[r] = reported[r] /\ early'[r] = early[r]
    BY <1>1, <1>7 DEF FireStep, FireTx, Fires, Counts, FireRow, RollForwardRow, schedVars,
                      IInv, TypeInv, ScheduleTypes
  <1>8. /\ last'[s] <= now
        /\ twice'[s] \subseteq early'[s]
        /\ reported'[s] \cap fired'[s] \subseteq early'[s]
        /\ \A v \in fired'[s] \cup reported'[s] : v <= last'[s] \/ v \in early'[s]
    <2>1. CASE Fires(p) /\ (Counts(p) \/ UNCHANGED reported)
      <3> DEFINE E == {v \in {w} \cup row[p].skip : v > txn[p]}
      <3>1. w <= clk[p] /\ w > last[s]
        BY <1>2, <1>6, <2>1 DEF Fires
      <3>2. /\ last'[s] = txn[p] /\ fired'[s] = fired[s] \cup {w}
            /\ twice'[s] = twice[s] \cup ({w} \cap fired[s])
            /\ early'[s] = early[s] \cup E
        BY <1>1, <1>2, <2>1 DEF Fires, FireRow, IInv, TypeInv, ScheduleTypes
      <3>3. reported'[s] \in {reported[s], reported[s] \cup row[p].skip}
        BY <1>1, <2>1 DEF Counts, IInv, TypeInv, ScheduleTypes
      <3>4. /\ fired[s] \in SUBSET Nat /\ reported[s] \in SUBSET Nat
            /\ \A v \in fired[s] \cup reported[s] : v <= last[s] \/ v \in early[s]
        BY DEF IInv, TypeInv, ScheduleTypes
      <3>5. \A v \in {w} \cup row[p].skip : v \in Nat /\ v > last[s]
        BY <1>4, <1>6, <3>1
      <3>6. \A v \in {w} \cup row[p].skip : v \in fired[s] \cup reported[s] => v \in early[s]
        BY <1>4, <3>4, <3>5
      <3>7. \A v \in {w} \cup row[p].skip : v <= txn[p] \/ v \in E
        BY <1>4, <3>5
      <3>8. \A v \in fired[s] \cup reported[s] : v <= txn[p] \/ v \in early[s]
        <4> TAKE v \in fired[s] \cup reported[s]
        <4>1. v \in Nat
          BY <3>4
        <4> QED BY <1>4, <1>5, <3>4, <4>1
      <3>9. \A v \in fired'[s] \cup reported'[s] : v <= last'[s] \/ v \in early'[s]
        <4> HIDE DEF E
        <4> QED BY <3>2, <3>3, <3>7, <3>8
      <3>10. twice'[s] \subseteq early'[s]
        <4> HIDE DEF E
        <4> QED BY <3>2, <3>6
      <3>11. reported'[s] \cap fired'[s] \subseteq early'[s]
        <4> HIDE DEF E
        <4> QED BY <1>6, <3>2, <3>3, <3>6
      <3> QED BY <1>4, <1>5, <3>2, <3>9, <3>10, <3>11
    <2>2. CASE UNCHANGED <<last, fired, twice, reported, early>>
      BY <1>4, <1>5, <2>2
    <2> QED BY <2>1, <2>2 DEF FireStep, FireTx, RollForwardRow, schedVars
  <1>9. ASSUME NEW q \in Procs, pc'[q] = "firing"
        PROVE  txn'[q] <= now' /\ last'[sel'[q]] <= txn'[q]
    <2>1. pc[q] = "firing" /\ txn'[q] = txn[q] /\ sel'[q] = sel[q]
      BY <1>9, EndTxIsQuiet DEF FireStep
    <2>2. q # p
      BY <1>9 DEF FireStep, EndTx, Goto, Unlocking, IInv, TypeInv, ProcTypes
    <2>3. sel[q] \in Schedules /\ sel[q] # s
      BY <1>1, <2>1, <2>2, TriggersAssumption DEF IInv, LocksHold
    <2> QED BY <1>5, <1>7, <2>1, <2>3
  <1> QED BY <1>5, <1>7, <1>8, <1>9

LEMMA SelectKeepsPast ==
    ASSUME IInv, PastInv, NEW p \in Procs, SelectStep(p)
    PROVE  PastInv'
  <1>1. PICK s \in Schedules : \E what : BeginTx(p, s, what, "firing")
    BY DEF SelectStep
  <1>2. /\ UNCHANGED <<now, last, fired, twice, reported, early>>
        /\ pc'[p] = "firing" /\ sel'[p] = s /\ txn'[p] = now
    BY <1>1 DEF SelectStep, BeginTx, Goto, schedVars, IInv, TypeInv, ProcTypes
  <1>3. \A q \in Procs : q # p => /\ pc'[q] = pc[q] /\ sel'[q] = sel[q]
                                  /\ txn'[q] = txn[q]
    BY <1>1 DEF BeginTx, Goto, IInv, TypeInv, ProcTypes
  <1>4. now \in Nat
    BY TriggersAssumption DEF IInv, TypeInv
  <1>5. \A q \in Procs : pc'[q] = "firing" => txn'[q] <= now' /\ last'[sel'[q]] <= txn'[q]
    <2> TAKE q \in Procs
    <2>1. CASE q = p
      BY <1>2, <1>4, <2>1 DEF PastInv
    <2>2. CASE q # p
      BY <1>2, <1>3, <2>2 DEF PastInv
    <2> QED BY <2>1, <2>2
  <1> QED BY <1>2, <1>5 DEF PastInv

LEMMA NextKeepsPast ==
    ASSUME IInv, IInv', PastInv, [Next]_vars
    PROVE  PastInv'
  <1>1. now' \in StartTime .. MaxTime
    BY DEF IInv, TypeInv
  <1>2. CASE QuietForSchedules
    BY <1>1, <1>2, QuietKeepsPast DEF QuietForSchedules
  <1>3. ASSUME NEW p \in Procs, UpsertStep(p) PROVE PastInv'
    BY <1>1, <1>3, QuietKeepsPast DEF UpsertStep
  <1>4. ASSUME NEW p \in Procs, ReadClock(p) PROVE PastInv'
    <2>1. UNCHANGED <<now, last, fired, twice, reported, early, txn, sel>>
      BY <1>4 DEF ReadClock, schedVars
    <2>2. \A q \in Procs : pc'[q] = "firing" => pc[q] = "firing"
      BY <1>4 DEF ReadClock, Goto, IInv, TypeInv, ProcTypes
    <2> QED BY <2>1, <2>2 DEF PastInv
  <1> QED BY <1>2, <1>3, <1>4, ScheduleSteps, FireKeepsPast, SelectKeepsPast

LEMMA PastInvariant == Spec => [](IInv /\ PastInv)
  <1>1. Init => IInv /\ PastInv
    BY InitIInv, InitPast
  <1>2. IInv /\ PastInv /\ [Next]_vars => (IInv /\ PastInv)'
    BY NextKeeps, NextKeepsPast
  <1> QED BY <1>1, <1>2, PTL DEF Spec

(* A window fires a second time only if a process handled it whose clock   *)
(* showed it before the database's clock did at the BEGIN; whatever        *)
(* crontabs the processes deploy, however often a fire is retried, whoever *)
(* dies during it and whether or not the answer of its commit is lost.     *)
THEOREM WindowsFireOnce == Spec => []WindowFiredOnce
  <1>1. PastInv => WindowFiredOnce
    BY DEF PastInv, WindowFiredOnce
  <1> QED BY <1>1, PastInvariant, PTL

(* A window that was fired is counted in a schedule.missed event only if   *)
(* a process handled it whose clock showed it before the database's did.   *)
THEOREM MissedWindowsWereNotFired == Spec => []MissedWereNotFired
  <1>1. PastInv => MissedWereNotFired
    BY DEF PastInv, MissedWereNotFired
  <1> QED BY <1>1, PastInvariant, PTL

-----------------------------------------------------------------------------
(* All processes that schedule an asset give it one crontab: a window      *)
(* fires once, handled early or not.                                       *)

OneCrontab ==
    \A p, q \in Procs : \A s \in Registered(p) \cap Registered(q) :
        CronOf[p][s] = CronOf[q][s]

(* next_fire_at is what keeps a fired window from firing again: it is a    *)
(* window of the crontab, or a far one, later than all that have fired.    *)
ScheduleAhead(s) ==
    /\ cron[s] \in {NoCron, {}} => fired[s] = {}
    /\ cron[s] # NoCron => \E p \in Procs : cron[s] = CronOf[p][s]
    /\ cron[s] \notin {NoCron, {}} => due[s] \in cron[s] \cup {Horizon}
    /\ \A w \in fired[s] : w < due[s]
    /\ twice[s] = {}

DueInv == \A s \in Schedules : ScheduleAhead(s)

LEMMA InitDue == Init => DueInv
  BY DEF Init, DueInv, ScheduleAhead

LEMMA UpsertKeepsDue ==
    ASSUME OneCrontab, IInv, DueInv, NEW p \in Procs, UpsertStep(p)
    PROVE  DueInv'
  <1>1. PICK S \in SUBSET Registered(p), X \in SUBSET (Known[p] \cap Sensors) : Upsert(p, S, X)
    BY DEF UpsertStep, Upserts
  <1>2. UNCHANGED <<fired, twice>>
    BY DEF UpsertStep, NothingFires
  <1>3. SUFFICES ASSUME NEW s \in Schedules PROVE ScheduleAhead(s)'
    BY DEF DueInv
  <1>4. ScheduleAhead(s)
    BY DEF DueInv
  <1>5. CASE s \in S /\ cron[s] # CronOf[p][s]
    <2>1. CronOf[p][s] # NoCron /\ CronOf[p][s] \in SUBSET (0 .. Horizon - 1)
      BY <1>5, TriggersAssumption DEF Registered
    <2>2. cron'[s] = CronOf[p][s] /\ due'[s] = NextWindow(CronOf[p][s], Clock(p))
      BY <1>1, <1>5 DEF Upsert
    <2>3. CronOf[p][s] # {} => due'[s] \in CronOf[p][s] \cup {Horizon}
      <3>1. Clock(p) \in Int
        BY ClockType, TriggersAssumption DEF IInv, TypeInv
      <3>2. CronOf[p][s] # {} =>
              NextWindow(CronOf[p][s], Clock(p)) \in CronOf[p][s] \cup {Horizon}
        BY <2>1, <3>1, NextWindowIsNext
      <3> QED BY <2>2, <3>2
    <2>4. fired[s] = {}
      <3>1. CASE cron[s] = NoCron
        BY <1>4, <3>1 DEF ScheduleAhead
      <3>2. CASE cron[s] # NoCron
        <4>1. PICK q \in Procs : cron[s] = CronOf[q][s]
          BY <1>4, <3>2 DEF ScheduleAhead
        <4> QED BY <1>5, <2>1, <3>2, <4>1 DEF OneCrontab, Registered
      <3> QED BY <3>1, <3>2
    <2> QED BY <1>2, <1>4, <2>1, <2>2, <2>3, <2>4 DEF ScheduleAhead
  <1>6. CASE ~ (s \in S /\ cron[s] # CronOf[p][s])
    <2>1. cron'[s] = cron[s] /\ due'[s] = due[s]
      BY <1>1, <1>6 DEF Upsert
    <2> QED BY <1>2, <1>4, <2>1 DEF ScheduleAhead
  <1> QED BY <1>5, <1>6

LEMMA FireKeepsDue ==
    ASSUME IInv, DueInv, NEW p \in Procs, FireStep(p)
    PROVE  DueInv'
  <1>1. PICK s \in Schedules : s = sel[p]
    BY DEF FireStep, FireTx, IInv, LocksHold
  <1>2. PICK w : w = Window(p)
    OBVIOUS
  <1>3. /\ due[s] # NoTime /\ due[s] <= clk[p]
        /\ w = WindowToFire(cron[s], last[s], clk[p]) /\ cron[s] # {}
    BY <1>1, <1>2 DEF FireStep, FireTx, IInv, ReadHolds, FireRead, Window
  <1>4. /\ clk[p] \in 0 .. Horizon - 1 /\ Horizon \in Nat
        /\ last[s] \in Nat \cup {NoTime} /\ due[s] \in Int
        /\ cron[s] \in SUBSET (0 .. Horizon - 1) /\ fired[s] \in SUBSET Nat
        /\ cron[s] # NoCron
    BY <1>1, <1>3, TriggersAssumption
       DEF IInv, TypeInv, ScheduleTypes, ProcTypes, Times, NoTime, ZeroTime, Crontabs
  <1>5. ScheduleAhead(s) /\ \A v \in fired[s] : v \in Int /\ v < due[s] /\ v < clk[p]
    BY <1>3, <1>4 DEF DueInv, ScheduleAhead
  <1>6. /\ w \in 0 .. Horizon /\ w \in cron[s] \cup {Horizon}
        /\ w <= clk[p] => \A u \in cron[s] : u <= clk[p] => u <= w
    <2>1. /\ WindowToFire(cron[s], last[s], clk[p]) \in 0 .. Horizon
          /\ WindowToFire(cron[s], last[s], clk[p]) \in cron[s] \cup {Horizon}
          /\ WindowToFire(cron[s], last[s], clk[p]) <= clk[p] =>
               \A u \in cron[s] : u <= clk[p] => u <= WindowToFire(cron[s], last[s], clk[p])
      BY <1>3, <1>4, WindowToFireIsLatest
    <2> QED BY <1>3, <2>1
  <1>7. /\ cron' = cron
        /\ \A r \in Schedules : r # s => /\ due'[r] = due[r] /\ fired'[r] = fired[r]
                                         /\ twice'[r] = twice[r]
    BY <1>1 DEF FireStep, FireTx, Fires, FireRow, RollForwardRow, schedVars,
                IInv, TypeInv, ScheduleTypes
  <1>8. ScheduleAhead(s)'
    <2>1. CASE Fires(p)
      <3>1. w <= clk[p]
        BY <1>2, <2>1 DEF Fires
      <3>2. w \in cron[s] /\ due[s] \in cron[s]
        BY <1>3, <1>4, <1>5, <1>6, <3>1 DEF ScheduleAhead
      <3>3. due[s] <= w
        BY <1>3, <1>6, <3>1, <3>2
      <3>4. w \notin fired[s]
        <4>1. \A v \in fired[s] : v < w
          BY <1>4, <1>5, <1>6, <3>3
        <4> QED BY <1>6, <4>1
      <3>5. twice'[s] = {}
        <4>1. twice'[s] = twice[s] \cup ({w} \cap fired[s])
          BY <1>1, <1>2, <2>1 DEF Fires, FireRow, IInv, TypeInv, ScheduleTypes
        <4> QED BY <1>5, <3>4, <4>1 DEF ScheduleAhead
      <3>6. /\ fired'[s] = fired[s] \cup {w}
            /\ due'[s] = NextWindow(cron[s], clk[p])
        BY <1>1, <1>2, <2>1 DEF Fires, FireRow, NextFire, IInv, TypeInv, ScheduleTypes
      <3>7. /\ NextWindow(cron[s], clk[p]) \in {u \in cron[s] : u > clk[p]} \cup {Horizon}
            /\ NextWindow(cron[s], clk[p]) \in 0 .. Horizon
        <4>1. clk[p] \in Int
          BY <1>4
        <4> QED BY <1>3, <1>4, <4>1, NextWindowIsNext
      <3>8. due'[s] \in cron[s] \cup {Horizon} /\ due'[s] > clk[p] /\ due'[s] \in Int
        BY <1>4, <3>6, <3>7
      <3>9. \A v \in fired[s] \cup {w} : v < due'[s]
        BY <1>4, <1>5, <1>6, <3>1, <3>8
      <3> QED BY <1>3, <1>4, <1>5, <1>7, <3>2, <3>5, <3>6, <3>8, <3>9 DEF ScheduleAhead
    <2>2. CASE RollForwardRow(p)
      <3>1. /\ w > clk[p] /\ due'[s] = w /\ fired' = fired /\ twice' = twice
        BY <1>1, <1>2, <2>2 DEF RollForwardRow, IInv, TypeInv, ScheduleTypes
      <3>3. \A v \in fired[s] : v < w
        BY <1>4, <1>5, <1>6, <3>1
      <3> QED BY <1>3, <1>4, <1>5, <1>6, <1>7, <3>1, <3>3 DEF ScheduleAhead
    <2>3. CASE UNCHANGED schedVars
      BY <1>5, <2>3 DEF ScheduleAhead, schedVars
    <2> QED BY <2>1, <2>2, <2>3 DEF FireStep, FireTx
  <1>9. \A r \in Schedules : r # s => ScheduleAhead(r)'
    BY <1>7 DEF DueInv, ScheduleAhead
  <1> QED BY <1>8, <1>9 DEF DueInv

LEMMA NextKeepsDue ==
    ASSUME OneCrontab, IInv, DueInv, [Next]_vars
    PROVE  DueInv'
  <1>1. ASSUME UNCHANGED <<cron, due, fired, twice>> PROVE DueInv'
    BY <1>1 DEF DueInv, ScheduleAhead
  <1>2. CASE QuietForSchedules
    BY <1>1, <1>2 DEF QuietForSchedules, NothingFires
  <1>3. ASSUME NEW p \in Procs, ReadClock(p) \/ SelectStep(p) PROVE DueInv'
    BY <1>1, <1>3 DEF ReadClock, SelectStep, schedVars
  <1> QED BY <1>2, <1>3, ScheduleSteps, FireKeepsDue, UpsertKeepsDue

(* What fires is put after the clock it was fired by, so that it was due.  *)
MovesOn == \A s \in Schedules : cron'[s] = cron[s] => due'[s] = due[s] \/ due[s] < due'[s]

LEMMA FireMovesOn ==
    ASSUME IInv, NEW p \in Procs, FireStep(p) PROVE MovesOn
  <1>1. PICK s \in Schedules : s = sel[p]
    BY DEF FireStep, FireTx, IInv, LocksHold
  <1>2. due[s] <= clk[p] /\ due[s] # NoTime /\ cron[s] # {}
    BY <1>1 DEF FireStep, FireTx, IInv, ReadHolds, FireRead
  <1>3. /\ clk[p] \in 0 .. Horizon - 1 /\ Horizon \in Nat /\ due[s] \in Int
        /\ cron[s] \in SUBSET (0 .. Horizon - 1) /\ Window(p) \in Nat
    BY <1>1, <1>2, TriggersAssumption
       DEF IInv, TypeInv, ScheduleTypes, ProcTypes, Times, NoTime, ZeroTime, Rows, Window,
           Crontabs
  <1>4. \A r \in Schedules : r # s => due'[r] = due[r]
    BY <1>1 DEF FireStep, FireTx, Fires, FireRow, RollForwardRow, schedVars,
                IInv, TypeInv, ScheduleTypes
  <1>5. due'[s] = due[s] \/ due[s] < due'[s]
    <2>1. CASE Fires(p)
      <3>1. due'[s] = NextWindow(cron[s], clk[p])
        BY <1>1, <2>1 DEF Fires, FireRow, NextFire, IInv, TypeInv, ScheduleTypes
      <3>2. /\ NextWindow(cron[s], clk[p]) \in {u \in cron[s] : u > clk[p]} \cup {Horizon}
            /\ NextWindow(cron[s], clk[p]) \in 0 .. Horizon
        <4>1. clk[p] \in Int
          BY <1>3
        <4> QED BY <1>2, <1>3, <4>1, NextWindowIsNext
      <3> QED BY <1>2, <1>3, <3>1, <3>2
    <2>2. CASE RollForwardRow(p)
      <3>1. Window(p) > clk[p] /\ due'[s] = Window(p)
        BY <1>1, <2>2 DEF RollForwardRow, IInv, TypeInv, ScheduleTypes
      <3> QED BY <1>2, <1>3, <3>1
    <2>3. CASE UNCHANGED schedVars
      BY <2>3 DEF schedVars
    <2> QED BY <2>1, <2>2, <2>3 DEF FireStep, FireTx
  <1> QED BY <1>4, <1>5 DEF MovesOn

(* next_fire_at of a schedule is put back by a registration with another   *)
(* crontab and by nothing else: whatever the processes' clocks, no replica *)
(* undoes with an older reading what another one has rolled forward.       *)
THEOREM SchedulesMoveOn == Spec => [][MovesOn]_vars
  <1>1. ASSUME IInv, [Next]_vars PROVE MovesOn
    <2>1. ASSUME UNCHANGED due PROVE MovesOn
      BY <2>1 DEF MovesOn
    <2>2. CASE QuietForSchedules
      BY <2>1, <2>2 DEF QuietForSchedules
    <2>3. ASSUME NEW p \in Procs, ReadClock(p) \/ SelectStep(p) PROVE MovesOn
      BY <2>1, <2>3 DEF ReadClock, SelectStep, schedVars
    <2>4. ASSUME NEW p \in Procs, UpsertStep(p) PROVE MovesOn
      <3>1. PICK S \in SUBSET Registered(p), X \in SUBSET (Known[p] \cap Sensors) : Upsert(p, S, X)
        BY <2>4 DEF UpsertStep, Upserts
      <3> QED BY <3>1 DEF Upsert, MovesOn
    <2> QED BY <1>1, <2>2, <2>3, <2>4, ScheduleSteps, FireMovesOn
  <1>2. IInv /\ [Next]_vars => [MovesOn]_vars
    BY <1>1
  <1> QED BY <1>2, TriggersInvariant, PTL DEF Spec

(* No window of a schedule fires a second time, early or not, as long as   *)
(* all processes that schedule the asset deploy the same crontab.          *)
THEOREM OneCrontabFiresOnce ==
    ASSUME OneCrontab PROVE Spec => [](\A s \in Schedules : twice[s] = {})
  <1>1. Init => IInv /\ DueInv
    BY InitIInv, InitDue
  <1>2. IInv /\ DueInv /\ [Next]_vars => (IInv /\ DueInv)'
    BY NextKeeps, NextKeepsDue
  <1>3. DueInv => \A s \in Schedules : twice[s] = {}
    BY DEF DueInv, ScheduleAhead
  <1> QED BY <1>1, <1>2, <1>3, PTL DEF Spec

-----------------------------------------------------------------------------
(* Sensors.                                                                *)

(* What a step is for the sensors: an evaluation that commits, or nothing. *)
QuietForSensors ==
    UNCHANGED <<lastKey, coolUntil, failures, disabled, sensed, streak>>

LEMMA SensorSteps ==
    ASSUME IInv, [Next]_vars
    PROVE  \/ QuietForSensors
           \/ \E p \in Procs : pc[p] = "sensing" /\ EvaluatedRow(p) /\ UNCHANGED now
  <1> USE DEF QuietForSensors, sensorVars
  <1>1. ASSUME NEW p \in Procs, Boot(p) \/ BootAborted(p) PROVE QuietForSensors
    BY <1>1, BootsUpsert DEF Upserts, Upsert
  <1>2. ASSUME NEW p \in Procs,
               \/ SelectSchedule(p) \/ SelectSensor(p) \/ ReadClock(p) \/ Crash(p)
        PROVE  QuietForSensors
    BY <1>2 DEF SelectSchedule, SelectSensor, ReadClock, Crash
  <1>3. ASSUME NEW p \in Procs,
               Fire(p) \/ RollForward(p) \/ FireConflict(p) \/ FireFault(p)
        PROVE  QuietForSensors
    BY <1>3, FireSteps DEF IInv
  <1>4. ASSUME NEW p \in Procs, Evaluate(p) \/ SensorConflict(p) \/ SensorFault(p)
        PROVE  \/ QuietForSensors
               \/ pc[p] = "sensing" /\ EvaluatedRow(p) /\ UNCHANGED now
    BY <1>4, SenseSteps DEF SenseTx, IInv
  <1>5. ASSUME \/ Tick \/ UNCHANGED vars
               \/ \E b \in Backfills : Submit(b)
               \/ \E k \in Slots : Settle(k)
        PROVE  QuietForSensors
    BY <1>5 DEF Tick, vars, Submit, Settle
  <1> QED BY <1>1, <1>2, <1>3, <1>4, <1>5 DEF Next, Step

(* consecutive_failures counts the failures in a row, and a sensor is      *)
(* disabled when it has failed DisableAfter times, so that an evaluation   *)
(* (which holds the row, hence has read it enabled) finds it below that.   *)
StopInv ==
    \A x \in Sensors : /\ streak[x] = failures[x]
                       /\ failures[x] <= DisableAfter
                       /\ x \notin disabled => failures[x] < DisableAfter

LEMMA InitStop == Init => StopInv
  BY TriggersAssumption DEF Init, StopInv

LEMMA NextKeepsStop ==
    ASSUME IInv, StopInv, [Next]_vars
    PROVE  StopInv'
  <1>1. CASE QuietForSensors
    BY <1>1 DEF QuietForSensors, StopInv
  <1>2. ASSUME NEW p \in Procs, pc[p] = "sensing", EvaluatedRow(p) PROVE StopInv'
    <2>1. PICK x \in Sensors : x = sel[p]
      BY <1>2 DEF IInv, LocksHold
    <2>2. x \notin disabled
      BY <1>2, <2>1 DEF IInv, ReadHolds, SenseRead
    <2>3. DisableAfter \in Nat \ {0} /\ \A y \in Sensors : failures[y] \in Nat
      BY TriggersAssumption DEF IInv, TypeInv, SensorTypes
    <2>4. failures[x] + 1 <= DisableAfter
      BY <2>2, <2>3 DEF StopInv
    <2>5. CASE OrphanRow(p)
      BY <2>1, <2>5 DEF OrphanRow, StopInv
    <2>6. CASE QuietRow(p) \/ \E k \in RunKeys \cup {NoKey} : SensorRow(p, k)
      <3>1. EvaluatedOk(p)
        BY <2>6 DEF QuietRow, SensorRow
      <3> QED BY <2>1, <2>3, <3>1 DEF EvaluatedOk, StopInv, IInv, TypeInv, SensorTypes
    <2>7. CASE ErrorRow(p)
      <3>1. /\ failures'[x] = failures[x] + 1 /\ streak'[x] = streak[x] + 1
            /\ \A y \in Sensors : y # x => failures'[y] = failures[y] /\ streak'[y] = streak[y]
        BY <2>1, <2>7 DEF ErrorRow, IInv, TypeInv, SensorTypes
      <3>2. /\ disabled \subseteq disabled'
            /\ x \notin disabled' => failures[x] + 1 < DisableAfter
        BY <2>1, <2>3, <2>7 DEF ErrorRow, Disables
      <3> QED BY <2>4, <3>1, <3>2 DEF StopInv
    <2> QED BY <1>2, <2>5, <2>6, <2>7 DEF EvaluatedRow
  <1> QED BY <1>1, <1>2, SensorSteps

(* A sensor whose Sense fails every time is evaluated DisableAfter times   *)
(* in a row and no more, whichever processes evaluate it and whatever      *)
(* version of the registry they have.                                      *)
THEOREM FailingSensorsStop == Spec => []FailingSensorStops
  <1>1. Init => IInv /\ StopInv
    BY InitIInv, InitStop
  <1>2. IInv /\ StopInv /\ [Next]_vars => (IInv /\ StopInv)'
    BY NextKeeps, NextKeepsStop
  <1>3. StopInv => FailingSensorStops
    BY DEF StopInv, FailingSensorStops
  <1> QED BY <1>1, <1>2, <1>3, PTL DEF Spec

-----------------------------------------------------------------------------
(* The distance of a sensor's runs.                                        *)

(* Two runs by processes whose clocks agree are time apart; a clock that   *)
(* is further ahead shortens that.                                         *)
Apart(runs, time) ==
    \A i \in 1 .. Len(runs) - 1 :
        /\ runs[i + 1].at - runs[i].at >= time - (Skew[runs[i + 1].by] - Skew[runs[i].by])
        /\ runs[i].key # NoKey => runs[i + 1].key # runs[i].key

(* last_run_key and cooldown_until are those of the latest run: the end of *)
(* the cooldown, in the time of the clock of its process.                  *)
SpacedInv ==
    /\ \A x \in Sensors : Apart(sensed[x], Cooldown[x])
    /\ \A x \in Sensors : \A n \in Nat : n > 0 /\ n = Len(sensed[x]) =>
         /\ lastKey[x] = sensed[x][n].key
         /\ coolUntil[x] = sensed[x][n].at + Skew[sensed[x][n].by] + Cooldown[x]

LEMMA InitSpaced == Init => SpacedInv
  BY DEF Init, SpacedInv, Apart

(* What a run says that is enqueued now: it is later than the latest one   *)
(* by the cooldown, and has another key.                                   *)
LEMMA SensorRowSpaces ==
    ASSUME IInv, SpacedInv, NEW p \in Procs, pc[p] = "sensing",
           NEW k \in Keys, SensorRow(p, k), now' = now
    PROVE  SpacedInv'
  <1>1. PICK x \in Sensors : x = sel[p]
    BY DEF IInv, LocksHold
  <1>2. PICK run : run = [key |-> k, at |-> now, by |-> p]
    OBVIOUS
  <1>3. run \in Enqueued /\ run.key = k /\ run.at = now /\ run.by = p /\ now \in Nat
    BY <1>2, TriggersAssumption DEF Enqueued, IInv, TypeInv
  <1>4. PICK q : q = sensed[x]
    OBVIOUS
  <1>5. q \in Seq(Enqueued)
    BY <1>4 DEF IInv, TypeInv, SensorTypes
  <1>6. PICK n \in Nat : n = Len(q)
    BY <1>5
  <1>7. /\ sensed' = [sensed EXCEPT ![x] = Append(q, run)]
        /\ lastKey' = [lastKey EXCEPT ![x] = k]
        /\ coolUntil' = [coolUntil EXCEPT ![x] = Clock(p) + Cooldown[x]]
        /\ ~ Repeated(p, k) /\ ~ Cooling(p)
    BY <1>1, <1>2, <1>4 DEF SensorRow
  <1>8. /\ sensed'[x] = Append(q, run) /\ lastKey'[x] = k
        /\ coolUntil'[x] = Clock(p) + Cooldown[x]
        /\ \A y \in Sensors : y # x => /\ sensed'[y] = sensed[y] /\ lastKey'[y] = lastKey[y]
                                       /\ coolUntil'[y] = coolUntil[y]
    BY <1>7 DEF IInv, TypeInv, SensorTypes
  <1>9. /\ Len(Append(q, run)) = n + 1 /\ Append(q, run)[n + 1] = run
        /\ \A i \in 1 .. n : Append(q, run)[i] = q[i]
    BY <1>3, <1>5, <1>6, AppendProperties
  <1>10. /\ row[p].key = lastKey[x] /\ row[p].cool = coolUntil[x]
         /\ k # NoKey => lastKey[x] # k
         /\ Clock(p) >= coolUntil[x]
    <2>1. row[p].key = lastKey[x] /\ row[p].cool = coolUntil[x]
      BY <1>1 DEF IInv, ReadHolds, SenseRead
    <2>2. Clock(p) \in Int /\ coolUntil[x] \in Int
      BY ClockType, TriggersAssumption DEF IInv, TypeInv, SensorTypes
    <2> QED BY <1>7, <2>1, <2>2 DEF Repeated, Cooling
  <1>11. ASSUME n > 0
         PROVE  /\ now - q[n].at >= Cooldown[x] - (Skew[p] - Skew[q[n].by])
                /\ q[n].key # NoKey => k # q[n].key
    <2>1. /\ lastKey[x] = q[n].key
          /\ coolUntil[x] = q[n].at + Skew[q[n].by] + Cooldown[x]
      BY <1>4, <1>6, <1>11 DEF SpacedInv
    <2>2. /\ q[n].at \in Int /\ Skew[p] \in Int /\ Skew[q[n].by] \in Int
          /\ Cooldown[x] \in Nat
      <3>1. q[n] \in Enqueued
        BY <1>5, <1>6, <1>11
      <3>2. Cooldown[x] \in Nat /\ \A r \in Procs : Skew[r] \in Int
        BY TriggersAssumption
      <3> QED BY <3>1, <3>2 DEF Enqueued
    <2> QED BY <1>3, <1>10, <2>1, <2>2 DEF Clock
  <1>12. \A y \in Sensors : Apart(sensed'[y], Cooldown[y])
    <2> TAKE y \in Sensors
    <2>1. CASE y # x
      <3>1. sensed'[y] = sensed[y] /\ Apart(sensed[y], Cooldown[y])
        BY <1>8, <2>1 DEF SpacedInv
      <3> QED BY <3>1
    <2>2. CASE y = x
      <3>1. SUFFICES Apart(Append(q, run), Cooldown[x])
        BY <1>8, <2>2
      <3>2. ASSUME NEW i \in 1 .. n
            PROVE  /\ Append(q, run)[i + 1].at - Append(q, run)[i].at >=
                        Cooldown[x] - (Skew[Append(q, run)[i + 1].by]
                                         - Skew[Append(q, run)[i].by])
                   /\ Append(q, run)[i].key # NoKey =>
                        Append(q, run)[i + 1].key # Append(q, run)[i].key
        <4>1. CASE i = n
          BY <1>3, <1>9, <1>11, <4>1
        <4>2. CASE i # n
          <5>1. i \in 1 .. Len(q) - 1 /\ i + 1 \in 1 .. n
            BY <1>6, <4>2
          <5>2. /\ q[i + 1].at - q[i].at >=
                     Cooldown[x] - (Skew[q[i + 1].by] - Skew[q[i].by])
                /\ q[i].key # NoKey => q[i + 1].key # q[i].key
            BY <1>4, <5>1 DEF SpacedInv, Apart
          <5> QED BY <1>9, <5>1, <5>2
        <4> QED BY <4>1, <4>2
      <3>3. Len(Append(q, run)) - 1 = n
        BY <1>9
      <3> QED BY <3>2, <3>3 DEF Apart
    <2> QED BY <2>1, <2>2
  <1>13. ASSUME NEW y \in Sensors, NEW m \in Nat, m > 0, m = Len(sensed'[y])
         PROVE  /\ lastKey'[y] = sensed'[y][m].key
                /\ coolUntil'[y] =
                     sensed'[y][m].at + Skew[sensed'[y][m].by] + Cooldown[y]
    <2>1. CASE y # x
      BY <1>8, <1>13, <2>1 DEF SpacedInv
    <2>2. CASE y = x
      BY <1>3, <1>8, <1>9, <1>13, <2>2 DEF Clock
    <2> QED BY <2>1, <2>2
  <1> QED BY <1>12, <1>13 DEF SpacedInv

LEMMA NextKeepsSpaced ==
    ASSUME IInv, SpacedInv, [Next]_vars
    PROVE  SpacedInv'
  <1>1. ASSUME UNCHANGED <<lastKey, coolUntil, sensed>> PROVE SpacedInv'
    BY <1>1 DEF SpacedInv
  <1>2. CASE QuietForSensors
    BY <1>1, <1>2 DEF QuietForSensors
  <1>3. ASSUME NEW p \in Procs, pc[p] = "sensing", EvaluatedRow(p), now' = now
        PROVE  SpacedInv'
    <2>1. CASE OrphanRow(p) \/ QuietRow(p) \/ ErrorRow(p)
      BY <1>1, <2>1 DEF OrphanRow, QuietRow, ErrorRow
    <2>2. ASSUME NEW k \in RunKeys \cup {NoKey}, SensorRow(p, k) PROVE SpacedInv'
      BY <1>3, <2>2, SensorRowSpaces DEF Keys
    <2> QED BY <1>3, <2>1, <2>2 DEF EvaluatedRow
  <1> QED BY <1>2, <1>3, SensorSteps

(* Successive runs of a sensor differ in their run key and are a cooldown  *)
(* apart, less what the second one's clock is ahead of the first one's,    *)
(* although several processes evaluate the sensor and any of them may lose *)
(* its transaction; with clocks that agree they are a cooldown apart.      *)
THEOREM SensorRunsAreSpaced == Spec => []SensorRunsSpaced
  <1>1. Init => IInv /\ SpacedInv
    BY InitIInv, InitSpaced
  <1>2. IInv /\ SpacedInv /\ [Next]_vars => (IInv /\ SpacedInv)'
    BY NextKeeps, NextKeepsSpaced
  <1>3. SpacedInv => SensorRunsSpaced
    BY DEF SpacedInv, Apart, SensorRunsSpaced
  <1> QED BY <1>1, <1>2, <1>3, PTL DEF Spec

=============================================================================
