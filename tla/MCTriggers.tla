----------------------------- MODULE MCTriggers -----------------------------
(***************************************************************************)
(* Small instances of Triggers for TLC. The day is two units of time; a    *)
(* partitioned asset has one slot per day, and fires for the day before.   *)
(***************************************************************************)
EXTENDS Triggers, TLC

CONSTANTS p1, p2, s1, s2, s3, x1, x2, k0, k1, j1, b1

MCHorizon  == MaxTime + 2
Times      == 0 .. MCHorizon
AllTimes   == 0 .. MCHorizon - 1

(* One process runs behind the database's clock, or one runs ahead of it.  *)
MCBehind   == [p \in Procs |-> IF p = p1 THEN -1 ELSE 0]
MCOneAhead == [p \in Procs |-> IF p = p2 THEN 1 ELSE 0]

EvenTimes  == {t \in AllTimes : t % 2 = 0}
MCCron     == [p \in Procs |-> [s \in Schedules |-> AllTimes]]
(* Two versions of the assets: s1 is new in p1's version and s3 in p2's,   *)
(* where its crontab has no date; s2 fires more often in p2's version.     *)
MCVaried   == [p \in Procs |->
    (s1 :> IF p = p2 THEN NoCron ELSE AllTimes)
      @@ (s2 :> IF p = p2 THEN AllTimes ELSE EvenTimes)
      @@ (s3 :> IF p = p2 THEN {} ELSE NoCron)]
MCAssets   == [p \in Procs |-> IF p = p2 THEN {s2, s3} ELSE {s1, s2}]

Preceding(t) == IF t < 2 THEN NoSlot ELSE IF (t \div 2) % 2 = 1 THEN k0 ELSE k1
MCFireSlot == [s \in Schedules |-> [t \in Times |->
                 IF s = s1 THEN Preceding(t) ELSE NoSlot]]
MCDated    == [x \in Sensors |-> IF x = x1 THEN {j1} ELSE {}]
MCKeySlot  == [x \in Sensors |-> [k \in RunKeys |-> k0]]
MCFallback == [x \in Sensors |-> [t \in Times |->
                 IF x = x1 THEN Preceding(t) ELSE NoSlot]]
MCInterval == [x \in Sensors |-> 1]
MCCooldown == [x \in Sensors |-> 2]
MCVersions == [p \in Procs |-> IF p = p2 THEN Sensors \ {x2} ELSE Sensors]
MCSpecs    == {<<k0, k0>>}
=============================================================================
