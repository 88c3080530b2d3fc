---------------------------- MODULE PartitionKeys ----------------------------
(***************************************************************************)
(* Partition keys (package partition) and their uses: the key that a       *)
(* scheduled or sensed run gets for the window before, and the keys that a *)
(* backfill range expands to. A day is a number counted from a Monday; a   *)
(* daily key is its day, a monthly key the pair of year and month, a       *)
(* weekly key the pair of ISO year and week. The two variables are the     *)
(* arguments of KeysBetween.                                               *)
(***************************************************************************)
EXTENDS Integers, Sequences, FiniteSets

CONSTANTS FirstYear,   \* the year of day 0, which is a Monday and its first day
          FirstDay,    \* bounds of the range arguments
          LastDay,
          MaxRange     \* bound: length of a range in days

ASSUME KeysAssumption ==
    /\ FirstYear \in Nat
    /\ FirstDay \in Nat /\ LastDay \in Nat /\ MaxRange \in Nat

VARIABLES start, end

keysVars == <<start, end>>

-----------------------------------------------------------------------------
(* The calendar of package time                                            *)

Leap(y) == y % 4 = 0 /\ (y % 100 # 0 \/ y % 400 = 0)
DaysBefore == <<0, 31, 59, 90, 120, 151, 181, 212, 243, 273, 304, 334>>

(* Months are counted from the first one of FirstYear.                     *)
MonthOf(i) == <<FirstYear + (i \div 12), (i % 12) + 1>>
MonthIndex(y, m) == 12 * (y - FirstYear) + m - 1

(* The number of the first day of month i.                                 *)
MonthStart(i) ==
    LET y == MonthOf(i)[1]
        m == MonthOf(i)[2]
        leapDays == {z \in FirstYear .. y : Leap(z) /\ (z < y \/ m > 2)}
    IN 365 * (y - FirstYear) + DaysBefore[m] + Cardinality(leapDays)

(* The month a day lies in, and the day of that month.                     *)
MonthAt(n) == CHOOSE i \in ((n \div 31) - 1) .. (n \div 28) :
                MonthStart(i) <= n /\ n < MonthStart(i + 1)
DayOfMonth(n) == n - MonthStart(MonthAt(n)) + 1

(* AddDate(0, k, 0): the same day of another month; a day that the month   *)
(* does not have runs over into the next one.                              *)
AddMonths(n, k) == MonthStart(MonthAt(n) + k) + DayOfMonth(n) - 1

(* Monday is 0.                                                            *)
Weekday(n) == n % 7

-----------------------------------------------------------------------------
(* Keys                                                                    *)

DailyKey(n)   == n
MonthlyKey(n) == MonthOf(MonthAt(n))

(* ISOWeek: the year of the week's Thursday, and its number in that year.  *)
WeeklyKey(n) ==
    LET thursday == n - Weekday(n) + 3
        year     == MonthOf(MonthAt(thursday))[1]
    IN <<year, ((thursday - MonthStart(MonthIndex(year, 1))) \div 7) + 1>>

(* The key of a run that is fired for day n: the partition before.         *)
PrecedingWeekKey(n)  == WeeklyKey(n - 7)
MonthKeyOf30Days(n)  == MonthlyKey(n - 30)
PrecedingMonthKey(n) == MonthlyKey(AddMonths(n, -1))

(* isoWeekStart: Go's Sunday is 0 and counts as 7.                         *)
GoWeekday(n) == (Weekday(n) + 1) % 7
isoWeekStartOfSundayWeek(n) == n - (GoWeekday(n) - 1)
isoWeekStart(n) ==
    n - ((IF GoWeekday(n) = 0 THEN 7 ELSE GoWeekday(n)) - 1)

(* KeysBetween: one key per loop iteration, start and end included.        *)
Iterations(s, e, step) == ((e - s) \div step) + 1
DailyKeys(s, e) ==
    [i \in 1 .. Iterations(s, e, 1) |-> DailyKey(s + i - 1)]
WeeklyKeys(s, e) ==
    LET w == isoWeekStart(s)
    IN [i \in 1 .. Iterations(w, e, 7) |-> WeeklyKey(w + 7 * (i - 1))]
MonthlyKeys(s, e) ==
    LET first == MonthStart(MonthAt(s))
        last  == MonthStart(MonthAt(e))
    IN [i \in 1 .. Iterations(MonthAt(first), MonthAt(last), 1) |->
           MonthlyKey(AddMonths(first, i - 1))]

-----------------------------------------------------------------------------
(* Every range of at most MaxRange days.                                   *)
KeysInit == start \in FirstDay .. LastDay /\ end = start
Extend == /\ end < LastDay /\ end - start < MaxRange
          /\ end' = end + 1
          /\ UNCHANGED start
KeysSpec == KeysInit /\ [][Extend]_keysVars

-----------------------------------------------------------------------------
Ascending(keys, Less(_, _)) ==
    \A i \in 1 .. Len(keys) - 1 : Less(keys[i], keys[i + 1])
Before(k, l) == k[1] < l[1] \/ (k[1] = l[1] /\ k[2] < l[2])
Covers(keys, Key(_)) ==
    {keys[i] : i \in DOMAIN keys} = {Key(n) : n \in start .. end}

(* A backfill range expands to the key of every day in it, each once and   *)
(* in order: no partition is forgotten at the ends of the range, at the    *)
(* end of a month or in the week that belongs to two years. And a run      *)
(* fired on a day of week w gets the week before w.                        *)
KeysExact ==
    /\ Covers(DailyKeys(start, end), DailyKey)
    /\ Covers(WeeklyKeys(start, end), WeeklyKey)
    /\ Ascending(WeeklyKeys(start, end), Before)
    /\ Covers(MonthlyKeys(start, end), MonthlyKey)
    /\ Ascending(MonthlyKeys(start, end), Before)
    /\ PrecedingWeekKey(end) = WeeklyKey(isoWeekStart(end) - 1)

(* The month that a run fired on a day of month m gets is the one before   *)
(* m, as "MonthlyPartitions: previous calendar month" (evaluate.go:410)    *)
(* says, exactly when that month has such a day; on the last days of a     *)
(* longer month it is m itself (AddDate(0, -1, 0) runs over).              *)
MonthKeyExact ==
    LET m == MonthAt(start)
    IN  m > 0 => PrecedingMonthKey(start) =
                     MonthOf(IF DayOfMonth(start) <= MonthStart(m) - MonthStart(m - 1)
                             THEN m - 1 ELSE m)
=============================================================================
