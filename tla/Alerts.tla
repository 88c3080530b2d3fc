-------------------------------- MODULE Alerts --------------------------------
(***************************************************************************)
(* Freshness alerts: the scanner of each scheduler process, which reports  *)
(* assets without a recent successful run, and the process's queue, whose  *)
(* workers deliver the notifications. The scanner and the timers of the    *)
(* retries block while the queue's buffer is full; a process that dies     *)
(* loses its queue, and only the marker in the database remains.           *)
(*                                                                         *)
(* There is no clock: at any moment a time stamp may become older than     *)
(* freshness_max_lag_seconds, which is all that the scanners ask of it.    *)
(***************************************************************************)
EXTENDS Integers, Sequences, FiniteSets

CONSTANTS
    Procs,        \* scheduler processes
    Assets,       \* scheduled assets with a FreshnessSLA
    Workers,      \* goroutines of the InProcessQueue of a process
    Buffer,       \* capacity of its channel
    MaxAttempts,  \* InsertOpts().MaxAttempts
    MaxJobs,      \* bound: notifications of a process alive at the same time
    MaxFaults,    \* bound: failing commits and process deaths
    None

ASSUME AlertsAssumption ==
    /\ Buffer \in Nat \ {0} /\ MaxAttempts \in Nat \ {0}
    /\ MaxJobs \in Nat \ {0} /\ MaxFaults \in Nat
    /\ None \notin Assets \cup Nat
    /\ None \notin [asset : Assets, attempt : Nat]
    /\ None \notin [slot : Nat, failed : BOOLEAN]

VARIABLES
    stale,    \* assets whose last_succeeded_at, or created_at before the
              \* first success, is older than the lag
    quiet,    \* assets whose freshness_breach_emitted_at is within the lag
    scan,     \* scan[p]: where the scanner of process p is, the rows still
              \* to do and the one at hand
    jobs,     \* jobs[p][i]: the notification in slot i of process p, or None
    buffer,   \* buffer[p]: the slots in its channel
    busy,     \* busy[p][w]: the slot its worker w delivers and whether that
              \* failed, or None
    timers,   \* timers[p]: the slots whose retry waits for its delay or room
    told,     \* assets of whose breach someone was told, or that could not
              \* be delivered, since they are stale
    faults

Slots == 1 .. MaxJobs

rows  == <<stale, quiet>>
queue == <<jobs, buffer, busy, timers>>
vars == <<rows, scan, queue, told, faults>>

Idle == [pc |-> "idle", todo |-> {}, asset |-> None]

NoJobs    == [i \in Slots |-> None]
AllIdle   == [w \in Workers |-> None]

Init == /\ stale = {} /\ quiet = {}
        /\ scan = [p \in Procs |-> Idle]
        /\ jobs = [p \in Procs |-> NoJobs]
        /\ buffer = [p \in Procs |-> <<>>] /\ timers = [p \in Procs |-> {}]
        /\ busy = [p \in Procs |-> AllIdle]
        /\ told = {}
        /\ faults = MaxFaults

Fault == faults > 0 /\ faults' = faults - 1

(* Time passes.                                                            *)
SuccessAges(a) == /\ stale' = stale \cup {a}
                  /\ UNCHANGED <<quiet, scan, queue, told, faults>>

MarkerStays(a) == FALSE
MarkerAges(a) == /\ quiet' = quiet \ {a}
                 /\ UNCHANGED <<stale, scan, queue, told, faults>>

(* A transaction of a scanner that has updated the row holds it.           *)
RowFree(a) == ~ \E p \in Procs : scan[p].pc = "commit" /\ scan[p].asset = a

(* commitSuccess of a run of the asset.                                    *)
Succeed(a) ==
    /\ RowFree(a)
    /\ stale' = stale \ {a}
    /\ quiet' = quiet \ {a}
    /\ told' = told \ {a}
    /\ UNCHANGED <<scan, queue, faults>>

-----------------------------------------------------------------------------
(* Scanner.Scan                                                            *)

Breaching == stale \ quiet

Select(p) ==
    /\ scan[p].pc = "idle" /\ Breaching # {}
    /\ scan' = [scan EXCEPT ![p] = [pc |-> "next", todo |-> Breaching, asset |-> None]]
    /\ UNCHANGED <<rows, queue, told, faults>>

(* The UPDATE, whatever has become of the row since the SELECT, and the    *)
(* sla.breached event, on a connection of its own.                         *)
Mark(p, a) ==
    /\ scan[p].pc = "next" /\ a \in scan[p].todo
    /\ RowFree(a)
    /\ scan' = [scan EXCEPT ![p] = [pc |-> "commit", todo |-> @.todo \ {a}, asset |-> a]]
    /\ UNCHANGED <<rows, queue, told, faults>>

Commit(p) ==
    /\ scan[p].pc = "commit"
    /\ quiet' = quiet \cup {scan[p].asset}
    /\ scan' = [scan EXCEPT ![p].pc = "insert"]
    /\ UNCHANGED <<stale, queue, told, faults>>

(* An error ends the scan, whether the marker was written or not.          *)
CommitFails(p) ==
    /\ scan[p].pc = "commit"
    /\ Fault
    /\ quiet' \in {quiet, quiet \cup {scan[p].asset}}
    /\ scan' = [scan EXCEPT ![p] = Idle]
    /\ UNCHANGED <<stale, queue, told>>

-----------------------------------------------------------------------------
(* InProcessQueue                                                          *)

Room(p) == Len(buffer[p]) < Buffer

Send(p, i)    == /\ Room(p)
                 /\ buffer' = [buffer EXCEPT ![p] = Append(@, i)]
SetJob(p, i, job) == jobs' = [jobs EXCEPT ![p] = [@ EXCEPT ![i] = job]]
SetBusy(p, w, b)  == busy' = [busy EXCEPT ![p] = [@ EXCEPT ![w] = b]]

(* Insert blocks the scan, and with it the tick of the scheduler.          *)
Insert(p, i) ==
    /\ scan[p].pc = "insert"
    /\ jobs[p][i] = None /\ \A k \in 1 .. i - 1 : jobs[p][k] # None
    /\ Send(p, i)
    /\ SetJob(p, i, [asset |-> scan[p].asset, attempt |-> 1])
    /\ scan' = [scan EXCEPT ![p] = IF @.todo = {} THEN Idle
                                   ELSE [pc |-> "next", todo |-> @.todo, asset |-> None]]
    /\ UNCHANGED <<rows, busy, timers, told, faults>>

Take(p, w) ==
    /\ busy[p][w] = None /\ buffer[p] # <<>>
    /\ SetBusy(p, w, [slot |-> Head(buffer[p]), failed |-> FALSE])
    /\ buffer' = [buffer EXCEPT ![p] = Tail(@)]
    /\ UNCHANGED <<rows, scan, jobs, timers, told, faults>>

(* Every channel got it, or the last attempt was reported as failed.       *)
Settle(p, i) ==
    /\ told' = told \cup ({jobs[p][i].asset} \cap stale)
    /\ SetJob(p, i, None)
    /\ UNCHANGED <<buffer, timers>>

Sending(p, w) == busy[p][w] # None /\ ~ busy[p][w].failed

Deliver(p, w) ==
    /\ Sending(p, w)
    /\ Settle(p, busy[p][w].slot)
    /\ SetBusy(p, w, None)
    /\ UNCHANGED <<rows, scan, faults>>

(* A channel returns an error.                                             *)
DeliverFails(p, w) ==
    /\ Sending(p, w)
    /\ SetBusy(p, w, [slot |-> busy[p][w].slot, failed |-> TRUE])
    /\ UNCHANGED <<rows, scan, jobs, buffer, timers, told, faults>>

Retries(p, i) == jobs[p][i].attempt < MaxAttempts
Retried(p, i) == [asset |-> jobs[p][i].asset, attempt |-> jobs[p][i].attempt + 1]

ResendInline(p, i) ==
    Send(p, i) /\ SetJob(p, i, Retried(p, i)) /\ UNCHANGED timers

(* The worker goes on; a goroutine of its own waits and sends again.       *)
Postpone(p, i) ==
    timers' = [timers EXCEPT ![p] = @ \cup {i}] /\ UNCHANGED <<jobs, buffer>>

AfterFailure(p, w) ==
    /\ busy[p][w] # None /\ busy[p][w].failed
    /\ IF Retries(p, busy[p][w].slot)
       THEN Postpone(p, busy[p][w].slot) /\ UNCHANGED told
       ELSE Settle(p, busy[p][w].slot)
    /\ SetBusy(p, w, None)
    /\ UNCHANGED <<rows, scan, faults>>

Resend(p, i) ==
    /\ i \in timers[p]
    /\ Send(p, i) /\ SetJob(p, i, Retried(p, i))
    /\ timers' = [timers EXCEPT ![p] = @ \ {i}]
    /\ UNCHANGED <<rows, scan, busy, told, faults>>

(* The process dies and is started again; an open transaction is rolled    *)
(* back. (A shutdown's last tick fills a queue without workers: the same.) *)
Crash(p) ==
    /\ Fault
    /\ scan' = [scan EXCEPT ![p] = Idle]
    /\ jobs' = [jobs EXCEPT ![p] = NoJobs]
    /\ buffer' = [buffer EXCEPT ![p] = <<>>] /\ timers' = [timers EXCEPT ![p] = {}]
    /\ busy' = [busy EXCEPT ![p] = AllIdle]
    /\ UNCHANGED <<rows, told>>

-----------------------------------------------------------------------------
Scan(p) == \/ Select(p) \/ Commit(p)
           \/ \E a \in Assets : Mark(p, a)
           \/ \E i \in Slots : Insert(p, i)

Work(p, w) == Take(p, w) \/ Deliver(p, w) \/ DeliverFails(p, w) \/ AfterFailure(p, w)

Next == \/ \E a \in Assets : Succeed(a) \/ SuccessAges(a) \/ MarkerAges(a)
        \/ \E p \in Procs : \/ Scan(p) \/ CommitFails(p) \/ Crash(p)
                            \/ \E w \in Workers : Work(p, w)
                            \/ \E i \in Slots : Resend(p, i)

Spec == Init /\ [][Next]_vars

(* Fairness: time passes, the schedulers tick, workers work (a send has a  *)
(* timeout) and timers fire. It is strong where a goroutine waits for room *)
(* in the channel, or a transaction for a row: Go and PostgreSQL queue who *)
(* waits.                                                                  *)
Fairness == /\ \A a \in Assets : WF_vars(SuccessAges(a)) /\ WF_vars(MarkerAges(a))
            /\ \A p \in Procs : /\ SF_vars(Scan(p))
                                /\ \A w \in Workers : WF_vars(Work(p, w))
                                /\ \A i \in Slots : SF_vars(Resend(p, i))

FairSpec == Spec /\ Fairness

-----------------------------------------------------------------------------

(* A notification that was accepted is delivered or reported as failed,    *)
(* unless its process dies, and the scheduler's tick, which inserts into   *)
(* the channel that its retries use, ends: workers, timers and the scanner *)
(* do not wait for each other's room.                                      *)
EveryNotificationSettles ==
    \A p \in Procs :
        /\ \A i \in Slots : jobs[p][i] # None ~> jobs[p][i] = None
        /\ scan[p].pc # "idle" ~> scan[p].pc = "idle"

(* A stale asset is told of or recovers, also when the process died        *)
(* between the commit of the marker and the delivery, the commit's answer  *)
(* was lost, or the marker was set on a row that had recovered since it    *)
(* was selected: the marker expires and the breach is reported again.      *)
StaleIsTold == \A a \in Assets : a \in stale ~> a \in told \/ a \notin stale
=============================================================================
