---------------------------- MODULE AlertsProofs ----------------------------
(***************************************************************************)
(* Proofs about Alerts, for every set of processes, assets and workers,    *)
(* every capacity and every bound: a notification is in one place of its   *)
(* process's queue at a time.                                              *)
(***************************************************************************)
EXTENDS Alerts, SequenceTheorems, TLAPS

Scans  == [pc : {"idle", "next", "commit", "insert"},
           todo : SUBSET Assets, asset : Assets \cup {None}]
Jobs   == [asset : Assets, attempt : Nat]
Sends  == [slot : Slots, failed : BOOLEAN]

(* A scan that has a row at hand names it.                                 *)
ScanTypes ==
    /\ stale \in SUBSET Assets /\ quiet \in SUBSET Assets
    /\ scan \in [Procs -> Scans]
    /\ \A p \in Procs : scan[p].pc \in {"commit", "insert"} => scan[p].asset \in Assets

QueueTypes == /\ jobs \in [Procs -> [Slots -> Jobs \cup {None}]]
              /\ buffer \in [Procs -> Seq(Slots)]
              /\ busy \in [Procs -> [Workers -> Sends \cup {None}]]
              /\ timers \in [Procs -> SUBSET Slots]

TypeInv == /\ ScanTypes /\ QueueTypes
           /\ told \in SUBSET Assets /\ faults \in Nat

(* The channel, the workers and the timers of the retries share out the    *)
(* notifications of a process that are alive.                              *)
Buffered(p)   == {buffer[p][n] : n \in 1 .. Len(buffer[p])}
Sent(p)       == {w \in Workers : busy[p][w] # None}
Delivering(p) == {busy[p][w].slot : w \in Sent(p)}

HeldOnce(p) ==
    /\ \A m, n \in 1 .. Len(buffer[p]) : buffer[p][m] = buffer[p][n] => m = n
    /\ \A v, w \in Sent(p) : busy[p][v].slot = busy[p][w].slot => v = w
    /\ Buffered(p) \cap Delivering(p) = {} /\ Buffered(p) \cap timers[p] = {}
    /\ Delivering(p) \cap timers[p] = {}

HeldIfAlive(p) ==
    \A i \in Slots :
        jobs[p][i] # None <=> i \in Buffered(p) \cup Delivering(p) \cup timers[p]

WithinLimits(p) ==
    /\ Len(buffer[p]) <= Buffer
    /\ \A i \in Slots : jobs[p][i] # None => jobs[p][i].attempt \in 1 .. MaxAttempts
    /\ \A i \in timers[p] : jobs[p][i].attempt < MaxAttempts

QueueInv == \A p \in Procs : HeldOnce(p) /\ HeldIfAlive(p) /\ WithinLimits(p)

IInv == TypeInv /\ QueueInv

-----------------------------------------------------------------------------
LEMMA IdleScans == Idle \in Scans /\ Idle.pc = "idle"
  BY DEF Idle, Scans

(* A process whose queue is empty.                                         *)
LEMMA EmptyQueue ==
    ASSUME NEW p \in Procs, jobs[p] = NoJobs, buffer[p] = <<>>, timers[p] = {},
           busy[p] = AllIdle
    PROVE  HeldOnce(p) /\ HeldIfAlive(p) /\ WithinLimits(p)
  <1>1. Len(buffer[p]) = 0
    OBVIOUS
  <1>2. Buffered(p) = {} /\ Sent(p) = {}
    BY <1>1 DEF Buffered, Sent, AllIdle
  <1>3. Delivering(p) = {}
    BY <1>2 DEF Delivering
  <1> QED BY <1>1, <1>2, <1>3, AlertsAssumption
          DEF HeldOnce, HeldIfAlive, WithinLimits, NoJobs

LEMMA InitIInv == Init => IInv
  <1> SUFFICES ASSUME Init PROVE IInv
    OBVIOUS
  <1>1. TypeInv
    <2>1. buffer \in [Procs -> Seq(Slots)]
      BY DEF Init
    <2>2. ScanTypes
      BY IdleScans DEF Init, ScanTypes
    <2> QED BY <2>1, <2>2, AlertsAssumption
            DEF Init, TypeInv, QueueTypes, NoJobs, AllIdle
  <1>2. QueueInv
    BY EmptyQueue DEF Init, QueueInv
  <1> QED BY <1>1, <1>2 DEF IInv

-----------------------------------------------------------------------------
(* The queue.                                                              *)

(* A step on the queue of one process leaves those of the others alone.    *)
LEMMA OthersKeep ==
    ASSUME QueueInv, NEW p \in Procs,
           \A q \in Procs \ {p} : /\ jobs'[q] = jobs[q] /\ buffer'[q] = buffer[q]
                                  /\ busy'[q] = busy[q] /\ timers'[q] = timers[q],
           (HeldOnce(p) /\ HeldIfAlive(p) /\ WithinLimits(p))'
    PROVE  QueueInv'
  <1> SUFFICES ASSUME NEW q \in Procs \ {p}
               PROVE  (HeldOnce(q) /\ HeldIfAlive(q) /\ WithinLimits(q))'
    BY DEF QueueInv
  <1>1. /\ jobs'[q] = jobs[q] /\ buffer'[q] = buffer[q]
        /\ busy'[q] = busy[q] /\ timers'[q] = timers[q]
    OBVIOUS
  <1>2. Buffered(q)' = Buffered(q) /\ Sent(q)' = Sent(q) /\ Delivering(q)' = Delivering(q)
    BY <1>1 DEF Buffered, Sent, Delivering
  <1>3. HeldOnce(q) /\ HeldIfAlive(q) /\ WithinLimits(q)
    BY DEF QueueInv
  <1> QED BY <1>1, <1>2, <1>3 DEF HeldOnce, HeldIfAlive, WithinLimits

(* Sending to the channel and receiving from it.                           *)
LEMMA SendBuffers ==
    ASSUME NEW p \in Procs, buffer[p] \in Seq(Slots), NEW i \in Slots, i \notin Buffered(p),
           \A m, n \in 1 .. Len(buffer[p]) : buffer[p][m] = buffer[p][n] => m = n,
           buffer'[p] = Append(buffer[p], i)
    PROVE  /\ buffer'[p] \in Seq(Slots) /\ Len(buffer'[p]) = Len(buffer[p]) + 1
           /\ Buffered(p)' = Buffered(p) \cup {i}
           /\ \A m, n \in 1 .. Len(buffer'[p]) : buffer'[p][m] = buffer'[p][n] => m = n
  <1>1. /\ buffer'[p] \in Seq(Slots) /\ Len(buffer'[p]) = Len(buffer[p]) + 1
        /\ Len(buffer[p]) \in Nat
        /\ \A n \in 1 .. Len(buffer[p]) : buffer'[p][n] = buffer[p][n]
        /\ buffer'[p][Len(buffer[p]) + 1] = i
    BY AppendProperties
  <1>2. \A n : n \in 1 .. Len(buffer'[p]) <=> n \in 1 .. Len(buffer[p]) \/ n = Len(buffer[p]) + 1
    BY <1>1
  <1>3. Buffered(p)' = Buffered(p) \cup {i}
    BY <1>1, <1>2 DEF Buffered
  <1>4. \A m, n \in 1 .. Len(buffer'[p]) : buffer'[p][m] = buffer'[p][n] => m = n
    BY <1>1, <1>2 DEF Buffered
  <1> QED BY <1>1, <1>3, <1>4

LEMMA ReceiveUnbuffers ==
    ASSUME NEW p \in Procs, buffer[p] \in Seq(Slots), buffer[p] # <<>>,
           \A m, n \in 1 .. Len(buffer[p]) : buffer[p][m] = buffer[p][n] => m = n,
           buffer'[p] = Tail(buffer[p])
    PROVE  /\ buffer'[p] \in Seq(Slots) /\ Len(buffer'[p]) = Len(buffer[p]) - 1
           /\ Head(buffer[p]) \in Buffered(p) /\ Head(buffer[p]) \in Slots
           /\ Buffered(p)' = Buffered(p) \ {Head(buffer[p])}
           /\ \A m, n \in 1 .. Len(buffer'[p]) : buffer'[p][m] = buffer'[p][n] => m = n
  <1> DEFINE b == buffer[p]
             c == buffer'[p]
  <1>1. /\ c \in Seq(Slots) /\ Len(c) = Len(b) - 1 /\ Len(b) \in Nat \ {0}
        /\ \A n \in 1 .. Len(c) : c[n] = b[n + 1]
        /\ Head(b) = b[1] /\ Head(b) \in Slots
    BY HeadTailProperties
  <1>2. /\ \A n \in 1 .. Len(c) : n + 1 \in 1 .. Len(b) /\ n + 1 # 1
        /\ \A n \in 1 .. Len(b) : n # 1 => n - 1 \in 1 .. Len(c) /\ (n - 1) + 1 = n
        /\ 1 \in 1 .. Len(b)
    BY <1>1
  <1>3. Buffered(p)' = Buffered(p) \ {b[1]}
    <2>1. ASSUME NEW j \in Buffered(p)' PROVE j \in Buffered(p) \ {b[1]}
      <3>1. PICK n \in 1 .. Len(c) : j = b[n + 1]
        BY <1>1, <2>1 DEF Buffered
      <3> QED BY <1>2, <3>1 DEF Buffered
    <2>2. ASSUME NEW j \in Buffered(p), j # b[1] PROVE j \in Buffered(p)'
      <3>1. PICK n \in 1 .. Len(b) : j = b[n] /\ n # 1
        BY <2>2 DEF Buffered
      <3>2. n - 1 \in 1 .. Len(c) /\ j = c[n - 1]
        BY <1>1, <1>2, <3>1
      <3> QED BY <3>2 DEF Buffered
    <2> QED BY <2>1, <2>2
  <1>4. \A m, n \in 1 .. Len(c) : c[m] = c[n] => m = n
    <2> TAKE m, n \in 1 .. Len(c)
    <2>1. c[m] = c[n] => m + 1 = n + 1
      BY <1>1, <1>2
    <2> QED BY <1>1, <2>1
  <1>5. b[1] \in Buffered(p)
    BY <1>2 DEF Buffered
  <1> QED BY <1>1, <1>3, <1>4, <1>5

(* A worker that was idle has a notification, and one that is done.        *)
LEMMA WorkerBegins ==
    ASSUME NEW p \in Procs, busy[p] \in [Workers -> Sends \cup {None}], HeldOnce(p),
           NEW w \in Workers, busy[p][w] = None, NEW i \in Slots, i \notin Delivering(p),
           busy'[p] = [busy[p] EXCEPT ![w] = [slot |-> i, failed |-> FALSE]]
    PROVE  /\ busy'[p] \in [Workers -> Sends \cup {None}]
           /\ Delivering(p)' = Delivering(p) \cup {i}
           /\ \A u, v \in Sent(p)' : busy'[p][u].slot = busy'[p][v].slot => u = v
  <1>1. [slot |-> i, failed |-> FALSE] \in Sends /\ [slot |-> i, failed |-> FALSE] # None
    <2>1. i \in Nat
      BY DEF Slots
    <2>2. PICK r : r = [slot |-> i, failed |-> FALSE]
      OBVIOUS
    <2>3. r \in Sends /\ r \in [slot : Nat, failed : BOOLEAN]
      BY <2>1, <2>2 DEF Sends
    <2> QED BY <2>2, <2>3, AlertsAssumption
  <1>2. /\ busy'[p] \in [Workers -> Sends \cup {None}]
        /\ Sent(p)' = Sent(p) \cup {w} /\ w \notin Sent(p)
        /\ busy'[p][w].slot = i /\ \A v \in Sent(p) : busy'[p][v] = busy[p][v]
    BY <1>1 DEF Sent
  <1> QED BY <1>2 DEF Delivering, HeldOnce

LEMMA WorkerEnds ==
    ASSUME NEW p \in Procs, busy[p] \in [Workers -> Sends \cup {None}], HeldOnce(p),
           NEW w \in Sent(p), busy'[p] = [busy[p] EXCEPT ![w] = None]
    PROVE  /\ busy'[p] \in [Workers -> Sends \cup {None}]
           /\ busy[p][w].slot \in Delivering(p) /\ busy[p][w].slot \in Slots
           /\ Delivering(p)' = Delivering(p) \ {busy[p][w].slot}
           /\ \A u, v \in Sent(p)' : busy'[p][u].slot = busy'[p][v].slot => u = v
  <1>1. /\ busy'[p] \in [Workers -> Sends \cup {None}] /\ Sent(p)' = Sent(p) \ {w}
        /\ \A v \in Sent(p)' : busy'[p][v] = busy[p][v]
    BY DEF Sent
  <1>2. busy[p][w] \in Sends
    BY DEF Sent
  <1>3. \A v \in Sent(p) \ {w} : busy[p][v].slot # busy[p][w].slot
    BY DEF HeldOnce
  <1> QED BY <1>1, <1>2, <1>3 DEF Delivering, HeldOnce, Sends

-----------------------------------------------------------------------------
(* Each action of the queue.                                               *)

(* A notification goes into the channel, with its slot in no other place.  *)
LEMMA SendKeeps ==
    ASSUME QueueTypes, QueueInv, NEW p \in Procs, NEW i \in Slots, NEW job \in Jobs,
           job # None, job.attempt \in 1 .. MaxAttempts,
           i \notin Buffered(p) \cup Delivering(p),
           Send(p, i), SetJob(p, i, job), UNCHANGED busy,
           timers' = [timers EXCEPT ![p] = @ \ {i}]
    PROVE  QueueTypes' /\ QueueInv'
  <1>1. HeldOnce(p) /\ HeldIfAlive(p) /\ WithinLimits(p)
    BY DEF QueueInv
  <1>2. /\ jobs' = [jobs EXCEPT ![p] = [jobs[p] EXCEPT ![i] = job]]
        /\ buffer' = [buffer EXCEPT ![p] = Append(buffer[p], i)]
        /\ timers' = [timers EXCEPT ![p] = timers[p] \ {i}]
        /\ Len(buffer[p]) < Buffer
    BY DEF Send, SetJob, Room
  <1>3. /\ jobs'[p] = [jobs[p] EXCEPT ![i] = job] /\ buffer'[p] = Append(buffer[p], i)
        /\ timers'[p] = timers[p] \ {i} /\ busy'[p] = busy[p]
        /\ \A q \in Procs \ {p} : /\ jobs'[q] = jobs[q] /\ buffer'[q] = buffer[q]
                                  /\ busy'[q] = busy[q] /\ timers'[q] = timers[q]
    BY <1>2 DEF QueueTypes
  <1>4. buffer[p] \in Seq(Slots) /\ jobs[p] \in [Slots -> Jobs \cup {None}]
    BY DEF QueueTypes
  <1>5. /\ buffer'[p] \in Seq(Slots) /\ Len(buffer'[p]) = Len(buffer[p]) + 1
        /\ Buffered(p)' = Buffered(p) \cup {i}
        /\ \A m, n \in 1 .. Len(buffer'[p]) : buffer'[p][m] = buffer'[p][n] => m = n
    BY <1>1, <1>3, <1>4, SendBuffers DEF HeldOnce
  <1>6. Delivering(p)' = Delivering(p) /\ Sent(p)' = Sent(p)
    BY <1>3 DEF Delivering, Sent
  <1>7. QueueTypes'
    <2>1. jobs' \in [Procs -> [Slots -> Jobs \cup {None}]]
      BY <1>2, <1>4 DEF QueueTypes
    <2>2. buffer' \in [Procs -> Seq(Slots)]
      BY <1>2, <1>3, <1>5 DEF QueueTypes
    <2> QED BY <1>2, <2>1, <2>2 DEF QueueTypes
  <1>8. HeldOnce(p)'
    BY <1>1, <1>3, <1>5, <1>6 DEF HeldOnce
  <1>9. HeldIfAlive(p)'
    BY <1>1, <1>3, <1>4, <1>5, <1>6 DEF HeldIfAlive
  <1>10. WithinLimits(p)'
    <2>1. Len(buffer'[p]) <= Buffer
      BY <1>2, <1>4, <1>5, AlertsAssumption
    <2> QED BY <1>1, <1>3, <1>4, <2>1 DEF WithinLimits
  <1> QED BY <1>3, <1>7, <1>8, <1>9, <1>10, OthersKeep

(* The scanner inserts a notification.                                     *)
LEMMA InsertKeeps ==
    ASSUME IInv, NEW p \in Procs, NEW i \in Slots, Insert(p, i)
    PROVE  IInv'
  <1> USE DEF IInv, TypeInv
  <1>1. scan[p] \in Scans /\ scan[p].asset \in Assets
    BY DEF Insert, ScanTypes
  <1>2. PICK job : job = [asset |-> scan[p].asset, attempt |-> 1]
    OBVIOUS
  <1>3. job \in Jobs /\ job # None /\ job.attempt \in 1 .. MaxAttempts
    <2>1. job \in [asset : Assets, attempt : Nat] /\ job.attempt = 1
      BY <1>1, <1>2
    <2> QED BY <2>1, AlertsAssumption DEF Jobs
  <1>4. /\ Send(p, i) /\ SetJob(p, i, job)
        /\ UNCHANGED <<stale, quiet, busy, timers, told, faults>>
    BY <1>2 DEF Insert, rows
  <1>5. i \notin Buffered(p) \cup Delivering(p) \cup timers[p]
    BY DEF Insert, QueueInv, HeldIfAlive
  <1>6. timers' = [timers EXCEPT ![p] = @ \ {i}]
    BY <1>4, <1>5 DEF QueueTypes
  <1>7. QueueTypes' /\ QueueInv'
    BY <1>3, <1>4, <1>5, <1>6, SendKeeps
  <1>8. ScanTypes'
    <2>1. PICK s : s = IF scan[p].todo = {} THEN Idle
                       ELSE [pc |-> "next", todo |-> scan[p].todo, asset |-> None]
      OBVIOUS
    <2>2. s \in Scans /\ s.pc \in {"idle", "next"}
      BY <1>1, <2>1, IdleScans DEF Scans
    <2>3. scan' = [scan EXCEPT ![p] = s]
      BY <2>1 DEF Insert
    <2> QED BY <1>4, <2>2, <2>3 DEF ScanTypes
  <1> QED BY <1>4, <1>7, <1>8

(* A notification is sent to the channel again when its delay is over.     *)
LEMMA ResendKeeps ==
    ASSUME IInv, NEW p \in Procs, NEW i \in Slots, Resend(p, i)
    PROVE  IInv'
  <1> USE DEF IInv, TypeInv
  <1>1. HeldOnce(p) /\ HeldIfAlive(p) /\ WithinLimits(p) /\ i \in timers[p]
    BY DEF Resend, QueueInv
  <1>2. jobs[p][i] # None /\ jobs[p][i].attempt < MaxAttempts
    BY <1>1 DEF HeldIfAlive, WithinLimits
  <1>3. jobs[p][i] \in Jobs /\ jobs[p][i].attempt \in 1 .. MaxAttempts
    BY <1>1, <1>2 DEF QueueTypes, WithinLimits
  <1>4. Retried(p, i) \in Jobs /\ Retried(p, i) # None
        /\ Retried(p, i).attempt \in 1 .. MaxAttempts
    <2>1. /\ Retried(p, i) \in [asset : Assets, attempt : Nat]
          /\ Retried(p, i).attempt = jobs[p][i].attempt + 1
      BY <1>3 DEF Retried, Jobs
    <2> QED BY <1>2, <1>3, <2>1, AlertsAssumption DEF Jobs
  <1>5. i \notin Buffered(p) \cup Delivering(p)
    BY <1>1 DEF HeldOnce
  <1>6. QueueTypes' /\ QueueInv'
    BY <1>4, <1>5, SendKeeps DEF Resend
  <1> QED BY <1>6 DEF Resend, ScanTypes, rows

(* A worker's notification settles.                                        *)
LEMMA SettleKeeps ==
    ASSUME IInv, NEW p \in Procs, NEW w \in Sent(p), Settle(p, busy[p][w].slot),
           SetBusy(p, w, None), UNCHANGED <<rows, scan, faults>>
    PROVE  IInv'
  <1> USE DEF IInv, TypeInv
  <1>1. PICK i : i = busy[p][w].slot
    OBVIOUS
  <1>2. /\ jobs' = [jobs EXCEPT ![p] = [jobs[p] EXCEPT ![i] = None]]
        /\ busy' = [busy EXCEPT ![p] = [busy[p] EXCEPT ![w] = None]]
        /\ UNCHANGED <<buffer, timers>>
        /\ told' = told \cup ({jobs[p][i].asset} \cap stale)
    BY <1>1 DEF Settle, SetJob, SetBusy
  <1>3. /\ jobs'[p] = [jobs[p] EXCEPT ![i] = None] /\ busy'[p] = [busy[p] EXCEPT ![w] = None]
        /\ buffer'[p] = buffer[p] /\ timers'[p] = timers[p]
        /\ \A q \in Procs \ {p} : /\ jobs'[q] = jobs[q] /\ buffer'[q] = buffer[q]
                                  /\ busy'[q] = busy[q] /\ timers'[q] = timers[q]
    BY <1>2 DEF QueueTypes
  <1>4. HeldOnce(p) /\ HeldIfAlive(p) /\ WithinLimits(p)
    BY DEF QueueInv
  <1>5. busy[p] \in [Workers -> Sends \cup {None}] /\ jobs[p] \in [Slots -> Jobs \cup {None}]
    BY DEF QueueTypes
  <1>6. /\ busy'[p] \in [Workers -> Sends \cup {None}]
        /\ i \in Delivering(p) /\ i \in Slots
        /\ Delivering(p)' = Delivering(p) \ {i}
        /\ \A u, v \in Sent(p)' : busy'[p][u].slot = busy'[p][v].slot => u = v
    BY <1>1, <1>3, <1>4, <1>5, WorkerEnds
  <1>7. Buffered(p)' = Buffered(p)
    BY <1>3 DEF Buffered
  <1>8. QueueTypes'
    <2>1. jobs' \in [Procs -> [Slots -> Jobs \cup {None}]]
      BY <1>2, <1>5 DEF QueueTypes
    <2>2. busy' \in [Procs -> [Workers -> Sends \cup {None}]]
      BY <1>2, <1>3, <1>6 DEF QueueTypes
    <2> QED BY <1>2, <2>1, <2>2 DEF QueueTypes
  <1>9. HeldOnce(p)'
    BY <1>3, <1>4, <1>6, <1>7 DEF HeldOnce
  <1>10. HeldIfAlive(p)'
    BY <1>3, <1>4, <1>5, <1>6, <1>7 DEF HeldOnce, HeldIfAlive
  <1>11. WithinLimits(p)'
    <2>1. i \notin timers[p]
      BY <1>4, <1>6 DEF HeldOnce
    <2> QED BY <1>3, <1>4, <1>5, <1>6, <2>1 DEF WithinLimits
  <1>12. QueueInv'
    BY <1>3, <1>9, <1>10, <1>11, OthersKeep
  <1> QED BY <1>2, <1>8, <1>12 DEF ScanTypes, rows

(* The steps of a worker.                                                  *)
LEMMA TakeKeeps ==
    ASSUME IInv, NEW p \in Procs, NEW w \in Workers, Take(p, w)
    PROVE  IInv'
  <1> USE DEF IInv, TypeInv
  <1>1. PICK i : i = Head(buffer[p])
    OBVIOUS
  <1>2. /\ buffer' = [buffer EXCEPT ![p] = Tail(buffer[p])]
        /\ buffer[p] # <<>> /\ busy[p][w] = None
        /\ busy' = [busy EXCEPT ![p] = [busy[p] EXCEPT ![w] = [slot |-> i, failed |-> FALSE]]]
        /\ UNCHANGED <<rows, scan, jobs, timers, told, faults>>
    BY <1>1 DEF Take, SetBusy
  <1>3. /\ busy'[p] = [busy[p] EXCEPT ![w] = [slot |-> i, failed |-> FALSE]]
        /\ jobs'[p] = jobs[p] /\ buffer'[p] = Tail(buffer[p]) /\ timers'[p] = timers[p]
        /\ \A q \in Procs \ {p} : /\ jobs'[q] = jobs[q] /\ buffer'[q] = buffer[q]
                                  /\ busy'[q] = busy[q] /\ timers'[q] = timers[q]
    BY <1>2 DEF QueueTypes
  <1>4. HeldOnce(p) /\ HeldIfAlive(p) /\ WithinLimits(p)
    BY DEF QueueInv
  <1>5. buffer[p] \in Seq(Slots) /\ busy[p] \in [Workers -> Sends \cup {None}]
    BY DEF QueueTypes
  <1>6. /\ buffer'[p] \in Seq(Slots) /\ Len(buffer'[p]) = Len(buffer[p]) - 1
        /\ i \in Buffered(p) /\ i \in Slots
        /\ Buffered(p)' = Buffered(p) \ {i}
        /\ \A m, n \in 1 .. Len(buffer'[p]) : buffer'[p][m] = buffer'[p][n] => m = n
    BY <1>1, <1>2, <1>3, <1>4, <1>5, ReceiveUnbuffers DEF HeldOnce
  <1>7. i \notin Delivering(p) /\ i \notin timers[p]
    BY <1>4, <1>6 DEF HeldOnce
  <1>8. /\ busy'[p] \in [Workers -> Sends \cup {None}]
        /\ Delivering(p)' = Delivering(p) \cup {i}
        /\ \A u, v \in Sent(p)' : busy'[p][u].slot = busy'[p][v].slot => u = v
    BY <1>2, <1>3, <1>4, <1>5, <1>6, <1>7, WorkerBegins
  <1>9. HeldOnce(p)'
    BY <1>3, <1>4, <1>6, <1>7, <1>8 DEF HeldOnce
  <1>10. HeldIfAlive(p)'
    BY <1>3, <1>4, <1>6, <1>7, <1>8 DEF HeldIfAlive
  <1>11. WithinLimits(p)'
    <2>1. Len(buffer'[p]) <= Buffer
      BY <1>4, <1>5, <1>6, AlertsAssumption DEF WithinLimits
    <2> QED BY <1>3, <1>4, <2>1 DEF WithinLimits
  <1>12. QueueTypes'
    <2>1. buffer' \in [Procs -> Seq(Slots)]
      BY <1>2, <1>3, <1>6 DEF QueueTypes
    <2>2. busy' \in [Procs -> [Workers -> Sends \cup {None}]]
      BY <1>2, <1>3, <1>8 DEF QueueTypes
    <2> QED BY <1>2, <2>1, <2>2 DEF QueueTypes
  <1>13. QueueInv'
    BY <1>3, <1>9, <1>10, <1>11, OthersKeep
  <1> QED BY <1>2, <1>12, <1>13 DEF ScanTypes, rows

LEMMA DeliverFailsKeeps ==
    ASSUME IInv, NEW p \in Procs, NEW w \in Workers, DeliverFails(p, w)
    PROVE  IInv'
  <1> USE DEF IInv, TypeInv
  <1>1. busy[p] \in [Workers -> Sends \cup {None}] /\ busy[p][w] # None
    BY DEF DeliverFails, Sending, QueueTypes
  <1>2. PICK r : r = [slot |-> busy[p][w].slot, failed |-> TRUE]
    OBVIOUS
  <1>3. r \in Sends /\ r # None /\ r.slot = busy[p][w].slot
    <2>1. busy[p][w] \in Sends
      BY <1>1
    <2>2. busy[p][w].slot \in Slots /\ busy[p][w].slot \in Nat
      BY <2>1 DEF Sends, Slots
    <2>3. r \in Sends /\ r \in [slot : Nat, failed : BOOLEAN] /\ r.slot = busy[p][w].slot
      BY <1>2, <2>2 DEF Sends
    <2> QED BY <2>3, AlertsAssumption
  <1>4. /\ busy' = [busy EXCEPT ![p] = [busy[p] EXCEPT ![w] = r]]
        /\ UNCHANGED <<rows, scan, jobs, buffer, timers, told, faults>>
    BY <1>2 DEF DeliverFails, SetBusy
  <1>5. /\ busy'[p] = [busy[p] EXCEPT ![w] = r]
        /\ jobs'[p] = jobs[p] /\ buffer'[p] = buffer[p] /\ timers'[p] = timers[p]
        /\ \A q \in Procs \ {p} : /\ jobs'[q] = jobs[q] /\ buffer'[q] = buffer[q]
                                  /\ busy'[q] = busy[q] /\ timers'[q] = timers[q]
    BY <1>4 DEF QueueTypes
  <1>6. /\ busy'[p] \in [Workers -> Sends \cup {None}] /\ Sent(p)' = Sent(p)
        /\ \A v \in Sent(p) : busy'[p][v].slot = busy[p][v].slot
    BY <1>1, <1>3, <1>5 DEF Sent
  <1>7. Delivering(p)' = Delivering(p) /\ Buffered(p)' = Buffered(p)
    BY <1>5, <1>6 DEF Delivering, Buffered
  <1>8. (HeldOnce(p) /\ HeldIfAlive(p) /\ WithinLimits(p))'
    BY <1>5, <1>6, <1>7 DEF QueueInv, HeldOnce, HeldIfAlive, WithinLimits
  <1>9. QueueInv'
    BY <1>5, <1>8, OthersKeep
  <1>10. QueueTypes'
    <2>1. busy' \in [Procs -> [Workers -> Sends \cup {None}]]
      BY <1>4, <1>5, <1>6 DEF QueueTypes
    <2> QED BY <1>4, <2>1 DEF QueueTypes
  <1> QED BY <1>4, <1>9, <1>10 DEF ScanTypes, rows

LEMMA PostponeKeeps ==
    ASSUME IInv, NEW p \in Procs, NEW w \in Workers, AfterFailure(p, w),
           Retries(p, busy[p][w].slot)
    PROVE  IInv'
  <1> USE DEF IInv, TypeInv
  <1>1. PICK i : i = busy[p][w].slot
    OBVIOUS
  <1>2. /\ timers' = [timers EXCEPT ![p] = timers[p] \cup {i}]
        /\ jobs[p][i].attempt < MaxAttempts
        /\ busy' = [busy EXCEPT ![p] = [busy[p] EXCEPT ![w] = None]] /\ w \in Sent(p)
        /\ UNCHANGED <<rows, scan, jobs, buffer, told, faults>>
    BY <1>1 DEF AfterFailure, Postpone, Retries, Sent, SetBusy
  <1>3. /\ busy'[p] = [busy[p] EXCEPT ![w] = None] /\ timers'[p] = timers[p] \cup {i}
        /\ jobs'[p] = jobs[p] /\ buffer'[p] = buffer[p]
        /\ \A q \in Procs \ {p} : /\ jobs'[q] = jobs[q] /\ buffer'[q] = buffer[q]
                                  /\ busy'[q] = busy[q] /\ timers'[q] = timers[q]
    BY <1>2 DEF QueueTypes
  <1>4. HeldOnce(p) /\ HeldIfAlive(p) /\ WithinLimits(p)
    BY DEF QueueInv
  <1>5. busy[p] \in [Workers -> Sends \cup {None}]
    BY DEF QueueTypes
  <1>6. /\ busy'[p] \in [Workers -> Sends \cup {None}]
        /\ i \in Delivering(p) /\ i \in Slots
        /\ Delivering(p)' = Delivering(p) \ {i}
        /\ \A u, v \in Sent(p)' : busy'[p][u].slot = busy'[p][v].slot => u = v
    BY <1>1, <1>2, <1>3, <1>4, <1>5, WorkerEnds
  <1>7. Buffered(p)' = Buffered(p)
    BY <1>3 DEF Buffered
  <1>8. HeldOnce(p)'
    BY <1>3, <1>4, <1>6, <1>7 DEF HeldOnce
  <1>9. HeldIfAlive(p)'
    BY <1>3, <1>4, <1>6, <1>7 DEF HeldIfAlive
  <1>10. WithinLimits(p)'
    BY <1>2, <1>3, <1>4 DEF WithinLimits
  <1>11. QueueInv'
    BY <1>3, <1>8, <1>9, <1>10, OthersKeep
  <1>12. QueueTypes'
    <2>1. busy' \in [Procs -> [Workers -> Sends \cup {None}]]
      BY <1>2, <1>3, <1>6 DEF QueueTypes
    <2>2. timers' \in [Procs -> SUBSET Slots]
      BY <1>2, <1>6 DEF QueueTypes
    <2> QED BY <1>2, <2>1, <2>2 DEF QueueTypes
  <1> QED BY <1>2, <1>11, <1>12 DEF ScanTypes, rows

LEMMA WorkKeeps ==
    ASSUME IInv, NEW p \in Procs, NEW w \in Workers, Work(p, w)
    PROVE  IInv'
  <1>1. CASE Deliver(p, w)
    BY <1>1, SettleKeeps DEF Deliver, Sending, Sent
  <1>2. CASE AfterFailure(p, w) /\ ~ Retries(p, busy[p][w].slot)
    BY <1>2, SettleKeeps DEF AfterFailure, Sent
  <1>3. CASE AfterFailure(p, w) /\ Retries(p, busy[p][w].slot)
    BY <1>3, PostponeKeeps
  <1> QED BY <1>1, <1>2, <1>3, TakeKeeps, DeliverFailsKeeps DEF Work

(* The death of the process empties the queue.                             *)
LEMMA CrashKeeps ==
    ASSUME IInv, NEW p \in Procs, Crash(p)
    PROVE  IInv'
  <1> USE DEF IInv, TypeInv
  <1>1. /\ scan' = [scan EXCEPT ![p] = Idle] /\ jobs' = [jobs EXCEPT ![p] = NoJobs]
        /\ buffer' = [buffer EXCEPT ![p] = <<>>] /\ timers' = [timers EXCEPT ![p] = {}]
        /\ busy' = [busy EXCEPT ![p] = AllIdle]
        /\ UNCHANGED <<stale, quiet, told>> /\ faults' \in Nat
    BY DEF Crash, Fault, rows
  <1>2. /\ jobs'[p] = NoJobs /\ buffer'[p] = <<>> /\ timers'[p] = {} /\ busy'[p] = AllIdle
        /\ \A q \in Procs \ {p} : /\ jobs'[q] = jobs[q] /\ buffer'[q] = buffer[q]
                                  /\ busy'[q] = busy[q] /\ timers'[q] = timers[q]
    BY <1>1 DEF QueueTypes
  <1>3. (HeldOnce(p) /\ HeldIfAlive(p) /\ WithinLimits(p))'
    <2>1. Len(buffer'[p]) = 0
      BY <1>2
    <2>2. Buffered(p)' = {} /\ Sent(p)' = {}
      BY <1>2, <2>1 DEF Buffered, Sent, AllIdle
    <2>3. Delivering(p)' = {}
      BY <2>2 DEF Delivering
    <2> QED BY <1>2, <2>1, <2>2, <2>3, AlertsAssumption
            DEF HeldOnce, HeldIfAlive, WithinLimits, NoJobs
  <1>4. QueueInv'
    BY <1>2, <1>3, OthersKeep
  <1>5. QueueTypes'
    <2>1. /\ jobs' \in [Procs -> [Slots -> Jobs \cup {None}]]
          /\ busy' \in [Procs -> [Workers -> Sends \cup {None}]]
      BY <1>1 DEF QueueTypes, NoJobs, AllIdle
    <2>2. buffer' \in [Procs -> Seq(Slots)]
      BY <1>1 DEF QueueTypes
    <2> QED BY <1>1, <2>1, <2>2 DEF QueueTypes
  <1>6. ScanTypes'
    BY <1>1, IdleScans DEF ScanTypes
  <1> QED BY <1>1, <1>4, <1>5, <1>6

(* The scanners and time leave the queues alone.                           *)
LEMMA ScanKeeps ==
    ASSUME IInv, UNCHANGED queue,
           \/ UNCHANGED vars
           \/ \E a \in Assets : Succeed(a) \/ SuccessAges(a) \/ MarkerAges(a)
           \/ \E p \in Procs : \/ Select(p) \/ Commit(p) \/ CommitFails(p)
                               \/ \E a \in Assets : Mark(p, a)
    PROVE  IInv'
  <1> USE DEF IInv, TypeInv
  <1>1. QueueTypes'
    BY DEF queue, QueueTypes
  <1>2. QueueInv'
    <2> SUFFICES ASSUME NEW p \in Procs
                 PROVE  (HeldOnce(p) /\ HeldIfAlive(p) /\ WithinLimits(p))'
      BY DEF QueueInv
    <2>1. Buffered(p)' = Buffered(p) /\ Sent(p)' = Sent(p) /\ Delivering(p)' = Delivering(p)
      BY DEF queue, Buffered, Sent, Delivering
    <2> QED BY <2>1 DEF queue, QueueInv, HeldOnce, HeldIfAlive, WithinLimits
  <1> SUFFICES ScanTypes' /\ told' \in SUBSET Assets /\ faults' \in Nat
    BY <1>1, <1>2
  <1>3. ASSUME NEW p \in Procs, Select(p)
        PROVE  ScanTypes' /\ told' \in SUBSET Assets /\ faults' \in Nat
    BY <1>3 DEF Select, Breaching, ScanTypes, Scans, rows
  <1>4. ASSUME NEW p \in Procs, NEW a \in Assets, Mark(p, a)
        PROVE  ScanTypes' /\ told' \in SUBSET Assets /\ faults' \in Nat
    BY <1>4 DEF Mark, ScanTypes, Scans, rows
  <1>5. ASSUME NEW p \in Procs, Commit(p)
        PROVE  ScanTypes' /\ told' \in SUBSET Assets /\ faults' \in Nat
    BY <1>5 DEF Commit, ScanTypes, Scans
  <1>6. ASSUME NEW p \in Procs, CommitFails(p)
        PROVE  ScanTypes' /\ told' \in SUBSET Assets /\ faults' \in Nat
    <2>1. quiet' \in SUBSET Assets
      BY <1>6 DEF CommitFails, ScanTypes
    <2> QED BY <1>6, <2>1, IdleScans DEF CommitFails, Fault, ScanTypes
  <1>7. ASSUME NEW a \in Assets, Succeed(a) \/ SuccessAges(a) \/ MarkerAges(a)
        PROVE  ScanTypes' /\ told' \in SUBSET Assets /\ faults' \in Nat
    BY <1>7 DEF Succeed, SuccessAges, MarkerAges, ScanTypes
  <1>8. CASE UNCHANGED vars
    BY <1>8 DEF vars, rows, ScanTypes
  <1> QED BY <1>3, <1>4, <1>5, <1>6, <1>7, <1>8

LEMMA NextKeeps == IInv /\ [Next]_vars => IInv'
  <1> SUFFICES ASSUME IInv, [Next]_vars PROVE IInv'
    OBVIOUS
  <1>1. CASE \/ UNCHANGED vars
             \/ \E a \in Assets : Succeed(a) \/ SuccessAges(a) \/ MarkerAges(a)
             \/ \E p \in Procs : \/ Select(p) \/ Commit(p) \/ CommitFails(p)
                                 \/ \E a \in Assets : Mark(p, a)
    <2>1. UNCHANGED queue
      BY <1>1 DEF Select, Commit, CommitFails, vars, Mark, Succeed, SuccessAges, MarkerAges
    <2> QED BY <1>1, <2>1, ScanKeeps
  <1> QED BY <1>1, InsertKeeps, ResendKeeps, WorkKeeps, CrashKeeps DEF Next, Scan

(* A queue neither loses nor copies a notification while its process       *)
(* lives: it is in the channel, with one worker or with one timer, within  *)
(* the capacity of the channel and the attempts of its InsertOpts.         *)
THEOREM NotificationHeldOnce == Spec => [](TypeInv /\ QueueInv)
  <1>1. IInv => TypeInv /\ QueueInv
    BY DEF IInv
  <1> QED BY <1>1, InitIInv, NextKeeps, PTL DEF Spec

=============================================================================
