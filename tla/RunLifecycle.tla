---------------------------- MODULE RunLifecycle ----------------------------
(***************************************************************************)
(* What the run engine promises of one row of the runs table, whatever     *)
(* workers, reapers, crashes and retries do to it: it is inserted queued,  *)
(* moves only along the edges of the lifecycle state machine, never leaves *)
(* a terminal state, and succeeds only after every step of its plan has    *)
(* committed its results.                                                  *)
(***************************************************************************)
EXTENDS RunStates

CONSTANTS Runs,        \* run ids
          StepsOf      \* StepsOf[r]: the set of steps in the plan of run r

VARIABLES state,       \* runs.state
          done         \* the steps of each run whose results are committed

vars == <<state, done>>

Init == /\ state = [r \in Runs |-> "absent"]
        /\ done  = [r \in Runs |-> {}]

Enqueue(r) == /\ state[r] = "absent"
              /\ state' = [state EXCEPT ![r] = "queued"]
              /\ UNCHANGED done

(* A forward edge; success needs the whole plan committed.                 *)
Advance(r, to) == /\ <<state[r], to>> \in legalTransitions
                  /\ to = "succeeded" => done[r] = StepsOf[r]
                  /\ state' = [state EXCEPT ![r] = to]
                  /\ UNCHANGED done

(* The crash-recovery edge back to the queue.                              *)
Reset(r) == /\ <<state[r], "queued">> \in resetTransitions
            /\ state' = [state EXCEPT ![r] = "queued"]
            /\ UNCHANGED done

(* A step's results become durable; only a run that exists has steps.      *)
CommitStep(r, s) == /\ state[r] # "absent"
                    /\ s \in StepsOf[r]
                    /\ done' = [done EXCEPT ![r] = @ \cup {s}]
                    /\ UNCHANGED state

Next == \E r \in Runs : \/ Enqueue(r)
                        \/ \E to \in States : Advance(r, to)
                        \/ Reset(r)
                        \/ \E s \in StepsOf[r] : CommitStep(r, s)

Spec == Init /\ [][Next]_vars
=============================================================================
