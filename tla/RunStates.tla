------------------------------ MODULE RunStates ------------------------------
(***************************************************************************)
(* The value space of the runs table that the executor, the claim query    *)
(* and the reaper share: run states, the edges of the lifecycle state      *)
(* machine and the priority tiers (package run).                           *)
(***************************************************************************)
EXTENDS Integers

(* "absent" stands for a run whose row has not been inserted yet.          *)
Terminal == {"succeeded", "failed", "canceled"}
InFlight == {"starting", "running"}
States   == {"absent", "queued"} \cup InFlight \cup Terminal

(* The forward edges; terminal states have no successor.                   *)
legalTransitions ==
    { <<"queued", "starting">>,   <<"queued", "canceled">>,
      <<"starting", "running">>,  <<"starting", "failed">>,
      <<"starting", "canceled">>, <<"running", "succeeded">>,
      <<"running", "failed">>,    <<"running", "canceled">> }

(* The backward edges that only the reaper may take.                       *)
resetTransitions == { <<"starting", "queued">>, <<"running", "queued">> }

Priorities == {"critical", "normal", "backfill"}

(* The claim tier of a priority; an unknown value ranks as normal.         *)
PriorityOrder(p) ==
    IF p = "critical" THEN 0 ELSE IF p = "backfill" THEN 2 ELSE 1
=============================================================================
