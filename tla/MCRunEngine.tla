----------------------------- MODULE MCRunEngine -----------------------------
(***************************************************************************)
(* Small instances of RunEngine for TLC: a normal run of two steps, whose  *)
(* second asset declares a resource of weight two, and a backfill run of   *)
(* one step.                                                               *)
(***************************************************************************)
EXTENDS RunEngine, TLC

CONSTANTS r1, r2, a1, a2

MCTags      == {"global", "backfill", "db"}
MCPriority  == (r1 :> "normal") @@ (r2 :> "backfill")
MCPlan      == (r1 :> <<a1, a2>>) @@ (r2 :> <<a2>>)
MCShortPlan == (r1 :> <<a1>>) @@ (r2 :> <<a1>>)
MCResources == (a1 :> <<>>) @@ (a2 :> <<[tag |-> "db", weight |-> 2]>>)
MCMeagre    == (a1 :> <<[tag |-> "db", weight |-> -1]>>)
               @@ (a2 :> <<[tag |-> "db", weight |-> 2]>>)
MCTight     == ("global" :> 1) @@ ("backfill" :> 1) @@ ("db" :> 2)
MCRetryMax  == (a1 :> 2) @@ (a2 :> 2)
MCNoRetry   == (a1 :> 0) @@ (a2 :> 0)
MCUnits     == 1 .. 4
WorkerSymmetry == Permutations(Workers)
=============================================================================
