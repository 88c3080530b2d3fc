---------------------------- MODULE MCTokenPool ----------------------------
(***************************************************************************)
(* Small instances of TokenPool for TLC.                                   *)
(***************************************************************************)
EXTENDS TokenPool, TLC

CONSTANTS r1, r2, c1, c2

MCTags     == {"global", "db"}
MCCapacity == ("global" :> 1) @@ ("db" :> 3)
MCWeights  == {-1, 2}
=============================================================================
