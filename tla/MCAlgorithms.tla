---------------------------- MODULE MCAlgorithms ----------------------------
(* Instance of module Algorithms for TLC.                                  *)
EXTENDS Algorithms

CONSTANTS a1, a2, a3, c1, c2

MCAssets == {a1, a2, a3}
MCGraphs == [MCAssets -> SUBSET MCAssets]

(* Delays in units of which a Duration holds 200: the eighth doubling of   *)
(* one unit leaves its range, as the 34th doubling of a second does.       *)
MCPolicies == [max : {0, 3, 10}, initial : {0, 1, 3}, maxDelay : {0, 5, 60}, jitter : {0, 20, 100}]

MCColumnNames == {c1, c2}
Typed(family, sizes) == [family : {family}, size : sizes, scale : {0}]
MCTypes == Typed("int", {1, 2, 3}) \cup Typed("varchar", {1, 2}) \cup Typed("text", {0})
           \cup Typed("uuid", {0}) \cup [family : {"decimal"}, size : {2, 3}, scale : {1, 2}]

Column(t, b) == [type |-> t, nullable |-> b, default |-> "none", comment |-> "",
                 pk |-> FALSE]
MCSchemas ==
    {[columns |-> c1 :> Column(t, b) @@ c2 :> other, key |-> k] :
        t \in MCTypes, b \in BOOLEAN, k \in {<<>>},
        other \in {Absent} \cup {Column(u, FALSE) : u \in Typed("int", {2})}}
=============================================================================
