-------------------------------- MODULE Dag --------------------------------
(***************************************************************************)
(* The execution plan of a run: the assets upstream of the target          *)
(* (buildSubgraph), the graph that is built of them edge by edge           *)
(* (BuildDAG), and Kahn's algorithm (TopologicalOrder). Go ranges over     *)
(* maps in any order, and so do the steps here.                            *)
(***************************************************************************)
EXTENDS Integers, Sequences, FiniteSets, SequencesExt

CONSTANTS Assets,   \* registered assets
          Target    \* the asset that is run

ASSUME DagAssumption == Target \in Assets /\ IsFiniteSet(Assets)

VARIABLES upstreams,  \* what each asset declares; no asset names one twice
          phase,      \* walk, edges, sort; done or cycle at the end
          seen,       \* assets the walk has reached
          linked,     \* assets whose edges are in the graph
          inDeg, queue, order

dagVars == <<upstreams, phase, seen, linked, inDeg, queue, order>>

DagInit(graphs) ==
    /\ upstreams \in graphs
    /\ phase = "walk" /\ seen = {Target} /\ linked = {}
    /\ inDeg = [a \in Assets |-> 0] /\ queue = <<>> /\ order = <<>>

Unseen == (UNION {upstreams[a] : a \in seen}) \ seen

Walk(a) ==
    /\ phase = "walk" /\ a \in Unseen
    /\ seen' = seen \cup {a}
    /\ UNCHANGED <<upstreams, phase, linked, inDeg, queue, order>>

EndWalk ==
    /\ phase = "walk" /\ Unseen = {}
    /\ phase' = "edges"
    /\ UNCHANGED <<upstreams, seen, linked, inDeg, queue, order>>

(* The assets from which a can be reached along the edges so far, a        *)
(* included: they are in every set that has, with a, the upstreams of each *)
(* of its members whose edges are in the graph.                            *)
Above(a) ==
    {b \in Assets : \A S \in SUBSET Assets :
        a \in S /\ (\A c \in S \cap linked : upstreams[c] \subseteq S) => b \in S}

(* AddEdge for every upstream of a; the library refuses an edge that would *)
(* close a cycle.                                                          *)
AddEdges(a) ==
    /\ phase = "edges" /\ a \in seen \ linked
    /\ IF \E u \in upstreams[a] : a \in Above(u)
       THEN phase' = "cycle" /\ UNCHANGED linked
       ELSE linked' = linked \cup {a} /\ UNCHANGED phase
    /\ UNCHANGED <<upstreams, seen, inDeg, queue, order>>

Parents(a)  == upstreams[a]
Children(a) == {b \in seen : a \in upstreams[b]}

StartSort ==
    /\ phase = "edges" /\ linked = seen
    /\ phase' = "sort"
    /\ inDeg' = [a \in Assets |-> IF a \in seen THEN Cardinality(Parents(a)) ELSE 0]
    /\ queue' \in SetToSeqs({a \in seen : Parents(a) = {}})
    /\ UNCHANGED <<upstreams, seen, linked, order>>

ReadyOnFirst(b) == inDeg[b] = Cardinality(Parents(b))
Ready(b)        == inDeg[b] - 1 = 0

Dequeue ==
    /\ phase = "sort" /\ queue # <<>>
    /\ LET n == Head(queue)
       IN /\ order' = Append(order, n)
          /\ inDeg' = [b \in Assets |-> IF b \in Children(n) THEN inDeg[b] - 1 ELSE inDeg[b]]
          /\ \E ready \in SetToSeqs({b \in Children(n) : Ready(b)}) :
                queue' = Tail(queue) \o ready
    /\ UNCHANGED <<upstreams, phase, seen, linked>>

EndSort ==
    /\ phase = "sort" /\ queue = <<>>
    /\ phase' = IF Len(order) = Cardinality(seen) THEN "done" ELSE "cycle"
    /\ UNCHANGED <<upstreams, seen, linked, inDeg, queue, order>>

DagNext == \/ \E a \in Assets : Walk(a) \/ AddEdges(a)
           \/ EndWalk \/ StartSort \/ Dequeue \/ EndSort

(* Any declarations.                                                       *)
DagSpec == DagInit([Assets -> SUBSET Assets]) /\ [][DagNext]_dagVars

-----------------------------------------------------------------------------
(* What a plan is, independently of how it is found.                       *)
Closed(S) == \A a \in S : upstreams[a] \subseteq S
Needed    == CHOOSE S \in SUBSET Assets :
               /\ Target \in S /\ Closed(S)
               /\ \A R \in SUBSET S : Target \in R /\ Closed(R) => R = S
Cyclic    == \E S \in (SUBSET Needed) \ {{}} : \A a \in S : upstreams[a] \cap S # {}

(* A run materialises what its target needs, all of it and each asset      *)
(* once, upstreams first; it is refused exactly when that is impossible    *)
(* (dag.go: ErrCycle).                                                     *)
PlanExact ==
    /\ phase = "cycle" => Cyclic
    /\ phase = "done" =>
          /\ ~ Cyclic
          /\ Len(order) = Cardinality(Needed) /\ {order[i] : i \in DOMAIN order} = Needed
          /\ \A i, j \in DOMAIN order : order[i] \in upstreams[order[j]] => i < j
=============================================================================
