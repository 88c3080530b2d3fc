----------------------------- MODULE AtomicPool -----------------------------
(***************************************************************************)
(* What concurrency.Pool promises: checking a tag's headroom and taking a  *)
(* token is one indivisible step, giving tokens back is another. A token   *)
(* row of weight n is n units.                                             *)
(***************************************************************************)
EXTENDS Naturals, FiniteSets

CONSTANTS Runs,       \* run ids
          Tags,       \* resource tags
          Units,      \* ids for units of token weight
          Capacity    \* Capacity[t]: the configured limit of tag t

VARIABLE tokens       \* the committed rows of concurrency_tokens

Init == tokens = {}

Used(t) == Cardinality({k \in tokens : k.tag = t})
FreeUnits(t) == Units \ {k.unit : k \in {l \in tokens : l.tag = t}}

(* A row for run r of tag t made of the units S.                           *)
Row(r, t, S) == {[run |-> r, tag |-> t, unit |-> u] : u \in S}

Acquire(r, t, S) == /\ S \subseteq FreeUnits(t) /\ IsFiniteSet(S)
                    /\ Used(t) + Cardinality(S) <= Capacity[t]
                    /\ tokens' = tokens \cup Row(r, t, S)

GiveBack(gone) == tokens' = tokens \ gone

Next == \/ \E r \in Runs, t \in Tags, S \in SUBSET Units : Acquire(r, t, S)
        \/ \E gone \in SUBSET tokens : GiveBack(gone)

Spec == Init /\ [][Next]_tokens
=============================================================================
