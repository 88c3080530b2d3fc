------------------------- MODULE MCAuditedServices -------------------------
(***************************************************************************)
(* A small instance of AuditedServices for TLC.                            *)
(***************************************************************************)
EXTENDS AuditedServices

CONSTANTS h1, h2, w1, w2, i1, ann

MCTxs         == {h1, h2, w1, w2}
MCAdmins      == {h1, h2}
MCWorkers     == {w1, w2}
MCInvitee     == [i \in {i1} |-> ann]
(* A wider schema reads everything the narrower one did.                   *)
MCNonBreaking == {<<"wide", "wide">>, <<"narrow", "narrow">>, <<"narrow", "wide">>}
=============================================================================
