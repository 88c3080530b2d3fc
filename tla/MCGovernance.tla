---------------------------- MODULE MCGovernance ----------------------------
(***************************************************************************)
(* Small instances of Governance for TLC.                                  *)
(***************************************************************************)
EXTENDS Governance

CONSTANTS h1, h2, s1, eve

MCTxs       == {h1, h2, s1}
MCHandlers  == {h1, h2}
MCScanners  == {s1}
MCRoutes    == {[quorum |-> -1, roles |-> {"data", "owner"}]}
MCFindings  == <<{"pii", "blocking"}, {"none"}>>
MCComments  == {NoQuotes, [approvals |-> 1, names |-> {eve}]}
MCQuorumAll == -1
=============================================================================
