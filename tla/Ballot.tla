------------------------------- MODULE Ballot -------------------------------
(***************************************************************************)
(* What the governance workflow promises of the versions under review: a   *)
(* version has at most one undecided ballot, nobody votes twice or on a    *)
(* ballot of their own, a ballot is accepted by as many votes as it needs  *)
(* (a comment that comes with a decision may quote votes, which count from *)
(* then on), a decision is final, and the version's state changes only     *)
(* together with its ballots.                                              *)
(***************************************************************************)
EXTENDS Integers, Sequences, FiniteSets

CONSTANTS Versions,   \* registered asset versions
          Users,      \* users that submit and decide
          HumanOnly,  \* the versions that must be reviewed by a human
          Thresholds, \* the numbers of votes a ballot may need
          Quotations  \* the numbers of approvals that a comment may quote

VARIABLES gov,        \* asset_versions.governance_state
          ballots     \* all ballots, in the order they were opened

vars == <<gov, ballots>>

Init == /\ gov = [v \in Versions |-> "draft"]
        /\ ballots = <<>>

Undecided(v) == {i \in 1 .. Len(ballots) :
                    ballots[i].version = v /\ ballots[i].outcome = "open"}

(* An automatic approval activates the version at once, and its ballot     *)
(* stays open to a later decision.                                         *)
Open(v, u, n, automatic) ==
    /\ Undecided(v) = {}
    /\ automatic => v \notin HumanOnly
    /\ ballots' = Append(ballots, [version |-> v, submitter |-> u, needed |-> n,
                                   votes |-> {}, quoted |-> 0, outcome |-> "open"])
    /\ gov' = [gov EXCEPT ![v] = IF automatic THEN "active" ELSE "in_review"]

Eligible(i, u) == /\ ballots[i].outcome = "open"
                  /\ u # ballots[i].submitter
                  /\ u \notin ballots[i].votes

Vote(i, u, n) ==
    /\ Eligible(i, u)
    /\ LET votes  == ballots[i].votes \cup {u}
           enough == Cardinality(votes) + ballots[i].quoted >= ballots[i].needed
       IN /\ ballots' = [ballots EXCEPT
                ![i].votes = votes,
                ![i].quoted = ballots[i].quoted + n,
                ![i].outcome = IF enough THEN "accepted" ELSE "open"]
          /\ gov' = IF enough
                    THEN [gov EXCEPT ![ballots[i].version] = "active"] ELSE gov

Veto(i, u, n) ==
    /\ Eligible(i, u)
    /\ ballots' = [ballots EXCEPT ![i].quoted = ballots[i].quoted + n,
                                  ![i].outcome = "refused"]
    /\ gov' = [gov EXCEPT ![ballots[i].version] = "rejected"]

Next == \/ \E v \in Versions, u \in Users, n \in Thresholds, a \in BOOLEAN :
              Open(v, u, n, a)
        \/ \E i \in 1 .. Len(ballots), u \in Users, n \in Quotations :
              Vote(i, u, n) \/ Veto(i, u, n)

Spec == Init /\ [][Next]_vars
=============================================================================
