------------------------------ MODULE MCTally ------------------------------
(* Values for TLC: calls, ballots and trustees are alike.                  *)
EXTENDS Tally, TLC

MCAlike == Permutations(Calls) \cup Permutations(Trustees)

\* The application alone: what writes past it do to a tally and to its final
\* check is explored in MCCountAndCheck.
InsideNext == CallNext \/ Strips \/ Certifies

InsideSpec == Init /\ [][InsideNext]_tallyVars /\ Fairness
=============================================================================
