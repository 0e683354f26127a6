-------------------------- MODULE MCCountAndCheck --------------------------
(***************************************************************************)
(* Values for TLC: three elections, each explored for itself.  In one a    *)
(* trustee's contribution comes late; in the others somebody writes past   *)
(* the application, once where there are two ballots and twice where a     *)
(* ballot needs two contributions.                                         *)
(*                                                                         *)
(* Beside them, for themselves too, what such a count is made of: the      *)
(* shares of a key and what they open, and the options of a ballot.  Each  *)
(* stands where it begins, meanwhile, and so does an election.             *)
(***************************************************************************)
EXTENDS FinalCheck, CountedSums, TLC

CONSTANTS b1, b2, b3, t2, t3, lateTrustees, lateCalls, x, y, c1, c2, p1, p2

VARIABLE part

\* The election whose last contribution comes late.
Late == INSTANCE FinalCheck
    WITH Ballots <- {b3}, Trustees <- lateTrustees, Threshold <- 2, Calls <- lateCalls,
         MaxFaults <- 0, MaxOutside <- 0

\* The election of one ballot that two trustees open together.
Together == INSTANCE FinalCheck
    WITH Ballots <- {b3}, Trustees <- {t2, t3}, Threshold <- 2, MaxOutside <- 2

ElectionsInit ==
    /\ part \in {"late", "together", "ballots", "threshold", "options"}
    /\ CASE part = "late" -> Late!CheckInit
         [] part = "together" -> Together!CheckInit
         [] OTHER -> CheckInit
    /\ ThresholdInit
    /\ OptionInit
    /\ part # "options" => kind = "FRAGA" /\ ~allowsCandidateVote

ElectionsNext ==
    /\ UNCHANGED part
    /\ \/ /\ \/ part = "late" /\ Late!CheckNext
             \/ part = "together" /\ Together!CheckNext
             \/ part = "ballots" /\ CheckNext
          /\ UNCHANGED <<thresholdVars, optionVars>>
       \/ part = "threshold" /\ ThresholdNext /\ UNCHANGED <<allVars, optionVars>>
       \/ part = "options" /\ OptionNext /\ UNCHANGED <<allVars, thresholdVars>>

ElectionsSpec == ElectionsInit /\ [][ElectionsNext]_<<part, allVars, thresholdVars, optionVars>>

MCAlike ==
    UNION {Permutations(S) : S \in {{b1, b2}, {t2, t3}, lateTrustees, lateCalls}}
=============================================================================
