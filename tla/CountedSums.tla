---------------------------- MODULE CountedSums ----------------------------
(***************************************************************************)
(* What a count is made of: the shares of a key and what they open, by the *)
(* server and by the reader's tool, and the options that the numbers are   *)
(* of.  The two share no state.                                            *)
(***************************************************************************)
EXTENDS PublicationTool, BallotOptions

\* What is counted is what was voted: a sum is opened as the votes in it by any
\* threshold of shares (threshold.ts), and by the tool that anybody may run in the
\* same way (verify-election.mjs), and the places of a sum are the options that
\* the page showed (ballot-encoding.ts canonicalOptions).
SumsAreTheVotes ==
    ThresholdTypeOK /\ SharesOpenTheSum /\ ToolAgrees /\ OptionTypeOK /\ OptionsAgree
=============================================================================
