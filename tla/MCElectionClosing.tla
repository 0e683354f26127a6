------------------------- MODULE MCElectionClosing -------------------------
(* Values for TLC.                                                         *)
EXTENDS ElectionClosing, TLC

CONSTANTS s1, s2, b1

\* Two voters on one ballot, who may have cast the same ciphertext.
MCBallotOf == (s1 :> b1) @@ (s2 :> b1)

\* One slot.
MCOneSlot == s1 :> b1
=============================================================================
