----------------------------- MODULE Envelopes -----------------------------
(***************************************************************************)
(* The values both databases speak of.                                     *)
(*                                                                         *)
(* A slot is one voter on one ballot: pending_vote has a unique index on   *)
(* that pair, so a slot holds at most one envelope.  An envelope is what   *)
(* the row says: the signed sequence number, the ciphertext (stood for by  *)
(* its hash) and whether its signature and proofs hold.  A hash or a       *)
(* Merkle root is the value it is taken over.                              *)
(***************************************************************************)
EXTENDS Naturals, FiniteSets

CONSTANTS
    Slots,          \* voter and ballot, the unique index of pending_vote
    Ballots,        \* the election's ballots
    BallotOf,       \* the ballot of a slot
    Ciphers,        \* ciphertext hashes
    MaxSequence,    \* bound on castSequence
    NoEnvelope      \* a slot without a row

ASSUME SlotsAssumption ==
    /\ IsFiniteSet(Slots)
    /\ BallotOf \in [Slots -> Ballots]
    /\ MaxSequence \in Nat

Sequences == 1..MaxSequence
Envelope  == [seq : Sequences, cipher : Ciphers, holds : BOOLEAN]

ASSUME NoEnvelopeAssumption == NoEnvelope \notin Envelope

\* The rows of pending_vote for the election, one per slot at most.
PendingVotes == [Slots -> Envelope \cup {NoEnvelope}]

NoRows      == [s \in Slots |-> NoEnvelope]
Lying(rows) == {s \in Slots : rows[s] # NoEnvelope}

SequenceAt(rows, s) == IF rows[s] = NoEnvelope THEN 0 ELSE rows[s].seq

(***************************************************************************)
(* Where an envelope goes in the urn.  The id is derived from the hash,    *)
(* the ballot and a copy number, so every closing that read the same       *)
(* envelopes derives the same ids, in whatever order it read them.         *)
(***************************************************************************)
Copies == 0 .. Cardinality(Slots)
Places == Ballots \X Ciphers \X Copies

SlotsCarrying(rows, b, x) ==
    {s \in Lying(rows) : BallotOf[s] = b /\ rows[s].cipher = x}

WithUrnIds(rows) ==
    UNION { { <<b, x, copy>> : copy \in 0 .. Cardinality(SlotsCarrying(rows, b, x)) - 1 }
            : b \in Ballots, x \in Ciphers }

(***************************************************************************)
(* The phases of an election, in the order they are written.               *)
(***************************************************************************)
LinkedPhases  == {"OPEN", "CLOSED", "VALIDATED"}
ClearedPhases == {"STRIPPED", "TALLIED", "CERTIFIED"}
Phases        == LinkedPhases \cup ClearedPhases
=============================================================================
