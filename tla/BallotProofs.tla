---------------------------- MODULE BallotProofs ----------------------------
(***************************************************************************)
(* An encrypted ballot with its proofs: how the voting page builds it, one *)
(* option at a time, and how the server verifies it.                       *)
(*                                                                         *)
(* The hash that gives a proof its challenge is an oracle: it answers a    *)
(* transcript with any number below Q, and the same transcript with the    *)
(* same number.  Beside the page's ballot stands one ciphertext with       *)
(* commitments that anybody may have chosen, and the challenges that can   *)
(* be answered for them: who can answer two knows what the proof claims.   *)
(***************************************************************************)
EXTENDS PrimeGroup

CONSTANTS
    PrivateKey,   \* of the election, in Drawn
    Choice,       \* the place of the voter's option in canonicalOptions
    Options,      \* how many options there are
    Places,       \* the ballots of the election: where an envelope may lie
    Made          \* the one it was made for

ASSUME BallotAssumption ==
    /\ PrivateKey \in Drawn
    /\ Options \in Nat /\ Choice \in 1..Options

VARIABLES
    \* the page: ballotEncryption
    ciphertexts,   \* the options that are encrypted so far
    begun,         \* the proofs that are begun: their random numbers and commitments
    components,    \* the proofs that are finished
    sum,           \* the proof of the sum
    \* the oracle
    oracle,        \* transcript -> challenge
    \* the server: ballotVerification
    place,         \* the ballot the envelope lies at
    verified,      \* how many checks have passed
    verdict,
    byChance,      \* a challenge was asked for that the page had not asked for
    \* anybody
    claim,         \* a ciphertext and commitments
    answered       \* the challenges that can be answered for them

proofVars == <<ciphertexts, begun, components, sum, oracle, place, verified, verdict, byChance,
               claim, answered>>

PublicKey == Pow(G, PrivateKey)

ProofInit ==
    /\ ciphertexts = <<>> /\ begun = <<>> /\ components = <<>> /\ sum = <<>>
    /\ oracle = <<>>
    /\ place = Made
    /\ verified = 0
    /\ verdict = "none"
    /\ byChance = FALSE
    /\ claim = <<>> /\ answered = {}

----------------------------------------------------------------------------
(***************************************************************************)
(* What a challenge binds.                                                 *)
(***************************************************************************)
\* Flawed: the ballot is not in the transcript.
Transcript_AnyBallot(kind, ballot, index, list, values) == <<kind, PublicKey, index, list, values>>

\* zeroOrOneTranscript and sumTranscript (of index 0): no two fields can be read
\* in another way, and the hash of the list stands for the list.
Transcript(kind, ballot, index, list, values) ==
    <<kind, ballot, PublicKey, index, list, values>>

\* The oracle answers c, for good.
Asks(transcript, c) ==
    IF transcript \in DOMAIN oracle
    THEN c = oracle[transcript] /\ UNCHANGED oracle
    ELSE oracle' = [t \in DOMAIN oracle \cup {transcript} |->
                       IF t = transcript THEN c ELSE oracle[t]]

----------------------------------------------------------------------------
(***************************************************************************)
(* The page.                                                               *)
(***************************************************************************)
\* unitVector
Message(i) == IF i = Choice THEN 1 ELSE 0

\* The true branch is answered, the other one made backwards from its answer.
Simulated(target, c1, challenge, response) ==
    [a |-> TimesMod(Pow(G, response), Pow(c1, Q - challenge)),
     b |-> TimesMod(Pow(PublicKey, response), Pow(target, Q - challenge))]

Commitment(w) == [a |-> Pow(G, w), b |-> Pow(PublicKey, w)]

Shifted(c2) == TimesMod(c2, G_INVERSE)

\* Flawed: the branch that is simulated aims at the other one's claim.
SimulatedTarget_Swapped(message, c2) == IF message = 0 THEN c2 ELSE Shifted(c2)

SimulatedTarget(message, c2) == IF message = 0 THEN Shifted(c2) ELSE c2

\* One option: its ciphertext, and startZeroOrOne. Nothing is fixed yet by a
\* challenge, which needs the whole list.
EncryptOption ==
    LET i == Len(ciphertexts) + 1 IN
    /\ i <= Options
    /\ \E nonce, challenge, response, w \in Drawn :
           LET c == Encrypt(PublicKey, Message(i), nonce) IN
           /\ ciphertexts' = Append(ciphertexts, c)
           /\ begun' = Append(begun,
                 [nonce |-> nonce, w |-> w, challenge |-> challenge, response |-> response,
                  fake |-> Simulated(SimulatedTarget(Message(i), c.c2), c.c1, challenge, response)])
    /\ UNCHANGED <<components, sum, oracle, place, verified, verdict, byChance, claim, answered>>

\* The commitments of a proof, in the transcript's order.
Branches(message, honest, fake) == IF message = 0 THEN <<honest, fake>> ELSE <<fake, honest>>

\* The proofs are finished once the list is whole, each of them once.
FinishProof ==
    LET i == Len(components) + 1
        message == Message(i)
        p == begun[i]
        branches == Branches(message, Commitment(p.w), p.fake)
    IN /\ Len(ciphertexts) = Options /\ i <= Options
       /\ \E c \in Scalars :
             LET honest == (Q + c - p.challenge) % Q
                 answer == (p.w + honest * p.nonce) % Q
             IN /\ Asks(Transcript("zero-or-one", Made, i, ciphertexts, branches), c)
                /\ components' = Append(components,
                     [branches |-> branches,
                      challenges |-> Branches(message, honest, p.challenge),
                      responses |-> Branches(message, answer, p.response)])
       /\ UNCHANGED <<ciphertexts, begun, sum, place, verified, verdict, byChance, claim, answered>>

\* The nonces of the list, added up.
Nonces ==
    LET total[i \in 0..Len(begun)] == IF i = 0 THEN 0 ELSE total[i - 1] + begun[i].nonce
    IN total[Len(begun)]

\* proveSumIsOne, over the product and the sum of the nonces.
ProveSum ==
    /\ Len(components) = Options /\ sum = <<>>
    /\ \E w \in Drawn, c \in Scalars :
          /\ Asks(Transcript("sum", Made, 0, ciphertexts, <<Commitment(w)>>), c)
          /\ sum' = <<[commitment |-> Commitment(w), challenge |-> c,
                       response |-> (w + c * (Nonces % Q)) % Q]>>
    /\ UNCHANGED <<ciphertexts, begun, components, place, verified, verdict, byChance, claim,
                   answered>>

\* The envelope is put at another ballot, past the page.
MoveTo(b) ==
    /\ sum # <<>> /\ verified = 0 /\ verdict = "none"
    /\ b # place
    /\ place' = b
    /\ UNCHANGED <<ciphertexts, begun, components, sum, oracle, verified, verdict, byChance, claim,
                   answered>>

----------------------------------------------------------------------------
(***************************************************************************)
(* The server.                                                             *)
(***************************************************************************)
\* One branch: G and the key raised to the response.
BranchHolds(c1, target, commitment, challenge, response) ==
    /\ Pow(G, response) = TimesMod(commitment.a, Pow(c1, challenge))
    /\ Pow(PublicKey, response) = TimesMod(commitment.b, Pow(target, challenge))

\* Flawed: the challenges of the branches need not add up to the one of the hash.
ChallengesAddUp_NotAsked(challenges, c) == TRUE

ChallengesAddUp(challenges, c) == (challenges[1] + challenges[2]) % Q = c

\* verifyZeroOrOne
ZeroOrOneHolds(ciphertext, proof, c) ==
    /\ ChallengesAddUp(proof.challenges, c)
    /\ BranchHolds(ciphertext.c1, ciphertext.c2,
                   proof.branches[1], proof.challenges[1], proof.responses[1])
    /\ BranchHolds(ciphertext.c1, Shifted(ciphertext.c2),
                   proof.branches[2], proof.challenges[2], proof.responses[2])

\* verifySumIsOne: the product encrypts exactly 1.
SumHolds(product, proof, c) ==
    /\ proof.challenge = c
    /\ BranchHolds(product.c1, Shifted(product.c2), proof.commitment, proof.challenge, proof.response)

\* Every element, before a proof is counted with it.
ElementsHold(list) == \A i \in DOMAIN list : InSubgroup(list[i].c1) /\ InSubgroup(list[i].c2)

Checked(holds, transcript) ==
    /\ byChance' = (byChance \/ transcript \notin DOMAIN oracle)
    /\ verified' = verified + 1
    /\ verdict' = IF ~holds THEN "rejected" ELSE IF verified = Options THEN "accepted" ELSE "none"

\* ballotVerification, a proof at a time: the options in order, then the sum.
VerifyBallot ==
    LET i == verified + 1 IN
    /\ sum # <<>> /\ verdict = "none"
    /\ \E c \in Scalars :
          \/ /\ verified < Options
             /\ LET transcript == Transcript("zero-or-one", place, i, ciphertexts,
                                             components[i].branches)
                IN /\ Asks(transcript, c)
                   /\ Checked(ElementsHold(ciphertexts)
                                /\ ZeroOrOneHolds(ciphertexts[i], components[i], c), transcript)
          \/ /\ verified = Options
             /\ LET transcript == Transcript("sum", place, 0, ciphertexts, <<sum[1].commitment>>)
                IN /\ Asks(transcript, c)
                   /\ Checked(SumHolds(Product(ciphertexts), sum[1], c), transcript)
    /\ UNCHANGED <<ciphertexts, begun, components, sum, place, claim, answered>>

----------------------------------------------------------------------------
(***************************************************************************)
(* Anybody: any ciphertext of the subgroup, any commitments.               *)
(***************************************************************************)
CommitmentPairs == [a : Elements, b : Elements]

Claim ==
    /\ ciphertexts = <<>> /\ claim = <<>>
    /\ \E c \in [c1 : Elements, c2 : Elements], first, second \in CommitmentPairs :
          /\ ElementsHold(<<c>>)
          /\ claim' = <<[ciphertext |-> c, branches |-> <<first, second>>]>>
    /\ UNCHANGED <<ciphertexts, begun, components, sum, oracle, place, verified, verdict, byChance,
                   answered>>

\* A challenge for which there are answers that the server accepts.
AnswerClaim(c) ==
    /\ claim # <<>>
    /\ c \notin answered
    /\ \E challenges, responses \in [1..2 -> Scalars] :
          ZeroOrOneHolds(claim[1].ciphertext,
              [branches |-> claim[1].branches, challenges |-> challenges, responses |-> responses], c)
    /\ answered' = answered \cup {c}
    /\ UNCHANGED <<ciphertexts, begun, components, sum, oracle, place, verified, verdict, byChance,
                   claim>>

ProofNext ==
    \/ EncryptOption /\ claim = <<>>
    \/ FinishProof \/ ProveSum \/ VerifyBallot
    \/ \E b \in Places : MoveTo(b)
    \/ Claim
    \/ \E c \in Scalars : AnswerClaim(c)

ProofSpec == ProofInit /\ [][ProofNext]_proofVars

----------------------------------------------------------------------------
(***************************************************************************)
(* Properties                                                              *)
(***************************************************************************)
ProofTypeOK ==
    /\ Len(begun) = Len(ciphertexts) /\ Len(components) <= Len(begun)
    /\ verdict \in {"none", "rejected", "accepted"}
    /\ verified \in 0..(Options + 1)
    /\ answered \subseteq Scalars

\* No ballot of an honest page is rejected, whatever random numbers it drew and
\* whatever the hashes are; but for one with a c2 of 1, which a group of the
\* code's size gives nobody.
HonestIsAccepted == verdict = "rejected" => place # Made \/ ~ElementsHold(ciphertexts)

\* Who can answer two challenges has encrypted a 0 or a 1: nothing else is
\* accepted except by guessing the hash.
OnlyVotesAreProved ==
    Cardinality(answered) > 1 => Opened(PrivateKey, claim[1].ciphertext) \in {1, G}

\* A ballot that was made for one place is not accepted at another, except where
\* the other hashes happen to be the same.
StaysWhereItWasMade == verdict = "accepted" /\ ~byChance => place = Made

\* The proofs do what they are there for.
ProofsHold == ProofTypeOK /\ HonestIsAccepted /\ OnlyVotesAreProved /\ StaysWhereItWasMade
=============================================================================
