---------------------------- MODULE ThresholdKey ----------------------------
(***************************************************************************)
(* The election's key in shares: how it is split between the trustees, how *)
(* one of them contributes to the opening of a sum, what a contribution is *)
(* checked against, and how enough of them are combined to the number of   *)
(* votes.                                                                  *)
(*                                                                         *)
(* As in BallotProofs the hash is an oracle, and beside the trustees       *)
(* stands a claim anybody may have made: a ciphertext, a value and         *)
(* commitments, with the challenges that can be answered for them.         *)
(***************************************************************************)
EXTENDS PrimeGroup

CONSTANTS
    TrusteeCount,     \* TRUSTEE_COUNT
    TrusteeThreshold, \* TRUSTEE_THRESHOLD
    MaxVotes,     \* votes on one option, at most
    VoteCounts,   \* the numbers of votes that are looked at
    Random,       \* the random numbers that are looked at, of Drawn
    HashValues,   \* and the challenges, of Scalars
    Sums,         \* the ballots' options, each with its sum
    ClaimedShares \* of the claims that are looked at

\* The code's numbers are far below the order of its group.
ASSUME ThresholdAssumption ==
    /\ TrusteeCount \in 1..(Q - 1) /\ TrusteeThreshold \in 1..TrusteeCount
    /\ MaxVotes \in 0..(Q - 1) /\ VoteCounts \subseteq 0..MaxVotes
    /\ Random \subseteq Drawn /\ ClaimedShares \subseteq Drawn /\ HashValues \subseteq Scalars

VARIABLES
    secret,       \* of the election, for the moment in which it exists
    shares,
    sums,         \* Sums -> the product of the votes' ciphertexts
    cast,         \* Sums -> how many of the votes are for the option
    contributed,  \* the contributions that were made
    hash,         \* the oracle
    guessed,      \* a challenge was asked for that no trustee had asked for
    elsewhere,    \* a contribution has passed for another sum than its own
    opened,      \* what the combination gave
    statement, replies

thresholdVars == <<secret, shares, sums, cast, contributed, hash, guessed, elsewhere, opened,
                   statement, replies>>

Opening == 1..TrusteeCount

ThresholdInit ==
    /\ secret = 0 /\ shares = <<>>
    /\ sums = <<>> /\ cast = <<>>
    /\ contributed = {} /\ elsewhere = FALSE
    /\ hash = <<>> /\ guessed = FALSE
    /\ opened = <<>>
    /\ statement = <<>> /\ replies = {}

----------------------------------------------------------------------------
(***************************************************************************)
(* The shares and the sums.                                                *)
(***************************************************************************)
\* splitSecret: the polynomial's values at 1, 2, ...; the secret is its value at 0.
Shares(coefficients) ==
    [x \in Opening |->
        LET power[k \in 0..Len(coefficients)] == IF k = 0 THEN 1 ELSE (power[k - 1] * x) % Q
            value[k \in 0..Len(coefficients)] ==
                IF k = 0 THEN 0 ELSE (value[k - 1] + coefficients[k] * power[k - 1]) % Q
        IN value[Len(coefficients)]]

PublicShare(t) == Pow(G, shares[t])

Split ==
    /\ shares = <<>> /\ statement = <<>>
    /\ \E s \in Random, others \in [1..(TrusteeThreshold - 1) -> Random] :
           secret' = s /\ shares' = Shares(<<s>> \o others)
    /\ UNCHANGED <<sums, cast, contributed, hash, guessed, elsewhere, opened, statement, replies>>

\* The votes are in: a sum of ciphertexts is one, of the sums of the messages and of the
\* nonces. The sum of no votes is (1, 1).
VotesAreIn ==
    /\ shares # <<>> /\ sums = <<>>
    /\ \E votes \in [Sums -> VoteCounts], nonces \in [Sums -> Random \cup {0}] :
          /\ sums' = [s \in Sums |-> Encrypt(Pow(G, secret), votes[s], nonces[s])]
          /\ cast' = votes
    /\ UNCHANGED <<secret, shares, contributed, hash, guessed, elsewhere, opened, statement, replies>>

----------------------------------------------------------------------------
(***************************************************************************)
(* A contribution.                                                         *)
(***************************************************************************)
IsGroupElement(v) == v = 1 \/ InSubgroup(v)

\* Flawed, as the first format was: only the numbers.
PartialTranscript_OnlyNumbers(s, t, publicShare, c, value, a, b) == <<publicShare, c, value, a, b>>

\* partialDecryptionTranscript: the election, the ballot and the option are s.
PartialTranscript(s, t, publicShare, c, value, a, b) == <<s, t, publicShare, c, value, a, b>>

HashIs(transcript, challenge) ==
    IF transcript \in DOMAIN hash
    THEN challenge = hash[transcript] /\ UNCHANGED hash
    ELSE hash' = [t \in DOMAIN hash \cup {transcript} |->
                     IF t = transcript THEN challenge ELSE hash[t]]

\* partiallyDecrypt
PartiallyDecrypt(t, s) ==
    LET c == sums[s]
        value == Pow(c.c1, shares[t])
    IN /\ IsGroupElement(c.c1) /\ IsGroupElement(c.c2)
       /\ \E w \in Random, challenge \in HashValues :
             LET a == Pow(G, w)
                 b == Pow(c.c1, w)
             IN /\ HashIs(PartialTranscript(s, t, PublicShare(t), c, value, a, b), challenge)
                /\ contributed' = contributed \cup
                      {[trustee |-> t, of |-> s, value |-> value,
                        proof |-> [a |-> a, b |-> b, challenge |-> challenge,
                                   response |-> (w + challenge * shares[t]) % Q]]}

Contribute(t, s) ==
    /\ sums # <<>> /\ opened = <<>> /\ ~elsewhere
    /\ \A d \in contributed : d.trustee # t
    /\ PartiallyDecrypt(t, s)
    /\ UNCHANGED <<secret, shares, sums, cast, guessed, elsewhere, opened, statement, replies>>

\* Flawed: any value is good enough, and the proof binds it up to its sign.
ValueFits_InRange(c1, value) == value \in Elements

\* Of no votes it is 1; of any others an element of the subgroup.
ValueFits(c1, value) == IF c1 = 1 THEN value = 1 ELSE InSubgroup(value)

\* What verifyPartialDecryption asks, whatever the hash is.
PartialHolds(publicShare, c, value, proof) ==
    /\ InSubgroup(publicShare)
    /\ IsGroupElement(c.c1) /\ IsGroupElement(c.c2)
    /\ ValueFits(c.c1, value)
    /\ Pow(G, proof.response) = TimesMod(proof.a, Pow(publicShare, proof.challenge))
    /\ Pow(c.c1, proof.response) = TimesMod(proof.b, Pow(value, proof.challenge))

\* The transcript of the contribution d, read for the sum s.
TranscriptFor(d, s) ==
    PartialTranscript(s, d.trustee, PublicShare(d.trustee), sums[s], d.value, d.proof.a, d.proof.b)

\* verifyPartialDecryption, for the sum it was made for.
Holds(d) ==
    /\ hash[TranscriptFor(d, d.of)] = d.proof.challenge
    /\ PartialHolds(PublicShare(d.trustee), sums[d.of], d.value, d.proof)

\* It is shown for another sum, and accepted there.
AcceptElsewhere(d, s) ==
    /\ d.of # s /\ ~elsewhere
    /\ HashIs(TranscriptFor(d, s), d.proof.challenge)
    /\ guessed' = (TranscriptFor(d, s) \notin DOMAIN hash)
    /\ PartialHolds(PublicShare(d.trustee), sums[s], d.value, d.proof)
    /\ elsewhere' = TRUE
    /\ UNCHANGED <<secret, shares, sums, cast, contributed, opened, statement, replies>>

----------------------------------------------------------------------------
(***************************************************************************)
(* The combination.                                                        *)
(***************************************************************************)
\* Flawed: the same trustee may be there twice, and is left out of both her coefficients.
MayCombine_Twice(list) == TRUE

\* One contribution of each; combine throws otherwise.
MayCombine(list) == Cardinality({list[i].trustee : i \in DOMAIN list}) = Len(list)

\* A loop that multiplies, modulo the same number every time.
MultipliedMod(factors, modulus) ==
    LET upTo[k \in 0..Len(factors)] ==
            IF k = 0 THEN 1 ELSE (upTo[k - 1] * factors[k]) % modulus
    IN upTo[Len(factors)]

\* The Lagrange coefficient at 0 of i, modulo Q; a factor that is skipped counts as 1.
Lambda(points, i) ==
    LET numerator == MultipliedMod([k \in DOMAIN points |-> IF points[k] = i THEN 1 ELSE points[k]], Q)
        denominator == MultipliedMod([k \in DOMAIN points |->
            IF points[k] = i THEN 1 ELSE (Q + points[k] - i) % Q], Q)
    IN (numerator * ModPow(denominator, Q - 2, Q)) % Q

Combine(c, list) ==
    LET points == [k \in DOMAIN list |-> list[k].trustee]
        shared == MultipliedMod([k \in DOMAIN list |->
                      Pow(list[k].value, Lambda(points, points[k]))], P)
    IN TimesMod(c.c2, Pow(shared, Q - 1))

\* The contributions the server holds for s, as many as the threshold asks for or more.
OpenSum(s) ==
    LET held == {d \in contributed : d.of = s /\ Holds(d)} IN
    /\ opened = <<>> /\ ~elsewhere
    /\ \E n \in TrusteeThreshold..TrusteeCount : \E list \in [1..n -> held] :
          /\ MayCombine(list)
          /\ opened' = <<[of |-> s, votes |-> DiscreteLog(Combine(sums[s], list), MaxVotes)]>>
    /\ UNCHANGED <<secret, shares, sums, cast, contributed, hash, guessed, elsewhere, statement,
                   replies>>

----------------------------------------------------------------------------
(***************************************************************************)
(* Anybody.                                                                *)
(***************************************************************************)
State ==
    /\ shares = <<>> /\ statement = <<>>
    /\ \E x \in ClaimedShares, c1 \in Subgroup \cup {1}, value, a, b \in Elements :
          statement' = <<[share |-> x, c |-> [c1 |-> c1, c2 |-> G], value |-> value,
                          a |-> a, b |-> b]>>
    /\ UNCHANGED <<secret, shares, sums, cast, contributed, hash, guessed, elsewhere, opened, replies>>

\* A challenge for which there is a response that is accepted.
ReplyTo(challenge) ==
    /\ statement # <<>> /\ challenge \notin replies
    /\ \E response \in Scalars :
          PartialHolds(Pow(G, statement[1].share), statement[1].c, statement[1].value,
              [a |-> statement[1].a, b |-> statement[1].b, challenge |-> challenge,
               response |-> response])
    /\ replies' = replies \cup {challenge}
    /\ UNCHANGED <<secret, shares, sums, cast, contributed, hash, guessed, elsewhere, opened, statement>>

ThresholdNext ==
    \/ Split \/ VotesAreIn
    \/ \E t \in Opening, s \in Sums : Contribute(t, s)
    \/ \E d \in contributed, s \in Sums : AcceptElsewhere(d, s)
    \/ \E s \in Sums : sums # <<>> /\ OpenSum(s)
    \/ State
    \/ \E challenge \in Scalars : ReplyTo(challenge)

ThresholdSpec == ThresholdInit /\ [][ThresholdNext]_thresholdVars

----------------------------------------------------------------------------
(***************************************************************************)
(* Properties                                                              *)
(***************************************************************************)
ThresholdTypeOK ==
    /\ shares # <<>> => shares \in [Opening -> Scalars]
    /\ \A d \in contributed : d.trustee \in Opening /\ d.of \in Sums /\ d.value \in Elements
    /\ guessed => elsewhere
    /\ replies \subseteq Scalars

\* Any contributions of enough different trustees open the number of votes; also
\* of none, and also when the random numbers of a sum cancel out.
OpenedIsTheSum ==
    opened # <<>> => opened[1].votes = cast[opened[1].of]

\* A contribution that was made for one sum is not accepted for another, not even
\* where both are sums of no votes and have the same numbers.
PartialStaysWithItsSum ==
    elsewhere => guessed

\* Who can answer two challenges has raised the sum to her share: no other value
\* is accepted except by guessing the hash, not even one with another sign.
OnlyTheShareIsProved ==
    Cardinality(replies) > 1 => statement[1].value = Pow(statement[1].c.c1, statement[1].share)

\* What the tally takes for granted of the contributions it combines.
SharesOpenTheSum == OpenedIsTheSum /\ PartialStaysWithItsSum /\ OnlyTheShareIsProved
=============================================================================
