--------------------------- MODULE PublicationTool ---------------------------
(***************************************************************************)
(* tools/verify-election.mjs: the arithmetic of what is published, written *)
(* a second time from the specification and sharing no code with the       *)
(* application.  It is set beside ThresholdKey's, over the same shares,    *)
(* sums, contributions and claims.                                         *)
(***************************************************************************)
EXTENDS ThresholdKey

\* It reads no publication with another threshold than two, and tries the shares in pairs.
ASSUME ToolAssumption == TrusteeThreshold <= 2

\* A number modulo the prime; parseResidue.
IsResidue(value) == value \in 1..(P - 1)

\* y^q is 1, counted as y^(q-1) * y, and y is not 1.
inSubgroup(value) == value > 1 /\ value < P /\ (Pow(value, Q - 1) * value) % P = 1

\* Fermat's inverse modulo a prime.
inverse(value, prime) == ModPow(value, prime - 2, prime)

\* Flawed: any number modulo the prime will do.
FitsTheSum_AnyResidue(c1, v) == IsResidue(v)

FitsTheSum(c1, v) == IF c1 = 1 THEN v = 1 ELSE inSubgroup(v)

\* checkPartial, whatever the challenge's transcript gives.
checkPartial(publicShare, c, v, proof) ==
    /\ inSubgroup(publicShare)
    /\ c.c1 = 1 \/ inSubgroup(c.c1)
    /\ c.c2 = 1 \/ inSubgroup(c.c2)
    /\ IsResidue(v) /\ IsResidue(proof.a) /\ IsResidue(proof.b)
    /\ proof.challenge \in Scalars /\ proof.response \in Scalars
    /\ FitsTheSum(c.c1, v)
    /\ Pow(G, proof.response) = TimesMod(proof.a, Pow(publicShare, proof.challenge))
    /\ Pow(c.c1, proof.response) = TimesMod(proof.b, Pow(v, proof.challenge))

\* The coefficient at 0 of the point index, modulo Q.
lagrange(index, indices) ==
    LET numerator == MultipliedMod([k \in DOMAIN indices |->
                         IF indices[k] = index THEN 1 ELSE indices[k]], Q)
        denominator == MultipliedMod([k \in DOMAIN indices |->
                         IF indices[k] = index THEN 1 ELSE ((indices[k] - index) % Q) + Q], Q)
    IN (numerator * inverse(denominator, Q)) % Q

\* The values of some trustees, combined at 0.
combineAt(values) ==
    LET indices == SetToSeq(DOMAIN values)
    IN MultipliedMod([k \in DOMAIN indices |->
                         Pow(values[indices[k]], lagrange(indices[k], indices))], P)

\* Every pair of shares combines to the election's key.
SharesBelongToKey(publicKey) ==
    \A pair \in SUBSET Opening :
        Cardinality(pair) = 2 => combineAt([t \in pair |-> PublicShare(t)]) = publicKey

\* What has been contributed to s, by trustee.
UsableValues(s) ==
    [t \in {d.trustee : d \in {e \in contributed : e.of = s}} |->
        (CHOOSE d \in contributed : d.trustee = t /\ d.of = s).value]

\* The count is what the sum opens to: g^count is c2 over the combination.
CountHolds(s, count) ==
    Pow(G, count) = (sums[s].c2 * inverse(combineAt(UsableValues(s)), P)) % P

----------------------------------------------------------------------------
(***************************************************************************)
(* Properties                                                              *)
(***************************************************************************)
\* Both accept the same contributions: a claim the server would take is a claim the
\* tool takes, and the other way round.
SameAreAccepted ==
    statement # <<>> =>
        \A challenge, response \in Scalars :
            LET proof == [a |-> statement[1].a, b |-> statement[1].b,
                          challenge |-> challenge, response |-> response]
                share == Pow(G, statement[1].share)
            IN checkPartial(share, statement[1].c, statement[1].value, proof)
               <=> PartialHolds(share, statement[1].c, statement[1].value, proof)

\* And find the same numbers: the number that was opened, from as many contributions
\* as there were, is the only one the tool passes, and the shares are the key's.
SameAreCounted ==
    opened # <<>> =>
        /\ SharesBelongToKey(Pow(G, secret))
        /\ \A count \in 0..MaxVotes : CountHolds(opened[1].of, count) <=> count = opened[1].votes

ToolAgrees == SameAreAccepted /\ SameAreCounted
=============================================================================
