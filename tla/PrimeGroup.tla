----------------------------- MODULE PrimeGroup -----------------------------
(***************************************************************************)
(* The group that ballots are encrypted in: the squares modulo a safe      *)
(* prime, and ElGamal with the vote in the exponent.  The functions are    *)
(* the code's for any such prime; the code's has 2048 bits.                *)
(***************************************************************************)
EXTENDS Integers, Sequences, FiniteSets, SequencesExt

CONSTANT P   \* a safe prime with P % 4 = 3

ASSUME GroupAssumption == P \in Nat /\ P > 3 /\ P % 4 = 3

Q == (P - 1) \div 2
G == 4
G_INVERSE == (P + 1) \div 4

Elements == 1..(P - 1)
Scalars  == 0..(Q - 1)
\* What randomScalar may return.
Drawn    == 1..(Q - 1)

----------------------------------------------------------------------------
(***************************************************************************)
(* Exponentiation.  A negative exponent has no value: the code throws.     *)
(***************************************************************************)
\* bigintModPow: square and multiply, from the lowest bit.
ModPow(base, exponent, modulus) ==
    LET from[e \in 0..exponent] ==
            [b \in 0..(modulus - 1) |->
                IF e = 0 THEN 1
                ELSE ((IF e % 2 = 1 THEN b ELSE 1) * from[e \div 2][(b * b) % modulus]) % modulus]
    IN from[exponent][base % modulus]

Pow(base, exponent) == ModPow(base, exponent, P)

TimesMod(a, b) == (a * b) % P

\* What a power is: base^exponent by multiplying as many times as it says.
Repeated(base, exponent) ==
    LET times[e \in 0..exponent] == IF e = 0 THEN 1 ELSE TimesMod(times[e - 1], base % P)
    IN times[exponent]

\* isInSubgroup: value^q is 1, counted as value^(q-1) * value; 1 does not count.
InSubgroup(value) == value \in 2..(P - 1) /\ (Pow(value, Q - 1) * value) % P = 1

Subgroup == {v \in Elements : InSubgroup(v)}

\* Q is a prime, as P is, and G has that order.
ASSUME OrderAssumption == Pow(G, Q) = 1 /\ \A d \in 2..(Q - 1) : Q % d # 0

----------------------------------------------------------------------------
(***************************************************************************)
(* ElGamal.                                                                *)
(***************************************************************************)
Encrypt(publicKey, message, nonce) ==
    [c1 |-> Pow(G, nonce), c2 |-> TimesMod(Pow(publicKey, nonce), Pow(G, message))]

Multiply(a, b) == [c1 |-> TimesMod(a.c1, b.c1), c2 |-> TimesMod(a.c2, b.c2)]

NoVotes == [c1 |-> 1, c2 |-> 1]

Product(ciphertexts) ==
    LET upTo[i \in 0..Len(ciphertexts)] ==
            IF i = 0 THEN NoVotes ELSE Multiply(upTo[i - 1], ciphertexts[i])
    IN upTo[Len(ciphertexts)]

\* What a ciphertext encrypts, as a power of G.
Opened(privateKey, ciphertext) ==
    TimesMod(ciphertext.c2, Pow(Pow(ciphertext.c1, privateKey), Q - 1))

NoLogarithm == -1

\* Math.ceil(Math.sqrt(maximum + 1))
StepOf(maximum) ==
    CHOOSE s \in 1..(maximum + 1) : s * s >= maximum + 1 /\ (s - 1) * (s - 1) < maximum + 1

(***************************************************************************)
(* discreteLog: baby steps 0..step in a table, of which the last with a    *)
(* value stays, and giant steps 0..step down from the target.  It throws   *)
(* where nothing within the maximum is found.                              *)
(***************************************************************************)
DiscreteLog(target, maximum) ==
    LET step == StepOf(maximum)
        factor == Pow(Pow(G, step), Q - 1)
        baby == [v \in {Pow(G, j) : j \in 0..step} |->
                    CHOOSE j \in 0..step : Pow(G, j) = v /\ \A k \in (j + 1)..step : Pow(G, k) # v]
        gamma(i) == TimesMod(target, Pow(factor, i))
        hits == {i \in 0..step : gamma(i) \in DOMAIN baby /\ i * step + baby[gamma(i)] <= maximum}
        first == CHOOSE i \in hits : \A k \in hits : i <= k
    IN IF hits = {} THEN NoLogarithm ELSE first * step + baby[gamma(first)]
=============================================================================
