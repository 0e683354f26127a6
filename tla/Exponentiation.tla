--------------------------- MODULE Exponentiation ---------------------------
(***************************************************************************)
(* The three ways to raise a number in the group: square and multiply,     *)
(* which the others fall back on, tables for the fixed bases in the        *)
(* browser, and OpenSSL's Diffie-Hellman on the server, which refuses to   *)
(* give out the secrets 1 and P - 1.                                       *)
(***************************************************************************)
EXTENDS PrimeGroup

CONSTANTS
    Digits,       \* 2^FIXED_BASE_WINDOW_BITS
    Windows,      \* of a table: as many as EXPONENT_BITS need
    MaxOdd        \* how many times OpenSSL may do something unknown

ASSUME ExponentiationAssumption == Digits \in Nat \ {0} /\ Windows \in Nat /\ MaxOdd \in Nat

VARIABLES
    server,          \* server.ts is imported: the native way is registered
    publicKeyBase,   \* the base useFixedBase was last called with, or 0
    tables,          \* the fixed bases whose table is built
    odd,
    reported,        \* reportUnexpectedFallback has logged
    result           \* of the last call: [base, exponent, value]

powVars == <<server, publicKeyBase, tables, odd, reported, result>>

PowInit ==
    /\ server \in BOOLEAN
    /\ publicKeyBase = 0 /\ tables = {}
    /\ odd = 0 /\ reported = FALSE
    /\ result = [base |-> 0, exponent |-> 0, value |-> 1]

----------------------------------------------------------------------------
(***************************************************************************)
(* Tables.                                                                 *)
(***************************************************************************)
\* Flawed: the next window starts from the last entry of the row.
NextWindow_LastEntry(windowBase) == Pow(windowBase, Digits - 1)

\* The row's last entry times the window's base once more.
NextWindow(windowBase) == TimesMod(Pow(windowBase, Digits - 1), windowBase)

\* The bases of the windows, and the one that would come next.
WindowBases(base) ==
    LET at[window \in 0..Windows] == IF window = 0 THEN base ELSE NextWindow(at[window - 1])
    IN at

\* What is left of the exponent when that many digits are read, from the lowest.
Left(exponent) ==
    LET left[window \in 0..Windows] ==
            IF window = 0 THEN exponent ELSE left[window - 1] \div Digits
    IN left

InTable(exponent) == Left(exponent)[Windows] = 0

\* The table's pow: a factor for every window's digit.
TablePow(base, exponent) ==
    LET product[window \in 0..Windows] ==
            IF window = 0 THEN 1
            ELSE TimesMod(product[window - 1],
                          Pow(WindowBases(base)[window - 1], Left(exponent)[window - 1] % Digits))
    IN product[Windows]

\* useFixedBase: one public key at a time.
UseFixedBase(base) ==
    /\ base \notin {G, publicKeyBase} /\ base \in 2..(P - 1)
    /\ publicKeyBase' = base
    /\ tables' = tables \ {publicKeyBase}
    /\ UNCHANGED <<server, odd, reported, result>>

FixedBases == {G} \cup ({publicKeyBase} \ {0})

BrowserPow(base, exponent) ==
    IF base \in FixedBases /\ InTable(exponent) THEN TablePow(base, exponent)
    ELSE Pow(base, exponent)

----------------------------------------------------------------------------
(***************************************************************************)
(* OpenSSL.                                                                *)
(***************************************************************************)
Refused == 0

\* computeSecret, for a base in 2..P - 2 and an exponent of 1 or more.
ComputeSecret(base, exponent) ==
    LET secret == Pow(base, exponent)
    IN IF secret \in {1, P - 1} THEN Refused ELSE secret

\* Flawed: what is refused is 1.
AfterRefusal_One(base, exponent) == 1

\* One step further tells 1 from P - 1; where it does not, the reference is used.
AfterRefusal(base, exponent) ==
    CASE ComputeSecret(base, exponent + 1) = base     -> 1
      [] ComputeSecret(base, exponent + 1) = P - base -> P - 1
      [] OTHER                                        -> Pow(base, exponent)

\* What never reaches OpenSSL.
IsTrivial(base, exponent) == exponent = 0 \/ base % P \in {0, 1, P - 1}

\* nativeModPow
NativePow(base, exponent) ==
    LET reduced == base % P IN
    IF IsTrivial(base, exponent) THEN Pow(base, exponent)
    ELSE IF ComputeSecret(reduced, exponent) # Refused THEN ComputeSecret(reduced, exponent)
    ELSE AfterRefusal(reduced, exponent)

----------------------------------------------------------------------------
\* modPow, of a base and an exponent that is not negative.
ModPowCall(base, exponent) ==
    /\ result' = [base |-> base, exponent |-> exponent,
                  value |-> IF server THEN NativePow(base, exponent) ELSE BrowserPow(base, exponent)]
    /\ tables' = IF ~server /\ base \in FixedBases THEN tables \cup {base} ELSE tables
    /\ UNCHANGED <<server, publicKeyBase, odd, reported>>

\* OpenSSL throws, or answers with what cannot be a power: the reference is used, and
\* that is logged once.
FallBack(base, exponent) ==
    /\ server /\ ~IsTrivial(base, exponent)
    /\ odd < MaxOdd /\ odd' = odd + 1
    /\ reported' = TRUE
    /\ result' = [base |-> base, exponent |-> exponent, value |-> Pow(base % P, exponent)]
    /\ UNCHANGED <<server, publicKeyBase, tables>>

Bases     == 0..(P + 1)
Exponents == 0..(3 * P)

PowNext ==
    \/ \E base \in Bases : UseFixedBase(base)
    \/ \E base \in Bases, exponent \in Exponents :
          ModPowCall(base, exponent) \/ FallBack(base, exponent)

PowSpec == PowInit /\ [][PowNext]_powVars

----------------------------------------------------------------------------
PowTypeOK ==
    /\ server \in BOOLEAN
    /\ publicKeyBase \in {0} \cup 2..(P - 1)
    /\ tables \subseteq FixedBases
    /\ odd \in 0..MaxOdd /\ reported = (odd > 0)
    /\ result \in [base : Nat, exponent : Nat, value : Nat]

\* Whatever was called before and on whichever side, a power is the power: the
\* page's proofs and the server's check of them count with the same numbers.
PowersAgree == result.value = Repeated(result.base, result.exponent)
=============================================================================
