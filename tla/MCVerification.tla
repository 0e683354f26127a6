--------------------------- MODULE MCVerification ---------------------------
(***************************************************************************)
(* Values for TLC: what one party gives another with something that shows  *)
(* it is true, a ballot with its proofs, a root over the urn, a signature  *)
(* with its certificates, the calls that fetch it, the orders in which     *)
(* votes are signed, and the queue before the verification.                *)
(*                                                                         *)
(* The parts share no state, and each is explored for itself: the others   *)
(* stand still where they begin.                                           *)
(***************************************************************************)
EXTENDS SigningOrders, BankIdOrders, Evidence, BallotProofs, Exponentiation, TLC

CONSTANTS
    Parts,   \* the parts that a run explores
    b1, x, k1, k2, s1, h1, h2, h3

VARIABLE part   \* the one that a behaviour is of

signingVars == <<queueVars, orderVars>>
allVars == <<part, proofVars, powVars, treeVars, chainVars, documentVars, bankVars, signingVars>>

\* Roots of a configuration: without a limit but gone by the third day, with
\* room for one intermediate, and one that is not self-signed.
MCRoots ==
    {[limit |-> 9, period |-> <<1, 2>>, selfSigned |-> TRUE],
     [limit |-> 1, period |-> <<1, 3>>, selfSigned |-> TRUE],
     [limit |-> 9, period |-> <<1, 3>>, selfSigned |-> FALSE]}

MCPeriods == {<<1, 1>>, <<2, 3>>}

MCSignedDuring == {<<3, 3>>, <<1, 2>>}

\* The ballot first, then the ciphertext.
MCHashOrder ==
    [leaf \in Leaves |-> (IF leaf[2] = b1 THEN 0 ELSE 2) + (IF leaf[Len(leaf)] = x THEN 1 ELSE 2)]

\* The calls to BankID are alike, and the visitors of the queue.
MCAlike == Permutations({k1, k2}) \cup Permutations({h1, h2, h3})

MCSessionOf == [o \in Orders |-> s1]

----------------------------------------------------------------------------
VerificationInit ==
    /\ part \in Parts
    /\ PowInit
    /\ part # "powers" => ~server
    /\ ProofInit /\ TreeInit /\ ChainInit /\ DocumentInit /\ BankInit /\ Init

\* What the other parts do meanwhile.
OnlyBallot == UNCHANGED <<part, powVars, treeVars, chainVars, documentVars, bankVars, signingVars>>
OnlyPowers == UNCHANGED <<part, proofVars, treeVars, chainVars, documentVars, bankVars, signingVars>>
OnlyTree == UNCHANGED <<part, proofVars, powVars, chainVars, documentVars, bankVars, signingVars>>
OnlyChain == UNCHANGED <<part, proofVars, powVars, treeVars, documentVars, bankVars, signingVars>>
OnlyDocument == UNCHANGED <<part, proofVars, powVars, treeVars, chainVars, bankVars, signingVars>>
OnlyBankid == UNCHANGED <<part, proofVars, powVars, treeVars, chainVars, documentVars, signingVars>>
OnlySigning == UNCHANGED <<part, proofVars, powVars, treeVars, chainVars, documentVars, bankVars>>

VerificationNext ==
    \/ part = "ballot" /\ ProofNext /\ OnlyBallot
    \/ part = "powers" /\ PowNext /\ OnlyPowers
    \/ part = "tree" /\ Add /\ OnlyTree
    \/ part = "chain" /\ ChainNext /\ OnlyChain
    \/ part = "document" /\ DocumentNext /\ OnlyDocument
    \/ part = "bankid" /\ BankNext /\ OnlyBankid
    \/ part = "queue" /\ QueueNext /\ UNCHANGED orderVars /\ OnlySigning
    \/ part = "signing" /\ Next /\ OnlySigning

VerificationSpec == VerificationInit /\ [][VerificationNext]_allVars
=============================================================================
