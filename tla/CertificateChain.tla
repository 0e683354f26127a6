-------------------------- MODULE CertificateChain --------------------------
(***************************************************************************)
(* The certificates under a BankID signature: the leaf of the person and   *)
(* one to three intermediates, verified up to a root of the configuration. *)
(*                                                                         *)
(* A chain is put together one certificate at a time. All but MaxFlaws of  *)
(* them are as BankID's own are, with any number of intermediates that may *)
(* stand below each.                                                       *)
(***************************************************************************)
EXTENDS Naturals, Sequences, FiniteSets, FiniteSetsExt

CONSTANTS
    Roots,       \* the certificates a configuration may name as roots
    Limits,      \* pathLen, in 0 .. NoLimit
    Periods,     \* of certificates that are not always valid, <<first day, last day>>
    SignedDuring, \* when the signature was made: signedAt, signedOnDay
    MaxFlaws

VARIABLES
    roots,     \* trustedBankIdRoots
    chain,     \* the leaf first
    flaws,
    window,    \* signedDuring, once the chain is judged
    reason     \* of the verdict: "ok" or what failed

chainVars == <<roots, chain, flaws, window, reason>>

MIN_CHAIN_LENGTH == 2
MAX_CHAIN_LENGTH == 4
NoLimit == 9           \* no pathLen
Days == 0 .. 9         \* of the model
Always == <<0, 9>>
Anybody == 8           \* a key of whoever wants one
RootKey == 0           \* the name and the key of a root

ASSUME ChainAssumption ==
    /\ Limits \subseteq 0 .. NoLimit
    /\ Periods \subseteq Days \X Days
    /\ SignedDuring \subseteq Days \X Days
    /\ \A root \in Roots : root.limit \in 0 .. NoLimit /\ root.period \in Days \X Days
    /\ MaxFlaws \in Nat

----------------------------------------------------------------------------
\* loadRoots: a file with anything but self-signed CA certificates is an error
\* of the configuration, and nothing is verified.
LoadRoots ==
    /\ roots = {}
    /\ \E file \in SUBSET Roots :
          /\ file # {}
          /\ \A root \in file : root.selfSigned
          /\ roots' = file
    /\ UNCHANGED <<chain, flaws, window, reason>>

\* A certificate: its place in the chain is the name of its subject and of its
\* key; issuer and signer are what checkIssued and verify compare. usage is the
\* set of its keyUsage extensions, each a set of bits.
Certificate(place, issuer, limit) ==
    [subject |-> place, issuer |-> issuer, signer |-> issuer, limit |-> limit, ca |-> place > 1,
     usage |-> {{IF place = 1 THEN "digitalSignature" ELSE "keyCertSign"}},
     persons |-> IF place = 1 THEN 1 ELSE 0, period |-> Always]

Usages ==
    {{}, {{}}, {{"digitalSignature"}}, {{"keyCertSign"}}, {{"digitalSignature"}, {"keyCertSign"}}}

Certificates ==
    [subject : Nat, issuer : Nat, signer : Nat, limit : Limits \union {NoLimit}, ca : BOOLEAN,
     usage : Usages, persons : 0 .. 2, period : Periods \union {Always}]

\* The ways one field can be another than in BankID's own certificate.
Flawed(c) ==
    {[c EXCEPT !.issuer = c.subject, !.signer = c.subject], [c EXCEPT !.ca = ~c.ca]}
    \union {[c EXCEPT !.signer = key] : key \in {Anybody, c.subject + 1, RootKey} \ {c.issuer}}
    \union {[c EXCEPT !.usage = u] : u \in Usages \ {c.usage}}
    \union {[c EXCEPT !.persons = n] : n \in (0 .. 2) \ {c.persons}}
    \union {[c EXCEPT !.period = p] : p \in Periods}

Extend ==
    LET place == Len(chain) + 1 IN
    /\ reason = "none" /\ roots # {}
    /\ place <= MAX_CHAIN_LENGTH + 1
    /\ chain # <<>> => chain[Len(chain)].issuer # RootKey
    /\ \E issuer \in {place + 1, RootKey}, limit \in IF place = 1 THEN {NoLimit} ELSE Limits :
          LET c == Certificate(place, issuer, limit) IN
          \/ chain' = Append(chain, c) /\ UNCHANGED flaws
          \/ /\ flaws < MaxFlaws
             /\ \E f \in Flawed(c) : chain' = Append(chain, f)
             /\ flaws' = flaws + 1
    /\ UNCHANGED <<roots, window, reason>>

----------------------------------------------------------------------------
(***************************************************************************)
(* checkChain, in its order.                                               *)
(***************************************************************************)
\* issuedBy: the name and the signature.
IssuedBy(child, subject, key) == child.issuer = subject /\ child.signer = key

\* extensionValue: an extension that stands twice answers nothing.
\* keyUsageAllows: without the extension nothing is allowed.
HasReadableUsage(c) == Cardinality(c.usage) <= 1
KeyUsageAllows(c, bit) == \E bits \in c.usage : bit \in bits

\* hasReadableConstraints, basicConstraintsOf: a pathLen without cA cannot be read.
HasReadableConstraints(c) == c.ca \/ c.limit = NoLimit

\* X509Certificate.ca: OpenSSL asks keyUsage only where it stands.
CanActAsCa(c) == c.ca /\ \A bits \in c.usage : "keyCertSign" \in bits

\* personalNumberOf: exactly one.
HasPersonalNumber(c) == c.persons = 1

Intermediates == 2 .. Len(chain)

MayIssue(c) ==
    /\ HasReadableConstraints(c) /\ HasReadableUsage(c)
    /\ c.ca /\ KeyUsageAllows(c, "keyCertSign") /\ CanActAsCa(c)

Anchors == {root \in roots : IssuedBy(chain[Len(chain)], RootKey, RootKey)}

\* Flawed: an intermediate is counted among those below itself.
TooDeep_CountsItself(i) == i - 1 > chain[i].limit

\* The intermediate at place i has i - 2 others below it.
TooDeep(i) == i - 2 > chain[i].limit

\* Flawed: the limit of one root and the time of another may do together.
UsableAnchors_AnyOfThem ==
    IF \E root \in Anchors : Len(chain) - 1 <= root.limit THEN Anchors ELSE {}

\* rootAllows
UsableAnchors == {root \in Anchors : Len(chain) - 1 <= root.limit}

Latest(S) == Max({p[1] : p \in S})
Earliest(S) == Min({p[2] : p \in S})

\* validDuring: all at once, at some time of the window.
ValidDuring(root, during) ==
    LET periods == {chain[i].period : i \in DOMAIN chain} \union {root.period, during}
    IN Latest(periods) <= Earliest(periods)

\* What the first intermediate that may not issue certificates is told.
FailingIntermediate ==
    LET c == chain[Min({i \in Intermediates : ~MayIssue(chain[i])})]
    IN IF HasReadableConstraints(c) /\ HasReadableUsage(c) THEN "intermediate_not_ca"
       ELSE "malformed"

CheckChain(during) ==
    LET leaf == chain[1] IN
    IF Len(chain) \notin MIN_CHAIN_LENGTH .. MAX_CHAIN_LENGTH THEN "malformed"
    ELSE IF Anchors = {} THEN "untrusted_root"
    ELSE IF \E i \in Intermediates : IssuedBy(chain[i], i, i) THEN "malformed"
    ELSE IF \E i \in Intermediates : ~MayIssue(chain[i]) THEN FailingIntermediate
    ELSE IF \E i \in Intermediates : TooDeep(i) THEN "path_length_exceeded"
    ELSE IF UsableAnchors = {} THEN "path_length_exceeded"
    ELSE IF \E i \in 1 .. Len(chain) - 1 : ~IssuedBy(chain[i], i + 1, i + 1)
         THEN "not_issued_by_intermediate"
    ELSE IF ~HasReadableConstraints(leaf) THEN "malformed"
    ELSE IF leaf.ca \/ CanActAsCa(leaf) THEN "leaf_is_ca"
    ELSE IF ~HasReadableUsage(leaf) THEN "malformed"
    ELSE IF ~KeyUsageAllows(leaf, "digitalSignature") THEN "no_digital_signature"
    ELSE IF \A root \in UsableAnchors : ~ValidDuring(root, during) THEN "not_valid_when_signed"
    ELSE IF ~HasPersonalNumber(leaf) THEN "no_personal_number"
    ELSE "ok"

----------------------------------------------------------------------------
NoWindow == <<>>

ChainInit == roots = {} /\ chain = <<>> /\ flaws = 0 /\ window = NoWindow /\ reason = "none"

VerifyChain ==
    /\ reason = "none" /\ chain # <<>>
    /\ \E during \in SignedDuring : window' = during /\ reason' = CheckChain(during)
    /\ UNCHANGED <<roots, chain, flaws>>

ChainNext == LoadRoots \/ Extend \/ VerifyChain

ChainSpec == ChainInit /\ [][ChainNext]_chainVars

----------------------------------------------------------------------------
(***************************************************************************)
(* Path validation the other way, as RFC 5280 6.1 has it: from the root    *)
(* down to the leaf, with the number of intermediates that may still come. *)
(***************************************************************************)
Lesser(m, n) == IF m < n THEN m ELSE n

\* After the certificates from the top down to place i.
RoomBelow(root) ==
    LET room[i \in 2 .. Len(chain) + 1] ==
          IF i > Len(chain) THEN root.limit
          ELSE IF room[i + 1] = 0 THEN 0
          ELSE Lesser(room[i + 1] - 1, chain[i].limit)
    IN room

Names(c, bit) == \E bits \in c.usage : c.usage = {bits} /\ bit \in bits

PathHolds(root) ==
    /\ Len(chain) \in MIN_CHAIN_LENGTH .. MAX_CHAIN_LENGTH
    /\ \A i \in DOMAIN chain :
          LET above == IF i = Len(chain) THEN RootKey ELSE i + 1
          IN chain[i].issuer = above /\ chain[i].signer = above
    /\ \A i \in Intermediates :
          chain[i].ca /\ Names(chain[i], "keyCertSign") /\ RoomBelow(root)[i + 1] > 0
    /\ ~chain[1].ca /\ Names(chain[1], "digitalSignature") /\ chain[1].persons = 1
    /\ \E day \in window[1] .. window[2] :
          /\ day \in root.period[1] .. root.period[2]
          /\ \A i \in DOMAIN chain : day \in chain[i].period[1] .. chain[i].period[2]

ChainTypeOK ==
    /\ roots \subseteq Roots
    /\ chain \in Seq(Certificates) /\ \A i \in DOMAIN chain : chain[i].subject = i
    /\ flaws \in 0 .. MaxFlaws
    /\ window \in SignedDuring \union {NoWindow}
    /\ reason \in {"none", "ok", "malformed", "untrusted_root", "intermediate_not_ca",
                   "path_length_exceeded", "not_issued_by_intermediate", "leaf_is_ca",
                   "no_digital_signature", "not_valid_when_signed", "no_personal_number"}

\* A chain is accepted exactly when path validation from a root of the
\* configuration down to the leaf accepts it at one time of the window
\* (certificate-chain.ts checkChain, which counts from the leaf and asks each
\* question of the whole chain at once).
PathIsValidated ==
    reason # "none" => (reason = "ok" <=> \E root \in roots : PathHolds(root))
=============================================================================
