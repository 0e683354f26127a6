------------------------- MODULE EnvelopeValidation -------------------------
(***************************************************************************)
(* The validation before the close: every row of pending_vote is judged on *)
(* its own, by its ballot, by the BankID signature in it and by its proofs. *)
(*                                                                         *)
(* Rows were cast by voters, in the format of today or in one of the two   *)
(* before it, on the day of the signature or just after it.  Then columns  *)
(* of rows may be changed by somebody who writes to the database, to what  *)
(* another envelope had there; who has the pepper too seals a signature    *)
(* that was made once more, for the row.  A ciphertext carries the ballot  *)
(* its proofs were made for.                                               *)
(***************************************************************************)
EXTENDS Naturals, Sequences, FiniteSets, FiniteSetsExt

CONSTANTS
    Voters, BallotIds,
    MayVoteOn(_, _),    \* the ballot is the election's or the voter's own area's
    Other,              \* a ballot id that is no ballot of the election
    MaxCast,            \* envelopes that are cast
    MaxChanges,         \* columns that are changed
    MaxDay,
    MAX_STALE_LOOKBACK, MAX_TOTAL_STALE_PROBES

ASSUME ValidationAssumption ==
    /\ MaxCast \in Nat /\ MaxChanges \in Nat /\ MaxDay \in Nat
    /\ MAX_STALE_LOOKBACK \in Nat /\ MAX_TOTAL_STALE_PROBES \in Nat

VARIABLES
    today,
    casting,     \* {} or a signature that is accepted but whose envelope is not written
    made,        \* every envelope that was ever cast, in order
    rows,        \* pending_vote, in order of id
    changes,
    judged,      \* rows that are judged, of those
    remaining,   \* staleProbeBudget
    anomalies,   \* <<row, kind>>
    outcome      \* "none", "report", "failed"

validationVars ==
    <<today, casting, made, rows, changes, judged, remaining, anomalies, outcome>>

NoSalt == 0
Formats == {"now", "before 17b", "before 11e"}

----------------------------------------------------------------------------
(***************************************************************************)
(* What is signed.                                                         *)
(***************************************************************************)
\* ciphertextCommitment: found only by who has the salt.
Commitment(hash, salt) == <<hash, salt>>

\* Flawed: the counter stands beside what is signed.
signedContentOf_WithoutSequence(ballot, hash, salt, sequence) ==
    IF salt = NoSalt THEN <<"v1", ballot, hash, 1>>
    ELSE <<"v2", ballot, Commitment(hash, salt), 1>>

\* signedContentOf: envelopePayload, or legacyEnvelopePayload of a row without salt.
signedContentOf(ballot, hash, salt, sequence) ==
    IF salt = NoSalt THEN <<"v1", ballot, hash, sequence>>
    ELSE <<"v2", ballot, Commitment(hash, salt), sequence>>

----------------------------------------------------------------------------
(***************************************************************************)
(* An envelope is cast: castEncryptedBallot asks the certificates of the   *)
(* time it reads first, and dates the row with the time it reads last.     *)
(***************************************************************************)
Slot(e) == <<e.voter, e.ballot>>

\* nextCastSequence
NextSequence(voter, ballot) ==
    Cardinality({i \in DOMAIN made : Slot(made[i]) = <<voter, ballot>>}) + 1

\* An envelope in one of the formats, with the voter's signature over the ciphertext.
Signed(voter, ballot, format, last, old) ==
    LET id == Len(made) + 1
        salt == IF format = "before 11e" THEN NoSalt ELSE id
        signature == [person |-> voter, last |-> last, text |-> ballot,
                      content |-> signedContentOf(ballot, id, salt, NextSequence(voter, ballot))]
    IN  [voter |-> voter, ballot |-> ballot,
         cipher |-> [hash |-> id, ballot |-> ballot, old |-> old],
         hash |-> id, salt |-> salt, sequence |-> NextSequence(voter, ballot),
         signature |-> signature,
         sealed |-> [format |-> IF format = "now" THEN "v3" ELSE "v2",
                     for |-> <<voter, ballot>>, signature |-> signature],
         day |-> today, format |-> format]

\* A signature that verifyBankIdSignature accepts today, over this envelope.
Accept ==
    /\ outcome = "none" /\ judged = 0 /\ changes = 0 /\ casting = {}
    /\ Len(made) < MaxCast
    /\ \E voter \in Voters, ballot \in BallotIds, format \in Formats, last \in today .. MaxDay,
          old \in BOOLEAN :
          /\ old => format = "before 11e"
          /\ last = MaxDay \/ format = "now"
          /\ casting' = {Signed(voter, ballot, format, last, old)}
    /\ UNCHANGED <<today, made, rows, changes, judged, remaining, anomalies, outcome>>

\* A row of the same voter and ballot is written over.
Put(e) ==
    LET same == {i \in DOMAIN rows : Slot(rows[i]) = Slot(e)} IN
    IF same = {} THEN Append(rows, e) ELSE [rows EXCEPT ![CHOOSE i \in same : TRUE] = e]

Write ==
    /\ casting # {}
    /\ \E c \in casting :
          LET e == [c EXCEPT !.day = today] IN      \* updatedAt
          /\ made' = Append(made, e)
          /\ rows' = Put(e)
    /\ casting' = {}
    /\ UNCHANGED <<today, changes, judged, remaining, anomalies, outcome>>

\* Other nights make no difference: only the day of the row is asked again.
Midnight ==
    /\ today < MaxDay /\ casting # {}
    /\ today' = today + 1
    /\ UNCHANGED <<casting, made, rows, changes, judged, remaining, anomalies, outcome>>

\* Somebody with the database changes a column of a row; the unique index holds.
Change ==
    /\ casting = {} /\ judged = 0 /\ outcome = "none" /\ changes < MaxChanges
    /\ \E i \in DOMAIN rows, j \in DOMAIN made :
          \/ rows' = [rows EXCEPT ![i].voter = made[j].voter]
          \/ \E b \in BallotIds \union {Other} : rows' = [rows EXCEPT ![i].ballot = b]
          \/ rows' = [rows EXCEPT ![i].cipher = made[j].cipher]
          \/ rows' = [rows EXCEPT ![i].hash = made[j].hash]
          \/ \E salt \in {made[j].salt, NoSalt} : rows' = [rows EXCEPT ![i].salt = salt]
          \/ \E n \in 1 .. MaxCast + 1 : rows' = [rows EXCEPT ![i].sequence = n]
          \/ rows' = [rows EXCEPT ![i].signature = made[j].signature]
          \/ \E for \in {made[j].sealed.for, Slot(rows[i])} :
                rows' = [rows EXCEPT ![i].sealed = [made[j].sealed EXCEPT !.for = for]]
          \/ \E d \in 0 .. MaxDay : rows' = [rows EXCEPT ![i].day = d]
    /\ rows' # rows
    /\ \A i, j \in DOMAIN rows' : i # j => Slot(rows'[i]) # Slot(rows'[j])
    /\ changes' = changes + 1
    /\ UNCHANGED <<today, casting, made, judged, remaining, anomalies, outcome>>

----------------------------------------------------------------------------
(***************************************************************************)
(* One row.                                                                *)
(***************************************************************************)
\* mismatchesVoterArea, or no ballot of the election.
WrongBallot(row) == row.ballot \notin BallotIds \/ ~MayVoteOn(row.voter, row.ballot)

\* openBankIdSignature, openLegacyCertificateChain
Opens(row) == row.sealed.for = Slot(row)

\* signedOnDay: the certificate was valid at some time of that day.
ValidOnDay(row) == row.day <= row.sealed.signature.last

ContentOf(row, n) == signedContentOf(row.ballot, row.hash, row.salt, n)

\* Flawed: a signature that holds is enough, whoever's it is.
SignedByTheVoter_Anybody(row) == row.sealed.signature.person \in Voters

\* The hash of the personal number in the leaf is the row's voter's.
SignedByTheVoter(row) == row.sealed.signature.person = row.voter

\* classifySignedContent: what the document says, no search.
classifySignedContent(row) ==
    LET content == row.sealed.signature.content IN
    IF row.salt = NoSalt THEN "bad"
    ELSE IF content = ContentOf(row, row.sequence) THEN "ok"
    ELSE IF \E n \in 1 .. row.sequence - 1 : content = ContentOf(row, n) THEN "stale"
    ELSE "bad"

judgeSignature(row) ==
    IF Opens(row) /\ ValidOnDay(row) /\ row.signature = row.sealed.signature
       /\ row.sealed.signature.text = row.ballot /\ SignedByTheVoter(row)
    THEN classifySignedContent(row)
    ELSE "bad"

\* verifySignedPayload: over content, with the key in the sealed leaf.
Signs(row, content) ==
    row.signature.person = row.sealed.signature.person /\ row.signature.content = content

\* The counters below the row's that the search may try, highest first.
LowerBound(row) ==
    IF row.sequence > MAX_STALE_LOOKBACK THEN row.sequence - MAX_STALE_LOOKBACK ELSE 1

Candidates(row) ==
    {n \in LowerBound(row) .. row.sequence - 1 : row.sequence - n <= remaining}

Found(row) == {n \in Candidates(row) : Signs(row, ContentOf(row, n))}

\* classifyLegacySignature
classifyLegacySignature(row) ==
    IF Signs(row, ContentOf(row, row.sequence)) THEN "ok"
    ELSE IF Found(row) # {} THEN "stale"
    ELSE "bad"

\* What the search took of the budget all rows share.
Probes(row) ==
    IF ~(Opens(row) /\ ValidOnDay(row)) \/ Signs(row, ContentOf(row, row.sequence)) THEN 0
    ELSE IF Found(row) # {} THEN row.sequence - Max(Found(row))
    ELSE Cardinality(Candidates(row))

judgeLegacySignature(row) ==
    IF Opens(row) /\ ValidOnDay(row) /\ SignedByTheVoter(row)
    THEN classifyLegacySignature(row)
    ELSE "bad"

\* Flawed: a chain in the old format is judged as one of today's.
IsLegacy_Never(row) == row.salt = NoSalt

\* sealedFormatOf
IsLegacy(row) == row.sealed.format = "v2"

SignatureVerdict(row) == IF IsLegacy(row) THEN judgeLegacySignature(row) ELSE judgeSignature(row)

\* verifyEncryptedBallotOnServer, which BallotProofs models; a throw is a no.
ProofHolds(row) ==
    row.ballot \in BallotIds /\ row.cipher.hash = row.hash /\ row.cipher.ballot = row.ballot

IsOldProofFormat(row) ==
    row.ballot \in BallotIds /\ row.cipher.old /\ row.cipher.hash = row.hash

\* Every check is made of every row, whatever the ones before found.
Kinds(row) ==
    LET verdict == SignatureVerdict(row)
        isOld == IsLegacy(row) /\ verdict # "bad"
        found(kind, check) == {k \in {kind} : check}
    IN  UNION {found("WRONG_BALLOT", WrongBallot(row)),
               found("STALE_SEQUENCE", verdict = "stale"),
               found("BAD_SIGNATURE", verdict = "bad"),
               found("OLD_SIGNATURE_FORMAT", isOld /\ row.salt = NoSalt),
               found("OLD_BANKID_FORMAT", isOld),
               found("OLD_PROOF_FORMAT", IsOldProofFormat(row)),
               found("BAD_PROOF", ~IsOldProofFormat(row) /\ ~ProofHolds(row))}

\* One turn of validateEnvelopes' loop; after the last the report is returned.
Judge ==
    /\ casting = {} /\ outcome = "none" /\ judged < Len(rows)
    /\ LET row == rows[judged + 1] IN
       /\ anomalies' = anomalies \union {<<judged + 1, k>> : k \in Kinds(row)}
       /\ remaining' = IF IsLegacy(row) THEN remaining - Probes(row) ELSE remaining
    /\ judged' = judged + 1
    /\ outcome' = IF judged' = Len(rows) THEN "report" ELSE "none"
    /\ UNCHANGED <<today, casting, made, rows, changes>>

\* Without roots, or the own service's name, the whole run throws before a row,
\* whatever the rows hold: it is looked at for rows as they were cast.
ConfigurationIsMissing ==
    /\ outcome = "none" /\ judged = 0 /\ rows # <<>> /\ casting = {} /\ changes = 0
    /\ outcome' = "failed"
    /\ UNCHANGED <<today, casting, made, rows, changes, judged, remaining, anomalies>>

----------------------------------------------------------------------------
ValidationInit ==
    /\ today = 0 /\ casting = {} /\ made = <<>> /\ rows = <<>> /\ changes = 0
    /\ judged = 0 /\ remaining = MAX_TOTAL_STALE_PROBES
    /\ anomalies = {} /\ outcome = "none"

ValidationNext ==
    Accept \/ Write \/ Midnight \/ Change \/ Judge \/ ConfigurationIsMissing

ValidationSpec == ValidationInit /\ [][ValidationNext]_validationVars

----------------------------------------------------------------------------
KindsOf(i) == {a[2] : a \in {b \in anomalies : b[1] = i}}

ValidationTypeOK ==
    /\ today \in 0 .. MaxDay /\ Len(made) <= MaxCast /\ Len(rows) <= Len(made)
    /\ changes \in 0 .. MaxChanges /\ judged \in 0 .. Len(rows)
    /\ remaining \in 0 .. MAX_TOTAL_STALE_PROBES
    /\ \A a \in anomalies : a[1] \in 1 .. judged
    /\ outcome \in {"none", "report", "failed"}

Casts == {made[i] : i \in DOMAIN made}

\* A row without an anomaly was cast by its voter, for its ballot, with its
\* ciphertext and its counter, whatever columns were changed
\* (validate-before-close.usecase.ts validateEnvelopes).
WithoutAnomalyIsCast ==
    \A i \in 1 .. judged :
        KindsOf(i) = {} =>
            /\ MayVoteOn(rows[i].voter, rows[i].ballot)
            /\ \E j \in DOMAIN made :
                  /\ made[j].format = "now"
                  /\ <<made[j].voter, made[j].ballot, made[j].cipher, made[j].hash, made[j].sequence>>
                     = <<rows[i].voter, rows[i].ballot, rows[i].cipher, rows[i].hash, rows[i].sequence>>

\* A row that is said to be old or stale, and not bad, is its own voter's: she
\* signed that ciphertext on that ballot, with a lower counter where it is said
\* to be stale (:487 "ett återuppspelat kuvert är STALE_SEQUENCE bara om det är
\* väljarens eget").
OldIsTheVotersOwn ==
    \A i \in 1 .. judged :
        "BAD_SIGNATURE" \notin KindsOf(i) =>
            \E j \in DOMAIN made :
                /\ <<made[j].voter, made[j].ballot, made[j].hash>>
                   = <<rows[i].voter, rows[i].ballot, rows[i].hash>>
                /\ IF "STALE_SEQUENCE" \in KindsOf(i)
                   THEN made[j].sequence < rows[i].sequence
                   ELSE made[j].sequence = rows[i].sequence

\* A row nobody changed has no other anomaly than its format and its ballot's
\* area, whatever other rows took of the search's budget, if its certificate was
\* valid on the day of the row.
ExpectedKinds(row) ==
    LET of(kind, cause) == {k \in {kind} : cause}
    IN  UNION {of("WRONG_BALLOT", ~MayVoteOn(row.voter, row.ballot)),
               of("OLD_SIGNATURE_FORMAT", row.format = "before 11e"),
               of("OLD_BANKID_FORMAT", row.format # "now"),
               of("OLD_PROOF_FORMAT", row.cipher.old)}

UnchangedIsNotBad ==
    \A i \in 1 .. judged :
        rows[i] \in Casts /\ rows[i].day <= rows[i].sealed.signature.last
            => KindsOf(i) = ExpectedKinds(rows[i])

\* What holds of the rows that have been judged (validate-before-close.usecase.ts).
ValidationHolds ==
    ValidationTypeOK /\ WithoutAnomalyIsCast /\ OldIsTheVotersOwn /\ UnchangedIsNotBad

\* What the voter was told is recorded, and nobody changed, has no bad signature.
RecordedIsNotBad ==
    \A i \in 1 .. judged :
        rows[i] \in Casts => "BAD_SIGNATURE" \notin KindsOf(i)
=============================================================================
