-------------------------- MODULE SignatureDocument --------------------------
(***************************************************************************)
(* BankID's signature: an XML document that bears what was signed, the     *)
(* certificates and the signature, and how verifyBankIdSignature reads it. *)
(*                                                                         *)
(* A digest stands for the element it is made of and a signature for its   *)
(* key and what it is over.  Two persons sign for services of theirs; a    *)
(* document may also be put together of parts of different documents, or   *)
(* signed with a key of one's own, before it is verified.                  *)
(***************************************************************************)
EXTENDS Naturals, Sequences, FiniteSets

CONSTANTS
    Persons,
    Contents,    \* usrNonVisibleData: what is signed
    Texts,       \* usrVisibleData: what the person reads
    Services,    \* subjects of the certificates of relying parties
    Own,         \* our own: expectedServiceName
    MaxSigned, MaxParts

VARIABLES
    signed,      \* what persons have signed, with their documents
    document,
    replaced,    \* parts of it that are another document's
    accepted     \* what verifyBankIdSignature hands out

documentVars == <<signed, document, replaced, accepted>>

OwnKey == "own key"    \* of whoever makes one
ASSUME DocumentAssumption == OwnKey \notin Persons /\ MaxSigned \in Nat /\ MaxParts \in Nat

NotYet == [verdict |-> "none"]

----------------------------------------------------------------------------
\* The key in the leaf is the person's; only BankID's intermediate issues leaves.
Leaf(person, strong) == [person |-> person, key |-> <<person, strong>>, issuer |-> "issuing"]
OwnLeaf(person) == [person |-> person, key |-> <<OwnKey, TRUE>>, issuer |-> OwnKey]
Issuing == [name |-> "issuing"]
TrustedRoot == [name |-> "root"]

\* verifyCertificateChain, as CertificateChain models it.
ChainHolds(certificates) ==
    Len(certificates) = 2 /\ certificates[1].issuer = "issuing" /\ certificates[2] = Issuing

Info(data, keyInfo) ==
    << [uri |-> "bidSignedData", digest |-> data], [uri |-> "bidKeyInfo", digest |-> keyInfo] >>

\* buildBankIdSignatureXml, and BankID's own app.
Document(certificates, data) ==
    LET keyInfo == [id |-> "bidKeyInfo", certificates |-> certificates]
        info == Info(data, keyInfo)
    IN [info |-> info, value |-> [key |-> certificates[1].key, over |-> info],
        keyInfo |-> keyInfo, data |-> data, canonical |-> TRUE, structured |-> TRUE]

Data(content, text, service, function) ==
    [id |-> "bidSignedData", content |-> content, text |-> text, service |-> service,
     funcId |-> function]

\* BankID may leave the root at the end of the chain.
Delivered(person, strong, withRoot) ==
    IF withRoot THEN <<Leaf(person, strong), Issuing, TrustedRoot>>
    ELSE <<Leaf(person, strong), Issuing>>

\* A person signs, or identifies herself, for a service.
Sign ==
    /\ document = NotYet /\ Cardinality(signed) < MaxSigned
    /\ \E person \in Persons, content \in Contents, text \in Texts, service \in Services,
          function \in {"Signing", "Identification"}, strong, withRoot \in BOOLEAN :
          LET data == Data(content, text, service, function)
          IN signed' = signed \union
                {[person |-> person, data |-> data, strong |-> strong,
                  document |-> Document(Delivered(person, strong, withRoot), data)]}
    /\ UNCHANGED <<document, replaced, accepted>>

Documents == {s.document : s \in signed}

\* One of them comes as it is, or one that is made with a key of one's own.
Arrives ==
    /\ document = NotYet /\ signed # {}
    /\ \/ document' \in Documents
       \/ \E d \in Documents, person \in Persons :
             document' = Document(<<OwnLeaf(person), Issuing>>, d.data)
    /\ UNCHANGED <<signed, replaced, accepted>>

\* A part is another document's, or stands under another Id, or the document is
\* not in canonical form, or has other elements than the profile's.
Replace ==
    /\ document # NotYet /\ accepted = NotYet /\ replaced < MaxParts
    /\ replaced' = replaced + 1
    /\ \/ \E d \in Documents :
             \/ document' = [document EXCEPT !.info = d.info]
             \/ document' = [document EXCEPT !.value = d.value]
             \/ document' = [document EXCEPT !.keyInfo = d.keyInfo]
             \/ document' = [document EXCEPT !.data = d.data]
       \/ document' = [document EXCEPT !.info = Info(document.data, document.keyInfo)]
       \/ document' = [document EXCEPT !.info = << @[2], @[1] >>]
       \/ document' = [document EXCEPT !.data.id = "bidKeyInfo"]
       \/ document' = [document EXCEPT !.canonical = FALSE]
       \/ document' = [document EXCEPT !.structured = FALSE]
    /\ UNCHANGED <<signed, accepted>>

----------------------------------------------------------------------------
(***************************************************************************)
(* verifyBankIdSignature.                                                  *)
(***************************************************************************)
\* One text for one document: checkCharacters, canonicalize, strictBase64.
IsCanonical(d) == d.canonical

\* Each Id once, in the profile's structure; an identification is no signature.
IsProfile(d) ==
    /\ d.structured
    /\ d.data.id # d.keyInfo.id
    /\ d.data.funcId = "Signing"

\* Flawed: what the references say of what is read is not computed anew.
ReferencesHold_DigestsNotAsked(d) ==
    /\ d.info[1].uri = "bidSignedData" /\ d.info[2].uri = "bidKeyInfo"
    /\ d.data.id = "bidSignedData" /\ d.keyInfo.id = "bidKeyInfo"

\* The two references point at exactly the two elements that are read.
ReferencesHold(d) ==
    /\ d.info[1].uri = "bidSignedData" /\ d.info[2].uri = "bidKeyInfo"
    /\ d.data.id = "bidSignedData" /\ d.keyInfo.id = "bidKeyInfo"
    /\ d.info[1].digest = d.data /\ d.info[2].digest = d.keyInfo

\* A root of the configuration, last in the chain, is taken away.
WithoutRoot(certificates) ==
    IF certificates[Len(certificates)] = TrustedRoot
    THEN SubSeq(certificates, 1, Len(certificates) - 1)
    ELSE certificates

\* Flawed: a signature another service asked for is as good.
IsOwnService_AnyService(d) == d.data.service \in Services

\* sameServiceName
IsOwnService(d) == d.data.service = Own

verifyBankIdSignature(d) ==
    LET chain == WithoutRoot(d.keyInfo.certificates) IN
    IF /\ IsCanonical(d)
       /\ IsProfile(d)
       /\ ReferencesHold(d)
       /\ ChainHolds(chain)
       /\ chain[1].key[2]                                        \* isStrongRsaKey
       /\ d.value.key = chain[1].key /\ d.value.over = d.info
       /\ IsOwnService(d)
    THEN [verdict |-> "ok", person |-> chain[1].person, content |-> d.data.content,
          text |-> d.data.text]
    ELSE [verdict |-> "bad"]

VerifyDocument ==
    /\ document # NotYet /\ accepted = NotYet
    /\ accepted' = verifyBankIdSignature(document)
    /\ UNCHANGED <<signed, document, replaced>>

----------------------------------------------------------------------------
DocumentInit == signed = {} /\ document = NotYet /\ replaced = 0 /\ accepted = NotYet

DocumentNext == Sign \/ Arrives \/ Replace \/ VerifyDocument

DocumentSpec == DocumentInit /\ [][DocumentNext]_documentVars

----------------------------------------------------------------------------
DocumentTypeOK ==
    /\ Cardinality(signed) <= MaxSigned
    /\ document = NotYet \/ DOMAIN document = {"info", "value", "keyInfo", "data", "canonical", "structured"}
    /\ replaced \in 0 .. MaxParts
    /\ accepted.verdict \in {"none", "ok", "bad"}

\* What is handed out of a document is what that person signed, under the text
\* she read, for our own service and as a signature, whatever parts the document
\* was put together of (xmldsig.ts verifyBankIdSignature: what is read is the
\* element whose digest is verified).
ReadIsWhatWasSigned ==
    accepted.verdict = "ok" =>
        \E s \in signed :
            /\ s.person = accepted.person
            /\ s.data.content = accepted.content /\ s.data.text = accepted.text
            /\ s.data.service = Own /\ s.data.funcId = "Signing"

\* A signature the service asked for, of a key that is long enough, is accepted,
\* also when BankID leaves the root in it.
OwnSignatureIsAccepted ==
    accepted # NotYet /\ replaced = 0 /\
    (\E s \in signed : s.document = document /\ s.strong /\ s.data.service = Own
                       /\ s.data.funcId = "Signing")
        => accepted.verdict = "ok"
=============================================================================
