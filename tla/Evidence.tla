------------------------------- MODULE Evidence -------------------------------
(***************************************************************************)
(* What is taken as evidence of a signed vote and of the urn it lies in:   *)
(* the certificates under a signature, the document that bears it, and the *)
(* root over the rows. The three are verified each for itself.             *)
(***************************************************************************)
EXTENDS CertificateChain, SignatureDocument, UrnTree

\* What is accepted is what the evidence says it is: a chain ends at a root of the
\* configuration that path validation reaches (certificate-chain.ts checkChain), a
\* document was signed by the person it names, for us and as it reads
\* (xmldsig.ts verifyBankIdSignature), and two urns have one root only
\* with the same rows (urn-root.ts urnRootOf).
EvidenceHolds ==
    /\ ChainTypeOK /\ PathIsValidated
    /\ DocumentTypeOK /\ ReadIsWhatWasSigned /\ OwnSignatureIsAccepted
    /\ TreeTypeOK /\ RootIsTheUrn
=============================================================================
