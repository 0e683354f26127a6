----------------------- MODULE ElectionClosing_proofs -----------------------
(***************************************************************************)
(* Casting keeps its promise for every number of slots, calls, ciphertexts *)
(* and re-votes, and the closing is safe for every number of voters, votes *)
(* in flight, closings and faults.                                         *)
(***************************************************************************)
EXTENDS ElectionClosing, FiniteSetTheorems, TLAPS

(***************************************************************************)
(* Casting.                                                                *)
(***************************************************************************)
\* A request that is under way carries a slot and an envelope.
LEMMA RequestUnderWay ==
    ASSUME CastTypeOK, NEW r \in Requests, request[r].at # "idle"
    PROVE  /\ request[r] \in [at : Stages \ {"idle"}, slot : Slots,
                              envelope : Envelope, retried : BOOLEAN]
           /\ request[r].slot \in Slots
           /\ request[r].envelope \in Envelope
           /\ request[r].envelope.seq \in Sequences
           /\ request[r].retried \in BOOLEAN
<1>1. request[r] \in RequestState
    BY DEF CastTypeOK
<1>2. request[r] # Idle
    BY DEF Idle
<1>3. request[r] \in [at : Stages \ {"idle"}, slot : Slots, envelope : Envelope, retried : BOOLEAN]
    BY <1>1, <1>2 DEF RequestState
<1> QED
    BY <1>3 DEF Envelope

\* The number in a slot is 0 for no row, and the row's otherwise.
LEMMA SequenceAtType ==
    ASSUME NEW rows \in PendingVotes, NEW s \in Slots
    PROVE  /\ SequenceAt(rows, s) \in Nat
           /\ rows[s] = NoEnvelope => SequenceAt(rows, s) = 0
           /\ rows[s] # NoEnvelope => SequenceAt(rows, s) = rows[s].seq /\ rows[s] \in Envelope
    BY SlotsAssumption DEF PendingVotes, SequenceAt, Envelope, Sequences

\* Moving a call to another stage, or ending it, keeps the calls' type.
LEMMA MovedType ==
    ASSUME CastTypeOK, NEW r \in Requests, request[r].at # "idle",
           NEW stage \in Stages \ {"idle"}, Moved(r, stage)
    PROVE  request' \in [Requests -> RequestState]
<1>1. request[r] \in [at : Stages \ {"idle"}, slot : Slots, envelope : Envelope, retried : BOOLEAN]
    BY RequestUnderWay
<1>2. [request[r] EXCEPT !.at = stage] \in RequestState
    BY <1>1 DEF RequestState
<1> QED
    BY <1>2 DEF Moved, CastTypeOK

LEMMA EndsType ==
    ASSUME CastTypeOK, NEW r \in Requests, Ends(r)
    PROVE  request' \in [Requests -> RequestState]
    BY DEF Ends, CastTypeOK, RequestState, Idle

----------------------------------------------------------------------------
(***************************************************************************)
(* The row and the receipt.  A call that writes has a number above the     *)
(* row's, so the row and what the voter was told change together.          *)
(***************************************************************************)
LEMMA RecordStep ==
    ASSUME CastTypeOK, NEW r \in Requests, request[r].at # "idle", ~IsStale(r), Record(r)
    PROVE  /\ pending' \in PendingVotes
           /\ receipts' \in PendingVotes
           /\ RowIsTheReceipt => receipts' = pending'
           /\ request' \in [Requests -> RequestState]
           /\ pending' = [pending EXCEPT ![request[r].slot] = request[r].envelope]
           /\ request[r].slot \in Slots
           /\ request[r].envelope \in Envelope
           /\ request[r].envelope.seq > SequenceAt(pending, request[r].slot)
<1> DEFINE s == request[r].slot
           e == request[r].envelope
<1>1. s \in Slots /\ e \in Envelope /\ e.seq \in Nat
    BY RequestUnderWay, SlotsAssumption DEF Sequences
<1>2. pending \in PendingVotes /\ receipts \in PendingVotes
    BY DEF CastTypeOK
<1>3. SequenceAt(pending, s) \in Nat
    BY <1>1, <1>2, SequenceAtType
<1>4. e.seq > SequenceAt(pending, s)
    BY <1>1, <1>3 DEF IsStale
<1>5. /\ pending' = [pending EXCEPT ![s] = e]
      /\ receipts' = IF e.seq >= SequenceAt(receipts, s)
                     THEN [receipts EXCEPT ![s] = e] ELSE receipts
      /\ Ends(r)
    BY DEF Record
<1>6. RowIsTheReceipt => receipts' = pending'
    BY <1>1, <1>3, <1>4, <1>5 DEF RowIsTheReceipt
<1>7. pending' \in PendingVotes /\ receipts' \in PendingVotes
    BY <1>1, <1>2, <1>5 DEF PendingVotes
<1>8. request' \in [Requests -> RequestState]
    BY <1>5, EndsType
<1> QED
    BY <1>1, <1>4, <1>5, <1>6, <1>7, <1>8

\* An empty slot's number is below every signed one.
LEMMA CreateIsNotStale ==
    ASSUME CastTypeOK, NEW r \in Requests, request[r].at # "idle",
           pending[request[r].slot] = NoEnvelope
    PROVE  ~IsStale(r)
    BY RequestUnderWay, SlotsAssumption DEF IsStale, SequenceAt, Sequences

----------------------------------------------------------------------------
(***************************************************************************)
(* The inductive invariant.  A repeated transaction finds the row that was *)
(* in its way: rows are replaced and never removed before the stripping.   *)
(***************************************************************************)
RetryFindsTheRow ==
    \A r \in Requests :
        /\ request[r].at \in {"lock", "write"} /\ request[r].retried
              => pending[request[r].slot] # NoEnvelope
        /\ request[r].at \in {"signed", "create"} => ~request[r].retried
        /\ request[r].at # "failed"

NoneCastsAfterTheClose == phase # "OPEN" => HoldingRow = {}

CastIInv ==
    /\ CastTypeOK
    /\ RowIsTheReceipt
    /\ NoneCastsAfterTheClose
    /\ RetryFindsTheRow

\* Every step of the voters keeps what the closing relies on, in any phase:
\* the types, the receipt in the row, and a row that only rises.
LEMMA VoterStep ==
    ASSUME CastTypeOK, VoterNext
    PROVE  /\ CastTypeOK'
           /\ UNCHANGED <<phase, rowLocked>>
           /\ \/ UNCHANGED <<pending, receipts>>
              \/ /\ HoldingRow # {}
                 /\ RowIsTheReceipt => RowIsTheReceipt'
                 /\ \E s \in Slots, e \in Envelope :
                       /\ e.seq > SequenceAt(pending, s)
                       /\ pending' = [pending EXCEPT ![s] = e]
           /\ \A r \in HoldingRow' : r \in HoldingRow \/ AcceptsVotesNow
<1> USE DEF CastTypeOK
<1>1. CASE VotingEnds
    BY <1>1 DEF VotingEnds, HoldingRow
<1>2. ASSUME NEW r \in Requests, NEW s \in Slots, NEW x \in Ciphers, SignStart(r, s, x)
      PROVE  CastTypeOK' /\ UNCHANGED <<pending, receipts, phase, rowLocked>> /\ HoldingRow' = HoldingRow
  <2>1. NextCastSequence(s) \in Sequences
      BY <1>2, SequenceAtType, SlotsAssumption DEF SignStart, NextCastSequence, Sequences
  <2>2. request'[r] \in RequestState /\ request'[r].at = "signed"
      BY <1>2, <2>1 DEF SignStart, RequestState, Stages, Envelope
  <2>3. \A q \in Requests \ {r} : request'[q] = request[q]
      BY <1>2 DEF SignStart
  <2>4. HoldingRow' = HoldingRow
      BY <1>2, <2>2, <2>3 DEF HoldingRow, SignStart, Idle
  <2>5. request' \in [Requests -> RequestState]
      BY <1>2, <2>2 DEF SignStart
  <2> QED
      BY <1>2, <2>4, <2>5 DEF SignStart
<1>3. ASSUME NEW r \in Requests, NEW other \in Requests, PollAgain(r, other)
      PROVE  CastTypeOK' /\ UNCHANGED <<pending, receipts, phase, rowLocked>> /\ HoldingRow' = HoldingRow
  <2>1. request[other].at # "idle" /\ request[r] = Idle
      BY <1>3 DEF PollAgain
  <2>2. request[other] \in [at : Stages \ {"idle"}, slot : Slots, envelope : Envelope, retried : BOOLEAN]
      BY <2>1, RequestUnderWay
  <2>3. [request[other] EXCEPT !.at = "signed", !.retried = FALSE] \in RequestState
      BY <2>2 DEF RequestState, Stages
  <2>4. request' \in [Requests -> RequestState] /\ request'[r].at = "signed"
      BY <1>3, <2>2, <2>3 DEF PollAgain
  <2>5. HoldingRow' = HoldingRow
      BY <1>3, <2>1, <2>4 DEF HoldingRow, PollAgain, Idle
  <2> QED
      BY <1>3, <2>4, <2>5 DEF PollAgain
<1>4. ASSUME NEW r \in Requests, CastCheck(r)
      PROVE  CastTypeOK' /\ UNCHANGED <<pending, receipts, phase, rowLocked>> /\ HoldingRow' = HoldingRow
  <2>1. request[r].at = "signed"
      BY <1>4 DEF CastCheck
  <2>2. request' \in [Requests -> RequestState]
      BY <1>4, <2>1, MovedType, EndsType DEF CastCheck, Stages
  <2>3. request'[r].at \in {"lock", "idle"} /\ \A q \in Requests \ {r} : request'[q] = request[q]
      BY <1>4, <2>1, RequestUnderWay DEF CastCheck, Moved, Ends, Idle
  <2> QED
      BY <1>4, <2>1, <2>2, <2>3 DEF CastCheck, HoldingRow
<1>5. ASSUME NEW r \in Requests, GiveUp(r)
      PROVE  CastTypeOK' /\ UNCHANGED <<pending, receipts, phase, rowLocked>> /\ HoldingRow' = HoldingRow
    BY <1>5, EndsType DEF GiveUp, HoldingRow, Ends, Idle
<1>6. ASSUME NEW r \in Requests, CastLockRow(r)
      PROVE  /\ CastTypeOK'
             /\ UNCHANGED <<pending, receipts, phase, rowLocked>>
             /\ \A q \in HoldingRow' : q \in HoldingRow \/ AcceptsVotesNow
  <2>1. request[r].at = "lock"
      BY <1>6 DEF CastLockRow
  <2>2. request' \in [Requests -> RequestState]
      BY <1>6, <2>1, MovedType, EndsType DEF CastLockRow, Stages
  <2>3. AcceptsVotesNow \/ request'[r].at = "idle"
      BY <1>6 DEF CastLockRow, StillOpenUnderLock, Ends, Idle
  <2>4. \A q \in Requests \ {r} : request'[q] = request[q]
      BY <1>6 DEF CastLockRow, Moved, Ends
  <2> QED
      BY <1>6, <2>2, <2>3, <2>4 DEF CastLockRow, HoldingRow
<1>7. ASSUME NEW r \in Requests, CastWrite(r) \/ CastCreate(r)
      PROVE  /\ CastTypeOK'
             /\ UNCHANGED <<phase, rowLocked>>
             /\ \/ UNCHANGED <<pending, receipts>>
                \/ /\ RowIsTheReceipt => receipts' = pending'
                   /\ \E s \in Slots, e \in Envelope :
                        e.seq > SequenceAt(pending, s) /\ pending' = [pending EXCEPT ![s] = e]
             /\ r \in HoldingRow
             /\ HoldingRow' \subseteq HoldingRow
  <2>1. request[r].at \in {"write", "create"} /\ r \in HoldingRow
      BY <1>7 DEF CastWrite, CastCreate, HoldingRow
  <2>2. UNCHANGED <<phase, ended, rowLocked>>
      BY <1>7 DEF CastWrite, CastCreate
  <2>3. CASE ~IsStale(r) /\ Record(r)
    <3>1. request' = [request EXCEPT ![r] = Idle]
        BY <2>3 DEF Record, Ends
    <3> QED
        BY <2>1, <2>2, <2>3, <3>1, RecordStep DEF HoldingRow
  <2>4. CASE UNCHANGED <<pending, receipts>> /\ Ends(r)
      BY <2>1, <2>2, <2>4, EndsType DEF HoldingRow, Ends
  <2>5. CASE UNCHANGED <<pending, receipts>> /\ Moved(r, "create")
    <3>1. request' \in [Requests -> RequestState]
        BY <2>1, <2>5, MovedType DEF Stages
    <3>2. HoldingRow' \subseteq HoldingRow
        BY <2>1, <2>5 DEF HoldingRow, Moved
    <3> QED
        BY <2>1, <2>2, <2>5, <3>1, <3>2
  <2>6. CASE /\ UNCHANGED <<pending, receipts>>
             /\ request' = [request EXCEPT ![r].at = IF request[r].retried THEN "failed" ELSE "lock",
                                           ![r].retried = TRUE]
    <3>1. request[r] \in [at : Stages \ {"idle"}, slot : Slots, envelope : Envelope, retried : BOOLEAN]
        BY <2>1, RequestUnderWay
    <3>2. \A stage \in {"failed", "lock"} :
             [request[r] EXCEPT !.at = stage, !.retried = TRUE] \in RequestState
        BY <3>1 DEF RequestState, Stages
    <3>3. PICK stage \in {"failed", "lock"} :
             request' = [request EXCEPT ![r] = [request[r] EXCEPT !.at = stage, !.retried = TRUE]]
        BY <2>6, <3>1
    <3>4. request' \in [Requests -> RequestState] /\ HoldingRow' \subseteq HoldingRow
        BY <3>1, <3>2, <3>3 DEF HoldingRow
    <3> QED
        BY <2>1, <2>2, <2>6, <3>4
  <2>7. pending[request[r].slot] = NoEnvelope => ~IsStale(r)
      BY <2>1, CreateIsNotStale
  <2> QED
      BY <1>7, <2>3, <2>4, <2>5, <2>6, <2>7 DEF CastWrite, CastCreate
<1> QED
    BY <1>1, <1>2, <1>3, <1>4, <1>5, <1>6, <1>7 DEF VoterNext, CastStep, RowIsTheReceipt

\* The retry: what the call that steps, and a row that is there, come to.
LEMMA RetryStep ==
    ASSUME CastIInv, VoterNext
    PROVE  RetryFindsTheRow'
<1> USE DEF CastIInv, RetryFindsTheRow
<1>1. \A s \in Slots : pending[s] # NoEnvelope => pending'[s] # NoEnvelope
    BY VoterStep, NoEnvelopeAssumption DEF CastTypeOK, PendingVotes
<1>2. CASE UNCHANGED request
    BY <1>1, <1>2, RequestUnderWay
<1>3. ASSUME NEW r \in Requests,
             \A q \in Requests \ {r} : request'[q] = request[q],
             \/ request'[r].at = "idle"
             \/ request'[r].at = "signed" /\ ~request'[r].retried
             \/ /\ request[r].at \in {"signed", "lock", "write"}
                /\ request'[r].at \in {"lock", "write"}
                /\ request'[r].slot = request[r].slot
                /\ request'[r].retried = request[r].retried
             \/ request'[r].at = "create" /\ ~request'[r].retried
             \/ /\ request'[r].at = "lock"
                /\ request'[r].slot \in Slots
                /\ pending'[request'[r].slot] # NoEnvelope
      PROVE  RetryFindsTheRow'
    BY <1>1, <1>3, RequestUnderWay
<1>4. ASSUME NEW r \in Requests, NEW s \in Slots, NEW x \in Ciphers, SignStart(r, s, x)
      PROVE  RetryFindsTheRow'
    BY <1>3, <1>4 DEF SignStart, CastTypeOK
<1>5. ASSUME NEW r \in Requests, NEW other \in Requests, PollAgain(r, other)
      PROVE  RetryFindsTheRow'
  <2>1. request[other] \in [at : Stages \ {"idle"}, slot : Slots, envelope : Envelope, retried : BOOLEAN]
      BY <1>5, RequestUnderWay DEF PollAgain
  <2>2. /\ request'[r].at = "signed"
        /\ ~request'[r].retried
        /\ \A q \in Requests \ {r} : request'[q] = request[q]
      BY <1>5, <2>1 DEF PollAgain, CastTypeOK
  <2> QED
      BY <1>3, <2>2
<1>6. ASSUME NEW r \in Requests, Ends(r)
      PROVE  RetryFindsTheRow'
    BY <1>3, <1>6 DEF Ends, CastTypeOK, Idle
<1>7. ASSUME NEW r \in Requests, request[r].at # "idle", NEW stage \in Stages, Moved(r, stage)
      PROVE  /\ \A q \in Requests \ {r} : request'[q] = request[q]
             /\ request'[r].at = stage
             /\ request'[r].slot = request[r].slot
             /\ request'[r].retried = request[r].retried
    BY <1>7, RequestUnderWay DEF Moved, CastTypeOK
<1>8. ASSUME NEW r \in Requests, CastCheck(r) \/ GiveUp(r) \/ CastLockRow(r)
      PROVE  RetryFindsTheRow'
  <2>1. Ends(r) \/ (request[r].at = "signed" /\ Moved(r, "lock"))
                \/ (request[r].at = "lock" /\ Moved(r, "write"))
      BY <1>8 DEF CastCheck, GiveUp, CastLockRow
  <2> QED
      BY <1>3, <1>6, <1>7, <2>1 DEF Stages
<1>9. ASSUME NEW r \in Requests, CastWrite(r)
      PROVE  RetryFindsTheRow'
  <2>1. CASE Ends(r)
      BY <1>6, <2>1
  <2>2. CASE pending[request[r].slot] = NoEnvelope /\ Moved(r, "create")
    <3>1. request[r].at = "write" /\ request[r].retried \in BOOLEAN
        BY <1>9, RequestUnderWay DEF CastWrite
    <3>2. ~request[r].retried
        BY <2>2, <3>1
    <3> QED
        BY <1>3, <1>7, <2>2, <3>1, <3>2 DEF Stages
  <2> QED
      BY <1>9, <2>1, <2>2 DEF CastWrite, Record
<1>10. ASSUME NEW r \in Requests, CastCreate(r)
       PROVE  RetryFindsTheRow'
  <2>1. CASE Record(r)
      BY <1>6, <2>1 DEF Record
  <2>2. CASE pending[request[r].slot] # NoEnvelope
    <3>1. /\ request[r].at = "create"
          /\ ~request[r].retried
          /\ request[r] \in [at : Stages \ {"idle"}, slot : Slots,
                             envelope : Envelope, retried : BOOLEAN]
        BY <1>10, RequestUnderWay DEF CastCreate
    <3>2. request' = [request EXCEPT ![r] = [request[r] EXCEPT !.at = "lock", !.retried = TRUE]]
        BY <1>10, <2>2, <3>1 DEF CastCreate
    <3>3. /\ \A q \in Requests \ {r} : request'[q] = request[q]
          /\ request'[r].at = "lock"
          /\ request'[r].slot = request[r].slot
        BY <3>1, <3>2 DEF CastTypeOK
    <3> QED
        BY <1>1, <1>3, <2>2, <3>1, <3>3
  <2> QED
      BY <1>10, <2>1, <2>2 DEF CastCreate
<1> QED
    BY <1>2, <1>4, <1>5, <1>8, <1>9, <1>10 DEF VoterNext, CastStep, VotingEnds

----------------------------------------------------------------------------
LEMMA CastTypeInit == CastInit => CastTypeOK
<1> SUFFICES ASSUME CastInit PROVE CastTypeOK
    OBVIOUS
<1>1. NoRows \in PendingVotes
    BY DEF NoRows, PendingVotes
<1>2. request \in [Requests -> RequestState]
    BY DEF CastInit, RequestState
<1> QED
    BY <1>1, <1>2 DEF CastInit, CastTypeOK, Phases, LinkedPhases

LEMMA CastInvInit == CastInit => CastIInv
<1> SUFFICES ASSUME CastInit PROVE CastIInv
    OBVIOUS
<1>1. CastTypeOK
    BY CastTypeInit
<1>2. RetryFindsTheRow
    BY DEF CastInit, RetryFindsTheRow, Idle
<1> QED
    BY <1>1, <1>2 DEF CastInit, CastIInv, RowIsTheReceipt, NoneCastsAfterTheClose

LEMMA CastInvStep == CastIInv /\ [CastNext]_castVars => CastIInv'
<1> SUFFICES ASSUME CastIInv, [CastNext]_castVars PROVE CastIInv'
    OBVIOUS
<1>1. CASE VoterNext
  <2>1. NoneCastsAfterTheClose'
      BY <1>1, VoterStep DEF CastIInv, NoneCastsAfterTheClose, AcceptsVotesNow
  <2>2. RowIsTheReceipt'
      BY <1>1, VoterStep DEF CastIInv, RowIsTheReceipt
  <2> QED
      BY <1>1, <2>1, <2>2, VoterStep, RetryStep DEF CastIInv
<1>2. CASE EndVoting
    BY <1>2 DEF EndVoting, RowIsFree, CastIInv, CastTypeOK, RowIsTheReceipt, HoldingRow,
        NoneCastsAfterTheClose, RetryFindsTheRow, Phases, LinkedPhases
<1>3. CASE UNCHANGED castVars
    BY <1>3 DEF castVars, CastIInv, CastTypeOK, RowIsTheReceipt, HoldingRow,
        NoneCastsAfterTheClose, RetryFindsTheRow
<1> QED
    BY <1>1, <1>2, <1>3 DEF CastNext

THEOREM CastInvariant == CastSpec => []CastIInv
    BY CastInvInit, CastInvStep, PTL DEF CastSpec

\* castEncryptedBallot keeps its types, for any number of calls and slots.
THEOREM CastTypeCorrect == CastSpec => []CastTypeOK
    BY CastInvariant, PTL DEF CastIInv

\* The row that lies in a slot is the newest one its voter was told of: the
\* UPDATE with cast_sequence < signed and the unique index are enough.
THEOREM RowIsAlwaysTheReceipt == CastSpec => []RowIsTheReceipt
    BY CastInvariant, PTL DEF CastIInv

\* The P2002 branch repeats the transaction once, and never needs it again.
THEOREM OneRetrySuffices == CastSpec => []OneRetryIsEnough
<1>1. CastIInv => OneRetryIsEnough
    BY DEF CastIInv, RetryFindsTheRow, OneRetryIsEnough
<1> QED
    BY <1>1, CastInvariant, PTL

\* FOR SHARE against the UPDATE that ends the voting: no call writes an envelope
\* once the phase has left OPEN, whatever it checked before.
THEOREM CloseStopsCasting == CastSpec => NothingCastAfterTheClose
<1>1. CastIInv /\ [CastNext]_castVars => [phase # "OPEN" => UNCHANGED pending]_castVars
  <2> SUFFICES ASSUME CastIInv, CastNext, phase # "OPEN" PROVE UNCHANGED pending
      BY DEF castVars
  <2>1. CASE VoterNext
      BY <2>1, VoterStep DEF CastIInv, NoneCastsAfterTheClose
  <2>2. CASE EndVoting
      BY <2>2 DEF EndVoting
  <2> QED
      BY <2>1, <2>2 DEF CastNext
<1> QED
    BY <1>1, CastInvariant, PTL DEF CastSpec, NothingCastAfterTheClose

\* A row is replaced only by one with a higher signed number.
THEOREM SequenceOnlyRises == CastSpec => SequenceRises
<1> DEFINE Rises == \A s \in Slots : pending'[s] # pending[s]
                      => SequenceAt(pending', s) > SequenceAt(pending, s)
<1>1. CastIInv /\ [CastNext]_castVars => [Rises]_castVars
  <2> SUFFICES ASSUME CastIInv, CastNext PROVE Rises
      BY DEF castVars
  <2>1. CASE VoterNext
    <3>1. CASE UNCHANGED pending
        BY <3>1
    <3>2. ASSUME NEW s \in Slots, NEW e \in Envelope,
                 e.seq > SequenceAt(pending, s), pending' = [pending EXCEPT ![s] = e]
          PROVE  Rises
      <4>1. SequenceAt(pending', s) = e.seq
          BY <3>2, NoEnvelopeAssumption DEF SequenceAt, CastIInv, CastTypeOK, PendingVotes
      <4>2. \A q \in Slots \ {s} : pending'[q] = pending[q]
          BY <3>2 DEF CastIInv, CastTypeOK, PendingVotes
      <4> QED
          BY <3>2, <4>1, <4>2
    <3> QED
        BY <2>1, <3>1, <3>2, VoterStep DEF CastIInv
  <2>2. CASE EndVoting
      BY <2>2 DEF EndVoting
  <2> QED
      BY <2>1, <2>2 DEF CastNext
<1> QED
    BY <1>1, CastInvariant, PTL DEF CastSpec, SequenceRises

(***************************************************************************)
(* The urn's places.                                                       *)
(***************************************************************************)
LEMMA CarryingIsFinite ==
    ASSUME NEW rows, NEW b, NEW x
    PROVE  /\ IsFiniteSet(SlotsCarrying(rows, b, x))
           /\ Cardinality(SlotsCarrying(rows, b, x)) \in Nat
           /\ Cardinality(SlotsCarrying(rows, b, x)) <= Cardinality(Slots)
           /\ Cardinality(Slots) \in Nat
    BY SlotsAssumption, FS_Subset, FS_CardinalityType DEF SlotsCarrying, Lying

LEMMA WithUrnIdsType ==
    ASSUME NEW rows
    PROVE  WithUrnIds(rows) \in SUBSET Places
<1> SUFFICES ASSUME NEW b \in Ballots, NEW x \in Ciphers,
                    NEW copy \in 0 .. Cardinality(SlotsCarrying(rows, b, x)) - 1
             PROVE  <<b, x, copy>> \in Places
    BY DEF WithUrnIds
<1>1. copy \in Copies
    BY CarryingIsFinite DEF Copies
<1> QED
    BY <1>1 DEF Places

----------------------------------------------------------------------------
(***************************************************************************)
(* Types.                                                                  *)
(***************************************************************************)
LEMMA TypeInit == Init => TypeOK
<1> SUFFICES ASSUME Init PROVE TypeOK
    OBVIOUS
<1>1. NoRows \in PendingVotes
    BY DEF NoRows, PendingVotes
<1>2. CastTypeOK
    BY CastTypeInit DEF Init
<1>3. /\ at \in [Closers -> Steps]
      /\ snapshot \in [Closers -> PendingVotes]
      /\ deviations \in [Closers -> SUBSET Places]
      /\ view \in [Closers -> Views]
      /\ answer \in [Closers -> Answers]
    BY <1>1 DEF Init, Steps, Views, Answers
<1> QED
    BY <1>1, <1>2, <1>3, ClosersAssumption DEF Init, TypeOK

\* Each step of a closing that only moves on, or answers.
LEMMA GotoType ==
    ASSUME TypeOK, NEW c \in Closers
    PROVE  /\ \A step \in Steps : Goto(c, step) => at' \in [Closers -> Steps]
           /\ \A step \in Steps : Proceed(c, step) =>
                 /\ at' \in [Closers -> Steps]
                 /\ lock' \in Closers \cup {NoCloser}
                 /\ answer' \in [Closers -> Answers]
           /\ \A said \in Answers : Reply(c, said) =>
                 /\ at' \in [Closers -> Steps]
                 /\ lock' \in Closers \cup {NoCloser}
                 /\ answer' \in [Closers -> Answers]
    BY DEF TypeOK, Goto, Proceed, Reply, Release, Steps

LEMMA CastTypeUnchanged ==
    ASSUME CastTypeOK, UNCHANGED castVars
    PROVE  CastTypeOK'
    BY DEF CastTypeOK, castVars

LEMMA TypeStep == TypeOK /\ [Next]_vars => TypeOK'
<1> SUFFICES ASSUME TypeOK, [Next]_vars PROVE TypeOK'
    OBVIOUS
<1> USE DEF TypeOK
<1>. DEFINE Answered == /\ at' \in [Closers -> Steps]
                        /\ lock' \in Closers \cup {NoCloser}
                        /\ answer' \in [Closers -> Answers]
<1>1. CASE Voters
    BY <1>1, VoterStep DEF Voters, votersDb, urnVars, closingVars
<1>2. CASE PhaseMovesOn
    BY <1>2 DEF PhaseMovesOn, votersDb, urnVars, closingVars, KeepBounds,
        CastTypeOK, Phases, ClearedPhases
<1>3. CASE Outside
  <2>1. ASSUME NEW s \in Slots, NEW row \in Envelope \cup {NoEnvelope}, OutsideEnvelope(s, row)
        PROVE  TypeOK'
      BY <2>1, ClosersAssumption DEF OutsideEnvelope, WrittenOutside, votersDb, urnVars, closingVars,
          CastTypeOK, PendingVotes
  <2>2. ASSUME NEW place \in Places, OutsideUrn(place)
        PROVE  TypeOK'
    <3>1. urn' \in SUBSET Places /\ forged' \in SUBSET Places
        BY <2>2 DEF OutsideUrn
    <3> QED
        BY <2>2, <3>1, CastTypeUnchanged, ClosersAssumption DEF OutsideUrn, WrittenOutside, votersDb, closingVars
  <2>3. ASSUME NEW p \in Phases, OutsidePhase(p)
        PROVE  TypeOK'
      BY <2>3, ClosersAssumption DEF OutsidePhase, WrittenOutside, votersDb, urnVars, closingVars, CastTypeOK
  <2> QED
      BY <1>3, <2>1, <2>2, <2>3 DEF Outside, Places
<1>4. ASSUME NEW c \in Closers, Closing(c)
      PROVE  TypeOK'
  <2>1. CASE Open(c)
    <3>1. Answered
        BY <2>1, GotoType DEF Open, Steps, Answers
    <3> QED
        BY <2>1, <3>1, CastTypeUnchanged DEF Open, KeepOwn, NoWrite, KeepVoters, urnVars, KeepBounds
  <2>2. CASE CloseVoting(c)
    <3>1. Answered
        BY <2>2, GotoType DEF CloseVoting, Steps
    <3>2. CastTypeOK'
        BY <2>2, CastTypeUnchanged DEF CloseVoting, EndVoting, CastTypeOK, Phases, LinkedPhases
    <3> QED
        BY <2>2, <3>1, <3>2 DEF CloseVoting, KeepOwn, KeepVoters, urnVars, KeepBounds
  <2>3. CASE ReadStart(c)
    <3>1. Answered
        BY <2>3, GotoType DEF ReadStart, Steps, Answers
    <3> QED
        BY <2>3, <3>1, CastTypeUnchanged DEF ReadStart, KeepOwn, NoWrite, KeepVoters, urnVars, KeepBounds
  <2>4. CASE ReadEnvelopes(c)
    <3>1. Answered
        BY <2>4, GotoType DEF ReadEnvelopes, Steps
    <3>2. snapshot' \in [Closers -> PendingVotes]
        BY <2>4 DEF ReadEnvelopes, CastTypeOK
    <3> QED
        BY <2>4, <3>1, <3>2, CastTypeUnchanged DEF ReadEnvelopes, NoWrite, KeepVoters, urnVars, KeepBounds
  <2>5. ASSUME NEW step \in Steps, NEW next \in Steps, AskLock(c, step, next)
        PROVE  TypeOK'
    <3>1. Answered
        BY <2>5, GotoType DEF AskLock, Steps
    <3> QED
        BY <2>5, <3>1, CastTypeUnchanged DEF AskLock, KeepOwn, NoWrite, KeepVoters, urnVars, KeepBounds
  <2>6. CASE CasValidated(c)
    <3>1. Answered
        BY <2>6, GotoType DEF CasValidated, Steps
    <3>2. CastTypeOK'
        BY <2>6 DEF CasValidated, KeepCasts, CastTypeOK, Phases, LinkedPhases
    <3> QED
        BY <2>6, <3>1, <3>2 DEF CasValidated, KeepOwn, KeepVoters, urnVars, KeepBounds
  <2>7. CASE FindDeviations(c)
    <3>1. Answered
        BY <2>7, GotoType DEF FindDeviations, Steps
    <3>2. deviations' \in [Closers -> SUBSET Places]
        BY <2>7 DEF FindDeviations
    <3> QED
        BY <2>7, <3>1, <3>2, CastTypeUnchanged DEF FindDeviations, NoWrite, KeepVoters, urnVars, KeepBounds
  <2>8. CASE RemoveFromUrn(c)
    <3>1. Answered
        BY <2>8, GotoType DEF RemoveFromUrn, Steps
    <3> QED
        BY <2>8, <3>1, CastTypeUnchanged DEF RemoveFromUrn, KeepOwn, KeepVoters, KeepBounds
  <2>9. CASE RecheckLock(c) \/ RecheckPhase(c) \/ CompareUrn(c) \/ CommitFails(c) \/ Confirm(c)
    <3>1. Answered
        BY <2>9, GotoType DEF RecheckLock, RecheckPhase, CompareUrn, CommitFails, Confirm, Steps, Answers
    <3> QED
        BY <2>9, <3>1, CastTypeUnchanged
        DEF RecheckLock, RecheckPhase, CompareUrn, CommitFails, Confirm,
            KeepOwn, NoWrite, KeepVoters, urnVars, KeepBounds
  <2>10. CASE InsertIntoUrn(c)
    <3>1. Answered
        BY <2>10, GotoType DEF InsertIntoUrn, Steps
    <3>2. urn' \in SUBSET Places
        BY <2>10, WithUrnIdsType DEF InsertIntoUrn, Placed
    <3> QED
        BY <2>10, <3>1, <3>2, CastTypeUnchanged DEF InsertIntoUrn, KeepOwn, KeepVoters, KeepBounds
  <2>11. CASE Strip(c)
    <3>1. Answered
        BY <2>11, GotoType DEF Strip, Steps, Answers
    <3>2. CastTypeOK'
        BY <2>11 DEF Strip, KeepCasts, CastTypeOK
    <3> QED
        BY <2>11, <3>1, <3>2 DEF Strip, KeepOwn, KeepVoters, urnVars, KeepBounds
  <2>12. CASE CommitStrip(c)
    <3>1. Stripped(c) /\ UNCHANGED <<ended, request, receipts, outside>>
        BY <2>12 DEF CommitStrip
    <3>2. snapshot[c] \in PendingVotes /\ Lying(snapshot[c]) \subseteq Slots
        BY DEF Lying
    <3>3. pending' \in PendingVotes /\ erased' \in PendingVotes
        BY <3>1 DEF Stripped, PendingVotes, CastTypeOK
    <3>4. CastTypeOK'
        BY <3>1, <3>3 DEF Stripped, CastTypeOK, Phases, ClearedPhases
    <3>5. Placed(c) \in SUBSET Places
        BY WithUrnIdsType DEF Placed
    <3>6. envelopeRoot' \in PendingVotes /\ urnRoot' \in SUBSET Places
             /\ markers' \subseteq Slots /\ linkCleared' \subseteq SUBSET Places
        BY <3>1, <3>2, <3>5 DEF Stripped
    <3>7. at' \in [Closers -> Steps] /\ answer' \in [Closers -> Answers]
             /\ lock' \in Closers \cup {NoCloser} /\ faults' \in 0..MaxFaults
        BY <2>12, ClosersAssumption DEF CommitStrip, Goto, Steps, Answers
    <3> QED
        BY <2>12, <3>1, <3>3, <3>4, <3>6, <3>7 DEF CommitStrip, urnVars, KeepOwn
  <2>13. CASE VerdictRead(c)
    <3>1. Answered
        BY <2>13, GotoType DEF VerdictRead, Steps
    <3>2. view' \in [Closers -> Views]
        BY <2>13 DEF VerdictRead, StateRead, Views
    <3> QED
        BY <2>13, <3>1, <3>2, CastTypeUnchanged DEF VerdictRead, NoWrite, KeepVoters, urnVars, KeepBounds
  <2>14. CASE VerdictAsk(c)
    <3>1. \A intact \in Answers : VerdictFor(c, intact) \in Answers
        BY DEF VerdictFor, Answers
    <3>2. Answered
        BY <2>14, <3>1, GotoType DEF VerdictAsk, Answers
    <3> QED
        BY <2>14, <3>2, CastTypeUnchanged DEF VerdictAsk, KeepOwn, NoWrite, KeepVoters, urnVars, KeepBounds
  <2> QED
      BY <1>4, <2>1, <2>2, <2>3, <2>4, <2>5, <2>6, <2>7, <2>8, <2>9, <2>10, <2>11, <2>12, <2>13, <2>14
      DEF Closing, CloserStep, HeldAfterValidation, HeldBeforeRemoving, HeldBeforeStripping, Steps
<1>5. ASSUME NEW c \in Closers, Faults(c)
      PROVE  TypeOK'
  <2>1. CASE LoseLock(c) \/ Crash(c)
    <3>1. CastTypeOK' /\ lock' \in Closers \cup {NoCloser}
        BY <2>1 DEF LoseLock, Crash, SessionEnds, KeepCasts, CastTypeOK
    <3>2. at' \in [Closers -> Steps] /\ answer' \in [Closers -> Answers] /\ faults' \in 0..MaxFaults
        BY <2>1, ClosersAssumption DEF LoseLock, Crash, Fault, Goto, Steps, Answers
    <3> QED
        BY <2>1, <3>1, <3>2 DEF LoseLock, Crash, SessionEnds, Fault, KeepVoters, urnVars, KeepOwn
  <2>2. CASE StatementFails(c) \/ UrnWriteFails(c)
    <3>1. Answered /\ faults' \in 0..MaxFaults
        BY <2>2, GotoType, ClosersAssumption DEF StatementFails, UrnWriteFails, Fault, Steps, Answers
    <3>2. urn' \in SUBSET Places /\ forged' \in SUBSET Places
        BY <2>2, WithUrnIdsType DEF StatementFails, UrnWriteFails, urnVars, Placed
    <3> QED
        BY <2>2, <3>1, <3>2, CastTypeUnchanged
        DEF StatementFails, UrnWriteFails, Fault, KeepOwn, KeepVoters, urnVars
  <2> QED
      BY <1>5, <2>1, <2>2 DEF Faults
<1>6. CASE UNCHANGED vars
    BY <1>6, CastTypeUnchanged DEF vars, votersDb, urnVars, closingVars
<1> QED
    BY <1>1, <1>2, <1>3, <1>4, <1>5, <1>6 DEF Next

\* The closing keeps its types, whatever fails and whoever writes past it.
THEOREM TypeCorrect == Spec => []TypeOK
    BY TypeInit, TypeStep, PTL DEF Spec

----------------------------------------------------------------------------
(***************************************************************************)
(* Safety, where nobody writes past the application.                       *)
(***************************************************************************)
Safe ==
    /\ PhaseTellsTheRoot
    /\ LinkOrUrn
    /\ \A c \in Closers : WhatACloserKnows(c)

\* A step of c leaves every other closing where it is, with or without the lock.
OnlyOf(c) ==
    \A d \in Closers \ {c} :
        /\ at'[d] = at[d] /\ view'[d] = view[d] /\ snapshot'[d] = snapshot[d]
        /\ answer'[d] = answer[d]
        /\ lock' = d <=> lock = d

\* What the databases hold is left alone.
Quiet == UNCHANGED <<phase, pending, receipts, request, rowLocked, urn, forged, envelopeRoot, markers>>

LEMMA Moves ==
    ASSUME TypeOK, NEW c \in Closers
    PROVE  /\ \A step : Goto(c, step) =>
                 at'[c] = step /\ \A d \in Closers \ {c} : at'[d] = at[d]
           /\ \A step : Proceed(c, step) =>
                 /\ at'[c] = step /\ answer' = answer /\ lock' = lock
                 /\ \A d \in Closers \ {c} : at'[d] = at[d]
           /\ \A said : Reply(c, said) =>
                 /\ at'[c] = "over" /\ answer'[c] = said
                 /\ \A d \in Closers \ {c} :
                       at'[d] = at[d] /\ answer'[d] = answer[d] /\ (lock' = d <=> lock = d)
                 /\ lock' # c
    BY ClosersAssumption DEF TypeOK, Goto, Proceed, Reply, Release

\* A closing that is over has answered, and knows nothing that can go stale.
LEMMA KnowsOver ==
    ASSUME NEW c \in Closers, at'[c] = "over", answer'[c] # "none"
    PROVE  WhatACloserKnows(c)'
    BY DEF WhatACloserKnows, Underway, Certain

\* Nor does one that has read nothing, or is about to read again.
LEMMA KnowsNothing ==
    ASSUME NEW c \in Closers, answer'[c] = "none",
           at'[c] \in {"idle", "opened", "early", "started", "confirm", "abort", "finding"}
    PROVE  WhatACloserKnows(c)'
    BY DEF WhatACloserKnows, Underway, Certain

\* A closing whose own state stands still keeps what it knows: nobody without
\* the lock strips, and nobody votes after the close.
LEMMA StillKnows ==
    ASSUME NEW d \in Closers, WhatACloserKnows(d),
           at'[d] = at[d], view'[d] = view[d], snapshot'[d] = snapshot[d],
           answer'[d] = answer[d],
           lock' = d => lock = d,
           phase # "OPEN" => /\ phase' # "OPEN" /\ receipts' = receipts
                             /\ urn = WithUrnIds(receipts) => urn' = urn,
           lock = d /\ phase \in LinkedPhases => phase' \in LinkedPhases,
           lock = d /\ at[d] = "commit" => phase' = phase
    PROVE  WhatACloserKnows(d)'
<1>1. at[d] \in Certain \cup {"validated", "mayStrip", "strip"} => at[d] \in Underway
    BY DEF Certain, Underway
<1>2. at[d] \in {"mayStrip", "strip", "commit"} => at[d] \in Underway
    BY DEF Underway
<1> QED
    BY <1>1, <1>2 DEF WhatACloserKnows

\* A step that writes nothing is safe if its own closing knows what it should.
LEMMA QuietStep ==
    ASSUME TypeOK, Safe, NEW c \in Closers, Quiet, OnlyOf(c),
           at[c] # "commit" \/ lock # c, at'[c] # "commit" \/ lock' # c,
           WhatACloserKnows(c)'
    PROVE  Safe'
<1>1. \A d \in Closers \ {c} : WhatACloserKnows(d)'
    BY StillKnows DEF Safe, OnlyOf, Quiet
<1>2. HoldingRow' = HoldingRow
    BY DEF HoldingRow, Quiet
<1>3. PhaseTellsTheRoot'
    BY <1>2 DEF Safe, PhaseTellsTheRoot, OnlyOf, Quiet
<1>4. LinkOrUrn'
    BY DEF Safe, LinkOrUrn, Quiet
<1> QED
    BY <1>1, <1>3, <1>4 DEF Safe

\* The steps of a closing that read, ask and answer.
LEMMA ReadingStep ==
    ASSUME TypeOK, Safe, NEW c \in Closers,
           \/ Open(c) \/ ReadStart(c) \/ ReadEnvelopes(c) \/ FindDeviations(c)
           \/ RecheckLock(c) \/ RecheckPhase(c) \/ CompareUrn(c) \/ CommitFails(c)
           \/ Confirm(c) \/ VerdictRead(c) \/ VerdictAsk(c)
           \/ \E step, next : <<step, next>> \in {<<"validated", "cas">>, <<"mayRemove", "remove">>,
                                                <<"mayStrip", "strip">>} /\ AskLock(c, step, next)
    PROVE  Safe'
<1> USE DEF NoWrite, castVars, KeepVoters, urnVars
<1> DEFINE Is == WhatACloserKnows(c)
<1>0. WhatACloserKnows(c) /\ PhaseTellsTheRoot /\ LinkOrUrn
    BY DEF Safe
<1>1. CASE Open(c)
  <2>1. Quiet /\ OnlyOf(c) /\ at[c] = "idle" /\ at'[c] \in {"opened", "over"}
      BY <1>1, Moves, ClosersAssumption DEF Open, KeepOwn, Quiet, OnlyOf
  <2>2. \/ at'[c] = "opened" /\ answer'[c] = "none"
        \/ at'[c] = "over" /\ answer'[c] # "none"
      BY <1>0, <1>1, Moves DEF Open, WhatACloserKnows
  <2>3. WhatACloserKnows(c)'
      BY <2>2, KnowsOver, KnowsNothing
  <2> QED
      BY <2>1, <2>3, QuietStep
<1>2. CASE ReadStart(c)
  <2>1. Quiet /\ OnlyOf(c) /\ at[c] \in {"started", "early"} /\ at'[c] \in {"abort", "read", "over"}
      BY <1>2, Moves DEF ReadStart, KeepOwn, Quiet, OnlyOf
  <2>2. \/ at'[c] = "abort" /\ answer'[c] = "none"
        \/ at'[c] = "over" /\ answer'[c] # "none"
        \/ /\ at'[c] = "read" /\ answer'[c] = "none"
           /\ phase' # "OPEN" /\ phase' \in LinkedPhases
      BY <1>0, <1>2, Moves DEF ReadStart, WhatACloserKnows, StateRead, LinkStillExists
  <2>3. WhatACloserKnows(c)'
      BY <2>2, KnowsOver, KnowsNothing DEF WhatACloserKnows, Underway, Certain
  <2> QED
      BY <2>1, <2>3, QuietStep
<1>3. CASE ReadEnvelopes(c)
  <2>1. Quiet /\ OnlyOf(c) /\ at[c] = "read" /\ at'[c] \in {"validated", "finding"}
      BY <1>3, Moves DEF ReadEnvelopes, Quiet, OnlyOf, TypeOK
  <2>2. answer' = answer /\ lock' = lock /\ snapshot'[c] = pending
      BY <1>3, Moves DEF ReadEnvelopes, TypeOK
  <2>3. WhatACloserKnows(c)'
      BY <1>0, <2>1, <2>2 DEF WhatACloserKnows, LinkOrUrn, Quiet, Underway, Certain
  <2> QED
      BY <2>1, <2>3, QuietStep
<1>4. CASE FindDeviations(c)
  <2>1. at[c] = "find" /\ Placed(c) = WithUrnIds(receipts)
      BY <1>0, <1>4 DEF FindDeviations, WhatACloserKnows, Certain, Placed
  <2>2. (urn \ Placed(c)) \cup forged = {}
      BY <1>0, <2>1 DEF LinkOrUrn
  <2>3. Quiet /\ OnlyOf(c) /\ at'[c] = "insert" /\ answer' = answer /\ lock' = lock /\ snapshot' = snapshot
      BY <1>4, <2>2, Moves DEF FindDeviations, Quiet, OnlyOf
  <2>4. WhatACloserKnows(c)'
      BY <1>0, <2>1, <2>3 DEF WhatACloserKnows, Quiet, Underway, Certain
  <2> QED
      BY <2>1, <2>3, <2>4, QuietStep
<1>5. CASE CompareUrn(c)
  <2>1. at[c] = "compare" /\ Placed(c) = WithUrnIds(receipts)
      BY <1>0, <1>5 DEF CompareUrn, WhatACloserKnows, Certain, Placed
  <2>2. /\ Quiet /\ OnlyOf(c) /\ at'[c] \in {"mayStrip", "abort"}
        /\ answer' = answer /\ lock' = lock /\ snapshot' = snapshot
        /\ at'[c] = "mayStrip" => urn = WithUrnIds(receipts)
      BY <1>5, <2>1, Moves DEF CompareUrn, Quiet, OnlyOf, KeepOwn
  <2>3. WhatACloserKnows(c)'
      BY <1>0, <2>1, <2>2 DEF WhatACloserKnows, Quiet, Underway, Certain
  <2> QED
      BY <2>1, <2>2, <2>3, QuietStep
<1>6. CASE RecheckLock(c) \/ RecheckPhase(c)
    BY <1>0, <1>6 DEF WhatACloserKnows, RecheckLock, RecheckPhase
<1>7. CASE CommitFails(c)
  <2>1. Quiet /\ OnlyOf(c) /\ lock # c /\ at'[c] = "over" /\ answer'[c] # "none" /\ lock' # c
      BY <1>7, Moves DEF CommitFails, StillHeld, Quiet, OnlyOf, KeepOwn
  <2> QED
      BY <2>1, KnowsOver, QuietStep
<1>8. CASE Confirm(c)
  <2>1. Quiet /\ OnlyOf(c) /\ at[c] = "confirm" /\ at'[c] = "over" /\ answer'[c] # "none"
      BY <1>8, Moves DEF Confirm, Quiet, OnlyOf, KeepOwn
  <2> QED
      BY <2>1, KnowsOver, QuietStep
<1>9. CASE VerdictRead(c)
  <2>1. /\ Quiet /\ OnlyOf(c) /\ at[c] \in {"abort", "finding"}
        /\ at'[c] \in {"abortAsk", "findingAsk"}
        /\ answer' = answer /\ lock' = lock /\ view'[c] = StateRead
      BY <1>9, Moves DEF VerdictRead, Quiet, OnlyOf, TypeOK
  <2>2. StateRead = "linked" => phase \in LinkedPhases
      BY DEF StateRead, LinkStillExists
  <2>3. WhatACloserKnows(c)'
      BY <1>0, <2>1, <2>2 DEF WhatACloserKnows, Quiet, Underway, Certain
  <2> QED
      BY <2>1, <2>3, QuietStep
<1>10. CASE VerdictAsk(c)
  <2>1. \A intact \in {"untouched", "finding"} : VerdictFor(c, intact) # "none"
      BY DEF VerdictFor
  <2>2. Quiet /\ OnlyOf(c) /\ at[c] # "commit" /\ at'[c] = "over" /\ answer'[c] # "none"
      BY <1>10, <2>1, Moves DEF VerdictAsk, Quiet, OnlyOf, KeepOwn
  <2> QED
      BY <2>2, KnowsOver, QuietStep
<1>11. ASSUME NEW step, NEW next, AskLock(c, step, next),
              <<step, next>> \in {<<"validated", "cas">>, <<"mayRemove", "remove">>,
                                 <<"mayStrip", "strip">>}
       PROVE  Safe'
  <2>1. /\ step \in {"validated", "mayStrip"} /\ at[c] = step
        /\ \/ step = "validated" /\ next = "cas"
           \/ step = "mayStrip" /\ next = "strip"
      BY <1>0, <1>11 DEF AskLock, WhatACloserKnows
  <2>2. /\ Quiet /\ OnlyOf(c) /\ at'[c] \in {next, "abort"}
        /\ at'[c] = next => lock = c
        /\ answer' = answer /\ lock' = lock /\ snapshot' = snapshot
      BY <1>11, <2>1, Moves DEF AskLock, StillHeld, Quiet, OnlyOf, KeepOwn
  <2>3. WhatACloserKnows(c)'
      BY <1>0, <2>1, <2>2 DEF WhatACloserKnows, Quiet, Underway, Certain
  <2> QED
      BY <2>1, <2>2, <2>3, QuietStep
<1> QED
    BY <1>1, <1>2, <1>3, <1>4, <1>5, <1>6, <1>7, <1>8, <1>9, <1>10, <1>11

\* The steps of a closing that write.
LEMMA WritingStep ==
    ASSUME TypeOK, Safe, NEW c \in Closers,
           \/ CloseVoting(c) \/ CasValidated(c) \/ RemoveFromUrn(c) \/ InsertIntoUrn(c)
           \/ Strip(c) \/ CommitStrip(c)
    PROVE  Safe'
<1> USE DEF KeepVoters
<1>0. WhatACloserKnows(c) /\ PhaseTellsTheRoot /\ LinkOrUrn
    BY DEF Safe
<1>1. CASE CloseVoting(c)
  <2>1. /\ OnlyOf(c) /\ at[c] = "opened" /\ at'[c] \in {"started", "early"}
        /\ answer' = answer /\ lock' = lock
      BY <1>1, Moves DEF CloseVoting, OnlyOf, KeepOwn
  <2>2. WhatACloserKnows(c)'
      BY <1>0, <2>1, KnowsNothing DEF WhatACloserKnows
  <2>3. CASE UNCHANGED castVars
    <3>1. Quiet
        BY <1>1, <2>3 DEF CloseVoting, castVars, urnVars, Quiet
    <3> QED
        BY <2>1, <2>2, <3>1, QuietStep
  <2>4. CASE EndVoting
    <3>1. /\ phase = "OPEN" /\ phase' = "CLOSED" /\ RowIsFree
          /\ UNCHANGED <<pending, rowLocked, request, receipts, urn, forged, envelopeRoot, markers>>
        BY <1>1, <2>4 DEF CloseVoting, EndVoting, urnVars
    <3>2. PhaseTellsTheRoot'
        BY <1>0, <2>1, <3>1
        DEF PhaseTellsTheRoot, RowIsFree, HoldingRow, OnlyOf, LinkedPhases
    <3>3. LinkOrUrn'
        BY <1>0, <3>1 DEF LinkOrUrn, LinkedPhases, ClearedPhases
    <3>4. \A d \in Closers \ {c} : WhatACloserKnows(d)'
      <4> SUFFICES ASSUME NEW d \in Closers \ {c} PROVE WhatACloserKnows(d)'
          OBVIOUS
      <4>1. WhatACloserKnows(d) /\ at[d] # "commit"
          BY <3>1 DEF Safe, WhatACloserKnows, Underway
      <4> QED
          BY <2>1, <3>1, <4>1, StillKnows DEF OnlyOf, LinkedPhases
    <3> QED
        BY <2>2, <3>2, <3>3, <3>4 DEF Safe
  <2> QED
      BY <1>1, <2>3, <2>4 DEF CloseVoting
<1>2. CASE CasValidated(c)
  <2>1. /\ OnlyOf(c) /\ at[c] = "cas" /\ at'[c] \in {"find", "abort"}
        /\ answer' = answer /\ lock' = lock /\ snapshot' = snapshot
      BY <1>2, Moves DEF CasValidated, OnlyOf, KeepOwn
  <2>2. /\ RowIsFree
        /\ UNCHANGED <<pending, rowLocked, request, receipts, urn, forged, envelopeRoot, markers>>
        /\ \/ phase' = phase
           \/ phase \in {"CLOSED", "VALIDATED"} /\ phase' = "VALIDATED"
    <3>1. UNCHANGED <<pending, rowLocked, request, receipts, urn, forged, envelopeRoot, markers>>
        BY <1>2 DEF CasValidated, KeepCasts, urnVars
    <3> QED
        BY <1>2, <3>1 DEF CasValidated
  <2>3. PhaseTellsTheRoot'
      BY <1>0, <2>1, <2>2 DEF PhaseTellsTheRoot, HoldingRow, OnlyOf, LinkedPhases
  <2>4. LinkOrUrn'
      BY <1>0, <2>2 DEF LinkOrUrn, LinkedPhases, ClearedPhases
  <2>5. \A d \in Closers \ {c} : WhatACloserKnows(d)'
    <3> SUFFICES ASSUME NEW d \in Closers \ {c} PROVE WhatACloserKnows(d)'
        OBVIOUS
    <3>1. WhatACloserKnows(d) /\ ~(lock = d /\ at[d] = "commit")
        BY <1>0, <2>2 DEF Safe, PhaseTellsTheRoot, RowIsFree
    <3> QED
        BY <2>1, <2>2, <3>1, StillKnows DEF OnlyOf, LinkedPhases
  <2>6. WhatACloserKnows(c)'
      BY <1>0, <2>1, <2>2 DEF WhatACloserKnows, Underway, Certain, LinkedPhases
  <2> QED
      BY <2>3, <2>4, <2>5, <2>6 DEF Safe
<1>3. CASE RemoveFromUrn(c)
    BY <1>0, <1>3 DEF WhatACloserKnows, RemoveFromUrn
<1>4. CASE InsertIntoUrn(c)
  <2>1. at[c] = "insert" /\ Placed(c) = WithUrnIds(receipts) /\ phase # "OPEN"
      BY <1>0, <1>4 DEF InsertIntoUrn, WhatACloserKnows, Certain, Underway, Placed
  <2>2. /\ OnlyOf(c) /\ at'[c] = "compare"
        /\ answer' = answer /\ lock' = lock /\ snapshot' = snapshot
      BY <1>4, Moves DEF InsertIntoUrn, OnlyOf, KeepOwn
  <2>3. /\ UNCHANGED <<phase, pending, rowLocked, request, receipts, envelopeRoot, markers>>
        /\ forged' = {} /\ urn' = WithUrnIds(receipts)
      BY <1>0, <1>4, <2>1 DEF InsertIntoUrn, castVars, LinkOrUrn
  <2>4. PhaseTellsTheRoot'
      BY <1>0, <2>1, <2>2, <2>3 DEF PhaseTellsTheRoot, HoldingRow, OnlyOf
  <2>5. LinkOrUrn'
      BY <1>0, <2>1, <2>3 DEF LinkOrUrn
  <2>6. \A d \in Closers \ {c} : WhatACloserKnows(d)'
      BY <2>2, <2>3, StillKnows DEF Safe, OnlyOf
  <2>7. WhatACloserKnows(c)'
      BY <1>0, <2>1, <2>2, <2>3 DEF WhatACloserKnows, Underway, Certain
  <2> QED
      BY <2>4, <2>5, <2>6, <2>7 DEF Safe
<1>5. CASE Strip(c)
  <2>1. /\ at[c] = "strip"
        /\ UNCHANGED <<phase, pending, request, receipts, urn, forged, envelopeRoot, markers>>
      BY <1>5 DEF Strip, KeepCasts, urnVars
  <2>2. CASE UNCHANGED rowLocked
    <3>1. /\ OnlyOf(c) /\ at'[c] \in {"over", "abort"}
          /\ at'[c] = "over" => answer'[c] # "none"
          /\ at'[c] = "abort" => answer' = answer
        BY <1>5, <2>2, Moves DEF Strip, OnlyOf, KeepOwn, TypeOK, CastTypeOK, RowIsFree
    <3>2. WhatACloserKnows(c)'
        BY <1>0, <2>1, <3>1, KnowsOver, KnowsNothing DEF WhatACloserKnows
    <3> QED
        BY <2>1, <2>2, <3>1, <3>2, QuietStep DEF Quiet
  <2>3. CASE ~rowLocked /\ rowLocked'
    <3>1. /\ OnlyOf(c) /\ at'[c] = "commit" /\ lock = c /\ phase = "VALIDATED"
          /\ answer' = answer /\ lock' = lock /\ snapshot' = snapshot
        BY <1>5, <2>3, Moves DEF Strip, OnlyOf, KeepOwn, StillHeld
    <3>2. PhaseTellsTheRoot'
        BY <1>0, <2>1, <2>3, <3>1 DEF PhaseTellsTheRoot, HoldingRow, OnlyOf
    <3>3. LinkOrUrn'
        BY <1>0, <2>1 DEF LinkOrUrn
    <3>4. \A d \in Closers \ {c} : WhatACloserKnows(d)'
        BY <2>1, <3>1, StillKnows DEF Safe, OnlyOf
    <3>5. WhatACloserKnows(c)'
        BY <1>0, <2>1, <3>1 DEF WhatACloserKnows, Underway, Certain, LinkedPhases
    <3> QED
        BY <3>2, <3>3, <3>4, <3>5 DEF Safe
  <2> QED
      BY <1>5, <2>2, <2>3 DEF Strip, RowIsFree
<1>6. CASE CommitStrip(c)
  <2>1. /\ at[c] = "commit" /\ lock = c /\ phase = "VALIDATED" /\ Stripped(c)
        /\ lock' = NoCloser
        /\ UNCHANGED <<request, receipts, urn, forged>>
        /\ snapshot[c] = receipts /\ urn = WithUrnIds(receipts) /\ pending = receipts
      BY <1>0, <1>6
      DEF CommitStrip, StillHeld, urnVars, WhatACloserKnows, Certain, LinkOrUrn, LinkedPhases
  <2>2. /\ OnlyOf(c)
        /\ \/ at'[c] = "confirm" /\ answer'[c] = "none"
           \/ at'[c] = "over" /\ answer'[c] # "none"
      BY <1>0, <1>6, <2>1, Moves, ClosersAssumption
      DEF CommitStrip, OnlyOf, KeepOwn, TypeOK, WhatACloserKnows
  <2>3. phase' = "STRIPPED" /\ ~rowLocked' /\ envelopeRoot' = receipts /\ envelopeRoot' # NoRoot
      BY <2>1, ClosersAssumption DEF Stripped, TypeOK, CastTypeOK
  <2>4. pending' = NoRows
    <3>1. pending' = [s \in Slots |-> IF s \in Lying(receipts) THEN NoEnvelope ELSE receipts[s]]
        BY <2>1 DEF Stripped
    <3> QED
        BY <3>1 DEF NoRows, Lying
  <2>5. PhaseTellsTheRoot'
      BY <1>0, <2>1, <2>2, <2>3, ClosersAssumption
      DEF PhaseTellsTheRoot, HoldingRow, LinkedPhases
  <2>6. LinkOrUrn'
      BY <1>0, <2>1, <2>3, <2>4 DEF LinkOrUrn, LinkedPhases
  <2>7. \A d \in Closers \ {c} : WhatACloserKnows(d)'
      BY <2>1, <2>2, <2>3, StillKnows, ClosersAssumption DEF Safe, OnlyOf
  <2>8. WhatACloserKnows(c)'
      BY <2>2, KnowsOver, KnowsNothing
  <2> QED
      BY <2>5, <2>6, <2>7, <2>8 DEF Safe
<1> QED
    BY <1>1, <1>2, <1>3, <1>4, <1>5, <1>6

\* A lost lock, a crash and a failing statement leave the databases as they are,
\* but for some of the rows the closing was inserting.
LEMMA FaultStep ==
    ASSUME TypeOK, Safe, NEW c \in Closers, Faults(c)
    PROVE  Safe'
<1> USE DEF KeepVoters
<1>0. WhatACloserKnows(c) /\ PhaseTellsTheRoot /\ LinkOrUrn
    BY DEF Safe
<1>1. CASE LoseLock(c) \/ Crash(c)
  <2>1. /\ UNCHANGED <<phase, pending, request, receipts, urn, forged, envelopeRoot, markers>>
        /\ rowLocked' = IF lock = c /\ at[c] = "commit" THEN FALSE ELSE rowLocked
        /\ lock' = IF lock = c THEN NoCloser ELSE lock
        /\ view' = view /\ snapshot' = snapshot
      BY <1>1 DEF LoseLock, Crash, SessionEnds, KeepCasts, urnVars, KeepOwn
  <2>2. /\ \/ at'[c] = at[c] /\ answer'[c] = answer[c]
           \/ at'[c] = "over" /\ answer'[c] # "none"
        /\ \A d \in Closers \ {c} : at'[d] = at[d] /\ answer'[d] = answer[d]
      BY <1>1, Moves DEF LoseLock, Crash, TypeOK
  <2>3. OnlyOf(c) /\ lock' # c
      BY <2>1, <2>2, ClosersAssumption DEF OnlyOf
  <2>4. PhaseTellsTheRoot'
      BY <1>0, <2>1, <2>2, <2>3 DEF PhaseTellsTheRoot, HoldingRow, OnlyOf
  <2>5. LinkOrUrn'
      BY <1>0, <2>1 DEF LinkOrUrn
  <2>6. \A d \in Closers \ {c} : WhatACloserKnows(d)'
      BY <2>1, <2>3, StillKnows DEF Safe, OnlyOf
  <2>7. WhatACloserKnows(c)'
    <3>1. CASE at'[c] = at[c] /\ answer'[c] = answer[c]
        BY <1>0, <2>1, <2>3, <3>1, StillKnows
    <3> QED
        BY <2>2, <3>1, KnowsOver
  <2> QED
      BY <2>4, <2>5, <2>6, <2>7 DEF Safe
<1>2. CASE StatementFails(c)
  <2>1. Quiet /\ OnlyOf(c) /\ at[c] \notin {"commit", "over"}
      BY <1>2, Moves DEF StatementFails, Preparing, castVars, urnVars, KeepOwn, Quiet, OnlyOf
  <2>2. \/ at'[c] = "abort" /\ answer' = answer
        \/ at'[c] = "over" /\ answer'[c] # "none"
      BY <1>2, Moves DEF StatementFails
  <2>3. WhatACloserKnows(c)'
      BY <1>0, <2>1, <2>2, KnowsOver, KnowsNothing DEF WhatACloserKnows
  <2> QED
      BY <2>1, <2>2, <2>3, QuietStep
<1>3. CASE UrnWriteFails(c)
  <2>1. at[c] = "insert" /\ Placed(c) = WithUrnIds(receipts)
      BY <1>0, <1>3 DEF UrnWriteFails, WhatACloserKnows, Certain, Placed
  <2>2. phase # "OPEN" /\ answer[c] = "none"
      BY <1>0, <2>1 DEF WhatACloserKnows, Underway
  <2>3. OnlyOf(c) /\ at'[c] = "abort" /\ answer' = answer /\ lock' = lock
      BY <1>3, Moves DEF UrnWriteFails, KeepOwn, OnlyOf
  <2>4. PICK some \in SUBSET (Placed(c) \ forged) : urn' = urn \cup some /\ forged' = forged
      BY <1>3, <2>1 DEF UrnWriteFails
  <2>5. UNCHANGED <<phase, pending, rowLocked, request, receipts, envelopeRoot, markers>>
      BY <1>3 DEF UrnWriteFails, castVars
  <2>6. PhaseTellsTheRoot'
      BY <1>0, <2>1, <2>3, <2>5 DEF PhaseTellsTheRoot, HoldingRow, OnlyOf
  <2>7. LinkOrUrn'
      BY <1>0, <2>1, <2>2, <2>4, <2>5 DEF LinkOrUrn
  <2>8. urn = WithUrnIds(receipts) => urn' = urn
      BY <2>1, <2>4
  <2>9. \A d \in Closers \ {c} : WhatACloserKnows(d)'
      BY <2>3, <2>5, <2>8, StillKnows DEF Safe, OnlyOf, UrnWriteFails
  <2>10. WhatACloserKnows(c)'
      BY <2>2, <2>3, KnowsNothing
  <2> QED
      BY <2>6, <2>7, <2>9, <2>10 DEF Safe
<1> QED
    BY <1>1, <1>2, <1>3 DEF Faults

\* Votes are recorded while the election is open and the urn is empty, and the
\* phase moves on when the urn is full.
LEMMA VotersAndPhaseStep ==
    ASSUME TypeOK, Safe, Voters \/ PhaseMovesOn
    PROVE  Safe'
<1>0. PhaseTellsTheRoot /\ LinkOrUrn /\ CastTypeOK
    BY DEF Safe, TypeOK
<1>1. CASE Voters
  <2>1. VoterNext /\ UNCHANGED <<lock, envelopeRoot, markers, urn, forged, at, snapshot, view, answer>>
      BY <1>1 DEF Voters, votersDb, urnVars, closingVars
  <2>2. UNCHANGED <<phase, rowLocked>>
      BY <1>0, <2>1, VoterStep
  <2>3. PhaseTellsTheRoot'
      BY <1>0, <2>1, <2>2, VoterStep DEF PhaseTellsTheRoot, AcceptsVotesNow
  <2>4. phase # "OPEN" => UNCHANGED <<pending, receipts>>
      BY <1>0, <2>1, VoterStep DEF PhaseTellsTheRoot
  <2>5. LinkOrUrn'
    <3>1. CASE phase # "OPEN"
        BY <1>0, <2>1, <2>2, <2>4, <3>1 DEF LinkOrUrn
    <3>2. CASE phase = "OPEN"
      <4>1. RowIsTheReceipt /\ RowIsTheReceipt'
          BY <1>0, <2>1, <3>2, VoterStep DEF LinkOrUrn, RowIsTheReceipt, LinkedPhases
      <4> QED
          BY <1>0, <2>1, <2>2, <3>2, <4>1 DEF LinkOrUrn, RowIsTheReceipt, ClearedPhases
    <3> QED
        BY <3>1, <3>2
  <2>6. \A d \in Closers : WhatACloserKnows(d)'
      BY <2>1, <2>2, <2>4, StillKnows DEF Safe
  <2> QED
      BY <2>3, <2>5, <2>6 DEF Safe
<1>2. CASE PhaseMovesOn
  <2>1. /\ RowIsFree
        /\ phase \in {"STRIPPED", "TALLIED"} /\ phase' \in {"TALLIED", "CERTIFIED"}
        /\ UNCHANGED <<pending, rowLocked, request, receipts>>
        /\ UNCHANGED <<lock, envelopeRoot, markers, urn, forged, at, snapshot, view, answer>>
      BY <1>2 DEF PhaseMovesOn, votersDb, urnVars, closingVars
  <2>2. PhaseTellsTheRoot' /\ LinkOrUrn'
      BY <1>0, <2>1 DEF PhaseTellsTheRoot, LinkOrUrn, HoldingRow, LinkedPhases, ClearedPhases
  <2>3. \A d \in Closers : ~(lock = d /\ at[d] = "commit")
      BY <1>0, <2>1 DEF PhaseTellsTheRoot, RowIsFree
  <2>4. \A d \in Closers : WhatACloserKnows(d)'
      BY <2>1, <2>3, StillKnows DEF Safe, LinkedPhases
  <2> QED
      BY <2>2, <2>4 DEF Safe
<1> QED
    BY <1>1, <1>2

LEMMA SafeInit == Init => ClosingIsSafe
<1> SUFFICES ASSUME Init PROVE ClosingIsSafe
    OBVIOUS
<1>1. phase = "OPEN" /\ pending = NoRows /\ receipts = NoRows /\ HoldingRow = {} /\ rowLocked = FALSE
    BY DEF Init, CastInit, HoldingRow, Idle
<1>2. PhaseTellsTheRoot /\ LinkOrUrn
    BY <1>1 DEF Init, PhaseTellsTheRoot, LinkOrUrn, LinkedPhases, ClearedPhases
<1>3. \A c \in Closers : WhatACloserKnows(c)
    BY DEF Init, WhatACloserKnows, Underway, Certain
<1> QED
    BY <1>2, <1>3 DEF ClosingIsSafe

LEMMA SafeNext == TypeOK /\ ClosingIsSafe /\ [Next]_vars => ClosingIsSafe'
<1> SUFFICES ASSUME TypeOK, ClosingIsSafe, [Next]_vars, outside' = 0
             PROVE  Safe'
    BY DEF ClosingIsSafe, Safe
<1>1. outside = 0 /\ ~Outside
  <2>1. Outside => outside' = outside + 1
      BY DEF Outside, OutsideEnvelope, OutsideUrn, OutsidePhase, WrittenOutside
  <2>2. Outside \/ outside' = outside
      BY DEF Next, vars, Voters, PhaseMovesOn, Closing, CloserStep, Faults,
          Open, CloseVoting, ReadStart, ReadEnvelopes, HeldAfterValidation, HeldBeforeRemoving,
          HeldBeforeStripping, AskLock, CasValidated, FindDeviations, RemoveFromUrn, RecheckLock,
          RecheckPhase, InsertIntoUrn, CompareUrn, Strip, CommitStrip, CommitFails, Confirm,
          VerdictRead, VerdictAsk, LoseLock, Crash, StatementFails, UrnWriteFails, Fault,
          KeepBounds, NoWrite
  <2> QED
      BY <2>1, <2>2, ClosersAssumption DEF TypeOK
<1>2. Safe
    BY <1>1 DEF ClosingIsSafe, Safe
<1>3. ASSUME NEW c \in Closers, Closing(c)
      PROVE  Safe'
    BY <1>2, <1>3, ReadingStep, WritingStep
    DEF Closing, CloserStep, HeldAfterValidation, HeldBeforeRemoving, HeldBeforeStripping
<1>4. CASE UNCHANGED vars
    BY <1>2, <1>4
    DEF vars, castVars, votersDb, urnVars, closingVars, Safe, PhaseTellsTheRoot, LinkOrUrn,
        WhatACloserKnows, HoldingRow
<1> QED
    BY <1>1, <1>2, <1>3, <1>4, FaultStep, VotersAndPhaseStep DEF Next

\* The invariant holds for any number of voters, votes, closings and faults.
THEOREM ClosingAlwaysSafe == Spec => []ClosingIsSafe
    BY TypeCorrect, SafeInit, SafeNext, PTL DEF Spec

----------------------------------------------------------------------------
\* There are as many places for a ciphertext as slots that carry it.
LEMMA AsManyAsCarried ==
    ASSUME NEW rows, NEW b \in Ballots, NEW x \in Ciphers
    PROVE  Cardinality({p \in WithUrnIds(rows) : p[1] = b /\ p[2] = x})
             = Cardinality(SlotsCarrying(rows, b, x))
<1> DEFINE n    == Cardinality(SlotsCarrying(rows, b, x))
           mine == {p \in WithUrnIds(rows) : p[1] = b /\ p[2] = x}
           f    == [copy \in 0..(n - 1) |-> <<b, x, copy>>]
<1>1. n \in Nat
    BY CarryingIsFinite
<1>2. \A copy \in 0..(n - 1) : <<b, x, copy>> \in mine
  <2> DEFINE those(c, y) == {<<c, y, copy>> : copy \in 0 .. Cardinality(SlotsCarrying(rows, c, y)) - 1}
  <2>1. WithUrnIds(rows) = UNION {those(c, y) : c \in Ballots, y \in Ciphers}
      BY DEF WithUrnIds
  <2>2. \A copy \in 0..(n - 1) : <<b, x, copy>> \in those(b, x)
      OBVIOUS
  <2> HIDE DEF those, n
  <2>3. \A copy \in 0..(n - 1) : <<b, x, copy>> \in WithUrnIds(rows)
      BY <2>1, <2>2
  <2> QED
      BY <2>3 DEF mine
<1>3. \A p \in mine : \E copy \in 0..(n - 1) : p = <<b, x, copy>>
  <2> SUFFICES ASSUME NEW p \in mine PROVE \E copy \in 0..(n - 1) : p = <<b, x, copy>>
      OBVIOUS
  <2>1. PICK c \in Ballots, y \in Ciphers :
           \E copy \in 0 .. Cardinality(SlotsCarrying(rows, c, y)) - 1 : p = <<c, y, copy>>
      BY DEF WithUrnIds
  <2>2. c = b /\ y = x
      BY <2>1
  <2> QED
      BY <2>1, <2>2
<1>4. ExistsBijection(0..(n - 1), mine)
  <2>1. f \in [0..(n - 1) -> mine]
      BY <1>2
  <2>2. \A i, j \in 0..(n - 1) : f[i] = f[j] => i = j
      OBVIOUS
  <2>3. \A p \in mine : \E i \in 0..(n - 1) : f[i] = p
      BY <1>3
  <2> HIDE DEF n, mine, f
  <2>4. f \in Bijection(0..(n - 1), mine)
      BY <2>1, <2>2, <2>3 DEF Bijection, Injection, Surjection, IsInjective
  <2> QED
      BY <2>4 DEF ExistsBijection
<1>5. IsFiniteSet(0..(n - 1)) /\ Cardinality(0..(n - 1)) = n
  <2> HIDE DEF n
  <2>1. 0 \in Int /\ n - 1 \in Int
      BY <1>1
  <2> QED
      BY <1>1, <2>1, FS_Interval
<1> HIDE DEF n, mine, f
<1>6. Cardinality(mine) = Cardinality(0..(n - 1))
    BY <1>4, <1>5, FS_Bijection
<1> QED
    BY <1>5, <1>6 DEF n, mine

\* Once the link is erased, the urn holds what each voter was told is recorded.
THEOREM UrnIsAlwaysTheReceipts == Spec => []UrnIsTheReceipts
<1>1. ClosingIsSafe => UrnIsTheReceipts
    BY AsManyAsCarried DEF ClosingIsSafe, LinkOrUrn, UrnIsTheReceipts
<1> QED
    BY <1>1, ClosingAlwaysSafe, PTL

----------------------------------------------------------------------------
(***************************************************************************)
(* What holds whoever writes past the application.                         *)
(*                                                                         *)
(* Outside writes may set the phase and put rows anywhere, so nothing of   *)
(* Safe is left but what the row lock and the root protect: the row is     *)
(* locked by one closing that has stripped and holds the lock, nobody      *)
(* casts meanwhile, its rows stand still until it commits, and the root is *)
(* written once.                                                           *)
(***************************************************************************)
StrippingHoldsTheRow ==
    /\ rowLocked <=> \E c \in Closers : lock = c /\ at[c] = "commit"
    /\ rowLocked => HoldingRow = {}

AboutToErase(c) ==
    lock = c /\ at[c] = "commit" => envelopeRoot = NoRoot /\ Unchanged(c) = Lying(snapshot[c])

NothingBeforeTheRoot ==
    envelopeRoot = NoRoot => urnRoot = NoRoot /\ markers = {} /\ linkCleared = {} /\ erased = NoRows

ErasingInv ==
    /\ StrippingHoldsTheRow
    /\ \A c \in Closers : AboutToErase(c)
    /\ NothingBeforeTheRoot
    /\ ErasedIsWhatWasMoved

\* The places of two sets of envelopes are the same if their ciphertexts are.
LEMMA SameCiphersSamePlaces ==
    ASSUME NEW rows, NEW others, Lying(rows) = Lying(others),
           \A s \in Lying(rows) : rows[s].cipher = others[s].cipher
    PROVE  WithUrnIds(rows) = WithUrnIds(others)
<1>1. \A b, x : SlotsCarrying(rows, b, x) = SlotsCarrying(others, b, x)
    BY DEF SlotsCarrying
<1> QED
    BY <1>1 DEF WithUrnIds

\* Whoever waits for the row gets it when it is free.
LEMMA LockedRowIsNotEntered ==
    ASSUME CastTypeOK, VoterNext, rowLocked
    PROVE  HoldingRow' \subseteq HoldingRow
<1> SUFFICES ASSUME NEW r \in HoldingRow' PROVE r \in HoldingRow
    OBVIOUS
<1>1. r \in Requests /\ request'[r].at \in {"write", "create"}
    BY DEF HoldingRow
<1>2. request \in [Requests -> RequestState]
    BY DEF CastTypeOK
<1>3. ASSUME NEW q \in Requests, NEW stage, request[q].at # "idle", Moved(q, stage)
      PROVE  /\ request'[q].at = stage
             /\ \A p \in Requests \ {q} : request'[p] = request[p]
  <2>1. request[q] \in [at : Stages \ {"idle"}, slot : Slots, envelope : Envelope, retried : BOOLEAN]
      BY <1>3, RequestUnderWay
  <2> QED
      BY <1>2, <1>3, <2>1 DEF Moved
<1>4. ASSUME NEW q \in Requests, Ends(q)
      PROVE  /\ request'[q] = Idle
             /\ \A p \in Requests \ {q} : request'[p] = request[p]
    BY <1>2, <1>4 DEF Ends
<1>5. ASSUME NEW q \in Requests, CastStep(q) \/ GiveUp(q)
      PROVE  r \in HoldingRow
  <2>1. CASE CastCheck(q) \/ GiveUp(q)
    <3>1. CASE Ends(q)
        BY <1>1, <1>4, <3>1 DEF HoldingRow, Idle
    <3>2. CASE Moved(q, "lock")
      <4>1. request[q].at # "idle"
          BY <2>1 DEF CastCheck, GiveUp
      <4>2. request'[q].at = "lock" /\ \A p \in Requests \ {q} : request'[p] = request[p]
          BY <1>3, <3>2, <4>1
      <4> QED
          BY <1>1, <4>2 DEF HoldingRow
    <3> QED
        BY <2>1, <3>1, <3>2 DEF CastCheck, GiveUp
  <2>2. CASE CastLockRow(q)
      BY <2>2 DEF CastLockRow
  <2>3. CASE CastWrite(q) \/ CastCreate(q)
    <3>1. /\ request[q].at \in {"write", "create"}
          /\ \A p \in Requests \ {q} : request'[p] = request[p]
        BY <1>2, <1>3, <1>4, <2>3 DEF CastWrite, CastCreate, Record
    <3> QED
        BY <1>1, <3>1 DEF HoldingRow
  <2> QED
      BY <1>5, <2>1, <2>2, <2>3 DEF CastStep
<1>6. ASSUME NEW q \in Requests, NEW s \in Slots, NEW x \in Ciphers, SignStart(q, s, x)
      PROVE  r \in HoldingRow
    BY <1>1, <1>2, <1>6 DEF SignStart, HoldingRow
<1>7. ASSUME NEW q \in Requests, NEW other \in Requests, PollAgain(q, other)
      PROVE  r \in HoldingRow
  <2>1. request[other] \in [at : Stages \ {"idle"}, slot : Slots, envelope : Envelope, retried : BOOLEAN]
      BY <1>7, RequestUnderWay DEF PollAgain
  <2>2. request'[q].at = "signed" /\ \A p \in Requests \ {q} : request'[p] = request[p]
      BY <1>2, <1>7, <2>1 DEF PollAgain
  <2> QED
      BY <1>1, <2>2 DEF HoldingRow
<1>8. CASE VotingEnds
    BY <1>1, <1>8 DEF VotingEnds, HoldingRow
<1> QED
    BY <1>5, <1>6, <1>7, <1>8 DEF VoterNext

----------------------------------------------------------------------------
LEMMA ErasingInit == Init => ErasingInv
<1> SUFFICES ASSUME Init PROVE ErasingInv
    OBVIOUS
<1>1. StrippingHoldsTheRow /\ \A c \in Closers : AboutToErase(c)
    BY DEF Init, CastInit, StrippingHoldsTheRow, AboutToErase
<1>2. NothingBeforeTheRoot /\ ErasedIsWhatWasMoved
    BY DEF Init, NothingBeforeTheRoot, ErasedIsWhatWasMoved
<1> QED
    BY <1>1, <1>2 DEF ErasingInv

\* What the stripping writes, but for the phase and the row lock.
ErasedVars == <<envelopeRoot, urnRoot, markers, linkCleared, erased>>

\* A step of c that neither begins nor ends a stripping.
Calm(c) ==
    /\ UNCHANGED <<pending, request, rowLocked, ErasedVars>>
    /\ OnlyOf(c)
    /\ at[c] # "commit" \/ lock # c
    /\ at'[c] # "commit" \/ lock' # c

LEMMA CalmStep ==
    ASSUME TypeOK, ErasingInv, NEW c \in Closers, Calm(c)
    PROVE  ErasingInv'
<1>1. StrippingHoldsTheRow'
    BY DEF ErasingInv, StrippingHoldsTheRow, Calm, OnlyOf, HoldingRow
<1>2. \A d \in Closers : AboutToErase(d)'
    BY DEF ErasingInv, AboutToErase, Calm, OnlyOf, Unchanged, Lying, ErasedVars
<1>3. NothingBeforeTheRoot' /\ ErasedIsWhatWasMoved'
    BY DEF ErasingInv, NothingBeforeTheRoot, ErasedIsWhatWasMoved, Calm, ErasedVars
<1> QED
    BY <1>1, <1>2, <1>3 DEF ErasingInv

\* The steps of a closing before and after its stripping, and what fails there.
LEMMA ClosingIsCalm ==
    ASSUME TypeOK, NEW c \in Closers,
           \/ Closing(c) /\ ~Strip(c) /\ ~CommitStrip(c)
           \/ StatementFails(c) \/ UrnWriteFails(c)
    PROVE  Calm(c)
<1> USE DEF NoWrite, castVars, KeepVoters, KeepOwn, KeepCasts, ErasedVars
<1>1. CASE Open(c)
    BY <1>1, Moves, ClosersAssumption DEF Open, Calm, OnlyOf
<1>2. CASE CloseVoting(c) \/ CasValidated(c)
    BY <1>2, Moves DEF CloseVoting, CasValidated, EndVoting, Calm, OnlyOf
<1>3. CASE ReadStart(c) \/ RecheckLock(c) \/ RecheckPhase(c) \/ CompareUrn(c) \/ Confirm(c)
    BY <1>3, Moves DEF ReadStart, RecheckLock, RecheckPhase, CompareUrn, Confirm, Calm, OnlyOf
<1>4. CASE ReadEnvelopes(c) \/ FindDeviations(c) \/ VerdictRead(c)
    BY <1>4, Moves DEF ReadEnvelopes, FindDeviations, VerdictRead, Calm, OnlyOf, TypeOK
<1>5. CASE HeldAfterValidation(c) \/ HeldBeforeRemoving(c) \/ HeldBeforeStripping(c)
    BY <1>5, Moves DEF HeldAfterValidation, HeldBeforeRemoving, HeldBeforeStripping, AskLock, Calm, OnlyOf
<1>6. CASE RemoveFromUrn(c) \/ InsertIntoUrn(c)
    BY <1>6, Moves DEF RemoveFromUrn, InsertIntoUrn, Calm, OnlyOf
<1>7. CASE CommitFails(c)
    BY <1>7, Moves DEF CommitFails, StillHeld, Calm, OnlyOf
<1>8. CASE VerdictAsk(c)
    BY <1>8, Moves DEF VerdictAsk, Calm, OnlyOf
<1>9. CASE StatementFails(c)
    BY <1>9, Moves DEF StatementFails, Preparing, Calm, OnlyOf
<1>10. CASE UrnWriteFails(c)
    BY <1>10, Moves DEF UrnWriteFails, Calm, OnlyOf
<1> QED
    BY <1>1, <1>2, <1>3, <1>4, <1>5, <1>6, <1>7, <1>8, <1>9, <1>10 DEF Closing, CloserStep

LEMMA ErasingStep ==
    ASSUME TypeOK, ErasingInv, [Next]_vars
    PROVE  ErasingInv'
<1>0. StrippingHoldsTheRow /\ NothingBeforeTheRoot /\ ErasedIsWhatWasMoved /\ CastTypeOK
    BY DEF ErasingInv, TypeOK
\* Who writes elsewhere leaves the rows of an uncommitted stripping alone.
<1>1. ASSUME UNCHANGED <<lock, at, snapshot, rowLocked, ErasedVars>>,
             rowLocked => HoldingRow' = {} /\ \A s \in Slots : pending[s] # NoEnvelope => pending'[s] = pending[s]
      PROVE  ErasingInv'
  <2>1. StrippingHoldsTheRow'
      BY <1>0, <1>1 DEF StrippingHoldsTheRow
  <2>2. ASSUME NEW c \in Closers PROVE AboutToErase(c)'
    <3> SUFFICES ASSUME lock = c, at[c] = "commit"
                 PROVE  envelopeRoot = NoRoot /\ Unchanged(c)' = Lying(snapshot[c])
        BY <1>1 DEF AboutToErase, ErasedVars, Lying
    <3>1. rowLocked /\ envelopeRoot = NoRoot /\ Unchanged(c) = Lying(snapshot[c])
        BY <1>0 DEF StrippingHoldsTheRow, ErasingInv, AboutToErase
    <3>2. \A s \in Lying(snapshot[c]) : pending[s] # NoEnvelope /\ pending'[s] = pending[s]
        BY <1>1, <3>1 DEF Unchanged, Lying
    <3> QED
        BY <1>1, <3>1, <3>2 DEF Unchanged, Lying
  <2>3. NothingBeforeTheRoot' /\ ErasedIsWhatWasMoved'
      BY <1>0, <1>1 DEF NothingBeforeTheRoot, ErasedIsWhatWasMoved, ErasedVars
  <2> QED
      BY <2>1, <2>2, <2>3 DEF ErasingInv
<1>2. CASE Voters
  <2>1. VoterNext /\ UNCHANGED <<lock, at, snapshot, ErasedVars>>
      BY <1>2 DEF Voters, votersDb, closingVars, ErasedVars
  <2>2. rowLocked' = rowLocked /\ (rowLocked => HoldingRow' = {} /\ pending' = pending)
      BY <1>0, <2>1, VoterStep, LockedRowIsNotEntered DEF StrippingHoldsTheRow
  <2> QED
      BY <1>1, <2>1, <2>2
<1>3. CASE PhaseMovesOn
    BY <1>0, <1>1, <1>3
    DEF PhaseMovesOn, votersDb, closingVars, ErasedVars, StrippingHoldsTheRow, HoldingRow
<1>4. CASE Outside
  <2>1. /\ UNCHANGED <<lock, at, snapshot, rowLocked, request, ErasedVars>>
        /\ rowLocked => \A s \in Slots : pending[s] # NoEnvelope => pending'[s] = pending[s]
      BY <1>0, <1>4 DEF Outside, OutsideEnvelope, OutsideUrn, OutsidePhase, votersDb, closingVars,
          castVars, ErasedVars, CastTypeOK, PendingVotes
  <2> QED
      BY <1>0, <1>1, <2>1 DEF StrippingHoldsTheRow, HoldingRow
<1>5. ASSUME NEW c \in Closers, Strip(c)
      PROVE  ErasingInv'
  <2>1. /\ at[c] = "strip"
        /\ UNCHANGED <<phase, pending, request, snapshot, ErasedVars>>
      BY <1>5 DEF Strip, KeepCasts, KeepVoters, KeepOwn, ErasedVars
  <2>2. CASE UNCHANGED rowLocked
    <3>1. OnlyOf(c) /\ at'[c] \in {"over", "abort"}
        BY <1>5, <2>2, Moves DEF Strip, OnlyOf, KeepOwn, TypeOK, CastTypeOK, RowIsFree
    <3> QED
        BY <2>1, <2>2, <3>1, CalmStep DEF Calm
  <2>3. CASE ~rowLocked /\ rowLocked'
    <3>1. /\ OnlyOf(c) /\ at'[c] = "commit" /\ lock = c /\ lock' = c
          /\ envelopeRoot = NoRoot /\ EnvelopesUnchanged(c) /\ HoldingRow = {}
        BY <1>5, <2>3, Moves DEF Strip, OnlyOf, KeepOwn, StillHeld, RootUnwritten, RowIsFree
    <3>2. StrippingHoldsTheRow'
        BY <2>1, <2>3, <3>1 DEF StrippingHoldsTheRow, HoldingRow
    <3>3. \A d \in Closers : AboutToErase(d)'
        BY <2>1, <3>1 DEF AboutToErase, EnvelopesUnchanged, Unchanged, Lying, ErasedVars
    <3>4. NothingBeforeTheRoot' /\ ErasedIsWhatWasMoved'
        BY <1>0, <2>1 DEF NothingBeforeTheRoot, ErasedIsWhatWasMoved, ErasedVars
    <3> QED
        BY <3>2, <3>3, <3>4 DEF ErasingInv
  <2> QED
      BY <1>5, <2>2, <2>3 DEF Strip, RowIsFree
<1>6. ASSUME NEW c \in Closers, CommitStrip(c)
      PROVE  ErasingInv'
  <2>1. /\ at[c] = "commit" /\ lock = c /\ Stripped(c) /\ lock' = NoCloser
        /\ UNCHANGED <<request, snapshot>>
      BY <1>6 DEF CommitStrip, StillHeld, KeepOwn
  <2>2. envelopeRoot = NoRoot /\ Unchanged(c) = Lying(snapshot[c])
      BY <2>1 DEF ErasingInv, AboutToErase
  <2>3. StrippingHoldsTheRow' /\ \A d \in Closers : AboutToErase(d)'
      BY <2>1, ClosersAssumption DEF Stripped, StrippingHoldsTheRow, AboutToErase
  <2>4. envelopeRoot' = snapshot[c] /\ envelopeRoot' # NoRoot
      BY <2>1, ClosersAssumption DEF Stripped, TypeOK
  <2>5. /\ Lying(erased') = Lying(snapshot[c])
        /\ \A s \in Lying(snapshot[c]) : erased'[s].cipher = snapshot[c][s].cipher
    <3>1. erased' = [s \in Slots |-> IF s \in Lying(snapshot[c]) THEN pending[s] ELSE NoEnvelope]
        BY <1>0, <2>1, <2>2 DEF Stripped, NothingBeforeTheRoot, NoRows
    <3>2. \A s \in Lying(snapshot[c]) :
             s \in Slots /\ pending[s] # NoEnvelope /\ pending[s].cipher = snapshot[c][s].cipher
        BY <2>2 DEF Unchanged, Lying
    <3> QED
        BY <3>1, <3>2 DEF Lying
  <2>6. WithUrnIds(erased') = Placed(c)
      BY <2>5, SameCiphersSamePlaces DEF Placed
  <2>7. markers' = Lying(snapshot[c]) /\ urnRoot' = Placed(c) /\ linkCleared' = {Placed(c)}
      BY <1>0, <2>1, <2>2 DEF Stripped, NothingBeforeTheRoot
  <2>8. /\ Lying(erased)' = Lying(snapshot[c]) /\ Lying(envelopeRoot)' = Lying(snapshot[c])
        /\ WithUrnIds(erased)' = Placed(c)
      BY <2>4, <2>5, <2>6
  <2>9. ErasedIsWhatWasMoved'
      BY <2>4, <2>5, <2>7, <2>8 DEF ErasedIsWhatWasMoved
  <2> QED
      BY <2>3, <2>4, <2>9 DEF ErasingInv, NothingBeforeTheRoot
<1>7. ASSUME NEW c \in Closers, LoseLock(c) \/ Crash(c)
      PROVE  ErasingInv'
  <2>1. /\ UNCHANGED <<pending, request, snapshot, ErasedVars>>
        /\ rowLocked' = IF lock = c /\ at[c] = "commit" THEN FALSE ELSE rowLocked
        /\ lock' = IF lock = c THEN NoCloser ELSE lock
        /\ \A d \in Closers \ {c} : at'[d] = at[d]
      BY <1>7, Moves DEF LoseLock, Crash, SessionEnds, KeepCasts, KeepVoters, KeepOwn, ErasedVars
  <2>2. StrippingHoldsTheRow'
      BY <1>0, <2>1, ClosersAssumption DEF StrippingHoldsTheRow, HoldingRow, TypeOK, CastTypeOK
  <2>3. \A d \in Closers : AboutToErase(d)'
      BY <2>1, ClosersAssumption DEF ErasingInv, AboutToErase, Unchanged, Lying, ErasedVars
  <2>4. NothingBeforeTheRoot' /\ ErasedIsWhatWasMoved'
      BY <1>0, <2>1 DEF NothingBeforeTheRoot, ErasedIsWhatWasMoved, ErasedVars
  <2> QED
      BY <2>2, <2>3, <2>4 DEF ErasingInv
<1>8. ASSUME NEW c \in Closers, StatementFails(c) \/ UrnWriteFails(c)
      PROVE  ErasingInv'
    BY <1>8, ClosingIsCalm, CalmStep
<1>9. ASSUME NEW c \in Closers, Closing(c)
      PROVE  ErasingInv'
    BY <1>5, <1>6, <1>9, ClosingIsCalm, CalmStep
<1>10. CASE UNCHANGED vars
    BY <1>0, <1>1, <1>10
    DEF vars, castVars, votersDb, closingVars, ErasedVars, StrippingHoldsTheRow, HoldingRow
<1> QED
    BY <1>2, <1>3, <1>4, <1>7, <1>8, <1>9, <1>10 DEF Next, Faults

\* Whoever writes past the application, and whatever fails: the rows the
\* stripping deleted are the ones that were validated and moved, the roots speak
\* of them, and each of those voters is marked.
THEOREM ErasedIsAlwaysWhatWasMoved == Spec => []ErasedIsWhatWasMoved
<1>1. Init => TypeOK /\ ErasingInv
    BY TypeInit, ErasingInit
<1>2. TypeOK /\ ErasingInv /\ [Next]_vars => TypeOK' /\ ErasingInv'
    BY TypeStep, ErasingStep
<1>3. ErasingInv => ErasedIsWhatWasMoved
    BY DEF ErasingInv
<1> QED
    BY <1>1, <1>2, <1>3, PTL DEF Spec

----------------------------------------------------------------------------
(***************************************************************************)
(* What a closing's administrator is told, whoever writes past the         *)
(* application.  A closing words its answer from a read of the root and    *)
(* then asks for its lock: nobody else writes the root while it holds it,  *)
(* and nobody takes a root back.                                           *)
(***************************************************************************)
Asking == {"abortAsk", "findingAsk"}

ReadTruly(c) ==
    /\ at[c] \in Asking /\ view[c] = "cleared" => envelopeRoot # NoRoot
    /\ at[c] \in Asking /\ view[c] = "linked" /\ lock = c => envelopeRoot = NoRoot
    /\ answer[c] \in {"closed", "already_closed"} => envelopeRoot # NoRoot

\* A closing that reads, asks or answers knows what it says; the others know
\* what they knew.
LEMMA ReadTrulyStep ==
    ASSUME TypeOK, \A d \in Closers : ReadTruly(d), NEW c \in Closers, OnlyOf(c),
           \/ UNCHANGED envelopeRoot
           \/ envelopeRoot' # NoRoot /\ lock = c,
           ReadTruly(c)'
    PROVE  \A d \in Closers : ReadTruly(d)'
<1> SUFFICES ASSUME NEW d \in Closers \ {c} PROVE ReadTruly(d)'
    OBVIOUS
<1> QED
    BY DEF ReadTruly, OnlyOf

LEMMA ClosingReadsTruly ==
    ASSUME TypeOK, ErasingInv, \A d \in Closers : ReadTruly(d), NEW c \in Closers, Closing(c)
    PROVE  \A d \in Closers : ReadTruly(d)'
<1>0. ReadTruly(c)
    OBVIOUS
<1>1. ASSUME OnlyOf(c), UNCHANGED envelopeRoot, at'[c] \notin Asking,
             \/ UNCHANGED answer
             \/ answer'[c] \in {"closed", "already_closed"} => envelopeRoot # NoRoot
      PROVE  \A d \in Closers : ReadTruly(d)'
    BY <1>0, <1>1, ReadTrulyStep DEF ReadTruly
<1>2. CASE CommitStrip(c)
  <2>1. /\ lock = c /\ lock' = NoCloser /\ envelopeRoot' = snapshot[c]
        /\ at'[c] \in {"confirm", "over"}
        /\ \A d \in Closers \ {c} : at'[d] = at[d] /\ answer'[d] = answer[d]
        /\ view' = view /\ snapshot' = snapshot
      BY <1>2, Moves DEF CommitStrip, StillHeld, Stripped, KeepOwn, TypeOK
  <2>2. OnlyOf(c) /\ envelopeRoot' # NoRoot
      BY <2>1, ClosersAssumption DEF OnlyOf, TypeOK
  <2>3. ReadTruly(c)'
      BY <2>1, <2>2 DEF ReadTruly, Asking
  <2> QED
      BY <2>1, <2>2, <2>3, ReadTrulyStep
<1>3. CASE Strip(c)
  <2>1. OnlyOf(c) /\ UNCHANGED envelopeRoot /\ at'[c] \in {"over", "abort", "commit"}
        /\ (UNCHANGED answer \/ answer'[c] = "unknown")
      BY <1>3, Moves DEF Strip, OnlyOf, KeepOwn, KeepVoters
  <2> QED
      BY <1>1, <2>1 DEF Asking
<1>4. CASE VerdictRead(c)
  <2>1. OnlyOf(c) /\ UNCHANGED <<envelopeRoot, answer>> /\ view'[c] = StateRead
      BY <1>4, Moves DEF VerdictRead, OnlyOf, NoWrite, KeepVoters, TypeOK
  <2>2. ReadTruly(c)'
      BY <1>0, <2>1 DEF ReadTruly, StateRead, LinkAlreadyCleared, LinkStillExists, RootUnwritten
  <2> QED
      BY <2>1, <2>2, ReadTrulyStep
<1>5. CASE VerdictAsk(c)
  <2>1. /\ at[c] \in Asking /\ at'[c] = "over"
        /\ answer'[c] = VerdictFor(c, IF at[c] = "abortAsk" THEN "untouched" ELSE "finding")
        /\ UNCHANGED envelopeRoot
      BY <1>5, Moves DEF VerdictAsk, NoWrite, KeepVoters, Asking
  <2>2. answer'[c] \in {"closed", "already_closed"} => view[c] = "cleared"
      BY <2>1 DEF VerdictFor
  <2>3. OnlyOf(c)
      BY <1>5, Moves DEF VerdictAsk, OnlyOf, KeepOwn
  <2> QED
      BY <1>0, <1>1, <2>1, <2>2, <2>3 DEF ReadTruly, Asking
<1>6. CASE ReadStart(c)
  <2>1. /\ at'[c] \in {"over", "abort", "read"} /\ UNCHANGED envelopeRoot /\ OnlyOf(c)
        /\ \/ UNCHANGED answer
           \/ answer'[c] \in {"closed", "already_closed"} => StateRead = "cleared"
      BY <1>6, Moves DEF ReadStart, NoWrite, KeepVoters, KeepOwn, OnlyOf
  <2> QED
      BY <1>1, <2>1 DEF StateRead, LinkAlreadyCleared, Asking
<1>7. CASE Confirm(c)
  <2>1. /\ at'[c] = "over" /\ UNCHANGED envelopeRoot /\ OnlyOf(c)
        /\ answer'[c] = "closed" => envelopeRoot # NoRoot
        /\ answer'[c] # "already_closed"
      BY <1>7, Moves DEF Confirm, NoWrite, KeepVoters, KeepOwn, OnlyOf
  <2> QED
      BY <1>1, <2>1 DEF Asking
<1>8. ASSUME ~CommitStrip(c), ~Strip(c), ~VerdictRead(c), ~VerdictAsk(c), ~ReadStart(c), ~Confirm(c)
      PROVE  \A d \in Closers : ReadTruly(d)'
  <2>1. OnlyOf(c) /\ UNCHANGED envelopeRoot
      BY <1>8, ClosingIsCalm DEF Calm, ErasedVars
  <2>2. at'[c] \notin Asking /\ (UNCHANGED answer \/ answer'[c] \in {"in_progress", "unknown"})
      BY <1>8, Moves DEF Closing, CloserStep, Open, CloseVoting, ReadEnvelopes, HeldAfterValidation,
          HeldBeforeRemoving, HeldBeforeStripping, AskLock, CasValidated, FindDeviations, RemoveFromUrn,
          RecheckLock, RecheckPhase, InsertIntoUrn, CompareUrn, CommitFails, Asking
  <2> QED
      BY <1>1, <2>1, <2>2
<1> QED
    BY <1>2, <1>3, <1>4, <1>5, <1>6, <1>7, <1>8

LEMMA TellingStep ==
    ASSUME TypeOK, ErasingInv, \A d \in Closers : ReadTruly(d), [Next]_vars
    PROVE  \A d \in Closers : ReadTruly(d)'
<1>1. ASSUME UNCHANGED <<at, view, lock, envelopeRoot, answer>>
      PROVE  \A d \in Closers : ReadTruly(d)'
    BY <1>1 DEF ReadTruly
<1>2. CASE Voters \/ PhaseMovesOn \/ Outside \/ UNCHANGED vars
    BY <1>1, <1>2 DEF Voters, PhaseMovesOn, Outside, OutsideEnvelope, OutsideUrn, OutsidePhase,
        vars, votersDb, closingVars
<1>3. ASSUME NEW c \in Closers, StatementFails(c) \/ UrnWriteFails(c)
      PROVE  \A d \in Closers : ReadTruly(d)'
  <2>1. OnlyOf(c) /\ UNCHANGED envelopeRoot
      BY <1>3, ClosingIsCalm DEF Calm, ErasedVars
  <2>2. at'[c] \in {"abort", "over"} /\ (UNCHANGED answer \/ answer'[c] = "unknown")
      BY <1>3, Moves DEF StatementFails, UrnWriteFails
  <2> QED
      BY <2>1, <2>2, ReadTrulyStep DEF ReadTruly, Asking
<1>4. ASSUME NEW c \in Closers, LoseLock(c) \/ Crash(c)
      PROVE  \A d \in Closers : ReadTruly(d)'
  <2>1. /\ UNCHANGED <<envelopeRoot, view, snapshot>>
        /\ lock' = IF lock = c THEN NoCloser ELSE lock
        /\ \A d \in Closers \ {c} : at'[d] = at[d] /\ answer'[d] = answer[d]
        /\ \/ UNCHANGED <<at, answer>>
           \/ at'[c] = "over" /\ answer'[c] = "crashed"
      BY <1>4, Moves DEF LoseLock, Crash, SessionEnds, KeepVoters, KeepOwn, TypeOK
  <2>2. OnlyOf(c) /\ lock' # c
      BY <2>1, ClosersAssumption DEF OnlyOf
  <2> QED
      BY <2>1, <2>2, ReadTrulyStep DEF ReadTruly, Asking
<1> QED
    BY <1>2, <1>3, <1>4, ClosingReadsTruly DEF Next, Faults

\* Only a closing that asked says that the link is there, and it held its lock.
LEMMA IntactStep ==
    ASSUME TypeOK, ErasingInv, ClosingIsSafe, \A d \in Closers : ReadTruly(d), [Next]_vars,
           NEW c \in Closers, answer[c] = "none", answer'[c] \in {"untouched", "finding"}
    PROVE  /\ envelopeRoot' = NoRoot
           /\ ~rowLocked'
           /\ outside' = 0 => pending' = receipts'
<1>1. PICK d \in Closers : Closing(d) \/ Faults(d)
    BY DEF Next, Voters, PhaseMovesOn, Outside, OutsideEnvelope, OutsideUrn, OutsidePhase, vars, closingVars
<1>2. VerdictAsk(d) /\ d = c
  <2>1. UNCHANGED answer \/ \E said \in Answers : answer' = [answer EXCEPT ![d] = said]
                              /\ (said \in {"untouched", "finding"} => VerdictAsk(d))
    <3>1. CASE Faults(d)
        BY <3>1 DEF Faults, LoseLock, Crash, StatementFails, UrnWriteFails, Proceed, Reply, Answers
    <3>2. CASE Closing(d) /\ ~VerdictAsk(d)
        BY <3>2 DEF Closing, CloserStep, Open, CloseVoting, ReadStart, ReadEnvelopes, HeldAfterValidation,
            HeldBeforeRemoving, HeldBeforeStripping, AskLock, CasValidated, FindDeviations, RemoveFromUrn,
            RecheckLock, RecheckPhase, InsertIntoUrn, CompareUrn, Strip, CommitStrip, CommitFails, Confirm,
            VerdictRead, Proceed, Reply, Answers
    <3>3. CASE VerdictAsk(d)
        BY <3>3 DEF VerdictAsk, VerdictFor, Reply, Answers
    <3> QED
        BY <1>1, <3>1, <3>2, <3>3
  <2> QED
      BY <2>1 DEF TypeOK
<1>3. view[c] = "linked" /\ lock = c /\ at[c] \in Asking
    BY <1>2, Moves DEF VerdictAsk, VerdictFor, StillHeld, Asking
<1>4. envelopeRoot = NoRoot /\ UNCHANGED <<envelopeRoot, rowLocked, pending, receipts, outside>>
    BY <1>2, <1>3 DEF ReadTruly, VerdictAsk, NoWrite, KeepVoters, KeepBounds, castVars
<1>5. ~rowLocked
    BY <1>3 DEF ErasingInv, StrippingHoldsTheRow, Asking
<1>6. outside = 0 => pending = receipts
    BY <1>4 DEF ClosingIsSafe, PhaseTellsTheRoot, LinkOrUrn
<1> QED
    BY <1>4, <1>5, <1>6

\* What a closing tells its administrator is true: erased when it says so, and
\* whole when it says that nothing was done.
THEOREM AnswersAreAlwaysTrue == Spec => AnswersAreTrue
<1> DEFINE Told == \A c \in Closers : ReadTruly(c)
           Inv  == TypeOK /\ ErasingInv /\ ClosingIsSafe /\ Told
           IntactStepped == \A c \in Closers :
              answer[c] = "none" /\ answer'[c] \in {"untouched", "finding"} =>
                  /\ envelopeRoot' = NoRoot
                  /\ ~rowLocked'
                  /\ outside' = 0 => pending' = receipts'
<1>1. Init => Inv
  <2>1. Init => Told
      BY DEF Init, ReadTruly, Asking
  <2> QED
      BY <2>1, TypeInit, ErasingInit, SafeInit
<1>2. Inv /\ [Next]_vars => Inv'
    BY TypeStep, ErasingStep, SafeNext, TellingStep
<1>3. Inv => ClosedIsTrue
  <2> SUFFICES ASSUME Inv, NEW c \in Closers, answer[c] \in {"closed", "already_closed"}
               PROVE  /\ envelopeRoot # NoRoot
                      /\ outside = 0 => phase \in ClearedPhases /\ pending = NoRows
      BY DEF ClosedIsTrue
  <2>1. envelopeRoot # NoRoot
      BY DEF ReadTruly
  <2> QED
      BY <2>1 DEF ClosingIsSafe, PhaseTellsTheRoot, LinkOrUrn, TypeOK, CastTypeOK, Phases
<1>4. Inv /\ [Next]_vars => [IntactStepped]_vars
    BY IntactStep
<1> HIDE DEF Inv, IntactStepped
<1>5. Spec => []Inv
    BY <1>1, <1>2, PTL DEF Spec
<1>6. Spec => [][IntactStepped]_vars
    BY <1>4, <1>5, PTL DEF Spec
<1> QED
    BY <1>3, <1>5, <1>6, PTL DEF AnswersAreTrue, IntactIsTrue, IntactStepped

----------------------------------------------------------------------------
(***************************************************************************)
(* The closing keeps the promise, where nobody writes past the             *)
(* application.  Safe makes the promise's variables functions of the stage, *)
(* the receipts and the answers: so a step of the code that changes none   *)
(* of the three is a stutter, and any other is one step of the promise.    *)
(***************************************************************************)
LinkedAt(stage, rows)  == IF stage = "cleared" THEN {} ELSE Lying(rows)
CountedAt(stage, rows) == IF stage = "cleared" THEN WithUrnIds(rows) ELSE {}

MappedByThree ==
    /\ Lying(pending) = LinkedAt(Stage, receipts)
    /\ (IF Stage = "cleared" THEN urn \cup forged ELSE {}) = CountedAt(Stage, receipts)
    /\ Stage = "open" <=> phase = "OPEN"
    /\ Stage = "cleared" <=> envelopeRoot # NoRoot

LEMMA PromiseState == TypeOK /\ Safe => MappedByThree
<1> SUFFICES ASSUME TypeOK, Safe PROVE MappedByThree
    OBVIOUS
<1>1. Stage = "cleared" => phase \in ClearedPhases
    BY DEF Stage, Safe, PhaseTellsTheRoot, TypeOK, CastTypeOK, Phases
<1>2. Stage # "cleared" => phase \in LinkedPhases
    BY DEF Stage, Safe, PhaseTellsTheRoot, LinkedPhases
<1>3. Lying(NoRows) = {}
    BY DEF Lying, NoRows
<1>4. phase = "OPEN" => envelopeRoot = NoRoot
    BY DEF Safe, PhaseTellsTheRoot, LinkedPhases
<1>5. Stage = "open" <=> phase = "OPEN"
    BY DEF Stage
<1>6. Stage = "cleared" <=> envelopeRoot # NoRoot
    BY <1>4 DEF Stage
<1>7. CASE Stage = "cleared"
    BY <1>1, <1>3, <1>7, <1>5, <1>6 DEF Safe, LinkOrUrn, LinkedAt, CountedAt, MappedByThree
<1>8. CASE Stage # "cleared"
    BY <1>2, <1>8, <1>5, <1>6 DEF Safe, LinkOrUrn, LinkedAt, CountedAt, MappedByThree
<1> QED
    BY <1>7, <1>8

\* An answer nobody had heard.
Heard(sayings) ==
    \E c \in Closers : answer[c] = "none" /\ \E said \in sayings : answer' = [answer EXCEPT ![c] = said]

\* The promise's words are the closing's.
LEMMA SameWords ==
    /\ Promise!Envelope = Envelope
    /\ Promise!NoRows = NoRows
    /\ \A rows : Promise!WithUrnIds(rows) = WithUrnIds(rows)
    /\ \A rows, s : Promise!SequenceAt(rows, s) = SequenceAt(rows, s)
<1>1. Promise!Envelope = Envelope /\ Promise!NoRows = NoRows
    BY DEF Promise!Envelope, Promise!Sequences, Promise!NoRows, Envelope, Sequences, NoRows
<1>2. \A rows : Promise!WithUrnIds(rows) = WithUrnIds(rows)
  <2>1. \A S : Promise!Cardinality(S) = Cardinality(S)
      BY DEF Promise!Cardinality, Cardinality
  <2>2. \A rows, b, x : Promise!SlotsCarrying(rows, b, x) = SlotsCarrying(rows, b, x)
      BY DEF Promise!SlotsCarrying, Promise!Lying, SlotsCarrying, Lying
  <2> QED
      BY <2>1, <2>2 DEF Promise!WithUrnIds, WithUrnIds
<1>3. \A rows, s : Promise!SequenceAt(rows, s) = SequenceAt(rows, s)
    BY DEF Promise!SequenceAt, SequenceAt
<1> QED
    BY <1>1, <1>2, <1>3

\* The steps of the promise, over the three.
RecordsThree ==
    /\ UNCHANGED <<Stage, answer>> /\ Stage = "open"
    /\ \E s \in Slots, e \in Envelope :
          e.seq > SequenceAt(receipts, s) /\ receipts' = [receipts EXCEPT ![s] = e]

ClearsThree ==
    /\ UNCHANGED receipts /\ Stage = "closed" /\ Stage' = "cleared"
    /\ UNCHANGED answer \/ Heard({"unknown"})

TellsThree ==
    /\ UNCHANGED <<Stage, receipts>>
    /\ \/ Heard({"in_progress", "unknown", "crashed"})
       \/ Stage = "cleared" /\ Heard({"closed", "already_closed"})
       \/ Stage # "cleared" /\ Heard({"too_early", "untouched", "finding"})

StepsThree ==
    \/ UNCHANGED <<Stage, receipts, answer>>
    \/ RecordsThree
    \/ UNCHANGED <<receipts, answer>> /\ Stage = "open" /\ Stage' = "closed"
    \/ ClearsThree
    \/ TellsThree

LEMMA PromiseSteps == TypeOK /\ Safe /\ TypeOK' /\ Safe' /\ StepsThree => [Promise!Next]_(Promise!promiseVars)
<1> SUFFICES ASSUME TypeOK, Safe, TypeOK', Safe', StepsThree
             PROVE  [Promise!Next]_(Promise!promiseVars)
    OBVIOUS
<1> DEFINE L == Lying(pending)
           C == IF Stage = "cleared" THEN urn \cup forged ELSE {}
<1>1. /\ L = LinkedAt(Stage, receipts) /\ C = CountedAt(Stage, receipts)
      /\ L' = LinkedAt(Stage', receipts') /\ C' = CountedAt(Stage', receipts')
  <2>1. MappedByThree /\ MappedByThree'
      BY PromiseState, PTL
  <2> QED
      BY <2>1 DEF MappedByThree, LinkedAt, CountedAt
<1> HIDE DEF L, C
<1>2. CASE UNCHANGED <<Stage, receipts, answer>>
  <2>1. L' = L /\ C' = C
      BY <1>1, <1>2
  <2> QED
      BY <1>2, <2>1 DEF Promise!promiseVars, L, C
<1>3. CASE RecordsThree
  <2>1. PICK s \in Slots, e \in Envelope :
            e.seq > SequenceAt(receipts, s) /\ receipts' = [receipts EXCEPT ![s] = e]
      BY <1>3 DEF RecordsThree
  <2>2. L' = L \cup {s} /\ C' = C
      BY <1>1, <1>3, <2>1, NoEnvelopeAssumption
      DEF RecordsThree, LinkedAt, CountedAt, Lying, TypeOK, CastTypeOK, PendingVotes
  <2>3. Promise!Record(s, e)
      BY <1>3, <2>1, <2>2, SameWords DEF RecordsThree, Promise!Record, L, C
  <2> QED
      BY <2>1, <2>3, SameWords DEF Promise!Next
<1>4. CASE UNCHANGED <<receipts, answer>> /\ Stage = "open" /\ Stage' = "closed"
  <2>1. L' = L /\ C' = C
      BY <1>1, <1>4 DEF LinkedAt, CountedAt
  <2> QED
      BY <1>4, <2>1 DEF Promise!Next, Promise!Close, L, C
<1>5. CASE ClearsThree
  <2>1. L' = {} /\ C' = WithUrnIds(receipts)
      BY <1>1, <1>5 DEF ClearsThree, LinkedAt, CountedAt
  <2>2. answer' = answer \/ \E c \in Closers : Promise!Hears(c, {"unknown"})
      BY <1>5 DEF ClearsThree, Heard, Promise!Hears
  <2> QED
      BY <1>5, <2>1, <2>2, SameWords DEF ClearsThree, Promise!Next, Promise!Clear, L, C
<1>6. CASE TellsThree
  <2>1. L' = L /\ C' = C
      BY <1>1, <1>6 DEF TellsThree
  <2>2. PICK c \in Closers :
           \/ Promise!Hears(c, Promise!SaysNothing)
           \/ Stage = "cleared" /\ Promise!Hears(c, Promise!SaysErased)
           \/ Stage # "cleared" /\ Promise!Hears(c, Promise!SaysNotErased)
      BY <1>6 DEF TellsThree, Heard, Promise!Hears, Promise!SaysNothing, Promise!SaysErased,
          Promise!SaysNotErased
  <2>3. Promise!Tell(c)
      BY <1>6, <2>1, <2>2 DEF TellsThree, Promise!Tell, L, C
  <2> QED
      BY <2>3 DEF Promise!Next
<1> QED
    BY <1>2, <1>3, <1>4, <1>5, <1>6 DEF StepsThree

\* A vote is recorded, or a call moves on.
LEMMA VotersKeepThePromise ==
    ASSUME TypeOK, Safe, Voters
    PROVE  StepsThree
<1>1. /\ VoterNext /\ CastTypeOK /\ PhaseTellsTheRoot /\ LinkOrUrn
      /\ UNCHANGED <<envelopeRoot, answer>>
    BY DEF Voters, votersDb, closingVars, TypeOK, Safe
<1>2. UNCHANGED Stage
    BY <1>1, VoterStep DEF Stage
<1>3. CASE UNCHANGED <<pending, receipts>>
    BY <1>1, <1>2, <1>3 DEF StepsThree
<1>4. CASE /\ HoldingRow # {}
           /\ RowIsTheReceipt => RowIsTheReceipt'
           /\ \E s \in Slots, e \in Envelope :
                 e.seq > SequenceAt(pending, s) /\ pending' = [pending EXCEPT ![s] = e]
  <2>1. phase = "OPEN" /\ RowIsTheReceipt
      BY <1>1, <1>4 DEF PhaseTellsTheRoot, LinkOrUrn, RowIsTheReceipt, LinkedPhases
  <2>2. Stage = "open"
      BY <2>1 DEF Stage
  <2>3. pending = receipts /\ pending' = receipts'
      BY <1>4, <2>1 DEF RowIsTheReceipt
  <2> QED
      BY <1>1, <1>2, <1>4, <2>2, <2>3 DEF StepsThree, RecordsThree
<1> QED
    BY <1>1, <1>3, <1>4, VoterStep

\* A closing's answer was not given before, and is told at the stage it speaks of.
LEMMA ClosingKeepsThePromise ==
    ASSUME TypeOK, Safe, \A d \in Closers : ReadTruly(d), NEW c \in Closers, Closing(c) \/ Faults(c)
    PROVE  StepsThree
<1>0. /\ WhatACloserKnows(c) /\ PhaseTellsTheRoot /\ LinkOrUrn
      /\ at[c] # "over" => answer[c] = "none"
      /\ answer \in [Closers -> Answers]
    BY DEF Safe, WhatACloserKnows, TypeOK
<1>a. ASSUME NEW said, NEW sayings, said \in sayings, Reply(c, said), at[c] # "over"
      PROVE  Heard(sayings)
    BY <1>0, <1>a DEF Heard, Reply
<1>b. ASSUME UNCHANGED <<phase, envelopeRoot>>
      PROVE  UNCHANGED Stage
    BY <1>b DEF Stage
<1> USE DEF NoWrite, castVars, KeepVoters, KeepOwn, KeepCasts
<1>1. CASE CloseVoting(c)
  <2>1. UNCHANGED <<receipts, answer, envelopeRoot>>
      BY <1>1 DEF CloseVoting, EndVoting, Proceed
  <2>2. UNCHANGED phase \/ (phase = "OPEN" /\ phase' = "CLOSED" /\ envelopeRoot = NoRoot)
      BY <1>1 DEF CloseVoting, EndVoting, RootUnwritten
  <2> QED
      BY <2>1, <2>2 DEF StepsThree, Stage
<1>2. CASE CasValidated(c)
  <2>1. UNCHANGED <<receipts, answer, envelopeRoot>>
      BY <1>2 DEF CasValidated, Proceed
  <2>2. UNCHANGED phase \/ (phase # "OPEN" /\ phase' = "VALIDATED")
      BY <1>2 DEF CasValidated
  <2> QED
      BY <2>1, <2>2 DEF StepsThree, Stage
<1>3. CASE CommitStrip(c)
  <2>1. /\ at[c] = "commit" /\ lock = c /\ Stripped(c) /\ UNCHANGED receipts
        /\ UNCHANGED answer \/ answer' = [answer EXCEPT ![c] = "unknown"]
      BY <1>3 DEF CommitStrip, StillHeld
  <2>2. phase = "VALIDATED" /\ envelopeRoot = NoRoot
      BY <1>0, <2>1 DEF WhatACloserKnows, PhaseTellsTheRoot, LinkedPhases
  <2>3. phase' = "STRIPPED" /\ envelopeRoot' # NoRoot
      BY <2>1, ClosersAssumption DEF Stripped, TypeOK
  <2>4. Stage = "closed" /\ Stage' = "cleared"
      BY <2>2, <2>3 DEF Stage
  <2> QED
      BY <1>0, <2>1, <2>4 DEF StepsThree, ClearsThree, Heard
<1>4. CASE ReadStart(c)
  <2>1. UNCHANGED <<receipts, Stage>> /\ at[c] # "over"
      BY <1>4, <1>b DEF ReadStart
  <2>2. \/ UNCHANGED answer
        \/ StateRead = "cleared" /\ Reply(c, "already_closed")
        \/ Reply(c, "unknown")
        \/ StateRead = "linked" /\ Reply(c, "too_early")
      BY <1>4 DEF ReadStart, Proceed
  <2>3. /\ StateRead = "cleared" => Stage = "cleared"
        /\ StateRead = "linked" => Stage # "cleared"
      BY <1>0 DEF StateRead, LinkAlreadyCleared, LinkStillExists, RootUnwritten, Stage, ClearedPhases
  <2> QED
      BY <1>a, <2>1, <2>2, <2>3 DEF StepsThree, TellsThree
<1>5. CASE Confirm(c)
  <2>1. UNCHANGED <<receipts, Stage>> /\ at[c] # "over"
      BY <1>5, <1>b DEF Confirm
  <2>2. Reply(c, "unknown") \/ (Reply(c, "closed") /\ Stage = "cleared")
      BY <1>5 DEF Confirm, Stage
  <2> QED
      BY <1>a, <2>1, <2>2 DEF StepsThree, TellsThree
<1>6. CASE VerdictAsk(c)
  <2>1. UNCHANGED <<receipts, Stage>> /\ at[c] \in Asking
      BY <1>6, <1>b DEF VerdictAsk, Asking
  <2>2. PICK said \in {"already_closed", "untouched", "finding", "unknown"} :
           /\ Reply(c, said)
           /\ said = "already_closed" => view[c] = "cleared"
           /\ said \in {"untouched", "finding"} => view[c] = "linked" /\ lock = c
      BY <1>6 DEF VerdictAsk, VerdictFor, StillHeld
  <2>3. said = "already_closed" => Stage = "cleared"
      BY <1>0, <2>1, <2>2 DEF ReadTruly, Stage, PhaseTellsTheRoot, LinkedPhases
  <2>4. said \in {"untouched", "finding"} => Stage # "cleared"
      BY <2>1, <2>2 DEF ReadTruly, Stage
  <2> QED
      BY <1>a, <2>1, <2>2, <2>3, <2>4 DEF StepsThree, TellsThree, Asking
<1>7. CASE Open(c) \/ RecheckLock(c) \/ RecheckPhase(c) \/ Strip(c) \/ CommitFails(c) \/ StatementFails(c)
  <2>1. UNCHANGED <<receipts, Stage>>
      BY <1>7, <1>b DEF Open, RecheckLock, RecheckPhase, Strip, CommitFails, StatementFails
  <2>2. UNCHANGED answer \/ (at[c] # "over" /\ \E said \in {"in_progress", "unknown"} : Reply(c, said))
      BY <1>7 DEF Open, RecheckLock, RecheckPhase, Strip, CommitFails, StatementFails, Proceed, Preparing
  <2> QED
      BY <1>a, <2>1, <2>2 DEF StepsThree, TellsThree
<1>8. CASE LoseLock(c) \/ Crash(c)
  <2>1. UNCHANGED <<receipts, Stage>>
      BY <1>8, <1>b DEF LoseLock, Crash, SessionEnds
  <2>2. UNCHANGED answer \/ (at[c] # "over" /\ answer' = [answer EXCEPT ![c] = "crashed"])
      BY <1>8 DEF LoseLock, Crash, Running
  <2> QED
      BY <1>0, <2>1, <2>2 DEF StepsThree, TellsThree, Heard
<1>9. CASE \/ ReadEnvelopes(c) \/ HeldAfterValidation(c) \/ FindDeviations(c) \/ HeldBeforeRemoving(c)
           \/ RemoveFromUrn(c) \/ InsertIntoUrn(c) \/ CompareUrn(c) \/ HeldBeforeStripping(c)
           \/ VerdictRead(c) \/ UrnWriteFails(c)
  <2>1. UNCHANGED <<receipts, answer, Stage>>
      BY <1>9, <1>b DEF ReadEnvelopes, HeldAfterValidation, FindDeviations, HeldBeforeRemoving, RemoveFromUrn,
          InsertIntoUrn, CompareUrn, HeldBeforeStripping, VerdictRead, UrnWriteFails, AskLock, Proceed
  <2> QED
      BY <2>1 DEF StepsThree
<1> QED
    BY <1>1, <1>2, <1>3, <1>4, <1>5, <1>6, <1>7, <1>8, <1>9 DEF Closing, CloserStep, Faults

\* With nobody writing past the application, the protocol over two databases is
\* the promise, step by step: votes are recorded, the election is closed, all is
\* counted and erased at once, and what is told is true when it is told.
THEOREM ClosingKeepsItsPromise == MaxOutside = 0 => (Spec => KeepsThePromise)
<1> SUFFICES ASSUME MaxOutside = 0 PROVE Spec => KeepsThePromise
    OBVIOUS
<1> DEFINE Told == \A c \in Closers : ReadTruly(c)
           Inv  == TypeOK /\ Safe /\ Told
<1>1. Init => Promise!Init
  <2> SUFFICES ASSUME Init PROVE Promise!Init
      OBVIOUS
  <2>1. /\ phase = "OPEN" /\ pending = NoRows /\ receipts = NoRows
        /\ answer = [c \in Closers |-> "none"]
      BY DEF Init, CastInit
  <2>2. Stage = "open" /\ Lying(pending) = {}
      BY <2>1 DEF Stage, Lying, NoRows
  <2> QED
      BY <2>1, <2>2, SameWords DEF Promise!Init
<1>2. TypeOK => outside = 0
    BY ClosersAssumption DEF TypeOK
<1>3. Inv /\ Inv' /\ [Next]_vars => [Promise!Next]_(Promise!promiseVars)
  <2> SUFFICES ASSUME Inv, Inv', [Next]_vars PROVE StepsThree
      BY PromiseSteps
  <2>1. ~Outside
      BY <1>2, ClosersAssumption DEF Outside, OutsideEnvelope, OutsideUrn, OutsidePhase, WrittenOutside
  <2>2. CASE PhaseMovesOn
    <3>1. /\ UNCHANGED <<receipts, answer, envelopeRoot>> /\ envelopeRoot # NoRoot
          /\ phase # "OPEN" /\ phase' # "OPEN"
        BY <2>2 DEF PhaseMovesOn, votersDb, closingVars
    <3> QED
        BY <3>1 DEF StepsThree, Stage
  <2>3. CASE UNCHANGED vars
      BY <2>3 DEF vars, castVars, votersDb, closingVars, StepsThree, Stage
  <2> QED
      BY <2>1, <2>2, <2>3, VotersKeepThePromise, ClosingKeepsThePromise DEF Next
<1>4. Spec => []Inv
  <2>1. Init => Told
      BY DEF Init, ReadTruly, Asking
  <2>2. Init => TypeOK /\ ErasingInv /\ ClosingIsSafe /\ Told
      BY <2>1, TypeInit, ErasingInit, SafeInit
  <2>3. TypeOK /\ ErasingInv /\ ClosingIsSafe /\ Told /\ [Next]_vars
           => TypeOK' /\ ErasingInv' /\ ClosingIsSafe' /\ Told'
      BY TypeStep, ErasingStep, SafeNext, TellingStep
  <2>4. TypeOK /\ ClosingIsSafe => Safe
      BY <1>2 DEF ClosingIsSafe, Safe
  <2> HIDE DEF Told
  <2> QED
      BY <2>2, <2>3, <2>4, PTL DEF Spec
<1> HIDE DEF Inv
<1> QED
    BY <1>1, <1>3, <1>4, PTL DEF Spec, Promise!Spec, KeepsThePromise
=============================================================================
