-------------------------- MODULE EnvelopeCasting --------------------------
(***************************************************************************)
(* Casting: sign-start, and castEncryptedBallot with its transaction.      *)
(*                                                                         *)
(* A request is one call of the server on a voter's behalf.  It checks     *)
(* early, verifies for seconds, and writes in a transaction that holds the *)
(* election row FOR SHARE, so that the UPDATE that ends the voting waits   *)
(* for it.  A server in another mode than the election's answers           *)
(* wrong_mode and writes nothing: that step is a stutter.                  *)
(***************************************************************************)
EXTENDS Envelopes

CONSTANTS Requests       \* calls in flight at the same time

VARIABLES
    \* the voters database
    phase,       \* election.phase
    ended,       \* closes_at <= now, on the servers' clock
    pending,     \* pending_vote
    rowLocked,   \* an uncommitted UPDATE holds the election row
    \* the calls
    request,     \* per call: where it is, its slot, its signed envelope, its retries
    receipts     \* per slot, the newest envelope a voter was told is recorded

castVars == <<phase, ended, pending, rowLocked, request, receipts>>

Stages == {"idle", "signed", "lock", "write", "create", "failed"}

Idle == [at |-> "idle"]

RequestState ==
    {Idle} \cup [at : Stages \ {"idle"}, slot : Slots, envelope : Envelope, retried : BOOLEAN]

CastTypeOK ==
    /\ phase \in Phases
    /\ ended \in BOOLEAN
    /\ pending \in PendingVotes
    /\ rowLocked \in BOOLEAN
    /\ request \in [Requests -> RequestState]
    /\ receipts \in PendingVotes

CastInit ==
    /\ phase = "OPEN"
    /\ ended = FALSE
    /\ pending = NoRows
    /\ rowLocked = FALSE
    /\ request = [r \in Requests |-> Idle]
    /\ receipts = NoRows

----------------------------------------------------------------------------
\* acceptsVotesNow: the phase and the clock, never one of them alone.
AcceptsVotesNow == phase = "OPEN" /\ ~ended

\* The transactions that hold the election row FOR SHARE.
HoldingRow == {r \in Requests : request[r].at \in {"write", "create"}}

Moved(r, stage) == request' = [request EXCEPT ![r].at = stage]
Ends(r)         == request' = [request EXCEPT ![r] = Idle]

\* nextCastSequence: one more than the row that lies there now.
NextCastSequence(s) == SequenceAt(pending, s) + 1

(***************************************************************************)
(* /api/vote/sign-start.  The window is asked, the next sequence number is *)
(* read and goes into what the voter signs.  Nothing reserves the number:  *)
(* a second device may sign the same one.                                  *)
(***************************************************************************)
SignStart(r, s, x) ==
    /\ request[r] = Idle
    /\ AcceptsVotesNow
    /\ NextCastSequence(s) <= MaxSequence
    /\ request' = [request EXCEPT ![r] =
           [at |-> "signed", slot |-> s, retried |-> FALSE,
            envelope |-> [seq |-> NextCastSequence(s), cipher |-> x, holds |-> TRUE]]]
    /\ UNCHANGED <<phase, ended, pending, rowLocked, receipts>>

(***************************************************************************)
(* A second poll for an order that is still held: the same signed envelope *)
(* is cast by two calls at once.                                           *)
(***************************************************************************)
PollAgain(r, other) ==
    /\ request[r] = Idle
    /\ request[other].at \in Stages \ {"idle", "failed"}
    /\ request' = [request EXCEPT ![r] =
           [request[other] EXCEPT !.at = "signed", !.retried = FALSE]]
    /\ UNCHANGED <<phase, ended, pending, rowLocked, receipts>>

\* Flawed: the last call to arrive wins.
IsStale_NeverAsked(r) == FALSE

\* The signed number must be above the one that lies in the slot.
IsStale(r) == request[r].envelope.seq <= SequenceAt(pending, request[r].slot)

(***************************************************************************)
(* The checks before the transaction.  What they read may be old when the  *)
(* transaction begins, which is why it asks again.                         *)
(***************************************************************************)
CastCheck(r) ==
    /\ request[r].at = "signed"
    /\ IF AcceptsVotesNow /\ ~IsStale(r) THEN Moved(r, "lock") ELSE Ends(r)
    /\ UNCHANGED <<phase, ended, pending, rowLocked, receipts>>

\* The visitor gave up before the write, or the call failed there.
GiveUp(r) ==
    /\ request[r].at \in {"signed", "lock"}
    /\ Ends(r)
    /\ UNCHANGED <<phase, ended, pending, rowLocked, receipts>>

\* What the transaction asks again, under its lock on the row.
StillOpenUnderLock == AcceptsVotesNow

\* SELECT ... FOR SHARE waits for an uncommitted UPDATE of the row.
CastLockRow(r) ==
    /\ request[r].at = "lock"
    /\ ~rowLocked
    /\ IF StillOpenUnderLock THEN Moved(r, "write") ELSE Ends(r)
    /\ UNCHANGED <<phase, ended, pending, rowLocked, receipts>>

\* The row is written, the transaction commits, and the voter is told so.
Record(r) ==
    LET s == request[r].slot
        e == request[r].envelope
    IN /\ pending' = [pending EXCEPT ![s] = e]
       /\ receipts' = IF e.seq >= SequenceAt(receipts, s)
                      THEN [receipts EXCEPT ![s] = e] ELSE receipts
       /\ Ends(r)

(***************************************************************************)
(* updateMany where cast_sequence < signed, else look at the lying row,    *)
(* else create.  The update holds the row to the end of the transaction.   *)
(***************************************************************************)
CastWrite(r) ==
    /\ request[r].at = "write"
    /\ \/ /\ pending[request[r].slot] # NoEnvelope
          /\ ~IsStale(r)
          /\ Record(r)
       \/ /\ pending[request[r].slot] # NoEnvelope
          /\ IsStale(r)
          /\ Ends(r)
          /\ UNCHANGED <<pending, receipts>>
       \/ /\ pending[request[r].slot] = NoEnvelope
          /\ Moved(r, "create")
          /\ UNCHANGED <<pending, receipts>>
    /\ UNCHANGED <<phase, ended, rowLocked>>

(***************************************************************************)
(* create, against the unique index: a row another transaction created in  *)
(* between rolls this one back, and the transaction is run once more.  A   *)
(* second violation is thrown at the caller.                               *)
(***************************************************************************)
CastCreate(r) ==
    /\ request[r].at = "create"
    /\ \/ /\ pending[request[r].slot] = NoEnvelope
          /\ Record(r)
       \/ /\ pending[request[r].slot] # NoEnvelope
          /\ request' = [request EXCEPT ![r].at = IF request[r].retried THEN "failed" ELSE "lock",
                                        ![r].retried = TRUE]
          /\ UNCHANGED <<pending, receipts>>
    /\ UNCHANGED <<phase, ended, rowLocked>>

\* The clock passes closes_at.
VotingEnds ==
    /\ ~ended
    /\ ended' = TRUE
    /\ UNCHANGED <<phase, pending, rowLocked, request, receipts>>

\* Flawed: the casting transaction does not hold the row.
RowIsFree_WithoutForShare == ~rowLocked

\* An UPDATE of the election row waits for every transaction that reads it FOR SHARE.
RowIsFree == ~rowLocked /\ HoldingRow = {}

(***************************************************************************)
(* The closing's first write ends the voting, once the clock allows it.    *)
(***************************************************************************)
EndVoting ==
    /\ phase = "OPEN"
    /\ ended
    /\ RowIsFree
    /\ phase' = "CLOSED"
    /\ UNCHANGED <<ended, pending, rowLocked, request, receipts>>

CastStep(r) == CastCheck(r) \/ CastLockRow(r) \/ CastWrite(r) \/ CastCreate(r)

VoterNext ==
    \/ VotingEnds
    \/ \E r \in Requests :
          \/ CastStep(r) \/ GiveUp(r)
          \/ \E s \in Slots, x \in Ciphers : SignStart(r, s, x)
          \/ \E other \in Requests : PollAgain(r, other)

----------------------------------------------------------------------------
(***************************************************************************)
(* Casting alone, with a closing that only ends the voting.                *)
(*                                                                         *)
(* Fairness: a call that has begun is run by the server until it answers,  *)
(* and whoever has started to close does get to write.  Voters, and the    *)
(* second polls of an order, owe nobody a step.                            *)
(***************************************************************************)
CastNext == VoterNext \/ EndVoting

CastFairness == \A r \in Requests : WF_castVars(CastStep(r))

CastSpec == CastInit /\ [][CastNext]_castVars /\ CastFairness

(***************************************************************************)
(* Properties                                                              *)
(***************************************************************************)
\* The row that lies in a slot is the newest one its voter was told is
\* recorded: no older or replayed envelope overwrote it, and no row is there
\* that nobody was told of. A cast whose COMMIT is not acknowledged, and whose
\* voter is told neither, is left out.
RowIsTheReceipt == pending = receipts

\* Nothing a voter's call does changes pending_vote once the phase has left
\* OPEN, whatever the call checked before.
NothingCastAfterTheClose ==
    [][phase # "OPEN" => UNCHANGED pending]_castVars

\* A row is only ever replaced by one with a higher signed number: of two
\* devices that signed the same number, one is refused.
SequenceRises ==
    [][\A s \in Slots : pending'[s] # pending[s]
            => SequenceAt(pending', s) > SequenceAt(pending, s)]_castVars

\* One retry is enough: a call never meets the unique index a second time.
OneRetryIsEnough == \A r \in Requests : request[r].at # "failed"
=============================================================================
