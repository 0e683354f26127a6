-------------------------- MODULE ElectionClosing --------------------------
(***************************************************************************)
(* Closing an election: every envelope is validated, moved to the urn in   *)
(* the votes database, and the link between voter and vote is erased from  *)
(* the voters database, once and for all.                                  *)
(*                                                                         *)
(* The two databases share no transaction.  A closing holds an advisory    *)
(* lock on a connection of its own and writes through others, so the lock  *)
(* can be lost while the closing runs on: from then on two closings write. *)
(* Each step below is one statement against a database, or one transaction *)
(* that nobody sees before it commits.                                     *)
(***************************************************************************)
EXTENDS EnvelopeCasting

CONSTANTS
    Closers,       \* calls of closeElection
    NoCloser,      \* the lock is free
    NoRoot,        \* a root that is not written
    MaxFaults,     \* bound on lost locks, crashes and failing statements
    MaxOutside     \* bound on writes past the application

ASSUME ClosersAssumption ==
    /\ NoCloser \notin Closers
    /\ NoRoot \notin PendingVotes
    /\ MaxFaults \in Nat
    /\ MaxOutside \in Nat

VARIABLES
    \* the voters database
    lock,          \* whose transaction holds the closing's advisory lock
    envelopeRoot,  \* the root over the envelopes that were moved
    urnRoot,       \* the root over the rows they became in the urn
    markers,       \* voted_marker
    linkCleared,   \* the urn roots that LINK_CLEARED posts carry
    \* the votes database
    urn,           \* ids of encrypted_vote rows with the content their id derives from
    forged,        \* ids of encrypted_vote rows with another content
    \* the closings
    at,            \* the step a closing is at
    snapshot,      \* the envelopes it read, validates and moves
    deviations,    \* the urn rows it found and means to remove
    view,          \* what it last read of the election, to word its answer
    answer,        \* what it told the administrator
    \* bounds and history
    faults, outside,
    erased         \* the rows the stripping deleted

votersDb    == <<lock, envelopeRoot, urnRoot, markers, linkCleared, erased>>
urnVars     == <<urn, forged>>
closingVars == <<at, snapshot, deviations, view, answer>>
vars        == <<castVars, votersDb, urnVars, closingVars, faults, outside>>

Steps == {"idle", "opened", "early", "started", "read", "validated", "cas", "find",
          "mayRemove", "remove", "recheck", "rephase", "insert", "compare", "mayStrip",
          "strip", "commit", "confirm", "abort", "abortAsk", "finding", "findingAsk", "over"}

\* The steps before the stripping where a failing statement aborts the closing. A
\* question to the lock that fails is answered no, as after LoseLock.
Preparing == {"opened", "early", "started", "read", "cas", "find", "rephase", "compare"}

Running == Steps \ {"idle", "over"}

Views   == {"none", "linked", "cleared", "odd"}
Answers == {"none", "in_progress", "too_early", "already_closed", "closed", "finding",
            "untouched", "unknown", "crashed"}

TypeOK ==
    /\ CastTypeOK
    /\ lock \in Closers \cup {NoCloser}
    /\ envelopeRoot \in PendingVotes \cup {NoRoot}
    /\ urnRoot \in {NoRoot} \cup SUBSET Places
    /\ markers \subseteq Slots
    /\ linkCleared \subseteq SUBSET Places
    /\ urn \subseteq Places
    /\ forged \subseteq Places
    /\ at \in [Closers -> Steps]
    /\ snapshot \in [Closers -> PendingVotes]
    /\ deviations \in [Closers -> SUBSET Places]
    /\ view \in [Closers -> Views]
    /\ answer \in [Closers -> Answers]
    /\ faults \in 0..MaxFaults
    /\ outside \in 0..MaxOutside
    /\ erased \in PendingVotes

Init ==
    /\ CastInit
    /\ lock = NoCloser
    /\ envelopeRoot = NoRoot /\ urnRoot = NoRoot
    /\ markers = {} /\ linkCleared = {}
    /\ urn = {} /\ forged = {}
    /\ at = [c \in Closers |-> "idle"]
    /\ snapshot = [c \in Closers |-> NoRows]
    /\ deviations = [c \in Closers |-> {}]
    /\ view = [c \in Closers |-> "none"]
    /\ answer = [c \in Closers |-> "none"]
    /\ faults = 0 /\ outside = 0
    /\ erased = NoRows

----------------------------------------------------------------------------
\* The guard envelope_root IS NULL of every write of the closing: once written,
\* nothing is stripped again, whatever somebody makes of the phase.
RootUnwritten == envelopeRoot = NoRoot

(***************************************************************************)
(* What a closing concludes from the state it read.                        *)
(***************************************************************************)
\* Flawed: the root is not asked.
LinkAlreadyCleared_WithoutRoot == phase \in ClearedPhases /\ Lying(pending) = {}

LinkAlreadyCleared ==
    phase \in ClearedPhases /\ envelopeRoot # NoRoot /\ Lying(pending) = {}

LinkStillExists == phase \in LinkedPhases /\ RootUnwritten

StateRead == IF LinkAlreadyCleared THEN "cleared"
             ELSE IF LinkStillExists THEN "linked" ELSE "odd"

\* Flawed: the lock is believed to be held.
StillHeld_NotAsked(c) == TRUE

\* One statement on the lock's own connection, which knows if it is gone.
StillHeld(c) == lock = c

Goto(c, step) == at' = [at EXCEPT ![c] = step]

\* The lock's transaction ends with the closing.
Release(c) == lock' = IF lock = c THEN NoCloser ELSE lock

\* The closing answers, and its lock is released.
Reply(c, said) ==
    /\ answer' = [answer EXCEPT ![c] = said]
    /\ Goto(c, "over")
    /\ Release(c)

KeepVoters == UNCHANGED <<envelopeRoot, urnRoot, markers, linkCleared, erased>>
KeepOwn    == UNCHANGED <<snapshot, deviations, view>>
KeepCasts  == UNCHANGED <<ended, pending, request, receipts>>
KeepBounds == UNCHANGED <<faults, outside>>

\* Steps that write nothing in either database but for the lock.
NoWrite == UNCHANGED castVars /\ KeepVoters /\ UNCHANGED urnVars /\ KeepBounds

\* Steps of one statement: on to the next, and nobody is answered yet.
Proceed(c, step) == Goto(c, step) /\ UNCHANGED <<lock, answer>>

----------------------------------------------------------------------------
\* pg_try_advisory_xact_lock: whoever does not get the lock does not wait.
Open(c) ==
    /\ at[c] = "idle"
    /\ IF lock = NoCloser
       THEN lock' = c /\ Goto(c, "opened") /\ UNCHANGED answer
       ELSE Reply(c, "in_progress")
    /\ KeepOwn /\ NoWrite

(***************************************************************************)
(* UPDATE OPEN to CLOSED where closes_at <= now.  It waits for every       *)
(* transaction that is casting, so no envelope comes after it.             *)
(***************************************************************************)
CloseVoting(c) ==
    /\ at[c] = "opened"
    /\ IF phase = "OPEN" /\ ended /\ RootUnwritten
       THEN EndVoting /\ Proceed(c, "started")
       ELSE UNCHANGED castVars /\ Proceed(c, IF ended THEN "started" ELSE "early")
    /\ KeepVoters /\ KeepOwn /\ UNCHANGED urnVars /\ KeepBounds

\* The first verdict, for which the lock counts as held.
ReadStart(c) ==
    /\ at[c] \in {"started", "early"}
    /\ \/ StateRead = "cleared" /\ Reply(c, "already_closed")
       \/ StateRead = "odd" /\ Reply(c, "unknown")
       \/ StateRead = "linked" /\ phase = "OPEN" /\ at[c] = "early" /\ Reply(c, "too_early")
       \/ StateRead = "linked" /\ phase = "OPEN" /\ at[c] = "started" /\ Proceed(c, "abort")
       \/ StateRead = "linked" /\ phase # "OPEN" /\ Proceed(c, "read")
    /\ KeepOwn /\ NoWrite

\* validateEnvelopes and, for who is to look into it, firstUnverifiableEnvelope.
PassesValidation(rows) == \A s \in Lying(rows) : rows[s].holds

(***************************************************************************)
(* One read of the envelopes.  Validation, the root and the move all use   *)
(* this read and never another.                                            *)
(***************************************************************************)
ReadEnvelopes(c) ==
    /\ at[c] = "read"
    /\ snapshot' = [snapshot EXCEPT ![c] = pending]
    /\ Proceed(c, IF PassesValidation(pending) THEN "validated" ELSE "finding")
    /\ UNCHANGED <<deviations, view>> /\ NoWrite

\* Flawed: a closing without the lock waits for it to come back.
AskLock_Waits(c, step, next) ==
    /\ at[c] = step
    /\ StillHeld(c)
    /\ Proceed(c, next)
    /\ KeepOwn /\ NoWrite

\* The lock is asked before the closing writes again.
AskLock(c, step, next) ==
    /\ at[c] = step
    /\ Proceed(c, IF StillHeld(c) THEN next ELSE "abort")
    /\ KeepOwn /\ NoWrite

HeldAfterValidation(c) == AskLock(c, "validated", "cas")

\* Flawed: a closing cannot be begun again from VALIDATED.
CasValidated_FromClosedOnly(c) ==
    /\ at[c] = "cas"
    /\ RowIsFree
    /\ IF phase = "CLOSED" /\ RootUnwritten
       THEN phase' = "VALIDATED" /\ Proceed(c, "find")
       ELSE UNCHANGED phase /\ Proceed(c, "abort")
    /\ KeepCasts /\ UNCHANGED rowLocked
    /\ KeepVoters /\ KeepOwn /\ UNCHANGED urnVars /\ KeepBounds

\* UPDATE CLOSED or VALIDATED to VALIDATED: a closing that stopped can be resumed.
CasValidated(c) ==
    /\ at[c] = "cas"
    /\ RowIsFree
    /\ IF phase \in {"CLOSED", "VALIDATED"} /\ RootUnwritten
       THEN phase' = "VALIDATED" /\ Proceed(c, "find")
       ELSE UNCHANGED phase /\ Proceed(c, "abort")
    /\ KeepCasts /\ UNCHANGED rowLocked
    /\ KeepVoters /\ KeepOwn /\ UNCHANGED urnVars /\ KeepBounds

\* Flawed: one row per ciphertext.
Placed_WithoutCopies(c) ==
    {<<BallotOf[s], snapshot[c][s].cipher, 0>> : s \in Lying(snapshot[c])}

\* Where the envelopes this closing validated belong.
Placed(c) == WithUrnIds(snapshot[c])

\* Rows no validated envelope belongs to, and rows in the place of one with another content.
FindDeviations(c) ==
    /\ at[c] = "find"
    /\ LET found == (urn \ Placed(c)) \cup forged
       IN /\ deviations' = [deviations EXCEPT ![c] = found]
          /\ Proceed(c, IF found = {} THEN "insert" ELSE "mayRemove")
    /\ UNCHANGED <<snapshot, view>> /\ NoWrite

HeldBeforeRemoving(c) == AskLock(c, "mayRemove", "remove")

\* DELETE by id, whatever the rows hold by now.
RemoveFromUrn(c) ==
    /\ at[c] = "remove"
    /\ urn' = urn \ deviations[c]
    /\ forged' = forged \ deviations[c]
    /\ Proceed(c, IF deviations[c] \cap (urn \cup forged) = {} THEN "insert" ELSE "recheck")
    /\ UNCHANGED castVars /\ KeepVoters /\ KeepOwn /\ KeepBounds

\* Flawed: the removal is not followed by a question.
RecheckLock_NotAsked(c) ==
    /\ at[c] = "recheck"
    /\ Proceed(c, "insert")
    /\ KeepOwn /\ NoWrite

\* Rows were removed: if the lock went, another closing may have moved them.
RecheckLock(c) ==
    /\ at[c] = "recheck"
    /\ IF StillHeld(c) THEN Proceed(c, "rephase") ELSE Reply(c, "unknown")
    /\ KeepOwn /\ NoWrite

RecheckPhase(c) ==
    /\ at[c] = "rephase"
    /\ IF phase = "VALIDATED" /\ RootUnwritten
       THEN Proceed(c, "insert") ELSE Reply(c, "unknown")
    /\ KeepOwn /\ NoWrite

\* createMany with skipDuplicates: an id that is taken is left as it is.
InsertIntoUrn(c) ==
    /\ at[c] = "insert"
    /\ urn' = urn \cup (Placed(c) \ forged)
    /\ Proceed(c, "compare")
    /\ UNCHANGED forged
    /\ UNCHANGED castVars /\ KeepVoters /\ KeepOwn /\ KeepBounds

\* As many rows as envelopes, and each one stored as it was validated.
CompareUrn(c) ==
    /\ at[c] = "compare"
    /\ Proceed(c, IF urn = Placed(c) /\ forged = {} THEN "mayStrip" ELSE "abort")
    /\ KeepOwn /\ NoWrite

HeldBeforeStripping(c) == AskLock(c, "mayStrip", "strip")

----------------------------------------------------------------------------
\* Flawed: the deletion is by id, not by id and hash.
Unchanged_ById(c) == Lying(snapshot[c]) \cap Lying(pending)

\* The lying rows that still carry the id and the hash of a moved envelope.
Unchanged(c) ==
    {s \in Lying(snapshot[c]) \cap Lying(pending) :
        pending[s].cipher = snapshot[c][s].cipher}

\* Marked, removed and left: every moved envelope is there, and no other.
EnvelopesUnchanged(c) ==
    /\ Unchanged(c) = Lying(snapshot[c])
    /\ Lying(pending) \subseteq Unchanged(c)

(***************************************************************************)
(* The stripping, inside the lock's transaction: the phase by compare and  *)
(* set, the markers, the deletion by id and hash, the counts, the post.    *)
(* It keeps the election row until it commits.  A lost lock leaves nothing *)
(* to roll back to; any other failure rolls back to the savepoint.         *)
(***************************************************************************)
Strip(c) ==
    /\ at[c] = "strip"
    /\ \/ ~StillHeld(c) /\ Reply(c, "unknown") /\ UNCHANGED rowLocked
       \/ /\ StillHeld(c) /\ RowIsFree
          /\ IF phase = "VALIDATED" /\ RootUnwritten /\ EnvelopesUnchanged(c)
             THEN rowLocked' = TRUE /\ Proceed(c, "commit")
             ELSE UNCHANGED rowLocked /\ Proceed(c, "abort")
    /\ UNCHANGED phase /\ KeepCasts
    /\ KeepVoters /\ KeepOwn /\ UNCHANGED urnVars /\ KeepBounds

\* What the transaction has written when it commits.
Stripped(c) ==
    LET moved == Lying(snapshot[c])
    IN /\ phase' = "STRIPPED"
       /\ rowLocked' = FALSE
       /\ envelopeRoot' = snapshot[c]
       /\ urnRoot' = Placed(c)
       /\ markers' = markers \cup moved
       /\ pending' = [s \in Slots |-> IF s \in moved THEN NoEnvelope ELSE pending[s]]
       /\ erased' = [s \in Slots |-> IF s \in moved THEN pending[s] ELSE erased[s]]
       /\ linkCleared' = linkCleared \cup {Placed(c)}

\* COMMIT, and its acknowledgement or the loss of it.
CommitStrip(c) ==
    /\ at[c] = "commit"
    /\ StillHeld(c)
    /\ Stripped(c)
    /\ lock' = NoCloser
    /\ \/ Goto(c, "confirm") /\ UNCHANGED <<answer, faults>>
       \/ /\ faults < MaxFaults /\ faults' = faults + 1
          /\ Goto(c, "over") /\ answer' = [answer EXCEPT ![c] = "unknown"]
    /\ UNCHANGED <<ended, request, receipts, outside>> /\ UNCHANGED urnVars /\ KeepOwn

\* COMMIT over a connection that is gone: the server rolled back long ago.
CommitFails(c) ==
    /\ at[c] = "commit"
    /\ ~StillHeld(c)
    /\ Reply(c, "unknown")
    /\ KeepOwn /\ NoWrite

\* The outcome is read back before it is told.
Confirm(c) ==
    /\ at[c] = "confirm"
    /\ Reply(c, IF phase = "STRIPPED" /\ envelopeRoot # NoRoot THEN "closed" ELSE "unknown")
    /\ KeepOwn /\ NoWrite

----------------------------------------------------------------------------
(***************************************************************************)
(* An answer without a deletion.  The state is read first and the lock is  *)
(* asked afterwards: held then, it was held at the read as well.           *)
(***************************************************************************)
VerdictRead(c) ==
    /\ at[c] \in {"abort", "finding"}
    /\ view' = [view EXCEPT ![c] = StateRead]
    /\ Proceed(c, IF at[c] = "abort" THEN "abortAsk" ELSE "findingAsk")
    /\ UNCHANGED <<snapshot, deviations>> /\ NoWrite

\* Flawed: the state is trusted without asking the lock.
VerdictFor_WithoutLock(c, intact) ==
    CASE view[c] = "cleared" -> "already_closed"
      [] view[c] = "linked"  -> intact
      [] OTHER               -> "unknown"

\* What may be said after the read of the state, and the question to the lock.
VerdictFor(c, intact) ==
    CASE view[c] = "cleared"                  -> "already_closed"
      [] view[c] = "linked" /\ StillHeld(c)   -> intact
      [] OTHER                                -> "unknown"

VerdictAsk(c) ==
    /\ at[c] \in {"abortAsk", "findingAsk"}
    /\ Reply(c, VerdictFor(c, IF at[c] = "abortAsk" THEN "untouched" ELSE "finding"))
    /\ KeepOwn /\ NoWrite

CloserStep(c) ==
    \/ CloseVoting(c) \/ ReadStart(c) \/ ReadEnvelopes(c) \/ HeldAfterValidation(c)
    \/ CasValidated(c) \/ FindDeviations(c) \/ HeldBeforeRemoving(c) \/ RemoveFromUrn(c)
    \/ RecheckLock(c) \/ RecheckPhase(c) \/ InsertIntoUrn(c) \/ CompareUrn(c)
    \/ HeldBeforeStripping(c) \/ Strip(c) \/ CommitStrip(c) \/ CommitFails(c)
    \/ Confirm(c) \/ VerdictRead(c) \/ VerdictAsk(c)

----------------------------------------------------------------------------
(***************************************************************************)
(* Faults.                                                                 *)
(***************************************************************************)
Fault == faults < MaxFaults /\ faults' = faults + 1 /\ UNCHANGED outside

\* The lock's session ends on the server: its transaction is rolled back.
SessionEnds(c) ==
    /\ lock' = IF lock = c THEN NoCloser ELSE lock
    /\ rowLocked' = IF lock = c /\ at[c] = "commit" THEN FALSE ELSE rowLocked
    /\ UNCHANGED phase /\ KeepCasts /\ KeepVoters /\ UNCHANGED urnVars

\* A timeout, a restarted database, a broken connection.  The closing runs on.
LoseLock(c) ==
    /\ lock = c
    /\ Fault /\ SessionEnds(c)
    /\ KeepOwn /\ UNCHANGED <<at, answer>>

\* The server process dies, and the administrator hears nothing.
Crash(c) ==
    /\ at[c] \in Running
    /\ Fault /\ SessionEnds(c)
    /\ Goto(c, "over")
    /\ answer' = [answer EXCEPT ![c] = "crashed"]
    /\ KeepOwn

(***************************************************************************)
(* A statement fails, and so does nothing.  Before the stripping, and when *)
(* it rolled back, the closing settles; where it only reads to word its    *)
(* answer, it can no longer say anything.                                  *)
(***************************************************************************)
StatementFails(c) ==
    /\ Fault
    /\ \/ at[c] \in Preparing /\ Proceed(c, "abort")
       \/ at[c] = "strip" /\ StillHeld(c) /\ Proceed(c, "abort")
       \/ at[c] \in {"confirm", "abort", "finding"} /\ Reply(c, "unknown")
    /\ KeepOwn /\ UNCHANGED castVars /\ KeepVoters /\ UNCHANGED urnVars

(***************************************************************************)
(* The two writes to the urn are many statements without a transaction: a  *)
(* failure leaves some of them done.                                       *)
(***************************************************************************)
UrnWriteFails(c) ==
    /\ Fault
    /\ \/ /\ at[c] = "remove"
          /\ \E gone \in SUBSET deviations[c] : urn' = urn \ gone /\ forged' = forged \ gone
       \/ /\ at[c] = "insert"
          /\ \E some \in SUBSET (Placed(c) \ forged) : urn' = urn \cup some
          /\ UNCHANGED forged
    /\ Proceed(c, "abort")
    /\ KeepOwn /\ UNCHANGED castVars /\ KeepVoters

(***************************************************************************)
(* Writes past the application, by someone with access to one database.    *)
(* Rows the stripping has deleted or updated are locked until it commits.  *)
(***************************************************************************)
WrittenOutside == outside < MaxOutside /\ outside' = outside + 1 /\ UNCHANGED faults

OutsideEnvelope(s, row) ==
    /\ WrittenOutside
    /\ pending[s] # row
    /\ rowLocked => pending[s] = NoEnvelope
    /\ pending' = [pending EXCEPT ![s] = row]
    /\ UNCHANGED <<phase, ended, rowLocked, request, receipts>>
    /\ UNCHANGED votersDb /\ UNCHANGED urnVars /\ UNCHANGED closingVars

OutsideUrn(place) ==
    /\ WrittenOutside
    /\ \/ urn' = urn \ {place} /\ forged' = forged \ {place}
       \/ urn' = urn \ {place} /\ forged' = forged \cup {place}
       \/ urn' = urn \cup {place} /\ forged' = forged \ {place}
    /\ UNCHANGED castVars /\ UNCHANGED votersDb /\ UNCHANGED closingVars

OutsidePhase(p) ==
    /\ WrittenOutside
    /\ RowIsFree
    /\ phase' = p
    /\ UNCHANGED <<ended, pending, rowLocked, request, receipts>>
    /\ UNCHANGED votersDb /\ UNCHANGED urnVars /\ UNCHANGED closingVars

\* The tally and the certification move the phase on, each from the phase before.
PhaseMovesOn ==
    /\ RowIsFree
    /\ envelopeRoot # NoRoot
    /\ \/ phase = "STRIPPED" /\ phase' = "TALLIED"
       \/ phase = "TALLIED" /\ phase' = "CERTIFIED"
    /\ UNCHANGED <<ended, pending, rowLocked, request, receipts>>
    /\ UNCHANGED votersDb /\ UNCHANGED urnVars /\ UNCHANGED closingVars /\ KeepBounds

----------------------------------------------------------------------------
Voters == VoterNext /\ UNCHANGED <<votersDb, urnVars, closingVars, faults, outside>>

Closing(c) == Open(c) \/ CloserStep(c)

Faults(c) == LoseLock(c) \/ Crash(c) \/ StatementFails(c) \/ UrnWriteFails(c)

Outside ==
    \/ \E s \in Slots, row \in Envelope \cup {NoEnvelope} : OutsideEnvelope(s, row)
    \/ \E b \in Ballots, x \in Ciphers, k \in Copies : OutsideUrn(<<b, x, k>>)
    \/ \E p \in Phases : OutsidePhase(p)

Next ==
    \/ Voters
    \/ \E c \in Closers : Closing(c) \/ Faults(c)
    \/ PhaseMovesOn
    \/ Outside

(***************************************************************************)
(* Fairness: the server runs a call that it has begun, a vote's as well as *)
(* a closing's.  Nobody has to vote, to close or to count, and faults and  *)
(* outside writes need never happen.                                       *)
(***************************************************************************)
Fairness ==
    /\ \A r \in Requests : WF_vars(CastStep(r) /\ UNCHANGED <<votersDb, urnVars, closingVars, faults, outside>>)
    /\ \A c \in Closers : WF_vars(CloserStep(c))

Spec == Init /\ [][Next]_vars /\ Fairness

----------------------------------------------------------------------------
(***************************************************************************)
(* Safety                                                                  *)
(***************************************************************************)
\* Once the link is erased the urn holds exactly the newest envelope each
\* voter was told is recorded: none lost, none twice, none added, whatever
\* closings without a lock still write.
UrnIsTheReceipts ==
    outside = 0 /\ phase \in ClearedPhases =>
        /\ forged = {}
        /\ \A b \in Ballots, x \in Ciphers :
              Cardinality({p \in urn : p[1] = b /\ p[2] = x})
                  = Cardinality(SlotsCarrying(receipts, b, x))

\* The rows the stripping deleted are the ones that were validated, moved and
\* rooted, whoever wrote in between: the roots speak of what was deleted, and
\* each of those voters is marked as having voted.
ErasedIsWhatWasMoved ==
    envelopeRoot # NoRoot =>
        /\ Lying(erased) = Lying(envelopeRoot)
        /\ \A s \in Lying(erased) : erased[s].cipher = envelopeRoot[s].cipher
        /\ urnRoot = WithUrnIds(erased)
        /\ markers = Lying(erased)
        /\ linkCleared = {urnRoot}

\* "closed" and "already_closed" are true: the stripping has committed, and no
\* envelope is left but one written past the application.
ClosedIsTrue ==
    \A c \in Closers : answer[c] \in {"closed", "already_closed"} =>
        /\ envelopeRoot # NoRoot
        /\ outside = 0 => phase \in ClearedPhases /\ pending = NoRows

(***************************************************************************)
(* Action properties                                                       *)
(***************************************************************************)
\* "untouched", and a finding of the validation, say that the link exists. It
\* does when they are said: every row is there, and no transaction that has
\* deleted them is waiting to commit.
IntactIsTrue ==
    [][\A c \in Closers :
          answer[c] = "none" /\ answer'[c] \in {"untouched", "finding"} =>
              /\ envelopeRoot' = NoRoot
              /\ ~rowLocked'
              /\ outside' = 0 => pending' = receipts']_vars

\* What a closing's administrator is told is true.
AnswersAreTrue == []ClosedIsTrue /\ IntactIsTrue

(***************************************************************************)
(* Seen as one database and one step, with nobody writing past the         *)
(* application, this is the election that was promised.                    *)
(***************************************************************************)
Stage == IF phase = "OPEN" THEN "open"
         ELSE IF envelopeRoot = NoRoot THEN "closed" ELSE "cleared"

Promise == INSTANCE ElectionPromise WITH
    stage    <- Stage,
    recorded <- receipts,
    linked   <- Lying(pending),
    counted  <- IF Stage = "cleared" THEN urn \cup forged ELSE {},
    told     <- answer

\* The protocol over two databases, with lost locks, crashes and closings that
\* write on without a lock, implements the promise.
KeepsThePromise == Promise!Spec

(***************************************************************************)
(* Liveness                                                                *)
(***************************************************************************)
\* A closing that has removed rows from the urn after another had erased the link
\* may have removed a vote the other moved. Once the removal is done it never says
\* that all is well, as one may whose removal failed after its lock was lost.
RemovalIsAlarmed ==
    \A c \in Closers :
        at[c] = "recheck" /\ envelopeRoot # NoRoot ~> answer[c] \in {"unknown", "crashed"}

\* Every closing that begins answers: it never waits for another, and the
\* votes it waits for end.
EveryClosingAnswers == \A c \in Closers : at[c] = "opened" ~> at[c] = "over"

\* A closing that begins after closes_at, when no fault or outside write comes
\* any more, erases the link: what a crashed closing left behind is no obstacle.
ClosingRecovers ==
    \A c \in Closers :
        at[c] = "started" /\ lock = c /\ faults = MaxFaults /\ outside = 0
            ~> phase \in ClearedPhases

----------------------------------------------------------------------------
(***************************************************************************)
(* Why it is safe: the invariant the closing rests on.                     *)
(***************************************************************************)
\* The steps of a closing that found the link in place, to its commit.
Underway == {"read", "validated", "cas", "find", "insert", "compare", "mayStrip", "strip", "commit"}

\* The steps after the lock was asked once the envelopes were read.
Certain == {"cas", "find", "insert", "compare", "mayStrip", "strip", "commit"}

\* The phase and the root tell the same, and the row is locked by the one
\* closing that has stripped in a transaction that lives.
PhaseTellsTheRoot ==
    /\ phase \in LinkedPhases <=> envelopeRoot = NoRoot
    /\ phase # "OPEN" => HoldingRow = {}
    /\ rowLocked <=> \E c \in Closers : lock = c /\ at[c] = "commit"

\* The databases: the link whole and the urn filling, or the link gone and the
\* urn full.
LinkOrUrn ==
    /\ forged = {}
    /\ urn \subseteq WithUrnIds(receipts)
    /\ phase = "OPEN" => urn = {}
    /\ phase \in LinkedPhases => pending = receipts /\ markers = {}
    /\ phase \in ClearedPhases => pending = NoRows /\ urn = WithUrnIds(receipts)

\* What a closing knows. With the lock it knows that nobody else has stripped;
\* once it has asked, what it read is what the voters were told, for good.
WhatACloserKnows(c) ==
    /\ at[c] \in Underway => phase # "OPEN" /\ (lock = c => phase \in LinkedPhases)
    /\ at[c] \in {"abortAsk", "findingAsk"} /\ view[c] = "linked" /\ lock = c
          => phase \in LinkedPhases
    /\ at[c] = "validated" /\ lock = c => snapshot[c] = receipts
    /\ at[c] \in Certain => snapshot[c] = receipts
    /\ at[c] \notin {"mayRemove", "remove", "recheck", "rephase"}
    /\ at[c] \in {"mayStrip", "strip", "commit"} => urn = WithUrnIds(receipts)
    /\ at[c] = "commit" /\ lock = c => phase = "VALIDATED"
    /\ answer[c] # "none" <=> at[c] = "over"

\* As long as nobody writes past the application, all of it holds together.
ClosingIsSafe ==
    outside = 0 =>
        /\ PhaseTellsTheRoot
        /\ LinkOrUrn
        /\ \A c \in Closers : WhatACloserKnows(c)
=============================================================================
