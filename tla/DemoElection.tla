---------------------------- MODULE DemoElection ----------------------------
(***************************************************************************)
(* The life of one election across the two databases: how it is created in *)
(* both, and how the demo election is set back to OPEN while votes, a      *)
(* closing, the tally and a final check are under way.                     *)
(*                                                                         *)
(* Casting, closing and counting are drawn coarsely here, by what they     *)
(* leave in the two databases and by the lock or gate they hold; each has  *)
(* a module of its own.  Every step is one transaction against one         *)
(* database, or one synchronous block of the server's event loop.          *)
(***************************************************************************)
EXTENDS Naturals, FiniteSets

CONSTANTS
    Envelopes,   \* the envelopes that voters may leave
    Resets,      \* calls of resetDemoElection
    Closings,    \* calls of closeElection
    Counts,      \* calls of the tally: a contribution, or a count
    Checks,      \* final checks started in the background
    MaxMishaps,  \* bound on failing statements and crashes
    Absent

ASSUME DemoAssumption ==
    /\ Resets \cap Closings = {}
    /\ Absent \notin Resets \cup Closings \cup Checks
    /\ MaxMishaps \in Nat

VARIABLES
    creation,   \* how far createElection has come
    votes,      \* the votes database: the election with what hangs on it
    voters,     \* the voters database: the mirror with what hangs on it
    lock,       \* who holds the closing's lock
    reset,      \* where each reset is
    lockless,   \* who lost the lock while it ran, and ran on
    closing,    \* where each closing is
    moved,      \* the envelopes each closing has read and validated
    count,      \* where each call of the tally is
    urnRead,    \* the urn each call of the tally has summed
    job,        \* what `jobs` holds: a status, and the check it came from
    check,      \* where each check is; `active` are those that run
    forgotten,  \* the checks started before the job was last forgotten
    mishaps

demoVars == <<creation, votes, voters, lock, lockless, reset, closing, moved, count, urnRead, job,
              check, forgotten, mishaps>>

NoVotesRow  == [row |-> FALSE, key |-> FALSE, shares |-> FALSE, urn |-> {},
                contributions |-> {}, tally |-> Absent]
NoVotersRow == [row |-> FALSE, phase |-> "OPEN", envelopes |-> {}, root |-> Absent]

NoJob == [status |-> "none", of |-> Absent]

CreationStages == {"out", "key", "shares", "mirror", "undoVotes", "undoMirror", "created", "failed"}

Urns == SUBSET Envelopes

VotesRows ==
    [row : BOOLEAN, key : BOOLEAN, shares : BOOLEAN, urn : Urns,
     contributions : SUBSET Urns, tally : {Absent} \cup Urns]

VotersRows ==
    [row : BOOLEAN, phase : {"OPEN", "CLOSED", "VALIDATED", "LINK_CLEARED", "TALLIED"},
     envelopes : Urns, root : {Absent} \cup Urns]

\* A closing from its first statement under the lock to its last.
ClosingRuns == {"close", "read", "validated", "cas", "find", "leftovers", "remove", "removed",
                "again", "insert", "inserted", "compared", "strip"}

DemoTypeOK ==
    /\ creation \in CreationStages
    /\ votes \in VotesRows /\ voters \in VotersRows
    /\ lock \in Resets \cup Closings \cup {Absent}
    /\ reset \in [Resets -> {"out", "votes", "voters", "forget", "reset", "in_progress", "failed"}]
    /\ lockless \subseteq Resets \cup Closings
    /\ closing \in [Closings -> ClosingRuns \cup {"out", "ended"}]
    /\ moved \in [Closings -> Urns]
    /\ count \in [Counts -> {"out", "store", "save", "settle", "ended"}]
    /\ urnRead \in [Counts -> Urns]
    /\ job \in [status : {"none", "running", "done", "failed"}, of : Checks \cup {Absent}]
    /\ check \in [Checks -> {"out", "runs", "ended"}]
    /\ forgotten \subseteq Checks
    /\ mishaps \in 0..MaxMishaps

DemoInit ==
    /\ creation = "out"
    /\ votes = NoVotesRow /\ voters = NoVotersRow
    /\ lock = Absent /\ lockless = {}
    /\ reset = [r \in Resets |-> "out"]
    /\ closing = [c \in Closings |-> "out"]
    /\ moved = [c \in Closings |-> {}]
    /\ count = [t \in Counts |-> "out"]
    /\ urnRead = [t \in Counts |-> {}]
    /\ job = NoJob
    /\ check = [k \in Checks |-> "out"]
    /\ forgotten = {}
    /\ mishaps = 0

Mishap == mishaps < MaxMishaps /\ mishaps' = mishaps + 1

creationVars == <<creation, votes, voters>>
closingVars  == <<closing, moved>>
processVars  == <<lock, lockless, reset, closingVars, count, urnRead>>
jobVars      == <<job, check, forgotten>>

----------------------------------------------------------------------------
(***************************************************************************)
(* createElection.  What a failing step has written, and so what must be   *)
(* taken back, depends on whether its answer or its statement was lost.    *)
(***************************************************************************)
Written(stage) ==
    \/ stage = "out"    /\ votes' = [votes EXCEPT !.row = TRUE] /\ UNCHANGED voters
    \/ stage = "key"    /\ votes' = [votes EXCEPT !.key = TRUE] /\ UNCHANGED voters
    \/ stage = "shares" /\ votes' = [votes EXCEPT !.shares = TRUE] /\ UNCHANGED voters
    \/ stage = "mirror" /\ voters' = [voters EXCEPT !.row = TRUE] /\ UNCHANGED votes

StageAfter == [out |-> "key", key |-> "shares", shares |-> "mirror", mirror |-> "created"]

CreateStep ==
    /\ creation \in DOMAIN StageAfter
    /\ Written(creation)
    /\ creation' = StageAfter[creation]
    /\ UNCHANGED <<processVars, jobVars, mishaps>>

\* Flawed: when the mirror fails there is nothing to take back in it.
Undo_VotesOnly(stage) == IF stage = "out" THEN "failed" ELSE "undoVotes"

\* Without an id there is nothing to take back.
Undo(stage) ==
    CASE stage = "out"    -> "failed"
      [] stage = "mirror" -> "undoMirror"
      [] OTHER            -> "undoVotes"

CreateFails ==
    /\ creation \in DOMAIN StageAfter
    /\ Mishap
    /\ Written(creation) \/ UNCHANGED <<votes, voters>>
    /\ creation' = Undo(creation)
    /\ UNCHANGED <<processVars, jobVars>>

\* deleteElection, then removeMirroredElection after a failing mirror; an error
\* of either is swallowed.
Compensate ==
    /\ creation \in {"undoMirror", "undoVotes"}
    /\ IF creation = "undoMirror" /\ ~votes.row
           THEN voters' = NoVotersRow /\ UNCHANGED votes /\ creation' = "failed"
           ELSE /\ votes' = NoVotesRow /\ UNCHANGED voters
                /\ creation' = IF creation = "undoVotes" THEN "failed" ELSE creation
    /\ UNCHANGED <<processVars, jobVars, mishaps>>

CompensateFails ==
    /\ creation \in {"undoMirror", "undoVotes"}
    /\ Mishap
    /\ IF creation = "undoMirror" /\ votes.row
           THEN voters' = NoVotersRow ELSE UNCHANGED voters
    /\ creation' = "failed"
    /\ UNCHANGED <<votes, processVars, jobVars>>

----------------------------------------------------------------------------
(***************************************************************************)
(* What goes on in an election: casting, closing, the tally.               *)
(***************************************************************************)
Cast(e) ==
    /\ voters.row /\ votes.key /\ creation = "created"
    /\ voters.phase = "OPEN"
    /\ voters' = [voters EXCEPT !.envelopes = @ \cup {e}]
    /\ UNCHANGED <<creation, votes, processVars, jobVars, mishaps>>

\* The steps of a closing that ask or write.  Where one finds what it must not go
\* on from, StopClosing is what is left.
KeepOthers == UNCHANGED <<creation, lockless, reset, count, urnRead, jobVars, mishaps>>
GoesOn(c, step, next) == closing[c] = step /\ closing' = [closing EXCEPT ![c] = next]
Unstripped(phases) == voters.phase \in phases /\ voters.root = Absent
LeaveLock(holder) == lock' = IF lock = holder THEN Absent ELSE lock

AskClosing(c) ==
    /\ creation = "created"
    /\ \/ lock = Absent /\ lock' = c /\ GoesOn(c, "out", "close")
       \/ lock # Absent /\ GoesOn(c, "out", "ended") /\ UNCHANGED lock
    /\ KeepOthers /\ UNCHANGED <<votes, voters, moved>>

CloseVoting(c) ==
    /\ GoesOn(c, "close", "read")
    /\ Unstripped({"OPEN", "CLOSED", "VALIDATED"})
    /\ voters' = IF voters.phase = "OPEN" THEN [voters EXCEPT !.phase = "CLOSED"] ELSE voters
    /\ KeepOthers /\ UNCHANGED <<votes, lock, moved>>

ReadEnvelopes(c) ==
    /\ GoesOn(c, "read", "validated")
    /\ moved' = [moved EXCEPT ![c] = voters.envelopes]
    /\ KeepOthers /\ UNCHANGED <<votes, voters, lock>>

\* stillHeld, before the phase is written, before rows are removed and after, and
\* before the links are stripped; never before the rows are inserted.
StillHeld(c) ==
    /\ lock = c
    /\ \/ GoesOn(c, "validated", "cas") \/ GoesOn(c, "leftovers", "remove")
       \/ GoesOn(c, "removed", "again") \/ GoesOn(c, "compared", "strip")
    /\ KeepOthers /\ UNCHANGED <<votes, voters, lock, moved>>

CasValidated(c) ==
    /\ GoesOn(c, "cas", "find")
    /\ Unstripped({"CLOSED", "VALIDATED"})
    /\ voters' = [voters EXCEPT !.phase = "VALIDATED"]
    /\ KeepOthers /\ UNCHANGED <<votes, lock, moved>>

FindLeftovers(c) ==
    /\ GoesOn(c, "find", IF votes.urn \subseteq moved[c] THEN "insert" ELSE "leftovers")
    /\ KeepOthers /\ UNCHANGED <<votes, voters, lock, moved>>

\* By the ids that were found; others may have removed some since.
RemoveLeftovers(c) ==
    /\ \E gone \in SUBSET (votes.urn \ moved[c]) :
           /\ votes' = [votes EXCEPT !.urn = @ \ gone]
           /\ GoesOn(c, "remove", IF gone = {} THEN "insert" ELSE "removed")
    /\ KeepOthers /\ UNCHANGED <<voters, lock, moved>>

StillValidated(c) ==
    /\ GoesOn(c, "again", "insert")
    /\ Unstripped({"VALIDATED"})
    /\ KeepOthers /\ UNCHANGED <<votes, voters, lock, moved>>

MoveToUrn(c) ==
    /\ GoesOn(c, "insert", "inserted")
    /\ votes' = [votes EXCEPT !.urn = @ \cup moved[c]]
    /\ KeepOthers /\ UNCHANGED <<voters, lock, moved>>

CompareUrn(c) ==
    /\ GoesOn(c, "inserted", "compared")
    /\ votes.urn = moved[c]
    /\ KeepOthers /\ UNCHANGED <<votes, voters, lock, moved>>

\* In the lock's own transaction: without the lock there is nothing to commit.
StripEnvelopes(c) ==
    /\ GoesOn(c, "strip", "ended")
    /\ lock = c /\ lock' = Absent
    /\ Unstripped({"VALIDATED"}) /\ voters.envelopes = moved[c]
    /\ voters' = [voters EXCEPT !.phase = "LINK_CLEARED", !.envelopes = {}, !.root = moved[c]]
    /\ KeepOthers /\ UNCHANGED <<votes, moved>>

\* The validation, a lock that is gone, a phase or an urn that is another by now, a
\* failing statement: the closing answers, and its lock's transaction ends.
StopClosing(c) ==
    /\ closing[c] \in ClosingRuns
    /\ GoesOn(c, closing[c], "ended")
    /\ LeaveLock(c)
    /\ KeepOthers /\ UNCHANGED <<votes, voters, moved>>

ClosingStep(c) ==
    \/ AskClosing(c) \/ CloseVoting(c) \/ ReadEnvelopes(c) \/ StillHeld(c) \/ CasValidated(c)
    \/ FindLeftovers(c) \/ RemoveLeftovers(c) \/ StillValidated(c) \/ MoveToUrn(c)
    \/ CompareUrn(c) \/ StripEnvelopes(c) \/ StopClosing(c)

\* tallyGate and requireUrnRoot: nothing is opened over an urn with another root.
PassGate(t) ==
    /\ count[t] = "out"
    /\ voters.phase \in {"LINK_CLEARED", "TALLIED"}
    /\ voters.root = votes.urn
    /\ urnRead' = [urnRead EXCEPT ![t] = votes.urn]
    /\ \E next \in {"store", "save"} : count' = [count EXCEPT ![t] = next]
    /\ UNCHANGED <<creation, votes, voters, lock, lockless, reset, closingVars, jobVars, mishaps>>

\* Nothing asks for the phase again once the gate is passed.
StoreContribution(t) ==
    /\ count[t] = "store"
    /\ votes' = [votes EXCEPT !.contributions = @ \cup {urnRead[t]}]
    /\ count' = [count EXCEPT ![t] = "ended"]
    /\ UNCHANGED <<creation, voters, lock, lockless, reset, closingVars, urnRead, jobVars, mishaps>>

SaveCounters(t) ==
    /\ count[t] = "save"
    /\ \/ /\ votes.tally = Absent /\ urnRead[t] \in votes.contributions
          /\ votes' = [votes EXCEPT !.tally = urnRead[t]]
          /\ count' = [count EXCEPT ![t] = "settle"]
       \/ /\ votes.tally = urnRead[t] /\ count' = [count EXCEPT ![t] = "settle"]
          /\ UNCHANGED votes
       \/ count' = [count EXCEPT ![t] = "ended"] /\ UNCHANGED votes
    /\ UNCHANGED <<creation, voters, lock, lockless, reset, closingVars, urnRead, jobVars, mishaps>>

\* The phase moves on by compare-and-set from LINK_CLEARED.
SettlePhase(t) ==
    /\ count[t] = "settle"
    /\ voters' = IF voters.phase = "LINK_CLEARED" THEN [voters EXCEPT !.phase = "TALLIED"] ELSE voters
    /\ count' = [count EXCEPT ![t] = "ended"]
    /\ UNCHANGED <<creation, votes, lock, lockless, reset, closingVars, urnRead, jobVars, mishaps>>

----------------------------------------------------------------------------
(***************************************************************************)
(* resetDemoElection, of an election that is the demo election by its name *)
(* and by its mode in both databases.                                      *)
(***************************************************************************)
\* Flawed: the reset does not ask for the closing's lock.
TakesLock_Not(r) == UNCHANGED lock

\* withClosingLock does not wait.
TakesLock(r) == lock = Absent /\ lock' = r

AskReset(r) ==
    /\ reset[r] = "out"
    /\ creation = "created"
    /\ \/ TakesLock(r) /\ reset' = [reset EXCEPT ![r] = "votes"]
       \/ lock # Absent /\ reset' = [reset EXCEPT ![r] = "in_progress"] /\ UNCHANGED lock
    /\ UNCHANGED <<creation, votes, voters, lockless, closingVars, count, urnRead, jobVars, mishaps>>

EmptyUrn ==
    /\ votes' = [votes EXCEPT !.urn = {}, !.contributions = {}, !.tally = Absent]
    /\ UNCHANGED voters

BackToOpen == voters' = [NoVotersRow EXCEPT !.row = TRUE] /\ UNCHANGED votes

\* Flawed: the phase goes back to OPEN before the urn is emptied.
Clears_VotersFirst(stage) == IF stage = "votes" THEN BackToOpen ELSE EmptyUrn

\* The votes database first, the voters database then.
Clears(stage) == IF stage = "votes" THEN EmptyUrn ELSE BackToOpen

\* Neither transaction asks stillHeld: a reset that lost the lock runs on.
ClearVotes(r) ==
    /\ reset[r] = "votes"
    /\ Clears("votes")
    /\ reset' = [reset EXCEPT ![r] = "voters"]
    /\ UNCHANGED <<creation, lock, lockless, closingVars, count, urnRead, jobVars, mishaps>>

\* The lock goes with the second transaction.
ClearVoters(r) ==
    /\ reset[r] = "voters"
    /\ Clears("voters")
    /\ reset' = [reset EXCEPT ![r] = "forget"]
    /\ LeaveLock(r)
    /\ UNCHANGED <<creation, lockless, closingVars, count, urnRead, jobVars, mishaps>>

\* forgetFinalCheck: the report is of an urn that is no more.
ForgetFinalCheck(r) ==
    /\ reset[r] = "forget"
    /\ reset' = [reset EXCEPT ![r] = "reset"]
    /\ job' = NoJob
    /\ forgotten' = {k \in Checks : check[k] # "out"}
    /\ UNCHANGED <<creation, votes, voters, lock, lockless, closingVars, count, urnRead, check, mishaps>>

ResetStep(r) == ClearVotes(r) \/ ClearVoters(r) \/ ForgetFinalCheck(r)

\* A statement fails: the route answers with an error, the lock is released.
ResetFails(r) ==
    /\ reset[r] \in {"votes", "voters"}
    /\ Mishap
    /\ reset' = [reset EXCEPT ![r] = "failed"]
    /\ LeaveLock(r)
    /\ UNCHANGED <<creation, votes, voters, lockless, closingVars, count, urnRead, jobVars>>

----------------------------------------------------------------------------
(***************************************************************************)
(* The final check in the background, in the memory of the process.        *)
(***************************************************************************)
\* `active`: checks that run, those whose job is forgotten too.
Active == {k \in Checks : check[k] = "runs"}

\* Flawed: what `jobs` says is asked, and not what still runs.
IsRunning_JobOnly == job.status = "running"

IsRunning == Active # {} \/ job.status = "running"

StartFinalCheck(k) ==
    /\ check[k] = "out"
    /\ creation = "created"
    /\ ~IsRunning
    /\ check' = [check EXCEPT ![k] = "runs"]
    /\ job' = [status |-> "running", of |-> k]
    /\ UNCHANGED <<creationVars, processVars, forgotten, mishaps>>

\* Flawed: whatever `jobs` holds, the report is written.
IsStillTheJob_NotAsked(k) == TRUE

\* jobs.get(electionId) is the object this check put there.
IsStillTheJob(k) == job.of = k

FinalCheckEnds(k) ==
    /\ check[k] = "runs"
    /\ check' = [check EXCEPT ![k] = "ended"]
    /\ \/ /\ IsStillTheJob(k)
          /\ \E status \in {"done", "failed"} : job' = [status |-> status, of |-> k]
       \/ ~IsStillTheJob(k) /\ UNCHANGED job
    /\ UNCHANGED <<creationVars, processVars, forgotten, mishaps>>

----------------------------------------------------------------------------
\* The lock's connection breaks, and its holder runs on in other connections.
LoseLock ==
    /\ lock # Absent
    /\ Mishap
    /\ lock' = Absent /\ lockless' = lockless \cup {lock}
    /\ UNCHANGED <<creationVars, reset, closingVars, count, urnRead, jobVars>>

\* The process ends: what ran is gone, the lock too, and the map of jobs.
ServerCrash ==
    /\ Mishap
    /\ creation' = IF creation \in {"created", "out"} THEN creation ELSE "failed"
    /\ lock' = Absent
    /\ reset' = [r \in Resets |-> IF reset[r] \in {"votes", "voters", "forget"} THEN "failed" ELSE reset[r]]
    /\ closing' = [c \in Closings |-> IF closing[c] = "out" THEN "out" ELSE "ended"]
    /\ count' = [t \in Counts |-> IF count[t] = "out" THEN "out" ELSE "ended"]
    /\ check' = [k \in Checks |-> IF check[k] = "out" THEN "out" ELSE "ended"]
    /\ job' = NoJob
    /\ UNCHANGED <<votes, voters, lockless, moved, urnRead, forgotten>>

DemoNext ==
    \/ CreateStep \/ CreateFails \/ Compensate \/ CompensateFails
    \/ \E e \in Envelopes : Cast(e)
    \/ \E c \in Closings : ClosingStep(c)
    \/ \E t \in Counts : PassGate(t) \/ StoreContribution(t) \/ SaveCounters(t) \/ SettlePhase(t)
    \/ \E r \in Resets : AskReset(r) \/ ResetStep(r) \/ ResetFails(r)
    \/ \E k \in Checks : StartFinalCheck(k) \/ FinalCheckEnds(k)
    \/ LoseLock \/ ServerCrash

DemoSpec == DemoInit /\ [][DemoNext]_demoVars

----------------------------------------------------------------------------
(***************************************************************************)
(* Properties                                                              *)
(***************************************************************************)
\* The phase never stands in OPEN over an urn with votes in it, wherever a reset
\* breaks off between the databases and whatever closing runs beside it, as long as
\* nobody has lost the lock and run on: a reset never asks for it again, and a
\* closing not before it inserts.
OpenUrnIsEmpty == voters.phase = "OPEN" /\ lockless = {} => votes.urn = {}

\* A report of a check that began before the election was reset is never shown
\* after it, however late the check ends.
ReportIsOfThisElection == job.of \notin forgotten

\* Two checks of one election never run at once, a forgotten one counted.
OneCheckAtATime == Cardinality(Active) <= 1

\* A voter that can see the election in the voters database can vote in it, and
\* the trustees can open it; and one that could not be created is not there to
\* be seen: after one fault at most, with nothing left to take back.
SeenIsWhole ==
    mishaps <= 1 /\ creation \in {"created", "failed"} =>
        voters.row <=> creation = "created" /\ votes.row /\ votes.key /\ votes.shares

\* What holds of an election that is created, reset, counted and checked meanwhile.
DemoHolds ==
    DemoTypeOK /\ OpenUrnIsEmpty /\ ReportIsOfThisElection /\ OneCheckAtATime /\ SeenIsWhole
=============================================================================
