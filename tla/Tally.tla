------------------------------- MODULE Tally -------------------------------
(***************************************************************************)
(* The tally: trustees contribute to the sum of each ballot, a ballot with *)
(* enough contributions is counted, and the election is TALLIED when every *)
(* ballot is.                                                              *)
(*                                                                         *)
(* Contributions and counters are in the votes database, the phase and the *)
(* audit posts in the voters database.  A write of the first waits inside  *)
(* its transaction for the post in the second, so that there may be a post *)
(* too many but never one too few.                                         *)
(*                                                                         *)
(* Sums and counts are values over the urn: of a ballot's rows it matters  *)
(* only whether they are the ones the closing moved.                       *)
(***************************************************************************)
EXTENDS Naturals, FiniteSets

CONSTANTS
    Ballots,        \* the election's ballots, as the voters database lists them
    Trustees,       \* who has a share of the key
    Threshold,      \* TRUSTEE_THRESHOLD
    Calls,          \* calls of the tally in flight at the same time
    None,           \* nothing stored
    MaxFaults,      \* bound on calls that fail or die on the way
    MaxOutside      \* bound on writes past the application

ASSUME TallyAssumption ==
    /\ IsFiniteSet(Trustees) /\ IsFiniteSet(Ballots)
    /\ Ballots # {}
    /\ Threshold \in Nat \ {0}
    /\ None \notin {"moved", "other", "disguised"}
    /\ MaxFaults \in Nat /\ MaxOutside \in Nat

VARIABLES
    \* the voters database
    phase,          \* election.phase, from VALIDATED
    rooted,         \* both roots are written and no envelope is left
    partialPosts,   \* posts PARTIAL_DECRYPTION_RECORDED, per ballot and trustee
    tallyPosts,     \* posts BALLOT_TALLIED, per ballot
    talliedPosts,   \* posts ELECTION_TALLIED
    \* the votes database
    urn,            \* per ballot, what its rows are
    partials,       \* per ballot and trustee, the sum the contribution decrypts
    counters,       \* per ballot, what the counters count
    completedAt,    \* election.tally_completed_at is written
    \* the calls
    call,           \* per call, where it is and what it read
    \* bounds
    faults, outside

posts      == <<partialPosts, tallyPosts, talliedPosts>>
votesDb    == <<urn, partials, counters, completedAt>>
tallyVars  == <<phase, rooted, posts, votesDb, call, faults, outside>>

\* What a ballot's rows are: those the closing moved, others, or others under the
\* hashes of those that were moved.
Contents == {"moved", "other", "disguised"}
Stored   == Contents \cup {None}
Phases   == {"VALIDATED", "STRIPPED", "TALLIED", "CERTIFIED"}

Read == [Trustees -> Stored]

Idle == [at |-> "idle"]

\* A contribution on its way, before and after the sum of the urn is read.
Approaching ==
    [at : {"gate", "before", "sum"},
     ballot : Ballots, trustee : Trustees, sum : {None}]

Contributing ==
    [at : {"root", "unlock", "store", "post", "latePost", "commit"},
     ballot : Ballots, trustee : Trustees, sum : Contents]

\* A count on its way: the counters it found, the contributions it read, and the
\* ballots it found counted.
Gathering ==
    [at : {"countGate", "stored", "read", "countSum"},
     ballot : Ballots, found : Stored, given : Read, sum : {None}, seen : {{}}]

Counting ==
    [at : {"count", "save", "countPost", "lateCountPost", "countCommit"},
     ballot : Ballots, found : Stored, given : Read, sum : Contents, seen : {{}}]

Settling ==
    [at : {"settle", "stamp", "cas"},
     ballot : Ballots, found : Stored, given : Read, sum : Contents, seen : SUBSET Ballots]

Places == {Idle} \cup Approaching \cup Contributing \cup Gathering \cup Counting \cup Settling

TypeOK ==
    /\ phase \in Phases
    /\ rooted \in BOOLEAN
    /\ partialPosts \in [Ballots -> [Trustees -> Nat]]
    /\ tallyPosts \in [Ballots -> Nat]
    /\ talliedPosts \in Nat
    /\ urn \in [Ballots -> Contents]
    /\ partials \in [Ballots -> Read]
    /\ counters \in [Ballots -> Stored]
    /\ completedAt \in BOOLEAN
    /\ call \in [Calls -> Places]
    /\ faults \in 0..MaxFaults
    /\ outside \in 0..MaxOutside

Init ==
    /\ phase = "VALIDATED" /\ rooted = FALSE
    /\ partialPosts = [b \in Ballots |-> [t \in Trustees |-> 0]]
    /\ tallyPosts = [b \in Ballots |-> 0]
    /\ talliedPosts = 0
    /\ urn = [b \in Ballots |-> "moved"]
    /\ partials = [b \in Ballots |-> [t \in Trustees |-> None]]
    /\ counters = [b \in Ballots |-> None]
    /\ completedAt = FALSE
    /\ call = [c \in Calls |-> Idle]
    /\ faults = 0 /\ outside = 0

----------------------------------------------------------------------------
Goto(c, step) == call' = [call EXCEPT ![c].at = step]
Ends(c)       == call' = [call EXCEPT ![c] = Idle]
Bounds        == <<faults, outside>>
NoWrite       == UNCHANGED <<phase, rooted, posts, votesDb, Bounds>>

At(c, step) == call[c].at = step

\* Flawed: the phase is believed without the root.
GateIsOpen_WithoutRoot == phase = "STRIPPED"

\* tallyGate: the phase, both roots, and no envelope left.
GateIsOpen == phase = "STRIPPED" /\ rooted

\* The gate of a contribution and of a count. It is asked once, and first.
Gate(c, step, next) ==
    /\ At(c, step)
    /\ IF GateIsOpen THEN Goto(c, next) ELSE Ends(c)
    /\ NoWrite

\* The sum over the ballot's rows, from one read of them.
SumOfUrn(c, step, next) ==
    /\ At(c, step)
    /\ call' = [call EXCEPT ![c].at = next, ![c].sum = urn[call[c].ballot]]
    /\ NoWrite

\* requireUrnRoot: the root over the rows just summed, by their ciphertexts, and
\* over the other ballots' rows, by the hashes that are stored with them.
HasUrnRoot(c) ==
    /\ call[c].sum = "moved"
    /\ \A b \in Ballots \ {call[c].ballot} : urn[b] # "other"

----------------------------------------------------------------------------
(***************************************************************************)
(* A contribution: submitPartialDecryption.                                *)
(***************************************************************************)
BeginContribution(c, b, t) ==
    /\ call[c] = Idle
    /\ call' = [call EXCEPT ![c] = [at |-> "gate", ballot |-> b, trustee |-> t, sum |-> None]]
    /\ NoWrite

HasContributed(c) ==
    /\ At(c, "before")
    /\ IF partials[call[c].ballot][call[c].trustee] # None THEN Ends(c) ELSE Goto(c, "sum")
    /\ NoWrite

RootOfContribution(c) ==
    /\ At(c, "root")
    /\ IF HasUrnRoot(c) THEN Goto(c, "unlock") ELSE Ends(c)
    /\ NoWrite

\* The phrase unlocks the share and the contribution holds, or nothing comes of it.
UnlockShare(c) ==
    /\ At(c, "unlock")
    /\ Goto(c, "store") \/ Ends(c)
    /\ NoWrite

\* The contributions that are inserted and not yet committed.
Inserted(b, t) ==
    {d \in Calls : call[d].at \in {"post", "commit"} /\ call[d].ballot = b /\ call[d].trustee = t}

(***************************************************************************)
(* createMany in the votes database's transaction.  The unique index waits *)
(* for an insertion that has not committed and refuses after one that has. *)
(***************************************************************************)
StoreContribution(c) ==
    LET b == call[c].ballot
        t == call[c].trustee
    IN /\ At(c, "store")
       /\ Inserted(b, t) = {}
       /\ IF partials[b][t] # None THEN Ends(c) ELSE Goto(c, "post")
       /\ NoWrite

\* The post, in a transaction of its own that commits inside the other, or after
\* the other has timed out.
PostContribution(c) ==
    /\ \/ At(c, "post") /\ Goto(c, "commit")
       \/ At(c, "latePost") /\ Ends(c)
    /\ partialPosts' = [partialPosts EXCEPT ![call[c].ballot][call[c].trustee] = @ + 1]
    /\ UNCHANGED <<phase, rooted, tallyPosts, talliedPosts, votesDb, Bounds>>

\* What the commit of a contribution makes visible.
ContributionOf(c) ==
    partials' = [partials EXCEPT ![call[c].ballot][call[c].trustee] = call[c].sum]

CommitContribution(c) ==
    /\ At(c, "commit")
    /\ ContributionOf(c)
    /\ Ends(c)
    /\ UNCHANGED <<phase, rooted, posts, urn, counters, completedAt, Bounds>>

Contributes(c) ==
    \/ Gate(c, "gate", "before") \/ HasContributed(c)
    \/ SumOfUrn(c, "sum", "root") \/ RootOfContribution(c) \/ UnlockShare(c)
    \/ StoreContribution(c) \/ PostContribution(c) \/ CommitContribution(c)

----------------------------------------------------------------------------
(***************************************************************************)
(* A count: completeTally, saveTally, settleElectionPhase.                 *)
(***************************************************************************)
NothingRead == [t \in Trustees |-> None]

BeginCount(c, b) ==
    /\ call[c] = Idle
    /\ call' = [call EXCEPT ![c] =
           [at |-> "countGate", ballot |-> b, found |-> None, given |-> NothingRead,
            sum |-> None, seen |-> {}]]
    /\ NoWrite

StoredTally(c) ==
    /\ At(c, "stored")
    /\ call' = [call EXCEPT ![c].at = "read", ![c].found = counters[call[c].ballot]]
    /\ NoWrite

GivenBy(given) == {t \in Trustees : given[t] # None}

StoredContributions(c) ==
    LET given == partials[call[c].ballot]
    IN /\ At(c, "read")
       /\ IF Cardinality(GivenBy(given)) < Threshold
          THEN Ends(c)
          ELSE call' = [call EXCEPT ![c].at = "countSum", ![c].given = given]
       /\ NoWrite

\* Every contribution that was read belongs to the sum that was read.
BelongToSum(c) == \A t \in GivenBy(call[c].given) : call[c].given[t] = call[c].sum

\* Flawed: a stored contribution was verified when it was stored.
Verified_NotAsked(c) == TRUE

\* Each contribution's proof, over the sum, holds for those that belong to it.
Verified(c) == BelongToSum(c)

\* combine and discreteLog: contributions to another sum open nothing of this one.
Combined(c) == IF BelongToSum(c) THEN call[c].sum ELSE "other"

\* Flawed: an election's phase is settled by the call that saved, and no other.
FoundCounters_EndsThere(c) == Ends(c)

\* The counters were there, and are what was counted again: only the phase is left.
FoundCounters(c) == IF call[c].found = Combined(c) THEN Goto(c, "settle") ELSE Ends(c)

(***************************************************************************)
(* The root is asked, each contribution verified, and the counts combined  *)
(* from what was read.  Counters found at the beginning must be the same.  *)
(***************************************************************************)
CountFromContributions(c) ==
    /\ At(c, "count")
    /\ \/ ~(HasUrnRoot(c) /\ Verified(c)) /\ Ends(c)
       \/ HasUrnRoot(c) /\ Verified(c) /\ call[c].found # None /\ FoundCounters(c)
       \/ HasUrnRoot(c) /\ Verified(c) /\ call[c].found = None /\ Goto(c, "save")
    /\ NoWrite

\* The transactions that hold the ballot's lock.
Saving(b) == {d \in Calls : call[d].at \in {"countPost", "countCommit"} /\ call[d].ballot = b}

\* Flawed: the ballot is not locked.
SaveTally_WithoutLock(c) ==
    LET b == call[c].ballot
    IN /\ At(c, "save")
       /\ \/ counters[b] = None /\ Goto(c, "countPost")
          \/ counters[b] = Combined(c) /\ Goto(c, "settle")
          \/ counters[b] \notin {None, Combined(c)} /\ Ends(c)
       /\ NoWrite

(***************************************************************************)
(* saveTally, under the ballot's lock.  Who comes second finds the         *)
(* counters saved, and they must be its own.                               *)
(***************************************************************************)
SaveTally(c) ==
    LET b == call[c].ballot
    IN /\ At(c, "save")
       /\ Saving(b) = {}
       /\ \/ counters[b] = None /\ Goto(c, "countPost")
          \/ counters[b] = Combined(c) /\ Goto(c, "settle")
          \/ counters[b] \notin {None, Combined(c)} /\ Ends(c)
       /\ NoWrite

CountersOf(c) == counters' = [counters EXCEPT ![call[c].ballot] = Combined(c)]

\* Flawed: the counters are visible before their post is written.
PostTally_AfterTheCommit(c) ==
    /\ At(c, "countPost")
    /\ CountersOf(c)
    /\ Goto(c, "countCommit")
    /\ UNCHANGED <<phase, rooted, posts, urn, partials, completedAt, Bounds>>

PostTally(c) ==
    /\ \/ At(c, "countPost") /\ Goto(c, "countCommit")
       \/ At(c, "lateCountPost") /\ Ends(c)
    /\ tallyPosts' = [tallyPosts EXCEPT ![call[c].ballot] = @ + 1]
    /\ UNCHANGED <<phase, rooted, partialPosts, talliedPosts, votesDb, Bounds>>

\* Flawed: the ballot that is listed last settles the phase.
CommitTally_SettlesWithTheLast(c) ==
    /\ At(c, "countCommit")
    /\ CountersOf(c)
    /\ IF call[c].ballot = CHOOSE b \in Ballots : TRUE THEN Goto(c, "settle") ELSE Ends(c)
    /\ UNCHANGED <<phase, rooted, posts, urn, partials, completedAt, Bounds>>

CommitTally(c) ==
    /\ At(c, "countCommit")
    /\ CountersOf(c)
    /\ Goto(c, "settle")
    /\ UNCHANGED <<phase, rooted, posts, urn, partials, completedAt, Bounds>>

\* Is the next ballot counted? The first that is not leaves the phase as it is.
SettleReads(c, b) ==
    /\ At(c, "settle")
    /\ b \notin call[c].seen
    /\ IF counters[b] = None
       THEN Ends(c)
       ELSE call' = [call EXCEPT ![c].seen = @ \cup {b},
                                 ![c].at = IF call[c].seen \cup {b} = Ballots THEN "stamp" ELSE "settle"]
    /\ NoWrite

StampCompletion(c) ==
    /\ At(c, "stamp")
    /\ completedAt' = TRUE
    /\ Goto(c, "cas")
    /\ UNCHANGED <<phase, rooted, posts, urn, partials, counters, Bounds>>

\* Flawed: a plain write of the phase.
CasTallied_NoCompare(c) ==
    /\ At(c, "cas")
    /\ phase' = "TALLIED" /\ talliedPosts' = talliedPosts + 1
    /\ Ends(c)
    /\ UNCHANGED <<rooted, partialPosts, tallyPosts, votesDb, Bounds>>

\* STRIPPED to TALLIED and its post, in one transaction of one database.
CasTallied(c) ==
    /\ At(c, "cas")
    /\ IF phase = "STRIPPED" /\ rooted
       THEN phase' = "TALLIED" /\ talliedPosts' = talliedPosts + 1
       ELSE UNCHANGED <<phase, talliedPosts>>
    /\ Ends(c)
    /\ UNCHANGED <<rooted, partialPosts, tallyPosts, votesDb, Bounds>>

Counts(c) ==
    \/ Gate(c, "countGate", "stored") \/ StoredTally(c) \/ StoredContributions(c)
    \/ SumOfUrn(c, "countSum", "count") \/ CountFromContributions(c)
    \/ SaveTally(c) \/ PostTally(c) \/ CommitTally(c)
    \/ \E b \in Ballots : SettleReads(c, b)
    \/ StampCompletion(c) \/ CasTallied(c)

----------------------------------------------------------------------------
(***************************************************************************)
(* Faults and the world around.                                            *)
(***************************************************************************)
Fault == faults < MaxFaults /\ faults' = faults + 1 /\ UNCHANGED outside

\* A statement fails, a transaction times out or the process dies: what was not
\* committed is gone, and what was, as the post, is not.
CallFails(c) ==
    /\ call[c] # Idle
    /\ Fault
    /\ Ends(c)
    /\ UNCHANGED <<phase, rooted, posts, votesDb>>

\* The transaction in the votes database times out and is rolled back while the
\* post is being written: what it waited for goes on, and the post is written.
TransactionTimesOut(c) ==
    /\ Fault
    /\ \/ At(c, "post") /\ Goto(c, "latePost")
       \/ At(c, "countPost") /\ Goto(c, "lateCountPost")
    /\ UNCHANGED <<phase, rooted, posts, votesDb>>

\* The commit is made, and its acknowledgement is lost.
AcknowledgementLost(c) ==
    /\ Fault
    /\ \/ At(c, "commit") /\ ContributionOf(c) /\ UNCHANGED counters
       \/ At(c, "countCommit") /\ CountersOf(c) /\ UNCHANGED partials
    /\ Ends(c)
    /\ UNCHANGED <<phase, rooted, posts, urn, completedAt>>

\* The closing's transaction: the phase and the roots, and the link gone.
Strips ==
    /\ phase = "VALIDATED" /\ ~rooted
    /\ phase' = "STRIPPED" /\ rooted' = TRUE
    /\ UNCHANGED <<posts, votesDb, call, Bounds>>

\* The certification's write of the phase.
Certifies ==
    /\ phase = "TALLIED" /\ rooted
    /\ phase' = "CERTIFIED"
    /\ UNCHANGED <<rooted, posts, votesDb, call, Bounds>>

\* Somebody changes a ballot's rows, a contribution or a ballot's counters, or
\* sets the phase.  A row that is being inserted makes the writer wait.
WrittenOutside == outside < MaxOutside /\ outside' = outside + 1 /\ UNCHANGED faults

OutsideVotes ==
    /\ WrittenOutside
    /\ \E b \in Ballots :
          \/ \E v \in {"other", "disguised"} :
                urn' = [urn EXCEPT ![b] = v] /\ UNCHANGED <<partials, counters>>
          \/ \E t \in Trustees, v \in {"other", None} :
                Inserted(b, t) = {} /\ partials' = [partials EXCEPT ![b][t] = v] /\ UNCHANGED <<urn, counters>>
          \/ \E v \in {"other", None} :
                Saving(b) = {} /\ counters' = [counters EXCEPT ![b] = v] /\ UNCHANGED <<urn, partials>>
    /\ UNCHANGED <<phase, rooted, posts, completedAt, call>>

OutsidePhase ==
    /\ WrittenOutside
    /\ phase' \in Phases \ {phase}
    /\ UNCHANGED <<rooted, posts, votesDb, call>>

CallNext ==
    \E c \in Calls :
        \/ Contributes(c) \/ Counts(c) \/ CallFails(c) \/ TransactionTimesOut(c)
        \/ AcknowledgementLost(c)
        \/ \E b \in Ballots : BeginCount(c, b) \/ \E t \in Trustees : BeginContribution(c, b, t)

Next == CallNext \/ Strips \/ Certifies \/ OutsideVotes \/ OutsidePhase

(***************************************************************************)
(* Fairness: a call that has begun is run to its end.  Nobody has to       *)
(* contribute, count or certify.                                           *)
(***************************************************************************)
Fairness == \A c \in Calls : WF_tallyVars(Contributes(c) \/ Counts(c))

Spec == Init /\ [][Next]_tallyVars /\ Fairness

----------------------------------------------------------------------------
(***************************************************************************)
(* Properties                                                              *)
(***************************************************************************)
\* Every contribution and every ballot's counters have a post in the audit chain,
\* whatever failed between the two commits.
EveryRowIsPosted ==
    outside = 0 =>
        \A b \in Ballots :
            /\ counters[b] # None => tallyPosts[b] > 0
            /\ \A t \in Trustees : partials[b][t] # None => partialPosts[b][t] > 0

\* A post too many is a call that failed after it was written: calls that run at
\* once write one between them, and the election's phase has exactly one.
PostsAreAccountedFor ==
    outside = 0 =>
        /\ \A b \in Ballots :
              /\ tallyPosts[b] <= faults + 1
              /\ \A t \in Trustees : partialPosts[b][t] <= faults + 1
        /\ talliedPosts = IF phase \in {"TALLIED", "CERTIFIED"} THEN 1 ELSE 0

\* Of counts that end at the same time at least the last sees that every ballot
\* is counted: while the phase is still STRIPPED somebody is about to move it.
TheLastSettles ==
    outside = 0 /\ faults = 0 /\ phase = "STRIPPED" /\ (\A b \in Ballots : counters[b] # None)
        => \E c \in Calls : call[c].at \in {"settle", "stamp", "cas"}

\* The tally ends once, and ends.
TallyIsSettled == PostsAreAccountedFor /\ TheLastSettles

\* A trustee's share is only ever used on the sum of the rows the closing moved,
\* and never before the link is erased, whatever somebody writes to the votes
\* database or makes of the phase.
OpensTheMovedSum ==
    outside' = outside =>
        \A b \in DOMAIN partials : \A t \in DOMAIN partials[b] :
            partials'[b][t] # partials[b][t]
                => rooted /\ partials'[b][t] = "moved"

OnlyTheMovedSumIsOpened == [][OpensTheMovedSum]_tallyVars

\* Counters are saved once, are never overwritten, and count the rows the
\* closing moved: a result that disagrees with the urn is never written.
CountsTheMovedVotes ==
    outside' = outside =>
        \A b \in DOMAIN counters : counters'[b] # counters[b]
            => counters[b] = None /\ counters'[b] = "moved"

CountersAreTheMovedVotes == [][CountsTheMovedVotes]_tallyVars

\* The two databases, their nested transactions and calls that fail between the
\* two commits, implement the promise of counting.
Promise == INSTANCE CountingPromise WITH
    contributed <- [b \in Ballots |-> GivenBy(partials[b])],
    counted     <- {b \in Ballots : counters[b] # None}

KeepsThePromise == Promise!Spec

\* A count that begins when every ballot is counted moves the phase, also when
\* the counts before it died before they could.
TallyRecovers ==
    \A c \in Calls :
        /\ call[c].at = "countGate" /\ phase = "STRIPPED" /\ rooted
        /\ \A b \in Ballots : counters[b] # None
        /\ faults = MaxFaults /\ outside = 0
        ~> phase \in {"TALLIED", "CERTIFIED"}

\* An election that is TALLIED takes no more contributions.
NoContributionOnceTallied ==
    [][(phase \in {"TALLIED", "CERTIFIED"}) => partials' = partials]_tallyVars
=============================================================================
