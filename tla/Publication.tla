----------------------------- MODULE Publication -----------------------------
(***************************************************************************)
(* The result that is published: recounted ballot by ballot from the urn   *)
(* and the contributions, in reads one after the other over two databases, *)
(* while the election goes on and somebody writes past the application;    *)
(* and the tool with which anyone checks it, over a document that may have *)
(* been changed on its way.                                                *)
(*                                                                         *)
(* Votes are counts per option, and a sum is of ciphertexts: votes under a *)
(* key.  A contribution is made with a share of a key, for a sum and on    *)
(* the ballot it is bound to, and opens a sum that is under its key.       *)
(* Trustees, counts and the phases before are drawn coarsely; Tally has    *)
(* them.                                                                   *)
(***************************************************************************)
EXTENDS Integers, FiniteSets, Sequences, SequencesExt

CONSTANTS
    BallotCount, TrusteeCount, Threshold, Unread,
    Sums,          \* what the votes on a ballot may add up to, an option each
    MovedVotes,    \* what the closing moved, by ballot
    MaxOutside,    \* bound on writes past the application
    MaxAltered     \* bound on changes of the published document

VARIABLES
    votersDb,      \* the voters database: the mode, phase, root, envelopes, markers
    votesDb,       \* the votes database: key, shares, urn, contributions, counters
    reading,       \* the call of publishedResults, and what it has read
    document,      \* the ballots it has recounted, and the rest of what it answers
    turnout,       \* a call of turnoutByBallot, and what it was told
    meddled,       \* where somebody has written past the application
    altered        \* how often the published document was changed

publicationVars == <<votersDb, votesDb, reading, document, turnout, meddled, altered>>

\* The ballots, by their place in the document.
Numbered == 1..BallotCount
Trustees == 1..TrusteeCount

Made == {"own", "other"}

\* Votes under a key: the election's own, or one that somebody else has made.
Sealed(counts, key) == [votes |-> counts, under |-> key]
AnySum == [votes : Sums, under : Made]
MovedSums == [b \in Numbered |-> Sealed(MovedVotes[b], "own")]

ASSUME PublicationAssumption ==
    /\ BallotCount \in Nat \ {0} /\ TrusteeCount \in Nat /\ Threshold \in Nat \ {0}
    \* An empty sum is left out: it is under every key.
    /\ \A c \in Sums : c \in Seq(Nat) /\ \E o \in DOMAIN c : c[o] > 0
    /\ MovedVotes \in [Numbered -> Sums]
    /\ Unread # MovedSums

\* What the votes of all options come to.
Total(counts) ==
    LET upTo[i \in 0..Len(counts)] == IF i = 0 THEN 0 ELSE upTo[i - 1] + counts[i]
    IN upTo[Len(counts)]

AllTotals == [b \in Numbered |-> Total(MovedVotes[b])]
Zeros == [b \in Numbered |-> 0]
NoVotes(b) == Sealed([o \in DOMAIN MovedVotes[b] |-> 0], "own")
UrnRow(sum, hashes) == [sum |-> sum, hashes |-> hashes]
Published == {"TALLIED", "CERTIFIED"}

NothingRead ==
    [at |-> "begin", ballot |-> 1, marked |-> Unread, root |-> Unread, counters |-> Unread,
     given |-> {}, unproven |-> {}, sum |-> Unread]
NoDocument ==
    [election |-> "this", key |-> Unread, shares |-> Unread, ballots |-> <<>>, markedTotal |-> 0]

PublicationInit ==
    /\ votersDb = [belongs |-> TRUE, phase |-> "VALIDATED", root |-> Unread,
                   envelopes |-> AllTotals, marked |-> Zeros]
    /\ votesDb = [reset |-> FALSE, key |-> "own", shares |-> [t \in Trustees |-> "own"],
                  urn |-> [b \in Numbered |-> UrnRow(MovedSums[b], MovedSums[b])],
                  given |-> [b \in Numbered |-> {}],
                  counters |-> [b \in Numbered |-> Unread]]
    /\ reading = NothingRead
    /\ document = NoDocument
    /\ turnout = [at |-> "begin", phase |-> Unread, basis |-> Unread, voted |-> Unread]
    /\ meddled = {} /\ altered = 0

----------------------------------------------------------------------------
(***************************************************************************)
(* The election meanwhile.                                                 *)
(***************************************************************************)
OnlyElection == UNCHANGED <<reading, document, turnout, meddled, altered>>

Strip ==
    /\ votersDb.phase = "VALIDATED"
    /\ votersDb' = [votersDb EXCEPT !.phase = "STRIPPED", !.root = MovedSums,
                                    !.envelopes = Zeros, !.marked = votersDb.envelopes]
    /\ UNCHANGED votesDb /\ OnlyElection

UrnIsMoved == \A b \in Numbered : votesDb.urn[b] = UrnRow(MovedSums[b], MovedSums[b])

OwnContribution(t, b) == [trustee |-> t, sum |-> MovedSums[b], by |-> "own", ballot |-> b]

\* Enough trustees contribute to each ballot, whoever they are, and it is counted;
\* the election is counted when all ballots are.
Count(n) ==
    /\ votersDb.phase = "STRIPPED" /\ votersDb.root # Unread /\ UrnIsMoved
    /\ \A t \in 1..n : votesDb.shares[t] = "own"
    /\ votesDb' = [votesDb EXCEPT
           !.given = [b \in Numbered |-> {OwnContribution(t, b) : t \in 1..n}],
           !.counters = MovedVotes]
    /\ votersDb' = [votersDb EXCEPT !.phase = "TALLIED"]
    /\ OnlyElection

Certify ==
    /\ votersDb.phase = "TALLIED"
    /\ votersDb' = [votersDb EXCEPT !.phase = "CERTIFIED"]
    /\ UNCHANGED votesDb /\ OnlyElection

\* A demo election is set back, in one database and then in the other.
ResetVotes ==
    /\ ~votesDb.reset /\ votersDb.phase \in Published
    /\ votesDb' = [votesDb EXCEPT !.reset = TRUE,
                                  !.urn = [b \in Numbered |-> UrnRow(NoVotes(b), NoVotes(b))],
                                  !.given = [b \in Numbered |-> {}],
                                  !.counters = [b \in Numbered |-> Unread]]
    /\ UNCHANGED votersDb /\ OnlyElection

ResetVoters ==
    /\ votesDb.reset
    /\ votersDb' = [votersDb EXCEPT !.phase = "OPEN", !.root = Unread,
                                    !.envelopes = Zeros, !.marked = Zeros]
    /\ UNCHANGED votesDb /\ OnlyElection

\* Somebody writes past the application, anything but another root: with root and
\* urn changed together there is nothing left to compare with.  Where it has written
\* it may write again, what was there before too.
Outside(what) ==
    /\ meddled' = meddled \cup {what}
    /\ Cardinality(meddled') <= MaxOutside
    /\ UNCHANGED <<reading, document, turnout, altered>>

WriteUrn(b) ==
    /\ Outside(<<"urn", b>>)
    /\ \E sum \in AnySum : \E hashes \in {sum, MovedSums[b]} :
          votesDb' = [votesDb EXCEPT !.urn[b] = UrnRow(sum, hashes)]

WriteCounters(b) ==
    /\ Outside(<<"counters", b>>)
    /\ \E c \in Sums : votesDb' = [votesDb EXCEPT !.counters[b] = c]

WriteContributions(b, t) ==
    LET others == {g \in votesDb.given[b] : g.trustee # t}
        new == [trustee |-> t, sum |-> votesDb.urn[b].sum, by |-> "other", ballot |-> b]
    IN /\ Outside(<<"contributions", b>>)
       /\ \E given \in {others, others \cup {new}} :
             votesDb' = [votesDb EXCEPT !.given[b] = given]

WriteShares ==
    /\ Outside(<<"shares">>)
    /\ \E t \in Trustees, s \in Made : votesDb' = [votesDb EXCEPT !.shares[t] = s]

WriteKey ==
    /\ Outside(<<"key">>)
    /\ \E s \in Made : \E shares \in {votesDb.shares, [t \in Trustees |-> s]} :
          votesDb' = [votesDb EXCEPT !.key = s, !.shares = shares]

WriteVotes ==
    /\ \/ \E b \in Numbered : WriteUrn(b) \/ WriteCounters(b)
       \/ \E b \in Numbered, t \in Trustees : WriteContributions(b, t)
       \/ WriteShares \/ WriteKey
    /\ UNCHANGED votersDb

WriteMode ==
    /\ Outside(<<"mode">>)
    /\ \E m \in BOOLEAN : votersDb' = [votersDb EXCEPT !.belongs = m]

WriteRoot ==
    /\ Outside(<<"root">>)
    /\ \E r \in {Unread, MovedSums} : votersDb' = [votersDb EXCEPT !.root = r]

WriteEnvelopes ==
    /\ Outside(<<"envelopes">>)
    /\ \E b \in Numbered, n \in {0, 1} : votersDb' = [votersDb EXCEPT !.envelopes[b] = n]

WriteMarkers ==
    /\ Outside(<<"markers">>)
    /\ \E b \in Numbered, n \in 1..2 : votersDb' = [votersDb EXCEPT !.marked[b] = n]

WriteVoters ==
    /\ \/ WriteMode
       \/ /\ votersDb.phase \notin {"VALIDATED", "OPEN"}
          /\ WriteRoot \/ WriteEnvelopes \/ WriteMarkers
    /\ UNCHANGED votesDb

----------------------------------------------------------------------------
(***************************************************************************)
(* publishedResults: a read in each step.                                  *)
(***************************************************************************)
Reads(at) == reading.at = at /\ UNCHANGED <<votersDb, votesDb, turnout, meddled, altered>>
Reading(next) == reading' = next /\ UNCHANGED document
To(at) == Reading([reading EXCEPT !.at = at])
EndsWith(outcome) == Reading([NothingRead EXCEPT !.at = outcome])
Mismatch == EndsWith("result_mismatch")

\* checkElectionMode, of the election and once more of each ballot.
AskMode ==
    /\ \/ Reads("begin") /\ turnout.at = "begin"
       \/ Reads("mode")
    /\ IF votersDb.belongs THEN To(IF reading.at = "begin" THEN "election" ELSE "gate")
                           ELSE EndsWith("wrong_mode")

\* The phase and the roots, of the election and once more of each ballot.
Refuses ==
    \/ votersDb.phase \notin Published /\ EndsWith("not_published")
    \/ votersDb.phase \in Published /\ votersDb.root = Unread /\ Mismatch

IsOpen == votersDb.phase \in Published /\ votersDb.root # Unread

ReadElection ==
    /\ Reads("election")
    /\ \/ Refuses
       \/ IsOpen /\ To("key")

\* Flawed: the key and its shares go out as they lie.
sharesBelongToKey_NotAsked == TRUE

\* Any two shares combine to the key.
sharesBelongToKey == \A t \in Trustees : votesDb.shares[t] = votesDb.key

ReadKey ==
    /\ Reads("key")
    /\ IF sharesBelongToKey
           THEN /\ reading' = [reading EXCEPT !.at = "turnout"]
                /\ document' = [NoDocument EXCEPT !.key = votesDb.key, !.shares = votesDb.shares]
           ELSE Mismatch

\* Flawed: the envelopes are thought to lie there until the count.
Basis_Stripped == IF votersDb.phase \in Published THEN "markers" ELSE "envelopes"

\* turnoutByBallot reads the phase, and counts what lies in that phase in a query
\* of its own.
Basis == IF votersDb.phase \in {"OPEN", "VALIDATED"} THEN "envelopes" ELSE "markers"

Voted(basis) == IF basis = "envelopes" THEN votersDb.envelopes ELSE votersDb.marked

ReadTurnoutPhase == Reads("turnout") /\ To(Basis)

ReadTurnout ==
    /\ Reads("markers") \/ Reads("envelopes")
    /\ Reading([reading EXCEPT !.at = "mode", !.marked = Voted(reading.at)])

\* publicationGate; no envelope may be left, which is a query of its own.
AskGate ==
    /\ Reads("gate")
    /\ \/ Refuses
       \/ IsOpen /\ Reading([reading EXCEPT !.at = "left", !.root = votersDb.root])

CountLeft ==
    /\ Reads("left")
    /\ IF \E b \in Numbered : votersDb.envelopes[b] > 0 THEN Mismatch ELSE To("counters")

\* storedTally.
ReadCounters ==
    LET counters == votesDb.counters[reading.ballot]
    IN /\ Reads("counters")
       /\ IF counters = Unread THEN Mismatch
          ELSE Reading([reading EXCEPT !.at = "given", !.counters = counters])

\* storedContributions.
ReadContributions ==
    LET given == votesDb.given[reading.ballot]
    IN /\ Reads("given")
       /\ IF Cardinality(given) < Threshold THEN Mismatch
          ELSE Reading([reading EXCEPT !.at = "sum", !.given = given, !.unproven = given])

\* sumOfUrn: a row whose votes do not give its hash breaks the recount off.
ReadUrn ==
    LET rows == votesDb.urn[reading.ballot]
    IN /\ Reads("sum")
       /\ IF rows.sum # rows.hashes THEN Mismatch
          ELSE Reading([reading EXCEPT !.at = "root", !.sum = rows.sum])

\* requireUrnRoot: this ballot's hashes from the sum, those of the others read now.
RootHolds ==
    reading.root =
        [b \in Numbered |-> IF b = reading.ballot THEN reading.sum ELSE votesDb.urn[b].hashes]

AskRoot == Reads("root") /\ IF RootHolds THEN To("partials") ELSE Mismatch

\* Flawed: the proof is not bound to the ballot.
Proves_AnyBallot(g, share, sum, b) == g.by = share /\ g.sum = sum

\* verifyPartialDecryption, with a share that is read for each contribution.
Proves(g, share, sum, b) == g.by = share /\ g.sum = sum /\ g.ballot = b

VerifyContribution ==
    /\ Reads("partials")
    /\ \E g \in reading.unproven :
       /\ \A other \in reading.unproven : g.trustee <= other.trustee
       /\ IF Proves(g, votesDb.shares[g.trustee], reading.sum, reading.ballot)
              THEN Reading([reading EXCEPT !.unproven = @ \ {g}])
              ELSE Mismatch

\* Contributions of another key than the sum is under open no number that discreteLog
\* finds.
OpensTo(given, counts, sum) == (\A g \in given : g.by = sum.under) /\ counts = sum.votes

SameCounts == reading.counters = reading.sum.votes

RecountedBallot ==
    [ballot |-> reading.ballot, rows |-> Total(reading.sum.votes),
     marked |-> reading.marked[reading.ballot], sum |-> reading.sum,
     counts |-> reading.sum.votes,
     given |-> SetToSeq(reading.given)]

\* countFromContributions ends; recountForPublication compares, and the next begins.
Recounted ==
    /\ Reads("partials") /\ reading.unproven = {}
    /\ IF OpensTo(reading.given, reading.sum.votes, reading.sum) /\ SameCounts
       THEN /\ document' = [document EXCEPT !.ballots = Append(@, RecountedBallot),
                                            !.markedTotal = Total(reading.marked)]
            /\ reading' =
                   IF reading.ballot = BallotCount THEN [NothingRead EXCEPT !.at = "published"]
                   ELSE [NothingRead EXCEPT !.at = "mode", !.ballot = reading.ballot + 1,
                                            !.marked = reading.marked]
       ELSE Mismatch

publishedResults ==
    \/ AskMode \/ ReadElection \/ ReadKey \/ ReadTurnoutPhase \/ ReadTurnout
    \/ AskGate \/ CountLeft \/ ReadCounters \/ ReadContributions
    \/ ReadUrn \/ AskRoot \/ VerifyContribution \/ Recounted

----------------------------------------------------------------------------
(***************************************************************************)
(* turnoutByBallot, for whoever asks while the election goes on.  Reads of *)
(* one call do not meet those of another: one of the two is made.          *)
(***************************************************************************)
AskTurnout ==
    /\ reading.at = "begin"
    /\ \/ /\ turnout.at = "begin"
          /\ turnout' = [turnout EXCEPT !.at = "count",
                                        !.phase = votersDb.phase, !.basis = Basis]
       \/ /\ turnout.at = "count"
          /\ turnout' = [turnout EXCEPT !.at = "told", !.voted = Voted(turnout.basis)]
    /\ UNCHANGED <<votersDb, votesDb, reading, document, meddled, altered>>

----------------------------------------------------------------------------
(***************************************************************************)
(* The document, changed before it is checked.                             *)
(***************************************************************************)
Entries == DOMAIN document.ballots

\* What is given for a ballot, with one twice, without one, or with one of another's.
AlteredGiven(given) ==
    IF given = <<>> THEN {}
    ELSE {Append(given, given[1]), Tail(given), [given EXCEPT ![1].by = "other"]}

\* Another outcome, with a sum, contributions and numbers that fit it and each other,
\* as whoever makes a key of their own can make them.
Remade(entry, counts) ==
    [entry EXCEPT
        !.sum = Sealed(counts, "other"), !.counts = counts,
        !.rows = Total(counts), !.marked = Total(counts),
        !.given = [i \in DOMAIN entry.given |->
                      [entry.given[i] EXCEPT !.sum = Sealed(counts, "other"), !.by = "other"]]]

AlteredEntry(e) ==
    LET entry == document.ballots[e]
    IN UNION {
        {[entry EXCEPT !.counts = c] : c \in Sums},
        {[entry EXCEPT !.sum = s, !.counts = s.votes, !.rows = Total(s.votes),
                       !.marked = Total(s.votes)] : s \in AnySum},
        {[entry EXCEPT !.rows = @ + 1, !.marked = @ + 1]},
        {[entry EXCEPT !.given = given] : given \in AlteredGiven(entry.given)},
        {Remade(entry, c) : c \in Sums},
        \* What another ballot has.
        {[document.ballots[other] EXCEPT !.ballot = entry.ballot] : other \in Entries}}

AlterEntry(e) ==
    \/ \E entry \in AlteredEntry(e) : document' = [document EXCEPT !.ballots[e] = entry]
    \/ document' = [document EXCEPT !.ballots = Append(@, @[e]),
                                    !.markedTotal = @ + document.ballots[e].marked]
    \/ document' = [document EXCEPT !.ballots = RemoveAt(@, e),
                                    !.markedTotal = @ - document.ballots[e].marked]

\* The whole document is made anew, under another key.
RemadeDocument(outcome) ==
    [document EXCEPT
        !.key = "other", !.shares = [t \in Trustees |-> "other"],
        !.ballots = [e \in Entries |-> Remade(document.ballots[e], outcome[e])],
        !.markedTotal = Total([e \in Entries |-> Total(outcome[e])])]

Alter ==
    /\ reading.at = "published" /\ altered < MaxAltered
    /\ altered' = altered + 1
    /\ \/ \E e \in Entries : AlterEntry(e)
       \/ document' = [document EXCEPT !.election = "another"]
       \/ \E t \in Trustees : document' = [document EXCEPT !.shares[t] = "other"]
       \/ document' = [document EXCEPT !.key = "other", !.shares = [t \in Trustees |-> "other"]]
       \/ document' = [document EXCEPT !.markedTotal = @ + 1]
       \/ \E outcome \in [Entries -> Sums] : document' = RemadeDocument(outcome)
    /\ UNCHANGED <<votersDb, votesDb, reading, turnout, meddled>>

PublicationNext ==
    \/ Strip \/ Certify \/ ResetVotes \/ ResetVoters
    \/ \E n \in Threshold..TrusteeCount : Count(n)
    \/ WriteVotes \/ WriteVoters
    \/ publishedResults \/ AskTurnout
    \/ Alter

PublicationSpec == PublicationInit /\ [][PublicationNext]_publicationVars

(***************************************************************************)
(* verifyPublication, of a document and of the election asked for, "this". *)
(***************************************************************************)
\* Flawed: a ballot may stand there twice.
EachOnce_NotAsked(ballots) == TRUE

EachOnce(ballots) ==
    \A i, j \in DOMAIN ballots : ballots[i].ballot = ballots[j].ballot => i = j

\* The contributions that hold, of trustees that stand there once.
Usable(doc, entry) ==
    {g \in ToSet(entry.given) :
        /\ Cardinality({i \in DOMAIN entry.given : entry.given[i].trustee = g.trustee}) = 1
        /\ Proves(g, doc.shares[g.trustee], entry.sum, entry.ballot)}

BallotHolds(doc, entry) ==
    /\ Usable(doc, entry) = ToSet(entry.given)
    /\ Cardinality(Usable(doc, entry)) >= Threshold
    /\ OpensTo(Usable(doc, entry), entry.counts, entry.sum)
    /\ entry.rows = Total(entry.counts)
    /\ entry.rows = entry.marked

RowsTotal(doc) == Total([i \in DOMAIN doc.ballots |-> doc.ballots[i].rows])

verifyPublication(doc) ==
    /\ doc.election = "this"
    /\ \A t \in Trustees : doc.shares[t] = doc.key
    /\ doc.ballots # <<>>
    /\ EachOnce(doc.ballots)
    /\ \A i \in DOMAIN doc.ballots : BallotHolds(doc, doc.ballots[i])
    /\ doc.markedTotal = RowsTotal(doc)
    /\ doc.markedTotal = Total([i \in DOMAIN doc.ballots |-> doc.ballots[i].marked])

----------------------------------------------------------------------------
(***************************************************************************)
(* Properties                                                              *)
(***************************************************************************)
SealedSum == [votes : Seq(Nat), under : Made]
Contribution == [trustee : Trustees, sum : SealedSum, by : Made, ballot : Numbered]
PublishedBallot ==
    [ballot : Numbered, rows : Nat, marked : Nat, sum : SealedSum, counts : Seq(Nat),
     given : Seq(Contribution)]

ElectionPhases == {"VALIDATED", "STRIPPED", "TALLIED", "CERTIFIED", "OPEN"}

VotersDbs ==
    [belongs : BOOLEAN, phase : ElectionPhases, root : {Unread, MovedSums},
     envelopes : [Numbered -> Nat], marked : [Numbered -> Nat]]
VotesDbs ==
    [reset : BOOLEAN, key : Made, shares : [Trustees -> Made],
     urn : [Numbered -> [sum : SealedSum, hashes : SealedSum]],
     given : [Numbered -> SUBSET Contribution],
     counters : [Numbered -> {Unread} \cup Seq(Nat)]]
Readings ==
    [at : {"begin", "election", "key", "turnout", "markers", "envelopes", "mode", "gate", "left",
           "counters", "given", "sum", "root", "partials", "published", "not_published",
           "result_mismatch", "wrong_mode"},
     ballot : Numbered, marked : {Unread} \cup [Numbered -> Nat], root : {Unread, MovedSums},
     counters : {Unread} \cup Seq(Nat), given : SUBSET Contribution,
     unproven : SUBSET Contribution, sum : {Unread} \cup SealedSum]
Documents ==
    [election : {"this", "another"}, key : {Unread} \cup Made,
     shares : {Unread} \cup [Trustees -> Made], ballots : Seq(PublishedBallot),
     markedTotal : Int]
Turnouts ==
    [at : {"begin", "count", "told"}, phase : {Unread} \cup ElectionPhases,
     basis : {Unread, "envelopes", "markers"}, voted : {Unread} \cup [Numbered -> Nat]]

PublicationTypeOK ==
    /\ votersDb \in VotersDbs /\ votesDb \in VotesDbs
    /\ reading \in Readings /\ document \in Documents /\ turnout \in Turnouts
    /\ altered \in Nat

IsPublished == reading.at = "published" /\ altered = 0

\* publish-results.usecase.ts, the recount: whatever is written past the application,
\* and between whichever reads, what is published are the votes that the closing moved,
\* of every ballot, or nothing; and the tool lets it through unless the markers were
\* changed, which only the tool compares, or the key with its shares, which may have
\* been others when they were read than when the contributions were verified.
PublishedIsMoved ==
    IsPublished =>
        /\ Len(document.ballots) = BallotCount
        /\ \A b \in Numbered :
              /\ document.ballots[b].ballot = b
              /\ document.ballots[b].counts = MovedVotes[b]
        /\ meddled \cap {<<"markers">>, <<"key">>} = {} => verifyPublication(document)

\* verify-election.mjs: whatever was changed on the way, a document that passes and has
\* the key that the votes were sealed with has no other numbers than those that were
\* published, and no ballot's twice.  The tool cannot tell that key: one made anew passes
\* too, with any numbers, and whoever saved the key while voting went on compares it, as
\* the tool says under what it cannot check.
AlteredIsFound ==
    reading.at = "published" /\ document.key = "own" /\ verifyPublication(document) =>
        /\ \A i \in Entries : document.ballots[i].counts = MovedVotes[document.ballots[i].ballot]
        /\ RowsTotal(document) <= Total(AllTotals)

\* participation.service.ts: the turnout is how many have voted, told with a phase after
\* the removal of the envelopes; told with one before, it may have counted none, when
\* they were removed after the phase was read, but never a part of them.
TurnoutIsTrue ==
    turnout.at = "told" /\ meddled = {} /\ ~votesDb.reset =>
        \/ turnout.voted = AllTotals
        \/ turnout.phase = "VALIDATED" /\ turnout.voted = Zeros

PublicationHolds == PublicationTypeOK /\ PublishedIsMoved /\ AlteredIsFound /\ TurnoutIsTrue
=============================================================================
