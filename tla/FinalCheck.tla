----------------------------- MODULE FinalCheck -----------------------------
(***************************************************************************)
(* The certification of an election, while its tally may be running.       *)
(*                                                                         *)
(* certifyElection runs the final check, which reads the two databases one *)
(* statement after the other, and acts on what it read: an election that   *)
(* is ready is CERTIFIED, one that contradicts itself is marked as under   *)
(* review and can never be certified, and one that is not ready is left.   *)
(***************************************************************************)
EXTENDS Tally

CONSTANTS Certifications    \* calls of certifyElection in flight at the same time

VARIABLES
    certifiedPosts,     \* posts ELECTION_CERTIFIED, in the voters database
    underReview,        \* status UNDER_REVIEW, in the votes database
    reviewPosts,        \* posts ELECTION_UNDER_REVIEW, in the voters database
    check               \* per certification, where it is and what it read

marks     == <<underReview, reviewPosts>>
checkVars == <<certifiedPosts, marks, check>>
allVars   == <<tallyVars, checkVars>>

NotChecking == [at |-> "idle"]

\* A ballot's rows, a ballot's counters, a contribution.
Alterable ==
    {<<"urn", b>> : b \in Ballots} \cup {<<"counters", b>> : b \in Ballots}
        \cup {<<"partial", b, t>> : b \in Ballots, t \in Trustees}

(***************************************************************************)
(* A certification on its way: what runFinalCheck read, and if it is the   *)
(* second check, after a compare-and-set that failed.  `altered` is a      *)
(* history: what was falsified when the check began, and whenever it read  *)
(* something since.                                                        *)
(***************************************************************************)
Reading ==
    [at : {"phase", "urn", "partials", "tallies", "status"},
     again : BOOLEAN, phase : Phases, rooted : BOOLEAN, altered : SUBSET Alterable,
     urn : [Ballots -> Stored], given : [Ballots -> Read], found : [Ballots -> Stored],
     marked : {FALSE}]

\* A report that lets the election be certified, of a first check.
Ready ==
    [at : {"write"},
     again : {FALSE}, phase : {"TALLIED"}, rooted : {TRUE}, altered : SUBSET Alterable,
     urn : [Ballots -> {"moved"}], given : [Ballots -> Read], found : [Ballots -> Contents],
     marked : {FALSE}]

\* A report that the election contradicts itself.
Marking ==
    [at : {"mark", "markPost"},
     again : BOOLEAN, phase : Phases \ {"CERTIFIED"}, rooted : BOOLEAN, altered : SUBSET Alterable,
     urn : [Ballots -> Contents], given : [Ballots -> Read], found : [Ballots -> Stored],
     marked : BOOLEAN]

CheckTypeOK ==
    /\ certifiedPosts \in Nat
    /\ underReview \in BOOLEAN
    /\ reviewPosts \in Nat
    /\ check \in [Certifications -> {NotChecking} \cup Reading \cup Ready \cup Marking]

CheckInit ==
    /\ Init
    /\ certifiedPosts = 0
    /\ underReview = FALSE /\ reviewPosts = 0
    /\ check = [k \in Certifications |-> NotChecking]

----------------------------------------------------------------------------
CheckAt(k, step) == check[k].at = step
CheckEnds(k)     == check' = [check EXCEPT ![k] = NotChecking]
CheckOnlyReads   == UNCHANGED <<tallyVars, certifiedPosts, marks>>

\* What in the votes database is not what the application wrote there.
Altered ==
    {<<"urn", b>> : b \in {a \in Ballots : urn[a] # "moved"}}
        \cup {<<"counters", b>> : b \in {a \in Ballots : counters[a] = "other"}}
        \cup UNION {{<<"partial", b, t>> : t \in {v \in Trustees : partials[b][v] = "other"}} : b \in Ballots}

BeginCertification(k) ==
    /\ check[k] = NotChecking
    /\ check' = [check EXCEPT ![k] =
           [at |-> "phase", again |-> FALSE, phase |-> "VALIDATED", rooted |-> FALSE, altered |-> {},
            urn |-> [b \in Ballots |-> None], given |-> [b \in Ballots |-> NothingRead],
            found |-> [b \in Ballots |-> None], marked |-> FALSE]]
    /\ CheckOnlyReads

\* The phase and the roots are read first, and everything else after.
ReadPhase(k) ==
    /\ CheckAt(k, "phase")
    /\ check' = [check EXCEPT ![k].at = "urn", ![k].phase = phase, ![k].rooted = rooted,
                              ![k].altered = Altered]
    /\ CheckOnlyReads

\* The urn, ballot by ballot. While a closing may fill it, any part of it is read.
ReadBallotUrn(k, b) ==
    /\ CheckAt(k, "urn")
    /\ check[k].urn[b] = None
    /\ \E rows \in IF phase = "VALIDATED" /\ ~rooted THEN {"moved", "other"} ELSE {urn[b]} :
          LET read == [check[k].urn EXCEPT ![b] = rows]
          IN check' = [check EXCEPT ![k].urn = read, ![k].altered = @ \cap Altered,
                 ![k].at = IF \E a \in Ballots : read[a] = None THEN "urn" ELSE "partials"]
    /\ CheckOnlyReads

ReadPartials(k) ==
    /\ CheckAt(k, "partials")
    /\ check' = [check EXCEPT ![k].at = "tallies", ![k].given = partials,
                              ![k].altered = @ \cap Altered]
    /\ CheckOnlyReads

ReadTallies(k) ==
    /\ CheckAt(k, "tallies")
    /\ check' = [check EXCEPT ![k].at = "status", ![k].found = counters,
                              ![k].altered = @ \cap Altered]
    /\ CheckOnlyReads

----------------------------------------------------------------------------
(***************************************************************************)
(* The checks, over a record r of what was read: what is CRITICAL.  What   *)
(* is only a PRECONDITION follows the phase.                               *)
(***************************************************************************)
Counted(r)       == r.phase \in {"TALLIED", "CERTIFIED"}
TooFew(r, b)     == Cardinality(GivenBy(r.given[b])) < Threshold
BelongToUrn(r, b) == \A t \in GivenBy(r.given[b]) : r.given[b][t] = r.urn[b]

\* linkClearedCheck and countCheck: once stripped the roots are written and no
\* envelope lies.
LinkNotCleared(r) == r.phase # "VALIDATED" /\ ~r.rooted

\* urnRootCheck and everyVoteCheck: a row that is not the one that was moved.
UrnContradicts(r) == r.phase # "VALIDATED" /\ \E b \in Ballots : r.urn[b] # "moved"

\* underReviewCheck: an earlier check left its mark.
WasMarked(r) == r.marked

\* Flawed: as many contributions as are needed are one too few.
PartialsContradict_NeedsOneMore(r) ==
    \E b \in Ballots :
        ~BelongToUrn(r, b) \/ (Counted(r) /\ Cardinality(GivenBy(r.given[b])) <= Threshold)

\* partialsCheck.
PartialsContradict(r) ==
    \E b \in Ballots : ~BelongToUrn(r, b) \/ (Counted(r) /\ TooFew(r, b))

\* recount: the combination of the contributions with the sum of the urn.
Recount(r, b) == IF BelongToUrn(r, b) THEN r.urn[b] ELSE "other"

\* Flawed: that there are counters is enough.
TallyContradicts_NoRecount(r) ==
    \E b \in Ballots : IF r.found[b] = None THEN Counted(r) ELSE TooFew(r, b)

\* tallyCheck.
TallyContradicts(r) ==
    \E b \in Ballots :
        IF r.found[b] = None
        THEN Counted(r)
        ELSE TooFew(r, b) \/ r.found[b] # Recount(r, b)

Anomalous(r) ==
    LinkNotCleared(r) \/ UrnContradicts(r) \/ PartialsContradict(r) \/ TallyContradicts(r)
        \/ WasMarked(r)

CanCertify(r) == Counted(r) /\ ~Anomalous(r)

\* Flawed: the phase is read with the status, after everything else.
Report_PhaseReadLast(k) ==
    LET r == [check[k] EXCEPT !.marked = underReview, !.altered = @ \cap Altered, !.phase = phase]
        next == IF CanCertify(r) THEN "write" ELSE "mark"
    IN /\ CheckAt(k, "status")
       /\ IF \/ r.phase = "CERTIFIED"
             \/ CanCertify(r) /\ r.again
             \/ ~CanCertify(r) /\ ~Anomalous(r)
          THEN CheckEnds(k)
          ELSE check' = [check EXCEPT ![k] = [r EXCEPT !.at = next]]
       /\ CheckOnlyReads

(***************************************************************************)
(* The status is read last, and the report is acted on: a CERTIFIED        *)
(* election is left, one that can be certified is written, and refuse      *)
(* marks an election that contradicts itself.  The second check only       *)
(* refuses.                                                                *)
(***************************************************************************)
Report(k) ==
    LET r == [check[k] EXCEPT !.marked = underReview, !.altered = @ \cap Altered]
        next == IF CanCertify(r) THEN "write" ELSE "mark"
    IN /\ CheckAt(k, "status")
       /\ IF \/ r.phase = "CERTIFIED"
             \/ CanCertify(r) /\ r.again
             \/ ~CanCertify(r) /\ ~Anomalous(r)
          THEN CheckEnds(k)
          ELSE check' = [check EXCEPT ![k] = [r EXCEPT !.at = next]]
       /\ CheckOnlyReads

\* Flawed: CERTIFIED is written without a comparison.
WriteCertified_NoCompare(k) ==
    /\ CheckAt(k, "write")
    /\ phase' = "CERTIFIED" /\ certifiedPosts' = certifiedPosts + 1
    /\ CheckEnds(k)
    /\ UNCHANGED <<rooted, posts, votesDb, call, Bounds, marks>>

\* TALLIED to CERTIFIED and its post in one transaction, or a second check.
WriteCertified(k) ==
    /\ CheckAt(k, "write")
    /\ \/ /\ phase = "TALLIED" /\ rooted
          /\ phase' = "CERTIFIED" /\ certifiedPosts' = certifiedPosts + 1
          /\ CheckEnds(k)
       \/ /\ ~(phase = "TALLIED" /\ rooted)
          /\ check' = [check EXCEPT ![k].at = "phase", ![k].again = TRUE,
                                    ![k].urn = [b \in Ballots |-> None]]
          /\ UNCHANGED <<phase, certifiedPosts>>
    /\ UNCHANGED <<rooted, posts, votesDb, call, Bounds, marks>>

\* Who sets the mark also writes the post, in the other database.
MarkUnderReview(k) ==
    /\ CheckAt(k, "mark")
    /\ IF underReview THEN CheckEnds(k) ELSE check' = [check EXCEPT ![k].at = "markPost"]
    /\ underReview' = TRUE
    /\ UNCHANGED <<tallyVars, certifiedPosts, reviewPosts>>

PostUnderReview(k) ==
    /\ CheckAt(k, "markPost")
    /\ reviewPosts' = reviewPosts + 1
    /\ CheckEnds(k)
    /\ UNCHANGED <<tallyVars, certifiedPosts, underReview>>

CertificationFails(k) ==
    /\ check[k] # NotChecking
    /\ Fault
    /\ CheckEnds(k)
    /\ UNCHANGED <<phase, rooted, posts, votesDb, call, certifiedPosts, marks>>

Certifying(k) ==
    \/ ReadPhase(k) \/ ReadPartials(k) \/ ReadTallies(k) \/ Report(k)
    \/ \E b \in Ballots : ReadBallotUrn(k, b)
    \/ WriteCertified(k) \/ MarkUnderReview(k) \/ PostUnderReview(k)

CheckNext ==
    \/ \E k \in Certifications : BeginCertification(k) \/ Certifying(k) \/ CertificationFails(k)
    \/ (CallNext \/ Strips \/ OutsideVotes \/ OutsidePhase) /\ UNCHANGED checkVars

\* What has begun is run to its end. Nobody has to begin anything.
CheckFairness ==
    /\ \A c \in Calls : WF_allVars((Contributes(c) \/ Counts(c)) /\ UNCHANGED checkVars)
    /\ \A k \in Certifications : WF_allVars(Certifying(k))

CheckSpec == CheckInit /\ [][CheckNext]_allVars /\ CheckFairness

----------------------------------------------------------------------------
(***************************************************************************)
(* Properties                                                              *)
(***************************************************************************)
\* A check that begins once the election is tallied finds nothing wrong with an
\* election that nobody has altered, whatever the tally's calls still do: only a
\* mark that is there already makes it mark the election.
FindsNothingOnceTallied ==
    outside = 0 =>
        \A k \in Certifications :
            CheckAt(k, "mark") /\ Counted(check[k]) => check[k].marked

\* Of certifications that run at once one writes CERTIFIED, with its post, and of
\* those that find the election under review one writes the post.
EachIsPostedOnce ==
    outside = 0 =>
        /\ certifiedPosts = IF phase = "CERTIFIED" THEN 1 ELSE 0
        /\ reviewPosts <= IF underReview THEN 1 ELSE 0

\* Rows, a contribution or counters that are altered in the votes database when
\* a final check begins and whenever it reads are never certified by it.
CertifiesTheSound ==
    phase # "CERTIFIED" /\ phase' = "CERTIFIED" /\ outside' = outside =>
        \E k \in Certifications : check'[k] # check[k] /\ check[k].altered = {}

FalsifiedIsNotCertified == [][CertifiesTheSound]_allVars

\* An election that is tallied and not marked can be certified: the check that is
\* then run, alone, certifies it or finds that another has.
TalliedIsCertified ==
    \A k \in Certifications :
        /\ CheckAt(k, "urn") /\ check[k].phase = "TALLIED" /\ phase = "TALLIED"
        /\ \A j \in Certifications \ {k} : check[j] = NotChecking
        /\ ~underReview
        /\ faults = MaxFaults /\ outside = 0
        ~> phase = "CERTIFIED"

\* Who presses the button too early does not make the election impossible to
\* certify: only an alteration marks it.
TooEarlyIsHarmless == outside = 0 => ~underReview

\* A mark stops the certification.
MarkedIsNotCertified ==
    [][underReview => ~(phase = "TALLIED" /\ phase' = "CERTIFIED" /\ outside' = outside)]_allVars
=============================================================================
