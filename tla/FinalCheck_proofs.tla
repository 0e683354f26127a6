-------------------------- MODULE FinalCheck_proofs --------------------------
(***************************************************************************)
(* Proofs about the tally, for any number of ballots, trustees and calls,  *)
(* of faults, and of writes past the application; then about the final     *)
(* check and the certification, for any number of certifications over any  *)
(* tally.  What a certification has read is compared with what is stored   *)
(* when it acts.                                                           *)
(***************************************************************************)
EXTENDS FinalCheck, TLAPS, FiniteSetTheorems

----------------------------------------------------------------------------
(***************************************************************************)
(* Where a call may be.                                                    *)
(***************************************************************************)
\* The step a call is at tells what kind of record it is.
LEMMA StepTellsTheRecord ==
    ASSUME NEW r \in Places
    PROVE  /\ r.at \in {"gate", "before", "sum"} => r \in Approaching
           /\ r.at \in {"root", "unlock", "store", "post", "latePost", "commit"} => r \in Contributing
           /\ r.at \in {"countGate", "stored", "read", "countSum"} => r \in Gathering
           /\ r.at \in {"count", "save", "countPost", "lateCountPost", "countCommit"} => r \in Counting
           /\ r.at \in {"settle", "stamp", "cas"} => r \in Settling
           /\ r = Idle \/ r.ballot \in Ballots
    BY DEF Places, Idle, Approaching, Contributing, Gathering, Counting, Settling

\* Where a step may go within its kind of record.
LEMMA ApproachingMoves ==
    ASSUME NEW r \in Approaching, NEW s \in {"gate", "before", "sum"}
    PROVE  [r EXCEPT !.at = s] \in Approaching
    BY DEF Approaching

LEMMA ContributingMoves ==
    ASSUME NEW r \in Contributing,
           NEW s \in {"root", "unlock", "store", "post", "latePost", "commit"}
    PROVE  [r EXCEPT !.at = s] \in Contributing
    BY DEF Contributing

LEMMA GatheringMoves ==
    ASSUME NEW r \in Gathering, NEW s \in {"countGate", "stored", "read", "countSum"}
    PROVE  [r EXCEPT !.at = s] \in Gathering
    BY DEF Gathering

LEMMA CountingMoves ==
    ASSUME NEW r \in Counting,
           NEW s \in {"count", "save", "countPost", "lateCountPost", "countCommit"}
    PROVE  [r EXCEPT !.at = s] \in Counting
    BY DEF Counting

LEMMA CountingSettles ==
    ASSUME NEW r \in Counting
    PROVE  [r EXCEPT !.at = "settle"] \in Settling
<1>1. {} \in SUBSET Ballots
    OBVIOUS
<1> QED
    BY <1>1 DEF Counting, Settling

LEMMA SettlingMoves ==
    ASSUME NEW r \in Settling, NEW s \in {"settle", "stamp", "cas"}
    PROVE  [r EXCEPT !.at = s] \in Settling
    BY DEF Settling

\* A step of one call leaves the others where they are.
CallTypeOK == call \in [Calls -> Places]

LEMMA GotoType ==
    ASSUME CallTypeOK, NEW c \in Calls, NEW s, Goto(c, s), [call[c] EXCEPT !.at = s] \in Places
    PROVE  /\ CallTypeOK'
           /\ call'[c] = [call[c] EXCEPT !.at = s]
           /\ \A d \in Calls \ {c} : call'[d] = call[d]
    BY DEF Goto, CallTypeOK

LEMMA EndsType ==
    ASSUME CallTypeOK, NEW c \in Calls, Ends(c)
    PROVE  /\ CallTypeOK'
           /\ call'[c] = Idle
           /\ \A d \in Calls \ {c} : call'[d] = call[d]
    BY DEF Ends, CallTypeOK, Places

----------------------------------------------------------------------------
\* Type correctness: of the calls.
LEMMA ContributesType ==
    ASSUME TypeOK, NEW c \in Calls, Contributes(c)
    PROVE  CallTypeOK'
<1>1. call[c] \in Places /\ CallTypeOK
    BY DEF TypeOK, CallTypeOK
<1>2. CASE Gate(c, "gate", "before") \/ HasContributed(c)
  <2>1. /\ call[c].at \in {"gate", "before", "sum"}
        /\ Ends(c) \/ \E s \in {"gate", "before", "sum"} : Goto(c, s)
      BY <1>2 DEF Gate, HasContributed, At
  <2>2. \A s \in {"gate", "before", "sum"} : [call[c] EXCEPT !.at = s] \in Places
      BY <1>1, <2>1, StepTellsTheRecord, ApproachingMoves DEF Places
  <2> QED
      BY <1>1, <2>1, <2>2, GotoType, EndsType
<1>3. CASE SumOfUrn(c, "sum", "root")
  <2>1. call[c] \in Approaching
      BY <1>1, <1>3, StepTellsTheRecord DEF SumOfUrn, At
  <2>2. urn[call[c].ballot] \in Contents
      BY <2>1 DEF Approaching, TypeOK
  <2>3. [call[c] EXCEPT !.at = "root", !.sum = urn[call[c].ballot]] \in Contributing
      BY <2>1, <2>2 DEF Approaching, Contributing
  <2>4. call' = [call EXCEPT ![c] = [call[c] EXCEPT !.at = "root", !.sum = urn[call[c].ballot]]]
      BY <1>3 DEF SumOfUrn
  <2> QED
      BY <1>1, <2>3, <2>4 DEF CallTypeOK, Places
<1>4. CASE \/ RootOfContribution(c) \/ UnlockShare(c) \/ StoreContribution(c)
           \/ PostContribution(c) \/ CommitContribution(c)
  <2>1. /\ call[c].at \in {"root", "unlock", "store", "post", "latePost", "commit"}
        /\ Ends(c) \/ \E s \in {"root", "unlock", "store", "post", "latePost", "commit"} : Goto(c, s)
      BY <1>4 DEF RootOfContribution, UnlockShare, StoreContribution, PostContribution,
                  CommitContribution, At
  <2>2. \A s \in {"root", "unlock", "store", "post", "latePost", "commit"} :
            [call[c] EXCEPT !.at = s] \in Places
      BY <1>1, <2>1, StepTellsTheRecord, ContributingMoves DEF Places
  <2> QED
      BY <1>1, <2>1, <2>2, GotoType, EndsType
<1> QED
    BY <1>2, <1>3, <1>4 DEF Contributes

LEMMA CountsType ==
    ASSUME TypeOK, NEW c \in Calls, Counts(c)
    PROVE  CallTypeOK'
<1>1. call[c] \in Places /\ CallTypeOK
    BY DEF TypeOK, CallTypeOK
<1>2. CASE Gate(c, "countGate", "stored")
  <2>1. /\ call[c].at = "countGate"
        /\ Ends(c) \/ Goto(c, "stored")
      BY <1>2 DEF Gate, At
  <2>2. [call[c] EXCEPT !.at = "stored"] \in Places
      BY <1>1, <2>1, StepTellsTheRecord, GatheringMoves DEF Places
  <2> QED
      BY <1>1, <2>1, <2>2, GotoType, EndsType
<1>3. CASE StoredTally(c)
  <2>1. call[c] \in Gathering
      BY <1>1, <1>3, StepTellsTheRecord DEF StoredTally, At
  <2>2. counters[call[c].ballot] \in Stored
      BY <2>1 DEF Gathering, TypeOK
  <2>3. [call[c] EXCEPT !.at = "read", !.found = counters[call[c].ballot]] \in Gathering
      BY <2>1, <2>2 DEF Gathering
  <2>4. call' = [call EXCEPT ![c] = [call[c] EXCEPT !.at = "read", !.found = counters[call[c].ballot]]]
      BY <1>3 DEF StoredTally
  <2> QED
      BY <1>1, <2>3, <2>4 DEF CallTypeOK, Places
<1>4. CASE StoredContributions(c)
  <2>1. call[c] \in Gathering
      BY <1>1, <1>4, StepTellsTheRecord DEF StoredContributions, At
  <2>2. partials[call[c].ballot] \in Read
      BY <2>1 DEF Gathering, TypeOK
  <2>3. [call[c] EXCEPT !.at = "countSum", !.given = partials[call[c].ballot]] \in Gathering
      BY <2>1, <2>2 DEF Gathering
  <2>4. \/ Ends(c)
        \/ call' = [call EXCEPT ![c] = [call[c] EXCEPT !.at = "countSum",
                                                       !.given = partials[call[c].ballot]]]
      BY <1>4 DEF StoredContributions
  <2> QED
      BY <1>1, <2>3, <2>4, EndsType DEF CallTypeOK, Places
<1>5. CASE SumOfUrn(c, "countSum", "count")
  <2>1. call[c] \in Gathering
      BY <1>1, <1>5, StepTellsTheRecord DEF SumOfUrn, At
  <2>2. urn[call[c].ballot] \in Contents
      BY <2>1 DEF Gathering, TypeOK
  <2>3. [call[c] EXCEPT !.at = "count", !.sum = urn[call[c].ballot]] \in Counting
      BY <2>1, <2>2 DEF Gathering, Counting
  <2>4. call' = [call EXCEPT ![c] = [call[c] EXCEPT !.at = "count", !.sum = urn[call[c].ballot]]]
      BY <1>5 DEF SumOfUrn
  <2> QED
      BY <1>1, <2>3, <2>4 DEF CallTypeOK, Places
<1>6. CASE \/ CountFromContributions(c) \/ SaveTally(c) \/ PostTally(c) \/ CommitTally(c)
  <2>1. /\ call[c].at \in {"count", "save", "countPost", "lateCountPost", "countCommit"}
        /\ \/ Ends(c)
           \/ \E s \in {"count", "save", "countPost", "lateCountPost", "countCommit"} : Goto(c, s)
           \/ Goto(c, "settle")
      BY <1>6 DEF CountFromContributions, FoundCounters, SaveTally, PostTally, CommitTally, At
  <2>2. \A s \in {"count", "save", "countPost", "lateCountPost", "countCommit", "settle"} :
            [call[c] EXCEPT !.at = s] \in Places
      BY <1>1, <2>1, StepTellsTheRecord, CountingMoves, CountingSettles DEF Places
  <2> QED
      BY <1>1, <2>1, <2>2, GotoType, EndsType
<1>7. ASSUME NEW b \in Ballots, SettleReads(c, b)
      PROVE  CallTypeOK'
  <2>1. call[c] \in Settling
      BY <1>1, <1>7, StepTellsTheRecord DEF SettleReads, At
  <2>2. \A s \in {"stamp", "settle"} :
            [call[c] EXCEPT !.seen = call[c].seen \cup {b}, !.at = s] \in Settling
      BY <2>1 DEF Settling
  <2>3. \/ Ends(c)
        \/ \E s \in {"stamp", "settle"} :
              call' = [call EXCEPT ![c] = [call[c] EXCEPT !.seen = call[c].seen \cup {b}, !.at = s]]
      BY <1>7 DEF SettleReads
  <2> QED
      BY <1>1, <2>2, <2>3, EndsType DEF CallTypeOK, Places
<1>8. CASE StampCompletion(c) \/ CasTallied(c)
  <2>1. call[c].at \in {"settle", "stamp", "cas"} /\ (Ends(c) \/ Goto(c, "cas"))
      BY <1>8 DEF StampCompletion, CasTallied, At
  <2>2. [call[c] EXCEPT !.at = "cas"] \in Places
      BY <1>1, <2>1, StepTellsTheRecord, SettlingMoves DEF Places
  <2> QED
      BY <1>1, <2>1, <2>2, GotoType, EndsType
<1> QED
    BY <1>2, <1>3, <1>4, <1>5, <1>6, <1>7, <1>8 DEF Counts

\* Type correctness: of the combination, which is a content.
LEMMA CombinedType ==
    ASSUME NEW c \in Calls, call[c] \in Counting
    PROVE  Combined(c) \in Contents
    BY DEF Combined, Counting, Contents

\* Beginning a call.
LEMMA BeginsType ==
    ASSUME TypeOK, NEW c \in Calls, NEW b \in Ballots,
           BeginCount(c, b) \/ \E t \in Trustees : BeginContribution(c, b, t)
    PROVE  /\ CallTypeOK'
           /\ call'[c] \in Approaching \cup Gathering
           /\ call'[c].at \in {"gate", "countGate"}
           /\ \A d \in Calls \ {c} : call'[d] = call[d]
<1>1. CallTypeOK
    BY DEF TypeOK, CallTypeOK
<1>2. CASE BeginCount(c, b)
  <2>1. [at |-> "countGate", ballot |-> b, found |-> None, given |-> NothingRead,
         sum |-> None, seen |-> {}] \in Gathering
      BY DEF Gathering, Stored, Read, NothingRead
  <2> QED
      BY <1>1, <1>2, <2>1 DEF BeginCount, CallTypeOK, Places
<1>3. ASSUME NEW t \in Trustees, BeginContribution(c, b, t)
      PROVE  /\ CallTypeOK'
             /\ call'[c] \in Approaching
             /\ call'[c].at = "gate"
             /\ \A d \in Calls \ {c} : call'[d] = call[d]
  <2>1. [at |-> "gate", ballot |-> b, trustee |-> t, sum |-> None] \in Approaching
      BY DEF Approaching
  <2> QED
      BY <1>1, <1>3, <2>1 DEF BeginContribution, CallTypeOK, Places
<1> QED
    BY <1>2, <1>3

\* Failing.
LEMMA FailsType ==
    ASSUME TypeOK, NEW c \in Calls,
           CallFails(c) \/ TransactionTimesOut(c) \/ AcknowledgementLost(c)
    PROVE  /\ CallTypeOK'
           /\ call'[c] = Idle \/ call'[c].at \in {"latePost", "lateCountPost"}
           /\ \A d \in Calls \ {c} : call'[d] = call[d]
<1>1. call[c] \in Places /\ CallTypeOK
    BY DEF TypeOK, CallTypeOK
<1>2. CASE CallFails(c) \/ AcknowledgementLost(c)
    BY <1>1, <1>2, EndsType DEF CallFails, AcknowledgementLost
<1>3. CASE TransactionTimesOut(c)
  <2>1. \/ call[c].at = "post" /\ Goto(c, "latePost")
        \/ call[c].at = "countPost" /\ Goto(c, "lateCountPost")
      BY <1>3 DEF TransactionTimesOut, At
  <2>2. /\ call[c].at = "post" =>
              call[c] \in Contributing /\ [call[c] EXCEPT !.at = "latePost"] \in Places
        /\ call[c].at = "countPost" =>
              call[c] \in Counting /\ [call[c] EXCEPT !.at = "lateCountPost"] \in Places
      BY <1>1, StepTellsTheRecord, ContributingMoves, CountingMoves DEF Places
  <2>3. CASE call[c].at = "post" /\ Goto(c, "latePost")
    <3>1. [call[c] EXCEPT !.at = "latePost"].at = "latePost"
        BY <2>2, <2>3 DEF Contributing
    <3> QED
        BY <1>1, <2>2, <2>3, <3>1, GotoType
  <2>4. CASE call[c].at = "countPost" /\ Goto(c, "lateCountPost")
    <3>1. [call[c] EXCEPT !.at = "lateCountPost"].at = "lateCountPost"
        BY <2>2, <2>4 DEF Counting
    <3> QED
        BY <1>1, <2>2, <2>4, <3>1, GotoType
  <2> QED
      BY <2>1, <2>3, <2>4
<1> QED
    BY <1>2, <1>3

\* Type correctness: of what is stored.
LEMMA CommitsType ==
    ASSUME TypeOK, NEW c \in Calls
    PROVE  /\ call[c].at = "commit" /\ ContributionOf(c) => partials' \in [Ballots -> Read]
           /\ call[c].at = "countCommit" /\ CountersOf(c) => counters' \in [Ballots -> Stored]
<1>1. call[c] \in Places
    BY DEF TypeOK
<1>2. ASSUME call[c].at = "commit", ContributionOf(c)
      PROVE  partials' \in [Ballots -> Read]
  <2>1. call[c] \in Contributing
      BY <1>1, <1>2, StepTellsTheRecord
  <2>2. /\ call[c].ballot \in Ballots
        /\ call[c].trustee \in Trustees
        /\ call[c].sum \in Stored
      BY <2>1 DEF Contributing, Stored
  <2>3. partials \in [Ballots -> Read]
      BY DEF TypeOK
  <2> QED
      BY <1>2, <2>2, <2>3 DEF ContributionOf, Read
<1>3. ASSUME call[c].at = "countCommit", CountersOf(c)
      PROVE  counters' \in [Ballots -> Stored]
  <2>1. call[c] \in Counting
      BY <1>1, <1>3, StepTellsTheRecord
  <2>2. Combined(c) \in Stored /\ call[c].ballot \in Ballots
      BY <2>1, CombinedType DEF Counting, Stored
  <2> QED
      BY <1>3, <2>2 DEF CountersOf, TypeOK
<1> QED
    BY <1>2, <1>3

LEMMA PostsType ==
    ASSUME TypeOK, NEW c \in Calls
    PROVE  /\ PostContribution(c) => partialPosts' \in [Ballots -> [Trustees -> Nat]]
           /\ PostTally(c) => tallyPosts' \in [Ballots -> Nat]
<1>1. call[c] \in Places
    BY DEF TypeOK
<1>2. ASSUME PostContribution(c)
      PROVE  partialPosts' \in [Ballots -> [Trustees -> Nat]]
  <2>1. call[c] \in Contributing
      BY <1>1, <1>2, StepTellsTheRecord DEF PostContribution, At
  <2>2. call[c].ballot \in Ballots /\ call[c].trustee \in Trustees
      BY <2>1 DEF Contributing
  <2>3. partialPosts \in [Ballots -> [Trustees -> Nat]]
      BY DEF TypeOK
  <2> QED
      BY <1>2, <2>2, <2>3 DEF PostContribution
<1>3. ASSUME PostTally(c)
      PROVE  tallyPosts' \in [Ballots -> Nat]
  <2>1. call[c].ballot \in Ballots
      BY <1>1, <1>3, StepTellsTheRecord DEF PostTally, At, Counting
  <2> QED
      BY <1>3, <2>1 DEF PostTally, TypeOK
<1> QED
    BY <1>2, <1>3

LEMMA TypeStep == TypeOK /\ [Next]_tallyVars => TypeOK'
<1> SUFFICES ASSUME TypeOK, [Next]_tallyVars
             PROVE  TypeOK'
    OBVIOUS
<1> DEFINE DbTypeOK ==
        /\ phase \in Phases /\ rooted \in BOOLEAN
        /\ partialPosts \in [Ballots -> [Trustees -> Nat]]
        /\ tallyPosts \in [Ballots -> Nat] /\ talliedPosts \in Nat
        /\ urn \in [Ballots -> Contents]
        /\ partials \in [Ballots -> Read] /\ counters \in [Ballots -> Stored]
        /\ completedAt \in BOOLEAN
        /\ faults \in 0..MaxFaults /\ outside \in 0..MaxOutside
<1>1. DbTypeOK /\ CallTypeOK
    BY DEF TypeOK, CallTypeOK
<1>2. SUFFICES DbTypeOK' /\ CallTypeOK'
    BY DEF TypeOK, CallTypeOK
<1>3. ASSUME NoWrite
      PROVE  DbTypeOK'
    BY <1>1, <1>3 DEF NoWrite, posts, votesDb, Bounds
<1>4. ASSUME NEW c \in Calls, Contributes(c)
      PROVE  DbTypeOK'
  <2>2. CASE PostContribution(c)
      BY <1>1, <2>2, PostsType DEF PostContribution, votesDb, Bounds
  <2>3. CASE CommitContribution(c)
      BY <1>1, <2>3, CommitsType DEF CommitContribution, posts, Bounds, At
  <2> QED
      BY <1>3, <1>4, <2>2, <2>3 DEF Contributes, Gate, HasContributed, SumOfUrn,
         RootOfContribution, UnlockShare, StoreContribution
<1>5. ASSUME NEW c \in Calls, Counts(c)
      PROVE  DbTypeOK'
  <2>2. CASE PostTally(c)
      BY <1>1, <2>2, PostsType DEF PostTally, votesDb, Bounds
  <2>3. CASE CommitTally(c)
      BY <1>1, <2>3, CommitsType DEF CommitTally, posts, Bounds, At
  <2>4. CASE StampCompletion(c)
      BY <1>1, <2>4 DEF StampCompletion, posts, Bounds
  <2>5. CASE CasTallied(c)
      BY <1>1, <2>5 DEF CasTallied, votesDb, Bounds, Phases
  <2> QED
      BY <1>3, <1>5, <2>2, <2>3, <2>4, <2>5 DEF Counts, Gate, StoredTally,
         StoredContributions, SumOfUrn, CountFromContributions, SaveTally, SettleReads
<1>6. ASSUME NEW c \in Calls, CallFails(c) \/ TransactionTimesOut(c) \/ AcknowledgementLost(c)
      PROVE  DbTypeOK'
  <2>1. Fault => faults' \in 0..MaxFaults /\ outside' \in 0..MaxOutside
      BY <1>1, TallyAssumption DEF Fault
  <2>2. CASE CallFails(c) \/ TransactionTimesOut(c)
      BY <1>1, <2>1, <2>2 DEF CallFails, TransactionTimesOut, posts, votesDb
  <2>3. CASE AcknowledgementLost(c)
      BY <1>1, <2>1, <2>3, CommitsType DEF AcknowledgementLost, posts, At
  <2> QED
      BY <1>6, <2>2, <2>3
<1>7. ASSUME NEW c \in Calls, NEW b \in Ballots,
             BeginCount(c, b) \/ \E t \in Trustees : BeginContribution(c, b, t)
      PROVE  DbTypeOK' /\ CallTypeOK'
  <2>1. NoWrite
      BY <1>7 DEF BeginCount, BeginContribution
  <2> QED
      BY <1>3, <1>7, <2>1, BeginsType
<1>8. CASE Strips \/ Certifies
    BY <1>1, <1>8 DEF Strips, Certifies, posts, votesDb, Bounds, Phases, CallTypeOK
<1>9. CASE OutsideVotes
  <2>1. outside' \in 0..MaxOutside /\ faults' \in 0..MaxFaults
      BY <1>1, <1>9, TallyAssumption DEF OutsideVotes, WrittenOutside
  <2>2. /\ {"other", "disguised"} \subseteq Contents
        /\ {"other", None} \subseteq Stored
      BY DEF Contents, Stored
  <2>3. PICK b \in Ballots :
          \/ \E v \in Contents :
                urn' = [urn EXCEPT ![b] = v] /\ UNCHANGED <<partials, counters>>
          \/ \E t \in Trustees, v \in Stored :
                partials' = [partials EXCEPT ![b][t] = v] /\ UNCHANGED <<urn, counters>>
          \/ \E v \in Stored :
                counters' = [counters EXCEPT ![b] = v] /\ UNCHANGED <<urn, partials>>
      BY <1>9, <2>2 DEF OutsideVotes
  <2>5. partials \in [Ballots -> [Trustees -> Stored]]
      BY <1>1 DEF Read
  <2>6. ASSUME NEW t \in Trustees, NEW v \in Stored, partials' = [partials EXCEPT ![b][t] = v]
        PROVE  partials' \in [Ballots -> [Trustees -> Stored]]
      BY <2>5, <2>6
  <2>4. /\ urn' \in [Ballots -> Contents]
        /\ partials' \in [Ballots -> Read]
        /\ counters' \in [Ballots -> Stored]
      BY <1>1, <2>3, <2>5, <2>6 DEF Read
  <2> QED
      BY <1>1, <1>9, <2>1, <2>4 DEF OutsideVotes, posts, CallTypeOK
<1>10. CASE OutsidePhase
    BY <1>1, <1>10, TallyAssumption DEF OutsidePhase, WrittenOutside, posts, votesDb, CallTypeOK
<1>11. CASE UNCHANGED tallyVars
    BY <1>1, <1>11 DEF tallyVars, posts, votesDb, CallTypeOK
<1> QED
    BY <1>4, <1>5, <1>6, <1>7, <1>8, <1>9, <1>10, <1>11,
       ContributesType, CountsType, FailsType DEF Next, CallNext

LEMMA TypeInit == Init => TypeOK
<1> SUFFICES ASSUME Init PROVE TypeOK
    OBVIOUS
<1>1. call \in [Calls -> Places]
  <2>1. Idle \in Places
      BY DEF Places
  <2> QED
      BY <2>1 DEF Init
<1>2. /\ partialPosts \in [Ballots -> [Trustees -> Nat]]
      /\ tallyPosts \in [Ballots -> Nat] /\ talliedPosts \in Nat
    BY DEF Init
<1>3. urn \in [Ballots -> Contents] /\ counters \in [Ballots -> Stored]
    BY DEF Init, Contents, Stored
<1>4. partials \in [Ballots -> Read]
    BY DEF Init, Stored, Read
<1>5. phase \in Phases /\ rooted \in BOOLEAN /\ completedAt \in BOOLEAN
    BY DEF Init, Phases
<1>6. faults \in 0..MaxFaults /\ outside \in 0..MaxOutside
    BY TallyAssumption DEF Init
<1> QED
    BY <1>1, <1>2, <1>3, <1>4, <1>5, <1>6 DEF TypeOK

\* Every reachable state of the tally is well typed.
THEOREM TallyTypeCorrect == Spec => []TypeOK
<1> QED
    BY TypeInit, TypeStep, PTL DEF Spec


----------------------------------------------------------------------------
(***************************************************************************)
(* What a call holds when it writes.                                       *)
(***************************************************************************)
\* The steps of a contribution that has passed the gate, and the root.
PastTheGate == {"before", "sum", "root", "unlock", "store", "post", "commit"}
PastTheRoot == {"unlock", "store", "post", "commit"}

\* The steps of a count that has verified, and that holds the ballot's lock.
HasVerified == {"save", "countPost", "countCommit"}
HoldsLock   == {"countPost", "countCommit"}

\* What a call has made sure of by then.
MadeSure(c) ==
    /\ call[c].at \in PastTheGate => rooted
    /\ call[c].at \in PastTheRoot => call[c].sum = "moved"
    /\ call[c].at \in HasVerified => Combined(c) = "moved"

\* Nobody else has saved, or is saving, the ballot whose lock a count holds.
Locked(c) ==
    call[c].at \in HoldsLock =>
        /\ counters[call[c].ballot] = None
        /\ \A d \in Calls \ {c} :
              call[d].at \in HoldsLock => call[d].ballot # call[c].ballot

WritesInv == \A c \in Calls : MadeSure(c) /\ Locked(c)

\* A step that only moves a call on keeps what the call has read.
LEMMA GotoKeeps ==
    ASSUME CallTypeOK, NEW c \in Calls, NEW s, call[c] # Idle, Goto(c, s)
    PROVE  /\ call'[c].at = s
           /\ call'[c].ballot = call[c].ballot
           /\ call'[c].sum = call[c].sum
           /\ call[c] \in Approaching \cup Contributing => call'[c].trustee = call[c].trustee
           /\ call[c] \in Gathering \cup Counting \cup Settling
                => call'[c].given = call[c].given /\ Combined(c)' = Combined(c)
           /\ \A d \in Calls \ {c} : call'[d] = call[d]
<1>1. call[c] \in Approaching \cup Contributing \cup Gathering \cup Counting \cup Settling
    BY DEF CallTypeOK, Places
<1>2. /\ call'[c] = [call[c] EXCEPT !.at = s]
      /\ \A d \in Calls \ {c} : call'[d] = call[d]
    BY DEF Goto, CallTypeOK
<1>3. /\ call'[c].at = s
      /\ call'[c].ballot = call[c].ballot
      /\ call'[c].sum = call[c].sum
    BY <1>1, <1>2 DEF Approaching, Contributing, Gathering, Counting, Settling
<1>4. call[c] \in Approaching \cup Contributing => call'[c].trustee = call[c].trustee
    BY <1>2 DEF Approaching, Contributing
<1>5. call[c] \in Gathering \cup Counting \cup Settling
         => call'[c].given = call[c].given /\ Combined(c)' = Combined(c)
  <2>1. call[c] \in Gathering \cup Counting \cup Settling => call'[c].given = call[c].given
      BY <1>2 DEF Gathering, Counting, Settling
  <2> QED
      BY <2>1, <1>3 DEF Combined, BelongToSum, GivenBy
<1> QED
    BY <1>2, <1>3, <1>4, <1>5

\* A call that ends has nothing to answer for.
LEMMA EndsKeeps ==
    ASSUME CallTypeOK, NEW c \in Calls, Ends(c)
    PROVE  MadeSure(c)' /\ Locked(c)' /\ \A d \in Calls \ {c} : call'[d] = call[d]
<1>1. call'[c] = Idle /\ \A d \in Calls \ {c} : call'[d] = call[d]
    BY EndsType
<1>2. call'[c].at = "idle"
    BY <1>1 DEF Idle
<1> QED
    BY <1>1, <1>2 DEF MadeSure, Locked, PastTheGate, PastTheRoot, HasVerified, HoldsLock

\* A step of a contribution makes sure of what the next one needs.
LEMMA ContributesMakesSure ==
    ASSUME TypeOK, NEW c \in Calls, MadeSure(c), Contributes(c)
    PROVE  /\ MadeSure(c)'
           /\ call'[c].at \notin HoldsLock
           /\ \A d \in Calls \ {c} : call'[d] = call[d]
<1> USE DEF PastTheGate, PastTheRoot, HasVerified, HoldsLock
<1>1. CallTypeOK /\ call[c] \in Places
    BY DEF TypeOK, CallTypeOK
<1>2. call[c].at \in {"gate", "before", "sum", "root", "unlock", "store", "post", "latePost", "commit"}
    BY DEF Contributes, Gate, HasContributed, SumOfUrn, RootOfContribution, UnlockShare,
           StoreContribution, PostContribution, CommitContribution, At
<1>3. call[c] # Idle /\ rooted' = rooted
    BY <1>2 DEF Idle, Contributes, Gate, HasContributed, SumOfUrn, RootOfContribution, UnlockShare,
           StoreContribution, PostContribution, CommitContribution, NoWrite
<1>4. CASE Ends(c)
  <2>1. call'[c].at = "idle"
      BY <1>1, <1>4, EndsType DEF Idle
  <2> QED
      BY <1>1, <1>4, <2>1, EndsKeeps
<1>5. CASE \E s \in {"before", "sum", "unlock", "store", "post", "commit"} : Goto(c, s) /\
              \/ s = "before" /\ GateIsOpen
              \/ s = "sum" /\ call[c].at = "before"
              \/ s = "unlock" /\ call[c].at = "root" /\ HasUrnRoot(c)
              \/ s \in {"store", "post", "commit"} /\ call[c].at \in PastTheRoot
  <2>1. PICK s \in {"before", "sum", "unlock", "store", "post", "commit"} : Goto(c, s) /\
              \/ s = "before" /\ GateIsOpen
              \/ s = "sum" /\ call[c].at = "before"
              \/ s = "unlock" /\ call[c].at = "root" /\ HasUrnRoot(c)
              \/ s \in {"store", "post", "commit"} /\ call[c].at \in PastTheRoot
      BY <1>5
  <2>2. /\ call'[c].at = s /\ call'[c].sum = call[c].sum
        /\ \A d \in Calls \ {c} : call'[d] = call[d]
      BY <1>1, <1>3, <2>1, GotoKeeps
  <2> QED
      BY <1>3, <2>1, <2>2 DEF MadeSure, GateIsOpen, HasUrnRoot
<1>6. CASE SumOfUrn(c, "sum", "root")
  <2>1. /\ call'[c] = [call[c] EXCEPT !.at = "root", !.sum = urn[call[c].ballot]]
        /\ \A d \in Calls \ {c} : call'[d] = call[d]
        /\ call[c].at = "sum"
      BY <1>1, <1>6 DEF SumOfUrn, CallTypeOK, At
  <2>2. call[c] \in Approaching
      BY <1>1, <2>1, StepTellsTheRecord
  <2>3. call'[c].at = "root"
      BY <2>1, <2>2 DEF Approaching
  <2> QED
      BY <1>3, <2>1, <2>3 DEF MadeSure
<1> QED
    BY <1>4, <1>5, <1>6 DEF Contributes, Gate, HasContributed, RootOfContribution, UnlockShare,
           StoreContribution, PostContribution, CommitContribution, At

\* A count takes the ballot's lock when it is free and the ballot not counted.
TakesLock(c) ==
    /\ call[c].at = "save" /\ Saving(call[c].ballot) = {}
    /\ counters[call[c].ballot] = None

\* A step of a count makes sure of what the next one needs.
LEMMA CountsMakesSure ==
    ASSUME TypeOK, NEW c \in Calls, MadeSure(c), Counts(c)
    PROVE  /\ MadeSure(c)'
           /\ call'[c].at \in HoldsLock =>
                 /\ call'[c].ballot = call[c].ballot /\ counters' = counters
                 /\ call[c].at \in HoldsLock \/ TakesLock(c)
           /\ counters' # counters => At(c, "countCommit") /\ CountersOf(c)
           /\ \A d \in Calls \ {c} : call'[d] = call[d]
<1> USE DEF PastTheGate, PastTheRoot, HasVerified, HoldsLock
<1>1. CallTypeOK /\ call[c] \in Places
    BY DEF TypeOK, CallTypeOK
<1>2. call[c].at \in {"countGate", "stored", "read", "countSum", "count", "save", "countPost",
                      "lateCountPost", "countCommit", "settle", "stamp", "cas"}
    BY DEF Counts, Gate, StoredTally, StoredContributions, SumOfUrn, CountFromContributions,
           SaveTally, PostTally, CommitTally, SettleReads, StampCompletion, CasTallied, At
<1>3. call[c] # Idle
    BY <1>2 DEF Idle
<1>4. counters' = counters \/ (At(c, "countCommit") /\ CountersOf(c))
    BY DEF Counts, Gate, StoredTally, StoredContributions, SumOfUrn, CountFromContributions,
           SaveTally, PostTally, CommitTally, SettleReads, StampCompletion, CasTallied,
           NoWrite, votesDb
<1>5. CASE Ends(c)
  <2>1. call'[c].at = "idle"
      BY <1>1, <1>5, EndsType DEF Idle
  <2> QED
      BY <1>1, <1>4, <1>5, <2>1, EndsKeeps
<1>6. CASE \E s \in {"stored", "settle", "cas"} : Goto(c, s)
  <2>1. PICK s \in {"stored", "settle", "cas"} : Goto(c, s)
      BY <1>6
  <2>2. call'[c].at = s /\ \A d \in Calls \ {c} : call'[d] = call[d]
      BY <1>1, <1>3, <2>1, GotoKeeps
  <2> QED
      BY <1>4, <2>2 DEF MadeSure
<1>7. CASE CountFromContributions(c) /\ Goto(c, "save")
  <2>1. call[c].at = "count" /\ HasUrnRoot(c) /\ Verified(c) /\ counters' = counters
      BY <1>1, <1>3, <1>7, <1>4, GotoKeeps, EndsType
         DEF CountFromContributions, FoundCounters, At, Idle, NoWrite, votesDb
  <2>2. call[c] \in Counting
      BY <1>1, <2>1, StepTellsTheRecord
  <2>3. /\ call'[c].at = "save" /\ Combined(c)' = Combined(c)
        /\ \A d \in Calls \ {c} : call'[d] = call[d]
      BY <1>1, <1>3, <1>7, <2>2, GotoKeeps
  <2>4. Combined(c) = "moved"
      BY <2>1 DEF HasUrnRoot, Verified, Combined, BelongToSum
  <2> QED
      BY <2>1, <2>3, <2>4 DEF MadeSure
<1>8. CASE SaveTally(c) /\ Goto(c, "countPost")
  <2>1. call[c].at = "save" /\ Saving(call[c].ballot) = {} /\ counters' = counters
      BY <1>8 DEF SaveTally, At, NoWrite, votesDb
  <2>2. call[c] \in Counting
      BY <1>1, <2>1, StepTellsTheRecord
  <2>3. /\ call'[c].at = "countPost" /\ Combined(c)' = Combined(c)
        /\ call'[c].ballot = call[c].ballot
        /\ \A d \in Calls \ {c} : call'[d] = call[d]
      BY <1>1, <1>3, <1>8, <2>2, GotoKeeps
  <2>4. counters[call[c].ballot] = None
      BY <1>1, <1>3, <1>8, <2>3, GotoKeeps, EndsType DEF SaveTally, Idle
  <2> QED
      BY <2>1, <2>2, <2>3, <2>4 DEF MadeSure, TakesLock
<1>9. CASE PostTally(c) /\ Goto(c, "countCommit")
  <2>1. call[c].at = "countPost" /\ counters' = counters
      BY <1>1, <1>3, <1>9, GotoKeeps, EndsType DEF PostTally, At, Idle, votesDb
  <2>2. call[c] \in Counting
      BY <1>1, <2>1, StepTellsTheRecord
  <2>3. /\ call'[c].at = "countCommit" /\ Combined(c)' = Combined(c)
        /\ call'[c].ballot = call[c].ballot
        /\ \A d \in Calls \ {c} : call'[d] = call[d]
      BY <1>1, <1>3, <1>9, <2>2, GotoKeeps
  <2> QED
      BY <2>1, <2>3 DEF MadeSure
<1>10. CASE StoredTally(c) \/ StoredContributions(c) \/ SumOfUrn(c, "countSum", "count")
            \/ \E b \in Ballots : SettleReads(c, b)
  <2>1. CASE Ends(c)
      BY <1>5, <2>1
  <2>2. CASE \E s \in {"read", "countSum", "count", "stamp", "settle"} :
                call'[c].at = s /\ \A d \in Calls \ {c} : call'[d] = call[d]
      BY <2>2, <1>4 DEF MadeSure
  <2>3. call[c] \in Gathering \cup Settling
      BY <1>1, <1>10, StepTellsTheRecord
         DEF StoredTally, StoredContributions, SumOfUrn, SettleReads, At
  <2>4. CASE StoredTally(c)
      BY <1>1, <2>2, <2>3, <2>4 DEF StoredTally, CallTypeOK, Gathering, Settling
  <2>5. CASE StoredContributions(c)
      BY <1>1, <2>1, <2>2, <2>3, <2>5 DEF StoredContributions, CallTypeOK, Gathering, Settling
  <2>6. CASE SumOfUrn(c, "countSum", "count")
      BY <1>1, <2>2, <2>3, <2>6 DEF SumOfUrn, CallTypeOK, Gathering, Settling
  <2>7. CASE \E b \in Ballots : SettleReads(c, b)
      BY <1>1, <2>1, <2>2, <2>3, <2>7 DEF SettleReads, CallTypeOK, Gathering, Settling
  <2> QED
      BY <1>10, <2>4, <2>5, <2>6, <2>7
<1> QED
    BY <1>5, <1>6, <1>7, <1>8, <1>9, <1>10
       DEF Counts, Gate, CountFromContributions, FoundCounters, SaveTally, PostTally, CommitTally,
           StampCompletion, CasTallied, At

\* A step of one call leaves the others where they are.
LEMMA OthersStandStill ==
    ASSUME TypeOK, NEW c \in Calls, Contributes(c) \/ Counts(c), NEW d \in Calls \ {c}
    PROVE  call'[d] = call[d]
    BY DEF Contributes, Counts, Gate, HasContributed, SumOfUrn, RootOfContribution,
           UnlockShare, StoreContribution, PostContribution, CommitContribution, StoredTally,
           StoredContributions, CountFromContributions, FoundCounters, SaveTally, PostTally,
           CommitTally, SettleReads, StampCompletion, CasTallied, Goto, Ends, TypeOK

\* What a call has made sure of stays so while it stands still.
LEMMA StillMadeSure ==
    ASSUME NEW d \in Calls, MadeSure(d), call'[d] = call[d], rooted => rooted'
    PROVE  MadeSure(d)'
<1>1. Combined(d)' = Combined(d)
    BY DEF Combined, BelongToSum, GivenBy
<1> QED
    BY <1>1 DEF MadeSure

\* A step of one call, seen by all of them.
LEMMA OneCallMoves ==
    ASSUME WritesInv, NEW c \in Calls, MadeSure(c)', rooted => rooted',
           \A d \in Calls \ {c} : call'[d] = call[d],
           call'[c].at \in HoldsLock =>
               /\ call'[c].ballot = call[c].ballot /\ counters' = counters
               /\ call[c].at \in HoldsLock \/ TakesLock(c),
           counters' # counters => At(c, "countCommit") /\ CountersOf(c)
    PROVE  WritesInv'
<1>1. \A d \in Calls : MadeSure(d)'
    BY StillMadeSure DEF WritesInv
<1>2. ASSUME NEW d \in Calls, call'[d].at \in HoldsLock
      PROVE  counters'[call'[d].ballot] = None
  <2>1. CASE d = c
      BY <1>2, <2>1 DEF WritesInv, Locked, TakesLock
  <2>2. CASE d # c
    <3>1. /\ call'[d] = call[d] /\ counters[call[d].ballot] = None
          /\ call[c].at \in HoldsLock => call[c].ballot # call[d].ballot
        BY <1>2, <2>2 DEF WritesInv, Locked
    <3>2. CASE counters' = counters
        BY <3>1, <3>2
    <3>3. CASE At(c, "countCommit") /\ CountersOf(c)
      <4>1. call[c].ballot # call[d].ballot
          BY <3>1, <3>3 DEF At, HoldsLock
      <4> QED
          BY <3>1, <3>3, <4>1 DEF CountersOf
    <3> QED
        BY <3>2, <3>3
  <2> QED
      BY <2>1, <2>2
<1>3. ASSUME NEW d \in Calls, NEW e \in Calls \ {d},
             call'[d].at \in HoldsLock, call'[e].at \in HoldsLock
      PROVE  call'[e].ballot # call'[d].ballot
  <2>1. CASE d # c /\ e # c
      BY <1>3, <2>1 DEF WritesInv, Locked
  <2>2. ASSUME NEW x \in Calls \ {c}, call'[x].at \in HoldsLock, call'[c].at \in HoldsLock
        PROVE  call'[x].ballot # call'[c].ballot
    <3>1. call'[x] = call[x] /\ call'[c].ballot = call[c].ballot
        BY <2>2
    <3>2. CASE call[c].at \in HoldsLock
        BY <2>2, <3>1, <3>2 DEF WritesInv, Locked
    <3>3. CASE TakesLock(c)
        BY <2>2, <3>1, <3>3 DEF TakesLock, Saving, HoldsLock
    <3> QED
        BY <2>2, <3>2, <3>3
  <2> QED
      BY <1>3, <2>1, <2>2
<1> QED
    BY <1>1, <1>2, <1>3 DEF WritesInv, Locked

LEMMA WritesStep ==
    ASSUME TypeOK, WritesInv, [Next]_tallyVars
    PROVE  WritesInv'
<1>1. CallTypeOK
    BY DEF TypeOK, CallTypeOK
<1>2. ASSUME NEW c \in Calls, Contributes(c)
      PROVE  WritesInv'
  <2>1. rooted' = rooted /\ counters' = counters
      BY <1>2 DEF Contributes, Gate, HasContributed, SumOfUrn, RootOfContribution, UnlockShare,
           StoreContribution, PostContribution, CommitContribution, NoWrite, votesDb
  <2> QED
      BY <1>2, <2>1, ContributesMakesSure, OneCallMoves DEF WritesInv
<1>3. ASSUME NEW c \in Calls, Counts(c)
      PROVE  WritesInv'
  <2>1. rooted' = rooted
      BY <1>3 DEF Counts, Gate, StoredTally, StoredContributions, SumOfUrn,
           CountFromContributions, SaveTally, PostTally, CommitTally, SettleReads,
           StampCompletion, CasTallied, NoWrite
  <2> QED
      BY <1>3, <2>1, CountsMakesSure, OneCallMoves DEF WritesInv
<1>4. ASSUME NEW c \in Calls, CallFails(c) \/ TransactionTimesOut(c) \/ AcknowledgementLost(c)
      PROVE  WritesInv'
  <2>1. rooted' = rooted /\ (counters' # counters => At(c, "countCommit") /\ CountersOf(c))
      BY <1>4 DEF CallFails, TransactionTimesOut, AcknowledgementLost, votesDb
  <2>2. CASE Ends(c)
    <3>1. MadeSure(c)' /\ \A d \in Calls \ {c} : call'[d] = call[d]
        BY <1>1, <2>2, EndsKeeps
    <3>2. call'[c].at \notin HoldsLock
        BY <1>1, <2>2, EndsType DEF Idle, HoldsLock
    <3> QED
        BY <2>1, <3>1, <3>2, OneCallMoves
  <2>3. CASE TransactionTimesOut(c)
    <3>1. PICK s \in {"latePost", "lateCountPost"} : Goto(c, s) /\ call[c].at \in {"post", "countPost"}
        BY <2>3 DEF TransactionTimesOut, At
    <3>2. call'[c].at = s /\ \A d \in Calls \ {c} : call'[d] = call[d]
        BY <1>1, <3>1, GotoKeeps DEF Idle
    <3>3. MadeSure(c)' /\ call'[c].at \notin HoldsLock
        BY <3>2 DEF MadeSure, PastTheGate, PastTheRoot, HasVerified, HoldsLock
    <3> QED
        BY <2>1, <3>2, <3>3, OneCallMoves
  <2> QED
      BY <1>4, <2>2, <2>3 DEF CallFails, AcknowledgementLost
<1>5. ASSUME NEW c \in Calls, NEW b \in Ballots,
             BeginCount(c, b) \/ \E t \in Trustees : BeginContribution(c, b, t)
      PROVE  WritesInv'
  <2>1. /\ call'[c].at \in {"gate", "countGate"} /\ \A d \in Calls \ {c} : call'[d] = call[d]
        /\ rooted' = rooted /\ counters' = counters
      BY <1>1, <1>5 DEF BeginCount, BeginContribution, CallTypeOK, NoWrite, votesDb
  <2>2. MadeSure(c)' /\ call'[c].at \notin HoldsLock
      BY <2>1 DEF MadeSure, PastTheGate, PastTheRoot, HasVerified, HoldsLock
  <2> QED
      BY <2>1, <2>2, OneCallMoves
<1>6. ASSUME call' = call, rooted => rooted',
             \A c \in Calls : call[c].at \in HoldsLock =>
                 counters'[call[c].ballot] = counters[call[c].ballot]
      PROVE  WritesInv'
  <2>1. \A d \in Calls : MadeSure(d)'
      BY <1>6, StillMadeSure DEF WritesInv
  <2> QED
      BY <1>6, <2>1 DEF WritesInv, Locked
<1>7. CASE Strips \/ Certifies \/ OutsidePhase \/ UNCHANGED tallyVars
    BY <1>6, <1>7 DEF Strips, Certifies, OutsidePhase, tallyVars, votesDb
<1>8. CASE OutsideVotes
  <2>1. call' = call /\ rooted' = rooted
      BY <1>8 DEF OutsideVotes
  <2>2. counters' = counters \/
           \E b \in Ballots : /\ Saving(b) = {}
                              /\ \E v \in {"other", None} : counters' = [counters EXCEPT ![b] = v]
      BY <1>8 DEF OutsideVotes
  <2>3. \A c \in Calls : call[c].at \in HoldsLock =>
                 counters'[call[c].ballot] = counters[call[c].ballot]
    <3> SUFFICES ASSUME NEW c \in Calls, call[c].at \in HoldsLock, counters' # counters
                 PROVE  counters'[call[c].ballot] = counters[call[c].ballot]
        OBVIOUS
    <3>1. PICK b \in Ballots, v \in {"other", None} :
              Saving(b) = {} /\ counters' = [counters EXCEPT ![b] = v]
        BY <2>2
    <3>2. call[c].ballot # b
        BY <3>1 DEF Saving, HoldsLock
    <3>3. call[c].ballot \in Ballots /\ counters \in [Ballots -> Stored]
        BY <1>1, StepTellsTheRecord DEF CallTypeOK, TypeOK, Idle, HoldsLock
    <3> QED
        BY <3>1, <3>2, <3>3
  <2> QED
      BY <1>6, <2>1, <2>3
<1> QED
    BY <1>2, <1>3, <1>4, <1>5, <1>7, <1>8 DEF Next, CallNext

LEMMA WritesInit == Init => WritesInv
    BY DEF Init, WritesInv, MadeSure, Locked, Idle, PastTheGate, PastTheRoot, HasVerified, HoldsLock

LEMMA WritesAlways == Spec => [](TypeOK /\ WritesInv)
<1>1. Init => TypeOK /\ WritesInv
    BY TypeInit, WritesInit
<1>2. TypeOK /\ WritesInv /\ [Next]_tallyVars => TypeOK' /\ WritesInv'
    BY TypeStep, WritesStep
<1> QED
    BY <1>1, <1>2, PTL DEF Spec

----------------------------------------------------------------------------
(***************************************************************************)
(* The theorems about what is written.  Both allow any number of writes    *)
(* past the application before the step in question.                       *)
(***************************************************************************)
\* What a call holds when it writes makes each step open the moved sum only.
LEMMA OpeningStep ==
    ASSUME TypeOK, WritesInv, [Next]_tallyVars
    PROVE  OpensTheMovedSum
<1> DEFINE Opened ==
        outside' = outside =>
            \A b \in Ballots, t \in Trustees : partials'[b][t] # partials[b][t]
                => rooted /\ partials'[b][t] = "moved"
<1>1. ASSUME TypeOK, WritesInv, Next
      PROVE  Opened
  <2>1. CASE partials' = partials
      BY <2>1
  <2>2. CASE OutsideVotes
    <3>1. outside' # outside
        BY <1>1, <2>2, TallyAssumption DEF OutsideVotes, WrittenOutside, TypeOK
    <3> QED
        BY <3>1
  <2>3. ASSUME NEW c \in Calls, At(c, "commit"), ContributionOf(c)
        PROVE  Opened
    <3>1. call[c].sum = "moved" /\ rooted
        BY <1>1, <2>3 DEF WritesInv, MadeSure, At, PastTheGate, PastTheRoot
    <3>2. partials \in [Ballots -> [Trustees -> Stored]]
        BY <1>1 DEF TypeOK, Read
    <3> QED
        BY <2>3, <3>1, <3>2 DEF ContributionOf
  <2>4. \/ partials' = partials \/ OutsideVotes
        \/ \E c \in Calls : At(c, "commit") /\ ContributionOf(c)
    <3>1. ASSUME NEW c \in Calls, Contributes(c)
          PROVE  partials' = partials \/ (At(c, "commit") /\ ContributionOf(c))
        BY <3>1 DEF Contributes, Gate, HasContributed, SumOfUrn, RootOfContribution, UnlockShare,
           StoreContribution, PostContribution, CommitContribution, NoWrite, votesDb
    <3>2. ASSUME NEW c \in Calls, Counts(c)
          PROVE  partials' = partials
        BY <3>2 DEF Counts, Gate, StoredTally, StoredContributions, SumOfUrn,
           CountFromContributions, SaveTally, PostTally, CommitTally, SettleReads,
           StampCompletion, CasTallied, NoWrite, votesDb
    <3>3. ASSUME NEW c \in Calls,
                 \/ CallFails(c) \/ TransactionTimesOut(c) \/ AcknowledgementLost(c)
                 \/ \E b \in Ballots : BeginCount(c, b) \/ \E t \in Trustees : BeginContribution(c, b, t)
          PROVE  partials' = partials \/ (At(c, "commit") /\ ContributionOf(c))
        BY <3>3 DEF CallFails, TransactionTimesOut, AcknowledgementLost, BeginCount,
           BeginContribution, NoWrite, votesDb
    <3> QED
        BY <1>1, <3>1, <3>2, <3>3
           DEF Next, CallNext, Strips, Certifies, OutsidePhase, votesDb
  <2> QED
      BY <2>1, <2>2, <2>3, <2>4
<1>2. ASSUME UNCHANGED tallyVars
      PROVE  Opened
    BY <1>2 DEF tallyVars, votesDb
<1>3. DOMAIN partials = Ballots /\ \A b \in Ballots : DOMAIN partials[b] = Trustees
    BY DEF TypeOK, Read
<1> QED
    BY <1>1, <1>2, <1>3 DEF OpensTheMovedSum

\* A contribution appears only under the sum of the rows the closing moved and
\* only once the link is erased, whatever was written to the votes database
\* between the trustee's read of the urn and the commit.
THEOREM SharesOpenOnlyTheMovedSum == Spec => OnlyTheMovedSumIsOpened
<1>1. TypeOK /\ WritesInv /\ [Next]_tallyVars => [OpensTheMovedSum]_tallyVars
    BY OpeningStep
<1> QED
    BY <1>1, WritesAlways, PTL DEF Spec, OnlyTheMovedSumIsOpened

\* And save counters of the moved votes only.
LEMMA SavingStep ==
    ASSUME TypeOK, WritesInv, [Next]_tallyVars
    PROVE  CountsTheMovedVotes
<1> DEFINE Moves ==
        outside' = outside =>
            \A b \in Ballots : counters'[b] # counters[b]
                => counters[b] = None /\ counters'[b] = "moved"
<1>1. ASSUME TypeOK, WritesInv, Next
      PROVE  Moves
  <2>1. CASE counters' = counters
      BY <2>1
  <2>2. CASE OutsideVotes
    <3>1. outside' # outside
        BY <1>1, <2>2, TallyAssumption DEF OutsideVotes, WrittenOutside, TypeOK
    <3> QED
        BY <3>1
  <2>3. ASSUME NEW c \in Calls, At(c, "countCommit"), CountersOf(c)
        PROVE  Moves
    <3>1. Combined(c) = "moved" /\ counters[call[c].ballot] = None
        BY <1>1, <2>3 DEF WritesInv, MadeSure, Locked, At, HasVerified, HoldsLock
    <3>2. counters \in [Ballots -> Stored]
        BY <1>1 DEF TypeOK
    <3> QED
        BY <2>3, <3>1, <3>2 DEF CountersOf
  <2>4. \/ counters' = counters \/ OutsideVotes
        \/ \E c \in Calls : At(c, "countCommit") /\ CountersOf(c)
    <3>1. ASSUME NEW c \in Calls, Contributes(c)
          PROVE  counters' = counters
        BY <3>1 DEF Contributes, Gate, HasContributed, SumOfUrn, RootOfContribution, UnlockShare,
           StoreContribution, PostContribution, CommitContribution, NoWrite, votesDb
    <3>2. ASSUME NEW c \in Calls, Counts(c)
          PROVE  counters' = counters \/ (At(c, "countCommit") /\ CountersOf(c))
        BY <1>1, <3>2, CountsMakesSure DEF WritesInv
    <3>3. ASSUME NEW c \in Calls,
                 \/ CallFails(c) \/ TransactionTimesOut(c) \/ AcknowledgementLost(c)
                 \/ \E b \in Ballots : BeginCount(c, b) \/ \E t \in Trustees : BeginContribution(c, b, t)
          PROVE  counters' = counters \/ (At(c, "countCommit") /\ CountersOf(c))
        BY <3>3 DEF CallFails, TransactionTimesOut, AcknowledgementLost, BeginCount,
           BeginContribution, NoWrite, votesDb
    <3> QED
        BY <1>1, <3>1, <3>2, <3>3
           DEF Next, CallNext, Strips, Certifies, OutsidePhase, votesDb
  <2> QED
      BY <2>1, <2>2, <2>3, <2>4
<1>2. ASSUME UNCHANGED tallyVars
      PROVE  Moves
    BY <1>2 DEF tallyVars, votesDb
<1>3. DOMAIN counters = Ballots
    BY DEF TypeOK
<1> QED
    BY <1>1, <1>2, <1>3 DEF CountsTheMovedVotes

\* Counters appear only where there were none, and count the rows the closing
\* moved: of any number of counts of one ballot only one saves, and none that
\* would disagree with the urn.
THEOREM CountersCountTheMovedVotes == Spec => CountersAreTheMovedVotes
<1>1. TypeOK /\ WritesInv /\ [Next]_tallyVars => [CountsTheMovedVotes]_tallyVars
    BY SavingStep
<1> QED
    BY <1>1, WritesAlways, PTL DEF Spec, CountersAreTheMovedVotes

----------------------------------------------------------------------------
(***************************************************************************)
(* Every row has its post.                                                 *)
(***************************************************************************)
\* What is about to be committed is posted.
PostedBy(c) ==
    /\ At(c, "commit") => partialPosts[call[c].ballot][call[c].trustee] > 0
    /\ At(c, "countCommit") => tallyPosts[call[c].ballot] > 0

PostedInv == EveryRowIsPosted /\ (outside = 0 => \A c \in Calls : PostedBy(c))

PostsGrow ==
    \A b \in Ballots : /\ tallyPosts'[b] >= tallyPosts[b]
                       /\ \A t \in Trustees : partialPosts'[b][t] >= partialPosts[b][t]

\* Nothing takes a post out of the audit chain.
LEMMA PostsOnlyGrow ==
    ASSUME TypeOK, [Next]_tallyVars
    PROVE  PostsGrow
<1>1. \/ partialPosts' = partialPosts
      \/ \E c \in Calls : partialPosts' = [partialPosts EXCEPT ![call[c].ballot][call[c].trustee] = @ + 1]
    BY DEF Next, CallNext, Contributes, Counts, Gate, HasContributed, SumOfUrn, RootOfContribution,
           UnlockShare, StoreContribution, PostContribution, CommitContribution, StoredTally,
           StoredContributions, CountFromContributions, SaveTally, PostTally, CommitTally, SettleReads,
           StampCompletion, CasTallied, CallFails, TransactionTimesOut, AcknowledgementLost,
           BeginCount, BeginContribution, Strips, Certifies, OutsideVotes, OutsidePhase,
           NoWrite, posts, tallyVars
<1>2. \/ tallyPosts' = tallyPosts
      \/ \E c \in Calls : tallyPosts' = [tallyPosts EXCEPT ![call[c].ballot] = @ + 1]
    BY DEF Next, CallNext, Contributes, Counts, Gate, HasContributed, SumOfUrn, RootOfContribution,
           UnlockShare, StoreContribution, PostContribution, CommitContribution, StoredTally,
           StoredContributions, CountFromContributions, SaveTally, PostTally, CommitTally, SettleReads,
           StampCompletion, CasTallied, CallFails, TransactionTimesOut, AcknowledgementLost,
           BeginCount, BeginContribution, Strips, Certifies, OutsideVotes, OutsidePhase,
           NoWrite, posts, tallyVars
<1>3. /\ partialPosts \in [Ballots -> [Trustees -> Nat]]
      /\ tallyPosts \in [Ballots -> Nat]
    BY DEF TypeOK
<1>4. ASSUME NEW b \in Ballots
      PROVE  tallyPosts'[b] >= tallyPosts[b]
    BY <1>2, <1>3, <1>4
<1>5. ASSUME NEW b \in Ballots, NEW t \in Trustees
      PROVE  partialPosts'[b][t] >= partialPosts[b][t]
  <2>1. CASE partialPosts' = partialPosts
      BY <1>3, <2>1
  <2>2. ASSUME NEW x, NEW y,
               partialPosts' = [partialPosts EXCEPT ![x][y] = @ + 1]
        PROVE  partialPosts'[b][t] >= partialPosts[b][t]
    <3>1. partialPosts[b] \in [Trustees -> Nat] /\ partialPosts[b][t] \in Nat
        BY <1>3, <1>5
    <3>2. partialPosts'[b] = IF b = x THEN [partialPosts[b] EXCEPT ![y] = @ + 1] ELSE partialPosts[b]
        BY <1>3, <1>5, <2>2
    <3> QED
        BY <1>5, <3>1, <3>2
  <2> QED
      BY <1>1, <2>1, <2>2
<1> QED
    BY <1>4, <1>5 DEF PostsGrow

\* The only way to a commit is through its post.
LEMMA CommitsAfterThePost ==
    ASSUME TypeOK, NEW c \in Calls, Contributes(c) \/ Counts(c),
           call'[c].at \in {"commit", "countCommit"}
    PROVE  \/ PostContribution(c) /\ At(c, "post") /\ Goto(c, "commit")
           \/ PostTally(c) /\ At(c, "countPost") /\ Goto(c, "countCommit")
<1>1. CallTypeOK /\ call[c] \in Places
    BY DEF TypeOK, CallTypeOK
<1>2. call[c].at # "idle"
    BY DEF Contributes, Counts, Gate, HasContributed, SumOfUrn, RootOfContribution, UnlockShare,
           StoreContribution, PostContribution, CommitContribution, StoredTally,
           StoredContributions, CountFromContributions, SaveTally, PostTally, CommitTally,
           SettleReads, StampCompletion, CasTallied, At
<1>3. call[c] \in Approaching \cup Contributing \cup Gathering \cup Counting \cup Settling
    BY <1>1, <1>2 DEF Places, Idle
<1>4. ~Ends(c)
    BY <1>1, EndsType DEF Idle
<1>5. ASSUME NEW s, Goto(c, s)
      PROVE  s \in {"commit", "countCommit"}
    BY <1>1, <1>2, <1>5, GotoKeeps DEF Idle
<1>6. ~StoredTally(c) /\ ~SumOfUrn(c, "sum", "root") /\ ~SumOfUrn(c, "countSum", "count")
    BY <1>1, <1>3 DEF StoredTally, SumOfUrn, CallTypeOK, Approaching, Contributing, Gathering,
                      Counting, Settling
<1>7. ~StoredContributions(c)
    BY <1>1, <1>3, <1>4 DEF StoredContributions, CallTypeOK, Approaching, Contributing, Gathering,
                      Counting, Settling
<1>8. ASSUME NEW b \in Ballots, SettleReads(c, b)
      PROVE  FALSE
  <2>1. call[c] \in Settling
      BY <1>1, <1>8, StepTellsTheRecord DEF SettleReads, At
  <2>2. PICK s \in {"stamp", "settle"} :
            call' = [call EXCEPT ![c] = [call[c] EXCEPT !.seen = @ \cup {b}, !.at = s]]
      BY <1>4, <1>8 DEF SettleReads
  <2>3. call'[c].at = s
      BY <1>1, <2>1, <2>2 DEF CallTypeOK, Settling
  <2> QED
      BY <2>3
<1> QED
    BY <1>4, <1>5, <1>6, <1>7, <1>8
       DEF Contributes, Counts, Gate, HasContributed, RootOfContribution, UnlockShare,
           StoreContribution, PostContribution, CommitContribution, CountFromContributions,
           FoundCounters, SaveTally, PostTally, CommitTally, StampCompletion, CasTallied

LEMMA PostedInit == Init => PostedInv
    BY DEF Init, PostedInv, PostedBy, EveryRowIsPosted, At, Idle

LEMMA PostedStep ==
    ASSUME TypeOK, PostedInv, [Next]_tallyVars
    PROVE  PostedInv'
<1> SUFFICES ASSUME outside' = 0
             PROVE  EveryRowIsPosted' /\ \A c \in Calls : PostedBy(c)'
    BY DEF PostedInv, EveryRowIsPosted
<1>1. CallTypeOK /\ PostsGrow /\ TypeOK'
    BY PostsOnlyGrow, TypeStep DEF TypeOK, CallTypeOK
<1>2. ~OutsideVotes /\ ~OutsidePhase
    BY TallyAssumption DEF OutsideVotes, OutsidePhase, WrittenOutside, TypeOK
<1>3. outside = 0
    BY <1>2 DEF Next, CallNext, Contributes, Counts, Gate, HasContributed, SumOfUrn, RootOfContribution,
           UnlockShare, StoreContribution, PostContribution, CommitContribution, StoredTally,
           StoredContributions, CountFromContributions, SaveTally, PostTally, CommitTally, SettleReads,
           StampCompletion, CasTallied, CallFails, TransactionTimesOut, AcknowledgementLost, Fault,
           BeginCount, BeginContribution, Strips, Certifies, NoWrite, Bounds, tallyVars
<1>4. EveryRowIsPosted /\ \A c \in Calls : PostedBy(c)
    BY <1>3 DEF PostedInv
<1>5. /\ partialPosts \in [Ballots -> [Trustees -> Nat]] /\ partialPosts' \in [Ballots -> [Trustees -> Nat]]
      /\ tallyPosts \in [Ballots -> Nat] /\ tallyPosts' \in [Ballots -> Nat]
      /\ partials \in [Ballots -> [Trustees -> Stored]] /\ counters \in [Ballots -> Stored]
    BY <1>1 DEF TypeOK, Read

\* What was posted stays posted: the rows that were there, and the calls that stand still.
<1>6. ASSUME NEW b \in Ballots, tallyPosts[b] > 0
      PROVE  tallyPosts'[b] > 0
    BY <1>1, <1>5, <1>6 DEF PostsGrow
<1>7. ASSUME NEW b \in Ballots, NEW t \in Trustees, partialPosts[b][t] > 0
      PROVE  partialPosts'[b][t] > 0
  <2>1. partialPosts[b][t] \in Nat /\ partialPosts'[b][t] \in Nat
      BY <1>5
  <2> QED
      BY <1>1, <1>7, <2>1 DEF PostsGrow
<1>8. ASSUME NEW d \in Calls, call'[d] = call[d]
      PROVE  PostedBy(d)'
  <2>1. /\ At(d, "commit") => call[d].ballot \in Ballots /\ call[d].trustee \in Trustees
        /\ At(d, "countCommit") => call[d].ballot \in Ballots
      BY <1>1, StepTellsTheRecord DEF CallTypeOK, At, Contributing, Counting
  <2> QED
      BY <1>4, <1>6, <1>7, <1>8, <2>1 DEF PostedBy, At
<1>9. ASSUME NEW c \in Calls, call'[c].at \notin {"commit", "countCommit"}
      PROVE  PostedBy(c)'
    BY <1>9 DEF PostedBy, At

\* The rows after a step.
<1>10. ASSUME UNCHANGED <<partials, counters>>
       PROVE  EveryRowIsPosted'
    BY <1>3, <1>4, <1>6, <1>7, <1>10 DEF EveryRowIsPosted
<1>11. ASSUME NEW c \in Calls,
              \/ At(c, "commit") /\ ContributionOf(c) /\ UNCHANGED counters
              \/ At(c, "countCommit") /\ CountersOf(c) /\ UNCHANGED partials
       PROVE  EveryRowIsPosted'
  <2>1. /\ At(c, "commit") => call[c].ballot \in Ballots /\ call[c].trustee \in Trustees
        /\ At(c, "countCommit") => call[c].ballot \in Ballots
      BY <1>1, StepTellsTheRecord DEF CallTypeOK, At, Contributing, Counting
  <2>2. CASE At(c, "commit") /\ ContributionOf(c) /\ UNCHANGED counters
    <3>1. partialPosts'[call[c].ballot][call[c].trustee] > 0
        BY <1>4, <1>7, <2>1, <2>2 DEF PostedBy
    <3>2. ASSUME NEW b \in Ballots, NEW t \in Trustees, partials'[b][t] # None
          PROVE  partialPosts'[b][t] > 0
      <4>1. CASE b = call[c].ballot /\ t = call[c].trustee
          BY <3>1, <4>1
      <4>2. CASE ~(b = call[c].ballot /\ t = call[c].trustee)
        <5>1. partials'[b][t] = partials[b][t]
            BY <1>5, <2>1, <2>2, <4>2 DEF ContributionOf
        <5> QED
            BY <1>3, <1>4, <1>7, <3>2, <5>1 DEF EveryRowIsPosted
      <4> QED
          BY <4>1, <4>2
    <3> QED
        BY <1>3, <1>4, <1>6, <2>2, <3>2 DEF EveryRowIsPosted
  <2>3. CASE At(c, "countCommit") /\ CountersOf(c) /\ UNCHANGED partials
    <3>1. tallyPosts'[call[c].ballot] > 0
        BY <1>4, <1>6, <2>1, <2>3 DEF PostedBy
    <3>2. ASSUME NEW b \in Ballots, counters'[b] # None
          PROVE  tallyPosts'[b] > 0
        BY <1>3, <1>4, <1>5, <1>6, <2>1, <2>3, <3>1, <3>2 DEF EveryRowIsPosted, CountersOf
    <3> QED
        BY <1>3, <1>4, <1>7, <2>3, <3>2 DEF EveryRowIsPosted
  <2> QED
      BY <1>11, <2>2, <2>3

\* The steps.
<1>12. ASSUME NEW c \in Calls, Contributes(c) \/ Counts(c)
       PROVE  EveryRowIsPosted' /\ \A d \in Calls : PostedBy(d)'
  <2>1. EveryRowIsPosted'
    <3>1. \/ UNCHANGED <<partials, counters>>
          \/ At(c, "commit") /\ ContributionOf(c) /\ UNCHANGED counters
          \/ At(c, "countCommit") /\ CountersOf(c) /\ UNCHANGED partials
        BY <1>12 DEF Contributes, Counts, Gate, HasContributed, SumOfUrn, RootOfContribution,
           UnlockShare, StoreContribution, PostContribution, CommitContribution, StoredTally,
           StoredContributions, CountFromContributions, SaveTally, PostTally, CommitTally, SettleReads,
           StampCompletion, CasTallied, NoWrite, votesDb
    <3> QED
        BY <1>10, <1>11, <3>1
  <2>2. ASSUME NEW d \in Calls \ {c}
        PROVE  PostedBy(d)'
    <3>1. call'[d] = call[d]
        BY <1>12, OthersStandStill
    <3> QED
        BY <1>8, <3>1
  <2>3. PostedBy(c)'
    <3>1. CASE call'[c].at \notin {"commit", "countCommit"}
        BY <1>9, <3>1
    <3>2. CASE PostContribution(c) /\ At(c, "post") /\ Goto(c, "commit")
      <4>1. call[c] \in Contributing
          BY <1>1, <3>2, StepTellsTheRecord DEF CallTypeOK, At
      <4>2. /\ call'[c].at = "commit" /\ call'[c].ballot = call[c].ballot
            /\ call'[c].trustee = call[c].trustee
          BY <1>1, <3>2, <4>1, GotoKeeps DEF At, Idle
      <4>3. call[c].ballot \in Ballots /\ call[c].trustee \in Trustees
          BY <4>1 DEF Contributing
      <4>4. partialPosts'[call[c].ballot][call[c].trustee] = partialPosts[call[c].ballot][call[c].trustee] + 1
          BY <1>5, <3>2, <4>3 DEF PostContribution
      <4>5. partialPosts[call[c].ballot][call[c].trustee] \in Nat
          BY <1>5, <4>3
      <4> QED
          BY <4>2, <4>4, <4>5 DEF PostedBy, At
    <3>3. CASE PostTally(c) /\ At(c, "countPost") /\ Goto(c, "countCommit")
      <4>1. call[c] \in Counting
          BY <1>1, <3>3, StepTellsTheRecord DEF CallTypeOK, At
      <4>2. call'[c].at = "countCommit" /\ call'[c].ballot = call[c].ballot
          BY <1>1, <3>3, <4>1, GotoKeeps DEF At, Idle
      <4>3. call[c].ballot \in Ballots
          BY <4>1 DEF Counting
      <4> QED
          BY <1>5, <3>3, <4>2, <4>3 DEF PostTally, PostedBy, At
    <3> QED
        BY <1>12, <3>1, <3>2, <3>3, CommitsAfterThePost
  <2> QED
      BY <2>1, <2>2, <2>3
<1>13. ASSUME NEW c \in Calls,
              \/ CallFails(c) \/ TransactionTimesOut(c) \/ AcknowledgementLost(c)
              \/ \E b \in Ballots : BeginCount(c, b) \/ \E t \in Trustees : BeginContribution(c, b, t)
       PROVE  EveryRowIsPosted' /\ \A d \in Calls : PostedBy(d)'
  <2>1. EveryRowIsPosted'
    <3>1. \/ UNCHANGED <<partials, counters>>
          \/ At(c, "commit") /\ ContributionOf(c) /\ UNCHANGED counters
          \/ At(c, "countCommit") /\ CountersOf(c) /\ UNCHANGED partials
        BY <1>13 DEF CallFails, TransactionTimesOut, AcknowledgementLost, BeginCount,
           BeginContribution, NoWrite, votesDb
    <3> QED
        BY <1>10, <1>11, <3>1
  <2>2. /\ call'[c].at \notin {"commit", "countCommit"}
        /\ \A d \in Calls \ {c} : call'[d] = call[d]
    <3>1. CASE Ends(c)
        BY <1>1, <3>1, EndsType DEF Idle
    <3>2. CASE TransactionTimesOut(c)
        BY <1>1, <3>2, GotoKeeps DEF TransactionTimesOut, At, Idle
    <3>3. CASE \E b \in Ballots : BeginCount(c, b) \/ \E t \in Trustees : BeginContribution(c, b, t)
        BY <1>1, <3>3 DEF BeginCount, BeginContribution, CallTypeOK
    <3> QED
        BY <1>13, <3>1, <3>2, <3>3 DEF CallFails, AcknowledgementLost
  <2> QED
      BY <1>8, <1>9, <2>1, <2>2
<1>14. CASE Strips \/ Certifies \/ UNCHANGED tallyVars
    BY <1>8, <1>10, <1>14 DEF Strips, Certifies, tallyVars, votesDb
<1> QED
    BY <1>2, <1>12, <1>13, <1>14 DEF Next, CallNext

\* Whatever call fails or dies between the two commits, no contribution and no
\* counters are ever in the votes database without a post in the audit chain.
THEOREM RowsAreNeverWithoutPost == Spec => []EveryRowIsPosted
<1>1. Init => TypeOK /\ PostedInv
    BY TypeInit, PostedInit
<1>2. TypeOK /\ PostedInv /\ [Next]_tallyVars => TypeOK' /\ PostedInv'
    BY TypeStep, PostedStep
<1>3. PostedInv => EveryRowIsPosted
    BY DEF PostedInv
<1> QED
    BY <1>1, <1>2, <1>3, PTL DEF Spec


----------------------------------------------------------------------------
(***************************************************************************)
(* The application alone: what holds as long as nobody has written past    *)
(* it.  What a call has found stays found, as contributions and counters   *)
(* only come.                                                              *)
(***************************************************************************)
CountedPhases == {"TALLIED", "CERTIFIED"}

AllCounted   == \A b \in Ballots : counters[b] # None
EnoughFor(b) == Cardinality(GivenBy(partials[b])) >= Threshold

\* The phase tells what is stored in the other database.
PhaseIsTrue ==
    /\ phase # "VALIDATED" <=> rooted
    /\ talliedPosts = IF phase \in CountedPhases THEN 1 ELSE 0
    /\ phase \in CountedPhases => AllCounted

RowsAreTheMoved ==
    \A b \in Ballots :
        /\ urn[b] = "moved"
        /\ counters[b] \in {None, "moved"}
        /\ \A t \in Trustees : partials[b][t] \in {None, "moved"}

CountedIsOpened == \A b \in Ballots : counters[b] # None => rooted /\ EnoughFor(b)

\* The steps of a count, of one that has found enough contributions, and of one that
\* asks whether every ballot is counted.
PastTheCountGate == {"stored", "read", "countSum", "count", "save", "countPost", "countCommit"}
HasEnough        == {"countSum", "count", "save", "countPost", "countCommit"}
Settles          == {"settle", "stamp", "cas"}

\* What a call has found.
HasFound(c) ==
    /\ call[c].at \in PastTheCountGate => rooted
    /\ call[c].at \in HasEnough => EnoughFor(call[c].ballot)
    /\ call[c].at \in Settles => \A b \in call[c].seen : counters[b] # None
    /\ call[c].at \in {"stamp", "cas"} => call[c].seen = Ballots

\* Nobody else has contributed, or is contributing, what a call has inserted.
Inserts == {"post", "commit"}

InsertedAlone(c) ==
    call[c].at \in Inserts =>
        /\ partials[call[c].ballot][call[c].trustee] = None
        /\ \A d \in Calls \ {c} :
              call[d].at \in Inserts =>
                  call[d].ballot # call[c].ballot \/ call[d].trustee # call[c].trustee

\* The posts that are under way, and what is saved or about to be.
PostingTally(b) == {d \in Calls : call[d].at \in {"countPost", "lateCountPost"} /\ call[d].ballot = b}
PostingPart(b, t) ==
    {d \in Calls : call[d].at \in {"post", "latePost"} /\ call[d].ballot = b /\ call[d].trustee = t}

SavedOrSaving(b)         == counters[b] # None \/ Saving(b) # {}
InsertedOrInserting(b, t) == partials[b][t] # None \/ Inserted(b, t) # {}

\* A post is the one of what is stored, or of a call that failed.
TallyPostsFor(b) ==
    /\ IsFiniteSet(PostingTally(b))
    /\ tallyPosts[b] + Cardinality(PostingTally(b)) <= faults + IF SavedOrSaving(b) THEN 1 ELSE 0

PartialPostsFor(b, t) ==
    /\ IsFiniteSet(PostingPart(b, t))
    /\ partialPosts[b][t] + Cardinality(PostingPart(b, t))
          <= faults + IF InsertedOrInserting(b, t) THEN 1 ELSE 0

EachPostHasItsCause ==
    \A b \in Ballots : TallyPostsFor(b) /\ \A t \in Trustees : PartialPostsFor(b, t)

AloneInv ==
    /\ PhaseIsTrue /\ RowsAreTheMoved /\ CountedIsOpened
    /\ \A c \in Calls : HasFound(c) /\ InsertedAlone(c)
    /\ EachPostHasItsCause
    /\ TheLastSettles

SettledInv == outside = 0 => AloneInv

----------------------------------------------------------------------------
\* A step of a call of the application.
Begins(c) == \E b \in Ballots : BeginCount(c, b) \/ \E t \in Trustees : BeginContribution(c, b, t)
Fails(c)  == CallFails(c) \/ TransactionTimesOut(c) \/ AcknowledgementLost(c)
Moves(c)  == Contributes(c) \/ Counts(c) \/ Fails(c) \/ Begins(c)

\* While nobody writes past the application, a step is a call's, or one of two others.
LEMMA StepsAlone ==
    ASSUME TypeOK, [Next]_tallyVars, outside' = 0
    PROVE  /\ outside = 0
           /\ (\E c \in Calls : Moves(c)) \/ Strips \/ Certifies \/ UNCHANGED tallyVars
<1>1. ~OutsideVotes /\ ~OutsidePhase
    BY TallyAssumption DEF OutsideVotes, OutsidePhase, WrittenOutside, TypeOK
<1>2. (\E c \in Calls : Moves(c)) \/ Strips \/ Certifies \/ UNCHANGED tallyVars
    BY <1>1 DEF Next, CallNext, Moves, Fails, Begins
<1>3. outside = 0
    BY <1>2 DEF Moves, Fails, Begins, Contributes, Counts, Gate, HasContributed, SumOfUrn, RootOfContribution,
           UnlockShare, StoreContribution, PostContribution, CommitContribution, StoredTally,
           StoredContributions, CountFromContributions, SaveTally, PostTally, CommitTally, SettleReads,
           StampCompletion, CasTallied, CallFails, TransactionTimesOut, AcknowledgementLost, Fault,
           BeginCount, BeginContribution, Strips, Certifies, NoWrite, Bounds, tallyVars
<1> QED
    BY <1>2, <1>3

\* What a call leaves alone.
LEMMA MovesLeave ==
    ASSUME TypeOK, NEW c \in Calls, Moves(c)
    PROVE  /\ UNCHANGED <<rooted, urn>>
           /\ \A d \in Calls \ {c} : call'[d] = call[d]
           /\ faults' = faults \/ (Fails(c) /\ faults' = faults + 1)
<1>1. UNCHANGED <<rooted, urn>>
    BY DEF Moves, Fails, Begins, Contributes, Counts, Gate, HasContributed, SumOfUrn, RootOfContribution,
           UnlockShare, StoreContribution, PostContribution, CommitContribution, StoredTally,
           StoredContributions, CountFromContributions, SaveTally, PostTally, CommitTally, SettleReads,
           StampCompletion, CasTallied, CallFails, TransactionTimesOut, AcknowledgementLost,
           BeginCount, BeginContribution, NoWrite, votesDb
<1>2. \A d \in Calls \ {c} : call'[d] = call[d]
    BY OthersStandStill, FailsType, BeginsType DEF Moves, Fails, Begins
<1>3. faults' = faults \/ (Fails(c) /\ faults' = faults + 1)
    BY DEF Moves, Fails, Begins, Contributes, Counts, Gate, HasContributed, SumOfUrn, RootOfContribution,
           UnlockShare, StoreContribution, PostContribution, CommitContribution, StoredTally,
           StoredContributions, CountFromContributions, SaveTally, PostTally, CommitTally, SettleReads,
           StampCompletion, CasTallied, CallFails, TransactionTimesOut, AcknowledgementLost, Fault,
           BeginCount, BeginContribution, NoWrite, Bounds
<1> QED
    BY <1>1, <1>2, <1>3

\* A call that fails is gone, or has one thing left to do.
LEMMA FailsLeads ==
    ASSUME TypeOK, NEW c \in Calls, Fails(c)
    PROVE  /\ faults' = faults + 1
           /\ UNCHANGED <<phase, posts>>
           /\ \/ call'[c] = Idle /\ UNCHANGED <<partials, counters>>
              \/ call'[c] = Idle /\ At(c, "commit") /\ ContributionOf(c) /\ UNCHANGED counters
              \/ call'[c] = Idle /\ At(c, "countCommit") /\ CountersOf(c) /\ UNCHANGED partials
              \/ /\ At(c, "post") /\ call'[c] = [call[c] EXCEPT !.at = "latePost"]
                 /\ call'[c].at = "latePost" /\ call'[c].ballot = call[c].ballot
                 /\ call'[c].trustee = call[c].trustee
                 /\ UNCHANGED <<partials, counters>>
              \/ /\ At(c, "countPost") /\ call'[c] = [call[c] EXCEPT !.at = "lateCountPost"]
                 /\ call'[c].at = "lateCountPost" /\ call'[c].ballot = call[c].ballot
                 /\ UNCHANGED <<partials, counters>>
<1>1. CallTypeOK /\ call[c] \in Places
    BY DEF TypeOK, CallTypeOK
<1>2. faults' = faults + 1 /\ UNCHANGED <<phase, posts>>
    BY DEF Fails, CallFails, TransactionTimesOut, AcknowledgementLost, Fault
<1>3. CASE CallFails(c) \/ AcknowledgementLost(c)
    BY <1>1, <1>2, <1>3, EndsType DEF CallFails, AcknowledgementLost, votesDb
<1>4. CASE At(c, "post") /\ Goto(c, "latePost") /\ UNCHANGED <<partials, counters>>
  <2>1. call[c] \in Contributing
      BY <1>1, <1>4, StepTellsTheRecord DEF At
  <2>2. call[c] # Idle
      BY <1>4 DEF At, Idle
  <2> QED
      BY <1>1, <1>2, <1>4, <2>1, <2>2, GotoKeeps, GotoType, ContributingMoves DEF Places
<1>5. CASE At(c, "countPost") /\ Goto(c, "lateCountPost") /\ UNCHANGED <<partials, counters>>
  <2>1. call[c] \in Counting
      BY <1>1, <1>5, StepTellsTheRecord DEF At
  <2>2. call[c] # Idle
      BY <1>5 DEF At, Idle
  <2> QED
      BY <1>1, <1>2, <1>5, <2>1, <2>2, GotoKeeps, GotoType, CountingMoves DEF Places
<1> QED
    BY <1>3, <1>4, <1>5 DEF Fails, TransactionTimesOut, votesDb

\* The steps of a contribution, and of a count.
ContributionSteps == {"gate", "before", "sum", "root", "unlock", "store", "post", "latePost", "commit"}
CountSteps == {"countGate", "stored", "read", "countSum", "count", "save", "countPost",
               "lateCountPost", "countCommit", "settle", "stamp", "cas"}

\* A contribution goes from step to step, or ends.
LEMMA ContributionMoves ==
    ASSUME TypeOK, NEW c \in Calls, Contributes(c)
    PROVE  /\ call[c].at \in ContributionSteps
           /\ UNCHANGED <<phase, tallyPosts, talliedPosts, counters, faults>>
           /\ \/ /\ call'[c] = Idle
                 /\ \/ UNCHANGED <<partialPosts, partials>>
                    \/ PostContribution(c) /\ At(c, "latePost") /\ UNCHANGED partials
                    \/ CommitContribution(c) /\ UNCHANGED partialPosts
              \/ /\ call'[c].ballot = call[c].ballot /\ call'[c].trustee = call[c].trustee
                 /\ \/ /\ call[c].at \in ContributionSteps \ {"post", "latePost", "commit"}
                       /\ call'[c].at \in ContributionSteps \ {"post", "latePost", "commit"}
                       /\ UNCHANGED <<partialPosts, partials>>
                    \/ /\ StoreContribution(c) /\ call'[c].at = "post"
                       /\ Inserted(call[c].ballot, call[c].trustee) = {}
                       /\ partials[call[c].ballot][call[c].trustee] = None
                       /\ UNCHANGED <<partialPosts, partials>>
                    \/ /\ PostContribution(c) /\ At(c, "post") /\ call'[c].at = "commit"
                       /\ UNCHANGED partials
<1> USE DEF ContributionSteps
<1>1. CallTypeOK /\ call[c] \in Places
    BY DEF TypeOK, CallTypeOK
<1>2. call[c].at \in ContributionSteps
    BY DEF Contributes, Gate, HasContributed, SumOfUrn, RootOfContribution, UnlockShare,
           StoreContribution, PostContribution, CommitContribution, At
<1>3. call[c] # Idle /\ call[c] \in Approaching \cup Contributing
    BY <1>1, <1>2, StepTellsTheRecord DEF Idle
<1>4. UNCHANGED <<phase, tallyPosts, talliedPosts, counters, faults>>
    BY DEF Contributes, Gate, HasContributed, SumOfUrn, RootOfContribution, UnlockShare,
           StoreContribution, PostContribution, CommitContribution, NoWrite, posts, votesDb, Bounds
<1>5. ASSUME NEW s, Goto(c, s)
      PROVE  /\ call'[c].at = s
             /\ call'[c].ballot = call[c].ballot /\ call'[c].trustee = call[c].trustee
    BY <1>1, <1>3, <1>5, GotoKeeps
<1>6. Ends(c) => call'[c] = Idle
    BY <1>1, EndsType
<1>7. CASE Gate(c, "gate", "before") \/ HasContributed(c) \/ RootOfContribution(c) \/ UnlockShare(c)
    BY <1>2, <1>4, <1>5, <1>6, <1>7 DEF Gate, HasContributed, RootOfContribution, UnlockShare, At,
       NoWrite, posts, votesDb
<1>8. CASE SumOfUrn(c, "sum", "root")
  <2>1. /\ call'[c] = [call[c] EXCEPT !.at = "root", !.sum = urn[call[c].ballot]]
        /\ call[c].at = "sum"
      BY <1>1, <1>8 DEF SumOfUrn, CallTypeOK, At
  <2>2. call[c] \in Approaching
      BY <1>1, <2>1, StepTellsTheRecord
  <2>3. /\ call'[c].at = "root"
        /\ call'[c].ballot = call[c].ballot /\ call'[c].trustee = call[c].trustee
      BY <2>1, <2>2 DEF Approaching
  <2> QED
      BY <1>2, <1>4, <1>8, <2>1, <2>3 DEF SumOfUrn, NoWrite, posts, votesDb
<1>9. CASE StoreContribution(c)
    BY <1>2, <1>4, <1>5, <1>6, <1>9 DEF StoreContribution, NoWrite, posts, votesDb
<1>10. CASE PostContribution(c)
  <2>1. UNCHANGED partials
      BY <1>10 DEF PostContribution, votesDb
  <2>2. \/ At(c, "post") /\ Goto(c, "commit")
        \/ At(c, "latePost") /\ Ends(c)
      BY <1>10 DEF PostContribution
  <2> QED
      BY <1>2, <1>4, <1>5, <1>6, <1>10, <2>1, <2>2
<1>11. CASE CommitContribution(c)
    BY <1>2, <1>4, <1>6, <1>11 DEF CommitContribution, posts
<1> QED
    BY <1>7, <1>8, <1>9, <1>10, <1>11 DEF Contributes

\* A count goes from step to step, or ends.
LEMMA CountMoves ==
    ASSUME TypeOK, NEW c \in Calls, Counts(c)
    PROVE  /\ call[c].at \in CountSteps
           /\ UNCHANGED <<partialPosts, partials, faults>>
           /\ call'[c] = Idle \/ (call'[c].at \in CountSteps /\ call'[c].ballot = call[c].ballot)
           /\ \/ UNCHANGED <<tallyPosts, counters>>
              \/ PostTally(c) /\ UNCHANGED counters
              \/ CommitTally(c) /\ UNCHANGED tallyPosts
           /\ UNCHANGED <<phase, talliedPosts>> \/ CasTallied(c)
<1> USE DEF CountSteps
<1>1. CallTypeOK /\ call[c] \in Places
    BY DEF TypeOK, CallTypeOK
<1>2. call[c].at \in CountSteps
    BY DEF Counts, Gate, StoredTally, StoredContributions, SumOfUrn, CountFromContributions,
           SaveTally, PostTally, CommitTally, SettleReads, StampCompletion, CasTallied, At
<1>3. call[c] # Idle /\ call[c] \in Gathering \cup Counting \cup Settling
    BY <1>1, <1>2, StepTellsTheRecord DEF Idle
<1>4. /\ UNCHANGED <<partialPosts, partials, faults>>
      /\ \/ UNCHANGED <<tallyPosts, counters>>
         \/ PostTally(c) /\ UNCHANGED counters
         \/ CommitTally(c) /\ UNCHANGED tallyPosts
      /\ UNCHANGED <<phase, talliedPosts>> \/ CasTallied(c)
    BY DEF Counts, Gate, StoredTally, StoredContributions, SumOfUrn, CountFromContributions,
           SaveTally, PostTally, CommitTally, SettleReads, StampCompletion, CasTallied, NoWrite,
           posts, votesDb, Bounds
<1>5. ASSUME NEW s \in CountSteps, Goto(c, s)
      PROVE  call'[c].at \in CountSteps /\ call'[c].ballot = call[c].ballot
    BY <1>1, <1>3, <1>5, GotoKeeps
<1>6. Ends(c) => call'[c] = Idle
    BY <1>1, EndsType
<1>7. CASE \/ Gate(c, "countGate", "stored") \/ CountFromContributions(c) \/ SaveTally(c)
           \/ PostTally(c) \/ CommitTally(c) \/ StampCompletion(c) \/ CasTallied(c)
  <2>1. Ends(c) \/ \E s \in CountSteps : Goto(c, s)
      BY <1>7 DEF Gate, CountFromContributions, FoundCounters, SaveTally, PostTally, CommitTally,
           StampCompletion, CasTallied
  <2> QED
      BY <1>2, <1>4, <1>5, <1>6, <2>1
<1>8. CASE StoredTally(c)
    BY <1>1, <1>2, <1>3, <1>4, <1>8 DEF StoredTally, CallTypeOK, Gathering, Counting, Settling, At
<1>9. CASE StoredContributions(c)
    BY <1>1, <1>2, <1>3, <1>4, <1>6, <1>9 DEF StoredContributions, CallTypeOK, Gathering, Counting, Settling, At
<1>10. CASE SumOfUrn(c, "countSum", "count")
    BY <1>1, <1>2, <1>3, <1>4, <1>10 DEF SumOfUrn, CallTypeOK, Gathering, Counting, Settling, At
<1>11. ASSUME NEW b \in Ballots, SettleReads(c, b)
       PROVE  call'[c] = Idle \/ (call'[c].at \in CountSteps /\ call'[c].ballot = call[c].ballot)
  <2>1. call[c] \in Settling
      BY <1>1, <1>11, StepTellsTheRecord DEF SettleReads, At
  <2>2. \/ Ends(c)
        \/ \E s \in {"stamp", "settle"} :
              call' = [call EXCEPT ![c] = [call[c] EXCEPT !.seen = call[c].seen \cup {b}, !.at = s]]
      BY <1>11 DEF SettleReads
  <2> QED
      BY <1>1, <1>6, <2>1, <2>2 DEF CallTypeOK, Settling
<1> QED
    BY <1>2, <1>4, <1>7, <1>8, <1>9, <1>10, <1>11 DEF Counts

\* A call that begins has not written.
LEMMA BeginsLeaves ==
    ASSUME TypeOK, NEW c \in Calls, Begins(c)
    PROVE  /\ call[c] = Idle
           /\ call'[c].at \in {"gate", "countGate"}
           /\ UNCHANGED <<phase, posts, partials, counters, faults>>
  BY BeginsType DEF Begins, BeginCount, BeginContribution, NoWrite, votesDb, Bounds

\* The steps of a count between its lock, or its post, and its commit.
InTally == {"countPost", "lateCountPost", "countCommit"}

\* A count writes in three steps, and no other step leads to one of them.
LEMMA CountWrites ==
    ASSUME TypeOK, NEW c \in Calls, Counts(c)
    PROVE  \/ /\ call[c].at \notin InTally /\ call'[c].at \notin InTally
              /\ UNCHANGED <<tallyPosts, counters>>
           \/ /\ At(c, "save") /\ call'[c].at = "countPost"
              /\ call'[c].ballot = call[c].ballot
              /\ Saving(call[c].ballot) = {} /\ counters[call[c].ballot] = None
              /\ UNCHANGED <<tallyPosts, counters>>
           \/ /\ At(c, "countPost") /\ call'[c].at = "countCommit"
              /\ call'[c].ballot = call[c].ballot
              /\ PostTally(c) /\ UNCHANGED counters
           \/ At(c, "lateCountPost") /\ call'[c] = Idle /\ PostTally(c) /\ UNCHANGED counters
           \/ /\ At(c, "countCommit") /\ call'[c].at = "settle"
              /\ CountersOf(c) /\ UNCHANGED tallyPosts
<1>1. CallTypeOK /\ call[c] \in Places
    BY DEF TypeOK, CallTypeOK
<1>2. call[c] # Idle
    BY CountMoves DEF CountSteps, Idle
<1>3. ASSUME NEW s, Goto(c, s)
      PROVE  call'[c].at = s /\ call'[c].ballot = call[c].ballot
    BY <1>1, <1>2, <1>3, GotoKeeps
<1>4. Ends(c) => call'[c] = Idle
    BY <1>1, EndsType
<1>5. Idle.at = "idle"
    BY DEF Idle
<1>6. CASE \/ Gate(c, "countGate", "stored") \/ CountFromContributions(c)
           \/ StampCompletion(c) \/ CasTallied(c)
  <2>1. Ends(c) \/ \E s \in {"stored", "save", "settle", "cas"} : Goto(c, s)
      BY <1>6 DEF Gate, CountFromContributions, FoundCounters, StampCompletion, CasTallied
  <2>2. call[c].at \in {"countGate", "count", "stamp", "cas"}
      BY <1>6 DEF Gate, CountFromContributions, StampCompletion, CasTallied, At
  <2>3. UNCHANGED <<tallyPosts, counters>>
      BY <1>6 DEF Gate, CountFromContributions, StampCompletion, CasTallied, NoWrite, posts, votesDb
  <2> QED
      BY <1>3, <1>4, <1>5, <2>1, <2>2, <2>3 DEF InTally
<1>7. CASE SaveTally(c)
  <2>1. /\ At(c, "save") /\ Saving(call[c].ballot) = {}
        /\ UNCHANGED <<tallyPosts, counters>>
        /\ \/ counters[call[c].ballot] = None /\ Goto(c, "countPost")
           \/ Goto(c, "settle") \/ Ends(c)
      BY <1>7 DEF SaveTally, NoWrite, posts, votesDb
  <2> QED
      BY <1>3, <1>4, <1>5, <2>1 DEF InTally, At
<1>8. CASE PostTally(c)
  <2>1. /\ UNCHANGED counters
        /\ \/ At(c, "countPost") /\ Goto(c, "countCommit")
           \/ At(c, "lateCountPost") /\ Ends(c)
      BY <1>8 DEF PostTally, votesDb
  <2> QED
      BY <1>3, <1>4, <1>8, <2>1
<1>9. CASE CommitTally(c)
  <2>1. At(c, "countCommit") /\ Goto(c, "settle") /\ CountersOf(c) /\ UNCHANGED tallyPosts
      BY <1>9 DEF CommitTally, posts
  <2> QED
      BY <1>3, <2>1
<1>10. CASE StoredTally(c) \/ StoredContributions(c) \/ SumOfUrn(c, "countSum", "count")
  <2>1. call[c].at \in {"stored", "read", "countSum"} /\ UNCHANGED <<tallyPosts, counters>>
      BY <1>10 DEF StoredTally, StoredContributions, SumOfUrn, At, NoWrite, posts, votesDb
  <2>2. call[c] \in Gathering
      BY <1>1, <2>1, StepTellsTheRecord
  <2>3. call'[c].at \in {"idle", "read", "countSum", "count"}
      BY <1>1, <1>4, <1>5, <1>10, <2>2
         DEF StoredTally, StoredContributions, SumOfUrn, CallTypeOK, Gathering
  <2> QED
      BY <2>1, <2>3 DEF InTally
<1>11. ASSUME NEW b \in Ballots, SettleReads(c, b)
       PROVE  /\ call[c].at \notin InTally /\ call'[c].at \notin InTally
              /\ UNCHANGED <<tallyPosts, counters>>
  <2>1. call[c].at = "settle" /\ UNCHANGED <<tallyPosts, counters>>
      BY <1>11 DEF SettleReads, At, NoWrite, posts, votesDb
  <2>2. call[c] \in Settling
      BY <1>1, <2>1, StepTellsTheRecord
  <2>3. \/ Ends(c)
        \/ \E s \in {"stamp", "settle"} :
              call' = [call EXCEPT ![c] = [call[c] EXCEPT !.seen = call[c].seen \cup {b}, !.at = s]]
      BY <1>11 DEF SettleReads
  <2>4. call'[c].at \in {"idle", "stamp", "settle"}
      BY <1>1, <1>4, <1>5, <2>2, <2>3 DEF CallTypeOK, Settling
  <2> QED
      BY <2>1, <2>4 DEF InTally
<1> QED
    BY <1>6, <1>7, <1>8, <1>9, <1>10, <1>11 DEF Counts

\* What a step of a call is to the posts of its ballot.
TallyKind(c) ==
    LET k == call[c].ballot IN
    \/ /\ call[c].at \notin InTally /\ call'[c].at \notin InTally
       /\ UNCHANGED <<tallyPosts, counters>> /\ faults' >= faults
    \/ /\ call[c].at = "save" /\ call'[c].at = "countPost" /\ call'[c].ballot = k
       /\ Saving(k) = {} /\ counters[k] = None
       /\ UNCHANGED <<tallyPosts, counters, faults>>
    \/ /\ call[c].at = "countPost" /\ call'[c].at = "countCommit" /\ call'[c].ballot = k
       /\ tallyPosts' = [tallyPosts EXCEPT ![k] = @ + 1] /\ UNCHANGED <<counters, faults>>
    \/ /\ call[c].at = "lateCountPost" /\ call'[c].at \notin InTally
       /\ tallyPosts' = [tallyPosts EXCEPT ![k] = @ + 1] /\ UNCHANGED <<counters, faults>>
    \/ /\ call[c].at = "countCommit" /\ call'[c].at \notin InTally
       /\ CountersOf(c) /\ UNCHANGED tallyPosts /\ faults' >= faults
    \/ /\ call[c].at = "countPost" /\ call'[c].at = "lateCountPost" /\ call'[c].ballot = k
       /\ UNCHANGED <<tallyPosts, counters>> /\ faults' = faults + 1
    \/ /\ call[c].at \in InTally /\ call'[c].at \notin InTally
       /\ UNCHANGED <<tallyPosts, counters>> /\ faults' = faults + 1

LEMMA TallyKinds ==
    ASSUME TypeOK, NEW c \in Calls, Moves(c)
    PROVE  TallyKind(c)
<1> USE DEF InTally
<1>1. Idle.at = "idle" /\ faults \in Nat
    BY TallyAssumption DEF Idle, TypeOK
<1>2. CASE Contributes(c)
    BY <1>1, <1>2, ContributionMoves DEF ContributionSteps, TallyKind
<1>3. CASE Counts(c)
  <2>1. faults' = faults
      BY <1>3, CountMoves
  <2>2. PostTally(c) => tallyPosts' = [tallyPosts EXCEPT ![call[c].ballot] = @ + 1]
      BY DEF PostTally
  <2> QED
      BY <1>1, <1>3, <2>1, <2>2, CountWrites DEF TallyKind, At
<1>4. CASE Fails(c)
  <2>1. faults' = faults + 1 /\ tallyPosts' = tallyPosts
      BY <1>4, FailsLeads DEF posts
  <2>2. faults' >= faults
      BY <1>1, <2>1
  <2>3. CASE call'[c] = Idle
    <3>1. \/ UNCHANGED counters
          \/ At(c, "countCommit") /\ CountersOf(c)
        BY <1>4, FailsLeads
    <3> QED
        BY <1>1, <2>1, <2>2, <2>3, <3>1 DEF TallyKind, At
  <2>4. CASE At(c, "post") /\ call'[c].at = "latePost" /\ UNCHANGED counters
      BY <2>1, <2>2, <2>4 DEF TallyKind, At
  <2>5. CASE /\ At(c, "countPost") /\ call'[c].at = "lateCountPost"
             /\ call'[c].ballot = call[c].ballot /\ UNCHANGED counters
      BY <2>1, <2>5 DEF TallyKind, At
  <2> QED
      BY <1>4, <2>3, <2>4, <2>5, FailsLeads
<1>5. CASE Begins(c)
    BY <1>1, <1>5, BeginsLeaves DEF TallyKind, posts
<1> QED
    BY <1>2, <1>3, <1>4, <1>5 DEF Moves

\* The steps of a contribution between its insertion, or its post, and its commit.
InPart == {"post", "latePost", "commit"}

\* What a step of a call is to the posts of its contribution.
PartKind(c) ==
    LET k == call[c].ballot
        t == call[c].trustee
        Same == call'[c].ballot = k /\ call'[c].trustee = t
        Posts == partialPosts' = [partialPosts EXCEPT ![k][t] = @ + 1]
    IN
    \/ /\ call[c].at \notin InPart /\ call'[c].at \notin InPart
       /\ UNCHANGED <<partialPosts, partials>> /\ faults' >= faults
    \/ /\ call[c].at = "store" /\ call'[c].at = "post" /\ Same
       /\ Inserted(k, t) = {} /\ partials[k][t] = None
       /\ UNCHANGED <<partialPosts, partials, faults>>
    \/ /\ call[c].at = "post" /\ call'[c].at = "commit" /\ Same
       /\ Posts /\ UNCHANGED <<partials, faults>>
    \/ /\ call[c].at = "latePost" /\ call'[c].at \notin InPart
       /\ Posts /\ UNCHANGED <<partials, faults>>
    \/ /\ call[c].at = "commit" /\ call'[c].at \notin InPart
       /\ ContributionOf(c) /\ UNCHANGED partialPosts /\ faults' >= faults
    \/ /\ call[c].at = "post" /\ call'[c].at = "latePost" /\ Same
       /\ UNCHANGED <<partialPosts, partials>> /\ faults' = faults + 1
    \/ /\ call[c].at \in InPart /\ call'[c].at \notin InPart
       /\ UNCHANGED <<partialPosts, partials>> /\ faults' = faults + 1

LEMMA PartKinds ==
    ASSUME TypeOK, NEW c \in Calls, Moves(c)
    PROVE  PartKind(c)
<1> USE DEF InPart
<1>1. Idle.at = "idle" /\ faults \in Nat
    BY TallyAssumption DEF Idle, TypeOK
<1>2. CASE Contributes(c)
  <2>1. faults' = faults /\ call[c].at \in ContributionSteps
      BY <1>2, ContributionMoves
  <2>2. PostContribution(c) =>
            partialPosts' = [partialPosts EXCEPT ![call[c].ballot][call[c].trustee] = @ + 1]
      BY DEF PostContribution
  <2>3. CASE call'[c] = Idle
    <3>1. \/ UNCHANGED <<partialPosts, partials>> /\ call[c].at \notin InPart
          \/ PostContribution(c) /\ At(c, "latePost") /\ UNCHANGED partials
          \/ CommitContribution(c) /\ UNCHANGED partialPosts
      <4>1. CASE call[c].at \notin InPart
          BY <1>1, <1>2, <2>3, <4>1, ContributionMoves DEF At, CommitContribution, PostContribution
      <4>2. CASE call[c].at \in InPart
          BY <1>1, <1>2, <2>3, <4>2, GotoKeeps DEF Contributes, Gate, HasContributed, SumOfUrn, RootOfContribution, UnlockShare,
             StoreContribution, PostContribution, CommitContribution, At, votesDb, posts, Idle, TypeOK, CallTypeOK
      <4> QED
          BY <4>1, <4>2
    <3> QED
        BY <1>1, <2>1, <2>2, <2>3, <3>1 DEF PartKind, CommitContribution, At
  <2>4. CASE call'[c] # Idle
      BY <1>1, <1>2, <2>1, <2>2, <2>4, ContributionMoves DEF PartKind, ContributionSteps, StoreContribution, At
  <2> QED
      BY <2>3, <2>4
<1>3. CASE Counts(c)
    BY <1>1, <1>3, CountMoves DEF CountSteps, PartKind
<1>4. CASE Fails(c)
  <2>1. faults' = faults + 1 /\ partialPosts' = partialPosts
      BY <1>4, FailsLeads DEF posts
  <2>2. faults' >= faults
      BY <1>1, <2>1
  <2>3. CASE call'[c] = Idle
    <3>1. \/ UNCHANGED partials
          \/ At(c, "commit") /\ ContributionOf(c)
        BY <1>4, FailsLeads
    <3> QED
        BY <1>1, <2>1, <2>2, <2>3, <3>1 DEF PartKind, At
  <2>4. CASE /\ At(c, "post") /\ call'[c].at = "latePost"
             /\ call'[c].ballot = call[c].ballot /\ call'[c].trustee = call[c].trustee
             /\ UNCHANGED partials
      BY <2>1, <2>4 DEF PartKind, At
  <2>5. CASE At(c, "countPost") /\ call'[c].at = "lateCountPost" /\ UNCHANGED partials
      BY <2>1, <2>2, <2>5 DEF PartKind, At
  <2> QED
      BY <1>4, <2>3, <2>4, <2>5, FailsLeads
<1>5. CASE Begins(c)
    BY <1>1, <1>5, BeginsLeaves DEF PartKind, posts
<1> QED
    BY <1>2, <1>3, <1>4, <1>5 DEF Moves

\* A ballot's posts keep their causes through a step of any call.
LEMMA TallyPostsKept ==
    ASSUME TypeOK, TypeOK', NEW c \in Calls, Moves(c), NEW b \in Ballots, TallyPostsFor(b)
    PROVE  TallyPostsFor(b)'
<1> DEFINE P == PostingTally(b)
           k == call[c].ballot
<1>1. /\ tallyPosts \in [Ballots -> Nat] /\ tallyPosts[b] \in Nat
      /\ faults \in Nat /\ faults' \in Nat
      /\ counters \in [Ballots -> Stored]
    BY TallyAssumption DEF TypeOK
<1>2. \A d \in Calls \ {c} : call'[d] = call[d]
    BY MovesLeave
<1>3. IsFiniteSet(P) /\ Cardinality(P) \in Nat
    BY FS_CardinalityType DEF TallyPostsFor
<1>4. /\ IsFiniteSet(P \cup {c})
      /\ Cardinality(P \cup {c}) = IF c \in P THEN Cardinality(P) ELSE Cardinality(P) + 1
      /\ IsFiniteSet(P \ {c})
      /\ Cardinality(P \ {c}) = IF c \in P THEN Cardinality(P) - 1 ELSE Cardinality(P)
    BY <1>3, FS_AddElement, FS_RemoveElement
<1>5. P' = IF call'[c].at \in {"countPost", "lateCountPost"} /\ call'[c].ballot = b
           THEN P \cup {c} ELSE P \ {c}
    BY <1>2 DEF PostingTally
<1>6. /\ Saving(b) \ {c} \subseteq Saving(b)'
      /\ c \in Saving(b) <=> call[c].at \in {"countPost", "countCommit"} /\ k = b
      /\ c \in Saving(b)' <=> call'[c].at \in {"countPost", "countCommit"} /\ call'[c].ballot = b
      /\ Saving(b)' \ {c} \subseteq Saving(b)
    BY <1>2 DEF Saving
<1>7. c \in P <=> call[c].at \in {"countPost", "lateCountPost"} /\ k = b
    BY DEF PostingTally
<1>8. tallyPosts[b] + Cardinality(P) <= faults + IF SavedOrSaving(b) THEN 1 ELSE 0
    BY DEF TallyPostsFor
<1>9. call[c].at \in InTally => k \in Ballots
    BY StepTellsTheRecord DEF TypeOK, InTally, Counting
<1> SUFFICES tallyPosts'[b] + Cardinality(P') <= faults' + IF SavedOrSaving(b)' THEN 1 ELSE 0
    BY <1>4, <1>5 DEF TallyPostsFor
<1>10. TallyKind(c)
    BY TallyKinds
<1> HIDE DEF P
<1>11. CASE /\ call[c].at \notin InTally /\ call'[c].at \notin InTally
            /\ UNCHANGED <<tallyPosts, counters>> /\ faults' >= faults
  <2>1. P' = P
      BY <1>5, <1>7, <1>11 DEF InTally, P
  <2>2. SavedOrSaving(b) => SavedOrSaving(b)'
      BY <1>6, <1>11 DEF SavedOrSaving, InTally
  <2> QED
      BY <1>1, <1>3, <1>8, <1>11, <2>1, <2>2
<1>12. CASE /\ call[c].at = "save" /\ call'[c].at = "countPost" /\ call'[c].ballot = k
            /\ Saving(k) = {} /\ counters[k] = None
            /\ UNCHANGED <<tallyPosts, counters, faults>>
  <2>1. CASE b = k
    <3>1. ~SavedOrSaving(b) /\ SavedOrSaving(b)'
        BY <1>6, <1>12, <2>1 DEF SavedOrSaving
    <3>2. Cardinality(P') = Cardinality(P) + 1
        BY <1>4, <1>5, <1>7, <1>12, <2>1
    <3> QED
        BY <1>1, <1>3, <1>8, <1>12, <3>1, <3>2
  <2>2. CASE b # k
    <3>1. P' = P
        BY <1>5, <1>7, <1>12, <2>2
    <3>2. SavedOrSaving(b) => SavedOrSaving(b)'
        BY <1>6, <1>12 DEF SavedOrSaving
    <3> QED
        BY <1>1, <1>3, <1>8, <1>12, <3>1, <3>2
  <2> QED
      BY <2>1, <2>2
<1>13. CASE /\ call[c].at = "countPost" /\ call'[c].at = "countCommit" /\ call'[c].ballot = k
            /\ tallyPosts' = [tallyPosts EXCEPT ![k] = @ + 1] /\ UNCHANGED <<counters, faults>>
  <2>1. CASE b = k
    <3>1. SavedOrSaving(b)'
        BY <1>6, <1>13, <2>1 DEF SavedOrSaving
    <3>2. SavedOrSaving(b)
        BY <1>6, <1>13, <2>1 DEF SavedOrSaving
    <3>3. Cardinality(P') = Cardinality(P) - 1
        BY <1>4, <1>5, <1>7, <1>13, <2>1
    <3>4. tallyPosts'[b] = tallyPosts[b] + 1
        BY <1>1, <1>13, <2>1
    <3> QED
        BY <1>1, <1>3, <1>8, <1>13, <3>1, <3>2, <3>3, <3>4
  <2>2. CASE b # k
    <3>1. P' = P /\ tallyPosts'[b] = tallyPosts[b]
        BY <1>1, <1>5, <1>7, <1>13, <2>2
    <3>2. SavedOrSaving(b) => SavedOrSaving(b)'
        BY <1>6, <1>13, <2>2 DEF SavedOrSaving
    <3> QED
        BY <1>1, <1>3, <1>8, <1>13, <3>1, <3>2
  <2> QED
      BY <2>1, <2>2
<1>14. CASE /\ call[c].at = "lateCountPost" /\ call'[c].at \notin InTally
            /\ tallyPosts' = [tallyPosts EXCEPT ![k] = @ + 1] /\ UNCHANGED <<counters, faults>>
  <2>2. SavedOrSaving(b) => SavedOrSaving(b)'
      BY <1>6, <1>14 DEF SavedOrSaving
  <2>1. CASE b = k
    <3>3. Cardinality(P') = Cardinality(P) - 1
        BY <1>4, <1>5, <1>7, <1>14, <2>1 DEF InTally
    <3>4. tallyPosts'[b] = tallyPosts[b] + 1
        BY <1>1, <1>14, <2>1
    <3> QED
        BY <1>1, <1>3, <1>8, <1>14, <2>2, <3>3, <3>4
  <2>3. CASE b # k
    <3>1. Cardinality(P') = Cardinality(P) /\ tallyPosts'[b] = tallyPosts[b]
        BY <1>1, <1>4, <1>5, <1>7, <1>14, <2>3 DEF InTally
    <3> QED
        BY <1>1, <1>3, <1>8, <1>14, <2>2, <3>1
  <2> QED
      BY <2>1, <2>3
<1>15. CASE /\ call[c].at = "countCommit" /\ call'[c].at \notin InTally
            /\ CountersOf(c) /\ UNCHANGED tallyPosts /\ faults' >= faults
  <2>1. Cardinality(P') = Cardinality(P)
      BY <1>4, <1>5, <1>7, <1>15 DEF InTally
  <2>2. SavedOrSaving(b) => SavedOrSaving(b)'
    <3>1. CASE b = k
      <4>1. call[c] \in Counting
          BY <1>15, StepTellsTheRecord DEF TypeOK
      <4>2. Combined(c) # None
          BY <4>1, CombinedType, TallyAssumption DEF Contents
      <4>3. counters'[b] # None
          BY <1>1, <1>15, <3>1, <4>2 DEF CountersOf
      <4> QED
          BY <4>3 DEF SavedOrSaving
    <3>2. CASE b # k
        BY <1>1, <1>6, <1>15, <3>2 DEF SavedOrSaving, CountersOf
    <3> QED
        BY <3>1, <3>2
  <2> QED
      BY <1>1, <1>3, <1>8, <1>15, <2>1, <2>2
<1>16. CASE /\ call[c].at = "countPost" /\ call'[c].at = "lateCountPost" /\ call'[c].ballot = k
            /\ UNCHANGED <<tallyPosts, counters>> /\ faults' = faults + 1
  <2>1. Cardinality(P') = Cardinality(P)
      BY <1>4, <1>5, <1>7, <1>16
  <2> QED
      BY <1>1, <1>3, <1>8, <1>16, <2>1
<1>17. CASE /\ call[c].at \in InTally /\ call'[c].at \notin InTally
            /\ UNCHANGED <<tallyPosts, counters>> /\ faults' = faults + 1
  <2>1. Cardinality(P') <= Cardinality(P) /\ Cardinality(P') \in Nat
    <3>1. P' = P \ {c}
        BY <1>5, <1>17 DEF InTally
    <3>2. Cardinality(P \ {c}) \in Nat
        BY <1>4, FS_CardinalityType
    <3> QED
        BY <1>3, <1>4, <3>1, <3>2
  <2> QED
      BY <1>1, <1>3, <1>8, <1>17, <2>1
<1> QED
    BY <1>10, <1>11, <1>12, <1>13, <1>14, <1>15, <1>16, <1>17 DEF TallyKind

\* A contribution's posts keep their causes through a step of any call.
LEMMA PartialPostsKept ==
    ASSUME TypeOK, TypeOK', NEW c \in Calls, Moves(c), NEW b \in Ballots, NEW t \in Trustees,
           PartialPostsFor(b, t)
    PROVE  PartialPostsFor(b, t)'
<1> DEFINE P == PostingPart(b, t)
           Its == call[c].ballot = b /\ call[c].trustee = t
           N == partialPosts[b][t]
<1>1. /\ partialPosts \in [Ballots -> [Trustees -> Nat]]
      /\ N \in Nat
      /\ faults \in Nat /\ faults' \in Nat
      /\ partials \in [Ballots -> [Trustees -> Stored]]
    BY TallyAssumption DEF TypeOK, Read
<1>2. \A d \in Calls \ {c} : call'[d] = call[d]
    BY MovesLeave
<1>3. IsFiniteSet(P) /\ Cardinality(P) \in Nat
    BY FS_CardinalityType DEF PartialPostsFor
<1>4. /\ IsFiniteSet(P \cup {c})
      /\ Cardinality(P \cup {c}) = IF c \in P THEN Cardinality(P) ELSE Cardinality(P) + 1
      /\ IsFiniteSet(P \ {c})
      /\ Cardinality(P \ {c}) = IF c \in P THEN Cardinality(P) - 1 ELSE Cardinality(P)
    BY <1>3, FS_AddElement, FS_RemoveElement
<1>5. P' = IF call'[c].at \in {"post", "latePost"} /\ Its' THEN P \cup {c} ELSE P \ {c}
    BY <1>2 DEF PostingPart
<1>6. /\ Inserted(b, t) \ {c} \subseteq Inserted(b, t)'
      /\ c \in Inserted(b, t) <=> call[c].at \in {"post", "commit"} /\ Its
      /\ c \in Inserted(b, t)' <=> call'[c].at \in {"post", "commit"} /\ Its'
    BY <1>2 DEF Inserted
<1>7. c \in P <=> call[c].at \in {"post", "latePost"} /\ Its
    BY DEF PostingPart
<1>8. N + Cardinality(P) <= faults + IF InsertedOrInserting(b, t) THEN 1 ELSE 0
    BY DEF PartialPostsFor
<1>9. ASSUME call[c].at \in InPart
      PROVE  /\ call[c] \in Contributing
             /\ call[c].ballot \in Ballots /\ call[c].trustee \in Trustees
    BY <1>9, StepTellsTheRecord DEF TypeOK, InPart, Contributing
<1>10. ASSUME call[c].at \in InPart,
              partialPosts' = [partialPosts EXCEPT ![call[c].ballot][call[c].trustee] = @ + 1]
       PROVE  N' = IF Its THEN N + 1 ELSE N
    BY <1>1, <1>9, <1>10
<1> SUFFICES N' + Cardinality(P') <= faults' + IF InsertedOrInserting(b, t)' THEN 1 ELSE 0
    BY <1>4, <1>5 DEF PartialPostsFor
<1>11. PartKind(c)
    BY PartKinds
<1> HIDE DEF P, N
<1>12. CASE /\ call[c].at \notin InPart /\ call'[c].at \notin InPart
            /\ UNCHANGED <<partialPosts, partials>> /\ faults' >= faults
  <2>1. Cardinality(P') = Cardinality(P) /\ N' = N
      BY <1>4, <1>5, <1>7, <1>12 DEF InPart, N
  <2>2. InsertedOrInserting(b, t) => InsertedOrInserting(b, t)'
      BY <1>6, <1>12 DEF InsertedOrInserting, InPart
  <2> QED
      BY <1>1, <1>3, <1>8, <1>12, <2>1, <2>2
<1>13. CASE /\ call[c].at = "store" /\ call'[c].at = "post"
            /\ call'[c].ballot = call[c].ballot /\ call'[c].trustee = call[c].trustee
            /\ Inserted(call[c].ballot, call[c].trustee) = {}
            /\ partials[call[c].ballot][call[c].trustee] = None
            /\ UNCHANGED <<partialPosts, partials, faults>>
  <2>1. N' = N
      BY <1>13 DEF N
  <2>2. CASE Its
    <3>1. ~InsertedOrInserting(b, t) /\ InsertedOrInserting(b, t)'
        BY <1>6, <1>13, <2>2 DEF InsertedOrInserting
    <3>2. Cardinality(P') = Cardinality(P) + 1
        BY <1>4, <1>5, <1>7, <1>13, <2>2
    <3> QED
        BY <1>1, <1>3, <1>8, <1>13, <2>1, <3>1, <3>2
  <2>3. CASE ~Its
    <3>1. Cardinality(P') = Cardinality(P)
        BY <1>4, <1>5, <1>7, <1>13, <2>3
    <3>2. InsertedOrInserting(b, t) => InsertedOrInserting(b, t)'
        BY <1>6, <1>13, <2>3 DEF InsertedOrInserting
    <3> QED
        BY <1>1, <1>3, <1>8, <1>13, <2>1, <3>1, <3>2
  <2> QED
      BY <2>2, <2>3
<1>14. CASE /\ call[c].at = "post" /\ call'[c].at = "commit"
            /\ call'[c].ballot = call[c].ballot /\ call'[c].trustee = call[c].trustee
            /\ partialPosts' = [partialPosts EXCEPT ![call[c].ballot][call[c].trustee] = @ + 1]
            /\ UNCHANGED <<partials, faults>>
  <2>1. N' = IF Its THEN N + 1 ELSE N
      BY <1>10, <1>14 DEF InPart
  <2>2. InsertedOrInserting(b, t) => InsertedOrInserting(b, t)'
      BY <1>6, <1>14 DEF InsertedOrInserting
  <2>3. Cardinality(P') = IF Its THEN Cardinality(P) - 1 ELSE Cardinality(P)
      BY <1>4, <1>5, <1>7, <1>14
  <2> QED
      BY <1>1, <1>3, <1>8, <1>14, <2>1, <2>2, <2>3
<1>15. CASE /\ call[c].at = "latePost" /\ call'[c].at \notin InPart
            /\ partialPosts' = [partialPosts EXCEPT ![call[c].ballot][call[c].trustee] = @ + 1]
            /\ UNCHANGED <<partials, faults>>
  <2>1. N' = IF Its THEN N + 1 ELSE N
      BY <1>10, <1>15 DEF InPart
  <2>2. InsertedOrInserting(b, t) => InsertedOrInserting(b, t)'
      BY <1>6, <1>15 DEF InsertedOrInserting
  <2>3. Cardinality(P') = IF Its THEN Cardinality(P) - 1 ELSE Cardinality(P)
      BY <1>4, <1>5, <1>7, <1>15 DEF InPart
  <2> QED
      BY <1>1, <1>3, <1>8, <1>15, <2>1, <2>2, <2>3
<1>16. CASE /\ call[c].at = "commit" /\ call'[c].at \notin InPart
            /\ ContributionOf(c) /\ UNCHANGED partialPosts /\ faults' >= faults
  <2>1. Cardinality(P') = Cardinality(P) /\ N' = N
      BY <1>4, <1>5, <1>7, <1>16 DEF InPart, N
  <2>2. InsertedOrInserting(b, t) => InsertedOrInserting(b, t)'
    <3>1. call[c] \in Contributing /\ call[c].sum # None
        BY <1>9, <1>16, TallyAssumption DEF InPart, Contributing, Contents
    <3>2. CASE Its
      <4>1. partials'[b][t] # None
          BY <1>1, <1>16, <3>1, <3>2 DEF ContributionOf
      <4> QED
          BY <4>1 DEF InsertedOrInserting
    <3>3. CASE ~Its
      <4>1. partials'[b][t] = partials[b][t]
          BY <1>1, <1>16, <3>1, <3>3 DEF ContributionOf
      <4> QED
          BY <1>6, <3>3, <4>1 DEF InsertedOrInserting
    <3> QED
        BY <3>2, <3>3
  <2> QED
      BY <1>1, <1>3, <1>8, <1>16, <2>1, <2>2
<1>17. CASE /\ call[c].at = "post" /\ call'[c].at = "latePost"
            /\ call'[c].ballot = call[c].ballot /\ call'[c].trustee = call[c].trustee
            /\ UNCHANGED <<partialPosts, partials>> /\ faults' = faults + 1
  <2>1. Cardinality(P') = Cardinality(P) /\ N' = N
      BY <1>4, <1>5, <1>7, <1>17 DEF N
  <2> QED
      BY <1>1, <1>3, <1>8, <1>17, <2>1
<1>18. CASE /\ call[c].at \in InPart /\ call'[c].at \notin InPart
            /\ UNCHANGED <<partialPosts, partials>> /\ faults' = faults + 1
  <2>1. Cardinality(P') <= Cardinality(P) /\ Cardinality(P') \in Nat /\ N' = N
    <3>1. P' = P \ {c} /\ N' = N
        BY <1>5, <1>18 DEF InPart, N
    <3>2. Cardinality(P \ {c}) \in Nat
        BY <1>4, FS_CardinalityType
    <3> QED
        BY <1>3, <1>4, <3>1, <3>2
  <2> QED
      BY <1>1, <1>3, <1>8, <1>18, <2>1
<1> QED
    BY <1>11, <1>12, <1>13, <1>14, <1>15, <1>16, <1>17, <1>18 DEF PartKind

\* What a call that moves writes to the votes database.
LEMMA MovesWrite ==
    ASSUME TypeOK, NEW c \in Calls, Moves(c)
    PROVE  /\ counters' = counters \/ (At(c, "countCommit") /\ CountersOf(c))
           /\ partials' = partials \/ (At(c, "commit") /\ ContributionOf(c))
    BY TallyKinds, PartKinds DEF TallyKind, PartKind, At

\* What is stored stays, and is of the rows the closing moved.
LEMMA RowsOnlyCome ==
    ASSUME TypeOK, WritesInv, RowsAreTheMoved, NEW c \in Calls, Moves(c)
    PROVE  /\ RowsAreTheMoved'
           /\ \A b \in Ballots :
                 /\ counters[b] # None => counters'[b] # None
                 /\ GivenBy(partials[b]) \subseteq GivenBy(partials'[b])
<1>1. /\ counters \in [Ballots -> Stored]
      /\ partials \in [Ballots -> [Trustees -> Stored]]
    BY DEF TypeOK, Read
<1>2. ASSUME NEW b \in Ballots
      PROVE  counters'[b] = counters[b] \/ counters'[b] = "moved"
  <2>1. CASE counters' = counters
      BY <2>1
  <2>2. CASE At(c, "countCommit") /\ CountersOf(c)
    <3>1. Combined(c) = "moved"
        BY <2>2 DEF WritesInv, MadeSure, HasVerified, At
    <3> QED
        BY <1>1, <2>2, <3>1 DEF CountersOf
  <2> QED
      BY <2>1, <2>2, MovesWrite
<1>3. ASSUME NEW b \in Ballots, NEW t \in Trustees
      PROVE  partials'[b][t] = partials[b][t] \/ partials'[b][t] = "moved"
  <2>1. CASE partials' = partials
      BY <2>1
  <2>2. CASE At(c, "commit") /\ ContributionOf(c)
    <3>1. call[c].sum = "moved"
        BY <2>2 DEF WritesInv, MadeSure, PastTheRoot, At
    <3> QED
        BY <1>1, <2>2, <3>1 DEF ContributionOf
  <2> QED
      BY <2>1, <2>2, MovesWrite
<1>4. UNCHANGED urn
    BY MovesLeave
<1>5. RowsAreTheMoved'
    BY <1>2, <1>3, <1>4 DEF RowsAreTheMoved
<1>6. ASSUME NEW b \in Ballots
      PROVE  GivenBy(partials[b]) \subseteq GivenBy(partials'[b])
    BY <1>3, TallyAssumption DEF GivenBy
<1> QED
    BY <1>2, <1>5, <1>6, TallyAssumption

LEMMA EnoughStays ==
    ASSUME NEW b \in Ballots, EnoughFor(b), GivenBy(partials[b]) \subseteq GivenBy(partials'[b])
    PROVE  EnoughFor(b)'
<1>1. IsFiniteSet(GivenBy(partials'[b])) /\ IsFiniteSet(GivenBy(partials[b]))
  <2>1. GivenBy(partials'[b]) \in SUBSET Trustees /\ GivenBy(partials[b]) \in SUBSET Trustees
      BY DEF GivenBy
  <2> QED
      BY <2>1, TallyAssumption, FS_Subset
<1>2. /\ Cardinality(GivenBy(partials[b])) <= Cardinality(GivenBy(partials'[b]))
      /\ Cardinality(GivenBy(partials[b])) \in Nat
      /\ Cardinality(GivenBy(partials'[b])) \in Nat
    BY <1>1, FS_Subset, FS_CardinalityType
<1> QED
    BY <1>2, TallyAssumption DEF EnoughFor

\* A count finds out what the next step needs.
LEMMA CountsFind ==
    ASSUME TypeOK, NEW c \in Calls, HasFound(c), Counts(c),
           \A b \in Ballots : counters[b] # None => counters'[b] # None
    PROVE  HasFound(c)'
<1> USE DEF PastTheCountGate, HasEnough, Settles
<1>1. CallTypeOK /\ call[c] \in Places
    BY DEF TypeOK, CallTypeOK
<1>2. call[c] # Idle
    BY CountMoves DEF CountSteps, Idle
<1>3. ASSUME NEW s, Goto(c, s)
      PROVE  call'[c] = [call[c] EXCEPT !.at = s] /\ call'[c].at = s /\ call'[c].ballot = call[c].ballot
    BY <1>1, <1>2, <1>3, GotoKeeps DEF Goto, CallTypeOK
<1>4. CASE call'[c] = Idle
    BY <1>4 DEF HasFound, Idle
<1>5. Ends(c) => call'[c] = Idle
    BY <1>1, EndsType
<1>6. UNCHANGED <<rooted, partials>>
    BY CountMoves, MovesLeave DEF Moves
<1>7. \A b \in Ballots : EnoughFor(b)' <=> EnoughFor(b)
    BY <1>6 DEF EnoughFor, GivenBy
<1>8. call[c].ballot \in Ballots
    BY <1>1, <1>2, StepTellsTheRecord
<1>9. CASE \E s \in {"count", "save", "countPost", "countCommit"} :
              /\ call'[c].at = s /\ call'[c].ballot = call[c].ballot
              /\ call[c].at \in HasEnough
    BY <1>6, <1>7, <1>8, <1>9 DEF HasFound
<1>10. CASE /\ call[c].at \in {"count", "save", "countCommit"}
            /\ Goto(c, "settle")
  <2>1. call[c] \in Counting
      BY <1>1, <1>10, StepTellsTheRecord
  <2>2. call'[c].at = "settle" /\ call'[c].seen = {}
      BY <1>3, <1>10, <2>1 DEF Counting
  <2> QED
      BY <2>2 DEF HasFound
<1>11. CASE Gate(c, "countGate", "stored")
  <2>1. CASE Ends(c)
      BY <1>4, <1>5, <2>1
  <2>2. CASE GateIsOpen /\ Goto(c, "stored")
    <3>1. call'[c].at = "stored" /\ rooted'
        BY <1>3, <1>6, <2>2 DEF GateIsOpen
    <3> QED
        BY <3>1 DEF HasFound
  <2> QED
      BY <1>11, <2>1, <2>2 DEF Gate
<1>12. CASE StoredTally(c)
  <2>1. call[c].at = "stored" /\ call[c] \in Gathering
      BY <1>1, <1>12, StepTellsTheRecord DEF StoredTally, At
  <2>2. call'[c].at = "read"
      BY <1>1, <1>12, <2>1 DEF StoredTally, CallTypeOK, Gathering
  <2> QED
      BY <1>6, <2>1, <2>2 DEF HasFound
<1>13. CASE StoredContributions(c)
  <2>1. call[c].at = "read" /\ call[c] \in Gathering
      BY <1>1, <1>13, StepTellsTheRecord DEF StoredContributions, At
  <2>2. \/ Ends(c)
        \/ /\ ~(Cardinality(GivenBy(partials[call[c].ballot])) < Threshold)
           /\ call'[c] = [call[c] EXCEPT !.at = "countSum", !.given = partials[call[c].ballot]]
      BY <1>1, <1>13 DEF StoredContributions, CallTypeOK
  <2>3. CASE Ends(c)
      BY <1>4, <1>5, <2>3
  <2>4. CASE /\ ~(Cardinality(GivenBy(partials[call[c].ballot])) < Threshold)
             /\ call'[c] = [call[c] EXCEPT !.at = "countSum", !.given = partials[call[c].ballot]]
    <3>1. call'[c].at = "countSum" /\ call'[c].ballot = call[c].ballot
        BY <2>1, <2>4 DEF Gathering
    <3>2. Cardinality(GivenBy(partials[call[c].ballot])) \in Nat
      <4>1. GivenBy(partials[call[c].ballot]) \in SUBSET Trustees
          BY DEF GivenBy
      <4> QED
          BY <4>1, TallyAssumption, FS_Subset, FS_CardinalityType
    <3>3. EnoughFor(call[c].ballot)
        BY <2>4, <3>2, TallyAssumption DEF EnoughFor
    <3> QED
        BY <1>6, <1>7, <1>8, <2>1, <3>1, <3>3 DEF HasFound
  <2> QED
      BY <2>2, <2>3, <2>4
<1>14. CASE SumOfUrn(c, "countSum", "count")
  <2>1. call[c].at = "countSum" /\ call[c] \in Gathering
      BY <1>1, <1>14, StepTellsTheRecord DEF SumOfUrn, At
  <2>2. call'[c].at = "count" /\ call'[c].ballot = call[c].ballot
      BY <1>1, <1>14, <2>1 DEF SumOfUrn, CallTypeOK, Gathering
  <2> QED
      BY <1>9, <2>1, <2>2
<1>15. CASE CountFromContributions(c) \/ SaveTally(c) \/ CommitTally(c)
    BY <1>3, <1>4, <1>5, <1>9, <1>10, <1>15
       DEF CountFromContributions, FoundCounters, SaveTally, CommitTally, At
<1>16. CASE PostTally(c)
    BY <1>3, <1>4, <1>5, <1>9, <1>16 DEF PostTally, At
<1>17. ASSUME NEW b \in Ballots, SettleReads(c, b)
       PROVE  HasFound(c)'
  <2>1. call[c].at = "settle" /\ call[c] \in Settling
      BY <1>1, <1>17, StepTellsTheRecord DEF SettleReads, At
  <2>2. CASE Ends(c)
      BY <1>4, <1>5, <2>2
  <2>3. CASE /\ counters[b] # None
             /\ call' = [call EXCEPT ![c].seen = @ \cup {b},
                                     ![c].at = IF call[c].seen \cup {b} = Ballots THEN "stamp" ELSE "settle"]
    <3> DEFINE S == call[c].seen \cup {b}
               s == IF S = Ballots THEN "stamp" ELSE "settle"
    <3>1. call'[c] = [call[c] EXCEPT !.seen = S, !.at = s]
        BY <1>1, <2>3 DEF CallTypeOK
    <3>2. call'[c].seen = S /\ call'[c].at = s
        BY <2>1, <3>1 DEF Settling
    <3>3. \A x \in S : counters'[x] # None
      <4>1. call[c].seen \subseteq Ballots /\ \A x \in call[c].seen : counters[x] # None
          BY <2>1 DEF Settling, HasFound
      <4> QED
          BY <2>3, <4>1
    <3> QED
        BY <3>2, <3>3 DEF HasFound
  <2> QED
      BY <1>17, <2>2, <2>3 DEF SettleReads
<1>18. CASE StampCompletion(c)
  <2>1. call[c].at = "stamp" /\ call[c] \in Settling /\ Goto(c, "cas")
      BY <1>1, <1>18, StepTellsTheRecord DEF StampCompletion, At
  <2>2. call'[c].at = "cas" /\ call'[c].seen = call[c].seen
      BY <1>3, <2>1 DEF Settling
  <2>3. call[c].seen \subseteq Ballots
      BY <2>1 DEF Settling
  <2> QED
      BY <2>1, <2>2, <2>3 DEF HasFound
<1>19. CASE CasTallied(c)
    BY <1>4, <1>5, <1>19 DEF CasTallied
<1> QED
    BY <1>11, <1>12, <1>13, <1>14, <1>15, <1>16, <1>17, <1>18, <1>19 DEF Counts

\* What a call has found stays found while others move.
LEMMA FoundKept ==
    ASSUME TypeOK, NEW c \in Calls, Moves(c), NEW d \in Calls, HasFound(d),
           \A b \in Ballots : /\ counters[b] # None => counters'[b] # None
                              /\ GivenBy(partials[b]) \subseteq GivenBy(partials'[b])
    PROVE  HasFound(d)'
<1>1. UNCHANGED rooted /\ \A e \in Calls \ {c} : call'[e] = call[e]
    BY MovesLeave
<1>2. CASE d = c
  <2>1. CASE Counts(c)
      BY <1>2, <2>1, CountsFind
  <2>2. CASE Contributes(c)
      BY <1>2, <2>2, ContributionMoves
         DEF ContributionSteps, HasFound, PastTheCountGate, HasEnough, Settles, Idle
  <2>3. CASE Fails(c)
    <3>1. call'[c].at \in {"idle", "latePost", "lateCountPost"}
      <4>1. Idle.at = "idle"
          BY DEF Idle
      <4> QED
          BY <2>3, <4>1, FailsLeads
    <3> QED
        BY <1>2, <3>1 DEF HasFound, PastTheCountGate, HasEnough, Settles
  <2>4. CASE Begins(c)
      BY <1>2, <2>4, BeginsLeaves DEF HasFound, PastTheCountGate, HasEnough, Settles
  <2> QED
      BY <2>1, <2>2, <2>3, <2>4 DEF Moves
<1>3. CASE d # c
  <2>1. call'[d] = call[d]
      BY <1>1, <1>3
  <2>2. /\ call[d].at \in HasEnough => call[d].ballot \in Ballots
        /\ call[d].at \in Settles => call[d].seen \subseteq Ballots
      BY StepTellsTheRecord DEF TypeOK, HasEnough, Settles, Idle, Settling
  <2>3. ASSUME call'[d].at \in HasEnough
        PROVE  EnoughFor(call[d].ballot)'
    <3>1. EnoughFor(call[d].ballot)
        BY <2>1, <2>3 DEF HasFound
    <3>2. PICK b \in Ballots : b = call[d].ballot
        BY <2>1, <2>2, <2>3
    <3>3. EnoughFor(b)'
        BY <3>1, <3>2, EnoughStays
    <3> QED
        BY <2>1, <3>2, <3>3 DEF EnoughFor
  <2>4. ASSUME call'[d].at \in Settles
        PROVE  \A b \in call'[d].seen : counters'[b] # None
      BY <2>1, <2>2, <2>4 DEF HasFound
  <2> QED
      BY <1>1, <2>1, <2>3, <2>4 DEF HasFound
<1> QED
    BY <1>2, <1>3

\* A ballot is counted with enough contributions.
LEMMA OpenedKept ==
    ASSUME TypeOK, WritesInv, RowsAreTheMoved, CountedIsOpened,
           NEW c \in Calls, HasFound(c), Moves(c)
    PROVE  CountedIsOpened'
<1>1. \A b \in Ballots : EnoughFor(b) => EnoughFor(b)'
    BY EnoughStays, RowsOnlyCome
<1>2. UNCHANGED rooted
    BY MovesLeave
<1>3. CASE counters' = counters
    BY <1>1, <1>2, <1>3 DEF CountedIsOpened
<1>4. CASE At(c, "countCommit") /\ CountersOf(c)
  <2>1. rooted /\ EnoughFor(call[c].ballot) /\ call[c].ballot \in Ballots
      BY <1>4, StepTellsTheRecord DEF HasFound, PastTheCountGate, HasEnough, At, TypeOK, Idle
  <2>2. \A b \in Ballots : b # call[c].ballot => counters'[b] = counters[b]
      BY <1>4 DEF CountersOf, TypeOK
  <2> QED
      BY <1>1, <1>2, <2>1, <2>2 DEF CountedIsOpened
<1> QED
    BY <1>3, <1>4, MovesWrite

\* The insertion waits for another of the same contribution, and ends when it finds one.
LEMMA AloneKept ==
    ASSUME TypeOK, \A d \in Calls : InsertedAlone(d), NEW c \in Calls, Moves(c)
    PROVE  \A d \in Calls : InsertedAlone(d)'
<1> USE DEF Inserts, InPart
<1> DEFINE Its(d) == <<call[d].ballot, call[d].trustee>>
<1>1. \A d \in Calls \ {c} : call'[d] = call[d]
    BY MovesLeave
<1>2. PartKind(c)
    BY PartKinds
<1>3. \/ call'[c].at \notin Inserts
      \/ /\ call'[c].ballot = call[c].ballot /\ call'[c].trustee = call[c].trustee
         /\ partials' = partials
         /\ \/ call[c].at \in Inserts
            \/ /\ Inserted(call[c].ballot, call[c].trustee) = {}
               /\ partials[call[c].ballot][call[c].trustee] = None
    BY <1>2 DEF PartKind
<1>4. partials' = partials \/ (At(c, "commit") /\ ContributionOf(c))
    BY MovesWrite
<1>5. ASSUME NEW d \in Calls, call[d].at \in Inserts
      PROVE  call[d].ballot \in Ballots /\ call[d].trustee \in Trustees
    BY <1>5, StepTellsTheRecord DEF TypeOK, Contributing
<1>6. partials \in [Ballots -> [Trustees -> Stored]]
    BY DEF TypeOK, Read
<1>7. ASSUME NEW d \in Calls, call'[d].at \in Inserts
      PROVE  partials'[call'[d].ballot][call'[d].trustee] = None
  <2>1. CASE d = c
      BY <1>3, <1>7, <2>1 DEF InsertedAlone
  <2>2. CASE d # c
    <3>1. /\ call'[d] = call[d] /\ partials[call[d].ballot][call[d].trustee] = None
          /\ call[c].at \in Inserts =>
                call[c].ballot # call[d].ballot \/ call[c].trustee # call[d].trustee
        BY <1>1, <1>7, <2>2 DEF InsertedAlone
    <3>2. CASE partials' = partials
        BY <3>1, <3>2
    <3>3. CASE At(c, "commit") /\ ContributionOf(c)
        BY <1>5, <1>6, <1>7, <3>1, <3>3 DEF ContributionOf, At
    <3> QED
        BY <1>4, <3>2, <3>3
  <2> QED
      BY <2>1, <2>2
<1>8. ASSUME NEW d \in Calls \ {c}, call'[d].at \in Inserts, call'[c].at \in Inserts
      PROVE  call'[d].ballot # call'[c].ballot \/ call'[d].trustee # call'[c].trustee
  <2>1. call'[d] = call[d]
      BY <1>1
  <2>2. CASE call[c].at \in Inserts
      BY <1>3, <1>8, <2>1, <2>2 DEF InsertedAlone
  <2>3. CASE Inserted(call[c].ballot, call[c].trustee) = {}
      BY <1>3, <1>8, <2>1, <2>3 DEF Inserted
  <2> QED
      BY <1>3, <1>8, <2>2, <2>3
<1>9. ASSUME NEW d \in Calls, NEW e \in Calls \ {d}, call'[d].at \in Inserts, call'[e].at \in Inserts
      PROVE  call'[e].ballot # call'[d].ballot \/ call'[e].trustee # call'[d].trustee
  <2>1. CASE d = c \/ e = c
      BY <1>8, <1>9, <2>1
  <2>2. CASE d # c /\ e # c
      BY <1>1, <1>9, <2>2 DEF InsertedAlone
  <2> QED
      BY <2>1, <2>2
<1> QED
    BY <1>7, <1>9 DEF InsertedAlone

\* The phase moves to TALLIED when every ballot is counted, with its post.
LEMMA PhaseKept ==
    ASSUME TypeOK, PhaseIsTrue, NEW c \in Calls, HasFound(c), Moves(c),
           \A b \in Ballots : counters[b] # None => counters'[b] # None
    PROVE  PhaseIsTrue'
<1>1. UNCHANGED rooted
    BY MovesLeave
<1>2. CASE UNCHANGED <<phase, talliedPosts>>
    BY <1>1, <1>2 DEF PhaseIsTrue, AllCounted
<1>3. CASE CasTallied(c)
  <2>1. AllCounted
    <3>1. call[c].at = "cas"
        BY <1>3 DEF CasTallied, At
    <3>2. call[c].seen = Ballots /\ \A b \in call[c].seen : counters[b] # None
        BY <3>1 DEF HasFound, Settles
    <3> QED
        BY <3>2 DEF AllCounted
  <2>2. CASE phase = "STRIPPED" /\ rooted /\ phase' = "TALLIED" /\ talliedPosts' = talliedPosts + 1
      BY <1>1, <2>1, <2>2 DEF PhaseIsTrue, AllCounted, CountedPhases
  <2> QED
      BY <1>2, <1>3, <2>2 DEF CasTallied
<1>4. UNCHANGED <<phase, talliedPosts>> \/ CasTallied(c)
    BY ContributionMoves, CountMoves, FailsLeads, BeginsLeaves DEF Moves, posts
<1> QED
    BY <1>2, <1>3, <1>4

\* A call that is settling goes on until the phase is moved, or a ballot is not counted.
LEMMA SettlingGoesOn ==
    ASSUME TypeOK, NEW c \in Calls, Moves(c), faults' = faults,
           call[c].at \in Settles, AllCounted, rooted, phase = "STRIPPED"
    PROVE  call'[c].at \in Settles \/ phase' = "TALLIED"
<1> USE DEF Settles
<1>1. CallTypeOK /\ call[c] \in Settling
    BY StepTellsTheRecord DEF TypeOK, CallTypeOK
<1>2. ~Fails(c) /\ ~Begins(c) /\ ~Contributes(c)
  <2>1. faults \in Nat
      BY TallyAssumption DEF TypeOK
  <2>2. ~Fails(c)
    <3>1. Fails(c) => faults' = faults + 1
        BY FailsLeads
    <3> QED
        BY <2>1, <3>1
  <2>3. ~Begins(c)
      BY BeginsLeaves DEF Idle
  <2>4. ~Contributes(c)
      BY ContributionMoves DEF ContributionSteps
  <2> QED
      BY <2>2, <2>3, <2>4
<1>3. CASE StampCompletion(c)
    BY <1>1, <1>3, GotoKeeps DEF StampCompletion, Idle
<1>4. CASE CasTallied(c)
    BY <1>4 DEF CasTallied
<1>5. ASSUME NEW b \in Ballots, SettleReads(c, b)
      PROVE  call'[c].at \in Settles
  <2>1. call' = [call EXCEPT ![c] = [call[c] EXCEPT !.seen = @ \cup {b},
            !.at = IF call[c].seen \cup {b} = Ballots THEN "stamp" ELSE "settle"]]
      BY <1>5 DEF SettleReads, AllCounted
  <2>2. \E s \in {"stamp", "settle"} :
            call'[c] = [call[c] EXCEPT !.seen = call[c].seen \cup {b}, !.at = s]
      BY <1>1, <2>1 DEF CallTypeOK
  <2> QED
      BY <1>1, <2>2 DEF Settling
<1> QED
    BY <1>2, <1>3, <1>4, <1>5 DEF Moves, Counts, Gate, StoredTally, StoredContributions, SumOfUrn,
       CountFromContributions, SaveTally, PostTally, CommitTally, At

\* Who commits counters settles next, and who settles is not stopped by the others.
LEMMA LastKept ==
    ASSUME TypeOK, TypeOK', PhaseIsTrue, TheLastSettles, outside = 0, NEW c \in Calls, Moves(c)
    PROVE  TheLastSettles'
<1> SUFFICES ASSUME faults' = 0, phase' = "STRIPPED", AllCounted'
             PROVE  \E d \in Calls : call'[d].at \in Settles
    BY DEF TheLastSettles, AllCounted, Settles
<1>1. faults = 0 /\ faults' = faults
    BY MovesLeave, TallyAssumption DEF TypeOK
<1>2. phase = "STRIPPED" /\ rooted
  <2>1. UNCHANGED <<phase, talliedPosts>> \/ CasTallied(c)
      BY ContributionMoves, CountMoves, FailsLeads, BeginsLeaves DEF Moves, posts
  <2> QED
      BY <2>1 DEF CasTallied, PhaseIsTrue
<1>3. CASE counters' = counters
  <2>1. AllCounted
      BY <1>3 DEF AllCounted
  <2>2. PICK d \in Calls : call[d].at \in Settles
      BY <1>1, <1>2, <2>1 DEF TheLastSettles, AllCounted, Settles
  <2>3. CASE d = c
      BY <1>1, <1>2, <2>1, <2>2, <2>3, SettlingGoesOn
  <2>4. CASE d # c
      BY <2>2, <2>4, MovesLeave
  <2> QED
      BY <2>3, <2>4
<1>4. CASE counters' # counters
  <2>1. Counts(c)
      BY <1>1, <1>4, ContributionMoves, FailsLeads, BeginsLeaves, TallyAssumption DEF Moves, TypeOK
  <2>2. call'[c].at = "settle"
      BY <1>4, <2>1, CountWrites
  <2> QED
      BY <2>2 DEF Settles
<1> QED
    BY <1>3, <1>4

LEMMA SettledInit == Init => SettledInv
<1> SUFFICES ASSUME Init PROVE AloneInv
    BY DEF SettledInv
<1>1. \A c \in Calls : call[c].at = "idle"
    BY DEF Init, Idle
<1>2. PhaseIsTrue /\ RowsAreTheMoved /\ CountedIsOpened
    BY TallyAssumption DEF Init, PhaseIsTrue, RowsAreTheMoved, CountedIsOpened, CountedPhases
<1>3. \A c \in Calls : HasFound(c) /\ InsertedAlone(c)
    BY <1>1 DEF HasFound, InsertedAlone, PastTheCountGate, HasEnough, Settles, Inserts
<1>4. \A b \in Ballots : /\ PostingTally(b) = {} /\ \A t \in Trustees : PostingPart(b, t) = {}
                         /\ tallyPosts[b] = 0 /\ \A t \in Trustees : partialPosts[b][t] = 0
    BY <1>1 DEF PostingTally, PostingPart, Init
<1>5. EachPostHasItsCause
  <2>1. IsFiniteSet({}) /\ Cardinality({}) = 0 /\ faults = 0
      BY FS_EmptySet DEF Init
  <2>2. \A b \in Ballots : TallyPostsFor(b)
      BY <1>4, <2>1 DEF TallyPostsFor
  <2>3. ASSUME NEW b \in Ballots, NEW t \in Trustees
        PROVE  PartialPostsFor(b, t)
    <3>1. PostingPart(b, t) = {} /\ partialPosts[b][t] = 0
        BY <1>4
    <3>2. Cardinality(PostingPart(b, t)) = 0 /\ IsFiniteSet(PostingPart(b, t))
        BY <2>1, <3>1
    <3> QED
        BY <2>1, <3>1, <3>2 DEF PartialPostsFor
  <2> QED
      BY <2>2, <2>3 DEF EachPostHasItsCause
<1>6. TheLastSettles
    BY DEF Init, TheLastSettles
<1> QED
    BY <1>2, <1>3, <1>5, <1>6 DEF AloneInv

LEMMA SettledStep ==
    ASSUME TypeOK, WritesInv, SettledInv, [Next]_tallyVars
    PROVE  SettledInv'
<1> SUFFICES ASSUME outside' = 0 PROVE AloneInv'
    BY DEF SettledInv
<1>1. TypeOK' /\ outside = 0 /\ AloneInv
    BY TypeStep, StepsAlone DEF SettledInv
<1>2. ASSUME NEW c \in Calls, Moves(c)
      PROVE  AloneInv'
  <2>1. /\ RowsAreTheMoved'
        /\ \A b \in Ballots : /\ counters[b] # None => counters'[b] # None
                              /\ GivenBy(partials[b]) \subseteq GivenBy(partials'[b])
      BY <1>1, <1>2, RowsOnlyCome DEF AloneInv
  <2>2. PhaseIsTrue' /\ CountedIsOpened'
      BY <1>1, <1>2, <2>1, PhaseKept, OpenedKept DEF AloneInv
  <2>3. \A d \in Calls : HasFound(d)' /\ InsertedAlone(d)'
      BY <1>1, <1>2, <2>1, FoundKept, AloneKept DEF AloneInv
  <2>4. EachPostHasItsCause'
      BY <1>1, <1>2, TallyPostsKept, PartialPostsKept DEF AloneInv, EachPostHasItsCause
  <2>5. TheLastSettles'
      BY <1>1, <1>2, LastKept DEF AloneInv
  <2> QED
      BY <2>1, <2>2, <2>3, <2>4, <2>5 DEF AloneInv
<1>3. ASSUME UNCHANGED <<posts, votesDb, call, Bounds>>
      PROVE  /\ RowsAreTheMoved'
             /\ \A c \in Calls : InsertedAlone(c)'
             /\ EachPostHasItsCause'
  <2>1. UNCHANGED <<partialPosts, tallyPosts, urn, partials, counters, call, faults>>
      BY <1>3 DEF posts, votesDb, Bounds
  <2> QED
      BY <1>1, <2>1 DEF AloneInv, RowsAreTheMoved, InsertedAlone, EachPostHasItsCause, TallyPostsFor,
         PartialPostsFor, PostingTally, PostingPart, SavedOrSaving, InsertedOrInserting, Saving, Inserted
<1>4. ASSUME UNCHANGED <<votesDb, call>>, rooted => rooted'
      PROVE  CountedIsOpened' /\ \A c \in Calls : HasFound(c)'
  <2>1. UNCHANGED <<partials, counters, call>>
      BY <1>4 DEF votesDb
  <2> QED
      BY <1>1, <1>4, <2>1 DEF AloneInv, CountedIsOpened, HasFound, EnoughFor
<1>5. CASE Strips
  <2>1. UNCHANGED <<posts, votesDb, call, Bounds>> /\ ~rooted /\ rooted' /\ phase' = "STRIPPED"
      BY <1>5 DEF Strips
  <2>2. \A b \in Ballots : counters[b] = None /\ counters'[b] = None
      BY <1>1, <2>1 DEF AloneInv, CountedIsOpened, votesDb
  <2>3. PhaseIsTrue'
      BY <1>1, <1>5, <2>1 DEF AloneInv, PhaseIsTrue, CountedPhases, Strips, posts
  <2>4. TheLastSettles'
      BY <2>2, TallyAssumption DEF TheLastSettles
  <2> QED
      BY <1>3, <1>4, <2>1, <2>3, <2>4 DEF AloneInv
<1>6. CASE Certifies
  <2>1. UNCHANGED <<rooted, posts, votesDb, call, Bounds>> /\ phase = "TALLIED" /\ phase' = "CERTIFIED"
      BY <1>6 DEF Certifies
  <2>2. PhaseIsTrue'
      BY <1>1, <2>1 DEF AloneInv, PhaseIsTrue, CountedPhases, AllCounted, posts, votesDb
  <2>3. TheLastSettles'
      BY <2>1 DEF TheLastSettles
  <2> QED
      BY <1>3, <1>4, <2>1, <2>2, <2>3 DEF AloneInv
<1>7. CASE UNCHANGED tallyVars
  <2>1. /\ UNCHANGED <<phase, rooted, posts, votesDb, call, Bounds, outside>>
        /\ UNCHANGED <<talliedPosts, counters, faults>>
      BY <1>7 DEF tallyVars, posts, votesDb, Bounds
  <2>2. PhaseIsTrue' /\ TheLastSettles'
      BY <1>1, <2>1 DEF AloneInv, PhaseIsTrue, AllCounted, TheLastSettles
  <2> QED
      BY <1>3, <1>4, <2>1, <2>2 DEF AloneInv
<1> QED
    BY <1>2, <1>5, <1>6, <1>7, StepsAlone

LEMMA SettledAlways == Spec => [](TypeOK /\ WritesInv /\ SettledInv)
<1>1. Init => TypeOK /\ WritesInv /\ SettledInv
    BY TypeInit, WritesInit, SettledInit
<1>2. TypeOK /\ WritesInv /\ SettledInv /\ [Next]_tallyVars => TypeOK' /\ WritesInv' /\ SettledInv'
    BY TypeStep, WritesStep, SettledStep
<1> QED
    BY <1>1, <1>2, PTL DEF Spec

\* However many counts and contributions run at once, and whatever of them fails,
\* each ballot, contribution and election has one post more than there were
\* failures at the most; and of counts that end together one is left that moves the
\* phase when every ballot is counted.
THEOREM TallyIsAlwaysSettled == Spec => []TallyIsSettled
<1>1. TypeOK /\ SettledInv => TallyIsSettled
  <2> SUFFICES ASSUME TypeOK, SettledInv PROVE TallyIsSettled
      OBVIOUS
  <2>1. TheLastSettles
      BY DEF SettledInv, AloneInv, TheLastSettles
  <2>2. ASSUME outside = 0, NEW b \in Ballots
        PROVE  tallyPosts[b] <= faults + 1 /\ \A t \in Trustees : partialPosts[b][t] <= faults + 1
    <3>1. /\ faults \in Nat /\ tallyPosts[b] \in Nat
          /\ \A t \in Trustees : partialPosts[b][t] \in Nat
        BY TallyAssumption DEF TypeOK
    <3>2. TallyPostsFor(b) /\ \A t \in Trustees : PartialPostsFor(b, t)
        BY <2>2 DEF SettledInv, AloneInv, EachPostHasItsCause
    <3>3. tallyPosts[b] <= faults + 1
      <4>1. Cardinality(PostingTally(b)) \in Nat
          BY <3>2, FS_CardinalityType DEF TallyPostsFor
      <4> QED
          BY <3>1, <3>2, <4>1 DEF TallyPostsFor
    <3>4. ASSUME NEW t \in Trustees
          PROVE  partialPosts[b][t] <= faults + 1
      <4>1. Cardinality(PostingPart(b, t)) \in Nat
          BY <3>2, FS_CardinalityType DEF PartialPostsFor
      <4> QED
          BY <3>1, <3>2, <4>1 DEF PartialPostsFor
    <3> QED
        BY <3>3, <3>4
  <2>3. outside = 0 => talliedPosts = IF phase \in {"TALLIED", "CERTIFIED"} THEN 1 ELSE 0
      BY DEF SettledInv, AloneInv, PhaseIsTrue, CountedPhases
  <2> QED
      BY <2>1, <2>2, <2>3 DEF TallyIsSettled, PostsAreAccountedFor
<1> QED
    BY <1>1, SettledAlways, PTL

\* What the promise is told of the two databases.
Contributed == [b \in Ballots |-> GivenBy(partials[b])]
CountedOnes == {b \in Ballots : counters[b] # None}

\* A step of a call is one of the promise's, or none.
LEMMA CallsKeepThePromise ==
    ASSUME TypeOK, WritesInv, AloneInv, NEW c \in Calls, Moves(c)
    PROVE  [Promise!Next]_(Promise!promiseVars)
<1> USE DEF Contributed, CountedOnes
<1>1. \A S : Promise!Cardinality(S) = Cardinality(S)
    BY DEF Promise!Cardinality, Cardinality
<1>2. CASE UNCHANGED <<phase, partials, counters>>
    BY <1>2 DEF Promise!promiseVars
<1>3. CASE At(c, "commit") /\ ContributionOf(c) /\ UNCHANGED <<phase, counters>>
  <2> DEFINE b == call[c].ballot
             t == call[c].trustee
  <2>1. call[c] \in Contributing /\ b \in Ballots /\ t \in Trustees
      BY <1>3, StepTellsTheRecord DEF TypeOK, At, Contributing
  <2>2. rooted /\ call[c].sum = "moved"
      BY <1>3 DEF WritesInv, MadeSure, PastTheGate, PastTheRoot, At
  <2>3. phase # "VALIDATED"
      BY <2>2 DEF AloneInv, PhaseIsTrue
  <2>4. partials[b][t] = None
      BY <1>3 DEF AloneInv, InsertedAlone, Inserts, At
  <2>5. partials \in [Ballots -> [Trustees -> Stored]]
      BY DEF TypeOK, Read
  <2> HIDE DEF b, t
  <2>6. /\ partials'[b] = [partials[b] EXCEPT ![t] = "moved"]
        /\ \A x \in Ballots \ {b} : partials'[x] = partials[x]
      BY <1>3, <2>1, <2>2, <2>5 DEF ContributionOf, b, t
  <2>7. GivenBy(partials'[b]) = GivenBy(partials[b]) \cup {t}
      BY <2>1, <2>5, <2>6, TallyAssumption DEF GivenBy
  <2>8. t \notin GivenBy(partials[b])
      BY <2>4 DEF GivenBy
  <2>9. Contributed' = [Contributed EXCEPT ![b] = @ \cup {t}]
      BY <2>1, <2>6, <2>7
  <2>10. Promise!Contribute(b, t)
      BY <1>3, <2>1, <2>3, <2>8, <2>9 DEF Promise!Contribute
  <2> QED
      BY <2>1, <2>10 DEF Promise!Next
<1>4. CASE At(c, "countCommit") /\ CountersOf(c) /\ UNCHANGED <<phase, partials>>
  <2>1. PICK b \in Ballots : b = call[c].ballot
      BY <1>4, StepTellsTheRecord DEF TypeOK, At, Idle
  <2>2. Combined(c) = "moved" /\ counters[b] = None
      BY <1>4, <2>1 DEF WritesInv, MadeSure, Locked, HasVerified, HoldsLock, At
  <2>3. rooted /\ EnoughFor(b)
      BY <1>4, <2>1 DEF AloneInv, HasFound, PastTheCountGate, HasEnough, At
  <2>4. phase = "STRIPPED"
      BY <2>1, <2>2, <2>3 DEF AloneInv, PhaseIsTrue, AllCounted, CountedPhases, TypeOK, Phases
  <2>5. counters' = [counters EXCEPT ![b] = "moved"] /\ counters \in [Ballots -> Stored]
      BY <1>4, <2>1, <2>2 DEF CountersOf, TypeOK
  <2>6. CountedOnes' = CountedOnes \cup {b} /\ b \notin CountedOnes
      BY <2>1, <2>2, <2>5, TallyAssumption
  <2>7. Promise!Cardinality(Contributed[b]) >= Threshold
      BY <1>1, <2>1, <2>3 DEF EnoughFor
  <2>8. Promise!Count(b)
      BY <1>4, <2>4, <2>6, <2>7 DEF Promise!Count
  <2> QED
      BY <2>8 DEF Promise!Next
<1>5. CASE CasTallied(c) /\ UNCHANGED <<partials, counters>>
  <2>1. call[c].at = "cas"
      BY <1>5 DEF CasTallied, At
  <2>2. CountedOnes = Ballots
      BY <2>1 DEF AloneInv, HasFound, Settles
  <2>3. CASE phase = "STRIPPED" /\ phase' = "TALLIED"
      BY <1>5, <2>2, <2>3 DEF Promise!Next, Promise!Tally
  <2> QED
      BY <1>2, <1>5, <2>3 DEF CasTallied
<1>6. CASE Contributes(c)
  <2>1. UNCHANGED <<phase, counters>>
      BY <1>6, ContributionMoves
  <2> QED
      BY <1>2, <1>3, <2>1, MovesWrite
<1>7. CASE Counts(c)
  <2>1. UNCHANGED partials /\ (UNCHANGED phase \/ CasTallied(c))
      BY <1>7, CountMoves
  <2>2. CasTallied(c) => UNCHANGED counters
      BY DEF CasTallied, votesDb
  <2> QED
      BY <1>2, <1>4, <1>5, <2>1, <2>2, MovesWrite
<1>8. CASE Fails(c) \/ Begins(c)
  <2>1. UNCHANGED phase
      BY <1>8, FailsLeads, BeginsLeaves
  <2>2. UNCHANGED counters \/ UNCHANGED partials
      BY <1>8, FailsLeads, BeginsLeaves
  <2> QED
      BY <1>2, <1>3, <1>4, <2>1, <2>2, MovesWrite
<1> QED
    BY <1>6, <1>7, <1>8 DEF Moves

\* The two databases, with posts between their commits, calls that run at once and
\* fail anywhere, promise what one database without faults would: each contribution
\* and each count is one step, made once, and the phase follows when all are there.
THEOREM TallyKeepsItsPromise == MaxOutside = 0 => (Spec => KeepsThePromise)
<1> SUFFICES ASSUME MaxOutside = 0 PROVE Spec => KeepsThePromise
    OBVIOUS
<1>1. Init => Promise!Init
  <2>1. Init => Contributed = [b \in Ballots |-> {}] /\ CountedOnes = {}
      BY DEF Init, Contributed, CountedOnes, GivenBy
  <2> QED
      BY <2>1 DEF Init, Promise!Init, Contributed, CountedOnes
<1>2. TypeOK => outside = 0
    BY DEF TypeOK
<1>3. TypeOK /\ TypeOK' /\ WritesInv /\ SettledInv /\ [Next]_tallyVars => [Promise!Next]_(Promise!promiseVars)
  <2> SUFFICES ASSUME TypeOK, TypeOK', WritesInv, SettledInv, [Next]_tallyVars
               PROVE  [Promise!Next]_(Promise!promiseVars)
      OBVIOUS
  <2>1. outside = 0 /\ outside' = 0 /\ AloneInv
      BY <1>2 DEF SettledInv, TypeOK
  <2>2. CASE Strips
    <3>1. phase = "VALIDATED" /\ phase' = "STRIPPED" /\ UNCHANGED <<partials, counters>>
        BY <2>2 DEF Strips, votesDb
    <3> QED
        BY <3>1 DEF Promise!Next, Promise!Strip
  <2>3. CASE Certifies
    <3>1. phase = "TALLIED" /\ phase' = "CERTIFIED" /\ UNCHANGED <<partials, counters>>
        BY <2>3 DEF Certifies, votesDb
    <3> QED
        BY <3>1 DEF Promise!Next, Promise!Certify
  <2>4. CASE UNCHANGED tallyVars
      BY <2>4 DEF tallyVars, votesDb, Promise!promiseVars
  <2> QED
      BY <2>1, <2>2, <2>3, <2>4, StepsAlone, CallsKeepThePromise
<1> QED
    BY <1>1, <1>3, SettledAlways, PTL DEF Spec, KeepsThePromise, Promise!Spec

----------------------------------------------------------------------------
(***************************************************************************)
(* The tally under the check.                                              *)
(***************************************************************************)
CheckMoves(k) == BeginCertification(k) \/ Certifying(k) \/ CertificationFails(k)

\* A step of the whole is one of the tally's, or one more fault.
OnlyAFault == Fault /\ UNCHANGED <<phase, rooted, posts, votesDb, call>>

LEMMA TallyBelow ==
    ASSUME [CheckNext]_allVars
    PROVE  [Next]_tallyVars \/ OnlyAFault
<1>1. ASSUME NEW k \in Certifications, CheckMoves(k)
      PROVE  [Next]_tallyVars \/ OnlyAFault
  <2>1. CASE CertificationFails(k)
      BY <2>1 DEF CertificationFails, OnlyAFault
  <2>2. CASE WriteCertified(k)
    <3>1. CASE phase = "TALLIED" /\ rooted /\ phase' = "CERTIFIED"
        BY <2>2, <3>1 DEF WriteCertified, Certifies, Next
    <3>2. CASE UNCHANGED phase
        BY <2>2, <3>2 DEF WriteCertified, tallyVars, Bounds
    <3> QED
        BY <2>2, <3>1, <3>2 DEF WriteCertified
  <2>3. CASE BeginCertification(k) \/ (Certifying(k) /\ ~WriteCertified(k))
    <3>1. UNCHANGED tallyVars
        BY <2>3 DEF BeginCertification, Certifying, ReadPhase, ReadPartials, ReadTallies, Report,
           ReadBallotUrn, MarkUnderReview, PostUnderReview, CheckOnlyReads
    <3> QED
        BY <3>1
  <2> QED
      BY <1>1, <2>1, <2>2, <2>3 DEF CheckMoves
<1>2. CASE UNCHANGED allVars
    BY <1>2 DEF allVars
<1> QED
    BY <1>1, <1>2 DEF CheckNext, CheckMoves, Next

\* One fault more breaks nothing that the tally's proofs rest on.
LEMMA FaultKeepsTheTally ==
    ASSUME TypeOK, WritesInv, SettledInv, OnlyAFault
    PROVE  TypeOK' /\ WritesInv' /\ SettledInv'
<1>1. /\ UNCHANGED <<phase, rooted, partialPosts, tallyPosts, talliedPosts, urn, partials, counters,
                     completedAt, call, outside>>
      /\ faults' = faults + 1 /\ faults < MaxFaults /\ faults \in Nat
    BY TallyAssumption DEF OnlyAFault, Fault, posts, votesDb, TypeOK
<1>2. TypeOK'
    BY <1>1, TallyAssumption DEF TypeOK
<1>3. WritesInv'
    BY <1>1 DEF WritesInv, MadeSure, Locked, Combined, BelongToSum, GivenBy
<1>4. ASSUME AloneInv
      PROVE  AloneInv'
  <2>1. PhaseIsTrue' /\ RowsAreTheMoved' /\ CountedIsOpened'
      BY <1>1, <1>4 DEF AloneInv, PhaseIsTrue, AllCounted, RowsAreTheMoved, CountedIsOpened, EnoughFor
  <2>2. \A c \in Calls : HasFound(c)' /\ InsertedAlone(c)'
      BY <1>1, <1>4 DEF AloneInv, HasFound, InsertedAlone, EnoughFor
  <2>3. ASSUME NEW b \in Ballots
        PROVE  TallyPostsFor(b)'
    <3>1. TallyPostsFor(b) /\ tallyPosts[b] \in Nat
        BY <1>4 DEF AloneInv, EachPostHasItsCause, TypeOK
    <3>2. PostingTally(b)' = PostingTally(b) /\ SavedOrSaving(b)' = SavedOrSaving(b)
        BY <1>1 DEF PostingTally, SavedOrSaving, Saving
    <3>3. Cardinality(PostingTally(b)) \in Nat
        BY <3>1, FS_CardinalityType DEF TallyPostsFor
    <3> QED
        BY <1>1, <3>1, <3>2, <3>3 DEF TallyPostsFor
  <2>4. ASSUME NEW b \in Ballots, NEW t \in Trustees
        PROVE  PartialPostsFor(b, t)'
    <3>1. PartialPostsFor(b, t) /\ partialPosts[b][t] \in Nat
        BY <1>4 DEF AloneInv, EachPostHasItsCause, TypeOK
    <3>2. PostingPart(b, t)' = PostingPart(b, t) /\ InsertedOrInserting(b, t)' = InsertedOrInserting(b, t)
        BY <1>1 DEF PostingPart, InsertedOrInserting, Inserted
    <3>3. Cardinality(PostingPart(b, t)) \in Nat
        BY <3>1, FS_CardinalityType DEF PartialPostsFor
    <3> QED
        BY <1>1, <3>1, <3>2, <3>3 DEF PartialPostsFor
  <2>5. TheLastSettles'
      BY <1>1 DEF TheLastSettles
  <2> QED
      BY <2>1, <2>2, <2>3, <2>4, <2>5 DEF AloneInv, EachPostHasItsCause
<1> QED
    BY <1>1, <1>2, <1>3, <1>4 DEF SettledInv

LEMMA TallyGoesOn ==
    ASSUME TypeOK, WritesInv, SettledInv, [CheckNext]_allVars
    PROVE  TypeOK' /\ WritesInv' /\ SettledInv'
BY TallyBelow, FaultKeepsTheTally, TypeStep, WritesStep, SettledStep

LEMMA TallyAlways == CheckSpec => [](TypeOK /\ WritesInv /\ SettledInv)
<1>1. CheckInit => TypeOK /\ WritesInv /\ SettledInv
    BY TypeInit, WritesInit, SettledInit DEF CheckInit
<1>2. TypeOK /\ WritesInv /\ SettledInv /\ [CheckNext]_allVars => TypeOK' /\ WritesInv' /\ SettledInv'
    BY TallyGoesOn
<1> QED
    BY <1>1, <1>2, PTL DEF CheckSpec

\* The certification, and its failures, leave what the trustees open and what the
\* counters count to the tally.
THEOREM CheckedTallyOpensTheMovedSum ==
    CheckSpec => OnlyTheMovedSumIsOpened /\ CountersAreTheMovedVotes
<1>1. ASSUME TypeOK, WritesInv, [CheckNext]_allVars
      PROVE  OpensTheMovedSum /\ CountsTheMovedVotes
  <2>1. CASE OnlyAFault
      BY <2>1 DEF OnlyAFault, votesDb, OpensTheMovedSum, CountsTheMovedVotes
  <2> QED
      BY <1>1, <2>1, TallyBelow, OpeningStep, SavingStep
<1>2. TypeOK /\ WritesInv /\ [CheckNext]_allVars
        => [OpensTheMovedSum]_tallyVars /\ [CountsTheMovedVotes]_tallyVars
    BY <1>1
<1> QED
    BY <1>2, TallyAlways, PTL DEF CheckSpec, OnlyTheMovedSumIsOpened, CountersAreTheMovedVotes

----------------------------------------------------------------------------
(***************************************************************************)
(* What a certification may have read.                                     *)
(***************************************************************************)
Records     == {NotChecking} \cup Reading \cup Ready \cup Marking
PastTheUrn  == {"partials", "tallies", "status"}
HasReadTheUrn(r) == r.at \in PastTheUrn => \A b \in Ballots : r.urn[b] # None

CheckTypeInv == CheckTypeOK /\ \A k \in Certifications : HasReadTheUrn(check[k])

\* The step a certification is at tells what kind of record it is.
LEMMA StepTellsTheCheck ==
    ASSUME NEW r \in Records
    PROVE  /\ r.at \in {"phase", "urn", "partials", "tallies", "status"} => r \in Reading
           /\ r.at = "write" => r \in Ready
           /\ r.at \in {"mark", "markPost"} => r \in Marking
           /\ r = NotChecking <=> r.at = "idle"
<1>1. NotChecking.at = "idle"
    BY DEF NotChecking
<1> QED
    BY <1>1 DEF Records, Reading, Ready, Marking

\* What the report of a check says, of what was read.
LEMMA ReportedRecord ==
    ASSUME NEW r \in Reading, r.at = "status", HasReadTheUrn(r), TypeOK,
           NEW m \in BOOLEAN, NEW A \in SUBSET Alterable,
           NEW s, s = [r EXCEPT !.marked = m, !.altered = A], s.phase # "CERTIFIED"
    PROVE  /\ CanCertify(s) /\ ~s.again => [s EXCEPT !.at = "write"] \in Ready
           /\ [s EXCEPT !.at = "mark"] \in Marking
<1>1. /\ s = [at |-> "status", again |-> r.again, phase |-> r.phase, rooted |-> r.rooted, altered |-> A,
              urn |-> r.urn, given |-> r.given, found |-> r.found, marked |-> m]
      /\ r.again \in BOOLEAN /\ r.phase \in Phases /\ r.rooted \in BOOLEAN
      /\ r.urn \in [Ballots -> Stored] /\ r.given \in [Ballots -> Read] /\ r.found \in [Ballots -> Stored]
    BY DEF Reading
<1>2. r.urn \in [Ballots -> Contents]
    BY <1>1 DEF HasReadTheUrn, PastTheUrn, Stored
<1>3. [s EXCEPT !.at = "mark"] \in Marking
    BY <1>1, <1>2 DEF Marking
<1>4. ASSUME CanCertify(s), ~s.again
      PROVE  [s EXCEPT !.at = "write"] \in Ready
  <2>1. s.phase = "TALLIED" /\ s.rooted = TRUE /\ s.marked = FALSE /\ s.again = FALSE
      BY <1>1, <1>4 DEF CanCertify, Counted, Anomalous, LinkNotCleared, WasMarked
  <2>2. \A b \in Ballots : r.urn[b] = "moved"
      BY <1>1, <1>4, <2>1 DEF CanCertify, Anomalous, UrnContradicts
  <2>3. r.urn \in [Ballots -> {"moved"}]
      BY <1>1, <2>2
  <2>4. \A b \in Ballots : r.found[b] # None
      BY <1>1, <1>4 DEF CanCertify, Anomalous, TallyContradicts
  <2>5. r.found \in [Ballots -> Contents]
      BY <1>1, <2>4 DEF Stored
  <2>6. r.again \in {FALSE} /\ r.phase \in {"TALLIED"} /\ r.rooted \in {TRUE} /\ m \in {FALSE}
      BY <1>1, <2>1
  <2> QED
      BY <1>1, <2>3, <2>5, <2>6 DEF Ready
<1> QED
    BY <1>3, <1>4

LEMMA AlteredType == TypeOK => Altered \in SUBSET Alterable
    BY DEF Altered, Alterable

\* Each step of a certification goes on to a record.
LEMMA CheckStepType ==
    ASSUME TypeOK, CheckTypeInv, NEW k \in Certifications, CheckMoves(k)
    PROVE  \E r \in Records : HasReadTheUrn(r) /\ check' = [check EXCEPT ![k] = r]
<1>1. check \in [Certifications -> Records] /\ HasReadTheUrn(check[k]) /\ check[k] \in Records
    BY DEF CheckTypeInv, CheckTypeOK, Records
<1>2. Altered \in SUBSET Alterable /\ urn \in [Ballots -> Contents] /\ phase \in Phases
        /\ rooted \in BOOLEAN /\ partials \in [Ballots -> Read] /\ counters \in [Ballots -> Stored]
    BY AlteredType DEF TypeOK
<1>3. CASE CheckEnds(k)
  <2>1. NotChecking \in Records /\ HasReadTheUrn(NotChecking)
      BY DEF Records, HasReadTheUrn, PastTheUrn, NotChecking
  <2> QED
      BY <1>3, <2>1 DEF CheckEnds
<1>4. CASE BeginCertification(k)
  <2> DEFINE r == [at |-> "phase", again |-> FALSE, phase |-> "VALIDATED", rooted |-> FALSE, altered |-> {},
            urn |-> [b \in Ballots |-> None], given |-> [b \in Ballots |-> NothingRead],
            found |-> [b \in Ballots |-> None], marked |-> FALSE]
  <2>1. r \in Reading
      BY DEF Reading, Phases, Stored, NothingRead, Read
  <2>2. HasReadTheUrn(r)
      BY DEF HasReadTheUrn, PastTheUrn
  <2>3. check' = [check EXCEPT ![k] = r]
      BY <1>4 DEF BeginCertification
  <2> HIDE DEF r
  <2> QED
      BY <2>1, <2>2, <2>3 DEF Records
<1>5. ASSUME CheckAt(k, "phase") \/ CheckAt(k, "urn") \/ CheckAt(k, "partials") \/ CheckAt(k, "tallies")
             \/ CheckAt(k, "status")
      PROVE  check[k] \in Reading
    BY <1>1, <1>5, StepTellsTheCheck DEF CheckAt
<1>6. CASE ReadPhase(k)
  <2> DEFINE r == [check[k] EXCEPT !.at = "urn", !.phase = phase, !.rooted = rooted, !.altered = Altered]
  <2>1. check' = [check EXCEPT ![k] = r]
      BY <1>1, <1>6 DEF ReadPhase
  <2>2. r \in Reading /\ r.at = "urn"
      BY <1>2, <1>5, <1>6 DEF ReadPhase, Reading
  <2> HIDE DEF r
  <2> QED
      BY <2>1, <2>2 DEF Records, HasReadTheUrn, PastTheUrn
<1>7. ASSUME NEW b \in Ballots, ReadBallotUrn(k, b)
      PROVE  \E r \in Records : HasReadTheUrn(r) /\ check' = [check EXCEPT ![k] = r]
  <2>1. PICK rows \in IF phase = "VALIDATED" /\ ~rooted THEN {"moved", "other"} ELSE {urn[b]} :
          LET read == [check[k].urn EXCEPT ![b] = rows]
          IN check' = [check EXCEPT ![k].urn = read, ![k].altered = @ \cap Altered,
                 ![k].at = IF \E a \in Ballots : read[a] = None THEN "urn" ELSE "partials"]
      BY <1>7 DEF ReadBallotUrn
  <2> DEFINE read == [check[k].urn EXCEPT ![b] = rows]
             next == IF \E a \in Ballots : read[a] = None THEN "urn" ELSE "partials"
             r == [check[k] EXCEPT !.urn = read, !.altered = @ \cap Altered, !.at = next]
  <2>2. check' = [check EXCEPT ![k] = r]
      BY <1>1, <2>1
  <2>3. check[k] \in Reading
      BY <1>5, <1>7 DEF ReadBallotUrn
  <2>4. rows \in Stored
      BY <1>2 DEF Stored, Contents
  <2>5. read \in [Ballots -> Stored]
      BY <2>3, <2>4 DEF Reading
  <2>6. next \in {"urn", "partials"} /\ (next = "partials" => \A a \in Ballots : read[a] # None)
      OBVIOUS
  <2> HIDE DEF read, next
  <2>7. r \in Reading /\ r.at = next /\ r.urn = read
      BY <2>3, <2>5, <2>6 DEF Reading
  <2> HIDE DEF r
  <2> QED
      BY <2>2, <2>6, <2>7 DEF Records, HasReadTheUrn, PastTheUrn
<1>8. CASE ReadPartials(k)
  <2> DEFINE r == [check[k] EXCEPT !.at = "tallies", !.given = partials, !.altered = @ \cap Altered]
  <2>1. check' = [check EXCEPT ![k] = r]
      BY <1>1, <1>8 DEF ReadPartials
  <2>2. r \in Reading /\ r.at = "tallies" /\ r.urn = check[k].urn
      BY <1>2, <1>5, <1>8 DEF ReadPartials, Reading
  <2>3. HasReadTheUrn(r)
      BY <1>1, <1>8, <2>2 DEF ReadPartials, CheckAt, HasReadTheUrn, PastTheUrn
  <2> HIDE DEF r
  <2> QED
      BY <2>1, <2>2, <2>3 DEF Records
<1>9. CASE ReadTallies(k)
  <2> DEFINE r == [check[k] EXCEPT !.at = "status", !.found = counters, !.altered = @ \cap Altered]
  <2>1. check' = [check EXCEPT ![k] = r]
      BY <1>1, <1>9 DEF ReadTallies
  <2>2. r \in Reading /\ r.at = "status" /\ r.urn = check[k].urn
      BY <1>2, <1>5, <1>9 DEF ReadTallies, Reading
  <2>3. HasReadTheUrn(r)
      BY <1>1, <1>9, <2>2 DEF ReadTallies, CheckAt, HasReadTheUrn, PastTheUrn
  <2> HIDE DEF r
  <2> QED
      BY <2>1, <2>2, <2>3 DEF Records
<1>10. CASE Report(k)
  <2> DEFINE s == [check[k] EXCEPT !.marked = underReview, !.altered = @ \cap Altered]
             next == IF CanCertify(s) THEN "write" ELSE "mark"
             r == [s EXCEPT !.at = next]
  <2>1. CheckEnds(k) \/ /\ check' = [check EXCEPT ![k] = r]
                        /\ s.phase # "CERTIFIED"
                        /\ ~(CanCertify(s) /\ s.again)
      BY <1>10 DEF Report
  <2>2. check[k] \in Reading /\ check[k].at = "status"
      BY <1>5, <1>10 DEF Report, CheckAt
  <2>3. underReview \in BOOLEAN /\ check[k].altered \cap Altered \in SUBSET Alterable
      BY <1>2 DEF CheckTypeInv, CheckTypeOK
  <2>4. CASE s.phase # "CERTIFIED" /\ ~(CanCertify(s) /\ s.again)
    <3>1. r \in Ready \cup Marking
        BY <1>1, <2>2, <2>3, <2>4, ReportedRecord
    <3>2. r.at \in {"write", "mark"}
        BY <3>1 DEF Ready, Marking
    <3>3. r \in Records /\ HasReadTheUrn(r)
        BY <3>1, <2>2 DEF Records, HasReadTheUrn, PastTheUrn, Reading
    <3> QED
        BY <1>3, <2>1, <3>3
  <2> QED
      BY <1>3, <2>1, <2>4
<1>11. CASE WriteCertified(k)
  <2> DEFINE r == [check[k] EXCEPT !.at = "phase", !.again = TRUE, !.urn = [b \in Ballots |-> None]]
  <2>1. CheckEnds(k) \/ check' = [check EXCEPT ![k] = r]
      BY <1>1, <1>11 DEF WriteCertified
  <2>2. check[k] \in Ready
      BY <1>1, <1>11, StepTellsTheCheck DEF WriteCertified, CheckAt
  <2>3. r \in Reading /\ r.at = "phase"
      BY <2>2 DEF Ready, Reading, Phases, Stored
  <2> HIDE DEF r
  <2> QED
      BY <1>3, <2>1, <2>3 DEF Records, HasReadTheUrn, PastTheUrn
<1>12. CASE MarkUnderReview(k)
  <2> DEFINE r == [check[k] EXCEPT !.at = "markPost"]
  <2>1. CheckEnds(k) \/ check' = [check EXCEPT ![k] = r]
      BY <1>1, <1>12 DEF MarkUnderReview
  <2>2. check[k] \in Marking
      BY <1>1, <1>12, StepTellsTheCheck DEF MarkUnderReview, CheckAt
  <2>3. r \in Marking /\ r.at = "markPost"
      BY <2>2 DEF Marking
  <2> HIDE DEF r
  <2> QED
      BY <1>3, <2>1, <2>3 DEF Records, HasReadTheUrn, PastTheUrn
<1>13. CASE PostUnderReview(k) \/ CertificationFails(k)
    BY <1>3, <1>13 DEF PostUnderReview, CertificationFails
<1> QED
    BY <1>4, <1>6, <1>7, <1>8, <1>9, <1>10, <1>11, <1>12, <1>13 DEF CheckMoves, Certifying

LEMMA CheckTypeStep ==
    ASSUME TypeOK, CheckTypeInv, [CheckNext]_allVars
    PROVE  CheckTypeInv'
<1>1. /\ check \in [Certifications -> Records]
      /\ certifiedPosts \in Nat /\ underReview \in BOOLEAN /\ reviewPosts \in Nat
    BY DEF CheckTypeInv, CheckTypeOK, Records
<1>2. ASSUME NEW k \in Certifications, CheckMoves(k)
      PROVE  CheckTypeInv'
  <2>1. PICK r \in Records : HasReadTheUrn(r) /\ check' = [check EXCEPT ![k] = r]
      BY <1>2, CheckStepType
  <2>2. certifiedPosts' \in Nat /\ underReview' \in BOOLEAN /\ reviewPosts' \in Nat
    <3>1. CASE WriteCertified(k)
        BY <1>1, <3>1 DEF WriteCertified, marks
    <3>2. CASE MarkUnderReview(k) \/ PostUnderReview(k)
      <4>1. underReview' = TRUE \/ underReview' = underReview
          BY <3>2 DEF MarkUnderReview, PostUnderReview
      <4>2. certifiedPosts' = certifiedPosts /\ reviewPosts' \in Nat
          BY <1>1, <3>2 DEF MarkUnderReview, PostUnderReview
      <4> QED
          BY <1>1, <4>1, <4>2
    <3>3. CASE UNCHANGED <<certifiedPosts, marks>>
        BY <1>1, <3>3 DEF marks
    <3> QED
        BY <1>2, <3>1, <3>2, <3>3 DEF CheckMoves, BeginCertification, Certifying, CertificationFails,
           ReadPhase, ReadBallotUrn, ReadPartials, ReadTallies, Report, CheckOnlyReads
  <2>3. check' \in [Certifications -> Records]
      BY <1>1, <2>1
  <2>4. \A j \in Certifications : HasReadTheUrn(check'[j])
      BY <1>1, <2>1 DEF CheckTypeInv
  <2> QED
      BY <2>2, <2>3, <2>4 DEF CheckTypeInv, CheckTypeOK, Records, HasReadTheUrn
<1>3. CASE UNCHANGED checkVars
  <2>1. UNCHANGED <<certifiedPosts, underReview, reviewPosts, check>>
      BY <1>3 DEF checkVars, marks
  <2> QED
      BY <2>1 DEF CheckTypeInv, CheckTypeOK, HasReadTheUrn
<1> QED
    BY <1>2, <1>3 DEF CheckNext, CheckMoves, allVars

LEMMA CheckTypeInit == CheckInit => CheckTypeInv
<1>1. NotChecking.at \notin PastTheUrn
    BY DEF NotChecking, PastTheUrn
<1>2. CheckInit => CheckTypeOK
  <2>1. CheckInit => underReview \in BOOLEAN
      BY DEF CheckInit
  <2>2. CheckInit => certifiedPosts \in Nat /\ reviewPosts \in Nat
      BY DEF CheckInit
  <2>3. CheckInit => check \in [Certifications -> {NotChecking} \cup Reading \cup Ready \cup Marking]
      BY DEF CheckInit
  <2> QED
      BY <2>1, <2>2, <2>3 DEF CheckTypeOK
<1>3. CheckInit => \A k \in Certifications : check[k] = NotChecking
    BY DEF CheckInit
<1>4. HasReadTheUrn(NotChecking)
    BY <1>1 DEF HasReadTheUrn
<1> QED
    BY <1>2, <1>3, <1>4 DEF CheckTypeInv

\* What a certification has read is of what it reads, in its order: one that is about
\* to write CERTIFIED has found the election TALLIED, its roots written, every row the
\* one that was moved and counters for every ballot.
THEOREM CheckTypeCorrect == CheckSpec => []CheckTypeOK
<1>1. CheckInit => CheckTypeInv
    BY CheckTypeInit
<1>2. TypeOK /\ CheckTypeInv /\ [CheckNext]_allVars => CheckTypeInv'
    BY CheckTypeStep
<1>3. CheckTypeInv => CheckTypeOK
    BY DEF CheckTypeInv
<1> QED
    BY <1>1, <1>2, <1>3, TallyAlways, PTL DEF CheckSpec

----------------------------------------------------------------------------
(***************************************************************************)
(* What was falsified when a check began, and still was whenever it read,  *)
(* it has read as falsified.                                               *)
(***************************************************************************)
PastThePhase == {"urn", "partials", "tallies", "status"}

NothingReadOfTheUrn(r) == r.at = "phase" => \A b \in Ballots : r.urn[b] = None

\* An alteration is found by what the check has read of it.  The rows may still come
\* from the closing while the election has no roots; with them they may not.
HasFoundTheAltered(r) ==
    /\ r.at \in PastThePhase /\ r.rooted =>
          \A b \in Ballots : <<"urn", b>> \in r.altered => r.urn[b] # "moved"
    /\ r.at \in {"tallies", "status"} =>
          \A b \in Ballots, t \in Trustees :
              <<"partial", b, t>> \in r.altered => r.given[b][t] = "other"
    /\ r.at = "status" =>
          \A b \in Ballots : <<"counters", b>> \in r.altered => r.found[b] = "other"
    /\ r.at = "write" => r.altered = {}

HasFoundTheRoots(r) == r.at \in PastThePhase /\ r.rooted => rooted

KnowsTheAltered(r) == NothingReadOfTheUrn(r) /\ HasFoundTheAltered(r) /\ HasFoundTheRoots(r)

AlteredInv == \A k \in Certifications : KnowsTheAltered(check[k])

\* What is altered, one kind after the other.
LEMMA WhatIsAltered ==
    ASSUME NEW b \in Ballots
    PROVE  /\ <<"urn", b>> \in Altered => urn[b] # "moved"
           /\ <<"counters", b>> \in Altered => counters[b] = "other"
           /\ \A t \in Trustees : <<"partial", b, t>> \in Altered => partials[b][t] = "other"
    BY DEF Altered

\* The roots are written once and stay.
LEMMA RootsStay ==
    ASSUME TypeOK, [CheckNext]_allVars, rooted
    PROVE  rooted'
<1>1. CASE OnlyAFault
    BY <1>1 DEF OnlyAFault
<1>2. CASE [Next]_tallyVars
  <2>1. ASSUME NEW c \in Calls, Moves(c)
        PROVE  rooted'
      BY <2>1, MovesLeave
  <2>2. CASE CallNext
      BY <2>1, <2>2 DEF CallNext, Moves, Fails, Begins
  <2>3. CASE Strips
      BY <2>3 DEF Strips
  <2>4. CASE Certifies \/ OutsideVotes \/ OutsidePhase \/ UNCHANGED tallyVars
      BY <2>4 DEF Certifies, OutsideVotes, OutsidePhase, tallyVars
  <2> QED
      BY <1>2, <2>2, <2>3, <2>4 DEF Next
<1> QED
    BY <1>1, <1>2, TallyBelow

\* A report that can be certified has found nothing altered.
LEMMA CertifiableIsUnaltered ==
    ASSUME NEW r \in Reading, r.at = "status", HasFoundTheAltered(r),
           NEW m \in BOOLEAN, NEW A \in SUBSET Alterable, A \subseteq r.altered,
           NEW s, s = [r EXCEPT !.marked = m, !.altered = A], CanCertify(s)
    PROVE  A = {}
<1>1. /\ s.phase = r.phase /\ s.rooted = r.rooted /\ s.urn = r.urn /\ s.given = r.given /\ s.found = r.found
      /\ r.rooted \in BOOLEAN
      /\ r.given \in [Ballots -> Read]
    BY DEF Reading
<1>2. r.phase # "VALIDATED" /\ r.rooted
    BY <1>1 DEF CanCertify, Counted, Anomalous, LinkNotCleared
<1>3. ASSUME NEW b \in Ballots
      PROVE  r.urn[b] = "moved" /\ BelongToUrn(s, b) /\ r.found[b] # None /\ r.found[b] = Recount(s, b)
    BY <1>1, <1>2, <1>3 DEF CanCertify, Counted, Anomalous, UrnContradicts, PartialsContradict, TallyContradicts
<1>4. ASSUME NEW b \in Ballots
      PROVE  <<"urn", b>> \notin A
    BY <1>2, <1>3, <1>4 DEF HasFoundTheAltered, PastThePhase
<1>5. ASSUME NEW b \in Ballots
      PROVE  <<"counters", b>> \notin A
  <2>1. r.found[b] = "moved"
      BY <1>1, <1>3 DEF Recount
  <2> QED
      BY <2>1 DEF HasFoundTheAltered
<1>6. ASSUME NEW b \in Ballots, NEW t \in Trustees
      PROVE  <<"partial", b, t>> \notin A
  <2>1. r.given[b][t] = None \/ r.given[b][t] = "moved"
      BY <1>1, <1>3 DEF BelongToUrn, GivenBy
  <2> QED
      BY <2>1, TallyAssumption DEF HasFoundTheAltered
<1> QED
    BY <1>4, <1>5, <1>6 DEF Alterable

\* Each step of a certification keeps what it has found, and finds what it reads.
LEMMA CheckStepFinds ==
    ASSUME TypeOK, CheckTypeInv, NEW k \in Certifications, CheckMoves(k), KnowsTheAltered(check[k])
    PROVE  \E r : KnowsTheAltered(r) /\ check' = [check EXCEPT ![k] = r]
<1>1. check \in [Certifications -> Records] /\ HasReadTheUrn(check[k]) /\ check[k] \in Records
    BY DEF CheckTypeInv, CheckTypeOK, Records
<1>2. Altered \in SUBSET Alterable /\ urn \in [Ballots -> Contents] /\ phase \in Phases
        /\ rooted \in BOOLEAN /\ partials \in [Ballots -> Read] /\ counters \in [Ballots -> Stored]
    BY AlteredType DEF TypeOK
<1>3. KnowsTheAltered(NotChecking)
  <2>1. NotChecking.at = "idle"
      BY DEF NotChecking
  <2> QED
      BY <2>1 DEF KnowsTheAltered, NothingReadOfTheUrn, HasFoundTheAltered, HasFoundTheRoots, PastThePhase
<1>5. CASE CheckEnds(k)
    BY <1>3, <1>5 DEF CheckEnds
<1>6. CASE BeginCertification(k)
  <2> DEFINE r == [at |-> "phase", again |-> FALSE, phase |-> "VALIDATED", rooted |-> FALSE, altered |-> {},
            urn |-> [b \in Ballots |-> None], given |-> [b \in Ballots |-> NothingRead],
            found |-> [b \in Ballots |-> None], marked |-> FALSE]
  <2>1. r.at = "phase" /\ \A b \in Ballots : r.urn[b] = None
      OBVIOUS
  <2>2. check' = [check EXCEPT ![k] = r]
      BY <1>6 DEF BeginCertification
  <2> HIDE DEF r
  <2> QED
      BY <2>1, <2>2 DEF KnowsTheAltered, NothingReadOfTheUrn, HasFoundTheAltered, HasFoundTheRoots, PastThePhase
<1>7. ASSUME CheckAt(k, "phase") \/ CheckAt(k, "urn") \/ CheckAt(k, "partials") \/ CheckAt(k, "tallies")
             \/ CheckAt(k, "status")
      PROVE  check[k] \in Reading
    BY <1>1, <1>7, StepTellsTheCheck DEF CheckAt
<1>8. CASE ReadPhase(k)
  <2> DEFINE r == [check[k] EXCEPT !.at = "urn", !.phase = phase, !.rooted = rooted, !.altered = Altered]
  <2>1. check' = [check EXCEPT ![k] = r]
      BY <1>1, <1>8 DEF ReadPhase
  <2>2. r.at = "urn" /\ r.rooted = rooted /\ r.urn = check[k].urn
      BY <1>2, <1>7, <1>8 DEF ReadPhase, Reading
  <2>3. \A b \in Ballots : r.urn[b] = None
      BY <1>8, <2>2 DEF ReadPhase, CheckAt, KnowsTheAltered, NothingReadOfTheUrn
  <2>4. r.rooted => rooted
      BY <2>2
  <2> HIDE DEF r
  <2> QED
      BY <2>1, <2>2, <2>3, <2>4, TallyAssumption DEF KnowsTheAltered, NothingReadOfTheUrn, HasFoundTheAltered, HasFoundTheRoots, PastThePhase
<1>9. ASSUME NEW b \in Ballots, ReadBallotUrn(k, b)
      PROVE  \E r : KnowsTheAltered(r) /\ check' = [check EXCEPT ![k] = r]
  <2>1. PICK rows \in IF phase = "VALIDATED" /\ ~rooted THEN {"moved", "other"} ELSE {urn[b]} :
          LET read == [check[k].urn EXCEPT ![b] = rows]
          IN check' = [check EXCEPT ![k].urn = read, ![k].altered = @ \cap Altered,
                 ![k].at = IF \E a \in Ballots : read[a] = None THEN "urn" ELSE "partials"]
      BY <1>9 DEF ReadBallotUrn
  <2> DEFINE read == [check[k].urn EXCEPT ![b] = rows]
             next == IF \E a \in Ballots : read[a] = None THEN "urn" ELSE "partials"
             r == [check[k] EXCEPT !.urn = read, !.altered = @ \cap Altered, !.at = next]
  <2>2. check' = [check EXCEPT ![k] = r]
      BY <1>1, <2>1
  <2>3. check[k] \in Reading /\ check[k].at = "urn"
      BY <1>7, <1>9 DEF ReadBallotUrn, CheckAt
  <2>4. next \in {"urn", "partials"}
      OBVIOUS
  <2>5. read[b] = rows /\ \A a \in Ballots \ {b} : read[a] = check[k].urn[a]
      BY <2>3 DEF Reading
  <2> HIDE DEF read, next
  <2>6. r.at = next /\ r.urn = read /\ r.rooted = check[k].rooted /\ r.altered = check[k].altered \cap Altered
      BY <2>3 DEF Reading
  <2> HIDE DEF r
  <2>7. ASSUME r.rooted
        PROVE  rooted /\ \A a \in Ballots : <<"urn", a>> \in r.altered => r.urn[a] # "moved"
    <3>1. rooted /\ \A a \in Ballots : <<"urn", a>> \in check[k].altered => check[k].urn[a] # "moved"
        BY <2>3, <2>6, <2>7 DEF KnowsTheAltered, HasFoundTheAltered, HasFoundTheRoots, PastThePhase
    <3>2. rows = urn[b]
        BY <2>1, <3>1
    <3> QED
        BY <2>5, <2>6, <3>1, <3>2, WhatIsAltered
  <2> QED
      BY <2>2, <2>4, <2>6, <2>7 DEF KnowsTheAltered, NothingReadOfTheUrn, HasFoundTheAltered, HasFoundTheRoots, PastThePhase
<1>10. CASE ReadPartials(k)
  <2> DEFINE r == [check[k] EXCEPT !.at = "tallies", !.given = partials, !.altered = @ \cap Altered]
  <2>1. check' = [check EXCEPT ![k] = r]
      BY <1>1, <1>10 DEF ReadPartials
  <2>2. /\ r.at = "tallies" /\ r.urn = check[k].urn /\ r.rooted = check[k].rooted /\ r.given = partials
        /\ r.altered = check[k].altered \cap Altered /\ check[k].at = "partials"
      BY <1>2, <1>7, <1>10 DEF ReadPartials, Reading, CheckAt
  <2> HIDE DEF r
  <2>3. \A b \in Ballots, t \in Trustees : <<"partial", b, t>> \in r.altered => r.given[b][t] = "other"
      BY <2>2, WhatIsAltered
  <2>4. HasFoundTheAltered(check[k]) /\ HasFoundTheRoots(check[k])
      BY DEF KnowsTheAltered
  <2>5. NothingReadOfTheUrn(r) /\ HasFoundTheRoots(r)
      BY <2>2, <2>4 DEF NothingReadOfTheUrn, HasFoundTheRoots, PastThePhase
  <2>6. HasFoundTheAltered(r)
      BY <2>2, <2>3, <2>4 DEF HasFoundTheAltered, PastThePhase
  <2> QED
      BY <2>1, <2>5, <2>6 DEF KnowsTheAltered
<1>11. CASE ReadTallies(k)
  <2> DEFINE r == [check[k] EXCEPT !.at = "status", !.found = counters, !.altered = @ \cap Altered]
  <2>1. check' = [check EXCEPT ![k] = r]
      BY <1>1, <1>11 DEF ReadTallies
  <2>2. /\ r.at = "status" /\ r.urn = check[k].urn /\ r.rooted = check[k].rooted /\ r.found = counters
        /\ r.given = check[k].given
        /\ r.altered = check[k].altered \cap Altered /\ check[k].at = "tallies"
      BY <1>2, <1>7, <1>11 DEF ReadTallies, Reading, CheckAt
  <2> HIDE DEF r
  <2>3. \A b \in Ballots : <<"counters", b>> \in r.altered => r.found[b] = "other"
      BY <2>2, WhatIsAltered
  <2>4. HasFoundTheAltered(check[k]) /\ HasFoundTheRoots(check[k])
      BY DEF KnowsTheAltered
  <2>5. NothingReadOfTheUrn(r) /\ HasFoundTheRoots(r)
      BY <2>2, <2>4 DEF NothingReadOfTheUrn, HasFoundTheRoots, PastThePhase
  <2>6. HasFoundTheAltered(r)
      BY <2>2, <2>3, <2>4 DEF HasFoundTheAltered, PastThePhase
  <2> QED
      BY <2>1, <2>5, <2>6 DEF KnowsTheAltered
<1>12. CASE Report(k)
  <2> DEFINE A == check[k].altered \cap Altered
             s == [check[k] EXCEPT !.marked = underReview, !.altered = A]
             next == IF CanCertify(s) THEN "write" ELSE "mark"
             r == [s EXCEPT !.at = next]
  <2>1. CheckEnds(k) \/ check' = [check EXCEPT ![k] = r]
      BY <1>12 DEF Report
  <2>2. check[k] \in Reading /\ check[k].at = "status"
      BY <1>7, <1>12 DEF Report, CheckAt
  <2>3. underReview \in BOOLEAN /\ A \in SUBSET Alterable /\ A \subseteq check[k].altered
      BY <1>2 DEF CheckTypeInv, CheckTypeOK
  <2>4. CanCertify(s) => A = {}
    <3> HIDE DEF A
    <3> QED
        BY <2>2, <2>3, CertifiableIsUnaltered DEF KnowsTheAltered
  <2>5. next \in {"write", "mark"} /\ (next = "write" => A = {})
      BY <2>4
  <2> HIDE DEF A, next
  <2>6. r.at = next /\ r.altered = A
      BY <2>2 DEF Reading
  <2> HIDE DEF r
  <2>7. KnowsTheAltered(r)
      BY <2>5, <2>6 DEF KnowsTheAltered, NothingReadOfTheUrn, HasFoundTheAltered, HasFoundTheRoots, PastThePhase
  <2> QED
      BY <1>5, <2>1, <2>7
<1>13. CASE WriteCertified(k)
  <2> DEFINE r == [check[k] EXCEPT !.at = "phase", !.again = TRUE, !.urn = [b \in Ballots |-> None]]
  <2>1. CheckEnds(k) \/ check' = [check EXCEPT ![k] = r]
      BY <1>1, <1>13 DEF WriteCertified
  <2>2. check[k] \in Ready
      BY <1>1, <1>13, StepTellsTheCheck DEF WriteCertified, CheckAt
  <2>3. r.at = "phase" /\ \A b \in Ballots : r.urn[b] = None
      BY <2>2 DEF Ready
  <2> HIDE DEF r
  <2>4. KnowsTheAltered(r)
      BY <2>3 DEF KnowsTheAltered, NothingReadOfTheUrn, HasFoundTheAltered, HasFoundTheRoots, PastThePhase
  <2> QED
      BY <1>5, <2>1, <2>4
<1>14. CASE MarkUnderReview(k)
  <2> DEFINE r == [check[k] EXCEPT !.at = "markPost"]
  <2>1. CheckEnds(k) \/ check' = [check EXCEPT ![k] = r]
      BY <1>1, <1>14 DEF MarkUnderReview
  <2>2. check[k] \in Marking
      BY <1>1, <1>14, StepTellsTheCheck DEF MarkUnderReview, CheckAt
  <2>3. r.at = "markPost"
      BY <2>2 DEF Marking
  <2> HIDE DEF r
  <2>4. KnowsTheAltered(r)
      BY <2>3 DEF KnowsTheAltered, NothingReadOfTheUrn, HasFoundTheAltered, HasFoundTheRoots, PastThePhase
  <2> QED
      BY <1>5, <2>1, <2>4
<1>15. CASE PostUnderReview(k) \/ CertificationFails(k)
    BY <1>5, <1>15 DEF PostUnderReview, CertificationFails
<1> QED
    BY <1>6, <1>8, <1>9, <1>10, <1>11, <1>12, <1>13, <1>14, <1>15 DEF CheckMoves, Certifying

LEMMA AlteredStep ==
    ASSUME TypeOK, CheckTypeInv, AlteredInv, [CheckNext]_allVars
    PROVE  AlteredInv'
<1>1. check \in [Certifications -> Records]
    BY DEF CheckTypeInv, CheckTypeOK, Records
<1>2. ASSUME NEW r, KnowsTheAltered(r)
      PROVE  (r.at \in PastThePhase /\ r.rooted) => rooted'
    BY <1>2, RootsStay DEF KnowsTheAltered, HasFoundTheRoots
<1>3. ASSUME NEW j \in Certifications,
             \E r : KnowsTheAltered(r) /\ check'[j] = r
      PROVE  KnowsTheAltered(check[j])'
  <2>1. KnowsTheAltered(check'[j])
      BY <1>3
  <2>2. (check'[j].at \in PastThePhase /\ check'[j].rooted) => rooted'
      BY <1>2, <2>1
  <2> QED
      BY <2>1, <2>2 DEF KnowsTheAltered, NothingReadOfTheUrn, HasFoundTheAltered, HasFoundTheRoots
<1>4. ASSUME NEW k \in Certifications, CheckMoves(k), NEW j \in Certifications
      PROVE  \E r : KnowsTheAltered(r) /\ check'[j] = r
  <2>1. PICK r : KnowsTheAltered(r) /\ check' = [check EXCEPT ![k] = r]
      BY <1>4, CheckStepFinds DEF AlteredInv
  <2>2. check'[j] = IF j = k THEN r ELSE check[j]
      BY <1>1, <2>1
  <2>3. KnowsTheAltered(check[j])
      BY DEF AlteredInv
  <2> QED
      BY <2>1, <2>2, <2>3
<1>5. ASSUME UNCHANGED checkVars, NEW j \in Certifications
      PROVE  \E r : KnowsTheAltered(r) /\ check'[j] = r
    BY <1>5 DEF checkVars, AlteredInv
<1>6. (\E k \in Certifications : CheckMoves(k)) \/ UNCHANGED checkVars
    BY DEF CheckNext, CheckMoves, allVars
<1> QED
    BY <1>3, <1>4, <1>5, <1>6 DEF AlteredInv

\* Who writes CERTIFIED is a certification whose report found nothing altered.
LEMMA CertifyingStep ==
    ASSUME TypeOK, CheckTypeInv, AlteredInv, [CheckNext]_allVars
    PROVE  CertifiesTheSound
<1> SUFFICES ASSUME phase # "CERTIFIED", phase' = "CERTIFIED", outside' = outside
             PROVE  \E k \in Certifications : check'[k] # check[k] /\ check[k].altered = {}
    BY DEF CertifiesTheSound
<1>1. ~OutsidePhase /\ ~OutsideVotes
    BY TallyAssumption DEF OutsidePhase, OutsideVotes, WrittenOutside, TypeOK
<1>2. ~CallNext
  <2>1. ASSUME NEW c \in Calls, Moves(c)
        PROVE  FALSE
    <3>1. UNCHANGED phase \/ phase' = "TALLIED"
      <4>1. CASE Contributes(c)
          BY <4>1, ContributionMoves
      <4>2. CASE Counts(c)
          BY <4>2, CountMoves DEF CasTallied
      <4>3. CASE Fails(c) \/ Begins(c)
          BY <4>3, FailsLeads, BeginsLeaves
      <4> QED
          BY <2>1, <4>1, <4>2, <4>3 DEF Moves
    <3> QED
        BY <3>1
  <2> QED
      BY <2>1 DEF CallNext, Moves, Fails, Begins
<1>3. PICK k \in Certifications : CheckMoves(k)
    BY <1>1, <1>2 DEF CheckNext, CheckMoves, Strips, allVars, tallyVars
<1>4. WriteCertified(k) /\ CheckEnds(k)
  <2>1. CASE ~WriteCertified(k)
      BY <1>3, <2>1 DEF CheckMoves, BeginCertification, Certifying, ReadPhase, ReadPartials, ReadTallies, Report,
           ReadBallotUrn, MarkUnderReview, PostUnderReview, CheckOnlyReads, CertificationFails, tallyVars
  <2> QED
      BY <2>1 DEF WriteCertified
<1>5. check \in [Certifications -> Records] /\ check[k].at = "write"
    BY <1>4 DEF CheckTypeInv, CheckTypeOK, Records, WriteCertified, CheckAt
<1>6. check'[k] # check[k]
    BY <1>4, <1>5 DEF CheckEnds, NotChecking
<1>7. check[k].altered = {}
    BY <1>5 DEF AlteredInv, KnowsTheAltered, HasFoundTheAltered
<1> QED
    BY <1>6, <1>7

\* Rows, contributions and counters that somebody altered in the votes database, and
\* that are altered when a final check begins and whenever it reads, are not
\* certified by it, whatever the tally does meanwhile and whoever else certifies.
THEOREM FalsifiedIsNeverCertified == CheckSpec => FalsifiedIsNotCertified
<1>1. CheckInit => CheckTypeInv /\ AlteredInv
  <2>1. NotChecking.at = "idle"
      BY DEF NotChecking
  <2>2. KnowsTheAltered(NotChecking)
      BY <2>1 DEF KnowsTheAltered, NothingReadOfTheUrn, HasFoundTheAltered, HasFoundTheRoots, PastThePhase
  <2>3. CheckInit => \A k \in Certifications : check[k] = NotChecking
      BY DEF CheckInit
  <2> QED
      BY <2>2, <2>3, CheckTypeInit DEF AlteredInv
<1>2. TypeOK /\ CheckTypeInv /\ AlteredInv /\ [CheckNext]_allVars
        => CheckTypeInv' /\ AlteredInv' /\ [CertifiesTheSound]_allVars
    BY CheckTypeStep, AlteredStep, CertifyingStep
<1> QED
    BY <1>1, <1>2, TallyAlways, PTL DEF CheckSpec, FalsifiedIsNotCertified

----------------------------------------------------------------------------
(***************************************************************************)
(* What a check finds that began once the election was tallied, while      *)
(* nobody writes past the application.                                     *)
(***************************************************************************)
\* Every row is the one that was moved, every ballot has contributions enough, all of
\* them of its rows, and counters of its rows.
SeesTheTallied(r) ==
    Counted(r) =>
        /\ r.at \in PastThePhase =>
              /\ phase \in CountedPhases /\ r.rooted
              /\ \A b \in Ballots : r.urn[b] \in {None, "moved"}
        /\ r.at \in {"tallies", "status"} =>
              \A b \in Ballots :
                  /\ Cardinality(GivenBy(r.given[b])) >= Threshold
                  /\ \A t \in Trustees : r.given[b][t] \in {None, "moved"}
        /\ r.at = "status" => \A b \in Ballots : r.found[b] = "moved"
        /\ r.at = "mark" => r.marked

SeesInv == outside = 0 => \A k \in Certifications : SeesTheTallied(check[k])

\* While nobody writes past the application, an election that is counted stays so.
LEMMA CountedStays ==
    ASSUME TypeOK, [CheckNext]_allVars, outside' = 0
    PROVE  /\ outside = 0
           /\ phase \in CountedPhases => phase' \in CountedPhases
<1>1. CASE OnlyAFault
    BY <1>1 DEF OnlyAFault, Fault
<1>2. CASE [Next]_tallyVars
  <2>1. ASSUME NEW c \in Calls, Moves(c)
        PROVE  UNCHANGED phase \/ phase' = "TALLIED"
    <3>1. CASE Contributes(c)
        BY <3>1, ContributionMoves
    <3>2. CASE Counts(c)
        BY <3>2, CountMoves DEF CasTallied
    <3>3. CASE Fails(c) \/ Begins(c)
        BY <3>3, FailsLeads, BeginsLeaves
    <3> QED
        BY <2>1, <3>1, <3>2, <3>3 DEF Moves
  <2>2. CASE \E c \in Calls : Moves(c)
      BY <1>2, <2>1, <2>2, StepsAlone DEF CountedPhases
  <2>3. CASE Strips \/ Certifies \/ UNCHANGED tallyVars
      BY <1>2, <2>3, StepsAlone DEF Strips, Certifies, tallyVars, CountedPhases
  <2> QED
      BY <1>2, <2>2, <2>3, StepsAlone
<1> QED
    BY <1>1, <1>2, TallyBelow

\* What is stored once an election is counted.
LEMMA CountedElection ==
    ASSUME TypeOK, AloneInv, phase \in CountedPhases
    PROVE  /\ rooted /\ phase # "VALIDATED"
           /\ \A b \in Ballots :
                 /\ urn[b] = "moved" /\ counters[b] = "moved"
                 /\ Cardinality(GivenBy(partials[b])) >= Threshold
                 /\ \A t \in Trustees : partials[b][t] \in {None, "moved"}
    BY DEF AloneInv, PhaseIsTrue, AllCounted, RowsAreTheMoved, CountedIsOpened, EnoughFor, CountedPhases

\* A report on an election that was counted when the check began finds nothing but a
\* mark.
LEMMA ReportFindsAMark ==
    ASSUME NEW r \in Reading, r.at = "status", HasReadTheUrn(r), SeesTheTallied(r),
           NEW m \in BOOLEAN, NEW A \in SUBSET Alterable,
           NEW s, s = [r EXCEPT !.marked = m, !.altered = A], Counted(s), ~CanCertify(s)
    PROVE  m
<1>1. /\ s.phase = r.phase /\ s.rooted = r.rooted /\ s.urn = r.urn /\ s.given = r.given /\ s.found = r.found
      /\ s.marked = m
      /\ r.given \in [Ballots -> Read]
    BY DEF Reading
<1>2. Counted(r)
    BY <1>1 DEF Counted
<1>3. ~LinkNotCleared(s)
    BY <1>1, <1>2 DEF SeesTheTallied, PastThePhase, LinkNotCleared
<1>4. \A b \in Ballots : s.urn[b] = "moved"
    BY <1>1, <1>2 DEF SeesTheTallied, PastThePhase, HasReadTheUrn, PastTheUrn
<1>5. \A b \in Ballots : BelongToUrn(s, b) /\ s.found[b] = "moved"
  <2> TAKE b \in Ballots
  <2>1. r.found[b] = "moved" /\ \A t \in Trustees : r.given[b][t] \in {None, "moved"}
      BY <1>2 DEF SeesTheTallied
  <2> QED
      BY <1>1, <1>4, <2>1 DEF BelongToUrn, GivenBy
<1>6. ASSUME NEW b \in Ballots
      PROVE  ~TooFew(s, b)
  <2>1. IsFiniteSet(GivenBy(s.given[b]))
      BY FS_Subset, TallyAssumption DEF GivenBy
  <2>2. Cardinality(GivenBy(s.given[b])) \in Nat
      BY <2>1, FS_CardinalityType
  <2>3. Cardinality(GivenBy(s.given[b])) >= Threshold
      BY <1>1, <1>2 DEF SeesTheTallied
  <2> QED
      BY <2>2, <2>3, TallyAssumption DEF TooFew
<1>7. ~UrnContradicts(s) /\ ~PartialsContradict(s)
    BY <1>4, <1>5, <1>6 DEF UrnContradicts, PartialsContradict
<1>8. ~TallyContradicts(s)
    BY <1>4, <1>5, <1>6, TallyAssumption DEF TallyContradicts, Recount
<1>9. Anomalous(s)
    BY DEF CanCertify
<1>10. WasMarked(s)
    BY <1>3, <1>7, <1>8, <1>9 DEF Anomalous
<1> QED
    BY <1>1, <1>10 DEF WasMarked

\* Each step of a certification sees what is stored.
LEMMA CheckStepSees ==
    ASSUME TypeOK, CheckTypeInv, AlteredInv, AloneInv, NEW k \in Certifications, CheckMoves(k),
           SeesTheTallied(check[k])
    PROVE  \E r : SeesTheTallied(r) /\ check' = [check EXCEPT ![k] = r]
<1>1. check \in [Certifications -> Records] /\ HasReadTheUrn(check[k]) /\ check[k] \in Records
    BY DEF CheckTypeInv, CheckTypeOK, Records
<1>2. Altered \in SUBSET Alterable /\ urn \in [Ballots -> Contents] /\ phase \in Phases
        /\ rooted \in BOOLEAN /\ partials \in [Ballots -> Read] /\ counters \in [Ballots -> Stored]
    BY AlteredType DEF TypeOK
<1>3. ASSUME NEW r, r.at \in {"idle", "phase", "write", "markPost"}
      PROVE  SeesTheTallied(r)
    BY <1>3 DEF SeesTheTallied, PastThePhase
<1>4. CASE CheckEnds(k)
  <2>1. SeesTheTallied(NotChecking)
    <3>1. NotChecking.at = "idle"
        BY DEF NotChecking
    <3> QED
        BY <1>3, <3>1
  <2> QED
      BY <1>4, <2>1 DEF CheckEnds
<1>5. CASE BeginCertification(k)
  <2> DEFINE r == [at |-> "phase", again |-> FALSE, phase |-> "VALIDATED", rooted |-> FALSE, altered |-> {},
            urn |-> [b \in Ballots |-> None], given |-> [b \in Ballots |-> NothingRead],
            found |-> [b \in Ballots |-> None], marked |-> FALSE]
  <2>1. r.at = "phase"
      OBVIOUS
  <2>2. check' = [check EXCEPT ![k] = r]
      BY <1>5 DEF BeginCertification
  <2> HIDE DEF r
  <2>3. SeesTheTallied(r)
      BY <2>1 DEF SeesTheTallied, PastThePhase
  <2> QED
      BY <2>2, <2>3
<1>6. ASSUME CheckAt(k, "phase") \/ CheckAt(k, "urn") \/ CheckAt(k, "partials") \/ CheckAt(k, "tallies")
             \/ CheckAt(k, "status")
      PROVE  check[k] \in Reading
    BY <1>1, <1>6, StepTellsTheCheck DEF CheckAt
<1>7. CASE ReadPhase(k)
  <2> DEFINE r == [check[k] EXCEPT !.at = "urn", !.phase = phase, !.rooted = rooted, !.altered = Altered]
  <2>1. check' = [check EXCEPT ![k] = r]
      BY <1>1, <1>7 DEF ReadPhase
  <2>2. r.at = "urn" /\ r.phase = phase /\ (r.rooted <=> rooted) /\ r.urn = check[k].urn
      BY <1>2, <1>6, <1>7 DEF ReadPhase, Reading
  <2>3. \A b \in Ballots : r.urn[b] = None
      BY <1>7, <2>2 DEF ReadPhase, CheckAt, AlteredInv, KnowsTheAltered, NothingReadOfTheUrn
  <2>4. Counted(r) => phase \in CountedPhases
      BY <2>2 DEF Counted, CountedPhases
  <2> HIDE DEF r
  <2>5. SeesTheTallied(r)
      BY <2>2, <2>3, <2>4, CountedElection DEF SeesTheTallied
  <2> QED
      BY <2>1, <2>5
<1>8. ASSUME NEW b \in Ballots, ReadBallotUrn(k, b)
      PROVE  \E r : SeesTheTallied(r) /\ check' = [check EXCEPT ![k] = r]
  <2>1. PICK rows \in IF phase = "VALIDATED" /\ ~rooted THEN {"moved", "other"} ELSE {urn[b]} :
          LET read == [check[k].urn EXCEPT ![b] = rows]
          IN check' = [check EXCEPT ![k].urn = read, ![k].altered = @ \cap Altered,
                 ![k].at = IF \E a \in Ballots : read[a] = None THEN "urn" ELSE "partials"]
      BY <1>8 DEF ReadBallotUrn
  <2> DEFINE read == [check[k].urn EXCEPT ![b] = rows]
             next == IF \E a \in Ballots : read[a] = None THEN "urn" ELSE "partials"
             r == [check[k] EXCEPT !.urn = read, !.altered = @ \cap Altered, !.at = next]
  <2>2. check' = [check EXCEPT ![k] = r]
      BY <1>1, <2>1
  <2>3. check[k] \in Reading /\ check[k].at = "urn"
      BY <1>6, <1>8 DEF ReadBallotUrn, CheckAt
  <2>4. next \in {"urn", "partials"}
      OBVIOUS
  <2>5. read[b] = rows /\ \A a \in Ballots \ {b} : read[a] = check[k].urn[a]
      BY <2>3 DEF Reading
  <2> HIDE DEF read, next
  <2>6. r.at = next /\ r.urn = read /\ r.rooted = check[k].rooted /\ r.phase = check[k].phase
      BY <2>3 DEF Reading
  <2> HIDE DEF r
  <2>7. ASSUME Counted(r)
        PROVE  /\ phase \in CountedPhases /\ r.rooted
               /\ \A a \in Ballots : r.urn[a] \in {None, "moved"}
    <3>1. /\ phase \in CountedPhases /\ check[k].rooted
          /\ \A a \in Ballots : check[k].urn[a] \in {None, "moved"}
        BY <2>3, <2>6, <2>7 DEF SeesTheTallied, PastThePhase, Counted
    <3>2. rows = "moved"
        BY <2>1, <3>1, CountedElection
    <3> QED
        BY <2>5, <2>6, <3>1, <3>2
  <2>8. SeesTheTallied(r)
      BY <2>4, <2>6, <2>7 DEF SeesTheTallied
  <2> QED
      BY <2>2, <2>8
<1>9. CASE ReadPartials(k)
  <2> DEFINE r == [check[k] EXCEPT !.at = "tallies", !.given = partials, !.altered = @ \cap Altered]
  <2>1. check' = [check EXCEPT ![k] = r]
      BY <1>1, <1>9 DEF ReadPartials
  <2>2. /\ r.at = "tallies" /\ r.urn = check[k].urn /\ r.rooted = check[k].rooted /\ r.given = partials
        /\ r.phase = check[k].phase /\ check[k].at = "partials"
      BY <1>2, <1>6, <1>9 DEF ReadPartials, Reading, CheckAt
  <2> HIDE DEF r
  <2>3. ASSUME Counted(r)
        PROVE  /\ phase \in CountedPhases /\ r.rooted
               /\ \A b \in Ballots : r.urn[b] \in {None, "moved"}
      BY <2>2, <2>3 DEF SeesTheTallied, PastThePhase, Counted
  <2>4. SeesTheTallied(r)
      BY <2>2, <2>3, CountedElection DEF SeesTheTallied
  <2> QED
      BY <2>1, <2>4
<1>10. CASE ReadTallies(k)
  <2> DEFINE r == [check[k] EXCEPT !.at = "status", !.found = counters, !.altered = @ \cap Altered]
  <2>1. check' = [check EXCEPT ![k] = r]
      BY <1>1, <1>10 DEF ReadTallies
  <2>2. /\ r.at = "status" /\ r.urn = check[k].urn /\ r.rooted = check[k].rooted /\ r.found = counters
        /\ r.given = check[k].given
        /\ r.phase = check[k].phase /\ check[k].at = "tallies"
      BY <1>2, <1>6, <1>10 DEF ReadTallies, Reading, CheckAt
  <2> HIDE DEF r
  <2>3. ASSUME Counted(r)
        PROVE  /\ phase \in CountedPhases /\ r.rooted
               /\ \A b \in Ballots : r.urn[b] \in {None, "moved"}
               /\ \A b \in Ballots :
                     /\ Cardinality(GivenBy(r.given[b])) >= Threshold
                     /\ \A t \in Trustees : r.given[b][t] \in {None, "moved"}
      BY <2>2, <2>3 DEF SeesTheTallied, PastThePhase, Counted
  <2>4. SeesTheTallied(r)
      BY <2>2, <2>3, CountedElection DEF SeesTheTallied
  <2> QED
      BY <2>1, <2>4
<1>11. CASE Report(k)
  <2> DEFINE A == check[k].altered \cap Altered
             s == [check[k] EXCEPT !.marked = underReview, !.altered = A]
             next == IF CanCertify(s) THEN "write" ELSE "mark"
             r == [s EXCEPT !.at = next]
  <2>1. CheckEnds(k) \/ check' = [check EXCEPT ![k] = r]
      BY <1>11 DEF Report
  <2>2. check[k] \in Reading /\ check[k].at = "status"
      BY <1>6, <1>11 DEF Report, CheckAt
  <2>3. underReview \in BOOLEAN /\ A \in SUBSET Alterable
      BY <1>2 DEF CheckTypeInv, CheckTypeOK
  <2>4. Counted(s) /\ ~CanCertify(s) => underReview
    <3> HIDE DEF A
    <3> QED
        BY <1>1, <2>2, <2>3, ReportFindsAMark
  <2>5. r.at = next /\ (r.marked <=> underReview) /\ r.phase = s.phase
      BY <2>2 DEF Reading
  <2>6. r.at \in {"write", "mark"} /\ (r.at = "mark" /\ Counted(r) => r.marked)
      BY <2>4, <2>5 DEF Counted
  <2> HIDE DEF r
  <2>7. SeesTheTallied(r)
      BY <2>6 DEF SeesTheTallied, PastThePhase
  <2> QED
      BY <1>4, <2>1, <2>7
<1>12. CASE WriteCertified(k)
  <2> DEFINE r == [check[k] EXCEPT !.at = "phase", !.again = TRUE, !.urn = [b \in Ballots |-> None]]
  <2>1. CheckEnds(k) \/ check' = [check EXCEPT ![k] = r]
      BY <1>1, <1>12 DEF WriteCertified
  <2>2. check[k] \in Ready
      BY <1>1, <1>12, StepTellsTheCheck DEF WriteCertified, CheckAt
  <2>3. r.at = "phase"
      BY <2>2 DEF Ready
  <2> HIDE DEF r
  <2> QED
      BY <1>3, <1>4, <2>1, <2>3
<1>13. CASE MarkUnderReview(k)
  <2> DEFINE r == [check[k] EXCEPT !.at = "markPost"]
  <2>1. CheckEnds(k) \/ check' = [check EXCEPT ![k] = r]
      BY <1>1, <1>13 DEF MarkUnderReview
  <2>2. check[k] \in Marking
      BY <1>1, <1>13, StepTellsTheCheck DEF MarkUnderReview, CheckAt
  <2>3. r.at = "markPost"
      BY <2>2 DEF Marking
  <2> HIDE DEF r
  <2> QED
      BY <1>3, <1>4, <2>1, <2>3
<1>14. CASE PostUnderReview(k) \/ CertificationFails(k)
    BY <1>4, <1>14 DEF PostUnderReview, CertificationFails
<1> QED
    BY <1>5, <1>7, <1>8, <1>9, <1>10, <1>11, <1>12, <1>13, <1>14 DEF CheckMoves, Certifying

LEMMA SeesStep ==
    ASSUME TypeOK, SettledInv, CheckTypeInv, AlteredInv, SeesInv, [CheckNext]_allVars
    PROVE  SeesInv'
<1> SUFFICES ASSUME outside' = 0 PROVE \A k \in Certifications : SeesTheTallied(check[k])'
    BY DEF SeesInv
<1>1. /\ check \in [Certifications -> Records]
      /\ AloneInv /\ \A k \in Certifications : SeesTheTallied(check[k])
      /\ phase \in CountedPhases => phase' \in CountedPhases
    BY CountedStays DEF CheckTypeInv, CheckTypeOK, Records, SettledInv, SeesInv
<1>2. ASSUME NEW j \in Certifications,
             \E r : SeesTheTallied(r) /\ check'[j] = r
      PROVE  SeesTheTallied(check[j])'
  <2>1. SeesTheTallied(check'[j])
      BY <1>2
  <2> QED
      BY <1>1, <2>1 DEF SeesTheTallied, Counted
<1>3. ASSUME NEW k \in Certifications, CheckMoves(k), NEW j \in Certifications
      PROVE  \E r : SeesTheTallied(r) /\ check'[j] = r
  <2>1. PICK r : SeesTheTallied(r) /\ check' = [check EXCEPT ![k] = r]
      BY <1>1, <1>3, CheckStepSees
  <2>2. check'[j] = IF j = k THEN r ELSE check[j]
      BY <1>1, <2>1
  <2> QED
      BY <1>1, <2>1, <2>2
<1>4. ASSUME UNCHANGED checkVars, NEW j \in Certifications
      PROVE  \E r : SeesTheTallied(r) /\ check'[j] = r
    BY <1>1, <1>4 DEF checkVars
<1>5. (\E k \in Certifications : CheckMoves(k)) \/ UNCHANGED checkVars
    BY DEF CheckNext, CheckMoves, allVars
<1> QED
    BY <1>2, <1>3, <1>4, <1>5

\* A check that begins once the election is tallied reads two databases statement by
\* statement while late contributions and counts still write to them, and finds nothing
\* wrong: an election that nobody has altered is marked by it only if it was marked.
THEOREM NothingIsFoundOnceTallied == CheckSpec => []FindsNothingOnceTallied
<1>1. CheckInit => CheckTypeInv /\ AlteredInv /\ SeesInv
  <2>1. NotChecking.at = "idle"
      BY DEF NotChecking
  <2>2. KnowsTheAltered(NotChecking)
      BY <2>1 DEF KnowsTheAltered, NothingReadOfTheUrn, HasFoundTheAltered, HasFoundTheRoots, PastThePhase
  <2>3. SeesTheTallied(NotChecking)
      BY <2>1 DEF SeesTheTallied, PastThePhase
  <2>4. CheckInit => \A k \in Certifications : check[k] = NotChecking
      BY DEF CheckInit
  <2> QED
      BY <2>2, <2>3, <2>4, CheckTypeInit DEF AlteredInv, SeesInv
<1>2. TypeOK /\ SettledInv /\ CheckTypeInv /\ AlteredInv /\ SeesInv /\ [CheckNext]_allVars
        => CheckTypeInv' /\ AlteredInv' /\ SeesInv'
    BY CheckTypeStep, AlteredStep, SeesStep
<1>3. SeesInv => FindsNothingOnceTallied
    BY DEF SeesInv, SeesTheTallied, FindsNothingOnceTallied, CheckAt
<1> QED
    BY <1>1, <1>2, <1>3, TallyAlways, PTL DEF CheckSpec

----------------------------------------------------------------------------
(***************************************************************************)
(* Posts of certifications that run at once.                               *)
(***************************************************************************)
\* Who set the mark is about to post it, or has.
MarkIsPosted ==
    /\ ~underReview => reviewPosts = 0 /\ \A k \in Certifications : check[k].at # "markPost"
    /\ underReview => reviewPosts \in {0, 1}
    /\ reviewPosts = 1 => \A k \in Certifications : check[k].at # "markPost"
    /\ \A j, k \in Certifications : check[j].at = "markPost" /\ check[k].at = "markPost" => j = k

CertifiedIsPosted == outside = 0 => certifiedPosts = IF phase = "CERTIFIED" THEN 1 ELSE 0

\* A certification leaves the posts, or is the one that writes them.
LEMMA PostingSteps ==
    ASSUME CheckTypeInv, NEW k \in Certifications, CheckMoves(k)
    PROVE  /\ \A j \in Certifications \ {k} : check'[j] = check[j]
           /\ \/ UNCHANGED <<underReview, reviewPosts>> /\ check'[k].at # "markPost"
              \/ underReview' = TRUE /\ ~underReview /\ UNCHANGED reviewPosts
              \/ /\ check[k].at = "markPost" /\ check'[k].at # "markPost"
                 /\ UNCHANGED underReview /\ reviewPosts' = reviewPosts + 1
<1>1. check \in [Certifications -> Records] /\ check[k] \in Records
    BY DEF CheckTypeInv, CheckTypeOK, Records
<1>2. NotChecking.at = "idle"
    BY DEF NotChecking
<1>3. \A j \in Certifications \ {k} : check'[j] = check[j]
    BY <1>1 DEF CheckMoves, BeginCertification, Certifying, CertificationFails, ReadPhase, ReadBallotUrn,
       ReadPartials, ReadTallies, Report, WriteCertified, MarkUnderReview, PostUnderReview, CheckEnds
<1>4. CASE CheckEnds(k)
  <2>1. check'[k].at # "markPost"
      BY <1>1, <1>2, <1>4 DEF CheckEnds
  <2>2. UNCHANGED <<underReview, reviewPosts>> \/ (PostUnderReview(k) /\ CheckAt(k, "markPost"))
    <3>1. CASE MarkUnderReview(k)
      <4>1. CASE underReview = TRUE
          BY <3>1, <4>1 DEF MarkUnderReview
      <4>2. CASE underReview = FALSE
        <5>1. check' = [check EXCEPT ![k].at = "markPost"]
            BY <3>1, <4>2 DEF MarkUnderReview
        <5>2. check[k] \in Marking
            BY <1>1, <3>1, StepTellsTheCheck DEF MarkUnderReview, CheckAt
        <5>3. check'[k].at = "markPost"
            BY <1>1, <5>1, <5>2 DEF Marking
        <5> QED
            BY <2>1, <5>3
      <4> QED
          BY <4>1, <4>2 DEF CheckTypeInv, CheckTypeOK
    <3> QED
        BY <3>1 DEF CheckMoves, BeginCertification, Certifying, CertificationFails, ReadPhase, ReadBallotUrn,
           ReadPartials, ReadTallies, Report, WriteCertified, PostUnderReview, CheckOnlyReads, marks
  <2> QED
      BY <1>3, <2>1, <2>2 DEF PostUnderReview, CheckAt
<1>5. CASE MarkUnderReview(k) /\ ~CheckEnds(k)
    BY <1>3, <1>5 DEF MarkUnderReview
<1>6. CASE ~CheckEnds(k) /\ ~MarkUnderReview(k)
  <2>1. UNCHANGED <<underReview, reviewPosts>>
      BY <1>6 DEF CheckMoves, BeginCertification, Certifying, CertificationFails, ReadPhase, ReadBallotUrn,
         ReadPartials, ReadTallies, Report, WriteCertified, PostUnderReview, CheckOnlyReads, marks
  <2>2. ASSUME CheckAt(k, "phase") \/ CheckAt(k, "urn") \/ CheckAt(k, "partials") \/ CheckAt(k, "tallies")
               \/ CheckAt(k, "status")
        PROVE  check[k] \in Reading
      BY <1>1, <2>2, StepTellsTheCheck DEF CheckAt
  <2>3. check'[k].at # "markPost"
    <3>1. CASE BeginCertification(k)
        BY <1>1, <3>1 DEF BeginCertification
    <3>2. CASE ReadPhase(k) \/ ReadPartials(k) \/ ReadTallies(k)
      <4>1. check[k] \in Reading
          BY <2>2, <3>2 DEF ReadPhase, ReadPartials, ReadTallies
      <4>2. CASE ReadPhase(k)
          BY <1>1, <4>1, <4>2 DEF ReadPhase, Reading
      <4>3. CASE ReadPartials(k)
          BY <1>1, <4>1, <4>3 DEF ReadPartials, Reading
      <4>4. CASE ReadTallies(k)
          BY <1>1, <4>1, <4>4 DEF ReadTallies, Reading
      <4> QED
          BY <3>2, <4>2, <4>3, <4>4
    <3>3. ASSUME NEW b \in Ballots, ReadBallotUrn(k, b)
          PROVE  check'[k].at # "markPost"
      <4>1. PICK rows :
              LET read == [check[k].urn EXCEPT ![b] = rows]
              IN check' = [check EXCEPT ![k].urn = read, ![k].altered = @ \cap Altered,
                     ![k].at = IF \E a \in Ballots : read[a] = None THEN "urn" ELSE "partials"]
          BY <3>3 DEF ReadBallotUrn
      <4> DEFINE read == [check[k].urn EXCEPT ![b] = rows]
                 next == IF \E a \in Ballots : read[a] = None THEN "urn" ELSE "partials"
      <4>2. check' = [check EXCEPT ![k].urn = read, ![k].altered = @ \cap Altered, ![k].at = next]
          BY <4>1
      <4>3. next \in {"urn", "partials"}
          OBVIOUS
      <4>4. check[k] \in Reading
          BY <2>2, <3>3 DEF ReadBallotUrn
      <4> HIDE DEF read, next
      <4>5. check'[k].at = next
          BY <1>1, <4>2, <4>4 DEF Reading
      <4> QED
          BY <4>3, <4>5
    <3>4. CASE Report(k)
      <4> DEFINE s == [check[k] EXCEPT !.marked = underReview, !.altered = @ \cap Altered]
                 next == IF CanCertify(s) THEN "write" ELSE "mark"
      <4>1. check' = [check EXCEPT ![k] = [s EXCEPT !.at = next]] /\ check[k] \in Reading
          BY <1>6, <2>2, <3>4 DEF Report
      <4>2. next \in {"write", "mark"}
          OBVIOUS
      <4>3. s.at = check[k].at /\ [s EXCEPT !.at = next].at = next
          BY <4>1 DEF Reading
      <4> HIDE DEF s, next
      <4> QED
          BY <1>1, <4>1, <4>2, <4>3
    <3>5. CASE WriteCertified(k)
      <4>1. check[k] \in Ready
          BY <1>1, <3>5, StepTellsTheCheck DEF WriteCertified, CheckAt
      <4>2. check' = [check EXCEPT ![k].at = "phase", ![k].again = TRUE,
                                    ![k].urn = [b \in Ballots |-> None]]
          BY <1>6, <3>5 DEF WriteCertified
      <4> QED
          BY <1>1, <4>1, <4>2 DEF Ready
    <3> QED
        BY <1>6, <3>1, <3>2, <3>3, <3>4, <3>5 DEF CheckMoves, Certifying, PostUnderReview, CertificationFails
  <2> QED
      BY <1>3, <2>1, <2>3
<1> QED
    BY <1>4, <1>5, <1>6

LEMMA MarkStep ==
    ASSUME CheckTypeInv, MarkIsPosted, [CheckNext]_allVars
    PROVE  MarkIsPosted'
<1>1. reviewPosts \in Nat /\ underReview \in BOOLEAN
    BY DEF CheckTypeInv, CheckTypeOK
<1>2. ASSUME NEW k \in Certifications, CheckMoves(k)
      PROVE  MarkIsPosted'
  <2>1. \A j \in Certifications \ {k} : check'[j] = check[j]
      BY <1>2, PostingSteps
  <2>2. CASE UNCHANGED <<underReview, reviewPosts>> /\ check'[k].at # "markPost"
      BY <2>1, <2>2 DEF MarkIsPosted
  <2>3. CASE underReview' = TRUE /\ ~underReview /\ UNCHANGED reviewPosts
      BY <1>1, <2>1, <2>3 DEF MarkIsPosted
  <2>4. CASE /\ check[k].at = "markPost" /\ check'[k].at # "markPost"
             /\ UNCHANGED underReview /\ reviewPosts' = reviewPosts + 1
    <3>1. underReview /\ reviewPosts = 0
        BY <1>1, <2>4 DEF MarkIsPosted
    <3>2. \A j \in Certifications : check'[j].at # "markPost"
        BY <2>1, <2>4 DEF MarkIsPosted
    <3> QED
        BY <2>4, <3>1, <3>2 DEF MarkIsPosted
  <2> QED
      BY <1>2, <2>2, <2>3, <2>4, PostingSteps
<1>3. CASE UNCHANGED checkVars
    BY <1>3 DEF checkVars, marks, MarkIsPosted
<1> QED
    BY <1>2, <1>3 DEF CheckNext, CheckMoves, allVars

LEMMA CertifiedStep ==
    ASSUME TypeOK, CheckTypeInv, CertifiedIsPosted, [CheckNext]_allVars
    PROVE  CertifiedIsPosted'
<1> SUFFICES ASSUME outside' = 0
             PROVE  certifiedPosts' = IF phase' = "CERTIFIED" THEN 1 ELSE 0
    BY DEF CertifiedIsPosted
<1>1. outside = 0 /\ certifiedPosts = IF phase = "CERTIFIED" THEN 1 ELSE 0
    BY CountedStays DEF CertifiedIsPosted
<1>2. ASSUME NEW k \in Certifications, CheckMoves(k)
      PROVE  certifiedPosts' = IF phase' = "CERTIFIED" THEN 1 ELSE 0
  <2>1. CASE WriteCertified(k)
      BY <1>1, <2>1 DEF WriteCertified
  <2>2. CASE ~WriteCertified(k)
    <3>1. UNCHANGED <<phase, certifiedPosts>>
        BY <1>2, <2>2 DEF CheckMoves, BeginCertification, Certifying, CertificationFails, ReadPhase,
           ReadBallotUrn, ReadPartials, ReadTallies, Report, MarkUnderReview, PostUnderReview,
           CheckOnlyReads, tallyVars
    <3> QED
        BY <1>1, <3>1
  <2> QED
      BY <2>1, <2>2
<1>3. ASSUME NEW c \in Calls, Moves(c), UNCHANGED certifiedPosts
      PROVE  certifiedPosts' = IF phase' = "CERTIFIED" THEN 1 ELSE 0
  <2>1. UNCHANGED phase \/ (phase' = "TALLIED" /\ phase = "STRIPPED")
    <3>1. CASE Contributes(c)
        BY <3>1, ContributionMoves
    <3>2. CASE Counts(c)
        BY <3>2, CountMoves DEF CasTallied
    <3>3. CASE Fails(c) \/ Begins(c)
        BY <3>3, FailsLeads, BeginsLeaves
    <3> QED
        BY <1>3, <3>1, <3>2, <3>3 DEF Moves
  <2> QED
      BY <1>1, <1>3, <2>1
<1>4. CASE CallNext /\ UNCHANGED checkVars
    BY <1>3, <1>4 DEF CallNext, Moves, Fails, Begins, checkVars
<1>5. CASE Strips /\ UNCHANGED checkVars
    BY <1>1, <1>5 DEF Strips, checkVars
<1>6. ~OutsidePhase /\ ~OutsideVotes
    BY TallyAssumption DEF OutsidePhase, OutsideVotes, WrittenOutside, TypeOK
<1>7. CASE UNCHANGED allVars
    BY <1>1, <1>7 DEF allVars, tallyVars, checkVars
<1> QED
    BY <1>2, <1>4, <1>5, <1>6, <1>7 DEF CheckNext, CheckMoves

\* Of certifications that run at once, each reading for itself and some failing, one
\* writes CERTIFIED and its post, and one of those that mark the election posts it.
THEOREM CertificationsPostOnce == CheckSpec => []EachIsPostedOnce
<1>1. CheckInit => CheckTypeInv /\ MarkIsPosted /\ CertifiedIsPosted
  <2>1. NotChecking.at = "idle"
      BY DEF NotChecking
  <2>2. CheckInit => \A k \in Certifications : check[k] = NotChecking
      BY DEF CheckInit
  <2>3. CheckInit => ~underReview /\ reviewPosts = 0 /\ certifiedPosts = 0 /\ phase = "VALIDATED"
      BY DEF CheckInit, Init
  <2> QED
      BY <2>1, <2>2, <2>3, CheckTypeInit DEF MarkIsPosted, CertifiedIsPosted
<1>2. TypeOK /\ CheckTypeInv /\ MarkIsPosted /\ CertifiedIsPosted /\ [CheckNext]_allVars
        => CheckTypeInv' /\ MarkIsPosted' /\ CertifiedIsPosted'
    BY CheckTypeStep, MarkStep, CertifiedStep
<1>3. MarkIsPosted /\ CertifiedIsPosted => EachIsPostedOnce
    BY DEF MarkIsPosted, CertifiedIsPosted, EachIsPostedOnce
<1> QED
    BY <1>1, <1>2, <1>3, TallyAlways, PTL DEF CheckSpec
=============================================================================
