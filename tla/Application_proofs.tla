-------------------------- MODULE Application_proofs --------------------------
(***************************************************************************)
(* Proofs about the parts beside the voting, the closing and the tally:    *)
(* the rate limits, the audit chain, the demo election, the votes a device *)
(* remembers, the mode of the server, the validation of the envelopes, the *)
(* publication of results, and the logins with their admission queue.      *)
(* Each part is on its own, and a theorem says of its module what the run  *)
(* of the application asks.                                                *)
(***************************************************************************)
EXTENDS RateLimit, AuditChain, DemoElection, DeviceVotes, ServerMode, EnvelopeValidation,
        Publication, Login, WaitingLines, FiniteSetTheorems

----------------------------------------------------------------------------
(***************************************************************************)
(* The rate limits, for any keys, rules and stretch of time: what a bucket *)
(* has let through and what it holds are never more than it was filled     *)
(* with.                                                                   *)
(***************************************************************************)
\* What the calls let through and the bucket hold together.
BucketIsPaid(k) ==
    now >= from => admitted[k] * WindowMs[k] + Refilled(k) <= Full(k) + (now - from) * Limit[k]

\* A post is written for a bucket that let a call through after the last one.
PostIsPaid(k) ==
    /\ posts[k] <= admitted[k] + 1
    /\ k \in tracked \ refused => posts[k] <= admitted[k]

\* What the steps rest on.
RateIInv ==
    /\ RateTypeOK
    /\ \A k \in Keys : lastRefill[k] <= now
    /\ now < from => \A k \in Keys : admitted[k] = 0 /\ posts[k] = 0
    /\ \A k \in Keys \ evicted : BucketIsPaid(k)
    /\ \A k \in Keys : PostIsPaid(k)

\* A full bucket has room for a call.
LEMMA FullIsEnough ==
    ASSUME NEW k \in Keys
    PROVE  Full(k) \in Nat /\ WindowMs[k] \in Nat \ {0} /\ Full(k) >= WindowMs[k]
<1>1. Limit[k] \in Nat \ {0} /\ WindowMs[k] \in Nat \ {0}
    BY RateAssumption
<1>2. \A a, b \in Nat \ {0} : a * b \in Nat /\ a * b >= b
  <2> TAKE a, b \in Nat \ {0}
  <2>1. a * b = (a - 1) * b + b /\ (a - 1) * b \in Nat
    OBVIOUS
  <2> QED BY <2>1
<1> QED BY <1>1, <1>2 DEF Full

\* What a bucket refills with in a stretch of time.
LEMMA FillsWith ==
    ASSUME NEW k \in Keys, NEW a \in Nat, NEW b \in Nat, b <= a
    PROVE  /\ (a - b) * Limit[k] \in Nat
           /\ ((a + 1) - b) * Limit[k] = (a - b) * Limit[k] + Limit[k]
<1>1. Limit[k] \in Nat
    BY RateAssumption
<1>2. \A x, y \in Nat : x * y \in Nat /\ (x + 1) * y = x * y + y
    OBVIOUS
<1>3. a - b \in Nat /\ (a + 1) - b = (a - b) + 1
    OBVIOUS
<1> QED BY <1>1, <1>2, <1>3

LEMMA RefilledIsBounded ==
    ASSUME RateTypeOK, NEW k \in Keys, lastRefill[k] <= now
    PROVE  Refilled(k) \in Nat /\ Refilled(k) <= Full(k)
<1>1. (now - lastRefill[k]) * Limit[k] \in Nat
    BY FillsWith DEF RateTypeOK
<1>2. content[k] \in Nat /\ Full(k) \in Nat
    BY FullIsEnough DEF RateTypeOK
<1> QED BY <1>1, <1>2 DEF Refilled

LEMMA RateBegins == RateInit => RateIInv
<1> SUFFICES ASSUME RateInit PROVE RateIInv
    OBVIOUS
<1>1. RateTypeOK
    BY RateAssumption DEF RateInit, RateTypeOK
<1>2. \A k \in Keys : lastRefill[k] = 0 /\ admitted[k] = 0 /\ posts[k] = 0 /\ now = 0
    BY DEF RateInit
<1>3. ASSUME NEW k \in Keys PROVE BucketIsPaid(k)
  <2>1. Refilled(k) = Full(k)
    BY <1>2 DEF Refilled, RateInit
  <2>2. Full(k) \in Nat /\ WindowMs[k] \in Nat /\ Limit[k] \in Nat
    BY FullIsEnough, RateAssumption
  <2>3. now >= from => from = 0
    BY <1>1, <1>2 DEF RateTypeOK
  <2> QED BY <1>2, <2>1, <2>2, <2>3 DEF BucketIsPaid
<1> QED BY <1>1, <1>2, <1>3 DEF RateIInv, PostIsPaid

\* A millisecond passes: a bucket gains at most what the rule gives for it.
LEMMA TickKeeps ==
    ASSUME RateIInv, Tick
    PROVE  RateIInv'
<1>0. /\ RateTypeOK /\ now' = now + 1
      /\ UNCHANGED <<tracked, content, lastRefill, refused, from, admitted, posts, evicted>>
    BY DEF RateIInv, Tick
<1>1. RateTypeOK'
    BY <1>0 DEF RateTypeOK
<1>2. \A k \in Keys : lastRefill'[k] <= now'
    BY <1>0 DEF RateIInv, RateTypeOK
<1>3. now' < from' => \A k \in Keys : admitted'[k] = 0 /\ posts'[k] = 0
    BY <1>0 DEF RateIInv, RateTypeOK
<1>4. ASSUME NEW k \in Keys \ evicted', now' >= from'
      PROVE  admitted'[k] * WindowMs[k] + Refilled(k)' <= Full(k) + (now' - from') * Limit[k]
  <2>1. /\ lastRefill[k] <= now /\ BucketIsPaid(k) /\ k \in Keys
        /\ now \in Nat /\ from \in Nat /\ admitted[k] \in Nat /\ lastRefill[k] \in Nat
        /\ content[k] \in Nat
    BY <1>0, <1>4 DEF RateIInv, RateTypeOK
  <2>2. Full(k) \in Nat /\ WindowMs[k] \in Nat /\ Limit[k] \in Nat
    BY <2>1, FullIsEnough, RateAssumption
  <2>3. /\ (now - lastRefill[k]) * Limit[k] \in Nat
        /\ (now' - lastRefill[k]) * Limit[k] = (now - lastRefill[k]) * Limit[k] + Limit[k]
    <3>1. /\ (now - lastRefill[k]) * Limit[k] \in Nat
          /\ ((now + 1) - lastRefill[k]) * Limit[k] = (now - lastRefill[k]) * Limit[k] + Limit[k]
        BY <2>1, FillsWith
    <3>2. now' - lastRefill[k] = (now + 1) - lastRefill[k]
        BY <1>0
    <3> QED BY <3>1, <3>2, Zenon
  <2>4. Refilled(k)' \in Nat /\ Refilled(k)' <= Refilled(k) + Limit[k] /\ Refilled(k)' <= Full(k)
    <3> DEFINE more == (now - lastRefill[k]) * Limit[k]
    <3>1. Refilled(k) = IF k \in tracked /\ content[k] + more < Full(k)
                        THEN content[k] + more ELSE Full(k)
        BY DEF Refilled
    <3>2. Refilled(k)' = IF k \in tracked /\ content[k] + (more + Limit[k]) < Full(k)
                         THEN content[k] + (more + Limit[k]) ELSE Full(k)
        BY <1>0, <2>3 DEF Refilled, Full
    <3>3. more \in Nat
        BY <2>3
    <3> HIDE DEF more
    <3> QED BY <2>1, <2>2, <3>1, <3>2, <3>3
  <2>5. CASE now >= from
    <3>0. /\ (now - from) * Limit[k] \in Nat
          /\ ((now + 1) - from) * Limit[k] = (now - from) * Limit[k] + Limit[k]
        BY <2>1, <2>5, FillsWith
    <3>1. /\ (now' - from) * Limit[k] = (now - from) * Limit[k] + Limit[k]
          /\ (now - from) * Limit[k] \in Nat
      <4>1. now' - from = (now + 1) - from
          BY <1>0
      <4> QED BY <3>0, <4>1, Zenon
    <3>2. admitted[k] * WindowMs[k] + Refilled(k) <= Full(k) + (now - from) * Limit[k]
        BY <2>1, <2>5 DEF BucketIsPaid
    <3>3. admitted[k] * WindowMs[k] \in Nat
        BY <2>1, <2>2
    <3>4. Refilled(k) \in Nat
        BY <1>0, <2>1, RefilledIsBounded
    <3> QED BY <1>0, <2>2, <2>4, <3>1, <3>2, <3>3, <3>4
  <2>6. CASE ~(now >= from)
    <3>1. admitted[k] = 0 /\ now' - from = 0
        BY <1>0, <1>4, <2>1, <2>6 DEF RateIInv
    <3> QED BY <1>0, <2>2, <2>4, <3>1
  <2> QED BY <2>5, <2>6
<1>5. \A k \in Keys \ evicted' : BucketIsPaid(k)'
    BY <1>4 DEF BucketIsPaid, Full
<1>6. \A k \in Keys : PostIsPaid(k)'
    BY <1>0 DEF RateIInv, PostIsPaid
<1> QED BY <1>1, <1>2, <1>3, <1>5, <1>6 DEF RateIInv

\* A bucket that another call does not drop, or that is dropped full, is as it was.
LEMMA OthersKeep ==
    ASSUME RateIInv, NEW k \in Keys, CheckRateLimit(k), NEW u \in Keys \ evicted', u # k
    PROVE  Refilled(u)' = Refilled(u) /\ admitted'[u] = admitted[u]
<1>1. /\ content'[u] = content[u] /\ lastRefill'[u] = lastRefill[u] /\ now' = now
      /\ admitted'[u] = admitted[u]
    BY DEF RateIInv, RateTypeOK, CheckRateLimit, Counted
<1>2. CASE u \in Evicted(k)
  <2>1. ~(content[u] + (now - lastRefill[u]) * Limit[u] < Full(u))
    BY <1>2 DEF CheckRateLimit
  <2>2. Refilled(u) = Full(u) /\ Refilled(u)' = Full(u)
    BY <1>1, <2>1 DEF Refilled, Full
  <2> QED BY <1>1, <2>2
<1>3. CASE u \notin Evicted(k)
  <2>1. u \in tracked' <=> u \in tracked
    BY <1>3 DEF CheckRateLimit
  <2> QED BY <1>1, <2>1 DEF Refilled, Full
<1> QED BY <1>2, <1>3

\* A call takes what it costs from the bucket, or is refused and takes nothing.
LEMMA CheckKeeps ==
    ASSUME RateIInv, NEW k \in Keys, CheckRateLimit(k)
    PROVE  RateIInv'
<1> DEFINE tokens == Refilled(k)
<1>0. /\ RateTypeOK /\ lastRefill[k] <= now /\ now' = now /\ from' = from
      /\ lastRefill' = [lastRefill EXCEPT ![k] = now] /\ k \in tracked'
      /\ now \in Nat /\ from \in Nat
    BY DEF RateIInv, RateTypeOK, CheckRateLimit
<1>1. tokens \in Nat /\ tokens <= Full(k)
    BY <1>0, RefilledIsBounded
<1>2. WindowMs[k] \in Nat \ {0} /\ Full(k) \in Nat /\ WindowMs[k] <= Full(k)
    BY FullIsEnough
<1>3. \/ /\ tokens >= WindowMs[k]
         /\ content' = [content EXCEPT ![k] = tokens - WindowMs[k]]
         /\ admitted' = Counted(admitted, k) /\ refused' = refused \ {k} /\ UNCHANGED posts
      \/ /\ tokens < WindowMs[k]
         /\ content' = [content EXCEPT ![k] = tokens]
         /\ posts' = IF IsFirstRejection(k) THEN Counted(posts, k) ELSE posts
         /\ refused' = refused \cup {k} /\ UNCHANGED admitted
    BY DEF CheckRateLimit
<1>4. tracked' \subseteq Keys /\ evicted' \subseteq Keys /\ evicted \subseteq evicted'
    BY <1>0 DEF RateTypeOK, CheckRateLimit, Evicted
<1> HIDE DEF tokens
<1>5. RateTypeOK'
  <2>1. CASE tokens >= WindowMs[k] /\ content' = [content EXCEPT ![k] = tokens - WindowMs[k]]
             /\ admitted' = Counted(admitted, k) /\ refused' = refused \ {k} /\ UNCHANGED posts
    BY <1>0, <1>1, <1>2, <1>4, <2>1 DEF RateTypeOK, Counted
  <2>2. CASE content' = [content EXCEPT ![k] = tokens]
             /\ posts' = (IF IsFirstRejection(k) THEN Counted(posts, k) ELSE posts)
             /\ refused' = refused \cup {k} /\ UNCHANGED admitted
    BY <1>0, <1>1, <1>4, <2>2 DEF RateTypeOK, Counted
  <2> QED BY <1>3, <2>1, <2>2
<1>6. \A u \in Keys : lastRefill'[u] <= now'
    BY <1>0 DEF RateIInv, RateTypeOK
<1>7. now' < from' => \A u \in Keys : admitted'[u] = 0 /\ posts'[u] = 0
    BY <1>0, <1>3 DEF RateIInv, Counted
<1>8. ASSUME NEW u \in Keys \ evicted' PROVE BucketIsPaid(u)'
  <2>1. CASE u # k
    BY <1>0, <1>4, <2>1, <1>8, OthersKeep DEF RateIInv, BucketIsPaid, Full
  <2>2. CASE u = k
    <3>1. k \notin evicted /\ BucketIsPaid(k) /\ admitted[k] \in Nat
        BY <1>4, <1>8, <2>2 DEF RateIInv, RateTypeOK
    <3>2. (now - now) * Limit[k] = 0
      <4>1. now - now = 0 /\ Limit[k] \in Nat
          BY <1>0, RateAssumption
      <4> QED BY <4>1
    <3>3. content'[k] \in Nat /\ (content'[k] < Full(k) => Refilled(k)' = content'[k])
        BY <1>0, <1>5, <3>2 DEF Refilled, Full, RateTypeOK
    <3>4. CASE tokens >= WindowMs[k] /\ content' = [content EXCEPT ![k] = tokens - WindowMs[k]]
               /\ admitted' = Counted(admitted, k)
      <4>1. content'[k] = tokens - WindowMs[k]
          BY <1>0, <3>4 DEF RateTypeOK
      <4>2. Refilled(k)' = tokens - WindowMs[k]
          BY <1>1, <1>2, <3>3, <4>1
      <4>3. now >= from => admitted'[k] = admitted[k] + 1
          BY <1>0, <3>4 DEF Counted, RateTypeOK
      <4>4. (admitted[k] + 1) * WindowMs[k] = admitted[k] * WindowMs[k] + WindowMs[k]
            /\ admitted[k] * WindowMs[k] \in Nat
          BY <1>2, <3>1
      <4>5. now >= from => admitted'[k] * WindowMs[k] + Refilled(k)'
                = admitted[k] * WindowMs[k] + tokens
          BY <1>1, <1>2, <4>2, <4>3, <4>4
      <4> QED BY <1>0, <2>2, <3>1, <4>5 DEF BucketIsPaid, Full, tokens
    <3>5. CASE tokens < WindowMs[k] /\ content' = [content EXCEPT ![k] = tokens] /\ UNCHANGED admitted
      <4>1. content'[k] = tokens
          BY <1>0, <3>5 DEF RateTypeOK
      <4>2. Refilled(k)' = tokens
          BY <1>1, <1>2, <3>3, <3>5, <4>1
      <4> QED BY <1>0, <2>2, <3>1, <3>5, <4>2 DEF BucketIsPaid, Full, tokens
    <3> QED BY <1>3, <3>4, <3>5
  <2> QED BY <2>1, <2>2
<1>9. ASSUME NEW u \in Keys PROVE PostIsPaid(u)'
  <2>0. PostIsPaid(u) /\ admitted[u] \in Nat /\ posts[u] \in Nat
    BY <1>0 DEF RateIInv, RateTypeOK
  <2>1. CASE u # k
    <3>1. admitted'[u] = admitted[u] /\ posts'[u] = posts[u]
        BY <1>0, <1>3, <2>1 DEF Counted, RateTypeOK
    <3>2. u \in tracked' \ refused' => u \in tracked \ refused
        BY <1>3, <2>1 DEF CheckRateLimit
    <3> QED BY <2>0, <3>1, <3>2 DEF PostIsPaid
  <2>2. CASE u = k /\ admitted' = Counted(admitted, k) /\ UNCHANGED posts
    <3>1. CASE now >= from
        BY <1>0, <2>0, <2>2, <3>1 DEF PostIsPaid, Counted, RateTypeOK
    <3>2. CASE ~(now >= from)
        BY <1>0, <2>0, <2>2, <3>2 DEF PostIsPaid, Counted, RateIInv
    <3> QED BY <3>1, <3>2
  <2>3. CASE /\ u = k /\ tokens < WindowMs[k] /\ refused' = refused \cup {k} /\ UNCHANGED admitted
             /\ posts' = (IF IsFirstRejection(k) THEN Counted(posts, k) ELSE posts)
    <3>1. k \in tracked
        BY <1>2, <2>3 DEF Refilled, tokens
    <3>2. IsFirstRejection(k) => posts[k] <= admitted[k]
        BY <2>0, <2>3, <3>1 DEF IsFirstRejection, PostIsPaid
    <3>3. posts'[k] = posts[k] \/ (IsFirstRejection(k) /\ posts'[k] = posts[k] + 1)
        BY <1>0, <2>3 DEF Counted, RateTypeOK
    <3>4. posts'[k] <= admitted[k] + 1
        BY <2>0, <2>3, <3>2, <3>3 DEF PostIsPaid
    <3> QED BY <2>3, <3>4 DEF PostIsPaid
  <2> QED BY <1>3, <2>1, <2>2, <2>3
<1> QED BY <1>5, <1>6, <1>7, <1>8, <1>9 DEF RateIInv

LEMMA RateInvariant == RateSpec => []RateIInv
<1>1. RateIInv /\ [RateNext]_rateVars => RateIInv'
  <2> SUFFICES ASSUME RateIInv, [RateNext]_rateVars PROVE RateIInv'
    OBVIOUS
  <2>1. CASE UNCHANGED rateVars
    BY <2>1 DEF RateIInv, RateTypeOK, BucketIsPaid, PostIsPaid, Refilled, Full, rateVars
  <2> QED BY <2>1, TickKeeps, CheckKeeps DEF RateNext
<1> QED BY <1>1, RateBegins, PTL DEF RateSpec

----------------------------------------------------------------------------
\* In no stretch of time does a key get more calls through than a full bucket and
\* what refills in it, unless another scope's call dropped the bucket; and refused
\* calls never write more than one post for each that was let through, and one.
THEOREM RateAlwaysHolds == RateSpec => []RateHolds
<1>1. RateIInv => RateHolds
  <2> SUFFICES ASSUME RateIInv PROVE RateHolds
    OBVIOUS
  <2>1. ASSUME NEW k \in Keys \ evicted, now >= from
        PROVE  admitted[k] * WindowMs[k] <= Full(k) + (now - from) * Limit[k]
    <3>1. /\ admitted[k] * WindowMs[k] + Refilled(k) <= Full(k) + (now - from) * Limit[k]
          /\ lastRefill[k] <= now /\ RateTypeOK
        BY <2>1 DEF RateIInv, BucketIsPaid
    <3>2. Refilled(k) \in Nat /\ Full(k) \in Nat
        BY <3>1, RefilledIsBounded, FullIsEnough
    <3>3. /\ admitted[k] * WindowMs[k] \in Nat
          /\ (now - from) * Limit[k] \in Nat
      <4>1. /\ now \in Nat /\ from \in Nat /\ from <= now /\ k \in Keys
            /\ admitted[k] \in Nat /\ WindowMs[k] \in Nat
          BY <2>1, <3>1, FullIsEnough DEF RateTypeOK
      <4>2. (now - from) * Limit[k] \in Nat
          BY <4>1, FillsWith
      <4>3. \A x, y \in Nat : x * y \in Nat
          OBVIOUS
      <4> QED BY <4>1, <4>2, <4>3
    <3> QED BY <3>1, <3>2, <3>3
  <2>2. PostsAreBounded
    BY DEF RateIInv, PostIsPaid, PostsAreBounded
  <2> QED BY <2>1, <2>2 DEF RateHolds, WithinTheRule
<1> QED BY <1>1, RateInvariant, PTL

----------------------------------------------------------------------------
(***************************************************************************)
(* The audit chain, for any number of writers, in transactions of their    *)
(* own or of their callers, of failures, and of writes to the table past   *)
(* the application. The inductive invariant.                               *)
(***************************************************************************)
IsEntry(e) ==
    e = [sequence |-> e.sequence, event |-> e.event, previousHash |-> e.previousHash,
         urnRoot |-> e.urnRoot, entryHash |-> e.entryHash]

IsHashed(e) == e.entryHash = auditEntryHash(e.sequence, e.event, e.previousHash, e.urnRoot)

\* The table holds entries, whoever wrote them there.
ChainOfEntries == chain \in Seq(Range(chain)) /\ \A e \in Range(chain) : IsEntry(e)

\* Who is past the lock has it: nobody else commits or tampers meanwhile, and what
\* was read of the chain is still true.
OnlyTheHolder == \A w \in Writers : writer[w] \in {"read", "create", "commit"} => table = w

KnowsTheLast ==
    /\ DOMAIN previous = Writers /\ DOMAIN staged = Writers
    /\ \A w \in Writers :
          /\ writer[w] = "create" => previous[w] = LastOf(chain)
          /\ writer[w] = "commit" => staged[w] =
                Entry(LastOf(chain).sequence + 1, w, LastOf(chain).entryHash, RootOf[w])

\* A caller's change is committed by the commit it is told of.
SaidIsChanged == \A w \in InTransaction : writer[w] = "said" <=> w \in changed

OneEntryEach ==
    tampering = 0 =>
        \A w \in InTransaction : w \in changed <=> \E i \in DOMAIN chain : chain[i].event = w

\* Every hash in the table is that of an entry the application wrote, with all
\* that stands in it, unless somebody recomputed it.
HashesAreWritten ==
    /\ \A e \in written : IsEntry(e) /\ IsHashed(e)
    /\ ~recomputed => \A e \in Range(chain) : \E f \in written : f.entryHash = e.entryHash

AuditIInv ==
    /\ AuditTypeOK /\ ChainOfEntries /\ OnlyTheHolder /\ KnowsTheLast
    /\ NoEntryIsLost /\ SaidIsChanged /\ OneEntryEach /\ HashesAreWritten

----------------------------------------------------------------------------
(***************************************************************************)
(* Chains.                                                                 *)
(***************************************************************************)
\* A sequence is one of what stands in it.
LEMMA OfItsOwn ==
    ASSUME NEW S, NEW c \in Seq(S)
    PROVE  /\ c \in Seq(Range(c)) /\ Range(c) \subseteq S
           /\ Len(c) \in Nat /\ DOMAIN c = 1..Len(c)
           /\ \A i \in 1..Len(c) : c[i] \in Range(c)
           /\ \A e \in Range(c) : \E i \in 1..Len(c) : e = c[i]
<1>1. Len(c) \in Nat /\ DOMAIN c = 1..Len(c) /\ c \in [1..Len(c) -> S]
    BY LenProperties
<1>2. c \in [1..Len(c) -> Range(c)]
    BY <1>1 DEF Range
<1>3. c \in Seq(Range(c))
    BY <1>1, <1>2, SeqDef
<1> QED BY <1>1, <1>3 DEF Range

\* The last entry, where there is one.
LEMMA WhatIsLast ==
    ASSUME NEW S, NEW c \in Seq(S)
    PROVE  LastOf(c) = IF Len(c) = 0 THEN Genesis ELSE c[Len(c)]
    BY DEF LastOf, Last

LEMMA BeforeTheFirst == Genesis.sequence = 0 /\ Genesis.entryHash = Nothing
    BY DEF Genesis

\* What an entry at a place of a whole chain is.
Follows(c, i) ==
    /\ c[i].sequence = i
    /\ c[i].previousHash = IF i = 1 THEN Nothing ELSE c[i - 1].entryHash
    /\ IsHashed(c[i])

LEMMA IntactAtEachPlace ==
    ASSUME NEW S, NEW c \in Seq(S)
    PROVE  Intact(c) <=> \A i \in 1..Len(c) : Follows(c, i)
<1>1. ASSUME NEW i \in 1..Len(c)
      PROVE  LastOf(SubSeq(c, 1, i - 1)).entryHash = IF i = 1 THEN Nothing ELSE c[i - 1].entryHash
  <2>1. Len(c) \in Nat /\ i \in Nat /\ i - 1 \in Nat /\ i - 1 <= Len(c)
    BY LenProperties
  <2>2. /\ SubSeq(c, 1, i - 1) \in Seq(S) /\ Len(SubSeq(c, 1, i - 1)) = i - 1
        /\ \A j \in 1..(i - 1) : SubSeq(c, 1, i - 1)[j] = c[j]
    BY <2>1
  <2>3. CASE i = 1
    <3>1. Len(SubSeq(c, 1, i - 1)) = 0
        BY <2>2, <2>3
    <3>2. LastOf(SubSeq(c, 1, i - 1)) = Genesis
        BY <2>2, <3>1, WhatIsLast
    <3> QED BY <2>3, <3>2, BeforeTheFirst
  <2>4. CASE i # 1
    <3>1. i - 1 \in 1..(i - 1) /\ i - 1 # 0
        BY <2>1, <2>4
    <3>2. LastOf(SubSeq(c, 1, i - 1)) = c[i - 1]
        BY <2>2, <3>1, WhatIsLast
    <3> QED BY <2>4, <3>2
  <2> QED BY <2>3, <2>4
<1> QED BY <1>1 DEF Intact, BrokenAt, Follows, IsHashed

\* The last number of a whole chain is its length.
LEMMA LastNumber ==
    ASSUME NEW S, NEW c \in Seq(S), Intact(c)
    PROVE  LastOf(c).sequence = Len(c)
<1>1. Len(c) \in Nat
    BY LenProperties
<1>2. CASE Len(c) = 0
  <2>1. LastOf(c) = Genesis
    BY <1>2, WhatIsLast
  <2> QED BY <1>2, <2>1, BeforeTheFirst
<1>3. CASE Len(c) # 0
  <2>1. Len(c) \in 1..Len(c)
    BY <1>1, <1>3
  <2> QED BY <1>3, <2>1, WhatIsLast, IntactAtEachPlace DEF Follows
<1> QED BY <1>2, <1>3

LEMMA EntryIsEntry ==
    ASSUME NEW n, NEW w, NEW h, NEW r
    PROVE  /\ IsEntry(Entry(n, w, h, r)) /\ IsHashed(Entry(n, w, h, r))
           /\ Entry(n, w, h, r).sequence = n /\ Entry(n, w, h, r).event = w
           /\ Entry(n, w, h, r).previousHash = h /\ Entry(n, w, h, r).urnRoot = r
    BY DEF IsEntry, IsHashed, Entry

\* Two entries with one hash, each the hash of what it says, are one entry.
LEMMA HashTellsTheEntry ==
    ASSUME NEW e, NEW f, IsEntry(e), IsEntry(f), IsHashed(e), IsHashed(f),
           e.entryHash = f.entryHash
    PROVE  e = f
<1> DEFINE hash(g) == auditEntryHash(g.sequence, g.event, g.previousHash, g.urnRoot)
<1>1. hash(e) = hash(f)
    BY DEF IsHashed
<1>2. /\ e.sequence = f.sequence /\ e.event = f.event /\ e.previousHash = f.previousHash
      /\ e.urnRoot = f.urnRoot
  <2>1. CASE e.urnRoot = Nothing /\ f.urnRoot = Nothing
    <3>1. <<e.sequence, e.event, e.previousHash>> = <<f.sequence, f.event, f.previousHash>>
        BY <1>1, <2>1 DEF auditEntryHash
    <3> QED BY <2>1, <3>1
  <2>2. CASE e.urnRoot # Nothing /\ f.urnRoot # Nothing
    <3>1. <<e.sequence, e.event, e.previousHash, e.urnRoot>>
            = <<f.sequence, f.event, f.previousHash, f.urnRoot>>
        BY <1>1, <2>2 DEF auditEntryHash
    <3> QED BY <3>1
  <2>3. CASE e.urnRoot = Nothing /\ f.urnRoot # Nothing
    <3>1. <<e.sequence, e.event, e.previousHash>>
            = <<f.sequence, f.event, f.previousHash, f.urnRoot>>
        BY <1>1, <2>3 DEF auditEntryHash
    <3> QED BY <3>1
  <2>4. CASE e.urnRoot # Nothing /\ f.urnRoot = Nothing
    <3>1. <<e.sequence, e.event, e.previousHash, e.urnRoot>>
            = <<f.sequence, f.event, f.previousHash>>
        BY <1>1, <2>4 DEF auditEntryHash
    <3> QED BY <3>1
  <2> QED BY <2>1, <2>2, <2>3, <2>4
<1> QED BY <1>2 DEF IsEntry

\* A chain that verifies holds what was written.
LEMMA HashesShowWhatWasWritten ==
    ASSUME ChainOfEntries, HashesAreWritten
    PROVE  IntactIsWritten
<1> SUFFICES ASSUME Intact(chain), ~recomputed, NEW e \in Range(chain)
             PROVE  e \in written
    BY DEF IntactIsWritten
<1>1. PICK i \in 1..Len(chain) : e = chain[i]
    BY OfItsOwn DEF ChainOfEntries
<1>2. IsHashed(e)
    BY <1>1, IntactAtEachPlace DEF ChainOfEntries, Follows
<1>3. PICK f \in written : f.entryHash = e.entryHash
    BY DEF HashesAreWritten
<1>4. e = f
    BY <1>2, <1>3, HashTellsTheEntry DEF ChainOfEntries, HashesAreWritten
<1> QED BY <1>4

----------------------------------------------------------------------------
(***************************************************************************)
(* A writer's steps.                                                       *)
(***************************************************************************)
\* What nobody has written in is as it was.
LEMMA UnwrittenKeeps ==
    ASSUME AuditIInv, UNCHANGED <<chain, changed, written, recomputed, tampering>>
    PROVE  /\ ChainOfEntries' /\ OneEntryEach' /\ HashesAreWritten'
           /\ (tampering = 0 => Intact(chain))'
           /\ changed' \subseteq InTransaction /\ recomputed' \in BOOLEAN
           /\ tampering' \in 0..MaxTampering
<1>1. ChainOfEntries'
    BY DEF AuditIInv, ChainOfEntries
<1>2. OneEntryEach'
    BY DEF AuditIInv, OneEntryEach
<1>3. HashesAreWritten'
    BY DEF AuditIInv, HashesAreWritten
<1>4. (tampering = 0 => Intact(chain))'
    BY DEF AuditIInv, NoEntryIsLost
<1> QED BY <1>1, <1>2, <1>3, <1>4 DEF AuditIInv, AuditTypeOK

LEMMA BeginKeeps ==
    ASSUME AuditIInv, NEW w \in Writers, Begin(w)
    PROVE  AuditIInv'
<1>1. UNCHANGED <<chain, changed, written, recomputed, tampering, previous, staged, failures>>
    BY DEF Begin
<1>2. /\ writer \in [Writers -> WriterStages \cup WriterEnds]
      /\ writer' = [writer EXCEPT ![w] = "lock"]
    BY DEF Begin, Goes, AuditIInv, AuditTypeOK
<1>3. AuditTypeOK'
    BY <1>1, <1>2, UnwrittenKeeps
       DEF Begin, FirstLock, AuditIInv, AuditTypeOK, WriterStages, WriterEnds
<1>4. OnlyTheHolder'
    BY <1>2 DEF Begin, FirstLock, AuditIInv, OnlyTheHolder
<1>5. KnowsTheLast'
    BY <1>1, <1>2 DEF AuditIInv, KnowsTheLast
<1>6. SaidIsChanged'
    BY <1>1, <1>2, AuditAssumption DEF Begin, AuditIInv, SaidIsChanged
<1>7. NoEntryIsLost'
    BY <1>1, <1>2, UnwrittenKeeps DEF AuditIInv, NoEntryIsLost
<1> QED BY <1>1, <1>3, <1>4, <1>5, <1>6, <1>7, UnwrittenKeeps DEF AuditIInv

LEMMA LockTableKeeps ==
    ASSUME AuditIInv, NEW w \in Writers, LockTable(w)
    PROVE  AuditIInv'
<1>1. UNCHANGED <<chain, changed, written, recomputed, tampering, previous, staged, failures>>
    BY DEF LockTable
<1>2. /\ writer \in [Writers -> WriterStages \cup WriterEnds]
      /\ writer[w] = "lock" /\ writer' = [writer EXCEPT ![w] = "read"]
    BY DEF LockTable, Goes, AuditIInv, AuditTypeOK
<1>3. AuditTypeOK'
    BY <1>1, <1>2, UnwrittenKeeps
       DEF LockTable, TakesTable, AuditIInv, AuditTypeOK, WriterStages, WriterEnds
<1>4. OnlyTheHolder'
    BY <1>2, AuditAssumption DEF LockTable, TakesTable, AuditIInv, OnlyTheHolder
<1>5. KnowsTheLast'
    BY <1>1, <1>2 DEF AuditIInv, KnowsTheLast
<1>6. SaidIsChanged'
    BY <1>1, <1>2, AuditAssumption DEF AuditIInv, SaidIsChanged
<1>7. NoEntryIsLost'
    BY <1>1, <1>2, UnwrittenKeeps DEF AuditIInv, NoEntryIsLost
<1> QED BY <1>1, <1>3, <1>4, <1>5, <1>6, <1>7, UnwrittenKeeps DEF AuditIInv

LEMMA ReadPreviousKeeps ==
    ASSUME AuditIInv, NEW w \in Writers, ReadPrevious(w)
    PROVE  AuditIInv'
<1>1. UNCHANGED <<chain, row, table, changed, written, recomputed, tampering, staged, failures>>
    BY DEF ReadPrevious
<1>2. /\ writer \in [Writers -> WriterStages \cup WriterEnds]
      /\ writer[w] = "read" /\ writer' = [writer EXCEPT ![w] = "create"]
    BY DEF ReadPrevious, Goes, AuditIInv, AuditTypeOK
<1>3. AuditTypeOK'
    BY <1>1, <1>2, UnwrittenKeeps DEF AuditIInv, AuditTypeOK, WriterStages, WriterEnds
<1>4. OnlyTheHolder'
    BY <1>1, <1>2 DEF AuditIInv, OnlyTheHolder
<1>5. KnowsTheLast'
    BY <1>1, <1>2 DEF ReadPrevious, AuditIInv, KnowsTheLast
<1>6. SaidIsChanged'
    BY <1>1, <1>2, AuditAssumption DEF AuditIInv, SaidIsChanged
<1>7. NoEntryIsLost'
    BY <1>1, <1>2, UnwrittenKeeps DEF AuditIInv, NoEntryIsLost
<1> QED BY <1>1, <1>3, <1>4, <1>5, <1>6, <1>7, UnwrittenKeeps DEF AuditIInv

LEMMA CreateEntryKeeps ==
    ASSUME AuditIInv, NEW w \in Writers, CreateEntry(w)
    PROVE  AuditIInv'
<1>1. UNCHANGED <<chain, row, table, changed, written, recomputed, tampering, previous, failures>>
    BY DEF CreateEntry
<1>2. /\ writer \in [Writers -> WriterStages \cup WriterEnds]
      /\ writer[w] = "create" /\ writer' = [writer EXCEPT ![w] = "commit"]
    BY DEF CreateEntry, Goes, AuditIInv, AuditTypeOK
<1>3. AuditTypeOK'
    BY <1>1, <1>2, UnwrittenKeeps DEF AuditIInv, AuditTypeOK, WriterStages, WriterEnds
<1>4. OnlyTheHolder'
    BY <1>1, <1>2 DEF AuditIInv, OnlyTheHolder
<1>5. KnowsTheLast'
  <2>1. /\ previous[w] = LastOf(chain)
        /\ staged' = [staged EXCEPT ![w] =
               Entry(previous[w].sequence + 1, w, previous[w].entryHash, RootOf[w])]
        /\ DOMAIN staged = Writers
    BY <1>2 DEF CreateEntry, AuditIInv, KnowsTheLast
  <2> QED BY <1>1, <1>2, <2>1 DEF AuditIInv, KnowsTheLast
<1>6. SaidIsChanged'
    BY <1>1, <1>2, AuditAssumption DEF AuditIInv, SaidIsChanged
<1>7. NoEntryIsLost'
    BY <1>1, <1>2, UnwrittenKeeps DEF AuditIInv, NoEntryIsLost
<1> QED BY <1>1, <1>3, <1>4, <1>5, <1>6, <1>7, UnwrittenKeeps DEF AuditIInv

\* While nobody tampers, the number after the last is free.
LEMMA NumberIsFree ==
    ASSUME AuditIInv, NEW w \in Writers, NumberIsTaken(w)
    PROVE  tampering # 0
<1> SUFFICES ASSUME tampering = 0 PROVE FALSE
    OBVIOUS
<1>1. chain \in Seq(Range(chain)) /\ Intact(chain) /\ previous[w] = LastOf(chain)
    BY DEF AuditIInv, ChainOfEntries, NoEntryIsLost, KnowsTheLast, NumberIsTaken
<1>2. PICK i \in DOMAIN chain : chain[i].sequence = Len(chain) + 1
    BY <1>1, LastNumber DEF NumberIsTaken
<1>3. i \in 1..Len(chain) /\ Len(chain) \in Nat
    BY <1>1, LenProperties
<1>4. chain[i].sequence = i
    BY <1>1, <1>3, IntactAtEachPlace DEF Follows
<1> QED BY <1>2, <1>3, <1>4

\* Who rolls back leaves nothing, and is told so.
LEMMA RollsBackKeeps ==
    ASSUME AuditIInv, NEW w \in Writers, RollsBack(w), writer[w] \notin WriterEnds,
           failures' \in 0..MaxFailures,
           tampering # 0 \/ failures' # 0
    PROVE  AuditIInv'
<1>1. UNCHANGED <<chain, changed, written, recomputed, tampering>>
    BY DEF RollsBack
<1>2. /\ writer \in [Writers -> WriterStages \cup WriterEnds]
      /\ writer' = [writer EXCEPT ![w] = AfterError(w)]
      /\ AfterError(w) \in {"failed", "lost"}
    BY DEF RollsBack, Goes, AfterError, AuditIInv, AuditTypeOK
<1>3. AuditTypeOK'
  <2>1. row' \in InTransaction \cup {Nothing} /\ table' \in Writers \cup {Nothing}
    BY DEF RollsBack, Unlocks, AuditIInv, AuditTypeOK
  <2>2. writer' \in [Writers -> WriterStages \cup WriterEnds]
    BY <1>2 DEF WriterEnds
  <2> QED BY <2>1, <2>2, <1>1, UnwrittenKeeps DEF AuditTypeOK
<1>4. OnlyTheHolder'
    BY <1>2 DEF RollsBack, Unlocks, AuditIInv, OnlyTheHolder
<1>5. KnowsTheLast'
  <2>1. /\ previous' = [previous EXCEPT ![w] = Nothing]
        /\ staged' = [staged EXCEPT ![w] = Nothing]
    BY DEF RollsBack, Unlocks
  <2> QED BY <1>1, <1>2, <2>1 DEF AuditIInv, KnowsTheLast
<1>6. SaidIsChanged'
    BY <1>1, <1>2, AuditAssumption DEF AuditIInv, SaidIsChanged, WriterEnds
<1>7. NoEntryIsLost'
    BY <1>1, UnwrittenKeeps DEF NoEntryIsLost
<1> QED BY <1>1, <1>3, <1>4, <1>5, <1>6, <1>7, UnwrittenKeeps DEF AuditIInv

LEMMA CommitEntryKeeps ==
    ASSUME AuditIInv, NEW w \in Writers, CommitEntry(w)
    PROVE  AuditIInv'
<1> DEFINE e == Entry(LastOf(chain).sequence + 1, w, LastOf(chain).entryHash, RootOf[w])
           n == Len(chain)
<1>1. /\ writer \in [Writers -> WriterStages \cup WriterEnds]
      /\ writer[w] = "commit" /\ writer' = [writer EXCEPT ![w] = "said"]
      /\ UNCHANGED <<recomputed, failures, tampering>>
    BY DEF CommitEntry, Goes, AuditIInv, AuditTypeOK
<1>2. /\ chain' = Append(chain, e) /\ written' = written \cup {e}
      /\ table = w
      /\ chain \in Seq(Range(chain)) /\ \A f \in Range(chain) : IsEntry(f)
    BY <1>1 DEF CommitEntry, AuditIInv, KnowsTheLast, OnlyTheHolder, ChainOfEntries
<1>3. /\ IsEntry(e) /\ IsHashed(e) /\ e.event = w /\ e.sequence = LastOf(chain).sequence + 1
      /\ e.previousHash = LastOf(chain).entryHash
    BY EntryIsEntry
<1> HIDE DEF e
<1>4. /\ chain' \in Seq(Range(chain) \cup {e}) /\ n \in Nat
      /\ Len(chain') = n + 1 /\ DOMAIN chain' = 1..(n + 1) /\ DOMAIN chain = 1..n
      /\ chain'[n + 1] = e
      /\ \A i \in 1..n : chain'[i] = chain[i]
    BY <1>2
<1> HIDE DEF n
<1>5. ChainOfEntries'
  <2>1. chain' \in Seq(Range(chain')) /\ Range(chain') \subseteq Range(chain) \cup {e}
    BY <1>4, OfItsOwn
  <2> QED BY <2>1, <1>2, <1>3 DEF ChainOfEntries
<1>6. AuditTypeOK'
  <2>1. row' \in InTransaction \cup {Nothing} /\ table' \in Writers \cup {Nothing}
    BY DEF CommitEntry, Unlocks, AuditIInv, AuditTypeOK
  <2>2. writer' \in [Writers -> WriterStages \cup WriterEnds]
    BY <1>1 DEF WriterEnds
  <2>3. changed' \subseteq InTransaction
    BY DEF CommitEntry, AuditIInv, AuditTypeOK
  <2> QED BY <2>1, <2>2, <2>3, <1>1 DEF AuditIInv, AuditTypeOK
<1>7. \A v \in Writers : writer'[v] \notin {"read", "create", "commit"}
    BY <1>1, <1>2 DEF AuditIInv, OnlyTheHolder
<1>8. OnlyTheHolder' /\ KnowsTheLast'
    BY <1>7 DEF CommitEntry, Unlocks, AuditIInv, OnlyTheHolder, KnowsTheLast
<1>9. NoEntryIsLost'
  <2> SUFFICES ASSUME tampering = 0
               PROVE  /\ Intact(chain')
                      /\ failures = 0 => \A v \in Writers : writer'[v] \notin {"lost", "failed"}
    BY <1>1 DEF NoEntryIsLost
  <2>1. Intact(chain)
    BY DEF AuditIInv, NoEntryIsLost
  <2>2. ASSUME NEW i \in 1..(n + 1) PROVE Follows(chain', i)
    <3>1. CASE i \in 1..n
      <4>1. Follows(chain, i) /\ i \in Nat /\ (i # 1 => i - 1 \in 1..n)
        BY <2>1, <3>1, <1>2, <1>4, IntactAtEachPlace DEF n
      <4> QED BY <4>1, <3>1, <1>4 DEF Follows
    <3>2. CASE i = n + 1
      <4>1. LastOf(chain).sequence = n
        BY <2>1, <1>2, LastNumber DEF n
      <4>2. CASE n = 0
        <5>1. LastOf(chain).entryHash = Nothing
            BY <4>2, <1>2, WhatIsLast, BeforeTheFirst DEF n
        <5> QED BY <5>1, <4>1, <4>2, <3>2, <1>3, <1>4 DEF Follows
      <4>3. CASE n # 0
        <5>1. LastOf(chain) = chain[n] /\ n \in 1..n /\ (n + 1) - 1 = n /\ n + 1 # 1
            BY <4>3, <1>2, <1>4, WhatIsLast DEF n
        <5> QED BY <5>1, <4>1, <3>2, <1>3, <1>4 DEF Follows
      <4> QED BY <4>2, <4>3
    <3> QED BY <3>1, <3>2, <1>4
  <2>3. Intact(chain')
    BY <2>2, <1>4, IntactAtEachPlace
  <2>4. failures = 0 => \A v \in Writers : writer'[v] \notin {"lost", "failed"}
    BY <1>1 DEF AuditIInv, NoEntryIsLost
  <2> QED BY <2>3, <2>4
<1>10. SaidIsChanged'
    BY <1>1, AuditAssumption DEF CommitEntry, AuditIInv, SaidIsChanged
<1>11. OneEntryEach'
  <2> SUFFICES ASSUME tampering = 0, NEW v \in InTransaction
               PROVE  v \in changed' <=> \E i \in DOMAIN chain' : chain'[i].event = v
    BY <1>1 DEF OneEntryEach
  <2>1. v \in changed <=> \E i \in DOMAIN chain : chain[i].event = v
    BY DEF AuditIInv, OneEntryEach
  <2>2. v \in changed' <=> v \in changed \/ v = w
    BY DEF CommitEntry
  <2>3. (\E i \in DOMAIN chain' : chain'[i].event = v)
          <=> (\E i \in DOMAIN chain : chain[i].event = v) \/ v = w
    BY <1>3, <1>4
  <2> QED BY <2>1, <2>2, <2>3
<1>12. HashesAreWritten'
  <2>1. Range(chain') \subseteq Range(chain) \cup {e}
    BY <1>4, OfItsOwn
  <2> QED BY <2>1, <1>1, <1>2, <1>3 DEF AuditIInv, HashesAreWritten
<1> QED BY <1>5, <1>6, <1>8, <1>9, <1>10, <1>11, <1>12 DEF AuditIInv

----------------------------------------------------------------------------
(***************************************************************************)
(* Writes past the application.                                            *)
(***************************************************************************)
\* Nobody is past the lock then; what is left of the chain are entries still, and
\* hashes that were there unless they are recomputed.
LEMMA TampersKeeps ==
    ASSUME AuditIInv, NEW c, Tampers(c), NEW S, c \in Seq(S), \A e \in S : IsEntry(e),
           \/ recomputed' = TRUE
           \/ /\ recomputed' = recomputed
              /\ \A e \in S : \E f \in Range(chain) : f.entryHash = e.entryHash
    PROVE  AuditIInv'
<1>1. /\ UNCHANGED <<row, table, previous, staged, writer, changed, written, failures>>
      /\ chain' = c /\ table = Nothing
      /\ tampering \in 0..MaxTampering /\ tampering < MaxTampering /\ tampering' = tampering + 1
    BY DEF Tampers, AuditIInv, AuditTypeOK
<1>2. tampering' \in 0..MaxTampering /\ tampering' # 0
    BY <1>1, AuditAssumption
<1>3. AuditTypeOK'
    BY <1>1, <1>2 DEF AuditIInv, AuditTypeOK
<1>4. chain' \in Seq(Range(chain')) /\ Range(chain') \subseteq S
    BY <1>1, OfItsOwn
<1>5. ChainOfEntries'
    BY <1>4 DEF ChainOfEntries
<1>6. \A w \in Writers : writer'[w] \notin {"read", "create", "commit"}
    BY <1>1, AuditAssumption DEF AuditIInv, OnlyTheHolder
<1>7. OnlyTheHolder' /\ KnowsTheLast'
    BY <1>1, <1>6 DEF OnlyTheHolder, AuditIInv, KnowsTheLast
<1>8. NoEntryIsLost' /\ OneEntryEach'
    BY <1>2 DEF NoEntryIsLost, OneEntryEach
<1>9. SaidIsChanged'
    BY <1>1 DEF AuditIInv, SaidIsChanged
<1>10. HashesAreWritten'
    BY <1>1, <1>4 DEF AuditIInv, HashesAreWritten
<1> QED BY <1>3, <1>5, <1>7, <1>8, <1>9, <1>10 DEF AuditIInv

LEMMA RemoveEntryKeeps ==
    ASSUME AuditIInv, NEW i \in DOMAIN chain, RemoveEntry(i)
    PROVE  AuditIInv'
<1>1. chain \in Seq(Range(chain)) /\ \A e \in Range(chain) : IsEntry(e)
    BY DEF AuditIInv, ChainOfEntries
<1>2. RemoveAt(chain, i) \in Seq(Range(chain))
  <2>1. Len(chain) \in Nat /\ i \in 1..Len(chain)
    BY <1>1, LenProperties
  <2>2. /\ SubSeq(chain, 1, i - 1) \in Seq(Range(chain))
        /\ SubSeq(chain, i + 1, Len(chain)) \in Seq(Range(chain))
    BY <1>1, <2>1
  <2> QED BY <2>2, ConcatProperties DEF RemoveAt
<1> QED BY <1>1, <1>2, TampersKeeps DEF RemoveEntry

LEMMA ChangeEntryKeeps ==
    ASSUME AuditIInv, NEW i \in DOMAIN chain, ChangeEntry(i)
    PROVE  AuditIInv'
<1>1. /\ chain \in Seq(Range(chain)) /\ chain[i] \in Range(chain)
      /\ \A e \in Range(chain) : IsEntry(e)
    BY DEF AuditIInv, ChainOfEntries, Range
<1> DEFINE Changed(c) ==
        \E e : /\ c = [chain EXCEPT ![i] = e]
               /\ IsEntry(e) /\ e.entryHash = chain[i].entryHash
<1>2. ASSUME NEW c, Changed(c), Tampers(c) PROVE AuditIInv'
  <2>1. PICK e : c = [chain EXCEPT ![i] = e] /\ IsEntry(e) /\ e.entryHash = chain[i].entryHash
    BY <1>2
  <2>2. c \in Seq(Range(chain) \cup {e})
    <3>1. Len(chain) \in Nat /\ DOMAIN chain = 1..Len(chain)
          /\ chain \in [1..Len(chain) -> Range(chain)]
        BY <1>1, LenProperties
    <3>2. c \in [1..Len(chain) -> Range(chain) \cup {e}]
        BY <2>1, <3>1
    <3> QED BY <3>1, <3>2, SeqDef
  <2>3. \A d \in Range(chain) \cup {e} : IsEntry(d)
    BY <1>1, <2>1
  <2>4. \A d \in Range(chain) \cup {e} : \E f \in Range(chain) : f.entryHash = d.entryHash
    BY <1>1, <2>1
  <2>5. recomputed' = recomputed
    BY DEF ChangeEntry
  <2> QED BY <1>2, <2>2, <2>3, <2>4, <2>5, TampersKeeps
<1>3. ASSUME NEW w PROVE Changed([chain EXCEPT ![i].event = w])
  <2> DEFINE e == [chain[i] EXCEPT !.event = w]
  <2>1. IsEntry(e) /\ e.entryHash = chain[i].entryHash
    BY <1>1 DEF IsEntry
  <2> QED BY <2>1
<1>4. ASSUME NEW r PROVE Changed([chain EXCEPT ![i].urnRoot = r])
  <2> DEFINE e == [chain[i] EXCEPT !.urnRoot = r]
  <2>1. IsEntry(e) /\ e.entryHash = chain[i].entryHash
    BY <1>1 DEF IsEntry
  <2> QED BY <2>1
<1> HIDE DEF Changed
<1> QED BY <1>2, <1>3, <1>4 DEF ChangeEntry

LEMMA RecomputeLastKeeps ==
    ASSUME AuditIInv, RecomputeLast
    PROVE  AuditIInv'
<1>1. chain \in Seq(Range(chain)) /\ \A e \in Range(chain) : IsEntry(e)
    BY DEF AuditIInv, ChainOfEntries
<1>2. PICK w \in Writers :
        Tampers(Front(chain) \o <<Entry(Len(chain), w, LastOf(Front(chain)).entryHash, Nothing)>>)
    BY DEF RecomputeLast
<1> DEFINE e == Entry(Len(chain), w, LastOf(Front(chain)).entryHash, Nothing)
<1>3. IsEntry(e)
    BY EntryIsEntry
<1> HIDE DEF e
<1>4. Front(chain) \o <<e>> \in Seq(Range(chain) \cup {e})
  <2>1. chain # <<>> /\ Len(chain) \in Nat
    BY <1>1, LenProperties DEF RecomputeLast
  <2>2. Front(chain) \in Seq(Range(chain))
    BY <1>1, <2>1 DEF Front
  <2>3. Front(chain) \in Seq(Range(chain) \cup {e}) /\ <<e>> \in Seq(Range(chain) \cup {e})
    BY <2>2
  <2> QED BY <2>3, ConcatProperties
<1>5. recomputed' = TRUE
    BY DEF RecomputeLast
<1> QED BY <1>1, <1>2, <1>3, <1>4, <1>5, TampersKeeps DEF e

----------------------------------------------------------------------------
(***************************************************************************)
(* The theorem.                                                            *)
(***************************************************************************)
LEMMA AuditStarts == AuditInit => AuditIInv
<1> SUFFICES ASSUME AuditInit PROVE AuditIInv
    OBVIOUS
<1>1. AuditTypeOK
  <2>1. 0 \in 0..MaxFailures /\ 0 \in 0..MaxTampering
    BY AuditAssumption
  <2>2. writer \in [Writers -> WriterStages \cup WriterEnds]
    BY DEF AuditInit, WriterStages
  <2> QED BY <2>1, <2>2 DEF AuditInit, AuditTypeOK
<1>2. chain \in Seq(Writers) /\ Len(chain) = 0
    BY DEF AuditInit
<1>3. chain \in Seq(Range(chain)) /\ \A e : e \notin Range(chain)
  <2>1. /\ chain \in Seq(Range(chain))
        /\ \A e \in Range(chain) : \E i \in 1..Len(chain) : e = chain[i]
    BY <1>2, OfItsOwn
  <2>2. \A i : i \notin 1..Len(chain)
    BY <1>2
  <2> QED BY <2>1, <2>2
<1>4. ChainOfEntries
    BY <1>3 DEF ChainOfEntries
<1>5. NoEntryIsLost
  <2>1. Intact(chain) <=> \A i \in 1..Len(chain) : Follows(chain, i)
    BY <1>2, IntactAtEachPlace
  <2>2. \A i : i \notin 1..Len(chain)
    BY <1>2
  <2> QED BY <2>1, <2>2 DEF AuditInit, NoEntryIsLost
<1>6. OnlyTheHolder /\ KnowsTheLast
    BY DEF AuditInit, OnlyTheHolder, KnowsTheLast
<1>7. SaidIsChanged /\ OneEntryEach
    BY <1>2, AuditAssumption DEF AuditInit, SaidIsChanged, OneEntryEach
<1>8. HashesAreWritten
    BY <1>3 DEF AuditInit, HashesAreWritten
<1> QED BY <1>1, <1>4, <1>5, <1>6, <1>7, <1>8 DEF AuditIInv

LEMMA AuditKeeps == AuditIInv /\ [AuditNext]_auditVars => AuditIInv'
<1> SUFFICES ASSUME AuditIInv, [AuditNext]_auditVars PROVE AuditIInv'
    OBVIOUS
<1>1. ASSUME NEW w \in Writers, Begin(w) PROVE AuditIInv'
    BY <1>1, BeginKeeps
<1>2. ASSUME NEW w \in Writers, WriterStep(w) PROVE AuditIInv'
  <2>1. CASE NumberIsTaken(w)
    <3>1. /\ failures' = failures /\ RollsBack(w) /\ writer[w] = "create"
          /\ failures \in 0..MaxFailures /\ tampering # 0
        BY <2>1, NumberIsFree DEF NumberIsTaken, AuditIInv, AuditTypeOK
    <3> QED BY <3>1, RollsBackKeeps DEF WriterEnds
  <2> QED BY <1>2, <2>1, LockTableKeeps, ReadPreviousKeeps, CreateEntryKeeps, CommitEntryKeeps
          DEF WriterStep
<1>3. ASSUME NEW w \in Writers, WriterFails(w) PROVE AuditIInv'
  <2>1. failures' \in 0..MaxFailures /\ failures' # 0
    BY <1>3, AuditAssumption DEF WriterFails, AuditIInv, AuditTypeOK
  <2>2. RollsBack(w) /\ writer[w] \notin WriterEnds
    BY <1>3 DEF WriterFails, WriterEnds
  <2> QED BY <2>1, <2>2, RollsBackKeeps
<1>4. ASSUME NEW i \in DOMAIN chain, RemoveEntry(i) \/ ChangeEntry(i) PROVE AuditIInv'
    BY <1>4, RemoveEntryKeeps, ChangeEntryKeeps
<1>5. CASE RecomputeLast
    BY <1>5, RecomputeLastKeeps
<1>6. CASE UNCHANGED auditVars
    BY <1>6 DEF auditVars, AuditIInv, AuditTypeOK, ChainOfEntries, OnlyTheHolder, KnowsTheLast,
       NoEntryIsLost, SaidIsChanged, OneEntryEach, HashesAreWritten
<1> QED BY <1>1, <1>2, <1>3, <1>4, <1>5, <1>6 DEF AuditNext

\* The chain is whole, and nobody loses an entry, whatever is appended at once and
\* nothing fails; an entry lives and dies with its change; and in a chain that
\* verifies stands what the application wrote, unless hashes were recomputed
\* (audit.service.ts recordAuditEvent, verifyAuditChain).
THEOREM AuditAlwaysHolds == AuditSpec => []AuditHolds
<1>1. AuditIInv => AuditHolds
  <2> SUFFICES ASSUME AuditIInv PROVE AuditHolds
    OBVIOUS
  <2>1. IntactIsWritten
    BY HashesShowWhatWasWritten DEF AuditIInv
  <2>2. LivesAndDiesWithTheChange
    BY DEF AuditIInv, SaidIsChanged, OneEntryEach, LivesAndDiesWithTheChange
  <2> QED BY <2>1, <2>2 DEF AuditIInv, AuditHolds
<1> QED BY <1>1, AuditStarts, AuditKeeps, PTL DEF AuditSpec

----------------------------------------------------------------------------
(***************************************************************************)
(* The demo election. The lock is its holder's, or lost; while nobody has  *)
(* lost it, no closing fills the urn between a reset's two transactions;   *)
(* and what a creation has written is told by how far it has come.         *)
(***************************************************************************)
LockIsHeld ==
    /\ \A c \in Closings : closing[c] \in ClosingRuns => lock = c \/ c \in lockless
    /\ \A r \in Resets : reset[r] \in {"votes", "voters"} => lock = r \/ r \in lockless

\* Nobody votes, closes, or takes back while a closing moves the envelopes.
ClosedWhileMoving ==
    lockless = {} => \A c \in Closings : closing[c] \in ClosingRuns \ {"close"} =>
        voters.phase \in {"CLOSED", "VALIDATED"}

EmptyBetweenTheDatabases ==
    lockless = {} => \A r \in Resets : reset[r] = "voters" => votes.urn = {}

\* Before it is created nothing goes on in an election.
NothingBeforeCreation ==
    creation # "created" =>
        /\ voters.phase = "OPEN" /\ votes.urn = {}
        /\ closing = [c \in Closings |-> "out"]
        /\ \A r \in Resets : reset[r] = "out"

RowsOfTheCreation ==
    /\ creation \in {"out", "key", "shares", "mirror"} => ~voters.row
    /\ creation \in {"key", "shares", "mirror", "created"} => votes.row
    /\ creation \in {"shares", "mirror", "created"} => votes.key
    /\ creation \in {"mirror", "created"} => votes.shares
    /\ creation = "created" => voters.row
    /\ creation \in {"undoVotes", "undoMirror"} => mishaps # 0
    /\ creation = "undoVotes" => ~voters.row
    /\ creation = "failed" => mishaps # 0 /\ (mishaps = 1 => ~voters.row)

ForgottenHadBegun == \A k \in forgotten : check[k] # "out"

OneRuns == \A j, k \in Checks : check[j] = "runs" /\ check[k] = "runs" => j = k

DemoIInv ==
    /\ DemoTypeOK /\ LockIsHeld /\ ClosedWhileMoving /\ OpenUrnIsEmpty
    /\ EmptyBetweenTheDatabases /\ NothingBeforeCreation /\ RowsOfTheCreation
    /\ ReportIsOfThisElection /\ ForgottenHadBegun /\ OneRuns

\* What the creation, its undoing and a reset write are rows.
LEMMA RowsAreRows ==
    /\ NoVotesRow \in VotesRows /\ NoVotersRow \in VotersRows
    /\ BackToOpen => voters' \in VotersRows
    /\ votes \in VotesRows /\ EmptyUrn => votes' \in VotesRows
    /\ \A stage \in CreationStages :
           votes \in VotesRows /\ voters \in VotersRows /\ Written(stage)
               => votes' \in VotesRows /\ voters' \in VotersRows
<1>1. NoVotesRow \in VotesRows /\ NoVotersRow \in VotersRows
    BY DEF NoVotesRow, NoVotersRow, VotesRows, VotersRows, Urns
<1>2. BackToOpen => voters' \in VotersRows
    BY DEF BackToOpen, NoVotersRow, VotersRows, Urns
<1>3. votes \in VotesRows /\ EmptyUrn => votes' \in VotesRows
    BY DEF EmptyUrn, VotesRows, Urns
<1>4. \A stage \in CreationStages :
           votes \in VotesRows /\ voters \in VotersRows /\ Written(stage)
               => votes' \in VotesRows /\ voters' \in VotersRows
    BY DEF Written, VotesRows, VotersRows
<1> QED BY <1>1, <1>2, <1>3, <1>4

LEMMA CreateStepKeeps ==
    ASSUME DemoIInv, CreateStep
    PROVE  DemoIInv'
<1>1. DemoTypeOK'
    BY RowsAreRows DEF CreateStep, StageAfter, DemoIInv, DemoTypeOK, CreationStages,
       processVars, closingVars, jobVars
<1>2. LockIsHeld' /\ ClosedWhileMoving'
    BY DEF CreateStep, Written, DemoIInv, LockIsHeld, ClosedWhileMoving,
       NothingBeforeCreation, processVars, closingVars, jobVars
<1>3. OpenUrnIsEmpty' /\ EmptyBetweenTheDatabases'
    BY DEF CreateStep, Written, DemoIInv, OpenUrnIsEmpty, EmptyBetweenTheDatabases,
       DemoTypeOK, VotesRows, NothingBeforeCreation, processVars, closingVars, jobVars
<1>4. NothingBeforeCreation'
    BY DEF CreateStep, Written, StageAfter, DemoIInv, NothingBeforeCreation, DemoTypeOK,
       VotesRows, processVars, closingVars, jobVars
<1>5. RowsOfTheCreation'
    BY DEF CreateStep, Written, StageAfter, DemoIInv, RowsOfTheCreation, DemoTypeOK,
       VotesRows, VotersRows, processVars, closingVars, jobVars
<1>6. ReportIsOfThisElection' /\ ForgottenHadBegun' /\ OneRuns'
    BY DEF CreateStep, DemoIInv, ReportIsOfThisElection, ForgottenHadBegun, OneRuns,
       processVars, closingVars, jobVars
<1> QED BY <1>1, <1>2, <1>3, <1>4, <1>5, <1>6 DEF DemoIInv

LEMMA CreateFailsKeeps ==
    ASSUME DemoIInv, CreateFails
    PROVE  DemoIInv'
<1>1. DemoTypeOK'
    BY RowsAreRows, DemoAssumption DEF CreateFails, StageAfter, Undo, Mishap, DemoIInv,
       DemoTypeOK,
       CreationStages, processVars, closingVars, jobVars
<1>2. LockIsHeld' /\ ClosedWhileMoving'
    BY DEF CreateFails, Written, DemoIInv, LockIsHeld, ClosedWhileMoving,
       NothingBeforeCreation, processVars, closingVars, jobVars
<1>3. OpenUrnIsEmpty' /\ EmptyBetweenTheDatabases'
    BY DEF CreateFails, Written, DemoIInv, OpenUrnIsEmpty, EmptyBetweenTheDatabases,
       DemoTypeOK, VotesRows, NothingBeforeCreation, processVars, closingVars, jobVars
<1>4. NothingBeforeCreation'
    BY DEF CreateFails, Written, StageAfter, DemoIInv, NothingBeforeCreation, DemoTypeOK,
       VotesRows, VotersRows, processVars, closingVars, jobVars
<1>5. RowsOfTheCreation'
    BY DEF CreateFails, Written, StageAfter, Undo, Mishap, DemoIInv, RowsOfTheCreation,
       DemoTypeOK, processVars, closingVars, jobVars
<1>6. ReportIsOfThisElection' /\ ForgottenHadBegun' /\ OneRuns'
    BY DEF CreateFails, DemoIInv, ReportIsOfThisElection, ForgottenHadBegun, OneRuns,
       processVars, closingVars, jobVars
<1> QED BY <1>1, <1>2, <1>3, <1>4, <1>5, <1>6 DEF DemoIInv

LEMMA CompensateKeeps ==
    ASSUME DemoIInv, Compensate
    PROVE  DemoIInv'
<1>1. DemoTypeOK'
    BY RowsAreRows DEF Compensate, DemoIInv, DemoTypeOK, CreationStages, processVars,
       closingVars, jobVars
<1>2. LockIsHeld' /\ ClosedWhileMoving'
    BY DEF Compensate, DemoIInv, LockIsHeld, ClosedWhileMoving, NothingBeforeCreation,
       processVars, closingVars, jobVars
<1>3. OpenUrnIsEmpty' /\ EmptyBetweenTheDatabases'
    BY DEF Compensate, DemoIInv, OpenUrnIsEmpty, EmptyBetweenTheDatabases,
       NothingBeforeCreation, NoVotesRow, processVars, closingVars, jobVars
<1>4. NothingBeforeCreation'
    BY DEF Compensate, DemoIInv, NothingBeforeCreation, NoVotesRow, NoVotersRow,
       processVars, closingVars, jobVars
<1>5. RowsOfTheCreation'
    BY DEF Compensate, DemoIInv, RowsOfTheCreation, NoVotersRow, processVars, closingVars, jobVars
<1>6. ReportIsOfThisElection' /\ ForgottenHadBegun' /\ OneRuns'
    BY DEF Compensate, DemoIInv, ReportIsOfThisElection, ForgottenHadBegun, OneRuns,
       processVars, closingVars, jobVars
<1> QED BY <1>1, <1>2, <1>3, <1>4, <1>5, <1>6 DEF DemoIInv

LEMMA CompensateFailsKeeps ==
    ASSUME DemoIInv, CompensateFails
    PROVE  DemoIInv'
<1>1. DemoTypeOK'
    BY RowsAreRows, DemoAssumption DEF CompensateFails, Mishap, DemoIInv, DemoTypeOK,
       CreationStages,
       processVars, closingVars, jobVars
<1>2. LockIsHeld' /\ ClosedWhileMoving'
    BY DEF CompensateFails, DemoIInv, LockIsHeld, ClosedWhileMoving, NothingBeforeCreation,
       processVars, closingVars, jobVars
<1>3. OpenUrnIsEmpty' /\ EmptyBetweenTheDatabases'
    BY DEF CompensateFails, DemoIInv, OpenUrnIsEmpty, EmptyBetweenTheDatabases,
       NothingBeforeCreation, processVars, closingVars, jobVars
<1>4. NothingBeforeCreation'
    BY DEF CompensateFails, DemoIInv, NothingBeforeCreation, NoVotersRow, processVars,
       closingVars, jobVars
<1>5. RowsOfTheCreation'
    BY DEF CompensateFails, Mishap, DemoIInv, RowsOfTheCreation, DemoTypeOK, processVars,
       closingVars, jobVars
<1>6. ReportIsOfThisElection' /\ ForgottenHadBegun' /\ OneRuns'
    BY DEF CompensateFails, DemoIInv, ReportIsOfThisElection, ForgottenHadBegun, OneRuns,
       processVars, closingVars, jobVars
<1> QED BY <1>1, <1>2, <1>3, <1>4, <1>5, <1>6 DEF DemoIInv

LEMMA CastKeeps ==
    ASSUME DemoIInv, NEW e \in Envelopes, Cast(e)
    PROVE  DemoIInv'
<1>1. DemoTypeOK'
    BY DEF Cast, DemoIInv, DemoTypeOK, VotersRows, Urns, processVars, closingVars, jobVars
<1>2. LockIsHeld' /\ ClosedWhileMoving'
    BY DEF Cast, DemoIInv, LockIsHeld, ClosedWhileMoving, processVars, closingVars, jobVars
<1>3. OpenUrnIsEmpty' /\ EmptyBetweenTheDatabases'
    BY DEF Cast, DemoIInv, OpenUrnIsEmpty, EmptyBetweenTheDatabases, processVars, closingVars,
       jobVars
<1>4. NothingBeforeCreation'
    BY DEF Cast, DemoIInv, NothingBeforeCreation, processVars, closingVars, jobVars
<1>5. RowsOfTheCreation'
    BY DEF Cast, DemoIInv, RowsOfTheCreation, processVars, closingVars, jobVars
<1>6. ReportIsOfThisElection' /\ ForgottenHadBegun' /\ OneRuns'
    BY DEF Cast, DemoIInv, ReportIsOfThisElection, ForgottenHadBegun, OneRuns, processVars,
       closingVars, jobVars
<1> QED BY <1>1, <1>2, <1>3, <1>4, <1>5, <1>6 DEF DemoIInv

\* A closing's step leaves the creation, the resets and the checks alone.
LEMMA ClosingKeepsOthers ==
    ASSUME DemoIInv, NEW c \in Closings, creation = "created", KeepOthers,
           votes' \in VotesRows, votes' = [votes EXCEPT !.urn = votes'.urn],
           voters' \in VotersRows, voters'.row = voters.row
    PROVE  /\ NothingBeforeCreation' /\ RowsOfTheCreation'
           /\ ReportIsOfThisElection' /\ ForgottenHadBegun' /\ OneRuns'
<1>1. NothingBeforeCreation'
    BY DEF KeepOthers, NothingBeforeCreation
<1>2. /\ votes'.row = votes.row /\ votes'.key = votes.key /\ votes'.shares = votes.shares
    BY DEF DemoIInv, DemoTypeOK, VotesRows
<1>3. RowsOfTheCreation'
    BY <1>2 DEF KeepOthers, DemoIInv, RowsOfTheCreation
<1>4. ReportIsOfThisElection' /\ ForgottenHadBegun' /\ OneRuns'
    BY DEF KeepOthers, jobVars, DemoIInv, ReportIsOfThisElection, ForgottenHadBegun, OneRuns
<1> QED BY <1>1, <1>3, <1>4

\* Whoever runs without the lock has lost it, and the steps of the others are out of
\* its way while nobody has.
LEMMA ClosingMoves ==
    ASSUME DemoIInv, NEW c \in Closings, NEW step \in ClosingRuns,
           NEW next \in ClosingRuns \cup {"ended"}, GoesOn(c, step, next), KeepOthers,
           moved' \in [Closings -> Urns],
           votes' \in VotesRows, votes' = [votes EXCEPT !.urn = votes'.urn],
           voters' \in VotersRows, voters'.row = voters.row,
           \/ lock' = lock
           \/ next = "ended" /\ lock' = (IF lock = c THEN Absent ELSE lock),
           \/ voters' = voters
           \/ voters'.phase \in {"CLOSED", "VALIDATED"}
           \/ next = "ended" /\ lock = c /\ voters'.phase = "LINK_CLEARED",
           \/ next \notin ClosingRuns \/ step # "close"
           \/ voters'.phase \in {"CLOSED", "VALIDATED"},
           \/ votes'.urn \subseteq votes.urn
           \/ step # "close" /\ voters' = voters
    PROVE  DemoIInv'
<1> USE DemoAssumption
<1>1. /\ closing[c] = step /\ closing'[c] = next /\ "ended" \notin ClosingRuns
      /\ "out" \notin ClosingRuns
      /\ \A d \in Closings \ {c} : closing'[d] = closing[d]
      /\ UNCHANGED <<creation, lockless, reset, count, urnRead, job, check, forgotten, mishaps>>
    BY DEF GoesOn, KeepOthers, jobVars, DemoIInv, DemoTypeOK, ClosingRuns
<1>2. creation = "created"
    BY <1>1 DEF DemoIInv, NothingBeforeCreation
<1>3. lock' \in Resets \cup Closings \cup {Absent}
    BY DEF DemoIInv, DemoTypeOK
<1>4. DemoTypeOK'
    BY <1>1, <1>3 DEF GoesOn, DemoIInv, DemoTypeOK
<1>5. LockIsHeld'
    BY <1>1 DEF DemoIInv, DemoTypeOK, LockIsHeld
<1>6. lockless = {} =>
        /\ lock = c
        /\ \A d \in Closings \ {c} : closing[d] \notin ClosingRuns
        /\ \A r \in Resets : reset[r] \notin {"votes", "voters"}
    BY <1>1 DEF DemoIInv, LockIsHeld
<1>7. ClosedWhileMoving'
    BY <1>1, <1>6 DEF DemoIInv, ClosedWhileMoving
<1>8. EmptyBetweenTheDatabases'
    BY <1>1, <1>6 DEF EmptyBetweenTheDatabases
<1>9. OpenUrnIsEmpty'
  <2> SUFFICES ASSUME voters'.phase = "OPEN", lockless = {}
               PROVE  votes'.urn = {}
    BY <1>1 DEF OpenUrnIsEmpty
  <2>1. voters' = voters /\ votes.urn = {}
    BY DEF DemoIInv, OpenUrnIsEmpty
  <2>2. step = "close" \/ voters.phase # "OPEN"
    BY <1>1 DEF DemoIInv, ClosedWhileMoving
  <2> QED BY <2>1, <2>2
<1> QED BY <1>2, <1>4, <1>5, <1>7, <1>8, <1>9, ClosingKeepsOthers DEF DemoIInv

LEMMA AskClosingKeeps ==
    ASSUME DemoIInv, NEW c \in Closings, AskClosing(c)
    PROVE  DemoIInv'
<1> USE DemoAssumption
<1>1. /\ creation = "created" /\ closing[c] = "out"
      /\ UNCHANGED <<votes, voters, moved>> /\ KeepOthers
      /\ UNCHANGED <<creation, lockless, reset, count, urnRead, job, check, forgotten, mishaps>>
      /\ \/ lock = Absent /\ lock' = c /\ closing' = [closing EXCEPT ![c] = "close"]
         \/ lock' = lock /\ closing' = [closing EXCEPT ![c] = "ended"]
    BY DEF AskClosing, GoesOn, KeepOthers, jobVars
<1>2. "ended" \notin ClosingRuns /\ "close" \in ClosingRuns
    BY DEF ClosingRuns
<1>3. DemoTypeOK'
    BY <1>1, <1>2 DEF DemoIInv, DemoTypeOK
<1>4. /\ \A d \in Closings \ {c} : closing'[d] = closing[d]
      /\ \/ lock = Absent /\ lock' = c /\ closing'[c] = "close"
         \/ lock' = lock /\ closing'[c] = "ended"
    BY <1>1 DEF DemoIInv, DemoTypeOK
<1>5. LockIsHeld' /\ ClosedWhileMoving'
    BY <1>1, <1>2, <1>4 DEF DemoIInv, LockIsHeld, ClosedWhileMoving
<1>6. OpenUrnIsEmpty' /\ EmptyBetweenTheDatabases'
    BY <1>1 DEF DemoIInv, OpenUrnIsEmpty, EmptyBetweenTheDatabases
<1>7. /\ NothingBeforeCreation' /\ RowsOfTheCreation'
      /\ ReportIsOfThisElection' /\ ForgottenHadBegun' /\ OneRuns'
    BY <1>1 DEF DemoIInv, NothingBeforeCreation, RowsOfTheCreation, ReportIsOfThisElection,
                ForgottenHadBegun, OneRuns
<1> QED BY <1>3, <1>5, <1>6, <1>7 DEF DemoIInv

LEMMA ClosingStepKeeps ==
    ASSUME DemoIInv, NEW c \in Closings, ClosingStep(c)
    PROVE  DemoIInv'
<1>1. /\ votes \in VotesRows /\ voters \in VotersRows /\ moved \in [Closings -> Urns]
      /\ votes = [votes EXCEPT !.urn = votes.urn]
    BY DEF DemoIInv, DemoTypeOK, VotesRows
<1>2. CASE CloseVoting(c)
  <2>1. /\ voters' \in VotersRows /\ voters'.row = voters.row
        /\ voters'.phase \in {"CLOSED", "VALIDATED"}
    BY <1>1, <1>2 DEF CloseVoting, Unstripped, VotersRows
  <2> QED BY <1>1, <1>2, <2>1, ClosingMoves DEF CloseVoting, ClosingRuns
<1>3. CASE ReadEnvelopes(c)
  <2>1. moved' \in [Closings -> Urns]
    BY <1>1, <1>3 DEF ReadEnvelopes, VotersRows
  <2> QED BY <1>1, <1>3, <2>1, ClosingMoves DEF ReadEnvelopes, ClosingRuns
<1>4. CASE StillHeld(c)
  <2>1. PICK step \in ClosingRuns \ {"close"}, next \in ClosingRuns : GoesOn(c, step, next)
    BY <1>4 DEF StillHeld, ClosingRuns
  <2> QED BY <1>1, <1>4, <2>1, ClosingMoves DEF StillHeld
<1>5. CASE CasValidated(c)
  <2>1. /\ voters' \in VotersRows /\ voters'.row = voters.row /\ voters'.phase = "VALIDATED"
    BY <1>1, <1>5 DEF CasValidated, VotersRows
  <2> QED BY <1>1, <1>5, <2>1, ClosingMoves DEF CasValidated, ClosingRuns
<1>6. CASE FindLeftovers(c)
  <2>1. PICK next \in ClosingRuns : GoesOn(c, "find", next)
    BY <1>6 DEF FindLeftovers, ClosingRuns
  <2> QED BY <1>1, <1>6, <2>1, ClosingMoves DEF FindLeftovers, ClosingRuns
<1>7. CASE RemoveLeftovers(c)
  <2>1. PICK gone \in SUBSET (votes.urn \ moved[c]) :
            /\ votes' = [votes EXCEPT !.urn = votes.urn \ gone]
            /\ GoesOn(c, "remove", IF gone = {} THEN "insert" ELSE "removed")
    BY <1>7 DEF RemoveLeftovers
  <2>2. PICK next \in ClosingRuns : GoesOn(c, "remove", next)
    BY <2>1 DEF ClosingRuns
  <2>3. /\ votes' \in VotesRows /\ votes'.urn \subseteq votes.urn
        /\ votes' = [votes EXCEPT !.urn = votes'.urn]
    BY <1>1, <2>1 DEF VotesRows, Urns
  <2> QED BY <1>1, <1>7, <2>2, <2>3, ClosingMoves DEF RemoveLeftovers, ClosingRuns
<1>8. CASE StillValidated(c)
    BY <1>1, <1>8, ClosingMoves DEF StillValidated, ClosingRuns
<1>9. CASE MoveToUrn(c)
  <2>1. moved[c] \subseteq Envelopes
    BY <1>1 DEF Urns
  <2>2. /\ votes' \in VotesRows /\ votes' = [votes EXCEPT !.urn = votes'.urn]
    BY <1>1, <1>9, <2>1 DEF MoveToUrn, VotesRows, Urns
  <2> QED BY <1>1, <1>9, <2>2, ClosingMoves DEF MoveToUrn, ClosingRuns
<1>10. CASE CompareUrn(c)
    BY <1>1, <1>10, ClosingMoves DEF CompareUrn, ClosingRuns
<1>11. CASE StripEnvelopes(c)
  <2>1. moved[c] \in Urns
    BY <1>1
  <2>2. /\ voters' \in VotersRows /\ voters'.row = voters.row
        /\ voters'.phase = "LINK_CLEARED"
    BY <1>1, <1>11, <2>1 DEF StripEnvelopes, VotersRows, Urns
  <2> QED BY <1>1, <1>11, <2>2, ClosingMoves DEF StripEnvelopes, ClosingRuns
<1>12. CASE StopClosing(c)
  <2>1. "ended" \notin ClosingRuns
    BY DEF ClosingRuns
  <2> QED BY <1>1, <1>12, <2>1, ClosingMoves DEF StopClosing, LeaveLock
<1> QED BY AskClosingKeeps, <1>2, <1>3, <1>4, <1>5, <1>6, <1>7, <1>8, <1>9, <1>10, <1>11, <1>12
        DEF ClosingStep

LEMMA PassGateKeeps ==
    ASSUME DemoIInv, NEW t \in Counts, PassGate(t)
    PROVE  DemoIInv'
<1>1. DemoTypeOK'
    BY DEF PassGate, DemoIInv, DemoTypeOK, VotesRows, closingVars, jobVars
<1>2. LockIsHeld' /\ ClosedWhileMoving'
    BY DEF PassGate, DemoIInv, LockIsHeld, ClosedWhileMoving, closingVars, jobVars
<1>3. OpenUrnIsEmpty' /\ EmptyBetweenTheDatabases'
    BY DEF PassGate, DemoIInv, OpenUrnIsEmpty, EmptyBetweenTheDatabases, closingVars, jobVars
<1>4. NothingBeforeCreation'
    BY DEF PassGate, DemoIInv, NothingBeforeCreation, closingVars, jobVars
<1>5. RowsOfTheCreation'
    BY DEF PassGate, DemoIInv, RowsOfTheCreation, closingVars, jobVars
<1>6. ReportIsOfThisElection' /\ ForgottenHadBegun' /\ OneRuns'
    BY DEF PassGate, DemoIInv, ReportIsOfThisElection, ForgottenHadBegun, OneRuns, closingVars,
       jobVars
<1> QED BY <1>1, <1>2, <1>3, <1>4, <1>5, <1>6 DEF DemoIInv

LEMMA StoreContributionKeeps ==
    ASSUME DemoIInv, NEW t \in Counts, StoreContribution(t)
    PROVE  DemoIInv'
<1>1. DemoTypeOK'
    BY DEF StoreContribution, DemoIInv, DemoTypeOK, VotesRows, closingVars, jobVars
<1>2. LockIsHeld' /\ ClosedWhileMoving'
    BY DEF StoreContribution, DemoIInv, LockIsHeld, ClosedWhileMoving, closingVars, jobVars
<1>3. OpenUrnIsEmpty' /\ EmptyBetweenTheDatabases'
    BY DEF StoreContribution, DemoIInv, OpenUrnIsEmpty, EmptyBetweenTheDatabases, closingVars,
       jobVars
<1>4. NothingBeforeCreation'
    BY DEF StoreContribution, DemoIInv, NothingBeforeCreation, closingVars, jobVars
<1>5. RowsOfTheCreation'
    BY DEF StoreContribution, DemoIInv, RowsOfTheCreation, closingVars, jobVars
<1>6. ReportIsOfThisElection' /\ ForgottenHadBegun' /\ OneRuns'
    BY DEF StoreContribution, DemoIInv, ReportIsOfThisElection, ForgottenHadBegun, OneRuns,
       closingVars, jobVars
<1> QED BY <1>1, <1>2, <1>3, <1>4, <1>5, <1>6 DEF DemoIInv

LEMMA SaveCountersKeeps ==
    ASSUME DemoIInv, NEW t \in Counts, SaveCounters(t)
    PROVE  DemoIInv'
<1>1. DemoTypeOK'
    BY DEF SaveCounters, DemoIInv, DemoTypeOK, VotesRows, closingVars, jobVars
<1>2. LockIsHeld' /\ ClosedWhileMoving'
    BY DEF SaveCounters, DemoIInv, LockIsHeld, ClosedWhileMoving, closingVars, jobVars
<1>3. OpenUrnIsEmpty' /\ EmptyBetweenTheDatabases'
    BY DEF SaveCounters, DemoIInv, OpenUrnIsEmpty, EmptyBetweenTheDatabases, DemoTypeOK,
       VotesRows, closingVars, jobVars
<1>4. NothingBeforeCreation'
    BY DEF SaveCounters, DemoIInv, NothingBeforeCreation, DemoTypeOK, VotesRows, closingVars,
       jobVars
<1>5. RowsOfTheCreation'
    BY DEF SaveCounters, DemoIInv, RowsOfTheCreation, DemoTypeOK, VotesRows, closingVars, jobVars
<1>6. ReportIsOfThisElection' /\ ForgottenHadBegun' /\ OneRuns'
    BY DEF SaveCounters, DemoIInv, ReportIsOfThisElection, ForgottenHadBegun, OneRuns,
       closingVars, jobVars
<1> QED BY <1>1, <1>2, <1>3, <1>4, <1>5, <1>6 DEF DemoIInv

LEMMA SettlePhaseKeeps ==
    ASSUME DemoIInv, NEW t \in Counts, SettlePhase(t)
    PROVE  DemoIInv'
<1>1. DemoTypeOK'
    BY DEF SettlePhase, DemoIInv, DemoTypeOK, VotersRows, closingVars, jobVars
<1>2. LockIsHeld' /\ ClosedWhileMoving'
    BY DEF SettlePhase, DemoIInv, LockIsHeld, ClosedWhileMoving, closingVars, jobVars
<1>3. OpenUrnIsEmpty' /\ EmptyBetweenTheDatabases'
    BY DEF SettlePhase, DemoIInv, OpenUrnIsEmpty, EmptyBetweenTheDatabases, closingVars, jobVars
<1>4. NothingBeforeCreation'
    BY DEF SettlePhase, DemoIInv, NothingBeforeCreation, closingVars, jobVars
<1>5. RowsOfTheCreation'
    BY DEF SettlePhase, DemoIInv, RowsOfTheCreation, closingVars, jobVars
<1>6. ReportIsOfThisElection' /\ ForgottenHadBegun' /\ OneRuns'
    BY DEF SettlePhase, DemoIInv, ReportIsOfThisElection, ForgottenHadBegun, OneRuns,
       closingVars, jobVars
<1> QED BY <1>1, <1>2, <1>3, <1>4, <1>5, <1>6 DEF DemoIInv

LEMMA AskResetKeeps ==
    ASSUME DemoIInv, NEW r \in Resets, AskReset(r)
    PROVE  DemoIInv'
<1>1. DemoTypeOK'
    BY DEF AskReset, TakesLock, DemoIInv, DemoTypeOK, closingVars, jobVars
<1>2. LockIsHeld' /\ ClosedWhileMoving'
    BY DemoAssumption DEF AskReset, TakesLock, DemoIInv, LockIsHeld, ClosedWhileMoving,
       DemoTypeOK, closingVars, jobVars
<1>3. OpenUrnIsEmpty' /\ EmptyBetweenTheDatabases'
    BY DEF AskReset, DemoIInv, OpenUrnIsEmpty, EmptyBetweenTheDatabases, DemoTypeOK,
       closingVars, jobVars
<1>4. NothingBeforeCreation'
    BY DEF AskReset, DemoIInv, NothingBeforeCreation, closingVars, jobVars
<1>5. RowsOfTheCreation'
    BY DEF AskReset, DemoIInv, RowsOfTheCreation, closingVars, jobVars
<1>6. ReportIsOfThisElection' /\ ForgottenHadBegun' /\ OneRuns'
    BY DEF AskReset, DemoIInv, ReportIsOfThisElection, ForgottenHadBegun, OneRuns, closingVars,
       jobVars
<1> QED BY <1>1, <1>2, <1>3, <1>4, <1>5, <1>6 DEF DemoIInv

LEMMA ClearVotesKeeps ==
    ASSUME DemoIInv, NEW r \in Resets, ClearVotes(r)
    PROVE  DemoIInv'
<1>1. EmptyUrn /\ voters' = voters
    BY DEF ClearVotes, Clears, EmptyUrn
<1>2. DemoTypeOK'
    BY <1>1, RowsAreRows DEF ClearVotes, DemoIInv, DemoTypeOK, closingVars, jobVars
<1>3. LockIsHeld' /\ ClosedWhileMoving'
    BY DEF ClearVotes, Clears, EmptyUrn, DemoIInv, LockIsHeld, ClosedWhileMoving, closingVars,
       jobVars
<1>4. OpenUrnIsEmpty' /\ EmptyBetweenTheDatabases'
    BY DEF ClearVotes, Clears, EmptyUrn, DemoIInv, OpenUrnIsEmpty, EmptyBetweenTheDatabases,
       DemoTypeOK, VotesRows, closingVars, jobVars
<1>5. NothingBeforeCreation'
    BY DEF ClearVotes, DemoIInv, NothingBeforeCreation, closingVars, jobVars
<1>6. RowsOfTheCreation'
    BY DEF ClearVotes, Clears, EmptyUrn, DemoIInv, RowsOfTheCreation, DemoTypeOK, VotesRows,
       closingVars, jobVars
<1>7. ReportIsOfThisElection' /\ ForgottenHadBegun' /\ OneRuns'
    BY DEF ClearVotes, DemoIInv, ReportIsOfThisElection, ForgottenHadBegun, OneRuns,
       closingVars, jobVars
<1> QED BY <1>2, <1>3, <1>4, <1>5, <1>6, <1>7 DEF DemoIInv

LEMMA ClearVotersKeeps ==
    ASSUME DemoIInv, NEW r \in Resets, ClearVoters(r)
    PROVE  DemoIInv'
<1>1. BackToOpen /\ votes' = votes
    BY DEF ClearVoters, LeaveLock, Clears, BackToOpen
<1>2. DemoTypeOK'
    BY <1>1, RowsAreRows DEF ClearVoters, LeaveLock, DemoIInv, DemoTypeOK, closingVars, jobVars
<1>3. LockIsHeld' /\ ClosedWhileMoving'
    BY DemoAssumption DEF ClearVoters, LeaveLock, DemoIInv, LockIsHeld, ClosedWhileMoving,
       DemoTypeOK, closingVars, jobVars
<1>4. OpenUrnIsEmpty' /\ EmptyBetweenTheDatabases'
    BY DEF ClearVoters, LeaveLock, Clears, BackToOpen, DemoIInv, OpenUrnIsEmpty,
       EmptyBetweenTheDatabases, closingVars, jobVars
<1>5. NothingBeforeCreation'
    BY DEF ClearVoters, LeaveLock, DemoIInv, NothingBeforeCreation, closingVars, jobVars
<1>6. RowsOfTheCreation'
    BY <1>1 DEF ClearVoters, LeaveLock, BackToOpen, NoVotersRow, DemoIInv, DemoTypeOK,
       RowsOfTheCreation,
       NothingBeforeCreation
<1>7. ReportIsOfThisElection' /\ ForgottenHadBegun' /\ OneRuns'
    BY DEF ClearVoters, LeaveLock, DemoIInv, ReportIsOfThisElection, ForgottenHadBegun,
       OneRuns, closingVars, jobVars
<1> QED BY <1>2, <1>3, <1>4, <1>5, <1>6, <1>7 DEF DemoIInv

LEMMA ForgetFinalCheckKeeps ==
    ASSUME DemoIInv, NEW r \in Resets, ForgetFinalCheck(r)
    PROVE  DemoIInv'
<1>1. DemoTypeOK'
    BY DEF ForgetFinalCheck, closingVars, DemoIInv, DemoTypeOK, NoJob
<1>2. LockIsHeld' /\ ClosedWhileMoving'
    BY DEF ForgetFinalCheck, closingVars, DemoIInv, LockIsHeld, ClosedWhileMoving
<1>3. OpenUrnIsEmpty' /\ EmptyBetweenTheDatabases'
    BY DEF ForgetFinalCheck, closingVars, DemoIInv, OpenUrnIsEmpty, EmptyBetweenTheDatabases
<1>4. NothingBeforeCreation'
    BY DEF ForgetFinalCheck, closingVars, DemoIInv, NothingBeforeCreation
<1>5. RowsOfTheCreation'
    BY DEF ForgetFinalCheck, closingVars, DemoIInv, RowsOfTheCreation
<1>6. ReportIsOfThisElection' /\ ForgottenHadBegun' /\ OneRuns'
    BY DemoAssumption DEF ForgetFinalCheck, closingVars, DemoIInv, ReportIsOfThisElection,
       ForgottenHadBegun, OneRuns, NoJob
<1> QED BY <1>1, <1>2, <1>3, <1>4, <1>5, <1>6 DEF DemoIInv

LEMMA ResetFailsKeeps ==
    ASSUME DemoIInv, NEW r \in Resets, ResetFails(r)
    PROVE  DemoIInv'
<1>1. DemoTypeOK'
    BY DemoAssumption DEF ResetFails, LeaveLock, Mishap, DemoIInv, DemoTypeOK, closingVars,
       jobVars
<1>2. LockIsHeld' /\ ClosedWhileMoving'
    BY DemoAssumption DEF ResetFails, LeaveLock, DemoIInv, LockIsHeld, ClosedWhileMoving,
       DemoTypeOK, closingVars, jobVars
<1>3. OpenUrnIsEmpty' /\ EmptyBetweenTheDatabases'
    BY DEF ResetFails, LeaveLock, DemoIInv, OpenUrnIsEmpty, EmptyBetweenTheDatabases,
       closingVars, jobVars
<1>4. NothingBeforeCreation'
    BY DEF ResetFails, LeaveLock, DemoIInv, NothingBeforeCreation, closingVars, jobVars
<1>5. RowsOfTheCreation'
    BY DEF ResetFails, LeaveLock, Mishap, DemoIInv, RowsOfTheCreation, DemoTypeOK, closingVars,
       jobVars
<1>6. ReportIsOfThisElection' /\ ForgottenHadBegun' /\ OneRuns'
    BY DEF ResetFails, LeaveLock, DemoIInv, ReportIsOfThisElection, ForgottenHadBegun, OneRuns,
       closingVars, jobVars
<1> QED BY <1>1, <1>2, <1>3, <1>4, <1>5, <1>6 DEF DemoIInv

LEMMA StartFinalCheckKeeps ==
    ASSUME DemoIInv, NEW k \in Checks, StartFinalCheck(k)
    PROVE  DemoIInv'
<1>1. DemoTypeOK'
    BY DEF StartFinalCheck, DemoIInv, DemoTypeOK, creationVars, processVars, closingVars
<1>2. LockIsHeld' /\ ClosedWhileMoving'
    BY DEF StartFinalCheck, DemoIInv, LockIsHeld, ClosedWhileMoving, creationVars, processVars,
       closingVars
<1>3. OpenUrnIsEmpty' /\ EmptyBetweenTheDatabases'
    BY DEF StartFinalCheck, DemoIInv, OpenUrnIsEmpty, EmptyBetweenTheDatabases,
       creationVars, processVars, closingVars
<1>4. NothingBeforeCreation'
    BY DEF StartFinalCheck, DemoIInv, NothingBeforeCreation, creationVars, processVars,
       closingVars
<1>5. RowsOfTheCreation'
    BY DEF StartFinalCheck, DemoIInv, RowsOfTheCreation, creationVars, processVars, closingVars
<1>6. ReportIsOfThisElection' /\ ForgottenHadBegun' /\ OneRuns'
    BY DEF StartFinalCheck, IsRunning, Active, DemoIInv, ReportIsOfThisElection,
       ForgottenHadBegun, OneRuns, creationVars, processVars, closingVars
<1> QED BY <1>1, <1>2, <1>3, <1>4, <1>5, <1>6 DEF DemoIInv

LEMMA FinalCheckEndsKeeps ==
    ASSUME DemoIInv, NEW k \in Checks, FinalCheckEnds(k)
    PROVE  DemoIInv'
<1>1. DemoTypeOK'
    BY DEF FinalCheckEnds, DemoIInv, DemoTypeOK, creationVars, processVars, closingVars
<1>2. LockIsHeld' /\ ClosedWhileMoving'
    BY DEF FinalCheckEnds, DemoIInv, LockIsHeld, ClosedWhileMoving, creationVars, processVars,
       closingVars
<1>3. OpenUrnIsEmpty' /\ EmptyBetweenTheDatabases'
    BY DEF FinalCheckEnds, DemoIInv, OpenUrnIsEmpty, EmptyBetweenTheDatabases, creationVars,
       processVars, closingVars
<1>4. NothingBeforeCreation'
    BY DEF FinalCheckEnds, DemoIInv, NothingBeforeCreation, creationVars, processVars, closingVars
<1>5. RowsOfTheCreation'
    BY DEF FinalCheckEnds, DemoIInv, RowsOfTheCreation, creationVars, processVars, closingVars
<1>6. ReportIsOfThisElection' /\ ForgottenHadBegun' /\ OneRuns'
    BY DEF FinalCheckEnds, IsStillTheJob, DemoIInv, ReportIsOfThisElection,
       ForgottenHadBegun, OneRuns, creationVars, processVars, closingVars
<1> QED BY <1>1, <1>2, <1>3, <1>4, <1>5, <1>6 DEF DemoIInv

\* Whoever has lost the lock runs on, and what was sure of its holder is no longer.
LEMMA LoseLockKeeps ==
    ASSUME DemoIInv, LoseLock
    PROVE  DemoIInv'
<1>1. /\ mishaps \in Nat /\ mishaps' = mishaps + 1 /\ mishaps' \in 0..MaxMishaps
      /\ UNCHANGED <<creation, votes, voters, reset, closing, moved, count, urnRead, job, check,
                    forgotten>>
      /\ lock' = Absent /\ lock \in lockless' /\ lockless \subseteq lockless'
      /\ lockless' \subseteq Resets \cup Closings
    BY DemoAssumption DEF LoseLock, Mishap, creationVars, closingVars, jobVars, DemoIInv,
       DemoTypeOK
<1>2. DemoTypeOK'
    BY <1>1 DEF DemoIInv, DemoTypeOK
<1>3. LockIsHeld' /\ ClosedWhileMoving'
    BY <1>1 DEF DemoIInv, LockIsHeld, ClosedWhileMoving
<1>4. OpenUrnIsEmpty' /\ EmptyBetweenTheDatabases'
    BY <1>1 DEF OpenUrnIsEmpty, EmptyBetweenTheDatabases
<1>5. NothingBeforeCreation'
    BY <1>1 DEF DemoIInv, NothingBeforeCreation
<1>6. RowsOfTheCreation'
    BY <1>1 DEF DemoIInv, RowsOfTheCreation
<1>7. ReportIsOfThisElection' /\ ForgottenHadBegun' /\ OneRuns'
    BY <1>1 DEF DemoIInv, ReportIsOfThisElection, ForgottenHadBegun, OneRuns
<1> QED BY <1>2, <1>3, <1>4, <1>5, <1>6, <1>7 DEF DemoIInv

LEMMA ServerCrashKeeps ==
    ASSUME DemoIInv, ServerCrash
    PROVE  DemoIInv'
<1>1. mishaps \in Nat /\ mishaps' = mishaps + 1
    BY DemoAssumption DEF ServerCrash, Mishap, DemoIInv, DemoTypeOK
<1>2. DemoTypeOK'
    BY DemoAssumption DEF ServerCrash, Mishap, DemoIInv, DemoTypeOK, CreationStages, NoJob
<1>3. LockIsHeld' /\ ClosedWhileMoving'
    BY DEF ServerCrash, ClosingRuns, DemoIInv, LockIsHeld, ClosedWhileMoving
<1>4. OpenUrnIsEmpty' /\ EmptyBetweenTheDatabases'
    BY DEF ServerCrash, DemoIInv, OpenUrnIsEmpty, EmptyBetweenTheDatabases
<1>5. NothingBeforeCreation'
    BY DEF ServerCrash, DemoIInv, NothingBeforeCreation
<1>6. RowsOfTheCreation'
    BY <1>1 DEF ServerCrash, DemoIInv, DemoTypeOK, CreationStages, RowsOfTheCreation
<1>7. ReportIsOfThisElection' /\ ForgottenHadBegun' /\ OneRuns'
    BY DemoAssumption DEF ServerCrash, DemoIInv, ReportIsOfThisElection, ForgottenHadBegun,
       OneRuns, DemoTypeOK, NoJob
<1> QED BY <1>2, <1>3, <1>4, <1>5, <1>6, <1>7 DEF DemoIInv

\* The first state is one of the invariant.
LEMMA DemoStarts ==
    ASSUME DemoInit
    PROVE  DemoIInv
<1>1. DemoTypeOK
    BY RowsAreRows, DemoAssumption DEF DemoInit, DemoTypeOK, CreationStages, NoJob, Urns
<1>2. LockIsHeld /\ ClosedWhileMoving /\ EmptyBetweenTheDatabases
    BY DEF DemoInit, ClosingRuns, LockIsHeld, ClosedWhileMoving, EmptyBetweenTheDatabases
<1>3. OpenUrnIsEmpty /\ NothingBeforeCreation /\ RowsOfTheCreation
    BY DEF DemoInit, OpenUrnIsEmpty, NothingBeforeCreation, RowsOfTheCreation, NoVotesRow,
           NoVotersRow
<1>4. ReportIsOfThisElection /\ ForgottenHadBegun /\ OneRuns
    BY DEF DemoInit, ReportIsOfThisElection, ForgottenHadBegun, OneRuns
<1> QED BY <1>1, <1>2, <1>3, <1>4 DEF DemoIInv

\* Every step keeps the invariant.
LEMMA DemoKeeps ==
    ASSUME DemoIInv, [DemoNext]_demoVars
    PROVE  DemoIInv'
<1>1. ASSUME DemoNext PROVE DemoIInv'
  <2>1. CASE CreateStep \/ CreateFails \/ Compensate \/ CompensateFails
      BY <2>1, CreateStepKeeps, CreateFailsKeeps, CompensateKeeps, CompensateFailsKeeps
  <2>2. CASE \E e \in Envelopes : Cast(e)
      BY <2>2, CastKeeps
  <2>3. CASE \E c \in Closings : ClosingStep(c)
      BY <2>3, ClosingStepKeeps
  <2>4. CASE \E t \in Counts :
                 PassGate(t) \/ StoreContribution(t) \/ SaveCounters(t) \/ SettlePhase(t)
      BY <2>4, PassGateKeeps, StoreContributionKeeps, SaveCountersKeeps, SettlePhaseKeeps
  <2>5. CASE \E r \in Resets : AskReset(r) \/ ResetStep(r) \/ ResetFails(r)
      BY <2>5, AskResetKeeps, ClearVotesKeeps, ClearVotersKeeps, ForgetFinalCheckKeeps,
         ResetFailsKeeps DEF ResetStep
  <2>6. CASE \E k \in Checks : StartFinalCheck(k) \/ FinalCheckEnds(k)
      BY <2>6, StartFinalCheckKeeps, FinalCheckEndsKeeps
  <2>7. CASE LoseLock \/ ServerCrash
      BY <2>7, LoseLockKeeps, ServerCrashKeeps
  <2> QED BY <1>1, <2>1, <2>2, <2>3, <2>4, <2>5, <2>6, <2>7 DEF DemoNext
<1>2. ASSUME UNCHANGED demoVars PROVE DemoIInv'
    BY <1>2 DEF demoVars, DemoIInv, DemoTypeOK, LockIsHeld, ClosedWhileMoving, OpenUrnIsEmpty,
           EmptyBetweenTheDatabases, NothingBeforeCreation, RowsOfTheCreation,
           ReportIsOfThisElection, ForgottenHadBegun, OneRuns
<1> QED BY <1>1, <1>2

\* Of checks of which one runs at most there is one at most.
LEMMA OneRunsIsOne ==
    ASSUME OneRuns
    PROVE  OneCheckAtATime
<1>1. CASE Active = {}
    BY <1>1, FS_EmptySet DEF OneCheckAtATime
<1>2. CASE Active # {}
  <2>1. PICK k \in Active : TRUE
      BY <1>2
  <2>2. Active = {k}
      BY <2>1 DEF Active, OneRuns
  <2>3. Cardinality(Active) = 1
      BY <2>2, FS_Singleton
  <2> QED BY <2>3 DEF OneCheckAtATime
<1> QED BY <1>1, <1>2

\* The invariant says what is to be shown.
LEMMA DemoImplies ==
    ASSUME DemoIInv
    PROVE  DemoHolds
<1>1. OneCheckAtATime
    BY OneRunsIsOne DEF DemoIInv
<1>2. SeenIsWhole
    BY DemoAssumption DEF DemoIInv, DemoTypeOK, VotersRows, VotesRows, RowsOfTheCreation,
       SeenIsWhole
<1> QED BY <1>1, <1>2 DEF DemoIInv, DemoHolds

\* Whatever fails or breaks off while an election is created, reset, closed, counted
\* and checked: an election that is OPEN has an empty urn, unless a closing or a reset
\* lost its lock and ran on; no report of before a reset is shown after it, one check
\* runs at a time, and an election that can be seen can be voted in and opened, or
\* nothing is left of it (createElection, resetDemoElection, startFinalCheck).
THEOREM DemoAlwaysHolds == DemoSpec => []DemoHolds
<1>1. DemoInit => DemoIInv
    BY DemoStarts
<1>2. DemoIInv /\ [DemoNext]_demoVars => DemoIInv'
    BY DemoKeeps
<1>3. DemoIInv => DemoHolds
    BY DemoImplies
<1> QED BY <1>1, <1>2, <1>3, PTL DEF DemoSpec

----------------------------------------------------------------------------
(***************************************************************************)
(* The votes a device remembers, for any tabs and votes: a page that shows *)
(* a vote as the one that counts shows the one that lies on the ballot,    *)
(* until a vote is cast that it has not heard of.                          *)
(***************************************************************************)
\* Only a page that shows the ballot signs, polls, and waits for an answer.
PollsWhenReady ==
    \A t \in Tabs :
        page[t] # "ready" => signing[t] = NoVote /\ polled[t] = NoVote /\ reply[t] = "none"

\* A vote was recorded after the page last heard how things stood.
RecordedIsSince == \A t \in Tabs : reply[t] = "recorded" => since[t]

DeviceIInv == DeviceTypeOK /\ ShownIsLying /\ PollsWhenReady /\ RecordedIsSince

\* What a page shows has its types.
LEMMA ShowsTypes ==
    ASSUME DeviceTypeOK, NEW t \in Tabs, NEW acceptsVotes \in BOOLEAN,
           NEW v \in Votes \cup {NoVote}, NEW has \in BOOLEAN,
           NEW result \in {"same", "different", "none", "unknown"},
           Shows(t, acceptsVotes, v, has, result)
    PROVE  /\ page' \in [Tabs -> PageStates] /\ accepts' \in [Tabs -> BOOLEAN]
           /\ device' \in [Tabs -> Votes \cup {NoVote}] /\ hasVote' \in [Tabs -> BOOLEAN]
           /\ compared' \in [Tabs -> {"same", "different", "none", "unknown"}]
BY DEF DeviceTypeOK, Shows, Set, PageStates

LEMMA SessionAnsweredTypes ==
    ASSUME DeviceIInv, NEW t \in Tabs, SessionAnswered(t)
    PROVE  DeviceTypeOK'
<1> DEFINE v   == IF open THEN post ELSE NoVote
           has == lying # NoVote
<1>1. v \in Votes \cup {NoVote} /\ has \in BOOLEAN /\ open \in BOOLEAN /\ DeviceTypeOK
    BY DEF DeviceIInv, DeviceTypeOK
<1>2. UNCHANGED <<serverVars, asks, signVars, lost>> /\ since' = Set(since, t, FALSE)
    BY DEF SessionAnswered
<1>3. CASE has /\ v # NoVote
  <2>1. /\ page' = Set(page, t, "compare") /\ accepts' = Set(accepts, t, open)
        /\ device' = Set(device, t, v) /\ hasVote' = Set(hasVote, t, has)
        /\ UNCHANGED <<post, compared>>
      BY <1>3 DEF SessionAnswered
  <2> QED
      BY <1>1, <1>2, <2>1 DEF DeviceTypeOK, PageStates, Set, serverVars, signVars
<1>4. CASE ~(has /\ v # NoVote)
  <2>1. post' \in {post, NoVote} /\ Shows(t, open, v, has, "unknown")
      BY <1>4 DEF SessionAnswered, Forget, ForgetIfVotingEnded
  <2> HIDE DEF v, has
  <2>2. /\ page' \in [Tabs -> PageStates] /\ accepts' \in [Tabs -> BOOLEAN]
        /\ device' \in [Tabs -> Votes \cup {NoVote}] /\ hasVote' \in [Tabs -> BOOLEAN]
        /\ compared' \in [Tabs -> {"same", "different", "none", "unknown"}]
      BY <1>1, <2>1, ShowsTypes
  <2> QED
      BY <1>1, <1>2, <2>1, <2>2 DEF DeviceTypeOK, Set, serverVars, signVars
<1> QED BY <1>3, <1>4

LEMMA CompareAnsweredTypes ==
    ASSUME DeviceIInv, NEW t \in Tabs, CompareAnswered(t)
    PROVE  DeviceTypeOK'
<1>1. PICK v \in Votes \cup {NoVote}, result \in {"same", "different", "none", "unknown"},
           a \in BOOLEAN : Shows(t, a, v, hasVote[t], result)
  <2>1. CASE open
      BY <2>1 DEF CompareAnswered, DeviceIInv, DeviceTypeOK, Comparison
  <2>2. CASE ~open
      BY <2>2 DEF CompareAnswered
  <2> QED BY <2>1, <2>2
<1>2. /\ UNCHANGED <<serverVars, asks, signVars, lost>> /\ since' = Set(since, t, FALSE)
      /\ post' \in {post, NoVote}
    BY DEF CompareAnswered, Forget
<1>3. /\ page' \in [Tabs -> PageStates] /\ accepts' \in [Tabs -> BOOLEAN]
      /\ device' \in [Tabs -> Votes \cup {NoVote}] /\ hasVote' \in [Tabs -> BOOLEAN]
      /\ compared' \in [Tabs -> {"same", "different", "none", "unknown"}]
  <2>1. hasVote[t] \in BOOLEAN /\ DeviceTypeOK
      BY DEF DeviceIInv, DeviceTypeOK
  <2> QED BY <1>1, <2>1, ShowsTypes
<1> QED
    BY <1>2, <1>3 DEF DeviceIInv, DeviceTypeOK, Set, serverVars, signVars

LEMMA ServerAnswersTypes ==
    ASSUME DeviceIInv, NEW t \in Tabs, ServerAnswers(t)
    PROVE  DeviceTypeOK'
<1>1. /\ reply' \in [Tabs -> {"none", "recorded", "closed", "failed"}]
      /\ since' \in [Tabs -> BOOLEAN]
      /\ cast' \subseteq Votes /\ lying' \in Votes \cup {NoVote}
    BY DEF ServerAnswers, Lies, DeviceIInv, DeviceTypeOK, Set
<1>2. UNCHANGED <<open, post, pageVars, asks, signing, polled, lost>>
    BY DEF ServerAnswers
<1> QED
    BY <1>1, <1>2, SMTT(30) DEF DeviceIInv, DeviceTypeOK, pageVars

LEMMA ReplyArrivesTypes ==
    ASSUME DeviceIInv, NEW t \in Tabs, ReplyArrives(t)
    PROVE  DeviceTypeOK'
<1> USE DEF DeviceIInv, DeviceTypeOK, ReplyArrives, Set
<1>1. reply' \in [Tabs -> {"none", "recorded", "closed", "failed"}] /\ since' \in [Tabs -> BOOLEAN]
      /\ polled' \in [Tabs -> Votes \cup {NoVote}] /\ signing' \in [Tabs -> Votes \cup {NoVote}]
    BY DEF Ended
<1>2. post' \in Votes \cup {NoVote}
  <2>1. post' \in {polled[t], NoVote, post}
      BY DEF Ended, Remembers, Forget
  <2> QED BY <2>1
<1>3. page' = page /\ accepts' \in [Tabs -> BOOLEAN]
    BY DEF Ended, pageVars
<1>4. /\ device' \in [Tabs -> Votes \cup {NoVote}] /\ hasVote' \in [Tabs -> BOOLEAN]
      /\ compared' \in [Tabs -> {"same", "different", "none", "unknown"}]
    BY DEF Ended, Remembers, pageVars
<1> QED
    BY <1>1, <1>2, <1>3, <1>4 DEF serverVars
LEMMA VotingHasEndedKeeps ==
    ASSUME DeviceIInv, VotingHasEnded
    PROVE  DeviceIInv'
<1>1. DeviceTypeOK'
    BY DEF VotingHasEnded, DeviceIInv, DeviceTypeOK, PageStates, pageVars, signVars
<1>2. ShownIsLying'
    BY DEF VotingHasEnded, DeviceIInv, DeviceTypeOK, ShownIsLying, ShowsCurrent,
       RecordedIsSince, pageVars, signVars
<1>3. PollsWhenReady' /\ RecordedIsSince'
    BY DEF VotingHasEnded, DeviceIInv, DeviceTypeOK, PollsWhenReady, RecordedIsSince,
       pageVars, signVars
<1> QED BY <1>1, <1>2, <1>3 DEF DeviceIInv

LEMMA CastElsewhereKeeps ==
    ASSUME DeviceIInv, NEW v \in Votes, CastElsewhere(v)
    PROVE  DeviceIInv'
<1>1. DeviceTypeOK'
    BY DEF CastElsewhere, Lies, DeviceIInv, DeviceTypeOK, PageStates, pageVars, signVars
<1>2. ShownIsLying'
    BY DEF CastElsewhere, Lies, DeviceIInv, DeviceTypeOK, ShownIsLying, ShowsCurrent,
       RecordedIsSince, pageVars, signVars
<1>3. PollsWhenReady' /\ RecordedIsSince'
    BY DEF CastElsewhere, Lies, DeviceIInv, DeviceTypeOK, PollsWhenReady, RecordedIsSince,
       pageVars, signVars
<1> QED BY <1>1, <1>2, <1>3 DEF DeviceIInv

LEMMA LoadKeeps ==
    ASSUME DeviceIInv, NEW t \in Tabs, Load(t)
    PROVE  DeviceIInv'
<1>1. DeviceTypeOK'
    BY DEF Load, DeviceIInv, DeviceTypeOK, PageStates, Set, serverVars
<1>2. ShownIsLying'
    BY DEF Load, DeviceIInv, DeviceTypeOK, ShownIsLying, ShowsCurrent, RecordedIsSince, Set,
       serverVars
<1>3. PollsWhenReady' /\ RecordedIsSince'
    BY DEF Load, DeviceIInv, DeviceTypeOK, PollsWhenReady, RecordedIsSince, Set, serverVars
<1> QED BY <1>1, <1>2, <1>3 DEF DeviceIInv

LEMMA SessionAnsweredKeeps ==
    ASSUME DeviceIInv, NEW t \in Tabs, SessionAnswered(t)
    PROVE  DeviceIInv'
<1>1. DeviceTypeOK'
    BY SessionAnsweredTypes
<1>2. ShownIsLying'
    BY DEF SessionAnswered, Shows, Forget, ForgetIfVotingEnded, DeviceIInv, DeviceTypeOK,
       ShownIsLying, ShowsCurrent, RecordedIsSince, Set, serverVars, signVars
<1>3. PollsWhenReady' /\ RecordedIsSince'
    BY DEF SessionAnswered, Shows, Forget, ForgetIfVotingEnded, DeviceIInv, DeviceTypeOK,
       PollsWhenReady, RecordedIsSince, Set, serverVars, signVars
<1> QED BY <1>1, <1>2, <1>3 DEF DeviceIInv

LEMMA CompareAnsweredKeeps ==
    ASSUME DeviceIInv, NEW t \in Tabs, CompareAnswered(t)
    PROVE  DeviceIInv'
<1>1. DeviceTypeOK'
    BY CompareAnsweredTypes
<1>2. ShownIsLying'
    BY DEF CompareAnswered, Shows, Forget, DeviceIInv, DeviceTypeOK, ShownIsLying,
       ShowsCurrent, RecordedIsSince, Set, Comparison, serverVars, signVars
<1>3. PollsWhenReady' /\ RecordedIsSince'
    BY DEF CompareAnswered, Shows, Forget, DeviceIInv, DeviceTypeOK, PollsWhenReady,
       RecordedIsSince, Set, serverVars, signVars
<1> QED BY <1>1, <1>2, <1>3 DEF DeviceIInv

LEMMA CompareFailsKeeps ==
    ASSUME DeviceIInv, NEW t \in Tabs, CompareFails(t)
    PROVE  DeviceIInv'
<1>1. DeviceTypeOK'
    BY DeviceAssumption DEF CompareFails, Shows, DeviceIInv, DeviceTypeOK, PageStates, Set,
       serverVars, signVars
<1>2. ShownIsLying'
    BY DEF CompareFails, Shows, DeviceIInv, DeviceTypeOK, ShownIsLying, ShowsCurrent,
       RecordedIsSince, Set, serverVars, signVars
<1>3. PollsWhenReady' /\ RecordedIsSince'
    BY DEF CompareFails, Shows, DeviceIInv, DeviceTypeOK, PollsWhenReady, RecordedIsSince,
       Set, serverVars, signVars
<1> QED BY <1>1, <1>2, <1>3 DEF DeviceIInv

LEMMA NoSessionKeeps ==
    ASSUME DeviceIInv, NEW t \in Tabs, NoSession(t)
    PROVE  DeviceIInv'
<1>1. DeviceTypeOK'
    BY DEF NoSession, DeviceIInv, DeviceTypeOK, PageStates, Set, serverVars, signVars
<1>2. ShownIsLying'
    BY DEF NoSession, DeviceIInv, DeviceTypeOK, ShownIsLying, ShowsCurrent, RecordedIsSince,
       Set, serverVars, signVars
<1>3. PollsWhenReady' /\ RecordedIsSince'
    BY DEF NoSession, DeviceIInv, DeviceTypeOK, PollsWhenReady, RecordedIsSince, Set,
       serverVars, signVars
<1> QED BY <1>1, <1>2, <1>3 DEF DeviceIInv

LEMMA ListAnsweredKeeps ==
    ASSUME DeviceIInv, NEW t \in Tabs, ListAnswered(t)
    PROVE  DeviceIInv'
<1>1. DeviceTypeOK'
    BY DEF ListAnswered, ForgetIfVotingEnded, Forget, DeviceIInv, DeviceTypeOK, PageStates,
       Set, serverVars, signVars
<1>2. ShownIsLying'
    BY DEF ListAnswered, ForgetIfVotingEnded, Forget, DeviceIInv, DeviceTypeOK,
       ShownIsLying, ShowsCurrent, RecordedIsSince, Set, serverVars, signVars
<1>3. PollsWhenReady' /\ RecordedIsSince'
    BY DEF ListAnswered, ForgetIfVotingEnded, Forget, DeviceIInv, DeviceTypeOK,
       PollsWhenReady, RecordedIsSince, Set, serverVars, signVars
<1> QED BY <1>1, <1>2, <1>3 DEF DeviceIInv

LEMMA AskPhaseKeeps ==
    ASSUME DeviceIInv, NEW t \in Tabs, AskPhase(t)
    PROVE  DeviceIInv'
<1>1. DeviceTypeOK'
    BY DEF AskPhase, DeviceIInv, DeviceTypeOK, PageStates, Set, serverVars, pageVars,
       signVars
<1>2. ShownIsLying'
    BY DEF AskPhase, DeviceIInv, DeviceTypeOK, ShownIsLying, ShowsCurrent, RecordedIsSince,
       Set, serverVars, pageVars, signVars
<1>3. PollsWhenReady' /\ RecordedIsSince'
    BY DEF AskPhase, DeviceIInv, DeviceTypeOK, PollsWhenReady, RecordedIsSince, Set,
       serverVars, pageVars, signVars
<1> QED BY <1>1, <1>2, <1>3 DEF DeviceIInv

LEMMA PhaseAnsweredKeeps ==
    ASSUME DeviceIInv, NEW t \in Tabs, PhaseAnswered(t)
    PROVE  DeviceIInv'
<1>1. DeviceTypeOK'
    BY DEF PhaseAnswered, Ended, Forget, DeviceIInv, DeviceTypeOK, PageStates, Set,
       serverVars, pageVars, signVars
<1>2. ShownIsLying'
    BY DEF PhaseAnswered, Ended, Forget, DeviceIInv, DeviceTypeOK, ShownIsLying,
       ShowsCurrent, RecordedIsSince, Set, serverVars, pageVars, signVars
<1>3. PollsWhenReady' /\ RecordedIsSince'
    BY DEF PhaseAnswered, Ended, Forget, DeviceIInv, DeviceTypeOK, PollsWhenReady,
       RecordedIsSince, Set, serverVars, pageVars, signVars
<1> QED BY <1>1, <1>2, <1>3 DEF DeviceIInv

LEMMA PollSigningKeeps ==
    ASSUME DeviceIInv, NEW t \in Tabs, PollSigning(t)
    PROVE  DeviceIInv'
<1>1. DeviceTypeOK'
    BY DEF PollSigning, DeviceIInv, DeviceTypeOK, PageStates, Set, serverVars, pageVars
<1>2. ShownIsLying'
    BY DEF PollSigning, DeviceIInv, DeviceTypeOK, ShownIsLying, ShowsCurrent,
       RecordedIsSince, Set, serverVars, pageVars
<1>3. PollsWhenReady' /\ RecordedIsSince'
    BY DEF PollSigning, DeviceIInv, DeviceTypeOK, PollsWhenReady, RecordedIsSince, Set,
       serverVars, pageVars
<1> QED BY <1>1, <1>2, <1>3 DEF DeviceIInv

LEMMA ServerAnswersKeeps ==
    ASSUME DeviceIInv, NEW t \in Tabs, ServerAnswers(t)
    PROVE  DeviceIInv'
<1>1. DeviceTypeOK'
    BY ServerAnswersTypes
<1>2. ShownIsLying'
    BY DEF ServerAnswers, Lies, DeviceIInv, DeviceTypeOK, ShownIsLying, ShowsCurrent,
       RecordedIsSince, Set, pageVars
<1>3. PollsWhenReady' /\ RecordedIsSince'
    BY DEF ServerAnswers, Lies, DeviceIInv, DeviceTypeOK, PollsWhenReady, RecordedIsSince,
       Set, pageVars
<1> QED BY <1>1, <1>2, <1>3 DEF DeviceIInv

LEMMA ReplyArrivesKeeps ==
    ASSUME DeviceIInv, NEW t \in Tabs, ReplyArrives(t)
    PROVE  DeviceIInv'
<1>1. DeviceTypeOK'
    BY ReplyArrivesTypes
<1>2. ShownIsLying'
    BY DEF ReplyArrives, Remembers, Ended, Forget, DeviceIInv, DeviceTypeOK, ShownIsLying,
       ShowsCurrent, RecordedIsSince, Set, serverVars, pageVars
<1>3. PollsWhenReady' /\ RecordedIsSince'
    BY DEF ReplyArrives, Remembers, Ended, Forget, DeviceIInv, DeviceTypeOK, PollsWhenReady,
       RecordedIsSince, Set, serverVars, pageVars
<1> QED BY <1>1, <1>2, <1>3 DEF DeviceIInv

LEMMA LoseReplyKeeps ==
    ASSUME DeviceIInv, NEW t \in Tabs, LoseReply(t)
    PROVE  DeviceIInv'
<1>1. DeviceTypeOK'
    BY DeviceAssumption DEF LoseReply, DeviceIInv, DeviceTypeOK, PageStates, Set,
       serverVars, pageVars
<1>2. ShownIsLying'
    BY DEF LoseReply, DeviceIInv, DeviceTypeOK, ShownIsLying, ShowsCurrent, RecordedIsSince,
       Set, serverVars, pageVars
<1>3. PollsWhenReady' /\ RecordedIsSince'
    BY DEF LoseReply, DeviceIInv, DeviceTypeOK, PollsWhenReady, RecordedIsSince, Set,
       serverVars, pageVars
<1> QED BY <1>1, <1>2, <1>3 DEF DeviceIInv

LEMMA SignKeeps ==
    ASSUME DeviceIInv, NEW t \in Tabs, NEW v \in Votes, Sign(t, v)
    PROVE  DeviceIInv'
<1>1. DeviceTypeOK'
    BY DEF Sign, DeviceIInv, DeviceTypeOK, PageStates, Set, serverVars, pageVars
<1>2. ShownIsLying'
    BY DEF Sign, DeviceIInv, DeviceTypeOK, ShownIsLying, ShowsCurrent, RecordedIsSince, Set,
       serverVars, pageVars
<1>3. PollsWhenReady' /\ RecordedIsSince'
    BY DEF Sign, DeviceIInv, DeviceTypeOK, PollsWhenReady, RecordedIsSince, Set, serverVars,
       pageVars
<1> QED BY <1>1, <1>2, <1>3 DEF DeviceIInv

LEMMA DeviceStarts ==
    ASSUME DeviceInit
    PROVE  DeviceIInv
BY DeviceAssumption DEF DeviceInit, DeviceIInv, DeviceTypeOK, PageStates, ShownIsLying,
   ShowsCurrent, PollsWhenReady, RecordedIsSince

LEMMA DeviceKeeps ==
    ASSUME DeviceIInv, [DeviceNext]_deviceVars
    PROVE  DeviceIInv'
<1>1. CASE VotingHasEnded \/ \E v \in Votes : CastElsewhere(v)
    BY <1>1, VotingHasEndedKeeps, CastElsewhereKeeps
<1>2. ASSUME NEW t \in Tabs,
             Load(t) \/ SessionAnswered(t) \/ CompareAnswered(t) \/ CompareFails(t)
                 \/ NoSession(t) \/ ListAnswered(t)
      PROVE  DeviceIInv'
    BY <1>2, LoadKeeps, SessionAnsweredKeeps, CompareAnsweredKeeps, CompareFailsKeeps,
       NoSessionKeeps, ListAnsweredKeeps
<1>3. ASSUME NEW t \in Tabs,
             AskPhase(t) \/ PhaseAnswered(t) \/ \E v \in Votes : Sign(t, v)
      PROVE  DeviceIInv'
    BY <1>3, AskPhaseKeeps, PhaseAnsweredKeeps, SignKeeps
<1>4. ASSUME NEW t \in Tabs,
             PollSigning(t) \/ ServerAnswers(t) \/ ReplyArrives(t) \/ LoseReply(t)
      PROVE  DeviceIInv'
    BY <1>4, PollSigningKeeps, ServerAnswersKeeps, ReplyArrivesKeeps, LoseReplyKeeps
<1>5. CASE UNCHANGED deviceVars
    BY <1>5 DEF deviceVars, DeviceIInv, DeviceTypeOK, ShownIsLying, ShowsCurrent,
       PollsWhenReady, RecordedIsSince
<1> QED BY <1>1, <1>2, <1>3, <1>4, <1>5 DEF DeviceNext

\* However many tabs a voter has open, and whatever is cast elsewhere, lost on the way or
\* answered late: a page that shows a vote as the one that counts shows the one that lies
\* on the ballot, or a vote was cast since it last heard (vote/page.tsx loadPage and
\* startPolling).
THEOREM DeviceAlwaysHolds == DeviceSpec => []DeviceHolds
<1>1. DeviceInit => DeviceIInv
    BY DeviceStarts
<1>2. DeviceIInv /\ [DeviceNext]_deviceVars => DeviceIInv'
    BY DeviceKeeps
<1>3. DeviceIInv => DeviceHolds
    BY DEF DeviceIInv, DeviceHolds
<1> QED BY <1>1, <1>2, <1>3, PTL DEF DeviceSpec

----------------------------------------------------------------------------
(***************************************************************************)
(* The mode of the server, for any servers, roots and elections: what was  *)
(* let start trusts roots of its own kind, and what it has checked before  *)
(* it acts still holds when it does.                                       *)
(***************************************************************************)
\* What a server runs with, when it was let start.
Booted(running) ==
    /\ running.trusts \subseteq {"mock"} \cup UNION RootFiles
    /\ \/ running.mode = "DEMO" /\ running.kind = "mock" /\ running.env = "none"
       \/ /\ running.mode = "SHARP"
          /\ running.kind \in Environments /\ running.env = running.kind
          /\ running.kind = "production" => tested /\ running.trusts = {"production"}

ServersAreBooted ==
    /\ DOMAIN server = Servers
    /\ \A s \in Servers : server[s] # Unset => Booted(server[s])

ModeTypes ==
    /\ tested \in BOOLEAN
    /\ election # Unset => election \in Elections
    /\ act # Unset => act \in [server : Servers, act : Acts]
    /\ outside \in {{}, {"voters"}, {"votes"}}

\* One of the two rows at least is as it was created.
RowsSayWhoMadeIt ==
    election # Unset =>
        /\ "voters" \notin outside => election.voters = election.made
        /\ "votes" \notin outside => election.votes = election.made

\* Who has passed the check is like the server that made the election, or casts after
\* the row it reads was rewritten.
ActIsByItsOwn ==
    act # Unset =>
        /\ election # Unset /\ server[act.server] # Unset
        /\ Row(act.server) = election.made \/ (act.act = "cast" /\ "voters" \in outside)

ModeIInv ==
    /\ ModeTypes /\ ServersAreBooted /\ RowsSayWhoMadeIt /\ ActIsByItsOwn
    /\ DoneByItsOwn /\ ProductionIsReal /\ PostTellsTheEnvironment /\ SharpPhrasesAreUnknown

\* A server that was let start is booted.
LEMMA BootableIsBooted ==
    ASSUME tested \in BOOLEAN, NEW running \in Bootable[tested]
    PROVE  Booted(running)
<1>1. PICK config \in Configurations :
          assertBootable(config, tested) /\ running = Running(config)
    BY DEF Bootable
<1>2. config.roots # Unset => config.roots \in RootFiles
    BY <1>1 DEF Configurations
<1>3. running.trusts \subseteq {"mock"} \cup UNION RootFiles
    BY <1>1, <1>2 DEF Running, trustedBankIdRoots
<1>4. CASE config.mode = "DEMO"
    BY <1>1, <1>3, <1>4 DEF Booted, Running, BankIdKind, electionBankIdEnvironmentFor,
       Environments
<1>5. CASE config.mode # "DEMO"
  <2>1. config.mode = "SHARP" /\ sharpModeRequirements(config, tested)
      BY <1>1, <1>5 DEF assertBootable, Configurations
  <2>2. config.env \in Environments /\ config.roots = {config.env} /\ config.roots # Unset
      BY <1>1, <2>1 DEF sharpModeRequirements, customerRootHolds, Configurations
  <2>3. config.env = "production" => tested
      BY <2>1 DEF sharpModeRequirements, readerTested
  <2>4. BankIdKind(config.mode, config.env) = config.env
        /\ electionBankIdEnvironmentFor(config.env) = config.env
      BY <2>1, <2>2 DEF BankIdKind, electionBankIdEnvironmentFor, sharpModeRequirements
  <2>5. running.mode = "SHARP" /\ running.kind = config.env /\ running.trusts = config.roots
      BY <1>1, <2>1, <2>2, <2>4 DEF Running, trustedBankIdRoots
  <2>6. running.env = config.env
      BY <1>1, <2>4 DEF Running
  <2> QED
      BY <1>3, <2>2, <2>3, <2>5, <2>6 DEF Booted
<1> QED BY <1>4, <1>5

\* One of the two rows is rewritten at most.
LEMMA OneRowAtMost ==
    ASSUME NEW S \in SUBSET {"voters", "votes"}, Cardinality(S) <= 1
    PROVE  S \in {{}, {"voters"}, {"votes"}}
<1>1. Cardinality({"voters", "votes"}) = 2
  <2>1. IsFiniteSet({"votes"}) /\ Cardinality({"votes"}) = 1
      BY FS_Singleton
  <2>2. {"voters", "votes"} = {"votes"} \cup {"voters"} /\ "voters" \notin {"votes"}
      OBVIOUS
  <2> QED BY <2>1, <2>2, FS_AddElement
<1>2. S # {"voters", "votes"}
    BY <1>1
<1> QED BY <1>2

LEMMA RowIsARow ==
    ASSUME ServersAreBooted, NEW s \in Servers, server[s] # Unset
    PROVE  Row(s) \in Rows /\ Row(s).mode = server[s].mode /\ Row(s).env = server[s].env
BY DEF ServersAreBooted, Booted, Row, Rows, Environments

LEMMA StartServerKeeps ==
    ASSUME ModeIInv, NEW s \in Servers, StartServer(s)
    PROVE  ModeIInv'
<1>1. PICK running \in Bootable[tested] : server' = [server EXCEPT ![s] = running]
    BY DEF StartServer
<1>2. Booted(running) /\ tested' = tested /\ UNCHANGED <<election, act, outside>>
    BY BootableIsBooted DEF StartServer, ModeIInv, ModeTypes
<1>3. ServersAreBooted'
    BY <1>1, <1>2 DEF ModeIInv, ServersAreBooted, Booted
<1>4. ActIsByItsOwn'
    BY <1>1, <1>2 DEF StartServer, ModeIInv, ModeTypes, ActIsByItsOwn, ServersAreBooted, Row
<1> QED
    BY <1>2, <1>3, <1>4 DEF ModeIInv, ModeTypes, RowsSayWhoMadeIt, DoneByItsOwn,
       ProductionIsReal, PostTellsTheEnvironment, SharpPhrasesAreUnknown

LEMMA StopServerKeeps ==
    ASSUME ModeIInv, NEW s \in Servers, StopServer(s)
    PROVE  ModeIInv'
<1>1. UNCHANGED <<tested, election, outside>> /\ act' \in {act, Unset}
    BY DEF StopServer
<1>2. ServersAreBooted'
    BY <1>1 DEF StopServer, ModeIInv, ServersAreBooted, Booted
<1>3. ActIsByItsOwn'
    BY DEF StopServer, ModeIInv, ModeTypes, ActIsByItsOwn, ServersAreBooted, Row
<1> QED
    BY <1>1, <1>2, <1>3 DEF ModeIInv, ModeTypes, RowsSayWhoMadeIt, DoneByItsOwn,
       ProductionIsReal, PostTellsTheEnvironment, SharpPhrasesAreUnknown

LEMMA CreateElectionKeeps ==
    ASSUME ModeIInv, NEW s \in Servers, NEW known \in BOOLEAN, CreateElection(s, known)
    PROVE  ModeIInv'
<1>1. UNCHANGED <<tested, server, act, outside>> /\ election = Unset
    BY DEF CreateElection
<1>2. election' = [made |-> Row(s), known |-> known, voters |-> Row(s), votes |-> Row(s),
                    phase |-> "OPEN", post |-> Unset, signedUnder |-> {},
                    strangers |-> {}]
    BY DEF CreateElection
<1>3. Row(s) \in Rows /\ Row(s).mode = server[s].mode /\ Row(s).env = server[s].env
      /\ Booted(server[s])
    BY RowIsARow DEF CreateElection, ModeIInv, ServersAreBooted
<1>4. ModeTypes'
    BY <1>1, <1>2, <1>3 DEF ModeIInv, ModeTypes, Elections, Rows
<1>5. ServersAreBooted' /\ ActIsByItsOwn'
    BY <1>1 DEF ModeIInv, ServersAreBooted, Booted, ActIsByItsOwn
<1>6. RowsSayWhoMadeIt' /\ DoneByItsOwn' /\ PostTellsTheEnvironment'
    BY <1>2 DEF RowsSayWhoMadeIt, DoneByItsOwn, PostTellsTheEnvironment
<1>7. ProductionIsReal' /\ SharpPhrasesAreUnknown'
    BY <1>1, <1>2, <1>3
    DEF CreateElection, MayUse, Booted, ProductionIsReal, SharpPhrasesAreUnknown, Environments
<1> QED BY <1>4, <1>5, <1>6, <1>7 DEF ModeIInv

LEMMA BeginActKeeps ==
    ASSUME ModeIInv, NEW s \in Servers, NEW a \in Acts, BeginAct(s, a)
    PROVE  ModeIInv'
<1>1. /\ UNCHANGED <<tested, server, election, outside>> /\ act' = [server |-> s, act |-> a]
      /\ server[s] # Unset /\ election # Unset /\ PassesCheck(s, a)
    BY DEF BeginAct
<1>2. Row(s) = election.made \/ (a = "cast" /\ "voters" \in outside)
  <2>0. Row(s) \in Rows /\ Row(s).mode = server[s].mode /\ election \in Elections
      BY <1>1, RowIsARow DEF ModeIInv, ModeTypes
  <2>1. CASE a = "cast"
      BY <1>1, <2>1 DEF PassesCheck, electionBelongsToThisServer, ModeIInv, RowsSayWhoMadeIt
  <2>2. CASE a = "reset"
    <3>1. server[s].mode = "DEMO" /\ IsDemo(election.voters) /\ IsDemo(election.votes)
        BY <1>1, <2>2 DEF PassesCheck
    <3>2. election.made \in {election.voters, election.votes}
        BY <1>1 DEF ModeIInv, ModeTypes, RowsSayWhoMadeIt
    <3>3. election.made \in Rows /\ election.made.mode = "DEMO"
        BY <2>0, <3>1, <3>2 DEF IsDemo, Elections
    <3> QED BY <2>0, <3>1, <3>3 DEF Rows
  <2>3. CASE a \notin {"cast", "reset"}
    <3>1. election.voters = Row(s) /\ (election.votes # Unset => election.votes = Row(s))
        BY <1>1, <2>3 DEF PassesCheck, checkElectionMode, electionBelongsToThisServer
    <3>2. CASE "voters" \notin outside
        BY <1>1, <3>1, <3>2 DEF ModeIInv, RowsSayWhoMadeIt
    <3>3. CASE "voters" \in outside
      <4>1. election.votes = election.made /\ election.made \in Rows
          BY <1>1, <2>0, <3>3 DEF ModeIInv, ModeTypes, RowsSayWhoMadeIt, Elections
      <4> QED BY <3>1, <4>1, ModeAssumption
    <3> QED BY <3>2, <3>3
  <2> QED BY <2>1, <2>2, <2>3
<1>3. ActIsByItsOwn'
    BY <1>1, <1>2 DEF ActIsByItsOwn, Row
<1>4. ModeTypes'
    BY <1>1 DEF ModeIInv, ModeTypes
<1> QED
    BY <1>1, <1>3, <1>4 DEF ModeIInv, ServersAreBooted, Booted, RowsSayWhoMadeIt, DoneByItsOwn,
       ProductionIsReal, PostTellsTheEnvironment, SharpPhrasesAreUnknown

LEMMA FinishActKeeps ==
    ASSUME ModeIInv, FinishAct
    PROVE  ModeIInv'
<1> DEFINE s == act.server
           a == act.act
           own == Row(s) = election.made
<1>1. /\ s \in Servers /\ a \in Acts /\ server[s] # Unset
      /\ election # Unset /\ election \in Elections
      /\ own \/ (a = "cast" /\ "voters" \in outside)
    BY DEF FinishAct, ModeIInv, ModeTypes, ActIsByItsOwn
<1>2. /\ UNCHANGED <<tested, server, outside>> /\ act' = Unset
      /\ election' = [AfterAct(s, a) EXCEPT !.strangers = @ \cup IF own THEN {} ELSE {a}]
    BY DEF FinishAct
<1>3. Booted(server[s]) /\ Row(s).env = server[s].env
    BY <1>1, RowIsARow DEF ModeIInv, ServersAreBooted
<1> HIDE DEF s, a, own
<1>4. /\ AfterAct(s, a) \in Elections
      /\ \A f \in {"made", "known", "voters", "votes", "strangers"} : AfterAct(s, a)[f] = election[f]
    BY <1>1, <1>3 DEF AfterAct, Elections, Acts, Booted, certifiedEventTypeFor, Environments
<1>5. AfterAct(s, a).signedUnder \in
          {election.signedUnder, {}, election.signedUnder \cup server[s].trusts}
    BY <1>1 DEF AfterAct, Elections, Acts
<1>6. \/ AfterAct(s, a).post = election.post
      \/ a = "certify" /\ AfterAct(s, a).post = server[s].kind
    BY <1>1 DEF AfterAct, Elections, Acts, certifiedEventTypeFor
<1>7. /\ election' \in Elections
      /\ election'.made = election.made /\ election'.known = election.known
      /\ election'.voters = election.voters /\ election'.votes = election.votes
      /\ election'.signedUnder = AfterAct(s, a).signedUnder
      /\ election'.post = AfterAct(s, a).post
      /\ election'.strangers = election.strangers \cup IF own THEN {} ELSE {a}
    BY <1>1, <1>2, <1>4 DEF Elections
<1>8. ModeTypes' /\ ServersAreBooted' /\ ActIsByItsOwn'
    BY <1>2, <1>7 DEF ModeIInv, ModeTypes, ServersAreBooted, Booted, ActIsByItsOwn
<1>9. RowsSayWhoMadeIt' /\ SharpPhrasesAreUnknown'
    BY <1>1, <1>2, <1>7 DEF ModeIInv, RowsSayWhoMadeIt, SharpPhrasesAreUnknown
<1>10. DoneByItsOwn'
    BY <1>1, <1>2, <1>7 DEF ModeIInv, DoneByItsOwn
<1>11. ProductionIsReal'
    BY <1>1, <1>2, <1>3, <1>5, <1>7 DEF ModeIInv, ProductionIsReal, Booted, own, Environments
<1>12. PostTellsTheEnvironment'
    BY <1>1, <1>3, <1>6, <1>7
    DEF ModeIInv, PostTellsTheEnvironment, Booted, electionBankIdEnvironmentFor, own, Environments
<1> QED BY <1>8, <1>9, <1>10, <1>11, <1>12 DEF ModeIInv

\* What is written past the application leaves one of the rows as it was.
LEMMA WriteKeeps ==
    ASSUME ModeIInv, WriteRow \/ DeleteVotesRow
    PROVE  ModeIInv'
<1>1. PICK side \in {"voters", "votes"}, other \in Rows \cup {Unset} :
         /\ election # Unset /\ UNCHANGED <<tested, server, act>>
         /\ outside' = outside \cup {side} /\ outside' \in {{}, {"voters"}, {"votes"}}
         /\ side = "voters" => other \in Rows
         /\ election' = [election EXCEPT ![side] = other]
  <2>1. CASE WriteRow
    <3>1. PICK side \in {"voters", "votes"}, other \in Rows :
             /\ outside' = outside \cup {side} /\ Cardinality(outside') <= 1
             /\ election' = [election EXCEPT ![side] = other]
        BY <2>1 DEF WriteRow
    <3>2. outside' \in SUBSET {"voters", "votes"}
        BY <3>1 DEF ModeIInv, ModeTypes
    <3>3. outside' \in {{}, {"voters"}, {"votes"}}
        BY <3>1, <3>2, OneRowAtMost
    <3> QED BY <2>1, <3>1, <3>3 DEF WriteRow
  <2>2. CASE DeleteVotesRow
      BY <2>2 DEF DeleteVotesRow
  <2> QED BY <2>1, <2>2
<1>2. election \in Elections
    BY <1>1 DEF ModeIInv, ModeTypes
<1>3. /\ election' \in Elections
      /\ election'.made = election.made /\ election'.known = election.known
      /\ side # "voters" => election'.voters = election.voters
      /\ side # "votes" => election'.votes = election.votes
      /\ election'.signedUnder = election.signedUnder
      /\ election'.post = election.post
      /\ election'.strangers = election.strangers
    BY <1>1, <1>2 DEF Elections
<1>4. ModeTypes' /\ ServersAreBooted'
    BY <1>1, <1>3 DEF ModeIInv, ModeTypes, ServersAreBooted, Booted
<1>5. RowsSayWhoMadeIt'
    BY <1>1, <1>3 DEF ModeIInv, RowsSayWhoMadeIt
<1>6. ActIsByItsOwn'
  <2>1. \A t \in Servers : Row(t)' = Row(t)
      BY <1>1 DEF Row
  <2>2. election' # Unset
      BY <1>3, ModeAssumption
  <2> QED BY <1>1, <1>3, <2>1, <2>2 DEF ModeIInv, ModeTypes, ActIsByItsOwn
<1>7. DoneByItsOwn' /\ ProductionIsReal' /\ PostTellsTheEnvironment' /\ SharpPhrasesAreUnknown'
    BY <1>1, <1>3 DEF ModeIInv, DoneByItsOwn, ProductionIsReal, PostTellsTheEnvironment,
       SharpPhrasesAreUnknown
<1> QED BY <1>4, <1>5, <1>6, <1>7 DEF ModeIInv

\* Nothing runs, and no election is there.
LEMMA ModeStarts ==
    ASSUME ModeInit
    PROVE  ModeIInv
BY DEF ModeInit, ModeIInv, ModeTypes, ServersAreBooted, RowsSayWhoMadeIt, ActIsByItsOwn,
   DoneByItsOwn, ProductionIsReal, PostTellsTheEnvironment, SharpPhrasesAreUnknown

LEMMA ModeKeeps ==
    ASSUME ModeIInv, [ModeNext]_modeVars
    PROVE  ModeIInv'
<1>1. ASSUME ModeNext PROVE ModeIInv'
    BY <1>1, StartServerKeeps, StopServerKeeps, CreateElectionKeeps, BeginActKeeps,
       FinishActKeeps, WriteKeeps DEF ModeNext
<1>2. ASSUME UNCHANGED modeVars PROVE ModeIInv'
    BY <1>2 DEF modeVars, ModeIInv, ModeTypes, ServersAreBooted, Booted, RowsSayWhoMadeIt,
       ActIsByItsOwn, Row, DoneByItsOwn, ProductionIsReal, PostTellsTheEnvironment,
       SharpPhrasesAreUnknown
<1> QED BY <1>1, <1>2

LEMMA ModeImplies ==
    ASSUME ModeIInv
    PROVE  ModeHolds
<1>1. ModeTypeOK
    BY DEF ModeIInv, ModeTypes, ServersAreBooted, Booted, ModeTypeOK
<1> QED BY <1>1 DEF ModeIInv, ModeHolds

\* With any number of servers of either mode and environment, started and stopped in
\* any order, and one of an election's two rows rewritten past the application: what is
\* done with an election is done by a server like the one that created it, a casting
\* apart that asks the rewritten row; votes against BankID's production are signed under
\* its customer root; the post of the certification tells the environment; and no
\* election in sharp mode has passphrases that are known (election-mode.ts).
THEOREM ModeAlwaysHolds == ModeSpec => []ModeHolds
<1>1. ModeInit => ModeIInv
    BY ModeStarts
<1>2. ModeIInv /\ [ModeNext]_modeVars => ModeIInv'
    BY ModeKeeps
<1>3. ModeIInv => ModeHolds
    BY ModeImplies
<1> QED BY <1>1, <1>2, <1>3, PTL DEF ModeSpec

----------------------------------------------------------------------------
(***************************************************************************)
(* The validation before the close, for any voters, ballots and changes of *)
(* columns: whatever a row holds was made by somebody, and a content tells *)
(* which envelope it was made for.                                         *)
(***************************************************************************)
\* What was signed, by whom, and what a row may hold.
Contents == {signedContentOf(b, h, s, n) : b \in BallotIds, h \in Nat, s \in Nat, n \in Nat}
Signatures == [person : Voters, last : Nat, text : BallotIds, content : Contents]
Slots == Voters \X (BallotIds \cup {Other})
SealedSignatures == [format : {"v2", "v3"}, for : Slots, signature : Signatures]
RowsOfVotes ==
    [voter : Voters, ballot : BallotIds \cup {Other},
     cipher : [hash : Nat, ballot : BallotIds, old : BOOLEAN],
     hash : Nat, salt : Nat, sequence : Nat \ {0},
     signature : Signatures, sealed : SealedSignatures, day : Nat, format : Formats]

\* What a voter casts: a signature of hers over its ballot, ciphertext and counter,
\* sealed for her slot.
IsCast(e, id) ==
    /\ e.ballot \in BallotIds
    /\ e.hash = id /\ id > 0
    /\ e.salt = IF e.format = "before 11e" THEN NoSalt ELSE id
    /\ e.cipher.hash = id /\ e.cipher.ballot = e.ballot
    /\ e.signature.person = e.voter /\ e.signature.text = e.ballot
    /\ e.signature.content = signedContentOf(e.ballot, id, e.salt, e.sequence)
    /\ e.sealed.format = IF e.format = "now" THEN "v3" ELSE "v2"
    /\ e.sealed.for = Slot(e) /\ e.sealed.signature = e.signature

MadeIsCast ==
    /\ made \in Seq(RowsOfVotes) /\ casting \subseteq RowsOfVotes
    /\ \A j \in DOMAIN made : IsCast(made[j], j)
    /\ \A e \in casting : IsCast(e, Len(made) + 1)

\* Whatever columns are changed: ciphertexts and signatures are some that were made.
OfMade(r, envelopes) ==
    /\ \E j \in DOMAIN envelopes : r.cipher = envelopes[j].cipher
    /\ \E j \in DOMAIN envelopes : r.signature = envelopes[j].signature
    /\ \E j \in DOMAIN envelopes :
          r.sealed.signature = envelopes[j].signature /\ r.sealed.format = envelopes[j].sealed.format

RowsAreOfMade ==
    /\ rows \in Seq(RowsOfVotes)
    /\ \A i \in DOMAIN rows : OfMade(rows[i], made)

\* Nothing is cast while rows are judged.
CastBeforeJudged == casting # {} => judged = 0 /\ Len(made) < MaxCast

ValidationIInv == ValidationHolds /\ MadeIsCast /\ RowsAreOfMade /\ CastBeforeJudged

\* A content tells the ballot, the ciphertext and the counter it is of.
LEMMA ContentTells ==
    ASSUME NEW b, NEW h, NEW s, NEW n, NEW c, NEW g, NEW t, NEW m,
           signedContentOf(b, h, s, n) = signedContentOf(c, g, t, m)
    PROVE  b = c /\ h = g /\ n = m /\ (s = NoSalt <=> t = NoSalt)
BY DEF signedContentOf, Commitment, NoSalt

\* The verdict on a signature is one of three, and not bad only of the voter's own.
LEMMA VerdictIsOfTheVoter ==
    ASSUME MadeIsCast, NEW r \in RowsOfVotes, OfMade(r, made), SignatureVerdict(r) # "bad"
    PROVE  /\ SignatureVerdict(r) \in {"ok", "stale"}
           /\ \E j \in DOMAIN made :
                 /\ made[j].voter = r.voter /\ made[j].ballot = r.ballot /\ made[j].hash = r.hash
                 /\ IF SignatureVerdict(r) = "stale" THEN made[j].sequence < r.sequence
                    ELSE made[j].sequence = r.sequence
                 /\ ~IsLegacy(r) => made[j].format = "now"
<1>1. PICK sealed \in DOMAIN made :
         /\ r.sealed.signature = made[sealed].signature
         /\ r.sealed.format = made[sealed].sealed.format
    BY DEF OfMade
<1>2. /\ made[sealed] \in RowsOfVotes /\ IsCast(made[sealed], sealed)
      /\ sealed \in Nat
    BY DEF MadeIsCast
<1>3. r.sequence \in Nat
    BY DEF RowsOfVotes
<1>4. CASE IsLegacy(r)
  <2>1. PICK signed \in DOMAIN made : r.signature = made[signed].signature
      BY DEF OfMade
  <2>2. made[signed] \in RowsOfVotes /\ IsCast(made[signed], signed)
      BY <2>1 DEF MadeIsCast
  <2>3. SignedByTheVoter(r) /\ classifyLegacySignature(r) = SignatureVerdict(r)
      BY <1>4 DEF SignatureVerdict, judgeLegacySignature
  <2>4. PICK n \in Nat :
           /\ Signs(r, ContentOf(r, n))
           /\ \/ SignatureVerdict(r) = "ok" /\ n = r.sequence
              \/ SignatureVerdict(r) = "stale" /\ n < r.sequence
    <3>1. CASE Signs(r, ContentOf(r, r.sequence))
        BY <1>3, <2>3, <3>1 DEF classifyLegacySignature
    <3>2. CASE ~Signs(r, ContentOf(r, r.sequence))
      <4>1. SignatureVerdict(r) = "stale" /\ Found(r) # {}
          BY <2>3, <3>2 DEF classifyLegacySignature
      <4>2. PICK n \in LowerBound(r) .. r.sequence - 1 : Signs(r, ContentOf(r, n))
          BY <4>1 DEF Found, Candidates
      <4>3. LowerBound(r) \in Nat
          BY <1>3, ValidationAssumption DEF LowerBound
      <4> QED BY <1>3, <4>1, <4>2, <4>3
    <3> QED BY <3>1, <3>2
  <2>5. made[signed].voter = r.voter
      BY <1>1, <1>2, <2>1, <2>2, <2>3, <2>4 DEF Signs, SignedByTheVoter, IsCast
  <2>6. signedContentOf(made[signed].ballot, signed, made[signed].salt, made[signed].sequence)
        = signedContentOf(r.ballot, r.hash, r.salt, n)
      BY <2>1, <2>2, <2>4 DEF Signs, ContentOf, IsCast
  <2>7. made[signed].ballot = r.ballot /\ signed = r.hash /\ made[signed].sequence = n
      BY <2>6, ContentTells
  <2>8. made[signed].hash = r.hash
      BY <2>2, <2>7 DEF IsCast
  <2> QED BY <1>4, <2>4, <2>5, <2>7, <2>8
<1>5. CASE ~IsLegacy(r)
  <2>1. SignedByTheVoter(r) /\ classifySignedContent(r) = SignatureVerdict(r)
      BY <1>5 DEF SignatureVerdict, judgeSignature
  <2>2. PICK n \in Nat :
           /\ r.sealed.signature.content = ContentOf(r, n)
           /\ \/ SignatureVerdict(r) = "ok" /\ n = r.sequence
              \/ SignatureVerdict(r) = "stale" /\ n < r.sequence
      BY <1>3, <2>1 DEF classifySignedContent
  <2>3. signedContentOf(made[sealed].ballot, sealed, made[sealed].salt, made[sealed].sequence)
        = signedContentOf(r.ballot, r.hash, r.salt, n)
      BY <1>1, <1>2, <2>2 DEF ContentOf, IsCast
  <2>4. made[sealed].ballot = r.ballot /\ sealed = r.hash /\ made[sealed].sequence = n
      BY <2>3, ContentTells
  <2>5. made[sealed].hash = r.hash /\ made[sealed].voter = r.voter
      BY <1>1, <1>2, <2>1, <2>4 DEF IsCast, SignedByTheVoter
  <2>6. made[sealed].format = "now"
      BY <1>1, <1>2, <1>5 DEF IsCast, IsLegacy
  <2> QED BY <2>2, <2>4, <2>5, <2>6
<1> QED BY <1>4, <1>5

\* The largest of the counters that the search finds is one of them.
LEMMA LargestIsFound ==
    ASSUME NEW S \in SUBSET Nat, NEW top \in Nat, \A n \in S : n <= top, S # {}
    PROVE  Max(S) \in S
<1> DEFINE T == {top - n : n \in S}
<1>1. T \in SUBSET Nat /\ T # {}
  <2>1. \A n \in S : top - n \in Nat
      OBVIOUS
  <2>2. PICK n \in S : TRUE
      OBVIOUS
  <2>3. top - n \in T
      OBVIOUS
  <2> QED BY <2>1, <2>3
<1>2. PICK least \in T : \A m \in T : least <= m
    BY <1>1, Smallest
<1>3. PICK n \in S : least = top - n
    OBVIOUS
<1>4. ASSUME NEW m \in S PROVE m <= n
  <2>1. top - m \in T
      OBVIOUS
  <2>2. top - n <= top - m
      BY <1>2, <1>3, <2>1
  <2> QED BY <2>2
<1>5. \E x \in S : \A y \in S : x >= y
    BY <1>4
<1> QED BY <1>5 DEF Max

\* The search takes no more than is left of the budget.
LEMMA ProbesAreLeft ==
    ASSUME NEW r \in RowsOfVotes, remaining \in Nat
    PROVE  Probes(r) \in Nat /\ Probes(r) <= remaining
<1>1. r.sequence \in Nat \ {0}
    BY DEF RowsOfVotes
<1>2. LowerBound(r) \in Nat \ {0}
    BY <1>1, ValidationAssumption DEF LowerBound
<1>3. /\ Candidates(r) \in SUBSET Nat
      /\ \A n \in Candidates(r) : n <= r.sequence /\ r.sequence - n <= remaining
    BY <1>1, <1>2 DEF Candidates
<1>4. Cardinality(Candidates(r)) \in Nat /\ Cardinality(Candidates(r)) <= remaining
  <2> DEFINE low == IF r.sequence > remaining THEN r.sequence - remaining ELSE 0
             span == low .. (r.sequence - 1)
  <2>1. low \in Nat /\ Candidates(r) \subseteq span
      BY <1>1, <1>3 DEF Candidates
  <2>2. /\ IsFiniteSet(span)
        /\ Cardinality(span) = IF low > r.sequence - 1 THEN 0 ELSE (r.sequence - 1) - low + 1
    <3>1. low \in Int /\ r.sequence - 1 \in Int
        BY <1>1, <2>1
    <3> HIDE DEF low
    <3> QED BY <3>1, FS_Interval
  <2>3. Cardinality(span) <= remaining
    <3>1. (IF low > r.sequence - 1 THEN 0 ELSE (r.sequence - 1) - low + 1) <= remaining
        BY <1>1
    <3> QED BY <2>2, <3>1
  <2>4. /\ IsFiniteSet(Candidates(r))
        /\ Cardinality(Candidates(r)) <= Cardinality(span)
      BY <2>1, <2>2, FS_Subset
  <2>5. Cardinality(Candidates(r)) \in Nat /\ Cardinality(span) \in Nat
      BY <2>2, <2>4, FS_CardinalityType
  <2> QED BY <2>3, <2>4, <2>5
<1>5. CASE Found(r) # {}
  <2>1. Found(r) \in SUBSET Nat /\ Found(r) \subseteq Candidates(r)
      BY <1>3 DEF Found
  <2>2. Max(Found(r)) \in Candidates(r)
      BY <1>1, <1>3, <1>5, <2>1, LargestIsFound
  <2> QED BY <1>1, <1>3, <1>4, <2>2 DEF Probes
<1>6. CASE Found(r) = {}
    BY <1>4, <1>6 DEF Probes
<1> QED BY <1>5, <1>6

\* The kinds of a row, one by one.
LEMMA KindsOfARow ==
    ASSUME NEW r
    PROVE  /\ "BAD_SIGNATURE" \in Kinds(r) <=> SignatureVerdict(r) = "bad"
           /\ "STALE_SEQUENCE" \in Kinds(r) <=> SignatureVerdict(r) = "stale"
           /\ "WRONG_BALLOT" \in Kinds(r) <=> WrongBallot(r)
           /\ "OLD_BANKID_FORMAT" \in Kinds(r) <=> IsLegacy(r) /\ SignatureVerdict(r) # "bad"
           /\ "BAD_PROOF" \in Kinds(r) <=> ~IsOldProofFormat(r) /\ ~ProofHolds(r)
           /\ "OLD_PROOF_FORMAT" \in Kinds(r) <=> IsOldProofFormat(r)
BY DEF Kinds

\* A row in which nothing is found was cast as it stands.
LEMMA NothingFoundIsCast ==
    ASSUME MadeIsCast, NEW r \in RowsOfVotes, OfMade(r, made), Kinds(r) = {}
    PROVE  /\ MayVoteOn(r.voter, r.ballot)
           /\ \E j \in DOMAIN made :
                 /\ made[j].format = "now"
                 /\ <<made[j].voter, made[j].ballot, made[j].cipher, made[j].hash,
                      made[j].sequence>>
                    = <<r.voter, r.ballot, r.cipher, r.hash, r.sequence>>
<1>1. /\ SignatureVerdict(r) = "ok" /\ ~WrongBallot(r) /\ ~IsLegacy(r)
      /\ ~IsOldProofFormat(r) /\ ProofHolds(r)
    BY KindsOfARow, VerdictIsOfTheVoter
<1>2. PICK j \in DOMAIN made :
         /\ made[j].voter = r.voter /\ made[j].ballot = r.ballot /\ made[j].hash = r.hash
         /\ made[j].sequence = r.sequence
         /\ made[j].format = "now"
    BY <1>1, VerdictIsOfTheVoter
<1>3. PICK k \in DOMAIN made : r.cipher = made[k].cipher
    BY DEF OfMade
<1>4. k = j
  <2>1. IsCast(made[k], k) /\ IsCast(made[j], j)
      BY DEF MadeIsCast
  <2>2. made[k].cipher.hash = k /\ made[j].hash = j
      BY <2>1 DEF IsCast
  <2> QED BY <1>1, <1>2, <1>3, <2>2 DEF ProofHolds
<1> QED BY <1>1, <1>2, <1>3, <1>4 DEF WrongBallot

\* What was cast and not changed has the kinds of its format and its area.
LEMMA UnchangedHasItsKinds ==
    ASSUME MadeIsCast, NEW j \in DOMAIN made, made[j].day <= made[j].sealed.signature.last
    PROVE  Kinds(made[j]) = ExpectedKinds(made[j])
<1> DEFINE r == made[j]
<1>1. r \in RowsOfVotes /\ IsCast(r, j) /\ j \in Nat \ {0}
    BY DEF MadeIsCast
<1>2. Opens(r) /\ ValidOnDay(r) /\ SignedByTheVoter(r)
    BY <1>1 DEF Opens, ValidOnDay, SignedByTheVoter, IsCast
<1>3. /\ r.signature.content = ContentOf(r, r.sequence) /\ r.signature = r.sealed.signature
      /\ r.sealed.signature.text = r.ballot
    BY <1>1 DEF IsCast, ContentOf
<1>4. IsLegacy(r) <=> r.format # "now"
    BY <1>1 DEF IsLegacy, IsCast
<1>5. r.salt = NoSalt <=> r.format = "before 11e"
    BY <1>1 DEF IsCast, NoSalt
<1>6. SignatureVerdict(r) = "ok"
  <2>1. CASE IsLegacy(r)
      BY <1>2, <1>3, <2>1
      DEF SignatureVerdict, judgeLegacySignature, classifyLegacySignature, Signs
  <2>2. CASE ~IsLegacy(r)
      BY <1>2, <1>3, <1>4, <1>5, <2>2 DEF SignatureVerdict, judgeSignature, classifySignedContent
  <2> QED BY <2>1, <2>2
<1>7. r.ballot \in BallotIds /\ r.cipher.hash = r.hash /\ r.cipher.ballot = r.ballot
    BY <1>1 DEF IsCast
<1>8. /\ WrongBallot(r) <=> ~MayVoteOn(r.voter, r.ballot)
      /\ IsOldProofFormat(r) <=> r.cipher.old
      /\ ProofHolds(r)
    BY <1>7 DEF WrongBallot, IsOldProofFormat, ProofHolds
<1> HIDE DEF r
<1>9. Kinds(r) = ExpectedKinds(r)
    BY <1>4, <1>5, <1>6, <1>8 DEF Kinds, ExpectedKinds
<1> QED BY <1>9 DEF r

\* What was found of the rows before the next one.
LEMMA NothingJudgedHolds ==
    ASSUME judged = 0
    PROVE  WithoutAnomalyIsCast /\ OldIsTheVotersOwn /\ UnchangedIsNotBad
BY DEF WithoutAnomalyIsCast, OldIsTheVotersOwn, UnchangedIsNotBad

\* The next counter of a voter on a ballot.
LEMMA NextIsCounter ==
    ASSUME made \in Seq(RowsOfVotes), NEW voter, NEW ballot
    PROVE  NextSequence(voter, ballot) \in Nat \ {0}
<1> DEFINE before == {i \in DOMAIN made : Slot(made[i]) = <<voter, ballot>>}
<1>1. before \subseteq 1 .. Len(made) /\ Len(made) \in Nat
    OBVIOUS
<1>2. IsFiniteSet(1 .. Len(made))
    BY <1>1, FS_Interval
<1>3. IsFiniteSet(before)
    BY <1>1, <1>2, FS_Subset
<1> HIDE DEF before
<1>4. Cardinality(before) \in Nat
    BY <1>3, FS_CardinalityType
<1>5. Cardinality(before) + 1 \in Nat \ {0}
    BY <1>4
<1> QED BY <1>5 DEF NextSequence, before

\* What is signed is cast as it stands.
LEMMA SignedIsCast ==
    ASSUME made \in Seq(RowsOfVotes), today \in Nat,
           NEW voter \in Voters, NEW ballot \in BallotIds, NEW format \in Formats,
           NEW last \in Nat, NEW old \in BOOLEAN
    PROVE  /\ Signed(voter, ballot, format, last, old) \in RowsOfVotes
           /\ IsCast(Signed(voter, ballot, format, last, old), Len(made) + 1)
<1> DEFINE id == Len(made) + 1
           salt == IF format = "before 11e" THEN NoSalt ELSE id
           n == NextSequence(voter, ballot)
           words == signedContentOf(ballot, id, salt, n)
           signature == [person |-> voter, last |-> last, text |-> ballot, content |-> words]
           sealed == [format |-> IF format = "now" THEN "v3" ELSE "v2",
                      for |-> <<voter, ballot>>, signature |-> signature]
<1>1. id \in Nat \ {0}
    OBVIOUS
<1>2. n \in Nat \ {0}
    BY NextIsCounter
<1> HIDE DEF id, n
<1>3. salt \in Nat
    BY <1>1 DEF NoSalt
<1> HIDE DEF salt
<1>4. words \in Contents
    BY <1>1, <1>2, <1>3 DEF Contents
<1> HIDE DEF words
<1>5. signature \in Signatures
    BY <1>4 DEF Signatures
<1>6. sealed \in SealedSignatures
    BY <1>5 DEF SealedSignatures, Slots
<1> DEFINE e == [voter |-> voter, ballot |-> ballot,
                 cipher |-> [hash |-> id, ballot |-> ballot, old |-> old],
                 hash |-> id, salt |-> salt, sequence |-> n, signature |-> signature,
                 sealed |-> sealed, day |-> today, format |-> format]
<1>7. Signed(voter, ballot, format, last, old) = e
    BY DEF Signed, id, n, salt, words
<1>8. e \in RowsOfVotes
    BY <1>1, <1>2, <1>3, <1>5, <1>6 DEF RowsOfVotes
<1>9. IsCast(e, id)
  <2>1. id > 0
      BY <1>1
  <2>2. salt = IF format = "before 11e" THEN NoSalt ELSE id
      BY DEF salt
  <2>3. words = signedContentOf(ballot, id, salt, n)
      BY DEF words
  <2> HIDE DEF signature
  <2>4. signature.person = voter /\ signature.text = ballot /\ signature.content = words
      BY DEF signature
  <2> QED BY <2>1, <2>2, <2>3, <2>4 DEF IsCast, Slot
<1> QED BY <1>7, <1>8, <1>9 DEF id

\* A signature is accepted over what the voter casts.
LEMMA AcceptKeeps ==
    ASSUME ValidationIInv, Accept
    PROVE  ValidationIInv'
<1>1. PICK voter \in Voters, ballot \in BallotIds, format \in Formats, last \in today .. MaxDay,
           old \in BOOLEAN : casting' = {Signed(voter, ballot, format, last, old)}
    BY DEF Accept
<1>2. /\ casting = {} /\ judged = 0 /\ Len(made) < MaxCast
      /\ UNCHANGED <<today, made, rows, changes, judged, remaining, anomalies, outcome>>
    BY DEF Accept
<1>3. made \in Seq(RowsOfVotes) /\ today \in Nat
    BY ValidationAssumption DEF ValidationIInv, MadeIsCast, ValidationHolds, ValidationTypeOK
<1>4. last \in Nat
    BY <1>3, ValidationAssumption
<1> DEFINE e == Signed(voter, ballot, format, last, old)
<1>8. e \in RowsOfVotes /\ IsCast(e, Len(made) + 1)
    BY <1>3, <1>4, SignedIsCast
<1>10. casting' = {e}
    BY <1>1
<1> HIDE DEF e
<1>11. MadeIsCast'
    BY <1>2, <1>3, <1>8, <1>10 DEF ValidationIInv, MadeIsCast
<1>12. RowsAreOfMade'
    BY <1>2 DEF ValidationIInv, RowsAreOfMade, OfMade
<1>13. ValidationTypeOK' /\ CastBeforeJudged'
    BY <1>2 DEF ValidationIInv, ValidationHolds, ValidationTypeOK, CastBeforeJudged
<1>14. (WithoutAnomalyIsCast /\ OldIsTheVotersOwn /\ UnchangedIsNotBad)'
    BY <1>2 DEF WithoutAnomalyIsCast, OldIsTheVotersOwn, UnchangedIsNotBad
<1> QED BY <1>11, <1>12, <1>13, <1>14 DEF ValidationIInv, ValidationHolds

\* Once more envelopes were made, the rows are of them still.
LEMMA MoreAreMade ==
    ASSUME NEW r, OfMade(r, made), made \in Seq(RowsOfVotes), NEW e, made' = Append(made, e)
    PROVE  OfMade(r, made')
<1>1. DOMAIN made \subseteq DOMAIN made' /\ \A j \in DOMAIN made : made'[j] = made[j]
    OBVIOUS
<1> QED BY <1>1 DEF OfMade

\* The envelope is written, over the voter's row on the ballot or at the end.
LEMMA WriteOfVoteKeeps ==
    ASSUME ValidationIInv, Write
    PROVE  ValidationIInv'
<1>1. PICK c \in casting :
         made' = Append(made, [c EXCEPT !.day = today]) /\ rows' = Put([c EXCEPT !.day = today])
    BY DEF Write
<1> DEFINE e == [c EXCEPT !.day = today]
<1>2. /\ casting' = {} /\ judged = 0 /\ Len(made) < MaxCast
      /\ UNCHANGED <<today, changes, judged, remaining, anomalies, outcome>>
      /\ made \in Seq(RowsOfVotes) /\ rows \in Seq(RowsOfVotes) /\ today \in Nat
      /\ Len(rows) <= Len(made)
      /\ c \in RowsOfVotes /\ IsCast(c, Len(made) + 1)
    BY <1>1, ValidationAssumption
    DEF Write, ValidationIInv, CastBeforeJudged, MadeIsCast, RowsAreOfMade, ValidationHolds,
        ValidationTypeOK
<1>3. e \in RowsOfVotes
    BY <1>2 DEF RowsOfVotes
<1>4. IsCast(e, Len(made) + 1)
    BY <1>2 DEF RowsOfVotes, IsCast, Slot
<1>5. made' = Append(made, e) /\ rows' = Put(e)
    BY <1>1
<1> HIDE DEF e
<1>6. MadeIsCast'
  <2>1. made' \in Seq(RowsOfVotes) /\ Len(made') = Len(made) + 1
      BY <1>2, <1>3, <1>5
  <2>2. ASSUME NEW j \in DOMAIN made' PROVE IsCast(made'[j], j)
    <3>1. CASE j = Len(made) + 1
        BY <1>2, <1>4, <1>5, <3>1
    <3>2. CASE j # Len(made) + 1
        BY <1>2, <1>5, <3>2 DEF ValidationIInv, MadeIsCast
    <3> QED BY <3>1, <3>2
  <2> QED BY <1>2, <2>1, <2>2 DEF MadeIsCast
<1>7. OfMade(e, made')
  <2>1. made'[Len(made) + 1] = e /\ Len(made) + 1 \in DOMAIN made'
      BY <1>2, <1>5
  <2>2. e.sealed.signature = e.signature
      BY <1>4 DEF IsCast
  <2> QED BY <2>1, <2>2 DEF OfMade
<1>8. \A i \in DOMAIN rows : OfMade(rows[i], made')
  <2>1. \A r : OfMade(r, made) => OfMade(r, made')
      BY <1>2, <1>5, MoreAreMade
  <2> QED BY <2>1 DEF ValidationIInv, RowsAreOfMade
<1>9. /\ rows' \in Seq(RowsOfVotes) /\ Len(rows') <= Len(rows) + 1
      /\ \A i \in DOMAIN rows' : (i \in DOMAIN rows /\ rows'[i] = rows[i]) \/ rows'[i] = e
  <2> DEFINE same == {i \in DOMAIN rows : Slot(rows[i]) = Slot(e)}
  <2>1. CASE same = {}
    <3>1. rows' = Append(rows, e)
        BY <1>5, <2>1 DEF Put
    <3> QED BY <1>2, <1>3, <3>1
  <2>2. CASE same # {}
    <3>1. PICK i \in DOMAIN rows : rows' = [rows EXCEPT ![i] = e]
        BY <1>5, <2>2 DEF Put
    <3> QED BY <1>2, <1>3, <3>1
  <2> QED BY <2>1, <2>2
<1>10. RowsAreOfMade'
  <2>1. \A i \in DOMAIN rows' : OfMade(rows'[i], made')
      BY <1>7, <1>8, <1>9
  <2> QED BY <1>9, <2>1 DEF RowsAreOfMade
<1>11. ValidationTypeOK' /\ CastBeforeJudged'
  <2>1. Len(made') = Len(made) + 1 /\ Len(made) \in Nat /\ Len(rows) \in Nat /\ Len(rows') \in Nat
      BY <1>2, <1>5, <1>9
  <2>2. Len(made') <= MaxCast /\ Len(rows') <= Len(made')
      BY <1>2, <1>9, <2>1, ValidationAssumption
  <2>3. ValidationTypeOK
      BY DEF ValidationIInv, ValidationHolds
  <2> QED BY <1>2, <2>1, <2>2, <2>3 DEF ValidationTypeOK, CastBeforeJudged
<1>12. (WithoutAnomalyIsCast /\ OldIsTheVotersOwn /\ UnchangedIsNotBad)'
    BY <1>2 DEF WithoutAnomalyIsCast, OldIsTheVotersOwn, UnchangedIsNotBad
<1> QED BY <1>6, <1>10, <1>11, <1>12 DEF ValidationIInv, ValidationHolds

\* What was found stands as long as nothing is cast, changed or judged.
LEMMA FoundStands ==
    ASSUME WithoutAnomalyIsCast, OldIsTheVotersOwn, UnchangedIsNotBad,
           UNCHANGED <<made, rows, judged, anomalies>>
    PROVE  (WithoutAnomalyIsCast /\ OldIsTheVotersOwn /\ UnchangedIsNotBad)'
<1>1. \A i : KindsOf(i)' = KindsOf(i)
    BY DEF KindsOf
<1>2. WithoutAnomalyIsCast'
    BY <1>1 DEF WithoutAnomalyIsCast
<1>3. OldIsTheVotersOwn'
    BY <1>1 DEF OldIsTheVotersOwn
<1>4. Casts' = Casts
    BY DEF Casts
<1>5. UnchangedIsNotBad'
    BY <1>1, <1>4 DEF UnchangedIsNotBad
<1> QED BY <1>2, <1>3, <1>5

\* A day passes while an envelope is written.
LEMMA MidnightKeeps ==
    ASSUME ValidationIInv, Midnight
    PROVE  ValidationIInv'
<1>1. /\ today < MaxDay /\ today' = today + 1
      /\ UNCHANGED <<casting, made, rows, changes, judged, remaining, anomalies, outcome>>
    BY DEF Midnight
<1>2. ValidationTypeOK'
    BY <1>1, ValidationAssumption DEF ValidationIInv, ValidationHolds, ValidationTypeOK
<1>3. (MadeIsCast /\ RowsAreOfMade /\ CastBeforeJudged)'
    BY <1>1 DEF ValidationIInv, MadeIsCast, RowsAreOfMade, CastBeforeJudged
<1>4. (WithoutAnomalyIsCast /\ OldIsTheVotersOwn /\ UnchangedIsNotBad)'
    BY <1>1, FoundStands DEF ValidationIInv, ValidationHolds
<1> QED BY <1>2, <1>3, <1>4 DEF ValidationIInv, ValidationHolds

\* A row becomes another whose ciphertext and signatures are some that were made.
LEMMA ChangeOfRowKeeps ==
    ASSUME ValidationIInv, NEW i \in DOMAIN rows, NEW r \in RowsOfVotes, OfMade(r, made),
           rows' = [rows EXCEPT ![i] = r], judged = 0, changes < MaxChanges,
           changes' = changes + 1,
           UNCHANGED <<today, casting, made, judged, remaining, anomalies, outcome>>
    PROVE  ValidationIInv'
<1>1. rows \in Seq(RowsOfVotes)
    BY DEF ValidationIInv, RowsAreOfMade
<1>2. rows' \in Seq(RowsOfVotes) /\ Len(rows') = Len(rows)
    BY <1>1
<1>3. RowsAreOfMade'
  <2>1. \A k \in DOMAIN rows' : k \in DOMAIN rows /\ (rows'[k] = rows[k] \/ rows'[k] = r)
      BY <1>1
  <2>2. \A k \in DOMAIN rows' : OfMade(rows'[k], made')
      BY <2>1 DEF ValidationIInv, RowsAreOfMade
  <2> QED BY <1>2, <2>2 DEF RowsAreOfMade
<1>4. ValidationTypeOK'
    BY <1>2, ValidationAssumption DEF ValidationIInv, ValidationHolds, ValidationTypeOK
<1>5. (MadeIsCast /\ CastBeforeJudged)'
    BY DEF ValidationIInv, MadeIsCast, CastBeforeJudged
<1>6. (WithoutAnomalyIsCast /\ OldIsTheVotersOwn /\ UnchangedIsNotBad)'
    BY DEF WithoutAnomalyIsCast, OldIsTheVotersOwn, UnchangedIsNotBad
<1> QED BY <1>3, <1>4, <1>5, <1>6 DEF ValidationIInv, ValidationHolds

\* Each column that somebody may change.
LEMMA ChangeKeeps ==
    ASSUME ValidationIInv, Change
    PROVE  ValidationIInv'
<1>1. PICK i \in DOMAIN rows, j \in DOMAIN made :
         \/ rows' = [rows EXCEPT ![i].voter = made[j].voter]
         \/ \E b \in BallotIds \union {Other} : rows' = [rows EXCEPT ![i].ballot = b]
         \/ rows' = [rows EXCEPT ![i].cipher = made[j].cipher]
         \/ rows' = [rows EXCEPT ![i].hash = made[j].hash]
         \/ \E salt \in {made[j].salt, NoSalt} : rows' = [rows EXCEPT ![i].salt = salt]
         \/ \E n \in 1 .. MaxCast + 1 : rows' = [rows EXCEPT ![i].sequence = n]
         \/ rows' = [rows EXCEPT ![i].signature = made[j].signature]
         \/ \E for \in {made[j].sealed.for, Slot(rows[i])} :
               rows' = [rows EXCEPT ![i].sealed = [made[j].sealed EXCEPT !.for = for]]
         \/ \E d \in 0 .. MaxDay : rows' = [rows EXCEPT ![i].day = d]
    BY DEF Change
<1>2. /\ judged = 0 /\ changes < MaxChanges /\ changes' = changes + 1
      /\ UNCHANGED <<today, casting, made, judged, remaining, anomalies, outcome>>
    BY DEF Change
<1>3. /\ rows[i] \in RowsOfVotes /\ OfMade(rows[i], made)
      /\ made[j] \in RowsOfVotes /\ IsCast(made[j], j)
    BY DEF ValidationIInv, RowsAreOfMade, MadeIsCast
<1>4. SUFFICES \E r \in RowsOfVotes : OfMade(r, made) /\ rows' = [rows EXCEPT ![i] = r]
    BY <1>2, ChangeOfRowKeeps
<1>5. CASE rows' = [rows EXCEPT ![i].voter = made[j].voter]
  <2> DEFINE r == [rows[i] EXCEPT !.voter = made[j].voter]
  <2>1. r \in RowsOfVotes /\ OfMade(r, made)
      BY <1>3 DEF RowsOfVotes, OfMade
  <2> QED BY <1>5, <2>1
<1>6. ASSUME NEW b \in BallotIds \union {Other}, rows' = [rows EXCEPT ![i].ballot = b]
      PROVE  \E r \in RowsOfVotes : OfMade(r, made) /\ rows' = [rows EXCEPT ![i] = r]
  <2> DEFINE r == [rows[i] EXCEPT !.ballot = b]
  <2>1. r \in RowsOfVotes /\ OfMade(r, made)
      BY <1>3 DEF RowsOfVotes, OfMade
  <2> QED BY <1>6, <2>1
<1>7. CASE rows' = [rows EXCEPT ![i].cipher = made[j].cipher]
  <2> DEFINE r == [rows[i] EXCEPT !.cipher = made[j].cipher]
  <2>1. r \in RowsOfVotes /\ OfMade(r, made)
      BY <1>3 DEF RowsOfVotes, OfMade
  <2> QED BY <1>7, <2>1
<1>8. CASE rows' = [rows EXCEPT ![i].hash = made[j].hash]
  <2> DEFINE r == [rows[i] EXCEPT !.hash = made[j].hash]
  <2>1. r \in RowsOfVotes /\ OfMade(r, made)
      BY <1>3 DEF RowsOfVotes, OfMade
  <2> QED BY <1>8, <2>1
<1>9. ASSUME NEW salt \in {made[j].salt, NoSalt}, rows' = [rows EXCEPT ![i].salt = salt]
      PROVE  \E r \in RowsOfVotes : OfMade(r, made) /\ rows' = [rows EXCEPT ![i] = r]
  <2> DEFINE r == [rows[i] EXCEPT !.salt = salt]
  <2>1. salt \in Nat
      BY <1>3 DEF RowsOfVotes, NoSalt
  <2>2. r \in RowsOfVotes /\ OfMade(r, made)
      BY <1>3, <2>1 DEF RowsOfVotes, OfMade
  <2> QED BY <1>9, <2>2
<1>10. ASSUME NEW n \in 1 .. MaxCast + 1, rows' = [rows EXCEPT ![i].sequence = n]
       PROVE  \E r \in RowsOfVotes : OfMade(r, made) /\ rows' = [rows EXCEPT ![i] = r]
  <2> DEFINE r == [rows[i] EXCEPT !.sequence = n]
  <2>1. n \in Nat \ {0}
      BY ValidationAssumption
  <2>2. r \in RowsOfVotes /\ OfMade(r, made)
      BY <1>3, <2>1 DEF RowsOfVotes, OfMade
  <2> QED BY <1>10, <2>2
<1>11. CASE rows' = [rows EXCEPT ![i].signature = made[j].signature]
  <2> DEFINE r == [rows[i] EXCEPT !.signature = made[j].signature]
  <2>1. r \in RowsOfVotes /\ OfMade(r, made)
      BY <1>3 DEF RowsOfVotes, OfMade
  <2> QED BY <1>11, <2>1
<1>12. ASSUME NEW for \in {made[j].sealed.for, Slot(rows[i])},
              rows' = [rows EXCEPT ![i].sealed = [made[j].sealed EXCEPT !.for = for]]
       PROVE  \E r \in RowsOfVotes : OfMade(r, made) /\ rows' = [rows EXCEPT ![i] = r]
  <2> DEFINE sealed == [made[j].sealed EXCEPT !.for = for]
             r == [rows[i] EXCEPT !.sealed = sealed]
  <2>1. for \in Slots
      BY <1>3 DEF RowsOfVotes, SealedSignatures, Slot, Slots
  <2>2. sealed \in SealedSignatures
      BY <1>3, <2>1 DEF RowsOfVotes, SealedSignatures
  <2>3. sealed.signature = made[j].signature /\ sealed.format = made[j].sealed.format
      BY <1>3 DEF RowsOfVotes, SealedSignatures, IsCast
  <2>4. rows' = [rows EXCEPT ![i] = r]
      BY <1>12
  <2> HIDE DEF sealed
  <2>5. r \in RowsOfVotes /\ OfMade(r, made)
      BY <1>3, <2>2, <2>3 DEF RowsOfVotes, OfMade
  <2> QED BY <2>4, <2>5
<1>13. ASSUME NEW d \in 0 .. MaxDay, rows' = [rows EXCEPT ![i].day = d]
       PROVE  \E r \in RowsOfVotes : OfMade(r, made) /\ rows' = [rows EXCEPT ![i] = r]
  <2> DEFINE r == [rows[i] EXCEPT !.day = d]
  <2>1. d \in Nat
      BY ValidationAssumption
  <2>2. r \in RowsOfVotes /\ OfMade(r, made)
      BY <1>3, <2>1 DEF RowsOfVotes, OfMade
  <2> QED BY <1>13, <2>2
<1> QED BY <1>1, <1>5, <1>6, <1>7, <1>8, <1>9, <1>10, <1>11, <1>12, <1>13

\* What was found of the first rows, and of one more.
AreOf(found, n) == \A a \in found : a[1] \in 1 .. n
With(found, n, kinds) == found \union {<<n + 1, k>> : k \in kinds}
KindsIn(i, found) == {a[2] : a \in {b \in found : b[1] = i}}

\* What is found of one row more leaves what was found of the others.
LEMMA OneMoreIsJudged ==
    ASSUME NEW n \in Nat, NEW found, AreOf(found, n), NEW kinds
    PROVE  /\ \A i \in 1 .. n : KindsIn(i, With(found, n, kinds)) = KindsIn(i, found)
           /\ KindsIn(n + 1, With(found, n, kinds)) = kinds
           /\ AreOf(With(found, n, kinds), n + 1)
<1> DEFINE more == With(found, n, kinds)
<1>1. \A a \in more : (a \in found /\ a[1] \in 1 .. n) \/ \E k \in kinds : a = <<n + 1, k>>
    BY DEF AreOf, With
<1>2. \A i \in 1 .. n : {b \in more : b[1] = i} = {b \in found : b[1] = i}
    BY <1>1 DEF With
<1>3. {b \in more : b[1] = n + 1} = {<<n + 1, k>> : k \in kinds}
    BY <1>1 DEF With, AreOf
<1> DEFINE pairs == {<<n + 1, k>> : k \in kinds}
<1>4. {a[2] : a \in pairs} = kinds
  <2>1. \A a \in pairs : a[2] \in kinds
      OBVIOUS
  <2>2. \A k \in kinds : <<n + 1, k>> \in pairs /\ <<n + 1, k>>[2] = k
      OBVIOUS
  <2> HIDE DEF pairs
  <2> QED BY <2>1, <2>2
<1> QED BY <1>1, <1>2, <1>3, <1>4 DEF KindsIn, AreOf

\* One row is judged.
LEMMA JudgeKeeps ==
    ASSUME ValidationIInv, Judge
    PROVE  ValidationIInv'
<1> DEFINE r == rows[judged + 1]
<1>1. /\ judged < Len(rows) /\ casting = {} /\ judged' = judged + 1
      /\ anomalies' = anomalies \union {<<judged + 1, k>> : k \in Kinds(r)}
      /\ remaining' = IF IsLegacy(r) THEN remaining - Probes(r) ELSE remaining
      /\ outcome' \in {"none", "report"}
      /\ UNCHANGED <<today, casting, made, rows, changes>>
    BY DEF Judge
<1>2. /\ ValidationTypeOK /\ MadeIsCast /\ rows \in Seq(RowsOfVotes)
      /\ judged \in Nat /\ remaining \in Nat
    BY ValidationAssumption
    DEF ValidationIInv, ValidationHolds, ValidationTypeOK, RowsAreOfMade
<1>3. judged + 1 \in DOMAIN rows
    BY <1>1, <1>2
<1>4. r \in RowsOfVotes /\ OfMade(r, made)
    BY <1>2, <1>3 DEF ValidationIInv, RowsAreOfMade
<1>5. PICK n \in Nat : n = judged + 1
    BY <1>2
<1>6. rows[n] \in RowsOfVotes /\ OfMade(rows[n], made) /\ r = rows[n]
    BY <1>4, <1>5
<1> HIDE DEF r
<1>7. /\ \A i \in 1 .. judged : KindsOf(i)' = KindsOf(i)
      /\ KindsOf(n)' = Kinds(rows[n])
      /\ \A a \in anomalies' : a[1] \in 1 .. judged'
  <2>1. AreOf(anomalies, judged)
      BY <1>2 DEF ValidationTypeOK, AreOf
  <2>2. anomalies' = With(anomalies, judged, Kinds(r))
      BY <1>1 DEF With
  <2>3. /\ \A i \in 1 .. judged : KindsIn(i, anomalies') = KindsIn(i, anomalies)
        /\ KindsIn(judged + 1, anomalies') = Kinds(r)
        /\ \A a \in anomalies' : a[1] \in 1 .. judged + 1
      BY <1>2, <2>1, <2>2, OneMoreIsJudged DEF AreOf
  <2>4. \A i : KindsOf(i)' = KindsIn(i, anomalies') /\ KindsOf(i) = KindsIn(i, anomalies)
      BY DEF KindsIn, KindsOf
  <2> QED BY <1>1, <1>5, <1>6, <2>3, <2>4
<1>8. \A i \in 1 .. judged' : i \in 1 .. judged \/ i = n
    BY <1>1, <1>2, <1>5
<1>9. ValidationTypeOK'
  <2>1. remaining' \in 0 .. MAX_TOTAL_STALE_PROBES
      BY <1>1, <1>2, <1>4, ProbesAreLeft, ValidationAssumption DEF ValidationTypeOK
  <2> QED BY <1>1, <1>2, <1>7, <2>1 DEF ValidationTypeOK
<1>10. WithoutAnomalyIsCast'
  <2>1. ASSUME NEW i \in 1 .. judged', KindsOf(i)' = {}
        PROVE  /\ MayVoteOn(rows[i].voter, rows[i].ballot)
               /\ \E j \in DOMAIN made :
                     /\ made[j].format = "now"
                     /\ <<made[j].voter, made[j].ballot, made[j].cipher, made[j].hash,
                          made[j].sequence>>
                        = <<rows[i].voter, rows[i].ballot, rows[i].cipher, rows[i].hash,
                            rows[i].sequence>>
    <3>1. CASE i \in 1 .. judged
        BY <1>7, <2>1, <3>1 DEF ValidationIInv, ValidationHolds, WithoutAnomalyIsCast
    <3>2. CASE i = n
        BY <1>2, <1>6, <1>7, <2>1, <3>2, NothingFoundIsCast
    <3> QED BY <1>8, <3>1, <3>2
  <2> QED BY <1>1, <2>1 DEF WithoutAnomalyIsCast
<1>11. OldIsTheVotersOwn'
  <2>1. ASSUME NEW i \in 1 .. judged', "BAD_SIGNATURE" \notin KindsOf(i)'
        PROVE  \E j \in DOMAIN made :
                  /\ <<made[j].voter, made[j].ballot, made[j].hash>>
                     = <<rows[i].voter, rows[i].ballot, rows[i].hash>>
                  /\ IF "STALE_SEQUENCE" \in KindsOf(i)'
                     THEN made[j].sequence < rows[i].sequence
                     ELSE made[j].sequence = rows[i].sequence
    <3>1. CASE i \in 1 .. judged
        BY <1>7, <2>1, <3>1 DEF ValidationIInv, ValidationHolds, OldIsTheVotersOwn
    <3>2. CASE i = n
      <4>1. SignatureVerdict(rows[n]) # "bad"
          BY <1>7, <2>1, <3>2, KindsOfARow
      <4>2. "STALE_SEQUENCE" \in KindsOf(i)' <=> SignatureVerdict(rows[n]) = "stale"
          BY <1>7, <3>2, KindsOfARow
      <4> QED BY <1>2, <1>6, <3>2, <4>1, <4>2, VerdictIsOfTheVoter
    <3> QED BY <1>8, <3>1, <3>2
  <2> QED BY <1>1, <2>1 DEF OldIsTheVotersOwn
<1>12. UnchangedIsNotBad'
  <2>1. ASSUME NEW i \in 1 .. judged', rows[i] \in Casts,
               rows[i].day <= rows[i].sealed.signature.last
        PROVE  KindsOf(i)' = ExpectedKinds(rows[i])
    <3>1. CASE i \in 1 .. judged
        BY <1>7, <2>1, <3>1 DEF ValidationIInv, ValidationHolds, UnchangedIsNotBad
    <3>2. CASE i = n
      <4>1. PICK j \in DOMAIN made : rows[n] = made[j]
          BY <2>1, <3>2 DEF Casts
      <4> QED BY <1>2, <1>7, <2>1, <3>2, <4>1, UnchangedHasItsKinds
    <3> QED BY <1>8, <3>1, <3>2
  <2>2. Casts' = Casts
      BY <1>1 DEF Casts
  <2> QED BY <1>1, <2>1, <2>2 DEF UnchangedIsNotBad
<1>13. (MadeIsCast /\ RowsAreOfMade /\ CastBeforeJudged)'
    BY <1>1 DEF ValidationIInv, MadeIsCast, RowsAreOfMade, CastBeforeJudged
<1> QED BY <1>9, <1>10, <1>11, <1>12, <1>13 DEF ValidationIInv, ValidationHolds

\* The run throws before a row is judged.
LEMMA ConfigurationIsMissingKeeps ==
    ASSUME ValidationIInv, ConfigurationIsMissing
    PROVE  ValidationIInv'
<1>1. /\ outcome' = "failed" /\ judged = 0
      /\ UNCHANGED <<today, casting, made, rows, changes, judged, remaining, anomalies>>
    BY DEF ConfigurationIsMissing
<1>2. (ValidationTypeOK /\ MadeIsCast /\ RowsAreOfMade /\ CastBeforeJudged)'
    BY <1>1 DEF ValidationIInv, ValidationHolds, ValidationTypeOK, MadeIsCast, RowsAreOfMade,
                CastBeforeJudged
<1>3. (WithoutAnomalyIsCast /\ OldIsTheVotersOwn /\ UnchangedIsNotBad)'
    BY <1>1 DEF WithoutAnomalyIsCast, OldIsTheVotersOwn, UnchangedIsNotBad
<1> QED BY <1>2, <1>3 DEF ValidationIInv, ValidationHolds

\* Nothing is cast yet.
LEMMA ValidationStarts == ValidationInit => ValidationIInv
BY ValidationAssumption
DEF ValidationInit, ValidationIInv, ValidationHolds, ValidationTypeOK, WithoutAnomalyIsCast,
    OldIsTheVotersOwn, UnchangedIsNotBad, MadeIsCast, RowsAreOfMade, CastBeforeJudged

\* Every step of the validation keeps the invariant.
LEMMA ValidationKeeps == ValidationIInv /\ [ValidationNext]_validationVars => ValidationIInv'
<1> SUFFICES ASSUME ValidationIInv, [ValidationNext]_validationVars
             PROVE  ValidationIInv'
    OBVIOUS
<1>1. CASE UNCHANGED validationVars
  <2>1. (WithoutAnomalyIsCast /\ OldIsTheVotersOwn /\ UnchangedIsNotBad)'
      BY <1>1, FoundStands DEF validationVars, ValidationIInv, ValidationHolds
  <2>2. (ValidationTypeOK /\ MadeIsCast /\ RowsAreOfMade /\ CastBeforeJudged)'
      BY <1>1 DEF validationVars, ValidationIInv, ValidationHolds, ValidationTypeOK, MadeIsCast,
         RowsAreOfMade, CastBeforeJudged
  <2> QED BY <2>1, <2>2 DEF ValidationIInv, ValidationHolds
<1>2. CASE ValidationNext
    BY <1>2, AcceptKeeps, WriteOfVoteKeeps, MidnightKeeps, ChangeKeeps, JudgeKeeps,
       ConfigurationIsMissingKeeps DEF ValidationNext
<1> QED BY <1>1, <1>2

\* A row in which the validation finds nothing was cast by its voter as it stands;
\* one that is not said to be bad is her own; and one that nobody changed is not said
\* to be, whatever columns of whatever rows were changed
\* (validate-before-close.usecase.ts validateEnvelopes).
THEOREM ValidationAlwaysHolds == ValidationSpec => []ValidationHolds
<1>1. ValidationInit => ValidationIInv
    BY ValidationStarts
<1>2. ValidationIInv /\ [ValidationNext]_validationVars => ValidationIInv'
    BY ValidationKeeps
<1>3. ValidationIInv => ValidationHolds
    BY DEF ValidationIInv
<1> QED BY <1>1, <1>2, <1>3, PTL DEF ValidationSpec

----------------------------------------------------------------------------
(***************************************************************************)
(* The publication of results, for any number of ballots, trustees, writes *)
(* past the application and changes of the document.  First, the sums of   *)
(* counts that are published.                                              *)
(***************************************************************************)
\* A function of the first numbers is a sequence.
LEMMA FunctionIsSequence ==
    ASSUME NEW S, NEW n \in Nat, NEW f \in [1..n -> S]
    PROVE  f \in Seq(S) /\ Len(f) = n
OBVIOUS

\* What Total computes, place by place.
AddsUpTo(f, counts, last) ==
    f = [n \in 0..last |-> IF n = 0 THEN 0 ELSE f[n - 1] + counts[n]]

LEMMA SumIsThere ==
    ASSUME NEW counts, NEW len \in Nat
    PROVE  \E f : AddsUpTo(f, counts, len)
<1> DEFINE Bad == {n \in Nat : ~ \E f : AddsUpTo(f, counts, n)}
<1> SUFFICES ASSUME Bad # {} PROVE FALSE
    OBVIOUS
<1>1. PICK n \in Bad : \A m \in Bad : n <= m
    BY Smallest
<1>2. n # 0
  <2> SUFFICES ASSUME n = 0 PROVE FALSE
    OBVIOUS
  <2> DEFINE f == [i \in 0..0 |-> 0]
  <2>1. AddsUpTo(f, counts, 0)
    BY DEF AddsUpTo
  <2> HIDE DEF f
  <2> QED BY <2>1
<1>3. n - 1 \in Nat /\ n - 1 \notin Bad
    BY <1>1, <1>2
<1>4. PICK f : AddsUpTo(f, counts, n - 1)
    BY <1>3
<1> DEFINE g == [i \in 0..n |-> IF i < n THEN f[i] ELSE f[n - 1] + counts[n]]
<1>5. AddsUpTo(g, counts, n)
  <2>1. \A i \in 0..n - 1 : f[i] = IF i = 0 THEN 0 ELSE f[i - 1] + counts[i]
    BY <1>3, <1>4 DEF AddsUpTo
  <2>2. ASSUME NEW i \in 0..n
        PROVE  g[i] = IF i = 0 THEN 0 ELSE g[i - 1] + counts[i]
    <3>1. CASE i < n
      <4>1. i \in 0..n - 1 /\ g[i] = f[i] /\ (i # 0 => i - 1 \in 0..n /\ g[i - 1] = f[i - 1])
        BY <1>3, <3>1
      <4> QED BY <2>1, <4>1
    <3>2. CASE i = n
      <4>1. n - 1 \in 0..n /\ g[n - 1] = f[n - 1]
        BY <1>3
      <4> QED BY <1>2, <3>2, <4>1
    <3> QED BY <3>1, <3>2
  <2>3. g = [i \in 0..n |-> g[i]]
    OBVIOUS
  <2> HIDE DEF g
  <2> QED BY <2>2, <2>3 DEF AddsUpTo
<1> HIDE DEF g
<1> QED BY <1>5

\* The sums of the first counts, up to that of all.
LEMMA PartialSums ==
    ASSUME NEW n \in Nat, NEW counts \in [1..n -> Nat]
    PROVE  \E f \in [0..n -> Nat] :
               f[0] = 0 /\ f[n] = Total(counts) /\ \A i \in 1..n : f[i] = f[i - 1] + counts[i]
<1> DEFINE f == CHOOSE g : AddsUpTo(g, counts, n)
<1>1. counts \in Seq(Nat) /\ Len(counts) = n
    BY FunctionIsSequence
<1>2. AddsUpTo(f, counts, n)
  <2>1. \E g : AddsUpTo(g, counts, n)
    BY SumIsThere
  <2> QED BY <2>1, Zenon
<1>3. Total(counts) = f[n]
    BY <1>1 DEF Total, AddsUpTo
<1> HIDE DEF f
<1>4. /\ DOMAIN f = 0..n /\ f = [i \in 0..n |-> f[i]]
      /\ \A i \in 0..n : f[i] = IF i = 0 THEN 0 ELSE f[i - 1] + counts[i]
  <2>1. f = [i \in 0..n |-> IF i = 0 THEN 0 ELSE f[i - 1] + counts[i]]
    BY <1>2 DEF AddsUpTo
  <2> QED BY <2>1
<1>5. \A i \in 0..n : f[i] \in Nat
  <2> DEFINE Bad == {i \in 0..n : f[i] \notin Nat}
  <2> SUFFICES ASSUME Bad # {} PROVE FALSE
    OBVIOUS
  <2>0. Bad \in SUBSET Nat
    OBVIOUS
  <2>1. PICK i \in Bad : \A m \in Bad : i <= m
    <3> HIDE DEF Bad
    <3> QED BY <2>0, Smallest
  <2>2. i # 0
    BY <1>4, <2>1
  <2>3. i \in 0..n /\ i - 1 \in 0..n /\ i - 1 \notin Bad /\ counts[i] \in Nat
    BY <2>1, <2>2
  <2>4. f[i] = f[i - 1] + counts[i] /\ f[i - 1] \in Nat
    BY <1>4, <2>2, <2>3
  <2> QED BY <2>1, <2>3, <2>4
<1>6. f[0] = 0 /\ \A i \in 1..n : f[i] = f[i - 1] + counts[i]
  <2>1. 0 \in 0..n /\ \A i \in 1..n : i \in 0..n /\ i # 0
    OBVIOUS
  <2> QED BY <1>4, <2>1
<1> QED BY <1>3, <1>4, <1>5, <1>6

\* A total is a number; of no counts, none.
LEMMA TotalIsANumber ==
    ASSUME NEW n \in Nat, NEW counts \in [1..n -> Nat]
    PROVE  Total(counts) \in Nat /\ (n = 0 => Total(counts) = 0)
<1>1. PICK f \in [0..n -> Nat] : f[0] = 0 /\ f[n] = Total(counts)
    BY PartialSums
<1> QED BY <1>1

\* The last of the counts comes on top of the others.
LEMMA LastComesOnTop ==
    ASSUME NEW n \in Nat \ {0}, NEW counts \in [1..n -> Nat], NEW others \in [1..(n - 1) -> Nat],
           \A i \in 1..(n - 1) : others[i] = counts[i]
    PROVE  Total(counts) = Total(others) + counts[n]
<1>1. PICK f \in [0..n -> Nat] :
          f[0] = 0 /\ f[n] = Total(counts) /\ \A i \in 1..n : f[i] = f[i - 1] + counts[i]
    BY PartialSums
<1>2. PICK g \in [0..(n - 1) -> Nat] :
          /\ g[0] = 0 /\ g[n - 1] = Total(others)
          /\ \A i \in 1..(n - 1) : g[i] = g[i - 1] + others[i]
    BY PartialSums, n - 1 \in Nat
<1> DEFINE Bad == {i \in 0..(n - 1) : f[i] # g[i]}
<1>3. Bad = {}
  <2> SUFFICES ASSUME Bad # {} PROVE FALSE
    OBVIOUS
  <2>0. Bad \in SUBSET Nat
    OBVIOUS
  <2>1. PICK i \in Bad : \A m \in Bad : i <= m
    <3> HIDE DEF Bad
    <3> QED BY <2>0, Smallest
  <2>2. i # 0
    BY <1>1, <1>2, <2>1
  <2>3. i - 1 \in 0..(n - 1) /\ i - 1 \notin Bad /\ i \in 1..n /\ i \in 1..(n - 1)
    BY <2>1, <2>2
  <2>4. f[i] = f[i - 1] + counts[i] /\ g[i] = g[i - 1] + others[i] /\ f[i - 1] = g[i - 1]
    BY <1>1, <1>2, <2>3
  <2> QED BY <2>1, <2>3, <2>4
<1>4. f[n - 1] = g[n - 1] /\ n \in 1..n
  <2>1. n - 1 \in 0..(n - 1) /\ n \in 1..n
    OBVIOUS
  <2>2. n - 1 \notin Bad
    BY <1>3
  <2> QED BY <2>1, <2>2
<1> QED BY <1>1, <1>2, <1>4

LEMMA AlsoOnTop ==
    ASSUME NEW a \in Nat, NEW b \in Nat, NEW c \in Nat, NEW d \in Nat,
           NEW x, NEW y, x = a + d, y = b + d
    PROVE  /\ a = b => x = y
           /\ a = b + c => x = y + c
OBVIOUS

\* With one of the counts struck out, the total is less by that one.
LEMMA StruckOut ==
    ASSUME NEW n \in Nat, NEW counts \in [1..n -> Nat], NEW others \in [1..n -> Nat],
           NEW j \in 1..n
    PROVE  others[j] = 0 /\ (\A i \in 1..n : i # j => others[i] = counts[i]) =>
               Total(counts) = Total(others) + counts[j]
<1>0. SUFFICES ASSUME others[j] = 0, \A i \in 1..n : i # j => others[i] = counts[i]
               PROVE  Total(counts) = Total(others) + counts[j]
    OBVIOUS
<1>1. PICK f \in [0..n -> Nat] :
          f[0] = 0 /\ f[n] = Total(counts) /\ \A i \in 1..n : f[i] = f[i - 1] + counts[i]
    BY PartialSums
<1>2. PICK g \in [0..n -> Nat] :
          g[0] = 0 /\ g[n] = Total(others) /\ \A i \in 1..n : g[i] = g[i - 1] + others[i]
    BY PartialSums
<1> DEFINE Good(i) == (i < j => f[i] = g[i]) /\ (j <= i => f[i] = g[i] + counts[j])
           Bad == {i \in 0..n : ~Good(i)}
<1>3. ASSUME NEW i \in Bad, \A m \in Bad : i <= m
      PROVE  FALSE
  <2>1. CASE i = 0
    <3>1. Good(0)
      BY <1>1, <1>2
    <3> QED BY <2>1, <3>1
  <2>2. CASE i # 0
    <3>1. i \in 0..n
      OBVIOUS
    <3> HIDE DEF Bad, Good
    <3>2. i - 1 \in 0..n /\ i \in 1..n /\ ~(i <= i - 1)
      BY <2>2, <3>1
    <3>3. Good(i - 1)
      BY <1>3, <3>2 DEF Bad
    <3>4. /\ f[i - 1] \in Nat /\ g[i - 1] \in Nat /\ counts[i] \in Nat /\ counts[j] \in Nat
          /\ f[i] = f[i - 1] + counts[i] /\ g[i] = g[i - 1] + others[i]
      BY <1>1, <1>2, <3>2
    <3>5. CASE i = j
      <4>1. i - 1 < j /\ others[i] = 0 /\ counts[i] = counts[j]
        BY <1>0, <3>2, <3>5
      <4>2. f[i - 1] = g[i - 1]
        BY <3>3, <4>1 DEF Good
      <4>3. f[i] = g[i] + counts[j] /\ ~(i < j)
        BY <3>2, <3>4, <3>5, <4>1, <4>2
      <4>4. Good(i)
        BY <4>3 DEF Good
      <4> QED BY <4>4 DEF Bad
    <3>6. CASE i < j
      <4>1. i - 1 < j /\ others[i] = counts[i] /\ ~(j <= i)
        BY <1>0, <3>2, <3>6
      <4>2. f[i - 1] = g[i - 1] /\ g[i] = g[i - 1] + counts[i]
        BY <3>3, <3>4, <4>1 DEF Good
      <4>3. f[i] = g[i]
        BY <3>4, <4>2, AlsoOnTop
      <4>4. Good(i)
        BY <4>1, <4>3 DEF Good
      <4> QED BY <4>4 DEF Bad
    <3>7. CASE j < i
      <4>1. j <= i - 1 /\ others[i] = counts[i] /\ ~(i < j)
        BY <1>0, <3>2, <3>7
      <4>2. f[i - 1] = g[i - 1] + counts[j] /\ g[i] = g[i - 1] + counts[i]
        BY <3>3, <3>4, <4>1 DEF Good
      <4>3. f[i] = g[i] + counts[j]
        <5>1. /\ f[i - 1] \in Nat /\ g[i - 1] \in Nat /\ counts[j] \in Nat /\ counts[i] \in Nat
              /\ f[i] = f[i - 1] + counts[i]
          BY <3>4
        <5> QED BY <5>1, <4>2, AlsoOnTop, SMTT(30)
      <4>4. Good(i)
        BY <4>1, <4>3 DEF Good
      <4> QED BY <4>4 DEF Bad
    <3> QED BY <3>2, <3>5, <3>6, <3>7
  <2> QED BY <2>1, <2>2
<1>4. Bad = {}
  <2>1. Bad \in SUBSET Nat
    OBVIOUS
  <2> HIDE DEF Bad
  <2> QED BY <1>3, <2>1, Smallest
<1>5. n \in 0..n /\ j <= n
    OBVIOUS
<1>6. f[n] = g[n] + counts[j]
  <2>1. Good(n)
    BY <1>4, <1>5
  <2> QED BY <1>5, <2>1
<1> QED BY <1>1, <1>2, <1>6

\* Some of the weights, each once, come to no more than all of them.
LEMMA SomeAreNotMore ==
    ASSUME NEW m \in Nat, NEW n \in Nat, NEW weight \in [1..m -> Nat],
           NEW pick \in [1..n -> 1..m], IsInjective(pick)
    PROVE  Total([i \in 1..n |-> weight[pick[i]]]) <= Total(weight)
<1> DEFINE Holds(k) ==
        \A w \in [1..m -> Nat], p \in [1..k -> 1..m] :
            IsInjective(p) => Total([i \in 1..k |-> w[p[i]]]) <= Total(w)
           Bad == {k \in Nat : ~Holds(k)}
<1> SUFFICES ASSUME Bad # {} PROVE FALSE
  <2>1. Holds(n)
    OBVIOUS
  <2> HIDE DEF Bad
  <2> QED BY <2>1
<1>1. PICK k \in Bad : \A l \in Bad : k <= l
    BY Smallest
<1>2. ASSUME NEW w \in [1..m -> Nat], NEW p \in [1..k -> 1..m], IsInjective(p)
      PROVE  Total([i \in 1..k |-> w[p[i]]]) <= Total(w)
  <2> DEFINE c == [i \in 1..k |-> w[p[i]]]
  <2>1. c \in [1..k -> Nat] /\ k \in Nat /\ Total(w) \in Nat
    BY <1>1, TotalIsANumber
  <2>2. CASE k = 0
    <3>1. Total(c) = 0
      BY <2>1, <2>2, TotalIsANumber
    <3> QED BY <2>1, <3>1
  <2>3. CASE k # 0
    <3> DEFINE v == [w EXCEPT ![p[k]] = 0]
               q == [i \in 1..(k - 1) |-> p[i]]
               d == [i \in 1..(k - 1) |-> v[q[i]]]
    <3>1. /\ k - 1 \in Nat /\ k \in Nat \ {0} /\ k \in 1..k /\ p[k] \in 1..m
          /\ \A i \in 1..(k - 1) : i \in 1..k /\ i # k
      BY <2>1, <2>3
    <3>2. /\ v \in [1..m -> Nat] /\ v[p[k]] = 0 /\ \A i \in 1..m : i # p[k] => v[i] = w[i]
          /\ q \in [1..(k - 1) -> 1..m]
      BY <3>1
    <3>3. IsInjective(q)
      BY <1>2, <3>1 DEF IsInjective
    <3>4. Holds(k - 1)
      <4>1. k - 1 \notin Bad
        <5>1. k \in Nat /\ k - 1 \in Nat /\ ~(k <= k - 1)
          BY <2>1, <3>1
        <5> HIDE DEF Bad
        <5> QED BY <1>1, <5>1
      <4> HIDE DEF Holds, c, v, q, d
      <4> QED BY <3>1, <4>1
    <3> HIDE DEF v
    <3>5. Total(d) <= Total(v)
      BY <3>2, <3>3, <3>4
    <3>6. d \in [1..(k - 1) -> Nat] /\ \A i \in 1..(k - 1) : d[i] = c[i]
      <4>1. ASSUME NEW i \in 1..(k - 1) PROVE p[i] # p[k] /\ p[i] \in 1..m
        BY <1>2, <3>1 DEF IsInjective
      <4> QED BY <3>1, <3>2, <4>1
    <3>7. Total(c) = Total(d) + c[k] /\ c[k] = w[p[k]]
      BY <2>1, <3>1, <3>6, LastComesOnTop
    <3>8. Total(w) = Total(v) + w[p[k]]
      <4>1. m \in Nat /\ p[k] \in 1..m /\ v \in [1..m -> Nat] /\ w \in [1..m -> Nat]
        BY <3>1, <3>2
      <4> HIDE DEF c, q, d, Bad
      <4> QED BY <4>1, <3>2, StruckOut
    <3>9. Total(d) \in Nat /\ Total(v) \in Nat /\ w[p[k]] \in Nat
      BY <3>1, <3>2, <3>6, TotalIsANumber
    <3> QED BY <3>5, <3>7, <3>8, <3>9
  <2> QED BY <2>2, <2>3
<1>3. Holds(k)
    BY <1>2
<1> QED BY <1>1, <1>3

----------------------------------------------------------------------------
(***************************************************************************)
(* The invariant: what the two databases hold, whoever writes to them, and *)
(* what the call that publishes knows of it after each of its reads.       *)
(***************************************************************************)
Untouched(what) == <<what>> \notin meddled

\* Contributions of a ballot: one of a trustee, and the own ones open what was moved.
OfTheMoved(given) == \A g \in given : g.by = "own" => g.sum = MovedSums[g.ballot]
OneEach(given) == \A g, h \in given : g.trustee = h.trustee => g = h

DatabasesHold ==
    /\ votersDb.phase = "OPEN" => votesDb.reset
    /\ votersDb.phase = "VALIDATED" => votersDb.envelopes = AllTotals
    /\ Untouched("envelopes") /\ votersDb.phase # "VALIDATED" => votersDb.envelopes = Zeros
    /\ Untouched("markers") /\ votersDb.phase \notin {"VALIDATED", "OPEN"} =>
           votersDb.marked = AllTotals
    /\ Untouched("key") => votesDb.key = "own"
    /\ \A b \in Numbered :
          LET given == votesDb.given[b]
          IN IsFiniteSet(given) /\ OneEach(given) /\ OfTheMoved(given)

\* Where the call is once it has found the election published, has been told the turnout,
\* and has passed the gate of a ballot.
PastGate == {"left", "counters", "given", "sum", "root", "partials"}
WithTurnout == {"mode", "gate"} \cup PastGate
Reporting == {"turnout", "markers", "envelopes"} \cup WithTurnout

ReadingHolds ==
    /\ reading.at \in {"key"} \cup Reporting => votersDb.phase \in Published \cup {"OPEN"}
    /\ reading.at = "envelopes" => votersDb.phase = "OPEN"
    /\ reading.at \in WithTurnout => reading.marked \in [Numbered -> Nat]
    /\ Untouched("markers") =>
          /\ reading.at \in {"mode", "gate"} =>
                 reading.marked = AllTotals \/ votersDb.phase = "OPEN"
          /\ reading.at \in PastGate => reading.marked = AllTotals
    /\ reading.at \in PastGate => reading.root = MovedSums
    /\ reading.at = "partials" => reading.sum = MovedSums[reading.ballot]
    /\ reading.at \in {"sum", "root", "partials"} =>
          /\ IsFiniteSet(reading.given) /\ Cardinality(reading.given) >= Threshold
          /\ OneEach(reading.given) /\ OfTheMoved(reading.given)
          /\ \A g \in reading.given \ reading.unproven :
                g.sum = MovedSums[reading.ballot] /\ g.ballot = reading.ballot
    /\ reading.at \in {"sum", "root"} => reading.unproven = reading.given

\* What the recount enters for a ballot.
Recorded(entry, b) ==
    /\ entry.ballot = b /\ entry.sum = MovedSums[b] /\ entry.counts = MovedVotes[b]
    /\ entry.rows = Total(MovedVotes[b])
    /\ IsInjective(entry.given) /\ OneEach(ToSet(entry.given))
    /\ Cardinality(ToSet(entry.given)) >= Threshold
    /\ \A g \in ToSet(entry.given) : g.by = "own" /\ g.sum = MovedSums[b] /\ g.ballot = b
    /\ Untouched("markers") => entry.marked = Total(MovedVotes[b])

DocumentHolds ==
    /\ reading.at # "published" => altered = 0
    /\ reading.at \in {"begin", "election", "key", "turnout", "markers", "envelopes"} =>
          reading.ballot = 1 /\ document.ballots = <<>>
    /\ reading.at \in Reporting => Len(document.ballots) = reading.ballot - 1
    /\ reading.at \in Reporting \cup {"published"} => document.shares \in [Trustees -> Made]
    /\ \A e \in Entries : OfTheMoved(ToSet(document.ballots[e].given))
    /\ altered = 0 =>
          /\ document.election = "this"
          /\ reading.at = "published" => Len(document.ballots) = BallotCount
          /\ reading.at \in Reporting \cup {"published"} =>
                /\ \A t \in Trustees : document.shares[t] = document.key
                /\ Untouched("key") => document.key = "own"
          /\ \A e \in Entries : Recorded(document.ballots[e], e)
          /\ document.ballots # <<>> /\ Untouched("markers") =>
                document.markedTotal = Total(AllTotals)

TurnoutHolds ==
    /\ turnout.at = "count" =>
          /\ turnout.phase \in ElectionPhases
          /\ turnout.basis = IF turnout.phase \in {"OPEN", "VALIDATED"} THEN "envelopes"
                                                                        ELSE "markers"
          /\ turnout.phase = "OPEN" => votesDb.reset
          /\ turnout.phase # "VALIDATED" => votersDb.phase # "VALIDATED"
    /\ TurnoutIsTrue

PublicationInv ==
    PublicationTypeOK /\ DatabasesHold /\ ReadingHolds /\ DocumentHolds /\ TurnoutHolds

----------------------------------------------------------------------------
(***************************************************************************)
(* What was moved, as types.                                               *)
(***************************************************************************)
LEMMA MovedTypes ==
    /\ \A b \in Numbered : MovedVotes[b] \in Seq(Nat) /\ Total(MovedVotes[b]) \in Nat
    /\ MovedVotes \in [Numbered -> Seq(Nat)]
    /\ AllTotals \in [Numbered -> Nat] /\ Zeros \in [Numbered -> Nat]
    /\ \A b \in Numbered :
          /\ MovedSums[b] \in SealedSum
          /\ MovedSums[b].votes = MovedVotes[b] /\ MovedSums[b].under = "own"
          /\ NoVotes(b) \in SealedSum
    /\ MovedSums \in [Numbered -> SealedSum]
    /\ 1 \in Numbered /\ BallotCount \in Nat
<1>1. ASSUME NEW b \in Numbered
      PROVE  MovedVotes[b] \in Seq(Nat) /\ Total(MovedVotes[b]) \in Nat
  <2>1. MovedVotes[b] \in Seq(Nat)
    BY PublicationAssumption
  <2>2. Len(MovedVotes[b]) \in Nat /\ MovedVotes[b] \in [1..Len(MovedVotes[b]) -> Nat]
    BY <2>1
  <2>3. Total(MovedVotes[b]) \in Nat
    BY <2>2, TotalIsANumber
  <2> QED BY <2>1, <2>3
<1>2. ASSUME NEW b \in Numbered PROVE NoVotes(b) \in SealedSum
  <2> DEFINE none == [o \in DOMAIN MovedVotes[b] |-> 0]
  <2>1. Len(MovedVotes[b]) \in Nat /\ DOMAIN MovedVotes[b] = 1..Len(MovedVotes[b])
    BY <1>1
  <2>2. none \in [1..Len(MovedVotes[b]) -> Nat]
    BY <2>1
  <2>3. none \in Seq(Nat)
    BY <2>1, <2>2, FunctionIsSequence
  <2> HIDE DEF none
  <2>4. Sealed(none, "own") \in SealedSum
    BY <2>3 DEF Sealed, SealedSum, Made
  <2> QED BY <2>4 DEF NoVotes, none
<1>3. MovedVotes \in [Numbered -> Seq(Nat)]
    BY <1>1, PublicationAssumption
<1>4. AllTotals \in [Numbered -> Nat] /\ Zeros \in [Numbered -> Nat]
    BY <1>1 DEF AllTotals, Zeros
<1>5. 1 \in Numbered /\ BallotCount \in Nat
    BY PublicationAssumption DEF Numbered
<1>6. /\ \A b \in Numbered :
            MovedSums[b] \in SealedSum /\ MovedSums[b].votes = MovedVotes[b] /\ MovedSums[b].under = "own"
      /\ MovedSums \in [Numbered -> SealedSum]
    BY <1>1 DEF MovedSums, Sealed, SealedSum, Made
<1> QED BY <1>1, <1>2, <1>3, <1>4, <1>5, <1>6

LEMMA PublicationStarts ==
    PublicationInit => PublicationInv
<1> SUFFICES ASSUME PublicationInit PROVE PublicationInv
    OBVIOUS
<1> USE MovedTypes
<1>1. votersDb \in VotersDbs
    BY DEF PublicationInit, VotersDbs, ElectionPhases
<1>2. votesDb \in VotesDbs
    BY DEF PublicationInit, VotesDbs, Made, UrnRow, Contribution
<1>3. reading \in Readings /\ turnout \in Turnouts /\ altered \in Nat
    BY DEF PublicationInit, Readings, NothingRead, Turnouts
<1>4. document \in Documents
  <2>1. <<>> \in Seq(PublishedBallot)
    OBVIOUS
  <2> QED BY <2>1 DEF PublicationInit, Documents, NoDocument
<1>5. DatabasesHold
  <2>1. \A b \in Numbered : votesDb.given[b] = {}
    BY DEF PublicationInit
  <2>2. IsFiniteSet({})
    BY FS_EmptySet
  <2> QED BY <2>1, <2>2 DEF PublicationInit, DatabasesHold, OneEach, OfTheMoved
<1>6. ReadingHolds
    BY DEF PublicationInit, ReadingHolds, NothingRead, WithTurnout, PastGate, Reporting
<1>7. DocumentHolds
    BY DEF PublicationInit, DocumentHolds, NothingRead, NoDocument, WithTurnout, PastGate,
           Reporting, Entries
<1>8. TurnoutHolds
    BY DEF PublicationInit, TurnoutHolds, TurnoutIsTrue
<1> QED BY <1>1, <1>2, <1>3, <1>4, <1>5, <1>6, <1>7, <1>8 DEF PublicationInv, PublicationTypeOK

----------------------------------------------------------------------------
(***************************************************************************)
(* What is done to the databases.                                          *)
(***************************************************************************)
OnDatabases ==
    \/ Strip \/ Certify \/ ResetVotes \/ ResetVoters
    \/ \E n \in Threshold..TrusteeCount : Count(n)
    \/ WriteVotes \/ WriteVoters

\* What the calls in between rely on.
Onward ==
    /\ UNCHANGED <<reading, document, turnout, altered>>
    /\ meddled \subseteq meddled'
    /\ votesDb.reset => votesDb'.reset
    /\ votersDb.phase # "VALIDATED" => votersDb'.phase # "VALIDATED"
    /\ votersDb.phase \in Published \cup {"OPEN"} => votersDb'.phase \in Published \cup {"OPEN"}
    /\ votersDb.phase = "OPEN" => votersDb'.phase = "OPEN"

DatabaseTypes == votersDb \in VotersDbs /\ votesDb \in VotesDbs

LEMMA StripHolds ==
    ASSUME DatabaseTypes, DatabasesHold, Strip
    PROVE  DatabaseTypes' /\ DatabasesHold' /\ Onward
<1> USE MovedTypes
<1>1. /\ votersDb'.phase = "STRIPPED" /\ votersDb'.envelopes = Zeros
      /\ votersDb'.marked = AllTotals /\ votesDb' = votesDb /\ meddled' = meddled
      /\ votersDb' \in VotersDbs
    BY DEF DatabaseTypes, DatabasesHold, Strip, VotersDbs, ElectionPhases, OnlyElection
<1>2. DatabasesHold'
    BY <1>1 DEF DatabasesHold, Untouched
<1>3. Onward
    BY <1>1 DEF Strip, OnlyElection, Onward, Published
<1> QED BY <1>1, <1>2, <1>3 DEF DatabaseTypes

LEMMA CertifyHolds ==
    ASSUME DatabaseTypes, DatabasesHold, Certify
    PROVE  DatabaseTypes' /\ DatabasesHold' /\ Onward
<1>1. /\ votersDb.phase = "TALLIED" /\ votersDb'.phase = "CERTIFIED"
      /\ votersDb'.envelopes = votersDb.envelopes /\ votersDb'.marked = votersDb.marked
      /\ votesDb' = votesDb /\ meddled' = meddled /\ votersDb' \in VotersDbs
    BY DEF DatabaseTypes, Certify, VotersDbs, ElectionPhases, OnlyElection
<1>2. DatabasesHold'
    BY <1>1 DEF DatabasesHold, Untouched
<1>3. Onward
    BY <1>1 DEF Certify, OnlyElection, Onward, Published
<1> QED BY <1>1, <1>2, <1>3 DEF DatabaseTypes

LEMMA ResetVotesHolds ==
    ASSUME DatabaseTypes, DatabasesHold, ResetVotes
    PROVE  DatabaseTypes' /\ DatabasesHold' /\ Onward
<1> USE MovedTypes
<1>1. /\ votesDb'.reset /\ votesDb'.key = votesDb.key
      /\ votesDb'.given = [b \in Numbered |-> {}]
      /\ votersDb' = votersDb /\ meddled' = meddled /\ votesDb' \in VotesDbs
    BY DEF DatabaseTypes, ResetVotes, VotesDbs, OnlyElection, UrnRow
<1>2. DatabasesHold'
  <2>1. \A b \in Numbered : votesDb'.given[b] = {}
    BY <1>1
  <2>2. IsFiniteSet({})
    BY FS_EmptySet
  <2> QED BY <1>1, <2>1, <2>2 DEF DatabasesHold, Untouched, OneEach, OfTheMoved
<1>3. Onward
    BY <1>1 DEF ResetVotes, OnlyElection, Onward, Published
<1> QED BY <1>1, <1>2, <1>3 DEF DatabaseTypes

LEMMA ResetVotersHolds ==
    ASSUME DatabaseTypes, DatabasesHold, ResetVoters
    PROVE  DatabaseTypes' /\ DatabasesHold' /\ Onward
<1> USE MovedTypes
<1>1. /\ votesDb.reset /\ votersDb'.phase = "OPEN" /\ votersDb'.envelopes = Zeros
      /\ votesDb' = votesDb /\ meddled' = meddled /\ votersDb' \in VotersDbs
    BY DEF DatabaseTypes, ResetVoters, VotersDbs, ElectionPhases, OnlyElection
<1>2. DatabasesHold'
    BY <1>1 DEF DatabasesHold, Untouched
<1>3. Onward
    BY <1>1 DEF ResetVoters, OnlyElection, Onward, Published
<1> QED BY <1>1, <1>2, <1>3 DEF DatabaseTypes

\* The contributions of the first n trustees.
LEMMA FirstContributions ==
    ASSUME NEW n \in 0..TrusteeCount, NEW b \in Numbered,
           NEW given, given = {OwnContribution(t, b) : t \in 1..n}
    PROVE  /\ given \in SUBSET Contribution
           /\ IsFiniteSet(given) /\ OneEach(given) /\ OfTheMoved(given)
<1> USE MovedTypes
<1>1. n \in Nat /\ \A t \in 1..n : t \in Trustees
    BY PublicationAssumption DEF Trustees
<1>2. given \in SUBSET Contribution
    BY <1>1 DEF OwnContribution, Contribution, Made
<1>3. IsFiniteSet(given)
  <2> DEFINE f == [t \in 1..n |-> OwnContribution(t, b)]
  <2>1. f \in Surjection(1..n, given)
    BY DEF Surjection
  <2>2. IsFiniteSet(1..n)
    BY <1>1, FS_Interval
  <2> QED BY <2>1, <2>2, FS_Surjection
<1>4. OneEach(given) /\ OfTheMoved(given)
    BY DEF OneEach, OfTheMoved, OwnContribution
<1> QED BY <1>2, <1>3, <1>4

LEMMA CountHolds ==
    ASSUME DatabaseTypes, DatabasesHold, NEW n \in Threshold..TrusteeCount, Count(n)
    PROVE  DatabaseTypes' /\ DatabasesHold' /\ Onward
<1> USE MovedTypes
<1> DEFINE given == [b \in Numbered |-> {OwnContribution(t, b) : t \in 1..n}]
<1>0. n \in 0..TrusteeCount
    BY PublicationAssumption
<1>1. /\ votersDb.phase = "STRIPPED" /\ votersDb'.phase = "TALLIED"
      /\ votersDb'.envelopes = votersDb.envelopes /\ votersDb'.marked = votersDb.marked
      /\ meddled' = meddled /\ votersDb' \in VotersDbs
    BY DEF DatabaseTypes, Count, VotersDbs, ElectionPhases, OnlyElection
<1>2. votesDb' = [votesDb EXCEPT !.given = given, !.counters = MovedVotes]
    BY DEF Count
<1>3. \A b \in Numbered :
          /\ given[b] \in SUBSET Contribution
          /\ IsFiniteSet(given[b]) /\ OneEach(given[b]) /\ OfTheMoved(given[b])
    BY <1>0, FirstContributions
<1>4. given \in [Numbered -> SUBSET Contribution]
    BY <1>3
<1> HIDE DEF given
<1>5. /\ votesDb' \in VotesDbs /\ votesDb'.given = given /\ votesDb'.key = votesDb.key
      /\ votesDb'.reset = votesDb.reset
    BY <1>2, <1>4 DEF DatabaseTypes, VotesDbs
<1>6. DatabasesHold'
    BY <1>1, <1>3, <1>5 DEF DatabasesHold, Untouched, OneEach, OfTheMoved
<1>7. Onward
    BY <1>1, <1>5 DEF Count, OnlyElection, Onward, Published
<1> QED BY <1>1, <1>5, <1>6, <1>7 DEF DatabaseTypes

\* Somebody has written to one place more.
LEMMA OutsideAdds ==
    ASSUME NEW what, Outside(what)
    PROVE  /\ meddled \subseteq meddled' /\ what \in meddled'
           /\ UNCHANGED <<reading, document, turnout, altered>>
BY DEF Outside

\* A trustee's contribution is struck out, or another is put in its place.
LEMMA OtherContributions ==
    ASSUME NEW given \in SUBSET Contribution,
           IsFiniteSet(given), OneEach(given), OfTheMoved(given),
           NEW others \in SUBSET given, NEW new \in Contribution, new.by # "own",
           \A g \in others : g.trustee # new.trustee
    PROVE  /\ IsFiniteSet(others) /\ IsFiniteSet(others \cup {new})
           /\ OneEach(others) /\ OneEach(others \cup {new})
           /\ OfTheMoved(others) /\ OfTheMoved(others \cup {new})
<1>1. IsFiniteSet(others) /\ IsFiniteSet(others \cup {new})
  <2>1. IsFiniteSet(others)
    BY FS_Subset
  <2> QED BY <2>1, FS_AddElement
<1>2. OneEach(others) /\ OfTheMoved(others)
    BY DEF OneEach, OfTheMoved
<1>3. OneEach(others \cup {new}) /\ OfTheMoved(others \cup {new})
    BY <1>2 DEF OneEach, OfTheMoved
<1> QED BY <1>1, <1>2, <1>3

LEMMA WriteVotesHolds ==
    ASSUME DatabaseTypes, DatabasesHold, WriteVotes
    PROVE  DatabaseTypes' /\ DatabasesHold' /\ Onward
<1> USE MovedTypes
<1>0. votersDb' = votersDb /\ votesDb \in VotesDbs
    BY DEF WriteVotes, DatabaseTypes
\* What every one of the writes does.
<1> DEFINE Fits ==
        /\ votesDb' \in VotesDbs /\ votesDb'.reset = votesDb.reset
        /\ meddled \subseteq meddled' /\ UNCHANGED <<reading, document, turnout, altered>>
        /\ <<"key">> \notin meddled' => votesDb'.key = votesDb.key
        /\ \A b \in Numbered :
              LET given == votesDb'.given[b]
              IN IsFiniteSet(given) /\ OneEach(given) /\ OfTheMoved(given)
<1>1. ASSUME NEW b \in Numbered, WriteUrn(b)
      PROVE  Fits
  <2>1. PICK sum \in AnySum : \E hashes \in {sum, MovedSums[b]} :
            votesDb' = [votesDb EXCEPT !.urn[b] = UrnRow(sum, hashes)]
    BY <1>1 DEF WriteUrn
  <2>2. PICK hashes \in {sum, MovedSums[b]} :
            votesDb' = [votesDb EXCEPT !.urn[b] = UrnRow(sum, hashes)]
    BY <2>1
  <2>3. UrnRow(sum, hashes) \in [sum : SealedSum, hashes : SealedSum]
    <3>1. sum \in SealedSum
      BY PublicationAssumption DEF AnySum, SealedSum
    <3>2. hashes \in SealedSum
      BY <3>1
    <3> QED BY <3>1, <3>2 DEF UrnRow
  <2> DEFINE urnRow == UrnRow(sum, hashes)
  <2> HIDE DEF urnRow
  <2>4. /\ votesDb' \in VotesDbs /\ votesDb'.reset = votesDb.reset
        /\ votesDb'.key = votesDb.key /\ votesDb'.given = votesDb.given
    BY <1>0, <2>2, <2>3 DEF VotesDbs, urnRow
  <2> QED BY <1>1, <2>4, OutsideAdds DEF WriteUrn, DatabasesHold
<1>2. ASSUME NEW b \in Numbered, WriteCounters(b)
      PROVE  Fits
  <2>1. PICK c \in Sums : votesDb' = [votesDb EXCEPT !.counters[b] = c]
    BY <1>2 DEF WriteCounters
  <2>2. /\ votesDb' \in VotesDbs /\ votesDb'.reset = votesDb.reset
        /\ votesDb'.key = votesDb.key /\ votesDb'.given = votesDb.given
    BY <1>0, <2>1, PublicationAssumption DEF VotesDbs
  <2> QED BY <1>2, <2>2, OutsideAdds DEF WriteCounters, DatabasesHold
<1>3. ASSUME NEW b \in Numbered, NEW t \in Trustees, WriteContributions(b, t)
      PROVE  Fits
  <2> DEFINE given == votesDb.given[b]
             sum == votesDb.urn[b].sum
             others == {g \in given : g.trustee # t}
             new == [trustee |-> t, sum |-> sum, by |-> "other", ballot |-> b]
  <2>1. PICK next \in {others, others \cup {new}} :
            votesDb' = [votesDb EXCEPT !.given[b] = next]
    BY <1>3 DEF WriteContributions
  <2>2. /\ votesDb.given[b] \in SUBSET Contribution /\ votesDb.urn[b].sum \in SealedSum
        /\ votesDb.given \in [Numbered -> SUBSET Contribution]
    BY <1>0 DEF VotesDbs
  <2>3. /\ IsFiniteSet(votesDb.given[b]) /\ OneEach(votesDb.given[b])
        /\ OfTheMoved(votesDb.given[b])
    BY DEF DatabasesHold
  <2>4. next \in SUBSET Contribution /\ IsFiniteSet(next) /\ OneEach(next) /\ OfTheMoved(next)
    <3>1. /\ given \in SUBSET Contribution /\ sum \in SealedSum /\ IsFiniteSet(given)
          /\ OneEach(given) /\ OfTheMoved(given)
      BY <2>2, <2>3
    <3>2. others \in SUBSET given /\ \A g \in others : g.trustee # t
      OBVIOUS
    <3>3. new \in Contribution /\ new.by # "own" /\ new.trustee = t
      BY <3>1 DEF Contribution, Made
    <3> HIDE DEF given, sum, others, new
    <3>4. /\ IsFiniteSet(others) /\ IsFiniteSet(others \cup {new})
          /\ OneEach(others) /\ OneEach(others \cup {new})
          /\ OfTheMoved(others) /\ OfTheMoved(others \cup {new})
      BY <3>1, <3>2, <3>3, OtherContributions
    <3> QED BY <3>1, <3>2, <3>3, <3>4
  <2> HIDE DEF given, sum, others, new
  <2>5. /\ votesDb' \in VotesDbs /\ votesDb'.reset = votesDb.reset
        /\ votesDb'.key = votesDb.key /\ votesDb'.given = [votesDb.given EXCEPT ![b] = next]
    BY <1>0, <2>1, <2>2, <2>4 DEF VotesDbs
  <2>6. \A a \in Numbered : votesDb'.given[a] = IF a = b THEN next ELSE votesDb.given[a]
    BY <2>2, <2>5
  <2> QED BY <1>3, <2>4, <2>5, <2>6, OutsideAdds DEF WriteContributions, DatabasesHold
<1>4. ASSUME WriteShares
      PROVE  Fits
  <2>1. PICK t \in Trustees, s \in Made : votesDb' = [votesDb EXCEPT !.shares[t] = s]
    BY <1>4 DEF WriteShares
  <2>2. /\ votesDb' \in VotesDbs /\ votesDb'.reset = votesDb.reset
        /\ votesDb'.key = votesDb.key /\ votesDb'.given = votesDb.given
    BY <1>0, <2>1 DEF VotesDbs
  <2> QED BY <1>4, <2>2, OutsideAdds DEF WriteShares, DatabasesHold
<1>5. ASSUME WriteKey
      PROVE  Fits
  <2>1. PICK s \in Made : \E shares \in {votesDb.shares, [t \in Trustees |-> s]} :
            votesDb' = [votesDb EXCEPT !.key = s, !.shares = shares]
    BY <1>5 DEF WriteKey
  <2>2. PICK shares \in {votesDb.shares, [t \in Trustees |-> s]} :
            votesDb' = [votesDb EXCEPT !.key = s, !.shares = shares]
    BY <2>1
  <2>3. shares \in [Trustees -> Made]
    BY <1>0 DEF VotesDbs
  <2>4. /\ votesDb' \in VotesDbs /\ votesDb'.reset = votesDb.reset
        /\ votesDb'.given = votesDb.given
    BY <1>0, <2>2, <2>3 DEF VotesDbs
  <2> QED BY <1>5, <2>4, OutsideAdds DEF WriteKey, DatabasesHold
<1>6. Fits
    BY <1>1, <1>2, <1>3, <1>4, <1>5 DEF WriteVotes
<1> HIDE DEF Fits
<1>7. DatabasesHold'
    BY <1>0, <1>6 DEF Fits, DatabasesHold, Untouched
<1>8. Onward /\ DatabaseTypes'
    BY <1>0, <1>6 DEF Fits, Onward, DatabaseTypes
<1> QED BY <1>7, <1>8

LEMMA WriteVotersHolds ==
    ASSUME DatabaseTypes, DatabasesHold, WriteVoters
    PROVE  DatabaseTypes' /\ DatabasesHold' /\ Onward
<1>0. votesDb' = votesDb /\ votersDb \in VotersDbs
    BY DEF WriteVoters, DatabaseTypes
\* What every one of the writes does.
<1> DEFINE Fits ==
        /\ votersDb' \in VotersDbs /\ votersDb'.phase = votersDb.phase
        /\ meddled \subseteq meddled' /\ UNCHANGED <<reading, document, turnout, altered>>
        /\ \/ /\ votersDb.phase \notin {"VALIDATED", "OPEN"}
              /\ <<"envelopes">> \in meddled' /\ votersDb'.marked = votersDb.marked
           \/ /\ votersDb.phase \notin {"VALIDATED", "OPEN"}
              /\ <<"markers">> \in meddled' /\ votersDb'.envelopes = votersDb.envelopes
           \/ votersDb'.envelopes = votersDb.envelopes /\ votersDb'.marked = votersDb.marked
<1>1. ASSUME WriteMode
      PROVE  Fits
  <2>1. PICK m \in BOOLEAN : votersDb' = [votersDb EXCEPT !.belongs = m]
    BY <1>1 DEF WriteMode
  <2>2. /\ votersDb' \in VotersDbs /\ votersDb'.phase = votersDb.phase
        /\ votersDb'.envelopes = votersDb.envelopes /\ votersDb'.marked = votersDb.marked
    BY <1>0, <2>1 DEF VotersDbs
  <2> QED BY <1>1, <2>2, OutsideAdds DEF WriteMode
<1>2. ASSUME WriteRoot
      PROVE  Fits
  <2>1. PICK r \in {Unread, MovedSums} : votersDb' = [votersDb EXCEPT !.root = r]
    BY <1>2 DEF WriteRoot
  <2>2. /\ votersDb' \in VotersDbs /\ votersDb'.phase = votersDb.phase
        /\ votersDb'.envelopes = votersDb.envelopes /\ votersDb'.marked = votersDb.marked
    BY <1>0, <2>1 DEF VotersDbs
  <2> QED BY <1>2, <2>2, OutsideAdds DEF WriteRoot
<1>3. ASSUME WriteEnvelopes, votersDb.phase \notin {"VALIDATED", "OPEN"}
      PROVE  Fits
  <2>1. PICK b \in Numbered, n \in {0, 1} : votersDb' = [votersDb EXCEPT !.envelopes[b] = n]
    BY <1>3 DEF WriteEnvelopes
  <2>2. /\ votersDb' \in VotersDbs /\ votersDb'.phase = votersDb.phase
        /\ votersDb'.marked = votersDb.marked
    BY <1>0, <2>1 DEF VotersDbs
  <2> QED BY <1>3, <2>2, OutsideAdds DEF WriteEnvelopes
<1>4. ASSUME WriteMarkers, votersDb.phase \notin {"VALIDATED", "OPEN"}
      PROVE  Fits
  <2>1. PICK b \in Numbered, n \in 1..2 : votersDb' = [votersDb EXCEPT !.marked[b] = n]
    BY <1>4 DEF WriteMarkers
  <2>2. /\ votersDb' \in VotersDbs /\ votersDb'.phase = votersDb.phase
        /\ votersDb'.envelopes = votersDb.envelopes
    BY <1>0, <2>1 DEF VotersDbs
  <2> QED BY <1>4, <2>2, OutsideAdds DEF WriteMarkers
<1>5. Fits
    BY <1>1, <1>2, <1>3, <1>4 DEF WriteVoters
<1> HIDE DEF Fits
<1>6. DatabasesHold'
    BY <1>0, <1>5 DEF Fits, DatabasesHold, Untouched
<1>7. Onward /\ DatabaseTypes'
    BY <1>0, <1>5 DEF Fits, Onward, DatabaseTypes
<1> QED BY <1>6, <1>7

LEMMA OnDatabasesHolds ==
    ASSUME DatabaseTypes, DatabasesHold, OnDatabases
    PROVE  DatabaseTypes' /\ DatabasesHold' /\ Onward
BY StripHolds, CertifyHolds, ResetVotesHolds, ResetVotersHolds, CountHolds, WriteVotesHolds,
   WriteVotersHolds DEF OnDatabases

\* The calls and the document stay as they should be.
LEMMA OthersGoOn ==
    ASSUME PublicationInv, OnDatabases
    PROVE  PublicationInv'
<1>1. DatabaseTypes' /\ DatabasesHold' /\ Onward
    BY OnDatabasesHolds DEF PublicationInv, PublicationTypeOK, DatabaseTypes
<1>2. PublicationTypeOK'
    BY <1>1 DEF PublicationInv, PublicationTypeOK, DatabaseTypes, Onward
<1>3. \A what \in {"markers", "key", "envelopes"} : Untouched(what)' => Untouched(what)
    BY <1>1 DEF Onward, Untouched
<1>4. ReadingHolds'
    BY <1>1, <1>3 DEF PublicationInv, ReadingHolds, Onward
<1>5. DocumentHolds'
  <2>1. reading' = reading /\ document' = document /\ altered' = altered /\ Entries' = Entries
    BY <1>1 DEF Onward, Entries
  <2>2. \A e \in Entries : Recorded(document.ballots[e], e) => Recorded(document.ballots[e], e)'
    BY <1>3, <2>1 DEF Recorded
  <2> QED BY <1>3, <2>1, <2>2 DEF PublicationInv, DocumentHolds
<1>6. TurnoutHolds'
  <2>1. meddled' = {} => meddled = {}
    BY <1>1 DEF Onward
  <2> QED BY <1>1, <2>1 DEF PublicationInv, TurnoutHolds, TurnoutIsTrue, Onward
<1> QED BY <1>1, <1>2, <1>4, <1>5, <1>6 DEF PublicationInv

----------------------------------------------------------------------------
(***************************************************************************)
(* The reads of publishedResults.                                          *)
(***************************************************************************)
ReadsOnly == UNCHANGED <<votersDb, votesDb, turnout, meddled, altered>>

LEMMA ReadIsHarmless ==
    ASSUME PublicationInv, ReadsOnly, reading' \in Readings, document' \in Documents,
           ReadingHolds', DocumentHolds'
    PROVE  PublicationInv'
<1>1. PublicationTypeOK' /\ DatabasesHold'
    BY DEF PublicationInv, PublicationTypeOK, ReadsOnly, DatabasesHold, Untouched
<1>2. TurnoutHolds'
    BY DEF PublicationInv, ReadsOnly, TurnoutHolds, TurnoutIsTrue
<1> QED BY <1>1, <1>2 DEF PublicationInv

\* What a ballot's reads leave of the document: all of it.
LEMMA SameReport ==
    ASSUME PublicationInv, ReadsOnly, UNCHANGED document, reading'.ballot = reading.ballot,
           reading.at \in Reporting, reading'.at \in Reporting,
           reading'.at \in {"turnout", "markers", "envelopes"} => reading.at = "turnout"
    PROVE  DocumentHolds'
<1>1. Entries' = Entries /\ reading.at # "published" /\ reading'.at # "published"
    BY DEF ReadsOnly, Entries, Reporting, WithTurnout, PastGate
<1>2. \A e \in Entries : Recorded(document.ballots[e], e) => Recorded(document.ballots[e], e)'
    BY DEF ReadsOnly, Recorded, Untouched
<1>3. reading'.at \notin {"begin", "election", "key"}
    BY DEF Reporting, WithTurnout, PastGate
<1> QED BY <1>1, <1>2, <1>3 DEF PublicationInv, ReadsOnly, DocumentHolds, Untouched

\* The call ends with another outcome than a publication.
LEMMA EndingHolds ==
    ASSUME PublicationInv, ReadsOnly, reading.at # "published",
           NEW ending \in {"not_published", "result_mismatch", "wrong_mode"}, EndsWith(ending)
    PROVE  PublicationInv'
<1> USE MovedTypes
<1>1. /\ reading' \in Readings /\ document' = document /\ reading'.at = ending
      /\ document' \in Documents
    BY DEF EndsWith, Reading, NothingRead, Readings, PublicationInv, PublicationTypeOK
<1>2. ReadingHolds'
    BY <1>1 DEF ReadingHolds, Reporting, WithTurnout, PastGate
<1>3. DocumentHolds'
  <2>1. Entries' = Entries
    BY <1>1 DEF Entries
  <2>2. \A e \in Entries : Recorded(document.ballots[e], e) => Recorded(document.ballots[e], e)'
    BY <1>1 DEF ReadsOnly, Recorded, Untouched
  <2>3. /\ reading'.at \notin Reporting /\ reading'.at # "published"
        /\ reading'.at \notin {"begin", "election", "key", "turnout", "markers", "envelopes"}
    BY <1>1 DEF Reporting, WithTurnout, PastGate
  <2> QED BY <1>1, <2>1, <2>2, <2>3 DEF PublicationInv, ReadsOnly, DocumentHolds, Untouched
<1> QED BY <1>1, <1>2, <1>3, ReadIsHarmless

\* The election is not to be published, or no longer.
LEMMA RefusalHolds ==
    ASSUME PublicationInv, ReadsOnly, reading.at # "published", Refuses
    PROVE  PublicationInv'
BY EndingHolds DEF Refuses, Mismatch

LEMMA AskModeHolds ==
    ASSUME PublicationInv, AskMode
    PROVE  PublicationInv'
<1> USE MovedTypes
<1>0. ReadsOnly /\ reading.at \in {"begin", "mode"} /\ reading \in Readings
    BY DEF AskMode, Reads, ReadsOnly, PublicationInv, PublicationTypeOK
<1>1. CASE ~votersDb.belongs
    BY <1>0, <1>1, EndingHolds DEF AskMode
<1>2. CASE votersDb.belongs /\ reading.at = "begin"
  <2>1. reading' = [reading EXCEPT !.at = "election"] /\ document' = document
    BY <1>2 DEF AskMode, To, Reading
  <2>2. /\ reading' \in Readings /\ reading'.at = "election" /\ reading'.ballot = reading.ballot
        /\ document' \in Documents
    BY <1>0, <2>1 DEF Readings, PublicationInv, PublicationTypeOK
  <2>3. ReadingHolds'
    BY <2>2 DEF ReadingHolds, Reporting, WithTurnout, PastGate
  <2>4. DocumentHolds'
    <3>1. reading'.at \notin Reporting /\ reading'.at # "published" /\ document'.ballots = <<>>
      BY <1>2, <2>1, <2>2 DEF Reporting, WithTurnout, PastGate, PublicationInv, DocumentHolds
    <3>2. Entries' = {}
      BY <3>1 DEF Entries
    <3> QED BY <1>0, <1>2, <2>1, <2>2, <3>1, <3>2
            DEF PublicationInv, DocumentHolds, ReadsOnly, Reporting, WithTurnout, PastGate
  <2> QED BY <1>0, <2>2, <2>3, <2>4, ReadIsHarmless
<1>3. CASE votersDb.belongs /\ reading.at = "mode"
  <2>1. reading' = [reading EXCEPT !.at = "gate"] /\ document' = document
    BY <1>3 DEF AskMode, To, Reading
  <2>2. /\ reading' \in Readings /\ reading'.at = "gate" /\ reading'.ballot = reading.ballot
        /\ reading'.marked = reading.marked /\ document' \in Documents
    BY <1>0, <2>1 DEF Readings, PublicationInv, PublicationTypeOK
  <2>3. ReadingHolds'
    BY <1>0, <1>3, <2>2
       DEF PublicationInv, ReadsOnly, ReadingHolds, Reporting, WithTurnout, PastGate, Untouched
  <2>4. DocumentHolds'
    BY <1>0, <1>3, <2>1, <2>2, SameReport DEF Reporting, WithTurnout, PastGate
  <2> QED BY <1>0, <2>2, <2>3, <2>4, ReadIsHarmless
<1> QED BY <1>0, <1>1, <1>2, <1>3

LEMMA ReadElectionHolds ==
    ASSUME PublicationInv, ReadElection
    PROVE  PublicationInv'
<1> USE MovedTypes
<1>0. ReadsOnly /\ reading.at = "election" /\ reading \in Readings
    BY DEF ReadElection, Reads, ReadsOnly, PublicationInv, PublicationTypeOK
<1>1. CASE Refuses
    BY <1>0, <1>1, RefusalHolds
<1>2. CASE IsOpen /\ To("key")
  <2>1. reading' = [reading EXCEPT !.at = "key"] /\ document' = document
    BY <1>2 DEF To, Reading
  <2>2. /\ reading' \in Readings /\ reading'.at = "key" /\ reading'.ballot = reading.ballot
        /\ document' \in Documents
    BY <1>0, <2>1 DEF Readings, PublicationInv, PublicationTypeOK
  <2>3. ReadingHolds'
    BY <1>0, <1>2, <2>2 DEF ReadingHolds, ReadsOnly, IsOpen, Reporting, WithTurnout, PastGate
  <2>4. DocumentHolds'
    <3>1. document'.ballots = <<>> /\ Entries' = {} /\ reading.ballot = 1
      BY <1>0, <2>1 DEF PublicationInv, DocumentHolds, Entries
    <3> QED BY <1>0, <2>1, <2>2, <3>1
            DEF PublicationInv, DocumentHolds, ReadsOnly, Reporting, WithTurnout, PastGate
  <2> QED BY <1>0, <2>2, <2>3, <2>4, ReadIsHarmless
<1> QED BY <1>1, <1>2 DEF ReadElection

LEMMA ReadKeyHolds ==
    ASSUME PublicationInv, ReadKey
    PROVE  PublicationInv'
<1> USE MovedTypes
<1>0. ReadsOnly /\ reading.at = "key" /\ reading \in Readings /\ votesDb \in VotesDbs
    BY DEF ReadKey, Reads, ReadsOnly, PublicationInv, PublicationTypeOK
<1>1. CASE ~sharesBelongToKey
    BY <1>0, <1>1, EndingHolds DEF ReadKey, Mismatch
<1>2. CASE sharesBelongToKey
  <2>1. /\ reading' = [reading EXCEPT !.at = "turnout"]
        /\ document' = [NoDocument EXCEPT !.key = votesDb.key, !.shares = votesDb.shares]
    BY <1>2 DEF ReadKey
  <2>2. reading' \in Readings /\ reading'.at = "turnout" /\ reading'.ballot = reading.ballot
    BY <1>0, <2>1 DEF Readings
  <2>3. /\ document'.election = "this" /\ document'.key = votesDb.key
        /\ document'.shares = votesDb.shares /\ document'.ballots = <<>>
        /\ document'.markedTotal = 0
        /\ document' = [election |-> "this", key |-> votesDb.key, shares |-> votesDb.shares,
                        ballots |-> <<>>, markedTotal |-> 0]
    BY <2>1 DEF NoDocument
  <2>4. document' \in Documents
    <3>1. <<>> \in Seq(PublishedBallot)
      OBVIOUS
    <3>2. votesDb.key \in Made /\ votesDb.shares \in [Trustees -> Made]
      BY <1>0 DEF VotesDbs
    <3> QED BY <2>3, <3>1, <3>2 DEF Documents
  <2>5. ReadingHolds'
    BY <1>0, <2>2 DEF PublicationInv, ReadingHolds, ReadsOnly, Reporting, WithTurnout, PastGate
  <2>6. DocumentHolds'
    <3>1. Entries' = {} /\ Len(document'.ballots) = 0 /\ reading.ballot = 1
      BY <1>0, <2>3 DEF PublicationInv, DocumentHolds, Entries
    <3>2. votesDb.shares \in [Trustees -> Made] /\ \A t \in Trustees : votesDb.shares[t] = votesDb.key
      BY <1>0, <1>2 DEF VotesDbs, sharesBelongToKey
    <3>3. Untouched("key")' => votesDb.key = "own"
      BY <1>0 DEF PublicationInv, DatabasesHold, ReadsOnly, Untouched
    <3> QED BY <1>0, <2>2, <2>3, <3>1, <3>2, <3>3
            DEF PublicationInv, DocumentHolds, ReadsOnly, Reporting, WithTurnout, PastGate
  <2> QED BY <1>0, <2>2, <2>4, <2>5, <2>6, ReadIsHarmless
<1> QED BY <1>1, <1>2

LEMMA ReadTurnoutPhaseHolds ==
    ASSUME PublicationInv, ReadTurnoutPhase
    PROVE  PublicationInv'
<1>0. ReadsOnly /\ reading.at = "turnout" /\ reading \in Readings
    BY DEF ReadTurnoutPhase, Reads, ReadsOnly, PublicationInv, PublicationTypeOK
<1>1. reading' = [reading EXCEPT !.at = Basis] /\ document' = document
    BY DEF ReadTurnoutPhase, To, Reading
<1>2. Basis \in {"envelopes", "markers"} /\ (Basis = "envelopes" => votersDb.phase = "OPEN")
    BY <1>0 DEF Basis, PublicationInv, ReadingHolds, Reporting, Published
<1>3. /\ reading' \in Readings /\ reading'.at = Basis /\ reading'.ballot = reading.ballot
      /\ document' \in Documents
    BY <1>0, <1>1, <1>2 DEF Readings, PublicationInv, PublicationTypeOK
<1>4. ReadingHolds'
    BY <1>0, <1>2, <1>3
       DEF PublicationInv, ReadingHolds, ReadsOnly, Reporting, WithTurnout, PastGate
<1>5. DocumentHolds'
    BY <1>0, <1>1, <1>2, <1>3, SameReport DEF Reporting
<1> QED BY <1>0, <1>3, <1>4, <1>5, ReadIsHarmless

LEMMA ReadTurnoutHolds ==
    ASSUME PublicationInv, ReadTurnout
    PROVE  PublicationInv'
<1>0. /\ ReadsOnly /\ reading.at \in {"markers", "envelopes"} /\ reading \in Readings
      /\ votersDb \in VotersDbs
    BY DEF ReadTurnout, Reads, ReadsOnly, PublicationInv, PublicationTypeOK
<1> DEFINE totals == Voted(reading.at)
<1>1. /\ totals \in [Numbered -> Nat]
      /\ Untouched("markers") => totals = AllTotals \/ votersDb.phase = "OPEN"
    BY <1>0 DEF Voted, VotersDbs, PublicationInv, ReadingHolds, DatabasesHold, Reporting,
       Published
<1>2. reading' = [reading EXCEPT !.at = "mode", !.marked = totals] /\ document' = document
    BY DEF ReadTurnout, Reading
<1> HIDE DEF totals
<1>3. /\ reading' \in Readings /\ reading'.at = "mode" /\ reading'.ballot = reading.ballot
      /\ reading'.marked = totals /\ document' \in Documents
    BY <1>0, <1>1, <1>2 DEF Readings, PublicationInv, PublicationTypeOK
<1>4. ReadingHolds'
    BY <1>0, <1>1, <1>3
       DEF PublicationInv, ReadingHolds, ReadsOnly, Reporting, WithTurnout, PastGate, Untouched
<1>5. DocumentHolds'
    BY <1>0, <1>2, <1>3, SameReport DEF Reporting, WithTurnout
<1> QED BY <1>0, <1>3, <1>4, <1>5, ReadIsHarmless

LEMMA AskGateHolds ==
    ASSUME PublicationInv, AskGate
    PROVE  PublicationInv'
<1>0. ReadsOnly /\ reading.at = "gate" /\ reading \in Readings /\ votersDb \in VotersDbs
    BY DEF AskGate, Reads, ReadsOnly, PublicationInv, PublicationTypeOK
<1>1. CASE Refuses
    BY <1>0, <1>1, RefusalHolds
<1>2. CASE IsOpen /\ Reading([reading EXCEPT !.at = "left", !.root = votersDb.root])
  <2>1. votersDb.root = MovedSums /\ votersDb.phase \in Published
    BY <1>0, <1>2 DEF IsOpen, VotersDbs
  <2>2. reading' = [reading EXCEPT !.at = "left", !.root = votersDb.root] /\ document' = document
    BY <1>2 DEF Reading
  <2>3. /\ reading' \in Readings /\ reading'.at = "left" /\ reading'.ballot = reading.ballot
        /\ reading'.marked = reading.marked /\ reading'.root = MovedSums
        /\ document' \in Documents
    BY <1>0, <2>1, <2>2 DEF Readings, PublicationInv, PublicationTypeOK
  <2>4. ReadingHolds'
    BY <1>0, <2>1, <2>3 DEF PublicationInv, ReadingHolds, ReadsOnly, Reporting, WithTurnout,
       PastGate, Untouched, Published
  <2>5. DocumentHolds'
    BY <1>0, <2>2, <2>3, SameReport DEF Reporting, WithTurnout, PastGate
  <2> QED BY <1>0, <2>3, <2>4, <2>5, ReadIsHarmless
<1> QED BY <1>1, <1>2 DEF AskGate

LEMMA CountLeftHolds ==
    ASSUME PublicationInv, CountLeft
    PROVE  PublicationInv'
<1>0. ReadsOnly /\ reading.at = "left" /\ reading \in Readings
    BY DEF CountLeft, Reads, ReadsOnly, PublicationInv, PublicationTypeOK
<1>1. CASE Mismatch
    BY <1>0, <1>1, EndingHolds DEF Mismatch
<1>2. CASE To("counters")
  <2>1. reading' = [reading EXCEPT !.at = "counters"] /\ document' = document
    BY <1>2 DEF To, Reading
  <2>2. /\ reading' \in Readings /\ reading'.at = "counters" /\ reading'.ballot = reading.ballot
        /\ reading'.marked = reading.marked /\ reading'.root = reading.root
        /\ document' \in Documents
    BY <1>0, <2>1 DEF Readings, PublicationInv, PublicationTypeOK
  <2>3. ReadingHolds'
    BY <1>0, <2>2 DEF PublicationInv, ReadingHolds, ReadsOnly, Reporting, WithTurnout,
       PastGate, Untouched
  <2>4. DocumentHolds'
    BY <1>0, <2>1, <2>2, SameReport DEF Reporting, WithTurnout, PastGate
  <2> QED BY <1>0, <2>2, <2>3, <2>4, ReadIsHarmless
<1> QED BY <1>1, <1>2 DEF CountLeft

LEMMA ReadCountersHolds ==
    ASSUME PublicationInv, ReadCounters
    PROVE  PublicationInv'
<1>0. ReadsOnly /\ reading.at = "counters" /\ reading \in Readings /\ votesDb \in VotesDbs
    BY DEF ReadCounters, Reads, ReadsOnly, PublicationInv, PublicationTypeOK
<1> DEFINE counters == votesDb.counters[reading.ballot]
<1>1. CASE counters = Unread
    BY <1>0, <1>1, EndingHolds DEF ReadCounters, Mismatch
<1>2. CASE counters # Unread
  <2>1. /\ reading' = [reading EXCEPT !.at = "given", !.counters = counters]
        /\ document' = document
    BY <1>2 DEF ReadCounters, Reading
  <2>2. counters \in {Unread} \cup Seq(Nat)
    BY <1>0 DEF VotesDbs, Readings
  <2> HIDE DEF counters
  <2>3. /\ reading' \in Readings /\ reading'.at = "given" /\ reading'.ballot = reading.ballot
        /\ reading'.marked = reading.marked /\ reading'.root = reading.root
        /\ document' \in Documents
    BY <1>0, <2>1, <2>2 DEF Readings, PublicationInv, PublicationTypeOK
  <2>4. ReadingHolds'
    BY <1>0, <2>3 DEF PublicationInv, ReadingHolds, ReadsOnly, Reporting, WithTurnout,
       PastGate, Untouched
  <2>5. DocumentHolds'
    BY <1>0, <2>1, <2>3, SameReport DEF Reporting, WithTurnout, PastGate
  <2> QED BY <1>0, <2>3, <2>4, <2>5, ReadIsHarmless
<1> QED BY <1>1, <1>2

LEMMA ReadContributionsHolds ==
    ASSUME PublicationInv, ReadContributions
    PROVE  PublicationInv'
<1>0. ReadsOnly /\ reading.at = "given" /\ reading \in Readings /\ votesDb \in VotesDbs
    BY DEF ReadContributions, Reads, ReadsOnly, PublicationInv, PublicationTypeOK
<1> DEFINE given == votesDb.given[reading.ballot]
<1>1. CASE Cardinality(given) < Threshold
    BY <1>0, <1>1, EndingHolds DEF ReadContributions, Mismatch
<1>2. CASE ~(Cardinality(given) < Threshold)
  <2>1. /\ reading' = [reading EXCEPT !.at = "sum", !.given = given, !.unproven = given]
        /\ document' = document
    BY <1>2 DEF ReadContributions, Reading
  <2>2. /\ given \in SUBSET Contribution /\ IsFiniteSet(given) /\ OneEach(given)
        /\ OfTheMoved(given)
    BY <1>0 DEF VotesDbs, Readings, PublicationInv, DatabasesHold
  <2>3. Cardinality(given) >= Threshold
    BY <1>2, <2>2, FS_CardinalityType, PublicationAssumption
  <2> HIDE DEF given
  <2>4. /\ reading' \in Readings /\ reading'.at = "sum" /\ reading'.ballot = reading.ballot
        /\ reading'.marked = reading.marked /\ reading'.root = reading.root
        /\ reading'.given = given /\ reading'.unproven = given /\ document' \in Documents
    BY <1>0, <2>1, <2>2 DEF Readings, PublicationInv, PublicationTypeOK
  <2>5. ReadingHolds'
    BY <1>0, <2>2, <2>3, <2>4 DEF PublicationInv, ReadingHolds, ReadsOnly, Reporting,
       WithTurnout, PastGate, Untouched
  <2>6. DocumentHolds'
    BY <1>0, <2>1, <2>4, SameReport DEF Reporting, WithTurnout, PastGate
  <2> QED BY <1>0, <2>4, <2>5, <2>6, ReadIsHarmless
<1> QED BY <1>1, <1>2

LEMMA ReadUrnHolds ==
    ASSUME PublicationInv, ReadUrn
    PROVE  PublicationInv'
<1>0. ReadsOnly /\ reading.at = "sum" /\ reading \in Readings /\ votesDb \in VotesDbs
    BY DEF ReadUrn, Reads, ReadsOnly, PublicationInv, PublicationTypeOK
<1> DEFINE ofUrn == votesDb.urn[reading.ballot]
<1>1. CASE ofUrn.sum # ofUrn.hashes
    BY <1>0, <1>1, EndingHolds DEF ReadUrn, Mismatch
<1>2. CASE ofUrn.sum = ofUrn.hashes
  <2> DEFINE sum == ofUrn.sum
  <2>1. reading' = [reading EXCEPT !.at = "root", !.sum = sum] /\ document' = document
    BY <1>2 DEF ReadUrn, Reading
  <2>2. sum \in SealedSum
    BY <1>0 DEF VotesDbs, Readings
  <2> HIDE DEF ofUrn, sum
  <2>3. /\ reading' \in Readings /\ reading'.at = "root" /\ reading'.ballot = reading.ballot
        /\ reading'.marked = reading.marked /\ reading'.root = reading.root
        /\ reading'.given = reading.given /\ reading'.unproven = reading.unproven
        /\ document' \in Documents
    BY <1>0, <2>1, <2>2 DEF Readings, PublicationInv, PublicationTypeOK
  <2>4. ReadingHolds'
    BY <1>0, <2>3 DEF PublicationInv, ReadingHolds, ReadsOnly, Reporting,
       WithTurnout, PastGate, Untouched
  <2>5. DocumentHolds'
    BY <1>0, <2>1, <2>3, SameReport DEF Reporting, WithTurnout, PastGate
  <2> QED BY <1>0, <2>3, <2>4, <2>5, ReadIsHarmless
<1> QED BY <1>1, <1>2

\* With the urn's root as it was at the removal, the sum is that of the votes moved.
LEMMA AskRootHolds ==
    ASSUME PublicationInv, AskRoot
    PROVE  PublicationInv'
<1>0. ReadsOnly /\ reading.at = "root" /\ reading \in Readings
    BY DEF AskRoot, Reads, ReadsOnly, PublicationInv, PublicationTypeOK
<1>1. CASE ~RootHolds
    BY <1>0, <1>1, EndingHolds DEF AskRoot, Mismatch
<1>2. CASE RootHolds
  <2>1. reading' = [reading EXCEPT !.at = "partials"] /\ document' = document
    BY <1>2 DEF AskRoot, To, Reading
  <2>2. reading.sum = MovedSums[reading.ballot]
    <3>1. reading.root = MovedSums /\ reading.ballot \in Numbered
      BY <1>0 DEF PublicationInv, ReadingHolds, PastGate, Readings
    <3> QED BY <1>2, <3>1 DEF RootHolds
  <2>3. /\ reading' \in Readings /\ reading'.at = "partials" /\ reading'.ballot = reading.ballot
        /\ reading'.marked = reading.marked /\ reading'.root = reading.root
        /\ reading'.given = reading.given /\ reading'.unproven = reading.unproven
        /\ reading'.sum = reading.sum /\ document' \in Documents
    BY <1>0, <2>1 DEF Readings, PublicationInv, PublicationTypeOK
  <2>4. ReadingHolds'
    BY <1>0, <2>2, <2>3 DEF PublicationInv, ReadingHolds, ReadsOnly, Reporting,
       WithTurnout, PastGate, Untouched
  <2>5. DocumentHolds'
    BY <1>0, <2>1, <2>3, SameReport DEF Reporting, WithTurnout, PastGate
  <2> QED BY <1>0, <2>3, <2>4, <2>5, ReadIsHarmless
<1> QED BY <1>1, <1>2

LEMMA VerifyContributionHolds ==
    ASSUME PublicationInv, VerifyContribution
    PROVE  PublicationInv'
<1>0. ReadsOnly /\ reading.at = "partials" /\ reading \in Readings
    BY DEF VerifyContribution, Reads, ReadsOnly, PublicationInv, PublicationTypeOK
<1>1. PICK g \in reading.unproven :
          IF Proves(g, votesDb.shares[g.trustee], reading.sum, reading.ballot)
              THEN Reading([reading EXCEPT !.unproven = @ \ {g}])
              ELSE Mismatch
    BY DEF VerifyContribution
<1>2. CASE Mismatch
    BY <1>0, <1>2, EndingHolds DEF Mismatch
<1>3. CASE ~Mismatch
  <2> DEFINE left == reading.unproven \ {g}
  <2>1. reading' = [reading EXCEPT !.unproven = left] /\ document' = document
    BY <1>1, <1>3 DEF Reading
  <2>2. g.sum = reading.sum /\ g.ballot = reading.ballot
    BY <1>1, <1>3 DEF Proves
  <2>3. left \in SUBSET Contribution
    BY <1>0 DEF Readings
  <2>4. \A h \in reading.given \ left : h = g \/ h \in reading.given \ reading.unproven
    OBVIOUS
  <2> HIDE DEF left
  <2>5. /\ reading' \in Readings /\ reading'.at = "partials" /\ reading'.ballot = reading.ballot
        /\ reading'.marked = reading.marked /\ reading'.root = reading.root
        /\ reading'.given = reading.given /\ reading'.unproven = left
        /\ reading'.sum = reading.sum /\ document' \in Documents
    BY <1>0, <2>1, <2>3 DEF Readings, PublicationInv, PublicationTypeOK
  <2>6. \A h \in reading.given \ left :
            h.sum = MovedSums[reading.ballot] /\ h.ballot = reading.ballot
    BY <1>0, <2>2, <2>4 DEF PublicationInv, ReadingHolds
  <2>7. ReadingHolds'
    BY <1>0, <2>5, <2>6 DEF PublicationInv, ReadingHolds, ReadsOnly, Reporting,
       WithTurnout, PastGate, Untouched
  <2>8. DocumentHolds'
    BY <1>0, <2>1, <2>5, SameReport DEF Reporting, WithTurnout, PastGate
  <2> QED BY <1>0, <2>5, <2>7, <2>8, ReadIsHarmless
<1> QED BY <1>2, <1>3

\* The elements of a finite set can be put in a sequence, each once.
LEMMA InSequence ==
    ASSUME NEW T, NEW S \in SUBSET T, IsFiniteSet(S)
    PROVE  /\ SetToSeq(S) \in Seq(T) /\ IsInjective(SetToSeq(S)) /\ ToSet(SetToSeq(S)) = S
<1> DEFINE n == Cardinality(S)
           s == SetToSeq(S)
<1>1. n \in Nat /\ \E f \in [1..n -> S] : IsInjective(f)
  <2>1. n \in Nat /\ ExistsBijection(1..n, S)
    BY FS_CardinalityType
  <2>2. PICK f \in Bijection(1..n, S) : TRUE
    BY <2>1 DEF ExistsBijection
  <2>3. f \in [1..n -> S] /\ IsInjective(f)
    BY <2>2 DEF Bijection, Injection
  <2> QED BY <2>1, <2>3
<1>2. s \in [1..n -> S] /\ IsInjective(s)
    BY <1>1 DEF SetToSeq
<1> HIDE DEF s
<1>3. s \in Seq(T)
    BY <1>1, <1>2, FunctionIsSequence
<1>4. ToSet(s) = S
  <2>1. s \in Injection(1..n, S)
    BY <1>2 DEF Injection
  <2>2. Cardinality(1..n) = Cardinality(S) /\ IsFiniteSet(1..n)
    BY <1>1, FS_Interval
  <2>3. s \in Surjection(1..n, S)
    BY <2>1, <2>2, FS_Injection
  <2> QED BY <1>2, <2>3 DEF Surjection, ToSet
<1> QED BY <1>2, <1>3, <1>4 DEF s

\* What is appended to the document for a ballot is what the recount enters for it.
LEMMA BallotIsRecorded ==
    ASSUME PublicationInv, reading.at = "partials", reading.unproven = {},
           OpensTo(reading.given, reading.sum.votes, reading.sum)
    PROVE  /\ RecountedBallot \in PublishedBallot /\ Recorded(RecountedBallot, reading.ballot)
           /\ ToSet(RecountedBallot.given) = reading.given
<1> USE MovedTypes
<1> DEFINE given == SetToSeq(reading.given)
           b == reading.ballot
<1>1. /\ b \in Numbered /\ reading.sum = MovedSums[b] /\ reading.given \in SUBSET Contribution
      /\ IsFiniteSet(reading.given) /\ OneEach(reading.given)
      /\ Cardinality(reading.given) >= Threshold
      /\ \A g \in reading.given : g.by = "own" /\ g.sum = MovedSums[b] /\ g.ballot = b
      /\ reading.marked \in [Numbered -> Nat]
      /\ Untouched("markers") => reading.marked = AllTotals
    BY DEF PublicationInv, PublicationTypeOK, Readings, ReadingHolds, WithTurnout, PastGate,
       OpensTo
<1>2. given \in Seq(Contribution) /\ IsInjective(given) /\ ToSet(given) = reading.given
    BY <1>1, InSequence
<1>3. RecountedBallot = [ballot |-> b, rows |-> Total(MovedVotes[b]), marked |-> reading.marked[b],
          sum |-> MovedSums[b], counts |-> MovedVotes[b], given |-> given]
    BY <1>1 DEF RecountedBallot
<1>4. Untouched("markers") => reading.marked[b] = Total(MovedVotes[b])
    BY <1>1 DEF AllTotals
<1>5. reading.marked[b] \in Nat
    BY <1>1
<1> HIDE DEF given
<1>6. RecountedBallot \in PublishedBallot
    BY <1>1, <1>2, <1>3, <1>5 DEF PublishedBallot
<1>7. Recorded(RecountedBallot, b)
    BY <1>1, <1>2, <1>3, <1>4 DEF Recorded
<1> QED BY <1>2, <1>3, <1>6, <1>7

LEMMA PlaceOfABallot ==
    ASSUME NEW b \in Numbered
    PROVE  /\ b \in Nat /\ b - 1 \in Nat /\ (b - 1) + 1 = b /\ (b + 1) - 1 = b
           /\ b # BallotCount => b + 1 \in Numbered
           /\ \A e \in 1..b : e = b \/ e \in 1..(b - 1)
BY PublicationAssumption DEF Numbered

\* A sequence that one entry more makes as long as n.
LEMMA LastOfAnAppend ==
    ASSUME NEW S, NEW seq \in Seq(S), NEW new \in S, NEW n, n \in Nat, n - 1 \in Nat,
           Len(seq) = n - 1, NEW longer, longer = Append(seq, new)
    PROVE  /\ longer \in Seq(S) /\ longer # <<>> /\ Len(longer) = n
           /\ DOMAIN longer = 1..n /\ longer[n] = new
           /\ \A i \in 1..(n - 1) : longer[i] = seq[i]
<1>1. /\ Append(seq, new) \in Seq(S) /\ Append(seq, new) # <<>>
      /\ Len(Append(seq, new)) = Len(seq) + 1 /\ Append(seq, new)[Len(seq) + 1] = new
      /\ \A i \in 1..Len(seq) : Append(seq, new)[i] = seq[i]
    BY AppendProperties
<1>2. Len(seq) + 1 = n
    OBVIOUS
<1>3. longer \in Seq(S) /\ Len(longer) = n /\ longer[n] = new /\ longer # <<>>
    BY <1>1, <1>2
<1>4. DOMAIN longer = 1..n
    BY <1>3
<1> QED BY <1>1, <1>3, <1>4

LEMMA RecountedHolds ==
    ASSUME PublicationInv, Recounted
    PROVE  PublicationInv'
<1> USE MovedTypes
<1>0. /\ ReadsOnly /\ reading.at = "partials" /\ reading \in Readings /\ reading.unproven = {}
      /\ document \in Documents
    BY DEF Recounted, Reads, ReadsOnly, PublicationInv, PublicationTypeOK
<1>1. CASE ~(OpensTo(reading.given, reading.sum.votes, reading.sum) /\ SameCounts)
    BY <1>0, <1>1, EndingHolds DEF Recounted, Mismatch
<1>2. CASE OpensTo(reading.given, reading.sum.votes, reading.sum) /\ SameCounts
  <2> DEFINE entry == RecountedBallot
             all == Total(reading.marked)
             b == reading.ballot
  <2>1. entry \in PublishedBallot /\ Recorded(entry, b) /\ ToSet(entry.given) = reading.given
    BY <1>0, <1>2, BallotIsRecorded
  <2>2. /\ b \in Numbered /\ reading.marked \in [Numbered -> Nat]
        /\ Untouched("markers") => reading.marked = AllTotals
        /\ votersDb.phase \in Published \cup {"OPEN"} /\ OfTheMoved(reading.given)
    BY <1>0 DEF PublicationInv, Readings, ReadingHolds, WithTurnout, PastGate, Reporting
  <2>3. all \in Nat /\ (Untouched("markers") => all = Total(AllTotals))
    BY <2>2, TotalIsANumber DEF Numbered
  <2>4. document' = [document EXCEPT !.ballots = Append(@, entry), !.markedTotal = all]
    BY <1>2 DEF Recounted
  <2>5. reading' = IF b = BallotCount THEN [NothingRead EXCEPT !.at = "published"]
                   ELSE [NothingRead EXCEPT !.at = "mode", !.ballot = b + 1,
                                            !.marked = reading.marked]
    BY <1>2 DEF Recounted
  <2> HIDE DEF entry, all
  <2>6. /\ document.ballots \in Seq(PublishedBallot) /\ Len(document.ballots) = b - 1
        /\ altered = 0 /\ document.election = "this"
        /\ document.shares \in [Trustees -> Made]
        /\ \A t \in Trustees : document.shares[t] = document.key
        /\ Untouched("key") => document.key = "own"
        /\ \A e \in Entries : Recorded(document.ballots[e], e)
        /\ \A e \in Entries : OfTheMoved(ToSet(document.ballots[e].given))
    BY <1>0 DEF PublicationInv, DocumentHolds, Documents, Reporting, WithTurnout, PastGate
  <2> DEFINE ballots == Append(document.ballots, entry)
  <2>7. /\ ballots \in Seq(PublishedBallot) /\ Len(ballots) = b /\ DOMAIN ballots = 1..b
        /\ ballots # <<>> /\ ballots[b] = entry
        /\ \A e \in 1..(b - 1) : ballots[e] = document.ballots[e] /\ e \in Entries
    <3>1. b - 1 \in Nat /\ b \in Nat /\ (b - 1) + 1 = b
      BY <2>2, PlaceOfABallot
    <3>2. Entries = 1..(b - 1)
      BY <2>6 DEF Entries
    <3>3. Len(document.ballots) = b - 1 /\ document.ballots \in Seq(PublishedBallot)
      BY <2>6
    <3>4. entry \in PublishedBallot
      BY <2>1
    <3> HIDE MovedTypes
    <3> HIDE DEF b, ballots
    <3>6. ballots = Append(document.ballots, entry)
      BY DEF ballots
    <3>5. /\ ballots \in Seq(PublishedBallot) /\ ballots # <<>> /\ Len(ballots) = b
          /\ DOMAIN ballots = 1..b /\ ballots[b] = entry
          /\ \A e \in 1..(b - 1) : ballots[e] = document.ballots[e]
      BY <3>1, <3>3, <3>4, <3>6, LastOfAnAppend
    <3> QED BY <3>2, <3>5
  <2>8. \A e \in 1..b : Recorded(ballots[e], e) /\ OfTheMoved(ToSet(ballots[e].given))
    <3>1. \A e \in 1..b : e = b \/ e \in 1..(b - 1)
      BY <2>2, PlaceOfABallot
    <3> HIDE DEF ballots, b
    <3>2. Recorded(ballots[b], b) /\ OfTheMoved(ToSet(ballots[b].given))
      BY <2>1, <2>2, <2>7
    <3>3. \A e \in 1..(b - 1) : Recorded(ballots[e], e) /\ OfTheMoved(ToSet(ballots[e].given))
      BY <2>6, <2>7
    <3> QED BY <3>1, <3>2, <3>3
  <2> HIDE DEF ballots
  <2>9. /\ document' \in Documents /\ document'.ballots = ballots /\ document'.markedTotal = all
        /\ document'.election = document.election /\ document'.key = document.key
        /\ document'.shares = document.shares
    <3>1. document' = [document EXCEPT !.ballots = ballots, !.markedTotal = all]
      BY <2>4 DEF ballots
    <3>2. all \in Int
      BY <2>3
    <3> QED BY <1>0, <2>7, <3>1, <3>2 DEF Documents
  <2>10. Entries' = 1..b
    BY <2>7, <2>9 DEF Entries
  <2>11. \A e \in 1..b : Recorded(ballots[e], e) => Recorded(document.ballots[e], e)'
    BY <1>0, <2>9 DEF Recorded, Untouched, ReadsOnly
  <2>12. CASE b = BallotCount
    <3>1. reading' \in Readings /\ reading'.at = "published"
      BY <2>5, <2>12 DEF NothingRead, Readings
    <3>2. ReadingHolds'
      BY <3>1 DEF ReadingHolds, Reporting, WithTurnout, PastGate
    <3>3. DocumentHolds'
      <4>1. reading'.at \notin Reporting
        BY <3>1 DEF Reporting, WithTurnout, PastGate
      <4>2. Len(document'.ballots) = BallotCount
        BY <2>7, <2>9, <2>12
      <4> QED BY <1>0, <2>3, <2>6, <2>8, <2>9, <2>10, <2>11, <3>1, <4>1, <4>2
              DEF DocumentHolds, ReadsOnly, Untouched
    <3> QED BY <1>0, <2>9, <3>1, <3>2, <3>3, ReadIsHarmless
  <2>13. CASE b # BallotCount
    <3>1. b + 1 \in Numbered
      BY <2>2, <2>13, PlaceOfABallot
    <3>2. /\ reading' \in Readings /\ reading'.at = "mode" /\ reading'.ballot = b + 1
          /\ reading'.marked = reading.marked
      BY <2>2, <2>5, <2>13, <3>1 DEF NothingRead, Readings
    <3>3. ReadingHolds'
      BY <1>0, <2>2, <3>2
         DEF ReadingHolds, Reporting, WithTurnout, PastGate, ReadsOnly, Untouched
    <3>4. DocumentHolds'
      <4>1. Len(document'.ballots) = reading'.ballot - 1
        BY <2>2, <2>7, <2>9, <3>2, PlaceOfABallot
      <4>2. reading'.at # "published"
            /\ reading'.at \notin {"begin", "election", "key", "turnout", "markers", "envelopes"}
        BY <3>2
      <4> QED BY <1>0, <2>3, <2>6, <2>8, <2>9, <2>10, <2>11, <4>1, <4>2
              DEF DocumentHolds, ReadsOnly, Untouched
    <3> QED BY <1>0, <2>9, <3>2, <3>3, <3>4, ReadIsHarmless
  <2> QED BY <2>12, <2>13
<1> QED BY <1>1, <1>2

LEMMA PublishedResultsHolds ==
    ASSUME PublicationInv, publishedResults
    PROVE  PublicationInv'
BY AskModeHolds, ReadElectionHolds, ReadKeyHolds, ReadTurnoutPhaseHolds, ReadTurnoutHolds,
   AskGateHolds, CountLeftHolds, ReadCountersHolds, ReadContributionsHolds, ReadUrnHolds,
   AskRootHolds, VerifyContributionHolds, RecountedHolds DEF publishedResults

----------------------------------------------------------------------------
(***************************************************************************)
(* What is changed in the document.                                        *)
(***************************************************************************)
\* Own contributions open what was moved, as places of a sequence.
LEMMA PlacesOfTheMoved ==
    ASSUME NEW given, \A i \in DOMAIN given : given[i].by = "own" =>
                          given[i].sum = MovedSums[given[i].ballot]
    PROVE  OfTheMoved(ToSet(given))
BY DEF OfTheMoved, ToSet

LEMMA AlteredGivenHolds ==
    ASSUME NEW given \in Seq(Contribution), OfTheMoved(ToSet(given)),
           NEW new \in AlteredGiven(given)
    PROVE  new \in Seq(Contribution) /\ OfTheMoved(ToSet(new))
<1>1. Len(given) \in Nat /\ given # <<>> /\ DOMAIN given = 1..Len(given) /\ Len(given) # 0
    BY DEF AlteredGiven
<1>2. \A i \in 1..Len(given) :
          given[i] \in Contribution /\ (given[i].by = "own" =>
                                            given[i].sum = MovedSums[given[i].ballot])
    BY <1>1 DEF OfTheMoved, ToSet
<1>3. CASE new = Append(given, given[1])
  <2>1. 1 \in 1..Len(given)
    BY <1>1
  <2>2. /\ new \in Seq(Contribution) /\ Len(new) = Len(given) + 1
        /\ new[Len(given) + 1] = given[1] /\ \A i \in 1..Len(given) : new[i] = given[i]
    BY <1>2, <1>3, <2>1, AppendProperties
  <2>3. \A i \in DOMAIN new : i = Len(given) + 1 \/ i \in 1..Len(given)
    BY <1>1, <2>2
  <2>4. \A i \in DOMAIN new : new[i].by = "own" => new[i].sum = MovedSums[new[i].ballot]
    BY <1>2, <2>1, <2>2, <2>3
  <2> QED BY <2>2, <2>4, PlacesOfTheMoved
<1>4. CASE new = Tail(given)
  <2>1. /\ new \in Seq(Contribution) /\ Len(new) = Len(given) - 1
        /\ \A i \in 1..Len(new) : new[i] = given[i + 1]
    BY <1>1, <1>4
  <2>2. \A i \in DOMAIN new : i + 1 \in 1..Len(given) /\ new[i] = given[i + 1]
    BY <1>1, <2>1
  <2>3. \A i \in DOMAIN new : new[i].by = "own" => new[i].sum = MovedSums[new[i].ballot]
    BY <1>2, <2>2
  <2> QED BY <2>1, <2>3, PlacesOfTheMoved
<1>5. CASE new = [given EXCEPT ![1].by = "other"]
  <2>1. 1 \in 1..Len(given)
    BY <1>1
  <2> DEFINE first == [given[1] EXCEPT !.by = "other"]
  <2>2. first \in Contribution /\ first.by = "other"
    BY <1>2, <2>1 DEF Contribution, Made
  <2>3. new = [given EXCEPT ![1] = first]
    BY <1>5
  <2> HIDE DEF first
  <2>4. /\ new \in [1..Len(given) -> Contribution] /\ new[1] = first
        /\ \A i \in 1..Len(given) : i # 1 => new[i] = given[i]
    BY <1>1, <1>2, <2>1, <2>2, <2>3
  <2>5. new \in Seq(Contribution)
    BY <1>1, <2>4, FunctionIsSequence
  <2>6. \A i \in DOMAIN new : new[i].by = "own" => new[i].sum = MovedSums[new[i].ballot]
    BY <1>2, <2>2, <2>4
  <2> QED BY <2>5, <2>6, PlacesOfTheMoved
<1> QED BY <1>1, <1>3, <1>4, <1>5 DEF AlteredGiven

\* An entry as it may be, whatever was changed: own contributions open what was moved.
StandsAsMoved(entry) == entry \in PublishedBallot /\ OfTheMoved(ToSet(entry.given))

LEMMA TotalOfASequence ==
    ASSUME NEW counts \in Seq(Nat)
    PROVE  Total(counts) \in Nat
<1>1. Len(counts) \in Nat /\ counts \in [1..Len(counts) -> Nat]
    OBVIOUS
<1> QED BY <1>1, TotalIsANumber

LEMMA RemadeStands ==
    ASSUME NEW old, StandsAsMoved(old), NEW c \in Sums
    PROVE  StandsAsMoved(Remade(old, c))
<1> DEFINE sum == Sealed(c, "other")
           given == [i \in DOMAIN old.given |-> [old.given[i] EXCEPT !.sum = sum, !.by = "other"]]
<1>1. old \in PublishedBallot /\ old.given \in Seq(Contribution)
    BY DEF StandsAsMoved, PublishedBallot
<1>2. c \in Seq(Nat) /\ Total(c) \in Nat /\ sum \in SealedSum
    BY PublicationAssumption, TotalOfASequence DEF Sealed, SealedSum, Made
<1> HIDE DEF sum
<1>3. /\ Len(old.given) \in Nat /\ DOMAIN old.given = 1..Len(old.given)
      /\ \A i \in 1..Len(old.given) : old.given[i] \in Contribution
    BY <1>1
<1>4. \A i \in 1..Len(old.given) : given[i] \in Contribution /\ given[i].by = "other"
    BY <1>2, <1>3 DEF Contribution, Made
<1>5. given \in [1..Len(old.given) -> Contribution]
    BY <1>3, <1>4
<1>6. given \in Seq(Contribution) /\ DOMAIN given = 1..Len(old.given)
    BY <1>3, <1>5, FunctionIsSequence
<1>7. OfTheMoved(ToSet(given))
  <2>1. \A i \in DOMAIN given : given[i].by # "own"
    BY <1>4, <1>6
  <2> HIDE DEF given
  <2> QED BY <2>1, PlacesOfTheMoved
<1>8. Remade(old, c) = [old EXCEPT !.sum = sum, !.counts = c, !.rows = Total(c),
                                   !.marked = Total(c), !.given = given]
    BY DEF Remade, sum
<1> HIDE DEF given
<1>9. Remade(old, c) \in PublishedBallot /\ Remade(old, c).given = given
    BY <1>1, <1>2, <1>6, <1>8 DEF PublishedBallot
<1> QED BY <1>7, <1>9 DEF StandsAsMoved

LEMMA AlteredEntryStands ==
    ASSUME \A e \in Entries : StandsAsMoved(document.ballots[e]),
           NEW e \in Entries, NEW entry \in AlteredEntry(e)
    PROVE  StandsAsMoved(entry)
<1> DEFINE old == document.ballots[e]
<1>1. old \in PublishedBallot /\ OfTheMoved(ToSet(old.given))
    BY DEF StandsAsMoved
<1>3. CASE entry \in {[old EXCEPT !.counts = c] : c \in Sums}
  <2>1. PICK c \in Sums : entry = [old EXCEPT !.counts = c]
    BY <1>3
  <2>2. c \in Seq(Nat)
    BY PublicationAssumption
  <2> HIDE DEF old
  <2>3. entry \in PublishedBallot /\ entry.given = old.given
    BY <1>1, <2>1, <2>2 DEF PublishedBallot
  <2> QED BY <1>1, <2>3 DEF StandsAsMoved
<1>4. CASE entry \in {[old EXCEPT !.sum = s, !.counts = s.votes, !.rows = Total(s.votes),
                                 !.marked = Total(s.votes)] : s \in AnySum}
  <2>1. PICK s \in AnySum :
            entry = [old EXCEPT !.sum = s, !.counts = s.votes, !.rows = Total(s.votes),
                                !.marked = Total(s.votes)]
    BY <1>4
  <2>2. s \in SealedSum /\ s.votes \in Seq(Nat)
    BY PublicationAssumption DEF AnySum, SealedSum
  <2>3. Total(s.votes) \in Nat
    BY <2>2, TotalOfASequence
  <2> HIDE DEF old
  <2>4. entry \in PublishedBallot /\ entry.given = old.given
    BY <1>1, <2>1, <2>2, <2>3 DEF PublishedBallot
  <2> QED BY <1>1, <2>4 DEF StandsAsMoved
<1>5. CASE entry = [old EXCEPT !.rows = @ + 1, !.marked = @ + 1]
  <2> HIDE DEF old
  <2>1. old.rows + 1 \in Nat /\ old.marked + 1 \in Nat
    BY <1>1 DEF PublishedBallot
  <2>2. entry = [old EXCEPT !.rows = old.rows + 1, !.marked = old.marked + 1]
    BY <1>5
  <2> DEFINE moreRows == old.rows + 1
             moreMarked == old.marked + 1
  <2> HIDE DEF moreRows, moreMarked
  <2>3. /\ moreRows \in Nat /\ moreMarked \in Nat
        /\ entry = [old EXCEPT !.rows = moreRows, !.marked = moreMarked]
    BY <2>1, <2>2 DEF moreRows, moreMarked
  <2>4. entry \in PublishedBallot /\ entry.given = old.given
    BY <1>1, <2>3 DEF PublishedBallot
  <2> QED BY <1>1, <2>4 DEF StandsAsMoved
<1>6. CASE entry \in {[old EXCEPT !.given = given] : given \in AlteredGiven(old.given)}
  <2>1. PICK new \in AlteredGiven(old.given) : entry = [old EXCEPT !.given = new]
    BY <1>6
  <2>2. old.given \in Seq(Contribution)
    BY <1>1 DEF PublishedBallot
  <2> HIDE DEF old
  <2>3. new \in Seq(Contribution) /\ OfTheMoved(ToSet(new))
    BY <1>1, <2>2, AlteredGivenHolds
  <2>4. entry \in PublishedBallot /\ entry.given = new
    BY <1>1, <2>1, <2>3 DEF PublishedBallot
  <2> QED BY <2>3, <2>4 DEF StandsAsMoved
<1>7. CASE entry \in {[document.ballots[other] EXCEPT !.ballot = old.ballot] :
                          other \in Entries}
  <2>1. PICK other \in Entries : entry = [document.ballots[other] EXCEPT !.ballot = old.ballot]
    BY <1>7
  <2>2. /\ document.ballots[other] \in PublishedBallot
        /\ OfTheMoved(ToSet(document.ballots[other].given))
        /\ old.ballot \in Numbered
    BY <1>1 DEF StandsAsMoved, PublishedBallot
  <2> HIDE DEF old
  <2>3. entry \in PublishedBallot /\ entry.given = document.ballots[other].given
    BY <2>1, <2>2 DEF PublishedBallot
  <2> QED BY <2>2, <2>3 DEF StandsAsMoved
<1>8. CASE entry \in {Remade(old, c) : c \in Sums}
    BY <1>1, <1>8, RemadeStands DEF StandsAsMoved
<1>9. \/ entry \in {[old EXCEPT !.counts = c] : c \in Sums}
      \/ entry \in {[old EXCEPT !.sum = s, !.counts = s.votes, !.rows = Total(s.votes),
                                !.marked = Total(s.votes)] : s \in AnySum}
      \/ entry = [old EXCEPT !.rows = @ + 1, !.marked = @ + 1]
      \/ entry \in {[old EXCEPT !.given = given] : given \in AlteredGiven(old.given)}
      \/ entry \in {Remade(old, c) : c \in Sums}
      \/ entry \in {[document.ballots[other] EXCEPT !.ballot = old.ballot] : other \in Entries}
    BY DEF AlteredEntry
<1> QED BY <1>3, <1>4, <1>5, <1>6, <1>7, <1>8, <1>9

\* Entries that stand, in a sequence.
Standing(ballots) == ballots \in Seq(PublishedBallot) /\ \A e \in DOMAIN ballots : StandsAsMoved(ballots[e])

LEMMA OneIsChanged ==
    ASSUME NEW ballots, Standing(ballots), NEW e \in DOMAIN ballots, NEW entry, StandsAsMoved(entry)
    PROVE  Standing([ballots EXCEPT ![e] = entry])
<1> DEFINE other == [ballots EXCEPT ![e] = entry]
<1>1. /\ Len(ballots) \in Nat /\ DOMAIN ballots = 1..Len(ballots)
      /\ ballots \in [1..Len(ballots) -> PublishedBallot] /\ entry \in PublishedBallot
    BY DEF Standing, StandsAsMoved
<1>2. other \in [1..Len(ballots) -> PublishedBallot]
    BY <1>1
<1>3. other \in Seq(PublishedBallot) /\ DOMAIN other = DOMAIN ballots
    BY <1>1, <1>2, FunctionIsSequence
<1>4. \A a \in DOMAIN ballots : other[a] = IF a = e THEN entry ELSE ballots[a]
    BY <1>1
<1> HIDE DEF other
<1> QED BY <1>3, <1>4 DEF Standing, other

\* All entries are made anew.
LEMMA AllAreRemade ==
    ASSUME NEW ballots, Standing(ballots), NEW claim \in [DOMAIN ballots -> Sums]
    PROVE  /\ Standing([e \in DOMAIN ballots |-> Remade(ballots[e], claim[e])])
           /\ Total([e \in DOMAIN ballots |-> Total(claim[e])]) \in Nat
<1> DEFINE anew == [e \in DOMAIN ballots |-> Remade(ballots[e], claim[e])]
<1>1. Len(ballots) \in Nat /\ DOMAIN ballots = 1..Len(ballots)
    BY DEF Standing
<1>2. ASSUME NEW e \in DOMAIN ballots
      PROVE  StandsAsMoved(anew[e]) /\ Total(claim[e]) \in Nat
  <2>1. StandsAsMoved(ballots[e]) /\ claim[e] \in Sums
    BY DEF Standing
  <2>2. claim[e] \in Seq(Nat)
    BY <2>1, PublicationAssumption
  <2> QED BY <2>1, <2>2, RemadeStands, TotalOfASequence
<1>3. anew \in [1..Len(ballots) -> PublishedBallot]
    BY <1>1, <1>2 DEF StandsAsMoved
<1>4. anew \in Seq(PublishedBallot) /\ DOMAIN anew = DOMAIN ballots
    BY <1>1, <1>3, FunctionIsSequence
<1>5. Total([e \in DOMAIN ballots |-> Total(claim[e])]) \in Nat
  <2> DEFINE totals == [e \in DOMAIN ballots |-> Total(claim[e])]
  <2>1. totals \in [1..Len(ballots) -> Nat]
    BY <1>1, <1>2
  <2> HIDE DEF totals
  <2>2. Total(totals) \in Nat
    BY <1>1, <2>1, TotalIsANumber
  <2> QED BY <2>2 DEF totals
<1>6. \A e \in DOMAIN anew : StandsAsMoved(anew[e])
    BY <1>2, <1>4
<1> HIDE DEF anew
<1> QED BY <1>4, <1>5, <1>6 DEF Standing, anew

LEMMA OneIsAdded ==
    ASSUME NEW ballots, Standing(ballots), NEW entry, StandsAsMoved(entry)
    PROVE  Standing(Append(ballots, entry))
<1>1. Len(ballots) \in Nat /\ ballots \in Seq(PublishedBallot) /\ entry \in PublishedBallot
      /\ DOMAIN ballots = 1..Len(ballots)
    BY DEF Standing, StandsAsMoved
<1> DEFINE longer == Append(ballots, entry)
<1>2. /\ longer \in Seq(PublishedBallot) /\ Len(longer) = Len(ballots) + 1
      /\ longer[Len(ballots) + 1] = entry /\ \A a \in 1..Len(ballots) : longer[a] = ballots[a]
    BY <1>1, AppendProperties
<1> HIDE DEF longer
<1>3. \A a \in DOMAIN longer : a = Len(ballots) + 1 \/ a \in 1..Len(ballots)
    BY <1>1, <1>2
<1>4. \A a \in DOMAIN longer : StandsAsMoved(longer[a])
    BY <1>1, <1>2, <1>3 DEF Standing
<1> QED BY <1>2, <1>4 DEF Standing, longer

LEMMA OneIsTakenOut ==
    ASSUME NEW ballots, Standing(ballots), NEW e \in DOMAIN ballots
    PROVE  Standing(RemoveAt(ballots, e))
<1> DEFINE before == SubSeq(ballots, 1, e - 1)
           behind == SubSeq(ballots, e + 1, Len(ballots))
           n == Len(ballots)
<1>1. /\ n \in Nat /\ DOMAIN ballots = 1..n /\ ballots \in Seq(PublishedBallot)
      /\ e \in 1..n
    BY DEF Standing
<1>2. before \in Seq(PublishedBallot) /\ Len(before) = e - 1
      /\ \A a \in 1..(e - 1) : before[a] = ballots[a] /\ a \in 1..n
    BY <1>1
<1>3. behind \in Seq(PublishedBallot) /\ Len(behind) = n - e
      /\ \A a \in 1..(n - e) : behind[a] = ballots[a + e] /\ a + e \in 1..n
    BY <1>1
<1>4. Standing(before)
  <2>1. DOMAIN before = 1..(e - 1)
    BY <1>2
  <2> HIDE DEF before
  <2> QED BY <1>1, <1>2, <2>1 DEF Standing
<1>5. Standing(behind)
  <2>1. DOMAIN behind = 1..(n - e)
    BY <1>3
  <2> HIDE DEF behind
  <2> QED BY <1>1, <1>3, <2>1 DEF Standing
<1>6. RemoveAt(ballots, e) = before \o behind
    BY DEF RemoveAt
<1> HIDE DEF before, behind
<1> DEFINE both == before \o behind
<1>7. /\ both \in Seq(PublishedBallot) /\ Len(both) = Len(before) + Len(behind)
      /\ \A a \in 1..Len(both) :
            both[a] = IF a <= Len(before) THEN before[a] ELSE behind[a - Len(before)]
  <2>1. before \in Seq(PublishedBallot) /\ behind \in Seq(PublishedBallot)
    BY <1>2, <1>3
  <2> QED BY <2>1, ConcatProperties
<1> HIDE DEF both
<1>8. ASSUME NEW a \in DOMAIN both PROVE StandsAsMoved(both[a])
  <2>1. /\ a \in 1..Len(both) /\ Len(before) \in Nat /\ Len(behind) \in Nat
        /\ DOMAIN before = 1..Len(before) /\ DOMAIN behind = 1..Len(behind)
    BY <1>2, <1>3, <1>7
  <2>2. CASE a <= Len(before)
    <3>1. a \in DOMAIN before /\ both[a] = before[a]
      BY <1>7, <2>1, <2>2
    <3> QED BY <1>4, <3>1 DEF Standing
  <2>3. CASE ~(a <= Len(before))
    <3>1. a - Len(before) \in DOMAIN behind /\ both[a] = behind[a - Len(before)]
      BY <1>7, <2>1, <2>3
    <3> QED BY <1>5, <3>1 DEF Standing
  <2> QED BY <2>2, <2>3
<1> QED BY <1>6, <1>7, <1>8 DEF Standing, both

LEMMA AlterHolds ==
    ASSUME PublicationInv, Alter
    PROVE  PublicationInv'
<1>0. /\ reading.at = "published" /\ altered' = altered + 1
      /\ UNCHANGED <<votersDb, votesDb, reading, turnout, meddled>>
    BY DEF Alter
<1>1. /\ document \in Documents /\ document.shares \in [Trustees -> Made] /\ altered \in Nat
      /\ document.ballots \in Seq(PublishedBallot) /\ document.markedTotal \in Int
    BY <1>0 DEF PublicationInv, PublicationTypeOK, DocumentHolds, Documents
<1>2. Standing(document.ballots)
  <2>1. \A e \in DOMAIN document.ballots : document.ballots[e] \in PublishedBallot
    BY <1>1
  <2> QED BY <1>1, <2>1 DEF PublicationInv, DocumentHolds, Entries, Standing, StandsAsMoved
\* What every one of the changes leaves.
<1> DEFINE Fits ==
        /\ document' \in Documents /\ document'.shares \in [Trustees -> Made]
        /\ Standing(document'.ballots)
<1>3. ASSUME NEW e \in Entries, AlterEntry(e)
      PROVE  Fits
  <2>1. StandsAsMoved(document.ballots[e]) /\ e \in DOMAIN document.ballots
    BY <1>2 DEF Standing, Entries
  <2>2. document.ballots[e].marked \in Nat
    BY <2>1 DEF StandsAsMoved, PublishedBallot
  <2>3. CASE \E entry \in AlteredEntry(e) : document' = [document EXCEPT !.ballots[e] = entry]
    <3>1. PICK entry \in AlteredEntry(e) : document' = [document EXCEPT !.ballots[e] = entry]
      BY <2>3
    <3>2. StandsAsMoved(entry)
      BY <1>2, AlteredEntryStands DEF Standing, Entries
    <3> DEFINE ballots == [document.ballots EXCEPT ![e] = entry]
    <3>3. Standing(ballots)
      BY <1>2, <2>1, <3>2, OneIsChanged
    <3>4. document' = [document EXCEPT !.ballots = ballots]
      BY <1>1, <3>1 DEF Documents
    <3> HIDE DEF ballots
    <3> QED BY <1>1, <3>3, <3>4 DEF Documents, Standing
  <2>4. CASE document' = [document EXCEPT !.ballots = Append(@, @[e]),
                                          !.markedTotal = @ + document.ballots[e].marked]
    <3> DEFINE ballots == Append(document.ballots, document.ballots[e])
               all == document.markedTotal + document.ballots[e].marked
    <3>1. Standing(ballots) /\ all \in Int
      BY <1>1, <1>2, <2>1, <2>2, OneIsAdded
    <3>2. document' = [document EXCEPT !.ballots = ballots, !.markedTotal = all]
      BY <2>4
    <3> HIDE DEF ballots, all
    <3> QED BY <1>1, <3>1, <3>2 DEF Documents, Standing
  <2>5. CASE document' = [document EXCEPT !.ballots = RemoveAt(@, e),
                                          !.markedTotal = @ - document.ballots[e].marked]
    <3> DEFINE ballots == RemoveAt(document.ballots, e)
               all == document.markedTotal - document.ballots[e].marked
    <3>1. Standing(ballots) /\ all \in Int
      BY <1>1, <1>2, <2>1, <2>2, OneIsTakenOut
    <3>2. document' = [document EXCEPT !.ballots = ballots, !.markedTotal = all]
      BY <2>5
    <3> HIDE DEF ballots, all
    <3> QED BY <1>1, <3>1, <3>2 DEF Documents, Standing
  <2> QED BY <1>3, <2>3, <2>4, <2>5 DEF AlterEntry
<1>4. ASSUME document' \in Documents, document'.shares \in [Trustees -> Made],
             document'.ballots = document.ballots
      PROVE  Fits
    BY <1>2, <1>4
<1>5. ASSUME document' = [document EXCEPT !.election = "another"]
      PROVE  Fits
  <2>1. /\ document' \in Documents /\ document'.shares \in [Trustees -> Made]
        /\ document'.ballots = document.ballots
    BY <1>1, <1>5 DEF Documents
  <2> QED BY <1>4, <2>1
<1>6. ASSUME NEW t \in Trustees, document' = [document EXCEPT !.shares[t] = "other"]
      PROVE  Fits
  <2>1. /\ document' \in Documents /\ document'.shares \in [Trustees -> Made]
        /\ document'.ballots = document.ballots
    BY <1>1, <1>6 DEF Documents, Made
  <2> QED BY <1>4, <2>1
<1>7. ASSUME document' = [document EXCEPT !.key = "other",
                                          !.shares = [t \in Trustees |-> "other"]]
      PROVE  Fits
  <2>1. /\ document' \in Documents /\ document'.shares \in [Trustees -> Made]
        /\ document'.ballots = document.ballots
    BY <1>1, <1>7 DEF Documents, Made
  <2> QED BY <1>4, <2>1
<1>8. ASSUME document' = [document EXCEPT !.markedTotal = @ + 1]
      PROVE  Fits
  <2>1. document.markedTotal + 1 \in Int
    BY <1>1
  <2>2. /\ document' \in Documents /\ document'.shares \in [Trustees -> Made]
        /\ document'.ballots = document.ballots
    BY <1>1, <1>8, <2>1 DEF Documents
  <2> QED BY <1>4, <2>2
<1>9. ASSUME NEW claim \in [Entries -> Sums], document' = RemadeDocument(claim)
      PROVE  Fits
  <2> DEFINE anew == [e \in Entries |-> Remade(document.ballots[e], claim[e])]
             all == Total([e \in Entries |-> Total(claim[e])])
             shares == [t \in Trustees |-> "other"]
  <2>1. Standing(anew) /\ all \in Nat
    BY <1>2, AllAreRemade DEF Entries
  <2>2. document' = [document EXCEPT !.key = "other", !.shares = shares, !.ballots = anew,
                                     !.markedTotal = all]
    BY <1>9 DEF RemadeDocument
  <2>3. shares \in [Trustees -> Made] /\ all \in Int
    BY <2>1 DEF Made
  <2> HIDE DEF anew, all, shares
  <2> QED BY <1>1, <2>1, <2>2, <2>3 DEF Documents, Standing, Made
<1>10. Fits
    BY <1>3, <1>5, <1>6, <1>7, <1>8, <1>9 DEF Alter
<1> HIDE DEF Fits
<1>11. PublicationTypeOK' /\ DatabasesHold' /\ ReadingHolds' /\ TurnoutHolds'
    BY <1>0, <1>1, <1>10 DEF Fits, PublicationInv, PublicationTypeOK, DatabasesHold, Untouched,
       ReadingHolds, TurnoutHolds, TurnoutIsTrue
<1>12. DocumentHolds'
  <2>1. altered' # 0 /\ reading'.at = "published" /\ reading'.at \notin Reporting
    BY <1>0, <1>1 DEF Reporting, WithTurnout, PastGate
  <2>2. \A e \in Entries' : OfTheMoved(ToSet(document'.ballots[e].given))
    BY <1>10 DEF Fits, Standing, StandsAsMoved, Entries
  <2>3. document'.shares \in [Trustees -> Made]
    BY <1>10 DEF Fits
  <2> QED BY <2>1, <2>2, <2>3 DEF DocumentHolds
<1> QED BY <1>11, <1>12 DEF PublicationInv

LEMMA AskTurnoutHolds ==
    ASSUME PublicationInv, AskTurnout
    PROVE  PublicationInv'
<1>0. UNCHANGED <<votersDb, votesDb, reading, document, meddled, altered>>
    BY DEF AskTurnout
<1>1. votersDb \in VotersDbs /\ turnout \in Turnouts
    BY DEF PublicationInv, PublicationTypeOK
<1>2. CASE /\ turnout.at = "begin"
           /\ turnout' = [turnout EXCEPT !.at = "count", !.phase = votersDb.phase,
                                         !.basis = Basis]
  <2>1. /\ turnout'.at = "count" /\ turnout'.phase = votersDb.phase /\ turnout'.basis = Basis
        /\ turnout' \in Turnouts
    BY <1>1, <1>2 DEF Turnouts, VotersDbs, Basis
  <2>2. TurnoutHolds'
    BY <1>0, <1>1, <2>1 DEF TurnoutHolds, TurnoutIsTrue, VotersDbs, Basis, PublicationInv,
       DatabasesHold
  <2> QED BY <1>0, <2>1, <2>2 DEF PublicationInv, PublicationTypeOK, DatabasesHold, Untouched,
       ReadingHolds, DocumentHolds, Entries, Recorded
<1>3. CASE /\ turnout.at = "count"
           /\ turnout' = [turnout EXCEPT !.at = "told", !.voted = Voted(turnout.basis)]
  <2> DEFINE said == Voted(turnout.basis)
  <2>1. said \in [Numbered -> Nat]
    BY <1>1 DEF Voted, VotersDbs
  <2>2. ASSUME meddled = {}, ~votesDb.reset
        PROVE  said = AllTotals \/ (turnout.phase = "VALIDATED" /\ said = Zeros)
    <3>1. /\ turnout.phase \in ElectionPhases /\ turnout.phase # "OPEN"
          /\ turnout.phase # "VALIDATED" => votersDb.phase # "VALIDATED"
          /\ turnout.basis = IF turnout.phase = "VALIDATED" THEN "envelopes" ELSE "markers"
          /\ votersDb.phase # "OPEN"
      BY <1>3, <2>2 DEF PublicationInv, TurnoutHolds, DatabasesHold
    <3>2. CASE turnout.phase = "VALIDATED"
      <4>1. said = votersDb.envelopes
        BY <3>1, <3>2 DEF Voted
      <4>2. votersDb.envelopes = AllTotals \/ votersDb.envelopes = Zeros
        BY <2>2 DEF PublicationInv, DatabasesHold, Untouched
      <4> QED BY <3>2, <4>1, <4>2
    <3>3. CASE turnout.phase # "VALIDATED"
      <4>1. said = votersDb.marked
        BY <3>1, <3>3 DEF Voted
      <4>2. votersDb.marked = AllTotals
        BY <2>2, <3>1, <3>3 DEF PublicationInv, DatabasesHold, Untouched
      <4> QED BY <4>1, <4>2
    <3> QED BY <3>2, <3>3
  <2>3. /\ turnout' = [turnout EXCEPT !.at = "told", !.voted = said]
    BY <1>3
  <2> HIDE DEF said
  <2>4. /\ turnout' \in Turnouts /\ turnout'.at = "told" /\ turnout'.voted = said
        /\ turnout'.phase = turnout.phase
    BY <1>1, <2>1, <2>3 DEF Turnouts
  <2>5. TurnoutHolds'
    BY <1>0, <2>2, <2>4 DEF TurnoutHolds, TurnoutIsTrue
  <2> QED BY <1>0, <2>4, <2>5 DEF PublicationInv, PublicationTypeOK, DatabasesHold, Untouched,
       ReadingHolds, DocumentHolds, Entries, Recorded
<1> QED BY <1>2, <1>3 DEF AskTurnout

LEMMA PublicationStays ==
    ASSUME PublicationInv, [PublicationNext]_publicationVars
    PROVE  PublicationInv'
<1>1. CASE UNCHANGED publicationVars
    BY <1>1 DEF publicationVars, PublicationInv, PublicationTypeOK, DatabasesHold, Untouched,
       ReadingHolds, DocumentHolds, Entries, Recorded, TurnoutHolds, TurnoutIsTrue
<1>2. CASE OnDatabases
    BY <1>2, OthersGoOn
<1>3. CASE publishedResults
    BY <1>3, PublishedResultsHolds
<1>4. CASE AskTurnout
    BY <1>4, AskTurnoutHolds
<1>5. CASE Alter
    BY <1>5, AlterHolds
<1> QED BY <1>1, <1>2, <1>3, <1>4, <1>5 DEF PublicationNext, OnDatabases

----------------------------------------------------------------------------
(***************************************************************************)
(* What is published, and what the tool lets through.                      *)
(***************************************************************************)
\* What verifyPublication asks of a ballot's contributions holds for what was recorded.
LEMMA AllAreUsable ==
    ASSUME NEW doc, NEW entry \in PublishedBallot, NEW b \in Numbered, Recorded(entry, b),
           \A t \in Trustees : doc.shares[t] = "own"
    PROVE  Usable(doc, entry) = ToSet(entry.given)
<1>1. /\ entry.given \in Seq(Contribution) /\ IsInjective(entry.given)
      /\ OneEach(ToSet(entry.given)) /\ entry.sum = MovedSums[b] /\ entry.ballot = b
      /\ \A g \in ToSet(entry.given) : g.by = "own" /\ g.sum = MovedSums[b] /\ g.ballot = b
    BY DEF PublishedBallot, Recorded
<1> DEFINE given == entry.given
<1>2. ASSUME NEW g \in ToSet(given)
      PROVE  /\ Cardinality({i \in DOMAIN given : given[i].trustee = g.trustee}) = 1
             /\ Proves(g, doc.shares[g.trustee], entry.sum, entry.ballot)
  <2>1. PICK k \in DOMAIN given : given[k] = g
    BY DEF ToSet
  <2>2. {i \in DOMAIN given : given[i].trustee = g.trustee} = {k}
    <3>1. ASSUME NEW i \in DOMAIN given, given[i].trustee = g.trustee
          PROVE  i = k
      <4>1. given[i] = given[k]
        <5>1. given[i] \in ToSet(given) /\ given[k] \in ToSet(given)
          BY <2>1 DEF ToSet
        <5> QED BY <1>1, <2>1, <3>1, <5>1 DEF OneEach
      <4> QED BY <1>1, <2>1, <4>1 DEF IsInjective
    <3> QED BY <2>1, <3>1
  <2>3. g \in Contribution
    <3>1. given \in Seq(Contribution)
      BY <1>1
    <3> QED BY <2>1, <3>1
  <2>4. doc.shares[g.trustee] = "own"
    BY <2>3 DEF Contribution, Trustees
  <2> QED BY <1>1, <2>2, <2>4, FS_Singleton DEF Proves
<1> QED BY <1>2 DEF Usable

LEMMA RecordedBallotHolds ==
    ASSUME NEW doc, NEW entry \in PublishedBallot, NEW b \in Numbered, Recorded(entry, b),
           \A t \in Trustees : doc.shares[t] = "own", Untouched("markers")
    PROVE  BallotHolds(doc, entry)
<1>1. Usable(doc, entry) = ToSet(entry.given)
    BY AllAreUsable
<1> QED BY <1>1, MovedTypes DEF BallotHolds, Recorded, OpensTo

LEMMA PublishedIsTheMoved ==
    ASSUME PublicationInv
    PROVE  PublishedIsMoved
<1> SUFFICES ASSUME IsPublished PROVE
        /\ Len(document.ballots) = BallotCount
        /\ \A b \in Numbered :
              /\ document.ballots[b].ballot = b
              /\ document.ballots[b].counts = MovedVotes[b]
        /\ meddled \cap {<<"markers">>, <<"key">>} = {} => verifyPublication(document)
    BY DEF PublishedIsMoved
<1>1. /\ document.election = "this" /\ Len(document.ballots) = BallotCount
      /\ document.shares \in [Trustees -> Made]
      /\ \A t \in Trustees : document.shares[t] = document.key
      /\ Untouched("key") => document.key = "own"
      /\ \A e \in Entries : Recorded(document.ballots[e], e)
      /\ document.ballots # <<>> /\ Untouched("markers") =>
             document.markedTotal = Total(AllTotals)
      /\ document.ballots \in Seq(PublishedBallot)
    BY DEF IsPublished, PublicationInv, PublicationTypeOK, DocumentHolds, Documents
<1>2. Entries = Numbered /\ DOMAIN document.ballots = Numbered /\ document.ballots # <<>>
    BY <1>1, MovedTypes DEF Entries, Numbered
<1>3. \A b \in Numbered :
          /\ Recorded(document.ballots[b], b) /\ document.ballots[b] \in PublishedBallot
          /\ document.ballots[b].ballot = b /\ document.ballots[b].counts = MovedVotes[b]
    BY <1>1, <1>2 DEF Recorded
<1>4. ASSUME meddled \cap {<<"markers">>, <<"key">>} = {}
      PROVE  verifyPublication(document)
  <2>1. Untouched("markers") /\ Untouched("key")
    BY <1>4 DEF Untouched
  <2>2. \A t \in Trustees : document.shares[t] = "own"
    BY <1>1, <2>1
  <2>3. \A b \in Numbered : BallotHolds(document, document.ballots[b])
    BY <1>3, <2>1, <2>2, RecordedBallotHolds
  <2>4. EachOnce(document.ballots)
    BY <1>2, <1>3 DEF EachOnce
  <2>5. /\ [i \in DOMAIN document.ballots |-> document.ballots[i].rows] = AllTotals
        /\ [i \in DOMAIN document.ballots |-> document.ballots[i].marked] = AllTotals
    BY <1>2, <1>3, <2>1 DEF AllTotals, Recorded
  <2>6. document.markedTotal = Total(AllTotals)
    BY <1>1, <1>2, <2>1
  <2> QED BY <1>1, <1>2, <2>3, <2>4, <2>5, <2>6 DEF verifyPublication, RowsTotal
<1> QED BY <1>1, <1>3, <1>4

\* A ballot that the tool lets through tells what was moved for it.
LEMMA PassingBallotIsMoved ==
    ASSUME NEW doc, NEW entry \in PublishedBallot, OfTheMoved(ToSet(entry.given)),
           \A t \in Trustees : doc.shares[t] = "own", BallotHolds(doc, entry)
    PROVE  /\ entry.counts = MovedVotes[entry.ballot]
           /\ entry.rows = Total(MovedVotes[entry.ballot])
<1>1. ToSet(entry.given) # {}
  <2> SUFFICES ASSUME ToSet(entry.given) = {} PROVE FALSE
    OBVIOUS
  <2>1. Cardinality({}) >= Threshold
    BY DEF BallotHolds
  <2> QED BY <2>1, FS_EmptySet, PublicationAssumption
<1>2. PICK g \in ToSet(entry.given) : TRUE
    BY <1>1
<1>3. g \in Contribution /\ entry.ballot \in Numbered
  <2>1. entry.given \in Seq(Contribution) /\ entry.ballot \in Numbered
    BY DEF PublishedBallot
  <2> QED BY <1>2, <2>1 DEF ToSet
<1>4. /\ g.by = doc.shares[g.trustee] /\ entry.counts = entry.sum.votes /\ g.sum = entry.sum
      /\ g.ballot = entry.ballot /\ entry.rows = Total(entry.counts)
    BY <1>2 DEF BallotHolds, OpensTo, Usable, Proves
<1>5. g.by = "own"
    BY <1>3, <1>4 DEF Contribution
<1>6. entry.sum = MovedSums[entry.ballot]
    BY <1>2, <1>4, <1>5 DEF OfTheMoved
<1> QED BY <1>3, <1>4, <1>6, MovedTypes

LEMMA WhatWasAlteredIsFound ==
    ASSUME PublicationInv
    PROVE  AlteredIsFound
<1> SUFFICES ASSUME reading.at = "published", document.key = "own",
                    verifyPublication(document)
             PROVE  /\ \A i \in Entries : document.ballots[i].counts =
                                          MovedVotes[document.ballots[i].ballot]
                    /\ RowsTotal(document) <= Total(AllTotals)
    BY DEF AlteredIsFound
<1> DEFINE n == Len(document.ballots)
           pick == [i \in 1..n |-> document.ballots[i].ballot]
<1>1. document.ballots \in Seq(PublishedBallot)
    BY DEF PublicationInv, PublicationTypeOK, Documents
<1>2. n \in Nat /\ Entries = 1..n /\ DOMAIN document.ballots = 1..n
      /\ \A i \in 1..n : document.ballots[i] \in PublishedBallot
    BY <1>1 DEF Entries
<1>3. ASSUME NEW i \in 1..n
      PROVE  /\ document.ballots[i].counts = MovedVotes[document.ballots[i].ballot]
             /\ document.ballots[i].rows = Total(MovedVotes[document.ballots[i].ballot])
             /\ document.ballots[i].ballot \in Numbered
  <2>1. OfTheMoved(ToSet(document.ballots[i].given)) /\ BallotHolds(document, document.ballots[i])
        /\ \A t \in Trustees : document.shares[t] = "own"
    BY <1>2 DEF PublicationInv, DocumentHolds, verifyPublication
  <2>2. document.ballots[i].ballot \in Numbered
    BY <1>2 DEF PublishedBallot
  <2> QED BY <1>2, <2>1, <2>2, PassingBallotIsMoved
<1>4. RowsTotal(document) <= Total(AllTotals)
  <2>1. BallotCount \in Nat /\ Numbered = 1..BallotCount /\ AllTotals \in [1..BallotCount -> Nat]
    BY MovedTypes DEF Numbered
  <2>2. pick \in [1..n -> 1..BallotCount]
    BY <1>3, <2>1
  <2>3. IsInjective(pick)
    BY <1>2 DEF verifyPublication, EachOnce, IsInjective
  <2>4. [i \in DOMAIN document.ballots |-> document.ballots[i].rows]
            = [i \in 1..n |-> AllTotals[pick[i]]]
    <3>1. ASSUME NEW i \in 1..n PROVE document.ballots[i].rows = AllTotals[pick[i]]
      BY <1>3 DEF AllTotals
    <3> QED BY <1>2, <3>1
  <2> HIDE DEF pick
  <2>5. Total([i \in 1..n |-> AllTotals[pick[i]]]) <= Total(AllTotals)
    BY <1>2, <2>1, <2>2, <2>3, SomeAreNotMore
  <2> QED BY <2>4, <2>5 DEF RowsTotal
<1> QED BY <1>2, <1>3, <1>4

\* Whatever is written past the application, and between whichever reads, the votes that
\* are published are those that the closing moved; no change of a document with the election's
\* own key gets other numbers or a ballot's votes twice past the tool, which cannot tell
\* that key; and the turnout is told whole (publish-results.usecase.ts
\* recountForPublication, verify-election.mjs, participation.service.ts turnoutByBallot).
THEOREM PublicationAlwaysHolds == PublicationSpec => []PublicationHolds
<1>1. PublicationInit => PublicationInv
    BY PublicationStarts
<1>2. PublicationInv /\ [PublicationNext]_publicationVars => PublicationInv'
    BY PublicationStays
<1>3. PublicationInv => PublicationHolds
    BY PublishedIsTheMoved, WhatWasAlteredIsFound
       DEF PublicationInv, TurnoutHolds, PublicationHolds
<1> QED BY <1>1, <1>2, <1>3, PTL DEF PublicationSpec

----------------------------------------------------------------------------
(***************************************************************************)
(* The admission queue, for any number of tasks and places: no place is    *)
(* lost or given twice, and nobody in line is overtaken.  Then the logins  *)
(* whose calls stand in it, for any number of pages, voters and calls.     *)
(***************************************************************************)
\* What the steps rest on: places and line belong together.
AdmissionIInv == AdmissionTypeOK /\ PlacesAreTrue

\* Who moves between stages is counted where it stands.
LEMMA StandsFinite ==
    ASSUME NEW name
    PROVE  IsFiniteSet(Stands(name)) /\ Cardinality(Stands(name)) \in Nat
BY AdmissionAssumption, FS_Subset, FS_CardinalityType DEF Stands

LEMMA AdmissionBegins == AdmissionInit => AdmissionIInv
<1> SUFFICES ASSUME AdmissionInit PROVE AdmissionIInv
    OBVIOUS
<1>1. AdmissionTypeOK
    BY DEF AdmissionInit, AdmissionTypeOK, TaskStages
<1>2. Stands("running") = {} /\ Stands("waiting") = {} /\ Range(line) = {} /\ IsInjective(line)
    BY DEF AdmissionInit, Stands, Range, IsInjective
<1>3. Cardinality(Stands("running")) = 0
    BY <1>2, FS_EmptySet
<1>4. active = 0 /\ line = <<>> /\ Len(line) = 0
    BY DEF AdmissionInit
<1>5. PlacesAreTrue
    BY <1>2, <1>3, <1>4, AdmissionAssumption DEF PlacesAreTrue
<1> QED BY <1>1, <1>5 DEF AdmissionIInv

\* A task takes a free place, joins the line or is refused.
LEMMA ArriveKeeps ==
    ASSUME AdmissionIInv, NEW t \in Tasks, Arrive(t)
    PROVE  AdmissionIInv'
<1> USE AdmissionAssumption
<1>0. /\ AdmissionTypeOK /\ PlacesAreTrue
      /\ task[t] = "out" /\ t \notin Stands("running") /\ t \notin Range(line)
      /\ active \in Nat /\ line \in Seq(Tasks) /\ Len(line) \in Nat
    BY DEF AdmissionIInv, Arrive, Stands, AdmissionTypeOK, PlacesAreTrue
<1>1. CASE HasRoom /\ active' = active + 1 /\ Becomes(t, "running") /\ UNCHANGED line
  <2>1. Stands("running")' = Stands("running") \cup {t} /\ Stands("waiting")' = Stands("waiting")
    BY <1>0, <1>1 DEF Stands, Becomes, AdmissionTypeOK
  <2>2. Cardinality(Stands("running")') = active + 1
    BY <1>0, <2>1, StandsFinite, FS_AddElement DEF PlacesAreTrue
  <2>3. line = <<>>
    BY <1>0, <1>1 DEF HasRoom, PlacesAreTrue
  <2>4. AdmissionTypeOK'
    BY <1>0, <1>1 DEF AdmissionTypeOK, Becomes, TaskStages
  <2> QED
    BY <1>0, <1>1, <2>1, <2>2, <2>3, <2>4 DEF AdmissionIInv, PlacesAreTrue, HasRoom
<1>2. CASE /\ ~HasRoom /\ Len(line) < MaxQueued
           /\ line' = Append(line, t) /\ Becomes(t, "waiting") /\ UNCHANGED active
  <2>1. /\ Stands("running")' = Stands("running")
        /\ Stands("waiting")' = Stands("waiting") \cup {t}
    BY <1>0, <1>2 DEF Stands, Becomes, AdmissionTypeOK
  <2>2. active = MaxConcurrent
    BY <1>0, <1>2 DEF HasRoom, PlacesAreTrue
  <2>3. /\ line' \in Seq(Tasks) /\ Len(line') = Len(line) + 1
        /\ Range(line') = Range(line) \cup {t} /\ IsInjective(line')
    BY <1>0, <1>2, Joins DEF PlacesAreTrue
  <2>4. AdmissionTypeOK'
    BY <1>0, <1>2, <2>3 DEF AdmissionTypeOK, Becomes, TaskStages
  <2> QED
    BY <1>0, <1>2, <2>1, <2>2, <2>3, <2>4 DEF AdmissionIInv, PlacesAreTrue
<1>3. CASE /\ ~HasRoom /\ Len(line) >= MaxQueued /\ Becomes(t, "refused")
           /\ UNCHANGED <<active, line>>
  <2>1. Stands("running")' = Stands("running") /\ Stands("waiting")' = Stands("waiting")
    BY <1>0, <1>3 DEF Stands, Becomes, AdmissionTypeOK
  <2>2. AdmissionTypeOK'
    BY <1>0, <1>3 DEF AdmissionTypeOK, Becomes, TaskStages
  <2> QED
    BY <1>0, <1>3, <2>1, <2>2 DEF AdmissionIInv, PlacesAreTrue
<1> QED BY <1>1, <1>2, <1>3 DEF Arrive

\* The place is returned, or goes on to the first in line.
LEMMA EndsKeeps ==
    ASSUME AdmissionIInv, NEW t \in Tasks, TaskEnds(t)
    PROVE  AdmissionIInv'
<1> USE AdmissionAssumption
<1>0. /\ AdmissionTypeOK /\ PlacesAreTrue
      /\ task[t] = "running" /\ t \in Stands("running")
      /\ active \in Nat /\ line \in Seq(Tasks)
    BY DEF AdmissionIInv, TaskEnds, Stands, AdmissionTypeOK
<1>1. CASE line = <<>> /\ active' = active - 1 /\ Becomes(t, "done") /\ UNCHANGED line
  <2>1. /\ Stands("running")' = Stands("running") \ {t}
        /\ Stands("waiting")' = Stands("waiting")
    BY <1>0, <1>1 DEF Stands, Becomes, AdmissionTypeOK
  <2>2. Cardinality(Stands("running")') = active - 1
    BY <1>0, <2>1, StandsFinite, FS_RemoveElement DEF PlacesAreTrue
  <2>3. active - 1 \in Nat
    BY <1>0, StandsFinite, FS_EmptySet DEF PlacesAreTrue
  <2>4. AdmissionTypeOK'
    BY <1>0, <1>1, <2>3 DEF AdmissionTypeOK, Becomes, TaskStages
  <2> QED
    BY <1>0, <1>1, <2>1, <2>2, <2>3, <2>4 DEF AdmissionIInv, PlacesAreTrue
<1>2. CASE /\ line # <<>> /\ line' = Tail(line) /\ UNCHANGED active
           /\ task' = [task EXCEPT ![t] = "done", ![Head(line)] = "running"]
  <2> DEFINE called == Head(line)
  <2>1. /\ called \in Tasks /\ called \in Stands("waiting")
        /\ line' \in Seq(Tasks) /\ Len(line') = Len(line) - 1
        /\ Range(line') = Range(line) \ {called} /\ IsInjective(line')
    BY <1>0, <1>2, IsCalled DEF PlacesAreTrue
  <2>2. task[called] = "waiting" /\ called # t
    BY <1>0, <2>1 DEF Stands
  <2> HIDE DEF called
  <2>3. task' = [task EXCEPT ![t] = "done", ![called] = "running"]
    BY <1>2 DEF called
  <2>4. /\ Stands("running")' = (Stands("running") \ {t}) \cup {called}
        /\ Stands("waiting")' = Stands("waiting") \ {called}
        /\ called \notin Stands("running")
    BY <1>0, <2>1, <2>2, <2>3 DEF Stands, AdmissionTypeOK
  <2>5. /\ IsFiniteSet(Stands("running") \ {t})
        /\ Cardinality(Stands("running") \ {t}) = active - 1
    BY <1>0, StandsFinite, FS_RemoveElement DEF PlacesAreTrue
  <2>6. Cardinality(Stands("running")') = active
    <3>1. Cardinality((Stands("running") \ {t}) \cup {called}) = (active - 1) + 1
        BY <2>4, <2>5, FS_AddElement
    <3>2. (active - 1) + 1 = active
        BY <1>0
    <3> HIDE DEF Stands
    <3> QED BY <3>1, <3>2, <2>4
  <2>7. AdmissionTypeOK'
    BY <1>0, <1>2, <2>1, <2>3 DEF AdmissionTypeOK, TaskStages
  <2>8. active = MaxConcurrent /\ Len(line') <= MaxQueued
    BY <1>0, <1>2, <2>1 DEF PlacesAreTrue
  <2>9. Range(line') = Stands("waiting")'
    BY <1>0, <2>1, <2>4 DEF PlacesAreTrue
  <2>10. PlacesAreTrue'
    BY <1>0, <1>2, <2>1, <2>6, <2>8, <2>9 DEF PlacesAreTrue
  <2> QED BY <2>7, <2>10 DEF AdmissionIInv
<1> QED BY <1>1, <1>2 DEF TaskEnds, Release

LEMMA DepartsKeeps ==
    ASSUME AdmissionIInv, NEW t \in Tasks, Departs(t)
    PROVE  AdmissionIInv'
<1>1. /\ Stands("running")' = Stands("running") /\ Stands("waiting")' = Stands("waiting")
      /\ AdmissionTypeOK'
    BY DEF AdmissionIInv, AdmissionTypeOK, Departs, Stands, Becomes, TaskStages
<1> QED BY <1>1 DEF AdmissionIInv, PlacesAreTrue, Departs

LEMMA AdmissionKeeps ==
    ASSUME AdmissionIInv, [AdmissionNext]_admissionVars
    PROVE  AdmissionIInv'
<1>1. CASE UNCHANGED admissionVars
    BY <1>1
    DEF AdmissionIInv, AdmissionTypeOK, PlacesAreTrue, Stands, admissionVars
<1>2. ASSUME NEW t \in Tasks, Arrive(t) \/ TaskEnds(t) \/ Departs(t)
      PROVE  AdmissionIInv'
    BY <1>2, ArriveKeeps, EndsKeeps, DepartsKeeps
<1> QED BY <1>1, <1>2 DEF AdmissionNext

LEMMA AdmissionInvariant == AdmissionSpec => []AdmissionIInv
<1> QED BY AdmissionBegins, AdmissionKeeps, PTL DEF AdmissionSpec

----------------------------------------------------------------------------
\* However many tasks come, end or throw, the count of places is that of the
\* tasks that run, it never passes the limit, and nobody waits beside a free one.
THEOREM PlacesAreAlwaysTrue == AdmissionSpec => []PlacesAreTrue
<1>1. AdmissionIInv => PlacesAreTrue
    BY DEF AdmissionIInv
<1> QED BY <1>1, AdmissionInvariant, PTL

\* A task that begins to run stood at the head of the line, or there was none.
LEMMA StepsInOrder ==
    ASSUME AdmissionIInv, [AdmissionNext]_admissionVars
    PROVE  [CalledInOrder]_admissionVars
<1> SUFFICES ASSUME AdmissionNext, NEW t \in Tasks, task[t] # "running", task'[t] = "running"
             PROVE  line = <<>> \/ t = Head(line)
    BY DEF CalledInOrder
<1>1. PICK u \in Tasks : Arrive(u) \/ TaskEnds(u) \/ Departs(u)
    BY DEF AdmissionNext
<1>2. CASE Arrive(u)
  <2>1. CASE HasRoom
    BY <2>1 DEF AdmissionIInv, PlacesAreTrue, AdmissionTypeOK, HasRoom
  <2>2. CASE ~HasRoom
    BY <1>2, <2>2 DEF AdmissionIInv, AdmissionTypeOK, Arrive, Becomes
  <2> QED BY <2>1, <2>2
<1>3. CASE TaskEnds(u)
    BY <1>3 DEF AdmissionIInv, AdmissionTypeOK, TaskEnds, Release, Becomes
<1>4. CASE Departs(u)
    BY <1>4 DEF AdmissionIInv, AdmissionTypeOK, Departs, Becomes
<1> QED BY <1>1, <1>2, <1>3, <1>4

\* A task begins to run only from the head of the line, or when there is none.
THEOREM NobodyEverOvertakes == AdmissionSpec => NobodyIsOvertaken
BY AdmissionInvariant, StepsInOrder, PTL DEF AdmissionSpec, NobodyIsOvertaken

----------------------------------------------------------------------------
(***************************************************************************)
(* The logins.                                                             *)
(***************************************************************************)
\* The call has the personal number, which BankID gives once.
HoldsOrder(h) == at[h] \in {"hash", "decide", "create", "answer"}

\* While nothing fails the page waits for each of its calls.
AnswerIsAwaited ==
    \A h \in Calls : at[h] # "idle" =>
        order[h] \in Logins /\ (mistakes = 0 => inFlight[order[h]] = h)

NumberIsGivenOnce ==
    \A h \in Calls : HoldsOrder(h) =>
        /\ bankid[order[h]] = "used"
        /\ \A i \in Calls \ {h} : HoldsOrder(i) => order[i] # order[h]

\* Who used the order up is still to answer, or the page has stopped asking.
UsedIsHeard ==
    mistakes = 0 => \A o \in Logins : bankid[o] = "used" /\ o \notin queued =>
        /\ \A h \in Calls : at[h] = "collect" => order[h] # o
        /\ current[PageOf[o]] # o \/ \E h \in Calls : HoldsOrder(h) /\ order[h] = o

FailedHasEnded ==
    \A o \in Logins :
        told[o] = "failed" /\ mistakes = 0 /\ o \notin queued => bankid[o] = "ended"

\* What a call was given the number for is decided before it writes.
EligibleGoesOn ==
    \A h \in Calls : at[h] \in {"create", "answer"} => VoterOf[order[h]] \in Eligible

\* No call goes on with an order whose page was let in.
CompleteIsOver ==
    \A o \in Logins : told[o] = "complete" =>
        bankid[o] = "used" /\ \A h \in Calls : HoldsOrder(h) => order[h] # o

\* The voter has logged in once more.
LoggedInAgain(o) == \E p \in Logins \ {o} : VoterOf[p] = VoterOf[o] /\ bankid[p] = "used"

\* The row that a call made is there when the page hears of it, and afterwards.
RowsStand ==
    /\ \A o \in Logins : told[o] = "complete" => o \in sessions \/ LoggedInAgain(o)
    /\ \A h \in Calls : at[h] = "answer" => order[h] \in sessions \/ LoggedInAgain(order[h])

CallsIInv == AnswerIsAwaited /\ NumberIsGivenOnce /\ UsedIsHeard /\ EligibleGoesOn

PagesIInv == FailedHasEnded /\ UsedIsAnswered /\ CompleteIsOver /\ RowsStand

LoginIInv == LoginTypeOK /\ PlacesAreTrue /\ CallsIInv /\ PagesIInv

\* Whatever a login does, the queue takes one of its own steps or none.
LEMMA LoginStepsQueue ==
    ASSUME [LoginNext]_vars
    PROVE  [AdmissionNext]_admissionVars
<1> USE LoginAssumption
<1>1. ASSUME NEW h \in Calls, CallStep(h) \/ CallFails(h)
      PROVE  AdmissionNext \/ UNCHANGED admissionVars
  <2>1. h \in Tasks
    OBVIOUS
  <2>2. CASE CollectAnswered(h)
    BY <2>1, <2>2 DEF CollectAnswered, AdmissionNext
  <2>3. CASE HashRefused(h) \/ HashEnds(h)
    BY <2>1, <2>3 DEF HashRefused, HashEnds, AdmissionNext
  <2>4. CASE Decide(h) \/ Create(h) \/ Complete(h)
    BY <2>1, <2>4 DEF Decide, Create, Complete, AdmissionNext
  <2>5. CASE CallFails(h)
    BY <2>1, <2>5 DEF CallFails, AdmissionNext
  <2> QED BY <1>1, <2>2, <2>3, <2>4, <2>5 DEF CallStep
<1>2. ASSUME NEW o \in Logins,
             \/ Start(o) \/ AtBankId(o) \/ AskQr(o) \/ QrExpired(o) \/ LoseAnswer(o)
             \/ \E h \in Calls : Poll(h, o)
      PROVE  UNCHANGED admissionVars
    BY <1>2 DEF Start, AtBankId, AskQr, QrExpired, LoseAnswer, Poll
<1>3. ASSUME NEW p \in Pages, Cancel(p)
      PROVE  UNCHANGED admissionVars
    BY <1>3 DEF Cancel
<1>4. ASSUME NEW t \in Others, OtherTask(t)
      PROVE  AdmissionNext
    BY <1>4 DEF OtherTask, OtherEnds, Others, AdmissionNext
<1>5. CASE UNCHANGED vars
    BY <1>5 DEF vars
<1> QED BY <1>1, <1>2, <1>3, <1>4, <1>5 DEF LoginNext

LEMMA QueueKeeps ==
    ASSUME LoginIInv, [LoginNext]_vars
    PROVE  AdmissionTypeOK' /\ PlacesAreTrue'
BY LoginStepsQueue, AdmissionKeeps DEF LoginIInv, LoginTypeOK, AdmissionIInv

\* What a login leaves of its own variables' types.
OwnTypeOK ==
    /\ bankid \in [Logins -> {"none", "pending", "signed", "used", "ended"}]
    /\ current \in [Pages -> Logins \cup {None}]
    /\ inFlight \in [Logins -> Calls \cup {None}]
    /\ told \in [Logins -> Outcomes \cup {"expired", "none"}]
    /\ qr \subseteq Logins
    /\ queued \subseteq Logins /\ sessions \subseteq Logins
    /\ order \in [Calls -> Logins \cup {None}]
    /\ at \in [Calls -> {"idle", "collect", "hash", "decide", "create", "answer"}]
    /\ mistakes \in 0..MaxFaults

OwnIInv == OwnTypeOK /\ CallsIInv /\ PagesIInv

\* The page and BankID.
LEMMA PageKeeps ==
    ASSUME OwnIInv, NEW o \in Logins, Start(o) \/ AtBankId(o) \/ LoseAnswer(o)
    PROVE  OwnIInv'
<1> USE LoginAssumption DEF OwnIInv, CallsIInv, PagesIInv, HoldsOrder, LoggedInAgain
<1>1. CASE Start(o)
  <2>1. OwnTypeOK' /\ UNCHANGED <<inFlight, told, queued, order, at, sessions, mistakes>>
    BY <1>1 DEF Start, OwnTypeOK
  <2>2. \A q \in Logins : bankid[q] \in {"used", "ended"} <=> bankid'[q] \in {"used", "ended"}
    BY <1>1 DEF Start, OwnTypeOK
  <2>3. \A q \in Logins : bankid'[q] \in {"used", "ended"} => bankid'[q] = bankid[q] /\ q # o
    BY <1>1 DEF Start, OwnTypeOK
  <2>4. AnswerIsAwaited' /\ NumberIsGivenOnce' /\ EligibleGoesOn'
    BY <2>1, <2>2, <2>3 DEF AnswerIsAwaited, NumberIsGivenOnce, EligibleGoesOn
  <2>5. UsedIsHeard'
    BY <1>1, <2>1, <2>2, <2>3 DEF UsedIsHeard, Start, OwnTypeOK
  <2>6. FailedHasEnded' /\ UsedIsAnswered'
    BY <2>1, <2>2, <2>3 DEF FailedHasEnded, UsedIsAnswered
  <2>7. CompleteIsOver' /\ RowsStand'
    BY <2>1, <2>2, <2>3 DEF CompleteIsOver, RowsStand, AnswerIsAwaited
  <2> QED BY <2>1, <2>4, <2>5, <2>6, <2>7
<1>2. CASE AtBankId(o)
  <2>1. OwnTypeOK' /\ UNCHANGED <<current, inFlight, told, queued, order, at, sessions, mistakes>>
    BY <1>2 DEF AtBankId, OwnTypeOK
  <2>2. \A q \in Logins : bankid'[q] = "used" <=> bankid[q] = "used"
    BY <1>2 DEF AtBankId, OwnTypeOK
  <2>3. \A q \in Logins : bankid[q] = "ended" => bankid'[q] = "ended"
    BY <1>2 DEF AtBankId, OwnTypeOK
  <2>4. CallsIInv'
    BY <2>1, <2>2 DEF AnswerIsAwaited, NumberIsGivenOnce, UsedIsHeard, EligibleGoesOn
  <2>5. FailedHasEnded' /\ UsedIsAnswered'
    BY <2>1, <2>2, <2>3 DEF FailedHasEnded, UsedIsAnswered
  <2>6. CompleteIsOver' /\ RowsStand'
    BY <2>1, <2>2, <2>3 DEF CompleteIsOver, RowsStand, AnswerIsAwaited
  <2> QED BY <2>1, <2>4, <2>5, <2>6
<1>3. CASE LoseAnswer(o)
  <2>1. /\ OwnTypeOK' /\ UNCHANGED <<bankid, current, told, queued, order, at, sessions>>
        /\ mistakes' # 0
    BY <1>3 DEF LoseAnswer, Mistake, OwnTypeOK
  <2>2. CallsIInv'
    BY <2>1 DEF AnswerIsAwaited, NumberIsGivenOnce, UsedIsHeard, EligibleGoesOn
  <2>3. PagesIInv'
    BY <2>1 DEF FailedHasEnded, UsedIsAnswered, CompleteIsOver, RowsStand
  <2> QED BY <2>1, <2>2, <2>3
<1> QED BY <1>1, <1>2, <1>3

\* Its QR code goes out while nobody asks about it, or covers no more than a refusal.
LEMMA QrKeeps ==
    ASSUME OwnIInv, NEW o \in Logins, AskQr(o) \/ QrExpired(o)
    PROVE  OwnIInv'
<1> USE LoginAssumption DEF OwnIInv, CallsIInv, PagesIInv, HoldsOrder, LoggedInAgain
<1>1. /\ OwnTypeOK' /\ UNCHANGED <<bankid, inFlight, queued, order, at, sessions, mistakes>>
      /\ \A q \in Logins : current[PageOf[q]] # q => current'[PageOf[q]] # q
    BY DEF AskQr, QrExpired, OwnTypeOK
<1>2. \A q \in Logins :
        \/ told'[q] = told[q]
        \/ told[q] # "complete" /\ told'[q] = "expired"
    BY DEF AskQr, QrExpired, OwnTypeOK
<1>3. CallsIInv'
    BY <1>1 DEF AnswerIsAwaited, NumberIsGivenOnce, UsedIsHeard, EligibleGoesOn
<1>4. FailedHasEnded' /\ UsedIsAnswered'
    BY <1>1, <1>2 DEF FailedHasEnded, UsedIsAnswered
<1>5. CompleteIsOver' /\ RowsStand'
    BY <1>1, <1>2 DEF CompleteIsOver, RowsStand
<1> QED BY <1>1, <1>3, <1>4, <1>5

LEMMA CancelKeeps ==
    ASSUME OwnIInv, NEW p \in Pages, Cancel(p)
    PROVE  OwnIInv'
<1> USE LoginAssumption DEF OwnIInv, CallsIInv, PagesIInv, HoldsOrder, LoggedInAgain
<1>1. /\ OwnTypeOK' /\ UNCHANGED <<bankid, inFlight, told, queued, order, at, sessions, mistakes>>
      /\ \A o \in Logins : current[PageOf[o]] # o => current'[PageOf[o]] # o
    BY DEF Cancel, OwnTypeOK
<1>2. CallsIInv'
    BY <1>1 DEF AnswerIsAwaited, NumberIsGivenOnce, UsedIsHeard, EligibleGoesOn
<1>3. PagesIInv'
    BY <1>1 DEF FailedHasEnded, UsedIsAnswered, CompleteIsOver, RowsStand
<1> QED BY <1>1, <1>2, <1>3

\* The page asks once more: of an order that was used up only where it was told
\* that it stands in line.
LEMMA PollKeeps ==
    ASSUME OwnIInv, NEW o \in Logins, NEW h \in Calls, Poll(h, o)
    PROVE  OwnIInv'
<1> USE LoginAssumption DEF OwnIInv, CallsIInv, PagesIInv, HoldsOrder, LoggedInAgain
<1>1. /\ OwnTypeOK' /\ UNCHANGED <<bankid, current, told, queued, sessions, mistakes>>
      /\ at[h] = "idle" /\ at'[h] = "collect" /\ order'[h] = o /\ inFlight'[o] = h
      /\ \A i \in Calls \ {h} : at'[i] = at[i] /\ order'[i] = order[i]
      /\ \A q \in Logins \ {o} : inFlight'[q] = inFlight[q]
      /\ inFlight[o] = None /\ current[PageOf[o]] = o
    BY DEF Poll, MayAsk, OwnTypeOK
<1>2. mistakes = 0 => \A i \in Calls : at[i] # "idle" => order[i] # o
    BY <1>1 DEF AnswerIsAwaited
<1>3. AnswerIsAwaited'
    BY <1>1, <1>2 DEF AnswerIsAwaited
<1>4. NumberIsGivenOnce' /\ EligibleGoesOn'
    BY <1>1 DEF NumberIsGivenOnce, EligibleGoesOn
<1>5. UsedIsHeard'
  <2> SUFFICES ASSUME mistakes = 0, NEW q \in Logins, bankid[q] = "used", q \notin queued
               PROVE  /\ \A i \in Calls : at'[i] = "collect" => order'[i] # q
                      /\ \/ current[PageOf[q]] # q
                         \/ \E i \in Calls : HoldsOrder(i)' /\ order'[i] = q
    BY <1>1 DEF UsedIsHeard
  <2>1. /\ \A i \in Calls : at[i] = "collect" => order[i] # q
        /\ current[PageOf[q]] # q \/ \E i \in Calls : HoldsOrder(i) /\ order[i] = q
    BY DEF UsedIsHeard
  <2>2. q # o
    BY <1>1, <1>2, <2>1
  <2> QED BY <1>1, <2>1, <2>2
<1>6. PagesIInv'
  <2>1. \A q \in Logins : inFlight[q] # None => inFlight'[q] # None
    BY <1>1
  <2> QED BY <1>1, <2>1 DEF FailedHasEnded, UsedIsAnswered, CompleteIsOver, RowsStand
<1> QED BY <1>1, <1>3, <1>4, <1>5, <1>6

\* An answer, of a call that it is the end of.  Who fails here has not used the
\* order up, stood in line, or something else failed; and only he is let in whose
\* row was made.
LEMMA AnswerKeeps ==
    ASSUME OwnIInv, NEW h \in Calls, at[h] # "idle",
           NEW what \in Outcomes \cup {"pending", "queued"}, Answers(h, what),
           UNCHANGED <<bankid, sessions>>, mistakes' \in 0..MaxFaults, mistakes <= mistakes',
           what = "pending" => at[h] = "collect",
           what = "failed" => \/ mistakes' # 0
                              \/ at[h] = "collect" /\ bankid[order[h]] \in {"ended", "used"},
           what = "complete" => at[h] = "answer",
           what = "rejected" => VoterOf[order[h]] \notin Eligible
    PROVE  OwnIInv'
<1> USE LoginAssumption DEF OwnIInv, CallsIInv, PagesIInv, HoldsOrder, LoggedInAgain
<1> DEFINE o == order[h]
<1>1. /\ o \in Logins /\ (mistakes = 0 => inFlight[o] = h)
      /\ mistakes \in Nat /\ (mistakes' = 0 => mistakes = 0)
    BY DEF AnswerIsAwaited, OwnTypeOK
<1>2. OwnTypeOK'
    BY <1>1 DEF Answers, OwnTypeOK
<1>3. /\ at'[h] = "idle" /\ \A i \in Calls \ {h} : at'[i] = at[i] /\ order'[i] = order[i]
      /\ mistakes' = 0 => inFlight'[o] = None
      /\ \A q \in Logins \ {o} : inFlight'[q] = inFlight[q] /\ told'[q] = told[q]
      /\ \A q \in Logins : current[PageOf[q]] # q => current'[PageOf[q]] # q
      /\ queued' = IF what = "queued" THEN queued \cup {o} ELSE queued
    BY <1>1 DEF Answers, OwnTypeOK, Outcomes
<1>4. /\ told'[o] = told[o] \/ (what \in Outcomes /\ told'[o] = what)
      /\ mistakes' = 0 /\ what \in Outcomes => told'[o] = what /\ current'[PageOf[o]] # o
    BY <1>1 DEF Answers, OwnTypeOK, Outcomes
<1>5. AnswerIsAwaited'
  <2>1. mistakes = 0 => \A i \in Calls \ {h} : at[i] # "idle" => order[i] # o
    BY <1>1 DEF AnswerIsAwaited
  <2> QED BY <1>1, <1>2, <1>3, <2>1 DEF AnswerIsAwaited, OwnTypeOK
<1>6. NumberIsGivenOnce' /\ EligibleGoesOn'
    BY <1>3 DEF NumberIsGivenOnce, EligibleGoesOn
<1>7. UsedIsHeard'
  <2> SUFFICES ASSUME mistakes' = 0, NEW q \in Logins, bankid[q] = "used", q \notin queued'
               PROVE  /\ \A i \in Calls : at'[i] = "collect" => order'[i] # q
                      /\ \/ current'[PageOf[q]] # q
                         \/ \E i \in Calls : HoldsOrder(i)' /\ order'[i] = q
    BY DEF UsedIsHeard
  <2>1. /\ \A i \in Calls : at[i] = "collect" => order[i] # q
        /\ current[PageOf[q]] # q \/ \E i \in Calls : HoldsOrder(i) /\ order[i] = q
    BY <1>1, <1>3 DEF UsedIsHeard
  <2>2. CASE q = o
    BY <1>3, <1>4, <2>1, <2>2
  <2>3. CASE q # o
    BY <1>3, <2>1, <2>3
  <2> QED BY <2>2, <2>3
<1>8. FailedHasEnded'
  <2> SUFFICES ASSUME NEW q \in Logins, told'[q] = "failed", mistakes' = 0, q \notin queued'
               PROVE  bankid[q] = "ended"
    BY DEF FailedHasEnded
  <2>1. CASE told[q] = "failed"
    BY <1>1, <1>3, <2>1 DEF FailedHasEnded
  <2>2. CASE told[q] # "failed"
    <3>1. q = o /\ what = "failed"
        BY <1>3, <1>4, <2>2
    <3>2. at[h] = "collect" /\ bankid[o] \in {"ended", "used"} /\ o \notin queued
        BY <1>3, <3>1
    <3> QED BY <1>1, <3>1, <3>2 DEF UsedIsHeard
  <2> QED BY <2>1, <2>2
<1>9. CompleteIsOver'
  <2>1. \A q \in Logins : told'[q] = "complete" => told[q] = "complete" \/ (q = o /\ at[h] = "answer")
    BY <1>3, <1>4
  <2>2. at[h] = "answer" =>
            bankid[o] = "used" /\ \A i \in Calls \ {h} : HoldsOrder(i) => order[i] # o
    BY DEF NumberIsGivenOnce
  <2> QED BY <1>3, <2>1, <2>2 DEF CompleteIsOver
<1>10. RowsStand'
  <2>1. \A q \in Logins : told'[q] = "complete" => told[q] = "complete" \/ (q = o /\ at[h] = "answer")
    BY <1>3, <1>4
  <2> QED BY <1>3, <2>1 DEF RowsStand
<1>11. UsedIsAnswered'
  <2> SUFFICES ASSUME mistakes' = 0, NEW q \in Logins, bankid[q] = "used", q \notin queued'
               PROVE  /\ told'[q] # "failed"
                      /\ inFlight'[q] # None \/ IF VoterOf[q] \in Eligible
                                                THEN told'[q] = "complete"
                                                ELSE told'[q] \in {"rejected", "expired"}
    BY DEF UsedIsAnswered
  <2>1. mistakes = 0 /\ q \notin queued
    BY <1>1, <1>3
  <2>2. CASE q # o
    BY <1>3, <2>1, <2>2 DEF UsedIsAnswered
  <2>3. CASE q = o
    <3>1. at[h] # "collect"
        BY <2>1, <2>3 DEF UsedIsHeard
    <3>2. what \in {"complete", "rejected"}
        BY <1>3, <2>3, <3>1 DEF Outcomes
    <3>3. told'[o] = what
        BY <1>4, <3>2 DEF Outcomes
    <3>4. what = "complete" => VoterOf[o] \in Eligible
        BY DEF EligibleGoesOn
    <3> QED BY <2>3, <3>2, <3>3, <3>4
  <2> QED BY <2>2, <2>3
<1> QED BY <1>2, <1>5, <1>6, <1>7, <1>8, <1>9, <1>10, <1>11

\* A call goes on, and neither BankID nor the page hears of it.
LEMMA GoesOnKeeps ==
    ASSUME OwnIInv, NEW h \in Calls, HoldsOrder(h),
           NEW next \in {"decide", "create", "answer"}, at' = [at EXCEPT ![h] = next],
           next = "create" => VoterOf[order[h]] \in Eligible,
           next = "answer" => at[h] = "create",
           UNCHANGED <<bankid, current, inFlight, told, queued, order, mistakes>>
    PROVE  CallsIInv' /\ FailedHasEnded' /\ UsedIsAnswered' /\ CompleteIsOver'
<1> USE LoginAssumption DEF OwnIInv, CallsIInv, PagesIInv
<1>1. \A i \in Calls :
        /\ at'[i] = "idle" <=> at[i] = "idle"
        /\ at'[i] = "collect" <=> at[i] = "collect"
        /\ HoldsOrder(i)' <=> HoldsOrder(i)
    BY DEF HoldsOrder, OwnTypeOK
<1>2. AnswerIsAwaited'
    BY <1>1 DEF AnswerIsAwaited
<1>3. NumberIsGivenOnce'
    BY <1>1 DEF NumberIsGivenOnce
<1>4. UsedIsHeard'
    BY <1>1 DEF UsedIsHeard
<1>5. FailedHasEnded' /\ UsedIsAnswered' /\ CompleteIsOver'
    BY <1>1 DEF FailedHasEnded, UsedIsAnswered, CompleteIsOver
<1>6. at'[h] = next /\ \A i \in Calls \ {h} : at'[i] = at[i]
    BY DEF OwnTypeOK
<1>7. EligibleGoesOn'
    BY <1>6 DEF EligibleGoesOn
<1> QED BY <1>2, <1>3, <1>4, <1>5, <1>7

\* BankID gives the number to one call, and to the others that the order is gone.
LEMMA CollectKeeps ==
    ASSUME OwnIInv, NEW h \in Calls, CollectAnswered(h)
    PROVE  OwnIInv'
<1> USE LoginAssumption
<1> DEFINE o == order[h]
<1>1. at[h] = "collect" /\ o \in Logins /\ UNCHANGED <<sessions, mistakes>>
    BY DEF CollectAnswered, OwnIInv, CallsIInv, AnswerIsAwaited
<1>2. mistakes' \in 0..MaxFaults /\ mistakes <= mistakes'
    BY <1>1 DEF OwnIInv, OwnTypeOK
<1>3. CASE bankid[o] = "pending" /\ Answers(h, "pending") /\ UNCHANGED bankid
    BY <1>1, <1>2, <1>3, AnswerKeeps DEF Outcomes
<1>4. CASE bankid[o] \in {"ended", "used"} /\ Answers(h, "failed") /\ UNCHANGED bankid
    BY <1>1, <1>2, <1>4, AnswerKeeps DEF Outcomes
<1>5. CASE /\ bankid[o] = "signed" /\ bankid' = [bankid EXCEPT ![o] = "used"]
           /\ at' = [at EXCEPT ![h] = "hash"]
           /\ UNCHANGED <<current, qr, inFlight, told, queued, order>>
  <2> USE DEF OwnIInv, CallsIInv, PagesIInv, HoldsOrder, LoggedInAgain
  <2>1. OwnTypeOK'
    BY <1>1, <1>5 DEF OwnTypeOK
  <2>2. /\ bankid'[o] = "used" /\ \A q \in Logins \ {o} : bankid'[q] = bankid[q]
        /\ at'[h] = "hash" /\ \A i \in Calls \ {h} : at'[i] = at[i]
    BY <1>1, <1>5 DEF OwnTypeOK
  <2>3. AnswerIsAwaited'
    BY <1>1, <1>5, <2>2 DEF AnswerIsAwaited
  <2>4. \A i \in Calls : HoldsOrder(i) => order[i] \in Logins /\ order[i] # o
    BY <1>5 DEF NumberIsGivenOnce, AnswerIsAwaited
  <2>5. NumberIsGivenOnce'
    BY <1>1, <1>5, <2>2, <2>4 DEF NumberIsGivenOnce
  <2>6. UsedIsHeard'
    <3>1. mistakes = 0 => \A i \in Calls \ {h} : at[i] = "collect" => order[i] # o
        BY <1>1 DEF AnswerIsAwaited
    <3> QED BY <1>1, <1>5, <2>2, <3>1 DEF UsedIsHeard
  <2>7. FailedHasEnded' /\ UsedIsAnswered' /\ EligibleGoesOn'
    <3>1. \A q \in Logins : q # o => bankid'[q] = bankid[q]
        BY <2>2
    <3>2. mistakes = 0 => inFlight[o] # None
        BY <1>1 DEF AnswerIsAwaited
    <3>3. mistakes = 0 /\ o \notin queued => told[o] # "failed"
        BY <1>1, <1>5 DEF FailedHasEnded
    <3>4. FailedHasEnded'
        BY <1>1, <1>5, <2>2 DEF FailedHasEnded
    <3>5. UsedIsAnswered'
        BY <1>1, <1>5, <3>1, <3>2, <3>3 DEF UsedIsAnswered
    <3>6. EligibleGoesOn'
        BY <1>1, <1>5, <2>2 DEF EligibleGoesOn
    <3> QED BY <3>4, <3>5, <3>6
  <2>8. CompleteIsOver'
    BY <1>1, <1>5, <2>2, <2>4 DEF CompleteIsOver
  <2>9. RowsStand'
    BY <1>1, <1>5, <2>2 DEF RowsStand
  <2> QED BY <2>1, <2>3, <2>5, <2>6, <2>7, <2>8, <2>9
<1> QED BY <1>3, <1>4, <1>5 DEF CollectAnswered

\* The rows a voter had go, and none of them is of a page that no one followed.
LEMMA DecideKeeps ==
    ASSUME OwnIInv, NEW h \in Calls, Decide(h)
    PROVE  OwnIInv'
<1> USE LoginAssumption
<1> DEFINE o == order[h]
<1>1. at[h] = "decide" /\ o \in Logins /\ bankid[o] = "used" /\ UNCHANGED <<bankid, mistakes>>
    BY DEF Decide, OwnIInv, CallsIInv, AnswerIsAwaited, NumberIsGivenOnce, HoldsOrder
<1>2. mistakes' \in 0..MaxFaults /\ mistakes <= mistakes'
    BY <1>1 DEF OwnIInv, OwnTypeOK
<1>3. CASE VoterOf[o] \notin Eligible /\ Answers(h, "rejected") /\ UNCHANGED sessions
    BY <1>1, <1>2, <1>3, AnswerKeeps DEF Outcomes
<1>4. CASE /\ VoterOf[o] \in Eligible
           /\ sessions' = sessions \ OldSessions(o)
           /\ at' = [at EXCEPT ![h] = "create"]
           /\ UNCHANGED <<current, qr, inFlight, told, queued, order>>
  <2>1. OwnTypeOK'
    BY <1>1, <1>4 DEF OwnIInv, OwnTypeOK
  <2>2. CallsIInv' /\ FailedHasEnded' /\ UsedIsAnswered' /\ CompleteIsOver'
    BY <1>1, <1>4, GoesOnKeeps DEF HoldsOrder
  <2>3. \A q \in Logins \ {o} : q \in sessions /\ q \notin sessions' => LoggedInAgain(q)
    BY <1>1, <1>4 DEF OldSessions, SessionsOf, LoggedInAgain
  <2>4. \A i \in Calls \ {h} : at[i] = "answer" => order[i] \in Logins \ {o}
    BY <1>1 DEF OwnIInv, CallsIInv, NumberIsGivenOnce, AnswerIsAwaited, HoldsOrder
  <2>5. told[o] # "complete"
    BY <1>1 DEF OwnIInv, PagesIInv, CompleteIsOver, HoldsOrder
  <2>6. at'[h] = "create" /\ \A i \in Calls \ {h} : at'[i] = at[i]
    BY <1>4 DEF OwnIInv, OwnTypeOK
  <2>7. RowsStand'
    BY <1>1, <1>4, <2>3, <2>4, <2>5, <2>6 DEF OwnIInv, PagesIInv, RowsStand, LoggedInAgain
  <2> QED BY <2>1, <2>2, <2>7 DEF OwnIInv, CallsIInv, PagesIInv
<1> QED BY <1>3, <1>4 DEF Decide

LEMMA CreateKeeps ==
    ASSUME OwnIInv, NEW h \in Calls, Create(h)
    PROVE  OwnIInv'
<1> USE LoginAssumption
<1>1. /\ at[h] = "create" /\ order[h] \in Logins
      /\ UNCHANGED <<bankid, current, qr, inFlight, told, queued, order, mistakes>>
      /\ at' = [at EXCEPT ![h] = "answer"] /\ sessions' = sessions \cup {order[h]}
    BY DEF Create, OwnIInv, CallsIInv, AnswerIsAwaited
<1>2. OwnTypeOK'
    BY <1>1 DEF OwnIInv, OwnTypeOK
<1>3. CallsIInv' /\ FailedHasEnded' /\ UsedIsAnswered' /\ CompleteIsOver'
    BY <1>1, GoesOnKeeps DEF HoldsOrder
<1>4. at'[h] = "answer" /\ \A i \in Calls \ {h} : at'[i] = at[i]
    BY <1>1 DEF OwnIInv, OwnTypeOK
<1>5. RowsStand'
    BY <1>1, <1>4 DEF OwnIInv, PagesIInv, RowsStand, LoggedInAgain
<1> QED BY <1>2, <1>3, <1>5 DEF OwnIInv, CallsIInv, PagesIInv

LEMMA CallKeeps ==
    ASSUME OwnIInv, NEW h \in Calls, CallStep(h) \/ CallFails(h)
    PROVE  OwnIInv'
<1> USE LoginAssumption
<1>0. mistakes \in 0..MaxFaults
    BY DEF OwnIInv, OwnTypeOK
<1>1. CASE HashRefused(h)
  <2>1. /\ at[h] # "idle" /\ Answers(h, "queued") /\ UNCHANGED <<bankid, sessions, mistakes>>
        /\ mistakes' \in 0..MaxFaults /\ mistakes <= mistakes'
    BY <1>0, <1>1 DEF HashRefused
  <2> QED BY <2>1, AnswerKeeps DEF Outcomes
<1>2. CASE HashEnds(h)
  <2>1. /\ HoldsOrder(h) /\ at' = [at EXCEPT ![h] = "decide"]
        /\ UNCHANGED <<bankid, current, qr, inFlight, told, queued, order, sessions, mistakes>>
    BY <1>2 DEF HashEnds, HoldsOrder
  <2>2. OwnTypeOK'
    BY <2>1 DEF OwnIInv, OwnTypeOK
  <2>3. CallsIInv' /\ FailedHasEnded' /\ UsedIsAnswered' /\ CompleteIsOver'
    BY <2>1, GoesOnKeeps
  <2>4. RowsStand'
    BY <2>1 DEF OwnIInv, OwnTypeOK, PagesIInv, RowsStand, LoggedInAgain
  <2> QED BY <2>2, <2>3, <2>4 DEF OwnIInv, CallsIInv, PagesIInv
<1>3. CASE Complete(h)
  <2>1. /\ at[h] = "answer" /\ Answers(h, "complete") /\ UNCHANGED <<bankid, sessions, mistakes>>
        /\ mistakes' \in 0..MaxFaults /\ mistakes <= mistakes'
    BY <1>0, <1>3 DEF Complete
  <2> QED BY <2>1, AnswerKeeps DEF Outcomes
<1>4. CASE CallFails(h)
  <2>1. /\ at[h] # "idle" /\ Answers(h, "failed") /\ UNCHANGED <<bankid, sessions>>
        /\ mistakes' \in 0..MaxFaults /\ mistakes <= mistakes' /\ mistakes' # 0
    BY <1>0, <1>4 DEF CallFails, Mistake
  <2> QED BY <2>1, AnswerKeeps DEF Outcomes
<1> QED BY <1>1, <1>2, <1>3, <1>4, CollectKeeps, DecideKeeps, CreateKeeps DEF CallStep

LEMMA LoginBegins == LoginInit => LoginIInv
<1> SUFFICES ASSUME LoginInit PROVE LoginIInv
    OBVIOUS
<1> USE LoginAssumption
<1>1. AdmissionIInv
    BY AdmissionBegins DEF LoginInit
<1>2. LoginTypeOK
    BY <1>1 DEF LoginInit, LoginTypeOK, AdmissionIInv, Outcomes
<1>3. CallsIInv /\ PagesIInv
    BY DEF LoginInit, CallsIInv, PagesIInv, AnswerIsAwaited, NumberIsGivenOnce, UsedIsHeard,
           EligibleGoesOn, FailedHasEnded, UsedIsAnswered, CompleteIsOver, RowsStand, HoldsOrder
<1> QED BY <1>1, <1>2, <1>3 DEF LoginIInv, AdmissionIInv

LEMMA LoginKeeps ==
    ASSUME LoginIInv, [LoginNext]_vars
    PROVE  LoginIInv'
<1>1. OwnIInv
    BY DEF LoginIInv, LoginTypeOK, OwnIInv, OwnTypeOK
<1>2. ASSUME UNCHANGED loginVars
      PROVE  OwnIInv'
  <2>1. UNCHANGED <<bankid, current, qr, inFlight, told, queued, order, at, sessions, mistakes>>
    BY <1>2 DEF loginVars
  <2>2. OwnTypeOK'
    BY <1>1, <2>1 DEF OwnIInv, OwnTypeOK
  <2>3. CallsIInv'
    BY <1>1, <2>1
    DEF OwnIInv, CallsIInv, AnswerIsAwaited, NumberIsGivenOnce, UsedIsHeard, EligibleGoesOn,
        HoldsOrder
  <2>4. FailedHasEnded' /\ UsedIsAnswered' /\ CompleteIsOver'
    BY <1>1, <2>1
    DEF OwnIInv, PagesIInv, FailedHasEnded, UsedIsAnswered, CompleteIsOver, HoldsOrder
  <2>5. \A o \in Logins : LoggedInAgain(o)' <=> LoggedInAgain(o)
    BY <2>1 DEF LoggedInAgain
  <2>6. \A h \in Calls : at[h] = "answer" => order[h] \in Logins
    BY <1>1 DEF OwnIInv, CallsIInv, AnswerIsAwaited
  <2>7. RowsStand'
    BY <1>1, <2>1, <2>5, <2>6 DEF OwnIInv, PagesIInv, RowsStand
  <2> QED BY <2>2, <2>3, <2>4, <2>7 DEF OwnIInv, PagesIInv
<1>3. OwnIInv'
  <2>1. ASSUME NEW o \in Logins,
               \/ Start(o) \/ AtBankId(o) \/ AskQr(o) \/ QrExpired(o) \/ LoseAnswer(o)
               \/ \E h \in Calls : Poll(h, o)
        PROVE  OwnIInv'
    BY <1>1, <2>1, PageKeeps, QrKeeps, PollKeeps
  <2>2. ASSUME NEW p \in Pages, Cancel(p)
        PROVE  OwnIInv'
    BY <1>1, <2>2, CancelKeeps
  <2>3. ASSUME NEW h \in Calls, CallStep(h) \/ CallFails(h)
        PROVE  OwnIInv'
    BY <1>1, <2>3, CallKeeps
  <2>4. ASSUME NEW t \in Others, OtherTask(t)
        PROVE  UNCHANGED loginVars
    BY <2>4 DEF OtherTask, OtherEnds
  <2>5. CASE UNCHANGED vars
    BY <1>2, <2>5 DEF vars
  <2>6. CASE LoginNext
    BY <1>2, <2>1, <2>2, <2>3, <2>4, <2>6 DEF LoginNext
  <2> QED BY <2>5, <2>6
<1> QED BY <1>3, QueueKeeps DEF OwnIInv, OwnTypeOK, LoginIInv, LoginTypeOK

LEMMA LoginInvariant == LoginSpec => []LoginIInv
BY LoginBegins, LoginKeeps, PTL DEF LoginSpec

\* However many log in at once, on however many pages, and whenever a QR code goes
\* out: while nothing fails and nobody stands in line, an identification that went
\* through is answered as it was decided, and what the page said before its call
\* answered is corrected; a session that a page was given goes only by a later login
\* of its voter; and the places of the admission queue are those of the calls that run.
THEOREM LoginsAlwaysHold == LoginSpec => []LoginHolds
<1>1. LoginIInv => LoginHolds
    BY DEF LoginIInv, PagesIInv, RowsStand, LoginHolds, SessionEndsByItsVoter, LoggedInAgain
<1> QED BY <1>1, LoginInvariant, PTL

\* The logins use the admission queue as it is meant to be used: each of their
\* steps is one of the queue's or leaves it alone.
THEOREM LoginsKeepTheQueue == LoginSpec => AdmissionSpec
<1>1. LoginInit => AdmissionInit
    BY DEF LoginInit
<1> QED BY <1>1, LoginStepsQueue, PTL DEF LoginSpec, AdmissionSpec
=============================================================================
