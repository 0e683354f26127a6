----------------------------- MODULE RateLimit -----------------------------
(***************************************************************************)
(* Rate limits: a bucket of tokens per scope and address, in the memory of *)
(* one process.  Each call of checkRateLimit is one synchronous block.     *)
(*                                                                         *)
(* Time is in milliseconds and a bucket's content in tokens times the      *)
(* window of its rule, so that a millisecond adds `limit` and a call takes *)
(* `windowMs`: the code's division is left out of both sides.              *)
(***************************************************************************)
EXTENDS Integers, FiniteSets

CONSTANTS
    Keys,             \* scope and hashed address
    Limit, WindowMs,  \* the rule of a key's scope: RATE_LIMITS
    MaxTrackedKeys,   \* MAX_TRACKED_KEYS
    MaxTime           \* bound on the time that a run looks at

ASSUME RateAssumption ==
    /\ Limit \in [Keys -> Nat \ {0}]
    /\ WindowMs \in [Keys -> Nat \ {0}]
    /\ MaxTime \in Nat

VARIABLES
    now,          \* Date.now()
    tracked,      \* the keys that have a bucket
    content,      \* `tokens` of a key's bucket
    lastRefill,   \* `lastRefill` of it
    refused,      \* the keys whose bucket has refused since it last let through
    from,         \* any point of time: from here on the calls are counted
    admitted,     \* per key, the calls let through since then
    posts,        \* per key, the calls since then answered with firstRejection
    evicted       \* the keys whose bucket was dropped by the rule of another scope

rateVars == <<now, tracked, content, lastRefill, refused, from, admitted, posts, evicted>>

RateTypeOK ==
    /\ now \in Nat /\ from \in Nat
    /\ tracked \subseteq Keys /\ refused \subseteq Keys /\ evicted \subseteq Keys
    /\ content \in [Keys -> Nat] /\ lastRefill \in [Keys -> Nat]
    /\ admitted \in [Keys -> Nat] /\ posts \in [Keys -> Nat]

RateInit ==
    /\ now = 0 /\ from \in 0..MaxTime
    /\ tracked = {} /\ refused = {} /\ evicted = {}
    /\ content = [k \in Keys |-> 0] /\ lastRefill = [k \in Keys |-> 0]
    /\ admitted = [k \in Keys |-> 0] /\ posts = [k \in Keys |-> 0]

----------------------------------------------------------------------------
Full(k) == Limit[k] * WindowMs[k]

\* What k's bucket would hold now by the rule of another key.
RefilledBy(rule, k) == content[k] * WindowMs[rule] + (now - lastRefill[k]) * Limit[rule] * WindowMs[k]

(***************************************************************************)
(* evictRefilledBuckets: with too many buckets, those that are full by the *)
(* rule of the CALLER go, whatever their own rule is.                      *)
(***************************************************************************)
Evicted(caller) ==
    IF Cardinality(tracked) >= MaxTrackedKeys /\ caller \notin tracked
    THEN {k \in tracked : RefilledBy(caller, k) >= Limit[caller] * WindowMs[caller] * WindowMs[k]}
    ELSE {}

\* Flawed: the bucket fills beyond the rule's limit while nobody calls.
Refilled_Unlimited(k) == content[k] + (now - lastRefill[k]) * Limit[k]

\* Math.min(rule.limit, ...), and a bucket that is new is full.
Refilled(k) ==
    LET filled == content[k] + (now - lastRefill[k]) * Limit[k]
    IN IF k \in tracked /\ filled < Full(k) THEN filled ELSE Full(k)

\* Flawed: every refused call is a first one.
IsFirstRejection_EachTime(k) == TRUE

\* bucket.refused !== true; a bucket that is new has refused nobody.
IsFirstRejection(k) == k \notin refused \cap tracked

Counted(f, k) == IF now >= from THEN [f EXCEPT ![k] = @ + 1] ELSE f

\* checkRateLimit: let through, or refused.
CheckRateLimit(k) ==
    LET tokens == Refilled(k) IN
    /\ tracked' = (tracked \ Evicted(k)) \cup {k}
    /\ evicted' = evicted \cup {u \in Evicted(k) : content[u] + (now - lastRefill[u]) * Limit[u] < Full(u)}
    /\ lastRefill' = [lastRefill EXCEPT ![k] = now]
    /\ \/ /\ tokens >= WindowMs[k]
          /\ content' = [content EXCEPT ![k] = tokens - WindowMs[k]]
          /\ admitted' = Counted(admitted, k)
          /\ refused' = refused \ {k}
          /\ UNCHANGED posts
       \/ /\ tokens < WindowMs[k]
          /\ content' = [content EXCEPT ![k] = tokens]
          /\ posts' = IF IsFirstRejection(k) THEN Counted(posts, k) ELSE posts
          /\ refused' = refused \cup {k}
          /\ UNCHANGED admitted
    /\ UNCHANGED <<now, from>>

\* The clock goes on.
Tick ==
    /\ now < MaxTime
    /\ now' = now + 1
    /\ UNCHANGED <<tracked, content, lastRefill, refused, from, admitted, posts, evicted>>

RateNext == Tick \/ \E k \in Keys : CheckRateLimit(k)

RateSpec == RateInit /\ [][RateNext]_rateVars

----------------------------------------------------------------------------
(***************************************************************************)
(* Properties                                                              *)
(***************************************************************************)
\* In no stretch of time, wherever it begins and however calls and pauses are
\* spread over it, do more get through than a full bucket and what refills in
\* it, as long as no other scope's rule has dropped the bucket.
WithinTheRule ==
    \A k \in Keys \ evicted :
        now >= from => admitted[k] * WindowMs[k] <= Full(k) + (now - from) * Limit[k]

\* A stranger cannot write posts into the audit chain without bound: between two
\* posts of RATE_LIMITED for one key, one of its calls was let through.
PostsAreBounded == \A k \in Keys : posts[k] <= admitted[k] + 1

\* What holds of every key's bucket.
RateHolds == WithinTheRule /\ PostsAreBounded
=============================================================================
