----------------------------- MODULE MCAnswers --------------------------------
(***************************************************************************)
(* Values for TLC: what is sure to come, under the fairness of each part:  *)
(* answers, ends of transactions, orders and votes that are forgotten, and *)
(* the certification. The parts are explored one by one; the variables of  *)
(* the others stand still at Off.                                          *)
(***************************************************************************)
EXTENDS SigningOrders, TLC

CONSTANTS
    Off,
    Parts,   \* the parts that a run explores
    x, s1, b1,
    l1, l2, p1, p2, v1, v2, h1, h2,
    w1, w2, w3, root,
    Tabs, Votes, Elsewhere,
    Trustees, k1, k2

VARIABLES
    part,
    active, line, task, current, qr, told, queued, sessions,
    chain, row, table, previous, staged, changed, written, recomputed, tampering,
    open, lying, post, accepts, device, compared, hasVote, asks, signing, polled, reply,
    cast, since, lost,
    rooted, partialPosts, tallyPosts, talliedPosts, urn, partials, counters,
    completedAt, call, outside, certifiedPosts, underReview, reviewPosts, check,
    at, mistakes

\* The variables of one part only, and those that several parts have one of.
SigningOnly == <<running, waiting, reserved, held, stage, gone, number, last, recorded,
    store, completed, cleaned, doing, dropped>>
LoginOnly == <<active, line, task, current, qr, told, queued, sessions>>
AuditOnly == <<chain, row, table, previous, staged, changed, written, recomputed,
    tampering>>
DeviceOnly == <<open, lying, post, accepts, device, compared, hasVote, asks, signing,
    polled, reply, cast, since, lost>>
CheckOnly == <<rooted, partialPosts, tallyPosts, talliedPosts, urn, partials, counters,
    completedAt, call, outside, certifiedPosts, underReview, reviewPosts, check>>
Shared == <<phase, bankid, page, inFlight, order, faults, at, mistakes>>
allVars == <<part, SigningOnly, LoginOnly, AuditOnly, DeviceOnly, CheckOnly, Shared>>

MCSessionOf == [o \in Orders |-> s1]

Identifying == INSTANCE Login
    WITH Tasks <- {h1, h2, x}, Calls <- {h1, h2}, MaxConcurrent <- 1, MaxQueued <- 1, Logins <- {l1, l2},
         Pages <- {p1, p2}, PageOf <- (l1 :> p1) @@ (l2 :> p2),
         VoterOf <- (l1 :> v1) @@ (l2 :> v2), OtherDevice <- {l1}, Eligible <- {v1}

Audit == INSTANCE AuditChain
    WITH Writers <- {w1, w2, w3}, InTransaction <- {w1, w2}, Roots <- {root},
         RootOf <- (w1 :> root) @@ (w2 :> None) @@ (w3 :> None), MaxTampering <- 2,
         MaxFailures <- MaxFaults, Nothing <- None, writer <- at, failures <- mistakes

Device == INSTANCE DeviceVotes
    WITH MaxLost <- MaxFaults, NoVote <- None

Check == INSTANCE FinalCheck
    WITH Ballots <- {b1}, Threshold <- 1, Calls <- {x}, Certifications <- {k1, k2},
         MaxFaults <- 0, MaxOutside <- 0

----------------------------------------------------------------------------
NoSigning ==
    /\ running = Off /\ waiting = Off /\ reserved = Off /\ held = Off /\ stage = Off
    /\ gone = Off /\ number = Off /\ last = Off /\ recorded = Off /\ store = Off
    /\ completed = Off /\ cleaned = Off /\ doing = Off /\ dropped = Off
NoLogin ==
    /\ active = Off /\ line = Off /\ task = Off /\ current = Off /\ qr = Off /\ told = Off
    /\ queued = Off /\ sessions = Off
NoAudit ==
    /\ chain = Off /\ row = Off /\ table = Off /\ previous = Off /\ staged = Off
    /\ changed = Off /\ written = Off /\ recomputed = Off /\ tampering = Off
NoDevice ==
    /\ open = Off /\ lying = Off /\ post = Off /\ accepts = Off /\ device = Off
    /\ compared = Off /\ hasVote = Off /\ asks = Off /\ signing = Off /\ polled = Off
    /\ reply = Off /\ cast = Off /\ since = Off /\ lost = Off
NoCheck ==
    /\ rooted = Off /\ partialPosts = Off /\ tallyPosts = Off /\ talliedPosts = Off
    /\ urn = Off /\ partials = Off /\ counters = Off /\ completedAt = Off
    /\ call = Off /\ outside = Off /\ certifiedPosts = Off /\ underReview = Off
    /\ reviewPosts = Off /\ check = Off

AllInit ==
    /\ part \in Parts
    /\ IF part = "signing" THEN Init ELSE NoSigning
    /\ IF part = "login" THEN Identifying!LoginInit ELSE NoLogin
    /\ IF part = "audit" THEN Audit!AuditInit ELSE NoAudit
    /\ IF part = "device" THEN Device!DeviceInit ELSE NoDevice
    /\ IF part = "check" THEN Check!CheckInit ELSE NoCheck
    /\ part \notin {"signing", "check"} => phase = Off
    /\ part \notin {"signing", "login"} => bankid = Off
    /\ part \notin {"signing", "device"} => page = Off
    /\ part \notin {"signing", "login"} => inFlight = Off
    /\ part \notin {"signing", "login"} => order = Off
    /\ part \notin {"signing", "check"} => faults = Off
    /\ part \notin {"login", "audit"} => at = Off
    /\ part \notin {"login", "audit"} => mistakes = Off

\* What the other parts do meanwhile.
OnlySigning == UNCHANGED <<part, LoginOnly, AuditOnly, DeviceOnly, CheckOnly, at,
    mistakes>>
OnlyLogin == UNCHANGED <<part, SigningOnly, AuditOnly, DeviceOnly, CheckOnly, phase,
    page, faults>>
OnlyAudit == UNCHANGED <<part, SigningOnly, LoginOnly, DeviceOnly, CheckOnly, phase,
    bankid, page, inFlight, order, faults>>
OnlyDevice == UNCHANGED <<part, SigningOnly, LoginOnly, AuditOnly, CheckOnly, phase,
    bankid, inFlight, order, faults, at, mistakes>>
OnlyCheck == UNCHANGED <<part, SigningOnly, LoginOnly, AuditOnly, DeviceOnly, bankid,
    page, inFlight, order, at, mistakes>>

AllNext ==
    \/ part = "signing" /\ Next /\ OnlySigning
    \/ part = "login" /\ Identifying!LoginNext /\ OnlyLogin
    \/ part = "audit" /\ Audit!AuditNext /\ OnlyAudit
    \/ part = "device" /\ Device!DeviceNext /\ OnlyDevice
    \/ part = "check" /\ Check!CheckNext /\ OnlyCheck

AllSpec == AllInit /\ [][AllNext]_allVars

\* The fairness that the parts' specifications state, while the part runs.
AllFairness ==
    /\ \A h \in Visitors : WF_allVars(part = "signing" /\ ServerStep(h) /\ OnlySigning)
    /\ \A w \in Validators :
           WF_allVars(part = "signing" /\ Finish(w) /\ UNCHANGED orderVars /\ OnlySigning)
    /\ WF_allVars(part = "signing" /\ Expire /\ OnlySigning)
    /\ WF_allVars(part = "signing" /\ SweepTimer /\ OnlySigning)
    /\ \A h \in {h1, h2} : WF_allVars(part = "login" /\ Identifying!CallStep(h) /\ OnlyLogin)
    /\ WF_allVars(part = "login" /\ Identifying!OtherEnds(x) /\ OnlyLogin)
    /\ \A w \in {w1, w2, w3} : SF_allVars(part = "audit" /\ Audit!WriterStep(w) /\ OnlyAudit)
    /\ \A t \in Tabs :
           /\ WF_allVars(part = "device" /\ Device!Answered(t) /\ OnlyDevice)
           /\ WF_allVars(part = "device" /\ Device!AskPhase(t) /\ OnlyDevice)
           /\ WF_allVars(part = "device" /\ Device!ComesBack(t) /\ OnlyDevice)
    /\ WF_allVars(/\ part = "check" /\ (Check!Contributes(x) \/ Check!Counts(x))
                  /\ UNCHANGED <<certifiedPosts, underReview, reviewPosts, check>>
                  /\ OnlyCheck)
    /\ \A k \in {k1, k2} : WF_allVars(part = "check" /\ Check!Certifying(k) /\ OnlyCheck)

FairSpec == AllSpec /\ AllFairness

----------------------------------------------------------------------------
\* The parts' properties, each where it is stated; a part that is not explored
\* has none of the states they begin with, and what one of two alike is sure of,
\* so is the other.
AnswersCome ==
    part = "login" /\ at[h1] = "hash" ~> part = "login" /\ at[h1] = "idle"
EveryWriterEnds ==
    \A w \in {w1, w3} :
        part = "audit" /\ at[w] = "lock" ~> part = "audit" /\ at[w] \in Audit!WriterEnds
EndedIsForgotten == part = "device" /\ open = FALSE ~> part = "device" /\ post = None
OrdersGo ==
    part = "signing" /\ phase # "OPEN" ~> [](part = "signing" /\ store = <<>>)
CertifiedOnce ==
    /\ [](part = "check" => Check!CheckTypeOK /\ Check!EachIsPostedOnce)
    /\ /\ part = "check"
       /\ Check!CheckAt(k1, "urn") /\ check[k1].phase = "TALLIED" /\ phase = "TALLIED"
       /\ check[k2] = Check!NotChecking
       /\ ~underReview
       ~> part = "check" /\ phase = "CERTIFIED"
=============================================================================
