--------------------------- MODULE MCApplication ------------------------------
(***************************************************************************)
(* Values for TLC: the parts of the application that share no state with   *)
(* each other, each explored for itself. A behaviour is one of one part:   *)
(* the variables of the others stand still, where they begin or at Off. A  *)
(* variable that several parts have a name in common for is one here.      *)
(***************************************************************************)
EXTENDS EnvelopeCasting, Login, RateLimit, AuditChain, DemoElection, DeviceVotes, ServerMode,
        EnvelopeValidation, Publication, TLC

CONSTANTS
    Off,
    Parts,   \* the parts that a run explores
    s1, b1, x, y,
    o1, o2, o3, p1, p2, v1, v2, h1, h2,                       \* login
    q2, k2,                                                   \* demo
    w1, w2, w3, root,                                         \* audit
    b2, b3                                                    \* validation

VARIABLES
    part

\* The variables of one part only, and those that several parts have one of.
CastingOnly == <<phase, ended, pending, rowLocked, receipts>>
LoginOnly == <<active, line, task, bankid, current, qr, inFlight, told, queued, order, sessions>>
AuditOnly == auditVars
DemoOnly == demoVars
DeviceOnly == deviceVars
RateOnly == <<now, tracked, content, lastRefill, refused, from, admitted, posts, evicted>>
PublicationOnly == publicationVars
ModeOnly == modeVars
ValidationOnly == validationVars
Shared == <<request, at, mistakes>>
allVars == <<part, CastingOnly, LoginOnly, AuditOnly, DemoOnly, DeviceOnly, RateOnly,
    PublicationOnly, ModeOnly, ValidationOnly, Shared>>

\* One voter on one ballot.
MCBallotOf == s1 :> b1

\* Two pages log the same voter in, the second twice, and another tries too.
MCPageOf  == [o \in Logins |-> IF o = o2 THEN p2 ELSE p1]
MCVoterOf == [o \in Logins |-> IF o = o3 THEN v2 ELSE v1]

\* Keys with rules of their own.
MCLimit    == (x :> 2) @@ (y :> 1)
MCWindowMs == (x :> 3) @@ (y :> 2)

\* Calls of one kind are alike: polls and servers.
MCAlike == Permutations({h1, h2})

\* The entry of one of the callers carries the urn's root.
MCRootOf == (w1 :> root) @@ (w2 :> Nothing) @@ (w3 :> Nothing)

\* Two ballots, with a vote each, on different options; and what somebody writes instead.
MCMoved == <<<<1, 0>>, <<0, 1>>>>
MCSums == {<<1, 0>>, <<0, 1>>, <<2, 0>>}

\* What a server may find in the file of roots.
MCRootFiles == {{"test"}, {"production"}, {"test", "production"}}

\* One ballot for all, and one for the voters of an area.
InTheArea(v, b) == b = b1 \/ v = v2

----------------------------------------------------------------------------
NoCasting ==
    /\ phase = Off /\ ended = Off /\ pending = Off /\ rowLocked = Off /\ receipts = Off
\* The logins' own variables stand where a login begins.
NoLogin ==
    /\ AdmissionInit
    /\ bankid = [o \in Logins |-> "none"]
    /\ current = [p \in Pages |-> None]
    /\ inFlight = [o \in Logins |-> None]
    /\ told = [o \in Logins |-> "none"]
    /\ qr = {} /\ queued = {} /\ sessions = {}
    /\ order = [h \in Calls |-> None]

AppInit ==
    /\ part \in Parts
    /\ IF part = "casting" THEN CastInit ELSE NoCasting
    /\ IF part = "login" THEN LoginInit ELSE NoLogin
    /\ AuditInit
    /\ DemoInit
    /\ DeviceInit
    /\ RateInit /\ (part # "rate" => from = 0)
    /\ PublicationInit
    /\ ModeInit /\ (part # "mode" => ~tested)
    /\ ValidationInit
    /\ part # "casting" => request = Off
    /\ part # "login" => at = Off
    /\ part # "login" => mistakes = Off

\* What the other parts do meanwhile.
OnlyCasting == UNCHANGED <<part, LoginOnly, AuditOnly, DemoOnly, DeviceOnly,
    RateOnly, PublicationOnly, ModeOnly, ValidationOnly, at, mistakes>>
OnlyLogin == UNCHANGED <<part, CastingOnly, AuditOnly, DemoOnly, DeviceOnly,
    RateOnly, PublicationOnly, ModeOnly, ValidationOnly, request>>
OnlyAudit == UNCHANGED <<part, CastingOnly, LoginOnly, DemoOnly, DeviceOnly,
    RateOnly, PublicationOnly, ModeOnly, ValidationOnly, request, at, mistakes>>
OnlyDemo == UNCHANGED <<part, CastingOnly, LoginOnly, AuditOnly, DeviceOnly,
    RateOnly, PublicationOnly, ModeOnly, ValidationOnly, request, at, mistakes>>
OnlyDevice == UNCHANGED <<part, CastingOnly, LoginOnly, AuditOnly, DemoOnly,
    RateOnly, PublicationOnly, ModeOnly, ValidationOnly, request, at, mistakes>>
OnlyRate == UNCHANGED <<part, CastingOnly, LoginOnly, AuditOnly, DemoOnly,
    DeviceOnly, PublicationOnly, ModeOnly, ValidationOnly, request, at, mistakes>>
OnlyPublication == UNCHANGED <<part, CastingOnly, LoginOnly, AuditOnly, DemoOnly,
    DeviceOnly, RateOnly, ModeOnly, ValidationOnly, Shared>>
OnlyMode == UNCHANGED <<part, CastingOnly, LoginOnly, AuditOnly, DemoOnly,
    DeviceOnly, RateOnly, PublicationOnly, ValidationOnly, request, at, mistakes>>
OnlyValidation == UNCHANGED <<part, CastingOnly, LoginOnly, AuditOnly, DemoOnly, DeviceOnly,
    RateOnly, PublicationOnly, ModeOnly, Shared>>

\* A demo election that is closed and counted has one reset and one check; one with two
\* of each is neither closed nor counted.
OneAtATime == reset'[q2] = "out" /\ check'[k2] = "out"
NoCounting == UNCHANGED <<closing, count>>

AppNext ==
    \/ part = "casting" /\ CastNext /\ OnlyCasting
    \/ part = "login" /\ LoginNext /\ OnlyLogin
    \/ part = "audit" /\ AuditNext /\ OnlyAudit
    \/ part = "demo" /\ DemoNext /\ OneAtATime /\ OnlyDemo
    \/ part = "checks" /\ DemoNext /\ NoCounting /\ OnlyDemo
    \/ part = "device" /\ DeviceNext /\ OnlyDevice
    \/ part = "rate" /\ RateNext /\ OnlyRate
    \/ part = "publication" /\ PublicationNext /\ OnlyPublication
    \/ part = "mode" /\ ModeNext /\ OnlyMode
    \/ part = "validation" /\ ValidationNext /\ OnlyValidation

AppSpec == AppInit /\ [][AppNext]_allVars

=============================================================================
