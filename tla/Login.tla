------------------------------- MODULE Login -------------------------------
(***************************************************************************)
(* Identifying oneself: the login page, BankID's order, the polls of       *)
(* /api/auth/bankid/collect, the hashing of the personal number through    *)
(* the admission queue, and the voting sessions in the voters database.    *)
(*                                                                         *)
(* A call is one poll.  Between two awaits it runs alone; each statement   *)
(* against the database is a step.  Other tasks of the queue are hashings  *)
(* of the administrators' login and of the casting.                        *)
(***************************************************************************)
EXTENDS AdmissionQueue

CONSTANTS
    Logins,      \* orderRef: a UUID, new for every start
    Pages,       \* open login pages
    PageOf,      \* the page a login is started from
    VoterOf,     \* who identifies in it
    OtherDevice, \* the logins started with `other-device`: the page shows a QR code
    Eligible,    \* voters with a ballot in the election
    Calls,       \* calls of the collect route; tasks of the queue
    MaxFaults,   \* bound on lost answers, failing statements and rate limits
    None

ASSUME LoginAssumption ==
    /\ PageOf \in [Logins -> Pages]
    /\ DOMAIN VoterOf = Logins
    /\ OtherDevice \subseteq Logins
    /\ Calls \subseteq Tasks
    /\ MaxFaults \in Nat
    /\ None \notin Logins \cup Calls

VARIABLES
    bankid,     \* BankID's order, per login
    current,    \* `orderRef.current` of the page
    qr,         \* the logins whose QR code was asked for: an answer may be on its way
    inFlight,   \* `inFlight` in the closure of a login's timer
    told,       \* per login, what the page was last told of its end
    queued,     \* the logins that were told they stand in line
    order,      \* per call, the login it asks about
    at,         \* per call, where it is
    sessions,   \* voting_session: the logins that made the rows
    mistakes    \* faults so far

loginVars == <<bankid, current, qr, inFlight, told, queued, order, at, sessions, mistakes>>
vars      == <<admissionVars, loginVars>>

Outcomes == {"complete", "rejected", "failed"}

LoginTypeOK ==
    /\ AdmissionTypeOK
    /\ bankid \in [Logins -> {"none", "pending", "signed", "used", "ended"}]
    /\ current \in [Pages -> Logins \cup {None}]
    /\ inFlight \in [Logins -> Calls \cup {None}]
    /\ told \in [Logins -> Outcomes \cup {"expired", "none"}]
    /\ qr \subseteq Logins
    /\ queued \subseteq Logins /\ sessions \subseteq Logins
    /\ order \in [Calls -> Logins \cup {None}]
    /\ at \in [Calls -> {"idle", "collect", "hash", "decide", "create", "answer"}]
    /\ mistakes \in 0..MaxFaults

LoginInit ==
    /\ AdmissionInit
    /\ bankid = [o \in Logins |-> "none"]
    /\ current = [p \in Pages |-> None]
    /\ inFlight = [o \in Logins |-> None]
    /\ told = [o \in Logins |-> "none"]
    /\ qr = {} /\ queued = {} /\ sessions = {}
    /\ order = [h \in Calls |-> None]
    /\ at = [h \in Calls |-> "idle"]
    /\ mistakes = 0

----------------------------------------------------------------------------
(***************************************************************************)
(* The page and BankID.                                                    *)
(***************************************************************************)
\* start(): the page asks for an order, and begins to poll it.
Start(o) ==
    /\ bankid[o] = "none"
    /\ current[PageOf[o]] = None
    /\ bankid' = [bankid EXCEPT ![o] = "pending"]
    /\ current' = [current EXCEPT ![PageOf[o]] = o]
    /\ UNCHANGED <<admissionVars, qr, inFlight, told, queued, order, at, sessions, mistakes>>

\* reset(): the timers stop; a question that is on its way is answered all the same.
Cancel(p) ==
    /\ current[p] # None
    /\ current' = [current EXCEPT ![p] = None]
    /\ UNCHANGED <<admissionVars, bankid, qr, inFlight, told, queued, order, at, sessions, mistakes>>

\* The person identifies in the app; or does not, and the order ends.
AtBankId(o) ==
    /\ bankid[o] = "pending"
    /\ \E end \in {"signed", "ended"} : bankid' = [bankid EXCEPT ![o] = end]
    /\ UNCHANGED <<admissionVars, current, qr, inFlight, told, queued, order, at, sessions,
                   mistakes>>

\* The other timer, of a login with BankID on another device: the code's next
\* picture, every second, also while earlier answers are on their way.
AskQr(o) ==
    /\ o \in OtherDevice /\ current[PageOf[o]] = o
    /\ qr' = qr \cup {o}
    /\ UNCHANGED <<admissionVars, bankid, current, inFlight, told, queued, order, at, sessions,
                   mistakes>>

(***************************************************************************)
(* qrData knows nothing of an order that ended, that collect used up, or   *)
(* that is more than 30 seconds old, and answers alike to all: at any time *)
(* the answer may be `expired`.  It stops the timers and clears            *)
(* `orderRef.current`, whichever login is the page's by then, and the page *)
(* says that the code went out, also while collect's answer is on its way. *)
(* A page that was let in is left by then.  A picture changes nothing here.*)
(***************************************************************************)
QrExpired(o) ==
    /\ o \in qr
    /\ current' = [current EXCEPT ![PageOf[o]] = None]
    /\ told' = IF told[o] = "complete" THEN told ELSE [told EXCEPT ![o] = "expired"]
    /\ UNCHANGED <<admissionVars, bankid, qr, inFlight, queued, order, at, sessions, mistakes>>

\* Flawed: the timer asks again while a question is on its way.
MayAsk_Overlapping(o) == current[PageOf[o]] = o

\* The timer's guard: this is the page's login, and no question is on its way.
MayAsk(o) == current[PageOf[o]] = o /\ inFlight[o] = None

Poll(h, o) ==
    /\ at[h] = "idle"
    /\ MayAsk(o)
    /\ inFlight' = [inFlight EXCEPT ![o] = h]
    /\ order' = [order EXCEPT ![h] = o]
    /\ at' = [at EXCEPT ![h] = "collect"]
    /\ UNCHANGED <<admissionVars, bankid, current, qr, told, queued, sessions, mistakes>>

(***************************************************************************)
(* An answer.  Pending and queued leave the page asking.  Every other stops *)
(* the timers and clears `orderRef.current`, whichever login is the page's *)
(* by then; an answer the network took is not heard.                       *)
(***************************************************************************)
Answers(h, what) ==
    LET o == order[h]
        heard == inFlight[o] = h
        ends == what \in Outcomes
    IN /\ at' = [at EXCEPT ![h] = "idle"]
       /\ order' = [order EXCEPT ![h] = None]
       /\ inFlight' = IF heard THEN [inFlight EXCEPT ![o] = None] ELSE inFlight
       /\ told' = IF heard /\ ends THEN [told EXCEPT ![o] = what] ELSE told
       /\ current' = IF heard /\ ends THEN [current EXCEPT ![PageOf[o]] = None] ELSE current
       /\ queued' = IF what = "queued" THEN queued \cup {o} ELSE queued
       /\ UNCHANGED qr

----------------------------------------------------------------------------
(***************************************************************************)
(* /api/auth/bankid/collect.                                               *)
(***************************************************************************)
\* BankID answers collect. It gives the personal number once: an order that was
\* used is gone. With the number the call goes to the admission queue.
CollectAnswered(h) ==
    LET o == order[h] IN
    /\ at[h] = "collect"
    /\ \/ /\ bankid[o] = "pending"
          /\ Answers(h, "pending")
          /\ UNCHANGED <<admissionVars, bankid>>
       \/ /\ bankid[o] \in {"ended", "used"}
          /\ Answers(h, "failed")
          /\ UNCHANGED <<admissionVars, bankid>>
       \/ /\ bankid[o] = "signed"
          /\ bankid' = [bankid EXCEPT ![o] = "used"]
          /\ Arrive(h)
          /\ at' = [at EXCEPT ![h] = "hash"]
          /\ UNCHANGED <<current, qr, inFlight, told, queued, order>>
    /\ UNCHANGED <<sessions, mistakes>>

\* AdmissionQueueFull: the page is told it stands in line, and asks again.
HashRefused(h) ==
    /\ at[h] = "hash" /\ task[h] = "refused"
    /\ Departs(h)
    /\ Answers(h, "queued")
    /\ UNCHANGED <<bankid, sessions, mistakes>>

HashEnds(h) ==
    /\ at[h] = "hash"
    /\ TaskEnds(h)
    /\ at' = [at EXCEPT ![h] = "decide"]
    /\ UNCHANGED <<bankid, current, qr, inFlight, told, queued, order, sessions, mistakes>>

SessionsOf(v) == {o \in sessions : VoterOf[o] = v}

\* Flawed: whoever logs in ends every session.
OldSessions_OfEverybody(o) == sessions

\* deleteMany where voterStatusId: what the voter had before.
OldSessions(o) == SessionsOf(VoterOf[o])

\* evaluateEligibility reads the roll; createVotingSession deletes, and creates
\* in a second statement.
Decide(h) ==
    LET o == order[h] IN
    /\ at[h] = "decide"
    /\ Departs(h)
    /\ \/ /\ VoterOf[o] \notin Eligible
          /\ Answers(h, "rejected")
          /\ UNCHANGED sessions
       \/ /\ VoterOf[o] \in Eligible
          /\ sessions' = sessions \ OldSessions(o)
          /\ at' = [at EXCEPT ![h] = "create"]
          /\ UNCHANGED <<current, qr, inFlight, told, queued, order>>
    /\ UNCHANGED <<bankid, mistakes>>

Create(h) ==
    /\ at[h] = "create"
    /\ sessions' = sessions \cup {order[h]}
    /\ at' = [at EXCEPT ![h] = "answer"]
    /\ UNCHANGED <<admissionVars, bankid, current, qr, inFlight, told, queued, order, mistakes>>

\* The two audit posts, whose failure is swallowed, and the answer with its cookies.
Complete(h) ==
    /\ at[h] = "answer"
    /\ Answers(h, "complete")
    /\ UNCHANGED <<admissionVars, bankid, sessions, mistakes>>

CallStep(h) ==
    \/ CollectAnswered(h) \/ HashRefused(h) \/ HashEnds(h) \/ Decide(h) \/ Create(h)
    \/ Complete(h)

----------------------------------------------------------------------------
(***************************************************************************)
(* What goes wrong.                                                        *)
(***************************************************************************)
Mistake == mistakes < MaxFaults /\ mistakes' = mistakes + 1

\* The rate limit of the address, or a statement that fails: an error without a
\* status, which the page takes for a failure.
CallFails(h) ==
    /\ at[h] \in {"collect", "decide", "create"}
    /\ Mistake
    /\ Answers(h, "failed")
    /\ IF at[h] = "decide" THEN Departs(h) ELSE UNCHANGED admissionVars
    /\ UNCHANGED <<bankid, sessions>>

\* The network takes the answer: fetch throws, and the next tick asks again.
LoseAnswer(o) ==
    /\ inFlight[o] # None
    /\ Mistake
    /\ inFlight' = [inFlight EXCEPT ![o] = None]
    /\ UNCHANGED <<admissionVars, bankid, current, qr, told, queued, order, at, sessions>>

Others == Tasks \ Calls

OtherEnds(t) == TaskEnds(t) /\ UNCHANGED loginVars

OtherTask(t) == OtherEnds(t) \/ ((Arrive(t) \/ Departs(t)) /\ UNCHANGED loginVars)

LoginNext ==
    \/ \E o \in Logins : \/ Start(o) \/ AtBankId(o) \/ AskQr(o) \/ QrExpired(o) \/ LoseAnswer(o)
                        \/ \E h \in Calls : Poll(h, o)
    \/ \E p \in Pages : Cancel(p)
    \/ \E h \in Calls : CallStep(h) \/ CallFails(h)
    \/ \E t \in Others : OtherTask(t)

(***************************************************************************)
(* Fairness: the server runs a call on until it has answered, and a        *)
(* hashing ends.  Persons and pages owe nobody a step.                     *)
(***************************************************************************)
LoginFairness ==
    /\ \A h \in Calls : WF_vars(CallStep(h))
    /\ \A t \in Others : WF_vars(OtherEnds(t))

LoginSpec == LoginInit /\ [][LoginNext]_vars /\ LoginFairness

----------------------------------------------------------------------------
(***************************************************************************)
(* Properties                                                              *)
(***************************************************************************)
\* While nothing fails and nobody had to stand in line, an identification that
\* went through is answered as it was decided: "Legitimeringen misslyckades" is
\* never said of it, and once its call has answered, a page that said too early
\* that the code went out has been corrected; only a refusal may stay covered.
UsedIsAnswered ==
    mistakes = 0 => \A o \in Logins : bankid[o] = "used" /\ o \notin queued =>
        /\ told[o] # "failed"
        /\ inFlight[o] # None \/ IF VoterOf[o] \in Eligible
                                 THEN told[o] = "complete"
                                 ELSE told[o] \in {"rejected", "expired"}

\* A session that a page was given only goes away by a later login of the same
\* voter, whoever logs in at the same time.
SessionEndsByItsVoter ==
    \A o \in Logins : told[o] = "complete" /\ o \notin sessions =>
        \E p \in Logins \ {o} : VoterOf[p] = VoterOf[o] /\ bankid[p] = "used"

\* What holds of logins side by side, and of the line they stand in.
LoginHolds == UsedIsAnswered /\ SessionEndsByItsVoter /\ PlacesAreTrue

\* Everyone in line is called, and hears an answer, as long as hashings end.
EveryCallAnswers == \A h \in Calls : at[h] = "hash" ~> at[h] = "idle"
=============================================================================
