---------------------------- MODULE DeviceVotes ----------------------------
(***************************************************************************)
(* What a device remembers of a vote it has cast, and when it forgets it:  *)
(* the tabs of one voter's browser, which share its localStorage, and the  *)
(* voter's envelope on one ballot.  The voter may have another device.     *)
(*                                                                         *)
(* Between two awaits a tab runs alone, and the storage is read and        *)
(* written there; a request to the server is a step of its own.            *)
(***************************************************************************)
EXTENDS Naturals, FiniteSets

CONSTANTS
    Tabs,        \* tabs with the voting page
    Votes,       \* ciphertexts, by their hash; each is signed once
    Elsewhere,   \* those that the voter casts from another device
    MaxLost,     \* bound on answers that the network takes
    NoVote

ASSUME DeviceAssumption == MaxLost \in Nat

VARIABLES
    open,       \* the server takes votes: acceptsVotesNow, and the public list
    lying,      \* the envelope that lies on the ballot
    post,       \* the post in localStorage
    page,       \* per tab, how far its page has come
    accepts,    \* per tab, `acceptsVotes` in its state
    device,     \* per tab, `deviceVotes`
    compared,   \* per tab, `comparisons`
    hasVote,    \* per tab, `hasPendingVote`
    asks,       \* per tab, whether a question about the phase is on its way
    signing,    \* per tab, the vote that `active` signs
    polled,     \* per tab, the vote a poll is on its way for
    reply,      \* per tab, what the server has answered the poll
    cast,       \* the votes that were signed
    since,      \* per tab, whether a vote was cast after it last heard how
                \* things stood
    lost        \* answers the network has taken

deviceVars == <<open, lying, post, page, accepts, device, compared, hasVote, asks, signing,
                polled, reply, cast, since, lost>>

\* "ready" shows the ballot; without a session there is nothing to show.
PageStates == {"out", "session", "list", "compare", "ready", "no-session"}

DeviceTypeOK ==
    /\ open \in BOOLEAN
    /\ {lying, post} \subseteq Votes \cup {NoVote}
    /\ page \in [Tabs -> PageStates]
    /\ accepts \in [Tabs -> BOOLEAN] /\ hasVote \in [Tabs -> BOOLEAN]
    /\ device \in [Tabs -> Votes \cup {NoVote}]
    /\ compared \in [Tabs -> {"same", "different", "none", "unknown"}]
    /\ asks \in [Tabs -> BOOLEAN] /\ since \in [Tabs -> BOOLEAN]
    /\ signing \in [Tabs -> Votes \cup {NoVote}] /\ polled \in [Tabs -> Votes \cup {NoVote}]
    /\ reply \in [Tabs -> {"none", "recorded", "closed", "failed"}]
    /\ cast \subseteq Votes
    /\ lost \in 0..MaxLost

DeviceInit ==
    /\ open = TRUE
    /\ lying = NoVote /\ post = NoVote
    /\ page = [t \in Tabs |-> "out"]
    /\ accepts = [t \in Tabs |-> FALSE] /\ hasVote = [t \in Tabs |-> FALSE]
    /\ device = [t \in Tabs |-> NoVote]
    /\ compared = [t \in Tabs |-> "unknown"]
    /\ asks = [t \in Tabs |-> FALSE] /\ since = [t \in Tabs |-> FALSE]
    /\ signing = [t \in Tabs |-> NoVote] /\ polled = [t \in Tabs |-> NoVote]
    /\ reply = [t \in Tabs |-> "none"]
    /\ cast = {} /\ lost = 0

serverVars == <<open, lying, cast>>
pageVars   == <<page, accepts, device, compared, hasVote>>
signVars   == <<signing, polled, reply>>

Set(f, t, value) == [f EXCEPT ![t] = value]

----------------------------------------------------------------------------
(***************************************************************************)
(* The server.                                                             *)
(***************************************************************************)
VotingHasEnded ==
    /\ open
    /\ open' = FALSE
    /\ UNCHANGED <<lying, cast, post, pageVars, asks, signVars, since, lost>>

\* The envelope on the ballot is replaced.
Lies(v) ==
    /\ lying' = v
    /\ cast' = cast \cup {v}
    /\ since' = [t \in Tabs |-> TRUE]

CastElsewhere(v) ==
    /\ open
    /\ v \in Elsewhere \ cast
    /\ Lies(v)
    /\ UNCHANGED <<open, post, pageVars, asks, signVars, lost>>

\* Flawed: that an envelope lies there is enough.
Comparison_AnyEnvelope(v) == IF lying = NoVote THEN "none" ELSE "same"

\* compareWithPendingVotes: the server compares, and does not hand out.
Comparison(v) ==
    IF lying = NoVote THEN "none" ELSE IF lying = v THEN "same" ELSE "different"

----------------------------------------------------------------------------
(***************************************************************************)
(* loadPage.                                                               *)
(***************************************************************************)
\* The tab is opened, or loaded again: its state begins anew.
Load(t) ==
    /\ page' = Set(page, t, "session")
    /\ accepts' = Set(accepts, t, FALSE)
    /\ device' = Set(device, t, NoVote)
    /\ compared' = Set(compared, t, "unknown")
    /\ hasVote' = Set(hasVote, t, FALSE)
    /\ asks' = Set(asks, t, FALSE)
    /\ signing' = Set(signing, t, NoVote)
    /\ polled' = Set(polled, t, NoVote)
    /\ reply' = Set(reply, t, "none")
    /\ UNCHANGED <<serverVars, post, since, lost>>

\* forgetElection: everything the device has saved of the election.
Forget == post' = NoVote

\* Flawed: a session that says the voting has ended leaves the post there.
ForgetIfVotingEnded_Keeps(ended) == UNCHANGED post

ForgetIfVotingEnded(ended) == IF ended THEN Forget ELSE UNCHANGED post

\* staleDeviceVotes: no envelope, or another one, lies where the post says.
Stale(v, has, result) == v # NoVote /\ (~has \/ result \in {"different", "none"})

\* The last part of loadPage, which is one synchronous block: what is stale is
\* forgotten, whatever the storage holds by then, and the page is shown.
Shows(t, acceptsVotes, v, has, result) ==
    /\ page' = Set(page, t, "ready")
    /\ accepts' = Set(accepts, t, acceptsVotes)
    /\ device' = Set(device, t, v)
    /\ hasVote' = Set(hasVote, t, has)
    /\ compared' = Set(compared, t, result)

\* /api/vote/session answers. With a post and an envelope the page compares.
SessionAnswered(t) ==
    LET v == IF open THEN post ELSE NoVote
        has == lying # NoVote
    IN /\ page[t] = "session"
       /\ since' = Set(since, t, FALSE)
       /\ \/ /\ has /\ v # NoVote
             /\ page' = Set(page, t, "compare")
             /\ accepts' = Set(accepts, t, open)
             /\ device' = Set(device, t, v)
             /\ hasVote' = Set(hasVote, t, has)
             /\ UNCHANGED <<post, compared>>
          \/ /\ ~(has /\ v # NoVote)
             /\ IF Stale(v, has, "unknown") THEN Forget ELSE ForgetIfVotingEnded(~open)
             /\ Shows(t, open, v, has, "unknown")
       /\ UNCHANGED <<serverVars, asks, signVars, lost>>

\* The comparison says that the voting has closed, or how the post compares;
\* without an answer the page shows only that a vote lies there.
CompareAnswered(t) ==
    /\ page[t] = "compare"
    /\ \/ /\ ~open
          /\ Forget
          /\ Shows(t, FALSE, NoVote, hasVote[t], "unknown")
       \/ /\ open
          /\ LET result == Comparison(device[t]) IN
             /\ IF Stale(device[t], hasVote[t], result) THEN Forget ELSE UNCHANGED post
             /\ Shows(t, accepts[t], device[t], hasVote[t], result)
    /\ since' = Set(since, t, FALSE)
    /\ UNCHANGED <<serverVars, asks, signVars, lost>>

CompareFails(t) ==
    /\ page[t] = "compare"
    /\ lost < MaxLost /\ lost' = lost + 1
    /\ Shows(t, accepts[t], device[t], hasVote[t], "unknown")
    /\ UNCHANGED <<serverVars, post, asks, signVars, since>>

\* The session is over: only the public list is left to ask.
NoSession(t) ==
    /\ page[t] = "session"
    /\ page' = Set(page, t, IF post = NoVote THEN "no-session" ELSE "list")
    /\ UNCHANGED <<serverVars, post, accepts, device, compared, hasVote, asks, signVars, since, lost>>

\* forgetElectionsNotOpen, with the list.
ListAnswered(t) ==
    /\ page[t] = "list"
    /\ page' = Set(page, t, "no-session")
    /\ ForgetIfVotingEnded(~open)
    /\ UNCHANGED <<serverVars, accepts, device, compared, hasVote, asks, signVars, since, lost>>

----------------------------------------------------------------------------
(***************************************************************************)
(* The watch, while the page shows a voting that is open.                  *)
(***************************************************************************)
AskPhase(t) ==
    /\ page[t] = "ready" /\ accepts[t] /\ ~asks[t]
    /\ asks' = Set(asks, t, TRUE)
    /\ UNCHANGED <<serverVars, post, pageVars, signVars, since, lost>>

\* votingEnded: forgets, and shows it. A poll that is on its way is not called back.
Ended(t) ==
    /\ Forget
    /\ accepts' = Set(accepts, t, FALSE)
    /\ device' = Set(device, t, NoVote)
    /\ compared' = Set(compared, t, "unknown")
    /\ signing' = Set(signing, t, NoVote)
    /\ UNCHANGED <<page, hasVote>>

PhaseAnswered(t) ==
    /\ asks[t]
    /\ asks' = Set(asks, t, FALSE)
    /\ \/ ~open /\ Ended(t) /\ UNCHANGED <<polled, reply>>
       \/ open /\ UNCHANGED <<post, pageVars, signVars>>
    /\ UNCHANGED <<serverVars, since, lost>>

----------------------------------------------------------------------------
(***************************************************************************)
(* Casting from this device.                                               *)
(***************************************************************************)
Sign(t, v) ==
    /\ page[t] = "ready" /\ accepts[t]
    /\ signing[t] = NoVote /\ polled[t] = NoVote
    /\ v \notin cast \cup Elsewhere
    /\ \A u \in Tabs : v \notin {signing[u], polled[u]}
    /\ signing' = Set(signing, t, v)
    /\ UNCHANGED <<serverVars, post, pageVars, asks, polled, reply, since, lost>>

PollSigning(t) ==
    /\ signing[t] # NoVote /\ polled[t] = NoVote
    /\ polled' = Set(polled, t, signing[t])
    /\ UNCHANGED <<serverVars, post, pageVars, asks, signing, reply, since, lost>>

\* The server records the vote, or says that the voting has closed, or that it failed.
ServerAnswers(t) ==
    /\ polled[t] # NoVote /\ reply[t] = "none"
    /\ \/ /\ open /\ polled[t] \notin cast
          /\ Lies(polled[t])
          /\ reply' = Set(reply, t, "recorded")
       \/ /\ ~open
          /\ reply' = Set(reply, t, "closed")
          /\ UNCHANGED <<lying, cast, since>>
       \/ /\ reply' = Set(reply, t, "failed")
          /\ UNCHANGED <<lying, cast, since>>
    /\ UNCHANGED <<open, post, pageVars, asks, signing, polled, lost>>

\* rememberDeviceVote, and the page shows the vote as the one that lies there.
Remembers(t) ==
    /\ post' = polled[t]
    /\ device' = Set(device, t, polled[t])
    /\ compared' = Set(compared, t, "same")

\* startPolling after its await: the order is still the page's, for the timers
\* stop when the voting ends and `orderRef.current` stays.
ReplyArrives(t) ==
    /\ reply[t] # "none"
    /\ reply' = Set(reply, t, "none")
    /\ polled' = Set(polled, t, NoVote)
    /\ \/ /\ reply[t] = "recorded"
          /\ Remembers(t)
          /\ hasVote' = Set(hasVote, t, TRUE)
          /\ signing' = Set(signing, t, NoVote)
          /\ UNCHANGED <<page, accepts>>
       \/ reply[t] = "closed" /\ Ended(t)
       \/ /\ reply[t] = "failed"
          /\ signing' = Set(signing, t, NoVote)
          /\ UNCHANGED <<post, pageVars>>
    /\ since' = Set(since, t, since[t] /\ ~(reply[t] = "recorded" /\ lying = polled[t]))
    /\ UNCHANGED <<serverVars, asks, lost>>

\* The network takes the answer of a poll: the next asks again.
LoseReply(t) ==
    /\ reply[t] # "none"
    /\ lost < MaxLost /\ lost' = lost + 1
    /\ reply' = Set(reply, t, "none")
    /\ polled' = Set(polled, t, NoVote)
    /\ UNCHANGED <<serverVars, post, pageVars, asks, signing, since>>

DeviceNext ==
    \/ VotingHasEnded
    \/ \E v \in Votes : CastElsewhere(v)
    \/ \E t \in Tabs :
          \/ Load(t) \/ SessionAnswered(t) \/ CompareAnswered(t) \/ CompareFails(t)
          \/ NoSession(t) \/ ListAnswered(t)
          \/ AskPhase(t) \/ PhaseAnswered(t)
          \/ PollSigning(t) \/ ServerAnswers(t) \/ ReplyArrives(t) \/ LoseReply(t)
          \/ \E v \in Votes : Sign(t, v)

(***************************************************************************)
(* Fairness: questions are answered, a page that is shown asks again every *)
(* half minute, and the voter comes back: a tab that is not being loaded   *)
(* is loaded again some time.                                              *)
(***************************************************************************)
Answered(t) ==
    \/ SessionAnswered(t) \/ CompareAnswered(t) \/ ListAnswered(t)
    \/ PhaseAnswered(t) \/ ServerAnswers(t) \/ ReplyArrives(t)

ComesBack(t) == page[t] \in {"out", "ready", "no-session"} /\ Load(t)

DeviceFairness ==
    \A t \in Tabs :
        /\ WF_deviceVars(Answered(t)) /\ WF_deviceVars(AskPhase(t))
        /\ WF_deviceVars(ComesBack(t))

DeviceSpec == DeviceInit /\ [][DeviceNext]_deviceVars /\ DeviceFairness

----------------------------------------------------------------------------
(***************************************************************************)
(* Properties                                                              *)
(***************************************************************************)
\* ballotStatus is "current": the page shows what the vote says.
ShowsCurrent(t) ==
    page[t] = "ready" /\ accepts[t] /\ hasVote[t] /\ device[t] # NoVote /\ compared[t] = "same"

\* A page that shows a vote as the one that counts shows the one that lies on
\* the ballot: unless a vote was cast, from another tab or another device or in
\* an answer that was lost, since the page last heard from the server.
ShownIsLying ==
    \A t \in Tabs : ShowsCurrent(t) /\ ~since[t] => device[t] = lying

\* What holds of the tabs, the device and the ballot (vote/page.tsx, device-votes.ts).
DeviceHolds == DeviceTypeOK /\ ShownIsLying

\* When the voting has ended and the voter comes back, the device forgets the
\* vote, whichever tab wrote it and however late.
EndedIsForgotten == ~open ~> post = NoVote
=============================================================================
