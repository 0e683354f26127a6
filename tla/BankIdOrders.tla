---------------------------- MODULE BankIdOrders ----------------------------
(***************************************************************************)
(* Orders at BankID and the calls that start, collect and cancel them      *)
(* (BankIdRpClient.ts): connections that never come about, answers that    *)
(* are lost, maintenance, and what is tried again. BankID's own side is    *)
(* the one of the repository's mock (MockBankIdService.ts).                *)
(*                                                                         *)
(* A timer fires when it is due: time does not pass while one waits to.    *)
(***************************************************************************)
EXTENDS Naturals, FiniteSets

CONSTANTS
    OrderRefs, Calls,
    RequestTimeout, ConnectTimeout, TotalTimeout, RetryDelay,
    ConnectRetries, MaintenanceRetries,
    OrderLifetime,
    MaxTime        \* the bound of the clock

ASSUME BankAssumption ==
    /\ {RequestTimeout, ConnectTimeout, TotalTimeout, RetryDelay, OrderLifetime} \subseteq Nat
    /\ {ConnectRetries, MaintenanceRetries} \subseteq Nat
    /\ MaxTime \in Nat \ {0}

VARIABLES
    now,
    call,      \* each call of the client
    service,   \* each order at BankID
    expires,   \* when it lapses there
    kept,      \* orders of the client, with the secret of the QR code: when they lapse, or 0
    told       \* what the page of an order was told last

bankVars == <<now, call, service, expires, kept, told>>

Methods == {"start", "collect", "cancel"}
NoOrder == "no order"

Idle == [at |-> "idle", method |-> "start", order |-> NoOrder, began |-> 0, by |-> 0,
         connectBy |-> 0, connected |-> FALSE, answer |-> "none", maintenance |-> 0,
         connects |-> 0, mayHaveActed |-> 0]

Smaller(m, n) == IF m < n THEN m ELSE n

----------------------------------------------------------------------------
(***************************************************************************)
(* BankID. A live order has not been handed out and has not lapsed.        *)
(***************************************************************************)
IsLive(o) == service[o] \in {"pending", "identified", "cancelled"} /\ expires[o] > now

\* selectDemoIdentity: the person has signed.
Identify(o) ==
    /\ IsLive(o) /\ service[o] = "pending"
    /\ service' = [service EXCEPT ![o] = "identified"]
    /\ UNCHANGED <<now, call, expires, kept, told>>

\* forgetMockOrdersForElection, when the election closes.
ForgottenByClosing(o) ==
    /\ service[o] \in {"pending", "identified", "cancelled"}
    /\ service' = [service EXCEPT ![o] = "ended"]
    /\ UNCHANGED <<now, call, expires, kept, told>>

\* What collect answers: an order is handed out once.
CollectAnswer(o) ==
    IF ~IsLive(o) \/ service[o] = "cancelled" THEN "failed"
    ELSE IF service[o] = "identified" THEN "complete" ELSE "pending"

Replied(c, answer) == call' = [call EXCEPT ![c].answer = answer]

\* The request reaches BankID, which does what it asks for.
Serve(c) ==
    LET o == call[c].order IN
    /\ call[c].at = "attempt" /\ call[c].connected /\ call[c].answer = "none"
    /\ \/ /\ call[c].method = "start"
          /\ \E fresh \in OrderRefs :
                /\ service[fresh] = "none"
                /\ service' = [service EXCEPT ![fresh] = "pending"]
                /\ expires' = [expires EXCEPT ![fresh] = now + OrderLifetime]
                /\ call' = [call EXCEPT ![c].answer = "started", ![c].order = fresh]
       \/ /\ call[c].method = "collect"
          /\ Replied(c, CollectAnswer(o))
          /\ service' = IF CollectAnswer(o) = "pending" THEN service
                        ELSE [service EXCEPT ![o] = "ended"]
          /\ UNCHANGED expires
       \/ /\ call[c].method = "cancel"
          /\ Replied(c, "cancelled")
          /\ service' = IF IsLive(o) THEN [service EXCEPT ![o] = "cancelled"] ELSE service
          /\ UNCHANGED expires
    /\ UNCHANGED <<now, kept, told>>

\* It answers that it did nothing, for now or for good.
Refuse(c) ==
    /\ call[c].at = "attempt" /\ call[c].connected /\ call[c].answer = "none"
    /\ \E answer \in {"maintenance", "refused"} : Replied(c, answer)
    /\ UNCHANGED <<now, service, expires, kept, told>>

----------------------------------------------------------------------------
(***************************************************************************)
(* A call: attempts, each with a time to connect and a time to answer.     *)
(***************************************************************************)
Remaining(began) == IF now < began + TotalTimeout THEN began + TotalTimeout - now ELSE 0

\* Flawed: an attempt has its own time, however late it is made.
TimeOfAttempt_Whole(began) == RequestTimeout

TimeOfAttempt(began) == Smaller(RequestTimeout, Remaining(began))

\* once: a new attempt of a call.
Attempt(r) ==
    [r EXCEPT !.at = "attempt", !.connected = FALSE, !.answer = "none",
              !.by = now + TimeOfAttempt(r.began),
              !.connectBy = now + Smaller(ConnectTimeout, TimeOfAttempt(r.began))]

Call(method, o) == Attempt([Idle EXCEPT !.method = method, !.order = o, !.began = now])

Begin(c) ==
    /\ call[c].at = "idle"
    /\ \/ call' = [call EXCEPT ![c] = Call("start", NoOrder)]
       \/ \E o \in OrderRefs :
             /\ told[o] = "pending"
             /\ call' = [call EXCEPT ![c] = Call("collect", o)]
    /\ UNCHANGED <<now, service, expires, kept, told>>

\* sign-start cancels the order it cannot keep.
BeginCancel(c) ==
    /\ call[c].at = "idle"
    /\ \E o \in OrderRefs :
          /\ told[o] = "pending"
          /\ call' = [call EXCEPT ![c] = Call("cancel", o)]
          /\ kept' = [kept EXCEPT ![o] = 0]
          /\ told' = [told EXCEPT ![o] = "failed"]
    /\ UNCHANGED <<now, service, expires>>

\* The handshake is done; what is sent from now on may have come through.
Connect(c) ==
    /\ call[c].at = "attempt" /\ ~call[c].connected
    /\ call' = [call EXCEPT ![c].connected = TRUE, ![c].mayHaveActed = @ + 1]
    /\ UNCHANGED <<now, service, expires, kept, told>>

\* collectErrorReply: what goes over by itself is asked again by the next poll.
TRANSIENT == {"network", "timeout", "maintenance"}

\* Flawed: the page is told, and the order is left to lapse.
Ends_WithoutCancel(c, code) ==
    IF call[c].method = "collect" /\ code \notin TRANSIENT
    THEN /\ told' = [told EXCEPT ![call[c].order] = "failed"]
         /\ call' = [call EXCEPT ![c] = Idle]
         /\ UNCHANGED kept
    ELSE call' = [call EXCEPT ![c] = Idle] /\ UNCHANGED <<kept, told>>

\* The call ends in an error. Every other error of a collect ends the order, at
\* BankID too.
Ends(c, code) ==
    LET o == call[c].order IN
    IF call[c].method = "collect" /\ code \notin TRANSIENT
    THEN /\ told' = [told EXCEPT ![o] = "failed"]
         /\ kept' = [kept EXCEPT ![o] = 0]
         /\ call' = [call EXCEPT ![c] = Call("cancel", o)]
    ELSE call' = [call EXCEPT ![c] = Idle] /\ UNCHANGED <<kept, told>>

\* An attempt that never came to a connection is made again.
ConnectAgain(c) ==
    IF call[c].connects >= ConnectRetries \/ Remaining(call[c].began) = 0 THEN Ends(c, "timeout")
    ELSE /\ call' = [call EXCEPT ![c] = Attempt([call[c] EXCEPT !.connects = @ + 1])]
         /\ UNCHANGED <<kept, told>>

ConnectDeadline(c) ==
    /\ call[c].at = "attempt" /\ ~call[c].connected
    /\ now = call[c].connectBy
    /\ ConnectAgain(c)
    /\ UNCHANGED <<now, service, expires>>

\* Flawed: whatever takes too long is taken for a connection that failed.
AnswerDeadline_Again(c) ==
    /\ call[c].at = "attempt" /\ call[c].connected
    /\ now = call[c].by
    /\ ConnectAgain(c)
    /\ UNCHANGED <<now, service, expires>>

AnswerDeadline(c) ==
    /\ call[c].at = "attempt" /\ call[c].connected
    /\ now = call[c].by
    /\ Ends(c, "timeout")
    /\ UNCHANGED <<now, service, expires>>

\* The connection breaks, an answer is too large or cannot be read.
AttemptFails(c) ==
    /\ call[c].at = "attempt"
    /\ \/ Ends(c, "network")
       \/ call[c].answer # "none" /\ Ends(c, "bad_response")
    /\ UNCHANGED <<now, service, expires>>

\* maintenance: after a while, if the call has time for the wait and more.
Maintenance(c) ==
    LET delay == RetryDelay * (call[c].maintenance + 1) IN
    /\ call[c].at = "attempt" /\ call[c].answer = "maintenance"
    /\ IF call[c].maintenance >= MaintenanceRetries THEN Ends(c, "maintenance")
       ELSE IF delay >= Remaining(call[c].began) THEN Ends(c, "timeout")
       ELSE /\ call' = [call EXCEPT ![c].at = "wait", ![c].by = now + delay,
                                    ![c].maintenance = @ + 1, ![c].mayHaveActed = @ - 1]
            /\ UNCHANGED <<kept, told>>
    /\ UNCHANGED <<now, service, expires>>

AttemptAgain(c) ==
    /\ call[c].at = "wait" /\ now = call[c].by
    /\ call' = [call EXCEPT ![c] = Attempt(@)]
    /\ UNCHANGED <<now, service, expires, kept, told>>

\* sweep, by qrData and by a new order.
SweptNow == [o \in OrderRefs |-> IF kept[o] <= now THEN 0 ELSE kept[o]]

\* startOrder, collect and cancel go on with an answer.
Answer(c) ==
    LET o == call[c].order
        answer == call[c].answer IN
    /\ call[c].at = "attempt"
    /\ \/ /\ answer = "started"
          /\ kept' = [SweptNow EXCEPT ![o] = now + OrderLifetime]
          /\ told' = [told EXCEPT ![o] = "pending"]
          /\ call' = [call EXCEPT ![c] = Idle]
       \/ /\ answer \in {"complete", "failed"}
          /\ kept' = [kept EXCEPT ![o] = 0]
          /\ told' = [told EXCEPT ![o] = answer]
          /\ call' = [call EXCEPT ![c] = Idle]
       \/ /\ answer \in {"pending", "cancelled"}
          /\ call' = [call EXCEPT ![c] = Idle]
          /\ UNCHANGED <<kept, told>>
       \/ answer = "refused" /\ Ends(c, "refused")
    /\ UNCHANGED <<now, service, expires>>

\* qrData: the code is shown while the order is kept.
QrData ==
    /\ kept' = SweptNow /\ kept' # kept
    /\ UNCHANGED <<now, call, service, expires, told>>

----------------------------------------------------------------------------
IsDue(c) ==
    \/ call[c].at # "idle" /\ now = call[c].by
    \/ call[c].at = "attempt" /\ ~call[c].connected /\ now = call[c].connectBy

Tick ==
    /\ now < MaxTime
    /\ \A c \in Calls : ~IsDue(c)
    /\ now' = now + 1
    /\ UNCHANGED <<call, service, expires, kept, told>>

BankInit ==
    /\ now = 1
    /\ call = [c \in Calls |-> Idle]
    /\ service = [o \in OrderRefs |-> "none"]
    /\ expires = [o \in OrderRefs |-> 0]
    /\ kept = [o \in OrderRefs |-> 0]
    /\ told = [o \in OrderRefs |-> "none"]

CallNext(c) ==
    \/ Begin(c) \/ BeginCancel(c) \/ Connect(c) \/ Serve(c) \/ Refuse(c)
    \/ ConnectDeadline(c) \/ AnswerDeadline(c) \/ AttemptFails(c)
    \/ Maintenance(c) \/ AttemptAgain(c) \/ Answer(c)

BankNext ==
    \/ \E c \in Calls : CallNext(c)
    \/ \E o \in OrderRefs : Identify(o) \/ ForgottenByClosing(o)
    \/ QrData \/ Tick

BankSpec == BankInit /\ [][BankNext]_bankVars

----------------------------------------------------------------------------
BankTypeOK ==
    /\ now \in 1 .. MaxTime
    /\ \A c \in Calls :
          /\ call[c].at \in {"idle", "attempt", "wait"} /\ call[c].method \in Methods
          /\ call[c].order \in OrderRefs \union {NoOrder}
          /\ call[c].connects \in 0 .. ConnectRetries
          /\ call[c].maintenance \in 0 .. MaintenanceRetries
    /\ \A o \in OrderRefs :
          /\ service[o] \in {"none", "pending", "identified", "cancelled", "ended"}
          /\ told[o] \in {"none", "pending", "complete", "failed"}

\* A request that BankID may have acted on is not sent again: one call starts at
\* most one order, however often it is tried (BankIdRpClient.ts call and once).
IsSentOnce == \A c \in Calls : call[c].mayHaveActed <= 1

\* No call outlives the time that is set for all of its attempts and waits.
EndsInTime == \A c \in Calls : call[c].at # "idle" => now <= call[c].began + TotalTimeout

\* The client keeps no secret of an order whose page was told that it has ended.
EndedIsNotKept == \A o \in OrderRefs : told[o] \in {"complete", "failed"} => kept[o] = 0

\* What holds of the orders at BankID and of the calls about them.
BankHolds == BankTypeOK /\ IsSentOnce /\ EndsInTime /\ EndedIsNotKept
=============================================================================
