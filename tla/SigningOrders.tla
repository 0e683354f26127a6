--------------------------- MODULE SigningOrders ---------------------------
(***************************************************************************)
(* From the signature to the vote: the voting page, BankID's orders, the   *)
(* order store in the memory of one server process, and the polls of       *)
(* /api/vote/encrypted, over the verification queue.                       *)
(*                                                                         *)
(* A visitor of the queue is one call of the route.  Between two awaits a  *)
(* call runs alone, so an action is what it does between two of them.      *)
(* The cast itself is its outcome: what its transaction asks is the module *)
(* EnvelopeCasting.                                                        *)
(***************************************************************************)
EXTENDS VerificationQueue

CONSTANTS
    Orders,          \* orderRef: a UUID, new for every sign-start
    Sessions,        \* voting sessions, each with one ballot to cast
    SessionOf,       \* the session that starts an order
    MaxOrders,       \* MAX_ORDERS
    MaxPerSession,   \* MAX_ORDERS_PER_SESSION
    MaxFaults,       \* bound: lost answers and failing statements
    None

ASSUME OrdersAssumption ==
    /\ SessionOf \in [Orders -> Sessions]
    /\ MaxOrders \in Nat \ {0} /\ MaxPerSession \in Nat \ {0}
    /\ MaxFaults \in Nat
    /\ None \notin Orders \cup Visitors

VARIABLES
    \* the voters database
    phase,      \* election.phase
    number,     \* the sequence number that goes into what the voter signs
    last,       \* per session, the number of the row that lies there
    recorded,   \* the orders whose vote was recorded
    \* the memory of the process
    store,      \* the order store: a Map, in the order of insertion
    completed,  \* the orders that hold BankID's answer
    cleaned,    \* the closing has removed the orders of the election
    \* BankID, per order
    bankid,
    \* the voting page, per order: what it shows, and the call it waits for
    page, inFlight,
    \* the calls: which order, and where
    order, doing,
    \* the orders the server let go: expired, replaced, refused or removed
    dropped,
    faults

storeVars == <<store, completed, dropped>>
callVars  == <<order, doing>>
voteVars  == <<phase, number, last, recorded, cleaned>>
orderVars == <<storeVars, callVars, voteVars, bankid, page, inFlight, faults>>
vars      == <<queueVars, orderVars>>

PageStates == {"new", "asked", "polling", "recorded", "failed", "closed", "left"}

TypeOK ==
    /\ QueueTypeOK
    /\ phase \in {"OPEN", "CLOSED"}
    /\ number \in [Orders -> Nat]
    /\ last \in [Sessions -> Nat]
    /\ recorded \subseteq Orders
    /\ store \in Seq(Orders) /\ IsInjective(store)
    /\ completed \subseteq Orders /\ dropped \subseteq Orders
    /\ cleaned \in BOOLEAN
    /\ bankid \in [Orders -> {"none", "pending", "signed", "collected", "ended"}]
    /\ page \in [Orders -> PageStates]
    /\ inFlight \in [Orders -> Visitors \cup {None}]
    /\ order \in [Visitors -> Orders \cup {None}]
    /\ doing \in [Visitors -> {"idle", "collecting", "casting"}]
    /\ faults \in 0..MaxFaults

Init ==
    /\ QueueInit
    /\ phase = "OPEN"
    /\ number = [o \in Orders |-> 0]
    /\ last = [s \in Sessions |-> 0]
    /\ recorded = {} /\ store = <<>> /\ completed = {} /\ dropped = {}
    /\ cleaned = FALSE
    /\ bankid = [o \in Orders |-> "none"]
    /\ page = [o \in Orders |-> "new"]
    /\ inFlight = [o \in Orders |-> None]
    /\ order = [h \in Visitors |-> None]
    /\ doing = [h \in Visitors |-> "idle"]
    /\ faults = 0

----------------------------------------------------------------------------
(***************************************************************************)
(* The store.  Every call sweeps first: what has expired lies in it until  *)
(* then, or until the timer.                                               *)
(***************************************************************************)
\* Those of the orders that are among these, in the order they came.
Kept(orders, these) ==
    LET upTo[n \in 0..Len(orders)] ==
            IF n = 0 THEN <<>>
            ELSE IF orders[n] \in these THEN Append(upTo[n - 1], orders[n]) ELSE upTo[n - 1]
    IN upTo[Len(orders)]

Without(orders, removed) == Kept(orders, Orders \ removed)

Swept == Without(store, dropped)

OfSession(s) == {o \in Orders : SessionOf[o] = s}

Lives(o) == o \in Range(Swept)

\* Flawed: one order too many is left to the session.
Replaced_OneTooFew(o) ==
    LET mine == Kept(Swept, OfSession(SessionOf[o]))
    IN {mine[i] : i \in 1..(Len(mine) - MaxPerSession)}

\* The oldest orders of the session, so that the new one is within its limit.
Replaced(o) ==
    LET mine == Kept(Swept, OfSession(SessionOf[o]))
    IN {mine[i] : i \in 1..(Len(mine) - MaxPerSession + 1)}

\* takeOrder: reads and removes.
Taken(o) == store' = Without(Swept, {o})

(***************************************************************************)
(* The answer of a call, and what the page makes of it: pending and queued *)
(* are no error, and it asks again.  A page that has left, or that no      *)
(* longer waits for this call, hears nothing.                              *)
(***************************************************************************)
Shown(o, what) ==
    CASE what \in {"pending", "queued"}  -> page[o]
      [] what \in {"recorded", "closed"} -> what
      [] OTHER                           -> "failed"

Answers(h, what) ==
    LET o == order[h] IN
    /\ doing' = [doing EXCEPT ![h] = "idle"]
    /\ order' = [order EXCEPT ![h] = None]
    /\ IF inFlight[o] = h
       THEN /\ inFlight' = [inFlight EXCEPT ![o] = None]
            /\ page' = [page EXCEPT ![o] = Shown(o, what)]
       ELSE UNCHANGED <<inFlight, page>>

\* attachCompletion; where it is false there is nothing to wait for.
KeepsOrder(h) ==
    /\ store' = Swept
    /\ \/ Lives(order[h]) /\ completed' = completed \cup {order[h]} /\ Answers(h, "queued")
       \/ ~Lives(order[h]) /\ UNCHANGED completed /\ Answers(h, "failed")

(***************************************************************************)
(* /api/vote/sign-start: the window, the next number, the order at BankID. *)
(***************************************************************************)
SignStart(o) ==
    /\ page[o] = "new"
    /\ phase = "OPEN"
    /\ page' = [page EXCEPT ![o] = "asked"]
    /\ number' = [number EXCEPT ![o] = last[SessionOf[o]] + 1]
    /\ UNCHANGED <<queueVars, storeVars, callVars, phase, last, recorded, cleaned, bankid,
                   inFlight, faults>>

(***************************************************************************)
(* BankID has answered, and putOrder.  The capacity is asked before any    *)
(* order is replaced; where it is reached the order is cancelled at BankID *)
(* and the page is told BUSY.  The orders of voters outside Sessions come  *)
(* and go: there may be any number of them.                                *)
(***************************************************************************)
PutOrder(o) ==
    /\ page[o] = "asked"
    /\ \/ /\ \E others \in 0..MaxOrders : Len(Swept) + others >= MaxOrders
          /\ store' = Swept
          /\ dropped' = dropped \cup {o}
          /\ page' = [page EXCEPT ![o] = "failed"]
          /\ bankid' = [bankid EXCEPT ![o] = "ended"]
       \/ /\ Len(Swept) < MaxOrders
          /\ store' = Append(Without(Swept, Replaced(o)), o)
          /\ dropped' = dropped \cup Replaced(o)
          /\ page' = [page EXCEPT ![o] = "polling"]
          /\ bankid' = [bankid EXCEPT ![o] = "pending"]
    /\ UNCHANGED <<queueVars, callVars, voteVars, completed, inFlight, faults>>

\* The voter signs in the app, or does not.
AtBankId(o) ==
    /\ bankid[o] = "pending"
    /\ \E end \in {"signed", "ended"} : bankid' = [bankid EXCEPT ![o] = end]
    /\ UNCHANGED <<queueVars, storeVars, callVars, voteVars, page, inFlight, faults>>

\* Flawed: the page asks again while a question is on its way.
MayAsk_Overlapping(o) == page[o] = "polling"

\* One question at a time.
MayAsk(o) == page[o] = "polling" /\ inFlight[o] = None

(***************************************************************************)
(* reserveVerification, once the signature is at hand.  Without a place    *)
(* the signature is laid with the order, and the page asks again.          *)
(***************************************************************************)
TakesPlace(h) ==
    \/ /\ Reserve(h)
       /\ doing' = [doing EXCEPT ![h] = "casting"]
       /\ store' = Swept
       /\ UNCHANGED <<completed, order, page, inFlight>>
    \/ NoPlace /\ KeepsOrder(h) /\ UNCHANGED queueVars

(***************************************************************************)
(* The page asks, every two seconds: getOrder, and straight to a place     *)
(* where the signature is at hand.  An order that is not there is answered *)
(* without BankID.                                                         *)
(***************************************************************************)
Poll(h, o) ==
    /\ doing[h] = "idle"
    /\ MayAsk(o)
    /\ store' = Swept
    /\ \/ /\ ~Lives(o)
          /\ page' = [page EXCEPT ![o] = "failed"]
          /\ UNCHANGED <<queueVars, callVars, inFlight>>
       \/ /\ Lives(o)
          /\ o \in completed => ~NoPlace
          /\ inFlight' = [inFlight EXCEPT ![o] = h]
          /\ order' = [order EXCEPT ![h] = o]
          /\ \/ o \notin completed /\ doing' = [doing EXCEPT ![h] = "collecting"] /\ UNCHANGED queueVars
             \/ o \in completed /\ doing' = [doing EXCEPT ![h] = "casting"] /\ Reserve(h)
          /\ UNCHANGED page
    /\ UNCHANGED <<voteVars, completed, dropped, bankid, faults>>

(***************************************************************************)
(* BankID's answer to collect.  It gives the signature once; asked again   *)
(* it says the order is not there.                                         *)
(***************************************************************************)
CollectAnswered(h) ==
    LET o == order[h] IN
    /\ doing[h] = "collecting"
    /\ \/ /\ bankid[o] = "pending"
          /\ Answers(h, "pending")
          /\ UNCHANGED <<queueVars, store, completed, bankid>>
       \/ /\ bankid[o] = "signed"
          /\ bankid' = [bankid EXCEPT ![o] = "collected"]
          /\ TakesPlace(h)
       \/ /\ bankid[o] \in {"ended", "collected"}
          /\ Answers(h, "failed")
          /\ Taken(o)
          /\ UNCHANGED <<queueVars, completed, bankid>>
    /\ UNCHANGED <<voteVars, dropped, faults>>

\* BankID's answer is lost or late: pending, although it may have been given.
CollectLost(h) ==
    LET o == order[h] IN
    /\ doing[h] = "collecting"
    /\ faults < MaxFaults
    /\ faults' = faults + 1
    /\ Answers(h, "pending")
    /\ \/ UNCHANGED bankid
       \/ bankid[o] = "signed" /\ bankid' = [bankid EXCEPT ![o] = "collected"]
    /\ UNCHANGED <<queueVars, storeVars, voteVars>>

----------------------------------------------------------------------------
(***************************************************************************)
(* castEncryptedBallot, and the finally of the route.                      *)
(***************************************************************************)
\* The call is over: the order is taken, and the reservation released.
CastEnds(h, what) ==
    /\ Leave(h)
    /\ Taken(order[h])
    /\ Answers(h, what)
    /\ UNCHANGED <<phase, number, cleaned, completed, dropped, bankid>>

\* The check before the verification finds the window closed.
CastRefused(h) ==
    /\ doing[h] = "casting" /\ stage[h] = "reserved"
    /\ phase # "OPEN"
    /\ CastEnds(h, "closed")
    /\ UNCHANGED <<last, recorded, faults>>

\* The verification: the queue's own steps.
Verify(h) ==
    /\ doing[h] = "casting"
    /\ ComesAborted(h) \/ Enter(h) \/ Finish(h)
    /\ UNCHANGED orderVars

\* Flawed: the order is taken although the queue was full.
QueueWasFull_OrderTaken(h) ==
    /\ doing[h] = "casting" /\ stage[h] = "full"
    /\ Leave(h)
    /\ Taken(order[h])
    /\ Answers(h, "queued")
    /\ UNCHANGED <<voteVars, completed, dropped, bankid, faults>>

\* VerificationQueueFull: the order keeps the signature, and the page asks again.
QueueWasFull(h) ==
    /\ doing[h] = "casting" /\ stage[h] = "full"
    /\ Leave(h)
    /\ KeepsOrder(h)
    /\ UNCHANGED <<voteVars, dropped, bankid, faults>>

\* The transaction writes if the phase is OPEN and the number is above the row's.
MayWrite(o) == phase = "OPEN" /\ number[o] > last[SessionOf[o]]

(***************************************************************************)
(* The ballot is verified.  A visitor that has gone gets nothing written;  *)
(* else the transaction writes, refuses, or fails.  What runs between the  *)
(* commit and the finally finds an order whose signature is gone; what     *)
(* runs after finds none: both are told it failed.                         *)
(***************************************************************************)
WriteVote(h) ==
    LET o == order[h] IN
    /\ doing[h] = "casting" /\ stage[h] \in {"verified", "aborted"}
    /\ \/ /\ h \notin gone /\ MayWrite(o)
          /\ recorded' = recorded \cup {o}
          /\ last' = [last EXCEPT ![SessionOf[o]] = number[o]]
          /\ CastEnds(h, "recorded")
          /\ UNCHANGED faults
       \/ /\ h \notin gone /\ ~MayWrite(o)
          /\ CastEnds(h, IF phase = "OPEN" THEN "failed" ELSE "closed")
          /\ UNCHANGED <<recorded, last, faults>>
       \/ /\ h \in gone \/ faults < MaxFaults
          /\ faults' = IF h \in gone THEN faults ELSE faults + 1
          /\ CastEnds(h, "failed")
          /\ UNCHANGED <<recorded, last>>

----------------------------------------------------------------------------
(***************************************************************************)
(* The network, the voter, time, the closing and the validators.           *)
(***************************************************************************)
\* The network takes the answer, or the connection, and the page asks again.
LoseConnection(o) ==
    /\ inFlight[o] # None
    /\ faults < MaxFaults
    /\ faults' = faults + 1
    /\ inFlight' = [inFlight EXCEPT ![o] = None]
    /\ UNCHANGED <<queueVars, storeVars, callVars, voteVars, bankid, page>>

\* The voter cancels or closes the page; nothing is told to the server.
LeavePage(o) ==
    /\ page[o] = "polling"
    /\ page' = [page EXCEPT ![o] = "left"]
    /\ inFlight' = [inFlight EXCEPT ![o] = None]
    /\ UNCHANGED <<queueVars, storeVars, callVars, voteVars, bankid, faults>>

\* The server sees that the connection of a call is closed.
ConnectionClosed(h) ==
    /\ doing[h] = "casting"
    /\ inFlight[order[h]] # h
    /\ Abort(h)
    /\ UNCHANGED orderVars

\* Three minutes have passed for the oldest order.
Expire ==
    /\ Swept # <<>>
    /\ dropped' = dropped \cup {Head(Swept)}
    /\ UNCHANGED <<queueVars, callVars, voteVars, store, completed, bankid, page, inFlight, faults>>

\* Flawed: expired orders lie there until somebody calls.
SweepTimer_OnlyOnCalls == FALSE /\ UNCHANGED vars

\* The timer of thirty seconds.
SweepTimer ==
    /\ store # Swept
    /\ store' = Swept
    /\ UNCHANGED <<queueVars, callVars, voteVars, completed, dropped, bankid, page, inFlight, faults>>

EndVoting ==
    /\ phase = "OPEN"
    /\ phase' = "CLOSED"
    /\ UNCHANGED <<queueVars, storeVars, callVars, number, last, recorded, cleaned, bankid, page,
                   inFlight, faults>>

\* removeOrdersForBallots, at the end of the closing: every order of the election.
ForgetOrders ==
    /\ phase # "OPEN"
    /\ ~cleaned
    /\ cleaned' = TRUE
    /\ store' = <<>>
    /\ dropped' = dropped \cup Range(store)
    /\ UNCHANGED <<queueVars, callVars, phase, number, last, recorded, completed, bankid,
                   page, inFlight, faults>>

Validate(w) ==
    /\ Enter(w) \/ Finish(w)
    /\ UNCHANGED orderVars

ServerStep(h) ==
    \/ CollectAnswered(h) \/ CastRefused(h) \/ Verify(h) \/ QueueWasFull(h)
    \/ WriteVote(h)

Next ==
    \/ \E o \in Orders :
          \/ SignStart(o) \/ PutOrder(o) \/ AtBankId(o) \/ LoseConnection(o) \/ LeavePage(o)
          \/ \E h \in Visitors : Poll(h, o)
    \/ \E h \in Visitors : ServerStep(h) \/ CollectLost(h) \/ ConnectionClosed(h)
    \/ \E w \in Validators : Validate(w)
    \/ Expire \/ SweepTimer \/ EndVoting \/ ForgetOrders

(***************************************************************************)
(* Fairness: the server runs a call on until it has answered (BankID has a *)
(* time limit), a verification ends, and time passes.  Voters, the app,    *)
(* and whoever closes owe nobody a step.                                   *)
(***************************************************************************)
Fairness ==
    /\ \A h \in Visitors : WF_vars(ServerStep(h))
    /\ \A w \in Validators : WF_vars(Finish(w) /\ UNCHANGED orderVars)
    /\ WF_vars(Expire)
    /\ WF_vars(SweepTimer)

Spec == Init /\ [][Next]_vars /\ Fairness

----------------------------------------------------------------------------
(***************************************************************************)
(* Properties                                                              *)
(***************************************************************************)
\* Who has signed does not have to sign again: BankID's answer is with a call
\* or with the order for as long as the page asks, unless the server let the
\* order go (its three minutes, a newer order, the close) or something failed.
SignedIsKept ==
    \A o \in Orders :
        bankid[o] = "collected" /\ page[o] = "polling" /\ o \notin dropped /\ faults = 0
        => \/ o \in completed /\ Lives(o)
           \/ \E h \in Visitors : order[h] = o /\ doing[h] = "casting"

\* "Rösten lades inte" (the vote was not cast) is true, where no answer is lost.
FailedIsTrue == \A o \in Orders : page[o] = "failed" /\ faults = 0 => o \notin recorded

\* It is said after a lost answer too.
FailedIsAlwaysTrue == \A o \in Orders : page[o] = "failed" => o \notin recorded

\* A session holds its limit and the process its own, whatever is polled,
\* replaced or removed meanwhile.
StoreWithinLimits ==
    /\ Len(store) <= MaxOrders
    /\ \A s \in Sessions :
          Cardinality(Range(store) \cap OfSession(s)) <= MaxPerSession

\* What holds of the orders in every state.
OrdersHold == TypeOK /\ SignedIsKept /\ FailedIsTrue /\ StoreWithinLimits

\* No order outlives its election for ever, not one that was stored after the
\* closing had removed the others either.
OrdersAreForgotten == (phase # "OPEN") ~> [](store = <<>>)
=============================================================================
