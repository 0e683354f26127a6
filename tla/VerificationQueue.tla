------------------------- MODULE VerificationQueue -------------------------
(***************************************************************************)
(* The queue to the verification of ballots, in the memory of one process. *)
(*                                                                         *)
(* A visitor reserves a place before BankID's answer is used up, and takes *)
(* it over in the queue.  A validator (the check of the envelopes before   *)
(* the closing) has no request: it never reserves and is never refused.    *)
(* Each action is one synchronous block of the event loop.                 *)
(***************************************************************************)
EXTENDS Naturals, Sequences, FiniteSets, SequencesExt

CONSTANTS
    Visitors,     \* requests that verify a ballot for a voter
    Validators,   \* verifications without a request
    MaxRunning,   \* MAX_CONCURRENT_VERIFICATIONS
    MaxWaiting    \* MAX_WAITING_VERIFICATIONS

ASSUME QueueAssumption ==
    /\ IsFiniteSet(Visitors) /\ IsFiniteSet(Validators)
    /\ Visitors \cap Validators = {}
    /\ MaxRunning \in Nat \ {0}
    /\ MaxWaiting \in Nat

VARIABLES
    running,   \* verifications that have a place
    waiting,   \* those that wait for one, in the order they came
    reserved,  \* places held for visitors that have not come to the queue yet
    held,      \* the visitors whose reservation is not released: `held` in its closure
    stage,     \* where each caller is
    gone       \* the visitors whose request.signal is aborted

queueVars == <<running, waiting, reserved, held, stage, gone>>

Callers == Visitors \cup Validators

CallStages == {"out", "reserved", "waiting", "running", "full", "aborted", "verified"}

QueueTypeOK ==
    /\ running \in Nat
    /\ waiting \in Seq(Callers)
    /\ reserved \in Nat
    /\ held \subseteq Visitors
    /\ stage \in [Callers -> CallStages]
    /\ gone \subseteq Visitors

QueueInit ==
    /\ running = 0
    /\ waiting = <<>>
    /\ reserved = 0
    /\ held = {}
    /\ stage = [c \in Callers |-> "out"]
    /\ gone = {}

----------------------------------------------------------------------------
At(name) == {c \in Callers : stage[c] = name}

MovesTo(c, name) == stage' = [stage EXCEPT ![c] = name]

\* VISITOR_CAPACITY.
Capacity == MaxRunning + MaxWaiting

\* Flawed: a reservation is not counted until it comes to the queue.
NoPlace_ReservationsNotCounted == running + Len(waiting) >= Capacity

\* What reserveVerification asks: running, waiting and reserved share the places.
NoPlace == running + Len(waiting) + reserved >= Capacity

Reserve(v) ==
    /\ stage[v] = "out"
    /\ ~NoPlace
    /\ reserved' = reserved + 1
    /\ held' = held \cup {v}
    /\ MovesTo(v, "reserved")
    /\ UNCHANGED <<running, waiting, gone>>

\* Flawed: each call of release counts.
Released_EachTime(c) ==
    /\ held' = held \ {c}
    /\ reserved' = IF c \in Visitors THEN reserved - 1 ELSE reserved

\* release(): may be called any number of times and counts once.
Released(c) ==
    /\ held' = held \ {c}
    /\ reserved' = IF c \in held THEN reserved - 1 ELSE reserved

\* A caller is at the door of inVerificationTurn.
Comes(c) ==
    \/ c \in Visitors /\ stage[c] = "reserved"
    \/ c \in Validators /\ stage[c] = "out"

\* The visitor had gone before the verification came to the queue.
ComesAborted(c) ==
    /\ Comes(c)
    /\ c \in gone
    /\ Released(c)
    /\ MovesTo(c, "aborted")
    /\ UNCHANGED <<running, waiting, gone>>

\* Only a visitor is refused by a queue that is full.
IsRefused(c) == c \in Visitors /\ Len(waiting) >= MaxWaiting

(***************************************************************************)
(* inVerificationTurn: the reservation becomes a place in the same         *)
(* synchronous step, running or waiting.                                   *)
(***************************************************************************)
Enter(c) ==
    /\ Comes(c)
    /\ c \notin gone
    /\ Released(c)
    /\ \/ /\ running < MaxRunning
          /\ running' = running + 1
          /\ MovesTo(c, "running")
          /\ UNCHANGED waiting
       \/ /\ running >= MaxRunning
          /\ ~IsRefused(c)
          /\ waiting' = Append(waiting, c)
          /\ MovesTo(c, "waiting")
          /\ UNCHANGED running
       \/ /\ running >= MaxRunning
          /\ IsRefused(c)
          /\ MovesTo(c, "full")
          /\ UNCHANGED <<running, waiting>>
    /\ UNCHANGED gone

\* Flawed: who waits stays in the queue when the visitor goes.
LeavesQueue_Stays(c) == UNCHANGED waiting

\* waiting.splice: those behind move up.
LeavesQueue(c) ==
    \E i \in DOMAIN waiting : waiting[i] = c /\ waiting' = RemoveAt(waiting, i)

(***************************************************************************)
(* request.signal is aborted.  One who waits leaves the queue at once; one *)
(* who runs is stopped at its next step.                                   *)
(***************************************************************************)
Abort(v) ==
    /\ stage[v] # "out"
    /\ v \notin gone
    /\ gone' = gone \cup {v}
    /\ \/ stage[v] = "waiting" /\ LeavesQueue(v) /\ MovesTo(v, "aborted")
       \/ stage[v] # "waiting" /\ UNCHANGED <<waiting, stage>>
    /\ UNCHANGED <<running, reserved, held>>

\* Flawed: the place is returned, and who waits is not called.
HandOver_NobodyCalled(c, result) ==
    /\ running' = running - 1
    /\ MovesTo(c, result)
    /\ UNCHANGED waiting

\* The place goes straight to the first that waits.
HandOver(c, result) ==
    \/ /\ waiting # <<>>
       /\ waiting' = Tail(waiting)
       /\ stage' = [stage EXCEPT ![c] = result, ![Head(waiting)] = "running"]
       /\ UNCHANGED running
    \/ /\ waiting = <<>>
       /\ running' = running - 1
       /\ MovesTo(c, result)
       /\ UNCHANGED waiting

\* The task ends, or throws at a step after its visitor has gone; `finally`.
Finish(c) ==
    /\ stage[c] = "running"
    /\ \/ HandOver(c, IF c \in Visitors THEN "verified" ELSE "out")
       \/ c \in gone /\ HandOver(c, "aborted")
    /\ UNCHANGED <<reserved, held, gone>>

(***************************************************************************)
(* The caller is done, or left before it came to the queue.  Who reserved  *)
(* releases in `finally`, on every way out.  A new request is not aborted. *)
(***************************************************************************)
Leave(c) ==
    /\ stage[c] \in {"reserved", "full", "aborted", "verified"}
    /\ Released(c)
    /\ MovesTo(c, "out")
    /\ gone' = gone \ {c}
    /\ UNCHANGED <<running, waiting>>

QueueNext ==
    \/ \E v \in Visitors : Reserve(v) \/ Abort(v)
    \/ \E c \in Callers : ComesAborted(c) \/ Enter(c) \/ Finish(c) \/ Leave(c)

\* What the composition with the signing orders must follow, step by step.
QueueSpec == QueueInit /\ [][QueueNext]_queueVars

----------------------------------------------------------------------------
(***************************************************************************)
(* Properties                                                              *)
(***************************************************************************)
\* The three counters speak of the callers: no way out of the queue, answer,
\* abort or exception, leaves a place behind or returns one twice.  Nobody
\* waits while a place is free, or twice.
CountersAreTrue ==
    /\ running = Cardinality(At("running"))
    /\ reserved = Cardinality(held)
    /\ At("reserved") = held
    /\ Range(waiting) = At("waiting") /\ IsInjective(waiting)
    /\ running <= MaxRunning
    /\ waiting # <<>> => running = MaxRunning

\* What a visitor was promised with a reservation.
Promised == (At("reserved") \cup At("waiting") \cup At("running")) \cap Visitors

\* Visitors never have more places than there are, reserved ones included.
VisitorsFit == Cardinality(Promised) <= Capacity

\* What holds of the queue in every state.
QueueHolds == CountersAreTrue /\ VisitorsFit

\* A visitor with a reservation is only refused where a validator took a place:
\* "den som reserverar kan inte" (who reserves cannot be told wrong).
RefusedForAValidator ==
    \A v \in Visitors : stage[v] = "reserved" /\ stage'[v] = "full"
        => \E w \in Validators : stage[w] \in {"waiting", "running"}

RefusedOnlyForValidators == [][RefusedForAValidator]_queueVars
=============================================================================
