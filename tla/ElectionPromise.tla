-------------------------- MODULE ElectionPromise --------------------------
(***************************************************************************)
(* What an election promises its voters and its administrator, with one    *)
(* database and no faults: the newest envelope of each voter is recorded   *)
(* while it is open, all of them are counted and every link is erased in   *)
(* one step, and what a closing tells is true when it is told.             *)
(***************************************************************************)
EXTENDS Envelopes

CONSTANTS Closers        \* those who may close it, and are told something

VARIABLES
    stage,       \* "open", "closed" or "cleared"
    recorded,    \* per slot, the newest envelope its voter was told of
    linked,      \* the slots where voter and vote can still be joined
    counted,     \* what the tally will sum, from the moment the link is gone
    told         \* per closing, its answer

promiseVars == <<stage, recorded, linked, counted, told>>

SaysErased    == {"closed", "already_closed"}
SaysNotErased == {"too_early", "untouched", "finding"}
SaysNothing   == {"in_progress", "unknown", "crashed"}

Init ==
    /\ stage = "open"
    /\ recorded = NoRows
    /\ linked = {}
    /\ counted = {}
    /\ told = [c \in Closers |-> "none"]

\* A first vote, or a re-vote with a higher number.
Record(s, e) ==
    /\ stage = "open"
    /\ e.seq > SequenceAt(recorded, s)
    /\ recorded' = [recorded EXCEPT ![s] = e]
    /\ linked' = linked \cup {s}
    /\ UNCHANGED <<stage, counted, told>>

Close ==
    /\ stage = "open"
    /\ stage' = "closed"
    /\ UNCHANGED <<recorded, linked, counted, told>>

Hears(c, sayings) ==
    /\ told[c] = "none"
    /\ \E said \in sayings : told' = [told EXCEPT ![c] = said]

\* Everything is counted and every link erased, all at once. Whoever did it may
\* lose the acknowledgement.
Clear ==
    /\ stage = "closed"
    /\ stage' = "cleared"
    /\ linked' = {}
    /\ counted' = WithUrnIds(recorded)
    /\ UNCHANGED recorded
    /\ told' = told \/ \E c \in Closers : Hears(c, {"unknown"})

Tell(c) ==
    /\ \/ Hears(c, SaysNothing)
       \/ stage = "cleared" /\ Hears(c, SaysErased)
       \/ stage # "cleared" /\ Hears(c, SaysNotErased)
    /\ UNCHANGED <<stage, recorded, linked, counted>>

Next ==
    \/ \E s \in Slots, e \in Envelope : Record(s, e)
    \/ Close
    \/ Clear
    \/ \E c \in Closers : Tell(c)

Spec == Init /\ [][Next]_promiseVars
=============================================================================
