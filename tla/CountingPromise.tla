-------------------------- MODULE CountingPromise --------------------------
(***************************************************************************)
(* What the tally promises, with one database and no faults: a ballot is   *)
(* counted once, when enough trustees have contributed, and the election   *)
(* is tallied when every ballot is counted.                                *)
(***************************************************************************)
EXTENDS Naturals, FiniteSets

CONSTANTS Ballots, Trustees, Threshold

VARIABLES
    phase,          \* of the election, from VALIDATED
    contributed,    \* per ballot, the trustees who have contributed
    counted         \* the ballots with counters

promiseVars == <<phase, contributed, counted>>

Init ==
    /\ phase = "VALIDATED"
    /\ contributed = [b \in Ballots |-> {}]
    /\ counted = {}

\* The closing erases the link; nothing is decrypted before.
Strip ==
    /\ phase = "VALIDATED"
    /\ phase' = "STRIPPED"
    /\ UNCHANGED <<contributed, counted>>

Contribute(b, t) ==
    /\ phase # "VALIDATED"
    /\ t \notin contributed[b]
    /\ contributed' = [contributed EXCEPT ![b] = @ \cup {t}]
    /\ UNCHANGED <<phase, counted>>

Count(b) ==
    /\ phase = "STRIPPED"
    /\ b \notin counted
    /\ Cardinality(contributed[b]) >= Threshold
    /\ counted' = counted \cup {b}
    /\ UNCHANGED <<phase, contributed>>

Tally ==
    /\ phase = "STRIPPED"
    /\ counted = Ballots
    /\ phase' = "TALLIED"
    /\ UNCHANGED <<contributed, counted>>

Certify ==
    /\ phase = "TALLIED"
    /\ phase' = "CERTIFIED"
    /\ UNCHANGED <<contributed, counted>>

Next ==
    \/ Strip \/ Tally \/ Certify
    \/ \E b \in Ballots : Count(b) \/ \E t \in Trustees : Contribute(b, t)

Spec == Init /\ [][Next]_promiseVars
=============================================================================
