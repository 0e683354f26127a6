------------------------- MODULE SigningOrders_proofs -------------------------
(***************************************************************************)
(* The queue to the verification, for any number of visitors, validators   *)
(* and places: its counters are true, and who reserved a place gets one.   *)
(* Then the orders whose calls stand in it, for any number of voters,      *)
(* orders and faults; and BankID's own, with the calls that are repeated.  *)
(***************************************************************************)
EXTENDS SigningOrders, BankIdOrders, WaitingLines

\* What the steps rest on.
QueueIInv == QueueTypeOK /\ QueueHolds

LEMMA AtIsFinite ==
    ASSUME NEW name
    PROVE  IsFiniteSet(At(name)) /\ Cardinality(At(name)) \in Nat
<1>1. IsFiniteSet(Callers)
    BY QueueAssumption, FS_Union DEF Callers
<1>2. At(name) \in SUBSET Callers
    BY DEF At
<1> QED BY <1>1, <1>2, FS_Subset, FS_CardinalityType

LEMMA PromisedIsFinite == IsFiniteSet(Promised) /\ Cardinality(Promised) \in Nat
<1>1. Promised \in SUBSET Visitors
    BY DEF Promised
<1> QED BY <1>1, QueueAssumption, FS_Subset, FS_CardinalityType

\* Where nobody new is promised anything, the visitors fit as before.
LEMMA FewerFit ==
    ASSUME VisitorsFit, Promised' \subseteq Promised
    PROVE  VisitorsFit'
<1>1. Cardinality(Promised') <= Cardinality(Promised) /\ Cardinality(Promised') \in Nat
    BY PromisedIsFinite, FS_Subset, FS_CardinalityType
<1>2. Cardinality(Promised) <= Capacity /\ Capacity \in Nat
    BY QueueAssumption DEF VisitorsFit, Capacity
<1>3. Cardinality(Promised') <= Capacity
    BY <1>1, <1>2, PromisedIsFinite
<1> QED BY <1>3 DEF VisitorsFit, Capacity

LEMMA QueueBegins == QueueInit => QueueIInv
<1> SUFFICES ASSUME QueueInit PROVE QueueIInv
    OBVIOUS
<1> USE QueueAssumption
<1>1. QueueTypeOK
    BY DEF QueueInit, QueueTypeOK, CallStages
<1>2. /\ At("running") = {} /\ At("reserved") = {} /\ At("waiting") = {} /\ held = {}
      /\ Range(waiting) = {} /\ IsInjective(waiting) /\ waiting = <<>>
      /\ running = 0 /\ reserved = 0
    BY DEF QueueInit, At, Range, IsInjective
<1>3. Cardinality({}) = 0
    BY FS_EmptySet
<1>4. CountersAreTrue
  <2>1. running = Cardinality(At("running")) /\ reserved = Cardinality(held)
    BY <1>2, <1>3
  <2>2. running <= MaxRunning
    BY <1>2
  <2> QED BY <1>2, <2>1, <2>2 DEF CountersAreTrue
<1>5. Promised = {}
    BY <1>2 DEF Promised
<1>6. VisitorsFit
    BY <1>3, <1>5 DEF VisitorsFit, Capacity
<1> QED BY <1>1, <1>4, <1>6 DEF QueueIInv, QueueHolds

\* Those that were promised a place are fewer than the places that are counted.
LEMMA PromisedIsCounted ==
    ASSUME QueueIInv
    PROVE  Cardinality(Promised) <= running + Len(waiting) + reserved
<1> DEFINE all == (At("reserved") \cup At("waiting")) \cup At("running")
<1>1. /\ Cardinality(At("running")) = running /\ Cardinality(At("waiting")) = Len(waiting)
      /\ Cardinality(At("reserved")) = reserved
    BY LengthIsCount DEF QueueIInv, QueueTypeOK, QueueHolds, CountersAreTrue
<1>2. /\ At("reserved") \cap At("waiting") = {}
      /\ (At("reserved") \cup At("waiting")) \cap At("running") = {}
    BY DEF At
<1>3. /\ IsFiniteSet(At("reserved") \cup At("waiting"))
      /\ Cardinality(At("reserved") \cup At("waiting")) = reserved + Len(waiting)
    BY <1>1, <1>2, AtIsFinite, DisjointCount
<1>4. IsFiniteSet(all) /\ Cardinality(all) = reserved + Len(waiting) + running
    BY <1>1, <1>2, <1>3, AtIsFinite, DisjointCount
<1>5. Promised \in SUBSET all
    BY DEF Promised
<1>6. Cardinality(Promised) <= Cardinality(all)
    BY <1>4, <1>5, FS_Subset
<1>7. reserved \in Nat /\ Len(waiting) \in Nat /\ running \in Nat
    BY <1>1, AtIsFinite
<1> HIDE DEF all
<1> QED BY <1>4, <1>6, <1>7

\* A place is only held for a new visitor while there is one to hold.
LEMMA ReserveKeeps ==
    ASSUME QueueIInv, NEW v \in Visitors, Reserve(v)
    PROVE  QueueIInv'
<1>0. /\ QueueTypeOK /\ CountersAreTrue /\ VisitorsFit
      /\ v \in Callers /\ stage[v] = "out" /\ v \notin held /\ v \notin Promised
    BY DEF QueueIInv, QueueHolds, Reserve, CountersAreTrue, At, Callers, Promised
<1>1. QueueTypeOK'
    BY <1>0 DEF QueueTypeOK, Reserve, MovesTo, CallStages, Callers
<1>2. /\ At("running")' = At("running") /\ At("waiting")' = At("waiting")
      /\ At("reserved")' = At("reserved") \cup {v}
    BY <1>0 DEF At, Reserve, MovesTo, QueueTypeOK
<1>3. Cardinality(held') = Cardinality(held) + 1
    BY <1>0, AtIsFinite, FS_AddElement DEF Reserve, CountersAreTrue
<1>4. CountersAreTrue'
    BY <1>0, <1>2, <1>3 DEF CountersAreTrue, Reserve
<1>5. Promised' = Promised \cup {v}
    BY <1>2 DEF Promised
<1>6. Cardinality(Promised') = Cardinality(Promised) + 1
    BY <1>0, <1>5, PromisedIsFinite, FS_AddElement
<1>7. Cardinality(Promised) < Capacity
  <2>1. running + Len(waiting) + reserved < Capacity
    BY <1>0, QueueAssumption DEF Reserve, NoPlace, Capacity, QueueTypeOK
  <2>2. running + Len(waiting) + reserved \in Nat /\ Capacity \in Nat
    BY <1>0, QueueAssumption DEF Capacity, QueueTypeOK
  <2> QED BY <2>1, <2>2, PromisedIsCounted, PromisedIsFinite
<1>8. VisitorsFit'
    BY <1>6, <1>7, PromisedIsFinite, QueueAssumption DEF VisitorsFit, Capacity
<1> QED BY <1>1, <1>4, <1>8 DEF QueueIInv, QueueHolds

\* What the release of a reservation does, wherever its visitor goes.
LEMMA ReleasedCounts ==
    ASSUME QueueIInv, NEW c \in Callers, Released(c)
    PROVE  /\ held' \subseteq Visitors /\ reserved' \in Nat
           /\ reserved' = Cardinality(held')
           /\ held' = held \ {c}
<1>1. held \subseteq Visitors /\ IsFiniteSet(held) /\ reserved = Cardinality(held)
    BY AtIsFinite DEF QueueIInv, QueueTypeOK, QueueHolds, CountersAreTrue
<1>2. /\ IsFiniteSet(held \ {c})
      /\ Cardinality(held \ {c}) =
            IF c \in held THEN Cardinality(held) - 1 ELSE Cardinality(held)
    BY <1>1, FS_RemoveElement
<1> QED BY <1>1, <1>2, FS_CardinalityType DEF Released

\* A caller enters: it runs, waits in line, or finds the line full.
LEMMA EnterKeeps ==
    ASSUME QueueIInv, NEW c \in Callers, Enter(c)
    PROVE  QueueIInv'
<1> USE QueueAssumption
<1>0. /\ QueueTypeOK /\ CountersAreTrue /\ VisitorsFit
      /\ running \in Nat /\ waiting \in Seq(Callers) /\ Len(waiting) \in Nat
    BY DEF QueueIInv, QueueHolds, QueueTypeOK
<1>1. /\ held' \subseteq Visitors /\ reserved' \in Nat /\ reserved' = Cardinality(held')
      /\ held' = held \ {c}
    BY ReleasedCounts DEF Enter
<1>2. /\ stage[c] \in {"out", "reserved"} /\ UNCHANGED gone
      /\ c \in Visitors => c \in Promised
      /\ c \notin At("running") /\ c \notin At("waiting") /\ c \notin Range(waiting)
    BY <1>0 DEF Enter, Comes, Promised, At, CountersAreTrue
<1>3. CASE running < MaxRunning /\ running' = running + 1 /\ MovesTo(c, "running") /\ UNCHANGED waiting
  <2>1. /\ At("running")' = At("running") \cup {c} /\ At("waiting")' = At("waiting")
        /\ At("reserved")' = At("reserved") \ {c}
    BY <1>0, <1>2, <1>3 DEF At, MovesTo, QueueTypeOK
  <2>2. Cardinality(At("running")') = running + 1
    BY <1>0, <1>2, <2>1, AtIsFinite, FS_AddElement DEF CountersAreTrue
  <2>3. waiting = <<>>
    BY <1>0, <1>3 DEF CountersAreTrue
  <2>4. QueueTypeOK'
    BY <1>0, <1>1, <1>2, <1>3 DEF QueueTypeOK, MovesTo, CallStages
  <2>5. running' <= MaxRunning
    BY <1>0, <1>3
  <2>6. CountersAreTrue'
    BY <1>0, <1>1, <1>3, <2>1, <2>2, <2>3, <2>5 DEF CountersAreTrue
  <2>7. Promised' \subseteq Promised
    BY <1>2, <2>1 DEF Promised
  <2> QED BY <1>0, <2>4, <2>6, <2>7, FewerFit DEF QueueIInv, QueueHolds
<1>4. CASE /\ running >= MaxRunning /\ ~IsRefused(c)
           /\ waiting' = Append(waiting, c) /\ MovesTo(c, "waiting") /\ UNCHANGED running
  <2>1. /\ At("running")' = At("running") /\ At("waiting")' = At("waiting") \cup {c}
        /\ At("reserved")' = At("reserved") \ {c}
    BY <1>0, <1>2, <1>4 DEF At, MovesTo, QueueTypeOK
  <2>2. /\ waiting' \in Seq(Callers) /\ Range(waiting') = Range(waiting) \cup {c}
        /\ IsInjective(waiting')
    BY <1>0, <1>2, <1>4, Joins DEF CountersAreTrue
  <2>3. running = MaxRunning
    BY <1>0, <1>4 DEF CountersAreTrue
  <2>4. QueueTypeOK'
    BY <1>0, <1>1, <1>2, <1>4, <2>2 DEF QueueTypeOK, MovesTo, CallStages
  <2>5. CountersAreTrue'
    BY <1>0, <1>1, <1>4, <2>1, <2>2, <2>3 DEF CountersAreTrue
  <2>6. Promised' \subseteq Promised
    BY <1>2, <2>1 DEF Promised
  <2> QED BY <1>0, <2>4, <2>5, <2>6, FewerFit DEF QueueIInv, QueueHolds
<1>5. CASE running >= MaxRunning /\ IsRefused(c) /\ MovesTo(c, "full") /\ UNCHANGED <<running, waiting>>
  <2>1. /\ At("running")' = At("running") /\ At("waiting")' = At("waiting")
        /\ At("reserved")' = At("reserved") \ {c}
    BY <1>0, <1>2, <1>5 DEF At, MovesTo, QueueTypeOK
  <2>2. QueueTypeOK'
    BY <1>0, <1>1, <1>2, <1>5 DEF QueueTypeOK, MovesTo, CallStages
  <2>3. CountersAreTrue'
    BY <1>0, <1>1, <1>5, <2>1 DEF CountersAreTrue
  <2>4. Promised' \subseteq Promised
    BY <2>1 DEF Promised
  <2> QED BY <1>0, <2>2, <2>3, <2>4, FewerFit DEF QueueIInv, QueueHolds
<1> QED BY <1>3, <1>4, <1>5 DEF Enter

\* The visitor had gone before it came: its reservation is released.
LEMMA ComesAbortedKeeps ==
    ASSUME QueueIInv, NEW c \in Callers, ComesAborted(c)
    PROVE  QueueIInv'
<1>0. QueueTypeOK /\ CountersAreTrue /\ VisitorsFit
    BY DEF QueueIInv, QueueHolds
<1>1. /\ held' \subseteq Visitors /\ reserved' \in Nat /\ reserved' = Cardinality(held')
      /\ held' = held \ {c}
    BY ReleasedCounts DEF ComesAborted
<1>2. stage[c] \in {"out", "reserved"}
    BY DEF ComesAborted, Comes
<1>3. /\ At("running")' = At("running") /\ At("waiting")' = At("waiting")
      /\ At("reserved")' = At("reserved") \ {c}
    BY <1>0, <1>2 DEF At, ComesAborted, MovesTo, QueueTypeOK
<1>4. QueueTypeOK'
    BY <1>0, <1>1 DEF QueueTypeOK, ComesAborted, MovesTo, CallStages
<1>5. CountersAreTrue'
    BY <1>0, <1>1, <1>3 DEF CountersAreTrue, ComesAborted
<1>6. Promised' \subseteq Promised
    BY <1>3 DEF Promised
<1> QED BY <1>0, <1>4, <1>5, <1>6, FewerFit DEF QueueIInv, QueueHolds

\* A visitor goes: if it waits, the line closes up behind it.
LEMMA AbortKeeps ==
    ASSUME QueueIInv, NEW v \in Visitors, Abort(v)
    PROVE  QueueIInv'
<1>0. /\ QueueTypeOK /\ CountersAreTrue /\ VisitorsFit
      /\ v \in Callers /\ gone' \subseteq Visitors
      /\ UNCHANGED <<running, reserved, held>>
    BY DEF QueueIInv, QueueHolds, QueueTypeOK, Abort, Callers
<1>1. CASE stage[v] = "waiting" /\ LeavesQueue(v) /\ MovesTo(v, "aborted")
  <2>1. PICK p \in DOMAIN waiting : waiting[p] = v /\ waiting' = RemoveAt(waiting, p)
    BY <1>1 DEF LeavesQueue
  <2>2. waiting \in Seq(Callers) /\ IsInjective(waiting)
    BY <1>0 DEF QueueTypeOK, CountersAreTrue
  <2>3. /\ waiting' \in Seq(Callers)
        /\ Range(waiting') = Range(waiting) \ {v} /\ IsInjective(waiting')
    BY <2>1, <2>2, LeavesFrom
  <2>4. /\ At("running")' = At("running") /\ At("waiting")' = At("waiting") \ {v}
        /\ At("reserved")' = At("reserved")
    BY <1>0, <1>1 DEF At, MovesTo, QueueTypeOK
  <2>5. waiting # <<>>
    BY <2>1, <2>2
  <2>6. QueueTypeOK'
    BY <1>0, <1>1, <2>3 DEF QueueTypeOK, MovesTo, CallStages
  <2>7. CountersAreTrue'
    BY <1>0, <2>3, <2>4, <2>5 DEF CountersAreTrue
  <2>8. Promised' \subseteq Promised
    BY <2>4 DEF Promised
  <2> QED BY <1>0, <2>6, <2>7, <2>8, FewerFit DEF QueueIInv, QueueHolds
<1>2. CASE UNCHANGED <<waiting, stage>>
  <2>1. QueueTypeOK'
    BY <1>0, <1>2 DEF QueueTypeOK
  <2>2. /\ At("running")' = At("running") /\ At("waiting")' = At("waiting")
        /\ At("reserved")' = At("reserved")
    BY <1>2 DEF At
  <2>3. CountersAreTrue'
    BY <1>0, <1>2, <2>2 DEF CountersAreTrue
  <2>4. Promised' \subseteq Promised
    BY <2>2 DEF Promised
  <2> QED BY <1>0, <2>1, <2>3, <2>4, FewerFit DEF QueueIInv, QueueHolds
<1> QED BY <1>1, <1>2 DEF Abort

\* The place is returned, or goes on to the first that waits.
LEMMA HandOverKeeps ==
    ASSUME QueueIInv, NEW c \in Callers, stage[c] = "running",
           NEW result \in {"verified", "out", "aborted"},
           HandOver(c, result), UNCHANGED <<reserved, held, gone>>
    PROVE  QueueIInv'
<1> USE QueueAssumption
<1>0. /\ QueueTypeOK /\ CountersAreTrue /\ VisitorsFit
      /\ c \in At("running") /\ running \in Nat /\ waiting \in Seq(Callers)
      /\ running = Cardinality(At("running"))
      /\ result \in CallStages
    BY DEF QueueIInv, QueueHolds, QueueTypeOK, CountersAreTrue, At, CallStages
<1>1. /\ IsFiniteSet(At("running") \ {c})
      /\ Cardinality(At("running") \ {c}) = running - 1
      /\ running - 1 \in Nat
  <2>1. IsFiniteSet(At("running"))
    BY AtIsFinite
  <2>2. /\ IsFiniteSet(At("running") \ {c})
        /\ Cardinality(At("running") \ {c}) = Cardinality(At("running")) - 1
    BY <1>0, <2>1, FS_RemoveElement
  <2>3. Cardinality(At("running") \ {c}) \in Nat
    BY <2>2, FS_CardinalityType
  <2> HIDE DEF At
  <2> QED BY <1>0, <2>2, <2>3
<1>2. CASE /\ waiting # <<>> /\ waiting' = Tail(waiting) /\ UNCHANGED running
           /\ stage' = [stage EXCEPT ![c] = result, ![Head(waiting)] = "running"]
  <2> DEFINE called == Head(waiting)
  <2>1. /\ called \in Callers /\ called \in Range(waiting)
        /\ waiting' \in Seq(Callers)
        /\ Range(waiting') = Range(waiting) \ {called} /\ IsInjective(waiting')
    BY <1>0, <1>2, IsCalled DEF CountersAreTrue
  <2> HIDE DEF called
  <2>2. called \in At("waiting") /\ stage[called] = "waiting" /\ called # c
    BY <1>0, <2>1 DEF CountersAreTrue, At
  <2>3. stage' = [stage EXCEPT ![c] = result, ![called] = "running"]
    BY <1>2 DEF called
  <2>4. /\ At("running")' = (At("running") \ {c}) \cup {called}
        /\ At("waiting")' = At("waiting") \ {called}
        /\ At("reserved")' = At("reserved")
        /\ called \notin At("running") \ {c}
    BY <1>0, <2>1, <2>2, <2>3 DEF At, QueueTypeOK
  <2>5. Cardinality(At("running")') = running
    <3>1. Cardinality((At("running") \ {c}) \cup {called}) = (running - 1) + 1
        BY <1>1, <2>4, FS_AddElement
    <3>2. (running - 1) + 1 = running
        BY <1>0
    <3> HIDE DEF At
    <3> QED BY <3>1, <3>2, <2>4
  <2>6. QueueTypeOK'
    BY <1>0, <1>2, <2>1, <2>3 DEF QueueTypeOK, CallStages
  <2>7. running = MaxRunning /\ Range(waiting') = At("waiting")'
    BY <1>0, <1>2, <2>1, <2>4 DEF CountersAreTrue
  <2>8. CountersAreTrue'
    BY <1>0, <1>2, <2>1, <2>4, <2>5, <2>7 DEF CountersAreTrue
  <2>9. Promised' \subseteq Promised
    BY <2>2, <2>4 DEF Promised
  <2> QED BY <1>0, <2>6, <2>8, <2>9, FewerFit DEF QueueIInv, QueueHolds
<1>3. CASE waiting = <<>> /\ running' = running - 1 /\ MovesTo(c, result) /\ UNCHANGED waiting
  <2>1. /\ At("running")' = At("running") \ {c} /\ At("waiting")' = At("waiting")
        /\ At("reserved")' = At("reserved")
    BY <1>0, <1>3 DEF At, MovesTo, QueueTypeOK
  <2>2. QueueTypeOK'
    BY <1>0, <1>1, <1>3 DEF QueueTypeOK, MovesTo
  <2>3. running' <= MaxRunning
    BY <1>0, <1>3 DEF CountersAreTrue
  <2>4. CountersAreTrue'
    BY <1>0, <1>1, <1>3, <2>1, <2>3 DEF CountersAreTrue
  <2>5. Promised' \subseteq Promised
    BY <2>1 DEF Promised
  <2> QED BY <1>0, <2>2, <2>4, <2>5, FewerFit DEF QueueIInv, QueueHolds
<1> QED BY <1>2, <1>3 DEF HandOver

LEMMA FinishKeeps ==
    ASSUME QueueIInv, NEW c \in Callers, Finish(c)
    PROVE  QueueIInv'
<1>1. stage[c] = "running" /\ UNCHANGED <<reserved, held, gone>>
    BY DEF Finish
<1>2. CASE HandOver(c, IF c \in Visitors THEN "verified" ELSE "out")
  <2>1. CASE c \in Visitors
    BY <1>1, <1>2, <2>1, HandOverKeeps
  <2>2. CASE c \notin Visitors
    BY <1>1, <1>2, <2>2, HandOverKeeps
  <2> QED BY <2>1, <2>2
<1>3. CASE HandOver(c, "aborted")
    BY <1>1, <1>3, HandOverKeeps
<1> QED BY <1>2, <1>3 DEF Finish

\* The caller is done, and releases whatever it still held.
LEMMA LeaveKeeps ==
    ASSUME QueueIInv, NEW c \in Callers, Leave(c)
    PROVE  QueueIInv'
<1>0. QueueTypeOK /\ CountersAreTrue /\ VisitorsFit
    BY DEF QueueIInv, QueueHolds
<1>1. /\ held' \subseteq Visitors /\ reserved' \in Nat /\ reserved' = Cardinality(held')
      /\ held' = held \ {c}
    BY ReleasedCounts DEF Leave
<1>2. /\ At("running")' = At("running") /\ At("waiting")' = At("waiting")
      /\ At("reserved")' = At("reserved") \ {c}
    BY <1>0 DEF At, Leave, MovesTo, QueueTypeOK
<1>3. QueueTypeOK'
    BY <1>0, <1>1 DEF QueueTypeOK, Leave, MovesTo, CallStages
<1>4. CountersAreTrue'
    BY <1>0, <1>1, <1>2 DEF CountersAreTrue, Leave
<1>5. Promised' \subseteq Promised
    BY <1>2 DEF Promised
<1> QED BY <1>0, <1>3, <1>4, <1>5, FewerFit DEF QueueIInv, QueueHolds

LEMMA QueueKeeps ==
    ASSUME QueueIInv, [QueueNext]_queueVars
    PROVE  QueueIInv'
<1>1. CASE UNCHANGED queueVars
    BY <1>1
    DEF QueueIInv, QueueTypeOK, QueueHolds, CountersAreTrue, VisitorsFit, Promised, At, queueVars
<1>2. ASSUME NEW v \in Visitors, Reserve(v) \/ Abort(v)
      PROVE  QueueIInv'
    BY <1>2, ReserveKeeps, AbortKeeps
<1>3. ASSUME NEW c \in Callers, ComesAborted(c) \/ Enter(c) \/ Finish(c) \/ Leave(c)
      PROVE  QueueIInv'
    BY <1>3, ComesAbortedKeeps, EnterKeeps, FinishKeeps, LeaveKeeps
<1> QED BY <1>1, <1>2, <1>3 DEF QueueNext

LEMMA QueueInvariant == QueueSpec => []QueueIInv
BY QueueBegins, QueueKeeps, PTL DEF QueueSpec

----------------------------------------------------------------------------
\* However many visitors reserve, come, go or throw: the three counters are those
\* of the callers, no place is lost, and visitors hold no more than there are.
THEOREM QueueAlwaysHolds == QueueSpec => []QueueHolds
<1>1. QueueIInv => QueueHolds
    BY DEF QueueIInv
<1> QED BY <1>1, QueueInvariant, PTL

\* Where only visitors run and wait, one that reserved finds room in the line: all
\* the places would be taken, and its own is one of them.
LEMMA RoomForTheReserved ==
    ASSUME QueueIInv, NEW v \in Visitors, stage[v] = "reserved",
           running >= MaxRunning, Len(waiting) >= MaxWaiting
    PROVE  \E w \in Validators : stage[w] \in {"waiting", "running"}
<1> SUFFICES ASSUME \A w \in Validators : stage[w] \notin {"waiting", "running"}
             PROVE  FALSE
    OBVIOUS
<1> DEFINE turns == At("running") \cup At("waiting")
           all == turns \cup At("reserved")
<1>1. /\ Cardinality(At("running")) = running /\ Cardinality(At("waiting")) = Len(waiting)
    BY LengthIsCount DEF QueueIInv, QueueTypeOK, QueueHolds, CountersAreTrue
<1>2. /\ At("running") \cap At("waiting") = {}
      /\ turns \cap At("reserved") = {}
    BY DEF At
<1>3. IsFiniteSet(turns) /\ Cardinality(turns) = running + Len(waiting)
    BY <1>1, <1>2, AtIsFinite, DisjointCount
<1>4. IsFiniteSet(all) /\ Cardinality(all) = running + Len(waiting) + Cardinality(At("reserved"))
    BY <1>2, <1>3, AtIsFinite, DisjointCount
<1>5. all = Promised
  <2>1. At("running") \subseteq Visitors /\ At("waiting") \subseteq Visitors
    BY DEF At, Callers
  <2>2. At("reserved") \subseteq Visitors
    BY DEF QueueIInv, QueueTypeOK, QueueHolds, CountersAreTrue
  <2> QED BY <2>1, <2>2 DEF Promised
<1>6. Cardinality(At("reserved")) \in Nat /\ Cardinality(At("reserved")) # 0
  <2>1. v \in At("reserved")
    BY DEF At, Callers
  <2> QED BY <2>1, AtIsFinite, FS_EmptySet
<1>7. Cardinality(Promised) <= MaxRunning + MaxWaiting
    BY DEF QueueIInv, QueueHolds, VisitorsFit, Capacity
<1>8. running \in Nat /\ Len(waiting) \in Nat
    BY DEF QueueIInv, QueueTypeOK
<1> HIDE DEF all, turns
<1> QED BY <1>4, <1>5, <1>6, <1>7, <1>8, QueueAssumption

\* A visitor that reserved is only told that the queue is full where a validator,
\* which never reserves, runs or waits in it.
THEOREM RefusedOnlyForOthers == QueueSpec => RefusedOnlyForValidators
<1>1. ASSUME QueueIInv, QueueNext, NEW v \in Visitors,
             stage[v] = "reserved", stage'[v] = "full"
      PROVE  \E w \in Validators : stage[w] \in {"waiting", "running"}
  <2>0. stage \in [Callers -> CallStages] /\ v \in Callers /\ waiting \in Seq(Callers)
    BY <1>1 DEF QueueIInv, QueueTypeOK, Callers
  <2>1. ASSUME NEW u \in Visitors, Reserve(u) \/ Abort(u) PROVE FALSE
    BY <1>1, <2>0, <2>1 DEF Reserve, Abort, MovesTo
  <2>2. ASSUME NEW c \in Callers, ComesAborted(c) \/ Leave(c) PROVE FALSE
    BY <1>1, <2>0, <2>2 DEF ComesAborted, Leave, MovesTo
  <2>3. ASSUME NEW c \in Callers, Finish(c) PROVE FALSE
    <3>1. waiting # <<>> => Head(waiting) \in Callers
        BY <2>0
    <3> QED BY <1>1, <2>0, <2>3, <3>1 DEF Finish, HandOver, MovesTo
  <2>4. ASSUME NEW c \in Callers, Enter(c)
        PROVE  running >= MaxRunning /\ Len(waiting) >= MaxWaiting
    BY <1>1, <2>0, <2>4 DEF Enter, MovesTo, IsRefused
  <2>5. running >= MaxRunning /\ Len(waiting) >= MaxWaiting
    BY <1>1, <2>1, <2>2, <2>3, <2>4 DEF QueueNext
  <2> QED BY <1>1, <2>5, RoomForTheReserved
<1>2. QueueIInv /\ [QueueNext]_queueVars => [RefusedForAValidator]_queueVars
    BY <1>1 DEF RefusedForAValidator
<1> QED BY <1>2, QueueInvariant, PTL DEF QueueSpec, RefusedOnlyForValidators

----------------------------------------------------------------------------
(***************************************************************************)
(* The orders that are kept of those in a line.                            *)
(***************************************************************************)
\* What Kept computes, place by place.
KeepsUpTo(f, line, these, last0) ==
    f = [n \in 0..last0 |->
            IF n = 0 THEN <<>>
            ELSE IF line[n] \in these THEN Append(f[n - 1], line[n]) ELSE f[n - 1]]

LEMMA KeptIsThere ==
    ASSUME NEW line, NEW these, NEW len \in Nat
    PROVE  \E f : KeepsUpTo(f, line, these, len)
<1> DEFINE Bad == {n \in Nat : ~ \E f : KeepsUpTo(f, line, these, n)}
<1> SUFFICES ASSUME Bad # {} PROVE FALSE
    OBVIOUS
<1>1. PICK n \in Bad : \A m \in Bad : n <= m
    BY Smallest
<1>2. n # 0
  <2> SUFFICES ASSUME n = 0 PROVE FALSE
    OBVIOUS
  <2> DEFINE f == [i \in 0..0 |-> <<>>]
  <2>1. KeepsUpTo(f, line, these, 0)
    BY DEF KeepsUpTo
  <2> HIDE DEF f
  <2> QED BY <2>1
<1>3. n - 1 \in Nat /\ n - 1 \notin Bad
    BY <1>1, <1>2
<1>4. PICK f : KeepsUpTo(f, line, these, n - 1)
    BY <1>3
<1> DEFINE g == [i \in 0..n |-> IF i < n THEN f[i]
                                ELSE IF line[n] \in these THEN Append(f[n - 1], line[n])
                                ELSE f[n - 1]]
<1>5. KeepsUpTo(g, line, these, n)
  <2>1. \A i \in 0..n - 1 : f[i] = IF i = 0 THEN <<>>
            ELSE IF line[i] \in these THEN Append(f[i - 1], line[i]) ELSE f[i - 1]
    BY <1>3, <1>4 DEF KeepsUpTo
  <2>2. ASSUME NEW i \in 0..n
        PROVE  g[i] = IF i = 0 THEN <<>>
            ELSE IF line[i] \in these THEN Append(g[i - 1], line[i]) ELSE g[i - 1]
    <3>1. CASE i < n
      <4>1. i \in 0..n - 1 /\ g[i] = f[i] /\ (i # 0 => i - 1 \in 0..n /\ g[i - 1] = f[i - 1])
        BY <1>3, <3>1
      <4> QED BY <2>1, <4>1
    <3>2. CASE i = n
      <4>1. n - 1 \in 0..n /\ g[n - 1] = f[n - 1]
        BY <1>3
      <4> QED BY <1>2, <3>2, <4>1
    <3> QED BY <3>1, <3>2
  <2>3. g = [i \in 0..n |-> g[i]]
    OBVIOUS
  <2> HIDE DEF g
  <2> QED BY <2>2, <2>3 DEF KeepsUpTo
<1> HIDE DEF g
<1> QED BY <1>5

\* What is kept are the orders that are among these, each once, in the line.
LEMMA KeptIsTheirs ==
    ASSUME NEW S, NEW line \in Seq(S), IsInjective(line), NEW these
    PROVE  /\ Kept(line, these) \in Seq(S)
           /\ Range(Kept(line, these)) = Range(line) \cap these
           /\ IsInjective(Kept(line, these))
<1> DEFINE len == Len(line)
           f == CHOOSE g : KeepsUpTo(g, line, these, len)
           Until(n) == {line[i] : i \in 1..n}
           Good(n) == /\ f[n] \in Seq(S) /\ IsInjective(f[n])
                      /\ Range(f[n]) = Until(n) \cap these
           Bad == {n \in 0..len : ~Good(n)}
<1>1. len \in Nat /\ DOMAIN line = 1..len /\ \A i \in 1..len : line[i] \in S
    OBVIOUS
<1>2. Kept(line, these) = f[len]
    BY DEF Kept, KeepsUpTo
<1>3. KeepsUpTo(f, line, these, len)
  <2>1. \E g : KeepsUpTo(g, line, these, len)
    BY <1>1, KeptIsThere
  <2> QED BY <2>1, Zenon
<1> HIDE DEF f, len
<1>4. \A n \in 0..len : f[n] = IF n = 0 THEN <<>>
            ELSE IF line[n] \in these THEN Append(f[n - 1], line[n]) ELSE f[n - 1]
    BY <1>3 DEF KeepsUpTo
<1>5. ASSUME NEW n \in Bad, \A m \in Bad : n <= m
      PROVE  FALSE
  <2>1. CASE n = 0
    <3>1. f[0] = <<>> /\ Until(0) = {}
        BY <1>1, <1>4
    <3>2. Good(0)
        BY <3>1 DEF Range, IsInjective
    <3> QED BY <2>1, <3>2
  <2>2. CASE n # 0
    <3>1. /\ n - 1 \in 0..len /\ n - 1 \in Nat /\ n \in 1..len /\ n \in 0..len
          /\ ~(n <= n - 1)
        BY <1>1, <2>2
    <3>2. Good(n - 1)
        BY <1>5, <3>1
    <3>3. Until(n) = Until(n - 1) \cup {line[n]} /\ line[n] \in S
      <4>1. 1..n = (1..(n - 1)) \cup {n}
        BY <3>1
      <4> QED BY <4>1, <1>1, <3>1
    <3>4. CASE line[n] \notin these
      <4>1. f[n] = f[n - 1] /\ Until(n) \cap these = Until(n - 1) \cap these
        BY <1>4, <3>1, <3>3, <3>4
      <4>2. Good(n)
        BY <3>2, <4>1
      <4> QED BY <4>2
    <3>5. CASE line[n] \in these
      <4>1. line[n] \notin Until(n - 1)
        <5>1. ASSUME NEW i \in 1..(n - 1) PROVE line[i] # line[n]
            BY <1>1, <3>1, <5>1 DEF IsInjective
        <5> QED BY <5>1
      <4>2. f[n] = Append(f[n - 1], line[n])
        BY <1>4, <2>2, <3>1, <3>5
      <4>3. line[n] \notin Range(f[n - 1])
        BY <3>2, <4>1
      <4>4. /\ f[n] \in Seq(S) /\ IsInjective(f[n])
            /\ Range(f[n]) = Range(f[n - 1]) \cup {line[n]}
        BY <3>2, <3>3, <4>2, <4>3, Joins
      <4>5. Until(n) \cap these = (Until(n - 1) \cap these) \cup {line[n]}
        BY <3>3, <3>5
      <4>6. Good(n)
        BY <3>2, <4>4, <4>5
      <4> QED BY <4>6
    <3> QED BY <3>4, <3>5
  <2> QED BY <2>1, <2>2
<1>6. Good(len)
  <2>1. Bad \in SUBSET Nat
    BY <1>1
  <2> HIDE DEF Bad
  <2>2. Bad = {}
    BY <2>1, <1>5, Smallest
  <2>3. len \in 0..len
    BY <1>1
  <2> HIDE DEF Good
  <2> QED BY <2>2, <2>3 DEF Bad
<1>7. Until(len) = Range(line)
    BY <1>1 DEF Range
<1> QED BY <1>2, <1>6, <1>7

----------------------------------------------------------------------------
(***************************************************************************)
(* The orders.                                                             *)
(***************************************************************************)
\* A page waits for a call of its own order, and only while it asks.
WaitsForACall ==
    \A o \in Orders : \A h \in Visitors : inFlight[o] = h =>
        order[h] = o /\ doing[h] # "idle" /\ page[o] = "polling"

\* A call has its order until it has answered.  While nothing is lost its page
\* waits for it, or has left.
CallIsAwaited ==
    \A h \in Visitors : doing[h] # "idle" =>
        /\ order[h] \in Orders
        /\ faults = 0 => inFlight[order[h]] = h \/ page[order[h]] = "left"

\* While nothing is lost the page of a vote that was recorded says so, or has left.
RecordedIsTold ==
    faults = 0 => \A o \in recorded : page[o] \in {"recorded", "left"}

\* What the page has not begun to ask for does not lie in the store.
NotStoredYet == \A o \in Orders : page[o] \in {"new", "asked"} => o \notin Range(store)

\* Who has signed does not sign again: SignedIsKept, said of the store itself.
SignatureIsSomewhere ==
    \A o \in Orders :
        bankid[o] = "collected" /\ page[o] = "polling" /\ o \notin dropped /\ faults = 0
        => \/ o \in completed /\ o \in Range(store)
           \/ \E h \in Visitors : order[h] = o /\ doing[h] = "casting"

PagesAreRight == WaitsForACall /\ CallIsAwaited /\ RecordedIsTold /\ SignatureIsSomewhere

StoreIsALine == store \in Seq(Orders) /\ IsInjective(store)

\* What the types ask of everything but the queue.
OwnTypeOK ==
    /\ phase \in {"OPEN", "CLOSED"}
    /\ number \in [Orders -> Nat]
    /\ last \in [Sessions -> Nat]
    /\ recorded \subseteq Orders
    /\ completed \subseteq Orders /\ dropped \subseteq Orders
    /\ cleaned \in BOOLEAN
    /\ bankid \in [Orders -> {"none", "pending", "signed", "collected", "ended"}]
    /\ page \in [Orders -> PageStates]
    /\ inFlight \in [Orders -> Visitors \cup {None}]
    /\ order \in [Visitors -> Orders \cup {None}]
    /\ doing \in [Visitors -> {"idle", "collecting", "casting"}]
    /\ faults \in 0..MaxFaults

OwnIInv == OwnTypeOK /\ StoreIsALine /\ PagesAreRight /\ NotStoredYet /\ StoreWithinLimits

OrdersIInv == QueueIInv /\ OwnIInv

\* Whatever a voter or a call does, the queue takes one of its own steps or none.
LEMMA OrdersStepQueue ==
    ASSUME [Next]_vars
    PROVE  [QueueNext]_queueVars
<1>1. ASSUME NEW o \in Orders, NEW h \in Visitors, Poll(h, o)
      PROVE  [QueueNext]_queueVars
    BY <1>1 DEF Poll, QueueNext
<1>2. ASSUME NEW o \in Orders,
             SignStart(o) \/ PutOrder(o) \/ AtBankId(o) \/ LoseConnection(o) \/ LeavePage(o)
      PROVE  UNCHANGED queueVars
    BY <1>2 DEF SignStart, PutOrder, AtBankId, LoseConnection, LeavePage
<1>3. ASSUME NEW h \in Visitors, ServerStep(h) \/ CollectLost(h) \/ ConnectionClosed(h)
      PROVE  [QueueNext]_queueVars
  <2>0. h \in Callers
    BY DEF Callers
  <2>1. CASE CollectAnswered(h)
    BY <2>1 DEF CollectAnswered, TakesPlace, QueueNext
  <2>2. CASE CastRefused(h) \/ WriteVote(h) \/ QueueWasFull(h)
    BY <2>0, <2>2 DEF CastRefused, WriteVote, CastEnds, QueueWasFull, QueueNext
  <2>3. CASE Verify(h) \/ ConnectionClosed(h)
    BY <2>0, <2>3 DEF Verify, ConnectionClosed, QueueNext
  <2>4. CASE CollectLost(h)
    BY <2>4 DEF CollectLost
  <2> QED BY <1>3, <2>1, <2>2, <2>3, <2>4 DEF ServerStep
<1>4. ASSUME NEW w \in Validators, Validate(w)
      PROVE  QueueNext
    BY <1>4 DEF Validate, QueueNext, Callers
<1>5. CASE Expire \/ SweepTimer \/ EndVoting \/ ForgetOrders
    BY <1>5 DEF Expire, SweepTimer, EndVoting, ForgetOrders
<1>6. CASE UNCHANGED vars
    BY <1>6 DEF vars
<1> QED BY <1>1, <1>2, <1>3, <1>4, <1>5, <1>6 DEF Next

LEMMA WithoutIsALine ==
    ASSUME NEW line \in Seq(Orders), IsInjective(line), NEW removed
    PROVE  /\ Without(line, removed) \in Seq(Orders) /\ IsInjective(Without(line, removed))
           /\ Range(Without(line, removed)) = Range(line) \ removed
<1>1. Range(line) \subseteq Orders
    BY DEF Range
<1>2. Range(line) \cap (Orders \ removed) = Range(line) \ removed
    BY <1>1
<1> QED BY <1>2, KeptIsTheirs DEF Without

LEMMA SweptIsALine ==
    ASSUME StoreIsALine
    PROVE  /\ Swept \in Seq(Orders) /\ IsInjective(Swept)
           /\ Range(Swept) = Range(store) \ dropped
BY WithoutIsALine DEF Swept, StoreIsALine

\* A store from which orders go away stays within its limits.
LEMMA FewerAreWithin ==
    ASSUME StoreIsALine, StoreIsALine', Range(store') \subseteq Range(store), StoreWithinLimits
    PROVE  StoreWithinLimits'
<1>1. /\ IsFiniteSet(Range(store)) /\ Cardinality(Range(store)) = Len(store)
      /\ IsFiniteSet(Range(store')) /\ Cardinality(Range(store')) = Len(store')
    BY LengthIsCount DEF StoreIsALine
<1>2. Len(store') <= MaxOrders
  <2>1. Cardinality(Range(store')) <= Cardinality(Range(store))
    BY <1>1, FS_Subset
  <2>2. Len(store) \in Nat /\ Len(store') \in Nat
    BY DEF StoreIsALine
  <2> QED BY <1>1, <2>1, <2>2, OrdersAssumption DEF StoreWithinLimits
<1>3. ASSUME NEW s \in Sessions
      PROVE  Cardinality(Range(store') \cap OfSession(s)) <= MaxPerSession
  <2> DEFINE before == Range(store) \cap OfSession(s)
             after == Range(store') \cap OfSession(s)
  <2>1. IsFiniteSet(before) /\ after \in SUBSET before
    BY <1>1, FS_Subset
  <2>2. /\ Cardinality(after) <= Cardinality(before)
        /\ Cardinality(after) \in Nat /\ Cardinality(before) \in Nat
    BY <2>1, FS_Subset, FS_CardinalityType
  <2>3. Cardinality(before) <= MaxPerSession
    BY DEF StoreWithinLimits
  <2> HIDE DEF before, after
  <2>4. Cardinality(after) <= MaxPerSession
    BY <2>2, <2>3, OrdersAssumption
  <2> QED BY <2>4 DEF after
<1> QED BY <1>2, <1>3 DEF StoreWithinLimits, OfSession

\* What the session keeps beside a new order is one below its limit.
LEMMA RoomIsMade ==
    ASSUME StoreIsALine, StoreWithinLimits, NEW o \in Orders,
           NEW line \in Seq(Orders), Range(line) = (Range(store) \ dropped) \ Replaced(o)
    PROVE  /\ IsFiniteSet(Range(line) \cap OfSession(SessionOf[o]))
           /\ Cardinality(Range(line) \cap OfSession(SessionOf[o])) <= MaxPerSession - 1
<1> USE OrdersAssumption
<1> DEFINE s == SessionOf[o]
           mine == Kept(Swept, OfSession(s))
           stays == Range(line) \cap OfSession(s)
<1>1. s \in Sessions
    OBVIOUS
<1>2. /\ mine \in Seq(Orders) /\ IsInjective(mine)
      /\ Range(mine) = (Range(store) \ dropped) \cap OfSession(s)
    BY SweptIsALine, KeptIsTheirs
<1>3. Replaced(o) = {mine[i] : i \in 1..(Len(mine) - MaxPerSession + 1)}
    BY DEF Replaced
<1> HIDE DEF mine
<1>4. stays = Range(mine) \ Replaced(o)
    BY <1>2
<1>5. /\ IsFiniteSet(Range(mine)) /\ Cardinality(Range(mine)) = Len(mine) /\ Len(mine) \in Nat
      /\ DOMAIN mine = 1..Len(mine)
  <2>1. IsFiniteSet(Range(mine)) /\ Cardinality(Range(mine)) = Len(mine)
    BY <1>2, LengthIsCount
  <2>2. Len(mine) \in Nat /\ DOMAIN mine = 1..Len(mine)
    BY <1>2, LenProperties
  <2> QED BY <2>1, <2>2
<1>6. Len(mine) <= MaxPerSession
  <2> DEFINE all == Range(store) \cap OfSession(s)
  <2>1. IsFiniteSet(all) /\ Range(mine) \in SUBSET all
    BY <1>2, LengthIsCount, FS_Subset DEF StoreIsALine
  <2>2. Cardinality(Range(mine)) <= Cardinality(all) /\ Cardinality(all) \in Nat
    BY <2>1, FS_Subset, FS_CardinalityType
  <2>3. Cardinality(all) <= MaxPerSession
    BY <1>1 DEF StoreWithinLimits
  <2> HIDE DEF all
  <2> QED BY <1>5, <2>2, <2>3
<1>7. IsFiniteSet(stays) /\ Cardinality(stays) <= MaxPerSession - 1
  <2>1. CASE Len(mine) < MaxPerSession
    <3>1. stays \in SUBSET Range(mine)
        BY <1>4
    <3>2. /\ IsFiniteSet(stays) /\ Cardinality(stays) <= Cardinality(Range(mine))
          /\ Cardinality(stays) \in Nat
        BY <3>1, <1>5, FS_Subset, FS_CardinalityType
    <3> HIDE DEF stays
    <3> QED BY <2>1, <3>2, <1>5
  <2>2. CASE Len(mine) = MaxPerSession
    <3>1. Len(mine) - MaxPerSession + 1 = 1 /\ 1 \in DOMAIN mine
        BY <2>2, <1>5
    <3>2. Replaced(o) = {mine[1]} /\ mine[1] \in Range(mine)
        BY <3>1, <1>3 DEF Range
    <3>3. stays = Range(mine) \ {mine[1]}
        BY <3>2, <1>4
    <3> HIDE DEF stays
    <3>4. IsFiniteSet(stays) /\ Cardinality(stays) = Cardinality(Range(mine)) - 1
        BY <3>2, <3>3, <1>5, FS_RemoveElement
    <3> QED BY <2>2, <3>4, <1>5
  <2> QED BY <2>1, <2>2, <1>5, <1>6
<1> QED BY <1>7

LEMMA PutKeepsLimits ==
    ASSUME StoreIsALine, StoreWithinLimits, NEW o \in Orders, o \notin Range(store),
           Len(Swept) < MaxOrders, store' = Append(Without(Swept, Replaced(o)), o)
    PROVE  /\ StoreIsALine' /\ StoreWithinLimits'
           /\ Range(store') = ((Range(store) \ dropped) \ Replaced(o)) \cup {o}
<1> USE OrdersAssumption
<1> DEFINE line == Without(Swept, Replaced(o))
<1>1. /\ line \in Seq(Orders) /\ IsInjective(line)
      /\ Range(line) = (Range(store) \ dropped) \ Replaced(o)
    BY SweptIsALine, WithoutIsALine
<1> HIDE DEF line
<1>2. /\ Append(line, o) \in Seq(Orders) /\ IsInjective(Append(line, o))
      /\ Len(Append(line, o)) = Len(line) + 1
      /\ Range(Append(line, o)) = Range(line) \cup {o}
    BY <1>1, Joins
<1>3. store' = Append(line, o)
    BY DEF line
<1>4. Len(store') <= MaxOrders
  <2>1. /\ IsFiniteSet(Range(Swept)) /\ Cardinality(Range(Swept)) = Len(Swept)
        /\ Cardinality(Range(line)) = Len(line)
    BY <1>1, SweptIsALine, LengthIsCount
  <2>2. Range(line) \in SUBSET Range(Swept)
    BY <1>1, SweptIsALine
  <2>3. Cardinality(Range(line)) <= Cardinality(Range(Swept))
    BY <2>1, <2>2, FS_Subset
  <2>4. Len(line) \in Nat /\ Len(Swept) \in Nat
    BY <1>1, SweptIsALine
  <2> QED BY <1>2, <1>3, <2>1, <2>3, <2>4
<1>5. ASSUME NEW s \in Sessions
      PROVE  Cardinality(Range(store') \cap OfSession(s)) <= MaxPerSession
  <2>1. CASE s # SessionOf[o]
    <3> DEFINE before == Range(store) \cap OfSession(s)
               after == Range(store') \cap OfSession(s)
    <3>1. after \in SUBSET before
        BY <1>1, <1>2, <1>3, <2>1 DEF OfSession
    <3>2. IsFiniteSet(before)
        BY LengthIsCount, FS_Subset DEF StoreIsALine
    <3>3. /\ Cardinality(after) <= Cardinality(before)
          /\ Cardinality(after) \in Nat /\ Cardinality(before) \in Nat
        BY <3>1, <3>2, FS_Subset, FS_CardinalityType
    <3>4. Cardinality(before) <= MaxPerSession
        BY DEF StoreWithinLimits
    <3> HIDE DEF before, after
    <3>5. Cardinality(after) <= MaxPerSession
        BY <3>3, <3>4
    <3> QED BY <3>5 DEF after
  <2>2. CASE s = SessionOf[o]
    <3> DEFINE stays == Range(line) \cap OfSession(s)
               after == Range(store') \cap OfSession(s)
    <3>1. IsFiniteSet(stays) /\ Cardinality(stays) <= MaxPerSession - 1
        BY <1>1, <2>2, RoomIsMade
    <3>2. after = stays \cup {o} /\ o \notin stays
        BY <1>1, <1>2, <1>3, <2>2 DEF OfSession
    <3> HIDE DEF stays, after
    <3>3. Cardinality(after) = Cardinality(stays) + 1 /\ Cardinality(stays) \in Nat
        BY <3>1, <3>2, FS_AddElement, FS_CardinalityType
    <3>4. Cardinality(after) <= MaxPerSession
        BY <3>1, <3>3
    <3> QED BY <3>4 DEF after
  <2> QED BY <2>1, <2>2
<1>6. StoreIsALine'
    BY <1>2, <1>3 DEF StoreIsALine
<1> QED BY <1>1, <1>2, <1>3, <1>4, <1>5, <1>6 DEF StoreWithinLimits, OfSession

\* The answer of a call.  It only leaves its page asking where BankID's answer has
\* not been given, is with the order, or something is lost.
LEMMA AnswersKeep ==
    ASSUME OwnIInv, NEW h \in Visitors, doing[h] # "idle",
           NEW what \in {"pending", "queued", "recorded", "closed", "failed"}, Answers(h, what),
           OwnTypeOK', StoreIsALine', StoreWithinLimits',
           Range(store') \subseteq Range(store),
           \A p \in Orders \ {order[h]} :
               /\ p \in Range(store) /\ p \notin dropped => p \in Range(store')
               /\ bankid'[p] = bankid[p],
           UNCHANGED dropped, completed \subseteq completed', faults <= faults',
           recorded' = recorded \/ (what = "recorded" /\ recorded' = recorded \cup {order[h]}),
           \/ what \notin {"pending", "queued"}
           \/ bankid'[order[h]] # "collected"
           \/ order[h] \in completed' /\ order[h] \in Range(store')
           \/ order[h] \in dropped \/ faults' # 0
    PROVE  OwnIInv'
<1> USE OrdersAssumption DEF OwnIInv, PagesAreRight
<1> DEFINE o == order[h]
<1>1. /\ o \in Orders /\ faults \in Nat /\ (faults' = 0 => faults = 0)
      /\ faults' = 0 => inFlight[o] = h \/ page[o] = "left"
    BY DEF CallIsAwaited, OwnTypeOK
<1> HIDE DEF o
<1>2. /\ doing' = [doing EXCEPT ![h] = "idle"]
      /\ order' = [order EXCEPT ![h] = None]
      /\ \A p \in Orders \ {o} : inFlight'[p] = inFlight[p] /\ page'[p] = page[p]
    BY <1>1 DEF Answers, OwnTypeOK, o
<1>3. \/ inFlight[o] = h /\ inFlight'[o] = None /\ page'[o] = Shown(o, what)
      \/ inFlight[o] # h /\ inFlight'[o] = inFlight[o] /\ page'[o] = page[o]
    BY <1>1 DEF Answers, OwnTypeOK, o
<1>4. /\ \A i \in Visitors \ {h} : doing'[i] = doing[i] /\ order'[i] = order[i]
      /\ doing'[h] = "idle"
    BY <1>2 DEF OwnTypeOK
<1>5. inFlight[o] = h => page[o] = "polling"
    BY <1>1 DEF WaitsForACall
<1>6. WaitsForACall'
  <2> SUFFICES ASSUME NEW p \in Orders, NEW i \in Visitors, inFlight'[p] = i
               PROVE  order'[i] = p /\ doing'[i] # "idle" /\ page'[p] = "polling"
    BY DEF WaitsForACall
  <2>1. inFlight[p] = i /\ page'[p] = page[p]
    BY <1>2, <1>3
  <2>2. i # h
    BY <1>3, <2>1 DEF WaitsForACall, o
  <2> QED BY <2>1, <2>2, <1>4 DEF WaitsForACall
<1>7. CallIsAwaited'
  <2> SUFFICES ASSUME NEW i \in Visitors, doing'[i] # "idle"
               PROVE  /\ order'[i] \in Orders
                      /\ faults' = 0 => inFlight'[order'[i]] = i \/ page'[order'[i]] = "left"
    BY DEF CallIsAwaited
  <2>1. i # h /\ doing[i] # "idle" /\ order'[i] = order[i] /\ order[i] \in Orders
    BY <1>4 DEF CallIsAwaited
  <2>2. ASSUME faults' = 0
        PROVE  inFlight'[order[i]] = i \/ page'[order[i]] = "left"
    <3>1. inFlight[order[i]] = i \/ page[order[i]] = "left"
        BY <1>1, <2>1, <2>2 DEF CallIsAwaited
    <3>2. CASE order[i] = o
      <4>1. inFlight[o] = h => page[o] = "polling" /\ i # h
        BY <1>5, <2>1
      <4> QED BY <1>1, <1>3, <2>2, <3>1, <3>2, <4>1
    <3>3. CASE order[i] # o
        BY <1>2, <2>1, <3>1, <3>3
    <3> QED BY <3>2, <3>3
  <2> QED BY <2>1, <2>2
<1>8. RecordedIsTold'
  <2> SUFFICES ASSUME faults' = 0, NEW p \in recorded' PROVE page'[p] \in {"recorded", "left"}
    BY DEF RecordedIsTold
  <2>0. p \in Orders /\ faults = 0
    BY <1>1 DEF OwnTypeOK
  <2>1. CASE p \in recorded
    <3>1. page[p] \in {"recorded", "left"}
        BY <2>0, <2>1 DEF RecordedIsTold
    <3> QED BY <1>2, <1>3, <1>5, <2>0, <3>1
  <2>2. CASE p \notin recorded
    <3>1. p = o /\ what = "recorded"
        BY <2>2 DEF o
    <3> QED BY <1>1, <1>3, <3>1 DEF Shown
  <2> QED BY <2>1, <2>2
<1>9. SignatureIsSomewhere'
  <2> SUFFICES ASSUME NEW p \in Orders, bankid'[p] = "collected", page'[p] = "polling",
                      p \notin dropped', faults' = 0
               PROVE  \/ p \in completed' /\ p \in Range(store')
                      \/ \E i \in Visitors : order'[i] = p /\ doing'[i] = "casting"
    BY DEF SignatureIsSomewhere
  <2>0. faults = 0 /\ p \notin dropped
    BY <1>1
  <2>1. CASE p = o
    <3>1. what \in {"pending", "queued"}
        BY <1>1, <1>3, <2>1 DEF Shown
    <3> QED BY <2>0, <2>1, <3>1 DEF o
  <2>2. CASE p # o
    <3>1. bankid[p] = "collected" /\ page[p] = "polling"
        BY <1>2, <2>2 DEF o
    <3>2. CASE p \in completed /\ p \in Range(store)
        BY <2>0, <2>2, <3>2 DEF o
    <3>3. ASSUME NEW i \in Visitors, order[i] = p, doing[i] = "casting"
          PROVE  order'[i] = p /\ doing'[i] = "casting"
      <4>1. i # h
        BY <2>2, <3>3 DEF o
      <4> QED BY <1>4, <3>3, <4>1
    <3> QED BY <2>0, <3>1, <3>2, <3>3 DEF SignatureIsSomewhere
  <2> QED BY <2>1, <2>2
<1>10. NotStoredYet'
  <2> SUFFICES ASSUME NEW p \in Orders, page'[p] \in {"new", "asked"}
               PROVE  p \notin Range(store')
    BY DEF NotStoredYet
  <2>1. page[p] \in {"new", "asked"}
    BY <1>2, <1>3, <1>5 DEF Shown
  <2> QED BY <2>1 DEF NotStoredYet
<1> QED BY <1>6, <1>7, <1>8, <1>9, <1>10

\* What a call does to the store: it sweeps, and takes at most its own order.
LEMMA SweepKeeps ==
    ASSUME OwnIInv, NEW removed,
           store' = Swept \/ store' = Without(Swept, removed)
    PROVE  /\ StoreIsALine' /\ StoreWithinLimits' /\ Range(store') \subseteq Range(store)
           /\ \A p \in Orders : p \in Range(store') <=>
                  /\ p \in Range(store) /\ p \notin dropped
                  /\ store' = Swept \/ p \notin removed
<1>1. /\ Swept \in Seq(Orders) /\ IsInjective(Swept)
      /\ Range(Swept) = Range(store) \ dropped
    BY SweptIsALine DEF OwnIInv
<1>2. CASE store' = Swept
  <2>1. StoreIsALine' /\ Range(store') = Range(store) \ dropped
    BY <1>1, <1>2 DEF StoreIsALine
  <2> QED BY <1>2, <2>1, FewerAreWithin DEF OwnIInv
<1>3. CASE store' # Swept
  <2>0. store' = Without(Swept, removed)
    BY <1>3
  <2>1. StoreIsALine' /\ Range(store') = (Range(store) \ dropped) \ removed
    BY <1>1, <2>0, WithoutIsALine DEF StoreIsALine
  <2> QED BY <1>3, <2>1, FewerAreWithin DEF OwnIInv
<1> QED BY <1>2, <1>3

LEMMA LivesInTheStore ==
    ASSUME OwnIInv, NEW o \in Orders
    PROVE  Lives(o) <=> o \in Range(store) /\ o \notin dropped
BY SweptIsALine DEF OwnIInv, Lives

\* The signature goes to the order, and the page asks again, or the order is gone.
LEMMA KeepsOrderKeeps ==
    ASSUME OwnIInv, NEW h \in Visitors, doing[h] # "idle", KeepsOrder(h),
           UNCHANGED <<voteVars, dropped, faults>>,
           bankid' \in [Orders -> {"none", "pending", "signed", "collected", "ended"}],
           \A p \in Orders \ {order[h]} : bankid'[p] = bankid[p]
    PROVE  OwnIInv'
<1> USE OrdersAssumption
<1>1. order[h] \in Orders
    BY DEF OwnIInv, PagesAreRight, CallIsAwaited
<1>2. /\ StoreIsALine' /\ StoreWithinLimits' /\ Range(store') \subseteq Range(store)
      /\ \A p \in Orders : p \in Range(store') <=> p \in Range(store) /\ p \notin dropped
    BY SweepKeeps DEF KeepsOrder
<1>3. PICK what \in {"queued", "failed"} :
          /\ Answers(h, what)
          /\ completed \subseteq completed' /\ completed' \subseteq completed \cup {order[h]}
          /\ what = "queued" => order[h] \in completed' /\ order[h] \in Range(store')
    BY <1>1, <1>2, LivesInTheStore DEF KeepsOrder
<1>4. OwnTypeOK'
    BY <1>1, <1>3 DEF OwnIInv, OwnTypeOK, Answers, Shown, PageStates, voteVars
<1>5. faults <= faults'
    BY DEF OwnIInv, OwnTypeOK
<1> QED BY <1>1, <1>2, <1>3, <1>4, <1>5, AnswersKeep DEF voteVars

\* BankID's answer was used up: a place in the queue, or the order keeps it.
LEMMA CollectAnsweredKeeps ==
    ASSUME OwnIInv, NEW h \in Visitors, CollectAnswered(h)
    PROVE  OwnIInv'
<1> USE OrdersAssumption
<1> DEFINE o == order[h]
<1>0. /\ doing[h] = "collecting" /\ o \in Orders /\ UNCHANGED <<voteVars, dropped, faults>>
      /\ faults <= faults'
    BY DEF CollectAnswered, OwnIInv, OwnTypeOK, PagesAreRight, CallIsAwaited
<1>1. CASE bankid[o] = "pending" /\ Answers(h, "pending") /\ UNCHANGED <<store, completed, bankid>>
  <2>1. OwnTypeOK'
    BY <1>0, <1>1 DEF OwnIInv, OwnTypeOK, Answers, Shown, PageStates, voteVars
  <2>2. StoreIsALine' /\ StoreWithinLimits'
    BY <1>1 DEF OwnIInv, StoreIsALine, StoreWithinLimits, OfSession
  <2> QED BY <1>0, <1>1, <2>1, <2>2, AnswersKeep DEF voteVars
<1>2. CASE bankid[o] \in {"ended", "collected"} /\ Answers(h, "failed") /\ Taken(o)
           /\ UNCHANGED <<completed, bankid>>
  <2>1. OwnTypeOK'
    BY <1>0, <1>2 DEF OwnIInv, OwnTypeOK, Answers, Shown, PageStates, voteVars
  <2>2. /\ StoreIsALine' /\ StoreWithinLimits' /\ Range(store') \subseteq Range(store)
        /\ \A p \in Orders \ {o} :
               p \in Range(store) /\ p \notin dropped => p \in Range(store')
    BY <1>2, SweepKeeps DEF Taken
  <2> QED BY <1>0, <1>2, <2>1, <2>2, AnswersKeep DEF voteVars
<1>3. ASSUME bankid[o] = "signed", bankid' = [bankid EXCEPT ![o] = "collected"], TakesPlace(h)
      PROVE  OwnIInv'
  <2>0. /\ bankid' \in [Orders -> {"none", "pending", "signed", "collected", "ended"}]
        /\ \A p \in Orders \ {o} : bankid'[p] = bankid[p]
    BY <1>0, <1>3 DEF OwnIInv, OwnTypeOK
  <2>1. CASE KeepsOrder(h)
    BY <1>0, <2>0, <2>1, KeepsOrderKeeps
  <2>2. CASE /\ doing' = [doing EXCEPT ![h] = "casting"] /\ store' = Swept
             /\ UNCHANGED <<completed, order, page, inFlight>>
    <3>1. /\ doing'[h] = "casting" /\ \A i \in Visitors \ {h} : doing'[i] = doing[i]
        BY <2>2 DEF OwnIInv, OwnTypeOK
    <3>2. OwnTypeOK'
        BY <1>0, <2>0, <2>2 DEF OwnIInv, OwnTypeOK, voteVars
    <3>3. /\ StoreIsALine' /\ StoreWithinLimits' /\ Range(store') \subseteq Range(store)
          /\ \A p \in Orders : p \in Range(store') <=> p \in Range(store) /\ p \notin dropped
        BY <2>2, SweepKeeps
    <3>4. WaitsForACall' /\ CallIsAwaited' /\ RecordedIsTold'
        BY <1>0, <2>2, <3>1 DEF OwnIInv, PagesAreRight, WaitsForACall, CallIsAwaited,
            RecordedIsTold, voteVars
    <3>5. SignatureIsSomewhere'
        BY <1>0, <2>0, <2>2, <3>1, <3>3 DEF OwnIInv, PagesAreRight, SignatureIsSomewhere
    <3>6. NotStoredYet'
        BY <2>2, <3>3 DEF OwnIInv, NotStoredYet
    <3> QED BY <3>2, <3>3, <3>4, <3>5, <3>6 DEF OwnIInv, PagesAreRight
  <2> QED BY <1>3, <2>1, <2>2 DEF TakesPlace
<1> QED BY <1>1, <1>2, <1>3 DEF CollectAnswered

LEMMA CollectLostKeeps ==
    ASSUME OwnIInv, NEW h \in Visitors, CollectLost(h)
    PROVE  OwnIInv'
<1> USE OrdersAssumption
<1> DEFINE o == order[h]
<1>1. /\ doing[h] = "collecting" /\ o \in Orders /\ Answers(h, "pending")
      /\ UNCHANGED <<storeVars, voteVars>> /\ faults <= faults' /\ faults' # 0
      /\ \A p \in Orders \ {o} : bankid'[p] = bankid[p]
    BY DEF CollectLost, OwnIInv, OwnTypeOK, PagesAreRight, CallIsAwaited
<1>2. OwnTypeOK'
    BY <1>1 DEF CollectLost, OwnIInv, OwnTypeOK, Answers, Shown, PageStates, voteVars, storeVars
<1>3. StoreIsALine' /\ StoreWithinLimits'
    BY <1>1 DEF OwnIInv, StoreIsALine, StoreWithinLimits, OfSession, storeVars
<1> QED BY <1>1, <1>2, <1>3, AnswersKeep DEF voteVars, storeVars

\* A cast is over: its order is taken, and its page does not go on asking.
LEMMA CastEndsKeeps ==
    ASSUME OwnIInv, NEW h \in Visitors, doing[h] = "casting",
           NEW what \in {"recorded", "closed", "failed"}, CastEnds(h, what),
           recorded' = recorded \/ (what = "recorded" /\ recorded' = recorded \cup {order[h]}),
           last' \in [Sessions -> Nat], faults' \in 0..MaxFaults, faults <= faults'
    PROVE  OwnIInv'
<1> USE OrdersAssumption
<1>1. order[h] \in Orders
    BY DEF OwnIInv, PagesAreRight, CallIsAwaited
<1>2. /\ StoreIsALine' /\ StoreWithinLimits' /\ Range(store') \subseteq Range(store)
      /\ \A p \in Orders \ {order[h]} :
             p \in Range(store) /\ p \notin dropped => p \in Range(store')
    BY SweepKeeps DEF CastEnds, Taken
<1>3. OwnTypeOK'
    BY <1>1 DEF CastEnds, OwnIInv, OwnTypeOK, Answers, Shown, PageStates
<1> QED BY <1>1, <1>2, <1>3, AnswersKeep DEF CastEnds

LEMMA CastKeeps ==
    ASSUME OwnIInv, NEW h \in Visitors, CastRefused(h) \/ QueueWasFull(h) \/ WriteVote(h)
    PROVE  OwnIInv'
<1> USE OrdersAssumption
<1>0. /\ doing[h] = "casting" /\ order[h] \in Orders
      /\ last \in [Sessions -> Nat] /\ number \in [Orders -> Nat] /\ faults \in 0..MaxFaults
    BY DEF CastRefused, QueueWasFull, WriteVote, OwnIInv, OwnTypeOK, PagesAreRight, CallIsAwaited
<1>1. CASE CastRefused(h)
    BY <1>0, <1>1, CastEndsKeeps DEF CastRefused
<1>2. CASE QueueWasFull(h)
    BY <1>0, <1>2, KeepsOrderKeeps DEF QueueWasFull, OwnIInv, OwnTypeOK
<1>3. CASE WriteVote(h)
    BY <1>0, <1>3, CastEndsKeeps DEF WriteVote
<1> QED BY <1>1, <1>2, <1>3

\* Where calls, pages' questions, BankID's answers and the records stay, so does
\* what is said of them, as long as every order that goes from the store is dropped.
LEMMA OtherStepsKeep ==
    ASSUME OwnIInv, OwnTypeOK', StoreIsALine', StoreWithinLimits', NotStoredYet',
           UNCHANGED <<callVars, recorded, completed, inFlight, page, faults>>,
           dropped \subseteq dropped',
           \A o \in Orders : o \in Range(store) => o \in Range(store') \/ o \in dropped',
           \A o \in Orders : page[o] = "polling" /\ bankid'[o] = "collected" => bankid[o] = "collected"
    PROVE  OwnIInv'
<1>1. WaitsForACall' /\ CallIsAwaited' /\ RecordedIsTold'
    BY DEF OwnIInv, PagesAreRight, WaitsForACall, CallIsAwaited, RecordedIsTold, callVars
<1>2. SignatureIsSomewhere'
    BY DEF OwnIInv, PagesAreRight, SignatureIsSomewhere, callVars
<1> QED BY <1>1, <1>2 DEF OwnIInv, PagesAreRight

LEMMA PollKeeps ==
    ASSUME OwnIInv, NEW o \in Orders, NEW h \in Visitors, Poll(h, o)
    PROVE  OwnIInv'
<1> USE OrdersAssumption
<1>1. /\ doing[h] = "idle" /\ page[o] = "polling" /\ inFlight[o] = None
      /\ UNCHANGED <<voteVars, completed, dropped, bankid, faults>>
      /\ order \in [Visitors -> Orders \cup {None}]
      /\ doing \in [Visitors -> {"idle", "collecting", "casting"}]
      /\ inFlight \in [Orders -> Visitors \cup {None}]
      /\ page \in [Orders -> PageStates]
    BY DEF Poll, MayAsk, OwnIInv, OwnTypeOK
<1>2. /\ StoreIsALine' /\ StoreWithinLimits' /\ Range(store') \subseteq Range(store)
      /\ \A p \in Orders : p \in Range(store') <=> p \in Range(store) /\ p \notin dropped
    BY SweepKeeps DEF Poll
<1>3. CASE page' = [page EXCEPT ![o] = "failed"] /\ UNCHANGED <<callVars, inFlight>>
  <2>1. /\ page'[o] = "failed" /\ \A p \in Orders \ {o} : page'[p] = page[p]
    BY <1>1, <1>3
  <2>2. OwnTypeOK'
    BY <1>1, <1>3 DEF OwnIInv, OwnTypeOK, PageStates, callVars, voteVars
  <2>3. WaitsForACall' /\ CallIsAwaited'
    BY <1>1, <1>3, <2>1 DEF OwnIInv, PagesAreRight, WaitsForACall, CallIsAwaited, callVars
  <2>4. RecordedIsTold'
    BY <1>1, <2>1 DEF OwnIInv, OwnTypeOK, PagesAreRight, RecordedIsTold, voteVars
  <2>5. SignatureIsSomewhere'
    BY <1>1, <1>2, <1>3, <2>1 DEF OwnIInv, PagesAreRight, SignatureIsSomewhere, callVars
  <2>6. NotStoredYet'
    BY <1>2, <2>1 DEF OwnIInv, NotStoredYet
  <2> QED BY <1>2, <2>2, <2>3, <2>4, <2>5, <2>6 DEF OwnIInv, PagesAreRight
<1>4. ASSUME inFlight' = [inFlight EXCEPT ![o] = h], order' = [order EXCEPT ![h] = o],
             NEW where \in {"collecting", "casting"}, doing' = [doing EXCEPT ![h] = where],
             UNCHANGED page
      PROVE  OwnIInv'
  <2>1. /\ inFlight'[o] = h /\ order'[h] = o /\ doing'[h] # "idle"
        /\ \A p \in Orders \ {o} : inFlight'[p] = inFlight[p]
        /\ \A i \in Visitors \ {h} : order'[i] = order[i] /\ doing'[i] = doing[i]
    BY <1>1, <1>4
  <2>2. OwnTypeOK'
    BY <1>1, <1>4 DEF OwnIInv, OwnTypeOK, voteVars
  <2>3. WaitsForACall'
    BY <1>1, <1>4, <2>1 DEF OwnIInv, PagesAreRight, WaitsForACall
  <2>4. CallIsAwaited'
    BY <1>1, <1>4, <2>1 DEF OwnIInv, PagesAreRight, CallIsAwaited
  <2>5. RecordedIsTold'
    BY <1>1, <1>4 DEF OwnIInv, PagesAreRight, RecordedIsTold, voteVars
  <2>6. SignatureIsSomewhere'
    BY <1>1, <1>2, <1>4, <2>1 DEF OwnIInv, PagesAreRight, SignatureIsSomewhere
  <2>7. NotStoredYet'
    BY <1>2, <1>4 DEF OwnIInv, NotStoredYet
  <2> QED BY <1>2, <2>2, <2>3, <2>4, <2>5, <2>6, <2>7 DEF OwnIInv, PagesAreRight
<1> QED BY <1>3, <1>4 DEF Poll

\* Before the page asks: the number, the order at BankID and its place in the store.
LEMMA StartKeeps ==
    ASSUME OwnIInv, NEW o \in Orders, SignStart(o) \/ PutOrder(o) \/ AtBankId(o)
    PROVE  OwnIInv'
<1> USE OrdersAssumption
<1>0. OwnTypeOK /\ StoreIsALine /\ StoreWithinLimits /\ NotStoredYet
    BY DEF OwnIInv
<1>1. ASSUME SignStart(o) \/ PutOrder(o), OwnTypeOK', StoreIsALine', StoreWithinLimits',
             NotStoredYet', page'[o] # "polling" \/ bankid'[o] # "collected",
             page[o] \in {"new", "asked"},
             \A p \in Orders \ {o} : page'[p] = page[p] /\ bankid'[p] = bankid[p],
             dropped \subseteq dropped',
             \A p \in Orders : p \in Range(store) => p \in Range(store') \/ p \in dropped'
      PROVE  OwnIInv'
  <2>1. UNCHANGED <<callVars, inFlight, recorded, completed, faults>>
    BY <1>1 DEF SignStart, PutOrder, voteVars, storeVars
  <2>2. WaitsForACall'
    BY <1>1, <2>1 DEF OwnIInv, PagesAreRight, WaitsForACall, callVars
  <2>3. CallIsAwaited'
    BY <1>1, <2>1 DEF OwnIInv, PagesAreRight, CallIsAwaited, callVars
  <2>4. RecordedIsTold'
    BY <1>0, <1>1, <2>1 DEF OwnIInv, OwnTypeOK, PagesAreRight, RecordedIsTold
  <2>5. SignatureIsSomewhere'
    BY <1>1, <2>1 DEF OwnIInv, PagesAreRight, SignatureIsSomewhere, callVars
  <2> QED BY <1>1, <2>2, <2>3, <2>4, <2>5 DEF OwnIInv, PagesAreRight
<1>2. CASE SignStart(o)
  <2>1. /\ page[o] = "new" /\ page'[o] = "asked" /\ UNCHANGED <<storeVars, bankid>>
        /\ \A p \in Orders \ {o} : page'[p] = page[p]
    BY <1>0, <1>2 DEF SignStart, OwnTypeOK
  <2>2. OwnTypeOK'
    BY <1>0, <1>2 DEF SignStart, OwnTypeOK, PageStates, storeVars, callVars
  <2>3. StoreIsALine' /\ StoreWithinLimits' /\ NotStoredYet'
    BY <1>0, <2>1 DEF StoreIsALine, StoreWithinLimits, OfSession, NotStoredYet, storeVars
  <2> QED BY <1>1, <1>2, <2>1, <2>2, <2>3 DEF storeVars
<1>3. CASE PutOrder(o)
  <2>1. page[o] = "asked" /\ o \notin Range(store)
    BY <1>0, <1>3 DEF PutOrder, NotStoredYet
  <2>2. Replaced(o) \subseteq Orders
    <3> DEFINE mine == Kept(Swept, OfSession(SessionOf[o]))
    <3>1. /\ mine \in Seq(Orders)
          /\ Range(mine) = (Range(store) \ dropped) \cap OfSession(SessionOf[o])
        BY <1>0, SweptIsALine, KeptIsTheirs
    <3>2. Len(mine) \in Nat /\ DOMAIN mine = 1..Len(mine)
        BY <3>1, LenProperties
    <3>3. Replaced(o) = {mine[i] : i \in 1..(Len(mine) - MaxPerSession + 1)}
        BY DEF Replaced
    <3> HIDE DEF mine
    <3>4. ASSUME NEW i \in 1..(Len(mine) - MaxPerSession + 1) PROVE mine[i] \in Range(mine)
      <4>1. i \in DOMAIN mine
        BY <3>2
      <4> QED BY <4>1 DEF Range
    <3> QED BY <3>1, <3>3, <3>4 DEF OfSession
  <2>3. CASE /\ store' = Swept /\ dropped' = dropped \cup {o}
             /\ page' = [page EXCEPT ![o] = "failed"] /\ bankid' = [bankid EXCEPT ![o] = "ended"]
    <3>1. /\ page'[o] = "failed" /\ bankid'[o] = "ended"
          /\ \A p \in Orders \ {o} : page'[p] = page[p] /\ bankid'[p] = bankid[p]
        BY <1>0, <2>3 DEF OwnTypeOK
    <3>2. OwnTypeOK'
        BY <1>0, <1>3, <2>3 DEF PutOrder, OwnTypeOK, PageStates, callVars, voteVars
    <3>3. /\ StoreIsALine' /\ StoreWithinLimits' /\ Range(store') \subseteq Range(store)
          /\ \A p \in Orders : p \in Range(store') <=> p \in Range(store) /\ p \notin dropped
        BY <2>3, SweepKeeps
    <3>4. NotStoredYet'
        BY <1>0, <3>1, <3>3 DEF NotStoredYet
    <3> QED BY <1>1, <1>3, <2>1, <2>3, <3>1, <3>2, <3>3, <3>4
  <2>4. CASE /\ Len(Swept) < MaxOrders /\ store' = Append(Without(Swept, Replaced(o)), o)
             /\ dropped' = dropped \cup Replaced(o)
             /\ page' = [page EXCEPT ![o] = "polling"] /\ bankid' = [bankid EXCEPT ![o] = "pending"]
    <3>1. /\ page'[o] = "polling" /\ bankid'[o] = "pending"
          /\ \A p \in Orders \ {o} : page'[p] = page[p] /\ bankid'[p] = bankid[p]
        BY <1>0, <2>4 DEF OwnTypeOK
    <3>2. OwnTypeOK'
        BY <1>0, <1>3, <2>2, <2>4 DEF PutOrder, OwnTypeOK, PageStates, callVars, voteVars
    <3>3. /\ StoreIsALine' /\ StoreWithinLimits'
          /\ Range(store') = ((Range(store) \ dropped) \ Replaced(o)) \cup {o}
        BY <1>0, <2>1, <2>4, PutKeepsLimits
    <3>4. NotStoredYet'
        BY <1>0, <3>1, <3>3 DEF NotStoredYet
    <3> QED BY <1>1, <1>3, <2>1, <2>4, <3>1, <3>2, <3>3, <3>4
  <2> QED BY <1>3, <2>3, <2>4 DEF PutOrder
<1>4. CASE AtBankId(o)
  <2>1. /\ UNCHANGED <<storeVars, callVars, voteVars, page, inFlight, faults>>
        /\ \A p \in Orders : bankid'[p] = "collected" => bankid[p] = "collected"
    BY <1>0, <1>4 DEF AtBankId, OwnTypeOK
  <2>2. OwnTypeOK'
    BY <1>0, <1>4 DEF AtBankId, OwnTypeOK, storeVars, callVars, voteVars
  <2>3. StoreIsALine' /\ StoreWithinLimits' /\ NotStoredYet'
    BY <1>0, <2>1 DEF StoreIsALine, StoreWithinLimits, OfSession, NotStoredYet, storeVars
  <2> QED BY <2>1, <2>2, <2>3, OtherStepsKeep DEF storeVars, voteVars
<1> QED BY <1>2, <1>3, <1>4

\* The network and the voter.
LEMMA PageKeeps ==
    ASSUME OwnIInv, NEW o \in Orders, LoseConnection(o) \/ LeavePage(o)
    PROVE  OwnIInv'
<1> USE OrdersAssumption
<1>0. /\ OwnTypeOK /\ StoreIsALine /\ StoreWithinLimits /\ NotStoredYet
      /\ UNCHANGED <<queueVars, storeVars, callVars, voteVars, bankid>>
      /\ inFlight' = [inFlight EXCEPT ![o] = None]
    BY DEF OwnIInv, LoseConnection, LeavePage
<1>1. inFlight'[o] = None /\ \A p \in Orders \ {o} : inFlight'[p] = inFlight[p]
    BY <1>0 DEF OwnTypeOK
<1>2. StoreIsALine' /\ StoreWithinLimits'
    BY <1>0 DEF StoreIsALine, StoreWithinLimits, OfSession, storeVars
<1>3. CASE LoseConnection(o)
  <2>1. UNCHANGED page /\ faults' # 0 /\ OwnTypeOK'
    BY <1>0, <1>3 DEF LoseConnection, OwnTypeOK, storeVars, callVars, voteVars
  <2>2. WaitsForACall' /\ CallIsAwaited' /\ RecordedIsTold' /\ SignatureIsSomewhere'
    BY <1>0, <1>1, <2>1 DEF OwnIInv, PagesAreRight, WaitsForACall, CallIsAwaited,
        RecordedIsTold, SignatureIsSomewhere, callVars
  <2>3. NotStoredYet'
    BY <1>0, <2>1 DEF NotStoredYet, storeVars
  <2> QED BY <1>2, <2>1, <2>2, <2>3 DEF OwnIInv, PagesAreRight
<1>4. CASE LeavePage(o)
  <2>1. /\ page[o] = "polling" /\ page'[o] = "left" /\ UNCHANGED faults
        /\ \A p \in Orders \ {o} : page'[p] = page[p]
    BY <1>0, <1>4 DEF LeavePage, OwnTypeOK
  <2>2. OwnTypeOK'
    BY <1>0, <1>4 DEF LeavePage, OwnTypeOK, PageStates, storeVars, callVars, voteVars
  <2>3. WaitsForACall' /\ CallIsAwaited'
    BY <1>0, <1>1, <2>1 DEF OwnIInv, PagesAreRight, WaitsForACall, CallIsAwaited, callVars
  <2>4. RecordedIsTold'
    BY <1>0, <2>1 DEF OwnIInv, OwnTypeOK, PagesAreRight, RecordedIsTold, voteVars
  <2>5. SignatureIsSomewhere'
    BY <1>0, <2>1 DEF OwnIInv, PagesAreRight, SignatureIsSomewhere, storeVars, callVars
  <2>6. NotStoredYet'
    BY <1>0, <2>1 DEF NotStoredYet, storeVars
  <2> QED BY <1>2, <2>2, <2>3, <2>4, <2>5, <2>6 DEF OwnIInv, PagesAreRight
<1> QED BY <1>3, <1>4

\* Time, and the closing.
LEMMA TimeKeeps ==
    ASSUME OwnIInv, Expire \/ SweepTimer \/ EndVoting \/ ForgetOrders
    PROVE  OwnIInv'
<1> USE OrdersAssumption
<1>0. OwnTypeOK /\ StoreIsALine /\ StoreWithinLimits /\ NotStoredYet
    BY DEF OwnIInv
<1>1. CASE Expire
  <2>1. Head(Swept) \in Orders
    BY <1>0, <1>1, SweptIsALine DEF Expire
  <2>2. OwnTypeOK'
    BY <1>0, <1>1, <2>1 DEF Expire, OwnTypeOK, callVars, voteVars
  <2>3. StoreIsALine' /\ StoreWithinLimits' /\ NotStoredYet'
    BY <1>0, <1>1 DEF Expire, StoreIsALine, StoreWithinLimits, OfSession, NotStoredYet
  <2> QED BY <1>1, <2>2, <2>3, OtherStepsKeep DEF Expire, voteVars
<1>2. CASE SweepTimer
  <2>1. OwnTypeOK'
    BY <1>0, <1>2 DEF SweepTimer, OwnTypeOK, callVars, voteVars
  <2>2. /\ StoreIsALine' /\ StoreWithinLimits' /\ Range(store') \subseteq Range(store)
        /\ \A p \in Orders : p \in Range(store') <=> p \in Range(store) /\ p \notin dropped
    BY <1>2, SweepKeeps DEF SweepTimer
  <2>3. NotStoredYet'
    BY <1>0, <1>2, <2>2 DEF SweepTimer, NotStoredYet
  <2> QED BY <1>2, <2>1, <2>2, <2>3, OtherStepsKeep DEF SweepTimer, voteVars
<1>3. CASE EndVoting
  <2>1. OwnTypeOK'
    BY <1>0, <1>3 DEF EndVoting, OwnTypeOK, callVars, storeVars
  <2>2. StoreIsALine' /\ StoreWithinLimits' /\ NotStoredYet'
    BY <1>0, <1>3 DEF EndVoting, StoreIsALine, StoreWithinLimits, OfSession, NotStoredYet, storeVars
  <2> QED BY <1>3, <2>1, <2>2, OtherStepsKeep DEF EndVoting, storeVars
<1>4. CASE ForgetOrders
  <2>1. store' = <<>> /\ Range(store') = {} /\ Range(store) \subseteq Orders
    BY <1>0, <1>4 DEF ForgetOrders, Range, StoreIsALine
  <2>2. OwnTypeOK'
    BY <1>0, <1>4, <2>1 DEF ForgetOrders, OwnTypeOK, callVars
  <2>3. StoreIsALine'
    BY <2>1 DEF StoreIsALine, IsInjective
  <2>4. StoreWithinLimits' /\ NotStoredYet'
    BY <1>0, <2>1, <2>3, FewerAreWithin DEF NotStoredYet
  <2>5. \A o \in Orders : o \in Range(store) => o \in dropped'
    BY <1>4 DEF ForgetOrders
  <2> QED BY <1>4, <2>2, <2>3, <2>4, <2>5, OtherStepsKeep DEF ForgetOrders
<1> QED BY <1>1, <1>2, <1>3, <1>4

LEMMA OrdersKeep ==
    ASSUME OrdersIInv, [Next]_vars
    PROVE  OrdersIInv'
<1>0. OwnIInv
    BY DEF OrdersIInv
<1>1. QueueIInv'
    BY OrdersStepQueue, QueueKeeps DEF OrdersIInv
<1>2. ASSUME NEW o \in Orders, NEW h \in Visitors, Poll(h, o)
      PROVE  OwnIInv'
    BY <1>0, <1>2, PollKeeps
<1>3. ASSUME NEW o \in Orders,
             SignStart(o) \/ PutOrder(o) \/ AtBankId(o) \/ LoseConnection(o) \/ LeavePage(o)
      PROVE  OwnIInv'
    BY <1>0, <1>3, StartKeeps, PageKeeps
<1>4. ASSUME UNCHANGED orderVars
      PROVE  OwnIInv'
    BY <1>0, <1>4
    DEF OwnIInv, OwnTypeOK, StoreIsALine, StoreWithinLimits, OfSession, NotStoredYet,
        PagesAreRight, WaitsForACall, CallIsAwaited, RecordedIsTold, SignatureIsSomewhere,
        orderVars, storeVars, callVars, voteVars
<1>5. ASSUME NEW h \in Visitors, ServerStep(h) \/ CollectLost(h) \/ ConnectionClosed(h)
      PROVE  OwnIInv'
  <2>1. CASE CollectAnswered(h) \/ CollectLost(h)
    BY <1>0, <2>1, CollectAnsweredKeeps, CollectLostKeeps
  <2>2. CASE CastRefused(h) \/ QueueWasFull(h) \/ WriteVote(h)
    BY <1>0, <2>2, CastKeeps
  <2>3. CASE Verify(h) \/ ConnectionClosed(h)
    BY <1>4, <2>3 DEF Verify, ConnectionClosed
  <2> QED BY <1>5, <2>1, <2>2, <2>3 DEF ServerStep
<1>6. ASSUME NEW w \in Validators, Validate(w)
      PROVE  OwnIInv'
    BY <1>4, <1>6 DEF Validate
<1>7. ASSUME Expire \/ SweepTimer \/ EndVoting \/ ForgetOrders
      PROVE  OwnIInv'
    BY <1>0, <1>7, TimeKeeps
<1>8. ASSUME UNCHANGED vars
      PROVE  OwnIInv'
    BY <1>4, <1>8 DEF vars
<1>9. OwnIInv'
    BY <1>2, <1>3, <1>5, <1>6, <1>7, <1>8 DEF Next
<1> QED BY <1>1, <1>9 DEF OrdersIInv

LEMMA OrdersBegin == Init => OrdersIInv
<1> SUFFICES ASSUME Init PROVE OrdersIInv
    OBVIOUS
<1> USE OrdersAssumption
<1>1. QueueIInv
    BY QueueBegins DEF Init
<1>2. OwnTypeOK
  <2>1. 0 \in Nat /\ 0 \in 0..MaxFaults
    OBVIOUS
  <2> QED BY <2>1 DEF Init, OwnTypeOK, PageStates
<1>3. store = <<>> /\ Range(store) = {} /\ StoreIsALine
    BY DEF Init, Range, StoreIsALine, IsInjective
<1>4. PagesAreRight /\ NotStoredYet
    BY <1>3 DEF Init, PagesAreRight, WaitsForACall, CallIsAwaited, RecordedIsTold,
        SignatureIsSomewhere, NotStoredYet
<1>5. StoreWithinLimits
  <2>1. Len(store) = 0 /\ \A s : Range(store) \cap OfSession(s) = {}
    BY <1>3
  <2>2. Cardinality({}) = 0 /\ 0 <= MaxOrders /\ 0 <= MaxPerSession
    BY FS_EmptySet
  <2> QED BY <2>1, <2>2 DEF StoreWithinLimits
<1> QED BY <1>1, <1>2, <1>3, <1>4, <1>5 DEF OrdersIInv, OwnIInv

LEMMA OrdersInvariant == Spec => []OrdersIInv
BY OrdersBegin, OrdersKeep, PTL DEF Spec

\* Whatever is polled, lost, left, expired or replaced, and whoever stands in the queue
\* meanwhile: who has signed does not sign again, "the vote was not cast" is true where
\* no answer is lost, and no session has more orders in memory than it may.
THEOREM OrdersAlwaysHold == Spec => []OrdersHold
<1>1. OrdersIInv => OrdersHold
  <2> SUFFICES ASSUME OrdersIInv PROVE OrdersHold
    OBVIOUS
  <2>1. OwnIInv /\ QueueTypeOK
    BY DEF OrdersIInv, QueueIInv
  <2>2. TypeOK
    BY <2>1 DEF OwnIInv, OwnTypeOK, StoreIsALine, TypeOK
  <2>3. SignedIsKept
    BY <2>1, LivesInTheStore DEF SignedIsKept, OwnIInv, PagesAreRight, SignatureIsSomewhere
  <2>4. FailedIsTrue
    BY <2>1 DEF FailedIsTrue, OwnIInv, PagesAreRight, RecordedIsTold
  <2>5. StoreWithinLimits
    BY <2>1 DEF OwnIInv
  <2> QED BY <2>2, <2>3, <2>4, <2>5 DEF OrdersHold
<1> QED BY <1>1, OrdersInvariant, PTL

\* The orders, the pages and the calls take the queue one of its own steps further, or
\* leave it alone: what is proved of the queue alone holds of it among them.
THEOREM OrdersKeepTheQueue == Spec => QueueSpec
<1>1. Init => QueueInit
    BY DEF Init
<1>2. [Next]_vars => [QueueNext]_queueVars
    BY OrdersStepQueue
<1> QED BY <1>1, <1>2, PTL DEF Spec, QueueSpec

----------------------------------------------------------------------------
(***************************************************************************)
(* BankID's orders and the client's calls, for any orders, calls and       *)
(* times: what BankID may have acted on is not sent again, no call         *)
(* outlives its deadline, and an order that has ended is not kept.         *)
(***************************************************************************)
CallRecords ==
    [at : {"idle", "attempt", "wait"}, method : Methods, order : OrderRefs \cup {NoOrder},
     began : Nat, by : Nat, connectBy : Nat, connected : BOOLEAN,
     answer : {"none", "started", "pending", "complete", "failed", "cancelled",
               "maintenance", "refused"},
     maintenance : 0 .. MaintenanceRetries, connects : 0 .. ConnectRetries,
     mayHaveActed : {0, 1}]

\* BankID may have acted only on an attempt that has come to a connection.
ActedOnConnected(r) ==
    /\ r.answer # "none" => r.connected
    /\ r.mayHaveActed = 1 <=> r.at = "attempt" /\ r.connected

\* An attempt or a wait ends before the call's time is up, and is not overdue at time n.
NotOverdue(r, n) ==
    r.at # "idle" => r.began <= n /\ n <= r.by /\ r.by <= r.began + TotalTimeout

IsGoodCall(r, n) == r \in CallRecords /\ ActedOnConnected(r) /\ NotOverdue(r, n)

BankIInv ==
    /\ now \in 1 .. MaxTime
    /\ call \in [Calls -> CallRecords]
    /\ \A c \in Calls : IsGoodCall(call[c], now)
    /\ service \in [OrderRefs -> {"none", "pending", "identified", "cancelled", "ended"}]
    /\ expires \in [OrderRefs -> Nat] /\ kept \in [OrderRefs -> Nat]
    /\ told \in [OrderRefs -> {"none", "pending", "complete", "failed"}]
    /\ EndedIsNotKept

\* Time that is left is a number, and none is left beyond what was set.
LEMMA RemainingIsLeft ==
    ASSUME NEW began \in Nat, now \in Nat, began <= now, now <= began + TotalTimeout
    PROVE  /\ TimeOfAttempt(began) \in Nat /\ now + TimeOfAttempt(began) <= began + TotalTimeout
           /\ Remaining(began) \in Nat /\ now + Remaining(began) <= began + TotalTimeout
           /\ Smaller(ConnectTimeout, TimeOfAttempt(began)) \in Nat
<1>1. RequestTimeout \in Nat /\ ConnectTimeout \in Nat /\ TotalTimeout \in Nat
    BY BankAssumption
<1> QED BY <1>1 DEF Remaining, TimeOfAttempt, Smaller

\* An attempt begins as a good call.
LEMMA AttemptIsGood ==
    ASSUME now \in Nat, NEW r \in CallRecords, r.mayHaveActed = 0,
           r.began <= now, now <= r.began + TotalTimeout
    PROVE  IsGoodCall(Attempt(r), now)
<1> DEFINE a == Attempt(r)
<1>1. /\ TimeOfAttempt(r.began) \in Nat
      /\ now + TimeOfAttempt(r.began) <= r.began + TotalTimeout
      /\ Smaller(ConnectTimeout, TimeOfAttempt(r.began)) \in Nat
    BY RemainingIsLeft DEF CallRecords
<1>2. /\ a.at = "attempt" /\ a.connected = FALSE /\ a.answer = "none"
      /\ a.mayHaveActed = 0 /\ a.began = r.began /\ a.by = now + TimeOfAttempt(r.began)
    BY DEF Attempt, CallRecords
<1>3. a \in CallRecords
  <2>1. /\ now + TimeOfAttempt(r.began) \in Nat
        /\ now + Smaller(ConnectTimeout, TimeOfAttempt(r.began)) \in Nat
      BY <1>1
  <2> QED BY <2>1 DEF Attempt, CallRecords
<1>4. ActedOnConnected(a)
    BY <1>2 DEF ActedOnConnected
<1>5. NotOverdue(a, now)
  <2>1. r.began \in Nat
      BY DEF CallRecords
  <2> QED BY <1>1, <1>2, <2>1 DEF NotOverdue
<1> QED BY <1>3, <1>4, <1>5 DEF IsGoodCall

LEMMA IdleIsGood ==
    ASSUME now \in Nat
    PROVE  Idle \in CallRecords /\ IsGoodCall(Idle, now)
<1>1. Idle \in CallRecords
    BY BankAssumption DEF Idle, CallRecords, Methods
<1> QED BY <1>1 DEF Idle, IsGoodCall, ActedOnConnected, NotOverdue

LEMMA CallIsGood ==
    ASSUME now \in Nat, NEW method \in Methods, NEW o \in OrderRefs \cup {NoOrder}
    PROVE  IsGoodCall(Call(method, o), now)
<1> DEFINE r == [Idle EXCEPT !.method = method, !.order = o, !.began = now]
<1>1. r \in CallRecords /\ r.mayHaveActed = 0 /\ r.began = now
    BY IdleIsGood DEF Idle, CallRecords
<1>2. r.began <= now /\ now <= r.began + TotalTimeout
    BY <1>1, BankAssumption
<1>3. IsGoodCall(Attempt(r), now)
    BY <1>1, <1>2, AttemptIsGood
<1> QED BY <1>3 DEF Call

\* One call goes on, and what is kept and told goes together.
LEMMA OneCallGoesOn ==
    ASSUME BankIInv, NEW c \in Calls, NEW r, IsGoodCall(r, now), call' = [call EXCEPT ![c] = r],
           now' = now,
           service' \in [OrderRefs -> {"none", "pending", "identified", "cancelled", "ended"}],
           expires' \in [OrderRefs -> Nat], kept' \in [OrderRefs -> Nat],
           told' \in [OrderRefs -> {"none", "pending", "complete", "failed"}],
           EndedIsNotKept'
    PROVE  BankIInv'
<1>1. r \in CallRecords
    BY DEF IsGoodCall
<1>2. call' \in [Calls -> CallRecords]
    BY <1>1 DEF BankIInv
<1>3. \A d \in Calls : IsGoodCall(call'[d], now')
    BY DEF BankIInv
<1> QED BY <1>2, <1>3 DEF BankIInv

\* A call that ends in an error, whatever the error.
LEMMA EndsKeeps ==
    ASSUME BankIInv, NEW c \in Calls, NEW code, Ends(c, code), UNCHANGED <<now, service, expires>>
    PROVE  BankIInv'
<1> DEFINE o == call[c].order
<1>1. now \in Nat /\ o \in OrderRefs \cup {NoOrder} /\ IsGoodCall(Idle, now)
      /\ IsGoodCall(Call("cancel", o), now)
  <2>1. now \in Nat /\ o \in OrderRefs \cup {NoOrder} /\ "cancel" \in Methods
      BY BankAssumption DEF BankIInv, CallRecords, Methods
  <2> QED BY <2>1, IdleIsGood, CallIsGood
<1>2. /\ kept' \in [OrderRefs -> Nat]
      /\ told' \in [OrderRefs -> {"none", "pending", "complete", "failed"}]
      /\ EndedIsNotKept'
    BY DEF Ends, BankIInv, EndedIsNotKept
<1>3. PICK r : call' = [call EXCEPT ![c] = r] /\ IsGoodCall(r, now)
    BY <1>1 DEF Ends
<1>4. service' \in [OrderRefs -> {"none", "pending", "identified", "cancelled", "ended"}]
      /\ expires' \in [OrderRefs -> Nat]
    BY DEF BankIInv
<1> QED BY <1>2, <1>3, <1>4, OneCallGoesOn

\* What the steps of a call know of it.
LEMMA OfACall ==
    ASSUME BankIInv, NEW c \in Calls
    PROVE  /\ now \in Nat /\ call[c] \in CallRecords /\ IsGoodCall(call[c], now)
           /\ call[c].began \in Nat /\ call[c].by \in Nat /\ TotalTimeout \in Nat
           /\ call[c].at # "idle" =>
                 call[c].began <= now /\ now <= call[c].by /\ now <= call[c].began + TotalTimeout
           /\ call[c].mayHaveActed \in {0, 1}
           /\ call[c].mayHaveActed = 1 <=> call[c].at = "attempt" /\ call[c].connected
           /\ call[c].answer # "none" => call[c].connected
<1>1. now \in Nat /\ call[c] \in CallRecords /\ IsGoodCall(call[c], now) /\ TotalTimeout \in Nat
    BY BankAssumption DEF BankIInv
<1>2. call[c].began \in Nat /\ call[c].by \in Nat /\ call[c].mayHaveActed \in {0, 1}
    BY <1>1 DEF CallRecords
<1> QED BY <1>1, <1>2 DEF IsGoodCall, ActedOnConnected, NotOverdue

LEMMA BeginKeeps ==
    ASSUME BankIInv, NEW c \in Calls, Begin(c)
    PROVE  BankIInv'
<1>1. PICK r : call' = [call EXCEPT ![c] = r] /\ IsGoodCall(r, now)
  <2>1. \A m \in Methods, o \in OrderRefs \cup {NoOrder} : IsGoodCall(Call(m, o), now)
      BY OfACall, CallIsGood
  <2> QED BY <2>1 DEF Begin, Methods
<1>2. UNCHANGED <<now, service, expires, kept, told>>
    BY DEF Begin
<1>3. EndedIsNotKept'
    BY <1>2 DEF BankIInv, EndedIsNotKept
<1> QED BY <1>1, <1>2, <1>3, OneCallGoesOn DEF BankIInv

LEMMA BeginCancelKeeps ==
    ASSUME BankIInv, NEW c \in Calls, BeginCancel(c)
    PROVE  BankIInv'
<1>1. PICK o \in OrderRefs :
         /\ call' = [call EXCEPT ![c] = Call("cancel", o)]
         /\ kept' = [kept EXCEPT ![o] = 0] /\ told' = [told EXCEPT ![o] = "failed"]
    BY DEF BeginCancel
<1>2. IsGoodCall(Call("cancel", o), now)
    BY OfACall, CallIsGood DEF Methods
<1>3. UNCHANGED <<now, service, expires>>
    BY DEF BeginCancel
<1>4. EndedIsNotKept'
    BY <1>1 DEF BankIInv, EndedIsNotKept
<1>5. kept' \in [OrderRefs -> Nat]
      /\ told' \in [OrderRefs -> {"none", "pending", "complete", "failed"}]
    BY <1>1 DEF BankIInv
<1> QED BY <1>1, <1>2, <1>3, <1>4, <1>5, OneCallGoesOn DEF BankIInv

LEMMA ConnectKeeps ==
    ASSUME BankIInv, NEW c \in Calls, Connect(c)
    PROVE  BankIInv'
<1> DEFINE r == [call[c] EXCEPT !.connected = TRUE, !.mayHaveActed = @ + 1]
<1>1. call' = [call EXCEPT ![c] = r] /\ UNCHANGED <<now, service, expires, kept, told>>
    BY DEF Connect, BankIInv
<1>2. call[c].mayHaveActed = 0 /\ call[c].at = "attempt"
    BY OfACall DEF Connect
<1>3. r \in CallRecords /\ r.at = "attempt" /\ r.connected /\ r.mayHaveActed = 1
      /\ r.began = call[c].began /\ r.by = call[c].by
  <2>1. call[c].mayHaveActed + 1 = 1 /\ call[c] \in CallRecords
      BY <1>2, OfACall
  <2> QED BY <1>2, <2>1 DEF CallRecords
<1>4. IsGoodCall(r, now)
    BY <1>2, <1>3, OfACall DEF IsGoodCall, ActedOnConnected, NotOverdue
<1>5. EndedIsNotKept'
    BY <1>1 DEF BankIInv, EndedIsNotKept
<1> QED BY <1>1, <1>4, <1>5, OneCallGoesOn DEF BankIInv

\* An answer, and the order it is about, change nothing else of the call.
LEMMA AnsweredIsGood ==
    ASSUME BankIInv, NEW c \in Calls, call[c].connected,
           NEW answer \in {"started", "pending", "complete", "failed", "cancelled",
                           "maintenance", "refused"},
           NEW o \in OrderRefs \cup {NoOrder}
    PROVE  IsGoodCall([call[c] EXCEPT !.answer = answer, !.order = o], now)
<1> DEFINE r == [call[c] EXCEPT !.answer = answer, !.order = o]
<1>1. r \in CallRecords /\ r.at = call[c].at /\ r.connected = call[c].connected
      /\ r.mayHaveActed = call[c].mayHaveActed /\ r.began = call[c].began /\ r.by = call[c].by
    BY OfACall DEF CallRecords
<1> QED BY <1>1, OfACall DEF IsGoodCall, ActedOnConnected, NotOverdue

LEMMA ServeKeeps ==
    ASSUME BankIInv, NEW c \in Calls, Serve(c) \/ Refuse(c)
    PROVE  BankIInv'
<1>1. PICK answer \in {"started", "pending", "complete", "failed", "cancelled",
                       "maintenance", "refused"}, o \in OrderRefs \cup {NoOrder} :
         call' = [call EXCEPT ![c] = [call[c] EXCEPT !.answer = answer, !.order = o]]
  <2>1. call[c].order \in OrderRefs \cup {NoOrder} /\ call[c] \in CallRecords
        /\ call \in [Calls -> CallRecords]
      BY OfACall DEF CallRecords, BankIInv
  <2>2. \A answer : Replied(c, answer) =>
           call' = [call EXCEPT ![c] = [call[c] EXCEPT !.answer = answer, !.order = call[c].order]]
      BY <2>1 DEF Replied, CallRecords
  <2>3. ASSUME NEW fresh \in OrderRefs,
               call' = [call EXCEPT ![c].answer = "started", ![c].order = fresh]
        PROVE  call' = [call EXCEPT ![c] = [call[c] EXCEPT !.answer = "started", !.order = fresh]]
      BY <2>1, <2>3
  <2>4. CollectAnswer(call[c].order) \in {"failed", "complete", "pending"}
      BY DEF CollectAnswer
  <2>5. CASE Refuse(c)
      BY <2>1, <2>2, <2>5 DEF Refuse
  <2>6. CASE Serve(c)
    <3>1. CASE call[c].method = "start"
      <4>1. PICK fresh \in OrderRefs :
                call' = [call EXCEPT ![c].answer = "started", ![c].order = fresh]
          BY <2>6, <3>1 DEF Serve
      <4> QED BY <2>3, <4>1
    <3>2. CASE call[c].method # "start"
      <4>1. PICK answer \in {"failed", "complete", "pending", "cancelled"} : Replied(c, answer)
          BY <2>4, <2>6, <3>2 DEF Serve
      <4>2. call' = [call EXCEPT ![c] =
                        [call[c] EXCEPT !.answer = answer, !.order = call[c].order]]
          BY <2>2, <4>1
      <4>3. answer \in {"started", "pending", "complete", "failed", "cancelled",
                        "maintenance", "refused"}
          BY <4>1
      <4> QED BY <2>1, <4>2, <4>3
    <3> QED BY <3>1, <3>2
  <2> QED BY <2>5, <2>6
<1>2. call[c].connected /\ UNCHANGED <<now, kept, told>>
    BY DEF Serve, Refuse
<1>3. IsGoodCall([call[c] EXCEPT !.answer = answer, !.order = o], now)
    BY <1>2, AnsweredIsGood
<1>4. service' \in [OrderRefs -> {"none", "pending", "identified", "cancelled", "ended"}]
      /\ expires' \in [OrderRefs -> Nat]
  <2>1. now + OrderLifetime \in Nat
      BY BankAssumption DEF BankIInv
  <2> QED BY <2>1 DEF Serve, Refuse, BankIInv
<1>5. EndedIsNotKept'
    BY <1>2 DEF BankIInv, EndedIsNotKept
<1> QED BY <1>1, <1>2, <1>3, <1>4, <1>5, OneCallGoesOn DEF BankIInv

LEMMA ConnectDeadlineKeeps ==
    ASSUME BankIInv, NEW c \in Calls, ConnectDeadline(c)
    PROVE  BankIInv'
<1>1. UNCHANGED <<now, service, expires>> /\ call[c].at = "attempt" /\ ~call[c].connected
    BY DEF ConnectDeadline
<1>2. CASE Ends(c, "timeout")
    BY <1>1, <1>2, EndsKeeps
<1>3. CASE ~Ends(c, "timeout")
  <2> DEFINE r == [call[c] EXCEPT !.connects = @ + 1]
  <2>1. /\ call[c].connects < ConnectRetries
        /\ call' = [call EXCEPT ![c] = Attempt(r)] /\ UNCHANGED <<kept, told>>
    <3>1. call[c].connects \in 0 .. ConnectRetries /\ ConnectRetries \in Nat
        BY OfACall, BankAssumption DEF CallRecords
    <3>2. ConnectAgain(c)
        BY DEF ConnectDeadline
    <3>3. ~(call[c].connects >= ConnectRetries)
          /\ call' = [call EXCEPT ![c] = Attempt([call[c] EXCEPT !.connects = @ + 1])]
          /\ UNCHANGED <<kept, told>>
        BY <1>3, <3>2 DEF ConnectAgain
    <3>4. call[c].connects < ConnectRetries
        BY <3>1, <3>3
    <3> QED BY <3>3, <3>4
  <2>2. r \in CallRecords /\ r.mayHaveActed = 0 /\ r.began = call[c].began
    <3>1. call[c].connects + 1 \in 0 .. ConnectRetries /\ call[c].mayHaveActed = 0
        BY <1>1, <2>1, OfACall, BankAssumption DEF CallRecords
    <3> QED BY <3>1, OfACall DEF CallRecords
  <2>3. IsGoodCall(Attempt(r), now)
    <3>1. now \in Nat /\ r.began <= now /\ now <= r.began + TotalTimeout
        BY <1>1, <2>2, OfACall
    <3> QED BY <2>2, <3>1, AttemptIsGood
  <2>4. EndedIsNotKept'
      BY <2>1 DEF BankIInv, EndedIsNotKept
  <2> QED BY <1>1, <2>1, <2>3, <2>4, OneCallGoesOn DEF BankIInv
<1> QED BY <1>2, <1>3

LEMMA MaintenanceKeeps ==
    ASSUME BankIInv, NEW c \in Calls, Maintenance(c)
    PROVE  BankIInv'
<1> DEFINE delay == RetryDelay * (call[c].maintenance + 1)
           r == [call[c] EXCEPT !.at = "wait", !.by = now + delay, !.maintenance = @ + 1,
                                !.mayHaveActed = @ - 1]
<1>1. UNCHANGED <<now, service, expires>> /\ call[c].at = "attempt"
      /\ call[c].answer = "maintenance"
    BY DEF Maintenance
<1>2. CASE \E code : Ends(c, code)
    BY <1>1, <1>2, EndsKeeps
<1>3. CASE ~\E code : Ends(c, code)
  <2>1. call[c].maintenance \in 0 .. MaintenanceRetries /\ MaintenanceRetries \in Nat
        /\ call[c].maintenance + 1 \in Nat /\ RetryDelay \in Nat
      BY OfACall, BankAssumption DEF CallRecords
  <2>2. \A m, n \in Nat : m * n \in Nat
      OBVIOUS
  <2>3. delay \in Nat
      BY <2>1, <2>2
  <2>4. /\ ~(call[c].maintenance >= MaintenanceRetries) /\ ~(delay >= Remaining(call[c].began))
        /\ call' = [call EXCEPT ![c] = r] /\ UNCHANGED <<kept, told>>
      BY <1>3 DEF Maintenance, BankIInv
  <2> HIDE DEF delay
  <2>5. Remaining(call[c].began) \in Nat
        /\ now + Remaining(call[c].began) <= call[c].began + TotalTimeout
      BY <1>1, OfACall, RemainingIsLeft
  <2>6. /\ now + delay \in Nat /\ now <= now + delay
        /\ now + delay <= call[c].began + TotalTimeout
        /\ call[c].maintenance + 1 \in 0 .. MaintenanceRetries
      BY <2>1, <2>3, <2>4, <2>5, OfACall
  <2>7. call[c].mayHaveActed = 1 /\ call[c].connected
      BY <1>1, OfACall
  <2>8. r \in CallRecords /\ r.at = "wait" /\ r.connected /\ r.mayHaveActed = 0
        /\ r.began = call[c].began /\ r.by = now + delay
    <3>1. call[c].mayHaveActed - 1 = 0 /\ call[c] \in CallRecords
        BY <2>7, OfACall
    <3> QED BY <2>6, <2>7, <3>1 DEF CallRecords
  <2>9. IsGoodCall(r, now)
      BY <1>1, <2>6, <2>8, OfACall DEF IsGoodCall, ActedOnConnected, NotOverdue
  <2>10. EndedIsNotKept'
      BY <2>4 DEF BankIInv, EndedIsNotKept
  <2> QED BY <1>1, <2>4, <2>9, <2>10, OneCallGoesOn DEF BankIInv
<1> QED BY <1>2, <1>3

LEMMA AttemptAgainKeeps ==
    ASSUME BankIInv, NEW c \in Calls, AttemptAgain(c)
    PROVE  BankIInv'
<1>1. UNCHANGED <<now, service, expires, kept, told>> /\ call[c].at = "wait"
      /\ call' = [call EXCEPT ![c] = Attempt(call[c])]
    BY DEF AttemptAgain, BankIInv
<1>2. /\ now \in Nat /\ call[c] \in CallRecords /\ call[c].mayHaveActed = 0
      /\ call[c].began <= now /\ now <= call[c].began + TotalTimeout
    BY <1>1, OfACall
<1>3. IsGoodCall(Attempt(call[c]), now)
    BY <1>2, AttemptIsGood
<1>4. EndedIsNotKept'
    BY <1>1 DEF BankIInv, EndedIsNotKept
<1> QED BY <1>1, <1>3, <1>4, OneCallGoesOn DEF BankIInv

\* What is swept was kept, or is kept no more.
LEMMA SweptIsKept ==
    ASSUME BankIInv
    PROVE  SweptNow \in [OrderRefs -> Nat] /\ \A o \in OrderRefs : SweptNow[o] \in {kept[o], 0}
BY DEF BankIInv, SweptNow

LEMMA AnswerKeeps ==
    ASSUME BankIInv, NEW c \in Calls, Answer(c)
    PROVE  BankIInv'
<1> DEFINE o == call[c].order
<1>1. UNCHANGED <<now, service, expires>>
    BY DEF Answer
<1>2. CASE Ends(c, "refused")
    BY <1>1, <1>2, EndsKeeps
<1>3. CASE ~Ends(c, "refused")
  <2>1. call' = [call EXCEPT ![c] = Idle] /\ IsGoodCall(Idle, now)
      BY <1>3, OfACall, IdleIsGood DEF Answer
  <2>2. /\ kept' \in [OrderRefs -> Nat]
        /\ told' \in [OrderRefs -> {"none", "pending", "complete", "failed"}]
    <3>1. now + OrderLifetime \in Nat
        BY BankAssumption DEF BankIInv
    <3> QED BY <1>3, <3>1, SweptIsKept DEF Answer, BankIInv
  <2>3. EndedIsNotKept'
      BY <1>3, SweptIsKept DEF Answer, BankIInv, EndedIsNotKept
  <2> QED BY <1>1, <2>1, <2>2, <2>3, OneCallGoesOn DEF BankIInv
<1> QED BY <1>2, <1>3

LEMMA TickKeeps ==
    ASSUME BankIInv, Tick
    PROVE  BankIInv'
<1>1. UNCHANGED <<call, service, expires, kept, told>> /\ now' = now + 1 /\ now < MaxTime
      /\ \A c \in Calls : ~IsDue(c)
    BY DEF Tick
<1>2. now \in Nat /\ now' \in 1 .. MaxTime
    BY <1>1, BankAssumption DEF BankIInv
<1>3. ASSUME NEW c \in Calls
      PROVE  IsGoodCall(call'[c], now')
  <2>1. call[c].at # "idle" => now # call[c].by
      BY <1>1 DEF IsDue
  <2>2. NotOverdue(call[c], now + 1)
      BY <2>1, OfACall DEF IsGoodCall, NotOverdue
  <2> QED BY <1>1, <2>2, OfACall DEF IsGoodCall
<1>4. EndedIsNotKept'
    BY <1>1 DEF BankIInv, EndedIsNotKept
<1> QED BY <1>1, <1>2, <1>3, <1>4 DEF BankIInv

LEMMA OrderKeeps ==
    ASSUME BankIInv, (\E o \in OrderRefs : Identify(o) \/ ForgottenByClosing(o)) \/ QrData
    PROVE  BankIInv'
<1>1. /\ UNCHANGED <<now, call, expires, told>>
      /\ service' \in [OrderRefs -> {"none", "pending", "identified", "cancelled", "ended"}]
      /\ kept' \in {kept, SweptNow}
    BY DEF Identify, ForgottenByClosing, QrData, BankIInv
<1>2. kept' \in [OrderRefs -> Nat] /\ EndedIsNotKept'
    BY <1>1, SweptIsKept DEF BankIInv, EndedIsNotKept
<1> QED BY <1>1, <1>2 DEF BankIInv

LEMMA BankStarts ==
    ASSUME BankInit
    PROVE  BankIInv
<1>1. now \in 1 .. MaxTime /\ now \in Nat
    BY BankAssumption DEF BankInit
<1>2. call \in [Calls -> CallRecords] /\ \A c \in Calls : IsGoodCall(call[c], now)
    BY <1>1, IdleIsGood DEF BankInit
<1> QED BY <1>1, <1>2 DEF BankInit, BankIInv, EndedIsNotKept

LEMMA BankKeeps ==
    ASSUME BankIInv, [BankNext]_bankVars
    PROVE  BankIInv'
<1>1. ASSUME NEW c \in Calls, CallNext(c)
      PROVE  BankIInv'
  <2>1. CASE AnswerDeadline(c) \/ AttemptFails(c)
    <3>1. UNCHANGED <<now, service, expires>> /\ \E code : Ends(c, code)
        BY <2>1 DEF AnswerDeadline, AttemptFails
    <3> QED BY <3>1, EndsKeeps
  <2>2. CASE ~(AnswerDeadline(c) \/ AttemptFails(c))
      BY <1>1, <2>2, BeginKeeps, BeginCancelKeeps, ConnectKeeps, ServeKeeps,
         ConnectDeadlineKeeps, MaintenanceKeeps, AttemptAgainKeeps, AnswerKeeps DEF CallNext
  <2> QED BY <2>1, <2>2
<1>2. CASE UNCHANGED bankVars
    BY <1>2 DEF bankVars, BankIInv, EndedIsNotKept
<1> QED BY <1>1, <1>2, OrderKeeps, TickKeeps DEF BankNext

LEMMA BankImplies ==
    ASSUME BankIInv
    PROVE  BankHolds
<1>1. BankTypeOK
    BY OfACall DEF BankIInv, BankTypeOK, CallRecords
<1>2. IsSentOnce
    BY OfACall DEF IsSentOnce
<1>3. EndsInTime
    BY OfACall DEF EndsInTime
<1> QED BY <1>1, <1>2, <1>3 DEF BankIInv, BankHolds

\* Whatever times and numbers of retries are set, and whatever BankID and the network do:
\* a request that BankID may have acted on is not sent again, no call outlives its time,
\* and no secret is kept of an order whose page was told that it has ended
\* (BankIdRpClient.ts call and once, bankid collect).
THEOREM BankAlwaysHolds == BankSpec => []BankHolds
<1>1. BankInit => BankIInv
    BY BankStarts
<1>2. BankIInv /\ [BankNext]_bankVars => BankIInv'
    BY BankKeeps
<1>3. BankIInv => BankHolds
    BY BankImplies
<1> QED BY <1>1, <1>2, <1>3, PTL DEF BankSpec
===============================================================================
