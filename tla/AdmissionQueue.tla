--------------------------- MODULE AdmissionQueue ---------------------------
(***************************************************************************)
(* The admission queue for the hashing of personal numbers: so many tasks  *)
(* at once in the memory of one process, so many in line, the rest told to *)
(* come back.  Nobody leaves the line: a task waits until it is called.    *)
(* Each action is one synchronous block of the event loop.                 *)
(***************************************************************************)
EXTENDS Naturals, Sequences, FiniteSets, SequencesExt

CONSTANTS
    Tasks,           \* calls of runAdmitted
    MaxConcurrent,   \* MAX_CONCURRENT
    MaxQueued        \* MAX_QUEUED

ASSUME AdmissionAssumption ==
    /\ IsFiniteSet(Tasks)
    /\ MaxConcurrent \in Nat \ {0}
    /\ MaxQueued \in Nat

VARIABLES
    active,   \* tasks that have a place
    line,     \* `waiting`: those in line, in the order they came
    task      \* where each task is

admissionVars == <<active, line, task>>

TaskStages == {"out", "waiting", "running", "refused", "done"}

AdmissionTypeOK ==
    /\ active \in Nat
    /\ line \in Seq(Tasks)
    /\ task \in [Tasks -> TaskStages]

AdmissionInit ==
    /\ active = 0
    /\ line = <<>>
    /\ task = [t \in Tasks |-> "out"]

----------------------------------------------------------------------------
Becomes(t, name) == task' = [task EXCEPT ![t] = name]

\* Flawed: a place that is free is taken past those in line.
HasRoom_OneMore == active <= MaxConcurrent

HasRoom == active < MaxConcurrent

\* runAdmitted, up to the task or its promise: AdmissionQueueFull is "refused".
Arrive(t) ==
    /\ task[t] = "out"
    /\ \/ HasRoom /\ active' = active + 1 /\ Becomes(t, "running") /\ UNCHANGED line
       \/ /\ ~HasRoom /\ Len(line) < MaxQueued
          /\ line' = Append(line, t) /\ Becomes(t, "waiting") /\ UNCHANGED active
       \/ ~HasRoom /\ Len(line) >= MaxQueued /\ Becomes(t, "refused") /\ UNCHANGED <<active, line>>

\* Flawed: nobody is called, and the place is not returned either.
Release_KeepsThePlace(t) == Becomes(t, "done") /\ UNCHANGED <<active, line>>

\* release(): the place is returned, and given to the first in line at once.
Release(t) ==
    \/ /\ line = <<>>
       /\ active' = active - 1
       /\ Becomes(t, "done")
       /\ UNCHANGED line
    \/ /\ line # <<>>
       /\ line' = Tail(line)
       /\ task' = [task EXCEPT ![t] = "done", ![Head(line)] = "running"]
       /\ UNCHANGED active

\* The task ends or throws; `finally`.
TaskEnds(t) == task[t] = "running" /\ Release(t)

Departs(t) ==
    /\ task[t] \in {"refused", "done"}
    /\ Becomes(t, "out")
    /\ UNCHANGED <<active, line>>

AdmissionNext == \E t \in Tasks : Arrive(t) \/ TaskEnds(t) \/ Departs(t)

AdmissionSpec == AdmissionInit /\ [][AdmissionNext]_admissionVars

----------------------------------------------------------------------------
(***************************************************************************)
(* Properties                                                              *)
(***************************************************************************)
Stands(name) == {t \in Tasks : task[t] = name}

\* A place is never lost and never given twice, whatever a task throws, and
\* nobody stands in line, or twice in it, while a place is free.
PlacesAreTrue ==
    /\ active = Cardinality(Stands("running"))
    /\ active <= MaxConcurrent
    /\ Range(line) = Stands("waiting") /\ IsInjective(line)
    /\ Len(line) <= MaxQueued
    /\ line # <<>> => active = MaxConcurrent

\* Who came first is called first: nobody in line is overtaken, by one who came
\* later or by one who never stood in it.
CalledInOrder ==
    \A t \in Tasks : task[t] # "running" /\ task'[t] = "running" => line = <<>> \/ t = Head(line)

NobodyIsOvertaken == [][CalledInOrder]_admissionVars
=============================================================================
