-------------------------------- MODULE Saga ---------------------------------
(***************************************************************************)
(* common/services/saga.service.ts: executeSaga runs its steps one after   *)
(* the other, executeParallelSteps all at once; when one fails, compensate *)
(* undoes them in reverse order.  executeWithTimeout only stops waiting:   *)
(* the work it started goes on and may still take effect.                  *)
(***************************************************************************)
EXTENDS Naturals, Sequences

CONSTANTS
    Count,        \* number of steps
    Modes,        \* subset of {"sequential", "parallel"}
    Compensable   \* choices of the steps that have a compensation

VARIABLES
    mode, compensable,
    phase,    \* "running", "compensating", "succeeded", "failed"
    at,       \* the step executed or compensated
    work,     \* what the action of each step does
    seen,     \* what the saga has seen of each action
    undo,     \* what the compensation of each step does
    undone,   \* compensatedSteps
    begun     \* compensations in the order in which they were begun

vars == <<mode, compensable, phase, at, work, seen, undo, undone, begun>>

Steps  == 1..Count
Effect == {"idle", "running", "done", "failed"}

Init ==
    /\ mode \in Modes /\ compensable \in Compensable
    /\ phase = "running"
    /\ at    = IF mode = "sequential" THEN 1 ELSE 0
    /\ work  = [s \in Steps |-> "idle"]
    /\ seen  = [s \in Steps |-> "nothing"]
    /\ undo  = [s \in Steps |-> "idle"]
    /\ undone = <<>> /\ begun = <<>>

\* executeWithTimeout(step.action): the step at hand, or every step at once.
StartWork ==
    /\ phase = "running"
    /\ LET now == IF mode = "sequential" THEN {at} \cap Steps ELSE Steps
       IN  /\ \E s \in now : work[s] = "idle"
           /\ work' = [s \in Steps |-> IF s \in now THEN "running" ELSE work[s]]
    /\ UNCHANGED <<mode, compensable, phase, at, seen, undo, undone, begun>>

\* An action takes effect or fails, also when nobody waits for it any more.
EndWork(s) ==
    /\ work[s] = "running"
    /\ \E how \in {"done", "failed"} :
          /\ work' = [work EXCEPT ![s] = how]
          /\ seen' = [seen EXCEPT ![s] = IF @ = "timeout" THEN @ ELSE how]
    /\ UNCHANGED <<mode, compensable, phase, at, undo, undone, begun>>

TimeOut(s) ==
    /\ work[s] = "running" /\ seen[s] = "nothing"
    /\ seen' = [seen EXCEPT ![s] = "timeout"]
    /\ UNCHANGED <<mode, compensable, phase, at, work, undo, undone, begun>>

\* The loop of executeSaga goes on, ends, or hands slice(0, i) to compensate;
\* Promise.all hands it every step once all have ended.
NextStep ==
    /\ phase = "running" /\ mode = "sequential" /\ seen[at] # "nothing"
    /\ IF seen[at] = "done"
       THEN IF at = Count THEN phase' = "succeeded" /\ UNCHANGED at
                          ELSE at' = at + 1 /\ UNCHANGED phase
       ELSE phase' = "compensating" /\ at' = at - 1
    /\ UNCHANGED <<mode, compensable, work, seen, undo, undone, begun>>

AllSettled ==
    /\ phase = "running" /\ mode = "parallel" /\ \A s \in Steps : seen[s] # "nothing"
    /\ IF \A s \in Steps : seen[s] = "done"
       THEN phase' = "succeeded" /\ UNCHANGED at
       ELSE phase' = "compensating" /\ at' = Count
    /\ UNCHANGED <<mode, compensable, work, seen, undo, undone, begun>>

\* compensate: from the last step to the first, over those that have one.
StartUndo ==
    /\ phase = "compensating" /\ at > 0 /\ undo[at] = "idle"
    /\ IF at \in compensable
       THEN /\ undo' = [undo EXCEPT ![at] = "running"]
            /\ begun' = Append(begun, at)
            /\ UNCHANGED at
       ELSE at' = at - 1 /\ UNCHANGED <<undo, begun>>
    /\ UNCHANGED <<mode, compensable, phase, work, seen, undone>>

\* Mutant: a failed compensation ends the compensation.
EndUndo_Stops ==
    /\ phase = "compensating" /\ at > 0 /\ undo[at] = "running"
    /\ \/ /\ undo' = [undo EXCEPT ![at] = "done"]
          /\ undone' = Append(undone, at)
          /\ at' = at - 1
       \/ /\ undo' = [undo EXCEPT ![at] = "failed"]
          /\ at' = 0
          /\ UNCHANGED undone
    /\ UNCHANGED <<mode, compensable, phase, work, seen, begun>>

\* A compensation ends, fails or times out; the loop goes on in each case.
EndUndo ==
    /\ phase = "compensating" /\ at > 0 /\ undo[at] = "running"
    /\ \/ /\ undo' = [undo EXCEPT ![at] = "done"]
          /\ undone' = Append(undone, at)
       \/ /\ undo' \in {[undo EXCEPT ![at] = "failed"], [undo EXCEPT ![at] = "timeout"]}
          /\ UNCHANGED undone
    /\ at' = at - 1
    /\ UNCHANGED <<mode, compensable, phase, work, seen, begun>>

\* The work of a compensation that timed out ends later.
LateUndo(s) ==
    /\ undo[s] = "timeout"
    /\ undo' \in {[undo EXCEPT ![s] = "done"], [undo EXCEPT ![s] = "failed"]}
    /\ UNCHANGED <<mode, compensable, phase, at, work, seen, undone, begun>>

Return ==
    /\ phase = "compensating" /\ at = 0
    /\ phase' = "failed"
    /\ UNCHANGED <<mode, compensable, at, work, seen, undo, undone, begun>>

Next ==
    \/ StartWork \/ NextStep \/ AllSettled \/ StartUndo \/ EndUndo \/ Return
    \/ \E s \in Steps : EndWork(s) \/ TimeOut(s) \/ LateUndo(s)

Spec == Init /\ [][Next]_vars
-----------------------------------------------------------------------------
TypeOK ==
    /\ mode \in {"sequential", "parallel"} /\ compensable \subseteq Steps
    /\ phase \in {"running", "compensating", "succeeded", "failed"} /\ at \in 0..Count
    /\ work \in [Steps -> Effect]
    /\ seen \in [Steps -> {"nothing", "done", "failed", "timeout"}]
    /\ undo \in [Steps -> Effect \cup {"timeout"}]
    /\ undone \in Seq(Steps) /\ begun \in Seq(Steps)

\* A saga that succeeds has done every step and undone none.  In one that
\* fails, what a completed step did remains only if the step has no
\* compensation or the compensation itself failed or timed out; compensations
\* begin in the reverse order of the steps, each once, and in a sequential
\* saga only for steps that completed.
FailedSagaIsUndone ==
    /\ phase = "succeeded" => begun = <<>> /\ \A s \in Steps : work[s] = "done"
    /\ phase = "failed" => \A s \in Steps :
          seen[s] = "done" => s \notin compensable \/ undo[s] \in {"done", "failed", "timeout"}
    /\ \A i, j \in DOMAIN begun : i < j => begun[i] > begun[j]
    /\ mode = "sequential" => \A i \in DOMAIN begun : work[begun[i]] = "done"
=============================================================================
