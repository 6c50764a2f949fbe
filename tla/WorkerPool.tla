----------------------------- MODULE WorkerPool ------------------------------
(***************************************************************************)
(* trading/matching-engine/services/matching-worker-pool.service.ts: tasks *)
(* go to a free worker or wait in a queue; a worker's message settles the  *)
(* task and takes the next one.  Tasks have different ids.                 *)
(***************************************************************************)
EXTENDS Naturals, Sequences

CONSTANTS Tasks, WorkerCount

VARIABLES
    available,   \* availableWorkers, a stack; a worker may be in it twice
    queue,       \* taskQueue
    callbacks,   \* tasks with a callback
    inWork,      \* <<task, worker>> of the messages posted and not answered
    answered,    \* tasks whose promise is settled
    phase        \* "up", "closing", "down"

vars == <<available, queue, callbacks, inWork, answered, phase>>

Submitted == callbacks \cup answered \cup {queue[i] : i \in DOMAIN queue}

Init ==
    /\ available = [i \in 1..WorkerCount |-> i]
    /\ queue     = <<>>
    /\ callbacks = {} /\ inWork = {} /\ answered = {}
    /\ phase     = "up"

ExecuteTask(w, t) ==
    /\ callbacks' = callbacks \cup {t}
    /\ inWork' = inWork \cup {<<t, w>>}

\* submitTask: the worker on top of the stack, or the end of the queue.
SubmitTask(t) ==
    /\ t \notin Submitted /\ \A w \in 1..WorkerCount : <<t, w>> \notin inWork
    /\ IF available # <<>>
       THEN /\ ExecuteTask(available[Len(available)], t)
            /\ available' = SubSeq(available, 1, Len(available) - 1)
            /\ UNCHANGED queue
       ELSE queue' = Append(queue, t) /\ UNCHANGED <<available, callbacks, inWork>>
    /\ UNCHANGED <<answered, phase>>

\* Mutant: workers are counted from 0, and the search gives their index.
Returned_FromZero == 0

\* workers.find(w => w.id !== undefined) is the first worker whoever answered.
Returned == 1

\* Mutant: the worker goes back to the pool without a look at the queue.
HandleWorkerMessage_NoQueue(t, w) ==
    /\ <<t, w>> \in inWork
    /\ answered' = answered \cup ({t} \cap callbacks)
    /\ inWork' = inWork \ {<<t, w>>}
    /\ callbacks' = callbacks \ {t}
    /\ available' = IF phase = "down" THEN available ELSE Append(available, Returned)
    /\ UNCHANGED <<queue, phase>>

\* The task is settled if its callback is still there; a worker is put back
\* into the pool and, in spite of that, given the head of the queue.
HandleWorkerMessage(t, w) ==
    /\ <<t, w>> \in inWork
    /\ answered' = answered \cup ({t} \cap callbacks)
    /\ LET next == IF phase # "down" /\ queue # <<>> THEN {Head(queue)} ELSE {}
       IN  /\ inWork' = (inWork \ {<<t, w>>}) \cup (next \X {Returned})
           /\ callbacks' = (callbacks \ {t}) \cup next
           /\ queue' = IF next = {} THEN queue ELSE Tail(queue)
    /\ available' = IF phase = "down" THEN available ELSE Append(available, Returned)
    /\ UNCHANGED phase

\* onModuleDestroy waits for the active tasks, at most five seconds.
BeginShutdown ==
    /\ phase = "up"
    /\ phase' = "closing"
    /\ UNCHANGED <<available, queue, callbacks, inWork, answered>>

FinishShutdown ==
    /\ phase = "closing"
    /\ phase' = "down"
    /\ available' = <<>> /\ queue' = <<>> /\ callbacks' = {}
    /\ UNCHANGED <<inWork, answered>>

Next ==
    \/ BeginShutdown \/ FinishShutdown
    \/ \E t \in Tasks : SubmitTask(t) \/ \E w \in 1..WorkerCount : HandleWorkerMessage(t, w)

Fairness == \A t \in Tasks, w \in 1..WorkerCount : WF_vars(HandleWorkerMessage(t, w))
Spec     == Init /\ [][Next]_vars
-----------------------------------------------------------------------------
TypeOK ==
    /\ available \in Seq(1..WorkerCount) /\ queue \in Seq(Tasks)
    /\ callbacks \subseteq Tasks /\ answered \subseteq Tasks
    /\ inWork \subseteq Tasks \X (1..WorkerCount)
    /\ phase \in {"up", "closing", "down"}

\* While a task waits in the queue some worker is busy and will come for it,
\* although workers are returned in each other's place and new tasks overtake
\* the queue; and each task that has a callback is with a worker.
QueueIsServed ==
    phase # "down" =>
        /\ queue # <<>> => callbacks # {}
        /\ \A t \in callbacks : \E w \in 1..WorkerCount : <<t, w>> \in inWork

\* Every submitted task is answered unless the pool is shut down: the five
\* seconds may pass with tasks queued or in work, whose callers never hear.
TasksAnswered == \A t \in Tasks : t \in Submitted ~> (t \in answered \/ phase = "down")
=============================================================================
