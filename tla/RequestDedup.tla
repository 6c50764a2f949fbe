---------------------------- MODULE RequestDedup -----------------------------
(***************************************************************************)
(* edge/request-deduplication.service.ts for one key.  The first call runs *)
(* its executor and owns an entry of pendingRequests with a promise and a  *)
(* maxWait timer; calls that find the entry wait for its promise.  Whoever *)
(* deletes the key deletes whichever entry is there.  The application      *)
(* handles no unhandled rejections, so one ends the process (external).    *)
(***************************************************************************)
CONSTANTS Calls, NoCall

VARIABLES
    entry,     \* the entry of the key, named by its owner
    call,      \* "new", "executing", "joined", "returned"
    joined,    \* the entry whose promise a call waits for
    promise,   \* of the entry of each owner: "none", "open", "settled"
    timer,     \* owners whose timer runs
    watched,   \* owners whose promise a waitForRequest call handles
    up         \* the process has not ended

vars == <<entry, call, joined, promise, timer, watched, up>>

Init ==
    /\ entry   = NoCall
    /\ call    = [c \in Calls |-> "new"]
    /\ joined  = [c \in Calls |-> NoCall]
    /\ promise = [c \in Calls |-> "none"]
    /\ timer   = {}
    /\ watched = {}
    /\ up      = TRUE

Awaited(c) == c \in watched \/ \E d \in Calls : joined[d] = c

\* A promise is settled by the first resolve or reject.
Settle(c) == promise' = [promise EXCEPT ![c] = "settled"]

\* The owner does not await its own promise: one that is rejected before a call
\* has joined or waits for it is an unhandled rejection, and ends the process.
Reject(c) ==
    /\ Settle(c)
    /\ up' = (promise[c] = "open" => Awaited(c))

Own(c) ==
    /\ up /\ call[c] = "new" /\ entry = NoCall
    /\ entry' = c
    /\ promise' = [promise EXCEPT ![c] = "open"]
    /\ timer' = timer \cup {c}
    /\ call' = [call EXCEPT ![c] = "executing"]
    /\ UNCHANGED <<joined, watched, up>>

Join(c) ==
    /\ up /\ call[c] = "new" /\ entry # NoCall
    /\ joined' = [joined EXCEPT ![c] = entry]
    /\ call' = [call EXCEPT ![c] = "joined"]
    /\ UNCHANGED <<entry, promise, timer, watched, up>>

\* waitForRequest handles the promise of the entry it finds, and has a timer of
\* its own.
WaitForRequest ==
    /\ up /\ entry # NoCall
    /\ watched' = watched \cup {entry}
    /\ UNCHANGED <<entry, call, joined, promise, timer, up>>

\* finally clears the timer and deletes the key.
Finally(c) ==
    /\ timer' = timer \ {c}
    /\ entry' = NoCall
    /\ call' = [call EXCEPT ![c] = "returned"]
    /\ UNCHANGED <<joined, watched>>

ExecutorReturns(c) ==
    /\ up /\ call[c] = "executing"
    /\ Settle(c) /\ Finally(c)
    /\ UNCHANGED up

ExecutorThrows(c) ==
    /\ up /\ call[c] = "executing"
    /\ Reject(c) /\ Finally(c)

\* maxWait has passed; the owner goes on if the process does.
TimerFires(c) ==
    /\ up /\ c \in timer
    /\ timer' = timer \ {c}
    /\ entry' = NoCall
    /\ Reject(c)
    /\ UNCHANGED <<call, joined, watched>>

\* Mutant: the timer is cleared and the key deleted, the promise left open.
Drop_Silent ==
    /\ up /\ entry # NoCall
    /\ timer' = timer \ {entry}
    /\ entry' = NoCall
    /\ UNCHANGED <<call, joined, promise, watched, up>>

\* cancelRequest, cleanupStaleRequests and clear, for the entry they find.
Drop ==
    /\ up /\ entry # NoCall
    /\ timer' = timer \ {entry}
    /\ Reject(entry)
    /\ entry' = NoCall
    /\ UNCHANGED <<call, joined, watched>>

Next ==
    \/ Drop \/ WaitForRequest
    \/ \E c \in Calls :
          Own(c) \/ Join(c) \/ ExecutorReturns(c) \/ ExecutorThrows(c) \/ TimerFires(c)

Fairness == \A c \in Calls : WF_vars(TimerFires(c))
Spec     == Init /\ [][Next]_vars
-----------------------------------------------------------------------------
TypeOK ==
    /\ entry \in Calls \cup {NoCall} /\ timer \subseteq Calls /\ watched \subseteq Calls
    /\ call \in [Calls -> {"new", "executing", "joined", "returned"}]
    /\ joined \in [Calls -> Calls \cup {NoCall}]
    /\ promise \in [Calls -> {"none", "open", "settled"}] /\ up \in BOOLEAN

\* An entry that can be joined belongs to a call that is still executing and
\* has answered nobody: a joined call never gets a result from before it came.
\* And whatever was deleted by whom, an open promise has its timer.
EntriesAreLive ==
    /\ entry # NoCall => call[entry] = "executing" /\ promise[entry] = "open"
    /\ \A c \in Calls : promise[c] = "open" => c \in timer

\* A call that has joined another is answered, also when the executor never
\* ends and when a late finally has deleted the entry it joined, unless the
\* process ends first: no promise that is awaited loses its timer while open.
JoinersAnswered ==
    \A c \in Calls : call[c] = "joined" ~>
        (~up \/ (joined[c] # NoCall /\ promise[joined[c]] = "settled"))
=============================================================================
