--------------------------- MODULE SwapSettlement ---------------------------
(***************************************************************************)
(* Settlement of queued swaps: swap-batch.processor.ts over                *)
(* swap-settlement.service.ts, driven by a Bull queue and a SQL database.  *)
(*                                                                         *)
(* A thread is one sequence of awaits: a `single' job, one branch of a     *)
(* best-effort batch, or a whole atomic batch.  The database (external) is *)
(* a store of rows with row locks: a transaction sees its own writes,      *)
(* others see them when it commits, and a written or FOR UPDATE row stays  *)
(* locked until then.  `work' holds the rows a thread's open transaction   *)
(* has locked, with the values it gave them.                               *)
(*                                                                         *)
(* A failed settlement is retried inside the transaction, but its RETRYING *)
(* and FAILED updates go through swapHistoryRepo, another connection.      *)
(***************************************************************************)
EXTENDS Integers, Sequences, FiniteSetsExt

CONSTANTS
    Swaps,          \* swap ids named in jobs
    Rows,           \* the ids that have a row in swap_history
    Accounts,       \* (user, asset) rows of user_balance
    From, To,       \* the accounts a swap debits and credits
    AmountIn,       \* what a swap debits
    AmountsOut,     \* what the pool may pay for a swap
    Start,          \* the balances at the start
    Threads,
    Job,            \* the Bull job a thread belongs to
    Kind,           \* "single", "effort" or "atomic"
    Parts,          \* the swaps of a thread, in order
    MaxRetries,     \* MAX_SETTLEMENT_RETRIES
    MaxAttempts,    \* `attempts' of the queue's jobs
    LockTimeout,    \* whether the database gives up on a lock wait
    MaxCrashes      \* bound: crashes of the process

Status == {"pending", "processing", "completed", "failed", "retrying",
           "rolled_back", "absent"}

Kinds == {"single", "effort", "atomic"}

ASSUME SwapAssumption ==
    /\ IsFiniteSet(Swaps) /\ Rows \subseteq Swaps
    /\ From \in [Swaps -> Accounts] /\ To \in [Swaps -> Accounts]
    /\ \A s \in Swaps : From[s] # To[s]
    /\ AmountIn \in [Swaps -> Nat] /\ AmountsOut \subseteq Nat
    /\ Start \in [Accounts -> Nat]

ASSUME ThreadAssumption ==
    /\ Kind \in [Threads -> Kinds]
    /\ \A t \in Threads : /\ Parts[t] \in Seq(Swaps) /\ Len(Parts[t]) > 0
                          /\ Kind[t] # "atomic" => Len(Parts[t]) = 1
    /\ \A t, u \in Threads : \A i \in 1..Len(Parts[t]), j \in 1..Len(Parts[u]) :
          Parts[t][i] = Parts[u][j] => t = u /\ i = j   \* one job per swap
    /\ MaxRetries \in Nat /\ MaxAttempts \in Nat \ {0} /\ MaxCrashes \in Nat
    /\ LockTimeout \in BOOLEAN

Pcs == {"waiting", "mark", "attempt", "lockFrom", "exchange", "threw", "retry",
        "giveUp", "abort", "commit", "undo", "unsettled", "committed",
        "rejected", "completed", "dead"}

VARIABLES
    status,         \* committed status of each swap_history row
    balance,        \* committed balance of each user_balance row
    settled,        \* how often a swap's exchange was committed
    paid,           \* the total a swap's committed exchanges paid
    refunded,       \* how often a rollback of a swap was committed
    work,           \* the open transaction of each thread
    pc,
    part,           \* index of the swap a thread is working on
    attempt,        \* `attempt' of settle
    toUndo,         \* the settled swaps of an atomic batch yet to be rolled back
    attemptsMade,   \* Bull's count of failed attempts of the thread's job
    hook,           \* how many onFailed listeners have still to run
    crashes

dbVars   == <<status, balance, settled, paid, refunded>>
bullVars == <<attemptsMade, hook, crashes>>
vars     == <<status, balance, settled, paid, refunded, work, pc, part, attempt,
              toUndo, attemptsMade, hook, crashes>>

-----------------------------------------------------------------------------
(* Transactions *)

Empty   == [x \in {} |-> {}]
NoWork  == [swap |-> Empty, balance |-> Empty, done |-> Empty, undone |-> {},
            poisoned |-> FALSE]

\* After an error in it a transaction holds nothing and refuses every statement.
Broken  == [swap |-> Empty, balance |-> Empty, done |-> Empty, undone |-> {},
            poisoned |-> TRUE]

With(f, x, v) == [y \in DOMAIN f \cup {x} |-> IF y = x THEN v ELSE f[y]]
Over(f, w)    == [x \in DOMAIN f |-> IF x \in DOMAIN w THEN w[x] ELSE f[x]]

SeenStatus(t, s)  == IF s \in DOMAIN work[t].swap THEN work[t].swap[s] ELSE status[s]
SeenBalance(t, a) == IF a \in DOMAIN work[t].balance THEN work[t].balance[a] ELSE balance[a]

SwapRow(s)    == IF s \in Rows THEN {<<"swap", s>>} ELSE {}
BalanceRow(a) == {<<"balance", a>>}

RowsOf(w) == {<<"swap", s>> : s \in DOMAIN w.swap}
             \cup {<<"balance", a>> : a \in DOMAIN w.balance}
Holds(t)  == RowsOf(work[t])

\* A statement inside t's transaction waits for the others' locks; one on
\* another connection waits for t's own as well.
Free(t, rows)  == \A u \in Threads \ {t} : rows \cap Holds(u) = {}
Unlocked(rows) == \A u \in Threads : rows \cap Holds(u) = {}

WriteSwap(t, s, new) ==
    IF s \in Rows THEN [work[t] EXCEPT !.swap = With(@, s, new)] ELSE work[t]

Init ==
    /\ status       = [s \in Swaps |-> IF s \in Rows THEN "pending" ELSE "absent"]
    /\ balance      = Start
    /\ settled      = [s \in Swaps |-> 0]
    /\ paid         = [s \in Swaps |-> 0]
    /\ refunded     = [s \in Swaps |-> 0]
    /\ work         = [t \in Threads |-> NoWork]
    /\ pc           = [t \in Threads |-> "waiting"]
    /\ part         = [t \in Threads |-> 1]
    /\ attempt      = [t \in Threads |-> 0]
    /\ toUndo       = [t \in Threads |-> <<>>]
    /\ attemptsMade = [t \in Threads |-> 0]
    /\ hook         = [t \in Threads |-> 0]
    /\ crashes      = 0

Goto(t, where) == pc' = [pc EXCEPT ![t] = where]
Current(t)     == Parts[t][part[t]]

\* An update through swapHistoryRepo: its own transaction, committed at once.
UpdateStatus(s, new) ==
    /\ Unlocked(SwapRow(s))
    /\ status' = IF s \in Rows THEN [status EXCEPT ![s] = new] ELSE status

-----------------------------------------------------------------------------
(* Job handlers *)

\* Bull hands the job to its handler.
StartJob(t) ==
    /\ pc[t] = "waiting"
    /\ Goto(t, "mark")
    /\ part' = [part EXCEPT ![t] = 1]
    /\ attempt' = [attempt EXCEPT ![t] = 0]
    /\ UNCHANGED <<dbVars, work, toUndo>>
    /\ UNCHANGED bullVars

\* The PROCESSING update: before the transaction in processSingleSwap and
\* processBestEffortBatch, inside it in processAtomicBatch.
MarkProcessing(t) ==
    /\ pc[t] = "mark"
    /\ Goto(t, "attempt")
    /\ \/ /\ Kind[t] # "atomic"
          /\ UpdateStatus(Current(t), "processing")
          /\ UNCHANGED work
       \/ /\ Kind[t] = "atomic"
          /\ Free(t, SwapRow(Current(t)))
          /\ work' = [work EXCEPT ![t] = WriteSwap(t, Current(t), "processing")]
          /\ UNCHANGED status
    /\ UNCHANGED <<balance, settled, paid, refunded, part, attempt, toUndo>>
    /\ UNCHANGED bullVars

-----------------------------------------------------------------------------
(* settle and attemptSettlement *)

Settleable(t, s) ==
    s \in Rows /\ SeenStatus(t, s) \notin {"completed", "failed"}

\* The row is locked and tested and the live quote validated.  The attempt
\* throws when there is no row, the transaction is already broken, the state is
\* terminal, no route exists, or the slippage is too large (which is written).
AttemptSettlement(t) ==
    LET s == Current(t)
        locked == WriteSwap(t, s, SeenStatus(t, s))
    IN  /\ pc[t] = "attempt"
        /\ \/ /\ work[t].poisoned \/ s \notin Rows
              /\ Goto(t, "threw")
              /\ UNCHANGED work
           \/ /\ ~work[t].poisoned /\ s \in Rows
              /\ Free(t, SwapRow(s))
              /\ \/ /\ Settleable(t, s)
                    /\ Goto(t, "lockFrom")
                    /\ work' = [work EXCEPT ![t] = locked]
                 \/ /\ Goto(t, "threw")
                    /\ work' = [work EXCEPT ![t] = locked]
                 \/ /\ Settleable(t, s)
                    /\ Goto(t, "threw")
                    /\ work' = [work EXCEPT ![t] = WriteSwap(t, s, "failed")]
        /\ UNCHANGED <<dbVars, part, attempt, toUndo>>
        /\ UNCHANGED bullVars

\* Mutant: the debited balance is read without FOR UPDATE.
LockFrom_Unlocked(t) ==
    LET a == From[Current(t)]
    IN  /\ pc[t] = "lockFrom"
        /\ work' = [work EXCEPT ![t].balance = With(@, a, SeenBalance(t, a))]
        /\ Goto(t, "exchange")
        /\ UNCHANGED <<dbVars, part, attempt, toUndo>>
        /\ UNCHANGED bullVars

\* updateBalances locks the two balance rows, one query after the other.
LockFrom(t) ==
    LET a == From[Current(t)]
    IN  /\ pc[t] = "lockFrom"
        /\ Free(t, BalanceRow(a))
        /\ work' = [work EXCEPT ![t].balance = With(@, a, SeenBalance(t, a))]
        /\ Goto(t, "exchange")
        /\ UNCHANGED <<dbVars, part, attempt, toUndo>>
        /\ UNCHANGED bullVars

\* Mutant: the balance is not compared with amountIn.
Covers_Unchecked(t, s) == TRUE

Covers(t, s) == SeenBalance(t, From[s]) >= AmountIn[s]

LastPart(t) == part[t] = Len(Parts[t])

\* Mutant: the balances are read outside the transaction.
Exchanged_Outside(t, s, out) ==
    LET from == From[s]
        to   == To[s]
    IN  [work[t] EXCEPT
            !.swap    = With(@, s, "completed"),
            !.balance = With(With(@, from, balance[from] - AmountIn[s]), to, balance[to] + out),
            !.done    = With(@, s, out)]

Exchanged(t, s, out) ==
    LET from == From[s]
        to   == To[s]
    IN  [work[t] EXCEPT
            !.swap    = With(@, s, "completed"),
            !.balance = With(With(@, from, SeenBalance(t, from) - AmountIn[s]),
                             to, SeenBalance(t, to) + out),
            !.done    = With(@, s, out)]

\* Mutant: COMPLETED is written through swapHistoryRepo.
Exchange_StatusAtOnce(t) ==
    LET s == Current(t)
    IN  /\ pc[t] = "exchange"
        /\ Free(t, BalanceRow(To[s])) /\ Covers(t, s)
        /\ \E out \in AmountsOut : work' = [work EXCEPT ![t] = Exchanged(t, s, out)]
        /\ status' = [status EXCEPT ![s] = "completed"]
        /\ Goto(t, IF LastPart(t) THEN "commit" ELSE "mark")
        /\ part' = [part EXCEPT ![t] = IF LastPart(t) THEN @ ELSE @ + 1]
        /\ attempt' = [attempt EXCEPT ![t] = 0]
        /\ UNCHANGED <<balance, settled, paid, refunded, toUndo>>
        /\ UNCHANGED bullVars

\* The debit, the credit and COMPLETED; then the next swap of the batch, or the
\* commit.
Exchange(t) ==
    LET s == Current(t)
        a == To[s]
    IN  /\ pc[t] = "exchange"
        /\ Free(t, BalanceRow(a))
        /\ \/ /\ ~Covers(t, s)
              /\ work' = [work EXCEPT ![t].balance = With(@, a, SeenBalance(t, a))]
              /\ Goto(t, "threw")
              /\ UNCHANGED <<part, attempt>>
           \/ /\ Covers(t, s)
              /\ \E out \in AmountsOut : work' = [work EXCEPT ![t] = Exchanged(t, s, out)]
              /\ Goto(t, IF LastPart(t) THEN "commit" ELSE "mark")
              /\ part' = [part EXCEPT ![t] = IF LastPart(t) THEN @ ELSE @ + 1]
              /\ attempt' = [attempt EXCEPT ![t] = 0]
        /\ UNCHANGED <<dbVars, toUndo>>
        /\ UNCHANGED bullVars

\* Mutant: one retry too many.
HandleThrow_OffByOne(t) ==
    /\ pc[t] = "threw"
    /\ attempt' = [attempt EXCEPT ![t] = @ + 1]
    /\ Goto(t, IF attempt[t] > MaxRetries THEN "giveUp" ELSE "retry")
    /\ UNCHANGED <<dbVars, work, part, toUndo>>
    /\ UNCHANGED bullVars

\* Mutant: the attempts are not counted.
HandleThrow_Uncounted(t) ==
    /\ pc[t] = "threw"
    /\ Goto(t, IF attempt[t] + 1 > MaxRetries THEN "giveUp" ELSE "retry")
    /\ UNCHANGED <<dbVars, work, part, attempt, toUndo>>
    /\ UNCHANGED bullVars

\* The catch of settle's loop.
HandleThrow(t) ==
    /\ pc[t] = "threw"
    /\ attempt' = [attempt EXCEPT ![t] = @ + 1]
    /\ Goto(t, IF attempt[t] + 1 > MaxRetries THEN "giveUp" ELSE "retry")
    /\ UNCHANGED <<dbVars, work, part, toUndo>>
    /\ UNCHANGED bullVars

\* After the back-off, RETRYING is written on another connection.
UpdateRetrying(t) ==
    /\ pc[t] = "retry"
    /\ UpdateStatus(Current(t), "retrying")
    /\ Goto(t, "attempt")
    /\ UNCHANGED <<balance, settled, paid, refunded, work, part, attempt, toUndo>>
    /\ UNCHANGED bullVars

\* All retries exhausted: FAILED is written on another connection.
GiveUp(t) ==
    /\ pc[t] = "giveUp"
    /\ UpdateStatus(Current(t), "failed")
    /\ Goto(t, "abort")
    /\ UNCHANGED <<balance, settled, paid, refunded, work, part, attempt, toUndo>>
    /\ UNCHANGED bullVars

-----------------------------------------------------------------------------
(* The end of a transaction and of a job *)

Committed(t) ==
    /\ status'   = Over(status, work[t].swap)
    /\ balance'  = Over(balance, work[t].balance)
    /\ settled'  = [s \in Swaps |->
                       IF s \in DOMAIN work[t].done THEN settled[s] + 1 ELSE settled[s]]
    /\ paid'     = [s \in Swaps |->
                       IF s \in DOMAIN work[t].done THEN paid[s] + work[t].done[s] ELSE paid[s]]
    /\ refunded' = [s \in Swaps |->
                       IF s \in work[t].undone THEN refunded[s] + 1 ELSE refunded[s]]
    /\ work'     = [work EXCEPT ![t] = NoWork]

\* The handler's promise is rejected: Bull counts the attempt, emits `failed'
\* and queues the job again or gives it up.
FailJob(t) ==
    /\ attemptsMade' = [attemptsMade EXCEPT ![t] = @ + 1]
    /\ hook' = [hook EXCEPT ![t] = @ + 1]
    /\ Goto(t, IF attemptsMade[t] + 1 < MaxAttempts THEN "waiting" ELSE "dead")
    /\ UNCHANGED crashes

\* Mutant: the handler throws after the commit.
Commit_ThenThrow(t) ==
    /\ pc[t] = "commit"
    /\ Committed(t)
    /\ FailJob(t)
    /\ UNCHANGED <<part, attempt, toUndo>>

Commit(t) ==
    /\ pc[t] = "commit"
    /\ Committed(t)
    /\ Goto(t, "committed")
    /\ UNCHANGED <<part, attempt, toUndo>>
    /\ UNCHANGED bullVars

\* Mutant: the error is caught inside the transaction's callback.
Abort_Commits(t) ==
    /\ pc[t] = "abort" /\ Kind[t] = "atomic"
    /\ Committed(t)
    /\ Goto(t, "undo")
    /\ toUndo' = [toUndo EXCEPT ![t] = SubSeq(Parts[t], 1, part[t] - 1)]
    /\ UNCHANGED <<part, attempt>>
    /\ UNCHANGED bullVars

\* An error left the transaction's callback: the transaction is rolled back.
\* A single job fails, a best-effort branch is rejected, an atomic batch goes on
\* to roll back the swaps it had settled.
Abort(t) ==
    /\ pc[t] = "abort"
    /\ work' = [work EXCEPT ![t] = NoWork]
    /\ \/ /\ Kind[t] = "single"
          /\ FailJob(t)
          /\ UNCHANGED toUndo
       \/ /\ Kind[t] = "effort"
          /\ Goto(t, "rejected")
          /\ UNCHANGED toUndo
          /\ UNCHANGED bullVars
       \/ /\ Kind[t] = "atomic"
          /\ Goto(t, "undo")
          /\ toUndo' = [toUndo EXCEPT ![t] = SubSeq(Parts[t], 1, part[t] - 1)]
          /\ UNCHANGED bullVars
    /\ UNCHANGED <<dbVars, part, attempt>>

RolledBack(t, s) ==
    LET w == work[t]
        a == From[s]
    IN  [swap     |-> With(w.swap, s, "rolled_back"),
         balance  |-> With(w.balance, a, SeenBalance(t, a) + AmountIn[s]),
         done     |-> w.done,
         undone   |-> w.undone \cup {s},
         poisoned |-> w.poisoned]

\* rollback of one settled swap of the batch, in a second transaction: amountIn
\* is credited to the debited account.
Rollback(t) ==
    LET s == Head(toUndo[t])
    IN  /\ pc[t] = "undo" /\ toUndo[t] # <<>>
        /\ Free(t, SwapRow(s) \cup BalanceRow(From[s]))
        /\ work' = [work EXCEPT ![t] = RolledBack(t, s)]
        /\ toUndo' = [toUndo EXCEPT ![t] = Tail(@)]
        /\ UNCHANGED <<dbVars, pc, part, attempt>>
        /\ UNCHANGED bullVars

CommitRollback(t) ==
    /\ pc[t] = "undo" /\ toUndo[t] = <<>>
    /\ Committed(t)
    /\ Goto(t, "unsettled")
    /\ UNCHANGED <<part, attempt, toUndo>>
    /\ UNCHANGED bullVars

Unsettled(t) == {Parts[t][i] : i \in part[t]..Len(Parts[t])} \cap Rows

\* The rest of the batch is marked FAILED and the error is thrown again.
FailUnsettled(t) ==
    /\ pc[t] = "unsettled"
    /\ \A s \in Unsettled(t) : Unlocked(SwapRow(s))
    /\ status' = [s \in Swaps |-> IF s \in Unsettled(t) THEN "failed" ELSE status[s]]
    /\ FailJob(t)
    /\ UNCHANGED <<balance, settled, paid, refunded, work, part, attempt, toUndo>>

\* onFailed runs after every failed attempt, beside the retry: a single job's
\* swap becomes FAILED, a batch's swaps only if they are PROCESSING.
\* A lock wait that fails is caught and logged.
OnFailed(t) ==
    LET hit == IF Kind[t] = "single" THEN {Parts[t][1]} \cap Rows
               ELSE {s \in Rows : /\ \E i \in 1..Len(Parts[t]) : Parts[t][i] = s
                                  /\ status[s] = "processing"}
    IN  /\ hook[t] > 0
        /\ \/ /\ \A s \in hit : Unlocked(SwapRow(s))
              /\ status' = [s \in Swaps |-> IF s \in hit THEN "failed" ELSE status[s]]
           \/ /\ LockTimeout /\ \E s \in hit : ~Unlocked(SwapRow(s))
              /\ UNCHANGED status
        /\ hook' = [hook EXCEPT ![t] = @ - 1]
        /\ UNCHANGED <<balance, settled, paid, refunded, work, pc, part, attempt, toUndo,
                       attemptsMade, crashes>>

\* Bull records the job as completed once its handler has returned, which for a
\* best-effort batch is when all of its branches have ended.
CompleteJob(t) ==
    /\ pc[t] = "committed" \/ (Kind[t] = "effort" /\ pc[t] = "rejected")
    /\ \A u \in Threads : Job[u] = Job[t] => pc[u] \in {"committed", "rejected"}
    /\ pc' = [u \in Threads |-> IF Job[u] = Job[t] THEN "completed" ELSE pc[u]]
    /\ UNCHANGED <<dbVars, work, part, attempt, toUndo>>
    /\ UNCHANGED bullVars

-----------------------------------------------------------------------------
(* Failures of the database and of the process *)

Needs(t) ==
    CASE pc[t] \in {"mark", "retry", "giveUp"} -> SwapRow(Current(t))
      [] pc[t] = "attempt" /\ ~work[t].poisoned -> SwapRow(Current(t))
      [] pc[t] = "lockFrom" -> BalanceRow(From[Current(t)])
      [] pc[t] = "exchange" -> BalanceRow(To[Current(t)])
      [] pc[t] = "undo" /\ toUndo[t] # <<>> ->
            SwapRow(Head(toUndo[t])) \cup BalanceRow(From[Head(toUndo[t])])
      [] pc[t] = "unsettled" -> UNION {SwapRow(s) : s \in Unsettled(t)}
      [] OTHER -> {}

OtherConnection(t) ==
    pc[t] \in {"retry", "giveUp", "unsettled"} \/ (pc[t] = "mark" /\ Kind[t] # "atomic")

Blocked(t) == IF OtherConnection(t) THEN ~Unlocked(Needs(t)) ELSE ~Free(t, Needs(t))

\* The cycles the database's deadlock detector sees: transactions only.
WaitsFor(t, u) == t # u /\ ~OtherConnection(t) /\ Needs(t) \cap Holds(u) # {}
Deadlocked(t)  ==
    \E C \in SUBSET Threads :
        /\ t \in C /\ \E u \in C : WaitsFor(u, t)
        /\ \A u \in C : \E v \in C : WaitsFor(u, v)

\* A lock wait is ended with an error, by the deadlock detector or a timeout.
\* In a transaction the error leaves it broken; on the other connection it
\* leaves settle or the handler.
LockWaitFails(t) ==
    /\ Blocked(t)
    /\ LockTimeout \/ Deadlocked(t)
    /\ \/ /\ pc[t] = "mark" /\ Kind[t] = "single"
          /\ FailJob(t)
          /\ UNCHANGED work
       \/ /\ pc[t] = "mark" /\ Kind[t] = "effort"
          /\ Goto(t, "rejected")
          /\ UNCHANGED <<work, bullVars>>
       \/ /\ pc[t] = "mark" /\ Kind[t] = "atomic"
          /\ Goto(t, "abort")
          /\ work' = [work EXCEPT ![t] = Broken]
          /\ UNCHANGED bullVars
       \/ /\ pc[t] \in {"attempt", "lockFrom", "exchange"}
          /\ Goto(t, "threw")
          /\ work' = [work EXCEPT ![t] = Broken]
          /\ UNCHANGED bullVars
       \/ /\ pc[t] \in {"retry", "giveUp"}
          /\ Goto(t, "abort")
          /\ UNCHANGED <<work, bullVars>>
       \/ /\ pc[t] \in {"undo", "unsettled"}
          /\ work' = [work EXCEPT ![t] = NoWork]
          /\ FailJob(t)
    /\ UNCHANGED <<dbVars, part, attempt, toUndo>>

\* The process dies: the database rolls the open transactions back, the
\* listeners' statements are lost, and Bull runs the stalled jobs again.
Crash ==
    /\ crashes < MaxCrashes
    /\ crashes' = crashes + 1
    /\ work' = [t \in Threads |-> NoWork]
    /\ hook' = [t \in Threads |-> 0]
    /\ pc' = [t \in Threads |->
                 IF pc[t] \in {"completed", "dead"} THEN pc[t] ELSE "waiting"]
    /\ UNCHANGED <<dbVars, part, attempt, toUndo, attemptsMade>>

-----------------------------------------------------------------------------

Step(t) ==
    \/ StartJob(t) \/ MarkProcessing(t) \/ AttemptSettlement(t) \/ LockFrom(t)
    \/ Exchange(t) \/ HandleThrow(t) \/ UpdateRetrying(t) \/ GiveUp(t)
    \/ Commit(t) \/ Abort(t) \/ Rollback(t) \/ CommitRollback(t)
    \/ FailUnsettled(t) \/ CompleteJob(t) \/ LockWaitFails(t)

Next == (\E t \in Threads : Step(t) \/ OnFailed(t)) \/ Crash

Spec == Init /\ [][Next]_vars

\* The event loop runs every continuation whose statement the database answers,
\* and Bull every job it has queued.
FairSpec == Spec /\ \A t \in Threads : WF_vars(Step(t)) /\ WF_vars(OnFailed(t))
-----------------------------------------------------------------------------
(* Properties *)

\* f is a function from a part of S to T.
PartialOn(f, S, T) == DOMAIN f \subseteq S /\ f \in [DOMAIN f -> T]

IsWork(w) ==
    /\ w = [swap |-> w.swap, balance |-> w.balance, done |-> w.done,
            undone |-> w.undone, poisoned |-> w.poisoned]
    /\ PartialOn(w.swap, Rows, Status) /\ PartialOn(w.balance, Accounts, Int)
    /\ PartialOn(w.done, Rows, AmountsOut)
    /\ w.undone \subseteq Rows /\ w.poisoned \in BOOLEAN

\* Every variable has its type.
TypeOK ==
    /\ status \in [Swaps -> Status]
    /\ balance \in [Accounts -> Int]
    /\ settled \in [Swaps -> Nat] /\ paid \in [Swaps -> Nat]
    /\ refunded \in [Swaps -> Nat]
    /\ work = [t \in Threads |-> work[t]] /\ \A t \in Threads : IsWork(work[t])
    /\ pc \in [Threads -> Pcs]
    /\ part \in [Threads -> Nat]
    /\ \A t \in Threads : part[t] \in 1..Len(Parts[t])
    /\ toUndo \in [Threads -> Seq(Rows)]
    /\ attempt \in [Threads -> 0..MaxRetries + 1]
    /\ attemptsMade \in [Threads -> 0..MaxAttempts]
    /\ hook \in [Threads -> Nat]
    /\ crashes \in 0..MaxCrashes

\* No balance is overdrawn, in the table or in an open transaction, however the
\* settlements of one user interleave: updateBalances compares amountIn with the
\* balance it has locked and not with one it read before.
NoOverdraft ==
    /\ \A a \in Accounts : balance[a] >= 0
    /\ \A t \in Threads : \A a \in DOMAIN work[t].balance : work[t].balance[a] >= 0

\* No update of a balance is lost: each one is the start, less what the settled
\* swaps took from it, plus what they paid into it and what rollbacks returned.
\* updateBalances and rollback read, compute and save under FOR UPDATE.
BalancesAddUp ==
    \A a \in Accounts :
        LET change == [s \in Swaps |->
              (IF To[s] = a THEN paid[s] ELSE 0)
              + (IF From[s] = a THEN AmountIn[s] * (refunded[s] - settled[s]) ELSE 0)]
        IN  balance[a] = Start[a] + SumFunctionOnSet(change, Swaps)

\* A swap is exchanged once, whatever is retried: the locked row's terminal
\* states stop a second settlement.
SettledAtMostOnce == \A s \in Swaps : settled[s] <= 1

\* "All or nothing": the swaps of an atomic batch are settled together.
AllOrNothing ==
    \A t \in Threads : Kind[t] = "atomic" =>
        \A i, j \in 1..Len(Parts[t]) : settled[Parts[t][i]] = settled[Parts[t][j]]

\* A user who reads COMPLETED has been paid: the status and the balances are
\* written by one transaction.
CompletedIsSettled == \A s \in Swaps : status[s] = "completed" => settled[s] > 0

\* A rollback returns what a settlement took, and nothing else.
RefundsWereSettled == \A s \in Swaps : refunded[s] <= settled[s]

\* Every queued job ends: settle, Bull and the back-off give up in the end.
JobsEnd == \A t \in Threads : <>(pc[t] \in {"completed", "dead"})

\* What the settlement of separate swaps promises: SwapLedger.
Ledger == INSTANCE SwapLedger WITH settled <- {s \in Swaps : settled[s] > 0}
ImplementsLedger == Ledger!Spec
=============================================================================
