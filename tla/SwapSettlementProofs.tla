------------------------ MODULE SwapSettlementProofs ------------------------
(***************************************************************************)
(* Proofs about the settlement of queued swaps, for any swaps, balances,   *)
(* jobs, retries, attempts, crashes and lock timeouts.                     *)
(***************************************************************************)
EXTENDS SwapSettlement, SequenceTheorems, TLAPS

-----------------------------------------------------------------------------
(* The inductive invariant *)

\* The steps at which a thread's transaction is open or about to be.
Working == {"mark", "attempt", "lockFrom", "exchange", "threw", "retry", "giveUp"}

Quiet == {"waiting", "unsettled", "committed", "rejected", "completed", "dead"}

PartsOf(t) == {Parts[t][i] : i \in 1..Len(Parts[t])}

\* The swaps of t before its current one.
Earlier(t) == {Parts[t][i] : i \in 1..(part[t] - 1)}

\* A thread that runs no transaction has no work.
QuietHasNoWork(t) ==
    pc[t] \in Quiet \/ (pc[t] = "mark" /\ Kind[t] # "atomic") => work[t] = NoWork

\* The swap is locked before the balances, the debited one before the other.
LocksInOrder(t) ==
    /\ pc[t] \in {"lockFrom", "exchange"} =>
          Current(t) \in DOMAIN work[t].swap /\ ~work[t].poisoned
    /\ pc[t] = "exchange" => From[Current(t)] \in DOMAIN work[t].balance

\* What a transaction has exchanged: the swaps before the current one.
ExchangedInOrder(t) ==
    /\ pc[t] \in Working /\ ~work[t].poisoned => DOMAIN work[t].done = Earlier(t)
    /\ pc[t] = "commit" => DOMAIN work[t].done = PartsOf(t)
    /\ pc[t] = "undo" => DOMAIN work[t].done = {}

EarlierHaveRows(t) == Earlier(t) \subseteq Rows

\* The loop of settle and Bull's attempts are bounded.
RetriesBounded(t) ==
    /\ pc[t] \in Working \ {"giveUp"} => attempt[t] <= MaxRetries
    /\ pc[t] # "dead" => attemptsMade[t] < MaxAttempts

\* COMPLETED in an open transaction: exchanged by it or before.
CompletedInWork(t) ==
    \A s \in DOMAIN work[t].swap :
        work[t].swap[s] = "completed" => settled[s] > 0 \/ s \in DOMAIN work[t].done

WorkCovered(t) == \A a \in DOMAIN work[t].balance : work[t].balance[a] >= 0

ThreadInv(t) ==
    /\ QuietHasNoWork(t)
    /\ LocksInOrder(t)
    /\ ExchangedInOrder(t)
    /\ EarlierHaveRows(t)
    /\ RetriesBounded(t)
    /\ CompletedInWork(t)
    /\ WorkCovered(t)

BalancesCovered == \A a \in Accounts : balance[a] >= 0

DbInv == BalancesCovered /\ CompletedIsSettled /\ AllOrNothing

\* What the row locks, which Free takes, come to: a row has one writer.
RowsExclusive == \A t, u \in Threads : t # u => Holds(t) \cap Holds(u) = {}

IInv == TypeOK /\ RowsExclusive /\ DbInv /\ \A t \in Threads : ThreadInv(t)

-----------------------------------------------------------------------------
(* Constants and data *)

LEMMA SwapFacts ==
    /\ Rows \subseteq Swaps
    /\ \A s \in Swaps : /\ From[s] \in Accounts /\ To[s] \in Accounts
                        /\ From[s] # To[s] /\ AmountIn[s] \in Nat
    /\ AmountsOut \subseteq Nat
    /\ Start \in [Accounts -> Nat]
  BY SwapAssumption

LEMMA ThreadFacts ==
    /\ \A t \in Threads : /\ Kind[t] \in Kinds
                          /\ Parts[t] \in Seq(Swaps) /\ Len(Parts[t]) \in Nat
                          /\ Len(Parts[t]) > 0
                          /\ Kind[t] # "atomic" => Len(Parts[t]) = 1
                          /\ \A i \in 1..Len(Parts[t]) : Parts[t][i] \in Swaps
    /\ MaxRetries \in Nat /\ MaxAttempts \in Nat /\ MaxAttempts > 0 /\ MaxCrashes \in Nat
    /\ LockTimeout \in BOOLEAN
  BY ThreadAssumption

LEMMA PartsDistinct ==
    \A t, u \in Threads : \A i \in 1..Len(Parts[t]), j \in 1..Len(Parts[u]) :
        Parts[t][i] = Parts[u][j] => t = u /\ i = j
  BY ThreadAssumption

LEMMA WithFacts ==
    ASSUME NEW f, NEW x, NEW v
    PROVE  /\ DOMAIN With(f, x, v) = DOMAIN f \cup {x}
           /\ With(f, x, v)[x] = v
           /\ \A y \in DOMAIN f : y # x => With(f, x, v)[y] = f[y]
  BY DEF With

LEMMA WithPartial ==
    ASSUME NEW S, NEW T, NEW f, PartialOn(f, S, T), NEW x \in S, NEW v \in T
    PROVE  PartialOn(With(f, x, v), S, T)
  BY DEF With, PartialOn

LEMMA EmptyFacts == DOMAIN Empty = {}
  BY DEF Empty

LEMMA EmptyPartial == ASSUME NEW S, NEW T PROVE PartialOn(Empty, S, T)
  BY DEF Empty, PartialOn

WorkRec(a, b, c, d, e) ==
    [swap |-> a, balance |-> b, done |-> c, undone |-> d, poisoned |-> e]

LEMMA WorkRecFields ==
    ASSUME NEW a, NEW b, NEW c, NEW d, NEW e
    PROVE  /\ WorkRec(a, b, c, d, e).swap = a /\ WorkRec(a, b, c, d, e).balance = b
           /\ WorkRec(a, b, c, d, e).done = c /\ WorkRec(a, b, c, d, e).undone = d
           /\ WorkRec(a, b, c, d, e).poisoned = e
  BY DEF WorkRec
LEMMA IsWorkRec ==
    ASSUME NEW a, NEW b, NEW c, NEW d, NEW e,
           PartialOn(a, Rows, Status), PartialOn(b, Accounts, Int),
           PartialOn(c, Rows, AmountsOut), d \subseteq Rows, e \in BOOLEAN
    PROVE  IsWork(WorkRec(a, b, c, d, e))
  <1>1. WorkRec(a, b, c, d, e) = WorkRec(WorkRec(a, b, c, d, e).swap,
              WorkRec(a, b, c, d, e).balance, WorkRec(a, b, c, d, e).done,
              WorkRec(a, b, c, d, e).undone, WorkRec(a, b, c, d, e).poisoned)
    BY WorkRecFields
  <1>2. QED  BY <1>1, WorkRecFields DEF IsWork, WorkRec

LEMMA NoWorkFacts ==
    /\ NoWork = WorkRec(Empty, Empty, Empty, {}, FALSE)
    /\ Broken = WorkRec(Empty, Empty, Empty, {}, TRUE)
    /\ IsWork(NoWork) /\ IsWork(Broken)
  <1>1. NoWork = WorkRec(Empty, Empty, Empty, {}, FALSE)
    BY DEF NoWork, WorkRec
  <1>2. Broken = WorkRec(Empty, Empty, Empty, {}, TRUE)
    BY DEF Broken, WorkRec
  <1>3. /\ PartialOn(Empty, Rows, Status) /\ PartialOn(Empty, Accounts, Int)
        /\ PartialOn(Empty, Rows, AmountsOut)
    BY EmptyPartial
  <1>4. IsWork(WorkRec(Empty, Empty, Empty, {}, FALSE))
    BY <1>3, IsWorkRec
  <1>5. IsWork(WorkRec(Empty, Empty, Empty, {}, TRUE))
    BY <1>3, IsWorkRec
  <1>6. QED  BY <1>1, <1>2, <1>4, <1>5

\* A record of work, one field changed.
LEMMA WorkRecUpdates ==
    ASSUME NEW w, IsWork(w), NEW x
    PROVE  /\ [w EXCEPT !.swap = x] = WorkRec(x, w.balance, w.done, w.undone, w.poisoned)
           /\ [w EXCEPT !.balance = x] = WorkRec(w.swap, x, w.done, w.undone, w.poisoned)
           /\ [w EXCEPT !.done = x] = WorkRec(w.swap, w.balance, x, w.undone, w.poisoned)
           /\ [w EXCEPT !.undone = x] = WorkRec(w.swap, w.balance, w.done, x, w.poisoned)
  <1>1. w = WorkRec(w.swap, w.balance, w.done, w.undone, w.poisoned)
    BY DEF IsWork, WorkRec
  <1>2. \A a, b, c, d, e :
           /\ [WorkRec(a, b, c, d, e) EXCEPT !.swap = x] = WorkRec(x, b, c, d, e)
           /\ [WorkRec(a, b, c, d, e) EXCEPT !.balance = x] = WorkRec(a, x, c, d, e)
           /\ [WorkRec(a, b, c, d, e) EXCEPT !.done = x] = WorkRec(a, b, x, d, e)
           /\ [WorkRec(a, b, c, d, e) EXCEPT !.undone = x] = WorkRec(a, b, c, x, e)
    BY DEF WorkRec
  <1>3. QED  BY <1>1, <1>2


-----------------------------------------------------------------------------
(* How one step changes the work of a thread *)

\* The step changes nothing of the other threads.
Frame(t) ==
    \A u \in Threads \ {t} :
        /\ work'[u] = work[u] /\ pc'[u] = pc[u] /\ part'[u] = part[u]
        /\ attempt'[u] = attempt[u] /\ attemptsMade'[u] = attemptsMade[u]

SettledGrows ==
    settled' \in [Swaps -> Nat] /\ \A s \in Swaps : settled'[s] >= settled[s]

\* What holds of the other threads goes on holding.
LEMMA OthersKeepInv ==
    ASSUME TypeOK, NEW t \in Threads, Frame(t), SettledGrows,
           NEW u \in Threads, u # t, ThreadInv(u)
    PROVE  ThreadInv(u)'
  <1>1. /\ work'[u] = work[u] /\ pc'[u] = pc[u] /\ part'[u] = part[u]
        /\ attempt'[u] = attempt[u] /\ attemptsMade'[u] = attemptsMade[u]
    BY DEF Frame
  <1>2. CompletedInWork(u)'
    <2>1. DOMAIN work[u].swap \subseteq Swaps
      BY SwapFacts DEF TypeOK, IsWork, PartialOn
    <2>2. \A s \in Swaps : settled[s] > 0 => settled'[s] > 0
      BY DEF SettledGrows, TypeOK
    <2>3. QED  BY <1>1, <2>1, <2>2 DEF ThreadInv, CompletedInWork
  <1>3. /\ QuietHasNoWork(u)' /\ WorkCovered(u)' /\ RetriesBounded(u)'
    BY <1>1 DEF ThreadInv, QuietHasNoWork, WorkCovered, RetriesBounded
  <1>4. Earlier(u)' = Earlier(u)
    BY <1>1 DEF Earlier
  <1>5. /\ LocksInOrder(u)' /\ ExchangedInOrder(u)' /\ EarlierHaveRows(u)'
    BY <1>1, <1>4 DEF ThreadInv, LocksInOrder, ExchangedInOrder, EarlierHaveRows, Current
  <1>6. QED  BY <1>2, <1>3, <1>5 DEF ThreadInv

LEMMA RowsOfFacts ==
    ASSUME NEW w
    PROVE  /\ \A s : <<"swap", s>> \in RowsOf(w) <=> s \in DOMAIN w.swap
           /\ \A a : <<"balance", a>> \in RowsOf(w) <=> a \in DOMAIN w.balance
           /\ \A r : r \in RowsOf(w) <=> \/ \E s \in DOMAIN w.swap : r = <<"swap", s>>
                                        \/ \E a \in DOMAIN w.balance : r = <<"balance", a>>
  <1>1. \A r : r \in RowsOf(w) <=> \/ \E s \in DOMAIN w.swap : r = <<"swap", s>>
                                  \/ \E a \in DOMAIN w.balance : r = <<"balance", a>>
    BY DEF RowsOf
  <1>2. \A s, a : <<"swap", s>> # <<"balance", a>>
    OBVIOUS
  <1>3. \A s, a : <<"swap", s>> = <<"swap", a>> => s = a
    OBVIOUS
  <1>4. \A s, a : <<"balance", s>> = <<"balance", a>> => s = a
    OBVIOUS
  <1>5. \A s : <<"swap", s>> \in RowsOf(w) <=> s \in DOMAIN w.swap
    BY <1>1, <1>2, <1>3
  <1>6. \A a : <<"balance", a>> \in RowsOf(w) <=> a \in DOMAIN w.balance
    BY <1>1, <1>2, <1>4
  <1>7. QED  BY <1>1, <1>5, <1>6

\* A thread that takes only rows nobody else holds leaves the rows exclusive.
LEMMA FreeKeepsExclusive ==
    ASSUME TypeOK, RowsExclusive, NEW t \in Threads,
           \A u \in Threads \ {t} : work'[u] = work[u],
           NEW rows, Free(t, rows), RowsOf(work'[t]) \subseteq Holds(t) \cup rows
    PROVE  RowsExclusive'
  <1>1. \A u \in Threads \ {t} : Holds(u)' = Holds(u)
    BY DEF Holds
  <1>2. Holds(t)' \subseteq Holds(t) \cup rows
    BY DEF Holds
  <1>3. \A u \in Threads \ {t} : rows \cap Holds(u) = {}
    BY DEF Free
  <1>4. QED  BY <1>1, <1>2, <1>3 DEF RowsExclusive

\* A thread that takes nothing leaves the rows exclusive.
LEMMA NothingTaken ==
    ASSUME RowsExclusive, NEW t \in Threads,
           \A u \in Threads \ {t} : work'[u] = work[u],
           RowsOf(work'[t]) \subseteq Holds(t)
    PROVE  RowsExclusive'
  BY DEF RowsExclusive, Holds

LEMMA EmptyWork ==
    /\ DOMAIN NoWork.swap = {} /\ DOMAIN NoWork.balance = {}
    /\ DOMAIN NoWork.done = {} /\ NoWork.poisoned = FALSE
    /\ DOMAIN Broken.swap = {} /\ DOMAIN Broken.balance = {}
    /\ DOMAIN Broken.done = {} /\ Broken.poisoned = TRUE
    /\ RowsOf(NoWork) = {} /\ RowsOf(Broken) = {}
  <1>a. /\ NoWork.swap = Empty /\ NoWork.balance = Empty /\ NoWork.done = Empty
        /\ NoWork.poisoned = FALSE
        /\ Broken.swap = Empty /\ Broken.balance = Empty /\ Broken.done = Empty
        /\ Broken.poisoned = TRUE
    BY DEF NoWork, Broken
  <1>1. /\ DOMAIN NoWork.swap = {} /\ DOMAIN NoWork.balance = {}
        /\ DOMAIN NoWork.done = {} /\ NoWork.poisoned = FALSE
        /\ DOMAIN Broken.swap = {} /\ DOMAIN Broken.balance = {}
        /\ DOMAIN Broken.done = {} /\ Broken.poisoned = TRUE
    BY <1>a, EmptyFacts
  <1>2. RowsOf(NoWork) = {} /\ RowsOf(Broken) = {}
    BY <1>1, RowsOfFacts
  <1>3. QED  BY <1>1, <1>2

\* The types of the tables, of the jobs' bookkeeping, and of the threads.
DbType ==
    /\ status \in [Swaps -> Status] /\ balance \in [Accounts -> Int]
    /\ settled \in [Swaps -> Nat] /\ paid \in [Swaps -> Nat] /\ refunded \in [Swaps -> Nat]

WorkType == work = [t \in Threads |-> work[t]] /\ \A t \in Threads : IsWork(work[t])

BullType ==
    /\ attemptsMade \in [Threads -> 0..MaxAttempts]
    /\ hook \in [Threads -> Nat] /\ crashes \in 0..MaxCrashes

ControlType ==
    /\ pc \in [Threads -> Pcs]
    /\ part \in [Threads -> Nat] /\ \A t \in Threads : part[t] \in 1..Len(Parts[t])
    /\ toUndo \in [Threads -> Seq(Rows)]
    /\ attempt \in [Threads -> 0..MaxRetries + 1]

LEMMA TypeParts == TypeOK <=> DbType /\ WorkType /\ BullType /\ ControlType
  BY DEF TypeOK, DbType, WorkType, BullType, ControlType

LEMMA WorkStep ==
    ASSUME WorkType, NEW t \in Threads, NEW w, IsWork(w), work' = [work EXCEPT ![t] = w]
    PROVE  /\ work'[t] = w /\ \A u \in Threads \ {t} : work'[u] = work[u]
           /\ WorkType'
  <1>1. DOMAIN work = Threads
    BY DEF WorkType
  <1>2. work'[t] = w /\ \A u \in Threads \ {t} : work'[u] = work[u]
    BY <1>1
  <1>3. work' = [u \in Threads |-> work'[u]]
    BY <1>1
  <1>4. \A u \in Threads : IsWork(work'[u])
    BY <1>2 DEF WorkType
  <1>5. QED  BY <1>2, <1>3, <1>4 DEF WorkType

LEMMA GotoStep ==
    ASSUME ControlType, NEW t \in Threads, NEW x \in Pcs, Goto(t, x)
    PROVE  /\ pc' \in [Threads -> Pcs] /\ pc'[t] = x
           /\ \A u \in Threads \ {t} : pc'[u] = pc[u]
  BY DEF ControlType, Goto

\* The facts a step of t must give for the whole invariant to be kept.
LEMMA ThreadStepKeepsIInv ==
    ASSUME IInv, NEW t \in Threads, Frame(t), SettledGrows,
           DbType', WorkType', BullType', ControlType', RowsExclusive', DbInv', ThreadInv(t)'
    PROVE  IInv'
  <1>1. TypeOK'
    BY TypeParts DEF TypeOK, DbType, WorkType, BullType, ControlType
  <1>2. \A u \in Threads : ThreadInv(u)'
    BY OthersKeepInv DEF IInv
  <1>3. QED  BY <1>1, <1>2 DEF IInv

LEMMA UnchangedDb ==
    ASSUME DbType, DbInv, UNCHANGED dbVars
    PROVE  DbType' /\ DbInv' /\ SettledGrows
  <1>1. \A s \in Swaps : settled'[s] = settled[s] /\ settled[s] \in Nat
    BY DEF DbType, dbVars
  <1>2. SettledGrows
    BY <1>1 DEF SettledGrows, DbType, dbVars
  <1>3. QED  BY <1>2 DEF DbType, DbInv, dbVars, BalancesCovered, CompletedIsSettled, AllOrNothing

\* Statuses other than COMPLETED may be written at any time.
LEMMA StatusWritten ==
    ASSUME DbType, DbInv, UNCHANGED <<balance, settled, paid, refunded>>,
           status' \in [Swaps -> Status],
           \A s \in Swaps : status'[s] = "completed" => status[s] = "completed"
    PROVE  DbType' /\ DbInv' /\ SettledGrows
  <1>1. \A s \in Swaps : settled'[s] = settled[s] /\ settled[s] \in Nat
    BY DEF DbType
  <1>2. SettledGrows
    BY <1>1 DEF SettledGrows, DbType
  <1>3. QED  BY <1>2 DEF DbType, DbInv, BalancesCovered, CompletedIsSettled, AllOrNothing

LEMMA UpdateStatusStep ==
    ASSUME DbType, DbInv, UNCHANGED <<balance, settled, paid, refunded>>,
           NEW s \in Swaps, NEW new \in Status \ {"completed"}, UpdateStatus(s, new)
    PROVE  DbType' /\ DbInv' /\ SettledGrows
  <1>1. status' \in [Swaps -> Status]
    BY DEF UpdateStatus, DbType
  <1>2. \A x \in Swaps : status'[x] = "completed" => status[x] = "completed"
    BY DEF UpdateStatus, DbType
  <1>3. QED  BY <1>1, <1>2, StatusWritten

LEMMA CurrentFacts ==
    ASSUME ControlType, NEW t \in Threads
    PROVE  /\ Current(t) \in Swaps /\ Current(t) \in PartsOf(t)
           /\ From[Current(t)] \in Accounts /\ To[Current(t)] \in Accounts
           /\ From[Current(t)] # To[Current(t)]
  <1>1. part[t] \in 1..Len(Parts[t])
    BY DEF ControlType
  <1>2. Current(t) \in Swaps /\ Current(t) \in PartsOf(t)
    BY <1>1, ThreadFacts DEF Current, PartsOf
  <1>3. QED  BY <1>2, SwapFacts

\* FailJob: the job waits for its next attempt or is given up.
LEMMA FailJobStep ==
    ASSUME ControlType, BullType, NEW t \in Threads, RetriesBounded(t), pc[t] # "dead",
           FailJob(t), attempt' = attempt
    PROVE  /\ pc' \in [Threads -> Pcs] /\ pc'[t] \in {"waiting", "dead"}
           /\ \A u \in Threads \ {t} : pc'[u] = pc[u] /\ attemptsMade'[u] = attemptsMade[u]
           /\ BullType' /\ RetriesBounded(t)'
  <1>1. attemptsMade[t] \in Nat /\ attemptsMade[t] < MaxAttempts
    BY DEF RetriesBounded, BullType
  <1>2. /\ pc' \in [Threads -> Pcs] /\ pc'[t] \in {"waiting", "dead"}
        /\ \A u \in Threads \ {t} : pc'[u] = pc[u]
        /\ pc'[t] # "dead" => attemptsMade[t] + 1 < MaxAttempts
    BY DEF FailJob, Goto, ControlType, Pcs
  <1>3. /\ attemptsMade'[t] = attemptsMade[t] + 1
        /\ \A u \in Threads \ {t} : attemptsMade'[u] = attemptsMade[u]
        /\ attemptsMade' \in [Threads -> 0..MaxAttempts]
    BY <1>1, ThreadFacts DEF FailJob, BullType
  <1>4. BullType'
    BY <1>3 DEF FailJob, BullType
  <1>5. RetriesBounded(t)'
    BY <1>2, <1>3 DEF RetriesBounded, Working
  <1>6. QED  BY <1>2, <1>3, <1>4, <1>5

LEMMA Unpack ==
    ASSUME IInv, NEW t \in Threads
    PROVE  /\ DbType /\ WorkType /\ BullType /\ ControlType /\ DbInv /\ RowsExclusive
           /\ TypeOK /\ ThreadInv(t) /\ IsWork(work[t])
  <1>1. TypeOK /\ RowsExclusive /\ DbInv /\ ThreadInv(t)
    BY DEF IInv
  <1>2. DbType /\ WorkType /\ BullType /\ ControlType
    BY <1>1, TypeParts
  <1>3. QED  BY <1>1, <1>2 DEF WorkType

LEMMA SameWork ==
    ASSUME WorkType, RowsExclusive, UNCHANGED work
    PROVE  WorkType' /\ RowsExclusive' /\ \A u \in Threads : work'[u] = work[u]
  BY DEF WorkType, RowsExclusive, Holds

LEMMA SameBull ==
    ASSUME BullType, UNCHANGED bullVars
    PROVE  BullType' /\ \A u \in Threads : attemptsMade'[u] = attemptsMade[u]
  BY DEF BullType, bullVars

\* A transaction without work satisfies what is asked of open ones.
LEMMA IdleInv ==
    ASSUME NEW t \in Threads, work'[t] = NoWork \/ work'[t] = Broken,
           pc'[t] \in Quiet \cup {"undo", "abort"}, pc'[t] \in Quiet => work'[t] = NoWork,
           EarlierHaveRows(t)', attemptsMade'[t] < MaxAttempts \/ pc'[t] = "dead"
    PROVE  ThreadInv(t)'
  <1>1. /\ DOMAIN work'[t].swap = {} /\ DOMAIN work'[t].balance = {}
        /\ DOMAIN work'[t].done = {}
    BY EmptyWork
  <1>2. /\ QuietHasNoWork(t)' /\ LocksInOrder(t)' /\ RetriesBounded(t)'
    BY DEF QuietHasNoWork, LocksInOrder, RetriesBounded, Working, Quiet
  <1>3. ExchangedInOrder(t)'
    BY <1>1 DEF ExchangedInOrder, Working, Quiet
  <1>4. CompletedInWork(t)' /\ WorkCovered(t)'
    BY <1>1 DEF CompletedInWork, WorkCovered
  <1>5. QED  BY <1>2, <1>3, <1>4 DEF ThreadInv

-----------------------------------------------------------------------------
(* The steps of a job *)

LEMMA StartJobStep ==
    ASSUME IInv, NEW t \in Threads, StartJob(t)
    PROVE  IInv'
  <1> USE DEF StartJob
  <1>1. /\ DbType /\ WorkType /\ BullType /\ ControlType /\ DbInv /\ RowsExclusive
        /\ ThreadInv(t)
    BY Unpack
  <1>2. DbType' /\ DbInv' /\ SettledGrows
    BY <1>1, UnchangedDb
  <1>3. WorkType' /\ RowsExclusive' /\ \A u \in Threads : work'[u] = work[u]
    BY <1>1, SameWork
  <1>4. BullType' /\ \A u \in Threads : attemptsMade'[u] = attemptsMade[u]
    BY <1>1, SameBull
  <1>5. /\ pc' \in [Threads -> Pcs] /\ pc'[t] = "mark"
        /\ \A u \in Threads \ {t} : pc'[u] = pc[u]
    BY <1>1, GotoStep DEF Pcs
  <1>6. part'[t] = 1 /\ attempt'[t] = 0
    BY <1>1 DEF ControlType
  <1>7. ControlType'
    BY <1>1, <1>5, ThreadFacts DEF ControlType
  <1>8. Frame(t)
    BY <1>1, <1>3, <1>4, <1>5 DEF Frame, ControlType
  <1>9. work'[t] = NoWork
    BY <1>1, <1>3 DEF ThreadInv, QuietHasNoWork, Quiet
  <1>10. Earlier(t)' = {}
    BY <1>6 DEF Earlier
  <1>11. ThreadInv(t)'
    <2>1. QuietHasNoWork(t)' /\ LocksInOrder(t)'
      BY <1>5, <1>9 DEF QuietHasNoWork, LocksInOrder
    <2>2. ExchangedInOrder(t)' /\ EarlierHaveRows(t)'
      BY <1>5, <1>9, <1>10, EmptyWork DEF ExchangedInOrder, EarlierHaveRows
    <2>3. RetriesBounded(t)'
      BY <1>1, <1>4, <1>5, <1>6, ThreadFacts DEF ThreadInv, RetriesBounded
    <2>4. CompletedInWork(t)' /\ WorkCovered(t)'
      BY <1>9, EmptyWork DEF CompletedInWork, WorkCovered
    <2>5. QED  BY <2>1, <2>2, <2>3, <2>4 DEF ThreadInv
  <1>12. QED  BY <1>2, <1>3, <1>4, <1>7, <1>8, <1>11, ThreadStepKeepsIInv

LEMMA HandleThrowStep ==
    ASSUME IInv, NEW t \in Threads, HandleThrow(t)
    PROVE  IInv'
  <1> USE DEF HandleThrow
  <1>1. /\ DbType /\ WorkType /\ BullType /\ ControlType /\ DbInv /\ RowsExclusive
        /\ ThreadInv(t)
    BY Unpack
  <1>2. DbType' /\ DbInv' /\ SettledGrows
    BY <1>1, UnchangedDb
  <1>3. WorkType' /\ RowsExclusive' /\ \A u \in Threads : work'[u] = work[u]
    BY <1>1, SameWork
  <1>4. BullType' /\ \A u \in Threads : attemptsMade'[u] = attemptsMade[u]
    BY <1>1, SameBull
  <1>5. attempt[t] \in 0..MaxRetries + 1 /\ attempt[t] <= MaxRetries
    BY <1>1 DEF ControlType, ThreadInv, RetriesBounded, Working
  <1>6. /\ pc' \in [Threads -> Pcs] /\ pc'[t] \in {"giveUp", "retry"}
        /\ \A u \in Threads \ {t} : pc'[u] = pc[u]
        /\ pc'[t] = "retry" => attempt[t] + 1 <= MaxRetries
    BY <1>1, <1>5, ThreadFacts DEF Pcs, Goto, ControlType
  <1>7. attempt'[t] = attempt[t] + 1 /\ attempt' \in [Threads -> 0..MaxRetries + 1]
    BY <1>1, <1>5, ThreadFacts DEF ControlType
  <1>8. ControlType'
    BY <1>1, <1>6, <1>7 DEF ControlType
  <1>9. Frame(t)
    BY <1>1, <1>3, <1>4, <1>6 DEF Frame, ControlType
  <1>10. ThreadInv(t)'
    <2>1. QuietHasNoWork(t)' /\ LocksInOrder(t)'
      BY <1>6 DEF QuietHasNoWork, LocksInOrder, Quiet
    <2>2. Earlier(t)' = Earlier(t)
      BY DEF Earlier
    <2>3. ExchangedInOrder(t)' /\ EarlierHaveRows(t)'
      BY <1>1, <1>3, <1>6, <2>2 DEF ThreadInv, ExchangedInOrder, EarlierHaveRows, Working
    <2>4. RetriesBounded(t)'
      BY <1>1, <1>4, <1>6, <1>7 DEF ThreadInv, RetriesBounded, Working
    <2>5. CompletedInWork(t)' /\ WorkCovered(t)'
      BY <1>1, <1>3 DEF ThreadInv, CompletedInWork, WorkCovered, dbVars
    <2>6. QED  BY <2>1, <2>3, <2>4, <2>5 DEF ThreadInv
  <1>11. QED  BY <1>2, <1>3, <1>4, <1>8, <1>9, <1>10, ThreadStepKeepsIInv

\* A step that leaves the transaction as it is and goes on with the same swap.
LEMMA StaysWorking ==
    ASSUME IInv, NEW t \in Threads, NEW x \in {"attempt", "threw", "abort"},
           pc[t] \in Working, x # "abort" => pc[t] # "giveUp", Goto(t, x),
           UNCHANGED <<work, part, attempt, toUndo>>, UNCHANGED bullVars,
           DbType', DbInv', SettledGrows
    PROVE  IInv'
  <1>1. /\ WorkType /\ BullType /\ ControlType /\ RowsExclusive /\ ThreadInv(t)
    BY Unpack
  <1>3. WorkType' /\ RowsExclusive' /\ \A u \in Threads : work'[u] = work[u]
    BY <1>1, SameWork
  <1>4. BullType' /\ \A u \in Threads : attemptsMade'[u] = attemptsMade[u]
    BY <1>1, SameBull
  <1>5. /\ pc' \in [Threads -> Pcs] /\ pc'[t] = x
        /\ \A u \in Threads \ {t} : pc'[u] = pc[u]
    BY <1>1, GotoStep DEF Pcs
  <1>6. ControlType'
    BY <1>1, <1>5 DEF ControlType
  <1>7. Frame(t)
    BY <1>3, <1>4, <1>5 DEF Frame
  <1>8. ThreadInv(t)'
    <2>1. QuietHasNoWork(t)' /\ LocksInOrder(t)'
      BY <1>5 DEF QuietHasNoWork, LocksInOrder, Quiet
    <2>2. Earlier(t)' = Earlier(t)
      BY DEF Earlier
    <2>3. ExchangedInOrder(t)' /\ EarlierHaveRows(t)'
      BY <1>1, <1>3, <1>5, <2>2 DEF ThreadInv, ExchangedInOrder, EarlierHaveRows, Working
    <2>4. RetriesBounded(t)'
      BY <1>1, <1>4, <1>5 DEF ThreadInv, RetriesBounded, Working
    <2>5. CompletedInWork(t)'
      <3>1. DOMAIN work[t].swap \subseteq Swaps
        BY <1>1, SwapFacts DEF WorkType, IsWork, PartialOn
      <3>2. \A s \in Swaps : settled[s] > 0 => settled'[s] > 0
        BY Unpack DEF SettledGrows, DbType
      <3>3. QED  BY <1>1, <1>3, <3>1, <3>2 DEF ThreadInv, CompletedInWork
    <2>6. WorkCovered(t)'
      BY <1>1, <1>3 DEF ThreadInv, WorkCovered
    <2>7. QED  BY <2>1, <2>3, <2>4, <2>5, <2>6 DEF ThreadInv
  <1>9. QED  BY <1>3, <1>4, <1>6, <1>7, <1>8, ThreadStepKeepsIInv

\* A step in which the transaction of t takes rows nobody else holds.
LEMMA TakesRows ==
    ASSUME IInv, NEW t \in Threads, pc[t] \in Working \ {"giveUp"},
           NEW x \in {"attempt", "threw", "lockFrom", "exchange"}, Goto(t, x),
           NEW w, IsWork(w), work' = [work EXCEPT ![t] = w],
           NEW rows, Free(t, rows), RowsOf(w) \subseteq Holds(t) \cup rows,
           w.done = work[t].done, w.poisoned = work[t].poisoned,
           \A a \in DOMAIN w.balance : w.balance[a] >= 0,
           \A s \in DOMAIN w.swap :
              w.swap[s] = "completed" => settled[s] > 0 \/ s \in DOMAIN w.done,
           x \in {"lockFrom", "exchange"} => Current(t) \in DOMAIN w.swap /\ ~w.poisoned,
           x = "exchange" => From[Current(t)] \in DOMAIN w.balance,
           UNCHANGED <<dbVars, part, attempt, toUndo>>, UNCHANGED bullVars
    PROVE  IInv'
  <1>1. /\ DbType /\ WorkType /\ BullType /\ ControlType /\ DbInv /\ RowsExclusive
        /\ ThreadInv(t) /\ TypeOK
    BY Unpack
  <1>2. DbType' /\ DbInv' /\ SettledGrows
    BY <1>1, UnchangedDb
  <1>3. work'[t] = w /\ (\A u \in Threads \ {t} : work'[u] = work[u]) /\ WorkType'
    BY <1>1, WorkStep
  <1>4. BullType' /\ \A u \in Threads : attemptsMade'[u] = attemptsMade[u]
    BY <1>1, SameBull
  <1>5. /\ pc' \in [Threads -> Pcs] /\ pc'[t] = x
        /\ \A u \in Threads \ {t} : pc'[u] = pc[u]
    BY <1>1, GotoStep DEF Pcs
  <1>6. ControlType'
    BY <1>1, <1>5 DEF ControlType
  <1>7. Frame(t)
    BY <1>3, <1>4, <1>5 DEF Frame
  <1>8. RowsExclusive'
    BY <1>1, <1>3, FreeKeepsExclusive
  <1>9. ThreadInv(t)'
    <2>1. QuietHasNoWork(t)' /\ LocksInOrder(t)'
      BY <1>3, <1>5 DEF QuietHasNoWork, LocksInOrder, Quiet, Current
    <2>2. Earlier(t)' = Earlier(t)
      BY DEF Earlier
    <2>3. ExchangedInOrder(t)' /\ EarlierHaveRows(t)'
      BY <1>1, <1>3, <1>5, <2>2 DEF ThreadInv, ExchangedInOrder, EarlierHaveRows, Working
    <2>4. RetriesBounded(t)'
      BY <1>1, <1>4, <1>5 DEF ThreadInv, RetriesBounded, Working
    <2>5. CompletedInWork(t)' /\ WorkCovered(t)'
      BY <1>3 DEF CompletedInWork, WorkCovered, dbVars
    <2>6. QED  BY <2>1, <2>3, <2>4, <2>5 DEF ThreadInv
  <1>10. QED  BY <1>2, <1>3, <1>4, <1>6, <1>7, <1>8, <1>9, ThreadStepKeepsIInv

\* The rows of a transaction grow with the rows it writes.
LEMMA RowsGrow ==
    ASSUME NEW v, NEW w, NEW S, NEW A,
           DOMAIN w.swap \subseteq DOMAIN v.swap \cup S,
           DOMAIN w.balance \subseteq DOMAIN v.balance \cup A
    PROVE  RowsOf(w) \subseteq RowsOf(v) \cup {<<"swap", s>> : s \in S}
                                         \cup {<<"balance", a>> : a \in A}
  <1> SUFFICES ASSUME NEW r, r \in RowsOf(w)
               PROVE  r \in RowsOf(v) \cup {<<"swap", s>> : s \in S}
                                      \cup {<<"balance", a>> : a \in A}
    OBVIOUS
  <1>1. CASE \E s \in DOMAIN w.swap : r = <<"swap", s>>
    BY <1>1, RowsOfFacts
  <1>2. CASE \E a \in DOMAIN w.balance : r = <<"balance", a>>
    BY <1>2, RowsOfFacts
  <1>3. QED  BY <1>1, <1>2, RowsOfFacts

LEMMA WriteSwapFacts ==
    ASSUME NEW t \in Threads, IsWork(work[t]), NEW s \in Rows, NEW new \in Status,
           NEW w, w = WriteSwap(t, s, new)
    PROVE  /\ IsWork(w) /\ w.swap = With(work[t].swap, s, new)
           /\ w.balance = work[t].balance /\ w.done = work[t].done
           /\ w.undone = work[t].undone /\ w.poisoned = work[t].poisoned
           /\ RowsOf(w) \subseteq Holds(t) \cup SwapRow(s)
  <1> DEFINE f == With(work[t].swap, s, new)
  <1>1. w = WorkRec(f, work[t].balance, work[t].done, work[t].undone, work[t].poisoned)
    BY WorkRecUpdates DEF WriteSwap
  <1>2. PartialOn(f, Rows, Status)
    BY WithPartial DEF IsWork
  <1>3. IsWork(w)
    <2> HIDE DEF f
    <2>1. QED  BY <1>1, <1>2, IsWorkRec DEF IsWork
  <1>4. /\ w.swap = f /\ w.balance = work[t].balance /\ w.done = work[t].done
        /\ w.undone = work[t].undone /\ w.poisoned = work[t].poisoned
    BY <1>1, WorkRecFields
  <1>a. DOMAIN f = DOMAIN work[t].swap \cup {s}
    BY WithFacts
  <1>5. DOMAIN w.swap = DOMAIN work[t].swap \cup {s}
    <2> HIDE DEF f
    <2>1. QED  BY <1>4, <1>a
  <1>6. RowsOf(w) \subseteq RowsOf(work[t]) \cup {<<"swap", x>> : x \in {s}}
                                            \cup {<<"balance", a>> : a \in {}}
    BY <1>4, <1>5, RowsGrow
  <1>7. RowsOf(w) \subseteq Holds(t) \cup SwapRow(s)
    BY <1>6 DEF Holds, SwapRow
  <1>8. QED  BY <1>3, <1>4, <1>7

LEMMA SeenFacts ==
    ASSUME IInv, NEW t \in Threads
    PROVE  /\ \A s \in Swaps : /\ SeenStatus(t, s) \in Status
                               /\ SeenStatus(t, s) = "completed" =>
                                     settled[s] > 0 \/ s \in DOMAIN work[t].done
           /\ \A a \in Accounts : SeenBalance(t, a) \in Int /\ SeenBalance(t, a) >= 0
  <1>1. DbType /\ DbInv /\ ThreadInv(t) /\ IsWork(work[t])
    BY Unpack
  <1>2. ASSUME NEW s \in Swaps
        PROVE  /\ SeenStatus(t, s) \in Status
               /\ SeenStatus(t, s) = "completed" =>
                     settled[s] > 0 \/ s \in DOMAIN work[t].done
    <2>1. CASE s \in DOMAIN work[t].swap
      BY <1>1, <2>1 DEF SeenStatus, IsWork, PartialOn, ThreadInv, CompletedInWork
    <2>2. CASE s \notin DOMAIN work[t].swap
      BY <1>1, <2>2 DEF SeenStatus, DbType, DbInv, CompletedIsSettled
    <2>3. QED  BY <2>1, <2>2
  <1>3. ASSUME NEW a \in Accounts
        PROVE  SeenBalance(t, a) \in Int /\ SeenBalance(t, a) >= 0
    <2>1. CASE a \in DOMAIN work[t].balance
      BY <1>1, <2>1 DEF SeenBalance, IsWork, PartialOn, ThreadInv, WorkCovered
    <2>2. CASE a \notin DOMAIN work[t].balance
      BY <1>1, <2>2 DEF SeenBalance, DbType, DbInv, BalancesCovered
    <2>3. QED  BY <2>1, <2>2
  <1>4. QED  BY <1>2, <1>3

\* The status written is not COMPLETED unless the swap was seen COMPLETED.
LEMMA WritesSwap ==
    ASSUME IInv, NEW t \in Threads, NEW s \in Rows, NEW new \in Status,
           new # "completed" \/ new = SeenStatus(t, s),
           NEW w, w = WriteSwap(t, s, new)
    PROVE  /\ \A a \in DOMAIN w.balance : w.balance[a] >= 0
           /\ \A x \in DOMAIN w.swap :
                 w.swap[x] = "completed" => settled[x] > 0 \/ x \in DOMAIN w.done
           /\ s \in DOMAIN w.swap
  <1>1. ThreadInv(t) /\ IsWork(work[t])
    BY Unpack
  <1>2. /\ w.swap = With(work[t].swap, s, new) /\ w.balance = work[t].balance
        /\ w.done = work[t].done
    BY <1>1, WriteSwapFacts
  <1>3. /\ DOMAIN w.swap = DOMAIN work[t].swap \cup {s} /\ w.swap[s] = new
        /\ \A x \in DOMAIN work[t].swap : x # s => w.swap[x] = work[t].swap[x]
    <2>1. /\ DOMAIN With(work[t].swap, s, new) = DOMAIN work[t].swap \cup {s}
          /\ With(work[t].swap, s, new)[s] = new
          /\ \A x \in DOMAIN work[t].swap :
                x # s => With(work[t].swap, s, new)[x] = work[t].swap[x]
      BY DEF With
    <2>2. QED  BY <1>2, <2>1
  <1>4. \A a \in DOMAIN w.balance : w.balance[a] >= 0
    BY <1>1, <1>2 DEF ThreadInv, WorkCovered
  <1>5. new = "completed" => settled[s] > 0 \/ s \in DOMAIN work[t].done
    BY SeenFacts, SwapFacts
  <1>6. \A x \in DOMAIN w.swap :
           w.swap[x] = "completed" => settled[x] > 0 \/ x \in DOMAIN w.done
    BY <1>1, <1>2, <1>3, <1>5 DEF ThreadInv, CompletedInWork
  <1>7. QED  BY <1>3, <1>4, <1>6

LEMMA UpdateRetryingStep ==
    ASSUME IInv, NEW t \in Threads, UpdateRetrying(t)
    PROVE  IInv'
  <1>1. DbType /\ DbInv /\ ControlType
    BY Unpack
  <1>2. DbType' /\ DbInv' /\ SettledGrows
    BY <1>1, CurrentFacts, UpdateStatusStep DEF UpdateRetrying, Status
  <1>3. QED  BY <1>2, StaysWorking DEF UpdateRetrying, Working

LEMMA GiveUpStep ==
    ASSUME IInv, NEW t \in Threads, GiveUp(t)
    PROVE  IInv'
  <1>1. DbType /\ DbInv /\ ControlType
    BY Unpack
  <1>2. DbType' /\ DbInv' /\ SettledGrows
    BY <1>1, CurrentFacts, UpdateStatusStep DEF GiveUp, Status
  <1>3. QED  BY <1>2, StaysWorking DEF GiveUp, Working

LEMMA MarkProcessingStep ==
    ASSUME IInv, NEW t \in Threads, MarkProcessing(t)
    PROVE  IInv'
  <1> DEFINE s == Current(t)
  <1>1. DbType /\ DbInv /\ ControlType /\ IsWork(work[t])
    BY Unpack
  <1>2. CASE UpdateStatus(s, "processing") /\ UNCHANGED work
    <2>1. DbType' /\ DbInv' /\ SettledGrows
      BY <1>1, <1>2, CurrentFacts, UpdateStatusStep DEF MarkProcessing, Status
    <2>2. QED  BY <1>2, <2>1, StaysWorking DEF MarkProcessing, Working
  <1>3. CASE /\ Free(t, SwapRow(s)) /\ s \in Rows
             /\ work' = [work EXCEPT ![t] = WriteSwap(t, s, "processing")]
             /\ UNCHANGED status
    <2> DEFINE w == WriteSwap(t, s, "processing")
    <2>1. /\ IsWork(w) /\ w.done = work[t].done /\ w.poisoned = work[t].poisoned
          /\ RowsOf(w) \subseteq Holds(t) \cup SwapRow(s)
      BY <1>1, <1>3, WriteSwapFacts DEF Status
    <2>2. /\ \A a \in DOMAIN w.balance : w.balance[a] >= 0
          /\ \A x \in DOMAIN w.swap :
                w.swap[x] = "completed" => settled[x] > 0 \/ x \in DOMAIN w.done
      BY <1>3, WritesSwap DEF Status
    <2>3. /\ pc[t] \in Working \ {"giveUp"} /\ Goto(t, "attempt")
          /\ UNCHANGED <<dbVars, part, attempt, toUndo>> /\ UNCHANGED bullVars
          /\ Free(t, SwapRow(s)) /\ work' = [work EXCEPT ![t] = w]
      BY <1>3 DEF MarkProcessing, Working, dbVars
    <2> HIDE DEF w
    <2>4. QED  BY <2>1, <2>2, <2>3, TakesRows
  <1>4. CASE s \notin Rows /\ work' = [work EXCEPT ![t] = WriteSwap(t, s, "processing")]
             /\ UNCHANGED status
    <2>1. UNCHANGED work
      BY <1>1, <1>4, Unpack DEF WriteSwap, WorkType
    <2>2. DbType' /\ DbInv' /\ SettledGrows
      BY <1>1, <1>4, UnchangedDb DEF MarkProcessing, dbVars
    <2>3. QED  BY <2>1, <2>2, StaysWorking DEF MarkProcessing, Working
  <1>5. QED  BY <1>2, <1>3, <1>4 DEF MarkProcessing

LEMMA AttemptSettlementStep ==
    ASSUME IInv, NEW t \in Threads, AttemptSettlement(t)
    PROVE  IInv'
  <1> DEFINE s == Current(t)
  <1>1. DbType /\ DbInv /\ ControlType /\ IsWork(work[t]) /\ s \in Swaps
    BY Unpack, CurrentFacts
  <1>2. /\ pc[t] \in Working \ {"giveUp"}
        /\ UNCHANGED <<dbVars, part, attempt, toUndo>> /\ UNCHANGED bullVars
    BY DEF AttemptSettlement, Working
  <1>3. CASE Goto(t, "threw") /\ UNCHANGED work
    <2>1. DbType' /\ DbInv' /\ SettledGrows
      BY <1>1, <1>2, UnchangedDb
    <2>2. QED  BY <1>2, <1>3, <2>1, StaysWorking
  <1>4. ASSUME NEW x \in {"threw", "lockFrom"}, NEW new \in Status,
               new # "completed" \/ new = SeenStatus(t, s),
               ~work[t].poisoned, s \in Rows, Free(t, SwapRow(s)), Goto(t, x),
               work' = [work EXCEPT ![t] = WriteSwap(t, s, new)]
        PROVE  IInv'
    <2> DEFINE w == WriteSwap(t, s, new)
    <2>1. /\ IsWork(w) /\ w.done = work[t].done /\ w.poisoned = work[t].poisoned
          /\ RowsOf(w) \subseteq Holds(t) \cup SwapRow(s)
      BY <1>1, <1>4, WriteSwapFacts
    <2>2. /\ \A a \in DOMAIN w.balance : w.balance[a] >= 0
          /\ \A y \in DOMAIN w.swap :
                w.swap[y] = "completed" => settled[y] > 0 \/ y \in DOMAIN w.done
          /\ s \in DOMAIN w.swap
      BY <1>4, WritesSwap
    <2>3. work' = [work EXCEPT ![t] = w] /\ s = Current(t)
      BY <1>4
    <2> HIDE DEF w, s
    <2>4. QED  BY <1>2, <1>4, <2>1, <2>2, <2>3, TakesRows
  <1>5. SeenStatus(t, s) \in Status /\ "failed" \in Status
    BY <1>1, SeenFacts DEF Status
  <1>6. QED  BY <1>3, <1>4, <1>5 DEF AttemptSettlement

\* A balance row is locked: its value is not changed.
LEMMA LocksBalance ==
    ASSUME IInv, NEW t \in Threads, NEW a \in Accounts,
           work' = [work EXCEPT ![t].balance = With(@, a, SeenBalance(t, a))]
    PROVE  \E w : /\ IsWork(w) /\ work' = [work EXCEPT ![t] = w]
                  /\ RowsOf(w) \subseteq Holds(t) \cup BalanceRow(a)
                  /\ w.done = work[t].done /\ w.poisoned = work[t].poisoned
                  /\ w.swap = work[t].swap
                  /\ a \in DOMAIN w.balance
                  /\ DOMAIN work[t].balance \subseteq DOMAIN w.balance
                  /\ \A b \in DOMAIN w.balance : w.balance[b] >= 0
                  /\ \A s \in DOMAIN w.swap :
                        w.swap[s] = "completed" => settled[s] > 0 \/ s \in DOMAIN w.done
  <1> DEFINE f == With(work[t].balance, a, SeenBalance(t, a))
             w == WorkRec(work[t].swap, f, work[t].done, work[t].undone, work[t].poisoned)
  <1>1. IsWork(work[t]) /\ ThreadInv(t) /\ WorkType
    BY Unpack
  <1>2. SeenBalance(t, a) \in Int /\ SeenBalance(t, a) >= 0
    BY SeenFacts
  <1>3. /\ DOMAIN f = DOMAIN work[t].balance \cup {a} /\ f[a] = SeenBalance(t, a)
        /\ \A b \in DOMAIN work[t].balance : b # a => f[b] = work[t].balance[b]
    BY DEF With
  <1>4. PartialOn(f, Accounts, Int)
    BY <1>1, <1>2, WithPartial DEF IsWork
  <1>5. work' = [work EXCEPT ![t] = [work[t] EXCEPT !.balance = f]]
    OBVIOUS
  <1> HIDE DEF f
  <1>6. work' = [work EXCEPT ![t] = w]
    BY <1>1, <1>5, WorkRecUpdates
  <1>7. IsWork(w)
    BY <1>1, <1>4, IsWorkRec DEF IsWork
  <1>8. /\ w.swap = work[t].swap /\ w.balance = f /\ w.done = work[t].done
        /\ w.poisoned = work[t].poisoned
    BY WorkRecFields
  <1> HIDE DEF w
  <1>9. RowsOf(w) \subseteq RowsOf(work[t]) \cup {<<"swap", x>> : x \in {}}
                                            \cup {<<"balance", b>> : b \in {a}}
    BY <1>3, <1>8, RowsGrow
  <1>10. RowsOf(w) \subseteq Holds(t) \cup BalanceRow(a)
    BY <1>9 DEF Holds, BalanceRow
  <1>11. \A b \in DOMAIN w.balance : w.balance[b] >= 0
    BY <1>1, <1>2, <1>3, <1>8 DEF ThreadInv, WorkCovered
  <1>12. \A s \in DOMAIN w.swap :
            w.swap[s] = "completed" => settled[s] > 0 \/ s \in DOMAIN w.done
    BY <1>1, <1>8 DEF ThreadInv, CompletedInWork
  <1>13. a \in DOMAIN w.balance /\ DOMAIN work[t].balance \subseteq DOMAIN w.balance
    BY <1>3, <1>8
  <1>14. QED  BY <1>6, <1>7, <1>8, <1>10, <1>11, <1>12, <1>13

LEMMA LockFromStep ==
    ASSUME IInv, NEW t \in Threads, LockFrom(t)
    PROVE  IInv'
  <1> DEFINE a == From[Current(t)]
  <1>1. ControlType /\ ThreadInv(t) /\ a \in Accounts
    BY Unpack, CurrentFacts
  <1>2. /\ pc[t] \in Working \ {"giveUp"} /\ Free(t, BalanceRow(a)) /\ Goto(t, "exchange")
        /\ UNCHANGED <<dbVars, part, attempt, toUndo>> /\ UNCHANGED bullVars
        /\ work' = [work EXCEPT ![t].balance = With(@, a, SeenBalance(t, a))]
    BY DEF LockFrom, Working
  <1>3. Current(t) \in DOMAIN work[t].swap /\ ~work[t].poisoned
    BY <1>1 DEF ThreadInv, LocksInOrder, LockFrom
  <1> HIDE DEF a
  <1>4. PICK w : /\ IsWork(w) /\ work' = [work EXCEPT ![t] = w]
                 /\ RowsOf(w) \subseteq Holds(t) \cup BalanceRow(a)
                 /\ w.done = work[t].done /\ w.poisoned = work[t].poisoned
                 /\ w.swap = work[t].swap
                 /\ a \in DOMAIN w.balance
                 /\ \A b \in DOMAIN w.balance : w.balance[b] >= 0
                 /\ \A s \in DOMAIN w.swap :
                       w.swap[s] = "completed" => settled[s] > 0 \/ s \in DOMAIN w.done
    BY <1>1, <1>2, LocksBalance
  <1>5. Current(t) \in DOMAIN w.swap /\ ~w.poisoned /\ From[Current(t)] \in DOMAIN w.balance
    BY <1>3, <1>4 DEF a
  <1>6. QED  BY <1>2, <1>4, <1>5, TakesRows

\* What Exchanged writes.
LEMMA ExchangedFacts ==
    ASSUME IInv, NEW t \in Threads, NEW s \in Rows, NEW out \in AmountsOut, Covers(t, s),
           NEW w, w = Exchanged(t, s, out)
    PROVE  /\ IsWork(w)
           /\ RowsOf(w) \subseteq Holds(t) \cup SwapRow(s)
                                  \cup BalanceRow(From[s]) \cup BalanceRow(To[s])
           /\ DOMAIN w.done = DOMAIN work[t].done \cup {s} /\ w.poisoned = work[t].poisoned
           /\ \A b \in DOMAIN w.balance : w.balance[b] >= 0
           /\ \A x \in DOMAIN w.swap :
                 w.swap[x] = "completed" => settled[x] > 0 \/ x \in DOMAIN w.done
  <1> DEFINE from == From[s]
             to == To[s]
             debit == SeenBalance(t, from) - AmountIn[s]
             credit == SeenBalance(t, to) + out
             f == With(work[t].swap, s, "completed")
             g == With(work[t].balance, from, debit)
             h == With(g, to, credit)
             d == With(work[t].done, s, out)
  <1>1. IsWork(work[t]) /\ ThreadInv(t) /\ s \in Swaps /\ out \in Nat
    BY Unpack, SwapFacts
  <1>2. /\ from \in Accounts /\ to \in Accounts /\ from # to /\ AmountIn[s] \in Nat
    BY <1>1, SwapFacts
  <1>3. debit \in Int /\ debit >= 0 /\ credit \in Int /\ credit >= 0
    BY <1>1, <1>2, SeenFacts DEF Covers
  <1>4. w = [swap |-> f, balance |-> h, done |-> d,
             undone |-> work[t].undone, poisoned |-> work[t].poisoned]
    BY <1>1 DEF Exchanged, IsWork
  <1> HIDE DEF debit, credit
  <1>5. /\ DOMAIN f = DOMAIN work[t].swap \cup {s}
        /\ \A x \in DOMAIN work[t].swap : x # s => f[x] = work[t].swap[x]
    BY DEF With
  <1>6. /\ DOMAIN h = DOMAIN work[t].balance \cup {from, to}
        /\ h[from] = debit /\ h[to] = credit
        /\ \A x \in DOMAIN work[t].balance : x # from /\ x # to => h[x] = work[t].balance[x]
    BY <1>2 DEF With
  <1>7. DOMAIN d = DOMAIN work[t].done \cup {s}
    BY DEF With
  <1>8. PartialOn(f, Rows, Status)
    BY <1>1, WithPartial DEF IsWork, Status
  <1>9. PartialOn(d, Rows, AmountsOut)
    BY <1>1, WithPartial DEF IsWork
  <1>10. PartialOn(h, Accounts, Int)
    <2>1. PartialOn(g, Accounts, Int)
      BY <1>1, <1>2, <1>3, WithPartial DEF IsWork
    <2> HIDE DEF g
    <2>2. QED  BY <1>2, <1>3, <2>1, WithPartial
  <1> HIDE DEF f, g, h, d
  <1>11. w = WorkRec(f, h, d, work[t].undone, work[t].poisoned)
    BY <1>4 DEF WorkRec
  <1>12. IsWork(w)
    BY <1>1, <1>8, <1>9, <1>10, <1>11, IsWorkRec DEF IsWork
  <1>13. w.swap = f /\ w.balance = h /\ w.done = d /\ w.poisoned = work[t].poisoned
    BY <1>4
  <1>14. RowsOf(w) \subseteq RowsOf(work[t]) \cup {<<"swap", x>> : x \in {s}}
                                             \cup {<<"balance", b>> : b \in {from, to}}
    BY <1>5, <1>6, <1>13, RowsGrow
  <1>15. RowsOf(w) \subseteq Holds(t) \cup SwapRow(s) \cup BalanceRow(from) \cup BalanceRow(to)
    BY <1>14 DEF Holds, SwapRow, BalanceRow
  <1>16. \A b \in DOMAIN w.balance : w.balance[b] >= 0
    BY <1>1, <1>3, <1>6, <1>13 DEF ThreadInv, WorkCovered
  <1>17. \A x \in DOMAIN w.swap :
            w.swap[x] = "completed" => settled[x] > 0 \/ x \in DOMAIN w.done
    BY <1>1, <1>5, <1>7, <1>13 DEF ThreadInv, CompletedInWork
  <1>18. QED  BY <1>7, <1>12, <1>13, <1>15, <1>16, <1>17

LEMMA ExchangeStep ==
    ASSUME IInv, NEW t \in Threads, Exchange(t)
    PROVE  IInv'
  <1> DEFINE s == Current(t)
             a == To[s]
  <1>1. /\ DbType /\ DbInv /\ WorkType /\ BullType /\ ControlType /\ ThreadInv(t) /\ TypeOK
        /\ RowsExclusive /\ IsWork(work[t]) /\ a \in Accounts /\ s \in PartsOf(t)
    BY Unpack, CurrentFacts
  <1>2. /\ pc[t] \in Working \ {"giveUp"} /\ pc[t] = "exchange" /\ Free(t, BalanceRow(a))
        /\ UNCHANGED <<dbVars, toUndo>> /\ UNCHANGED bullVars
    BY DEF Exchange, Working
  <1>3. /\ s \in DOMAIN work[t].swap /\ ~work[t].poisoned
        /\ From[s] \in DOMAIN work[t].balance
    BY <1>1, <1>2 DEF ThreadInv, LocksInOrder
  <1>4. s \in Rows
    BY <1>1, <1>3 DEF IsWork, PartialOn
  <1>5. CASE /\ work' = [work EXCEPT ![t].balance = With(@, a, SeenBalance(t, a))]
             /\ Goto(t, "threw") /\ UNCHANGED <<part, attempt>>
    <2> HIDE DEF a
    <2>1. PICK w : /\ IsWork(w) /\ work' = [work EXCEPT ![t] = w]
                   /\ RowsOf(w) \subseteq Holds(t) \cup BalanceRow(a)
                   /\ w.done = work[t].done /\ w.poisoned = work[t].poisoned
                   /\ \A b \in DOMAIN w.balance : w.balance[b] >= 0
                   /\ \A x \in DOMAIN w.swap :
                         w.swap[x] = "completed" => settled[x] > 0 \/ x \in DOMAIN w.done
      BY <1>1, <1>5, LocksBalance
    <2>2. QED  BY <1>2, <1>5, <2>1, TakesRows
  <1>6. ASSUME Covers(t, s), NEW out \in AmountsOut,
               work' = [work EXCEPT ![t] = Exchanged(t, s, out)],
               Goto(t, IF LastPart(t) THEN "commit" ELSE "mark"),
               part' = [part EXCEPT ![t] = IF LastPart(t) THEN @ ELSE @ + 1],
               attempt' = [attempt EXCEPT ![t] = 0]
        PROVE  IInv'
    <2> DEFINE w == Exchanged(t, s, out)
    <2>1. /\ IsWork(w)
          /\ RowsOf(w) \subseteq Holds(t) \cup SwapRow(s)
                                 \cup BalanceRow(From[s]) \cup BalanceRow(To[s])
          /\ DOMAIN w.done = DOMAIN work[t].done \cup {s} /\ w.poisoned = work[t].poisoned
          /\ \A b \in DOMAIN w.balance : w.balance[b] >= 0
          /\ \A x \in DOMAIN w.swap :
                w.swap[x] = "completed" => settled[x] > 0 \/ x \in DOMAIN w.done
      BY <1>4, <1>6, ExchangedFacts
    <2>2. work' = [work EXCEPT ![t] = w]
      BY <1>6
    <2> HIDE DEF w
    <2>3. RowsOf(w) \subseteq Holds(t) \cup BalanceRow(a)
      <3>1. SwapRow(s) \subseteq Holds(t) /\ BalanceRow(From[s]) \subseteq Holds(t)
        BY <1>3, RowsOfFacts DEF Holds, SwapRow, BalanceRow
      <3>2. QED  BY <2>1, <3>1
    <2>4. work'[t] = w /\ (\A u \in Threads \ {t} : work'[u] = work[u]) /\ WorkType'
      BY <1>1, <2>1, <2>2, WorkStep
    <2>5. RowsExclusive'
      BY <1>1, <1>2, <2>3, <2>4, FreeKeepsExclusive
    <2>6. DbType' /\ DbInv' /\ SettledGrows
      BY <1>1, <1>2, UnchangedDb
    <2>7. BullType' /\ \A u \in Threads : attemptsMade'[u] = attemptsMade[u]
      BY <1>1, <1>2, SameBull
    <2>8. /\ pc' \in [Threads -> Pcs] /\ pc'[t] = IF LastPart(t) THEN "commit" ELSE "mark"
          /\ \A u \in Threads \ {t} : pc'[u] = pc[u]
      BY <1>1, <1>6, GotoStep DEF Pcs
    <2>9. /\ part[t] \in 1..Len(Parts[t]) /\ part[t] \in Nat /\ Len(Parts[t]) \in Nat
          /\ part'[t] = IF LastPart(t) THEN part[t] ELSE part[t] + 1
          /\ attempt'[t] = 0
      BY <1>1, <1>6, ThreadFacts DEF ControlType
    <2>10. /\ part' \in [Threads -> Nat] /\ attempt' \in [Threads -> 0..MaxRetries + 1]
           /\ \A u \in Threads : part'[u] \in 1..Len(Parts[u])
      BY <1>1, <1>6, <2>9, ThreadFacts DEF ControlType, LastPart
    <2>11. ControlType'
      BY <1>1, <1>2, <2>8, <2>10 DEF ControlType
    <2>12. Frame(t)
      BY <1>1, <1>6, <2>4, <2>7, <2>8 DEF Frame, ControlType
    <2>13. DOMAIN w.done = Earlier(t) \cup {Parts[t][part[t]]}
      BY <1>1, <1>2, <1>3, <2>1 DEF ThreadInv, ExchangedInOrder, Working, Current
    <2>14. DOMAIN w.done = {Parts[t][i] : i \in 1..part[t]}
      BY <2>9, <2>13 DEF Earlier
    <2>15. EarlierHaveRows(t)'
      <3>1. DOMAIN w.done \subseteq Rows
        BY <2>1 DEF IsWork, PartialOn
      <3>2. QED  BY <2>9, <2>14, <3>1 DEF EarlierHaveRows, Earlier
    <2>16. ExchangedInOrder(t)'
      BY <2>4, <2>8, <2>9, <2>14 DEF ExchangedInOrder, LastPart, Earlier, PartsOf, Working
    <2>17. QuietHasNoWork(t)'
      BY <2>8, <2>9, ThreadFacts DEF QuietHasNoWork, Quiet, LastPart
    <2>18. LocksInOrder(t)' /\ RetriesBounded(t)'
      BY <1>1, <1>2, <2>7, <2>8, <2>9, ThreadFacts
         DEF LocksInOrder, RetriesBounded, ThreadInv
    <2>19. CompletedInWork(t)' /\ WorkCovered(t)'
      BY <1>2, <2>1, <2>4 DEF CompletedInWork, WorkCovered, dbVars
    <2>20. ThreadInv(t)'
      BY <2>15, <2>16, <2>17, <2>18, <2>19 DEF ThreadInv
    <2>21. QED
      BY <2>4, <2>5, <2>6, <2>7, <2>11, <2>12, <2>20, ThreadStepKeepsIInv
  <1>7. QED  BY <1>5, <1>6 DEF Exchange

\* A commit publishes the work of the transaction.
LEMMA CommittedEffect ==
    ASSUME IInv, NEW t \in Threads, Committed(t),
           DOMAIN work[t].done = {} \/ DOMAIN work[t].done = PartsOf(t)
    PROVE  /\ DbType' /\ DbInv' /\ SettledGrows /\ WorkType' /\ RowsExclusive'
           /\ work'[t] = NoWork /\ \A u \in Threads \ {t} : work'[u] = work[u]
  <1> DEFINE w == work[t]
  <1>1. /\ DbType /\ DbInv /\ WorkType /\ ThreadInv(t) /\ TypeOK /\ RowsExclusive
        /\ IsWork(w)
    BY Unpack
  <1>2. /\ \A s \in DOMAIN w.swap : w.swap[s] \in Status
        /\ \A a \in DOMAIN w.balance : w.balance[a] \in Int /\ w.balance[a] >= 0
        /\ \A s \in DOMAIN w.done : w.done[s] \in Nat
    BY <1>1, SwapFacts DEF IsWork, PartialOn, ThreadInv, WorkCovered
  <1>3. /\ \A s \in Swaps : status'[s] = IF s \in DOMAIN w.swap THEN w.swap[s] ELSE status[s]
        /\ \A a \in Accounts :
              balance'[a] = IF a \in DOMAIN w.balance THEN w.balance[a] ELSE balance[a]
        /\ \A s \in Swaps :
              settled'[s] = IF s \in DOMAIN w.done THEN settled[s] + 1 ELSE settled[s]
    BY <1>1 DEF Committed, Over, DbType
  <1>4. status' \in [Swaps -> Status] /\ balance' \in [Accounts -> Int]
    <2>1. status' \in [Swaps -> Status]
      BY <1>1, <1>2 DEF Committed, Over, DbType
    <2>2. balance' \in [Accounts -> Int]
      BY <1>1, <1>2 DEF Committed, Over, DbType
    <2>3. QED  BY <2>1, <2>2
  <1>5. settled' \in [Swaps -> Nat] /\ paid' \in [Swaps -> Nat] /\ refunded' \in [Swaps -> Nat]
    BY <1>1, <1>2 DEF Committed, DbType
  <1>6. DbType'
    BY <1>4, <1>5 DEF DbType
  <1>7. SettledGrows
    BY <1>1, <1>3, <1>5 DEF SettledGrows, DbType
  <1>8. WorkType' /\ work'[t] = NoWork /\ \A u \in Threads \ {t} : work'[u] = work[u]
    BY <1>1, NoWorkFacts, WorkStep DEF Committed
  <1>9. RowsExclusive'
    BY <1>1, <1>8, EmptyWork, NothingTaken
  <1>10. BalancesCovered'
    BY <1>1, <1>2, <1>3 DEF DbInv, BalancesCovered
  <1>11. CompletedIsSettled'
    <2> SUFFICES ASSUME NEW s \in Swaps, status'[s] = "completed" PROVE settled'[s] > 0
      BY DEF CompletedIsSettled
    <2>1. settled[s] \in Nat
      BY <1>1 DEF DbType
    <2>2. settled[s] > 0 \/ s \in DOMAIN w.done
      BY <1>1, <1>3 DEF ThreadInv, CompletedInWork, DbInv, CompletedIsSettled
    <2>3. QED  BY <1>3, <2>1, <2>2
  <1>12. AllOrNothing'
    <2> SUFFICES ASSUME NEW u \in Threads, Kind[u] = "atomic",
                        NEW i \in 1..Len(Parts[u]), NEW j \in 1..Len(Parts[u])
                 PROVE  settled'[Parts[u][i]] = settled'[Parts[u][j]]
      BY DEF AllOrNothing
    <2>1. settled[Parts[u][i]] = settled[Parts[u][j]]
      BY <1>1 DEF DbInv, AllOrNothing
    <2>2. Parts[u][i] \in Swaps /\ Parts[u][j] \in Swaps
      BY ThreadFacts
    <2>3. Parts[u][i] \in PartsOf(t) <=> u = t
      BY PartsDistinct DEF PartsOf
    <2>4. Parts[u][j] \in PartsOf(t) <=> u = t
      BY PartsDistinct DEF PartsOf
    <2>5. QED  BY <1>3, <2>1, <2>2, <2>3, <2>4
  <1>13. QED  BY <1>6, <1>7, <1>8, <1>9, <1>10, <1>11, <1>12 DEF DbInv

LEMMA CommitStep ==
    ASSUME IInv, NEW t \in Threads, Commit(t)
    PROVE  IInv'
  <1>1. BullType /\ ControlType /\ ThreadInv(t)
    BY Unpack
  <1>2. /\ DbType' /\ DbInv' /\ SettledGrows /\ WorkType' /\ RowsExclusive'
        /\ work'[t] = NoWork /\ \A u \in Threads \ {t} : work'[u] = work[u]
    BY <1>1, CommittedEffect DEF Commit, ThreadInv, ExchangedInOrder
  <1>3. BullType' /\ \A u \in Threads : attemptsMade'[u] = attemptsMade[u]
    BY <1>1, SameBull DEF Commit
  <1>4. /\ pc' \in [Threads -> Pcs] /\ pc'[t] = "committed"
        /\ \A u \in Threads \ {t} : pc'[u] = pc[u]
    BY <1>1, GotoStep DEF Commit, Pcs
  <1>5. ControlType'
    BY <1>1, <1>4 DEF Commit, ControlType
  <1>6. Frame(t)
    BY <1>2, <1>3, <1>4 DEF Commit, Frame
  <1>7. EarlierHaveRows(t)' /\ attemptsMade'[t] < MaxAttempts
    BY <1>1, <1>3 DEF Commit, ThreadInv, EarlierHaveRows, Earlier, RetriesBounded
  <1>8. ThreadInv(t)'
    BY <1>2, <1>4, <1>7, IdleInv DEF Quiet
  <1>9. QED  BY <1>2, <1>3, <1>5, <1>6, <1>8, ThreadStepKeepsIInv

LEMMA CommitRollbackStep ==
    ASSUME IInv, NEW t \in Threads, CommitRollback(t)
    PROVE  IInv'
  <1>1. BullType /\ ControlType /\ ThreadInv(t)
    BY Unpack
  <1>2. /\ DbType' /\ DbInv' /\ SettledGrows /\ WorkType' /\ RowsExclusive'
        /\ work'[t] = NoWork /\ \A u \in Threads \ {t} : work'[u] = work[u]
    BY <1>1, CommittedEffect DEF CommitRollback, ThreadInv, ExchangedInOrder
  <1>3. BullType' /\ \A u \in Threads : attemptsMade'[u] = attemptsMade[u]
    BY <1>1, SameBull DEF CommitRollback
  <1>4. /\ pc' \in [Threads -> Pcs] /\ pc'[t] = "unsettled"
        /\ \A u \in Threads \ {t} : pc'[u] = pc[u]
    BY <1>1, GotoStep DEF CommitRollback, Pcs
  <1>5. ControlType'
    BY <1>1, <1>4 DEF CommitRollback, ControlType
  <1>6. Frame(t)
    BY <1>2, <1>3, <1>4 DEF CommitRollback, Frame
  <1>7. EarlierHaveRows(t)' /\ attemptsMade'[t] < MaxAttempts
    BY <1>1, <1>3 DEF CommitRollback, ThreadInv, EarlierHaveRows, Earlier, RetriesBounded
  <1>8. ThreadInv(t)'
    BY <1>2, <1>4, <1>7, IdleInv DEF Quiet
  <1>9. QED  BY <1>2, <1>3, <1>5, <1>6, <1>8, ThreadStepKeepsIInv

\* The settled swaps of a batch are swaps with rows.
LEMMA EarlierSeq ==
    ASSUME ControlType, NEW t \in Threads, EarlierHaveRows(t)
    PROVE  SubSeq(Parts[t], 1, part[t] - 1) \in Seq(Rows)
  <1>1. part[t] - 1 \in Int
    BY DEF ControlType
  <1>2. \A i \in 1..(part[t] - 1) : Parts[t][i] \in Rows
    BY DEF EarlierHaveRows, Earlier
  <1>3. QED  BY <1>1, <1>2, SubSeqProperties

\* The transaction ends without effect and the thread goes where it is idle.
LEMMA TurnsIdle ==
    ASSUME IInv, NEW t \in Threads, UNCHANGED dbVars, UNCHANGED <<part, attempt>>,
           NEW w \in {NoWork, Broken}, work' = [work EXCEPT ![t] = w] \/ UNCHANGED work,
           work'[t] \in {NoWork, Broken},
           \A u \in Threads \ {t} : pc'[u] = pc[u] /\ attemptsMade'[u] = attemptsMade[u],
           BullType', ControlType',
           pc'[t] \in Quiet \cup {"undo", "abort"}, pc'[t] \in Quiet => work'[t] = NoWork,
           attemptsMade'[t] < MaxAttempts \/ pc'[t] = "dead"
    PROVE  IInv'
  <1>1. DbType /\ DbInv /\ WorkType /\ ThreadInv(t) /\ TypeOK /\ RowsExclusive
    BY Unpack
  <1>2. DbType' /\ DbInv' /\ SettledGrows
    BY <1>1, UnchangedDb
  <1>3. (\A u \in Threads \ {t} : work'[u] = work[u]) /\ WorkType'
    <2>1. IsWork(w)
      BY NoWorkFacts
    <2>2. CASE work' = [work EXCEPT ![t] = w]
      BY <1>1, <2>1, <2>2, WorkStep
    <2>3. CASE UNCHANGED work
      BY <1>1, <2>3, SameWork
    <2>4. QED  BY <2>2, <2>3
  <1>4. RowsExclusive'
    BY <1>1, <1>3, EmptyWork, NothingTaken
  <1>5. Frame(t)
    BY <1>3 DEF Frame
  <1>6. EarlierHaveRows(t)'
    BY <1>1 DEF ThreadInv, EarlierHaveRows, Earlier
  <1>7. ThreadInv(t)'
    BY <1>6, IdleInv
  <1>8. QED  BY <1>2, <1>3, <1>4, <1>5, <1>7, ThreadStepKeepsIInv

\* A job whose transaction is rolled back fails.
LEMMA FailsIdle ==
    ASSUME IInv, NEW t \in Threads, UNCHANGED dbVars, UNCHANGED <<part, attempt, toUndo>>,
           work' = [work EXCEPT ![t] = NoWork] \/ (UNCHANGED work /\ work[t] = NoWork),
           pc[t] # "dead", FailJob(t)
    PROVE  IInv'
  <1>1. WorkType /\ BullType /\ ControlType /\ ThreadInv(t)
    BY Unpack
  <1>2. /\ pc' \in [Threads -> Pcs] /\ pc'[t] \in {"waiting", "dead"}
        /\ \A u \in Threads \ {t} : pc'[u] = pc[u] /\ attemptsMade'[u] = attemptsMade[u]
        /\ BullType' /\ RetriesBounded(t)'
    BY <1>1, FailJobStep DEF ThreadInv
  <1>3. ControlType'
    BY <1>1, <1>2 DEF ControlType
  <1>4. work'[t] = NoWork
    BY <1>1, NoWorkFacts, WorkStep
  <1>5. attemptsMade'[t] < MaxAttempts \/ pc'[t] = "dead"
    BY <1>2 DEF RetriesBounded
  <1>6. pc'[t] \in Quiet \cup {"undo", "abort"}
    BY <1>2 DEF Quiet
  <1>7. QED  BY <1>2, <1>3, <1>4, <1>5, <1>6, TurnsIdle

\* The transaction is rolled back, or broken, and the handler goes on.
LEMMA GoesIdle ==
    ASSUME IInv, NEW t \in Threads, UNCHANGED dbVars, UNCHANGED <<part, attempt>>,
           UNCHANGED bullVars, pc[t] # "dead",
           NEW x \in {"rejected", "undo", "abort"}, Goto(t, x),
           NEW w \in {NoWork, Broken}, x = "rejected" => w = NoWork,
           work' = [work EXCEPT ![t] = w] \/ (UNCHANGED work /\ work[t] = w),
           toUndo' \in [Threads -> Seq(Rows)]
    PROVE  IInv'
  <1>1. WorkType /\ BullType /\ ControlType /\ ThreadInv(t)
    BY Unpack
  <1>2. /\ pc' \in [Threads -> Pcs] /\ pc'[t] = x
        /\ \A u \in Threads \ {t} : pc'[u] = pc[u]
    BY <1>1, GotoStep DEF Pcs
  <1>3. BullType' /\ \A u \in Threads : attemptsMade'[u] = attemptsMade[u]
    BY <1>1, SameBull
  <1>4. ControlType'
    BY <1>1, <1>2 DEF ControlType
  <1>5. work'[t] = w
    BY <1>1, NoWorkFacts, WorkStep
  <1>6. attemptsMade'[t] < MaxAttempts
    BY <1>1, <1>3 DEF ThreadInv, RetriesBounded
  <1>7. pc'[t] \in Quiet \cup {"undo", "abort"} /\ (pc'[t] \in Quiet => work'[t] = NoWork)
    BY <1>2, <1>5 DEF Quiet
  <1>8. QED  BY <1>2, <1>3, <1>4, <1>5, <1>6, <1>7, TurnsIdle

LEMMA AbortStep ==
    ASSUME IInv, NEW t \in Threads, Abort(t)
    PROVE  IInv'
  <1>1. ControlType /\ ThreadInv(t)
    BY Unpack
  <1>2. /\ work' = [work EXCEPT ![t] = NoWork] /\ UNCHANGED dbVars
        /\ UNCHANGED <<part, attempt>> /\ pc[t] # "dead"
    BY DEF Abort
  <1>3. CASE FailJob(t) /\ UNCHANGED toUndo
    BY <1>2, <1>3, FailsIdle
  <1>4. CASE Goto(t, "rejected") /\ UNCHANGED toUndo /\ UNCHANGED bullVars
    <2>1. toUndo' \in [Threads -> Seq(Rows)]
      BY <1>1, <1>4 DEF ControlType
    <2>2. QED  BY <1>2, <1>4, <2>1, GoesIdle
  <1>5. CASE /\ Goto(t, "undo") /\ UNCHANGED bullVars
             /\ toUndo' = [toUndo EXCEPT ![t] = SubSeq(Parts[t], 1, part[t] - 1)]
    <2>1. SubSeq(Parts[t], 1, part[t] - 1) \in Seq(Rows)
      BY <1>1, EarlierSeq DEF ThreadInv
    <2>2. toUndo' \in [Threads -> Seq(Rows)]
      BY <1>1, <1>5, <2>1 DEF ControlType
    <2>3. QED  BY <1>2, <1>5, <2>2, GoesIdle
  <1>6. QED  BY <1>3, <1>4, <1>5 DEF Abort

LEMMA LockWaitFailsStep ==
    ASSUME IInv, NEW t \in Threads, LockWaitFails(t)
    PROVE  IInv'
  <1>1. ControlType /\ ThreadInv(t)
    BY Unpack
  <1>2. /\ UNCHANGED dbVars /\ UNCHANGED <<part, attempt, toUndo>>
        /\ toUndo' \in [Threads -> Seq(Rows)]
    BY <1>1 DEF LockWaitFails, ControlType
  <1>3. CASE pc[t] = "mark" /\ Kind[t] = "single" /\ FailJob(t) /\ UNCHANGED work
    BY <1>1, <1>2, <1>3, FailsIdle DEF ThreadInv, QuietHasNoWork
  <1>4. CASE /\ pc[t] = "mark" /\ Kind[t] = "effort" /\ Goto(t, "rejected")
             /\ UNCHANGED <<work, bullVars>>
    BY <1>1, <1>2, <1>4, GoesIdle DEF ThreadInv, QuietHasNoWork
  <1>5. CASE /\ pc[t] = "mark" /\ Goto(t, "abort") /\ work' = [work EXCEPT ![t] = Broken]
             /\ UNCHANGED bullVars
    BY <1>2, <1>5, GoesIdle
  <1>6. CASE /\ pc[t] \in {"attempt", "lockFrom", "exchange"} /\ Goto(t, "threw")
             /\ work' = [work EXCEPT ![t] = Broken] /\ UNCHANGED bullVars
    <2>1. pc[t] \in Working \ {"giveUp"}
      BY <1>6 DEF Working
    <2>2. RowsOf(Broken) \subseteq Holds(t) \cup {} /\ Free(t, {})
      BY EmptyWork DEF Free
    <2>3. /\ WorkType /\ BullType /\ RowsExclusive /\ DbType /\ DbInv /\ TypeOK
      BY Unpack
    <2>4. DbType' /\ DbInv' /\ SettledGrows
      BY <1>2, <2>3, UnchangedDb
    <2>5. work'[t] = Broken /\ (\A u \in Threads \ {t} : work'[u] = work[u]) /\ WorkType'
      BY <1>6, <2>3, NoWorkFacts, WorkStep
    <2>6. RowsExclusive'
      BY <2>2, <2>3, <2>5, FreeKeepsExclusive
    <2>7. BullType' /\ \A u \in Threads : attemptsMade'[u] = attemptsMade[u]
      BY <1>6, <2>3, SameBull
    <2>8. /\ pc' \in [Threads -> Pcs] /\ pc'[t] = "threw"
          /\ \A u \in Threads \ {t} : pc'[u] = pc[u]
      BY <1>1, <1>6, GotoStep DEF Pcs
    <2>9. ControlType'
      BY <1>1, <1>2, <2>8 DEF ControlType
    <2>10. Frame(t)
      BY <1>2, <2>5, <2>7, <2>8 DEF Frame
    <2>11. EarlierHaveRows(t)' /\ RetriesBounded(t)'
      BY <1>1, <1>2, <2>1, <2>7, <2>8
         DEF ThreadInv, EarlierHaveRows, Earlier, RetriesBounded, Working
    <2>12. QuietHasNoWork(t)' /\ LocksInOrder(t)' /\ ExchangedInOrder(t)'
      BY <2>5, <2>8, EmptyWork DEF QuietHasNoWork, LocksInOrder, ExchangedInOrder, Quiet
    <2>13. CompletedInWork(t)' /\ WorkCovered(t)'
      BY <2>5, EmptyWork DEF CompletedInWork, WorkCovered
    <2>14. ThreadInv(t)'
      BY <2>11, <2>12, <2>13 DEF ThreadInv
    <2>15. QED
      BY <2>4, <2>5, <2>6, <2>7, <2>9, <2>10, <2>14, ThreadStepKeepsIInv
  <1>7. CASE pc[t] \in {"retry", "giveUp"} /\ Goto(t, "abort") /\ UNCHANGED <<work, bullVars>>
    <2>1. DbType' /\ DbInv' /\ SettledGrows
      BY <1>2, Unpack, UnchangedDb
    <2>2. pc[t] \in Working
      BY <1>7 DEF Working
    <2>3. QED  BY <1>2, <1>7, <2>1, <2>2, StaysWorking
  <1>8. CASE /\ pc[t] \in {"undo", "unsettled"} /\ work' = [work EXCEPT ![t] = NoWork]
             /\ FailJob(t)
    BY <1>2, <1>8, FailsIdle
  <1>9. QED  BY <1>3, <1>4, <1>5, <1>6, <1>7, <1>8 DEF LockWaitFails

LEMMA RolledBackFacts ==
    ASSUME NEW t \in Threads, NEW s
    PROVE  RolledBack(t, s) =
              WorkRec(With(work[t].swap, s, "rolled_back"),
                      With(work[t].balance, From[s], SeenBalance(t, From[s]) + AmountIn[s]),
                      work[t].done, work[t].undone \cup {s}, work[t].poisoned)
  BY DEF RolledBack, WorkRec

LEMMA RollbackStep ==
    ASSUME IInv, NEW t \in Threads, Rollback(t)
    PROVE  IInv'
  <1> DEFINE s == Head(toUndo[t])
             a == From[s]
             rows == SwapRow(s) \cup BalanceRow(a)
             credit == SeenBalance(t, a) + AmountIn[s]
             f == With(work[t].swap, s, "rolled_back")
             h == With(work[t].balance, a, credit)
             w == WorkRec(f, h, work[t].done, work[t].undone \cup {s}, work[t].poisoned)
  <1>1. /\ DbType /\ DbInv /\ WorkType /\ BullType /\ ControlType /\ ThreadInv(t) /\ TypeOK
        /\ RowsExclusive /\ IsWork(work[t])
    BY Unpack
  <1>2. /\ pc[t] = "undo" /\ toUndo[t] # <<>> /\ Free(t, rows)
        /\ toUndo' = [toUndo EXCEPT ![t] = Tail(@)]
        /\ UNCHANGED <<dbVars, pc, part, attempt>> /\ UNCHANGED bullVars
    BY DEF Rollback
  <1>3. toUndo[t] \in Seq(Rows) /\ s \in Rows /\ s \in Swaps /\ Tail(toUndo[t]) \in Seq(Rows)
    <2>1. toUndo[t] \in Seq(Rows)
      BY <1>1 DEF ControlType
    <2>2. QED  BY <1>2, <2>1, HeadTailProperties, SwapFacts
  <1>4. a \in Accounts /\ AmountIn[s] \in Nat
    BY <1>3, SwapFacts
  <1>5. credit \in Int /\ credit >= 0
    BY <1>4, SeenFacts
  <1>6. work' = [work EXCEPT ![t] = w]
    <2>1. RolledBack(t, s) = w
      BY <1>1, RolledBackFacts
    <2>2. work' = [work EXCEPT ![t] = RolledBack(t, s)]
      BY DEF Rollback
    <2>3. QED  BY <2>1, <2>2
  <1> HIDE DEF credit
  <1>7. /\ DOMAIN f = DOMAIN work[t].swap \cup {s} /\ f[s] = "rolled_back"
        /\ \A x \in DOMAIN work[t].swap : x # s => f[x] = work[t].swap[x]
    BY DEF With
  <1>8. /\ DOMAIN h = DOMAIN work[t].balance \cup {a} /\ h[a] = credit
        /\ \A x \in DOMAIN work[t].balance : x # a => h[x] = work[t].balance[x]
    BY DEF With
  <1>9. PartialOn(f, Rows, Status)
    BY <1>1, <1>3, WithPartial DEF IsWork, Status
  <1>10. PartialOn(h, Accounts, Int)
    BY <1>1, <1>4, <1>5, WithPartial DEF IsWork
  <1> HIDE DEF f, h, s
  <1>11. IsWork(w)
    BY <1>1, <1>3, <1>9, <1>10, IsWorkRec DEF IsWork
  <1>12. /\ w.swap = f /\ w.balance = h /\ w.done = work[t].done
         /\ w.poisoned = work[t].poisoned
    BY WorkRecFields
  <1> HIDE DEF w
  <1>13. RowsOf(w) \subseteq RowsOf(work[t]) \cup {<<"swap", x>> : x \in {s}}
                                             \cup {<<"balance", b>> : b \in {a}}
    BY <1>7, <1>8, <1>12, RowsGrow
  <1>14. RowsOf(w) \subseteq Holds(t) \cup rows
    BY <1>3, <1>13 DEF Holds, SwapRow, BalanceRow
  <1>15. work'[t] = w /\ (\A u \in Threads \ {t} : work'[u] = work[u]) /\ WorkType'
    BY <1>1, <1>6, <1>11, WorkStep
  <1>16. RowsExclusive'
    BY <1>1, <1>2, <1>14, <1>15, FreeKeepsExclusive
  <1>17. DbType' /\ DbInv' /\ SettledGrows
    BY <1>1, <1>2, UnchangedDb
  <1>18. BullType' /\ \A u \in Threads : attemptsMade'[u] = attemptsMade[u]
    BY <1>1, <1>2, SameBull
  <1>19. ControlType'
    BY <1>1, <1>2, <1>3 DEF ControlType
  <1>20. Frame(t)
    BY <1>2, <1>15, <1>18 DEF Frame
  <1>21. ThreadInv(t)'
    <2>1. QuietHasNoWork(t)' /\ LocksInOrder(t)'
      BY <1>2 DEF QuietHasNoWork, LocksInOrder, Quiet
    <2>2. ExchangedInOrder(t)'
      BY <1>1, <1>2, <1>12, <1>15 DEF ThreadInv, ExchangedInOrder, Working
    <2>3. EarlierHaveRows(t)' /\ RetriesBounded(t)'
      BY <1>1, <1>2, <1>18 DEF ThreadInv, EarlierHaveRows, Earlier, RetriesBounded
    <2>4. CompletedInWork(t)'
      BY <1>1, <1>2, <1>7, <1>12, <1>15 DEF ThreadInv, CompletedInWork, dbVars
    <2>5. WorkCovered(t)'
      BY <1>1, <1>5, <1>8, <1>12, <1>15 DEF ThreadInv, WorkCovered
    <2>6. QED  BY <2>1, <2>2, <2>3, <2>4, <2>5 DEF ThreadInv
  <1>22. QED
    BY <1>15, <1>16, <1>17, <1>18, <1>19, <1>20, <1>21, ThreadStepKeepsIInv

LEMMA FailUnsettledStep ==
    ASSUME IInv, NEW t \in Threads, FailUnsettled(t)
    PROVE  IInv'
  <1>1. /\ DbType /\ DbInv /\ WorkType /\ BullType /\ ControlType /\ ThreadInv(t)
        /\ RowsExclusive
    BY Unpack
  <1>2. DbType' /\ DbInv' /\ SettledGrows
    <2>1. /\ status' \in [Swaps -> Status]
          /\ \A s \in Swaps : status'[s] = "completed" => status[s] = "completed"
      BY <1>1 DEF FailUnsettled, DbType, Status
    <2>2. QED  BY <1>1, <2>1, StatusWritten DEF FailUnsettled
  <1>3. /\ pc' \in [Threads -> Pcs] /\ pc'[t] \in {"waiting", "dead"}
        /\ \A u \in Threads \ {t} : pc'[u] = pc[u] /\ attemptsMade'[u] = attemptsMade[u]
        /\ BullType' /\ RetriesBounded(t)'
    BY <1>1, FailJobStep DEF ThreadInv, FailUnsettled
  <1>4. WorkType' /\ RowsExclusive' /\ \A u \in Threads : work'[u] = work[u]
    BY <1>1, SameWork DEF FailUnsettled
  <1>5. ControlType'
    BY <1>1, <1>3 DEF ControlType, FailUnsettled
  <1>6. Frame(t)
    BY <1>3, <1>4 DEF Frame, FailUnsettled
  <1>7. work'[t] = NoWork
    BY <1>1, <1>4 DEF ThreadInv, QuietHasNoWork, Quiet, FailUnsettled
  <1>8. EarlierHaveRows(t)' /\ (attemptsMade'[t] < MaxAttempts \/ pc'[t] = "dead")
    BY <1>1, <1>3 DEF ThreadInv, EarlierHaveRows, Earlier, FailUnsettled, RetriesBounded
  <1>9. ThreadInv(t)'
    BY <1>3, <1>7, <1>8, IdleInv DEF Quiet
  <1>10. QED  BY <1>2, <1>3, <1>4, <1>5, <1>6, <1>9, ThreadStepKeepsIInv

\* A step that leaves every thread where it was.
LEMMA ThreadsStay ==
    ASSUME IInv, UNCHANGED <<work, pc, part, attempt, toUndo, attemptsMade>>,
           DbType', DbInv', SettledGrows, BullType'
    PROVE  IInv'
  <1>1. TypeOK /\ RowsExclusive /\ \A t \in Threads : ThreadInv(t)
    BY DEF IInv
  <1>2. WorkType' /\ RowsExclusive' /\ ControlType'
    BY <1>1, TypeParts, SameWork DEF ControlType
  <1>3. TypeOK'
    BY <1>2 DEF TypeOK, DbType, WorkType, BullType, ControlType
  <1>4. ASSUME NEW t \in Threads PROVE ThreadInv(t)'
    <2>1. CompletedInWork(t)'
      <3>1. DOMAIN work[t].swap \subseteq Swaps
        BY <1>1, SwapFacts DEF TypeOK, IsWork, PartialOn
      <3>2. \A s \in Swaps : settled[s] > 0 => settled'[s] > 0
        BY <1>1 DEF SettledGrows, TypeOK
      <3>3. QED  BY <1>1, <3>1, <3>2 DEF ThreadInv, CompletedInWork
    <2>2. /\ QuietHasNoWork(t)' /\ LocksInOrder(t)' /\ ExchangedInOrder(t)'
          /\ EarlierHaveRows(t)' /\ RetriesBounded(t)' /\ WorkCovered(t)'
      BY <1>1 DEF ThreadInv, QuietHasNoWork, LocksInOrder, ExchangedInOrder,
                  EarlierHaveRows, RetriesBounded, WorkCovered, Earlier, Current
    <2>3. QED  BY <2>1, <2>2 DEF ThreadInv
  <1>5. QED  BY <1>2, <1>3, <1>4 DEF IInv

LEMMA OnFailedStep ==
    ASSUME IInv, NEW t \in Threads, OnFailed(t)
    PROVE  IInv'
  <1>1. DbType /\ DbInv /\ BullType
    BY Unpack
  <1>2. /\ status' \in [Swaps -> Status]
        /\ \A s \in Swaps : status'[s] = "completed" => status[s] = "completed"
    BY <1>1 DEF OnFailed, DbType, Status
  <1>3. DbType' /\ DbInv' /\ SettledGrows
    BY <1>1, <1>2, StatusWritten DEF OnFailed
  <1>4. BullType'
    BY <1>1 DEF OnFailed, BullType
  <1>5. QED  BY <1>3, <1>4, ThreadsStay DEF OnFailed

LEMMA CompleteJobStep ==
    ASSUME IInv, NEW t \in Threads, CompleteJob(t)
    PROVE  IInv'
  <1> USE DEF CompleteJob
  <1>1. TypeOK /\ RowsExclusive /\ DbInv /\ \A u \in Threads : ThreadInv(u)
    BY DEF IInv
  <1>2. DbType /\ WorkType /\ BullType /\ ControlType
    BY <1>1, TypeParts
  <1>3. DbType' /\ DbInv' /\ SettledGrows
    BY <1>1, <1>2, UnchangedDb
  <1>4. WorkType' /\ RowsExclusive' /\ \A u \in Threads : work'[u] = work[u]
    BY <1>1, <1>2, SameWork
  <1>5. BullType' /\ \A u \in Threads : attemptsMade'[u] = attemptsMade[u]
    BY <1>2, SameBull
  <1>6. ControlType'
    BY <1>2 DEF ControlType, Pcs
  <1>7. TypeOK'
    BY <1>3, <1>4, <1>5, <1>6 DEF TypeOK, DbType, WorkType, BullType, ControlType
  <1>8. ASSUME NEW u \in Threads PROVE ThreadInv(u)'
    <2>1. EarlierHaveRows(u)' /\ Earlier(u)' = Earlier(u)
      BY <1>1 DEF ThreadInv, EarlierHaveRows, Earlier
    <2>2. CASE Job[u] = Job[t]
      <3>1. pc[u] \in {"committed", "rejected"} /\ pc'[u] = "completed"
        BY <2>2
      <3>2. work'[u] = NoWork /\ attemptsMade'[u] < MaxAttempts
        BY <1>1, <1>4, <1>5, <3>1 DEF ThreadInv, QuietHasNoWork, RetriesBounded, Quiet
      <3>3. QED  BY <2>1, <3>1, <3>2, IdleInv DEF Quiet
    <2>3. CASE Job[u] # Job[t]
      <3>1. pc'[u] = pc[u] /\ work'[u] = work[u] /\ attemptsMade'[u] = attemptsMade[u]
        BY <1>4, <1>5, <2>3
      <3>2. CompletedInWork(u)' /\ WorkCovered(u)'
        BY <1>1, <3>1 DEF ThreadInv, CompletedInWork, WorkCovered, dbVars
      <3>3. QuietHasNoWork(u)' /\ LocksInOrder(u)' /\ RetriesBounded(u)'
        BY <1>1, <3>1 DEF ThreadInv, QuietHasNoWork, LocksInOrder, RetriesBounded, Current
      <3>4. ExchangedInOrder(u)'
        BY <1>1, <2>1, <3>1 DEF ThreadInv, ExchangedInOrder
      <3>5. QED  BY <2>1, <3>2, <3>3, <3>4 DEF ThreadInv
    <2>4. QED  BY <2>2, <2>3
  <1>9. QED  BY <1>3, <1>4, <1>7, <1>8 DEF IInv

LEMMA CrashStep ==
    ASSUME IInv, Crash
    PROVE  IInv'
  <1> USE DEF Crash
  <1>1. TypeOK /\ RowsExclusive /\ DbInv /\ \A u \in Threads : ThreadInv(u)
    BY DEF IInv
  <1>2. DbType /\ WorkType /\ BullType /\ ControlType
    BY <1>1, TypeParts
  <1>3. DbType' /\ DbInv' /\ SettledGrows
    BY <1>1, <1>2, UnchangedDb
  <1>4. WorkType' /\ \A u \in Threads : work'[u] = NoWork
    BY NoWorkFacts DEF WorkType
  <1>5. RowsExclusive'
    BY <1>4, EmptyWork DEF RowsExclusive, Holds
  <1>6. BullType'
    BY <1>2, ThreadFacts DEF BullType
  <1>7. ControlType'
    BY <1>2 DEF ControlType, Pcs
  <1>8. TypeOK'
    BY <1>3, <1>4, <1>6, <1>7 DEF TypeOK, DbType, WorkType, BullType, ControlType
  <1>9. ASSUME NEW u \in Threads PROVE ThreadInv(u)'
    <2>1. EarlierHaveRows(u)'
      BY <1>1 DEF ThreadInv, EarlierHaveRows, Earlier
    <2>2. pc'[u] \in {"completed", "dead", "waiting"} /\ (pc'[u] # "dead" => pc[u] # "dead")
      OBVIOUS
    <2>3. attemptsMade'[u] < MaxAttempts \/ pc'[u] = "dead"
      BY <1>1, <2>2 DEF ThreadInv, RetriesBounded
    <2>4. QED  BY <1>4, <2>1, <2>2, <2>3, IdleInv DEF Quiet
  <1>10. QED  BY <1>3, <1>5, <1>8, <1>9 DEF IInv

-----------------------------------------------------------------------------
(* The theorems *)

LEMMA InitIInv == Init => IInv
  <1> SUFFICES ASSUME Init PROVE IInv
    OBVIOUS
  <1> USE DEF Init
  <1>1. DbType
    BY SwapFacts DEF DbType, Status
  <1>2. WorkType
    BY NoWorkFacts DEF WorkType
  <1>3. BullType /\ ControlType
    <2>1. BullType
      BY ThreadFacts DEF BullType
    <2>2. <<>> \in Seq(Rows)
      OBVIOUS
    <2>3. ControlType
      BY <2>2, ThreadFacts DEF ControlType, Pcs
    <2>4. QED  BY <2>1, <2>3
  <1>4. TypeOK
    BY <1>1, <1>2, <1>3, TypeParts
  <1>5. RowsExclusive
    BY EmptyWork DEF RowsExclusive, Holds
  <1>6. DbInv
    <2>1. BalancesCovered
      BY SwapFacts DEF BalancesCovered
    <2>2. CompletedIsSettled
      BY DEF CompletedIsSettled
    <2>3. AllOrNothing
      BY ThreadFacts DEF AllOrNothing
    <2>4. QED  BY <2>1, <2>2, <2>3 DEF DbInv
  <1>7. ASSUME NEW t \in Threads PROVE ThreadInv(t)
    <2>1. pc[t] = "waiting" /\ work[t] = NoWork /\ part[t] = 1 /\ attemptsMade[t] = 0
      OBVIOUS
    <2>2. QuietHasNoWork(t) /\ LocksInOrder(t) /\ ExchangedInOrder(t)
      BY <2>1 DEF QuietHasNoWork, LocksInOrder, ExchangedInOrder, Working
    <2>3. EarlierHaveRows(t)
      BY <2>1 DEF EarlierHaveRows, Earlier
    <2>4. RetriesBounded(t)
      BY <2>1, ThreadFacts DEF RetriesBounded, Working
    <2>5. CompletedInWork(t) /\ WorkCovered(t)
      BY <2>1, EmptyWork DEF CompletedInWork, WorkCovered
    <2>6. QED  BY <2>2, <2>3, <2>4, <2>5 DEF ThreadInv
  <1>8. QED  BY <1>4, <1>5, <1>6, <1>7 DEF IInv

LEMMA StutterIInv == ASSUME IInv, UNCHANGED vars PROVE IInv'
  <1>1. DbType /\ DbInv /\ BullType
    BY TypeParts DEF IInv
  <1>2. DbType' /\ DbInv' /\ SettledGrows
    BY <1>1, UnchangedDb DEF vars, dbVars
  <1>3. BullType'
    BY <1>1 DEF BullType, vars
  <1>4. QED  BY <1>2, <1>3, ThreadsStay DEF vars

LEMMA NextIInv == IInv /\ [Next]_vars => IInv'
  <1> SUFFICES ASSUME IInv, [Next]_vars PROVE IInv'
    OBVIOUS
  <1>1. ASSUME NEW t \in Threads, Step(t) PROVE IInv'
    BY <1>1, StartJobStep, MarkProcessingStep, AttemptSettlementStep, LockFromStep,
       ExchangeStep, HandleThrowStep, UpdateRetryingStep, GiveUpStep, CommitStep,
       AbortStep, RollbackStep, CommitRollbackStep, FailUnsettledStep,
       CompleteJobStep, LockWaitFailsStep DEF Step
  <1>2. QED  BY <1>1, OnFailedStep, CrashStep, StutterIInv DEF Next

\* The inductive invariant holds of every behaviour of the queue's jobs.
THEOREM Invariance == Spec => []IInv
  BY InitIInv, NextIInv, PTL DEF Spec

\* Every variable keeps its type, through every interleaving of handlers,
\* listeners, failed lock waits and crashes.
THEOREM TypeCorrect == Spec => []TypeOK
  <1>1. IInv => TypeOK
    BY DEF IInv
  <1>2. QED  BY <1>1, Invariance, PTL

\* No balance is overdrawn, whatever is settled, retried and rolled back:
\* updateBalances compares amountIn with the balance it has locked.
THEOREM NeverOverdrawn == Spec => []NoOverdraft
  <1>1. IInv => NoOverdraft
    BY DEF IInv, DbInv, BalancesCovered, ThreadInv, WorkCovered, NoOverdraft
  <1>2. QED  BY <1>1, Invariance, PTL

\* The swaps of an atomic batch are settled together, as often as each other:
\* processAtomicBatch settles all of them in one transaction.
THEOREM BatchesWhole == Spec => []AllOrNothing
  <1>1. IInv => AllOrNothing
    BY DEF IInv, DbInv
  <1>2. QED  BY <1>1, Invariance, PTL

\* A swap read as COMPLETED has been exchanged: attemptSettlement writes the
\* status and the balances in one transaction.
THEOREM CompletedMeansSettled == Spec => []CompletedIsSettled
  <1>1. IInv => CompletedIsSettled
    BY DEF IInv, DbInv
  <1>2. QED  BY <1>1, Invariance, PTL

-----------------------------------------------------------------------------
(* Exactly-once settlement, in runs without a crash *)

Final == {"committed", "completed"}

\* A swap that has been settled belongs to a thread that is past its commit.
SettledThenFinal ==
    /\ \A t \in Threads : \A s \in PartsOf(t) :
          settled[s] = 0 \/ (settled[s] = 1 /\ pc[t] \in Final)
    /\ \A s \in Swaps : (\A t \in Threads : s \notin PartsOf(t)) => settled[s] = 0

\* A step that settles nothing and takes no thread back from its commit.
LEMMA NothingSettled ==
    ASSUME SettledThenFinal, settled' = settled,
           \A t \in Threads : pc[t] \in Final => pc'[t] \in Final
    PROVE  SettledThenFinal'
  BY DEF SettledThenFinal

\* A step of t before its commit moves only t.
LEMMA BeforeCommit ==
    ASSUME SettledThenFinal, settled' = settled, ControlType, NEW t \in Threads,
           pc[t] \notin Final, UNCHANGED pc \/ \E x : Goto(t, x)
    PROVE  SettledThenFinal'
  <1>1. \A u \in Threads : pc[u] \in Final => pc'[u] = pc[u]
    BY DEF ControlType, Goto
  <1>2. QED  BY <1>1, NothingSettled

LEMMA CommitSettlesOnce ==
    ASSUME IInv, SettledThenFinal, NEW t \in Threads, Commit(t)
    PROVE  SettledThenFinal'
  <1>1. DbType /\ ControlType /\ DOMAIN work[t].done = PartsOf(t)
    BY Unpack DEF Commit, ThreadInv, ExchangedInOrder
  <1>2. \A s \in Swaps : settled'[s] = IF s \in PartsOf(t) THEN settled[s] + 1 ELSE settled[s]
    BY <1>1 DEF Commit, Committed
  <1>3. pc'[t] = "committed" /\ pc[t] = "commit" /\ \A u \in Threads \ {t} : pc'[u] = pc[u]
    BY <1>1, GotoStep DEF Commit, Pcs
  <1>4. \A u \in Threads : PartsOf(u) \subseteq Swaps
    BY ThreadFacts DEF PartsOf
  <1>5. \A u \in Threads \ {t} : PartsOf(u) \cap PartsOf(t) = {}
    BY PartsDistinct DEF PartsOf
  <1>6. \A s \in PartsOf(t) : settled[s] = 0
    BY <1>3 DEF SettledThenFinal, Final
  <1>7. ASSUME NEW u \in Threads, NEW s \in PartsOf(u)
        PROVE  settled'[s] = 0 \/ (settled'[s] = 1 /\ pc'[u] \in Final)
    <2>1. CASE u = t
      BY <1>2, <1>3, <1>4, <1>6, <1>7, <2>1 DEF Final
    <2>2. CASE u # t
      BY <1>2, <1>3, <1>4, <1>5, <1>7, <2>2 DEF SettledThenFinal
    <2>3. QED  BY <2>1, <2>2
  <1>8. \A s \in Swaps : (\A u \in Threads : s \notin PartsOf(u)) => settled'[s] = 0
    BY <1>2 DEF SettledThenFinal
  <1>9. QED  BY <1>7, <1>8 DEF SettledThenFinal, PartsOf

LEMMA StepSettlesOnce ==
    ASSUME IInv, SettledThenFinal, NEW t \in Threads, Step(t) \/ OnFailed(t)
    PROVE  SettledThenFinal'
  <1>1. ControlType /\ ThreadInv(t) /\ DbType
    BY Unpack
  <1>2. ASSUME UNCHANGED dbVars, pc[t] \notin Final, \E x : Goto(t, x)
        PROVE  SettledThenFinal'
    BY <1>1, <1>2, BeforeCommit DEF dbVars
  <1>3. CASE StartJob(t) \/ LockFrom(t) \/ HandleThrow(t)
    BY <1>2, <1>3 DEF StartJob, LockFrom, HandleThrow, Final
  <1>4. CASE MarkProcessing(t)
    BY <1>1, <1>4, BeforeCommit DEF MarkProcessing, Final
  <1>5. CASE AttemptSettlement(t)
    BY <1>2, <1>5 DEF AttemptSettlement, Final
  <1>6. CASE Exchange(t)
    BY <1>2, <1>6 DEF Exchange, Final
  <1>7. CASE UpdateRetrying(t) \/ GiveUp(t)
    BY <1>1, <1>7, BeforeCommit DEF UpdateRetrying, GiveUp, Final
  <1>8. CASE Commit(t)
    BY <1>8, CommitSettlesOnce
  <1>9. CASE Abort(t)
    BY <1>2, <1>9 DEF Abort, FailJob, Final
  <1>10. CASE Rollback(t)
    BY <1>1, <1>10, BeforeCommit DEF Rollback, dbVars, Final
  <1>11. CASE CommitRollback(t)
    <2>1. settled' = settled
      <3>1. DOMAIN work[t].done = {}
        BY <1>1, <1>11 DEF CommitRollback, ThreadInv, ExchangedInOrder
      <3>2. QED  BY <1>1, <1>11, <3>1 DEF CommitRollback, Committed, DbType
    <2>2. QED  BY <1>1, <1>11, <2>1, BeforeCommit DEF CommitRollback, Final
  <1>12. CASE FailUnsettled(t)
    BY <1>1, <1>12, BeforeCommit DEF FailUnsettled, FailJob, Final
  <1>13. CASE CompleteJob(t)
    BY <1>1, <1>13, NothingSettled DEF CompleteJob, dbVars, Final
  <1>14. CASE LockWaitFails(t)
    BY <1>2, <1>14 DEF LockWaitFails, FailJob, Final
  <1>15. CASE OnFailed(t)
    BY <1>15, NothingSettled DEF OnFailed
  <1>16. QED
    BY <1>3, <1>4, <1>5, <1>6, <1>7, <1>8, <1>9, <1>10, <1>11, <1>12, <1>13, <1>14, <1>15
       DEF Step

LEMMA InitSettles == Init => SettledThenFinal
  <1>1. \A t \in Threads : PartsOf(t) \subseteq Swaps
    BY ThreadFacts DEF PartsOf
  <1>2. QED  BY <1>1 DEF Init, SettledThenFinal

LEMMA NextSettles ==
    ASSUME MaxCrashes = 0
    PROVE  IInv /\ SettledThenFinal /\ [Next]_vars => SettledThenFinal'
  <1> SUFFICES ASSUME IInv, SettledThenFinal, [Next]_vars PROVE SettledThenFinal'
    OBVIOUS
  <1>1. ~Crash
    BY DEF Crash, IInv, TypeOK
  <1>2. CASE UNCHANGED vars
    BY <1>2, NothingSettled DEF vars
  <1>3. QED  BY <1>1, <1>2, StepSettlesOnce DEF Next

\* If the process never dies a swap is exchanged once, however its settlement is
\* retried by settle and its job by Bull: a thread that has committed does nothing
\* more, and the swaps of different jobs are different.
THEOREM SettledOnce ==
    ASSUME MaxCrashes = 0
    PROVE  Spec => []SettledAtMostOnce
  <1>1. IInv /\ SettledThenFinal => SettledAtMostOnce
    <2> SUFFICES ASSUME IInv, SettledThenFinal, NEW s \in Swaps PROVE settled[s] <= 1
      BY DEF SettledAtMostOnce
    <2>1. CASE \E t \in Threads : s \in PartsOf(t)
      BY <2>1 DEF SettledThenFinal
    <2>2. CASE \A t \in Threads : s \notin PartsOf(t)
      BY <2>2 DEF SettledThenFinal
    <2>3. QED  BY <2>1, <2>2
  <1>2. QED  BY <1>1, InitSettles, NextSettles, Invariance, PTL DEF Spec
=============================================================================
