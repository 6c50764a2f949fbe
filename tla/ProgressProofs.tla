--------------------------- MODULE ProgressProofs ---------------------------
(***************************************************************************)
(* Proofs about the services that promise progress: for any requests, any  *)
(* tasks and workers, any concurrent matching of any orders.               *)
(***************************************************************************)
EXTENDS Progress, SequenceTheorems, OperatorLemmas, TLAPS

-----------------------------------------------------------------------------
(* Request deduplication *)

DedupInv == Ded!TypeOK /\ Ded!EntriesAreLive

LEMMA DedupInit == Ded!Init => DedupInv
  BY DedupAssumption DEF Ded!Init, DedupInv, Ded!TypeOK, Ded!EntriesAreLive

LEMMA OwnKeepsInv ==
  ASSUME DedupInv, NEW c \in DedupCalls, Ded!Own(c)
  PROVE  DedupInv'
  BY DedupAssumption DEF Ded!Own, DedupInv, Ded!TypeOK, Ded!EntriesAreLive

\* The entry's owner is executing, so it is not the call that joins.
LEMMA JoinKeepsInv ==
  ASSUME DedupInv, NEW c \in DedupCalls, Ded!Join(c)
  PROVE  DedupInv'
  BY DedupAssumption DEF Ded!Join, DedupInv, Ded!TypeOK, Ded!EntriesAreLive

\* Whichever entry is deleted: no entry is left, and the promise whose timer
\* is cleared is settled.
LEMMA ExecutorKeepsInv ==
  ASSUME DedupInv, NEW c \in DedupCalls, Ded!ExecutorReturns(c) \/ Ded!ExecutorThrows(c)
  PROVE  DedupInv'
  BY DedupAssumption DEF Ded!ExecutorReturns, Ded!ExecutorThrows, Ded!Finally, Ded!Reject,
         Ded!Settle, DedupInv, Ded!TypeOK, Ded!EntriesAreLive

LEMMA TimerFiresKeepsInv ==
  ASSUME DedupInv, NEW c \in DedupCalls, Ded!TimerFires(c)
  PROVE  DedupInv'
  BY DedupAssumption DEF Ded!TimerFires, Ded!Reject, Ded!Settle, DedupInv, Ded!TypeOK, Ded!EntriesAreLive

LEMMA DropKeepsInv ==
  ASSUME DedupInv, Ded!Drop
  PROVE  DedupInv'
  BY DedupAssumption DEF Ded!Drop, Ded!Reject, Ded!Settle, DedupInv, Ded!TypeOK, Ded!EntriesAreLive

LEMMA WaitKeepsInv ==
  ASSUME DedupInv, Ded!WaitForRequest
  PROVE  DedupInv'
  BY DedupAssumption DEF Ded!WaitForRequest, DedupInv, Ded!TypeOK, Ded!EntriesAreLive

LEMMA DedupKeepsInv == DedupInv /\ [Next]_allVars => DedupInv'
<1>1. ASSUME DedupInv, Ded!Next PROVE DedupInv'
  <2>1. CASE Ded!Drop \/ Ded!WaitForRequest
    BY <1>1, <2>1, DropKeepsInv, WaitKeepsInv
  <2>2. ASSUME NEW c \in DedupCalls,
               Ded!Own(c) \/ Ded!Join(c) \/ Ded!ExecutorReturns(c) \/ Ded!ExecutorThrows(c)
               \/ Ded!TimerFires(c)
        PROVE  DedupInv'
    BY <1>1, <2>2, OwnKeepsInv, JoinKeepsInv, ExecutorKeepsInv, TimerFiresKeepsInv
  <2> QED BY <1>1, <2>1, <2>2 DEF Ded!Next
<1>2. ASSUME DedupInv, UNCHANGED dedupVars PROVE DedupInv'
  BY <1>2 DEF dedupVars, DedupInv, Ded!TypeOK, Ded!EntriesAreLive
<1>3. ASSUME [Next]_allVars PROVE Ded!Next \/ UNCHANGED dedupVars
  BY <1>3 DEF Next, DedupStep, WorkersStep, TradesStep, allVars
<1> QED BY <1>1, <1>2, <1>3

\* Every entry that can be joined belongs to a call that is executing and has
\* answered nobody, and every open promise has its timer: deduplicate, its timer
\* and cancelRequest never delete one without settling the other.
THEOREM DedupEntriesAreLive == Spec => []EntriesAreLive
<1>1. Init => DedupInv BY DedupInit DEF Init
<1>2. DedupInv /\ [Next]_allVars => DedupInv' BY DedupKeepsInv
<1>3. DedupInv => EntriesAreLive BY DEF DedupInv, EntriesAreLive
<1> QED BY <1>1, <1>2, <1>3, PTL DEF Spec

-----------------------------------------------------------------------------
(* The worker pool *)


\* When the stack of workers is empty somebody is at work.
SomebodyWorks == phase # "down" /\ available = <<>> => callbacks # {}

PoolInv == Wrk!TypeOK /\ Wrk!QueueIsServed /\ SomebodyWorks

LEMMA PoolInit == Wrk!Init => PoolInv
<1> SUFFICES ASSUME Wrk!Init PROVE PoolInv OBVIOUS
<1>1. available \in Seq(1..WorkerCount) /\ available # <<>>
  <2>1. available \in [1..WorkerCount -> 1..WorkerCount] BY DEF Wrk!Init
  <2>2. available \in Seq(1..WorkerCount) BY <2>1, WorkersAssumption
  <2>3. 1 \in DOMAIN available BY <2>1, WorkersAssumption
  <2> QED BY <2>2, <2>3
<1> QED BY <1>1 DEF Wrk!Init, PoolInv, Wrk!TypeOK, Wrk!QueueIsServed, SomebodyWorks

LEMMA SubmitKeepsInv ==
  ASSUME PoolInv, NEW t \in Tasks, Wrk!SubmitTask(t)
  PROVE  PoolInv'
<1>1. CASE available # <<>>
  <2> DEFINE w == available[Len(available)]
  <2>1. available \in Seq(1..WorkerCount) BY DEF PoolInv, Wrk!TypeOK
  <2>2. Len(available) \in 1..Len(available) /\ w \in 1..WorkerCount
    BY <1>1, <2>1, WorkersAssumption
  <2>3. /\ callbacks' = callbacks \cup {t} /\ inWork' = inWork \cup {<<t, w>>}
        /\ available' = SubSeq(available, 1, Len(available) - 1)
        /\ UNCHANGED <<queue, answered, phase>>
    BY <1>1 DEF Wrk!SubmitTask, Wrk!ExecuteTask
  <2>4. available' \in Seq(1..WorkerCount)
    BY <1>1, <2>1, <2>2, <2>3, WorkersAssumption
  <2>5. Wrk!TypeOK' BY <2>2, <2>3, <2>4 DEF PoolInv, Wrk!TypeOK
  <2>6. Wrk!QueueIsServed' BY <2>2, <2>3 DEF PoolInv, Wrk!QueueIsServed
  <2> QED BY <2>3, <2>5, <2>6 DEF PoolInv, SomebodyWorks
<1>2. CASE available = <<>>
  <2>1. queue' = Append(queue, t) /\ UNCHANGED <<available, callbacks, inWork, answered, phase>>
    BY <1>2 DEF Wrk!SubmitTask
  <2>2. Wrk!TypeOK' BY <2>1 DEF PoolInv, Wrk!TypeOK
  <2>3. Wrk!QueueIsServed' BY <1>2, <2>1 DEF PoolInv, Wrk!QueueIsServed, SomebodyWorks
  <2> QED BY <2>1, <2>2, <2>3 DEF PoolInv, SomebodyWorks
<1> QED BY <1>1, <1>2

LEMMA AnswerKeepsInv ==
  ASSUME PoolInv, NEW t \in Tasks, NEW w \in 1..WorkerCount,
         Wrk!HandleWorkerMessage(t, w)
  PROVE  PoolInv'
<1> DEFINE next == IF phase # "down" /\ queue # <<>> THEN {Head(queue)} ELSE {}
<1>1. /\ answered' = answered \cup ({t} \cap callbacks)
      /\ inWork' = (inWork \ {<<t, w>>}) \cup (next \X {1})
      /\ callbacks' = (callbacks \ {t}) \cup next
      /\ queue' = IF next = {} THEN queue ELSE Tail(queue)
      /\ available' = IF phase = "down" THEN available ELSE Append(available, 1)
      /\ phase' = phase
  BY DEF Wrk!HandleWorkerMessage, Wrk!Returned
<1>2. queue \in Seq(Tasks) /\ available \in Seq(1..WorkerCount) /\ 1 \in 1..WorkerCount
  BY WorkersAssumption DEF PoolInv, Wrk!TypeOK
<1>3. next \subseteq Tasks BY <1>2
<1>4. queue' \in Seq(Tasks) /\ (queue' # <<>> /\ phase # "down" => next # {})
  BY <1>1, <1>2
<1>5. available' \in Seq(1..WorkerCount) /\ (phase # "down" => available' # <<>>)
  <2>1. Append(available, 1) \in Seq(1..WorkerCount) /\ Append(available, 1) # <<>>
    BY <1>2, AppendProperties
  <2> QED BY <1>1, <1>2, <2>1
<1>6. Wrk!TypeOK'
  <2>1. callbacks' \subseteq Tasks /\ answered' \subseteq Tasks /\ phase' \in {"up", "closing", "down"}
    BY <1>1, <1>3 DEF PoolInv, Wrk!TypeOK
  <2>2. inWork' \subseteq Tasks \X (1..WorkerCount)
    BY <1>1, <1>2, <1>3 DEF PoolInv, Wrk!TypeOK
  <2> QED BY <1>4, <1>5, <2>1, <2>2 DEF Wrk!TypeOK
<1>7. Wrk!QueueIsServed'
  <2>1. ASSUME phase' # "down", queue' # <<>> PROVE callbacks' # {}
    BY <1>1, <1>4, <2>1
  <2>2. ASSUME phase' # "down", NEW u \in callbacks'
        PROVE  \E v \in 1..WorkerCount : <<u, v>> \in inWork'
    <3>1. CASE u \in next
      BY <1>1, <1>2, <3>1
    <3>2. CASE u \in callbacks \ {t}
      <4>1. PICK v \in 1..WorkerCount : <<u, v>> \in inWork
        BY <1>1, <2>2, <3>2 DEF PoolInv, Wrk!QueueIsServed
      <4> QED BY <1>1, <3>2, <4>1
    <3> QED BY <1>1, <2>2, <3>1, <3>2
  <2> QED BY <2>1, <2>2 DEF Wrk!QueueIsServed
<1>8. SomebodyWorks' BY <1>1, <1>5 DEF SomebodyWorks
<1> QED BY <1>6, <1>7, <1>8 DEF PoolInv

LEMMA ShutdownKeepsInv ==
  ASSUME PoolInv, Wrk!BeginShutdown \/ Wrk!FinishShutdown
  PROVE  PoolInv'
<1>1. CASE Wrk!BeginShutdown
  BY <1>1 DEF Wrk!BeginShutdown, PoolInv, Wrk!TypeOK, Wrk!QueueIsServed, SomebodyWorks
<1>2. CASE Wrk!FinishShutdown
  BY <1>2 DEF Wrk!FinishShutdown, PoolInv, Wrk!TypeOK, Wrk!QueueIsServed, SomebodyWorks
<1> QED BY <1>1, <1>2

LEMMA PoolKeepsInv == PoolInv /\ [Next]_allVars => PoolInv'
<1>1. ASSUME PoolInv, Wrk!Next PROVE PoolInv'
  <2>1. CASE Wrk!BeginShutdown \/ Wrk!FinishShutdown
    BY <1>1, <2>1, ShutdownKeepsInv
  <2>2. ASSUME NEW t \in Tasks, Wrk!SubmitTask(t) PROVE PoolInv'
    BY <1>1, <2>2, SubmitKeepsInv
  <2>3. ASSUME NEW t \in Tasks, NEW w \in 1..WorkerCount, Wrk!HandleWorkerMessage(t, w)
        PROVE  PoolInv'
    BY <1>1, <2>3, AnswerKeepsInv
  <2> QED BY <1>1, <2>1, <2>2, <2>3 DEF Wrk!Next
<1>2. ASSUME PoolInv, UNCHANGED workerVars PROVE PoolInv'
  BY <1>2 DEF workerVars, PoolInv, Wrk!TypeOK, Wrk!QueueIsServed, SomebodyWorks
<1>3. ASSUME [Next]_allVars PROVE Wrk!Next \/ UNCHANGED workerVars
  BY <1>3 DEF Next, DedupStep, WorkersStep, TradesStep, allVars
<1> QED BY <1>1, <1>2, <1>3

\* As long as a task waits in the queue a worker is busy that will come for it,
\* and every task with a callback is with a worker, although handleWorkerMessage
\* puts back the wrong one.
THEOREM PoolQueueIsServed == Spec => []QueueIsServed
<1>1. Init => PoolInv BY PoolInit DEF Init
<1>2. PoolInv /\ [Next]_allVars => PoolInv' BY PoolKeepsInv
<1>3. PoolInv => QueueIsServed BY DEF PoolInv, QueueIsServed
<1> QED BY <1>1, <1>2, <1>3, PTL DEF Spec

-----------------------------------------------------------------------------
(* Trade matching: locks and checked balances *)

Ids == {o.id : o \in Trd!AllOrders}

TradeTypes ==
    /\ balance \in [Users -> [Trd!Assets -> Int]]
    /\ remaining \in [Ids -> Int] /\ left \in [TradeCalls -> [Ids -> Int]]
    /\ bidIndex \in [TradeCalls -> Nat \ {0}] /\ askIndex \in [TradeCalls -> Nat \ {0}]
    /\ step \in [TradeCalls -> {"loop", "trade", "done"}]
    /\ locks \in [TradeCalls -> SUBSET Trd!Rows]

\* A transaction is open for two orders that have something left.
HasOrders(r) ==
    /\ bidIndex[r] <= Len(Bids[r]) /\ askIndex[r] <= Len(Asks[r])
    /\ left[r][Trd!Bid(r).id] > 0 /\ left[r][Trd!Ask(r).id] > 0

\* Whoever holds the row of a checked balance can pay from it.
Funded(r) ==
    /\ Trd!Needs(r)[1] \in locks[r] =>
          balance[Trd!Bid(r).user]["USD"] >= Trd!Total(r)
    /\ Trd!Needs(r)[2] \in locks[r] =>
          balance[Trd!Ask(r).user][Asset] >= Trd!Amount(r)

CallInv(r) ==
    IF step[r] = "trade" THEN HasOrders(r) /\ Funded(r) ELSE locks[r] = {}

LocksExclusive == \A r, q \in TradeCalls : r # q => locks[r] \cap locks[q] = {}

NoDebts == \A u \in Users, a \in Trd!Assets : balance[u][a] >= 0

TradeInv ==
    /\ TradeTypes /\ LocksExclusive /\ NoDebts
    /\ \A r \in TradeCalls : CallInv(r)

LEMMA TradeFacts ==
    /\ IsFiniteSet(Users) /\ Trd!Assets = {Asset, "USD"} /\ Asset # "USD"
    /\ Deposits \in [Users -> [Trd!Assets -> Nat]]
    /\ \A r \in TradeCalls :
          /\ Bids[r] \in Seq(TradeOrder) /\ Asks[r] \in Seq(TradeOrder)
          /\ DOMAIN Bids[r] = 1..Len(Bids[r]) /\ DOMAIN Asks[r] = 1..Len(Asks[r])
          /\ Len(Bids[r]) \in Nat /\ Len(Asks[r]) \in Nat
<1>1. /\ IsFiniteSet(Users) /\ Asset # "USD"
      /\ Deposits \in [Users -> [{Asset, "USD"} -> Nat]]
      /\ \A r \in TradeCalls : Bids[r] \in Seq(TradeOrder) /\ Asks[r] \in Seq(TradeOrder)
  BY TradesAssumption
<1>2. Trd!Assets = {Asset, "USD"} BY DEF Trd!Assets
<1>3. \A s \in Seq(TradeOrder) : DOMAIN s = 1..Len(s) /\ Len(s) \in Nat OBVIOUS
<1> QED BY <1>1, <1>2, <1>3

LEMMA OrdersTyped == \A o \in Trd!AllOrders : o \in TradeOrder
  BY TradeFacts DEF Trd!AllOrders, Trd!OrdersOf

\* The orders a call has come to.
LEMMA OrdersFound ==
    ASSUME TradeTypes, NEW r \in TradeCalls,
           bidIndex[r] <= Len(Bids[r]), askIndex[r] <= Len(Asks[r])
    PROVE  /\ Trd!Bid(r) \in TradeOrder /\ Trd!Ask(r) \in TradeOrder
           /\ Trd!Bid(r).id \in Ids /\ Trd!Ask(r).id \in Ids
           /\ Trd!Bid(r).user \in Users /\ Trd!Ask(r).user \in Users
           /\ Trd!Ask(r).price \in Nat
  <1>1. bidIndex[r] \in DOMAIN Bids[r] /\ askIndex[r] \in DOMAIN Asks[r]
    BY TradeFacts DEF TradeTypes
  <1>2. Trd!Bid(r) \in Trd!AllOrders /\ Trd!Ask(r) \in Trd!AllOrders
    BY <1>1 DEF Trd!Bid, Trd!Ask, Trd!AllOrders, Trd!OrdersOf
  <1>3. QED  BY <1>2, OrdersTyped DEF Ids, TradeOrder

LEMMA MinOfTwo ==
    ASSUME NEW a \in Int, NEW b \in Int
    PROVE  Trd!Min({a, b}) \in {a, b} /\ Trd!Min({a, b}) <= a /\ Trd!Min({a, b}) <= b
  <1>1. \E x \in {a, b} : \A y \in {a, b} : x <= y
    OBVIOUS
  <1>2. QED  BY <1>1 DEF Trd!Min

\* What is traded is positive, and so is its price.
LEMMA TradeAmount ==
    ASSUME TradeTypes, NEW r \in TradeCalls, HasOrders(r)
    PROVE  Trd!Amount(r) \in Nat /\ Trd!Total(r) \in Nat
  <1> DEFINE x == left[r][Trd!Bid(r).id]
             y == left[r][Trd!Ask(r).id]
  <1>1. x \in Int /\ y \in Int /\ x > 0 /\ y > 0 /\ Trd!Ask(r).price \in Nat
    BY OrdersFound DEF TradeTypes, HasOrders
  <1>2. Trd!Amount(r) = Trd!Min({x, y})
    BY DEF Trd!Amount
  <1> HIDE DEF x, y
  <1>3. Trd!Amount(r) \in Nat
    <2>1. Trd!Min({x, y}) \in {x, y} BY <1>1, MinOfTwo
    <2> DEFINE m == Trd!Min({x, y})
    <2>2. m = x \/ m = y BY <2>1
    <2> HIDE DEF m
    <2>3. m \in Nat BY <2>2, <1>1
    <2> QED BY <2>3, <1>2 DEF m
  <1>4. \A m, n \in Nat : m * n \in Nat
    OBVIOUS
  <1>5. QED  BY <1>1, <1>3, <1>4 DEF Trd!Total

\* What call r has to do with depends on its own variables and its two balances.
LEMMA OtherCallKept ==
    ASSUME NEW q \in TradeCalls, CallInv(q),
           bidIndex'[q] = bidIndex[q], askIndex'[q] = askIndex[q], left'[q] = left[q],
           step'[q] = step[q], locks'[q] = locks[q],
           \A k \in 1..2 : Trd!Needs(q)[k] \in locks[q] =>
              LET w == Trd!Needs(q)[k] IN balance'[w[1]][w[2]] = balance[w[1]][w[2]]
    PROVE  CallInv(q)'
  <1>1. /\ Trd!Bid(q)' = Trd!Bid(q) /\ Trd!Ask(q)' = Trd!Ask(q)
    BY DEF Trd!Bid, Trd!Ask
  <1>2. /\ Trd!Amount(q)' = Trd!Amount(q) /\ Trd!Total(q)' = Trd!Total(q)
        /\ Trd!Needs(q)' = Trd!Needs(q) /\ HasOrders(q)' = HasOrders(q)
    BY <1>1 DEF Trd!Amount, Trd!Total, Trd!Needs, HasOrders
  <1>3. /\ Trd!Needs(q)[1] = <<Trd!Bid(q).user, "USD">>
        /\ Trd!Needs(q)[2] = <<Trd!Ask(q).user, Asset>>
    BY DEF Trd!Needs
  <1>4. 1 \in 1..2 /\ 2 \in 1..2
    OBVIOUS
  <1>5. /\ Trd!Needs(q)[1] \in locks[q] =>
             balance'[Trd!Bid(q).user]["USD"] = balance[Trd!Bid(q).user]["USD"]
        /\ Trd!Needs(q)[2] \in locks[q] =>
             balance'[Trd!Ask(q).user][Asset] = balance[Trd!Ask(q).user][Asset]
    BY <1>3, <1>4
  <1>6. QED  BY <1>1, <1>2, <1>5 DEF CallInv, Funded

\* At the start nothing is locked and no balance is negative.
LEMMA TradeInit == Trd!Init => TradeInv
<1> SUFFICES ASSUME Trd!Init PROVE TradeInv OBVIOUS
<1>1. \A i \in Ids : (CHOOSE o \in Trd!AllOrders : o.id = i).amount \in Int
  <2> SUFFICES ASSUME NEW i \in Ids
               PROVE  (CHOOSE o \in Trd!AllOrders : o.id = i).amount \in Int OBVIOUS
  <2>1. (CHOOSE o \in Trd!AllOrders : o.id = i) \in Trd!AllOrders BY DEF Ids
  <2> QED BY <2>1, OrdersTyped DEF TradeOrder
<1>2. remaining \in [Ids -> Int] BY <1>1 DEF Trd!Init, Ids
<1>3. balance = Deposits /\ balance \in [Users -> [Trd!Assets -> Nat]]
  BY TradeFacts DEF Trd!Init
<1>4. TradeTypes
  BY <1>2, <1>3 DEF TradeTypes, Trd!Init
<1>5. NoDebts BY <1>3 DEF NoDebts
<1>6. LocksExclusive /\ \A r \in TradeCalls : CallInv(r)
  BY DEF LocksExclusive, CallInv, Trd!Init
<1> QED BY <1>4, <1>5, <1>6 DEF TradeInv

\* The head of the loop begins a trade only for orders with something left.
LEMMA LoopKeepsInv ==
    ASSUME TradeInv, NEW r \in TradeCalls, Trd!Loop(r)
    PROVE  TradeInv'
<1>1. TradeTypes /\ LocksExclusive /\ NoDebts /\ (\A q \in TradeCalls : CallInv(q))
  BY DEF TradeInv
<1>2. UNCHANGED <<balance, remaining, left, locks>> /\ step[r] = "loop" BY DEF Trd!Loop
<1>3. \A q \in TradeCalls \ {r} :
         bidIndex'[q] = bidIndex[q] /\ askIndex'[q] = askIndex[q] /\ step'[q] = step[q]
  BY <1>1 DEF TradeTypes, Trd!Loop, Trd!Advance
<1>4. TradeTypes'
  <2>1. bidIndex' \in [TradeCalls -> Nat \ {0}]
    <3>1. bidIndex' = bidIndex \/ bidIndex' = [bidIndex EXCEPT ![r] = @ + 1]
      BY DEF Trd!Loop, Trd!Advance
    <3> QED BY <1>1, <3>1 DEF TradeTypes
  <2>2. askIndex' \in [TradeCalls -> Nat \ {0}]
    <3>1. askIndex' = askIndex \/ askIndex' = [askIndex EXCEPT ![r] = @ + 1]
      BY DEF Trd!Loop, Trd!Advance
    <3> QED BY <1>1, <3>1 DEF TradeTypes
  <2>3. step' \in [TradeCalls -> {"loop", "trade", "done"}]
    <3>1. \/ step' = step \/ step' = [step EXCEPT ![r] = "done"]
          \/ step' = [step EXCEPT ![r] = "trade"]
      BY DEF Trd!Loop
    <3> QED BY <1>1, <3>1 DEF TradeTypes
  <2> QED BY <1>1, <1>2, <2>1, <2>2, <2>3 DEF TradeTypes
<1>5. locks[r] = {} BY <1>1, <1>2 DEF CallInv
<1>6. ASSUME step'[r] = "trade"
      PROVE  /\ bidIndex' = bidIndex /\ askIndex' = askIndex
             /\ bidIndex[r] <= Len(Bids[r]) /\ askIndex[r] <= Len(Asks[r])
             /\ ~(left[r][Trd!Bid(r).id] <= 0) /\ ~(left[r][Trd!Ask(r).id] <= 0)
  <2>1. ~(bidIndex[r] > Len(Bids[r])) /\ ~(askIndex[r] > Len(Asks[r]))
    BY <1>1, <1>6, <1>2 DEF Trd!Loop, TradeTypes
  <2>2. ~(left[r][Trd!Bid(r).id] <= 0) /\ ~(left[r][Trd!Ask(r).id] <= 0)
        /\ bidIndex' = bidIndex /\ askIndex' = askIndex
    BY <1>1, <1>6, <1>2, <2>1 DEF Trd!Loop, TradeTypes
  <2> QED BY <2>1, <2>2, <1>1, TradeFacts DEF TradeTypes
<1>7. CallInv(r)'
  <2>1. CASE step'[r] = "trade"
    <3>1. Trd!Bid(r)' = Trd!Bid(r) /\ Trd!Ask(r)' = Trd!Ask(r)
      BY <1>6, <2>1 DEF Trd!Bid, Trd!Ask
    <3>2. left[r][Trd!Bid(r).id] \in Int /\ left[r][Trd!Ask(r).id] \in Int
      BY <1>1, <1>6, <2>1, OrdersFound DEF TradeTypes
    <3>3. HasOrders(r)' BY <1>2, <1>6, <2>1, <3>1, <3>2 DEF HasOrders
    <3>4. Funded(r)' BY <1>2, <1>5 DEF Funded
    <3> QED BY <3>3, <3>4, <2>1 DEF CallInv
  <2>2. CASE step'[r] # "trade" BY <2>2, <1>2, <1>5 DEF CallInv
  <2> QED BY <2>1, <2>2
<1>8. \A q \in TradeCalls \ {r} : CallInv(q)' BY <1>1, <1>2, <1>3, OtherCallKept
<1>9. LocksExclusive' /\ NoDebts' BY <1>1, <1>2 DEF LocksExclusive, NoDebts
<1> QED BY <1>4, <1>7, <1>8, <1>9 DEF TradeInv

\* The least of a set of positions.
LEMMA FirstOf ==
    ASSUME NEW S \in SUBSET (1..6), S # {}
    PROVE  Trd!Min(S) \in S
<1>1. \E x \in S : \A y \in S : x <= y BY LeastNatural
<1> QED BY <1>1 DEF Trd!Min

\* The rows a trade touches, one by one.
LEMMA NeededRows ==
    ASSUME NEW r
    PROVE  /\ Trd!Needs(r)[1] = <<Trd!Bid(r).user, "USD">>
           /\ Trd!Needs(r)[2] = <<Trd!Ask(r).user, Asset>>
           /\ Trd!Needs(r)[3] = <<Trd!Bid(r).user, Asset>>
           /\ Trd!Needs(r)[4] = <<Trd!Ask(r).user, "USD">>
           /\ Trd!Needs(r)[5] = <<"order", Trd!Bid(r).id>>
           /\ Trd!Needs(r)[6] = <<"order", Trd!Ask(r).id>>
BY DEF Trd!Needs

\* They are rows of the two tables.
LEMMA RowsExist ==
    ASSUME TradeTypes, NEW r \in TradeCalls, HasOrders(r), NEW k \in 1..6
    PROVE  Trd!Needs(r)[k] \in Trd!Rows
<1> DEFINE bu == Trd!Bid(r).user
           au == Trd!Ask(r).user
           bi == Trd!Bid(r).id
           ai == Trd!Ask(r).id
<1>1. bi \in Ids /\ ai \in Ids /\ bu \in Users /\ au \in Users
  BY OrdersFound DEF HasOrders
<1>2. Trd!Rows = (Users \X Trd!Assets) \cup ({"order"} \X Ids) BY DEF Trd!Rows, Ids
<1>3. "USD" \in Trd!Assets /\ Asset \in Trd!Assets BY TradeFacts
<1>4. k = 1 \/ k = 2 \/ k = 3 \/ k = 4 \/ k = 5 \/ k = 6 OBVIOUS
<1>5. Trd!Needs(r) = << <<bu, "USD">>, <<au, Asset>>, <<bu, Asset>>, <<au, "USD">>,
                        <<"order", bi>>, <<"order", ai>> >>
  BY DEF Trd!Needs
<1> HIDE DEF bu, au, bi, ai
<1>6. /\ <<bu, "USD">> \in Trd!Rows /\ <<au, Asset>> \in Trd!Rows /\ <<bu, Asset>> \in Trd!Rows
      /\ <<au, "USD">> \in Trd!Rows /\ <<"order", bi>> \in Trd!Rows /\ <<"order", ai>> \in Trd!Rows
  BY <1>1, <1>2, <1>3
<1> QED BY <1>4, <1>5, <1>6

\* A row is locked by one transaction, and a balance is checked when its row is.
LEMMA LockRowKeepsInv ==
    ASSUME TradeInv, NEW r \in TradeCalls, Trd!LockRow(r)
    PROVE  TradeInv'
<1> DEFINE w == Trd!NextRow(r)
<1>1. TradeTypes /\ LocksExclusive /\ NoDebts /\ (\A q \in TradeCalls : CallInv(q))
  BY DEF TradeInv
<1>2. /\ UNCHANGED <<balance, remaining, bidIndex, askIndex, left, step>>
      /\ step[r] = "trade" /\ Trd!Missing(r) # {} /\ Trd!Free(r, w) /\ Trd!Sufficient(r, w)
      /\ locks' = [locks EXCEPT ![r] = @ \cup {w}]
  BY DEF Trd!LockRow
<1>3. HasOrders(r) /\ Funded(r) BY <1>1, <1>2 DEF CallInv
<1>4. w \in Trd!Rows
  <2>1. Trd!Min(Trd!Missing(r)) \in 1..6 BY <1>2, FirstOf DEF Trd!Missing
  <2> QED BY <2>1, <1>1, <1>3, RowsExist DEF Trd!NextRow
<1> HIDE DEF w
<1>5. /\ locks'[r] = locks[r] \cup {w} /\ \A q \in TradeCalls \ {r} : locks'[q] = locks[q]
      /\ locks' \in [TradeCalls -> SUBSET Trd!Rows]
  BY <1>1, <1>2, <1>4 DEF TradeTypes
<1>6. TradeTypes' BY <1>1, <1>2, <1>5 DEF TradeTypes
<1>7. LocksExclusive'
  <2>1. \A q \in TradeCalls \ {r} : w \notin locks[q] BY <1>2 DEF Trd!Free
  <2> QED BY <2>1, <1>1, <1>5 DEF LocksExclusive
<1>8. NoDebts' BY <1>1, <1>2 DEF NoDebts
<1>9. CallInv(r)'
  <2>1. /\ Trd!Bid(r)' = Trd!Bid(r) /\ Trd!Ask(r)' = Trd!Ask(r)
    BY <1>2 DEF Trd!Bid, Trd!Ask
  <2>2. /\ Trd!Amount(r)' = Trd!Amount(r) /\ Trd!Total(r)' = Trd!Total(r)
        /\ Trd!Needs(r)' = Trd!Needs(r) /\ HasOrders(r)'
    BY <1>2, <1>3, <2>1 DEF Trd!Amount, Trd!Total, Trd!Needs, HasOrders
  <2>3. Funded(r)'
    BY <1>2, <1>3, <1>5, <2>1, <2>2 DEF Funded, Trd!Sufficient
  <2> QED BY <2>2, <2>3, <1>2 DEF CallInv
<1>10. \A q \in TradeCalls \ {r} : CallInv(q)' BY <1>1, <1>2, <1>5, OtherCallKept
<1> QED BY <1>6, <1>7, <1>8, <1>9, <1>10 DEF TradeInv

\* A trade that fails leaves the tables alone and gives its rows back.
LEMMA FailTradeKeepsInv ==
    ASSUME TradeInv, NEW r \in TradeCalls, Trd!FailTrade(r)
    PROVE  TradeInv'
<1>1. TradeTypes /\ LocksExclusive /\ NoDebts /\ (\A q \in TradeCalls : CallInv(q))
  BY DEF TradeInv
<1>2. /\ UNCHANGED <<balance, remaining, left>>
      /\ locks' = [locks EXCEPT ![r] = {}] /\ step' = [step EXCEPT ![r] = "loop"]
      /\ bidIndex' = [bidIndex EXCEPT ![r] = @ + 1] /\ askIndex' = [askIndex EXCEPT ![r] = @ + 1]
  BY DEF Trd!FailTrade, Trd!Unlock, Trd!Advance
<1>3. /\ locks'[r] = {} /\ step'[r] = "loop"
      /\ \A q \in TradeCalls \ {r} : /\ locks'[q] = locks[q] /\ step'[q] = step[q]
                                     /\ bidIndex'[q] = bidIndex[q] /\ askIndex'[q] = askIndex[q]
  BY <1>1, <1>2 DEF TradeTypes
<1>4. TradeTypes' BY <1>1, <1>2 DEF TradeTypes
<1>5. LocksExclusive' BY <1>1, <1>3 DEF LocksExclusive
<1>6. NoDebts' BY <1>1, <1>2 DEF NoDebts
<1>7. CallInv(r)' BY <1>3 DEF CallInv
<1>8. \A q \in TradeCalls \ {r} : CallInv(q)' BY <1>1, <1>2, <1>3, OtherCallKept
<1> QED BY <1>4, <1>5, <1>6, <1>7, <1>8 DEF TradeInv

\* What a trade that commits knows: both balances it takes from suffice.
LEMMA CommitFacts ==
    ASSUME TradeInv, NEW r \in TradeCalls, Trd!CommitTrade(r)
    PROVE  /\ HasOrders(r) /\ \A k \in 1..6 : Trd!Needs(r)[k] \in locks[r]
           /\ Trd!Bid(r).user \in Users /\ Trd!Ask(r).user \in Users
           /\ Trd!Amount(r) \in Nat /\ Trd!Total(r) \in Nat
           /\ balance[Trd!Bid(r).user]["USD"] >= Trd!Total(r)
           /\ balance[Trd!Ask(r).user][Asset] >= Trd!Amount(r)
<1>1. step[r] = "trade" /\ Trd!Missing(r) = {} BY DEF Trd!CommitTrade
<1>2. TradeTypes /\ HasOrders(r) /\ Funded(r) BY <1>1 DEF TradeInv, CallInv
<1>3. \A k \in 1..6 : Trd!Needs(r)[k] \in locks[r] BY <1>1 DEF Trd!Missing
<1>4. Trd!Needs(r)[1] \in locks[r] /\ Trd!Needs(r)[2] \in locks[r] BY <1>3
<1> QED BY <1>2, <1>3, <1>4, OrdersFound, TradeAmount DEF Funded, HasOrders

\* Committing a trade changes balances only in rows it has locked, so what
\* other calls have checked stays true.
LEMMA CommitTradeKeepsInv ==
    ASSUME TradeInv, NEW r \in TradeCalls, Trd!CommitTrade(r)
    PROVE  TradeInv'
<1> DEFINE n == Trd!Amount(r)
           usd == Trd!Total(r)
           buyer == Trd!Bid(r).user
           seller == Trd!Ask(r).user
<1>1. TradeTypes /\ LocksExclusive /\ NoDebts /\ (\A q \in TradeCalls : CallInv(q))
  BY DEF TradeInv
<1>2. /\ UNCHANGED <<bidIndex, askIndex>>
      /\ balance' = [u \in Users |-> [a \in Trd!Assets |-> balance[u][a] + Trd!Delta(r, u, a)]]
      /\ locks' = [locks EXCEPT ![r] = {}] /\ step' = [step EXCEPT ![r] = "loop"]
  BY DEF Trd!CommitTrade, Trd!Unlock
<1>3. /\ locks'[r] = {} /\ step'[r] = "loop"
      /\ \A q \in TradeCalls \ {r} : locks'[q] = locks[q] /\ step'[q] = step[q]
  BY <1>1, <1>2 DEF TradeTypes
<1>4. \A q \in TradeCalls \ {r} : left'[q] = left[q]
  BY <1>1 DEF Trd!CommitTrade, TradeTypes
<1>5. /\ n \in Nat /\ usd \in Nat /\ buyer \in Users /\ seller \in Users
      /\ balance[buyer]["USD"] >= usd /\ balance[seller][Asset] >= n
  BY CommitFacts
<1>6. Trd!Assets = {Asset, "USD"} /\ Asset # "USD" BY TradeFacts
<1>7. \A u \in Users :
        /\ Trd!Delta(r, u, "USD") = (IF u = seller THEN usd ELSE 0) - (IF u = buyer THEN usd ELSE 0)
        /\ Trd!Delta(r, u, Asset) = (IF u = buyer THEN n ELSE 0) - (IF u = seller THEN n ELSE 0)
  BY <1>6 DEF Trd!Delta
<1>8. \A u \in Users : balance[u]["USD"] \in Int /\ balance[u][Asset] \in Int
  BY <1>1, <1>6 DEF TradeTypes
<1>9. \A u \in Users : /\ balance'[u]["USD"] = balance[u]["USD"] + Trd!Delta(r, u, "USD")
                       /\ balance'[u][Asset] = balance[u][Asset] + Trd!Delta(r, u, Asset)
  BY <1>2, <1>6
<1>10. TradeTypes'
  <2>1. balance' \in [Users -> [Trd!Assets -> Int]]
    <3> HIDE DEF n, usd, buyer, seller
    <3>1. \A u \in Users, a \in Trd!Assets : balance[u][a] + Trd!Delta(r, u, a) \in Int
      BY <1>5, <1>6, <1>7, <1>8
    <3> QED BY <3>1, <1>2
  <2>2. remaining' \in [Ids -> Int] /\ left' \in [TradeCalls -> [Ids -> Int]]
    <3>1. \A i \in Ids : remaining[i] \in Int /\ left[r][i] \in Int /\ n \in Int
      BY <1>1, <1>5 DEF TradeTypes
    <3>2. DOMAIN remaining = Ids /\ DOMAIN left[r] = Ids BY <1>1 DEF TradeTypes
    <3>3. /\ remaining' = [i \in Ids |->
                remaining[i] - IF i \in {Trd!Bid(r).id, Trd!Ask(r).id} THEN n ELSE 0]
          /\ left' = [left EXCEPT ![r] = [i \in Ids |->
                left[r][i] - IF i \in {Trd!Bid(r).id, Trd!Ask(r).id} THEN n ELSE 0]]
      BY <3>2 DEF Trd!CommitTrade
    <3> HIDE DEF n
    <3> QED BY <3>1, <3>3, <1>1 DEF TradeTypes
  <2> QED BY <1>1, <1>2, <2>1, <2>2 DEF TradeTypes
<1>11. NoDebts'
  <2> HIDE DEF n, usd, buyer, seller
  <2>1. \A u \in Users : balance[u]["USD"] >= 0 /\ balance[u][Asset] >= 0
    BY <1>1, <1>6 DEF NoDebts
  <2>2. \A u \in Users : balance'[u]["USD"] >= 0 BY <2>1, <1>5, <1>7, <1>8, <1>9
  <2>3. \A u \in Users : balance'[u][Asset] >= 0 BY <2>1, <1>5, <1>7, <1>8, <1>9
  <2> QED BY <2>2, <2>3, <1>6 DEF NoDebts
<1>12. LocksExclusive' BY <1>1, <1>3 DEF LocksExclusive
<1>13. CallInv(r)' BY <1>3 DEF CallInv
<1>14. ASSUME NEW q \in TradeCalls \ {r} PROVE CallInv(q)'
  <2>1. /\ <<buyer, "USD">> \in locks[r] /\ <<seller, Asset>> \in locks[r]
        /\ <<buyer, Asset>> \in locks[r] /\ <<seller, "USD">> \in locks[r]
    BY CommitFacts, NeededRows
  <2>2. locks[r] \cap locks[q] = {} BY <1>1, <1>14 DEF LocksExclusive
  <2>3. CASE step[q] = "trade"
    <3>1. HasOrders(q) BY <1>1, <1>14, <2>3 DEF CallInv
    <3>2. Trd!Bid(q).user \in Users /\ Trd!Ask(q).user \in Users
      BY <1>1, <1>14, <3>1, OrdersFound DEF HasOrders
    <3> HIDE DEF n, usd, buyer, seller
    <3>3. \A u \in Users : <<u, "USD">> \in locks[q] => balance'[u]["USD"] = balance[u]["USD"]
      BY <2>1, <2>2, <1>7, <1>8, <1>9
    <3>4. \A u \in Users : <<u, Asset>> \in locks[q] => balance'[u][Asset] = balance[u][Asset]
      BY <2>1, <2>2, <1>7, <1>8, <1>9
    <3>5. ASSUME NEW k \in 1..2, Trd!Needs(q)[k] \in locks[q]
          PROVE  LET w == Trd!Needs(q)[k] IN balance'[w[1]][w[2]] = balance[w[1]][w[2]]
      <4>1. CASE k = 1
        <5>1. Trd!Needs(q)[1] = <<Trd!Bid(q).user, "USD">> BY NeededRows
        <5> QED BY <4>1, <5>1, <3>2, <3>3, <3>5
      <4>2. CASE k = 2
        <5>1. Trd!Needs(q)[2] = <<Trd!Ask(q).user, Asset>> BY NeededRows
        <5> QED BY <4>2, <5>1, <3>2, <3>4, <3>5
      <4>3. k = 1 \/ k = 2 OBVIOUS
      <4> QED BY <4>1, <4>2, <4>3
    <3> QED BY <1>1, <1>2, <1>3, <1>4, <1>14, <3>5, OtherCallKept
  <2>4. CASE step[q] # "trade" BY <2>4, <1>1, <1>3, <1>14 DEF CallInv
  <2> QED BY <2>3, <2>4
<1> QED BY <1>10, <1>11, <1>12, <1>13, <1>14 DEF TradeInv

LEMMA TradeKeepsInv == TradeInv /\ [Next]_allVars => TradeInv'
<1>1. ASSUME TradeInv, NEW r \in TradeCalls, Trd!Run(r) PROVE TradeInv'
  BY <1>1, LoopKeepsInv, LockRowKeepsInv, FailTradeKeepsInv, CommitTradeKeepsInv DEF Trd!Run
<1>2. ASSUME TradeInv, UNCHANGED tradeVars PROVE TradeInv'
  BY <1>2 DEF tradeVars, TradeInv, TradeTypes, LocksExclusive, NoDebts, CallInv, HasOrders,
     Funded, Trd!Bid, Trd!Ask, Trd!Amount, Trd!Total, Trd!Needs
<1>3. ASSUME [Next]_allVars PROVE (\E r \in TradeCalls : Trd!Run(r)) \/ UNCHANGED tradeVars
  BY <1>3 DEF Next, DedupStep, WorkersStep, TradesStep, allVars
<1> QED BY <1>1, <1>2, <1>3

\* The sums of the instance are those of OperatorLemmas.
LEMMA TradeSums == \A f, S : Trd!SumFunctionOnSet(f, S) = SumFunctionOnSet(f, S)
BY DEF Trd!SumFunctionOnSet, SumFunctionOnSet, Trd!FoldFunctionOnSet, FoldFunctionOnSet,
   Trd!MapThenFoldSet, MapThenFoldSet

\* What users hold of an asset, and held at the start.
Held(a) == [u \in Users |-> balance[u][a]]
Conserved == \A a \in Trd!Assets :
    SumFunctionOnSet(Held(a), Users) = SumFunctionOnSet([u \in Users |-> Deposits[u][a]], Users)

\* A trade takes from one user what it gives to the other.
LEMMA CommitConserves ==
    ASSUME TradeInv, NEW r \in TradeCalls, Trd!CommitTrade(r), NEW a \in Trd!Assets
    PROVE  SumFunctionOnSet(Held(a)', Users) = SumFunctionOnSet(Held(a), Users)
<1> DEFINE f == Held(a)
           g == Held(a)'
           n == IF a = "USD" THEN Trd!Total(r) ELSE Trd!Amount(r)
           to == IF a = "USD" THEN Trd!Ask(r).user ELSE Trd!Bid(r).user
           from == IF a = "USD" THEN Trd!Bid(r).user ELSE Trd!Ask(r).user
<1>1. n \in Int /\ to \in Users /\ from \in Users BY CommitFacts
<1>2. \A u \in Users : f[u] \in Int BY DEF TradeInv, TradeTypes, Held
<1>3. ASSUME NEW u \in Users
      PROVE  g[u] = f[u] + ((IF u = to THEN n ELSE 0) - (IF u = from THEN n ELSE 0))
  <2>1. balance'[u][a] = balance[u][a] + Trd!Delta(r, u, a) BY DEF Trd!CommitTrade
  <2>2. g[u] = balance'[u][a] /\ f[u] = balance[u][a] BY DEF Held
  <2>3. Trd!Delta(r, u, a) = (IF u = to THEN n ELSE 0) - (IF u = from THEN n ELSE 0)
    BY DEF Trd!Delta
  <2> QED BY <2>1, <2>2, <2>3
<1>4. \A u \in Users \ {from, to} : g[u] = f[u] BY <1>1, <1>2, <1>3
<1>5. from = to => g[from] = f[from] BY <1>1, <1>2, <1>3
<1>6. from # to => g[from] = f[from] - n /\ g[to] = f[to] + n BY <1>1, <1>2, <1>3
<1>7. IsFiniteSet(Users) BY TradeFacts
<1> HIDE DEF f, g, n, to, from
<1>8. SumFunctionOnSet(g, Users) = SumFunctionOnSet(f, Users)
  BY <1>1, <1>2, <1>4, <1>5, <1>6, <1>7, SumMove
<1> QED BY <1>8 DEF f, g

LEMMA ConservedKept == TradeInv /\ Conserved /\ [Next]_allVars => Conserved'
<1> SUFFICES ASSUME TradeInv, Conserved, [Next]_allVars PROVE Conserved' OBVIOUS
<1>1. (\E r \in TradeCalls : Trd!CommitTrade(r)) \/ balance' = balance
  BY DEF Next, DedupStep, WorkersStep, TradesStep, allVars, tradeVars, Trd!Run, Trd!Loop,
     Trd!LockRow, Trd!FailTrade
<1>2. CASE \E r \in TradeCalls : Trd!CommitTrade(r)
  <2>1. PICK r \in TradeCalls : Trd!CommitTrade(r) BY <1>2
  <2>2. \A a \in Trd!Assets :
           SumFunctionOnSet(Held(a)', Users) = SumFunctionOnSet(Held(a), Users)
    BY <2>1, CommitConserves
  <2>3. Trd!Assets' = Trd!Assets BY DEF Trd!Assets
  <2> QED BY <2>2, <2>3 DEF Conserved
<1>3. CASE balance' = balance BY <1>3 DEF Conserved, Held
<1> QED BY <1>1, <1>2, <1>3

\* No balance becomes negative and nothing is created or lost, for any number of
\* concurrent matchTrades calls over any orders: executeTrade's FOR UPDATE keeps
\* a checked balance until the trade commits.
THEOREM TradesBalance == Spec => []NoOverdraft
<1>1. Init => TradeInv /\ Conserved
  <2>1. Init => TradeInv BY TradeInit DEF Init
  <2>2. Init => balance = Deposits BY DEF Init, Trd!Init
  <2> QED BY <2>1, <2>2 DEF Conserved, Held
<1>2. TradeInv /\ Conserved /\ [Next]_allVars => (TradeInv /\ Conserved)'
  BY TradeKeepsInv, ConservedKept
<1>3. TradeInv /\ Conserved => NoOverdraft
  BY TradeSums DEF TradeInv, NoDebts, Conserved, Held, NoOverdraft, Trd!NoOverdraft
<1> QED BY <1>1, <1>2, <1>3, PTL DEF Spec

\* Every component's state stays within its types.
THEOREM ProgressTyped == Spec => []TypeOK
<1>1. Init => DedupInv /\ PoolInv /\ TradeInv BY DedupInit, PoolInit, TradeInit DEF Init
<1>2. DedupInv /\ PoolInv /\ TradeInv /\ [Next]_allVars => (DedupInv /\ PoolInv /\ TradeInv)'
  BY DedupKeepsInv, PoolKeepsInv, TradeKeepsInv
<1>3. DedupInv /\ PoolInv /\ TradeInv => TypeOK
  BY DEF DedupInv, PoolInv, TradeInv, TradeTypes, TypeOK, Trd!TypeOK
<1> QED BY <1>1, <1>2, <1>3, PTL DEF Spec
=============================================================================
