------------------------------ MODULE Progress ------------------------------
(***************************************************************************)
(* The services that promise progress, with the fairness each needs.  They *)
(* share neither state nor calls, so a behaviour belongs to one of them:   *)
(* `service' says which, and the variables of the others stay as they are  *)
(* at the start.                                                           *)
(***************************************************************************)
EXTENDS Integers, Sequences, FiniteSets

CONSTANTS
    DedupCalls, NoCall,                                       \* RequestDedup
    Tasks, WorkerCount,                                       \* WorkerPool
    TradeCalls, Users, Asset, OrderIds, Bids, Asks, Deposits  \* TradeMatching

TradeOrder == [id : OrderIds, user : Users, price : Nat, amount : Nat]

ASSUME DedupAssumption == NoCall \notin DedupCalls

ASSUME WorkersAssumption == WorkerCount \in Nat \ {0}

ASSUME TradesAssumption ==
    /\ IsFiniteSet(Users) /\ Asset # "USD"
    /\ \A r \in TradeCalls : Bids[r] \in Seq(TradeOrder) /\ Asks[r] \in Seq(TradeOrder)
    /\ Deposits \in [Users -> [{Asset, "USD"} -> Nat]]

VARIABLES
    service,
    entry, call, joined, promise, timer, watched, up,            \* RequestDedup
    available, queue, callbacks, inWork, answered, phase,        \* WorkerPool
    balance, remaining, bidIndex, askIndex, left, step, locks    \* TradeMatching

dedupVars   == <<entry, call, joined, promise, timer, watched, up>>
workerVars  == <<available, queue, callbacks, inWork, answered, phase>>
tradeVars   == <<balance, remaining, bidIndex, askIndex, left, step, locks>>
allVars     == <<service, dedupVars, workerVars, tradeVars>>
-----------------------------------------------------------------------------
Ded == INSTANCE RequestDedup WITH Calls <- DedupCalls
Wrk == INSTANCE WorkerPool
Trd == INSTANCE TradeMatching WITH Runs <- TradeCalls

Init == /\ service \in {"dedup", "workers", "trades"}
        /\ Ded!Init /\ Wrk!Init /\ Trd!Init

DedupStep     == service = "dedup"   /\ Ded!Next   /\ UNCHANGED <<service, workerVars, tradeVars>>
WorkersStep   == service = "workers" /\ Wrk!Next   /\ UNCHANGED <<service, dedupVars, tradeVars>>
TradesStep(r) == service = "trades"  /\ Trd!Run(r) /\ UNCHANGED <<service, dedupVars, workerVars>>

Next == DedupStep \/ WorkersStep \/ \E r \in TradeCalls : TradesStep(r)

\* No timer and no worker runs at the start, so the first two conditions say
\* nothing about the behaviours of other services.
Fairness == Ded!Fairness /\ Wrk!Fairness /\ \A r \in TradeCalls : WF_allVars(TradesStep(r))

Spec == Init /\ [][Next]_allVars /\ Fairness
-----------------------------------------------------------------------------
\* Everything the three services keep holds what its type allows.
TypeOK == Ded!TypeOK /\ Wrk!TypeOK /\ Trd!TypeOK

\* request-deduplication.service.ts: see RequestDedup.
EntriesAreLive  == Ded!EntriesAreLive
\* The same.
JoinersAnswered == Ded!JoinersAnswered
\* matching-worker-pool.service.ts: see WorkerPool.
QueueIsServed   == Wrk!QueueIsServed
\* The same.
TasksAnswered   == Wrk!TasksAnswered
\* machine-engine.service.ts: see TradeMatching.
NoOverdraft     == Trd!NoOverdraft
\* The same.
RunsEnd         == service = "trades" => Trd!RunsEnd
=============================================================================
