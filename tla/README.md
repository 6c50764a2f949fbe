# SwapTrade backend: TLA+ models and proofs

This directory specifies the concurrent core of the SwapTrade backend (the NestJS
application under `src/src`), model-checks it with TLC and proves its main safety
properties with TLAPS. Paths below are relative to `src/src` unless they say
otherwise.

## 1. The system

The backend is one Node.js process (or several behind Redis) over a SQL database.
JavaScript runs to completion: a handler is atomic between two `await`s, and
everything else interleaves. State lives in three places: database rows (TypeORM),
Bull queues in Redis, and plain maps in the memory of a service. Almost all that
can go wrong lies between them: a row is read, something is awaited and the row is
saved; a map changes and the transaction that goes with it is rolled back; a
process stops between a commit and its acknowledgement.

| component | state | operations | correct when |
|---|---|---|---|
| matching engine core `trading/matching-engine/core` | per asset: price levels of resting orders, stop queue, boolean lock; Order objects shared with the callers | submitOrder, cancelOrder, checkStopOrders | book uncrossed, price-time priority, book and orders agree, quantities conserved, limits kept, closed orders final, calls return |
| swap settlement `swap/swap-settlement.service.ts`, `swap-batch.processor.ts` | `swap_history`, `user_balance`; Bull's attempts | processSingleSwap, processBatchSwap (best effort, atomic), settle, rollback, onFailed | no overdraft, no lost update, each swap exchanged once, batches whole, COMPLETED only after the exchange, jobs end |
| swap pricing `swap/swap-pricing.service.ts` | pools in memory | findOptimalRoute, executeAmmSwap | shortest route (the amounts are floating-point: not modelled) |
| advanced matching service | `order_book` rows beside the engine's memory | submit, cancel, event handlers, reload at start | a closed row is right and final, through crashes and unordered writes |
| matching worker pool | workers, task queue | submit, answer, shutdown | queued tasks are served, tasks are answered |
| multisig escrow `trading/multisig-wallet.service.ts` | escrow, approval and audit rows | submitApproval, executeEscrow | nothing is released without its approvals |
| auctions `bidding` | auction and bid rows, interval timers, reservations | bid, extend, tick, cancel, settle, restart | the row names the highest bid, reservations follow the bids |
| governance | proposal, vote and stake rows | vote, tally, execute, update, cancel | one vote per user, an outcome has its quorum and majority |
| trade matching `trading/machine-engine.service.ts` | balances and orders under row locks | matchTrades, executeTrade | no overdraft, nothing created or lost, calls end |
| saga `common/services/saga.service.ts` | progress of one saga | executeSaga, executeParallelSteps, compensate | a failed saga has undone what it has seen done, in reverse, once |
| request deduplication `edge` | one pending entry per key, its promise and timer | deduplicate, waitForRequest, cancelRequest, clear, clean-up | an entry can be answered, those who joined are while the process lives |
| message ordering `queue/message-ordering.service.ts` | partitions and their sequence numbers | add, next, mark, remove, clear, configure | numbers follow arrival, hand-out follows numbers |
| websocket connection pool | two maps, connections and rooms | add, remove, join, leave, clean-up | the maps agree |
| quantum keys | key rows | sign, exchange, rotate, revoke | retired keys are replaced, active ones have uses left |
| insurance fund | fund, claim and contribution rows | deposit, withdraw, refill, submit, approve, pay, ... | see Not modelled |
| table order book, AMM, executeSwap, options | rows read and saved without locks | match, trade, swap, expire | see Not modelled |

The engine talks to its callers by return values and by events (`match`,
`orderFilled`, ...), on which the advanced service hangs database writes;
`AdvancedMatching` composes the two. Settlement is reached only through Bull jobs and
talks to the rest through its two tables and the pricing service's pools. The other
services share no state and do not call each other. Several of them have modules
that `app.module.ts` does not import (matching, worker pool, insurance, bidding,
edge, queue); they are modelled as what they are, services with a public interface.

Hard behaviours: a polled, unfair lock (engine); row locks taken in opposite
orders, statements on a second connection while the first holds the row, retries
inside a broken transaction, redelivery after a crash, listeners nobody awaits
(settlement, trade matching); unawaited or stale row writes (advanced service,
escrow, auctions, governance, keys); nested transactions that commit on their own (auctions); timers that race with answers
(deduplication, saga, auctions). `PROJECT.json` lists them one by one under
`hazards`, with the properties that cover them or the reason why none does.

The remaining parts (market data, surveillance, analytics, portfolio, risk,
price prediction, notification, caching, logging, compliance, social trading,
tutorial, ...) are request handlers over independent rows, numeric heuristics or
input and output; `PROJECT.json` gives the reason for each one.
`settlement/` refers to files that are not at the paths it imports, and is left out.

## 2. Plan and order of the work

What moves money under concurrency came first: `MatchingEngine`, then
`SwapSettlement`, with the abstract `Exchange` and `SwapLedger` that they implement. On them followed
`AdvancedMatching` (extends `MatchingEngine` by the rows, the unawaited writes, crash
and reload), the services whose calls read, await and save rows (`EscrowApproval`,
`Governance`, `Auction`, `QuantumKeys`), the one that does it under
locks (`TradeMatching`), and the in-memory protocols (`Saga`, `RequestDedup`,
`WorkerPool`, `MessageOrdering`, `ConnectionPool`, `SwapPricing`). `Services` composes the nine services
whose promises are about safety alone (it extends `AdvancedMatching` and instantiates the other
eight), `Progress` the three that promise progress; `MCServices` and `MCProgress` give them small instances.

Left, in this order: creation of balance rows in `SwapSettlement`; a ledger with atomic batches, whose refunds `SwapLedger` does not have.

## 3. The models

### MatchingEngine.tla and Exchange.tla

One asset, since books, stop queues and locks of different assets share nothing.

| code | model |
|---|---|
| Order objects | `order` |
| buyLevels, sellLevels, their FIFO arrays | `levels[side][price]`; the sorted price arrays are derived (`IsBest`) because both are changed together |
| totalQuantity of a level | `total` |
| processingLock | `lock`; a caller that found it taken is `"polling"` |
| a promise of submitOrder / cancelOrder | `pc[o]`, `cancelPc[o]` |
| stopOrders, in arrival order | orders with `pc = "stop"`, ordered by `arrival` |
| `match` events | `matches` |

`SubmitOrder` is validation plus the first test of the lock; `PollSubmit` is a later
test; `ExecuteMatch` is one iteration of a matching loop with everything
executeMatch does; `RestLimitOrder` and `EndMarketOrder` are what follows the
loops; `CheckStopOrders` and `ResubmitTriggered` are the two sides of the awaits in
checkStopOrders (`batch[o]` is what the call that took `o` took with it: calls may overlap, each
with a batch of its own); `RequestCancel`, `PollCancel` and `CancelOrder` are cancelOrder.
Between lock and release the code never awaits, so `running` lets nothing else move
during a matching loop: the loop's states are visible to the invariants and not to
other calls. Not modelled: wall-clock timestamps and statistics, EXPIRED (the engine
never sets it), and an order id submitted twice.

`Exchange` is what the engine promises to those who trade, without calls, lock, levels or stop
orders: an order arrives, trades with whoever nobody stands before, at the price of the one who
waited and as much as both still want, then rests behind all that are not worse, or leaves; a resting one may be
withdrawn. The queue is a relation, `ahead`. Whether the rest of an order waits is left
open, which is the freedom IOC, FOK and market orders use. `ImplementsExchange` maps
`phase` to the place of the call and the book (`PhaseOf`; a stop order comes in when it is
resubmitted), `left` to what remains of an order, and `ahead` to `Before`, price and then position in the level.

### SwapSettlement.tla and SwapLedger.tla

A thread is one sequence of awaits: a single job, a branch of a best-effort batch
(`Promise.allSettled`), or an atomic batch. The database is external and modelled
from the calls made to it: row locks until the end of a transaction
(`pessimistic_write` and every write), own writes visible, a failed statement
poisons the transaction, a deadlock is broken by an error to one of its members, and
lock waits time out iff `LockTimeout`. `app.module.ts` configures SQLite, but the
locks and column types of these services are those of a server database, so that
is what is modelled. `work[t]` is the open transaction, `pc[t]` the place in the handler.
`hook` counts the `onFailed` listeners still to run, which nobody awaits.

Assumptions and abstractions: balance rows exist; a swap is named in one job; the
producers of the jobs are not in the repository, so jobs exist from the start; what
the pool pays is any member of `AmountsOut`; `Rollback` takes the swap row and the
balance row in one step (no other transaction ever wants that swap row). Delays of
the back-off are left out: any order of steps is possible. The counters `settled`, `paid`
and `refunded` are history variables: nothing in the model's guards reads them.

`SwapLedger` is what settlement promises, without jobs, locks or transactions: at
each step a set of swaps is exchanged at once, each for the first and only time,
and no account is overdrawn. `ImplementsLedger` maps `settled` to the swaps
committed at least once.

### Services that read, await and save

`EscrowApproval`, `Governance` and `QuantumKeys` have one shape: `pc[c]` is
the await a call is at, `held[c]` the row it has in memory, and a save overwrites the
row with it. TypeORM's `save` reads the row again and updates the columns that
differ, in two statements; the model's save is the outcome of both, and the window
between them is left out. A process that stops is a call that takes no further step, so
no crash action is needed. What the models let happen, because the code does:

- *EscrowApproval*: a stale save takes APPROVED back; two `executeEscrow` calls release
  twice; two audit entries name the same predecessor. What holds, and is proved, is
  that no release comes before the signers' approvals.
- *Governance*: a stale save revives an old status; a proposal is executed twice, or
  tallied after its execution; `UpdateGovernanceProposalDto` lets an update write any
  status, which `Overridden` excepts.
- *QuantumKeys*: a stale save undoes a revocation or loses uses; rotating a
  COMPROMISED key makes it ROTATED. The two cron jobs select nothing: their `$lte`
  filters mean nothing to TypeORM's SQL drivers.

### AdvancedMatching.tla

The engine's actions with `row`, `persisted` (between persistOrder and the engine),
`writes` (updates that handlers started and nobody awaits: carried out in any order,
or failed and logged) and `Restart` between two turns, after which `LoadOrder` submits
the PENDING rows as GTC limit orders before the service listens again. Maker partial
fills are never written, so an order that was partly filled before the restart
is loaded, and can trade, with its whole amount. handleMatch writes trade rows
that nothing reads and is left out. Nothing calls checkStopOrders.

### Auction.tla

placeBid and settleAuction lock the auction row. placeBid is one action, and so is a settlement with a winner: row and
funds change in one transaction. Without a winner the funds are released by a transaction of their own
(`auction.service.ts:205`, `:302`), which commits while the outer one still holds the row: `ReleaseUnsold` and then
`CloseUnsold`, with `LeaveUnsettled` where the outer one fails or the process stops, which leaves funds released and
the auction unsettled. releaseFunds may fail for any of the users, which is only logged: `Release` picks those it
succeeds for. Everything else decides on an unlocked read and writes after an await: `decided` holds those
writes, numbered per kind (`MaxPending` bounds them). A cleared interval may have a tick
begun (`timer = "last"`), so two ticks may end and settle the same auction. Modelled as the code has it: each
cancelAuction releases the funds again (`MaxReleases` bounds the cancellations); an auction that ended during a restart is
marked ENDED and never settled; a late extension reopens a settled auction; and the filter that should
except the winner from the refund compares a number with a string
(`auction.service.ts:277`), so that the winner's reservation is released as well. `FundsFollowBids` therefore
speaks of the reservations before the first release and right after it: a user has then what its last bid
reserved, or nothing.
External are the balance service, which is not in the repository (reserveFunds and releaseFunds add and subtract), and the
bid table: `bid.entity.ts` has no `auctionId`, `status` or `reservedAmount`, and the table is taken as the queries use it.

### TradeMatching.tla

Each `matchTrades` call has its own sorted arrays; `executeTrade` is a transaction that
locks the rows in `Needs` in that order and keeps them until `CommitTrade` or `FailTrade`;
any statement and the commit may fail (deadlock, lock timeout, connection), which fails the trade.
Balance rows exist. Two calls over the same orders fill them twice, as `remaining_amount` is
decremented and never tested; a failed trade skips both orders.

### The in-memory protocols

- *Saga*: a timed-out action or compensation goes on and may take effect later
  (`EndWork`, `LateUndo`): `FailedSagaIsUndone` speaks of what the saga has seen.
- *RequestDedup*: one key. An executor may never end, in which case its owner is
  never answered while those that joined it are; a late `finally` deletes a newer entry. The owner does not await its own
  promise: a rejection before anybody has joined it, or waits for it by `waitForRequest`, is unhandled, and Node ends the
  process (`Reject`, `up`). `JoinersAnswered` promises an answer while the process lives.
- *WorkerPool*: the worker returned is always worker 0 (`Returned`), so it is handed out while
  busy; new tasks overtake the queue; shutdown gives up after five seconds with promises unsettled.
- *MessageOrdering*: one partition; the methods are synchronous and called in any order; `UpdateConfig` switches ordering off and on.
- *ConnectionPool*: `roomCount` drifts below the number of rooms (leaving a room
  never joined counts down); `MinCount` bounds that, the rest is exact.
- *SwapPricing*: the route search, one dequeued path per step, neighbours in any order. A route from an asset
  to itself is a round trip. A quote over several hops cannot be executed, as executeAmmSwap demands a direct pool.

In `Services` and `Progress` the variable `service` picks the service a behaviour
belongs to and never changes; the others keep their initial state. That is the sum
of the services' state spaces, not their product, in one run.

## 4. The runs

| run | instance | states | shows |
|---|---|---|---|
| `engine_book` | 3 orders of 11 bodies, 2 prices | 1162959 | book uncrossed, agrees with orders, quantities equal trades, limits, priority, finality |
| `engine_stops` | 3 orders, 6 bodies, 4 of them stops | 380298 | stop batches, also overlapping ones, run in turn, implements `Exchange` |
| `engine_live` | 3 orders, one price, `FairSpec` | 167264 | every call returns |
| `engine_tif` | as `engine_book` | stops at the violation | finding: time in force |
| `swap_effort` | single job beside a best-effort batch of two, 2 retries, 3 attempts | 80743 | no overdraft, implements `SwapLedger` |
| `swap_atomic` | single job beside an atomic batch of two, `FairSpec` | 50732 | settled at most once without crash, jobs end |
| `swap_crash` | the same with one crash | 73474 | balances add up, no overdraft, batches whole, COMPLETED is settled |
| `swap_refund` | single and atomic job | stops at the violation | finding: refund of what was never taken |
| `swap_again` | one single job, one crash | stops at the violation | finding: a second exchange |
| `swap_retry` | one single job, no lock timeout, `FairSpec` | stops at the violation | finding: settlement waits for itself |
| `services` | nine services side by side, instances in `MCServices` | 923283 | each keeps its promise, see section 3 |
| `progress` | deduplication, worker pool, trade matching, with fairness | 11715 | joined calls answered, queue served, tasks answered, no overdraft, calls end |

Why the bounds are enough. Three orders let two rest at one price (FIFO), at two
prices (price priority), and be swept by the third with a partial fill; quantities
1 and 2 give exact, partial and multi-level fills; every time in force, market
orders and an invalid body are among the bodies; cancels race all of them. Two
accounts and swaps in both directions give opposite lock orders, hence deadlock; the
starting balance covers some swaps only, hence refusal; two retries and three
attempts exhaust both counters; one crash at any point gives every prefix. In
`engine_*` each order and each cancel is used once and the system then stops; in
`swap_*` it stops when all jobs have ended: deadlock checking is off for that reason.
Symmetry over order ids is used in the safety runs only.

`services`: escrow, three approvals of two signers (one of them twice, so that the
unique index refuses one) beside an execution; matching, two orders of six bodies
and a crash at any point; governance, two votes of one user beside another's, a
tally, an execution and an update; auction, two bidders, a reserve price, one
extension, one restart, two overlapping ends (`MaxNow`, `MaxBids`, `MaxRestarts`, `MaxPending`), cancellations that begin before
the first release of funds (`MaxReleases`), each of which may come after, or be followed by, a settlement's release;
keys, five calls of four kinds on a key with two uses (`MaxKeys`); saga, three steps in both modes with every choice of compensations;
ordering, four additions of two ids (`MaxAdded`); connections, three sockets of a user who
may have one; pricing, three tables of pools, among them the service's own, every
pair of assets, routes up to four hops and beyond.
`progress`: four calls of one key; four tasks for two workers; three
matchTrades calls that share users and orders with too little money for all
trades. These systems stop when their calls are over, so deadlock checking is off.

### Fairness

`engine_live`: weak fairness of each order's own steps, which are promise
continuations and `setTimeout` callbacks; submitting, cancelling and calling
checkStopOrders are not fair. The lock is polled, not queued: with endlessly many
other calls a caller could find it taken each time it looks. `CallsReturn` therefore says
that calls return when finitely many compete, which is what the finite instance is.
`swap_atomic`, `swap_retry`: weak fairness of each thread's steps and of its
listeners: the event loop runs what the database has answered and Bull runs what it
has queued. A crash is never fair.
`progress`: weak fairness of a deduplication timer (Node fires it), of a
worker's answer (the mock worker answers each task), and of each matchTrades call's steps (the
database answers or refuses each statement). Executors, cancellations, submissions and the shutdown are not fair.

### Findings

- `engine_tif`: an IOC order without a match rests in the book; a FOK order that
  cannot be filled keeps its partial trades (`matching-engine.ts:93-98`, against the
  engine's README lines 17-18 and its own test).
- `swap_refund`: after a failed atomic batch, a second transaction credits amounts the database
  has already restored (`swap-batch.processor.ts:152`).
- `swap_again`: redelivery after a crash overwrites COMPLETED with PROCESSING before
  the terminal-state test (`swap-batch.processor.ts:77`).
- `swap_retry`: RETRYING is written on another connection while this one holds the
  row (`swap-settlement.service.ts:74`); without a lock timeout settle never returns.

Met while modelling and visible in the definitions, without runs of their own: a
market order without liquidity is set REJECTED and then overwritten with PARTIAL
(`matching-engine.ts:147`); a partly filled IOC order ends CANCELLED after its first
match although more could match (`:82`); a level's total is not reduced by partial
fills because the order was reduced before (`order-book-level.ts:57`); callers get the
lock in no particular order (`:330`), so arrival order is kept from the moment an order
rests and not from submission; `onFailed` may overwrite the status of a swap that a
retry has settled (`swap-batch.processor.ts:220`); a winner's reservation is released with the losers', against
the comments at `auction.service.ts:183` and `:190`, because `:277` compares a number with a string; a request
whose executor throws, or whose timer fires, before another call has joined it ends the process
(`request-deduplication.service.ts:85`, `:119`), as nothing handles unhandled rejections.

## 5. The proofs

The theorems hold for every value of the constants that satisfies the named
assumptions: any orders, prices, bodies; any swaps, accounts, jobs, retry and crash
bounds, with and without lock timeouts; any calls, voters, bidders, keys, sockets,
assets, tasks. No liveness, no fairness is used. Every invariant of a passing run is
stated by a theorem, and so are the action properties and both refinements.

**Engine** (`MatchingEngineProofs`). `BookUncrossed` is not inductive: a resting order is placed after the
loop found nothing to match, which means something only if the order in the loop
is valid and does not rest itself, and a match is within limits only if the resting
order's recorded price is the level's. `IInv` therefore joins the types, the
agreement of book and orders (`RestingAreOpen`, `RestingOnce`, `OpenAreResting`),
conservation of quantities, validity of what is in flight, that unfinished orders
are PENDING, and that only orders whose turn has begun occur in matches. Each
action has a lemma for each part it can disturb; the lemmas on the book operations (add, remove at a
position, update) come first. Proved: `TypeCorrect`, `NeverCrossed`, `BookAgrees`,
`TradesWithinLimits`, `Priority`, `ClosedStaysClosed`, `StopsInOrder`, `QuantityConserved`, and
`FillsAccounted`: what an order has filled is the sum of the matches that name it.

`ExchangeImplemented`: every step of the engine is one of `Exchange` or a stutter. It rests on `IInv` and on
`StopsAreWhole` (nothing of a waiting stop order has been traded, so that it arrives whole), and on lemmas
about the queue, stated over the levels of either state of a step (`Precedes`): the first order of the best level has nobody before it
(`HeadIsInFront`), removing an order removes its pairs only (`RemoveFromQueue`), and pushing one to the end of its
level puts it behind all that are not worse and before the rest (`AddToQueue`). `OpponentsAre` and
`NobodyLeft` turn findMatch's look at one level into the exchange's look at everybody. Each action then has a lemma
(`ComesIn`, `Trades`, `Rests`, `Leaves`, `Withdraws`).

**Settlement** (`SwapSettlementProofs`). `IInv` says of each thread: its locks are those the place in the
handler implies; the swaps exchanged in the open transaction are exactly those
before the current one; the balances it would commit are covered; a COMPLETED in the
transaction is in its list of exchanges; retries stay within bounds; and of the
database: no committed balance is negative, COMPLETED is settled, batches are whole.
`RowsExclusive` turns these into facts about other threads: a commit of one cannot
change a row another holds. Proved: `Invariance`, `TypeCorrect`,
`NeverOverdrawn`, `BatchesWhole`, `CompletedMeansSettled`, and, assuming
`MaxCrashes = 0`, `SettledOnce`: by a second invariant (a settled swap's thread has
ended its job or never opens another exchange) over the first. With crashes it is
false, as `swap_again` shows.

**The money of the settlement** (`SwapLedgerProofs`). `NothingLost` is about every account at once and about
every thread: a commit replaces rows by what the transaction computed some awaits ago. `LedgerInv`
adds to `IInv` that an open transaction's balances are the table's plus what it moved
itself, and that it holds the row of every account it moved (`Backed`), so that adding its moves to the sums
of what was committed is what the commit does; `UndoInOrder` says that a rollback refunds each swap once.
`LedgerImplemented`: every step is an exchange of `SwapLedger` or a stutter, assuming no crash and no atomic batch.
Both assumptions are needed: redelivery settles a swap a second time (`swap_again`), and the refund of a
failed batch gives what the ledger never takes (`swap_refund`).

**Advanced matching** (`AdvancedMatchingProofs`). What a row says was true when its update was decided; it must still be
true when the update arrives, maybe after later updates or a restart. `RowInv` over the engine's `IInv`: an update on
its way says of an order what the engine says, and that order is finished (`UpdatesAreTrue`, from the engine's finality);
a closed row agrees with the engine, or the engine of this incarnation does not know the order (`ClosedRowsAreTrue`);
the engine is given whole orders of PENDING rows it does not know (`EngineHasRows`, `OnTheirWay`), from one
source at a time. The engine's lemmas are used as they are, since each action of the service is one of the engine's with rows.
Proved: `ServiceInvariance`, `RowsAreTrue`.

**Services that read, await and save** (`RowServicesProofs`). Each has one invariant that says of every row a call
holds in memory what the property says of the table, since a stale save makes it the table's row.
- `EscrowInv`: every row read or held that says APPROVED was read when enough signers
  had approved, and there are as many signers as approval rows (`EscrowReleaseIsBacked`).
- `KeysInv`: the same of keys, with the successor a rotation has generated before it holds a ROTATED row (`KeysAreReplaced`).
- `GovernanceInv`: a passing status, in the table or held, means that some subset of the votes cast has quorum and majority;
  the sums a tally holds are those of some subset of the votes, namely those it read (`ProposalOutcomeIsBacked`).
- `AuctionInv`: bids rise, so that a bidder's highest bid is its last; it has reserved that until funds are released; the row
  names the last bid; and late writes touch only status and end (`AuctionFundsFollowBids`).

`ServicesTypes` closes the module: the invariants of all nine services together, with the counters' ranges, keep every variable typed.

**In-memory services** (`MemoryServicesProofs`). `SocketsInv`: the two maps and the per-user limit, by the cardinality
of the sockets of a user (`PoolRoomsMatch`). `OrderingInv`: numbers ascend along the partition and none
exceeds the counter, clearing and deletion included (`MessagesInOrder`, `MessagesHandedOutInOrder`). `SagaInv`: what the saga has
seen agrees with the work wherever it is not a time-out, the steps above the current one are undone, and the
compensations begun descend (`SagaIsUndone`).
`RoutesAreShortest` is the correctness of breadth-first search as written, with its `visited` set filled on enqueueing and the
hop limit tested on extension: `RouteInv` says that for some depth *d* the queue holds paths of *d* assets, then
of *d* + 1, that the assets within *d* - 1 hops have all been visited, and that what they lead to is visited, queued or beyond
the limit (`Depth`). The reference it is compared with is the table of assets reachable in exactly *n* hops.

**Services that promise progress** (`ProgressProofs`). `DedupInv`: an open promise belongs to an executing call with its timer
(`DedupEntriesAreLive`). `PoolInv`: a queue implies a callback, and a callback a worker,
whoever is returned as free (`PoolQueueIsServed`). `TradeInv`: rows are locked by one transaction at a time, and whoever holds the
row of a checked balance can pay from it (`TradesBalance`). `ProgressTyped` types all three.

**Lemmas on operators** (`OperatorLemmas`). Sums over finite sets (`SumFunctionOnSet`) and greatest elements are folds and CHOOSEs of
the community modules. The induction theorems of the library cannot be instantiated by the installed provers, so
their properties are proved by a smallest counterexample, from the well-foundedness of the strict subset ordering and of <: a table of
the partial sums exists, two tables agree, and the sum of a set is that of the set without one element plus that element's value. From these follow
the lemmas on equal, added, changed and moved summands that the proofs cite.

Only model-checked: `CallsReturn`, `JobsEnd`, `JoinersAnswered`, `TasksAnswered` and `RunsEnd`, as liveness
under fairness is out of the prover's reach; and the four findings, which are counterexamples.

## 6. Not modelled

- `swap.service.ts` executeSwap, `trading/service/order-book.service.ts`,
  `trading/service/amm.service.ts`, `options/options.service.ts`: rows are read, changed in memory and
  saved without row locks (executeSwap within a transaction, which under READ COMMITTED
  does not help). Two calls lose an update or fill a row twice at the first interleaving, so that nothing
  they promise holds and only the absence of a guarantee could be stated.
- The insurance fund: balances are read, awaited and saved without locks; withdrawFromFund tests no sign
  (`insurance-fund.service.ts:119`), triggerAutoRefill sets a balance to its target with nothing put in
  (`fund-health-monitoring.service.ts:225`), claims are tested by a `coverageAmount` for which
  `insurance-claim.entity.ts` has no column, `insurance-contribution.service.ts` assigns statuses that its enum does
  not have, and decimals that come back as strings are compared, and added, as strings. No bound of a balance holds.
- executeAmmSwap of `swap-pricing.service.ts`: the reserves are doubles rounded to nearest, so a swap may lower a
  pool's product, and the model checker and the provers have no floating-point arithmetic.
- `swap-saga.service.ts`: settles its legs in one transaction and rolls each
  back again, the protocol of the atomic batch in `SwapSettlement`, with the same double credit.
- `queue/zero-loss-message.service.ts`, the dead-letter and failover services: time-outs to which nothing
  reacts, and Bull, whose redelivery is in `SwapSettlement`.
- `common/services/bulkhead.service.ts`, `circuit-breaker.service.ts`: statistics around the external p-limit; a counter and a clock
  changed within one turn.
- Of modelled services: wallet registration and escrow creation, `createBid` (a bid without an auction),
  cache entries and their failure, statistics, reports, cryptography, quotes and price impact.
- Everything else: the reasons are under `components` in `PROJECT.json`.

## 7. Files

`X.tla` is a component, `MCX.tla` gives its constants values, `MCX_run.cfg` is one run,
`XProofs.tla` its theorems. `Services` and `Progress` compose several components: the theorems about them are in
`RowServicesProofs` and `MemoryServicesProofs`, and in `ProgressProofs`. `SwapLedgerProofs` continues `SwapSettlementProofs`;
`Exchange` and `SwapLedger` are abstract specifications, `OperatorLemmas` is used by most of the proofs. Definitions marked "Mutant" are plausible faults of the code; each
property has one that breaks it (`PROJECT.json`, `mutants`).
