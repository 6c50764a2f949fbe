--------------------------- MODULE MatchingEngine ---------------------------
(***************************************************************************)
(* The in-memory matching engine of one asset:                             *)
(* core/matching-engine.ts over core/order-book.ts and order-book-level.ts *)
(* Books, stop queues and locks of different assets share nothing, so one  *)
(* asset stands for all of them.                                           *)
(*                                                                         *)
(* JavaScript runs to completion: between taking processingLock and        *)
(* releasing it a request never awaits, so its matching loop is one turn   *)
(* of the event loop.  The loop is modelled one match at a time; `running' *)
(* names the order whose turn it is, and nothing else moves until it ends. *)
(*                                                                         *)
(* Quantities and prices are whole units; an absent price is NoPrice,      *)
(* which is falsy like `undefined' in the source's `!order.price'.         *)
(***************************************************************************)
EXTENDS Integers, Sequences, FiniteSets, SequencesExt

CONSTANTS
    Orders,       \* order ids callers may use, each submitted at most once
    MaxPrice,     \* the largest price the validator lets through
    Prices,       \* the prices and stop prices in use
    Requests,     \* the order bodies callers submit
    Nobody        \* the value of `running' between turns

NoPrice == 0
Sides   == {"BUY", "SELL"}
Types   == {"LIMIT", "MARKET", "STOP_LIMIT", "STOP_MARKET"}
Tifs    == {"GTC", "IOC", "FOK", "DAY"}
Status  == {"PENDING", "PARTIAL", "FILLED", "CANCELLED", "REJECTED", "EXPIRED"}

Request == [side: Sides, type: Types, price: Prices \cup {NoPrice},
            stop: Prices \cup {NoPrice}, qty: Nat, tif: Tifs]

ASSUME PricesAssumption   == MaxPrice \in Nat /\ Prices \subseteq 1..MaxPrice
ASSUME RequestsAssumption ==
    /\ Requests \subseteq Request
    /\ \A r \in Requests : r.type \in {"LIMIT", "MARKET"} => r.stop = NoPrice
ASSUME NobodyAssumption   == Nobody \notin Orders

OrderRec == [side: Sides, type: Types, price: Prices \cup {NoPrice},
             stop: Prices \cup {NoPrice}, qty: Nat, tif: Tifs,
             remaining: Nat, filled: Nat, status: Status]

\* Progress of a submitOrder or cancelOrder call.  "stop": queued in stopOrders;
\* "triggered": taken off that queue by checkStopOrders, not resubmitted yet.
SubmitPc == {"new", "polling", "locked", "stop", "triggered", "thrown", "done"}
CancelPc == {"none", "polling", "locked", "done"}

VARIABLES
    order,       \* the Order objects
    levels,      \* buyLevels and sellLevels: the FIFO of order ids at a price
    total,       \* totalQuantity of each level
    lock,        \* processingLock of the asset
    running,     \* the order whose matching turn is in progress
    pc,          \* progress of each submitOrder call
    cancelPc,    \* progress of each cancelOrder call
    arrival,     \* the turn of the clock at which submitOrder was called
    clock,       \* number of submitOrder calls so far
    batch,       \* triggeredOrders of the checkStopOrders call that took an order
    matches      \* the 'match' events emitted, in order

bookVars   == <<levels, total>>
callVars   == <<pc, cancelPc, arrival, clock, batch>>
vars       == <<order, levels, total, lock, running, pc, cancelPc, arrival,
                clock, batch, matches>>

Match == [buy: Orders, sell: Orders, price: Nat, qty: Nat]

NewOrder(r) ==
    [side |-> r.side, type |-> r.type, price |-> r.price, stop |-> r.stop,
     qty |-> r.qty, tif |-> r.tif, remaining |-> r.qty, filled |-> 0,
     status |-> "PENDING"]

\* What an order object holds before anyone submitted it.
BlankOrder == NewOrder([side |-> "BUY", type |-> "MARKET", price |-> NoPrice,
                        stop |-> NoPrice, qty |-> 0, tif |-> "GTC"])

Opposite(s) == IF s = "BUY" THEN "SELL" ELSE "BUY"

Init ==
    /\ order    = [o \in Orders |-> BlankOrder]
    /\ levels   = [s \in Sides |-> [p \in Prices |-> <<>>]]
    /\ total    = [s \in Sides |-> [p \in Prices |-> 0]]
    /\ lock     = FALSE
    /\ running  = Nobody
    /\ pc       = [o \in Orders |-> "new"]
    /\ cancelPc = [o \in Orders |-> "none"]
    /\ arrival  = [o \in Orders |-> 0]
    /\ clock    = 0
    /\ batch    = [o \in Orders |-> {}]
    /\ matches  = <<>>

-----------------------------------------------------------------------------
(* The order book *)

Occupied(s) == {p \in Prices : levels[s][p] # <<>>}

\* getBestBid / getBestAsk: the first of the sorted price array.
IsBest(s, p) ==
    /\ p \in Occupied(s)
    /\ \A q \in Occupied(s) : IF s = "BUY" THEN q <= p ELSE p <= q

InLevel(s, p, o) == \E i \in 1..Len(levels[s][p]) : levels[s][p][i] = o
InBook(o) == \E s \in Sides, p \in Prices : InLevel(s, p, o)

\* Mutant: unshift instead of push.
AddOrder_InFront(s, p, o) ==
    /\ levels' = [levels EXCEPT ![s][p] = <<o>> \o @]
    /\ total'  = [total EXCEPT ![s][p] = @ + order[o].remaining]

AddOrder(s, p, o) ==
    /\ levels' = [levels EXCEPT ![s][p] = Append(@, o)]
    /\ total'  = [total EXCEPT ![s][p] = @ + order[o].remaining]

\* Mutant: the index of the splice is off by one.
RemoveOrder_OffByOne(s, p, i, left) ==
    LET rest == RemoveAt(levels[s][p], i + 1)
    IN  /\ levels' = [levels EXCEPT ![s][p] = rest]
        /\ total'  = [total EXCEPT ![s][p] = IF rest = <<>> THEN 0 ELSE @ - left]

\* removeOrder of the order at position i, whose remainingQuantity is `left':
\* the level subtracts it, and a level left empty is deleted with its total.
RemoveOrder(s, p, i, left) ==
    LET rest == RemoveAt(levels[s][p], i)
    IN  /\ levels' = [levels EXCEPT ![s][p] = rest]
        /\ total'  = [total EXCEPT ![s][p] = IF rest = <<>> THEN 0 ELSE @ - left]

\* updateOrderQuantity: the level subtracts the difference between the
\* quantity the order object holds and the new one,
UpdateOrderQuantity(s, p, held, new) ==
    /\ total' = [total EXCEPT ![s][p] = @ - (held - new)]
    /\ UNCHANGED levels

\* and the order object takes the new one, its filledQuantity made to fit.
Requantified(rec, new) == [rec EXCEPT !.remaining = new, !.filled = rec.qty - new]

-----------------------------------------------------------------------------
(* Submission and the lock *)

ValidOrder(r) ==
    /\ r.qty > 0
    /\ r.type = "LIMIT" => r.price # NoPrice
    /\ r.type \in {"STOP_LIMIT", "STOP_MARKET"} => r.stop # NoPrice

\* acquireLock called by order o: taken at once if free, else the caller polls.
RequestLock(o) ==
    /\ pc' = [pc EXCEPT ![o] = IF lock THEN "polling" ELSE "locked"]
    /\ lock' = TRUE

SubmitOrder(o, r) ==
    /\ running = Nobody
    /\ pc[o] = "new"
    /\ order' = [order EXCEPT ![o] = NewOrder(r)]
    /\ arrival' = [arrival EXCEPT ![o] = clock + 1]
    /\ clock' = clock + 1
    /\ \/ /\ ~ValidOrder(r)
          /\ pc' = [pc EXCEPT ![o] = "thrown"]
          /\ UNCHANGED lock
       \/ /\ ValidOrder(r)
          /\ r.type \in {"STOP_LIMIT", "STOP_MARKET"}
          /\ pc' = [pc EXCEPT ![o] = "stop"]
          /\ UNCHANGED lock
       \/ /\ ValidOrder(r)
          /\ r.type \in {"LIMIT", "MARKET"}
          /\ RequestLock(o)
    /\ UNCHANGED <<levels, total, running, cancelPc, batch, matches>>

\* One round of acquireLock's polling loop that finds the lock free.
PollSubmit(o) ==
    /\ running = Nobody
    /\ pc[o] = "polling"
    /\ ~lock
    /\ RequestLock(o)
    /\ UNCHANGED <<order, levels, total, running, cancelPc, arrival, clock,
                   batch, matches>>

\* The turn that resumes after acquireLock starts o's matching loop; it goes on
\* until EndTurn.
MyTurn(o) == pc[o] = "locked" /\ running \in {Nobody, o}

\* Mutant: the `finally' that releases the lock is missing.
EndTurn_KeepingLock(o) ==
    /\ running' = Nobody
    /\ lock' = TRUE
    /\ pc' = [pc EXCEPT ![o] = "done"]

EndTurn(o) ==
    /\ running' = Nobody
    /\ lock' = FALSE
    /\ pc' = [pc EXCEPT ![o] = "done"]

StayInTurn(o) ==
    /\ running' = o
    /\ UNCHANGED <<lock, pc>>

-----------------------------------------------------------------------------
(* Matching *)

\* Mutants: equal prices do not cross; the buyer's test used for both sides.
Crosses_Strictly(o, p) ==
    \/ order[o].type = "MARKET"
    \/ IF order[o].side = "BUY" THEN p < order[o].price ELSE p > order[o].price

Crosses_BuyerTest(o, p) == order[o].type = "MARKET" \/ p <= order[o].price

\* findMatch: the opposite side's best price, if o's own price reaches it.
Crosses(o, p) ==
    \/ order[o].type = "MARKET"
    \/ order[o].price = NoPrice
    \/ IF order[o].side = "BUY" THEN p <= order[o].price ELSE p >= order[o].price

Matchable(o, p) == IsBest(Opposite(order[o].side), p) /\ Crosses(o, p)

\* Mutant: Math.max for Math.min.
MatchQuantity_Larger(o, b) ==
    IF order[o].remaining >= order[b].remaining
    THEN order[o].remaining ELSE order[b].remaining

MatchQuantity(o, b) ==
    IF order[o].remaining <= order[b].remaining
    THEN order[o].remaining ELSE order[b].remaining

\* Mutant: filledQuantity is not advanced.
Filled_Uncounted(rec, q) == [rec EXCEPT !.remaining = @ - q]

Filled(rec, q) == [rec EXCEPT !.remaining = @ - q, !.filled = @ + q]

\* Mutant: the price of the incoming order.
MatchResult_TakersPrice(o, b, p, q) ==
    [buy   |-> IF order[o].side = "BUY" THEN o ELSE b,
     sell  |-> IF order[o].side = "BUY" THEN b ELSE o,
     price |-> order[o].price, qty |-> q]

MatchResult(o, b, p, q) ==
    [buy   |-> IF order[o].side = "BUY" THEN o ELSE b,
     sell  |-> IF order[o].side = "BUY" THEN b ELSE o,
     price |-> p, qty |-> q]

\* The status of the incoming order after a match that leaves it `left'.
StatusAfterMatch(o, left) ==
    CASE left = 0 -> "FILLED"
      [] left # 0 /\ order[o].type = "LIMIT" /\ order[o].tif = "IOC" -> "CANCELLED"
      [] OTHER -> order[o].status

\* getFirstOrder of the level o would trade with.
Maker(o, p) == levels[Opposite(order[o].side)][p][1]

\* One iteration of the loops of executeLimitOrder and executeMarketOrder: the
\* head b of the best opposite level trades with o.  The quantities are changed
\* before the level is told, so it is told a difference of zero.
MatchAt(o, p) ==
    LET s     == Opposite(order[o].side)
        b     == Maker(o, p)
        q     == MatchQuantity(o, b)
        rest  == order[b].remaining - q
        after == StatusAfterMatch(o, order[o].remaining - q)
    IN  /\ order' = [order EXCEPT
              ![o] = [Filled(@, q) EXCEPT !.status = after],
              ![b] = IF rest = 0
                     THEN [Filled(@, q) EXCEPT !.status = "FILLED"]
                     ELSE [Requantified(Filled(@, q), rest) EXCEPT !.status = "PARTIAL"]]
        /\ IF rest = 0 THEN RemoveOrder(s, p, 1, rest)
                       ELSE UpdateOrderQuantity(s, p, rest, rest)
        /\ matches' = Append(matches, MatchResult(o, b, p, q))
        /\ IF after \in {"FILLED", "CANCELLED"} THEN EndTurn(o) ELSE StayInTurn(o)

ExecuteMatch(o) ==
    /\ MyTurn(o)
    /\ order[o].remaining > 0
    /\ \E p \in Prices : Matchable(o, p) /\ MatchAt(o, p)
    /\ UNCHANGED <<cancelPc, arrival, clock, batch>>

NothingToMatch(o) == order[o].remaining > 0 /\ ~\E p \in Prices : Matchable(o, p)

\* executeLimitOrder after its loop: FOK is cancelled (what it already traded
\* stays traded), everything else rests in the book.
RestLimitOrder(o) ==
    /\ MyTurn(o)
    /\ order[o].type = "LIMIT"
    /\ NothingToMatch(o)
    /\ IF order[o].tif = "FOK"
       THEN /\ order' = [order EXCEPT ![o].status = "CANCELLED"]
            /\ UNCHANGED bookVars
       ELSE /\ order' = [order EXCEPT ![o].status =
                            IF order[o].filled > 0 THEN "PARTIAL" ELSE "PENDING"]
            /\ AddOrder(order[o].side, order[o].price, o)
    /\ EndTurn(o)
    /\ UNCHANGED <<cancelPc, arrival, clock, batch, matches>>

\* executeMarketOrder once the opposite side is empty: REJECTED is set and then
\* overwritten, and the unfilled rest is dropped.
EndMarketOrder(o) ==
    /\ MyTurn(o)
    /\ order[o].type = "MARKET"
    /\ NothingToMatch(o)
    /\ order' = [order EXCEPT ![o].status = "PARTIAL"]
    /\ EndTurn(o)
    /\ UNCHANGED <<levels, total, cancelPc, arrival, clock, batch, matches>>

-----------------------------------------------------------------------------
(* Stop orders *)

StopQueue == {o \in Orders : pc[o] = "stop"}

ShouldTrigger(o, current) ==
    IF order[o].side = "BUY" THEN current >= order[o].stop
                             ELSE current <= order[o].stop

\* checkStopOrders up to its loop: the triggered orders leave the queue.  Calls
\* may overlap: nothing keeps a second one from taking other orders while the
\* first awaits a submission.
CheckStopOrders(current) ==
    /\ running = Nobody
    /\ LET taken == {o \in StopQueue : ShouldTrigger(o, current)}
       IN  /\ taken # {}
           /\ pc' = [o \in Orders |-> IF o \in taken THEN "triggered" ELSE pc[o]]
           /\ batch' = [o \in Orders |-> IF o \in taken THEN taken ELSE batch[o]]
    /\ UNCHANGED <<order, levels, total, lock, running, cancelPc, arrival,
                   clock, matches>>

Converted(rec) ==
    IF rec.type = "STOP_MARKET"
    THEN [rec EXCEPT !.type = "MARKET", !.price = NoPrice]
    ELSE [rec EXCEPT !.type = "LIMIT"]

\* Mutant: the resubmissions are started without awaiting the one before.
ResubmitTriggered_NotAwaited(o) ==
    /\ running = Nobody
    /\ pc[o] = "triggered"
    /\ order' = [order EXCEPT ![o] = Converted(@)]
    /\ ValidOrder(Converted(order[o]))
    /\ RequestLock(o)
    /\ UNCHANGED <<levels, total, running, cancelPc, arrival, clock, batch, matches>>

\* The orders a call has taken and not resubmitted yet.
Waiting(o) == {x \in batch[o] : pc[x] = "triggered"}

\* The next order of a call's batch, in queue order, is converted and submitted
\* once the submission before it has returned.  When its validation throws,
\* checkStopOrders is left and the others of the batch are gone from the queue
\* without having been submitted.  (The first order's submission begins in the
\* turn that takes the batch; as a step of its own it lets other calls between.)
ResubmitTriggered(o) ==
    /\ running = Nobody
    /\ pc[o] = "triggered"
    /\ \A x \in batch[o] : pc[x] \notin {"polling", "locked"}
    /\ \A x \in Waiting(o) : arrival[o] <= arrival[x]
    /\ order' = [order EXCEPT ![o] = Converted(@)]
    /\ \/ /\ ValidOrder(Converted(order[o]))
          /\ RequestLock(o)
       \/ /\ ~ValidOrder(Converted(order[o]))
          /\ pc' = [x \in Orders |-> IF x \in Waiting(o) THEN "thrown" ELSE pc[x]]
          /\ UNCHANGED lock
    /\ UNCHANGED <<levels, total, running, cancelPc, arrival, clock, batch, matches>>

-----------------------------------------------------------------------------
(* Cancellation *)

\* cancelOrder of any id, also of an order that is not submitted yet.
RequestCancel(o) ==
    /\ running = Nobody
    /\ cancelPc[o] = "none"
    /\ cancelPc' = [cancelPc EXCEPT ![o] = IF lock THEN "polling" ELSE "locked"]
    /\ lock' = TRUE
    /\ UNCHANGED <<order, levels, total, running, pc, arrival, clock, batch, matches>>

PollCancel(o) ==
    /\ running = Nobody
    /\ cancelPc[o] = "polling"
    /\ ~lock
    /\ cancelPc' = [cancelPc EXCEPT ![o] = "locked"]
    /\ lock' = TRUE
    /\ UNCHANGED <<order, levels, total, running, pc, arrival, clock, batch, matches>>

\* Mutant: the order is marked cancelled whether the book had it or not.
CancelOrder_Unconditionally(o) ==
    /\ running = Nobody
    /\ cancelPc[o] = "locked"
    /\ order' = [order EXCEPT ![o].status = "CANCELLED"]
    /\ \/ \E s \in Sides, p \in Prices : \E i \in 1..Len(levels[s][p]) :
             levels[s][p][i] = o /\ RemoveOrder(s, p, i, order[o].remaining)
       \/ ~InBook(o) /\ UNCHANGED bookVars
    /\ cancelPc' = [cancelPc EXCEPT ![o] = "done"]
    /\ lock' = FALSE
    /\ UNCHANGED <<running, pc, arrival, clock, batch, matches>>

\* cancelOrder with the lock: an order that is not in the book is left alone.
CancelOrder(o) ==
    /\ running = Nobody
    /\ cancelPc[o] = "locked"
    /\ \/ \E s \in Sides, p \in Prices : \E i \in 1..Len(levels[s][p]) :
             /\ levels[s][p][i] = o
             /\ RemoveOrder(s, p, i, order[o].remaining)
             /\ order' = [order EXCEPT ![o].status = "CANCELLED"]
       \/ ~InBook(o) /\ UNCHANGED <<order, levels, total>>
    /\ cancelPc' = [cancelPc EXCEPT ![o] = "done"]
    /\ lock' = FALSE
    /\ UNCHANGED <<running, pc, arrival, clock, batch, matches>>

-----------------------------------------------------------------------------

\* What goes on by itself once a call was made.
Progress(o) ==
    \/ PollSubmit(o) \/ ExecuteMatch(o) \/ RestLimitOrder(o) \/ EndMarketOrder(o)
    \/ ResubmitTriggered(o) \/ PollCancel(o) \/ CancelOrder(o)

Next ==
    \/ \E o \in Orders : Progress(o)
    \/ \E o \in Orders, r \in Requests : SubmitOrder(o, r)
    \/ \E o \in Orders : RequestCancel(o)
    \/ \E current \in Prices : CheckStopOrders(current)

Spec == Init /\ [][Next]_vars

\* Timers and promise continuations of the event loop always run eventually.
FairSpec == Spec /\ \A o \in Orders : WF_vars(Progress(o))
-----------------------------------------------------------------------------
(* Properties *)

\* Every variable holds a value of its kind; in particular no quantity ever
\* drops below zero (executeMatch subtracts the smaller of two quantities).
TypeOK ==
    /\ order    \in [Orders -> OrderRec]
    /\ levels   \in [Sides -> [Prices -> Seq(Orders)]]
    /\ total    \in [Sides -> [Prices -> Int]]
    /\ lock     \in BOOLEAN
    /\ running  \in Orders \cup {Nobody}
    /\ pc       \in [Orders -> SubmitPc]
    /\ cancelPc \in [Orders -> CancelPc]
    /\ arrival  \in [Orders -> Nat]
    /\ clock    \in Nat
    /\ batch    \in [Orders -> SUBSET Orders]
    /\ matches  \in Seq(Match)

\* The book is never crossed: every resting bid is below every resting ask,
\* whatever mix of limit, IOC, FOK, market, stop and cancel calls came before,
\* and also between two matches of one incoming order.
BookUncrossed ==
    \A p \in Occupied("BUY"), q \in Occupied("SELL") : p < q

OpenStatus == {"PENDING", "PARTIAL"}

RestingAreOpen ==
    \A s \in Sides, p \in Prices, o \in Orders : InLevel(s, p, o) =>
        /\ order[o].side = s /\ order[o].price = p
        /\ order[o].type = "LIMIT" /\ pc[o] = "done"
        /\ order[o].remaining > 0 /\ order[o].status \in OpenStatus

RestingOnce ==
    \A s \in Sides, p \in Prices : \A i, j \in 1..Len(levels[s][p]) :
        levels[s][p][i] = levels[s][p][j] => i = j

OpenAreResting ==
    \A o \in Orders :
        pc[o] = "done" /\ order[o].type = "LIMIT" /\ order[o].status \in OpenStatus
        => InBook(o)

\* The book and the order objects agree: an order id is at most once in the
\* book, at its own side and price; what rests there is open and has something
\* left; and a limit order whose call has returned rests iff it is open.
BookAgreesWithOrders == RestingAreOpen /\ RestingOnce /\ OpenAreResting

Traded(m, o) == IF o \in {m.buy, m.sell} THEN m.qty ELSE 0
Volume(o)    == SumFunctionOnSet([i \in DOMAIN matches |-> Traded(matches[i], o)], DOMAIN matches)

\* What an order has filled and what remains of it make up its quantity.
QuantityKept ==
    \A o \in Orders : order[o].filled + order[o].remaining = order[o].qty

\* Nothing is created or lost: what an order has filled is what the emitted
\* matches say it traded, and together with what remains it is its quantity.
FillsMatchTrades ==
    QuantityKept /\ \A o \in Orders : order[o].filled = Volume(o)

\* No order ever trades beyond its limit, and the two sides of a match are a
\* buy order and a sell order.
LimitsRespected ==
    \A i \in DOMAIN matches :
        LET m == matches[i]
        IN  /\ order[m.buy].side = "BUY" /\ order[m.sell].side = "SELL"
            /\ order[m.buy].type = "LIMIT" => m.price <= order[m.buy].price
            /\ order[m.sell].type = "LIMIT" => m.price >= order[m.sell].price

\* x stands before y in the queue of their side: a better price, or the same
\* price and an earlier place in the level.
Before(x, y) ==
    \E s \in Sides, p, q \in Prices :
        /\ InLevel(s, p, x) /\ InLevel(s, q, y)
        /\ \/ IF s = "BUY" THEN p > q ELSE p < q
           \/ /\ p = q
              /\ \E i, j \in 1..Len(levels[s][p]) :
                    i < j /\ levels[s][p][i] = x /\ levels[s][p][j] = y

SameLevel(x, y) ==
    \E s \in Sides, p \in Prices : InLevel(s, p, x) /\ InLevel(s, p, y)

\* An order that rests trades only when nobody stands before it.
TradesInFront ==
    \A y \in Orders : InBook(y) /\ order'[y].filled > order[y].filled
                      => ~\E x \in Orders : Before(x, y)

\* Two orders of a level keep their order, and a newcomer comes last.
KeepsPlaces ==
    \A x, y \in Orders :
        SameLevel(x, y)' /\ InBook(x) /\ (InBook(y) => Before(x, y))
        => x = y \/ Before(x, y)'

\* Price-time priority of the book: a resting order trades only when nobody
\* stands before it, a newcomer never gets before an order already resting at
\* its price, and no step makes two resting orders change places.
PriceTimePriority == [][TradesInFront /\ KeepsPlaces]_vars

\* A filled or cancelled order is final: no late cancel, second match or
\* retriggered stop changes it again.
ClosedIsFinal ==
    [][\A o \in Orders : order[o].status \in {"FILLED", "CANCELLED"}
                          => order'[o] = order[o]]_vars

\* Overlapping checkStopOrders calls share no order, and each works through its
\* own in the order they were queued, awaiting every submission: none is
\* submitted before an earlier one of its batch, and no two of a batch are under
\* way at once.  (Of orders in different batches the later may well go first.)
StopsRunInTurn ==
    \A x \in Orders : \A y \in batch[x] :
        /\ batch[y] = batch[x]
        /\ pc[x] = "triggered" /\ arrival[x] < arrival[y] => pc[y] = "triggered"
        /\ x # y => ~({pc[x], pc[y]} \subseteq {"polling", "locked"})

\* Every submitOrder and cancelOrder call returns: nobody polls the asset's
\* lock for ever, and every matching loop ends.
CallsReturn ==
    \A o \in Orders :
        /\ pc[o] \in {"polling", "locked", "triggered"} ~> pc[o] = "done"
        /\ cancelPc[o] \in {"polling", "locked"} ~> cancelPc[o] = "done"

-----------------------------------------------------------------------------
(* What the engine promises: Exchange *)

\* A stop order comes in when it is resubmitted.
Entered(o) == pc[o] \in {"polling", "locked", "done"}

PhaseOf(o) ==
    IF ~Entered(o) THEN "absent"
    ELSE IF pc[o] # "done" THEN "incoming"
    ELSE IF InBook(o) THEN "resting" ELSE "closed"

TermsOf(o) ==
    IF Entered(o)
    THEN [side |-> order[o].side,
          price |-> IF order[o].type = "MARKET" THEN NoPrice ELSE order[o].price]
    ELSE [side |-> "BUY", price |-> NoPrice]

Phases   == [o \in Orders |-> PhaseOf(o)]
AllTerms == [o \in Orders |-> TermsOf(o)]
Unfilled == [o \in Orders |-> IF Entered(o) THEN order[o].remaining ELSE 0]
Queue    == {pair \in Orders \X Orders : Before(pair[1], pair[2])}

Exch == INSTANCE Exchange WITH
    phase <- Phases, terms <- AllTerms, left <- Unfilled, ahead <- Queue,
    taker <- running, trades <- matches

\* To its callers the engine, with its levels, lock and stop queue, is an
\* exchange: every match is the one price and time demand, for as much as both
\* orders still want, and nothing else fills, moves or removes an order.
ImplementsExchange == Exch!Spec

-----------------------------------------------------------------------------
(* What the engine's README says, and the code does not do *)

\* "IOC: fill immediately or cancel unfilled portion", "FOK: fill entire order
\* immediately or cancel completely".  In the code an IOC order without any match
\* rests in the book, and a cancelled FOK order keeps its matches.
TimeInForceKept ==
    \A o \in Orders : pc[o] = "done" =>
        /\ order[o].tif = "IOC" => ~InBook(o)
        /\ order[o].tif = "FOK" => order[o].filled \in {0, order[o].qty}
=============================================================================
