--------------------------- MODULE TradeMatching ----------------------------
(***************************************************************************)
(* trading/machine-engine.service.ts: concurrent matchTrades calls, each   *)
(* over its own sorted bids and asks, each trade one transaction over the  *)
(* balances and orders tables.  A transaction keeps every row it touches   *)
(* locked until it ends (external).  Any of its statements may fail, one   *)
(* that waits for a row among them (deadlock or lock timeout).             *)
(***************************************************************************)
EXTENDS Integers, Sequences, FiniteSetsExt

CONSTANTS
    Runs,      \* matchTrades calls
    Bids, Asks,    \* the sorted orders of each call: id, user, price, amount
    Users, Asset,  \* what is traded, against "USD"
    Deposits   \* the balances at the start

VARIABLES
    balance,   \* the committed balances table
    remaining, \* remaining_amount of the committed orders
    bidIndex, askIndex, left,  \* the loop's counters and remaining amounts
    step,      \* rows the open transaction has locked, or "loop", "done"
    locks      \* the rows each open transaction holds

vars == <<balance, remaining, bidIndex, askIndex, left, step, locks>>

Assets  == {Asset, "USD"}
OrdersOf(r) == {Bids[r][i] : i \in DOMAIN Bids[r]} \cup {Asks[r][i] : i \in DOMAIN Asks[r]}
AllOrders   == UNION {OrdersOf(r) : r \in Runs}
Rows    == (Users \X Assets) \cup ({"order"} \X {o.id : o \in AllOrders})

Init ==
    /\ balance   = Deposits
    /\ remaining = [i \in {o.id : o \in AllOrders} |-> (CHOOSE o \in AllOrders : o.id = i).amount]
    /\ bidIndex  = [r \in Runs |-> 1] /\ askIndex = [r \in Runs |-> 1]
    /\ left      = [r \in Runs |-> remaining]
    /\ step      = [r \in Runs |-> "loop"]
    /\ locks     = [r \in Runs |-> {}]

Bid(r) == Bids[r][bidIndex[r]]
Ask(r) == Asks[r][askIndex[r]]
Amount(r) == Min({left[r][Bid(r).id], left[r][Ask(r).id]})
Total(r)  == Amount(r) * Ask(r).price

Advance(f, r) == f' = [f EXCEPT ![r] = @ + 1]

\* The head of the loop: done, an exhausted order is skipped, prices that do
\* not cross end it, or a trade is begun.
Loop(r) ==
    /\ step[r] = "loop"
    /\ IF bidIndex[r] > Len(Bids[r]) \/ askIndex[r] > Len(Asks[r])
       THEN step' = [step EXCEPT ![r] = "done"] /\ UNCHANGED <<bidIndex, askIndex>>
       ELSE IF left[r][Bid(r).id] <= 0 THEN Advance(bidIndex, r) /\ UNCHANGED <<step, askIndex>>
       ELSE IF left[r][Ask(r).id] <= 0 THEN Advance(askIndex, r) /\ UNCHANGED <<step, bidIndex>>
       ELSE /\ step' = [step EXCEPT ![r] =
                           IF Bid(r).price < Ask(r).price THEN "done" ELSE "trade"]
            /\ UNCHANGED <<bidIndex, askIndex>>
    /\ UNCHANGED <<balance, remaining, left, locks>>

\* The rows executeTrade touches, in order: both checks with FOR UPDATE, the
\* upserts of the other two balances, and the two orders.
Needs(r) == << <<Bid(r).user, "USD">>, <<Ask(r).user, Asset>>, <<Bid(r).user, Asset>>,
               <<Ask(r).user, "USD">>, <<"order", Bid(r).id>>, <<"order", Ask(r).id>> >>
Missing(r) == {k \in 1..6 : Needs(r)[k] \notin locks[r]}
NextRow(r) == Needs(r)[Min(Missing(r))]

\* Mutant: no FOR UPDATE and no other lock that makes a transaction wait.
Free_Always(r, w) == TRUE
Free(r, w) == \A other \in Runs \ {r} : w \notin locks[other]

\* The checks of the buyer's and the seller's balance, on the row just locked.
Sufficient(r, w) ==
    /\ w = Needs(r)[1] => balance[Bid(r).user]["USD"] >= Total(r)
    /\ w = Needs(r)[2] => balance[Ask(r).user][Asset] >= Amount(r)

LockRow(r) ==
    /\ step[r] = "trade" /\ Missing(r) # {}
    /\ LET w == NextRow(r)
       IN  Free(r, w) /\ Sufficient(r, w) /\ locks' = [locks EXCEPT ![r] = @ \cup {w}]
    /\ UNCHANGED <<balance, remaining, bidIndex, askIndex, left, step>>

Unlock(r) == locks' = [locks EXCEPT ![r] = {}]

\* Mutant: the same two orders are tried again.
FailTrade_Retries(r) ==
    /\ step[r] = "trade"
    /\ Unlock(r)
    /\ step' = [step EXCEPT ![r] = "loop"]
    /\ UNCHANGED <<balance, remaining, left, bidIndex, askIndex>>

\* A balance does not suffice, a statement or the commit fails: the transaction
\* is rolled back, and the loop moves past both orders.
FailTrade(r) ==
    /\ step[r] = "trade"
    /\ Unlock(r)
    /\ step' = [step EXCEPT ![r] = "loop"]
    /\ Advance(bidIndex, r) /\ Advance(askIndex, r)
    /\ UNCHANGED <<balance, remaining, left>>

\* What a trade adds to a user's balance.
Delta(r, u, a) ==
    IF a = "USD" THEN (IF u = Ask(r).user THEN Total(r) ELSE 0) - (IF u = Bid(r).user THEN Total(r) ELSE 0)
    ELSE (IF u = Bid(r).user THEN Amount(r) ELSE 0) - (IF u = Ask(r).user THEN Amount(r) ELSE 0)

CommitTrade(r) ==
    /\ step[r] = "trade" /\ Missing(r) = {}
    /\ LET filled == {Bid(r).id, Ask(r).id}
       IN  /\ balance' = [u \in Users |-> [a \in Assets |-> balance[u][a] + Delta(r, u, a)]]
           /\ remaining' = [i \in DOMAIN remaining |->
                 remaining[i] - IF i \in filled THEN Amount(r) ELSE 0]
           /\ left' = [left EXCEPT ![r] = [i \in DOMAIN left[r] |->
                 left[r][i] - IF i \in filled THEN Amount(r) ELSE 0]]
    /\ Unlock(r)
    /\ step' = [step EXCEPT ![r] = "loop"]
    /\ UNCHANGED <<bidIndex, askIndex>>

Run(r) == Loop(r) \/ LockRow(r) \/ FailTrade(r) \/ CommitTrade(r)

Next == \E r \in Runs : Run(r)

Spec     == Init /\ [][Next]_vars
FairSpec == Spec /\ \A r \in Runs : WF_vars(Run(r))
-----------------------------------------------------------------------------
TypeOK ==
    /\ balance \in [Users -> [Assets -> Int]] /\ remaining \in [DOMAIN remaining -> Int]
    /\ locks \in [Runs -> SUBSET Rows]

\* No balance becomes negative and nothing is created or lost, whatever trades
\* of concurrent calls share a buyer, a seller or an order: a balance that was
\* checked stays what it was until the trade commits.
NoOverdraft ==
    /\ \A u \in Users, a \in Assets : balance[u][a] >= 0
    /\ \A a \in Assets : SumFunctionOnSet([u \in Users |-> balance[u][a]], Users)
                         = SumFunctionOnSet([u \in Users |-> Deposits[u][a]], Users)

\* Every call returns, also when its transactions wait for each other or fail:
\* each turn of the loop uses up an order or moves past one.
RunsEnd == \A r \in Runs : <>(step[r] = "done")
=============================================================================
