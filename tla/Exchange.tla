------------------------------ MODULE Exchange ------------------------------
(***************************************************************************)
(* What the matching engine of one asset promises to those who trade on    *)
(* it: no calls, lock, price levels or stop orders, but the queue of those *)
(* who wait.  One order at a time trades with whoever is in front, at the  *)
(* price of the one who waited, as long as its own price allows it.  What  *)
(* time in force an order has only decides whether the rest of it waits.   *)
(***************************************************************************)
EXTENDS Integers, Sequences

CONSTANTS Orders, Sides, Prices, NoPrice, Nobody

\* An order with NoPrice takes any price, and never waits.
Terms == [side : Sides, price : Prices \cup {NoPrice}]

VARIABLES
    phase,     \* "absent", "incoming", "resting" or "closed"
    terms,     \* the terms of each order that has come in
    left,      \* how much of it has not been traded
    ahead,     \* <<x, y>>: x rests in the queue before y
    taker,     \* the incoming order that is trading
    trades

vars == <<phase, terms, left, ahead, taker, trades>>

Init ==
    /\ phase  = [o \in Orders |-> "absent"]
    /\ terms \in [Orders -> Terms]
    /\ left   = [o \in Orders |-> 0]
    /\ ahead  = {} /\ taker = Nobody /\ trades = <<>>

Resting == {o \in Orders : phase[o] = "resting"}

\* o's price reaches the price of the resting order b.
Accepts(o, b) ==
    \/ terms[o].price = NoPrice
    \/ IF terms[o].side = "BUY" THEN terms[b].price <= terms[o].price
                                ELSE terms[b].price >= terms[o].price

Opponents(o) == {b \in Resting : terms[b].side # terms[o].side /\ Accepts(o, b)}

\* The orders that stay before an order with o's terms, and those that fall behind it.
Outbids(x, o) ==
    IF terms[x].side = "BUY" THEN terms[x].price > terms[o].price
                             ELSE terms[x].price < terms[o].price
Rivals(o) == {x \in Resting : terms[x].side = terms[o].side}
Behind(o) == {x \in Rivals(o) : Outbids(o, x)}

Without(o) == {pair \in ahead : o \notin {pair[1], pair[2]}}

MyTurn(o) == phase[o] = "incoming" /\ taker \in {Nobody, o}

Arrive(o) ==
    /\ taker = Nobody /\ phase[o] = "absent"
    /\ phase' = [phase EXCEPT ![o] = "incoming"]
    /\ \E t \in Terms : terms' = [terms EXCEPT ![o] = t]
    /\ left'[o] \in Nat \ {0} /\ left' = [left EXCEPT ![o] = left'[o]]
    /\ UNCHANGED <<ahead, taker, trades>>

TradeOf(o, b, q) ==
    [buy   |-> IF terms[o].side = "BUY" THEN o ELSE b,
     sell  |-> IF terms[o].side = "BUY" THEN b ELSE o,
     price |-> terms[b].price, qty |-> q]

\* o trades with b, as much as both still want; `stays' says whether o may go on.
Trade(o, b, stays) ==
    LET q == IF left[o] <= left[b] THEN left[o] ELSE left[b]
    IN  /\ MyTurn(o)
        /\ b \in Opponents(o) /\ \A x \in Orders : <<x, b>> \notin ahead
        /\ stays => left[o] # q
        /\ left' = [left EXCEPT ![o] = @ - q, ![b] = @ - q]
        /\ phase' = [phase EXCEPT ![o] = IF stays THEN @ ELSE "closed",
                                  ![b] = IF left[b] = q THEN "closed" ELSE @]
        /\ ahead' = IF left[b] = q THEN Without(b) ELSE ahead
        /\ taker' = IF stays THEN o ELSE Nobody
        /\ trades' = Append(trades, TradeOf(o, b, q))
        /\ UNCHANGED terms

\* With nobody left to trade with, a priced order waits behind all that are not worse.
Rest(o) ==
    /\ MyTurn(o) /\ Opponents(o) = {} /\ terms[o].price # NoPrice
    /\ phase' = [phase EXCEPT ![o] = "resting"]
    /\ ahead' = ahead \cup ((Rivals(o) \ Behind(o)) \X {o}) \cup ({o} \X Behind(o))
    /\ taker' = Nobody
    /\ UNCHANGED <<terms, left, trades>>

\* ... or it does not wait.
Leave(o) ==
    /\ MyTurn(o) /\ Opponents(o) = {}
    /\ phase' = [phase EXCEPT ![o] = "closed"]
    /\ taker' = Nobody
    /\ UNCHANGED <<terms, left, ahead, trades>>

Withdraw(o) ==
    /\ taker = Nobody /\ phase[o] = "resting"
    /\ phase' = [phase EXCEPT ![o] = "closed"]
    /\ ahead' = Without(o)
    /\ UNCHANGED <<terms, left, taker, trades>>

Next ==
    \E o \in Orders :
        \/ Arrive(o) \/ Rest(o) \/ Leave(o) \/ Withdraw(o)
        \/ \E b \in Orders, stays \in BOOLEAN : Trade(o, b, stays)

Spec == Init /\ [][Next]_vars
=============================================================================
