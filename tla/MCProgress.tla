----------------------------- MODULE MCProgress -----------------------------
(* Small instances of the services of Progress for TLC. *)
EXTENDS Progress

MCDedupCalls == {"a", "b", "c", "d"}

\* Twice as many tasks as workers: the queue fills and drains.
MCTasks == 1..4

\* Three calls that share users and orders, with funds for some of the trades.
Order(i, user, price, amount) == [id |-> i, user |-> user, price |-> price, amount |-> amount]
MCBids == [r1 |-> <<Order("b1", "ann", 2, 2), Order("b2", "bob", 1, 1)>>,
           r2 |-> <<Order("b1", "ann", 2, 2), Order("b4", "bob", 1, 2)>>,
           r3 |-> <<Order("b3", "ann", 1, 1)>>]
MCAsks == [r1 |-> <<Order("a1", "bob", 1, 1), Order("a2", "ann", 1, 1)>>,
           r2 |-> <<Order("a1", "bob", 1, 1), Order("a4", "ann", 1, 2)>>,
           r3 |-> <<Order("a3", "bob", 1, 1)>>]
MCTradeCalls == DOMAIN MCBids
MCUsers      == {"ann", "bob"}
MCOrderIds   == {"a1", "a2", "a3", "a4", "b1", "b2", "b3", "b4"}
MCDeposits   == [u \in MCUsers |-> [USD |-> 1, BTC |-> 1]]
=============================================================================
