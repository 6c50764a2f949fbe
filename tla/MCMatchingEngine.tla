-------------------------- MODULE MCMatchingEngine --------------------------
(* Small instances of MatchingEngine for TLC. *)
EXTENDS MatchingEngine

Limit(s, p, q, t) == [side |-> s, type |-> "LIMIT", price |-> p,
                      stop |-> NoPrice, qty |-> q, tif |-> t]
Market(s, q)      == [side |-> s, type |-> "MARKET", price |-> NoPrice,
                      stop |-> NoPrice, qty |-> q, tif |-> "IOC"]
Stop(s, k, p, q)  == [side |-> s, type |-> "STOP_LIMIT", price |-> p,
                      stop |-> k, qty |-> q, tif |-> "GTC"]
StopMarket(s, k, q) == [side |-> s, type |-> "STOP_MARKET", price |-> NoPrice,
                        stop |-> k, qty |-> q, tif |-> "GTC"]

\* Both sides at two prices, quantities that fill exactly, partly and across
\* two levels, each time in force, market orders and one invalid body.
BookRequests ==
    {Limit(s, p, 1, "GTC") : s \in Sides, p \in 1..2}
    \cup {Limit("BUY", 2, 2, t) : t \in {"GTC", "IOC", "FOK"}}
    \cup {Limit("SELL", 1, 2, "GTC"), Market("BUY", 2), Market("SELL", 1),
          Limit("BUY", NoPrice, 1, "GTC")}

\* Stop orders of both kinds that trigger at different prices, and liquidity
\* for them.
StopRequests ==
    {Limit("SELL", 2, 1, "GTC"), Limit("BUY", 1, 2, "GTC"),
     Stop("BUY", 1, 2, 2), Stop("BUY", 2, NoPrice, 1),
     StopMarket("SELL", 1, 1)}

\* A resting side and stop orders that become market orders against it.
LiveRequests ==
    {Limit("SELL", 1, 1, "GTC"), StopMarket("BUY", 1, 2)}

Symmetry == Permutations(Orders)
=============================================================================
