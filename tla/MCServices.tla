----------------------------- MODULE MCServices -----------------------------
(* Small instances of the services of Services for TLC. *)
EXTENDS Services

\* Three approvals, two of them of one signer, and an execution; two of two
\* signers must approve.
MCEscrowCalls == {"a1", "a2", "a3", "x1"}
MCSignerOf    == [c \in MCEscrowCalls |->
                     CASE c = "a1" -> "s1" [] c = "x1" -> "none" [] OTHER -> "s2"]

\* An ask to match with, each way to bid for it, a market order and a stop order.
Limit(s, q, t) == [side |-> s, type |-> "LIMIT", price |-> 1, stop |-> 0, qty |-> q, tif |-> t]
MCRequests ==
    {Limit("SELL", 1, "GTC"), Limit("BUY", 2, "GTC"), Limit("BUY", 2, "IOC"), Limit("BUY", 2, "FOK"),
     [Limit("SELL", 1, "IOC") EXCEPT !.type = "MARKET", !.price = 0],
     [Limit("SELL", 1, "GTC") EXCEPT !.type = "STOP_LIMIT", !.stop = 1]}

\* Two calls of one user with opposite choices beside another user's vote, a
\* tally, an execution and an update of the proposal.
MCVoterOf      == [v1 |-> "a", v2 |-> "b", v3 |-> "b"]
MCChoiceOf     == [v1 |-> "YES", v2 |-> "NO", v3 |-> "YES"]
MCGovernanceOp == [t |-> "tally", x |-> "execute", u |-> "change"]
MCVoters       == DOMAIN MCVoterOf
MCOthers       == DOMAIN MCGovernanceOp

\* Two bidders, a reserve price, one extension against sniping and one restart;
\* two ticks may end the auction at once.
MCBidAmounts == 1..2
MCMaxPending == [start |-> 1, cancel |-> 1, end |-> 2, ending |-> 1]

\* Two signatures, an exchange, a rotation and a revocation; a key may be used twice.
MCKeyCalls == {"s1", "s2", "e", "r", "v"}
MCKeyOp    == [c \in MCKeyCalls |-> CASE c = "e" -> "exchange" [] c = "r" -> "rotate"
                                      [] c = "v" -> "revoke" [] OTHER -> "sign"]

\* Every choice of steps with a compensation.
MCCompensable == SUBSET (1..3)

\* The service's own table of pools, a ring with a tail and a line
\* longer than MaxHops.
MCTables ==
    {{<<"USDT", "BTC">>, <<"USDT", "ETH">>, <<"USDT", "BNB">>, <<"USDT", "SOL">>,
      <<"BTC", "ETH">>, <<"ETH", "BNB">>, <<"ETH", "SOL">>},
     {<<"USDT", "BTC">>, <<"BTC", "ETH">>, <<"ETH", "BNB">>, <<"USDT", "SOL">>, <<"SOL", "BNB">>,
      <<"BNB", "ADA">>},
     {<<"USDT", "BTC">>, <<"BTC", "ETH">>, <<"ETH", "BNB">>, <<"BNB", "SOL">>, <<"SOL", "ADA">>}}
=============================================================================
