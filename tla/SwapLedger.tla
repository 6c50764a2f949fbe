----------------------------- MODULE SwapLedger -----------------------------
(***************************************************************************)
(* What the settlement of queued swaps promises, without jobs, attempts,   *)
(* locks or transactions: from time to time some swaps are exchanged at    *)
(* once, each for the first and only time, and no account is overdrawn.    *)
(***************************************************************************)
EXTENDS Integers, FiniteSetsExt

CONSTANTS Swaps, Accounts, From, To, AmountIn, AmountsOut, Start

VARIABLES balance, settled

Init == balance = Start /\ settled = {}

\* What a receives and what it gives when the swaps S pay out.
Received(a, S, out) == SumFunctionOnSet(out, {s \in S : To[s] = a})
Given(a, S)         == SumFunctionOnSet(AmountIn, {s \in S : From[s] = a})

Exchange(S, out) ==
    /\ S \cap settled = {}
    /\ settled' = settled \cup S
    /\ balance' = [a \in Accounts |-> balance[a] + Received(a, S, out) - Given(a, S)]
    /\ \A a \in Accounts : balance'[a] >= 0

Next == \E S \in SUBSET Swaps : \E out \in [S -> AmountsOut] : Exchange(S, out)

Spec == Init /\ [][Next]_<<balance, settled>>
=============================================================================
