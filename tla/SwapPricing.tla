---------------------------- MODULE SwapPricing ----------------------------
(***************************************************************************)
(* swap/swap-pricing.service.ts: the breadth-first search of               *)
(* findOptimalRoute over the table of pools, one dequeued path per step.   *)
(* The amounts of a quote and the reserves that executeAmmSwap changes are *)
(* floating-point numbers and left out; no swap adds or removes a pool.    *)
(***************************************************************************)
EXTENDS Integers, SequencesExt

CONSTANTS
    Assets,
    Tables,     \* the tables of pools: sets of pairs <<base, quote>>
    MaxHops     \* hops of the longest route the search builds

VARIABLES
    pools,      \* the keys of poolStates
    from, to,   \* what the search is asked for
    queue,
    visited,
    route       \* the result: <<>> before there is one, NoRoute for null

vars == <<pools, from, to, queue, visited, route>>

NoRoute   == <<"null">>
Searching == route = <<>>

\* getPool looks under both orders of two assets; ROUTE_GRAPH lists for every
\* asset those it has a pool with.
HasPool(a, b) == <<a, b>> \in pools \/ <<b, a>> \in pools
Neighbors(a)  == {b \in Assets : HasPool(a, b)}

Init ==
    /\ pools \in Tables
    /\ from \in Assets /\ to \in Assets
    /\ queue = <<<<from>>>> /\ visited = {from} /\ route = <<>>

Return(path) == route' = path /\ UNCHANGED <<pools, from, to, queue, visited>>

DirectPool == Searching /\ HasPool(from, to) /\ Return(<<from, to>>)

\* Mutant: the search goes depth first.
Enqueue_First(paths) == queue' = paths \o Tail(queue)
Enqueue(paths)       == queue' = Tail(queue) \o paths

\* The path at the head is extended by the neighbours of its last asset, in
\* whatever order ROUTE_GRAPH lists them.
Extend ==
    /\ Searching /\ ~HasPool(from, to) /\ queue # <<>>
    /\ LET path == Head(queue)
           near == Neighbors(Last(path))
           new  == IF Len(path) < MaxHops THEN near \ visited ELSE {}
       IN  IF to \in near
           THEN Return(Append(path, to))
           ELSE /\ \E s \in SetToSeqs(new) :
                      Enqueue([i \in DOMAIN s |-> Append(path, s[i])])
                /\ visited' = visited \cup new
                /\ UNCHANGED <<pools, from, to, route>>

NotFound == Searching /\ ~HasPool(from, to) /\ queue = <<>> /\ Return(NoRoute)

Next == DirectPool \/ Extend \/ NotFound

Spec == Init /\ [][Next]_vars
-----------------------------------------------------------------------------
TypeOK ==
    /\ {from, to} \cup visited \subseteq Assets
    /\ queue \in Seq(Seq(Assets)) /\ (route = NoRoute \/ route \in Seq(Assets))

\* The assets that n swaps from `from` can end in.
Ends[n \in 0..MaxHops] ==
    IF n = 0 THEN {from} ELSE {b \in Assets : \E a \in Ends[n - 1] : HasPool(a, b)}

\* A route that is found leads from one asset to the other, has a pool at
\* every hop and no shorter alternative; null means that no route has as many
\* hops as the search allows.
RouteIsShortest ==
    /\ route \notin {<<>>, NoRoute} =>
          /\ Head(route) = from /\ Last(route) = to
          /\ \A i \in 1..Len(route) - 1 : HasPool(route[i], route[i + 1])
          /\ \A n \in 1..Len(route) - 2 : to \notin Ends[n]
    /\ route = NoRoute => \A n \in 1..MaxHops : to \notin Ends[n]
=============================================================================
