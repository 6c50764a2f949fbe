------------------------ MODULE MatchingEngineProofs ------------------------
(***************************************************************************)
(* Proofs about the matching engine, for every set of orders, prices and   *)
(* requests.                                                               *)
(***************************************************************************)
EXTENDS MatchingEngine, SequenceTheorems, WellFoundedInduction, OperatorLemmas, TLAPS

-----------------------------------------------------------------------------
(* Lemmas about the data the book is built from *)

\* A set of naturals that is not empty has a least element.
LEMMA LeastExists ==
    ASSUME NEW T \in SUBSET Nat, T # {}
    PROVE  \E m \in T : \A n \in T : m <= n
  <1>1. \E m \in T : \A n \in T : ~(<<n, m>> \in OpToRel(<, Nat))
    BY NatLessThanWellFounded, WFMin
  <1>2. PICK m \in T : \A n \in T : ~(<<n, m>> \in OpToRel(<, Nat))
    BY <1>1
  <1>3. ASSUME NEW n \in T
        PROVE  m <= n
    <2>1. <<n, m>> \in Nat \X Nat
      OBVIOUS
    <2>2. ~(n < m)
      BY <1>2, <2>1 DEF OpToRel
    <2>3. QED  BY <2>2
  <1>4. QED
    BY <1>3

\* A set of prices that is not empty has a greatest element, prices being bounded.
LEMMA GreatestExists ==
    ASSUME NEW T \in SUBSET Prices, T # {}
    PROVE  \E m \in T : \A n \in T : n <= m
  <1> DEFINE D == {MaxPrice - p : p \in T}
  <1>0. MaxPrice \in Nat /\ \A p \in T : p \in 1..MaxPrice
    BY PricesAssumption
  <1>1. D \subseteq Nat /\ D # {}
    BY <1>0
  <1>2. PICK d \in D : \A e \in D : d <= e
    BY <1>1, LeastExists
  <1>3. PICK m \in T : d = MaxPrice - m
    OBVIOUS
  <1>4. \A n \in T : MaxPrice - m <= MaxPrice - n
    BY <1>2, <1>3
  <1>5. QED
    BY <1>0, <1>4

LEMMA PricesPositive == \A p \in Prices : p \in Nat /\ p # NoPrice
  BY PricesAssumption DEF NoPrice

\* A side of the book with an occupied level has a best price.
LEMMA BestExists ==
    ASSUME NEW s \in Sides, Occupied(s) # {}
    PROVE  \E p \in Prices : IsBest(s, p)
  <1>1. Occupied(s) \subseteq Prices
    BY DEF Occupied
  <1>2. Occupied(s) \subseteq Nat
    BY <1>1, PricesPositive
  <1>3. CASE s = "BUY"
    BY <1>1, <1>3, GreatestExists DEF IsBest
  <1>4. CASE s # "BUY"
    BY <1>1, <1>2, <1>4, LeastExists DEF IsBest
  <1>5. QED  BY <1>3, <1>4
-----------------------------------------------------------------------------
(* The inductive invariant *)

\* An order that is being submitted passed validateOrder and is a limit or a
\* market order; stop orders are converted before they are resubmitted.
InFlightValid ==
    \A o \in Orders : pc[o] \in {"polling", "locked"} =>
        /\ ValidOrder(order[o])
        /\ order[o].type \in {"LIMIT", "MARKET"}

\* The status of an order is settled only when its call returns.
UnfinishedArePending ==
    \A o \in Orders : pc[o] # "done" => order[o].status = "PENDING"

\* Only orders that had their turn appear in matches.
MatchedHadTheirTurn ==
    \A i \in DOMAIN matches :
        pc[matches[i].buy] \in {"locked", "done"} /\ pc[matches[i].sell] \in {"locked", "done"}

IInv ==
    /\ TypeOK
    /\ RestingAreOpen
    /\ RestingOnce
    /\ OpenAreResting
    /\ BookUncrossed
    /\ QuantityKept
    /\ InFlightValid
    /\ UnfinishedArePending
    /\ MatchedHadTheirTurn
    /\ LimitsRespected

-----------------------------------------------------------------------------
(* What the book operations do to the book *)

\* Removing the order at one position: the level keeps the others in order, no
\* other level changes.
LEMMA RemoveFacts ==
    ASSUME TypeOK, NEW s \in Sides, NEW p \in Prices,
           NEW i \in 1..Len(levels[s][p]), NEW left \in Int,
           RemoveOrder(s, p, i, left)
    PROVE  /\ levels' \in [Sides -> [Prices -> Seq(Orders)]]
           /\ total' \in [Sides -> [Prices -> Int]]
           /\ levels'[s][p] = RemoveAt(levels[s][p], i)
           /\ \A t \in Sides, q \in Prices :
                 ~(t = s /\ q = p) => levels'[t][q] = levels[t][q]
  <1> DEFINE rest == RemoveAt(levels[s][p], i)
  <1>1. levels[s][p] \in Seq(Orders)
    BY DEF TypeOK
  <1>2. rest \in Seq(Orders)
    BY <1>1, RemoveAtLemma
  <1>3. levels' = [levels EXCEPT ![s][p] = rest]
    BY DEF RemoveOrder
  <1>4. total' = [total EXCEPT ![s][p] = IF rest = <<>> THEN 0 ELSE @ - left]
    BY DEF RemoveOrder
  <1> HIDE DEF rest
  <1>5. levels' \in [Sides -> [Prices -> Seq(Orders)]]
    BY <1>2, <1>3 DEF TypeOK
  <1>6. total' \in [Sides -> [Prices -> Int]]
    BY <1>4 DEF TypeOK
  <1>7. /\ levels'[s][p] = rest
        /\ \A t \in Sides, q \in Prices :
              ~(t = s /\ q = p) => levels'[t][q] = levels[t][q]
    BY <1>3 DEF TypeOK
  <1>8. QED  BY <1>5, <1>6, <1>7 DEF rest

\* After a removal the book holds exactly the other orders, still once each.
LEMMA RemoveBook ==
    ASSUME TypeOK, RestingAreOpen, RestingOnce,
           NEW s \in Sides, NEW p \in Prices,
           NEW i \in 1..Len(levels[s][p]), NEW left \in Int,
           RemoveOrder(s, p, i, left)
    PROVE  /\ \A t \in Sides, q \in Prices, x \in Orders :
                 InLevel(t, q, x)' <=> InLevel(t, q, x) /\ x # levels[s][p][i]
           /\ RestingOnce'
           /\ \A t \in Sides : Occupied(t)' \subseteq Occupied(t)
  <1> DEFINE old  == levels[s][p]
             rest == RemoveAt(old, i)
             gone == old[i]
  <1>1. old \in Seq(Orders) /\ gone \in Orders
    BY DEF TypeOK
  <1>2. /\ rest \in Seq(Orders) /\ Len(rest) = Len(old) - 1
        /\ \A j \in 1..(Len(old) - 1) : rest[j] = IF j < i THEN old[j] ELSE old[j + 1]
    BY <1>1, RemoveAtLemma
  <1>3. /\ levels'[s][p] = rest
        /\ \A t \in Sides, q \in Prices :
              ~(t = s /\ q = p) => levels'[t][q] = levels[t][q]
    BY RemoveFacts
  <1>4. \A j, k \in 1..Len(old) : old[j] = old[k] => j = k
    BY DEF RestingOnce
  <1>5. \A t \in Sides, q \in Prices :
           InLevel(t, q, gone) => t = s /\ q = p
    <2>1. InLevel(s, p, gone)
      BY DEF InLevel
    <2>2. QED  BY <1>1, <2>1 DEF RestingAreOpen
  <1> HIDE DEF old, rest, gone
  <1>6. \A x \in Orders : (\E j \in 1..Len(rest) : rest[j] = x)
                           <=> (\E j \in 1..Len(old) : old[j] = x) /\ x # gone
    <2> SUFFICES ASSUME NEW x \in Orders
                 PROVE  (\E j \in 1..Len(rest) : rest[j] = x)
                        <=> (\E j \in 1..Len(old) : old[j] = x) /\ x # gone
      OBVIOUS
    <2>0. Len(old) \in Nat /\ i \in 1..Len(old) /\ gone = old[i]
      BY <1>1 DEF old, gone
    <2>1. ASSUME NEW j \in 1..Len(rest), rest[j] = x
          PROVE  (\E k \in 1..Len(old) : old[k] = x) /\ x # gone
      <3>1. CASE j < i
        BY <1>2, <1>4, <2>0, <2>1, <3>1
      <3>2. CASE ~(j < i)
        <4>1. j + 1 \in 1..Len(old) /\ old[j + 1] = x
          BY <1>2, <2>0, <2>1, <3>2
        <4>2. QED  BY <1>4, <2>0, <3>2, <4>1
      <3>3. QED  BY <3>1, <3>2
    <2>2. ASSUME NEW k \in 1..Len(old), old[k] = x, x # gone
          PROVE  \E j \in 1..Len(rest) : rest[j] = x
      <3>1. CASE k < i
        <4>1. k \in 1..Len(rest) /\ rest[k] = x
          BY <1>2, <2>0, <2>2, <3>1
        <4>2. QED  BY <4>1
      <3>2. CASE k > i
        <4>1. k - 1 \in 1..Len(rest) /\ rest[k - 1] = old[(k - 1) + 1]
          BY <1>2, <2>0, <2>2, <3>2
        <4>2. rest[k - 1] = x
          BY <2>2, <4>1
        <4>3. QED  BY <4>1, <4>2
      <3>3. QED  BY <2>0, <2>2, <3>1, <3>2
    <2>3. QED  BY <2>1, <2>2
  <1>7. \A j, k \in 1..Len(rest) : rest[j] = rest[k] => j = k
    <2>0. Len(old) \in Nat /\ i \in 1..Len(old)
      BY <1>1 DEF old
    <2> SUFFICES ASSUME NEW j \in 1..Len(rest), NEW k \in 1..Len(rest), rest[j] = rest[k]
                 PROVE  j = k
      OBVIOUS
    <2>1. j \in 1..(Len(old) - 1) /\ k \in 1..(Len(old) - 1)
      BY <1>2
    <2>2. CASE j < i /\ k < i
      BY <1>2, <1>4, <2>0, <2>1, <2>2
    <2>3. CASE j < i /\ ~(k < i)
      <3>1. old[j] = old[k + 1]
        BY <1>2, <2>1, <2>3
      <3>2. j = k + 1
        BY <1>4, <2>0, <2>1, <3>1
      <3>3. QED  BY <2>1, <2>3, <3>2
    <2>4. CASE ~(j < i) /\ k < i
      <3>1. old[j + 1] = old[k]
        BY <1>2, <2>1, <2>4
      <3>2. j + 1 = k
        BY <1>4, <2>0, <2>1, <3>1
      <3>3. QED  BY <2>1, <2>4, <3>2
    <2>5. CASE ~(j < i) /\ ~(k < i)
      <3>1. old[j + 1] = old[k + 1]
        BY <1>2, <2>1, <2>5
      <3>2. j + 1 = k + 1
        BY <1>4, <2>0, <2>1, <3>1
      <3>3. QED  BY <2>1, <3>2
    <2>6. QED  BY <2>2, <2>3, <2>4, <2>5
  <1>8. ASSUME NEW t \in Sides, NEW q \in Prices, NEW x \in Orders
        PROVE  InLevel(t, q, x)' <=> InLevel(t, q, x) /\ x # gone
    <2>1. CASE t = s /\ q = p
      BY <1>3, <1>6, <2>1 DEF InLevel, old
    <2>2. CASE ~(t = s /\ q = p)
      BY <1>3, <1>5, <2>2 DEF InLevel
    <2>3. QED  BY <2>1, <2>2
  <1>9. RestingOnce'
    <2> SUFFICES ASSUME NEW t \in Sides, NEW q \in Prices,
                        NEW j \in 1..Len(levels'[t][q]), NEW k \in 1..Len(levels'[t][q]),
                        levels'[t][q][j] = levels'[t][q][k]
                 PROVE  j = k
      BY DEF RestingOnce
    <2>1. CASE t = s /\ q = p
      BY <1>3, <1>7, <2>1
    <2>2. CASE ~(t = s /\ q = p)
      BY <1>3, <2>2 DEF RestingOnce
    <2>3. QED  BY <2>1, <2>2
  <1>10. ASSUME NEW t \in Sides, NEW q \in Occupied(t)'
         PROVE  q \in Occupied(t)
    <2>1. q \in Prices /\ levels'[t][q] # <<>>
      BY DEF Occupied
    <2>2. CASE t = s /\ q = p
      <3>1. old # <<>>
        BY <1>1 DEF old
      <3>2. QED  BY <2>1, <2>2, <3>1 DEF Occupied, old
    <2>3. CASE ~(t = s /\ q = p)
      BY <1>3, <2>1, <2>3 DEF Occupied
    <2>4. QED  BY <2>2, <2>3
  <1>11. QED  BY <1>8, <1>9, <1>10 DEF gone, old

\* Resting an order: its level ends with it, everything else is as it was.
LEMMA AddFacts ==
    ASSUME TypeOK, NEW s \in Sides, NEW p \in Prices, NEW o \in Orders,
           AddOrder(s, p, o)
    PROVE  /\ levels' \in [Sides -> [Prices -> Seq(Orders)]]
           /\ total' \in [Sides -> [Prices -> Int]]
           /\ levels'[s][p] = Append(levels[s][p], o)
           /\ \A t \in Sides, q \in Prices :
                 ~(t = s /\ q = p) => levels'[t][q] = levels[t][q]
  <1>1. levels[s][p] \in Seq(Orders)
    BY DEF TypeOK
  <1> DEFINE new == Append(levels[s][p], o)
  <1>2. new \in Seq(Orders)
    BY <1>1
  <1>3. levels' = [levels EXCEPT ![s][p] = new]
    BY DEF AddOrder
  <1>4. total' = [total EXCEPT ![s][p] = @ + order[o].remaining]
    BY DEF AddOrder
  <1>5. order[o].remaining \in Nat
    BY DEF TypeOK, OrderRec
  <1> HIDE DEF new
  <1>6. levels' \in [Sides -> [Prices -> Seq(Orders)]]
    BY <1>2, <1>3 DEF TypeOK
  <1>7. total' \in [Sides -> [Prices -> Int]]
    BY <1>4, <1>5 DEF TypeOK
  <1>8. /\ levels'[s][p] = new
        /\ \A t \in Sides, q \in Prices :
              ~(t = s /\ q = p) => levels'[t][q] = levels[t][q]
    BY <1>3 DEF TypeOK
  <1>9. QED  BY <1>6, <1>7, <1>8 DEF new

\* After resting an order that was not in the book, the book holds it and the
\* orders it held, once each.
LEMMA AddBook ==
    ASSUME TypeOK, RestingOnce, NEW s \in Sides, NEW p \in Prices,
           NEW o \in Orders, ~InBook(o), AddOrder(s, p, o)
    PROVE  /\ \A t \in Sides, q \in Prices, x \in Orders :
                 InLevel(t, q, x)' <=> InLevel(t, q, x) \/ (t = s /\ q = p /\ x = o)
           /\ RestingOnce'
           /\ \A t \in Sides, q \in Prices :
                 q \in Occupied(t)' => q \in Occupied(t) \/ (t = s /\ q = p)
  <1> DEFINE old == levels[s][p]
             new == Append(old, o)
  <1>1. old \in Seq(Orders)
    BY DEF TypeOK
  <1>2. /\ Len(old) \in Nat /\ Len(new) = Len(old) + 1
        /\ \A j \in 1..Len(old) : new[j] = old[j]
        /\ new[Len(old) + 1] = o
    BY <1>1
  <1>3. /\ levels'[s][p] = new
        /\ \A t \in Sides, q \in Prices :
              ~(t = s /\ q = p) => levels'[t][q] = levels[t][q]
    BY AddFacts
  <1>4. \A j \in 1..Len(old) : old[j] # o
    BY DEF InBook, InLevel
  <1>5. \A j, k \in 1..Len(old) : old[j] = old[k] => j = k
    BY DEF RestingOnce
  <1> HIDE DEF old, new
  <1>6. \A x \in Orders : (\E j \in 1..Len(new) : new[j] = x)
                           <=> (\E j \in 1..Len(old) : old[j] = x) \/ x = o
    <2>1. \A j \in 1..Len(new) : j \in 1..Len(old) \/ j = Len(old) + 1
      BY <1>2
    <2>2. \A j \in 1..Len(old) : j \in 1..Len(new)
      BY <1>2
    <2>3. Len(old) + 1 \in 1..Len(new)
      BY <1>2
    <2>4. QED  BY <1>2, <2>1, <2>2, <2>3
  <1>7. \A j, k \in 1..Len(new) : new[j] = new[k] => j = k
    <2>1. \A j \in 1..Len(new) : j \in 1..Len(old) \/ j = Len(old) + 1
      BY <1>2
    <2>2. QED  BY <1>2, <1>4, <1>5, <2>1
  <1>8. ASSUME NEW t \in Sides, NEW q \in Prices, NEW x \in Orders
        PROVE  InLevel(t, q, x)' <=> InLevel(t, q, x) \/ (t = s /\ q = p /\ x = o)
    <2>1. CASE t = s /\ q = p
      BY <1>3, <1>6, <2>1 DEF InLevel, old
    <2>2. CASE ~(t = s /\ q = p)
      BY <1>3, <2>2 DEF InLevel
    <2>3. QED  BY <2>1, <2>2
  <1>9. RestingOnce'
    <2> SUFFICES ASSUME NEW t \in Sides, NEW q \in Prices,
                        NEW j \in 1..Len(levels'[t][q]), NEW k \in 1..Len(levels'[t][q]),
                        levels'[t][q][j] = levels'[t][q][k]
                 PROVE  j = k
      BY DEF RestingOnce
    <2>1. CASE t = s /\ q = p
      BY <1>3, <1>7, <2>1
    <2>2. CASE ~(t = s /\ q = p)
      BY <1>3, <2>2 DEF RestingOnce
    <2>3. QED  BY <2>1, <2>2
  <1>10. QED
    BY <1>3, <1>8, <1>9 DEF Occupied

-----------------------------------------------------------------------------
(* What a match does *)

\* The effect of a match of q units of the incoming order o with the maker b.
MatchEffect(o, p, b, q) ==
    /\ b # o
    /\ b = levels[Opposite(order[o].side)][p][1]
    /\ 1 \in 1..Len(levels[Opposite(order[o].side)][p])
    /\ q = MatchQuantity(o, b)
    /\ 0 < q /\ q <= order[o].remaining /\ q <= order[b].remaining
    /\ order' = [order EXCEPT
          ![o] = [Filled(order[o], q) EXCEPT
                    !.status = StatusAfterMatch(o, order[o].remaining - q)],
          ![b] = [Filled(order[b], q) EXCEPT
                    !.status = IF order[b].remaining - q = 0 THEN "FILLED" ELSE "PARTIAL"]]
    /\ \/ /\ order[b].remaining - q = 0
          /\ RemoveOrder(Opposite(order[o].side), p, 1, 0)
       \/ /\ order[b].remaining - q # 0
          /\ total' \in [Sides -> [Prices -> Int]]
          /\ UNCHANGED levels
    /\ matches' = Append(matches, MatchResult(o, b, p, q))
    /\ \/ /\ StatusAfterMatch(o, order[o].remaining - q) \in {"FILLED", "CANCELLED"}
          /\ EndTurn(o)
       \/ /\ StatusAfterMatch(o, order[o].remaining - q) \notin {"FILLED", "CANCELLED"}
          /\ StayInTurn(o)

LEMMA OppositeSide == \A s \in Sides : Opposite(s) \in Sides /\ Opposite(s) # s
  BY DEF Sides, Opposite

\* A match trades a positive quantity, no more than either side has left, with
\* the first order of the level.
LEMMA MatchHasEffect ==
    ASSUME IInv, NEW o \in Orders, NEW p \in Prices, MyTurn(o),
           order[o].remaining > 0, Matchable(o, p), MatchAt(o, p)
    PROVE  \E b \in Orders, q \in Nat : MatchEffect(o, p, b, q)
  <1> DEFINE s == Opposite(order[o].side)
             b == Maker(o, p)
             q == MatchQuantity(o, b)
  <1>1. order[o] \in OrderRec /\ order[o].side \in Sides /\ order[o].remaining \in Nat
    BY DEF IInv, TypeOK, OrderRec
  <1>2. s \in Sides
    BY <1>1, OppositeSide
  <1>3. levels[s][p] \in Seq(Orders) /\ levels[s][p] # <<>>
    BY <1>2 DEF IInv, TypeOK, Matchable, IsBest, Occupied
  <1>4. 1 \in 1..Len(levels[s][p]) /\ b \in Orders /\ b = levels[s][p][1]
    BY <1>3 DEF Maker
  <1>5. InLevel(s, p, b)
    BY <1>4 DEF InLevel
  <1>6. pc[b] = "done" /\ order[b].remaining > 0
    BY <1>2, <1>4, <1>5 DEF IInv, RestingAreOpen
  <1>7. b # o
    BY <1>6 DEF MyTurn
  <1>8. order[b].remaining \in Nat
    BY <1>4 DEF IInv, TypeOK, OrderRec
  <1> HIDE DEF b
  <1>9. q \in Nat /\ 0 < q /\ q <= order[o].remaining /\ q <= order[b].remaining
    BY <1>1, <1>6, <1>8 DEF MatchQuantity
  <1>10. MatchAt(o, p)
    OBVIOUS
  <1> HIDE DEF q
  \* The order object already holds what updateOrderQuantity writes into it.
  <1>17. Requantified(Filled(order[b], q), order[b].remaining - q) = Filled(order[b], q)
    <2>1. order[b] \in OrderRec /\ order[b].filled + order[b].remaining = order[b].qty
      BY <1>4 DEF IInv, TypeOK, QuantityKept
    <2>2. /\ Filled(order[b], q) = [order[b] EXCEPT !.remaining = order[b].remaining - q,
                                                    !.filled = order[b].filled + q]
          /\ order[b].filled \in Nat /\ order[b].remaining \in Nat /\ order[b].qty \in Nat
      BY <2>1 DEF Filled, OrderRec
    <2>3. order[b].qty - (order[b].remaining - q) = order[b].filled + q
      BY <1>9, <2>1, <2>2
    <2>4. QED  BY <2>1, <2>2, <2>3 DEF Requantified, OrderRec
  <1>11. order' = [order EXCEPT
          ![o] = [Filled(order[o], q) EXCEPT
                    !.status = StatusAfterMatch(o, order[o].remaining - q)],
          ![b] = [Filled(order[b], q) EXCEPT
                    !.status = IF order[b].remaining - q = 0 THEN "FILLED" ELSE "PARTIAL"]]
    BY <1>4, <1>7, <1>10, <1>17 DEF MatchAt, b, q, IInv, TypeOK
  <1>12. \/ /\ order[b].remaining - q = 0
            /\ RemoveOrder(s, p, 1, 0)
         \/ /\ order[b].remaining - q # 0
            /\ total' \in [Sides -> [Prices -> Int]]
            /\ UNCHANGED levels
    <2>1. CASE order[b].remaining - q = 0
      BY <1>10, <2>1 DEF MatchAt, b, q
    <2>2. CASE order[b].remaining - q # 0
      <3>1. UpdateOrderQuantity(s, p, order[b].remaining - q, order[b].remaining - q)
        BY <1>10, <2>2 DEF MatchAt, b, q
      <3>2. total \in [Sides -> [Prices -> Int]]
        BY DEF IInv, TypeOK
      <3>3. order[b].remaining - q \in Nat
        BY <1>8, <1>9
      <3>4. QED  BY <1>2, <2>2, <3>1, <3>2, <3>3 DEF UpdateOrderQuantity
    <2>3. QED  BY <2>1, <2>2
  <1>13. matches' = Append(matches, MatchResult(o, b, p, q))
    BY <1>10 DEF MatchAt, b, q
  <1>14. \/ /\ StatusAfterMatch(o, order[o].remaining - q) \in {"FILLED", "CANCELLED"}
            /\ EndTurn(o)
         \/ /\ StatusAfterMatch(o, order[o].remaining - q) \notin {"FILLED", "CANCELLED"}
            /\ StayInTurn(o)
    BY <1>10 DEF MatchAt, b, q
  <1>15. MatchEffect(o, p, b, q)
    <2>1. q = MatchQuantity(o, b)
      BY DEF q
    <2>2. QED  BY <1>4, <1>7, <1>9, <1>11, <1>12, <1>13, <1>14, <2>1 DEF MatchEffect
  <1>16. QED  BY <1>4, <1>9, <1>15

SameTerms(new, old) ==
    /\ new.side = old.side /\ new.type = old.type /\ new.price = old.price
    /\ new.stop = old.stop /\ new.qty = old.qty /\ new.tif = old.tif

\* A fill moves q units from remaining to filled and leaves the terms alone.
LEMMA FilledFacts ==
    ASSUME NEW rec \in OrderRec, NEW q \in Nat, q <= rec.remaining, NEW st \in Status
    PROVE  LET new == [Filled(rec, q) EXCEPT !.status = st]
           IN  /\ new \in OrderRec /\ SameTerms(new, rec)
               /\ new.remaining = rec.remaining - q
               /\ new.filled = rec.filled + q
               /\ new.status = st
  <1>1. Filled(rec, q) = [rec EXCEPT !.remaining = rec.remaining - q,
                                     !.filled = rec.filled + q]
    BY DEF Filled, OrderRec
  <1>2. rec.remaining - q \in Nat /\ rec.filled + q \in Nat
    BY DEF OrderRec
  <1>3. Filled(rec, q) \in OrderRec
    BY <1>1, <1>2 DEF OrderRec
  <1>4. /\ SameTerms(Filled(rec, q), rec)
        /\ Filled(rec, q).remaining = rec.remaining - q
        /\ Filled(rec, q).filled = rec.filled + q
    BY <1>1 DEF OrderRec, SameTerms
  <1> DEFINE mid == Filled(rec, q)
  <1> HIDE DEF mid
  <1>5. mid \in OrderRec
    BY <1>3 DEF mid
  <1>6. LET new == [mid EXCEPT !.status = st]
        IN  /\ new \in OrderRec /\ SameTerms(new, mid)
            /\ new.remaining = mid.remaining /\ new.filled = mid.filled
            /\ new.status = st
    BY <1>5 DEF OrderRec, SameTerms
  <1>7. QED
    BY <1>4, <1>6 DEF mid, SameTerms

LEMMA StatusFacts ==
    ASSUME NEW o \in Orders, NEW left, order[o].status \in Status
    PROVE  StatusAfterMatch(o, left) \in Status
  BY DEF StatusAfterMatch, Status

\* The order objects after a match.
LEMMA MatchOrders ==
    ASSUME TypeOK, NEW o \in Orders, NEW p \in Prices, NEW b \in Orders,
           NEW q \in Nat, MatchEffect(o, p, b, q)
    PROVE  /\ order' \in [Orders -> OrderRec]
           /\ \A x \in Orders : SameTerms(order'[x], order[x])
           /\ \A x \in Orders : x \notin {o, b} => order'[x] = order[x]
           /\ \A x \in {o, b} :
                 /\ order'[x].remaining = order[x].remaining - q
                 /\ order'[x].filled = order[x].filled + q
           /\ order'[o].status = StatusAfterMatch(o, order[o].remaining - q)
           /\ order'[b].status = IF order[b].remaining - q = 0 THEN "FILLED" ELSE "PARTIAL"
  <1> DEFINE so == StatusAfterMatch(o, order[o].remaining - q)
             sb == IF order[b].remaining - q = 0 THEN "FILLED" ELSE "PARTIAL"
             ro == [Filled(order[o], q) EXCEPT !.status = so]
             rb == [Filled(order[b], q) EXCEPT !.status = sb]
  <1>1. order \in [Orders -> OrderRec] /\ order[o] \in OrderRec /\ order[b] \in OrderRec
    BY DEF TypeOK
  <1>2. so \in Status
    BY <1>1, StatusFacts DEF OrderRec
  <1>3. sb \in Status
    BY DEF Status
  <1>4. q <= order[o].remaining /\ q <= order[b].remaining /\ b # o
    BY DEF MatchEffect
  <1>5. order' = [order EXCEPT ![o] = ro, ![b] = rb]
    BY DEF MatchEffect
  <1> HIDE DEF so, sb
  <1>6. /\ ro \in OrderRec /\ SameTerms(ro, order[o])
        /\ ro.remaining = order[o].remaining - q
        /\ ro.filled = order[o].filled + q
        /\ ro.status = so
    BY <1>1, <1>2, <1>4, FilledFacts
  <1>7. /\ rb \in OrderRec /\ SameTerms(rb, order[b])
        /\ rb.remaining = order[b].remaining - q
        /\ rb.filled = order[b].filled + q
        /\ rb.status = sb
    BY <1>1, <1>3, <1>4, FilledFacts
  <1> HIDE DEF ro, rb
  <1>8. /\ order' \in [Orders -> OrderRec]
        /\ order'[o] = ro /\ order'[b] = rb
        /\ \A x \in Orders : x \notin {o, b} => order'[x] = order[x]
    BY <1>1, <1>4, <1>5, <1>6, <1>7
  <1>9. \A x \in Orders : SameTerms(order'[x], order[x])
    BY <1>6, <1>7, <1>8 DEF SameTerms
  <1>10. QED
    BY <1>6, <1>7, <1>8, <1>9 DEF so, sb

\* The book after a match: the maker leaves it when it is filled.
LEMMA MatchBook ==
    ASSUME IInv, NEW o \in Orders, NEW p \in Prices, NEW b \in Orders,
           NEW q \in Nat, MatchEffect(o, p, b, q)
    PROVE  /\ levels' \in [Sides -> [Prices -> Seq(Orders)]]
           /\ total' \in [Sides -> [Prices -> Int]]
           /\ \A t \in Sides, r \in Prices, x \in Orders :
                 InLevel(t, r, x)' <=>
                     InLevel(t, r, x) /\ ~(x = b /\ order[b].remaining - q = 0)
           /\ RestingOnce'
           /\ \A t \in Sides : Occupied(t)' \subseteq Occupied(t)
           /\ InLevel(Opposite(order[o].side), p, b)
  <1> DEFINE s == Opposite(order[o].side)
  <1>1. TypeOK /\ RestingAreOpen /\ RestingOnce
    BY DEF IInv
  <1>2. s \in Sides
    BY <1>1, OppositeSide DEF TypeOK, OrderRec
  <1>3. b = levels[s][p][1] /\ 1 \in 1..Len(levels[s][p])
    BY DEF MatchEffect
  <1>4. InLevel(s, p, b)
    BY <1>3 DEF InLevel
  <1>5. CASE order[b].remaining - q = 0 /\ RemoveOrder(s, p, 1, 0)
    <2> HIDE DEF s
    <2>1. /\ levels' \in [Sides -> [Prices -> Seq(Orders)]]
          /\ total' \in [Sides -> [Prices -> Int]]
      BY <1>1, <1>2, <1>3, <1>5, RemoveFacts
    <2>2. /\ \A t \in Sides, r \in Prices, x \in Orders :
                InLevel(t, r, x)' <=> InLevel(t, r, x) /\ x # levels[s][p][1]
          /\ RestingOnce'
          /\ \A t \in Sides : Occupied(t)' \subseteq Occupied(t)
      BY <1>1, <1>2, <1>3, <1>5, RemoveBook
    <2>3. QED  BY <1>3, <1>4, <1>5, <2>1, <2>2 DEF s
  <1>6. CASE /\ order[b].remaining - q # 0
             /\ total' \in [Sides -> [Prices -> Int]]
             /\ UNCHANGED levels
    BY <1>1, <1>4, <1>6 DEF TypeOK, InLevel, RestingOnce, Occupied
  <1>7. QED
    BY <1>5, <1>6 DEF MatchEffect

\* Each match keeps the inductive invariant.
LEMMA ExecuteMatchKeepsIInv ==
    ASSUME IInv, NEW o \in Orders, ExecuteMatch(o)
    PROVE  IInv'
  <1>1. PICK p \in Prices : Matchable(o, p) /\ MatchAt(o, p)
    BY DEF ExecuteMatch
  <1>2. PICK b \in Orders, q \in Nat : MatchEffect(o, p, b, q)
    BY <1>1, MatchHasEffect DEF ExecuteMatch
  <1> DEFINE s == Opposite(order[o].side)
  <1>3. /\ pc[o] = "locked" /\ running \in {Nobody, o}
        /\ UNCHANGED <<cancelPc, arrival, clock, batch>>
    BY DEF ExecuteMatch, MyTurn
  <1>4. /\ TypeOK /\ RestingAreOpen /\ OpenAreResting /\ BookUncrossed /\ QuantityKept
        /\ InFlightValid /\ UnfinishedArePending /\ MatchedHadTheirTurn /\ LimitsRespected
    BY DEF IInv
  <1>5. /\ order' \in [Orders -> OrderRec]
        /\ \A x \in Orders : SameTerms(order'[x], order[x])
        /\ \A x \in Orders : x \notin {o, b} => order'[x] = order[x]
        /\ \A x \in {o, b} : /\ order'[x].remaining = order[x].remaining - q
                             /\ order'[x].filled = order[x].filled + q
        /\ order'[o].status = StatusAfterMatch(o, order[o].remaining - q)
        /\ order'[b].status = IF order[b].remaining - q = 0 THEN "FILLED" ELSE "PARTIAL"
    BY <1>2, <1>4, MatchOrders
  <1>6. /\ levels' \in [Sides -> [Prices -> Seq(Orders)]]
        /\ total' \in [Sides -> [Prices -> Int]]
        /\ \A t \in Sides, r \in Prices, x \in Orders :
              InLevel(t, r, x)' <=>
                  InLevel(t, r, x) /\ ~(x = b /\ order[b].remaining - q = 0)
        /\ RestingOnce'
        /\ \A t \in Sides : Occupied(t)' \subseteq Occupied(t)
        /\ InLevel(s, p, b)
    BY <1>2, MatchBook
  <1>7. s \in Sides /\ s # order[o].side
    BY <1>4, OppositeSide DEF TypeOK, OrderRec
  <1>8. /\ order[b].side = s /\ order[b].price = p /\ order[b].type = "LIMIT"
        /\ pc[b] = "done" /\ order[b].remaining > 0
    BY <1>4, <1>6, <1>7 DEF RestingAreOpen
  <1>9. /\ b # o /\ q <= order[o].remaining /\ q <= order[b].remaining
        /\ matches' = Append(matches, MatchResult(o, b, p, q))
    BY <1>2 DEF MatchEffect
  <1>10. \/ /\ order'[o].status \in {"FILLED", "CANCELLED"}
            /\ pc' = [pc EXCEPT ![o] = "done"] /\ lock' = FALSE /\ running' = Nobody
         \/ /\ order'[o].status = order[o].status
            /\ pc' = pc /\ lock' = lock /\ running' = o
    BY <1>2, <1>5 DEF MatchEffect, EndTurn, StayInTurn, StatusAfterMatch
  <1>11. /\ pc' \in [Orders -> SubmitPc]
         /\ pc'[o] \in {"locked", "done"}
         /\ \A x \in Orders : x # o => pc'[x] = pc[x]
    BY <1>3, <1>4, <1>10 DEF TypeOK, SubmitPc
  <1>12. ~InBook(o)
    BY <1>3, <1>4 DEF InBook, RestingAreOpen
  <1> HIDE DEF s
  <1>13. TypeOK'
    <2>1. MatchResult(o, b, p, q) \in Match
      BY PricesPositive DEF MatchResult, Match
    <2>2. matches' \in Seq(Match)
      BY <1>4, <1>9, <2>1 DEF TypeOK
    <2>3. lock' \in BOOLEAN /\ running' \in Orders \cup {Nobody}
      BY <1>4, <1>10 DEF TypeOK
    <2>4. /\ cancelPc' \in [Orders -> CancelPc] /\ arrival' \in [Orders -> Nat]
          /\ clock' \in Nat /\ batch' \in [Orders -> SUBSET Orders]
      BY <1>3, <1>4 DEF TypeOK
    <2>5. QED  BY <1>5, <1>6, <1>11, <2>2, <2>3, <2>4 DEF TypeOK
  <1>14. RestingAreOpen'
    <2> SUFFICES ASSUME NEW t \in Sides, NEW r \in Prices, NEW x \in Orders, InLevel(t, r, x)'
                 PROVE  /\ order'[x].side = t /\ order'[x].price = r
                        /\ order'[x].type = "LIMIT" /\ pc'[x] = "done"
                        /\ order'[x].remaining > 0 /\ order'[x].status \in OpenStatus
      BY DEF RestingAreOpen
    <2>1. InLevel(t, r, x) /\ ~(x = b /\ order[b].remaining - q = 0)
      BY <1>6
    <2>2. /\ order[x].side = t /\ order[x].price = r
          /\ order[x].type = "LIMIT" /\ pc[x] = "done"
          /\ order[x].remaining > 0 /\ order[x].status \in OpenStatus
      BY <1>4, <2>1 DEF RestingAreOpen
    <2>3. x # o
      BY <1>12, <2>1 DEF InBook
    <2>4. /\ order'[x].side = t /\ order'[x].price = r /\ order'[x].type = "LIMIT"
          /\ pc'[x] = "done"
      BY <1>5, <1>11, <2>2, <2>3 DEF SameTerms
    <2>5. order'[x].remaining > 0 /\ order'[x].status \in OpenStatus
      <3>1. CASE x = b
        <4>1. order[b].remaining \in Nat /\ order[b].remaining - q # 0
          BY <1>4, <2>1, <3>1 DEF TypeOK, OrderRec
        <4>2. QED  BY <1>5, <1>9, <3>1, <4>1 DEF OpenStatus
      <3>2. CASE x # b
        BY <1>5, <2>2, <2>3, <3>2
      <3>3. QED  BY <3>1, <3>2
    <2>6. QED  BY <2>4, <2>5
  <1>15. OpenAreResting'
    <2> SUFFICES ASSUME NEW x \in Orders, pc'[x] = "done", order'[x].type = "LIMIT",
                        order'[x].status \in OpenStatus
                 PROVE  InBook(x)'
      BY DEF OpenAreResting
    <2>1. x # o
      BY <1>3, <1>10 DEF OpenStatus
    <2>2. \E t \in Sides, r \in Prices : InLevel(t, r, x)
      <3>1. CASE x = b
        BY <1>6, <1>7, <3>1
      <3>2. CASE x # b
        <4>1. pc[x] = "done" /\ order[x].type = "LIMIT" /\ order[x].status \in OpenStatus
          BY <1>5, <1>11, <2>1, <3>2
        <4>2. QED  BY <1>4, <4>1 DEF OpenAreResting, InBook
      <3>3. QED  BY <3>1, <3>2
    <2>3. ~(x = b /\ order[b].remaining - q = 0)
      BY <1>5 DEF OpenStatus
    <2>4. QED  BY <1>6, <2>2, <2>3 DEF InBook
  <1>16. BookUncrossed'
    BY <1>4, <1>6 DEF BookUncrossed, Sides
  <1>17. QuantityKept'
    <2> SUFFICES ASSUME NEW x \in Orders
                 PROVE  order'[x].filled + order'[x].remaining = order'[x].qty
      BY DEF QuantityKept
    <2>1. order[x].filled + order[x].remaining = order[x].qty
      BY <1>4 DEF QuantityKept
    <2>2. order[x].filled \in Nat /\ order[x].remaining \in Nat
      BY <1>4 DEF TypeOK, OrderRec
    <2>3. order'[x].qty = order[x].qty
      BY <1>5 DEF SameTerms
    <2>4. CASE x \in {o, b}
      BY <1>5, <2>1, <2>2, <2>3, <2>4
    <2>5. CASE x \notin {o, b}
      BY <1>5, <2>1, <2>5
    <2>6. QED  BY <2>4, <2>5
  <1>18. InFlightValid'
    <2> SUFFICES ASSUME NEW x \in Orders, pc'[x] \in {"polling", "locked"}
                 PROVE  ValidOrder(order'[x]) /\ order'[x].type \in {"LIMIT", "MARKET"}
      BY DEF InFlightValid
    <2>1. pc[x] \in {"polling", "locked"}
      BY <1>3, <1>11
    <2>2. ValidOrder(order[x]) /\ order[x].type \in {"LIMIT", "MARKET"}
      BY <1>4, <2>1 DEF InFlightValid
    <2>3. SameTerms(order'[x], order[x])
      BY <1>5
    <2>4. QED  BY <2>2, <2>3 DEF SameTerms, ValidOrder
  <1>19. UnfinishedArePending'
    <2> SUFFICES ASSUME NEW x \in Orders, pc'[x] # "done"
                 PROVE  order'[x].status = "PENDING"
      BY DEF UnfinishedArePending
    <2>1. CASE x = o
      <3>1. order'[o].status = order[o].status
        BY <1>4, <1>10, <2>1 DEF TypeOK
      <3>2. QED  BY <1>3, <1>4, <2>1, <3>1 DEF UnfinishedArePending
    <2>2. CASE x # o
      <3>1. pc[x] # "done" /\ x # b
        BY <1>8, <1>11, <2>2
      <3>2. QED  BY <1>4, <1>5, <2>2, <3>1 DEF UnfinishedArePending
    <2>3. QED  BY <2>1, <2>2
  <1>20. /\ \A i \in DOMAIN matches' :
              \/ i \in DOMAIN matches /\ matches'[i] = matches[i]
              \/ matches'[i] = MatchResult(o, b, p, q)
         /\ \A i \in DOMAIN matches : matches[i].buy \in Orders /\ matches[i].sell \in Orders
    <2>1. matches \in Seq(Match)
      BY <1>4 DEF TypeOK
    <2>2. \A i \in DOMAIN matches : matches[i] \in Match
      BY <2>1
    <2> DEFINE new == MatchResult(o, b, p, q)
    <2> HIDE DEF new
    <2>3. matches' = Append(matches, new)
      BY <1>9 DEF new
    <2>4. \A i \in DOMAIN matches' :
              \/ i \in DOMAIN matches /\ matches'[i] = matches[i]
              \/ matches'[i] = new
      BY <2>1, <2>3
    <2>5. QED  BY <2>2, <2>4 DEF new, Match
  <1> DEFINE new == MatchResult(o, b, p, q)
  <1>21. new.buy \in {o, b} /\ new.sell \in {o, b}
    BY DEF MatchResult
  <1>22. MatchedHadTheirTurn'
    <2> SUFFICES ASSUME NEW i \in DOMAIN matches'
                 PROVE  /\ pc'[matches'[i].buy] \in {"locked", "done"}
                        /\ pc'[matches'[i].sell] \in {"locked", "done"}
      BY DEF MatchedHadTheirTurn
    <2>1. \A x \in Orders : pc[x] \in {"locked", "done"} => pc'[x] \in {"locked", "done"}
      BY <1>11
    <2>2. CASE i \in DOMAIN matches /\ matches'[i] = matches[i]
      BY <1>4, <1>20, <2>1, <2>2 DEF MatchedHadTheirTurn
    <2>3. CASE matches'[i] = new
      <3>1. \A x \in {o, b} : pc'[x] \in {"locked", "done"}
        BY <1>3, <1>8, <2>1
      <3>2. QED  BY <1>21, <2>3, <3>1
    <2>4. QED  BY <1>20, <2>2, <2>3
  <1>23. LimitsRespected'
    <2> DEFINE Fair(m, or) ==
                 /\ or[m.buy].side = "BUY" /\ or[m.sell].side = "SELL"
                 /\ or[m.buy].type = "LIMIT" => m.price <= or[m.buy].price
                 /\ or[m.sell].type = "LIMIT" => m.price >= or[m.sell].price
    <2> SUFFICES ASSUME NEW i \in DOMAIN matches'
                 PROVE  Fair(matches'[i], order')
      BY DEF LimitsRespected
    <2>1. CASE i \in DOMAIN matches /\ matches'[i] = matches[i]
      <3>1. Fair(matches[i], order)
        BY <1>4, <2>1 DEF LimitsRespected
      <3>2. SameTerms(order'[matches[i].buy], order[matches[i].buy])
            /\ SameTerms(order'[matches[i].sell], order[matches[i].sell])
        BY <1>5, <1>20, <2>1
      <3>3. QED  BY <2>1, <3>1, <3>2 DEF SameTerms
    <2>2. CASE matches'[i] = new
      <3>1. SameTerms(order'[o], order[o]) /\ SameTerms(order'[b], order[b])
        BY <1>5
      <3>2. Crosses(o, p) /\ ValidOrder(order[o])
        BY <1>1, <1>3, <1>4 DEF Matchable, InFlightValid
      <3>3. order[o].type = "LIMIT" =>
              IF order[o].side = "BUY" THEN p <= order[o].price ELSE p >= order[o].price
        BY <3>2 DEF Crosses, ValidOrder
      <3>4. p \in Nat
        BY PricesPositive
      <3>5. CASE order[o].side = "BUY"
        <4>1. new.buy = o /\ new.sell = b /\ new.price = p
          BY <3>5 DEF MatchResult
        <4>2. order[b].side = "SELL"
          BY <1>8, <3>5 DEF s, Opposite
        <4>3. QED  BY <1>8, <2>2, <3>1, <3>3, <3>4, <3>5, <4>1, <4>2 DEF SameTerms
      <3>6. CASE order[o].side # "BUY"
        <4>1. new.buy = b /\ new.sell = o /\ new.price = p
          BY <3>6 DEF MatchResult
        <4>2. order[b].side = "BUY" /\ order[o].side = "SELL"
          BY <1>4, <1>8, <3>6 DEF s, Opposite, TypeOK, OrderRec, Sides
        <4>3. QED  BY <1>8, <2>2, <3>1, <3>3, <3>4, <3>6, <4>1, <4>2 DEF SameTerms
      <3>7. QED  BY <3>5, <3>6
    <2>3. QED  BY <1>20, <2>1, <2>2
  <1>24. QED
    BY <1>6, <1>13, <1>14, <1>15, <1>16, <1>17, <1>18, <1>19, <1>22, <1>23 DEF IInv

-----------------------------------------------------------------------------
(* The other actions *)

\* Facts about the order records the actions write.
LEMMA RecordFacts ==
    /\ BlankOrder \in OrderRec
    /\ \A r \in Request : NewOrder(r) \in OrderRec
    /\ \A rec \in OrderRec, st \in Status :
          /\ [rec EXCEPT !.status = st] \in OrderRec
          /\ SameTerms([rec EXCEPT !.status = st], rec)
          /\ [rec EXCEPT !.status = st].remaining = rec.remaining
          /\ [rec EXCEPT !.status = st].filled = rec.filled
          /\ [rec EXCEPT !.status = st].status = st
    /\ \A rec \in OrderRec :
          /\ Converted(rec) \in OrderRec
          /\ Converted(rec).status = rec.status
          /\ Converted(rec).filled = rec.filled
          /\ Converted(rec).remaining = rec.remaining
          /\ Converted(rec).qty = rec.qty
          /\ Converted(rec).stop = rec.stop
          /\ Converted(rec).type \in {"LIMIT", "MARKET"}
  <1>1. BlankOrder \in OrderRec
    BY DEF BlankOrder, NewOrder, OrderRec, Sides, Types, Tifs, Status
  <1>2. ASSUME NEW r \in Request
        PROVE  NewOrder(r) \in OrderRec
    BY DEF Request, NewOrder, OrderRec, Status
  <1>3. ASSUME NEW rec \in OrderRec, NEW st \in Status
        PROVE  /\ [rec EXCEPT !.status = st] \in OrderRec
               /\ SameTerms([rec EXCEPT !.status = st], rec)
               /\ [rec EXCEPT !.status = st].remaining = rec.remaining
               /\ [rec EXCEPT !.status = st].filled = rec.filled
               /\ [rec EXCEPT !.status = st].status = st
    BY DEF OrderRec, SameTerms
  <1>4. ASSUME NEW rec \in OrderRec
        PROVE  /\ Converted(rec) \in OrderRec
               /\ Converted(rec).status = rec.status
               /\ Converted(rec).filled = rec.filled
               /\ Converted(rec).remaining = rec.remaining
               /\ Converted(rec).qty = rec.qty
               /\ Converted(rec).stop = rec.stop
               /\ Converted(rec).type \in {"LIMIT", "MARKET"}
    <2>1. CASE rec.type = "STOP_MARKET"
      <3>1. Converted(rec) = [rec EXCEPT !.type = "MARKET", !.price = NoPrice]
        BY <2>1 DEF Converted
      <3>2. QED  BY <3>1 DEF OrderRec, Types
    <2>2. CASE rec.type # "STOP_MARKET"
      <3>1. Converted(rec) = [rec EXCEPT !.type = "LIMIT"]
        BY <2>2 DEF Converted
      <3>2. QED  BY <3>1 DEF OrderRec, Types
    <2>3. QED  BY <2>1, <2>2
  <1>5. QED  BY <1>1, <1>2, <1>3, <1>4

LEMMA NewOrderFacts ==
    ASSUME NEW r \in Request
    PROVE  /\ NewOrder(r).status = "PENDING" /\ NewOrder(r).filled = 0
           /\ NewOrder(r).remaining = NewOrder(r).qty
           /\ NewOrder(r).type = r.type /\ NewOrder(r).stop = r.stop
           /\ ValidOrder(r) => ValidOrder(NewOrder(r))
  BY DEF NewOrder, ValidOrder

LEMMA MatchesTyped ==
    ASSUME TypeOK
    PROVE  \A i \in DOMAIN matches : matches[i].buy \in Orders /\ matches[i].sell \in Orders
  <1>1. matches \in Seq(Match)
    BY DEF TypeOK
  <1>2. \A i \in DOMAIN matches : matches[i] \in Match
    BY <1>1
  <1>3. QED  BY <1>2 DEF Match

\* A step without a match that leaves the terms of the matched orders alone
\* respects the limits.
LEMMA LimitsKept ==
    ASSUME TypeOK, LimitsRespected, UNCHANGED matches,
           \A i \in DOMAIN matches : \A x \in {matches[i].buy, matches[i].sell} :
              SameTerms(order'[x], order[x])
    PROVE  LimitsRespected'
  BY DEF LimitsRespected, SameTerms

LEMMA RequestFacts ==
    \A r \in Requests : r \in Request /\ (r.type \in {"LIMIT", "MARKET"} => r.stop = NoPrice)
  BY RequestsAssumption

\* An order with its turn is not in the book.
LEMMA MyTurnNotInBook ==
    ASSUME RestingAreOpen, NEW o \in Orders, pc[o] # "done"
    PROVE  ~InBook(o)
  BY DEF InBook, RestingAreOpen

\* The status of one order changes, its turn ends, the book stays as it is.
LEMMA EndWithoutResting ==
    ASSUME IInv, NEW o \in Orders, NEW st \in Status, MyTurn(o),
           order' = [order EXCEPT ![o].status = st],
           order[o].type = "LIMIT" => st \notin OpenStatus,
           EndTurn(o), UNCHANGED <<levels, total, cancelPc, arrival, clock, batch, matches>>
    PROVE  IInv'
  <1>1. /\ TypeOK /\ RestingAreOpen /\ RestingOnce /\ OpenAreResting /\ BookUncrossed
        /\ QuantityKept /\ InFlightValid /\ UnfinishedArePending /\ MatchedHadTheirTurn
        /\ LimitsRespected
    BY DEF IInv
  <1>2. pc[o] = "locked"
    BY DEF MyTurn
  <1>3. /\ order' \in [Orders -> OrderRec]
        /\ \A x \in Orders : x # o => order'[x] = order[x]
        /\ SameTerms(order'[o], order[o]) /\ order'[o].remaining = order[o].remaining
        /\ order'[o].filled = order[o].filled /\ order'[o].status = st
    <2>1. order' = [order EXCEPT ![o] = [order[o] EXCEPT !.status = st]]
      BY <1>1 DEF TypeOK
    <2>2. order[o] \in OrderRec
      BY <1>1 DEF TypeOK
    <2>3. QED  BY <1>1, <2>1, <2>2, RecordFacts DEF TypeOK
  <1>4. /\ pc' = [pc EXCEPT ![o] = "done"] /\ lock' = FALSE /\ running' = Nobody
        /\ pc' \in [Orders -> SubmitPc]
    BY <1>1 DEF EndTurn, TypeOK, SubmitPc
  <1>5. \A x \in Orders : SameTerms(order'[x], order[x])
    BY <1>3 DEF SameTerms
  <1>6. ~InBook(o)
    BY <1>1, <1>2, MyTurnNotInBook
  <1>7. TypeOK'
    BY <1>1, <1>3, <1>4 DEF TypeOK
  <1>8. RestingAreOpen'
    BY <1>1, <1>3, <1>4, <1>6 DEF RestingAreOpen, InLevel, InBook, TypeOK
  <1>9. OpenAreResting'
    <2> SUFFICES ASSUME NEW x \in Orders, pc'[x] = "done", order'[x].type = "LIMIT",
                        order'[x].status \in OpenStatus
                 PROVE  InBook(x)'
      BY DEF OpenAreResting
    <2>1. x # o
      BY <1>3 DEF SameTerms
    <2>2. InBook(x)
      BY <1>1, <1>3, <1>4, <2>1 DEF OpenAreResting, TypeOK
    <2>3. QED  BY <2>2 DEF InBook, InLevel
  <1>10. RestingOnce' /\ BookUncrossed'
    BY <1>1 DEF RestingOnce, BookUncrossed, Occupied
  <1>11. QuantityKept'
    BY <1>1, <1>3, <1>5 DEF QuantityKept, SameTerms
  <1>12. InFlightValid' /\ UnfinishedArePending'
    BY <1>1, <1>3, <1>4 DEF InFlightValid, UnfinishedArePending, TypeOK
  <1>13. MatchedHadTheirTurn'
    BY <1>1, <1>2, <1>4 DEF MatchedHadTheirTurn, TypeOK
  <1>14. LimitsRespected'
    <2>1. QED  BY <1>1, <1>5, MatchesTyped, LimitsKept
  <1>15. QED
    BY <1>7, <1>8, <1>9, <1>10, <1>11, <1>12, <1>13, <1>14 DEF IInv

LEMMA EndMarketOrderKeepsIInv ==
    ASSUME IInv, NEW o \in Orders, EndMarketOrder(o)
    PROVE  IInv'
  <1>1. "PARTIAL" \in Status
    BY DEF Status
  <1>2. QED  BY <1>1, EndWithoutResting DEF EndMarketOrder

\* An order rests only when nothing on the other side crosses its price, so
\* the book stays uncrossed.
LEMMA RestLimitOrderKeepsIInv ==
    ASSUME IInv, NEW o \in Orders, RestLimitOrder(o)
    PROVE  IInv'
  <1>1. CASE order[o].tif = "FOK"
    <2>1. "CANCELLED" \in Status /\ "CANCELLED" \notin OpenStatus
      BY DEF Status, OpenStatus
    <2>2. QED  BY <1>1, <2>1, EndWithoutResting DEF RestLimitOrder, bookVars
  <1>2. CASE order[o].tif # "FOK"
    <2> DEFINE st == IF order[o].filled > 0 THEN "PARTIAL" ELSE "PENDING"
               s  == order[o].side
               p  == order[o].price
    <2>1. /\ TypeOK /\ RestingAreOpen /\ RestingOnce /\ OpenAreResting /\ BookUncrossed
          /\ QuantityKept /\ InFlightValid /\ UnfinishedArePending /\ MatchedHadTheirTurn
          /\ LimitsRespected
      BY DEF IInv
    <2>2. /\ pc[o] = "locked" /\ order[o].type = "LIMIT" /\ order[o].remaining > 0
          /\ ~\E r \in Prices : Matchable(o, r)
          /\ EndTurn(o) /\ AddOrder(s, p, o)
          /\ order' = [order EXCEPT ![o].status = st]
          /\ UNCHANGED <<cancelPc, arrival, clock, batch, matches>>
      BY <1>2 DEF RestLimitOrder, MyTurn, NothingToMatch
    <2>3. st \in Status /\ st \in OpenStatus
      BY DEF Status, OpenStatus
    <2> HIDE DEF st
    <2>4. /\ order' \in [Orders -> OrderRec]
          /\ \A x \in Orders : x # o => order'[x] = order[x]
          /\ SameTerms(order'[o], order[o]) /\ order'[o].remaining = order[o].remaining
          /\ order'[o].filled = order[o].filled /\ order'[o].status = st
      <3>1. order' = [order EXCEPT ![o] = [order[o] EXCEPT !.status = st]]
        BY <2>1, <2>2 DEF TypeOK
      <3>2. order[o] \in OrderRec
        BY <2>1 DEF TypeOK
      <3>3. QED  BY <2>1, <2>3, <3>1, <3>2, RecordFacts DEF TypeOK
    <2>5. /\ pc' = [pc EXCEPT ![o] = "done"] /\ lock' = FALSE /\ running' = Nobody
          /\ pc' \in [Orders -> SubmitPc]
      BY <2>1, <2>2 DEF EndTurn, TypeOK, SubmitPc
    <2>6. \A x \in Orders : SameTerms(order'[x], order[x])
      BY <2>4 DEF SameTerms
    <2>7. ~InBook(o)
      BY <2>1, <2>2, MyTurnNotInBook
    <2>8. s \in Sides /\ p \in Prices
      BY <2>1, <2>2 DEF TypeOK, OrderRec, InFlightValid, ValidOrder
    <2> HIDE DEF s, p
    <2>9. /\ levels' \in [Sides -> [Prices -> Seq(Orders)]]
          /\ total' \in [Sides -> [Prices -> Int]]
      BY <2>1, <2>2, <2>8, AddFacts
    <2>10. /\ \A t \in Sides, r \in Prices, x \in Orders :
                InLevel(t, r, x)' <=> InLevel(t, r, x) \/ (t = s /\ r = p /\ x = o)
           /\ RestingOnce'
           /\ \A t \in Sides, r \in Prices :
                r \in Occupied(t)' => r \in Occupied(t) \/ (t = s /\ r = p)
      BY <2>1, <2>2, <2>7, <2>8, AddBook
    <2>11. TypeOK'
      BY <2>1, <2>2, <2>4, <2>5, <2>9 DEF TypeOK
    <2>12. RestingAreOpen'
      <3> SUFFICES ASSUME NEW t \in Sides, NEW r \in Prices, NEW x \in Orders, InLevel(t, r, x)'
                   PROVE  /\ order'[x].side = t /\ order'[x].price = r
                          /\ order'[x].type = "LIMIT" /\ pc'[x] = "done"
                          /\ order'[x].remaining > 0 /\ order'[x].status \in OpenStatus
        BY DEF RestingAreOpen
      <3>1. CASE InLevel(t, r, x)
        <4>1. x # o
          BY <2>7, <3>1 DEF InBook
        <4>2. QED  BY <2>1, <2>4, <2>5, <3>1, <4>1 DEF RestingAreOpen, TypeOK
      <3>2. CASE t = s /\ r = p /\ x = o
        BY <2>1, <2>2, <2>3, <2>4, <2>5, <3>2 DEF SameTerms, s, p, TypeOK
      <3>3. QED  BY <2>10, <3>1, <3>2
    <2>13. OpenAreResting'
      <3> SUFFICES ASSUME NEW x \in Orders, pc'[x] = "done", order'[x].type = "LIMIT",
                          order'[x].status \in OpenStatus
                   PROVE  InBook(x)'
        BY DEF OpenAreResting
      <3>1. CASE x = o
        BY <2>8, <2>10, <3>1 DEF InBook
      <3>2. CASE x # o
        <4>1. InBook(x)
          BY <2>1, <2>4, <2>5, <3>2 DEF OpenAreResting, TypeOK
        <4>2. QED  BY <2>10, <4>1 DEF InBook
      <3>3. QED  BY <3>1, <3>2
    <2>14. BookUncrossed'
      <3>1. \A r \in Occupied(Opposite(s)) : IF s = "BUY" THEN p < r ELSE r < p
        <4> SUFFICES ASSUME NEW r \in Occupied(Opposite(s))
                     PROVE  IF s = "BUY" THEN p < r ELSE r < p
          OBVIOUS
        <4>1. PICK best \in Prices : IsBest(Opposite(s), best)
          BY <2>8, OppositeSide, BestExists
        <4>2. ~Crosses(o, best)
          BY <2>2, <4>1 DEF Matchable, s
        <4>3. ~(IF s = "BUY" THEN best <= p ELSE best >= p)
          BY <4>2 DEF Crosses, s, p
        <4>4. IF Opposite(s) = "BUY" THEN r <= best ELSE best <= r
          BY <4>1 DEF IsBest
        <4>5. r \in Nat /\ best \in Nat /\ p \in Nat
          BY <2>8, <4>1, PricesPositive DEF Occupied
        <4>6. QED  BY <2>8, <4>3, <4>4, <4>5 DEF Opposite, Sides
      <3> SUFFICES ASSUME NEW x \in Occupied("BUY")', NEW y \in Occupied("SELL")'
                   PROVE  x < y
        BY DEF BookUncrossed
      <3>2. x \in Prices /\ y \in Prices
        BY DEF Occupied
      <3>3. x \in Occupied("BUY") \/ (s = "BUY" /\ x = p)
        BY <2>10, <3>2 DEF Sides
      <3>4. y \in Occupied("SELL") \/ (s = "SELL" /\ y = p)
        BY <2>10, <3>2 DEF Sides
      <3>5. QED
        BY <2>1, <2>8, <3>1, <3>3, <3>4 DEF BookUncrossed, Opposite
    <2>15. QuantityKept'
      BY <2>1, <2>4, <2>6 DEF QuantityKept, SameTerms
    <2>16. InFlightValid' /\ UnfinishedArePending'
      BY <2>1, <2>4, <2>5 DEF InFlightValid, UnfinishedArePending, TypeOK
    <2>17. MatchedHadTheirTurn'
      BY <2>1, <2>2, <2>5 DEF MatchedHadTheirTurn, TypeOK
    <2>18. LimitsRespected'
      <3>1. QED  BY <2>1, <2>2, <2>6, MatchesTyped, LimitsKept
    <2>19. QED
      BY <2>10, <2>11, <2>12, <2>13, <2>14, <2>15, <2>16, <2>17, <2>18 DEF IInv
  <1>3. QED  BY <1>1, <1>2

\* A new order object replaces the blank one; the book is not involved.
LEMMA SubmitOrderKeepsIInv ==
    ASSUME IInv, NEW o \in Orders, NEW r \in Request, SubmitOrder(o, r)
    PROVE  IInv'
  <1>1. /\ TypeOK /\ RestingAreOpen /\ RestingOnce /\ OpenAreResting /\ BookUncrossed
        /\ QuantityKept /\ InFlightValid /\ UnfinishedArePending /\ MatchedHadTheirTurn
        /\ LimitsRespected
    BY DEF IInv
  <1>2. /\ pc[o] = "new" /\ running = Nobody
        /\ order' = [order EXCEPT ![o] = NewOrder(r)]
        /\ arrival' = [arrival EXCEPT ![o] = clock + 1] /\ clock' = clock + 1
        /\ UNCHANGED <<levels, total, running, cancelPc, batch, matches>>
    BY DEF SubmitOrder
  <1>3. /\ lock' \in BOOLEAN
        /\ \/ pc' = [pc EXCEPT ![o] = "thrown"]
           \/ pc' = [pc EXCEPT ![o] = "stop"]
           \/ /\ ValidOrder(r) /\ r.type \in {"LIMIT", "MARKET"}
              /\ \/ pc' = [pc EXCEPT ![o] = "polling"]
                 \/ pc' = [pc EXCEPT ![o] = "locked"]
    BY <1>1 DEF SubmitOrder, RequestLock, TypeOK
  <1>4. NewOrder(r) \in OrderRec
    BY RecordFacts
  <1>5. /\ order' \in [Orders -> OrderRec] /\ order'[o] = NewOrder(r)
        /\ \A x \in Orders : x # o => order'[x] = order[x] /\ pc'[x] = pc[x]
        /\ pc' \in [Orders -> SubmitPc] /\ pc'[o] # "done" /\ pc'[o] # "new"
    BY <1>1, <1>2, <1>3, <1>4 DEF TypeOK, SubmitPc
  <1>6. TypeOK'
    BY <1>1, <1>2, <1>3, <1>5 DEF TypeOK
  <1>7. RestingAreOpen'
    BY <1>1, <1>2, <1>5 DEF RestingAreOpen, InLevel
  <1>8. RestingOnce' /\ BookUncrossed'
    BY <1>1, <1>2 DEF RestingOnce, BookUncrossed, Occupied
  <1>9. OpenAreResting'
    BY <1>1, <1>2, <1>5 DEF OpenAreResting, InBook, InLevel
  <1>10. QuantityKept'
    <2>1. NewOrder(r).filled + NewOrder(r).remaining = NewOrder(r).qty
      BY <1>4, NewOrderFacts DEF OrderRec
    <2>2. QED  BY <1>1, <1>5, <2>1 DEF QuantityKept
  <1>11. InFlightValid'
    <2>1. pc'[o] \in {"polling", "locked"} =>
             ValidOrder(order'[o]) /\ order'[o].type \in {"LIMIT", "MARKET"}
      BY <1>1, <1>3, <1>5, NewOrderFacts DEF TypeOK
    <2>2. QED  BY <1>1, <1>5, <2>1 DEF InFlightValid
  <1>12. UnfinishedArePending'
    BY <1>1, <1>5, NewOrderFacts DEF UnfinishedArePending
  <1>13. \A i \in DOMAIN matches : matches[i].buy # o /\ matches[i].sell # o
    BY <1>1, <1>2 DEF MatchedHadTheirTurn
  <1>14. MatchedHadTheirTurn'
    BY <1>1, <1>2, <1>5, <1>13, MatchesTyped DEF MatchedHadTheirTurn
  <1>15. LimitsRespected'
    <2>1. \A i \in DOMAIN matches : \A x \in {matches[i].buy, matches[i].sell} :
            SameTerms(order'[x], order[x])
      BY <1>1, <1>5, <1>13, MatchesTyped DEF SameTerms
    <2>2. QED  BY <1>1, <1>2, <2>1, LimitsKept
  <1>16. QED
    BY <1>6, <1>7, <1>8, <1>9, <1>10, <1>11, <1>12, <1>14, <1>15 DEF IInv

\* The steps that only move calls and the lock along: orders, book and matches
\* stay, and no call leaves "locked" or enters or leaves "done".
LEMMA CallStepKeepsIInv ==
    ASSUME IInv, TypeOK', UNCHANGED <<order, levels, total, matches>>,
           \A x \in Orders : /\ pc[x] = "done" <=> pc'[x] = "done"
                             /\ pc[x] = "locked" => pc'[x] = "locked"
                             /\ pc'[x] \in {"polling", "locked"} => pc[x] \in {"polling", "locked"}
    PROVE  IInv'
  <1>1. /\ TypeOK /\ RestingAreOpen /\ RestingOnce /\ OpenAreResting /\ BookUncrossed
        /\ QuantityKept /\ InFlightValid /\ UnfinishedArePending /\ MatchedHadTheirTurn
        /\ LimitsRespected
    BY DEF IInv
  <1>2. RestingAreOpen' /\ RestingOnce' /\ BookUncrossed' /\ OpenAreResting'
    BY <1>1 DEF RestingAreOpen, RestingOnce, BookUncrossed, OpenAreResting, Occupied,
                InLevel, InBook
  <1>3. QuantityKept' /\ InFlightValid' /\ UnfinishedArePending' /\ LimitsRespected'
    BY <1>1 DEF QuantityKept, InFlightValid, UnfinishedArePending, LimitsRespected
  <1>4. MatchedHadTheirTurn'
    BY <1>1, MatchesTyped DEF MatchedHadTheirTurn
  <1>5. QED  BY <1>2, <1>3, <1>4 DEF IInv

LEMMA PollSubmitKeepsIInv ==
    ASSUME IInv, NEW o \in Orders, PollSubmit(o)
    PROVE  IInv'
  <1>1. TypeOK
    BY DEF IInv
  <1>2. pc' = [pc EXCEPT ![o] = "locked"] /\ lock' = TRUE
    BY DEF PollSubmit, RequestLock
  <1>3. TypeOK'
    BY <1>1, <1>2 DEF PollSubmit, TypeOK, SubmitPc
  <1>4. QED  BY <1>1, <1>2, <1>3, CallStepKeepsIInv DEF PollSubmit, TypeOK

LEMMA CheckStopOrdersKeepsIInv ==
    ASSUME IInv, NEW current \in Prices, CheckStopOrders(current)
    PROVE  IInv'
  <1>1. TypeOK
    BY DEF IInv
  <1>2. \A x \in Orders : pc'[x] = pc[x] \/ (pc[x] = "stop" /\ pc'[x] = "triggered")
    BY DEF CheckStopOrders, StopQueue
  <1>3. pc' \in [Orders -> SubmitPc] /\ batch' \in [Orders -> SUBSET Orders]
    BY <1>1 DEF CheckStopOrders, StopQueue, TypeOK, SubmitPc
  <1>4. TypeOK'
    BY <1>1, <1>3 DEF CheckStopOrders, TypeOK
  <1>5. UNCHANGED <<order, levels, total, matches>>
    BY DEF CheckStopOrders
  <1>6. QED  BY <1>2, <1>4, <1>5, CallStepKeepsIInv

LEMMA RequestCancelKeepsIInv ==
    ASSUME IInv, NEW o \in Orders, RequestCancel(o) \/ PollCancel(o)
    PROVE  IInv'
  <1>1. TypeOK
    BY DEF IInv
  <1>2. TypeOK'
    BY <1>1 DEF RequestCancel, PollCancel, TypeOK, CancelPc
  <1>3. UNCHANGED <<order, levels, total, matches, pc>>
    BY DEF RequestCancel, PollCancel
  <1>4. QED  BY <1>2, <1>3, CallStepKeepsIInv

\* A triggered order is converted and submitted, or its whole batch is dropped.
LEMMA ResubmitTriggeredKeepsIInv ==
    ASSUME IInv, NEW o \in Orders, ResubmitTriggered(o)
    PROVE  IInv'
  <1>1. /\ TypeOK /\ RestingAreOpen /\ RestingOnce /\ OpenAreResting /\ BookUncrossed
        /\ QuantityKept /\ InFlightValid /\ UnfinishedArePending /\ MatchedHadTheirTurn
        /\ LimitsRespected
    BY DEF IInv
  <1> DEFINE rec == Converted(order[o])
  <1>2. /\ pc[o] = "triggered"
        /\ order' = [order EXCEPT ![o] = rec]
        /\ UNCHANGED <<levels, total, running, cancelPc, arrival, clock, batch, matches>>
    BY <1>1 DEF ResubmitTriggered, Waiting, TypeOK
  <1>3. /\ lock' \in BOOLEAN
        /\ \/ /\ ValidOrder(rec)
              /\ \/ pc' = [pc EXCEPT ![o] = "polling"]
                 \/ pc' = [pc EXCEPT ![o] = "locked"]
           \/ pc' = [x \in Orders |-> IF x \in Waiting(o) THEN "thrown" ELSE pc[x]]
    BY <1>1 DEF ResubmitTriggered, RequestLock, TypeOK
  <1>4. /\ rec \in OrderRec /\ rec.status = order[o].status /\ rec.filled = order[o].filled
        /\ rec.remaining = order[o].remaining /\ rec.qty = order[o].qty
        /\ rec.type \in {"LIMIT", "MARKET"}
    BY <1>1, RecordFacts DEF TypeOK
  <1> HIDE DEF rec
  <1>5. /\ order' \in [Orders -> OrderRec] /\ order'[o] = rec
        /\ \A x \in Orders : x # o => order'[x] = order[x]
    BY <1>1, <1>2, <1>4 DEF TypeOK
  <1>6. /\ pc' \in [Orders -> SubmitPc]
        /\ pc'[o] \in {"polling", "locked", "thrown", "triggered"}
        /\ pc'[o] \in {"polling", "locked"} => ValidOrder(rec)
        /\ \A x \in Orders : x # o =>
              pc'[x] = pc[x] \/ (pc[x] = "triggered" /\ pc'[x] = "thrown")
    <2>1. CASE pc' = [x \in Orders |-> IF x \in Waiting(o) THEN "thrown" ELSE pc[x]]
      BY <1>1, <1>2, <2>1 DEF TypeOK, SubmitPc, Waiting
    <2>2. QED  BY <1>1, <1>2, <1>3, <2>1 DEF TypeOK, SubmitPc
  <1>7. TypeOK'
    BY <1>1, <1>2, <1>3, <1>5, <1>6 DEF TypeOK
  <1>8. RestingAreOpen'
    BY <1>1, <1>2, <1>5, <1>6 DEF RestingAreOpen, InLevel
  <1>9. RestingOnce' /\ BookUncrossed'
    BY <1>1, <1>2 DEF RestingOnce, BookUncrossed, Occupied
  <1>10. OpenAreResting'
    BY <1>1, <1>2, <1>5, <1>6 DEF OpenAreResting, InBook, InLevel
  <1>11. QuantityKept'
    BY <1>1, <1>4, <1>5 DEF QuantityKept
  <1>12. InFlightValid'
    BY <1>1, <1>4, <1>5, <1>6 DEF InFlightValid
  <1>13. UnfinishedArePending'
    BY <1>1, <1>2, <1>4, <1>5, <1>6 DEF UnfinishedArePending
  <1>14. \A i \in DOMAIN matches : matches[i].buy # o /\ matches[i].sell # o
    BY <1>1, <1>2 DEF MatchedHadTheirTurn
  <1>15. MatchedHadTheirTurn'
    <2>1. \A x \in Orders : x # o /\ pc[x] \in {"locked", "done"} => pc'[x] \in {"locked", "done"}
      BY <1>6
    <2>2. QED  BY <1>1, <1>2, <1>14, <2>1, MatchesTyped DEF MatchedHadTheirTurn
  <1>16. LimitsRespected'
    <2>1. \A i \in DOMAIN matches : \A x \in {matches[i].buy, matches[i].sell} :
            SameTerms(order'[x], order[x])
      BY <1>1, <1>5, <1>14, MatchesTyped DEF SameTerms
    <2>2. QED  BY <1>1, <1>2, <2>1, LimitsKept
  <1>17. QED
    BY <1>7, <1>8, <1>9, <1>10, <1>11, <1>12, <1>13, <1>15, <1>16 DEF IInv

\* A cancelled order leaves the book, or nothing happens to it.
LEMMA CancelOrderKeepsIInv ==
    ASSUME IInv, NEW o \in Orders, CancelOrder(o)
    PROVE  IInv'
  <1>1. /\ TypeOK /\ RestingAreOpen /\ RestingOnce /\ OpenAreResting /\ BookUncrossed
        /\ QuantityKept /\ InFlightValid /\ UnfinishedArePending /\ MatchedHadTheirTurn
        /\ LimitsRespected
    BY DEF IInv
  <1>2. /\ cancelPc' \in [Orders -> CancelPc] /\ lock' = FALSE
        /\ UNCHANGED <<running, pc, arrival, clock, batch, matches>>
    BY <1>1 DEF CancelOrder, TypeOK, CancelPc
  <1>3. CASE UNCHANGED <<order, levels, total>>
    <2>1. TypeOK'
      BY <1>1, <1>2, <1>3 DEF TypeOK
    <2>2. QED  BY <1>2, <1>3, <2>1, CallStepKeepsIInv
  <1>4. ASSUME NEW s \in Sides, NEW p \in Prices, NEW i \in 1..Len(levels[s][p]),
               levels[s][p][i] = o, RemoveOrder(s, p, i, order[o].remaining),
               order' = [order EXCEPT ![o].status = "CANCELLED"]
        PROVE  IInv'
    <2>1. order[o] \in OrderRec /\ order[o].remaining \in Int
      BY <1>1 DEF TypeOK, OrderRec
    <2>2. /\ order' \in [Orders -> OrderRec]
          /\ \A x \in Orders : x # o => order'[x] = order[x]
          /\ SameTerms(order'[o], order[o]) /\ order'[o].remaining = order[o].remaining
          /\ order'[o].filled = order[o].filled /\ order'[o].status = "CANCELLED"
      <3>1. order' = [order EXCEPT ![o] = [order[o] EXCEPT !.status = "CANCELLED"]]
        BY <1>1, <1>4 DEF TypeOK
      <3>2. "CANCELLED" \in Status
        BY DEF Status
      <3>3. QED  BY <1>1, <2>1, <3>1, <3>2, RecordFacts DEF TypeOK
    <2>3. \A x \in Orders : SameTerms(order'[x], order[x])
      BY <2>2 DEF SameTerms
    <2>4. /\ levels' \in [Sides -> [Prices -> Seq(Orders)]]
          /\ total' \in [Sides -> [Prices -> Int]]
      BY <1>1, <1>4, <2>1, RemoveFacts
    <2>5. /\ \A t \in Sides, q \in Prices, x \in Orders :
                InLevel(t, q, x)' <=> InLevel(t, q, x) /\ x # o
          /\ RestingOnce'
          /\ \A t \in Sides : Occupied(t)' \subseteq Occupied(t)
      BY <1>1, <1>4, <2>1, RemoveBook
    <2>6. pc[o] = "done"
      BY <1>1, <1>4 DEF RestingAreOpen, InLevel
    <2>7. TypeOK'
      BY <1>1, <1>2, <2>2, <2>4 DEF TypeOK
    <2>8. RestingAreOpen'
      BY <1>1, <1>2, <2>2, <2>5 DEF RestingAreOpen
    <2>9. OpenAreResting'
      BY <1>1, <1>2, <2>2, <2>5 DEF OpenAreResting, OpenStatus, InBook
    <2>10. BookUncrossed'
      BY <1>1, <2>5 DEF BookUncrossed, Sides
    <2>11. QuantityKept'
      BY <1>1, <2>2, <2>3 DEF QuantityKept, SameTerms
    <2>12. InFlightValid' /\ UnfinishedArePending'
      BY <1>1, <1>2, <2>2, <2>6 DEF InFlightValid, UnfinishedArePending
    <2>13. MatchedHadTheirTurn'
      BY <1>1, <1>2 DEF MatchedHadTheirTurn
    <2>14. LimitsRespected'
      BY <1>1, <1>2, <2>3, MatchesTyped, LimitsKept
    <2>15. QED
      BY <2>5, <2>7, <2>8, <2>9, <2>10, <2>11, <2>12, <2>13, <2>14 DEF IInv
  <1>5. QED
    BY <1>3, <1>4 DEF CancelOrder

-----------------------------------------------------------------------------
(* Safety of the engine *)

LEMMA InitIInv == Init => IInv
  <1> SUFFICES ASSUME Init PROVE IInv
    OBVIOUS
  <1>1. TypeOK
    <2>1. order \in [Orders -> OrderRec]
      BY RecordFacts DEF Init
    <2>2. levels \in [Sides -> [Prices -> Seq(Orders)]]
      BY DEF Init
    <2>3. total \in [Sides -> [Prices -> Int]]
      BY DEF Init
    <2>4. matches \in Seq(Match)
      BY DEF Init
    <2>5. QED  BY <2>1, <2>2, <2>3, <2>4 DEF Init, TypeOK, SubmitPc, CancelPc
  <1>2. \A s \in Sides, p \in Prices : levels[s][p] = <<>>
    BY DEF Init
  <1>3. \A o \in Orders : pc[o] = "new" /\ order[o] = BlankOrder
    BY DEF Init
  <1>4. RestingAreOpen /\ RestingOnce
    BY <1>2 DEF RestingAreOpen, RestingOnce, InLevel
  <1>5. OpenAreResting
    BY <1>3 DEF OpenAreResting
  <1>6. BookUncrossed
    BY <1>2 DEF BookUncrossed, Occupied, Sides
  <1>7. QuantityKept /\ UnfinishedArePending
    BY <1>3 DEF QuantityKept, UnfinishedArePending, BlankOrder, NewOrder
  <1>8. InFlightValid
    BY <1>3 DEF InFlightValid
  <1>9. MatchedHadTheirTurn /\ LimitsRespected
    <2>1. matches = <<>>
      BY DEF Init
    <2>2. DOMAIN matches = {}
      BY <2>1
    <2>3. QED  BY <2>2 DEF MatchedHadTheirTurn, LimitsRespected
  <1>10. QED
    BY <1>1, <1>4, <1>5, <1>6, <1>7, <1>8, <1>9 DEF IInv

LEMMA NextIInv == IInv /\ [Next]_vars => IInv'
  <1> SUFFICES ASSUME IInv, [Next]_vars PROVE IInv'
    OBVIOUS
  <1>1. CASE \E o \in Orders : Progress(o)
    <2>1. PICK o \in Orders : Progress(o)
      BY <1>1
    <2>2. QED
      BY <2>1, PollSubmitKeepsIInv, ExecuteMatchKeepsIInv, RestLimitOrderKeepsIInv,
         EndMarketOrderKeepsIInv, ResubmitTriggeredKeepsIInv, RequestCancelKeepsIInv,
         CancelOrderKeepsIInv DEF Progress
  <1>2. CASE \E o \in Orders, r \in Requests : SubmitOrder(o, r)
    BY <1>2, SubmitOrderKeepsIInv, RequestFacts
  <1>3. CASE \E o \in Orders : RequestCancel(o)
    BY <1>3, RequestCancelKeepsIInv
  <1>4. CASE \E current \in Prices : CheckStopOrders(current)
    BY <1>4, CheckStopOrdersKeepsIInv
  <1>5. CASE UNCHANGED vars
    <2>1. TypeOK'
      BY <1>5 DEF IInv, TypeOK, vars
    <2>2. UNCHANGED <<order, levels, total, matches, pc>>
      BY <1>5 DEF vars
    <2>3. QED  BY <2>1, <2>2, CallStepKeepsIInv
  <1>6. QED
    BY <1>1, <1>2, <1>3, <1>4, <1>5 DEF Next

\* The inductive invariant holds in every reachable state.
THEOREM Invariance == Spec => []IInv
  BY InitIInv, NextIInv, PTL DEF Spec

\* No quantity, status or program counter ever leaves its range; in particular
\* executeMatch never drives a remaining quantity below zero.
THEOREM TypeCorrect == Spec => []TypeOK
  <1>1. IInv => TypeOK
    BY DEF IInv
  <1>2. QED  BY Invariance, <1>1, PTL

\* The best bid is below the best ask at every step, also between two matches of
\* one incoming order: findMatch leaves nothing that crosses before an order rests.
THEOREM NeverCrossed == Spec => []BookUncrossed
  <1>1. IInv => BookUncrossed
    BY DEF IInv
  <1>2. QED  BY Invariance, <1>1, PTL

\* The index, the levels and the order objects never drift apart.
THEOREM BookAgrees == Spec => []BookAgreesWithOrders
  <1>1. IInv => BookAgreesWithOrders
    BY DEF IInv, BookAgreesWithOrders
  <1>2. QED  BY Invariance, <1>1, PTL

\* Every trade is within both orders' limits, whatever matched before it.
THEOREM TradesWithinLimits == Spec => []LimitsRespected
  <1>1. IInv => LimitsRespected
    BY DEF IInv
  <1>2. QED  BY Invariance, <1>1, PTL

\* Filled and remaining quantity always make up the quantity of the order.
THEOREM QuantityConserved == Spec => []QuantityKept
  <1>1. IInv => QuantityKept
    BY DEF IInv
  <1>2. QED  BY Invariance, <1>1, PTL

-----------------------------------------------------------------------------
(* The matches account for every fill *)

FillsCounted == \A o \in Orders : order[o].filled = Volume(o)

\* A match more: what it trades of o is added to the volume of o.
LEMMA VolumeGrows ==
    ASSUME matches \in Seq(Match), NEW m \in Match, matches' = Append(matches, m),
           NEW o \in Orders
    PROVE  Volume(o)' = Volume(o) + Traded(m, o)
  <1> DEFINE n == Len(matches)
             old == [i \in DOMAIN matches |-> Traded(matches[i], o)]
             new == [i \in DOMAIN matches' |-> Traded(matches'[i], o)]
  <1>1. n \in Nat /\ DOMAIN matches = 1..n /\ DOMAIN matches' = 1..(n + 1)
    OBVIOUS
  <1>2. matches'[n + 1] = m /\ \A i \in 1..n : matches'[i] = matches[i] /\ matches[i] \in Match
    OBVIOUS
  <1>3. \A x \in Match : Traded(x, o) \in Int
    BY DEF Match, Traded
  <1>4. /\ \A i \in 1..n : new[i] = old[i] /\ new[i] \in Int
        /\ new[n + 1] = Traded(m, o) /\ new[n + 1] \in Int
    BY <1>1, <1>2, <1>3
  <1>5. /\ 1..(n + 1) \ {n + 1} = 1..n /\ n + 1 \in 1..(n + 1)
        /\ \A i \in 1..(n + 1) : i \in 1..n \/ i = n + 1
    BY <1>1
  <1>6. IsFiniteSet(1..n) /\ IsFiniteSet(1..(n + 1))
    BY <1>1, FS_Interval
  <1>7. Volume(o) = SumFunctionOnSet(old, 1..n) /\ Volume(o)' = SumFunctionOnSet(new, 1..(n + 1))
    BY <1>1 DEF Volume
  <1> HIDE DEF old, new, n
  <1>8. \A i \in 1..(n + 1) : new[i] \in Int
    BY <1>4, <1>5
  <1>9. SumFunctionOnSet(new, 1..(n + 1)) = new[n + 1] + SumFunctionOnSet(new, 1..(n + 1) \ {n + 1})
    BY <1>5, <1>6, <1>8, SumRemove
  <1>10. SumFunctionOnSet(new, 1..n) = SumFunctionOnSet(old, 1..n)
    BY <1>4, <1>6, SumSame
  <1>11. SumFunctionOnSet(old, 1..n) \in Int
    BY <1>4, <1>6, SumInt
  <1>12. SumFunctionOnSet(new, 1..(n + 1)) = new[n + 1] + SumFunctionOnSet(old, 1..n)
    BY <1>5, <1>9, <1>10
  <1>13. SumFunctionOnSet(new, 1..(n + 1)) = SumFunctionOnSet(old, 1..n) + Traded(m, o)
    BY <1>4, <1>11, <1>12
  <1>14. QED  BY <1>7, <1>13

\* An order that never had its turn has traded nothing.
LEMMA NothingTraded ==
    ASSUME IInv, NEW o \in Orders, pc[o] = "new"
    PROVE  Volume(o) = 0
  <1> DEFINE traded == [i \in DOMAIN matches |-> Traded(matches[i], o)]
  <1>1. \A i \in DOMAIN matches : traded[i] = 0
    BY DEF IInv, MatchedHadTheirTurn, Traded
  <1>2. IsFiniteSet(DOMAIN matches)
    <2>1. Len(matches) \in Nat /\ DOMAIN matches = 1..Len(matches)
      BY DEF IInv, TypeOK
    <2>2. QED  BY <2>1, FS_Interval
  <1> HIDE DEF traded
  <1>3. SumFunctionOnSet(traded, DOMAIN matches) = 0
    BY <1>1, <1>2, SumZero
  <1>4. QED  BY <1>3 DEF Volume, traded

\* Both sides of a match fill what the match says.
LEMMA ExecuteMatchCounts ==
    ASSUME IInv, FillsCounted, NEW o \in Orders, ExecuteMatch(o)
    PROVE  FillsCounted'
  <1>1. TypeOK
    BY DEF IInv
  <1>2. PICK p \in Prices : Matchable(o, p) /\ MatchAt(o, p)
    BY DEF ExecuteMatch
  <1>3. PICK b \in Orders, q \in Nat : MatchEffect(o, p, b, q)
    BY <1>2, MatchHasEffect DEF ExecuteMatch
  <1> DEFINE m == MatchResult(o, b, p, q)
  <1>4. matches \in Seq(Match) /\ p \in Nat
    BY <1>1, PricesPositive DEF TypeOK
  <1>5. m \in Match /\ matches' = Append(matches, m)
    BY <1>3, <1>4 DEF MatchResult, Match, MatchEffect
  <1>6. \A x \in Orders : Traded(m, x) = IF x \in {o, b} THEN q ELSE 0
    BY DEF Traded, MatchResult
  <1>7. \A x \in Orders : order'[x].filled =
                            IF x \in {o, b} THEN order[x].filled + q ELSE order[x].filled
    BY <1>1, <1>3, MatchOrders
  <1>8. \A x \in Orders : order[x].filled \in Nat
    BY <1>1 DEF TypeOK, OrderRec
  <1> HIDE DEF m
  <1>9. \A x \in Orders : Volume(x)' = Volume(x) + Traded(m, x)
    BY <1>4, <1>5, VolumeGrows
  <1> SUFFICES ASSUME NEW x \in Orders PROVE order'[x].filled = Volume(x)'
    BY DEF FillsCounted
  <1>10. order[x].filled = Volume(x)
    BY DEF FillsCounted
  <1>11. CASE x \in {o, b}
    BY <1>3, <1>6, <1>7, <1>9, <1>10, <1>11
  <1>12. CASE x \notin {o, b}
    BY <1>6, <1>7, <1>8, <1>9, <1>10, <1>12
  <1>13. QED  BY <1>11, <1>12

\* A step that emits no match fills nothing.
LEMMA SameFills ==
    ASSUME FillsCounted, matches' = matches,
           \A x \in Orders : order'[x].filled = order[x].filled
    PROVE  FillsCounted'
  BY DEF FillsCounted, Volume

LEMMA NextCounts == IInv /\ FillsCounted /\ [Next]_vars => FillsCounted'
  <1> SUFFICES ASSUME IInv, FillsCounted, [Next]_vars PROVE FillsCounted'
    OBVIOUS
  <1>1. order \in [Orders -> OrderRec]
    BY DEF IInv, TypeOK
  <1>2. ASSUME NEW o \in Orders, RestLimitOrder(o) \/ EndMarketOrder(o) \/ CancelOrder(o)
        PROVE  FillsCounted'
    <2>1. matches' = matches
      BY <1>2 DEF RestLimitOrder, EndMarketOrder, CancelOrder
    <2>2. order' = order \/ \E st : order' = [order EXCEPT ![o].status = st]
      BY <1>2 DEF RestLimitOrder, EndMarketOrder, CancelOrder
    <2>3. \A x \in Orders : order'[x].filled = order[x].filled
      BY <1>1, <2>2 DEF OrderRec
    <2>4. QED  BY <2>1, <2>3, SameFills
  <1>3. ASSUME NEW o \in Orders, ResubmitTriggered(o)
        PROVE  FillsCounted'
    <2>1. matches' = matches /\ order' = [order EXCEPT ![o] = Converted(order[o])]
      BY <1>3 DEF ResubmitTriggered
    <2>2. Converted(order[o]).filled = order[o].filled
      BY <1>1 DEF Converted, OrderRec
    <2>3. \A x \in Orders : order'[x].filled = order[x].filled
      BY <1>1, <2>1, <2>2
    <2>4. QED  BY <2>1, <2>3, SameFills
  <1>4. ASSUME NEW o \in Orders, NEW r \in Requests, SubmitOrder(o, r)
        PROVE  FillsCounted'
    <2>1. pc[o] = "new" /\ matches' = matches /\ order' = [order EXCEPT ![o] = NewOrder(r)]
      BY <1>4 DEF SubmitOrder
    <2>2. order[o].filled = 0
      BY <2>1, NothingTraded DEF FillsCounted
    <2>3. \A x \in Orders : order'[x].filled = order[x].filled
      BY <1>1, <2>1, <2>2 DEF NewOrder
    <2>4. QED  BY <2>1, <2>3, SameFills
  <1>5. ASSUME NEW o \in Orders, PollSubmit(o) \/ PollCancel(o) \/ RequestCancel(o)
        PROVE  FillsCounted'
    BY <1>5, SameFills DEF PollSubmit, PollCancel, RequestCancel
  <1>6. CASE \E current \in Prices : CheckStopOrders(current)
    BY <1>6, SameFills DEF CheckStopOrders
  <1>7. CASE UNCHANGED vars
    BY <1>7, SameFills DEF vars
  <1>8. QED
    BY <1>2, <1>3, <1>4, <1>5, <1>6, <1>7, ExecuteMatchCounts DEF Next, Progress

\* Nothing is traded twice, forgotten or invented: what an order has filled is
\* the sum of the matches emitted for it, and with what remains its quantity.
THEOREM FillsAccounted == Spec => []FillsMatchTrades
  <1>1. Init => FillsCounted
    <2> SUFFICES ASSUME Init, NEW o \in Orders PROVE order[o].filled = Volume(o)
      BY DEF FillsCounted
    <2>1. order[o].filled = 0
      BY DEF Init, BlankOrder, NewOrder
    <2>2. IInv /\ pc[o] = "new"
      BY InitIInv DEF Init
    <2>3. QED  BY <2>1, <2>2, NothingTraded
  <1>2. IInv /\ FillsCounted => FillsMatchTrades
    BY DEF IInv, FillsCounted, FillsMatchTrades
  <1>3. QED  BY <1>1, <1>2, Invariance, NextCounts, PTL DEF Spec

-----------------------------------------------------------------------------
(* What a step may never do *)

\* No step touches an order that is filled or cancelled.
LEMMA ClosedStep ==
    ASSUME IInv, Next, NEW x \in Orders, order[x].status \in {"FILLED", "CANCELLED"}
    PROVE  order'[x] = order[x]
  <1>1. /\ TypeOK /\ RestingAreOpen /\ UnfinishedArePending
    BY DEF IInv
  <1>2. pc[x] = "done"
    BY <1>1 DEF UnfinishedArePending
  <1>3. \A o \in Orders : InBook(o) => o # x
    BY <1>1 DEF InBook, RestingAreOpen, OpenStatus
  <1>4. ASSUME NEW o \in Orders, ExecuteMatch(o)
        PROVE  order'[x] = order[x]
    <2>1. PICK p \in Prices : Matchable(o, p) /\ MatchAt(o, p)
      BY <1>4 DEF ExecuteMatch
    <2>2. PICK b \in Orders, q \in Nat : MatchEffect(o, p, b, q)
      BY <1>4, <2>1, MatchHasEffect DEF ExecuteMatch
    <2>3. Opposite(order[o].side) \in Sides
      BY <1>1, OppositeSide DEF TypeOK, OrderRec
    <2>4. InBook(b)
      BY <2>2, <2>3, MatchBook DEF InBook
    <2>5. o # x
      BY <1>2, <1>4 DEF ExecuteMatch, MyTurn
    <2>6. QED  BY <1>1, <1>3, <2>2, <2>4, <2>5, MatchOrders
  <1>5. ASSUME NEW o \in Orders, RestLimitOrder(o) \/ EndMarketOrder(o)
        PROVE  order'[x] = order[x]
    BY <1>1, <1>2, <1>5 DEF RestLimitOrder, EndMarketOrder, MyTurn, TypeOK
  <1>6. ASSUME NEW o \in Orders, CancelOrder(o)
        PROVE  order'[x] = order[x]
    <2>1. CASE UNCHANGED order
      BY <2>1
    <2>2. ASSUME NEW s \in Sides, NEW p \in Prices, NEW i \in 1..Len(levels[s][p]),
                 levels[s][p][i] = o, order' = [order EXCEPT ![o].status = "CANCELLED"]
          PROVE  order'[x] = order[x]
      <3>1. InBook(o)
        BY <2>2 DEF InBook, InLevel
      <3>2. QED  BY <1>1, <1>3, <2>2, <3>1 DEF TypeOK
    <2>3. QED  BY <1>6, <2>1, <2>2 DEF CancelOrder
  <1>7. ASSUME NEW o \in Orders, ResubmitTriggered(o)
        PROVE  order'[x] = order[x]
    BY <1>1, <1>2, <1>7 DEF ResubmitTriggered, Waiting, TypeOK
  <1>8. ASSUME NEW o \in Orders, NEW r \in Requests, SubmitOrder(o, r)
        PROVE  order'[x] = order[x]
    BY <1>1, <1>2, <1>8 DEF SubmitOrder, TypeOK
  <1>9. ASSUME NEW o \in Orders, PollSubmit(o) \/ PollCancel(o) \/ RequestCancel(o)
        PROVE  order'[x] = order[x]
    BY <1>9 DEF PollSubmit, PollCancel, RequestCancel
  <1>10. ASSUME NEW current \in Prices, CheckStopOrders(current)
         PROVE  order'[x] = order[x]
    BY <1>10 DEF CheckStopOrders
  <1>11. QED
    BY <1>4, <1>5, <1>6, <1>7, <1>8, <1>9, <1>10 DEF Next, Progress

\* Filled and cancelled are final: neither a late cancel nor a second match nor
\* a stop order that triggers again reopens or changes such an order.
THEOREM ClosedStaysClosed == Spec => ClosedIsFinal
  <1>1. IInv /\ [Next]_vars =>
           [\A o \in Orders : order[o].status \in {"FILLED", "CANCELLED"}
                              => order'[o] = order[o]]_vars
    BY ClosedStep
  <1>2. QED  BY Invariance, <1>1, PTL DEF Spec, ClosedIsFinal

-----------------------------------------------------------------------------
(* Stop orders run in turn *)

\* What StopsRunInTurn needs to be inductive: a batch holds the orders that were
\* taken together, none of them still new or queued.
BatchesWhole ==
    \A x \in Orders :
        /\ batch[x] # {} => x \in batch[x] /\ pc[x] \notin {"new", "stop"}
        /\ pc[x] = "triggered" => x \in batch[x]

StopsInv == StopsRunInTurn /\ BatchesWhole

LEMMA StopsInit == Init => StopsInv
  BY DEF Init, StopsInv, StopsRunInTurn, BatchesWhole

\* Nothing changes for the batches when submissions under way get on or return.
LEMMA GettingOnKeepsStops ==
    ASSUME TypeOK, StopsInv, UNCHANGED <<arrival, batch>>,
           \A z \in Orders : \/ pc'[z] = pc[z]
                             \/ /\ pc[z] \in {"polling", "locked"}
                                /\ pc'[z] \in {"polling", "locked", "done"}
    PROVE  StopsInv'
  <1>1. \A z \in Orders : batch[z] \subseteq Orders
    BY DEF TypeOK
  <1>2. \A z \in Orders : pc'[z] = "triggered" <=> pc[z] = "triggered"
    OBVIOUS
  <1>3. \A z \in Orders : pc'[z] \in {"polling", "locked"} => pc[z] \in {"polling", "locked"}
    OBVIOUS
  <1>4. \A z \in Orders : pc'[z] \in {"new", "stop"} => pc[z] \in {"new", "stop"}
    OBVIOUS
  <1>5. StopsRunInTurn'
    BY <1>1, <1>2, <1>3 DEF StopsInv, StopsRunInTurn
  <1>6. BatchesWhole'
    BY <1>2, <1>4 DEF StopsInv, BatchesWhole
  <1>7. QED  BY <1>5, <1>6 DEF StopsInv

\* A new order is in no batch.
LEMMA SubmitOrderKeepsStops ==
    ASSUME TypeOK, StopsInv, NEW o \in Orders, NEW r \in Requests, SubmitOrder(o, r)
    PROVE  StopsInv'
  <1>1. /\ pc[o] = "new" /\ batch' = batch
        /\ arrival' = [arrival EXCEPT ![o] = clock + 1]
        /\ pc' = [pc EXCEPT ![o] = pc'[o]]
        /\ pc'[o] \in {"thrown", "stop", "polling", "locked"}
    BY DEF SubmitOrder, RequestLock, TypeOK
  <1>2. \A z \in Orders : z # o => pc'[z] = pc[z] /\ arrival'[z] = arrival[z]
    BY <1>1 DEF TypeOK
  <1>3. batch[o] = {} /\ \A x \in Orders : o \notin batch[x]
    BY <1>1 DEF StopsInv, BatchesWhole, StopsRunInTurn
  <1>4. \A x \in Orders : batch[x] \subseteq Orders
    BY DEF TypeOK
  <1>5. StopsRunInTurn'
    BY <1>1, <1>2, <1>3, <1>4 DEF StopsInv, StopsRunInTurn
  <1>6. BatchesWhole'
    BY <1>1, <1>2, <1>3 DEF StopsInv, BatchesWhole
  <1>7. QED  BY <1>5, <1>6 DEF StopsInv

\* A call takes orders that no call has taken before, however many calls are
\* under way.
LEMMA CheckStopOrdersKeepsStops ==
    ASSUME TypeOK, StopsInv, NEW current \in Prices, CheckStopOrders(current)
    PROVE  StopsInv'
  <1> DEFINE taken == {o \in StopQueue : ShouldTrigger(o, current)}
  <1>1. /\ pc' = [o \in Orders |-> IF o \in taken THEN "triggered" ELSE pc[o]]
        /\ batch' = [o \in Orders |-> IF o \in taken THEN taken ELSE batch[o]]
        /\ arrival' = arrival
    BY DEF CheckStopOrders
  <1>2. taken \subseteq Orders /\ \A o \in taken : pc[o] = "stop"
    BY DEF StopQueue
  <1> HIDE DEF taken
  <1>3. \A o \in taken : pc'[o] = "triggered" /\ batch'[o] = taken
    BY <1>1, <1>2
  <1>4. \A x \in Orders : x \notin taken => pc'[x] = pc[x] /\ batch'[x] = batch[x]
    BY <1>1
  <1>5. \A x \in Orders : \A y \in batch[x] : y \in Orders /\ y \notin taken
    <2> SUFFICES ASSUME NEW x \in Orders, NEW y \in batch[x], y \in taken PROVE FALSE
      BY DEF TypeOK
    <2>1. batch[y] # {} /\ y \in Orders
      BY <1>2 DEF StopsInv, StopsRunInTurn
    <2>2. QED  BY <1>2, <2>1 DEF StopsInv, BatchesWhole
  <1>6. StopsRunInTurn'
    <2> SUFFICES ASSUME NEW x \in Orders, NEW y \in batch'[x]
                 PROVE  /\ batch'[y] = batch'[x]
                        /\ pc'[x] = "triggered" /\ arrival'[x] < arrival'[y]
                           => pc'[y] = "triggered"
                        /\ x # y => ~({pc'[x], pc'[y]} \subseteq {"polling", "locked"})
      BY DEF StopsRunInTurn
    <2>1. CASE x \in taken
      BY <1>3, <2>1
    <2>2. CASE x \notin taken
      BY <1>1, <1>4, <1>5, <2>2 DEF StopsInv, StopsRunInTurn
    <2>3. QED  BY <2>1, <2>2
  <1>7. BatchesWhole'
    BY <1>3, <1>4 DEF StopsInv, BatchesWhole
  <1>8. QED  BY <1>6, <1>7 DEF StopsInv

\* The earliest waiting order of a batch is submitted, with no other of the
\* batch under way, or the whole rest of the batch is dropped.
LEMMA ResubmitTriggeredKeepsStops ==
    ASSUME TypeOK, StopsInv, NEW o \in Orders, ResubmitTriggered(o)
    PROVE  StopsInv'
  <1>1. /\ pc[o] = "triggered" /\ UNCHANGED <<arrival, batch>>
        /\ \A z \in batch[o] : pc[z] \notin {"polling", "locked"}
        /\ \A z \in batch[o] : pc[z] = "triggered" => arrival[o] <= arrival[z]
    BY DEF ResubmitTriggered, Waiting
  <1>2. /\ \A z \in Orders : batch[z] \subseteq Orders
        /\ \A z \in Orders : arrival[z] \in Nat
    BY DEF TypeOK
  <1>3. \A x \in Orders : \A y \in batch[x] : x \in batch[x] /\ batch[y] = batch[x]
    BY DEF StopsInv, StopsRunInTurn, BatchesWhole
  <1>4. o \in batch[o]
    BY <1>1 DEF StopsInv, BatchesWhole
  <1>5. CASE pc' = [pc EXCEPT ![o] = "polling"] \/ pc' = [pc EXCEPT ![o] = "locked"]
    <2>1. pc'[o] \in {"polling", "locked"} /\ \A z \in Orders : z # o => pc'[z] = pc[z]
      BY <1>5 DEF TypeOK
    <2>2. ASSUME NEW x \in Orders, NEW y \in batch[x]
          PROVE  /\ pc'[x] = "triggered" /\ arrival[x] < arrival[y] => pc'[y] = "triggered"
                 /\ x # y => ~({pc'[x], pc'[y]} \subseteq {"polling", "locked"})
      <3>1. y \in Orders /\ x \in batch[x] /\ batch[y] = batch[x]
        BY <1>2, <1>3
      <3>2. CASE x = o
        BY <1>1, <2>1, <3>1, <3>2
      <3>3. CASE x # o /\ y = o
        <4>1. x \in batch[o]
          BY <3>1, <3>3
        <4>2. pc[x] = "triggered" => ~(arrival[x] < arrival[o])
          BY <1>1, <1>2, <4>1
        <4>3. QED  BY <1>1, <2>1, <3>3, <4>1, <4>2
      <3>4. CASE x # o /\ y # o
        <4>1. pc'[x] = pc[x] /\ pc'[y] = pc[y]
          BY <2>1, <3>1, <3>4
        <4>2. QED  BY <4>1 DEF StopsInv, StopsRunInTurn
      <3>5. QED  BY <3>2, <3>3, <3>4
    <2>3. StopsRunInTurn'
      BY <1>1, <1>3, <2>2 DEF StopsRunInTurn
    <2>4. BatchesWhole'
      BY <1>1, <1>4, <2>1 DEF StopsInv, BatchesWhole
    <2>5. QED  BY <2>3, <2>4 DEF StopsInv
  <1>6. CASE pc' = [x \in Orders |-> IF x \in Waiting(o) THEN "thrown" ELSE pc[x]]
    <2>1. \A z \in Orders : pc'[z] = IF z \in batch[o] /\ pc[z] = "triggered"
                                     THEN "thrown" ELSE pc[z]
      BY <1>6 DEF Waiting
    <2>2. ASSUME NEW x \in Orders, NEW y \in batch[x]
          PROVE  /\ pc'[x] = "triggered" /\ arrival[x] < arrival[y] => pc'[y] = "triggered"
                 /\ x # y => ~({pc'[x], pc'[y]} \subseteq {"polling", "locked"})
      <3>1. y \in Orders /\ x \in batch[x] /\ batch[y] = batch[x]
        BY <1>2, <1>3
      <3>2. /\ pc[x] = "triggered" /\ arrival[x] < arrival[y] => pc[y] = "triggered"
            /\ x # y => ~({pc[x], pc[y]} \subseteq {"polling", "locked"})
        BY DEF StopsInv, StopsRunInTurn
      <3>3. y \in batch[o] => x \in batch[o]
        BY <1>3, <3>1
      <3>4. pc'[x] = "triggered" => pc[x] = "triggered" /\ x \notin batch[o]
        BY <2>1
      <3>5. QED  BY <2>1, <3>1, <3>2, <3>3, <3>4
    <2>3. StopsRunInTurn'
      BY <1>1, <1>3, <2>2 DEF StopsRunInTurn
    <2>4. BatchesWhole'
      BY <1>1, <2>1 DEF StopsInv, BatchesWhole
    <2>5. QED  BY <2>3, <2>4 DEF StopsInv
  <1>7. QED
    BY <1>5, <1>6 DEF ResubmitTriggered, RequestLock

LEMMA StopsNext == IInv /\ StopsInv /\ [Next]_vars => StopsInv'
  <1> SUFFICES ASSUME IInv, StopsInv, [Next]_vars PROVE StopsInv'
    OBVIOUS
  <1>1. TypeOK
    BY DEF IInv
  <1>2. ASSUME NEW o \in Orders, ExecuteMatch(o)
        PROVE  StopsInv'
    <2>1. PICK p \in Prices : Matchable(o, p) /\ MatchAt(o, p)
      BY <1>2 DEF ExecuteMatch
    <2>2. PICK b \in Orders, q \in Nat : MatchEffect(o, p, b, q)
      BY <1>2, <2>1, MatchHasEffect DEF ExecuteMatch
    <2>3. pc' = pc \/ pc' = [pc EXCEPT ![o] = "done"]
      BY <2>2 DEF MatchEffect, EndTurn, StayInTurn
    <2>4. pc[o] = "locked" /\ UNCHANGED <<arrival, batch>>
      BY <1>2 DEF ExecuteMatch, MyTurn
    <2>5. QED  BY <1>1, <2>3, <2>4, GettingOnKeepsStops DEF TypeOK
  <1>3. ASSUME NEW o \in Orders, RestLimitOrder(o) \/ EndMarketOrder(o)
        PROVE  StopsInv'
    <2>1. /\ pc[o] = "locked" /\ pc' = [pc EXCEPT ![o] = "done"]
          /\ UNCHANGED <<arrival, batch>>
      BY <1>3 DEF RestLimitOrder, EndMarketOrder, EndTurn, MyTurn
    <2>2. QED  BY <1>1, <2>1, GettingOnKeepsStops DEF TypeOK
  <1>4. ASSUME NEW o \in Orders,
               CancelOrder(o) \/ RequestCancel(o) \/ PollCancel(o)
        PROVE  StopsInv'
    <2>1. UNCHANGED <<pc, arrival, batch>>
      BY <1>4 DEF CancelOrder, RequestCancel, PollCancel
    <2>2. QED  BY <1>1, <2>1, GettingOnKeepsStops
  <1>5. ASSUME NEW o \in Orders, PollSubmit(o)
        PROVE  StopsInv'
    <2>1. /\ pc[o] = "polling" /\ pc' = [pc EXCEPT ![o] = "locked"]
          /\ UNCHANGED <<arrival, batch>>
      BY <1>5 DEF PollSubmit, RequestLock
    <2>2. QED  BY <1>1, <2>1, GettingOnKeepsStops DEF TypeOK
  <1>6. CASE UNCHANGED vars
    BY <1>1, <1>6, GettingOnKeepsStops DEF vars
  <1>7. QED
    BY <1>1, <1>2, <1>3, <1>4, <1>5, <1>6, SubmitOrderKeepsStops,
       CheckStopOrdersKeepsStops, ResubmitTriggeredKeepsStops DEF Next, Progress

\* However many checkStopOrders calls overlap, no order is in two of their batches,
\* and each call submits its own orders in the order they were queued, one at a time.
THEOREM StopsInOrder == Spec => []StopsRunInTurn
  <1>1. StopsInv => StopsRunInTurn
    BY DEF StopsInv
  <1>2. QED  BY <1>1, Invariance, StopsInit, StopsNext, PTL DEF Spec

-----------------------------------------------------------------------------
(* The queue of a side, in terms of its levels *)

\* x and y are in the level at different places, x first.
Ahead(s, p, x, y) ==
    \E i, j \in 1..Len(levels[s][p]) :
        i < j /\ levels[s][p][i] = x /\ levels[s][p][j] = y

\* Who comes first of two resting orders, by their levels: in the book of this
\* state and in that of the next.
Better(s, p, q) == IF s = "BUY" THEN p > q ELSE p < q

Holds(book, s, p, x) == \E i \in 1..Len(book[s][p]) : book[s][p][i] = x
First(book, s, p, x, y) ==
    \E i, j \in 1..Len(book[s][p]) : i < j /\ book[s][p][i] = x /\ book[s][p][j] = y
Precedes(book, x, y) ==
    \E s \in Sides, p, q \in Prices :
        /\ Holds(book, s, p, x) /\ Holds(book, s, q, y)
        /\ Better(s, p, q) \/ (p = q /\ First(book, s, p, x, y))

LEMMA InTheBook ==
    /\ \A x, y : (Before(x, y) <=> Precedes(levels, x, y)) /\ (Before(x, y)' <=> Precedes(levels', x, y))
    /\ \A s, p, x : (InLevel(s, p, x) <=> Holds(levels, s, p, x)) /\ (InLevel(s, p, x)' <=> Holds(levels', s, p, x))
    /\ \A s, p, x, y : /\ Ahead(s, p, x, y) <=> First(levels, s, p, x, y)
                       /\ Ahead(s, p, x, y)' <=> First(levels', s, p, x, y)
BY DEF Before, InLevel, Ahead, Precedes, Holds, First, Better

LEMMA PrecedesInLevels ==
    ASSUME NEW book,
           NEW s \in Sides, NEW p \in Prices, NEW x \in Orders, Holds(book, s, p, x),
           NEW t \in Sides, NEW q \in Prices, NEW y \in Orders, Holds(book, t, q, y),
           \A u \in Sides, v \in Prices : Holds(book, u, v, x) => u = s /\ v = p,
           \A u \in Sides, v \in Prices : Holds(book, u, v, y) => u = t /\ v = q
    PROVE  Precedes(book, x, y) <=> s = t /\ (Better(s, p, q) \/ (p = q /\ First(book, s, p, x, y)))
<1>1. ASSUME Precedes(book, x, y)
      PROVE  s = t /\ (Better(s, p, q) \/ (p = q /\ First(book, s, p, x, y)))
  <2>1. PICK u \in Sides, v \in Prices, w \in Prices :
           /\ Holds(book, u, v, x) /\ Holds(book, u, w, y)
           /\ Better(u, v, w) \/ (v = w /\ First(book, u, v, x, y))
    BY <1>1 DEF Precedes
  <2>2. (u = s /\ v = p) /\ (u = t /\ w = q) BY <2>1
  <2> QED BY <2>1, <2>2
<1>2. ASSUME s = t, Better(s, p, q) \/ (p = q /\ First(book, s, p, x, y))
      PROVE  Precedes(book, x, y)
  BY <1>2 DEF Precedes
<1> QED BY <1>1, <1>2

LEMMA BeforeInLevels ==
    /\ RestingAreOpen =>
          \A s, t \in Sides, p, q \in Prices, x, y \in Orders :
              InLevel(s, p, x) /\ InLevel(t, q, y) =>
                 (Before(x, y) <=> s = t /\ (Better(s, p, q) \/ (p = q /\ Ahead(s, p, x, y))))
    /\ RestingAreOpen' =>
          \A s, t \in Sides, p, q \in Prices, x, y \in Orders :
              InLevel(s, p, x)' /\ InLevel(t, q, y)' =>
                 (Before(x, y)' <=> s = t /\ (Better(s, p, q) \/ (p = q /\ Ahead(s, p, x, y)')))
<1>1. RestingAreOpen =>
         \A s, t \in Sides, p, q \in Prices, x \in Orders :
             Holds(levels, s, p, x) /\ Holds(levels, t, q, x) => s = t /\ p = q
  BY InTheBook DEF RestingAreOpen
<1>2. RestingAreOpen' =>
         \A s, t \in Sides, p, q \in Prices, x \in Orders :
             Holds(levels', s, p, x) /\ Holds(levels', t, q, x) => s = t /\ p = q
  BY InTheBook DEF RestingAreOpen
<1>3. ASSUME NEW s \in Sides, NEW t \in Sides, NEW p \in Prices, NEW q \in Prices,
             NEW x \in Orders, NEW y \in Orders,
             RestingAreOpen, InLevel(s, p, x), InLevel(t, q, y)
      PROVE  Before(x, y) <=> s = t /\ (Better(s, p, q) \/ (p = q /\ Ahead(s, p, x, y)))
  <2>1. Holds(levels, s, p, x) /\ Holds(levels, t, q, y) BY <1>3, InTheBook
  <2>2. Precedes(levels, x, y)
           <=> s = t /\ (Better(s, p, q) \/ (p = q /\ First(levels, s, p, x, y)))
    BY <1>1, <1>3, <2>1, PrecedesInLevels
  <2> QED BY <2>2, InTheBook
<1>4. ASSUME NEW s \in Sides, NEW t \in Sides, NEW p \in Prices, NEW q \in Prices,
             NEW x \in Orders, NEW y \in Orders,
             RestingAreOpen', InLevel(s, p, x)', InLevel(t, q, y)'
      PROVE  Before(x, y)' <=> s = t /\ (Better(s, p, q) \/ (p = q /\ Ahead(s, p, x, y)'))
  <2>1. Holds(levels', s, p, x) /\ Holds(levels', t, q, y) BY <1>4, InTheBook
  <2>2. Precedes(levels', x, y)
           <=> s = t /\ (Better(s, p, q) \/ (p = q /\ First(levels', s, p, x, y)))
    BY <1>2, <1>4, <2>1, PrecedesInLevels
  <2> QED BY <2>2, InTheBook
<1> QED BY <1>3, <1>4

LEMMA BeforeAreResting ==
    \A x, y : Before(x, y) => InBook(x) /\ InBook(y)
BY DEF Before, InBook

\* Two orders of a level come one before the other, and not both ways.
LEMMA FirstEitherWay ==
    ASSUME NEW book, NEW s, NEW p, NEW x, NEW y, book[s][p] \in Seq(Orders),
           Holds(book, s, p, x), Holds(book, s, p, y),
           \A k, l \in 1..Len(book[s][p]) : book[s][p][k] = book[s][p][l] => k = l
    PROVE  /\ x # y => First(book, s, p, x, y) \/ First(book, s, p, y, x)
           /\ ~(First(book, s, p, x, y) /\ First(book, s, p, y, x))
<1>0. Len(book[s][p]) \in Nat OBVIOUS
<1>1. PICK i \in 1..Len(book[s][p]) : book[s][p][i] = x BY DEF Holds
<1>2. PICK j \in 1..Len(book[s][p]) : book[s][p][j] = y BY DEF Holds
<1>4. x # y => i < j \/ j < i BY <1>0, <1>1, <1>2
<1>5. First(book, s, p, x, y) => i < j BY <1>0, <1>1, <1>2 DEF First
<1>6. First(book, s, p, y, x) => j < i BY <1>0, <1>1, <1>2 DEF First
<1>7. i < j => First(book, s, p, x, y) BY <1>1, <1>2 DEF First
<1>8. j < i => First(book, s, p, y, x) BY <1>1, <1>2 DEF First
<1>9. ~(i < j /\ j < i) BY <1>0, <1>1, <1>2
<1> QED BY <1>4, <1>5, <1>6, <1>7, <1>8, <1>9

LEMMA AheadEitherWay ==
    ASSUME NEW s \in Sides, NEW p \in Prices, NEW x \in Orders, NEW y \in Orders
    PROVE  /\ levels[s][p] \in Seq(Orders) /\ RestingOnce /\ InLevel(s, p, x) /\ InLevel(s, p, y) =>
                /\ x # y => Ahead(s, p, x, y) \/ Ahead(s, p, y, x)
                /\ ~(Ahead(s, p, x, y) /\ Ahead(s, p, y, x))
           /\ levels'[s][p] \in Seq(Orders) /\ RestingOnce' /\ InLevel(s, p, x)' /\ InLevel(s, p, y)' =>
                ~(Ahead(s, p, x, y)' /\ Ahead(s, p, y, x)')
<1>1. ASSUME levels[s][p] \in Seq(Orders), RestingOnce, InLevel(s, p, x), InLevel(s, p, y)
      PROVE  /\ x # y => Ahead(s, p, x, y) \/ Ahead(s, p, y, x)
             /\ ~(Ahead(s, p, x, y) /\ Ahead(s, p, y, x))
  <2>1. \A k, l \in 1..Len(levels[s][p]) : levels[s][p][k] = levels[s][p][l] => k = l
    BY <1>1 DEF RestingOnce
  <2>2. Holds(levels, s, p, x) /\ Holds(levels, s, p, y) BY <1>1, InTheBook
  <2>3. /\ x # y => First(levels, s, p, x, y) \/ First(levels, s, p, y, x)
        /\ ~(First(levels, s, p, x, y) /\ First(levels, s, p, y, x))
    BY <1>1, <2>1, <2>2, FirstEitherWay
  <2> QED BY <2>3, InTheBook
<1>2. ASSUME levels'[s][p] \in Seq(Orders), RestingOnce', InLevel(s, p, x)', InLevel(s, p, y)'
      PROVE  ~(Ahead(s, p, x, y)' /\ Ahead(s, p, y, x)')
  <2>1. \A k, l \in 1..Len(levels'[s][p]) : levels'[s][p][k] = levels'[s][p][l] => k = l
    BY <1>2 DEF RestingOnce
  <2>2. Holds(levels', s, p, x) /\ Holds(levels', s, p, y) BY <1>2, InTheBook
  <2>3. ~(First(levels', s, p, x, y) /\ First(levels', s, p, y, x))
    BY <1>2, <2>1, <2>2, FirstEitherWay
  <2> QED BY <2>3, InTheBook
<1> QED BY <1>1, <1>2

\* Nobody stands before the first order of the best level.
LEMMA HeadIsInFront ==
    ASSUME TypeOK, RestingAreOpen, RestingOnce, NEW s \in Sides, NEW p \in Prices,
           IsBest(s, p), NEW b \in Orders, 1 \in 1..Len(levels[s][p]), levels[s][p][1] = b
    PROVE  \A x \in Orders : ~Before(x, b)
<1>1. SUFFICES ASSUME NEW x \in Orders, Before(x, b) PROVE FALSE OBVIOUS
<1>2. InLevel(s, p, b) BY DEF InLevel
<1>3. PICK t \in Sides, q \in Prices : InLevel(t, q, x) BY <1>1, BeforeAreResting DEF InBook
<1>4. t = s /\ (Better(t, q, p) \/ (q = p /\ Ahead(t, q, x, b)))
  BY <1>1, <1>2, <1>3, BeforeInLevels
<1>5. q \in Occupied(s)
  <2>1. levels[s][q] \in Seq(Orders) BY DEF TypeOK
  <2> QED BY <1>3, <1>4, <2>1 DEF InLevel, Occupied
<1>6. ~Better(s, q, p) BY <1>5, PricesPositive DEF IsBest, Better
<1>7. ~Ahead(s, p, x, b)
  <2>1. Len(levels[s][p]) \in Nat BY DEF TypeOK
  <2>2. \A i, j \in 1..Len(levels[s][p]) : levels[s][p][i] = levels[s][p][j] => i = j
    BY DEF RestingOnce
  <2> QED BY <2>1, <2>2 DEF Ahead
<1> QED BY <1>4, <1>6, <1>7

-----------------------------------------------------------------------------
(* Price-time priority *)

\* Who gets quantity filled in a step is the incoming order or the maker; the
\* maker is the head of the best level, so nobody stands before it.
LEMMA TradesInFrontStep ==
    ASSUME IInv, Next, NEW y \in Orders, InBook(y),
           order'[y].filled > order[y].filled, NEW x \in Orders, Before(x, y)
    PROVE  FALSE
  <1>1. /\ TypeOK /\ RestingAreOpen /\ RestingOnce
    BY DEF IInv
  <1>2. order[y].filled \in Nat /\ pc[y] = "done" /\ order[y] \in OrderRec
    BY <1>1 DEF TypeOK, OrderRec, InBook, RestingAreOpen
  <1>3. order'[y] # order[y] /\ order'[y].filled # order[y].filled
    BY <1>2
  <1>4. ASSUME NEW o \in Orders, ExecuteMatch(o)
        PROVE  FALSE
    <2>1. PICK p \in Prices : Matchable(o, p) /\ MatchAt(o, p)
      BY <1>4 DEF ExecuteMatch
    <2>2. PICK b \in Orders, q \in Nat : MatchEffect(o, p, b, q)
      BY <1>4, <2>1, MatchHasEffect DEF ExecuteMatch
    <2> DEFINE s == Opposite(order[o].side)
    <2>3. s \in Sides
      BY <1>1, OppositeSide DEF TypeOK, OrderRec
    <2>4. y # o
      BY <1>2, <1>4 DEF ExecuteMatch, MyTurn
    <2>5. y = b
      BY <1>1, <1>3, <2>2, <2>4, MatchOrders
    <2>6. b = levels[s][p][1] /\ 1 \in 1..Len(levels[s][p])
      BY <2>2 DEF MatchEffect
    <2>7. IsBest(s, p)
      BY <2>1 DEF Matchable
    <2>8. QED  BY <1>1, <2>3, <2>5, <2>6, <2>7, HeadIsInFront
  <1>5. ASSUME NEW o \in Orders, RestLimitOrder(o) \/ EndMarketOrder(o)
        PROVE  FALSE
    BY <1>1, <1>2, <1>3, <1>5 DEF RestLimitOrder, EndMarketOrder, MyTurn, TypeOK
  <1>6. ASSUME NEW o \in Orders, CancelOrder(o)
        PROVE  FALSE
    <2>1. \/ UNCHANGED order
          \/ order' = [order EXCEPT ![o] = [order[o] EXCEPT !.status = "CANCELLED"]]
      BY <1>1, <1>6 DEF CancelOrder, TypeOK
    <2>2. [order[o] EXCEPT !.status = "CANCELLED"].filled = order[o].filled
      BY <1>1, RecordFacts DEF TypeOK, Status
    <2>3. QED  BY <1>1, <1>3, <2>1, <2>2 DEF TypeOK
  <1>7. ASSUME NEW o \in Orders, ResubmitTriggered(o)
        PROVE  FALSE
    BY <1>1, <1>2, <1>3, <1>7 DEF ResubmitTriggered, Waiting, TypeOK
  <1>8. ASSUME NEW o \in Orders, NEW r \in Requests, SubmitOrder(o, r)
        PROVE  FALSE
    BY <1>1, <1>2, <1>3, <1>8 DEF SubmitOrder, TypeOK
  <1>9. ASSUME NEW o \in Orders, PollSubmit(o) \/ PollCancel(o) \/ RequestCancel(o)
        PROVE  FALSE
    BY <1>3, <1>9 DEF PollSubmit, PollCancel, RequestCancel
  <1>10. ASSUME NEW current \in Prices, CheckStopOrders(current)
         PROVE  FALSE
    BY <1>3, <1>10 DEF CheckStopOrders
  <1>11. QED
    BY <1>4, <1>5, <1>6, <1>7, <1>8, <1>9, <1>10 DEF Next, Progress

LEMMA AheadIsBefore ==
    ASSUME NEW s \in Sides, NEW p \in Prices, NEW x \in Orders, NEW y \in Orders,
           Ahead(s, p, x, y)
    PROVE  Before(x, y)
  BY DEF Ahead, Before, InLevel

\* Two orders of one level: the one before is the one at the earlier place.
LEMMA BeforeIsAhead ==
    ASSUME TypeOK, RestingAreOpen, NEW s \in Sides, NEW p \in Prices,
           NEW x \in Orders, NEW y \in Orders,
           InLevel(s, p, x), InLevel(s, p, y), Before(x, y)
    PROVE  Ahead(s, p, x, y)
  <1>1. ~Better(s, p, p)
    BY PricesPositive DEF Better
  <1>2. QED  BY <1>1, BeforeInLevels

\* A splice keeps the order of the others.
LEMMA RemoveKeepsAhead ==
    ASSUME TypeOK, NEW s \in Sides, NEW p \in Prices,
           NEW i \in 1..Len(levels[s][p]), NEW left \in Int,
           RemoveOrder(s, p, i, left),
           NEW t \in Sides, NEW u \in Prices, NEW x \in Orders, NEW y \in Orders,
           x # levels[s][p][i], y # levels[s][p][i], Ahead(t, u, x, y)
    PROVE  Ahead(t, u, x, y)'
  <1> DEFINE old  == levels[s][p]
             rest == RemoveAt(old, i)
  <1>1. old \in Seq(Orders)
    BY DEF TypeOK
  <1>2. /\ Len(old) \in Nat /\ Len(rest) = Len(old) - 1
        /\ \A j \in 1..(Len(old) - 1) : rest[j] = IF j < i THEN old[j] ELSE old[j + 1]
    <2>1. Len(old) \in Nat
      BY <1>1
    <2>2. /\ Len(rest) = Len(old) - 1
          /\ \A j \in 1..(Len(old) - 1) : rest[j] = IF j < i THEN old[j] ELSE old[j + 1]
      BY <1>1, RemoveAtLemma
    <2>3. QED  BY <2>1, <2>2
  <1>3. /\ levels'[s][p] = rest
        /\ ~(t = s /\ u = p) => levels'[t][u] = levels[t][u]
    BY RemoveFacts
  <1> HIDE DEF rest
  <1>4. CASE t = s /\ u = p
    <2>1. PICK j \in 1..Len(old), k \in 1..Len(old) : j < k /\ old[j] = x /\ old[k] = y
      BY <1>4 DEF Ahead
    <2>2. j # i /\ k # i
      BY <2>1
    <2> DEFINE at(n) == IF n < i THEN n ELSE n - 1
    <2> HIDE DEF old
    <2>3. ASSUME NEW n \in 1..Len(old), n # i
          PROVE  at(n) \in 1..Len(rest) /\ rest[at(n)] = old[n]
      <3>1. i \in 1..Len(old)
        BY DEF old
      <3>2. CASE n < i
        BY <1>2, <2>3, <3>1, <3>2
      <3>3. CASE n > i
        <4>1. n - 1 \in 1..(Len(old) - 1) /\ ~(n - 1 < i)
          BY <1>2, <3>1, <3>3
        <4>2. rest[n - 1] = old[(n - 1) + 1]
          BY <1>2, <4>1
        <4>3. QED  BY <1>2, <3>3, <4>1, <4>2
      <3>4. QED  BY <1>2, <2>3, <3>1, <3>2, <3>3
    <2>4. at(j) < at(k)
      BY <1>2, <2>1, <2>2
    <2>5. at(j) \in 1..Len(rest) /\ at(k) \in 1..Len(rest)
          /\ rest[at(j)] = x /\ rest[at(k)] = y
      BY <2>1, <2>2, <2>3
    <2> HIDE DEF at
    <2>6. QED  BY <1>3, <1>4, <2>4, <2>5 DEF Ahead
  <1>5. CASE ~(t = s /\ u = p)
    BY <1>3, <1>5 DEF Ahead
  <1>6. QED  BY <1>4, <1>5

\* An append keeps the order of the others and puts the newcomer last.
LEMMA AddKeepsAhead ==
    ASSUME TypeOK, NEW s \in Sides, NEW p \in Prices, NEW o \in Orders,
           AddOrder(s, p, o), NEW t \in Sides, NEW u \in Prices, NEW x \in Orders
    PROVE  /\ \A y \in Orders : Ahead(t, u, x, y) => Ahead(t, u, x, y)'
           /\ InLevel(s, p, x) => Ahead(s, p, x, o)'
  <1> DEFINE old == levels[s][p]
             new == Append(old, o)
  <1>1. old \in Seq(Orders)
    BY DEF TypeOK
  <1>2. /\ Len(old) \in Nat /\ Len(new) = Len(old) + 1
        /\ \A j \in 1..Len(old) : j \in 1..Len(new) /\ new[j] = old[j]
        /\ Len(old) + 1 \in 1..Len(new) /\ new[Len(old) + 1] = o
    BY <1>1
  <1>3. /\ levels'[s][p] = new
        /\ ~(t = s /\ u = p) => levels'[t][u] = levels[t][u]
    BY AddFacts
  <1> HIDE DEF new
  <1>4. ASSUME NEW y \in Orders, Ahead(t, u, x, y)
        PROVE  Ahead(t, u, x, y)'
    <2>1. CASE t = s /\ u = p
      BY <1>2, <1>3, <1>4, <2>1 DEF Ahead
    <2>2. CASE ~(t = s /\ u = p)
      BY <1>3, <1>4, <2>2 DEF Ahead
    <2>3. QED  BY <2>1, <2>2
  <1>5. ASSUME InLevel(s, p, x)
        PROVE  Ahead(s, p, x, o)'
    <2>1. PICK i \in 1..Len(old) : old[i] = x
      BY <1>5 DEF InLevel
    <2>2. i < Len(old) + 1
      BY <1>2, <2>1
    <2>3. QED  BY <1>2, <1>3, <2>1, <2>2 DEF Ahead
  <1>6. QED  BY <1>4, <1>5

\* What a step can do to the book: nothing, take one order out, add one order.
BookStep ==
    \/ UNCHANGED levels
    \/ \E s \in Sides, p \in Prices : \E i \in 1..Len(levels[s][p]), left \in Int :
          RemoveOrder(s, p, i, left)
    \/ \E s \in Sides, p \in Prices, o \in Orders : ~InBook(o) /\ AddOrder(s, p, o)

LEMMA NextIsBookStep ==
    ASSUME IInv, Next
    PROVE  BookStep
  <1>1. /\ TypeOK /\ RestingAreOpen /\ InFlightValid
    BY DEF IInv
  <1>2. ASSUME NEW o \in Orders, ExecuteMatch(o)
        PROVE  BookStep
    <2>1. PICK p \in Prices : Matchable(o, p) /\ MatchAt(o, p)
      BY <1>2 DEF ExecuteMatch
    <2>2. PICK b \in Orders, q \in Nat : MatchEffect(o, p, b, q)
      BY <1>2, <2>1, MatchHasEffect DEF ExecuteMatch
    <2>3. Opposite(order[o].side) \in Sides
      BY <1>1, OppositeSide DEF TypeOK, OrderRec
    <2>4. 0 \in Int
      OBVIOUS
    <2>5. QED  BY <2>2, <2>3, <2>4 DEF MatchEffect, BookStep
  <1>3. ASSUME NEW o \in Orders, RestLimitOrder(o)
        PROVE  BookStep
    <2>1. CASE order[o].tif = "FOK"
      BY <1>3, <2>1 DEF RestLimitOrder, bookVars, BookStep
    <2>2. CASE order[o].tif # "FOK"
      <3>1. AddOrder(order[o].side, order[o].price, o) /\ pc[o] = "locked"
            /\ order[o].type = "LIMIT"
        BY <1>3, <2>2 DEF RestLimitOrder, MyTurn
      <3>2. order[o].side \in Sides /\ order[o].price \in Prices
        BY <1>1, <3>1 DEF TypeOK, OrderRec, InFlightValid, ValidOrder
      <3>3. ~InBook(o)
        BY <1>1, <3>1, MyTurnNotInBook
      <3>4. QED  BY <3>1, <3>2, <3>3 DEF BookStep
    <2>3. QED  BY <2>1, <2>2
  <1>4. ASSUME NEW o \in Orders, CancelOrder(o)
        PROVE  BookStep
    <2>1. order[o].remaining \in Int
      BY <1>1 DEF TypeOK, OrderRec
    <2>2. QED  BY <1>4, <2>1 DEF CancelOrder, BookStep
  <1>5. ASSUME NEW o \in Orders,
               EndMarketOrder(o) \/ ResubmitTriggered(o) \/ PollSubmit(o)
               \/ PollCancel(o) \/ RequestCancel(o)
        PROVE  BookStep
    BY <1>5 DEF EndMarketOrder, ResubmitTriggered, PollSubmit, PollCancel, RequestCancel,
                BookStep
  <1>6. ASSUME NEW o \in Orders, NEW r \in Requests, SubmitOrder(o, r)
        PROVE  BookStep
    BY <1>6 DEF SubmitOrder, BookStep
  <1>7. ASSUME NEW current \in Prices, CheckStopOrders(current)
        PROVE  BookStep
    BY <1>7 DEF CheckStopOrders, BookStep
  <1>8. QED
    BY <1>2, <1>3, <1>4, <1>5, <1>6, <1>7 DEF Next, Progress

LEMMA KeepsPlacesStep ==
    ASSUME IInv, BookStep, NEW x \in Orders, NEW y \in Orders,
           SameLevel(x, y)', InBook(x), InBook(y) => Before(x, y)
    PROVE  x = y \/ Before(x, y)'
  <1>1. /\ TypeOK /\ RestingAreOpen /\ RestingOnce
    BY DEF IInv
  <1>2. PICK t \in Sides, u \in Prices : InLevel(t, u, x)' /\ InLevel(t, u, y)'
    BY DEF SameLevel
  <1>3. SUFFICES x = y \/ Ahead(t, u, x, y)'
    BY AheadIsBefore DEF Ahead, Before, InLevel
  <1>4. CASE UNCHANGED levels
    <2>1. InLevel(t, u, x) /\ InLevel(t, u, y)
      BY <1>2, <1>4 DEF InLevel
    <2>2. Ahead(t, u, x, y)
      BY <1>1, <2>1, BeforeIsAhead DEF InBook
    <2>3. QED  BY <1>4, <2>2 DEF Ahead
  <1>5. ASSUME NEW s \in Sides, NEW p \in Prices, NEW i \in 1..Len(levels[s][p]),
               NEW left \in Int, RemoveOrder(s, p, i, left)
        PROVE  Ahead(t, u, x, y)'
    <2>1. \A z \in Orders : InLevel(t, u, z)' <=> InLevel(t, u, z) /\ z # levels[s][p][i]
      BY <1>1, <1>5, RemoveBook
    <2>2. /\ InLevel(t, u, x) /\ x # levels[s][p][i]
          /\ InLevel(t, u, y) /\ y # levels[s][p][i]
      BY <1>2, <2>1
    <2>3. Ahead(t, u, x, y)
      BY <1>1, <2>2, BeforeIsAhead DEF InBook
    <2>4. QED  BY <1>1, <1>5, <2>2, <2>3, RemoveKeepsAhead
  <1>6. ASSUME NEW s \in Sides, NEW p \in Prices, NEW o \in Orders, ~InBook(o),
               AddOrder(s, p, o)
        PROVE  Ahead(t, u, x, y)'
    <2>1. \A z \in Orders :
             InLevel(t, u, z)' <=> InLevel(t, u, z) \/ (t = s /\ u = p /\ z = o)
      BY <1>1, <1>6, AddBook
    <2>2. x # o /\ InLevel(t, u, x)
      BY <1>2, <1>6, <2>1
    <2>3. CASE InLevel(t, u, y)
      <3>1. Ahead(t, u, x, y)
        BY <1>1, <2>2, <2>3, BeforeIsAhead DEF InBook
      <3>2. QED  BY <1>1, <1>6, <3>1, AddKeepsAhead
    <2>4. CASE t = s /\ u = p /\ y = o
      BY <1>1, <1>6, <2>2, <2>4, AddKeepsAhead
    <2>5. QED  BY <1>2, <2>1, <2>3, <2>4
  <1>7. QED
    BY <1>4, <1>5, <1>6 DEF BookStep

\* No interleaving of submissions, stops and cancels lets an order trade past one
\* that stands before it, or makes two resting orders change places.
THEOREM Priority == Spec => PriceTimePriority
  <1>1. IInv /\ [Next]_vars => [TradesInFront /\ KeepsPlaces]_vars
    <2> SUFFICES ASSUME IInv, Next
                 PROVE  TradesInFront /\ KeepsPlaces
      OBVIOUS
    <2>1. TradesInFront
      BY TradesInFrontStep DEF TradesInFront
    <2>2. KeepsPlaces
      BY NextIsBookStep, KeepsPlacesStep DEF KeepsPlaces
    <2>3. QED  BY <2>1, <2>2
  <1>2. QED  BY Invariance, <1>1, PTL DEF Spec, PriceTimePriority

-----------------------------------------------------------------------------
(* The engine implements an exchange *)

\* What has not come in yet has not been traded.
StopsAreWhole ==
    \A o \in Orders : pc[o] \in {"stop", "triggered"} => order[o].remaining = order[o].qty

\* A resting order's phase, terms and rest are those of the book.
LEMMA RestingPhase ==
    ASSUME RestingAreOpen
    PROVE  /\ \A o \in Orders : Phases[o] = PhaseOf(o) /\ AllTerms[o] = TermsOf(o)
           /\ \A o \in Orders : PhaseOf(o) = "resting" <=> InBook(o)
           /\ \A o \in Orders : PhaseOf(o) = "incoming" <=> pc[o] \in {"polling", "locked"}
           /\ \A s \in Sides, p \in Prices, o \in Orders : InLevel(s, p, o) =>
                 /\ TermsOf(o) = [side |-> s, price |-> p]
                 /\ InBook(o) /\ Entered(o) /\ Unfilled[o] = order[o].remaining
<1>1. \A o \in Orders : InBook(o) => pc[o] = "done" BY DEF InBook, RestingAreOpen
<1>2. ASSUME NEW s \in Sides, NEW p \in Prices, NEW o \in Orders, InLevel(s, p, o)
      PROVE  /\ TermsOf(o) = [side |-> s, price |-> p]
             /\ InBook(o) /\ Entered(o) /\ Unfilled[o] = order[o].remaining
  <2>1. order[o].side = s /\ order[o].price = p /\ order[o].type = "LIMIT" /\ pc[o] = "done"
    BY <1>2 DEF RestingAreOpen
  <2> QED BY <1>2, <2>1 DEF TermsOf, Entered, InBook, Unfilled
<1>3. \A o \in Orders : /\ Phases[o] = PhaseOf(o) /\ AllTerms[o] = TermsOf(o)
                        /\ PhaseOf(o) = "resting" <=> InBook(o)
                        /\ PhaseOf(o) = "incoming" <=> pc[o] \in {"polling", "locked"}
  BY <1>1 DEF Phases, AllTerms, PhaseOf, Entered
<1> QED BY <1>2, <1>3

\* Whoever leaves the book leaves the queue, and the others keep their places.
LEMMA RemoveFromQueue ==
    ASSUME TypeOK, RestingAreOpen, RestingOnce, RestingAreOpen',
           NEW s \in Sides, NEW p \in Prices,
           NEW i \in 1..Len(levels[s][p]), NEW left \in Int, RemoveOrder(s, p, i, left)
    PROVE  Queue' = {pair \in Queue : levels[s][p][i] \notin {pair[1], pair[2]}}
<1> DEFINE gone == levels[s][p][i]
<1>1. /\ \A t \in Sides, q \in Prices, x \in Orders :
            InLevel(t, q, x)' <=> InLevel(t, q, x) /\ x # gone
      /\ RestingOnce'
  BY RemoveBook
<1>2. /\ \A t \in Sides, q \in Prices : levels[t][q] \in Seq(Orders) /\ levels'[t][q] \in Seq(Orders)
  BY RemoveFacts DEF TypeOK
<1>k. \A t \in Sides, q \in Prices, x, y \in Orders :
         x # gone /\ y # gone /\ Ahead(t, q, x, y) => Ahead(t, q, x, y)'
  BY RemoveKeepsAhead
<1> HIDE DEF gone
<1>3. ASSUME NEW x \in Orders, NEW y \in Orders
      PROVE  Before(x, y)' <=> Before(x, y) /\ x # gone /\ y # gone
  <2>1. InBook(x)' /\ InBook(y)' => InBook(x) /\ InBook(y) /\ x # gone /\ y # gone
    BY <1>1 DEF InBook
  <2>2. InBook(x) /\ InBook(y) /\ x # gone /\ y # gone => InBook(x)' /\ InBook(y)'
    BY <1>1 DEF InBook
  <2>3. CASE InBook(x) /\ InBook(y) /\ x # gone /\ y # gone
    <3>1. PICK t \in Sides, q \in Prices : InLevel(t, q, x) BY <2>3 DEF InBook
    <3>2. PICK u \in Sides, r \in Prices : InLevel(u, r, y) BY <2>3 DEF InBook
    <3>3. InLevel(t, q, x)' /\ InLevel(u, r, y)' BY <1>1, <2>3, <3>1, <3>2
    <3>4. Before(x, y) <=> t = u /\ (Better(t, q, r) \/ (q = r /\ Ahead(t, q, x, y)))
      BY <3>1, <3>2, BeforeInLevels
    <3>5. Before(x, y)' <=> t = u /\ (Better(t, q, r) \/ (q = r /\ Ahead(t, q, x, y)'))
      BY <3>3, BeforeInLevels
    <3>6. t = u /\ q = r => (Ahead(t, q, x, y) <=> Ahead(t, q, x, y)')
      <4>1. SUFFICES ASSUME t = u, q = r PROVE Ahead(t, q, x, y) <=> Ahead(t, q, x, y)'
        OBVIOUS
      <4>2. /\ x # y => Ahead(t, q, x, y) \/ Ahead(t, q, y, x)
            /\ ~(Ahead(t, q, x, y) /\ Ahead(t, q, y, x))
        BY <1>2, <3>1, <3>2, <4>1, AheadEitherWay
      <4>3. ~(Ahead(t, q, x, y) /\ Ahead(t, q, y, x))'
        BY <1>1, <1>2, <3>3, <4>1, AheadEitherWay
      <4>4. /\ Ahead(t, q, x, y) => Ahead(t, q, x, y)'
            /\ Ahead(t, q, y, x) => Ahead(t, q, y, x)'
        BY <1>k, <2>3
      <4>5. x = y => ~Ahead(t, q, x, y)' BY <4>3
      <4> QED BY <4>2, <4>3, <4>4, <4>5
    <3> QED BY <2>3, <3>4, <3>5, <3>6
  <2>4. Before(x, y) => InBook(x) /\ InBook(y) BY BeforeAreResting
  <2>5. Before(x, y)' => InBook(x)' /\ InBook(y)' BY BeforeAreResting DEF Before, InBook
  <2> QED BY <2>1, <2>3, <2>4, <2>5
<1> QED BY <1>3 DEF Queue, gone

\* A newcomer stands behind all orders of its side that have its price or a better one.
LEMMA AddToQueue ==
    ASSUME TypeOK, RestingAreOpen, RestingOnce, RestingAreOpen',
           NEW s \in Sides, NEW p \in Prices, NEW o \in Orders, ~InBook(o), AddOrder(s, p, o)
    PROVE  \A x, y \in Orders :
              Before(x, y)' <=>
                 \/ Before(x, y)
                 \/ y = o /\ \E q \in Prices : InLevel(s, q, x) /\ ~Better(s, p, q)
                 \/ x = o /\ \E q \in Prices : InLevel(s, q, y) /\ Better(s, p, q)
<1>1. /\ \A t \in Sides, q \in Prices, x \in Orders :
            InLevel(t, q, x)' <=> InLevel(t, q, x) \/ (t = s /\ q = p /\ x = o)
      /\ RestingOnce'
  BY AddBook
<1>2. \A t \in Sides, q \in Prices : levels[t][q] \in Seq(Orders) /\ levels'[t][q] \in Seq(Orders)
  BY AddFacts DEF TypeOK
<1>3. \A t \in Sides, q \in Prices, x \in Orders :
         /\ \A y \in Orders : Ahead(t, q, x, y) => Ahead(t, q, x, y)'
         /\ InLevel(s, p, x) => Ahead(s, p, x, o)'
  BY AddKeepsAhead
<1>n. \A q \in Prices : q \in Nat BY PricesPositive
<1>4. SUFFICES ASSUME NEW x \in Orders, NEW y \in Orders
               PROVE  Before(x, y)' <=>
                         \/ Before(x, y)
                         \/ y = o /\ \E q \in Prices : InLevel(s, q, x) /\ ~Better(s, p, q)
                         \/ x = o /\ \E q \in Prices : InLevel(s, q, y) /\ Better(s, p, q)
  OBVIOUS
<1>o. \A t \in Sides, q \in Prices : ~InLevel(t, q, o) BY DEF InBook
<1>i. InLevel(s, p, o)' BY <1>1
<1>b. ASSUME NEW t \in Sides, NEW q \in Prices, NEW u \in Sides, NEW r \in Prices,
             InLevel(t, q, x)', InLevel(u, r, y)'
      PROVE  Before(x, y)' <=> t = u /\ (Better(t, q, r) \/ (q = r /\ Ahead(t, q, x, y)'))
  BY <1>b, BeforeInLevels
<1>u. ASSUME NEW t \in Sides, NEW q \in Prices, InLevel(t, q, x)', InLevel(t, q, y)'
      PROVE  ~(Ahead(t, q, x, y) /\ Ahead(t, q, y, x))'
  BY <1>1, <1>2, <1>u, AheadEitherWay
<1>5. CASE InBook(x) /\ InBook(y)
  <2>1. PICK t \in Sides, q \in Prices : InLevel(t, q, x) BY <1>5 DEF InBook
  <2>2. PICK u \in Sides, r \in Prices : InLevel(u, r, y) BY <1>5 DEF InBook
  <2>3. InLevel(t, q, x)' /\ InLevel(u, r, y)' BY <1>1, <2>1, <2>2
  <2>4. Before(x, y) <=> t = u /\ (Better(t, q, r) \/ (q = r /\ Ahead(t, q, x, y)))
    BY <2>1, <2>2, BeforeInLevels
  <2>5. Before(x, y)' <=> t = u /\ (Better(t, q, r) \/ (q = r /\ Ahead(t, q, x, y)'))
    BY <1>b, <2>3
  <2>6. t = u /\ q = r => (Ahead(t, q, x, y) <=> Ahead(t, q, x, y)')
    <3>1. SUFFICES ASSUME t = u, q = r PROVE Ahead(t, q, x, y) <=> Ahead(t, q, x, y)' OBVIOUS
    <3>2. x # y => Ahead(t, q, x, y) \/ Ahead(t, q, y, x)
      BY <1>2, <2>1, <2>2, <3>1, AheadEitherWay
    <3>3. ~(Ahead(t, q, x, y) /\ Ahead(t, q, y, x))' BY <1>u, <2>3, <3>1
    <3> QED BY <1>3, <3>2, <3>3
  <2> QED BY <1>5, <2>4, <2>5, <2>6
<1>6. CASE x = o /\ y # o /\ InBook(y)
  <2>1. PICK u \in Sides, r \in Prices : InLevel(u, r, y) BY <1>6 DEF InBook
  <2>2. InLevel(u, r, y)' BY <1>1, <2>1
  <2>3. Before(x, y)' <=> s = u /\ (Better(s, p, r) \/ (p = r /\ Ahead(s, p, x, y)'))
    BY <1>b, <1>i, <1>6, <2>2
  <2>4. s = u /\ p = r => ~Ahead(s, p, x, y)' BY <1>3, <1>6, <1>i, <1>u, <2>1, <2>2
  <2>5. ~Before(x, y) BY <1>6, BeforeAreResting
  <2>6. \A q \in Prices : InLevel(s, q, y) => s = u /\ q = r BY <2>1 DEF RestingAreOpen
  <2> QED BY <1>6, <2>1, <2>3, <2>4, <2>5, <2>6
<1>7. CASE y = o /\ x # o /\ InBook(x)
  <2>1. PICK t \in Sides, q \in Prices : InLevel(t, q, x) BY <1>7 DEF InBook
  <2>2. InLevel(t, q, x)' BY <1>1, <2>1
  <2>3. Before(x, y)' <=> t = s /\ (Better(t, q, p) \/ (q = p /\ Ahead(t, q, x, y)'))
    BY <1>b, <1>i, <1>7, <2>2
  <2>4. t = s /\ q = p => Ahead(t, q, x, y)' BY <1>3, <1>7, <2>1
  <2>5. ~Before(x, y) BY <1>7, BeforeAreResting
  <2>6. \A r \in Prices : InLevel(s, r, x) => s = t /\ r = q BY <2>1 DEF RestingAreOpen
  <2>7. ~Better(s, p, q) <=> q = p \/ Better(s, q, p) BY <1>n DEF Better
  <2> QED BY <1>7, <2>1, <2>3, <2>4, <2>5, <2>6, <2>7
<1>8. CASE x = o /\ y = o
  <2>1. ~Ahead(s, p, x, y)' BY <1>8, <1>i, <1>u
  <2>2. ~Better(s, p, p) BY <1>n DEF Better
  <2>3. Before(x, y)' <=> s = s /\ (Better(s, p, p) \/ (p = p /\ Ahead(s, p, x, y)'))
    BY <1>b, <1>i, <1>8
  <2>4. ~Before(x, y) BY <1>8, BeforeAreResting
  <2> QED BY <1>8, <1>o, <2>1, <2>2, <2>3, <2>4
<1>9. CASE (x # o /\ ~InBook(x)) \/ (y # o /\ ~InBook(y))
  <2>1. ~Before(x, y) BY <1>9, BeforeAreResting
  <2>2. ~(InBook(x) /\ InBook(y))' BY <1>1, <1>9 DEF InBook
  <2>3. ~Before(x, y)' BY <2>2 DEF Before, InBook
  <2>4. /\ y = o => \A q \in Prices : ~InLevel(s, q, x)
        /\ x = o => \A q \in Prices : ~InLevel(s, q, y)
    BY <1>9, <1>o DEF InBook
  <2> QED BY <2>1, <2>3, <2>4
<1> QED BY <1>5, <1>6, <1>7, <1>8, <1>9

\* What the exchange sees of an order depends on these parts of the engine.
SameView(x) ==
    /\ Entered(x)' = Entered(x) /\ (pc'[x] = "done" <=> pc[x] = "done")
    /\ Entered(x) => SameTerms(order'[x], order[x]) /\ order'[x].remaining = order[x].remaining

LEMMA ViewKept ==
    ASSUME NEW x \in Orders, SameView(x)
    PROVE  /\ TermsOf(x)' = TermsOf(x) /\ Unfilled'[x] = Unfilled[x]
           /\ InBook(x)' = InBook(x) => PhaseOf(x)' = PhaseOf(x)
BY DEF SameView, SameTerms, TermsOf, Unfilled, PhaseOf

LEMMA SameBook ==
    ASSUME UNCHANGED levels
    PROVE  UNCHANGED Queue /\ \A x \in Orders : InBook(x)' = InBook(x)
BY DEF Queue, Before, InBook, InLevel

ExchangeVars == <<Phases, AllTerms, Unfilled, Queue, running, matches>>

\* Calls, the lock, the stop queue and refused orders are none of the exchange's business.
LEMMA NothingToSee ==
    ASSUME UNCHANGED <<levels, running, matches>>, \A x \in Orders : SameView(x)
    PROVE  UNCHANGED ExchangeVars
<1>1. UNCHANGED Queue /\ \A x \in Orders : PhaseOf(x)' = PhaseOf(x)
  BY SameBook, ViewKept
<1>2. UNCHANGED Phases BY <1>1 DEF Phases
<1>3. UNCHANGED AllTerms BY ViewKept DEF AllTerms
<1>4. UNCHANGED Unfilled BY ViewKept DEF Unfilled
<1> QED BY <1>1, <1>2, <1>3, <1>4 DEF ExchangeVars

\* An order that asks for the lock comes in.
LEMMA ComesIn ==
    ASSUME IInv, NEW o \in Orders, running = Nobody, pc[o] \in {"new", "stop", "triggered"},
           UNCHANGED <<levels, running, matches>>, pc'[o] \in {"polling", "locked"},
           order'[o] \in OrderRec, order'[o].remaining > 0,
           \A x \in Orders : x # o => SameView(x)
    PROVE  Exch!Arrive(o)
<1>1. RestingAreOpen /\ ~Entered(o) /\ Entered(o)' /\ ~InBook(o)
  BY MyTurnNotInBook DEF IInv, Entered
<1>2. UNCHANGED Queue /\ \A x \in Orders : InBook(x)' = InBook(x) BY SameBook
<1>3. \A x \in Orders : x # o =>
         TermsOf(x)' = TermsOf(x) /\ Unfilled'[x] = Unfilled[x] /\ PhaseOf(x)' = PhaseOf(x)
  BY <1>2, ViewKept
<1>4. Phases[o] = "absent" /\ Phases' = [Phases EXCEPT ![o] = "incoming"]
  <2>1. PhaseOf(o) = "absent" /\ PhaseOf(o)' = "incoming" BY <1>1 DEF PhaseOf
  <2> QED BY <1>3, <2>1 DEF Phases
<1>5. TermsOf(o)' \in Exch!Terms
  <2>1. order'[o].side \in Sides /\ order'[o].price \in Prices \cup {NoPrice} BY DEF OrderRec
  <2> QED BY <1>1, <2>1 DEF TermsOf, Exch!Terms
<1>6. AllTerms' = [AllTerms EXCEPT ![o] = TermsOf(o)'] BY <1>3 DEF AllTerms
<1>7. Unfilled'[o] \in Nat \ {0}
  <2>1. order'[o].remaining \in Nat BY DEF OrderRec
  <2> QED BY <1>1, <2>1 DEF Unfilled
<1>8. Unfilled' = [Unfilled EXCEPT ![o] = Unfilled'[o]] BY <1>3 DEF Unfilled
<1> QED BY <1>2, <1>4, <1>5, <1>6, <1>7, <1>8 DEF Exch!Arrive

LEMMA TermsStay ==
    ASSUME NEW x \in Orders, Entered(x)' = Entered(x),
           Entered(x) => SameTerms(order'[x], order[x])
    PROVE  TermsOf(x)' = TermsOf(x)
BY DEF SameTerms, TermsOf

\* The status of one order changes.
LEMMA StatusChange ==
    ASSUME TypeOK, NEW o \in Orders, NEW st \in Status, order' = [order EXCEPT ![o].status = st]
    PROVE  \A x \in Orders :
              SameTerms(order'[x], order[x]) /\ order'[x].remaining = order[x].remaining
<1>1. order' = [order EXCEPT ![o] = [order[o] EXCEPT !.status = st]] BY DEF TypeOK
<1>2. order[o] \in OrderRec BY DEF TypeOK
<1>3. SameTerms(order'[o], order[o]) /\ order'[o].remaining = order[o].remaining
  BY <1>1, <1>2, RecordFacts DEF TypeOK
<1>4. \A x \in Orders : x # o => order'[x] = order[x] BY <1>1 DEF TypeOK
<1> QED BY <1>3, <1>4 DEF SameTerms

\* With whom an order may trade: with those in the levels its price crosses.
LEMMA OpponentsAre ==
    ASSUME IInv, NEW o \in Orders, pc[o] = "locked", NEW b \in Orders
    PROVE  b \in Exch!Opponents(o)
              <=> \E p \in Prices : InLevel(Opposite(order[o].side), p, b) /\ Crosses(o, p)
<1>1. TypeOK /\ RestingAreOpen /\ InFlightValid BY DEF IInv
<1>2. /\ order[o].side \in Sides /\ order[o].type \in {"LIMIT", "MARKET"}
      /\ order[o].type = "LIMIT" => order[o].price # NoPrice
  BY <1>1 DEF TypeOK, OrderRec, InFlightValid, ValidOrder
<1>3. AllTerms[o] = [side |-> order[o].side,
                     price |-> IF order[o].type = "MARKET" THEN NoPrice ELSE order[o].price]
  BY DEF AllTerms, TermsOf, Entered
<1>4. b \in Exch!Opponents(o)
         <=> InBook(b) /\ AllTerms[b].side # AllTerms[o].side /\ Exch!Accepts(o, b)
  BY <1>1, RestingPhase DEF Exch!Opponents, Exch!Resting
<1>5. ASSUME NEW s \in Sides, NEW p \in Prices, InLevel(s, p, b)
      PROVE  /\ AllTerms[b].side # AllTerms[o].side <=> s = Opposite(order[o].side)
             /\ Exch!Accepts(o, b) <=> Crosses(o, p)
  <2>1. AllTerms[b] = [side |-> s, price |-> p] BY <1>1, <1>5, RestingPhase
  <2>2. s # order[o].side <=> s = Opposite(order[o].side) BY <1>2 DEF Opposite, Sides
  <2> QED BY <1>2, <1>3, <2>1, <2>2 DEF Exch!Accepts, Crosses
<1>6. Opposite(order[o].side) \in Sides BY <1>2, OppositeSide
<1> QED BY <1>4, <1>5, <1>6 DEF InBook

\* When the loop finds nothing to match, nobody is left to trade with.
LEMMA NobodyLeft ==
    ASSUME IInv, NEW o \in Orders, pc[o] = "locked", NothingToMatch(o)
    PROVE  Exch!Opponents(o) = {}
<1> DEFINE s == Opposite(order[o].side)
<1>1. SUFFICES ASSUME NEW b \in Exch!Opponents(o) PROVE FALSE OBVIOUS
<1>2. b \in Orders BY DEF Exch!Opponents, Exch!Resting
<1>3. PICK p \in Prices : InLevel(s, p, b) /\ Crosses(o, p) BY <1>2, OpponentsAre
<1>4. s \in Sides BY OppositeSide DEF IInv, TypeOK, OrderRec
<1>5. p \in Occupied(s)
  <2>1. levels[s][p] \in Seq(Orders) BY <1>4 DEF IInv, TypeOK
  <2> QED BY <1>3, <2>1 DEF InLevel, Occupied
<1>6. PICK r \in Prices : IsBest(s, r) BY <1>4, <1>5, BestExists
<1>7. ~Crosses(o, r) BY <1>6 DEF NothingToMatch, Matchable
<1>8. IF s = "BUY" THEN p <= r ELSE r <= p BY <1>5, <1>6 DEF IsBest
<1>9. p \in Nat /\ r \in Nat BY PricesPositive
<1>10. order[o].side \in Sides /\ order[o].price \in Nat
  <2>1. order[o].side \in Sides /\ order[o].price \in Prices \cup {NoPrice}
    BY DEF IInv, TypeOK, OrderRec
  <2> QED BY <2>1, PricesPositive DEF NoPrice
<1>11. s = "BUY" <=> order[o].side # "BUY" BY <1>10 DEF Opposite, Sides
<1> HIDE DEF s
<1> QED BY <1>3, <1>7, <1>8, <1>9, <1>10, <1>11 DEF Crosses

\* One match is one trade.
LEMMA Trades ==
    ASSUME IInv, IInv', NEW o \in Orders, ExecuteMatch(o)
    PROVE  \E b \in Orders, stays \in BOOLEAN : Exch!Trade(o, b, stays)
<1>1. PICK p \in Prices : Matchable(o, p) /\ MatchAt(o, p) BY DEF ExecuteMatch
<1>2. PICK b \in Orders, q \in Nat : MatchEffect(o, p, b, q)
  BY <1>1, MatchHasEffect DEF ExecuteMatch
<1> DEFINE s     == Opposite(order[o].side)
           after == StatusAfterMatch(o, order[o].remaining - q)
           stays == after \notin {"FILLED", "CANCELLED"}
<1>3. TypeOK /\ RestingAreOpen /\ RestingOnce /\ RestingAreOpen' BY DEF IInv
<1>4. pc[o] = "locked" /\ running \in {Nobody, o} BY DEF ExecuteMatch, MyTurn
<1>5. s \in Sides BY <1>3, OppositeSide DEF TypeOK, OrderRec
<1>6. /\ \A t \in Sides, r \in Prices, x \in Orders :
            InLevel(t, r, x)' <=> InLevel(t, r, x) /\ ~(x = b /\ order[b].remaining - q = 0)
      /\ InLevel(s, p, b)
  BY <1>2, MatchBook
<1>7. /\ b # o /\ b = levels[s][p][1] /\ 1 \in 1..Len(levels[s][p])
      /\ q = MatchQuantity(o, b)
      /\ \/ order[b].remaining - q = 0 /\ RemoveOrder(s, p, 1, 0)
         \/ order[b].remaining - q # 0 /\ UNCHANGED levels
      /\ matches' = Append(matches, MatchResult(o, b, p, q))
      /\ \/ ~stays /\ EndTurn(o)
         \/ stays /\ StayInTurn(o)
  BY <1>2 DEF MatchEffect
<1>8. order[o].remaining \in Nat /\ order[b].remaining \in Nat /\ q \in Nat
  BY <1>3 DEF TypeOK, OrderRec
<1>9. /\ \A x \in Orders : SameTerms(order'[x], order[x])
      /\ \A x \in Orders : x \notin {o, b} => order'[x] = order[x]
      /\ \A x \in {o, b} : order'[x].remaining = order[x].remaining - q
  BY <1>2, <1>3, MatchOrders
<1>10. /\ Entered(o) /\ Unfilled[o] = order[o].remaining
       /\ pc[b] = "done" /\ Entered(b) /\ Unfilled[b] = order[b].remaining
  <2>1. pc[b] = "done" BY <1>3, <1>5, <1>6 DEF RestingAreOpen
  <2> QED BY <1>4, <2>1 DEF Entered, Unfilled
<1>11. /\ \A x \in Orders : x # o => pc'[x] = pc[x]
       /\ pc'[o] = IF stays THEN "locked" ELSE "done"
       /\ running' = IF stays THEN o ELSE Nobody
  BY <1>3, <1>4, <1>7 DEF EndTurn, StayInTurn, TypeOK
<1>12. \A x \in Orders : Entered(x)' = Entered(x) BY <1>4, <1>11 DEF Entered
<1>13. UNCHANGED AllTerms BY <1>9, <1>12, TermsStay DEF AllTerms
<1>14. ~InBook(o) /\ ~InBook(o)' /\ InBook(b) /\ (InBook(b)' <=> order[b].remaining # q)
  <2>1. ~InBook(o) BY <1>3, <1>4, MyTurnNotInBook
  <2> QED BY <1>5, <1>6, <1>8, <2>1 DEF InBook
<1>15. q = IF Unfilled[o] <= Unfilled[b] THEN Unfilled[o] ELSE Unfilled[b]
  BY <1>7, <1>10 DEF MatchQuantity
<1>16. stays => Unfilled[o] # q
  BY <1>8, <1>10 DEF StatusAfterMatch
<1> HIDE DEF stays, s
<1>17. Unfilled' = [Unfilled EXCEPT ![o] = @ - q, ![b] = @ - q]
  BY <1>7, <1>9, <1>10, <1>12 DEF Unfilled
<1>18. Phases' = [Phases EXCEPT ![o] = IF stays THEN @ ELSE "closed",
                                ![b] = IF Unfilled[b] = q THEN "closed" ELSE @]
  <2>1. PhaseOf(o) = "incoming" /\ PhaseOf(o)' = IF stays THEN "incoming" ELSE "closed"
    BY <1>4, <1>10, <1>11, <1>12, <1>14 DEF PhaseOf
  <2>2. PhaseOf(b) = "resting" /\ PhaseOf(b)' = IF Unfilled[b] = q THEN "closed" ELSE "resting"
    BY <1>7, <1>10, <1>11, <1>12, <1>14 DEF PhaseOf
  <2>3. ASSUME NEW x \in Orders, x \notin {o, b} PROVE PhaseOf(x)' = PhaseOf(x)
    BY <1>6, <1>11, <1>12, <2>3 DEF PhaseOf, InBook
  <2> QED BY <1>7, <2>1, <2>2, <2>3 DEF Phases
<1>19. Queue' = IF Unfilled[b] = q THEN Exch!Without(b) ELSE Queue
  <2>1. CASE order[b].remaining - q = 0 /\ RemoveOrder(s, p, 1, 0)
    <3>1. 0 \in Int OBVIOUS
    <3>2. Queue' = {pair \in Queue : levels[s][p][1] \notin {pair[1], pair[2]}}
      BY <1>3, <1>5, <1>7, <2>1, <3>1, RemoveFromQueue
    <3>3. Unfilled[b] = q BY <1>8, <1>10, <2>1
    <3> QED BY <1>7, <3>2, <3>3 DEF Exch!Without
  <2>2. CASE order[b].remaining - q # 0 /\ UNCHANGED levels
    BY <1>8, <1>10, <2>2, SameBook
  <2> QED BY <1>7, <2>1, <2>2
<1>20. b \in Exch!Opponents(o) /\ \A x \in Orders : <<x, b>> \notin Queue
  <2>1. IsBest(s, p) /\ Crosses(o, p) BY <1>1 DEF Matchable, s
  <2>2. \A x \in Orders : ~Before(x, b) BY <1>3, <1>5, <1>7, <2>1, HeadIsInFront
  <2>3. b \in Exch!Opponents(o) BY <1>4, <1>6, <2>1, OpponentsAre DEF s
  <2> QED BY <2>2, <2>3 DEF Queue
<1>21. matches' = Append(matches, Exch!TradeOf(o, b, q))
  <2>1. AllTerms[o].side = order[o].side BY <1>10 DEF AllTerms, TermsOf
  <2>2. AllTerms[b].price = p BY <1>3, <1>5, <1>6, RestingPhase
  <2> QED BY <1>7, <2>1, <2>2 DEF MatchResult, Exch!TradeOf
<1>22. Exch!MyTurn(o) BY <1>3, <1>4, RestingPhase DEF Exch!MyTurn
<1>23. stays \in BOOLEAN BY DEF stays
<1>24. Exch!Trade(o, b, stays)
  BY <1>11, <1>13, <1>15, <1>16, <1>17, <1>18, <1>19, <1>20, <1>21, <1>22 DEF Exch!Trade
<1> QED BY <1>23, <1>24

\* An order whose turn ends without a place in the book leaves.
LEMMA Leaves ==
    ASSUME IInv, NEW o \in Orders, MyTurn(o), NothingToMatch(o), NEW st \in Status,
           order' = [order EXCEPT ![o].status = st], EndTurn(o), UNCHANGED <<levels, matches>>
    PROVE  Exch!Leave(o)
<1>1. TypeOK /\ RestingAreOpen BY DEF IInv
<1>2. pc[o] = "locked" /\ running \in {Nobody, o} BY DEF MyTurn
<1>3. /\ pc'[o] = "done" /\ \A x \in Orders : x # o => pc'[x] = pc[x]
      /\ running' = Nobody
  BY <1>1 DEF EndTurn, TypeOK
<1>4. \A x \in Orders : Entered(x)' = Entered(x) BY <1>2, <1>3 DEF Entered
<1>5. \A x \in Orders :
         SameTerms(order'[x], order[x]) /\ order'[x].remaining = order[x].remaining
  BY <1>1, StatusChange
<1>6. UNCHANGED <<AllTerms, Unfilled>>
  BY <1>4, <1>5, TermsStay DEF AllTerms, Unfilled
<1>7. UNCHANGED Queue /\ \A x \in Orders : InBook(x)' = InBook(x) BY SameBook
<1>8. Phases' = [Phases EXCEPT ![o] = "closed"]
  <2>1. PhaseOf(o)' = "closed" BY <1>1, <1>2, <1>3, <1>7, MyTurnNotInBook DEF PhaseOf, Entered
  <2>2. \A x \in Orders : x # o => PhaseOf(x)' = PhaseOf(x) BY <1>3, <1>4, <1>7 DEF PhaseOf
  <2> QED BY <2>1, <2>2 DEF Phases
<1>9. Exch!MyTurn(o) BY <1>1, <1>2, RestingPhase DEF Exch!MyTurn
<1>10. Exch!Opponents(o) = {} BY <1>2, NobodyLeft
<1> QED BY <1>3, <1>6, <1>7, <1>8, <1>9, <1>10 DEF Exch!Leave

\* An order that is added to its level takes its place in the queue.
LEMMA Rests ==
    ASSUME IInv, IInv', NEW o \in Orders, MyTurn(o), NothingToMatch(o), order[o].type = "LIMIT",
           NEW st \in Status, order' = [order EXCEPT ![o].status = st],
           AddOrder(order[o].side, order[o].price, o), EndTurn(o), UNCHANGED matches
    PROVE  Exch!Rest(o)
<1> DEFINE s == order[o].side
           p == order[o].price
<1>1. TypeOK /\ RestingAreOpen /\ RestingOnce /\ RestingAreOpen' BY DEF IInv
<1>2. pc[o] = "locked" /\ running \in {Nobody, o} BY DEF MyTurn
<1>3. /\ pc'[o] = "done" /\ \A x \in Orders : x # o => pc'[x] = pc[x]
      /\ running' = Nobody
  BY <1>1 DEF EndTurn, TypeOK
<1>4. \A x \in Orders : Entered(x)' = Entered(x) BY <1>2, <1>3 DEF Entered
<1>5. \A x \in Orders :
         SameTerms(order'[x], order[x]) /\ order'[x].remaining = order[x].remaining
  BY <1>1, StatusChange
<1>6. UNCHANGED <<AllTerms, Unfilled>>
  BY <1>4, <1>5, TermsStay DEF AllTerms, Unfilled
<1>7. s \in Sides /\ p \in Prices /\ p # NoPrice
  BY <1>1, <1>2, PricesPositive DEF IInv, TypeOK, OrderRec, InFlightValid, ValidOrder
<1>8. AllTerms[o] = [side |-> s, price |-> p]
  BY <1>2 DEF AllTerms, TermsOf, Entered
<1>9. ~InBook(o) BY <1>1, <1>2, MyTurnNotInBook
<1> HIDE DEF s, p
<1>10. AddOrder(s, p, o) BY DEF s, p
<1>11. \A t \in Sides, q \in Prices, x \in Orders :
          InLevel(t, q, x)' <=> InLevel(t, q, x) \/ (t = s /\ q = p /\ x = o)
  BY <1>1, <1>7, <1>9, <1>10, AddBook
<1>12. Phases' = [Phases EXCEPT ![o] = "resting"]
  <2>1. PhaseOf(o)' = "resting"
    <3>1. InBook(o)' BY <1>7, <1>11 DEF InBook
    <3> QED BY <1>3, <3>1 DEF PhaseOf, Entered
  <2>2. ASSUME NEW x \in Orders, x # o PROVE PhaseOf(x)' = PhaseOf(x)
    <3>1. InBook(x)' = InBook(x) BY <1>11, <2>2 DEF InBook
    <3> QED BY <1>3, <1>4, <2>2, <3>1 DEF PhaseOf
  <2> QED BY <2>1, <2>2 DEF Phases
<1>13. \A x \in Orders :
          /\ x \in Exch!Rivals(o) <=> \E q \in Prices : InLevel(s, q, x)
          /\ x \in Exch!Behind(o) <=> \E q \in Prices : InLevel(s, q, x) /\ Better(s, p, q)
  <2> SUFFICES ASSUME NEW x \in Orders
               PROVE  /\ x \in Exch!Rivals(o) <=> \E q \in Prices : InLevel(s, q, x)
                      /\ x \in Exch!Behind(o)
                            <=> \E q \in Prices : InLevel(s, q, x) /\ Better(s, p, q)
    OBVIOUS
  <2>1. x \in Exch!Rivals(o) <=> InBook(x) /\ AllTerms[x].side = s
    BY <1>1, <1>8, RestingPhase DEF Exch!Rivals, Exch!Resting
  <2>2. ASSUME NEW t \in Sides, NEW q \in Prices, InLevel(t, q, x)
        PROVE  AllTerms[x].side = t /\ AllTerms[x].price = q
    <3>1. AllTerms[x] = [side |-> t, price |-> q] BY <1>1, <2>2, RestingPhase
    <3> QED BY <3>1
  <2>3. x \in Exch!Rivals(o) <=> \E q \in Prices : InLevel(s, q, x)
    BY <1>7, <2>1, <2>2 DEF InBook
  <2>4. ASSUME NEW q \in Prices, InLevel(s, q, x)
        PROVE  Exch!Outbids(o, x) <=> Better(s, p, q)
    <3>1. AllTerms[o].side = s /\ AllTerms[o].price = p BY <1>8
    <3>2. AllTerms[x].side = s /\ AllTerms[x].price = q BY <1>7, <2>2, <2>4
    <3> QED BY <3>1, <3>2 DEF Exch!Outbids, Better
  <2>5. x \in Exch!Behind(o) <=> x \in Exch!Rivals(o) /\ Exch!Outbids(o, x) BY DEF Exch!Behind
  <2> QED BY <2>3, <2>4, <2>5
<1>14. Queue' = Queue \cup ((Exch!Rivals(o) \ Exch!Behind(o)) \X {o}) \cup ({o} \X Exch!Behind(o))
  <2>1. \A x, y \in Orders :
           Before(x, y)' <=> \/ Before(x, y)
                             \/ y = o /\ x \in Exch!Rivals(o) \ Exch!Behind(o)
                             \/ x = o /\ y \in Exch!Behind(o)
    <3>1. \A x, y \in Orders :
             Before(x, y)' <=>
                \/ Before(x, y)
                \/ y = o /\ \E q \in Prices : InLevel(s, q, x) /\ ~Better(s, p, q)
                \/ x = o /\ \E q \in Prices : InLevel(s, q, y) /\ Better(s, p, q)
      BY <1>1, <1>7, <1>9, <1>10, AddToQueue
    <3>2. \A x \in Orders : x \in Exch!Rivals(o) \ Exch!Behind(o)
             <=> \E q \in Prices : InLevel(s, q, x) /\ ~Better(s, p, q)
      BY <1>1, <1>7, <1>13 DEF RestingAreOpen
    <3> QED BY <1>13, <3>1, <3>2
  <2>2. Exch!Rivals(o) \subseteq Orders /\ Exch!Behind(o) \subseteq Orders
    BY DEF Exch!Rivals, Exch!Behind, Exch!Resting
  <2>3. \A pair \in Orders \X Orders : pair = <<pair[1], pair[2]>> /\ pair[1] \in Orders /\ pair[2] \in Orders
    OBVIOUS
  <2> QED BY <2>1, <2>2, <2>3 DEF Queue
<1>15. Exch!MyTurn(o) BY <1>1, <1>2, RestingPhase DEF Exch!MyTurn
<1>16. Exch!Opponents(o) = {} BY <1>2, NobodyLeft
<1> QED BY <1>3, <1>6, <1>7, <1>8, <1>12, <1>14, <1>15, <1>16 DEF Exch!Rest

\* A cancelled order leaves the queue; if it does not rest, nothing happens.
LEMMA Withdraws ==
    ASSUME IInv, IInv', NEW o \in Orders, CancelOrder(o)
    PROVE  Exch!Withdraw(o) \/ UNCHANGED ExchangeVars
<1>1. TypeOK /\ RestingAreOpen /\ RestingOnce /\ RestingAreOpen' BY DEF IInv
<1>2. running = Nobody /\ UNCHANGED <<running, pc, matches>> BY DEF CancelOrder
<1>3. CASE UNCHANGED <<order, levels, total>>
  <2>1. \A x \in Orders : SameView(x) BY <1>2, <1>3 DEF SameView, SameTerms, Entered
  <2> QED BY <1>2, <1>3, <2>1, NothingToSee
<1>4. ASSUME NEW s \in Sides, NEW p \in Prices, NEW i \in 1..Len(levels[s][p]),
             levels[s][p][i] = o, RemoveOrder(s, p, i, order[o].remaining),
             order' = [order EXCEPT ![o].status = "CANCELLED"]
      PROVE  Exch!Withdraw(o)
  <2>1. order[o].remaining \in Int BY <1>1 DEF TypeOK, OrderRec
  <2>2. Queue' = Exch!Without(o)
    BY <1>1, <1>4, <2>1, RemoveFromQueue DEF Exch!Without
  <2>3. \A t \in Sides, q \in Prices, x \in Orders :
           InLevel(t, q, x)' <=> InLevel(t, q, x) /\ x # o
    BY <1>1, <1>4, <2>1, RemoveBook
  <2>4. InBook(o) /\ ~InBook(o)' /\ \A x \in Orders : x # o => InBook(x)' = InBook(x)
    BY <1>4, <2>3 DEF InBook, InLevel
  <2>5. \A x \in Orders :
           SameTerms(order'[x], order[x]) /\ order'[x].remaining = order[x].remaining
    <3>1. "CANCELLED" \in Status BY DEF Status
    <3> QED BY <1>1, <1>4, <3>1, StatusChange
  <2>6. \A x \in Orders : Entered(x)' = Entered(x) BY <1>2 DEF Entered
  <2>7. UNCHANGED <<AllTerms, Unfilled>>
    BY <2>5, <2>6, TermsStay DEF AllTerms, Unfilled
  <2>8. Phases[o] = "resting" BY <1>1, <2>4, RestingPhase
  <2>9. Phases' = [Phases EXCEPT ![o] = "closed"]
    <3>1. PhaseOf(o)' = "closed" BY <1>2, <2>4, <2>6, <2>8 DEF PhaseOf, Phases
    <3>2. \A x \in Orders : x # o => PhaseOf(x)' = PhaseOf(x)
      BY <1>2, <2>4, <2>6 DEF PhaseOf
    <3> QED BY <3>1, <3>2 DEF Phases
  <2> QED BY <1>2, <2>2, <2>7, <2>8, <2>9 DEF Exch!Withdraw
<1> QED BY <1>3, <1>4 DEF CancelOrder

-----------------------------------------------------------------------------
\* What was queued as a stop order is resubmitted whole.
LEMMA StopsStayWhole == IInv /\ StopsAreWhole /\ [Next]_vars => StopsAreWhole'
<1> SUFFICES ASSUME IInv, StopsAreWhole, [Next]_vars PROVE StopsAreWhole'
  OBVIOUS
<1>1. TypeOK /\ RestingAreOpen BY DEF IInv
<1>2. ASSUME NEW o \in Orders, ExecuteMatch(o) PROVE StopsAreWhole'
  <2>1. PICK p \in Prices : Matchable(o, p) /\ MatchAt(o, p) BY <1>2 DEF ExecuteMatch
  <2>2. PICK b \in Orders, q \in Nat : MatchEffect(o, p, b, q)
    BY <1>2, <2>1, MatchHasEffect DEF ExecuteMatch
  <2>3. InLevel(Opposite(order[o].side), p, b) BY <2>2, MatchBook
  <2>4. Opposite(order[o].side) \in Sides BY <1>1, OppositeSide DEF TypeOK, OrderRec
  <2>5. pc[b] = "done" BY <1>1, <2>3, <2>4 DEF RestingAreOpen
  <2>6. \A x \in Orders : x \notin {o, b} => order'[x] = order[x] BY <1>1, <2>2, MatchOrders
  <2>7. /\ pc[o] = "locked" /\ pc'[o] \in {"locked", "done"}
        /\ \A x \in Orders : x # o => pc'[x] = pc[x]
    BY <1>1, <1>2, <2>2 DEF ExecuteMatch, MyTurn, MatchEffect, EndTurn, StayInTurn, TypeOK
  <2> QED BY <2>5, <2>6, <2>7 DEF StopsAreWhole
<1>3. ASSUME NEW o \in Orders, RestLimitOrder(o) \/ EndMarketOrder(o) PROVE StopsAreWhole'
  <2>1. /\ pc'[o] = "done" /\ \A x \in Orders : x # o => pc'[x] = pc[x] /\ order'[x] = order[x]
    BY <1>1, <1>3 DEF RestLimitOrder, EndMarketOrder, EndTurn, TypeOK
  <2> QED BY <2>1 DEF StopsAreWhole
<1>4. ASSUME NEW o \in Orders, CancelOrder(o) PROVE StopsAreWhole'
  <2>1. CASE UNCHANGED <<order, levels, total>> BY <1>4, <2>1 DEF CancelOrder, StopsAreWhole
  <2>2. CASE order' = [order EXCEPT ![o].status = "CANCELLED"]
    <3>1. "CANCELLED" \in Status BY DEF Status
    <3>2. \A x \in Orders :
             SameTerms(order'[x], order[x]) /\ order'[x].remaining = order[x].remaining
      BY <1>1, <2>2, <3>1, StatusChange
    <3> QED BY <1>4, <3>2 DEF CancelOrder, SameTerms, StopsAreWhole
  <2> QED BY <1>4, <2>1, <2>2 DEF CancelOrder
<1>5. ASSUME NEW o \in Orders, ResubmitTriggered(o) PROVE StopsAreWhole'
  <2>1. /\ order' = [order EXCEPT ![o] = Converted(order[o])] /\ pc[o] = "triggered"
        /\ \/ RequestLock(o)
           \/ pc' = [x \in Orders |-> IF x \in Waiting(o) THEN "thrown" ELSE pc[x]]
    BY <1>1, <1>5 DEF ResubmitTriggered, TypeOK
  <2>2. \A x \in Orders : x # o => order'[x] = order[x] /\ pc'[x] \in {pc[x], "thrown"}
    BY <1>1, <2>1 DEF RequestLock, Waiting, TypeOK
  <2>3. /\ order[o] \in OrderRec /\ order'[o] = Converted(order[o])
        /\ Converted(order[o]).remaining = order[o].remaining
        /\ Converted(order[o]).qty = order[o].qty
    BY <1>1, <2>1, RecordFacts DEF TypeOK
  <2> QED BY <2>1, <2>2, <2>3 DEF StopsAreWhole
<1>6. ASSUME NEW o \in Orders, NEW r \in Requests, SubmitOrder(o, r) PROVE StopsAreWhole'
  <2>1. /\ order'[o] = NewOrder(r)
        /\ \A x \in Orders : x # o => order'[x] = order[x] /\ pc'[x] = pc[x]
    BY <1>1, <1>6 DEF SubmitOrder, RequestLock, TypeOK
  <2>2. NewOrder(r).remaining = NewOrder(r).qty BY NewOrderFacts, RequestFacts
  <2> QED BY <2>1, <2>2 DEF StopsAreWhole
<1>7. ASSUME NEW current \in Prices, CheckStopOrders(current) PROVE StopsAreWhole'
  BY <1>1, <1>7 DEF CheckStopOrders, StopQueue, StopsAreWhole, TypeOK
<1>8. ASSUME NEW o \in Orders, PollSubmit(o) \/ PollCancel(o) \/ RequestCancel(o)
      PROVE StopsAreWhole'
  BY <1>1, <1>8 DEF PollSubmit, PollCancel, RequestCancel, RequestLock, StopsAreWhole, TypeOK
<1>9. CASE UNCHANGED vars BY <1>9 DEF vars, StopsAreWhole
<1> QED BY <1>2, <1>3, <1>4, <1>5, <1>6, <1>7, <1>8, <1>9 DEF Next, Progress

\* The steps that bring an order in, or that the exchange does not see.
LEMMA CallsRefine ==
    ASSUME IInv, StopsAreWhole, NEW o \in Orders
    PROVE  /\ \A r \in Requests : SubmitOrder(o, r) => Exch!Arrive(o) \/ UNCHANGED ExchangeVars
           /\ ResubmitTriggered(o) => Exch!Arrive(o) \/ UNCHANGED ExchangeVars
           /\ PollSubmit(o) \/ PollCancel(o) \/ RequestCancel(o) => UNCHANGED ExchangeVars
           /\ \A current \in Prices : CheckStopOrders(current) => UNCHANGED ExchangeVars
<1>1. TypeOK BY DEF IInv
<1>2. ASSUME NEW r \in Requests, SubmitOrder(o, r)
      PROVE  Exch!Arrive(o) \/ UNCHANGED ExchangeVars
  <2>1. /\ order'[o] = NewOrder(r) /\ running = Nobody /\ pc[o] = "new"
        /\ UNCHANGED <<levels, running, matches>>
        /\ \A x \in Orders : x # o => order'[x] = order[x] /\ pc'[x] = pc[x]
    BY <1>1, <1>2 DEF SubmitOrder, RequestLock, TypeOK
  <2>2. \A x \in Orders : x # o => SameView(x) BY <2>1 DEF SameView, SameTerms, Entered
  <2>3. CASE pc'[o] \in {"polling", "locked"}
    <3>1. r.qty > 0 BY <1>1, <1>2, <2>1, <2>3 DEF SubmitOrder, ValidOrder, TypeOK
    <3>2. order'[o] \in OrderRec /\ order'[o].remaining > 0
      <4>1. r \in Request BY RequestFacts
      <4> QED BY <2>1, <3>1, <4>1, RecordFacts DEF NewOrder
    <3> QED BY <2>1, <2>2, <2>3, <3>2, ComesIn
  <2>4. CASE pc'[o] \in {"thrown", "stop"}
    <3>1. SameView(o) BY <2>1, <2>4 DEF SameView, Entered
    <3> QED BY <2>1, <2>2, <3>1, NothingToSee
  <2>5. pc'[o] \in {"polling", "locked", "thrown", "stop"}
    BY <1>1, <1>2 DEF SubmitOrder, RequestLock, TypeOK
  <2> QED BY <2>3, <2>4, <2>5
<1>3. ASSUME ResubmitTriggered(o)
      PROVE  Exch!Arrive(o) \/ UNCHANGED ExchangeVars
  <2>1. /\ pc[o] = "triggered" /\ running = Nobody /\ order'[o] = Converted(order[o])
        /\ UNCHANGED <<levels, running, matches>>
        /\ \A x \in Orders : x # o => order'[x] = order[x]
    BY <1>1, <1>3 DEF ResubmitTriggered, Waiting, TypeOK
  <2>2. CASE ValidOrder(Converted(order[o])) /\ RequestLock(o)
    <3>1. pc'[o] \in {"polling", "locked"} /\ \A x \in Orders : x # o => pc'[x] = pc[x]
      BY <1>1, <2>2 DEF RequestLock, TypeOK
    <3>2. \A x \in Orders : x # o => SameView(x) BY <2>1, <3>1 DEF SameView, SameTerms, Entered
    <3>3. order'[o] \in OrderRec /\ order'[o].remaining > 0
      <4>1. order[o] \in OrderRec BY <1>1 DEF TypeOK
      <4>2. /\ Converted(order[o]) \in OrderRec /\ Converted(order[o]).qty = order[o].qty
            /\ Converted(order[o]).remaining = order[o].remaining
        BY <4>1, RecordFacts
      <4>3. Converted(order[o]).qty > 0 BY <2>2 DEF ValidOrder
      <4> QED BY <2>1, <4>2, <4>3 DEF StopsAreWhole
    <3> QED BY <2>1, <3>1, <3>2, <3>3, ComesIn
  <2>3. CASE pc' = [x \in Orders |-> IF x \in Waiting(o) THEN "thrown" ELSE pc[x]]
    <3>1. \A x \in Orders : SameView(x)
      BY <2>1, <2>3 DEF SameView, SameTerms, Entered, Waiting
    <3> QED BY <2>1, <3>1, NothingToSee
  <2> QED BY <1>3, <2>2, <2>3 DEF ResubmitTriggered
<1>4. ASSUME PollSubmit(o) \/ PollCancel(o) \/ RequestCancel(o)
      PROVE  UNCHANGED ExchangeVars
  <2>1. UNCHANGED <<order, levels, running, matches>>
    BY <1>4 DEF PollSubmit, PollCancel, RequestCancel
  <2>2. \A x \in Orders :
           pc'[x] = pc[x] \/ (pc[x] = "polling" /\ pc'[x] \in {"polling", "locked"})
    <3>1. CASE PollSubmit(o) BY <1>1, <3>1 DEF PollSubmit, RequestLock, TypeOK
    <3>2. CASE PollCancel(o) \/ RequestCancel(o) BY <3>2 DEF PollCancel, RequestCancel
    <3> QED BY <1>4, <3>1, <3>2
  <2>3. \A x \in Orders : SameView(x) BY <2>1, <2>2 DEF SameView, SameTerms, Entered
  <2> QED BY <2>1, <2>3, NothingToSee
<1>5. ASSUME NEW current \in Prices, CheckStopOrders(current)
      PROVE  UNCHANGED ExchangeVars
  <2>1. UNCHANGED <<order, levels, running, matches>> BY <1>5 DEF CheckStopOrders
  <2>2. \A x \in Orders : pc'[x] = pc[x] \/ (pc[x] = "stop" /\ pc'[x] = "triggered")
    BY <1>1, <1>5 DEF CheckStopOrders, StopQueue, TypeOK
  <2>3. \A x \in Orders : SameView(x) BY <2>1, <2>2 DEF SameView, SameTerms, Entered
  <2> QED BY <2>1, <2>3, NothingToSee
<1> QED BY <1>2, <1>3, <1>4, <1>5

\* Every step of the engine is one of the exchange, or one it does not see.
LEMMA StepRefines ==
    IInv /\ IInv' /\ StopsAreWhole /\ [Next]_vars => [Exch!Next]_ExchangeVars
<1> SUFFICES ASSUME IInv, IInv', StopsAreWhole, [Next]_vars
             PROVE  Exch!Next \/ UNCHANGED ExchangeVars
  OBVIOUS
<1>1. ASSUME NEW o \in Orders, ExecuteMatch(o) PROVE Exch!Next
  <2>1. PICK b \in Orders, stays \in BOOLEAN : Exch!Trade(o, b, stays) BY <1>1, Trades
  <2> QED BY <2>1 DEF Exch!Next
<1>2. ASSUME NEW o \in Orders, RestLimitOrder(o) PROVE Exch!Next
  <2>1. CASE order[o].tif = "FOK"
    <3>1. "CANCELLED" \in Status BY DEF Status
    <3>2. Exch!Leave(o) BY <1>2, <2>1, <3>1, Leaves DEF RestLimitOrder, bookVars
    <3> QED BY <3>2 DEF Exch!Next
  <2>2. CASE order[o].tif # "FOK"
    <3>1. (IF order[o].filled > 0 THEN "PARTIAL" ELSE "PENDING") \in Status BY DEF Status
    <3>2. Exch!Rest(o) BY <1>2, <2>2, <3>1, Rests DEF RestLimitOrder
    <3> QED BY <3>2 DEF Exch!Next
  <2> QED BY <2>1, <2>2
<1>3. ASSUME NEW o \in Orders, EndMarketOrder(o) PROVE Exch!Next
  <2>1. "PARTIAL" \in Status BY DEF Status
  <2>2. Exch!Leave(o) BY <1>3, <2>1, Leaves DEF EndMarketOrder
  <2> QED BY <2>2 DEF Exch!Next
<1>4. ASSUME NEW o \in Orders, CancelOrder(o) PROVE Exch!Next \/ UNCHANGED ExchangeVars
  <2>1. Exch!Withdraw(o) \/ UNCHANGED ExchangeVars BY <1>4, Withdraws
  <2> QED BY <2>1 DEF Exch!Next
<1>5. ASSUME NEW o \in Orders,
             \/ ResubmitTriggered(o) \/ PollSubmit(o) \/ PollCancel(o) \/ RequestCancel(o)
             \/ \E r \in Requests : SubmitOrder(o, r)
      PROVE  Exch!Next \/ UNCHANGED ExchangeVars
  <2>1. Exch!Arrive(o) \/ UNCHANGED ExchangeVars BY <1>5, CallsRefine
  <2> QED BY <2>1 DEF Exch!Next
<1>6. ASSUME NEW current \in Prices, CheckStopOrders(current)
      PROVE  UNCHANGED ExchangeVars
  <2>1. PICK o \in Orders : o \in StopQueue BY <1>6 DEF CheckStopOrders, StopQueue
  <2> QED BY <1>6, <2>1, CallsRefine
<1>7. CASE UNCHANGED vars
  <2>1. UNCHANGED <<levels, running, matches>> /\ \A x \in Orders : SameView(x)
    BY <1>7 DEF vars, SameView, SameTerms, Entered
  <2> QED BY <2>1, NothingToSee
<1> QED BY <1>1, <1>2, <1>3, <1>4, <1>5, <1>6, <1>7 DEF Next, Progress

\* To its callers the engine is an exchange: whatever the orders, prices and the
\* interleaving of calls, every match is the trade that price and time demand, for as
\* much as both orders still want, and no other step trades, moves or removes an order.
THEOREM ExchangeImplemented == Spec => ImplementsExchange
<1>1. Init => Exch!Init /\ StopsAreWhole
  <2> SUFFICES ASSUME Init PROVE Exch!Init /\ StopsAreWhole OBVIOUS
  <2>1. \A o \in Orders : pc[o] = "new" /\ ~Entered(o) BY DEF Init, Entered
  <2>2. \A o \in Orders : ~InBook(o) BY DEF Init, InBook, InLevel
  <2>3. Queue = {} BY <2>2, BeforeAreResting DEF Queue
  <2>4. AllTerms \in [Orders -> Exch!Terms]
    BY <2>1 DEF AllTerms, TermsOf, Exch!Terms, Sides
  <2> QED BY <2>1, <2>3, <2>4 DEF Init, Exch!Init, StopsAreWhole, Phases, PhaseOf, Unfilled
<1>2. Spec => []StopsAreWhole BY <1>1, StopsStayWhole, Invariance, PTL DEF Spec
<1>3. UNCHANGED ExchangeVars <=> UNCHANGED Exch!vars BY DEF ExchangeVars, Exch!vars
<1>4. IInv /\ IInv' /\ StopsAreWhole /\ [Next]_vars => [Exch!Next]_(Exch!vars)
  BY <1>3, StepRefines
<1> QED BY <1>1, <1>2, <1>4, Invariance, PTL DEF Spec, ImplementsExchange, Exch!Spec
=============================================================================
