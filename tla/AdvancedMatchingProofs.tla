----------------------- MODULE AdvancedMatchingProofs -----------------------
(***************************************************************************)
(* Proofs about the service around the engine of one asset: its rows say   *)
(* of a closed order what the engine says, for every number of orders,     *)
(* lost updates and restarts.                                              *)
(***************************************************************************)
EXTENDS AdvancedMatching, MatchingEngineProofs

-----------------------------------------------------------------------------
(* The inductive invariant: IInv of the engine, and what joins the rows,   *)
(* the calls and the updates to it                                         *)

Known(o) == row[o] # NoRow

\* A filled order has nothing left.
FilledInFull ==
    \A o \in Orders : order[o].status = "FILLED" => order[o].remaining = 0

\* The engine is given the orders of rows, and for their whole amount.
EngineHasRows ==
    \A o \in Orders : pc[o] # "new" => Known(o) /\ order[o].qty = row[o].body.qty

\* A row on its way to the engine is PENDING, and the engine does not know it.
OnTheirWay ==
    \A o \in persisted \cup loading :
        Known(o) /\ row[o].status = "PENDING" /\ pc[o] = "new"

\* Rows are loaded before the service listens, requests are served after it.
OneSourceAtATime == (listening => loading = {}) /\ (~listening => persisted = {})

\* An update that is on its way to a row says what the engine says.
UpdatesAreTrue ==
    \A w \in writes :
        /\ pc[w.id] = "done" /\ order[w.id].status = w.status
        /\ w.status = "FILLED" => w.filled = order[w.id].qty

\* A closed row says what the engine says, if the engine knows its order.
ClosedRowsAreTrue ==
    \A o \in Orders : Known(o) /\ row[o].status \in Closed =>
        /\ pc[o] = "new" \/ (pc[o] = "done" /\ order[o].status = row[o].status)
        /\ row[o].status = "FILLED" => row[o].filled = row[o].body.qty

RowInv ==
    /\ ServiceTypeOK
    /\ FilledInFull
    /\ EngineHasRows
    /\ OnTheirWay
    /\ OneSourceAtATime
    /\ UpdatesAreTrue
    /\ ClosedRowsAreTrue

-----------------------------------------------------------------------------
(* Steps of the engine, as the service sees them *)

\* The steps with which the engine goes on, cancels included.
EngineOf(o) ==
    \/ PollSubmit(o) \/ ExecuteMatch(o) \/ RestLimitOrder(o) \/ EndMarketOrder(o)
    \/ PollCancel(o) \/ CancelOrder(o) \/ RequestCancel(o)

\* The engine's own invariant is kept.
LEMMA EngineKeepsIInv ==
    ASSUME IInv, NEW o \in Orders, EngineOf(o)
    PROVE  IInv'
  <1>1. EngineOf(o) => Next
    BY DEF EngineOf, Next, Progress
  <1>2. QED  BY <1>1, NextIInv

\* A step of the engine touches no closed order and no order's amount, and
\* takes no call back to its beginning.
LEMMA EngineFacts ==
    ASSUME IInv, NEW o \in Orders, EngineOf(o), NEW x \in Orders
    PROVE  /\ order[x].status \in Closed => order'[x] = order[x]
           /\ order'[x].qty = order[x].qty
           /\ pc'[x] = "new" <=> pc[x] = "new"
  <1>1. TypeOK
    BY DEF IInv
  <1>2. EngineOf(o) => Next
    BY DEF EngineOf, Next, Progress
  <1>3. order[x].status \in Closed => order'[x] = order[x]
    BY <1>2, ClosedStep DEF Closed
  <1>4. CASE ExecuteMatch(o)
    <2>1. PICK p \in Prices : Matchable(o, p) /\ MatchAt(o, p)
      BY <1>4 DEF ExecuteMatch
    <2>2. PICK b \in Orders, q \in Nat : MatchEffect(o, p, b, q)
      BY <1>4, <2>1, MatchHasEffect DEF ExecuteMatch
    <2>3. SameTerms(order'[x], order[x])
      BY <1>1, <2>2, MatchOrders
    <2>4. pc[o] = "locked" /\ (pc' = pc \/ pc' = [pc EXCEPT ![o] = "done"])
      BY <1>4, <2>2 DEF ExecuteMatch, MyTurn, MatchEffect, EndTurn, StayInTurn
    <2>5. pc'[x] = "new" <=> pc[x] = "new"
      BY <1>1, <2>4 DEF TypeOK
    <2>6. QED  BY <1>3, <2>3, <2>5 DEF SameTerms
  <1>5. CASE RestLimitOrder(o) \/ EndMarketOrder(o)
    <2>1. pc[o] = "locked" /\ pc' = [pc EXCEPT ![o] = "done"]
      BY <1>5 DEF RestLimitOrder, EndMarketOrder, MyTurn, EndTurn
    <2>2. \E st \in Status : order' = [order EXCEPT ![o].status = st]
      BY <1>5 DEF RestLimitOrder, EndMarketOrder, Status
    <2>3. order'[x].qty = order[x].qty
      BY <1>1, <2>2 DEF TypeOK, OrderRec
    <2>4. QED  BY <1>1, <1>3, <2>1, <2>3 DEF TypeOK
  <1>6. CASE CancelOrder(o)
    <2>1. order' = [order EXCEPT ![o].status = "CANCELLED"] \/ UNCHANGED order
      BY <1>6 DEF CancelOrder
    <2>2. order'[x].qty = order[x].qty
      <3>1. CASE UNCHANGED order
        BY <3>1
      <3>2. CASE order' = [order EXCEPT ![o].status = "CANCELLED"]
        BY <1>1, <3>2 DEF TypeOK, OrderRec
      <3>3. QED  BY <2>1, <3>1, <3>2
    <2>3. UNCHANGED pc
      BY <1>6 DEF CancelOrder
    <2>4. QED  BY <1>3, <2>2, <2>3
  <1>7. CASE PollSubmit(o)
    <2>1. UNCHANGED order /\ pc[o] = "polling"
      BY <1>7 DEF PollSubmit
    <2>2. pc' = [pc EXCEPT ![o] = "polling"] \/ pc' = [pc EXCEPT ![o] = "locked"]
      BY <1>7 DEF PollSubmit, RequestLock
    <2>3. QED  BY <1>1, <1>3, <2>1, <2>2 DEF TypeOK
  <1>8. CASE PollCancel(o) \/ RequestCancel(o)
    BY <1>3, <1>8 DEF PollCancel, RequestCancel
  <1>9. QED
    BY <1>4, <1>5, <1>6, <1>7, <1>8 DEF EngineOf

\* Only a match fills an order, and it fills it when nothing remains.
LEMMA EngineFillsInFull ==
    ASSUME IInv, FilledInFull, NEW o \in Orders, EngineOf(o)
    PROVE  FilledInFull'
  <1>1. TypeOK /\ UnfinishedArePending
    BY DEF IInv
  <1> SUFFICES ASSUME NEW x \in Orders, order'[x].status = "FILLED"
               PROVE  order'[x].remaining = 0
    BY DEF FilledInFull
  <1>2. CASE order[x].status = "FILLED"
    <2>1. order'[x] = order[x]
      BY <1>2, EngineFacts DEF Closed
    <2>2. QED  BY <1>2, <2>1 DEF FilledInFull
  <1>3. CASE order[x].status # "FILLED" /\ ExecuteMatch(o)
    <2>1. PICK p \in Prices : Matchable(o, p) /\ MatchAt(o, p)
      BY <1>3 DEF ExecuteMatch
    <2>2. PICK b \in Orders, q \in Nat : MatchEffect(o, p, b, q)
      BY <1>3, <2>1, MatchHasEffect DEF ExecuteMatch
    <2>3. order[o].status = "PENDING"
      BY <1>1, <1>3 DEF ExecuteMatch, MyTurn, UnfinishedArePending
    <2>4. /\ x \notin {o, b} => order'[x] = order[x]
          /\ x \in {o, b} => order'[x].remaining = order[x].remaining - q
          /\ order'[o].status = StatusAfterMatch(o, order[o].remaining - q)
          /\ order'[b].status = IF order[b].remaining - q = 0 THEN "FILLED" ELSE "PARTIAL"
      BY <1>1, <2>2, MatchOrders
    <2>5. CASE x = o
      BY <2>3, <2>4, <2>5 DEF StatusAfterMatch
    <2>6. CASE x = b
      BY <2>4, <2>6
    <2>7. QED  BY <1>3, <2>4, <2>5, <2>6
  <1>4. CASE order[x].status # "FILLED" /\ ~ExecuteMatch(o)
    <2>1. \/ UNCHANGED order
          \/ \E st \in {"CANCELLED", "PARTIAL", "PENDING"} :
                order' = [order EXCEPT ![o].status = st]
      BY <1>4 DEF EngineOf, PollSubmit, RestLimitOrder, EndMarketOrder, PollCancel,
                  CancelOrder, RequestCancel
    <2>2. CASE UNCHANGED order
      BY <1>4, <2>2
    <2>3. CASE \E st \in {"CANCELLED", "PARTIAL", "PENDING"} :
                  order' = [order EXCEPT ![o].status = st]
      <3>1. order \in [Orders -> OrderRec]
        BY <1>1 DEF TypeOK
      <3>2. order'[x].status \in {order[x].status, "CANCELLED", "PARTIAL", "PENDING"}
        BY <2>3, <3>1 DEF OrderRec
      <3>3. QED  BY <1>4, <3>2
    <2>4. QED  BY <2>1, <2>2, <2>3
  <1>5. QED  BY <1>2, <1>3, <1>4

\* What the engine emits in a step is true of the order it is about.
LEMMA EmittedIsTrue ==
    ASSUME IInv', FilledInFull', NEW w \in Emitted
    PROVE  /\ w \in [id : Orders, status : Closed, filled : Nat]
           /\ pc'[w.id] = "done" /\ order'[w.id].status = w.status
           /\ w.status = "FILLED" => w.filled = order'[w.id].qty
  <1>1. PICK o \in Orders :
           /\ order'[o].status \in Closed
           /\ w = [id |-> o, status |-> order'[o].status, filled |-> order'[o].filled]
    BY DEF Emitted
  <1>2. order'[o] \in OrderRec
    BY DEF IInv, TypeOK
  <1>3. order'[o].filled \in Nat /\ order'[o].remaining \in Nat
    BY <1>2 DEF OrderRec
  <1>4. order'[o].filled + order'[o].remaining = order'[o].qty
    BY DEF IInv, QuantityKept
  <1>5. pc'[o] = "done"
    BY <1>1 DEF IInv, UnfinishedArePending, Closed
  <1>6. order'[o].status = "FILLED" => order'[o].filled = order'[o].qty
    BY <1>3, <1>4 DEF FilledInFull
  <1>7. QED  BY <1>1, <1>3, <1>5, <1>6

\* A step of the engine, with the updates it starts, keeps the invariant.
LEMMA EngineStepKeepsRowInv ==
    ASSUME IInv, RowInv, NEW o \in Orders, EngineOf(o),
           writes' \subseteq writes \cup Emitted,
           UNCHANGED <<row, persisted, loading, listening>>
    PROVE  IInv' /\ RowInv'
  <1>1. /\ ServiceTypeOK /\ FilledInFull /\ EngineHasRows /\ OnTheirWay
        /\ OneSourceAtATime /\ UpdatesAreTrue /\ ClosedRowsAreTrue
    BY DEF RowInv
  <1>2. IInv'
    BY EngineKeepsIInv
  <1>3. FilledInFull'
    BY <1>1, EngineFillsInFull
  <1>4. \A x \in Orders :
           /\ order[x].status \in Closed => order'[x] = order[x]
           /\ order'[x].qty = order[x].qty
           /\ pc'[x] = "new" <=> pc[x] = "new"
    BY EngineFacts
  <1>5. \A x \in Orders : order'[x].status \in Closed => pc'[x] = "done"
    BY <1>2 DEF IInv, UnfinishedArePending, Closed
  <1>6. \A w \in Emitted :
           /\ w \in [id : Orders, status : Closed, filled : Nat]
           /\ pc'[w.id] = "done" /\ order'[w.id].status = w.status
           /\ w.status = "FILLED" => w.filled = order'[w.id].qty
    BY <1>2, <1>3, EmittedIsTrue
  <1>7. \A w \in writes : w.id \in Orders /\ w.status \in Closed
    BY <1>1 DEF ServiceTypeOK
  <1>8. ServiceTypeOK'
    BY <1>1, <1>6 DEF ServiceTypeOK
  <1>9. EngineHasRows'
    BY <1>1, <1>4 DEF EngineHasRows, Known
  <1>10. OnTheirWay'
    BY <1>1, <1>4 DEF OnTheirWay, Known, ServiceTypeOK
  <1>11. OneSourceAtATime'
    BY <1>1 DEF OneSourceAtATime
  <1>12. UpdatesAreTrue'
    <2> SUFFICES ASSUME NEW w \in writes'
                 PROVE  /\ pc'[w.id] = "done" /\ order'[w.id].status = w.status
                        /\ w.status = "FILLED" => w.filled = order'[w.id].qty
      BY DEF UpdatesAreTrue
    <2>1. CASE w \in writes
      <3>1. /\ pc[w.id] = "done" /\ order[w.id].status = w.status
            /\ w.status = "FILLED" => w.filled = order[w.id].qty
        BY <1>1, <2>1 DEF UpdatesAreTrue
      <3>2. order'[w.id] = order[w.id]
        BY <1>4, <1>7, <2>1, <3>1
      <3>3. QED  BY <1>5, <1>7, <2>1, <3>1, <3>2
    <2>2. CASE w \in Emitted
      BY <1>6, <2>2
    <2>3. QED  BY <2>1, <2>2
  <1>13. ClosedRowsAreTrue'
    BY <1>1, <1>4, <1>5 DEF ClosedRowsAreTrue, Known
  <1>14. QED
    BY <1>2, <1>3, <1>8, <1>9, <1>10, <1>11, <1>12, <1>13 DEF RowInv

\* A row's order is submitted to the engine, as it is or as a limit order with
\* the row's amount.
LEMMA SubmissionKeepsRowInv ==
    ASSUME IInv, RowInv, NEW o \in persisted \cup loading, NEW r \in Request,
           r.qty = row[o].body.qty, SubmitOrder(o, r),
           persisted' = persisted \ {o}, loading' = loading \ {o},
           UNCHANGED <<row, writes, listening>>
    PROVE  IInv' /\ RowInv'
  <1>1. /\ ServiceTypeOK /\ FilledInFull /\ EngineHasRows /\ OnTheirWay
        /\ OneSourceAtATime /\ UpdatesAreTrue /\ ClosedRowsAreTrue
    BY DEF RowInv
  <1>2. o \in Orders /\ Known(o) /\ row[o].status = "PENDING"
    BY <1>1 DEF ServiceTypeOK, OnTheirWay
  <1>3. IInv'
    BY <1>2, SubmitOrderKeepsIInv
  <1>4. TypeOK
    BY DEF IInv
  <1>5. /\ pc[o] = "new" /\ order' = [order EXCEPT ![o] = NewOrder(r)]
        /\ \E st \in SubmitPc \ {"new", "done"} : pc' = [pc EXCEPT ![o] = st]
    BY DEF SubmitOrder, RequestLock, SubmitPc
  <1>6. NewOrder(r).status = "PENDING" /\ NewOrder(r).qty = r.qty
    BY DEF NewOrder
  <1>7. /\ order'[o] = NewOrder(r) /\ pc'[o] # "new" /\ pc'[o] # "done"
        /\ \A x \in Orders : x # o => order'[x] = order[x] /\ pc'[x] = pc[x]
    BY <1>2, <1>4, <1>5 DEF TypeOK
  <1>8. ServiceTypeOK'
    BY <1>1 DEF ServiceTypeOK
  <1>9. FilledInFull'
    BY <1>1, <1>6, <1>7 DEF FilledInFull
  <1>10. EngineHasRows'
    BY <1>1, <1>2, <1>6, <1>7 DEF EngineHasRows, Known
  <1>11. OnTheirWay'
    BY <1>1, <1>7 DEF OnTheirWay, Known, ServiceTypeOK
  <1>12. OneSourceAtATime'
    BY <1>1 DEF OneSourceAtATime
  <1>13. UpdatesAreTrue'
    BY <1>1, <1>5, <1>7 DEF UpdatesAreTrue, ServiceTypeOK
  <1>14. ClosedRowsAreTrue'
    BY <1>1, <1>2, <1>7 DEF ClosedRowsAreTrue, Known, Closed
  <1>15. QED
    BY <1>3, <1>8, <1>9, <1>10, <1>11, <1>12, <1>13, <1>14 DEF RowInv

LEMMA PersistOrderKeepsRowInv ==
    ASSUME IInv, RowInv, NEW o \in Orders, NEW r \in Requests, PersistOrder(o, r)
    PROVE  RowInv'
  <1>1. /\ ServiceTypeOK /\ FilledInFull /\ EngineHasRows /\ OnTheirWay
        /\ OneSourceAtATime /\ UpdatesAreTrue /\ ClosedRowsAreTrue
    BY DEF RowInv
  <1> DEFINE new == [body |-> r, status |-> "PENDING", filled |-> 0]
  <1>2. /\ row[o] = NoRow /\ listening /\ row' = [row EXCEPT ![o] = new]
        /\ persisted' = persisted \cup {o}
        /\ UNCHANGED <<vars, writes, loading, listening, crashes>>
    BY DEF PersistOrder
  <1>3. new \in Row /\ new.status = "PENDING"
    BY DEF Row
  <1>4. new # NoRow
    BY <1>3, NoRowAssumption
  <1> HIDE DEF new
  <1>5. /\ row' \in [Orders -> {NoRow} \cup Row] /\ row'[o] = new
        /\ \A x \in Orders : x # o => row'[x] = row[x]
    BY <1>1, <1>2, <1>3 DEF ServiceTypeOK
  <1>6. pc[o] = "new"
    BY <1>1, <1>2 DEF EngineHasRows, Known
  <1>7. UNCHANGED <<order, pc>>
    BY <1>2 DEF vars
  <1>8. ServiceTypeOK'
    BY <1>1, <1>2, <1>5 DEF ServiceTypeOK
  <1>9. FilledInFull' /\ UpdatesAreTrue'
    BY <1>1, <1>2, <1>7 DEF FilledInFull, UpdatesAreTrue
  <1>10. EngineHasRows'
    BY <1>1, <1>5, <1>6, <1>7 DEF EngineHasRows, Known
  <1>11. OnTheirWay'
    BY <1>1, <1>2, <1>3, <1>4, <1>5, <1>6, <1>7 DEF OnTheirWay, Known, ServiceTypeOK
  <1>12. OneSourceAtATime'
    BY <1>1, <1>2 DEF OneSourceAtATime
  <1>13. ClosedRowsAreTrue'
    BY <1>1, <1>3, <1>5, <1>7 DEF ClosedRowsAreTrue, Known, Closed
  <1>14. QED
    BY <1>8, <1>9, <1>10, <1>11, <1>12, <1>13 DEF RowInv

\* An update that is carried out closes the row of an order the engine has
\* closed the same way; a lost one changes no row.
LEMMA CarryOutKeepsRowInv ==
    ASSUME IInv, RowInv, NEW w \in writes, CarryOut(w)
    PROVE  RowInv'
  <1>1. /\ ServiceTypeOK /\ FilledInFull /\ EngineHasRows /\ OnTheirWay
        /\ OneSourceAtATime /\ UpdatesAreTrue /\ ClosedRowsAreTrue
    BY DEF RowInv
  <1>2. writes' = writes \ {w} /\ UNCHANGED <<order, pc, persisted, loading, listening>>
    BY DEF CarryOut, vars
  <1>3. w.id \in Orders /\ w.status \in Closed /\ w.filled \in Nat
    BY <1>1 DEF ServiceTypeOK
  <1>4. /\ pc[w.id] = "done" /\ order[w.id].status = w.status
        /\ w.status = "FILLED" => w.filled = order[w.id].qty
    BY <1>1 DEF UpdatesAreTrue
  <1>5. Known(w.id) /\ order[w.id].qty = row[w.id].body.qty
    BY <1>1, <1>3, <1>4 DEF EngineHasRows
  <1>6. row[w.id] \in Row
    BY <1>1, <1>3, <1>5 DEF ServiceTypeOK, Known
  <1>7. CASE UNCHANGED row
    <2>1. ServiceTypeOK'
      BY <1>1, <1>2, <1>7 DEF ServiceTypeOK
    <2>2. FilledInFull' /\ EngineHasRows' /\ OnTheirWay' /\ OneSourceAtATime'
      BY <1>1, <1>2, <1>7 DEF FilledInFull, EngineHasRows, OnTheirWay, OneSourceAtATime, Known
    <2>3. UpdatesAreTrue' /\ ClosedRowsAreTrue'
      BY <1>1, <1>2, <1>7 DEF UpdatesAreTrue, ClosedRowsAreTrue, Known
    <2>4. QED  BY <2>1, <2>2, <2>3 DEF RowInv
  <1>8. CASE row' = [row EXCEPT ![w.id].status = w.status,
                                ![w.id].filled = IF w.status = "FILLED" THEN w.filled ELSE @]
    <2> DEFINE new == [row[w.id] EXCEPT !.status = w.status,
                                        !.filled = IF w.status = "FILLED" THEN w.filled ELSE @]
    <2>1. row' = [row EXCEPT ![w.id] = new]
      BY <1>1, <1>3, <1>8 DEF ServiceTypeOK
    <2>2. /\ new \in Row /\ new.status = w.status /\ new.body = row[w.id].body
          /\ w.status = "FILLED" => new.filled = w.filled
      BY <1>3, <1>6 DEF Row
    <2>3. new # NoRow
      BY <2>2, NoRowAssumption
    <2> HIDE DEF new
    <2>4. /\ row' \in [Orders -> {NoRow} \cup Row] /\ row'[w.id] = new
          /\ \A x \in Orders : x # w.id => row'[x] = row[x]
      BY <1>1, <1>3, <2>1, <2>2 DEF ServiceTypeOK
    <2>5. ServiceTypeOK'
      BY <1>1, <1>2, <2>4 DEF ServiceTypeOK
    <2>6. FilledInFull' /\ UpdatesAreTrue' /\ OneSourceAtATime'
      BY <1>1, <1>2 DEF FilledInFull, UpdatesAreTrue, OneSourceAtATime
    <2>7. EngineHasRows'
      BY <1>1, <1>2, <2>2, <2>3, <2>4 DEF EngineHasRows, Known
    <2>8. OnTheirWay'
      BY <1>1, <1>2, <1>4, <2>4 DEF OnTheirWay, Known, ServiceTypeOK
    <2>9. ClosedRowsAreTrue'
      BY <1>1, <1>2, <1>3, <1>4, <1>5, <2>2, <2>4 DEF ClosedRowsAreTrue, Known
    <2>10. QED  BY <2>5, <2>6, <2>7, <2>8, <2>9 DEF RowInv
  <1>9. QED  BY <1>7, <1>8 DEF CarryOut

\* The lemma about the initial states, of the state after a step.
LEMMA InitIInvAfter == (Init => IInv)'
  BY InitIInv, PTL

\* After a restart the engine knows nothing; the rows that are still PENDING are
\* on their way.
LEMMA RestartKeepsRowInv ==
    ASSUME IInv, RowInv, Restart
    PROVE  IInv' /\ RowInv'
  <1>1. /\ ServiceTypeOK /\ ClosedRowsAreTrue
    BY DEF RowInv
  <1>2. Init'
    BY DEF Restart, Init
  <1>3. IInv'
    BY <1>2, InitIInvAfter
  <1>4. /\ order' = [o \in Orders |-> BlankOrder] /\ pc' = [o \in Orders |-> "new"]
        /\ persisted' = {} /\ writes' = {} /\ loading' = Found /\ listening' = FALSE
        /\ UNCHANGED row
    BY DEF Restart
  <1>5. \A o \in Orders : order'[o].status = "PENDING" /\ pc'[o] = "new"
    BY <1>4 DEF BlankOrder, NewOrder
  <1>6. ServiceTypeOK'
    BY <1>1, <1>4 DEF ServiceTypeOK, Found
  <1>7. FilledInFull' /\ EngineHasRows'
    BY <1>5 DEF FilledInFull, EngineHasRows
  <1>8. OnTheirWay'
    BY <1>4, <1>5 DEF OnTheirWay, Known, Found
  <1>9. OneSourceAtATime' /\ UpdatesAreTrue'
    BY <1>4 DEF OneSourceAtATime, UpdatesAreTrue
  <1>10. ClosedRowsAreTrue'
    BY <1>1, <1>4, <1>5 DEF ClosedRowsAreTrue, Known
  <1>11. QED
    BY <1>3, <1>6, <1>7, <1>8, <1>9, <1>10 DEF RowInv

-----------------------------------------------------------------------------
(* Safety of the service *)

LEMMA ServiceInitRowInv == ServiceInit => IInv /\ RowInv
  <1> SUFFICES ASSUME ServiceInit PROVE IInv /\ RowInv
    OBVIOUS
  <1>1. IInv
    BY InitIInv DEF ServiceInit
  <1>2. \A o \in Orders : order[o].status = "PENDING" /\ pc[o] = "new" /\ row[o] = NoRow
    BY DEF ServiceInit, Init, BlankOrder, NewOrder
  <1>3. ServiceTypeOK
    BY DEF ServiceInit, ServiceTypeOK
  <1>4. FilledInFull /\ EngineHasRows /\ ClosedRowsAreTrue
    BY <1>2 DEF FilledInFull, EngineHasRows, ClosedRowsAreTrue, Known
  <1>5. OnTheirWay /\ OneSourceAtATime /\ UpdatesAreTrue
    BY DEF ServiceInit, OnTheirWay, OneSourceAtATime, UpdatesAreTrue
  <1>6. QED  BY <1>1, <1>3, <1>4, <1>5 DEF RowInv

LEMMA ServiceNextRowInv ==
    IInv /\ RowInv /\ [ServiceNext]_allVars => IInv' /\ RowInv'
  <1> SUFFICES ASSUME IInv, RowInv, [ServiceNext]_allVars PROVE IInv' /\ RowInv'
    OBVIOUS
  <1>1. /\ ServiceTypeOK /\ OnTheirWay /\ OneSourceAtATime
    BY DEF RowInv
  <1>3. ASSUME NEW o \in Orders, NEW r \in Requests, PersistOrder(o, r)
        PROVE  IInv' /\ RowInv'
    <2>1. UNCHANGED vars
      BY <1>3 DEF PersistOrder
    <2>2. [Next]_vars
      BY <2>1
    <2>3. QED  BY <1>3, <2>2, NextIInv, PersistOrderKeepsRowInv
  <1>4. ASSUME NEW o \in Orders, SubmitPersisted(o)
        PROVE  IInv' /\ RowInv'
    <2>1. o \in persisted /\ loading = {}
      BY <1>1, <1>4 DEF SubmitPersisted, OneSourceAtATime, ServiceTypeOK
    <2>2. row[o] \in Row
      BY <1>1, <1>4, <2>1 DEF OnTheirWay, ServiceTypeOK, Known
    <2>3. row[o].body \in Request
      BY <2>2, RequestFacts DEF Row
    <2>4. QED
      BY <1>4, <2>1, <2>3, SubmissionKeepsRowInv DEF SubmitPersisted
  <1>5. ASSUME NEW o \in Orders, LoadOrder(o)
        PROVE  IInv' /\ RowInv'
    <2>1. o \in loading /\ persisted = {}
      BY <1>1, <1>5 DEF LoadOrder, OneSourceAtATime, ServiceTypeOK
    <2>2. row[o] \in Row
      BY <1>1, <1>5, <2>1 DEF OnTheirWay, ServiceTypeOK, Known
    <2>3. row[o].body \in Request
      BY <2>2, RequestFacts DEF Row
    <2> DEFINE r == [row[o].body EXCEPT !.type = "LIMIT", !.tif = "GTC", !.stop = NoPrice]
    <2>4. r \in Request /\ r.qty = row[o].body.qty
      BY <2>3 DEF Request, Types, Tifs
    <2>5. SubmitOrder(o, r) /\ loading' = loading \ {o}
          /\ UNCHANGED <<row, persisted, writes, listening, crashes>>
      BY <1>5 DEF LoadOrder
    <2> HIDE DEF r
    <2>6. QED  BY <2>1, <2>4, <2>5, SubmissionKeepsRowInv
  <1>6. ASSUME NEW o \in Orders, RequestCancelByRow(o) \/ CancelInEngine(o)
        PROVE  IInv' /\ RowInv'
    <2>1. /\ EngineOf(o) /\ writes' \subseteq writes \cup Emitted
          /\ UNCHANGED <<row, persisted, loading, listening>>
      BY <1>6 DEF RequestCancelByRow, CancelInEngine, EngineOf, serviceVars
    <2>2. QED  BY <2>1, EngineStepKeepsRowInv
  <1>7. CASE EngineStep
    <2>1. PICK o \in Orders : EngineOf(o)
      BY <1>7 DEF EngineStep, EngineOf
    <2>2. /\ writes' \subseteq writes \cup Emitted
          /\ UNCHANGED <<row, persisted, loading, listening>>
      BY <1>7 DEF EngineStep
    <2>3. QED  BY <2>1, <2>2, EngineStepKeepsRowInv
  <1>8. ASSUME NEW w \in writes, CarryOut(w)
        PROVE  IInv' /\ RowInv'
    <2>1. UNCHANGED vars
      BY <1>8 DEF CarryOut
    <2>2. [Next]_vars
      BY <2>1
    <2>3. QED  BY <1>8, <2>2, NextIInv, CarryOutKeepsRowInv
  <1>9. CASE Listen \/ UNCHANGED allVars
    <2>1. UNCHANGED vars /\ UNCHANGED <<row, persisted, writes, loading>>
      BY <1>9 DEF Listen, allVars, serviceVars
    <2>2. [Next]_vars
      BY <2>1
    <2>3. IInv'
      BY <2>2, NextIInv
    <2>4. UNCHANGED <<order, pc>>
      BY <2>1 DEF vars
    <2>5. /\ listening' \in BOOLEAN
          /\ (listening' => loading = {}) /\ (~listening' => persisted = {})
      <3>1. CASE Listen
        <4>1. listening' = TRUE /\ loading = {}
          BY <3>1 DEF Listen
        <4>2. QED  BY <4>1
      <3>2. CASE UNCHANGED allVars
        <4>1. listening' = listening
          BY <3>2 DEF allVars, serviceVars
        <4>2. QED  BY <1>1, <4>1 DEF OneSourceAtATime, ServiceTypeOK
      <3>3. QED  BY <1>9, <3>1, <3>2
    <2>6. ServiceTypeOK' /\ OneSourceAtATime'
      BY <1>1, <2>1, <2>5 DEF ServiceTypeOK, OneSourceAtATime
    <2>7. FilledInFull' /\ EngineHasRows' /\ OnTheirWay'
      BY <2>1, <2>4 DEF RowInv, FilledInFull, EngineHasRows, OnTheirWay, Known
    <2>8. UpdatesAreTrue' /\ ClosedRowsAreTrue'
      BY <2>1, <2>4 DEF RowInv, UpdatesAreTrue, ClosedRowsAreTrue, Known
    <2>9. QED  BY <2>3, <2>6, <2>7, <2>8 DEF RowInv
  <1>10. CASE Restart
    BY <1>10, RestartKeepsRowInv
  <1>11. QED
    BY <1>3, <1>4, <1>5, <1>6, <1>7, <1>8, <1>9, <1>10 DEF ServiceNext

\* The engine's invariant goes on holding inside the service, whose restarts
\* empty the engine and fill it again from the rows.
THEOREM ServiceInvariance == ServiceSpec => [](IInv /\ RowInv)
  BY ServiceInitRowInv, ServiceNextRowInv, PTL DEF ServiceSpec

\* A closed row has left the engine as the row says, and is on its way nowhere.
LEMMA TrueRows == IInv /\ RowInv => RowsFollowEngine
  <1> SUFFICES ASSUME IInv, RowInv, NEW o \in Orders, Known(o), row[o].status \in Closed
               PROVE  /\ ~InBook(o) /\ o \notin loading /\ o \notin persisted
                      /\ pc[o] = "new" \/ (pc[o] = "done" /\ order[o].status = row[o].status)
                      /\ row[o].status = "FILLED" => row[o].filled = row[o].body.qty
    BY DEF RowsFollowEngine, Known
  <1>1. /\ pc[o] = "new" \/ (pc[o] = "done" /\ order[o].status = row[o].status)
        /\ row[o].status = "FILLED" => row[o].filled = row[o].body.qty
    BY DEF RowInv, ClosedRowsAreTrue
  <1>2. ~InBook(o)
    BY <1>1 DEF IInv, RestingAreOpen, InBook, OpenStatus, Closed
  <1>3. o \notin loading /\ o \notin persisted
    BY DEF RowInv, OnTheirWay, Closed
  <1>4. QED  BY <1>1, <1>2, <1>3

\* A row that says FILLED or CANCELLED is right and final: updates carried out in
\* any order or lost, cancels that race with matches, and restarts that submit
\* the rest of the rows again, never make it differ from what the engine says.
THEOREM RowsAreTrue == ServiceSpec => []RowsFollowEngine
  BY ServiceInvariance, TrueRows, PTL
=============================================================================
