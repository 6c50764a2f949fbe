-------------------------- MODULE AdvancedMatching --------------------------
(***************************************************************************)
(* trading/matching-engine/advanced-matching.service.ts: the order rows    *)
(* beside the engine of one asset.  An order is persisted before the       *)
(* engine sees it; what the engine emits starts row updates nobody awaits; *)
(* after a restart the PENDING rows are submitted again, one by one,       *)
(* before the first request is served.  Nothing calls checkStopOrders, so  *)
(* stop orders only queue.                                                 *)
(***************************************************************************)
EXTENDS MatchingEngine

CONSTANTS MaxCrashes, NoRow

VARIABLES
    row,        \* order_book rows: body of the order, status, filledAmount
    persisted,  \* submitOrder calls between persistOrder and the engine
    writes,     \* row updates started and not carried out
    loading,    \* rows loadExistingOrders has found and not submitted
    listening,  \* onModuleInit, which Nest awaits before it listens, is over
    crashes

serviceVars == <<row, persisted, writes, loading, listening, crashes>>
allVars     == <<vars, serviceVars>>

Closed == {"FILLED", "CANCELLED"}

Row == [body : Requests, status : {"PENDING"} \cup Closed, filled : Nat]

ASSUME NoRowAssumption == NoRow \notin Row

ServiceInit ==
    /\ Init
    /\ row = [o \in Orders |-> NoRow] /\ persisted = {} /\ writes = {}
    /\ loading = {} /\ listening = TRUE /\ crashes = 0

\* submitOrder up to persistOrder; validation and the balance check, which
\* only reads, may refuse the order, and then nothing has changed.
PersistOrder(o, r) ==
    /\ running = Nobody /\ listening /\ row[o] = NoRow /\ ValidOrder(r)
    /\ row' = [row EXCEPT ![o] = [body |-> r, status |-> "PENDING", filled |-> 0]]
    /\ persisted' = persisted \cup {o}
    /\ UNCHANGED <<vars, writes, loading, listening, crashes>>

SubmitPersisted(o) ==
    /\ o \in persisted
    /\ SubmitOrder(o, row[o].body)
    /\ persisted' = persisted \ {o}
    /\ UNCHANGED <<row, writes, loading, listening, crashes>>

\* orderFilled and orderCancelled, emitted in the turn that closes the order;
\* the handlers start an update.
Emitted == {[id |-> o, status |-> order'[o].status, filled |-> order'[o].filled] :
               o \in {x \in Orders : order'[x].status \in Closed \ {order[x].status}}}

EngineStep ==
    /\ \E o \in Orders : PollSubmit(o) \/ ExecuteMatch(o) \/ RestLimitOrder(o)
                         \/ EndMarketOrder(o) \/ PollCancel(o)
    /\ writes' = writes \cup Emitted
    /\ UNCHANGED <<row, persisted, loading, listening, crashes>>

\* cancelOrder finds the row and calls the engine.
RequestCancelByRow(o) ==
    /\ row[o] # NoRow /\ listening
    /\ RequestCancel(o)
    /\ UNCHANGED serviceVars

\* Mutant: the row is updated whether the engine had the order or not.
CancelInEngine_Always(o) ==
    /\ CancelOrder(o)
    /\ writes' = writes \cup {[id |-> o, status |-> "CANCELLED", filled |-> 0]}
    /\ UNCHANGED <<row, persisted, loading, listening, crashes>>

\* The engine's cancelOrder; its event and, if it returned the order, the
\* service start the same update.
CancelInEngine(o) ==
    /\ CancelOrder(o)
    /\ writes' = writes \cup Emitted
    /\ UNCHANGED <<row, persisted, loading, listening, crashes>>

\* An update is carried out, in any order, or fails and is only logged.
CarryOut(w) ==
    /\ running = Nobody
    /\ writes' = writes \ {w}
    /\ \/ row' = [row EXCEPT ![w.id].status = w.status,
                             ![w.id].filled = IF w.status = "FILLED" THEN w.filled ELSE @]
       \/ UNCHANGED row
    /\ UNCHANGED <<vars, persisted, loading, listening, crashes>>

\* Mutant: every row is loaded, whatever its status.
Found_All == {o \in Orders : row[o] # NoRow}

\* loadExistingOrders finds the rows that are still PENDING.
Found == {o \in Orders : row[o] # NoRow /\ row[o].status = "PENDING"}

\* The process stops, between two turns, and starts again with an empty engine.
Restart ==
    /\ running = Nobody /\ crashes < MaxCrashes
    /\ crashes' = crashes + 1
    /\ order' = [o \in Orders |-> BlankOrder]
    /\ levels' = [s \in Sides |-> [p \in Prices |-> <<>>]]
    /\ total' = [s \in Sides |-> [p \in Prices |-> 0]]
    /\ lock' = FALSE /\ clock' = 0 /\ matches' = <<>>
    /\ pc' = [o \in Orders |-> "new"] /\ cancelPc' = [o \in Orders |-> "none"]
    /\ arrival' = [o \in Orders |-> 0] /\ batch' = [o \in Orders |-> {}]
    /\ persisted' = {} /\ writes' = {} /\ loading' = Found /\ listening' = FALSE
    /\ UNCHANGED <<row, running>>

\* The next row becomes a GTC limit order with all of its amount remaining
\* (filledAmount is written only when the order is FILLED); a price of 0, as
\* market and stop-market orders have it, makes the engine throw.  Each submission is
\* awaited, so the lock is free.
LoadOrder(o) ==
    /\ o \in loading /\ ~lock
    /\ SubmitOrder(o, [row[o].body EXCEPT !.type = "LIMIT", !.tif = "GTC", !.stop = NoPrice])
    /\ loading' = loading \ {o}
    /\ UNCHANGED <<row, persisted, writes, listening, crashes>>

\* The last of them has been submitted too.
Listen ==
    /\ ~listening /\ loading = {} /\ ~lock /\ running = Nobody
    /\ listening' = TRUE
    /\ UNCHANGED <<vars, row, persisted, writes, loading, crashes>>

ServiceNext ==
    \/ \E o \in Orders : \/ \E r \in Requests : PersistOrder(o, r)
                         \/ SubmitPersisted(o) \/ RequestCancelByRow(o)
                         \/ CancelInEngine(o) \/ LoadOrder(o)
    \/ EngineStep \/ (\E w \in writes : CarryOut(w)) \/ Restart \/ Listen

ServiceSpec == ServiceInit /\ [][ServiceNext]_allVars
-----------------------------------------------------------------------------
ServiceTypeOK ==
    /\ row \in [Orders -> {NoRow} \cup Row]
    /\ listening \in BOOLEAN /\ persisted \subseteq Orders /\ loading \subseteq Orders
    /\ writes \subseteq [id : Orders, status : Closed, filled : Nat]

\* A row that says FILLED or CANCELLED is right and final, through unordered
\* and lost updates, cancels that race with matches, and a restart: its order
\* is not in the book or on its way there, the engine of this process, if it
\* knows the order, has closed it with the same status, and a FILLED row names
\* the whole amount.
RowsFollowEngine ==
    running = Nobody => \A o \in Orders : row[o] # NoRow /\ row[o].status \in Closed =>
        /\ ~InBook(o) /\ o \notin loading /\ o \notin persisted
        /\ pc[o] = "new" \/ (pc[o] = "done" /\ order[o].status = row[o].status)
        /\ row[o].status = "FILLED" => row[o].filled = row[o].body.qty
=============================================================================
