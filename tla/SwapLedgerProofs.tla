-------------------------- MODULE SwapLedgerProofs --------------------------
(***************************************************************************)
(* Proofs about the money in the settlement of queued swaps: no update of  *)
(* a balance is lost, and settlement without crashes and atomic batches    *)
(* implements the ledger of SwapLedger.                                    *)
(***************************************************************************)
EXTENDS SwapSettlementProofs, OperatorLemmas

-----------------------------------------------------------------------------
(* The inductive invariant *)

\* What the committed transactions moved on account a, swap by swap.
Change(a) ==
    [s \in Swaps |->
        (IF To[s] = a THEN paid[s] ELSE 0)
        + (IF From[s] = a THEN AmountIn[s] * (refunded[s] - settled[s]) ELSE 0)]

\* What an open transaction with the work w moved on account a.
Moved(w, a) ==
    [s \in Swaps |->
        (IF s \in DOMAIN w.done /\ To[s] = a THEN w.done[s] ELSE 0)
        - (IF s \in DOMAIN w.done /\ From[s] = a THEN AmountIn[s] ELSE 0)
        + (IF s \in w.undone /\ From[s] = a THEN AmountIn[s] ELSE 0)]

\* A transaction's balances are the table's plus what it moved itself, and it
\* has locked every balance it moved: nobody can have changed it since.
Backed(w, table) ==
    \A a \in Accounts :
        /\ a \in DOMAIN w.balance =>
              w.balance[a] = table[a] + SumFunctionOnSet(Moved(w, a), Swaps)
        /\ a \notin DOMAIN w.balance => \A s \in Swaps : Moved(w, a)[s] = 0

\* rollback undoes each settled swap of an atomic batch once.
UndoInOrder(t) ==
    /\ pc[t] # "undo" => work[t].undone = {}
    /\ pc[t] = "undo" =>
         /\ \A i, j \in 1..Len(toUndo[t]) : toUndo[t][i] = toUndo[t][j] => i = j
         /\ \A i \in 1..Len(toUndo[t]) : toUndo[t][i] \notin work[t].undone

LedgerInv ==
    /\ BalancesAddUp
    /\ \A t \in Threads : Backed(work[t], balance) /\ UndoInOrder(t)

-----------------------------------------------------------------------------
(* Sums over the swaps *)

LEMMA SwapsFinite == IsFiniteSet(Swaps)
  BY SwapAssumption

LEMMA AddUpByChange ==
    BalancesAddUp <=>
        \A a \in Accounts : balance[a] = Start[a] + SumFunctionOnSet(Change(a), Swaps)
  BY DEF BalancesAddUp, Change

LEMMA MovedInt ==
    ASSUME NEW w, IsWork(w), NEW a
    PROVE  /\ \A s \in Swaps : Moved(w, a)[s] \in Int
           /\ SumFunctionOnSet(Moved(w, a), Swaps) \in Int
  <1>1. \A s \in Swaps : Moved(w, a)[s] \in Int
    <2>1. \A s \in DOMAIN w.done : w.done[s] \in Int
      BY SwapFacts DEF IsWork, PartialOn
    <2>2. \A s \in Swaps : AmountIn[s] \in Int
      BY SwapFacts
    <2>3. QED  BY <2>1, <2>2 DEF Moved
  <1>2. QED  BY <1>1, SwapsFinite, SumInt

LEMMA ChangeInt ==
    ASSUME DbType, NEW a
    PROVE  /\ \A s \in Swaps : Change(a)[s] \in Int
           /\ SumFunctionOnSet(Change(a), Swaps) \in Int
  <1>1. \A s \in Swaps : /\ AmountIn[s] \in Int /\ paid[s] \in Int
                         /\ refunded[s] \in Int /\ settled[s] \in Int
    BY SwapFacts DEF DbType
  <1>2. \A s \in Swaps : AmountIn[s] * (refunded[s] - settled[s]) \in Int
    BY <1>1
  <1>3. \A s \in Swaps : Change(a)[s] \in Int
    BY <1>1, <1>2 DEF Change
  <1>4. QED  BY <1>3, SwapsFinite, SumInt

-----------------------------------------------------------------------------
(* The work of one transaction *)

Seen(w, table, a) == IF a \in DOMAIN w.balance THEN w.balance[a] ELSE table[a]

LEMMA BackedSeen ==
    ASSUME NEW w, IsWork(w), NEW table \in [Accounts -> Int], Backed(w, table),
           NEW a \in Accounts
    PROVE  Seen(w, table, a) = table[a] + SumFunctionOnSet(Moved(w, a), Swaps)
  <1>1. CASE a \in DOMAIN w.balance
    BY <1>1 DEF Backed, Seen
  <1>2. CASE a \notin DOMAIN w.balance
    <2>1. SumFunctionOnSet(Moved(w, a), Swaps) = 0
      BY <1>2, SwapsFinite, SumZero DEF Backed
    <2>2. QED  BY <1>2, <2>1 DEF Seen
  <1>3. QED  BY <1>1, <1>2

\* No work moves nothing.
LEMMA EmptyBacked ==
    ASSUME NEW table, NEW w \in {NoWork, Broken}
    PROVE  Backed(w, table) /\ w.undone = {}
  <1>1. DOMAIN w.balance = {} /\ DOMAIN w.done = {}
    BY EmptyWork
  <1>2. w.undone = {}
    BY DEF NoWork, Broken
  <1>3. QED  BY <1>1, <1>2 DEF Backed, Moved

\* Work whose balances, exchanges and refunds did not change.
LEMMA SameBacked ==
    ASSUME NEW v, NEW w, NEW table, Backed(v, table),
           w.balance = v.balance, w.done = v.done, w.undone = v.undone
    PROVE  Backed(w, table)
  <1>1. \A a : Moved(w, a) = Moved(v, a)
    BY DEF Moved
  <1>2. QED  BY <1>1 DEF Backed

\* One exchange, one refund or one lock more: what swap s moves on each account
\* grows by d, and so does the balance the transaction sees.
LEMMA MoveOne ==
    ASSUME NEW v, IsWork(v), NEW w, IsWork(w), NEW table \in [Accounts -> Int],
           Backed(v, table), NEW s \in Swaps, NEW d \in [Accounts -> Int],
           DOMAIN v.balance \subseteq DOMAIN w.balance,
           \A a \in Accounts : a \notin DOMAIN w.balance => d[a] = 0,
           \A a \in Accounts : \A x \in Swaps :
               Moved(w, a)[x] = Moved(v, a)[x] + (IF x = s THEN d[a] ELSE 0),
           \A a \in DOMAIN w.balance : w.balance[a] = Seen(v, table, a) + d[a]
    PROVE  Backed(w, table)
  <1> SUFFICES ASSUME NEW a \in Accounts
               PROVE  /\ a \in DOMAIN w.balance =>
                           w.balance[a] = table[a] + SumFunctionOnSet(Moved(w, a), Swaps)
                      /\ a \notin DOMAIN w.balance => \A x \in Swaps : Moved(w, a)[x] = 0
    BY DEF Backed
  <1>1. CASE a \in DOMAIN w.balance
    <2> DEFINE f == Moved(v, a)
               g == Moved(w, a)
    <2>1. /\ \A x \in Swaps : f[x] \in Int /\ g[x] \in Int
          /\ SumFunctionOnSet(f, Swaps) \in Int
      BY MovedInt
    <2>2. d[a] \in Int /\ table[a] \in Int
      OBVIOUS
    <2>3. /\ \A x \in Swaps \ {s} : g[x] = f[x]
          /\ g[s] = f[s] + d[a]
      <3> HIDE DEF f, g
      <3>1. \A x \in Swaps : g[x] = f[x] + (IF x = s THEN d[a] ELSE 0)
        BY DEF f, g
      <3>2. QED  BY <2>1, <3>1
    <2>4. Seen(v, table, a) = table[a] + SumFunctionOnSet(f, Swaps)
      BY BackedSeen
    <2> HIDE DEF f, g
    <2>5. SumFunctionOnSet(g, Swaps) = SumFunctionOnSet(f, Swaps) + g[s] - f[s]
      BY <2>1, <2>3, SwapsFinite, SumChange
    <2>6. SumFunctionOnSet(g, Swaps) = SumFunctionOnSet(f, Swaps) + d[a]
      BY <2>1, <2>2, <2>3, <2>5
    <2>7. w.balance[a] = table[a] + SumFunctionOnSet(g, Swaps)
      BY <1>1, <2>1, <2>2, <2>4, <2>6
    <2>8. QED  BY <1>1, <2>7 DEF g
  <1>2. CASE a \notin DOMAIN w.balance
    BY <1>2 DEF Backed
  <1>3. QED  BY <1>1, <1>2
\* Balance rows are locked with the values they have.
LEMMA LockBacked ==
    ASSUME IInv, NEW t \in Threads, NEW a \in Accounts, Backed(work[t], balance),
           work' = [work EXCEPT ![t].balance = With(@, a, SeenBalance(t, a))]
    PROVE  /\ Backed(work'[t], balance) /\ work'[t].undone = work[t].undone
           /\ \A u \in Threads \ {t} : work'[u] = work[u]
  <1> DEFINE v == work[t]
             h == With(v.balance, a, SeenBalance(t, a))
             w == WorkRec(v.swap, h, v.done, v.undone, v.poisoned)
             none == [b \in Accounts |-> 0]
  <1>1. IsWork(v) /\ WorkType /\ balance \in [Accounts -> Int] /\ Current(t) \in Swaps
    BY Unpack, CurrentFacts DEF DbType
  <1>2. work' = [work EXCEPT ![t] = w]
    <2>1. w = [v EXCEPT !.balance = h]
      BY <1>1, WorkRecUpdates
    <2>2. work' = [work EXCEPT ![t] = [v EXCEPT !.balance = h]]
      OBVIOUS
    <2>3. QED  BY <2>1, <2>2
  <1>3. SeenBalance(t, a) \in Int
    BY <1>1, SeenFacts
  <1>4. PartialOn(h, Accounts, Int)
    BY <1>1, <1>3, WithPartial DEF IsWork
  <1>5. /\ DOMAIN h = DOMAIN v.balance \cup {a}
        /\ \A b \in DOMAIN h : h[b] = Seen(v, balance, b)
    BY DEF With, Seen, SeenBalance
  <1> HIDE DEF h
  <1>6. IsWork(w)
    BY <1>1, <1>4, IsWorkRec DEF IsWork
  <1>7. w.balance = h /\ w.done = v.done /\ w.undone = v.undone
    BY WorkRecFields
  <1> HIDE DEF w
  <1>8. work'[t] = w /\ \A u \in Threads \ {t} : work'[u] = work[u]
    BY <1>1, <1>2, <1>6, WorkStep
  <1>9. \A b : Moved(w, b) = Moved(v, b)
    BY <1>7 DEF Moved
  <1>10. none \in [Accounts -> Int] /\ \A b \in Accounts : none[b] = 0
    OBVIOUS
  <1>11. \A b \in Accounts : \A x \in Swaps :
            Moved(w, b)[x] = Moved(v, b)[x] + (IF x = Current(t) THEN none[b] ELSE 0)
    BY <1>1, <1>9, <1>10, MovedInt
  <1>12. \A b \in DOMAIN w.balance : w.balance[b] = Seen(v, balance, b) + none[b]
    <2>1. \A b \in DOMAIN h : b \in Accounts /\ h[b] \in Int
      BY <1>4 DEF PartialOn
    <2>2. QED  BY <1>5, <1>7, <1>10, <2>1
  <1> HIDE DEF none, v
  <1>13. Backed(v, balance)
    BY DEF v
  <1>14. Backed(w, balance)
    <2>1. DOMAIN v.balance \subseteq DOMAIN w.balance
      BY <1>5, <1>7
    <2>2. QED  BY <1>1, <1>6, <1>10, <1>11, <1>12, <1>13, <2>1, MoveOne
  <1>15. QED  BY <1>7, <1>8, <1>14 DEF v

\* An exchange moves amountIn and what the pool pays, once.
LEMMA ExchangeBacked ==
    ASSUME IInv, NEW t \in Threads, NEW s \in Rows, NEW out \in AmountsOut, Covers(t, s),
           s \notin DOMAIN work[t].done, Backed(work[t], balance),
           work' = [work EXCEPT ![t] = Exchanged(t, s, out)]
    PROVE  /\ Backed(work'[t], balance) /\ work'[t].undone = work[t].undone
           /\ \A u \in Threads \ {t} : work'[u] = work[u]
  <1> DEFINE v == work[t]
             w == Exchanged(t, s, out)
             from == From[s]
             to == To[s]
             debit == SeenBalance(t, from) - AmountIn[s]
             credit == SeenBalance(t, to) + out
             d == [a \in Accounts |-> IF a = from THEN 0 - AmountIn[s] ELSE IF a = to THEN out ELSE 0]
  <1>1. IsWork(v) /\ WorkType /\ balance \in [Accounts -> Int] /\ s \in Swaps /\ out \in Nat
    BY Unpack, SwapFacts DEF DbType
  <1>2. from \in Accounts /\ to \in Accounts /\ from # to /\ AmountIn[s] \in Nat
    BY <1>1, SwapFacts
  <1>3. IsWork(w)
    BY ExchangedFacts
  <1>4. /\ w.balance = With(With(v.balance, from, debit), to, credit)
        /\ w.done = With(v.done, s, out) /\ w.undone = v.undone
    BY <1>1 DEF Exchanged, IsWork
  <1>5. work'[t] = w /\ \A u \in Threads \ {t} : work'[u] = work[u]
    BY <1>1, <1>3, WorkStep
  <1>6. d \in [Accounts -> Int] /\ d[from] = 0 - AmountIn[s] /\ d[to] = out
        /\ \A a \in Accounts : a # from /\ a # to => d[a] = 0
    BY <1>1, <1>2
  <1>7. /\ DOMAIN w.balance = DOMAIN v.balance \cup {from, to}
        /\ \A a \in DOMAIN w.balance : w.balance[a] = Seen(v, balance, a) + d[a]
    <2>1. /\ DOMAIN w.balance = DOMAIN v.balance \cup {from, to}
          /\ w.balance[from] = debit /\ w.balance[to] = credit
          /\ \A a \in DOMAIN v.balance : a # from /\ a # to => w.balance[a] = v.balance[a]
      BY <1>2, <1>4 DEF With
    <2>2. SeenBalance(t, from) \in Int /\ SeenBalance(t, to) \in Int
      BY <1>2, SeenFacts
    <2>3. \A a : Seen(v, balance, a) = SeenBalance(t, a)
      BY DEF Seen, SeenBalance
    <2>4. \A a \in DOMAIN v.balance : a \in Accounts /\ v.balance[a] \in Int
      BY <1>1 DEF IsWork, PartialOn
    <2>5. \A a \in DOMAIN v.balance : Seen(v, balance, a) = v.balance[a]
      BY DEF Seen
    <2> HIDE DEF d, w
    <2>6. w.balance[from] = Seen(v, balance, from) + d[from]
      BY <1>1, <1>2, <1>6, <2>1, <2>2, <2>3
    <2>7. w.balance[to] = Seen(v, balance, to) + d[to]
      BY <1>6, <2>1, <2>3
    <2>8. ASSUME NEW a \in DOMAIN v.balance, a # from, a # to
          PROVE  w.balance[a] = Seen(v, balance, a) + d[a]
      BY <1>6, <2>1, <2>4, <2>5, <2>8
    <2>9. QED  BY <2>1, <2>6, <2>7, <2>8
  <1>8. \A a \in Accounts : \A x \in Swaps :
           Moved(w, a)[x] = Moved(v, a)[x] + (IF x = s THEN d[a] ELSE 0)
    <2> SUFFICES ASSUME NEW a \in Accounts, NEW x \in Swaps
                 PROVE  Moved(w, a)[x] = Moved(v, a)[x] + (IF x = s THEN d[a] ELSE 0)
      OBVIOUS
    <2>1. Moved(v, a)[x] \in Int
      BY <1>1, MovedInt
    <2>2. /\ DOMAIN w.done = DOMAIN v.done \cup {s} /\ w.done[s] = out
          /\ \A y \in DOMAIN v.done : y # s => w.done[y] = v.done[y]
      BY <1>4 DEF With
    <2> HIDE DEF d, w, v
    <2>3. CASE x # s
      <3>1. Moved(w, a)[x] = Moved(v, a)[x]
        BY <1>4, <2>2, <2>3 DEF Moved
      <3>2. QED  BY <2>1, <2>3, <3>1
    <2>4. CASE x = s
      <3>1. s \notin DOMAIN v.done
        BY DEF v
      <3>2. Moved(v, a)[s] = 0 - 0 + (IF s \in v.undone /\ from = a THEN AmountIn[s] ELSE 0)
        BY <1>1, <3>1 DEF Moved
      <3>3. Moved(w, a)[s] = (IF to = a THEN out ELSE 0) - (IF from = a THEN AmountIn[s] ELSE 0)
                             + (IF s \in v.undone /\ from = a THEN AmountIn[s] ELSE 0)
        BY <1>1, <1>4, <2>2 DEF Moved
      <3>4. d[a] = (IF to = a THEN out ELSE 0) - (IF from = a THEN AmountIn[s] ELSE 0)
        BY <1>1, <1>2, <1>6
      <3>5. QED  BY <1>1, <1>2, <2>4, <3>2, <3>3, <3>4
    <2>5. QED  BY <2>3, <2>4
  <1> HIDE DEF w, d, v
  <1>9. Backed(w, balance)
    <2>1. \A a \in Accounts : a \notin DOMAIN w.balance => d[a] = 0
      BY <1>6, <1>7
    <2>2. DOMAIN v.balance \subseteq DOMAIN w.balance /\ Backed(v, balance)
      BY <1>7 DEF v
    <2>3. QED  BY <1>1, <1>3, <1>6, <1>7, <1>8, <2>1, <2>2, MoveOne
  <1>10. QED  BY <1>4, <1>5, <1>9 DEF v
\* A rollback returns amountIn of one swap, once.
LEMMA RollbackBacked ==
    ASSUME IInv, NEW t \in Threads, NEW s \in Rows, s \notin work[t].undone,
           Backed(work[t], balance), work' = [work EXCEPT ![t] = RolledBack(t, s)]
    PROVE  /\ Backed(work'[t], balance) /\ work'[t].undone = work[t].undone \cup {s}
           /\ \A u \in Threads \ {t} : work'[u] = work[u]
  <1> DEFINE v == work[t]
             a == From[s]
             f == With(v.swap, s, "rolled_back")
             h == With(v.balance, a, SeenBalance(t, a) + AmountIn[s])
             w == WorkRec(f, h, v.done, v.undone \cup {s}, v.poisoned)
             d == [b \in Accounts |-> IF b = a THEN AmountIn[s] ELSE 0]
  <1>1. /\ IsWork(v) /\ WorkType /\ balance \in [Accounts -> Int] /\ s \in Swaps
        /\ a \in Accounts /\ AmountIn[s] \in Nat
    BY Unpack, SwapFacts DEF DbType
  <1>2. work' = [work EXCEPT ![t] = w]
    BY RolledBackFacts
  <1>3. SeenBalance(t, a) \in Int
    BY <1>1, SeenFacts
  <1>4. PartialOn(f, Rows, Status)
    BY <1>1, WithPartial DEF IsWork, Status
  <1>5. PartialOn(h, Accounts, Int)
    BY <1>1, <1>3, WithPartial DEF IsWork
  <1>6. /\ DOMAIN h = DOMAIN v.balance \cup {a} /\ h[a] = SeenBalance(t, a) + AmountIn[s]
        /\ \A b \in DOMAIN v.balance : b # a => h[b] = v.balance[b]
    BY DEF With
  <1> HIDE DEF f, h
  <1>7. IsWork(w)
    BY <1>1, <1>4, <1>5, IsWorkRec DEF IsWork
  <1>8. w.balance = h /\ w.done = v.done /\ w.undone = v.undone \cup {s}
    BY WorkRecFields
  <1> HIDE DEF w
  <1>9. work'[t] = w /\ \A u \in Threads \ {t} : work'[u] = work[u]
    BY <1>1, <1>2, <1>7, WorkStep
  <1>10. /\ d \in [Accounts -> Int] /\ d[a] = AmountIn[s]
         /\ \A b \in Accounts : b # a => d[b] = 0
    BY <1>1
  <1> HIDE DEF d
  <1>11. \A b \in DOMAIN w.balance : w.balance[b] = Seen(v, balance, b) + d[b]
    <2>1. \A b \in DOMAIN v.balance : b \in Accounts /\ v.balance[b] \in Int
      BY <1>1 DEF IsWork, PartialOn
    <2>2. Seen(v, balance, a) = SeenBalance(t, a)
      BY DEF Seen, SeenBalance
    <2>3. ASSUME NEW b \in DOMAIN v.balance, b # a
          PROVE  h[b] = Seen(v, balance, b) + d[b]
      BY <1>6, <1>10, <2>1, <2>3 DEF Seen
    <2>4. h[a] = Seen(v, balance, a) + d[a]
      BY <1>6, <1>10, <2>2
    <2>5. QED  BY <1>6, <1>8, <2>3, <2>4
  <1>12. \A b \in Accounts : \A x \in Swaps :
            Moved(w, b)[x] = Moved(v, b)[x] + (IF x = s THEN d[b] ELSE 0)
    <2> SUFFICES ASSUME NEW b \in Accounts, NEW x \in Swaps
                 PROVE  Moved(w, b)[x] = Moved(v, b)[x] + (IF x = s THEN d[b] ELSE 0)
      OBVIOUS
    <2>1. Moved(v, b)[x] \in Int /\ s \notin v.undone
      BY <1>1, MovedInt
    <2> HIDE DEF v
    <2>2. CASE x # s
      <3>1. Moved(w, b)[x] = Moved(v, b)[x]
        BY <1>8, <2>2 DEF Moved
      <3>2. QED  BY <2>1, <2>2, <3>1
    <2>3. CASE x = s
      <3> DEFINE old == (IF s \in DOMAIN v.done /\ To[s] = b THEN v.done[s] ELSE 0)
                        - (IF s \in DOMAIN v.done /\ From[s] = b THEN AmountIn[s] ELSE 0)
      <3>1. Moved(v, b)[s] = old + 0
        BY <1>1, <2>1 DEF Moved
      <3>2. Moved(w, b)[s] = old + (IF From[s] = b THEN AmountIn[s] ELSE 0)
        BY <1>1, <1>8 DEF Moved
      <3>3. d[b] = IF From[s] = b THEN AmountIn[s] ELSE 0
        BY <1>10
      <3>4. old \in Int
        <4>1. s \in DOMAIN v.done => v.done[s] \in Int
          BY <1>1, SwapFacts DEF IsWork, PartialOn
        <4>2. QED  BY <1>1, <4>1
      <3> HIDE DEF old
      <3>5. QED  BY <1>1, <2>3, <3>1, <3>2, <3>3, <3>4
    <2>4. QED  BY <2>2, <2>3
  <1> HIDE DEF v
  <1>13. Backed(w, balance)
    <2>1. DOMAIN v.balance \subseteq DOMAIN w.balance /\ Backed(v, balance)
      BY <1>6, <1>8 DEF v
    <2>2. \A b \in Accounts : b \notin DOMAIN w.balance => d[b] = 0
      BY <1>6, <1>8, <1>10
    <2>3. QED  BY <1>1, <1>7, <1>10, <1>11, <1>12, <2>1, <2>2, MoveOne
  <1>14. QED  BY <1>8, <1>9, <1>13 DEF v

-----------------------------------------------------------------------------
(* Commits *)

LEMMA OneMore ==
    ASSUME NEW n \in Int, NEW m \in Int
    PROVE  n * m \in Int /\ n * (m + 1) = n * m + n /\ n * (m - 1) = n * m - n
  OBVIOUS

\* A commit writes what the transaction moved: the account of every swap and
\* its balance change together, and the balances of other open transactions,
\* being locked by them, stay as they are.
LEMMA CommittedAddsUp ==
    ASSUME IInv, LedgerInv, NEW t \in Threads, Committed(t)
    PROVE  BalancesAddUp' /\ \A u \in Threads : Backed(work'[u], balance') /\ (u # t => work'[u] = work[u])
  <1> DEFINE w == work[t]
  <1>1. /\ DbType /\ WorkType /\ RowsExclusive /\ IsWork(w) /\ Backed(w, balance)
    BY Unpack DEF LedgerInv
  <1>2. work'[t] = NoWork /\ \A u \in Threads \ {t} : work'[u] = work[u]
    BY <1>1, NoWorkFacts, WorkStep DEF Committed
  <1>3. \A a \in Accounts : balance'[a] = Seen(w, balance, a)
    BY <1>1 DEF Committed, Over, Seen, DbType
  <1>4. /\ \A s \in Swaps : AmountIn[s] \in Nat /\ settled[s] \in Nat /\ paid[s] \in Nat
                              /\ refunded[s] \in Nat
        /\ \A s \in DOMAIN w.done : w.done[s] \in Nat
    BY <1>1, SwapFacts DEF DbType, IsWork, PartialOn
  <1>5. ASSUME NEW a \in Accounts, NEW s \in Swaps
        PROVE  Change(a)'[s] = Change(a)[s] + Moved(w, a)[s]
    <2> DEFINE n == AmountIn[s]
               r == refunded[s]
               k == settled[s]
    <2>1. /\ settled'[s] = IF s \in DOMAIN w.done THEN settled[s] + 1 ELSE settled[s]
          /\ paid'[s] = IF s \in DOMAIN w.done THEN paid[s] + w.done[s] ELSE paid[s]
          /\ refunded'[s] = IF s \in w.undone THEN refunded[s] + 1 ELSE refunded[s]
      BY DEF Committed
    <2>2. /\ n * (r - (k + 1)) = n * (r - k) - n
          /\ n * ((r + 1) - k) = n * (r - k) + n
          /\ n * ((r + 1) - (k + 1)) = n * (r - k)
          /\ n * (r - k) \in Int
      <3>1. n \in Int /\ r - k \in Int
        BY <1>4
      <3>2. /\ r - (k + 1) = (r - k) - 1 /\ (r + 1) - k = (r - k) + 1
            /\ (r + 1) - (k + 1) = r - k
        BY <1>4
      <3> HIDE DEF n, r, k
      <3>3. QED  BY <3>1, <3>2, OneMore
    <2>3. n * (refunded'[s] - settled'[s]) =
            n * (r - k) - (IF s \in DOMAIN w.done THEN n ELSE 0) + (IF s \in w.undone THEN n ELSE 0)
      BY <1>4, <2>1, <2>2
    <2>4. Change(a)[s] = (IF To[s] = a THEN paid[s] ELSE 0) + (IF From[s] = a THEN n * (r - k) ELSE 0)
      BY DEF Change
    <2>5. Change(a)'[s] = (IF To[s] = a THEN paid'[s] ELSE 0)
                          + (IF From[s] = a THEN n * (refunded'[s] - settled'[s]) ELSE 0)
      BY DEF Change
    <2>6. Moved(w, a)[s] =
            (IF s \in DOMAIN w.done /\ To[s] = a THEN w.done[s] ELSE 0)
            - (IF s \in DOMAIN w.done /\ From[s] = a THEN n ELSE 0)
            + (IF s \in w.undone /\ From[s] = a THEN n ELSE 0)
      BY DEF Moved
    <2>7. From[s] # To[s]
      BY SwapFacts
    <2> DEFINE owed == n * (r - k)
               owed2 == n * (refunded'[s] - settled'[s])
    <2>8. /\ owed \in Int /\ n \in Nat /\ paid[s] \in Nat
          /\ s \in DOMAIN w.done => w.done[s] \in Nat
          /\ owed2 = owed - (IF s \in DOMAIN w.done THEN n ELSE 0) + (IF s \in w.undone THEN n ELSE 0)
          /\ Change(a)[s] = (IF To[s] = a THEN paid[s] ELSE 0) + (IF From[s] = a THEN owed ELSE 0)
          /\ Change(a)'[s] = (IF To[s] = a THEN paid'[s] ELSE 0) + (IF From[s] = a THEN owed2 ELSE 0)
      BY <1>4, <2>2, <2>3, <2>4, <2>5
    <2> HIDE DEF owed, owed2, n, w
    <2>9. QED  BY <2>1, <2>6, <2>7, <2>8
  <1>6. BalancesAddUp'
    <2>1. \A a \in Accounts :
             balance'[a] = Start[a] + SumFunctionOnSet(Change(a)', Swaps)
      <3> SUFFICES ASSUME NEW a \in Accounts
                   PROVE  balance'[a] = Start[a] + SumFunctionOnSet(Change(a)', Swaps)
        OBVIOUS
      <3> DEFINE f == Change(a)
                 g == Moved(w, a)
                 h == Change(a)'
      <3>1. /\ \A s \in Swaps : f[s] \in Int /\ g[s] \in Int
            /\ SumFunctionOnSet(f, Swaps) \in Int /\ SumFunctionOnSet(g, Swaps) \in Int
        BY <1>1, ChangeInt, MovedInt
      <3>2. \A s \in Swaps : h[s] = f[s] + g[s]
        BY <1>5
      <3>3. balance[a] = Start[a] + SumFunctionOnSet(f, Swaps)
        BY AddUpByChange DEF LedgerInv
      <3>4. Seen(w, balance, a) = balance[a] + SumFunctionOnSet(g, Swaps)
        BY <1>1, BackedSeen DEF DbType
      <3>5. Start[a] \in Int
        BY SwapFacts
      <3> HIDE DEF f, g, h, w
      <3>6. SumFunctionOnSet(h, Swaps) = SumFunctionOnSet(f, Swaps) + SumFunctionOnSet(g, Swaps)
        BY <3>1, <3>2, SwapsFinite, SumPlus
      <3>7. balance'[a] = Start[a] + SumFunctionOnSet(h, Swaps)
        BY <1>3, <3>1, <3>3, <3>4, <3>5, <3>6
      <3>8. QED  BY <3>7 DEF h
    <2>2. QED  BY <2>1 DEF BalancesAddUp, Change
  <1>7. ASSUME NEW u \in Threads, u # t PROVE Backed(work'[u], balance')
    <2>1. work'[u] = work[u] /\ Backed(work[u], balance)
      BY <1>2, <1>7 DEF LedgerInv
    <2>2. \A a \in DOMAIN work[u].balance : a \notin DOMAIN w.balance
      <3>1. Holds(u) \cap Holds(t) = {}
        BY <1>1, <1>7 DEF RowsExclusive
      <3>2. QED  BY <3>1, RowsOfFacts DEF Holds
    <2>3. \A a \in Accounts : a \in DOMAIN work[u].balance => balance'[a] = balance[a]
      BY <1>3, <2>2 DEF Seen
    <2>4. QED  BY <2>1, <2>3 DEF Backed
  <1>8. Backed(work'[t], balance')
    BY <1>2, EmptyBacked
  <1>9. QED  BY <1>2, <1>6, <1>7, <1>8
-----------------------------------------------------------------------------
(* Every step keeps the invariant *)

LEMMA TablesKept ==
    ASSUME LedgerInv, UNCHANGED <<balance, settled, paid, refunded>>
    PROVE  BalancesAddUp' /\ \A w : Backed(w, balance') <=> Backed(w, balance)
  BY DEF LedgerInv, BalancesAddUp

\* A step of t that leaves the tables of money alone.
LEMMA ThreadLedger ==
    ASSUME ControlType, LedgerInv, NEW t \in Threads,
           UNCHANGED <<balance, settled, paid, refunded>>,
           \A u \in Threads \ {t} : work'[u] = work[u] /\ toUndo'[u] = toUndo[u],
           UNCHANGED pc \/ \E x : Goto(t, x),
           Backed(work'[t], balance), UndoInOrder(t)'
    PROVE  LedgerInv'
  <1>1. BalancesAddUp' /\ \A w : Backed(w, balance') <=> Backed(w, balance)
    BY TablesKept
  <1>2. ASSUME NEW u \in Threads, u # t
        PROVE  Backed(work'[u], balance') /\ UndoInOrder(u)'
    <2>1. work'[u] = work[u] /\ toUndo'[u] = toUndo[u] /\ pc'[u] = pc[u]
      BY <1>2 DEF Goto, ControlType
    <2>2. QED  BY <1>1, <2>1 DEF LedgerInv, UndoInOrder
  <1>3. QED  BY <1>1, <1>2 DEF LedgerInv

\* What a thread must do to be outside its rollback.
LEMMA OutsideUndo ==
    ASSUME ControlType, NEW t \in Threads, NEW x, x # "undo", Goto(t, x),
           work'[t].undone = {}
    PROVE  UndoInOrder(t)'
  BY DEF Goto, ControlType, UndoInOrder

\* A step of t that does not touch its work, outside the rollback.
LEMMA IdleLedger ==
    ASSUME ControlType, LedgerInv, NEW t \in Threads, pc[t] # "undo",
           UNCHANGED <<balance, settled, paid, refunded, work, toUndo>>,
           NEW x, x # "undo", Goto(t, x)
    PROVE  LedgerInv'
  <1>1. work'[t].undone = {} /\ Backed(work'[t], balance)
    BY DEF LedgerInv, UndoInOrder
  <1>2. QED  BY <1>1, OutsideUndo, ThreadLedger

\* A step of t that leaves it without work, outside the rollback.
LEMMA EmptyLedger ==
    ASSUME ControlType, WorkType, LedgerInv, NEW t \in Threads, dbVars' = dbVars,
           NEW w \in {NoWork, Broken}, work' = [work EXCEPT ![t] = w],
           UNCHANGED toUndo, NEW x, x # "undo", Goto(t, x)
    PROVE  LedgerInv'
  <1>1. work'[t] = w /\ \A u \in Threads \ {t} : work'[u] = work[u]
    BY NoWorkFacts, WorkStep
  <1>2. Backed(work'[t], balance) /\ work'[t].undone = {}
    BY <1>1, EmptyBacked
  <1>3. QED  BY <1>1, <1>2, OutsideUndo, ThreadLedger DEF dbVars

\* A step of t that writes the row of a swap.
LEMMA RowLedger ==
    ASSUME IInv, LedgerInv, NEW t \in Threads, pc[t] # "undo",
           UNCHANGED <<balance, settled, paid, refunded, toUndo>>,
           NEW s, NEW new, work' = [work EXCEPT ![t] = WriteSwap(t, s, new)],
           s \in Rows => new \in Status, NEW x, x # "undo", Goto(t, x)
    PROVE  LedgerInv'
  <1> DEFINE w == WriteSwap(t, s, new)
  <1>1. WorkType /\ ControlType /\ IsWork(work[t])
    BY Unpack
  <1>2. /\ IsWork(w) /\ w.balance = work[t].balance /\ w.done = work[t].done
        /\ w.undone = work[t].undone
    <2>1. CASE s \in Rows
      <3>1. IsWork(w)
        BY <1>1, <2>1, WriteSwapFacts
      <3>2. w = [work[t] EXCEPT !.swap = With(work[t].swap, s, new)]
        BY <2>1 DEF WriteSwap
      <3>3. w = WorkRec(With(work[t].swap, s, new), work[t].balance, work[t].done,
                        work[t].undone, work[t].poisoned)
        BY <1>1, <3>2, WorkRecUpdates
      <3>4. QED  BY <3>1, <3>3, WorkRecFields
    <2>2. CASE s \notin Rows
      BY <1>1, <2>2 DEF WriteSwap
    <2>3. QED  BY <2>1, <2>2
  <1> HIDE DEF w
  <1>3. work'[t] = w /\ \A u \in Threads \ {t} : work'[u] = work[u]
    <2>1. work' = [work EXCEPT ![t] = w]
      BY DEF w
    <2>2. QED  BY <1>1, <1>2, <2>1, WorkStep
  <1>4. Backed(work'[t], balance) /\ work'[t].undone = {}
    BY <1>2, <1>3, SameBacked DEF LedgerInv, UndoInOrder
  <1>5. QED  BY <1>1, <1>3, <1>4, OutsideUndo, ThreadLedger

LEMMA ExchangeLedger ==
    ASSUME IInv, LedgerInv, NEW t \in Threads, Exchange(t)
    PROVE  LedgerInv'
  <1> DEFINE s == Current(t)
             a == To[s]
  <1>1. /\ ControlType /\ ThreadInv(t) /\ IsWork(work[t]) /\ a \in Accounts
        /\ Backed(work[t], balance) /\ UndoInOrder(t)
    BY Unpack, CurrentFacts DEF LedgerInv
  <1>2. pc[t] = "exchange" /\ work[t].undone = {} /\ UNCHANGED <<dbVars, toUndo>>
    BY <1>1 DEF Exchange, UndoInOrder
  <1>3. s \in Rows
    BY <1>1, <1>2 DEF ThreadInv, LocksInOrder, IsWork, PartialOn
  <1>4. s \notin DOMAIN work[t].done
    <2>1. DOMAIN work[t].done = Earlier(t)
      BY <1>1, <1>2 DEF ThreadInv, ExchangedInOrder, LocksInOrder, Working
    <2>2. part[t] \in 1..Len(Parts[t]) /\ Len(Parts[t]) \in Nat
      BY <1>1, ThreadFacts DEF ControlType
    <2>3. \A i \in 1..(part[t] - 1) : i \in 1..Len(Parts[t]) /\ i # part[t]
      BY <2>2
    <2>4. QED  BY <2>1, <2>2, <2>3, PartsDistinct DEF Earlier, Current
  <1>5. CASE /\ work' = [work EXCEPT ![t].balance = With(@, a, SeenBalance(t, a))]
             /\ Goto(t, "threw")
    <2>1. /\ Backed(work'[t], balance) /\ work'[t].undone = work[t].undone
          /\ \A u \in Threads \ {t} : work'[u] = work[u]
      BY <1>1, <1>5, LockBacked
    <2>2. QED  BY <1>1, <1>2, <1>5, <2>1, OutsideUndo, ThreadLedger DEF dbVars
  <1>6. ASSUME Covers(t, s), NEW out \in AmountsOut,
               work' = [work EXCEPT ![t] = Exchanged(t, s, out)],
               Goto(t, IF LastPart(t) THEN "commit" ELSE "mark")
        PROVE  LedgerInv'
    <2>1. /\ Backed(work'[t], balance) /\ work'[t].undone = work[t].undone
          /\ \A u \in Threads \ {t} : work'[u] = work[u]
      BY <1>1, <1>3, <1>4, <1>6, ExchangeBacked
    <2>2. UndoInOrder(t)'
      BY <1>1, <1>2, <1>6, <2>1, OutsideUndo
    <2>3. QED  BY <1>1, <1>2, <1>6, <2>1, <2>2, ThreadLedger DEF dbVars
  <1>7. QED  BY <1>5, <1>6 DEF Exchange

LEMMA AbortLedger ==
    ASSUME IInv, LedgerInv, NEW t \in Threads, Abort(t)
    PROVE  LedgerInv'
  <1>1. ControlType /\ WorkType /\ ThreadInv(t) /\ work' = [work EXCEPT ![t] = NoWork]
        /\ UNCHANGED dbVars
    BY Unpack DEF Abort
  <1>2. work'[t] = NoWork /\ \A u \in Threads \ {t} : work'[u] = work[u]
    BY <1>1, NoWorkFacts, WorkStep
  <1>3. CASE Kind[t] # "atomic"
    <2>1. UNCHANGED toUndo /\ \E x : x # "undo" /\ Goto(t, x)
      BY <1>3 DEF Abort, FailJob
    <2>2. QED  BY <1>1, <2>1, EmptyLedger
  <1>4. CASE Kind[t] = "atomic"
    <2> DEFINE n == part[t] - 1
               q == SubSeq(Parts[t], 1, n)
    <2>1. Goto(t, "undo") /\ toUndo' = [toUndo EXCEPT ![t] = q]
      BY <1>4 DEF Abort
    <2>2. /\ toUndo'[t] = q /\ pc'[t] = "undo"
          /\ \A u \in Threads \ {t} : toUndo'[u] = toUndo[u]
      BY <1>1, <2>1 DEF ControlType, Goto
    <2>3. Len(q) = n /\ \A i \in 1..n : q[i] = Parts[t][i] /\ i \in 1..Len(Parts[t])
      <3>1. part[t] \in 1..Len(Parts[t]) /\ Parts[t] \in Seq(Swaps) /\ Len(Parts[t]) \in Nat
        BY <1>1, ThreadFacts DEF ControlType
      <3>2. n \in Nat /\ n <= Len(Parts[t])
        BY <3>1
      <3>3. Len(q) = n /\ \A i \in 1..n : q[i] = Parts[t][i]
        BY <3>1, <3>2, SubSeqProperties
      <3>4. QED  BY <3>2, <3>3, <3>1
    <2> HIDE DEF q
    <2>4. work'[t].undone = {} /\ Backed(work'[t], balance)
      BY <1>2, EmptyBacked
    <2>5. UndoInOrder(t)'
      BY <2>2, <2>3, <2>4, PartsDistinct DEF UndoInOrder
    <2>6. QED  BY <1>1, <1>2, <2>1, <2>2, <2>4, <2>5, ThreadLedger DEF dbVars
  <1>5. QED  BY <1>3, <1>4

LEMMA RollbackLedger ==
    ASSUME IInv, LedgerInv, NEW t \in Threads, Rollback(t)
    PROVE  LedgerInv'
  <1> DEFINE q == toUndo[t]
             s == Head(q)
  <1>1. /\ ControlType /\ Backed(work[t], balance) /\ UndoInOrder(t)
        /\ pc[t] = "undo" /\ q # <<>> /\ UNCHANGED <<dbVars, pc>>
        /\ work' = [work EXCEPT ![t] = RolledBack(t, s)]
        /\ toUndo' = [toUndo EXCEPT ![t] = Tail(q)]
    BY Unpack DEF LedgerInv, Rollback
  <1>2. q \in Seq(Rows) /\ Len(q) \in Nat /\ Len(q) > 0 /\ s = q[1] /\ s \in Rows
    <2>1. q \in Seq(Rows)
      BY <1>1 DEF ControlType
    <2>2. QED  BY <1>1, <2>1, HeadTailProperties, EmptySeq, LenProperties
  <1>3. s \notin work[t].undone
    BY <1>1, <1>2 DEF UndoInOrder
  <1>4. /\ Backed(work'[t], balance) /\ work'[t].undone = work[t].undone \cup {s}
        /\ \A u \in Threads \ {t} : work'[u] = work[u]
    BY <1>1, <1>2, <1>3, RollbackBacked
  <1>5. /\ toUndo'[t] = Tail(q) /\ pc'[t] = "undo"
        /\ \A u \in Threads \ {t} : toUndo'[u] = toUndo[u]
    BY <1>1 DEF ControlType
  <1>6. Len(Tail(q)) = Len(q) - 1 /\ \A i \in 1..Len(Tail(q)) : Tail(q)[i] = q[i + 1]
    BY <1>1, <1>2, HeadTailProperties
  <1> HIDE DEF q
  <1>7. \A i \in 1..(Len(q) - 1) : i + 1 \in 1..Len(q) /\ i + 1 # 1
    BY <1>2
  <1>8. UndoInOrder(t)'
    <2>1. /\ \A i, j \in 1..Len(q) : q[i] = q[j] => i = j
          /\ \A i \in 1..Len(q) : q[i] \notin work[t].undone
      BY <1>1 DEF UndoInOrder, q
    <2>2. \A i, j \in 1..(Len(q) - 1) : i + 1 = j + 1 => i = j
      OBVIOUS
    <2>3. \A i, j \in 1..Len(Tail(q)) : Tail(q)[i] = Tail(q)[j] => i = j
      BY <1>2, <1>6, <1>7, <2>1, <2>2
    <2>4. 1 \in 1..Len(q)
      BY <1>2
    <2>5. \A i \in 1..Len(Tail(q)) : Tail(q)[i] # s
      BY <1>2, <1>6, <1>7, <2>1, <2>4
    <2>6. \A i \in 1..Len(Tail(q)) : Tail(q)[i] \notin work[t].undone \cup {s}
      BY <1>2, <1>6, <1>7, <2>1, <2>5
    <2>7. QED  BY <1>4, <1>5, <2>3, <2>6 DEF UndoInOrder
  <1>9. QED  BY <1>1, <1>4, <1>5, <1>8, ThreadLedger DEF dbVars

LEMMA CommitsLedger ==
    ASSUME IInv, LedgerInv, NEW t \in Threads, Commit(t) \/ CommitRollback(t)
    PROVE  LedgerInv'
  <1>1. ControlType /\ Committed(t) /\ UNCHANGED toUndo /\ \E x : x # "undo" /\ Goto(t, x)
    BY Unpack DEF Commit, CommitRollback
  <1>2. BalancesAddUp' /\ \A u \in Threads : Backed(work'[u], balance') /\ (u # t => work'[u] = work[u])
    BY <1>1, CommittedAddsUp
  <1>3. work'[t].undone = {}
    <2>1. work'[t] = NoWork
      BY Unpack, NoWorkFacts, WorkStep DEF Committed, Commit, CommitRollback
    <2>2. QED  BY <2>1, EmptyBacked
  <1>4. \A u \in Threads : UndoInOrder(u)'
    BY <1>1, <1>2, <1>3 DEF LedgerInv, UndoInOrder, Goto, ControlType
  <1>5. QED  BY <1>2, <1>4 DEF LedgerInv

LEMMA LockWaitFailsLedger ==
    ASSUME IInv, LedgerInv, NEW t \in Threads, LockWaitFails(t)
    PROVE  LedgerInv'
  <1>1. ControlType /\ WorkType /\ UNCHANGED <<dbVars, toUndo>>
    BY Unpack DEF LockWaitFails
  <1>2. \E x : x # "undo" /\ Goto(t, x)
    BY DEF LockWaitFails, FailJob
  <1>3. CASE UNCHANGED work /\ pc[t] # "undo"
    BY <1>1, <1>2, <1>3, IdleLedger DEF dbVars
  <1>4. CASE \E w \in {NoWork, Broken} : work' = [work EXCEPT ![t] = w]
    BY <1>1, <1>2, <1>4, EmptyLedger
  <1>5. QED  BY <1>3, <1>4 DEF LockWaitFails

\* The threads of a completed job ran no rollback.
LEMMA CompleteJobLedger ==
    ASSUME IInv, LedgerInv, NEW t \in Threads, CompleteJob(t)
    PROVE  LedgerInv'
  <1>1. ControlType /\ UNCHANGED <<dbVars, work, toUndo>>
    BY Unpack DEF CompleteJob
  <1>2. BalancesAddUp' /\ \A w : Backed(w, balance') <=> Backed(w, balance)
    BY <1>1, TablesKept DEF dbVars
  <1>3. \A u \in Threads : UndoInOrder(u)'
    <2> SUFFICES ASSUME NEW u \in Threads PROVE UndoInOrder(u)'
      OBVIOUS
    <2>1. CASE Job[u] = Job[t]
      BY <1>1, <2>1 DEF CompleteJob, LedgerInv, UndoInOrder
    <2>2. CASE Job[u] # Job[t]
      BY <1>1, <2>2 DEF CompleteJob, LedgerInv, UndoInOrder
    <2>3. QED  BY <2>1, <2>2
  <1>4. QED  BY <1>1, <1>2, <1>3 DEF LedgerInv

LEMMA CrashLedger ==
    ASSUME IInv, LedgerInv, Crash
    PROVE  LedgerInv'
  <1>1. UNCHANGED dbVars /\ \A t \in Threads : work'[t] = NoWork
    BY DEF Crash
  <1>2. BalancesAddUp' /\ \A w : Backed(w, balance') <=> Backed(w, balance)
    BY <1>1, TablesKept DEF dbVars
  <1>3. \A t \in Threads : pc'[t] # "undo"
    BY DEF Crash
  <1>4. Backed(NoWork, balance) /\ NoWork.undone = {}
    BY EmptyBacked
  <1>5. QED  BY <1>1, <1>2, <1>3, <1>4 DEF LedgerInv, UndoInOrder

LEMMA OnFailedLedger ==
    ASSUME LedgerInv, NEW t \in Threads, OnFailed(t)
    PROVE  LedgerInv'
  <1>1. UNCHANGED <<balance, settled, paid, refunded, work, pc, toUndo>>
    BY DEF OnFailed
  <1>2. BalancesAddUp' /\ \A w : Backed(w, balance') <=> Backed(w, balance)
    BY <1>1, TablesKept
  <1>3. QED  BY <1>1, <1>2 DEF LedgerInv, UndoInOrder

LEMMA StepLedger ==
    ASSUME IInv, LedgerInv, NEW t \in Threads, Step(t)
    PROVE  LedgerInv'
  <1>1. ControlType
    BY Unpack
  <1>2. ASSUME pc[t] # "undo", UNCHANGED <<balance, settled, paid, refunded, work, toUndo>>,
               \E x : x # "undo" /\ Goto(t, x)
        PROVE  LedgerInv'
    BY <1>1, <1>2, IdleLedger
  <1>3. CASE StartJob(t) \/ HandleThrow(t)
    BY <1>2, <1>3 DEF StartJob, HandleThrow, dbVars
  <1>4. CASE UpdateRetrying(t) \/ GiveUp(t)
    BY <1>2, <1>4 DEF UpdateRetrying, GiveUp
  <1>5. CASE FailUnsettled(t)
    BY <1>2, <1>5 DEF FailUnsettled, FailJob
  <1>6. CASE MarkProcessing(t)
    <2>1. pc[t] # "undo" /\ UNCHANGED <<balance, settled, paid, refunded, toUndo>>
          /\ Goto(t, "attempt") /\ "processing" \in Status
      BY <1>6 DEF MarkProcessing, Status
    <2>2. CASE UNCHANGED work
      BY <1>2, <2>1, <2>2
    <2>3. CASE work' = [work EXCEPT ![t] = WriteSwap(t, Current(t), "processing")]
      BY <2>1, <2>3, RowLedger
    <2>4. QED  BY <1>6, <2>2, <2>3 DEF MarkProcessing
  <1>7. CASE AttemptSettlement(t)
    <2> DEFINE s == Current(t)
    <2>1. pc[t] # "undo" /\ UNCHANGED <<balance, settled, paid, refunded, toUndo>>
          /\ (\E x \in {"threw", "lockFrom"} : Goto(t, x)) /\ "failed" \in Status
      BY <1>7 DEF AttemptSettlement, dbVars, Status
    <2>2. s \in Rows => SeenStatus(t, s) \in Status
      BY SwapFacts, SeenFacts
    <2>3. CASE UNCHANGED work
      BY <1>2, <2>1, <2>3
    <2>4. CASE work' = [work EXCEPT ![t] = WriteSwap(t, s, SeenStatus(t, s))]
      BY <2>1, <2>2, <2>4, RowLedger
    <2>5. CASE work' = [work EXCEPT ![t] = WriteSwap(t, s, "failed")]
      BY <2>1, <2>5, RowLedger
    <2>6. QED  BY <1>7, <2>3, <2>4, <2>5 DEF AttemptSettlement
  <1>8. CASE LockFrom(t)
    <2> DEFINE a == From[Current(t)]
    <2>1. /\ pc[t] # "undo" /\ UNCHANGED <<balance, settled, paid, refunded, toUndo>>
          /\ Goto(t, "exchange")
          /\ work' = [work EXCEPT ![t].balance = With(@, a, SeenBalance(t, a))]
      BY <1>8 DEF LockFrom, dbVars
    <2>2. a \in Accounts /\ Backed(work[t], balance) /\ work[t].undone = {}
      BY <1>1, <2>1, CurrentFacts DEF LedgerInv, UndoInOrder
    <2>3. /\ Backed(work'[t], balance) /\ work'[t].undone = {}
          /\ \A u \in Threads \ {t} : work'[u] = work[u]
      BY <2>1, <2>2, LockBacked
    <2>4. QED  BY <1>1, <2>1, <2>3, OutsideUndo, ThreadLedger
  <1>9. CASE Exchange(t)
    BY <1>9, ExchangeLedger
  <1>10. CASE Abort(t)
    BY <1>10, AbortLedger
  <1>11. CASE Rollback(t)
    BY <1>11, RollbackLedger
  <1>12. CASE Commit(t) \/ CommitRollback(t)
    BY <1>12, CommitsLedger
  <1>13. CASE CompleteJob(t)
    BY <1>13, CompleteJobLedger
  <1>14. CASE LockWaitFails(t)
    BY <1>14, LockWaitFailsLedger
  <1>15. QED
    BY <1>3, <1>4, <1>5, <1>6, <1>7, <1>8, <1>9, <1>10, <1>11, <1>12, <1>13, <1>14 DEF Step

LEMMA InitLedger == Init => LedgerInv
  <1> SUFFICES ASSUME Init PROVE LedgerInv
    OBVIOUS
  <1>1. ASSUME NEW a \in Accounts
        PROVE  balance[a] = Start[a] + SumFunctionOnSet(Change(a), Swaps)
    <2>1. \A s \in Swaps : AmountIn[s] \in Nat /\ paid[s] = 0 /\ refunded[s] = 0 /\ settled[s] = 0
      BY SwapFacts DEF Init
    <2>2. \A s \in Swaps : Change(a)[s] = 0
      BY <2>1 DEF Change
    <2>3. SumFunctionOnSet(Change(a), Swaps) = 0
      BY <2>2, SwapsFinite, SumZero
    <2>4. Start[a] \in Nat /\ balance[a] = Start[a]
      BY SwapFacts DEF Init
    <2>5. QED  BY <2>3, <2>4
  <1>2. \A t \in Threads : Backed(work[t], balance) /\ UndoInOrder(t)
    BY EmptyBacked DEF Init, UndoInOrder
  <1>3. QED  BY <1>1, <1>2, AddUpByChange DEF LedgerInv

LEMMA NextLedger == IInv /\ LedgerInv /\ [Next]_vars => LedgerInv'
  <1> SUFFICES ASSUME IInv, LedgerInv, [Next]_vars PROVE LedgerInv'
    OBVIOUS
  <1>1. CASE UNCHANGED vars
    <2>1. UNCHANGED <<balance, settled, paid, refunded, work, pc, toUndo>>
      BY <1>1 DEF vars
    <2>2. BalancesAddUp' /\ \A w : Backed(w, balance') <=> Backed(w, balance)
      BY <2>1, TablesKept
    <2>3. QED  BY <2>1, <2>2 DEF LedgerInv, UndoInOrder
  <1>2. QED  BY <1>1, StepLedger, OnFailedLedger, CrashLedger DEF Next

\* No update of a balance is lost: whatever runs, fails, is retried, rolled back
\* or killed, each balance is its start, less what the committed exchanges took,
\* plus what they paid and what committed rollbacks returned.
THEOREM NothingLost == Spec => []BalancesAddUp
  <1>1. Spec => []LedgerInv
    BY InitLedger, NextLedger, Invariance, PTL DEF Spec
  <1>2. LedgerInv => BalancesAddUp
    BY DEF LedgerInv
  <1>3. QED  BY <1>1, <1>2, PTL

-----------------------------------------------------------------------------
(* The refinement: without crashes and atomic batches, a ledger *)

\* A thread other than an atomic batch never undoes anything.
NeverUndoes == \A t \in Threads : pc[t] # "undo"

LEMMA NextNeverUndoes ==
    ASSUME \A t \in Threads : Kind[t] # "atomic", IInv, NeverUndoes, [Next]_vars
    PROVE  NeverUndoes'
  <1>1. pc \in [Threads -> Pcs]
    BY DEF IInv, TypeOK
  <1>2. ASSUME NEW t \in Threads, \E x : x # "undo" /\ Goto(t, x)
        PROVE  NeverUndoes'
    BY <1>1, <1>2 DEF NeverUndoes, Goto
  <1>3. ASSUME NEW t \in Threads, Step(t)
        PROVE  NeverUndoes'
    <2>1. CASE StartJob(t) \/ MarkProcessing(t) \/ AttemptSettlement(t) \/ LockFrom(t)
               \/ HandleThrow(t) \/ UpdateRetrying(t) \/ GiveUp(t) \/ Commit(t)
      BY <1>2, <2>1 DEF StartJob, MarkProcessing, AttemptSettlement, LockFrom, HandleThrow,
                        UpdateRetrying, GiveUp, Commit
    <2>2. CASE Exchange(t)
      BY <1>2, <2>2 DEF Exchange
    <2>3. CASE Abort(t)
      BY <1>2, <2>3 DEF Abort, FailJob
    <2>4. CASE Rollback(t) \/ CommitRollback(t)
      BY <2>4 DEF Rollback, CommitRollback, NeverUndoes
    <2>5. CASE FailUnsettled(t)
      BY <1>2, <2>5 DEF FailUnsettled, FailJob
    <2>6. CASE CompleteJob(t)
      BY <2>6 DEF CompleteJob, NeverUndoes
    <2>7. CASE LockWaitFails(t)
      BY <1>2, <2>7 DEF LockWaitFails, FailJob
    <2>8. QED
      BY <1>3, <2>1, <2>2, <2>3, <2>4, <2>5, <2>6, <2>7 DEF Step
  <1>4. CASE \E t \in Threads : OnFailed(t)
    BY <1>4 DEF OnFailed, NeverUndoes
  <1>5. CASE Crash
    BY <1>5 DEF Crash, NeverUndoes
  <1>6. CASE UNCHANGED vars
    BY <1>6 DEF vars, NeverUndoes
  <1>7. QED  BY <1>3, <1>4, <1>5, <1>6 DEF Next

SettledSwaps == {s \in Swaps : settled[s] > 0}

\* The sum over at most one swap.
LEMMA SumOne ==
    ASSUME NEW f, NEW s, f[s] \in Int
    PROVE  SumFunctionOnSet(f, {s}) = f[s]
  <1>1. IsFiniteSet({s}) /\ {s} \ {s} = {}
    BY FS_Singleton
  <1>2. SumFunctionOnSet(f, {s}) = f[s] + SumFunctionOnSet(f, {s} \ {s})
    BY <1>1, SumRemove
  <1>3. QED  BY <1>1, <1>2, SumEmpty

\* The ledger's sums are this module's.
LEMMA LedgerSums ==
    \A f, S : Ledger!SumFunctionOnSet(f, S) = SumFunctionOnSet(f, S)
  BY DEF Ledger!SumFunctionOnSet, Ledger!FoldFunctionOnSet, Ledger!MapThenFoldSet,
         SumFunctionOnSet, FoldFunctionOnSet, MapThenFoldSet

LEMMA LedgerTerms ==
    ASSUME NEW a, NEW s, NEW out
    PROVE  /\ Ledger!Received(a, {s}, out) = SumFunctionOnSet(out, {x \in {s} : To[x] = a})
           /\ Ledger!Given(a, {s}) = SumFunctionOnSet(AmountIn, {x \in {s} : From[x] = a})
  BY LedgerSums DEF Ledger!Received, Ledger!Given

\* The transaction of a single swap moves what the ledger's exchange of that
\* swap moves.
LEMMA MovedByOne ==
    ASSUME NEW w, IsWork(w), NEW s \in Swaps, DOMAIN w.done = {s}, w.undone = {},
           NEW a \in Accounts
    PROVE  SumFunctionOnSet(Moved(w, a), Swaps) =
             Ledger!Received(a, {s}, w.done) - Ledger!Given(a, {s})
  <1> DEFINE m == Moved(w, a)
             to == {x \in {s} : To[x] = a}
             from == {x \in {s} : From[x] = a}
  <1>1. w.done[s] \in Nat /\ AmountIn[s] \in Nat
    BY SwapFacts DEF IsWork, PartialOn
  <1>2. SumFunctionOnSet(w.done, to) = IF To[s] = a THEN w.done[s] ELSE 0
    <2>1. CASE To[s] = a
      <3>1. to = {s}
        BY <2>1
      <3>2. QED  BY <1>1, <2>1, <3>1, SumOne
    <2>2. CASE To[s] # a
      <3>1. to = {}
        BY <2>2
      <3>2. QED  BY <2>2, <3>1, SumEmpty
    <2>3. QED  BY <2>1, <2>2
  <1>3. SumFunctionOnSet(AmountIn, from) = IF From[s] = a THEN AmountIn[s] ELSE 0
    <2>1. CASE From[s] = a
      <3>1. from = {s}
        BY <2>1
      <3>2. SumFunctionOnSet(AmountIn, {s}) = AmountIn[s]
        BY <1>1, SumOne
      <3>3. QED  BY <2>1, <3>1, <3>2
    <2>2. CASE From[s] # a
      <3>1. from = {}
        BY <2>2
      <3>2. QED  BY <2>2, <3>1, SumEmpty
    <2>3. QED  BY <2>1, <2>2
  <1>4. m[s] = (IF To[s] = a THEN w.done[s] ELSE 0) - (IF From[s] = a THEN AmountIn[s] ELSE 0)
    BY <1>1 DEF Moved
  <1>5. \A x \in Swaps \ {s} : m[x] = 0
    BY DEF Moved
  <1>6. \A x \in Swaps : m[x] \in Int
    BY MovedInt
  <1> HIDE DEF m, to, from
  <1>7. SumFunctionOnSet(m, Swaps) = m[s] + SumFunctionOnSet(m, Swaps \ {s})
    BY <1>6, SwapsFinite, SumRemove
  <1>8. IsFiniteSet(Swaps \ {s})
    BY SwapsFinite, FS_Subset
  <1>9. SumFunctionOnSet(m, Swaps \ {s}) = 0
    BY <1>5, <1>8, SumZero
  <1>10. SumFunctionOnSet(m, Swaps) = m[s]
    BY <1>6, <1>7, <1>9
  <1>11. QED  BY <1>2, <1>3, <1>4, <1>10, LedgerTerms DEF m, to, from

\* A commit exchanges the thread's swap for the first and only time.
LEMMA CommitExchanges ==
    ASSUME \A t \in Threads : Kind[t] # "atomic", IInv, IInv', LedgerInv, SettledThenFinal,
           NEW t \in Threads, Commit(t)
    PROVE  \E S \in SUBSET Swaps : \E out \in [S -> AmountsOut] : Ledger!Exchange(S, out)
  <1> DEFINE w == work[t]
             s == Parts[t][1]
  <1>1. /\ DbType /\ IsWork(w) /\ ThreadInv(t) /\ Backed(w, balance) /\ UndoInOrder(t)
        /\ pc[t] = "commit" /\ Committed(t)
    BY Unpack DEF LedgerInv, Commit
  <1>2. s \in Swaps /\ PartsOf(t) = {s}
    BY ThreadFacts DEF PartsOf
  <1>3. DOMAIN w.done = {s} /\ w.undone = {}
    BY <1>1, <1>2 DEF ThreadInv, ExchangedInOrder, UndoInOrder
  <1>4. w.done \in [{s} -> AmountsOut]
    BY <1>1, <1>3 DEF IsWork, PartialOn
  <1>5. settled[s] = 0
    BY <1>1, <1>2 DEF SettledThenFinal, Final
  <1>6. SettledSwaps' = SettledSwaps \cup {s}
    <2>1. \A x \in Swaps : settled'[x] = IF x = s THEN 1 ELSE settled[x]
      BY <1>1, <1>3, <1>5 DEF Committed
    <2>2. QED  BY <1>2, <2>1 DEF SettledSwaps
  <1>7. {s} \cap SettledSwaps = {}
    BY <1>5 DEF SettledSwaps
  <1>8. balance' = [a \in Accounts |->
                      balance[a] + Ledger!Received(a, {s}, w.done) - Ledger!Given(a, {s})]
    <2>1. \A a \in Accounts : balance'[a] = Seen(w, balance, a)
      BY <1>1 DEF Committed, Over, Seen, DbType
    <2>2. balance \in [Accounts -> Int] /\ DOMAIN balance' = Accounts
      BY <1>1 DEF Committed, Over, DbType
    <2>3. ASSUME NEW a \in Accounts
          PROVE  balance'[a] = balance[a] + Ledger!Received(a, {s}, w.done) - Ledger!Given(a, {s})
      <3> DEFINE in == Ledger!Received(a, {s}, w.done)
                 out == Ledger!Given(a, {s})
      <3>1. SumFunctionOnSet(Moved(w, a), Swaps) = in - out
        BY <1>1, <1>2, <1>3, MovedByOne
      <3>2. Seen(w, balance, a) = balance[a] + SumFunctionOnSet(Moved(w, a), Swaps)
        BY <1>1, <2>2, BackedSeen
      <3>3. in \in Int /\ out \in Int
        <4>1. ASSUME NEW T \in SUBSET {s} PROVE IsFiniteSet(T)
          <5>1. IsFiniteSet({s})
            BY FS_Singleton
          <5>2. QED  BY <5>1, FS_Subset
        <4>2. w.done[s] \in Int /\ AmountIn[s] \in Int
          <5>1. \A x \in Swaps : AmountIn[x] \in Int
            BY SwapFacts
          <5> HIDE DEF w, s, in, out
          <5>2. AmountsOut \subseteq Int
            BY SwapFacts
          <5>3. w.done[s] \in AmountsOut
            BY <1>4
          <5>4. QED  BY <1>2, <5>1, <5>2, <5>3
        <4> DEFINE to == {x \in {s} : To[x] = a}
                   from == {x \in {s} : From[x] = a}
        <4>3. \A x \in to : w.done[x] \in Int
          BY <4>2
        <4>4. \A x \in from : AmountIn[x] \in Int
          BY <4>2
        <4>5. IsFiniteSet(to) /\ IsFiniteSet(from)
          BY <4>1
        <4> HIDE DEF to, from, w, s
        <4>6. SumFunctionOnSet(w.done, to) \in Int /\ SumFunctionOnSet(AmountIn, from) \in Int
          BY <4>3, <4>4, <4>5, SumInt
        <4>7. QED  BY <4>6, LedgerTerms DEF to, from
      <3> HIDE DEF in, out
      <3>4. balance'[a] = balance[a] + in - out
        BY <2>1, <2>2, <3>1, <3>2, <3>3
      <3>5. QED  BY <3>4 DEF in, out
    <2>4. balance' = [a \in Accounts |-> balance'[a]]
      <3>1. balance' = [a \in DOMAIN balance' |-> balance'[a]]
        BY DEF Committed, Commit, Over
      <3>2. QED  BY <2>2, <3>1
    <2>5. QED  BY <2>3, <2>4
  <1>9. \A a \in Accounts : balance'[a] >= 0
    BY DEF IInv, DbInv, BalancesCovered
  <1>10. Ledger!Exchange({s}, w.done)
    BY <1>6, <1>7, <1>8, <1>9 DEF Ledger!Exchange, SettledSwaps
  <1> HIDE DEF s, w
  <1>11. {s} \in SUBSET Swaps
    BY <1>2
  <1>12. QED  BY <1>4, <1>10, <1>11 DEF Ledger!Exchange

\* Every other step leaves the ledger as it is.
LEMMA OthersStutter ==
    ASSUME IInv, NeverUndoes, NEW t \in Threads, Step(t) \/ OnFailed(t), ~Commit(t)
    PROVE  UNCHANGED <<balance, SettledSwaps>>
  <1>1. ~CommitRollback(t)
    BY DEF CommitRollback, NeverUndoes
  <1>2. UNCHANGED <<balance, settled>>
    BY <1>1 DEF Step, OnFailed, StartJob, MarkProcessing, AttemptSettlement, LockFrom, Exchange,
           HandleThrow, UpdateRetrying, GiveUp, Abort, Rollback, FailUnsettled, CompleteJob,
           LockWaitFails, dbVars
  <1>3. QED  BY <1>2 DEF SettledSwaps

\* The settlement of separate swaps, if the process does not die, implements
\* the ledger: each swap is exchanged at most once, in one step for the debited
\* and the credited account, with no other effect and never from too low a
\* balance, however the handlers, retries and listeners interleave.
THEOREM LedgerImplemented ==
    ASSUME MaxCrashes = 0, \A t \in Threads : Kind[t] # "atomic"
    PROVE  Spec => ImplementsLedger
  <1>1. Init => Ledger!Init /\ NeverUndoes
    BY DEF Init, Ledger!Init, NeverUndoes
  <1>2. IInv /\ NeverUndoes /\ [Next]_vars => NeverUndoes'
    BY NextNeverUndoes
  <1>3. IInv /\ IInv' /\ LedgerInv /\ SettledThenFinal /\ NeverUndoes /\ [Next]_vars
           => [Ledger!Next]_<<balance, SettledSwaps>>
    <2> SUFFICES ASSUME IInv, IInv', LedgerInv, SettledThenFinal, NeverUndoes, [Next]_vars
                 PROVE  [Ledger!Next]_<<balance, SettledSwaps>>
      OBVIOUS
    <2>1. CASE UNCHANGED vars
      BY <2>1 DEF vars, SettledSwaps
    <2>2. ~Crash
      BY DEF Crash, IInv, TypeOK
    <2>3. CASE \E t \in Threads : Commit(t)
      BY <2>3, CommitExchanges DEF Ledger!Next
    <2>4. CASE \E t \in Threads : (Step(t) \/ OnFailed(t)) /\ ~Commit(t)
      BY <2>4, OthersStutter
    <2>5. QED  BY <2>1, <2>2, <2>3, <2>4 DEF Next
  <1>4. Spec => []LedgerInv /\ []SettledThenFinal
    BY InitLedger, NextLedger, InitSettles, NextSettles, Invariance, PTL DEF Spec
  <1>5. QED
    BY <1>1, <1>2, <1>3, <1>4, Invariance, PTL
       DEF Spec, ImplementsLedger, Ledger!Spec, SettledSwaps
=============================================================================
