--------------------------- MODULE OperatorLemmas ---------------------------
(***************************************************************************)
(* What the community modules' operators on finite sets compute, for the   *)
(* proofs that sum or pick a least number.  SumFunctionOnSet is defined by *)
(* the CHOOSE of a table; that there is one, and what it holds, follows    *)
(* from the well-foundedness of the strict subset ordering, by taking a    *)
(* smallest counterexample.                                                *)
(***************************************************************************)
EXTENDS Integers, SequencesExt, FiniteSetTheorems, SequenceTheorems, WellFoundedInduction, TLAPS

\* A set of natural numbers that is not empty has a least element.
LEMMA LeastNatural ==
    ASSUME NEW S \in SUBSET Nat, S # {}
    PROVE  \E x \in S : \A y \in S : x <= y
<1>1. PICK x \in S : \A y \in S : ~(<<y, x>> \in OpToRel(<, Nat))
  BY NatLessThanWellFounded, WFMin
<1>2. \A y \in S : ~(y < x) BY <1>1 DEF OpToRel
<1> QED BY <1>2

\* One that is bounded has a greatest element.
LEMMA GreatestNatural ==
    ASSUME NEW S \in SUBSET Nat, S # {}, NEW b \in Nat, \A y \in S : y <= b
    PROVE  \E x \in S : \A y \in S : x >= y
<1> DEFINE Bounds == {n \in Nat : \A y \in S : y <= n}
<1>1. b \in Bounds OBVIOUS
<1>2. PICK n \in Bounds : \A k \in Bounds : n <= k
  <2> HIDE DEF Bounds
  <2>1. Bounds \in SUBSET Nat BY DEF Bounds
  <2> QED BY <1>1, <2>1, LeastNatural
<1>3. ASSUME n \notin S PROVE FALSE
  <2>1. PICK x \in S : TRUE OBVIOUS
  <2>2. \A y \in S : y < n BY <1>2, <1>3
  <2>3. n - 1 \in Bounds BY <2>1, <2>2
  <2> QED BY <1>2, <2>3
<1> QED BY <1>2, <1>3

\* What removing one element leaves of a sequence: the others, in their order.
LEMMA RemoveAtLemma ==
    ASSUME NEW S, NEW seq \in Seq(S), NEW i \in 1..Len(seq)
    PROVE  /\ RemoveAt(seq, i) \in Seq(S)
           /\ Len(RemoveAt(seq, i)) = Len(seq) - 1
           /\ \A j \in 1..(Len(seq) - 1) :
                 RemoveAt(seq, i)[j] = IF j < i THEN seq[j] ELSE seq[j + 1]
  <1>1. /\ SubSeq(seq, 1, i-1) \in Seq(S)
        /\ Len(SubSeq(seq, 1, i-1)) = i - 1
        /\ \A j \in 1..(i-1) : SubSeq(seq, 1, i-1)[j] = seq[j]
    <2>1. \A j \in 1..(i-1) : seq[j] \in S
      OBVIOUS
    <2>2. QED  BY <2>1, SubSeqProperties
  <1>2. /\ SubSeq(seq, i+1, Len(seq)) \in Seq(S)
        /\ Len(SubSeq(seq, i+1, Len(seq))) = Len(seq) - i
        /\ \A j \in 1..(Len(seq) - i) : SubSeq(seq, i+1, Len(seq))[j] = seq[i+j]
    <2>1. \A j \in (i+1)..Len(seq) : seq[j] \in S
      OBVIOUS
    <2>2. QED  BY <2>1, SubSeqProperties
  <1> DEFINE front == SubSeq(seq, 1, i-1)
             back  == SubSeq(seq, i+1, Len(seq))
  <1>3. /\ front \o back \in Seq(S)
        /\ Len(front \o back) = (i - 1) + (Len(seq) - i)
        /\ \A j \in 1..(Len(seq) - 1) :
              (front \o back)[j] = IF j <= i - 1 THEN front[j] ELSE back[j - (i - 1)]
    <2> HIDE DEF front, back
    <2>1. front \in Seq(S) /\ back \in Seq(S) /\ Len(front) = i - 1 /\ Len(back) = Len(seq) - i
      BY <1>1, <1>2 DEF front, back
    <2>2. /\ front \o back \in Seq(S)
          /\ Len(front \o back) = Len(front) + Len(back)
          /\ \A j \in 1..(Len(front) + Len(back)) :
                (front \o back)[j] = IF j <= Len(front) THEN front[j] ELSE back[j - Len(front)]
      BY <2>1, ConcatProperties
    <2>3. Len(seq) \in Nat
      OBVIOUS
    <2>4. Len(front) + Len(back) = Len(seq) - 1
      BY <2>1, <2>3
    <2>5. QED  BY <2>1, <2>2, <2>4
  <1>4. RemoveAt(seq, i) = front \o back
    BY DEF RemoveAt
  <1>5. \A j \in 1..(Len(seq) - 1) :
           (front \o back)[j] = IF j < i THEN seq[j] ELSE seq[j + 1]
    <2> HIDE DEF front, back
    <2> SUFFICES ASSUME NEW j \in 1..(Len(seq) - 1)
                 PROVE  (front \o back)[j] = IF j < i THEN seq[j] ELSE seq[j + 1]
      OBVIOUS
    <2>1. CASE j < i
      BY <1>1, <1>3, <2>1 DEF front
    <2>2. CASE ~(j < i)
      <3>1. j - (i - 1) \in 1..(Len(seq) - i)
        BY <2>2
      <3>2. back[j - (i - 1)] = seq[i + (j - (i - 1))]
        BY <1>2, <3>1 DEF back
      <3>3. QED  BY <1>3, <2>2, <3>2
    <2>3. QED  BY <2>1, <2>2
  <1>6. QED
    <2> HIDE DEF front, back
    <2>1. QED  BY <1>3, <1>4, <1>5

-----------------------------------------------------------------------------
(* Sums *)

\* The element a sum takes next from the set s.
Least(s) == CHOOSE x \in s : TRUE

\* h is a table of the sums of f over the subsets of T.
SumTable(h, f, T) ==
    h = [s \in SUBSET T |-> IF s = {} THEN 0 ELSE f[Least(s)] + h[s \ {Least(s)}]]

\* A non-empty family B of subsets of a finite set has a member of which no
\* proper subset is in B.
LEMMA MinimalSubset ==
    ASSUME NEW S, IsFiniteSet(S), NEW B \in SUBSET (SUBSET S), B # {}
    PROVE  \E m \in B : \A u \in B : ~(u \subseteq m /\ u # m)
<1>1. IsWellFoundedOn(StrictSubsetOrdering(S), FiniteSubsetsOf(S))
  BY FS_StrictSubsetOrderingWellFounded
<1>2. B \subseteq FiniteSubsetsOf(S)
  BY FS_Subset DEF FiniteSubsetsOf
<1>3. PICK m \in B : \A u \in B : ~(<<u, m>> \in StrictSubsetOrdering(S))
  BY <1>1, <1>2, WFMin
<1>4. ASSUME NEW u \in B, u \subseteq m, u # m PROVE FALSE
  <2>1. <<u, m>> \in (SUBSET S) \X (SUBSET S) OBVIOUS
  <2> QED BY <2>1, <1>3, <1>4 DEF StrictSubsetOrdering
<1> QED BY <1>3, <1>4

\* Two tables agree where both are defined.
LEMMA TablesAgree ==
    ASSUME NEW f, NEW g, NEW h, NEW A, NEW B, SumTable(g, f, A), SumTable(h, f, B),
           NEW S, IsFiniteSet(S), S \subseteq A, S \subseteq B
    PROVE  g[S] = h[S]
<1> DEFINE Bad == {u \in SUBSET S : g[u] # h[u]}
<1> SUFFICES ASSUME g[S] # h[S] PROVE FALSE OBVIOUS
<1>1. PICK m \in Bad : \A u \in Bad : ~(u \subseteq m /\ u # m)
  <2>1. S \in Bad OBVIOUS
  <2> HIDE DEF Bad
  <2>2. Bad # {} BY <2>1
  <2>3. Bad \in SUBSET (SUBSET S) BY DEF Bad
  <2> QED BY <2>2, <2>3, MinimalSubset
<1>2. g[m] = IF m = {} THEN 0 ELSE f[Least(m)] + g[m \ {Least(m)}]
  BY DEF SumTable
<1>3. h[m] = IF m = {} THEN 0 ELSE f[Least(m)] + h[m \ {Least(m)}]
  BY DEF SumTable
<1>4. m # {} BY <1>2, <1>3
<1>5. Least(m) \in m BY <1>4 DEF Least
<1>6. m \ {Least(m)} \notin Bad BY <1>1, <1>5
<1>7. g[m \ {Least(m)}] = h[m \ {Least(m)}] BY <1>6
<1> QED BY <1>2, <1>3, <1>4, <1>7

\* A finite set has a table.
LEMMA TableExists ==
    ASSUME NEW f, NEW T, IsFiniteSet(T)
    PROVE  \E h : SumTable(h, f, T)
<1> DEFINE Bad == {u \in SUBSET T : ~\E h : SumTable(h, f, u)}
<1> SUFFICES ASSUME ~\E h : SumTable(h, f, T) PROVE FALSE OBVIOUS
<1>1. PICK m \in Bad : \A u \in Bad : ~(u \subseteq m /\ u # m)
  <2>1. T \in Bad OBVIOUS
  <2> HIDE DEF Bad
  <2>2. Bad # {} BY <2>1
  <2>3. Bad \in SUBSET (SUBSET T) BY DEF Bad
  <2> QED BY <2>2, <2>3, MinimalSubset
<1> DEFINE Table(u) == CHOOSE h : SumTable(h, f, u)
           Rest(s) == s \ {Least(s)}
           H == [s \in SUBSET m |-> IF s = {} THEN 0 ELSE f[Least(s)] + Table(Rest(s))[Rest(s)]]
<1>2. \A u \in SUBSET m : u # m => SumTable(Table(u), f, u)
  BY <1>1
<1>3. \A s \in SUBSET m : s # {} => Rest(s) \in SUBSET m /\ Rest(s) # m
  BY DEF Least
<1>4. ASSUME NEW u \in SUBSET m, u # m PROVE H[u] = Table(u)[u]
  <2> HIDE DEF Table
  <2>1. SumTable(Table(u), f, u) BY <1>2, <1>4
  <2>2. Table(u)[u] = IF u = {} THEN 0 ELSE f[Least(u)] + Table(u)[Rest(u)]
    BY <2>1 DEF SumTable
  <2>3. ASSUME u # {} PROVE Table(Rest(u))[Rest(u)] = Table(u)[Rest(u)]
    <3>1. SumTable(Table(Rest(u)), f, Rest(u)) BY <2>3, <1>2, <1>3
    <3>2. IsFiniteSet(Rest(u)) BY FS_Subset
    <3> QED BY <3>1, <3>2, <2>1, TablesAgree
  <2> QED BY <2>2, <2>3
<1>5. H = [s \in SUBSET m |-> IF s = {} THEN 0 ELSE f[Least(s)] + H[Rest(s)]]
  <2> HIDE DEF Table, Rest
  <2> QED BY <1>3, <1>4
<1>6. SumTable(H, f, m) BY <1>5 DEF SumTable
<1> QED BY <1>6, <1>1

-----------------------------------------------------------------------------
\* What a sum takes first, and the rest of it.
LEMMA SumStep ==
    ASSUME NEW f, NEW S, IsFiniteSet(S)
    PROVE  SumFunctionOnSet(f, S) =
             IF S = {} THEN 0 ELSE f[Least(S)] + SumFunctionOnSet(f, S \ {Least(S)})
<1> DEFINE H(T) == CHOOSE h : SumTable(h, f, T)
           Rest == S \ {Least(S)}
<1>1. \A T : IsFiniteSet(T) => SumTable(H(T), f, T) /\ SumFunctionOnSet(f, T) = H(T)[T]
  <2> SUFFICES ASSUME NEW T, IsFiniteSet(T)
               PROVE  SumTable(H(T), f, T) /\ SumFunctionOnSet(f, T) = H(T)[T] OBVIOUS
  <2>1. SumTable(H(T), f, T) BY TableExists
  <2>2. SumFunctionOnSet(f, T) = H(T)[T]
    BY DEF SumFunctionOnSet, FoldFunctionOnSet, MapThenFoldSet, SumTable, Least
  <2> QED BY <2>1, <2>2
<1>2. IsFiniteSet(Rest) BY FS_Subset
<1> HIDE DEF H
<1>3. H(S)[S] = IF S = {} THEN 0 ELSE f[Least(S)] + H(S)[Rest]
  BY <1>1 DEF SumTable
<1>4. H(S)[Rest] = H(Rest)[Rest]
  <2> HIDE DEF Rest
  <2>1. Rest \subseteq S BY DEF Rest
  <2> QED BY <2>1, <1>1, <1>2, TablesAgree
<1> QED BY <1>1, <1>2, <1>3, <1>4

LEMMA SumEmpty == \A f : SumFunctionOnSet(f, {}) = 0
BY SumStep, FS_EmptySet

\* The sum of integers is an integer.
LEMMA SumInt ==
    ASSUME NEW f, NEW S, IsFiniteSet(S), \A x \in S : f[x] \in Int
    PROVE  SumFunctionOnSet(f, S) \in Int
<1> DEFINE Bad == {u \in SUBSET S : SumFunctionOnSet(f, u) \notin Int}
<1> SUFFICES ASSUME SumFunctionOnSet(f, S) \notin Int PROVE FALSE OBVIOUS
<1>1. PICK m \in Bad : \A u \in Bad : ~(u \subseteq m /\ u # m)
  <2>1. S \in Bad OBVIOUS
  <2> HIDE DEF Bad
  <2>2. Bad # {} BY <2>1
  <2>3. Bad \in SUBSET (SUBSET S) BY DEF Bad
  <2> QED BY <2>2, <2>3, MinimalSubset
<1>2. IsFiniteSet(m) BY FS_Subset
<1>3. m # {} BY SumEmpty
<1>4. Least(m) \in m BY <1>3 DEF Least
<1>5. SumFunctionOnSet(f, m \ {Least(m)}) \in Int BY <1>1, <1>4
<1> QED BY <1>2, <1>3, <1>4, <1>5, SumStep

\* Any element may be taken out of a sum.
LEMMA SumRemove ==
    ASSUME NEW f, NEW S, IsFiniteSet(S), \A x \in S : f[x] \in Int, NEW a \in S
    PROVE  SumFunctionOnSet(f, S) = f[a] + SumFunctionOnSet(f, S \ {a})
<1> DEFINE Holds(u, x) == SumFunctionOnSet(f, u) = f[x] + SumFunctionOnSet(f, u \ {x})
           Bad == {u \in SUBSET S : ~\A x \in u : Holds(u, x)}
<1> SUFFICES ASSUME ~Holds(S, a) PROVE FALSE OBVIOUS
<1>1. PICK m \in Bad : \A u \in Bad : ~(u \subseteq m /\ u # m)
  <2>1. S \in Bad OBVIOUS
  <2> HIDE DEF Bad
  <2>2. Bad # {} BY <2>1
  <2>3. Bad \in SUBSET (SUBSET S) BY DEF Bad
  <2> QED BY <2>2, <2>3, MinimalSubset
<1>2. PICK x \in m : ~Holds(m, x) OBVIOUS
<1> DEFINE y == Least(m)
<1>3. y \in m BY DEF Least
<1>4. \A u \in SUBSET S : IsFiniteSet(u) /\ SumFunctionOnSet(f, u) \in Int
  <2> SUFFICES ASSUME NEW u \in SUBSET S
               PROVE  IsFiniteSet(u) /\ SumFunctionOnSet(f, u) \in Int OBVIOUS
  <2>1. IsFiniteSet(u) BY FS_Subset
  <2> QED BY <2>1, SumInt
<1>5. Holds(m, y) BY <1>3, <1>4, SumStep
<1>6. x # y BY <1>2, <1>5
<1>7. Holds(m \ {y}, x)
  <2>1. m \ {y} \notin Bad BY <1>1, <1>3
  <2> QED BY <2>1, <1>6
<1>8. Holds(m \ {x}, y)
  <2>1. m \ {x} \notin Bad BY <1>1, <1>2
  <2> QED BY <2>1, <1>3, <1>6
<1>9. SumFunctionOnSet(f, (m \ {y}) \ {x}) = SumFunctionOnSet(f, (m \ {x}) \ {y})
  <2>1. (m \ {y}) \ {x} = (m \ {x}) \ {y} OBVIOUS
  <2> QED BY <2>1
<1>10. f[x] \in Int /\ f[y] \in Int BY <1>3
<1>11. /\ SumFunctionOnSet(f, m) \in Int /\ SumFunctionOnSet(f, m \ {x}) \in Int
       /\ SumFunctionOnSet(f, m \ {y}) \in Int
       /\ SumFunctionOnSet(f, (m \ {x}) \ {y}) \in Int
  <2>1. m \in SUBSET S /\ m \ {x} \in SUBSET S /\ m \ {y} \in SUBSET S
        /\ (m \ {x}) \ {y} \in SUBSET S OBVIOUS
  <2> HIDE DEF Bad, Holds, y
  <2> QED BY <2>1, <1>4
<1>12. SumFunctionOnSet(f, m) = f[x] + SumFunctionOnSet(f, m \ {x})
  <2> DEFINE all == SumFunctionOnSet(f, m)      noX == SumFunctionOnSet(f, m \ {x})
             noY == SumFunctionOnSet(f, m \ {y}) neither == SumFunctionOnSet(f, (m \ {x}) \ {y})
  <2>1. all = f[y] + noY BY <1>5
  <2>2. noY = f[x] + neither BY <1>7, <1>9
  <2>3. noX = f[y] + neither BY <1>8
  <2>4. all \in Int /\ noX \in Int /\ noY \in Int /\ neither \in Int BY <1>11
  <2> HIDE DEF all, noX, noY, neither, y, Bad
  <2>5. all = f[x] + noX BY <2>1, <2>2, <2>3, <2>4, <1>10
  <2> QED BY <2>5 DEF all, noX
<1> QED BY <1>2, <1>12

\* A sum depends on the values it adds only.
LEMMA SumSame ==
    ASSUME NEW f, NEW g, NEW S, IsFiniteSet(S), \A x \in S : f[x] = g[x]
    PROVE  SumFunctionOnSet(f, S) = SumFunctionOnSet(g, S)
<1> DEFINE Bad == {u \in SUBSET S : SumFunctionOnSet(f, u) # SumFunctionOnSet(g, u)}
<1> SUFFICES ASSUME SumFunctionOnSet(f, S) # SumFunctionOnSet(g, S) PROVE FALSE OBVIOUS
<1>1. PICK m \in Bad : \A u \in Bad : ~(u \subseteq m /\ u # m)
  <2>1. S \in Bad OBVIOUS
  <2> HIDE DEF Bad
  <2>2. Bad # {} BY <2>1
  <2>3. Bad \in SUBSET (SUBSET S) BY DEF Bad
  <2> QED BY <2>2, <2>3, MinimalSubset
<1>2. IsFiniteSet(m) BY FS_Subset
<1>3. m # {} BY SumEmpty
<1>4. Least(m) \in m BY <1>3 DEF Least
<1>5. SumFunctionOnSet(f, m \ {Least(m)}) = SumFunctionOnSet(g, m \ {Least(m)})
  BY <1>1, <1>4
<1>6. SumFunctionOnSet(f, m) = f[Least(m)] + SumFunctionOnSet(f, m \ {Least(m)})
  BY <1>2, <1>3, SumStep
<1>7. SumFunctionOnSet(g, m) = g[Least(m)] + SumFunctionOnSet(g, m \ {Least(m)})
  BY <1>2, <1>3, SumStep
<1>8. f[Least(m)] = g[Least(m)] BY <1>4
<1> QED BY <1>5, <1>6, <1>7, <1>8

\* The sum of two functions' sums is the sum of their pointwise sum.
LEMMA SumPlus ==
    ASSUME NEW f, NEW g, NEW h, NEW S, IsFiniteSet(S),
           \A x \in S : f[x] \in Int /\ g[x] \in Int /\ h[x] = f[x] + g[x]
    PROVE  SumFunctionOnSet(h, S) = SumFunctionOnSet(f, S) + SumFunctionOnSet(g, S)
<1> DEFINE Holds(u) == SumFunctionOnSet(h, u) = SumFunctionOnSet(f, u) + SumFunctionOnSet(g, u)
           Bad == {u \in SUBSET S : ~Holds(u)}
<1> SUFFICES ASSUME ~Holds(S) PROVE FALSE OBVIOUS
<1>1. PICK m \in Bad : \A u \in Bad : ~(u \subseteq m /\ u # m)
  <2>1. S \in Bad OBVIOUS
  <2> HIDE DEF Bad
  <2>2. Bad # {} BY <2>1
  <2>3. Bad \in SUBSET (SUBSET S) BY DEF Bad
  <2> QED BY <2>2, <2>3, MinimalSubset
<1>2. IsFiniteSet(m) BY FS_Subset
<1>3. m # {} BY SumEmpty
<1> DEFINE y == Least(m)
           r == m \ {y}
<1>4. y \in m BY <1>3 DEF Least
<1>5. Holds(r) BY <1>1, <1>4
<1>6. /\ SumFunctionOnSet(f, m) = f[y] + SumFunctionOnSet(f, r)
      /\ SumFunctionOnSet(g, m) = g[y] + SumFunctionOnSet(g, r)
      /\ SumFunctionOnSet(h, m) = h[y] + SumFunctionOnSet(h, r)
  BY <1>2, <1>3, SumStep
<1>7. SumFunctionOnSet(f, r) \in Int /\ SumFunctionOnSet(g, r) \in Int
  <2>1. IsFiniteSet(r) BY FS_Subset
  <2> QED BY <2>1, SumInt
<1>8. f[y] \in Int /\ g[y] \in Int /\ h[y] = f[y] + g[y] BY <1>4
<1> HIDE DEF y, r
<1> QED BY <1>5, <1>6, <1>7, <1>8

\* When one value changes, the sum changes by as much.
LEMMA SumChange ==
    ASSUME NEW f, NEW g, NEW S, IsFiniteSet(S), NEW a \in S,
           \A x \in S : f[x] \in Int /\ g[x] \in Int,
           \A x \in S \ {a} : g[x] = f[x]
    PROVE  SumFunctionOnSet(g, S) = SumFunctionOnSet(f, S) + g[a] - f[a]
<1>1. IsFiniteSet(S \ {a}) BY FS_Subset
<1>2. SumFunctionOnSet(f, S \ {a}) = SumFunctionOnSet(g, S \ {a}) BY <1>1, SumSame
<1>3. SumFunctionOnSet(f, S \ {a}) \in Int BY <1>1, SumInt
<1> QED BY <1>2, <1>3, SumRemove

\* Nothing adds up to nothing.
LEMMA SumZero ==
    ASSUME NEW f, NEW S, IsFiniteSet(S), \A x \in S : f[x] = 0
    PROVE  SumFunctionOnSet(f, S) = 0
<1>1. \A x \in S : f[x] \in Int /\ f[x] = f[x] + f[x] OBVIOUS
<1>2. SumFunctionOnSet(f, S) = SumFunctionOnSet(f, S) + SumFunctionOnSet(f, S)
  BY <1>1, SumPlus
<1>3. SumFunctionOnSet(f, S) \in Int BY <1>1, SumInt
<1>4. \A n \in Int : n = n + n => n = 0 OBVIOUS
<1> QED BY <1>2, <1>3, <1>4

\* A sum of one value and zeros.
LEMMA SumOnly ==
    ASSUME NEW f, NEW S, IsFiniteSet(S), NEW a \in S, f[a] \in Int,
           \A x \in S \ {a} : f[x] = 0
    PROVE  SumFunctionOnSet(f, S) = f[a]
<1>1. \A x \in S : f[x] \in Int OBVIOUS
<1>2. IsFiniteSet(S \ {a}) BY FS_Subset
<1>3. SumFunctionOnSet(f, S \ {a}) = 0 BY <1>2, SumZero
<1> QED BY <1>1, <1>3, SumRemove

\* What moves from one place to another leaves the sum alone.
LEMMA SumMove ==
    ASSUME NEW f, NEW g, NEW S, IsFiniteSet(S), NEW from \in S, NEW to \in S, NEW n \in Int,
           \A x \in S : f[x] \in Int,
           \A x \in S \ {from, to} : g[x] = f[x],
           from = to => g[from] = f[from],
           from # to => g[from] = f[from] - n /\ g[to] = f[to] + n
    PROVE  SumFunctionOnSet(g, S) = SumFunctionOnSet(f, S)
<1>1. CASE from = to
  <2>1. \A x \in S : g[x] = f[x] BY <1>1
  <2> QED BY <2>1, SumSame
<1>2. CASE from # to
  <2> DEFINE mid == [x \in S |-> IF x = from THEN f[x] - n ELSE f[x]]
  <2>1. mid[from] = f[from] - n /\ \A x \in S \ {from} : mid[x] = f[x] OBVIOUS
  <2>2. \A x \in S : mid[x] \in Int /\ g[x] \in Int BY <1>2
  <2>3. \A x \in S \ {to} : g[x] = mid[x] BY <1>2
  <2>4. mid[to] = f[to] /\ g[to] = f[to] + n BY <1>2
  <2> HIDE DEF mid
  <2>5. SumFunctionOnSet(mid, S) = SumFunctionOnSet(f, S) + mid[from] - f[from]
    BY <2>1, <2>2, SumChange
  <2>6. SumFunctionOnSet(g, S) = SumFunctionOnSet(mid, S) + g[to] - mid[to]
    BY <2>2, <2>3, SumChange
  <2>7. SumFunctionOnSet(f, S) \in Int BY SumInt
  <2>8. f[from] \in Int /\ f[to] \in Int OBVIOUS
  <2> QED BY <2>1, <2>4, <2>5, <2>6, <2>7, <2>8
<1> QED BY <1>1, <1>2

\* The sum of naturals is a natural.
LEMMA SumNat ==
    ASSUME NEW f, NEW S, IsFiniteSet(S), \A x \in S : f[x] \in Nat
    PROVE  SumFunctionOnSet(f, S) \in Nat
<1> DEFINE Bad == {u \in SUBSET S : SumFunctionOnSet(f, u) \notin Nat}
<1> SUFFICES ASSUME SumFunctionOnSet(f, S) \notin Nat PROVE FALSE OBVIOUS
<1>1. PICK m \in Bad : \A u \in Bad : ~(u \subseteq m /\ u # m)
  <2>1. S \in Bad OBVIOUS
  <2> HIDE DEF Bad
  <2>2. Bad # {} BY <2>1
  <2>3. Bad \in SUBSET (SUBSET S) BY DEF Bad
  <2> QED BY <2>2, <2>3, MinimalSubset
<1>2. IsFiniteSet(m) BY FS_Subset
<1>3. m # {} BY SumEmpty
<1>4. PICK x \in m : TRUE BY <1>3
<1>5. SumFunctionOnSet(f, m) = f[x] + SumFunctionOnSet(f, m \ {x}) BY <1>2, SumRemove
<1>6. SumFunctionOnSet(f, m \ {x}) \in Nat BY <1>1
<1>7. SumFunctionOnSet(f, m) \in Nat BY <1>5, <1>6
<1> QED BY <1>7

\* Two disjoint sets add up to their union.
LEMMA SumUnion ==
    ASSUME NEW f, NEW A, NEW B, IsFiniteSet(A), IsFiniteSet(B), A \cap B = {},
           \A x \in A \cup B : f[x] \in Int
    PROVE  SumFunctionOnSet(f, A \cup B) = SumFunctionOnSet(f, A) + SumFunctionOnSet(f, B)
<1> DEFINE Holds(u) == SumFunctionOnSet(f, A \cup u)
                         = SumFunctionOnSet(f, A) + SumFunctionOnSet(f, u)
           Bad == {u \in SUBSET B : ~Holds(u)}
<1> SUFFICES ASSUME ~Holds(B) PROVE FALSE OBVIOUS
<1>1. PICK m \in Bad : \A u \in Bad : ~(u \subseteq m /\ u # m)
  <2>1. B \in Bad OBVIOUS
  <2> HIDE DEF Bad
  <2>2. Bad # {} BY <2>1
  <2>3. Bad \in SUBSET (SUBSET B) BY DEF Bad
  <2> QED BY <2>2, <2>3, MinimalSubset
<1>2. m \subseteq B /\ IsFiniteSet(m) /\ IsFiniteSet(A \cup m) BY FS_Subset, FS_Union
<1>3. SumFunctionOnSet(f, A) \in Int BY SumInt
<1>4. m # {}
  <2>1. A \cup {} = A OBVIOUS
  <2>2. Holds({}) BY <1>3, <2>1, SumEmpty
  <2> QED BY <2>2
<1>5. PICK x \in m : TRUE BY <1>4
<1>6. SumFunctionOnSet(f, m) = f[x] + SumFunctionOnSet(f, m \ {x}) BY <1>2, SumRemove
<1>7. SumFunctionOnSet(f, A \cup m) = f[x] + SumFunctionOnSet(f, (A \cup m) \ {x})
  BY <1>2, SumRemove
<1>8. (A \cup m) \ {x} = A \cup (m \ {x}) BY <1>2
<1>9. Holds(m \ {x}) BY <1>1
<1>10. IsFiniteSet(m \ {x}) /\ \A y \in m \ {x} : f[y] \in Int BY <1>2, FS_Subset
<1>11. SumFunctionOnSet(f, m \ {x}) \in Int BY <1>10, SumInt
<1>12. f[x] \in Int BY <1>2
<1>13. SumFunctionOnSet(f, A \cup m)
         = f[x] + (SumFunctionOnSet(f, A) + SumFunctionOnSet(f, m \ {x}))
  <2>1. SumFunctionOnSet(f, A \cup m) = f[x] + SumFunctionOnSet(f, A \cup (m \ {x}))
    BY <1>7, <1>8
  <2> QED BY <1>9, <2>1
<1>14. \A i, j, k, l, r \in Int : i = j + (k + l) /\ r = j + l => i = k + r OBVIOUS
<1>15. SumFunctionOnSet(f, m) \in Int /\ SumFunctionOnSet(f, A \cup m) \in Int
  BY <1>3, <1>6, <1>11, <1>12, <1>13
<1> QED BY <1>3, <1>6, <1>11, <1>12, <1>13, <1>14, <1>15
=============================================================================
