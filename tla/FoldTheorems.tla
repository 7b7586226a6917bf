----------------------------- MODULE FoldTheorems -----------------------------
(***************************************************************************)
(* Induction over the lines of a sequence.  A fold over a sequence, as the *)
(* parsers and reducers of this code are modelled, is the last of a run of *)
(* values that starts somewhere and takes one element after the other; what*)
(* the steps preserve, UpTo carries to its end.  A module that uses it gives*)
(* Add, the operator it folds with, in an INSTANCE.                        *)
(***************************************************************************)
EXTENDS Integers, FiniteSets, SequencesExt, SequenceTheorems, WellFoundedInduction, TLAPS

CONSTANTS
    Add(_, _),  \* what a fold does with its value and an element
    Values,     \* the values it may have
    Elements    \* the elements of the sequences

\* A non-empty set of natural numbers has a least element.
LEMMA LeastNat ==
    ASSUME NEW T \in SUBSET Nat, T # {}
    PROVE  \E m \in T : \A k \in T : m <= k
<1>1. IsWellFoundedOn(OpToRel(<, Nat), Nat)
  BY NatLessThanWellFounded
<1>2. PICK m \in T : \A k \in T : ~(<<k, m>> \in OpToRel(<, Nat))
  BY <1>1, WFMin
<1>3. \A k \in T : ~(k < m)
  BY <1>2 DEF OpToRel
<1> QED BY <1>3

\* Induction on the numbers up to a bound, for a set of numbers.
LEMMA UpTo ==
    ASSUME NEW n \in Nat, NEW T \in SUBSET (0..n), 0 \in T,
           \A k \in 0..(n - 1) : k \in T => k + 1 \in T
    PROVE  T = 0..n
<1> SUFFICES ASSUME NEW j \in 0..n, j \notin T PROVE FALSE
  OBVIOUS
<1>1. PICK m \in (0..n) \ T : \A k \in (0..n) \ T : m <= k
  BY LeastNat, (0..n) \ T \in SUBSET Nat
<1>2. m # 0 /\ m - 1 \in 0..(n - 1)
  BY <1>1
<1>3. m - 1 \in T
  BY <1>1, <1>2
<1> QED BY <1>1, <1>2, <1>3

\* The greatest of a set whose elements go up to one of its own.
LEMMA MaxIs ==
    ASSUME NEW S \in SUBSET Nat, NEW m \in S, \A k \in S : k <= m
    PROVE  Max(S) = m
<1>1. Max(S) \in S /\ \A k \in S : Max(S) >= k
  BY DEF Max
<1>2. Max(S) \in Nat /\ m \in Nat
  BY <1>1
<1>3. Max(S) <= m /\ Max(S) >= m
  BY <1>1
<1> QED BY <1>2, <1>3

\* There is one when the set is bounded.
LEMMA MaxIn ==
    ASSUME NEW n \in Nat, NEW S \in SUBSET (1..n), S # {}
    PROVE  Max(S) \in S
<1> DEFINE T == {k \in Nat : \A j \in S : j <= k}
<1>1. T \in SUBSET Nat /\ n \in T
  OBVIOUS
<1>2. PICK m \in T : \A k \in T : m <= k
  <2> HIDE DEF T
  <2> QED BY <1>1, LeastNat
<1>3. m \in S
  <2> SUFFICES ASSUME m \notin S PROVE FALSE
    OBVIOUS
  <2>1. \A j \in S : j \in 1..n /\ j <= m /\ j # m
    BY <1>2
  <2>2. m - 1 \in Nat /\ \A j \in S : j <= m - 1
    <3>1. PICK j \in S : TRUE
      OBVIOUS
    <3>2. m \in Nat
      BY <1>2
    <3>3. j \in 1..n /\ j <= m
      BY <2>1
    <3>4. m - 1 \in Nat
      BY <3>2, <3>3
    <3>5. \A i \in S : i <= m - 1
      BY <2>1, <3>2
    <3> QED BY <3>4, <3>5
  <2> QED BY <2>2, <1>2
<1> QED BY <1>2, <1>3, MaxIs

\* f folds the steps over sets of positions, the greatest position last.
Folds(f, n, base, step) ==
    \A s \in SUBSET (1..n) :
        f[s] = IF s = {} THEN base ELSE step[Max(s)][f[s \ {Max(s)}]]

\* A fold over the positions of a sequence is a recursive function on sets of
\* positions: there is one.
LEMMA FoldExists ==
    ASSUME NEW n \in Nat, NEW St, NEW base \in St, NEW step \in [1..n -> [St -> St]]
    PROVE  \E f \in [SUBSET (1..n) -> St] : Folds(f, n, base, step)
<1> DEFINE Solves(k, f) == Folds(f, k, base, step)
           T == {k \in 0..n : \E f \in [SUBSET (1..k) -> St] : Solves(k, f)}
<1> USE DEF Folds
<1>1. 0 \in T
  <2> DEFINE f == [s \in SUBSET (1..0) |-> base]
  <2>1. SUBSET (1..0) = {{}}
    OBVIOUS
  <2>2. f \in [SUBSET (1..0) -> St] /\ Solves(0, f)
    <3>1. f \in [SUBSET (1..0) -> St]
      OBVIOUS
    <3>2. \A s \in SUBSET (1..0) : s = {} /\ f[s] = base
      BY <2>1
    <3> QED BY <3>1, <3>2
  <2> QED BY <2>2, 0 \in 0..n
<1>2. ASSUME NEW k \in 0..(n - 1), k \in T PROVE k + 1 \in T
  <2>1. PICK g \in [SUBSET (1..k) -> St] : Solves(k, g)
    BY <1>2
  <2> DEFINE m == k + 1
             f == [s \in SUBSET (1..m) |-> IF m \in s THEN step[m][g[s \ {m}]] ELSE g[s]]
  <2>2. \A s \in SUBSET (1..m) : s \ {m} \in SUBSET (1..k) /\ (m \notin s => s \in SUBSET (1..k))
    OBVIOUS
  <2>3. f \in [SUBSET (1..m) -> St]
    BY <2>2
  <2>4. ASSUME NEW s \in SUBSET (1..m)
        PROVE  f[s] = IF s = {} THEN base ELSE step[Max(s)][f[s \ {Max(s)}]]
    <3>1. CASE m \in s
      <4>1. Max(s) = m
        BY <3>1, MaxIs, s \in SUBSET Nat
      <4>2. f[s \ {m}] = g[s \ {m}]
        BY <2>2
      <4> QED BY <3>1, <4>1, <4>2
    <3>2. CASE m \notin s /\ s # {}
      <4>1. s \in SUBSET (1..k) /\ s \ {Max(s)} \in SUBSET (1..k) /\ s \ {Max(s)} \in SUBSET (1..m)
            /\ m \notin s \ {Max(s)}
        BY <2>2, <3>2
      <4>2. f[s \ {Max(s)}] = g[s \ {Max(s)}] /\ f[s] = g[s]
        BY <4>1, <3>2
      <4> QED BY <4>1, <4>2, <3>2, <2>1
    <3>3. CASE s = {}
      <4>1. f[s] = g[s] /\ s \in SUBSET (1..k)
        BY <3>3
      <4> QED BY <4>1, <3>3, <2>1
    <3> QED BY <3>1, <3>2, <3>3
  <2>5. Solves(m, f)
    BY <2>4
  <2> HIDE DEF f, Solves
  <2> QED BY <2>3, <2>5, m \in 0..n
<1>3. T = 0..n
  <2> HIDE DEF T
  <2> QED BY <1>1, <1>2, UpTo, T \in SUBSET (0..n) DEF T
<1>4. n \in T
  BY <1>3, n \in 0..n
<1> QED BY <1>4

\* The sets of positions a fold comes through are the prefixes.
LEMMA PrefixSets ==
    ASSUME NEW n \in Nat, NEW k \in 1..n
    PROVE  /\ 1..k \in SUBSET (1..n) /\ 1..k # {} /\ Max(1..k) = k
           /\ (1..k) \ {Max(1..k)} = 1..(k - 1)
<1>1. k \in 1..k /\ 1..k \in SUBSET (1..n) /\ 1..k \in SUBSET Nat
  OBVIOUS
<1>2. (1..k) \ {k} = 1..(k - 1)
  OBVIOUS
<1>3. Max(1..k) = k
  <2>1. \A i \in 1..k : i <= k
    OBVIOUS
  <2> HIDE DEF Max
  <2> QED BY <1>1, <2>1, MaxIs
<1>4. 1..k # {}
  BY <1>1
<1> QED BY <1>1, <1>2, <1>3, <1>4

\* The fold over a sequence.
Fold(start, d) == FoldLeft(Add, start, d)

\* A fold from the left is a run through the sequence: there are values
\* p[0], p[1], ... of which each follows from the one before and the element
\* at its position, and the last one is the value of the fold.
LEMMA FoldRuns ==
    ASSUME NEW start \in Values,
           \A s \in Values, e \in Elements : Add(s, e) \in Values,
           NEW d \in Seq(Elements)
    PROVE  \E p \in [0..Len(d) -> Values] :
              /\ p[0] = start
              /\ \A k \in 1..Len(d) : p[k] = Add(p[k - 1], d[k])
              /\ Fold(start, d) = p[Len(d)]
<1> DEFINE n == Len(d)
           step == [i \in 1..n |-> [x \in Values |-> Add(x, d[i])]]
           Solves(f) == f = [s \in SUBSET (1..n) |->
                                IF s = {} THEN start ELSE Add(f[s \ {Max(s)}], d[Max(s)])]
           iter == CHOOSE f : Solves(f)
           p == [k \in 0..n |-> iter[1..k]]
<1>1. n \in Nat /\ DOMAIN d = 1..n /\ \A i \in 1..n : d[i] \in Elements
  OBVIOUS
<1> HIDE DEF n
<1>2. Fold(start, d) = iter[1..n]
  BY <1>1 DEF Fold, FoldLeft, MapThenFoldSet
<1>3. \E f : Solves(f)
  <2>1. step \in [1..n -> [Values -> Values]]
    BY <1>1
  <2>2. PICK g \in [SUBSET (1..n) -> Values] : Folds(g, n, start, step)
    <3> HIDE DEF step
    <3> QED BY <1>1, <2>1, FoldExists
  <2>3. \A s \in SUBSET (1..n) : s # {} => Max(s) \in 1..n /\ s \ {Max(s)} \in SUBSET (1..n)
    BY <1>1, MaxIn
  <2> QED BY <2>2, <2>3, <1>1 DEF Folds
<1>4. Solves(iter)
  BY <1>3
<1> HIDE DEF iter
<1>5. p[0] = start /\ \A k \in 1..n : p[k] = Add(p[k - 1], d[k])
  <2>1. 1..0 = {} /\ {} \in SUBSET (1..n)
    OBVIOUS
  <2>2. \A k \in 1..n : iter[1..k] = Add(iter[1..(k - 1)], d[k])
    <3> TAKE k \in 1..n
    <3>1. /\ 1..k \in SUBSET (1..n) /\ 1..k # {} /\ Max(1..k) = k
          /\ (1..k) \ {Max(1..k)} = 1..(k - 1)
      BY <1>1, PrefixSets
    <3> QED BY <1>4, <3>1
  <2>3. iter[{}] = start
    BY <1>4, <2>1
  <2>4. \A k \in 1..n : k \in 0..n /\ k - 1 \in 0..n
    BY <1>1
  <2> QED BY <1>1, <2>1, <2>2, <2>3, <2>4
<1> HIDE DEF p
<1>6. \A k \in 0..n : p[k] \in Values
  <2> DEFINE T == {k \in 0..n : p[k] \in Values}
  <2>1. 0 \in T /\ \A k \in 0..(n - 1) : k \in T => k + 1 \in T
    BY <1>1, <1>5
  <2>2. T = 0..n
    <3> HIDE DEF T
    <3> QED BY <1>1, <2>1, UpTo, T \in SUBSET (0..n) DEF T
  <2> QED BY <2>2
<1>7. p \in [0..n -> Values]
  BY <1>6 DEF p
<1>8. Fold(start, d) = p[n]
  BY <1>1, <1>2 DEF p
<1> QED BY <1>5, <1>7, <1>8 DEF n
=============================================================================
