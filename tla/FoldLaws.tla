-------------------------------- MODULE FoldLaws --------------------------------
(***************************************************************************)
(* Two laws of FoldLeft that no library has: what it is of no members, and *)
(* of one member more.  They hold for any operator, the parameter of this  *)
(* module, so that a module that folds with an operator of its own gets    *)
(* them by an instance.  With induction over sequences, they say what a    *)
(* fold computes.                                                          *)
(***************************************************************************)
EXTENDS Naturals, SequencesExt, FiniteSetTheorems, TLAPS

CONSTANT Op(_, _)

Fold(start, ls) == FoldLeft(Op, start, ls)

\* Every non-empty set of natural numbers has a least element: the segments 1..n are
\* finite sets, and strict inclusion between finite sets is well-founded.
LEMMA LeastNatural ==
    ASSUME NEW S \in SUBSET Nat, S # {}
    PROVE  \E n \in S : \A m \in S : n <= m
<1> DEFINE Segments == {1..n : n \in S}
<1>1. \A n \in S : IsFiniteSet(1..n)
  BY FS_Interval
<1>2. Segments \subseteq FiniteSubsetsOf(Nat) /\ Segments # {}
  <2>1. \A n \in S : 1..n \in FiniteSubsetsOf(Nat)
    BY <1>1 DEF FiniteSubsetsOf
  <2>2. QED
    BY <2>1
<1>3. PICK T \in Segments : \A U \in Segments : <<U, T>> \notin StrictSubsetOrdering(Nat)
  <2> HIDE DEF Segments
  <2>1. IsWellFoundedOn(StrictSubsetOrdering(Nat), FiniteSubsetsOf(Nat))
    BY FS_StrictSubsetOrderingWellFounded
  <2>2. QED
    BY <1>2, <2>1, WFMin
<1>4. PICK n \in S : T = 1..n
  BY <1>3
<1>5. ASSUME NEW m \in S, m < n
      PROVE  FALSE
  <2>1. 1..m \in Segments
    OBVIOUS
  <2>2. 1..m \subseteq 1..n
    BY <1>5
  <2>3. n \in 1..n /\ n \notin 1..m
    BY <1>5
  <2>4. <<1..m, 1..n>> \in StrictSubsetOrdering(Nat)
    BY <2>2, <2>3 DEF StrictSubsetOrdering
  <2>5. QED
    BY <1>3, <1>4, <2>1, <2>4
<1>6. QED
  BY <1>5

\* Induction over sequences: what holds of the empty sequence and of any sequence with
\* one member more than one of which it holds, holds of all.  P is a set, since TLAPS
\* does not instantiate a parameter that is a predicate.
THEOREM EverySequence ==
  ASSUME NEW S, NEW P, <<>> \in P,
         \A ls \in Seq(S) : ls \in P => \A l \in S : Append(ls, l) \in P
  PROVE  \A ls \in Seq(S) : ls \in P
  <1> DEFINE lengths == {Len(ls) : ls \in {ms \in Seq(S) : ms \notin P}}
  <1>1. SUFFICES ASSUME lengths # {} PROVE FALSE
    OBVIOUS
  <1>2. PICK n \in lengths : \A m \in lengths : n <= m
    <2>1. lengths \in SUBSET Nat
      OBVIOUS
    <2> HIDE DEF lengths
    <2> QED
      BY <1>1, <2>1, LeastNatural
  <1>3. PICK ls \in Seq(S) : ls \notin P /\ n = Len(ls)
    BY <1>2
  <1>4. n \in Nat /\ n # 0 /\ \A i \in 1..n : ls[i] \in S
    <2>1. n = 0 => ls = <<>>
      BY <1>3
    <2> QED
      BY <1>3, <2>1
  <1> DEFINE front == [i \in 1..n - 1 |-> ls[i]]
  <1>5. front \in Seq(S) /\ Len(front) = n - 1 /\ ls[n] \in S /\ Append(front, ls[n]) = ls
    <2>1. n - 1 \in Nat /\ front \in [1..n - 1 -> S] /\ ls[n] \in S
      BY <1>4
    <2>2. front \in Seq(S) /\ Len(front) = n - 1
      BY <2>1
    <2>3. Append(front, ls[n]) = ls
      <3>1. /\ DOMAIN Append(front, ls[n]) = 1..n
            /\ \A i \in 1..n : Append(front, ls[n])[i] = ls[i]
        BY <1>4, <2>1, <2>2
      <3>2. Append(front, ls[n]) \in Seq(S)
        BY <2>1, <2>2
      <3> QED
        BY <1>3, <3>1, <3>2
    <2> QED
      BY <2>1, <2>2, <2>3
  <1>6. front \notin P
    BY <1>3, <1>5
  <1>7. n - 1 \in lengths
    BY <1>5, <1>6
  <1> HIDE DEF lengths
  <1> QED
    BY <1>2, <1>4, <1>7

\* What FoldLeft's recursive function is, over the first n members of a sequence.
Folds(it, start, ls, n) ==
  it = [s \in SUBSET (1..n) |-> IF s = {} THEN start
                                ELSE Op(it[s \ {Max(s)}], ls[Max(s)])]

\* The last of the first numbers.
LEMMA LastIsMax ==
  ASSUME NEW n \in Nat, NEW s \in SUBSET (1..n + 1), n + 1 \in s
  PROVE  Max(s) = n + 1 /\ s \ {Max(s)} \subseteq 1..n
  <1>1. \A y \in s : n + 1 >= y
    OBVIOUS
  <1>2. \A m \in s : (\A y \in s : m >= y) => m = n + 1
    OBVIOUS
  <1>3. Max(s) = n + 1
    BY <1>1, <1>2 DEF Max
  <1> QED
    BY <1>3

\* A function with that equation exists.
LEMMA FoldsExists ==
  ASSUME NEW start, NEW ls, NEW n \in Nat
  PROVE  \E it : Folds(it, start, ls, n)
  <1> DEFINE Missing == {m \in Nat : ~\E it : Folds(it, start, ls, m)}
  <1>1. SUFFICES ASSUME Missing # {} PROVE FALSE
    OBVIOUS
  <1>2. PICK m \in Missing : \A k \in Missing : m <= k
    BY <1>1, LeastNatural
  <1>3. m # 0
    <2> DEFINE it == [s \in SUBSET (1..0) |-> start]
    <2>1. Folds(it, start, ls, 0)
      <3>1. SUBSET (1..0) = {{}}
        OBVIOUS
      <3> QED
        BY <3>1 DEF Folds
    <2> QED
      BY <2>1
  <1>4. m - 1 \in Nat /\ m - 1 \notin Missing
    BY <1>2, <1>3
  <1>5. PICK it : Folds(it, start, ls, m - 1)
    BY <1>4
  <1> DEFINE more == [s \in SUBSET (1..m) |->
                        IF m \in s THEN Op(it[s \ {m}], ls[m]) ELSE it[s]]
  <1>6. Folds(more, start, ls, m)
    <2>1. ASSUME NEW s \in SUBSET (1..m)
          PROVE  more[s] = IF s = {} THEN start
                           ELSE Op(more[s \ {Max(s)}], ls[Max(s)])
      <3>1. CASE m \in s
        <4>1. Max(s) = m /\ s \ {m} \in SUBSET (1..m - 1) /\ m \notin s \ {m}
          BY <1>4, <3>1, LastIsMax
        <4>2. s \ {m} \in SUBSET (1..m)
          OBVIOUS
        <4> QED
          BY <3>1, <4>1, <4>2
      <3>2. CASE m \notin s
        <4>1. s \in SUBSET (1..m - 1)
          BY <3>2
        <4>2. more[s] = it[s]
          BY <3>2
        <4>3. CASE s = {}
          BY <1>5, <4>1, <4>2, <4>3 DEF Folds
        <4>4. CASE s # {}
          <5>1. it[s] = Op(it[s \ {Max(s)}], ls[Max(s)])
            BY <1>5, <4>1, <4>4 DEF Folds
          <5>2. s \ {Max(s)} \in SUBSET (1..m) /\ m \notin s \ {Max(s)}
            BY <3>2
          <5>3. more[s \ {Max(s)}] = it[s \ {Max(s)}]
            BY <5>2
          <5> QED
            BY <4>2, <4>4, <5>1, <5>3
        <4> QED
          BY <4>3, <4>4
      <3> QED
        BY <3>1, <3>2
    <2> QED
      BY <2>1, Zenon DEF Folds
  <1> QED
    BY <1>2, <1>6

\* Two such functions agree where both are defined, if the members are the same there.
LEMMA FoldsAgree ==
  ASSUME NEW start, NEW ls, NEW ms, NEW n \in Nat, NEW k \in Nat, k <= n,
         \A i \in 1..k : ls[i] = ms[i],
         NEW it, Folds(it, start, ls, n), NEW other, Folds(other, start, ms, k)
  PROVE  it[1..k] = other[1..k]
  <1> DEFINE Differ == {m \in 0..k : it[1..m] # other[1..m]}
  <1>1. SUFFICES ASSUME Differ # {} PROVE FALSE
    OBVIOUS
  <1>2. PICK m \in Differ : \A j \in Differ : m <= j
    <2>1. Differ \in SUBSET Nat
      OBVIOUS
    <2> HIDE DEF Differ
    <2> QED
      BY <1>1, <2>1, LeastNatural
  <1>3. 1..m \in SUBSET (1..n) /\ 1..m \in SUBSET (1..k) /\ m \in 0..k
    OBVIOUS
  <1>4. m # 0
    <2>1. 1..0 = {}
      OBVIOUS
    <2>2. it[{}] = start /\ other[{}] = start
      BY DEF Folds
    <2> QED
      BY <2>1, <2>2, <1>2
  <1>5. m - 1 \in 0..k /\ it[1..m - 1] = other[1..m - 1] /\ m \in 1..k
    BY <1>2, <1>3, <1>4
  <1>6. Max(1..m) = m /\ (1..m) \ {m} = 1..m - 1 /\ 1..m # {}
    <2>1. m - 1 \in Nat /\ (m - 1) + 1 = m
      BY <1>5
    <2>2. 1..m \in SUBSET (1..(m - 1) + 1) /\ (m - 1) + 1 \in 1..m
      BY <2>1, <1>5
    <2>3. Max(1..m) = (m - 1) + 1
      BY <2>1, <2>2, LastIsMax
    <2>4. m \in Nat \ {0}
      BY <1>5
    <2>5. (1..m) \ {m} = 1..m - 1 /\ 1..m # {}
      BY <2>4
    <2> QED
      BY <2>1, <2>3, <2>5
  <1>7. it[1..m] = Op(it[1..m - 1], ls[m])
    <2>1. it[1..m] = Op(it[(1..m) \ {Max(1..m)}], ls[Max(1..m)])
      BY <1>3, <1>6 DEF Folds
    <2> QED
      BY <2>1, <1>6
  <1>8. other[1..m] = Op(other[1..m - 1], ms[m])
    BY <1>3, <1>6 DEF Folds
  <1> QED
    BY <1>2, <1>5, <1>7, <1>8

\* No members: the start.
THEOREM FoldNone == ASSUME NEW start PROVE Fold(start, <<>>) = start
  <1> DEFINE before == CHOOSE it : Folds(it, start, <<>>, 0)
  <1>1. DOMAIN <<>> = 1..0 /\ 1..0 = {}
    OBVIOUS
  <1>2. Fold(start, <<>>) = before[1..0]
    BY <1>1, Zenon DEF Fold, FoldLeft, MapThenFoldSet, Folds
  <1>3. Folds(before, start, <<>>, 0)
    BY FoldsExists, Zenon
  <1> QED
    BY <1>1, <1>2, <1>3 DEF Folds

\* One member more: a step more.
THEOREM FoldOn ==
  ASSUME NEW start, NEW S, NEW ls \in Seq(S), NEW l \in S
  PROVE  Fold(start, Append(ls, l)) = Op(Fold(start, ls), l)
  <1> DEFINE n == Len(ls)
             ms == Append(ls, l)
             before == CHOOSE it : Folds(it, start, ls, n)
             after == CHOOSE it : Folds(it, start, ms, n + 1)
  <1>1. n \in Nat /\ DOMAIN ls = 1..n /\ DOMAIN ms = 1..n + 1 /\ ms[n + 1] = l
        /\ \A i \in 1..n : ms[i] = ls[i]
    OBVIOUS
  <1>2. Fold(start, ls) = before[1..n]
    BY <1>1, Zenon DEF Fold, FoldLeft, MapThenFoldSet, Folds
  <1>3. Fold(start, ms) = after[1..n + 1]
    BY <1>1, Zenon DEF Fold, FoldLeft, MapThenFoldSet, Folds
  <1>4. Folds(before, start, ls, n) /\ Folds(after, start, ms, n + 1)
    <2>1. n + 1 \in Nat
      BY <1>1
    <2>2. \E it : Folds(it, start, ls, n)
      BY <1>1, FoldsExists
    <2>3. \E it : Folds(it, start, ms, n + 1)
      BY <2>1, FoldsExists
    <2> HIDE DEF ms, n
    <2> QED
      BY <2>2, <2>3, Zenon
  <1> HIDE DEF before, after, ms, n
  <1>5. after[1..n] = before[1..n]
    BY <1>1, <1>4, FoldsAgree
  <1>6. Max(1..n + 1) = n + 1 /\ (1..n + 1) \ {n + 1} = 1..n /\ 1..n + 1 # {}
    <2>1. 1..n + 1 \in SUBSET (1..n + 1) /\ n + 1 \in 1..n + 1
          /\ (1..n + 1) \ {n + 1} = 1..n /\ 1..n + 1 # {}
      BY <1>1
    <2>2. Max(1..n + 1) = n + 1
      BY <1>1, <2>1, LastIsMax
    <2> QED
      BY <2>1, <2>2
  <1>7. after[1..n + 1] = Op(after[1..n], ms[n + 1])
    <2>1. 1..n + 1 \in SUBSET (1..n + 1)
      OBVIOUS
    <2>2. after[1..n + 1] = Op(after[(1..n + 1) \ {Max(1..n + 1)}], ms[Max(1..n + 1)])
      BY <1>4, <1>6, <2>1 DEF Folds
    <2> QED
      BY <1>6, <2>2
  <1> QED
    BY <1>1, <1>2, <1>3, <1>5, <1>7 DEF ms
================================================================================
