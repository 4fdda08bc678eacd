---------------------------- MODULE FoldTheorems ----------------------------
(***************************************************************************)
(* What FoldLeft computes, for one operator Step that a user of this       *)
(* module gives with INSTANCE: the value of the empty sequence and of a    *)
(* sequence with one element more.  Step has a parameter besides the       *)
(* accumulator and the element, for folds inside a definition that has     *)
(* arguments.                                                              *)
(***************************************************************************)
EXTENDS Integers, SequencesExt, WellFoundedInduction, SequenceTheorems, TLAPS

CONSTANT Step(_, _, _)   \* parameter, accumulator, element -> accumulator

-----------------------------------------------------------------------------
(* Induction over naturals and sequences, stated for the members of a set,     *)
(* which first-order provers can instantiate, where the library's theorems     *)
(* have a predicate as parameter.                                              *)

\* A set of naturals that is not empty has a least element.
LEMMA LeastNatural ==
  ASSUME NEW T \in SUBSET Nat, T # {}
  PROVE  \E n \in T : \A m \in T : n <= m
<1> DEFINE R == {ss \in Nat \X Nat : ss[1] < ss[2]}
<1>1. IsWellFoundedOn(R, Nat)
  BY NatLessThanWellFounded DEF OpToRel
<1>2. \E n \in T : \A m \in T : ~(<<m, n>> \in R)
  <2> HIDE DEF R
  <2> QED BY <1>1, WFMin
<1>3. \A m, n \in Nat : m < n => <<m, n>> \in R
  OBVIOUS
<1> HIDE DEF R
<1>4. PICK n \in T : \A m \in T : ~(<<m, n>> \in R)
  BY <1>2
<1>5. ASSUME NEW m \in T PROVE n <= m
  <2>1. ~(m < n) /\ m \in Nat /\ n \in Nat
    BY <1>3, <1>4
  <2> QED BY <2>1
<1> QED BY <1>5

\* Induction on the naturals, for the members of a set.
LEMMA SetInduction ==
  ASSUME NEW S, 0 \in S, \A n \in Nat : n \in S => n + 1 \in S
  PROVE  \A n \in Nat : n \in S
<1> SUFFICES ASSUME Nat \ S # {} PROVE FALSE
  OBVIOUS
<1>1. PICK n \in Nat \ S : \A m \in Nat \ S : n <= m
  BY LeastNatural
<1>2. n - 1 \in Nat /\ n - 1 \in S
  BY <1>1
<1> QED BY <1>1, <1>2

\* Induction on sequences, from the empty one by Append.
LEMMA SeqInduction ==
  ASSUME NEW E, NEW S, <<>> \in S,
         \A s \in Seq(E), e \in E : s \in S => Append(s, e) \in S
  PROVE  \A s \in Seq(E) : s \in S
<1> DEFINE N == {n \in Nat : \A s \in Seq(E) : Len(s) = n => s \in S}
<1>1. 0 \in N
  OBVIOUS
<1>2. ASSUME NEW n \in Nat, n \in N PROVE n + 1 \in N
  <2> SUFFICES ASSUME NEW s \in Seq(E), Len(s) = n + 1 PROVE s \in S
    OBVIOUS
  <2>1. PICK r \in Seq(E), e \in E : s = Append(r, e)
    BY SequenceEmptyOrAppend
  <2>2. Len(r) = n
    BY <2>1
  <2>3. r \in S
    BY <1>2, <2>2
  <2> QED BY <2>1, <2>3
<1> HIDE DEF N
<1>3. \A n \in Nat : n \in N
  BY <1>1, <1>2, SetInduction
<1> QED BY <1>3 DEF N

\* The greatest element of a set of positions that holds the last one.
LEMMA MaxTop ==
  ASSUME NEW n \in Nat, NEW d \in SUBSET (1 .. n + 1), n + 1 \in d
  PROVE  Max(d) = n + 1
<1>1. \A x, y \in d : x >= y /\ y >= x => x = y
  OBVIOUS
<1>2. \A y \in d : n + 1 >= y
  OBVIOUS
<1> QED BY <1>1, <1>2 DEF Max

-----------------------------------------------------------------------------
(* Folds *)

Fold(par, base, s) == FoldLeft(LAMBDA a, x : Step(par, a, x), base, s)

\* The equation of the iteration that FoldLeft runs over sets of positions.
IsIter(g, par, base, s, D) ==
  g = [d \in SUBSET D |->
         IF d = {} THEN base ELSE Step(par, g[d \ {Max(d)}], s[Max(d)])]

\* FoldLeft is the value at the whole domain of the iteration that MapThenFoldSet
\* chooses.
LEMMA FoldIter ==
  ASSUME NEW par, NEW base, NEW s
  PROVE  Fold(par, base, s) =
           (CHOOSE g : IsIter(g, par, base, s, DOMAIN s))[DOMAIN s]
BY DEF Fold, FoldLeft, MapThenFoldSet, IsIter

\* There is an iteration for every length: the choice is not vacuous.
LEMMA IterExists ==
  ASSUME NEW par, NEW base, NEW s, NEW n \in Nat
  PROVE  \E g : IsIter(g, par, base, s, 1 .. n)
<1> DEFINE S == {k \in Nat : \E g : IsIter(g, par, base, s, 1 .. k)}
<1>1. 0 \in S
  <2> DEFINE g == [d \in SUBSET (1 .. 0) |-> base]
  <2>1. IsIter(g, par, base, s, 1 .. 0)
    BY DEF IsIter
  <2> QED BY <2>1
<1>2. ASSUME NEW k \in Nat, k \in S PROVE k + 1 \in S
  <2>1. PICK g : IsIter(g, par, base, s, 1 .. k)
    BY <1>2
  <2> DEFINE h == [d \in SUBSET (1 .. k + 1) |->
                     IF k + 1 \in d THEN Step(par, g[d \ {k + 1}], s[k + 1]) ELSE g[d]]
  <2>2. ASSUME NEW d \in SUBSET (1 .. k + 1)
        PROVE  h[d] = IF d = {} THEN base ELSE Step(par, h[d \ {Max(d)}], s[Max(d)])
    <3>1. CASE k + 1 \in d
      <4>1. Max(d) = k + 1 /\ d # {}
        BY <3>1, MaxTop
      <4>2. d \ {k + 1} \in SUBSET (1 .. k + 1) /\ k + 1 \notin d \ {k + 1}
        OBVIOUS
      <4>3. h[d \ {k + 1}] = g[d \ {k + 1}]
        BY <4>2
      <4> QED BY <3>1, <4>1, <4>3
    <3>2. CASE k + 1 \notin d
      <4>1. d \in SUBSET (1 .. k)
        BY <3>2
      <4>2. g[d] = IF d = {} THEN base ELSE Step(par, g[d \ {Max(d)}], s[Max(d)])
        BY <2>1, <4>1 DEF IsIter
      <4>3. d \ {Max(d)} \in SUBSET (1 .. k + 1) /\ k + 1 \notin d \ {Max(d)}
        BY <3>2
      <4>4. h[d \ {Max(d)}] = g[d \ {Max(d)}]
        BY <4>3
      <4> QED BY <3>2, <4>2, <4>4
    <3> QED BY <3>1, <3>2
  <2>3. IsIter(h, par, base, s, 1 .. k + 1)
    <3>1. h = [d \in SUBSET (1 .. k + 1) |-> h[d]]
      OBVIOUS
    <3> HIDE DEF h
    <3> QED BY <2>2, <3>1 DEF IsIter
  <2> QED BY <2>3
<1> HIDE DEF S
<1>3. n \in S
  BY <1>1, <1>2, SetInduction
<1> QED BY <1>3 DEF S

\* Two iterations agree on the sets both are defined on.
LEMMA IterAgree ==
  ASSUME NEW par, NEW base, NEW s, NEW t, NEW n \in Nat, NEW m \in Nat, n <= m,
         \A i \in 1 .. n : s[i] = t[i],
         NEW g, IsIter(g, par, base, s, 1 .. n),
         NEW h, IsIter(h, par, base, t, 1 .. m)
  PROVE  g[1 .. n] = h[1 .. n]
<1> DEFINE S == {k \in Nat : k <= n => g[1 .. k] = h[1 .. k]}
<1>1. 0 \in S
  <2>1. 1 .. 0 \in SUBSET (1 .. n) /\ 1 .. 0 \in SUBSET (1 .. m) /\ 1 .. 0 = {}
    OBVIOUS
  <2> QED BY <2>1 DEF IsIter
<1>2. ASSUME NEW k \in Nat, k \in S PROVE k + 1 \in S
  <2> SUFFICES ASSUME k + 1 <= n PROVE g[1 .. k + 1] = h[1 .. k + 1]
    OBVIOUS
  <2>1. Max(1 .. k + 1) = k + 1
    BY MaxTop
  <2>2. (1 .. k + 1) \ {k + 1} = 1 .. k /\ 1 .. k + 1 # {}
    OBVIOUS
  <2>3. 1 .. k + 1 \in SUBSET (1 .. n) /\ 1 .. k + 1 \in SUBSET (1 .. m)
    OBVIOUS
  <2> DEFINE d == 1 .. k + 1
  <2> HIDE DEF d, S
  <2>4. g[d] = Step(par, g[d \ {Max(d)}], s[Max(d)])
    BY <2>2, <2>3 DEF IsIter, d
  <2>5. h[d] = Step(par, h[d \ {Max(d)}], t[Max(d)])
    BY <2>2, <2>3 DEF IsIter, d
  <2>6. g[1 .. k] = h[1 .. k] /\ s[k + 1] = t[k + 1]
    BY <1>2 DEF S
  <2> QED BY <2>1, <2>2, <2>4, <2>5, <2>6 DEF d
<1> HIDE DEF S
<1>3. n \in S
  BY <1>1, <1>2, SetInduction
<1> QED BY <1>3 DEF S

\* The fold of the empty sequence is the base.
LEMMA FoldEmpty ==
  ASSUME NEW par, NEW base
  PROVE  Fold(par, base, <<>>) = base
<1>1. DOMAIN <<>> = 1 .. 0 /\ 1 .. 0 = {}
  OBVIOUS
<1>2. \E g : IsIter(g, par, base, <<>>, 1 .. 0)
  BY IterExists
<1> DEFINE g == CHOOSE g : IsIter(g, par, base, <<>>, 1 .. 0)
<1>3. IsIter(g, par, base, <<>>, 1 .. 0)
  BY <1>2
<1> HIDE DEF g
<1>4. g[1 .. 0] = base
  BY <1>1, <1>3 DEF IsIter
<1> QED BY <1>1, <1>4, FoldIter DEF g

\* The fold of a sequence with one element more is one step more.
LEMMA FoldAppend ==
  ASSUME NEW par, NEW base, NEW E, NEW s \in Seq(E), NEW e \in E
  PROVE  Fold(par, base, Append(s, e)) = Step(par, Fold(par, base, s), e)
<1> DEFINE n == Len(s)
           t == Append(s, e)
           g == CHOOSE g : IsIter(g, par, base, s, 1 .. n)
           h == CHOOSE h : IsIter(h, par, base, t, 1 .. n + 1)
<1>1. /\ n \in Nat /\ DOMAIN s = 1 .. n /\ DOMAIN t = 1 .. n + 1
      /\ t[n + 1] = e /\ \A i \in 1 .. n : s[i] = t[i]
  OBVIOUS
<1> HIDE DEF n, t
<1>2. IsIter(g, par, base, s, 1 .. n)
  BY <1>1, IterExists
<1>3. IsIter(h, par, base, t, 1 .. n + 1)
  <2>1. n + 1 \in Nat
    BY <1>1
  <2> QED BY <2>1, IterExists
<1>4. Fold(par, base, s) = g[1 .. n]
  BY <1>1, FoldIter
<1>5. Fold(par, base, t) = h[1 .. n + 1]
  BY <1>1, FoldIter
<1> HIDE DEF g, h
<1>6. g[1 .. n] = h[1 .. n]
  BY <1>1, <1>2, <1>3, IterAgree
<1>7. h[1 .. n + 1] = Step(par, h[1 .. n], e)
  <2>1. Max(1 .. n + 1) = n + 1
    BY <1>1, MaxTop
  <2>2. (1 .. n + 1) \ {n + 1} = 1 .. n /\ 1 .. n + 1 # {}
    BY <1>1
  <2> QED BY <1>1, <1>3, <2>1, <2>2 DEF IsIter
<1> QED BY <1>4, <1>5, <1>6, <1>7 DEF t
=============================================================================
