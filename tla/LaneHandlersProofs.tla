-------------------------- MODULE LaneHandlersProofs --------------------------
(***************************************************************************)
(* What the folds of Proposals and LaneHandlers compute for every list of  *)
(* transactions, and what the lanes' handlers promise of what they return. *)
(***************************************************************************)
EXTENDS LaneHandlers, FiniteSetTheorems, SequenceTheorems, TLAPS

\* The folds' steps, in the form FoldTheorems takes them.
SizeStep(par, n, t) == n + Size[t]
GasStep(par, n, t) == Wrap(n + Gas[t])
VerifyStep(par, run, t) == VerifyTx(run, t)
ConsiderStep(par, s, t) == Consider(par[1], par[2], par[3], s, t)

SizeFold == INSTANCE FoldTheorems WITH Step <- SizeStep
GasFold == INSTANCE FoldTheorems WITH Step <- GasStep
VerifyFold == INSTANCE FoldTheorems WITH Step <- VerifyStep
ConsiderFold == INSTANCE FoldTheorems WITH Step <- ConsiderStep

-----------------------------------------------------------------------------
(* Induction: the facts of FoldTheorems, which do not depend on the step *)

\* A set of naturals that is not empty has a least element.
LEMMA LeastNatural ==
  ASSUME NEW T \in SUBSET Nat, T # {}
  PROVE  \E n \in T : \A m \in T : n <= m
BY SizeFold!LeastNatural

\* Induction on the naturals, for the members of a set.
LEMMA SetInduction ==
  ASSUME NEW S, 0 \in S, \A n \in Nat : n \in S => n + 1 \in S
  PROVE  \A n \in Nat : n \in S
BY SizeFold!SetInduction

\* Induction on sequences, from the empty one by Append.
LEMMA SeqInduction ==
  ASSUME NEW E, NEW S, <<>> \in S,
         \A s \in Seq(E), e \in E : s \in S => Append(s, e) \in S
  PROVE  \A s \in Seq(E) : s \in S
BY SizeFold!SeqInduction

\* A bounded set of naturals that is not empty has a greatest element.
LEMMA MaxIn ==
  ASSUME NEW n \in Nat, NEW d \in SUBSET (0 .. n), d # {}
  PROVE  Max(d) \in d /\ \A y \in d : Max(d) >= y
<1> DEFINE T == {k \in Nat : \A y \in d : y <= k}
<1>1. n \in T
  OBVIOUS
<1>2. PICK k \in T : \A m \in T : k <= m
  <2> HIDE DEF T
  <2>1. T \in SUBSET Nat
    BY DEF T
  <2> QED BY <1>1, <2>1, LeastNatural
<1>3. k \in Nat /\ \A y \in d : y \in Nat /\ y <= k
  BY <1>2
<1>4. k \in d
  <2> SUFFICES ASSUME k \notin d PROVE FALSE
    OBVIOUS
  <2>1. PICK z \in d : TRUE
    OBVIOUS
  <2>2. k - 1 \in Nat /\ \A y \in d : y <= k - 1
    <3> HIDE DEF T
    <3> QED BY <1>3, <2>1
  <2>3. k - 1 \in T
    BY <2>2
  <2>4. k <= k - 1
    <3> HIDE DEF T
    <3> QED BY <1>2, <2>3
  <2> QED BY <1>3, <2>4
<1> QED BY <1>3, <1>4 DEF Max

\* The least element of a set of naturals.
LEMMA MinIn ==
  ASSUME NEW d \in SUBSET Nat, d # {}
  PROVE  Min(d) \in d /\ \A y \in d : Min(d) <= y
<1>1. \E n \in d : \A m \in d : n <= m
  BY LeastNatural
<1> QED BY <1>1 DEF Min

-----------------------------------------------------------------------------
(* Sums over finite sets: what SumFunction of the community modules computes. *)

\* The element that the fold takes out of a set.
Pick(d) == CHOOSE x \in d : TRUE

\* The equation of the iteration that SumFunctionOnSet runs over the sets in C.
IsSum(g, f, C) ==
  g = [d \in C |-> IF d = {} THEN 0 ELSE f[Pick(d)] + g[d \ {Pick(d)}]]
IsSumOn(g, f, D) == IsSum(g, f, SUBSET D)

\* The sum is the value at the whole set of the iteration that MapThenFoldSet chooses.
LEMMA SumIter ==
  ASSUME NEW f, NEW D
  PROVE  SumFunctionOnSet(f, D) = (CHOOSE g : IsSumOn(g, f, D))[D]
BY DEF SumFunctionOnSet, FoldFunctionOnSet, MapThenFoldSet, IsSumOn, IsSum, Pick

\* Subsets of a finite set, smaller by one element.
LEMMA OneLess ==
  ASSUME NEW D, IsFiniteSet(D), NEW d \in SUBSET D, NEW x \in d
  PROVE  /\ d \ {x} \in SUBSET D
         /\ Cardinality(d) \in Nat /\ Cardinality(d \ {x}) \in Nat
         /\ Cardinality(d \ {x}) = Cardinality(d) - 1
<1>1. IsFiniteSet(d)
  BY FS_Subset
<1>2. IsFiniteSet(d \ {x}) /\ Cardinality(d \ {x}) = Cardinality(d) - 1
  BY <1>1, FS_RemoveElement
<1> QED BY <1>1, <1>2, FS_CardinalityType

\* There is an iteration over the subsets of a finite set.
LEMMA SumExists ==
  ASSUME NEW D, IsFiniteSet(D), NEW f
  PROVE  \E g : IsSumOn(g, f, D)
<1> DEFINE L(n) == {d \in SUBSET D : Cardinality(d) <= n}
           S == {n \in Nat : \E g : IsSum(g, f, L(n))}
<1>1. \A d \in SUBSET D : IsFiniteSet(d) /\ Cardinality(d) \in Nat
  BY FS_Subset, FS_CardinalityType
<1>2. \A d \in SUBSET D : d # {} => Pick(d) \in d
  BY DEF Pick
<1>3. 0 \in S
  <2>1. \A d \in L(0) : d = {}
    BY <1>1, FS_EmptySet
  <2> DEFINE g == [d \in L(0) |-> 0]
  <2>2. IsSum(g, f, L(0))
    BY <2>1 DEF IsSum
  <2> QED BY <2>2
<1>4. ASSUME NEW n \in Nat, n \in S PROVE n + 1 \in S
  <2>1. PICK g : IsSum(g, f, L(n))
    BY <1>4
  <2> DEFINE h == [d \in L(n + 1) |->
                     IF d \in L(n) THEN g[d] ELSE f[Pick(d)] + g[d \ {Pick(d)}]]
  <2>2. ASSUME NEW d \in L(n + 1)
        PROVE  h[d] = IF d = {} THEN 0 ELSE f[Pick(d)] + h[d \ {Pick(d)}]
    <3>1. CASE d = {}
      <4>1. d \in L(n)
        BY <3>1, FS_EmptySet
      <4> QED BY <2>1, <3>1, <4>1 DEF IsSum
    <3>2. CASE d # {}
      <4> DEFINE e == d \ {Pick(d)}
      <4>1. e \in SUBSET D /\ Cardinality(e) = Cardinality(d) - 1 /\ Cardinality(d) \in Nat
        BY <1>2, <3>2, OneLess
      <4>2. e \in L(n) /\ e \in L(n + 1)
        BY <4>1
      <4>3. h[e] = g[e]
        BY <4>2
      <4>4. d \in L(n) => g[d] = f[Pick(d)] + g[e]
        BY <2>1, <3>2 DEF IsSum
      <4>5. h[d] = IF d \in L(n) THEN g[d] ELSE f[Pick(d)] + g[e]
        OBVIOUS
      <4> HIDE DEF L, h, e
      <4>6. h[d] = f[Pick(d)] + h[e]
        BY <4>3, <4>4, <4>5
      <4> QED BY <3>2, <4>6 DEF e
    <3> QED BY <3>1, <3>2
  <2>3. IsSum(h, f, L(n + 1))
    <3>1. h = [d \in L(n + 1) |-> h[d]]
      OBVIOUS
    <3> HIDE DEF h, L
    <3> QED BY <2>2, <3>1 DEF IsSum
  <2> QED BY <2>3
<1>5. Cardinality(D) \in S
  <2> HIDE DEF S
  <2> QED BY <1>1, <1>3, <1>4, SetInduction
<1>6. L(Cardinality(D)) = SUBSET D
  BY FS_Subset
<1> HIDE DEF L
<1> QED BY <1>5, <1>6 DEF IsSumOn

\* The iteration's value at d is a natural number, and any element may come first.
AnyOrder(g, f, d) == g[d] \in Nat /\ \A x \in d : g[d] = f[x] + g[d \ {x}]

\* The sum does not depend on the order in which the elements are picked.
LEMMA SumAnyOrder ==
  ASSUME NEW D, IsFiniteSet(D), NEW f, f \in [D -> Nat], NEW g, IsSumOn(g, f, D)
  PROVE  \A d \in SUBSET D : AnyOrder(g, f, d)
<1> DEFINE Good(e) == g[e] \in Nat /\ \A x \in e : g[e] = f[x] + g[e \ {x}]
           S == {n \in Nat : \A e \in SUBSET D : Cardinality(e) <= n => Good(e)}
<1>1. \A e \in SUBSET D : IsFiniteSet(e) /\ Cardinality(e) \in Nat
  BY FS_Subset, FS_CardinalityType
<1>2. \A e \in SUBSET D : e # {} => Pick(e) \in e /\ Pick(e) \in D
  BY DEF Pick
<1>3. 0 \in S
  <2> SUFFICES ASSUME NEW e \in SUBSET D, Cardinality(e) <= 0 PROVE Good(e)
    OBVIOUS
  <2>1. e = {}
    BY <1>1, FS_EmptySet
  <2>2. g[e] = 0
    BY <2>1 DEF IsSumOn, IsSum
  <2> QED BY <2>1, <2>2
<1>4. ASSUME NEW n \in Nat, n \in S PROVE n + 1 \in S
  <2>0. \A e \in SUBSET D : Cardinality(e) <= n => Good(e)
    BY <1>4
  <2> SUFFICES ASSUME NEW e \in SUBSET D, Cardinality(e) = n + 1 PROVE Good(e)
    <3> HIDE DEF Good
    <3> QED BY <1>1, <2>0
  <2> DEFINE y == Pick(e)
  <2>1. y \in e /\ y \in D
    <3>1. e # {}
      BY FS_EmptySet
    <3> QED BY <1>2, <3>1
  <2>2. \A x \in e : e \ {x} \in SUBSET D /\ Cardinality(e \ {x}) = n
    BY OneLess
  <2>3. \A x \in e : Good(e \ {x})
    <3> HIDE DEF Good
    <3> QED BY <2>0, <2>2
  <2>4. g[e] = f[y] + g[e \ {y}]
    BY <2>1 DEF IsSumOn, IsSum
  <2> HIDE DEF y
  <2>5. g[e \ {y}] \in Nat /\ f[y] \in Nat
    BY <2>1, <2>3
  <2>6. ASSUME NEW x \in e, x # y PROVE g[e] = f[x] + g[e \ {x}]
    <3> DEFINE r == (e \ {y}) \ {x}
    <3>1. x \in e \ {y} /\ y \in e \ {x} /\ (e \ {x}) \ {y} = r
      BY <2>1, <2>6
    <3>2. g[e \ {y}] = f[x] + g[r]
      BY <2>1, <2>3, <3>1
    <3>3. g[e \ {x}] = f[y] + g[r]
      BY <2>3, <3>1
    <3>4. g[r] \in Nat
      <4>1. e \ {y} \in SUBSET D /\ Cardinality(e \ {y}) = n
        BY <2>1, <2>2
      <4>2. r \in SUBSET D /\ Cardinality(r) = n - 1
        BY <3>1, <4>1, OneLess
      <4>3. Good(r)
        <5> HIDE DEF Good, r
        <5> QED BY <2>0, <4>2
      <4> QED BY <4>3
    <3> HIDE DEF r
    <3>5. f[x] \in Nat
      OBVIOUS
    <3> QED BY <2>4, <2>5, <3>2, <3>3, <3>4, <3>5
  <2>7. \A x \in e : g[e] = f[x] + g[e \ {x}]
    BY <2>4, <2>6
  <2>8. g[e] \in Nat
    BY <2>4, <2>5
  <2> QED BY <2>7, <2>8
<1>5. \A n \in Nat : n \in S
  <2> HIDE DEF S
  <2> QED BY <1>3, <1>4, SetInduction
<1>6. ASSUME NEW d \in SUBSET D PROVE Good(d)
  <2> HIDE DEF Good
  <2>1. Cardinality(d) \in S /\ Cardinality(d) \in Nat
    <3> HIDE DEF S
    <3> QED BY <1>1, <1>5
  <2> QED BY <2>1
<1> QED BY <1>6 DEF AnyOrder

\* Iterations of functions that agree on a set agree there.
LEMMA SumAgree ==
  ASSUME NEW D, IsFiniteSet(D), NEW C, D \subseteq C, NEW f, NEW h,
         \A x \in D : f[x] = h[x],
         NEW g, IsSumOn(g, f, D), NEW k, IsSumOn(k, h, C)
  PROVE  g[D] = k[D]
<1> DEFINE S == {n \in Nat : \A e \in SUBSET D : Cardinality(e) = n => g[e] = k[e]}
<1>1. \A e \in SUBSET D : IsFiniteSet(e) /\ Cardinality(e) \in Nat
  BY FS_Subset, FS_CardinalityType
<1>2. 0 \in S
  <2> SUFFICES ASSUME NEW e \in SUBSET D, Cardinality(e) = 0 PROVE g[e] = k[e]
    OBVIOUS
  <2>1. e = {}
    BY <1>1, FS_EmptySet
  <2> QED BY <2>1 DEF IsSumOn, IsSum
<1>3. ASSUME NEW n \in Nat, n \in S PROVE n + 1 \in S
  <2> SUFFICES ASSUME NEW e \in SUBSET D, Cardinality(e) = n + 1 PROVE g[e] = k[e]
    OBVIOUS
  <2> DEFINE y == Pick(e)
  <2>1. e # {} /\ y \in e
    <3>1. e # {}
      BY FS_EmptySet
    <3> QED BY <3>1 DEF Pick
  <2>2. e \in SUBSET C /\ f[y] = h[y]
    BY <2>1
  <2>3. g[e] = f[y] + g[e \ {y}] /\ k[e] = h[y] + k[e \ {y}]
    BY <2>1, <2>2 DEF IsSumOn, IsSum
  <2> HIDE DEF y
  <2>4. e \ {y} \in SUBSET D /\ Cardinality(e \ {y}) = n
    BY <2>1, OneLess
  <2>5. g[e \ {y}] = k[e \ {y}]
    BY <1>3, <2>4
  <2> QED BY <2>2, <2>3, <2>5
<1> HIDE DEF S
<1>4. Cardinality(D) \in S
  BY <1>1, <1>2, <1>3, SetInduction
<1> QED BY <1>4 DEF S

\* In particular, the sum over the whole set is a natural number.
LEMMA SumIsNat ==
  ASSUME NEW D, IsFiniteSet(D), NEW f, f \in [D -> Nat], NEW g, IsSumOn(g, f, D)
  PROVE  g[D] \in Nat
<1>1. AnyOrder(g, f, D)
  BY SumAnyOrder
<1> QED BY <1>1 DEF AnyOrder

\* Any element may be taken out of the whole set.
LEMMA SumTakeOut ==
  ASSUME NEW D, IsFiniteSet(D), NEW f, f \in [D -> Nat], NEW g, IsSumOn(g, f, D), NEW x \in D
  PROVE  g[D] = f[x] + g[D \ {x}]
<1>1. AnyOrder(g, f, D)
  BY SumAnyOrder
<1> QED BY <1>1 DEF AnyOrder

\* The sum of a function over a finite set, and over one with an element more.
LEMMA SumExtend ==
  ASSUME NEW D, IsFiniteSet(D), NEW f \in [D -> Nat], NEW x, x \notin D,
         NEW C, C = D \cup {x}, NEW h \in [C -> Nat], \A y \in D : f[y] = h[y]
  PROVE  SumFunction(f) \in Nat /\ SumFunction(h) = SumFunction(f) + h[x]
<1> DEFINE g == CHOOSE g : IsSumOn(g, f, D)
           k == CHOOSE k : IsSumOn(k, h, C)
<1>1. C \ {x} = D /\ x \in C /\ D \subseteq C /\ DOMAIN f = D /\ DOMAIN h = C
  OBVIOUS
<1>2. IsFiniteSet(C)
  BY FS_AddElement
<1>3. IsSumOn(g, f, D)
  BY SumExists
<1>4. IsSumOn(k, h, C)
  BY <1>2, SumExists
<1>5. SumFunction(f) = g[D] /\ SumFunction(h) = k[C]
  BY <1>1, SumIter DEF SumFunction
<1> HIDE DEF g, k
<1>6. g[D] = k[D]
  BY <1>1, <1>3, <1>4, SumAgree
<1>7. k[C] = h[x] + k[C \ {x}]
  <2>1. h \in [C -> Nat] /\ x \in C
    BY <1>1
  <2> QED BY <1>2, <1>4, <2>1, SumTakeOut
<1>8. g[D] \in Nat /\ h[x] \in Nat
  <2>1. g[D] \in Nat
    BY <1>3, SumIsNat
  <2> QED BY <1>1, <2>1
<1> QED BY <1>1, <1>5, <1>6, <1>7, <1>8

\* The sum of the empty function.
LEMMA SumEmpty ==
  ASSUME NEW f, DOMAIN f = {}
  PROVE  SumFunction(f) = 0
<1> DEFINE g == CHOOSE g : IsSumOn(g, f, {})
<1>1. IsSumOn(g, f, {})
  BY FS_EmptySet, SumExists
<1>2. SumFunction(f) = g[{}]
  BY SumIter DEF SumFunction
<1> HIDE DEF g
<1> QED BY <1>1, <1>2 DEF IsSumOn, IsSum

\* The sum over one position more.
LEMMA SumNext ==
  ASSUME NEW n \in Nat, NEW f, f \in [1 .. n -> Nat], NEW h, h \in [1 .. n + 1 -> Nat],
         \A j \in 1 .. n : f[j] = h[j]
  PROVE  SumFunction(f) \in Nat /\ SumFunction(h) = SumFunction(f) + h[n + 1]
<1> DEFINE d == 1 .. n
           C == 1 .. n + 1
           x == n + 1
<1>1. IsFiniteSet(d)
  BY FS_Interval
<1>2. C = d \cup {x} /\ x \notin d
  OBVIOUS
<1>3. f \in [d -> Nat] /\ h \in [C -> Nat] /\ (\A y \in d : f[y] = h[y])
  OBVIOUS
<1> HIDE DEF d, C, x
<1>4. SumFunction(f) \in Nat /\ SumFunction(h) = SumFunction(f) + h[x]
  BY ONLY <1>1, <1>2, <1>3, SumExtend
<1> QED BY <1>4 DEF x

-----------------------------------------------------------------------------
(* The elements of a sequence *)

\* The elements of a concatenation.
LEMMA ToSetConcat ==
  ASSUME NEW E, NEW s \in Seq(E), NEW t \in Seq(E)
  PROVE  ToSet(s \o t) = ToSet(s) \cup ToSet(t)
<1>1. /\ Len(s) \in Nat /\ Len(t) \in Nat /\ Len(s \o t) = Len(s) + Len(t)
      /\ DOMAIN s = 1 .. Len(s) /\ DOMAIN t = 1 .. Len(t)
      /\ DOMAIN (s \o t) = 1 .. Len(s) + Len(t)
      /\ \A i \in 1 .. Len(s) + Len(t) :
           (s \o t)[i] = IF i <= Len(s) THEN s[i] ELSE t[i - Len(s)]
  OBVIOUS
<1>2. ASSUME NEW i \in DOMAIN (s \o t)
      PROVE  (s \o t)[i] \in ToSet(s) \cup ToSet(t)
  <2>1. CASE i <= Len(s)
    BY <1>1, <2>1 DEF ToSet
  <2>2. CASE i > Len(s)
    <3>1. i - Len(s) \in 1 .. Len(t)
      BY <1>1, <2>2
    <3> QED BY <1>1, <2>2, <3>1 DEF ToSet
  <2> QED BY <1>1, <2>1, <2>2
<1>3. ASSUME NEW i \in DOMAIN s
      PROVE  s[i] \in ToSet(s \o t)
  BY <1>1 DEF ToSet
<1>4. ASSUME NEW i \in DOMAIN t
      PROVE  t[i] \in ToSet(s \o t)
  <2>1. i + Len(s) \in 1 .. Len(s) + Len(t) /\ (s \o t)[i + Len(s)] = t[i]
    BY <1>1
  <2> QED BY <1>1, <2>1 DEF ToSet
<1> QED BY <1>2, <1>3, <1>4 DEF ToSet

\* A list has finitely many elements, as many as places if none is repeated.
LEMMA ToSetFinite ==
  ASSUME NEW E, NEW s \in Seq(E)
  PROVE  /\ IsFiniteSet(ToSet(s))
         /\ (\A i, j \in 1 .. Len(s) : s[i] = s[j] => i = j) => Cardinality(ToSet(s)) = Len(s)
<1>1. Len(s) \in Nat /\ DOMAIN s = 1 .. Len(s) /\ s \in [1 .. Len(s) -> E]
  OBVIOUS
<1>2. s \in Surjection(1 .. Len(s), ToSet(s))
  BY <1>1 DEF Surjection, ToSet
<1>3. IsFiniteSet(1 .. Len(s)) /\ Cardinality(1 .. Len(s)) = Len(s)
  BY <1>1, FS_Interval
<1>4. (\A i, j \in 1 .. Len(s) : s[i] = s[j] => i = j) => s \in Injection(1 .. Len(s), ToSet(s))
  BY <1>1, <1>2 DEF Injection, IsInjective, Surjection
<1> QED BY <1>2, <1>3, <1>4, FS_Surjection

-----------------------------------------------------------------------------
(* Totals *)

\* TotalSize, one transaction at a time.
LEMMA TotalSizeStep ==
  /\ TotalSize(<<>>) = 0
  /\ \A s \in Seq(Tx), t \in Tx : TotalSize(Append(s, t)) = TotalSize(s) + Size[t]
<1>1. \A s : TotalSize(s) = SizeFold!Fold(0, 0, s)
  BY DEF TotalSize, SizeFold!Fold, FoldLeft, MapThenFoldSet, Max, SizeStep,
         SizeFold!FoldLeft, SizeFold!MapThenFoldSet, SizeFold!Max
<1>2. TotalSize(<<>>) = 0
  BY <1>1, SizeFold!FoldEmpty
<1>3. ASSUME NEW s \in Seq(Tx), NEW t \in Tx
      PROVE  TotalSize(Append(s, t)) = TotalSize(s) + Size[t]
  BY <1>1, SizeFold!FoldAppend DEF SizeStep
<1> QED BY <1>2, <1>3

\* TotalGas, one transaction at a time.
LEMMA TotalGasStep ==
  /\ TotalGas(<<>>) = 0
  /\ \A s \in Seq(Tx), t \in Tx : TotalGas(Append(s, t)) = Wrap(TotalGas(s) + Gas[t])
<1>1. \A s : TotalGas(s) = GasFold!Fold(0, 0, s)
  BY DEF TotalGas, GasFold!Fold, FoldLeft, MapThenFoldSet, Max, GasStep,
         GasFold!FoldLeft, GasFold!MapThenFoldSet, GasFold!Max
<1>2. TotalGas(<<>>) = 0
  BY <1>1, GasFold!FoldEmpty
<1>3. ASSUME NEW s \in Seq(Tx), NEW t \in Tx
      PROVE  TotalGas(Append(s, t)) = Wrap(TotalGas(s) + Gas[t])
  BY <1>1, GasFold!FoldAppend DEF GasStep
<1> QED BY <1>2, <1>3

\* Gas wraps into the range of a uint64.
LEMMA WrapRange ==
  ASSUME NEW n \in Nat
  PROVE  Wrap(n) \in 0 .. GasModulus - 1
BY ProposalsAssumptions DEF Wrap

\* The total size is a natural number, and adds up over concatenation.
LEMMA TotalSizeConcat ==
  /\ \A s \in Seq(Tx) : TotalSize(s) \in Nat
  /\ \A s, t \in Seq(Tx) : TotalSize(s \o t) = TotalSize(s) + TotalSize(t)
<1>1. \A s \in Seq(Tx) : TotalSize(s) \in Nat
  <2> DEFINE S == {s \in Seq(Tx) : TotalSize(s) \in Nat}
  <2>1. <<>> \in S
    BY TotalSizeStep
  <2>2. \A s \in Seq(Tx), t \in Tx : s \in S => Append(s, t) \in S
    BY TotalSizeStep, ProposalsAssumptions
  <2> HIDE DEF S
  <2>3. \A s \in Seq(Tx) : s \in S
    BY <2>1, <2>2, SeqInduction
  <2> QED BY <2>3 DEF S
<1>2. ASSUME NEW s \in Seq(Tx)
      PROVE  \A t \in Seq(Tx) : TotalSize(s \o t) = TotalSize(s) + TotalSize(t)
  <2> DEFINE S == {t \in Seq(Tx) : TotalSize(s \o t) = TotalSize(s) + TotalSize(t)}
  <2>1. <<>> \in S
    BY <1>1, TotalSizeStep
  <2>2. ASSUME NEW t \in Seq(Tx), NEW e \in Tx, t \in S
        PROVE  Append(t, e) \in S
    <3>1. s \o Append(t, e) = Append(s \o t, e) /\ s \o t \in Seq(Tx)
      OBVIOUS
    <3>2. TotalSize(s \o Append(t, e)) = TotalSize(s \o t) + Size[e]
      BY <3>1, TotalSizeStep
    <3>3. TotalSize(Append(t, e)) = TotalSize(t) + Size[e]
      BY TotalSizeStep
    <3>4. TotalSize(s) \in Nat /\ TotalSize(t) \in Nat /\ Size[e] \in Nat
      BY <1>1, ProposalsAssumptions
    <3>5. TotalSize(s \o t) = TotalSize(s) + TotalSize(t)
      BY <2>2
    <3>6. TotalSize(s \o Append(t, e)) = TotalSize(s) + TotalSize(Append(t, e))
      BY <3>2, <3>3, <3>4, <3>5
    <3> QED BY <3>6
  <2> HIDE DEF S
  <2>3. \A t \in Seq(Tx) : t \in S
    BY <2>1, <2>2, SeqInduction
  <2> QED BY <2>3 DEF S
<1> QED BY <1>1, <1>2

\* The total gas is a uint64.
LEMMA TotalGasType ==
  \A s \in Seq(Tx) : TotalGas(s) \in 0 .. GasModulus - 1
<1> DEFINE S == {s \in Seq(Tx) : TotalGas(s) \in 0 .. GasModulus - 1}
<1>1. <<>> \in S
  BY TotalGasStep, ProposalsAssumptions
<1>2. ASSUME NEW s \in Seq(Tx), NEW t \in Tx, s \in S
      PROVE  Append(s, t) \in S
  <2>1. TotalGas(s) + Gas[t] \in Nat
    BY <1>2, ProposalsAssumptions
  <2>2. TotalGas(Append(s, t)) \in 0 .. GasModulus - 1
    BY <2>1, TotalGasStep, WrapRange
  <2> QED BY <2>2
<1> HIDE DEF S
<1>3. \A s \in Seq(Tx) : s \in S
  BY <1>1, <1>2, SeqInduction
<1> QED BY <1>3 DEF S

-----------------------------------------------------------------------------
(* Verification *)

\* The runs over the accounts A, and the contexts they work on.
Contexts(A) == [A -> Nat]
Runs(A) == [ok : BOOLEAN, ctx : Contexts(A)]

\* The signers of the transactions are accounts.
SignedBy(A) == \A t \in Tx : Sender[t] \in A

\* VerifyTx maps runs to runs, succeeds only on a run that has not failed, and
\* then on the sender's next sequence number, which it moves on.
LEMMA VerifyTxStep ==
  ASSUME NEW A, SignedBy(A), NEW run \in Runs(A), NEW t \in Tx
  PROVE  /\ VerifyTx(run, t) \in Runs(A)
         /\ VerifyTx(run, t).ok =>
              /\ run.ok
              /\ Nonce[t] = run.ctx[Sender[t]]
              /\ VerifyTx(run, t).ctx = [run.ctx EXCEPT ![Sender[t]] = @ + 1]
<1>1. Sender[t] \in A
  BY DEF SignedBy
<1>2. CASE run.ok /\ AnteOk(run.ctx, t)
  <2>1. VerifyTx(run, t) = [run EXCEPT !.ctx[Sender[t]] = @ + 1]
    BY <1>2 DEF VerifyTx
  <2>2. VerifyTx(run, t).ctx = [run.ctx EXCEPT ![Sender[t]] = @ + 1]
    BY <2>1 DEF Runs
  <2>3. [run.ctx EXCEPT ![Sender[t]] = @ + 1] \in Contexts(A)
    BY <1>1 DEF Runs, Contexts
  <2>4. VerifyTx(run, t) \in Runs(A)
    BY <2>1, <2>3 DEF Runs
  <2> QED BY <1>2, <2>2, <2>4 DEF AnteOk
<1>3. CASE ~(run.ok /\ AnteOk(run.ctx, t))
  BY <1>3 DEF VerifyTx, Runs
<1> QED BY <1>2, <1>3

\* VerifyAll, one transaction at a time.
LEMMA VerifyAllStep ==
  ASSUME NEW ctx
  PROVE  /\ VerifyAll(ctx, <<>>) = [ok |-> TRUE, ctx |-> ctx]
         /\ \A s \in Seq(Tx), t \in Tx :
              VerifyAll(ctx, Append(s, t)) = VerifyTx(VerifyAll(ctx, s), t)
<1> DEFINE base == [ok |-> TRUE, ctx |-> ctx]
<1>1. \A s : VerifyAll(ctx, s) = VerifyFold!Fold(0, base, s)
  BY DEF VerifyAll, VerifyFold!Fold, FoldLeft, MapThenFoldSet, Max, VerifyStep,
         VerifyFold!FoldLeft, VerifyFold!MapThenFoldSet, VerifyFold!Max
<1> HIDE DEF base
<1>2. VerifyAll(ctx, <<>>) = base
  BY <1>1, VerifyFold!FoldEmpty
<1>3. ASSUME NEW s \in Seq(Tx), NEW t \in Tx
      PROVE  VerifyAll(ctx, Append(s, t)) = VerifyTx(VerifyAll(ctx, s), t)
  BY <1>1, VerifyFold!FoldAppend DEF VerifyStep
<1> QED BY <1>2, <1>3 DEF base

\* VerifyAll returns a run.
LEMMA VerifyAllType ==
  ASSUME NEW A, SignedBy(A), NEW ctx \in Contexts(A)
  PROVE  \A s \in Seq(Tx) : VerifyAll(ctx, s) \in Runs(A)
<1> DEFINE S == {s \in Seq(Tx) : VerifyAll(ctx, s) \in Runs(A)}
<1>1. <<>> \in S
  <2>1. [ok |-> TRUE, ctx |-> ctx] \in Runs(A)
    BY DEF Runs
  <2>2. VerifyAll(ctx, <<>>) \in Runs(A)
    BY <2>1, VerifyAllStep
  <2> QED BY <2>2
<1>2. ASSUME NEW s \in Seq(Tx), NEW t \in Tx, s \in S
      PROVE  Append(s, t) \in S
  <2>1. VerifyAll(ctx, s) \in Runs(A)
    BY <1>2
  <2>2. VerifyTx(VerifyAll(ctx, s), t) \in Runs(A)
    BY <2>1, VerifyTxStep
  <2>3. VerifyAll(ctx, Append(s, t)) \in Runs(A)
    BY <2>2, VerifyAllStep
  <2> QED BY <2>3
<1> HIDE DEF S
<1>3. \A s \in Seq(Tx) : s \in S
  BY <1>1, <1>2, SeqInduction
<1> QED BY <1>3 DEF S

\* A list that verifies can be continued: the continuation verifies on the
\* context the list leaves, and the whole leaves the continuation's context.
LEMMA VerifyAllConcat ==
  ASSUME NEW A, SignedBy(A), NEW ctx \in Contexts(A), NEW s \in Seq(Tx),
         VerifyAll(ctx, s).ok
  PROVE  \A t \in Seq(Tx) :
           VerifyAll(ctx, s \o t) = VerifyAll(VerifyAll(ctx, s).ctx, t)
<1> DEFINE mid == VerifyAll(ctx, s).ctx
           S == {t \in Seq(Tx) : VerifyAll(ctx, s \o t) = VerifyAll(mid, t)}
<1>0. VerifyAll(ctx, s) \in Runs(A)
  BY VerifyAllType
<1>1. <<>> \in S
  <2>1. VerifyAll(ctx, s) = [ok |-> TRUE, ctx |-> mid]
    BY <1>0 DEF Runs
  <2>2. s \o <<>> = s
    OBVIOUS
  <2>3. VerifyAll(mid, <<>>) = [ok |-> TRUE, ctx |-> mid]
    BY VerifyAllStep
  <2>4. VerifyAll(ctx, s \o <<>>) = VerifyAll(mid, <<>>)
    BY <2>1, <2>2, <2>3
  <2> QED BY <2>4
<1>2. ASSUME NEW t \in Seq(Tx), NEW e \in Tx, t \in S
      PROVE  Append(t, e) \in S
  <2>1. s \o Append(t, e) = Append(s \o t, e) /\ s \o t \in Seq(Tx)
    OBVIOUS
  <2>2. VerifyAll(ctx, Append(s \o t, e)) = VerifyTx(VerifyAll(ctx, s \o t), e)
    BY <2>1, VerifyAllStep
  <2>3. VerifyAll(mid, Append(t, e)) = VerifyTx(VerifyAll(mid, t), e)
    BY VerifyAllStep
  <2>4. VerifyAll(ctx, s \o t) = VerifyAll(mid, t)
    BY <1>2
  <2>5. VerifyAll(ctx, s \o Append(t, e)) = VerifyAll(mid, Append(t, e))
    BY <2>1, <2>2, <2>3, <2>4
  <2> QED BY <2>5
<1> HIDE DEF S
<1>3. \A t \in Seq(Tx) : t \in S
  BY <1>1, <1>2, SeqInduction
<1> QED BY <1>3 DEF S

\* A list that verifies moves the senders' sequence numbers on, past those of its
\* transactions, and so holds no transaction twice.
LEMMA VerifiedOnce ==
  ASSUME NEW A, SignedBy(A), NEW ctx \in Contexts(A), NEW s \in Seq(Tx),
         VerifyAll(ctx, s).ok
  PROVE  /\ \A a \in A : ctx[a] <= VerifyAll(ctx, s).ctx[a]
         /\ \A i \in 1 .. Len(s) : Nonce[s[i]] < VerifyAll(ctx, s).ctx[Sender[s[i]]]
         /\ \A i, j \in 1 .. Len(s) : s[i] = s[j] => i = j
<1> DEFINE Moved(r) == \A a \in A : ctx[a] <= VerifyAll(ctx, r).ctx[a]
           Past(r) == \A i \in 1 .. Len(r) :
                        Nonce[r[i]] < VerifyAll(ctx, r).ctx[Sender[r[i]]]
           Once(r) == \A i, j \in 1 .. Len(r) : r[i] = r[j] => i = j
           S == {r \in Seq(Tx) : VerifyAll(ctx, r).ok => Moved(r) /\ Past(r) /\ Once(r)}
<1>1. <<>> \in S
  <2>1. Moved(<<>>)
    BY VerifyAllStep DEF Contexts
  <2> QED BY <2>1
<1>2. ASSUME NEW r \in Seq(Tx), NEW t \in Tx, r \in S
      PROVE  Append(r, t) \in S
  <2> DEFINE q == Append(r, t)
             run == VerifyAll(ctx, r)
             c == VerifyAll(ctx, q).ctx
  <2> SUFFICES ASSUME VerifyAll(ctx, q).ok PROVE Moved(q) /\ Past(q) /\ Once(q)
    <3>1. q \in Seq(Tx)
      OBVIOUS
    <3> HIDE DEF q, Moved, Past, Once
    <3>2. q \in S
      BY <3>1
    <3> QED BY <3>2 DEF q
  <2>1. run \in Runs(A) /\ VerifyAll(ctx, q) = VerifyTx(run, t)
    BY VerifyAllStep, VerifyAllType
  <2>2. run.ok /\ Nonce[t] = run.ctx[Sender[t]] /\ c = [run.ctx EXCEPT ![Sender[t]] = @ + 1]
    <3> HIDE DEF run
    <3> QED BY <2>1, VerifyTxStep
  <2>3. Moved(r) /\ Past(r) /\ Once(r)
    BY <1>2, <2>2
  <2>4. /\ Len(q) = Len(r) + 1 /\ q[Len(r) + 1] = t
        /\ \A i \in 1 .. Len(r) : q[i] = r[i] /\ r[i] \in Tx
    OBVIOUS
  <2>5. run.ctx \in [A -> Nat] /\ \A u \in Tx : Sender[u] \in A /\ Nonce[u] \in Nat
    BY <2>1, LaneAssumptions DEF Runs, Contexts, SignedBy
  <2> HIDE DEF q, run, c, S
  <2>6. \A u \in Tx : c[Sender[u]] = IF Sender[u] = Sender[t] THEN run.ctx[Sender[u]] + 1
                                                             ELSE run.ctx[Sender[u]]
    BY <2>2, <2>5
  <2>7. \A i \in 1 .. Len(r) : Nonce[r[i]] < run.ctx[Sender[r[i]]]
    BY <2>3 DEF run
  <2>8. Past(q)
    <3> SUFFICES ASSUME NEW i \in 1 .. Len(q) PROVE Nonce[q[i]] < c[Sender[q[i]]]
      BY DEF c
    <3>1. CASE i = Len(r) + 1
      BY <2>2, <2>4, <2>5, <2>6, <3>1
    <3>2. CASE i \in 1 .. Len(r)
      <4>1. q[i] = r[i] /\ r[i] \in Tx
        BY <2>4, <3>2
      <4>2. Nonce[r[i]] < run.ctx[Sender[r[i]]]
        BY <2>7, <3>2
      <4> QED BY <2>5, <2>6, <4>1, <4>2
    <3> QED BY <2>4, <3>1, <3>2
  <2>9. Once(q)
    <3>1. \A i \in 1 .. Len(r) : r[i] # t
      BY <2>2, <2>5, <2>7
    <3> QED BY <2>3, <2>4, <3>1
  <2>10. Moved(q)
    <3> SUFFICES ASSUME NEW a \in A PROVE ctx[a] <= c[a]
      BY DEF c
    <3>1. ctx[a] <= run.ctx[a] /\ ctx[a] \in Nat
      BY <2>3 DEF run, Contexts
    <3>2. run.ctx[a] \in Nat /\ (c[a] = run.ctx[a] \/ c[a] = run.ctx[a] + 1)
      BY <2>2, <2>5
    <3> QED BY <3>1, <3>2
  <2> QED BY <2>8, <2>9, <2>10
<1> HIDE DEF S
<1>3. \A r \in Seq(Tx) : r \in S
  BY <1>1, <1>2, SeqInduction
<1> QED BY <1>3 DEF S

-----------------------------------------------------------------------------
(* The default lane's PrepareLaneHandler *)

Selections(A) ==
  [ctx : Contexts(A), size : Nat, gas : 0 .. GasModulus - 1,
   include : Seq(Tx), remove : SUBSET Tx]

\* What the handler of lane l promises of the selection s it makes from the
\* transactions of order, in a context and for a proposal: they execute one after
\* the other and leave the context it returns; they come from its mempool, belong
\* to the lane, can be read, are new to the proposal and within the limit; the
\* running totals are those of the list.
SelectionOk(A, l, ctx, p, limit, order, s) ==
  /\ s \in Selections(A)
  /\ VerifyAll(ctx, s.include) = [ok |-> TRUE, ctx |-> s.ctx]
  /\ ToSet(s.include) \subseteq ToSet(order)
  /\ ToSet(s.include) \subseteq Match[l] \ (p.cache \cup Malformed)
  /\ s.size = TotalSize(s.include) /\ s.gas = TotalGas(s.include)
  /\ s.include # <<>> => s.size <= limit.size /\ s.gas <= limit.gas

\* The elements of a list with one more.
LEMMA ToSetAppend ==
  ASSUME NEW E, NEW s \in Seq(E), NEW e \in E
  PROVE  ToSet(Append(s, e)) = ToSet(s) \cup {e}
<1>1. /\ DOMAIN Append(s, e) = 1 .. Len(s) + 1 /\ DOMAIN s = 1 .. Len(s)
      /\ Append(s, e)[Len(s) + 1] = e /\ \A i \in 1 .. Len(s) : Append(s, e)[i] = s[i]
      /\ Len(s) \in Nat
  OBVIOUS
<1> QED BY <1>1 DEF ToSet

\* Considering one more transaction keeps the promise.
LEMMA ConsiderKeeps ==
  ASSUME NEW A, SignedBy(A), NEW l, NEW ctx \in Contexts(A), NEW p,
         NEW limit \in [size : Int, gas : Int], NEW order \in Seq(Tx), NEW t \in Tx,
         NEW s, SelectionOk(A, l, ctx, p, limit, order, s)
  PROVE  SelectionOk(A, l, ctx, p, limit, Append(order, t), Consider(l, p, limit, s, t))
<1> DEFINE run == VerifyTx([ok |-> TRUE, ctx |-> s.ctx], t)
           skip == t \in p.cache \/ NoRoom(limit, s, t)
           r == Consider(l, p, limit, s, t)
<1>1. s \in Selections(A) /\ s.ctx \in Contexts(A) /\ s.include \in Seq(Tx)
  BY DEF SelectionOk, Selections
<1>2. ToSet(order) \subseteq ToSet(Append(order, t)) /\ t \in ToSet(Append(order, t))
  BY ToSetAppend
<1>3. CASE Unusable(l, limit, t) \/ (~skip /\ ~run.ok)
  <2>1. r = [s EXCEPT !.remove = @ \cup {t}]
    BY <1>3 DEF Consider
  <2>2. /\ r \in Selections(A) /\ r.include = s.include /\ r.ctx = s.ctx
        /\ r.size = s.size /\ r.gas = s.gas
    BY <1>1, <2>1 DEF Selections
  <2> HIDE DEF r
  <2> QED BY <1>2, <2>2 DEF SelectionOk, r
<1>4. CASE ~(Unusable(l, limit, t) \/ (~skip /\ ~run.ok)) /\ skip
  <2>1. r = s
    BY <1>4 DEF Consider
  <2> HIDE DEF r
  <2> QED BY <1>2, <2>1 DEF SelectionOk, r
<1>5. CASE ~(Unusable(l, limit, t) \/ (~skip /\ ~run.ok)) /\ ~skip
  <2>1. r = [s EXCEPT !.ctx = run.ctx, !.size = @ + Size[t],
                      !.gas = Wrap(@ + Gas[t]), !.include = Append(@, t)]
    BY <1>5 DEF Consider
  <2>2. run.ok /\ run \in Runs(A)
    <3>1. [ok |-> TRUE, ctx |-> s.ctx] \in Runs(A)
      BY <1>1 DEF Runs
    <3>2. run \in Runs(A)
      BY <3>1, VerifyTxStep
    <3> QED BY <1>5, <3>2
  <2>3. Size[t] \in Nat /\ Gas[t] \in Nat /\ s.size \in Nat /\ s.gas \in Nat
    BY <1>1, ProposalsAssumptions DEF Selections
  <2>4. Wrap(s.gas + Gas[t]) \in 0 .. GasModulus - 1
    <3>1. s.gas + Gas[t] \in Nat
      BY <2>3
    <3> QED BY <3>1, WrapRange
  <2> HIDE DEF run, r
  <2>5. /\ r.include = Append(s.include, t) /\ r.ctx = run.ctx /\ r.size = s.size + Size[t]
        /\ r.gas = Wrap(s.gas + Gas[t]) /\ r.remove = s.remove
        /\ r \in Selections(A)
    <3>1. run.ctx \in Contexts(A) /\ Append(s.include, t) \in Seq(Tx) /\ s.size + Size[t] \in Nat
      BY <1>1, <2>2, <2>3 DEF Runs
    <3> QED BY <1>1, <2>1, <2>4, <3>1 DEF Selections
  <2>6. VerifyAll(ctx, r.include) = [ok |-> TRUE, ctx |-> r.ctx]
    <3>1. \A q \in Seq(Tx) : VerifyAll(ctx, Append(q, t)) = VerifyTx(VerifyAll(ctx, q), t)
      BY VerifyAllStep
    <3>2. VerifyAll(ctx, r.include) = run
      BY <1>1, <2>5, <3>1 DEF SelectionOk, run
    <3>3. run = [ok |-> TRUE, ctx |-> run.ctx]
      BY <2>2 DEF Runs
    <3> QED BY <2>5, <3>2, <3>3
  <2>7. t \in Match[l] /\ t \notin p.cache \cup Malformed /\ ~NoRoom(limit, s, t)
    BY <1>5 DEF Unusable
  <2>8. ToSet(r.include) = ToSet(s.include) \cup {t}
    BY <1>1, <2>5, ToSetAppend
  <2>9. r.size = TotalSize(r.include) /\ r.gas = TotalGas(r.include)
    BY <1>1, <2>5, TotalSizeStep, TotalGasStep DEF SelectionOk
  <2>10. r.size <= limit.size /\ r.gas <= limit.gas
    <3>1. ~(s.size + Size[t] > limit.size) /\ ~(Wrap(s.gas + Gas[t]) > limit.gas)
      BY <2>7 DEF NoRoom
    <3> QED BY <2>3, <2>4, <2>5, <3>1
  <2> QED BY <1>2, <2>5, <2>6, <2>7, <2>8, <2>9, <2>10 DEF SelectionOk, r
<1> QED BY <1>3, <1>4, <1>5

\* The selection of a default lane keeps the promise.
LEMMA DefaultPrepareOk ==
  ASSUME NEW A, SignedBy(A), NEW l, NEW ctx \in Contexts(A), NEW p,
         NEW limit \in [size : Int, gas : Int], NEW order \in Seq(Tx)
  PROVE  SelectionOk(A, l, ctx, p, limit, order, DefaultPrepare(l, ctx, p, limit, order))
<1> DEFINE par == <<l, p, limit>>
           D(o) == DefaultPrepare(l, ctx, p, limit, o)
           S == {o \in Seq(Tx) : SelectionOk(A, l, ctx, p, limit, o, D(o))}
<1>1. \A o : D(o) = ConsiderFold!Fold(par, Selection(ctx), o)
  BY DEF DefaultPrepare, ConsiderFold!Fold, FoldLeft, MapThenFoldSet, Max, ConsiderStep,
         ConsiderFold!FoldLeft, ConsiderFold!MapThenFoldSet, ConsiderFold!Max
<1> HIDE DEF D
<1>2. D(<<>>) = Selection(ctx)
  BY <1>1, ConsiderFold!FoldEmpty
<1>3. ASSUME NEW o \in Seq(Tx), NEW t \in Tx
      PROVE  D(Append(o, t)) = Consider(l, p, limit, D(o), t)
  <2>1. D(Append(o, t)) = ConsiderStep(par, D(o), t)
    <3> HIDE DEF par
    <3> QED BY <1>1, ConsiderFold!FoldAppend
  <2> QED BY <2>1 DEF ConsiderStep
<1>4. <<>> \in S
  <2> DEFINE s == Selection(ctx)
  <2>1. /\ s.ctx = ctx /\ s.size = 0 /\ s.gas = 0 /\ s.include = <<>> /\ s.remove = {}
        /\ s \in Selections(A)
    BY ProposalsAssumptions DEF Selection, Selections
  <2>2. VerifyAll(ctx, s.include) = [ok |-> TRUE, ctx |-> s.ctx]
    BY <2>1, VerifyAllStep
  <2>3. ToSet(s.include) = {}
    BY <2>1 DEF ToSet
  <2> HIDE DEF s
  <2>4. SelectionOk(A, l, ctx, p, limit, <<>>, s)
    BY <2>1, <2>2, <2>3, TotalSizeStep, TotalGasStep DEF SelectionOk
  <2> QED BY <1>2, <2>4 DEF s
<1>5. ASSUME NEW o \in Seq(Tx), NEW t \in Tx, o \in S
      PROVE  Append(o, t) \in S
  <2>1. SelectionOk(A, l, ctx, p, limit, Append(o, t), Consider(l, p, limit, D(o), t))
    BY <1>5, ConsiderKeeps
  <2> QED BY <1>3, <2>1
<1> HIDE DEF S
<1>6. order \in S
  BY <1>4, <1>5, SeqInduction
<1> QED BY <1>6 DEF S, D

-----------------------------------------------------------------------------
(* The auction lane's PrepareLaneHandler *)

\* What a selection of the auction lane promises: nothing, or one bid of its
\* mempool with its bundle, which has no bid; they execute one after the other and
\* leave the context returned, are new to the proposal and within the limit.
BidSelectionOk(A, ctx, p, limit, order, s) ==
  /\ s.ctx \in Contexts(A) /\ s.include \in Seq(Tx) /\ s.remove \subseteq ToSet(order)
  /\ VerifyAll(ctx, s.include) = [ok |-> TRUE, ctx |-> s.ctx]
  /\ s.include # <<>> =>
       \E b \in ToSet(order) \cap Match[MEVLane] :
         /\ s.include = WithBundle(b)
         /\ ToSet(Bundle[b]) \cap Match[MEVLane] = {}
         /\ VerifyBidBasic(p, limit, b)

\* A bid and its bundle are a list of transactions.
LEMMA WithBundleType ==
  ASSUME MEVLane \in DOMAIN Match, NEW b \in Match[MEVLane]
  PROVE  /\ b \in Tx /\ Bundle[b] \in Seq(Tx) /\ WithBundle(b) \in Seq(Tx)
         /\ WithBundle(b) # <<>> /\ WithBundle(b)[1] = b
         /\ Len(WithBundle(b)) = Len(Bundle[b]) + 1
         /\ \A i \in 2 .. Len(WithBundle(b)) : WithBundle(b)[i] \in ToSet(Bundle[b])
<1>1. b \in Tx /\ Bundle[b] \in Seq(Tx)
  BY LaneAssumptions
<1>2. <<b>> \in Seq(Tx) /\ Len(<<b>>) = 1
  BY <1>1
<1>3. /\ WithBundle(b) \in Seq(Tx) /\ Len(WithBundle(b)) = Len(Bundle[b]) + 1
      /\ \A i \in 1 .. Len(WithBundle(b)) :
           WithBundle(b)[i] = IF i <= 1 THEN b ELSE Bundle[b][i - 1]
  BY <1>1, <1>2 DEF WithBundle
<1>4. \A i \in 2 .. Len(WithBundle(b)) : Bundle[b][i - 1] \in ToSet(Bundle[b])
  BY <1>1, <1>3 DEF ToSet
<1> QED BY <1>1, <1>3, <1>4

\* VerifyBidTx verifies the bid and the bundle, which has no bid.
LEMMA VerifyBidTxOk ==
  ASSUME NEW A, SignedBy(A), NEW ctx \in Contexts(A),
         MEVLane \in DOMAIN Match, NEW b \in Match[MEVLane], VerifyBidTx(ctx, b).ok
  PROVE  /\ VerifyBidTx(ctx, b).ctx \in Contexts(A)
         /\ VerifyAll(ctx, WithBundle(b)) = [ok |-> TRUE, ctx |-> VerifyBidTx(ctx, b).ctx]
         /\ ToSet(Bundle[b]) \cap Match[MEVLane] = {}
<1> DEFINE run == VerifyAll(ctx, WithBundle(b))
<1>1. run \in Runs(A)
  BY WithBundleType, VerifyAllType
<1>2. VerifyBidTx(ctx, b) = [run EXCEPT !.ok = @ /\ ToSet(Bundle[b]) \cap Match[MEVLane] = {}]
  BY DEF VerifyBidTx
<1> HIDE DEF run
<1>3. /\ run.ok /\ ToSet(Bundle[b]) \cap Match[MEVLane] = {}
      /\ VerifyBidTx(ctx, b).ctx = run.ctx
  BY <1>1, <1>2 DEF Runs
<1>4. run = [ok |-> TRUE, ctx |-> run.ctx] /\ run.ctx \in Contexts(A)
  BY <1>1, <1>3 DEF Runs
<1> QED BY <1>3, <1>4 DEF run

\* The selection of the auction lane keeps the promise.
LEMMA MEVPrepareOk ==
  ASSUME NEW A, SignedBy(A), NEW ctx \in Contexts(A), NEW p, NEW limit,
         NEW order \in Seq(Tx), MEVLane \in DOMAIN Match
  PROVE  BidSelectionOk(A, ctx, p, limit, order, MEVPrepare(ctx, p, limit, order))
<1> DEFINE I == {i \in 1 .. Len(order) : BidOk(ctx, p, limit, order[i])}
           s == MEVPrepare(ctx, p, limit, order)
           sel == Selection(ctx)
<1>1. /\ sel \in Selections(A) /\ sel.ctx = ctx /\ sel.include = <<>>
  BY ProposalsAssumptions DEF Selection, Selections
<1>2. CASE I = {}
  <2>1. s = [sel EXCEPT !.remove = ToSet(order)]
    BY <1>2 DEF MEVPrepare, FirstBid, SelectInSeq
  <2> HIDE DEF s, sel
  <2>2. s.ctx = ctx /\ s.include = <<>> /\ s.remove = ToSet(order)
    BY <1>1, <2>1 DEF Selections
  <2>3. VerifyAll(ctx, s.include) = [ok |-> TRUE, ctx |-> s.ctx]
    BY <2>2, VerifyAllStep
  <2>4. s.include \in Seq(Tx)
    BY <2>2
  <2> QED BY <2>2, <2>3, <2>4 DEF BidSelectionOk, s
<1>3. CASE I # {}
  <2> DEFINE i == Min(I)
             b == order[i]
  <2>1. i \in 1 .. Len(order) /\ BidOk(ctx, p, limit, b)
    <3>1. I \in SUBSET Nat
      OBVIOUS
    <3> HIDE DEF I
    <3>2. i \in I
      BY <1>3, <3>1, MinIn
    <3> QED BY <3>2 DEF I
  <2>2. s = [sel EXCEPT !.remove = ToSet(SubSeq(order, 1, i - 1)),
                        !.include = WithBundle(b), !.ctx = VerifyBidTx(ctx, b).ctx]
    <3>1. i # 0
      BY <2>1
    <3> QED BY <1>3, <3>1 DEF MEVPrepare, FirstBid, SelectInSeq
  <2> HIDE DEF s, sel, i, I, b
  <2>3. b \in Match[MEVLane] /\ VerifyBidBasic(p, limit, b) /\ VerifyBidTx(ctx, b).ok
    BY <2>1 DEF BidOk
  <2>4. b \in ToSet(order)
    BY <2>1 DEF ToSet, b
  <2>5. ToSet(SubSeq(order, 1, i - 1)) \subseteq ToSet(order)
    BY <2>1 DEF ToSet
  <2>6. /\ s.remove = ToSet(SubSeq(order, 1, i - 1)) /\ s.include = WithBundle(b)
        /\ s.ctx = VerifyBidTx(ctx, b).ctx
    BY <1>1, <2>2 DEF Selections
  <2>7. /\ VerifyBidTx(ctx, b).ctx \in Contexts(A)
        /\ VerifyAll(ctx, WithBundle(b)) = [ok |-> TRUE, ctx |-> VerifyBidTx(ctx, b).ctx]
        /\ ToSet(Bundle[b]) \cap Match[MEVLane] = {}
    BY <2>3, VerifyBidTxOk
  <2>8. WithBundle(b) \in Seq(Tx)
    BY <2>3, WithBundleType
  <2> QED BY <2>3, <2>4, <2>5, <2>6, <2>7, <2>8 DEF BidSelectionOk, s
<1> QED BY <1>2, <1>3

-----------------------------------------------------------------------------
(* The mempool, the limits and the proposal *)

\* An order of a finite pool is a list of its transactions.
LEMMA SelectType ==
  ASSUME NEW pool \in SUBSET Tx, IsFiniteSet(pool), NEW order \in Select(pool)
  PROVE  order \in Seq(Tx) /\ ToSet(order) \subseteq pool
<1> DEFINE S == {Slot(t) : t \in pool}
           TxAt(s) == CHOOSE t \in pool : Slot(t) = s
           n == Cardinality(S)
<1>1. IsFiniteSet(S)
  <2> DEFINE f == [t \in pool |-> Slot(t)]
  <2>1. f \in Surjection(pool, S)
    BY DEF Surjection
  <2> HIDE DEF f, S
  <2> QED BY <2>1, FS_Surjection
<1>2. n \in Nat
  <2> HIDE DEF S
  <2> QED BY <1>1, FS_CardinalityType
<1>3. PICK o \in [1 .. n -> S] : order = [i \in 1 .. n |-> TxAt(o[i])]
  BY DEF Select, SetToSeqs
<1>4. \A s \in S : TxAt(s) \in pool
  OBVIOUS
<1> HIDE DEF n, S, TxAt
<1>5. order \in [1 .. n -> pool]
  BY <1>3, <1>4
<1>6. order \in Seq(pool) /\ order \in Seq(Tx)
  BY <1>2, <1>5
<1> QED BY <1>5, <1>6 DEF ToSet

\* A lane's limits are numbers.
LEMMA LaneLimitsType ==
  ASSUME NEW D, NEW p \in Proposal(D), NEW l \in DOMAIN MaxBlockSpace
  PROVE  GetLaneLimits(p, l) \in [size : Int, gas : Int]
<1>1. p.maxSize \in Int /\ p.maxGas \in Int /\ p.size \in Int /\ p.gas \in Int
  BY DEF Proposal
<1>0. MaxBlockSpace[l] \in 0 .. 100
  BY ProposalsAssumptions
<1>2. \A n \in Int : Share(l, n) \in Int
  BY <1>0 DEF Share
<1>3. \A n \in Int : Max({0, n}) \in Int
  BY DEF Max
<1>4. CASE MaxBlockSpace[l] = 0
  BY <1>1, <1>3, <1>4 DEF GetLaneLimits
<1>5. CASE MaxBlockSpace[l] # 0
  BY <1>1, <1>2, <1>5 DEF GetLaneLimits
<1> QED BY <1>4, <1>5

\* What a successful UpdateProposal promises: q is p with the lane's transactions
\* appended and counted.
ExtendedBy(D, p, l, txs, q) ==
  /\ txs = <<>> => q = p
  /\ txs # <<>> => /\ q \in Proposal(D \cup {l})
                   /\ q.txsByLane = [k \in D \cup {l} |->
                                       IF k = l THEN Len(txs) ELSE p.txsByLane[k]]
                   /\ q.gas = Wrap(p.gas + TotalGas(txs))
  /\ q.txs = p.txs \o txs
  /\ q.cache = p.cache \cup ToSet(txs)
  /\ q.size = p.size + TotalSize(txs)
  /\ q.maxSize = p.maxSize /\ q.maxGas = p.maxGas

\* UpdateProposal keeps the promise.
LEMMA UpdatedType ==
  ASSUME NEW D, NEW p \in Proposal(D), NEW l, NEW txs \in Seq(Tx),
         NEW q, q = Updated(p, l, txs)
  PROVE  ExtendedBy(D, p, l, txs, q)
<1>1. /\ p.txs \in Seq(Tx) /\ p.cache \subseteq Tx /\ p.txsByLane \in [D -> Nat]
      /\ p.size \in Nat /\ p.gas \in Nat
  BY ProposalsAssumptions DEF Proposal
<1>2. CASE txs = <<>>
  <2>1. ToSet(txs) = {} /\ TotalSize(txs) = 0 /\ p.txs \o txs = p.txs
    BY <1>1, <1>2, TotalSizeStep DEF ToSet
  <2>2. q = p
    BY <1>2 DEF Updated
  <2> QED BY <1>1, <1>2, <2>1, <2>2 DEF ExtendedBy
<1>3. CASE txs # <<>>
  <2> DEFINE byLane == [k \in D \cup {l} |-> IF k = l THEN Len(txs) ELSE p.txsByLane[k]]
             size == p.size + TotalSize(txs)
             gas == Wrap(p.gas + TotalGas(txs))
  <2>1. q = [p EXCEPT !.txs = @ \o txs, !.cache = @ \cup ToSet(txs), !.size = size,
                      !.gas = gas, !.txsByLane = byLane]
    BY <1>1, <1>3 DEF Updated
  <2>2. p.txs \o txs \in Seq(Tx) /\ p.cache \cup ToSet(txs) \in SUBSET Tx
    BY <1>1 DEF ToSet
  <2>3. size \in Nat
    BY <1>1, TotalSizeConcat
  <2>4. gas \in 0 .. GasModulus - 1
    <3>1. TotalGas(txs) \in Nat
      BY TotalGasType
    <3>2. p.gas + TotalGas(txs) \in Nat
      BY <1>1, <3>1
    <3> QED BY <3>2, WrapRange
  <2>5. byLane \in [D \cup {l} -> Nat]
    BY <1>1
  <2> HIDE DEF byLane, size, gas
  <2>6. /\ q.txs = p.txs \o txs /\ q.cache = p.cache \cup ToSet(txs) /\ q.size = size
        /\ q.txsByLane = byLane /\ q.maxSize = p.maxSize /\ q.maxGas = p.maxGas
        /\ q.gas = gas
        /\ q \in Proposal(D \cup {l})
    BY <2>1, <2>2, <2>3, <2>4, <2>5 DEF Proposal
  <2> QED BY <1>3, <2>6 DEF byLane, size, gas, ExtendedBy
<1> QED BY <1>2, <1>3

-----------------------------------------------------------------------------
(* ProcessLaneHandler *)

\* What a handler that accepts promises: the lane's transactions and the rest are
\* the list it was given, and the lane's transactions execute one after the other
\* and leave the context it returns.
ProcessedOk(A, ctx, txs, h) ==
  /\ h.ctx \in Contexts(A) /\ h.own \in Seq(Tx) /\ h.rest \in Seq(Tx)
  /\ h.own \o h.rest = txs
  /\ VerifyAll(ctx, h.own) = [ok |-> TRUE, ctx |-> h.ctx]

\* A lane that accepts keeps the promise.
LEMMA ProcessLaneOk ==
  ASSUME NEW A, SignedBy(A), NEW l \in DOMAIN Match, NEW ctx \in Contexts(A),
         NEW txs \in Seq(Tx), txs # <<>>, ProcessLaneHandler(l, ctx, txs).ok
  PROVE  ProcessedOk(A, ctx, txs, ProcessLaneHandler(l, ctx, txs))
<1> DEFINE h == ProcessLaneHandler(l, ctx, txs)
<1>1. CASE l = MEVLane
  <2> DEFINE b == Head(txs)
             n == Len(WithBundle(b))
  <2>1. CASE b \notin Match[MEVLane]
    <3>1. h.ctx = ctx /\ h.own = <<>> /\ h.rest = txs
      BY <1>1, <2>1 DEF ProcessLaneHandler, MEVProcess
    <3>2. VerifyAll(ctx, <<>>) = [ok |-> TRUE, ctx |-> ctx]
      BY VerifyAllStep
    <3> HIDE DEF h
    <3> QED BY <3>1, <3>2 DEF ProcessedOk, h
  <2>2. CASE b \in Match[MEVLane]
    <3>1. /\ h.ctx = VerifyBidTx(ctx, b).ctx /\ h.own = WithBundle(b)
          /\ h.rest = SubSeq(txs, n + 1, Len(txs))
          /\ h.ok = (n <= Len(txs) /\ SubSeq(txs, 1, n) = WithBundle(b) /\ VerifyBidTx(ctx, b).ok)
      BY <1>1, <2>2 DEF ProcessLaneHandler, MEVProcess
    <3>2. n <= Len(txs) /\ SubSeq(txs, 1, n) = WithBundle(b) /\ VerifyBidTx(ctx, b).ok
      BY <3>1
    <3>3. WithBundle(b) \in Seq(Tx) /\ n \in Nat
      BY <1>1, <2>2, WithBundleType
    <3>4. /\ VerifyBidTx(ctx, b).ctx \in Contexts(A)
          /\ VerifyAll(ctx, WithBundle(b)) = [ok |-> TRUE, ctx |-> VerifyBidTx(ctx, b).ctx]
      BY <1>1, <2>2, <3>2, VerifyBidTxOk
    <3>5. SubSeq(txs, 1, n) \o SubSeq(txs, n + 1, Len(txs)) = txs
      <4> HIDE DEF n, b
      <4>1. 1 \in 1 .. Len(txs) + 1 /\ n \in 1 - 1 .. Len(txs) /\ Len(txs) \in n .. Len(txs)
        BY <3>2, <3>3
      <4>2. SubSeq(txs, 1, n) \o SubSeq(txs, n + 1, Len(txs)) = SubSeq(txs, 1, Len(txs))
        BY <4>1, ConcatAdjacentSubSeq
      <4> QED BY <4>2, SubSeqFull
    <3>6. SubSeq(txs, n + 1, Len(txs)) \in Seq(Tx)
      <4> HIDE DEF n
      <4> QED BY <3>3
    <3> HIDE DEF h, n, b
    <3> QED BY <3>1, <3>2, <3>3, <3>4, <3>5, <3>6 DEF ProcessedOk, h
  <2> QED BY <2>1, <2>2
<1>2. CASE l # MEVLane
  <2> DEFINE n == OwnPrefix(l, txs)
             own == SubSeq(txs, 1, n)
  <2>1. n \in 0 .. Len(txs)
    <3> DEFINE N == {k \in 0 .. Len(txs) : \A i \in 1 .. k : txs[i] \in Match[l]}
    <3>1. 0 \in N /\ N \in SUBSET (0 .. Len(txs)) /\ Len(txs) \in Nat
      OBVIOUS
    <3> HIDE DEF N
    <3>2. Max(N) \in N
      BY <3>1, MaxIn
    <3> QED BY <3>1, <3>2 DEF OwnPrefix, N
  <2>2. /\ h.ctx = VerifyAll(ctx, own).ctx /\ h.own = own
        /\ h.rest = SubSeq(txs, n + 1, Len(txs)) /\ VerifyAll(ctx, own).ok
    BY <1>2 DEF ProcessLaneHandler, DefaultProcess
  <2> HIDE DEF n, h
  <2>3. own \in Seq(Tx) /\ SubSeq(txs, n + 1, Len(txs)) \in Seq(Tx)
    BY <2>1
  <2>4. own \o SubSeq(txs, n + 1, Len(txs)) = txs
    <3>1. 1 \in 1 .. Len(txs) + 1 /\ n \in 1 - 1 .. Len(txs) /\ Len(txs) \in n .. Len(txs)
      BY <2>1
    <3>2. own \o SubSeq(txs, n + 1, Len(txs)) = SubSeq(txs, 1, Len(txs))
      BY <3>1, ConcatAdjacentSubSeq
    <3> QED BY <3>2, SubSeqFull
  <2> HIDE DEF own
  <2>5. VerifyAll(ctx, own) \in Runs(A)
    BY <2>3, VerifyAllType
  <2>6. VerifyAll(ctx, own).ctx \in Contexts(A)
        /\ VerifyAll(ctx, own) = [ok |-> TRUE, ctx |-> VerifyAll(ctx, own).ctx]
    BY <2>2, <2>5 DEF Runs
  <2> QED BY <2>2, <2>3, <2>4, <2>6 DEF ProcessedOk, h
<1> QED BY <1>1, <1>2

=============================================================================
