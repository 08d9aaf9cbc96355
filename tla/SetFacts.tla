------------------------------ MODULE SetFacts ------------------------------
(***************************************************************************)
(* Facts about the operators of the community modules that the models are  *)
(* built from and the proofs keep needing.  Each rests on a least          *)
(* counterexample (WFMin), which asks for no induction over a predicate.   *)
(***************************************************************************)
EXTENDS Integers, FiniteSets, FiniteSetsExt, FiniteSetTheorems, NaturalsInduction,
        WellFoundedInduction, TLAPS

\* A set of natural numbers has a least element.
LEMMA LeastNatural ==
    ASSUME NEW T, T \subseteq Nat, T # {}
    PROVE  \E x \in T : \A y \in T : x <= y
<1> DEFINE R == OpToRel(<, Nat)
<1>1. IsWellFoundedOn(R, Nat)
  BY NatLessThanWellFounded
<1>2. R = {p \in Nat \X Nat : p[1] < p[2]}
  BY DEF OpToRel
<1> HIDE DEF R
<1>3. PICK x \in T : \A y \in T : ~(<<y, x>> \in R)
  BY <1>1, WFMin
<1>4. \A y \in T : ~(y < x)
  BY <1>2, <1>3
<1> QED
  BY <1>4

\* Min finds it.
LEMMA MinOfNaturals ==
    ASSUME NEW T, T \subseteq Nat, T # {}
    PROVE  Min(T) \in T /\ \A y \in T : Min(T) <= y
  BY LeastNatural DEF Min

\* The greater of two numbers.
LEMMA MaxOfTwo == \A a, b \in Int : Max({a, b}) = IF a >= b THEN a ELSE b
<1> SUFFICES ASSUME NEW a \in Int, NEW b \in Int
             PROVE  Max({a, b}) = IF a >= b THEN a ELSE b
  OBVIOUS
<1>1. CASE a >= b
  BY <1>1 DEF Max
<1>2. CASE ~(a >= b)
  BY <1>2 DEF Max
<1> QED
  BY <1>1, <1>2

\* The lesser of two numbers.
LEMMA MinOfTwo == \A a, b \in Int : Min({a, b}) = IF a <= b THEN a ELSE b
<1> SUFFICES ASSUME NEW a \in Int, NEW b \in Int
             PROVE  Min({a, b}) = IF a <= b THEN a ELSE b
  OBVIOUS
<1>1. CASE a <= b
  BY <1>1 DEF Min
<1>2. CASE ~(a <= b)
  BY <1>2 DEF Min
<1> QED
  BY <1>1, <1>2

\* A set of integers with an upper bound has a greatest element.
LEMMA MaxOfBounded ==
    ASSUME NEW S, S \subseteq Int, S # {}, NEW bound \in Int, \A x \in S : x <= bound
    PROVE  Max(S) \in S /\ \A x \in S : Max(S) >= x
<1> DEFINE T == {bound - x : x \in S}
<1>1. T \subseteq Nat /\ T # {}
  <2>1. \A x \in S : bound - x \in Nat
    OBVIOUS
  <2>2. PICK e \in S : TRUE
    OBVIOUS
  <2>3. bound - e \in T
    OBVIOUS
  <2> QED
    BY <2>1, <2>3
<1>2. PICK t \in T : \A y \in T : t <= y
  BY <1>1, LeastNatural
<1>3. PICK m \in S : t = bound - m
  BY <1>2
<1>4. \A x \in S : m >= x
  <2> SUFFICES ASSUME NEW x \in S PROVE m >= x
    OBVIOUS
  <2>1. bound - m <= bound - x
    BY <1>2, <1>3
  <2> QED
    BY <2>1
<1> QED
  BY <1>4 DEF Max

-----------------------------------------------------------------------------
(* Sums.  MapThenSumSet takes the elements of a set one by one, in the order of *)
(* CHOOSE, by a recursive function on the subsets.  Sum is that sum for the     *)
(* values of a function, and the lemmas below are what adding up should satisfy: *)
(* the order does not matter.                                                   *)

Picked(s) == CHOOSE x \in s : TRUE

\* g is the recursive function behind MapThenSumSet.
Adds(g, F, S) ==
    g = [s \in SUBSET S |-> IF s = {} THEN 0 ELSE F[Picked(s)] + g[s \ {Picked(s)}]]

Sum(F, S) == MapThenSumSet(LAMBDA x : F[x], S)

LEMMA PickedIn ==
    ASSUME NEW s, s # {} PROVE Picked(s) \in s
BY DEF Picked

\* Of several finite sets one has the fewest elements.
LEMMA SmallestSet ==
    ASSUME NEW B, B # {}, \A t \in B : IsFiniteSet(t)
    PROVE  \E t \in B : \A u \in B : Cardinality(t) <= Cardinality(u)
<1> DEFINE sizes == {Cardinality(t) : t \in B}
<1>1. sizes \subseteq Nat /\ sizes # {}
  BY FS_CardinalityType
<1>2. PICK n \in sizes : \A y \in sizes : n <= y
  BY <1>1, LeastNatural
<1> QED
  BY <1>2

LEMMA Smaller ==
    ASSUME NEW t, IsFiniteSet(t), NEW x \in t
    PROVE  /\ IsFiniteSet(t \ {x}) /\ Cardinality(t) \in Nat /\ Cardinality(t \ {x}) \in Nat
           /\ Cardinality(t \ {x}) = Cardinality(t) - 1
BY FS_RemoveElement, FS_CardinalityType

LEMMA Smallest ==
    ASSUME NEW B, NEW t \in B, IsFiniteSet(t), \A u \in B : Cardinality(t) <= Cardinality(u),
           NEW x \in t
    PROVE  t \ {x} \notin B
<1>1. /\ Cardinality(t) \in Nat /\ Cardinality(t \ {x}) \in Nat
      /\ Cardinality(t \ {x}) = Cardinality(t) - 1
  BY Smaller
<1>2. ~(Cardinality(t) <= Cardinality(t \ {x}))
  BY <1>1
<1> QED
  BY <1>2

LEMMA AddsExists ==
    ASSUME NEW S, IsFiniteSet(S), NEW F, \A x \in S : F[x] \in Int
    PROVE  \E g : Adds(g, F, S)
<1> DEFINE Piece(n) == {s \in SUBSET S : Cardinality(s) <= n}
           Step(g, s) == IF s = {} THEN 0 ELSE F[Picked(s)] + g[s \ {Picked(s)}]
           Good(n) == \E g : g = [s \in Piece(n) |-> Step(g, s)]
<1>1. \A s \in SUBSET S : IsFiniteSet(s) /\ Cardinality(s) \in Nat
  BY FS_Subset, FS_CardinalityType
<1>2. Good(0)
  <2>1. Piece(0) = {{}}
    <3>1. ASSUME NEW s \in Piece(0) PROVE s = {}
      BY <1>1, FS_EmptySet
    <3>2. {} \in Piece(0)
      BY FS_EmptySet
    <3> QED
      BY <3>1, <3>2, Zenon
  <2>2. PICK g : g = [s \in Piece(0) |-> 0]
    OBVIOUS
  <2>3. \A s \in Piece(0) : Step(g, s) = 0
    BY <2>1
  <2>4. g = [s \in Piece(0) |-> Step(g, s)]
    BY <2>2, <2>3, Zenon
  <2> QED
    BY <2>4
<1>3. ASSUME NEW m \in Nat, Good(m) PROVE Good(m + 1)
  <2>1. PICK h : h = [s \in Piece(m) |-> Step(h, s)]
    BY <1>3
  <2>2. PICK g : g = [s \in Piece(m + 1) |-> Step(h, s)]
    OBVIOUS
  <2>3. ASSUME NEW s \in Piece(m + 1), s # {} PROVE s \ {Picked(s)} \in Piece(m)
    <3>1. Picked(s) \in s
      BY <2>3, PickedIn
    <3>2. s \in SUBSET S /\ Cardinality(s) <= m + 1
      OBVIOUS
    <3>3. Cardinality(s \ {Picked(s)}) = Cardinality(s) - 1 /\ Cardinality(s) \in Nat
      BY <1>1, <3>1, <3>2, Smaller
    <3>4. Cardinality(s \ {Picked(s)}) <= m
      BY <3>2, <3>3
    <3> QED
      BY <3>2, <3>4
  <2>4. ASSUME NEW s \in Piece(m) PROVE s \in Piece(m + 1) /\ g[s] = h[s]
    <3>1. s \in Piece(m + 1)
      <4>1. Cardinality(s) <= m /\ Cardinality(s) \in Nat
        BY <1>1
      <4>2. Cardinality(s) <= m + 1
        BY <4>1
      <4> QED
        BY <4>2
    <3> HIDE DEF Piece, Step
    <3> QED
      BY <2>1, <2>2, <3>1
  <2>5. ASSUME NEW s \in Piece(m + 1) PROVE Step(g, s) = Step(h, s)
    <3>1. CASE s = {}
      BY <3>1
    <3>2. CASE s # {}
      <4>1. g[s \ {Picked(s)}] = h[s \ {Picked(s)}]
        BY <2>3, <2>4, <3>2
      <4> QED
        BY <3>2, <4>1
    <3> QED
      BY <3>1, <3>2
  <2>6. g = [s \in Piece(m + 1) |-> Step(g, s)]
    <3> HIDE DEF Piece, Step
    <3> QED
      BY <2>2, <2>5
  <2> QED
    BY <2>6
<1> DEFINE T == {n \in Nat : ~Good(n)}
<1> HIDE DEF Good
<1>4. T = {}
  <2> SUFFICES ASSUME T # {} PROVE FALSE
    OBVIOUS
  <2>1. PICK n \in T : \A y \in T : n <= y
    BY LeastNatural
  <2>2. n \in Nat \ {0}
    BY <1>2, <2>1
  <2>3. n - 1 \in Nat /\ n - 1 \notin T
    BY <2>1, <2>2
  <2>4. Good((n - 1) + 1)
    BY <1>3, <2>3
  <2>5. (n - 1) + 1 = n
    BY <2>2
  <2> QED
    BY <2>1, <2>4, <2>5
<1>5. Good(Cardinality(S))
  BY <1>1, <1>4
<1>6. Piece(Cardinality(S)) = SUBSET S
  BY FS_Subset
<1>7. PICK g : g = [s \in Piece(Cardinality(S)) |-> Step(g, s)]
  BY <1>5 DEF Good
<1>8. g = [s \in SUBSET S |-> Step(g, s)]
  <2> HIDE DEF Piece, Step
  <2> QED
    BY <1>6, <1>7
<1> QED
  BY <1>8 DEF Adds

\* Its values are numbers, and depend on the function only where it is summed.
LEMMA AddsTyped ==
    ASSUME NEW S, IsFiniteSet(S), NEW F, \A x \in S : F[x] \in Int, NEW g, Adds(g, F, S)
    PROVE  \A s \in SUBSET S : g[s] \in Int
<1> DEFINE B == {s \in SUBSET S : g[s] \notin Int}
<1> SUFFICES ASSUME B # {} PROVE FALSE
  OBVIOUS
<1>1. \A s \in SUBSET S : IsFiniteSet(s)
  BY FS_Subset
<1>2. PICK t \in B : \A u \in B : Cardinality(t) <= Cardinality(u)
  BY <1>1, SmallestSet
<1>3. g[t] = IF t = {} THEN 0 ELSE F[Picked(t)] + g[t \ {Picked(t)}]
  BY DEF Adds
<1>4. CASE t = {}
  BY <1>2, <1>3, <1>4
<1>5. CASE t # {}
  <2>0. IsFiniteSet(t)
    BY <1>1, <1>2
  <2>1. Picked(t) \in t /\ t \in SUBSET S
    BY <1>5, PickedIn
  <2>2. t \ {Picked(t)} \notin B
    <3> HIDE DEF B
    <3> QED
      BY <1>2, <2>0, <2>1, Smallest
  <2>3. g[t \ {Picked(t)}] \in Int /\ F[Picked(t)] \in Int
    BY <2>1, <2>2
  <2> QED
    BY <1>2, <1>3, <1>5, <2>3
<1> QED
  BY <1>4, <1>5

LEMMA AddsAgree ==
    ASSUME NEW S, NEW U, NEW F, NEW G, NEW g, NEW h, Adds(g, F, S), Adds(h, G, U),
           NEW s, IsFiniteSet(s), s \subseteq S, s \subseteq U, \A x \in s : F[x] = G[x]
    PROVE  g[s] = h[s]
<1> DEFINE B == {t \in SUBSET s : g[t] # h[t]}
<1> SUFFICES ASSUME B # {} PROVE FALSE
  OBVIOUS
<1>1. \A t \in SUBSET s : IsFiniteSet(t)
  BY FS_Subset
<1>2. PICK t \in B : \A u \in B : Cardinality(t) <= Cardinality(u)
  BY <1>1, SmallestSet
<1>3. /\ g[t] = IF t = {} THEN 0 ELSE F[Picked(t)] + g[t \ {Picked(t)}]
      /\ h[t] = IF t = {} THEN 0 ELSE G[Picked(t)] + h[t \ {Picked(t)}]
  BY DEF Adds
<1>4. CASE t = {}
  BY <1>2, <1>3, <1>4
<1>5. CASE t # {}
  <2>0. IsFiniteSet(t)
    BY <1>1, <1>2
  <2>1. Picked(t) \in t /\ t \in SUBSET s
    BY <1>5, PickedIn
  <2>2. t \ {Picked(t)} \notin B
    <3> HIDE DEF B
    <3> QED
      BY <1>2, <2>0, <2>1, Smallest
  <2>3. g[t \ {Picked(t)}] = h[t \ {Picked(t)}] /\ F[Picked(t)] = G[Picked(t)]
    BY <2>1, <2>2
  <2> QED
    BY <1>2, <1>3, <1>5, <2>3
<1> QED
  BY <1>4, <1>5

\* Any element may be taken first.
LEMMA AddsAnyOrder ==
    ASSUME NEW S, IsFiniteSet(S), NEW F, \A x \in S : F[x] \in Int, NEW g, Adds(g, F, S)
    PROVE  \A s \in SUBSET S : \A x \in s : g[s] = F[x] + g[s \ {x}]
<1> DEFINE B == {s \in SUBSET S : \E x \in s : g[s] # F[x] + g[s \ {x}]}
<1> SUFFICES ASSUME B # {} PROVE FALSE
  OBVIOUS
<1>1. \A s \in SUBSET S : IsFiniteSet(s)
  BY FS_Subset
<1>2. PICK t \in B : \A u \in B : Cardinality(t) <= Cardinality(u)
  BY <1>1, SmallestSet
<1>3. PICK x \in t : g[t] # F[x] + g[t \ {x}]
  BY <1>2
<1>4. PICK p : p = Picked(t)
  OBVIOUS
<1>5. p \in t /\ t \in SUBSET S /\ g[t] = F[p] + g[t \ {p}]
  BY <1>3, <1>4, PickedIn DEF Adds
<1>6. p # x
  BY <1>3, <1>5
<1>7. t \ {p} \notin B /\ t \ {x} \notin B
  <2>1. IsFiniteSet(t)
    BY <1>1, <1>2
  <2> HIDE DEF B
  <2> QED
    BY <1>2, <1>3, <1>5, <2>1, Smallest
<1>8. g[t \ {p}] = F[x] + g[(t \ {p}) \ {x}] /\ g[t \ {x}] = F[p] + g[(t \ {x}) \ {p}]
  <2>1. t \ {p} \in SUBSET S /\ t \ {x} \in SUBSET S /\ x \in t \ {p} /\ p \in t \ {x}
    BY <1>3, <1>5, <1>6
  <2> QED
    BY <1>7, <2>1
<1>9. (t \ {p}) \ {x} = (t \ {x}) \ {p}
  OBVIOUS
<1>10. g[(t \ {x}) \ {p}] \in Int /\ F[x] \in Int /\ F[p] \in Int
  <2>1. (t \ {x}) \ {p} \in SUBSET S
    BY <1>5
  <2> QED
    BY <1>3, <1>5, <2>1, AddsTyped
<1>11. g[t] = F[p] + (F[x] + g[(t \ {x}) \ {p}])
  BY <1>5, <1>8, <1>9, Zenon
<1>12. \A a, b, c \in Int : b + (a + c) = a + (b + c)
  OBVIOUS
<1>13. g[t] = F[x] + (F[p] + g[(t \ {x}) \ {p}])
  BY <1>10, <1>11, <1>12, Zenon
<1> QED
  BY <1>3, <1>8, <1>13, Zenon

LEMMA SumAdds ==
    ASSUME NEW S, IsFiniteSet(S), NEW F, \A x \in S : F[x] \in Int
    PROVE  \E g : Adds(g, F, S) /\ Sum(F, S) = g[S]
<1> DEFINE iter == CHOOSE iter : Adds(iter, F, S)
<1>1. Adds(iter, F, S)
  BY AddsExists
<1>2. Sum(F, S) = iter[S]
  BY DEF Sum, MapThenSumSet, MapThenFoldSet, Adds, Picked
<1> QED
  BY <1>1, <1>2

\* The sum over nothing, and over one element more.
LEMMA SumEmpty ==
    ASSUME NEW F PROVE Sum(F, {}) = 0
<1>1. PICK g : Adds(g, F, {}) /\ Sum(F, {}) = g[{}]
  BY SumAdds, FS_EmptySet
<1> QED
  BY <1>1 DEF Adds

LEMMA SumRemove ==
    ASSUME NEW S, IsFiniteSet(S), NEW F, \A x \in S : F[x] \in Int, NEW x \in S
    PROVE  /\ Sum(F, S) = F[x] + Sum(F, S \ {x})
           /\ Sum(F, S) \in Int /\ Sum(F, S \ {x}) \in Int
<1>1. PICK g : Adds(g, F, S) /\ Sum(F, S) = g[S]
  BY SumAdds
<1>2. IsFiniteSet(S \ {x}) /\ \A y \in S \ {x} : F[y] \in Int
  BY Smaller
<1>3. PICK h : Adds(h, F, S \ {x}) /\ Sum(F, S \ {x}) = h[S \ {x}]
  BY <1>2, SumAdds
<1>4. g[S \ {x}] = h[S \ {x}]
  BY <1>1, <1>2, <1>3, AddsAgree
<1>5. g[S] = F[x] + g[S \ {x}]
  BY <1>1, AddsAnyOrder
<1>6. g[S] \in Int /\ g[S \ {x}] \in Int
  BY <1>1, AddsTyped
<1> QED
  BY <1>1, <1>3, <1>4, <1>5, <1>6

LEMMA SumInt ==
    ASSUME NEW S, IsFiniteSet(S), NEW F, \A x \in S : F[x] \in Int PROVE Sum(F, S) \in Int
<1>1. PICK g : Adds(g, F, S) /\ Sum(F, S) = g[S]
  BY SumAdds
<1> QED
  BY <1>1, AddsTyped

LEMMA SumSame ==
    ASSUME NEW S, IsFiniteSet(S), NEW F, NEW G, \A x \in S : F[x] \in Int /\ F[x] = G[x]
    PROVE  Sum(F, S) = Sum(G, S)
<1>1. PICK g : Adds(g, F, S) /\ Sum(F, S) = g[S]
  BY SumAdds
<1>2. PICK h : Adds(h, G, S) /\ Sum(G, S) = h[S]
  BY SumAdds
<1> QED
  BY <1>1, <1>2, AddsAgree

LEMMA SumAdd ==
    ASSUME NEW S, IsFiniteSet(S), NEW F, NEW x, x \notin S,
           \A y \in S \cup {x} : F[y] \in Int
    PROVE  Sum(F, S \cup {x}) = F[x] + Sum(F, S)
<1>1. IsFiniteSet(S \cup {x}) /\ (S \cup {x}) \ {x} = S
  BY FS_AddElement
<1> QED
  BY <1>1, SumRemove

\* The sum over two sets without a common element.
LEMMA SumUnion ==
    ASSUME NEW S, IsFiniteSet(S), NEW T, IsFiniteSet(T), S \cap T = {},
           NEW F, \A x \in S \cup T : F[x] \in Int
    PROVE  Sum(F, S \cup T) = Sum(F, S) + Sum(F, T)
<1> DEFINE B == {t \in SUBSET T : Sum(F, S \cup t) # Sum(F, S) + Sum(F, t)}
<1> SUFFICES ASSUME B # {} PROVE FALSE
  OBVIOUS
<1>1. \A t \in SUBSET T : IsFiniteSet(t)
  BY FS_Subset
<1>2. PICK t \in B : \A u \in B : Cardinality(t) <= Cardinality(u)
  BY <1>1, SmallestSet
<1>3. /\ t \in SUBSET T /\ IsFiniteSet(t) /\ IsFiniteSet(S \cup t)
      /\ Sum(F, S \cup t) # Sum(F, S) + Sum(F, t)
      /\ \A y \in S \cup t : F[y] \in Int
  BY <1>1, <1>2, FS_Union
<1>4. Sum(F, S) \in Int
  BY SumInt
<1>5. CASE t = {}
  <2>1. S \cup t = S /\ Sum(F, t) = 0
    BY <1>5, SumEmpty
  <2>2. Sum(F, S) + 0 = Sum(F, S)
    BY <1>4
  <2> HIDE DEF B
  <2> QED
    BY <1>3, <2>1, <2>2, Zenon
<1>6. CASE t # {}
  <2>1. PICK x \in t : TRUE
    BY <1>6
  <2>2. t \ {x} \notin B
    <3> HIDE DEF B
    <3> QED
      BY <1>2, <1>3, Smallest
  <2>3. t \ {x} \in SUBSET T /\ (S \cup t) \ {x} = S \cup (t \ {x}) /\ x \in S \cup t
    BY <1>3
  <2>4. Sum(F, S \cup (t \ {x})) = Sum(F, S) + Sum(F, t \ {x})
    BY <2>2, <2>3
  <2>5. /\ Sum(F, t) = F[x] + Sum(F, t \ {x}) /\ Sum(F, t \ {x}) \in Int
    BY <1>3, SumRemove
  <2>6. Sum(F, S \cup t) = F[x] + Sum(F, S \cup (t \ {x}))
    BY <1>3, <2>3, SumRemove
  <2>7. F[x] \in Int
    BY <1>3
  <2> HIDE DEF B
  <2> QED
    BY <1>3, <1>4, <2>4, <2>5, <2>6, <2>7
<1> QED
  BY <1>5, <1>6

LEMMA SumZero ==
    ASSUME NEW S, IsFiniteSet(S), NEW F, \A x \in S : F[x] = 0
    PROVE  Sum(F, S) = 0
<1> DEFINE B == {t \in SUBSET S : Sum(F, t) # 0}
<1> SUFFICES ASSUME B # {} PROVE FALSE
  OBVIOUS
<1>1. \A t \in SUBSET S : IsFiniteSet(t)
  BY FS_Subset
<1>2. PICK t \in B : \A u \in B : Cardinality(t) <= Cardinality(u)
  BY <1>1, SmallestSet
<1>3. t \in SUBSET S /\ IsFiniteSet(t) /\ Sum(F, t) # 0
  BY <1>1, <1>2
<1>4. PICK x \in t : TRUE
  BY <1>3, SumEmpty
<1>5. t \ {x} \notin B
  <2> HIDE DEF B
  <2> QED
    BY <1>2, <1>3, Smallest
<1>6. Sum(F, t \ {x}) = 0 /\ F[x] = 0
  BY <1>3, <1>5
<1>7. Sum(F, t) = F[x] + Sum(F, t \ {x})
  BY <1>3, SumRemove
<1> QED
  BY <1>3, <1>6, <1>7

\* Two sums of multiples in one.
LEMMA SumCombine ==
    ASSUME NEW S, IsFiniteSet(S), NEW a \in Int, NEW b \in Int, NEW F, NEW G, NEW H,
           \A x \in S : F[x] \in Int /\ G[x] \in Int /\ H[x] = a * F[x] + b * G[x]
    PROVE  Sum(H, S) = a * Sum(F, S) + b * Sum(G, S)
<1> DEFINE B == {t \in SUBSET S : Sum(H, t) # a * Sum(F, t) + b * Sum(G, t)}
<1> SUFFICES ASSUME B # {} PROVE FALSE
  OBVIOUS
<1>1. \A t \in SUBSET S : IsFiniteSet(t)
  BY FS_Subset
<1>2. PICK t \in B : \A u \in B : Cardinality(t) <= Cardinality(u)
  BY <1>1, SmallestSet
<1>3. /\ t \in SUBSET S /\ IsFiniteSet(t)
      /\ Sum(H, t) # a * Sum(F, t) + b * Sum(G, t)
  BY <1>1, <1>2
<1>4. \A x \in S : H[x] \in Int
  <2>1. \A f, g \in Int : a * f + b * g \in Int
    OBVIOUS
  <2> QED
    BY <2>1, Zenon
<1>5. PICK x \in t : TRUE
  <2>1. CASE t = {}
    <3>1. Sum(H, t) = 0 /\ Sum(F, t) = 0 /\ Sum(G, t) = 0
      BY <2>1, SumEmpty
    <3>2. a * 0 + b * 0 = 0
      OBVIOUS
    <3> HIDE DEF B
    <3> QED
      BY <1>3, <3>1, <3>2, Zenon
  <2> QED
    BY <2>1
<1>6. t \ {x} \notin B
  <2> HIDE DEF B
  <2> QED
    BY <1>2, <1>3, Smallest
<1>7. Sum(H, t \ {x}) = a * Sum(F, t \ {x}) + b * Sum(G, t \ {x})
  BY <1>3, <1>6
<1>8. /\ Sum(H, t) = H[x] + Sum(H, t \ {x})
      /\ Sum(F, t) = F[x] + Sum(F, t \ {x}) /\ Sum(F, t \ {x}) \in Int
      /\ Sum(G, t) = G[x] + Sum(G, t \ {x}) /\ Sum(G, t \ {x}) \in Int
  <2>1. /\ \A y \in t : F[y] \in Int
        /\ \A y \in t : G[y] \in Int
        /\ \A y \in t : H[y] \in Int
    BY <1>3, <1>4
  <2> HIDE DEF B
  <2> QED
    BY <1>3, <2>1, SumRemove
<1>9. \A f, g, u, v \in Int :
        (a * f + b * g) + (a * u + b * v) = a * (f + u) + b * (g + v)
  OBVIOUS
<1>10. F[x] \in Int /\ G[x] \in Int /\ H[x] = a * F[x] + b * G[x]
  BY <1>3
<1>11. Sum(H, t) = (a * F[x] + b * G[x]) + (a * Sum(F, t \ {x}) + b * Sum(G, t \ {x}))
  BY <1>7, <1>8, <1>10, Zenon
<1>12. (a * F[x] + b * G[x]) + (a * Sum(F, t \ {x}) + b * Sum(G, t \ {x}))
         = a * (F[x] + Sum(F, t \ {x})) + b * (G[x] + Sum(G, t \ {x}))
  <2>1. PICK u, v : u = Sum(F, t \ {x}) /\ v = Sum(G, t \ {x})
    OBVIOUS
  <2> QED
    BY <1>8, <1>9, <1>10, <2>1
<1> HIDE DEF B
<1> QED
  BY <1>3, <1>8, <1>11, <1>12, Zenon

\* A sum of numbers none of which exceeds c.
LEMMA SumBounded ==
    ASSUME NEW S, IsFiniteSet(S), NEW c \in Int, NEW F,
           \A x \in S : F[x] \in Int /\ F[x] <= c
    PROVE  Sum(F, S) <= c * Cardinality(S)
<1> DEFINE B == {t \in SUBSET S : ~(Sum(F, t) <= c * Cardinality(t))}
<1> SUFFICES ASSUME B # {} PROVE FALSE
  OBVIOUS
<1>1. \A t \in SUBSET S : IsFiniteSet(t)
  BY FS_Subset
<1>2. PICK t \in B : \A u \in B : Cardinality(t) <= Cardinality(u)
  BY <1>1, SmallestSet
<1>3. t \in SUBSET S /\ IsFiniteSet(t) /\ ~(Sum(F, t) <= c * Cardinality(t))
  BY <1>1, <1>2
<1>4. PICK x \in t : TRUE
  <2>1. CASE t = {}
    <3>1. Sum(F, t) = 0 /\ Cardinality(t) = 0
      BY <2>1, SumEmpty, FS_EmptySet
    <3>2. 0 <= c * 0
      OBVIOUS
    <3> HIDE DEF B
    <3> QED
      BY <1>3, <3>1, <3>2, Zenon
  <2> QED
    BY <2>1
<1>5. t \ {x} \notin B
  <2> HIDE DEF B
  <2> QED
    BY <1>2, <1>3, Smallest
<1>6. Sum(F, t \ {x}) <= c * Cardinality(t \ {x})
  BY <1>3, <1>5
<1>7. F[x] \in Int /\ F[x] <= c
  BY <1>3
<1>8. Sum(F, t) = F[x] + Sum(F, t \ {x}) /\ Sum(F, t \ {x}) \in Int
  BY <1>3, SumRemove
<1>9. /\ Cardinality(t) \in Nat /\ Cardinality(t \ {x}) \in Nat
      /\ Cardinality(t \ {x}) = Cardinality(t) - 1
  BY <1>3, Smaller
<1>10. \A f, u, n \in Int : f <= c /\ u <= c * (n - 1) => f + u <= c * n
  OBVIOUS
<1>11. Cardinality(t) \in Int
  BY <1>9
<1> HIDE DEF B
<1> QED
  BY <1>3, <1>6, <1>7, <1>8, <1>9, <1>10, <1>11, Zenon

\* Sums compare as what is added does.
LEMMA SumOrdered ==
    ASSUME NEW S, IsFiniteSet(S), NEW F, NEW G,
           \A x \in S : F[x] \in Int /\ G[x] \in Int /\ F[x] <= G[x]
    PROVE  Sum(F, S) <= Sum(G, S)
<1> DEFINE H == [x \in S |-> 1 * F[x] + (-1) * G[x]]
<1>1. \A x \in S : H[x] \in Int /\ H[x] <= 0
  OBVIOUS
<1>2. Sum(H, S) = 1 * Sum(F, S) + (-1) * Sum(G, S)
  BY SumCombine
<1>3. Sum(F, S) \in Int /\ Sum(G, S) \in Int
  BY SumInt
<1> HIDE DEF H
<1>4. Sum(H, S) <= 0 * Cardinality(S)
  BY <1>1, SumBounded
<1>5. Cardinality(S) \in Int
  BY FS_CardinalityType
<1> QED
  BY <1>2, <1>3, <1>4, <1>5

\* A set cut into parts has as many elements as the parts together.
LEMMA SumParts ==
    ASSUME NEW T, IsFiniteSet(T), NEW P, \A g \in T : IsFiniteSet(P[g]),
           \A g, h \in T : g # h => P[g] \cap P[h] = {},
           NEW N, \A g \in T : N[g] = Cardinality(P[g]),
           NEW all, all = UNION {P[g] : g \in T}
    PROVE  Sum(N, T) = Cardinality(all)
<1> DEFINE All(t) == UNION {P[g] : g \in t}
           B == {t \in SUBSET T : ~(IsFiniteSet(All(t)) /\ Sum(N, t) = Cardinality(All(t)))}
<1> SUFFICES ASSUME B # {} PROVE FALSE
  OBVIOUS
<1>1. \A t \in SUBSET T : IsFiniteSet(t)
  BY FS_Subset
<1>2. PICK t \in B : \A u \in B : Cardinality(t) <= Cardinality(u)
  BY <1>1, SmallestSet
<1>3. /\ t \in SUBSET T /\ IsFiniteSet(t)
      /\ ~(IsFiniteSet(All(t)) /\ Sum(N, t) = Cardinality(All(t)))
  BY <1>1, <1>2
<1>4. PICK x \in t : TRUE
  <2>1. CASE t = {}
    <3>1. All(t) = {}
      BY <2>1
    <3>2. Sum(N, t) = 0 /\ IsFiniteSet({}) /\ Cardinality({}) = 0
      BY <2>1, SumEmpty, FS_EmptySet
    <3> HIDE DEF B, All
    <3> QED
      BY <1>3, <3>1, <3>2, Zenon
  <2> QED
    BY <2>1
<1>5. t \ {x} \notin B
  <2> HIDE DEF B
  <2> QED
    BY <1>2, <1>3, Smallest
<1>6. IsFiniteSet(All(t \ {x})) /\ Sum(N, t \ {x}) = Cardinality(All(t \ {x}))
  BY <1>3, <1>5
<1>7. All(t) = P[x] \cup All(t \ {x}) /\ P[x] \cap All(t \ {x}) = {}
  <2>1. \A y : y \in All(t) <=> y \in P[x] \/ y \in All(t \ {x})
    OBVIOUS
  <2>2. \A y : ~(y \in P[x] /\ y \in All(t \ {x}))
    BY <1>3
  <2> HIDE DEF All
  <2> QED
    BY <2>1, <2>2, Zenon
<1>8. IsFiniteSet(P[x]) /\ N[x] = Cardinality(P[x]) /\ N[x] \in Nat
  BY <1>3, FS_CardinalityType
<1>9. /\ IsFiniteSet(All(t))
      /\ Cardinality(All(t)) = Cardinality(P[x]) + Cardinality(All(t \ {x}))
  <2>1. PICK u : u = All(t \ {x})
    OBVIOUS
  <2> HIDE DEF All
  <2>2. Cardinality(u) \in Nat /\ Cardinality(P[x]) \in Nat /\ Cardinality(P[x] \cap u) = 0
    BY <1>6, <1>7, <1>8, <2>1, FS_CardinalityType, FS_EmptySet
  <2>3. /\ IsFiniteSet(P[x] \cup u)
        /\ Cardinality(P[x] \cup u)
             = Cardinality(P[x]) + Cardinality(u) - Cardinality(P[x] \cap u)
    BY <1>6, <1>8, <2>1, FS_Union, Zenon
  <2>4. Cardinality(P[x] \cup u) = Cardinality(P[x]) + Cardinality(u)
    BY <2>2, <2>3
  <2> QED
    BY <1>7, <2>1, <2>3, <2>4, Zenon
<1>10. \A y \in t : N[y] \in Int
  BY <1>3, FS_CardinalityType
<1>11. Sum(N, t) = N[x] + Sum(N, t \ {x})
  BY <1>3, <1>10, SumRemove
<1> HIDE DEF B, All
<1> QED
  BY <1>3, <1>6, <1>8, <1>9, <1>11, Zenon

-----------------------------------------------------------------------------
(* Division. *)

LEMMA QuotientBelow ==
    ASSUME NEW a \in Nat, NEW n \in Nat \ {0}
    PROVE  a \div n \in Nat /\ (a \div n) * n <= a
OBVIOUS

=============================================================================
