------------------------------ MODULE SetSums -------------------------------
(***************************************************************************)
(* The sum of a function over a finite set, as MapThenSumSet computes it:  *)
(* it does not depend on the order in which the elements are chosen.       *)
(* Each fact is proved with a smallest subset for which it would fail.     *)
(***************************************************************************)
EXTENDS Integers, FiniteSets, FiniteSetsExt, FiniteSetTheorems, WellFoundedInduction, TLAPS

Chosen(s) == CHOOSE x \in s : TRUE

(* One step of the recursion over a subset s, with what g says of smaller ones. *)
SumStep(f, g, s) == IF s = {} THEN 0 ELSE f[Chosen(s)] + g[s \ {Chosen(s)}]

Sums(f, g, S) == g = [s \in SUBSET S |-> SumStep(f, g, s)]

Sum(f, S) == (CHOOSE g : Sums(f, g, S))[S]

(* A nonempty set of subsets of a finite set has a smallest one. *)
LEMMA SmallestSubset ==
    ASSUME NEW S, IsFiniteSet(S), NEW T \in SUBSET SUBSET S, T # {}
    PROVE  \E s \in T : \A t \in T : ~(t \subseteq s /\ t # s)
  <1>1. IsWellFoundedOn(StrictSubsetOrdering(S), SUBSET S)
    BY FS_StrictSubsetOrderingWellFounded, FS_FiniteSubsetsOfFinite
  <1>2. \E s \in T : \A t \in T : ~(<<t, s>> \in StrictSubsetOrdering(S))
    BY <1>1, WFMin
  <1>. QED
    BY <1>2 DEF StrictSubsetOrdering

LEMMA ChosenIsElement ==
    ASSUME NEW s, s # {}
    PROVE  Chosen(s) \in s /\ s \ {Chosen(s)} \subseteq s /\ s \ {Chosen(s)} # s
  BY DEF Chosen

(* Two solutions of the recursion agree where both are defined. *)
LEMMA SumsAgree ==
    ASSUME NEW f, NEW a, IsFiniteSet(a), NEW b, NEW g, NEW h, Sums(f, g, a), Sums(f, h, b)
    PROVE  \A t \in SUBSET (a \cap b) : g[t] = h[t]
  <1> DEFINE Bad == {t \in SUBSET a : t \subseteq b /\ g[t] # h[t]}
  <1>1. SUFFICES ASSUME Bad # {} PROVE FALSE
    OBVIOUS
  <1>2. PICK s \in Bad : \A t \in Bad : ~(t \subseteq s /\ t # s)
    <2>1. Bad \in SUBSET SUBSET a
      OBVIOUS
    <2> HIDE DEF Bad
    <2>. QED
      BY <1>1, <2>1, SmallestSubset
  <1>3. g[s] = SumStep(f, g, s) /\ h[s] = SumStep(f, h, s)
    BY DEF Sums
  <1>4. s # {}
    BY <1>3 DEF SumStep
  <1>5. g[s \ {Chosen(s)}] = h[s \ {Chosen(s)}]
    BY <1>2, <1>4, ChosenIsElement
  <1>. QED
    BY <1>3, <1>4, <1>5 DEF SumStep

(* The solution over a set says the sum of each of its subsets. *)
LEMMA SumsGivesSum ==
    ASSUME NEW f, NEW S, IsFiniteSet(S), NEW g, Sums(f, g, S),
           NEW t \in SUBSET S, \E h : Sums(f, h, t)
    PROVE  g[t] = Sum(f, t)
  <1>1. PICK h : h = CHOOSE k : Sums(f, k, t)
    OBVIOUS
  <1>2. Sums(f, h, t)
    BY <1>1
  <1>3. g[t] = h[t]
    BY <1>2, SumsAgree
  <1>. QED
    BY <1>1, <1>3 DEF Sum

(* Every finite set has a solution. *)
LEMMA SumsExist ==
    ASSUME NEW f, NEW S, IsFiniteSet(S)
    PROVE  \E g : Sums(f, g, S)
  <1> DEFINE Bad == {t \in SUBSET S : ~\E g : Sums(f, g, t)}
  <1>1. SUFFICES ASSUME Bad # {} PROVE FALSE
    OBVIOUS
  <1>2. PICK s \in Bad : \A t \in Bad : ~(t \subseteq s /\ t # s)
    <2>1. Bad \in SUBSET SUBSET S
      OBVIOUS
    <2> HIDE DEF Bad
    <2>. QED
      BY <1>1, <2>1, SmallestSubset
  <1>3. PICK F : F = [t \in SUBSET S |-> Sum(f, t)]
    OBVIOUS
  <1>4. PICK h : h = [t \in SUBSET s |-> SumStep(f, F, t)]
    OBVIOUS
  <1>5. ASSUME NEW t \in SUBSET s, t # s PROVE h[t] = Sum(f, t)
    <2>1. PICK g : Sums(f, g, t)
      BY <1>2, <1>5
    <2>2. IsFiniteSet(t)
      BY FS_Subset
    <2>3. g[t] = Sum(f, t) /\ g[t] = SumStep(f, g, t)
      <3>1. t \in SUBSET t
        OBVIOUS
      <3>2. g[t] = Sum(f, t)
        BY <2>1, <2>2, <3>1, SumsGivesSum
      <3>3. g[t] = SumStep(f, g, t)
        BY <2>1, <3>1 DEF Sums
      <3>. QED
        BY <3>2, <3>3
    <2>4. CASE t = {}
      BY <1>4, <2>3, <2>4 DEF SumStep
    <2>5. CASE t # {}
      <3>1. PICK u : u = t \ {Chosen(t)}
        OBVIOUS
      <3>2. u \in SUBSET t /\ u \in SUBSET s /\ u \in SUBSET S /\ u # s
        BY <1>5, <2>5, <3>1, ChosenIsElement
      <3>3. \E k : Sums(f, k, u)
        BY <1>2, <3>2
      <3>4. g[u] = Sum(f, u)
        BY <2>1, <2>2, <3>2, <3>3, SumsGivesSum
      <3>5. F[u] = Sum(f, u)
        BY <1>3, <3>2
      <3>. QED
        BY <1>4, <2>3, <2>5, <3>1, <3>4, <3>5 DEF SumStep
    <2>. QED
      BY <2>4, <2>5
  <1>6. ASSUME NEW t \in SUBSET s PROVE h[t] = SumStep(f, h, t)
    <2>1. CASE t = {}
      BY <1>4, <2>1 DEF SumStep
    <2>2. CASE t # {}
      <3>1. PICK u : u = t \ {Chosen(t)}
        OBVIOUS
      <3>2. u \in SUBSET s /\ u \in SUBSET S /\ u # s
        BY <2>2, <3>1, ChosenIsElement
      <3>3. h[u] = Sum(f, u) /\ F[u] = Sum(f, u)
        BY <1>3, <1>5, <3>2
      <3>. QED
        BY <1>4, <2>2, <3>1, <3>3 DEF SumStep
    <2>. QED
      BY <2>1, <2>2
  <1>7. Sums(f, h, s)
    BY <1>4, <1>6 DEF Sums
  <1>. QED
    BY <1>2, <1>7

(* The sum, one element at a time. *)
LEMMA SumUnfold ==
    ASSUME NEW f, NEW S, IsFiniteSet(S)
    PROVE  Sum(f, S) = IF S = {} THEN 0 ELSE f[Chosen(S)] + Sum(f, S \ {Chosen(S)})
  <1>1. PICK g : Sums(f, g, S)
    BY SumsExist
  <1>2. \A t \in SUBSET S : g[t] = Sum(f, t)
    <2> TAKE t \in SUBSET S
    <2>1. IsFiniteSet(t)
      BY FS_Subset
    <2>. QED
      BY <1>1, <2>1, SumsExist, SumsGivesSum
  <1>3. Sum(f, S) = SumStep(f, g, S)
    BY <1>1, <1>2 DEF Sums
  <1>. QED
    BY <1>2, <1>3 DEF SumStep

-----------------------------------------------------------------------------
(* What a sum over a finite set does. *)

LEMMA SumIsInt ==
    ASSUME NEW f, NEW S, IsFiniteSet(S), \A x \in S : f[x] \in Int
    PROVE  Sum(f, S) \in Int
  <1> DEFINE Bad == {t \in SUBSET S : Sum(f, t) \notin Int}
  <1>1. SUFFICES ASSUME Bad # {} PROVE FALSE
    OBVIOUS
  <1>2. PICK s \in Bad : \A t \in Bad : ~(t \subseteq s /\ t # s)
    <2>1. Bad \in SUBSET SUBSET S
      OBVIOUS
    <2> HIDE DEF Bad
    <2>. QED
      BY <1>1, <2>1, SmallestSubset
  <1>3. IsFiniteSet(s)
    BY FS_Subset
  <1>4. Sum(f, s) = IF s = {} THEN 0 ELSE f[Chosen(s)] + Sum(f, s \ {Chosen(s)})
    BY <1>3, SumUnfold
  <1>5. s # {}
    BY <1>4
  <1>6. f[Chosen(s)] \in Int /\ Sum(f, s \ {Chosen(s)}) \in Int
    BY <1>2, <1>5, ChosenIsElement
  <1>. QED
    BY <1>4, <1>5, <1>6

LEMMA SumIsNat ==
    ASSUME NEW f, NEW S, IsFiniteSet(S), \A x \in S : f[x] \in Nat
    PROVE  Sum(f, S) \in Nat
  <1> DEFINE Bad == {t \in SUBSET S : Sum(f, t) \notin Nat}
  <1>1. SUFFICES ASSUME Bad # {} PROVE FALSE
    OBVIOUS
  <1>2. PICK s \in Bad : \A t \in Bad : ~(t \subseteq s /\ t # s)
    <2>1. Bad \in SUBSET SUBSET S
      OBVIOUS
    <2> HIDE DEF Bad
    <2>. QED
      BY <1>1, <2>1, SmallestSubset
  <1>3. IsFiniteSet(s)
    BY FS_Subset
  <1>4. Sum(f, s) = IF s = {} THEN 0 ELSE f[Chosen(s)] + Sum(f, s \ {Chosen(s)})
    BY <1>3, SumUnfold
  <1>5. s # {}
    BY <1>4
  <1>6. f[Chosen(s)] \in Nat /\ Sum(f, s \ {Chosen(s)}) \in Nat
    BY <1>2, <1>5, ChosenIsElement
  <1>. QED
    BY <1>4, <1>5, <1>6

(* Any element may be taken out first. *)
LEMMA SumRemove ==
    ASSUME NEW f, NEW S, IsFiniteSet(S), \A x \in S : f[x] \in Int, NEW m \in S
    PROVE  Sum(f, S) = f[m] + Sum(f, S \ {m})
  <1> DEFINE Bad == {t \in SUBSET S : \E x \in t : Sum(f, t) # f[x] + Sum(f, t \ {x})}
  <1>1. SUFFICES ASSUME Bad # {} PROVE FALSE
    OBVIOUS
  <1>2. PICK s \in Bad : \A t \in Bad : ~(t \subseteq s /\ t # s)
    <2>1. Bad \in SUBSET SUBSET S
      OBVIOUS
    <2> HIDE DEF Bad
    <2>. QED
      BY <1>1, <2>1, SmallestSubset
  <1>3. PICK x \in s : Sum(f, s) # f[x] + Sum(f, s \ {x})
    OBVIOUS
  <1>4. PICK c : c = Chosen(s)
    OBVIOUS
  <1>5. c \in s
    BY <1>3, <1>4, ChosenIsElement
  <1>6. PICK sc, sx, sxc : sc = s \ {c} /\ sx = s \ {x} /\ sxc = s \ {x, c}
    OBVIOUS
  <1>7. IsFiniteSet(s) /\ IsFiniteSet(sxc)
    BY <1>6, FS_Subset
  <1>8. Sum(f, s) = f[c] + Sum(f, sc)
    BY <1>3, <1>4, <1>6, <1>7, SumUnfold
  <1>9. c # x
    BY <1>3, <1>6, <1>8
  <1>10. /\ sc \in SUBSET S /\ sc \subseteq s /\ sc # s /\ x \in sc /\ sc \ {x} = sxc
         /\ sx \in SUBSET S /\ sx \subseteq s /\ sx # s /\ c \in sx /\ sx \ {c} = sxc
    BY <1>5, <1>6, <1>9
  <1>11. Sum(f, sc) = f[x] + Sum(f, sxc)
    BY <1>2, <1>10
  <1>12. Sum(f, sx) = f[c] + Sum(f, sxc)
    BY <1>2, <1>10
  <1>13. f[x] \in Int /\ f[c] \in Int /\ Sum(f, sxc) \in Int
    BY <1>5, <1>6, <1>7, SumIsInt
  <1>. QED
    BY <1>3, <1>6, <1>8, <1>11, <1>12, <1>13

LEMMA SumSame ==
    ASSUME NEW f, NEW g, NEW S, IsFiniteSet(S), \A x \in S : f[x] = g[x]
    PROVE  Sum(f, S) = Sum(g, S)
  <1> DEFINE Bad == {t \in SUBSET S : Sum(f, t) # Sum(g, t)}
  <1>1. SUFFICES ASSUME Bad # {} PROVE FALSE
    OBVIOUS
  <1>2. PICK s \in Bad : \A t \in Bad : ~(t \subseteq s /\ t # s)
    <2>1. Bad \in SUBSET SUBSET S
      OBVIOUS
    <2> HIDE DEF Bad
    <2>. QED
      BY <1>1, <2>1, SmallestSubset
  <1>3. IsFiniteSet(s)
    BY FS_Subset
  <1>4. /\ Sum(f, s) = IF s = {} THEN 0 ELSE f[Chosen(s)] + Sum(f, s \ {Chosen(s)})
        /\ Sum(g, s) = IF s = {} THEN 0 ELSE g[Chosen(s)] + Sum(g, s \ {Chosen(s)})
    BY <1>3, SumUnfold
  <1>5. s # {}
    BY <1>4
  <1>6. f[Chosen(s)] = g[Chosen(s)] /\ Sum(f, s \ {Chosen(s)}) = Sum(g, s \ {Chosen(s)})
    BY <1>2, <1>5, ChosenIsElement
  <1>. QED
    BY <1>4, <1>5, <1>6

LEMMA SumOfZeros ==
    ASSUME NEW f, NEW S, IsFiniteSet(S), \A x \in S : f[x] = 0
    PROVE  Sum(f, S) = 0
  <1> DEFINE Bad == {t \in SUBSET S : Sum(f, t) # 0}
  <1>1. SUFFICES ASSUME Bad # {} PROVE FALSE
    OBVIOUS
  <1>2. PICK s \in Bad : \A t \in Bad : ~(t \subseteq s /\ t # s)
    <2>1. Bad \in SUBSET SUBSET S
      OBVIOUS
    <2> HIDE DEF Bad
    <2>. QED
      BY <1>1, <2>1, SmallestSubset
  <1>3. IsFiniteSet(s)
    BY FS_Subset
  <1>4. Sum(f, s) = IF s = {} THEN 0 ELSE f[Chosen(s)] + Sum(f, s \ {Chosen(s)})
    BY <1>3, SumUnfold
  <1>5. s # {}
    BY <1>4
  <1>6. f[Chosen(s)] = 0 /\ Sum(f, s \ {Chosen(s)}) = 0
    BY <1>2, <1>5, ChosenIsElement
  <1>. QED
    BY <1>4, <1>5, <1>6

(* One element has another value. *)
LEMMA SumChange ==
    ASSUME NEW f, NEW g, NEW S, IsFiniteSet(S), NEW m \in S,
           \A x \in S : f[x] \in Int, \A x \in S \ {m} : g[x] = f[x], g[m] \in Int
    PROVE  Sum(g, S) = Sum(f, S) - f[m] + g[m]
  <1>1. \A x \in S : g[x] \in Int
    OBVIOUS
  <1>2. PICK r : r = S \ {m}
    OBVIOUS
  <1>3. IsFiniteSet(r)
    BY <1>2, FS_Subset
  <1>4. Sum(f, S) = f[m] + Sum(f, r) /\ Sum(g, S) = g[m] + Sum(g, r)
    BY <1>1, <1>2, SumRemove
  <1>5. Sum(g, r) = Sum(f, r)
    BY <1>2, <1>3, SumSame
  <1>6. Sum(f, r) \in Int
    BY <1>2, <1>3, SumIsInt
  <1>. QED
    BY <1>4, <1>5, <1>6

(* No element is more than the sum. *)
LEMMA SumBoundsElement ==
    ASSUME NEW f, NEW S, IsFiniteSet(S), \A x \in S : f[x] \in Nat, NEW m \in S
    PROVE  f[m] <= Sum(f, S)
  <1>1. PICK r : r = S \ {m}
    OBVIOUS
  <1>2. IsFiniteSet(r)
    BY <1>1, FS_Subset
  <1>3. Sum(f, S) = f[m] + Sum(f, r)
    BY <1>1, SumRemove
  <1>4. Sum(f, r) \in Nat
    BY <1>1, <1>2, SumIsNat
  <1>. QED
    BY <1>3, <1>4

-----------------------------------------------------------------------------
(* A nonempty set of numbers has a least one, and a greatest when there is *)
(* a bound.                                                                *)
LEMMA Least ==
    ASSUME NEW T \in SUBSET Nat, T # {}
    PROVE  \E x \in T : \A y \in T : x <= y
  <1>1. PICK n \in T : TRUE
    OBVIOUS
  <1> DEFINE F == {0..x : x \in {y \in T : y <= n}}
  <1>2. PICK I : I = 0..n
    OBVIOUS
  <1>3. F \in SUBSET SUBSET I /\ F # {}
    BY <1>1, <1>2
  <1>4. PICK s \in F : \A t \in F : ~(t \subseteq s /\ t # s)
    <2>1. IsFiniteSet(I)
      BY <1>1, <1>2, FS_Interval
    <2> HIDE DEF F
    <2>. QED
      BY <1>3, <2>1, SmallestSubset
  <1>5. PICK x \in T : x <= n /\ s = 0..x
    OBVIOUS
  <1>6. ASSUME NEW y \in T, y < x PROVE FALSE
    <2>1. 0..y \in F
      BY <1>5, <1>6
    <2>2. 0..y \subseteq 0..x /\ x \in 0..x /\ x \notin 0..y
      BY <1>6
    <2>. QED
      BY <1>4, <1>5, <2>1, <2>2
  <1>. QED
    BY <1>6

LEMMA Greatest ==
    ASSUME NEW n \in Nat, NEW T \in SUBSET (1..n), T # {}
    PROVE  \E x \in T : \A y \in T : y <= x
  <1>1. PICK R : R = {n - y : y \in T}
    OBVIOUS
  <1>2. R \in SUBSET Nat /\ R # {}
    <2>1. \A y \in T : n - y \in Nat /\ n - y \in R
      BY <1>1
    <2>. QED
      BY <1>1, <2>1
  <1>3. PICK z \in R : \A y \in R : z <= y
    BY <1>2, Least
  <1>4. PICK x \in T : z = n - x
    BY <1>1
  <1>5. \A y \in T : n - x <= n - y
    BY <1>1, <1>3, <1>4
  <1>. QED
    BY <1>5

=============================================================================
