-------------------------------- MODULE Sums --------------------------------
(***************************************************************************)
(* Sums over finite sets, as SumFunctionOnSet of the community modules     *)
(* computes them: the recursion takes out the elements in an order that is *)
(* left open, and the lemmas show that no order matters.                   *)
(*                                                                         *)
(* Induction is by a minimal counterexample: < is well founded on Nat, and *)
(* a non-empty set of finite sets has one from which no element can be     *)
(* taken without leaving it.                                               *)
(***************************************************************************)
EXTENDS Integers, FiniteSetTheorems, WellFoundedInduction, Functions, TLAPS

----------------------------------------------------------------------------
(* Minimal elements                                                        *)

LEMMA LeastNumber ==
  ASSUME NEW T \in SUBSET Nat, T # {}
  PROVE  \E n \in T : \A m \in T : n <= m
  <1>1. PICK n \in T : \A m \in T : ~(<<m, n>> \in OpToRel(<, Nat))
    BY NatLessThanWellFounded, WFMin
  <1>2. \A m \in T : ~(m < n)
    BY <1>1 DEF OpToRel
  <1> QED
    BY <1>2

LEMMA MinimalSubset ==
  ASSUME NEW S, IsFiniteSet(S), NEW F \in SUBSET (SUBSET S), F # {}
  PROVE  \E U \in F : \A x \in U : U \ {x} \notin F
  <1> DEFINE sizes == {Cardinality(U) : U \in F}
  <1>1. \A U \in F : IsFiniteSet(U) /\ Cardinality(U) \in Nat
    BY FS_Subset, FS_CardinalityType
  <1>2. sizes \in SUBSET Nat /\ sizes # {}
    BY <1>1
  <1>3. PICK n \in sizes : \A m \in sizes : n <= m
    BY <1>2, LeastNumber
  <1>4. PICK U \in F : Cardinality(U) = n
    BY <1>3
  <1>5. ASSUME NEW x \in U, U \ {x} \in F PROVE FALSE
    <2>1. Cardinality(U \ {x}) = Cardinality(U) - 1
      BY <1>1, FS_RemoveElement
    <2>2. Cardinality(U) <= Cardinality(U \ {x})
      BY <1>3, <1>4, <1>5
    <2> QED
      BY <1>1, <2>1, <2>2
  <1> QED
    BY <1>5

----------------------------------------------------------------------------
(* The recursion                                                           *)

Chosen(U) == CHOOSE x \in U : TRUE

SumStep(f, g, U) == IF U = {} THEN 0 ELSE f[Chosen(U)] + g[U \ {Chosen(U)}]

(* g sums f over every subset of S.                                        *)
SumsUp(f, S, g) == g = [U \in SUBSET S |-> SumStep(f, g, U)]

LEMMA ChosenIsIn == ASSUME NEW U, U # {} PROVE Chosen(U) \in U
  BY DEF Chosen

LEMMA Unfolded ==
  ASSUME NEW f, NEW S
  PROVE  SumFunctionOnSet(f, S) = (CHOOSE g : SumsUp(f, S, g))[S]
  BY DEF SumFunctionOnSet, FoldFunctionOnSet, MapThenFoldSet, SumsUp, SumStep, Chosen

(* The subsets of at most n elements.                                      *)
Small(S, n) == {U \in SUBSET S : Cardinality(U) <= n}

LEMMA SmallFunctionExists ==
  ASSUME NEW f, NEW S, IsFiniteSet(S), NEW n \in Nat
  PROVE  \E g : g = [U \in Small(S, n) |-> SumStep(f, g, U)]
  <1> DEFINE Good(m) == \E g : g = [U \in Small(S, m) |-> SumStep(f, g, U)]
             bad == {m \in Nat : ~Good(m)}
  <1>1. SUFFICES ASSUME bad # {} PROVE FALSE
    OBVIOUS
  <1>2. PICK m \in bad : \A k \in bad : m <= k
    BY <1>1, LeastNumber
  <1>3. \A U \in SUBSET S : IsFiniteSet(U) /\ Cardinality(U) \in Nat
    BY FS_Subset, FS_CardinalityType
  <1>4. CASE m = 0
    <2> DEFINE g == [U \in Small(S, 0) |-> 0]
    <2>1. \A U \in Small(S, 0) : U = {}
      BY <1>3, FS_EmptySet DEF Small
    <2>2. g = [U \in Small(S, 0) |-> SumStep(f, g, U)]
      BY <2>1 DEF SumStep
    <2> QED
      BY <2>2, <1>2, <1>4
  <1>5. CASE m # 0
    <2>1. m - 1 \in Nat /\ m - 1 \notin bad
      BY <1>2, <1>5
    <2>2. PICK g : g = [U \in Small(S, m - 1) |-> SumStep(f, g, U)]
      BY <2>1
    <2> DEFINE h == [U \in Small(S, m) |-> SumStep(f, g, U)]
    <2>3. \A U \in Small(S, m - 1) : h[U] = g[U]
      <3>1. Small(S, m - 1) \subseteq Small(S, m)
        BY <1>3 DEF Small
      <3> QED
        BY <3>1, <2>2
    <2>4. ASSUME NEW U \in Small(S, m) PROVE SumStep(f, g, U) = SumStep(f, h, U)
      <3>1. CASE U = {}
        BY <3>1 DEF SumStep
      <3>2. CASE U # {}
        <4>1. U \ {Chosen(U)} \in Small(S, m - 1)
          BY <3>2, <1>3, ChosenIsIn, FS_RemoveElement DEF Small
        <4> QED
          BY <4>1, <2>3, <3>2 DEF SumStep
      <3> QED
        BY <3>1, <3>2
    <2>5. h = [U \in Small(S, m) |-> SumStep(f, h, U)]
      BY <2>4
    <2> QED
      BY <2>5, <1>2
  <1> QED
    BY <1>4, <1>5

LEMMA SumsUpExists ==
  ASSUME NEW f, NEW S, IsFiniteSet(S)
  PROVE  SumsUp(f, S, CHOOSE g : SumsUp(f, S, g))
  <1>1. Cardinality(S) \in Nat
    BY FS_CardinalityType
  <1>2. Small(S, Cardinality(S)) = SUBSET S
    BY FS_Subset DEF Small
  <1>3. PICK g : g = [U \in Small(S, Cardinality(S)) |-> SumStep(f, g, U)]
    BY <1>1, SmallFunctionExists
  <1>4. SumsUp(f, S, g)
    BY <1>2, <1>3 DEF SumsUp
  <1> QED
    BY <1>4

LEMMA SumsUpStep ==
  ASSUME NEW f, NEW S, NEW g, SumsUp(f, S, g), NEW U \in SUBSET S
  PROVE  g[U] = IF U = {} THEN 0 ELSE f[Chosen(U)] + g[U \ {Chosen(U)}]
  <1>1. g[U] = [V \in SUBSET S |-> SumStep(f, g, V)][U]
    BY DEF SumsUp
  <1> QED
    BY <1>1 DEF SumStep

----------------------------------------------------------------------------
(* What it computes                                                        *)

LEMMA SumsUpType ==
  ASSUME NEW f, NEW S, IsFiniteSet(S), \A x \in S : f[x] \in Int,
         NEW g, SumsUp(f, S, g)
  PROVE  \A U \in SUBSET S : g[U] \in Int
  <1> DEFINE bad == {U \in SUBSET S : g[U] \notin Int}
  <1>1. SUFFICES ASSUME bad # {} PROVE FALSE
    OBVIOUS
  <1>2. PICK U \in bad : \A x \in U : U \ {x} \notin bad
    BY <1>1, MinimalSubset
  <1>3. g[U] = IF U = {} THEN 0 ELSE f[Chosen(U)] + g[U \ {Chosen(U)}]
    <2>1. U \in SUBSET S
      OBVIOUS
    <2> QED
      BY <2>1, SumsUpStep
  <1>4. CASE U # {}
    <2>1. Chosen(U) \in U
      BY <1>4, ChosenIsIn
    <2>2. g[U] = f[Chosen(U)] + g[U \ {Chosen(U)}]
      BY <1>3, <1>4
    <2>3. g[U \ {Chosen(U)}] \in Int
      BY <1>2, <2>1
    <2>4. f[Chosen(U)] \in Int
      BY <2>1
    <2> QED
      BY <2>2, <2>3, <2>4
  <1> QED
    BY <1>2, <1>3, <1>4

(* Any element can be taken out first.                                     *)
LEMMA SumsUpRemove ==
  ASSUME NEW f, NEW S, IsFiniteSet(S), \A x \in S : f[x] \in Int,
         NEW g, SumsUp(f, S, g)
  PROVE  \A U \in SUBSET S : \A x \in U : g[U] = f[x] + g[U \ {x}]
  <1> DEFINE bad == {U \in SUBSET S : \E x \in U : g[U] # f[x] + g[U \ {x}]}
  <1>1. SUFFICES ASSUME bad # {} PROVE FALSE
    OBVIOUS
  <1>2. PICK U \in bad : \A x \in U : U \ {x} \notin bad
    BY <1>1, MinimalSubset
  <1>3. PICK x \in U : g[U] # f[x] + g[U \ {x}]
    BY <1>2
  <1> DEFINE y == Chosen(U)
  <1>4. y \in U
    BY <1>3, ChosenIsIn
  <1>5. g[U] = f[y] + g[U \ {y}]
    BY <1>3, SumsUpStep
  <1>6. x # y
    BY <1>3, <1>5
  <1>7. g[U \ {y}] = f[x] + g[(U \ {y}) \ {x}]
    BY <1>2, <1>4, <1>6
  <1>8. g[U \ {x}] = f[y] + g[(U \ {x}) \ {y}]
    BY <1>2, <1>4, <1>6
  <1>9. (U \ {x}) \ {y} = (U \ {y}) \ {x}
    OBVIOUS
  <1> DEFINE rest == g[(U \ {y}) \ {x}]
  <1>10. f[x] \in Int /\ f[y] \in Int /\ rest \in Int
    BY <1>4, SumsUpType
  <1>11. g[U] = f[y] + (f[x] + rest) /\ f[x] + g[U \ {x}] = f[x] + (f[y] + rest)
    BY <1>5, <1>7, <1>8, <1>9
  <1> HIDE DEF y, rest
  <1> QED
    BY <1>3, <1>10, <1>11

(* Two functions that agree on a set have one sum over it.                 *)
LEMMA SumsUpAgree ==
  ASSUME NEW S, IsFiniteSet(S), NEW e, NEW f, NEW T, NEW g, NEW h,
         SumsUp(e, S, g), SumsUp(f, T, h)
  PROVE  \A U \in SUBSET (S \cap T) : (\A x \in U : e[x] = f[x]) => g[U] = h[U]
  <1> DEFINE bad == {U \in SUBSET (S \cap T) : (\A x \in U : e[x] = f[x]) /\ g[U] # h[U]}
  <1>1. SUFFICES ASSUME bad # {} PROVE FALSE
    OBVIOUS
  <1>2. PICK U \in bad : \A x \in U : U \ {x} \notin bad
    <2>1. IsFiniteSet(S \cap T)
      BY FS_Subset
    <2> QED
      BY <1>1, <2>1, MinimalSubset
  <1>3. /\ g[U] = IF U = {} THEN 0 ELSE e[Chosen(U)] + g[U \ {Chosen(U)}]
        /\ h[U] = IF U = {} THEN 0 ELSE f[Chosen(U)] + h[U \ {Chosen(U)}]
    <2>1. U \in SUBSET S /\ U \in SUBSET T
      OBVIOUS
    <2>2. g[U] = IF U = {} THEN 0 ELSE e[Chosen(U)] + g[U \ {Chosen(U)}]
      BY <2>1, SumsUpStep
    <2>3. h[U] = IF U = {} THEN 0 ELSE f[Chosen(U)] + h[U \ {Chosen(U)}]
      BY <2>1, SumsUpStep
    <2> QED
      BY <2>2, <2>3
  <1>4. CASE U # {}
    <2>1. Chosen(U) \in U
      BY <1>4, ChosenIsIn
    <2>2. g[U] = e[Chosen(U)] + g[U \ {Chosen(U)}]
      BY <1>3, <1>4
    <2>3. h[U] = f[Chosen(U)] + h[U \ {Chosen(U)}]
      BY <1>3, <1>4
    <2>4. g[U \ {Chosen(U)}] = h[U \ {Chosen(U)}]
      BY <1>2, <2>1
    <2> QED
      BY <1>2, <2>1, <2>2, <2>3, <2>4
  <1> QED
    BY <1>2, <1>3, <1>4

LEMMA SumOfNone == ASSUME NEW f PROVE SumFunctionOnSet(f, {}) = 0
  BY FS_EmptySet, SumsUpExists, SumsUpStep, Unfolded

LEMMA SumIsInt ==
  ASSUME NEW S, IsFiniteSet(S), NEW f, \A x \in S : f[x] \in Int
  PROVE  SumFunctionOnSet(f, S) \in Int
  BY SumsUpExists, SumsUpType, Unfolded

LEMMA SumAgrees ==
  ASSUME NEW S, IsFiniteSet(S), NEW e, NEW f, \A x \in S : e[x] = f[x]
  PROVE  SumFunctionOnSet(e, S) = SumFunctionOnSet(f, S)
  <1> DEFINE g == CHOOSE g : SumsUp(e, S, g)
             h == CHOOSE h : SumsUp(f, S, h)
  <1>1. SumsUp(e, S, g) /\ SumsUp(f, S, h)
    BY SumsUpExists
  <1>2. SumFunctionOnSet(e, S) = g[S] /\ SumFunctionOnSet(f, S) = h[S]
    BY Unfolded
  <1> HIDE DEF g, h
  <1>3. S \in SUBSET (S \cap S)
    OBVIOUS
  <1>4. g[S] = h[S]
    BY <1>1, <1>3, SumsUpAgree
  <1> QED
    BY <1>2, <1>4

LEMMA SumRemove ==
  ASSUME NEW S, IsFiniteSet(S), NEW f, \A x \in S : f[x] \in Int, NEW x \in S
  PROVE  SumFunctionOnSet(f, S) = f[x] + SumFunctionOnSet(f, S \ {x})
  <1> DEFINE g == CHOOSE g : SumsUp(f, S, g)
             h == CHOOSE h : SumsUp(f, S \ {x}, h)
  <1>1. SumsUp(f, S, g)
    BY SumsUpExists
  <1>2. IsFiniteSet(S \ {x})
    BY FS_RemoveElement
  <1>3. SumsUp(f, S \ {x}, h)
    BY <1>2, SumsUpExists
  <1>4. SumFunctionOnSet(f, S) = g[S] /\ SumFunctionOnSet(f, S \ {x}) = h[S \ {x}]
    BY Unfolded
  <1> HIDE DEF g, h
  <1>5. g[S] = f[x] + g[S \ {x}]
    BY <1>1, SumsUpRemove
  <1>6. g[S \ {x}] = h[S \ {x}]
    BY <1>1, <1>3, SumsUpAgree
  <1> QED
    BY <1>4, <1>5, <1>6

(* A change of one value changes the sum by as much.                       *)
LEMMA SumChange ==
  ASSUME NEW S, IsFiniteSet(S), NEW e, NEW f, NEW x \in S,
         \A y \in S : e[y] \in Int /\ f[y] \in Int,
         \A y \in S \ {x} : f[y] = e[y]
  PROVE  SumFunctionOnSet(f, S) = SumFunctionOnSet(e, S) + f[x] - e[x]
  <1>1. IsFiniteSet(S \ {x})
    BY FS_RemoveElement
  <1>2. SumFunctionOnSet(f, S \ {x}) = SumFunctionOnSet(e, S \ {x})
    BY <1>1, SumAgrees
  <1>3. SumFunctionOnSet(e, S \ {x}) \in Int
    BY <1>1, SumIsInt
  <1>4. /\ SumFunctionOnSet(f, S) = f[x] + SumFunctionOnSet(f, S \ {x})
        /\ SumFunctionOnSet(e, S) = e[x] + SumFunctionOnSet(e, S \ {x})
    BY SumRemove
  <1> QED
    BY <1>2, <1>3, <1>4

(* A sequence that grows by one number.                                    *)
LEMMA SumGrows ==
  ASSUME NEW n \in Nat, NEW e, NEW f,
         \A i \in 1 .. n : e[i] \in Int /\ f[i] = e[i],
         f[n + 1] \in Int
  PROVE  SumFunctionOnSet(f, 1 .. n + 1) = SumFunctionOnSet(e, 1 .. n) + f[n + 1]
  <1>1. IsFiniteSet(1 .. n) /\ IsFiniteSet(1 .. n + 1)
    BY FS_Interval
  <1>2. (1 .. n + 1) \ {n + 1} = 1 .. n /\ n + 1 \in 1 .. n + 1
    OBVIOUS
  <1>3. \A i \in 1 .. n + 1 : f[i] \in Int
    OBVIOUS
  <1>4. SumFunctionOnSet(f, 1 .. n + 1) = f[n + 1] + SumFunctionOnSet(f, 1 .. n)
    BY <1>1, <1>2, <1>3, SumRemove
  <1>5. SumFunctionOnSet(f, 1 .. n) = SumFunctionOnSet(e, 1 .. n)
    BY <1>1, SumAgrees
  <1>6. SumFunctionOnSet(e, 1 .. n) \in Int
    BY <1>1, SumIsInt
  <1> QED
    BY <1>4, <1>5, <1>6

LEMMA SumOfZeros ==
  ASSUME NEW S, IsFiniteSet(S), NEW f, \A x \in S : f[x] = 0
  PROVE  SumFunctionOnSet(f, S) = 0
  <1> DEFINE bad == {U \in SUBSET S : SumFunctionOnSet(f, U) # 0}
  <1>1. SUFFICES ASSUME bad # {} PROVE FALSE
    OBVIOUS
  <1>2. PICK U \in bad : \A x \in U : U \ {x} \notin bad
    BY <1>1, MinimalSubset
  <1>3. CASE U = {}
    BY <1>2, <1>3, SumOfNone
  <1>4. CASE U # {}
    <2>1. PICK x \in U : TRUE
      BY <1>4
    <2>2. IsFiniteSet(U)
      BY FS_Subset
    <2>3. SumFunctionOnSet(f, U) = f[x] + SumFunctionOnSet(f, U \ {x})
      BY <2>2, SumRemove
    <2>4. SumFunctionOnSet(f, U \ {x}) = 0
      BY <1>2
    <2> QED
      BY <1>2, <2>3, <2>4
  <1> QED
    BY <1>3, <1>4

LEMMA SumOfBoth ==
  ASSUME NEW S, IsFiniteSet(S), NEW e, NEW f, NEW h,
         \A x \in S : e[x] \in Int /\ f[x] \in Int /\ h[x] = e[x] + f[x]
  PROVE  SumFunctionOnSet(h, S) = SumFunctionOnSet(e, S) + SumFunctionOnSet(f, S)
  <1> DEFINE Adds(U) == SumFunctionOnSet(h, U) = SumFunctionOnSet(e, U) + SumFunctionOnSet(f, U)
             bad == {U \in SUBSET S : ~Adds(U)}
  <1>1. SUFFICES ASSUME bad # {} PROVE FALSE
    OBVIOUS
  <1>2. PICK U \in bad : \A x \in U : U \ {x} \notin bad
    BY <1>1, MinimalSubset
  <1>3. CASE U = {}
    BY <1>2, <1>3, SumOfNone
  <1>4. CASE U # {}
    <2>1. PICK x \in U : TRUE
      BY <1>4
    <2>2. IsFiniteSet(U) /\ IsFiniteSet(U \ {x})
      BY FS_Subset, FS_RemoveElement
    <2>3. \A y \in U : e[y] \in Int /\ f[y] \in Int /\ h[y] \in Int
      OBVIOUS
    <2>4. /\ SumFunctionOnSet(h, U) = h[x] + SumFunctionOnSet(h, U \ {x})
          /\ SumFunctionOnSet(e, U) = e[x] + SumFunctionOnSet(e, U \ {x})
          /\ SumFunctionOnSet(f, U) = f[x] + SumFunctionOnSet(f, U \ {x})
      BY <2>2, <2>3, SumRemove
    <2>5. SumFunctionOnSet(e, U \ {x}) \in Int /\ SumFunctionOnSet(f, U \ {x}) \in Int
      BY <2>2, <2>3, SumIsInt
    <2>6. Adds(U \ {x})
      BY <1>2
    <2>7. e[x] \in Int /\ f[x] \in Int /\ h[x] = e[x] + f[x]
      OBVIOUS
    <2>8. Adds(U)
      BY <2>4, <2>5, <2>6, <2>7
    <2> QED
      BY <1>2, <2>8
  <1> QED
    BY <1>3, <1>4

(* The sums over the parts of a set add up to its sum.                     *)
Part(S, key, d) == {x \in S : key[x] = d}

LEMMA SumByParts ==
  ASSUME NEW S, IsFiniteSet(S), NEW D, IsFiniteSet(D), NEW key,
         \A x \in S : key[x] \in D,
         NEW f, \A x \in S : f[x] \in Int
  PROVE  SumFunctionOnSet([d \in D |-> SumFunctionOnSet(f, Part(S, key, d))], D)
           = SumFunctionOnSet(f, S)
  <1> DEFINE parts(U) == [d \in D |-> SumFunctionOnSet(f, Part(U, key, d))]
             AddUp(U) == SumFunctionOnSet(parts(U), D) = SumFunctionOnSet(f, U)
             bad == {U \in SUBSET S : ~AddUp(U)}
  <1>1. SUFFICES ASSUME bad # {} PROVE FALSE
    OBVIOUS
  <1>2. PICK U \in bad : \A x \in U : U \ {x} \notin bad
    BY <1>1, MinimalSubset
  <1>3. ASSUME NEW V \in SUBSET S, NEW d
        PROVE  IsFiniteSet(Part(V, key, d)) /\ SumFunctionOnSet(f, Part(V, key, d)) \in Int
    <2>1. Part(V, key, d) \in SUBSET S
      BY DEF Part
    <2>2. IsFiniteSet(Part(V, key, d))
      BY <2>1, FS_Subset
    <2> QED
      BY <2>1, <2>2, SumIsInt
  <1>4. CASE U = {}
    <2>1. \A d \in D : parts(U)[d] = 0
      <3>1. \A d : Part({}, key, d) = {}
        BY DEF Part
      <3> QED
        BY <1>4, <3>1, SumOfNone
    <2>2. SumFunctionOnSet(parts(U), D) = 0
      BY <2>1, SumOfZeros
    <2> QED
      BY <1>2, <1>4, <2>2, SumOfNone
  <1>5. CASE U # {}
    <2>1. PICK x \in U : TRUE
      BY <1>5
    <2> DEFINE k == key[x]
               V == U \ {x}
    <2>2. k \in D /\ U \in SUBSET S /\ V \in SUBSET S /\ IsFiniteSet(U) /\ IsFiniteSet(V)
      BY FS_Subset, FS_RemoveElement
    <2>3. Part(U, key, k) \ {x} = Part(V, key, k) /\ x \in Part(U, key, k)
      BY DEF Part
    <2>4. \A d \in D \ {k} : Part(U, key, d) = Part(V, key, d)
      BY DEF Part
    <2>5. SumFunctionOnSet(f, Part(U, key, k))
            = f[x] + SumFunctionOnSet(f, Part(V, key, k))
      <3>1. IsFiniteSet(Part(U, key, k)) /\ \A y \in Part(U, key, k) : f[y] \in Int
        BY <1>3, <2>2 DEF Part
      <3>2. \A y \in Part(U, key, k) :
               SumFunctionOnSet(f, Part(U, key, k))
                 = f[y] + SumFunctionOnSet(f, Part(U, key, k) \ {y})
        BY <3>1, SumRemove
      <3> QED
        BY <2>3, <3>2
    <2>6. \A d \in D : parts(U)[d] \in Int /\ parts(V)[d] \in Int
      BY <1>3, <2>2
    <2>7. \A d \in D \ {k} : parts(U)[d] = parts(V)[d]
      BY <2>4
    <2>8. parts(U)[k] = f[x] + parts(V)[k]
      BY <2>2, <2>5
    <2>9. SumFunctionOnSet(f, U) = f[x] + SumFunctionOnSet(f, V)
      BY <2>2, SumRemove
    <2>10. SumFunctionOnSet(parts(V), D) = SumFunctionOnSet(f, V)
      BY <1>2, <2>2
    <2>11. SumFunctionOnSet(f, V) \in Int /\ f[x] \in Int
      BY <2>2, SumIsInt
    <2> DEFINE before == parts(V)
               after == parts(U)
    <2>12. PICK b, a : b = before /\ a = after
      OBVIOUS
    <2> HIDE DEF V, k, parts
    <2>13. SumFunctionOnSet(a, D) = SumFunctionOnSet(b, D) + a[k] - b[k]
      <3>1. \A d \in D : b[d] \in Int /\ a[d] \in Int
        BY <2>6, <2>12
      <3>2. \A d \in D \ {k} : a[d] = b[d]
        BY <2>7, <2>12
      <3>3. k \in D
        BY <2>2
      <3> HIDE DEF before, after
      <3> QED
        BY <3>1, <3>2, <3>3, SumChange
    <2>14. b[k] \in Int /\ a[k] = f[x] + b[k]
      BY <2>2, <2>6, <2>8, <2>12
    <2>15. SumFunctionOnSet(a, D) = SumFunctionOnSet(f, U)
      BY <2>9, <2>10, <2>11, <2>12, <2>13, <2>14
    <2> QED
      BY <1>2, <2>12, <2>15
  <1> QED
    BY <1>4, <1>5

=============================================================================
