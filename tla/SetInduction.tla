---------------------------- MODULE SetInduction ----------------------------
(***************************************************************************)
(* Induction stated with sets, least elements, the sum over a finite set,  *)
(* and sizes.                                                              *)
(*                                                                         *)
(* The induction theorems of the library take the induction hypothesis as  *)
(* an operator.  Here it is the set of those arguments it holds for, and   *)
(* the proofs rest on a minimal counterexample in a well-founded order.    *)
(***************************************************************************)
EXTENDS Integers, Functions, FiniteSetsExt, FiniteSetTheorems, WellFoundedInduction, TLAPS

-----------------------------------------------------------------------------
(* Induction. *)

(* A set of subsets that is not empty has a smallest member. *)
LEMMA SmallestSubset ==
  ASSUME NEW S, IsFiniteSet(S), NEW Bad, Bad \subseteq SUBSET S, Bad # {}
  PROVE  \E T \in Bad : \A U \in SUBSET T : U # T => U \notin Bad
<1>1. FiniteSubsetsOf(S) = SUBSET S
  BY FS_FiniteSubsetsOfFinite
<1>2. IsWellFoundedOn(StrictSubsetOrdering(S), FiniteSubsetsOf(S))
  BY FS_StrictSubsetOrderingWellFounded
<1>3. PICK T \in Bad : \A U \in Bad : <<U, T>> \notin StrictSubsetOrdering(S)
  BY <1>1, <1>2, WFMin
<1> QED
  BY <1>3 DEF StrictSubsetOrdering

(* What holds of the empty set and of T \cup {x} if it holds of T holds    *)
(* of every finite set.                                                    *)
LEMMA SetInduct ==
  ASSUME NEW S, IsFiniteSet(S), NEW Good, {} \in Good,
         \A T \in SUBSET S : \A x \in S \ T : T \in Good => T \cup {x} \in Good
  PROVE  S \in Good
<1> SUFFICES ASSUME S \notin Good PROVE FALSE
  OBVIOUS
<1> DEFINE Bad == (SUBSET S) \ Good
<1>1. PICK T \in Bad : \A U \in SUBSET T : U # T => U \notin Bad
  <2>1. Bad # {} /\ Bad \subseteq SUBSET S
    OBVIOUS
  <2> HIDE DEF Bad
  <2> QED
    BY <2>1, SmallestSubset
<1>2. PICK x : x \in T
  BY <1>1
<1>3. T \ {x} \in Good /\ x \in S \ (T \ {x}) /\ T \ {x} \in SUBSET S
  BY <1>1, <1>2
<1>4. (T \ {x}) \cup {x} \in Good /\ (T \ {x}) \cup {x} = T
  BY <1>2, <1>3
<1> QED
  BY <1>1, <1>4

(* The same for the natural numbers. *)
LEMMA NatInduct ==
  ASSUME NEW Good, 0 \in Good, \A n \in Nat : n \in Good => n + 1 \in Good
  PROVE  Nat \subseteq Good
<1> SUFFICES ASSUME NEW n \in Nat PROVE n \in Good
  OBVIOUS
<1> DEFINE Sized == {T \in SUBSET (1 .. n) : Cardinality(T) \in Good}
<1>1. IsFiniteSet(1 .. n) /\ Cardinality(1 .. n) = n
  BY FS_Interval
<1>2. {} \in Sized
  BY FS_EmptySet
<1>3. ASSUME NEW T \in SUBSET (1 .. n), NEW x \in (1 .. n) \ T, T \in Sized
      PROVE  T \cup {x} \in Sized
  <2>1. IsFiniteSet(T) /\ Cardinality(T) \in Nat
    BY <1>1, FS_Subset, FS_CardinalityType
  <2>2. Cardinality(T \cup {x}) = Cardinality(T) + 1
    BY <2>1, <1>3, FS_AddElement
  <2> QED
    BY <1>3, <2>1, <2>2
<1>4. 1 .. n \in Sized
  <2> HIDE DEF Sized
  <2> QED
    BY <1>1, <1>2, <1>3, SetInduct
<1> QED
  BY <1>1, <1>4

-----------------------------------------------------------------------------
(* Least and greatest elements. *)

LEMMA LeastOf ==
  ASSUME NEW S \in SUBSET Int, S # {}, NEW b \in Int, \A x \in S : b <= x
  PROVE  Min(S) \in S /\ \A y \in S : Min(S) <= y
<1>1. SUFFICES \E x \in S : \A y \in S : x <= y
  BY DEF Min
<1>2. SUFFICES ASSUME \A x \in S : \E y \in S : y < x PROVE FALSE
  OBVIOUS
<1> DEFINE Good == {n \in Nat : \A x \in S : x > b + n}
<1>3. \A x \in S : x > b
  <2> SUFFICES ASSUME NEW x \in S PROVE x > b
    OBVIOUS
  <2>1. PICK y \in S : y < x
    BY <1>2
  <2>2. b <= y
    OBVIOUS
  <2> QED
    BY <2>1, <2>2
<1>4. 0 \in Good
  BY <1>3
<1>5. ASSUME NEW n \in Nat, n \in Good PROVE n + 1 \in Good
  <2> SUFFICES ASSUME NEW x \in S PROVE x > b + (n + 1)
    OBVIOUS
  <2>1. PICK y \in S : y < x
    BY <1>2
  <2>2. y > b + n
    BY <1>5
  <2> QED
    BY <2>1, <2>2
<1> HIDE DEF Good
<1>6. Nat \subseteq Good
  BY <1>4, <1>5, NatInduct
<1>7. PICK x \in S : TRUE
  OBVIOUS
<1>8. x - b \in Nat
  BY <1>3
<1>9. x > b + (x - b)
  BY <1>6, <1>8 DEF Good
<1> QED
  BY <1>9

LEMMA GreatestOf ==
  ASSUME NEW S \in SUBSET Int, S # {}, NEW b \in Int, \A x \in S : x <= b
  PROVE  Max(S) \in S /\ \A y \in S : y <= Max(S)
<1> DEFINE T == {-x : x \in S}
<1>1. T \in SUBSET Int /\ T # {} /\ -b \in Int
  <2>1. PICK x \in S : TRUE
    OBVIOUS
  <2>2. -x \in T
    OBVIOUS
  <2> QED
    BY <2>2
<1>a. ASSUME NEW t \in T PROVE -b <= t
  <2>1. PICK x \in S : t = -x
    OBVIOUS
  <2>2. x \in Int /\ x <= b
    OBVIOUS
  <2> QED
    BY <2>1, <2>2
<1>2. Min(T) \in T /\ \A y \in T : Min(T) <= y
  <2> HIDE DEF T
  <2> QED
    BY <1>1, <1>a, LeastOf
<1>3. PICK x \in S : Min(T) = -x
  BY <1>2
<1>4. ASSUME NEW y \in S PROVE y <= x
  <2>1. -y \in T
    OBVIOUS
  <2>2. -x <= -y
    BY <1>2, <1>3, <2>1
  <2> QED
    BY <2>2
<1> QED
  BY <1>4 DEF Max

-----------------------------------------------------------------------------
(* Sums.  The sum of f over S is the number of points below its graph,     *)
(* which is a closed form of the library's recursive SumFunction.          *)

Below(f, n, S) == {p \in S \X (1 .. n) : p[2] <= f[p[1]]}

LEMMA BelowOneMore ==
  ASSUME NEW n \in Nat, NEW S, IsFiniteSet(S), NEW x, x \notin S,
         NEW f, \A y \in S \cup {x} : f[y] \in 0 .. n
  PROVE  /\ IsFiniteSet(Below(f, n, S))
         /\ Cardinality(Below(f, n, S)) \in Nat
         /\ Cardinality(Below(f, n, S \cup {x})) = Cardinality(Below(f, n, S)) + f[x]
<1>1. IsFiniteSet(Below(f, n, S))
  <2>1. IsFiniteSet(S \X (1 .. n))
    <3>1. IsFiniteSet(1 .. n)
      BY FS_Interval
    <3> QED
      BY <3>1, FS_Product, Zenon
  <2> QED
    BY <2>1, FS_Subset DEF Below
<1> DEFINE Col == {x} \X (1 .. f[x])
<1>2. IsFiniteSet(Col) /\ Cardinality(Col) = f[x]
  <2>1. IsFiniteSet({x}) /\ Cardinality({x}) = 1
    BY FS_Singleton
  <2>2. f[x] \in Nat
    OBVIOUS
  <2>3. IsFiniteSet(1 .. f[x]) /\ Cardinality(1 .. f[x]) = f[x]
    <3>1. \A m \in Nat : IsFiniteSet(1 .. m) /\ Cardinality(1 .. m) = m
      BY FS_Interval
    <3> QED
      BY <2>2, <3>1, Zenon
  <2>4. IsFiniteSet(Col) /\ Cardinality(Col) = Cardinality({x}) * Cardinality(1 .. f[x])
    BY <2>1, <2>3, FS_Product, Zenon
  <2> QED
    BY <2>1, <2>2, <2>3, <2>4
<1>3. Below(f, n, S \cup {x}) = Below(f, n, S) \cup Col
  BY DEF Below
<1>4. Below(f, n, S) \cap Col = {}
  BY DEF Below
<1>5. Cardinality(Below(f, n, S)) \in Nat
  BY <1>1, FS_CardinalityType
<1>6. Cardinality({}) = 0
  BY FS_EmptySet
<1> QED
  <2> HIDE DEF Col
  <2>1. Cardinality(Below(f, n, S) \cup Col)
          = Cardinality(Below(f, n, S)) + Cardinality(Col) - Cardinality(Below(f, n, S) \cap Col)
    BY <1>1, <1>2, FS_Union, Zenon
  <2>2. f[x] \in Nat
    OBVIOUS
  <2>3. Cardinality(Below(f, n, S \cup {x}))
          = Cardinality(Below(f, n, S)) + f[x] - Cardinality({})
    BY <1>2, <1>3, <1>4, <2>1, Zenon
  <2> QED
    BY <1>1, <1>5, <1>6, <2>2, <2>3

(* The recursive definition of the sum, unfolded. *)
SumStep(f, g, s) ==
  IF s = {} THEN 0 ELSE f[CHOOSE x \in s : TRUE] + g[s \ {CHOOSE x \in s : TRUE}]

LEMMA SumUnfolded ==
  ASSUME NEW f
  PROVE  SumFunction(f) =
           (CHOOSE g : g = [s \in SUBSET DOMAIN f |-> SumStep(f, g, s)])[DOMAIN f]
BY DEF SumFunction, SumFunctionOnSet, FoldFunctionOnSet, MapThenFoldSet, SumStep

LEMMA SumIsBelow ==
  ASSUME NEW n \in Nat, NEW S, IsFiniteSet(S), NEW f \in [S -> 0 .. n]
  PROVE  SumFunction(f) = Cardinality(Below(f, n, S))
<1> DEFINE Closed == [s \in SUBSET S |-> Cardinality(Below(f, n, s))]
<1>1. ASSUME NEW s \in SUBSET S, NEW x \in s
      PROVE  Cardinality(Below(f, n, s)) = f[x] + Cardinality(Below(f, n, s \ {x}))
  <2>1. IsFiniteSet(s \ {x}) /\ (s \ {x}) \cup {x} = s
    BY <1>1, FS_Subset
  <2>2. \A y \in (s \ {x}) \cup {x} : f[y] \in 0 .. n
    BY <1>1
  <2>3. /\ Cardinality(Below(f, n, s \ {x})) \in Nat
        /\ Cardinality(Below(f, n, (s \ {x}) \cup {x})) = Cardinality(Below(f, n, s \ {x})) + f[x]
    BY <2>1, <2>2, BelowOneMore
  <2>4. f[x] \in Nat
    BY <1>1
  <2>5. Cardinality(Below(f, n, s)) = Cardinality(Below(f, n, s \ {x})) + f[x]
    BY <2>1, <2>3, Zenon
  <2> QED
    BY <2>3, <2>4, <2>5
<1>2. Cardinality(Below(f, n, {})) = 0
  <2>1. Below(f, n, {}) = {}
    BY DEF Below
  <2> QED
    BY <2>1, FS_EmptySet
<1>3. Closed = [s \in SUBSET S |-> SumStep(f, Closed, s)]
  <2>1. ASSUME NEW s \in SUBSET S PROVE Cardinality(Below(f, n, s)) = SumStep(f, Closed, s)
    <3>1. CASE s = {}
      BY <1>2, <3>1 DEF SumStep
    <3>2. CASE s # {}
      <4>1. (CHOOSE x \in s : TRUE) \in s
        BY <3>2
      <4>2. s \ {CHOOSE x \in s : TRUE} \in SUBSET S
        OBVIOUS
      <4>3. Closed[s \ {CHOOSE x \in s : TRUE}] = Cardinality(Below(f, n, s \ {CHOOSE x \in s : TRUE}))
        BY <4>2
      <4>4. Cardinality(Below(f, n, s))
              = f[CHOOSE x \in s : TRUE] + Cardinality(Below(f, n, s \ {CHOOSE x \in s : TRUE}))
        BY <1>1, <4>1
      <4> QED
        BY <3>2, <4>3, <4>4 DEF SumStep
    <3> QED
      BY <3>1, <3>2
  <2> QED
    BY <2>1
<1>4. ASSUME NEW g, g = [s \in SUBSET S |-> SumStep(f, g, s)]
      PROVE  g = Closed
  <2> DEFINE Bad == {s \in SUBSET S : g[s] # Closed[s]}
  <2>1. SUFFICES ASSUME Bad # {} PROVE FALSE
    BY <1>4
  <2>2. PICK s \in Bad : \A u \in SUBSET s : u # s => u \notin Bad
    <3>1. Bad \subseteq SUBSET S
      OBVIOUS
    <3> HIDE DEF Bad
    <3> QED
      BY <2>1, <3>1, SmallestSubset
  <2>3. s \in SUBSET S /\ g[s] = SumStep(f, g, s) /\ Closed[s] = SumStep(f, Closed, s)
    BY <1>3, <1>4, <2>2
  <2>4. CASE s = {}
    BY <2>2, <2>3, <2>4 DEF SumStep
  <2>5. CASE s # {}
    <3>1. (CHOOSE x \in s : TRUE) \in s
      BY <2>5
    <3>2. g[s \ {CHOOSE x \in s : TRUE}] = Closed[s \ {CHOOSE x \in s : TRUE}]
      BY <2>2, <2>3, <3>1
    <3> QED
      BY <2>2, <2>3, <2>5, <3>2 DEF SumStep
  <2> QED
    BY <2>4, <2>5
<1>5. (CHOOSE g : g = [s \in SUBSET S |-> SumStep(f, g, s)]) = Closed
  <2> HIDE DEF Closed
  <2> QED
    BY <1>3, <1>4
<1>6. Closed[S] = Cardinality(Below(f, n, S))
  OBVIOUS
<1>7. SumFunction(f) = (CHOOSE g : g = [s \in SUBSET S |-> SumStep(f, g, s)])[S]
  <2>1. DOMAIN f = S
    OBVIOUS
  <2>2. SumFunction(f) = (CHOOSE g : g = [s \in SUBSET DOMAIN f |-> SumStep(f, g, s)])[DOMAIN f]
    BY SumUnfolded
  <2> QED
    BY <2>1, <2>2, Zenon
<1> QED
  BY <1>5, <1>6, <1>7, Zenon

(* Two functions that add up to m everywhere have sums that add up to m    *)
(* times the number of arguments.                                          *)
LEMMA SumsAddUp ==
  ASSUME NEW m \in Nat, NEW S, IsFiniteSet(S),
         NEW f \in [S -> 0 .. m], NEW g \in [S -> 0 .. m],
         \A x \in S : f[x] + g[x] = m
  PROVE  SumFunction(f) + SumFunction(g) = Cardinality(S) * m
<1> DEFINE Good == {T \in SUBSET S : Cardinality(Below(f, m, T)) + Cardinality(Below(g, m, T))
                                       = Cardinality(T) * m}
<1>1. {} \in Good
  <2>1. Below(f, m, {}) = {} /\ Below(g, m, {}) = {}
    BY DEF Below
  <2>2. Cardinality({}) = 0 /\ 0 * m = 0
    BY FS_EmptySet
  <2>3. Cardinality(Below(f, m, {})) + Cardinality(Below(g, m, {})) = Cardinality({}) * m
    <3>1. Cardinality(Below(f, m, {})) = 0 /\ Cardinality(Below(g, m, {})) = 0
      BY <2>1, <2>2, Zenon
    <3>2. 0 + 0 = 0 * m
      OBVIOUS
    <3> QED
      BY <2>2, <3>1, <3>2, Zenon
  <2> QED
    BY <2>3
<1>2. ASSUME NEW T \in SUBSET S, NEW x \in S \ T, T \in Good PROVE T \cup {x} \in Good
  <2>1. IsFiniteSet(T) /\ Cardinality(T) \in Nat /\ Cardinality(T \cup {x}) = Cardinality(T) + 1
    BY <1>2, FS_Subset, FS_AddElement, FS_CardinalityType
  <2>2. (\A y \in T \cup {x} : f[y] \in 0 .. m) /\ (\A y \in T \cup {x} : g[y] \in 0 .. m)
    BY <1>2
  <2>3. /\ Cardinality(Below(f, m, T)) \in Nat
        /\ Cardinality(Below(f, m, T \cup {x})) = Cardinality(Below(f, m, T)) + f[x]
        /\ Cardinality(Below(g, m, T)) \in Nat
        /\ Cardinality(Below(g, m, T \cup {x})) = Cardinality(Below(g, m, T)) + g[x]
    <3>1. x \notin T
      BY <1>2
    <3> HIDE DEF Good
    <3>2. /\ Cardinality(Below(f, m, T)) \in Nat
          /\ Cardinality(Below(f, m, T \cup {x})) = Cardinality(Below(f, m, T)) + f[x]
      BY <2>1, <2>2, <3>1, BelowOneMore
    <3>3. /\ Cardinality(Below(g, m, T)) \in Nat
          /\ Cardinality(Below(g, m, T \cup {x})) = Cardinality(Below(g, m, T)) + g[x]
      BY <2>1, <2>2, <3>1, BelowOneMore
    <3> QED
      BY <3>2, <3>3
  <2>4. (Cardinality(T) + 1) * m = Cardinality(T) * m + m /\ Cardinality(T) * m \in Nat
    BY <2>1
  <2>5. f[x] \in Nat /\ g[x] \in Nat /\ f[x] + g[x] = m
    BY <1>2
  <2>6. Cardinality(Below(f, m, T)) + Cardinality(Below(g, m, T)) = Cardinality(T) * m
    BY <1>2
  <2>7. Cardinality(Below(f, m, T \cup {x})) + Cardinality(Below(g, m, T \cup {x}))
          = Cardinality(T) * m + m
    BY <2>3, <2>4, <2>5, <2>6
  <2> QED
    BY <1>2, <2>1, <2>4, <2>7
<1>3. S \in Good
  <2> HIDE DEF Good
  <2> QED
    BY <1>1, <1>2, SetInduct
<1> QED
  BY <1>3, SumIsBelow

-----------------------------------------------------------------------------
(* Sizes. *)

(* The values of a function are at most as many as its arguments. *)
LEMMA ImageSmall ==
  ASSUME NEW S, IsFiniteSet(S), NEW f
  PROVE  /\ IsFiniteSet({f[x] : x \in S})
         /\ Cardinality({f[x] : x \in S}) \in Nat
         /\ Cardinality({f[x] : x \in S}) <= Cardinality(S)
<1> DEFINE T == {f[x] : x \in S}
           g == [x \in S |-> f[x]]
<1>1. g \in Surjection(S, T)
  BY DEF Surjection
<1> HIDE DEF T, g
<1>2. IsFiniteSet(T) /\ Cardinality(T) <= Cardinality(S)
  BY <1>1, FS_Surjection
<1>3. Cardinality(T) \in Nat
  BY <1>2, FS_CardinalityType
<1> QED
  BY <1>2, <1>3 DEF T

(* A union is at most as large as its parts together. *)
LEMMA UnionSmall ==
  ASSUME NEW S, IsFiniteSet(S), NEW T, IsFiniteSet(T),
         NEW m \in Nat, NEW n \in Nat, Cardinality(S) <= m, Cardinality(T) <= n
  PROVE  IsFiniteSet(S \cup T) /\ Cardinality(S \cup T) <= m + n
<1>1. IsFiniteSet(S \cup T) /\ Cardinality(S \cup T) = Cardinality(S) + Cardinality(T) - Cardinality(S \cap T)
  BY FS_Union
<1>2. IsFiniteSet(S \cap T)
  BY FS_Subset
<1>3. Cardinality(S) \in Nat /\ Cardinality(T) \in Nat /\ Cardinality(S \cap T) \in Nat
  BY <1>2, FS_CardinalityType
<1> QED
  BY <1>1, <1>3

=============================================================================
