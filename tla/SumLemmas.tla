----------------------------- MODULE SumLemmas -----------------------------
(***************************************************************************)
(* Sums of a function over a finite set, as SumFunctionOnSet defines them: *)
(* in an order that CHOOSE picks.  The facts below say that the order does *)
(* not matter and how sums split.                                          *)
(***************************************************************************)
EXTENDS Integers, Functions, FiniteSetTheorems, WellFoundedInduction, TLAPS

LEMMA SmallestNumber ==
  ASSUME NEW T, T \subseteq Nat, T # {}
  PROVE  \E n \in T : \A m \in T : n <= m
  <1> DEFINE R == {ss \in Nat \X Nat : ss[1] < ss[2]}
  <1>1. IsWellFoundedOn(R, Nat)
    BY NatLessThanWellFounded DEF OpToRel
  <1>2. \A m, n \in Nat : m < n => <<m, n>> \in R
    OBVIOUS
  <1> HIDE DEF R
  <1>3. PICK n \in T : \A m \in T : <<m, n>> \notin R
    BY <1>1, WFMin
  <1>4. \A m \in T : ~(m < n)
    BY <1>2, <1>3
  <1>5. \A m \in T : n <= m
    BY <1>4
  <1> QED BY <1>5

(* Induction over the subsets of a finite set, with the set of those for   *)
(* which something holds in the place of a predicate.                      *)
LEMMA SubsetInduction ==
  ASSUME NEW S, IsFiniteSet(S), NEW T,
         \A s \in SUBSET S : (\A x \in s : s \ {x} \in T) => s \in T
  PROVE  \A s \in SUBSET S : s \in T
  <1> SUFFICES ASSUME NEW bad \in SUBSET S, bad \notin T PROVE FALSE
    OBVIOUS
  <1> DEFINE sizes == {n \in Nat : \E s \in SUBSET S : s \notin T /\ Cardinality(s) = n}
  <1>1. \A s \in SUBSET S : IsFiniteSet(s) /\ Cardinality(s) \in Nat
    BY FS_Subset, FS_CardinalityType
  <1>2. Cardinality(bad) \in sizes
    BY <1>1
  <1>3. PICK n \in sizes : \A m \in sizes : n <= m
    <2>1. sizes \subseteq Nat /\ sizes # {}
      BY <1>2
    <2> HIDE DEF sizes
    <2> QED BY <2>1, SmallestNumber
  <1>4. PICK s \in SUBSET S : s \notin T /\ Cardinality(s) = n
    OBVIOUS
  <1>5. PICK x \in s : s \ {x} \notin T
    BY <1>4
  <1>6. Cardinality(s \ {x}) = n - 1 /\ s \ {x} \in SUBSET S
    BY <1>1, <1>4, FS_RemoveElement
  <1>7. Cardinality(s \ {x}) \in Nat
    BY <1>1, <1>6
  <1>8. n - 1 \in sizes
    BY <1>5, <1>6, <1>7
  <1> QED BY <1>3, <1>8
-----------------------------------------------------------------------------
(* The element that is added first. *)
First(s) == CHOOSE x \in s : TRUE

Adds(g, f, sets) ==
    g = [s \in sets |-> IF s = {} THEN 0 ELSE f[First(s)] + g[s \ {First(s)}]]

Sums(g, f, S) == Adds(g, f, SUBSET S)

LEMMA FirstIn == ASSUME NEW s, s # {} PROVE First(s) \in s
  BY DEF First

LEMMA SumIs ==
  ASSUME NEW f, NEW S
  PROVE  SumFunctionOnSet(f, S) = (CHOOSE g : Sums(g, f, S))[S]
  BY DEF SumFunctionOnSet, FoldFunctionOnSet, MapThenFoldSet, Sums, Adds, First

(* Sums of the sets of at most n elements, from those of at most n - 1. *)
UpTo(n, S) == {s \in SUBSET S : Cardinality(s) <= n}

LEMMA AddsUpTo ==
  ASSUME NEW f, NEW S, IsFiniteSet(S)
  PROVE  \A n \in Nat : \E g : Adds(g, f, UpTo(n, S))
  <1> DEFINE bad == {n \in Nat : ~\E g : Adds(g, f, UpTo(n, S))}
  <1> SUFFICES ASSUME bad # {} PROVE FALSE
    OBVIOUS
  <1>1. \A s \in SUBSET S : IsFiniteSet(s) /\ Cardinality(s) \in Nat
    BY FS_Subset, FS_CardinalityType
  <1>2. PICK n \in bad : \A m \in bad : n <= m
    <2>1. bad \subseteq Nat
      OBVIOUS
    <2> HIDE DEF bad
    <2> QED BY <2>1, SmallestNumber
  <1>3. n \in Nat /\ ~\E g : Adds(g, f, UpTo(n, S))
    OBVIOUS
  <1>4. ASSUME NEW s \in SUBSET S, s # {}
        PROVE  /\ s \ {First(s)} \in SUBSET S
               /\ Cardinality(s \ {First(s)}) = Cardinality(s) - 1
    BY <1>1, <1>4, FirstIn, FS_RemoveElement
  <1>5. CASE n = 0
    <2>1. \A s \in UpTo(0, S) : s = {}
      BY <1>1, FS_EmptySet DEF UpTo
    <2>2. Adds([s \in UpTo(0, S) |-> 0], f, UpTo(0, S))
      BY <2>1 DEF Adds
    <2> QED BY <1>3, <1>5, <2>2
  <1>6. CASE n # 0
    <2>1. n - 1 \in Nat /\ n - 1 \notin bad
      <3> HIDE DEF bad
      <3> QED BY <1>2, <1>3, <1>6
    <2>2. PICK h : Adds(h, f, UpTo(n - 1, S))
      BY <2>1
    <2> DEFINE g == [s \in UpTo(n, S) |->
                       IF s = {} THEN 0 ELSE f[First(s)] + h[s \ {First(s)}]]
    <2>3. ASSUME NEW s \in UpTo(n, S), s # {}
          PROVE  s \ {First(s)} \in UpTo(n - 1, S) /\ s \ {First(s)} \in UpTo(n, S)
      <3>1. s \in SUBSET S /\ Cardinality(s) <= n
        BY DEF UpTo
      <3>2. /\ s \ {First(s)} \in SUBSET S
            /\ Cardinality(s \ {First(s)}) = Cardinality(s) - 1
        BY <1>4, <2>3, <3>1
      <3>3. Cardinality(s) \in Nat
        BY <1>1, <3>1
      <3> QED BY <1>3, <3>1, <3>2, <3>3 DEF UpTo
    <2>4. \A s \in UpTo(n - 1, S) : s \in UpTo(n, S)
      BY <1>1, <1>3 DEF UpTo
    <2>5. ASSUME NEW s \in UpTo(n - 1, S) PROVE h[s] = g[s]
      <3>1. h[s] = IF s = {} THEN 0 ELSE f[First(s)] + h[s \ {First(s)}]
        <4>1. h = [t \in UpTo(n - 1, S) |->
                     IF t = {} THEN 0 ELSE f[First(t)] + h[t \ {First(t)}]]
          BY <2>2 DEF Adds
        <4> QED BY <4>1
      <3>2. g[s] = IF s = {} THEN 0 ELSE f[First(s)] + h[s \ {First(s)}]
        BY <2>4
      <3> QED BY <3>1, <3>2
    <2>6. \A s \in UpTo(n, S) : s # {} => h[s \ {First(s)}] = g[s \ {First(s)}]
      BY <2>3, <2>5
    <2>7. Adds(g, f, UpTo(n, S))
      <3>1. [s \in UpTo(n, S) |-> IF s = {} THEN 0 ELSE f[First(s)] + h[s \ {First(s)}]]
            = [s \in UpTo(n, S) |-> IF s = {} THEN 0 ELSE f[First(s)] + g[s \ {First(s)}]]
        <4> HIDE DEF g
        <4> QED BY <2>6
      <3> QED BY <3>1 DEF Adds
    <2> HIDE DEF g
    <2> QED BY <1>3, <2>7
  <1> QED BY <1>5, <1>6

LEMMA AddsExists ==
  ASSUME NEW f, NEW S, IsFiniteSet(S)
  PROVE  Sums(CHOOSE g : Sums(g, f, S), f, S)
  <1>1. Cardinality(S) \in Nat /\ UpTo(Cardinality(S), S) = SUBSET S
    BY FS_CardinalityType, FS_Subset DEF UpTo
  <1>2. \E g : Adds(g, f, UpTo(Cardinality(S), S))
    BY <1>1, AddsUpTo
  <1>3. \E g : Sums(g, f, S)
    BY <1>1, <1>2 DEF Sums
  <1> QED BY <1>3

(* Whichever set a sum starts from, it is the same. *)
LEMMA AddsAgree ==
  ASSUME NEW f, NEW S, NEW U \in SUBSET S, IsFiniteSet(S),
         NEW g, Sums(g, f, S), NEW h, Sums(h, f, U)
  PROVE  g[U] = h[U]
  <1> DEFINE T == {s \in SUBSET U : g[s] = h[s]}
  <1>1. IsFiniteSet(U)
    BY FS_Subset
  <1>2. ASSUME NEW s \in SUBSET U, \A x \in s : s \ {x} \in T
        PROVE  s \in T
    <2>1. g[s] = IF s = {} THEN 0 ELSE f[First(s)] + g[s \ {First(s)}]
      BY DEF Sums, Adds
    <2>2. h[s] = IF s = {} THEN 0 ELSE f[First(s)] + h[s \ {First(s)}]
      BY DEF Sums, Adds
    <2>3. s # {} => g[s \ {First(s)}] = h[s \ {First(s)}]
      BY <1>2, FirstIn
    <2> QED BY <2>1, <2>2, <2>3
  <1>3. U \in T
    <2> HIDE DEF T
    <2> QED BY <1>1, <1>2, SubsetInduction
  <1> QED BY <1>3
-----------------------------------------------------------------------------
(* A sum begins with the element that CHOOSE picks ... *)
LEMMA SumFirst ==
  ASSUME NEW f, NEW S, IsFiniteSet(S)
  PROVE  /\ SumFunctionOnSet(f, {}) = 0
         /\ S # {} => SumFunctionOnSet(f, S) =
                         f[First(S)] + SumFunctionOnSet(f, S \ {First(S)})
  <1> DEFINE sums(s) == CHOOSE g : Sums(g, f, s)
  <1>1. \A s : IsFiniteSet(s) => Sums(sums(s), f, s)
    BY AddsExists
  <1>2. \A s : SumFunctionOnSet(f, s) = sums(s)[s]
    BY SumIs
  <1> HIDE DEF sums
  <1>3. \A s : IsFiniteSet(s) =>
           sums(s)[s] = IF s = {} THEN 0 ELSE f[First(s)] + sums(s)[s \ {First(s)}]
    BY <1>1 DEF Sums, Adds
  <1>4. SumFunctionOnSet(f, {}) = 0
    BY <1>2, <1>3, FS_EmptySet
  <1>5. ASSUME S # {}
        PROVE  SumFunctionOnSet(f, S) = f[First(S)] + SumFunctionOnSet(f, S \ {First(S)})
    <2> DEFINE U == S \ {First(S)}
    <2>1. U \in SUBSET S /\ IsFiniteSet(U)
      BY FS_Subset
    <2>2. sums(S)[U] = sums(U)[U]
      <3>1. Sums(sums(S), f, S) /\ Sums(sums(U), f, U)
        BY <1>1, <2>1
      <3> HIDE DEF U
      <3> QED BY <2>1, <3>1, AddsAgree
    <2> QED BY <1>2, <1>3, <1>5, <2>2
  <1> QED BY <1>4, <1>5

(* ... is a number ... *)
LEMMA SumType ==
  ASSUME NEW f, NEW S, IsFiniteSet(S), \A x \in S : f[x] \in Nat
  PROVE  SumFunctionOnSet(f, S) \in Nat
  <1> DEFINE T == {s \in SUBSET S : SumFunctionOnSet(f, s) \in Nat}
  <1>1. ASSUME NEW s \in SUBSET S, \A x \in s : s \ {x} \in T
        PROVE  s \in T
    <2>1. IsFiniteSet(s)
      BY FS_Subset
    <2>2. CASE s = {}
      <3>1. SumFunctionOnSet(f, s) = 0
        BY <2>1, <2>2, SumFirst
      <3> QED BY <3>1
    <2>3. CASE s # {}
      <3>1. First(s) \in s /\ f[First(s)] \in Nat
        BY <2>3, FirstIn
      <3>2. SumFunctionOnSet(f, s \ {First(s)}) \in Nat
        BY <1>1, <3>1
      <3>3. SumFunctionOnSet(f, s) \in Nat
        BY <2>1, <2>3, <3>1, <3>2, SumFirst
      <3> QED BY <3>3
    <2> QED BY <2>2, <2>3
  <1>2. S \in T
    <2> HIDE DEF T
    <2>1. \A s \in SUBSET S : s \in T
      BY <1>1, SubsetInduction
    <2> QED BY <2>1
  <1> QED BY <1>2

(* ... and may as well begin with any other. *)
LEMMA SumAny ==
  ASSUME NEW f, NEW S, IsFiniteSet(S), \A x \in S : f[x] \in Nat
  PROVE  \A x \in S : SumFunctionOnSet(f, S) = f[x] + SumFunctionOnSet(f, S \ {x})
  <1> DEFINE sum(s) == SumFunctionOnSet(f, s)
             T == {s \in SUBSET S : \A x \in s : sum(s) = f[x] + sum(s \ {x})}
  <1>1. \A s \in SUBSET S : IsFiniteSet(s) /\ sum(s) \in Nat
    <2>1. \A s \in SUBSET S : IsFiniteSet(s)
      BY FS_Subset
    <2> QED BY <2>1, SumType
  <1>2. \A s \in SUBSET S : s # {} => sum(s) = f[First(s)] + sum(s \ {First(s)})
    BY <1>1, SumFirst
  <1> HIDE DEF sum
  <1>3. ASSUME NEW s \in SUBSET S, \A x \in s : s \ {x} \in T, NEW x \in s
        PROVE  sum(s) = f[x] + sum(s \ {x})
    <2> DEFINE y == First(s)
    <2>1. y \in s
      BY FirstIn
    <2>2. sum(s) = f[y] + sum(s \ {y})
      BY <1>2
    <2> HIDE DEF y
    <2>3. CASE x = y
      BY <2>2, <2>3
    <2>4. CASE x # y
      <3>1. sum(s \ {y}) = f[x] + sum((s \ {y}) \ {x})
        BY <1>3, <2>1, <2>4
      <3>2. sum(s \ {x}) = f[y] + sum((s \ {x}) \ {y})
        BY <1>3, <2>1, <2>4
      <3>3. (s \ {y}) \ {x} = (s \ {x}) \ {y} /\ (s \ {x}) \ {y} \in SUBSET S
        OBVIOUS
      <3>4. sum((s \ {x}) \ {y}) \in Nat /\ f[x] \in Nat /\ f[y] \in Nat
        BY <1>1, <2>1, <3>3
      <3> DEFINE n == sum((s \ {x}) \ {y})
      <3>5. sum(s) = f[y] + (f[x] + n) /\ sum(s \ {x}) = f[y] + n /\ n \in Nat
        BY <2>2, <3>1, <3>2, <3>3, <3>4
      <3> HIDE DEF n
      <3> QED BY <3>4, <3>5
    <2> QED BY <2>3, <2>4
  <1>4. \A s \in SUBSET S : (\A x \in s : s \ {x} \in T) => s \in T
    BY <1>3
  <1>5. S \in T
    <2> HIDE DEF T
    <2>1. \A s \in SUBSET S : s \in T
      BY <1>4, SubsetInduction
    <2> QED BY <2>1
  <1> QED BY <1>5 DEF sum
-----------------------------------------------------------------------------
(* Sums of functions that agree. *)
LEMMA SumSame ==
  ASSUME NEW f, NEW g, NEW S, IsFiniteSet(S), \A x \in S : f[x] = g[x]
  PROVE  SumFunctionOnSet(f, S) = SumFunctionOnSet(g, S)
  <1> DEFINE T == {s \in SUBSET S : SumFunctionOnSet(f, s) = SumFunctionOnSet(g, s)}
  <1>1. ASSUME NEW s \in SUBSET S, \A x \in s : s \ {x} \in T
        PROVE  s \in T
    <2>1. IsFiniteSet(s)
      BY FS_Subset
    <2>2. CASE s = {}
      <3>1. SumFunctionOnSet(f, s) = 0 /\ SumFunctionOnSet(g, s) = 0
        BY <2>1, <2>2, SumFirst
      <3> QED BY <3>1
    <2>3. CASE s # {}
      <3>1. First(s) \in s /\ f[First(s)] = g[First(s)]
        BY <2>3, FirstIn
      <3>2. SumFunctionOnSet(f, s \ {First(s)}) = SumFunctionOnSet(g, s \ {First(s)})
        BY <1>1, <3>1
      <3>3. /\ SumFunctionOnSet(f, s) = f[First(s)] + SumFunctionOnSet(f, s \ {First(s)})
            /\ SumFunctionOnSet(g, s) = g[First(s)] + SumFunctionOnSet(g, s \ {First(s)})
        BY <2>1, <2>3, SumFirst
      <3> QED BY <3>1, <3>2, <3>3
    <2> QED BY <2>2, <2>3
  <1>2. S \in T
    <2> HIDE DEF T
    <2>1. \A s \in SUBSET S : s \in T
      BY <1>1, SubsetInduction
    <2> QED BY <2>1
  <1> QED BY <1>2

(* Where every term is at most another, so is the sum. *)
LEMMA SumMonotone ==
  ASSUME NEW f, NEW g, NEW S, IsFiniteSet(S),
         \A x \in S : f[x] \in Nat /\ g[x] \in Nat /\ f[x] <= g[x]
  PROVE  SumFunctionOnSet(f, S) <= SumFunctionOnSet(g, S)
  <1> DEFINE T == {s \in SUBSET S : SumFunctionOnSet(f, s) <= SumFunctionOnSet(g, s)}
  <1>1. ASSUME NEW s \in SUBSET S, \A x \in s : s \ {x} \in T
        PROVE  s \in T
    <2>1. IsFiniteSet(s)
      BY FS_Subset
    <2>2. CASE s = {}
      <3>1. SumFunctionOnSet(f, s) = 0 /\ SumFunctionOnSet(g, s) = 0
        BY <2>1, <2>2, SumFirst
      <3> QED BY <3>1
    <2>3. CASE s # {}
      <3> DEFINE x == First(s)
                 a == SumFunctionOnSet(f, s \ {x})
                 b == SumFunctionOnSet(g, s \ {x})
      <3>1. x \in s /\ f[x] \in Nat /\ g[x] \in Nat /\ f[x] <= g[x]
        BY <2>3, FirstIn
      <3>2. a <= b
        BY <1>1, <3>1
      <3>3. SumFunctionOnSet(f, s) = f[x] + a /\ SumFunctionOnSet(g, s) = g[x] + b
        BY <2>1, <2>3, SumFirst
      <3>4. a \in Nat /\ b \in Nat
        <4>1. IsFiniteSet(s \ {x})
          BY <2>1, FS_Subset
        <4>2. \A y \in s \ {x} : f[y] \in Nat /\ g[y] \in Nat
          OBVIOUS
        <4> HIDE DEF x
        <4> QED BY <4>1, <4>2, SumType
      <3> HIDE DEF a, b, x
      <3>5. SumFunctionOnSet(f, s) <= SumFunctionOnSet(g, s)
        BY <3>1, <3>2, <3>3, <3>4
      <3> QED BY <3>5
    <2> QED BY <2>2, <2>3
  <1>2. S \in T
    <2> HIDE DEF T
    <2>1. \A s \in SUBSET S : s \in T
      BY <1>1, SubsetInduction
    <2> QED BY <2>1
  <1> QED BY <1>2

(* A sum splits where its set does. *)
LEMMA SumUnion ==
  ASSUME NEW f, NEW A, NEW B, IsFiniteSet(A), IsFiniteSet(B), A \cap B = {},
         \A x \in A \cup B : f[x] \in Nat
  PROVE  SumFunctionOnSet(f, A \cup B) = SumFunctionOnSet(f, A) + SumFunctionOnSet(f, B)
  <1> DEFINE sum(s) == SumFunctionOnSet(f, s)
             T == {s \in SUBSET B : sum(A \cup s) = sum(A) + sum(s)}
  <1>1. \A s \in SUBSET B : /\ IsFiniteSet(A \cup s) /\ IsFiniteSet(s)
                            /\ sum(A \cup s) \in Nat /\ sum(s) \in Nat
    <2> SUFFICES ASSUME NEW s \in SUBSET B
                 PROVE  /\ IsFiniteSet(A \cup s) /\ IsFiniteSet(s)
                        /\ sum(A \cup s) \in Nat /\ sum(s) \in Nat
      OBVIOUS
    <2>1. IsFiniteSet(s)
      BY FS_Subset
    <2>2. IsFiniteSet(A \cup s)
      BY <2>1, FS_Union
    <2>3. \A x \in A \cup s : f[x] \in Nat
      OBVIOUS
    <2> QED BY <2>1, <2>2, <2>3, SumType
  <1>2. sum(A) \in Nat
    BY SumType
  <1>3. \A s \in SUBSET B : \A x \in A \cup s : sum(A \cup s) = f[x] + sum((A \cup s) \ {x})
    BY <1>1, SumAny
  <1>4. \A s \in SUBSET B : \A x \in s : sum(s) = f[x] + sum(s \ {x})
    BY <1>1, SumAny
  <1>5. sum({}) = 0
    BY FS_EmptySet, SumFirst
  <1> HIDE DEF sum
  <1>6. ASSUME NEW s \in SUBSET B, \A x \in s : s \ {x} \in T
        PROVE  sum(A \cup s) = sum(A) + sum(s)
    <2>1. CASE s = {}
      <3>1. A \cup s = A
        BY <2>1
      <3> QED BY <1>2, <1>5, <2>1, <3>1
    <2>2. CASE s # {}
      <3>1. PICK x \in s : TRUE
        BY <2>2
      <3>2. (A \cup s) \ {x} = A \cup (s \ {x})
        OBVIOUS
      <3>3. sum(A \cup (s \ {x})) = sum(A) + sum(s \ {x})
        BY <1>6
      <3>4. /\ sum(A \cup s) = f[x] + sum(A \cup (s \ {x}))
            /\ sum(s) = f[x] + sum(s \ {x})
        BY <1>3, <1>4, <3>2
      <3>5. f[x] \in Nat /\ sum(s \ {x}) \in Nat
        BY <1>1
      <3> QED BY <1>2, <3>3, <3>4, <3>5
    <2> QED BY <2>1, <2>2
  <1>7. B \in T
    <2>1. \A s \in SUBSET B : (\A x \in s : s \ {x} \in T) => s \in T
      BY <1>6
    <2> HIDE DEF T
    <2>2. \A s \in SUBSET B : s \in T
      BY <2>1, SubsetInduction
    <2> QED BY <2>2
  <1> QED BY <1>7 DEF sum

LEMMA SumSubset ==
  ASSUME NEW f, NEW S, IsFiniteSet(S), NEW A \in SUBSET S, \A x \in S : f[x] \in Nat
  PROVE  SumFunctionOnSet(f, A) <= SumFunctionOnSet(f, S)
  <1> DEFINE B == S \ A
  <1>1. /\ IsFiniteSet(A) /\ IsFiniteSet(B) /\ A \cap B = {} /\ A \cup B = S
        /\ \A x \in A \cup B : f[x] \in Nat
    BY FS_Subset
  <1>2. /\ \A x \in A : f[x] \in Nat
        /\ \A x \in B : f[x] \in Nat
    OBVIOUS
  <1> HIDE DEF B
  <1>3. SumFunctionOnSet(f, A) \in Nat /\ SumFunctionOnSet(f, B) \in Nat
    BY <1>1, <1>2, SumType
  <1>4. SumFunctionOnSet(f, A \cup B) = SumFunctionOnSet(f, A) + SumFunctionOnSet(f, B)
    BY <1>1, SumUnion
  <1>5. SumFunctionOnSet(f, S) = SumFunctionOnSet(f, A) + SumFunctionOnSet(f, B)
    BY <1>1, <1>4
  <1> QED BY <1>3, <1>5

LEMMA FiniteImage ==
  ASSUME NEW S, IsFiniteSet(S), NEW key
  PROVE  IsFiniteSet({key[x] : x \in S})
  <1> DEFINE image == {key[x] : x \in S}
             map == [x \in S |-> key[x]]
  <1>1. map \in Surjection(S, image)
    BY DEF Surjection
  <1> HIDE DEF map, image
  <1>2. IsFiniteSet(image)
    BY <1>1, FS_Surjection
  <1> QED BY <1>2 DEF image

(* A sum by groups. *)
LEMMA SumGroups ==
  ASSUME NEW f, NEW S, IsFiniteSet(S), NEW key, NEW K, IsFiniteSet(K),
         \A x \in S : f[x] \in Nat /\ key[x] \in K
  PROVE  SumFunctionOnSet(f, S) =
            SumFunctionOnSet([k \in K |-> SumFunctionOnSet(f, {x \in S : key[x] = k})], K)
  <1> DEFINE group(k) == {x \in S : key[x] = k}
             h == [k \in K |-> SumFunctionOnSet(f, group(k))]
             of(s) == {x \in S : key[x] \in s}
             T == {s \in SUBSET K : SumFunctionOnSet(f, of(s)) = SumFunctionOnSet(h, s)}
  <1>1. \A A \in SUBSET S : IsFiniteSet(A) /\ SumFunctionOnSet(f, A) \in Nat
    <2> SUFFICES ASSUME NEW A \in SUBSET S
                 PROVE  IsFiniteSet(A) /\ SumFunctionOnSet(f, A) \in Nat
      OBVIOUS
    <2>1. IsFiniteSet(A)
      BY FS_Subset
    <2> QED BY <2>1, SumType
  <1>2. \A k \in K : h[k] \in Nat /\ h[k] = SumFunctionOnSet(f, group(k))
    BY <1>1
  <1>3. \A s \in SUBSET K : /\ IsFiniteSet(s)
                            /\ \A k \in s : SumFunctionOnSet(h, s) =
                                               h[k] + SumFunctionOnSet(h, s \ {k})
    <2> SUFFICES ASSUME NEW s \in SUBSET K
                 PROVE  /\ IsFiniteSet(s)
                        /\ \A k \in s : SumFunctionOnSet(h, s) =
                                           h[k] + SumFunctionOnSet(h, s \ {k})
      OBVIOUS
    <2>1. IsFiniteSet(s) /\ \A k \in s : h[k] \in Nat
      BY <1>2, FS_Subset
    <2> HIDE DEF h
    <2> QED BY <2>1, SumAny
  <1>4. ASSUME NEW s \in SUBSET K, NEW k \in s
        PROVE  SumFunctionOnSet(f, of(s)) =
                  SumFunctionOnSet(f, of(s \ {k})) + SumFunctionOnSet(f, group(k))
    <2> DEFINE A == of(s \ {k})
               B == group(k)
    <2>1. A \cup B = of(s) /\ A \cap B = {} /\ A \in SUBSET S /\ B \in SUBSET S
      BY <1>4
    <2> HIDE DEF A, B, of, group
    <2>2. \A x \in A \cup B : f[x] \in Nat
      BY <2>1
    <2>3. SumFunctionOnSet(f, A \cup B) = SumFunctionOnSet(f, A) + SumFunctionOnSet(f, B)
      BY <1>1, <2>1, <2>2, SumUnion
    <2> QED BY <2>1, <2>3 DEF A, B
  <1>5. of({}) = {} /\ of(K) = S
    OBVIOUS
  <1>6. SumFunctionOnSet(f, {}) = 0 /\ SumFunctionOnSet(h, {}) = 0
    <2> HIDE DEF h
    <2> QED BY FS_EmptySet, SumFirst
  <1>7. \A s \in SUBSET K : of(s) \in SUBSET S
    OBVIOUS
  <1> HIDE DEF h, group, of
  <1>8. ASSUME NEW s \in SUBSET K, \A k \in s : s \ {k} \in T
        PROVE  s \in T
    <2>1. CASE s = {}
      BY <1>5, <1>6, <2>1
    <2>2. CASE s # {}
      <3>1. PICK k \in s : TRUE
        BY <2>2
      <3>2. SumFunctionOnSet(f, of(s \ {k})) = SumFunctionOnSet(h, s \ {k})
        BY <1>8
      <3>3. /\ SumFunctionOnSet(f, of(s)) = SumFunctionOnSet(f, of(s \ {k})) + h[k]
            /\ SumFunctionOnSet(h, s) = h[k] + SumFunctionOnSet(h, s \ {k})
        BY <1>2, <1>3, <1>4
      <3>4. SumFunctionOnSet(f, of(s \ {k})) \in Nat /\ h[k] \in Nat
        BY <1>1, <1>2, <1>7
      <3> DEFINE a == SumFunctionOnSet(f, of(s \ {k}))
                 b == SumFunctionOnSet(f, of(s))
                 c == SumFunctionOnSet(h, s)
      <3>5. b = c
        <4>1. b = a + h[k] /\ c = h[k] + a /\ a \in Nat /\ h[k] \in Nat
          BY <3>2, <3>3, <3>4
        <4> HIDE DEF a, b, c
        <4> QED BY <4>1
      <3> QED BY <3>5
    <2> QED BY <2>1, <2>2
  <1>9. K \in T
    <2> HIDE DEF T
    <2>1. \A s \in SUBSET K : s \in T
      BY <1>8, SubsetInduction
    <2> QED BY <2>1
  <1> QED BY <1>5, <1>9 DEF h, group

(* A cardinality is a sum of ones ... *)
LEMMA SumOnes ==
  ASSUME NEW f, NEW S, IsFiniteSet(S), \A x \in S : f[x] = 1
  PROVE  SumFunctionOnSet(f, S) = Cardinality(S)
  <1> DEFINE T == {s \in SUBSET S : SumFunctionOnSet(f, s) = Cardinality(s)}
  <1>1. ASSUME NEW s \in SUBSET S, \A x \in s : s \ {x} \in T
        PROVE  s \in T
    <2>1. IsFiniteSet(s)
      BY FS_Subset
    <2>2. CASE s = {}
      <3>1. SumFunctionOnSet(f, s) = 0 /\ Cardinality(s) = 0
        BY <2>1, <2>2, SumFirst, FS_EmptySet
      <3> QED BY <3>1
    <2>3. CASE s # {}
      <3>1. First(s) \in s /\ f[First(s)] = 1
        BY <2>3, FirstIn
      <3>2. SumFunctionOnSet(f, s \ {First(s)}) = Cardinality(s \ {First(s)})
        BY <1>1, <3>1
      <3>3. Cardinality(s \ {First(s)}) = Cardinality(s) - 1 /\ Cardinality(s) \in Nat
        BY <2>1, <3>1, FS_RemoveElement, FS_CardinalityType
      <3>4. SumFunctionOnSet(f, s) = f[First(s)] + SumFunctionOnSet(f, s \ {First(s)})
        BY <2>1, <2>3, SumFirst
      <3>5. SumFunctionOnSet(f, s) = Cardinality(s)
        BY <3>1, <3>2, <3>3, <3>4
      <3> QED BY <3>5
    <2> QED BY <2>2, <2>3
  <1>2. S \in T
    <2> HIDE DEF T
    <2>1. \A s \in SUBSET S : s \in T
      BY <1>1, SubsetInduction
    <2> QED BY <2>1
  <1> QED BY <1>2

(* ... and the sum of the cardinalities of the groups. *)
LEMMA CardinalityGroups ==
  ASSUME NEW S, IsFiniteSet(S), NEW key, NEW K, IsFiniteSet(K), \A x \in S : key[x] \in K
  PROVE  Cardinality(S) =
            SumFunctionOnSet([k \in K |-> Cardinality({x \in S : key[x] = k})], K)
  <1> DEFINE one == [x \in S |-> 1]
             group(k) == {x \in S : key[x] = k}
             g == [k \in K |-> SumFunctionOnSet(one, group(k))]
             h == [k \in K |-> Cardinality(group(k))]
  <1>1. \A x \in S : one[x] = 1 /\ one[x] \in Nat
    OBVIOUS
  <1> HIDE DEF one
  <1>2. SumFunctionOnSet(one, S) = Cardinality(S)
    BY <1>1, SumOnes
  <1>3. SumFunctionOnSet(one, S) = SumFunctionOnSet(g, K)
    BY <1>1, SumGroups
  <1>4. \A k \in K : SumFunctionOnSet(one, group(k)) = Cardinality(group(k))
    <2> SUFFICES ASSUME NEW k \in K
                 PROVE  SumFunctionOnSet(one, group(k)) = Cardinality(group(k))
      OBVIOUS
    <2>1. IsFiniteSet(group(k)) /\ \A x \in group(k) : one[x] = 1
      BY <1>1, FS_Subset
    <2> HIDE DEF group
    <2> QED BY <2>1, SumOnes
  <1>5. \A k \in K : g[k] = h[k]
    BY <1>4
  <1>6. SumFunctionOnSet(g, K) = SumFunctionOnSet(h, K)
    <2> HIDE DEF g, h
    <2> QED BY <1>5, SumSame
  <1> QED BY <1>2, <1>3, <1>6

LEMMA SumSingle ==
  ASSUME NEW f, NEW x, f[x] \in Nat
  PROVE  SumFunctionOnSet(f, {x}) = f[x]
  <1>1. IsFiniteSet({x}) /\ \A y \in {x} : f[y] \in Nat
    BY FS_Singleton
  <1>2. SumFunctionOnSet(f, {x}) = f[x] + SumFunctionOnSet(f, {x} \ {x})
    BY <1>1, SumAny
  <1>3. {x} \ {x} = {} /\ SumFunctionOnSet(f, {}) = 0
    BY <1>1, SumFirst
  <1> QED BY <1>2, <1>3

(* Numbers that are each off by at most half of total are together off by  *)
(* at most half of it for each.                                            *)
Close(x, c, total, n) == 2 * (x * total - c * 10000) \in -(n * total) .. n * total

LEMMA ErrorsAddUp ==
  ASSUME NEW V, IsFiniteSet(V), NEW counts, NEW p, NEW total \in Nat,
         \A v \in V : counts[v] \in Nat /\ p[v] \in Nat /\ Close(p[v], counts[v], total, 1)
  PROVE  Close(SumFunctionOnSet(p, V), SumFunctionOnSet(counts, V), total, Cardinality(V))
  <1> DEFINE P(s) == SumFunctionOnSet(p, s)
             C(s) == SumFunctionOnSet(counts, s)
             N(s) == Cardinality(s)
  <1>1. \A s \in SUBSET V : /\ IsFiniteSet(s) /\ P(s) \in Nat /\ C(s) \in Nat /\ N(s) \in Nat
    <2>1. \A s \in SUBSET V : IsFiniteSet(s)
      BY FS_Subset
    <2> QED BY <2>1, SumType, FS_CardinalityType
  <1>2. P({}) = 0 /\ C({}) = 0 /\ N({}) = 0
    <2>1. IsFiniteSet({}) /\ N({}) = 0
      BY FS_EmptySet
    <2>2. SumFunctionOnSet(p, {}) = 0
      BY <2>1, SumFirst
    <2>3. SumFunctionOnSet(counts, {}) = 0
      BY <2>1, SumFirst
    <2> QED BY <2>1, <2>2, <2>3
  <1>3. ASSUME NEW s \in SUBSET V, NEW v \in s
        PROVE  /\ P(s) = p[v] + P(s \ {v})
               /\ C(s) = counts[v] + C(s \ {v})
               /\ N(s) = N(s \ {v}) + 1
    <2>1. N(s \ {v}) = N(s) - 1 /\ N(s) \in Nat
      BY <1>1, FS_RemoveElement
    <2>2. IsFiniteSet(s) /\ \A x \in s : p[x] \in Nat /\ counts[x] \in Nat
      BY <1>1
    <2> QED BY <2>1, <2>2, SumAny
  <1> HIDE DEF P, C, N
  <1> DEFINE T == {s \in SUBSET V : Close(P(s), C(s), total, N(s))}
  <1>4. ASSUME NEW s \in SUBSET V, \A v \in s : s \ {v} \in T
        PROVE  s \in T
    <2>1. CASE s = {}
      BY <1>2, <2>1 DEF Close
    <2>2. CASE s # {}
      <3>1. PICK v \in s : TRUE
        BY <2>2
      <3> DEFINE a == P(s \ {v})
                 b == C(s \ {v})
                 m == N(s \ {v})
                 x == p[v]
                 y == counts[v]
      <3>2. /\ a \in Nat /\ b \in Nat /\ m \in Nat /\ x \in Nat /\ y \in Nat
            /\ P(s) = x + a /\ C(s) = y + b /\ N(s) = m + 1
        BY <1>1, <1>3
      <3>3. /\ 2 * (a * total - b * 10000) \in -(m * total) .. m * total
            /\ 2 * (x * total - y * 10000) \in -total .. total
        <4>1. Close(a, b, total, m) /\ Close(x, y, total, 1)
          BY <1>4
        <4> HIDE DEF a, b, m, x, y
        <4> QED BY <4>1, <3>2 DEF Close
      <3> HIDE DEF a, b, m, x, y
      <3>4. /\ (x + a) * total = x * total + a * total
            /\ (m + 1) * total = m * total + total
            /\ x * total \in Nat /\ a * total \in Nat /\ m * total \in Nat
        BY <3>2
      <3> DEFINE xt == x * total
                 at == a * total
                 mt == m * total
      <3>5. 2 * (xt + at - (y + b) * 10000) \in -(mt + total) .. mt + total
        <4>1. /\ 2 * (at - b * 10000) \in -mt .. mt
              /\ 2 * (xt - y * 10000) \in -total .. total
              /\ xt \in Nat /\ at \in Nat /\ mt \in Nat
          BY <3>3, <3>4
        <4> HIDE DEF xt, at, mt
        <4> QED BY <3>2, <4>1
      <3> QED BY <3>2, <3>4, <3>5 DEF Close
    <2> QED BY <2>1, <2>2
  <1>5. V \in T
    <2>1. \A s \in SUBSET V : (\A v \in s : s \ {v} \in T) => s \in T
      BY <1>4
    <2> HIDE DEF T
    <2>2. \A s \in SUBSET V : s \in T
      BY <2>1, SubsetInduction
    <2> QED BY <2>2
  <1> QED BY <1>5 DEF P, C, N
=============================================================================
