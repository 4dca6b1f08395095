----------------------------- MODULE SumLemmas -----------------------------
(***************************************************************************)
(* What SumFunctionOnSet of the community modules computes: the sum of a   *)
(* function over a finite set, one element at a time and in any order;     *)
(* and the cardinality of a set that gains or loses one element.           *)
(* Induction is over sets: a property of the natural numbers, or of the    *)
(* subsets of a finite set, is the set of those that have it.              *)
(***************************************************************************)
EXTENDS Integers, FiniteSets, Functions, FiniteSetTheorems, WellFoundedInduction, TLAPS

\* Induction over the natural numbers.
LEMMA NatSetInduction ==
  ASSUME NEW G, 0 \in G, \A n \in Nat : n \in G => n + 1 \in G
  PROVE  Nat \subseteq G
<1> DEFINE Bad == Nat \ G
           R == OpToRel(<, Nat)
<1> SUFFICES ASSUME Bad # {} PROVE FALSE
  OBVIOUS
<1>1. R = {ss \in Nat \X Nat : ss[1] < ss[2]}
  BY DEF OpToRel
<1>2. IsWellFoundedOn(R, Nat)
  BY NatLessThanWellFounded
<1>3. PICK x \in Bad : \A y \in Bad : ~ (<<y, x>> \in R)
  <2>1. Bad \subseteq Nat
    OBVIOUS
  <2> HIDE DEF Bad, R
  <2> QED
    BY <1>2, <2>1, WFMin
<1> HIDE DEF R
<1>4. x \in Nat /\ x # 0 /\ x - 1 \in Nat
  OBVIOUS
<1>5. x - 1 \in Bad
  BY <1>4
<1>6. <<x - 1, x>> \in R
  BY <1>1, <1>4
<1> QED
  BY <1>3, <1>5, <1>6

\* Induction over the subsets of a finite set, one element at a time.
LEMMA SubsetInduction ==
  ASSUME NEW S, IsFiniteSet(S), NEW G, {} \in G,
         \A T \in SUBSET S, x \in S : T \in G /\ x \notin T => T \cup {x} \in G
  PROVE  SUBSET S \subseteq G
<1> DEFINE N == {n \in Nat : \A T \in SUBSET S : Cardinality(T) = n => T \in G}
<1>1. \A T \in SUBSET S : IsFiniteSet(T) /\ Cardinality(T) \in Nat
  BY FS_Subset, FS_CardinalityType
<1>2. 0 \in N
  BY <1>1, FS_EmptySet
<1>3. ASSUME NEW n \in Nat, n \in N PROVE n + 1 \in N
  <2> SUFFICES ASSUME NEW T \in SUBSET S, Cardinality(T) = n + 1 PROVE T \in G
    BY <1>3
  <2>1. T # {}
    <3>1. Cardinality({}) = 0
      BY FS_EmptySet
    <3> QED
      BY <3>1
  <2>2. PICK x \in T : TRUE
    BY <2>1
  <2>3. Cardinality(T \ {x}) = n
    <3>1. Cardinality(T \ {x}) = Cardinality(T) - 1
      BY <1>1, FS_RemoveElement
    <3> QED
      BY <3>1
  <2>4. T \ {x} \in G
    BY <1>3, <2>3
  <2>5. T = (T \ {x}) \cup {x}
    OBVIOUS
  <2> QED
    BY <2>4, <2>5
<1>4. Nat \subseteq N
  <2> HIDE DEF N
  <2> QED
    BY <1>2, <1>3, NatSetInduction
<1> QED
  BY <1>1, <1>4

\* The element the library's folds take next.
Chosen(s) == CHOOSE x \in s : TRUE

\* The equation of its recursive function, at one set.
SumAt(f, g, s) == IF s = {} THEN 0 ELSE f[Chosen(s)] + g[s \ {Chosen(s)}]

\* The recursive function itself.
Iter(f, T) == CHOOSE g : g = [s \in SUBSET T |-> SumAt(f, g, s)]

\* The sum as the library defines it.
LEMMA SumUnfold ==
  ASSUME NEW f, NEW T
  PROVE  SumFunctionOnSet(f, T) = Iter(f, T)[T]
BY DEF SumFunctionOnSet, FoldFunctionOnSet, MapThenFoldSet, Iter, SumAt, Chosen

\* On a finite set the recursive function exists and satisfies its equation:
\* for every number there is a function that satisfies it on the sets of at
\* most that many elements.
LEMMA IterEquation ==
  ASSUME NEW f, NEW T, IsFiniteSet(T)
  PROVE  \A s \in SUBSET T : Iter(f, T)[s] = SumAt(f, Iter(f, T), s)
<1> DEFINE Upto(n) == \E g : \A s \in SUBSET T :
                        Cardinality(s) <= n => g[s] = SumAt(f, g, s)
           N == {n \in Nat : Upto(n)}
<1>1. \A s \in SUBSET T : IsFiniteSet(s) /\ Cardinality(s) \in Nat
  BY FS_Subset, FS_CardinalityType
<1>2. \A s \in SUBSET T : s # {} =>
        /\ Chosen(s) \in s /\ s \ {Chosen(s)} \in SUBSET T
        /\ Cardinality(s \ {Chosen(s)}) = Cardinality(s) - 1
  <2> SUFFICES ASSUME NEW s \in SUBSET T, s # {}
               PROVE  /\ Chosen(s) \in s /\ s \ {Chosen(s)} \in SUBSET T
                      /\ Cardinality(s \ {Chosen(s)}) = Cardinality(s) - 1
    OBVIOUS
  <2>1. Chosen(s) \in s
    BY DEF Chosen
  <2> HIDE DEF Upto, N
  <2>2. Cardinality(s \ {Chosen(s)}) = Cardinality(s) - 1
    BY <1>1, <2>1, FS_RemoveElement
  <2> QED
    BY <2>1, <2>2
<1>3. Upto(0)
  <2> DEFINE g == [s \in SUBSET T |-> 0]
  <2>1. \A s \in SUBSET T : Cardinality(s) <= 0 => s = {}
    BY <1>1, FS_EmptySet
  <2>2. \A s \in SUBSET T : Cardinality(s) <= 0 => g[s] = SumAt(f, g, s)
    BY <2>1 DEF SumAt
  <2> QED
    BY <2>2
<1>4. ASSUME NEW n \in Nat, Upto(n) PROVE Upto(n + 1)
  <2>1. PICK g : \A s \in SUBSET T : Cardinality(s) <= n => g[s] = SumAt(f, g, s)
    BY <1>4
  <2> DEFINE h == [s \in SUBSET T |-> SumAt(f, g, s)]
  <2>2. ASSUME NEW s \in SUBSET T, Cardinality(s) <= n + 1
        PROVE  h[s] = SumAt(f, h, s)
    <3>1. CASE s = {}
      BY <3>1 DEF SumAt
    <3>2. CASE s # {}
      <4> DEFINE r == s \ {Chosen(s)}
      <4>1. r \in SUBSET T /\ Cardinality(r) <= n
        BY <1>1, <1>2, <2>2, <3>2
      <4>2. h[r] = g[r]
        BY <2>1, <4>1
      <4> QED
        BY <3>2, <4>2 DEF SumAt
    <3> QED
      BY <3>1, <3>2
  <2> HIDE DEF h
  <2> QED
    BY <2>2
<1>5. Nat \subseteq N
  <2>1. 0 \in N /\ \A n \in Nat : n \in N => n + 1 \in N
    <3> HIDE DEF Upto
    <3> QED
      BY <1>3, <1>4
  <2> HIDE DEF N
  <2> QED
    BY <2>1, NatSetInduction
<1>6. PICK g : \A s \in SUBSET T : g[s] = SumAt(f, g, s)
  <2>1. Cardinality(T) \in Nat /\ \A s \in SUBSET T : Cardinality(s) <= Cardinality(T)
    BY FS_Subset, FS_CardinalityType
  <2>2. Upto(Cardinality(T))
    <3> HIDE DEF Upto
    <3> QED
      BY <1>5, <2>1
  <2> QED
    BY <2>1, <2>2
<1> DEFINE h == [s \in SUBSET T |-> SumAt(f, g, s)]
<1>7. h = [s \in SUBSET T |-> SumAt(f, h, s)]
  <2>1. \A s \in SUBSET T : h[s] = g[s]
    BY <1>6
  <2>2. \A s \in SUBSET T : SumAt(f, h, s) = SumAt(f, g, s)
    BY <1>2, <2>1 DEF SumAt
  <2> QED
    BY <2>2
<1> HIDE DEF h
<1>8. Iter(f, T) = [s \in SUBSET T |-> SumAt(f, Iter(f, T), s)]
  BY <1>7 DEF Iter
<1> HIDE DEF Upto, N
<1> QED
  BY <1>8

\* Two functions that satisfy the equation agree on the sets both know.
LEMMA IterAgree ==
  ASSUME NEW f, NEW T, IsFiniteSet(T), NEW U \in SUBSET T
  PROVE  Iter(f, T)[U] = Iter(f, U)[U]
<1>1. IsFiniteSet(U)
  BY FS_Subset
<1> DEFINE g == Iter(f, T)
           h == Iter(f, U)
           N == {n \in Nat : \A s \in SUBSET U : Cardinality(s) <= n => g[s] = h[s]}
<1>2. /\ \A s \in SUBSET U : g[s] = SumAt(f, g, s)
      /\ \A s \in SUBSET U : h[s] = SumAt(f, h, s)
  <2>1. \A s \in SUBSET T : g[s] = SumAt(f, g, s)
    BY IterEquation
  <2>2. \A s \in SUBSET U : h[s] = SumAt(f, h, s)
    BY <1>1, IterEquation
  <2> QED
    BY <2>1, <2>2
<1> HIDE DEF g, h
<1>3. \A s \in SUBSET U : IsFiniteSet(s) /\ Cardinality(s) \in Nat
  BY <1>1, FS_Subset, FS_CardinalityType
<1>4. 0 \in N
  <2>1. \A s \in SUBSET U : Cardinality(s) <= 0 => s = {}
    BY <1>3, FS_EmptySet
  <2> QED
    BY <1>2, <2>1 DEF SumAt
<1>5. ASSUME NEW n \in Nat, n \in N PROVE n + 1 \in N
  <2>a. g[{}] = h[{}]
    BY <1>2 DEF SumAt
  <2> SUFFICES ASSUME NEW s \in SUBSET U, Cardinality(s) <= n + 1, s # {}
               PROVE  g[s] = h[s]
    BY <1>5, <2>a
  <2> DEFINE r == s \ {Chosen(s)}
  <2>1. Chosen(s) \in s
    BY DEF Chosen
  <2>2. r \in SUBSET U /\ Cardinality(r) <= n
    <3>1. Cardinality(r) = Cardinality(s) - 1
      BY <1>3, <2>1, FS_RemoveElement
    <3> QED
      BY <1>3, <3>1
  <2>3. g[r] = h[r]
    BY <1>5, <2>2
  <2> QED
    BY <1>2, <2>3 DEF SumAt
<1>6. Nat \subseteq N
  <2> HIDE DEF N
  <2> QED
    BY <1>4, <1>5, NatSetInduction
<1>7. Cardinality(U) \in N
  BY <1>3, <1>6
<1> QED
  BY <1>3, <1>7 DEF g, h

\* The sum takes one chosen element and the sum of the rest.
LEMMA SumChosen ==
  ASSUME NEW f, NEW T, IsFiniteSet(T)
  PROVE  SumFunctionOnSet(f, T) =
           IF T = {} THEN 0
           ELSE f[Chosen(T)] + SumFunctionOnSet(f, T \ {Chosen(T)})
<1>1. SumFunctionOnSet(f, T) = SumAt(f, Iter(f, T), T)
  BY SumUnfold, IterEquation
<1>2. T \ {Chosen(T)} \in SUBSET T
  OBVIOUS
<1>3. Iter(f, T)[T \ {Chosen(T)}] = SumFunctionOnSet(f, T \ {Chosen(T)})
  BY <1>2, IterAgree, SumUnfold
<1> QED
  BY <1>1, <1>3 DEF SumAt

\* Nothing is the sum over nothing.
LEMMA SumEmpty == ASSUME NEW f PROVE SumFunctionOnSet(f, {}) = 0
BY SumChosen, FS_EmptySet

\* A sum of natural numbers is one, and any element may be taken first.
LEMMA SumRemove ==
  ASSUME NEW f, NEW T, IsFiniteSet(T), \A x \in T : f[x] \in Nat
  PROVE  /\ SumFunctionOnSet(f, T) \in Nat
         /\ \A x \in T : SumFunctionOnSet(f, T)
                           = f[x] + SumFunctionOnSet(f, T \ {x})
<1> DEFINE Sum(s) == SumFunctionOnSet(f, s)
           Good(s) == Sum(s) \in Nat /\ \A x \in s : Sum(s) = f[x] + Sum(s \ {x})
           N == {n \in Nat : \A s \in SUBSET T : Cardinality(s) <= n => Good(s)}
<1>1. \A s \in SUBSET T : IsFiniteSet(s) /\ Cardinality(s) \in Nat
  BY FS_Subset, FS_CardinalityType
<1>2. Sum({}) = 0
  BY SumEmpty
<1>3. \A s \in SUBSET T : s # {} =>
        Chosen(s) \in s /\ Sum(s) = f[Chosen(s)] + Sum(s \ {Chosen(s)})
  BY <1>1, SumChosen DEF Chosen
<1> HIDE DEF Sum
<1>4. 0 \in N
  <2>1. \A s \in SUBSET T : Cardinality(s) <= 0 => s = {}
    BY <1>1, FS_EmptySet
  <2>2. Good({})
    BY <1>2
  <2> HIDE DEF Good
  <2> QED
    BY <2>1, <2>2
<1>5. ASSUME NEW n \in Nat, n \in N PROVE n + 1 \in N
  <2> SUFFICES ASSUME NEW s \in SUBSET T, Cardinality(s) <= n + 1, s # {}
               PROVE  Good(s)
    BY <1>2, <1>5
  <2> DEFINE c == Chosen(s)
  <2>1. c \in s /\ Sum(s) = f[c] + Sum(s \ {c})
    BY <1>3
  <2> HIDE DEF c
  <2>2. \A x \in s : s \ {x} \in SUBSET T /\ Cardinality(s \ {x}) <= n
    <3> SUFFICES ASSUME NEW x \in s PROVE Cardinality(s \ {x}) <= n
      OBVIOUS
    <3>1. Cardinality(s \ {x}) = Cardinality(s) - 1
      BY <1>1, FS_RemoveElement
    <3> QED
      BY <1>1, <3>1
  <2>3. \A x \in s : Good(s \ {x})
    <3> HIDE DEF Good
    <3> QED
      BY <1>5, <2>2
  <2>4. Sum(s) \in Nat
    BY <2>1, <2>3
  <2>5. ASSUME NEW x \in s PROVE Sum(s) = f[x] + Sum(s \ {x})
    <3>1. CASE x = c
      BY <2>1, <3>1
    <3>2. CASE x # c
      <4> DEFINE both == (s \ {c}) \ {x}
      <4>1. both = (s \ {x}) \ {c} /\ x \in s \ {c} /\ c \in s \ {x}
        BY <2>1, <3>2
      <4>2. Sum(s \ {c}) = f[x] + Sum(both)
        BY <2>1, <2>3, <4>1
      <4>3. Sum(s \ {x}) = f[c] + Sum(both)
        BY <2>3, <4>1
      <4>4. both \in SUBSET T /\ Cardinality(both) <= n
        <5>1. both = (s \ {c}) \ {x} /\ s \ {c} \in SUBSET T
          OBVIOUS
        <5>2. Cardinality(both) <= Cardinality(s \ {c})
          BY <1>1, <5>1, FS_Subset
        <5> QED
          BY <1>1, <2>1, <2>2, <5>1, <5>2
      <4>5. Sum(both) \in Nat
        BY <1>5, <4>4
      <4> QED
        BY <2>1, <4>2, <4>3, <4>5
    <3> QED
      BY <3>1, <3>2
  <2> QED
    BY <2>4, <2>5
<1>6. Nat \subseteq N
  <2> HIDE DEF N
  <2> QED
    BY <1>4, <1>5, NatSetInduction
<1>7. Cardinality(T) \in N /\ T \in SUBSET T /\ Cardinality(T) <= Cardinality(T)
  BY <1>1, <1>6
<1>8. Good(T)
  <2> HIDE DEF Good
  <2> QED
    BY <1>7
<1> QED
  BY <1>8 DEF Sum

-----------------------------------------------------------------------------
(* How sums compare and change *)

\* An element taken out of a sum, or added to one.
LEMMA SumInsert ==
  ASSUME NEW f, NEW T, IsFiniteSet(T), NEW x, x \notin T, f[x] \in Nat,
         \A y \in T : f[y] \in Nat
  PROVE  SumFunctionOnSet(f, T \cup {x}) = f[x] + SumFunctionOnSet(f, T)
<1>1. IsFiniteSet(T \cup {x}) /\ (T \cup {x}) \ {x} = T
  BY FS_AddElement
<1>2. \A y \in T \cup {x} : f[y] \in Nat
  OBVIOUS
<1> QED
  BY <1>1, <1>2, SumRemove

\* A sum of terms that are no greater is no greater.
LEMMA SumMonotone ==
  ASSUME NEW f, NEW g, NEW T, IsFiniteSet(T),
         \A x \in T : f[x] \in Nat /\ g[x] \in Nat /\ f[x] <= g[x]
  PROVE  SumFunctionOnSet(f, T) <= SumFunctionOnSet(g, T)
<1> DEFINE F(s) == SumFunctionOnSet(f, s)
           G(s) == SumFunctionOnSet(g, s)
           Good == {s \in SUBSET T : F(s) <= G(s)}
<1>1. {} \in Good
  BY SumEmpty
<1>2. ASSUME NEW s \in SUBSET T, NEW x \in T, s \in Good, x \notin s
      PROVE  s \cup {x} \in Good
  <2>1. IsFiniteSet(s)
    BY FS_Subset
  <2>2. F(s \cup {x}) = f[x] + F(s) /\ F(s) \in Nat
    BY <1>2, <2>1, SumInsert, SumRemove
  <2>3. G(s \cup {x}) = g[x] + G(s) /\ G(s) \in Nat
    BY <1>2, <2>1, SumInsert, SumRemove
  <2> HIDE DEF F, G
  <2>4. F(s \cup {x}) <= G(s \cup {x})
    BY <1>2, <2>2, <2>3
  <2> QED
    BY <2>4
<1>3. SUBSET T \subseteq Good
  <2> HIDE DEF Good
  <2> QED
    BY <1>1, <1>2, SubsetInduction
<1> QED
  BY <1>3

\* A sum depends on the terms only.
LEMMA SumAgree ==
  ASSUME NEW f, NEW g, NEW T, IsFiniteSet(T),
         \A x \in T : f[x] \in Nat /\ g[x] = f[x]
  PROVE  SumFunctionOnSet(g, T) = SumFunctionOnSet(f, T)
<1>1. SumFunctionOnSet(f, T) <= SumFunctionOnSet(g, T)
  BY SumMonotone
<1>2. SumFunctionOnSet(g, T) <= SumFunctionOnSet(f, T)
  BY SumMonotone
<1>3. SumFunctionOnSet(f, T) \in Nat /\ SumFunctionOnSet(g, T) \in Nat
  BY SumRemove
<1> QED
  BY <1>1, <1>2, <1>3

\* Changing one term changes the sum by as much.
LEMMA SumChange ==
  ASSUME NEW f, NEW g, NEW T, IsFiniteSet(T), NEW x \in T,
         \A y \in T : f[y] \in Nat /\ g[y] \in Nat,
         \A y \in T : y # x => g[y] = f[y]
  PROVE  SumFunctionOnSet(g, T) = SumFunctionOnSet(f, T) + g[x] - f[x]
<1>1. IsFiniteSet(T \ {x})
  BY FS_RemoveElement
<1>2. SumFunctionOnSet(g, T \ {x}) = SumFunctionOnSet(f, T \ {x})
  BY <1>1, SumAgree
<1>3. /\ SumFunctionOnSet(f, T) = f[x] + SumFunctionOnSet(f, T \ {x})
      /\ SumFunctionOnSet(g, T) = g[x] + SumFunctionOnSet(g, T \ {x})
  BY SumRemove
<1>4. SumFunctionOnSet(f, T \ {x}) \in Nat
  BY <1>1, SumRemove
<1>5. f[x] \in Nat /\ g[x] \in Nat
  OBVIOUS
<1> QED
  BY <1>2, <1>3, <1>4, <1>5

\* If no term shrinks, the larger sum grows by no less than the smaller.
LEMMA SumGrowth ==
  ASSUME NEW f, NEW g, NEW T, IsFiniteSet(T), NEW A \in SUBSET T,
         \A x \in T : f[x] \in Nat /\ g[x] \in Nat /\ f[x] <= g[x]
  PROVE  SumFunctionOnSet(g, A) + SumFunctionOnSet(f, T)
           <= SumFunctionOnSet(f, A) + SumFunctionOnSet(g, T)
<1> DEFINE F(s) == SumFunctionOnSet(f, s)
           G(s) == SumFunctionOnSet(g, s)
           Rest == T \ A
           Good == {s \in SUBSET Rest : G(A) + F(A \cup s) <= F(A) + G(A \cup s)}
<1>1. \A s \in SUBSET T : IsFiniteSet(s) /\ F(s) \in Nat /\ G(s) \in Nat
  BY FS_Subset, SumRemove
<1>2. {} \in Good
  BY <1>1
<1>3. ASSUME NEW s \in SUBSET Rest, NEW x \in Rest, s \in Good, x \notin s
      PROVE  s \cup {x} \in Good
  <2>1. A \cup s \in SUBSET T /\ x \notin A \cup s /\ A \cup (s \cup {x}) = (A \cup s) \cup {x}
    BY <1>3
  <2>2. F(A \cup (s \cup {x})) = f[x] + F(A \cup s) /\ F(A \cup s) \in Nat
    BY <1>1, <2>1, SumInsert
  <2>3. G(A \cup (s \cup {x})) = g[x] + G(A \cup s) /\ G(A \cup s) \in Nat
    BY <1>1, <2>1, SumInsert
  <2>4. f[x] \in Nat /\ g[x] \in Nat /\ f[x] <= g[x] /\ F(A) \in Nat /\ G(A) \in Nat
    BY <1>1
  <2> HIDE DEF F, G, Rest
  <2>5. G(A) + F(A \cup (s \cup {x})) <= F(A) + G(A \cup (s \cup {x}))
    BY <1>3, <2>2, <2>3, <2>4
  <2> QED
    BY <2>5
<1>4. SUBSET Rest \subseteq Good
  <2>1. IsFiniteSet(Rest)
    BY FS_Subset
  <2> HIDE DEF Good, Rest
  <2> QED
    BY <1>2, <1>3, <2>1, SubsetInduction
<1>5. Rest \in Good /\ A \cup Rest = T
  BY <1>4
<1> QED
  BY <1>5

\* Adding nothing makes nothing.
LEMMA SumZero ==
  ASSUME NEW f, NEW T, IsFiniteSet(T), \A x \in T : f[x] = 0
  PROVE  SumFunctionOnSet(f, T) = 0
<1> DEFINE Good == {s \in SUBSET T : SumFunctionOnSet(f, s) = 0}
<1>1. {} \in Good
  BY SumEmpty
<1>2. ASSUME NEW s \in SUBSET T, NEW x \in T, s \in Good, x \notin s
      PROVE  s \cup {x} \in Good
  <2>1. IsFiniteSet(s) /\ f[x] \in Nat /\ f[x] = 0 /\ \A y \in s : f[y] \in Nat
    BY FS_Subset
  <2>2. SumFunctionOnSet(f, s \cup {x}) = 0
    BY <1>2, <2>1, SumInsert
  <2> QED
    BY <2>2
<1>3. SUBSET T \subseteq Good
  <2> HIDE DEF Good
  <2> QED
    BY <1>1, <1>2, SubsetInduction
<1> QED
  BY <1>3

\* A set that changes at most by one element.
LEMMA OneApart ==
  ASSUME NEW S, NEW T, NEW t, IsFiniteSet(S), T \ {t} = S \ {t}
  PROVE  /\ IsFiniteSet(T)
         /\ (t \in S <=> t \in T) => T = S
         /\ t \notin S /\ t \in T => Cardinality(T) = Cardinality(S) + 1
         /\ t \in S /\ t \notin T => Cardinality(T) = Cardinality(S) - 1
<1>1. CASE t \in T
  <2>1. T = (S \ {t}) \cup {t}
    BY <1>1
  <2>2. IsFiniteSet(S \ {t})
    BY FS_RemoveElement
  <2>3. IsFiniteSet(T)
    BY <2>1, <2>2, FS_AddElement
  <2>4. t \notin S => T = S \cup {t}
    BY <1>1
  <2> QED
    BY <1>1, <2>3, <2>4, FS_AddElement
<1>2. CASE t \notin T
  <2>1. T = S \ {t}
    BY <1>2
  <2> QED
    BY <1>2, <2>1, FS_RemoveElement
<1> QED
  BY <1>1, <1>2
=============================================================================
