-------------------------------- MODULE Sums --------------------------------
(***************************************************************************)
(* Sums of functions over finite sets: what tps-bench adds up, capacities  *)
(* of cells and numbers of transactions, is a sum of this kind.  The       *)
(* induction is that of a least counterexample: a set of natural numbers   *)
(* has a least element, a set of finite sets has one with no other below.  *)
(***************************************************************************)
EXTENDS Functions, FiniteSetTheorems, WellFoundedInduction, TLAPS

(* Induction over the natural numbers.                                     *)
LEMMA LeastNumber ==
  ASSUME NEW T \in SUBSET Nat, T # {}
  PROVE  \E x \in T : \A y \in T : ~ (y < x)
<1>1. PICK x \in T : \A y \in T : ~ (<<y, x>> \in OpToRel(<, Nat))
  BY NatLessThanWellFounded, WFMin
<1>2. QED
  BY <1>1 DEF OpToRel

LEMMA NumberInduction ==
  ASSUME NEW T, 0 \in T, \A n \in Nat : n \in T => n + 1 \in T
  PROVE  Nat \subseteq T
<1>1. SUFFICES ASSUME Nat \ T # {}
               PROVE  FALSE
  OBVIOUS
<1>2. PICK x \in Nat \ T : \A y \in Nat \ T : ~ (y < x)
  BY <1>1, LeastNumber
<1>3. x - 1 \in Nat /\ x - 1 < x
  BY <1>2
<1>4. QED
  BY <1>2, <1>3

(* Induction over the subsets of a finite set.                             *)
LEMMA LeastSubset ==
  ASSUME NEW S, IsFiniteSet(S), NEW P \in SUBSET SUBSET S, P # {}
  PROVE  \E T \in P : \A U \in P : U \subseteq T => U = T
<1>1. FiniteSubsetsOf(S) = SUBSET S
  BY FS_FiniteSubsetsOfFinite
<1>2. IsWellFoundedOn(StrictSubsetOrdering(S), SUBSET S)
  BY <1>1, FS_StrictSubsetOrderingWellFounded
<1>3. PICK T \in P : \A U \in P : ~ (<<U, T>> \in StrictSubsetOrdering(S))
  BY <1>2, WFMin
<1>4. QED
  BY <1>3 DEF StrictSubsetOrdering

-----------------------------------------------------------------------------
(* SumFunctionOnSet is the value at S of a function on the subsets of S    *)
(* that picks one element after the other.                                 *)
Pick(s) == CHOOSE x \in s : TRUE

SumStep(f, g, s) == IF s = {} THEN 0 ELSE f[Pick(s)] + g[s \ {Pick(s)}]

IsSum(f, g, D) == g = [s \in D |-> SumStep(f, g, s)]

(* That is what its definition says.                                       *)
LEMMA SumIsChosen ==
  ASSUME NEW f, NEW S
  PROVE  SumFunctionOnSet(f, S) = (CHOOSE g : IsSum(f, g, SUBSET S))[S]
BY DEF SumFunctionOnSet, FoldFunctionOnSet, MapThenFoldSet, IsSum, SumStep, Pick

(* The subsets that have at most n elements.                               *)
Upto(S, n) == {s \in SUBSET S : Cardinality(s) <= n}

(* A set without its picked element is smaller.                            *)
LEMMA SmallerSets ==
  ASSUME NEW S, IsFiniteSet(S), NEW s \in SUBSET S, s # {}
  PROVE  /\ Pick(s) \in s
         /\ IsFiniteSet(s) /\ Cardinality(s) \in Nat
         /\ IsFiniteSet(s \ {Pick(s)})
         /\ Cardinality(s \ {Pick(s)}) = Cardinality(s) - 1
<1>1. Pick(s) \in s
  BY DEF Pick
<1>2. IsFiniteSet(s)
  BY FS_Subset
<1>3. QED
  BY <1>1, <1>2, FS_RemoveElement, FS_CardinalityType

(* Such a function exists on the subsets of at most n elements.            *)
LEMMA PartialSums ==
  ASSUME NEW f, NEW S, IsFiniteSet(S), NEW n \in Nat
  PROVE  \E g : IsSum(f, g, Upto(S, n))
<1> DEFINE T == {m \in Nat : \E g : IsSum(f, g, Upto(S, m))}
<1>1. 0 \in T
  <2>1. \A s \in Upto(S, 0) : s = {}
    <3> SUFFICES ASSUME NEW s \in Upto(S, 0), s # {}
                 PROVE  FALSE
      OBVIOUS
    <3>1. Cardinality(s) \in Nat /\ IsFiniteSet(s) /\ Cardinality(s) <= 0
      BY SmallerSets DEF Upto
    <3>2. QED
      BY <3>1, FS_EmptySet
  <2>2. IsSum(f, [s \in Upto(S, 0) |-> 0], Upto(S, 0))
    BY <2>1 DEF IsSum, SumStep
  <2>3. QED
    BY <2>2
<1>2. ASSUME NEW m \in Nat, m \in T
      PROVE  m + 1 \in T
  <2>1. PICK g : IsSum(f, g, Upto(S, m))
    BY <1>2
  <2> DEFINE h == [s \in Upto(S, m + 1) |-> SumStep(f, g, s)]
  <2>2. \A s \in Upto(S, m) : h[s] = g[s]
    <3>1. \A s \in Upto(S, m) : Cardinality(s) \in Nat
      BY FS_Subset, FS_CardinalityType DEF Upto
    <3>2. Upto(S, m) \subseteq Upto(S, m + 1)
      BY <3>1, FS_Subset, FS_CardinalityType DEF Upto
    <3>3. QED
      BY <2>1, <3>2 DEF IsSum
  <2>3. \A s \in Upto(S, m + 1) : SumStep(f, h, s) = SumStep(f, g, s)
    <3> HIDE DEF h
    <3> SUFFICES ASSUME NEW s \in Upto(S, m + 1), s # {}
                 PROVE  h[s \ {Pick(s)}] = g[s \ {Pick(s)}]
      BY DEF SumStep
    <3>1. s \ {Pick(s)} \in Upto(S, m)
      BY SmallerSets DEF Upto
    <3>2. QED
      BY <2>2, <3>1
  <2>4. IsSum(f, h, Upto(S, m + 1))
    BY <2>3 DEF IsSum
  <2>5. QED
    BY <2>4
<1>3. n \in T
  <2> HIDE DEF T
  <2>1. QED
    BY <1>1, <1>2, NumberInduction
<1>4. QED
  BY <1>3

(* A sum satisfies the equation it is defined by.                          *)
LEMMA SumsExist ==
  ASSUME NEW f, NEW S, IsFiniteSet(S)
  PROVE  \E g : IsSum(f, g, SUBSET S)
<1>1. Upto(S, Cardinality(S)) = SUBSET S
  BY FS_Subset DEF Upto
<1>2. Cardinality(S) \in Nat
  BY FS_CardinalityType
<1>3. \E g : IsSum(f, g, Upto(S, Cardinality(S)))
  BY <1>2, PartialSums
<1>4. QED
  BY <1>1, <1>3

(* It is the same whatever set the subsets are taken of.                   *)
LEMMA SumsAgree ==
  ASSUME NEW f, NEW S, IsFiniteSet(S), NEW T \in SUBSET S, NEW g, NEW h,
         IsSum(f, g, SUBSET S), IsSum(f, h, SUBSET T)
  PROVE  \A s \in SUBSET T : g[s] = h[s]
<1> DEFINE P == {s \in SUBSET T : g[s] # h[s]}
<1>1. SUFFICES ASSUME P # {}
               PROVE  FALSE
  OBVIOUS
<1>2. P \in SUBSET SUBSET S
  OBVIOUS
<1>3. \E s \in P : \A u \in P : u \subseteq s => u = s
  <2> HIDE DEF P
  <2>1. QED
    BY <1>1, <1>2, LeastSubset
<1>4. PICK s \in P : \A u \in P : u \subseteq s => u = s
  BY <1>3
<1>5. s \in SUBSET T /\ s \in SUBSET S /\ g[s] # h[s]
  OBVIOUS
<1>6. g[s] = SumStep(f, g, s) /\ h[s] = SumStep(f, h, s)
  BY <1>5 DEF IsSum
<1>7. s # {} /\ g[s \ {Pick(s)}] # h[s \ {Pick(s)}]
  BY <1>5, <1>6 DEF SumStep
<1>8. s \ {Pick(s)} \in P /\ s \ {Pick(s)} # s
  BY <1>5, <1>7, SmallerSets
<1>9. QED
  BY <1>4, <1>8

-----------------------------------------------------------------------------
(* The sum of nothing.                                                     *)
LEMMA SumOfNothing ==
  ASSUME NEW f
  PROVE  SumFunctionOnSet(f, {}) = 0
<1>1. PICK g : IsSum(f, g, SUBSET {})
  BY SumsExist, FS_EmptySet
<1>2. IsSum(f, CHOOSE h : IsSum(f, h, SUBSET {}), SUBSET {})
  BY <1>1
<1>3. QED
  BY <1>2, SumIsChosen DEF IsSum, SumStep

(* The picked element and the rest.                                        *)
LEMMA SumOfPicked ==
  ASSUME NEW f, NEW S, IsFiniteSet(S), S # {}
  PROVE  SumFunctionOnSet(f, S) = f[Pick(S)] + SumFunctionOnSet(f, S \ {Pick(S)})
<1> DEFINE T == S \ {Pick(S)}
           g == CHOOSE h : IsSum(f, h, SUBSET S)
           h == CHOOSE k : IsSum(f, k, SUBSET T)
<1>1. IsFiniteSet(T) /\ T \in SUBSET S
  BY SmallerSets
<1>2. IsSum(f, g, SUBSET S)
  BY SumsExist
<1>3. IsSum(f, h, SUBSET T)
  BY <1>1, SumsExist
<1>4. g[T] = h[T]
  <2> HIDE DEF g, h, T
  <2>1. QED
    BY <1>1, <1>2, <1>3, SumsAgree
<1>5. g[S] = f[Pick(S)] + g[T]
  BY <1>2 DEF IsSum, SumStep
<1>6. QED
  BY <1>4, <1>5, SumIsChosen

(* The sum of integers is one, that of natural numbers is one.             *)
LEMMA SumType ==
  ASSUME NEW f, NEW S, IsFiniteSet(S), NEW N, N \in {Nat, Int},
         \A x \in S : f[x] \in N
  PROVE  SumFunctionOnSet(f, S) \in N
<1> DEFINE P == {s \in SUBSET S : SumFunctionOnSet(f, s) \notin N}
<1>1. SUFFICES ASSUME P # {}
               PROVE  FALSE
  OBVIOUS
<1>2. \E s \in P : \A u \in P : u \subseteq s => u = s
  <2>1. P \in SUBSET SUBSET S
    OBVIOUS
  <2> HIDE DEF P
  <2>2. QED
    BY <1>1, <2>1, LeastSubset
<1>3. PICK s \in P : \A u \in P : u \subseteq s => u = s
  BY <1>2
<1>4. s # {}
  BY SumOfNothing
<1>5. Pick(s) \in s /\ IsFiniteSet(s)
  BY <1>4, SmallerSets
<1>6. SumFunctionOnSet(f, s) = f[Pick(s)] + SumFunctionOnSet(f, s \ {Pick(s)})
  BY <1>4, <1>5, SumOfPicked
<1>7. SumFunctionOnSet(f, s \ {Pick(s)}) \in N
  BY <1>3, <1>5
<1>8. \A x, y \in N : x + y \in N
  OBVIOUS
<1>9. QED
  BY <1>5, <1>6, <1>7, <1>8

(* Any element can be taken out first.                                     *)
LEMMA SumOfElement ==
  ASSUME NEW f, NEW S, IsFiniteSet(S), \A x \in S : f[x] \in Int, NEW x \in S
  PROVE  SumFunctionOnSet(f, S) = f[x] + SumFunctionOnSet(f, S \ {x})
<1> DEFINE Takes(s, y) ==
             SumFunctionOnSet(f, s) = f[y] + SumFunctionOnSet(f, s \ {y})
           P == {s \in SUBSET S : \E y \in s : ~ Takes(s, y)}
<1>1. SUFFICES ASSUME P # {}
               PROVE  FALSE
  OBVIOUS
<1>2. \E s \in P : \A u \in P : u \subseteq s => u = s
  <2>1. P \in SUBSET SUBSET S
    OBVIOUS
  <2> HIDE DEF P
  <2>2. QED
    BY <1>1, <2>1, LeastSubset
<1>3. PICK s \in P : \A u \in P : u \subseteq s => u = s
  BY <1>2
<1>4. PICK y \in s : ~ Takes(s, y)
  OBVIOUS
<1> DEFINE p == Pick(s)
<1>5. s # {} /\ p \in s /\ IsFiniteSet(s) /\ s \in SUBSET S
  BY SmallerSets
<1>6. Takes(s, p)
  BY <1>5, SumOfPicked
<1>7. y # p
  BY <1>4, <1>6
<1>8. \A z \in s : s \ {z} \in SUBSET S /\ s \ {z} \notin P
  BY <1>3, <1>5
<1>9. Takes(s \ {p}, y) /\ Takes(s \ {y}, p)
  BY <1>5, <1>7, <1>8
<1>10. (s \ {p}) \ {y} = (s \ {y}) \ {p}
  OBVIOUS
<1> DEFINE rest == SumFunctionOnSet(f, (s \ {p}) \ {y})
<1>11. f[p] \in Int /\ f[y] \in Int /\ rest \in Int
  <2>1. IsFiniteSet((s \ {p}) \ {y})
    BY <1>5, FS_RemoveElement
  <2>2. rest \in Int
    BY <2>1, <1>5, SumType
  <2>3. QED
    BY <2>2, <1>4, <1>5
<1>12. f[p] + (f[y] + rest) = f[y] + (f[p] + rest)
  <2> HIDE DEF rest, p
  <2>1. QED
    BY <1>11
<1>13. Takes(s, y)
  BY <1>6, <1>9, <1>10, <1>12
<1>14. QED
  BY <1>4, <1>13

(* One element more.                                                       *)
LEMMA SumOfOneMore ==
  ASSUME NEW f, NEW S, IsFiniteSet(S), NEW x, x \notin S,
         \A y \in S \cup {x} : f[y] \in Int
  PROVE  SumFunctionOnSet(f, S \cup {x}) = SumFunctionOnSet(f, S) + f[x]
<1>1. IsFiniteSet(S \cup {x}) /\ (S \cup {x}) \ {x} = S
  BY FS_AddElement
<1>2. SumFunctionOnSet(f, S \cup {x}) = f[x] + SumFunctionOnSet(f, S)
  BY <1>1, SumOfElement
<1>3. SumFunctionOnSet(f, S) \in Int
  BY SumType
<1>4. QED
  BY <1>2, <1>3

(* Only the values on the set count.                                       *)
LEMMA SumOfSame ==
  ASSUME NEW f, NEW g, NEW S, IsFiniteSet(S), \A x \in S : f[x] = g[x]
  PROVE  SumFunctionOnSet(f, S) = SumFunctionOnSet(g, S)
<1> DEFINE P == {s \in SUBSET S : SumFunctionOnSet(f, s) # SumFunctionOnSet(g, s)}
<1>1. SUFFICES ASSUME P # {}
               PROVE  FALSE
  OBVIOUS
<1>2. \E s \in P : \A u \in P : u \subseteq s => u = s
  <2>1. P \in SUBSET SUBSET S
    OBVIOUS
  <2> HIDE DEF P
  <2>2. QED
    BY <1>1, <2>1, LeastSubset
<1>3. PICK s \in P : \A u \in P : u \subseteq s => u = s
  BY <1>2
<1>4. s # {}
  BY SumOfNothing
<1>5. Pick(s) \in s /\ IsFiniteSet(s) /\ s \in SUBSET S
  BY <1>4, SmallerSets
<1>6. /\ SumFunctionOnSet(f, s) = f[Pick(s)] + SumFunctionOnSet(f, s \ {Pick(s)})
      /\ SumFunctionOnSet(g, s) = g[Pick(s)] + SumFunctionOnSet(g, s \ {Pick(s)})
  BY <1>4, <1>5, SumOfPicked
<1>7. SumFunctionOnSet(f, s \ {Pick(s)}) = SumFunctionOnSet(g, s \ {Pick(s)})
  BY <1>3, <1>5
<1>8. QED
  BY <1>5, <1>6, <1>7

(* Two sets without a common element.                                      *)
LEMMA SumOfUnion ==
  ASSUME NEW f, NEW S, NEW T, IsFiniteSet(S), IsFiniteSet(T), S \cap T = {},
         \A x \in S \cup T : f[x] \in Int
  PROVE  SumFunctionOnSet(f, S \cup T) = SumFunctionOnSet(f, S) + SumFunctionOnSet(f, T)
<1> DEFINE Adds(s) == SumFunctionOnSet(f, S \cup s)
                        = SumFunctionOnSet(f, S) + SumFunctionOnSet(f, s)
           P == {s \in SUBSET T : ~ Adds(s)}
<1>1. SUFFICES ASSUME P # {}
               PROVE  FALSE
  OBVIOUS
<1>2. \E s \in P : \A u \in P : u \subseteq s => u = s
  <2>1. P \in SUBSET SUBSET T
    OBVIOUS
  <2> HIDE DEF P
  <2>2. QED
    BY <1>1, <2>1, LeastSubset
<1>3. PICK s \in P : \A u \in P : u \subseteq s => u = s
  BY <1>2
<1>4. SumFunctionOnSet(f, S) \in Int
  BY SumType
<1>5. s # {}
  <2>1. S \cup {} = S
    OBVIOUS
  <2>2. Adds({})
    BY <1>4, <2>1, SumOfNothing
  <2>3. QED
    BY <2>2
<1>6. Pick(s) \in s /\ IsFiniteSet(s) /\ IsFiniteSet(s \ {Pick(s)}) /\ s \in SUBSET T
  BY <1>5, SmallerSets
<1>7. Adds(s \ {Pick(s)})
  BY <1>3, <1>6
<1>8. /\ IsFiniteSet(S \cup s)
      /\ Pick(s) \in S \cup s
      /\ (S \cup s) \ {Pick(s)} = S \cup (s \ {Pick(s)})
      /\ \A x \in S \cup s : f[x] \in Int
  BY <1>6, FS_Union
<1>9. SumFunctionOnSet(f, S \cup s)
        = f[Pick(s)] + SumFunctionOnSet(f, S \cup (s \ {Pick(s)}))
  BY <1>8, SumOfElement
<1>10. SumFunctionOnSet(f, s) = f[Pick(s)] + SumFunctionOnSet(f, s \ {Pick(s)})
  BY <1>5, <1>6, SumOfPicked
<1>11. f[Pick(s)] \in Int /\ SumFunctionOnSet(f, s \ {Pick(s)}) \in Int
  BY <1>6, SumType
<1>12. Adds(s)
  BY <1>4, <1>7, <1>9, <1>10, <1>11
<1>13. QED
  BY <1>12

(* The values of a function on a finite set are finitely many; when it is  *)
(* injective, summing over them is summing over the set.                   *)
LEMMA FiniteImage ==
  ASSUME NEW h, NEW S, IsFiniteSet(S)
  PROVE  IsFiniteSet({h[x] : x \in S})
<1> DEFINE T == {h[x] : x \in S}
           g == [x \in S |-> h[x]]
<1>1. g \in Surjection(S, T)
  BY DEF Surjection
<1>2. QED
  BY <1>1, FS_Surjection

LEMMA SumOfImage ==
  ASSUME NEW f, NEW g, NEW h, NEW S, NEW T, IsFiniteSet(S),
         T = {h[x] : x \in S},
         \A x, y \in S : h[x] = h[y] => x = y,
         \A x \in S : g[x] = f[h[x]] /\ g[x] \in Int
  PROVE  SumFunctionOnSet(f, T) = SumFunctionOnSet(g, S)
<1> DEFINE Image(s) == {h[x] : x \in s}
           Same(s) == SumFunctionOnSet(f, Image(s)) = SumFunctionOnSet(g, s)
           P == {s \in SUBSET S : ~ Same(s)}
<1>1. SUFFICES ASSUME P # {}
               PROVE  FALSE
  OBVIOUS
<1>2. \E s \in P : \A u \in P : u \subseteq s => u = s
  <2>1. P \in SUBSET SUBSET S
    OBVIOUS
  <2> HIDE DEF P
  <2>2. QED
    BY <1>1, <2>1, LeastSubset
<1>3. PICK s \in P : \A u \in P : u \subseteq s => u = s
  BY <1>2
<1>4. s # {}
  <2>1. Image({}) = {}
    OBVIOUS
  <2>2. QED
    BY <2>1, SumOfNothing
<1>5. Pick(s) \in s /\ IsFiniteSet(s) /\ s \in SUBSET S
  BY <1>4, SmallerSets
<1>6. Same(s \ {Pick(s)})
  BY <1>3, <1>5
<1>7. SumFunctionOnSet(g, s) = g[Pick(s)] + SumFunctionOnSet(g, s \ {Pick(s)})
  BY <1>4, <1>5, SumOfPicked
<1>8. /\ IsFiniteSet(Image(s))
      /\ h[Pick(s)] \in Image(s)
      /\ Image(s) \ {h[Pick(s)]} = Image(s \ {Pick(s)})
      /\ \A y \in Image(s) : f[y] \in Int
  BY <1>5, FiniteImage
<1>9. SumFunctionOnSet(f, Image(s))
        = f[h[Pick(s)]] + SumFunctionOnSet(f, Image(s \ {Pick(s)}))
  <2>1. PICK U, y : U = Image(s) /\ y = h[Pick(s)]
    OBVIOUS
  <2>2. SumFunctionOnSet(f, U) = f[y] + SumFunctionOnSet(f, U \ {y})
    BY <1>8, <2>1, SumOfElement
  <2>3. QED
    BY <1>8, <2>1, <2>2
<1>10. Same(s)
  BY <1>5, <1>6, <1>7, <1>9
<1>11. QED
  BY <1>10

=============================================================================
