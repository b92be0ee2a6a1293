----------------------------- MODULE FoldLemmas -----------------------------
(***************************************************************************)
(* Sums of natural numbers over finite sets, which the modules write with  *)
(* MapThenSumSet: the fold of the community modules is a function on the   *)
(* subsets of a set that meets an equation (AddsUp).  It exists, it is the *)
(* only one, and its value does not depend on the order in which elements  *)
(* are taken out, so that a sum changes by what one element changes.       *)
(* Then the left fold over a sequence, one element a step, what Kept of    *)
(* Filters keeps and how often, and the numbers of elements of a sequence. *)
(***************************************************************************)
EXTENDS Integers, FiniteSets, Filters, FiniteSetTheorems, WellFoundedInduction, TLAPS

Picked(s) == CHOOSE x \in s : TRUE

\* What the fold of f over S is made of.
AddsUp(h, f, S) ==
  h = [s \in SUBSET S |-> IF s = {} THEN 0 ELSE f[Picked(s)] + h[s \ {Picked(s)}]]

SumOver(f, S) == (CHOOSE h : AddsUp(h, f, S))[S]

\* A set of natural numbers has a least one.
LEMMA LeastNumber ==
  ASSUME NEW T \in SUBSET Nat, T # {}
  PROVE  \E x \in T : \A y \in T : x <= y
<1> DEFINE R == {ss \in Nat \X Nat : ss[1] < ss[2]}
<1>1. IsWellFoundedOn(R, Nat)
  BY NatLessThanWellFounded DEF OpToRel
<1>2. PICK x \in T : \A y \in T : <<y, x>> \notin R
  <2> HIDE DEF R
  <2> QED
    BY <1>1, WFMin
<1>3. ASSUME NEW y \in T PROVE x <= y
  <2>1. x \in Nat /\ y \in Nat /\ <<y, x>> \notin R
    BY <1>2
  <2> QED
    BY <2>1
<1> QED
  BY <1>2, <1>3

\* What holds of 0, and of every number up to n that follows one it holds of, holds up to n.
LEMMA UpTo ==
  ASSUME NEW n \in Nat, NEW P, 0 \in P, \A k \in 0..n : k # n /\ k \in P => k + 1 \in P
  PROVE  0..n \subseteq P
<1> DEFINE Missing == {k \in 0..n : k \notin P}
<1> SUFFICES ASSUME Missing # {} PROVE FALSE
  OBVIOUS
<1>1. PICK k \in Missing : \A j \in Missing : k <= j
  <2>1. Missing \in SUBSET Nat
    OBVIOUS
  <2> HIDE DEF Missing
  <2> QED
    BY <2>1, LeastNumber
<1>2. k \in 0..n /\ k # 0 /\ k \notin P
  OBVIOUS
<1>3. k - 1 \in 0..n /\ k - 1 # n /\ (k - 1) + 1 = k
  BY <1>2
<1>4. k - 1 \in P
  <2>1. ~(k <= k - 1)
    BY <1>2
  <2>2. k - 1 \notin Missing
    <3> HIDE DEF Missing
    <3> QED
      BY <1>1, <2>1
  <2> QED
    BY <1>3, <2>2
<1> QED
  BY <1>2, <1>3, <1>4

\* Taking out the element picked leaves a smaller set.
LEMMA Smaller ==
  ASSUME NEW s, IsFiniteSet(s), s # {}
  PROVE  /\ Picked(s) \in s /\ IsFiniteSet(s \ {Picked(s)})
         /\ Cardinality(s) \in Nat /\ Cardinality(s \ {Picked(s)}) \in Nat
         /\ Cardinality(s) = Cardinality(s \ {Picked(s)}) + 1
<1>1. Picked(s) \in s
  BY DEF Picked
<1>2. IsFiniteSet(s \ {Picked(s)}) /\ Cardinality(s \ {Picked(s)}) = Cardinality(s) - 1
  BY <1>1, FS_RemoveElement
<1> QED
  BY <1>1, <1>2, FS_CardinalityType

\* The fold exists: the functions that meet its equation on the subsets of at most n elements are
\* extended by one element at a time.
LEMMA FoldExists ==
  ASSUME NEW S, IsFiniteSet(S), NEW f
  PROVE  \E h : AddsUp(h, f, S)
<1> DEFINE Upto(n) == {s \in SUBSET S : Cardinality(s) <= n}
           Part(h, n) == h = [s \in Upto(n) |-> IF s = {} THEN 0 ELSE f[Picked(s)] + h[s \ {Picked(s)}]]
           Missing == {n \in Nat : ~\E h : Part(h, n)}
<1>0. ASSUME NEW s \in SUBSET S
      PROVE  IsFiniteSet(s) /\ Cardinality(s) \in Nat /\ Cardinality(s) <= Cardinality(S)
  BY FS_Subset, FS_CardinalityType
<1>1. ASSUME NEW n \in Nat, NEW s \in Upto(n + 1), s # {}
      PROVE  s \ {Picked(s)} \in Upto(n)
  <2>1. s \in SUBSET S /\ Cardinality(s) <= n + 1
    OBVIOUS
  <2>2. s \ {Picked(s)} \in SUBSET S
    BY <2>1
  <2>3. Cardinality(s \ {Picked(s)}) <= n
    BY <1>0, <1>1, <2>1, Smaller
  <2> QED
    BY <2>2, <2>3
<1>2. \E h : Part(h, 0)
  <2> DEFINE g == [s \in Upto(0) |-> 0]
  <2>1. ASSUME NEW s \in Upto(0) PROVE s = {}
    <3>1. s \in SUBSET S /\ Cardinality(s) <= 0
      OBVIOUS
    <3>2. IsFiniteSet(s) /\ Cardinality(s) = 0
      BY <1>0, <3>1
    <3> QED
      BY <3>2, FS_EmptySet
  <2> HIDE DEF Upto
  <2>2. g = [s \in Upto(0) |-> IF s = {} THEN 0 ELSE f[Picked(s)] + g[s \ {Picked(s)}]]
    BY <2>1
  <2> QED
    BY <2>2
<1>3. ASSUME NEW n \in Nat, NEW h, Part(h, n) PROVE \E g : Part(g, n + 1)
  <2> DEFINE g == [s \in Upto(n + 1) |-> IF s = {} THEN 0 ELSE f[Picked(s)] + h[s \ {Picked(s)}]]
  <2>1. Upto(n) \subseteq Upto(n + 1)
    BY <1>0
  <2> HIDE DEF Upto
  <2>2. ASSUME NEW s \in Upto(n) PROVE g[s] = h[s]
    <3>1. h[s] = IF s = {} THEN 0 ELSE f[Picked(s)] + h[s \ {Picked(s)}]
      BY <1>3
    <3> QED
      BY <2>1, <3>1
  <2>3. ASSUME NEW s \in Upto(n + 1), s # {} PROVE h[s \ {Picked(s)}] = g[s \ {Picked(s)}]
    BY <1>1, <2>2, <2>3
  <2>4. g = [s \in Upto(n + 1) |-> IF s = {} THEN 0 ELSE f[Picked(s)] + g[s \ {Picked(s)}]]
    <3>1. ASSUME NEW s \in Upto(n + 1)
          PROVE  g[s] = IF s = {} THEN 0 ELSE f[Picked(s)] + g[s \ {Picked(s)}]
      BY <2>3
    <3>2. g = [s \in Upto(n + 1) |-> g[s]]
      OBVIOUS
    <3> HIDE DEF g
    <3> QED
      BY <3>1, <3>2
  <2> HIDE DEF g
  <2> QED
    BY <2>4
<1>4. Missing = {}
  <2> SUFFICES ASSUME Missing # {} PROVE FALSE
    OBVIOUS
  <2>1. PICK n \in Missing : \A m \in Missing : n <= m
    <3>1. Missing \in SUBSET Nat
      OBVIOUS
    <3> HIDE DEF Missing
    <3> QED
      BY <3>1, LeastNumber
  <2>2. n \in Nat /\ ~\E h : Part(h, n)
    OBVIOUS
  <2>3. n # 0
    <3> HIDE DEF Part
    <3> QED
      BY <1>2, <2>2
  <2>4. PICK k \in Nat : n = k + 1
    BY <2>2, <2>3
  <2>5. k \notin Missing
    <3>1. ~(n <= k)
      BY <2>4
    <3> HIDE DEF Missing
    <3> QED
      BY <2>1, <3>1
  <2> HIDE DEF Part
  <2>6. PICK h : Part(h, k)
    BY <2>5
  <2> QED
    BY <1>3, <2>2, <2>4, <2>6
<1>5. Cardinality(S) \in Nat /\ Upto(Cardinality(S)) = SUBSET S
  BY <1>0
<1> HIDE DEF Upto
<1>6. PICK h : Part(h, Cardinality(S))
  BY <1>4, <1>5
<1> QED
  BY <1>5, <1>6 DEF AddsUp

\* It is the only one: two functions that meet the equation agree wherever they are defined.
LEMMA FoldUnique ==
  ASSUME NEW S, IsFiniteSet(S), NEW T, IsFiniteSet(T), NEW f,
         NEW h, AddsUp(h, f, S), NEW g, AddsUp(g, f, T),
         NEW s \in SUBSET (S \cap T)
  PROVE  h[s] = g[s]
<1> DEFINE Differ == {n \in Nat : \E r \in SUBSET (S \cap T) : Cardinality(r) = n /\ h[r] # g[r]}
<1>0. ASSUME NEW r \in SUBSET (S \cap T) PROVE IsFiniteSet(r) /\ Cardinality(r) \in Nat
  BY FS_Subset, FS_CardinalityType
<1>1. ASSUME NEW r \in SUBSET (S \cap T)
      PROVE  /\ h[r] = IF r = {} THEN 0 ELSE f[Picked(r)] + h[r \ {Picked(r)}]
             /\ g[r] = IF r = {} THEN 0 ELSE f[Picked(r)] + g[r \ {Picked(r)}]
  BY DEF AddsUp
<1>2. Differ = {}
  <2> SUFFICES ASSUME Differ # {} PROVE FALSE
    OBVIOUS
  <2>1. PICK n \in Differ : \A m \in Differ : n <= m
    <3>1. Differ \in SUBSET Nat
      OBVIOUS
    <3> HIDE DEF Differ
    <3> QED
      BY <3>1, LeastNumber
  <2>2. PICK r \in SUBSET (S \cap T) : Cardinality(r) = n /\ h[r] # g[r]
    OBVIOUS
  <2>3. r # {}
    BY <1>1, <2>2
  <2> DEFINE q == r \ {Picked(r)}
  <2>4. h[q] # g[q]
    BY <1>1, <2>2, <2>3
  <2>5. Cardinality(q) \in Nat /\ n = Cardinality(q) + 1 /\ q \in SUBSET (S \cap T)
    BY <1>0, <2>2, <2>3, Smaller
  <2>6. Cardinality(q) \in Differ
    BY <2>4, <2>5
  <2>7. n <= Cardinality(q)
    <3> HIDE DEF Differ, q
    <3> QED
      BY <2>1, <2>6
  <2> QED
    BY <2>5, <2>7
<1> QED
  BY <1>0, <1>2

\* Any function that meets the equation gives the total.
LEMMA FoldIsSum ==
  ASSUME NEW S, IsFiniteSet(S), NEW f, NEW h, AddsUp(h, f, S), NEW s \in SUBSET S
  PROVE  h[s] = SumOver(f, s)
<1>1. IsFiniteSet(s)
  BY FS_Subset
<1> DEFINE g == CHOOSE g : AddsUp(g, f, s)
<1>2. AddsUp(g, f, s)
  BY <1>1, FoldExists
<1>3. SumOver(f, s) = g[s]
  BY DEF SumOver
<1> HIDE DEF g
<1> QED
  BY <1>1, <1>2, <1>3, FoldUnique

LEMMA SumSteps ==
  ASSUME NEW S, IsFiniteSet(S), NEW f
  PROVE  /\ S = {} => SumOver(f, S) = 0
         /\ S # {} => SumOver(f, S) = f[Picked(S)] + SumOver(f, S \ {Picked(S)})
<1>1. PICK h : AddsUp(h, f, S)
  BY FoldExists
<1>2. h[S] = IF S = {} THEN 0 ELSE f[Picked(S)] + h[S \ {Picked(S)}]
  BY <1>1 DEF AddsUp
<1>3. h[S] = SumOver(f, S) /\ h[S \ {Picked(S)}] = SumOver(f, S \ {Picked(S)})
  BY <1>1, FoldIsSum
<1> QED
  BY <1>2, <1>3

\* A sum of natural numbers is one.
LEMMA SumType ==
  ASSUME NEW S, IsFiniteSet(S), NEW f, \A x \in S : f[x] \in Nat
  PROVE  SumOver(f, S) \in Nat
<1> DEFINE Other == {n \in Nat : \E r \in SUBSET S : Cardinality(r) = n /\ SumOver(f, r) \notin Nat}
<1>0. ASSUME NEW r \in SUBSET S PROVE IsFiniteSet(r) /\ Cardinality(r) \in Nat
  BY FS_Subset, FS_CardinalityType
<1>1. Other = {}
  <2> SUFFICES ASSUME Other # {} PROVE FALSE
    OBVIOUS
  <2>1. PICK n \in Other : \A m \in Other : n <= m
    <3>1. Other \in SUBSET Nat
      OBVIOUS
    <3> HIDE DEF Other
    <3> QED
      BY <3>1, LeastNumber
  <2>2. PICK r \in SUBSET S : Cardinality(r) = n /\ SumOver(f, r) \notin Nat
    OBVIOUS
  <2>3. r # {}
    BY <1>0, <2>2, SumSteps
  <2> DEFINE q == r \ {Picked(r)}
  <2>4. Cardinality(q) \in Nat /\ n = Cardinality(q) + 1 /\ q \in SUBSET S /\ Picked(r) \in S
    BY <1>0, <2>2, <2>3, Smaller
  <2>5. SumOver(f, r) = f[Picked(r)] + SumOver(f, q)
    BY <1>0, <2>3, SumSteps
  <2>6. SumOver(f, q) \notin Nat
    BY <2>2, <2>4, <2>5
  <2>7. Cardinality(q) \in Other
    BY <2>4, <2>6
  <2>8. n <= Cardinality(q)
    <3> HIDE DEF Other, q
    <3> QED
      BY <2>1, <2>7
  <2> QED
    BY <2>4, <2>8
<1> QED
  BY <1>0, <1>1

\* Any element may be taken out first.
LEMMA SumRemove ==
  ASSUME NEW S, IsFiniteSet(S), NEW f, \A y \in S : f[y] \in Nat, NEW x \in S
  PROVE  SumOver(f, S) = f[x] + SumOver(f, S \ {x})
<1> DEFINE Other == {n \in Nat : \E r \in SUBSET S : \E y \in r :
                                    Cardinality(r) = n /\ SumOver(f, r) # f[y] + SumOver(f, r \ {y})}
<1>0. ASSUME NEW r \in SUBSET S
      PROVE  IsFiniteSet(r) /\ Cardinality(r) \in Nat /\ SumOver(f, r) \in Nat
  <2>1. IsFiniteSet(r) /\ Cardinality(r) \in Nat
    BY FS_Subset, FS_CardinalityType
  <2>2. \A y \in r : f[y] \in Nat
    OBVIOUS
  <2> QED
    BY <2>1, <2>2, SumType
<1>1. Other = {}
  <2> SUFFICES ASSUME Other # {} PROVE FALSE
    OBVIOUS
  <2>1. PICK n \in Other : \A m \in Other : n <= m
    <3>1. Other \in SUBSET Nat
      OBVIOUS
    <3> HIDE DEF Other
    <3> QED
      BY <3>1, LeastNumber
  <2>0. PICK r \in SUBSET S : \E y \in r : Cardinality(r) = n /\ SumOver(f, r) # f[y] + SumOver(f, r \ {y})
    OBVIOUS
  <2>2. PICK y \in r : Cardinality(r) = n /\ SumOver(f, r) # f[y] + SumOver(f, r \ {y})
    BY <2>0
  <2>3. r # {}
    OBVIOUS
  <2> DEFINE z == Picked(r)
  <2>4. SumOver(f, r) = f[z] + SumOver(f, r \ {z}) /\ z \in r
    BY <1>0, <2>3, SumSteps, Smaller
  <2>5. y # z
    BY <2>2, <2>4
  <2> HIDE DEF z
  <2>6. \A w \in r : /\ r \ {w} \in SUBSET S /\ Cardinality(r \ {w}) \in Nat
                     /\ n = Cardinality(r \ {w}) + 1
    <3> SUFFICES ASSUME NEW w \in r
                 PROVE  /\ r \ {w} \in SUBSET S /\ Cardinality(r \ {w}) \in Nat
                        /\ n = Cardinality(r \ {w}) + 1
      OBVIOUS
    <3>1. Cardinality(r \ {w}) = Cardinality(r) - 1
      BY <1>0, FS_RemoveElement
    <3> QED
      BY <1>0, <2>2, <3>1
  <2>7. ASSUME NEW q \in SUBSET S, NEW w \in q, Cardinality(q) \in Nat, n = Cardinality(q) + 1
        PROVE  SumOver(f, q) = f[w] + SumOver(f, q \ {w})
    <3> SUFFICES ASSUME SumOver(f, q) # f[w] + SumOver(f, q \ {w}) PROVE FALSE
      OBVIOUS
    <3>1. Cardinality(q) \in Other
      BY <2>7
    <3>2. ~(n <= Cardinality(q))
      BY <2>7
    <3> HIDE DEF Other
    <3> QED
      BY <2>1, <3>1, <3>2
  <2> HIDE DEF Other
  <2>8. /\ SumOver(f, r \ {z}) = f[y] + SumOver(f, (r \ {z}) \ {y})
        /\ SumOver(f, r \ {y}) = f[z] + SumOver(f, (r \ {y}) \ {z})
    BY <2>4, <2>5, <2>6, <2>7
  <2>9. (r \ {z}) \ {y} = (r \ {y}) \ {z}
    OBVIOUS
  <2>10. PICK t \in Nat : t = SumOver(f, (r \ {z}) \ {y})
    BY <1>0
  <2>11. f[y] \in Nat /\ f[z] \in Nat
    BY <2>4
  <2> QED
    BY <2>2, <2>4, <2>8, <2>9, <2>10, <2>11
<1> QED
  BY <1>0, <1>1

\* The sum depends on nothing but the values on the set.
LEMMA SumSame ==
  ASSUME NEW S, IsFiniteSet(S), NEW f, NEW g, \A y \in S : f[y] = g[y]
  PROVE  SumOver(f, S) = SumOver(g, S)
<1> DEFINE Other == {n \in Nat : \E r \in SUBSET S : Cardinality(r) = n /\ SumOver(f, r) # SumOver(g, r)}
<1>0. ASSUME NEW r \in SUBSET S PROVE IsFiniteSet(r) /\ Cardinality(r) \in Nat
  BY FS_Subset, FS_CardinalityType
<1>1. Other = {}
  <2> SUFFICES ASSUME Other # {} PROVE FALSE
    OBVIOUS
  <2>1. PICK n \in Other : \A m \in Other : n <= m
    <3>1. Other \in SUBSET Nat
      OBVIOUS
    <3> HIDE DEF Other
    <3> QED
      BY <3>1, LeastNumber
  <2>2. PICK r \in SUBSET S : Cardinality(r) = n /\ SumOver(f, r) # SumOver(g, r)
    OBVIOUS
  <2>3. r # {}
    BY <1>0, <2>2, SumSteps
  <2> DEFINE q == r \ {Picked(r)}
  <2>4. Cardinality(q) \in Nat /\ n = Cardinality(q) + 1 /\ q \in SUBSET S /\ Picked(r) \in S
    BY <1>0, <2>2, <2>3, Smaller
  <2>5. SumOver(f, r) = f[Picked(r)] + SumOver(f, q) /\ SumOver(g, r) = g[Picked(r)] + SumOver(g, q)
    BY <1>0, <2>3, SumSteps
  <2>6. SumOver(f, q) # SumOver(g, q)
    BY <2>2, <2>4, <2>5
  <2>7. Cardinality(q) \in Other
    BY <2>4, <2>6
  <2>8. n <= Cardinality(q)
    <3> HIDE DEF Other, q
    <3> QED
      BY <2>1, <2>7
  <2> QED
    BY <2>4, <2>8
<1> QED
  BY <1>0, <1>1

\* Smaller values, smaller sum.
LEMMA SumAtMost ==
  ASSUME NEW S, IsFiniteSet(S), NEW f, NEW g, 
         \A y \in S : f[y] \in Nat /\ g[y] \in Nat /\ f[y] <= g[y]
  PROVE  SumOver(f, S) <= SumOver(g, S)
<1> DEFINE Other == {n \in Nat : \E r \in SUBSET S : Cardinality(r) = n /\ ~(SumOver(f, r) <= SumOver(g, r))}
<1>0. ASSUME NEW r \in SUBSET S PROVE IsFiniteSet(r) /\ Cardinality(r) \in Nat
  BY FS_Subset, FS_CardinalityType
<1>1. Other = {}
  <2> SUFFICES ASSUME Other # {} PROVE FALSE
    OBVIOUS
  <2>1. PICK n \in Other : \A m \in Other : n <= m
    <3>1. Other \in SUBSET Nat
      OBVIOUS
    <3> HIDE DEF Other
    <3> QED
      BY <3>1, LeastNumber
  <2>2. PICK r \in SUBSET S : Cardinality(r) = n /\ ~(SumOver(f, r) <= SumOver(g, r))
    OBVIOUS
  <2>3. r # {}
    BY <1>0, <2>2, SumSteps
  <2> DEFINE q == r \ {Picked(r)}
  <2>4. Cardinality(q) \in Nat /\ n = Cardinality(q) + 1 /\ q \in SUBSET S /\ Picked(r) \in S
    BY <1>0, <2>2, <2>3, Smaller
  <2>5. SumOver(f, r) = f[Picked(r)] + SumOver(f, q) /\ SumOver(g, r) = g[Picked(r)] + SumOver(g, q)
    BY <1>0, <2>3, SumSteps
  <2>9. SumOver(f, q) \in Nat /\ SumOver(g, q) \in Nat /\ f[Picked(r)] \in Nat /\ g[Picked(r)] \in Nat
    BY <1>0, <2>4, SumType
  <2>6. ~(SumOver(f, q) <= SumOver(g, q))
    BY <2>2, <2>4, <2>5, <2>9
  <2>7. Cardinality(q) \in Other
    BY <2>4, <2>6
  <2>8. n <= Cardinality(q)
    <3> HIDE DEF Other, q
    <3> QED
      BY <2>1, <2>7
  <2> QED
    BY <2>4, <2>8
<1> QED
  BY <1>0, <1>1

\* A sum over a set with one element more or less, and with one value changed.
LEMMA SumWith ==
  ASSUME NEW S, IsFiniteSet(S), NEW f, NEW x, \A y \in S \cup {x} : f[y] \in Nat
  PROVE  /\ IsFiniteSet(S \cup {x}) /\ IsFiniteSet(S \ {x})
         /\ SumOver(f, S \cup {x}) = f[x] + SumOver(f, S \ {x})
         /\ SumOver(f, S \ {x}) \in Nat
         /\ SumOver(f, S) = SumOver(f, S \ {x}) + IF x \in S THEN f[x] ELSE 0
<1>1. IsFiniteSet(S \cup {x}) /\ IsFiniteSet(S \ {x})
  BY FS_AddElement, FS_Subset
<1>2. (S \cup {x}) \ {x} = S \ {x} /\ x \in S \cup {x}
  OBVIOUS
<1>3. SumOver(f, S \ {x}) \in Nat
  BY <1>1, SumType
<1>4. SumOver(f, S \cup {x}) = f[x] + SumOver(f, S \ {x})
  BY <1>1, <1>2, SumRemove
<1>5. CASE x \in S
  BY <1>1, <1>3, <1>4, <1>5, SumRemove
<1>6. CASE x \notin S
  <2>1. S \ {x} = S
    BY <1>6
  <2>2. SumOver(f, S \ {x}) = SumOver(f, S)
    BY <2>1
  <2>3. SumOver(f, S) = SumOver(f, S \ {x}) + 0
    BY <1>3, <2>2
  <2> QED
    BY <1>1, <1>3, <1>4, <1>6, <2>3
<1> QED
  BY <1>5, <1>6

\* Induction on the subsets of a finite set: what holds of the empty one, and of a set when it
\* holds of the set without the element picked from it, holds of them all.
LEMMA BySubsets ==
  ASSUME NEW S, IsFiniteSet(S), NEW P, {} \in P,
         \A r \in SUBSET S : r # {} /\ r \ {Picked(r)} \in P => r \in P
  PROVE  S \in P
<1> DEFINE Other == {n \in Nat : \E r \in SUBSET S : Cardinality(r) = n /\ r \notin P}
<1>0. ASSUME NEW r \in SUBSET S PROVE IsFiniteSet(r) /\ Cardinality(r) \in Nat
  BY FS_Subset, FS_CardinalityType
<1>1. Other = {}
  <2> SUFFICES ASSUME Other # {} PROVE FALSE
    OBVIOUS
  <2>1. PICK n \in Other : \A m \in Other : n <= m
    <3>1. Other \in SUBSET Nat
      OBVIOUS
    <3> HIDE DEF Other
    <3> QED
      BY <3>1, LeastNumber
  <2>2. PICK r \in SUBSET S : Cardinality(r) = n /\ r \notin P
    OBVIOUS
  <2>3. r # {}
    BY <2>2
  <2> DEFINE q == r \ {Picked(r)}
  <2>4. Cardinality(q) \in Nat /\ n = Cardinality(q) + 1 /\ q \in SUBSET S
    BY <1>0, <2>2, <2>3, Smaller
  <2>5. Cardinality(q) \in Other
    BY <2>2, <2>3, <2>4
  <2>6. n <= Cardinality(q)
    <3> HIDE DEF Other, q
    <3> QED
      BY <2>1, <2>5
  <2> QED
    BY <2>4, <2>6
<1>2. S \in SUBSET S
  OBVIOUS
<1> QED
  BY <1>0, <1>1, <1>2

\* A sum of zeros.
LEMMA SumZero ==
  ASSUME NEW S, IsFiniteSet(S), NEW f, \A y \in S : f[y] = 0
  PROVE  SumOver(f, S) = 0
<1> DEFINE P == {r \in SUBSET S : SumOver(f, r) = 0}
<1>1. {} \in P
  BY SumSteps, FS_EmptySet
<1>2. ASSUME NEW r \in SUBSET S, r # {}, r \ {Picked(r)} \in P PROVE r \in P
  <2>1. Picked(r) \in r
    BY <1>2 DEF Picked
  <2>2. IsFiniteSet(r)
    BY FS_Subset
  <2>3. SumOver(f, r) = f[Picked(r)] + SumOver(f, r \ {Picked(r)})
    BY <1>2, <2>2, SumSteps
  <2> QED
    BY <1>2, <2>1, <2>3
<1>3. S \in P
  <2> HIDE DEF P
  <2> QED
    BY <1>1, <1>2, BySubsets
<1> QED
  BY <1>3

\* What is not zero has an element that is not.
LEMMA SumNotZero ==
  ASSUME NEW S, IsFiniteSet(S), NEW f, SumOver(f, S) # 0
  PROVE  \E y \in S : f[y] # 0
BY SumZero

\* The square of a sum is at most as many times the sum of the squares as there are summands.
LEMMA SumSquares ==
  ASSUME NEW S, IsFiniteSet(S), NEW f, NEW g, \A y \in S : f[y] \in Nat /\ g[y] = f[y] * f[y]
  PROVE  /\ Cardinality(S) \in Nat /\ SumOver(f, S) \in Nat /\ SumOver(g, S) \in Nat
         /\ SumOver(f, S) * SumOver(f, S) <= Cardinality(S) * SumOver(g, S)
<1>0. ASSUME NEW r \in SUBSET S
      PROVE  /\ IsFiniteSet(r) /\ Cardinality(r) \in Nat
             /\ SumOver(f, r) \in Nat /\ SumOver(g, r) \in Nat
  <2>1. IsFiniteSet(r) /\ Cardinality(r) \in Nat
    BY FS_Subset, FS_CardinalityType
  <2>2. \A y \in r : f[y] \in Nat /\ g[y] \in Nat
    OBVIOUS
  <2>3. SumOver(f, r) \in Nat
    BY <2>1, <2>2, SumType
  <2>4. SumOver(g, r) \in Nat
    BY <2>1, <2>2, SumType
  <2> QED
    BY <2>1, <2>3, <2>4
<1> DEFINE P == {r \in SUBSET S : SumOver(f, r) * SumOver(f, r) <= Cardinality(r) * SumOver(g, r)}
<1>1. {} \in P
  <2>1. SumOver(f, {}) = 0 /\ SumOver(g, {}) = 0 /\ Cardinality({}) = 0
    BY SumSteps, FS_EmptySet
  <2> QED
    BY <2>1
<1>2. ASSUME NEW r \in SUBSET S, r # {}, r \ {Picked(r)} \in P PROVE r \in P
  <2> DEFINE z == Picked(r)
             q == r \ {z}
  <2>1. /\ z \in r /\ Cardinality(r) = Cardinality(q) + 1
        /\ SumOver(f, r) = f[z] + SumOver(f, q) /\ SumOver(g, r) = f[z] * f[z] + SumOver(g, q)
    BY <1>0, <1>2, Smaller, SumSteps
  <2> HIDE DEF z
  <2>2. PICK a \in Nat, k \in Nat, s \in Nat, t \in Nat :
          /\ a = f[z] /\ k = Cardinality(q) /\ s = SumOver(f, q) /\ t = SumOver(g, q)
    BY <1>0, <2>1
  <2>3. s * s <= k * t
    BY <1>2, <2>2 DEF z
  <2>4. (a + s) * (a + s) <= (k + 1) * (a * a + t)
    <3>1. CASE k = 0
      <4>1. q = {}
        BY <1>0, <2>2, <3>1, FS_EmptySet
      <4>2. s = 0 /\ t = 0
        BY <2>2, <4>1, SumSteps, FS_EmptySet
      <4> QED
        BY <3>1, <4>2
    <3>2. CASE k # 0
      <4>1. (s - k * a) * (s - k * a) >= 0
        <5>1. \A i \in Int : i * i >= 0
          OBVIOUS
        <5>2. s - k * a \in Int
          OBVIOUS
        <5> QED
          BY <5>1, <5>2
      <4>2. (s - k * a) * (s - k * a) = s * s - 2 * (k * (a * s)) + k * (k * (a * a))
        OBVIOUS
      <4>3. 2 * (k * (a * s)) <= k * t + k * (k * (a * a))
        BY <2>3, <4>1, <4>2
      <4>4. 2 * (a * s) <= t + k * (a * a)
        <5>1. k * (2 * (a * s)) <= k * (t + k * (a * a))
          BY <4>3
        <5>2. ASSUME NEW i \in Nat, NEW j \in Nat, k * i <= k * j PROVE i <= j
          <6> SUFFICES ASSUME i >= j + 1 PROVE FALSE
            OBVIOUS
          <6>1. k * i >= k * (j + 1)
            OBVIOUS
          <6> QED
            BY <3>2, <5>2, <6>1
        <5>3. 2 * (a * s) \in Nat /\ t + k * (a * a) \in Nat
          OBVIOUS
        <5> QED
          BY <5>1, <5>2, <5>3
      <4>5. (a + s) * (a + s) = a * a + 2 * (a * s) + s * s
        OBVIOUS
      <4>6. (k + 1) * (a * a + t) = k * (a * a) + k * t + a * a + t
        OBVIOUS
      <4> QED
        BY <2>3, <4>4, <4>5, <4>6
    <3> QED
      BY <3>1, <3>2
  <2>5. SumOver(f, r) * SumOver(f, r) <= Cardinality(r) * SumOver(g, r)
    BY <2>1, <2>2, <2>4
  <2> QED
    BY <2>5
<1>3. S \in P
  <2> HIDE DEF P
  <2> QED
    BY <1>1, <1>2, BySubsets
<1>4. S \in SUBSET S
  OBVIOUS
<1> QED
  BY <1>0, <1>3, <1>4

\* A part of the set, and the rest of it.
LEMMA SumSplit ==
  ASSUME NEW S, IsFiniteSet(S), NEW f, \A y \in S : f[y] \in Nat, NEW A \in SUBSET S
  PROVE  /\ SumOver(f, S) = SumOver(f, A) + SumOver(f, S \ A)
         /\ SumOver(f, S) \in Nat /\ SumOver(f, A) \in Nat /\ SumOver(f, S \ A) \in Nat
<1> DEFINE Other == {n \in Nat : \E r \in SUBSET S :
                       Cardinality(r) = n /\ SumOver(f, S) # SumOver(f, r) + SumOver(f, S \ r)}
<1>0. ASSUME NEW r \in SUBSET S
      PROVE  /\ IsFiniteSet(r) /\ Cardinality(r) \in Nat /\ SumOver(f, r) \in Nat
             /\ \A y \in r : f[y] \in Nat
  <2>1. IsFiniteSet(r) /\ Cardinality(r) \in Nat
    BY FS_Subset, FS_CardinalityType
  <2>2. \A y \in r : f[y] \in Nat
    OBVIOUS
  <2> QED
    BY <2>1, <2>2, SumType
<1>1. Other = {}
  <2> SUFFICES ASSUME Other # {} PROVE FALSE
    OBVIOUS
  <2>1. PICK n \in Other : \A m \in Other : n <= m
    <3>1. Other \in SUBSET Nat
      OBVIOUS
    <3> HIDE DEF Other
    <3> QED
      BY <3>1, LeastNumber
  <2>2. PICK r \in SUBSET S :
          Cardinality(r) = n /\ SumOver(f, S) # SumOver(f, r) + SumOver(f, S \ r)
    OBVIOUS
  <2>3. r # {}
    <3> SUFFICES ASSUME r = {} PROVE FALSE
      OBVIOUS
    <3>1. SumOver(f, r) = 0 /\ S \ r = S /\ SumOver(f, S) \in Nat
      BY <1>0, SumSteps
    <3> QED
      BY <2>2, <3>1
  <2> DEFINE z == Picked(r)
             q == r \ {z}
  <2>4. Cardinality(q) \in Nat /\ n = Cardinality(q) + 1 /\ q \in SUBSET S /\ z \in r
    BY <1>0, <2>2, <2>3, Smaller
  <2>5. SumOver(f, r) = f[z] + SumOver(f, q)
    BY <1>0, <2>3, SumSteps
  <2> HIDE DEF z
  <2>6. SumOver(f, S \ q) = f[z] + SumOver(f, S \ r)
    <3>1. z \in S \ q /\ (S \ q) \ {z} = S \ r
      BY <2>4
    <3> QED
      BY <1>0, <3>1, SumRemove
  <2>7. SumOver(f, S) # SumOver(f, q) + SumOver(f, S \ q)
    <3>1. PICK a \in Nat, b \in Nat, c \in Nat :
            a = f[z] /\ b = SumOver(f, q) /\ c = SumOver(f, S \ r)
      BY <1>0, <2>4
    <3> QED
      BY <2>2, <2>5, <2>6, <3>1
  <2>8. Cardinality(q) \in Other
    BY <2>4, <2>7
  <2>9. n <= Cardinality(q)
    <3> HIDE DEF Other, q
    <3> QED
      BY <2>1, <2>8
  <2> QED
    BY <2>4, <2>9
<1>2. SumOver(f, S) = SumOver(f, A) + SumOver(f, S \ A)
  BY <1>0, <1>1
<1>3. S \in SUBSET S /\ S \ A \in SUBSET S
  OBVIOUS
<1> QED
  BY <1>0, <1>2, <1>3

\* A part adds up to no more than the whole.
LEMMA SumPart ==
  ASSUME NEW S, IsFiniteSet(S), NEW f, \A y \in S : f[y] \in Nat, NEW A \in SUBSET S
  PROVE  SumOver(f, A) \in Nat /\ SumOver(f, S) \in Nat /\ SumOver(f, A) <= SumOver(f, S)
<1>1. PICK a \in Nat, b \in Nat, c \in Nat :
        a = SumOver(f, S) /\ b = SumOver(f, A) /\ c = SumOver(f, S \ A) /\ a = b + c
  BY SumSplit
<1> QED
  BY <1>1

\* Two parts add up to no more than the whole and what they share.
LEMMA SumOverlap ==
  ASSUME NEW S, IsFiniteSet(S), NEW f, \A y \in S : f[y] \in Nat,
         NEW A \in SUBSET S, NEW B \in SUBSET S, NEW C \in SUBSET S, A \cap B \subseteq C
  PROVE  /\ SumOver(f, A) \in Nat /\ SumOver(f, B) \in Nat /\ SumOver(f, C) \in Nat
         /\ SumOver(f, S) \in Nat
         /\ SumOver(f, A) + SumOver(f, B) <= SumOver(f, S) + SumOver(f, C)
<1>0. ASSUME NEW r \in SUBSET S PROVE IsFiniteSet(r) /\ \A y \in r : f[y] \in Nat
  BY FS_Subset
<1>1. SumOver(f, S) = SumOver(f, B) + SumOver(f, S \ B)
  BY SumSplit
<1>2. SumOver(f, A) = SumOver(f, A \cap B) + SumOver(f, A \ B)
  <2>1. A \cap B \in SUBSET A /\ A \ (A \cap B) = A \ B
    OBVIOUS
  <2>2. IsFiniteSet(A) /\ \A y \in A : f[y] \in Nat
    BY <1>0
  <2>3. SumOver(f, A) = SumOver(f, A \cap B) + SumOver(f, A \ (A \cap B))
    BY <2>1, <2>2, SumSplit
  <2> QED
    BY <2>1, <2>3
<1>3. SumOver(f, A \ B) <= SumOver(f, S \ B)
  <2>1. A \ B \in SUBSET (S \ B) /\ S \ B \in SUBSET S
    OBVIOUS
  <2> QED
    BY <1>0, <2>1, SumPart
<1>4. SumOver(f, A \cap B) <= SumOver(f, C)
  BY <1>0, SumPart
<1>5. \A r \in SUBSET S : SumOver(f, r) \in Nat
  BY SumPart
<1>6. PICK a \in Nat, b \in Nat, c \in Nat, d \in Nat :
        a = SumOver(f, A \cap B) /\ b = SumOver(f, A \ B) /\ c = SumOver(f, S \ B) /\ d = SumOver(f, B)
  BY <1>5
<1>7. SumOver(f, C) \in Nat /\ SumOver(f, A) \in Nat /\ SumOver(f, S) \in Nat
  BY <1>5
<1> QED
  BY <1>1, <1>2, <1>3, <1>4, <1>6, <1>7

\* The elements a function takes to a value, and the values it takes.
Fibre(f, S, v) == {y \in S : f[y] = v}
Values(f, S)   == {f[x] : x \in S}

\* When every fibre of a function has at most m elements, the set has at most m times as many
\* elements as the function has values on it.
LEMMA FibresBound ==
  ASSUME NEW S, IsFiniteSet(S), NEW f, NEW m \in Nat,
         \A x \in S : Cardinality(Fibre(f, S, f[x])) <= m
  PROVE  /\ IsFiniteSet(Values(f, S)) /\ Cardinality(Values(f, S)) \in Nat
         /\ Cardinality(S) \in Nat
         /\ Cardinality(S) <= m * Cardinality(Values(f, S))
<1> USE DEF Fibre, Values
<1> DEFINE V == {f[x] : x \in S}
           In(W) == {x \in S : f[x] \in W}
           Other == {n \in Nat : \E W \in SUBSET V :
                       Cardinality(W) = n /\ ~(Cardinality(In(W)) <= m * Cardinality(W))}
<1>0. IsFiniteSet(V)
  <2> DEFINE g == [x \in S |-> f[x]]
  <2>1. g \in Surjection(S, V)
    BY DEF Surjection
  <2> HIDE DEF g, V
  <2> QED
    BY <2>1, FS_Surjection
<1>1. ASSUME NEW W PROVE IsFiniteSet(In(W)) /\ Cardinality(In(W)) \in Nat
  <2>1. In(W) \in SUBSET S
    OBVIOUS
  <2> QED
    BY <2>1, FS_Subset, FS_CardinalityType
<1>2. ASSUME NEW W \in SUBSET V PROVE IsFiniteSet(W) /\ Cardinality(W) \in Nat
  BY <1>0, FS_Subset, FS_CardinalityType
<1>3. Other = {}
  <2> SUFFICES ASSUME Other # {} PROVE FALSE
    OBVIOUS
  <2>1. PICK n \in Other : \A k \in Other : n <= k
    <3>1. Other \in SUBSET Nat
      OBVIOUS
    <3> HIDE DEF Other
    <3> QED
      BY <3>1, LeastNumber
  <2>2. PICK W \in SUBSET V : Cardinality(W) = n /\ ~(Cardinality(In(W)) <= m * Cardinality(W))
    OBVIOUS
  <2>3. W # {}
    <3> SUFFICES ASSUME W = {} PROVE FALSE
      OBVIOUS
    <3>1. In(W) = {}
      OBVIOUS
    <3>2. Cardinality(In(W)) = 0 /\ Cardinality(W) = 0
      BY <3>1, FS_EmptySet
    <3> QED
      BY <2>2, <3>2
  <2> DEFINE z == Picked(W)
             q == W \ {z}
  <2>4. Cardinality(q) \in Nat /\ n = Cardinality(q) + 1 /\ q \in SUBSET V /\ z \in W
    BY <1>2, <2>2, <2>3, Smaller
  <2> HIDE DEF z
  <2>5. PICK x \in S : f[x] = z
    BY <2>4
  <2> DEFINE F == {y \in S : f[y] = f[x]}
  <2>6. Cardinality(F) \in Nat /\ Cardinality(F) <= m /\ IsFiniteSet(F)
    <3>1. F \in SUBSET S
      OBVIOUS
    <3> QED
      BY <3>1, FS_Subset, FS_CardinalityType
  <2>7. In(W) = In(q) \cup F
    BY <2>4, <2>5
  <2>8. Cardinality(In(W)) <= Cardinality(In(q)) + Cardinality(F)
    <3>1. /\ Cardinality(In(q) \cup F)
               = Cardinality(In(q)) + Cardinality(F) - Cardinality(In(q) \cap F)
          /\ Cardinality(In(q) \cap F) \in Nat
      <4>1. IsFiniteSet(In(q) \cap F)
        BY <2>6, FS_Intersection, <1>1
      <4> HIDE DEF F, In
      <4> QED
        BY <1>1, <2>6, <4>1, FS_Union, FS_CardinalityType
    <3> HIDE DEF F, In, q
    <3> QED
      BY <1>1, <2>6, <2>7, <3>1
  <2>9. ~(Cardinality(In(q)) <= m * Cardinality(q))
    <3> HIDE DEF F, In
    <3>1. PICK a \in Nat, b \in Nat, c \in Nat, d \in Nat :
            /\ a = Cardinality(In(W)) /\ b = Cardinality(In(q))
            /\ c = Cardinality(F) /\ d = Cardinality(q)
      BY <1>1, <2>4, <2>6
    <3>2. a <= b + c /\ c <= m /\ ~(a <= m * (d + 1))
      BY <2>2, <2>4, <2>6, <2>8, <3>1
    <3>3. m * (d + 1) = m * d + m /\ m * d \in Nat
      OBVIOUS
    <3>4. ~(b <= m * d)
      BY <3>2, <3>3
    <3> QED
      BY <3>1, <3>4
  <2>10. Cardinality(q) \in Other
    BY <2>4, <2>9
  <2>11. n <= Cardinality(q)
    <3> HIDE DEF Other, q
    <3> QED
      BY <2>1, <2>10
  <2> QED
    BY <2>4, <2>11
<1>4. V \in SUBSET V /\ In(V) = S
  OBVIOUS
<1>5. Cardinality(In(V)) <= m * Cardinality(V)
  <2> SUFFICES ASSUME ~(Cardinality(In(V)) <= m * Cardinality(V)) PROVE FALSE
    OBVIOUS
  <2>1. Cardinality(V) \in Other
    BY <1>2, <1>4
  <2> QED
    BY <1>3, <2>1
<1> QED
  BY <1>0, <1>2, <1>4, <1>5, FS_CardinalityType

LEMMA TimesInt == \A i, j \in Int : i * j \in Int
OBVIOUS

LEMMA Distributes ==
  ASSUME NEW k \in Int, NEW u \in Int, NEW v \in Int, NEW p \in Int, NEW q \in Int
  PROVE  k * (u + v - 2 * p - q) = k * u + k * v - 2 * (k * p) - k * q
<1>1. /\ k * (u + v - 2 * p - q) = k * (u + v) - k * (2 * p + q)
      /\ k * (u + v) = k * u + k * v
      /\ k * (2 * p + q) = k * (2 * p) + k * q
      /\ k * (2 * p) = 2 * (k * p)
  OBVIOUS
<1> QED
  BY <1>1

LEMMA Compares ==
  ASSUME NEW k \in Int, NEW u \in Int, NEW v \in Int, NEW p \in Int, NEW q \in Int,
         k * q + q <= k * v
  PROVE  k * u - 2 * (k * p) + q <= k * (u + v - 2 * p - q)
<1>1. k * (u + v - 2 * p - q) = k * u + k * v - 2 * (k * p) - k * q
  BY Distributes
<1>2. PICK c1 \in Int, c2 \in Int, c3 \in Int, c4 \in Int :
           k * u = c1 /\ k * v = c2 /\ k * p = c3 /\ k * q = c4
  <2>1. k * u \in Int /\ k * v \in Int /\ k * p \in Int /\ k * q \in Int
    BY TimesInt
  <2> QED
    BY <2>1
<1>3. c4 + q <= c2
  BY <1>2
<1>4. c1 - 2 * c3 + q <= c1 + c2 - 2 * c3 - c4
  BY <1>3
<1> QED
  BY <1>1, <1>2, <1>4

\* The algebra of one value, a, against k others of sum s and of squares t.
LEMMA OneOfThem ==
  ASSUME NEW a \in Nat, NEW k \in Nat, NEW s \in Nat, NEW t \in Nat, s * s <= k * t
  PROVE  ((k + 1) * a - (a + s)) * ((k + 1) * a - (a + s))
           <= k * ((k + 1) * (a * a + t) - (a + s) * (a + s))
<1>1. \A i, j \in Int : i <= j => (k + 1) * i <= (k + 1) * j
  OBVIOUS
<1>2. k * (s * s) + s * s <= k * ((k + 1) * t)
  <2>1. k * ((k + 1) * t) = (k + 1) * (k * t) /\ k * (s * s) + s * s = (k + 1) * (s * s)
    OBVIOUS
  <2>2. s * s \in Int /\ k * t \in Int
    BY TimesInt
  <2>3. (k + 1) * (s * s) <= (k + 1) * (k * t)
    BY <1>1, <2>2
  <2> QED
    BY <2>1, <2>3
<1>3. ((k + 1) * a - (a + s)) * ((k + 1) * a - (a + s)) = k * (k * (a * a)) - 2 * (k * (a * s)) + s * s
  <2>1. (k + 1) * a - (a + s) = k * a - s
    OBVIOUS
  <2>2. (k * a - s) * (k * a - s) = k * (k * (a * a)) - 2 * (k * (a * s)) + s * s
    OBVIOUS
  <2> QED
    BY <2>1, <2>2
<1>4. (k + 1) * (a * a + t) - (a + s) * (a + s) = k * (a * a) + (k + 1) * t - 2 * (a * s) - s * s
  OBVIOUS
<1>5. PICK u \in Int, v \in Int, p \in Int, q \in Int :
        u = k * (a * a) /\ v = (k + 1) * t /\ p = a * s /\ q = s * s
  <2>1. k * (a * a) \in Int /\ (k + 1) * t \in Int /\ a * s \in Int /\ s * s \in Int
    BY TimesInt
  <2> QED
    BY <2>1
<1>6. k * q + q <= k * v
  BY <1>2, <1>5
<1>7. k * u - 2 * (k * p) + q <= k * (u + v - 2 * p - q)
  BY <1>6, Compares
<1>8. ((k + 1) * a - (a + s)) * ((k + 1) * a - (a + s)) = k * u - 2 * (k * p) + q
  BY <1>3, <1>5
<1>9. (k + 1) * (a * a + t) - (a + s) * (a + s) = u + v - 2 * p - q
  BY <1>4, <1>5
<1> QED
  BY <1>7, <1>8, <1>9

\* How far a value is from the mean of n values, by their variance: n - 1 times the standard
\* deviation at most.
LEMMA FromMean ==
  ASSUME NEW S, IsFiniteSet(S), NEW f, NEW g, \A y \in S : f[y] \in Nat /\ g[y] = f[y] * f[y],
         NEW n \in Nat, n = Cardinality(S), NEW T \in Nat, T = SumOver(f, S),
         NEW Q \in Nat, Q = SumOver(g, S), NEW x \in S
  PROVE  /\ n * Q - T * T >= 0
         /\ (n * f[x] - T) * (n * f[x] - T) <= (n - 1) * (n * Q - T * T)
<1> DEFINE R == S \ {x}
<1>1. n * Q - T * T >= 0
  <2>1. T * T <= n * Q
    BY SumSquares
  <2>2. T * T \in Nat /\ n * Q \in Nat
    OBVIOUS
  <2> QED
    BY <2>1, <2>2
<1>2. IsFiniteSet(R) /\ Cardinality(R) = n - 1
  BY FS_RemoveElement
<1>3. \A y \in S : f[y] \in Nat /\ g[y] \in Nat
  OBVIOUS
<1>4. T = f[x] + SumOver(f, R) /\ Q = f[x] * f[x] + SumOver(g, R)
  <2>1. SumOver(f, S) = f[x] + SumOver(f, R)
    BY <1>3, SumRemove
  <2>2. SumOver(g, S) = g[x] + SumOver(g, R)
    BY <1>3, SumRemove
  <2> QED
    BY <2>1, <2>2
<1>5. /\ Cardinality(R) \in Nat /\ SumOver(f, R) \in Nat /\ SumOver(g, R) \in Nat
      /\ SumOver(f, R) * SumOver(f, R) <= Cardinality(R) * SumOver(g, R)
  <2>1. \A y \in R : f[y] \in Nat /\ g[y] = f[y] * f[y]
    OBVIOUS
  <2> HIDE DEF R
  <2> QED
    BY <1>2, <2>1, SumSquares
<1>6. /\ n = (n - 1) + 1 /\ n - 1 \in Nat /\ f[x] \in Nat
      /\ SumOver(f, R) * SumOver(f, R) <= (n - 1) * SumOver(g, R)
  BY <1>2, <1>3, <1>5
<1> DEFINE k == n - 1
           a == f[x]
           s == SumOver(f, R)
           t == SumOver(g, R)
<1>7. k \in Nat /\ a \in Nat /\ s \in Nat /\ t \in Nat /\ s * s <= k * t
  BY <1>5, <1>6
<1>8. n = k + 1 /\ T = a + s /\ Q = a * a + t
  BY <1>4, <1>6
<1> HIDE DEF k, a, s, t
<1>9. ((k + 1) * a - (a + s)) * ((k + 1) * a - (a + s))
        <= k * ((k + 1) * (a * a + t) - (a + s) * (a + s))
  BY <1>7, OneOfThem
<1>10. (n * a - T) * (n * a - T) <= k * (n * Q - T * T)
  BY <1>8, <1>9
<1> QED
  BY <1>1, <1>10 DEF k, a

-----------------------------------------------------------------------------
(***************************************************************************)
(* FoldLeft takes the largest index out of a set of indices: its value on  *)
(* 1..k is one step from its value on 1..k-1.                              *)
(***************************************************************************)
Largest(s) == CHOOSE x \in s : \A y \in s : x >= y

LeftFold(h, op, b, n) ==
  h = [s \in SUBSET (1..n) |->
         IF s = {} THEN b ELSE op[<<h[s \ {Largest(s)}], Largest(s)>>]]

LEMMA LargestIs ==
  ASSUME NEW k \in Nat, NEW s \in SUBSET (1..k), k \in s
  PROVE  Largest(s) = k
<1>1. \A y \in s : k >= y
  OBVIOUS
<1>2. ASSUME NEW x \in s, \A y \in s : x >= y PROVE x = k
  BY <1>2
<1> QED
  BY <1>1, <1>2 DEF Largest

LEMMA HasLargest ==
  ASSUME NEW n \in Nat, NEW s \in SUBSET (1..n), s # {}
  PROVE  Largest(s) \in s
<1> DEFINE Above == {k \in Nat : \A y \in s : k >= y}
<1>1. n \in Above /\ Above \in SUBSET Nat
  OBVIOUS
<1>2. PICK k \in Above : \A j \in Above : k <= j
  <2> HIDE DEF Above
  <2> QED
    BY <1>1, LeastNumber
<1>3. k \in Nat /\ \A y \in s : k >= y
  OBVIOUS
<1>4. k \in s
  <2> SUFFICES ASSUME k \notin s PROVE FALSE
    OBVIOUS
  <2>1. k # 0
    <3>1. PICK y \in s : TRUE
      OBVIOUS
    <3>2. y \in Nat /\ y # 0 /\ k >= y
      BY <1>3, <3>1
    <3> QED
      BY <3>2
  <2>2. k - 1 \in Nat /\ \A y \in s : k - 1 >= y
    BY <1>3, <2>1
  <2>3. k - 1 \in Above
    BY <2>2
  <2>4. k <= k - 1
    <3> HIDE DEF Above
    <3> QED
      BY <1>2, <2>3
  <2> QED
    BY <1>3, <2>4
<1> QED
  BY <1>3, <1>4 DEF Largest

\* Nobody is left out: every step of the fold is a step of op, and the result has its type.
LEMMA LeftFoldExists ==
  ASSUME NEW n \in Nat, NEW D, NEW b \in D, NEW op \in [D \X (1..n) -> D]
  PROVE  \E h \in [SUBSET (1..n) -> D] : LeftFold(h, op, b, n)
<1> DEFINE Built == {k \in 0..n : \E h \in [SUBSET (1..k) -> D] : LeftFold(h, op, b, k)}
<1>1. \E h \in [SUBSET (1..0) -> D] : LeftFold(h, op, b, 0)
  <2> DEFINE g == [s \in SUBSET (1..0) |-> b]
  <2>1. \A s \in SUBSET (1..0) : s = {}
    OBVIOUS
  <2>2. g = [s \in SUBSET (1..0) |->
               IF s = {} THEN b ELSE op[<<g[s \ {Largest(s)}], Largest(s)>>]]
    BY <2>1
  <2>3. g \in [SUBSET (1..0) -> D]
    OBVIOUS
  <2> QED
    BY <2>2, <2>3 DEF LeftFold
<1>2. ASSUME NEW k \in 0..n, NEW m \in 0..n, m = k + 1,
             NEW h \in [SUBSET (1..k) -> D], LeftFold(h, op, b, k)
      PROVE  \E g \in [SUBSET (1..m) -> D] : LeftFold(g, op, b, m)
  <2> DEFINE g == [s \in SUBSET (1..m) |->
                     IF m \in s THEN op[<<h[s \ {m}], m>>] ELSE h[s]]
  <2>1. ASSUME NEW s \in SUBSET (1..m)
        PROVE  s \ {m} \in SUBSET (1..k) /\ (m \notin s => s \in SUBSET (1..k))
    BY <1>2
  <2>2. g \in [SUBSET (1..m) -> D]
    BY <1>2, <2>1
  <2>3. ASSUME NEW s \in SUBSET (1..k)
        PROVE  g[s] = h[s] /\ s \in SUBSET (1..m) /\ m \notin s
    BY <1>2
  <2>4. ASSUME NEW s \in SUBSET (1..m)
        PROVE  g[s] = IF s = {} THEN b ELSE op[<<g[s \ {Largest(s)}], Largest(s)>>]
    <3>1. CASE m \in s
      <4>1. Largest(s) = m
        BY <1>2, <3>1, LargestIs
      <4>2. g[s] = op[<<h[s \ {m}], m>>]
        BY <3>1
      <4>3. h[s \ {m}] = g[s \ {m}]
        BY <2>1, <2>3
      <4> HIDE DEF g
      <4> QED
        BY <3>1, <4>1, <4>2, <4>3
    <3>2. CASE m \notin s
      <4>1. s \in SUBSET (1..k) /\ g[s] = h[s]
        BY <2>1, <2>3, <3>2
      <4>2. h[s] = IF s = {} THEN b ELSE op[<<h[s \ {Largest(s)}], Largest(s)>>]
        BY <1>2, <4>1 DEF LeftFold
      <4>3. h[s \ {Largest(s)}] = g[s \ {Largest(s)}]
        BY <2>3, <4>1
      <4> HIDE DEF g
      <4> QED
        BY <4>1, <4>2, <4>3
    <3> QED
      BY <3>1, <3>2
  <2>5. g = [s \in SUBSET (1..m) |-> g[s]]
    OBVIOUS
  <2> HIDE DEF g
  <2>6. LeftFold(g, op, b, m)
    BY <2>4, <2>5 DEF LeftFold
  <2> QED
    BY <2>2, <2>6
<1>3. \A k \in 0..n : k # n /\ k \in Built => k + 1 \in Built
  <2> SUFFICES ASSUME NEW k \in 0..n, k # n, k \in Built PROVE k + 1 \in Built
    OBVIOUS
  <2>1. PICK h \in [SUBSET (1..k) -> D] : LeftFold(h, op, b, k)
    OBVIOUS
  <2>2. PICK m \in 0..n : m = k + 1
    <3>1. k + 1 \in 0..n
      OBVIOUS
    <3> QED
      BY <3>1
  <2> QED
    BY <1>2, <2>1, <2>2
<1>4. 0 \in Built
  <2>1. 0 \in 0..n
    OBVIOUS
  <2> QED
    BY <1>1, <2>1
<1> HIDE DEF Built
<1>5. n \in Built
  BY <1>3, <1>4, UpTo
<1> QED
  BY <1>5 DEF Built

LEMMA Prefix ==
  ASSUME NEW k \in Nat \ {0}
  PROVE  1..k # {} /\ Largest(1..k) = k /\ (1..k) \ {k} = 1..(k - 1)
<1>1. k \in 1..k /\ (1..k) \ {k} = 1..(k - 1)
  OBVIOUS
<1> QED
  BY <1>1, LargestIs

-----------------------------------------------------------------------------
(***************************************************************************)
(* Filters.  What a filter keeps is counted by what it was given.          *)
(***************************************************************************)
Places(s, P) == {i \in DOMAIN s : s[i] \in P}
Count(s, P) == Cardinality(Places(s, P))

LEMMA CountType ==
  ASSUME NEW T, NEW s \in Seq(T), NEW P
  PROVE  IsFiniteSet(Places(s, P)) /\ Count(s, P) \in Nat
<1>1. IsFiniteSet(1..Len(s)) /\ Places(s, P) \subseteq 1..Len(s)
  BY FS_Interval DEF Places
<1> QED
  BY <1>1, FS_Subset, FS_CardinalityType DEF Count

LEMMA CountAppend ==
  ASSUME NEW T, NEW s \in Seq(T), NEW x \in T, NEW P
  PROVE  /\ Append(s, x) \in Seq(T)
         /\ Count(Append(s, x), P) = IF x \in P THEN Count(s, P) + 1 ELSE Count(s, P)
<1> DEFINE n == Len(s) + 1
<1>1. /\ Len(s) \in Nat /\ DOMAIN s = 1..Len(s)
      /\ Append(s, x) \in Seq(T) /\ DOMAIN Append(s, x) = 1..n
      /\ Append(s, x)[n] = x /\ \A i \in 1..Len(s) : Append(s, x)[i] = s[i]
  OBVIOUS
<1>2. 1..n = (1..Len(s)) \cup {n} /\ n \notin 1..Len(s)
  BY <1>1
<1>3. Places(Append(s, x), P) = IF x \in P THEN Places(s, P) \cup {n} ELSE Places(s, P)
  BY <1>1, <1>2 DEF Places
<1>4. n \notin Places(s, P)
  BY <1>1, <1>2 DEF Places
<1>5. IsFiniteSet(Places(s, P))
  BY CountType
<1>6. Cardinality(Places(s, P) \cup {n}) = Cardinality(Places(s, P)) + 1
  BY <1>4, <1>5, FS_AddElement
<1> QED
  BY <1>1, <1>3, <1>6 DEF Count

LEMMA CountEmpty == \A P : Count(<<>>, P) = 0
  BY FS_EmptySet DEF Count, Places

\* The places of one more value hold no fewer elements.
LEMMA CountMore ==
  ASSUME NEW T, NEW s \in Seq(T), NEW P, NEW Q, P \subseteq Q
  PROVE  Count(s, P) <= Count(s, Q)
<1>1. Places(s, P) \subseteq Places(s, Q)
  BY DEF Places
<1> QED
  BY <1>1, CountType, FS_Subset DEF Count

KeptFolds(h, s, K) ==
  h = [t \in SUBSET DOMAIN s |->
         IF t = {} THEN <<>>
         ELSE IF s[Largest(t)] \in K THEN Append(h[t \ {Largest(t)}], s[Largest(t)])
              ELSE h[t \ {Largest(t)}]]

LEMMA KeptUnfolds ==
  ASSUME NEW T, NEW s \in Seq(T), NEW K
  PROVE  \E h : /\ Kept(s, K) = h[1..Len(s)]
                /\ h[1..0] = <<>>
                /\ \A k \in 1..Len(s) :
                     h[1..k] = IF s[k] \in K THEN Append(h[1..(k - 1)], s[k])
                                             ELSE h[1..(k - 1)]
<1> DEFINE n == Len(s)
           op == [p \in Seq(T) \X (1..n) |->
                    IF s[p[2]] \in K THEN Append(p[1], s[p[2]]) ELSE p[1]]
<1>1. n \in Nat /\ DOMAIN s = 1..n /\ \A i \in 1..n : s[i] \in T
  OBVIOUS
<1> HIDE DEF n
<1>2. op \in [Seq(T) \X (1..n) -> Seq(T)]
  <2>1. ASSUME NEW q \in Seq(T), NEW i \in 1..n
        PROVE  (IF s[i] \in K THEN Append(q, s[i]) ELSE q) \in Seq(T)
    BY <1>1
  <2> QED
    BY <2>1
<1>3. \E h : KeptFolds(h, s, K)
  <2>1. <<>> \in Seq(T)
    OBVIOUS
  <2>2. PICK h \in [SUBSET (1..n) -> Seq(T)] : LeftFold(h, op, <<>>, n)
    <3> HIDE DEF op
    <3> QED
      BY <1>1, <1>2, <2>1, LeftFoldExists
  <2>3. ASSUME NEW t \in SUBSET (1..n), t # {}
        PROVE  op[<<h[t \ {Largest(t)}], Largest(t)>>]
                 = IF s[Largest(t)] \in K THEN Append(h[t \ {Largest(t)}], s[Largest(t)])
                   ELSE h[t \ {Largest(t)}]
    <3>1. Largest(t) \in 1..n
      BY <1>1, <2>3, HasLargest
    <3>2. h[t \ {Largest(t)}] \in Seq(T)
      OBVIOUS
    <3> QED
      BY <3>1, <3>2
  <2>4. h = [t \in SUBSET (1..n) |->
               IF t = {} THEN <<>>
               ELSE IF s[Largest(t)] \in K THEN Append(h[t \ {Largest(t)}], s[Largest(t)])
                    ELSE h[t \ {Largest(t)}]]
    <3> HIDE DEF op
    <3> QED
      BY <2>2, <2>3 DEF LeftFold
  <2> QED
    BY <1>1, <2>4 DEF KeptFolds
<1>4. PICK h : h = (CHOOSE g : KeptFolds(g, s, K))
  OBVIOUS
<1>5. Kept(s, K) = h[1..n]
  BY <1>1, <1>4 DEF Kept, FoldLeft, MapThenFoldSet, KeptFolds, Largest, Max
<1>6. \A t \in SUBSET (1..n) :
        h[t] = IF t = {} THEN <<>>
               ELSE IF s[Largest(t)] \in K THEN Append(h[t \ {Largest(t)}], s[Largest(t)])
                    ELSE h[t \ {Largest(t)}]
  <2>1. KeptFolds(h, s, K)
    BY <1>3, <1>4
  <2> QED
    BY <1>1, <2>1 DEF KeptFolds
<1>7. h[1..0] = <<>>
  <2>1. 1..0 = {} /\ 1..0 \in SUBSET (1..n)
    OBVIOUS
  <2> QED
    BY <1>6, <2>1
<1>8. ASSUME NEW k \in 1..n
      PROVE  h[1..k] = IF s[k] \in K THEN Append(h[1..(k - 1)], s[k]) ELSE h[1..(k - 1)]
  <2>1. 1..k \in SUBSET (1..n) /\ k \in Nat \ {0}
    BY <1>1
  <2> QED
    BY <1>6, <2>1, Prefix
<1> QED
  BY <1>5, <1>7, <1>8 DEF n

LEMMA KeptCounts ==
  ASSUME NEW T, NEW s \in Seq(T), NEW K
  PROVE  /\ Kept(s, K) \in Seq(T)
         /\ \A i \in DOMAIN Kept(s, K) : Kept(s, K)[i] \in K
         /\ \A P : Count(Kept(s, K), P) = Count(s, P \cap K)
<1>1. PICK h : /\ Kept(s, K) = h[1..Len(s)]
               /\ h[1..0] = <<>>
               /\ \A k \in 1..Len(s) :
                    h[1..k] = IF s[k] \in K THEN Append(h[1..(k - 1)], s[k])
                                            ELSE h[1..(k - 1)]
  BY KeptUnfolds
<1> DEFINE n == Len(s)
<1>2. n \in Nat /\ DOMAIN s = 1..n /\ \A i \in 1..n : s[i] \in T
  OBVIOUS
<1> HIDE DEF n
<1>3. h[1..n] \in Seq(T) /\ \A i \in DOMAIN h[1..n] : h[1..n][i] \in K
  <2> DEFINE P == {k \in 0..n : h[1..k] \in Seq(T) /\ \A i \in DOMAIN h[1..k] : h[1..k][i] \in K}
  <2>1. 0 \in P
    <3>1. h[1..0] \in Seq(T) /\ DOMAIN h[1..0] = {}
      BY <1>1
    <3>2. 0 \in 0..n
      BY <1>2
    <3> QED
      BY <3>1, <3>2
  <2>2. ASSUME NEW k \in 0..n, k # n, k \in P PROVE k + 1 \in P
    <3>1. PICK m \in 1..n : m = k + 1
      <4>1. k + 1 \in 1..n
        BY <1>2, <2>2
      <4> QED
        BY <4>1
    <3>2. m - 1 = k /\ m \in 0..n
      BY <3>1
    <3>3. h[1..k] \in Seq(T) /\ \A i \in DOMAIN h[1..k] : h[1..k][i] \in K
      BY <2>2
    <3>4. h[1..m] = IF s[m] \in K THEN Append(h[1..k], s[m]) ELSE h[1..k]
      BY <1>1, <3>2 DEF n
    <3>5. PICK q \in Seq(T) : q = h[1..k]
      BY <3>3
    <3>6. (Append(q, s[m]) \in Seq(T) /\ s[m] \in K) =>
            \A i \in DOMAIN Append(q, s[m]) : Append(q, s[m])[i] \in K
      BY <3>3, <3>5
    <3>7. h[1..m] \in Seq(T) /\ \A i \in DOMAIN h[1..m] : h[1..m][i] \in K
      BY <1>2, <3>3, <3>4, <3>5, <3>6
    <3>8. m \in P
      BY <3>2, <3>7
    <3> QED
      BY <3>1, <3>8
  <2> HIDE DEF P
  <2>3. n \in P
    BY <1>2, <2>1, <2>2, UpTo
  <2> QED
    BY <2>3 DEF P
<1>4. ASSUME NEW W PROVE Count(h[1..n], W) = Count(s, W \cap K)
  <2> DEFINE So(k) == {i \in 1..k : s[i] \in W \cap K}
             P == {k \in 0..n : h[1..k] \in Seq(T) /\ IsFiniteSet(So(k))
                                /\ Count(h[1..k], W) = Cardinality(So(k))}
  <2>1. 0 \in P
    <3>1. So(0) = {}
      OBVIOUS
    <3> HIDE DEF So
    <3>2. IsFiniteSet(So(0)) /\ Cardinality(So(0)) = 0
      BY <3>1, FS_EmptySet
    <3>3. h[1..0] \in Seq(T) /\ Count(h[1..0], W) = 0
      BY <1>1, CountEmpty
    <3>4. 0 \in 0..n
      BY <1>2
    <3> QED
      BY <3>2, <3>3, <3>4
  <2>2. ASSUME NEW k \in 0..n, k # n, k \in P PROVE k + 1 \in P
    <3>1. PICK m \in 1..n : m = k + 1
      <4>1. k + 1 \in 1..n
        BY <1>2, <2>2
      <4> QED
        BY <4>1
    <3>2. m - 1 = k /\ m \in 0..n
      BY <3>1
    <3>3. h[1..k] \in Seq(T) /\ IsFiniteSet(So(k)) /\ Count(h[1..k], W) = Cardinality(So(k))
      BY <2>2
    <3>4. h[1..m] = IF s[m] \in K THEN Append(h[1..k], s[m]) ELSE h[1..k]
      BY <1>1, <3>2 DEF n
    <3>5. So(m) = (IF s[m] \in W \cap K THEN So(k) \cup {m} ELSE So(k)) /\ m \notin So(k)
      BY <3>1
    <3>6. PICK q \in Seq(T) : q = h[1..k]
      BY <3>3
    <3>7. s[m] \in T
      BY <1>2
    <3> HIDE DEF So
    <3>8. /\ Append(q, s[m]) \in Seq(T)
          /\ Count(Append(q, s[m]), W) = IF s[m] \in W THEN Count(q, W) + 1 ELSE Count(q, W)
      BY <3>7, CountAppend
    <3>9. /\ IsFiniteSet(So(k) \cup {m})
          /\ Cardinality(So(k) \cup {m}) = Cardinality(So(k)) + 1
      BY <3>3, <3>5, FS_AddElement
    <3>10. h[1..m] \in Seq(T) /\ IsFiniteSet(So(m)) /\ Count(h[1..m], W) = Cardinality(So(m))
      BY <3>3, <3>4, <3>5, <3>6, <3>8, <3>9
    <3>11. m \in P
      BY <3>2, <3>10
    <3> HIDE DEF P
    <3> QED
      BY <3>1, <3>11
  <2>3. So(n) = Places(s, W \cap K)
    BY <1>2 DEF Places
  <2> HIDE DEF P, So
  <2>4. n \in P
    BY <1>2, <2>1, <2>2, UpTo
  <2> QED
    BY <2>3, <2>4 DEF P, Count
<1> QED
  BY <1>1, <1>3, <1>4 DEF n

LEMMA CountUnion ==
  ASSUME NEW T, NEW s \in Seq(T), NEW P, NEW Q
  PROVE  Count(s, P \cup Q) <= Count(s, P) + Count(s, Q)
<1> DEFINE A == Places(s, P)
           B == Places(s, Q)
<1>1. Places(s, P \cup Q) = A \cup B
  BY DEF Places
<1>2. /\ IsFiniteSet(A) /\ IsFiniteSet(B) /\ Count(s, P) \in Nat /\ Count(s, Q) \in Nat
      /\ Cardinality(A) = Count(s, P) /\ Cardinality(B) = Count(s, Q)
  BY CountType DEF Count
<1> HIDE DEF A, B
<1>3. /\ IsFiniteSet(A \cup B) /\ IsFiniteSet(A \cap B)
      /\ Cardinality(A \cup B) = Cardinality(A) + Cardinality(B) - Cardinality(A \cap B)
  BY <1>2, FS_Union, FS_Intersection
<1>4. Cardinality(A \cap B) \in Nat
  BY <1>3, FS_CardinalityType
<1>5. Count(s, P \cup Q) = Cardinality(A \cup B)
  BY <1>1 DEF Count
<1> QED
  BY <1>2, <1>3, <1>4, <1>5

LEMMA CountSame ==
  ASSUME NEW s, NEW P, NEW Q, \A i \in DOMAIN s : s[i] \in P <=> s[i] \in Q
  PROVE  Count(s, P) = Count(s, Q)
<1>1. Places(s, P) = Places(s, Q)
  BY DEF Places
<1> QED
  BY <1>1 DEF Count

LEMMA CountNone ==
  ASSUME NEW s, NEW P, \A i \in DOMAIN s : s[i] \notin P
  PROVE  Count(s, P) = 0
<1>1. Places(s, P) = {}
  BY DEF Places
<1> QED
  BY <1>1, FS_EmptySet DEF Count

LEMMA CountAll ==
  ASSUME NEW T, NEW s \in Seq(T), NEW P
  PROVE  /\ Count(s, P) <= Len(s)
         /\ (\A i \in DOMAIN s : s[i] \in P) => Count(s, P) = Len(s)
<1>1. DOMAIN s = 1..Len(s) /\ Len(s) \in Nat
  OBVIOUS
<1>2. IsFiniteSet(1..Len(s)) /\ Cardinality(1..Len(s)) = Len(s)
  <2>1. Cardinality(1..Len(s)) = IF 1 > Len(s) THEN 0 ELSE Len(s) - 1 + 1
    BY <1>1, FS_Interval
  <2> QED
    BY <1>1, <2>1, FS_Interval
<1>3. Places(s, P) \subseteq 1..Len(s) /\ ((\A i \in DOMAIN s : s[i] \in P) => Places(s, P) = 1..Len(s))
  BY <1>1 DEF Places
<1> QED
  BY <1>2, <1>3, FS_Subset DEF Count

\* No element twice.
Distinct(s) == \A j, k \in DOMAIN s : s[j] = s[k] => j = k

LEMMA DistinctCounts ==
  ASSUME NEW T, NEW s \in Seq(T)
  PROVE  Distinct(s) <=> \A x \in T : Count(s, {x}) <= 1
<1>1. ASSUME Distinct(s), NEW x \in T PROVE Count(s, {x}) <= 1
  <2>1. CASE Places(s, {x}) = {}
    <3>1. Count(s, {x}) = 0
      BY <2>1, FS_EmptySet DEF Count
    <3> QED
      BY <3>1
  <2>2. CASE Places(s, {x}) # {}
    <3>1. PICK i : Places(s, {x}) = {i}
      BY <1>1, <2>2 DEF Places, Distinct
    <3>2. Count(s, {x}) = 1
      BY <3>1, FS_Singleton DEF Count
    <3> QED
      BY <3>2
  <2> QED
    BY <2>1, <2>2
<1>2. ASSUME \A x \in T : Count(s, {x}) <= 1, NEW j \in DOMAIN s, NEW k \in DOMAIN s,
             s[j] = s[k], j # k
      PROVE  FALSE
  <2>1. s[j] \in T
    OBVIOUS
  <2>2. {j} \subseteq Places(s, {s[j]}) /\ k \in Places(s, {s[j]})
    BY <1>2 DEF Places
  <2>3. IsFiniteSet(Places(s, {s[j]}))
    BY <2>1, CountType
  <2>4. {j} # Places(s, {s[j]})
    BY <1>2, <2>2
  <2>5. Cardinality({j}) = 1
    BY FS_Singleton
  <2>7. /\ Cardinality(Places(s, {s[j]})) \in Nat
        /\ Cardinality({j}) < Cardinality(Places(s, {s[j]}))
    <3>1. PICK A : A = Places(s, {s[j]})
      OBVIOUS
    <3>2. /\ Cardinality({j}) <= Cardinality(A) /\ Cardinality({j}) \in Nat
          /\ Cardinality({j}) = Cardinality(A) => {j} = A
      BY <2>2, <2>3, <3>1, FS_Subset, FS_Singleton, FS_CardinalityType
    <3>3. Cardinality(A) \in Nat
      BY <2>3, <3>1, FS_CardinalityType
    <3>4. Cardinality({j}) # Cardinality(A)
      BY <2>4, <3>1, <3>2
    <3>5. Cardinality({j}) < Cardinality(A)
      BY <3>2, <3>3, <3>4
    <3> QED
      BY <3>1, <3>3, <3>5
  <2>6. Cardinality(Places(s, {s[j]})) <= 1
    BY <1>2, <2>1 DEF Count
  <2> QED
    BY <2>5, <2>6, <2>7
<1> QED
  BY <1>1, <1>2 DEF Distinct

\* A filter takes its elements from the sequence, and none twice.
LEMMA KeptFrom ==
  ASSUME NEW T, NEW s \in Seq(T), NEW K
  PROVE  /\ Distinct(s) => Distinct(Kept(s, K))
         /\ \A k \in DOMAIN Kept(s, K) : \E j \in DOMAIN s : Kept(s, K)[k] = s[j]
<1>1. PICK q : q = Kept(s, K)
  OBVIOUS
<1>2. q \in Seq(T) /\ \A P : Count(q, P) = Count(s, P \cap K)
  BY <1>1, KeptCounts
<1>3. ASSUME NEW x \in T PROVE Count(q, {x}) <= Count(s, {x}) /\ Count(q, {x}) \in Nat
  <2>1. {x} \cap K \subseteq {x}
    OBVIOUS
  <2>2. Count(s, {x} \cap K) <= Count(s, {x})
    BY <2>1, CountMore
  <2> QED
    BY <1>2, <2>2, CountType
<1>4. ASSUME Distinct(s) PROVE Distinct(q)
  <2>1. ASSUME NEW x \in T PROVE Count(q, {x}) <= 1
    <3>1. Count(s, {x}) <= 1 /\ Count(s, {x}) \in Nat
      BY <1>4, DistinctCounts, CountType
    <3> QED
      BY <1>3, <3>1
  <2> QED
    BY <1>2, <2>1, DistinctCounts
<1>5. ASSUME NEW k \in DOMAIN q, \A j \in DOMAIN s : q[k] # s[j] PROVE FALSE
  <2>1. q[k] \in T
    BY <1>2
  <2>2. Count(s, {q[k]}) = 0
    BY <1>5, CountNone
  <2>3. Places(q, {q[k]}) # {} /\ IsFiniteSet(Places(q, {q[k]}))
    BY <1>2, CountType DEF Places
  <2>4. Count(q, {q[k]}) # 0
    BY <2>3, FS_EmptySet DEF Count
  <2> QED
    BY <1>3, <2>1, <2>2, <2>4
<1> QED
  BY <1>1, <1>4, <1>5
=============================================================================
