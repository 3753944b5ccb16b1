--------------------------- MODULE Kmalloc_proofs ---------------------------
(***************************************************************************)
(* Proofs about Buddy and about Slab, which takes its pages from it, for      *)
(* every order and number of groups and every size of a page and set of       *)
(* object sizes, about Bootmm, which gives the pages in front of them, and     *)
(* about SegTree, for every power of two of pages.                            *)
(* As long as no group is freed while a pair that it would be merged with is   *)
(* held,                                                                    *)
(*   - the free and the held groups are a partition of the pages, and the      *)
(*     buddy system is the PageAllocator;                                     *)
(*   - objects never overlap, and the links in the pages are what slab_alloc    *)
(*     takes them for.                                                       *)
(* At the start no page is given twice, whatever is asked for; and no page of *)
(* the segment tree is, whose nodes always tell which of their pages are free. *)
(***************************************************************************)
EXTENDS Memory, SeqLemmas, FiniteSetTheorems

-----------------------------------------------------------------------------
(* Numbers *)

\* 2 ^ n counts the subsets of n things, and one thing more makes twice as many.
LEMMA PowerFacts ==
  /\ 2 ^ 0 = 1
  /\ \A n \in Nat : 2 ^ n \in Nat /\ 2 ^ n >= 1 /\ 2 ^ (n + 1) = 2 * 2 ^ n
<1>1. ASSUME NEW n \in Nat
      PROVE  /\ IsFiniteSet(1 .. n) /\ Cardinality(1 .. n) = n
             /\ IsFiniteSet(SUBSET (1 .. n)) /\ Cardinality(SUBSET (1 .. n)) = 2 ^ n
  <2>1. IsFiniteSet(1 .. n) /\ Cardinality(1 .. n) = IF 1 > n THEN 0 ELSE n - 1 + 1
    BY FS_Interval
  <2>2. Cardinality(1 .. n) = n
    BY <2>1
  <2>. QED  BY <2>1, <2>2, FS_SUBSET
<1>2. ASSUME NEW n \in Nat  PROVE 2 ^ (n + 1) = 2 * 2 ^ n
  <2>. DEFINE S == SUBSET (1 .. n)
              T == {U \cup {n + 1} : U \in S}
              f == [U \in S |-> U \cup {n + 1}]
  <2>1. IsFiniteSet(S) /\ Cardinality(S) = 2 ^ n
    BY <1>1
  <2>2. \A U \in S : n + 1 \notin U
    OBVIOUS
  <2>3. f \in Bijection(S, T)
    <3>1. f \in [S -> T] /\ \A t \in T : \E U \in S : f[U] = t
      OBVIOUS
    <3>2. ASSUME NEW U \in S, NEW V \in S, f[U] = f[V]  PROVE U = V
      BY <2>2, <3>2
    <3>. QED  BY <3>1, <3>2 DEF Bijection, Injection, Surjection, IsInjective
  <2>4. IsFiniteSet(T) /\ Cardinality(T) = 2 ^ n
    <3>1. ExistsBijection(S, T)
      BY <2>3 DEF ExistsBijection
    <3>. HIDE DEF S, T
    <3>. QED  BY <2>1, <3>1, FS_Bijection
  <2>5. S \cap T = {}
    BY <2>2
  <2>6. SUBSET (1 .. n + 1) = S \cup T
    <3>1. 1 .. n + 1 = (1 .. n) \cup {n + 1}
      OBVIOUS
    <3>2. ASSUME NEW V \in SUBSET (1 .. n + 1), n + 1 \in V  PROVE V \in T
      <4>1. V \ {n + 1} \in S /\ V = (V \ {n + 1}) \cup {n + 1}
        BY <3>1, <3>2
      <4>. QED  BY <4>1
    <3>3. ASSUME NEW V \in SUBSET (1 .. n + 1), n + 1 \notin V  PROVE V \in S
      BY <3>1, <3>3
    <3>4. S \cup T \subseteq SUBSET (1 .. n + 1)
      BY <3>1
    <3>. QED  BY <3>2, <3>3, <3>4
  <2>7. Cardinality(S \cup T) = 2 ^ n + 2 ^ n
    <3>. HIDE DEF S, T
    <3>1. Cardinality(S \cup T) = Cardinality(S) + Cardinality(T) - Cardinality(S \cap T)
      BY <2>1, <2>4, FS_Union
    <3>2. Cardinality(S \cap T) = 0 /\ Cardinality(S) \in Nat
      BY <2>1, <2>5, FS_EmptySet, FS_CardinalityType
    <3>. QED  BY <2>1, <2>4, <3>1, <3>2
  <2>8. Cardinality(SUBSET (1 .. n + 1)) = 2 ^ (n + 1)
    <3>1. n + 1 \in Nat
      OBVIOUS
    <3>. QED  BY <1>1, <3>1
  <2>9. 2 ^ n \in Nat
    BY <2>1, FS_CardinalityType
  <2>. DEFINE a == 2 ^ n
              b == 2 ^ (n + 1)
  <2>10. a \in Nat /\ b = a + a
    BY <2>6, <2>7, <2>8, <2>9
  <2>. HIDE DEF a, b
  <2>11. b = 2 * a
    BY <2>10
  <2>. QED  BY <2>11 DEF a, b
<1>3. ASSUME NEW n \in Nat  PROVE 2 ^ n \in Nat /\ 2 ^ n >= 1
  <2>1. Cardinality(SUBSET (1 .. n)) \in Nat /\ {} \in SUBSET (1 .. n)
    BY <1>1, FS_CardinalityType
  <2>2. Cardinality(SUBSET (1 .. n)) # 0
    BY <1>1, <2>1, FS_EmptySet
  <2>. DEFINE a == 2 ^ n
  <2>3. a \in Nat /\ a # 0
    BY <1>1, <2>1, <2>2
  <2>. HIDE DEF a
  <2>4. a >= 1
    BY <2>3
  <2>. QED  BY <2>3, <2>4 DEF a
<1>4. 2 ^ 0 = 1
  OBVIOUS
<1>. QED  BY <1>2, <1>3, <1>4

-----------------------------------------------------------------------------
(* The groups that the pages can be cut into *)

Aligned(p, l) == p % 2 ^ l = 0

\* Every page is in one group of each level: the one that begins at Combined.
LEMMA CombinedFacts ==
  ASSUME NEW q \in Nat, NEW j \in Nat
  PROVE  /\ Combined(q, j) \in Nat /\ Aligned(Combined(q, j), j)
         /\ q \in Group(Combined(q, j), j)
         /\ \A r \in Nat : Aligned(r, j) /\ q \in Group(r, j) => r = Combined(q, j)
<1>. DEFINE b == 2 ^ j
            d == q \div b
            m == q % b
<1>1. b \in Nat /\ b >= 1
  BY PowerFacts
<1>2. Combined(q, j) = q - m /\ \A r, s : Aligned(r, s) <=> r % 2 ^ s = 0
  BY DEF Combined, Aligned
<1>3. \A r \in Nat : Group(r, j) = r .. r + b - 1
  BY DEF Group
<1>. HIDE DEF b
<1>4. d \in Nat /\ m \in 0 .. b - 1 /\ q = b * d + m
  BY <1>1, DivisionFacts
<1>. HIDE DEF d, m
<1>5. b * d \in Nat
  BY <1>1, <1>4
<1>6. Combined(q, j) = b * d
  BY <1>1, <1>2, <1>4, <1>5
<1>7. (b * d) % b = 0
  <2>1. b * d = b * d + 0 /\ 0 \in 0 .. b - 1
    BY <1>1, <1>5
  <2>. QED  BY <1>1, <1>4, <1>5, <2>1, DivisionFacts
<1>8. q \in b * d .. b * d + b - 1
  BY <1>1, <1>4, <1>5
<1>9. ASSUME NEW r \in Nat, r % b = 0, q \in r .. r + b - 1  PROVE r = b * d
  <2>1. PICK e \in Nat : r = b * e
    <3>1. r \div b \in Nat /\ r = b * (r \div b) + (r % b) /\ b * (r \div b) \in Nat
      BY <1>1, DivisionFacts
    <3>2. r = b * (r \div b)
      BY <1>9, <3>1
    <3>. QED  BY <3>1, <3>2
  <2>2. q - r \in 0 .. b - 1 /\ q = b * e + (q - r)
    BY <1>1, <1>9, <2>1
  <2>3. q \div b = e
    BY <1>1, <2>2, DivisionFacts
  <2>. QED  BY <2>1, <2>3 DEF d
<1>. QED
  <2>1. Combined(q, j) \in Nat /\ q \in Group(Combined(q, j), j)
    BY <1>3, <1>5, <1>6, <1>8
  <2>2. Aligned(Combined(q, j), j)
    BY <1>2, <1>6, <1>7 DEF b
  <2>3. \A r \in Nat : Aligned(r, j) => r % b = 0
    BY <1>2 DEF b
  <2>. QED  BY <1>3, <1>6, <1>9, <2>1, <2>2, <2>3

\* Combined and PairAt of a level are the halves of the group of the next one.
LEMMA Halves ==
  ASSUME NEW p \in Nat, NEW j \in Nat
  PROVE  /\ PairAt(p, j) \in Nat /\ Aligned(PairAt(p, j), j)
         /\ \/ Combined(p, j) = Combined(p, j + 1) /\ PairAt(p, j) = Combined(p, j + 1) + 2 ^ j
            \/ Combined(p, j) = Combined(p, j + 1) + 2 ^ j /\ PairAt(p, j) = Combined(p, j + 1)
         /\ Group(Combined(p, j + 1), j + 1) = Group(Combined(p, j), j) \cup Group(PairAt(p, j), j)
         /\ Group(Combined(p, j), j) \cap Group(PairAt(p, j), j) = {}
<1>. DEFINE b == 2 ^ j
            bb == 2 ^ (j + 1)
            d == p \div b
            m == p % b
            e == d \div 2
            f == d % 2
<1>1. b \in Nat /\ b >= 1 /\ bb = 2 * b
  BY PowerFacts
<1>2. /\ Combined(p, j) = p - m
      /\ Combined(p, j + 1) = p - (p % bb)
      /\ PairAt(p, j) = IF (Combined(p, j) \div b) % 2 = 0 THEN Combined(p, j) + b ELSE Combined(p, j) - b
  BY DEF Combined, PairAt, Pair
<1>3. \A r \in Nat : Group(r, j) = r .. r + b - 1 /\ Group(r, j + 1) = r .. r + bb - 1
  BY DEF Group
<1>4. \A r \in Nat : Aligned(r, j) <=> r % b = 0
  BY DEF Aligned
<1>. HIDE DEF b, bb
<1>5. d \in Nat /\ m \in 0 .. b - 1 /\ p = b * d + m
  BY <1>1, DivisionFacts
<1>. HIDE DEF d, m
<1>6. e \in Nat /\ f \in 0 .. 1 /\ d = 2 * e + f
  BY <1>5
<1>. DEFINE c == b * e
<1>7. c \in Nat
  BY <1>1, <1>6
<1>8. b * d = 2 * c + b * f
  <2>1. b * d = b * (2 * e) + b * f
    BY <1>1, <1>6
  <2>2. b * (2 * e) = 2 * (b * e)
    BY <1>1, <1>6
  <2>. QED  BY <2>1, <2>2
<1>9. bb * e = 2 * c
  BY <1>1, <1>6
<1>10. b * f = IF f = 0 THEN 0 ELSE b
  BY <1>1, <1>6
<1>. DEFINE bd == b * d
<1>11. bd = IF f = 0 THEN 2 * c ELSE 2 * c + b
  BY <1>1, <1>7, <1>8, <1>10
<1>12. bd \in Nat /\ p = bd + m
  BY <1>1, <1>5
<1>13. bd \div b = d
  <2>1. bd = b * d + 0 /\ 0 \in 0 .. b - 1
    BY <1>1, <1>12
  <2>. QED  BY <1>1, <1>5, <1>12, <2>1, DivisionFacts
<1>14. p % bb = p - 2 * c
  <2>1. p - 2 * c \in 0 .. bb - 1
    BY <1>1, <1>5, <1>6, <1>7, <1>11, <1>12
  <2>2. p = bb * e + (p - 2 * c)
    BY <1>7, <1>9
  <2>3. bb \in Nat /\ bb >= 1
    BY <1>1
  <2>. HIDE DEF c
  <2>4. \A q \in Nat : \A r \in 0 .. bb - 1 : p = bb * q + r => p % bb = r
    BY <2>3, DivisionFacts
  <2>. HIDE DEF e
  <2>. QED  BY <1>6, <2>1, <2>2, <2>4
<1>15. ASSUME NEW k \in Nat  PROVE b * k \in Nat /\ (b * k) % b = 0
  <2>1. b * k = b * k + 0 /\ 0 \in 0 .. b - 1 /\ b * k \in Nat
    BY <1>1
  <2>. QED  BY <1>1, <2>1, DivisionFacts
<1>16. (2 * c) % b = 0 /\ (2 * c + b) % b = 0
  <2>1. 2 * c = b * (2 * e) /\ 2 * c + b = b * (2 * e + 1) /\ 2 * e \in Nat /\ 2 * e + 1 \in Nat
    BY <1>1, <1>6
  <2>. QED  BY <1>15, <2>1
<1>. HIDE DEF c, bd, e, f
<1>17. /\ Combined(p, j) = bd
       /\ Combined(p, j + 1) = 2 * c
       /\ PairAt(p, j) = IF f = 0 THEN bd + b ELSE bd - b
  <2>1. Combined(p, j) = bd /\ Combined(p, j + 1) = 2 * c
    BY <1>2, <1>5, <1>7, <1>12, <1>14, <1>1
  <2>. QED  BY <1>2, <1>13, <2>1 DEF f
<1>18. \/ Combined(p, j) = 2 * c /\ PairAt(p, j) = 2 * c + b
       \/ Combined(p, j) = 2 * c + b /\ PairAt(p, j) = 2 * c
  BY <1>1, <1>6, <1>7, <1>11, <1>17
<1>19. PairAt(p, j) \in Nat /\ Aligned(PairAt(p, j), j)
  BY <1>1, <1>4, <1>7, <1>16, <1>18
<1>20. \/ Combined(p, j) = Combined(p, j + 1) /\ PairAt(p, j) = Combined(p, j + 1) + 2 ^ j
       \/ Combined(p, j) = Combined(p, j + 1) + 2 ^ j /\ PairAt(p, j) = Combined(p, j + 1)
  BY <1>17, <1>18 DEF b
<1>21. /\ Group(2 * c, j) = 2 * c .. 2 * c + b - 1
       /\ Group(2 * c + b, j) = 2 * c + b .. 2 * c + bb - 1
       /\ Group(2 * c, j + 1) = 2 * c .. 2 * c + bb - 1
  BY <1>1, <1>3, <1>7
<1>22. /\ Group(2 * c, j + 1) = Group(2 * c, j) \cup Group(2 * c + b, j)
       /\ Group(2 * c, j) \cap Group(2 * c + b, j) = {}
  BY <1>1, <1>7, <1>21
<1>. QED  BY <1>17, <1>18, <1>19, <1>20, <1>22

\* The groups that a page is in grow with the level.
LEMMA Nested ==
  ASSUME NEW p \in Nat, NEW i \in Nat, NEW j \in Nat, i <= j
  PROVE  Group(Combined(p, i), i) \subseteq Group(Combined(p, j), j)
<1>. DEFINE G(k) == Group(Combined(p, k), k)
            T == {k \in Nat : i <= k /\ ~(G(i) \subseteq G(k))}
<1>1. \A k \in Nat : G(k) \subseteq G(k + 1)
  BY Halves
<1>. HIDE DEF G
<1>2. SUFFICES ASSUME ~(G(i) \subseteq G(j))  PROVE FALSE
  BY DEF G
<1>3. PICK k \in T : \A n \in T : k <= n
  <2>1. T # {} /\ T \in SUBSET Nat
    BY <1>2
  <2>. HIDE DEF T
  <2>. QED  BY <2>1, LeastExists
<1>4. k \in Nat /\ i < k
  BY <1>3
<1>5. k - 1 \in Nat /\ i <= k - 1 /\ k - 1 \notin T /\ (k - 1) + 1 = k
  BY <1>3, <1>4
<1>6. G(i) \subseteq G(k - 1) /\ G(k - 1) \subseteq G(k)
  BY <1>1, <1>5
<1>. QED  BY <1>3, <1>6

\* A group of a level is a group that begins at a page of every lower level.
LEMMA AlignedDown ==
  ASSUME NEW a \in Nat, NEW i \in Nat, NEW j \in Nat, i <= j, Aligned(a, j)
  PROVE  Aligned(a, i) /\ Combined(a, i) = a /\ Combined(a, j) = a
<1>1. ASSUME NEW k \in Nat  PROVE a \in Group(a, k) /\ \A x \in Group(a, k) : x >= a /\ x \in Nat
  BY PowerFacts DEF Group
<1>2. Combined(a, j) = a
  BY <1>1, CombinedFacts
<1>3. Combined(a, i) \in Group(Combined(a, i), i) /\ Combined(a, i) <= a /\ Combined(a, i) \in Nat
  <2>1. Combined(a, i) \in Nat /\ a \in Group(Combined(a, i), i)
    BY CombinedFacts
  <2>2. 2 ^ i \in Nat /\ 2 ^ i >= 1
    BY PowerFacts
  <2>. QED  BY <2>1, <2>2 DEF Group
<1>4. Combined(a, i) \in Group(a, j)
  BY <1>2, <1>3, Nested
<1>5. Combined(a, i) = a
  BY <1>1, <1>3, <1>4
<1>. QED  BY <1>2, <1>5, CombinedFacts

\* Two groups that share a page lie one in the other.
LEMMA Laminar ==
  ASSUME NEW a \in Nat, NEW b \in Nat, NEW i \in Nat, NEW j \in Nat, i <= j,
         Aligned(a, i), Aligned(b, j), NEW x \in Group(a, i), x \in Group(b, j)
  PROVE  Group(a, i) \subseteq Group(b, j) /\ (i = j => a = b)
<1>1. x \in Nat
  BY PowerFacts DEF Group
<1>2. a = Combined(x, i) /\ b = Combined(x, j)
  BY <1>1, CombinedFacts
<1>. QED  BY <1>1, <1>2, Nested

\* The pair of a pair is the group itself, and both are in the same group above.
LEMMA PairTwice ==
  ASSUME NEW p \in Nat, NEW j \in Nat
  PROVE  /\ Combined(PairAt(p, j), j) = PairAt(p, j)
         /\ PairAt(PairAt(p, j), j) = Combined(p, j)
         /\ Combined(PairAt(p, j), j + 1) = Combined(p, j + 1)
         /\ PairAt(p, j) # Combined(p, j)
         /\ PairAt(Combined(p, j), j) = PairAt(p, j)
<1>. DEFINE q == PairAt(p, j)
            b == 2 ^ j
<1>1. b \in Nat /\ b >= 1
  BY PowerFacts
<1>2. q \in Nat /\ Aligned(q, j) /\ q \in Group(q, j)
  <2>1. q \in Nat /\ Aligned(q, j)
    BY Halves
  <2>2. q \in q .. q + b - 1
    BY <1>1, <2>1
  <2>. QED  BY <2>1, <2>2 DEF Group
<1>3. Combined(q, j) = q
  BY <1>2, CombinedFacts
<1>4. q \in Group(Combined(p, j + 1), j + 1)
  BY <1>2, Halves
<1>5. Combined(q, j + 1) = Combined(p, j + 1)
  <2>1. j + 1 \in Nat
    OBVIOUS
  <2>2. Combined(p, j + 1) \in Nat /\ Aligned(Combined(p, j + 1), j + 1)
    BY <2>1, CombinedFacts
  <2>. QED  BY <1>2, <1>4, <2>1, <2>2, CombinedFacts
<1>6. /\ \/ Combined(p, j) = Combined(p, j + 1) /\ q = Combined(p, j + 1) + b
         \/ Combined(p, j) = Combined(p, j + 1) + b /\ q = Combined(p, j + 1)
      /\ \/ Combined(q, j) = Combined(q, j + 1) /\ PairAt(q, j) = Combined(q, j + 1) + b
         \/ Combined(q, j) = Combined(q, j + 1) + b /\ PairAt(q, j) = Combined(q, j + 1)
  BY <1>2, Halves
<1>7. Combined(p, j + 1) \in Nat /\ Combined(p, j) \in Nat /\ Aligned(Combined(p, j), j)
  <2>1. j + 1 \in Nat
    OBVIOUS
  <2>. QED  BY <2>1, CombinedFacts
<1>8. Combined(Combined(p, j), j) = Combined(p, j)
  BY <1>7, AlignedDown
<1>9. PairAt(Combined(p, j), j) = q
  BY <1>8 DEF PairAt
<1>. HIDE DEF b, q
<1>10. PairAt(q, j) = Combined(p, j) /\ q # Combined(p, j)
  BY <1>1, <1>3, <1>5, <1>6, <1>7
<1>. QED  BY <1>3, <1>5, <1>9, <1>10 DEF q

\* The group that a page of the memory is in is in the memory.
LEMMA GroupsFit ==
  ASSUME NEW p \in Page, NEW k \in Level
  PROVE  /\ p \in Nat /\ k \in Nat /\ MAX_BUDDY_ORDER \in Nat
         /\ Group(Combined(p, k), k) \subseteq Page /\ Combined(p, k) \in Page
<1>. DEFINE M == MAX_BUDDY_ORDER
            b == 2 ^ M
            c == Combined(p, M)
<1>1. M \in Nat /\ Groups \in Nat /\ k \in Nat /\ k <= M
  BY ConstantsAssumption DEF Level
<1>2. b \in Nat /\ b >= 1
  BY <1>1, PowerFacts
<1>. HIDE DEF b
<1>3. Page = 0 .. Groups * b - 1
  BY DEF Page, b
<1>4. Groups * b \in Nat
  BY <1>1, <1>2
<1>5. p \in Nat /\ p < Groups * b
  BY <1>3, <1>4
<1>6. c \in Nat /\ Aligned(c, M) /\ p \in Group(c, M)
  BY <1>1, <1>5, CombinedFacts
<1>7. Group(c, M) = c .. c + b - 1 /\ c % b = 0
  BY <1>6 DEF Group, Aligned, b
<1>. HIDE DEF c
<1>8. PICK e \in Nat : c = b * e
  <2>. DEFINE d == c \div b
  <2>1. d \in Nat /\ c = b * d + (c % b)
    BY <1>2, <1>6, DivisionFacts
  <2>. HIDE DEF d
  <2>2. b * d \in Nat
    BY <1>2, <2>1
  <2>3. c = b * d
    BY <1>7, <2>1, <2>2
  <2>. QED  BY <2>1, <2>3
<1>9. e < Groups
  <2>1. SUFFICES ASSUME e >= Groups  PROVE FALSE
    BY <1>1, <1>8
  <2>2. PICK z \in Nat : e = Groups + z
    <3>1. e - Groups \in Nat /\ e = Groups + (e - Groups)
      BY <1>1, <1>8, <2>1
    <3>. QED  BY <3>1
  <2>3. b * e = Groups * b + b * z /\ b * z \in Nat
    BY <1>1, <1>2, <2>2
  <2>4. c <= p
    BY <1>2, <1>5, <1>6, <1>7
  <2>. QED  BY <1>4, <1>5, <1>8, <2>3, <2>4
<1>10. c + b <= Groups * b
  <2>1. PICK z \in Nat : Groups = e + 1 + z
    <3>1. Groups - e - 1 \in Nat /\ Groups = e + 1 + (Groups - e - 1)
      BY <1>1, <1>8, <1>9
    <3>. QED  BY <3>1
  <2>2. Groups * b = b * e + b + b * z /\ b * z \in Nat
    BY <1>1, <1>2, <1>8, <2>1
  <2>. QED  BY <1>2, <1>6, <1>8, <2>2
<1>11. Group(c, M) \subseteq Page
  BY <1>2, <1>3, <1>4, <1>6, <1>7, <1>10
<1>12. Group(Combined(p, k), k) \subseteq Group(c, M)
  BY <1>1, <1>5, Nested DEF c
<1>13. Combined(p, k) \in Group(Combined(p, k), k)
  <2>1. Combined(p, k) \in Nat /\ 2 ^ k \in Nat /\ 2 ^ k >= 1
    BY <1>1, <1>5, CombinedFacts, PowerFacts
  <2>. QED  BY <2>1 DEF Group
<1>. QED  BY <1>1, <1>5, <1>11, <1>12, <1>13

-----------------------------------------------------------------------------
(* Cutting the memory into groups *)

Cells(g) == Group(g.page, g.level)
CellsOf(T) == UNION {Cells(g) : g \in T}
Apart(T) == \A g, h \in T : g # h => Cells(g) \cap Cells(h) = {}
AllAligned(T) == \A g \in T : Aligned(g.page, g.level)

\* The groups of T are a partition of the pages.
Tiling(T) == T \subseteq Parts /\ AllAligned(T) /\ Apart(T) /\ Page \subseteq CellsOf(T)

\* A group of level l and the pairs that it meets on the way to level k.
Pieces(p, l, k) ==
    {[page |-> p, level |-> l]} \cup {[page |-> PairAt(p, j), level |-> j] : j \in l .. k - 1}

\* A group begins with its page.
LEMMA PartFacts ==
  ASSUME NEW g \in Parts
  PROVE  /\ g.page \in Page /\ g.page \in Nat /\ g.level \in Level /\ g.level \in Nat
         /\ g.level <= MAX_BUDDY_ORDER /\ MAX_BUDDY_ORDER \in Nat
         /\ g = [page |-> g.page, level |-> g.level]
         /\ g.page \in Cells(g)
<1>1. PICK p \in Page, l \in Level : g = [page |-> p, level |-> l]
  BY DEF Parts
<1>2. g.page = p /\ g.level = l
  BY <1>1
<1>3. p \in Nat /\ l \in Nat /\ l <= MAX_BUDDY_ORDER /\ MAX_BUDDY_ORDER \in Nat
  BY ConstantsAssumption DEF Page, Level
<1>4. 2 ^ l \in Nat /\ 2 ^ l >= 1
  BY <1>3, PowerFacts
<1>5. p \in Group(p, l)
  BY <1>3, <1>4 DEF Group
<1>. QED  BY <1>1, <1>2, <1>3, <1>5 DEF Cells

\* Groups that are replaced by others on the same pages leave a partition.
LEMMA Replace ==
  ASSUME NEW S, Tiling(S), NEW Old \in SUBSET S, NEW New \in SUBSET Parts,
         AllAligned(New), Apart(New), CellsOf(New) = CellsOf(Old)
  PROVE  /\ Tiling((S \ Old) \cup New)
         /\ \A g \in S \ Old : Cells(g) \cap CellsOf(New) = {}
<1>1. \A g \in S \ Old : Cells(g) \cap CellsOf(New) = {}
  <2>1. ASSUME NEW g \in S \ Old, NEW x \in Cells(g), x \in CellsOf(Old)  PROVE FALSE
    <3>1. PICK h \in Old : x \in Cells(h)
      BY <2>1 DEF CellsOf
    <3>2. g \in S /\ h \in S /\ g # h
      BY <3>1
    <3>. QED  BY <2>1, <3>1, <3>2 DEF Tiling, Apart
  <2>. QED  BY <2>1
<1>2. \A g \in S \ Old : \A h \in New : Cells(g) \cap Cells(h) = {}
  BY <1>1 DEF CellsOf
<1>3. Apart((S \ Old) \cup New)
  <2>1. SUFFICES ASSUME NEW g \in (S \ Old) \cup New, NEW h \in (S \ Old) \cup New, g # h
                 PROVE  Cells(g) \cap Cells(h) = {}
    BY DEF Apart
  <2>2. CASE g \in S \ Old /\ h \in S \ Old
    BY <2>1, <2>2 DEF Tiling, Apart
  <2>3. CASE g \in New /\ h \in New
    BY <2>1, <2>3 DEF Apart
  <2>4. CASE g \in S \ Old /\ h \in New
    BY <1>2, <2>4
  <2>5. CASE g \in New /\ h \in S \ Old
    <3>1. Cells(h) \cap Cells(g) = {}
      BY <1>2, <2>5
    <3>. QED  BY <3>1
  <2>. QED  BY <2>1, <2>2, <2>3, <2>4, <2>5
<1>4. Page \subseteq CellsOf((S \ Old) \cup New)
  <2>1. SUFFICES ASSUME NEW q \in Page  PROVE \E g \in (S \ Old) \cup New : q \in Cells(g)
    BY DEF CellsOf
  <2>2. PICK g \in S : q \in Cells(g)
    BY DEF Tiling, CellsOf
  <2>3. CASE g \in Old
    <3>1. q \in CellsOf(New)
      BY <2>2, <2>3 DEF CellsOf
    <3>. QED  BY <3>1 DEF CellsOf
  <2>4. CASE g \notin Old
    BY <2>2, <2>4
  <2>. QED  BY <2>3, <2>4
<1>5. (S \ Old) \cup New \subseteq Parts /\ AllAligned((S \ Old) \cup New)
  BY DEF Tiling, AllAligned
<1>. QED  BY <1>1, <1>3, <1>4, <1>5 DEF Tiling

\* The pieces are a partition of the group that the merging ends with.
LEMMA PiecesFacts ==
  ASSUME NEW p \in Page, NEW l \in Level, NEW k \in Level, l <= k, Combined(p, l) = p
  PROVE  /\ Pieces(p, l, k) \subseteq Parts
         /\ AllAligned(Pieces(p, l, k))
         /\ Apart(Pieces(p, l, k))
         /\ CellsOf(Pieces(p, l, k)) = Group(Combined(p, k), k)
<1>. DEFINE Fine(n) == /\ Pieces(p, l, n) \subseteq Parts
                       /\ AllAligned(Pieces(p, l, n))
                       /\ Apart(Pieces(p, l, n))
                       /\ CellsOf(Pieces(p, l, n)) = Group(Combined(p, n), n)
            T == {n \in l .. k : ~Fine(n)}
<1>1. p \in Nat /\ l \in Nat /\ k \in Nat /\ MAX_BUDDY_ORDER \in Nat /\ k <= MAX_BUDDY_ORDER
  <2>1. MAX_BUDDY_ORDER \in Nat
    BY ConstantsAssumption
  <2>. QED  BY <2>1, GroupsFit DEF Level
<1>2. Fine(l)
  <2>. DEFINE a == [page |-> p, level |-> l]
  <2>1. Pieces(p, l, l) = {a}
    BY <1>1 DEF Pieces
  <2>2. a \in Parts
    BY DEF Parts
  <2>3. Aligned(p, l)
    BY <1>1, CombinedFacts
  <2>4. Cells(a) = Group(Combined(p, l), l) /\ a.page = p /\ a.level = l
    BY DEF Cells
  <2>. HIDE DEF a
  <2>5. Apart({a}) /\ CellsOf({a}) = Cells(a) /\ AllAligned({a})
    BY <2>3, <2>4 DEF Apart, CellsOf, AllAligned
  <2>. QED  BY <2>1, <2>2, <2>4, <2>5
<1>3. ASSUME NEW n \in l .. k - 1, Fine(n)  PROVE Fine(n + 1)
  <2>. DEFINE a == [page |-> PairAt(p, n), level |-> n]
              S == Pieces(p, l, n)
  <2>1. n \in Nat /\ n \in Level /\ n + 1 \in Level
    BY <1>1 DEF Level
  <2>2. Pieces(p, l, n + 1) = S \cup {a}
    <3>1. l .. (n + 1) - 1 = (l .. n - 1) \cup {n}
      BY <1>1, <2>1
    <3>. QED  BY <3>1 DEF Pieces
  <2>3. /\ PairAt(p, n) \in Nat /\ Aligned(PairAt(p, n), n)
        /\ Group(Combined(p, n + 1), n + 1) = Group(Combined(p, n), n) \cup Group(PairAt(p, n), n)
        /\ Group(Combined(p, n), n) \cap Group(PairAt(p, n), n) = {}
    BY <1>1, <2>1, Halves
  <2>4. Cells(a) = Group(PairAt(p, n), n) /\ a.page = PairAt(p, n) /\ a.level = n
    BY DEF Cells
  <2>5. a \in Parts
    <3>1. 2 ^ n \in Nat /\ 2 ^ n >= 1
      BY <2>1, PowerFacts
    <3>2. PairAt(p, n) \in Group(PairAt(p, n), n)
      BY <2>3, <3>1 DEF Group
    <3>3. PairAt(p, n) \in Page
      BY <2>1, <2>3, <3>2, GroupsFit
    <3>. QED  BY <2>1, <3>3 DEF Parts
  <2>. HIDE DEF a, S
  <2>6. S \subseteq Parts /\ AllAligned(S) /\ Apart(S) /\ CellsOf(S) = Group(Combined(p, n), n)
    BY <1>3 DEF S
  <2>. HIDE DEF Fine
  <2>7. \A g \in S : Cells(g) \cap Cells(a) = {}
    BY <2>3, <2>4, <2>6 DEF CellsOf
  <2>8. Apart(S \cup {a})
    BY <2>6, <2>7 DEF Apart
  <2>9. CellsOf(S \cup {a}) = CellsOf(S) \cup Cells(a)
    BY DEF CellsOf
  <2>10. AllAligned(S \cup {a})
    BY <2>3, <2>4, <2>6 DEF AllAligned
  <2>. QED  BY <2>2, <2>3, <2>4, <2>5, <2>6, <2>8, <2>9, <2>10 DEF Fine
<1>. HIDE DEF Fine
<1>4. SUFFICES ASSUME ~Fine(k)  PROVE FALSE
  BY DEF Fine
<1>5. PICK n \in T : \A i \in T : n <= i
  <2>1. T # {} /\ T \in SUBSET Nat
    BY <1>1, <1>4
  <2>. HIDE DEF T
  <2>. QED  BY <2>1, LeastExists
<1>6. n # l /\ n \in l .. k /\ ~Fine(n)
  BY <1>2, <1>5
<1>7. n - 1 \in l .. k - 1 /\ (n - 1) + 1 = n /\ n - 1 \notin T
  BY <1>1, <1>5, <1>6
<1>8. Fine(n - 1)
  BY <1>1, <1>7
<1>. QED  BY <1>3, <1>6, <1>7, <1>8

-----------------------------------------------------------------------------
(* The invariant *)

PairOf(g) == [page |-> PairAt(g.page, g.level), level |-> g.level]

\* The first page of every group remembers the level.
Starts == \A g \in FreeParts \cup held : bplevel[g.page] = g.level

\* Two free halves of a group do not stay apart.
Merged == \A g \in FreeParts : g.level < MAX_BUDDY_ORDER => PairOf(g) \notin FreeParts

\* No group stands twice in its list, and nr_free counts the list.
Lists == \A l \in Level : IsInjective(freelist[l]) /\ nr_free[l] = Len(freelist[l])

IInv ==
    /\ TypeOK
    /\ Tiling(FreeParts \cup held)
    /\ FreeParts \cap held = {}
    /\ Starts
    /\ Merged
    /\ Lists

\* The free groups are those of the lists.
LEMMA FreePartsFacts ==
  /\ FreeParts \subseteq Parts
  /\ \A p \in Page : \A l \in Level :
        [page |-> p, level |-> l] \in FreeParts <=> p \in Range(freelist[l])
<1>1. \A p \in Page : \A l \in Level : [page |-> p, level |-> l] \in Parts
  BY DEF Parts
<1>. QED  BY <1>1 DEF FreeParts, Listed, ToSet, Range

\* The pair of the pair of a group is the group.
LEMMA PairOfFacts ==
  ASSUME NEW g \in Parts, Aligned(g.page, g.level)
  PROVE  PairOf(PairOf(g)) = g /\ PairOf(g) # g
<1>1. g.page \in Nat /\ g.level \in Nat /\ g = [page |-> g.page, level |-> g.level]
  BY PartFacts
<1>2. Combined(g.page, g.level) = g.page
  BY <1>1, AlignedDown
<1>3. PairAt(PairAt(g.page, g.level), g.level) = g.page /\ PairAt(g.page, g.level) # g.page
  BY <1>1, <1>2, PairTwice
<1>. QED  BY <1>1, <1>3 DEF PairOf

\* e * b for e below n are the multiples of b below n * b.
LEMMA Multiples ==
  ASSUME NEW b \in Nat, b >= 1, NEW n \in Nat, NEW e \in Nat
  PROVE  /\ e * b \in Nat /\ (e * b) % b = 0 /\ (e * b) \div b = e
         /\ e < n <=> e * b < n * b
<1>1. e * b \in Nat /\ n * b \in Nat
  OBVIOUS
<1>. DEFINE p == e * b
<1>2. p \in Nat /\ p = b * e + 0 /\ 0 \in 0 .. b - 1
  BY <1>1
<1>. HIDE DEF p
<1>3. p % b = 0 /\ p \div b = e
  BY <1>2, DivisionFacts
<1>4. ASSUME e < n  PROVE e * b < n * b
  <2>1. n - e - 1 \in Nat /\ n = e + 1 + (n - e - 1)
    BY <1>4
  <2>2. PICK z \in Nat : n = e + 1 + z
    BY <2>1
  <2>3. n * b = e * b + b + z * b /\ z * b \in Nat
    BY <2>2
  <2>. QED  BY <1>1, <2>3
<1>5. ASSUME ~(e < n)  PROVE ~(e * b < n * b)
  <2>1. e - n \in Nat /\ e = n + (e - n)
    BY <1>5
  <2>2. PICK z \in Nat : e = n + z
    BY <2>1
  <2>3. e * b = n * b + z * b /\ z * b \in Nat
    BY <2>2
  <2>. QED  BY <1>1, <2>3
<1>. QED  BY <1>1, <1>3, <1>4, <1>5 DEF p

\* After init_buddy every group of the highest level is free.
LEMMA InitIInv == Init => IInv
<1>. SUFFICES ASSUME Init  PROVE IInv
  OBVIOUS
<1>. DEFINE M == MAX_BUDDY_ORDER
            b == 2 ^ M
            s == [i \in 1 .. Groups |-> (i - 1) * b]
<1>1. M \in Nat /\ Groups \in Nat /\ M \in Level
  BY ConstantsAssumption DEF Level
<1>2. b \in Nat /\ b >= 1
  BY <1>1, PowerFacts
<1>3. /\ Page = 0 .. Groups * b - 1
      /\ GroupPages = {p \in Page : p % b = 0}
      /\ \A p : Aligned(p, M) <=> p % b = 0
  BY DEF Page, GroupPages, Aligned
<1>4. /\ bplevel = [p \in Page |-> IF p \in GroupPages THEN M ELSE -1]
      /\ freelist = [l \in Level |-> IF l = M THEN Reverse(s) ELSE <<>>]
      /\ nr_free = [l \in Level |-> IF l = M THEN Groups ELSE 0]
      /\ held = {} /\ answer = None
  BY DEF Init
<1>. HIDE DEF b
<1>5. Groups * b \in Nat
  BY <1>1, <1>2
<1>6. ASSUME NEW i \in 1 .. Groups  PROVE (i - 1) * b \in GroupPages
  <2>1. i - 1 \in Nat /\ i - 1 < Groups
    BY <1>1
  <2>2. (i - 1) * b \in Nat /\ ((i - 1) * b) % b = 0 /\ (i - 1) * b < Groups * b
    BY <1>1, <1>2, <2>1, Multiples
  <2>. QED  BY <1>3, <1>5, <2>2
<1>7. ASSUME NEW p \in GroupPages  PROVE \E i \in 1 .. Groups : (i - 1) * b = p
  <2>. DEFINE e == p \div b
  <2>1. p \in Nat /\ p % b = 0 /\ p < Groups * b
    BY <1>3, <1>5
  <2>2. e \in Nat /\ p = b * e + (p % b)
    BY <1>2, <2>1, DivisionFacts
  <2>. HIDE DEF e
  <2>3. b * e = e * b /\ e * b \in Nat
    BY <1>2, <2>2
  <2>4. p = e * b
    BY <2>1, <2>2, <2>3
  <2>5. e < Groups
    BY <1>1, <1>2, <2>1, <2>2, <2>4, Multiples
  <2>6. e + 1 \in 1 .. Groups /\ (e + 1) - 1 = e
    BY <1>1, <2>2, <2>5
  <2>. QED  BY <2>4, <2>6
<1>8. s \in Seq(Page) /\ Len(s) = Groups
  <2>1. s \in [1 .. Groups -> Page]
    BY <1>3, <1>6
  <2>. HIDE DEF s
  <2>. QED  BY <1>1, <2>1, SeqDef, LenProperties
<1>9. DOMAIN s = 1 .. Groups /\ \A i \in 1 .. Groups : s[i] = (i - 1) * b
  OBVIOUS
<1>10. IsInjective(s)
  <2>1. SUFFICES ASSUME NEW i \in 1 .. Groups, NEW j \in 1 .. Groups, s[i] = s[j]  PROVE i = j
    BY <1>9 DEF IsInjective
  <2>2. i - 1 \in Nat /\ j - 1 \in Nat /\ i \in Nat /\ j \in Nat
    BY <1>1
  <2>3. ((i - 1) * b) \div b = i - 1 /\ ((j - 1) * b) \div b = j - 1
    BY <1>1, <1>2, <2>2, Multiples
  <2>4. (i - 1) * b = (j - 1) * b
    BY <1>9, <2>1
  <2>5. i - 1 = j - 1
    BY <2>3, <2>4
  <2>. QED  BY <2>2, <2>5
<1>11. Range(s) = GroupPages
  BY <1>6, <1>7, <1>9 DEF Range
<1>. HIDE DEF s
<1>12. /\ Reverse(s) \in Seq(Page) /\ Len(Reverse(s)) = Groups
       /\ Range(Reverse(s)) = GroupPages /\ IsInjective(Reverse(s))
  BY <1>8, <1>10, <1>11, ReverseFacts
<1>13. Range(<<>>) = {} /\ <<>> \in Seq(Page) /\ Len(<<>>) = 0 /\ IsInjective(<<>>)
  BY DEF Range, IsInjective
<1>14. TypeOK
  <2>1. bplevel \in [Page -> Level \cup {-1}]
    BY <1>1, <1>4
  <2>2. freelist \in [Level -> Seq(Page)]
    BY <1>4, <1>12, <1>13
  <2>3. nr_free \in [Level -> Int]
    BY <1>1, <1>4
  <2>. QED  BY <1>4, <2>1, <2>2, <2>3 DEF TypeOK
<1>15. Lists
  BY <1>4, <1>12, <1>13 DEF Lists
<1>16. \A p \in Page : \A l \in Level : p \in Range(freelist[l]) <=> l = M /\ p \in GroupPages
  BY <1>4, <1>12, <1>13
<1>17. \A g \in FreeParts : g \in Parts /\ g.level = M /\ g.page \in GroupPages
  <2>1. SUFFICES ASSUME NEW g \in FreeParts  PROVE g.level = M /\ g.page \in GroupPages
    BY FreePartsFacts
  <2>2. g \in Parts /\ g.page \in Page /\ g.level \in Level
    BY FreePartsFacts, PartFacts
  <2>3. g = [page |-> g.page, level |-> g.level]
    BY <2>2, PartFacts
  <2>4. g.page \in Range(freelist[g.level])
    BY <2>2, <2>3, FreePartsFacts
  <2>. QED  BY <1>16, <2>2, <2>4
<1>18. \A p \in GroupPages : [page |-> p, level |-> M] \in FreeParts
  BY <1>1, <1>3, <1>16, FreePartsFacts
<1>19. Tiling(FreeParts)
  <2>1. AllAligned(FreeParts)
    BY <1>3, <1>17 DEF AllAligned
  <2>2. Apart(FreeParts)
    <3>1. SUFFICES ASSUME NEW g \in FreeParts, NEW h \in FreeParts,
                          NEW x \in Cells(g), x \in Cells(h)
                   PROVE  g = h
      BY DEF Apart
    <3>2. /\ g.page \in Nat /\ g = [page |-> g.page, level |-> M] /\ Aligned(g.page, M)
          /\ h.page \in Nat /\ h = [page |-> h.page, level |-> M] /\ Aligned(h.page, M)
      BY <1>17, <2>1, PartFacts DEF AllAligned
    <3>3. x \in Group(g.page, M) /\ x \in Group(h.page, M)
      BY <1>17, <3>1 DEF Cells
    <3>4. g.page = h.page
      BY <1>1, <3>2, <3>3, Laminar
    <3>. QED  BY <3>2, <3>4
  <2>3. ASSUME NEW q \in Page  PROVE q \in CellsOf(FreeParts)
    <3>. DEFINE g == [page |-> Combined(q, M), level |-> M]
    <3>1. q \in Nat /\ Combined(q, M) \in Page
      BY <1>1, GroupsFit
    <3>2. Aligned(Combined(q, M), M) /\ q \in Group(Combined(q, M), M)
      BY <1>1, <3>1, CombinedFacts
    <3>3. g \in FreeParts
      BY <1>3, <1>18, <3>1, <3>2
    <3>4. q \in Cells(g)
      BY <3>2 DEF Cells
    <3>. QED  BY <3>3, <3>4 DEF CellsOf
  <2>. QED  BY <1>17, <2>1, <2>2, <2>3 DEF Tiling
<1>20. Starts
  <2>1. \A p \in GroupPages : p \in Page
    BY <1>3
  <2>. QED  BY <1>4, <1>17, <2>1 DEF Starts
<1>21. Merged
  BY <1>1, <1>17 DEF Merged
<1>22. FreeParts \cup held = FreeParts /\ FreeParts \cap held = {}
  BY <1>4
<1>. QED  BY <1>14, <1>15, <1>19, <1>20, <1>21, <1>22 DEF IInv

-----------------------------------------------------------------------------
(* __alloc_pages *)

\* 2 ^ n is more than n, so every request has a level.
LEMMA BpLevelFacts ==
  ASSUME NEW n \in Nat
  PROVE  BpLevel(n) \in Nat
<1>. DEFINE T == {l \in Nat : ~(2 ^ l >= l)}
            U == {l \in 0 .. n : 2 ^ l >= n}
<1>1. \A l \in Nat : 2 ^ l >= l
  <2>1. SUFFICES ASSUME T # {}  PROVE FALSE
    OBVIOUS
  <2>2. PICK l \in T : \A k \in T : l <= k
    <3>1. T \in SUBSET Nat
      OBVIOUS
    <3>. HIDE DEF T
    <3>. QED  BY <2>1, <3>1, LeastExists
  <2>3. l # 0
    BY <2>2, PowerFacts
  <2>4. l - 1 \in Nat /\ l - 1 \notin T /\ (l - 1) + 1 = l
    BY <2>2, <2>3
  <2>. DEFINE a == 2 ^ (l - 1)
  <2>5. a \in Nat /\ a >= 1 /\ a >= l - 1 /\ 2 ^ l = 2 * a
    BY <2>4, PowerFacts
  <2>. HIDE DEF a
  <2>6. 2 ^ l >= l
    BY <2>2, <2>5
  <2>. QED  BY <2>2, <2>6
<1>2. PICK l \in U : \A k \in U : l <= k
  <2>1. U \in SUBSET Nat /\ n \in U
    BY <1>1
  <2>. HIDE DEF U
  <2>. QED  BY <2>1, LeastExists
<1>3. \A k \in 0 .. l - 1 : 2 ^ k < n
  <2>1. ASSUME NEW k \in 0 .. l - 1  PROVE 2 ^ k < n
    <3>1. k \in 0 .. n /\ k \notin U /\ k \in Nat
      BY <1>2, <2>1
    <3>2. 2 ^ k \in Nat /\ ~(2 ^ k >= n)
      BY <3>1, PowerFacts
    <3>. QED  BY <3>2
  <2>. QED  BY <2>1
<1>4. \E m \in 0 .. n : 2 ^ m >= n /\ \A k \in 0 .. m - 1 : 2 ^ k < n
  BY <1>2, <1>3
<1>5. BpLevel(n) \in 0 .. n
  BY <1>4 DEF BpLevel
<1>. QED  BY <1>5

\* The pair of a free group's lower part is 2 ^ j pages behind its beginning.
LEMMA UpperHalves ==
  ASSUME NEW p \in Nat, NEW c \in Nat, Aligned(p, c), NEW j \in Nat, j < c
  PROVE  PairAt(p, j) = p + 2 ^ j /\ Combined(p, j) = p
<1>1. j + 1 \in Nat /\ j + 1 <= c
  OBVIOUS
<1>2. Combined(p, j + 1) = p /\ Combined(p, j) = p
  BY <1>1, AlignedDown
<1>3. 2 ^ j \in Nat /\ 2 ^ j >= 1
  BY PowerFacts
<1>4. \/ Combined(p, j) = Combined(p, j + 1) /\ PairAt(p, j) = Combined(p, j + 1) + 2 ^ j
      \/ Combined(p, j) = Combined(p, j + 1) + 2 ^ j /\ PairAt(p, j) = Combined(p, j + 1)
  BY Halves
<1>. DEFINE a == 2 ^ j
<1>5. a \in Nat /\ a >= 1 /\ (p = p + a => FALSE)
  <2>1. a \in Nat /\ a >= 1
    BY <1>3
  <2>. HIDE DEF a
  <2>. QED  BY <2>1
<1>. QED  BY <1>2, <1>4, <1>5

\* What an alloc_pages that succeeds does with the free group g: it is cut up, its
\* first piece goes to the caller and the others to the lists.
Allocated(g, l) ==
    LET top == [page |-> g.page, level |-> l]
        cut == Pieces(g.page, l, g.level)
    IN  /\ g \in FreeParts /\ l \in Level /\ l <= g.level
        /\ FreeParts' = (FreeParts \ {g}) \cup (cut \ {top})
        /\ held' = held \cup {top}
        /\ answer' = g.page
        /\ \A h \in cut : bplevel'[h.page] = h.level
        /\ \A q \in Page \ CellsOf(cut) : bplevel'[q] = bplevel[q]
        /\ TypeOK'
        /\ Lists'

\* What __alloc_pages does is Allocated.
LEMMA AllocFacts ==
  ASSUME IInv, NEW n \in Nat, Alloc(n)
  PROVE  \E g \in FreeParts : Allocated(g, BpLevel(n))
<1>. DEFINE l == BpLevel(n)
            c == CHOOSE k \in Usable(l) : \A i \in Usable(l) : k <= i
            p == Head(freelist[c])
            g == [page |-> p, level |-> c]
            top == [page |-> p, level |-> l]
            cut == Pieces(p, l, c)
<1>1. n \in Nat /\ l \in Nat /\ MAX_BUDDY_ORDER \in Nat
  BY ConstantsAssumption, BpLevelFacts
<1>2. /\ Usable(l) # {}
      /\ freelist' = Split(p, l, c)
      /\ bplevel' = Taken(p, l, c)
      /\ nr_free' = [j \in Level |-> CASE j = c            -> nr_free[j] - 1
                                       [] j \in l .. c - 1 -> nr_free[j] + 1
                                       [] OTHER            -> nr_free[j]]
      /\ held' = held \cup {top}
      /\ answer' = p
  BY DEF Alloc
<1>. HIDE DEF l
<1>3. c \in Usable(l)
  <2>1. Usable(l) \in SUBSET Nat
    BY <1>1 DEF Usable
  <2>2. \E k \in Usable(l) : \A i \in Usable(l) : k <= i
    BY <1>2, <2>1, LeastExists
  <2>. QED  BY <2>2
<1>. HIDE DEF c
<1>4. c \in Nat /\ c \in Level /\ l \in Level /\ l <= c /\ c <= MAX_BUDDY_ORDER /\ freelist[c] # <<>>
  BY <1>1, <1>3 DEF Usable, Level
<1>5. \A j \in Level : freelist[j] \in Seq(Page) /\ IsInjective(freelist[j]) /\ nr_free[j] = Len(freelist[j])
  BY DEF IInv, TypeOK, Lists
<1>6. /\ p \in Range(freelist[c]) /\ p \in Page
      /\ Tail(freelist[c]) \in Seq(Page) /\ Len(Tail(freelist[c])) = Len(freelist[c]) - 1
      /\ Range(Tail(freelist[c])) = Range(freelist[c]) \ {p}
      /\ IsInjective(Tail(freelist[c]))
  BY <1>4, <1>5, TailFacts
<1>. HIDE DEF p
<1>7. g \in FreeParts /\ g \in Parts /\ p \in Nat
  BY <1>4, <1>6, FreePartsFacts, GroupsFit
<1>8. Aligned(p, c)
  BY <1>7 DEF IInv, Tiling, AllAligned
<1>9. Combined(p, l) = p /\ Combined(p, c) = p
  BY <1>1, <1>4, <1>7, <1>8, AlignedDown
<1>10. \A j \in l .. c - 1 : PairAt(p, j) = p + 2 ^ j /\ j \in Level /\ j \in Nat /\ j # c
  BY <1>1, <1>4, <1>7, <1>8, UpperHalves DEF Level
<1>11. cut \subseteq Parts /\ Apart(cut) /\ CellsOf(cut) = Group(p, c)
  BY <1>4, <1>6, <1>9, PiecesFacts
<1>12. cut = {top} \cup {[page |-> PairAt(p, j), level |-> j] : j \in l .. c - 1}
  BY DEF Pieces
<1>13. CellsOf(cut) = Cells(g)
  BY <1>11 DEF Cells
<1>14. \A h, k \in cut : h.page = k.page => h = k
  <2>1. SUFFICES ASSUME NEW h \in cut, NEW k \in cut, h.page = k.page  PROVE h = k
    OBVIOUS
  <2>. HIDE DEF cut
  <2>2. h.page \in Cells(h) /\ k.page \in Cells(k)
    BY <1>11, PartFacts
  <2>. QED  BY <1>11, <2>1, <2>2 DEF Apart
<1>. HIDE DEF cut
<1>15. \A h \in cut : h.page \in Page /\ h.level \in Level /\ h.page \in Cells(g)
  <2>1. SUFFICES ASSUME NEW h \in cut  PROVE h.page \in Page /\ h.level \in Level /\ h.page \in Cells(g)
    OBVIOUS
  <2>2. h.page \in Page /\ h.level \in Level /\ h.page \in Cells(h)
    BY <1>11, PartFacts
  <2>. QED  BY <1>13, <2>2 DEF CellsOf
<1>16. \A j \in l .. c - 1 : PairAt(p, j) \in Page /\ PairAt(p, j) \notin Range(freelist[j])
  <2>1. SUFFICES ASSUME NEW j \in l .. c - 1
                 PROVE  PairAt(p, j) \in Page /\ PairAt(p, j) \notin Range(freelist[j])
    OBVIOUS
  <2>. DEFINE h == [page |-> PairAt(p, j), level |-> j]
  <2>2. h \in cut
    BY <1>12
  <2>3. PairAt(p, j) \in Page /\ PairAt(p, j) \in Cells(g)
    BY <1>15, <2>2
  <2>4. ASSUME PairAt(p, j) \in Range(freelist[j])  PROVE FALSE
    <3>1. h \in FreeParts /\ h # g /\ h \in Parts
      BY <1>10, <2>3, <2>4, FreePartsFacts
    <3>2. PairAt(p, j) \in Cells(h)
      BY <3>1, PartFacts
    <3>. QED  BY <1>7, <2>3, <3>1, <3>2 DEF IInv, Tiling, Apart
  <2>. QED  BY <2>3, <2>4
<1>17. ASSUME NEW j \in Level
       PROVE  /\ freelist'[j] \in Seq(Page) /\ IsInjective(freelist'[j])
              /\ nr_free'[j] = Len(freelist'[j])
              /\ Range(freelist'[j]) =
                     IF j = c THEN Range(freelist[j]) \ {p}
                     ELSE IF j \in l .. c - 1 THEN Range(freelist[j]) \cup {PairAt(p, j)}
                          ELSE Range(freelist[j])
  <2>1. CASE j = c
    <3>1. freelist'[j] = Tail(freelist[c]) /\ nr_free'[j] = nr_free[c] - 1
      BY <1>2, <2>1 DEF Split
    <3>. QED  BY <1>5, <1>6, <2>1, <3>1
  <2>2. CASE j \in l .. c - 1
    <3>. DEFINE x == PairAt(p, j)
    <3>1. freelist'[j] = <<x>> \o freelist[j] /\ nr_free'[j] = nr_free[j] + 1
      BY <1>2, <1>10, <2>2 DEF Split
    <3>2. x \in Page /\ x \notin Range(freelist[j]) /\ j # c
      BY <1>10, <1>16, <2>2
    <3>. HIDE DEF x
    <3>3. /\ <<x>> \o freelist[j] \in Seq(Page) /\ Len(<<x>> \o freelist[j]) = Len(freelist[j]) + 1
          /\ Range(<<x>> \o freelist[j]) = Range(freelist[j]) \cup {x}
          /\ IsInjective(<<x>> \o freelist[j])
      BY <1>5, <3>2, PrependFacts
    <3>4. Range(freelist'[j]) = Range(freelist[j]) \cup {x}
      BY <3>1, <3>3
    <3>. QED  BY <1>5, <2>2, <3>1, <3>2, <3>3, <3>4 DEF x
  <2>3. CASE j # c /\ j \notin l .. c - 1
    <3>1. freelist'[j] = freelist[j] /\ nr_free'[j] = nr_free[j]
      BY <1>2, <2>3 DEF Split
    <3>. QED  BY <1>5, <2>3, <3>1
  <2>. QED  BY <2>1, <2>2, <2>3
<1>18. Lists'
  BY <1>17 DEF Lists
<1>19. /\ \A h \in cut : bplevel'[h.page] = h.level
       /\ \A q \in Page \ CellsOf(cut) : bplevel'[q] = bplevel[q]
       /\ bplevel' \in [Page -> Level \cup {-1}]
  <2>. DEFINE At(q) == \E j \in l .. c - 1 : q = p + 2 ^ j
              Where(q) == CHOOSE j \in l .. c - 1 : q = p + 2 ^ j
  <2>1. bplevel' = [q \in Page |-> IF q = p THEN l ELSE IF At(q) THEN Where(q) ELSE bplevel[q]]
    BY <1>2 DEF Taken
  <2>2. \A q \in Page : At(q) => /\ Where(q) \in l .. c - 1
                                 /\ [page |-> q, level |-> Where(q)] \in cut
    <3>1. SUFFICES ASSUME NEW q \in Page, At(q)
                   PROVE  Where(q) \in l .. c - 1 /\ [page |-> q, level |-> Where(q)] \in cut
      OBVIOUS
    <3>2. Where(q) \in l .. c - 1 /\ q = p + 2 ^ Where(q)
      BY <3>1
    <3>. HIDE DEF Where
    <3>. QED  BY <1>10, <1>12, <3>2
  <2>3. ASSUME NEW h \in cut  PROVE bplevel'[h.page] = h.level
    <3>1. h.page \in Page
      BY <1>15
    <3>2. CASE h = top
      BY <2>1, <3>1, <3>2
    <3>3. CASE h # top
      <4>1. h.page # p
        BY <1>12, <1>14, <3>3
      <4>2. At(h.page)
        BY <1>10, <1>12, <3>3
      <4>3. [page |-> h.page, level |-> Where(h.page)] \in cut
        BY <2>2, <3>1, <4>2
      <4>. HIDE DEF At, Where
      <4>4. h.level = Where(h.page)
        BY <1>14, <4>3
      <4>. QED  BY <2>1, <3>1, <4>1, <4>2, <4>4
    <3>. QED  BY <3>2, <3>3
  <2>4. ASSUME NEW q \in Page \ CellsOf(cut)  PROVE bplevel'[q] = bplevel[q]
    <3>1. \A h \in cut : h.page # q
      BY <1>13, <1>15, <2>4
    <3>2. q # p
      <4>1. top \in cut /\ top.page = p
        BY <1>12
      <4>. QED  BY <3>1, <4>1
    <3>. HIDE DEF At, Where
    <3>3. ~At(q)
      BY <2>2, <3>1
    <3>. QED  BY <2>1, <3>2, <3>3
  <2>5. \A q \in Page : At(q) => Where(q) \in Level
    BY <1>10, <2>2
  <2>. HIDE DEF At, Where
  <2>6. bplevel \in [Page -> Level \cup {-1}]
    BY DEF IInv, TypeOK
  <2>7. bplevel' \in [Page -> Level \cup {-1}]
    BY <1>4, <2>1, <2>5, <2>6
  <2>. QED  BY <2>3, <2>4, <2>7
<1>20. TypeOK'
  <2>1. freelist' \in [Level -> Seq(Page)] /\ nr_free' \in [Level -> Int]
    <3>1. \A j \in Level : Len(freelist'[j]) \in Int
      BY <1>17, LenProperties
    <3>2. freelist' = [j \in Level |-> freelist'[j]]
      BY <1>2 DEF Split
    <3>3. nr_free' = [j \in Level |-> nr_free'[j]]
      BY <1>2
    <3>. QED  BY <1>17, <3>1, <3>2, <3>3
  <2>2. top \in [page : Page, level : Level]
    BY <1>4, <1>6
  <2>3. held' \subseteq [page : Page, level : Level] /\ answer' \in Page \cup {None}
    BY <1>2, <1>6, <2>2 DEF IInv, TypeOK
  <2>. QED  BY <1>19, <2>1, <2>3 DEF TypeOK
<1>21. FreeParts' = (FreeParts \ {g}) \cup (cut \ {top})
  <2>1. FreeParts' = {h \in Parts : h.page \in Range(freelist'[h.level])}
    BY DEF FreeParts, Listed, ToSet, Range
  <2>2. FreeParts = {h \in Parts : h.page \in Range(freelist[h.level])}
    BY DEF FreeParts, Listed, ToSet, Range
  <2>3. \A h \in cut : h \in Parts
    BY <1>11
  <2>4. ASSUME NEW h \in Parts
        PROVE  h \in FreeParts' <=> h \in (FreeParts \ {g}) \cup (cut \ {top})
    <3>1. h.page \in Page /\ h.level \in Level /\ h = [page |-> h.page, level |-> h.level]
      BY PartFacts
    <3>2. h = g <=> h.level = c /\ h.page = p
      BY <3>1
    <3>3. h \in cut \ {top} <=> h.level \in l .. c - 1 /\ h.page = PairAt(p, h.level)
      <4>1. \A j \in l .. c - 1 : PairAt(p, j) # p
        <5>1. \A j \in l .. c - 1 : 2 ^ j \in Nat /\ 2 ^ j >= 1
          BY <1>10, PowerFacts
        <5>. QED  BY <1>7, <1>10, <5>1
      <4>. QED  BY <1>12, <3>1, <4>1
    <3>4. CASE h.level = c
      <4>1. c \notin l .. c - 1
        BY <1>10
      <4>2. Range(freelist'[c]) = Range(freelist[c]) \ {p}
        BY <1>4, <1>17
      <4>. QED  BY <2>1, <2>2, <3>2, <3>3, <3>4, <4>1, <4>2
    <3>5. CASE h.level \in l .. c - 1
      <4>1. Range(freelist'[h.level]) = Range(freelist[h.level]) \cup {PairAt(p, h.level)} /\ h.level # c
        BY <1>10, <1>17, <3>5
      <4>. QED  BY <2>1, <2>2, <3>2, <3>3, <3>5, <4>1
    <3>6. CASE h.level # c /\ h.level \notin l .. c - 1
      <4>1. Range(freelist'[h.level]) = Range(freelist[h.level])
        BY <1>17, <3>1, <3>6
      <4>. QED  BY <2>1, <2>2, <3>2, <3>3, <3>6, <4>1
    <3>. QED  BY <3>4, <3>5, <3>6
  <2>. QED  BY <2>1, <2>2, <2>3, <2>4
<1>22. Allocated(g, l)
  <2>1. g.page = p /\ g.level = c
    OBVIOUS
  <2>. HIDE DEF g
  <2>. QED  BY <1>2, <1>4, <1>7, <1>18, <1>19, <1>20, <1>21, <2>1 DEF Allocated, cut
<1>. QED  BY <1>7, <1>22 DEF l

\* Cutting up a free group keeps the invariant.
LEMMA AllocatedIInv ==
  ASSUME IInv, NEW g \in FreeParts, NEW l \in Level, Allocated(g, l)
  PROVE  IInv'
<1>. DEFINE top == [page |-> g.page, level |-> l]
            cut == Pieces(g.page, l, g.level)
            S == FreeParts \cup held
            F == FreeParts'
            H == held'
<1>1. /\ l <= g.level
      /\ F = (FreeParts \ {g}) \cup (cut \ {top})
      /\ H = held \cup {top}
      /\ \A h \in cut : bplevel'[h.page] = h.level
      /\ \A q \in Page \ CellsOf(cut) : bplevel'[q] = bplevel[q]
      /\ TypeOK'
      /\ Lists'
  BY DEF Allocated
<1>2. Tiling(S) /\ FreeParts \cap held = {} /\ Starts /\ Merged
  BY DEF IInv
<1>3. /\ g \in Parts /\ g.page \in Page /\ g.page \in Nat /\ g.level \in Level /\ g.level \in Nat
      /\ Aligned(g.page, g.level) /\ l \in Nat /\ MAX_BUDDY_ORDER \in Nat /\ g.page \in Cells(g)
  BY <1>2, PartFacts, ConstantsAssumption DEF Tiling, AllAligned, Level
<1>4. Combined(g.page, l) = g.page /\ Combined(g.page, g.level) = g.page
  BY <1>1, <1>3, AlignedDown
<1>5. cut \subseteq Parts /\ AllAligned(cut) /\ Apart(cut) /\ CellsOf(cut) = CellsOf({g})
  <2>1. CellsOf({g}) = Group(g.page, g.level)
    BY DEF CellsOf, Cells
  <2>. QED  BY <1>1, <1>3, <1>4, <2>1, PiecesFacts
<1>6. top \in cut /\ cut = {top} \cup {[page |-> PairAt(g.page, j), level |-> j] : j \in l .. g.level - 1}
  BY DEF Pieces
<1>7. top.page = g.page
  OBVIOUS
<1>. HIDE DEF cut, S, top, F, H
<1>8. Tiling((S \ {g}) \cup cut) /\ \A h \in S \ {g} : Cells(h) \cap CellsOf(cut) = {}
  <2>1. {g} \in SUBSET S
    BY DEF S
  <2>. QED  BY <1>2, <1>5, <2>1, Replace
<1>9. \A h \in S : h \in Parts /\ h.page \in Page /\ h.page \in Cells(h)
  BY <1>2, PartFacts DEF Tiling
<1>10. \A h \in cut : h.page \in Cells(h) /\ Cells(h) \subseteq CellsOf(cut)
  BY <1>5, PartFacts DEF CellsOf
<1>11. \A h \in S \ {g} : h \notin cut /\ h.page \notin CellsOf(cut) /\ h.page \in Page
  BY <1>8, <1>9, <1>10
<1>12. F \cup H = (S \ {g}) \cup cut
  BY <1>1, <1>2, <1>6 DEF S
<1>13. F \cap H = {}
  BY <1>1, <1>2, <1>6, <1>11 DEF S
<1>14. \A h \in F \cup H : bplevel'[h.page] = h.level
  <2>1. SUFFICES ASSUME NEW h \in F \cup H, h \notin cut  PROVE bplevel'[h.page] = h.level
    BY <1>1
  <2>2. h \in S \ {g}
    BY <1>12, <2>1
  <2>3. bplevel'[h.page] = bplevel[h.page]
    BY <1>1, <1>11, <2>2
  <2>. QED  BY <1>2, <2>2, <2>3 DEF Starts, S
<1>15. ASSUME NEW h \in cut \ {top}  PROVE PairOf(h) \notin F
  <2>1. PICK j \in l .. g.level - 1 : h = [page |-> PairAt(g.page, j), level |-> j]
    BY <1>6
  <2>2. j \in Nat /\ j <= g.level
    BY <1>3
  <2>3. PairOf(h) = [page |-> g.page, level |-> j]
    <3>1. Combined(g.page, j) = g.page
      BY <1>3, <2>2, AlignedDown
    <3>2. PairAt(PairAt(g.page, j), j) = g.page
      BY <1>3, <2>2, <3>1, PairTwice
    <3>. QED  BY <2>1, <3>2 DEF PairOf
  <2>4. SUFFICES ASSUME PairOf(h) \in F  PROVE FALSE
    OBVIOUS
  <2>5. PairOf(h) \in Parts /\ PairOf(h) \in (S \ {g}) \cup cut
    BY <1>8, <1>12, <2>4 DEF Tiling
  <2>6. g.page \in Cells(PairOf(h)) /\ g.page \in Cells(top)
    BY <1>7, <1>6, <1>10, <2>3, <2>5, PartFacts
  <2>7. PairOf(h) = top
    BY <1>6, <1>8, <2>5, <2>6 DEF Tiling, Apart
  <2>. QED  BY <1>1, <1>13, <2>4, <2>7
<1>16. \A h \in F : h.level < MAX_BUDDY_ORDER => PairOf(h) \notin F
  <2>1. SUFFICES ASSUME NEW h \in F, h.level < MAX_BUDDY_ORDER, PairOf(h) \in F  PROVE FALSE
    OBVIOUS
  <2>2. h \notin cut \ {top}
    BY <1>15, <2>1
  <2>3. PairOf(h) \notin cut \ {top}
    <3>1. h \in Parts /\ Aligned(h.page, h.level)
      BY <1>8, <1>12, <2>1 DEF Tiling, AllAligned
    <3>2. PairOf(PairOf(h)) = h
      BY <3>1, PairOfFacts
    <3>. QED  BY <1>15, <2>1, <3>2
  <2>. QED  BY <1>1, <1>2, <2>1, <2>2, <2>3 DEF Merged
<1>17. Tiling(FreeParts' \cup held') /\ FreeParts' \cap held' = {} /\ Starts' /\ Merged'
  BY <1>8, <1>12, <1>13, <1>14, <1>16 DEF F, H, Starts, Merged, PairOf, Pair, PairAt, Combined
<1>18. Tiling(FreeParts \cup held)'
  BY <1>17 DEF Tiling, Parts, Page, Level, AllAligned, Aligned, Apart, Cells, CellsOf, Group
<1>. QED  BY <1>1, <1>17, <1>18 DEF IInv

-----------------------------------------------------------------------------
(* __free_pages *)

\* A pair that remembers the level is a group of its own: the page in the middle of
\* a group is never what _is_same_bplevel looks at.
LEMMA PairStands ==
  ASSUME IInv, NEW h \in FreeParts \cup held, NEW j \in Nat,
         h.level <= j, j < MAX_BUDDY_ORDER, Same(h.page, j)
  PROVE  [page |-> PairAt(h.page, j), level |-> j] \in FreeParts \cup held
<1>. DEFINE S == FreeParts \cup held
            p == h.page
            q == PairAt(p, j)
<1>1. Tiling(S) /\ Starts /\ h \in S
  BY DEF IInv
<1>. HIDE DEF S
<1>2. /\ h \in Parts /\ p \in Page /\ p \in Nat /\ h.level \in Nat /\ MAX_BUDDY_ORDER \in Nat
      /\ p \in Cells(h)
  BY <1>1, PartFacts DEF Tiling
<1>3. j + 1 \in Level /\ j + 1 \in Nat /\ j \in Level
  BY <1>2 DEF Level
<1>4. /\ q \in Nat /\ Aligned(q, j)
      /\ Group(q, j) \subseteq Group(Combined(p, j + 1), j + 1)
  BY <1>2, Halves
<1>5. q \in Group(q, j)
  <2>1. 2 ^ j \in Nat /\ 2 ^ j >= 1
    BY PowerFacts
  <2>. HIDE DEF q
  <2>. QED  BY <1>4, <2>1 DEF Group
<1>6. q \in Page
  BY <1>2, <1>3, <1>4, <1>5, GroupsFit
<1>7. bplevel[q] = j
  BY DEF Same
<1>. HIDE DEF p, q
<1>8. PICK g \in S : q \in Cells(g)
  BY <1>1, <1>6 DEF Tiling, CellsOf
<1>9. /\ g \in Parts /\ g.page \in Nat /\ g.level \in Nat /\ Aligned(g.page, g.level)
      /\ g = [page |-> g.page, level |-> g.level]
  BY <1>1, PartFacts DEF Tiling, AllAligned
<1>10. CASE g.level <= j
  <2>1. Combined(q, g.level) = q
    BY <1>4, <1>9, <1>10, AlignedDown
  <2>2. g.page = q
    BY <1>4, <1>8, <1>9, <2>1, CombinedFacts DEF Cells
  <2>3. g.level = j
    BY <1>1, <1>7, <2>2 DEF Starts, S
  <2>. QED  BY <1>9, <2>2, <2>3 DEF S, p, q
<1>11. CASE ~(g.level <= j)
  <2>1. j + 1 <= g.level
    BY <1>9, <1>11
  <2>2. p \in Group(Combined(p, j + 1), j + 1) /\ Combined(p, j + 1) \in Nat /\ Aligned(Combined(p, j + 1), j + 1)
    BY <1>2, <1>3, CombinedFacts
  <2>3. Group(Combined(p, j + 1), j + 1) \subseteq Group(g.page, g.level)
    <3>. DEFINE c == Combined(p, j + 1)
    <3>1. c \in Nat /\ Aligned(c, j + 1) /\ q \in Group(c, j + 1)
      BY <1>4, <1>5, <2>2
    <3>. HIDE DEF c
    <3>2. Group(c, j + 1) \subseteq Group(g.page, g.level)
      BY <1>3, <1>8, <1>9, <2>1, <3>1, Laminar DEF Cells
    <3>. QED  BY <3>2 DEF c
  <2>4. p \in Cells(g)
    BY <2>2, <2>3 DEF Cells
  <2>5. g # h
    BY <1>2, <1>9, <1>11
  <2>. QED  BY <1>1, <1>2, <2>4, <2>5 DEF Tiling, Apart
<1>. QED  BY <1>10, <1>11

\* The loop ends at the first level where there is nothing to merge with.
LEMMA ReachedFacts ==
  ASSUME NEW p, NEW l \in Level
  PROVE  /\ Reached(p, l) \in l .. MAX_BUDDY_ORDER
         /\ \A j \in l .. Reached(p, l) - 1 : Same(p, j)
         /\ Reached(p, l) < MAX_BUDDY_ORDER => ~Same(p, Reached(p, l))
<1>. DEFINE T == {k \in l .. MAX_BUDDY_ORDER : k < MAX_BUDDY_ORDER => ~Same(p, k)}
<1>1. l \in Nat /\ MAX_BUDDY_ORDER \in Nat /\ l <= MAX_BUDDY_ORDER
  BY ConstantsAssumption DEF Level
<1>2. PICK k \in T : \A i \in T : k <= i
  <2>1. T \in SUBSET Nat /\ MAX_BUDDY_ORDER \in T
    BY <1>1
  <2>. HIDE DEF T
  <2>. QED  BY <2>1, LeastExists
<1>3. \A j \in l .. k - 1 : Same(p, j)
  <2>1. \A j \in l .. k - 1 : j \notin T /\ j \in l .. MAX_BUDDY_ORDER
    BY <1>1, <1>2
  <2>. QED  BY <2>1
<1>4. \E n \in l .. MAX_BUDDY_ORDER :
         (\A j \in l .. n - 1 : Same(p, j)) /\ (n < MAX_BUDDY_ORDER => ~Same(p, n))
  BY <1>2, <1>3
<1>. QED  BY <1>4 DEF Reached

\* What the freeing of the group h does that is merged up to level k: all its
\* pieces but itself come from the lists, and the group that they make goes there.
Freed(h, k) ==
    LET whole == [page |-> Combined(h.page, k), level |-> k]
        cut == Pieces(h.page, h.level, k)
    IN  /\ h \in held /\ k \in Level /\ h.level <= k
        /\ cut \subseteq FreeParts \cup {h}
        /\ k < MAX_BUDDY_ORDER => ~Same(h.page, k)
        /\ FreeParts' = (FreeParts \ cut) \cup {whole}
        /\ held' = held \ {h}
        /\ bplevel'[whole.page] = k
        /\ \A q \in Page \ CellsOf(cut) : bplevel'[q] = bplevel[q]
        /\ TypeOK'
        /\ Lists'
        /\ UNCHANGED answer

\* What __free_pages does is Freed, as long as no pair is held.
LEMMA FreeFacts ==
  ASSUME IInv, ~HeldPairs, NEW h \in held, Free(h)
  PROVE  \E k \in Level : Freed(h, k)
<1>. DEFINE p == h.page
            l == h.level
            k == Reached(p, l)
            cut == Pieces(p, l, k)
            whole == [page |-> Combined(p, k), level |-> k]
<1>1. Tiling(FreeParts \cup held) /\ FreeParts \cap held = {} /\ Starts
  BY DEF IInv
<1>2. /\ h \in Parts /\ p \in Page /\ p \in Nat /\ l \in Level /\ l \in Nat
      /\ MAX_BUDDY_ORDER \in Nat /\ Aligned(p, l) /\ h = [page |-> p, level |-> l]
  BY <1>1, PartFacts DEF Tiling, AllAligned
<1>3. bplevel[p] = l
  BY <1>1 DEF Starts
<1>4. /\ \A j \in l .. k - 1 : \A i \in held : i.page # PairAt(p, j)
      /\ bplevel' = [q \in Page |-> IF q = Combined(p, k) THEN k
                                    ELSE IF q \in {PairAt(p, j) : j \in l .. k - 1} THEN -1 ELSE bplevel[q]]
      /\ freelist' = Relist(p, l, k)
      /\ nr_free' = [j \in Level |-> CASE j \in l .. k - 1 -> nr_free[j] - 1
                                       [] j = k            -> nr_free[j] + 1
                                       [] OTHER            -> nr_free[j]]
      /\ held' = held \ {h} /\ answer' = answer
  <2>1. PairsFree(p, l) /\ FreePages(p, l) /\ held' = held \ {h} /\ answer' = answer
    BY <1>3 DEF Free
  <2>. QED  BY <2>1 DEF PairsFree, FreePages
<1>5. /\ k \in l .. MAX_BUDDY_ORDER
      /\ \A j \in l .. k - 1 : Same(p, j)
      /\ k < MAX_BUDDY_ORDER => ~Same(p, k)
  BY <1>2, ReachedFacts
<1>. HIDE DEF k
<1>6. k \in Nat /\ k \in Level /\ l <= k /\ \A j \in l .. k - 1 : j \in Level /\ j \in Nat /\ j < MAX_BUDDY_ORDER /\ j # k /\ l <= j
  BY <1>2, <1>5 DEF Level
<1>7. cut = {h} \cup {[page |-> PairAt(p, j), level |-> j] : j \in l .. k - 1}
  BY <1>2 DEF Pieces
<1>8. ASSUME NEW j \in l .. k - 1  PROVE [page |-> PairAt(p, j), level |-> j] \in FreeParts
  <2>1. [page |-> PairAt(p, j), level |-> j] \in FreeParts \cup held
    BY <1>5, <1>6, PairStands
  <2>2. [page |-> PairAt(p, j), level |-> j] \notin held
    BY <1>4
  <2>. QED  BY <2>1, <2>2
<1>9. cut \subseteq FreeParts \cup {h}
  BY <1>7, <1>8
<1>10. Combined(p, l) = p
  BY <1>2, AlignedDown
<1>11. cut \subseteq Parts /\ Apart(cut) /\ CellsOf(cut) = Group(Combined(p, k), k)
  BY <1>2, <1>6, <1>10, PiecesFacts
<1>12. whole \in Parts /\ whole.page = Combined(p, k) /\ whole.level = k /\ Combined(p, k) \in Page
  <2>1. Combined(p, k) \in Page
    BY <1>2, <1>6, GroupsFit
  <2>. QED  BY <1>6, <2>1 DEF Parts
<1>. HIDE DEF cut, whole
<1>13. whole \notin FreeParts
  <2>1. SUFFICES ASSUME whole \in FreeParts  PROVE FALSE
    OBVIOUS
  <2>2. whole.page \in Cells(whole) /\ Cells(whole) = CellsOf(cut)
    BY <1>11, <1>12, PartFacts DEF Cells
  <2>3. PICK g \in cut : whole.page \in Cells(g)
    BY <2>2 DEF CellsOf
  <2>4. g \in FreeParts \cup held
    BY <1>9
  <2>5. g = whole
    BY <1>1, <2>1, <2>2, <2>3, <2>4 DEF Tiling, Apart
  <2>6. whole # h
    BY <1>1, <2>1
  <2>. QED  BY <1>6, <1>7, <1>12, <2>5, <2>6
<1>14. \A j \in Level : freelist[j] \in Seq(Page) /\ IsInjective(freelist[j]) /\ nr_free[j] = Len(freelist[j])
  BY DEF IInv, TypeOK, Lists
<1>15. ASSUME NEW j \in Level
       PROVE  /\ freelist'[j] \in Seq(Page) /\ IsInjective(freelist'[j])
              /\ nr_free'[j] = Len(freelist'[j])
              /\ Range(freelist'[j]) =
                     IF j = k THEN Range(freelist[j]) \cup {Combined(p, k)}
                     ELSE IF j \in l .. k - 1 THEN Range(freelist[j]) \ {PairAt(p, j)}
                          ELSE Range(freelist[j])
  <2>1. CASE j = k
    <3>. DEFINE x == Combined(p, k)
    <3>1. freelist'[j] = <<x>> \o freelist[k] /\ nr_free'[j] = nr_free[k] + 1
      <4>1. k \notin l .. k - 1
        BY <1>6
      <4>. QED  BY <1>4, <1>6, <2>1, <4>1 DEF Relist
    <3>2. x \in Page /\ x \notin Range(freelist[k])
      BY <1>6, <1>12, <1>13, FreePartsFacts DEF whole
    <3>. HIDE DEF x
    <3>3. /\ <<x>> \o freelist[k] \in Seq(Page) /\ Len(<<x>> \o freelist[k]) = Len(freelist[k]) + 1
          /\ Range(<<x>> \o freelist[k]) = Range(freelist[k]) \cup {x}
          /\ IsInjective(<<x>> \o freelist[k])
      BY <1>6, <1>14, <3>2, PrependFacts
    <3>4. Range(freelist'[j]) = Range(freelist[j]) \cup {x}
      BY <2>1, <3>1, <3>3
    <3>. QED  BY <1>6, <1>14, <2>1, <3>1, <3>3, <3>4 DEF x
  <2>2. CASE j \in l .. k - 1
    <3>. DEFINE x == PairAt(p, j)
    <3>1. freelist'[j] = RemoveFirst(freelist[j], x) /\ nr_free'[j] = nr_free[j] - 1
      BY <1>4, <2>2 DEF Relist
    <3>2. x \in Range(freelist[j])
      <4>1. [page |-> x, level |-> j] \in FreeParts
        BY <1>8, <2>2
      <4>. HIDE DEF x
      <4>2. [page |-> x, level |-> j] \in Parts
        BY <4>1, FreePartsFacts
      <4>3. x \in Page
        BY <4>2, PartFacts
      <4>. QED  BY <4>1, <4>3, FreePartsFacts
    <3>. HIDE DEF x
    <3>3. /\ RemoveFirst(freelist[j], x) \in Seq(Page)
          /\ Len(RemoveFirst(freelist[j], x)) = Len(freelist[j]) - 1
          /\ Range(RemoveFirst(freelist[j], x)) = Range(freelist[j]) \ {x}
          /\ IsInjective(RemoveFirst(freelist[j], x))
      BY <1>14, <3>2, RemoveFirstFacts
    <3>4. Range(freelist'[j]) = Range(freelist[j]) \ {x}
      BY <3>1, <3>3
    <3>. QED  BY <1>6, <1>14, <2>2, <3>1, <3>3, <3>4 DEF x
  <2>3. CASE j # k /\ j \notin l .. k - 1
    <3>1. freelist'[j] = freelist[j] /\ nr_free'[j] = nr_free[j]
      BY <1>4, <2>3 DEF Relist
    <3>. QED  BY <1>14, <2>3, <3>1
  <2>. QED  BY <2>1, <2>2, <2>3
<1>16. Lists'
  BY <1>15 DEF Lists
<1>17. /\ bplevel'[whole.page] = k
       /\ \A q \in Page \ CellsOf(cut) : bplevel'[q] = bplevel[q]
       /\ bplevel' \in [Page -> Level \cup {-1}]
  <2>1. bplevel'[whole.page] = k
    BY <1>4, <1>12
  <2>2. ASSUME NEW q \in Page \ CellsOf(cut)  PROVE bplevel'[q] = bplevel[q]
    <3>1. q # Combined(p, k)
      <4>1. whole.page \in Cells(whole) /\ Cells(whole) = CellsOf(cut)
        BY <1>11, <1>12, PartFacts DEF Cells
      <4>. QED  BY <1>12, <2>2, <4>1
    <3>2. ASSUME NEW j \in l .. k - 1  PROVE q # PairAt(p, j)
      <4>. DEFINE g == [page |-> PairAt(p, j), level |-> j]
      <4>1. g \in cut /\ g.page = PairAt(p, j)
        BY <1>7
      <4>. HIDE DEF g
      <4>2. g.page \in CellsOf(cut)
        BY <1>11, <4>1, PartFacts DEF CellsOf
      <4>. QED  BY <2>2, <4>1, <4>2
    <3>. QED  BY <1>4, <2>2, <3>1, <3>2
  <2>3. bplevel \in [Page -> Level \cup {-1}]
    BY DEF IInv, TypeOK
  <2>4. bplevel' \in [Page -> Level \cup {-1}]
    BY <1>4, <1>6, <2>3
  <2>. QED  BY <2>1, <2>2, <2>4
<1>18. TypeOK'
  <2>1. freelist' \in [Level -> Seq(Page)] /\ nr_free' \in [Level -> Int]
    <3>1. \A j \in Level : Len(freelist'[j]) \in Int
      BY <1>15, LenProperties
    <3>2. freelist' = [j \in Level |-> freelist'[j]]
      BY <1>4 DEF Relist
    <3>3. nr_free' = [j \in Level |-> nr_free'[j]]
      BY <1>4
    <3>. QED  BY <1>15, <3>1, <3>2, <3>3
  <2>2. held' \subseteq [page : Page, level : Level] /\ answer' \in Page \cup {None}
    BY <1>4 DEF IInv, TypeOK
  <2>. QED  BY <1>17, <2>1, <2>2 DEF TypeOK
<1>19. FreeParts' = (FreeParts \ cut) \cup {whole}
  <2>1. FreeParts' = {g \in Parts : g.page \in Range(freelist'[g.level])}
    BY DEF FreeParts, Listed, ToSet, Range
  <2>2. FreeParts = {g \in Parts : g.page \in Range(freelist[g.level])}
    BY DEF FreeParts, Listed, ToSet, Range
  <2>3. ASSUME NEW g \in Parts
        PROVE  g \in FreeParts' <=> g \in (FreeParts \ cut) \cup {whole}
    <3>1. g.page \in Page /\ g.level \in Level /\ g = [page |-> g.page, level |-> g.level]
      BY PartFacts
    <3>2. g = whole <=> g.level = k /\ g.page = Combined(p, k)
      BY <3>1 DEF whole
    <3>3. g \in cut \ {h} => g.level \in l .. k - 1 /\ g.page = PairAt(p, g.level)
      BY <1>7
    <3>4. g.level \in l .. k - 1 /\ g.page = PairAt(p, g.level) => g \in cut
      BY <1>7, <3>1
    <3>5. h \notin FreeParts
      BY <1>1
    <3>6. CASE g.level = k
      <4>1. g.level \notin l .. k - 1
        BY <1>6, <3>6
      <4>2. Range(freelist'[g.level]) = Range(freelist[g.level]) \cup {Combined(p, k)}
        BY <1>15, <3>1, <3>6
      <4>. QED  BY <2>1, <2>2, <3>2, <3>3, <3>5, <3>6, <4>1, <4>2
    <3>7. CASE g.level \in l .. k - 1
      <4>1. Range(freelist'[g.level]) = Range(freelist[g.level]) \ {PairAt(p, g.level)} /\ g.level # k
        BY <1>6, <1>15, <3>1, <3>7
      <4>. QED  BY <2>1, <2>2, <3>2, <3>3, <3>4, <3>5, <3>7, <4>1
    <3>8. CASE g.level # k /\ g.level \notin l .. k - 1
      <4>1. Range(freelist'[g.level]) = Range(freelist[g.level])
        BY <1>15, <3>1, <3>8
      <4>. QED  BY <2>1, <2>2, <3>2, <3>3, <3>5, <3>8, <4>1
    <3>. QED  BY <3>6, <3>7, <3>8
  <2>. QED  BY <1>12, <2>1, <2>2, <2>3
<1>20. Freed(h, k)
  BY <1>4, <1>5, <1>6, <1>9, <1>16, <1>17, <1>18, <1>19 DEF Freed, cut, whole
<1>. QED  BY <1>6, <1>20

\* Merging keeps the invariant.
LEMMA FreedIInv ==
  ASSUME IInv, NEW h \in held, NEW k \in Level, Freed(h, k)
  PROVE  IInv'
<1>. DEFINE p == h.page
            whole == [page |-> Combined(p, k), level |-> k]
            cut == Pieces(p, h.level, k)
            S == FreeParts \cup held
            F == FreeParts'
            H == held'
<1>1. /\ h.level <= k
      /\ cut \subseteq FreeParts \cup {h}
      /\ k < MAX_BUDDY_ORDER => ~Same(p, k)
      /\ F = (FreeParts \ cut) \cup {whole}
      /\ H = held \ {h}
      /\ bplevel'[whole.page] = k
      /\ \A q \in Page \ CellsOf(cut) : bplevel'[q] = bplevel[q]
      /\ TypeOK'
      /\ Lists'
  BY DEF Freed
<1>2. Tiling(S) /\ FreeParts \cap held = {} /\ Starts /\ Merged
  BY DEF IInv
<1>3. /\ h \in Parts /\ p \in Page /\ p \in Nat /\ h.level \in Level /\ h.level \in Nat
      /\ Aligned(p, h.level) /\ k \in Nat
  BY <1>2, PartFacts, GroupsFit DEF Tiling, AllAligned
<1>4. Combined(p, h.level) = p
  BY <1>3, AlignedDown
<1>5. Combined(p, k) \in Page /\ Combined(p, k) \in Nat /\ Aligned(Combined(p, k), k)
  BY <1>3, GroupsFit, CombinedFacts
<1>6. /\ whole \in Parts /\ whole.page = Combined(p, k) /\ whole.level = k
      /\ Cells(whole) = CellsOf(cut)
  <2>1. CellsOf(cut) = Group(Combined(p, k), k)
    BY <1>1, <1>3, <1>4, PiecesFacts
  <2>. HIDE DEF cut
  <2>. QED  BY <1>5, <2>1 DEF Parts, Cells
<1>7. h \in cut
  BY <1>3, PartFacts DEF Pieces
<1>. HIDE DEF cut, S, whole, F, H
<1>8. Apart({whole}) /\ AllAligned({whole}) /\ CellsOf({whole}) = CellsOf(cut)
  BY <1>5, <1>6 DEF Apart, AllAligned, CellsOf
<1>9. Tiling((S \ cut) \cup {whole}) /\ \A g \in S \ cut : Cells(g) \cap CellsOf(cut) = {}
  <2>1. cut \in SUBSET S /\ {whole} \in SUBSET Parts
    BY <1>1, <1>6 DEF S
  <2>. QED  BY <1>2, <1>8, <2>1, Replace
<1>10. \A g \in S \ cut : g \in Parts /\ g.page \in Page /\ g.page \notin CellsOf(cut) /\ g # whole
  <2>1. SUFFICES ASSUME NEW g \in S \ cut
                 PROVE  g \in Parts /\ g.page \in Page /\ g.page \notin CellsOf(cut) /\ g # whole
    OBVIOUS
  <2>2. g \in Parts /\ g.page \in Page /\ g.page \in Cells(g)
    BY <1>2, PartFacts DEF Tiling
  <2>. QED  BY <1>6, <1>9, <2>2
<1>11. F \cup H = (S \ cut) \cup {whole}
  BY <1>1, <1>2, <1>7 DEF S
<1>12. F \cap H = {}
  BY <1>1, <1>2, <1>7, <1>10 DEF S
<1>13. \A g \in F \cup H : bplevel'[g.page] = g.level
  <2>1. SUFFICES ASSUME NEW g \in F \cup H, g # whole  PROVE bplevel'[g.page] = g.level
    BY <1>1, <1>6
  <2>2. g \in S \ cut
    BY <1>11, <2>1
  <2>3. bplevel'[g.page] = bplevel[g.page]
    BY <1>1, <1>10, <2>2
  <2>. QED  BY <1>2, <2>2, <2>3 DEF Starts, S
<1>14. k < MAX_BUDDY_ORDER => PairOf(whole) \notin F
  <2>1. SUFFICES ASSUME k < MAX_BUDDY_ORDER, PairOf(whole) \in F  PROVE FALSE
    OBVIOUS
  <2>2. PairOf(whole) # whole
    BY <1>5, <1>6, PairOfFacts
  <2>3. PairOf(whole) \in FreeParts
    BY <1>1, <2>1, <2>2
  <2>4. PairOf(whole) = [page |-> PairAt(p, k), level |-> k]
    BY <1>3, <1>6, PairTwice DEF PairOf
  <2>5. bplevel[PairAt(p, k)] = k
    BY <1>2, <2>3, <2>4 DEF Starts
  <2>. QED  BY <1>1, <2>1, <2>5 DEF Same
<1>15. \A g \in F : g.level < MAX_BUDDY_ORDER => PairOf(g) \notin F
  <2>1. SUFFICES ASSUME NEW g \in F, g.level < MAX_BUDDY_ORDER, PairOf(g) \in F  PROVE FALSE
    OBVIOUS
  <2>2. g # whole
    BY <1>6, <1>14, <2>1
  <2>3. PairOf(g) # whole
    <3>1. g \in Parts /\ Aligned(g.page, g.level)
      BY <1>9, <1>11, <2>1 DEF Tiling, AllAligned
    <3>2. PairOf(PairOf(g)) = g /\ PairOf(g).level = g.level
      BY <3>1, PairOfFacts DEF PairOf
    <3>. QED  BY <1>6, <1>14, <2>1, <3>2
  <2>. QED  BY <1>1, <1>2, <2>1, <2>2, <2>3 DEF Merged
<1>16. Tiling(FreeParts' \cup held') /\ FreeParts' \cap held' = {} /\ Starts' /\ Merged'
  BY <1>9, <1>11, <1>12, <1>13, <1>15 DEF F, H, Starts, Merged, PairOf, Pair, PairAt, Combined
<1>17. Tiling(FreeParts \cup held)'
  BY <1>16 DEF Tiling, Parts, Page, Level, AllAligned, Aligned, Apart, Cells, CellsOf, Group
<1>. QED  BY <1>1, <1>16, <1>17 DEF IInv

-----------------------------------------------------------------------------
(* What holds in every state *)

\* IInv holds in every state, as long as no pair of a freed group is held.
LEMMA SpecIInv == ~HeldPairs => (Spec => []IInv)
<1>. SUFFICES ASSUME ~HeldPairs  PROVE Spec => []IInv
  OBVIOUS
<1>1. IInv /\ [Next]_vars => IInv'
  <2>. SUFFICES ASSUME IInv, [Next]_vars  PROVE IInv'
    OBVIOUS
  <2>1. ASSUME NEW n \in PageNums, Alloc(n)  PROVE IInv'
    <3>1. PICK g \in FreeParts : Allocated(g, BpLevel(n))
      BY <2>1, AllocFacts, ConstantsAssumption
    <3>2. BpLevel(n) \in Level
      BY <3>1 DEF Allocated
    <3>. QED  BY <3>1, <3>2, AllocatedIInv
  <2>2. ASSUME NEW n \in PageNums, Refuse(n)  PROVE IInv'
    <3>1. answer' \in Page \cup {None} /\ UNCHANGED <<bplevel, freelist, nr_free, held>>
      BY <2>2 DEF Refuse
    <3>. QED
      BY <3>1 DEF IInv, TypeOK, Tiling, Starts, Merged, Lists, FreeParts, Listed
  <2>3. ASSUME NEW h \in held, Free(h)  PROVE IInv'
    <3>1. PICK k \in Level : Freed(h, k)
      BY <2>3, FreeFacts
    <3>. QED  BY <3>1, FreedIInv
  <2>4. CASE UNCHANGED vars
    BY <2>4 DEF vars, IInv, TypeOK, Tiling, Starts, Merged, Lists, FreeParts, Listed
  <2>. QED  BY <2>1, <2>2, <2>3, <2>4 DEF Next
<1>. QED  BY <1>1, InitIInv, PTL DEF Spec

\* The groups of a partition that is counted right: every page is in exactly one.
LEMMA EveryPageOnceNow == IInv => EveryPageOnce
<1>. SUFFICES ASSUME IInv  PROVE EveryPageOnce
  OBVIOUS
<1>1. ASSUME NEW q \in Page
      PROVE  Cardinality({g \in FreeParts \cup held : q \in Group(g.page, g.level)}) = 1
  <2>1. PICK g \in FreeParts \cup held : q \in Cells(g)
    BY <1>1 DEF IInv, Tiling, CellsOf
  <2>2. \A h \in FreeParts \cup held : q \in Cells(h) => h = g
    BY <1>1, <2>1 DEF IInv, Tiling, Apart
  <2>3. {h \in FreeParts \cup held : q \in Group(h.page, h.level)} = {g}
    BY <2>1, <2>2 DEF Cells
  <2>. QED  BY <2>3, FS_Singleton
<1>. QED  BY <1>1 DEF IInv, Lists, EveryPageOnce

\* Every page is in exactly one group: __alloc_pages and __free_pages neither lose
\* pages nor give one away twice.
THEOREM EveryPageOnceHolds == ~HeldPairs => (Spec => []EveryPageOnce)
<1>. SUFFICES ASSUME ~HeldPairs  PROVE Spec => []EveryPageOnce
  OBVIOUS
<1>1. Spec => []IInv
  BY SpecIInv
<1>. QED  BY <1>1, EveryPageOnceNow, PTL

\* What stands in a list of buddy.c is free: no caller holds a page of it.
THEOREM FreeIsFreeHolds == ~HeldPairs => (Spec => []FreeIsFree)
<1>. SUFFICES ASSUME ~HeldPairs  PROVE Spec => []FreeIsFree
  OBVIOUS
<1>1. ASSUME IInv  PROVE FreeIsFree
  <2>1. SUFFICES ASSUME NEW l \in Level, NEW p \in Listed(l), NEW h \in held
                 PROVE  Group(p, l) \cap Group(h.page, h.level) = {}
    BY DEF FreeIsFree
  <2>. DEFINE g == [page |-> p, level |-> l]
  <2>2. p \in Range(freelist[l])
    BY DEF Listed, ToSet, Range
  <2>3. p \in Page
    <3>1. freelist[l] \in Seq(Page)
      BY <1>1 DEF IInv, TypeOK
    <3>2. DOMAIN freelist[l] = 1 .. Len(freelist[l])
      BY <3>1, LenProperties
    <3>. QED  BY <2>2, <3>1, <3>2, ElementOfSeq DEF Range
  <2>4. g \in FreeParts
    BY <2>2, <2>3, FreePartsFacts
  <2>5. Cells(g) \cap Cells(h) = {}
    BY <1>1, <2>4 DEF IInv, Tiling, Apart
  <2>. QED  BY <2>5 DEF Cells
<1>2. Spec => []IInv
  BY SpecIInv
<1>. QED  BY <1>1, <1>2, PTL

-----------------------------------------------------------------------------
(* The buddy system is the PageAllocator *)

\* The free pages are those of the free groups.
LEMMA AllFreeFacts == TypeOK => AllFree = CellsOf(FreeParts)
<1>. SUFFICES ASSUME TypeOK  PROVE AllFree = CellsOf(FreeParts)
  OBVIOUS
<1>1. ASSUME NEW x \in AllFree  PROVE x \in CellsOf(FreeParts)
  <2>1. PICK l \in Level : \E p \in Listed(l) : x \in Group(p, l)
    BY DEF AllFree, FreePagesOf
  <2>2. PICK p \in Listed(l) : x \in Group(p, l)
    BY <2>1
  <2>3. p \in Range(freelist[l])
    BY DEF Listed, ToSet, Range
  <2>4. p \in Page
    <3>1. freelist[l] \in Seq(Page)
      BY DEF TypeOK
    <3>2. DOMAIN freelist[l] = 1 .. Len(freelist[l])
      BY <3>1, LenProperties
    <3>. QED  BY <2>3, <3>1, <3>2, ElementOfSeq DEF Range
  <2>. DEFINE g == [page |-> p, level |-> l]
  <2>5. g \in FreeParts /\ x \in Cells(g)
    BY <2>2, <2>3, <2>4, FreePartsFacts DEF Cells
  <2>. QED  BY <2>5 DEF CellsOf
<1>2. ASSUME NEW x \in CellsOf(FreeParts)  PROVE x \in AllFree
  <2>1. PICK g \in FreeParts : x \in Cells(g)
    BY DEF CellsOf
  <2>2. g.level \in Level /\ g.page \in Listed(g.level)
    BY FreePartsFacts, PartFacts DEF FreeParts
  <2>. QED  BY <2>1, <2>2 DEF AllFree, FreePagesOf, Cells
<1>. QED  BY <1>1, <1>2

\* The groups of the highest level are all the pages.
LEMMA InitAbstract == Init => Abstract!Init
<1>. SUFFICES ASSUME Init  PROVE Abstract!Init
  OBVIOUS
<1>1. IInv /\ held = {} /\ answer = None
  BY InitIInv DEF Init
<1>2. Tiling(FreeParts) /\ AllFree = CellsOf(FreeParts)
  <2>1. FreeParts \cup held = FreeParts
    BY <1>1
  <2>. QED  BY <1>1, <2>1, AllFreeFacts DEF IInv
<1>3. ASSUME NEW g \in FreeParts  PROVE Cells(g) \subseteq Page
  <2>1. g \in Parts /\ Aligned(g.page, g.level)
    BY <1>2 DEF Tiling, AllAligned
  <2>2. g.page \in Page /\ g.page \in Nat /\ g.level \in Level /\ g.level \in Nat
    BY <2>1, PartFacts
  <2>3. Combined(g.page, g.level) = g.page
    BY <2>1, <2>2, AlignedDown
  <2>4. Group(Combined(g.page, g.level), g.level) \subseteq Page
    BY <2>2, GroupsFit
  <2>. QED  BY <2>3, <2>4 DEF Cells
<1>4. AllFree = Page
  BY <1>2, <1>3 DEF Tiling, CellsOf
<1>. QED  BY <1>1, <1>4 DEF Abstract!Init, Abstract!None, None

\* Both count the level of a request alike.
LEMMA SameLevel ==
  /\ \A n : Abstract!Level(n) = BpLevel(n)
  /\ \A p, l : Abstract!Group(p, l) = Group(p, l)
BY DEF Abstract!Level, BpLevel, Abstract!Group, Group

\* __alloc_pages gives an aligned group of free pages.
LEMMA AllocAbstract ==
  ASSUME IInv, NEW n \in PageNums, Alloc(n)
  PROVE  Abstract!Alloc(n)
<1>. DEFINE l == BpLevel(n)
<1>1. PICK g \in FreeParts : Allocated(g, l)
  BY AllocFacts, ConstantsAssumption
<1>. HIDE DEF l
<1>. DEFINE top == [page |-> g.page, level |-> l]
            cut == Pieces(g.page, l, g.level)
            F == FreeParts'
            H == held'
<1>2. /\ l \in Level /\ l <= g.level
      /\ F = (FreeParts \ {g}) \cup (cut \ {top})
      /\ H = held \cup {top} /\ answer' = g.page
      /\ TypeOK'
  BY <1>1 DEF Allocated
<1>3. Tiling(F \cup H) /\ F \cap H = {}
  <2>1. IInv'
    BY <1>1, <1>2, AllocatedIInv
  <2>2. Tiling(FreeParts \cup held)' /\ FreeParts' \cap held' = {}
    BY <2>1 DEF IInv
  <2>. QED  BY <2>2 DEF Tiling, Parts, Page, Level, AllAligned, Aligned, Apart, Cells, CellsOf, Group
<1>4. g \in Parts /\ Aligned(g.page, g.level)
  BY DEF IInv, Tiling, AllAligned
<1>5. /\ g.page \in Page /\ g.page \in Nat /\ g.level \in Level /\ g.level \in Nat /\ l \in Nat
      /\ g.page \in Cells(g)
  <2>1. l \in Nat
    BY <1>2 DEF Level
  <2>. QED  BY <1>4, <2>1, PartFacts
<1>6. Aligned(g.page, l) /\ Combined(g.page, l) = g.page /\ Combined(g.page, g.level) = g.page
  BY <1>2, <1>4, <1>5, AlignedDown
<1>7. CellsOf(cut) = Cells(g)
  BY <1>2, <1>5, <1>6, PiecesFacts DEF Cells
<1>8. top \in cut /\ Cells(top) = Group(g.page, l)
  BY DEF Pieces, Cells
<1>9. AllFree = CellsOf(FreeParts) /\ AllFree' = CellsOf(F)
  <2>1. TypeOK' => AllFree' = CellsOf(FreeParts')
    <3>1. (TypeOK => AllFree = CellsOf(FreeParts))'
      BY AllFreeFacts, PTL
    <3>. QED  BY <3>1 DEF CellsOf, Cells, Group
  <2>. QED  BY <1>2, <2>1, AllFreeFacts DEF IInv
<1>. HIDE DEF cut, top, F, H
<1>10. Cells(top) \subseteq Cells(g) /\ Cells(g) \subseteq AllFree
  BY <1>7, <1>8, <1>9 DEF CellsOf
<1>11. CellsOf(F) = CellsOf(FreeParts) \ Cells(top)
  <2>1. ASSUME NEW x \in CellsOf(F)  PROVE x \in CellsOf(FreeParts) /\ x \notin Cells(top)
    <3>1. PICK h \in F : x \in Cells(h)
      BY DEF CellsOf
    <3>2. h # top /\ h \in F \cup H /\ top \in F \cup H
      BY <1>2, <1>3
    <3>3. x \notin Cells(top)
      BY <1>3, <3>1, <3>2 DEF Tiling, Apart
    <3>4. x \in CellsOf(FreeParts)
      <4>1. CASE h \in FreeParts
        BY <3>1, <4>1 DEF CellsOf
      <4>2. CASE h \in cut
        BY <1>7, <3>1, <4>2 DEF CellsOf
      <4>. QED  BY <1>2, <4>1, <4>2
    <3>. QED  BY <3>3, <3>4
  <2>2. ASSUME NEW x \in CellsOf(FreeParts), x \notin Cells(top)  PROVE x \in CellsOf(F)
    <3>1. PICK h \in FreeParts : x \in Cells(h)
      BY DEF CellsOf
    <3>2. CASE h = g
      <4>1. PICK i \in cut : x \in Cells(i)
        BY <1>7, <3>1, <3>2 DEF CellsOf
      <4>2. i # top
        BY <2>2, <4>1
      <4>. QED  BY <1>2, <4>1, <4>2 DEF CellsOf
    <3>3. CASE h # g
      BY <1>2, <3>1, <3>3 DEF CellsOf
    <3>. QED  BY <3>2, <3>3
  <2>. QED  BY <2>1, <2>2
<1>12. g.page \in Abstract!GroupsOf(AllFree, l)
  <2>1. g.page \in AllFree /\ Group(g.page, l) \subseteq AllFree
    BY <1>5, <1>8, <1>10
  <2>. QED  BY <1>6, <2>1, SameLevel DEF Abstract!GroupsOf, Aligned
<1>13. AllFree' = AllFree \ Group(g.page, l)
  BY <1>8, <1>9, <1>11
<1>14. held' = held \cup {[page |-> g.page, level |-> l]}
  BY <1>2 DEF H, top
<1>15. Abstract!Level(n) = l
  BY SameLevel DEF l
<1>. QED  BY <1>2, <1>12, <1>13, <1>14, <1>15, SameLevel DEF Abstract!Alloc

\* Without a free group of its level or a higher one a request can not be met: free
\* halves of a greater group do not stay apart.
LEMMA RefuseAbstract ==
  ASSUME IInv, NEW n \in PageNums, Refuse(n)
  PROVE  Abstract!Refuse(n)
<1>. DEFINE l == BpLevel(n)
            S == FreeParts
<1>1. /\ n = 0 \/ Usable(l) = {}
      /\ answer' = None /\ UNCHANGED <<bplevel, freelist, nr_free, held>>
  BY DEF Refuse
<1>2. AllFree = CellsOf(S) /\ UNCHANGED AllFree
  BY <1>1, AllFreeFacts DEF IInv, AllFree, FreePagesOf, Listed
<1>3. l \in Nat /\ MAX_BUDDY_ORDER \in Nat
  BY ConstantsAssumption, BpLevelFacts
<1>. HIDE DEF l, S
<1>4. ASSUME Usable(l) = {}, ~(l > MAX_BUDDY_ORDER), NEW p \in Abstract!GroupsOf(AllFree, l)
      PROVE  FALSE
  <2>1. p \in AllFree /\ Aligned(p, l) /\ Group(p, l) \subseteq AllFree
    BY <1>4, SameLevel DEF Abstract!GroupsOf, Aligned
  <2>2. /\ \A g \in S : g \in Parts /\ Aligned(g.page, g.level) /\ g.page \in Nat /\ g.level \in Nat
                        /\ g = [page |-> g.page, level |-> g.level] /\ g.page \in Cells(g)
        /\ Apart(S)
    BY PartFacts DEF IInv, Tiling, AllAligned, Apart, S
  <2>3. \A g \in S : g.level < l
    <3>1. SUFFICES ASSUME NEW g \in S, ~(g.level < l)  PROVE FALSE
      OBVIOUS
    <3>2. g.level \in l .. MAX_BUDDY_ORDER /\ g.level \in Level /\ g.page \in Page
      BY <1>3, <2>2, <3>1, PartFacts DEF Level
    <3>3. g.page \in Range(freelist[g.level])
      BY <2>2, <3>2, FreePartsFacts DEF S
    <3>4. freelist[g.level] # <<>>
      BY <3>3 DEF Range
    <3>. QED  BY <1>4, <3>2, <3>4 DEF Usable
  <2>4. p \in Nat
    <3>1. PICK g \in S : p \in Cells(g)
      BY <1>2, <2>1 DEF CellsOf
    <3>. QED  BY <2>2, <3>1, PowerFacts DEF Cells, Group
  <2>5. p \in Group(p, l)
    BY <1>3, <2>4, PowerFacts DEF Group
  <2>. DEFINE T == {g.level : g \in {h \in S : Cells(h) \cap Group(p, l) # {}}}
  <2>6. PICK m \in T : \A i \in T : m <= i
    <3>1. T # {}
      <4>1. PICK g \in S : p \in Cells(g)
        BY <1>2, <2>1 DEF CellsOf
      <4>2. g \in {h \in S : Cells(h) \cap Group(p, l) # {}}
        BY <2>5, <4>1
      <4>. QED  BY <4>2
    <3>2. T \in SUBSET Nat
      BY <2>2
    <3>. HIDE DEF T
    <3>. QED  BY <3>1, <3>2, LeastExists
  <2>7. PICK g \in S : g.level = m /\ Cells(g) \cap Group(p, l) # {}
    BY <2>6
  <2>. DEFINE q == PairAt(g.page, m)
  <2>8. g.page \in Nat /\ m \in Nat /\ m + 1 \in Nat /\ m + 1 <= l /\ m < l /\ Aligned(g.page, m)
    BY <1>3, <2>2, <2>3, <2>7
  <2>9. g.page \in Group(p, l)
    <3>1. PICK x : x \in Group(g.page, m) /\ x \in Group(p, l)
      BY <2>7 DEF Cells
    <3>2. Group(g.page, m) \subseteq Group(p, l)
      BY <1>3, <2>1, <2>4, <2>8, <3>1, Laminar
    <3>. QED  BY <2>2, <2>7, <3>2 DEF Cells
  <2>10. /\ q \in Nat /\ Aligned(q, m) /\ q \in Group(q, m)
         /\ Group(q, m) \subseteq Group(Combined(g.page, m + 1), m + 1)
    <3>1. /\ q \in Nat /\ Aligned(q, m)
          /\ Group(q, m) \subseteq Group(Combined(g.page, m + 1), m + 1)
      BY <2>8, Halves
    <3>2. 2 ^ m \in Nat /\ 2 ^ m >= 1
      BY <2>8, PowerFacts
    <3>. HIDE DEF q
    <3>. QED  BY <3>1, <3>2 DEF Group
  <2>. HIDE DEF q
  <2>11. q \in Group(p, l)
    <3>1. Combined(g.page, l) = p
      BY <1>3, <2>1, <2>4, <2>8, <2>9, CombinedFacts
    <3>2. Group(Combined(g.page, m + 1), m + 1) \subseteq Group(Combined(g.page, l), l)
      BY <1>3, <2>8, Nested
    <3>. QED  BY <2>10, <3>1, <3>2
  <2>12. PICK h \in S : q \in Cells(h)
    BY <1>2, <2>1, <2>11 DEF CellsOf
  <2>13. h.level \in Nat /\ m <= h.level /\ h.page \in Nat /\ Aligned(h.page, h.level)
    BY <2>2, <2>6, <2>11, <2>12
  <2>14. CASE h.level = m
    <3>1. h.page = q
      BY <2>8, <2>10, <2>12, <2>13, <2>14, Laminar DEF Cells
    <3>2. h = PairOf(g)
      BY <2>2, <2>7, <2>14, <3>1 DEF PairOf, q
    <3>3. g.level < MAX_BUDDY_ORDER
      BY <1>3, <1>4, <2>7, <2>8
    <3>. QED  BY <3>2, <3>3 DEF IInv, Merged, S
  <2>15. CASE h.level # m
    <3>. DEFINE c == Combined(g.page, m + 1)
    <3>1. m + 1 <= h.level
      BY <2>8, <2>13, <2>15
    <3>2. c \in Nat /\ Aligned(c, m + 1) /\ g.page \in Group(c, m + 1) /\ q \in Group(c, m + 1)
      BY <2>8, <2>10, CombinedFacts
    <3>. HIDE DEF c
    <3>3. Group(c, m + 1) \subseteq Group(h.page, h.level)
      BY <2>8, <2>12, <2>13, <3>1, <3>2, Laminar DEF Cells
    <3>4. g.page \in Cells(h) /\ g.page \in Cells(g) /\ g # h
      BY <2>2, <2>7, <2>15, <3>2, <3>3 DEF Cells
    <3>. QED  BY <2>2, <3>4 DEF Apart
  <2>. QED  BY <2>14, <2>15
<1>5. Abstract!Level(n) = l
  BY SameLevel DEF l
<1>6. n = 0 \/ l > MAX_BUDDY_ORDER \/ Abstract!GroupsOf(AllFree, l) = {}
  BY <1>1, <1>4
<1>. QED  BY <1>1, <1>2, <1>5, <1>6 DEF Abstract!Refuse, Abstract!None, None

\* __free_pages makes the pages of the group free, and no others.
LEMMA FreeAbstract ==
  ASSUME IInv, ~HeldPairs, NEW h \in held, Free(h)
  PROVE  Abstract!Free(h)
<1>1. PICK k \in Level : Freed(h, k)
  BY FreeFacts
<1>. DEFINE p == h.page
            whole == [page |-> Combined(p, k), level |-> k]
            cut == Pieces(p, h.level, k)
<1>2. /\ h.level <= k
      /\ cut \subseteq FreeParts \cup {h}
      /\ FreeParts' = (FreeParts \ cut) \cup {whole}
      /\ held' = held \ {h} /\ answer' = answer
      /\ TypeOK'
  BY <1>1 DEF Freed
<1>3. h \in Parts /\ Aligned(p, h.level)
  BY DEF IInv, Tiling, AllAligned
<1>4. p \in Page /\ p \in Nat /\ h.level \in Level /\ h.level \in Nat /\ h = [page |-> p, level |-> h.level]
  BY <1>3, PartFacts
<1>5. Combined(p, h.level) = p
  BY <1>3, <1>4, AlignedDown
<1>6. Cells(whole) = CellsOf(cut)
  <2>1. CellsOf(cut) = Group(Combined(p, k), k)
    BY <1>2, <1>4, <1>5, PiecesFacts
  <2>. HIDE DEF cut
  <2>. QED  BY <2>1 DEF Cells
<1>7. h \in cut
  BY <1>4 DEF Pieces
<1>8. AllFree = CellsOf(FreeParts) /\ AllFree' = CellsOf(FreeParts')
  <2>1. TypeOK' => AllFree' = CellsOf(FreeParts')
    <3>1. (TypeOK => AllFree = CellsOf(FreeParts))'
      BY AllFreeFacts, PTL
    <3>. QED  BY <3>1 DEF CellsOf, Cells, Group
  <2>. QED  BY <1>2, <2>1, AllFreeFacts DEF IInv
<1>. HIDE DEF whole, cut
<1>9. CellsOf((FreeParts \ cut) \cup {whole}) = CellsOf(FreeParts) \cup Cells(h)
  <2>1. CellsOf((FreeParts \ cut) \cup {whole}) = CellsOf(FreeParts \ cut) \cup CellsOf(cut)
    BY <1>6 DEF CellsOf
  <2>2. CellsOf(cut) \subseteq CellsOf(FreeParts) \cup Cells(h) /\ Cells(h) \subseteq CellsOf(cut)
    BY <1>2, <1>7 DEF CellsOf
  <2>3. CellsOf(FreeParts) \subseteq CellsOf(FreeParts \ cut) \cup CellsOf(cut)
    BY DEF CellsOf
  <2>4. CellsOf(FreeParts \ cut) \subseteq CellsOf(FreeParts)
    BY DEF CellsOf
  <2>. QED  BY <2>1, <2>2, <2>3, <2>4
<1>10. AllFree' = AllFree \cup Group(h.page, h.level)
  BY <1>2, <1>8, <1>9 DEF Cells
<1>. QED  BY <1>2, <1>10, SameLevel DEF Abstract!Free

\* The buddy system is the PageAllocator: split and merge do what taking away and
\* giving back the pages of one group do, and a request fails only if there is none.
THEOREM BuddyIsPageAllocator == ~HeldPairs => (Spec => IsPageAllocator)
<1>. SUFFICES ASSUME ~HeldPairs  PROVE Spec => IsPageAllocator
  OBVIOUS
<1>1. IInv /\ [Next]_vars => [Abstract!Next]_<<AllFree, held, answer>>
  <2>. SUFFICES ASSUME IInv, [Next]_vars
                PROVE  [Abstract!Next]_<<AllFree, held, answer>>
    OBVIOUS
  <2>1. ASSUME NEW n \in PageNums, Alloc(n)  PROVE Abstract!Next
    BY <2>1, AllocAbstract DEF Abstract!Next
  <2>2. ASSUME NEW n \in PageNums, Refuse(n)  PROVE Abstract!Next
    BY <2>2, RefuseAbstract DEF Abstract!Next
  <2>3. ASSUME NEW h \in held, Free(h)  PROVE Abstract!Next
    BY <2>3, FreeAbstract DEF Abstract!Next
  <2>4. CASE UNCHANGED vars
    BY <2>4 DEF vars, AllFree, FreePagesOf, Listed
  <2>. QED  BY <2>1, <2>2, <2>3, <2>4 DEF Next
<1>2. Spec => []IInv
  BY SpecIInv
<1>. QED  BY <1>1, <1>2, InitAbstract, PTL DEF Spec, IsPageAllocator, Abstract!Spec

-----------------------------------------------------------------------------
(* The invariant of Slab *)

\* The i-th chunk of a page that is cut for objects of s words, and the page of an
\* object, which the cache got as a group of one.
Chunk(p, s, i) == Base(p) + i * (s + 1)
PageOf(o) == o.at \div PageWords
Single(p) == [page |-> p, level |-> 0]

SlabType ==
    /\ cpu \in [ObjSizes -> [page : Page \cup {None}, freeobj : Nat]]
    /\ objects \subseteq [at : Nat, words : ObjSizes]

\* An object is a chunk of its page behind slab_head, and the page is held.
Placed ==
    \A o \in objects :
        /\ PageOf(o) \in Page /\ Single(PageOf(o)) \in held
        /\ \E k \in 1 .. Chunks(o.words) - 1 : o.at = Chunk(PageOf(o), o.words, k)

\* A page has objects of one size.
OneSize == \A o, q \in objects : PageOf(o) = PageOf(q) => o.words = q.words

\* From chunk i on the links of page p stand in the map of words l.
LinkedFrom(l, p, s, i) ==
    \A j \in i .. Chunks(s) :
        /\ Chunk(p, s, j) \in DOMAIN l
        /\ l[Chunk(p, s, j)] = IF j = Chunks(s) THEN Base(p) ELSE Chunk(p, s, j)

\* All objects of page p are of size s and in front of chunk i.
GivenBefore(p, s, i) ==
    \A o \in objects : PageOf(o) = p => o.words = s /\ o.at < Chunk(p, s, i)

\* The cache has given the chunks in front of chunk i, one at least, and no others.
CutFrom(s, i) ==
    /\ cpu[s].page \in Page
    /\ cpu[s].freeobj = Chunk(cpu[s].page, s, i)
    /\ LinkedFrom(link, cpu[s].page, s, i)
    /\ GivenBefore(cpu[s].page, s, i)
    /\ \E o \in objects : PageOf(o) = cpu[s].page

Caches == \A s \in ObjSizes : cpu[s] # NoPage => \E i \in 2 .. Chunks(s) - 1 : CutFrom(s, i)

SInv == SlabType /\ Placed /\ OneSize /\ Caches

-----------------------------------------------------------------------------
(* Addresses *)

\* Chunks lie one behind the other inside their page, and none begins with it.
LEMMA ChunkFacts ==
  ASSUME NEW p \in Nat, NEW s \in ObjSizes, NEW i \in 1 .. Chunks(s)
  PROVE  /\ s \in Nat /\ Chunks(s) \in Nat /\ Chunks(s) >= 2
         /\ Chunk(p, s, i) \in Nat /\ Chunk(p, s, i) \div PageWords = p
         /\ ~is_bound(Chunk(p, s, i)) /\ is_bound(Base(p)) /\ Base(p) \in Nat
         /\ i < Chunks(s) =>
              /\ Chunk(p, s, i + 1) = Chunk(p, s, i) + s + 1
              /\ \A x \in Words(Chunk(p, s, i), s) :
                    /\ x \in Nat /\ x \div PageWords = p
                    /\ x \in Words(Base(p) + 2, PageWords - 2)
         /\ \A j \in 1 .. Chunks(s) : i < j => Chunk(p, s, i) + s + 1 <= Chunk(p, s, j)
<1>. DEFINE b == PageWords
            w == s + 1
            c == b \div w
            d == p * b
<1>1. b \in Nat /\ b >= 1 /\ s \in Nat /\ s >= 1 /\ c >= 2 /\ b % w # 0
  BY SlabAssumption
<1>2. w \in Nat /\ w >= 2 /\ w = s + 1
  BY <1>1
<1>3. Chunks(s) = c
  BY DEF Chunks
<1>4. /\ \A k : Chunk(p, s, k) = d + k * w
      /\ Base(p) = d
      /\ \A a : is_bound(a) <=> a % b = 0
      /\ Words(Base(p) + 2, b - 2) = d + 2 .. d + 2 + (b - 2) - 1
      /\ \A a : Words(a, s) = a .. a + s - 1
  BY DEF Chunk, Base, is_bound, Words
<1>. HIDE DEF w
<1>5. c \in Nat /\ b % w \in 0 .. w - 1 /\ b = w * c + (b % w)
  <2>1. w >= 1
    BY <1>2
  <2>. HIDE DEF b
  <2>. QED  BY <1>1, <1>2, <2>1, DivisionFacts
<1>. HIDE DEF c
<1>6. c * w \in Nat /\ w * c = c * w
  BY <1>2, <1>5
<1>7. c * w < b
  BY <1>1, <1>2, <1>5, <1>6
<1>8. ASSUME NEW k \in Nat, NEW m \in Nat, k < m
      PROVE  k * w \in Nat /\ m * w \in Nat /\ k * w + w <= m * w
  <2>1. m - k - 1 \in Nat /\ m = k + 1 + (m - k - 1)
    BY <1>8
  <2>2. PICK z \in Nat : m = k + 1 + z
    BY <2>1
  <2>3. m * w = k * w + w + z * w /\ z * w \in Nat /\ k * w \in Nat
    BY <1>2, <2>2
  <2>. QED  BY <1>2, <2>3
<1>9. d \in Nat /\ d = b * p
  BY <1>1
<1>. HIDE DEF d
<1>10. ASSUME NEW r \in 0 .. b - 1  PROVE (d + r) \div b = p /\ (d + r) % b = r
  <2>. DEFINE x == d + r
  <2>1. x \in Nat /\ x = b * p + r
    BY <1>1, <1>9
  <2>. HIDE DEF x
  <2>2. x \div b = p /\ x % b = r
    BY <1>1, <2>1, <1>10, DivisionFacts
  <2>. QED  BY <2>2 DEF x
<1>11. i \in Nat /\ 0 < i /\ i <= c /\ i * w \in Nat
  BY <1>2, <1>3, <1>5
<1>12. 0 * w = 0 /\ (0 * w) + w <= i * w
  BY <1>2, <1>8, <1>11
<1>. DEFINE iw == i * w
<1>13. iw \in Nat /\ w <= iw
  BY <1>2, <1>11, <1>12
<1>14. i < c => iw + w <= c * w
  BY <1>5, <1>8, <1>11
<1>15. i = c => iw = c * w
  OBVIOUS
<1>. HIDE DEF iw
<1>16. iw \in 1 .. b - 1
  BY <1>1, <1>2, <1>6, <1>7, <1>11, <1>13, <1>14, <1>15, <1>5
<1>17. Chunk(p, s, i) = d + iw
  BY <1>4 DEF iw
<1>18. Chunk(p, s, i) \in Nat /\ Chunk(p, s, i) \div PageWords = p /\ ~is_bound(Chunk(p, s, i))
  <2>1. iw \in 0 .. b - 1 /\ iw # 0
    BY <1>1, <1>16
  <2>2. (d + iw) \div b = p /\ (d + iw) % b = iw
    BY <1>10, <2>1
  <2>3. d + iw \in Nat
    BY <1>9, <1>13
  <2>. QED  BY <1>4, <1>17, <2>1, <2>2, <2>3
<1>19. is_bound(Base(p)) /\ Base(p) \in Nat
  <2>1. 0 \in 0 .. b - 1 /\ d + 0 = d
    BY <1>1, <1>9
  <2>. QED  BY <1>4, <1>9, <1>10, <2>1
<1>20. ASSUME i < c
       PROVE  /\ Chunk(p, s, i + 1) = Chunk(p, s, i) + s + 1
              /\ \A x \in Words(Chunk(p, s, i), s) :
                    /\ x \in Nat /\ x \div PageWords = p
                    /\ x \in Words(Base(p) + 2, PageWords - 2)
  <2>1. (i + 1) * w = iw + w
    <3>1. (i + 1) * w = i * w + w
      BY <1>2, <1>11
    <3>. QED  BY <3>1 DEF iw
  <2>2. Chunk(p, s, i + 1) = Chunk(p, s, i) + s + 1
    <3>1. Chunk(p, s, i + 1) = d + (i + 1) * w
      BY <1>4
    <3>. QED  BY <1>1, <1>2, <1>9, <1>13, <1>17, <2>1, <3>1
  <2>3. ASSUME NEW x \in Words(Chunk(p, s, i), s)
        PROVE  /\ x \in Nat /\ x \div PageWords = p
               /\ x \in Words(Base(p) + 2, PageWords - 2)
    <3>1. x \in d + iw .. d + iw + s - 1
      BY <1>4, <1>17
    <3>. DEFINE r == x - d
    <3>2. r \in iw .. iw + s - 1 /\ x = d + r
      BY <1>1, <1>9, <1>13, <3>1
    <3>. HIDE DEF r
    <3>3. r \in 0 .. b - 1 /\ r >= 2
      BY <1>1, <1>2, <1>6, <1>7, <1>13, <1>14, <1>20, <3>2
    <3>4. (d + r) \div b = p
      BY <1>10, <3>3
    <3>5. x \in Nat /\ x \in d + 2 .. d + 2 + (b - 2) - 1
      BY <1>1, <1>9, <3>2, <3>3
    <3>. QED  BY <1>4, <3>2, <3>4, <3>5
  <2>. QED  BY <2>2, <2>3
<1>21. ASSUME NEW j \in 1 .. Chunks(s), i < j  PROVE Chunk(p, s, i) + s + 1 <= Chunk(p, s, j)
  <2>. DEFINE jw == j * w
  <2>1. j \in Nat
    BY <1>3, <1>5
  <2>2. jw \in Nat /\ iw + w <= jw
    BY <1>8, <1>11, <1>21, <2>1 DEF iw
  <2>3. Chunk(p, s, j) = d + jw
    BY <1>4
  <2>. HIDE DEF jw
  <2>. QED  BY <1>1, <1>2, <1>9, <1>13, <1>17, <2>2, <2>3
<1>. QED  BY <1>1, <1>3, <1>5, <1>18, <1>19, <1>20, <1>21

\* The words of a page are those whose number it is.
LEMMA WordsOfPage ==
  ASSUME NEW p \in Nat, NEW x \in Words(Base(p), PageWords)
  PROVE  x \in Nat /\ x \div PageWords = p
<1>. DEFINE b == PageWords
            d == p * b
            r == x - d
<1>1. b \in Nat /\ b >= 1
  BY SlabAssumption
<1>2. d \in Nat /\ d = b * p
  BY <1>1
<1>3. x \in d .. d + b - 1
  BY DEF Words, Base
<1>. HIDE DEF d
<1>4. r \in 0 .. b - 1 /\ x = d + r /\ x \in Nat
  BY <1>1, <1>2, <1>3
<1>. HIDE DEF r
<1>5. x = b * p + r
  BY <1>2, <1>4
<1>. HIDE DEF b
<1>6. x \div b = p
  <2>1. ASSUME NEW y \in Nat, NEW m \in 0 .. b - 1, y = b * p + m  PROVE y \div b = p
    BY <1>1, <2>1, DivisionFacts
  <2>. QED  BY <1>4, <1>5, <2>1
<1>. QED  BY <1>4, <1>6 DEF b

\* A request of one page is of level 0.
LEMMA OnePage == BpLevel(1) = 0
<1>1. /\ 0 \in 0 .. 1 /\ 2 ^ 0 >= 1 /\ \A k \in 0 .. 0 - 1 : 2 ^ k < 1
  BY PowerFacts
<1>2. \A l \in 0 .. 1 : (\A k \in 0 .. l - 1 : 2 ^ k < 1) => l = 0
  <2>1. SUFFICES ASSUME NEW l \in 0 .. 1, l # 0, \A k \in 0 .. l - 1 : 2 ^ k < 1  PROVE FALSE
    OBVIOUS
  <2>2. l = 1 /\ 0 \in 0 .. l - 1
    BY <2>1
  <2>3. 2 ^ 0 < 1
    BY <2>1, <2>2
  <2>. QED  BY <2>3, PowerFacts
<1>. DEFINE P(l) == 2 ^ l >= 1 /\ \A k \in 0 .. l - 1 : 2 ^ k < 1
<1>3. BpLevel(1) = CHOOSE l \in 0 .. 1 : P(l)
  BY DEF BpLevel
<1>4. P(0) /\ \A l \in 0 .. 1 : P(l) => l = 0
  BY <1>1, <1>2
<1>. HIDE DEF P
<1>. QED  BY <1>1, <1>3, <1>4

-----------------------------------------------------------------------------
(* The caches *)

\* A cache is as it was if nothing in its page has changed.
LEMMA CutKept ==
  ASSUME SInv, NEW t \in ObjSizes, cpu[t] # NoPage, cpu'[t] = cpu[t],
         objects \subseteq objects',
         \A o \in objects' \ objects : PageOf(o) # cpu[t].page,
         \A x \in DOMAIN link : x \div PageWords = cpu[t].page => x \in DOMAIN link' /\ link'[x] = link[x]
  PROVE  \E i \in 2 .. Chunks(t) - 1 : CutFrom(t, i)'
<1>. DEFINE p == cpu[t].page
<1>1. PICK i \in 2 .. Chunks(t) - 1 : CutFrom(t, i)
  BY DEF SInv, Caches
<1>2. p \in Page /\ p \in Nat
  <2>1. p \in Page
    BY <1>1 DEF CutFrom
  <2>2. 0 \in Level
    BY ConstantsAssumption DEF Level
  <2>. QED  BY <2>1, <2>2, GroupsFit
<1>3. LinkedFrom(link', p, t, i)
  <2>1. ASSUME NEW j \in i .. Chunks(t)
        PROVE  /\ Chunk(p, t, j) \in DOMAIN link'
               /\ link'[Chunk(p, t, j)] = IF j = Chunks(t) THEN Base(p) ELSE Chunk(p, t, j)
    <3>1. j \in 1 .. Chunks(t)
      BY <1>1
    <3>2. Chunk(p, t, j) \div PageWords = p
      BY <1>2, <3>1, ChunkFacts
    <3>3. /\ Chunk(p, t, j) \in DOMAIN link
          /\ link[Chunk(p, t, j)] = IF j = Chunks(t) THEN Base(p) ELSE Chunk(p, t, j)
      BY <1>1 DEF CutFrom, LinkedFrom
    <3>. QED  BY <3>2, <3>3
  <2>. QED  BY <2>1 DEF LinkedFrom
<1>4. \A o \in objects' : PageOf(o) = p => o.words = t /\ o.at < Chunk(p, t, i)
  BY <1>1 DEF CutFrom, GivenBefore
<1>5. \E o \in objects' : PageOf(o) = p
  BY <1>1 DEF CutFrom
<1>6. cpu'[t].page = p /\ cpu'[t].freeobj = Chunk(p, t, i)
  BY <1>1 DEF CutFrom
<1>. HIDE DEF p
<1>7. CutFrom(t, i)'
  BY <1>2, <1>3, <1>4, <1>5, <1>6
     DEF CutFrom, LinkedFrom, GivenBefore, Chunk, Base, PageOf, Page, Chunks
<1>. QED  BY <1>1, <1>7

\* A cache gives chunk i of page p, all of whose objects are in front of it, and the
\* links of the words map l lead on.
LEMMA GiveSInv ==
  ASSUME SInv, NEW s \in ObjSizes, NEW p \in Page, NEW l, NEW i \in 1 .. Chunks(s) - 1,
         LinkedFrom(l, p, s, i), GivenBefore(p, s, i),
         Single(p) \in held', held \subseteq held',
         \A x \in DOMAIN link : x \div PageWords # p => x \in DOMAIN l /\ l[x] = link[x],
         \A t \in ObjSizes \ {s} : cpu[t] # NoPage => cpu[t].page # p,
         Give(s, l, p, Chunk(p, s, i))
  PROVE  SInv'
<1>. DEFINE a == Chunk(p, s, i)
            c == Chunks(s)
            new == [at |-> a, words |-> s]
            next == a + s + 1
<1>1. /\ cpu' = [cpu EXCEPT ![s] = Advanced(l, p, next)]
      /\ link' = Without(l, Words(a, s))
      /\ objects' = objects \cup {new}
  BY DEF Give
<1>2. p \in Nat
  <2>1. 0 \in Level
    BY ConstantsAssumption DEF Level
  <2>. QED  BY <2>1, GroupsFit
<1>3. c \in Nat /\ c >= 2 /\ i \in 1 .. c /\ i + 1 \in 1 .. c /\ i < c /\ i \in Nat
  <2>1. 1 \in 1 .. c \/ c \notin Nat \/ c < 1
    OBVIOUS
  <2>2. c \in Nat /\ c >= 2
    <3>1. PageWords \in Nat /\ s + 1 \in Nat /\ s + 1 >= 1 /\ PageWords \div (s + 1) >= 2
      BY SlabAssumption
    <3>2. PageWords \div (s + 1) \in Nat
      BY <3>1, DivisionFacts
    <3>. QED  BY <3>1, <3>2 DEF Chunks
  <2>. QED  BY <2>2
<1>4. /\ s \in Nat /\ a \in Nat /\ a \div PageWords = p
      /\ Chunk(p, s, i + 1) = next
      /\ \A x \in Words(a, s) : x \in Nat /\ x \div PageWords = p
      /\ \A j \in 1 .. c : i < j => next <= Chunk(p, s, j)
  BY <1>2, <1>3, ChunkFacts
<1>5. Chunk(p, s, i + 1) \in Nat /\ ~is_bound(Chunk(p, s, i + 1)) /\ is_bound(Base(p))
  BY <1>2, <1>3, ChunkFacts
<1>6. /\ next \in DOMAIN l
      /\ l[next] = IF i + 1 = c THEN Base(p) ELSE next
  BY <1>3, <1>4 DEF LinkedFrom
<1>. HIDE DEF a, c, next
<1>7. Advanced(l, p, next) = IF i + 1 = c THEN NoPage ELSE [page |-> p, freeobj |-> next]
  BY <1>4, <1>5, <1>6 DEF Advanced, Deref
<1>8. SlabType /\ Placed /\ OneSize
  BY DEF SInv
<1>9. new.at = a /\ new.words = s /\ PageOf(new) = p
  BY <1>4 DEF PageOf
<1>. HIDE DEF new
<1>10. SlabType'
  <2>1. NoPage \in [page : Page \cup {None}, freeobj : Nat]
    BY DEF NoPage
  <2>2. cpu' \in [ObjSizes -> [page : Page \cup {None}, freeobj : Nat]]
    BY <1>1, <1>4, <1>5, <1>7, <1>8, <2>1 DEF SlabType
  <2>3. new \in [at : Nat, words : ObjSizes]
    BY <1>4 DEF new
  <2>. QED  BY <1>1, <1>8, <2>2, <2>3 DEF SlabType
<1>11. Placed'
  <2>1. ASSUME NEW o \in objects'
        PROVE  /\ PageOf(o) \in Page /\ Single(PageOf(o)) \in held'
               /\ \E k \in 1 .. Chunks(o.words) - 1 : o.at = Chunk(PageOf(o), o.words, k)
    <3>1. CASE o \in objects
      BY <1>8, <3>1 DEF Placed
    <3>2. CASE o = new
      <4>1. i \in 1 .. Chunks(new.words) - 1 /\ new.at = Chunk(PageOf(new), new.words, i)
        BY <1>9 DEF a
      <4>. QED  BY <1>9, <3>2, <4>1
    <3>. QED  BY <1>1, <3>1, <3>2
  <2>. QED  BY <2>1 DEF Placed
<1>12. OneSize'
  <2>1. \A o \in objects : PageOf(o) = p => o.words = s
    BY DEF GivenBefore
  <2>. QED  BY <1>1, <1>8, <1>9, <2>1 DEF OneSize
<1>13. /\ \A x \in DOMAIN l : x \notin Words(a, s) => x \in DOMAIN link' /\ link'[x] = l[x]
  BY <1>1 DEF Without
<1>14. Caches'
  <2>1. SUFFICES ASSUME NEW t \in ObjSizes, cpu'[t] # NoPage
                 PROVE  \E k \in 2 .. Chunks(t) - 1 : CutFrom(t, k)'
    BY DEF Caches, Chunks, NoPage
  <2>2. CASE t # s
    <3>1. cpu'[t] = cpu[t]
      BY <1>1, <1>8, <2>2 DEF SlabType
    <3>2. cpu[t] # NoPage /\ cpu[t].page # p
      BY <2>1, <2>2, <3>1
    <3>3. \A o \in objects' \ objects : PageOf(o) # cpu[t].page
      BY <1>1, <1>9, <3>2
    <3>4. \A x \in DOMAIN link :
             x \div PageWords = cpu[t].page => x \in DOMAIN link' /\ link'[x] = link[x]
      BY <1>4, <1>13, <3>2
    <3>. QED  BY <1>1, <3>1, <3>2, <3>3, <3>4, CutKept
  <2>3. CASE t = s
    <3>1. cpu'[s] = Advanced(l, p, next)
      BY <1>1, <1>8 DEF SlabType
    <3>2. i + 1 # c /\ cpu'[s] = [page |-> p, freeobj |-> next]
      BY <1>7, <2>1, <2>3, <3>1
    <3>3. i + 1 \in 2 .. c - 1
      BY <1>3, <3>2
    <3>4. LinkedFrom(link', p, s, i + 1)
      <4>1. ASSUME NEW j \in i + 1 .. Chunks(s)
            PROVE  /\ Chunk(p, s, j) \in DOMAIN link'
                   /\ link'[Chunk(p, s, j)] = IF j = Chunks(s) THEN Base(p) ELSE Chunk(p, s, j)
        <5>1. j \in i .. Chunks(s) /\ j \in 1 .. c /\ i < j
          BY <1>3 DEF c
        <5>2. /\ Chunk(p, s, j) \in DOMAIN l
              /\ l[Chunk(p, s, j)] = IF j = Chunks(s) THEN Base(p) ELSE Chunk(p, s, j)
          BY <5>1 DEF LinkedFrom
        <5>3. Chunk(p, s, j) \notin Words(a, s)
          <6>1. next <= Chunk(p, s, j) /\ Chunk(p, s, j) \in Nat
            BY <1>2, <1>4, <5>1, ChunkFacts DEF c
          <6>2. \A x \in Words(a, s) : x < next
            BY <1>4 DEF Words, next
          <6>3. \A x \in Words(a, s) : x \in Nat
            BY <1>4
          <6>4. next \in Nat
            BY <1>4 DEF next
          <6>. QED  BY <6>1, <6>2, <6>3, <6>4
        <5>. QED  BY <1>13, <5>2, <5>3
      <4>. QED  BY <4>1 DEF LinkedFrom
    <3>5. \A o \in objects' : PageOf(o) = p => o.words = s /\ o.at < next
      <4>1. SUFFICES ASSUME NEW o \in objects', PageOf(o) = p  PROVE o.words = s /\ o.at < next
        OBVIOUS
      <4>2. a < next /\ next \in Nat
        BY <1>4 DEF next
      <4>3. CASE o \in objects
        <5>1. o.words = s /\ o.at < a /\ o.at \in Nat
          BY <1>8, <4>1, <4>3 DEF GivenBefore, SlabType, a
        <5>. QED  BY <1>4, <4>2, <5>1
      <4>4. CASE o = new
        BY <1>9, <4>2, <4>4
      <4>. QED  BY <1>1, <4>3, <4>4
    <3>6. \E o \in objects' : PageOf(o) = p
      BY <1>1, <1>9
    <3>7. cpu'[s].page = p /\ cpu'[s].freeobj = Chunk(p, s, i + 1)
      BY <1>4, <3>2
    <3>8. CutFrom(s, i + 1)'
      BY <1>4, <3>4, <3>5, <3>6, <3>7
         DEF CutFrom, LinkedFrom, GivenBefore, Chunk, Base, PageOf, Page, Chunks
    <3>. QED  BY <2>3, <3>3, <3>8 DEF c
  <2>. QED  BY <2>2, <2>3
<1>. QED  BY <1>10, <1>11, <1>12, <1>14 DEF SInv

\* The caches and their objects are as they were, if no page with an object was given
\* back and no word of such a page was written.
LEMMA SInvKept ==
  ASSUME SInv, UNCHANGED <<cpu, objects>>,
         \A o \in objects : Single(PageOf(o)) \in held',
         \A x \in DOMAIN link :
            (\E o \in objects : PageOf(o) = x \div PageWords) => x \in DOMAIN link' /\ link'[x] = link[x]
  PROVE  SInv'
<1>1. SlabType'
  BY DEF SInv, SlabType, Page
<1>2. Placed'
  <2>1. \A o \in objects :
           /\ PageOf(o) \in Page /\ Single(PageOf(o)) \in held'
           /\ \E k \in 1 .. Chunks(o.words) - 1 : o.at = Chunk(PageOf(o), o.words, k)
    BY DEF SInv, Placed
  <2>. QED  BY <2>1 DEF Placed, PageOf, Single, Page, Chunks, Chunk, Base
<1>3. OneSize'
  BY DEF SInv, OneSize, PageOf
<1>4. Caches'
  <2>1. SUFFICES ASSUME NEW t \in ObjSizes, cpu[t] # NoPage
                 PROVE  \E i \in 2 .. Chunks(t) - 1 : CutFrom(t, i)'
    BY DEF Caches, Chunks, NoPage
  <2>2. \E o \in objects : PageOf(o) = cpu[t].page
    BY <2>1 DEF SInv, Caches, CutFrom
  <2>. QED  BY <2>1, <2>2, CutKept
<1>. QED  BY <1>1, <1>2, <1>3, <1>4 DEF SInv

\* Two caches are not at the same page.
LEMMA OwnPages ==
  ASSUME SInv, NEW s \in ObjSizes, NEW t \in ObjSizes, cpu[s] # NoPage, cpu[t] # NoPage,
         cpu[s].page = cpu[t].page
  PROVE  s = t
<1>1. PICK i \in 2 .. Chunks(s) - 1 : CutFrom(s, i)
  BY DEF SInv, Caches
<1>2. PICK j \in 2 .. Chunks(t) - 1 : CutFrom(t, j)
  BY DEF SInv, Caches
<1>3. PICK o \in objects : PageOf(o) = cpu[s].page
  BY <1>1 DEF CutFrom
<1>. QED  BY <1>1, <1>2, <1>3 DEF CutFrom, GivenBefore

-----------------------------------------------------------------------------
(* The operations *)

\* An object of the page that the cache is at.
LEMMA NextObject ==
  ASSUME SInv, NEW s \in ObjSizes, ~is_bound(Offered(cpu[s])),
         Give(s, link, cpu[s].page, Offered(cpu[s])), UNCHANGED vars
  PROVE  SInv'
<1>. DEFINE p == cpu[s].page
<1>1. is_bound(0)
  BY SlabAssumption DEF is_bound
<1>2. cpu[s] # NoPage
  BY <1>1 DEF Offered, NoPage
<1>3. PICK i \in 2 .. Chunks(s) - 1 : CutFrom(s, i)
  BY <1>2 DEF SInv, Caches
<1>4. p \in Page /\ p \in Nat
  <2>1. p \in Page
    BY <1>3 DEF CutFrom
  <2>2. 0 \in Level
    BY ConstantsAssumption DEF Level
  <2>. QED  BY <2>1, <2>2, GroupsFit
<1>5. Chunks(s) \in Nat /\ i \in 1 .. Chunks(s) - 1 /\ i \in 1 .. Chunks(s) /\ i # Chunks(s)
      /\ i \in i .. Chunks(s)
  <2>1. Chunks(s) \in Int
    BY SlabAssumption DEF Chunks
  <2>. QED  BY <1>3, <2>1
<1>6. Offered(cpu[s]) = Chunk(p, s, i)
  <2>1. cpu[s].freeobj = Chunk(p, s, i) /\ Chunk(p, s, i) # 0
    BY <1>1, <1>3, <1>4, <1>5, ChunkFacts DEF CutFrom
  <2>2. Chunk(p, s, i) \in DOMAIN link /\ link[Chunk(p, s, i)] = Chunk(p, s, i)
    BY <1>3, <1>5 DEF CutFrom, LinkedFrom
  <2>. QED  BY <2>1, <2>2 DEF Offered, Deref
<1>7. LinkedFrom(link, p, s, i) /\ GivenBefore(p, s, i)
  BY <1>3 DEF CutFrom
<1>8. Single(p) \in held /\ held' = held
  <2>1. \E o \in objects : PageOf(o) = p
    BY <1>3 DEF CutFrom
  <2>. QED  BY <2>1 DEF SInv, Placed, vars
<1>9. \A t \in ObjSizes \ {s} : cpu[t] # NoPage => cpu[t].page # p
  BY <1>2, OwnPages
<1>10. Give(s, link, p, Chunk(p, s, i))
  BY <1>6
<1>. HIDE DEF p
<1>. QED  BY <1>4, <1>5, <1>7, <1>8, <1>9, <1>10, GiveSInv

\* What is allocated from the buddy system has nothing in common with what is held.
LEMMA NewGroup ==
  ASSUME IInv, NEW g \in FreeParts, NEW l \in Level, Allocated(g, l), NEW h \in held
  PROVE  h # [page |-> g.page, level |-> l] /\ Cells(h) \cap Group(g.page, l) = {}
<1>. DEFINE top == [page |-> g.page, level |-> l]
<1>1. held' = held \cup {top}
  BY DEF Allocated
<1>2. g \in Parts /\ h \in Parts
  BY FreePartsFacts DEF IInv, Tiling
<1>3. h # top
  <2>1. SUFFICES ASSUME h = top  PROVE FALSE
    OBVIOUS
  <2>2. g.page \in Cells(g) /\ g.page \in Cells(h)
    BY <1>2, <2>1, PartFacts
  <2>3. g = h
    BY <2>2 DEF IInv, Tiling, Apart
  <2>. QED  BY <2>3 DEF IInv
<1>4. \A x \in held', y \in held' : x # y => Cells(x) \cap Cells(y) = {}
  <2>1. IInv'
    BY AllocatedIInv
  <2>2. Apart(FreeParts \cup held)'
    BY <2>1 DEF IInv, Tiling
  <2>. QED  BY <2>2 DEF Apart, Cells, Group
<1>5. Cells(top) = Group(g.page, l)
  BY DEF Cells
<1>. HIDE DEF top
<1>6. Cells(h) \cap Cells(top) = {}
  BY <1>1, <1>3, <1>4
<1>. QED  BY <1>3, <1>5, <1>6 DEF top

\* The links of a new page lead from chunk to chunk.
LEMMA NewLinks ==
  ASSUME NEW p \in Nat, NEW s \in ObjSizes, NEW m
  PROVE  LET l == WithLinks(m, Links(p, s))
         IN  /\ LinkedFrom(l, p, s, 1)
             /\ Deref(l, Base(p) + s + 1) = Chunk(p, s, 1)
             /\ \A x \in DOMAIN m : x \div PageWords # p => x \in DOMAIN l /\ l[x] = m[x]
<1>. DEFINE L == Links(p, s)
            l == WithLinks(m, L)
            c == Chunks(s)
<1>1. c \in Nat /\ c >= 2 /\ s \in Nat
  <2>1. PageWords \in Nat /\ s \in Nat /\ PageWords \div (s + 1) >= 2
    BY SlabAssumption
  <2>. QED  BY <2>1 DEF Chunks
<1>2. /\ DOMAIN L = {Chunk(p, s, j) : j \in 1 .. c}
      /\ \A a \in DOMAIN L : L[a] = IF a = Chunk(p, s, c) THEN Base(p) ELSE a
  BY DEF Links, Chunk
<1>3. \A x : x \in DOMAIN L => x \in DOMAIN l /\ l[x] = L[x]
  BY DEF WithLinks
<1>4. \A x \in DOMAIN m : x \notin DOMAIN L => x \in DOMAIN l /\ l[x] = m[x]
  BY DEF WithLinks
<1>. HIDE DEF L, l
<1>5. \A j \in 1 .. c : Chunk(p, s, j) = Chunk(p, s, c) => j = c
  <2>1. SUFFICES ASSUME NEW j \in 1 .. c, j # c  PROVE Chunk(p, s, j) # Chunk(p, s, c)
    OBVIOUS
  <2>2. j < c /\ c \in 1 .. c
    BY <1>1, <2>1
  <2>3. Chunk(p, s, j) + s + 1 <= Chunk(p, s, c) /\ Chunk(p, s, j) \in Nat
    BY <2>1, <2>2, ChunkFacts
  <2>. QED  BY <1>1, <2>3
<1>. HIDE DEF c
<1>6. \A j \in 1 .. c : /\ Chunk(p, s, j) \in DOMAIN l
                        /\ l[Chunk(p, s, j)] = IF j = c THEN Base(p) ELSE Chunk(p, s, j)
  BY <1>2, <1>3, <1>5
<1>7. LinkedFrom(l, p, s, 1)
  BY <1>6 DEF LinkedFrom, c
<1>8. Deref(l, Base(p) + s + 1) = Chunk(p, s, 1)
  <2>1. 1 \in 1 .. c /\ 1 # c
    BY <1>1
  <2>2. Chunk(p, s, 1) = Base(p) + s + 1
    <3>1. Base(p) \in Nat
      BY SlabAssumption DEF Base
    <3>2. Chunk(p, s, 1) = Base(p) + (s + 1)
      BY <1>1 DEF Chunk
    <3>. QED  BY <1>1, <3>1, <3>2
  <2>. QED  BY <1>6, <2>1, <2>2 DEF Deref
<1>9. \A x \in DOMAIN m : x \div PageWords # p => x \in DOMAIN l /\ l[x] = m[x]
  <2>1. \A j \in 1 .. c : Chunk(p, s, j) \div PageWords = p
    BY ChunkFacts DEF c
  <2>. QED  BY <1>2, <1>4, <2>1
<1>. QED  BY <1>7, <1>8, <1>9 DEF l, L

\* The first object of a new page.
LEMMA NewPage ==
  ASSUME IInv, SInv, NEW s \in ObjSizes, Alloc(1), NEW l,
         l = WithLinks(link, Links(answer', s)),
         Give(s, l, answer', Deref(l, Base(answer') + s + 1))
  PROVE  SInv'
<1>1. PICK g \in FreeParts : Allocated(g, 0)
  BY AllocFacts, OnePage
<1>. DEFINE p == answer'
<1>2. p = g.page /\ held' = held \cup {Single(p)} /\ 0 \in Level
  BY <1>1 DEF Allocated, Single
<1>3. p \in Page /\ p \in Nat
  BY <1>2, FreePartsFacts, PartFacts
<1>4. Single(p) \notin held
  BY <1>1, <1>2, NewGroup DEF Single
<1>5. \A o \in objects : PageOf(o) # p
  BY <1>4 DEF SInv, Placed
<1>6. \A t \in ObjSizes : cpu[t] # NoPage => cpu[t].page # p
  BY <1>5 DEF SInv, Caches, CutFrom
<1>7. GivenBefore(p, s, 1)
  BY <1>5 DEF GivenBefore
<1>8. /\ LinkedFrom(l, p, s, 1)
      /\ Deref(l, Base(p) + s + 1) = Chunk(p, s, 1)
      /\ \A x \in DOMAIN link : x \div PageWords # p => x \in DOMAIN l /\ l[x] = link[x]
  BY <1>3, NewLinks
<1>9. 1 \in 1 .. Chunks(s) - 1
  <2>1. PageWords \in Nat /\ s \in Nat /\ PageWords \div (s + 1) >= 2
    BY SlabAssumption
  <2>. QED  BY <2>1 DEF Chunks
<1>10. Single(p) \in held' /\ held \subseteq held' /\ Give(s, l, p, Chunk(p, s, 1))
  BY <1>2, <1>8
<1>. HIDE DEF p
<1>. QED  BY <1>3, <1>6, <1>7, <1>8, <1>9, <1>10, GiveSInv

\* Pages for a large request: no word of a page with objects is among them.
LEMMA PagesSInv ==
  ASSUME IInv, SInv, NEW n \in Nat, kmalloc_pages(n)
  PROVE  SInv'
<1>. DEFINE l == BpLevel(n)
            written == UNION {Words(Base(p), PageWords) : p \in Group(answer', l)}
<1>1. PICK g \in FreeParts : Allocated(g, l)
  BY AllocFacts DEF kmalloc_pages
<1>2. /\ link' = Without(link, written)
      /\ UNCHANGED <<cpu, objects>>
      /\ answer' = g.page /\ held \subseteq held' /\ l \in Level
  BY <1>1 DEF kmalloc_pages, Allocated
<1>. HIDE DEF l
<1>3. g.page \in Nat /\ 2 ^ l \in Nat
  <2>1. l \in Nat
    BY <1>2 DEF Level
  <2>. QED  BY <2>1, FreePartsFacts, PartFacts, PowerFacts
<1>4. \A x \in written : x \div PageWords \in Group(g.page, l)
  <2>1. SUFFICES ASSUME NEW p \in Group(g.page, l), NEW x \in Words(Base(p), PageWords)
                 PROVE  x \div PageWords \in Group(g.page, l)
    BY <1>2
  <2>2. p \in Nat
    BY <1>3 DEF Group
  <2>. QED  BY <2>1, <2>2, WordsOfPage
<1>. HIDE DEF written
<1>5. \A o \in objects : Single(PageOf(o)) \in held /\ PageOf(o) \in Page
  BY DEF SInv, Placed
<1>6. \A o \in objects : PageOf(o) \notin Group(g.page, l)
  <2>1. SUFFICES ASSUME NEW o \in objects  PROVE PageOf(o) \notin Group(g.page, l)
    OBVIOUS
  <2>2. Cells(Single(PageOf(o))) \cap Group(g.page, l) = {}
    BY <1>1, <1>2, <1>5, NewGroup
  <2>3. PageOf(o) \in Cells(Single(PageOf(o)))
    <3>1. Single(PageOf(o)) \in Parts /\ Single(PageOf(o)).page = PageOf(o)
      BY <1>5 DEF IInv, Tiling, Single
    <3>2. Single(PageOf(o)).page \in Cells(Single(PageOf(o)))
      BY <3>1, PartFacts
    <3>. QED  BY <3>1, <3>2
  <2>. QED  BY <2>2, <2>3
<1>7. \A x \in DOMAIN link :
         (\E o \in objects : PageOf(o) = x \div PageWords) => x \in DOMAIN link' /\ link'[x] = link[x]
  <2>1. ASSUME NEW x \in DOMAIN link, NEW o \in objects, PageOf(o) = x \div PageWords
        PROVE  x \notin written
    BY <1>4, <1>6, <2>1
  <2>. QED  BY <1>2, <2>1 DEF Without
<1>8. \A o \in objects : Single(PageOf(o)) \in held'
  BY <1>2, <1>5
<1>. QED  BY <1>2, <1>7, <1>8, SInvKept

\* A group that is given back has no objects.
LEMMA FreeSInv ==
  ASSUME SInv, NEW h \in held, kfree(h)
  PROVE  SInv'
<1>1. /\ h.page \notin SlabPages /\ held' = held \ {h}
      /\ cpu' = cpu /\ link' = link /\ objects' = objects
  BY DEF kfree, Free, slab
<1>2. ASSUME NEW o \in objects  PROVE Single(PageOf(o)) \in held'
  <2>1. PageOf(o) \in SlabPages /\ Single(PageOf(o)) \in held
    BY DEF SInv, Placed, SlabPages, PageOf
  <2>2. Single(PageOf(o)).page = PageOf(o)
    BY DEF Single
  <2>. QED  BY <1>1, <2>1, <2>2
<1>. QED  BY <1>1, <1>2, SInvKept

-----------------------------------------------------------------------------
(* What holds in every state *)

MemInv == IInv /\ SInv

\* No page is cut and no object given before the first request.
LEMMA InitMemInv == MemInit => MemInv
<1>. SUFFICES ASSUME MemInit  PROVE MemInv
  OBVIOUS
<1>1. IInv
  BY InitIInv DEF MemInit
<1>2. cpu = [s \in ObjSizes |-> NoPage] /\ objects = {}
  BY DEF MemInit
<1>3. SlabType /\ Placed /\ OneSize
  BY <1>2 DEF SlabType, Placed, OneSize, NoPage
<1>4. Caches
  BY <1>2 DEF Caches
<1>. QED  BY <1>1, <1>3, <1>4 DEF MemInv, SInv

\* An alloc_pages that succeeds keeps the invariant of the buddy system.
LEMMA AllocIInv ==
  ASSUME IInv, NEW n \in Nat, Alloc(n)
  PROVE  IInv'
<1>1. PICK g \in FreeParts : Allocated(g, BpLevel(n))
  BY AllocFacts
<1>2. BpLevel(n) \in Level
  BY <1>1 DEF Allocated
<1>. QED  BY <1>1, <1>2, AllocatedIInv

\* A step that leaves the lists, the levels and the held groups alone keeps it too.
LEMMA SameIInv ==
  ASSUME IInv, UNCHANGED <<bplevel, freelist, nr_free, held>>, answer' \in Page \cup {None}
  PROVE  IInv'
BY DEF IInv, TypeOK, Tiling, Starts, Merged, Lists, FreeParts, Listed

\* kmalloc and kfree keep the invariants of the buddy system and of the caches.
LEMMA SpecMemInv == ~HeldPairs => (MemSpec => []MemInv)
<1>. SUFFICES ASSUME ~HeldPairs  PROVE MemSpec => []MemInv
  OBVIOUS
<1>1. MemInv /\ [MemNext]_memory => MemInv'
  <2>. SUFFICES ASSUME IInv, SInv, [MemNext]_memory  PROVE IInv' /\ SInv'
    BY DEF MemInv
  <2>1. answer \in Page \cup {None}
    BY DEF IInv, TypeOK
  <2>2. ASSUME NEW s \in ObjSizes, slab_alloc(s)  PROVE IInv' /\ SInv'
    <3>1. CASE /\ ~is_bound(Offered(cpu[s]))
               /\ Give(s, link, cpu[s].page, Offered(cpu[s]))
               /\ UNCHANGED vars
      <4>1. IInv'
        BY <2>1, <3>1, SameIInv DEF vars
      <4>. QED  BY <3>1, <4>1, NextObject
    <3>2. CASE /\ Alloc(1)
               /\ LET l == WithLinks(link, Links(answer', s))
                  IN  Give(s, l, answer', Deref(l, Base(answer') + s + 1))
      <4>1. IInv'
        BY <3>2, AllocIInv
      <4>. QED  BY <3>2, <4>1, NewPage
    <3>. QED  BY <2>2, <3>1, <3>2 DEF slab_alloc
  <2>3. ASSUME NEW n \in PageNums \ {0}, kmalloc_pages(n)  PROVE IInv' /\ SInv'
    <3>1. n \in Nat
      BY ConstantsAssumption
    <3>2. IInv'
      BY <2>3, <3>1, AllocIInv DEF kmalloc_pages
    <3>. QED  BY <2>3, <3>1, <3>2, PagesSInv
  <2>4. ASSUME NEW n \in PageNums \ {0}, kmalloc_refused(n)  PROVE IInv' /\ SInv'
    <3>1. answer' \in Page \cup {None} /\ UNCHANGED <<bplevel, freelist, nr_free, held>>
          /\ cpu' = cpu /\ link' = link /\ objects' = objects
      BY <2>4 DEF kmalloc_refused, Refuse, slab
    <3>2. \A o \in objects : Single(PageOf(o)) \in held'
      BY <3>1 DEF SInv, Placed
    <3>3. SInv'
      BY <3>1, <3>2, SInvKept
    <3>. QED  BY <3>1, <3>3, SameIInv
  <2>5. ASSUME NEW h \in held, kfree(h)  PROVE IInv' /\ SInv'
    <3>1. Free(h)
      BY <2>5 DEF kfree
    <3>2. PICK k \in Level : Freed(h, k)
      BY <3>1, FreeFacts
    <3>3. IInv'
      BY <3>2, FreedIInv
    <3>. QED  BY <2>5, <3>3, FreeSInv
  <2>6. CASE UNCHANGED memory
    <3>1. UNCHANGED vars /\ cpu' = cpu /\ link' = link /\ objects' = objects
      BY <2>6 DEF memory, slab
    <3>2. held' = held
      BY <3>1 DEF vars
    <3>3. \A o \in objects : Single(PageOf(o)) \in held'
      BY <3>2 DEF SInv, Placed
    <3>4. SInv'
      BY <3>1, <3>3, SInvKept
    <3>5. IInv'
      BY <2>1, <3>1, SameIInv DEF vars
    <3>. QED  BY <3>4, <3>5
  <2>. QED  BY <2>2, <2>3, <2>4, <2>5, <2>6 DEF MemNext
<1>. QED  BY <1>1, InitMemInv, PTL DEF MemSpec

\* The words of an object are words of its page, behind slab_head.
LEMMA ObjectWords ==
  ASSUME SInv, NEW o \in objects
  PROVE  /\ PageOf(o) \in Nat /\ o.words \in ObjSizes /\ o.words \in Nat /\ o.at \in Nat
         /\ \A x \in Words(o.at, o.words) :
               /\ x \in Nat /\ x \div PageWords = PageOf(o)
               /\ x \in Words(Base(PageOf(o)) + 2, PageWords - 2)
<1>1. o.words \in ObjSizes /\ o.words \in Nat /\ o.at \in Nat
  BY SlabAssumption DEF SInv, SlabType
<1>2. PageOf(o) \in Nat
  <2>1. 0 \in Level /\ PageOf(o) \in Page
    BY ConstantsAssumption DEF Level, SInv, Placed
  <2>. QED  BY <2>1, GroupsFit
<1>3. PICK k \in 1 .. Chunks(o.words) - 1 : o.at = Chunk(PageOf(o), o.words, k)
  BY DEF SInv, Placed
<1>4. k \in 1 .. Chunks(o.words) /\ k < Chunks(o.words)
  <2>1. Chunks(o.words) \in Int
    BY <1>1, SlabAssumption DEF Chunks
  <2>. QED  BY <1>3, <2>1
<1>. QED  BY <1>1, <1>2, <1>3, <1>4, ChunkFacts

\* The objects that slab_alloc gives never share a word, and each lies in a page that
\* the buddy system gave the cache for it, behind the head of the slab: no run of
\* kmalloc and kfree lets two callers write to the same word.
THEOREM ObjectsApartHolds == ~HeldPairs => (MemSpec => []ObjectsApart)
<1>. SUFFICES ASSUME ~HeldPairs  PROVE MemSpec => []ObjectsApart
  OBVIOUS
<1>1. MemInv => ObjectsApart
  <2>. SUFFICES ASSUME SInv  PROVE ObjectsApart
    BY DEF MemInv
  <2>1. ASSUME NEW o \in objects, NEW q \in objects, o # q,
               NEW x \in Words(o.at, o.words), x \in Words(q.at, q.words)
        PROVE  FALSE
    <3>1. PageOf(o) = PageOf(q) /\ x \in Nat
      BY <2>1, ObjectWords
    <3>2. o.words = q.words
      BY <3>1 DEF SInv, OneSize
    <3>. DEFINE s == o.words
                p == PageOf(o)
    <3>3. s \in ObjSizes /\ s \in Nat /\ p \in Nat
      BY ObjectWords
    <3>4. o.at # q.at
      <4>1. o \in [at : Nat, words : ObjSizes] /\ q \in [at : Nat, words : ObjSizes]
        BY DEF SInv, SlabType
      <4>. QED  BY <2>1, <3>2, <4>1
    <3>5. PICK i \in 1 .. Chunks(s) - 1 : o.at = Chunk(p, s, i)
      BY DEF SInv, Placed
    <3>6. PICK j \in 1 .. Chunks(s) - 1 : q.at = Chunk(p, s, j)
      BY <3>1, <3>2 DEF SInv, Placed
    <3>7. x \in o.at .. o.at + s - 1 /\ x \in q.at .. q.at + s - 1
      BY <2>1, <3>2 DEF Words
    <3>. HIDE DEF s, p
    <3>8. i \in 1 .. Chunks(s) /\ j \in 1 .. Chunks(s)
      <4>1. Chunks(s) \in Int
        BY <3>3, SlabAssumption DEF Chunks
      <4>. QED  BY <3>5, <3>6, <4>1
    <3>9. i < j \/ j < i
      BY <3>4, <3>5, <3>6
    <3>10. o.at \in Nat /\ q.at \in Nat
      BY ObjectWords
    <3>11. CASE i < j
      <4>1. o.at + s + 1 <= q.at
        BY <3>3, <3>5, <3>6, <3>8, <3>11, ChunkFacts
      <4>. QED  BY <3>1, <3>3, <3>7, <3>10, <4>1
    <3>12. CASE j < i
      <4>1. q.at + s + 1 <= o.at
        BY <3>3, <3>5, <3>6, <3>8, <3>12, ChunkFacts
      <4>. QED  BY <3>1, <3>3, <3>7, <3>10, <4>1
    <3>. QED  BY <3>9, <3>11, <3>12
  <2>2. ASSUME NEW o \in objects
        PROVE  /\ [page |-> PageOf(o), level |-> 0] \in held
               /\ Words(o.at, o.words) \subseteq Words(Base(PageOf(o)) + 2, PageWords - 2)
    BY ObjectWords DEF SInv, Placed, Single
  <2>. QED  BY <2>1, <2>2 DEF ObjectsApart, PageOf
<1>2. MemSpec => []MemInv
  BY SpecMemInv
<1>. QED  BY <1>1, <1>2, PTL

\* The next link of every cache lies in the cache's own page, which is held, and nothing
\* that the owners of objects or of other pages write has reached it.
THEOREM LinksIntactHolds == ~HeldPairs => (MemSpec => []LinksIntact)
<1>. SUFFICES ASSUME ~HeldPairs  PROVE MemSpec => []LinksIntact
  OBVIOUS
<1>1. MemInv => LinksIntact
  <2>. SUFFICES ASSUME SInv, NEW s \in ObjSizes, cpu[s] # NoPage
                PROVE  /\ cpu[s].freeobj \in DOMAIN link
                       /\ cpu[s].freeobj \div PageWords = cpu[s].page
                       /\ [page |-> cpu[s].page, level |-> 0] \in held
    BY DEF MemInv, LinksIntact
  <2>1. PICK i \in 2 .. Chunks(s) - 1 : CutFrom(s, i)
    BY DEF SInv, Caches
  <2>2. PICK o \in objects : PageOf(o) = cpu[s].page
    BY <2>1 DEF CutFrom
  <2>3. cpu[s].page \in Nat /\ [page |-> cpu[s].page, level |-> 0] \in held
    BY <2>2, ObjectWords DEF SInv, Placed, Single
  <2>4. i \in i .. Chunks(s) /\ i \in 1 .. Chunks(s)
    <3>1. Chunks(s) \in Int
      BY SlabAssumption DEF Chunks
    <3>. QED  BY <2>1, <3>1
  <2>5. Chunk(cpu[s].page, s, i) \in DOMAIN link
    BY <2>1, <2>4 DEF CutFrom, LinkedFrom
  <2>6. Chunk(cpu[s].page, s, i) \div PageWords = cpu[s].page
    BY <2>3, <2>4, ChunkFacts
  <2>. QED  BY <2>1, <2>3, <2>5, <2>6 DEF CutFrom
<1>2. MemSpec => []MemInv
  BY SpecMemInv
<1>. QED  BY <1>1, <1>2, PTL

\* Under kmalloc and kfree too, every page is in exactly one group: the pages that the
\* caches cut into objects are not among those that the buddy system gives out.
THEOREM EveryPageOnceForKmalloc == ~HeldPairs => (MemSpec => []EveryPageOnce)
<1>. SUFFICES ASSUME ~HeldPairs  PROVE MemSpec => []EveryPageOnce
  OBVIOUS
<1>1. MemInv => EveryPageOnce
  BY EveryPageOnceNow DEF MemInv
<1>2. MemSpec => []MemInv
  BY SpecMemInv
<1>. QED  BY <1>1, <1>2, PTL

-----------------------------------------------------------------------------
(* The boot memory manager *)

BootTypes == {r.type : r \in BootRequests} \cup {Boot!_MM_KERNEL}
BootIntervals == {i \in [start : Nat, end : Nat, type : BootTypes] : i.start <= i.end}

\* The intervals of the table share no page, and all their pages are used.
Recorded(info, used) ==
    /\ info \in Seq(BootIntervals)
    /\ \A k \in 1 .. Len(info) : PagesOf(info[k]) \subseteq used
    /\ \A k, m \in 1 .. Len(info) : k # m => PagesOf(info[k]) \cap PagesOf(info[m]) = {}

\* The table has interval i.
InTable(info, i) ==
    \E k \in 1 .. Len(info) : info[k].type = i.type /\ PagesOf(i) \subseteq PagesOf(info[k])

\* What find_pages finds is free.
FreeFrom(used, n, e, i) ==
    i # Boot!None => i \in Nat /\ i + n <= e /\ (i .. i + n - 1) \cap used = {}

\* The loop of find_pages always goes on further behind, and what it stops at is free.
LEMMA FindPagesFacts ==
  ASSUME NEW used \in SUBSET Nat, NEW n \in Nat \ {0}, NEW s \in Nat, NEW e \in Nat,
         NEW align \in Nat \ {0}
  PROVE  FreeFrom(used, n, e, Boot!find_pages(used, n, s, e, align))
<1>. DEFINE taken(i) == (i .. i + n - 1) \cap used \cap 0 .. e - 1
            At(f, i) == IF i >= e THEN Boot!None
                        ELSE IF i \in used THEN f[i + 1]
                        ELSE IF taken(i) # {} THEN f[Boot!Min(taken(i)) + align]
                        ELSE IF i + n <= e THEN i ELSE Boot!None
            Is(f, m) == f = [i \in Nat |-> IF i < m THEN Boot!None ELSE At(f, i)]
            B == {k \in 0 .. e : ~(\E f : Is(f, e - k))}
<1>1. ASSUME NEW i \in Nat, i \notin used, taken(i) # {}
      PROVE  Boot!Min(taken(i)) + align \in Nat /\ Boot!Min(taken(i)) + align > i
  <2>1. taken(i) \in SUBSET Nat
    OBVIOUS
  <2>2. \E x \in taken(i) : \A y \in taken(i) : x <= y
    <3>. HIDE DEF taken
    <3>. QED  BY <1>1, <2>1, LeastExists
  <2>3. Boot!Min(taken(i)) \in taken(i)
    <3>. HIDE DEF taken
    <3>. QED  BY <2>2 DEF Boot!Min
  <2>4. Boot!Min(taken(i)) \in Nat /\ Boot!Min(taken(i)) >= i
    <3>1. \A x \in taken(i) : x \in Nat /\ x >= i
      OBVIOUS
    <3>. HIDE DEF taken
    <3>. QED  BY <2>3, <3>1
  <2>. HIDE DEF taken
  <2>. QED  BY <2>4
<1>. HIDE DEF taken
<1>2. B = {}
  <2>1. SUFFICES ASSUME B # {}  PROVE FALSE
    OBVIOUS
  <2>2. PICK m \in B : \A k \in B : m <= k
    <3>1. B \in SUBSET Nat
      OBVIOUS
    <3>. HIDE DEF B
    <3>. QED  BY <2>1, <3>1, LeastExists
  <2>3. m # 0
    <3>. DEFINE f == [i \in Nat |-> Boot!None]
    <3>1. \A i \in Nat : (IF i < e - 0 THEN Boot!None ELSE At(f, i)) = Boot!None
      OBVIOUS
    <3>2. Is(f, e - 0)
      <4>. HIDE DEF At
      <4>. QED  BY <3>1
    <3>. HIDE DEF f, Is
    <3>. QED  BY <2>2, <3>2
  <2>4. m \in 1 .. e /\ m - 1 \in 0 .. e /\ m - 1 \notin B
    <3>1. m \in 1 .. e
      BY <2>3
    <3>2. m - 1 \notin B
      <4>. HIDE DEF B
      <4>. QED  BY <2>2, <3>1
    <3>. QED  BY <3>1, <3>2
  <2>. DEFINE p == e - m
  <2>5. PICK f : Is(f, p + 1)
    <3>1. PICK f : Is(f, e - (m - 1))
      <4>. HIDE DEF Is
      <4>. QED  BY <2>4
    <3>2. e - (m - 1) = p + 1
      BY <2>4
    <3>. HIDE DEF Is, p
    <3>. QED  BY <3>1, <3>2
  <2>6. p \in Nat /\ p < e
    BY <2>4
  <2>. HIDE DEF p
  <2>. DEFINE g == [i \in Nat |-> IF i = p THEN At(f, p) ELSE f[i]]
  <2>7. \A i \in Nat : i > p => g[i] = f[i]
    BY <2>6
  <2>8. ASSUME NEW i \in Nat, i >= p  PROVE At(g, i) = At(f, i)
    <3>1. i \in used => g[i + 1] = f[i + 1]
      BY <2>6, <2>7, <2>8
    <3>2. i \notin used /\ taken(i) # {} =>
             g[Boot!Min(taken(i)) + align] = f[Boot!Min(taken(i)) + align]
      BY <1>1, <2>6, <2>7, <2>8
    <3>. HIDE DEF g
    <3>. QED  BY <3>1, <3>2
  <2>9. ASSUME NEW i \in Nat  PROVE g[i] = IF i < p THEN Boot!None ELSE At(g, i)
    <3>1. CASE i = p
      <4>1. g[i] = At(f, p) /\ At(g, p) = At(f, p)
        <5>. HIDE DEF At
        <5>. QED  BY <2>6, <2>8, <3>1
      <4>. HIDE DEF g, At
      <4>. QED  BY <2>6, <3>1, <4>1
    <3>2. CASE i # p
      <4>1. g[i] = f[i]
        BY <3>2
      <4>2. f[i] = IF i < p + 1 THEN Boot!None ELSE At(f, i)
        <5>. HIDE DEF At
        <5>. QED  BY <2>5
      <4>3. i > p => At(g, i) = At(f, i)
        <5>. HIDE DEF g, At
        <5>. QED  BY <2>6, <2>8
      <4>. HIDE DEF g, At
      <4>. QED  BY <2>6, <3>2, <4>1, <4>2, <4>3
    <3>. QED  BY <3>1, <3>2
  <2>10. Is(g, p)
    <3>1. g = [i \in Nat |-> g[i]]
      OBVIOUS
    <3>. HIDE DEF g, At
    <3>. QED  BY <2>9, <3>1
  <2>. HIDE DEF Is, g
  <2>. QED  BY <2>2, <2>10 DEF p
<1>3. \E f : f = [i \in Nat |-> At(f, i)]
  <2>1. PICK f : Is(f, e - e)
    <3>. HIDE DEF Is
    <3>. QED  BY <1>2
  <2>2. \A i \in Nat : ~(i < e - e)
    OBVIOUS
  <2>3. f = [i \in Nat |-> At(f, i)]
    <3>. HIDE DEF At
    <3>. QED  BY <2>1, <2>2
  <2>. HIDE DEF At
  <2>. QED  BY <2>3
<1>. DEFINE from == CHOOSE f : f = [i \in Nat |-> At(f, i)]
<1>4. from = [i \in Nat |-> At(from, i)]
  <2>. HIDE DEF At
  <2>. QED  BY <1>3
<1>5. Boot!find_pages(used, n, s, e, align) = from[Boot!Align(s, align)]
  BY DEF Boot!find_pages, taken
<1>. HIDE DEF from
<1>. DEFINE C == {k \in 0 .. e : ~FreeFrom(used, n, e, from[e - k])}
<1>6. \A i \in Nat : i >= e => from[i] = Boot!None
  BY <1>4
<1>7. C = {}
  <2>1. SUFFICES ASSUME C # {}  PROVE FALSE
    OBVIOUS
  <2>2. PICK m \in C : \A k \in C : m <= k
    <3>1. C \in SUBSET Nat
      OBVIOUS
    <3>. HIDE DEF C
    <3>. QED  BY <2>1, <3>1, LeastExists
  <2>. DEFINE p == e - m
  <2>3. p \in 0 .. e /\ ~FreeFrom(used, n, e, from[p])
    <3>. HIDE DEF FreeFrom
    <3>. QED  OBVIOUS
  <2>4. ASSUME NEW i \in Nat, i > p  PROVE FreeFrom(used, n, e, from[i])
    <3>1. CASE i >= e
      BY <1>6, <3>1 DEF FreeFrom
    <3>2. CASE i < e
      <4>1. e - i \in 0 .. e /\ ~(m <= e - i) /\ e - (e - i) = i
        BY <2>4, <3>2
      <4>2. e - i \notin C
        <5>. HIDE DEF C
        <5>. QED  BY <2>2, <4>1
      <4>. HIDE DEF FreeFrom
      <4>. QED  BY <4>1, <4>2
    <3>. QED  BY <3>1, <3>2
  <2>. HIDE DEF p, C
  <2>5. p < e
    BY <2>3, <1>6 DEF FreeFrom
  <2>6. from[p] = At(from, p)
    <3>. HIDE DEF At
    <3>. QED  BY <1>4, <2>3
  <2>7. CASE p \in used
    <3>1. from[p] = from[p + 1]
      BY <2>5, <2>6, <2>7
    <3>. QED  BY <2>3, <2>4, <3>1
  <2>8. CASE p \notin used /\ taken(p) # {}
    <3>1. from[p] = from[Boot!Min(taken(p)) + align]
      BY <2>3, <2>5, <2>6, <2>8
    <3>. QED  BY <1>1, <2>3, <2>4, <2>8, <3>1
  <2>9. CASE p \notin used /\ taken(p) = {}
    <3>1. from[p] = IF p + n <= e THEN p ELSE Boot!None
      BY <2>3, <2>5, <2>6, <2>9
    <3>2. p + n <= e => (p .. p + n - 1) \cap used = {}
      BY <2>3, <2>9 DEF taken
    <3>. QED  BY <2>3, <3>1, <3>2 DEF FreeFrom
  <2>. QED  BY <2>7, <2>8, <2>9
<1>8. Boot!Align(s, align) \in Nat
  <2>1. s + align - 1 \in Nat /\ align >= 1
    OBVIOUS
  <2>2. (s + align - 1) \div align \in Nat
    BY <2>1, DivisionFacts
  <2>. QED  BY <2>2 DEF Boot!Align
<1>. DEFINE a == Boot!Align(s, align)
<1>9. CASE a >= e
  BY <1>5, <1>6, <1>8, <1>9 DEF FreeFrom
<1>10. CASE a < e
  <2>1. e - a \in 0 .. e /\ e - (e - a) = a
    BY <1>8, <1>10
  <2>. HIDE DEF FreeFrom, a
  <2>2. FreeFrom(used, n, e, from[a])
    BY <1>7, <2>1
  <2>. QED  BY <1>5, <2>2 DEF a
<1>. QED  BY <1>8, <1>9, <1>10

\* The table out has all that info has, and interval new if Kept says so.
Entered(info, new, out, used) ==
    /\ Recorded(out, used \cup PagesOf(new))
    /\ \A i \in BootIntervals : InTable(info, i) => InTable(out, i)

\* One record grows by the new interval.
LEMMA GrownFacts ==
  ASSUME NEW info, NEW used, Recorded(info, used), NEW new \in BootIntervals,
         PagesOf(new) \cap used = {}, NEW k \in 1 .. Len(info), NEW i \in BootIntervals,
         i.type = info[k].type, i.type = new.type,
         PagesOf(i) = PagesOf(info[k]) \cup PagesOf(new)
  PROVE  LET out == [info EXCEPT ![k] = i]
         IN  Entered(info, new, out, used) /\ InTable(out, new)
<1>. DEFINE out == [info EXCEPT ![k] = i]
<1>1. info \in Seq(BootIntervals) /\ Len(info) \in Nat /\ DOMAIN info = 1 .. Len(info)
  BY LenProperties DEF Recorded
<1>2. out \in Seq(BootIntervals) /\ Len(out) = Len(info)
  BY <1>1
<1>3. \A j \in 1 .. Len(info) : out[j] = IF j = k THEN i ELSE info[j]
  BY <1>1
<1>. HIDE DEF out
<1>4. \A j \in 1 .. Len(info) : PagesOf(info[j]) \subseteq PagesOf(out[j]) /\ out[j].type = info[j].type
  <2>. HIDE DEF PagesOf
  <2>. QED  BY <1>3
<1>5. \A j \in 1 .. Len(out) : PagesOf(out[j]) \subseteq used \cup PagesOf(new)
  BY <1>2, <1>3 DEF Recorded
<1>6. \A j, m \in 1 .. Len(out) : j # m => PagesOf(out[j]) \cap PagesOf(out[m]) = {}
  <2>1. ASSUME NEW j \in 1 .. Len(info), j # k
        PROVE  PagesOf(out[j]) \cap PagesOf(out[k]) = {} /\ PagesOf(out[k]) \cap PagesOf(out[j]) = {}
    <3>1. PagesOf(info[j]) \cap PagesOf(info[k]) = {} /\ PagesOf(info[j]) \subseteq used
      BY <2>1 DEF Recorded
    <3>2. PagesOf(out[k]) = PagesOf(info[k]) \cup PagesOf(new) /\ out[j] = info[j]
      BY <1>3, <2>1
    <3>. QED  BY <3>1, <3>2
  <2>2. ASSUME NEW j \in 1 .. Len(info), NEW m \in 1 .. Len(info), j # k, m # k, j # m
        PROVE  PagesOf(out[j]) \cap PagesOf(out[m]) = {}
    BY <1>3, <2>2 DEF Recorded
  <2>. QED  BY <1>2, <2>1, <2>2
<1>7. \A h \in BootIntervals : InTable(info, h) => InTable(out, h)
  BY <1>2, <1>4 DEF InTable
<1>8. InTable(out, new)
  <2>1. out[k].type = new.type /\ PagesOf(new) \subseteq PagesOf(out[k])
    BY <1>3
  <2>. QED  BY <1>2, <2>1 DEF InTable
<1>. QED  BY <1>2, <1>5, <1>6, <1>7, <1>8 DEF Entered, Recorded, out

\* A record grows by the new interval and the record behind, which goes.
LEMMA BridgedFacts ==
  ASSUME NEW info, NEW used, Recorded(info, used), NEW new \in BootIntervals,
         PagesOf(new) \cap used = {}, NEW k \in 1 .. Len(info), k + 1 \in 1 .. Len(info),
         NEW i \in BootIntervals, i.type = info[k].type, i.type = new.type,
         i.type = info[k + 1].type,
         PagesOf(i) = PagesOf(info[k]) \cup PagesOf(new) \cup PagesOf(info[k + 1])
  PROVE  LET out == RemoveAt([info EXCEPT ![k] = i], k + 1)
         IN  Entered(info, new, out, used) /\ InTable(out, new)
<1>. DEFINE mid == [info EXCEPT ![k] = i]
            out == RemoveAt(mid, k + 1)
            From(j) == IF j <= k THEN j ELSE j + 1
            To(j) == IF j = k + 1 THEN k ELSE IF j <= k THEN j ELSE j - 1
<1>1. info \in Seq(BootIntervals) /\ Len(info) \in Nat /\ DOMAIN info = 1 .. Len(info)
  BY LenProperties DEF Recorded
<1>2. mid \in Seq(BootIntervals) /\ Len(mid) = Len(info)
  BY <1>1
<1>3. \A j \in 1 .. Len(info) : mid[j] = IF j = k THEN i ELSE info[j]
  BY <1>1
<1>. HIDE DEF mid
<1>4. /\ out \in Seq(BootIntervals) /\ Len(out) = Len(info) - 1
      /\ \A j \in 1 .. Len(out) : out[j] = mid[From(j)]
  <2>1. /\ out \in Seq(BootIntervals) /\ Len(out) = Len(mid) - 1
        /\ \A j \in 1 .. Len(mid) - 1 : out[j] = IF j < k + 1 THEN mid[j] ELSE mid[j + 1]
    <3>1. k + 1 \in 1 .. Len(mid)
      BY <1>2
    <3>. QED  BY <1>2, <3>1, RemoveAtFacts
  <2>. HIDE DEF out
  <2>. QED  BY <1>1, <1>2, <2>1
<1>. HIDE DEF out
<1>5. \A j \in 1 .. Len(out) : From(j) \in 1 .. Len(info) /\ From(j) # k + 1 /\ (From(j) = k <=> j = k)
  BY <1>1, <1>4
<1>6. \A j, m \in 1 .. Len(out) : From(j) = From(m) => j = m
  BY <1>1, <1>4
<1>7. \A j \in 1 .. Len(info) : To(j) \in 1 .. Len(out) /\ (j # k + 1 => From(To(j)) = j)
      /\ (j = k + 1 => To(j) = k /\ From(k) = k)
  BY <1>1, <1>4
<1>. HIDE DEF From, To
<1>8. \A j \in 1 .. Len(out) : out[j] = IF j = k THEN i ELSE info[From(j)]
  BY <1>3, <1>4, <1>5
<1>9. k \in 1 .. Len(out) /\ out[k] = i
  BY <1>1, <1>4, <1>8
<1>10. \A j \in 1 .. Len(info) : PagesOf(info[j]) \subseteq used
  BY DEF Recorded
<1>11. \A j, m \in 1 .. Len(info) : j # m => PagesOf(info[j]) \cap PagesOf(info[m]) = {}
  BY DEF Recorded
<1>12. k \in 1 .. Len(info) /\ k + 1 \in 1 .. Len(info) /\ k # k + 1
  BY <1>1
<1>. HIDE DEF PagesOf
<1>13. \A j \in 1 .. Len(out) : PagesOf(out[j]) \subseteq used \cup PagesOf(new)
  <2>1. PagesOf(i) \subseteq used \cup PagesOf(new)
    BY <1>10, <1>12
  <2>. QED  BY <1>5, <1>8, <1>10, <2>1
<1>14. ASSUME NEW j \in 1 .. Len(out), j # k
       PROVE  PagesOf(out[j]) \cap PagesOf(i) = {}
  <2>1. out[j] = info[From(j)] /\ From(j) \in 1 .. Len(info) /\ From(j) # k /\ From(j) # k + 1
    BY <1>5, <1>8, <1>14
  <2>2. /\ PagesOf(out[j]) \cap PagesOf(info[k]) = {}
        /\ PagesOf(out[j]) \cap PagesOf(info[k + 1]) = {}
        /\ PagesOf(out[j]) \subseteq used
    BY <1>10, <1>11, <1>12, <2>1
  <2>. QED  BY <2>2
<1>15. \A j, m \in 1 .. Len(out) : j # m => PagesOf(out[j]) \cap PagesOf(out[m]) = {}
  <2>1. ASSUME NEW j \in 1 .. Len(out), NEW m \in 1 .. Len(out), j # m, j # k, m # k
        PROVE  PagesOf(out[j]) \cap PagesOf(out[m]) = {}
    <3>1. out[j] = info[From(j)] /\ out[m] = info[From(m)] /\ From(j) # From(m)
          /\ From(j) \in 1 .. Len(info) /\ From(m) \in 1 .. Len(info)
      BY <1>5, <1>6, <1>8, <2>1
    <3>. QED  BY <1>11, <3>1
  <2>2. \A j \in 1 .. Len(out) : j # k => /\ PagesOf(out[j]) \cap PagesOf(out[k]) = {}
                                          /\ PagesOf(out[k]) \cap PagesOf(out[j]) = {}
    BY <1>9, <1>14
  <2>. QED  BY <2>1, <2>2
<1>16. ASSUME NEW h \in BootIntervals, InTable(info, h)  PROVE InTable(out, h)
  <2>1. PICK j \in 1 .. Len(info) : info[j].type = h.type /\ PagesOf(h) \subseteq PagesOf(info[j])
    BY <1>16 DEF InTable
  <2>2. CASE j = k \/ j = k + 1
    <3>1. out[k].type = h.type /\ PagesOf(h) \subseteq PagesOf(out[k])
      BY <1>9, <2>1, <2>2
    <3>. QED  BY <1>9, <3>1 DEF InTable
  <2>3. CASE j # k /\ j # k + 1
    <3>1. To(j) \in 1 .. Len(out) /\ From(To(j)) = j
      BY <1>7, <2>3
    <3>2. To(j) # k
      BY <1>5, <1>9, <2>3, <3>1
    <3>3. out[To(j)] = info[j]
      BY <1>8, <3>1, <3>2
    <3>. QED  BY <2>1, <3>1, <3>3 DEF InTable
  <2>. QED  BY <2>2, <2>3
<1>17. InTable(out, new)
  <2>1. out[k].type = new.type /\ PagesOf(new) \subseteq PagesOf(out[k])
    BY <1>9
  <2>. QED  BY <1>9, <2>1 DEF InTable
<1>. QED  BY <1>4, <1>13, <1>15, <1>16, <1>17 DEF Entered, Recorded, out, mid

\* insert_mminfo joins the new interval with the records of its type that it continues,
\* or adds one; nothing is lost, and only a full table does not take it.
LEMMA InsertFacts ==
  ASSUME NEW info, NEW used, Recorded(info, used), NEW new \in BootIntervals,
         PagesOf(new) \cap used = {}
  PROVE  LET out == Boot!insert_mminfo(info, new)
         IN  /\ Entered(info, new, out, used)
             /\ ~Boot!Full(info, new) => InTable(out, new)
<1>. DEFINE N == Boot!Neighbours(info, new)
            k == Boot!Min(N)
<1>1. info \in Seq(BootIntervals) /\ Len(info) \in Nat /\ DOMAIN info = 1 .. Len(info)
  BY LenProperties DEF Recorded
<1>2. \A j \in 1 .. Len(info) : info[j] \in BootIntervals
  BY <1>1, ElementOfSeq
<1>3. CASE N # {}
  <2>1. k \in N
    <3>1. N \in SUBSET Nat
      BY <1>1 DEF Boot!Neighbours
    <3>. HIDE DEF N
    <3>2. \E x \in N : \A y \in N : x <= y
      BY <1>3, <3>1, LeastExists
    <3>. QED  BY <3>2 DEF Boot!Min
  <2>2. /\ k \in 1 .. Len(info) /\ info[k].type = new.type
        /\ Boot!Behind(info[k], new.start) \/ Boot!Before(info[k], new.end)
    BY <1>1, <2>1 DEF Boot!Neighbours
  <2>3. Boot!insert_mminfo(info, new) = Boot!Joined(info, k, new) /\ ~Boot!Full(info, new)
    BY <1>3 DEF Boot!insert_mminfo, Boot!Full
  <2>. HIDE DEF k
  <2>4. /\ info[k] \in BootIntervals /\ info[k].start \in Nat /\ info[k].end \in Nat
        /\ info[k].start <= info[k].end /\ info[k].type \in BootTypes
        /\ new.start \in Nat /\ new.end \in Nat /\ new.start <= new.end
    BY <1>2, <2>2 DEF BootIntervals
  <2>5. CASE ~Boot!Behind(info[k], new.start)
    <3>. DEFINE i == [info[k] EXCEPT !.start = new.start]
    <3>1. info[k].start = new.end + 1
      BY <2>2, <2>5 DEF Boot!Before
    <3>2. i \in BootIntervals /\ i.type = info[k].type /\ i.start = new.start /\ i.end = info[k].end
      BY <2>4, <3>1 DEF BootIntervals
    <3>3. PagesOf(i) = PagesOf(info[k]) \cup PagesOf(new)
      <4>. HIDE DEF i
      <4>. QED  BY <2>4, <3>1, <3>2 DEF PagesOf
    <3>4. Boot!Joined(info, k, new) = [info EXCEPT ![k] = i]
      BY <2>5 DEF Boot!Joined
    <3>. HIDE DEF i
    <3>5. Entered(info, new, [info EXCEPT ![k] = i], used) /\ InTable([info EXCEPT ![k] = i], new)
      <4>1. i.type = new.type
        BY <2>2, <3>2
      <4>. HIDE DEF PagesOf
      <4>. QED  BY <2>2, <3>2, <3>3, <4>1, GrownFacts
    <3>. QED  BY <2>3, <3>4, <3>5
  <2>6. CASE Boot!Behind(info[k], new.start) /\ ~Boot!Bridges(info, k, new)
    <3>. DEFINE i == [info[k] EXCEPT !.end = new.end]
    <3>1. info[k].end + 1 = new.start
      BY <2>6 DEF Boot!Behind
    <3>2. i \in BootIntervals /\ i.type = info[k].type /\ i.start = info[k].start /\ i.end = new.end
      BY <2>4, <3>1 DEF BootIntervals
    <3>3. PagesOf(i) = PagesOf(info[k]) \cup PagesOf(new)
      <4>. HIDE DEF i
      <4>. QED  BY <2>4, <3>1, <3>2 DEF PagesOf
    <3>4. Boot!Joined(info, k, new) = [info EXCEPT ![k] = i]
      BY <2>6 DEF Boot!Joined
    <3>. HIDE DEF i
    <3>5. Entered(info, new, [info EXCEPT ![k] = i], used) /\ InTable([info EXCEPT ![k] = i], new)
      <4>1. i.type = new.type
        BY <2>2, <3>2
      <4>. HIDE DEF PagesOf
      <4>. QED  BY <2>2, <3>2, <3>3, <4>1, GrownFacts
    <3>. QED  BY <2>3, <3>4, <3>5
  <2>7. CASE Boot!Behind(info[k], new.start) /\ Boot!Bridges(info, k, new)
    <3>. DEFINE i == [info[k] EXCEPT !.end = info[k + 1].end]
    <3>1. info[k].end + 1 = new.start
      BY <2>7 DEF Boot!Behind
    <3>2. k + 1 \in 1 .. Len(info) /\ info[k + 1].type = new.type /\ info[k + 1].start = new.end + 1
      BY <1>1, <2>7 DEF Boot!Bridges, Boot!Before
    <3>3. info[k + 1].start \in Nat /\ info[k + 1].end \in Nat /\ info[k + 1].start <= info[k + 1].end
      BY <1>2, <3>2 DEF BootIntervals
    <3>4. i \in BootIntervals /\ i.type = info[k].type /\ i.start = info[k].start
          /\ i.end = info[k + 1].end
      BY <2>4, <3>1, <3>2, <3>3 DEF BootIntervals
    <3>5. PagesOf(i) = PagesOf(info[k]) \cup PagesOf(new) \cup PagesOf(info[k + 1])
      <4>. HIDE DEF i
      <4>1. i.start = info[k].start /\ i.end = info[k + 1].end
        BY <3>4
      <4>2. \A a, b, c \in Nat : a <= b /\ b <= c => a .. c = (a .. b) \cup (b + 1 .. c)
        OBVIOUS
      <4>3. info[k].start .. new.end = (info[k].start .. info[k].end) \cup (new.start .. new.end)
        BY <2>4, <3>1, <4>2
      <4>4. info[k].start .. info[k + 1].end
              = (info[k].start .. new.end) \cup (info[k + 1].start .. info[k + 1].end)
        <5>1. info[k].start <= new.end /\ new.end <= info[k + 1].end
          BY <2>4, <3>1, <3>2, <3>3
        <5>2. info[k].start .. info[k + 1].end
                = (info[k].start .. new.end) \cup (new.end + 1 .. info[k + 1].end)
          <6>. DEFINE c == info[k + 1].end
          <6>1. c \in Nat
            BY <3>3
          <6>. HIDE DEF c
          <6>2. info[k].start .. c = (info[k].start .. new.end) \cup (new.end + 1 .. c)
            BY <2>4, <4>2, <5>1, <6>1 DEF c
          <6>. QED  BY <6>2 DEF c
        <5>. QED  BY <3>2, <5>2
      <4>. QED  BY <4>1, <4>3, <4>4 DEF PagesOf
    <3>6. Boot!Joined(info, k, new) = RemoveAt([info EXCEPT ![k] = i], k + 1)
      BY <2>7 DEF Boot!Joined, Boot!RemoveAt, RemoveAt
    <3>. HIDE DEF i
    <3>. QED  BY <2>2, <2>3, <3>2, <3>4, <3>5, <3>6, BridgedFacts
  <2>. QED  BY <2>5, <2>6, <2>7
<1>4. CASE N = {} /\ Boot!Full(info, new)
  <2>1. Boot!insert_mminfo(info, new) = info
    BY <1>4 DEF Boot!insert_mminfo
  <2>. QED  BY <1>4, <2>1 DEF Entered, Recorded
<1>5. CASE N = {} /\ ~Boot!Full(info, new)
  <2>. DEFINE out == Append(info, new)
  <2>1. Boot!insert_mminfo(info, new) = out
    BY <1>5 DEF Boot!insert_mminfo
  <2>2. /\ out \in Seq(BootIntervals) /\ Len(out) = Len(info) + 1
        /\ out[Len(info) + 1] = new
        /\ \A j \in 1 .. Len(info) : out[j] = info[j]
    BY <1>1, AppendProperties
  <2>. HIDE DEF out
  <2>3. \A j \in 1 .. Len(out) : j \in 1 .. Len(info) \/ j = Len(info) + 1
    BY <1>1, <2>2
  <2>4. \A j \in 1 .. Len(info) : j \in 1 .. Len(out) /\ j # Len(info) + 1
    BY <1>1, <2>2
  <2>5. Len(info) + 1 \in 1 .. Len(out)
    BY <1>1, <2>2
  <2>. HIDE DEF PagesOf
  <2>6. \A j \in 1 .. Len(out) : PagesOf(out[j]) \subseteq used \cup PagesOf(new)
    BY <2>2, <2>3 DEF Recorded
  <2>7. \A j \in 1 .. Len(info) : PagesOf(info[j]) \cap PagesOf(new) = {}
    BY DEF Recorded
  <2>8. \A j, m \in 1 .. Len(out) : j # m => PagesOf(out[j]) \cap PagesOf(out[m]) = {}
    <3>1. SUFFICES ASSUME NEW j \in 1 .. Len(out), NEW m \in 1 .. Len(out), j # m
                   PROVE  PagesOf(out[j]) \cap PagesOf(out[m]) = {}
      OBVIOUS
    <3>2. CASE j \in 1 .. Len(info) /\ m \in 1 .. Len(info)
      BY <2>2, <3>1, <3>2 DEF Recorded
    <3>3. CASE j \in 1 .. Len(info) /\ m = Len(info) + 1
      BY <2>2, <2>7, <3>3
    <3>4. CASE m \in 1 .. Len(info) /\ j = Len(info) + 1
      BY <2>2, <2>7, <3>4
    <3>. QED  BY <2>3, <3>1, <3>2, <3>3, <3>4
  <2>9. ASSUME NEW h \in BootIntervals, InTable(info, h)  PROVE InTable(out, h)
    BY <2>2, <2>4, <2>9 DEF InTable
  <2>10. InTable(out, new)
    BY <2>2, <2>5 DEF InTable
  <2>. QED  BY <2>1, <2>2, <2>6, <2>8, <2>9, <2>10 DEF Entered, Recorded
<1>. QED  BY <1>3, <1>4, <1>5

-----------------------------------------------------------------------------
(* The invariant of the start *)

\* No page is used that is not there; the table is Recorded; what was given is in it, and
\* no page was given twice.
BootInv ==
    /\ bmm.used \subseteq 0 .. max_pfn - 1 /\ bmm.last_alloc_end \in 0 .. max_pfn - 1
    /\ Recorded(bmm.info, bmm.used)
    /\ boot_given \subseteq BootIntervals
    /\ \A i \in boot_given : InTable(bmm.info, i)
    /\ \A i, j \in boot_given : i # j => PagesOf(i) \cap PagesOf(j) = {}

LEMMA BootInitSafe == Boot!Init => BootInv
<1>. SUFFICES ASSUME Boot!Init  PROVE BootInv
  OBVIOUS
<1>. DEFINE i == Boot!KernelInfo
<1>1. KernelPages \in Nat \ {0} /\ max_pfn \in Nat /\ KernelPages <= max_pfn
  BY MemoryAssumption
<1>2. i \in BootIntervals /\ PagesOf(i) = 0 .. KernelPages - 1
  BY <1>1 DEF Boot!KernelInfo, BootIntervals, BootTypes, PagesOf
<1>3. /\ bmm.used = 0 .. KernelPages - 1 /\ bmm.last_alloc_end = KernelPages - 1
      /\ bmm.info = <<i>> /\ boot_given = {i}
  BY DEF Boot!Init
<1>. HIDE DEF i
<1>4. /\ <<i>> \in Seq(BootIntervals) /\ Len(<<i>>) = 1 /\ <<i>>[1] = i
      /\ \A k \in 1 .. 1 : k = 1
  BY <1>2
<1>5. Recorded(bmm.info, bmm.used)
  <2>. HIDE DEF PagesOf
  <2>. QED  BY <1>2, <1>3, <1>4 DEF Recorded
<1>6. InTable(bmm.info, i)
  BY <1>3, <1>4 DEF InTable
<1>. QED  BY <1>1, <1>2, <1>3, <1>5, <1>6 DEF BootInv

\* A request gets pages that nobody has, or what it gets is not returned.
LEMMA BootAllocSafe ==
  ASSUME BootInv, NEW r, r.pages \in Nat \ {0}, r.align \in Nat \ {0}, r.type \in BootTypes,
         Boot!bootmm_alloc_pages(r)
  PROVE  BootInv'
<1>. DEFINE page == Boot!FoundPage(r)
            new == [start |-> page, end |-> page + r.pages - 1, type |-> r.type]
            used == bmm.used
            info == bmm.info
<1>1. /\ page # Boot!None
      /\ bmm'.used = used \cup (new.start .. new.end) /\ bmm'.last_alloc_end = new.end
      /\ bmm'.info = Boot!insert_mminfo(info, new)
      /\ boot_given' = boot_given \cup (IF Boot!Full(info, new) THEN {} ELSE {new})
  BY DEF Boot!bootmm_alloc_pages
<1>2. /\ used \in SUBSET Nat /\ used \subseteq 0 .. max_pfn - 1
      /\ bmm.last_alloc_end \in 0 .. max_pfn - 1 /\ max_pfn \in Nat
  BY MemoryAssumption DEF BootInv
<1>3. page \in Nat /\ page + r.pages <= max_pfn /\ (page .. page + r.pages - 1) \cap used = {}
  <2>. DEFINE front == Boot!find_pages(used, r.pages, 0, bmm.last_alloc_end, r.align)
              rear == Boot!find_pages(used, r.pages, bmm.last_alloc_end + 1, max_pfn, r.align)
  <2>1. FreeFrom(used, r.pages, bmm.last_alloc_end, front)
    BY <1>2, FindPagesFacts
  <2>2. bmm.last_alloc_end + 1 \in Nat
    BY <1>2
  <2>3. FreeFrom(used, r.pages, max_pfn, rear)
    BY <1>2, <2>2, FindPagesFacts
  <2>4. page = IF rear # Boot!None THEN rear ELSE front
    BY DEF Boot!FoundPage
  <2>. HIDE DEF page, front, rear
  <2>. QED  BY <1>1, <1>2, <2>1, <2>3, <2>4 DEF FreeFrom
<1>. HIDE DEF page
<1>4. new \in BootIntervals /\ PagesOf(new) \cap used = {} /\ new.end \in 0 .. max_pfn - 1
  BY <1>2, <1>3 DEF BootIntervals, PagesOf
<1>5. PagesOf(new) = new.start .. new.end /\ PagesOf(new) \subseteq 0 .. max_pfn - 1
  BY <1>2, <1>3 DEF PagesOf
<1>. HIDE DEF new
<1>6. /\ Entered(info, new, bmm'.info, used)
      /\ ~Boot!Full(info, new) => InTable(bmm'.info, new)
  BY <1>1, <1>4, InsertFacts DEF BootInv
<1>7. bmm'.used = used \cup PagesOf(new)
  BY <1>1, <1>5
<1>8. Recorded(bmm'.info, bmm'.used)
  BY <1>6, <1>7 DEF Entered
<1>9. bmm'.used \subseteq 0 .. max_pfn - 1 /\ bmm'.last_alloc_end \in 0 .. max_pfn - 1
  BY <1>1, <1>2, <1>4, <1>5, <1>7
<1>10. boot_given' \subseteq BootIntervals /\ \A i \in boot_given' : InTable(bmm'.info, i)
  BY <1>1, <1>4, <1>6 DEF Entered, BootInv
<1>11. \A i, j \in boot_given' : i # j => PagesOf(i) \cap PagesOf(j) = {}
  <2>1. \A i \in boot_given : PagesOf(i) \subseteq used
    <3>1. \A i \in boot_given : InTable(info, i)
      BY DEF BootInv
    <3>. HIDE DEF PagesOf
    <3>. QED  BY <3>1 DEF InTable, BootInv, Recorded
  <2>2. \A i \in boot_given : PagesOf(i) \cap PagesOf(new) = {} /\ PagesOf(new) \cap PagesOf(i) = {}
    <3>. HIDE DEF PagesOf
    <3>. QED  BY <1>4, <2>1
  <2>. HIDE DEF PagesOf
  <2>. QED  BY <1>1, <2>2 DEF BootInv
<1>. QED  BY <1>8, <1>9, <1>10, <1>11 DEF BootInv

\* Whatever is asked for during the start, no page is given twice, each interval that
\* is given is recorded, and the buddy system begins behind all of them, unless the
\* last page is the first one of a group.
THEOREM BootApartHolds == SystemSpec => []BootApart
<1>1. BootInv => BootApart
  <2>. SUFFICES ASSUME BootInv  PROVE BootApart
    OBVIOUS
  <2>1. /\ DOMAIN bmm.info = 1 .. Len(bmm.info) /\ Len(bmm.info) \in Nat
        /\ \A k \in DOMAIN bmm.info : bmm.info[k] \in BootIntervals
    <3>1. bmm.info \in Seq(BootIntervals)
      BY DEF BootInv, Recorded
    <3>. QED  BY <3>1, LenProperties, ElementOfSeq
  <2>2. \A i \in boot_given : \E k \in DOMAIN bmm.info :
            bmm.info[k].type = i.type /\ PagesOf(i) \subseteq PagesOf(bmm.info[k])
    <3>. HIDE DEF PagesOf
    <3>. QED  BY <2>1 DEF BootInv, InTable
  <2>3. \A k, m \in DOMAIN bmm.info :
            /\ PagesOf(bmm.info[k]) \subseteq bmm.used
            /\ k # m => PagesOf(bmm.info[k]) \cap PagesOf(bmm.info[m]) = {}
    <3>. HIDE DEF PagesOf
    <3>. QED  BY <2>1 DEF BootInv, Recorded
  <2>4. ASSUME kernel_end_pfn % BuddyGroup # 0, NEW i \in boot_given
        PROVE  PagesOf(i) \cap BuddyPages = {}
    <3>. DEFINE Ends == {bmm.info[k].end : k \in DOMAIN bmm.info}
                Behind == {max_pfn - x : x \in Ends}
    <3>1. PICK k \in DOMAIN bmm.info : PagesOf(i) \subseteq PagesOf(bmm.info[k])
      <4>. HIDE DEF PagesOf
      <4>. QED  BY <2>2
    <3>2. \A m \in DOMAIN bmm.info : bmm.info[m].end \in 0 .. max_pfn - 1
      <4>1. SUFFICES ASSUME NEW m \in DOMAIN bmm.info  PROVE bmm.info[m].end \in 0 .. max_pfn - 1
        OBVIOUS
      <4>2. bmm.info[m].end \in PagesOf(bmm.info[m])
        BY <2>1 DEF BootIntervals, PagesOf
      <4>. HIDE DEF PagesOf
      <4>. QED  BY <2>3, <4>2 DEF BootInv
    <3>3. max_pfn \in Nat /\ Ends # {} /\ Ends \subseteq 0 .. max_pfn - 1
      BY <3>1, <3>2, MemoryAssumption
    <3>4. kernel_end_pfn \in Ends /\ \A x \in Ends : x <= kernel_end_pfn
      <4>. HIDE DEF Ends
      <4>1. Behind \in SUBSET Nat /\ Behind # {}
        <5>1. \A x \in Ends : max_pfn - x \in Nat
          BY <3>3
        <5>2. Ends # {}
          BY <3>3
        <5>. QED  BY <5>1, <5>2
      <4>2. PICK b \in Behind : \A y \in Behind : b <= y
        <5>. HIDE DEF Behind
        <5>. QED  BY <4>1, LeastExists
      <4>3. PICK x \in Ends : b = max_pfn - x
        OBVIOUS
      <4>4. \A y \in Ends : x >= y
        <5>1. \A y \in Ends : max_pfn - y \in Behind
          OBVIOUS
        <5>2. \A y \in Ends : y \in Int
          BY <3>3
        <5>. HIDE DEF Behind
        <5>. QED  BY <3>3, <4>2, <4>3, <5>1, <5>2
      <4>5. kernel_end_pfn = CHOOSE z \in Ends : \A y \in Ends : z >= y
        BY DEF kernel_end_pfn, Max, Ends
      <4>6. kernel_end_pfn \in Ends /\ \A y \in Ends : kernel_end_pfn >= y
        BY <4>4, <4>5
      <4>. QED  BY <3>3, <4>6
    <3>. DEFINE g == BuddyGroup
                e == kernel_end_pfn
    <3>5. bmm.info[k].end \in Ends
      OBVIOUS
    <3>6. e \in Nat /\ bmm.info[k].end <= e
      <4>. HIDE DEF Ends, e
      <4>1. e \in Ends /\ bmm.info[k].end <= e
        BY <3>4, <3>5 DEF e
      <4>2. \A x \in Ends : x \in Nat
        BY <3>3
      <4>. QED  BY <4>1, <4>2
    <3>7. g \in Nat /\ g >= 1
      <4>1. MAX_BUDDY_ORDER \in Nat
        BY ConstantsAssumption
      <4>. QED  BY <4>1, PowerFacts DEF BuddyGroup
    <3>. HIDE DEF Ends, e, g
    <3>8. buddy_start_pfn = ((e + g - 1) \div g) * g
      BY DEF buddy_start_pfn, Boot!Align, e, g
    <3>9. e % g # 0
      BY <2>4 DEF e, g
    <3>10. buddy_start_pfn \in Nat /\ e < buddy_start_pfn
      <4>. DEFINE n == (e + g - 1) \div g
                  q == e \div g
      <4>1. e + g - 1 \in Nat
        BY <3>6, <3>7
      <4>2. n \in Nat /\ (e + g - 1) % g \in 0 .. g - 1 /\ e + g - 1 = g * n + ((e + g - 1) % g)
        BY <3>7, <4>1, DivisionFacts
      <4>3. q \in Nat /\ e % g \in 0 .. g - 1 /\ e = g * q + (e % g)
        BY <3>6, <3>7, DivisionFacts
      <4>. HIDE DEF n, q
      <4>. DEFINE a == g * n
                  b == g * q
      <4>4. a \in Nat /\ b \in Nat /\ n * g = a
        BY <3>7, <4>2, <4>3
      <4>5. a # e
        <5>1. 0 \in 0 .. g - 1 /\ a + 0 = a
          BY <3>7, <4>4
        <5>2. e = g * n + 0 => e % g = 0
          <6>1. \A d \in Nat : \A r \in 0 .. g - 1 : e = g * d + r => e \div g = d /\ e % g = r
            BY <3>6, <3>7, DivisionFacts
          <6>2. n \in Nat
            BY <4>2
          <6>. HIDE DEF a, b
          <6>. QED  BY <5>1, <6>1, <6>2
        <5>. QED  BY <3>9, <5>1, <5>2
      <4>6. a >= e
        <5>. HIDE DEF a
        <5>. QED  BY <3>6, <3>7, <4>2, <4>4 DEF a
      <4>. HIDE DEF a, b
      <4>. QED  BY <3>6, <3>8, <4>4, <4>5, <4>6 DEF n
    <3>11. \A p \in PagesOf(bmm.info[k]) : p \in Int /\ p <= bmm.info[k].end
      BY <2>1 DEF PagesOf, BootIntervals
    <3>12. \A p \in BuddyPages : p \in Int /\ p >= buddy_start_pfn
      BY <3>7, <3>10, MemoryAssumption DEF BuddyPages, buddy_end_pfn, g
    <3>13. bmm.info[k].end \in Nat
      BY <2>1 DEF BootIntervals
    <3>. HIDE DEF PagesOf
    <3>. QED  BY <3>1, <3>6, <3>10, <3>11, <3>12, <3>13
  <2>. HIDE DEF PagesOf
  <2>. QED  BY <2>2, <2>3, <2>4 DEF BootApart, BootInv
<1>2. SystemInit => BootInv
  BY BootInitSafe DEF SystemInit
<1>3. BootInv /\ [SystemNext]_<<boot, memory, shell_tree>> => BootInv'
  <2>. SUFFICES ASSUME BootInv, [SystemNext]_<<boot, memory, shell_tree>>
                PROVE  BootInv'
    OBVIOUS
  <2>1. CASE BootRequest
    <3>1. PICK r \in BootRequests : Boot!bootmm_alloc_pages(r)
      BY <2>1 DEF BootRequest
    <3>2. r.pages \in Nat \ {0} /\ r.align \in Nat \ {0} /\ r.type \in BootTypes
      BY MemoryAssumption DEF BootTypes
    <3>. QED  BY <3>1, <3>2, BootAllocSafe
  <2>2. CASE init_buddy
    <3>1. /\ PagesRequest.pages \in Nat \ {0} /\ PagesRequest.align \in Nat \ {0}
          /\ PagesRequest.type \in BootTypes
      BY MemoryAssumption DEF BootTypes, PagesRequest
    <3>. QED  BY <2>2, <3>1, BootAllocSafe DEF init_buddy
  <2>3. CASE UNCHANGED boot
    BY <2>3 DEF boot, BootInv
  <2>. QED  BY <2>1, <2>2, <2>3 DEF SystemNext, MemoryCall, TreeCall
<1>. QED  BY <1>1, <1>2, <1>3, PTL DEF SystemSpec

-----------------------------------------------------------------------------
(* The segment tree: where its nodes are *)

\* The tree has a power of two of pages.
LEMMA TreePages ==
  /\ OFFSET_TREE \in Nat \ {0}
  /\ \E d \in Nat : OFFSET_TREE = 2 ^ d
<1>1. PICK k \in 0 .. OFFSET_TREE : OFFSET_TREE = 2 ^ k
  BY MemoryAssumption
<1>2. k \in Nat
  BY <1>1
<1>. QED  BY <1>1, <1>2, PowerFacts

\* The father of a node and its two children.
LEMMA FatherAndChildren ==
  ASSUME NEW t \in Tree!Node
  PROVE  /\ t \in Nat /\ t >= 1
         /\ t # 1 => /\ t \div 2 \in Tree!Node /\ t \div 2 < t /\ t \div 2 < OFFSET_TREE
                     /\ t = 2 * (t \div 2) \/ t = 2 * (t \div 2) + 1
                     /\ t % 2 = 0 <=> t = 2 * (t \div 2)
         /\ t < OFFSET_TREE => /\ 2 * t \in Tree!Node /\ 2 * t + 1 \in Tree!Node
                               /\ (2 * t) \div 2 = t /\ (2 * t + 1) \div 2 = t
                               /\ (2 * t) % 2 = 0 /\ (2 * t + 1) % 2 = 1
                               /\ 2 * t # 1 /\ 2 * t + 1 # 1
<1>1. OFFSET_TREE \in Nat /\ OFFSET_TREE >= 1
  BY TreePages
<1>2. t \in 1 .. 2 * OFFSET_TREE - 1
  BY DEF Tree!Node
<1>3. t \in Nat /\ t >= 1
  BY <1>1, <1>2
<1>4. ASSUME t # 1
      PROVE  /\ t \div 2 \in Tree!Node /\ t \div 2 < t /\ t \div 2 < OFFSET_TREE
             /\ t = 2 * (t \div 2) \/ t = 2 * (t \div 2) + 1
             /\ t % 2 = 0 <=> t = 2 * (t \div 2)
  <2>1. t = 2 * (t \div 2) + (t % 2) /\ t % 2 \in 0 .. 1 /\ t \div 2 \in Int
    BY <1>3
  <2>. DEFINE h == t \div 2
              r == t % 2
  <2>2. t = 2 * h + r /\ r \in 0 .. 1 /\ h \in Int
    BY <2>1
  <2>. HIDE DEF h, r
  <2>3. h \in 1 .. 2 * OFFSET_TREE - 1 /\ h < t /\ h < OFFSET_TREE
        /\ (t = 2 * h \/ t = 2 * h + 1) /\ (r = 0 <=> t = 2 * h)
    BY <1>1, <1>2, <1>4, <2>2
  <2>. QED  BY <2>3 DEF h, r, Tree!Node
<1>5. ASSUME t < OFFSET_TREE
      PROVE  /\ 2 * t \in Tree!Node /\ 2 * t + 1 \in Tree!Node
             /\ (2 * t) \div 2 = t /\ (2 * t + 1) \div 2 = t
             /\ (2 * t) % 2 = 0 /\ (2 * t + 1) % 2 = 1
             /\ 2 * t # 1 /\ 2 * t + 1 # 1
  BY <1>1, <1>3, <1>5 DEF Tree!Node
<1>. QED  BY <1>3, <1>4, <1>5

\* What a node has if its father has it, every node has.
LEMMA DownTheTree ==
  ASSUME NEW G, \A t \in Tree!Node : (t # 1 => t \div 2 \in G) => t \in G
  PROVE  \A t \in Tree!Node : t \in G
<1>. DEFINE B == {t \in Tree!Node : t \notin G}
<1>1. SUFFICES ASSUME B # {}  PROVE FALSE
  OBVIOUS
<1>2. PICK t \in B : \A s \in B : t <= s
  <2>1. B \in SUBSET Nat
    BY FatherAndChildren
  <2>. HIDE DEF B
  <2>. QED  BY <1>1, <2>1, LeastExists
<1>3. t \in Tree!Node /\ t \notin G
  OBVIOUS
<1>4. t # 1 => t \div 2 \in Tree!Node /\ t \div 2 \notin B
  <2>1. t # 1 => t \div 2 \in Tree!Node /\ ~(t <= t \div 2)
    BY <1>3, FatherAndChildren
  <2>. HIDE DEF B
  <2>. QED  BY <1>2, <2>1
<1>. QED  BY <1>3, <1>4

\* What a node has if its children have it, every node has.
LEMMA UpTheTree ==
  ASSUME NEW G,
         \A t \in Tree!Node : (t < OFFSET_TREE => 2 * t \in G /\ 2 * t + 1 \in G) => t \in G
  PROVE  \A t \in Tree!Node : t \in G
<1>. DEFINE N == OFFSET_TREE
            B == {k \in 0 .. 2 * N : 2 * N - k \in Tree!Node /\ 2 * N - k \notin G}
<1>1. SUFFICES ASSUME NEW n \in Tree!Node, n \notin G  PROVE FALSE
  OBVIOUS
<1>2. N \in Nat /\ N >= 1 /\ Tree!Node = 1 .. 2 * N - 1
  BY TreePages DEF Tree!Node
<1>. HIDE DEF N
<1>3. 2 * N - n \in B
  <2>1. 2 * N - n \in 0 .. 2 * N /\ 2 * N - (2 * N - n) = n
    BY <1>2
  <2>. QED  BY <1>1, <2>1
<1>4. PICK m \in B : \A k \in B : m <= k
  <2>1. B \in SUBSET Nat
    BY <1>2
  <2>. HIDE DEF B
  <2>. QED  BY <1>3, <2>1, LeastExists
<1>. DEFINE t == 2 * N - m
<1>5. t \in Tree!Node /\ t \notin G /\ m \in 0 .. 2 * N /\ m = 2 * N - t
  BY <1>2
<1>. HIDE DEF t
<1>6. ASSUME NEW c \in Tree!Node, c > t  PROVE c \in G
  <2>1. 2 * N - c \in 0 .. 2 * N /\ ~(m <= 2 * N - c) /\ 2 * N - (2 * N - c) = c
    BY <1>2, <1>5, <1>6
  <2>2. 2 * N - c \notin B
    <3>. HIDE DEF B
    <3>. QED  BY <1>4, <2>1
  <2>. QED  BY <2>1, <2>2
<1>7. t < N => 2 * t \in Tree!Node /\ 2 * t + 1 \in Tree!Node /\ 2 * t > t /\ 2 * t + 1 > t
  <2>1. t \in Nat /\ t >= 1
    BY <1>5, FatherAndChildren
  <2>. QED  BY <1>5, <2>1, FatherAndChildren DEF N
<1>8. t < N => 2 * t \in G /\ 2 * t + 1 \in G
  BY <1>6, <1>7
<1>. QED  BY <1>5, <1>8 DEF N

Lo(n) == Tree!Built[n].left_address
Hi(n) == Tree!Built[n].right_address

TreeRecord == [left_address : Int, right_address : Int, max_free_interval : Int,
               left_available : Int, right_available : Int]

\* A new node is one half of its father's, and all free.
BuiltAt(t) ==
    /\ Tree!Built[t] \in TreeRecord
    /\ t = 1 => Lo(t) = 0 /\ Hi(t) = OFFSET_TREE - 1
    /\ t # 1 /\ t % 2 = 0 => Lo(t) = Lo(t \div 2) /\ Hi(t) = (Lo(t \div 2) + Hi(t \div 2)) \div 2
    /\ t # 1 /\ t % 2 # 0 => /\ Lo(t) = (Lo(t \div 2) + Hi(t \div 2)) \div 2 + 1
                             /\ Hi(t) = Hi(t \div 2)
    /\ Tree!Built[t].max_free_interval = Hi(t) - Lo(t) + 1
    /\ Tree!Built[t].left_available = Hi(t) - Lo(t) + 1
    /\ Tree!Built[t].right_available = Hi(t) - Lo(t) + 1

\* build_tree gives every node its interval.
LEMMA BuiltFacts ==
  /\ Tree!Built = [t \in Tree!Node |-> Tree!Built[t]]
  /\ \A t \in Tree!Node : BuiltAt(t)
<1>. DEFINE V == [left : Int, right : Int]
            At(f, t) ==
                IF t = 1 THEN [left |-> 0, right |-> OFFSET_TREE - 1]
                ELSE LET father == f[t \div 2]
                         middle == (father.left + father.right) \div 2
                     IN  IF t % 2 = 0 THEN [left |-> father.left, right |-> middle]
                         ELSE [left |-> middle + 1, right |-> father.right]
            rank == [t \in Tree!Node |-> t]
            step == [t \in Tree!Node |-> [f \in [Tree!Node -> V] |-> At(f, t)]]
<1>1. OFFSET_TREE \in Nat /\ OFFSET_TREE >= 1
  BY TreePages
<1>2. ASSUME NEW f \in [Tree!Node -> V], NEW t \in Tree!Node  PROVE At(f, t) \in V
  <2>1. t # 1 => f[t \div 2].left \in Int /\ f[t \div 2].right \in Int
    BY FatherAndChildren
  <2>2. \A x, y \in Int : (x + y) \div 2 \in Int
    OBVIOUS
  <2>. QED  BY <1>1, <2>1, <2>2
<1>3. \E f \in [Tree!Node -> V] : \A t \in Tree!Node : f[t] = At(f, t)
  <2>1. 2 * OFFSET_TREE \in Nat /\ rank \in [Tree!Node -> 0 .. 2 * OFFSET_TREE]
    BY <1>1 DEF Tree!Node
  <2>2. step \in [Tree!Node -> [[Tree!Node -> V] -> V]]
    <3>. HIDE DEF V, At
    <3>. QED  BY <1>2
  <2>3. ASSUME NEW t \in Tree!Node, NEW f \in [Tree!Node -> V], NEW g \in [Tree!Node -> V],
               \A i \in Tree!Node : rank[i] < rank[t] => f[i] = g[i]
        PROVE  step[t][f] = step[t][g]
    <3>1. t # 1 => f[t \div 2] = g[t \div 2]
      BY <2>3, FatherAndChildren
    <3>2. At(f, t) = At(g, t)
      BY <3>1
    <3>. HIDE DEF At, V
    <3>. QED  BY <3>2
  <2>4. [left |-> 0, right |-> 0] \in V
    OBVIOUS
  <2>5. \E f \in [Tree!Node -> V] : \A t \in Tree!Node : f[t] = step[t][f]
    <3>1. V # {}
      BY <2>4
    <3>2. Descends(Tree!Node, V, 2 * OFFSET_TREE, rank, step)
      <4>. HIDE DEF V, At, rank, step
      <4>. QED  BY <2>1, <2>2, <2>3, <3>1 DEF Descends
    <3>. HIDE DEF V, At, rank, step
    <3>. QED  BY <3>2, RecursionExists
  <2>. HIDE DEF V, At
  <2>. QED  BY <2>5
<1>. DEFINE interval == CHOOSE f : f = [t \in Tree!Node |-> At(f, t)]
<1>4. interval = [t \in Tree!Node |-> At(interval, t)]
  <2>1. PICK f \in [Tree!Node -> V] : \A t \in Tree!Node : f[t] = At(f, t)
    BY <1>3
  <2>2. f = [t \in Tree!Node |-> At(f, t)]
    <3>. HIDE DEF At, V
    <3>. QED  BY <2>1
  <2>. HIDE DEF At, V
  <2>. QED  BY <2>2
<1>5. interval \in [Tree!Node -> V]
  <2>1. PICK f \in [Tree!Node -> V] : \A t \in Tree!Node : f[t] = At(f, t)
    BY <1>3
  <2>2. \A t \in Tree!Node : interval[t] = At(interval, t)
    <3>. HIDE DEF At, V, interval
    <3>. QED  BY <1>4
  <2>3. \A t \in Tree!Node : interval[t] = f[t]
    <3>. DEFINE G == {t \in Tree!Node : interval[t] = f[t]}
    <3>1. ASSUME NEW t \in Tree!Node, t # 1 => t \div 2 \in G  PROVE t \in G
      <4>1. At(interval, t) = At(f, t)
        <5>. HIDE DEF interval, V
        <5>. QED  BY <3>1
      <4>2. interval[t] = f[t]
        <5>. HIDE DEF interval, At, V, G
        <5>. QED  BY <2>1, <2>2, <4>1
      <4>. QED  BY <4>2
    <3>2. \A t \in Tree!Node : t \in G
      <4>. HIDE DEF G
      <4>. QED  BY <3>1, DownTheTree
    <3>. QED  BY <3>2
  <2>4. interval = [t \in Tree!Node |-> interval[t]]
    <3>. HIDE DEF At
    <3>. QED  BY <1>4
  <2>. HIDE DEF At, V, interval
  <2>. QED  BY <2>1, <2>3, <2>4
<1>. DEFINE size(t) == interval[t].right - interval[t].left + 1
            built == [t \in Tree!Node |->
                        [left_address |-> interval[t].left, right_address |-> interval[t].right,
                         max_free_interval |-> size(t),
                         left_available |-> size(t), right_available |-> size(t)]]
<1>6. Tree!Built = built
  BY DEF Tree!Built
<1>7. \A t \in Tree!Node : interval[t].left \in Int /\ interval[t].right \in Int
  BY <1>5
<1>8. \A t \in Tree!Node : interval[t] = At(interval, t)
  <2>. HIDE DEF At, interval
  <2>. QED  BY <1>4
<1>. HIDE DEF interval
<1>9. ASSUME NEW t \in Tree!Node
      PROVE  /\ Tree!Built[t] \in TreeRecord
             /\ Lo(t) = interval[t].left /\ Hi(t) = interval[t].right
             /\ Tree!Built[t].max_free_interval = Hi(t) - Lo(t) + 1
             /\ Tree!Built[t].left_available = Hi(t) - Lo(t) + 1
             /\ Tree!Built[t].right_available = Hi(t) - Lo(t) + 1
  <2>. HIDE DEF At
  <2>. QED  BY <1>6, <1>7 DEF Lo, Hi, TreeRecord
<1>10. ASSUME NEW t \in Tree!Node  PROVE BuiltAt(t)
  <2>1. t # 1 => t \div 2 \in Tree!Node
    BY FatherAndChildren
  <2>2. t # 1 => Lo(t \div 2) = interval[t \div 2].left /\ Hi(t \div 2) = interval[t \div 2].right
    BY <1>9, <2>1
  <2>3. interval[t] = At(interval, t)
    BY <1>8
  <2>. QED  BY <1>9, <2>2, <2>3 DEF BuiltAt
<1>11. Tree!Built = [t \in Tree!Node |-> Tree!Built[t]]
  <2>. HIDE DEF At, size
  <2>. QED  BY <1>6
<1>. QED  BY <1>10, <1>11

\* A greater power of two is at least twice as great.
LEMMA PowersGrow ==
  ASSUME NEW a \in Nat, NEW b \in Nat, a < b
  PROVE  2 ^ (a + 1) <= 2 ^ b
<1>. DEFINE B == {c \in Nat : c > a /\ ~(2 ^ (a + 1) <= 2 ^ c)}
<1>1. B = {}
  <2>1. SUFFICES ASSUME B # {}  PROVE FALSE
    OBVIOUS
  <2>2. PICK c \in B : \A x \in B : c <= x
    <3>1. B \in SUBSET Nat
      OBVIOUS
    <3>. HIDE DEF B
    <3>. QED  BY <2>1, <3>1, LeastExists
  <2>3. c \in Nat /\ c > a /\ ~(2 ^ (a + 1) <= 2 ^ c)
    OBVIOUS
  <2>4. c - 1 \in Nat /\ c = (c - 1) + 1 /\ ~(c <= c - 1)
    BY <2>3
  <2>5. c - 1 \notin B
    <3>. HIDE DEF B
    <3>. QED  BY <2>2, <2>4
  <2>. DEFINE p == 2 ^ (a + 1)
              q == 2 ^ (c - 1)
              r == 2 ^ c
  <2>6. p \in Nat /\ q \in Nat /\ r \in Nat /\ r = 2 * q
    <3>1. a + 1 \in Nat /\ c - 1 \in Nat
      BY <2>4
    <3>2. 2 ^ ((c - 1) + 1) = 2 * 2 ^ (c - 1)
      BY <3>1, PowerFacts
    <3>3. (c - 1) + 1 = c
      BY <2>3
    <3>. QED  BY <2>3, <3>1, <3>2, <3>3, PowerFacts
  <2>7. c - 1 > a => p <= q
    BY <2>4, <2>5
  <2>8. c - 1 <= a => p = r
    <3>1. c - 1 <= a => a + 1 = c
      BY <2>3
    <3>. QED  BY <3>1
  <2>. HIDE DEF p, q, r
  <2>9. p <= r
    <3>1. c - 1 > a \/ c - 1 <= a
      BY <2>3
    <3>. QED  BY <2>6, <2>7, <2>8, <3>1
  <2>. QED  BY <2>3, <2>9 DEF p, r
<1>2. b \notin B
  BY <1>1
<1>. QED  BY <1>2

\* Node t is the one of number t - 2 ^ k among those k levels below the root.
NodePlaced(t, d, k) ==
    /\ k \in 0 .. d /\ 2 ^ k <= t /\ t < 2 ^ (k + 1)
    /\ Hi(t) - Lo(t) + 1 = 2 ^ (d - k)
    /\ Lo(t) = (t - 2 ^ k) * 2 ^ (d - k)

\* The children of a node of width 2 w have the halves of its interval.
LEMMA HalvesOf ==
  ASSUME NEW x \in Int, NEW y \in Int, NEW w \in Int, y - x + 1 = 2 * w
  PROVE  (x + y) \div 2 = x + w - 1
<1>1. x + y = 2 * (x + w - 1) + 1
  OBVIOUS
<1>. QED  BY <1>1

\* Every node is at its place.
LEMMA TreePlaces ==
  ASSUME NEW d \in Nat, OFFSET_TREE = 2 ^ d
  PROVE  \A t \in Tree!Node : \E k \in Nat : NodePlaced(t, d, k)
<1>. DEFINE G == {t \in Tree!Node : \E k \in Nat : NodePlaced(t, d, k)}
<1>1. ASSUME NEW t \in Tree!Node, t # 1 => t \div 2 \in G  PROVE t \in G
  <2>3. t \in Tree!Node /\ t \in Nat /\ t >= 1
    BY FatherAndChildren
  <2>4. BuiltAt(t) /\ OFFSET_TREE \in Nat
    BY <2>3, BuiltFacts, TreePages
  <2>5. CASE t = 1
    <3>1. 2 ^ 0 = 1 /\ 2 ^ (0 + 1) = 2 /\ d - 0 = d
      BY PowerFacts
    <3>2. Lo(t) = 0 /\ Hi(t) = OFFSET_TREE - 1
      BY <2>4, <2>5 DEF BuiltAt
    <3>3. NodePlaced(t, d, 0)
      <4>1. (1 - 1) * OFFSET_TREE = 0 /\ (OFFSET_TREE - 1) - 0 + 1 = OFFSET_TREE
        BY <2>4
      <4>. QED  BY <2>4, <2>5, <3>1, <3>2, <4>1 DEF NodePlaced
    <3>4. \E k \in Nat : NodePlaced(t, d, k)
      BY <3>3
    <3>. QED  BY <3>4
  <2>6. CASE t # 1
    <3>. DEFINE f == t \div 2
    <3>1. /\ f \in Tree!Node /\ f < t /\ f \in Nat /\ (t = 2 * f \/ t = 2 * f + 1)
          /\ t % 2 = 0 <=> t = 2 * f
      BY <2>3, <2>6, FatherAndChildren
    <3>3. PICK j \in Nat : NodePlaced(f, d, j)
      BY <1>1, <2>6
    <3>4. /\ t = 2 * f => Lo(t) = Lo(f) /\ Hi(t) = (Lo(f) + Hi(f)) \div 2
          /\ t # 2 * f => Lo(t) = (Lo(f) + Hi(f)) \div 2 + 1 /\ Hi(t) = Hi(f)
      BY <2>4, <2>6, <3>1 DEF BuiltAt
    <3>5. Lo(f) \in Int /\ Hi(f) \in Int
      BY <3>1, BuiltFacts DEF BuiltAt, TreeRecord, Lo, Hi
    <3>. HIDE DEF f
    <3>. DEFINE p == 2 ^ j
                q == 2 ^ (d - j)
                w == 2 ^ (d - (j + 1))
    <3>6. /\ p \in Nat /\ p >= 1 /\ j \in 0 .. d /\ p <= f /\ f < 2 * p
          /\ 2 ^ (j + 1) = 2 * p
          /\ Hi(f) - Lo(f) + 1 = q /\ Lo(f) = (f - p) * q
      BY <3>3, PowerFacts DEF NodePlaced
    <3>7. t < 2 ^ (d + 1)
      <4>1. t <= 2 * OFFSET_TREE - 1
        BY <2>3, <2>4 DEF Tree!Node
      <4>2. 2 ^ (d + 1) = 2 * OFFSET_TREE
        BY PowerFacts
      <4>. QED  BY <2>3, <2>4, <4>1, <4>2
    <3>8. j < d
      <4>1. SUFFICES ASSUME j = d  PROVE FALSE
        BY <3>6
      <4>2. 2 ^ (d + 1) = 2 * p
        BY <3>6, <4>1
      <4>3. t >= 2 * p
        <5>. HIDE DEF p
        <5>. QED  BY <3>1, <3>6
      <4>. HIDE DEF p
      <4>. QED  BY <2>3, <3>6, <3>7, <4>2, <4>3
    <3>9. q = 2 * w /\ w \in Nat /\ w >= 1
      <4>1. d - (j + 1) \in Nat /\ (d - (j + 1)) + 1 = d - j
        BY <3>8
      <4>2. 2 ^ ((d - (j + 1)) + 1) = 2 * 2 ^ (d - (j + 1))
        BY <4>1, PowerFacts
      <4>. QED  BY <4>1, <4>2, PowerFacts
    <3>. HIDE DEF p, q, w
    <3>. DEFINE c == (f - p) * w
    <3>10. c \in Int /\ (f - p) * q = 2 * c
      <4>1. f - p \in Int
        BY <3>1, <3>6
      <4>2. (f - p) * (2 * w) = 2 * ((f - p) * w)
        BY <3>9, <4>1
      <4>. QED  BY <3>9, <4>1, <4>2
    <3>11. (2 * f - 2 * p) * w = 2 * c /\ ((2 * f + 1) - 2 * p) * w = 2 * c + w
      <4>1. f \in Int /\ p \in Int /\ w \in Int
        BY <3>1, <3>6, <3>9
      <4>. QED  BY <4>1
    <3>. HIDE DEF c
    <3>12. (Lo(f) + Hi(f)) \div 2 = Lo(f) + w - 1
      <4>1. \A x, y, v \in Int : y - x + 1 = 2 * v => (x + y) \div 2 = x + v - 1
        BY HalvesOf
      <4>2. w \in Int /\ Hi(f) - Lo(f) + 1 = 2 * w
        BY <3>6, <3>9
      <4>. QED  BY <3>5, <4>1, <4>2
    <3>13. /\ Hi(t) - Lo(t) + 1 = w
           /\ t = 2 * f => Lo(t) = 2 * c
           /\ t # 2 * f => Lo(t) = 2 * c + w
      BY <3>4, <3>5, <3>6, <3>9, <3>10, <3>12
    <3>14. Lo(t) = (t - 2 * p) * w
      <4>0. \A y : t = y => (t - 2 * p) * w = (y - 2 * p) * w
        OBVIOUS
      <4>1. t = 2 * f => (t - 2 * p) * w = (2 * f - 2 * p) * w
        BY <4>0
      <4>2. t = 2 * f + 1 => (t - 2 * p) * w = ((2 * f + 1) - 2 * p) * w
        BY <4>0
      <4>3. t = 2 * f + 1 => t # 2 * f
        BY <3>1
      <4>4. CASE t = 2 * f
        BY <3>11, <3>13, <4>1, <4>4
      <4>5. CASE t = 2 * f + 1
        BY <3>11, <3>13, <4>2, <4>3, <4>5
      <4>. QED  BY <3>1, <4>4, <4>5
    <3>15. 2 * p <= t /\ t < 2 * (2 * p)
      BY <3>1, <3>6
    <3>16. NodePlaced(t, d, j + 1)
      <4>1. 2 ^ (j + 1) = 2 * p
        BY <3>6
      <4>2. 2 ^ ((j + 1) + 1) = 2 * (2 * p)
        <5>1. j + 1 \in Nat
          BY <3>3
        <5>. QED  BY <4>1, <5>1, PowerFacts
      <4>3. j + 1 \in 0 .. d
        BY <3>6, <3>8
      <4>. QED  BY <3>13, <3>14, <3>15, <4>1, <4>2, <4>3 DEF NodePlaced, w
    <3>17. \E k \in Nat : NodePlaced(t, d, k)
      <4>1. j + 1 \in Nat
        OBVIOUS
      <4>. QED  BY <3>16, <4>1
    <3>. QED  BY <3>17
  <2>. QED  BY <2>5, <2>6
<1>2. \A t \in Tree!Node : t \in G
  <2>. HIDE DEF G
  <2>. QED  BY <1>1, DownTheTree
<1>. QED  BY <1>2

\* Node 1 has all pages, the children of a node have its halves, and the nodes from
\* OFFSET_TREE on have one page each.
Halved(t) ==
    /\ Lo(t) \in Nat /\ Hi(t) \in Nat /\ Lo(t) <= Hi(t) /\ Hi(t) < OFFSET_TREE
    /\ t < OFFSET_TREE =>
          /\ Lo(2 * t) = Lo(t) /\ Hi(2 * t + 1) = Hi(t) /\ Lo(2 * t + 1) = Hi(2 * t) + 1
          /\ Hi(2 * t) - Lo(2 * t) = Hi(2 * t + 1) - Lo(2 * t + 1)
          /\ Lo(2 * t) <= Hi(2 * t)
    /\ t >= OFFSET_TREE => Lo(t) = t - OFFSET_TREE /\ Hi(t) = t - OFFSET_TREE

\* That is what build_tree does to a power of two of pages.
LEMMA TreeHalved ==
  /\ Lo(1) = 0 /\ Hi(1) = OFFSET_TREE - 1
  /\ \A t \in Tree!Node : Halved(t)
<1>1. PICK d \in Nat : OFFSET_TREE = 2 ^ d
  BY TreePages
<1>. DEFINE N == OFFSET_TREE
<1>2. N \in Nat /\ N >= 1 /\ 1 \in Tree!Node
  BY TreePages DEF Tree!Node
<1>3. Lo(1) = 0 /\ Hi(1) = N - 1
  BY <1>2, BuiltFacts DEF BuiltAt
<1>4. ASSUME NEW t \in Tree!Node
      PROVE  /\ Lo(t) \in Nat /\ Hi(t) \in Nat /\ Lo(t) <= Hi(t)
             /\ t >= N => Lo(t) = t - N /\ Hi(t) = t - N
             /\ t < N => \E w \in Nat : w >= 1 /\ Hi(t) - Lo(t) + 1 = 2 * w
  <2>1. PICK k \in Nat : NodePlaced(t, d, k)
    BY <1>1, TreePlaces
  <2>. DEFINE p == 2 ^ k
              w == 2 ^ (d - k)
  <2>2. p \in Nat /\ p >= 1 /\ k \in 0 .. d /\ w \in Nat /\ w >= 1 /\ d - k \in Nat
    <3>1. k \in 0 .. d /\ d - k \in Nat
      BY <2>1 DEF NodePlaced
    <3>. QED  BY <3>1, PowerFacts
  <2>3. /\ p <= t /\ t < 2 * p /\ Hi(t) - Lo(t) + 1 = w /\ Lo(t) = (t - p) * w
    BY <2>1, PowerFacts DEF NodePlaced
  <2>4. t \in Nat /\ Lo(t) \in Int /\ Hi(t) \in Int
    BY BuiltFacts, FatherAndChildren DEF BuiltAt, TreeRecord, Lo, Hi
  <2>5. Lo(t) \in Nat
    <3>. HIDE DEF p, w
    <3>1. t - p \in Nat
      BY <2>2, <2>3, <2>4
    <3>2. (t - p) * w \in Nat
      BY <2>2, <3>1
    <3>. QED  BY <2>3, <3>2
  <2>6. t >= N => k = d
    <3>1. SUFFICES ASSUME t >= N, k < d  PROVE FALSE
      BY <2>2
    <3>2. 2 ^ (k + 1) <= 2 ^ d
      BY <3>1, PowersGrow
    <3>3. 2 ^ (k + 1) = 2 * p
      BY PowerFacts
    <3>. HIDE DEF p
    <3>. QED  BY <1>1, <1>2, <2>2, <2>3, <2>4, <3>1, <3>2, <3>3
  <2>7. t < N => k # d
    <3>1. SUFFICES ASSUME t < N, k = d  PROVE FALSE
      OBVIOUS
    <3>2. p = N
      BY <1>1, <3>1
    <3>. HIDE DEF p
    <3>. QED  BY <1>2, <2>3, <2>4, <3>1, <3>2
  <2>8. k = d => w = 1 /\ p = N
    <3>1. k = d => d - k = 0
      OBVIOUS
    <3>. QED  BY <1>1, <3>1, PowerFacts
  <2>9. k # d => \E v \in Nat : v >= 1 /\ w = 2 * v
    <3>1. SUFFICES ASSUME k # d  PROVE \E v \in Nat : v >= 1 /\ w = 2 * v
      OBVIOUS
    <3>2. d - k - 1 \in Nat /\ (d - k - 1) + 1 = d - k
      BY <2>2, <3>1
    <3>3. 2 ^ ((d - k - 1) + 1) = 2 * 2 ^ (d - k - 1) /\ 2 ^ (d - k - 1) \in Nat /\ 2 ^ (d - k - 1) >= 1
      BY <3>2, PowerFacts
    <3>4. w = 2 * 2 ^ (d - k - 1)
      BY <3>2, <3>3
    <3>. HIDE DEF w
    <3>. QED  BY <3>3, <3>4
  <2>. HIDE DEF p, w
  <2>10. t >= N => Lo(t) = t - N /\ Hi(t) = t - N
    <3>1. SUFFICES ASSUME t >= N  PROVE Lo(t) = t - N /\ Hi(t) = t - N
      OBVIOUS
    <3>2. w = 1 /\ p = N
      BY <2>6, <2>8, <3>1
    <3>. QED  BY <1>2, <2>3, <2>4, <3>2
  <2>11. Hi(t) \in Nat /\ Lo(t) <= Hi(t)
    BY <2>2, <2>3, <2>4, <2>5
  <2>. QED  BY <2>3, <2>5, <2>7, <2>9, <2>10, <2>11
<1>5. ASSUME NEW t \in Tree!Node, t < N
      PROVE  /\ Lo(2 * t) = Lo(t) /\ Hi(2 * t + 1) = Hi(t) /\ Lo(2 * t + 1) = Hi(2 * t) + 1
             /\ Hi(2 * t) - Lo(2 * t) = Hi(2 * t + 1) - Lo(2 * t + 1)
             /\ Lo(2 * t) <= Hi(2 * t)
  <2>1. PICK w \in Nat : w >= 1 /\ Hi(t) - Lo(t) + 1 = 2 * w
    BY <1>4, <1>5
  <2>2. Lo(t) \in Int /\ Hi(t) \in Int
    BY <1>4
  <2>. DEFINE m == (Lo(t) + Hi(t)) \div 2
  <2>3. m = Lo(t) + w - 1
    <3>1. \A x, y, v \in Int : y - x + 1 = 2 * v => (x + y) \div 2 = x + v - 1
      BY HalvesOf
    <3>2. w \in Int
      OBVIOUS
    <3>. QED  BY <2>1, <2>2, <3>1, <3>2
  <2>4. /\ 2 * t \in Tree!Node /\ 2 * t + 1 \in Tree!Node
        /\ (2 * t) \div 2 = t /\ (2 * t + 1) \div 2 = t
        /\ (2 * t) % 2 = 0 /\ (2 * t + 1) % 2 # 0
        /\ 2 * t # 1 /\ 2 * t + 1 # 1
    BY <1>5, FatherAndChildren
  <2>5. Lo(2 * t) = Lo(t) /\ Hi(2 * t) = m
    <3>1. BuiltAt(2 * t)
      BY <2>4, BuiltFacts
    <3>. QED  BY <2>4, <3>1 DEF BuiltAt
  <2>6. Lo(2 * t + 1) = m + 1 /\ Hi(2 * t + 1) = Hi(t)
    <3>1. BuiltAt(2 * t + 1)
      BY <2>4, BuiltFacts
    <3>. QED  BY <2>4, <3>1 DEF BuiltAt
  <2>. HIDE DEF m
  <2>. QED  BY <2>1, <2>2, <2>3, <2>5, <2>6
<1>. DEFINE G == {t \in Tree!Node : Hi(t) < N}
<1>6. ASSUME NEW t \in Tree!Node, t # 1 => t \div 2 \in G  PROVE t \in G
  <2>1. CASE t = 1
    BY <1>2, <1>3, <2>1
  <2>2. CASE t # 1
    <3>. DEFINE f == t \div 2
    <3>1. f \in Tree!Node /\ f < N /\ (t = 2 * f \/ t = 2 * f + 1) /\ f \in G
      BY <1>6, <2>2, FatherAndChildren
    <3>2. Hi(f) < N
      BY <3>1
    <3>. HIDE DEF f
    <3>3. 2 * f \in Tree!Node /\ 2 * f + 1 \in Tree!Node
      BY <3>1, FatherAndChildren
    <3>4. /\ Lo(2 * f + 1) = Hi(2 * f) + 1 /\ Hi(2 * f + 1) = Hi(f)
          /\ Hi(2 * f) - Lo(2 * f) = Hi(2 * f + 1) - Lo(2 * f + 1)
          /\ Lo(2 * f) <= Hi(2 * f)
      BY <1>5, <3>1
    <3>5. /\ Lo(2 * f) \in Nat /\ Hi(2 * f) \in Nat /\ Lo(2 * f + 1) \in Nat /\ Hi(2 * f + 1) \in Nat
          /\ Hi(f) \in Nat
      BY <1>4, <3>1, <3>3
    <3>6. Hi(2 * f) < N /\ Hi(2 * f + 1) < N
      BY <1>2, <3>2, <3>4, <3>5
    <3>7. Hi(t) < N
      BY <3>1, <3>6
    <3>. QED  BY <3>7
  <2>. QED  BY <2>1, <2>2
<1>7. \A t \in Tree!Node : t \in G
  <2>. HIDE DEF G
  <2>. QED  BY <1>6, DownTheTree
<1>8. ASSUME NEW t \in Tree!Node  PROVE Halved(t)
  <2>1. Hi(t) < N
    BY <1>7
  <2>. QED  BY <1>4, <1>5, <2>1 DEF Halved
<1>. QED  BY <1>3, <1>8

-----------------------------------------------------------------------------
(* The segment tree: a node and its children *)

\* The pages from a to b are free; F is the set of the free ones.
AllIn(a, b, F) == \A p \in Int : a <= p /\ p <= b => p \in F

\* The numbers of free pages from the left and from the right end of a .. b, and in the
\* longest run between them.
LeftRun(x, a, b, F) ==
    x \in Int /\ 0 <= x /\ x <= b - a + 1 /\ AllIn(a, a + x - 1, F) /\ (x < b - a + 1 => a + x \notin F)
RightRun(x, a, b, F) ==
    x \in Int /\ 0 <= x /\ x <= b - a + 1 /\ AllIn(b - x + 1, b, F) /\ (x < b - a + 1 => b - x \notin F)
MaxRun(x, a, b, F) ==
    /\ x \in Int /\ 0 <= x /\ x <= b - a + 1
    /\ \E f \in Int : a <= f /\ f + x - 1 <= b /\ AllIn(f, f + x - 1, F)
    /\ \A f \in Int, l \in Int : a <= f /\ f + l - 1 <= b /\ AllIn(f, f + l - 1, F) => l <= x

\* A run is all of an interval exactly if that is free.
LEMMA WholeRun ==
  ASSUME NEW a \in Int, NEW b \in Int, a <= b, NEW F, NEW x
  PROVE  /\ MaxRun(x, a, b, F) => (x = b - a + 1 <=> AllIn(a, b, F))
         /\ LeftRun(x, a, b, F) => (x = b - a + 1 <=> AllIn(a, b, F))
         /\ RightRun(x, a, b, F) => (x = b - a + 1 <=> AllIn(a, b, F))
<1>. DEFINE s == b - a + 1
<1>1. s \in Int /\ s >= 1 /\ a + s - 1 = b /\ b - s + 1 = a
  OBVIOUS
<1>2. ASSUME MaxRun(x, a, b, F), x = s  PROVE AllIn(a, b, F)
  <2>1. PICK f \in Int : a <= f /\ f + x - 1 <= b /\ AllIn(f, f + x - 1, F)
    BY <1>2 DEF MaxRun
  <2>2. f = a /\ f + x - 1 = b
    BY <1>1, <1>2, <2>1
  <2>. QED  BY <2>1, <2>2
<1>3. ASSUME MaxRun(x, a, b, F), AllIn(a, b, F)  PROVE x = s
  <2>1. \A f \in Int, l \in Int : a <= f /\ f + l - 1 <= b /\ AllIn(f, f + l - 1, F) => l <= x
    BY <1>3 DEF MaxRun
  <2>2. x \in Int /\ x <= s
    BY <1>3 DEF MaxRun
  <2>3. a <= a /\ a + s - 1 <= b /\ AllIn(a, a + s - 1, F)
    BY <1>1, <1>3
  <2>. HIDE DEF s
  <2>4. s <= x
    BY <1>1, <2>1, <2>3
  <2>. QED  BY <1>1, <2>2, <2>4
<1>4. ASSUME LeftRun(x, a, b, F), x = s  PROVE AllIn(a, b, F)
  <2>1. a + x - 1 = b
    BY <1>1, <1>4
  <2>. QED  BY <1>4, <2>1 DEF LeftRun
<1>5. ASSUME LeftRun(x, a, b, F), AllIn(a, b, F)  PROVE x = s
  <2>1. x \in Int /\ 0 <= x /\ x <= s /\ (x < s => a + x \notin F)
    BY <1>5 DEF LeftRun
  <2>2. x < s => a + x \in F
    <3>1. x < s => a + x \in Int /\ a <= a + x /\ a + x <= b
      BY <2>1
    <3>. QED  BY <1>5, <3>1 DEF AllIn
  <2>. QED  BY <1>1, <2>1, <2>2
<1>6. ASSUME RightRun(x, a, b, F), x = s  PROVE AllIn(a, b, F)
  <2>1. b - x + 1 = a
    BY <1>1, <1>6
  <2>. QED  BY <1>6, <2>1 DEF RightRun
<1>7. ASSUME RightRun(x, a, b, F), AllIn(a, b, F)  PROVE x = s
  <2>1. x \in Int /\ 0 <= x /\ x <= s /\ (x < s => b - x \notin F)
    BY <1>7 DEF RightRun
  <2>2. x < s => b - x \in F
    <3>1. x < s => b - x \in Int /\ a <= b - x /\ b - x <= b
      BY <2>1
    <3>. QED  BY <1>7, <3>1 DEF AllIn
  <2>. QED  BY <1>1, <2>1, <2>2
<1>. QED  BY <1>2, <1>3, <1>4, <1>5, <1>6, <1>7

\* The left run of two neighbours goes on into the second if the first is free.
LEMMA LeftJoin ==
  ASSUME NEW a \in Int, NEW m \in Int, NEW b \in Int, a <= m, m < b, NEW F, NEW x, NEW y,
         LeftRun(x, a, m, F), LeftRun(y, m + 1, b, F)
  PROVE  LeftRun(IF AllIn(a, m, F) THEN y + (m - a + 1) ELSE x, a, b, F)
<1>1. x \in Int /\ 0 <= x /\ x <= m - a + 1 /\ AllIn(a, a + x - 1, F) /\ (x < m - a + 1 => a + x \notin F)
  BY DEF LeftRun
<1>2. /\ y \in Int /\ 0 <= y /\ y <= b - m /\ AllIn(m + 1, m + y, F) /\ (y < b - m => m + 1 + y \notin F)
  <2>1. b - (m + 1) + 1 = b - m /\ (y \in Int => m + 1 + y - 1 = m + y)
    OBVIOUS
  <2>. QED  BY <2>1 DEF LeftRun
<1>3. CASE AllIn(a, m, F)
  <2>. DEFINE z == y + (m - a + 1)
  <2>1. z \in Int /\ 0 <= z /\ z <= b - a + 1 /\ a + z - 1 = m + y /\ a + z = m + 1 + y
        /\ (z < b - a + 1 => y < b - m)
    BY <1>2
  <2>2. AllIn(a, m + y, F)
    BY <1>2, <1>3 DEF AllIn
  <2>. HIDE DEF z
  <2>3. LeftRun(z, a, b, F)
    BY <1>2, <2>1, <2>2 DEF LeftRun
  <2>. QED  BY <1>3, <2>3 DEF z
<1>4. CASE ~AllIn(a, m, F)
  <2>1. x # m - a + 1
    BY <1>4, WholeRun
  <2>2. LeftRun(x, a, b, F)
    BY <1>1, <2>1 DEF LeftRun
  <2>. QED  BY <1>4, <2>2
<1>. QED  BY <1>3, <1>4

\* The right run of two neighbours goes on into the first if the second is free.
LEMMA RightJoin ==
  ASSUME NEW a \in Int, NEW m \in Int, NEW b \in Int, a <= m, m < b, NEW F, NEW x, NEW y,
         RightRun(x, a, m, F), RightRun(y, m + 1, b, F)
  PROVE  RightRun(IF AllIn(m + 1, b, F) THEN x + (b - m) ELSE y, a, b, F)
<1>1. /\ x \in Int /\ 0 <= x /\ x <= m - a + 1 /\ AllIn(m - x + 1, m, F) /\ (x < m - a + 1 => m - x \notin F)
  BY DEF RightRun
<1>2. /\ y \in Int /\ 0 <= y /\ y <= b - m /\ AllIn(b - y + 1, b, F) /\ (y < b - m => b - y \notin F)
  <2>1. b - (m + 1) + 1 = b - m
    OBVIOUS
  <2>. QED  BY <2>1 DEF RightRun
<1>3. CASE AllIn(m + 1, b, F)
  <2>. DEFINE z == x + (b - m)
  <2>1. z \in Int /\ 0 <= z /\ z <= b - a + 1 /\ b - z + 1 = m - x + 1 /\ b - z = m - x
        /\ (z < b - a + 1 => x < m - a + 1)
    BY <1>1
  <2>2. AllIn(m - x + 1, b, F)
    BY <1>1, <1>3 DEF AllIn
  <2>. HIDE DEF z
  <2>3. RightRun(z, a, b, F)
    BY <1>1, <2>1, <2>2 DEF RightRun
  <2>. QED  BY <1>3, <2>3 DEF z
<1>4. CASE ~AllIn(m + 1, b, F)
  <2>1. y # b - m
    <3>1. m + 1 \in Int /\ m + 1 <= b /\ b - (m + 1) + 1 = b - m
      OBVIOUS
    <3>2. RightRun(y, m + 1, b, F) => (y = b - (m + 1) + 1 <=> AllIn(m + 1, b, F))
      BY <3>1, WholeRun
    <3>. QED  BY <1>4, <3>1, <3>2
  <2>2. RightRun(y, a, b, F)
    BY <1>2, <2>1 DEF RightRun
  <2>. QED  BY <1>4, <2>2
<1>. QED  BY <1>3, <1>4

\* The longest run of two neighbours is one of theirs or the one across the middle.
LEMMA MaxJoin ==
  ASSUME NEW a \in Int, NEW m \in Int, NEW b \in Int, a <= m, m < b, NEW F,
         NEW x, NEW y, NEW r, NEW l, NEW z,
         MaxRun(x, a, m, F), MaxRun(y, m + 1, b, F), RightRun(r, a, m, F), LeftRun(l, m + 1, b, F),
         z \in {x, y, r + l}, z >= x, z >= y, z >= r + l
  PROVE  MaxRun(z, a, b, F)
<1>1. /\ r \in Int /\ 0 <= r /\ r <= m - a + 1 /\ AllIn(m - r + 1, m, F) /\ (r < m - a + 1 => m - r \notin F)
  BY DEF RightRun
<1>2. /\ l \in Int /\ 0 <= l /\ l <= b - m /\ AllIn(m + 1, m + l, F) /\ (l < b - m => m + 1 + l \notin F)
  <2>1. b - (m + 1) + 1 = b - m /\ (l \in Int => m + 1 + l - 1 = m + l)
    OBVIOUS
  <2>. QED  BY <2>1 DEF LeftRun
<1>3. /\ x \in Int /\ 0 <= x /\ x <= m - a + 1 /\ y \in Int /\ 0 <= y /\ y <= b - m
  BY DEF MaxRun
<1>4. z \in Int /\ 0 <= z /\ z <= b - a + 1
  BY <1>1, <1>2, <1>3
<1>5. \E f \in Int : a <= f /\ f + z - 1 <= b /\ AllIn(f, f + z - 1, F)
  <2>1. CASE z = x
    <3>1. PICK f \in Int : a <= f /\ f + x - 1 <= m /\ AllIn(f, f + x - 1, F)
      BY DEF MaxRun
    <3>2. f + x - 1 <= b
      BY <1>3, <3>1
    <3>. QED  BY <2>1, <3>1, <3>2
  <2>2. CASE z = y
    <3>1. PICK f \in Int : m + 1 <= f /\ f + y - 1 <= b /\ AllIn(f, f + y - 1, F)
      BY DEF MaxRun
    <3>2. a <= f
      BY <3>1
    <3>. QED  BY <2>2, <3>1, <3>2
  <2>3. CASE z = r + l
    <3>. DEFINE f == m - r + 1
    <3>1. f \in Int /\ a <= f /\ f + z - 1 = m + l /\ m + l <= b
      BY <1>1, <1>2, <2>3
    <3>2. AllIn(f, m + l, F)
      BY <1>1, <1>2 DEF AllIn
    <3>. HIDE DEF f
    <3>. QED  BY <3>1, <3>2
  <2>. QED  BY <2>1, <2>2, <2>3
<1>6. ASSUME NEW f \in Int, NEW k \in Int, a <= f, f + k - 1 <= b, AllIn(f, f + k - 1, F)
      PROVE  k <= z
  <2>1. CASE f + k - 1 <= m
    <3>1. k <= x
      BY <1>6, <2>1 DEF MaxRun
    <3>. QED  BY <1>3, <1>4, <3>1
  <2>2. CASE m + 1 <= f
    <3>1. k <= y
      BY <1>6, <2>2 DEF MaxRun
    <3>. QED  BY <1>3, <1>4, <3>1
  <2>3. CASE f <= m /\ m + 1 <= f + k - 1
    <3>1. m - f + 1 <= r
      <4>1. SUFFICES ASSUME r < m - f + 1  PROVE FALSE
        BY <1>1
      <4>2. m - r \in Int /\ f <= m - r /\ m - r <= f + k - 1 /\ r < m - a + 1
        BY <1>1, <1>6, <2>3, <4>1
      <4>3. m - r \in F
        BY <1>6, <4>2 DEF AllIn
      <4>. QED  BY <1>1, <4>2, <4>3
    <3>2. f + k - 1 - m <= l
      <4>1. SUFFICES ASSUME l < f + k - 1 - m  PROVE FALSE
        BY <1>2
      <4>2. m + 1 + l \in Int /\ f <= m + 1 + l /\ m + 1 + l <= f + k - 1 /\ l < b - m
        BY <1>2, <1>6, <2>3, <4>1
      <4>3. m + 1 + l \in F
        BY <1>6, <4>2 DEF AllIn
      <4>. QED  BY <1>2, <4>2, <4>3
    <3>3. k <= r + l
      BY <1>1, <1>2, <3>1, <3>2
    <3>. QED  BY <1>1, <1>2, <1>4, <3>3
  <2>. QED  BY <2>1, <2>2, <2>3
<1>. QED  BY <1>4, <1>5, <1>6 DEF MaxRun

\* Record r of a node says which pages of a .. b are free.
Reflects(r, a, b, F) ==
    /\ r \in TreeRecord /\ r.left_address = a /\ r.right_address = b
    /\ MaxRun(r.max_free_interval, a, b, F)
    /\ LeftRun(r.left_available, a, b, F)
    /\ RightRun(r.right_available, a, b, F)

\* The greatest of some numbers.
LEMMA MaxOfThree ==
  ASSUME NEW x \in Int, NEW y \in Int, NEW w \in Int
  PROVE  /\ Tree!Max({x, y, w}) \in {x, y, w}
         /\ Tree!Max({x, y, w}) >= x /\ Tree!Max({x, y, w}) >= y /\ Tree!Max({x, y, w}) >= w
<1>1. \E z \in {x, y, w} : \A v \in {x, y, w} : z >= v
  <2>1. CASE x >= y /\ x >= w
    BY <2>1
  <2>2. CASE y >= x /\ y >= w
    BY <2>2
  <2>3. CASE w >= x /\ w >= y
    BY <2>3
  <2>. QED  BY <2>1, <2>2, <2>3
<1>2. Tree!Max({x, y, w}) = CHOOSE z \in {x, y, w} : \A v \in {x, y, w} : z >= v
  BY DEF Tree!Max
<1>3. Tree!Max({x, y, w}) \in {x, y, w} /\ \A v \in {x, y, w} : Tree!Max({x, y, w}) >= v
  BY <1>1, <1>2
<1>. QED  BY <1>3

\* Record n with three new numbers.
NewRuns(n, max, left, right) ==
    [n EXCEPT !.max_free_interval = max, !.left_available = left, !.right_available = right]

\* The rest of the record stays.
LEMMA NewRunsType ==
  ASSUME NEW n \in TreeRecord, NEW max \in Int, NEW left \in Int, NEW right \in Int
  PROVE  /\ NewRuns(n, max, left, right) \in TreeRecord
         /\ NewRuns(n, max, left, right).left_address = n.left_address
         /\ NewRuns(n, max, left, right).right_address = n.right_address
         /\ NewRuns(n, max, left, right).max_free_interval = max
         /\ NewRuns(n, max, left, right).left_available = left
         /\ NewRuns(n, max, left, right).right_available = right
BY DEF NewRuns, TreeRecord

\* They say what is free if each number does.
LEMMA NewReflects ==
  ASSUME NEW n \in TreeRecord, NEW F, NEW max, NEW left, NEW right, NEW a, NEW b,
         n.left_address = a, n.right_address = b,
         MaxRun(max, a, b, F), LeftRun(left, a, b, F), RightRun(right, a, b, F)
  PROVE  Reflects(NewRuns(n, max, left, right), a, b, F)
<1>1. max \in Int /\ left \in Int /\ right \in Int
  BY DEF MaxRun, LeftRun, RightRun
<1>. DEFINE r == NewRuns(n, max, left, right)
<1>2. /\ r \in TreeRecord /\ r.left_address = a /\ r.right_address = b
      /\ r.max_free_interval = max /\ r.left_available = left /\ r.right_available = right
  BY <1>1, NewRunsType
<1>. HIDE DEF r
<1>3. Reflects(r, a, b, F)
  BY <1>2 DEF Reflects
<1>. QED  BY <1>3 DEF r

\* update makes a node say which pages are free if its children do.
LEMMA FatherReflects ==
  ASSUME NEW a \in Int, NEW m \in Int, NEW b \in Int, a <= m, m < b, m - a = b - (m + 1), NEW F,
         NEW n0 \in TreeRecord, n0.left_address = a, n0.right_address = b,
         NEW n1, NEW n2, Reflects(n1, a, m, F), Reflects(n2, m + 1, b, F)
  PROVE  Reflects(Tree!Father(n0, n1, n2), a, b, F)
<1>. DEFINE s == m - a + 1
            x == n1.max_free_interval
            y == n2.max_free_interval
            l1 == n1.left_available
            r1 == n1.right_available
            l2 == n2.left_available
            r2 == n2.right_available
            top == Tree!Max({x, y, r1 + l2})
            max == IF x = s /\ y = s THEN 2 * s ELSE IF x = s THEN l2 + s
                   ELSE IF y = s THEN r1 + s ELSE top
            left == IF x = s /\ y = s THEN 2 * s ELSE IF x = s THEN l2 + s ELSE l1
            right == IF x = s /\ y = s THEN 2 * s ELSE IF y = s THEN r1 + s ELSE r2
<1>1. /\ MaxRun(x, a, m, F) /\ LeftRun(l1, a, m, F) /\ RightRun(r1, a, m, F)
      /\ MaxRun(y, m + 1, b, F) /\ LeftRun(l2, m + 1, b, F) /\ RightRun(r2, m + 1, b, F)
      /\ n1.left_address = a /\ n1.right_address = m
  BY DEF Reflects
<1>2. Tree!Size(n1) = s
  BY <1>1 DEF Tree!Size
<1>3. Tree!Father(n0, n1, n2) = NewRuns(n0, max, left, right)
  <2>1. CASE x = s /\ y = s
    <3>1. Tree!Father(n0, n1, n2) = NewRuns(n0, 2 * s, 2 * s, 2 * s)
      <4>. HIDE DEF s
      <4>. QED  BY <1>2, <2>1 DEF Tree!Father, NewRuns
    <3>. HIDE DEF s, x, y
    <3>. QED  BY <2>1, <3>1
  <2>2. CASE x = s /\ y # s
    <3>1. Tree!Father(n0, n1, n2) = NewRuns(n0, l2 + s, l2 + s, r2)
      <4>. HIDE DEF s
      <4>. QED  BY <1>2, <2>2 DEF Tree!Father, NewRuns
    <3>. HIDE DEF s, x, y, l2, r2
    <3>. QED  BY <2>2, <3>1
  <2>3. CASE x # s /\ y = s
    <3>1. Tree!Father(n0, n1, n2) = NewRuns(n0, r1 + s, l1, r1 + s)
      <4>. HIDE DEF s
      <4>. QED  BY <1>2, <2>3 DEF Tree!Father, NewRuns
    <3>. HIDE DEF s, x, y, l1, r1
    <3>. QED  BY <2>3, <3>1
  <2>4. CASE x # s /\ y # s
    <3>1. Tree!Father(n0, n1, n2) = NewRuns(n0, top, l1, r2)
      <4>. HIDE DEF s
      <4>. QED  BY <1>2, <2>4 DEF Tree!Father, NewRuns
    <3>. HIDE DEF s, x, y, l1, r2, top
    <3>. QED  BY <2>4, <3>1
  <2>. QED  BY <2>1, <2>2, <2>3, <2>4
<1>4. b - m = s /\ s \in Int /\ s >= 1 /\ m + 1 \in Int /\ m + 1 <= b /\ b - (m + 1) + 1 = s
  OBVIOUS
<1>5. /\ x = s <=> AllIn(a, m, F)
      /\ l1 = s <=> AllIn(a, m, F)
      /\ r1 = s <=> AllIn(a, m, F)
      /\ y = s <=> AllIn(m + 1, b, F)
      /\ l2 = s <=> AllIn(m + 1, b, F)
      /\ r2 = s <=> AllIn(m + 1, b, F)
  <2>. HIDE DEF x, y, l1, l2, r1, r2
  <2>1. (x = s <=> AllIn(a, m, F)) /\ (l1 = s <=> AllIn(a, m, F)) /\ (r1 = s <=> AllIn(a, m, F))
    BY <1>1, WholeRun
  <2>2. /\ y = b - (m + 1) + 1 <=> AllIn(m + 1, b, F)
        /\ l2 = b - (m + 1) + 1 <=> AllIn(m + 1, b, F)
        /\ r2 = b - (m + 1) + 1 <=> AllIn(m + 1, b, F)
    BY <1>1, <1>4, WholeRun
  <2>. HIDE DEF s
  <2>. QED  BY <1>4, <2>1, <2>2
<1>6. /\ x \in Int /\ 0 <= x /\ x <= s /\ y \in Int /\ 0 <= y /\ y <= s
      /\ l1 \in Int /\ 0 <= l1 /\ l1 <= s /\ l2 \in Int /\ 0 <= l2 /\ l2 <= s
      /\ r1 \in Int /\ 0 <= r1 /\ r1 <= s /\ r2 \in Int /\ 0 <= r2 /\ r2 <= s
  <2>. HIDE DEF x, y, l1, l2, r1, r2
  <2>1. x \in Int /\ 0 <= x /\ x <= s /\ l1 \in Int /\ 0 <= l1 /\ l1 <= s /\ r1 \in Int /\ 0 <= r1 /\ r1 <= s
    BY <1>1 DEF MaxRun, LeftRun, RightRun
  <2>2. /\ y \in Int /\ 0 <= y /\ y <= b - (m + 1) + 1 /\ l2 \in Int /\ 0 <= l2 /\ l2 <= b - (m + 1) + 1
        /\ r2 \in Int /\ 0 <= r2 /\ r2 <= b - (m + 1) + 1
    BY <1>1 DEF MaxRun, LeftRun, RightRun
  <2>. HIDE DEF s
  <2>. QED  BY <1>4, <2>1, <2>2
<1>7. top \in {x, y, r1 + l2} /\ top >= x /\ top >= y /\ top >= r1 + l2
  <2>. DEFINE w == r1 + l2
  <2>1. x \in Int /\ y \in Int /\ w \in Int
    <3>. HIDE DEF x, y, r1, l2
    <3>. QED  BY <1>6
  <2>. HIDE DEF x, y, w
  <2>2. /\ Tree!Max({x, y, w}) \in {x, y, w}
        /\ Tree!Max({x, y, w}) >= x /\ Tree!Max({x, y, w}) >= y /\ Tree!Max({x, y, w}) >= w
    BY <2>1, MaxOfThree
  <2>. QED  BY <2>2 DEF w
<1>. HIDE DEF x, y, l1, l2, r1, r2, top
<1>8. /\ m - a + 1 = s
       /\ x = s /\ y = s => l2 + s = 2 * s /\ r1 + s = 2 * s
  <2>. HIDE DEF s
  <2>. QED  BY <1>4, <1>5 DEF s
<1>9. LeftRun(left, a, b, F)
  <2>1. LeftRun(IF AllIn(a, m, F) THEN l2 + s ELSE l1, a, b, F)
    BY <1>1, LeftJoin
  <2>2. left = IF AllIn(a, m, F) THEN l2 + s ELSE l1
    <3>. HIDE DEF s
    <3>. QED  BY <1>4, <1>5, <1>8
  <2>. QED  BY <1>8, <2>1, <2>2
<1>10. RightRun(right, a, b, F)
  <2>1. RightRun(IF AllIn(m + 1, b, F) THEN r1 + (b - m) ELSE r2, a, b, F)
    BY <1>1, RightJoin
  <2>2. right = IF AllIn(m + 1, b, F) THEN r1 + (b - m) ELSE r2
    <3>. HIDE DEF s
    <3>. QED  BY <1>4, <1>5, <1>8
  <2>. QED  BY <1>8, <2>1, <2>2
<1>11. MaxRun(max, a, b, F)
  <2>1. max \in {x, y, r1 + l2} /\ max >= x /\ max >= y /\ max >= r1 + l2
    <3>. HIDE DEF s
    <3>. QED  BY <1>4, <1>5, <1>6, <1>7
  <2>. HIDE DEF max
  <2>. QED  BY <1>1, <2>1, MaxJoin
<1>. HIDE DEF max, left, right
<1>12. Reflects(NewRuns(n0, max, left, right), a, b, F)
  BY <1>9, <1>10, <1>11, NewReflects
<1>. QED  BY <1>3, <1>12

-----------------------------------------------------------------------------
(* The segment tree: update and update_leaves *)

\* The nodes above t are the father and those above it.
LEMMA AboveIs ==
  \A t \in Tree!Node :
     Tree!Above[t] = IF t = 1 THEN {} ELSE {t \div 2} \cup Tree!Above[t \div 2]
<1>. DEFINE V == SUBSET Tree!Node
            At(f, t) == IF t = 1 THEN {} ELSE {t \div 2} \cup f[t \div 2]
            rank == [t \in Tree!Node |-> t]
            step == [t \in Tree!Node |-> [f \in [Tree!Node -> V] |-> At(f, t)]]
<1>1. \A f \in [Tree!Node -> V], t \in Tree!Node : At(f, t) \in V
  BY FatherAndChildren
<1>2. \E f \in [Tree!Node -> V] : \A t \in Tree!Node : f[t] = At(f, t)
  <2>1. 2 * OFFSET_TREE \in Nat /\ rank \in [Tree!Node -> 0 .. 2 * OFFSET_TREE]
    BY TreePages DEF Tree!Node
  <2>2. step \in [Tree!Node -> [[Tree!Node -> V] -> V]]
    <3>. HIDE DEF V, At
    <3>. QED  BY <1>1
  <2>3. ASSUME NEW t \in Tree!Node, NEW f \in [Tree!Node -> V], NEW g \in [Tree!Node -> V],
               \A i \in Tree!Node : rank[i] < rank[t] => f[i] = g[i]
        PROVE  step[t][f] = step[t][g]
    <3>1. t # 1 => f[t \div 2] = g[t \div 2]
      BY <2>3, FatherAndChildren
    <3>2. At(f, t) = At(g, t)
      BY <3>1
    <3>. HIDE DEF At, V
    <3>. QED  BY <3>2
  <2>4. V # {}
    OBVIOUS
  <2>5. Descends(Tree!Node, V, 2 * OFFSET_TREE, rank, step)
    <3>. HIDE DEF V, At, rank, step
    <3>. QED  BY <2>1, <2>2, <2>3, <2>4 DEF Descends
  <2>6. \E f \in [Tree!Node -> V] : \A t \in Tree!Node : f[t] = step[t][f]
    <3>. HIDE DEF V, At, rank, step
    <3>. QED  BY <2>5, RecursionExists
  <2>. HIDE DEF V, At
  <2>. QED  BY <2>6
<1>3. PICK f \in [Tree!Node -> V] : \A t \in Tree!Node : f[t] = At(f, t)
  BY <1>2
<1>4. f = [t \in Tree!Node |-> At(f, t)]
  <2>. HIDE DEF At, V
  <2>. QED  BY <1>3
<1>5. Tree!Above = CHOOSE g : g = [t \in Tree!Node |-> At(g, t)]
  BY DEF Tree!Above
<1>6. Tree!Above = [t \in Tree!Node |-> At(Tree!Above, t)]
  <2>. HIDE DEF At, V
  <2>. QED  BY <1>4, <1>5
<1>7. \A t \in Tree!Node : Tree!Above[t] = At(Tree!Above, t)
  <2>. HIDE DEF At
  <2>. QED  BY <1>6
<1>. QED  BY <1>7

\* The nodes above t have children, and with a node its father is one of them.
LEMMA AboveFacts ==
  \A t \in Tree!Node :
     /\ \A n \in Tree!Above[t] : n \in Tree!Node /\ n < OFFSET_TREE
     /\ t # 1 => t \div 2 \in Tree!Above[t]
     /\ \A n \in Tree!Above[t] : n # 1 => n \div 2 \in Tree!Above[t]
<1>. DEFINE Closed(t) ==
              /\ \A n \in Tree!Above[t] : n \in Tree!Node /\ n < OFFSET_TREE
              /\ t # 1 => t \div 2 \in Tree!Above[t]
              /\ \A n \in Tree!Above[t] : n # 1 => n \div 2 \in Tree!Above[t]
            G == {t \in Tree!Node : Closed(t)}
<1>1. ASSUME NEW t \in Tree!Node, t # 1 => t \div 2 \in G  PROVE t \in G
  <2>1. CASE t = 1
    <3>1. Tree!Above[t] = {}
      BY <2>1, AboveIs
    <3>. QED  BY <2>1, <3>1
  <2>2. CASE t # 1
    <3>. DEFINE f == t \div 2
    <3>1. Tree!Above[t] = {f} \cup Tree!Above[f]
      BY <2>2, AboveIs
    <3>2. f \in Tree!Node /\ f < OFFSET_TREE
      BY <2>2, FatherAndChildren
    <3>3. Closed(f)
      BY <1>1, <2>2
    <3>. HIDE DEF f
    <3>4. Closed(t)
      BY <3>1, <3>2, <3>3 DEF f
    <3>. QED  BY <3>4
  <2>. QED  BY <2>1, <2>2
<1>2. \A t \in Tree!Node : t \in G
  <2>. HIDE DEF G
  <2>. QED  BY <1>1, DownTheTree
<1>. QED  BY <1>2

\* The nodes whose interval has page p are its leaf and those above.
LEMMA AboveCovers ==
  ASSUME NEW p \in Tree!Pages
  PROVE  /\ Tree!Leaf(p) \in Tree!Node /\ Lo(Tree!Leaf(p)) = p /\ Hi(Tree!Leaf(p)) = p
         /\ Tree!Leaf(p) \notin Tree!Above[Tree!Leaf(p)]
         /\ \A n \in Tree!Node : Lo(n) <= p /\ p <= Hi(n) =>
               n = Tree!Leaf(p) \/ n \in Tree!Above[Tree!Leaf(p)]
<1>. DEFINE t == Tree!Leaf(p)
            N == OFFSET_TREE
<1>1. t \in Tree!Node /\ t = p + N /\ t >= N /\ N \in Nat /\ p \in Nat
  BY TreePages DEF Tree!Leaf, Tree!Pages, Tree!Node
<1>2. Lo(t) = p /\ Hi(t) = p
  <2>1. Halved(t)
    BY <1>1, TreeHalved
  <2>. HIDE DEF t
  <2>2. Lo(t) = t - N /\ Hi(t) = t - N
    BY <1>1, <2>1 DEF Halved
  <2>. QED  BY <1>1, <2>2
<1>3. t \notin Tree!Above[t]
  <2>. HIDE DEF t
  <2>. QED  BY <1>1, AboveFacts
<1>. HIDE DEF t
<1>. DEFINE G == {n \in Tree!Node : Lo(n) <= p /\ p <= Hi(n) => n = t \/ n \in Tree!Above[t]}
<1>4. ASSUME NEW n \in Tree!Node, n < N => 2 * n \in G /\ 2 * n + 1 \in G  PROVE n \in G
  <2>1. SUFFICES ASSUME Lo(n) <= p, p <= Hi(n)  PROVE n = t \/ n \in Tree!Above[t]
    OBVIOUS
  <2>2. Halved(n) /\ n \in Nat
    BY FatherAndChildren, TreeHalved
  <2>3. CASE n >= N
    <3>1. Lo(n) = n - N /\ Hi(n) = n - N
      BY <2>2, <2>3 DEF Halved
    <3>. QED  BY <1>1, <2>1, <2>2, <3>1
  <2>4. CASE n < N
    <3>1. /\ Lo(2 * n) = Lo(n) /\ Hi(2 * n + 1) = Hi(n) /\ Lo(2 * n + 1) = Hi(2 * n) + 1
      BY <2>2, <2>4 DEF Halved
    <3>2. /\ 2 * n \in Tree!Node /\ 2 * n + 1 \in Tree!Node
          /\ (2 * n) \div 2 = n /\ (2 * n + 1) \div 2 = n /\ 2 * n # 1 /\ 2 * n + 1 # 1
      BY <2>4, FatherAndChildren
    <3>3. Hi(2 * n) \in Int
      BY <3>2, TreeHalved DEF Halved
    <3>4. PICK c \in {2 * n, 2 * n + 1} : Lo(c) <= p /\ p <= Hi(c)
      <4>1. p <= Hi(2 * n) \/ Hi(2 * n) + 1 <= p
        BY <1>1, <3>3
      <4>. QED  BY <2>1, <3>1, <4>1
    <3>5. c \in Tree!Node /\ c \div 2 = n /\ c # 1 /\ c \in G
      BY <1>4, <2>4, <3>2, <3>4
    <3>6. c = t \/ c \in Tree!Above[t]
      BY <3>4, <3>5
    <3>. QED  BY <1>1, <3>5, <3>6, AboveFacts
  <2>. QED  BY <1>1, <2>2, <2>3, <2>4
<1>5. \A n \in Tree!Node : n \in G
  <2>. HIDE DEF G
  <2>. QED  BY <1>4, UpTheTree
<1>. QED  BY <1>1, <1>2, <1>3, <1>5 DEF t

\* What a node says of its interval depends on that interval only.
LEMMA SameFree ==
  ASSUME NEW r, NEW a \in Int, NEW b \in Int, NEW F, NEW G, Reflects(r, a, b, F),
         \A p \in Int : a <= p /\ p <= b => (p \in F <=> p \in G)
  PROVE  Reflects(r, a, b, G)
<1>1. \A f, e \in Int : a <= f /\ e <= b => (AllIn(f, e, F) <=> AllIn(f, e, G))
  BY DEF AllIn
<1>. DEFINE x == r.max_free_interval
            y == r.left_available
            z == r.right_available
<1>2. MaxRun(x, a, b, F) /\ LeftRun(y, a, b, F) /\ RightRun(z, a, b, F)
  BY DEF Reflects
<1>. HIDE DEF x, y, z
<1>3. MaxRun(x, a, b, G)
  <2>1. x \in Int /\ 0 <= x /\ x <= b - a + 1
    BY <1>2 DEF MaxRun
  <2>2. \A f, l \in Int : f + l - 1 \in Int
    OBVIOUS
  <2>3. \E f \in Int : a <= f /\ f + x - 1 <= b /\ AllIn(f, f + x - 1, G)
    <3>1. PICK f \in Int : a <= f /\ f + x - 1 <= b /\ AllIn(f, f + x - 1, F)
      BY <1>2 DEF MaxRun
    <3>. QED  BY <1>1, <2>1, <2>2, <3>1
  <2>4. ASSUME NEW f \in Int, NEW l \in Int, a <= f, f + l - 1 <= b, AllIn(f, f + l - 1, G)
        PROVE  l <= x
    <3>1. AllIn(f, f + l - 1, F)
      BY <1>1, <2>2, <2>4
    <3>. QED  BY <1>2, <2>4, <3>1 DEF MaxRun
  <2>. QED  BY <2>1, <2>3, <2>4 DEF MaxRun
<1>4. LeftRun(y, a, b, G)
  <2>1. /\ y \in Int /\ 0 <= y /\ y <= b - a + 1 /\ AllIn(a, a + y - 1, F)
        /\ (y < b - a + 1 => a + y \notin F)
    BY <1>2 DEF LeftRun
  <2>2. a + y - 1 \in Int /\ a + y - 1 <= b /\ (y < b - a + 1 => a + y \in Int /\ a <= a + y /\ a + y <= b)
    BY <2>1
  <2>. QED  BY <1>1, <2>1, <2>2 DEF LeftRun
<1>5. RightRun(z, a, b, G)
  <2>1. /\ z \in Int /\ 0 <= z /\ z <= b - a + 1 /\ AllIn(b - z + 1, b, F)
        /\ (z < b - a + 1 => b - z \notin F)
    BY <1>2 DEF RightRun
  <2>2. b - z + 1 \in Int /\ a <= b - z + 1 /\ (z < b - a + 1 => b - z \in Int /\ a <= b - z /\ b - z <= b)
    BY <2>1
  <2>. QED  BY <1>1, <2>1, <2>2 DEF RightRun
<1>. QED  BY <1>3, <1>4, <1>5 DEF Reflects, x, y, z

\* update writes numbers.
LEMMA FatherType ==
  ASSUME NEW n0 \in TreeRecord, NEW n1 \in TreeRecord, NEW n2 \in TreeRecord
  PROVE  /\ Tree!Father(n0, n1, n2) \in TreeRecord
         /\ Tree!Father(n0, n1, n2).left_address = n0.left_address
         /\ Tree!Father(n0, n1, n2).right_address = n0.right_address
<1>. DEFINE s == Tree!Size(n1)
            x == n1.max_free_interval
            y == n2.max_free_interval
            l1 == n1.left_available
            r1 == n1.right_available
            l2 == n2.left_available
            r2 == n2.right_available
            top == Tree!Max({x, y, r1 + l2})
            New(r) == \E max, left, right \in Int : r = NewRuns(n0, max, left, right)
<1>1. /\ s \in Int /\ x \in Int /\ y \in Int /\ l1 \in Int /\ r1 \in Int /\ l2 \in Int /\ r2 \in Int
      /\ r1 + l2 \in Int
  BY DEF TreeRecord, Tree!Size
<1>2. top \in Int
  <2>. DEFINE w == r1 + l2
  <2>1. x \in Int /\ y \in Int /\ w \in Int
    BY <1>1
  <2>. HIDE DEF x, y, w
  <2>2. Tree!Max({x, y, w}) \in {x, y, w}
    BY <2>1, MaxOfThree
  <2>3. Tree!Max({x, y, w}) \in Int
    BY <2>1, <2>2
  <2>. QED  BY <2>3 DEF w
<1>3. New(Tree!Father(n0, n1, n2))
  <2>1. CASE x = s /\ y = s
    <3>1. Tree!Father(n0, n1, n2) = NewRuns(n0, 2 * s, 2 * s, 2 * s)
      <4>. HIDE DEF s
      <4>. QED  BY <2>1 DEF Tree!Father, NewRuns, s
    <3>2. 2 * s \in Int
      BY <1>1
    <3>. HIDE DEF s
    <3>. QED  BY <3>1, <3>2
  <2>2. CASE x = s /\ y # s
    <3>1. Tree!Father(n0, n1, n2) = NewRuns(n0, l2 + s, l2 + s, r2)
      BY <2>2 DEF Tree!Father, NewRuns
    <3>2. l2 + s \in Int
      BY <1>1
    <3>. HIDE DEF s, x, y, l2, r2
    <3>. QED  BY <1>1, <3>1, <3>2
  <2>3. CASE x # s /\ y = s
    <3>1. Tree!Father(n0, n1, n2) = NewRuns(n0, r1 + s, l1, r1 + s)
      BY <2>3 DEF Tree!Father, NewRuns
    <3>2. r1 + s \in Int
      BY <1>1
    <3>. HIDE DEF s, x, y, l1, r1
    <3>. QED  BY <1>1, <3>1, <3>2
  <2>4. CASE x # s /\ y # s
    <3>1. Tree!Father(n0, n1, n2) = NewRuns(n0, top, l1, r2)
      BY <2>4 DEF Tree!Father, NewRuns
    <3>. HIDE DEF s, x, y, l1, r2, top
    <3>. QED  BY <1>1, <1>2, <3>1
  <2>. QED  BY <2>1, <2>2, <2>3, <2>4
<1>4. PICK max \in Int, left \in Int, right \in Int :
         Tree!Father(n0, n1, n2) = NewRuns(n0, max, left, right)
  BY <1>3
<1>. HIDE DEF New
<1>5. /\ NewRuns(n0, max, left, right) \in TreeRecord
      /\ NewRuns(n0, max, left, right).left_address = n0.left_address
      /\ NewRuns(n0, max, left, right).right_address = n0.right_address
  BY <1>4, NewRunsType
<1>. QED  BY <1>4, <1>5

Trees == [Tree!Node -> TreeRecord]

\* update works its way from a leaf to the root.
LEMMA UpdateIs ==
  ASSUME NEW tr \in Trees, NEW t \in Tree!Node
  PROVE  /\ Tree!Update(tr, t) \in Trees
         /\ \A n \in Tree!Node :
               Tree!Update(tr, t)[n] =
                  IF n \in Tree!Above[t]
                  THEN Tree!Father(tr[n], Tree!Update(tr, t)[2 * n], Tree!Update(tr, t)[2 * n + 1])
                  ELSE tr[n]
<1>. DEFINE At(f, n) == IF n \in Tree!Above[t] THEN Tree!Father(tr[n], f[2 * n], f[2 * n + 1]) ELSE tr[n]
            K == 2 * OFFSET_TREE
            rank == [n \in Tree!Node |-> K - n]
            step == [n \in Tree!Node |-> [f \in Trees |-> At(f, n)]]
<1>1. \A n \in Tree!Node : n \in Tree!Above[t] =>
         /\ 2 * n \in Tree!Node /\ 2 * n + 1 \in Tree!Node
         /\ K - 2 * n < K - n /\ K - (2 * n + 1) < K - n
  <2>1. SUFFICES ASSUME NEW n \in Tree!Node, n \in Tree!Above[t]
                 PROVE  /\ 2 * n \in Tree!Node /\ 2 * n + 1 \in Tree!Node
                        /\ K - 2 * n < K - n /\ K - (2 * n + 1) < K - n
    OBVIOUS
  <2>2. n < OFFSET_TREE /\ n \in Nat /\ n >= 1 /\ OFFSET_TREE \in Nat
    BY <2>1, AboveFacts, FatherAndChildren, TreePages
  <2>3. 2 * n \in Tree!Node /\ 2 * n + 1 \in Tree!Node
    BY <2>2, FatherAndChildren
  <2>4. K - 2 * n < K - n /\ K - (2 * n + 1) < K - n
    BY <2>2
  <2>. QED  BY <2>3, <2>4
<1>2. ASSUME NEW f \in Trees, NEW n \in Tree!Node  PROVE At(f, n) \in TreeRecord
  <2>1. CASE n \in Tree!Above[t]
    <3>1. tr[n] \in TreeRecord /\ f[2 * n] \in TreeRecord /\ f[2 * n + 1] \in TreeRecord
      BY <1>1, <2>1 DEF Trees
    <3>2. Tree!Father(tr[n], f[2 * n], f[2 * n + 1]) \in TreeRecord
      BY <3>1, FatherType
    <3>. QED  BY <2>1, <3>2
  <2>2. CASE n \notin Tree!Above[t]
    BY <2>2 DEF Trees
  <2>. QED  BY <2>1, <2>2
<1>3. PICK f \in Trees : \A n \in Tree!Node : f[n] = At(f, n)
  <2>1. K \in Nat /\ rank \in [Tree!Node -> 0 .. K]
    <3>1. OFFSET_TREE \in Nat /\ OFFSET_TREE >= 1
      BY TreePages
    <3>2. \A n \in Tree!Node : K - n \in 0 .. K
      BY <3>1 DEF Tree!Node
    <3>. QED  BY <3>1, <3>2
  <2>2. step \in [Tree!Node -> [Trees -> TreeRecord]]
    <3>. HIDE DEF At
    <3>. QED  BY <1>2
  <2>3. ASSUME NEW n \in Tree!Node, NEW g \in Trees, NEW h \in Trees,
               \A i \in Tree!Node : rank[i] < rank[n] => g[i] = h[i]
        PROVE  step[n][g] = step[n][h]
    <3>1. n \in Tree!Above[t] => g[2 * n] = h[2 * n] /\ g[2 * n + 1] = h[2 * n + 1]
      <4>1. n \in Tree!Above[t] =>
               /\ 2 * n \in Tree!Node /\ 2 * n + 1 \in Tree!Node
               /\ rank[2 * n] < rank[n] /\ rank[2 * n + 1] < rank[n]
        BY <1>1
      <4>. QED  BY <2>3, <4>1
    <3>2. At(g, n) = At(h, n)
      BY <3>1
    <3>. HIDE DEF At
    <3>. QED  BY <3>2
  <2>4. TreeRecord # {}
    <3>1. [left_address |-> 0, right_address |-> 0, max_free_interval |-> 0,
           left_available |-> 0, right_available |-> 0] \in TreeRecord
      BY DEF TreeRecord
    <3>. QED  BY <3>1
  <2>5. Descends(Tree!Node, TreeRecord, K, rank, step)
    <3>. HIDE DEF At, rank, step, K
    <3>. QED  BY <2>1, <2>2, <2>3, <2>4 DEF Descends, Trees
  <2>6. \E f \in [Tree!Node -> TreeRecord] : \A n \in Tree!Node : f[n] = step[n][f]
    <3>. HIDE DEF At, rank, step, K
    <3>. QED  BY <2>5, RecursionExists
  <2>. HIDE DEF At
  <2>. QED  BY <2>6 DEF Trees
<1>. DEFINE now == CHOOSE g : g = [n \in Tree!Node |-> At(g, n)]
<1>4. f = [n \in Tree!Node |-> At(f, n)]
  <2>. HIDE DEF At
  <2>. QED  BY <1>3 DEF Trees
<1>5. now = [n \in Tree!Node |-> At(now, n)]
  <2>. HIDE DEF At
  <2>. QED  BY <1>4
<1>6. Tree!Update(tr, t) = now
  BY DEF Tree!Update
<1>. HIDE DEF now
<1>7. \A n \in Tree!Node : now[n] = At(now, n)
  <2>. HIDE DEF At
  <2>. QED  BY <1>5
<1>. DEFINE G == {n \in Tree!Node : now[n] = f[n]}
<1>8. ASSUME NEW n \in Tree!Node, n < OFFSET_TREE => 2 * n \in G /\ 2 * n + 1 \in G
      PROVE  n \in G
  <2>1. n \in Tree!Above[t] => n < OFFSET_TREE
    BY AboveFacts
  <2>2. n \in Tree!Above[t] => now[2 * n] = f[2 * n] /\ now[2 * n + 1] = f[2 * n + 1]
    BY <1>8, <2>1
  <2>3. At(now, n) = At(f, n)
    BY <2>2
  <2>4. now[n] = f[n]
    <3>. HIDE DEF At
    <3>. QED  BY <1>3, <1>7, <2>3
  <2>. QED  BY <2>4
<1>9. \A n \in Tree!Node : n \in G
  <2>. HIDE DEF G
  <2>. QED  BY <1>8, UpTheTree
<1>10. now \in Trees
  <2>1. now = [n \in Tree!Node |-> now[n]]
    <3>. HIDE DEF At
    <3>. QED  BY <1>5
  <2>2. \A n \in Tree!Node : now[n] \in TreeRecord
    BY <1>9 DEF Trees
  <2>. HIDE DEF At
  <2>. QED  BY <2>1, <2>2 DEF Trees
<1>. QED  BY <1>6, <1>7, <1>10

\* Tree tr has the intervals of build_tree, and all nodes, or those that do not have
\* page p, say which pages are free.
InPlace(tr) ==
    tr \in Trees /\ \A n \in Tree!Node : tr[n].left_address = Lo(n) /\ tr[n].right_address = Hi(n)
TreeReflects(tr, F) == tr \in Trees /\ \A n \in Tree!Node : Reflects(tr[n], Lo(n), Hi(n), F)
ReflectsBut(tr, F, p) ==
    /\ InPlace(tr)
    /\ \A n \in Tree!Node : ~(Lo(n) <= p /\ p <= Hi(n)) => Reflects(tr[n], Lo(n), Hi(n), F)

\* The free pages when page p becomes free or used.
Changed(F, p, free) == IF free = 1 THEN F \cup {p} ELSE F \ {p}

\* A leaf says whether its page is free.
LEMMA LeafReflects ==
  ASSUME NEW r \in TreeRecord, NEW p \in Int, NEW G, NEW free \in {0, 1}, free = 1 <=> p \in G,
         r.left_address = p, r.right_address = p
  PROVE  Reflects(NewRuns(r, free, free, free), p, p, G)
<1>1. free \in Int /\ 0 <= free /\ free <= p - p + 1
  OBVIOUS
<1>2. AllIn(p, p + free - 1, G) /\ AllIn(p - free + 1, p, G)
  <2>1. CASE free = 1
    BY <2>1 DEF AllIn
  <2>2. CASE free = 0
    BY <2>2 DEF AllIn
  <2>. QED  BY <2>1, <2>2
<1>3. free < p - p + 1 => p + free \notin G /\ p - free \notin G
  <2>1. free < p - p + 1 => free = 0 /\ p + 0 = p /\ p - 0 = p
    OBVIOUS
  <2>. QED  BY <2>1
<1>4. LeftRun(free, p, p, G) /\ RightRun(free, p, p, G)
  BY <1>1, <1>2, <1>3 DEF LeftRun, RightRun
<1>5. MaxRun(free, p, p, G)
  <2>1. p <= p /\ p + free - 1 <= p /\ AllIn(p, p + free - 1, G)
    BY <1>1, <1>2
  <2>2. ASSUME NEW f \in Int, NEW l \in Int, p <= f, f + l - 1 <= p, AllIn(f, f + l - 1, G)
        PROVE  l <= free
    <3>1. CASE l <= 0
      BY <1>1, <3>1
    <3>2. CASE l >= 1
      <4>1. l = 1 /\ f = p
        BY <2>2, <3>2
      <4>2. p \in G
        BY <2>2, <4>1 DEF AllIn
      <4>. QED  BY <4>1, <4>2
    <3>. QED  BY <3>1, <3>2
  <2>. QED  BY <1>1, <2>1, <2>2 DEF MaxRun
<1>. QED  BY <1>4, <1>5, NewReflects

\* update_leaf makes the whole tree right again, whatever the leaf and the nodes above it
\* have said before.
LEMMA UpdateLeafReflects ==
  ASSUME NEW p \in Tree!Pages, NEW tr, NEW F, ReflectsBut(tr, F, p), NEW free \in {0, 1}
  PROVE  TreeReflects(Tree!UpdateLeaf(tr, Tree!Leaf(p), free), Changed(F, p, free))
<1>. DEFINE t == Tree!Leaf(p)
            G == Changed(F, p, free)
            new == [tr EXCEPT ![t] = NewRuns(tr[t], free, free, free)]
            U == Tree!Update(new, t)
<1>1. /\ t \in Tree!Node /\ Lo(t) = p /\ Hi(t) = p /\ t \notin Tree!Above[t]
      /\ \A n \in Tree!Node : Lo(n) <= p /\ p <= Hi(n) => n = t \/ n \in Tree!Above[t]
  BY AboveCovers
<1>2. p \in Int
  BY TreePages DEF Tree!Pages
<1>3. Tree!UpdateLeaf(tr, t, free) = U
  BY DEF Tree!UpdateLeaf, NewRuns
<1>4. (free = 1 <=> p \in G) /\ \A q : q # p => (q \in F <=> q \in G)
  BY DEF Changed
<1>. HIDE DEF t, G
<1>5. tr \in Trees /\ \A n \in Tree!Node : tr[n].left_address = Lo(n) /\ tr[n].right_address = Hi(n)
  BY DEF ReflectsBut, InPlace
<1>6. Reflects(NewRuns(tr[t], free, free, free), p, p, G)
  <2>1. tr[t] \in TreeRecord
    BY <1>1, <1>5 DEF Trees
  <2>. QED  BY <1>1, <1>2, <1>4, <1>5, <2>1, LeafReflects
<1>7. /\ new \in Trees /\ new[t] = NewRuns(tr[t], free, free, free)
      /\ \A n \in Tree!Node : n # t => new[n] = tr[n]
  <2>1. NewRuns(tr[t], free, free, free) \in TreeRecord
    BY <1>6 DEF Reflects
  <2>. HIDE DEF TreeRecord
  <2>. QED  BY <1>1, <1>5, <2>1 DEF Trees
<1>. HIDE DEF new
<1>8. /\ U \in Trees
      /\ \A n \in Tree!Node : U[n] = IF n \in Tree!Above[t] THEN Tree!Father(new[n], U[2 * n], U[2 * n + 1])
                                     ELSE new[n]
  BY <1>1, <1>7, UpdateIs
<1>. HIDE DEF U
<1>. DEFINE R == {n \in Tree!Node : Reflects(U[n], Lo(n), Hi(n), G)}
<1>9. ASSUME NEW n \in Tree!Node, n < OFFSET_TREE => 2 * n \in R /\ 2 * n + 1 \in R
      PROVE  n \in R
  <2>0. Halved(n)
    BY TreeHalved
  <2>1. CASE n = t
    <3>1. U[n] = NewRuns(tr[t], free, free, free)
      BY <1>1, <1>7, <1>8, <2>1
    <3>. QED  BY <1>1, <1>6, <2>1, <3>1
  <2>2. CASE n \in Tree!Above[t]
    <3>1. n < OFFSET_TREE /\ n # t
      BY <1>1, <2>2, AboveFacts
    <3>2. /\ Lo(n) \in Int /\ Hi(n) \in Int
          /\ Lo(2 * n) = Lo(n) /\ Hi(2 * n + 1) = Hi(n) /\ Lo(2 * n + 1) = Hi(2 * n) + 1
          /\ Hi(2 * n) - Lo(2 * n) = Hi(2 * n + 1) - Lo(2 * n + 1)
          /\ Lo(2 * n) <= Hi(2 * n)
      BY <2>0, <3>1 DEF Halved
    <3>3. 2 * n \in R /\ 2 * n + 1 \in R
      BY <1>9, <3>1
    <3>. DEFINE a == Lo(n)
                m == Hi(2 * n)
                b == Hi(n)
    <3>4. m \in Int
      BY <3>3, TreeHalved DEF Halved
    <3>5. Reflects(U[2 * n], a, m, G) /\ Reflects(U[2 * n + 1], m + 1, b, G)
      BY <3>2, <3>3
    <3>6. a \in Int /\ b \in Int /\ a <= m /\ m < b /\ m - a = b - (m + 1)
      BY <3>2, <3>4
    <3>7. new[n] \in TreeRecord /\ new[n].left_address = a /\ new[n].right_address = b
      BY <1>5, <1>7, <3>1 DEF Trees
    <3>. HIDE DEF a, b, m, R
    <3>8. Reflects(Tree!Father(new[n], U[2 * n], U[2 * n + 1]), a, b, G)
      BY <3>4, <3>5, <3>6, <3>7, FatherReflects
    <3>9. Reflects(U[n], a, b, G)
      BY <1>8, <2>2, <3>8
    <3>. QED  BY <3>9 DEF a, b, R
  <2>3. CASE n # t /\ n \notin Tree!Above[t]
    <3>1. ~(Lo(n) <= p /\ p <= Hi(n))
      BY <1>1, <2>3
    <3>2. Reflects(tr[n], Lo(n), Hi(n), F)
      BY <3>1 DEF ReflectsBut
    <3>3. Lo(n) \in Int /\ Hi(n) \in Int
      BY <2>0 DEF Halved
    <3>4. \A q \in Int : Lo(n) <= q /\ q <= Hi(n) => (q \in F <=> q \in G)
      BY <1>4, <3>1
    <3>5. Reflects(tr[n], Lo(n), Hi(n), G)
      BY <3>2, <3>3, <3>4, SameFree
    <3>6. U[n] = tr[n]
      BY <1>7, <1>8, <2>3
    <3>. QED  BY <3>5, <3>6
  <2>. QED  BY <2>1, <2>2, <2>3
<1>10. \A n \in Tree!Node : n \in R
  <2>. HIDE DEF R
  <2>. QED  BY <1>9, UpTheTree
<1>11. TreeReflects(U, G)
  BY <1>8, <1>10 DEF TreeReflects
<1>. QED  BY <1>3, <1>11 DEF t, G

\* A leaf is one of the nodes.
LEMMA UpdateLeafType ==
  ASSUME NEW tr \in Trees, NEW p \in Tree!Pages, NEW free \in {0, 1}
  PROVE  Tree!UpdateLeaf(tr, Tree!Leaf(p), free) \in Trees
<1>. DEFINE t == Tree!Leaf(p)
            new == [tr EXCEPT ![t] = NewRuns(tr[t], free, free, free)]
<1>1. t \in Tree!Node
  BY AboveCovers
<1>2. Tree!UpdateLeaf(tr, t, free) = Tree!Update(new, t)
  BY DEF Tree!UpdateLeaf, NewRuns
<1>. HIDE DEF t
<1>3. NewRuns(tr[t], free, free, free) \in TreeRecord
  <2>1. tr[t] \in TreeRecord /\ free \in Int
    BY <1>1 DEF Trees
  <2>. HIDE DEF t
  <2>. QED  BY <2>1, NewRunsType
<1>4. new \in Trees
  <2>. HIDE DEF TreeRecord
  <2>. QED  BY <1>3 DEF Trees
<1>. HIDE DEF new
<1>. QED  BY <1>1, <1>2, <1>4, UpdateIs DEF t

\* The free pages when size pages from start on become free or used.
ChangedAll(F, start, size, free) ==
    IF free = 1 THEN F \cup (start .. start + size - 1) ELSE F \ (start .. start + size - 1)

\* update_leaves changes its pages and no others, and makes the whole tree right, even if
\* the nodes that have the first page have been wrong.
LEMMA UpdateLeavesReflects ==
  ASSUME NEW start \in Nat, NEW size \in Nat \ {0}, start + size <= OFFSET_TREE,
         NEW tr, NEW F, ReflectsBut(tr, F, start), NEW free \in {0, 1}
  PROVE  TreeReflects(Tree!UpdateLeaves(tr, start, size, free), ChangedAll(F, start, size, free))
<1>. DEFINE At(f, i) == IF i = 0 THEN tr ELSE Tree!UpdateLeaf(f[i - 1], Tree!Leaf(start + i - 1), free)
            rank == [i \in 0 .. size |-> i]
            step == [i \in 0 .. size |-> [f \in [0 .. size -> Trees] |-> At(f, i)]]
<1>1. tr \in Trees /\ size \in Nat /\ OFFSET_TREE \in Nat
  BY TreePages DEF ReflectsBut, InPlace
<1>2. \A i \in 0 .. size : i # 0 => i - 1 \in 0 .. size /\ start + i - 1 \in Tree!Pages
  BY <1>1 DEF Tree!Pages
<1>3. ASSUME NEW f \in [0 .. size -> Trees], NEW i \in 0 .. size  PROVE At(f, i) \in Trees
  <2>1. CASE i = 0
    BY <1>1, <2>1
  <2>2. CASE i # 0
    <3>1. f[i - 1] \in Trees /\ start + i - 1 \in Tree!Pages
      BY <1>2, <2>2
    <3>2. Tree!UpdateLeaf(f[i - 1], Tree!Leaf(start + i - 1), free) \in Trees
      BY <3>1, UpdateLeafType
    <3>. QED  BY <2>2, <3>2
  <2>. QED  BY <2>1, <2>2
<1>4. PICK f \in [0 .. size -> Trees] : \A i \in 0 .. size : f[i] = At(f, i)
  <2>1. size \in Nat /\ rank \in [0 .. size -> 0 .. size]
    BY <1>1
  <2>2. step \in [0 .. size -> [[0 .. size -> Trees] -> Trees]]
    <3>. HIDE DEF At
    <3>. QED  BY <1>3
  <2>3. ASSUME NEW i \in 0 .. size, NEW g \in [0 .. size -> Trees], NEW h \in [0 .. size -> Trees],
               \A j \in 0 .. size : rank[j] < rank[i] => g[j] = h[j]
        PROVE  step[i][g] = step[i][h]
    <3>1. i # 0 => g[i - 1] = h[i - 1]
      <4>1. i # 0 => i - 1 \in 0 .. size /\ rank[i - 1] < rank[i]
        OBVIOUS
      <4>. QED  BY <2>3, <4>1
    <3>2. At(g, i) = At(h, i)
      BY <3>1
    <3>. HIDE DEF At
    <3>. QED  BY <3>2
  <2>4. Trees # {}
    BY <1>1
  <2>5. Descends(0 .. size, Trees, size, rank, step)
    <3>. HIDE DEF At, rank, step
    <3>. QED  BY <2>1, <2>2, <2>3, <2>4 DEF Descends
  <2>6. \E f \in [0 .. size -> Trees] : \A i \in 0 .. size : f[i] = step[i][f]
    <3>. HIDE DEF At, rank, step
    <3>. QED  BY <2>5, RecursionExists
  <2>. HIDE DEF At
  <2>. QED  BY <2>6
<1>. DEFINE after == CHOOSE g : g = [i \in 0 .. size |-> At(g, i)]
<1>5. f = [i \in 0 .. size |-> At(f, i)]
  <2>. HIDE DEF At
  <2>. QED  BY <1>4
<1>6. after = [i \in 0 .. size |-> At(after, i)]
  <2>. HIDE DEF At
  <2>. QED  BY <1>5
<1>7. Tree!UpdateLeaves(tr, start, size, free) = after[size]
  BY DEF Tree!UpdateLeaves
<1>. HIDE DEF after
<1>8. after[0] = tr /\ \A i \in 0 .. size : i # 0 =>
         after[i] = Tree!UpdateLeaf(after[i - 1], Tree!Leaf(start + i - 1), free)
  <2>1. \A i \in 0 .. size : after[i] = At(after, i)
    <3>. HIDE DEF At
    <3>. QED  BY <1>6
  <2>2. 0 \in 0 .. size
    BY <1>1
  <2>3. after[0] = At(after, 0)
    <3>. HIDE DEF At
    <3>. QED  BY <2>1, <2>2
  <2>. QED  BY <2>1, <2>3
<1>. DEFINE Part(i) == ChangedAll(F, start, i, free)
            G == {i \in 0 .. size : i # 0 => TreeReflects(after[i], Part(i))}
<1>9. ASSUME NEW i \in 0 .. size, i # 0 => i - 1 \in G  PROVE i \in G
  <2>1. SUFFICES ASSUME i # 0  PROVE TreeReflects(after[i], Part(i))
    OBVIOUS
  <2>. DEFINE p == start + i - 1
              H == Part(i - 1)
  <2>2. p \in Tree!Pages /\ i \in Nat
    BY <1>2, <2>1
  <2>3. ReflectsBut(after[i - 1], H, p)
    <3>1. CASE i = 1
      <4>1. i - 1 = 0 /\ p = start /\ start .. start + 0 - 1 = {}
        BY <3>1
      <4>2. H = F
        BY <4>1 DEF ChangedAll
      <4>. HIDE DEF p, H
      <4>. QED  BY <1>8, <4>1, <4>2
    <3>2. CASE i # 1
      <4>1. TreeReflects(after[i - 1], H)
        <5>1. i - 1 # 0 /\ i - 1 \in G
          BY <1>9, <2>1, <2>2, <3>2
        <5>. QED  BY <5>1
      <4>. HIDE DEF H
      <4>. QED  BY <4>1 DEF TreeReflects, ReflectsBut, InPlace, Reflects
    <3>. QED  BY <3>1, <3>2
  <2>4. Changed(H, p, free) = Part(i)
    <3>1. start .. start + i - 1 = (start .. start + (i - 1) - 1) \cup {p}
      BY <2>1, <2>2
    <3>. DEFINE A == start .. start + (i - 1) - 1
                B == start .. start + i - 1
    <3>2. B = A \cup {p}
      BY <3>1
    <3>3. (F \cup A) \cup {p} = F \cup B /\ (F \ A) \ {p} = F \ B
      <4>. HIDE DEF A, B, p
      <4>. QED  BY <3>2
    <3>4. Part(i) = IF free = 1 THEN F \cup B ELSE F \ B
      BY DEF ChangedAll
    <3>5. H = IF free = 1 THEN F \cup A ELSE F \ A
      BY DEF ChangedAll
    <3>. HIDE DEF A, B, H, p, Part
    <3>. QED  BY <3>3, <3>4, <3>5 DEF Changed
  <2>5. after[i] = Tree!UpdateLeaf(after[i - 1], Tree!Leaf(p), free)
    BY <1>8, <2>1
  <2>. HIDE DEF p, H, Part
  <2>6. TreeReflects(Tree!UpdateLeaf(after[i - 1], Tree!Leaf(p), free), Changed(H, p, free))
    BY <2>2, <2>3, UpdateLeafReflects
  <2>. QED  BY <2>4, <2>5, <2>6
<1>10. \A i \in 0 .. size : i \in G
  <2>. HIDE DEF G
  <2>. QED  BY <1>1, <1>9, CountUp
<1>11. size \in 0 .. size /\ size # 0
  BY <1>1
<1>12. TreeReflects(after[size], Part(size))
  BY <1>10, <1>11
<1>. QED  BY <1>7, <1>12

-----------------------------------------------------------------------------
(* The segment tree: alloc_pages_tree and free_pages_tree *)

\* A run of free pages that is longer than what each of two neighbours has goes across
\* the middle, and there is room for it from the first free page in front of that on.
LEMMA AcrossTheMiddle ==
  ASSUME NEW a \in Int, NEW m \in Int, NEW b \in Int, a <= m, m < b, NEW F,
         NEW x, NEW y, NEW r, NEW z, NEW len \in Int,
         MaxRun(z, a, b, F), MaxRun(x, a, m, F), MaxRun(y, m + 1, b, F), RightRun(r, a, m, F),
         len <= z, ~(x >= len), ~(y >= len)
  PROVE  /\ r \in Int /\ a <= m - r + 1 /\ m - r + len <= b
         /\ AllIn(m - r + 1, m - r + len, F)
<1>1. /\ r \in Int /\ 0 <= r /\ r <= m - a + 1 /\ AllIn(m - r + 1, m, F) /\ (r < m - a + 1 => m - r \notin F)
  BY DEF RightRun
<1>2. x \in Int /\ y \in Int /\ z \in Int /\ 0 <= x /\ 0 <= y
  BY DEF MaxRun
<1>3. PICK g \in Int : a <= g /\ g + z - 1 <= b /\ AllIn(g, g + z - 1, F)
  BY DEF MaxRun
<1>. DEFINE e == g + len - 1
<1>4. e \in Int /\ e <= b /\ e <= g + z - 1 /\ len >= 1
  BY <1>2, <1>3
<1>5. AllIn(g, e, F)
  BY <1>2, <1>3, <1>4 DEF AllIn
<1>6. ~(e <= m)
  <2>1. SUFFICES ASSUME e <= m  PROVE FALSE
    OBVIOUS
  <2>2. \A f \in Int, l \in Int : a <= f /\ f + l - 1 <= m /\ AllIn(f, f + l - 1, F) => l <= x
    BY DEF MaxRun
  <2>3. len <= x
    BY <1>3, <1>5, <2>1, <2>2
  <2>. QED  BY <1>2, <2>3
<1>7. ~(m + 1 <= g)
  <2>1. SUFFICES ASSUME m + 1 <= g  PROVE FALSE
    OBVIOUS
  <2>2. \A f \in Int, l \in Int : m + 1 <= f /\ f + l - 1 <= b /\ AllIn(f, f + l - 1, F) => l <= y
    BY DEF MaxRun
  <2>3. len <= y
    BY <1>3, <1>4, <1>5, <2>1, <2>2
  <2>. QED  BY <1>2, <2>3
<1>. HIDE DEF e
<1>8. m - r + 1 <= g
  <2>1. SUFFICES ASSUME r < m - g + 1  PROVE FALSE
    BY <1>1, <1>3
  <2>2. m - r \in Int /\ g <= m - r /\ m - r <= e /\ r < m - a + 1
    BY <1>1, <1>3, <1>4, <1>6, <2>1
  <2>3. m - r \in F
    BY <1>5, <2>2 DEF AllIn
  <2>. QED  BY <1>1, <2>2, <2>3
<1>9. m - r + len <= e
  BY <1>1, <1>3, <1>8 DEF e
<1>10. ASSUME NEW p \in Int, m - r + 1 <= p, p <= m - r + len  PROVE p \in F
  <2>1. CASE p <= m
    BY <1>1, <1>10, <2>1 DEF AllIn
  <2>2. CASE p > m
    <3>1. g <= p /\ p <= e
      BY <1>1, <1>3, <1>4, <1>7, <1>9, <1>10, <2>2
    <3>. QED  BY <1>5, <3>1 DEF AllIn
  <2>. QED  BY <2>1, <2>2
<1>11. AllIn(m - r + 1, m - r + len, F)
  BY <1>10 DEF AllIn
<1>. QED  BY <1>1, <1>4, <1>9, <1>11

\* The pages from f on are free and belong to node n.
FreeAt(n, f, len, F) ==
    f \in Int /\ Lo(n) <= f /\ f + len - 1 <= Hi(n) /\ AllIn(f, f + len - 1, F)

\* What __alloc_pages_tree comes to is free if the root says that there is enough.
LEMMA FoundFree ==
  ASSUME NEW F, TreeReflects(tree, F), NEW len \in Nat \ {0}, len <= tree[1].max_free_interval
  PROVE  FreeAt(1, Tree!Found(1, len), len, F)
<1>. DEFINE At(f, n) ==
                IF tree[n].max_free_interval = Tree!Size(tree[n]) \/ n >= OFFSET_TREE
                THEN tree[n].left_address
                ELSE IF tree[2 * n].max_free_interval >= len THEN f[2 * n]
                ELSE IF tree[2 * n + 1].max_free_interval >= len THEN f[2 * n + 1]
                ELSE tree[2 * n].right_address - tree[2 * n].right_available + 1
            K == 2 * OFFSET_TREE
            rank == [n \in Tree!Node |-> K - n]
            step == [n \in Tree!Node |-> [f \in [Tree!Node -> Int] |-> At(f, n)]]
<1>1. ASSUME NEW n \in Tree!Node
      PROVE  /\ Reflects(tree[n], Lo(n), Hi(n), F) /\ tree[n] \in TreeRecord
             /\ tree[n].left_address = Lo(n) /\ tree[n].right_address = Hi(n)
             /\ tree[n].left_address \in Int
             /\ tree[n].right_address - tree[n].right_available + 1 \in Int
             /\ Tree!Size(tree[n]) = Hi(n) - Lo(n) + 1
             /\ MaxRun(tree[n].max_free_interval, Lo(n), Hi(n), F)
             /\ RightRun(tree[n].right_available, Lo(n), Hi(n), F)
  <2>1. Reflects(tree[n], Lo(n), Hi(n), F)
    BY DEF TreeReflects
  <2>2. tree[n] \in TreeRecord /\ tree[n].left_address = Lo(n) /\ tree[n].right_address = Hi(n)
    BY <2>1 DEF Reflects
  <2>. QED  BY <2>1, <2>2 DEF Reflects, TreeRecord, Tree!Size
<1>2. ASSUME NEW n \in Tree!Node, ~(n >= OFFSET_TREE)
      PROVE  2 * n \in Tree!Node /\ 2 * n + 1 \in Tree!Node /\ K - 2 * n < K - n /\ K - (2 * n + 1) < K - n
  <2>1. n < OFFSET_TREE /\ n \in Nat /\ n >= 1 /\ OFFSET_TREE \in Nat
    BY <1>2, FatherAndChildren, TreePages
  <2>2. 2 * n \in Tree!Node /\ 2 * n + 1 \in Tree!Node
    BY <2>1, FatherAndChildren
  <2>3. K - 2 * n < K - n /\ K - (2 * n + 1) < K - n
    BY <2>1
  <2>. QED  BY <2>2, <2>3
<1>3. ASSUME NEW f \in [Tree!Node -> Int], NEW n \in Tree!Node  PROVE At(f, n) \in Int
  <2>1. CASE n >= OFFSET_TREE
    BY <1>1, <2>1
  <2>2. CASE ~(n >= OFFSET_TREE)
    BY <1>1, <1>2, <2>2
  <2>. QED  BY <2>1, <2>2
<1>4. PICK f \in [Tree!Node -> Int] : \A n \in Tree!Node : f[n] = At(f, n)
  <2>1. K \in Nat /\ rank \in [Tree!Node -> 0 .. K]
    <3>1. OFFSET_TREE \in Nat /\ OFFSET_TREE >= 1
      BY TreePages
    <3>2. \A n \in Tree!Node : K - n \in 0 .. K
      BY <3>1 DEF Tree!Node
    <3>. QED  BY <3>1, <3>2
  <2>2. step \in [Tree!Node -> [[Tree!Node -> Int] -> Int]]
    <3>. HIDE DEF At
    <3>. QED  BY <1>3
  <2>3. ASSUME NEW n \in Tree!Node, NEW g \in [Tree!Node -> Int], NEW h \in [Tree!Node -> Int],
               \A i \in Tree!Node : rank[i] < rank[n] => g[i] = h[i]
        PROVE  step[n][g] = step[n][h]
    <3>1. ~(n >= OFFSET_TREE) => g[2 * n] = h[2 * n] /\ g[2 * n + 1] = h[2 * n + 1]
      <4>1. ~(n >= OFFSET_TREE) =>
               /\ 2 * n \in Tree!Node /\ 2 * n + 1 \in Tree!Node
               /\ rank[2 * n] < rank[n] /\ rank[2 * n + 1] < rank[n]
        BY <1>2
      <4>. QED  BY <2>3, <4>1
    <3>2. At(g, n) = At(h, n)
      BY <3>1
    <3>. HIDE DEF At
    <3>. QED  BY <3>2
  <2>4. Descends(Tree!Node, Int, K, rank, step)
    <3>1. Int # {}
      OBVIOUS
    <3>. HIDE DEF At, rank, step, K
    <3>. QED  BY <2>1, <2>2, <2>3, <3>1 DEF Descends
  <2>5. \E f \in [Tree!Node -> Int] : \A n \in Tree!Node : f[n] = step[n][f]
    <3>. HIDE DEF At, rank, step, K
    <3>. QED  BY <2>4, RecursionExists
  <2>. HIDE DEF At
  <2>. QED  BY <2>5
<1>. DEFINE found == CHOOSE g : g = [n \in Tree!Node |-> At(g, n)]
<1>5. f = [n \in Tree!Node |-> At(f, n)]
  <2>. HIDE DEF At
  <2>. QED  BY <1>4
<1>6. found = [n \in Tree!Node |-> At(found, n)]
  <2>. HIDE DEF At
  <2>. QED  BY <1>5
<1>7. Tree!Found(1, len) = found[1]
  BY DEF Tree!Found
<1>. HIDE DEF found
<1>8. \A n \in Tree!Node : found[n] = At(found, n)
  <2>. HIDE DEF At
  <2>. QED  BY <1>6
<1>. DEFINE G == {n \in Tree!Node : len <= tree[n].max_free_interval => FreeAt(n, found[n], len, F)}
<1>9. ASSUME NEW n \in Tree!Node, n < OFFSET_TREE => 2 * n \in G /\ 2 * n + 1 \in G
      PROVE  n \in G
  <2>1. SUFFICES ASSUME len <= tree[n].max_free_interval  PROVE FreeAt(n, found[n], len, F)
    OBVIOUS
  <2>. DEFINE z == tree[n].max_free_interval
  <2>2. Halved(n) /\ OFFSET_TREE \in Nat /\ n \in Nat
    BY TreeHalved, TreePages, FatherAndChildren
  <2>3. Lo(n) \in Int /\ Hi(n) \in Int /\ Lo(n) <= Hi(n) /\ z \in Int /\ z <= Hi(n) - Lo(n) + 1
    BY <1>1, <2>2 DEF Halved, MaxRun
  <2>4. CASE z = Tree!Size(tree[n]) \/ n >= OFFSET_TREE
    <3>1. found[n] = Lo(n)
      BY <1>1, <1>8, <2>4
    <3>2. z = Hi(n) - Lo(n) + 1
      <4>1. CASE n >= OFFSET_TREE
        <5>1. Hi(n) - Lo(n) + 1 = 1
          BY <2>2, <2>3, <4>1 DEF Halved
        <5>. QED  BY <2>1, <2>3, <5>1
      <4>2. CASE z = Tree!Size(tree[n])
        BY <1>1, <4>2
      <4>. QED  BY <2>4, <4>1, <4>2
    <3>3. AllIn(Lo(n), Hi(n), F)
      <4>. HIDE DEF z
      <4>1. MaxRun(z, Lo(n), Hi(n), F)
        BY <1>1 DEF z
      <4>. QED  BY <2>3, <3>2, <4>1, WholeRun
    <3>4. Lo(n) + len - 1 <= Hi(n)
      <4>. HIDE DEF z
      <4>1. len <= z
        BY <2>1 DEF z
      <4>. QED  BY <2>3, <4>1
    <3>5. AllIn(Lo(n), Lo(n) + len - 1, F)
      BY <2>3, <3>3, <3>4 DEF AllIn
    <3>. QED  BY <2>3, <3>1, <3>4, <3>5 DEF FreeAt
  <2>5. CASE ~(z = Tree!Size(tree[n]) \/ n >= OFFSET_TREE)
    <3>. DEFINE x == tree[2 * n].max_free_interval
                y == tree[2 * n + 1].max_free_interval
                r == tree[2 * n].right_available
    <3>1. 2 * n \in Tree!Node /\ 2 * n + 1 \in Tree!Node
      BY <1>2, <2>5
    <3>2. /\ Lo(2 * n) = Lo(n) /\ Hi(2 * n + 1) = Hi(n) /\ Lo(2 * n + 1) = Hi(2 * n) + 1
          /\ Lo(2 * n) <= Hi(2 * n)
          /\ Hi(2 * n) - Lo(2 * n) = Hi(2 * n + 1) - Lo(2 * n + 1)
      BY <2>2, <2>5 DEF Halved
    <3>3. Hi(2 * n) \in Int
      BY <3>1, TreeHalved DEF Halved
    <3>4. 2 * n \in G /\ 2 * n + 1 \in G
      BY <1>9, <2>2, <2>5
    <3>5. Lo(n) <= Hi(2 * n) /\ Hi(2 * n) < Hi(n)
      BY <2>3, <3>2, <3>3
    <3>6. found[n] = IF x >= len THEN found[2 * n] ELSE IF y >= len THEN found[2 * n + 1]
                     ELSE Hi(2 * n) - r + 1
      <4>1. tree[2 * n].right_address = Hi(2 * n)
        BY <1>1, <3>1
      <4>. QED  BY <1>8, <2>5, <4>1
    <3>7. x \in Int /\ y \in Int
      BY <1>1, <3>1 DEF TreeRecord
    <3>8. CASE x >= len
      <4>1. FreeAt(2 * n, found[2 * n], len, F)
        <5>1. len <= x
          BY <3>7, <3>8
        <5>. QED  BY <3>4, <5>1
      <4>2. found[n] = found[2 * n]
        BY <3>6, <3>8
      <4>. QED  BY <2>3, <3>2, <3>3, <3>5, <4>1, <4>2 DEF FreeAt
    <3>9. CASE ~(x >= len) /\ y >= len
      <4>1. FreeAt(2 * n + 1, found[2 * n + 1], len, F)
        <5>1. len <= y
          BY <3>7, <3>9
        <5>. QED  BY <3>4, <5>1
      <4>2. found[n] = found[2 * n + 1]
        BY <3>6, <3>9
      <4>. QED  BY <2>3, <3>2, <3>3, <3>5, <4>1, <4>2 DEF FreeAt
    <3>10. CASE ~(x >= len) /\ ~(y >= len)
      <4>. DEFINE a == Lo(n)
                  m == Hi(2 * n)
                  b == Hi(n)
      <4>1. /\ MaxRun(z, a, b, F) /\ MaxRun(x, a, m, F) /\ MaxRun(y, m + 1, b, F)
            /\ RightRun(r, a, m, F)
        <5>1. MaxRun(x, Lo(2 * n), m, F) /\ RightRun(r, Lo(2 * n), m, F)
          BY <1>1, <3>1
        <5>2. MaxRun(y, Lo(2 * n + 1), Hi(2 * n + 1), F)
          BY <1>1, <3>1
        <5>3. MaxRun(z, a, b, F)
          BY <1>1
        <5>. HIDE DEF x, y, z, r
        <5>. QED  BY <3>2, <5>1, <5>2, <5>3
      <4>2. a \in Int /\ m \in Int /\ b \in Int /\ a <= m /\ m < b /\ len \in Int
        BY <2>3, <3>3, <3>5
      <4>3. len <= z /\ ~(x >= len) /\ ~(y >= len)
        BY <2>1, <3>10
      <4>4. found[n] = m - r + 1
        BY <3>6, <3>10
      <4>. HIDE DEF a, m, b, x, y, z, r
      <4>5. r \in Int /\ a <= m - r + 1 /\ m - r + len <= b /\ AllIn(m - r + 1, m - r + len, F)
        BY <4>1, <4>2, <4>3, AcrossTheMiddle
      <4>6. m - r + 1 + len - 1 = m - r + len /\ m - r + 1 \in Int
        BY <4>2, <4>5
      <4>. QED  BY <4>4, <4>5, <4>6 DEF FreeAt, a, b
    <3>. QED  BY <3>8, <3>9, <3>10
  <2>. QED  BY <2>4, <2>5
<1>10. \A n \in Tree!Node : n \in G
  <2>. HIDE DEF G
  <2>. QED  BY <1>9, UpTheTree
<1>11. 1 \in Tree!Node
  BY TreePages DEF Tree!Node
<1>. QED  BY <1>7, <1>10, <1>11

\* The pages that alloc_pages_tree has not given, or has got back.
PagesLeft == Tree!Pages \ UNION {Tree!Interval(i.address, i.length) : i \in given}

TreeInv ==
    /\ TreeReflects(tree, PagesLeft)
    /\ given \subseteq [address : Tree!Pages, length : 1 .. OFFSET_TREE]
    /\ \A i \in given : i.address + i.length <= OFFSET_TREE
    /\ \A i, j \in given : i # j =>
          Tree!Interval(i.address, i.length) \cap Tree!Interval(j.address, j.length) = {}

\* build_tree says of every node that it is free.
LEMMA TreeInitInv == Tree!Init => TreeInv
<1>. SUFFICES ASSUME Tree!Init  PROVE TreeInv
  OBVIOUS
<1>1. tree = Tree!Built /\ given = {}
  BY DEF Tree!Init
<1>2. PagesLeft = Tree!Pages /\ \A p \in Int : 0 <= p /\ p < OFFSET_TREE => p \in PagesLeft
  BY <1>1, TreePages DEF PagesLeft, Tree!Pages
<1>3. ASSUME NEW n \in Tree!Node  PROVE Reflects(Tree!Built[n], Lo(n), Hi(n), PagesLeft)
  <2>. DEFINE a == Lo(n)
              b == Hi(n)
              s == b - a + 1
              r == Tree!Built[n]
              F == PagesLeft
  <2>1. a \in Int /\ b \in Int /\ 0 <= a /\ a <= b /\ b < OFFSET_TREE
    BY TreeHalved DEF Halved
  <2>2. /\ r \in TreeRecord /\ r.left_address = a /\ r.right_address = b
        /\ r.max_free_interval = s /\ r.left_available = s /\ r.right_available = s
    BY BuiltFacts DEF BuiltAt, Lo, Hi
  <2>. HIDE DEF a, b, r
  <2>3. /\ s \in Int /\ 0 <= s /\ s <= b - a + 1 /\ a + s - 1 = b /\ b - s + 1 = a
        /\ ~(s < b - a + 1)
    BY <2>1
  <2>4. AllIn(a, b, F)
    <3>. HIDE DEF F
    <3>1. ASSUME NEW p \in Int, a <= p, p <= b  PROVE p \in F
      <4>1. 0 <= p /\ p < OFFSET_TREE
        BY <2>1, <3>1, TreePages
      <4>. QED  BY <1>2, <4>1 DEF F
    <3>. QED  BY <3>1 DEF AllIn
  <2>5. LeftRun(s, a, b, F) /\ RightRun(s, a, b, F)
    <3>. HIDE DEF s, F
    <3>. QED  BY <2>3, <2>4 DEF LeftRun, RightRun
  <2>6. MaxRun(s, a, b, F)
    <3>1. a <= a /\ a + s - 1 <= b /\ AllIn(a, a + s - 1, F)
      <4>. HIDE DEF F
      <4>. QED  BY <2>1, <2>3, <2>4
    <3>2. \A f, l \in Int : a <= f /\ f + l - 1 <= b => l <= s
      BY <2>1
    <3>. HIDE DEF s, F
    <3>. QED  BY <2>1, <2>3, <3>1, <3>2 DEF MaxRun
  <2>7. Reflects(r, a, b, F)
    <3>. HIDE DEF s, F
    <3>. QED  BY <2>2, <2>5, <2>6 DEF Reflects
  <2>. QED  BY <2>7 DEF a, b, r
<1>4. Tree!Built \in Trees
  <2>1. \A n \in Tree!Node : Tree!Built[n] \in TreeRecord
    BY BuiltFacts DEF BuiltAt
  <2>. QED  BY <2>1, BuiltFacts DEF Trees
<1>5. TreeReflects(tree, PagesLeft)
  <2>. HIDE DEF Trees
  <2>. QED  BY <1>1, <1>3, <1>4 DEF TreeReflects
<1>. QED  BY <1>1, <1>5 DEF TreeInv

\* A tree that is right is right but for any page.
LEMMA ReflectsAll ==
  ASSUME NEW tr, NEW F, NEW p, TreeReflects(tr, F)
  PROVE  ReflectsBut(tr, F, p)
BY DEF TreeReflects, ReflectsBut, InPlace, Reflects

\* alloc_pages_tree gives free pages, and the tree says so.
LEMMA TreeAllocInv ==
  ASSUME TreeInv, NEW len \in 1 .. OFFSET_TREE, Tree!Alloc(len)
  PROVE  TreeInv'
<1>. DEFINE start == Tree!Found(1, len)
            new == [address |-> start, length |-> len]
            F == PagesLeft
            I == start .. start + len - 1
            C(i) == Tree!Interval(i.address, i.length)
<1>1. OFFSET_TREE \in Nat /\ OFFSET_TREE >= 1 /\ len \in Nat \ {0}
  BY TreePages
<1>2. /\ len <= tree[1].max_free_interval
      /\ tree' = Tree!UpdateLeaves(tree, start, len, 0)
      /\ given' = given \cup {new}
  BY DEF Tree!Alloc
<1>3. TreeReflects(tree, F)
  BY DEF TreeInv
<1>4. FreeAt(1, start, len, F)
  <2>. HIDE DEF F
  <2>. QED  BY <1>1, <1>2, <1>3, FoundFree
<1>. HIDE DEF start, F
<1>5. start \in Nat /\ start + len <= OFFSET_TREE /\ AllIn(start, start + len - 1, F)
  <2>1. start \in Int /\ 0 <= start /\ start + len - 1 <= OFFSET_TREE - 1
        /\ AllIn(start, start + len - 1, F)
    BY <1>4, TreeHalved DEF FreeAt
  <2>. QED  BY <1>1, <2>1
<1>6. I \subseteq F
  BY <1>1, <1>5 DEF AllIn
<1>7. TreeReflects(tree', F \ I)
  <2>1. ReflectsBut(tree, F, start)
    BY <1>3, ReflectsAll
  <2>2. TreeReflects(Tree!UpdateLeaves(tree, start, len, 0), ChangedAll(F, start, len, 0))
    BY <1>1, <1>5, <2>1, UpdateLeavesReflects
  <2>3. ChangedAll(F, start, len, 0) = F \ I
    BY DEF ChangedAll
  <2>. QED  BY <1>2, <2>2, <2>3
<1>8. C(new) = I
  BY DEF Tree!Interval
<1>. HIDE DEF I
<1>9. PagesLeft' = F \ I
  <2>1. PagesLeft' = Tree!Pages \ UNION {C(i) : i \in given \cup {new}}
    BY <1>2 DEF PagesLeft
  <2>2. F = Tree!Pages \ UNION {C(i) : i \in given}
    BY DEF F, PagesLeft
  <2>3. UNION {C(i) : i \in given \cup {new}} = (UNION {C(i) : i \in given}) \cup C(new)
    <3>. HIDE DEF C, new
    <3>. QED  OBVIOUS
  <2>. HIDE DEF C, new
  <2>. QED  BY <1>8, <2>1, <2>2, <2>3
<1>10. \A i \in given : C(i) \cap I = {}
  <2>1. \A i \in given : C(i) \cap F = {}
    <3>. HIDE DEF C
    <3>1. F = Tree!Pages \ UNION {C(i) : i \in given}
      BY DEF F, PagesLeft, C
    <3>. QED  BY <3>1
  <2>. HIDE DEF C
  <2>. QED  BY <1>6, <2>1
<1>11. \A i, j \in given' : i # j => C(i) \cap C(j) = {}
  <2>1. \A i, j \in given : i # j => C(i) \cap C(j) = {}
    BY DEF TreeInv
  <2>. HIDE DEF C, new
  <2>. QED  BY <1>2, <1>8, <1>10, <2>1
<1>12. new \in [address : Tree!Pages, length : 1 .. OFFSET_TREE] /\ new.address + new.length <= OFFSET_TREE
  BY <1>1, <1>5 DEF Tree!Pages
<1>13. /\ given' \subseteq [address : Tree!Pages, length : 1 .. OFFSET_TREE]
       /\ \A i \in given' : i.address + i.length <= OFFSET_TREE
  <2>. HIDE DEF new
  <2>. QED  BY <1>2, <1>12 DEF TreeInv
<1>14. (TreeReflects(tree, PagesLeft))'
  BY <1>7, <1>9 DEF TreeReflects
<1>. QED  BY <1>11, <1>13, <1>14 DEF TreeInv

\* free_pages_tree takes an interval back, and the tree says so.
LEMMA TreeFreeInv ==
  ASSUME TreeInv, NEW old \in given, Tree!Free(old)
  PROVE  TreeInv'
<1>. DEFINE start == old.address
            len == old.length
            F == PagesLeft
            I == start .. start + len - 1
            C(i) == Tree!Interval(i.address, i.length)
            Z == Tree!Zeroed(start, len)
<1>1. start \in Nat /\ len \in Nat \ {0} /\ start + len <= OFFSET_TREE
  <2>1. old \in [address : Tree!Pages, length : 1 .. OFFSET_TREE] /\ old.address + old.length <= OFFSET_TREE
    BY DEF TreeInv
  <2>. QED  BY <2>1, TreePages DEF Tree!Pages
<1>2. tree' = Tree!UpdateLeaves(Z, start, len, 1) /\ given' = given \ {old}
  BY DEF Tree!Free
<1>3. ReflectsBut(Z, F, start)
  <2>1. ASSUME NEW n \in Tree!Node
        PROVE  /\ Reflects(tree[n], Lo(n), Hi(n), F)
               /\ tree[n] \in TreeRecord /\ tree[n].left_address = Lo(n) /\ tree[n].right_address = Hi(n)
               /\ Lo(n) \in Int /\ Hi(n) \in Int /\ Lo(n) <= Hi(n)
    <3>1. Reflects(tree[n], Lo(n), Hi(n), F)
      BY DEF TreeInv, TreeReflects
    <3>. HIDE DEF F
    <3>. QED  BY <3>1, TreeHalved DEF Reflects, Halved
  <2>2. /\ Z = [n \in Tree!Node |-> Z[n]]
        /\ \A n \in Tree!Node : Z[n] = IF n \in Tree!NodesOf(start, len) THEN NewRuns(tree[n], 0, 0, 0)
                                       ELSE tree[n]
    BY DEF Tree!Zeroed, NewRuns
  <2>. HIDE DEF Z, F
  <2>3. ASSUME NEW n \in Tree!Node
        PROVE  Z[n] \in TreeRecord /\ Z[n].left_address = Lo(n) /\ Z[n].right_address = Hi(n)
    <3>1. /\ NewRuns(tree[n], 0, 0, 0) \in TreeRecord
          /\ NewRuns(tree[n], 0, 0, 0).left_address = tree[n].left_address
          /\ NewRuns(tree[n], 0, 0, 0).right_address = tree[n].right_address
      <4>1. tree[n] \in TreeRecord
        BY <2>1
      <4>2. ASSUME NEW r \in TreeRecord
            PROVE  /\ NewRuns(r, 0, 0, 0) \in TreeRecord
                   /\ NewRuns(r, 0, 0, 0).left_address = r.left_address
                   /\ NewRuns(r, 0, 0, 0).right_address = r.right_address
        <5>1. 0 \in Int
          OBVIOUS
        <5>. QED  BY <5>1, NewRunsType
      <4>. HIDE DEF TreeRecord
      <4>. QED  BY <4>1, <4>2
    <3>. QED  BY <2>1, <2>2, <3>1
  <2>4. Z \in Trees
    <3>. HIDE DEF TreeRecord
    <3>. QED  BY <2>2, <2>3 DEF Trees
  <2>5. ASSUME NEW n \in Tree!Node, ~(Lo(n) <= start /\ start <= Hi(n))
        PROVE  Reflects(Z[n], Lo(n), Hi(n), F)
    <3>1. n \notin Tree!NodesOf(start, len)
      <4>1. n \in Tree!NodesOf(start, len) => tree[n].left_address = start
        BY DEF Tree!NodesOf
      <4>2. Lo(n) = start => Lo(n) <= start /\ start <= Hi(n)
        BY <1>1, <2>1
      <4>. QED  BY <2>1, <2>5, <4>1, <4>2
    <3>. QED  BY <2>1, <2>2, <3>1
  <2>. QED  BY <2>3, <2>4, <2>5 DEF ReflectsBut, InPlace
<1>. HIDE DEF F, Z
<1>4. TreeReflects(tree', F \cup I)
  <2>1. TreeReflects(Tree!UpdateLeaves(Z, start, len, 1), ChangedAll(F, start, len, 1))
    <3>. HIDE DEF start, len
    <3>. QED  BY <1>1, <1>3, UpdateLeavesReflects
  <2>2. ChangedAll(F, start, len, 1) = F \cup I
    BY DEF ChangedAll
  <2>. QED  BY <1>2, <2>1, <2>2
<1>5. C(old) = I /\ I \subseteq Tree!Pages
  BY <1>1, TreePages DEF Tree!Interval, Tree!Pages
<1>. HIDE DEF I, start, len
<1>6. \A i, j \in given : i # j => C(i) \cap C(j) = {}
  BY DEF TreeInv
<1>7. PagesLeft' = F \cup I
  <2>1. PagesLeft' = Tree!Pages \ UNION {C(i) : i \in given \ {old}}
    BY <1>2 DEF PagesLeft
  <2>2. F = Tree!Pages \ UNION {C(i) : i \in given}
    BY DEF F, PagesLeft
  <2>. HIDE DEF C
  <2>3. \A i \in given \ {old} : C(i) \cap C(old) = {}
    BY <1>6
  <2>4. UNION {C(i) : i \in given} = C(old) \cup UNION {C(i) : i \in given \ {old}}
    OBVIOUS
  <2>5. C(old) \cap UNION {C(i) : i \in given \ {old}} = {}
    BY <2>3
  <2>. QED  BY <1>5, <2>1, <2>2, <2>4, <2>5
<1>8. (TreeReflects(tree, PagesLeft))'
  BY <1>4, <1>7 DEF TreeReflects
<1>9. \A i, j \in given' : i # j => C(i) \cap C(j) = {}
  BY <1>2, <1>6
<1>10. /\ given' \subseteq [address : Tree!Pages, length : 1 .. OFFSET_TREE]
       /\ \A i \in given' : i.address + i.length <= OFFSET_TREE
  BY <1>2 DEF TreeInv
<1>. QED  BY <1>8, <1>9, <1>10 DEF TreeInv

\* The greatest number of a set.
LEMMA MaxIs ==
  ASSUME NEW S \in SUBSET Int, NEW x \in S, \A y \in S : x >= y
  PROVE  Tree!Max(S) = x
<1>1. Tree!Max(S) = CHOOSE z \in S : \A y \in S : z >= y
  BY DEF Tree!Max
<1>2. Tree!Max(S) \in S /\ \A y \in S : Tree!Max(S) >= y
  BY <1>1
<1>3. Tree!Max(S) >= x /\ x >= Tree!Max(S) /\ x \in Int /\ Tree!Max(S) \in Int
  BY <1>2
<1>. QED  BY <1>3

\* The longest of some runs, if there is one of that length or it is 0.
LEMMA LongestIs ==
  ASSUME NEW A \in SUBSET Int, NEW runs \in SUBSET [from : A, length : Nat], NEW x \in Nat,
         \A run \in runs : run.length <= x,
         x = 0 \/ \E run \in runs : run.length = x
  PROVE  Tree!Longest(runs) = x
<1>. DEFINE S == {run.length : run \in runs} \cup {0}
<1>1. S \in SUBSET Int
  OBVIOUS
<1>2. x \in S
  OBVIOUS
<1>3. \A y \in S : x >= y
  <2>1. \A run \in runs : run.length \in Nat
    OBVIOUS
  <2>. QED  BY <2>1
<1>4. Tree!Longest(runs) = Tree!Max(S)
  BY DEF Tree!Longest
<1>. HIDE DEF S
<1>. QED  BY <1>1, <1>2, <1>3, <1>4, MaxIs

\* The leaves show what is free.
LEMMA LeavesShow == TreeInv => Tree!FreeLeaves = PagesLeft
<1>. SUFFICES ASSUME TreeInv  PROVE Tree!FreeLeaves = PagesLeft
  OBVIOUS
<1>1. ASSUME NEW p \in Tree!Pages
      PROVE  tree[Tree!Leaf(p)].max_free_interval = 1 <=> p \in PagesLeft
  <2>. DEFINE t == Tree!Leaf(p)
              x == tree[t].max_free_interval
  <2>1. t \in Tree!Node /\ Lo(t) = p /\ Hi(t) = p
    BY AboveCovers
  <2>. HIDE DEF t
  <2>2. Reflects(tree[t], p, p, PagesLeft)
    <3>. HIDE DEF PagesLeft
    <3>. QED  BY <2>1 DEF TreeInv, TreeReflects
  <2>3. p \in Int /\ p <= p /\ p - p + 1 = 1
    BY TreePages DEF Tree!Pages
  <2>4. MaxRun(x, p, p, PagesLeft)
    BY <2>2 DEF Reflects
  <2>. HIDE DEF x
  <2>5. x = p - p + 1 <=> AllIn(p, p, PagesLeft)
    BY <2>3, <2>4, WholeRun
  <2>6. AllIn(p, p, PagesLeft) <=> p \in PagesLeft
    <3>. HIDE DEF PagesLeft
    <3>1. \A q \in Int : p <= q /\ q <= p => q = p
      BY <2>3
    <3>. QED  BY <2>3, <3>1 DEF AllIn
  <2>. QED  BY <2>3, <2>5, <2>6 DEF x, t
<1>2. PagesLeft \subseteq Tree!Pages
  BY DEF PagesLeft
<1>. HIDE DEF PagesLeft
<1>. QED  BY <1>1, <1>2 DEF Tree!FreeLeaves

\* A node's three numbers are the longest runs that they are the lengths of.
LEMMA RunsAreLongest ==
  ASSUME NEW n, NEW a \in Int, NEW b \in Int, a <= b, Reflects(n, a, b, Tree!FreeLeaves)
  PROVE  /\ n.max_free_interval = Tree!Longest(Tree!FreeRuns(n))
         /\ n.left_available =
               Tree!Longest({run \in Tree!FreeRuns(n) : run.from = n.left_address})
         /\ n.right_available =
               Tree!Longest({run \in Tree!FreeRuns(n) : run.from + run.length - 1 = n.right_address})
<1>. DEFINE F == Tree!FreeLeaves
            s == b - a + 1
            x == n.max_free_interval
            y == n.left_available
            z == n.right_available
            runs == Tree!FreeRuns(n)
            lefts == {run \in runs : run.from = n.left_address}
            rights == {run \in runs : run.from + run.length - 1 = n.right_address}
<1>1. /\ MaxRun(x, a, b, F) /\ LeftRun(y, a, b, F) /\ RightRun(z, a, b, F)
      /\ n.left_address = a /\ n.right_address = b
  BY DEF Reflects
<1>2. Tree!Size(n) = s /\ s \in Nat /\ s >= 1
  BY <1>1 DEF Tree!Size
<1>. HIDE DEF F
<1>3. \A f, l \in Int : f .. f + l - 1 \subseteq F <=> AllIn(f, f + l - 1, F)
  BY DEF AllIn
<1>4. runs = {run \in [from : a .. b, length : 0 .. s] :
                 run.from + run.length - 1 <= b /\ AllIn(run.from, run.from + run.length - 1, F)}
  <2>1. runs = {run \in [from : a .. b, length : 0 .. s] :
                 /\ run.from + run.length - 1 <= b
                 /\ Tree!Interval(run.from, run.length) \subseteq F}
    <3>. HIDE DEF s
    <3>. QED  BY <1>1, <1>2 DEF Tree!FreeRuns, F
  <2>2. \A run \in [from : a .. b, length : 0 .. s] :
           Tree!Interval(run.from, run.length) \subseteq F <=> AllIn(run.from, run.from + run.length - 1, F)
    <3>1. \A run \in [from : a .. b, length : 0 .. s] : run.from \in Int /\ run.length \in Int
      OBVIOUS
    <3>. HIDE DEF s
    <3>. QED  BY <1>3, <3>1 DEF Tree!Interval
  <2>. HIDE DEF s, runs
  <2>. QED  BY <2>1, <2>2
<1>. HIDE DEF x, y, z, runs
<1>5. ASSUME NEW f \in Int, NEW l \in Int, a <= f, f <= b, 0 <= l, f + l - 1 <= b, AllIn(f, f + l - 1, F)
      PROVE  [from |-> f, length |-> l] \in runs
  <2>1. f \in a .. b /\ l \in 0 .. s
    BY <1>5
  <2>. HIDE DEF s
  <2>. QED  BY <1>4, <1>5, <2>1
<1>6. ASSUME NEW run \in runs
      PROVE  /\ run \in [from : a .. b, length : Nat] /\ run.from \in Int /\ run.length \in Int
             /\ a <= run.from /\ run.from <= b /\ 0 <= run.length
             /\ run.from + run.length - 1 <= b /\ AllIn(run.from, run.from + run.length - 1, F)
  <2>1. /\ run \in [from : a .. b, length : 0 .. s]
        /\ run.from + run.length - 1 <= b /\ AllIn(run.from, run.from + run.length - 1, F)
    <3>. HIDE DEF s
    <3>. QED  BY <1>4
  <2>2. run \in [from : a .. b, length : Nat]
    BY <2>1
  <2>3. run.from \in a .. b /\ run.length \in 0 .. s
    BY <2>1
  <2>. QED  BY <2>1, <2>2, <2>3
<1>7. runs \in SUBSET [from : a .. b, length : Nat] /\ a .. b \in SUBSET Int
  BY <1>6
<1>8. x \in Nat /\ y \in Nat /\ z \in Nat
  BY <1>1 DEF MaxRun, LeftRun, RightRun
<1>9. x = Tree!Longest(runs)
  <2>1. \A run \in runs : run.length <= x
    BY <1>1, <1>6 DEF MaxRun
  <2>2. x = 0 \/ \E run \in runs : run.length = x
    <3>1. SUFFICES ASSUME x # 0  PROVE \E run \in runs : run.length = x
      OBVIOUS
    <3>2. PICK f \in Int : a <= f /\ f + x - 1 <= b /\ AllIn(f, f + x - 1, F)
      BY <1>1 DEF MaxRun
    <3>3. f <= b /\ 0 <= x /\ x \in Int
      BY <1>8, <3>1, <3>2
    <3>4. [from |-> f, length |-> x] \in runs
      BY <1>5, <3>2, <3>3
    <3>. QED  BY <3>4
  <2>. QED  BY <1>7, <1>8, <2>1, <2>2, LongestIs
<1>10. y = Tree!Longest(lefts)
  <2>0. /\ 0 <= y /\ y <= b - a + 1 /\ AllIn(a, a + y - 1, F)
        /\ (y < b - a + 1 => a + y \notin F)
    BY <1>1 DEF LeftRun
  <2>1. ASSUME NEW run \in lefts  PROVE run.length <= y
    <3>1. /\ run.from = a /\ run.length \in Int /\ a + run.length - 1 <= b
          /\ AllIn(a, a + run.length - 1, F)
      BY <1>1, <1>6
    <3>2. SUFFICES ASSUME y < run.length  PROVE FALSE
      BY <1>8, <3>1
    <3>3. y < b - a + 1 /\ a + y \in Int /\ a <= a + y /\ a + y <= a + run.length - 1
      BY <1>8, <3>1, <3>2
    <3>4. a + y \in F
      BY <3>1, <3>3 DEF AllIn
    <3>. QED  BY <2>0, <3>3, <3>4
  <2>2. \E run \in lefts : run.length = y
    <3>1. a + y - 1 <= b /\ y \in Int
      BY <1>8, <2>0
    <3>2. [from |-> a, length |-> y] \in runs
      BY <1>5, <2>0, <3>1
    <3>. QED  BY <1>1, <3>2
  <2>3. lefts \in SUBSET [from : a .. b, length : Nat]
    BY <1>7
  <2>. HIDE DEF lefts
  <2>. QED  BY <1>7, <1>8, <2>1, <2>2, <2>3, LongestIs
<1>11. z = Tree!Longest(rights)
  <2>0. /\ 0 <= z /\ z <= b - a + 1 /\ AllIn(b - z + 1, b, F)
        /\ (z < b - a + 1 => b - z \notin F)
    BY <1>1 DEF RightRun
  <2>1. ASSUME NEW run \in rights  PROVE run.length <= z
    <3>1. /\ run.from \in Int /\ run.length \in Int /\ run.from + run.length - 1 = b /\ a <= run.from
          /\ AllIn(run.from, b, F)
      BY <1>1, <1>6
    <3>2. SUFFICES ASSUME z < run.length  PROVE FALSE
      BY <1>8, <3>1
    <3>3. z < b - a + 1 /\ b - z \in Int /\ run.from <= b - z /\ b - z <= b
      BY <1>8, <3>1, <3>2
    <3>4. b - z \in F
      BY <3>1, <3>3 DEF AllIn
    <3>. QED  BY <2>0, <3>3, <3>4
  <2>2. z = 0 \/ \E run \in rights : run.length = z
    <3>1. SUFFICES ASSUME z # 0  PROVE \E run \in rights : run.length = z
      OBVIOUS
    <3>. DEFINE f == b - z + 1
    <3>2. f \in Int /\ a <= f /\ f <= b /\ f + z - 1 = b /\ z \in Int
      BY <1>8, <2>0, <3>1
    <3>3. AllIn(f, f + z - 1, F)
      BY <2>0, <3>2
    <3>. HIDE DEF f
    <3>4. [from |-> f, length |-> z] \in runs
      BY <1>5, <2>0, <3>2, <3>3
    <3>. QED  BY <1>1, <3>2, <3>4
  <2>3. rights \in SUBSET [from : a .. b, length : Nat]
    BY <1>7
  <2>. HIDE DEF rights
  <2>. QED  BY <1>7, <1>8, <2>1, <2>2, <2>3, LongestIs
<1>. QED  BY <1>9, <1>10, <1>11 DEF x, y, z, runs

\* The invariant says what TreeSound says.
LEMMA TreeInvSound == TreeInv => Tree!Sound
<1>. SUFFICES ASSUME TreeInv  PROVE Tree!Sound
  OBVIOUS
<1>1. ASSUME NEW t \in Tree!Node
      PROVE  /\ Reflects(tree[t], Lo(t), Hi(t), Tree!FreeLeaves)
             /\ Lo(t) \in Nat /\ Hi(t) \in Nat /\ Lo(t) <= Hi(t) /\ Hi(t) < OFFSET_TREE
  <2>1. Reflects(tree[t], Lo(t), Hi(t), PagesLeft)
    <3>. HIDE DEF PagesLeft
    <3>. QED  BY DEF TreeInv, TreeReflects
  <2>. HIDE DEF PagesLeft
  <2>. QED  BY <2>1, LeavesShow, TreeHalved DEF Halved
<1>2. Tree!TypeOK
  <2>1. ASSUME NEW t \in Tree!Node
        PROVE  /\ tree[t].left_address \in Tree!Pages /\ tree[t].right_address \in Tree!Pages
               /\ tree[t].max_free_interval \in 0 .. Tree!Size(tree[t])
               /\ tree[t].left_available \in 0 .. Tree!Size(tree[t])
               /\ tree[t].right_available \in 0 .. Tree!Size(tree[t])
    <3>. DEFINE x == tree[t].max_free_interval
                y == tree[t].left_available
                z == tree[t].right_available
                F == Tree!FreeLeaves
    <3>1. /\ tree[t].left_address = Lo(t) /\ tree[t].right_address = Hi(t)
          /\ MaxRun(x, Lo(t), Hi(t), F) /\ LeftRun(y, Lo(t), Hi(t), F) /\ RightRun(z, Lo(t), Hi(t), F)
      BY <1>1 DEF Reflects
    <3>2. Tree!Size(tree[t]) = Hi(t) - Lo(t) + 1
      BY <3>1 DEF Tree!Size
    <3>3. Lo(t) \in Tree!Pages /\ Hi(t) \in Tree!Pages
      BY <1>1, TreePages DEF Tree!Pages
    <3>. HIDE DEF x, y, z, F
    <3>4. x \in 0 .. Hi(t) - Lo(t) + 1 /\ y \in 0 .. Hi(t) - Lo(t) + 1 /\ z \in 0 .. Hi(t) - Lo(t) + 1
      BY <1>1, <3>1 DEF MaxRun, LeftRun, RightRun
    <3>. QED  BY <3>1, <3>2, <3>3, <3>4 DEF x, y, z
  <2>. QED  BY <2>1 DEF Tree!TypeOK, TreeInv
<1>3. Tree!GivenApart
  BY LeavesShow DEF TreeInv, Tree!GivenApart, PagesLeft
<1>4. Tree!Summary
  <2>1. ASSUME NEW t \in Tree!Node
        PROVE  /\ tree[t].max_free_interval = Tree!Longest(Tree!FreeRuns(tree[t]))
               /\ tree[t].left_available =
                     Tree!Longest({run \in Tree!FreeRuns(tree[t]) : run.from = tree[t].left_address})
               /\ tree[t].right_available =
                     Tree!Longest({run \in Tree!FreeRuns(tree[t]) :
                                     run.from + run.length - 1 = tree[t].right_address})
    <3>. DEFINE n == tree[t]
    <3>1. Lo(t) \in Int /\ Hi(t) \in Int /\ Lo(t) <= Hi(t) /\ Reflects(n, Lo(t), Hi(t), Tree!FreeLeaves)
      BY <1>1
    <3>. HIDE DEF n
    <3>. QED  BY <3>1, RunsAreLongest DEF n
  <2>. QED  BY <2>1 DEF Tree!Summary
<1>. QED  BY <1>2, <1>3, <1>4 DEF Tree!Sound

\* At any time, no page of the segment tree is given twice, and every node says which runs
\* of its pages are free, whatever power of two of pages there are.
THEOREM TreeSoundHolds == SystemSpec => []TreeSound
<1>1. SystemInit => TreeInv
  BY TreeInitInv DEF SystemInit
<1>2. TreeInv /\ [SystemNext]_<<boot, memory, shell_tree>> => TreeInv'
  <2>. SUFFICES ASSUME TreeInv, [SystemNext]_<<boot, memory, shell_tree>>
                PROVE  TreeInv'
    OBVIOUS
  <2>1. CASE TreeCall
    <3>1. ASSUME NEW len \in 1 .. OFFSET_TREE, Tree!Alloc(len)  PROVE TreeInv'
      BY <3>1, TreeAllocInv
    <3>2. ASSUME NEW interval \in given, Tree!Free(interval)  PROVE TreeInv'
      BY <3>2, TreeFreeInv
    <3>. QED  BY <2>1, <3>1, <3>2 DEF TreeCall, Tree!Next
  <2>2. CASE UNCHANGED shell_tree
    <3>1. tree' = tree /\ given' = given
      BY <2>2 DEF shell_tree
    <3>. QED  BY <3>1 DEF TreeInv, TreeReflects, PagesLeft
  <2>. QED  BY <2>1, <2>2 DEF SystemNext, BootRequest, init_buddy, MemoryCall
<1>3. TreeInv => TreeSound
  BY TreeInvSound DEF TreeSound
<1>. QED  BY <1>1, <1>2, <1>3, PTL DEF SystemSpec

-----------------------------------------------------------------------------
(* The system *)

\* Every step of kmalloc and kfree is one of the buddy system.
THEOREM KmallocRunsBuddy == 1 \in PageNums => (MemSpec => Spec)
<1>. SUFFICES ASSUME 1 \in PageNums  PROVE MemSpec => Spec
  OBVIOUS
<1>1. MemInit => Init
  BY DEF MemInit
<1>2. [MemNext]_memory => [Next]_vars
  <2>. SUFFICES ASSUME [MemNext]_memory  PROVE [Next]_vars
    OBVIOUS
  <2>1. ASSUME NEW s \in ObjSizes, slab_alloc(s)  PROVE Next \/ UNCHANGED vars
    BY <2>1 DEF slab_alloc, Next
  <2>2. ASSUME NEW n \in PageNums, kmalloc_pages(n) \/ kmalloc_refused(n)  PROVE Next
    BY <2>2 DEF kmalloc_pages, kmalloc_refused, Next
  <2>3. ASSUME NEW h \in held, kfree(h)  PROVE Next
    BY <2>3 DEF kfree, Next
  <2>4. UNCHANGED memory => UNCHANGED vars
    BY DEF memory
  <2>. QED  BY <2>1, <2>2, <2>3, <2>4 DEF MemNext
<1>. QED  BY <1>1, <1>2, PTL DEF MemSpec, Spec

\* What follows the start is a behaviour of kmalloc and kfree.
THEOREM SystemRunsKmalloc == SystemSpec => MemSpec
<1>1. SystemInit => MemInit
  BY DEF SystemInit
<1>2. [SystemNext]_<<boot, memory, shell_tree>> => [MemNext]_memory
  BY DEF SystemNext, BootRequest, init_buddy, MemoryCall, TreeCall
<1>. QED  BY <1>1, <1>2, PTL DEF SystemSpec, MemSpec

\* From the start on, while no group is freed whose merge meets a held pair: objects are
\* apart, links intact, pages partitioned, and alloc_pages keeps the promise of
\* PageAllocator to kmalloc.
THEOREM MemoryUnderSystem ==
  ASSUME ~HeldPairs, 1 \in PageNums
  PROVE  SystemSpec => [](ObjectsApart /\ LinksIntact /\ EveryPageOnce) /\ IsPageAllocator
<1>1. MemSpec => [](ObjectsApart /\ LinksIntact /\ EveryPageOnce)
  BY ObjectsApartHolds, LinksIntactHolds, EveryPageOnceForKmalloc, PTL
<1>2. Spec => IsPageAllocator
  BY BuddyIsPageAllocator
<1>3. MemSpec => Spec
  BY KmallocRunsBuddy
<1>. QED  BY <1>1, <1>2, <1>3, SystemRunsKmalloc, PTL
=============================================================================
