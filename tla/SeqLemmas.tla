----------------------------- MODULE SeqLemmas -----------------------------
(***************************************************************************)
(* Facts about the sequence operators with which the models write the      *)
(* kernel's linked lists: Append (list_insert), RemoveFirst (list_delete   *)
(* and list_del), Tail (a head taken off) and <<x>> \o s (list_add), and what *)
(* the proofs do their inductions with: the least of a set of numbers, and    *)
(* that a recursive definition of a function has a meaning; and division.     *)
(***************************************************************************)
EXTENDS Integers, SequencesExt, SequenceTheorems, WellFoundedInduction, TLAPS

\* A set of numbers that is not empty has a least one.
LEMMA LeastExists ==
  ASSUME NEW S \in SUBSET Nat, S # {}
  PROVE  \E x \in S : \A y \in S : x <= y
<1>1. PICK x \in S : \A y \in S : ~(<<y, x>> \in OpToRel(<, Nat))
  BY NatLessThanWellFounded, WFMin
<1>2. \A y \in S : ~(y < x)
  BY <1>1 DEF OpToRel
<1>. QED  BY <1>2

\* list_insert adds the node's task and nothing else, and keeps a list without
\* duplicates without them.
LEMMA AppendFacts ==
  ASSUME NEW S, NEW s \in Seq(S), NEW x \in S
  PROVE  /\ Append(s, x) \in Seq(S)
         /\ Range(Append(s, x)) = Range(s) \cup {x}
         /\ IsInjective(s) /\ x \notin Range(s) => IsInjective(Append(s, x))
<1>. DEFINE a == Append(s, x)
<1>1. /\ a \in Seq(S) /\ Len(a) = Len(s) + 1 /\ DOMAIN a = 1 .. Len(s) + 1
      /\ DOMAIN s = 1 .. Len(s) /\ Len(s) \in Nat
      /\ \A i \in 1 .. Len(s) : a[i] = s[i]
      /\ a[Len(s) + 1] = x
  BY AppendProperties, LenProperties
<1>. HIDE DEF a
<1>2. Range(a) = Range(s) \cup {x}
  BY <1>1 DEF Range
<1>3. ASSUME IsInjective(s), x \notin Range(s)  PROVE IsInjective(a)
  <2>1. \A i \in 1 .. Len(s) : s[i] # x
    BY <1>1, <1>3 DEF Range
  <2>2. SUFFICES ASSUME NEW i \in 1 .. Len(s) + 1, NEW j \in 1 .. Len(s) + 1, a[i] = a[j]
                 PROVE  i = j
    BY <1>1 DEF IsInjective
  <2>3. CASE i \in 1 .. Len(s) /\ j \in 1 .. Len(s)
    BY <2>2, <2>3, <1>1, <1>3 DEF IsInjective
  <2>4. CASE i = Len(s) + 1 \/ j = Len(s) + 1
    <3>1. \A k \in 1 .. Len(s) : a[k] # x
      BY <2>1, <1>1
    <3>2. a[i] = x
      BY <2>2, <2>4, <1>1
    <3>3. i \notin 1 .. Len(s) /\ j \notin 1 .. Len(s)
      BY <3>1, <3>2, <2>2
    <3>. QED  BY <3>3, <1>1
  <2>. QED  BY <2>3, <2>4, <1>1
<1>. QED  BY <1>1, <1>2, <1>3 DEF a

\* Leaving out position i moves the later elements one place forward.
LEMMA RemoveAtFacts ==
  ASSUME NEW S, NEW s \in Seq(S), NEW i \in 1 .. Len(s)
  PROVE  /\ RemoveAt(s, i) \in Seq(S)
         /\ Len(RemoveAt(s, i)) = Len(s) - 1
         /\ \A j \in 1 .. Len(s) - 1 :
               RemoveAt(s, i)[j] = IF j < i THEN s[j] ELSE s[j + 1]
<1>. DEFINE p == SubSeq(s, 1, i - 1)
            q == SubSeq(s, i + 1, Len(s))
<1>1. /\ Len(s) \in Nat /\ DOMAIN s = 1 .. Len(s)
      /\ \A j \in 1 .. Len(s) : s[j] \in S
  BY LenProperties, ElementOfSeq
<1>2. /\ p \in Seq(S) /\ Len(p) = i - 1
      /\ \A j \in 1 .. i - 1 : p[j] = s[j]
  <2>1. \A j \in 1 .. i - 1 : s[j] \in S
    BY <1>1
  <2>. QED  BY <2>1, <1>1, SubSeqProperties
<1>3. /\ q \in Seq(S) /\ Len(q) = Len(s) - i
      /\ \A j \in 1 .. Len(s) - i : q[j] = s[i + j]
  <2>1. \A j \in i + 1 .. Len(s) : s[j] \in S
    BY <1>1
  <2>2. /\ SubSeq(s, i + 1, Len(s)) \in Seq(S)
        /\ Len(SubSeq(s, i + 1, Len(s))) =
              IF i + 1 <= Len(s) THEN Len(s) - (i + 1) + 1 ELSE 0
        /\ \A j \in 1 .. Len(s) - (i + 1) + 1 :
              SubSeq(s, i + 1, Len(s))[j] = s[(i + 1) + j - 1]
    BY <2>1, <1>1, SubSeqProperties
  <2>3. /\ Len(s) - (i + 1) + 1 = Len(s) - i
        /\ \A j \in 1 .. Len(s) - i : (i + 1) + j - 1 = i + j
        /\ i + 1 <= Len(s) <=> Len(s) - i > 0
    BY <1>1
  <2>4. Len(q) = Len(s) - i
    <3>1. CASE i + 1 <= Len(s)
      BY <3>1, <2>2, <2>3
    <3>2. CASE ~(i + 1 <= Len(s))
      <4>1. Len(q) = 0
        BY <3>2, <2>2
      <4>2. ASSUME NEW n \in Nat, NEW k \in 1 .. n, ~(k + 1 <= n)  PROVE n - k = 0
        BY <4>2
      <4>3. Len(s) - i = 0
        BY <3>2, <1>1, <4>2
      <4>. QED  BY <4>1, <4>3
    <3>. QED  BY <3>1, <3>2
  <2>5. \A j \in 1 .. Len(s) - i : q[j] = s[i + j]
    BY <2>2, <2>3
  <2>. QED  BY <2>2, <2>4, <2>5
<1>. HIDE DEF p, q
<1>4. /\ p \o q \in Seq(S) /\ Len(p \o q) = Len(p) + Len(q)
      /\ \A j \in 1 .. Len(p) + Len(q) :
            (p \o q)[j] = IF j <= Len(p) THEN p[j] ELSE q[j - Len(p)]
  BY <1>2, <1>3, ConcatProperties
<1>5. \A j \in 1 .. Len(s) - 1 : (p \o q)[j] = IF j < i THEN s[j] ELSE s[j + 1]
  <2>. TAKE j \in 1 .. Len(s) - 1
  <2>1. CASE j < i
    BY <2>1, <1>1, <1>2, <1>3, <1>4
  <2>2. CASE j >= i
    <3>1. (p \o q)[j] = q[j - (i - 1)]
      BY <2>2, <1>1, <1>2, <1>3, <1>4
    <3>2. q[j - (i - 1)] = s[i + (j - (i - 1))]
      BY <2>2, <1>1, <1>3
    <3>3. i + (j - (i - 1)) = j + 1 /\ ~(j < i)
      BY <2>2, <1>1
    <3>. QED  BY <3>1, <3>2, <3>3
  <2>3. j < i \/ j >= i
    BY <1>1
  <2>. QED  BY <2>1, <2>2, <2>3
<1>6. RemoveAt(s, i) = p \o q
  BY DEF RemoveAt, p, q
<1>7. Len(p \o q) = Len(s) - 1
  BY <1>1, <1>2, <1>3, <1>4
<1>. QED  BY <1>4, <1>5, <1>6, <1>7

\* list_delete takes the task out of a list without duplicates, and only it.
LEMMA RemoveFirstFacts ==
  ASSUME NEW S, NEW s \in Seq(S), IsInjective(s), NEW x
  PROVE  /\ RemoveFirst(s, x) \in Seq(S)
         /\ Range(RemoveFirst(s, x)) = Range(s) \ {x}
         /\ IsInjective(RemoveFirst(s, x))
         /\ x \in Range(s) => Len(RemoveFirst(s, x)) = Len(s) - 1
<1>1. Len(s) \in Nat /\ DOMAIN s = 1 .. Len(s)
  BY LenProperties
<1>2. CASE x \notin Range(s)
  <2>1. RemoveFirst(s, x) = s
    BY <1>1, <1>2 DEF RemoveFirst, Range
  <2>. QED  BY <2>1, <1>2
<1>3. CASE x \in Range(s)
  <2>1. PICK i \in 1 .. Len(s) : s[i] = x
    BY <1>1, <1>3 DEF Range
  <2>2. {j \in 1 .. Len(s) : s[j] = x} = {i}
    BY <2>1, <1>1 DEF IsInjective
  <2>3. Min({i}) = i
    BY <1>1 DEF Min
  <2>5. RemoveFirst(s, x) = RemoveAt(s, i)
    BY <2>1, <2>2, <2>3 DEF RemoveFirst, SelectInSeq
  <2>. DEFINE r == RemoveAt(s, i)
  <2>6. /\ r \in Seq(S) /\ Len(r) = Len(s) - 1
        /\ \A j \in 1 .. Len(s) - 1 : r[j] = IF j < i THEN s[j] ELSE s[j + 1]
    BY RemoveAtFacts
  <2>7. DOMAIN r = 1 .. Len(s) - 1
    BY <2>6, LenProperties
  <2>. HIDE DEF r
  <2>8. IsInjective(r)
    <3>1. SUFFICES ASSUME NEW j \in 1 .. Len(s) - 1, NEW k \in 1 .. Len(s) - 1, r[j] = r[k]
                   PROVE  j = k
      BY <2>7 DEF IsInjective
    <3>. DEFINE At(m) == IF m < i THEN m ELSE m + 1
    <3>2. At(j) \in DOMAIN s /\ At(k) \in DOMAIN s /\ s[At(j)] = s[At(k)]
      BY <3>1, <2>6, <1>1
    <3>3. At(j) = At(k)
      BY <3>2 DEF IsInjective
    <3>. QED  BY <3>3, <1>1
  <2>9. Range(r) = Range(s) \ {x}
    <3>1. ASSUME NEW y \in Range(r)  PROVE y \in Range(s) \ {x}
      <4>1. PICK j \in 1 .. Len(s) - 1 : r[j] = y
        BY <2>7 DEF Range
      <4>. DEFINE m == IF j < i THEN j ELSE j + 1
      <4>2. m \in DOMAIN s /\ m # i /\ s[m] = y
        BY <4>1, <2>6, <1>1
      <4>. QED  BY <4>2, <2>1, <1>1 DEF Range, IsInjective
    <3>2. ASSUME NEW y \in Range(s) \ {x}  PROVE y \in Range(r)
      <4>1. PICK m \in 1 .. Len(s) : s[m] = y
        BY <1>1 DEF Range
      <4>2. m # i
        BY <4>1, <2>1
      <4>3. CASE m < i
        BY <4>1, <4>3, <2>6, <2>7, <1>1 DEF Range
      <4>4. CASE m > i
        <5>1. m - 1 \in 1 .. Len(s) - 1 /\ ~(m - 1 < i)
          BY <4>4, <1>1
        <5>2. r[m - 1] = s[(m - 1) + 1]
          BY <5>1, <2>6
        <5>3. r[m - 1] = y
          BY <5>2, <4>1
        <5>. QED  BY <5>1, <5>3, <2>7 DEF Range
      <4>. QED  BY <4>2, <4>3, <4>4, <1>1
    <3>. QED  BY <3>1, <3>2
  <2>. QED  BY <2>5, <2>6, <2>8, <2>9 DEF r
<1>. QED  BY <1>2, <1>3

\* list_add puts its node in front of the others.
LEMMA PrependFacts ==
  ASSUME NEW S, NEW s \in Seq(S), NEW x \in S
  PROVE  /\ <<x>> \o s \in Seq(S) /\ Len(<<x>> \o s) = Len(s) + 1
         /\ Range(<<x>> \o s) = Range(s) \cup {x}
         /\ IsInjective(s) /\ x \notin Range(s) => IsInjective(<<x>> \o s)
<1>. DEFINE a == <<x>> \o s
<1>1. <<x>> \in Seq(S) /\ Len(<<x>>) = 1 /\ <<x>>[1] = x
  OBVIOUS
<1>2. /\ a \in Seq(S) /\ Len(a) = Len(s) + 1
      /\ \A i \in 1 .. 1 + Len(s) : a[i] = IF i <= 1 THEN <<x>>[i] ELSE s[i - 1]
  BY <1>1, ConcatProperties
<1>3. Len(s) \in Nat /\ DOMAIN s = 1 .. Len(s) /\ DOMAIN a = 1 .. Len(s) + 1
  BY <1>2, LenProperties
<1>4. a[1] = x /\ \A i \in 1 .. Len(s) : a[i + 1] = s[i]
  <2>1. \A i \in 1 .. Len(s) : i + 1 \in 1 .. 1 + Len(s) /\ ~(i + 1 <= 1) /\ (i + 1) - 1 = i
    BY <1>3
  <2>. QED  BY <1>1, <1>2, <1>3, <2>1
<1>. HIDE DEF a
<1>5. \A i \in DOMAIN a : i = 1 \/ (i - 1 \in 1 .. Len(s) /\ a[i] = s[i - 1])
  <2>1. \A i \in DOMAIN a : i # 1 => i - 1 \in 1 .. Len(s) /\ (i - 1) + 1 = i
    BY <1>3
  <2>. QED  BY <1>4, <2>1
<1>6. Range(a) = Range(s) \cup {x}
  <2>1. ASSUME NEW i \in DOMAIN a  PROVE a[i] \in Range(s) \cup {x}
    BY <1>3, <1>4, <1>5 DEF Range
  <2>2. ASSUME NEW i \in DOMAIN s  PROVE s[i] \in Range(a)
    <3>1. i + 1 \in DOMAIN a /\ a[i + 1] = s[i]
      BY <1>3, <1>4
    <3>. QED  BY <3>1 DEF Range
  <2>3. x \in Range(a)
    BY <1>3, <1>4 DEF Range
  <2>. QED  BY <2>1, <2>2, <2>3 DEF Range
<1>7. ASSUME IsInjective(s), x \notin Range(s)  PROVE IsInjective(a)
  <2>1. SUFFICES ASSUME NEW i \in DOMAIN a, NEW j \in DOMAIN a, a[i] = a[j]  PROVE i = j
    BY DEF IsInjective
  <2>2. \A k \in 1 .. Len(s) : s[k] # x
    BY <1>3, <1>7 DEF Range
  <2>3. CASE i = 1 \/ j = 1
    BY <1>4, <1>5, <2>1, <2>2, <2>3
  <2>4. CASE i # 1 /\ j # 1
    <3>1. i - 1 \in DOMAIN s /\ j - 1 \in DOMAIN s /\ s[i - 1] = s[j - 1]
      BY <1>3, <1>5, <2>1, <2>4
    <3>2. i - 1 = j - 1
      BY <1>7, <3>1 DEF IsInjective
    <3>. QED  BY <1>3, <3>2
  <2>. QED  BY <2>3, <2>4
<1>. QED  BY <1>2, <1>6, <1>7 DEF a

\* Taking off the head leaves the others.
LEMMA TailFacts ==
  ASSUME NEW S, NEW s \in Seq(S), s # <<>>, IsInjective(s)
  PROVE  /\ Head(s) \in Range(s) /\ Head(s) \in S
         /\ Tail(s) \in Seq(S) /\ Len(Tail(s)) = Len(s) - 1
         /\ Range(Tail(s)) = Range(s) \ {Head(s)}
         /\ IsInjective(Tail(s))
<1>. DEFINE t == Tail(s)
<1>1. Len(s) \in Nat /\ DOMAIN s = 1 .. Len(s) /\ Len(s) # 0 /\ Head(s) = s[1]
  BY LenProperties, EmptySeq
<1>2. /\ t \in Seq(S) /\ Len(t) = Len(s) - 1 /\ Head(s) \in S
      /\ \A i \in 1 .. Len(t) : t[i] = s[i + 1]
  BY HeadTailProperties
<1>3. DOMAIN t = 1 .. Len(s) - 1
  BY <1>2, LenProperties
<1>. HIDE DEF t
<1>4. Head(s) \in Range(s)
  BY <1>1 DEF Range
<1>5. \A i \in DOMAIN t : i + 1 \in DOMAIN s /\ i + 1 # 1 /\ t[i] = s[i + 1]
  BY <1>1, <1>2, <1>3
<1>6. IsInjective(t)
  <2>1. SUFFICES ASSUME NEW i \in DOMAIN t, NEW j \in DOMAIN t, t[i] = t[j]  PROVE i = j
    BY DEF IsInjective
  <2>2. i + 1 = j + 1
    BY <1>5, <2>1 DEF IsInjective
  <2>. QED  BY <1>3, <2>2
<1>7. Range(t) = Range(s) \ {Head(s)}
  <2>1. ASSUME NEW i \in DOMAIN t  PROVE t[i] \in Range(s) \ {Head(s)}
    <3>1. 1 \in DOMAIN s /\ s[i + 1] # s[1]
      BY <1>1, <1>5 DEF IsInjective
    <3>. QED  BY <1>1, <1>5, <3>1 DEF Range
  <2>2. ASSUME NEW i \in DOMAIN s, s[i] # Head(s)  PROVE s[i] \in Range(t)
    <3>1. i # 1
      BY <1>1, <2>2
    <3>2. i - 1 \in DOMAIN t /\ (i - 1) + 1 = i
      BY <1>1, <1>3, <3>1
    <3>3. t[i - 1] = s[i]
      BY <1>5, <3>2
    <3>. QED  BY <3>2, <3>3 DEF Range
  <2>. QED  BY <2>1, <2>2 DEF Range
<1>. QED  BY <1>2, <1>4, <1>6, <1>7 DEF t

\* Reading a sequence backwards leaves its elements and their number.
LEMMA ReverseFacts ==
  ASSUME NEW S, NEW s \in Seq(S)
  PROVE  /\ Reverse(s) \in Seq(S) /\ Len(Reverse(s)) = Len(s)
         /\ Range(Reverse(s)) = Range(s)
         /\ IsInjective(s) => IsInjective(Reverse(s))
<1>. DEFINE r == Reverse(s)
<1>1. Len(s) \in Nat /\ DOMAIN s = 1 .. Len(s) /\ \A i \in 1 .. Len(s) : s[i] \in S
  BY LenProperties, ElementOfSeq
<1>2. DOMAIN r = 1 .. Len(s) /\ \A i \in 1 .. Len(s) : r[i] = s[(Len(s) - i) + 1]
  BY DEF Reverse
<1>3. \A i \in 1 .. Len(s) : (Len(s) - i) + 1 \in 1 .. Len(s)
  BY <1>1
<1>4. r \in [1 .. Len(s) -> S]
  BY <1>1, <1>3 DEF Reverse
<1>5. r \in Seq(S) /\ Len(r) = Len(s)
  <2>1. r \in Seq(S)
    BY <1>1, <1>4, SeqDef
  <2>2. Len(r) \in Nat /\ DOMAIN r = 1 .. Len(r)
    BY <2>1, LenProperties
  <2>3. 1 .. Len(r) = 1 .. Len(s)
    BY <1>2, <2>2
  <2>. HIDE DEF r
  <2>4. ASSUME NEW m \in Nat, NEW n \in Nat, 1 .. m = 1 .. n  PROVE m = n
    <3>1. ~(m < n)
      <4>1. m < n => n \in 1 .. n /\ n \notin 1 .. m
        OBVIOUS
      <4>. QED  BY <2>4, <4>1
    <3>2. ~(n < m)
      <4>1. n < m => m \in 1 .. m /\ m \notin 1 .. n
        OBVIOUS
      <4>. QED  BY <2>4, <4>1
    <3>. QED  BY <3>1, <3>2
  <2>5. Len(r) = Len(s)
    BY <1>1, <2>2, <2>3, <2>4
  <2>. QED  BY <2>1, <2>5
<1>. HIDE DEF r
<1>6. Range(r) = Range(s)
  <2>1. ASSUME NEW i \in DOMAIN r  PROVE r[i] \in Range(s)
    BY <1>1, <1>2, <1>3 DEF Range
  <2>2. ASSUME NEW i \in DOMAIN s  PROVE s[i] \in Range(r)
    <3>. DEFINE j == (Len(s) - i) + 1
    <3>1. j \in DOMAIN r /\ (Len(s) - j) + 1 = i
      BY <1>1, <1>2, <1>3
    <3>. HIDE DEF j
    <3>2. r[j] = s[i]
      BY <1>2, <3>1
    <3>. QED  BY <3>1, <3>2 DEF Range
  <2>. QED  BY <2>1, <2>2 DEF Range
<1>7. ASSUME IsInjective(s)  PROVE IsInjective(r)
  <2>1. SUFFICES ASSUME NEW i \in 1 .. Len(s), NEW j \in 1 .. Len(s), r[i] = r[j]  PROVE i = j
    BY <1>2 DEF IsInjective
  <2>2. (Len(s) - i) + 1 = (Len(s) - j) + 1
    BY <1>1, <1>2, <1>3, <1>7, <2>1 DEF IsInjective
  <2>. QED  BY <1>1, <2>2
<1>. QED  BY <1>5, <1>6, <1>7 DEF r

\* The value that step gives at n follows from the values at places of a lower rank.
Descends(S, V, K, rank, step) ==
    /\ K \in Nat /\ rank \in [S -> 0 .. K] /\ step \in [S -> [[S -> V] -> V]] /\ V # {}
    /\ \A n \in S : \A f, g \in [S -> V] :
          (\A i \in S : rank[i] < rank[n] => f[i] = g[i]) => step[n][f] = step[n][g]

\* So there is a function that is step everywhere.
LEMMA RecursionExists ==
  ASSUME NEW S, NEW V, NEW K, NEW rank, NEW step, Descends(S, V, K, rank, step)
  PROVE  \E f \in [S -> V] : \A n \in S : f[n] = step[n][f]
<1>1. PICK v : v \in V
  BY DEF Descends
<1>2. /\ K \in Nat /\ rank \in [S -> 0 .. K] /\ step \in [S -> [[S -> V] -> V]]
      /\ \A n \in S : \A f, g \in [S -> V] :
            (\A i \in S : rank[i] < rank[n] => f[i] = g[i]) => step[n][f] = step[n][g]
  BY DEF Descends
<1>3. \A n \in S : rank[n] \in 0 .. K
  BY <1>2
<1>. DEFINE Upto(f, k) == f \in [S -> V] /\ \A n \in S : rank[n] < k => f[n] = step[n][f]
            B == {k \in Nat : ~(\E f : Upto(f, k))}
<1>4. B = {}
  <2>1. SUFFICES ASSUME B # {}  PROVE FALSE
    OBVIOUS
  <2>2. PICK m \in B : \A k \in B : m <= k
    <3>1. B \in SUBSET Nat
      OBVIOUS
    <3>. HIDE DEF B
    <3>. QED  BY <2>1, <3>1, LeastExists
  <2>3. m # 0
    <3>. DEFINE f == [n \in S |-> v]
    <3>1. Upto(f, 0)
      BY <1>1, <1>3
    <3>. HIDE DEF f, Upto
    <3>. QED  BY <2>2, <3>1
  <2>4. m - 1 \in Nat /\ m - 1 \notin B
    <3>1. m - 1 \in Nat /\ ~(m <= m - 1)
      BY <2>3
    <3>. HIDE DEF B
    <3>. QED  BY <2>2, <3>1
  <2>. DEFINE k == m - 1
  <2>5. PICK f : Upto(f, k)
    <3>. HIDE DEF Upto
    <3>. QED  BY <2>4
  <2>6. k \in Nat /\ m = k + 1
    BY <2>4
  <2>. HIDE DEF k
  <2>. DEFINE g == [n \in S |-> IF rank[n] = k THEN step[n][f] ELSE f[n]]
  <2>7. f \in [S -> V] /\ g \in [S -> V]
    BY <1>2, <2>5
  <2>8. ASSUME NEW n \in S, rank[n] < k + 1  PROVE g[n] = step[n][g]
    <3>1. \A i \in S : rank[i] < rank[n] => f[i] = g[i]
      <4>1. \A i \in S : rank[i] \in Int /\ rank[n] \in Int
        BY <1>3
      <4>. QED  BY <2>6, <2>8, <4>1
    <3>2. step[n][f] = step[n][g]
      <4>. HIDE DEF g
      <4>. QED  BY <1>2, <2>7, <3>1
    <3>3. rank[n] = k => g[n] = step[n][f]
      OBVIOUS
    <3>4. rank[n] # k => g[n] = f[n] /\ f[n] = step[n][f]
      <4>1. rank[n] \in Int
        BY <1>3
      <4>2. \A x, y \in Int : x < y + 1 /\ x # y => x < y
        OBVIOUS
      <4>3. rank[n] # k => rank[n] < k
        <5>1. k \in Int
          BY <2>6
        <5>. HIDE DEF Upto, g
        <5>. QED  BY <2>8, <4>1, <4>2, <5>1
      <4>. QED  BY <2>5, <4>3
    <3>. HIDE DEF g
    <3>. QED  BY <3>2, <3>3, <3>4
  <2>9. Upto(g, m)
    <3>. HIDE DEF g
    <3>. QED  BY <2>6, <2>7, <2>8
  <2>. HIDE DEF Upto, g
  <2>. QED  BY <2>2, <2>9
<1>5. PICK f : Upto(f, K + 1)
  <2>1. K + 1 \in Nat
    BY <1>2
  <2>. HIDE DEF Upto
  <2>. QED  BY <1>4, <2>1
<1>6. \A n \in S : rank[n] < K + 1
  BY <1>2, <1>3
<1>. QED  BY <1>5, <1>6

\* What the first step of a loop has, and each step has if the one before has it, all have.
LEMMA CountUp ==
  ASSUME NEW K \in Nat, NEW G, \A i \in 0 .. K : (i # 0 => i - 1 \in G) => i \in G
  PROVE  \A i \in 0 .. K : i \in G
<1>. DEFINE B == {i \in 0 .. K : i \notin G}
<1>1. SUFFICES ASSUME B # {}  PROVE FALSE
  OBVIOUS
<1>2. PICK i \in B : \A j \in B : i <= j
  <2>1. B \in SUBSET Nat
    OBVIOUS
  <2>. HIDE DEF B
  <2>. QED  BY <1>1, <2>1, LeastExists
<1>3. i \in 0 .. K /\ i \notin G
  OBVIOUS
<1>4. i # 0 => i - 1 \in 0 .. K /\ i - 1 \notin B
  <2>1. i # 0 => i - 1 \in 0 .. K /\ ~(i <= i - 1)
    BY <1>3
  <2>. HIDE DEF B
  <2>. QED  BY <1>2, <2>1
<1>. QED  BY <1>3, <1>4

\* Dividing and what is left.
LEMMA DivisionFacts ==
  ASSUME NEW p \in Nat, NEW b \in Nat, b >= 1
  PROVE  /\ p \div b \in Nat /\ p % b \in 0 .. b - 1 /\ p = b * (p \div b) + (p % b)
         /\ \A q \in Nat : \A r \in 0 .. b - 1 : p = b * q + r => p \div b = q /\ p % b = r
<1>1. p \div b \in Nat /\ p % b \in 0 .. b - 1 /\ p = b * (p \div b) + (p % b)
  <2>1. p % b \in 0 .. b - 1
    OBVIOUS
  <2>2. p \div b \in Nat
    OBVIOUS
  <2>3. p = b * (p \div b) + (p % b)
    OBVIOUS
  <2>. QED  BY <2>1, <2>2, <2>3
<1>2. ASSUME NEW q \in Nat, NEW r \in 0 .. b - 1, p = b * q + r
      PROVE  p \div b = q /\ p % b = r
  <2>. DEFINE d == p \div b
              m == p % b
  <2>1. d \in Nat /\ m \in 0 .. b - 1 /\ b * d + m = b * q + r
    BY <1>1, <1>2
  <2>. HIDE DEF d, m
  <2>2. ASSUME NEW x \in Nat, NEW y \in Nat, x < y  PROVE b * x + b <= b * y
    <3>1. PICK z \in Nat : y = x + 1 + z
      <4>1. y - x - 1 \in Nat /\ y = x + 1 + (y - x - 1)
        BY <2>2
      <4>. QED  BY <4>1
    <3>2. b * y = b * x + b + b * z /\ b * z >= 0
      BY <3>1
    <3>. QED  BY <3>2
  <2>3. b * d \in Nat /\ b * q \in Nat
    BY <2>1
  <2>4. ~(d < q)
    <3>1. d < q => b * d + b <= b * q
      BY <2>1, <2>2
    <3>. HIDE <2>2
    <3>. QED  BY <2>1, <2>3, <3>1
  <2>5. ~(q < d)
    <3>1. q < d => b * q + b <= b * d
      BY <2>1, <2>2
    <3>. QED  BY <2>1, <2>3, <3>1
  <2>6. d = q
    BY <2>1, <2>4, <2>5
  <2>7. m = r
    BY <2>1, <2>3, <2>6
  <2>. QED  BY <2>6, <2>7 DEF d, m
<1>. QED  BY <1>1, <1>2
=============================================================================
