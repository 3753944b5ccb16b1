---------------------------- MODULE Files_proofs ----------------------------
(***************************************************************************)
(* Proofs about Fat, for every size of the volume and of the directory, every *)
(* set of names and texts and any number of restarts: whenever the power goes,  *)
(* the card holds a volume whose files have their clusters for themselves.    *)
(* Then about Files: the editor and ext2, for every length of the buffer,     *)
(* size of the screen, set of names and size of a block, that what is proved   *)
(* of Fat holds for the shell that uses all three, and what reads give.       *)
(***************************************************************************)
EXTENDS Files, SeqLemmas, FiniteSetTheorems, WellFoundedInduction

-----------------------------------------------------------------------------
(* Transfers to the card *)

Fields == {"fat", "next_free", "dir", "data"}
Table == [Cluster -> {Free, End} \cup Cluster]
Card == [fat : Table, next_free : 1 .. TotalClusters, dir : [Slot -> Entry], data : [Cluster -> Data]]
Transfers == Fields \X (Table \cup (1 .. TotalClusters) \cup [Slot -> Entry] \cup [Cluster -> Data])

\* A card after a transfer.
Put(c, t) == [c EXCEPT ![t[1]] = t[2]]

\* The transfers L lead from card c to card e, through cards of the set G only; no
\* first cluster is forgotten on the way if they are of a command that keeps them.
Path(r, c, L, e, G, keeps) ==
    /\ r \in Seq(G) /\ Len(r) = Len(L) + 1 /\ r[1] = c /\ r[Len(L) + 1] = e
    /\ \A i \in 1 .. Len(L) :
          /\ r[i + 1] = Put(r[i], L[i])
          /\ keeps => Named(r[i]) \subseteq Named(r[i + 1])
Leads(c, L, e, G, keeps) == L \in Seq(Transfers) /\ \E r : Path(r, c, L, e, G, keeps)

\* What a transfer changes.
LEMMA PutFacts ==
  ASSUME NEW c \in Card
  PROVE  /\ DOMAIN c = Fields
         /\ \A f \in Table : /\ <<"fat", f>> \in Transfers
                             /\ Put(c, <<"fat", f>>) \in Card
                             /\ Put(c, <<"fat", f>>) = [c EXCEPT !.fat = f]
         /\ \A h \in 1 .. TotalClusters : /\ <<"next_free", h>> \in Transfers
                                          /\ Put(c, <<"next_free", h>>) \in Card
                                          /\ Put(c, <<"next_free", h>>) = [c EXCEPT !.next_free = h]
         /\ \A d \in [Slot -> Entry] : /\ <<"dir", d>> \in Transfers
                                       /\ Put(c, <<"dir", d>>) \in Card
                                       /\ Put(c, <<"dir", d>>) = [c EXCEPT !.dir = d]
         /\ \A m \in [Cluster -> Data] : /\ <<"data", m>> \in Transfers
                                         /\ Put(c, <<"data", m>>) \in Card
                                         /\ Put(c, <<"data", m>>) = [c EXCEPT !.data = m]
         /\ \A t \in Transfers : c[t[1]] = t[2] => Put(c, t) = c
<1>1. DOMAIN c = Fields
  BY DEF Card, Fields
<1>2. ASSUME NEW f \in Table
      PROVE  /\ <<"fat", f>> \in Transfers
             /\ Put(c, <<"fat", f>>) \in Card
             /\ Put(c, <<"fat", f>>) = [c EXCEPT !.fat = f]
  BY DEF Card, Put, Transfers, Fields
<1>3. ASSUME NEW h \in 1 .. TotalClusters
      PROVE  /\ <<"next_free", h>> \in Transfers
             /\ Put(c, <<"next_free", h>>) \in Card
             /\ Put(c, <<"next_free", h>>) = [c EXCEPT !.next_free = h]
  BY DEF Card, Put, Transfers, Fields
<1>4. ASSUME NEW d \in [Slot -> Entry]
      PROVE  /\ <<"dir", d>> \in Transfers
             /\ Put(c, <<"dir", d>>) \in Card
             /\ Put(c, <<"dir", d>>) = [c EXCEPT !.dir = d]
  BY DEF Card, Put, Transfers, Fields
<1>5. ASSUME NEW m \in [Cluster -> Data]
      PROVE  /\ <<"data", m>> \in Transfers
             /\ Put(c, <<"data", m>>) \in Card
             /\ Put(c, <<"data", m>>) = [c EXCEPT !.data = m]
  BY DEF Card, Put, Transfers, Fields
<1>6. ASSUME NEW t \in Transfers, c[t[1]] = t[2]  PROVE Put(c, t) = c
  <2>1. t[1] \in Fields
    BY DEF Transfers
  <2>. HIDE DEF Fields, Card, Transfers
  <2>. QED  BY <1>1, <1>6, <2>1 DEF Put, Card
<1>. QED  BY <1>1, <1>2, <1>3, <1>4, <1>5, <1>6

\* A list without transfers.
LEMMA LeadsNowhere ==
  ASSUME NEW G, NEW keeps, NEW c
  PROVE  /\ c \in G => Leads(c, <<>>, c, G, keeps)
         /\ \A e : Leads(c, <<>>, e, G, keeps) => e = c
<1>1. <<>> \in Seq(Transfers) /\ Len(<<>>) = 0
  OBVIOUS
<1>2. ASSUME c \in G  PROVE Leads(c, <<>>, c, G, keeps)
  <2>1. <<c>> \in Seq(G) /\ Len(<<c>>) = 1 /\ <<c>>[1] = c
    BY <1>2
  <2>2. Path(<<c>>, c, <<>>, c, G, keeps)
    BY <1>1, <2>1 DEF Path
  <2>. QED  BY <1>1, <2>2 DEF Leads
<1>3. ASSUME NEW e, Leads(c, <<>>, e, G, keeps)  PROVE e = c
  <2>1. PICK r : Path(r, c, <<>>, e, G, keeps)
    BY <1>3 DEF Leads
  <2>. QED  BY <1>1, <2>1 DEF Path
<1>. QED  BY <1>2, <1>3

\* One transfer.
LEMMA LeadsOnce ==
  ASSUME NEW G, NEW keeps, NEW c \in G, NEW t \in Transfers, Put(c, t) \in G,
         keeps => Named(c) \subseteq Named(Put(c, t))
  PROVE  Leads(c, <<t>>, Put(c, t), G, keeps)
<1>. DEFINE r == <<c, Put(c, t)>>
            e == Put(c, t)
<1>1. r \in Seq(G) /\ Len(r) = 2 /\ r[1] = c /\ r[2] = e
  OBVIOUS
<1>2. <<t>> \in Seq(Transfers) /\ Len(<<t>>) = 1 /\ <<t>>[1] = t
  OBVIOUS
<1>3. e = Put(c, t) /\ (keeps => Named(c) \subseteq Named(e))
  OBVIOUS
<1>. HIDE DEF r, e
<1>4. ASSUME NEW i \in 1 .. Len(<<t>>)
      PROVE  r[i + 1] = Put(r[i], <<t>>[i]) /\ (keeps => Named(r[i]) \subseteq Named(r[i + 1]))
  <2>1. i = 1
    BY <1>2
  <2>. QED  BY <1>1, <1>2, <1>3, <2>1
<1>5. Path(r, c, <<t>>, e, G, keeps)
  BY <1>1, <1>2, <1>4 DEF Path
<1>. QED  BY <1>2, <1>5 DEF Leads, e

\* One list of transfers after another.
LEMMA LeadsOn ==
  ASSUME NEW G, NEW keeps, NEW c, NEW d, NEW e, NEW L, NEW M,
         Leads(c, L, d, G, keeps), Leads(d, M, e, G, keeps)
  PROVE  Leads(c, L \o M, e, G, keeps)
<1>1. PICK r : Path(r, c, L, d, G, keeps)
  BY DEF Leads
<1>2. PICK q : Path(q, d, M, e, G, keeps)
  BY DEF Leads
<1>. DEFINE m == Len(L)
            n == Len(M)
            LM == L \o M
            rq == [i \in 1 .. m + n + 1 |-> IF i <= m + 1 THEN r[i] ELSE q[i - m]]
<1>3. L \in Seq(Transfers) /\ M \in Seq(Transfers) /\ m \in Nat /\ n \in Nat
  BY DEF Leads
<1>4. /\ LM \in Seq(Transfers) /\ Len(LM) = m + n
      /\ \A i \in 1 .. m : LM[i] = L[i]
      /\ \A i \in m + 1 .. m + n : LM[i] = M[i - m]
  BY <1>3, ConcatProperties
<1>5. /\ r \in Seq(G) /\ Len(r) = m + 1 /\ r[1] = c /\ r[m + 1] = d
      /\ \A i \in 1 .. m : /\ r[i + 1] = Put(r[i], L[i])
                           /\ keeps => Named(r[i]) \subseteq Named(r[i + 1])
  BY <1>1 DEF Path
<1>6. /\ q \in Seq(G) /\ Len(q) = n + 1 /\ q[1] = d /\ q[n + 1] = e
      /\ \A i \in 1 .. n : /\ q[i + 1] = Put(q[i], M[i])
                           /\ keeps => Named(q[i]) \subseteq Named(q[i + 1])
  BY <1>2 DEF Path
<1>. HIDE DEF m, n, LM
<1>7. /\ \A i \in 1 .. m + 1 : rq[i] = r[i]
      /\ \A i \in 1 .. n + 1 : rq[i + m] = q[i]
  <2>1. ASSUME NEW i \in 1 .. n + 1  PROVE rq[i + m] = q[i]
    <3>1. i + m \in 1 .. m + n + 1 /\ (i + m) - m = i
      BY <1>3
    <3>2. CASE i = 1
      BY <1>3, <1>5, <1>6, <3>1, <3>2
    <3>3. CASE i # 1
      <4>1. ~(i + m <= m + 1)
        BY <1>3, <3>3
      <4>. QED  BY <3>1, <4>1
    <3>. QED  BY <3>2, <3>3
  <2>2. ASSUME NEW i \in 1 .. m + 1  PROVE rq[i] = r[i]
    BY <1>3
  <2>. QED  BY <2>1, <2>2
<1>8. rq \in Seq(G) /\ Len(rq) = m + n + 1
  <2>1. \A i \in 1 .. m + 1 : r[i] \in G
    BY <1>5, ElementOfSeq
  <2>2. \A i \in 1 .. n + 1 : q[i] \in G
    BY <1>6, ElementOfSeq
  <2>3. ASSUME NEW i \in 1 .. m + n + 1  PROVE rq[i] \in G
    <3>1. CASE i <= m + 1
      BY <1>3, <2>1, <3>1
    <3>2. CASE ~(i <= m + 1)
      <4>1. i - m \in 1 .. n + 1
        BY <1>3, <3>2
      <4>. QED  BY <2>2, <3>2, <4>1
    <3>. QED  BY <3>1, <3>2
  <2>4. rq \in [1 .. m + n + 1 -> G] /\ m + n + 1 \in Nat
    BY <1>3, <2>3
  <2>. HIDE DEF rq
  <2>5. rq \in Seq(G)
    BY <2>4
  <2>. QED  BY <2>4, <2>5, LenProperties
<1>. HIDE DEF rq
<1>9. rq[1] = c /\ rq[m + n + 1] = e
  <2>1. 1 \in 1 .. m + 1 /\ n + 1 \in 1 .. n + 1 /\ (n + 1) + m = m + n + 1
    BY <1>3
  <2>. QED  BY <1>5, <1>6, <1>7, <2>1
<1>10. ASSUME NEW i \in 1 .. m + n
       PROVE  rq[i + 1] = Put(rq[i], LM[i]) /\ (keeps => Named(rq[i]) \subseteq Named(rq[i + 1]))
  <2>1. CASE i <= m
    <3>1. i \in 1 .. m /\ i \in 1 .. m + 1 /\ i + 1 \in 1 .. m + 1
      BY <1>3, <2>1
    <3>. QED  BY <1>4, <1>5, <1>7, <3>1
  <2>2. CASE ~(i <= m)
    <3>. DEFINE j == i - m
    <3>1. j \in 1 .. n /\ j \in 1 .. n + 1 /\ j + 1 \in 1 .. n + 1 /\ i = j + m
          /\ i + 1 = (j + 1) + m /\ i \in m + 1 .. m + n
      BY <1>3, <2>2
    <3>2. LM[i] = M[j]
      BY <1>4, <3>1
    <3>3. rq[i] = q[j] /\ rq[i + 1] = q[j + 1]
      BY <1>7, <3>1
    <3>. HIDE DEF j
    <3>. QED  BY <1>6, <3>1, <3>2, <3>3
  <2>. QED  BY <2>1, <2>2
<1>11. Path(rq, c, LM, e, G, keeps)
  BY <1>4, <1>8, <1>9, <1>10 DEF Path
<1>. QED  BY <1>4, <1>11 DEF Leads, LM

\* What is left of a path after its first m - 1 transfers.
LEMMA LeadsRest ==
  ASSUME NEW G, NEW keeps, NEW c, NEW e, NEW L \in Seq(Transfers), NEW r, Path(r, c, L, e, G, keeps),
         NEW m \in 1 .. Len(L)
  PROVE  Leads(r[m], SubSeq(L, m, Len(L)), e, G, keeps)
<1>. DEFINE n == Len(L)
            M == SubSeq(L, m, n)
            q == SubSeq(r, m, n + 1)
            k == n - m + 1
<1>1. n \in Nat /\ m \in 1 .. n /\ k \in Nat /\ k >= 1 /\ \A i \in 1 .. n : L[i] \in Transfers
  BY LenProperties, ElementOfSeq
<1>2. /\ r \in Seq(G) /\ Len(r) = n + 1 /\ r[1] = c /\ r[n + 1] = e
      /\ \A i \in 1 .. n : /\ r[i + 1] = Put(r[i], L[i])
                           /\ keeps => Named(r[i]) \subseteq Named(r[i + 1])
  BY DEF Path
<1>3. \A i \in 1 .. n + 1 : r[i] \in G
  BY <1>2, ElementOfSeq
<1>4. /\ M \in Seq(Transfers) /\ Len(M) = k
      /\ \A i \in 1 .. k : M[i] = L[m + i - 1]
  <2>1. \A i \in m .. n : L[i] \in Transfers
    BY <1>1
  <2>2. n - m + 1 = k /\ (m <= n + 1) /\ n \in Int /\ m \in Int
    BY <1>1
  <2>. QED  BY <1>1, <2>1, <2>2, SubSeqProperties
<1>5. /\ q \in Seq(G) /\ Len(q) = k + 1
      /\ \A i \in 1 .. k + 1 : q[i] = r[m + i - 1]
  <2>1. \A i \in m .. n + 1 : r[i] \in G
    BY <1>1, <1>3
  <2>2. (n + 1) - m + 1 = k + 1 /\ m <= (n + 1) + 1 /\ n + 1 \in Int /\ m \in Int
    BY <1>1
  <2>. QED  BY <1>1, <1>2, <2>1, <2>2, SubSeqProperties
<1>. HIDE DEF n, M, q, k
<1>6. q[1] = r[m] /\ q[k + 1] = e
  <2>1. 1 \in 1 .. k + 1 /\ k + 1 \in 1 .. k + 1 /\ m + 1 - 1 = m /\ m + (k + 1) - 1 = n + 1
    BY <1>1 DEF k
  <2>. QED  BY <1>2, <1>5, <2>1
<1>7. ASSUME NEW i \in 1 .. k
      PROVE  q[i + 1] = Put(q[i], M[i]) /\ (keeps => Named(q[i]) \subseteq Named(q[i + 1]))
  <2>. DEFINE j == m + i - 1
  <2>1. /\ i \in 1 .. k + 1 /\ i + 1 \in 1 .. k + 1 /\ j \in 1 .. n
        /\ m + (i + 1) - 1 = j + 1
    BY <1>1 DEF k
  <2>2. q[i] = r[j] /\ M[i] = L[j]
    BY <1>4, <1>5, <2>1
  <2>3. q[i + 1] = r[j + 1]
    BY <1>5, <2>1
  <2>. HIDE DEF j
  <2>. QED  BY <1>2, <2>1, <2>2, <2>3
<1>8. Path(q, r[m], M, e, G, keeps)
  BY <1>4, <1>5, <1>6, <1>7 DEF Path
<1>. QED  BY <1>4, <1>8 DEF Leads, M, n

\* The first transfer of a list.
LEMMA LeadsTail ==
  ASSUME NEW G, NEW keeps, NEW c, NEW e, NEW L, L # <<>>, Leads(c, L, e, G, keeps)
  PROVE  /\ Leads(Put(c, Head(L)), Tail(L), e, G, keeps)
         /\ c \in G /\ Put(c, Head(L)) \in G /\ Head(L) \in Transfers
         /\ keeps => Named(c) \subseteq Named(Put(c, Head(L)))
<1>1. PICK r : Path(r, c, L, e, G, keeps)
  BY DEF Leads
<1>. DEFINE n == Len(L)
<1>2. L \in Seq(Transfers) /\ n \in Nat /\ n >= 1 /\ Head(L) = L[1] /\ L[1] \in Transfers
  <2>1. L \in Seq(Transfers)
    BY DEF Leads
  <2>2. n \in Nat /\ n # 0
    BY <2>1, LenProperties, EmptySeq
  <2>. QED  BY <2>1, <2>2, ElementOfSeq
<1>3. /\ r \in Seq(G) /\ Len(r) = n + 1 /\ r[1] = c /\ r[n + 1] = e
      /\ r[2] = Put(c, L[1]) /\ (keeps => Named(c) \subseteq Named(r[2]))
  <2>1. 1 \in 1 .. n /\ 1 + 1 = 2
    BY <1>2
  <2>. QED  BY <1>1, <2>1 DEF Path
<1>4. r[1] \in G /\ r[2] \in G
  <2>1. 1 \in 1 .. n + 1 /\ 2 \in 1 .. n + 1
    BY <1>2
  <2>. QED  BY <1>3, <2>1, ElementOfSeq
<1>5. Leads(r[2], Tail(L), e, G, keeps)
  <2>1. CASE n = 1
    <3>1. Tail(L) = <<>>
      <4>1. Tail(L) \in Seq(Transfers) /\ Len(Tail(L)) = 0
        BY <1>2, <2>1, HeadTailProperties
      <4>. QED  BY <4>1, EmptySeq
    <3>2. e = r[2]
      BY <1>3, <2>1
    <3>. QED  BY <1>4, <3>1, <3>2, LeadsNowhere
  <2>2. CASE n # 1
    <3>1. 2 \in 1 .. n
      <4>1. \A k \in Nat : k >= 1 /\ k # 1 => 2 \in 1 .. k
        OBVIOUS
      <4>. QED  BY <1>2, <2>2, <4>1
    <3>2. Leads(r[2], SubSeq(L, 2, n), e, G, keeps)
      <4>1. \A m \in 1 .. n : Leads(r[m], SubSeq(L, m, n), e, G, keeps)
        BY <1>1, <1>2, LeadsRest
      <4>. QED  BY <3>1, <4>1
    <3>3. Tail(L) = SubSeq(L, 2, n)
      BY <1>2, TailIsSubSeq
    <3>. QED  BY <3>2, <3>3
  <2>. QED  BY <2>1, <2>2
<1>. QED  BY <1>2, <1>3, <1>4, <1>5

\* A path begins and ends in G.
LEMMA LeadsEnds ==
  ASSUME NEW G, NEW keeps, NEW c, NEW e, NEW L, Leads(c, L, e, G, keeps)
  PROVE  c \in G /\ e \in G
<1>1. PICK r : Path(r, c, L, e, G, keeps)
  BY DEF Leads
<1>2. Len(L) \in Nat
  BY LenProperties DEF Leads
<1>3. 1 \in 1 .. Len(L) + 1 /\ Len(L) + 1 \in 1 .. Len(L) + 1
  BY <1>2
<1>. QED  BY <1>1, <1>3, ElementOfSeq DEF Path

\* The transfers that change nothing may be left out in front.
LEMMA LeadsDue ==
  ASSUME NEW G \in SUBSET Card, NEW keeps, NEW c, NEW e, NEW L, Leads(c, L, e, G, keeps)
  PROVE  Leads(c, Due(c, L), e, G, keeps)
<1>1. PICK r : Path(r, c, L, e, G, keeps)
  BY DEF Leads
<1>. DEFINE n == Len(L)
            change == {i \in DOMAIN L : c[L[i][1]] # L[i][2]}
            T == {j \in 1 .. n + 1 : r[j] # c /\ \A i \in 1 .. j - 1 : i \notin change}
<1>2. /\ L \in Seq(Transfers) /\ n \in Nat /\ DOMAIN L = 1 .. n
      /\ \A i \in 1 .. n : L[i] \in Transfers
  <2>1. L \in Seq(Transfers)
    BY DEF Leads
  <2>. QED  BY <2>1, LenProperties, ElementOfSeq
<1>3. /\ r[1] = c /\ r[n + 1] = e /\ c \in Card /\ c \in G
      /\ \A i \in 1 .. n : r[i + 1] = Put(r[i], L[i])
  BY <1>1, LeadsEnds DEF Path
<1>4. change = {i \in 1 .. n : c[L[i][1]] # L[i][2]} /\ change \in SUBSET Nat
  BY <1>2
<1>5. Due(c, L) = IF change = {} THEN <<>> ELSE SubSeq(L, Min(change), n)
  BY DEF Due
<1>. HIDE DEF n, change
<1>6. T = {}
  <2>1. SUFFICES ASSUME T # {}  PROVE FALSE
    OBVIOUS
  <2>2. PICK j \in T : \A k \in T : j <= k
    <3>1. T \in SUBSET Nat
      BY <1>2
    <3>. HIDE DEF T
    <3>. QED  BY <2>1, <3>1, LeastExists
  <2>3. j \in 1 .. n + 1 /\ j # 1 /\ j - 1 \in 1 .. n /\ j - 1 \in 1 .. n + 1 /\ j - 1 \notin T
        /\ (j - 1) + 1 = j /\ j - 1 \in 1 .. j - 1
    BY <1>2, <1>3, <2>2
  <2>4. r[j - 1] = c
    <3>1. \A i \in 1 .. (j - 1) - 1 : i \notin change
      BY <1>2, <2>2, <2>3
    <3>. QED  BY <2>3, <3>1
  <2>5. r[j] = Put(c, L[j - 1])
    BY <1>3, <2>3, <2>4
  <2>6. c[L[j - 1][1]] = L[j - 1][2]
    <3>1. j - 1 \notin change
      BY <2>2, <2>3
    <3>. QED  BY <1>4, <2>3, <3>1
  <2>7. Put(c, L[j - 1]) = c
    BY <1>2, <1>3, <2>3, <2>6, PutFacts
  <2>. QED  BY <2>2, <2>5, <2>7
<1>7. CASE change = {}
  <2>1. e = c
    <3>1. n + 1 \in 1 .. n + 1 /\ n + 1 \notin T
      BY <1>2, <1>6
    <3>. QED  BY <1>3, <1>7, <3>1
  <2>. QED  BY <1>3, <1>5, <1>7, <2>1, LeadsNowhere
<1>8. CASE change # {}
  <2>1. PICK m \in change : \A i \in change : m <= i
    BY <1>4, <1>8, LeastExists
  <2>2. Min(change) = m
    <3>1. Min(change) \in change /\ \A i \in change : Min(change) <= i
      BY <2>1 DEF Min
    <3>2. Min(change) <= m /\ m <= Min(change) /\ m \in Nat /\ Min(change) \in Nat
      BY <1>4, <2>1, <3>1
    <3>. QED  BY <3>2
  <2>3. m \in 1 .. n /\ m \in 1 .. n + 1 /\ m \notin T
    BY <1>2, <1>4, <1>6, <2>1
  <2>4. \A i \in 1 .. m - 1 : i \notin change
    BY <1>4, <2>1
  <2>5. r[m] = c
    BY <2>3, <2>4
  <2>6. Leads(r[m], SubSeq(L, m, n), e, G, keeps)
    BY <1>1, <1>2, <2>3, LeadsRest DEF n
  <2>. QED  BY <1>5, <1>8, <2>2, <2>5, <2>6
<1>. QED  BY <1>7, <1>8

-----------------------------------------------------------------------------
(* Chains of clusters *)

\* Numbers that are reached step by step.
LEMMA UpTo ==
  ASSUME NEW m \in Nat, NEW S, 0 \in S, \A k \in 0 .. m - 1 : k \in S => k + 1 \in S
  PROVE  \A k \in 0 .. m : k \in S
<1>. DEFINE T == {k \in 0 .. m : k \notin S}
<1>1. SUFFICES ASSUME T # {}  PROVE FALSE
  OBVIOUS
<1>2. PICK k \in T : \A j \in T : k <= j
  <2>1. T \in SUBSET Nat
    OBVIOUS
  <2>. HIDE DEF T
  <2>. QED  BY <1>1, <2>1, LeastExists
<1>3. k # 0 /\ k - 1 \in 0 .. m - 1 /\ k - 1 \in 0 .. m /\ (k - 1) + 1 = k /\ k - 1 \notin T
  BY <1>2
<1>. QED  BY <1>2, <1>3

\* A place in the volume, or where a walk ends.
Place == {Free, End} \cup Cluster
Next_in(f, x) == IF x \in Cluster THEN f[x] ELSE x

\* A cluster is neither the mark of a free one nor that of the end.
LEMMA PlaceFacts ==
  /\ TotalClusters \in Nat /\ TotalClusters >= 4
  /\ Cluster \subseteq Nat /\ Free \notin Cluster /\ End \notin Cluster /\ Free # End
  /\ Root \in Cluster /\ NoCluster \notin Cluster
BY ConstantsAssumption DEF Cluster, Free, End, Root, NoCluster

\* The walk goes from a cluster to what the table holds for it.
LEMMA WalkFacts ==
  ASSUME NEW f, NEW c
  PROVE  /\ Walk(f, c)[0] = c
         /\ \A k \in 0 .. TotalClusters - 1 : Walk(f, c)[k + 1] = Next_in(f, Walk(f, c)[k])
<1>. DEFINE Def(n, w) == w = [k \in 0 .. n |-> IF k = 0 THEN c ELSE Next_in(f, w[k - 1])]
            S == {n \in Nat : \E w : Def(n, w)}
            m == TotalClusters
<1>1. m \in Nat
  BY PlaceFacts
<1>. HIDE DEF m
<1>2. 0 \in S
  <2>1. Def(0, [k \in 0 .. 0 |-> c])
    OBVIOUS
  <2>. QED  BY <2>1
<1>3. ASSUME NEW n \in 0 .. m - 1, n \in S  PROVE n + 1 \in S
  <2>1. PICK w : Def(n, w)
    BY <1>3
  <2>. DEFINE v == [k \in 0 .. n + 1 |-> IF k = n + 1 THEN Next_in(f, w[n]) ELSE w[k]]
  <2>2. \A k \in 0 .. n : v[k] = w[k]
    BY <1>3
  <2>3. ASSUME NEW k \in 0 .. n + 1
        PROVE  v[k] = IF k = 0 THEN c ELSE Next_in(f, v[k - 1])
    <3>1. CASE k = n + 1
      <4>1. k # 0 /\ k - 1 = n /\ n \in 0 .. n
        BY <1>3, <3>1
      <4>2. v[k] = Next_in(f, w[n]) /\ v[n] = w[n]
        BY <2>2, <3>1, <4>1
      <4>. QED  BY <4>1, <4>2
    <3>2. CASE k # n + 1
      <4>1. k \in 0 .. n /\ (k # 0 => k - 1 \in 0 .. n)
        BY <1>3, <3>2
      <4>2. v[k] = w[k] /\ (k # 0 => v[k - 1] = w[k - 1])
        BY <2>2, <4>1
      <4>. QED  BY <2>1, <4>1, <4>2
    <3>. QED  BY <3>1, <3>2
  <2>4. v = [k \in 0 .. n + 1 |-> v[k]]
    OBVIOUS
  <2>. HIDE DEF v
  <2>5. v = [k \in 0 .. n + 1 |-> IF k = 0 THEN c ELSE Next_in(f, v[k - 1])]
    BY <2>3, <2>4
  <2>. QED  BY <1>3, <2>5
<1>. HIDE DEF S
<1>4. m \in S
  BY <1>1, <1>2, <1>3, UpTo
<1>5. \E w : Def(m, w)
  BY <1>4 DEF S
<1>6. Walk(f, c) = CHOOSE w : Def(m, w)
  BY DEF Walk, Next_in, m
<1>7. Def(m, Walk(f, c))
  <2>. HIDE DEF Def
  <2>. QED  BY <1>5, <1>6
<1>. DEFINE u == Walk(f, c)
<1>8. u = [k \in 0 .. m |-> IF k = 0 THEN c ELSE Next_in(f, u[k - 1])]
  BY <1>7
<1>. HIDE DEF u
<1>9. u[0] = c
  BY <1>1, <1>8
<1>10. ASSUME NEW k \in 0 .. m - 1  PROVE u[k + 1] = Next_in(f, u[k])
  <2>1. k + 1 \in 0 .. m /\ k + 1 # 0 /\ (k + 1) - 1 = k
    BY <1>1
  <2>. QED  BY <1>8, <2>1
<1>. QED  BY <1>9, <1>10 DEF u, m

\* A walk that has left the clusters stays where it is.
LEMMA WalkStays ==
  ASSUME NEW f, NEW c, NEW j \in 0 .. TotalClusters, Walk(f, c)[j] \notin Cluster,
         NEW k \in j .. TotalClusters
  PROVE  Walk(f, c)[k] = Walk(f, c)[j]
<1>. DEFINE m == TotalClusters
            w == Walk(f, c)
            S == {i \in 0 .. m : i < j \/ w[i] = w[j]}
<1>1. m \in Nat
  BY PlaceFacts
<1>2. \A i \in 0 .. m - 1 : w[i + 1] = Next_in(f, w[i])
  BY WalkFacts
<1>. HIDE DEF w
<1>3. 0 \in S
  BY <1>1
<1>4. ASSUME NEW i \in 0 .. m - 1, i \in S  PROVE i + 1 \in S
  <2>1. i + 1 \in 0 .. m
    BY <1>1
  <2>2. CASE i < j /\ i + 1 < j
    BY <2>1, <2>2
  <2>3. CASE i + 1 = j
    BY <2>1, <2>3
  <2>4. CASE ~(i < j)
    <3>1. w[i] = w[j] /\ w[i] \notin Cluster
      BY <1>4, <2>4 DEF w
    <3>2. w[i + 1] = w[j]
      BY <1>2, <3>1 DEF Next_in
    <3>. QED  BY <2>1, <3>2
  <2>. QED  BY <1>1, <2>2, <2>3, <2>4
<1>5. \A i \in 0 .. m : i \in S
  <2>. HIDE DEF S
  <2>. QED  BY <1>1, <1>3, <1>4, UpTo
<1>6. k \in 0 .. m /\ ~(k < j)
  BY <1>1
<1>. QED  BY <1>5, <1>6 DEF w

\* What a chain is, and that one of a file that was never written is empty.
LEMMA ChainFacts ==
  ASSUME NEW f, NEW c
  PROVE  /\ Chain(f, c) \subseteq Cluster
         /\ c \in Cluster => c \in Chain(f, c)
         /\ c \notin Cluster => Chain(f, c) = {} /\ Walk(f, c)[TotalClusters] = c
         /\ \A x \in Chain(f, c) : \E k \in 0 .. TotalClusters : Walk(f, c)[k] = x
<1>1. Walk(f, c)[0] = c /\ 0 \in 0 .. TotalClusters
  BY WalkFacts, PlaceFacts
<1>2. ASSUME c \notin Cluster, NEW k \in 0 .. TotalClusters  PROVE Walk(f, c)[k] = c
  BY <1>1, <1>2, WalkStays
<1>3. TotalClusters \in 0 .. TotalClusters
  BY PlaceFacts
<1>. QED  BY <1>1, <1>2, <1>3 DEF Chain

\* No cluster of a chain that ends is free.
LEMMA ChainUsed ==
  ASSUME NEW f, NEW c, Walk(f, c)[TotalClusters] = End, NEW x \in Chain(f, c)
  PROVE  x \in Cluster /\ f[x] # Free
<1>. DEFINE m == TotalClusters
            w == Walk(f, c)
<1>1. m \in Nat /\ w[m] = End /\ End \notin Cluster /\ Free \notin Cluster /\ Free # End
  BY PlaceFacts
<1>2. x \in Cluster
  BY ChainFacts
<1>3. PICK k \in 0 .. m : w[k] = x
  BY ChainFacts
<1>4. k # m
  BY <1>1, <1>2, <1>3
<1>5. k \in 0 .. m - 1 /\ k + 1 \in 0 .. m /\ m \in k + 1 .. m
  BY <1>1, <1>4
<1>6. w[k + 1] = f[x]
  BY <1>2, <1>3, <1>5, WalkFacts DEF Next_in
<1>7. ASSUME f[x] = Free  PROVE FALSE
  <2>1. w[k + 1] \notin Cluster
    BY <1>1, <1>6, <1>7
  <2>2. w[m] = w[k + 1]
    BY <1>5, <2>1, WalkStays
  <2>. QED  BY <1>1, <1>6, <1>7, <2>2
<1>. QED  BY <1>2, <1>7

\* A table that says the same of the clusters of a chain has the same chain.
LEMMA ChainSame ==
  ASSUME NEW f, NEW g, NEW c, \A x \in Chain(f, c) : g[x] = f[x]
  PROVE  /\ Chain(g, c) = Chain(f, c)
         /\ Walk(g, c)[TotalClusters] = Walk(f, c)[TotalClusters]
<1>. DEFINE m == TotalClusters
            v == Walk(g, c)
            w == Walk(f, c)
            S == {k \in 0 .. m : v[k] = w[k]}
<1>1. /\ m \in Nat /\ v[0] = c /\ w[0] = c
      /\ \A k \in 0 .. m - 1 : v[k + 1] = Next_in(g, v[k]) /\ w[k + 1] = Next_in(f, w[k])
  BY PlaceFacts, WalkFacts
<1>2. \A k \in 0 .. m : w[k] \in Cluster => g[w[k]] = f[w[k]]
  BY DEF Chain
<1>3. /\ Chain(g, c) = {v[k] : k \in 0 .. m} \cap Cluster
      /\ Chain(f, c) = {w[k] : k \in 0 .. m} \cap Cluster
  BY DEF Chain
<1>. HIDE DEF v, w
<1>4. 0 \in S
  BY <1>1
<1>5. ASSUME NEW k \in 0 .. m - 1, k \in S  PROVE k + 1 \in S
  <2>1. k + 1 \in 0 .. m /\ k \in 0 .. m
    BY <1>1
  <2>. QED  BY <1>1, <1>2, <1>5, <2>1 DEF Next_in
<1>6. \A k \in 0 .. m : k \in S
  <2>. HIDE DEF S
  <2>. QED  BY <1>1, <1>4, <1>5, UpTo
<1>7. \A k \in 0 .. m : v[k] = w[k]
  BY <1>6
<1>8. m \in 0 .. m
  BY <1>1
<1>9. {v[k] : k \in 0 .. m} = {w[k] : k \in 0 .. m}
  BY <1>7
<1>. QED  BY <1>3, <1>7, <1>8, <1>9 DEF v, w

\* The chain of a cluster that is marked as the last one.
LEMMA ChainOfOne ==
  ASSUME NEW f, NEW c \in Cluster, f[c] = End
  PROVE  Chain(f, c) = {c} /\ Walk(f, c)[TotalClusters] = End
<1>. DEFINE m == TotalClusters
            w == Walk(f, c)
<1>1. m \in Nat /\ m >= 4 /\ End \notin Cluster /\ w[0] = c
      /\ \A k \in 0 .. m - 1 : w[k + 1] = Next_in(f, w[k])
  BY PlaceFacts, WalkFacts
<1>2. 0 \in 0 .. m - 1 /\ 0 + 1 = 1 /\ 1 \in 0 .. m /\ 0 \in 0 .. m /\ m \in 1 .. m
  BY <1>1
<1>3. w[1] = End
  BY <1>1, <1>2 DEF Next_in
<1>4. \A k \in 1 .. m : w[k] = End
  BY <1>1, <1>2, <1>3, WalkStays
<1>5. \A k \in 0 .. m : k = 0 \/ k \in 1 .. m
  BY <1>1
<1>6. \A k \in 0 .. m : w[k] \in Cluster => w[k] = c
  BY <1>1, <1>4, <1>5
<1>7. Chain(f, c) = {w[k] : k \in 0 .. m} \cap Cluster
  BY DEF Chain
<1>. HIDE DEF w
<1>8. Chain(f, c) = {c}
  BY <1>1, <1>2, <1>6, <1>7
<1>. QED  BY <1>2, <1>4, <1>8 DEF w

-----------------------------------------------------------------------------
(* Volumes *)

\* The clusters of the files of the entries S.
Used(f, d, S) == UNION {Chain(f, d[s].start) : s \in S}

\* In a table f with the hint h and a directory d, the files of the entries S have their
\* clusters for themselves, and the cluster behind the hint is in none of them.
Volume(f, h, d, S) ==
    /\ f[Root] # Free
    /\ Sound(f, d, S)
    /\ h + 1 \in Cluster /\ h + 1 # Root /\ h + 1 \notin Used(f, d, S)

\* The entries S lead into the volume or nowhere.
Leading(d, S) == \A s \in S : d[s].start \in {0} \cup Cluster

\* No cluster of a file is free, and none is that of the root directory.
LEMMA UsedFacts ==
  ASSUME NEW f, NEW d, NEW S, Sound(f, d, S), Leading(d, S), NEW x \in Used(f, d, S)
  PROVE  x \in Cluster /\ f[x] # Free /\ x # Root
<1>1. PICK s \in S : x \in Chain(f, d[s].start)
  BY DEF Used
<1>2. d[s].start # 0
  BY <1>1, ChainFacts, PlaceFacts DEF Free
<1>3. Walk(f, d[s].start)[TotalClusters] = End /\ Root \notin Chain(f, d[s].start)
  BY <1>2 DEF Sound
<1>. QED  BY <1>1, <1>3, ChainUsed

\* Two tables that say the same of the clusters X.
Agree(f, g, X) == \A x \in X : g[x] = f[x]

\* The same files in both.
LEMMA ChainsKept ==
  ASSUME NEW f, NEW g, NEW d, NEW S, Agree(f, g, Used(f, d, S))
  PROVE  /\ \A s \in S : /\ Chain(g, d[s].start) = Chain(f, d[s].start)
                         /\ Walk(g, d[s].start)[TotalClusters] = Walk(f, d[s].start)[TotalClusters]
         /\ Used(g, d, S) = Used(f, d, S)
<1>1. ASSUME NEW s \in S
      PROVE  /\ Chain(g, d[s].start) = Chain(f, d[s].start)
             /\ Walk(g, d[s].start)[TotalClusters] = Walk(f, d[s].start)[TotalClusters]
  <2>1. \A x \in Chain(f, d[s].start) : g[x] = f[x]
    BY DEF Used, Agree
  <2>. QED  BY <2>1, ChainSame
<1>2. Used(g, d, S) = Used(f, d, S)
  BY <1>1 DEF Used
<1>. QED  BY <1>1, <1>2

\* A change of the table that meets no file and does not free the root directory.
LEMMA VolumeKept ==
  ASSUME NEW f, NEW g, NEW h, NEW d, NEW S, Volume(f, h, d, S),
         Agree(f, g, Used(f, d, S)), g[Root] # Free
  PROVE  Volume(g, h, d, S)
<1>1. Sound(g, d, S)
  BY ChainsKept DEF Volume, Sound
<1>. QED  BY <1>1, ChainsKept DEF Volume

\* The entries R of a directory e lead to the files of the entries S of d, different ones
\* to different ones.
Renames(m, e, R, d, S) ==
    /\ \A s \in R : e[s].start # 0 => m[s] \in S /\ d[m[s]].start = e[s].start
    /\ \A s, r \in R : e[s].start # 0 /\ e[r].start # 0 /\ s # r => m[s] # m[r]

\* Such entries are as good as those.
LEMMA VolumeRenamed ==
  ASSUME NEW f, NEW h, NEW d, NEW S, Volume(f, h, d, S), NEW e, NEW R, NEW m, Renames(m, e, R, d, S)
  PROVE  Volume(f, h, e, R) /\ Used(f, e, R) \subseteq Used(f, d, S)
<1>1. ASSUME NEW s \in R, e[s].start # 0
      PROVE  /\ m[s] \in S /\ d[m[s]].start = e[s].start /\ d[m[s]].start # 0
             /\ Walk(f, e[s].start)[TotalClusters] = End /\ Root \notin Chain(f, e[s].start)
  BY <1>1 DEF Volume, Sound, Renames
<1>2. ASSUME NEW s \in R, NEW r \in R, s # r, e[s].start # 0, e[r].start # 0
      PROVE  Chain(f, e[s].start) \cap Chain(f, e[r].start) = {}
  <2>1. m[s] # m[r]
    BY <1>2 DEF Renames
  <2>. QED  BY <1>1, <1>2, <2>1 DEF Volume, Sound
<1>3. Sound(f, e, R)
  BY <1>1, <1>2 DEF Sound
<1>4. ASSUME NEW x \in Used(f, e, R)  PROVE x \in Used(f, d, S)
  <2>1. PICK s \in R : x \in Chain(f, e[s].start)
    BY <1>4 DEF Used
  <2>2. e[s].start # 0
    BY <2>1, ChainFacts, PlaceFacts DEF Free
  <2>. QED  BY <1>1, <2>1, <2>2 DEF Used
<1>. QED  BY <1>3, <1>4 DEF Volume

\* Entries that have nothing new in them.
LEMMA VolumeLess ==
  ASSUME NEW f, NEW h, NEW d, NEW S, Volume(f, h, d, S), NEW e, NEW R,
         \A s \in R : e[s].start # 0 => s \in S /\ d[s].start = e[s].start
  PROVE  Volume(f, h, e, R) /\ Used(f, e, R) \subseteq Used(f, d, S)
<1>1. PICK m : \A s \in R : m[s] = s
  <2>1. \A s \in R : [r \in R |-> r][s] = s
    OBVIOUS
  <2>. QED  BY <2>1
<1>2. Renames(m, e, R, d, S)
  BY <1>1 DEF Renames
<1>. QED  BY <1>2, VolumeRenamed

\* Another hint whose next cluster is in no file.
LEMMA VolumeHint ==
  ASSUME NEW f, NEW h, NEW d, NEW S, Volume(f, h, d, S), Leading(d, S), NEW k,
         k + 1 \in Cluster, f[k + 1] = Free
  PROVE  Volume(f, k, d, S)
BY UsedFacts DEF Volume

\* The first free cluster from a place on.
LEMMA NextFreeFacts ==
  ASSUME NEW f, NEW start
  PROVE  \/ fs_next_free(f, start) = NoCluster
         \/ /\ fs_next_free(f, start) \in Cluster /\ f[fs_next_free(f, start)] = Free
            /\ fs_next_free(f, start) >= start
<1>. DEFINE free == {c \in Cluster : c >= start /\ f[c] = Free}
<1>1. CASE free = {}
  BY <1>1 DEF fs_next_free
<1>2. CASE free # {}
  <2>1. free \in SUBSET Nat
    BY PlaceFacts
  <2>2. \E x \in free : \A y \in free : x <= y
    <3>. HIDE DEF free
    <3>. QED  BY <1>2, <2>1, LeastExists
  <2>3. Min(free) \in free
    BY <2>2 DEF Min
  <2>4. fs_next_free(f, start) = Min(free)
    BY <1>2 DEF fs_next_free
  <2>. QED  BY <2>3, <2>4
<1>. QED  BY <1>1, <1>2

\* fs_alloc gives a cluster that is in no file, and the hint is followed by another such.
LEMMA AllocFacts ==
  ASSUME NEW f \in Table, NEW h \in 1 .. TotalClusters, NEW d, NEW S, Volume(f, h, d, S), Leading(d, S)
  PROVE  LET w == fs_alloc(f, h)
         IN  /\ w.ok \in BOOLEAN /\ w.fat \in Table /\ w.next_free \in 1 .. TotalClusters
             /\ ~w.ok => w.next_free = h
             /\ w.ok => /\ w.clust \in Cluster /\ w.clust # Root /\ w.clust \notin Used(f, d, S)
                        /\ w.fat[w.clust] = End
                        /\ w.next_free + 1 \in Cluster /\ w.next_free + 1 # w.clust
                        /\ f[w.next_free + 1] = Free /\ w.fat[w.next_free + 1] = Free
             /\ \A x \in Cluster : x # w.clust => w.fat[x] = f[x]
             /\ Agree(f, w.fat, Used(f, d, S))
             /\ w.fat[Root] # Free
<1>. DEFINE w == fs_alloc(f, h)
            clust == IF h + 1 > FreeCount + 1 THEN fs_next_free(f, 2) ELSE h + 1
            g == fs_modify_fat(f, clust, End)
            next == fs_next_free(g, clust)
            ok == next <= TotalClusters + 1
<1>1. /\ w.ok = ok /\ w.clust = clust /\ w.fat = g
      /\ w.next_free = IF ok THEN next - 1 ELSE h
  BY DEF fs_alloc
<1>. HIDE DEF w
<1>2. /\ TotalClusters \in Nat /\ TotalClusters >= 4 /\ Cluster = 2 .. TotalClusters + 1
      /\ NoCluster = TotalClusters + 3 /\ NoCluster \notin Cluster
      /\ Root = 2 /\ Root \in Cluster /\ End # Free
  BY PlaceFacts DEF Cluster, NoCluster, Root
<1>3. \A x \in Used(f, d, S) : x \in Cluster /\ f[x] # Free /\ x # Root
  BY UsedFacts DEF Volume
<1>4. /\ f[Root] # Free /\ Sound(f, d, S)
      /\ h + 1 \in Cluster /\ h + 1 # Root /\ h + 1 \notin Used(f, d, S)
  BY DEF Volume
<1>5. clust = NoCluster \/ (clust \in Cluster /\ clust # Root /\ clust \notin Used(f, d, S))
  <2>1. CASE h + 1 > FreeCount + 1
    <3>1. clust = fs_next_free(f, 2)
      BY <2>1
    <3>2. clust = NoCluster \/ (clust \in Cluster /\ f[clust] = Free)
      BY <3>1, NextFreeFacts
    <3>. QED  BY <1>3, <1>4, <3>2
  <2>2. CASE ~(h + 1 > FreeCount + 1)
    BY <1>4, <2>2
  <2>. QED  BY <2>1, <2>2
<1>. HIDE DEF clust
<1>6. /\ g \in Table
      /\ \A x \in Cluster : x # clust => g[x] = f[x]
      /\ clust \in Cluster => g[clust] = End
  BY DEF fs_modify_fat, Table
<1>7. next = NoCluster \/ (next \in Cluster /\ g[next] = Free /\ next >= clust)
  BY NextFreeFacts
<1>. HIDE DEF g
<1>8. ok => next \in Cluster /\ g[next] = Free /\ next >= clust /\ next - 1 \in Nat /\ (next - 1) + 1 = next
  BY <1>2, <1>7
<1>9. ok => clust \in Cluster
  BY <1>2, <1>5, <1>8
<1>10. ok => next # clust /\ f[next] = Free /\ next # Root
  BY <1>2, <1>4, <1>5, <1>6, <1>8, <1>9
<1>11. ok => next - 1 \in 1 .. TotalClusters
  BY <1>2, <1>8, <1>10
<1>. HIDE DEF next
<1>12. Agree(f, g, Used(f, d, S))
  BY <1>2, <1>3, <1>5, <1>6 DEF Agree
<1>13. g[Root] # Free
  BY <1>2, <1>4, <1>5, <1>6
<1>14. ok \in BOOLEAN
  OBVIOUS
<1>15. w.ok => /\ w.clust \in Cluster /\ w.clust # Root /\ w.clust \notin Used(f, d, S)
               /\ w.fat[w.clust] = End
               /\ w.next_free + 1 \in Cluster /\ w.next_free + 1 # w.clust
               /\ f[w.next_free + 1] = Free /\ w.fat[w.next_free + 1] = Free
  <2>1. SUFFICES ASSUME ok
        PROVE  /\ clust \in Cluster /\ clust # Root /\ clust \notin Used(f, d, S) /\ g[clust] = End
               /\ (next - 1) + 1 \in Cluster /\ (next - 1) + 1 # clust
               /\ f[(next - 1) + 1] = Free /\ g[(next - 1) + 1] = Free
    BY <1>1
  <2>2. (next - 1) + 1 = next
    BY <1>8, <2>1
  <2>. QED  BY <1>2, <1>5, <1>6, <1>8, <1>9, <1>10, <2>1, <2>2
<1>16. w.next_free \in 1 .. TotalClusters /\ (~w.ok => w.next_free = h)
  BY <1>1, <1>11
<1>. HIDE DEF ok
<1>. QED  BY <1>1, <1>6, <1>12, <1>13, <1>14, <1>15, <1>16 DEF w

\* A volume in which the entry s has got the cluster that fs_alloc gave.
LEMMA VolumeGrown ==
  ASSUME NEW f \in Table, NEW h \in 1 .. TotalClusters, NEW d, NEW S, Volume(f, h, d, S), Leading(d, S),
         fs_alloc(f, h).ok, NEW s \in S, d[s].start = 0, NEW e,
         e[s].start = fs_alloc(f, h).clust, \A r \in S \ {s} : e[r].start = d[r].start
  PROVE  /\ Volume(fs_alloc(f, h).fat, fs_alloc(f, h).next_free, e, S)
         /\ Chain(fs_alloc(f, h).fat, e[s].start) = {e[s].start}
<1>. DEFINE w == fs_alloc(f, h)
            g == w.fat
            k == w.next_free
            c == w.clust
<1>1. /\ c \in Cluster /\ c # Root /\ c \notin Used(f, d, S) /\ g[c] = End
      /\ k + 1 \in Cluster /\ k + 1 # c /\ f[k + 1] = Free /\ g[k + 1] = Free
      /\ Agree(f, g, Used(f, d, S))
      /\ g[Root] # Free
  BY AllocFacts
<1>2. e[s].start = c /\ Chain(g, c) = {c} /\ Walk(g, c)[TotalClusters] = End
  BY <1>1, ChainOfOne
<1>. HIDE DEF w, g, k, c
<1>3. Volume(g, h, d, S) /\ Used(g, d, S) = Used(f, d, S)
  BY <1>1, VolumeKept, ChainsKept
<1>4. Volume(g, k, d, S)
  BY <1>1, <1>3, VolumeHint
<1>5. \A r \in S \ {s} : Chain(g, e[r].start) \subseteq Used(f, d, S)
  BY <1>3 DEF Used
<1>6. Sound(g, e, S)
  <2>1. ASSUME NEW r \in S, e[r].start # 0
        PROVE  Walk(g, e[r].start)[TotalClusters] = End /\ Root \notin Chain(g, e[r].start)
    <3>1. CASE r = s
      BY <1>1, <1>2, <3>1
    <3>2. CASE r # s
      BY <1>4, <2>1, <3>2 DEF Volume, Sound
    <3>. QED  BY <3>1, <3>2
  <2>2. ASSUME NEW r \in S, NEW q \in S, e[r].start # 0, e[q].start # 0, r # q
        PROVE  Chain(g, e[r].start) \cap Chain(g, e[q].start) = {}
    <3>1. CASE r = s
      BY <1>1, <1>2, <1>5, <2>2, <3>1
    <3>2. CASE q = s
      BY <1>1, <1>2, <1>5, <2>2, <3>2
    <3>3. CASE r # s /\ q # s
      <4>1. d[r].start = e[r].start /\ d[q].start = e[q].start
        BY <3>3
      <4>. QED  BY <1>4, <2>2, <4>1 DEF Volume, Sound
    <3>. QED  BY <3>1, <3>2, <3>3
  <2>. QED  BY <2>1, <2>2 DEF Sound
<1>7. k + 1 \notin Used(g, e, S)
  <2>1. SUFFICES ASSUME NEW r \in S, k + 1 \in Chain(g, e[r].start)  PROVE FALSE
    BY DEF Used
  <2>2. CASE r = s
    BY <1>1, <1>2, <2>1, <2>2
  <2>3. CASE r # s
    <3>1. k + 1 \in Used(g, d, S)
      BY <1>3, <1>5, <2>1, <2>3
    <3>. QED  BY <1>4, <3>1 DEF Volume
  <2>. QED  BY <2>2, <2>3
<1>8. k + 1 # Root
  BY <1>4 DEF Volume
<1>9. Volume(g, k, e, S)
  BY <1>1, <1>6, <1>7, <1>8 DEF Volume
<1>. QED  BY <1>2, <1>9 DEF w, g, k, c

\* The entries of S lead through the same clusters in both tables.
SameChains(f, g, d, S) == \A s \in S : Chain(g, d[s].start) = Chain(f, d[s].start)

\* fs_rm frees the clusters of one file and of no other.
LEMMA VolumeFreed ==
  ASSUME NEW f \in Table, NEW h, NEW d, NEW S, Volume(f, h, d, S), NEW s \in S,
         d[s].start \in {0} \cup Cluster
  PROVE  /\ Freed(f, d[s].start) \in Table
         /\ Volume(Freed(f, d[s].start), h, d, S \ {s})
         /\ SameChains(f, Freed(f, d[s].start), d, S \ {s})
<1>. DEFINE g == Freed(f, d[s].start)
            C == Chain(f, d[s].start)
<1>1. g = [x \in Cluster |-> IF x \in C THEN Free ELSE f[x]]
  BY DEF Freed
<1>2. g \in Table
  BY <1>1 DEF Table
<1>3. Volume(f, h, d, S \ {s}) /\ Used(f, d, S \ {s}) \subseteq Used(f, d, S)
  BY VolumeLess
<1>4. d[s].start = 0 => C = {}
  BY ChainFacts, PlaceFacts DEF Free
<1>5. Root \notin C
  BY <1>4 DEF Volume, Sound
<1>6. \A x \in Used(f, d, S \ {s}) : x \in Cluster /\ x \notin C
  <2>1. SUFFICES ASSUME NEW r \in S \ {s}, NEW x \in Chain(f, d[r].start)
                 PROVE  x \in Cluster /\ x \notin C
    BY DEF Used
  <2>2. x \in Cluster /\ d[r].start # 0
    BY <2>1, ChainFacts, PlaceFacts DEF Free
  <2>3. CASE d[s].start = 0
    BY <1>4, <2>2, <2>3
  <2>4. CASE d[s].start # 0
    BY <2>1, <2>2, <2>4 DEF Volume, Sound
  <2>. QED  BY <2>3, <2>4
<1>. HIDE DEF C
<1>7. Agree(f, g, Used(f, d, S \ {s})) /\ g[Root] # Free
  <2>1. Root \in Cluster /\ f[Root] # Free
    BY PlaceFacts DEF Volume
  <2>. QED  BY <1>1, <1>5, <1>6, <2>1 DEF Agree
<1>. HIDE DEF g
<1>8. Volume(g, h, d, S \ {s}) /\ SameChains(f, g, d, S \ {s})
  <2>. DEFINE R == S \ {s}
  <2>1. Volume(f, h, d, R) /\ Agree(f, g, Used(f, d, R))
    BY <1>3, <1>7
  <2>. HIDE DEF R
  <2>2. g[Root] # Free
    BY <1>7
  <2>3. Volume(g, h, d, R)
    BY <2>1, <2>2, VolumeKept
  <2>4. SameChains(f, g, d, R)
    BY <2>1, ChainsKept DEF SameChains
  <2>. QED  BY <2>3, <2>4 DEF R
<1>. QED  BY <1>2, <1>8 DEF g

-----------------------------------------------------------------------------
(* The directory *)

Directory == [Slot -> Entry]

\* No two live entries have the same name, and none is behind one that was never used.
Once(d) == \A s \in Live(d) : fs_find(d, d[s].name) = {s}
Apart(d) == \A s, r \in Live(d) : d[s].name = d[r].name => s = r
Packed(d) == \A s \in Live(d) : \A r \in Slot : r < s => d[r].kind # "none"

\* fs_find finds every live entry just when the two hold.
LEMMA OnceIs ==
  ASSUME NEW d
  PROVE  /\ Once(d) <=> Apart(d) /\ Packed(d)
         /\ \A n : fs_find(d, n) \subseteq Live(d) /\ \A s \in fs_find(d, n) : d[s].name = n
         /\ Once(d) => \A s \in Live(d) : fs_find(d, d[s].name) # {}
<1>1. ASSUME Once(d)  PROVE Apart(d) /\ Packed(d)
  <2>1. ASSUME NEW s \in Live(d), NEW r \in Live(d), d[s].name = d[r].name  PROVE s = r
    <3>1. fs_find(d, d[s].name) = {s} /\ fs_find(d, d[r].name) = {r}
      BY <1>1 DEF Once
    <3>. QED  BY <2>1, <3>1
  <2>2. ASSUME NEW s \in Live(d), NEW r \in Slot, r < s  PROVE d[r].kind # "none"
    <3>1. s \in fs_find(d, d[s].name)
      BY <1>1 DEF Once
    <3>. QED  BY <2>2, <3>1 DEF fs_find
  <2>. QED  BY <2>1, <2>2 DEF Apart, Packed
<1>2. ASSUME Apart(d), Packed(d)  PROVE Once(d)
  BY <1>2 DEF Apart, Packed, Once, fs_find
<1>3. \A n : fs_find(d, n) \subseteq Live(d) /\ \A s \in fs_find(d, n) : d[s].name = n
  BY DEF fs_find
<1>. QED  BY <1>1, <1>2, <1>3 DEF Once

\* A new entry.
LEMMA Created ==
  ASSUME NEW d \in Directory, Once(d), NEW n \in Names, fs_find(d, n) = {}, Room(d) # {},
         NEW attr \in {"file", "dir"}
  PROVE  LET e == fs_create_with_attr(d, n, attr)
             t == Min(Room(d))
         IN  /\ t \in Slot /\ t \notin Live(d) /\ e \in Directory /\ Once(e)
             /\ e[t].kind = attr /\ e[t].name = n /\ e[t].start = 0
             /\ \A s \in Slot : s # t => e[s] = d[s]
             /\ Live(e) = Live(d) \cup {t} /\ fs_find(e, n) = {t}
             /\ \A s \in Live(d) : d[s].name # n
<1>. DEFINE e == fs_create_with_attr(d, n, attr)
            t == Min(Room(d))
<1>1. t \in Room(d) /\ \A r \in Room(d) : t <= r
  <2>1. \E x \in Room(d) : \A y \in Room(d) : x <= y
    <3>1. Room(d) \in SUBSET Nat
      BY DEF Room, Slot
    <3>. QED  BY <3>1, LeastExists
  <2>. QED  BY <2>1 DEF Min
<1>2. t \in Slot /\ t \notin Live(d)
  BY <1>1 DEF Room, Live
<1>3. e = [d EXCEPT ![t] = [kind |-> attr, name |-> n, start |-> 0]]
  BY DEF fs_create_with_attr
<1>. HIDE DEF e, t
<1>4. /\ e \in Directory
      /\ e[t].kind = attr /\ e[t].name = n /\ e[t].start = 0
      /\ \A s \in Slot : s # t => e[s] = d[s]
  BY <1>2, <1>3 DEF Directory, Entry
<1>5. Live(e) = Live(d) \cup {t}
  BY <1>2, <1>4 DEF Live
<1>6. Apart(d) /\ Packed(d)
  BY OnceIs
<1>7. \A s \in Live(d) : d[s].name # n
  BY <1>6 DEF Packed, fs_find
<1>8. Apart(e)
  BY <1>2, <1>4, <1>5, <1>6, <1>7 DEF Apart, Live
<1>9. Packed(e)
  <2>1. SUFFICES ASSUME NEW s \in Live(e), NEW r \in Slot, r < s  PROVE e[r].kind # "none"
    BY DEF Packed
  <2>2. CASE r = t
    BY <1>4, <2>2
  <2>3. CASE r # t /\ s # t
    BY <1>4, <1>5, <1>6, <2>1, <2>3 DEF Packed
  <2>4. CASE r # t /\ s = t
    <3>1. r \in Nat /\ t \in Nat
      BY <1>2 DEF Slot
    <3>2. r \notin Room(d)
      BY <1>1, <2>1, <2>4, <3>1
    <3>. QED  BY <1>4, <2>4, <3>2 DEF Room
  <2>. QED  BY <2>2, <2>3, <2>4
<1>10. Once(e)
  BY <1>8, <1>9, OnceIs
<1>11. fs_find(e, n) = {t}
  BY <1>4, <1>5, <1>10 DEF Once
<1>. QED  BY <1>2, <1>4, <1>5, <1>7, <1>10, <1>11 DEF e, t

\* An entry that gets a first cluster.
Started(d, s, x) == [d EXCEPT ![s].start = x]
SameBut(d, s, e) ==
    /\ e \in Directory /\ Live(e) = Live(d) /\ Once(e)
    /\ \A r \in Slot : e[r].name = d[r].name /\ e[r].kind = d[r].kind
    /\ \A r \in Slot : r # s => e[r] = d[r]
LEMMA StartedFacts ==
  ASSUME NEW d \in Directory, Once(d), NEW s \in Slot, NEW x \in {0} \cup Cluster
  PROVE  SameBut(d, s, Started(d, s, x)) /\ Started(d, s, x)[s].start = x
<1>. DEFINE e == Started(d, s, x)
<1>1. /\ e \in Directory /\ e[s].start = x
      /\ \A r \in Slot : e[r].name = d[r].name /\ e[r].kind = d[r].kind
      /\ \A r \in Slot : r # s => e[r] = d[r]
  BY DEF Directory, Entry, Started
<1>. HIDE DEF e
<1>2. Live(e) = Live(d)
  BY <1>1 DEF Live
<1>3. Once(e)
  <2>1. Apart(d) /\ Packed(d)
    BY OnceIs
  <2>2. \A r \in Live(d) : r \in Slot
    BY DEF Live
  <2>3. Apart(e)
    BY <1>1, <1>2, <2>1, <2>2 DEF Apart
  <2>4. Packed(e)
    BY <1>1, <1>2, <2>1 DEF Packed
  <2>. QED  BY <2>3, <2>4, OnceIs
<1>. QED  BY <1>1, <1>2, <1>3 DEF e, SameBut

\* An entry that is removed.
Without(d, s) == [d EXCEPT ![s] = Removed]
LEMMA WithoutFacts ==
  ASSUME NEW d \in Directory, Once(d), NEW s \in Slot
  PROVE  LET e == Without(d, s)
         IN  /\ e \in Directory /\ Live(e) = Live(d) \ {s} /\ Once(e)
             /\ \A r \in Slot : r # s => e[r] = d[r]
<1>. DEFINE e == Without(d, s)
<1>1. Removed \in Entry /\ Removed.kind = "deleted"
  BY ConstantsAssumption DEF Removed, NoEntry, Entry
<1>2. /\ e \in Directory /\ e[s] = Removed
      /\ \A r \in Slot : r # s => e[r] = d[r]
  BY <1>1 DEF Directory, Without
<1>. HIDE DEF e
<1>3. Live(e) = Live(d) \ {s}
  BY <1>1, <1>2 DEF Live
<1>4. Apart(d) /\ Packed(d)
  BY OnceIs
<1>5. Apart(e)
  BY <1>2, <1>3, <1>4 DEF Apart, Live
<1>6. Packed(e)
  BY <1>1, <1>2, <1>3, <1>4 DEF Packed
<1>7. Once(e)
  BY <1>5, <1>6, OnceIs
<1>. QED  BY <1>2, <1>3, <1>7 DEF e

-----------------------------------------------------------------------------
(* The transfers of fs_fflush and fs_close *)

On(f, h, d, m) == [fat |-> f, next_free |-> h, dir |-> d, data |-> m]

\* The parts of a card, and what one transfer makes of them.
LEMMA OnFacts ==
  /\ \A c \in Card : /\ c = On(c.fat, c.next_free, c.dir, c.data)
                     /\ c.fat \in Table /\ c.next_free \in 1 .. TotalClusters
                     /\ c.dir \in Directory /\ c.data \in [Cluster -> Data]
  /\ \A f \in Table, h \in 1 .. TotalClusters, d \in Directory, m \in [Cluster -> Data] :
        /\ On(f, h, d, m) \in Card
        /\ On(f, h, d, m).fat = f /\ On(f, h, d, m).next_free = h
        /\ On(f, h, d, m).dir = d /\ On(f, h, d, m).data = m
        /\ \A g \in Table : <<"fat", g>> \in Transfers /\ Put(On(f, h, d, m), <<"fat", g>>) = On(g, h, d, m)
        /\ \A k \in 1 .. TotalClusters :
              <<"next_free", k>> \in Transfers /\ Put(On(f, h, d, m), <<"next_free", k>>) = On(f, k, d, m)
        /\ \A e \in Directory : <<"dir", e>> \in Transfers /\ Put(On(f, h, d, m), <<"dir", e>>) = On(f, h, e, m)
        /\ \A l \in [Cluster -> Data] :
              <<"data", l>> \in Transfers /\ Put(On(f, h, d, m), <<"data", l>>) = On(f, h, d, l)
<1>1. ASSUME NEW c \in Card
      PROVE  /\ c = On(c.fat, c.next_free, c.dir, c.data)
             /\ c.fat \in Table /\ c.next_free \in 1 .. TotalClusters
             /\ c.dir \in Directory /\ c.data \in [Cluster -> Data]
  <2>. HIDE DEF Table, Cluster, Data, Slot, Entry
  <2>. QED  BY DEF Card, On, Directory
<1>2. ASSUME NEW f \in Table, NEW h \in 1 .. TotalClusters, NEW d \in Directory, NEW m \in [Cluster -> Data]
      PROVE  /\ On(f, h, d, m) \in Card
             /\ On(f, h, d, m).fat = f /\ On(f, h, d, m).next_free = h
             /\ On(f, h, d, m).dir = d /\ On(f, h, d, m).data = m
             /\ \A g \in Table : Put(On(f, h, d, m), <<"fat", g>>) = On(g, h, d, m)
             /\ \A k \in 1 .. TotalClusters : Put(On(f, h, d, m), <<"next_free", k>>) = On(f, k, d, m)
             /\ \A e \in Directory : Put(On(f, h, d, m), <<"dir", e>>) = On(f, h, e, m)
             /\ \A l \in [Cluster -> Data] : Put(On(f, h, d, m), <<"data", l>>) = On(f, h, d, l)
  BY DEF Card, On, Directory, Put
<1>3. /\ \A g \in Table : <<"fat", g>> \in Transfers
      /\ \A k \in 1 .. TotalClusters : <<"next_free", k>> \in Transfers
      /\ \A e \in Directory : <<"dir", e>> \in Transfers
      /\ \A l \in [Cluster -> Data] : <<"data", l>> \in Transfers
  BY DEF Transfers, Fields, Directory
<1>. QED  BY <1>1, <1>2, <1>3

\* A transfer of the clusters.
LEMMA LeadsData ==
  ASSUME NEW G, NEW keeps, NEW f \in Table, NEW h \in 1 .. TotalClusters, NEW d \in Directory,
         NEW m \in [Cluster -> Data], NEW l \in [Cluster -> Data],
         On(f, h, d, m) \in G, On(f, h, d, l) \in G
  PROVE  Leads(On(f, h, d, m), <<<<"data", l>>>>, On(f, h, d, l), G, keeps)
<1>. DEFINE c == On(f, h, d, m)
            e == On(f, h, d, l)
            t == <<"data", l>>
<1>1. t \in Transfers /\ Put(c, t) = e /\ c.dir = e.dir
  BY OnFacts
<1>2. Named(c) = Named(e)
  BY <1>1 DEF Named
<1>3. c \in G /\ e \in G
  OBVIOUS
<1>. HIDE DEF c, e, t
<1>4. Leads(c, <<t>>, Put(c, t), G, keeps)
  BY <1>1, <1>2, <1>3, LeadsOnce
<1>. QED  BY <1>1, <1>4 DEF c, e, t

\* FSInfo, then the table, then the directory.
LEMMA LeadsFlush ==
  ASSUME NEW G, NEW keeps, NEW f \in Table, NEW h \in 1 .. TotalClusters, NEW d \in Directory,
         NEW m \in [Cluster -> Data], NEW g \in Table, NEW k \in 1 .. TotalClusters, NEW e \in Directory,
         On(f, h, d, m) \in G, On(f, k, d, m) \in G, On(g, k, d, m) \in G, On(g, k, e, m) \in G,
         keeps => Named(On(g, k, d, m)) \subseteq Named(On(g, k, e, m))
  PROVE  Leads(On(f, h, d, m), fs_fflush(g, k, e), On(g, k, e, m), G, keeps)
<1>. DEFINE c1 == On(f, h, d, m)
            c2 == On(f, k, d, m)
            c3 == On(g, k, d, m)
            c4 == On(g, k, e, m)
            t1 == <<"next_free", k>>
            t2 == <<"fat", g>>
            t3 == <<"dir", e>>
            L == <<t1, t2, t3>>
            r == <<c1, c2, c3, c4>>
<1>1. /\ t1 \in Transfers /\ t2 \in Transfers /\ t3 \in Transfers
      /\ c2 = Put(c1, t1) /\ c3 = Put(c2, t2) /\ c4 = Put(c3, t3)
      /\ c1.dir = d /\ c2.dir = d /\ c3.dir = d
  BY OnFacts
<1>2. Named(c1) = Named(c2) /\ Named(c2) = Named(c3) /\ (keeps => Named(c3) \subseteq Named(c4))
  BY <1>1 DEF Named
<1>3. fs_fflush(g, k, e) = L
  BY DEF fs_fflush
<1>4. c1 \in G /\ c2 \in G /\ c3 \in G /\ c4 \in G
  OBVIOUS
<1>. HIDE DEF c1, c2, c3, c4, t1, t2, t3
<1>5. /\ L \in Seq(Transfers) /\ Len(L) = 3 /\ L[1] = t1 /\ L[2] = t2 /\ L[3] = t3
      /\ r \in Seq(G) /\ Len(r) = 4 /\ r[1] = c1 /\ r[2] = c2 /\ r[3] = c3 /\ r[4] = c4
  BY <1>1, <1>4
<1>. HIDE DEF L, r
<1>6. ASSUME NEW i \in 1 .. 3
      PROVE  r[i + 1] = Put(r[i], L[i]) /\ (keeps => Named(r[i]) \subseteq Named(r[i + 1]))
  <2>1. i = 1 \/ i = 2 \/ i = 3
    OBVIOUS
  <2>2. CASE i = 1
    BY <1>1, <1>2, <1>5, <2>2
  <2>3. CASE i = 2
    BY <1>1, <1>2, <1>5, <2>3
  <2>4. CASE i = 3
    BY <1>1, <1>2, <1>5, <2>4
  <2>. QED  BY <2>1, <2>2, <2>3, <2>4
<1>7. Path(r, c1, L, c4, G, keeps)
  BY <1>5, <1>6 DEF Path
<1>8. Leads(c1, L, c4, G, keeps)
  BY <1>5, <1>7 DEF Leads
<1>. QED  BY <1>3, <1>8 DEF c1, c4

\* The same with the buffers of a file after them.
LEMMA LeadsClose ==
  ASSUME NEW G, NEW keeps, NEW f \in Table, NEW h \in 1 .. TotalClusters, NEW d \in Directory,
         NEW m \in [Cluster -> Data], NEW g \in Table, NEW k \in 1 .. TotalClusters, NEW e \in Directory,
         NEW l \in [Cluster -> Data],
         On(f, h, d, m) \in G, On(f, k, d, m) \in G, On(g, k, d, m) \in G, On(g, k, e, m) \in G,
         On(g, k, e, l) \in G,
         keeps => Named(On(g, k, d, m)) \subseteq Named(On(g, k, e, m))
  PROVE  Leads(On(f, h, d, m), fs_close(g, k, e, l), On(g, k, e, l), G, keeps)
<1>1. Leads(On(f, h, d, m), fs_fflush(g, k, e), On(g, k, e, m), G, keeps)
  BY LeadsFlush
<1>2. Leads(On(g, k, e, m), <<<<"data", l>>>>, On(g, k, e, l), G, keeps)
  BY LeadsData
<1>3. fs_close(g, k, e, l) = fs_fflush(g, k, e) \o <<<<"data", l>>>>
  BY DEF fs_close, fs_fflush
<1>. QED  BY <1>1, <1>2, <1>3, LeadsOn

-----------------------------------------------------------------------------
(* What fs_write does *)

\* The erase of fs_alloc, addressed too low, meets no cluster of a partition that begins
\* behind all the places it reaches.
LEMMA EraseFacts ==
  ASSUME NEW img \in [Cluster -> Data], NEW c \in Cluster
  PROVE  Erase(img, c) \in [Cluster -> Data] /\ (Base >= TotalClusters => Erase(img, c) = img)
<1>1. "zero" \in Data
  BY DEF Data
<1>2. Base >= TotalClusters => c - Base \notin Cluster
  BY ConstantsAssumption DEF Cluster
<1>. HIDE DEF Data, Cluster
<1>. QED  BY <1>1, <1>2 DEF Erase

\* A write into one of the entries S of a volume, w, leaves a volume whenever it is cut off,
\* and the other files as they were; e is the directory after it.
Written(f, d, S, img, s, words, w, e) ==
    /\ w.ok \in BOOLEAN /\ w.fat \in Table /\ w.next_free \in 1 .. TotalClusters
    /\ w.start \in {0} \cup Cluster
    /\ w.erased \in [Cluster -> Data] /\ w.data \in [Cluster -> Data]
    /\ Volume(f, w.next_free, d, S) /\ Volume(w.fat, w.next_free, d, S)
    /\ Volume(w.fat, w.next_free, e, S)
    /\ Agree(f, w.fat, Used(f, d, S))
    /\ Base >= TotalClusters =>
          \A r \in S \ {s} : \A x \in Chain(f, d[r].start) :
              w.erased[x] = img[x] /\ w.data[x] = img[x]
    /\ ~w.ok => d[s].start = 0 /\ w.start = 0
    /\ d[s].start # 0 => w.ok /\ w.start = d[s].start /\ w.fat = f
    /\ d[s].start # 0 /\ words = Full => w.data = img
    /\ w.ok /\ words # Full => w.data[w.start] = words
    /\ w.ok /\ d[s].start = 0 => Chain(w.fat, w.start) = {w.start}
LEMMA WriteFacts ==
  ASSUME NEW f \in Table, NEW h \in 1 .. TotalClusters, NEW d \in Directory, NEW S \in SUBSET Slot,
         Volume(f, h, d, S), NEW img \in [Cluster -> Data], NEW s \in S,
         NEW words \in Texts \cup {Full, "dots"}
  PROVE  LET w == fs_write(f, h, img, d[s].start, words)
         IN  Written(f, d, S, img, s, words, w, Started(d, s, w.start))
<1>. DEFINE w == fs_write(f, h, img, d[s].start, words)
            e == Started(d, s, w.start)
            new == fs_alloc(f, h)
            c == IF d[s].start = 0 THEN new.clust ELSE d[s].start
            clear == IF d[s].start = 0 THEN Erase(img, c) ELSE img
            written == IF words = Full THEN clear ELSE [clear EXCEPT ![c] = words]
<1>1. /\ \A r \in Slot : d[r].start \in {0} \cup Cluster
      /\ Leading(d, S) /\ s \in Slot /\ 0 \notin Cluster
  BY PlaceFacts DEF Directory, Entry, Leading, Free
<1>2. /\ words # Full => words \in Data
      /\ \A m \in [Cluster -> Data], x \in Cluster : words # Full =>
            /\ [m EXCEPT ![x] = words] \in [Cluster -> Data] /\ [m EXCEPT ![x] = words][x] = words
            /\ \A y \in Cluster : y # x => [m EXCEPT ![x] = words][y] = m[y]
  <2>1. words # Full => words \in Data
    BY DEF Data, Full
  <2>. HIDE DEF Data, Cluster
  <2>. QED  BY <2>1
<1>3. \A r \in S \ {s} : \A x \in Chain(f, d[r].start) : x \in Cluster /\ x \in Used(f, d, S)
  BY ChainFacts DEF Used
<1>4. CASE d[s].start = 0 /\ ~new.ok
  <2>1. /\ w.ok = FALSE /\ w.start = 0 /\ w.fat = new.fat /\ w.next_free = h
        /\ w.erased = img /\ w.data = img
    BY <1>4 DEF fs_write
  <2>. HIDE DEF w
  <2>2. new.fat \in Table /\ Agree(f, new.fat, Used(f, d, S)) /\ new.fat[Root] # Free
    BY <1>1, AllocFacts
  <2>. HIDE DEF new
  <2>3. Volume(w.fat, h, d, S)
    BY <2>1, <2>2, VolumeKept
  <2>4. /\ e[s].start = w.start
        /\ \A r \in S : e[r].start = d[r].start
    BY <1>1, <1>4, <2>1 DEF Directory, Entry, Started
  <2>. HIDE DEF e
  <2>5. Volume(w.fat, h, e, S)
    <3>1. \A r \in S : e[r].start # 0 => r \in S /\ d[r].start = e[r].start
      BY <2>4
    <3>. QED  BY <2>3, <3>1, VolumeLess
  <2>. QED  BY <1>4, <2>1, <2>2, <2>3, <2>5 DEF w, e, Written
<1>5. CASE d[s].start = 0 /\ new.ok
  <2>1. /\ w.ok = TRUE /\ w.start = new.clust /\ w.fat = new.fat /\ w.next_free = new.next_free
        /\ w.erased = clear /\ w.data = written /\ c = new.clust
    BY <1>5 DEF fs_write
  <2>. HIDE DEF w
  <2>2. /\ new.fat \in Table /\ Agree(f, new.fat, Used(f, d, S)) /\ new.fat[Root] # Free
        /\ new.next_free \in 1 .. TotalClusters
        /\ new.clust \in Cluster /\ new.clust \notin Used(f, d, S)
        /\ new.next_free + 1 \in Cluster /\ f[new.next_free + 1] = Free
    BY <1>1, <1>5, AllocFacts
  <2>3. /\ e[s].start = new.clust
        /\ \A r \in S \ {s} : e[r].start = d[r].start
    BY <1>1, <2>1 DEF Directory, Entry, Started
  <2>. HIDE DEF e
  <2>4. Volume(new.fat, new.next_free, e, S) /\ Chain(new.fat, e[s].start) = {e[s].start}
    <3>1. /\ fs_alloc(f, h).ok /\ d[s].start = 0 /\ e[s].start = fs_alloc(f, h).clust
          /\ \A r \in S \ {s} : e[r].start = d[r].start
      BY <1>5, <2>3
    <3>. HIDE DEF new
    <3>2. PICK grown : grown = e
      OBVIOUS
    <3>3. grown[s].start = fs_alloc(f, h).clust /\ \A r \in S \ {s} : grown[r].start = d[r].start
      BY <3>1, <3>2
    <3>4. f \in Table /\ h \in 1 .. TotalClusters /\ Leading(d, S)
      BY <1>1
    <3>5. /\ Volume(fs_alloc(f, h).fat, fs_alloc(f, h).next_free, grown, S)
          /\ Chain(fs_alloc(f, h).fat, grown[s].start) = {grown[s].start}
      BY <3>1, <3>3, <3>4, VolumeGrown
    <3>. QED  BY <3>2, <3>5 DEF new
  <2>. HIDE DEF new
  <2>5. Volume(f, new.next_free, d, S)
    BY <1>1, <2>2, VolumeHint
  <2>6. Volume(new.fat, new.next_free, d, S)
    BY <2>2, <2>5, VolumeKept
  <2>7. clear \in [Cluster -> Data] /\ (Base >= TotalClusters => clear = img)
    BY <2>1, <2>2, EraseFacts
  <2>. HIDE DEF clear
  <2>8. /\ written \in [Cluster -> Data] /\ (words # Full => written[c] = words)
        /\ \A x \in Cluster : x # c => written[x] = clear[x]
    BY <1>2, <2>1, <2>2, <2>7
  <2>. HIDE DEF written, c
  <2>9. Base >= TotalClusters =>
           \A r \in S \ {s} : \A x \in Chain(f, d[r].start) : clear[x] = img[x] /\ written[x] = img[x]
    BY <1>3, <2>1, <2>2, <2>7, <2>8
  <2>10. /\ w.ok \in BOOLEAN /\ w.fat \in Table /\ w.next_free \in 1 .. TotalClusters
         /\ w.start \in {0} \cup Cluster
         /\ w.erased \in [Cluster -> Data] /\ w.data \in [Cluster -> Data]
    BY <2>1, <2>2, <2>7, <2>8
  <2>11. /\ Volume(f, w.next_free, d, S) /\ Volume(w.fat, w.next_free, d, S)
         /\ Volume(w.fat, w.next_free, e, S) /\ Agree(f, w.fat, Used(f, d, S))
    BY <2>1, <2>2, <2>4, <2>5, <2>6
  <2>12. /\ w.ok /\ words # Full => w.data[w.start] = words
         /\ Chain(w.fat, w.start) = {w.start}
    BY <2>1, <2>3, <2>4, <2>8
  <2>13. Base >= TotalClusters =>
           \A r \in S \ {s} : \A x \in Chain(f, d[r].start) : w.erased[x] = img[x] /\ w.data[x] = img[x]
    BY <2>1, <2>9
  <2>. QED  BY <1>5, <2>1, <2>10, <2>11, <2>12, <2>13 DEF w, e, Written
<1>6. CASE d[s].start # 0
  <2>1. /\ w.ok = TRUE /\ w.start = d[s].start /\ w.fat = f /\ w.next_free = h
        /\ w.erased = img /\ w.data = written /\ c = d[s].start /\ clear = img
    BY <1>6 DEF fs_write
  <2>. HIDE DEF w
  <2>2. c \in Cluster
    BY <1>1, <1>6
  <2>3. /\ written \in [Cluster -> Data] /\ (words # Full => written[c] = words)
        /\ words = Full => written = img
        /\ \A x \in Cluster : x # c => written[x] = img[x]
    BY <1>2, <1>6, <2>1, <2>2
  <2>. HIDE DEF written
  <2>4. \A r \in S \ {s} : \A x \in Chain(f, d[r].start) : x \in Cluster /\ x # c
    <3>1. SUFFICES ASSUME NEW r \in S \ {s}, NEW x \in Chain(f, d[r].start)  PROVE x # c
      BY <1>3
    <3>2. d[r].start # 0
      BY <1>1, <3>1, ChainFacts
    <3>3. c \in Chain(f, d[s].start)
      BY <2>1, <2>2, ChainFacts
    <3>. QED  BY <1>6, <3>1, <3>2, <3>3 DEF Volume, Sound
  <2>5. e = d
    <3>1. e \in Directory /\ d \in Directory /\ \A r \in Slot : e[r] = d[r]
      <4>1. \A r \in Slot : e[r] = d[r]
        BY <1>1, <2>1 DEF Directory, Entry, Started
      <4>. QED  BY <2>1, <4>1 DEF Directory, Entry, Started
    <3>. HIDE DEF e
    <3>. QED  BY <3>1 DEF Directory
  <2>6. Agree(f, f, Used(f, d, S))
    BY DEF Agree
  <2>. HIDE DEF e, c
  <2>7. Base >= TotalClusters =>
           \A r \in S \ {s} : \A x \in Chain(f, d[r].start) : w.erased[x] = img[x] /\ w.data[x] = img[x]
    BY <2>1, <2>3, <2>4
  <2>8. /\ w.ok \in BOOLEAN /\ w.fat \in Table /\ w.next_free \in 1 .. TotalClusters
        /\ w.start \in {0} \cup Cluster
        /\ w.erased \in [Cluster -> Data] /\ w.data \in [Cluster -> Data]
    BY <2>1, <2>2, <2>3
  <2>9. /\ Volume(f, w.next_free, d, S) /\ Volume(w.fat, w.next_free, d, S)
        /\ Volume(w.fat, w.next_free, e, S) /\ Agree(f, w.fat, Used(f, d, S))
    BY <2>1, <2>5, <2>6
  <2>10. /\ words = Full => w.data = img
         /\ words # Full => w.data[w.start] = words
    BY <2>1, <2>3
  <2>. QED  BY <1>6, <2>1, <2>7, <2>8, <2>9, <2>10 DEF w, e, Written
<1>. QED
  <2>1. new.ok \in BOOLEAN
    BY <1>1, AllocFacts
  <2>. HIDE DEF w, e, new, c, clear, written
  <2>2. (d[s].start = 0 /\ ~new.ok) \/ (d[s].start = 0 /\ new.ok) \/ d[s].start # 0
    BY <2>1
  <2>. QED  BY <1>4, <1>5, <1>6, <2>2

-----------------------------------------------------------------------------
(* What a command does to the card *)

\* The entry that the commands which take a file off the card are about.
Out(op, s) == IF op \in {"rm", "mv"} THEN {s} ELSE {}

\* The files of the entries S hold on the card c what they should.
Holds(c, S, cont) ==
    \A s \in S : c.dir[s].start # 0 /\ cont[c.dir[s].name] # "none" =>
        \A x \in Chain(c.fat, c.dir[s].start) : c.data[x] = cont[c.dir[s].name]

\* What the card is like at any moment of the command op about the entry s.
Good(c, op, s, d, cont) ==
    /\ Volume(c.fat, c.next_free, c.dir, Live(c.dir) \ Out(op, s))
    /\ Once(c.dir)
    /\ op \notin {"rm", "mv"} =>
          /\ s \in Live(c.dir) => c.dir[s].name = d[s].name
          /\ Base >= TotalClusters => Holds(c, Live(c.dir) \ {s}, cont)
Safe(op, s, d, cont) == {c \in Card : Good(c, op, s, d, cont)}

\* What the card is like after the last transfer: it says the same as the memory, but
\* for a cluster that was marked and then given to nobody.
Target(e, f, h, d, cont) ==
    /\ e.next_free = h /\ e.dir = d /\ e.fat[Root] # Free
    /\ Agree(f, e.fat, Used(f, d, Live(d)))
    /\ Base >= TotalClusters => Holds(e, Live(d), cont)

\* The transfers L lead there from the card c.
Steady(f, h, d, c, L, op, s, cont) ==
    \E e : Leads(c, L, e, Safe(op, s, d, cont), op # "rm") /\ Target(e, f, h, d, cont)

\* The card of a system without a command.
LEMMA TargetFacts ==
  ASSUME NEW f \in Table, NEW h, NEW d, Volume(f, h, d, Live(d)), Once(d), NEW cont,
         NEW c \in Card, Target(c, f, h, d, cont)
  PROVE  /\ Volume(c.fat, h, d, Live(d)) /\ c.next_free = h /\ c.dir = d
         /\ \A s \in Live(d) : Chain(c.fat, d[s].start) = Chain(f, d[s].start)
         /\ \A s : c \in Safe("none", s, d, cont)
<1>1. /\ c.next_free = h /\ c.dir = d /\ c.fat[Root] # Free
      /\ Agree(f, c.fat, Used(f, d, Live(d)))
      /\ Base >= TotalClusters => Holds(c, Live(d), cont)
  BY DEF Target
<1>. DEFINE g == c.fat
            S == Live(d)
<1>2. Volume(f, h, d, S) /\ Agree(f, g, Used(f, d, S)) /\ g[Root] # Free
  BY <1>1
<1>. HIDE DEF g, S
<1>3. Volume(g, h, d, S)
  BY <1>2, VolumeKept
<1>4. \A s \in S : Chain(g, d[s].start) = Chain(f, d[s].start)
  BY <1>2, ChainsKept
<1>5. ASSUME NEW s  PROVE c \in Safe("none", s, d, cont)
  <2>1. Out("none", s) = {} /\ Live(d) \ {} = Live(d)
    BY DEF Out
  <2>2. Base >= TotalClusters => Holds(c, Live(d) \ {s}, cont)
    BY <1>1 DEF Holds
  <2>. QED  BY <1>1, <1>3, <2>1, <2>2 DEF Safe, Good, g, S
<1>. QED  BY <1>1, <1>3, <1>4, <1>5 DEF g, S

\* No transfer is left.
LEMMA SteadyNowhere ==
  ASSUME NEW f \in Table, NEW h, NEW d, Volume(f, h, d, Live(d)), Once(d), NEW cont,
         NEW c \in Card, Target(c, f, h, d, cont), NEW s
  PROVE  Steady(f, h, d, c, <<>>, "none", s, cont)
<1>1. c \in Safe("none", s, d, cont)
  BY TargetFacts
<1>2. \A k : Leads(c, <<>>, c, Safe("none", s, d, cont), k)
  BY <1>1, LeadsNowhere
<1>. QED  BY <1>2 DEF Steady

\* The transfers of a command, without those in front that change nothing.
LEMMA SteadyDue ==
  ASSUME NEW f \in Table, NEW h, NEW d, Volume(f, h, d, Live(d)), Once(d), NEW cont,
         NEW c, NEW L, NEW op, NEW s, Steady(f, h, d, c, L, op, s, cont), NEW r
  PROVE  /\ Due(c, L) # <<>> => Steady(f, h, d, c, Due(c, L), op, s, cont)
         /\ Due(c, L) = <<>> => Steady(f, h, d, c, <<>>, "none", r, cont)
<1>. DEFINE G == Safe(op, s, d, cont)
            keeps == op # "rm"
<1>1. PICK e : Leads(c, L, e, G, keeps) /\ Target(e, f, h, d, cont)
  BY DEF Steady
<1>2. G \in SUBSET Card
  BY DEF Safe
<1>. HIDE DEF G, keeps
<1>3. Leads(c, Due(c, L), e, G, keeps)
  BY <1>1, <1>2, LeadsDue
<1>4. CASE Due(c, L) # <<>>
  BY <1>1, <1>3, <1>4 DEF Steady, G, keeps
<1>5. CASE Due(c, L) = <<>>
  <2>1. e = c
    <3>1. Leads(c, <<>>, e, G, keeps)
      BY <1>3, <1>5
    <3>. QED  BY <3>1, LeadsNowhere
  <2>2. c \in Card
    BY <1>2, <1>3, LeadsEnds
  <2>. QED  BY <1>1, <1>5, <2>1, <2>2, SteadyNowhere
<1>. QED  BY <1>4, <1>5

\* The memory and the card between two commands.
Before(f, h, b, cont, c) ==
    /\ f \in Table /\ h \in 1 .. TotalClusters /\ b \in Directory /\ Volume(f, h, b, Live(b)) /\ Once(b)
    /\ c \in Card /\ Target(c, f, h, b, cont)

\* The directory d has an entry s of the name n, as b had it or a new one.
Opened(b, d, s, n) ==
    /\ d \in Directory /\ Once(d) /\ s \in Slot /\ d[s].name = n /\ Live(d) = Live(b) \cup {s}
    /\ \A r \in Slot : r # s => d[r] = b[r]
    /\ s \in Live(b) => d = b
    /\ s \notin Live(b) => d[s].start = 0

\* The text is written there, into a file of one cluster at most.
Writes(f, h, c, d, s, words, w, e) ==
    /\ words \in Texts \cup {Full, "dots"}
    /\ d[s].start # 0 => Chain(f, d[s].start) = {d[s].start}
    /\ w = fs_write(f, h, c.data, d[s].start, words)
    /\ e = Started(d, s, w.start)

\* What is known of the files before and after.
Knows(cont, cont2, w, words, n, start) ==
    /\ \A r \in Names : r # n => cont2[r] = cont[r]
    /\ cont2[n] = IF w.ok /\ words # Full THEN words ELSE IF start = 0 THEN "none" ELSE cont[n]

\* The transfers of CreateAndWrite.
Writing(f, h, d, w, e, op) ==
    fs_fflush(f, h, d) \o
    (IF w.ok \/ op = "save" THEN <<<<"data", w.erased>>>> \o fs_close(w.fat, w.next_free, e, w.data)
                            ELSE <<>>)

\* Creating, opening, writing and closing a file, or only some of it when there is no
\* cluster left: at any moment the card holds a volume with all the other files.
LEMMA Wrote ==
  ASSUME NEW f, NEW h, NEW b, NEW cont, NEW c, Before(f, h, b, cont, c),
         NEW d, NEW s, NEW n, Opened(b, d, s, n),
         NEW words, NEW w, NEW e, Writes(f, h, c, d, s, words, w, e),
         NEW cont2, Knows(cont, cont2, w, words, n, d[s].start), NEW op \in {"save", "mkdir"}
  PROVE  /\ e \in Directory /\ Once(e) /\ Volume(w.fat, w.next_free, e, Live(e))
         /\ w.fat \in Table /\ w.next_free \in 1 .. TotalClusters
         /\ Steady(w.fat, w.next_free, e, c, Writing(f, h, d, w, e, op), op, s, cont2)
<1>. DEFINE img == c.data
            cf == c.fat
            S == Live(d)
            g == w.fat
            k == w.next_free
            m1 == w.erased
            m2 == w.data
            far == Base >= TotalClusters
            G == Safe(op, s, e, cont2)
            keeps == op # "rm"
<1>0. /\ f \in Table /\ h \in 1 .. TotalClusters /\ b \in Directory /\ d \in Directory
      /\ Once(b) /\ Once(d) /\ Volume(f, h, b, Live(b)) /\ s \in Slot /\ d[s].name = n
      /\ \A r \in Slot : r # s => d[r] = b[r]
  BY DEF Before, Opened
<1>1. /\ cf \in Table /\ img \in [Cluster -> Data] /\ c = On(cf, h, b, img)
      /\ far => Holds(c, Live(b), cont)
      /\ c.dir = b
  BY OnFacts DEF Target, Before
<1>2. /\ Volume(cf, h, b, Live(b))
      /\ \A r \in Live(b) : Chain(cf, b[r].start) = Chain(f, b[r].start)
  BY TargetFacts DEF Before
<1>3. Volume(f, h, d, S)
  <2>1. \A r \in S : d[r].start # 0 => r \in Live(b) /\ b[r].start = d[r].start
    BY DEF Opened, Live
  <2>. HIDE DEF S
  <2>. QED  BY <1>0, <2>1, VolumeLess
<1>4. S \in SUBSET Slot /\ s \in S /\ S = Live(b) \cup {s}
  BY DEF Live, Opened
<1>5. /\ w.ok \in BOOLEAN /\ g \in Table /\ k \in 1 .. TotalClusters
      /\ w.start \in {0} \cup Cluster
      /\ m1 \in [Cluster -> Data] /\ m2 \in [Cluster -> Data]
      /\ Volume(f, k, d, S) /\ Volume(g, k, d, S) /\ Volume(g, k, e, S)
      /\ Agree(f, g, Used(f, d, S))
      /\ far => \A r \in S \ {s} : \A x \in Chain(f, d[r].start) : m1[x] = img[x] /\ m2[x] = img[x]
      /\ ~w.ok => d[s].start = 0 /\ w.start = 0
      /\ d[s].start # 0 => w.ok /\ w.start = d[s].start /\ g = f
      /\ d[s].start # 0 /\ words = Full => m2 = img
      /\ w.ok /\ words # Full => m2[w.start] = words
      /\ w.ok /\ d[s].start = 0 => Chain(g, w.start) = {w.start}
  <2>. HIDE DEF S, img
  <2>1. w = fs_write(f, h, img, d[s].start, words) /\ e = Started(d, s, w.start)
        /\ words \in Texts \cup {Full, "dots"}
    BY DEF Writes, img
  <2>2. Written(f, d, S, img, s, words, fs_write(f, h, img, d[s].start, words),
                Started(d, s, fs_write(f, h, img, d[s].start, words).start))
    BY <1>0, <1>1, <1>3, <1>4, <2>1, WriteFacts
  <2>3. Written(f, d, S, img, s, words, w, e)
    BY <2>1, <2>2
  <2>. QED  BY <2>3 DEF Written
<1>6. /\ e \in Directory /\ Live(e) = S /\ Once(e) /\ e[s].start = w.start /\ e[s].name = n
      /\ \A r \in Slot : r # s => e[r] = d[r]
  <2>1. w.start \in {0} \cup Cluster
    BY <1>5
  <2>2. e = Started(d, s, w.start)
    BY DEF Writes
  <2>3. SameBut(d, s, e) /\ e[s].start = w.start
    BY <1>0, <2>1, <2>2, StartedFacts
  <2>. QED  BY <1>0, <2>3 DEF S, SameBut
<1>. HIDE DEF img, cf, S, g, k, m1, m2, G, keeps, far
<1>7. (\A r \in S : Chain(g, d[r].start) = Chain(f, d[r].start)) /\ Used(g, d, S) = Used(f, d, S)
  <2>1. Agree(f, g, Used(f, d, S))
    BY <1>5
  <2>. QED  BY <2>1, ChainsKept
<1>8. \A r \in S \ {s} : /\ r \in Live(b) /\ r \in Slot /\ d[r] = b[r] /\ e[r] = b[r]
                         /\ d[r].name # n /\ cont2[d[r].name] = cont[d[r].name]
  <2>1. Apart(d)
    BY <1>0, OnceIs
  <2>2. \A r \in S \ {s} : d[r].name # n
    BY <1>0, <1>4, <2>1 DEF Apart, S
  <2>3. \A r \in Slot : d[r].name \in Names
    BY <1>0 DEF Directory, Entry
  <2>. QED  BY <1>0, <1>4, <1>6, <2>2, <2>3 DEF Knows
<1>9. ASSUME far, NEW r \in S \ {s}, d[r].start # 0, cont2[d[r].name] # "none",
             NEW x \in Chain(f, d[r].start)
      PROVE  /\ img[x] = cont2[d[r].name] /\ m1[x] = cont2[d[r].name] /\ m2[x] = cont2[d[r].name]
  <2>1. img[x] = cont[b[r].name]
    BY <1>1, <1>2, <1>8, <1>9 DEF Holds, img, cf
  <2>. QED  BY <1>5, <1>8, <1>9, <2>1
<1>10. ASSUME NEW f1 \in Table, NEW h1 \in 1 .. TotalClusters, NEW d1 \in {b, d, e},
              NEW m \in {img, m1, m2}, Volume(f1, h1, d1, Live(d1)),
              \A r \in S \ {s} : Chain(f1, d[r].start) = Chain(f, d[r].start)
       PROVE  On(f1, h1, d1, m) \in G
  <2>. DEFINE a == On(f1, h1, d1, m)
  <2>1. d1 \in Directory /\ m \in [Cluster -> Data]
    BY <1>0, <1>1, <1>5, <1>6, <1>10
  <2>2. Once(d1) /\ Live(d1) \ {s} = S \ {s} /\ \A r \in S \ {s} : d1[r] = d[r]
    <3>1. CASE d1 = b
      BY <1>0, <1>4, <1>8, <3>1
    <3>2. CASE d1 = d
      BY <1>0, <3>2 DEF S
    <3>3. CASE d1 = e
      BY <1>6, <1>8, <3>3
    <3>. QED  BY <1>10, <3>1, <3>2, <3>3
  <2>3. s \in Live(d1) => d1[s].name = e[s].name
    <3>1. s \in Live(b) => d = b
      BY DEF Opened
    <3>. QED  BY <1>0, <1>6, <3>1
  <2>4. a \in Card /\ a.fat = f1 /\ a.next_free = h1 /\ a.dir = d1 /\ a.data = m
    BY <2>1, OnFacts
  <2>. HIDE DEF a
  <2>5. ASSUME far  PROVE Holds(a, Live(d1) \ {s}, cont2)
    <3>1. ASSUME NEW r \in S \ {s}, d[r].start # 0, cont2[d[r].name] # "none",
                 NEW x \in Chain(f1, d[r].start)
          PROVE  m[x] = cont2[d[r].name]
      <4>1. x \in Chain(f, d[r].start)
        BY <1>10, <3>1
      <4>. QED  BY <1>9, <2>5, <3>1, <4>1
    <3>. QED  BY <2>2, <2>4, <3>1 DEF Holds
  <2>6. Live(d1) \ Out(op, s) = Live(d1) /\ op \notin {"rm", "mv"}
    BY DEF Out
  <2>7. Good(a, op, s, e, cont2)
    BY <1>10, <2>2, <2>3, <2>4, <2>5, <2>6 DEF Good, far
  <2>. QED  BY <2>4, <2>7 DEF Safe, G, a
<1>11. \A r \in S \ {s} : /\ Chain(cf, d[r].start) = Chain(f, d[r].start)
                          /\ Chain(g, d[r].start) = Chain(f, d[r].start)
  BY <1>2, <1>7, <1>8
<1>12. Volume(f, h, b, Live(b)) /\ Volume(f, h, d, Live(d)) /\ Volume(f, k, d, Live(d))
       /\ Volume(g, k, d, Live(d)) /\ Volume(g, k, e, Live(e)) /\ Volume(cf, h, b, Live(b))
  BY <1>0, <1>2, <1>3, <1>5, <1>6 DEF S
<1>13. /\ On(cf, h, b, img) \in G /\ On(f, h, b, img) \in G /\ On(f, h, d, img) \in G
       /\ On(f, h, d, m1) \in G /\ On(f, k, d, m1) \in G /\ On(g, k, d, m1) \in G
       /\ On(g, k, e, m1) \in G /\ On(g, k, e, m2) \in G
  BY <1>0, <1>1, <1>5, <1>10, <1>11, <1>12
<1>14. Named(On(f, h, b, img)) \subseteq Named(On(f, h, d, img))
  <2>1. On(f, h, b, img).dir = b /\ On(f, h, d, img).dir = d
    BY DEF On
  <2>2. \A r \in Live(b) : r \in Live(d) /\ r \in Slot /\ d[r].start = b[r].start
    <3>1. \A r \in Live(b) : r \in Live(d) /\ r \in Slot
      BY <1>4 DEF Live, S
    <3>2. s \in Live(b) => d = b
      BY DEF Opened
    <3>. QED  BY <1>0, <3>1, <3>2
  <2>3. \A x \in Named(On(f, h, b, img)) : x \in Named(On(f, h, d, img))
    BY <2>1, <2>2 DEF Named
  <2>. QED  BY <2>3
<1>15. Named(On(g, k, d, m1)) \subseteq Named(On(g, k, e, m1))
  <2>1. On(g, k, d, m1).dir = d /\ On(g, k, e, m1).dir = e
    BY DEF On
  <2>2. \A r \in Live(d) : r \in Live(e) /\ (d[r].start # 0 => e[r].start = d[r].start)
    <3>1. \A r \in S : r \in Slot /\ r \in Live(e) /\ (r # s => e[r].start = d[r].start)
      BY <1>4, <1>6
    <3>2. d[s].start # 0 => e[s].start = d[s].start
      BY <1>5, <1>6
    <3>. QED  BY <3>1, <3>2 DEF S
  <2>3. \A x \in Named(On(g, k, d, m1)) : x \in Named(On(g, k, e, m1))
    BY <2>1, <2>2 DEF Named
  <2>. QED  BY <2>3
<1>16. Leads(On(cf, h, b, img), fs_fflush(f, h, d), On(f, h, d, img), G, keeps)
  BY <1>0, <1>1, <1>13, <1>14, LeadsFlush
<1>17. CASE w.ok \/ op = "save"
  <2>1. Leads(On(f, h, d, img), <<<<"data", m1>>>>, On(f, h, d, m1), G, keeps)
    BY <1>0, <1>1, <1>5, <1>13, LeadsData
  <2>2. Leads(On(f, h, d, m1), fs_close(g, k, e, m2), On(g, k, e, m2), G, keeps)
    BY <1>0, <1>5, <1>6, <1>13, <1>15, LeadsClose
  <2>3. Leads(On(f, h, d, img), <<<<"data", m1>>>> \o fs_close(g, k, e, m2), On(g, k, e, m2), G, keeps)
    BY <2>1, <2>2, LeadsOn
  <2>4. Leads(On(cf, h, b, img), fs_fflush(f, h, d) \o (<<<<"data", m1>>>> \o fs_close(g, k, e, m2)),
              On(g, k, e, m2), G, keeps)
    BY <1>16, <2>3, LeadsOn
  <2>. DEFINE L == Writing(f, h, d, w, e, op)
  <2>5. L = fs_fflush(f, h, d) \o (<<<<"data", m1>>>> \o fs_close(g, k, e, m2))
    BY <1>17 DEF g, k, m1, m2, Writing
  <2>6. Leads(c, L, On(g, k, e, m2), G, keeps)
    BY <1>1, <2>4, <2>5
  <2>. DEFINE a == On(g, k, e, m2)
  <2>7. a.fat = g /\ a.next_free = k /\ a.dir = e /\ a.data = m2
    BY DEF On
  <2>. HIDE DEF a
  <2>8. ASSUME far  PROVE Holds(a, Live(e), cont2)
    <3>1. ASSUME NEW r \in S, e[r].start # 0, cont2[e[r].name] # "none",
                 NEW x \in Chain(g, e[r].start)
          PROVE  m2[x] = cont2[e[r].name]
      <4>1. CASE r # s
        <5>1. r \in S \ {s} /\ e[r] = d[r]
          BY <1>4, <1>6, <3>1, <4>1
        <5>. QED  BY <1>9, <1>11, <2>8, <3>1, <5>1
      <4>2. CASE r = s
        <5>1. e[r].start = w.start /\ e[r].name = n /\ w.ok
          BY <1>5, <1>6, <3>1, <4>2
        <5>2. CASE words # Full
          <6>1. Chain(g, w.start) = {w.start}
            BY <1>5, <5>1 DEF Writes
          <6>. QED  BY <1>5, <3>1, <5>1, <5>2, <6>1 DEF Knows
        <5>3. CASE words = Full
          <6>1. d[s].start # 0 /\ cont2[n] = cont[n]
            BY <3>1, <5>1, <5>3 DEF Knows
          <6>2. s \in Live(b) /\ d = b
            BY <6>1 DEF Opened
          <6>3. m2 = img /\ g = f /\ w.start = d[s].start
            BY <1>5, <5>3, <6>1
          <6>4. b[s].start # 0 /\ b[s].name = n /\ cont[n] # "none"
            BY <1>0, <3>1, <5>1, <6>1, <6>2
          <6>5. \A y \in Chain(cf, b[s].start) : img[y] = cont[n]
            BY <1>1, <2>8, <6>2, <6>4 DEF Holds, img, cf
          <6>. QED  BY <1>2, <3>1, <5>1, <6>1, <6>2, <6>3, <6>5
        <5>. QED  BY <5>2, <5>3
      <4>. QED  BY <4>1, <4>2
    <3>. QED  BY <1>6, <2>7, <3>1 DEF Holds
  <2>9. Target(a, g, k, e, cont2)
    <3>1. g[Root] # Free
      BY <1>5 DEF Volume
    <3>. QED  BY <2>7, <2>8, <3>1 DEF Target, Agree, far
  <2>10. Steady(g, k, e, c, L, op, s, cont2)
    BY <2>6, <2>9 DEF Steady, G, keeps, a
  <2>. QED  BY <1>5, <1>6, <2>10 DEF g, k, S
<1>18. CASE ~(w.ok \/ op = "save")
  <2>1. d[s].start = 0 /\ w.start = 0 /\ k = h
    BY <1>5, <1>18 DEF fs_write, k, Writes
  <2>2. e = d
    <3>1. e[s] = d[s]
      BY <1>0, <2>1 DEF Writes, Started, Directory, Entry
    <3>2. \A r \in Slot : e[r] = d[r]
      BY <1>6, <3>1
    <3>. QED  BY <1>0, <1>6, <3>2 DEF Directory
  <2>. DEFINE L == Writing(f, h, d, w, e, op)
  <2>3. L = fs_fflush(f, h, d) \o <<>>
    BY <1>18 DEF Writing
  <2>4. Leads(On(f, h, d, img), <<>>, On(f, h, d, img), G, keeps)
    BY <1>13, LeadsNowhere
  <2>5. Leads(c, L, On(f, h, d, img), G, keeps)
    <3>1. Leads(On(cf, h, b, img), fs_fflush(f, h, d) \o <<>>, On(f, h, d, img), G, keeps)
      BY <1>16, <2>4, LeadsOn
    <3>. QED  BY <1>1, <2>3, <3>1
  <2>. DEFINE a == On(f, h, d, img)
  <2>6. a.fat = f /\ a.next_free = h /\ a.dir = d /\ a.data = img
    BY DEF On
  <2>. HIDE DEF a
  <2>7. ASSUME far  PROVE Holds(a, Live(e), cont2)
    <3>1. ASSUME NEW r \in S, d[r].start # 0, cont2[d[r].name] # "none",
                 NEW x \in Chain(f, d[r].start)
          PROVE  img[x] = cont2[d[r].name]
      <4>1. r \in S \ {s}
        BY <2>1, <3>1
      <4>. QED  BY <1>9, <2>7, <3>1, <4>1
    <3>. QED  BY <1>6, <2>2, <2>6, <3>1 DEF Holds
  <2>8. Used(g, e, S) = Used(f, d, S)
    BY <1>7, <2>2
  <2>9. Target(a, g, k, e, cont2)
    <3>1. f[Root] # Free
      BY <1>0 DEF Volume
    <3>2. Agree(g, f, Used(g, e, Live(e)))
      BY <1>5, <1>6, <2>8 DEF Agree
    <3>. QED  BY <2>1, <2>2, <2>6, <2>7, <3>1, <3>2 DEF Target, far
  <2>10. Steady(g, k, e, c, L, op, s, cont2)
    BY <2>5, <2>9 DEF Steady, G, keeps, a
  <2>. QED  BY <1>5, <1>6, <2>10 DEF g, k, S
<1>. QED  BY <1>17, <1>18

\* What is known of the card between two commands.
LEMMA BeforeFacts ==
  ASSUME NEW f, NEW h, NEW b, NEW cont, NEW c, Before(f, h, b, cont, c)
  PROVE  /\ f \in Table /\ h \in 1 .. TotalClusters /\ b \in Directory /\ Once(b) /\ Apart(b)
         /\ Volume(f, h, b, Live(b)) /\ Leading(b, Live(b))
         /\ c.fat \in Table /\ c.data \in [Cluster -> Data] /\ c = On(c.fat, h, b, c.data)
         /\ Volume(c.fat, h, b, Live(b))
         /\ Base >= TotalClusters =>
               \A s \in Live(b) : b[s].start # 0 /\ cont[b[s].name] # "none" =>
                   \A x \in Chain(f, b[s].start) : c.data[x] = cont[b[s].name]
<1>1. /\ f \in Table /\ h \in 1 .. TotalClusters /\ b \in Directory /\ Once(b)
      /\ Volume(f, h, b, Live(b)) /\ c \in Card /\ Target(c, f, h, b, cont)
  BY DEF Before
<1>2. Apart(b)
  BY <1>1, OnceIs
<1>3. Leading(b, Live(b))
  BY <1>1 DEF Leading, Live, Directory, Entry
<1>4. /\ c.fat \in Table /\ c.data \in [Cluster -> Data] /\ c = On(c.fat, h, b, c.data)
  BY <1>1, OnFacts DEF Target
<1>5. /\ Volume(c.fat, h, b, Live(b)) /\ c.dir = b
      /\ \A s \in Live(b) : Chain(c.fat, b[s].start) = Chain(f, b[s].start)
  BY <1>1, TargetFacts
<1>6. Base >= TotalClusters => Holds(c, Live(b), cont)
  BY <1>1 DEF Target
<1>. QED  BY <1>1, <1>2, <1>3, <1>4, <1>5, <1>6 DEF Holds

\* A moment of rm or mv, which takes the entry s away.
LEMMA SafeOn ==
  ASSUME NEW f \in Table, NEW h \in 1 .. TotalClusters, NEW d \in Directory, NEW m \in [Cluster -> Data],
         NEW s, Volume(f, h, d, Live(d) \ {s}), Once(d), NEW op \in {"rm", "mv"}, NEW e, NEW cont
  PROVE  On(f, h, d, m) \in Safe(op, s, e, cont)
<1>. DEFINE a == On(f, h, d, m)
<1>1. a \in Card /\ a.fat = f /\ a.next_free = h /\ a.dir = d
  BY OnFacts
<1>. HIDE DEF a
<1>2. Out(op, s) = {s}
  BY DEF Out
<1>. QED  BY <1>1, <1>2 DEF Safe, Good, a

\* The same is known of the files of other names.
Others(cont, cont2, n) == \A r \in Names : r # n => cont2[r] = cont[r]

\* fs_rm.
LEMMA Deleted ==
  ASSUME NEW f, NEW h, NEW b, NEW cont, NEW c, Before(f, h, b, cont, c),
         NEW s \in Live(b), NEW cont2, Others(cont, cont2, b[s].name),
         NEW g, g = Freed(f, b[s].start), NEW e, e = Without(b, s)
  PROVE  /\ e \in Directory /\ Once(e) /\ g \in Table /\ Volume(g, h, e, Live(e))
         /\ Steady(g, h, e, c, fs_close(g, h, e, c.data), "rm", s, cont2)
<1>. DEFINE img == c.data
            cf == c.fat
            S == Live(b)
            R == S \ {s}
            G == Safe("rm", s, e, cont2)
            keeps == "rm" # "rm"
            L == fs_close(g, h, e, img)
<1>1. /\ f \in Table /\ h \in 1 .. TotalClusters /\ b \in Directory /\ Once(b) /\ Apart(b)
      /\ Volume(f, h, b, S) /\ Leading(b, S)
      /\ cf \in Table /\ img \in [Cluster -> Data] /\ c = On(cf, h, b, img)
      /\ Volume(cf, h, b, S)
      /\ Base >= TotalClusters =>
            \A r \in S : b[r].start # 0 /\ cont[b[r].name] # "none" =>
                \A x \in Chain(f, b[r].start) : img[x] = cont[b[r].name]
  BY BeforeFacts
<1>2. s \in Slot /\ S \subseteq Slot /\ s \in S
  BY DEF Live
<1>3. /\ e \in Directory /\ Live(e) = R /\ Once(e) /\ \A r \in R : e[r] = b[r]
  BY <1>1, <1>2, WithoutFacts
<1>. HIDE DEF img, cf, S
<1>4. /\ g \in Table /\ Volume(g, h, b, R)
      /\ \A r \in R : Chain(g, b[r].start) = Chain(f, b[r].start)
  <2>1. b[s].start \in {0} \cup Cluster
    BY <1>1, <1>2 DEF Leading
  <2>2. Volume(f, h, b, S)
    BY <1>1
  <2>3. Freed(f, b[s].start) \in Table /\ Volume(Freed(f, b[s].start), h, b, S \ {s})
    BY <1>1, <1>2, <2>1, <2>2, VolumeFreed
  <2>4. \A r \in S \ {s} : Chain(Freed(f, b[s].start), b[r].start) = Chain(f, b[r].start)
    <3>1. SameChains(f, Freed(f, b[s].start), b, S \ {s})
      BY <1>1, <1>2, <2>1, <2>2, VolumeFreed
    <3>. QED  BY <3>1 DEF SameChains
  <2>. QED  BY <2>3, <2>4
<1>5. Volume(cf, h, b, R)
  <2>1. \A r \in R : b[r].start # 0 => r \in S /\ b[r].start = b[r].start
    OBVIOUS
  <2>. HIDE DEF R
  <2>. QED  BY <1>1, <2>1, VolumeLess
<1>6. Volume(g, h, e, R)
  <2>1. \A r \in R : e[r].start # 0 => r \in R /\ b[r].start = e[r].start
    BY <1>3
  <2>. HIDE DEF R
  <2>. QED  BY <1>4, <2>1, VolumeLess
<1>7. /\ On(cf, h, b, img) \in G /\ On(g, h, b, img) \in G /\ On(g, h, e, img) \in G
  <2>1. Live(b) \ {s} = R /\ Live(e) \ {s} = R
    BY <1>3 DEF S
  <2>. HIDE DEF R, G
  <2>2. On(cf, h, b, img) \in G
    BY <1>1, <1>5, <2>1, SafeOn DEF G
  <2>3. On(g, h, b, img) \in G
    BY <1>1, <1>4, <2>1, SafeOn DEF G
  <2>4. On(g, h, e, img) \in G
    BY <1>1, <1>3, <1>4, <1>6, <2>1, SafeOn DEF G
  <2>. QED  BY <2>2, <2>3, <2>4
<1>. HIDE DEF G, L
<1>8. Leads(c, L, On(g, h, e, img), G, keeps)
  <2>1. Leads(On(cf, h, b, img), fs_close(g, h, e, img), On(g, h, e, img), G, keeps)
    BY <1>1, <1>3, <1>4, <1>7, LeadsClose
  <2>. QED  BY <1>1, <2>1 DEF L
<1>. DEFINE a == On(g, h, e, img)
<1>9. a.fat = g /\ a.next_free = h /\ a.dir = e /\ a.data = img
  BY DEF On
<1>. HIDE DEF a
<1>10. ASSUME Base >= TotalClusters  PROVE Holds(a, Live(e), cont2)
  <2>1. \A r \in R : b[r].name # b[s].name /\ b[r].name \in Names
    BY <1>1, <1>2 DEF Apart, S, Directory, Entry
  <2>2. ASSUME NEW r \in R, e[r].start # 0, cont2[e[r].name] # "none", NEW x \in Chain(g, e[r].start)
        PROVE  img[x] = cont2[e[r].name]
    <3>1. e[r] = b[r] /\ r \in S /\ cont2[b[r].name] = cont[b[r].name]
      BY <1>3, <2>1 DEF Others
    <3>. QED  BY <1>1, <1>4, <1>10, <2>2, <3>1
  <2>. QED  BY <1>3, <1>9, <2>2 DEF Holds
<1>11. Target(a, g, h, e, cont2)
  <2>1. g[Root] # Free
    BY <1>4 DEF Volume
  <2>. QED  BY <1>9, <1>10, <2>1 DEF Target, Agree
<1>12. Steady(g, h, e, c, L, "rm", s, cont2)
  BY <1>8, <1>11 DEF Steady, G, a
<1>. QED  BY <1>3, <1>4, <1>6, <1>12 DEF L, img

\* fs_cat.
LEMMA Closed ==
  ASSUME NEW f, NEW h, NEW b, NEW cont, NEW c, Before(f, h, b, cont, c), NEW s
  PROVE  Steady(f, h, b, c, fs_close(f, h, b, c.data), "cat", s, cont)
<1>. DEFINE img == c.data
            cf == c.fat
            G == Safe("cat", s, b, cont)
            keeps == "cat" # "rm"
            a == On(f, h, b, img)
            L == fs_close(f, h, b, img)
<1>1. /\ f \in Table /\ h \in 1 .. TotalClusters /\ b \in Directory /\ Once(b)
      /\ Volume(f, h, b, Live(b))
      /\ cf \in Table /\ img \in [Cluster -> Data] /\ c = On(cf, h, b, img)
      /\ Volume(cf, h, b, Live(b))
      /\ Base >= TotalClusters =>
            \A r \in Live(b) : b[r].start # 0 /\ cont[b[r].name] # "none" =>
                \A x \in Chain(f, b[r].start) : img[x] = cont[b[r].name]
  BY BeforeFacts
<1>. HIDE DEF img, cf
<1>2. a \in Card /\ a.fat = f /\ a.next_free = h /\ a.dir = b /\ a.data = img
  BY <1>1, OnFacts
<1>. HIDE DEF a, L
<1>3. Base >= TotalClusters => Holds(a, Live(b), cont)
  BY <1>1, <1>2 DEF Holds
<1>4. Target(a, f, h, b, cont)
  <2>1. f[Root] # Free
    BY <1>1 DEF Volume
  <2>. QED  BY <1>2, <1>3, <2>1 DEF Target, Agree
<1>5. \A x \in Card : Target(x, f, h, b, cont) => x \in G
  <2>1. ASSUME NEW x \in Card, Target(x, f, h, b, cont)  PROVE x \in G
    <3>1. x \in Safe("none", s, b, cont)
      BY <1>1, <2>1, TargetFacts
    <3>2. Good(x, "none", s, b, cont)
      BY <3>1 DEF Safe
    <3>3. Good(x, "cat", s, b, cont)
      BY <3>2 DEF Good, Out
    <3>. QED  BY <3>3 DEF Safe
  <2>. QED  BY <2>1
<1>6. c \in Card /\ Target(c, f, h, b, cont)
  BY DEF Before
<1>. HIDE DEF G
<1>7. Leads(c, L, a, G, keeps)
  <2>1. On(cf, h, b, img) \in G /\ On(f, h, b, img) \in G
    BY <1>1, <1>2, <1>4, <1>5, <1>6 DEF a
  <2>2. Leads(On(cf, h, b, img), fs_close(f, h, b, img), On(f, h, b, img), G, keeps)
    BY <1>1, <2>1, LeadsClose
  <2>. QED  BY <1>1, <2>2 DEF L, a
<1>. QED  BY <1>4, <1>7 DEF Steady, G, L, img

\* What was known of src is known of dest, and the same of the files of other names.
Passed(cont, cont2, src, dest) ==
    /\ cont2[dest] = cont[src]
    /\ \A r \in Names : r # src /\ r # dest => cont2[r] = cont[r]

\* fs_mv: the new name, its contents, and then the end of the old name.
LEMMA Moved ==
  ASSUME NEW f, NEW h, NEW b, NEW cont, NEW c, Before(f, h, b, cont, c),
         NEW s \in Live(b), NEW dest \in Names, fs_find(b, dest) = {}, Room(b) # {},
         NEW cont2, Passed(cont, cont2, b[s].name, dest),
         NEW to, to = Min(Room(b)),
         NEW e1, e1 = fs_create_with_attr(b, dest, b[s].kind),
         NEW e2, e2 = Started(e1, to, b[s].start), NEW e3, e3 = Without(e2, s)
  PROVE  /\ e3 \in Directory /\ Once(e3) /\ Volume(f, h, e3, Live(e3))
         /\ Steady(f, h, e3, c, fs_fflush(f, h, e1) \o fs_close(f, h, e2, c.data)
                                                    \o fs_close(f, h, e3, c.data), "mv", s, cont2)
<1>. DEFINE img == c.data
            cf == c.fat
            S == Live(b)
            G == Safe("mv", s, e3, cont2)
            keeps == "mv" # "rm"
            L == fs_fflush(f, h, e1) \o fs_close(f, h, e2, img) \o fs_close(f, h, e3, img)
<1>1. /\ f \in Table /\ h \in 1 .. TotalClusters /\ b \in Directory /\ Once(b) /\ Apart(b)
      /\ Volume(f, h, b, S) /\ Leading(b, S)
      /\ cf \in Table /\ img \in [Cluster -> Data] /\ c = On(cf, h, b, img)
      /\ Volume(cf, h, b, S)
      /\ Base >= TotalClusters =>
            \A r \in S : b[r].start # 0 /\ cont[b[r].name] # "none" =>
                \A x \in Chain(f, b[r].start) : img[x] = cont[b[r].name]
  BY BeforeFacts
<1>2. s \in Slot /\ S \subseteq Slot /\ s \in S /\ b[s].kind \in {"file", "dir"}
      /\ b[s].start \in {0} \cup Cluster
  BY <1>1 DEF Live, Leading
<1>3. /\ to \in Slot /\ to \notin S /\ e1 \in Directory /\ Once(e1)
      /\ e1[to].name = dest /\ e1[to].start = 0
      /\ \A r \in Slot : r # to => e1[r] = b[r]
      /\ Live(e1) = S \cup {to}
      /\ \A r \in S : b[r].name # dest
  BY <1>1, <1>2, Created
<1>4. /\ e2 \in Directory /\ Live(e2) = Live(e1) /\ Once(e2) /\ e2[to].start = b[s].start
      /\ e2[to].name = e1[to].name
      /\ \A r \in Slot : r # to => e2[r] = e1[r]
  <2>1. SameBut(e1, to, e2) /\ e2[to].start = b[s].start
    BY <1>2, <1>3, StartedFacts
  <2>. QED  BY <1>3, <2>1 DEF SameBut
<1>5. /\ e3 \in Directory /\ Live(e3) = Live(e2) \ {s} /\ Once(e3)
      /\ \A r \in Slot : r # s => e3[r] = e2[r]
  BY <1>2, <1>4, WithoutFacts
<1>. HIDE DEF img, cf, S
<1>6. to # s /\ s \in S
  BY <1>2, <1>3
<1>7. /\ e3[to].start = b[s].start /\ e3[to].name = dest
      /\ \A r \in S \ {s} : e1[r] = b[r] /\ e2[r] = b[r] /\ e3[r] = b[r]
      /\ Live(e3) = (S \ {s}) \cup {to}
  BY <1>2, <1>3, <1>4, <1>5, <1>6
<1>8. Volume(cf, h, b, S \ {s}) /\ Volume(f, h, b, S \ {s})
  <2>. DEFINE R == S \ {s}
  <2>1. \A r \in R : b[r].start # 0 => r \in S /\ b[r].start = b[r].start
    OBVIOUS
  <2>. HIDE DEF R
  <2>2. Volume(cf, h, b, R) /\ Volume(f, h, b, R)
    BY <1>1, <2>1, VolumeLess
  <2>. QED  BY <2>2 DEF R
<1>9. Volume(f, h, e1, Live(e1) \ {s})
  <2>. DEFINE R == Live(e1) \ {s}
  <2>1. \A r \in R : e1[r].start # 0 => r \in S /\ b[r].start = e1[r].start
    BY <1>2, <1>3
  <2>. HIDE DEF R
  <2>2. Volume(f, h, e1, R)
    BY <1>1, <2>1, VolumeLess
  <2>. QED  BY <2>2 DEF R
<1>10. Volume(f, h, e3, Live(e3))
  <2>1. PICK m : \A r \in Slot : m[r] = IF r = to THEN s ELSE r
    <3>1. \A r \in Slot : [q \in Slot |-> IF q = to THEN s ELSE q][r] = IF r = to THEN s ELSE r
      OBVIOUS
    <3>. QED  BY <3>1
  <2>2. \A r \in Live(e3) : r \in Slot /\ (r = to \/ (r \in S \ {s}))
    BY <1>2, <1>3, <1>7
  <2>3. \A r \in Live(e3) : m[r] \in S /\ b[m[r]].start = e3[r].start
    BY <1>6, <1>7, <2>1, <2>2
  <2>4. \A r, q \in Live(e3) : r # q => m[r] # m[q]
    BY <1>6, <2>1, <2>2
  <2>5. Renames(m, e3, Live(e3), b, S)
    BY <2>3, <2>4 DEF Renames
  <2>. QED  BY <1>1, <2>5, VolumeRenamed
<1>11. Volume(f, h, e2, Live(e2) \ {s}) /\ Volume(f, h, e3, Live(e3) \ {s})
  <2>. DEFINE R == Live(e3)
  <2>1. \A r \in R : e2[r].start # 0 => r \in R /\ e3[r].start = e2[r].start
    BY <1>2, <1>3, <1>5, <1>7
  <2>2. Live(e2) \ {s} = R /\ Live(e3) \ {s} = R
    BY <1>5
  <2>3. Volume(f, h, e3, R)
    BY <1>10
  <2>. HIDE DEF R
  <2>4. Volume(f, h, e2, R)
    BY <2>1, <2>3, VolumeLess
  <2>. QED  BY <2>2, <2>3, <2>4
<1>12. /\ On(cf, h, b, img) \in G /\ On(f, h, b, img) \in G /\ On(f, h, e1, img) \in G
       /\ On(f, h, e2, img) \in G /\ On(f, h, e3, img) \in G
  <2>. HIDE DEF G
  <2>1. Volume(cf, h, b, Live(b) \ {s}) /\ Volume(f, h, b, Live(b) \ {s})
    BY <1>8 DEF S
  <2>2. On(cf, h, b, img) \in G /\ On(f, h, b, img) \in G
    BY <1>1, <2>1, SafeOn DEF G
  <2>3. On(f, h, e1, img) \in G
    BY <1>1, <1>3, <1>9, SafeOn DEF G
  <2>4. On(f, h, e2, img) \in G /\ On(f, h, e3, img) \in G
    BY <1>1, <1>4, <1>5, <1>11, SafeOn DEF G
  <2>. QED  BY <2>2, <2>3, <2>4
<1>13. /\ Named(On(f, h, b, img)) \subseteq Named(On(f, h, e1, img))
       /\ Named(On(f, h, e1, img)) \subseteq Named(On(f, h, e2, img))
       /\ Named(On(f, h, e2, img)) \subseteq Named(On(f, h, e3, img))
  <2>1. \A d : On(f, h, d, img).dir = d
    BY DEF On
  <2>2. \A r \in Live(b) : r \in Live(e1) /\ e1[r].start = b[r].start
    BY <1>2, <1>3 DEF S
  <2>3. \A r \in Live(e1) : r \in Live(e2) /\ (e1[r].start # 0 => e2[r].start = e1[r].start)
    BY <1>2, <1>3, <1>4
  <2>4. \A r \in Live(e2) : \E q \in Live(e3) : e3[q].start = e2[r].start
    <3>1. ASSUME NEW r \in Live(e2)  PROVE \E q \in Live(e3) : e3[q].start = e2[r].start
      <4>1. CASE r = s
        <5>1. to \in Live(e3) /\ e3[to].start = e2[s].start
          BY <1>2, <1>3, <1>4, <1>6, <1>7
        <5>. QED  BY <4>1, <5>1
      <4>2. CASE r # s
        <5>1. r \in Live(e3) /\ r \in Slot
          BY <1>2, <1>3, <1>4, <1>5, <3>1, <4>2
        <5>. QED  BY <1>5, <4>2, <5>1
      <4>. QED  BY <4>1, <4>2
    <3>. QED  BY <3>1
  <2>5. \A x \in Named(On(f, h, b, img)) : x \in Named(On(f, h, e1, img))
    BY <2>1, <2>2 DEF Named
  <2>6. \A x \in Named(On(f, h, e1, img)) : x \in Named(On(f, h, e2, img))
    BY <2>1, <2>3 DEF Named
  <2>7. \A x \in Named(On(f, h, e2, img)) : x \in Named(On(f, h, e3, img))
    BY <2>1, <2>4 DEF Named
  <2>. QED  BY <2>5, <2>6, <2>7
<1>. HIDE DEF G, keeps, L
<1>14. Leads(c, L, On(f, h, e3, img), G, keeps)
  <2>1. Leads(On(cf, h, b, img), fs_fflush(f, h, e1), On(f, h, e1, img), G, keeps)
    BY <1>1, <1>3, <1>12, <1>13, LeadsFlush
  <2>2. Leads(On(f, h, e1, img), fs_close(f, h, e2, img), On(f, h, e2, img), G, keeps)
    BY <1>1, <1>3, <1>4, <1>12, <1>13, LeadsClose
  <2>3. Leads(On(f, h, e2, img), fs_close(f, h, e3, img), On(f, h, e3, img), G, keeps)
    BY <1>1, <1>4, <1>5, <1>12, <1>13, LeadsClose
  <2>4. Leads(On(cf, h, b, img), fs_fflush(f, h, e1) \o fs_close(f, h, e2, img),
              On(f, h, e2, img), G, keeps)
    BY <2>1, <2>2, LeadsOn
  <2>5. Leads(On(cf, h, b, img),
              (fs_fflush(f, h, e1) \o fs_close(f, h, e2, img)) \o fs_close(f, h, e3, img),
              On(f, h, e3, img), G, keeps)
    BY <2>3, <2>4, LeadsOn
  <2>. QED  BY <1>1, <2>5 DEF L
<1>. DEFINE a == On(f, h, e3, img)
<1>15. a.fat = f /\ a.next_free = h /\ a.dir = e3 /\ a.data = img
  BY DEF On
<1>. HIDE DEF a
<1>16. ASSUME Base >= TotalClusters  PROVE Holds(a, Live(e3), cont2)
  <2>1. \A r \in S \ {s} : b[r].name # b[s].name /\ b[r].name # dest /\ b[r].name \in Names
    BY <1>1, <1>2, <1>3 DEF Apart, S, Directory, Entry
  <2>2. ASSUME NEW r \in Live(e3), e3[r].start # 0, cont2[e3[r].name] # "none",
               NEW x \in Chain(f, e3[r].start)
        PROVE  img[x] = cont2[e3[r].name]
    <3>1. CASE r = to
      BY <1>1, <1>2, <1>7, <1>16, <2>2, <3>1 DEF Passed
    <3>2. CASE r # to
      <4>1. r \in S \ {s} /\ e3[r] = b[r] /\ cont2[b[r].name] = cont[b[r].name]
        BY <1>7, <2>1, <2>2, <3>2 DEF Passed
      <4>. QED  BY <1>1, <1>16, <2>2, <4>1
    <3>. QED  BY <3>1, <3>2
  <2>. QED  BY <1>15, <2>2 DEF Holds
<1>17. Target(a, f, h, e3, cont2)
  <2>1. f[Root] # Free
    BY <1>1 DEF Volume
  <2>. QED  BY <1>15, <1>16, <2>1 DEF Target, Agree
<1>18. Steady(f, h, e3, c, L, "mv", s, cont2)
  BY <1>14, <1>17 DEF Steady, G, keeps, a
<1>. QED  BY <1>5, <1>10, <1>18 DEF L, img

-----------------------------------------------------------------------------
(* The system *)

Command == [op : {"none", "save", "mkdir", "rm", "mv", "cat"}, slot : Slot]
Content == [Names -> Data \cup {"none"}]

\* The memory is a volume, and what is left to be transferred leads the card to it.
IInv ==
    /\ TypeOK
    /\ Volume(fat, next_free, dir, Live(dir))
    /\ Once(dir)
    /\ todo = <<>> => command = NoCommand
    /\ Steady(fat, next_free, dir, card, todo, command.op, command.slot, content)

LEMMA TypeFacts ==
  TypeOK <=> /\ fat \in Table /\ next_free \in 1 .. TotalClusters /\ dir \in Directory /\ card \in Card
             /\ \A i \in DOMAIN todo : todo[i][1] \in Fields
             /\ command \in Command /\ content \in Content
BY DEF TypeOK, Table, Directory, Card, Fields, Command, Content

\* Between two commands nothing is left to be transferred.
LEMMA Between ==
  ASSUME IInv, Ready
  PROVE  Before(fat, next_free, dir, content, card)
<1>1. Steady(fat, next_free, dir, card, <<>>, command.op, command.slot, content)
  BY DEF IInv, Ready
<1>2. PICK e : /\ Leads(card, <<>>, e, Safe(command.op, command.slot, dir, content), command.op # "rm")
               /\ Target(e, fat, next_free, dir, content)
  BY <1>1 DEF Steady
<1>3. e = card
  BY <1>2, LeadsNowhere
<1>4. fat \in Table /\ next_free \in 1 .. TotalClusters /\ dir \in Directory /\ card \in Card
  BY TypeFacts DEF IInv
<1>. QED  BY <1>2, <1>3, <1>4 DEF Before, IInv

\* A command, or one transfer of it, that leaves transfers which lead to the memory.
LEMMA Ends ==
  ASSUME fat' \in Table, next_free' \in 1 .. TotalClusters, dir' \in Directory, content' \in Content,
         Volume(fat', next_free', dir', Live(dir')), Once(dir'),
         NEW op \in {"none", "save", "mkdir", "rm", "mv", "cat"}, NEW s \in Slot, NEW L,
         Steady(fat', next_free', dir', card', L, op, s, content'),
         todo' = Due(card', L),
         command' = IF todo' = <<>> THEN NoCommand ELSE [op |-> op, slot |-> s]
  PROVE  IInv'
<1>1. 1 \in Slot
  BY ConstantsAssumption DEF Slot
<1>2. command' \in Command /\ NoCommand.op = "none" /\ NoCommand.slot = 1
  BY <1>1 DEF Command, NoCommand
<1>3. Steady(fat', next_free', dir', card', todo', command'.op, command'.slot, content')
  <2>1. CASE todo' # <<>>
    <3>1. Steady(fat', next_free', dir', card', Due(card', L), op, s, content')
      BY <2>1, SteadyDue
    <3>2. command'.op = op /\ command'.slot = s
      BY <2>1
    <3>. QED  BY <3>1, <3>2
  <2>2. CASE todo' = <<>>
    <3>1. Steady(fat', next_free', dir', card', <<>>, "none", 1, content')
      BY <2>2, SteadyDue
    <3>. QED  BY <1>2, <2>2, <3>1
  <2>. QED  BY <2>1, <2>2
<1>4. card' \in Card /\ \A i \in DOMAIN todo' : todo'[i][1] \in Fields
  <2>1. PICK e : Leads(card', todo', e, Safe(command'.op, command'.slot, dir', content'),
                       command'.op # "rm")
    BY <1>3 DEF Steady
  <2>2. todo' \in Seq(Transfers)
    BY <2>1 DEF Leads
  <2>3. card' \in Safe(command'.op, command'.slot, dir', content')
    BY <2>1, LeadsEnds
  <2>4. \A i \in DOMAIN todo' : todo'[i] \in Transfers
    BY <2>2, LenProperties, ElementOfSeq
  <2>5. \A t \in Transfers : t[1] \in Fields
    BY DEF Transfers
  <2>. QED  BY <2>3, <2>4, <2>5 DEF Safe
<1>5. TypeOK'
  BY <1>2, <1>4, TypeFacts DEF TypeOK, Table, Directory, Card, Fields, Command, Content
<1>6. todo' = <<>> => command' = NoCommand
  OBVIOUS
<1>. QED  BY <1>3, <1>5, <1>6 DEF IInv

\* An entry that is found, or created.
LEMMA OpenedFacts ==
  ASSUME NEW b \in Directory, Once(b), NEW n \in Names, fs_find(b, n) # {} \/ Room(b) # {},
         NEW attr \in {"file", "dir"}, NEW d,
         d = IF fs_find(b, n) # {} THEN b ELSE fs_create_with_attr(b, n, attr),
         NEW s \in fs_find(d, n)
  PROVE  Opened(b, d, s, n) /\ (d[s].start # 0 => s \in fs_find(b, n) /\ d = b)
<1>1. CASE fs_find(b, n) # {}
  <2>1. d = b
    BY <1>1
  <2>2. s \in Live(b) /\ b[s].name = n
    BY <2>1, OnceIs
  <2>3. s \in Slot /\ Live(b) = Live(b) \cup {s}
    BY <2>2 DEF Live
  <2>. QED  BY <2>1, <2>2, <2>3 DEF Opened
<1>2. CASE fs_find(b, n) = {}
  <2>. DEFINE a == fs_create_with_attr(b, n, attr)
              t == Min(Room(b))
  <2>1. /\ t \in Slot /\ t \notin Live(b) /\ a \in Directory /\ Once(a)
        /\ a[t].name = n /\ a[t].start = 0
        /\ \A r \in Slot : r # t => a[r] = b[r]
        /\ Live(a) = Live(b) \cup {t} /\ fs_find(a, n) = {t}
    BY <1>2, Created
  <2>2. d = a
    BY <1>2
  <2>. HIDE DEF a, t
  <2>3. s = t
    BY <2>1, <2>2
  <2>. QED  BY <2>1, <2>2, <2>3 DEF Opened
<1>. QED  BY <1>1, <1>2

\* A chain of one cluster at most is that of its first one.
LEMMA ShortChain ==
  ASSUME NEW f, NEW c \in Cluster, Cardinality(Chain(f, c)) <= 1
  PROVE  Chain(f, c) = {c}
<1>1. IsFiniteSet(Cluster)
  BY PlaceFacts, FS_Interval DEF Cluster
<1>2. IsFiniteSet(Chain(f, c)) /\ c \in Chain(f, c)
  BY <1>1, ChainFacts, FS_Subset
<1>3. ASSUME NEW x \in Chain(f, c), x # c  PROVE FALSE
  <2>. DEFINE C == Chain(f, c)
              D == {c, x}
  <2>1. D \subseteq C /\ IsFiniteSet(C)
    BY <1>2, <1>3
  <2>2. Cardinality(D) = 2
    <3>1. D = {c} \cup {x} /\ x \notin {c}
      BY <1>3
    <3>2. IsFiniteSet({c}) /\ Cardinality({c}) = 1
      BY FS_Singleton
    <3>. HIDE DEF D
    <3>3. Cardinality({c} \cup {x}) = Cardinality({c}) + 1
      BY <3>1, <3>2, FS_AddElement
    <3>. QED  BY <3>1, <3>2, <3>3
  <2>. HIDE DEF C, D
  <2>3. Cardinality(D) <= Cardinality(C) /\ Cardinality(D) \in Nat /\ Cardinality(C) \in Nat
    BY <2>1, FS_Subset, FS_CardinalityType
  <2>. QED  BY <2>2, <2>3 DEF C
<1>. QED  BY <1>2, <1>3

\* save and mkdir.
LEMMA CreateAndWriteSafe ==
  ASSUME IInv, Ready, NEW op \in {"save", "mkdir"}, NEW n \in Names, NEW attr \in {"file", "dir"},
         NEW words \in Texts \cup {Full, "dots"}, fs_find(dir, n) # {} \/ Room(dir) # {},
         \A s \in fs_find(dir, n) : Cardinality(Chain(fat, dir[s].start)) <= 1,
         CreateAndWrite(op, n, attr, words)
  PROVE  IInv'
<1>. DEFINE d == IF fs_find(dir, n) # {} THEN dir ELSE fs_create_with_attr(dir, n, attr)
            done(s, w) ==
                /\ fat' = w.fat /\ next_free' = w.next_free
                /\ dir' = [d EXCEPT ![s].start = w.start]
                /\ todo' = Due(card,
                       fs_fflush(fat, next_free, d) \o
                       (IF w.ok \/ op = "save"
                        THEN <<<<"data", w.erased>>>>
                               \o fs_close(w.fat, w.next_free, [d EXCEPT ![s].start = w.start], w.data)
                        ELSE <<>>))
                /\ content' = [content EXCEPT ![n] =
                                  IF w.ok /\ words # Full THEN words
                                  ELSE IF d[s].start = 0 THEN "none" ELSE @]
                /\ Start(op, s) /\ card' = card
<1>0. PICK s \in fs_find(d, n) :
        \E v \in {fs_write(fat, next_free, card.data, d[s].start, words)} : done(s, v)
  BY DEF CreateAndWrite
<1>. DEFINE w == fs_write(fat, next_free, card.data, d[s].start, words)
<1>1. done(s, w)
  BY <1>0
<1>. HIDE DEF w
<1>2. /\ fat \in Table /\ next_free \in 1 .. TotalClusters /\ dir \in Directory /\ content \in Content
      /\ Once(dir)
  BY TypeFacts DEF IInv
<1>3. Before(fat, next_free, dir, content, card)
  BY Between
<1>4. Opened(dir, d, s, n) /\ (d[s].start # 0 => s \in fs_find(dir, n) /\ d = dir)
  BY <1>1, <1>2, OpenedFacts
<1>. HIDE DEF d
<1>5. s \in Slot /\ d \in Directory
  BY <1>4 DEF Opened
<1>6. d[s].start # 0 => Chain(fat, d[s].start) = {d[s].start}
  <2>1. d[s].start # 0 => d[s].start \in Cluster
    BY <1>5 DEF Directory, Entry
  <2>. QED  BY <1>4, <2>1, ShortChain
<1>7. dir' = Started(d, s, w.start)
  BY <1>1 DEF Started
<1>8. Writes(fat, next_free, card, d, s, words, w, dir')
  BY <1>1, <1>6, <1>7 DEF Writes, w
<1>9. Knows(content, content', w, words, n, d[s].start) /\ content' \in Content
  <2>1. words # Full => words \in Data
    BY DEF Data, Full
  <2>2. content' = [content EXCEPT ![n] = IF w.ok /\ words # Full THEN words
                                          ELSE IF d[s].start = 0 THEN "none" ELSE content[n]]
    BY <1>1
  <2>. HIDE DEF Data
  <2>3. content' \in Content
    BY <1>2, <2>1, <2>2 DEF Content
  <2>. QED  BY <1>2, <2>2, <2>3 DEF Knows, Content
<1>10. todo' = Due(card, Writing(fat, next_free, d, w, dir', op))
  BY <1>1 DEF Writing
<1>11. /\ dir' \in Directory /\ Once(dir') /\ Volume(fat', next_free', dir', Live(dir'))
       /\ fat' \in Table /\ next_free' \in 1 .. TotalClusters
       /\ Steady(fat', next_free', dir', card, Writing(fat, next_free, d, w, dir', op), op, s, content')
  <2>1. /\ dir' \in Directory /\ Once(dir') /\ Volume(w.fat, w.next_free, dir', Live(dir'))
        /\ w.fat \in Table /\ w.next_free \in 1 .. TotalClusters
        /\ Steady(w.fat, w.next_free, dir', card, Writing(fat, next_free, d, w, dir', op), op, s, content')
    BY <1>3, <1>4, <1>8, <1>9, Wrote
  <2>. QED  BY <1>1, <2>1
<1>. QED  BY <1>1, <1>5, <1>9, <1>10, <1>11, Ends DEF Start

LEMMA SaveSafe ==
  ASSUME IInv, NEW n \in Names, NEW words \in Texts \cup {Full}, Save(n, words)
  PROVE  IInv'
BY CreateAndWriteSafe DEF Save

LEMMA MkdirSafe ==
  ASSUME IInv, NEW n \in Names, fs_mkdir(n)
  PROVE  IInv'
BY CreateAndWriteSafe DEF fs_mkdir

LEMMA RmSafe ==
  ASSUME IInv, NEW n \in Names, fs_rm(n)
  PROVE  IInv'
<1>1. PICK s \in fs_find(dir, n) :
        /\ fat' = Freed(fat, dir[s].start) /\ dir' = [dir EXCEPT ![s] = Removed]
        /\ todo' = Due(card, fs_close(fat', next_free, dir', card.data))
        /\ Start("rm", s)
  BY DEF fs_rm
<1>2. /\ content' = [content EXCEPT ![n] = "none"] /\ next_free' = next_free /\ card' = card /\ Ready
  BY DEF fs_rm
<1>3. /\ next_free \in 1 .. TotalClusters /\ dir \in Directory /\ content \in Content
  BY TypeFacts DEF IInv
<1>4. Before(fat, next_free, dir, content, card)
  BY <1>2, Between
<1>5. s \in Live(dir) /\ dir[s].name = n /\ s \in Slot
  BY OnceIs DEF Live
<1>6. content' \in Content /\ Others(content, content', dir[s].name)
  BY <1>2, <1>3, <1>5 DEF Content, Others
<1>7. dir' = Without(dir, s)
  BY <1>1 DEF Without
<1>8. /\ dir' \in Directory /\ Once(dir') /\ fat' \in Table /\ Volume(fat', next_free, dir', Live(dir'))
      /\ Steady(fat', next_free, dir', card, fs_close(fat', next_free, dir', card.data), "rm", s, content')
  BY <1>1, <1>4, <1>5, <1>6, <1>7, Deleted
<1>. QED  BY <1>1, <1>2, <1>3, <1>5, <1>6, <1>8, Ends DEF Start

LEMMA CatSafe ==
  ASSUME IInv, NEW n \in Names, fs_cat(n)
  PROVE  IInv'
<1>1. PICK s \in fs_find(dir, n) : Start("cat", s)
  BY DEF fs_cat
<1>2. /\ todo' = Due(card, fs_close(fat, next_free, dir, card.data)) /\ Ready
      /\ fat' = fat /\ next_free' = next_free /\ dir' = dir /\ card' = card /\ content' = content
  BY DEF fs_cat, memory
<1>3. /\ fat \in Table /\ next_free \in 1 .. TotalClusters /\ dir \in Directory /\ content \in Content
      /\ Volume(fat, next_free, dir, Live(dir)) /\ Once(dir)
  BY TypeFacts DEF IInv
<1>4. s \in Slot
  BY OnceIs DEF Live
<1>5. Steady(fat, next_free, dir, card, fs_close(fat, next_free, dir, card.data), "cat", s, content)
  BY <1>2, Between, Closed
<1>. QED  BY <1>1, <1>2, <1>3, <1>4, <1>5, Ends DEF Start

LEMMA MvSafe ==
  ASSUME IInv, NEW src \in Names, NEW dest \in Names, fs_mv(src, dest)
  PROVE  IInv'
<1>1. PICK s \in fs_find(dir, src) :
        LET m == Moves(dir, s, dest)
        IN  /\ dir' = m[3]
            /\ todo' = Due(card, fs_fflush(fat, next_free, m[1])
                                 \o fs_close(fat, next_free, m[2], card.data)
                                 \o fs_close(fat, next_free, m[3], card.data))
            /\ Start("mv", s)
  BY DEF fs_mv
<1>2. /\ content' = [content EXCEPT ![dest] = content[src], ![src] = "none"]
      /\ fat' = fat /\ next_free' = next_free /\ card' = card /\ Ready
      /\ fs_find(dir, dest) = {} /\ Room(dir) # {}
  BY DEF fs_mv
<1>3. /\ next_free \in 1 .. TotalClusters /\ dir \in Directory /\ content \in Content
      /\ fat \in Table
  BY TypeFacts DEF IInv
<1>4. Before(fat, next_free, dir, content, card)
  BY <1>2, Between
<1>5. s \in Live(dir) /\ dir[s].name = src /\ s \in Slot /\ src # dest
  BY <1>1, <1>2, OnceIs DEF Live
<1>6. content' \in Content /\ Passed(content, content', dir[s].name, dest)
  <2>1. "none" \in Data \cup {"none"}
    OBVIOUS
  <2>. HIDE DEF Data
  <2>. QED  BY <1>2, <1>3, <1>5, <2>1 DEF Content, Passed
<1>. DEFINE to == Min(Room(dir))
            e1 == fs_create_with_attr(dir, dest, dir[s].kind)
            e2 == Started(e1, to, dir[s].start)
            e3 == Without(e2, s)
            L == fs_fflush(fat, next_free, e1) \o fs_close(fat, next_free, e2, card.data)
                                               \o fs_close(fat, next_free, e3, card.data)
<1>7. /\ Moves(dir, s, dest)[1] = e1 /\ Moves(dir, s, dest)[2] = e2 /\ Moves(dir, s, dest)[3] = e3
  BY DEF Moves, Started, Without
<1>8. dir' = e3 /\ todo' = Due(card, L)
  BY <1>1, <1>7
<1>9. /\ e3 \in Directory /\ Once(e3) /\ Volume(fat, next_free, e3, Live(e3))
      /\ Steady(fat, next_free, e3, card, L, "mv", s, content')
  <2>. HIDE DEF e1, e2, e3, to
  <2>1. /\ to = Min(Room(dir)) /\ e1 = fs_create_with_attr(dir, dest, dir[s].kind)
        /\ e2 = Started(e1, to, dir[s].start) /\ e3 = Without(e2, s)
    BY DEF e1, e2, e3, to
  <2>. QED  BY <1>2, <1>4, <1>5, <1>6, <2>1, Moved
<1>. HIDE DEF e1, e2, e3, to, L
<1>10. Steady(fat', next_free', dir', card', L, "mv", s, content')
  BY <1>2, <1>8, <1>9
<1>. QED  BY <1>1, <1>2, <1>3, <1>5, <1>6, <1>8, <1>9, <1>10, Ends DEF Start

\* One transfer.
LEMMA TransferSafe ==
  ASSUME IInv, Transfer
  PROVE  IInv' /\ (command.op # "rm" => Named(card) \subseteq Named(card'))
<1>1. /\ todo # <<>> /\ card' = Put(card, Head(todo)) /\ todo' = Due(card', Tail(todo))
      /\ command' = IF todo' = <<>> THEN NoCommand ELSE command
      /\ fat' = fat /\ next_free' = next_free /\ dir' = dir /\ content' = content
  BY DEF Transfer, memory, Put
<1>2. /\ next_free \in 1 .. TotalClusters /\ dir \in Directory /\ content \in Content
      /\ fat \in Table /\ command \in Command
      /\ Volume(fat, next_free, dir, Live(dir)) /\ Once(dir)
  BY TypeFacts DEF IInv
<1>. DEFINE G == Safe(command.op, command.slot, dir, content)
            keeps == command.op # "rm"
<1>3. PICK e : Leads(card, todo, e, G, keeps) /\ Target(e, fat, next_free, dir, content)
  BY DEF IInv, Steady
<1>. HIDE DEF G
<1>4. /\ Leads(card', Tail(todo), e, G, keeps)
      /\ keeps => Named(card) \subseteq Named(card')
  BY <1>1, <1>3, LeadsTail
<1>5. Steady(fat', next_free', dir', card', Tail(todo), command.op, command.slot, content')
  BY <1>1, <1>3, <1>4 DEF Steady, G
<1>6. /\ command.op \in {"none", "save", "mkdir", "rm", "mv", "cat"} /\ command.slot \in Slot
      /\ command = [op |-> command.op, slot |-> command.slot]
  BY <1>2 DEF Command
<1>7. IInv'
  BY <1>1, <1>2, <1>5, <1>6, Ends
<1>. QED  BY <1>4, <1>7

\* The power goes, and the system starts from what the card holds.
LEMMA RestartSafe ==
  ASSUME IInv, init_fat
  PROVE  IInv'
<1>1. /\ command.op \notin {"rm", "mv"}
      /\ fat' = card.fat /\ next_free' = card.next_free /\ dir' = card.dir
      /\ todo' = <<>> /\ command' = NoCommand /\ card' = card
      /\ content' = IF Ready THEN content
                    ELSE [n \in Names |-> IF n = dir[command.slot].name THEN "none" ELSE content[n]]
  BY DEF init_fat
<1>2. /\ next_free \in 1 .. TotalClusters /\ dir \in Directory /\ content \in Content
      /\ fat \in Table /\ command \in Command /\ card \in Card
      /\ Volume(fat, next_free, dir, Live(dir)) /\ Once(dir)
  BY TypeFacts DEF IInv
<1>3. /\ card.fat \in Table /\ card.next_free \in 1 .. TotalClusters /\ card.dir \in Directory
  BY <1>2, OnFacts
<1>4. card \in Safe(command.op, command.slot, dir, content)
  <2>1. PICK e : Leads(card, todo, e, Safe(command.op, command.slot, dir, content), command.op # "rm")
    BY DEF IInv, Steady
  <2>. QED  BY <2>1, LeadsEnds
<1>5. /\ Volume(card.fat, card.next_free, card.dir, Live(card.dir)) /\ Once(card.dir)
      /\ command.slot \in Live(card.dir) => card.dir[command.slot].name = dir[command.slot].name
      /\ Base >= TotalClusters => Holds(card, Live(card.dir) \ {command.slot}, content)
  <2>1. Good(card, command.op, command.slot, dir, content)
    BY <1>4 DEF Safe
  <2>2. Live(card.dir) \ Out(command.op, command.slot) = Live(card.dir)
    BY <1>1 DEF Out
  <2>. QED  BY <1>1, <2>1, <2>2 DEF Good
<1>6. \A s \in Live(card.dir) : card.dir[s].name \in Names
  BY <1>3 DEF Live, Directory, Entry
<1>7. content' \in Content
  <2>. HIDE DEF Data
  <2>. QED  BY <1>1, <1>2 DEF Content
<1>8. ASSUME Base >= TotalClusters  PROVE Holds(card, Live(card.dir), content')
  <2>1. CASE Ready
    <3>1. Target(card, fat, next_free, dir, content)
      BY <2>1, Between DEF Before
    <3>. QED  BY <1>1, <1>8, <2>1, <3>1 DEF Target
  <2>2. CASE ~Ready
    <3>1. \A n \in Names : content'[n] = IF n = dir[command.slot].name THEN "none" ELSE content[n]
      BY <1>1, <2>2
    <3>. QED  BY <1>5, <1>6, <1>8, <3>1 DEF Holds
  <2>. QED  BY <2>1, <2>2
<1>9. Target(card, card.fat, card.next_free, card.dir, content')
  <2>1. card.fat[Root] # Free
    BY <1>5 DEF Volume
  <2>. QED  BY <1>8, <2>1 DEF Target, Agree
<1>10. Steady(fat', next_free', dir', card', todo', command'.op, command'.slot, content')
  <2>1. Steady(card.fat, card.next_free, card.dir, card, <<>>, "none", 1, content')
    BY <1>2, <1>3, <1>5, <1>9, SteadyNowhere
  <2>2. command'.op = "none" /\ command'.slot = 1
    BY <1>1 DEF NoCommand
  <2>. QED  BY <1>1, <2>1, <2>2
<1>11. TypeOK'
  <2>1. 1 \in Slot
    BY ConstantsAssumption DEF Slot
  <2>2. command' \in Command
    BY <1>1, <2>1 DEF Command, NoCommand
  <2>3. \A i \in DOMAIN todo' : todo'[i][1] \in Fields
    BY <1>1
  <2>. QED  BY <1>1, <1>2, <1>3, <1>7, <2>2, <2>3
            DEF TypeOK, Table, Directory, Card, Fields, Command, Content
<1>12. Volume(fat', next_free', dir', Live(dir')) /\ Once(dir')
  BY <1>1, <1>5
<1>. QED  BY <1>1, <1>10, <1>11, <1>12 DEF IInv

\* The formatted card with the kernel image.
LEMMA InitSafe ==
  ASSUME Init
  PROVE  IInv
<1>1. /\ fat = Formatted /\ next_free = 4 /\ dir = FirstDir /\ todo = <<>> /\ command = NoCommand
      /\ card = On(Formatted, 4, FirstDir, [c \in Cluster |-> IF c \in {3, 4} THEN "image" ELSE "old"])
      /\ content = [n \in Names |-> IF n = Kernel THEN "image" ELSE "none"]
  BY DEF Init, On
<1>2. /\ TotalClusters \in Nat /\ TotalClusters >= 4 /\ Cluster = 2 .. TotalClusters + 1
      /\ Root = 2 /\ End \notin Cluster /\ Free \notin Cluster /\ Free # End /\ Free = 0
      /\ 1 \in Slot /\ Kernel \in Names /\ Slot \subseteq Nat
  BY PlaceFacts, ConstantsAssumption DEF Cluster, Root, Slot, Free
<1>3. 2 \in Cluster /\ 3 \in Cluster /\ 4 \in Cluster /\ 5 \in Cluster /\ 4 \in 1 .. TotalClusters
  BY <1>2
<1>. DEFINE img == [c \in Cluster |-> IF c \in {3, 4} THEN "image" ELSE "old"]
            F == Formatted
            D == FirstDir
<1>4. /\ F \in Table /\ F[2] = End /\ F[3] = 4 /\ F[4] = End /\ F[5] = Free
      /\ img \in [Cluster -> Data] /\ img[3] = "image" /\ img[4] = "image"
  <2>1. F = [c \in Cluster |-> IF c = 2 THEN End ELSE IF c = 3 THEN 4 ELSE IF c = 4 THEN End ELSE Free]
    BY <1>2 DEF Formatted
  <2>2. "image" \in Data /\ "old" \in Data
    BY DEF Data
  <2>. HIDE DEF F, Data
  <2>. QED  BY <1>2, <1>3, <2>1, <2>2 DEF Table
<1>5. /\ D \in Directory /\ D[1].kind = "file" /\ D[1].name = Kernel /\ D[1].start = 3
      /\ \A s \in Slot : s # 1 => D[s] = NoEntry /\ D[s].kind = "none"
  BY <1>2, <1>3 DEF FirstDir, NoEntry, Directory, Entry
<1>6. \A s \in Live(D) : s = 1
  BY <1>5 DEF Live
<1>7. 1 \in Live(D)
  BY <1>2, <1>5 DEF Live
<1>. HIDE DEF F, D, img
<1>8. Live(D) = {1}
  BY <1>6, <1>7
<1>9. Once(D)
  <2>1. Apart(D)
    BY <1>6 DEF Apart
  <2>2. Packed(D)
    BY <1>2, <1>6 DEF Packed, Slot
  <2>. QED  BY <2>1, <2>2, OnceIs
<1>10. Chain(F, 3) = {3, 4} /\ Walk(F, 3)[TotalClusters] = End
  <2>. DEFINE m == TotalClusters
              w == Walk(F, 3)
  <2>1. w[0] = 3 /\ \A k \in 0 .. m - 1 : w[k + 1] = Next_in(F, w[k])
    BY WalkFacts
  <2>2. 0 \in 0 .. m - 1 /\ 1 \in 0 .. m - 1 /\ 0 + 1 = 1 /\ 1 + 1 = 2 /\ m \in 2 .. m
        /\ 0 \in 0 .. m /\ 1 \in 0 .. m /\ 2 \in 0 .. m
    BY <1>2
  <2>3. w[1] = 4
    BY <1>3, <1>4, <2>1, <2>2 DEF Next_in
  <2>4. w[2] = End
    BY <1>3, <1>4, <2>1, <2>2, <2>3 DEF Next_in
  <2>5. \A k \in 2 .. m : w[k] = End
    BY <1>2, <2>2, <2>4, WalkStays
  <2>6. \A k \in 0 .. m : k = 0 \/ k = 1 \/ k \in 2 .. m
    BY <1>2
  <2>7. \A k \in 0 .. m : w[k] = 3 \/ w[k] = 4 \/ w[k] = End
    BY <2>1, <2>3, <2>5, <2>6
  <2>8. Chain(F, 3) = {w[k] : k \in 0 .. m} \cap Cluster
    BY DEF Chain
  <2>. HIDE DEF w
  <2>9. Chain(F, 3) = {3, 4}
    BY <1>2, <1>3, <2>1, <2>2, <2>3, <2>7, <2>8
  <2>. QED  BY <2>2, <2>5, <2>9 DEF w
<1>11. Volume(F, 4, D, Live(D))
  <2>1. \A s \in Live(D) : D[s].start = 3
    BY <1>5, <1>6
  <2>2. Sound(F, D, Live(D))
    BY <1>2, <1>6, <1>10, <2>1 DEF Sound
  <2>3. 4 + 1 \in Cluster /\ 4 + 1 # Root /\ 4 + 1 \notin Used(F, D, Live(D))
    BY <1>2, <1>3, <1>10, <2>1 DEF Used
  <2>. QED  BY <1>2, <1>4, <2>2, <2>3 DEF Volume
<1>. DEFINE a == On(F, 4, D, img)
<1>12. a \in Card /\ a.fat = F /\ a.next_free = 4 /\ a.dir = D /\ a.data = img /\ card = a
  <2>1. card = a
    BY <1>1 DEF F, D, img
  <2>. QED  BY <1>3, <1>4, <1>5, <2>1, OnFacts
<1>. HIDE DEF a
<1>13. Holds(a, Live(D), content)
  <2>1. content[Kernel] = "image"
    BY <1>1, <1>2
  <2>2. \A s \in Live(D) : D[s].start = 3 /\ D[s].name = Kernel
    BY <1>5, <1>6
  <2>. QED  BY <1>4, <1>10, <1>12, <2>1, <2>2 DEF Holds
<1>14. Target(a, F, 4, D, content)
  BY <1>2, <1>4, <1>12, <1>13 DEF Target, Agree
<1>15. Steady(F, 4, D, a, <<>>, "none", 1, content)
  BY <1>4, <1>9, <1>11, <1>12, <1>14, SteadyNowhere
<1>16. command.op = "none" /\ command.slot = 1 /\ command \in Command
  BY <1>1, <1>2 DEF NoCommand, Command
<1>17. content \in Content
  <2>1. "image" \in Data
    BY DEF Data
  <2>. HIDE DEF Data
  <2>. QED  BY <1>1, <2>1 DEF Content
<1>18. fat = F /\ dir = D
  BY <1>1 DEF F, D
<1>19. TypeOK
  BY <1>1, <1>3, <1>4, <1>5, <1>12, <1>16, <1>17, <1>18, TypeFacts
<1>. QED  BY <1>1, <1>9, <1>11, <1>12, <1>15, <1>16, <1>18, <1>19 DEF IInv

\* No step of the system, not even the loss of power, leaves such a state.
LEMMA NextSafe ==
  ASSUME IInv, [Next]_vars
  PROVE  IInv' /\ (command.op # "rm" => Named(card) \subseteq Named(card'))
<1>1. CASE UNCHANGED vars
  <2>1. /\ fat' = fat /\ next_free' = next_free /\ dir' = dir /\ card' = card /\ todo' = todo
        /\ command' = command /\ content' = content
    BY <1>1 DEF vars, memory
  <2>2. TypeOK'
    BY <2>1 DEF IInv, TypeOK
  <2>. QED  BY <2>1, <2>2 DEF IInv
<1>2. ASSUME NEW n \in Names, NEW t \in Texts \cup {Full}, Save(n, t)
      PROVE  IInv' /\ card' = card
  BY <1>2, SaveSafe DEF Save, CreateAndWrite
<1>3. ASSUME NEW n \in Names, fs_mkdir(n)  PROVE IInv' /\ card' = card
  BY <1>3, MkdirSafe DEF fs_mkdir, CreateAndWrite
<1>4. ASSUME NEW n \in Names, fs_rm(n)  PROVE IInv' /\ card' = card
  BY <1>4, RmSafe DEF fs_rm
<1>5. ASSUME NEW n \in Names, fs_cat(n)  PROVE IInv' /\ card' = card
  BY <1>5, CatSafe DEF fs_cat
<1>6. ASSUME NEW src \in Names, NEW dest \in Names, fs_mv(src, dest)  PROVE IInv' /\ card' = card
  BY <1>6, MvSafe DEF fs_mv
<1>7. CASE Transfer
  BY <1>7, TransferSafe
<1>8. CASE init_fat
  BY <1>8, RestartSafe DEF init_fat
<1>. QED  BY <1>1, <1>2, <1>3, <1>4, <1>5, <1>6, <1>7, <1>8 DEF Next

LEMMA Invariance == Spec => []IInv
<1>1. IInv /\ [Next]_vars => IInv'
  BY NextSafe
<1>. QED  BY InitSafe, <1>1, PTL DEF Spec

-----------------------------------------------------------------------------
(* The theorems *)

\* Whatever is created, written, moved and removed, and whenever the power goes outside rm
\* and mv, the files have their clusters for themselves: fs_alloc never gives out a cluster
\* of a file, fs_rm frees no other file's.
THEOREM ChainsApartHolds == Spec => []ChainsApart
<1>1. IInv => ChainsApart
  BY DEF IInv, Volume, ChainsApart
<1>. QED  BY <1>1, Invariance, PTL

\* What a restart would find on the card after any of the transfers of a command is sound
\* as well, but for the entry that rm removes and the old name in mv.
THEOREM CardSoundHolds == Spec => []CardSound
<1>1. IInv => CardSound
  <2>1. SUFFICES ASSUME IInv  PROVE CardSound
    OBVIOUS
  <2>2. PICK e : Leads(card, todo, e, Safe(command.op, command.slot, dir, content), command.op # "rm")
    BY <2>1 DEF IInv, Steady
  <2>3. Good(card, command.op, command.slot, dir, content)
    BY <2>2, LeadsEnds DEF Safe
  <2>4. Live(card.dir) \ Out(command.op, command.slot) =
           IF command.op \notin {"rm", "mv"} THEN Live(card.dir)
           ELSE Live(card.dir) \ {command.slot}
    BY DEF Out
  <2>. QED  BY <2>3, <2>4 DEF Good, Volume, CardSound
<1>. QED  BY <1>1, Invariance, PTL

\* No two live entries of the directory have the same name, and none is hidden behind one
\* that was never used: fs_find finds every file.
THEOREM NamesOnceHolds == Spec => []NamesOnce
<1>1. IInv => NamesOnce
  BY DEF IInv, Once, NamesOnce
<1>. QED  BY <1>1, Invariance, PTL

\* No transfer takes the only name of a file off the card, but those of rm: fs_mv writes
\* the new name, and what it leads to, before it deletes the old one.
THEOREM FilesKeptHolds == Spec => FilesKept
<1>1. IInv /\ [Next]_vars => [command.op # "rm" => Named(card) \subseteq Named(card')]_vars
  BY NextSafe
<1>. QED  BY <1>1, Invariance, PTL DEF Spec, FilesKept

\* On a card whose partition begins behind all the places that the misplaced erase of
\* fs_alloc reaches, every cluster of a file holds what was last written to the file.
THEOREM ContentKeptHolds == ASSUME Base >= TotalClusters  PROVE Spec => []ContentKept
<1>1. IInv => ContentKept
  <2>1. SUFFICES ASSUME IInv, Ready  PROVE ContentKept
    BY DEF ContentKept
  <2>2. Before(fat, next_free, dir, content, card)
    BY <2>1, Between
  <2>3. \A s \in Live(dir) : dir[s].start # 0 /\ content[dir[s].name] # "none" =>
           \A x \in Chain(fat, dir[s].start) : card.data[x] = content[dir[s].name]
    BY <2>2, BeforeFacts
  <2>. QED  BY <2>3 DEF ContentKept
<1>. QED  BY <1>1, Invariance, PTL

-----------------------------------------------------------------------------
(* Lines of a text *)

\* The least and the greatest of some of the numbers up to n.
LEMMA MinMaxFacts ==
  ASSUME NEW n \in Nat, NEW S \in SUBSET (0 .. n), S # {}
  PROVE  /\ Ed!Min(S) \in S /\ \A y \in S : Ed!Min(S) <= y
         /\ Ed!Max(S) \in S /\ \A y \in S : y <= Ed!Max(S)
<1>1. \E x \in S : \A y \in S : x <= y
  BY LeastExists
<1>2. \E x \in S : \A y \in S : y <= x
  <2>. DEFINE T == {n - x : x \in S}
  <2>0. \A x \in S : x \in 0 .. n /\ n - x \in Nat
    OBVIOUS
  <2>1. T \in SUBSET Nat /\ T # {}
    BY <2>0
  <2>2. PICK z \in T : \A y \in T : z <= y
    BY <2>1, LeastExists
  <2>3. PICK x \in S : z = n - x
    BY <2>2
  <2>4. ASSUME NEW y \in S  PROVE y <= x
    <3>1. n - y \in T
      OBVIOUS
    <3>2. z <= n - y /\ x \in Int /\ y \in Int
      BY <2>0, <2>2, <3>1
    <3>. QED  BY <2>3, <3>2
  <2>. QED  BY <2>3, <2>4
<1>. QED  BY <1>1, <1>2 DEF Ed!Min, Ed!Max

\* The line of location l begins behind the last line end in front of l.
LEMMA LineStartFacts ==
  ASSUME NEW t \in Seq(Ed!Char), NEW l \in 0 .. Len(t)
  PROVE  /\ Ed!LineStart(t, l) \in 0 .. l
         /\ Ed!LineStart(t, l) = 0 \/ t[Ed!LineStart(t, l)] = Ed!NL
         /\ \A k \in 1 .. l : t[k] = Ed!NL => k <= Ed!LineStart(t, l)
<1>. DEFINE S == {k \in 0 .. l : k = 0 \/ t[k] = Ed!NL}
<1>1. 0 \in S /\ S \in SUBSET (0 .. l) /\ l \in Nat
  OBVIOUS
<1>2. Ed!Max(S) \in S /\ \A y \in S : y <= Ed!Max(S)
  <2>. HIDE DEF S
  <2>. QED  BY <1>1, MinMaxFacts
<1>. QED  BY <1>2 DEF Ed!LineStart

\* It ends in front of the next line end, or with the text.
LEMMA LineEndFacts ==
  ASSUME NEW t \in Seq(Ed!Char), NEW l \in 0 .. Len(t)
  PROVE  /\ Ed!LineEnd(t, l) \in l .. Len(t)
         /\ Ed!LineEnd(t, l) = Len(t) \/ t[Ed!LineEnd(t, l) + 1] = Ed!NL
         /\ \A k \in l + 1 .. Len(t) : t[k] = Ed!NL => k > Ed!LineEnd(t, l)
<1>. DEFINE S == {k \in l .. Len(t) : k = Len(t) \/ t[k + 1] = Ed!NL}
<1>1. Len(t) \in S /\ S \in SUBSET (0 .. Len(t)) /\ Len(t) \in Nat
  OBVIOUS
<1>2. Ed!Min(S) \in S /\ \A y \in S : Ed!Min(S) <= y
  <2>. HIDE DEF S
  <2>. QED  BY <1>1, MinMaxFacts
<1>3. ASSUME NEW k \in l + 1 .. Len(t), t[k] = Ed!NL  PROVE k > Ed!Min(S)
  <2>1. k - 1 \in l .. Len(t) /\ (k - 1) + 1 = k
    OBVIOUS
  <2>2. k - 1 \in S
    BY <1>3, <2>1
  <2>3. Ed!Min(S) <= k - 1
    BY <1>2, <2>2
  <2>4. Ed!Min(S) \in Int
    BY <1>2
  <2>. HIDE DEF S
  <2>. QED  BY <2>3, <2>4
<1>. QED  BY <1>2, <1>3 DEF Ed!LineEnd

\* The line ends between locations p and l.
Rows(t, p, l) == Cardinality({k \in p + 1 .. l : t[k] = Ed!NL})

LEMMA RowsFacts ==
  ASSUME NEW t, NEW p \in Nat, NEW l \in Nat, p <= l
  PROVE  /\ Rows(t, p, p) = 0 /\ Rows(t, p, l) \in Nat
         /\ t[l + 1] = Ed!NL => Rows(t, p, l + 1) = Rows(t, p, l) + 1
         /\ t[l + 1] # Ed!NL => Rows(t, p, l + 1) = Rows(t, p, l)
<1>. DEFINE R(m) == {k \in p + 1 .. m : t[k] = Ed!NL}
<1>1. R(p) = {}
  OBVIOUS
<1>2. IsFiniteSet(p + 1 .. l) /\ R(l) \subseteq p + 1 .. l
  BY FS_Interval
<1>3. IsFiniteSet(R(l)) /\ l + 1 \notin R(l)
  <2>1. l + 1 \notin p + 1 .. l
    OBVIOUS
  <2>. QED  BY <1>2, <2>1, FS_Subset
<1>4. p + 1 .. l + 1 = (p + 1 .. l) \cup {l + 1}
  OBVIOUS
<1>5. t[l + 1] = Ed!NL => R(l + 1) = R(l) \cup {l + 1}
  BY <1>4
<1>6. t[l + 1] # Ed!NL => R(l + 1) = R(l)
  BY <1>4
<1>. HIDE DEF R
<1>7. Cardinality(R(p)) = 0 /\ Cardinality(R(l)) \in Nat
  BY <1>1, <1>3, FS_EmptySet, FS_CardinalityType
<1>8. Cardinality(R(l) \cup {l + 1}) = Cardinality(R(l)) + 1
  BY <1>3, FS_AddElement
<1>. QED  BY <1>5, <1>6, <1>7, <1>8 DEF Rows, R

\* Further on there are no fewer.
LEMMA RowsMonotone ==
  ASSUME NEW t, NEW p \in Nat, NEW l \in Nat, NEW m \in Nat, p <= l, l <= m
  PROVE  Rows(t, p, l) <= Rows(t, p, m)
<1>. DEFINE R(n) == {k \in p + 1 .. n : t[k] = Ed!NL}
<1>1. IsFiniteSet(p + 1 .. m) /\ R(m) \subseteq p + 1 .. m /\ R(l) \subseteq R(m)
  BY FS_Interval
<1>2. IsFiniteSet(R(m))
  BY <1>1, FS_Subset
<1>. QED  BY <1>1, <1>2, FS_Subset DEF Rows

\* From the second line on there is one less.
LEMMA RowsOfNext ==
  ASSUME NEW t, NEW p \in Nat, NEW n \in Nat, NEW c \in Nat, p < n, n <= c,
         t[n] = Ed!NL, \A k \in p + 1 .. n - 1 : t[k] # Ed!NL
  PROVE  Rows(t, p, c) = Rows(t, n, c) + 1
<1>. DEFINE R == {k \in n + 1 .. c : t[k] = Ed!NL}
<1>1. {k \in p + 1 .. c : t[k] = Ed!NL} = R \cup {n}
  <2>1. p + 1 .. c = (p + 1 .. n - 1) \cup {n} \cup (n + 1 .. c)
    OBVIOUS
  <2>. QED  BY <2>1
<1>2. IsFiniteSet(n + 1 .. c) /\ R \subseteq n + 1 .. c /\ n \notin R
  BY FS_Interval
<1>3. IsFiniteSet(R)
  BY <1>2, FS_Subset
<1>4. Cardinality(R \cup {n}) = Cardinality(R) + 1
  BY <1>2, <1>3, FS_AddElement
<1>. QED  BY <1>1, <1>4 DEF Rows

\* Only the characters between p and l count.
LEMMA RowsSame ==
  ASSUME NEW t, NEW u, NEW p \in Nat, NEW l \in Nat, \A k \in p + 1 .. l : t[k] = u[k]
  PROVE  Rows(t, p, l) = Rows(u, p, l)
<1>1. {k \in p + 1 .. l : t[k] = Ed!NL} = {k \in p + 1 .. l : u[k] = Ed!NL}
  OBVIOUS
<1>. QED  BY <1>1 DEF Rows

\* While no line fills a row of the screen the rows of the screen are lines, and each
\* character is in the column of its place in the line.
LEMMA WalkIsRows ==
  ASSUME NEW t \in Seq(Ed!Char), NEW p \in 0 .. Len(t), p = 0 \/ t[p] = Ed!NL,
         Ed!Narrow(t), NEW l \in p + 1 .. Len(t)
  PROVE  /\ t[l] = Ed!NL => /\ Rows(t, p, l) = Rows(t, p, l - 1) + 1
                           /\ Ed!LineStart(t, l) = l
         /\ t[l] # Ed!NL => /\ Rows(t, p, l) = Rows(t, p, l - 1)
                           /\ Ed!LineStart(t, l) = Ed!LineStart(t, l - 1)
                           /\ l - Ed!LineStart(t, l) < COLUMN_LEN
<1>1. /\ Len(t) \in Nat /\ p \in Nat /\ l - 1 \in Nat /\ l - 1 \in 0 .. Len(t) /\ l \in 0 .. Len(t)
      /\ p <= l - 1 /\ (l - 1) + 1 = l
  OBVIOUS
<1>2. /\ t[l] = Ed!NL => Rows(t, p, l) = Rows(t, p, l - 1) + 1
      /\ t[l] # Ed!NL => Rows(t, p, l) = Rows(t, p, l - 1)
  <2>1. /\ t[(l - 1) + 1] = Ed!NL => Rows(t, p, (l - 1) + 1) = Rows(t, p, l - 1) + 1
        /\ t[(l - 1) + 1] # Ed!NL => Rows(t, p, (l - 1) + 1) = Rows(t, p, l - 1)
    <3>. DEFINE m == l - 1
    <3>1. m \in Nat /\ p <= m /\ p \in Nat
      BY <1>1
    <3>. HIDE DEF m
    <3>2. /\ t[m + 1] = Ed!NL => Rows(t, p, m + 1) = Rows(t, p, m) + 1
          /\ t[m + 1] # Ed!NL => Rows(t, p, m + 1) = Rows(t, p, m)
      BY <3>1, RowsFacts
    <3>. QED  BY <3>2 DEF m
  <2>. QED  BY <1>1, <2>1
<1>. DEFINE s == Ed!LineStart(t, l)
            r == Ed!LineStart(t, l - 1)
<1>3. /\ s \in 0 .. l /\ (s = 0 \/ t[s] = Ed!NL)
      /\ \A k \in 1 .. l : t[k] = Ed!NL => k <= s
  BY <1>1, LineStartFacts
<1>4. /\ r \in 0 .. l - 1 /\ (r = 0 \/ t[r] = Ed!NL)
      /\ \A k \in 1 .. l - 1 : t[k] = Ed!NL => k <= r
  BY <1>1, LineStartFacts
<1>. HIDE DEF s, r
<1>5. t[l] = Ed!NL => s = l
  BY <1>1, <1>3
<1>6. ASSUME t[l] # Ed!NL  PROVE s = r /\ l - s < COLUMN_LEN
  <2>1. s # l
    BY <1>1, <1>3, <1>6
  <2>2. s <= r
    <3>1. CASE s = 0
      BY <3>1, <1>4
    <3>2. CASE s # 0
      BY <3>2, <2>1, <1>3, <1>4
    <3>. QED  BY <3>1, <3>2
  <2>3. r <= s
    <3>1. CASE r = 0
      BY <3>1, <1>3
    <3>2. CASE r # 0
      BY <3>2, <1>1, <1>3, <1>4
    <3>. QED  BY <3>1, <3>2
  <2>4. s = r
    BY <2>2, <2>3, <1>3, <1>4
  <2>. DEFINE e == Ed!LineEnd(t, s)
  <2>5. s \in 0 .. Len(t) - 1
    BY <1>1, <1>4, <2>4
  <2>6. e \in s .. Len(t) /\ (e = Len(t) \/ t[e + 1] = Ed!NL)
    BY <2>5, LineEndFacts
  <2>7. e - s < COLUMN_LEN
    BY <2>5 DEF Ed!Narrow
  <2>. HIDE DEF e
  <2>8. e >= l
    <3>1. SUFFICES ASSUME e < l  PROVE FALSE
      BY <1>1, <2>5, <2>6
    <3>2. e + 1 \in 1 .. l /\ t[e + 1] = Ed!NL
      BY <3>1, <1>1, <2>5, <2>6
    <3>. QED  BY <3>2, <1>3, <2>6, <2>5
  <2>. QED  BY <2>4, <2>5, <2>6, <2>7, <2>8, FilesAssumption
<1>. QED  BY <1>2, <1>5, <1>6 DEF s, r

LEMMA PlaceIsRow ==
  ASSUME NEW t \in Seq(Ed!Char), NEW p \in 0 .. Len(t), p = 0 \/ t[p] = Ed!NL,
         Ed!Narrow(t)
  PROVE  \A l \in p .. Len(t) : Ed!Place(t, p)[l].row = Rows(t, p, l)
<1>. DEFINE At(f, l) ==
              IF l = p THEN [row |-> 0, column |-> 0]
              ELSE IF t[l] = Ed!NL \/ f[l - 1].column + 1 = COLUMN_LEN
                   THEN [row |-> f[l - 1].row + 1, column |-> 0]
                   ELSE [f[l - 1] EXCEPT !.column = f[l - 1].column + 1]
            W == [l \in p .. Len(t) |-> [row |-> Rows(t, p, l), column |-> l - Ed!LineStart(t, l)]]
            f == Ed!Place(t, p)
<1>1. Len(t) \in Nat /\ p \in Nat
  OBVIOUS
<1>2. ASSUME NEW l \in p .. Len(t)  PROVE At(W, l) = W[l]
  <2>1. CASE l = p
    <3>1. Rows(t, p, p) = 0
      BY <1>1, RowsFacts
    <3>2. Ed!LineStart(t, p) = p
      BY <1>1, LineStartFacts
    <3>. QED  BY <2>1, <3>1, <3>2
  <2>2. CASE l # p
    <3>1. l \in p + 1 .. Len(t) /\ l - 1 \in p .. Len(t)
      BY <1>1, <2>2
    <3>2. /\ t[l] = Ed!NL => /\ Rows(t, p, l) = Rows(t, p, l - 1) + 1
                            /\ Ed!LineStart(t, l) = l
          /\ t[l] # Ed!NL => /\ Rows(t, p, l) = Rows(t, p, l - 1)
                            /\ Ed!LineStart(t, l) = Ed!LineStart(t, l - 1)
                            /\ l - Ed!LineStart(t, l) < COLUMN_LEN
      BY <3>1, WalkIsRows
    <3>3. Ed!LineStart(t, l - 1) \in Nat
      <4>1. l - 1 \in 0 .. Len(t)
        BY <1>1, <3>1
      <4>. QED  BY <4>1, LineStartFacts
    <3>4. /\ W[l - 1].column = (l - 1) - Ed!LineStart(t, l - 1) /\ W[l - 1].row = Rows(t, p, l - 1)
          /\ W[l - 1] = [row |-> Rows(t, p, l - 1), column |-> (l - 1) - Ed!LineStart(t, l - 1)]
          /\ W[l] = [row |-> Rows(t, p, l), column |-> l - Ed!LineStart(t, l)]
      BY <3>1
    <3>. HIDE DEF W
    <3>5. CASE t[l] = Ed!NL
      BY <2>2, <3>2, <3>4, <3>5
    <3>6. CASE t[l] # Ed!NL
      <4>1. W[l - 1].column + 1 = l - Ed!LineStart(t, l) /\ W[l - 1].column + 1 # COLUMN_LEN
        BY <3>2, <3>3, <3>4, <3>6, <1>1, FilesAssumption
      <4>2. [W[l - 1] EXCEPT !.column = W[l - 1].column + 1]
               = [row |-> Rows(t, p, l - 1), column |-> W[l - 1].column + 1]
        BY <3>4
      <4>. QED  BY <2>2, <3>2, <3>4, <3>6, <4>1, <4>2
    <3>. QED  BY <3>5, <3>6
  <2>. QED  BY <2>1, <2>2
<1>3. W = [l \in p .. Len(t) |-> At(W, l)]
  BY <1>2
<1>4. f = [l \in p .. Len(t) |-> At(f, l)]
  <2>1. f = CHOOSE g : g = [l \in p .. Len(t) |-> At(g, l)]
    BY DEF Ed!Place
  <2>. HIDE DEF W, f, At
  <2>. QED  BY <1>3, <2>1
<1>5. \A l \in p .. Len(t) : f[l] = W[l]
  <2>. DEFINE B == {l \in p .. Len(t) : f[l] # W[l]}
  <2>1. SUFFICES ASSUME B # {}  PROVE FALSE
    OBVIOUS
  <2>2. PICK l \in B : \A m \in B : l <= m
    <3>1. B \in SUBSET Nat
      BY <1>1
    <3>. HIDE DEF B
    <3>. QED  BY <2>1, <3>1, LeastExists
  <2>3. f[l] = At(f, l) /\ W[l] = At(W, l)
    <3>. HIDE DEF f, W, At
    <3>. QED  BY <1>3, <1>4
  <2>4. l # p => f[l - 1] = W[l - 1]
    <3>. HIDE DEF f, W, At
    <3>. QED  BY <2>2, <1>1
  <2>5. At(f, l) = At(W, l)
    <3>. HIDE DEF f, W
    <3>. QED  BY <2>4
  <2>. HIDE DEF f, W, At
  <2>. QED  BY <2>3, <2>5
<1>6. \A l \in p .. Len(t) : W[l].row = Rows(t, p, l)
  OBVIOUS
<1>. HIDE DEF W, f
<1>7. \A l \in p .. Len(t) : f[l].row = Rows(t, p, l)
  BY <1>5, <1>6
<1>. QED  BY <1>7 DEF f

\* The screen ends in the text.
LEMMA FlushType ==
  ASSUME NEW t \in Seq(Ed!Char), NEW p \in 0 .. Len(t)
  PROVE  Ed!screen_flush(t, p) \in Int
<1>. DEFINE S == {l \in p .. Len(t) : l = Len(t) \/ Ed!Place(t, p)[l].row >= ROW_LEN}
<1>1. Len(t) \in S /\ S \in SUBSET (0 .. Len(t)) /\ Len(t) \in Nat
  OBVIOUS
<1>2. Ed!Min(S) \in S
  <2>. HIDE DEF S
  <2>. QED  BY <1>1, MinMaxFacts
<1>. QED  BY <1>1, <1>2 DEF Ed!screen_flush

\* What the screen shows from line start p on.
LEMMA ScreenFacts ==
  ASSUME NEW t \in Seq(Ed!Char), NEW p \in 0 .. Len(t), p = 0 \/ t[p] = Ed!NL,
         Ed!Narrow(t), NEW c \in p .. Len(t) - 1
  PROVE  c < Ed!screen_flush(t, p) <=> Rows(t, p, c) < ROW_LEN
<1>1. Len(t) \in Nat /\ p \in Nat /\ c \in Nat /\ c \in p .. Len(t) /\ ROW_LEN \in Nat
  BY FilesAssumption
<1>. DEFINE S == {l \in p .. Len(t) : l = Len(t) \/ Ed!Place(t, p)[l].row >= ROW_LEN}
            e == Ed!Min(S)
<1>2. Len(t) \in S /\ S \in SUBSET (0 .. Len(t))
  BY <1>1
<1>3. e \in S /\ \A y \in S : e <= y
  <2>. HIDE DEF S
  <2>. QED  BY <1>1, <1>2, MinMaxFacts
<1>4. \A l \in p .. Len(t) : Ed!Place(t, p)[l].row = Rows(t, p, l)
  BY PlaceIsRow
<1>5. /\ e \in p .. Len(t) /\ (e = Len(t) \/ Rows(t, p, e) >= ROW_LEN)
      /\ \A l \in p .. Len(t) : Rows(t, p, l) >= ROW_LEN => e <= l
  BY <1>3, <1>4
<1>6. Rows(t, p, c) \in Nat /\ (e <= c => Rows(t, p, e) <= Rows(t, p, c) /\ Rows(t, p, e) \in Nat)
  <2>1. e \in Nat /\ p <= e /\ p <= c
    BY <1>1, <1>5
  <2>. HIDE DEF e
  <2>2. Rows(t, p, c) \in Nat /\ Rows(t, p, e) \in Nat
    BY <1>1, <2>1, RowsFacts
  <2>3. e <= c => Rows(t, p, e) <= Rows(t, p, c)
    BY <1>1, <2>1, RowsMonotone
  <2>. QED  BY <2>2, <2>3
<1>7. Ed!screen_flush(t, p) = e
  BY DEF Ed!screen_flush
<1>. HIDE DEF e
<1>8. ASSUME c < e  PROVE Rows(t, p, c) < ROW_LEN
  BY <1>8, <1>1, <1>5, <1>6
<1>9. ASSUME ~(c < e)  PROVE ~(Rows(t, p, c) < ROW_LEN)
  <2>1. e \in Nat /\ e <= c /\ e # Len(t)
    BY <1>9, <1>1, <1>5
  <2>. QED  BY <2>1, <1>1, <1>5, <1>6
<1>. QED  BY <1>7, <1>8, <1>9

-----------------------------------------------------------------------------
(* The editor *)

\* The page begins with a line, the cursor is on it.
Shown(t, p, c) == p \in 0 .. c /\ (p = 0 \/ t[p] = Ed!NL) /\ Rows(t, p, c) < ROW_LEN

\* The page after a step, see Show.
Turned(t, c, p, end) ==
    IF c < p THEN Ed!page_location_last_line(t, p)
    ELSE IF c >= end THEN Ed!page_location_next_line(t, p) ELSE p

EditorInv ==
    err = 0 =>
        /\ text \in Seq(Ed!Char) /\ cursor \in 0 .. Len(text) - 1 /\ text[Len(text)] = Ed!NL
        /\ narrow \in BOOLEAN
        /\ narrow => /\ Ed!Narrow(text) /\ Shown(text, page, cursor)
                     /\ page_end = Ed!screen_flush(text, page)

\* A step back from the first line of the page turns to the line in front of it.
LEMMA TurnedBack ==
  ASSUME NEW t \in Seq(Ed!Char), NEW c \in 0 .. Len(t) - 1, NEW p \in 1 .. Len(t),
         c < p, Ed!LineStart(t, p - 1) <= c, NEW end
  PROVE  Shown(t, Turned(t, c, p, end), c)
<1>. DEFINE q == Ed!LineStart(t, p - 1)
<1>1. p - 1 \in 0 .. Len(t) /\ c \in Nat /\ c <= p - 1
  OBVIOUS
<1>2. /\ q \in 0 .. p - 1 /\ (q = 0 \/ t[q] = Ed!NL)
      /\ \A k \in 1 .. p - 1 : t[k] = Ed!NL => k <= q
  BY <1>1, LineStartFacts
<1>3. Turned(t, c, p, end) = q
  BY <1>1 DEF Turned, Ed!page_location_last_line
<1>. HIDE DEF q
<1>4. Rows(t, q, c) = 0
  <2>1. \A k \in q + 1 .. c : t[k] # Ed!NL
    BY <1>1, <1>2
  <2>2. {k \in q + 1 .. c : t[k] = Ed!NL} = {}
    BY <2>1
  <2>. QED  BY <2>2, FS_EmptySet DEF Rows
<1>5. q \in 0 .. c
  BY <1>1, <1>2 DEF q
<1>. QED  BY <1>2, <1>3, <1>4, <1>5, FilesAssumption DEF Shown

\* A cursor that leaves the page downwards by one row turns to the next line.
LEMMA TurnedOn ==
  ASSUME NEW t \in Seq(Ed!Char), Ed!Narrow(t), NEW c \in 0 .. Len(t) - 1,
         NEW p \in 0 .. c, p = 0 \/ t[p] = Ed!NL, Rows(t, p, c) <= ROW_LEN
  PROVE  Shown(t, Turned(t, c, p, Ed!screen_flush(t, p)), c)
<1>1. /\ p \in Nat /\ c \in Nat /\ p <= c /\ p \in 0 .. Len(t) /\ c \in p .. Len(t) - 1 /\ Len(t) \in Nat
      /\ ROW_LEN \in Nat /\ ROW_LEN >= 1
  BY FilesAssumption
<1>2. c < Ed!screen_flush(t, p) <=> Rows(t, p, c) < ROW_LEN
  BY <1>1, ScreenFacts
<1>3. Rows(t, p, c) \in Nat
  BY <1>1, RowsFacts
<1>4. Ed!screen_flush(t, p) \in Int
  BY <1>1, FlushType
<1>. DEFINE f == Ed!screen_flush(t, p)
<1>. HIDE DEF f
<1>5. CASE c < f
  <2>1. Turned(t, c, p, f) = p
    BY <1>1, <1>4, <1>5 DEF Turned, f
  <2>. QED  BY <1>1, <1>2, <1>5, <2>1 DEF Shown, f
<1>6. CASE ~(c < f)
  <2>. DEFINE n == Ed!LineEnd(t, p) + 1
  <2>1. Rows(t, p, c) = ROW_LEN
    BY <1>1, <1>2, <1>3, <1>6 DEF f
  <2>2. /\ Ed!LineEnd(t, p) \in p .. Len(t)
        /\ Ed!LineEnd(t, p) = Len(t) \/ t[n] = Ed!NL
        /\ \A k \in p + 1 .. Len(t) : t[k] = Ed!NL => k > Ed!LineEnd(t, p)
    BY <1>1, LineEndFacts
  <2>3. n \in Nat /\ n > p /\ n - 1 = Ed!LineEnd(t, p)
    BY <2>2, <1>1
  <2>4. \E k \in p + 1 .. c : t[k] = Ed!NL
    <3>1. SUFFICES ASSUME \A k \in p + 1 .. c : t[k] # Ed!NL  PROVE FALSE
      OBVIOUS
    <3>2. {k \in p + 1 .. c : t[k] = Ed!NL} = {}
      BY <3>1
    <3>3. Rows(t, p, c) = 0
      BY <3>2, FS_EmptySet DEF Rows
    <3>. QED  BY <3>3, <2>1, <1>1
  <2>5. PICK k \in p + 1 .. c : t[k] = Ed!NL
    BY <2>4
  <2>6. k \in p + 1 .. Len(t) /\ k > Ed!LineEnd(t, p)
    BY <2>2, <2>5, <1>1
  <2>7. n <= c
    BY <2>3, <2>5, <2>6, <1>1
  <2>8. t[n] = Ed!NL
    BY <2>2, <2>3, <2>7, <1>1
  <2>9. \A m \in p + 1 .. n - 1 : t[m] # Ed!NL
    BY <2>2, <2>3, <2>7, <1>1
  <2>10. Turned(t, c, p, f) = n
    <3>1. n < Len(t) /\ ~(c < p) /\ c >= f
      BY <1>1, <1>4, <1>6, <2>3, <2>7 DEF f
    <3>. QED  BY <3>1 DEF Turned, Ed!page_location_next_line
  <2>. HIDE DEF n
  <2>11. Rows(t, p, c) = Rows(t, n, c) + 1
    BY <1>1, <2>3, <2>7, <2>8, <2>9, RowsOfNext
  <2>12. Rows(t, n, c) \in Nat
    BY <1>1, <2>3, <2>7, RowsFacts
  <2>13. Shown(t, n, c)
    BY <1>1, <2>1, <2>3, <2>7, <2>8, <2>11, <2>12 DEF Shown
  <2>. QED  BY <2>10, <2>13 DEF f
<1>. QED  BY <1>5, <1>6 DEF f

\* Nothing moves while the cursor stays on the page.
LEMMA TurnedNot ==
  ASSUME NEW t, NEW c, NEW p, NEW end \in Int, Shown(t, p, c), c \in Nat, c < end
  PROVE  Shown(t, Turned(t, c, p, end), c)
<1>1. Turned(t, c, p, end) = p
  BY DEF Turned, Shown
<1>. QED  BY <1>1

\* An inserted character moves those behind it by one place.
LEMMA InsertAtFacts ==
  ASSUME NEW S, NEW t \in Seq(S), NEW i \in 1 .. Len(t) + 1, NEW x \in S
  PROVE  /\ Ed!InsertAt(t, i, x) \in Seq(S) /\ Len(Ed!InsertAt(t, i, x)) = Len(t) + 1
         /\ \A j \in 1 .. Len(t) + 1 : Ed!InsertAt(t, i, x)[j] =
                IF j < i THEN t[j] ELSE IF j = i THEN x ELSE t[j - 1]
<1>. DEFINE a == SubSeq(t, 1, i - 1)
            b == SubSeq(t, i, Len(t))
            w == <<x>>
            ab == a \o w
<1>1. Len(t) \in Nat
  OBVIOUS
<1>2. /\ a \in Seq(S) /\ Len(a) = i - 1 /\ \A j \in 1 .. i - 1 : a[j] = t[j]
  <2>1. 1 \in 1 .. Len(t) + 1 /\ i - 1 \in 1 - 1 .. Len(t)
    BY <1>1
  <2>. QED  BY <2>1, SubSeqProperties
<1>3. /\ b \in Seq(S) /\ Len(b) = Len(t) - i + 1
      /\ \A j \in 1 .. Len(t) - i + 1 : b[j] = t[i + j - 1]
  <2>1. Len(t) \in i - 1 .. Len(t)
    BY <1>1
  <2>. QED  BY <1>1, <2>1, SubSeqProperties
<1>4. /\ ab \in Seq(S) /\ Len(ab) = i
      /\ \A j \in 1 .. i : ab[j] = IF j < i THEN t[j] ELSE x
  <2>1. w \in Seq(S) /\ Len(w) = 1 /\ w[1] = x
    OBVIOUS
  <2>. HIDE DEF a, w
  <2>2. /\ a \o w \in Seq(S) /\ Len(a \o w) = Len(a) + Len(w)
        /\ \A j \in 1 .. Len(a) + Len(w) : (a \o w)[j] = IF j <= Len(a) THEN a[j] ELSE w[j - Len(a)]
    BY <1>2, <2>1, ConcatProperties
  <2>3. ASSUME NEW j \in 1 .. i  PROVE ab[j] = IF j < i THEN t[j] ELSE x
    BY <1>1, <1>2, <2>1, <2>2
  <2>. QED  BY <1>1, <1>2, <2>1, <2>2, <2>3
<1>. HIDE DEF a, b, ab
<1>5. /\ ab \o b \in Seq(S) /\ Len(ab \o b) = Len(ab) + Len(b)
      /\ \A j \in 1 .. Len(ab) + Len(b) :
            (ab \o b)[j] = IF j <= Len(ab) THEN ab[j] ELSE b[j - Len(ab)]
  BY <1>3, <1>4, ConcatProperties
<1>6. Ed!InsertAt(t, i, x) = ab \o b
  BY DEF Ed!InsertAt, a, b, ab, w
<1>7. ASSUME NEW j \in 1 .. Len(t) + 1
      PROVE  (ab \o b)[j] = IF j < i THEN t[j] ELSE IF j = i THEN x ELSE t[j - 1]
  <2>1. (ab \o b)[j] = IF j <= i THEN ab[j] ELSE b[j - i]
    BY <1>1, <1>3, <1>4, <1>5
  <2>2. CASE j <= i
    BY <2>1, <2>2, <1>4
  <2>3. CASE ~(j <= i)
    <3>1. j - i \in 1 .. Len(t) - i + 1 /\ i + (j - i) - 1 = j - 1
      BY <2>3, <1>1
    <3>. QED  BY <2>1, <2>3, <3>1, <1>3
  <2>. QED  BY <2>2, <2>3
<1>. QED  BY <1>1, <1>3, <1>4, <1>5, <1>6, <1>7

\* What load_file keeps of a file is a text.
LEMMA StrippedFacts ==
  ASSUME NEW file \in Seq(Ed!Char \cup {Ed!CR})
  PROVE  Ed!Stripped(file) \in Seq(Ed!Char)
<1>. DEFINE n == Len(file)
            At(f, k) == IF k = 0 THEN <<>>
                        ELSE IF file[k] = Ed!CR THEN f[k - 1] ELSE Append(f[k - 1], file[k])
            Is(f, m) == f = [k \in 0 .. m |-> At(f, k)]
            B == {m \in 0 .. n : ~(\E f : Is(f, m))}
            C(f) == {m \in 0 .. n : f[m] \notin Seq(Ed!Char)}
<1>1. n \in Nat
  OBVIOUS
<1>2. B = {}
  <2>1. SUFFICES ASSUME B # {}  PROVE FALSE
    OBVIOUS
  <2>2. PICK m \in B : \A k \in B : m <= k
    <3>1. B \in SUBSET Nat
      OBVIOUS
    <3>. HIDE DEF B
    <3>. QED  BY <2>1, <3>1, LeastExists
  <2>3. m # 0
    <3>. DEFINE f == [k \in 0 .. 0 |-> <<>>]
    <3>1. \A k \in 0 .. 0 : k = 0
      OBVIOUS
    <3>2. Is(f, 0)
      BY <3>1
    <3>. HIDE DEF f, Is
    <3>. QED  BY <2>2, <3>2
  <2>4. m - 1 \in 0 .. n /\ m - 1 \notin B /\ m \in 0 .. n
    <3>1. m \in 0 .. n
      OBVIOUS
    <3>2. m - 1 \notin B
      <4>. HIDE DEF B
      <4>. QED  BY <2>2, <3>1
    <3>. QED  BY <2>3, <3>1, <3>2
  <2>5. PICK f : Is(f, m - 1)
    <3>. HIDE DEF Is
    <3>. QED  BY <2>4
  <2>. DEFINE g == [k \in 0 .. m |-> IF k < m THEN f[k] ELSE At(f, m)]
  <2>6. Is(g, m)
    <3>1. ASSUME NEW k \in 0 .. m  PROVE g[k] = At(g, k)
      <4>1. k # 0 => g[k - 1] = f[k - 1]
        BY <2>4
      <4>2. At(g, k) = At(f, k)
        <5>. HIDE DEF g
        <5>. QED  BY <4>1
      <4>3. k < m => f[k] = At(f, k)
        <5>1. k < m => k \in 0 .. m - 1
          BY <2>4
        <5>. HIDE DEF At
        <5>. QED  BY <2>5, <5>1
      <4>4. k < m \/ k = m
        BY <2>4
      <4>. HIDE DEF At
      <4>. QED  BY <4>2, <4>3, <4>4
    <3>2. g = [k \in 0 .. m |-> g[k]]
      OBVIOUS
    <3>. HIDE DEF g, At
    <3>. QED  BY <3>1, <3>2
  <2>. HIDE DEF Is
  <2>. QED  BY <2>2, <2>6
<1>3. PICK f : Is(f, n)
  <2>. HIDE DEF Is
  <2>. QED  BY <1>1, <1>2
<1>. DEFINE g == CHOOSE h : Is(h, n)
<1>4. Is(g, n)
  <2>. HIDE DEF Is
  <2>. QED  BY <1>3
<1>5. Ed!Stripped(file) = g[n]
  BY DEF Ed!Stripped
<1>. HIDE DEF g
<1>6. C(g) = {}
  <2>1. SUFFICES ASSUME C(g) # {}  PROVE FALSE
    OBVIOUS
  <2>2. PICK m \in C(g) : \A k \in C(g) : m <= k
    <3>1. C(g) \in SUBSET Nat
      OBVIOUS
    <3>. HIDE DEF C
    <3>. QED  BY <2>1, <3>1, LeastExists
  <2>3. m \in 0 .. n /\ g[m] = At(g, m) /\ g[m] \notin Seq(Ed!Char)
    <3>1. m \in 0 .. n /\ g[m] \notin Seq(Ed!Char)
      OBVIOUS
    <3>. HIDE DEF At
    <3>. QED  BY <1>4, <3>1
  <2>4. m # 0
    BY <2>3
  <2>5. g[m - 1] \in Seq(Ed!Char)
    <3>1. m - 1 \in 0 .. n /\ ~(m <= m - 1)
      BY <1>1, <2>3, <2>4
    <3>. QED  BY <2>2, <3>1
  <2>6. file[m] \in Ed!Char \cup {Ed!CR}
    <3>1. m \in 1 .. n
      BY <1>1, <2>3, <2>4
    <3>. QED  BY <3>1
  <2>. QED  BY <2>3, <2>4, <2>5, <2>6
<1>. QED  BY <1>1, <1>5, <1>6

\* A file that fits is a text that ends with a line end.
LEMMA OpenSafe ==
  ASSUME NEW n \in Nat, NEW file \in [1 .. n -> Ed!Char \cup {Ed!CR}], Ed!Open(file)
  PROVE  EditorInv'
<1>. DEFINE t == Ed!Stripped(file)
<1>1. file \in Seq(Ed!Char \cup {Ed!CR})
  OBVIOUS
<1>2. t \in Seq(Ed!Char)
  BY <1>1, StrippedFacts
<1>3. /\ text' = Ed!Loaded(file).text /\ err' = Ed!Loaded(file).err /\ cursor' = 0 /\ page' = 0
      /\ page_end' = Ed!screen_flush(text', 0) /\ narrow' = Ed!Narrow(text')
  BY DEF Ed!Open
<1>. HIDE DEF t
<1>4. SUFFICES ASSUME err' = 0  PROVE EditorInv'
  BY DEF EditorInv
<1>5. ~(Len(t) >= BUFFER_SIZE - 1)
  BY <1>3, <1>4 DEF Ed!Loaded, t
<1>6. text' = IF t = <<>> \/ Ed!Last(t) # Ed!NL THEN Append(t, Ed!NL) ELSE t
  BY <1>3, <1>5 DEF Ed!Loaded, t
<1>7. /\ text' \in Seq(Ed!Char) /\ Len(text') >= 1 /\ text'[Len(text')] = Ed!NL
  <2>1. Ed!NL \in Ed!Char
    BY DEF Ed!Char
  <2>2. CASE t = <<>> \/ Ed!Last(t) # Ed!NL
    <3>1. text' = Append(t, Ed!NL)
      BY <1>6, <2>2
    <3>. QED  BY <1>2, <2>1, <3>1
  <2>3. CASE ~(t = <<>> \/ Ed!Last(t) # Ed!NL)
    <3>1. text' = t /\ t # <<>> /\ t[Len(t)] = Ed!NL
      BY <1>6, <2>3 DEF Ed!Last
    <3>. QED  BY <1>2, <3>1, EmptySeq
  <2>. QED  BY <2>2, <2>3
<1>8. narrow' \in BOOLEAN
  BY <1>3 DEF Ed!Narrow
<1>9. Shown(text', page', cursor')
  <2>1. Rows(text', 0, 0) = 0
    BY RowsFacts
  <2>. QED  BY <1>3, <2>1, FilesAssumption DEF Shown
<1>. QED  BY <1>3, <1>7, <1>8, <1>9 DEF EditorInv

\* A key that shows its result keeps the invariant if the page it turns to shows the cursor.
LEMMA ShowSafe ==
  ASSUME EditorInv, err = 0, NEW t \in Seq(Ed!Char), NEW c \in 0 .. Len(t) - 1, t[Len(t)] = Ed!NL,
         NEW end, Ed!Show(t, c, page, end),
         narrow /\ Ed!Narrow(t) => Shown(t, Turned(t, c, page, end), c)
  PROVE  EditorInv'
<1>1. /\ text' = t /\ cursor' = c /\ page' = Turned(t, c, page, end)
      /\ page_end' = Ed!screen_flush(t, Turned(t, c, page, end))
      /\ narrow' = (narrow /\ Ed!Narrow(t))
  BY DEF Ed!Show, Turned
<1>2. narrow' \in BOOLEAN /\ (narrow' => narrow /\ Ed!Narrow(t))
  BY <1>1
<1>. QED  BY <1>1, <1>2 DEF EditorInv

\* hjkl: the cursor goes one row down at most, and no further up than the line in front
\* of its own.
LEMMA MoveSafe ==
  ASSUME EditorInv, err = 0, Ed!Move
  PROVE  EditorInv'
<1>1. /\ text \in Seq(Ed!Char) /\ cursor \in 0 .. Len(text) - 1 /\ text[Len(text)] = Ed!NL
      /\ narrow => /\ Ed!Narrow(text) /\ Shown(text, page, cursor)
                   /\ page_end = Ed!screen_flush(text, page)
  BY DEF EditorInv
<1>2. Len(text) \in Nat /\ cursor \in Nat /\ cursor \in 0 .. Len(text) /\ Ed!size = Len(text)
  BY <1>1 DEF Ed!size
<1>3. PICK c \in {Ed!cursor_next_line, Ed!cursor_prev_line, Ed!Left, Ed!Right} :
           Ed!Show(text, c, page, page_end)
  BY DEF Ed!Move
<1>4. ASSUME c = cursor
      PROVE  c \in 0 .. Len(text) - 1 /\ (narrow => Shown(text, Turned(text, c, page, page_end), c))
  <2>1. SUFFICES ASSUME narrow  PROVE Shown(text, Turned(text, c, page, page_end), c)
    BY <1>1, <1>4
  <2>2. /\ page \in 0 .. c /\ (page = 0 \/ text[page] = Ed!NL) /\ Rows(text, page, c) < ROW_LEN
        /\ Ed!Narrow(text) /\ page_end = Ed!screen_flush(text, page)
    BY <1>1, <1>4, <2>1 DEF Shown
  <2>3. Rows(text, page, c) \in Nat
    <3>1. page \in Nat /\ c \in Nat /\ page <= c
      BY <1>2, <1>4, <2>2
    <3>. QED  BY <3>1, RowsFacts
  <2>4. Rows(text, page, c) <= ROW_LEN /\ c \in 0 .. Len(text) - 1
    BY <1>1, <1>4, <2>2, <2>3, FilesAssumption
  <2>. QED  BY <1>1, <2>2, <2>4, TurnedOn
<1>5. ASSUME c \in cursor + 1 .. Len(text) - 1, \A k \in cursor + 1 .. c - 1 : text[k] # Ed!NL
      PROVE  narrow => Shown(text, Turned(text, c, page, page_end), c)
  <2>1. SUFFICES ASSUME narrow  PROVE Shown(text, Turned(text, c, page, page_end), c)
    OBVIOUS
  <2>2. /\ page \in 0 .. cursor /\ (page = 0 \/ text[page] = Ed!NL)
        /\ Rows(text, page, cursor) < ROW_LEN
        /\ Ed!Narrow(text) /\ page_end = Ed!screen_flush(text, page)
    BY <1>1, <2>1 DEF Shown
  <2>3. page \in Nat /\ c \in Nat /\ c - 1 \in Nat /\ page <= cursor /\ page <= c - 1 /\ (c - 1) + 1 = c
        /\ page \in 0 .. c /\ c \in 0 .. Len(text) - 1
    BY <1>2, <1>5, <2>2
  <2>. DEFINE d == c - 1
  <2>4. Rows(text, page, d) = Rows(text, page, cursor)
    <3>1. {k \in page + 1 .. d : text[k] = Ed!NL} = {k \in page + 1 .. cursor : text[k] = Ed!NL}
      <4>1. page + 1 .. d = (page + 1 .. cursor) \cup (cursor + 1 .. d)
        BY <1>2, <1>5, <2>3
      <4>. HIDE DEF d
      <4>2. \A k \in cursor + 1 .. d : text[k] # Ed!NL
        BY <1>5 DEF d
      <4>. QED  BY <4>1, <4>2
    <3>. QED  BY <3>1 DEF Rows
  <2>5. Rows(text, page, d + 1) <= Rows(text, page, d) + 1 /\ Rows(text, page, d) \in Nat
        /\ Rows(text, page, d + 1) \in Nat
    <3>. HIDE DEF d
    <3>1. page \in Nat /\ d \in Nat /\ page <= d
      BY <2>3 DEF d
    <3>2. /\ Rows(text, page, d) \in Nat
          /\ text[d + 1] = Ed!NL => Rows(text, page, d + 1) = Rows(text, page, d) + 1
          /\ text[d + 1] # Ed!NL => Rows(text, page, d + 1) = Rows(text, page, d)
      BY <3>1, RowsFacts
    <3>. QED  BY <3>2
  <2>6. Rows(text, page, c) <= ROW_LEN
    BY <2>2, <2>3, <2>4, <2>5, FilesAssumption
  <2>. QED  BY <1>1, <2>2, <2>3, <2>6, TurnedOn
<1>6. ASSUME c \in 0 .. cursor - 1, \A k \in c + 1 .. cursor - 1 : text[k] # Ed!NL,
             (c = cursor - 1 /\ text[cursor] # Ed!NL) \/ c = Ed!LineStart(text, cursor - 1)
      PROVE  narrow => Shown(text, Turned(text, c, page, page_end), c)
  <2>1. SUFFICES ASSUME narrow  PROVE Shown(text, Turned(text, c, page, page_end), c)
    OBVIOUS
  <2>2. /\ page \in 0 .. cursor /\ (page = 0 \/ text[page] = Ed!NL)
        /\ Rows(text, page, cursor) < ROW_LEN
        /\ Ed!Narrow(text) /\ page_end = Ed!screen_flush(text, page)
    BY <1>1, <2>1 DEF Shown
  <2>3. c \in 0 .. Len(text) - 1 /\ c \in Nat /\ page \in Nat /\ c <= cursor
    BY <1>1, <1>2, <1>6, <2>2
  <2>4. CASE c < page
    <3>1. page = cursor
      <4>1. SUFFICES ASSUME page \in c + 1 .. cursor - 1  PROVE FALSE
        BY <1>2, <2>2, <2>3, <2>4
      <4>. QED  BY <4>1, <1>6, <2>2, <2>3
    <3>2. text[cursor] = Ed!NL /\ page \in 1 .. Len(text)
      BY <1>2, <2>2, <2>3, <2>4, <3>1
    <3>3. Ed!LineStart(text, page - 1) <= c
      BY <1>6, <3>1, <3>2, <2>3
    <3>. QED  BY <1>1, <2>3, <2>4, <3>2, <3>3, TurnedBack
  <2>5. CASE ~(c < page)
    <3>1. page <= c /\ page \in 0 .. c
      BY <2>3, <2>5
    <3>2. Rows(text, page, c) <= Rows(text, page, cursor)
      BY <1>2, <2>3, <3>1, RowsMonotone
    <3>3. Rows(text, page, c) \in Nat /\ Rows(text, page, cursor) \in Nat
      <4>1. page <= cursor
        BY <1>2, <2>2, <2>3
      <4>. QED  BY <1>2, <2>3, <3>1, <4>1, RowsFacts
    <3>4. Rows(text, page, c) <= ROW_LEN
      BY <2>2, <3>2, <3>3, FilesAssumption
    <3>. QED  BY <1>1, <2>2, <2>3, <3>1, <3>4, TurnedOn
  <2>. QED  BY <2>4, <2>5
<1>7. \/ c = cursor
      \/ c \in cursor + 1 .. Len(text) - 1 /\ \A k \in cursor + 1 .. c - 1 : text[k] # Ed!NL
      \/ /\ c \in 0 .. cursor - 1 /\ \A k \in c + 1 .. cursor - 1 : text[k] # Ed!NL
         /\ (c = cursor - 1 /\ text[cursor] # Ed!NL) \/ c = Ed!LineStart(text, cursor - 1)
  <2>1. CASE c = Ed!cursor_next_line
    <3>. DEFINE e == Ed!LineEnd(text, cursor)
    <3>1. /\ e \in cursor .. Len(text)
          /\ \A k \in cursor + 1 .. Len(text) : text[k] = Ed!NL => k > e
      BY <1>1, <1>2, LineEndFacts
    <3>2. c = IF e + 1 < Len(text) THEN e + 1 ELSE cursor
      BY <1>2, <2>1 DEF Ed!cursor_next_line
    <3>. HIDE DEF e
    <3>. QED  BY <1>2, <3>1, <3>2
  <2>2. CASE c = Ed!cursor_prev_line
    <3>1. c = cursor \/ (cursor # 0 /\ c = Ed!LineStart(text, cursor - 1))
      <4>1. CASE cursor = 0 \/ Ed!LineStart(text, cursor - 1) = 0
        BY <2>2, <4>1 DEF Ed!cursor_prev_line
      <4>2. CASE ~(cursor = 0 \/ Ed!LineStart(text, cursor - 1) = 0)
        BY <2>2, <4>2 DEF Ed!cursor_prev_line
      <4>. QED  BY <4>1, <4>2
    <3>2. ASSUME cursor # 0, c = Ed!LineStart(text, cursor - 1)
          PROVE  c \in 0 .. cursor - 1 /\ \A k \in c + 1 .. cursor - 1 : text[k] # Ed!NL
      <4>1. cursor - 1 \in 0 .. Len(text)
        BY <1>2, <3>2
      <4>2. c \in 0 .. cursor - 1 /\ \A k \in 1 .. cursor - 1 : text[k] = Ed!NL => k <= c
        BY <1>1, <3>2, <4>1, LineStartFacts
      <4>. QED  BY <4>2, <1>2
    <3>. QED  BY <3>1, <3>2
  <2>3. CASE c = Ed!Left
    BY <1>2, <2>3 DEF Ed!Left
  <2>4. CASE c = Ed!Right
    BY <1>2, <2>4 DEF Ed!Right
  <2>. QED  BY <1>3, <2>1, <2>2, <2>3, <2>4
<1>8. c \in 0 .. Len(text) - 1 /\ (narrow => Shown(text, Turned(text, c, page, page_end), c))
  BY <1>2, <1>4, <1>5, <1>6, <1>7
<1>. QED  BY <1>1, <1>3, <1>8, ShowSafe

\* An edit at the cursor or behind it leaves the page as it is.
LEMMA ShownSame ==
  ASSUME NEW t, NEW u, NEW p, NEW c \in Nat, Shown(t, p, c), NEW d \in 0 .. c, p <= d,
         \A k \in 1 .. d : u[k] = t[k]
  PROVE  Shown(u, p, d)
<1>1. p \in Nat /\ p \in 0 .. d /\ p <= c /\ d \in Nat /\ d <= c
  BY DEF Shown
<1>2. Rows(u, p, d) = Rows(t, p, d)
  <2>1. \A k \in p + 1 .. d : u[k] = t[k]
    BY <1>1
  <2>. QED  BY <1>1, <2>1, RowsSame
<1>3. Rows(t, p, d) <= Rows(t, p, c) /\ Rows(t, p, d) \in Nat /\ Rows(t, p, c) \in Nat
  BY <1>1, RowsFacts, RowsMonotone
<1>4. p = 0 \/ u[p] = Ed!NL
  BY <1>1 DEF Shown
<1>. QED  BY <1>1, <1>2, <1>3, <1>4, FilesAssumption DEF Shown

\* The key x takes a character that is not the last one.
LEMMA DeleteSafe ==
  ASSUME EditorInv, err = 0, Ed!Delete
  PROVE  EditorInv'
<1>1. /\ text \in Seq(Ed!Char) /\ cursor \in 0 .. Len(text) - 1 /\ text[Len(text)] = Ed!NL
      /\ narrow => /\ Ed!Narrow(text) /\ Shown(text, page, cursor)
                   /\ page_end = Ed!screen_flush(text, page)
  BY DEF EditorInv
<1>2. Len(text) \in Nat /\ cursor \in Nat /\ Ed!size = Len(text)
  BY <1>1 DEF Ed!size
<1>. DEFINE t == Ed!DeleteAt
<1>3. Ed!Show(t, cursor, page, page_end)
  BY DEF Ed!Delete
<1>4. /\ t \in Seq(Ed!Char) /\ cursor \in 0 .. Len(t) - 1 /\ t[Len(t)] = Ed!NL
      /\ \A k \in 1 .. cursor : t[k] = text[k]
  <2>1. CASE cursor = Len(text) - 1
    BY <1>1, <1>2, <2>1 DEF Ed!DeleteAt
  <2>2. CASE cursor # Len(text) - 1
    <3>. DEFINE i == cursor + 1
    <3>1. i \in 1 .. Len(text) /\ i < Len(text) /\ cursor = i - 1
      BY <1>1, <1>2, <2>2
    <3>2. t = RemoveAt(text, i)
      BY <1>2, <2>2 DEF Ed!DeleteAt, Ed!RemoveAt, RemoveAt
    <3>. HIDE DEF t, i
    <3>3. /\ t \in Seq(Ed!Char) /\ Len(t) = Len(text) - 1
          /\ \A j \in 1 .. Len(text) - 1 : t[j] = IF j < i THEN text[j] ELSE text[j + 1]
      BY <1>1, <3>1, <3>2, RemoveAtFacts
    <3>4. Len(text) - 1 \in 1 .. Len(text) - 1 /\ ~(Len(text) - 1 < i) /\ (Len(text) - 1) + 1 = Len(text)
      BY <1>2, <3>1
    <3>5. t[Len(t)] = Ed!NL
      BY <1>1, <3>3, <3>4
    <3>6. \A k \in 1 .. cursor : t[k] = text[k]
      BY <1>2, <3>1, <3>3
    <3>. QED  BY <1>2, <3>1, <3>3, <3>5, <3>6
  <2>. QED  BY <2>1, <2>2
<1>. HIDE DEF t
<1>5. ASSUME narrow, Ed!Narrow(t)  PROVE Shown(t, Turned(t, cursor, page, page_end), cursor)
  <2>1. Shown(text, page, cursor) /\ page_end = Ed!screen_flush(text, page)
    BY <1>1, <1>5
  <2>2. page <= cursor /\ cursor \in 0 .. cursor /\ page \in 0 .. cursor /\ (page = 0 \/ text[page] = Ed!NL)
    BY <1>2, <2>1 DEF Shown
  <2>3. Shown(t, page, cursor)
    BY <1>2, <1>4, <2>1, <2>2, ShownSame
  <2>4. cursor < page_end
    <3>1. /\ page \in 0 .. Len(text) /\ cursor \in page .. Len(text) - 1
          /\ Rows(text, page, cursor) < ROW_LEN
      BY <1>1, <1>2, <2>1, <2>2 DEF Shown
    <3>. QED  BY <1>1, <1>5, <2>1, <2>2, <3>1, ScreenFacts
  <2>5. Turned(t, cursor, page, page_end) = page
    <3>1. page_end \in Int
      <4>1. page \in 0 .. Len(text)
        BY <1>1, <1>2, <2>2
      <4>. QED  BY <1>1, <2>1, <4>1, FlushType
    <3>. QED  BY <1>2, <2>2, <2>4, <3>1 DEF Turned
  <2>. QED  BY <2>3, <2>5
<1>. QED  BY <1>3, <1>4, <1>5, ShowSafe

\* A character typed at the cursor moves it by one; without room the editor ends.
LEMMA InsertSafe ==
  ASSUME EditorInv, err = 0, NEW x \in Ed!Char, Ed!Insert(x)
  PROVE  EditorInv'
<1>1. /\ text \in Seq(Ed!Char) /\ cursor \in 0 .. Len(text) - 1 /\ text[Len(text)] = Ed!NL
      /\ narrow => /\ Ed!Narrow(text) /\ Shown(text, page, cursor)
  BY DEF EditorInv
<1>2. Len(text) \in Nat /\ cursor \in Nat /\ Ed!size = Len(text)
  BY <1>1 DEF Ed!size
<1>3. SUFFICES ASSUME err' = 0  PROVE EditorInv'
  BY DEF EditorInv
<1>. DEFINE t == Ed!InsertAt(text, cursor + 1, x)
            c == cursor + 1
<1>4. Ed!Show(t, c, page, Ed!screen_flush(t, page))
  BY <1>3 DEF Ed!Insert
<1>5. /\ t \in Seq(Ed!Char) /\ Len(t) = Len(text) + 1 /\ t[Len(t)] = Ed!NL
      /\ \A k \in 1 .. cursor : t[k] = text[k]
  <2>1. c \in 1 .. Len(text) + 1 /\ c < Len(text) + 1
    BY <1>1, <1>2
  <2>2. /\ t \in Seq(Ed!Char) /\ Len(t) = Len(text) + 1
        /\ \A j \in 1 .. Len(text) + 1 : t[j] = IF j < c THEN text[j] ELSE IF j = c THEN x ELSE text[j - 1]
    BY <1>1, <2>1, InsertAtFacts
  <2>. HIDE DEF t
  <2>3. t[Len(text) + 1] = text[Len(text)]
    BY <1>2, <2>1, <2>2
  <2>. QED  BY <1>1, <1>2, <2>1, <2>2, <2>3
<1>. HIDE DEF t
<1>6. c \in 0 .. Len(t) - 1 /\ c \in Nat
  BY <1>1, <1>2, <1>5
<1>7. ASSUME narrow, Ed!Narrow(t)
      PROVE  Shown(t, Turned(t, c, page, Ed!screen_flush(t, page)), c)
  <2>1. page \in 0 .. cursor /\ cursor \in 0 .. cursor /\ page <= cursor /\ Shown(text, page, cursor)
    BY <1>1, <1>2, <1>7 DEF Shown
  <2>2. Shown(t, page, cursor)
    BY <1>2, <1>5, <2>1, ShownSame
  <2>3. /\ Rows(t, page, cursor) \in Nat
        /\ t[cursor + 1] = Ed!NL => Rows(t, page, cursor + 1) = Rows(t, page, cursor) + 1
        /\ t[cursor + 1] # Ed!NL => Rows(t, page, cursor + 1) = Rows(t, page, cursor)
    <3>1. page \in Nat
      BY <2>1
    <3>. QED  BY <1>2, <2>1, <3>1, RowsFacts
  <2>4. Rows(t, page, c) <= ROW_LEN
    BY <2>2, <2>3, FilesAssumption DEF Shown
  <2>5. page \in 0 .. c /\ (page = 0 \/ t[page] = Ed!NL)
    BY <1>2, <2>1, <2>2 DEF Shown
  <2>. QED  BY <1>5, <1>6, <1>7, <2>4, <2>5, TurnedOn
<1>. QED  BY <1>4, <1>5, <1>6, <1>7, ShowSafe

\* A backspace takes the character in front of the cursor, and the page goes back with
\* the cursor if that was a line end.
LEMMA BackspaceSafe ==
  ASSUME EditorInv, err = 0, Ed!Backspace
  PROVE  EditorInv'
<1>1. /\ text \in Seq(Ed!Char) /\ cursor \in 0 .. Len(text) - 1 /\ text[Len(text)] = Ed!NL
      /\ narrow => /\ Ed!Narrow(text) /\ Shown(text, page, cursor)
  BY DEF EditorInv
<1>2. Len(text) \in Nat /\ cursor \in Nat /\ cursor # 0
  BY <1>1 DEF Ed!Backspace
<1>. DEFINE t == RemoveAt(text, cursor)
            c == cursor - 1
<1>3. Ed!Show(t, c, page, Len(t))
  BY DEF Ed!Backspace, Ed!RemoveAt, RemoveAt
<1>4. cursor \in 1 .. Len(text) /\ cursor < Len(text)
  BY <1>1, <1>2
<1>5. /\ t \in Seq(Ed!Char) /\ Len(t) = Len(text) - 1
      /\ \A j \in 1 .. Len(text) - 1 : t[j] = IF j < cursor THEN text[j] ELSE text[j + 1]
  BY <1>1, <1>4, RemoveAtFacts
<1>. HIDE DEF t
<1>6. t[Len(t)] = Ed!NL /\ \A k \in 1 .. c : t[k] = text[k]
  <2>1. Len(text) - 1 \in 1 .. Len(text) - 1 /\ ~(Len(text) - 1 < cursor) /\ (Len(text) - 1) + 1 = Len(text)
    BY <1>2, <1>4
  <2>2. t[Len(t)] = Ed!NL
    BY <1>1, <1>5, <2>1
  <2>3. \A k \in 1 .. c : k \in 1 .. Len(text) - 1 /\ k < cursor
    BY <1>2, <1>4
  <2>. QED  BY <1>5, <2>2, <2>3
<1>7. c \in 0 .. Len(t) - 1 /\ c \in Nat /\ c < Len(t) /\ Len(t) \in Int
  BY <1>1, <1>2, <1>4, <1>5
<1>8. ASSUME narrow, Ed!Narrow(t)  PROVE Shown(t, Turned(t, c, page, Len(t)), c)
  <2>1. page \in 0 .. cursor /\ Shown(text, page, cursor)
    BY <1>1, <1>8 DEF Shown
  <2>2. CASE page = cursor
    <3>1. page \in 1 .. Len(t) /\ c < page /\ page - 1 = c /\ c \in 0 .. Len(t)
      BY <1>2, <1>4, <1>5, <1>7, <2>2
    <3>2. Ed!LineStart(t, page - 1) \in 0 .. c
      BY <1>5, <3>1, LineStartFacts
    <3>3. Ed!LineStart(t, page - 1) <= c
      BY <3>2, <1>7
    <3>. QED  BY <1>5, <1>7, <3>1, <3>3, TurnedBack
  <2>3. CASE page # cursor
    <3>1. page <= c /\ c \in 0 .. cursor
      BY <1>2, <2>1, <2>3
    <3>2. Shown(t, page, c)
      BY <1>2, <1>6, <2>1, <3>1, ShownSame
    <3>. QED  BY <1>7, <3>2, TurnedNot
  <2>. QED  BY <2>2, <2>3
<1>. QED  BY <1>3, <1>5, <1>6, <1>7, <1>8, ShowSafe

\* The editor, whatever is typed, keeps the cursor in the text and on the screen.
LEMMA EditorSafe ==
  ASSUME EditorInv, [Ed!Next]_edit_vars
  PROVE  EditorInv'
<1>1. ASSUME UNCHANGED <<text, cursor, page, narrow>>, page_end' = page_end, err' = 0 => err = 0
      PROVE  EditorInv'
  BY <1>1 DEF EditorInv
<1>2. ASSUME err = 0, Ed!Show(text, cursor, page, page_end)
      PROVE  EditorInv'
  <2>1. /\ text \in Seq(Ed!Char) /\ cursor \in 0 .. Len(text) - 1 /\ text[Len(text)] = Ed!NL
        /\ narrow => /\ Ed!Narrow(text) /\ Shown(text, page, cursor)
                     /\ page_end = Ed!screen_flush(text, page)
    BY <1>2 DEF EditorInv
  <2>2. ASSUME narrow, Ed!Narrow(text)  PROVE Shown(text, Turned(text, cursor, page, page_end), cursor)
    <3>1. /\ page \in 0 .. cursor /\ (page = 0 \/ text[page] = Ed!NL)
          /\ Rows(text, page, cursor) < ROW_LEN /\ page_end = Ed!screen_flush(text, page)
      BY <2>1, <2>2 DEF Shown
    <3>2. Rows(text, page, cursor) \in Nat
      <4>1. page \in Nat /\ cursor \in Nat /\ page <= cursor
        BY <2>1, <3>1
      <4>. QED  BY <4>1, RowsFacts
    <3>3. Rows(text, page, cursor) <= ROW_LEN
      BY <3>1, <3>2, FilesAssumption
    <3>. QED  BY <2>1, <2>2, <3>1, <3>3, TurnedOn
  <2>. QED  BY <1>2, <2>1, <2>2, ShowSafe
<1>3. ASSUME NEW n \in 0 .. MaxFile, NEW file \in [1 .. n -> Ed!Char \cup {Ed!CR}], Ed!Open(file)
      PROVE  EditorInv'
  <2>1. n \in Nat
    BY FilesAssumption
  <2>. QED  BY <1>3, <2>1, OpenSafe
<1>4. CASE UNCHANGED edit_vars
  BY <1>1, <1>4 DEF edit_vars
<1>5. CASE Ed!Key
  <2>1. err = 0
    BY <1>5 DEF Ed!Key
  <2>2. CASE Ed!Move
    BY <2>1, <2>2, MoveSafe
  <2>3. CASE Ed!Delete
    BY <2>1, <2>3, DeleteSafe
  <2>4. CASE Ed!ToInsert
    BY <2>4, <1>1 DEF Ed!ToInsert
  <2>5. CASE Ed!ToLastLine
    BY <2>1, <2>5, <1>2 DEF Ed!ToLastLine
  <2>6. CASE Ed!Backspace
    BY <2>1, <2>6, BackspaceSafe
  <2>7. CASE Ed!ToCommand
    BY <2>7, <1>1 DEF Ed!ToCommand
  <2>8. ASSUME NEW x \in Ed!Char, Ed!Insert(x)  PROVE EditorInv'
    BY <2>1, <2>8, InsertSafe
  <2>9. ASSUME NEW key, Ed!LastLine(key)  PROVE EditorInv'
    <3>1. page_end' = Ed!screen_flush(text, page) /\ UNCHANGED <<text, cursor, page, narrow>>
      BY <2>9 DEF Ed!LastLine, Ed!Refreshed
    <3>. QED  BY <2>1, <3>1 DEF EditorInv
  <2>. QED  BY <1>5, <2>2, <2>3, <2>4, <2>5, <2>6, <2>7, <2>8, <2>9 DEF Ed!Key
<1>. QED  BY <1>3, <1>4, <1>5 DEF Ed!Next, edit_vars, Ed!edit_vars

\* Every step of the shell is one of the editor's, or leaves it alone.
LEMMA EditorInvariance == FilesSpec => []EditorInv
<1>1. FilesInit => EditorInv
  BY DEF FilesInit, Ed!Init, EditorInv
<1>2. EditorInv /\ [FilesNext]_<<vars, current_fs, ext_vars, edit_vars>> => EditorInv'
  <2>1. [FilesNext]_<<vars, current_fs, ext_vars, edit_vars>> => [Ed!Next]_edit_vars
    BY DEF FilesNext, ChangeFs, ToFat, ToExt, ToEditor
  <2>. QED  BY <2>1, EditorSafe
<1>. QED  BY <1>1, <1>2, PTL DEF FilesSpec

\* While the editor runs the cursor is on a character of the text, which ends with a line
\* end, whatever is inserted, deleted and moved; and it is on the screen as long as no line
\* has filled a row, for every size of the screen: the page turns by one line and no key
\* moves the cursor by more.
THEOREM CursorShownHolds == FilesSpec => []CursorShown
<1>1. EditorInv => CursorShown
  <2>1. SUFFICES ASSUME EditorInv, err = 0
                 PROVE  /\ cursor \in 0 .. Ed!size - 1 /\ Ed!Last(text) = Ed!NL
                        /\ narrow => page <= cursor /\ cursor < page_end
    BY DEF CursorShown, Ed!CursorShown
  <2>2. /\ text \in Seq(Ed!Char) /\ cursor \in 0 .. Len(text) - 1 /\ text[Len(text)] = Ed!NL
        /\ narrow => /\ Ed!Narrow(text) /\ Shown(text, page, cursor)
                     /\ page_end = Ed!screen_flush(text, page)
    BY <2>1 DEF EditorInv
  <2>3. ASSUME narrow  PROVE page <= cursor /\ cursor < page_end
    <3>1. /\ page \in 0 .. cursor /\ (page = 0 \/ text[page] = Ed!NL)
          /\ Rows(text, page, cursor) < ROW_LEN
      BY <2>2, <2>3 DEF Shown
    <3>2. page \in 0 .. Len(text) /\ cursor \in page .. Len(text) - 1 /\ page <= cursor
      BY <2>2, <3>1
    <3>. QED  BY <2>2, <2>3, <3>1, <3>2, ScreenFacts
  <2>. QED  BY <2>2, <2>3 DEF Ed!size, Ed!Last
<1>. QED  BY <1>1, EditorInvariance, PTL

-----------------------------------------------------------------------------
(* FAT32 below the shell *)

\* What the shell does with FAT32, between changes of the file system and the editor's
\* keys, is a behaviour of Fat: what is proved of Fat holds there.
THEOREM ShellRunsFat == FilesSpec => Spec
<1>1. FilesInit => Init
  BY DEF FilesInit
<1>2. [FilesNext]_<<vars, current_fs, ext_vars, edit_vars>> => [Next]_vars
  BY DEF FilesNext, ChangeFs, ToFat, ToExt, ToEditor
<1>. QED  BY <1>1, <1>2, PTL DEF FilesSpec, Spec

\* Also under the shell files share no cluster, the card is sound after each transfer, names
\* are unique, and only rm takes the last name of a file.
THEOREM FatUnderShell == FilesSpec => [](ChainsApart /\ CardSound /\ NamesOnce) /\ FilesKept
<1>. QED  BY ShellRunsFat, ChainsApartHolds, CardSoundHolds, NamesOnceHolds, FilesKeptHolds, PTL
-----------------------------------------------------------------------------
(* What ext2 keeps on its card *)

\* The three files that the card has at first, wherever they are moved to.
Contents == {<<5, 6>>, <<7>>, <<8>>}

\* What there should be: Second lies in the directory of block 7 or in the root.
FilesOK(F) ==
    /\ F \in [DOMAIN F -> Contents] /\ DOMAIN F \subseteq E!Path
    /\ \A p, q \in DOMAIN F : F[p] = F[q] => p = q
    /\ \A p \in DOMAIN F : Len(p) = 2 =>
          /\ p[2] = E!Second /\ F[p] = <<8>>
          /\ <<p[1]>> \in DOMAIN F /\ F[<<p[1]>>] = <<7>>

\* The last entry takes what the others leave of the block.
Filled(d) == \A o \in 1 .. Len(d) : d[o].len = IF o = Len(d) THEN BlockLen - Len(d) + 1 ELSE 1

\* The root directory, and that of block 7 with Second and without it.
RootOK(d) ==
    /\ d \in Seq(E!Entry) /\ Len(d) >= 1
    /\ d[1].name = E!Dot /\ d[1].inode = E!RootInode
    /\ \A o \in 2 .. Len(d) : d[o].name \in ExtNames
    /\ \A o, k \in 1 .. Len(d) : d[o].name = d[k].name => o = k
    /\ Filled(d)
SubFull == <<E!Made(E!Dot, 12, "dir", 1), E!Made(E!Second, 13, "file", BlockLen - 1)>>
SubLeft == <<E!Made(E!Dot, 12, "dir", BlockLen)>>

ExtCard == [blockBits : SUBSET E!Block, inodeBits : SUBSET E!Inode,
            inodes : [E!Inode -> Seq(E!Block)], dirs : [{4, 7} -> Seq(E!Entry)]]
Laid(c) ==
    /\ c \in ExtCard
    /\ RootOK(c.dirs[4]) /\ c.dirs[7] \in {SubFull, SubLeft}
    /\ c.inodes[E!RootInode] = <<4>>

\* The card has inode i of type t under path p.
InRoot(c, n, i, t) ==
    \E o \in 2 .. Len(c.dirs[4]) : /\ c.dirs[4][o].name = n
                                   /\ c.dirs[4][o].inode = i /\ c.dirs[4][o].type = t
At(c, p, i, t) ==
    \/ Len(p) = 1 /\ InRoot(c, p[1], i, t)
    \/ /\ Len(p) = 2 /\ p[2] = E!Second /\ c.dirs[7] = SubFull /\ i = 13 /\ t = "file"
       /\ \E j \in E!Inode : InRoot(c, p[1], j, "dir") /\ c.inodes[j] = <<7>>

\* The card has file p with contents b, in inode i of type t.
HasIn(c, p, b, i, t) ==
    /\ At(c, p, i, t) /\ (t = "dir" <=> b = <<7>>)
    /\ i \in c.inodeBits /\ c.inodes[i] = b /\ E!ToSet(b) \subseteq c.blockBits
HasFile(c, p, b) == \E i \in E!Inode \ E!Reserved, t \in {"file", "dir"} : HasIn(c, p, b, i, t)

ExtGood(c, F, S) == Laid(c) /\ \A p \in S : HasFile(c, p, F[p])

\* What a command leads to: nothing but the files is on the card.
ExtTarget(c, F) ==
    /\ ExtGood(c, F, DOMAIN F)
    /\ \A o \in 2 .. Len(c.dirs[4]) : <<c.dirs[4][o].name>> \in DOMAIN F
    /\ c.dirs[7] = SubFull =>
          \A p \in DOMAIN F : F[p] = <<7>> => <<p[1], E!Second>> \in DOMAIN F
    /\ E!Reserved \subseteq c.inodeBits
    /\ \A i \in c.inodeBits \ E!Reserved :
          i = 13 \/ \E p \in DOMAIN F, t \in {"file", "dir"} : At(c, p, i, t)

\* The files that there should be on card c, as far as they are in S.
ExtCards(F, S) == {c \in ExtCard : ExtGood(c, F, S)}

-----------------------------------------------------------------------------
(* Transfers of ext2 *)

ExtFields == {"blockBits", "inodeBits", "inodes", "dirs"}
ExtTransfers == ExtFields \X ((SUBSET E!Block) \cup (SUBSET E!Inode)
                                \cup [E!Inode -> Seq(E!Block)] \cup [{4, 7} -> Seq(E!Entry)])
ExtPut(c, t) == [c EXCEPT ![t[1]] = t[2]]

\* The transfers L lead from card c to card e, by way of the cards r of the set G.
Through(r, c, L, e, G) ==
    /\ r \in [1 .. Len(L) + 1 -> G] /\ r[1] = c /\ r[Len(L) + 1] = e
    /\ \A i \in 1 .. Len(L) : r[i + 1] = ExtPut(r[i], L[i])
ExtLeads(c, L, e, G) == L \in Seq(ExtTransfers) /\ \E r : Through(r, c, L, e, G)

\* The card that the transfers make is reached with the last one that changes something,
\* and what is left after one of them leads there too.
LEMMA ExtLeadsDue ==
  ASSUME NEW G \in SUBSET ExtCard, NEW c, NEW e, NEW L, ExtLeads(c, L, e, G)
  PROVE  /\ c \in G /\ e \in G
         /\ E!Due(c, L) = <<>> => c = e
         /\ E!Due(c, L) # <<>> =>
               /\ Head(E!Due(c, L)) \in ExtTransfers
               /\ ExtLeads(ExtPut(c, Head(E!Due(c, L))), Tail(E!Due(c, L)), e, G)
         /\ E!Due(c, L) \in Seq(ExtTransfers)
<1>1. PICK r : Through(r, c, L, e, G)
  BY DEF ExtLeads
<1>. DEFINE n == Len(L)
            change == {i \in DOMAIN L : c[L[i][1]] # L[i][2]}
<1>2. /\ L \in Seq(ExtTransfers) /\ n \in Nat /\ DOMAIN L = 1 .. n
      /\ \A i \in 1 .. n : L[i] \in ExtTransfers
  <2>1. L \in Seq(ExtTransfers)
    BY DEF ExtLeads
  <2>. QED  BY <2>1, LenProperties, ElementOfSeq
<1>3. /\ r \in [1 .. n + 1 -> G] /\ r[1] = c /\ r[n + 1] = e
      /\ \A i \in 1 .. n : r[i + 1] = ExtPut(r[i], L[i])
  BY <1>1 DEF Through
<1>4. change = {i \in 1 .. n : c[L[i][1]] # L[i][2]} /\ change \in SUBSET Nat
  BY <1>2
<1>5. E!Due(c, L) = IF change = {} THEN <<>> ELSE SubSeq(L, E!Min(change), n)
  BY DEF E!Due
<1>. HIDE DEF n, change
<1>6. c \in G /\ e \in G /\ c \in ExtCard
  <2>1. 1 \in 1 .. n + 1 /\ n + 1 \in 1 .. n + 1
    BY <1>2
  <2>. QED  BY <1>3, <2>1
<1>7. ASSUME NEW t \in ExtTransfers, c[t[1]] = t[2]  PROVE ExtPut(c, t) = c
  <2>1. t[1] \in ExtFields
    BY DEF ExtTransfers
  <2>2. DOMAIN c = ExtFields /\ c = [f \in ExtFields |-> c[f]]
    BY <1>6 DEF ExtCard, ExtFields
  <2>. HIDE DEF ExtFields, ExtCard, ExtTransfers
  <2>. QED  BY <1>7, <2>1, <2>2 DEF ExtPut
<1>8. ASSUME NEW m \in 1 .. n + 1, \A i \in 1 .. m - 1 : i \notin change  PROVE r[m] = c
  <2>. DEFINE S == {k \in 0 .. m - 1 : r[k + 1] = c}
  <2>1. m - 1 \in Nat /\ (m - 1) + 1 = m /\ 0 \in S
    BY <1>2, <1>3
  <2>2. \A k \in 0 .. (m - 1) - 1 : k \in S => k + 1 \in S
    <3>1. SUFFICES ASSUME NEW k \in 0 .. (m - 1) - 1, k \in S  PROVE k + 1 \in S
      OBVIOUS
    <3>2. k + 1 \in 1 .. n /\ k + 1 \in 1 .. m - 1 /\ k + 1 \in 0 .. m - 1
      BY <1>2
    <3>3. r[(k + 1) + 1] = ExtPut(c, L[k + 1])
      BY <1>3, <3>1, <3>2
    <3>4. c[L[k + 1][1]] = L[k + 1][2]
      BY <1>4, <1>8, <3>2
    <3>. QED  BY <1>2, <1>7, <3>2, <3>3, <3>4
  <2>3. \A k \in 0 .. m - 1 : k \in S
    <3>. HIDE DEF S
    <3>. QED  BY <2>1, <2>2, UpTo
  <2>4. m - 1 \in 0 .. m - 1
    BY <2>1
  <2>. QED  BY <2>1, <2>3, <2>4
<1>9. CASE change = {}
  <2>1. E!Due(c, L) = <<>> /\ r[n + 1] = c
    <3>1. n + 1 \in 1 .. n + 1
      BY <1>2
    <3>. QED  BY <1>5, <1>8, <1>9, <3>1
  <2>. QED  BY <1>3, <1>6, <2>1
<1>10. CASE change # {}
  <2>1. PICK m \in change : \A i \in change : m <= i
    BY <1>4, <1>10, LeastExists
  <2>2. E!Min(change) = m
    <3>1. E!Min(change) \in change /\ \A i \in change : E!Min(change) <= i
      BY <2>1 DEF E!Min
    <3>2. E!Min(change) <= m /\ m <= E!Min(change) /\ m \in Nat /\ E!Min(change) \in Nat
      BY <1>4, <2>1, <3>1
    <3>. QED  BY <3>2
  <2>3. m \in 1 .. n /\ m \in Nat /\ m \in 1 .. n + 1
    BY <1>2, <1>4, <2>1
  <2>4. r[m] = c
    <3>1. \A i \in 1 .. m - 1 : i \notin change
      BY <1>4, <2>1
    <3>. QED  BY <1>8, <2>3, <3>1
  <2>. DEFINE D == SubSeq(L, m, n)
              M == Tail(D)
              k == n - m
              q == [i \in 1 .. k + 1 |-> r[i + m]]
  <2>5. /\ D \in Seq(ExtTransfers) /\ Len(D) = k + 1
        /\ \A i \in 1 .. k + 1 : D[i] = L[m + i - 1]
    <3>1. \A i \in m .. n : L[i] \in ExtTransfers
      BY <1>2, <2>3
    <3>2. n - m + 1 = k + 1 /\ m <= n /\ n \in Int /\ m \in Int
      BY <1>2, <2>3
    <3>. QED  BY <3>1, <3>2, SubSeqProperties
  <2>6. k \in Nat
    BY <1>2, <2>3
  <2>. HIDE DEF D
  <2>7. D # <<>> /\ Head(D) = D[1] /\ D[1] = L[m]
    <3>1. D # <<>>
      BY <2>5, <2>6
    <3>2. 1 \in 1 .. k + 1 /\ m + 1 - 1 = m
      BY <2>3, <2>6
    <3>. QED  BY <2>5, <3>1, <3>2
  <2>8. M \in Seq(ExtTransfers) /\ Len(M) = k /\ \A i \in 1 .. k : M[i] = L[i + m]
    <3>1. M \in Seq(ExtTransfers) /\ Len(M) = (k + 1) - 1 /\ \A i \in 1 .. Len(M) : M[i] = D[i + 1]
      BY <2>5, <2>7, HeadTailProperties
    <3>2. ASSUME NEW i \in 1 .. k  PROVE i + 1 \in 1 .. k + 1 /\ m + (i + 1) - 1 = i + m
      BY <2>3, <2>6
    <3>3. Len(M) = k
      BY <2>6, <3>1
    <3>. HIDE DEF M
    <3>. QED  BY <2>5, <3>1, <3>2, <3>3
  <2>. HIDE DEF M, k
  <2>9. n = k + m /\ \A i \in 1 .. k + 1 : i + m \in 1 .. n + 1
    BY <1>2, <2>3 DEF k
  <2>10. q \in [1 .. k + 1 -> G]
    BY <1>3, <2>9
  <2>11. q[1] = ExtPut(c, L[m]) /\ q[k + 1] = e
    <3>1. 1 \in 1 .. k + 1 /\ k + 1 \in 1 .. k + 1 /\ (k + 1) + m = n + 1 /\ 1 + m = m + 1
      BY <2>3, <2>6, <2>9
    <3>. QED  BY <1>3, <2>3, <2>4, <3>1
  <2>12. ASSUME NEW i \in 1 .. k  PROVE q[i + 1] = ExtPut(q[i], M[i])
    <3>1. i \in 1 .. k + 1 /\ i + 1 \in 1 .. k + 1 /\ i + m \in 1 .. n /\ (i + 1) + m = (i + m) + 1
      BY <2>3, <2>6, <2>9
    <3>2. r[(i + m) + 1] = ExtPut(r[i + m], L[i + m])
      BY <1>3, <3>1
    <3>. QED  BY <2>8, <3>1, <3>2
  <2>. HIDE DEF q
  <2>13. Through(q, ExtPut(c, L[m]), M, e, G)
    BY <2>8, <2>10, <2>11, <2>12 DEF Through
  <2>14. ExtLeads(ExtPut(c, L[m]), M, e, G)
    BY <2>8, <2>13 DEF ExtLeads
  <2>15. E!Due(c, L) = D
    BY <1>5, <1>10, <2>2 DEF D
  <2>16. L[m] \in ExtTransfers
    BY <1>2, <2>3
  <2>. QED  BY <1>6, <2>5, <2>7, <2>14, <2>15, <2>16 DEF M
<1>. QED  BY <1>9, <1>10

-----------------------------------------------------------------------------
(* Directories of ext2 *)

\* A block has room for an entry of every name and one more.
LEMMA NamesFacts ==
  /\ E!First \in ExtNames \ {Dir} /\ E!Second \in ExtNames \ {Dir, E!First}
  /\ Dir \in ExtNames /\ E!Dot \notin ExtNames
  /\ BlockLen \in Nat /\ BlockLen >= 5 /\ inode_per_group \in Nat /\ inode_per_group >= 64
<1>1. /\ IsFiniteSet(ExtNames) /\ Cardinality(ExtNames) \in Nat /\ Cardinality(ExtNames) >= 3
  BY FilesAssumption, FS_CardinalityType
<1>2. BlockLen >= 5 /\ inode_per_group >= 64
  BY <1>1, FilesAssumption
<1>. DEFINE A == ExtNames \ {Dir}
            B == A \ {E!First}
<1>a. ASSUME NEW S, NEW x, IsFiniteSet(S)
      PROVE  /\ IsFiniteSet(S \ {x}) /\ Cardinality(S) \in Nat /\ Cardinality(S \ {x}) \in Nat
             /\ Cardinality(S \ {x}) >= Cardinality(S) - 1
  <2>1. IsFiniteSet(S \ {x})
    BY <1>a, FS_RemoveElement
  <2>2. Cardinality(S) \in Nat /\ Cardinality(S \ {x}) \in Nat
    BY <1>a, <2>1, FS_CardinalityType
  <2>3. Cardinality(S \ {x}) = IF x \in S THEN Cardinality(S) - 1 ELSE Cardinality(S)
    BY <1>a, FS_RemoveElement
  <2>. QED  BY <2>1, <2>2, <2>3
<1>3. IsFiniteSet(A) /\ Cardinality(A) \in Nat /\ Cardinality(A) >= 2
  <2>1. IsFiniteSet(A) /\ Cardinality(A) \in Nat /\ Cardinality(A) >= Cardinality(ExtNames) - 1
    BY <1>1, <1>a
  <2>. HIDE DEF A
  <2>. QED  BY <1>1, <2>1
<1>4. ExtNames \ {Dir} # {}
  BY <1>3, FS_EmptySet
<1>5. E!First \in ExtNames \ {Dir}
  BY <1>4 DEF E!First
<1>6. IsFiniteSet(B) /\ Cardinality(B) >= 1
  <2>. HIDE DEF A
  <2>1. IsFiniteSet(B) /\ Cardinality(B) \in Nat /\ Cardinality(B) >= Cardinality(A) - 1
    BY <1>3, <1>a
  <2>. HIDE DEF B
  <2>. QED  BY <1>3, <2>1
<1>7. ExtNames \ {Dir, E!First} # {}
  <2>1. B # {}
    BY <1>6, FS_EmptySet
  <2>. QED  BY <2>1
<1>8. E!Second \in ExtNames \ {Dir, E!First}
  BY <1>7 DEF E!Second
<1>. QED  BY <1>2, <1>5, <1>8, FilesAssumption DEF E!Dot

\* What the entries of a directory add up to.
LEMMA LengthIs ==
  ASSUME NEW d, NEW n \in Nat, Len(d) = n, \A i \in 1 .. n : d[i].len \in Nat,
         NEW W \in [0 .. n -> Nat], W[0] = 0, \A i \in 1 .. n : W[i] = W[i - 1] + d[i].len
  PROVE  E!Length(d) = W[n]
<1>. DEFINE sum == CHOOSE sum : sum = [i \in 0 .. n |-> IF i = 0 THEN 0 ELSE sum[i - 1] + d[i].len]
            T == {i \in 0 .. n : sum[i] # W[i]}
<1>1. E!Length(d) = sum[n]
  BY DEF E!Length
<1>2. W = [i \in 0 .. n |-> IF i = 0 THEN 0 ELSE W[i - 1] + d[i].len]
  OBVIOUS
<1>3. sum = [i \in 0 .. n |-> IF i = 0 THEN 0 ELSE sum[i - 1] + d[i].len]
  BY <1>2
<1>. HIDE DEF sum
<1>4. sum[0] = 0 /\ \A i \in 1 .. n : sum[i] = sum[i - 1] + d[i].len
  <2>1. sum[0] = 0
    BY <1>3
  <2>2. ASSUME NEW i \in 1 .. n  PROVE sum[i] = sum[i - 1] + d[i].len
    BY <1>3
  <2>. QED  BY <2>1, <2>2
<1>5. T = {}
  <2>1. SUFFICES ASSUME T # {}  PROVE FALSE
    OBVIOUS
  <2>2. PICK i \in T : \A k \in T : i <= k
    <3>1. T \in SUBSET Nat
      OBVIOUS
    <3>. HIDE DEF T
    <3>. QED  BY <2>1, <3>1, LeastExists
  <2>3. i \in 1 .. n /\ i - 1 \in 0 .. n /\ i - 1 \notin T
    BY <1>4, <2>2
  <2>4. sum[i - 1] = W[i - 1]
    BY <2>3
  <2>5. sum[i] = W[i]
    BY <1>4, <2>3, <2>4
  <2>. QED  BY <2>2, <2>5
<1>6. n \in 0 .. n /\ n \notin T
  BY <1>5
<1>. QED  BY <1>1, <1>6

\* A directory whose last entry takes the rest fills its block.
LEMMA FilledFacts ==
  ASSUME NEW d \in Seq(E!Entry), Len(d) >= 1, Filled(d)
  PROVE  /\ E!Length(d) = BlockLen /\ E!Rest(d) = BlockLen - Len(d)
         /\ Len(d) \in Nat /\ Len(d) <= BlockLen
<1>. DEFINE n == Len(d)
            W == [i \in 0 .. n |-> IF i = n THEN BlockLen ELSE i]
            V == [i \in 0 .. n - 1 |-> i]
            f == SubSeq(d, 1, n - 1)
<1>1. /\ n \in Nat /\ n >= 1 /\ BlockLen \in Nat
      /\ \A i \in 1 .. n : d[i] \in E!Entry /\ d[i].len \in 1 .. BlockLen
  <2>1. \A i \in 1 .. n : d[i] \in E!Entry
    BY ElementOfSeq, LenProperties
  <2>2. \A e \in E!Entry : e.len \in 1 .. BlockLen
    BY DEF E!Entry
  <2>. QED  BY <2>1, <2>2, LenProperties, FilesAssumption
<1>2. \A i \in 1 .. n : d[i].len = IF i = n THEN BlockLen - n + 1 ELSE 1
  BY DEF Filled
<1>. HIDE DEF n
<1>3. n <= BlockLen
  <2>1. n \in 1 .. n
    BY <1>1
  <2>2. BlockLen - n + 1 \in 1 .. BlockLen
    BY <1>1, <1>2, <2>1
  <2>. QED  BY <1>1, <2>2
<1>4. E!Length(d) = BlockLen
  <2>1. W \in [0 .. n -> Nat] /\ W[0] = 0 /\ W[n] = BlockLen
    BY <1>1
  <2>2. \A i \in 1 .. n : W[i] = W[i - 1] + d[i].len
    <3>1. ASSUME NEW i \in 1 .. n  PROVE W[i] = W[i - 1] + d[i].len
      <4>1. i - 1 \in 0 .. n /\ i - 1 # n /\ i \in 0 .. n
        BY <1>1
      <4>2. W[i - 1] = i - 1 /\ W[i] = IF i = n THEN BlockLen ELSE i
        BY <4>1
      <4>. HIDE DEF W
      <4>. QED  BY <1>1, <1>2, <4>2
    <3>. QED  BY <3>1
  <2>3. \A i \in 1 .. n : d[i].len \in Nat
    BY <1>1
  <2>. HIDE DEF W
  <2>. QED  BY <1>1, <2>1, <2>2, <2>3, LengthIs DEF n
<1>5. f \in Seq(E!Entry) /\ Len(f) = n - 1 /\ \A i \in 1 .. n - 1 : f[i] = d[i]
  <2>1. \A i \in 1 .. n - 1 : d[i] \in E!Entry
    BY <1>1
  <2>2. n - 1 \in Int /\ 1 \in Int /\ Len(f) = (IF 1 <= n - 1 THEN n - 1 - 1 + 1 ELSE 0)
        /\ f \in Seq(E!Entry) /\ \A i \in 1 .. n - 1 - 1 + 1 : f[i] = d[1 + i - 1]
    BY <1>1, <2>1, SubSeqProperties
  <2>. HIDE DEF f
  <2>. QED  BY <1>1, <2>2
<1>6. E!Length(f) = n - 1
  <2>1. V \in [0 .. n - 1 -> Nat] /\ V[0] = 0 /\ V[n - 1] = n - 1 /\ n - 1 \in Nat
    BY <1>1
  <2>2. \A i \in 1 .. n - 1 : V[i] = V[i - 1] + f[i].len
    <3>1. ASSUME NEW i \in 1 .. n - 1  PROVE V[i] = V[i - 1] + f[i].len
      <4>1. V[i] = i /\ V[i - 1] = i - 1 /\ i - 1 \in Int
        BY <1>1
      <4>2. f[i].len = 1
        BY <1>1, <1>2, <1>5
      <4>. HIDE DEF V, f
      <4>. QED  BY <4>1, <4>2
    <3>. QED  BY <3>1
  <2>3. \A i \in 1 .. n - 1 : f[i].len \in Nat
    BY <1>1, <1>5
  <2>. HIDE DEF V, f
  <2>. QED  BY <1>5, <2>1, <2>2, <2>3, LengthIs
<1>7. E!Rest(d) = BlockLen - n
  <2>1. E!Rest(d) = BlockLen - (n - 1) - 1
    BY <1>6 DEF E!Rest, E!Front, n
  <2>. QED  BY <1>1, <2>1
<1>. QED  BY <1>1, <1>3, <1>4, <1>7 DEF n

\* Two entries say the same of the same name.
Alike(a, b) == a.name = b.name /\ a.inode = b.inode /\ a.type = b.type

\* An entry is removed from the root, and the others stay.
LEMMA RemovedFacts ==
  ASSUME NEW d, RootOK(d), NEW o \in 2 .. Len(d)
  PROVE  /\ RootOK(E!Removed(d, o)) /\ Len(E!Removed(d, o)) = Len(d) - 1
         /\ \A k \in (2 .. Len(d)) \ {o} :
               \E j \in 2 .. Len(E!Removed(d, o)) : Alike(E!Removed(d, o)[j], d[k])
         /\ \A j \in 2 .. Len(E!Removed(d, o)) :
               \E k \in (2 .. Len(d)) \ {o} : Alike(E!Removed(d, o)[j], d[k])
<1>. DEFINE n == Len(d)
            r == E!RemoveAt(d, o)
            d2 == E!Removed(d, o)
            at(j) == IF j < o THEN j ELSE j + 1
<1>1. /\ d \in Seq(E!Entry) /\ n \in Nat /\ n >= 2 /\ DOMAIN d = 1 .. n
      /\ \A i \in 1 .. n : d[i] \in E!Entry /\ d[i].len \in 1 .. BlockLen
      /\ BlockLen \in Nat
  <2>1. d \in Seq(E!Entry)
    BY DEF RootOK
  <2>2. \A e \in E!Entry : e.len \in 1 .. BlockLen
    BY DEF E!Entry
  <2>. QED  BY <2>1, <2>2, LenProperties, ElementOfSeq, FilesAssumption
<1>2. /\ d[1].name = E!Dot /\ d[1].inode = E!RootInode
      /\ \A k \in 2 .. n : d[k].name \in ExtNames
      /\ \A i, k \in 1 .. n : d[i].name = d[k].name => i = k
      /\ \A i \in 1 .. n : d[i].len = IF i = n THEN BlockLen - n + 1 ELSE 1
  BY DEF RootOK, Filled
<1>3. /\ r \in Seq(E!Entry) /\ Len(r) = n - 1
      /\ \A j \in 1 .. n - 1 : r[j] = IF j < o THEN d[j] ELSE d[j + 1]
  <2>1. r = RemoveAt(d, o)
    BY DEF E!RemoveAt, RemoveAt
  <2>. HIDE DEF r
  <2>2. o \in 1 .. Len(d)
    BY <1>1
  <2>. QED  BY <1>1, <2>1, <2>2, RemoveAtFacts
<1>4. o \in 2 .. n /\ o \in 1 .. n /\ o \in DOMAIN d
  BY <1>1
<1>5. d2 = [r EXCEPT ![n - 1].len = @ + d[o].len]
  BY <1>3, <1>4 DEF E!Removed
<1>. HIDE DEF n, r, d2
<1>6. DOMAIN r = 1 .. n - 1
  BY <1>1, <1>3, LenProperties
<1>7. d2[n - 1] = [r[n - 1] EXCEPT !.len = r[n - 1].len + d[o].len]
      /\ (\A j \in 1 .. n - 2 : d2[j] = r[j]) /\ DOMAIN d2 = 1 .. n - 1
  <2>1. n - 1 \in 1 .. n - 1
    BY <1>1
  <2>. QED  BY <1>1, <1>5, <1>6, <2>1
<1>8. \A j \in 1 .. n - 1 : at(j) \in 1 .. n /\ at(j) # o /\ r[j] = d[at(j)]
  BY <1>1, <1>3, <1>4
<1>9. \A j \in 1 .. n - 1 : r[j] \in E!Entry
  BY <1>1, <1>8
<1>10. r[n - 1].len + d[o].len = BlockLen - (n - 1) + 1
  <2>1. n - 1 \in 1 .. n - 1 /\ n - 1 \in 1 .. n
    BY <1>1
  <2>2. CASE o = n
    <3>1. r[n - 1] = d[n - 1] /\ n - 1 # n
      BY <1>1, <1>3, <2>1, <2>2
    <3>. QED  BY <1>1, <1>2, <1>4, <2>1, <2>2, <3>1
  <2>3. CASE o # n
    <3>1. ~(n - 1 < o) /\ (n - 1) + 1 = n /\ n \in 1 .. n
      BY <1>1, <1>4, <2>3
    <3>2. r[n - 1] = d[n]
      BY <1>3, <2>1, <3>1
    <3>. QED  BY <1>1, <1>2, <1>4, <2>3, <3>1, <3>2
  <2>. QED  BY <2>2, <2>3
<1>11. \A j \in 1 .. n - 1 :
          /\ d2[j].name = r[j].name /\ d2[j].inode = r[j].inode /\ d2[j].type = r[j].type
          /\ d2[j].len = IF j = n - 1 THEN BlockLen - (n - 1) + 1 ELSE 1
          /\ d2[j] \in E!Entry
  <2>1. SUFFICES ASSUME NEW j \in 1 .. n - 1
        PROVE  /\ d2[j].name = r[j].name /\ d2[j].inode = r[j].inode /\ d2[j].type = r[j].type
               /\ d2[j].len = IF j = n - 1 THEN BlockLen - (n - 1) + 1 ELSE 1
               /\ d2[j] \in E!Entry
    OBVIOUS
  <2>2. r[j] \in E!Entry
    BY <1>9
  <2>3. CASE j = n - 1
    <3>1. d2[j] = [r[j] EXCEPT !.len = BlockLen - (n - 1) + 1]
      BY <1>7, <1>10, <2>3
    <3>2. BlockLen - (n - 1) + 1 \in 1 .. BlockLen
      <4>1. BlockLen - n + 1 \in 1 .. BlockLen
        BY <1>1, <1>2
      <4>. QED  BY <1>1, <4>1
    <3>. QED  BY <2>2, <2>3, <3>1, <3>2 DEF E!Entry
  <2>4. CASE j # n - 1
    <3>1. j \in 1 .. n - 2 /\ d2[j] = r[j]
      BY <1>1, <1>7, <2>4
    <3>2. r[j].len = 1
      <4>1. at(j) \in 1 .. n /\ at(j) # n
        BY <1>1, <1>4, <3>1
      <4>. QED  BY <1>2, <1>8, <4>1
    <3>. QED  BY <2>2, <2>4, <3>1, <3>2
  <2>. QED  BY <2>3, <2>4
<1>12. d2 \in Seq(E!Entry) /\ Len(d2) = n - 1
  <2>1. d2 = [j \in 1 .. n - 1 |-> d2[j]]
    <3>1. d2 = [j \in DOMAIN d2 |-> d2[j]]
      BY <1>5
    <3>. QED  BY <1>7, <3>1
  <2>2. d2 \in [1 .. n - 1 -> E!Entry] /\ n - 1 \in Nat
    BY <1>1, <1>11, <2>1
  <2>3. d2 \in Seq(E!Entry)
    BY <2>2
  <2>. QED  BY <2>2, <2>3, LenProperties
<1>13. RootOK(d2)
  <2>1. Filled(d2)
    BY <1>11, <1>12 DEF Filled
  <2>2. \A j \in 1 .. n - 1 : d2[j].name = d[at(j)].name /\ d2[j].inode = d[at(j)].inode
    BY <1>8, <1>11
  <2>3. Len(d2) >= 1 /\ 1 \in 1 .. n - 1 /\ at(1) = 1
    BY <1>1, <1>4, <1>12
  <2>4. d2[1].name = E!Dot /\ d2[1].inode = E!RootInode
    BY <1>2, <2>2, <2>3
  <2>5. \A j \in 2 .. n - 1 : d2[j].name \in ExtNames
    <3>1. \A j \in 2 .. n - 1 : j \in 1 .. n - 1 /\ at(j) \in 2 .. n
      BY <1>1, <1>4
    <3>. QED  BY <1>2, <2>2, <3>1
  <2>6. ASSUME NEW i \in 1 .. n - 1, NEW k \in 1 .. n - 1, d2[i].name = d2[k].name  PROVE i = k
    <3>1. at(i) \in 1 .. n /\ at(k) \in 1 .. n /\ d[at(i)].name = d[at(k)].name
      BY <1>8, <2>2, <2>6
    <3>2. at(i) = at(k)
      BY <1>2, <3>1
    <3>. QED  BY <1>1, <1>4, <3>2
  <2>. QED  BY <1>12, <2>1, <2>3, <2>4, <2>5, <2>6 DEF RootOK
<1>14. \A j \in 2 .. n - 1 : \E k \in (2 .. n) \ {o} : Alike(d2[j], d[k])
  <2>1. ASSUME NEW j \in 2 .. n - 1  PROVE at(j) \in (2 .. n) \ {o} /\ Alike(d2[j], d[at(j)])
    <3>1. j \in 1 .. n - 1 /\ at(j) \in (2 .. n) \ {o}
      BY <1>1, <1>4
    <3>. QED  BY <1>8, <1>11, <3>1 DEF Alike
  <2>. QED  BY <2>1
<1>15. \A k \in (2 .. n) \ {o} : \E j \in 2 .. n - 1 : Alike(d2[j], d[k])
  <2>1. ASSUME NEW k \in (2 .. n) \ {o}  PROVE \E j \in 2 .. n - 1 : Alike(d2[j], d[k])
    <3>. DEFINE j == IF k < o THEN k ELSE k - 1
    <3>1. j \in 2 .. n - 1 /\ j \in 1 .. n - 1 /\ at(j) = k
      BY <1>1, <1>4
    <3>. HIDE DEF j
    <3>2. Alike(d2[j], d[k])
      BY <1>8, <1>11, <3>1 DEF Alike
    <3>. QED  BY <3>1, <3>2
  <2>. QED  BY <2>1
<1>. QED  BY <1>12, <1>13, <1>14, <1>15 DEF d2, n

\* A new entry behind those of the root.
LEMMA AppendedFacts ==
  ASSUME NEW d, RootOK(d), Len(d) < BlockLen, NEW e, NEW n \in ExtNames, NEW i \in E!Inode,
         NEW t \in {"file", "dir"}, e = [name |-> n, inode |-> i, type |-> t, len |-> BlockLen],
         \A k \in 2 .. Len(d) : d[k].name # n
  PROVE  /\ RootOK(E!Appended(d, e)) /\ Len(E!Appended(d, e)) = Len(d) + 1
         /\ \A k \in 2 .. Len(d) : Alike(E!Appended(d, e)[k], d[k])
         /\ Alike(E!Appended(d, e)[Len(d) + 1], e)
<1>. DEFINE m == Len(d)
            d1 == [d EXCEPT ![m].len = 1]
            f == [e EXCEPT !.len = BlockLen - m]
            d2 == E!Appended(d, e)
<1>1. /\ d \in Seq(E!Entry) /\ m \in Nat /\ m >= 1 /\ DOMAIN d = 1 .. m
      /\ \A k \in 1 .. m : d[k] \in E!Entry
      /\ BlockLen \in Nat /\ m < BlockLen
  <2>1. d \in Seq(E!Entry) /\ m >= 1
    BY DEF RootOK
  <2>. QED  BY <2>1, LenProperties, ElementOfSeq, FilesAssumption
<1>2. /\ d[1].name = E!Dot /\ d[1].inode = E!RootInode
      /\ \A k \in 2 .. m : d[k].name \in ExtNames
      /\ \A k, l \in 1 .. m : d[k].name = d[l].name => k = l
      /\ \A k \in 1 .. m : d[k].len = IF k = m THEN BlockLen - m + 1 ELSE 1
  BY DEF RootOK, Filled
<1>3. E!Rest(d) = BlockLen - m
  BY FilledFacts DEF RootOK
<1>4. d2 = Append(d1, f)
  BY <1>3 DEF E!Appended
<1>5. f \in E!Entry /\ f.name = n /\ f.inode = i /\ f.type = t /\ f.len = BlockLen - m
  <2>1. BlockLen - m \in 1 .. BlockLen
    BY <1>1
  <2>2. f = [name |-> n, inode |-> i, type |-> t, len |-> BlockLen - m]
    OBVIOUS
  <2>. HIDE DEF f
  <2>. QED  BY <2>1, <2>2 DEF E!Entry
<1>. HIDE DEF m, d2, f
<1>6. /\ d1 \in Seq(E!Entry) /\ Len(d1) = m
      /\ \A k \in 1 .. m : Alike(d1[k], d[k]) /\ d1[k].len = 1
  <2>1. DOMAIN d1 = 1 .. m /\ d1[m] = [d[m] EXCEPT !.len = 1] /\ \A k \in 1 .. m : k # m => d1[k] = d[k]
    BY <1>1
  <2>2. ASSUME NEW k \in 1 .. m
        PROVE  d1[k] \in E!Entry /\ Alike(d1[k], d[k]) /\ d1[k].len = 1
    <3>1. d[k] \in E!Entry /\ 1 \in 1 .. BlockLen
      BY <1>1
    <3>2. CASE k = m
      <4>1. d1[k] = [d[k] EXCEPT !.len = 1]
        BY <2>1, <3>2
      <4>. HIDE DEF d1
      <4>. QED  BY <3>1, <4>1 DEF E!Entry, Alike
    <3>3. CASE k # m
      <4>1. d1[k] = d[k]
        BY <2>1, <3>3
      <4>. HIDE DEF d1
      <4>. QED  BY <1>2, <3>1, <3>3, <4>1 DEF Alike
    <3>. QED  BY <3>2, <3>3
  <2>3. d1 = [k \in 1 .. m |-> d1[k]]
    BY <1>1
  <2>. HIDE DEF d1
  <2>4. d1 \in [1 .. m -> E!Entry]
    BY <2>2, <2>3
  <2>5. d1 \in Seq(E!Entry)
    BY <1>1, <2>4
  <2>. QED  BY <1>1, <2>2, <2>4, <2>5, LenProperties
<1>. HIDE DEF d1
<1>7. /\ d2 \in Seq(E!Entry) /\ Len(d2) = m + 1 /\ d2[m + 1] = f
      /\ \A k \in 1 .. m : d2[k] = d1[k]
  BY <1>1, <1>4, <1>5, <1>6, AppendProperties
<1>8. RootOK(d2)
  <2>1. Filled(d2)
    <3>1. ASSUME NEW k \in 1 .. m + 1
          PROVE  d2[k].len = IF k = m + 1 THEN BlockLen - (m + 1) + 1 ELSE 1
      <4>1. CASE k = m + 1
        BY <1>1, <1>5, <1>7, <4>1
      <4>2. CASE k # m + 1
        <5>1. k \in 1 .. m
          BY <1>1, <4>2
        <5>. QED  BY <1>6, <1>7, <4>2, <5>1
      <4>. QED  BY <4>1, <4>2
    <3>. QED  BY <1>7, <3>1 DEF Filled
  <2>2. \A k \in 1 .. m : d2[k].name = d[k].name /\ d2[k].inode = d[k].inode
    BY <1>6, <1>7 DEF Alike
  <2>3. 1 \in 1 .. m /\ Len(d2) >= 1
    BY <1>1, <1>7
  <2>4. d2[1].name = E!Dot /\ d2[1].inode = E!RootInode
    BY <1>2, <2>2, <2>3
  <2>5. \A k \in 2 .. m + 1 : d2[k].name \in ExtNames
    <3>1. \A k \in 2 .. m + 1 : k = m + 1 \/ (k \in 2 .. m /\ k \in 1 .. m)
      BY <1>1
    <3>. QED  BY <1>2, <1>5, <1>7, <2>2, <3>1
  <2>6. \A k \in 1 .. m : d[k].name # n
    <3>1. \A k \in 1 .. m : k = 1 \/ k \in 2 .. m
      BY <1>1
    <3>2. E!Dot # n
      BY NamesFacts
    <3>. QED  BY <1>2, <3>1, <3>2 DEF m
  <2>7. ASSUME NEW k \in 1 .. m + 1, NEW l \in 1 .. m + 1, d2[k].name = d2[l].name  PROVE k = l
    <3>1. (k = m + 1 \/ k \in 1 .. m) /\ (l = m + 1 \/ l \in 1 .. m)
      BY <1>1
    <3>. QED  BY <1>2, <1>5, <1>7, <2>2, <2>6, <2>7, <3>1
  <2>. QED  BY <1>7, <2>1, <2>3, <2>4, <2>5, <2>7 DEF RootOK
<1>9. \A k \in 2 .. m : Alike(d2[k], d[k])
  <2>1. \A k \in 2 .. m : k \in 1 .. m
    BY <1>1
  <2>. QED  BY <1>6, <1>7, <2>1
<1>10. Alike(d2[m + 1], e)
  BY <1>5, <1>7 DEF Alike
<1>. QED  BY <1>7, <1>8, <1>9, <1>10 DEF d2, m

\* A path has one name or two.
LEMMA PathFacts ==
  ASSUME NEW p \in E!Path
  PROVE  /\ Len(p) \in {1, 2} /\ p \in Seq(ExtNames)
         /\ p[1] \in ExtNames
         /\ Len(p) = 1 => p = <<p[1]>>
         /\ Len(p) = 2 => p = <<p[1], p[2]>> /\ p[2] \in ExtNames
         /\ \A n \in ExtNames : /\ <<n>> \in E!Path /\ Len(<<n>>) = 1 /\ <<n>>[1] = n
                                /\ \A m \in ExtNames : /\ <<n, m>> \in E!Path
                                                       /\ Len(<<n, m>>) = 2
                                                       /\ <<n, m>>[1] = n /\ <<n, m>>[2] = m
<1>1. ASSUME NEW n \in ExtNames
      PROVE  /\ <<n>> \in E!Path /\ Len(<<n>>) = 1 /\ <<n>>[1] = n
             /\ \A m \in ExtNames : /\ <<n, m>> \in E!Path
                                    /\ Len(<<n, m>>) = 2
                                    /\ <<n, m>>[1] = n /\ <<n, m>>[2] = m
  <2>1. <<n>> \in [1 .. 1 -> ExtNames] /\ Len(<<n>>) = 1 /\ <<n>>[1] = n
    OBVIOUS
  <2>2. ASSUME NEW m \in ExtNames
        PROVE  /\ <<n, m>> \in [1 .. 2 -> ExtNames] /\ Len(<<n, m>>) = 2
               /\ <<n, m>>[1] = n /\ <<n, m>>[2] = m
    OBVIOUS
  <2>. QED  BY <2>1, <2>2 DEF E!Path
<1>2. ASSUME NEW k \in {1, 2}, p \in [1 .. k -> ExtNames]
      PROVE  p \in Seq(ExtNames) /\ Len(p) = k /\ \A j \in 1 .. k : p[j] \in ExtNames
  <2>1. k \in Nat /\ p \in Seq(ExtNames)
    BY <1>2
  <2>. QED  BY <1>2, <2>1, LenProperties
<1>3. ASSUME p \in [1 .. 1 -> ExtNames]  PROVE p = <<p[1]>>
  BY <1>3
<1>4. ASSUME p \in [1 .. 2 -> ExtNames]  PROVE p = <<p[1], p[2]>>
  BY <1>4
<1>5. CASE p \in [1 .. 1 -> ExtNames]
  <2>1. p \in Seq(ExtNames) /\ Len(p) = 1 /\ p[1] \in ExtNames /\ Len(p) # 2
    BY <1>2, <1>5
  <2>. QED  BY <1>1, <1>3, <1>5, <2>1
<1>6. CASE p \in [1 .. 2 -> ExtNames]
  <2>1. p \in Seq(ExtNames) /\ Len(p) = 2 /\ p[1] \in ExtNames /\ p[2] \in ExtNames /\ Len(p) # 1
    BY <1>2, <1>6
  <2>. QED  BY <1>1, <1>4, <1>6, <2>1
<1>. QED  BY <1>5, <1>6 DEF E!Path

\* What a search tells of an entry.
FoundAt(b, o, e) == [ok |-> TRUE, father |-> b, offset |-> o, inode |-> e.inode, type |-> e.type]

\* Name n is once in the directory of inode i, whose one block b has m entries: at o.
Only(c, i, b, m, n, o) ==
    /\ c.inodes[i] = <<b>> /\ m \in Nat /\ DOMAIN c.dirs[b] = 1 .. m
    /\ o \in 1 .. m /\ c.dirs[b][o].name = n /\ \A k \in 1 .. m : c.dirs[b][k].name = n => k = o

\* A name in a directory of one block.
LEMMA FindOnce ==
  ASSUME NEW c, NEW i, NEW b, NEW m, NEW n, NEW o, Only(c, i, b, m, n, o)
  PROVE  E!InDirectory(c, i, n) = FoundAt(b, o, c.dirs[b][o])
<1>. DEFINE hit(k) == {l \in DOMAIN c.dirs[c.inodes[i][k]] : c.dirs[c.inodes[i][k]][l].name = n}
            hits == {k \in DOMAIN c.inodes[i] : hit(k) # {}}
            father == c.inodes[i][E!Min(hits)]
            offset == E!Min(hit(E!Min(hits)))
            e == c.dirs[father][offset]
<1>1. E!InDirectory(c, i, n) = IF hits = {} THEN E!NotFound ELSE FoundAt(father, offset, e)
  BY DEF E!InDirectory, FoundAt
<1>2. DOMAIN c.inodes[i] = {1} /\ c.inodes[i][1] = b
  BY DEF Only
<1>3. hit(1) = {o} /\ o \in Nat
  BY <1>2 DEF Only
<1>4. hits = {1}
  BY <1>2, <1>3
<1>5. \A x \in Nat : E!Min({x}) = x
  BY DEF E!Min
<1>. HIDE DEF hits
<1>6. father = b /\ offset = o
  BY <1>2, <1>3, <1>4, <1>5
<1>. QED  BY <1>1, <1>4, <1>6

\* What a laid out card has in its two directories.
LEMMA LaidFacts ==
  ASSUME NEW c, Laid(c)
  PROVE  LET d == c.dirs[4] IN
         /\ c \in ExtCard /\ c.blockBits \in SUBSET E!Block /\ c.inodeBits \in SUBSET E!Inode
         /\ c.inodes \in [E!Inode -> Seq(E!Block)] /\ c.dirs \in [{4, 7} -> Seq(E!Entry)]
         /\ RootOK(d) /\ Len(d) \in Nat /\ Len(d) >= 1 /\ DOMAIN d = 1 .. Len(d)
         /\ \A o \in 1 .. Len(d) : d[o] \in E!Entry /\ d[o].inode \in E!Inode
                                   /\ d[o].type \in {"file", "dir"}
         /\ d[1].name = E!Dot /\ \A o \in 2 .. Len(d) : d[o].name \in ExtNames
         /\ \A o, k \in 1 .. Len(d) : d[o].name = d[k].name => o = k
         /\ c.inodes[E!RootInode] = <<4>>
         /\ c.dirs[7] \in {SubFull, SubLeft}
<1>. DEFINE d == c.dirs[4]
<1>1. /\ c \in ExtCard /\ c.blockBits \in SUBSET E!Block /\ c.inodeBits \in SUBSET E!Inode
      /\ c.inodes \in [E!Inode -> Seq(E!Block)] /\ c.dirs \in [{4, 7} -> Seq(E!Entry)]
  BY DEF Laid, ExtCard
<1>2. RootOK(d) /\ c.inodes[E!RootInode] = <<4>> /\ c.dirs[7] \in {SubFull, SubLeft}
  BY DEF Laid
<1>. HIDE DEF d
<1>3. d \in Seq(E!Entry) /\ Len(d) \in Nat /\ Len(d) >= 1 /\ DOMAIN d = 1 .. Len(d)
      /\ \A o \in 1 .. Len(d) : d[o] \in E!Entry
  <2>1. d \in Seq(E!Entry) /\ Len(d) >= 1
    BY <1>2 DEF RootOK
  <2>. QED  BY <2>1, LenProperties, ElementOfSeq
<1>4. \A e \in E!Entry : e.inode \in E!Inode /\ e.type \in {"file", "dir"}
  BY DEF E!Entry
<1>5. /\ d[1].name = E!Dot /\ \A o \in 2 .. Len(d) : d[o].name \in ExtNames
      /\ \A o, k \in 1 .. Len(d) : d[o].name = d[k].name => o = k
  BY <1>2 DEF RootOK
<1>6. \A o \in 1 .. Len(d) : d[o] \in E!Entry /\ d[o].inode \in E!Inode /\ d[o].type \in {"file", "dir"}
  BY <1>3, <1>4
<1>. QED  BY <1>1, <1>2, <1>3, <1>5, <1>6 DEF d

\* A file is found where it is.
LEMMA AtFound ==
  ASSUME NEW c, Laid(c), NEW p \in E!Path, NEW i, NEW t, At(c, p, i, t)
  PROVE  LET f == E!ext_find(c, p) IN
         /\ f.ok /\ f.inode = i /\ f.type = t
         /\ Len(p) = 1 => /\ f.father = 4 /\ f.offset \in 2 .. Len(c.dirs[4])
                          /\ c.dirs[4][f.offset].name = p[1]
                          /\ c.dirs[4][f.offset].inode = i /\ c.dirs[4][f.offset].type = t
         /\ Len(p) = 2 => f.father = 7 /\ f.offset = 2
<1>. DEFINE d == c.dirs[4]
            first == E!InDirectory(c, E!RootInode, p[1])
            second == E!InDirectory(c, first.inode, p[2])
            f == E!ext_find(c, p)
<1>1. /\ Len(d) \in Nat /\ DOMAIN d = 1 .. Len(d) /\ c.inodes[E!RootInode] = <<4>>
      /\ \A o, k \in 1 .. Len(d) : d[o].name = d[k].name => o = k
  BY LaidFacts
<1>2. \A o \in 2 .. Len(d) : d[o].name = p[1] =>
         first = FoundAt(4, o, d[o])
  <2>1. SUFFICES ASSUME NEW o \in 2 .. Len(d), d[o].name = p[1]
        PROVE  first = FoundAt(4, o, d[o])
    OBVIOUS
  <2>2. o \in 1 .. Len(d) /\ \A k \in 1 .. Len(d) : d[k].name = p[1] => k = o
    BY <1>1, <2>1
  <2>3. Only(c, E!RootInode, 4, Len(d), p[1], o)
    BY <1>1, <2>1, <2>2 DEF Only
  <2>. QED  BY <2>3, FindOnce
<1>3. f = IF ~first.ok \/ Len(p) = 1 THEN first
          ELSE IF first.type # "dir" THEN E!NotFound
          ELSE IF second.ok THEN second ELSE first
  BY DEF E!ext_find
<1>. HIDE DEF first, f
<1>4. CASE Len(p) = 1
  <2>1. PICK o \in 2 .. Len(d) : d[o].name = p[1] /\ d[o].inode = i /\ d[o].type = t
    BY <1>4 DEF At, InRoot
  <2>2. f = [ok |-> TRUE, father |-> 4, offset |-> o, inode |-> i, type |-> t]
    BY <1>2, <1>3, <1>4, <2>1 DEF FoundAt
  <2>. QED  BY <1>4, <2>1, <2>2 DEF f
<1>5. CASE Len(p) = 2
  <2>1. /\ p[2] = E!Second /\ c.dirs[7] = SubFull /\ i = 13 /\ t = "file"
        /\ \E j \in E!Inode : InRoot(c, p[1], j, "dir") /\ c.inodes[j] = <<7>>
    BY <1>5 DEF At
  <2>2. PICK j \in E!Inode : InRoot(c, p[1], j, "dir") /\ c.inodes[j] = <<7>>
    BY <2>1
  <2>3. PICK o \in 2 .. Len(d) : d[o].name = p[1] /\ d[o].inode = j /\ d[o].type = "dir"
    BY <2>2 DEF InRoot
  <2>4. first = [ok |-> TRUE, father |-> 4, offset |-> o, inode |-> j, type |-> "dir"]
    BY <1>2, <2>3 DEF FoundAt
  <2>5. second = [ok |-> TRUE, father |-> 7, offset |-> 2, inode |-> 13, type |-> "file"]
    <3>1. /\ DOMAIN c.dirs[7] = 1 .. 2 /\ c.dirs[7][1].name = E!Dot
          /\ c.dirs[7][2].name = E!Second /\ c.dirs[7][2].inode = 13 /\ c.dirs[7][2].type = "file"
      BY <2>1 DEF SubFull, E!Made
    <3>2. E!Second # E!Dot
      BY NamesFacts
    <3>3. \A k \in 1 .. 2 : c.dirs[7][k].name = E!Second => k = 2
      BY <3>1, <3>2
    <3>4. 2 \in 1 .. 2 /\ 2 \in Nat
      OBVIOUS
    <3>5. E!InDirectory(c, j, E!Second) = FoundAt(7, 2, c.dirs[7][2])
      <4>1. Only(c, j, 7, 2, E!Second, 2)
        BY <2>2, <3>1, <3>3, <3>4 DEF Only
      <4>. QED  BY <4>1, FindOnce
    <3>6. first.inode = j
      BY <2>4
    <3>. QED  BY <2>1, <3>1, <3>5, <3>6 DEF FoundAt
  <2>. HIDE DEF second
  <2>6. f = second
    BY <1>3, <1>5, <2>4, <2>5
  <2>. QED  BY <1>5, <2>1, <2>5, <2>6 DEF f
<1>. QED  BY <1>4, <1>5, PathFacts

\* A name that is not found is not in the root.
LEMMA NameIsNew ==
  ASSUME NEW c, Laid(c), NEW n \in ExtNames, ~E!ext_find(c, <<n>>).ok
  PROVE  \A o \in 2 .. Len(c.dirs[4]) : c.dirs[4][o].name # n
<1>1. SUFFICES ASSUME NEW o \in 2 .. Len(c.dirs[4]), c.dirs[4][o].name = n  PROVE FALSE
  OBVIOUS
<1>2. <<n>> \in E!Path /\ Len(<<n>>) = 1 /\ <<n>>[1] = n
  BY PathFacts DEF E!Path
<1>3. At(c, <<n>>, c.dirs[4][o].inode, c.dirs[4][o].type)
  BY <1>1, <1>2 DEF At, InRoot
<1>. QED  BY <1>2, <1>3, AtFound

\* A path leads to one inode.
LEMMA AtOnce ==
  ASSUME NEW c, Laid(c), NEW p \in E!Path, NEW i, NEW t, NEW j, NEW u, At(c, p, i, t), At(c, p, j, u)
  PROVE  i = j /\ t = u
<1>1. E!ext_find(c, p).inode = i /\ E!ext_find(c, p).type = t
  BY AtFound
<1>2. E!ext_find(c, p).inode = j /\ E!ext_find(c, p).type = u
  BY AtFound
<1>. QED  BY <1>1, <1>2

-----------------------------------------------------------------------------
(* The files of ext2 *)

\* A path of another one's names.
Within(q, p) ==
    \/ p = q
    \/ Len(q) = 1 /\ Len(p) = 2 /\ p[1] = q[1]

LEMMA PrefixFacts ==
  ASSUME NEW q \in E!Path, NEW p \in E!Path
  PROVE  E!IsPrefix(q, p) <=> Within(q, p)
<1>1. /\ Len(q) \in {1, 2} /\ Len(p) \in {1, 2} /\ q \in Seq(ExtNames) /\ p \in Seq(ExtNames)
      /\ Len(q) = 1 => q = <<q[1]>>
      /\ Len(q) = 2 => q = <<q[1], q[2]>>
      /\ Len(p) = 1 => p = <<p[1]>>
      /\ Len(p) = 2 => p = <<p[1], p[2]>>
  BY PathFacts
<1>2. ASSUME NEW s \in Seq(ExtNames)
      PROVE  /\ Len(s) >= 1 => SubSeq(s, 1, 1) = <<s[1]>>
             /\ Len(s) >= 2 => SubSeq(s, 1, 2) = <<s[1], s[2]>>
  <2>1. Len(s) \in Nat /\ \A i \in 1 .. Len(s) : s[i] \in ExtNames
    BY LenProperties, ElementOfSeq
  <2>2. ASSUME Len(s) >= 1  PROVE SubSeq(s, 1, 1) = <<s[1]>>
    <3>. DEFINE u == SubSeq(s, 1, 1)
    <3>1. \A i \in 1 .. 1 : s[i] \in ExtNames
      BY <2>1, <2>2
    <3>2. u \in Seq(ExtNames) /\ Len(u) = 1 /\ u[1] = s[1]
      <4>1. u \in Seq(ExtNames) /\ Len(u) = (IF 1 <= 1 THEN 1 - 1 + 1 ELSE 0)
            /\ \A i \in 1 .. 1 - 1 + 1 : u[i] = s[1 + i - 1]
        BY <3>1, SubSeqProperties
      <4>. HIDE DEF u
      <4>. QED  BY <4>1
    <3>. HIDE DEF u
    <3>3. u = <<s[1]>>
      BY <3>2
    <3>. QED  BY <3>3 DEF u
  <2>3. ASSUME Len(s) >= 2  PROVE SubSeq(s, 1, 2) = <<s[1], s[2]>>
    <3>. DEFINE u == SubSeq(s, 1, 2)
    <3>1. \A i \in 1 .. 2 : s[i] \in ExtNames
      BY <2>1, <2>3
    <3>2. u \in Seq(ExtNames) /\ Len(u) = 2 /\ u[1] = s[1] /\ u[2] = s[2]
      <4>1. u \in Seq(ExtNames) /\ Len(u) = (IF 1 <= 2 THEN 2 - 1 + 1 ELSE 0)
            /\ \A i \in 1 .. 2 - 1 + 1 : u[i] = s[1 + i - 1]
        BY <3>1, SubSeqProperties
      <4>. HIDE DEF u
      <4>. QED  BY <4>1
    <3>. HIDE DEF u
    <3>3. u = <<s[1], s[2]>>
      BY <3>2
    <3>. QED  BY <3>3 DEF u
  <2>. QED  BY <2>2, <2>3
<1>3. E!IsPrefix(q, p) <=> Len(q) <= Len(p) /\ SubSeq(q, 1, Len(q)) = SubSeq(p, 1, Len(q))
  BY DEF E!IsPrefix
<1>4. CASE Len(q) = 1
  <2>1. SubSeq(q, 1, 1) = <<q[1]>> /\ SubSeq(p, 1, 1) = <<p[1]>> /\ Len(q) <= Len(p)
    BY <1>1, <1>2, <1>4
  <2>2. E!IsPrefix(q, p) <=> q[1] = p[1]
    BY <1>3, <1>4, <2>1
  <2>3. Within(q, p) <=> q[1] = p[1]
    BY <1>1, <1>4 DEF Within
  <2>. QED  BY <2>2, <2>3
<1>5. CASE Len(q) = 2 /\ Len(p) = 1
  BY <1>1, <1>3, <1>5 DEF Within
<1>6. CASE Len(q) = 2 /\ Len(p) = 2
  <2>1. SubSeq(q, 1, 2) = q /\ SubSeq(p, 1, 2) = p /\ Len(q) <= Len(p)
    BY <1>1, <1>2, <1>6
  <2>. QED  BY <1>3, <1>6, <2>1 DEF Within
<1>. QED  BY <1>1, <1>4, <1>5, <1>6

\* Two files have no block in common, and only a file of the root is a directory.
LEMMA ContentsApart ==
  /\ \A a, b \in Contents : a # b => E!ToSet(a) \cap E!ToSet(b) = {}
  /\ \A a \in Contents : E!ToSet(a) \subseteq E!Block /\ a \in Seq(E!Block)
  /\ E!ToSet(<<7>>) = {7}
<1>1. E!ToSet(<<5, 6>>) = {5, 6} /\ E!ToSet(<<7>>) = {7} /\ E!ToSet(<<8>>) = {8}
  <2>1. DOMAIN <<5, 6>> = {1, 2} /\ DOMAIN <<7>> = {1} /\ DOMAIN <<8>> = {1}
    OBVIOUS
  <2>. QED  BY <2>1 DEF E!ToSet
<1>2. \A a, b \in Contents : a # b => E!ToSet(a) \cap E!ToSet(b) = {}
  BY <1>1 DEF Contents
<1>3. \A a \in Contents : E!ToSet(a) \subseteq E!Block
  BY <1>1 DEF Contents, E!Block
<1>4. <<5, 6>> \in Seq(E!Block) /\ <<7>> \in Seq(E!Block) /\ <<8>> \in Seq(E!Block)
  BY DEF E!Block
<1>. QED  BY <1>1, <1>2, <1>3, <1>4 DEF Contents

\* What is said of the files.
LEMMA FilesFacts ==
  ASSUME NEW F, FilesOK(F)
  PROVE  /\ \A p \in DOMAIN F : p \in E!Path /\ F[p] \in Contents
         /\ \A p, q \in DOMAIN F : F[p] = F[q] => p = q
         /\ \A p \in DOMAIN F : F[p] = <<7>> => Len(p) = 1
         /\ \A p \in DOMAIN F : Len(p) = 2 =>
               /\ p = <<p[1], E!Second>> /\ F[p] = <<8>>
               /\ <<p[1]>> \in DOMAIN F /\ F[<<p[1]>>] = <<7>>
         /\ \A p, q \in DOMAIN F : Len(p) = 2 /\ Len(q) = 2 => p = q
<1>1. \A p \in DOMAIN F : p \in E!Path /\ F[p] \in Contents
  BY DEF FilesOK
<1>2. \A p, q \in DOMAIN F : F[p] = F[q] => p = q
  BY DEF FilesOK
<1>3. \A p \in DOMAIN F : Len(p) = 2 =>
               /\ p = <<p[1], E!Second>> /\ F[p] = <<8>>
               /\ <<p[1]>> \in DOMAIN F /\ F[<<p[1]>>] = <<7>>
  <2>1. \A p \in DOMAIN F : Len(p) = 2 => p = <<p[1], p[2]>>
    BY <1>1, PathFacts
  <2>. QED  BY <2>1 DEF FilesOK
<1>4. \A p \in DOMAIN F : F[p] = <<7>> => Len(p) = 1
  <2>1. \A p \in DOMAIN F : Len(p) = 1 \/ Len(p) = 2
    BY <1>1, PathFacts
  <2>2. <<7>> # <<8>>
    OBVIOUS
  <2>. QED  BY <1>3, <2>1, <2>2
<1>5. \A p, q \in DOMAIN F : Len(p) = 2 /\ Len(q) = 2 => p = q
  BY <1>2, <1>3
<1>. QED  BY <1>1, <1>2, <1>3, <1>4, <1>5

\* The files that are not at or below src.
Kept(F, src) == {p \in DOMAIN F : ~Within(src, p)}

LEMMA KeptFacts ==
  ASSUME NEW F, FilesOK(F), NEW src \in DOMAIN F
  PROVE  /\ \A p \in Kept(F, src) : p \in DOMAIN F /\ p # src /\ F[p] # F[src]
         /\ \A p \in Kept(F, src) : Len(p) = 2 =>
               Len(src) = 1 /\ src[1] # p[1] /\ <<p[1]>> \in Kept(F, src)
         /\ Len(src) = 2 => Kept(F, src) = DOMAIN F \ {src}
         /\ Len(src) = 1 => \A p \in Kept(F, src) : p[1] # src[1]
         /\ \A p \in DOMAIN F \ Kept(F, src) :
               p = src \/ (Len(src) = 1 /\ p = <<src[1], E!Second>> /\ Len(p) = 2)
<1>1. /\ \A p \in DOMAIN F : p \in E!Path
      /\ \A p, q \in DOMAIN F : F[p] = F[q] => p = q
      /\ \A p \in DOMAIN F : Len(p) = 2 => p = <<p[1], E!Second>> /\ <<p[1]>> \in DOMAIN F
      /\ \A p, q \in DOMAIN F : Len(p) = 2 /\ Len(q) = 2 => p = q
  BY FilesFacts
<1>2. \A p \in DOMAIN F : /\ Len(p) = 1 \/ Len(p) = 2
                          /\ Len(p) = 1 => p = <<p[1]>>
  BY <1>1, PathFacts
<1>3. \A p \in Kept(F, src) : p \in DOMAIN F /\ p # src /\ F[p] # F[src]
  BY <1>1 DEF Kept, Within
<1>4. ASSUME NEW p \in Kept(F, src), Len(p) = 2
      PROVE  Len(src) = 1 /\ src[1] # p[1] /\ <<p[1]>> \in Kept(F, src)
  <2>1. Len(src) = 1 /\ p \in DOMAIN F /\ <<p[1]>> \in DOMAIN F
    BY <1>1, <1>2, <1>3, <1>4
  <2>2. src[1] # p[1]
    BY <1>4, <2>1 DEF Kept, Within
  <2>3. Len(<<p[1]>>) = 1 /\ <<p[1]>>[1] = p[1]
    OBVIOUS
  <2>4. ~Within(src, <<p[1]>>)
    BY <2>2, <2>3 DEF Within
  <2>. QED  BY <2>1, <2>2, <2>4 DEF Kept
<1>5. ASSUME Len(src) = 2  PROVE Kept(F, src) = DOMAIN F \ {src}
  BY <1>5 DEF Kept, Within
<1>6. ASSUME Len(src) = 1, NEW p \in Kept(F, src)  PROVE p[1] # src[1]
  <2>1. p \in DOMAIN F /\ p # src /\ ~Within(src, p)
    BY <1>3 DEF Kept
  <2>2. CASE Len(p) = 1
    BY <1>2, <1>6, <2>1, <2>2
  <2>3. CASE Len(p) = 2
    BY <1>6, <2>1, <2>3 DEF Within
  <2>. QED  BY <1>2, <2>1, <2>2, <2>3
<1>7. ASSUME NEW p \in DOMAIN F \ Kept(F, src)
      PROVE  p = src \/ (Len(src) = 1 /\ p = <<src[1], E!Second>> /\ Len(p) = 2)
  BY <1>1, <1>7 DEF Kept, Within
<1>. QED  BY <1>3, <1>4, <1>5, <1>6, <1>7

\* The search finds file src as f, with what belongs to it.
IsFound(c, F, src, f) ==
    /\ f.ok /\ f.inode \in E!Inode \ E!Reserved /\ f.inode \in c.inodeBits
    /\ f.type \in {"file", "dir"} /\ (f.type = "dir" <=> F[src] = <<7>>)
    /\ At(c, src, f.inode, f.type) /\ c.inodes[f.inode] = F[src]
    /\ E!ToSet(F[src]) \subseteq c.blockBits
    /\ Len(src) = 1 => /\ f.father = 4 /\ f.offset \in 2 .. Len(c.dirs[4])
                       /\ c.dirs[4][f.offset].name = src[1]
    /\ Len(src) = 2 => f.father = 7 /\ f.offset = 2 /\ c.dirs[7] = SubFull /\ f.inode = 13

LEMMA SrcFacts ==
  ASSUME NEW c, NEW F, FilesOK(F), NEW S \in SUBSET DOMAIN F, ExtGood(c, F, S), NEW src \in S
  PROVE  IsFound(c, F, src, E!ext_find(c, src))
<1>. DEFINE f == E!ext_find(c, src)
<1>1. Laid(c) /\ HasFile(c, src, F[src]) /\ src \in E!Path
  BY FilesFacts DEF ExtGood
<1>2. PICK i \in E!Inode \ E!Reserved, t \in {"file", "dir"} : HasIn(c, src, F[src], i, t)
  BY <1>1 DEF HasFile
<1>3. /\ At(c, src, i, t) /\ (t = "dir" <=> F[src] = <<7>>)
      /\ i \in c.inodeBits /\ c.inodes[i] = F[src] /\ E!ToSet(F[src]) \subseteq c.blockBits
  BY <1>2 DEF HasIn
<1>4. /\ f.ok /\ f.inode = i /\ f.type = t
      /\ Len(src) = 1 => /\ f.father = 4 /\ f.offset \in 2 .. Len(c.dirs[4])
                         /\ c.dirs[4][f.offset].name = src[1]
      /\ Len(src) = 2 => f.father = 7 /\ f.offset = 2
  BY <1>1, <1>3, AtFound
<1>5. Len(src) = 2 => c.dirs[7] = SubFull /\ i = 13
  BY <1>3 DEF At
<1>. HIDE DEF f
<1>6. IsFound(c, F, src, f)
  BY <1>2, <1>3, <1>4, <1>5 DEF IsFound
<1>. QED  BY <1>6 DEF f

-----------------------------------------------------------------------------
(* Steps of the commands of ext2 *)

\* From card c to card c2 nothing changes but what belongs to the file src in inode i, to
\* inode 0 and to an inode that is free.
Aside(c, c2, F, src, i) ==
    /\ c2 \in ExtCard /\ RootOK(c2.dirs[4])
    /\ c2.dirs[7] \in {SubFull, SubLeft} /\ (Len(src) = 1 => c2.dirs[7] = c.dirs[7])
    /\ \A o \in 2 .. Len(c.dirs[4]) :
          \/ Len(src) = 1 /\ c.dirs[4][o].name = src[1]
          \/ \E k \in 2 .. Len(c2.dirs[4]) : Alike(c2.dirs[4][k], c.dirs[4][o])
    /\ \A j \in c.inodeBits : j # i => j \in c2.inodeBits /\ (j # 0 => c2.inodes[j] = c.inodes[j])
    /\ c.blockBits \ E!ToSet(F[src]) \subseteq c2.blockBits

LEMMA Undisturbed ==
  ASSUME NEW c, NEW F, FilesOK(F), ExtGood(c, F, DOMAIN F), E!Reserved \subseteq c.inodeBits,
         NEW src \in DOMAIN F, NEW i \in E!Inode \ E!Reserved, NEW t, At(c, src, i, t), c.inodes[i] = F[src],
         NEW c2, Aside(c, c2, F, src, i)
  PROVE  /\ ExtGood(c2, F, Kept(F, src))
         /\ \A p \in Kept(F, src) : \A j, u : At(c, p, j, u) => At(c2, p, j, u)
<1>1. /\ c2 \in ExtCard /\ RootOK(c2.dirs[4])
      /\ c2.dirs[7] \in {SubFull, SubLeft} /\ (Len(src) = 1 => c2.dirs[7] = c.dirs[7])
      /\ \A o \in 2 .. Len(c.dirs[4]) :
          \/ Len(src) = 1 /\ c.dirs[4][o].name = src[1]
          \/ \E k \in 2 .. Len(c2.dirs[4]) : Alike(c2.dirs[4][k], c.dirs[4][o])
      /\ \A j \in c.inodeBits : j # i => j \in c2.inodeBits /\ (j # 0 => c2.inodes[j] = c.inodes[j])
      /\ c.blockBits \ E!ToSet(F[src]) \subseteq c2.blockBits
  BY DEF Aside
<1>2. Laid(c) /\ \A p \in DOMAIN F : HasFile(c, p, F[p])
  BY DEF ExtGood
<1>3. Laid(c2)
  <2>1. E!RootInode \in c.inodeBits /\ E!RootInode # 0 /\ E!RootInode # i
    BY DEF E!RootInode, E!Reserved
  <2>2. c2.inodes[E!RootInode] = c.inodes[E!RootInode]
    BY <1>1, <2>1
  <2>. QED  BY <1>1, <1>2, <2>2 DEF Laid
<1>4. ASSUME NEW p \in Kept(F, src), NEW j, NEW u, Len(p) = 1, InRoot(c, p[1], j, u)
      PROVE  InRoot(c2, p[1], j, u)
  <2>1. PICK o \in 2 .. Len(c.dirs[4]) : /\ c.dirs[4][o].name = p[1]
                                         /\ c.dirs[4][o].inode = j /\ c.dirs[4][o].type = u
    BY <1>4 DEF InRoot
  <2>2. ~(Len(src) = 1 /\ c.dirs[4][o].name = src[1])
    BY <2>1, KeptFacts
  <2>3. PICK k \in 2 .. Len(c2.dirs[4]) : Alike(c2.dirs[4][k], c.dirs[4][o])
    BY <1>1, <2>2
  <2>. QED  BY <2>1, <2>3 DEF InRoot, Alike
<1>5. ASSUME NEW p \in Kept(F, src), NEW j \in E!Inode \ E!Reserved, NEW u, HasIn(c, p, F[p], j, u)
      PROVE  j \in c2.inodeBits /\ c2.inodes[j] = F[p]
  <2>1. j \in c.inodeBits /\ c.inodes[j] = F[p] /\ F[p] # F[src]
    BY <1>5, KeptFacts DEF HasIn
  <2>2. j # i /\ j # 0
    BY <2>1 DEF E!Reserved
  <2>. QED  BY <1>1, <2>1, <2>2
<1>6. ASSUME NEW p \in Kept(F, src), NEW j, NEW u, At(c, p, j, u)  PROVE At(c2, p, j, u)
  <2>1. p \in DOMAIN F
    BY KeptFacts
  <2>2. CASE Len(p) = 1
    BY <1>4, <1>6, <2>2 DEF At
  <2>3. CASE Len(p) = 2
    <3>1. /\ p[2] = E!Second /\ c.dirs[7] = SubFull /\ j = 13 /\ u = "file"
          /\ \E l \in E!Inode : InRoot(c, p[1], l, "dir") /\ c.inodes[l] = <<7>>
      BY <1>6, <2>3 DEF At
    <3>2. PICK l \in E!Inode : InRoot(c, p[1], l, "dir") /\ c.inodes[l] = <<7>>
      BY <3>1
    <3>. DEFINE q == <<p[1]>>
    <3>3. /\ q \in Kept(F, src) /\ Len(q) = 1 /\ q[1] = p[1] /\ Len(src) = 1
          /\ q \in DOMAIN F /\ F[q] = <<7>> /\ q \in E!Path
      <4>1. q \in Kept(F, src) /\ Len(src) = 1
        BY <2>3, KeptFacts
      <4>2. F[q] = <<7>> /\ q \in DOMAIN F
        BY <2>1, <2>3, FilesFacts
      <4>3. q \in E!Path
        BY <4>2, FilesFacts
      <4>. QED  BY <4>1, <4>2, <4>3
    <3>. HIDE DEF q
    <3>4. PICK k \in E!Inode \ E!Reserved, v \in {"file", "dir"} : HasIn(c, q, F[q], k, v)
      BY <1>2, <3>3 DEF HasFile
    <3>5. k = l
      <4>1. At(c, q, k, v) /\ At(c, q, l, "dir")
        BY <3>2, <3>3, <3>4 DEF HasIn, At
      <4>. QED  BY <1>2, <3>3, <4>1, AtOnce
    <3>6. InRoot(c2, p[1], l, "dir") /\ c2.inodes[l] = <<7>>
      BY <1>4, <1>5, <3>2, <3>3, <3>4, <3>5
    <3>7. c2.dirs[7] = SubFull
      BY <1>1, <3>1, <3>3
    <3>. QED  BY <2>3, <3>1, <3>2, <3>6, <3>7 DEF At
  <2>. QED  BY <2>1, <2>2, <2>3, FilesFacts, PathFacts
<1>7. ASSUME NEW p \in Kept(F, src)  PROVE HasFile(c2, p, F[p])
  <2>1. p \in DOMAIN F /\ F[p] # F[src] /\ HasFile(c, p, F[p])
    BY <1>2, KeptFacts
  <2>2. PICK j \in E!Inode \ E!Reserved, u \in {"file", "dir"} : HasIn(c, p, F[p], j, u)
    BY <2>1 DEF HasFile
  <2>3. At(c, p, j, u) /\ (u = "dir" <=> F[p] = <<7>>) /\ E!ToSet(F[p]) \subseteq c.blockBits
    BY <2>2 DEF HasIn
  <2>4. At(c2, p, j, u) /\ j \in c2.inodeBits /\ c2.inodes[j] = F[p]
    BY <1>5, <1>6, <2>2, <2>3
  <2>5. E!ToSet(F[p]) \subseteq c2.blockBits
    <3>1. E!ToSet(F[p]) \cap E!ToSet(F[src]) = {}
      BY <2>1, FilesFacts, ContentsApart
    <3>. QED  BY <1>1, <2>3, <3>1
  <2>. QED  BY <2>2, <2>3, <2>4, <2>5 DEF HasFile, HasIn
<1>. QED  BY <1>3, <1>6, <1>7 DEF ExtGood

\* The directories D without the entry of the file f.
Unlink(D, f) == [D EXCEPT ![f.father] = E!Removed(@, f.offset)]

LEMMA UnlinkFacts ==
  ASSUME NEW D \in [{4, 7} -> Seq(E!Entry)], RootOK(D[4]), D[7] \in {SubFull, SubLeft}, NEW f,
         \/ f.father = 4 /\ f.offset \in 2 .. Len(D[4])
         \/ f.father = 7 /\ f.offset = 2 /\ D[7] = SubFull
  PROVE  /\ Unlink(D, f) \in [{4, 7} -> Seq(E!Entry)]
         /\ RootOK(Unlink(D, f)[4]) /\ Unlink(D, f)[7] \in {SubFull, SubLeft}
         /\ f.father = 4 => /\ Unlink(D, f)[7] = D[7]
                            /\ Unlink(D, f)[4] = E!Removed(D[4], f.offset)
         /\ f.father = 7 => Unlink(D, f)[7] = SubLeft /\ Unlink(D, f)[4] = D[4]
<1>1. DOMAIN D = {4, 7} /\ D[4] \in Seq(E!Entry) /\ D[7] \in Seq(E!Entry)
  OBVIOUS
<1>2. E!Removed(SubFull, 2) = SubLeft
  <2>. DEFINE a == E!Made(E!Dot, 12, "dir", 1)
              b == E!Made(E!Second, 13, "file", BlockLen - 1)
  <2>1. a.len = 1 /\ b.len = BlockLen - 1 /\ [a EXCEPT !.len = BlockLen] = E!Made(E!Dot, 12, "dir", BlockLen)
    BY DEF E!Made
  <2>. HIDE DEF a, b
  <2>2. SubFull = <<a, b>> /\ SubLeft = <<[a EXCEPT !.len = BlockLen]>>
    BY <2>1 DEF SubFull, SubLeft, a, b
  <2>3. E!RemoveAt(<<a, b>>, 2) = <<a>>
    <3>. DEFINE s == <<a, b>>
                r == RemoveAt(s, 2)
    <3>1. s \in Seq({a, b}) /\ Len(s) = 2 /\ s[1] = a
      OBVIOUS
    <3>2. r \in Seq({a, b}) /\ Len(r) = 2 - 1 /\ \A j \in 1 .. 2 - 1 : r[j] = IF j < 2 THEN s[j] ELSE s[j + 1]
      <4>. HIDE DEF s
      <4>1. 2 \in 1 .. Len(s)
        BY <3>1
      <4>. QED  BY <3>1, <4>1, RemoveAtFacts
    <3>3. r = <<a>>
      <4>. HIDE DEF r, s
      <4>1. Len(r) = 1 /\ r[1] = a
        BY <3>1, <3>2
      <4>. QED  BY <3>2, <4>1
    <3>. QED  BY <3>3 DEF E!RemoveAt, RemoveAt
  <2>4. 2 \in DOMAIN <<a, b>> /\ <<a, b>>[2] = b /\ Len(<<a>>) = 1 /\ <<a>>[1] = a
    OBVIOUS
  <2>5. 1 + (BlockLen - 1) = BlockLen
    BY NamesFacts
  <2>6. E!Removed(<<a, b>>, 2) = [<<a>> EXCEPT ![1].len = @ + b.len]
    BY <2>3, <2>4 DEF E!Removed
  <2>7. [<<a>> EXCEPT ![1].len = @ + b.len] = <<[a EXCEPT !.len = a.len + b.len]>>
    OBVIOUS
  <2>. QED  BY <2>1, <2>2, <2>5, <2>6, <2>7
<1>3. SubLeft \in Seq(E!Entry)
  <2>1. E!Made(E!Dot, 12, "dir", BlockLen) \in E!Entry
    <3>1. 12 \in E!Inode /\ BlockLen \in 1 .. BlockLen /\ E!Dot \in ExtNames \cup {E!Dot}
      BY NamesFacts DEF E!Inode
    <3>. QED  BY <3>1 DEF E!Made, E!Entry
  <2>. QED  BY <2>1 DEF SubLeft
<1>4. CASE f.father = 4 /\ f.offset \in 2 .. Len(D[4])
  <2>1. Unlink(D, f) = [D EXCEPT ![4] = E!Removed(D[4], f.offset)]
    BY <1>4 DEF Unlink
  <2>2. RootOK(E!Removed(D[4], f.offset))
    BY <1>4, RemovedFacts
  <2>3. E!Removed(D[4], f.offset) \in Seq(E!Entry)
    BY <2>2 DEF RootOK
  <2>. QED  BY <1>1, <1>4, <2>1, <2>2, <2>3
<1>5. CASE f.father = 7 /\ f.offset = 2 /\ D[7] = SubFull
  <2>1. Unlink(D, f) = [D EXCEPT ![7] = SubLeft]
    BY <1>2, <1>5 DEF Unlink
  <2>. QED  BY <1>1, <1>3, <1>5, <2>1
<1>. QED  BY <1>4, <1>5

\* Of four from three, two are the same.
LEMMA FourOfThree ==
  ASSUME NEW a \in Contents, NEW b \in Contents, NEW c \in Contents, NEW d \in Contents
  PROVE  a = b \/ a = c \/ a = d \/ b = c \/ b = d \/ c = d
BY DEF Contents

\* There is room for another entry in the root.
LEMMA RoomLeft ==
  ASSUME NEW c, NEW F, FilesOK(F), ExtTarget(c, F)
  PROVE  Len(c.dirs[4]) <= 4
<1>. DEFINE d == c.dirs[4]
            g(o) == F[<<d[o].name>>]
<1>1. Laid(c) /\ \A o \in 2 .. Len(d) : <<d[o].name>> \in DOMAIN F
  BY DEF ExtTarget, ExtGood
<1>2. Len(d) \in Nat /\ \A o, k \in 1 .. Len(d) : d[o].name = d[k].name => o = k
  BY <1>1, LaidFacts
<1>3. SUFFICES ASSUME Len(d) >= 5  PROVE FALSE
  BY <1>2
<1>4. \A o \in {2, 3, 4, 5} : g(o) \in Contents /\ o \in 2 .. Len(d) /\ o \in 1 .. Len(d)
  <2>1. \A o \in {2, 3, 4, 5} : o \in 2 .. Len(d) /\ o \in 1 .. Len(d)
    BY <1>2, <1>3
  <2>. QED  BY <1>1, <2>1, FilesFacts
<1>5. ASSUME NEW o \in {2, 3, 4, 5}, NEW k \in {2, 3, 4, 5}, g(o) = g(k)  PROVE o = k
  <2>1. <<d[o].name>> = <<d[k].name>>
    BY <1>1, <1>4, <1>5, FilesFacts
  <2>. QED  BY <1>2, <1>4, <2>1
<1>. HIDE DEF g
<1>. QED  BY <1>4, <1>5, FourOfThree

\* There is an inode for another file, and it is free.
LEMMA InodeFacts ==
  ASSUME NEW c, NEW F, FilesOK(F), ExtTarget(c, F)
  PROVE  /\ E!alloc_new_inode(c) \in E!Inode \ E!Reserved
         /\ E!alloc_new_inode(c) \notin c.inodeBits /\ E!alloc_new_inode(c) # 13
<1>. DEFINE Free0 == {i \in E!Inode : i % E!PerByte = 0 /\ i \notin c.inodeBits}
            four == {16, 24, 32, 40}
            g(i) == c.inodes[i]
<1>1. Laid(c) /\ E!Reserved \subseteq c.inodeBits
      /\ (\A p \in DOMAIN F : HasFile(c, p, F[p]))
      /\ \A i \in c.inodeBits \ E!Reserved :
            i = 13 \/ \E p \in DOMAIN F, t \in {"file", "dir"} : At(c, p, i, t)
  BY DEF ExtTarget, ExtGood
<1>2. \A i \in four : i \in E!Inode /\ i \notin E!Reserved /\ i # 13 /\ i % E!PerByte = 0
  BY NamesFacts DEF E!Inode, E!Reserved, E!PerByte
<1>3. ASSUME NEW i \in four, i \in c.inodeBits
      PROVE  \E p \in DOMAIN F, t \in {"file", "dir"} : At(c, p, i, t) /\ g(i) = F[p]
  <2>1. PICK p \in DOMAIN F, t \in {"file", "dir"} : At(c, p, i, t)
    BY <1>1, <1>2, <1>3
  <2>2. PICK j \in E!Inode \ E!Reserved, u \in {"file", "dir"} : HasIn(c, p, F[p], j, u)
    BY <1>1 DEF HasFile
  <2>3. At(c, p, j, u) /\ c.inodes[j] = F[p] /\ p \in E!Path
    BY <2>2, FilesFacts DEF HasIn
  <2>4. i = j
    BY <1>1, <2>1, <2>3, AtOnce
  <2>. QED  BY <2>1, <2>3, <2>4
<1>4. Free0 # {}
  <2>1. SUFFICES ASSUME \A i \in four : i \in c.inodeBits  PROVE FALSE
    BY <1>2
  <2>2. \A i \in four : g(i) \in Contents
    BY <1>3, <2>1, FilesFacts
  <2>3. ASSUME NEW i \in four, NEW j \in four, g(i) = g(j)  PROVE i = j
    <3>1. PICK p \in DOMAIN F, t \in {"file", "dir"} : At(c, p, i, t) /\ g(i) = F[p]
      BY <1>3, <2>1
    <3>2. PICK q \in DOMAIN F, u \in {"file", "dir"} : At(c, q, j, u) /\ g(j) = F[q]
      BY <1>3, <2>1
    <3>3. p = q /\ p \in E!Path
      <4>1. F[p] = F[q]
        BY <2>3, <3>1, <3>2
      <4>. QED  BY <3>1, <3>2, <4>1, FilesFacts
    <3>. QED  BY <1>1, <3>1, <3>2, <3>3, AtOnce
  <2>. HIDE DEF g
  <2>4. 16 \in four /\ 24 \in four /\ 32 \in four /\ 40 \in four
    OBVIOUS
  <2>. HIDE DEF four
  <2>5. /\ g(16) \in Contents /\ g(24) \in Contents /\ g(32) \in Contents /\ g(40) \in Contents
        /\ g(16) # g(24) /\ g(16) # g(32) /\ g(16) # g(40)
        /\ g(24) # g(32) /\ g(24) # g(40) /\ g(32) # g(40)
    BY <2>2, <2>3, <2>4
  <2>. QED  BY <2>5, FourOfThree
<1>5. E!alloc_new_inode(c) \in Free0
  <2>1. Free0 \in SUBSET Nat
    BY DEF E!Inode
  <2>. HIDE DEF Free0
  <2>2. \E x \in Free0 : \A y \in Free0 : x <= y
    BY <1>4, <2>1, LeastExists
  <2>3. E!Min(Free0) \in Free0
    BY <2>2 DEF E!Min
  <2>. QED  BY <2>3 DEF E!alloc_new_inode, Free0
<1>6. \A i \in Free0 : i \in E!Inode /\ i \notin c.inodeBits /\ i # 13
  BY DEF E!PerByte
<1>. HIDE DEF Free0
<1>. QED  BY <1>1, <1>5, <1>6

-----------------------------------------------------------------------------
(* The invariant of ext2 *)

\* What is still to be transferred leads to a card with nothing but the files, by way of
\* cards with all that the command is not about.
ExtInv ==
    /\ FilesOK(ext_files)
    /\ \E e, L : /\ ExtLeads(ext_card, L, e, ExtCards(ext_files, E!Settled))
                 /\ ext_todo = E!Due(ext_card, L)
                 /\ ExtTarget(e, ext_files)
    /\ ext_command.src \in E!Path \cup {E!NoPath} /\ ext_command.dest \in E!Path \cup {E!NoPath}
    /\ ext_todo = <<>> => ext_command = E!NoCommand

\* Nothing is to be transferred, and the card is as it should be.
LEMMA NothingLeft ==
  ASSUME NEW c, NEW F, FilesOK(F), NEW S, S \subseteq DOMAIN F, ExtTarget(c, F)
  PROVE  ExtLeads(c, <<>>, c, ExtCards(F, S)) /\ E!Due(c, <<>>) = <<>>
<1>1. c \in ExtCards(F, S)
  BY DEF ExtTarget, ExtGood, Laid, ExtCards
<1>. DEFINE r == [i \in 1 .. 1 |-> c]
<1>2. Len(<<>>) = 0 /\ DOMAIN <<>> = {} /\ <<>> \in Seq(ExtTransfers)
  OBVIOUS
<1>3. Through(r, c, <<>>, c, ExtCards(F, S))
  <2>1. r \in [1 .. 0 + 1 -> ExtCards(F, S)] /\ r[1] = c /\ r[0 + 1] = c
    BY <1>1
  <2>. HIDE DEF r
  <2>. QED  BY <1>2, <2>1 DEF Through
<1>4. E!Due(c, <<>>) = <<>>
  BY <1>2 DEF E!Due
<1>. QED  BY <1>2, <1>3, <1>4 DEF ExtLeads

\* Fewer files are asked for.
LEMMA ExtLeadsMore ==
  ASSUME NEW F, NEW S, NEW K, S \subseteq K, NEW c, NEW e, NEW L, ExtLeads(c, L, e, ExtCards(F, K))
  PROVE  ExtLeads(c, L, e, ExtCards(F, S))
<1>1. ExtCards(F, K) \subseteq ExtCards(F, S)
  BY DEF ExtCards, ExtGood
<1>2. PICK r : Through(r, c, L, e, ExtCards(F, K))
  BY DEF ExtLeads
<1>3. r \in [1 .. Len(L) + 1 -> ExtCards(F, S)]
  BY <1>1, <1>2 DEF Through
<1>4. Through(r, c, L, e, ExtCards(F, S))
  BY <1>2, <1>3 DEF Through
<1>. QED  BY <1>4 DEF ExtLeads

\* A command whose transfers lead where they should keeps the invariant.
LEMMA BeginSafe ==
  ASSUME NEW L, NEW src \in E!Path, NEW dest \in E!Path \cup {E!NoPath}, E!Begin(L, src, dest),
         FilesOK(ext_files'), NEW K, NEW e, ExtTarget(e, ext_files'),
         ExtLeads(ext_card, L, e, ExtCards(ext_files', K)),
         \A p \in DOMAIN ext_files' :
            ~E!IsPrefix(src, p) /\ (dest # E!NoPath => ~E!IsPrefix(dest, p)) => p \in K
  PROVE  ExtInv'
<1>1. /\ ext_todo' = E!Due(ext_card, L) /\ ext_card' = ext_card
      /\ ext_command' = IF ext_todo' = <<>> THEN E!NoCommand ELSE [src |-> src, dest |-> dest]
  BY DEF E!Begin
<1>2. /\ ext_command'.src \in E!Path \cup {E!NoPath} /\ ext_command'.dest \in E!Path \cup {E!NoPath}
      /\ ext_todo' = <<>> => ext_command' = E!NoCommand
  BY <1>1 DEF E!NoCommand
<1>3. E!Settled' \subseteq DOMAIN ext_files'
  BY DEF E!Settled
<1>4. ExtCards(ext_files', K) \subseteq ExtCard
  BY DEF ExtCards
<1>5. CASE ext_todo' = <<>>
  <2>1. ext_card = e
    BY <1>1, <1>4, <1>5, ExtLeadsDue
  <2>2. ExtLeads(e, <<>>, e, ExtCards(ext_files', E!Settled')) /\ E!Due(e, <<>>) = <<>>
    BY <1>3, NothingLeft
  <2>. QED  BY <1>1, <1>2, <1>5, <2>1, <2>2 DEF ExtInv
<1>6. CASE ext_todo' # <<>>
  <2>1. E!Settled' \subseteq K
    <3>1. ext_command'.src = src /\ ext_command'.dest = dest
      BY <1>1, <1>6
    <3>2. src # E!NoPath
      <4>1. Len(src) \in {1, 2} /\ Len(E!NoPath) = 0
        BY PathFacts DEF E!NoPath
      <4>. QED  BY <4>1
    <3>3. ASSUME NEW p \in DOMAIN ext_files',
                 ~(\E q \in {src, dest} \ {E!NoPath} : E!IsPrefix(q, p))
          PROVE  p \in K
      <4>1. ~E!IsPrefix(src, p) /\ (dest # E!NoPath => ~E!IsPrefix(dest, p))
        BY <3>2, <3>3
      <4>. QED  BY <4>1
    <3>. QED  BY <1>6, <3>1, <3>3 DEF E!Settled, E!Ready
  <2>2. ExtLeads(ext_card, L, e, ExtCards(ext_files', E!Settled'))
    BY <2>1, ExtLeadsMore
  <2>. QED  BY <1>1, <1>2, <2>2 DEF ExtInv
<1>. QED  BY <1>5, <1>6

\* A transfer.
LEMMA ExtTransferSafe ==
  ASSUME ExtInv, E!Transfer
  PROVE  ExtInv'
<1>1. PICK e, L : /\ ExtLeads(ext_card, L, e, ExtCards(ext_files, E!Settled))
                  /\ ext_todo = E!Due(ext_card, L)
                  /\ ExtTarget(e, ext_files)
  BY DEF ExtInv
<1>. DEFINE t == Head(ext_todo)
            M == Tail(ext_todo)
<1>2. /\ ext_todo # <<>> /\ ext_card' = ExtPut(ext_card, t) /\ ext_todo' = E!Due(ext_card', M)
      /\ ext_command' = (IF ext_todo' = <<>> THEN E!NoCommand ELSE ext_command)
      /\ ext_files' = ext_files
  BY DEF E!Transfer, ExtPut
<1>3. ExtCards(ext_files, E!Settled) \subseteq ExtCard
  BY DEF ExtCards
<1>4. ExtLeads(ext_card', M, e, ExtCards(ext_files, E!Settled))
  BY <1>1, <1>2, <1>3, ExtLeadsDue
<1>. HIDE DEF t, M
<1>5. /\ FilesOK(ext_files')
      /\ ext_command'.src \in E!Path \cup {E!NoPath} /\ ext_command'.dest \in E!Path \cup {E!NoPath}
      /\ ext_todo' = <<>> => ext_command' = E!NoCommand
  BY <1>2 DEF ExtInv, E!NoCommand
<1>6. E!Settled' \subseteq DOMAIN ext_files' /\ ExtTarget(e, ext_files')
  BY <1>1, <1>2 DEF E!Settled
<1>7. CASE ext_todo' = <<>>
  <2>1. ext_card' = e
    BY <1>2, <1>3, <1>4, <1>7, ExtLeadsDue
  <2>2. ExtLeads(e, <<>>, e, ExtCards(ext_files', E!Settled')) /\ E!Due(e, <<>>) = <<>>
    BY <1>5, <1>6, NothingLeft
  <2>. QED  BY <1>5, <1>6, <1>7, <2>1, <2>2 DEF ExtInv
<1>8. CASE ext_todo' # <<>>
  <2>1. E!Settled' \subseteq E!Settled
    BY <1>2, <1>8 DEF E!Settled, E!Ready
  <2>2. ExtLeads(ext_card', M, e, ExtCards(ext_files', E!Settled'))
    BY <1>2, <1>4, <2>1, ExtLeadsMore
  <2>. QED  BY <1>2, <1>5, <1>6, <2>2 DEF ExtInv
<1>. QED  BY <1>7, <1>8

\* What the card is when the user types a command.
LEMMA ReadyFacts ==
  ASSUME ExtInv, E!Ready
  PROVE  /\ ExtTarget(ext_card, ext_files) /\ FilesOK(ext_files)
         /\ ExtGood(ext_card, ext_files, DOMAIN ext_files) /\ Laid(ext_card)
         /\ E!Settled = DOMAIN ext_files
<1>1. PICK e, L : /\ ExtLeads(ext_card, L, e, ExtCards(ext_files, E!Settled))
                  /\ ext_todo = E!Due(ext_card, L)
                  /\ ExtTarget(e, ext_files)
  BY DEF ExtInv
<1>2. ExtCards(ext_files, E!Settled) \subseteq ExtCard
  BY DEF ExtCards
<1>3. ext_card = e
  BY <1>1, <1>2, ExtLeadsDue DEF E!Ready
<1>. QED  BY <1>1, <1>3 DEF ExtInv, ExtTarget, ExtGood, E!Settled

\* The paths at and below one of the files.
LEMMA BelowFacts ==
  ASSUME FilesOK(ext_files), NEW src \in DOMAIN ext_files
  PROVE  DOMAIN ext_files \ E!Below(src) = Kept(ext_files, src)
<1>1. \A p \in DOMAIN ext_files : p \in E!Path
  BY FilesFacts
<1>2. \A p \in DOMAIN ext_files : E!IsPrefix(src, p) <=> Within(src, p)
  BY <1>1, PrefixFacts
<1>. QED  BY <1>2 DEF E!Below, Kept

\* cat writes the inode back as it is.
LEMMA ExtCatSafe ==
  ASSUME ExtInv, NEW path \in E!Path, E!ext_cat(path)
  PROVE  ExtInv'
<1>. DEFINE f == E!ext_find(ext_card, path)
            L == <<<<"inodes", [ext_card.inodes EXCEPT ![f.inode] = ext_card.inodes[f.inode]]>>>>
<1>1. E!Ready /\ E!Begin(L, path, E!NoPath) /\ ext_files' = ext_files
  BY DEF E!ext_cat
<1>2. /\ ExtTarget(ext_card, ext_files) /\ FilesOK(ext_files) /\ Laid(ext_card)
      /\ ExtGood(ext_card, ext_files, DOMAIN ext_files)
  BY <1>1, ReadyFacts
<1>3. ext_card.inodes \in [E!Inode -> Seq(E!Block)] /\ ext_card \in ExtCard
  BY <1>2, LaidFacts
<1>4. [ext_card.inodes EXCEPT ![f.inode] = ext_card.inodes[f.inode]] = ext_card.inodes
  BY <1>3
<1>5. L = <<<<"inodes", ext_card.inodes>>>>
  BY <1>4
<1>6. ExtPut(ext_card, <<"inodes", ext_card.inodes>>) = ext_card
  BY <1>3 DEF ExtPut, ExtCard
<1>. DEFINE G == ExtCards(ext_files, DOMAIN ext_files)
            r == [i \in 1 .. 2 |-> ext_card]
<1>7. L \in Seq(ExtTransfers) /\ Len(L) = 1 /\ L[1] = <<"inodes", ext_card.inodes>>
  <2>1. <<"inodes", ext_card.inodes>> \in ExtTransfers
    BY <1>3 DEF ExtTransfers, ExtFields
  <2>. QED  BY <1>5, <2>1
<1>. HIDE DEF L
<1>8. Through(r, ext_card, L, ext_card, G)
  <2>1. ext_card \in G
    BY <1>2, <1>3 DEF ExtCards
  <2>2. r \in [1 .. 2 -> G] /\ r[1] = ext_card /\ r[2] = ext_card
    BY <2>1
  <2>. HIDE DEF r, G
  <2>3. \A i \in 1 .. 1 : r[i + 1] = ExtPut(r[i], L[i])
    <3>1. \A i \in 1 .. 1 : i = 1 /\ i + 1 = 2
      OBVIOUS
    <3>. QED  BY <1>6, <1>7, <2>2, <3>1
  <2>4. Len(L) + 1 = 2
    BY <1>7
  <2>. QED  BY <1>7, <2>2, <2>3, <2>4 DEF Through
<1>9. ExtLeads(ext_card, L, ext_card, G)
  BY <1>7, <1>8 DEF ExtLeads
<1>. QED  BY <1>1, <1>2, <1>9, BeginSafe

-----------------------------------------------------------------------------
(* ext_rm and ext_mv *)

\* The user names file src, which is found as f.
IsNamed(c, F, src, f) ==
    FilesOK(F) /\ ExtTarget(c, F) /\ src \in DOMAIN F /\ f = E!ext_find(c, src)

\* A card of four parts, and what a transfer makes of it.
Parts(b, ib, ino, d) == [blockBits |-> b, inodeBits |-> ib, inodes |-> ino, dirs |-> d]

LEMMA PartsFacts ==
  ASSUME NEW b, NEW ib, NEW ino, NEW d
  PROVE  /\ \A x : ExtPut(Parts(b, ib, ino, d), <<"blockBits", x>>) = Parts(x, ib, ino, d)
         /\ \A x : ExtPut(Parts(b, ib, ino, d), <<"inodeBits", x>>) = Parts(b, x, ino, d)
         /\ \A x : ExtPut(Parts(b, ib, ino, d), <<"inodes", x>>) = Parts(b, ib, x, d)
         /\ \A x : ExtPut(Parts(b, ib, ino, d), <<"dirs", x>>) = Parts(b, ib, ino, x)
         /\ Parts(b, ib, ino, d).blockBits = b /\ Parts(b, ib, ino, d).inodeBits = ib
         /\ Parts(b, ib, ino, d).inodes = ino /\ Parts(b, ib, ino, d).dirs = d
BY DEF ExtPut, Parts

\* The transfers of the parts.
LEMMA TransferTypes ==
  /\ \A x \in SUBSET E!Block : <<"blockBits", x>> \in ExtTransfers
  /\ \A x \in SUBSET E!Inode : <<"inodeBits", x>> \in ExtTransfers
  /\ \A x \in [E!Inode -> Seq(E!Block)] : <<"inodes", x>> \in ExtTransfers
  /\ \A x \in [{4, 7} -> Seq(E!Entry)] : <<"dirs", x>> \in ExtTransfers
BY DEF ExtTransfers, ExtFields

\* The directories D still have all that those of card c have.
Grown(c, D) ==
    /\ D \in [{4, 7} -> Seq(E!Entry)] /\ RootOK(D[4]) /\ D[7] = c.dirs[7]
    /\ Len(c.dirs[4]) <= Len(D[4])
    /\ \A k \in 2 .. Len(c.dirs[4]) : Alike(D[4][k], c.dirs[4][k])

\* They lack at most the entry of src.
Spared(c, D, src) ==
    /\ D \in [{4, 7} -> Seq(E!Entry)] /\ RootOK(D[4])
    /\ D[7] \in {SubFull, SubLeft} /\ (Len(src) = 1 => D[7] = c.dirs[7])
    /\ \A o \in 2 .. Len(c.dirs[4]) :
          \/ Len(src) = 1 /\ c.dirs[4][o].name = src[1]
          \/ \E k \in 2 .. Len(D[4]) : Alike(D[4][k], c.dirs[4][o])

\* What is known of the file and of the card.
LEMMA NamedFacts ==
  ASSUME NEW c, NEW F, NEW src, NEW f, IsNamed(c, F, src, f)
  PROVE  /\ FilesOK(F) /\ ExtGood(c, F, DOMAIN F) /\ E!Reserved \subseteq c.inodeBits
         /\ Laid(c) /\ src \in DOMAIN F /\ src \in E!Path /\ F[src] \in Contents
         /\ Len(src) = 1 \/ Len(src) = 2
         /\ IsFound(c, F, src, f)
<1>1. FilesOK(F) /\ ExtTarget(c, F) /\ src \in DOMAIN F /\ f = E!ext_find(c, src)
  BY DEF IsNamed
<1>2. ExtGood(c, F, DOMAIN F) /\ E!Reserved \subseteq c.inodeBits /\ Laid(c)
  BY <1>1 DEF ExtTarget, ExtGood
<1>3. src \in E!Path /\ F[src] \in Contents
  BY <1>1, FilesFacts
<1>4. Len(src) = 1 \/ Len(src) = 2
  BY <1>3, PathFacts
<1>5. IsFound(c, F, src, E!ext_find(c, src))
  BY <1>1, <1>2, SrcFacts
<1>. QED  BY <1>1, <1>2, <1>3, <1>4, <1>5

\* With the entry of src and without it.
LEMMA GrownSpared ==
  ASSUME NEW c, NEW F, NEW src, NEW f, IsNamed(c, F, src, f), NEW D, Grown(c, D)
  PROVE  Spared(c, D, src) /\ Spared(c, Unlink(D, f), src)
<1>1. /\ Laid(c)
      /\ Len(src) = 1 \/ Len(src) = 2
      /\ Len(src) = 1 => /\ f.father = 4 /\ f.offset \in 2 .. Len(c.dirs[4])
                         /\ c.dirs[4][f.offset].name = src[1]
      /\ Len(src) = 2 => f.father = 7 /\ f.offset = 2 /\ c.dirs[7] = SubFull
  BY NamedFacts DEF IsFound
<1>2. c.dirs[7] \in {SubFull, SubLeft} /\ Len(c.dirs[4]) \in Nat
  BY <1>1, LaidFacts
<1>3. /\ D \in [{4, 7} -> Seq(E!Entry)] /\ RootOK(D[4]) /\ D[7] = c.dirs[7]
      /\ Len(c.dirs[4]) <= Len(D[4])
      /\ \A k \in 2 .. Len(c.dirs[4]) : Alike(D[4][k], c.dirs[4][k])
  BY DEF Grown
<1>4. \A k \in 2 .. Len(c.dirs[4]) : k \in 2 .. Len(D[4])
  <2>1. Len(D[4]) \in Nat
    BY <1>3, LenProperties DEF RootOK
  <2>. QED  BY <1>2, <1>3, <2>1
<1>5. Spared(c, D, src)
  BY <1>2, <1>3, <1>4 DEF Spared
<1>6. CASE Len(src) = 1
  <2>. DEFINE o == f.offset
  <2>1. f.father = 4 /\ o \in 2 .. Len(D[4]) /\ o \in 2 .. Len(c.dirs[4])
    BY <1>1, <1>4, <1>6
  <2>2. /\ Unlink(D, f) \in [{4, 7} -> Seq(E!Entry)] /\ RootOK(Unlink(D, f)[4])
        /\ Unlink(D, f)[7] = c.dirs[7] /\ Unlink(D, f)[4] = E!Removed(D[4], o)
    BY <1>2, <1>3, <2>1, UnlinkFacts
  <2>3. ASSUME NEW k \in 2 .. Len(c.dirs[4]), c.dirs[4][k].name # src[1]
        PROVE  \E j \in 2 .. Len(Unlink(D, f)[4]) : Alike(Unlink(D, f)[4][j], c.dirs[4][k])
    <3>1. k \in (2 .. Len(D[4])) \ {o} /\ Alike(D[4][k], c.dirs[4][k])
      BY <1>1, <1>3, <1>4, <1>6, <2>3
    <3>2. PICK j \in 2 .. Len(E!Removed(D[4], o)) : Alike(E!Removed(D[4], o)[j], D[4][k])
      BY <1>3, <2>1, <3>1, RemovedFacts
    <3>3. Alike(E!Removed(D[4], o)[j], c.dirs[4][k])
      BY <3>1, <3>2 DEF Alike
    <3>. QED  BY <2>2, <3>2, <3>3
  <2>4. \A k \in 2 .. Len(c.dirs[4]) :
          \/ Len(src) = 1 /\ c.dirs[4][k].name = src[1]
          \/ \E j \in 2 .. Len(Unlink(D, f)[4]) : Alike(Unlink(D, f)[4][j], c.dirs[4][k])
    BY <1>6, <2>3
  <2>. HIDE DEF o
  <2>. QED  BY <1>2, <1>5, <2>2, <2>4 DEF Spared
<1>7. CASE Len(src) = 2
  <2>1. f.father = 7 /\ f.offset = 2 /\ D[7] = SubFull
    BY <1>1, <1>3, <1>7
  <2>2. /\ Unlink(D, f) \in [{4, 7} -> Seq(E!Entry)] /\ RootOK(Unlink(D, f)[4])
        /\ Unlink(D, f)[7] = SubLeft /\ Unlink(D, f)[4] = D[4]
    BY <1>2, <1>3, <2>1, UnlinkFacts
  <2>3. \A k \in 2 .. Len(c.dirs[4]) :
           \E j \in 2 .. Len(Unlink(D, f)[4]) : Alike(Unlink(D, f)[4][j], c.dirs[4][k])
    BY <1>3, <1>4, <2>2
  <2>. QED  BY <1>5, <1>7, <2>2, <2>3 DEF Spared
<1>. QED  BY <1>1, <1>5, <1>6, <1>7

\* A card on the way.
LEMMA OnTheWay ==
  ASSUME NEW c, NEW F, NEW src, NEW f, IsNamed(c, F, src, f),
         NEW b \in SUBSET E!Block, c.blockBits \ E!ToSet(F[src]) \subseteq b,
         NEW ib \in SUBSET E!Inode, c.inodeBits \ {f.inode} \subseteq ib,
         NEW ino \in [E!Inode -> Seq(E!Block)],
         \A j \in c.inodeBits : j # f.inode /\ j # 0 => ino[j] = c.inodes[j],
         NEW D, Spared(c, D, src)
  PROVE  /\ Parts(b, ib, ino, D) \in ExtCards(F, Kept(F, src))
         /\ ExtGood(Parts(b, ib, ino, D), F, Kept(F, src))
         /\ \A p \in Kept(F, src) : \A j, u : At(c, p, j, u) => At(Parts(b, ib, ino, D), p, j, u)
<1>. DEFINE c2 == Parts(b, ib, ino, D)
<1>1. c2.blockBits = b /\ c2.inodeBits = ib /\ c2.inodes = ino /\ c2.dirs = D
  BY PartsFacts
<1>2. c2 \in ExtCard
  BY DEF ExtCard, Spared, Parts
<1>3. Aside(c, c2, F, src, f.inode)
  <2>. HIDE DEF c2
  <2>1. \A j \in c.inodeBits : j # f.inode => j \in c2.inodeBits /\ (j # 0 => c2.inodes[j] = c.inodes[j])
    BY <1>1
  <2>2. c.blockBits \ E!ToSet(F[src]) \subseteq c2.blockBits
    BY <1>1
  <2>. QED  BY <1>1, <1>2, <2>1, <2>2 DEF Aside, Spared
<1>. HIDE DEF c2
<1>4. /\ FilesOK(F) /\ ExtGood(c, F, DOMAIN F) /\ E!Reserved \subseteq c.inodeBits
      /\ src \in DOMAIN F /\ f.inode \in E!Inode \ E!Reserved
      /\ At(c, src, f.inode, f.type) /\ c.inodes[f.inode] = F[src]
  BY NamedFacts DEF IsFound
<1>5. ExtGood(c2, F, Kept(F, src)) /\ \A p \in Kept(F, src) : \A j, u : At(c, p, j, u) => At(c2, p, j, u)
  BY <1>3, <1>4, Undisturbed
<1>. QED  BY <1>2, <1>5 DEF ExtCards, c2

\* The same files under the same paths.
LEMMA SameCards ==
  ASSUME NEW F, NEW G, NEW S, \A p \in S : F[p] = G[p]
  PROVE  ExtCards(F, S) = ExtCards(G, S) /\ \A c : ExtGood(c, F, S) <=> ExtGood(c, G, S)
<1>1. \A c : ExtGood(c, F, S) <=> ExtGood(c, G, S)
  BY DEF ExtGood
<1>. QED  BY <1>1 DEF ExtCards

\* The directories U have what D has, but for the entry of src.
Lacking(D, U, src) ==
    /\ U \in [{4, 7} -> Seq(E!Entry)]
    /\ \A j \in 2 .. Len(U[4]) : \E k \in 2 .. Len(D[4]) :
          /\ Alike(U[4][j], D[4][k])
          /\ Len(src) = 1 => D[4][k].name # src[1]
    /\ \A k \in 2 .. Len(D[4]) :
          \/ Len(src) = 1 /\ D[4][k].name = src[1]
          \/ \E j \in 2 .. Len(U[4]) : Alike(U[4][j], D[4][k])
    /\ Len(src) = 2 => U[7] = SubLeft
    /\ Len(src) = 1 => U[7] = D[7]

LEMMA UnlinkedNames ==
  ASSUME NEW c, NEW F, NEW src, NEW f, IsNamed(c, F, src, f), NEW D, Grown(c, D)
  PROVE  Spared(c, Unlink(D, f), src) /\ Lacking(D, Unlink(D, f), src)
<1>1. /\ Laid(c)
      /\ Len(src) = 1 \/ Len(src) = 2
      /\ Len(src) = 1 => /\ f.father = 4 /\ f.offset \in 2 .. Len(c.dirs[4])
                         /\ c.dirs[4][f.offset].name = src[1]
      /\ Len(src) = 2 => f.father = 7 /\ f.offset = 2 /\ c.dirs[7] = SubFull
  BY NamedFacts DEF IsFound
<1>2. c.dirs[7] \in {SubFull, SubLeft} /\ Len(c.dirs[4]) \in Nat
  BY <1>1, LaidFacts
<1>3. /\ D \in [{4, 7} -> Seq(E!Entry)] /\ RootOK(D[4]) /\ D[7] = c.dirs[7]
      /\ Len(c.dirs[4]) <= Len(D[4]) /\ Len(D[4]) \in Nat
      /\ \A k \in 2 .. Len(c.dirs[4]) : Alike(D[4][k], c.dirs[4][k])
      /\ \A k, l \in 1 .. Len(D[4]) : D[4][k].name = D[4][l].name => k = l
  BY LenProperties DEF Grown, RootOK
<1>4. Spared(c, Unlink(D, f), src)
  BY GrownSpared
<1>5. CASE Len(src) = 1
  <2>. DEFINE o == f.offset
  <2>1. /\ f.father = 4 /\ o \in 2 .. Len(D[4]) /\ o \in 1 .. Len(D[4]) /\ o \in 2 .. Len(c.dirs[4])
        /\ D[4][o].name = src[1]
    <3>1. f.father = 4 /\ o \in 2 .. Len(c.dirs[4]) /\ c.dirs[4][o].name = src[1]
      BY <1>1, <1>5
    <3>2. D[4][o].name = src[1]
      BY <1>3, <3>1 DEF Alike
    <3>. HIDE DEF o
    <3>. QED  BY <1>2, <1>3, <3>1, <3>2
  <2>2. /\ Unlink(D, f) \in [{4, 7} -> Seq(E!Entry)]
        /\ Unlink(D, f)[7] = c.dirs[7] /\ Unlink(D, f)[4] = E!Removed(D[4], o)
    BY <1>2, <1>3, <2>1, UnlinkFacts
  <2>. HIDE DEF o
  <2>3. \A k \in (2 .. Len(D[4])) \ {o} : D[4][k].name # src[1]
    <3>1. \A k \in (2 .. Len(D[4])) \ {o} : k \in 1 .. Len(D[4])
      BY <1>3
    <3>. QED  BY <1>3, <2>1, <3>1
  <2>4. \A j \in 2 .. Len(Unlink(D, f)[4]) : \E k \in 2 .. Len(D[4]) :
           Alike(Unlink(D, f)[4][j], D[4][k]) /\ D[4][k].name # src[1]
    <3>1. \A j \in 2 .. Len(E!Removed(D[4], o)) : \E k \in (2 .. Len(D[4])) \ {o} :
             Alike(E!Removed(D[4], o)[j], D[4][k])
      BY <1>3, <2>1, RemovedFacts
    <3>. QED  BY <2>2, <2>3, <3>1
  <2>5. \A k \in 2 .. Len(D[4]) :
           \/ D[4][k].name = src[1]
           \/ \E j \in 2 .. Len(Unlink(D, f)[4]) : Alike(Unlink(D, f)[4][j], D[4][k])
    <3>1. \A k \in (2 .. Len(D[4])) \ {o} : \E j \in 2 .. Len(E!Removed(D[4], o)) :
             Alike(E!Removed(D[4], o)[j], D[4][k])
      BY <1>3, <2>1, RemovedFacts
    <3>. QED  BY <2>1, <2>2, <3>1
  <2>6. Lacking(D, Unlink(D, f), src)
    BY <1>3, <1>5, <2>2, <2>4, <2>5 DEF Lacking
  <2>. QED  BY <1>4, <2>6
<1>6. CASE Len(src) = 2
  <2>1. f.father = 7 /\ f.offset = 2 /\ D[7] = SubFull
    BY <1>1, <1>3, <1>6
  <2>2. /\ Unlink(D, f) \in [{4, 7} -> Seq(E!Entry)]
        /\ Unlink(D, f)[7] = SubLeft /\ Unlink(D, f)[4] = D[4]
    BY <1>2, <1>3, <2>1, UnlinkFacts
  <2>3. \A k \in 2 .. Len(D[4]) : Alike(D[4][k], D[4][k])
    BY DEF Alike
  <2>4. Lacking(D, Unlink(D, f), src)
    BY <1>6, <2>2, <2>3 DEF Lacking
  <2>. QED  BY <1>4, <2>4
<1>. QED  BY <1>1, <1>5, <1>6

\* ext_rm.
LEMMA ExtRmSafe ==
  ASSUME ExtInv, OnlyExisting, NEW path \in E!Path, E!ext_rm(path)
  PROVE  ExtInv'
<1>. DEFINE c == ext_card
            F == ext_files
            K == Kept(F, path)
            G == [p \in K |-> F[p]]
            f == E!ext_find(c, path)
            i == f.inode
            b == c.blockBits \ E!ToSet(c.inodes[i])
            ino == [c.inodes EXCEPT ![0] = <<>>]
            ib == c.inodeBits \ {i}
            D == Unlink(c.dirs, f)
            L == <<<<"blockBits", b>>, <<"inodes", ino>>, <<"inodeBits", ib>>, <<"dirs", D>>>>
            x1 == Parts(b, c.inodeBits, c.inodes, c.dirs)
            x2 == Parts(b, c.inodeBits, ino, c.dirs)
            x3 == Parts(b, ib, ino, c.dirs)
            x4 == Parts(b, ib, ino, D)
<1>1. /\ E!Ready /\ path \in DOMAIN F
      /\ E!Begin(L, path, E!NoPath)
      /\ F' = [p \in DOMAIN F \ E!Below(path) |-> F[p]]
  BY DEF E!ext_rm, E!Nameable, Unlink
<1>2. FilesOK(F) /\ ExtTarget(c, F)
  BY <1>1, ReadyFacts
<1>3. IsNamed(c, F, path, f)
  BY <1>1, <1>2 DEF IsNamed
<1>4. F' = G
  BY <1>1, <1>2, BelowFacts
<1>5. /\ Laid(c) /\ i \in E!Inode \ E!Reserved /\ i \in c.inodeBits
      /\ At(c, path, i, f.type) /\ c.inodes[i] = F[path]
      /\ E!Reserved \subseteq c.inodeBits
      /\ Len(path) = 1 \/ Len(path) = 2
      /\ Len(path) = 2 => i = 13
  BY <1>3, NamedFacts DEF IsFound
<1>6. /\ c \in ExtCard /\ c.blockBits \in SUBSET E!Block /\ c.inodeBits \in SUBSET E!Inode
      /\ c.inodes \in [E!Inode -> Seq(E!Block)] /\ c.dirs \in [{4, 7} -> Seq(E!Entry)]
      /\ RootOK(c.dirs[4]) /\ Len(c.dirs[4]) \in Nat
  BY <1>5, LaidFacts
<1>7. Grown(c, c.dirs)
  BY <1>6 DEF Grown, Alike
<1>8. /\ Spared(c, c.dirs, path) /\ Spared(c, D, path)
      /\ D \in [{4, 7} -> Seq(E!Entry)]
      /\ \A j \in 2 .. Len(D[4]) : \E k \in 2 .. Len(c.dirs[4]) :
               /\ Alike(D[4][j], c.dirs[4][k])
               /\ Len(path) = 1 => c.dirs[4][k].name # path[1]
      /\ Len(path) = 2 => D[7] = SubLeft
      /\ Len(path) = 1 => D[7] = c.dirs[7]
  <2>. DEFINE U == Unlink(c.dirs, f)
  <2>. HIDE DEF f, c, F
  <2>1. Spared(c, c.dirs, path) /\ Spared(c, U, path)
    BY <1>3, <1>7, GrownSpared
  <2>2. /\ U \in [{4, 7} -> Seq(E!Entry)]
        /\ \A j \in 2 .. Len(U[4]) : \E k \in 2 .. Len(c.dirs[4]) :
                 /\ Alike(U[4][j], c.dirs[4][k])
                 /\ Len(path) = 1 => c.dirs[4][k].name # path[1]
        /\ Len(path) = 2 => U[7] = SubLeft
        /\ Len(path) = 1 => U[7] = c.dirs[7]
    <3>1. Lacking(c.dirs, U, path)
      BY <1>3, <1>7, UnlinkedNames
    <3>. HIDE DEF U
    <3>. QED  BY <3>1 DEF Lacking
  <2>3. D = U
    OBVIOUS
  <2>. HIDE DEF U, D
  <2>. QED  BY <2>1, <2>2, <2>3
<1>9. /\ b \in SUBSET E!Block /\ c.blockBits \ E!ToSet(F[path]) \subseteq b
      /\ ib \in SUBSET E!Inode /\ c.inodeBits \ {i} \subseteq ib
      /\ c.inodeBits \ {i} \subseteq c.inodeBits
      /\ ino \in [E!Inode -> Seq(E!Block)]
      /\ \A j \in c.inodeBits : j # i /\ j # 0 => ino[j] = c.inodes[j]
      /\ \A j \in c.inodeBits : j # i /\ j # 0 => c.inodes[j] = c.inodes[j]
      /\ c.blockBits \ E!ToSet(F[path]) \subseteq c.blockBits
  <2>. HIDE DEF f, i, c, F
  <2>1. b \in SUBSET E!Block /\ c.blockBits \ E!ToSet(F[path]) \subseteq b
    BY <1>5, <1>6
  <2>2. ib \in SUBSET E!Inode /\ c.inodeBits \ {i} \subseteq ib /\ c.inodeBits \ {i} \subseteq c.inodeBits
    BY <1>6
  <2>3. ino \in [E!Inode -> Seq(E!Block)]
    <3>1. <<>> \in Seq(E!Block)
      OBVIOUS
    <3>. QED  BY <1>6, <3>1
  <2>4. \A j \in c.inodeBits : j # i /\ j # 0 => ino[j] = c.inodes[j]
    BY <1>6
  <2>. HIDE DEF b, ib, ino
  <2>. QED  BY <2>1, <2>2, <2>3, <2>4
<1>10. c = Parts(c.blockBits, c.inodeBits, c.inodes, c.dirs)
  BY <1>6 DEF ExtCard, Parts
<1>. HIDE DEF b, ino, ib, D
<1>11. /\ c \in ExtCards(F, K) /\ x1 \in ExtCards(F, K) /\ x2 \in ExtCards(F, K)
       /\ x3 \in ExtCards(F, K) /\ x4 \in ExtCards(F, K)
       /\ ExtGood(x4, F, K) /\ \A p \in K : \A j, u : At(c, p, j, u) => At(x4, p, j, u)
  <2>. HIDE DEF c, F, f, i
  <2>0. c \in ExtCards(F, K)
    <3>1. Parts(c.blockBits, c.inodeBits, c.inodes, c.dirs) \in ExtCards(F, K)
      BY <1>3, <1>6, <1>8, <1>9, OnTheWay DEF i
    <3>. QED  BY <1>10, <3>1
  <2>1. x1 \in ExtCards(F, K)
    BY <1>3, <1>6, <1>8, <1>9, OnTheWay DEF i
  <2>2. x2 \in ExtCards(F, K)
    BY <1>3, <1>6, <1>8, <1>9, OnTheWay DEF i
  <2>3. x3 \in ExtCards(F, K)
    BY <1>3, <1>6, <1>8, <1>9, OnTheWay DEF i
  <2>4. x4 \in ExtCards(F, K) /\ ExtGood(x4, F, K)
        /\ \A p \in K : \A j, u : At(c, p, j, u) => At(x4, p, j, u)
    BY <1>3, <1>6, <1>8, <1>9, OnTheWay DEF i
  <2>. QED  BY <2>0, <2>1, <2>2, <2>3, <2>4
<1>12. ExtLeads(c, L, x4, ExtCards(F, K))
  <2>. DEFINE r == <<c, x1, x2, x3, x4>>
  <2>1. L \in Seq(ExtTransfers) /\ Len(L) = 4
        /\ L[1] = <<"blockBits", b>> /\ L[2] = <<"inodes", ino>>
        /\ L[3] = <<"inodeBits", ib>> /\ L[4] = <<"dirs", D>>
    <3>1. /\ <<"blockBits", b>> \in ExtTransfers /\ <<"inodes", ino>> \in ExtTransfers
          /\ <<"inodeBits", ib>> \in ExtTransfers /\ <<"dirs", D>> \in ExtTransfers
      BY <1>8, <1>9, TransferTypes
    <3>. QED  BY <3>1
  <2>2. /\ x1 = ExtPut(c, L[1]) /\ x2 = ExtPut(x1, L[2]) /\ x3 = ExtPut(x2, L[3]) /\ x4 = ExtPut(x3, L[4])
    BY <1>10, <2>1, PartsFacts
  <2>. HIDE DEF c, x1, x2, x3, x4, L
  <2>3. /\ r \in [1 .. 5 -> ExtCards(F, K)] /\ r[1] = c /\ r[2] = x1 /\ r[3] = x2
        /\ r[4] = x3 /\ r[5] = x4
    BY <1>11
  <2>. HIDE DEF r
  <2>4. ASSUME NEW k \in 1 .. 4  PROVE r[k + 1] = ExtPut(r[k], L[k])
    <3>1. k = 1 \/ k = 2 \/ k = 3 \/ k = 4
      OBVIOUS
    <3>2. 1 + 1 = 2 /\ 2 + 1 = 3 /\ 3 + 1 = 4 /\ 4 + 1 = 5
      OBVIOUS
    <3>. QED  BY <2>2, <2>3, <3>1, <3>2
  <2>5. 4 + 1 = 5
    OBVIOUS
  <2>6. Through(r, c, L, x4, ExtCards(F, K))
    BY <2>1, <2>3, <2>4, <2>5 DEF Through
  <2>. QED  BY <2>1, <2>6 DEF ExtLeads
<1>13. /\ \A p \in K : p \in DOMAIN F /\ p # path /\ F[p] # F[path]
       /\ \A p \in K : Len(p) = 2 => Len(path) = 1 /\ path[1] # p[1] /\ <<p[1]>> \in K
       /\ Len(path) = 2 => K = DOMAIN F \ {path}
       /\ \A p \in DOMAIN F \ K : p = path \/ (Len(path) = 1 /\ p = <<path[1], E!Second>> /\ Len(p) = 2)
  BY <1>1, <1>2, KeptFacts
<1>14. DOMAIN G = K /\ \A p \in K : G[p] = F[p]
  OBVIOUS
<1>. HIDE DEF G, K, L
<1>15. FilesOK(G)
  <2>1. /\ \A p \in DOMAIN F : p \in E!Path /\ F[p] \in Contents
        /\ \A p, q \in DOMAIN F : F[p] = F[q] => p = q
        /\ \A p \in DOMAIN F : Len(p) = 2 => p[2] = E!Second /\ F[p] = <<8>> /\ F[<<p[1]>>] = <<7>>
    BY <1>2 DEF FilesOK
  <2>2. G \in [DOMAIN G -> Contents]
    <3>1. G = [p \in DOMAIN G |-> G[p]]
      BY DEF G
    <3>. QED  BY <1>13, <1>14, <2>1, <3>1
  <2>. QED  BY <1>13, <1>14, <2>1, <2>2 DEF FilesOK
<1>16. ExtTarget(x4, G)
  <2>1. x4.blockBits = b /\ x4.inodeBits = ib /\ x4.inodes = ino /\ x4.dirs = D
    BY PartsFacts
  <2>2. ExtGood(x4, G, DOMAIN G)
    <3>. HIDE DEF x4
    <3>. QED  BY <1>11, <1>14, SameCards
  <2>3. /\ \A o \in 2 .. Len(c.dirs[4]) : <<c.dirs[4][o].name>> \in DOMAIN F
        /\ c.dirs[7] = SubFull =>
              \A p \in DOMAIN F : F[p] = <<7>> => <<p[1], E!Second>> \in DOMAIN F
        /\ \A j \in c.inodeBits \ E!Reserved :
              j = 13 \/ \E p \in DOMAIN F, t \in {"file", "dir"} : At(c, p, j, t)
    BY <1>2 DEF ExtTarget
  <2>4. \A o \in 2 .. Len(D[4]) : <<D[4][o].name>> \in DOMAIN G
    <3>1. SUFFICES ASSUME NEW o \in 2 .. Len(D[4])  PROVE <<D[4][o].name>> \in K
      BY <1>14
    <3>2. PICK k \in 2 .. Len(c.dirs[4]) : /\ Alike(D[4][o], c.dirs[4][k])
                                           /\ Len(path) = 1 => c.dirs[4][k].name # path[1]
      BY <1>8
    <3>. DEFINE q == <<c.dirs[4][k].name>>
    <3>3. q \in DOMAIN F /\ <<D[4][o].name>> = q
      BY <2>3, <3>2 DEF Alike
    <3>4. Len(q) = 1 /\ q[1] = c.dirs[4][k].name
      OBVIOUS
    <3>. HIDE DEF q
    <3>5. q # path
      BY <1>5, <3>2, <3>4
    <3>6. q \in K
      BY <1>13, <3>3, <3>4, <3>5
    <3>. QED  BY <3>3, <3>6
  <2>5. ASSUME D[7] = SubFull, NEW p \in DOMAIN G, G[p] = << 7 >>
        PROVE  <<p[1], E!Second>> \in DOMAIN G
    <3>1. SubFull # SubLeft
      <4>1. Len(SubFull) = 2 /\ Len(SubLeft) = 1
        BY DEF SubFull, SubLeft
      <4>. QED  BY <4>1
    <3>2. Len(path) = 1 /\ c.dirs[7] = SubFull
      BY <1>5, <1>8, <2>5, <3>1
    <3>3. p \in K /\ p \in DOMAIN F /\ F[p] = <<7>> /\ Len(p) = 1 /\ p[1] # path[1]
      <4>1. p \in K /\ p \in DOMAIN F /\ F[p] = <<7>>
        BY <1>13, <1>14, <2>5
      <4>2. Len(p) = 1
        BY <1>2, <4>1, FilesFacts
      <4>3. p[1] # path[1]
        BY <1>1, <1>2, <3>2, <4>1, KeptFacts DEF K
      <4>. QED  BY <4>1, <4>2, <4>3
    <3>. DEFINE q == <<p[1], E!Second>>
    <3>4. q \in DOMAIN F /\ q[1] = p[1] /\ Len(q) = 2
      BY <2>3, <3>2, <3>3
    <3>5. q # path /\ q # <<path[1], E!Second>>
      BY <3>2, <3>3, <3>4
    <3>. HIDE DEF q
    <3>6. q \in K
      BY <1>13, <3>4, <3>5
    <3>. QED  BY <1>14, <3>6 DEF q
  <2>6. E!Reserved \subseteq ib
    BY <1>5 DEF ib
  <2>7. ASSUME NEW j \in ib \ E!Reserved
        PROVE  j = 13 \/ \E p \in DOMAIN G, t \in {"file", "dir"} : At(x4, p, j, t)
    <3>1. j \in c.inodeBits \ E!Reserved /\ j # i
      BY <2>7 DEF ib
    <3>2. SUFFICES ASSUME j # 13
          PROVE  \E p \in K, t \in {"file", "dir"} : At(x4, p, j, t)
      BY <1>14
    <3>3. PICK p \in DOMAIN F, t \in {"file", "dir"} : At(c, p, j, t)
      BY <2>3, <3>1, <3>2
    <3>4. p \in K
      <4>1. p # path
        BY <1>5, <3>1, <3>3, AtOnce
      <4>2. Len(p) # 2
        BY <3>2, <3>3 DEF At
      <4>. QED  BY <1>13, <4>1, <4>2
    <3>. QED  BY <1>11, <3>3, <3>4
  <2>. HIDE DEF x4
  <2>. QED  BY <2>1, <2>2, <2>4, <2>5, <2>6, <2>7 DEF ExtTarget
<1>17. ExtLeads(c, L, x4, ExtCards(G, K))
  BY <1>12, <1>14, SameCards
<1>18. \A p \in DOMAIN G : p \in K
  BY <1>14
<1>. HIDE DEF x4
<1>. QED  BY <1>1, <1>4, <1>15, <1>16, <1>17, <1>18, BeginSafe DEF L

\* The root directory with the new name.
LEMMA CreateFacts ==
  ASSUME NEW c, NEW F, NEW src, NEW f, IsNamed(c, F, src, f), NEW n \in ExtNames,
         ~E!ext_find(c, <<n>>).ok, NEW i \in E!Inode,
         NEW D, D = E!ext_create_with_attr(c, n, i, f.type)
  PROVE  /\ Grown(c, D) /\ Len(D[4]) = Len(c.dirs[4]) + 1
         /\ D[4][Len(D[4])].name = n /\ D[4][Len(D[4])].inode = i
         /\ D[4][Len(D[4])].type = f.type
<1>. DEFINE d == c.dirs[4]
            e == [name |-> n, inode |-> i, type |-> f.type, len |-> BlockLen]
            room == {k \in DOMAIN <<4>> : E!Rest(c.dirs[<<4>>[k]]) >= 1}
<1>1. /\ Laid(c) /\ ExtTarget(c, F) /\ FilesOK(F) /\ f.type \in {"file", "dir"}
  BY NamedFacts DEF IsFound, IsNamed
<1>2. /\ c.dirs \in [{4, 7} -> Seq(E!Entry)] /\ RootOK(d) /\ Len(d) \in Nat /\ Len(d) >= 1
      /\ c.inodes[E!RootInode] = <<4>> /\ d \in Seq(E!Entry)
  BY <1>1, LaidFacts DEF RootOK
<1>3. Len(d) <= 4 /\ BlockLen \in Nat /\ BlockLen >= 5
  BY <1>1, RoomLeft, NamesFacts
<1>4. \A k \in 2 .. Len(d) : d[k].name # n
  BY <1>1, NameIsNew
<1>5. E!Rest(d) = BlockLen - Len(d)
  BY <1>2, FilledFacts DEF RootOK
<1>6. room = {1}
  <2>1. DOMAIN <<4>> = {1} /\ <<4>>[1] = 4
    OBVIOUS
  <2>2. E!Rest(d) >= 1
    <3>. HIDE DEF d
    <3>. QED  BY <1>2, <1>3, <1>5
  <2>. HIDE DEF d
  <2>. QED  BY <2>1, <2>2 DEF d
<1>7. E!Min({1}) = 1 /\ <<4>>[1] = 4
  BY DEF E!Min
<1>8. D = IF room = {} THEN [c.dirs EXCEPT ![E!Last(<<4>>)] = <<e>>]
          ELSE [c.dirs EXCEPT ![<<4>>[E!Min(room)]] = E!Appended(@, e)]
  BY <1>2 DEF E!ext_create_with_attr
<1>9. D = [c.dirs EXCEPT ![4] = E!Appended(@, e)]
  <2>. HIDE DEF e, room
  <2>1. room # {} /\ <<4>>[E!Min(room)] = 4
    BY <1>6, <1>7
  <2>. QED  BY <1>8, <2>1
<1>10. D[4] = E!Appended(d, e) /\ D[7] = c.dirs[7] /\ DOMAIN D = {4, 7}
  <2>. HIDE DEF e
  <2>. QED  BY <1>2, <1>9
<1>11. /\ RootOK(E!Appended(d, e)) /\ Len(E!Appended(d, e)) = Len(d) + 1
       /\ \A k \in 2 .. Len(d) : Alike(E!Appended(d, e)[k], d[k])
       /\ Alike(E!Appended(d, e)[Len(d) + 1], e)
  <2>1. Len(d) < BlockLen
    <3>. HIDE DEF d
    <3>. QED  BY <1>2, <1>3
  <2>. HIDE DEF d
  <2>. QED  BY <1>1, <1>2, <1>4, <2>1, AppendedFacts
<1>12. D \in [{4, 7} -> Seq(E!Entry)]
  <2>. HIDE DEF e
  <2>1. D = [b \in {4, 7} |-> D[b]]
    BY <1>2, <1>9
  <2>2. D[4] \in Seq(E!Entry) /\ D[7] \in Seq(E!Entry)
    BY <1>2, <1>10, <1>11 DEF RootOK
  <2>. QED  BY <2>1, <2>2
<1>13. e.name = n /\ e.inode = i /\ e.type = f.type
  OBVIOUS
<1>. HIDE DEF e, d
<1>14. Len(d) <= Len(d) + 1
  BY <1>2
<1>15. Grown(c, D)
  BY <1>10, <1>11, <1>12, <1>14 DEF Grown, d
<1>. QED  BY <1>10, <1>11, <1>13, <1>15 DEF Alike, d

\* G has the files of F, but src is now n with all below it.
Goes(F, G, src, n) ==
    /\ G = [p \in DOMAIN G |-> G[p]]
    /\ \A p \in Kept(F, src) : p \in DOMAIN G /\ G[p] = F[p]
    /\ <<n>> \in DOMAIN G /\ G[<<n>>] = F[src]
    /\ \A p \in DOMAIN G : \/ p \in Kept(F, src)
                           \/ p = <<n>>
                           \/ /\ p = <<n, E!Second>> /\ Len(src) = 1 /\ G[p] = <<8>>
                              /\ <<src[1], E!Second>> \in DOMAIN F
    /\ Len(src) = 1 /\ <<src[1], E!Second>> \in DOMAIN F => <<n, E!Second>> \in DOMAIN G

\* Where a path at or below src goes.
MovedTo(src, n, p) == <<n>> \o SubSeq(p, Len(src) + 1, Len(p))

LEMMA MovedToFacts ==
  ASSUME NEW src \in E!Path, NEW n \in ExtNames, NEW p \in E!Path, Within(src, p)
  PROVE  /\ p = src => MovedTo(src, n, p) = <<n>>
         /\ p # src => Len(src) = 1 /\ Len(p) = 2 /\ MovedTo(src, n, p) = <<n, p[2]>>
<1>0. <<n>> \in Seq(ExtNames) /\ Len(<<n>>) = 1 /\ <<n>>[1] = n
  OBVIOUS
<1>1. CASE p = src
  <2>1. Len(src) \in Nat
    BY PathFacts
  <2>2. SubSeq(src, Len(src) + 1, Len(src)) = <<>>
    BY <2>1, SubSeqEmpty
  <2>3. <<n>> \o <<>> = <<n>>
    BY <1>0, ConcatEmptySeq
  <2>. QED  BY <1>1, <2>2, <2>3 DEF MovedTo
<1>2. CASE p # src
  <2>1. Len(src) = 1 /\ Len(p) = 2 /\ p[2] \in ExtNames /\ p \in Seq(ExtNames)
    BY <1>2, PathFacts DEF Within
  <2>. DEFINE u == SubSeq(p, 2, 2)
              v == <<n>> \o u
              w == <<n, p[2]>>
  <2>2. u \in Seq(ExtNames) /\ Len(u) = 1 /\ u[1] = p[2]
    <3>1. \A i \in 2 .. 2 : p[i] \in ExtNames
      BY <2>1
    <3>2. /\ u \in Seq(ExtNames) /\ Len(u) = (IF 2 <= 2 THEN 2 - 2 + 1 ELSE 0)
          /\ \A i \in 1 .. 2 - 2 + 1 : u[i] = p[2 + i - 1]
      BY <3>1, SubSeqProperties
    <3>. HIDE DEF u
    <3>3. 1 \in 1 .. 2 - 2 + 1 /\ 2 + 1 - 1 = 2 /\ 2 - 2 + 1 = 1
      OBVIOUS
    <3>. QED  BY <3>2, <3>3
  <2>. HIDE DEF u
  <2>3. /\ v \in Seq(ExtNames) /\ Len(v) = 1 + 1
        /\ \A i \in 1 .. 1 + 1 : v[i] = IF i <= 1 THEN <<n>>[i] ELSE u[i - 1]
    BY <1>0, <2>2, ConcatProperties
  <2>. HIDE DEF v
  <2>4. w \in Seq(ExtNames) /\ Len(w) = 2 /\ w[1] = n /\ w[2] = p[2]
    BY <2>1
  <2>. HIDE DEF w
  <2>5. \A i \in 1 .. 2 : v[i] = w[i]
    <3>1. \A i \in 1 .. 2 : i = 1 \/ i = 2
      OBVIOUS
    <3>2. 1 \in 1 .. 1 + 1 /\ 2 \in 1 .. 1 + 1 /\ 2 - 1 = 1 /\ 1 <= 1 /\ ~(2 <= 1)
      OBVIOUS
    <3>3. v[1] = n /\ v[2] = p[2]
      BY <1>0, <2>2, <2>3, <3>2
    <3>. QED  BY <2>4, <3>1, <3>3
  <2>6. v = w
    BY <2>3, <2>4, <2>5, SeqEqual
  <2>7. MovedTo(src, n, p) = v
    <3>1. 1 + 1 = 2
      OBVIOUS
    <3>. QED  BY <2>1, <3>1 DEF MovedTo, v, u
  <2>. QED  BY <1>2, <2>1, <2>6, <2>7 DEF w
<1>. QED  BY <1>1, <1>2

\* The files after ext_mv.
LEMMA GoesFacts ==
  ASSUME NEW F, FilesOK(F), NEW src \in DOMAIN F, NEW n \in ExtNames, NEW B,
         B = {q \in DOMAIN F : Within(src, q)}, NEW G,
         <<n>> \notin DOMAIN F,
         G = [p \in (DOMAIN F \ B) \cup {MovedTo(src, n, q) : q \in B} |->
                 IF p \in DOMAIN F \ B THEN F[p] ELSE F[CHOOSE q \in B : MovedTo(src, n, q) = p]]
  PROVE  Goes(F, G, src, n)
<1>. DEFINE K == Kept(F, src)
            to(q) == MovedTo(src, n, q)
<1>1. /\ \A p \in DOMAIN F : p \in E!Path
      /\ \A p \in DOMAIN F : Len(p) = 2 =>
               /\ p = <<p[1], E!Second>> /\ F[p] = <<8>>
               /\ <<p[1]>> \in DOMAIN F /\ F[<<p[1]>>] = <<7>>
  BY FilesFacts
<1>2. /\ src \in B /\ to(src) = <<n>> /\ src \in E!Path
      /\ \A q \in B : /\ q \in DOMAIN F
                      /\ q # src => Len(src) = 1 /\ Len(q) = 2 /\ to(q) = <<n, E!Second>>
                                    /\ q = <<src[1], E!Second>>
  <2>1. src \in B /\ src \in E!Path
    BY <1>1 DEF Within
  <2>2. to(src) = <<n>>
    BY <2>1, MovedToFacts DEF Within
  <2>3. ASSUME NEW q \in B  PROVE q \in DOMAIN F /\ q \in E!Path /\ Within(src, q)
    BY <1>1
  <2>4. ASSUME NEW q \in B, q # src
        PROVE  Len(src) = 1 /\ Len(q) = 2 /\ to(q) = <<n, E!Second>> /\ q = <<src[1], E!Second>>
    <3>1. Len(src) = 1 /\ Len(q) = 2 /\ to(q) = <<n, q[2]>>
      BY <2>1, <2>3, <2>4, MovedToFacts
    <3>2. q = <<q[1], E!Second>> /\ q[1] = src[1]
      BY <1>1, <2>3, <2>4, <3>1 DEF Within
    <3>3. q[2] = E!Second
      BY <3>2
    <3>. QED  BY <3>1, <3>2, <3>3
  <2>. HIDE DEF to
  <2>. QED  BY <2>1, <2>2, <2>3, <2>4
<1>3. DOMAIN F \ B = K
  BY DEF Kept
<1>. HIDE DEF to, K
<1>4. /\ DOMAIN G = K \cup {to(q) : q \in B}
      /\ \A p \in K : G[p] = F[p]
      /\ \A p \in {to(q) : q \in B} : p \notin K => G[p] = F[CHOOSE q \in B : to(q) = p]
      /\ G = [p \in DOMAIN G |-> G[p]]
  BY <1>3 DEF to
<1>5. <<n>> # <<n, E!Second>>
  <2>1. Len(<<n>>) = 1 /\ Len(<<n, E!Second>>) = 2
    OBVIOUS
  <2>. QED  BY <2>1
<1>6. <<n>> \notin K /\ <<n, E!Second>> \notin K
  <2>1. <<n, E!Second>> \notin DOMAIN F
    <3>1. Len(<<n, E!Second>>) = 2 /\ <<n, E!Second>>[1] = n
      OBVIOUS
    <3>. QED  BY <1>1, <3>1
  <2>. QED  BY <2>1, <1>3
<1>7. <<n>> \in DOMAIN G /\ G[<<n>>] = F[src]
  <2>1. <<n>> \in {to(q) : q \in B}
    BY <1>2
  <2>2. (CHOOSE q \in B : to(q) = <<n>>) = src
    <3>1. \A q \in B : to(q) = <<n>> <=> q = src
      BY <1>2, <1>5
    <3>. QED  BY <1>2, <3>1
  <2>. QED  BY <1>4, <1>6, <2>1, <2>2
<1>8. ASSUME NEW p \in DOMAIN G, p \notin K, p # <<n>>
      PROVE  /\ p = <<n, E!Second>> /\ Len(src) = 1 /\ G[p] = <<8>>
             /\ <<src[1], E!Second>> \in DOMAIN F
  <2>1. PICK q \in B : to(q) = p /\ q # src
    BY <1>2, <1>4, <1>8
  <2>2. Len(src) = 1 /\ p = <<n, E!Second>> /\ q = <<src[1], E!Second>> /\ q \in DOMAIN F /\ Len(q) = 2
    BY <1>2, <2>1
  <2>3. (CHOOSE r \in B : to(r) = p) = q
    <3>1. \A r \in B : to(r) = p <=> r = q
      BY <1>2, <1>5, <2>1, <2>2
    <3>. QED  BY <3>1
  <2>4. F[q] = <<8>>
    BY <1>1, <2>2
  <2>5. G[p] = F[q]
    <3>1. p \in {to(r) : r \in B}
      BY <2>1
    <3>2. G[p] = F[CHOOSE r \in B : to(r) = p]
      BY <1>4, <1>8, <3>1
    <3>. QED  BY <2>3, <3>2
  <2>. QED  BY <2>2, <2>4, <2>5
<1>9. ASSUME Len(src) = 1, <<src[1], E!Second>> \in DOMAIN F  PROVE <<n, E!Second>> \in DOMAIN G
  <2>. DEFINE q == <<src[1], E!Second>>
  <2>1. Len(q) = 2 /\ q[1] = src[1]
    OBVIOUS
  <2>. HIDE DEF q
  <2>2. q \in B /\ q # src
    BY <1>9, <2>1 DEF Within, q
  <2>. QED  BY <1>2, <1>4, <2>2
<1>. QED  BY <1>4, <1>7, <1>8, <1>9 DEF Goes, K

\* They are files as there should be.
LEMMA GoesOK ==
  ASSUME NEW F, FilesOK(F), NEW src \in DOMAIN F, NEW n \in ExtNames, NEW G, Goes(F, G, src, n)
  PROVE  FilesOK(G)
<1>. DEFINE K == Kept(F, src)
            s == <<src[1], E!Second>>
            t == <<n, E!Second>>
<1>1. /\ \A p \in DOMAIN F : p \in E!Path /\ F[p] \in Contents
      /\ \A p, q \in DOMAIN F : F[p] = F[q] => p = q
      /\ \A p \in DOMAIN F : F[p] = <<7>> => Len(p) = 1
      /\ \A p \in DOMAIN F : Len(p) = 2 =>
               /\ p = <<p[1], E!Second>> /\ F[p] = <<8>>
               /\ <<p[1]>> \in DOMAIN F /\ F[<<p[1]>>] = <<7>>
  BY FilesFacts
<1>2. /\ G = [p \in DOMAIN G |-> G[p]]
      /\ \A p \in K : p \in DOMAIN G /\ G[p] = F[p]
      /\ <<n>> \in DOMAIN G /\ G[<<n>>] = F[src]
      /\ \A p \in DOMAIN G : \/ p \in K
                             \/ p = <<n>>
                             \/ p = t /\ Len(src) = 1 /\ G[p] = <<8>> /\ s \in DOMAIN F
  BY DEF Goes
<1>3. /\ \A p \in K : p \in DOMAIN F /\ p # src /\ F[p] # F[src]
      /\ \A p \in K : Len(p) = 2 =>
               Len(src) = 1 /\ src[1] # p[1] /\ <<p[1]>> \in K
  BY KeptFacts
<1>4. /\ Len(s) = 2 /\ s[1] = src[1] /\ s[2] = E!Second /\ Len(t) = 2 /\ t[1] = n /\ t[2] = E!Second
      /\ Len(<<n>>) = 1
  OBVIOUS
<1>5. src \in E!Path /\ E!Second \in ExtNames /\ <<n>> \in E!Path /\ t \in E!Path
  <2>1. src \in E!Path /\ E!Second \in ExtNames
    BY <1>1, NamesFacts
  <2>. QED  BY <2>1, PathFacts
<1>. HIDE DEF K, s, t
<1>6. ASSUME Len(src) = 1, s \in DOMAIN F
      PROVE  F[s] = <<8>> /\ F[src] = <<7>> /\ s \notin K /\ src # s
  <2>1. F[s] = <<8>> /\ F[<<src[1]>>] = <<7>>
    BY <1>1, <1>4, <1>6
  <2>2. src = <<src[1]>>
    BY <1>5, <1>6, PathFacts
  <2>. QED  BY <1>3, <1>4, <1>6, <2>1, <2>2
<1>7. \A p \in DOMAIN G : G[p] \in Contents /\ p \in E!Path
  BY <1>1, <1>2, <1>3, <1>5 DEF Contents
<1>8. ASSUME NEW p \in DOMAIN G, NEW q \in DOMAIN G, G[p] = G[q]  PROVE p = q
  <2>1. ASSUME NEW x \in K, NEW y \in DOMAIN G, G[x] = G[y]  PROVE x = y
    <3>1. CASE y \in K
      BY <1>1, <1>2, <1>3, <2>1, <3>1
    <3>2. CASE y = <<n>>
      BY <1>2, <1>3, <2>1, <3>2
    <3>3. CASE y = t /\ Len(src) = 1 /\ G[y] = <<8>> /\ s \in DOMAIN F
      BY <1>1, <1>2, <1>3, <1>6, <2>1, <3>3
    <3>. QED  BY <1>2, <3>1, <3>2, <3>3
  <2>2. <<7>> # <<8>>
    <3>1. <<7>>[1] = 7 /\ <<8>>[1] = 8
      OBVIOUS
    <3>. QED  BY <3>1
  <2>3. CASE p = <<n>> /\ q = t /\ Len(src) = 1 /\ G[q] = <<8>> /\ s \in DOMAIN F
    BY <1>2, <1>6, <1>8, <2>2, <2>3
  <2>4. CASE q = <<n>> /\ p = t /\ Len(src) = 1 /\ G[p] = <<8>> /\ s \in DOMAIN F
    BY <1>2, <1>6, <1>8, <2>2, <2>4
  <2>5. p \in K => p = q
    BY <1>8, <2>1
  <2>6. q \in K => p = q
    BY <1>8, <2>1
  <2>. QED  BY <1>2, <2>3, <2>4, <2>5, <2>6
<1>9. ASSUME NEW p \in DOMAIN G, Len(p) = 2
      PROVE  p[2] = E!Second /\ G[p] = <<8>> /\ <<p[1]>> \in DOMAIN G /\ G[<<p[1]>>] = <<7>>
  <2>1. CASE p \in K
    <3>1. p = <<p[1], E!Second>> /\ F[p] = <<8>> /\ F[<<p[1]>>] = <<7>>
      BY <1>1, <1>3, <1>9, <2>1
    <3>2. p[2] = E!Second
      BY <3>1
    <3>. QED  BY <1>2, <1>3, <1>9, <2>1, <3>1, <3>2
  <2>2. CASE p = t /\ Len(src) = 1 /\ G[p] = <<8>> /\ s \in DOMAIN F
    BY <1>2, <1>4, <1>6, <2>2
  <2>3. p # <<n>>
    BY <1>4, <1>9
  <2>. QED  BY <1>2, <2>1, <2>2, <2>3
<1>10. G \in [DOMAIN G -> Contents] /\ DOMAIN G \subseteq E!Path
  BY <1>2, <1>7
<1>. QED  BY <1>8, <1>9, <1>10 DEF FilesOK

\* A name that is not found is not that of a file.
LEMMA NewName ==
  ASSUME NEW c, NEW F, FilesOK(F), ExtGood(c, F, DOMAIN F), NEW n \in ExtNames,
         ~E!ext_find(c, <<n>>).ok
  PROVE  <<n>> \notin DOMAIN F
<1>1. SUFFICES ASSUME <<n>> \in DOMAIN F  PROVE FALSE
  OBVIOUS
<1>2. IsFound(c, F, <<n>>, E!ext_find(c, <<n>>))
  BY <1>1, SrcFacts
<1>. QED  BY <1>2 DEF IsFound

\* The inodes after ext_mv.
MovedInodes(ino, i, new, b) == [[ino EXCEPT ![new] = b] EXCEPT ![i] = <<>>]

\* What the transfers of ext_mv lead to.
LEMMA MvTarget ==
  ASSUME NEW c, NEW F, NEW src, NEW f, IsNamed(c, F, src, f), NEW n \in ExtNames,
         ~E!ext_find(c, <<n>>).ok,
         NEW new \in E!Inode \ E!Reserved, new \notin c.inodeBits, new # 13,
         NEW D, D = E!ext_create_with_attr(c, n, new, f.type),
         NEW G, Goes(F, G, src, n), NEW ib, ib = (c.inodeBits \cup {new}) \ {f.inode},
         NEW ino, ino = MovedInodes(c.inodes, f.inode, new, F[src]),
         NEW x, x = Parts(c.blockBits, ib, ino, Unlink(D, f)),
         ExtGood(x, F, Kept(F, src)),
         \A p \in Kept(F, src) : \A j, u : At(c, p, j, u) => At(x, p, j, u)
  PROVE  ExtTarget(x, G)
<1>. DEFINE i == f.inode
            d == c.dirs[4]
            U == Unlink(D, f)
            s == <<src[1], E!Second>>
            t == <<n, E!Second>>
            K == Kept(F, src)
<1>1. /\ FilesOK(F) /\ ExtGood(c, F, DOMAIN F) /\ E!Reserved \subseteq c.inodeBits
      /\ Laid(c) /\ src \in DOMAIN F /\ src \in E!Path
      /\ Len(src) = 1 \/ Len(src) = 2
      /\ IsFound(c, F, src, f)
  BY NamedFacts
<1>2. /\ i \in E!Inode \ E!Reserved /\ i \in c.inodeBits
      /\ f.type \in {"file", "dir"} /\ (f.type = "dir" <=> F[src] = <<7>>)
      /\ At(c, src, i, f.type) /\ c.inodes[i] = F[src]
      /\ E!ToSet(F[src]) \subseteq c.blockBits
      /\ Len(src) = 2 => i = 13
  BY <1>1 DEF IsFound
<1>3. /\ x.blockBits = c.blockBits /\ x.inodeBits = ib /\ x.inodes = ino /\ x.dirs = U
  BY PartsFacts
<1>4. /\ c.inodes \in [E!Inode -> Seq(E!Block)] /\ Len(d) \in Nat
  BY <1>1, LaidFacts
<1>5. /\ new # i /\ new \in ib /\ ino[new] = F[src]
      /\ \A j \in c.inodeBits : j # i => j \in ib /\ ino[j] = c.inodes[j]
      /\ \A j \in ib : j = new \/ (j \in c.inodeBits /\ j # i)
  <2>1. \A j \in c.inodeBits : j \in E!Inode
    BY <1>1, LaidFacts
  <2>2. new # i /\ new \in ib
    BY <1>2
  <2>3. \A j \in E!Inode : ino[j] = IF j = i THEN <<>> ELSE IF j = new THEN F[src] ELSE c.inodes[j]
    <3>. HIDE DEF i
    <3>. QED  BY <1>2, <1>4 DEF MovedInodes, i
  <2>4. ino[new] = F[src]
    BY <2>2, <2>3
  <2>5. \A j \in c.inodeBits : j # i => j \in ib /\ ino[j] = c.inodes[j]
    BY <2>1, <2>3
  <2>. QED  BY <2>2, <2>4, <2>5
<1>6. /\ Grown(c, D) /\ Len(D[4]) = Len(d) + 1
      /\ D[4][Len(D[4])].name = n /\ D[4][Len(D[4])].inode = new /\ D[4][Len(D[4])].type = f.type
  BY CreateFacts
<1>7. /\ \A j \in 2 .. Len(U[4]) : \E k \in 2 .. Len(D[4]) :
               /\ Alike(U[4][j], D[4][k])
               /\ Len(src) = 1 => D[4][k].name # src[1]
      /\ \A k \in 2 .. Len(D[4]) :
               \/ Len(src) = 1 /\ D[4][k].name = src[1]
               \/ \E j \in 2 .. Len(U[4]) : Alike(U[4][j], D[4][k])
      /\ Len(src) = 2 => U[7] = SubLeft
      /\ Len(src) = 1 => U[7] = c.dirs[7]
  <2>1. IsNamed(c, F, src, f) /\ Grown(c, D)
    BY <1>6
  <2>2. Lacking(D, U, src) /\ D[7] = c.dirs[7]
    BY <2>1, UnlinkedNames DEF Grown
  <2>. HIDE DEF U
  <2>. QED  BY <2>2 DEF Lacking
<1>8. /\ \A p \in K : p \in DOMAIN F /\ p # src
      /\ \A p \in K : Len(p) = 2 => Len(src) = 1 /\ src[1] # p[1] /\ <<p[1]>> \in K
      /\ Len(src) = 1 => \A p \in K : p[1] # src[1]
      /\ \A p \in DOMAIN F \ K :
             p = src \/ (Len(src) = 1 /\ p = <<src[1], E!Second>> /\ Len(p) = 2)
  BY <1>1, KeptFacts
<1>9. /\ \A p \in K : p \in DOMAIN G /\ G[p] = F[p]
      /\ <<n>> \in DOMAIN G /\ G[<<n>>] = F[src]
      /\ \A p \in DOMAIN G : \/ p \in K
                             \/ p = <<n>>
                             \/ p = t /\ Len(src) = 1 /\ G[p] = <<8>> /\ s \in DOMAIN F
      /\ Len(src) = 1 /\ s \in DOMAIN F => t \in DOMAIN G
  BY DEF Goes
<1>10. /\ \A o \in 2 .. Len(d) : <<d[o].name>> \in DOMAIN F
       /\ c.dirs[7] = SubFull =>
             \A p \in DOMAIN F : F[p] = <<7>> => <<p[1], E!Second>> \in DOMAIN F
       /\ \A j \in c.inodeBits \ E!Reserved :
             j = 13 \/ \E p \in DOMAIN F, u \in {"file", "dir"} : At(c, p, j, u)
  BY DEF ExtTarget, IsNamed
<1>11. <<n>> \notin DOMAIN F
  BY <1>1, NewName
<1>12. /\ Len(s) = 2 /\ s[1] = src[1] /\ s[2] = E!Second /\ Len(t) = 2 /\ t[1] = n /\ t[2] = E!Second
       /\ Len(<<n>>) = 1 /\ <<n>>[1] = n
  OBVIOUS
<1>13. Len(src) = 1 => src = <<src[1]>>
  BY <1>1, PathFacts
<1>. HIDE DEF i, U, s, t, K
<1>14. InRoot(x, n, new, f.type)
  <2>. DEFINE k == Len(D[4])
  <2>1. k \in 2 .. k
    <3>1. Len(d) >= 1
      BY <1>1, LaidFacts
    <3>. HIDE DEF d
    <3>. QED  BY <1>4, <1>6, <3>1
  <2>. HIDE DEF k
  <2>2. D[4][k].name = n /\ D[4][k].inode = new /\ D[4][k].type = f.type
    BY <1>6 DEF k
  <2>3. ~(Len(src) = 1 /\ n = src[1])
    BY <1>1, <1>11, <1>13
  <2>4. PICK j \in 2 .. Len(U[4]) : Alike(U[4][j], D[4][k])
    BY <1>7, <2>1, <2>2, <2>3 DEF k
  <2>. QED  BY <1>3, <2>2, <2>4 DEF InRoot, Alike
<1>15. HasFile(x, <<n>>, F[src])
  <2>1. At(x, <<n>>, new, f.type)
    BY <1>12, <1>14 DEF At
  <2>2. HasIn(x, <<n>>, F[src], new, f.type)
    BY <1>2, <1>3, <1>5, <2>1 DEF HasIn
  <2>. QED  BY <1>2, <2>2 DEF HasFile
<1>16. ASSUME Len(src) = 1, s \in DOMAIN F  PROVE HasFile(x, t, <<8>>)
  <2>1. F[s] = <<8>> /\ F[src] = <<7>>
    <3>1. F[s] = <<8>> /\ F[<<s[1]>>] = <<7>>
      BY <1>1, <1>12, <1>16, FilesFacts
    <3>. QED  BY <1>12, <1>13, <1>16, <3>1
  <2>. DEFINE g == E!ext_find(c, s)
  <2>2. IsFound(c, F, s, g)
    BY <1>1, <1>16, SrcFacts
  <2>. HIDE DEF g
  <2>3. /\ c.dirs[7] = SubFull /\ 13 \in c.inodeBits /\ c.inodes[13] = <<8>>
        /\ 13 \in E!Inode \ E!Reserved /\ E!ToSet(<<8>>) \subseteq c.blockBits
    BY <1>12, <2>1, <2>2 DEF IsFound
  <2>4. <<7>> # <<8>>
    <3>1. <<7>>[1] = 7 /\ <<8>>[1] = 8
      OBVIOUS
    <3>. QED  BY <3>1
  <2>5. 13 # i /\ 13 \in ib /\ ino[13] = <<8>>
    BY <1>2, <1>5, <2>1, <2>3, <2>4
  <2>6. x.dirs[7] = SubFull /\ f.type = "dir" /\ x.inodes[new] = <<7>>
    BY <1>2, <1>3, <1>5, <1>7, <1>16, <2>1, <2>3
  <2>7. At(x, t, 13, "file")
    BY <1>12, <1>14, <2>6 DEF At
  <2>8. HasIn(x, t, <<8>>, 13, "file")
    BY <1>3, <2>3, <2>4, <2>5, <2>7 DEF HasIn
  <2>. QED  BY <2>3, <2>8 DEF HasFile
<1>17. ExtGood(x, G, DOMAIN G)
  <2>1. Laid(x) /\ \A p \in K : HasFile(x, p, F[p])
    BY DEF ExtGood, K
  <2>2. ASSUME NEW p \in DOMAIN G  PROVE HasFile(x, p, G[p])
    <3>1. CASE p \in K
      BY <1>9, <2>1, <3>1
    <3>2. CASE p = <<n>>
      BY <1>9, <1>15, <3>2
    <3>3. CASE p = t /\ Len(src) = 1 /\ G[p] = <<8>> /\ s \in DOMAIN F
      BY <1>16, <3>3
    <3>. QED  BY <1>9, <3>1, <3>2, <3>3
  <2>. QED  BY <2>1, <2>2 DEF ExtGood
<1>18. \A o \in 2 .. Len(U[4]) : <<U[4][o].name>> \in DOMAIN G
  <2>1. SUFFICES ASSUME NEW o \in 2 .. Len(U[4])  PROVE <<U[4][o].name>> \in DOMAIN G
    OBVIOUS
  <2>2. PICK k \in 2 .. Len(D[4]) : /\ Alike(U[4][o], D[4][k])
                                    /\ Len(src) = 1 => D[4][k].name # src[1]
    BY <1>7
  <2>3. k = Len(D[4]) \/ k \in 2 .. Len(d)
    <3>. HIDE DEF d
    <3>. QED  BY <1>4, <1>6
  <2>4. CASE k = Len(D[4])
    BY <1>6, <1>9, <2>2, <2>4 DEF Alike
  <2>5. CASE k \in 2 .. Len(d)
    <3>. DEFINE q == <<d[k].name>>
    <3>1. U[4][o].name = d[k].name /\ (Len(src) = 1 => d[k].name # src[1])
      BY <1>6, <2>2, <2>5 DEF Grown, Alike
    <3>2. q \in DOMAIN F
      BY <1>10, <2>5
    <3>3. Len(q) = 1 /\ q[1] = d[k].name
      OBVIOUS
    <3>. HIDE DEF q, d
    <3>4. q # src
      BY <1>1, <3>1, <3>3
    <3>5. q \in K
      BY <1>8, <3>2, <3>3, <3>4
    <3>. QED  BY <1>9, <3>1, <3>5 DEF q
  <2>. QED  BY <2>3, <2>4, <2>5
<1>19. ASSUME U[7] = SubFull, NEW p \in DOMAIN G, G[p] = << 7 >>
       PROVE  <<p[1], E!Second>> \in DOMAIN G
  <2>1. SubFull # SubLeft
    <3>1. Len(SubFull) = 2 /\ Len(SubLeft) = 1
      BY DEF SubFull, SubLeft
    <3>. QED  BY <3>1
  <2>2. Len(src) = 1 /\ c.dirs[7] = SubFull
    BY <1>1, <1>7, <1>19, <2>1
  <2>3. CASE p \in K
    <3>. DEFINE q == <<p[1], E!Second>>
    <3>1. q \in DOMAIN F
      BY <1>8, <1>9, <1>10, <1>19, <2>2, <2>3
    <3>2. q[1] = p[1] /\ Len(q) = 2
      OBVIOUS
    <3>3. p[1] # src[1]
      BY <1>8, <2>2, <2>3
    <3>. HIDE DEF q
    <3>4. q # src /\ q # s
      BY <1>12, <2>2, <3>2, <3>3
    <3>5. q \in K
      BY <1>8, <3>1, <3>4 DEF s
    <3>. QED  BY <1>9, <3>5 DEF q
  <2>4. CASE p = <<n>>
    <3>1. F[src] = <<7>>
      BY <1>9, <1>19, <2>4
    <3>2. s \in DOMAIN F
      BY <1>1, <1>10, <2>2, <3>1 DEF s
    <3>3. t \in DOMAIN G /\ p[1] = n
      BY <1>9, <1>12, <2>2, <2>4, <3>2
    <3>. QED  BY <3>3 DEF t
  <2>5. G[p] # <<8>>
    <3>1. <<7>>[1] = 7 /\ <<8>>[1] = 8
      OBVIOUS
    <3>. QED  BY <1>19, <3>1
  <2>. QED  BY <1>9, <2>3, <2>4, <2>5
<1>20. E!Reserved \subseteq ib
  BY <1>1, <1>2, <1>5
<1>21. ASSUME NEW j \in ib \ E!Reserved
       PROVE  j = 13 \/ \E p \in DOMAIN G, u \in {"file", "dir"} : At(x, p, j, u)
  <2>1. CASE j = new
    <3>1. At(x, <<n>>, new, f.type)
      BY <1>12, <1>14 DEF At
    <3>. QED  BY <1>2, <1>9, <2>1, <3>1
  <2>2. CASE j # new /\ j # 13
    <3>1. j \in c.inodeBits \ E!Reserved /\ j # i
      BY <1>5, <1>21, <2>2
    <3>2. PICK p \in DOMAIN F, u \in {"file", "dir"} : At(c, p, j, u)
      BY <1>10, <2>2, <3>1
    <3>3. p # src
      BY <1>1, <1>2, <3>1, <3>2, AtOnce
    <3>4. Len(p) # 2
      BY <2>2, <3>2 DEF At
    <3>5. p \in K
      BY <1>8, <3>3, <3>4
    <3>6. At(x, p, j, u)
      BY <3>2, <3>5 DEF K
    <3>. QED  BY <1>9, <3>5, <3>6
  <2>. QED  BY <2>1, <2>2
<1>22. \A o \in 2 .. Len(x.dirs[4]) : <<x.dirs[4][o].name>> \in DOMAIN G
  BY <1>3, <1>18
<1>23. x.dirs[7] = SubFull => \A p \in DOMAIN G : G[p] = <<7>> => <<p[1], E!Second>> \in DOMAIN G
  BY <1>3, <1>19
<1>24. E!Reserved \subseteq x.inodeBits
  BY <1>3, <1>20
<1>25. \A j \in x.inodeBits \ E!Reserved :
          j = 13 \/ \E p \in DOMAIN G, u \in {"file", "dir"} : At(x, p, j, u)
  BY <1>3, <1>21
<1>. QED  BY <1>17, <1>22, <1>23, <1>24, <1>25 DEF ExtTarget

\* ext_mv.
LEMMA ExtMvSafe ==
  ASSUME ExtInv, OnlyExisting, NEW src \in E!Path, NEW n \in ExtNames, E!ext_mv(src, n)
  PROVE  ExtInv'
<1>. DEFINE c == ext_card
            F == ext_files
            G == ext_files'
            K == Kept(F, src)
            f == E!ext_find(c, src)
            i == f.inode
            new == E!alloc_new_inode(c)
            D == E!ext_create_with_attr(c, n, new, f.type)
            U == Unlink(D, f)
            b == c.blockBits
            ib1 == c.inodeBits \cup {new}
            ib2 == ib1 \ {i}
            ino1 == [c.inodes EXCEPT ![new] = c.inodes[i]]
            ino2 == [ino1 EXCEPT ![i] = <<>>]
            L == <<<<"inodeBits", ib1>>, <<"dirs", D>>, <<"inodeBits", ib2>>, <<"dirs", U>>,
                   <<"inodes", ino1>>, <<"inodes", ino2>>>>
            x0 == Parts(b, c.inodeBits, c.inodes, c.dirs)
            x1 == Parts(b, ib1, c.inodes, c.dirs)
            x2 == Parts(b, ib1, c.inodes, D)
            x3 == Parts(b, ib2, c.inodes, D)
            x4 == Parts(b, ib2, c.inodes, U)
            x5 == Parts(b, ib2, ino1, U)
            x6 == Parts(b, ib2, ino2, U)
<1>1. /\ E!Ready /\ src \in DOMAIN F /\ ~E!ext_find(c, <<n>>).ok
      /\ E!Begin(L, src, <<n>>)
      /\ G = [p \in (DOMAIN F \ E!Below(src)) \cup {MovedTo(src, n, q) : q \in E!Below(src)} |->
                 IF p \in DOMAIN F \ E!Below(src) THEN F[p]
                 ELSE F[CHOOSE q \in E!Below(src) : MovedTo(src, n, q) = p]]
  BY DEF E!ext_mv, E!Nameable, E!Moved, Unlink, MovedTo
<1>2. FilesOK(F) /\ ExtTarget(c, F) /\ ExtGood(c, F, DOMAIN F)
  BY <1>1, ReadyFacts
<1>3. IsNamed(c, F, src, f)
  BY <1>1, <1>2 DEF IsNamed
<1>4. /\ Laid(c) /\ i \in E!Inode \ E!Reserved /\ i \in c.inodeBits
      /\ c.inodes[i] = F[src] /\ F[src] \in Contents
  BY <1>3, NamedFacts DEF IsFound
<1>5. /\ c \in ExtCard /\ c.blockBits \in SUBSET E!Block /\ c.inodeBits \in SUBSET E!Inode
      /\ c.inodes \in [E!Inode -> Seq(E!Block)] /\ c.dirs \in [{4, 7} -> Seq(E!Entry)]
      /\ RootOK(c.dirs[4]) /\ Len(c.dirs[4]) \in Nat
  BY <1>4, LaidFacts
<1>6. new \in E!Inode \ E!Reserved /\ new \notin c.inodeBits /\ new # 13
  BY <1>2, InodeFacts
<1>7. <<n>> \notin DOMAIN F
  BY <1>1, <1>2, NewName
<1>8. Goes(F, G, src, n)
  <2>1. E!Below(src) = {q \in DOMAIN F : Within(src, q)}
    <3>1. \A p \in DOMAIN F : E!IsPrefix(src, p) <=> Within(src, p)
      BY <1>2, FilesFacts, PrefixFacts
    <3>. QED  BY <3>1 DEF E!Below
  <2>. QED  BY <1>1, <1>2, <1>7, <2>1, GoesFacts
<1>. HIDE DEF c, F, G, f, new
<1>9. Grown(c, c.dirs)
  BY <1>5 DEF Grown, Alike
<1>10. Grown(c, D)
  BY <1>1, <1>3, <1>6, CreateFacts
<1>. HIDE DEF D
<1>11. Spared(c, c.dirs, src) /\ Spared(c, D, src) /\ Spared(c, U, src)
  BY <1>3, <1>9, <1>10, GrownSpared
<1>12. D \in [{4, 7} -> Seq(E!Entry)] /\ U \in [{4, 7} -> Seq(E!Entry)]
  BY <1>11 DEF Spared
<1>. HIDE DEF U
<1>13. b \in SUBSET E!Block /\ c.blockBits \ E!ToSet(F[src]) \subseteq b
  BY <1>5
<1>14. /\ ib1 \in SUBSET E!Inode /\ ib2 \in SUBSET E!Inode /\ c.inodeBits \in SUBSET E!Inode
       /\ c.inodeBits \ {f.inode} \subseteq ib1 /\ c.inodeBits \ {f.inode} \subseteq ib2
       /\ c.inodeBits \ {f.inode} \subseteq c.inodeBits
  BY <1>5, <1>6
<1>15. /\ c.inodes \in [E!Inode -> Seq(E!Block)]
       /\ ino1 \in [E!Inode -> Seq(E!Block)] /\ ino2 \in [E!Inode -> Seq(E!Block)]
       /\ \A j \in c.inodeBits : j # f.inode /\ j # 0 => c.inodes[j] = c.inodes[j]
       /\ \A j \in c.inodeBits : j # f.inode /\ j # 0 => ino1[j] = c.inodes[j]
       /\ \A j \in c.inodeBits : j # f.inode /\ j # 0 => ino2[j] = c.inodes[j]
  <2>. HIDE DEF i
  <2>1. c.inodes[i] \in Seq(E!Block) /\ <<>> \in Seq(E!Block) /\ i \in E!Inode /\ new \in E!Inode
    BY <1>4, <1>5, <1>6
  <2>2. \A j \in c.inodeBits : j \in E!Inode /\ j # new
    BY <1>5, <1>6
  <2>3. ino1 \in [E!Inode -> Seq(E!Block)] /\ \A j \in c.inodeBits : ino1[j] = c.inodes[j]
    BY <1>5, <2>1, <2>2
  <2>. HIDE DEF ino1
  <2>4. ino2 \in [E!Inode -> Seq(E!Block)] /\ \A j \in c.inodeBits : j # i => ino2[j] = ino1[j]
    BY <2>1, <2>2, <2>3
  <2>. QED  BY <1>5, <2>3, <2>4 DEF i
<1>16. ino2 = MovedInodes(c.inodes, f.inode, new, F[src])
  BY <1>4 DEF MovedInodes
<1>17. c = x0
  BY <1>5 DEF ExtCard, Parts
<1>. HIDE DEF b, ib1, ib2, ino1, ino2, i
<1>18. /\ x0 \in ExtCards(F, K) /\ x1 \in ExtCards(F, K) /\ x2 \in ExtCards(F, K)
       /\ x3 \in ExtCards(F, K) /\ x4 \in ExtCards(F, K) /\ x5 \in ExtCards(F, K)
       /\ x6 \in ExtCards(F, K)
       /\ ExtGood(x6, F, K) /\ \A p \in K : \A j, u : At(c, p, j, u) => At(x6, p, j, u)
  <2>0. x0 \in ExtCards(F, K)
    BY <1>3, <1>11, <1>13, <1>14, <1>15, OnTheWay
  <2>1. x1 \in ExtCards(F, K)
    BY <1>3, <1>11, <1>13, <1>14, <1>15, OnTheWay
  <2>2. x2 \in ExtCards(F, K)
    BY <1>3, <1>11, <1>13, <1>14, <1>15, OnTheWay
  <2>3. x3 \in ExtCards(F, K)
    BY <1>3, <1>11, <1>13, <1>14, <1>15, OnTheWay
  <2>4. x4 \in ExtCards(F, K)
    BY <1>3, <1>11, <1>13, <1>14, <1>15, OnTheWay
  <2>5. x5 \in ExtCards(F, K)
    BY <1>3, <1>11, <1>13, <1>14, <1>15, OnTheWay
  <2>6. x6 \in ExtCards(F, K) /\ ExtGood(x6, F, K)
        /\ \A p \in K : \A j, u : At(c, p, j, u) => At(x6, p, j, u)
    BY <1>3, <1>11, <1>13, <1>14, <1>15, OnTheWay
  <2>. QED  BY <2>0, <2>1, <2>2, <2>3, <2>4, <2>5, <2>6
<1>19. ExtLeads(c, L, x6, ExtCards(F, K))
  <2>. DEFINE r == <<x0, x1, x2, x3, x4, x5, x6>>
  <2>1. L \in Seq(ExtTransfers) /\ Len(L) = 6
        /\ L[1] = <<"inodeBits", ib1>> /\ L[2] = <<"dirs", D>>
        /\ L[3] = <<"inodeBits", ib2>> /\ L[4] = <<"dirs", U>>
        /\ L[5] = <<"inodes", ino1>> /\ L[6] = <<"inodes", ino2>>
    <3>1. /\ <<"inodeBits", ib1>> \in ExtTransfers /\ <<"dirs", D>> \in ExtTransfers
          /\ <<"inodeBits", ib2>> \in ExtTransfers /\ <<"dirs", U>> \in ExtTransfers
          /\ <<"inodes", ino1>> \in ExtTransfers /\ <<"inodes", ino2>> \in ExtTransfers
      BY <1>12, <1>14, <1>15, TransferTypes
    <3>. QED  BY <3>1
  <2>2. /\ x1 = ExtPut(x0, L[1]) /\ x2 = ExtPut(x1, L[2]) /\ x3 = ExtPut(x2, L[3])
        /\ x4 = ExtPut(x3, L[4]) /\ x5 = ExtPut(x4, L[5]) /\ x6 = ExtPut(x5, L[6])
    BY <2>1, PartsFacts
  <2>. HIDE DEF x0, x1, x2, x3, x4, x5, x6, L
  <2>3. /\ r \in [1 .. 7 -> ExtCards(F, K)] /\ r[1] = x0 /\ r[2] = x1 /\ r[3] = x2
        /\ r[4] = x3 /\ r[5] = x4 /\ r[6] = x5 /\ r[7] = x6
    BY <1>18
  <2>. HIDE DEF r
  <2>4. ASSUME NEW k \in 1 .. 6  PROVE r[k + 1] = ExtPut(r[k], L[k])
    <3>1. k = 1 \/ k = 2 \/ k = 3 \/ k = 4 \/ k = 5 \/ k = 6
      OBVIOUS
    <3>2. 1 + 1 = 2 /\ 2 + 1 = 3 /\ 3 + 1 = 4 /\ 4 + 1 = 5 /\ 5 + 1 = 6 /\ 6 + 1 = 7
      OBVIOUS
    <3>. QED  BY <2>2, <2>3, <3>1, <3>2
  <2>5. 6 + 1 = 7
    OBVIOUS
  <2>6. Through(r, c, L, x6, ExtCards(F, K))
    BY <1>17, <2>1, <2>3, <2>4, <2>5 DEF Through
  <2>. QED  BY <2>1, <2>6 DEF ExtLeads
<1>. HIDE DEF x0, x1, x2, x3, x4, x5, L
<1>20. FilesOK(G)
  BY <1>1, <1>2, <1>8, GoesOK
<1>21. ExtTarget(x6, G)
  <2>1. ib2 = (c.inodeBits \cup {new}) \ {f.inode}
    BY DEF ib1, ib2, i
  <2>2. D = E!ext_create_with_attr(c, n, new, f.type)
    BY DEF D
  <2>3. x6 = Parts(c.blockBits, ib2, ino2, Unlink(D, f))
    BY DEF b, U
  <2>. HIDE DEF x6
  <2>. QED  BY <1>1, <1>3, <1>6, <1>8, <1>16, <1>18, <2>1, <2>2, <2>3, MvTarget
<1>. HIDE DEF x6
<1>22. ExtLeads(c, L, x6, ExtCards(G, K))
  <2>1. \A p \in K : F[p] = G[p]
    BY <1>8 DEF Goes
  <2>. HIDE DEF K
  <2>. QED  BY <1>19, <2>1, SameCards
<1>23. \A p \in DOMAIN G : ~E!IsPrefix(src, p) /\ ~E!IsPrefix(<<n>>, p) => p \in K
  <2>1. ASSUME NEW p \in DOMAIN G, p \notin K  PROVE E!IsPrefix(<<n>>, p)
    <3>1. p = <<n>> \/ p = <<n, E!Second>>
      BY <1>8, <2>1 DEF Goes
    <3>2. p \in E!Path /\ <<n>> \in E!Path
      <4>1. p \in E!Path
        BY <1>20, FilesFacts
      <4>. QED  BY <1>1, <4>1, PathFacts
    <3>3. Within(<<n>>, p)
      <4>1. Len(<<n>>) = 1 /\ <<n>>[1] = n /\ Len(<<n, E!Second>>) = 2 /\ <<n, E!Second>>[1] = n
        OBVIOUS
      <4>. QED  BY <3>1, <4>1 DEF Within
    <3>. QED  BY <3>2, <3>3, PrefixFacts
  <2>. QED  BY <2>1
<1>24. <<n>> \in E!Path
  BY PathFacts
<1>25. <<n>> # E!NoPath
  <2>1. Len(<<n>>) = 1 /\ Len(E!NoPath) = 0
    BY DEF E!NoPath
  <2>. QED  BY <2>1
<1>. DEFINE dest == <<n>>
<1>. HIDE DEF K, dest
<1>26. /\ dest \in E!Path \cup {E!NoPath} /\ E!Begin(L, src, dest)
       /\ FilesOK(ext_files') /\ ExtTarget(x6, ext_files')
       /\ ExtLeads(ext_card, L, x6, ExtCards(ext_files', K))
       /\ \A p \in DOMAIN ext_files' :
             ~E!IsPrefix(src, p) /\ (dest # E!NoPath => ~E!IsPrefix(dest, p)) => p \in K
  <2>1. dest \in E!Path \cup {E!NoPath} /\ E!Begin(L, src, dest)
    BY <1>1, <1>24 DEF dest
  <2>2. ExtLeads(ext_card, L, x6, ExtCards(ext_files', K))
    BY <1>22 DEF c, G
  <2>3. \A p \in DOMAIN ext_files' :
           ~E!IsPrefix(src, p) /\ (dest # E!NoPath => ~E!IsPrefix(dest, p)) => p \in K
    BY <1>23, <1>25 DEF G, dest
  <2>. QED  BY <1>20, <1>21, <2>1, <2>2, <2>3 DEF G
<1>. QED  BY <1>26, BeginSafe

\* The card as it was formatted and filled.
LEMMA ExtInitFiles ==
  ASSUME E!Init
  PROVE  /\ FilesOK(ext_files)
         /\ DOMAIN ext_files = {<<E!First>>, <<Dir>>, <<Dir, E!Second>>}
         /\ ext_files[<<E!First>>] = <<5, 6>> /\ ext_files[<<Dir>>] = <<7>>
         /\ ext_files[<<Dir, E!Second>>] = <<8>>
<1>. DEFINE F == ext_files
            a == <<E!First>>
            b == <<Dir>>
            d == <<Dir, E!Second>>
<1>1. /\ E!First \in ExtNames \ {Dir} /\ E!Second \in ExtNames \ {Dir, E!First} /\ Dir \in ExtNames
  BY NamesFacts
<1>2. /\ Len(a) = 1 /\ a[1] = E!First /\ Len(b) = 1 /\ b[1] = Dir
      /\ Len(d) = 2 /\ d[1] = Dir /\ d[2] = E!Second
  OBVIOUS
<1>3. F = [p \in {a, b, d} |-> CASE p = a -> <<5, 6>> [] p = b -> <<7>> [] OTHER -> <<8>>]
  BY DEF E!Init
<1>4. a \in E!Path /\ b \in E!Path /\ d \in E!Path
  <2>1. a \in [1 .. 1 -> ExtNames] /\ b \in [1 .. 1 -> ExtNames] /\ d \in [1 .. 2 -> ExtNames]
    BY <1>1
  <2>. QED  BY <2>1 DEF E!Path
<1>5. <<Dir>> = b
  OBVIOUS
<1>. HIDE DEF a, b, d, F
<1>6. a # b /\ a # d /\ b # d
  BY <1>1, <1>2
<1>7. DOMAIN F = {a, b, d} /\ F[a] = <<5, 6>> /\ F[b] = <<7>> /\ F[d] = <<8>>
  BY <1>3, <1>6
<1>8. <<5, 6>> # <<7>> /\ <<5, 6>> # <<8>> /\ <<7>> # <<8>>
  <2>1. <<5, 6>>[1] = 5 /\ <<7>>[1] = 7 /\ <<8>>[1] = 8
    OBVIOUS
  <2>. QED  BY <2>1
<1>9. F \in [DOMAIN F -> Contents]
  <2>1. F = [p \in DOMAIN F |-> F[p]]
    BY <1>3
  <2>2. \A p \in DOMAIN F : F[p] \in Contents
    BY <1>7 DEF Contents
  <2>. QED  BY <2>1, <2>2
<1>10. \A p, q \in DOMAIN F : F[p] = F[q] => p = q
  BY <1>7, <1>8
<1>11. \A p \in DOMAIN F : Len(p) = 2 =>
          /\ p[2] = E!Second /\ F[p] = <<8>> /\ <<p[1]>> \in DOMAIN F /\ F[<<p[1]>>] = <<7>>
  BY <1>2, <1>5, <1>7
<1>12. DOMAIN F \subseteq E!Path
  BY <1>4, <1>7
<1>. QED  BY <1>7, <1>9, <1>10, <1>11, <1>12 DEF FilesOK, F, a, b, d

\* The root directory at first.
FirstRoot == <<E!Made(E!Dot, E!RootInode, "dir", 1), E!Made(E!First, 11, "file", 1),
               E!Made(Dir, 12, "dir", BlockLen - 2)>>

LEMMA FirstRootFacts ==
  /\ RootOK(FirstRoot) /\ Len(FirstRoot) = 3 /\ SubFull \in Seq(E!Entry)
  /\ FirstRoot[2].name = E!First /\ FirstRoot[2].inode = 11 /\ FirstRoot[2].type = "file"
  /\ FirstRoot[3].name = Dir /\ FirstRoot[3].inode = 12 /\ FirstRoot[3].type = "dir"
<1>1. /\ E!First \in ExtNames \ {Dir} /\ E!Second \in ExtNames \ {Dir, E!First} /\ Dir \in ExtNames
      /\ E!Dot \notin ExtNames
      /\ BlockLen \in Nat /\ BlockLen >= 5 /\ inode_per_group \in Nat /\ inode_per_group >= 64
  BY NamesFacts
<1>. DEFINE u == E!Made(E!Dot, E!RootInode, "dir", 1)
            v == E!Made(E!First, 11, "file", 1)
            w == E!Made(Dir, 12, "dir", BlockLen - 2)
            y == E!Made(E!Dot, 12, "dir", 1)
            z == E!Made(E!Second, 13, "file", BlockLen - 1)
            d == <<u, v, w>>
<1>2. /\ u.name = E!Dot /\ u.inode = E!RootInode /\ u.type = "dir" /\ u.len = 1
      /\ v.name = E!First /\ v.inode = 11 /\ v.type = "file" /\ v.len = 1
      /\ w.name = Dir /\ w.inode = 12 /\ w.type = "dir" /\ w.len = BlockLen - 2
  BY DEF E!Made
<1>3. u \in E!Entry /\ v \in E!Entry /\ w \in E!Entry /\ y \in E!Entry /\ z \in E!Entry
  <2>1. \A n \in ExtNames \cup {E!Dot}, i \in E!Inode, t \in {"file", "dir"}, l \in 1 .. BlockLen :
           E!Made(n, i, t, l) \in E!Entry
    BY DEF E!Made, E!Entry
  <2>2. /\ E!RootInode \in E!Inode /\ 11 \in E!Inode /\ 12 \in E!Inode /\ 13 \in E!Inode
        /\ 1 \in 1 .. BlockLen /\ BlockLen - 2 \in 1 .. BlockLen /\ BlockLen - 1 \in 1 .. BlockLen
    BY <1>1 DEF E!Inode, E!RootInode
  <2>3. /\ E!First \in ExtNames \cup {E!Dot} /\ E!Second \in ExtNames \cup {E!Dot}
        /\ Dir \in ExtNames \cup {E!Dot} /\ E!Dot \in ExtNames \cup {E!Dot}
        /\ "file" \in {"file", "dir"} /\ "dir" \in {"file", "dir"}
    BY <1>1
  <2>. QED  BY <2>1, <2>2, <2>3
<1>. HIDE DEF u, v, w, y, z
<1>4. /\ d \in Seq(E!Entry) /\ Len(d) = 3 /\ d[1] = u /\ d[2] = v /\ d[3] = w
      /\ <<y, z>> \in Seq(E!Entry)
  BY <1>3
<1>5. FirstRoot = d /\ SubFull = <<y, z>>
  BY DEF FirstRoot, SubFull, u, v, w, y, z
<1>. HIDE DEF d
<1>6. \A o \in 1 .. 3 : o = 1 \/ o = 2 \/ o = 3
  OBVIOUS
<1>7. Filled(d)
  <2>1. BlockLen - 3 + 1 = BlockLen - 2
    BY <1>1
  <2>2. ASSUME NEW o \in 1 .. 3  PROVE d[o].len = IF o = 3 THEN BlockLen - 3 + 1 ELSE 1
    BY <1>2, <1>4, <1>6, <2>1
  <2>. QED  BY <1>4, <2>2 DEF Filled
<1>8. \A o \in 2 .. 3 : d[o].name \in ExtNames
  <2>1. \A o \in 2 .. 3 : o = 2 \/ o = 3
    OBVIOUS
  <2>. QED  BY <1>1, <1>2, <1>4, <2>1
<1>9. \A o, k \in 1 .. 3 : d[o].name = d[k].name => o = k
  <2>1. u.name # v.name /\ u.name # w.name /\ v.name # w.name
    BY <1>1, <1>2
  <2>. QED  BY <1>4, <1>6, <2>1
<1>10. 3 >= 1
  OBVIOUS
<1>11. RootOK(d)
  BY <1>2, <1>4, <1>7, <1>8, <1>9, <1>10 DEF RootOK
<1>. QED  BY <1>2, <1>4, <1>5, <1>11

LEMMA ExtInitSafe == E!Init => ExtInv
<1>1. SUFFICES ASSUME E!Init  PROVE ExtInv
  OBVIOUS
<1>. DEFINE c == ext_card
            F == ext_files
            a == <<E!First>>
            b == <<Dir>>
            d == <<Dir, E!Second>>
<1>2. /\ FilesOK(F) /\ DOMAIN F = {a, b, d} /\ F[a] = <<5, 6>> /\ F[b] = <<7>> /\ F[d] = <<8>>
  BY <1>1, ExtInitFiles
<1>3. c = [blockBits |-> E!MetaBlocks \cup 4 .. 8, inodeBits |-> E!Reserved \cup 11 .. 13,
           inodes |-> [i \in E!Inode |-> CASE i = E!RootInode -> <<4>> [] i = 11 -> <<5, 6>>
                                             [] i = 12 -> <<7>> [] i = 13 -> <<8>>
                                             [] OTHER -> <<>>],
           dirs |-> [x \in {4, 7} |-> IF x = 4 THEN FirstRoot ELSE SubFull]]
  BY <1>1 DEF E!Init, FirstRoot, SubFull
<1>4. /\ RootOK(FirstRoot) /\ Len(FirstRoot) = 3 /\ SubFull \in Seq(E!Entry)
      /\ FirstRoot[2].name = E!First /\ FirstRoot[2].inode = 11 /\ FirstRoot[2].type = "file"
      /\ FirstRoot[3].name = Dir /\ FirstRoot[3].inode = 12 /\ FirstRoot[3].type = "dir"
  BY FirstRootFacts
<1>5. inode_per_group \in Nat /\ inode_per_group >= 64
  BY NamesFacts
<1>6. /\ E!RootInode \in E!Inode /\ 11 \in E!Inode \ E!Reserved /\ 12 \in E!Inode \ E!Reserved
      /\ 13 \in E!Inode \ E!Reserved /\ E!Reserved \subseteq E!Inode
  BY <1>5 DEF E!Inode, E!Reserved, E!RootInode
<1>7. /\ c.blockBits = E!MetaBlocks \cup 4 .. 8 /\ c.inodeBits = E!Reserved \cup 11 .. 13
      /\ c.dirs = [x \in {4, 7} |-> IF x = 4 THEN FirstRoot ELSE SubFull]
      /\ c.inodes = [i \in E!Inode |-> CASE i = E!RootInode -> <<4>> [] i = 11 -> <<5, 6>>
                                             [] i = 12 -> <<7>> [] i = 13 -> <<8>>
                                             [] OTHER -> <<>>]
      /\ c = Parts(c.blockBits, c.inodeBits, c.inodes, c.dirs)
  BY <1>3 DEF Parts
<1>. HIDE DEF c, F
<1>8. c.dirs \in [{4, 7} -> Seq(E!Entry)] /\ c.dirs[4] = FirstRoot /\ c.dirs[7] = SubFull
  BY <1>4, <1>7 DEF RootOK
<1>9. /\ c.inodes[E!RootInode] = <<4>> /\ c.inodes[11] = <<5, 6>> /\ c.inodes[12] = <<7>>
      /\ c.inodes[13] = <<8>> /\ c.inodes \in [E!Inode -> Seq(E!Block)]
  <2>1. E!RootInode = 1 /\ 4 \in E!Block /\ 5 \in E!Block /\ 6 \in E!Block /\ 7 \in E!Block /\ 8 \in E!Block
    BY DEF E!RootInode, E!Block
  <2>2. /\ <<4>> \in Seq(E!Block) /\ <<5, 6>> \in Seq(E!Block) /\ <<7>> \in Seq(E!Block)
        /\ <<8>> \in Seq(E!Block) /\ <<>> \in Seq(E!Block)
    BY <2>1
  <2>3. \A i \in E!Inode : c.inodes[i] \in Seq(E!Block)
    BY <1>7, <2>2
  <2>4. c.inodes = [i \in E!Inode |-> c.inodes[i]]
    BY <1>7
  <2>5. c.inodes \in [E!Inode -> Seq(E!Block)]
    BY <2>3, <2>4
  <2>6. c.inodes[11] = <<5, 6>> /\ c.inodes[12] = <<7>> /\ c.inodes[13] = <<8>>
    BY <1>6, <1>7, <2>1
  <2>7. c.inodes[E!RootInode] = <<4>>
    BY <1>6, <1>7, <2>1
  <2>. QED  BY <2>5, <2>6, <2>7
<1>10. c \in ExtCard
  <2>1. c.blockBits \in SUBSET E!Block /\ c.inodeBits \in SUBSET E!Inode
    <3>1. c.blockBits \in SUBSET E!Block
      BY <1>7 DEF E!MetaBlocks, E!Block
    <3>2. 11 .. 13 \subseteq E!Inode
      BY <1>5 DEF E!Inode
    <3>. QED  BY <1>6, <1>7, <3>1, <3>2
  <2>2. \A p, q, r, s : p \in SUBSET E!Block /\ q \in SUBSET E!Inode
                       /\ r \in [E!Inode -> Seq(E!Block)] /\ s \in [{4, 7} -> Seq(E!Entry)]
                       => Parts(p, q, r, s) \in ExtCard
    BY DEF Parts, ExtCard
  <2>3. Parts(c.blockBits, c.inodeBits, c.inodes, c.dirs) \in ExtCard
    BY <1>8, <1>9, <2>1, <2>2
  <2>. QED  BY <1>7, <2>3
<1>11. Laid(c)
  BY <1>4, <1>8, <1>9, <1>10 DEF Laid
<1>12. /\ Len(a) = 1 /\ a[1] = E!First /\ Len(b) = 1 /\ b[1] = Dir
       /\ Len(d) = 2 /\ d[1] = Dir /\ d[2] = E!Second
  OBVIOUS
<1>. HIDE DEF a, b, d
<1>13. InRoot(c, E!First, 11, "file") /\ InRoot(c, Dir, 12, "dir")
  <2>1. 2 \in 2 .. 3 /\ 3 \in 2 .. 3
    OBVIOUS
  <2>. QED  BY <1>4, <1>8, <2>1 DEF InRoot
<1>14. At(c, a, 11, "file") /\ At(c, b, 12, "dir") /\ At(c, d, 13, "file")
  <2>1. At(c, a, 11, "file") /\ At(c, b, 12, "dir")
    BY <1>12, <1>13 DEF At
  <2>2. \E j \in E!Inode : InRoot(c, d[1], j, "dir") /\ c.inodes[j] = <<7>>
    BY <1>6, <1>9, <1>12, <1>13
  <2>3. At(c, d, 13, "file")
    BY <1>8, <1>12, <2>2 DEF At
  <2>. QED  BY <2>1, <2>3
<1>15. /\ E!ToSet(<<5, 6>>) \subseteq c.blockBits /\ E!ToSet(<<7>>) \subseteq c.blockBits
       /\ E!ToSet(<<8>>) \subseteq c.blockBits
       /\ 11 \in c.inodeBits /\ 12 \in c.inodeBits /\ 13 \in c.inodeBits
       /\ <<5, 6>> # <<7>> /\ <<8>> # <<7>>
  <2>1. E!ToSet(<<5, 6>>) = {5, 6} /\ E!ToSet(<<7>>) = {7} /\ E!ToSet(<<8>>) = {8}
    BY DEF E!ToSet
  <2>2. <<5, 6>>[1] = 5 /\ <<7>>[1] = 7 /\ <<8>>[1] = 8
    OBVIOUS
  <2>3. 5 \in c.blockBits /\ 6 \in c.blockBits /\ 7 \in c.blockBits /\ 8 \in c.blockBits
    BY <1>7
  <2>4. 11 \in c.inodeBits /\ 12 \in c.inodeBits /\ 13 \in c.inodeBits
    BY <1>7
  <2>5. <<5, 6>> # <<7>> /\ <<8>> # <<7>>
    BY <2>2
  <2>. QED  BY <2>1, <2>3, <2>4, <2>5
<1>16. HasFile(c, a, <<5, 6>>) /\ HasFile(c, b, <<7>>) /\ HasFile(c, d, <<8>>)
  <2>1. HasIn(c, a, <<5, 6>>, 11, "file") /\ HasIn(c, b, <<7>>, 12, "dir") /\ HasIn(c, d, <<8>>, 13, "file")
    BY <1>9, <1>14, <1>15 DEF HasIn
  <2>. QED  BY <1>6, <2>1 DEF HasFile
<1>17. ExtGood(c, F, DOMAIN F)
  BY <1>2, <1>11, <1>16 DEF ExtGood
<1>18. \A o \in 2 .. Len(c.dirs[4]) : <<c.dirs[4][o].name>> \in DOMAIN F
  <2>1. \A o \in 2 .. 3 : o = 2 \/ o = 3
    OBVIOUS
  <2>. QED  BY <1>2, <1>4, <1>8, <2>1 DEF a, b
<1>19. \A p \in DOMAIN F : F[p] = <<7>> => <<p[1], E!Second>> \in DOMAIN F
  <2>1. \A p \in DOMAIN F : F[p] = <<7>> => p = b
    BY <1>2, <1>15
  <2>2. <<b[1], E!Second>> = d
    BY <1>12 DEF d
  <2>. QED  BY <1>2, <2>1, <2>2
<1>20. E!Reserved \subseteq c.inodeBits
  BY <1>7
<1>21. \A i \in c.inodeBits \ E!Reserved :
          i = 13 \/ \E p \in DOMAIN F, t \in {"file", "dir"} : At(c, p, i, t)
  <2>1. \A i \in c.inodeBits \ E!Reserved : i = 11 \/ i = 12 \/ i = 13
    BY <1>7
  <2>. QED  BY <1>2, <1>14, <2>1
<1>22. ExtTarget(c, F)
  BY <1>17, <1>18, <1>19, <1>20, <1>21 DEF ExtTarget
<1>23. E!Settled \subseteq DOMAIN F
  BY DEF E!Settled, F
<1>24. ExtLeads(c, <<>>, c, ExtCards(F, E!Settled)) /\ E!Due(c, <<>>) = <<>>
  BY <1>2, <1>22, <1>23, NothingLeft
<1>25. ext_todo = <<>> /\ ext_command = E!NoCommand
  BY <1>1 DEF E!Init
<1>26. ext_command.src \in E!Path \cup {E!NoPath} /\ ext_command.dest \in E!Path \cup {E!NoPath}
  BY <1>25 DEF E!NoCommand
<1>. QED  BY <1>2, <1>22, <1>24, <1>25, <1>26 DEF ExtInv, c, F

\* With ext_todo as it was when nothing happens.
LEMMA ExtSafe ==
  ASSUME OnlyExisting, ExtInv, [E!Next]_ext_vars
  PROVE  ExtInv'
<1>1. CASE UNCHANGED ext_vars
  BY <1>1 DEF ext_vars, ExtInv, E!Settled, E!Ready
<1>2. ASSUME NEW p \in E!Path, E!ext_rm(p)  PROVE ExtInv'
  BY <1>2, ExtRmSafe
<1>3. ASSUME NEW p \in E!Path, E!ext_cat(p)  PROVE ExtInv'
  BY <1>3, ExtCatSafe
<1>4. ASSUME NEW p \in E!Path, NEW n \in ExtNames, E!ext_mv(p, n)  PROVE ExtInv'
  BY <1>4, ExtMvSafe
<1>5. CASE E!Transfer
  BY <1>5, ExtTransferSafe
<1>6. CASE UNCHANGED E!vars
  BY <1>1, <1>6 DEF E!vars, ext_vars
<1>. QED  BY <1>1, <1>2, <1>3, <1>4, <1>5, <1>6 DEF E!Next

\* Every step of the shell is one of ext2's, or leaves it alone.
LEMMA ExtInvariance ==
  ASSUME OnlyExisting
  PROVE  FilesSpec => []ExtInv
<1>1. FilesInit => ExtInv
  BY ExtInitSafe DEF FilesInit
<1>2. ExtInv /\ [FilesNext]_<<vars, current_fs, ext_vars, edit_vars>> => ExtInv'
  <2>1. [FilesNext]_<<vars, current_fs, ext_vars, edit_vars>> => [E!Next]_ext_vars
    BY DEF FilesNext, ChangeFs, ToFat, ToExt, ToEditor
  <2>. QED  BY <2>1, ExtSafe
<1>. QED  BY <1>1, <1>2, PTL DEF FilesSpec

\* What is known of the card at every moment.
LEMMA ExtInvFacts ==
  ASSUME ExtInv
  PROVE  /\ FilesOK(ext_files) /\ Laid(ext_card) /\ E!Settled \subseteq DOMAIN ext_files
         /\ ExtGood(ext_card, ext_files, E!Settled) /\ ext_todo \in Seq(ExtTransfers)
<1>1. PICK e, L : /\ ExtLeads(ext_card, L, e, ExtCards(ext_files, E!Settled))
                  /\ ext_todo = E!Due(ext_card, L)
  BY DEF ExtInv
<1>2. ExtCards(ext_files, E!Settled) \subseteq ExtCard
  BY DEF ExtCards
<1>3. ext_card \in ExtCards(ext_files, E!Settled) /\ ext_todo \in Seq(ExtTransfers)
  BY <1>1, <1>2, ExtLeadsDue
<1>4. ExtGood(ext_card, ext_files, E!Settled)
  BY <1>3 DEF ExtCards
<1>. QED  BY <1>3, <1>4 DEF ExtInv, ExtGood, E!Settled

\* The record lengths of the root and of the directory below it lead from entry to entry
\* and end with the block, after every transfer of every command.
THEOREM RecordsFillHolds ==
  ASSUME OnlyExisting
  PROVE  FilesSpec => []RecordsFill
<1>1. ExtInv => RecordsFill
  <2>1. SUFFICES ASSUME ExtInv, NEW b \in DOMAIN ext_card.dirs
                 PROVE  ext_card.dirs[b] # <<>> /\ E!Length(ext_card.dirs[b]) = BlockLen
    BY DEF RecordsFill, E!RecordsFill
  <2>. DEFINE d == ext_card.dirs[b]
  <2>2. Laid(ext_card)
    BY <2>1, ExtInvFacts
  <2>3. /\ ext_card.dirs \in [{4, 7} -> Seq(E!Entry)] /\ RootOK(ext_card.dirs[4])
        /\ ext_card.dirs[7] \in {SubFull, SubLeft}
    BY <2>2, LaidFacts
  <2>4. d \in Seq(E!Entry) /\ (b = 4 \/ b = 7)
    BY <2>3
  <2>5. BlockLen \in Nat /\ BlockLen >= 5
    BY NamesFacts
  <2>6. Len(SubFull) = 2 /\ Filled(SubFull)
    <3>1. Len(SubFull) = 2 /\ SubFull[1].len = 1 /\ SubFull[2].len = BlockLen - 1
      BY DEF SubFull, E!Made
    <3>2. \A o \in 1 .. 2 : o = 1 \/ o = 2
      OBVIOUS
    <3>3. BlockLen - 2 + 1 = BlockLen - 1
      BY <2>5
    <3>. QED  BY <3>1, <3>2, <3>3 DEF Filled
  <2>7. Len(SubLeft) = 1 /\ Filled(SubLeft)
    <3>1. Len(SubLeft) = 1 /\ SubLeft[1].len = BlockLen
      BY DEF SubLeft, E!Made
    <3>2. \A o \in 1 .. 1 : o = 1
      OBVIOUS
    <3>3. BlockLen - 1 + 1 = BlockLen
      BY <2>5
    <3>. QED  BY <3>1, <3>2, <3>3 DEF Filled
  <2>8. Len(d) >= 1 /\ Filled(d)
    <3>1. CASE b = 4
      BY <2>3, <3>1 DEF RootOK
    <3>2. CASE b = 7
      <4>1. d = SubFull \/ d = SubLeft
        BY <2>3, <3>2
      <4>. HIDE DEF d
      <4>2. 2 >= 1 /\ 1 >= 1
        OBVIOUS
      <4>. QED  BY <2>6, <2>7, <4>1, <4>2
    <3>. QED  BY <2>4, <3>1, <3>2
  <2>. HIDE DEF d
  <2>9. E!Length(d) = BlockLen
    BY <2>4, <2>8, FilledFacts
  <2>10. d # <<>>
    <3>1. Len(<<>>) = 0
      OBVIOUS
    <3>. QED  BY <2>8, <3>1
  <2>. QED  BY <2>9, <2>10 DEF d
<1>. QED  BY <1>1, ExtInvariance, PTL

\* Two files that no command is at work on never share an inode or a block, and both are
\* marked as used: a new inode is one that nobody has, and only a file's own are freed.
THEOREM InodesOwnedHolds ==
  ASSUME OnlyExisting
  PROVE  FilesSpec => []InodesOwned
<1>1. ExtInv => InodesOwned
  <2>1. SUFFICES ASSUME ExtInv  PROVE InodesOwned
    OBVIOUS
  <2>. DEFINE c == ext_card
              F == ext_files
              S == E!Settled
              inode(p) == E!ext_find(c, p).inode
              blocks(p) == E!ToSet(c.inodes[inode(p)])
  <2>2. /\ FilesOK(F) /\ Laid(c) /\ S \subseteq DOMAIN F /\ ExtGood(c, F, S)
        /\ ext_todo \in Seq(ExtTransfers)
    BY <2>1, ExtInvFacts
  <2>3. /\ c \in ExtCard /\ c.blockBits \in SUBSET E!Block /\ c.inodeBits \in SUBSET E!Inode
        /\ c.inodes \in [E!Inode -> Seq(E!Block)] /\ c.dirs \in [{4, 7} -> Seq(E!Entry)]
    BY <2>2, LaidFacts
  <2>4. E!TypeOK
    <3>1. \A b \in DOMAIN c.dirs : c.dirs[b] \in Seq(E!Entry)
      BY <2>3
    <3>2. \A i \in DOMAIN ext_todo : ext_todo[i][1] \in DOMAIN c
      <4>1. DOMAIN c = ExtFields
        BY <2>3 DEF ExtCard, ExtFields
      <4>2. ASSUME NEW i \in DOMAIN ext_todo  PROVE ext_todo[i][1] \in ExtFields
        <5>1. ext_todo[i] \in ExtTransfers
          BY <2>2, ElementOfSeq, LenProperties
        <5>. QED  BY <5>1 DEF ExtTransfers
      <4>. QED  BY <4>1, <4>2
    <3>3. DOMAIN F \subseteq E!Path
      BY <2>2 DEF FilesOK
    <3>4. ext_command.src \in E!Path \cup {E!NoPath} /\ ext_command.dest \in E!Path \cup {E!NoPath}
      BY <2>1 DEF ExtInv
    <3>. QED  BY <2>3, <3>1, <3>2, <3>3, <3>4 DEF E!TypeOK
  <2>. HIDE DEF c, F, S
  <2>5. ASSUME NEW p \in S
        PROVE  /\ inode(p) \in c.inodeBits /\ blocks(p) \subseteq c.blockBits
               /\ c.inodes[inode(p)] = F[p] /\ p \in DOMAIN F /\ F[p] \in Contents
    <3>1. IsFound(c, F, p, E!ext_find(c, p))
      BY <2>2, SrcFacts
    <3>2. p \in DOMAIN F /\ F[p] \in Contents
      BY <2>2, FilesFacts
    <3>. QED  BY <3>1, <3>2 DEF IsFound
  <2>6. ASSUME NEW p \in S, NEW q \in S, p # q
        PROVE  inode(p) # inode(q) /\ blocks(p) \cap blocks(q) = {}
    <3>. DEFINE a == F[p]
                b == F[q]
    <3>1. a # b
      BY <2>2, <2>5, <2>6, FilesFacts
    <3>2. c.inodes[inode(p)] = a /\ c.inodes[inode(q)] = b /\ a \in Contents /\ b \in Contents
      BY <2>5
    <3>. HIDE DEF a, b, inode
    <3>3. E!ToSet(a) \cap E!ToSet(b) = {}
      BY <3>1, <3>2, ContentsApart
    <3>. QED  BY <3>1, <3>2, <3>3
  <2>. QED  BY <2>4, <2>5, <2>6 DEF E!InodesOwned, InodesOwned, c, S
<1>. QED  BY <1>1, ExtInvariance, PTL

\* A listing shows the names of the directory's one block.
LEMMA ListFacts ==
  ASSUME NEW c, NEW p, NEW b, c.inodes[E!ext_find(c, p).inode] = <<b>>
  PROVE  E!ext_ls(c, p) = {c.dirs[b][k].name : k \in DOMAIN c.dirs[b]}
<1>1. E!ToSet(<<b>>) = {b}
  BY DEF E!ToSet
<1>2. E!ext_ls(c, p) = UNION {{e.name : e \in E!ToSet(c.dirs[x])} : x \in {b}}
  BY <1>1 DEF E!ext_ls
<1>3. {e.name : e \in E!ToSet(c.dirs[b])} = {c.dirs[b][k].name : k \in DOMAIN c.dirs[b]}
  BY DEF E!ToSet
<1>. QED  BY <1>2, <1>3

\* The names of the directory that is in block 7.
LEMMA SubShown ==
  ASSUME NEW c, NEW F, FilesOK(F), ExtTarget(c, F), NEW p \in DOMAIN F, F[p] = << 7 >>
  PROVE  {c.dirs[7][k].name : k \in DOMAIN c.dirs[7]}
            = {q[2] : q \in {r \in DOMAIN F : E!IsPrefix(p, r)} \ {p}} \cup {E!Dot}
<1>. DEFINE s == <<p[1], E!Second>>
            A == {q[2] : q \in {r \in DOMAIN F : E!IsPrefix(p, r)} \ {p}}
<1>1. /\ \A q \in DOMAIN F : q \in E!Path
      /\ Len(p) = 1 /\ p \in E!Path
      /\ \A q \in DOMAIN F : Len(q) = 2 => q = <<q[1], E!Second>>
  BY FilesFacts
<1>2. Len(s) = 2 /\ s[1] = p[1] /\ s[2] = E!Second
  OBVIOUS
<1>. HIDE DEF s
<1>3. {r \in DOMAIN F : E!IsPrefix(p, r)} \ {p} = {r \in DOMAIN F : r = s}
  <2>1. ASSUME NEW r \in DOMAIN F  PROVE (E!IsPrefix(p, r) /\ r # p) <=> r = s
    <3>1. E!IsPrefix(p, r) <=> Within(p, r)
      BY <1>1, PrefixFacts
    <3>2. r = s => Within(p, r) /\ r # p
      BY <1>1, <1>2 DEF Within
    <3>3. ASSUME Within(p, r), r # p  PROVE r = s
      <4>1. Len(r) = 2 /\ r[1] = p[1]
        BY <3>3 DEF Within
      <4>. QED  BY <1>1, <4>1 DEF s
    <3>. QED  BY <3>1, <3>2, <3>3
  <2>. QED  BY <2>1
<1>4. A = IF s \in DOMAIN F THEN {E!Second} ELSE {}
  BY <1>2, <1>3
<1>. HIDE DEF A
<1>5. c.dirs[7] \in {SubFull, SubLeft}
  BY DEF ExtTarget, ExtGood, Laid
<1>6. /\ Len(SubFull) = 2 /\ SubFull[1].name = E!Dot /\ SubFull[2].name = E!Second
      /\ Len(SubLeft) = 1 /\ SubLeft[1].name = E!Dot
      /\ DOMAIN SubFull = {1, 2} /\ DOMAIN SubLeft = {1}
  BY DEF SubFull, SubLeft, E!Made
<1>7. c.dirs[7] = SubFull => s \in DOMAIN F
  BY DEF ExtTarget, s
<1>8. s \in DOMAIN F => c.dirs[7] = SubFull
  <2>1. SUFFICES ASSUME s \in DOMAIN F  PROVE c.dirs[7] = SubFull
    OBVIOUS
  <2>2. IsFound(c, F, s, E!ext_find(c, s))
    BY <2>1, SrcFacts DEF ExtTarget
  <2>. QED  BY <1>2, <2>2 DEF IsFound
<1>9. CASE c.dirs[7] = SubFull
  BY <1>4, <1>6, <1>7, <1>9 DEF A
<1>10. CASE c.dirs[7] = SubLeft
  <2>1. SubFull # SubLeft
    BY <1>6
  <2>2. A = {}
    BY <1>4, <1>8, <1>10, <2>1
  <2>. QED  BY <1>6, <1>10, <2>2 DEF A
<1>. QED  BY <1>5, <1>9, <1>10

\* The names of the root.
LEMMA RootShown ==
  ASSUME NEW c, NEW F, FilesOK(F), ExtTarget(c, F)
  PROVE  /\ c.inodes[E!ext_find(c, <<E!Dot>>).inode] = <<4>>
         /\ {c.dirs[4][k].name : k \in DOMAIN c.dirs[4]} = {q[1] : q \in DOMAIN F} \cup {E!Dot}
<1>. DEFINE d == c.dirs[4]
<1>1. Laid(c) /\ ExtGood(c, F, DOMAIN F)
  BY DEF ExtTarget, ExtGood
<1>2. /\ RootOK(d) /\ Len(d) \in Nat /\ Len(d) >= 1 /\ DOMAIN d = 1 .. Len(d)
      /\ d[1].name = E!Dot /\ \A o, k \in 1 .. Len(d) : d[o].name = d[k].name => o = k
      /\ c.inodes[E!RootInode] = <<4>>
  BY <1>1, LaidFacts
<1>3. d[1].inode = E!RootInode
  BY <1>2 DEF RootOK
<1>4. \A o \in 2 .. Len(d) : <<d[o].name>> \in DOMAIN F
  BY DEF ExtTarget
<1>5. c.inodes[E!ext_find(c, <<E!Dot>>).inode] = <<4>>
  <2>1. 1 \in 1 .. Len(d)
    BY <1>2
  <2>2. Only(c, E!RootInode, 4, Len(d), E!Dot, 1)
    BY <1>2, <2>1 DEF Only
  <2>3. E!InDirectory(c, E!RootInode, E!Dot) = FoundAt(4, 1, d[1])
    BY <2>2, FindOnce
  <2>4. Len(<<E!Dot>>) = 1 /\ <<E!Dot>>[1] = E!Dot
    OBVIOUS
  <2>5. E!ext_find(c, <<E!Dot>>) = FoundAt(4, 1, d[1])
    BY <2>3, <2>4 DEF E!ext_find
  <2>6. FoundAt(4, 1, d[1]).inode = d[1].inode
    BY DEF FoundAt
  <2>. QED  BY <1>2, <1>3, <2>5, <2>6
<1>6. ASSUME NEW q \in DOMAIN F  PROVE \E k \in 1 .. Len(d) : d[k].name = q[1]
  <2>1. ASSUME NEW p \in DOMAIN F, Len(p) = 1  PROVE \E k \in 1 .. Len(d) : d[k].name = p[1]
    <3>. DEFINE f == E!ext_find(c, p)
    <3>1. IsFound(c, F, p, f)
      BY <1>1, <2>1, SrcFacts
    <3>. HIDE DEF f
    <3>2. f.offset \in 2 .. Len(d) /\ d[f.offset].name = p[1]
      BY <2>1, <3>1 DEF IsFound
    <3>. HIDE DEF d
    <3>3. f.offset \in 1 .. Len(d)
      BY <1>2, <3>2
    <3>. QED  BY <3>2, <3>3
  <2>2. CASE Len(q) = 1
    BY <2>1, <2>2
  <2>3. CASE Len(q) = 2
    <3>1. <<q[1]>> \in DOMAIN F
      BY <2>3, FilesFacts
    <3>2. Len(<<q[1]>>) = 1 /\ <<q[1]>>[1] = q[1]
      OBVIOUS
    <3>. QED  BY <2>1, <3>1, <3>2
  <2>4. Len(q) = 1 \/ Len(q) = 2
    BY FilesFacts, PathFacts
  <2>. QED  BY <2>2, <2>3, <2>4
<1>7. ASSUME NEW k \in 1 .. Len(d)  PROVE d[k].name \in {q[1] : q \in DOMAIN F} \cup {E!Dot}
  <2>1. CASE k = 1
    BY <1>2, <2>1
  <2>2. CASE k # 1
    <3>1. k \in 2 .. Len(d)
      BY <1>2, <2>2
    <3>2. <<d[k].name>> \in DOMAIN F /\ <<d[k].name>>[1] = d[k].name
      BY <1>4, <3>1
    <3>. HIDE DEF d
    <3>. QED  BY <3>2
  <2>. QED  BY <2>1, <2>2
<1>8. 1 \in DOMAIN d
  BY <1>2
<1>9. {d[k].name : k \in DOMAIN d} = {q[1] : q \in DOMAIN F} \cup {E!Dot}
  <2>. HIDE DEF d
  <2>1. {d[k].name : k \in DOMAIN d} \subseteq {q[1] : q \in DOMAIN F} \cup {E!Dot}
    BY <1>2, <1>7
  <2>2. {q[1] : q \in DOMAIN F} \cup {E!Dot} \subseteq {d[k].name : k \in DOMAIN d}
    BY <1>2, <1>6, <1>8
  <2>. QED  BY <2>1, <2>2
<1>. QED  BY <1>5, <1>9

\* Every file that nobody has removed is found under its name with its blocks, at every
\* moment if the command is about another one, however the user has removed and renamed
\* files that there are; and a listing between two commands shows just the files.
THEOREM FilesFoundHolds ==
  ASSUME OnlyExisting
  PROVE  FilesSpec => []FilesFound
<1>1. ExtInv => FilesFound
  <2>1. SUFFICES ASSUME ExtInv  PROVE FilesFound
    OBVIOUS
  <2>. DEFINE c == ext_card
              F == ext_files
              S == E!Settled
  <2>2. FilesOK(F) /\ Laid(c) /\ S \subseteq DOMAIN F /\ ExtGood(c, F, S)
    BY <2>1, ExtInvFacts
  <2>3. E!Ready => ExtTarget(c, F)
    BY <2>1, ReadyFacts
  <2>4. \A p : E!Below(p) = {r \in DOMAIN F : E!IsPrefix(p, r)}
    BY DEF E!Below
  <2>5. \A p, N : E!Shown(p, N) <=> E!ext_ls(c, p) = N \cup {E!Dot}
    BY DEF E!Shown
  <2>. HIDE DEF c, F, S
  <2>6. ASSUME NEW p \in S
        PROVE  LET f == E!ext_find(c, p)
               IN  /\ f.ok /\ c.inodes[f.inode] = F[p]
                   /\ E!Ready /\ f.type = "dir" => E!Shown(p, {q[2] : q \in E!Below(p) \ {p}})
    <3>. DEFINE f == E!ext_find(c, p)
    <3>1. IsFound(c, F, p, f)
      BY <2>2, SrcFacts
    <3>2. f.ok /\ c.inodes[f.inode] = F[p] /\ (f.type = "dir" <=> F[p] = <<7>>)
      BY <3>1 DEF IsFound
    <3>3. ASSUME E!Ready, f.type = "dir"  PROVE E!Shown(p, {q[2] : q \in E!Below(p) \ {p}})
      <4>1. ExtTarget(c, F) /\ F[p] = <<7>> /\ p \in DOMAIN F
        BY <2>2, <2>3, <3>2, <3>3
      <4>2. E!ext_ls(c, p) = {c.dirs[7][k].name : k \in DOMAIN c.dirs[7]}
        BY <3>2, <4>1, ListFacts
      <4>3. {c.dirs[7][k].name : k \in DOMAIN c.dirs[7]}
               = {q[2] : q \in {r \in DOMAIN F : E!IsPrefix(p, r)} \ {p}} \cup {E!Dot}
        BY <2>2, <4>1, SubShown
      <4>. QED  BY <2>4, <2>5, <4>2, <4>3
    <3>. HIDE DEF f
    <3>4. f.ok /\ c.inodes[f.inode] = F[p]
          /\ (E!Ready /\ f.type = "dir" => E!Shown(p, {q[2] : q \in E!Below(p) \ {p}}))
      BY <3>2, <3>3
    <3>. QED  BY <3>4 DEF f
  <2>7. ASSUME E!Ready  PROVE E!Shown(<<E!Dot>>, {q[1] : q \in DOMAIN F})
    <3>1. /\ c.inodes[E!ext_find(c, <<E!Dot>>).inode] = <<4>>
          /\ {c.dirs[4][k].name : k \in DOMAIN c.dirs[4]} = {q[1] : q \in DOMAIN F} \cup {E!Dot}
      BY <2>2, <2>3, <2>7, RootShown
    <3>. DEFINE p == <<E!Dot>>
    <3>. HIDE DEF p
    <3>2. c.inodes[E!ext_find(c, p).inode] = <<4>>
      BY <3>1 DEF p
    <3>3. E!ext_ls(c, p) = {c.dirs[4][k].name : k \in DOMAIN c.dirs[4]}
      BY <3>2, ListFacts
    <3>4. E!Shown(p, {q[1] : q \in DOMAIN F})
      BY <2>5, <3>1, <3>3
    <3>. QED  BY <3>4 DEF p
  <2>. QED  BY <2>6, <2>7 DEF FilesFound, E!FilesFound, c, F, S
<1>. QED  BY <1>1, ExtInvariance, PTL

-----------------------------------------------------------------------------
(* What reads give *)

\* The places from x up to y.
Span(x, y) == [k \in 1 .. y - x |-> x + k - 1]

\* The place where cluster c begins.
Begin(c) == c * ClusterLen

\* The places are as many as there are between x and y.
LEMMA SpanFacts ==
  ASSUME NEW x \in Int, NEW y \in Int, x <= y
  PROVE  /\ Span(x, y) \in Seq(Int) /\ Len(Span(x, y)) = y - x
         /\ \A k \in 1 .. y - x : Span(x, y)[k] = x + k - 1
<1>1. y - x \in Nat
  OBVIOUS
<1>2. Span(x, y) \in [1 .. y - x -> Int]
  BY DEF Span
<1>. QED  BY <1>1, <1>2 DEF Span

\* There are none backwards.
LEMMA SpanNone ==
  ASSUME NEW x \in Int, NEW y \in Int, y <= x
  PROVE  Span(x, y) = <<>>
<1>1. 1 .. y - x = {}
  OBVIOUS
<1>2. Span(x, y) \in [{} -> Int]
  BY <1>1 DEF Span
<1>. QED  BY <1>2

\* Those up to y and those behind it.
LEMMA SpanJoined ==
  ASSUME NEW x \in Int, NEW y \in Int, NEW z \in Int, x <= y, y <= z
  PROVE  Span(x, y) \o Span(y, z) = Span(x, z)
<1>. DEFINE s == Span(x, y)
            t == Span(y, z)
            u == Span(x, z)
<1>1. /\ s \in Seq(Int) /\ Len(s) = y - x /\ \A k \in 1 .. y - x : s[k] = x + k - 1
      /\ t \in Seq(Int) /\ Len(t) = z - y /\ \A k \in 1 .. z - y : t[k] = y + k - 1
      /\ u \in Seq(Int) /\ Len(u) = z - x /\ \A k \in 1 .. z - x : u[k] = x + k - 1
  <2>1. x <= z
    OBVIOUS
  <2>. HIDE DEF s, t, u
  <2>2. s \in Seq(Int) /\ Len(s) = y - x /\ \A k \in 1 .. y - x : s[k] = x + k - 1
    BY SpanFacts DEF s
  <2>3. t \in Seq(Int) /\ Len(t) = z - y /\ \A k \in 1 .. z - y : t[k] = y + k - 1
    BY SpanFacts DEF t
  <2>4. u \in Seq(Int) /\ Len(u) = z - x /\ \A k \in 1 .. z - x : u[k] = x + k - 1
    BY <2>1, SpanFacts DEF u
  <2>. QED  BY <2>2, <2>3, <2>4
<1>. HIDE DEF s, t, u
<1>2. s \o t \in Seq(Int) /\ Len(s \o t) = z - x
  <2>1. s \o t \in Seq(Int) /\ Len(s \o t) = Len(s) + Len(t)
    BY <1>1, ConcatProperties
  <2>. QED  BY <1>1, <2>1
<1>3. ASSUME NEW k \in 1 .. z - x  PROVE (s \o t)[k] = u[k]
  <2>1. (s \o t)[k] = IF k <= y - x THEN s[k] ELSE t[k - (y - x)]
    BY <1>1
  <2>2. CASE k <= y - x
    BY <1>1, <2>1, <2>2
  <2>3. CASE ~(k <= y - x)
    <3>1. k - (y - x) \in 1 .. z - y
      BY <2>3
    <3>. QED  BY <1>1, <2>1, <2>3, <3>1
  <2>. QED  BY <2>2, <2>3
<1>4. s \o t = u
  BY <1>1, <1>2, <1>3, SeqEqual
<1>. QED  BY <1>4 DEF s, t, u

\* Reading on from the end.
LEMMA PrefixIs ==
  ASSUME NEW s \in Seq(Int), NEW t \in Seq(Int)
  PROVE  IsPrefix(s, t) <=> Len(s) <= Len(t) /\ \A i \in 1 .. Len(s) : s[i] = t[i]
<1>. DEFINE n == Len(s)
            a == SubSeq(s, 1, n)
            b == SubSeq(t, 1, n)
<1>1. n \in Nat /\ Len(t) \in Nat
  OBVIOUS
<1>. SUFFICES ASSUME n <= Len(t)
              PROVE  (a = b) <=> \A i \in 1 .. n : s[i] = t[i]
  BY DEF IsPrefix
<1>2. a \in Seq(Int) /\ Len(a) = n /\ \A i \in 1 .. n : a[i] = s[i]
  BY <1>1
<1>3. b \in Seq(Int) /\ Len(b) = n /\ \A i \in 1 .. n : b[i] = t[i]
  BY <1>1
<1>. HIDE DEF a, b
<1>4. ASSUME \A i \in 1 .. n : s[i] = t[i]  PROVE a = b
  BY <1>1, <1>2, <1>3, <1>4, SeqEqual
<1>. QED  BY <1>2, <1>3, <1>4

\* A cluster has two bytes at least, since a piece that exec reads is less than one.
LEMMA LenFacts == ClusterLen \in Nat /\ ClusterLen >= 2 /\ ClusterLen >= 1 /\ Begin(0) = 0
BY FileReadAssumption DEF Begin

\* The clusters follow each other.
LEMMA BeginFacts ==
  ASSUME NEW c \in Nat
  PROVE  Begin(c) \in Nat /\ Begin(c + 1) = Begin(c) + ClusterLen /\ Begin(c + 1) \in Nat
<1>1. ClusterLen \in Nat
  BY LenFacts
<1>. QED  BY <1>1 DEF Begin

\* In their order.
LEMMA BeginOrder ==
  ASSUME NEW c \in Nat, NEW d \in Nat, c < d
  PROVE  Begin(c) + ClusterLen <= Begin(d)
<1>1. PICK z \in Nat : d = c + 1 + z
  <2>1. d - c - 1 \in Nat /\ d = c + 1 + (d - c - 1)
    OBVIOUS
  <2>. QED  BY <2>1
<1>2. d * ClusterLen = c * ClusterLen + ClusterLen + z * ClusterLen /\ z * ClusterLen >= 0
  BY <1>1, LenFacts
<1>3. c * ClusterLen \in Nat /\ z * ClusterLen \in Nat /\ d * ClusterLen \in Nat
  BY <1>1, LenFacts
<1>4. ClusterLen \in Nat
  BY LenFacts
<1>. QED  BY <1>2, <1>3, <1>4 DEF Begin

\* A place is in a cluster.
LEMMA ClusterOf ==
  ASSUME NEW p \in Nat
  PROVE  /\ p \div ClusterLen \in Nat /\ p % ClusterLen \in 0 .. ClusterLen - 1
         /\ p = Begin(p \div ClusterLen) + (p % ClusterLen)
<1>1. ClusterLen \in Nat /\ ClusterLen >= 1
  BY LenFacts
<1>2. /\ p \div ClusterLen \in Nat /\ p % ClusterLen \in 0 .. ClusterLen - 1
      /\ p = ClusterLen * (p \div ClusterLen) + (p % ClusterLen)
  BY <1>1, DivisionFacts, Zenon
<1>. QED  BY <1>1, <1>2 DEF Begin

\* And in no other.
LEMMA OnlyCluster ==
  ASSUME NEW p \in Nat, NEW c \in Nat, NEW r \in 0 .. ClusterLen - 1
  PROVE  p = Begin(c) + r => p \div ClusterLen = c /\ p % ClusterLen = r
<1>1. ClusterLen \in Nat /\ ClusterLen >= 1
  BY LenFacts
<1>2. p = ClusterLen * c + r => p \div ClusterLen = c /\ p % ClusterLen = r
  <2>1. \A q \in Nat : \A s \in 0 .. ClusterLen - 1 :
           p = ClusterLen * q + s => p \div ClusterLen = q /\ p % ClusterLen = s
    BY <1>1, DivisionFacts, Zenon
  <2>. QED  BY <2>1, Zenon
<1>3. Begin(c) = ClusterLen * c
  BY <1>1 DEF Begin
<1>. QED  BY <1>2, <1>3

\* Bytes of a cluster are places in the file.
LEMMA BytesIs ==
  ASSUME NEW c \in Nat, NEW a \in Int, NEW b \in Int
  PROVE  Bytes(c, a, b) = Span(Begin(c) + a, Begin(c) + b)
<1>. DEFINE m == c * ClusterLen
<1>1. m \in Int
  BY LenFacts
<1>. HIDE DEF m
<1>2. b - a = (m + b) - (m + a)
  BY <1>1
<1>. QED  BY <1>2 DEF Bytes, Span, Begin, m

\* So is a part of the file.
LEMMA PartIs ==
  ASSUME NEW a \in Int, NEW b \in Int
  PROVE  Part(a, b) = Span(a, b)
<1>1. Bytes(0, a, b) = Span(Begin(0) + a, Begin(0) + b)
  BY BytesIs
<1>2. Begin(0) + a = a /\ Begin(0) + b = b
  <2>1. Begin(0) = 0
    BY LenFacts
  <2>. QED  BY <2>1
<1>. QED  BY <1>1, <1>2 DEF Part

\* Putting sequences together, one after the other.
LEMMA FlattenIs ==
  ASSUME NEW m \in Nat, m >= 1, NEW s \in [1 .. m -> Seq(Int)]
  PROVE  \E f \in [1 .. m -> Seq(Int)] :
            /\ f[1] = s[1] /\ \A i \in 2 .. m : f[i] = f[i - 1] \o s[i]
            /\ FlattenSeq(s) = f[m]
<1>. DEFINE S == 1 .. m
            V == Seq(Int)
            W(f) == [i \in S |-> IF i = 1 THEN s[i] ELSE f[i - 1] \o s[i]]
            rank == [i \in S |-> i]
            step == [i \in S |-> [f \in [S -> V] |-> IF i = 1 THEN s[i] ELSE f[i - 1] \o s[i]]]
<1>1. \A i \in S : i # 1 => i - 1 \in S
  OBVIOUS
<1>2. Descends(S, V, m, rank, step)
  <2>1. rank \in [S -> 0 .. m] /\ V # {}
    OBVIOUS
  <2>2. step \in [S -> [[S -> V] -> V]]
    <3>1. ASSUME NEW i \in S, NEW f \in [S -> V]
          PROVE  (IF i = 1 THEN s[i] ELSE f[i - 1] \o s[i]) \in V
      <4>1. CASE i = 1
        BY <4>1
      <4>2. CASE i # 1
        <5>1. f[i - 1] \in V /\ s[i] \in V
          BY <1>1, <4>2
        <5>. QED  BY <4>2, <5>1
      <4>. QED  BY <4>1, <4>2
    <3>. HIDE DEF S, V
    <3>. QED  BY <3>1
  <2>3. ASSUME NEW i \in S, NEW f \in [S -> V], NEW g \in [S -> V],
               \A j \in S : rank[j] < rank[i] => f[j] = g[j]
        PROVE  step[i][f] = step[i][g]
    <3>1. i # 1 => f[i - 1] = g[i - 1]
      BY <1>1, <2>3
    <3>. HIDE DEF S, V
    <3>. QED  BY <3>1
  <2>. HIDE DEF S, V, rank, step
  <2>. QED  BY <2>1, <2>2, <2>3 DEF Descends
<1>3. PICK f \in [S -> V] : \A i \in S : f[i] = step[i][f]
  <2>. HIDE DEF S, V, rank, step
  <2>. QED  BY <1>2, RecursionExists
<1>4. f = W(f)
  <2>1. \A i \in S : f[i] = W(f)[i]
    <3>. HIDE DEF S, V
    <3>. QED  BY <1>3
  <2>. HIDE DEF S, V
  <2>. QED  BY <1>3, <2>1
<1>. DEFINE C == CHOOSE g : g = W(g)
<1>5. C = W(C)
  <2>. HIDE DEF W
  <2>. QED  BY <1>4
<1>6. Len(s) = m
  OBVIOUS
<1>7. FlattenSeq(s) = C[m]
  BY <1>6 DEF FlattenSeq
<1>. HIDE DEF C
<1>8. ASSUME NEW n \in S  PROVE C[n] = f[n]
  <2>. DEFINE B == {i \in Nat : i \in S /\ C[i] # f[i]}
  <2>. SUFFICES ASSUME B # {}  PROVE FALSE
    <3>1. n \in Nat
      OBVIOUS
    <3>. HIDE DEF S
    <3>. QED  BY <3>1
  <2>1. PICK i \in B : \A j \in B : i <= j
    <3>1. B \in SUBSET Nat
      OBVIOUS
    <3>. HIDE DEF B
    <3>. QED  BY <3>1, LeastExists
  <2>2. i \in S /\ C[i] # f[i]
    OBVIOUS
  <2>3. C[i] = W(C)[i] /\ f[i] = W(f)[i]
    BY <1>4, <1>5
  <2>4. i # 1 => C[i - 1] = f[i - 1]
    <3>1. i # 1 => i - 1 \in S /\ i - 1 \in Nat /\ ~(i <= i - 1)
      BY <2>2
    <3>2. i # 1 => i - 1 \notin B
      <4>. HIDE DEF B
      <4>. QED  BY <2>1, <3>1
    <3>. QED  BY <3>1, <3>2
  <2>. HIDE DEF S
  <2>. QED  BY <2>2, <2>3, <2>4
<1>9. f[1] = s[1] /\ \A i \in 2 .. m : f[i] = f[i - 1] \o s[i]
  <2>1. 1 \in S /\ \A i \in 2 .. m : i \in S /\ i # 1
    OBVIOUS
  <2>. HIDE DEF S
  <2>. QED  BY <1>4, <2>1
<1>10. FlattenSeq(s) = f[m]
  BY <1>7, <1>8
<1>. QED  BY <1>3, <1>9, <1>10

\* All bytes of clusters that follow each other.
LEMMA InnerIs ==
  ASSUME NEW c \in Nat, NEW d \in Nat, c <= d
  PROVE  FlattenSeq([k \in 1 .. d - c |-> Bytes(c + k, 0, ClusterLen)]) = Span(Begin(c + 1), Begin(d + 1))
<1>. DEFINE m == d - c
            inner == [k \in 1 .. m |-> Bytes(c + k, 0, ClusterLen)]
<1>1. m \in Nat /\ d = c + m
  OBVIOUS
<1>2. CASE m = 0
  <2>1. inner = <<>>
    <3>1. 1 .. m = {}
      BY <1>2
    <3>. HIDE DEF m
    <3>2. inner \in [{} -> {}]
      BY <3>1
    <3>. QED  BY <3>2
  <2>2. FlattenSeq(<<>>) = <<>>
    BY DEF FlattenSeq
  <2>3. Begin(c + 1) \in Int /\ Begin(d + 1) = Begin(c + 1)
    BY <1>1, <1>2, BeginFacts
  <2>4. Span(Begin(c + 1), Begin(d + 1)) = <<>>
    BY <2>3, SpanNone
  <2>. QED  BY <2>1, <2>2, <2>4
<1>3. CASE m >= 1
  <2>. HIDE DEF m
  <2>1. \A k \in 1 .. m : inner[k] = Span(Begin(c + k), Begin(c + k + 1)) /\ inner[k] \in Seq(Int)
    <3>. SUFFICES ASSUME NEW k \in 1 .. m
                  PROVE  inner[k] = Span(Begin(c + k), Begin(c + k + 1)) /\ inner[k] \in Seq(Int)
      OBVIOUS
    <3>1. c + k \in Nat /\ ClusterLen \in Nat /\ ClusterLen \in Int /\ 0 \in Int
      BY <1>1, LenFacts
    <3>2. inner[k] = Span(Begin(c + k) + 0, Begin(c + k) + ClusterLen)
      <4>1. inner[k] = Bytes(c + k, 0, ClusterLen)
        OBVIOUS
      <4>2. Bytes(c + k, 0, ClusterLen) = Span(Begin(c + k) + 0, Begin(c + k) + ClusterLen)
        BY <3>1, BytesIs, Zenon
      <4>. QED  BY <4>1, <4>2
    <3>3. Begin(c + k) \in Int /\ Begin(c + k) + 0 = Begin(c + k) /\ Begin(c + k + 1) = Begin(c + k) + ClusterLen
          /\ Begin(c + k + 1) \in Int /\ Begin(c + k) <= Begin(c + k + 1)
      <4>1. Begin(c + k) \in Nat /\ Begin((c + k) + 1) = Begin(c + k) + ClusterLen
        BY <3>1, BeginFacts
      <4>. QED  BY <3>1, <4>1
    <3>4. Span(Begin(c + k), Begin(c + k + 1)) \in Seq(Int)
      BY <3>3, SpanFacts
    <3>. QED  BY <3>2, <3>3, <3>4
  <2>2. inner \in [1 .. m -> Seq(Int)]
    BY <2>1
  <2>. HIDE DEF inner
  <2>3. PICK f \in [1 .. m -> Seq(Int)] :
            /\ f[1] = inner[1] /\ \A i \in 2 .. m : f[i] = f[i - 1] \o inner[i]
            /\ FlattenSeq(inner) = f[m]
    BY <1>1, <1>3, <2>2, FlattenIs
  <2>. DEFINE B == {i \in Nat : i \in 1 .. m /\ f[i] # Span(Begin(c + 1), Begin(c + i + 1))}
  <2>4. B = {}
    <3>. SUFFICES ASSUME B # {}  PROVE FALSE
      OBVIOUS
    <3>1. PICK i \in B : \A j \in B : i <= j
      <4>1. B \in SUBSET Nat
        OBVIOUS
      <4>. HIDE DEF B
      <4>. QED  BY <4>1, LeastExists
    <3>2. i \in 1 .. m /\ f[i] # Span(Begin(c + 1), Begin(c + i + 1))
      OBVIOUS
    <3>3. i # 1
      BY <2>1, <2>3, <3>2
    <3>4. i \in 2 .. m /\ i - 1 \in 1 .. m /\ i - 1 \in Nat /\ ~(i <= i - 1)
      BY <1>1, <3>2, <3>3
    <3>5. f[i - 1] = Span(Begin(c + 1), Begin(c + i))
      <4>1. i - 1 \notin B
        <5>. HIDE DEF B
        <5>. QED  BY <3>1, <3>4
      <4>2. c + (i - 1) + 1 = c + i
        BY <3>4
      <4>. QED  BY <3>4, <4>1, <4>2
    <3>6. f[i] = Span(Begin(c + 1), Begin(c + i)) \o Span(Begin(c + i), Begin(c + i + 1))
      BY <2>1, <2>3, <3>2, <3>4, <3>5
    <3>7. /\ Begin(c + 1) \in Int /\ Begin(c + i) \in Int /\ Begin(c + i + 1) \in Int
          /\ Begin(c + 1) <= Begin(c + i) /\ Begin(c + i) <= Begin(c + i + 1)
      <4>1. c + 1 \in Nat /\ c + i \in Nat /\ c + i + 1 \in Nat /\ c + 1 < c + i /\ c + i < c + i + 1
        BY <3>4
      <4>2. Begin(c + 1) \in Nat /\ Begin(c + i) \in Nat /\ Begin(c + i + 1) \in Nat /\ ClusterLen \in Nat
        BY <4>1, BeginFacts, LenFacts
      <4>3. Begin(c + 1) + ClusterLen <= Begin(c + i) /\ Begin(c + i) + ClusterLen <= Begin(c + i + 1)
        BY <4>1, BeginOrder
      <4>. QED  BY <4>2, <4>3
    <3>. QED  BY <3>2, <3>6, <3>7, SpanJoined
  <2>5. m \in 1 .. m /\ m \in Nat
    BY <1>1, <1>3
  <2>6. f[m] = Span(Begin(c + 1), Begin(c + m + 1))
    BY <2>4, <2>5
  <2>7. FlattenSeq(inner) = Span(Begin(c + 1), Begin(d + 1))
    BY <1>1, <2>3, <2>6
  <2>. QED  BY <2>7 DEF inner, m
<1>. QED  BY <1>1, <1>2, <1>3

\* A place with its cluster, and the place behind a part that ends in the same one.
LEMMA PlaceEnd ==
  ASSUME NEW p \in Nat
  PROVE  \E c \in Nat, a \in 0 .. ClusterLen - 1 :
            /\ c = p \div ClusterLen /\ a = p % ClusterLen /\ p = Begin(c) + a
            /\ Begin(c) \in Nat /\ Begin(c + 1) = Begin(c) + ClusterLen /\ Begin(c + 1) \in Nat
            /\ (p + 1) % ClusterLen = IF a + 1 = ClusterLen THEN 0 ELSE a + 1
<1>1. PICK c \in Nat, a \in 0 .. ClusterLen - 1 : c = p \div ClusterLen /\ a = p % ClusterLen /\ p = Begin(c) + a
  BY ClusterOf
<1>2. Begin(c) \in Nat /\ Begin(c + 1) = Begin(c) + ClusterLen /\ Begin(c + 1) \in Nat
  BY BeginFacts
<1>3. ClusterLen \in Nat /\ ClusterLen >= 2 /\ p + 1 \in Nat
  BY LenFacts
<1>4. CASE a + 1 = ClusterLen
  <2>1. p + 1 = Begin(c + 1) + 0 /\ 0 \in 0 .. ClusterLen - 1 /\ c + 1 \in Nat
    <3>1. p = Begin(c) + a
      BY <1>1
    <3>. QED  BY <1>2, <1>3, <1>4, <3>1
  <2>2. (p + 1) % ClusterLen = 0
    BY <1>3, <2>1, OnlyCluster, Zenon
  <2>. QED  BY <1>1, <1>2, <1>4, <2>2
<1>5. CASE a + 1 # ClusterLen
  <2>1. p + 1 = Begin(c) + (a + 1) /\ a + 1 \in 0 .. ClusterLen - 1
    <3>1. p = Begin(c) + a
      BY <1>1
    <3>. QED  BY <1>2, <1>3, <1>5, <3>1
  <2>2. (p + 1) % ClusterLen = a + 1
    BY <1>3, <2>1, OnlyCluster, Zenon
  <2>. QED  BY <1>1, <1>2, <1>5, <2>2
<1>. QED  BY <1>4, <1>5

\* The bytes of a cluster as places that have names.
LEMMA BytesAre ==
  ASSUME NEW c \in Nat, NEW a \in Int, NEW b \in Int,
         NEW x \in Int, NEW y \in Int, x = Begin(c) + a, y = Begin(c) + b
  PROVE  Bytes(c, a, b) = Span(x, y)
<1>1. Bytes(c, a, b) = Span(Begin(c) + a, Begin(c) + b)
  BY BytesIs, Zenon
<1>. QED  BY <1>1

\* A read in one cluster gives what was asked for, or nothing.
LEMMA OneCluster ==
  ASSUME NEW loc \in Nat, NEW n \in Nat, n >= 1, InOneCluster(loc, n)
  PROVE  Bytes(loc \div ClusterLen, loc % ClusterLen, (loc + n) % ClusterLen)
            = IF EndsWithCluster(loc, n) THEN <<>> ELSE Span(loc, loc + n)
<1>1. PICK z \in Nat, end \in Nat : z = loc + n - 1 /\ end = loc + n /\ end = z + 1
  <2>1. loc + n - 1 \in Nat /\ loc + n \in Nat /\ loc + n = (loc + n - 1) + 1
    OBVIOUS
  <2>. QED  BY <2>1
<1>2. PICK c \in Nat, a \in 0 .. ClusterLen - 1 :
          c = loc \div ClusterLen /\ a = loc % ClusterLen /\ loc = Begin(c) + a /\ Begin(c) \in Nat
  BY PlaceEnd
<1>3. PICK d \in Nat, y \in 0 .. ClusterLen - 1 :
          /\ d = z \div ClusterLen /\ z = Begin(d) + y
          /\ (z + 1) % ClusterLen = IF y + 1 = ClusterLen THEN 0 ELSE y + 1
  BY PlaceEnd
<1>4. d = c
  BY <1>1, <1>2, <1>3 DEF InOneCluster
<1>5. PICK b : b = end % ClusterLen
  OBVIOUS
<1>6. b = (IF y + 1 = ClusterLen THEN 0 ELSE y + 1) /\ (EndsWithCluster(loc, n) <=> b = 0)
  BY <1>1, <1>3, <1>5 DEF EndsWithCluster
<1>7. ClusterLen \in Nat /\ ClusterLen >= 2
  BY LenFacts
<1>8. b \in Int /\ a \in Int /\ (b # 0 => b = y + 1)
  BY <1>6, <1>7
<1>13. loc = Begin(c) + a /\ Begin(c) \in Nat
  BY <1>2
<1>9. PICK w \in Int : w = Begin(c) + b
  BY <1>8, <1>13
<1>10. Bytes(c, a, b) = Span(loc, w)
  BY <1>8, <1>9, <1>13, BytesAre
<1>11. CASE b = 0
  <2>1. w <= loc /\ loc \in Int
    BY <1>9, <1>11, <1>13
  <2>2. Span(loc, w) = <<>>
    BY <2>1, SpanNone
  <2>. QED  BY <1>1, <1>2, <1>5, <1>6, <1>10, <1>11, <2>2
<1>12. CASE b # 0
  <2>1. w = end
    <3>1. z = Begin(d) + y
      BY <1>3
    <3>. QED  BY <1>1, <1>4, <1>8, <1>9, <1>12, <1>13, <3>1
  <2>. QED  BY <1>1, <1>2, <1>5, <1>6, <1>10, <1>12, <2>1
<1>. QED  BY <1>11, <1>12

\* What is asked for is part of the file.
LEMMA ClippedFacts ==
  ASSUME NEW size \in Nat, NEW loc \in Nat, NEW count \in Nat, loc < size, count >= 1
  PROVE  LET n == Clipped(size, loc, count)
         IN  n \in Nat /\ n >= 1 /\ n <= count /\ loc + n <= size /\ (loc + n = size \/ n = count)
BY DEF Clipped

\* The cluster of the last byte is not in front of that of the first.
LEMMA LastCluster ==
  ASSUME NEW loc \in Nat, NEW z \in Nat, loc <= z, loc \div ClusterLen # z \div ClusterLen
  PROVE  \E c \in Nat, a \in 0 .. ClusterLen - 1, d \in Nat :
            /\ c = loc \div ClusterLen /\ a = loc % ClusterLen /\ d = z \div ClusterLen /\ c < d
            /\ loc = Begin(c) + a /\ Begin(c) \in Nat /\ Begin(c + 1) = Begin(c) + ClusterLen /\ Begin(c + 1) \in Nat
            /\ Begin(c + 1) <= Begin(d) /\ Begin(d) <= z /\ z < Begin(d + 1) /\ Begin(d) \in Nat /\ Begin(d + 1) \in Nat
            /\ Begin(d + 1) = Begin(d) + ClusterLen
<1>1. PICK c \in Nat, a \in 0 .. ClusterLen - 1 :
          /\ c = loc \div ClusterLen /\ a = loc % ClusterLen /\ loc = Begin(c) + a
          /\ Begin(c) \in Nat /\ Begin(c + 1) = Begin(c) + ClusterLen /\ Begin(c + 1) \in Nat
  BY PlaceEnd
<1>2. PICK d \in Nat, y \in 0 .. ClusterLen - 1 :
          /\ d = z \div ClusterLen /\ z = Begin(d) + y
          /\ Begin(d) \in Nat /\ Begin(d + 1) = Begin(d) + ClusterLen /\ Begin(d + 1) \in Nat
  BY PlaceEnd
<1>3. ClusterLen \in Nat
  BY LenFacts
<1>4. ~(d < c)
  <2>1. d < c => Begin(d) + ClusterLen <= Begin(c)
    BY BeginOrder
  <2>. QED  BY <1>1, <1>2, <1>3, <2>1
<1>5. c < d
  BY <1>1, <1>2, <1>4
<1>6. Begin(c) + ClusterLen <= Begin(d)
  BY <1>5, BeginOrder
<1>7. Begin(d) <= z /\ z < Begin(d + 1)
  BY <1>2, <1>3
<1>. QED  BY <1>1, <1>2, <1>5, <1>6, <1>7

\* What a read of FAT32 gives.
LEMMA FatReadIs ==
  ASSUME NEW size \in Nat, NEW loc \in Nat, NEW count \in Nat, loc < size, count >= 1,
         NEW n, n = Clipped(size, loc, count), NEW end \in Nat, end = loc + n
  PROVE  LET buf == fs_read(size, loc, count).buf
         IN  /\ buf \in Seq(Int)
             /\ InOneCluster(loc, n) => buf = IF EndsWithCluster(loc, n) THEN <<>> ELSE Span(loc, end)
             /\ ~InOneCluster(loc, n) => IsPrefix(Span(loc, end), buf)
<1>. DEFINE buf == fs_read(size, loc, count).buf
<1>1. n \in Nat /\ n >= 1 /\ n # 0
  BY ClippedFacts
<1>2. Span(loc, end) \in Seq(Int) /\ Len(Span(loc, end)) = n
      /\ \A k \in 1 .. n : Span(loc, end)[k] = loc + k - 1
  <2>1. end - loc = n /\ end \in Int /\ loc <= end /\ loc \in Int
    BY <1>1
  <2>2. Span(loc, end) \in Seq(Int) /\ Len(Span(loc, end)) = end - loc
        /\ \A k \in 1 .. end - loc : Span(loc, end)[k] = loc + k - 1
    BY <2>1, SpanFacts, Zenon
  <2>. QED  BY <2>1, <2>2
<1>3. CASE InOneCluster(loc, n)
  <2>1. loc \div ClusterLen = (loc + n - 1) \div ClusterLen
    BY <1>3 DEF InOneCluster
  <2>2. buf = Bytes(loc \div ClusterLen, loc % ClusterLen, (loc + n) % ClusterLen)
    BY <1>1, <2>1 DEF fs_read
  <2>3. buf = IF EndsWithCluster(loc, n) THEN <<>> ELSE Span(loc, end)
    BY <1>1, <1>3, <2>2, OneCluster
  <2>4. <<>> \in Seq(Int)
    OBVIOUS
  <2>. QED  BY <1>2, <1>3, <2>3, <2>4
<1>4. CASE ~InOneCluster(loc, n)
  <2>1. PICK z \in Nat : z = loc + n - 1 /\ loc <= z /\ end = z + 1
    <3>1. loc + n - 1 \in Nat /\ loc <= loc + n - 1 /\ end = (loc + n - 1) + 1
      BY <1>1
    <3>. QED  BY <3>1
  <2>2. PICK c \in Nat, a \in 0 .. ClusterLen - 1, d \in Nat :
            /\ c = loc \div ClusterLen /\ a = loc % ClusterLen /\ d = z \div ClusterLen /\ c < d
            /\ loc = Begin(c) + a /\ Begin(c) \in Nat /\ Begin(c + 1) = Begin(c) + ClusterLen /\ Begin(c + 1) \in Nat
            /\ Begin(c + 1) <= Begin(d) /\ Begin(d) <= z /\ z < Begin(d + 1) /\ Begin(d) \in Nat /\ Begin(d + 1) \in Nat
            /\ Begin(d + 1) = Begin(d) + ClusterLen
    BY <1>4, <2>1, LastCluster DEF InOneCluster
  <2>16. /\ c < d /\ loc = Begin(c) + a /\ Begin(c) \in Nat /\ Begin(c + 1) = Begin(c) + ClusterLen /\ Begin(c + 1) \in Nat
         /\ Begin(c + 1) <= Begin(d) /\ Begin(d) <= z /\ z < Begin(d + 1) /\ Begin(d) \in Nat /\ Begin(d + 1) \in Nat
         /\ Begin(d + 1) = Begin(d) + ClusterLen
    BY <2>2
  <2>3. PICK b \in 0 .. ClusterLen - 1 : b = end % ClusterLen
    BY ClusterOf
  <2>. DEFINE inner == [k \in 1 .. d - c |-> Bytes(c + k, 0, ClusterLen)]
  <2>4. PICK whole, more : /\ whole = Bytes(c, a, ClusterLen) \o FlattenSeq(inner)
                           /\ more = Bytes(d + 1, a, b)
    OBVIOUS
  <2>5. buf = whole \/ buf = whole \o more
    <3>1. c # d /\ n # 0
      BY <1>1, <2>2
    <3>. QED  BY <2>1, <2>2, <2>3, <2>4, <3>1 DEF fs_read
  <2>. HIDE DEF buf
  <2>6. PICK x \in Nat, y \in Nat : x = Begin(c + 1) /\ y = Begin(d + 1)
    BY <2>16
  <2>7. FlattenSeq(inner) = Span(x, y)
    <3>1. c <= d
      BY <2>16
    <3>. QED  BY <2>6, <3>1, InnerIs
  <2>8. ClusterLen \in Nat
    BY LenFacts
  <2>9. Bytes(c, a, ClusterLen) = Span(loc, x)
    <3>1. x = Begin(c) + ClusterLen /\ a \in Int /\ ClusterLen \in Int /\ loc = Begin(c) + a
      <4>1. x = Begin(c) + ClusterLen /\ loc = Begin(c) + a
        BY <2>6, <2>16
      <4>. QED  BY <2>8, <4>1
    <3>. QED  BY <3>1, BytesAre
  <2>. HIDE DEF inner
  <2>10. loc <= x /\ x <= y /\ loc <= y /\ n <= y - loc /\ x \in Int /\ y \in Int /\ loc \in Int
    BY <1>1, <2>1, <2>16, <2>6, <2>8
  <2>11. whole = Span(loc, y)
    <3>1. Span(loc, x) \o Span(x, y) = Span(loc, y)
      BY <2>10, SpanJoined
    <3>. QED  BY <2>4, <2>7, <2>9, <3>1
  <2>12. /\ whole \in Seq(Int) /\ Len(whole) = y - loc
         /\ \A k \in 1 .. y - loc : whole[k] = loc + k - 1
    BY <2>10, <2>11, SpanFacts
  <2>13. more \in Seq(Int)
    <3>1. PICK v \in Int, w \in Int : v = Begin(d + 1) + a /\ w = Begin(d + 1) + b
      BY <2>8, <2>16
    <3>2. PICK g \in Nat : g = d + 1
      OBVIOUS
    <3>6. v = Begin(g) + a /\ w = Begin(g) + b /\ a \in Int /\ b \in Int
      BY <2>8, <3>1, <3>2
    <3>7. Bytes(g, a, b) = Span(v, w)
      BY <3>6, BytesAre
    <3>3. more = Span(v, w)
      BY <2>4, <3>2, <3>7
    <3>4. CASE v <= w
      BY <3>3, <3>4, SpanFacts
    <3>5. CASE w <= v
      <4>1. more = <<>>
        BY <3>3, <3>5, SpanNone
      <4>. QED  BY <4>1
    <3>. QED  BY <3>4, <3>5
  <2>14. buf \in Seq(Int) /\ n <= Len(buf) /\ \A k \in 1 .. n : buf[k] = loc + k - 1
    <3>1. CASE buf = whole
      <4>1. \A k \in 1 .. n : k \in 1 .. y - loc
        BY <1>1, <2>10
      <4>. QED  BY <1>1, <2>10, <2>12, <3>1, <4>1
    <3>2. CASE buf = whole \o more
      <4>1. Len(more) \in Nat
        BY <2>13
      <4>2. /\ buf \in Seq(Int) /\ Len(buf) = Len(whole) + Len(more)
            /\ \A k \in 1 .. Len(whole) : buf[k] = whole[k]
        <5>1. /\ whole \o more \in Seq(Int) /\ Len(whole \o more) = Len(whole) + Len(more)
              /\ \A k \in 1 .. Len(whole) + Len(more) :
                    (whole \o more)[k] = IF k <= Len(whole) THEN whole[k] ELSE more[k - Len(whole)]
          BY <2>12, <2>13, ConcatProperties
        <5>2. Len(whole) \in Nat
          BY <2>12
        <5>. QED  BY <3>2, <4>1, <5>1, <5>2
      <4>3. \A k \in 1 .. n : k \in 1 .. Len(whole) /\ k \in 1 .. y - loc
        BY <1>1, <2>10, <2>12
      <4>4. n <= Len(buf)
        BY <1>1, <2>10, <2>12, <4>1, <4>2
      <4>. QED  BY <2>12, <4>2, <4>3, <4>4
    <3>. QED  BY <2>5, <3>1, <3>2
  <2>15. IsPrefix(Span(loc, end), buf)
    <3>1. PICK s \in Seq(Int) : s = Span(loc, end)
      BY <1>2
    <3>2. Len(s) <= Len(buf) /\ \A i \in 1 .. Len(s) : s[i] = buf[i]
      BY <1>2, <2>14, <3>1
    <3>3. IsPrefix(s, buf)
      BY <2>14, <3>2, PrefixIs, Zenon
    <3>. QED  BY <3>1, <3>3
  <2>. QED  BY <1>4, <2>14, <2>15 DEF buf
<1>. QED  BY <1>3, <1>4

\* Behind s the sequence t has no number less than x, and it begins with s.
Continues(t, s, x) ==
    /\ t \in Seq(Int) /\ Len(s) <= Len(t)
    /\ \A i \in 1 .. Len(t) : i > Len(s) => t[i] >= x

\* So does one that gets more such numbers.
LEMMA ContinuesOn ==
  ASSUME NEW s \in Seq(Int), NEW x \in Int, NEW t, Continues(t, s, x),
         NEW u \in Seq(Int), \A i \in 1 .. Len(u) : u[i] >= x
  PROVE  Continues(t \o u, s, x)
<1>1. /\ t \in Seq(Int) /\ Len(s) <= Len(t) /\ Len(t) \in Nat /\ Len(u) \in Nat /\ Len(s) \in Nat
      /\ \A i \in 1 .. Len(t) : i > Len(s) => t[i] >= x
  BY DEF Continues
<1>2. PICK w : w = t \o u
  OBVIOUS
<1>3. /\ w \in Seq(Int) /\ Len(w) = Len(t) + Len(u)
      /\ \A i \in 1 .. Len(t) + Len(u) : w[i] = IF i <= Len(t) THEN t[i] ELSE u[i - Len(t)]
  BY <1>1, <1>2, ConcatProperties
<1>4. ASSUME NEW i \in 1 .. Len(w), i > Len(s)  PROVE w[i] >= x
  <2>1. CASE i <= Len(t)
    <3>1. i \in 1 .. Len(t)
      BY <2>1, <1>1
    <3>. QED  BY <1>1, <1>3, <1>4, <2>1, <3>1
  <2>2. CASE ~(i <= Len(t))
    <3>1. i - Len(t) \in 1 .. Len(u)
      BY <1>1, <1>3, <2>2
    <3>2. w[i] = u[i - Len(t)]
      BY <1>3, <2>2
    <3>. QED  BY <3>1, <3>2
  <2>. QED  BY <2>1, <2>2
<1>5. Len(s) <= Len(w)
  BY <1>1, <1>3
<1>. QED  BY <1>2, <1>3, <1>4, <1>5 DEF Continues

\* Over the end of a block a byte is missing.
LEMMA ExtReadLoses ==
  ASSUME NEW size \in Nat, NEW loc \in Nat, NEW count \in Nat, loc < size, count >= 1,
         NEW n, n = Clipped(size, loc, count), NEW end \in Nat, end = loc + n, ~InOneCluster(loc, n)
  PROVE  ~IsPrefix(Span(loc, end), ext_read(size, loc, count))
<1>1. n \in Nat /\ n >= 1 /\ n # 0
  BY ClippedFacts
<1>2. PICK z \in Nat : z = loc + n - 1 /\ loc <= z /\ end = z + 1
  <2>1. loc + n - 1 \in Nat /\ loc <= loc + n - 1 /\ end = (loc + n - 1) + 1
    BY <1>1
  <2>. QED  BY <2>1
<1>3. PICK c \in Nat, a \in 0 .. ClusterLen - 1, d \in Nat :
          /\ c = loc \div ClusterLen /\ a = loc % ClusterLen /\ d = z \div ClusterLen /\ c < d
          /\ loc = Begin(c) + a /\ Begin(c) \in Nat /\ Begin(c + 1) = Begin(c) + ClusterLen /\ Begin(c + 1) \in Nat
          /\ Begin(c + 1) <= Begin(d) /\ Begin(d) <= z /\ z < Begin(d + 1) /\ Begin(d) \in Nat /\ Begin(d + 1) \in Nat
          /\ Begin(d + 1) = Begin(d) + ClusterLen
  BY <1>2, LastCluster DEF InOneCluster
<1>4. PICK b \in 0 .. ClusterLen - 1 : b = end % ClusterLen
  BY ClusterOf
<1>5. ClusterLen \in Nat /\ ClusterLen >= 2
  BY LenFacts
<1>6. /\ c < d /\ loc = Begin(c) + a /\ Begin(c) \in Nat /\ Begin(c + 1) = Begin(c) + ClusterLen /\ Begin(c + 1) \in Nat
      /\ Begin(c + 1) <= Begin(d) /\ Begin(d) <= z
  BY <1>3
<1>7. PICK m \in Nat : m = d - c + 1 /\ m >= 2 /\ m >= 1
  <2>1. d - c + 1 \in Nat /\ d - c + 1 >= 2 /\ d - c + 1 >= 1
    BY <1>6
  <2>. QED  BY <2>1
<1>. DEFINE from(k) == IF k = 1 THEN a ELSE 0
            upto(k) == IF k = m THEN b ELSE ClusterLen - 1
            blocks == [k \in 1 .. m |-> Bytes(c + k - 1, from(k), upto(k))]
<1>8. ext_read(size, loc, count) = FlattenSeq(blocks)
  <2>. DEFINE block(i) == Bytes(i, IF i = c THEN a ELSE 0, IF i = d THEN b ELSE ClusterLen - 1)
  <2>1. ext_read(size, loc, count) = FlattenSeq([k \in 1 .. d - c + 1 |-> block(c + k - 1)])
    BY <1>1, <1>2, <1>3, <1>4 DEF ext_read
  <2>2. \A k \in 1 .. m : block(c + k - 1) = blocks[k]
    <3>1. \A k \in 1 .. m : (c + k - 1 = c <=> k = 1) /\ (c + k - 1 = d <=> k = m)
      BY <1>6, <1>7
    <3>. QED  BY <3>1
  <2>. HIDE DEF block
  <2>3. [k \in 1 .. d - c + 1 |-> block(c + k - 1)] = blocks
    BY <1>7, <2>2
  <2>. QED  BY <2>1, <2>3
<1>9. PICK x \in Int : x = Begin(c + 1)
  BY <1>6
<1>10. ASSUME NEW k \in 1 .. m
       PROVE  /\ blocks[k] \in Seq(Int)
              /\ k = 1 => Len(blocks[k]) = ClusterLen - 1 - a
              /\ k # 1 => \A i \in 1 .. Len(blocks[k]) : blocks[k][i] >= x
  <2>1. PICK g \in Nat : g = c + k - 1
    <3>1. c + k - 1 \in Nat
      BY <1>7
    <3>. QED  BY <3>1
  <2>2. Begin(g) \in Nat
    BY BeginFacts
  <2>3. PICK u \in Int, v \in Int, p \in Int, q \in Int :
            p = from(k) /\ q = upto(k) /\ u = Begin(g) + p /\ v = Begin(g) + q
    <3>1. from(k) \in Int /\ upto(k) \in Int
      BY <1>5
    <3>2. Begin(g) + from(k) \in Int /\ Begin(g) + upto(k) \in Int
      BY <2>2, <3>1
    <3>. HIDE DEF from, upto
    <3>. QED  BY <3>1, <3>2
  <2>4. blocks[k] = Bytes(g, p, q)
    BY <2>1, <2>3
  <2>. HIDE DEF blocks
  <2>5. blocks[k] = Span(u, v)
    <3>1. u = Begin(g) + p /\ v = Begin(g) + q
      BY <2>3
    <3>. QED  BY <2>4, <3>1, BytesAre
  <2>6. k # 1 => u >= x
    <3>1. ASSUME k # 1  PROVE u >= x
      <4>1. p = 0 /\ u = Begin(g)
        BY <2>2, <2>3, <3>1
      <4>2. c + 1 \in Nat /\ (g = c + 1 \/ c + 1 < g)
        BY <1>7, <2>1, <3>1
      <4>3. c + 1 < g => Begin(c + 1) + ClusterLen <= Begin(g)
        BY <4>2, BeginOrder
      <4>. QED  BY <1>5, <1>6, <1>9, <2>2, <4>1, <4>2, <4>3
    <3>. QED  BY <3>1
  <2>7. k = 1 => v - u = ClusterLen - 1 - a /\ u <= v
    BY <1>5, <1>7, <2>2, <2>3
  <2>8. CASE u <= v
    <3>1. Span(u, v) \in Seq(Int) /\ Len(Span(u, v)) = v - u /\ \A i \in 1 .. v - u : Span(u, v)[i] = u + i - 1
      BY <2>8, SpanFacts
    <3>2. k # 1 => \A i \in 1 .. v - u : u + i - 1 >= x
      BY <1>9, <2>6
    <3>. QED  BY <2>5, <2>7, <3>1, <3>2
  <2>9. CASE v <= u /\ ~(u <= v)
    <3>1. Span(u, v) = <<>> /\ Len(<<>>) = 0 /\ <<>> \in Seq(Int)
      BY <2>9, SpanNone
    <3>. QED  BY <2>5, <2>7, <2>9, <3>1
  <2>. QED  BY <2>8, <2>9
<1>11. blocks \in [1 .. m -> Seq(Int)]
  <2>1. blocks = [k \in 1 .. m |-> blocks[k]]
    OBVIOUS
  <2>. HIDE DEF blocks
  <2>. QED  BY <1>10, <2>1
<1>. HIDE DEF blocks
<1>12. PICK f \in [1 .. m -> Seq(Int)] :
          /\ f[1] = blocks[1] /\ \A i \in 2 .. m : f[i] = f[i - 1] \o blocks[i]
          /\ FlattenSeq(blocks) = f[m]
  BY <1>7, <1>11, FlattenIs
<1>13. PICK s \in Seq(Int) : s = blocks[1] /\ Len(s) = ClusterLen - 1 - a
  <2>1. 1 \in 1 .. m
    BY <1>7
  <2>. QED  BY <1>10, <2>1
<1>. DEFINE B == {i \in Nat : i \in 1 .. m /\ ~Continues(f[i], s, x)}
<1>14. B = {}
  <2>. SUFFICES ASSUME B # {}  PROVE FALSE
    OBVIOUS
  <2>1. PICK i \in B : \A j \in B : i <= j
    <3>1. B \in SUBSET Nat
      OBVIOUS
    <3>. HIDE DEF B
    <3>. QED  BY <3>1, LeastExists
  <2>2. i \in 1 .. m /\ i \in Nat /\ ~Continues(f[i], s, x)
    OBVIOUS
  <2>3. i # 1
    <3>1. Continues(s, s, x)
      BY DEF Continues
    <3>. QED  BY <1>12, <1>13, <2>2, <3>1
  <2>4. i \in 2 .. m /\ i - 1 \in 1 .. m /\ i - 1 \in Nat /\ ~(i <= i - 1)
    BY <1>7, <2>2, <2>3
  <2>5. Continues(f[i - 1], s, x)
    <3>1. i - 1 \notin B
      <4>. HIDE DEF B
      <4>. QED  BY <2>1, <2>4
    <3>. QED  BY <2>4, <3>1
  <2>6. blocks[i] \in Seq(Int) /\ \A j \in 1 .. Len(blocks[i]) : blocks[i][j] >= x
    BY <1>10, <2>2, <2>3
  <2>7. Continues(f[i - 1] \o blocks[i], s, x)
    BY <2>5, <2>6, ContinuesOn
  <2>. QED  BY <1>12, <2>2, <2>4, <2>7
<1>15. PICK t : t = f[m] /\ Continues(t, s, x)
  <2>1. m \in Nat /\ m \in 1 .. m
    BY <1>7
  <2>. QED  BY <1>14, <2>1
<1>. HIDE DEF B
<1>16. ASSUME IsPrefix(Span(loc, end), t)  PROVE FALSE
  <2>1. loc \in Int /\ end \in Int /\ loc <= end
    BY <1>1, <1>2
  <2>2. Span(loc, end) \in Seq(Int) /\ Len(Span(loc, end)) = end - loc
        /\ \A k \in 1 .. end - loc : Span(loc, end)[k] = loc + k - 1
    BY <2>1, SpanFacts, Zenon
  <2>3. t \in Seq(Int) /\ \A i \in 1 .. Len(t) : i > Len(s) => t[i] >= x
    BY <1>15 DEF Continues
  <2>4. PICK w \in Seq(Int) : w = Span(loc, end)
    BY <2>2
  <2>5. Len(w) <= Len(t) /\ \A i \in 1 .. Len(w) : w[i] = t[i]
    BY <1>16, <2>3, <2>4, PrefixIs
  <2>. DEFINE j == ClusterLen - a
  <2>6. j \in 1 .. end - loc /\ j > Len(s) /\ loc + j - 1 < x
    <3>1. x = Begin(c) + ClusterLen /\ loc = Begin(c) + a /\ end = z + 1
      BY <1>2, <1>6, <1>9
    <3>2. x <= z
      <4>1. Begin(d) \in Nat /\ Begin(c + 1) <= Begin(d) /\ Begin(d) <= z /\ z \in Nat
        BY <1>2, <1>3
      <4>. QED  BY <1>9, <4>1
    <3>3. a \in Int /\ 0 <= a /\ a <= ClusterLen - 1 /\ Begin(c) \in Int /\ ClusterLen \in Int
          /\ x \in Int /\ loc \in Int /\ z \in Int /\ end \in Int
      BY <1>2, <1>5, <1>6, <1>9
    <3>4. x = loc + j /\ j \in Int /\ 1 <= j
      BY <3>1, <3>3
    <3>5. Len(s) = j - 1
      BY <1>13, <3>3
    <3>. HIDE DEF j
    <3>6. loc + j - 1 < x
      BY <3>3, <3>4
    <3>7. j <= end - loc
      BY <3>1, <3>2, <3>3, <3>4
    <3>8. j > Len(s)
      BY <3>4, <3>5
    <3>9. end - loc \in Int
      BY <3>3
    <3>. QED  BY <3>4, <3>6, <3>7, <3>8, <3>9
  <2>. HIDE DEF j
  <2>7. j \in 1 .. Len(w) /\ w[j] = loc + j - 1 /\ j \in 1 .. Len(t)
    <3>1. Len(w) = end - loc /\ Len(t) \in Nat
      BY <2>2, <2>3, <2>4
    <3>2. j \in 1 .. Len(w) /\ j \in 1 .. Len(t)
      BY <2>5, <2>6, <3>1, <2>1
    <3>. QED  BY <2>2, <2>4, <2>6, <3>2
  <2>8. t[j] = loc + j - 1 /\ t[j] >= x
    BY <2>3, <2>5, <2>6, <2>7
  <2>. QED  BY <2>6, <2>8
<1>. QED  BY <1>8, <1>12, <1>15, <1>16

\* A read in one block is like one of FAT32.
LEMMA ExtReadIs ==
  ASSUME NEW size \in Nat, NEW loc \in Nat, NEW count \in Nat, loc < size, count >= 1,
         NEW n, n = Clipped(size, loc, count), NEW end \in Nat, end = loc + n, InOneCluster(loc, n)
  PROVE  ext_read(size, loc, count) = IF EndsWithCluster(loc, n) THEN <<>> ELSE Span(loc, end)
<1>1. n \in Nat /\ n >= 1 /\ n # 0
  BY ClippedFacts
<1>2. PICK c \in Nat, a \in 0 .. ClusterLen - 1 : c = loc \div ClusterLen /\ a = loc % ClusterLen
  BY ClusterOf
<1>3. PICK b : b = (loc + n) % ClusterLen
  OBVIOUS
<1>4. (loc + n - 1) \div ClusterLen = c
  BY <1>2 DEF InOneCluster
<1>5. Bytes(c, a, b) = IF EndsWithCluster(loc, n) THEN <<>> ELSE Span(loc, end)
  BY <1>1, <1>2, <1>3, OneCluster
<1>6. PICK buf \in Seq(Int) : buf = Bytes(c, a, b)
  <2>1. loc \in Int /\ end \in Int /\ loc <= end
    BY <1>1
  <2>2. Span(loc, end) \in Seq(Int)
    BY <2>1, SpanFacts, Zenon
  <2>3. <<>> \in Seq(Int)
    OBVIOUS
  <2>. QED  BY <1>5, <2>2, <2>3
<1>7. ext_read(size, loc, count) = FlattenSeq([k \in 1 .. 1 |-> buf])
  <2>. DEFINE block(i) == Bytes(i, IF i = c THEN a ELSE 0, IF i = c THEN b ELSE ClusterLen - 1)
  <2>1. ext_read(size, loc, count) = FlattenSeq([k \in 1 .. c - c + 1 |-> block(c + k - 1)])
    BY <1>1, <1>2, <1>3, <1>4 DEF ext_read
  <2>2. c - c + 1 = 1 /\ \A k \in 1 .. 1 : c + k - 1 = c
    OBVIOUS
  <2>3. block(c) = buf
    BY <1>6
  <2>. HIDE DEF block
  <2>4. [k \in 1 .. c - c + 1 |-> block(c + k - 1)] = [k \in 1 .. 1 |-> buf]
    BY <2>2, <2>3
  <2>. QED  BY <2>1, <2>4
<1>8. PICK s : s = [k \in 1 .. 1 |-> buf]
  OBVIOUS
<1>9. s \in [1 .. 1 -> Seq(Int)] /\ s[1] = buf
  BY <1>8
<1>10. FlattenSeq(s) = buf
  <2>1. PICK m \in Nat : m = 1 /\ m >= 1
    OBVIOUS
  <2>2. s \in [1 .. m -> Seq(Int)]
    BY <1>9, <2>1
  <2>3. \E f \in [1 .. m -> Seq(Int)] : f[1] = s[1] /\ FlattenSeq(s) = f[m]
    BY <2>1, <2>2, FlattenIs
  <2>. QED  BY <1>9, <2>1, <2>3
<1>. QED  BY <1>5, <1>6, <1>7, <1>8, <1>10

\* Where piece k of a file read in pieces of count bytes starts.
PieceStart(k, count) == (k - 1) * count

\* How many bytes of it there are, what is read of it, and what is kept of it.
PieceLen(size, count, p, k) == IF k = p THEN size - PieceStart(k, count) ELSE count
Piece(size, count, k) == fs_read(size, PieceStart(k, count), count).buf
PieceKept(size, count, p, k) ==
    IF Piece(size, count, k) # <<>> \/ k = 1 THEN Piece(size, count, k)
    ELSE SubSeq(Piece(size, count, k - 1), 1, PieceLen(size, count, p, k))

\* The pieces are p, and as many bytes as divide a cluster.
Cut(size, count, p) ==
    /\ size \in Nat /\ size >= 1
    /\ count \in Nat /\ count >= 1 /\ count < ClusterLen /\ ClusterLen % count = 0
    /\ p \in Nat /\ p >= 1 /\ PieceStart(p, count) < size /\ size <= PieceStart(p + 1, count)

\* Pieces follow each other.
LEMMA PieceFacts ==
  ASSUME NEW k \in Nat, NEW count \in Nat, k >= 1
  PROVE  /\ PieceStart(k, count) \in Nat /\ PieceStart(k + 1, count) \in Nat
         /\ PieceStart(k + 1, count) = PieceStart(k, count) + count /\ PieceStart(1, count) = 0
<1>1. PICK i \in Nat : k = i + 1
  <2>1. k - 1 \in Nat /\ k = (k - 1) + 1
    OBVIOUS
  <2>. QED  BY <2>1
<1>2. k - 1 = i /\ k + 1 - 1 = i + 1 /\ 1 - 1 = 0
  BY <1>1
<1>3. (i + 1) * count = i * count + count /\ i * count \in Nat /\ (i + 1) * count \in Nat /\ 0 * count = 0
  OBVIOUS
<1>. QED  BY <1>2, <1>3 DEF PieceStart

\* In their order.
LEMMA PieceOrder ==
  ASSUME NEW j \in Nat, NEW k \in Nat, NEW count \in Nat, j >= 1, j < k
  PROVE  PieceStart(j, count) + count <= PieceStart(k, count)
<1>1. PICK i \in Nat, z \in Nat : j = i + 1 /\ k = i + 1 + z + 1
  <2>1. j - 1 \in Nat /\ k - j - 1 \in Nat /\ j = (j - 1) + 1 /\ k = (j - 1) + 1 + (k - j - 1) + 1
    OBVIOUS
  <2>. QED  BY <2>1
<1>2. j - 1 = i /\ k - 1 = i + 1 + z
  BY <1>1
<1>3. (i + 1 + z) * count = i * count + count + z * count
  OBVIOUS
<1>4. z * count \in Nat /\ i * count \in Nat
  OBVIOUS
<1>. QED  BY <1>2, <1>3, <1>4 DEF PieceStart

\* The pieces of the editor and of exec.
LEMMA CutIs ==
  ASSUME NEW size \in Nat, size >= 1, NEW count \in {1, ReadLen},
         NEW p, p = (size + count - 1) \div count
  PROVE  Cut(size, count, p)
<1>1. ClusterLen \in Nat /\ ClusterLen >= 2
  BY LenFacts
<1>2. count \in Nat /\ count >= 1 /\ count < ClusterLen
  BY <1>1, FileReadAssumption
<1>3. ClusterLen % count = 0
  <2>1. CASE count = 1
    <3>1. 1 \in Nat /\ 1 >= 1
      OBVIOUS
    <3>2. ClusterLen % 1 \in 0 .. 1 - 1
      BY <1>1, <3>1, DivisionFacts, Zenon
    <3>3. 0 .. 1 - 1 = {0}
      OBVIOUS
    <3>. QED  BY <2>1, <3>2, <3>3
  <2>2. CASE count = ReadLen
    BY <2>2, FileReadAssumption
  <2>. QED  BY <2>1, <2>2
<1>4. PICK q \in Nat : q = size + count - 1
  <2>1. size + count - 1 \in Nat
    BY <1>2
  <2>. QED  BY <2>1
<1>5. p \in Nat /\ q % count \in 0 .. count - 1 /\ q = count * p + (q % count)
  <2>1. q \div count \in Nat /\ q % count \in 0 .. count - 1 /\ q = count * (q \div count) + (q % count)
    BY <1>2, DivisionFacts, Zenon
  <2>2. p = q \div count
    BY <1>4
  <2>. QED  BY <2>1, <2>2
<1>6. PICK r \in Nat : r <= count - 1 /\ q = count * p + r
  <2>1. q % count \in Nat /\ q % count <= count - 1
    BY <1>2, <1>5
  <2>. QED  BY <1>5, <2>1
<1>7. PICK s \in Nat : s = p * count
  BY <1>2, <1>5
<1>8. s = count * p
  BY <1>2, <1>5, <1>7
<1>9. size + count - 1 = s + r
  BY <1>4, <1>6, <1>8
<1>10. s # 0 /\ size <= s /\ s - count < size
  BY <1>2, <1>6, <1>9
<1>11. p # 0
  <2>1. p = 0 => s = 0
    BY <1>2, <1>7
  <2>. QED  BY <1>10, <2>1
<1>12. p >= 1
  BY <1>5, <1>11
<1>13. PieceStart(p + 1, count) = s
  <2>1. p + 1 - 1 = p
    BY <1>5
  <2>. QED  BY <1>7, <2>1 DEF PieceStart
<1>14. PieceStart(p, count) = s - count
  <2>1. PieceStart(p + 1, count) = PieceStart(p, count) + count /\ PieceStart(p, count) \in Nat
    BY <1>2, <1>5, <1>12, PieceFacts, Zenon
  <2>. QED  BY <1>2, <1>13, <2>1
<1>. QED  BY <1>2, <1>3, <1>5, <1>10, <1>12, <1>13, <1>14 DEF Cut

\* A cluster holds M pieces.
LEMMA CutCluster ==
  ASSUME NEW size, NEW count, NEW p, Cut(size, count, p)
  PROVE  \E M \in Nat : M >= 2 /\ ClusterLen = M * count /\ PieceStart(M + 1, count) = ClusterLen
<1>1. count \in Nat /\ count >= 1 /\ count < ClusterLen /\ ClusterLen % count = 0
  BY DEF Cut
<1>2. ClusterLen \in Nat
  BY LenFacts
<1>3. ClusterLen \div count \in Nat /\ ClusterLen = count * (ClusterLen \div count) + (ClusterLen % count)
  BY <1>1, <1>2, DivisionFacts, Zenon
<1>4. PICK M \in Nat : ClusterLen = count * M
  <2>1. PICK M \in Nat : M = ClusterLen \div count /\ ClusterLen = count * M + 0
    BY <1>1, <1>3
  <2>2. count * M \in Nat
    BY <1>1
  <2>. QED  BY <2>1, <2>2
<1>5. count * M = M * count
  BY <1>1
<1>6. M # 0 /\ M # 1
  <2>1. count * 0 = 0 /\ count * 1 = count
    BY <1>1
  <2>. QED  BY <1>1, <1>2, <1>4, <2>1
<1>7. M >= 2 /\ M + 1 - 1 = M
  BY <1>6
<1>. QED  BY <1>4, <1>5, <1>7 DEF PieceStart

\* A piece lies in one cluster.
LEMMA PieceInOne ==
  ASSUME NEW size, NEW count, NEW p, Cut(size, count, p), NEW k \in Nat, k >= 1, NEW n \in 1 .. count
  PROVE  InOneCluster(PieceStart(k, count), n)
<1>1. count \in Nat /\ count >= 1
  BY DEF Cut
<1>2. PICK M \in Nat : M >= 2 /\ ClusterLen = M * count
  BY CutCluster
<1>3. PICK i \in Nat : i = k - 1
  <2>1. k - 1 \in Nat
    OBVIOUS
  <2>. QED  BY <2>1
<1>4. PICK g \in Nat, r \in Nat : r <= M - 1 /\ i = M * g + r
  <2>1. M >= 1
    BY <1>2
  <2>2. i \div M \in Nat /\ i % M \in 0 .. M - 1 /\ i = M * (i \div M) + (i % M)
    BY <2>1, DivisionFacts, Zenon
  <2>3. PICK g \in Nat, r \in 0 .. M - 1 : i = M * g + r
    BY <2>2
  <2>. QED  BY <2>3
<1>5. PICK s \in Nat : s = r * count /\ s + count <= ClusterLen
  <2>1. PICK z \in Nat : M = r + 1 + z
    <3>1. M - r - 1 \in Nat /\ M = r + 1 + (M - r - 1)
      BY <1>4
    <3>. QED  BY <3>1
  <2>2. (r + 1 + z) * count = r * count + count + z * count
    BY <1>1
  <2>3. z * count \in Nat /\ r * count \in Nat
    BY <1>1
  <2>. QED  BY <1>1, <1>2, <2>1, <2>2, <2>3
<1>6. PieceStart(k, count) = Begin(g) + s
  <2>1. (M * g + r) * count = g * (M * count) + r * count
    BY <1>1
  <2>. QED  BY <1>2, <1>3, <1>4, <1>5, <2>1 DEF PieceStart, Begin
<1>7. Begin(g) \in Nat /\ ClusterLen \in Nat
  BY BeginFacts, LenFacts
<1>8. PICK loc \in Nat, z \in Nat, t \in Nat :
         loc = PieceStart(k, count) /\ loc = Begin(g) + s /\ z = loc + n - 1 /\ t = s + n - 1 /\ z = Begin(g) + t
  <2>1. Begin(g) + s \in Nat /\ (Begin(g) + s) + n - 1 \in Nat /\ s + n - 1 \in Nat
        /\ (Begin(g) + s) + n - 1 = Begin(g) + (s + n - 1)
    BY <1>1, <1>7
  <2>. QED  BY <1>6, <2>1
<1>9. s \in 0 .. ClusterLen - 1 /\ t \in 0 .. ClusterLen - 1
  BY <1>1, <1>5, <1>7, <1>8
<1>10. loc \div ClusterLen = g
  BY <1>8, <1>9, OnlyCluster, Zenon
<1>11. z \div ClusterLen = g
  BY <1>8, <1>9, OnlyCluster, Zenon
<1>. QED  BY <1>8, <1>10, <1>11 DEF InOneCluster

\* How long the pieces are.
LEMMA PieceLenIs ==
  ASSUME NEW size, NEW count, NEW p, Cut(size, count, p), NEW k \in 1 .. p
  PROVE  /\ PieceStart(k, count) \in Nat /\ PieceStart(k, count) < size
         /\ PieceLen(size, count, p, k) \in 1 .. count
         /\ PieceLen(size, count, p, k) = Clipped(size, PieceStart(k, count), count)
         /\ PieceStart(k, count) + PieceLen(size, count, p, k) <= size
         /\ k < p => PieceLen(size, count, p, k) = count
         /\ PieceStart(p, count) + PieceLen(size, count, p, p) = size
<1>1. /\ size \in Nat /\ size >= 1 /\ count \in Nat /\ count >= 1
      /\ p \in Nat /\ p >= 1 /\ PieceStart(p, count) < size /\ size <= PieceStart(p + 1, count)
  BY DEF Cut
<1>2. k \in Nat /\ k >= 1 /\ (k = p \/ k < p)
  BY <1>1
<1>3. PieceStart(k, count) \in Nat
  BY <1>1, <1>2, PieceFacts, Zenon
<1>4. PieceStart(p, count) \in Nat /\ PieceStart(p + 1, count) = PieceStart(p, count) + count
  BY <1>1, PieceFacts, Zenon
<1>5. PieceStart(p, count) + PieceLen(size, count, p, p) = size
  BY <1>1, <1>4 DEF PieceLen
<1>6. CASE k = p
  BY <1>1, <1>3, <1>4, <1>5, <1>6 DEF PieceLen, Clipped
<1>7. CASE k < p /\ k # p
  <2>1. PieceStart(k, count) + count <= PieceStart(p, count)
    BY <1>1, <1>2, <1>7, PieceOrder
  <2>2. PieceLen(size, count, p, k) = count
    BY <1>7 DEF PieceLen
  <2>3. PieceStart(k, count) + count < size
    BY <1>1, <1>3, <1>4, <2>1
  <2>4. Clipped(size, PieceStart(k, count), count) = count
    BY <1>1, <1>3, <2>3 DEF Clipped
  <2>. QED  BY <1>1, <1>3, <1>5, <2>2, <2>3, <2>4
<1>. QED  BY <1>2, <1>6, <1>7

\* A piece is read, except one that ends with a cluster.
LEMMA PieceIs ==
  ASSUME NEW size, NEW count, NEW p, Cut(size, count, p), NEW k \in 1 .. p
  PROVE  LET n == PieceLen(size, count, p, k)
         IN  Piece(size, count, k) = IF EndsWithCluster(PieceStart(k, count), n) THEN <<>>
                                     ELSE Span(PieceStart(k, count), PieceStart(k, count) + n)
<1>1. size \in Nat /\ count \in Nat /\ count >= 1 /\ p \in Nat
  BY DEF Cut
<1>2. PICK loc \in Nat, n \in 1 .. count :
         loc = PieceStart(k, count) /\ n = PieceLen(size, count, p, k) /\ loc < size /\ n = Clipped(size, loc, count)
  BY PieceLenIs
<1>3. k \in Nat /\ k >= 1
  BY <1>1
<1>4. InOneCluster(loc, n)
  BY <1>2, <1>3, PieceInOne
<1>5. PICK end \in Nat : end = loc + n
  <2>1. loc + n \in Nat
    BY <1>1
  <2>. QED  BY <2>1
<1>6. fs_read(size, loc, count).buf = IF EndsWithCluster(loc, n) THEN <<>> ELSE Span(loc, end)
  BY <1>1, <1>2, <1>4, <1>5, FatReadIs
<1>. QED  BY <1>2, <1>5, <1>6 DEF Piece

\* What a piece ends with: the end of a cluster or not.
PieceEnds(size, count, p, k) == EndsWithCluster(PieceStart(k, count), PieceLen(size, count, p, k))

\* A read that ends with a cluster does not start with one.
LEMMA NotTwice ==
  ASSUME NEW loc \in Nat, NEW n \in Nat, n >= 1, n < ClusterLen, EndsWithCluster(loc, n)
  PROVE  loc % ClusterLen # 0
<1>. SUFFICES ASSUME loc % ClusterLen = 0  PROVE FALSE
  OBVIOUS
<1>1. PICK c \in Nat : loc = Begin(c) + 0
  BY ClusterOf
<1>2. Begin(c) \in Nat /\ ClusterLen \in Nat
  BY BeginFacts, LenFacts
<1>3. PICK q \in Nat : q = loc + n /\ q = Begin(c) + n
  <2>1. loc + n \in Nat /\ loc + n = Begin(c) + n
    BY <1>1, <1>2
  <2>. QED  BY <2>1
<1>4. n \in 0 .. ClusterLen - 1
  BY <1>2
<1>5. q % ClusterLen = n
  BY <1>3, <1>4, OnlyCluster, Zenon
<1>. QED  BY <1>3, <1>5 DEF EndsWithCluster

\* The first bytes of some.
LEMMA SpanCut ==
  ASSUME NEW x \in Int, NEW n \in Nat, NEW y \in Int, x + n <= y
  PROVE  SubSeq(Span(x, y), 1, n) = Span(x, x + n)
<1>1. PICK z \in Int : z = x + n /\ x <= z /\ z - x = n /\ x <= y /\ z <= y
  <2>1. x + n \in Int /\ x <= x + n /\ (x + n) - x = n /\ x <= y
    OBVIOUS
  <2>. QED  BY <2>1
<1>2. PICK s \in Seq(Int) : s = Span(x, y) /\ Len(s) = y - x /\ \A k \in 1 .. y - x : s[k] = x + k - 1
  BY <1>1, SpanFacts
<1>3. PICK t \in Seq(Int) : t = Span(x, z) /\ Len(t) = n /\ \A k \in 1 .. n : t[k] = x + k - 1
  <2>1. Span(x, z) \in Seq(Int) /\ Len(Span(x, z)) = z - x /\ \A k \in 1 .. z - x : Span(x, z)[k] = x + k - 1
    BY <1>1, SpanFacts, Zenon
  <2>. QED  BY <1>1, <2>1
<1>4. n <= y - x
  BY <1>1
<1>5. PICK u : u = SubSeq(s, 1, n)
  OBVIOUS
<1>6. u \in Seq(Int) /\ Len(u) = n /\ \A k \in 1 .. n : u[k] = s[k]
  BY <1>2, <1>4, <1>5
<1>7. \A k \in 1 .. n : u[k] = t[k]
  BY <1>2, <1>3, <1>4, <1>6
<1>8. u = t
  BY <1>3, <1>6, <1>7, SeqEqual
<1>. QED  BY <1>1, <1>2, <1>3, <1>5, <1>8

\* What is kept of a piece: the piece, or the beginning of the one before.
LEMMA PieceKeptIs ==
  ASSUME NEW size, NEW count, NEW p, Cut(size, count, p), NEW k \in 1 .. p
  PROVE  LET n == PieceLen(size, count, p, k)
         IN  /\ PieceEnds(size, count, p, k) => k >= 2
             /\ PieceKept(size, count, p, k) =
                   IF PieceEnds(size, count, p, k) THEN Span(PieceStart(k - 1, count), PieceStart(k - 1, count) + n)
                   ELSE Span(PieceStart(k, count), PieceStart(k, count) + n)
<1>1. size \in Nat /\ count \in Nat /\ count >= 1 /\ count < ClusterLen /\ p \in Nat /\ ClusterLen \in Nat
  BY LenFacts DEF Cut
<1>2. k \in Nat /\ k >= 1
  BY <1>1
<1>3. PICK loc \in Nat, n \in 1 .. count : loc = PieceStart(k, count) /\ n = PieceLen(size, count, p, k)
  BY PieceLenIs
<1>4. Piece(size, count, k) = IF EndsWithCluster(loc, n) THEN <<>> ELSE Span(loc, loc + n)
  BY <1>3, PieceIs
<1>5. n \in Nat /\ n >= 1 /\ n < ClusterLen
  BY <1>1
<1>6. CASE ~PieceEnds(size, count, p, k)
  <2>1. Piece(size, count, k) = Span(loc, loc + n)
    BY <1>3, <1>4, <1>6 DEF PieceEnds
  <2>2. loc \in Int /\ loc + n \in Int /\ loc <= loc + n /\ (loc + n) - loc = n
    BY <1>5
  <2>3. Len(Span(loc, loc + n)) = (loc + n) - loc
    BY <2>2, SpanFacts, Zenon
  <2>4. Span(loc, loc + n) # <<>>
    BY <1>5, <2>2, <2>3
  <2>. QED  BY <1>3, <1>6, <2>1, <2>4 DEF PieceKept
<1>7. CASE PieceEnds(size, count, p, k)
  <2>1. EndsWithCluster(loc, n)
    BY <1>3, <1>7 DEF PieceEnds
  <2>2. loc % ClusterLen # 0
    BY <1>5, <2>1, NotTwice, Zenon
  <2>3. k # 1
    <3>1. k = 1 => loc = 0
      BY <1>1, <1>2, <1>3, PieceFacts
    <3>2. 0 % ClusterLen = 0
      <4>1. 0 \in Nat /\ 0 \in 0 .. ClusterLen - 1 /\ 0 = Begin(0) + 0
        BY LenFacts
      <4>. QED  BY <4>1, OnlyCluster, Zenon
    <3>. QED  BY <2>2, <3>1, <3>2
  <2>4. PICK j \in Nat : j = k - 1 /\ j >= 1 /\ k = j + 1 /\ j \in 1 .. p /\ j < p
    <3>1. k - 1 \in Nat /\ k - 1 >= 1 /\ k = (k - 1) + 1 /\ k - 1 \in 1 .. p /\ k - 1 < p
      BY <1>1, <1>2, <2>3
    <3>. QED  BY <3>1
  <2>5. PICK x \in Nat : x = PieceStart(j, count) /\ loc = x + count
    <3>1. PieceStart(j, count) \in Nat /\ PieceStart(j + 1, count) = PieceStart(j, count) + count
      BY <1>1, <2>4, PieceFacts, Zenon
    <3>. QED  BY <1>3, <2>4, <3>1
  <2>6. PieceLen(size, count, p, j) = count
    BY <2>4, PieceLenIs
  <2>7. ~EndsWithCluster(x, count)
    BY <2>2, <2>5 DEF EndsWithCluster
  <2>8. Piece(size, count, j) = Span(x, x + count)
    BY <2>4, <2>5, <2>6, <2>7, PieceIs
  <2>9. SubSeq(Span(x, x + count), 1, n) = Span(x, x + n)
    <3>1. x \in Int /\ x + count \in Int /\ x + n <= x + count
      BY <1>1, <1>5
    <3>. QED  BY <1>5, <3>1, SpanCut
  <2>10. PieceKept(size, count, p, k) = SubSeq(Piece(size, count, j), 1, n)
    BY <1>3, <1>4, <2>1, <2>3, <2>4 DEF PieceKept
  <2>11. k >= 2
    BY <1>2, <2>3
  <2>. QED  BY <1>3, <1>7, <2>4, <2>5, <2>8, <2>9, <2>10, <2>11
<1>. QED  BY <1>6, <1>7

\* It is as long as the piece and starts where that does, or before.
LEMMA PieceKeptFacts ==
  ASSUME NEW size, NEW count, NEW p, Cut(size, count, p), NEW k \in 1 .. p
  PROVE  /\ PieceKept(size, count, p, k) \in Seq(Int)
         /\ Len(PieceKept(size, count, p, k)) = PieceLen(size, count, p, k)
         /\ PieceEnds(size, count, p, k) => PieceKept(size, count, p, k)[1] < PieceStart(k, count)
<1>1. size \in Nat /\ count \in Nat /\ count >= 1 /\ p \in Nat
  BY DEF Cut
<1>2. k \in Nat /\ k >= 1
  BY <1>1
<1>3. PICK n \in 1 .. count, loc \in Nat : n = PieceLen(size, count, p, k) /\ loc = PieceStart(k, count)
  BY PieceLenIs
<1>4. PICK x \in Nat : /\ PieceKept(size, count, p, k) = Span(x, x + n)
                       /\ PieceEnds(size, count, p, k) => x < loc
  <2>1. CASE PieceEnds(size, count, p, k)
    <3>1. k >= 2 /\ PieceKept(size, count, p, k) = Span(PieceStart(k - 1, count), PieceStart(k - 1, count) + n)
      BY <1>3, <2>1, PieceKeptIs
    <3>2. PICK j \in Nat : j = k - 1 /\ j >= 1 /\ k = j + 1
      <4>1. k - 1 \in Nat /\ k - 1 >= 1 /\ k = (k - 1) + 1
        BY <1>2, <3>1
      <4>. QED  BY <4>1
    <3>3. PieceStart(j, count) \in Nat /\ PieceStart(j + 1, count) = PieceStart(j, count) + count
      BY <1>1, <3>2, PieceFacts, Zenon
    <3>4. PieceStart(j, count) < loc
      BY <1>1, <1>3, <3>2, <3>3
    <3>. QED  BY <3>1, <3>2, <3>3, <3>4
  <2>2. CASE ~PieceEnds(size, count, p, k)
    BY <1>3, <2>2, PieceKeptIs
  <2>. QED  BY <2>1, <2>2
<1>5. PICK y \in Int : y = x + n /\ x <= y /\ y - x = n /\ n >= 1 /\ x \in Int
  <2>1. x + n \in Int /\ x <= x + n /\ (x + n) - x = n /\ n >= 1 /\ x \in Int
    BY <1>1
  <2>. QED  BY <2>1
<1>6. Span(x, y) \in Seq(Int) /\ Len(Span(x, y)) = y - x /\ \A i \in 1 .. y - x : Span(x, y)[i] = x + i - 1
  BY <1>5, SpanFacts, Zenon
<1>7. Span(x, y)[1] = x
  <2>1. 1 \in 1 .. y - x /\ x + 1 - 1 = x
    BY <1>5
  <2>. QED  BY <1>6, <2>1
<1>. QED  BY <1>3, <1>4, <1>5, <1>6, <1>7

\* What is kept of the pieces up to each.
Loads(f, size, count, p) ==
    /\ f \in [1 .. p -> Seq(Int)] /\ f[1] = PieceKept(size, count, p, 1)
    /\ \A i \in 2 .. p : f[i] = f[i - 1] \o PieceKept(size, count, p, i)

\* The file that is read is what is kept of all.
LEMMA LoadedIs ==
  ASSUME NEW size, NEW count, NEW p, Cut(size, count, p), p = (size + count - 1) \div count
  PROVE  \E f : Loads(f, size, count, p) /\ Loaded(size, count) = f[p]
<1>1. p \in Nat /\ p >= 1
  BY DEF Cut
<1>2. PICK s : s = [k \in 1 .. p |-> PieceKept(size, count, p, k)]
  OBVIOUS
<1>3. s \in [1 .. p -> Seq(Int)]
  BY <1>2, PieceKeptFacts
<1>4. Loaded(size, count) = FlattenSeq(s)
  <2>1. \A k \in 1 .. p : PieceKept(size, count, p, k) =
           IF fs_read(size, (k - 1) * count, count).buf # <<>> \/ k = 1
           THEN fs_read(size, (k - 1) * count, count).buf
           ELSE SubSeq(fs_read(size, (k - 1 - 1) * count, count).buf, 1,
                       IF k = p THEN size - (k - 1) * count ELSE count)
    BY DEF PieceKept, Piece, PieceLen, PieceStart
  <2>2. Loaded(size, count) = FlattenSeq([k \in 1 .. p |->
           IF fs_read(size, (k - 1) * count, count).buf # <<>> \/ k = 1
           THEN fs_read(size, (k - 1) * count, count).buf
           ELSE SubSeq(fs_read(size, (k - 1 - 1) * count, count).buf, 1,
                       IF k = p THEN size - (k - 1) * count ELSE count)])
    BY DEF Loaded
  <2>3. [k \in 1 .. p |->
           IF fs_read(size, (k - 1) * count, count).buf # <<>> \/ k = 1
           THEN fs_read(size, (k - 1) * count, count).buf
           ELSE SubSeq(fs_read(size, (k - 1 - 1) * count, count).buf, 1,
                       IF k = p THEN size - (k - 1) * count ELSE count)]
        = [k \in 1 .. p |-> PieceKept(size, count, p, k)]
    BY <2>1, Zenon
  <2>. QED  BY <1>2, <2>2, <2>3
<1>5. PICK f \in [1 .. p -> Seq(Int)] :
         /\ f[1] = s[1] /\ \A i \in 2 .. p : f[i] = f[i - 1] \o s[i]
         /\ FlattenSeq(s) = f[p]
  BY <1>1, <1>3, FlattenIs
<1>6. \A k \in 1 .. p : s[k] = PieceKept(size, count, p, k)
  BY <1>2
<1>7. 1 \in 1 .. p /\ \A i \in 2 .. p : i \in 1 .. p
  BY <1>1
<1>. QED  BY <1>4, <1>5, <1>6, <1>7 DEF Loads

\* While no piece ends with a cluster, everything is kept.
LEMMA LoadsAll ==
  ASSUME NEW size, NEW count, NEW p, Cut(size, count, p), NEW f, Loads(f, size, count, p),
         NEW K \in 1 .. p, \A k \in 1 .. K : ~PieceEnds(size, count, p, k)
  PROVE  f[K] = Span(0, PieceStart(K, count) + PieceLen(size, count, p, K))
<1>1. size \in Nat /\ count \in Nat /\ count >= 1 /\ p \in Nat /\ p >= 1 /\ K \in Nat
  BY DEF Cut
<1>. DEFINE B == {i \in Nat : i \in 1 .. K /\ f[i] # Span(0, PieceStart(i, count) + PieceLen(size, count, p, i))}
<1>2. B = {}
  <2>. SUFFICES ASSUME B # {}  PROVE FALSE
    OBVIOUS
  <2>1. PICK i \in B : \A j \in B : i <= j
    <3>1. B \in SUBSET Nat
      OBVIOUS
    <3>. HIDE DEF B
    <3>. QED  BY <3>1, LeastExists
  <2>2. /\ i \in 1 .. K /\ i \in Nat /\ i >= 1 /\ i \in 1 .. p
        /\ f[i] # Span(0, PieceStart(i, count) + PieceLen(size, count, p, i))
    BY <1>1
  <2>3. PICK loc \in Nat, n \in 1 .. count : loc = PieceStart(i, count) /\ n = PieceLen(size, count, p, i)
    BY <2>2, PieceLenIs
  <2>4. PieceKept(size, count, p, i) = Span(loc, loc + n)
    BY <2>2, <2>3, PieceKeptIs
  <2>5. i # 1
    <3>1. ASSUME i = 1  PROVE FALSE
      <4>1. loc = 0
        BY <1>1, <2>2, <2>3, <3>1, PieceFacts
      <4>2. f[1] = PieceKept(size, count, p, 1)
        BY DEF Loads
      <4>. QED  BY <2>2, <2>3, <2>4, <3>1, <4>1, <4>2
    <3>. QED  BY <3>1
  <2>6. PICK j \in Nat : j = i - 1 /\ j >= 1 /\ i = j + 1 /\ j \in 1 .. p /\ j < p /\ j \in 1 .. K /\ ~(i <= j)
    <3>1. i - 1 \in Nat /\ i - 1 >= 1 /\ i = (i - 1) + 1 /\ i - 1 \in 1 .. p /\ i - 1 < p
          /\ i - 1 \in 1 .. K /\ ~(i <= i - 1)
      BY <1>1, <2>2, <2>5
    <3>. QED  BY <3>1
  <2>7. f[j] = Span(0, PieceStart(j, count) + PieceLen(size, count, p, j))
    <3>1. j \notin B
      <4>. HIDE DEF B
      <4>. QED  BY <2>1, <2>6
    <3>. QED  BY <2>6, <3>1
  <2>8. PieceStart(j, count) + PieceLen(size, count, p, j) = loc
    <3>1. PieceLen(size, count, p, j) = count
      BY <2>6, PieceLenIs
    <3>2. PieceStart(j + 1, count) = PieceStart(j, count) + count
      BY <1>1, <2>6, PieceFacts, Zenon
    <3>. QED  BY <2>3, <2>6, <3>1, <3>2
  <2>9. f[i] = f[j] \o PieceKept(size, count, p, i)
    <3>1. i \in 2 .. p
      BY <2>2, <2>5
    <3>. QED  BY <2>6, <3>1 DEF Loads
  <2>10. Span(0, loc) \o Span(loc, loc + n) = Span(0, loc + n)
    <3>1. 0 \in Int /\ loc \in Int /\ loc + n \in Int /\ 0 <= loc /\ loc <= loc + n
      BY <1>1
    <3>. QED  BY <3>1, SpanJoined, Zenon
  <2>. QED  BY <2>2, <2>3, <2>4, <2>7, <2>8, <2>9, <2>10
<1>. QED
  <2>1. K \in 1 .. K
    BY <1>1
  <2>. QED  BY <1>1, <1>2, <2>1

\* A file that is shorter than a cluster is read as it is.
LEMMA LoadedSmall ==
  ASSUME NEW size, NEW count, NEW p, Cut(size, count, p), NEW f, Loads(f, size, count, p),
         size < ClusterLen
  PROVE  f[p] = Part(0, size)
<1>1. size \in Nat /\ count \in Nat /\ count >= 1 /\ p \in Nat /\ p >= 1 /\ ClusterLen \in Nat
  BY LenFacts DEF Cut
<1>2. ASSUME NEW k \in 1 .. p  PROVE ~PieceEnds(size, count, p, k)
  <2>1. PICK loc \in Nat, n \in 1 .. count : /\ loc = PieceStart(k, count) /\ n = PieceLen(size, count, p, k)
                                             /\ loc + n <= size
    BY PieceLenIs
  <2>2. PICK q \in Nat : q = loc + n /\ q >= 1 /\ q \in 0 .. ClusterLen - 1
    <3>1. loc + n \in Nat /\ loc + n >= 1 /\ loc + n \in 0 .. ClusterLen - 1
      BY <1>1, <2>1
    <3>. QED  BY <3>1
  <2>3. q = Begin(0) + q
    <3>1. Begin(0) = 0
      BY LenFacts
    <3>. QED  BY <2>2, <3>1
  <2>4. q % ClusterLen = q
    <3>1. 0 \in Nat
      OBVIOUS
    <3>. QED  BY <2>2, <2>3, <3>1, OnlyCluster, Zenon
  <2>5. q # 0
    BY <2>2
  <2>. QED  BY <2>1, <2>2, <2>4, <2>5 DEF PieceEnds, EndsWithCluster
<1>3. p \in 1 .. p
  BY <1>1
<1>4. f[p] = Span(0, PieceStart(p, count) + PieceLen(size, count, p, p))
  BY <1>2, <1>3, LoadsAll
<1>5. PieceStart(p, count) + PieceLen(size, count, p, p) = size
  BY <1>3, PieceLenIs
<1>. QED  BY <1>1, <1>4, <1>5, PartIs

\* What is kept stays in its place.
LEMMA LoadsOn ==
  ASSUME NEW size, NEW count, NEW p, Cut(size, count, p), NEW f, Loads(f, size, count, p),
         NEW M \in 1 .. p, NEW j \in 1 .. Len(f[M])
  PROVE  j \in 1 .. Len(f[p]) /\ f[p][j] = f[M][j]
<1>1. p \in Nat /\ p >= 1 /\ M \in Nat /\ f \in [1 .. p -> Seq(Int)]
  BY DEF Cut, Loads
<1>2. PICK e : e = f[M][j]
  OBVIOUS
<1>. DEFINE B == {i \in Nat : i \in M .. p /\ ~(j \in 1 .. Len(f[i]) /\ f[i][j] = e)}
<1>3. B = {}
  <2>. SUFFICES ASSUME B # {}  PROVE FALSE
    OBVIOUS
  <2>1. PICK i \in B : \A k \in B : i <= k
    <3>1. B \in SUBSET Nat
      OBVIOUS
    <3>. HIDE DEF B
    <3>. QED  BY <3>1, LeastExists
  <2>2. i \in M .. p /\ i \in Nat /\ ~(j \in 1 .. Len(f[i]) /\ f[i][j] = e)
    BY <1>1
  <2>3. i # M
    BY <1>2, <2>2
  <2>4. i \in 2 .. p /\ i - 1 \in M .. p /\ i - 1 \in Nat /\ ~(i <= i - 1) /\ i - 1 \in 1 .. p /\ i \in 1 .. p
    BY <1>1, <2>2, <2>3
  <2>5. j \in 1 .. Len(f[i - 1]) /\ f[i - 1][j] = e
    <3>1. i - 1 \notin B
      <4>. HIDE DEF B
      <4>. QED  BY <2>1, <2>4
    <3>. QED  BY <2>4, <3>1
  <2>6. PICK s \in Seq(Int), t \in Seq(Int) : s = f[i - 1] /\ t = PieceKept(size, count, p, i)
    <3>1. f[i - 1] \in Seq(Int)
      BY <1>1, <2>4
    <3>2. PieceKept(size, count, p, i) \in Seq(Int)
      BY <2>4, PieceKeptFacts
    <3>. QED  BY <3>1, <3>2
  <2>7. f[i] = s \o t
    BY <2>4, <2>6 DEF Loads
  <2>8. j \in 1 .. Len(s \o t) /\ (s \o t)[j] = s[j]
    BY <2>5, <2>6, ConcatProperties
  <2>. QED  BY <2>2, <2>5, <2>6, <2>7, <2>8
<1>4. p \in M .. p
  BY <1>1
<1>. QED  BY <1>1, <1>2, <1>3, <1>4

\* In one that is not, the last piece of the first cluster is not what was there.
LEMMA LoadedLarge ==
  ASSUME NEW size, NEW count, NEW p, Cut(size, count, p), NEW f, Loads(f, size, count, p),
         ClusterLen <= size
  PROVE  f[p] # Part(0, size)
<1>1. /\ size \in Nat /\ count \in Nat /\ count >= 1 /\ count < ClusterLen /\ ClusterLen \in Nat
      /\ p \in Nat /\ p >= 1 /\ size <= PieceStart(p + 1, count)
  BY LenFacts DEF Cut
<1>2. PICK M \in Nat : M >= 2 /\ PieceStart(M + 1, count) = ClusterLen
  BY CutCluster
<1>3. PICK loc \in Nat : loc = PieceStart(M, count) /\ loc + count = ClusterLen
  <2>1. M >= 1
    BY <1>2
  <2>2. PieceStart(M, count) \in Nat /\ PieceStart(M + 1, count) = PieceStart(M, count) + count
    BY <1>1, <2>1, PieceFacts, Zenon
  <2>. QED  BY <1>2, <2>2
<1>4. M <= p
  <2>. SUFFICES ASSUME p < M  PROVE FALSE
    BY <1>1
  <2>1. PICK q \in Nat : q = p + 1 /\ q >= 1 /\ (q = M \/ q < M)
    <3>1. p + 1 \in Nat /\ p + 1 >= 1 /\ (p + 1 = M \/ p + 1 < M)
      BY <1>1
    <3>. QED  BY <3>1
  <2>2. PieceStart(q, count) \in Nat
    BY <1>1, <2>1, PieceFacts, Zenon
  <2>3. q < M => PieceStart(q, count) + count <= PieceStart(M, count)
    BY <1>1, <2>1, PieceOrder
  <2>4. PieceStart(q, count) <= loc
    BY <1>1, <1>3, <2>1, <2>2, <2>3
  <2>5. size <= loc
    BY <1>1, <2>1, <2>2, <2>4
  <2>. QED  BY <1>1, <1>3, <2>5
<1>5. PICK j \in Nat : j = M - 1 /\ j >= 1 /\ M = j + 1 /\ j < M /\ j \in 1 .. p /\ M \in 1 .. p /\ j < p /\ M \in 2 .. p
  <2>1. /\ M - 1 \in Nat /\ M - 1 >= 1 /\ M = (M - 1) + 1 /\ M - 1 < M /\ M - 1 \in 1 .. p /\ M \in 1 .. p
        /\ M - 1 < p /\ M \in 2 .. p
    BY <1>1, <1>2, <1>4
  <2>. QED  BY <2>1
<1>6. PieceLen(size, count, p, M) = count
  <2>1. /\ PieceLen(size, count, p, M) \in 1 .. count
        /\ M < p => PieceLen(size, count, p, M) = count
        /\ PieceStart(p, count) + PieceLen(size, count, p, p) = size
    <3>1. M \in 1 .. p
      BY <1>5
    <3>2. PieceLen(size, count, p, M) \in 1 .. count
      BY <3>1, PieceLenIs
    <3>3. M < p => PieceLen(size, count, p, M) = count
      BY <3>1, PieceLenIs
    <3>4. PieceStart(p, count) + PieceLen(size, count, p, p) = size
      BY <3>1, PieceLenIs
    <3>. QED  BY <3>2, <3>3, <3>4
  <2>2. CASE M < p
    BY <2>1, <2>2
  <2>3. CASE M = p
    <3>1. loc + PieceLen(size, count, p, M) = size
      BY <1>3, <2>1, <2>3
    <3>. QED  BY <1>1, <1>3, <2>1, <3>1
  <2>. QED  BY <1>1, <1>4, <2>2, <2>3
<1>7. PieceEnds(size, count, p, M)
  <2>1. ClusterLen = Begin(0 + 1) + 0
    <3>1. 0 \in Nat
      OBVIOUS
    <3>2. Begin(0 + 1) = Begin(0) + ClusterLen /\ Begin(0) = 0
      BY <3>1, BeginFacts, LenFacts
    <3>. QED  BY <1>1, <3>2
  <2>2. 0 + 1 \in Nat /\ 0 \in 0 .. ClusterLen - 1
    BY LenFacts
  <2>3. ClusterLen % ClusterLen = 0
    BY <1>1, <2>1, <2>2, OnlyCluster, Zenon
  <2>. QED  BY <1>3, <1>6, <2>3 DEF PieceEnds, EndsWithCluster
<1>8. ASSUME NEW k \in 1 .. j  PROVE ~PieceEnds(size, count, p, k)
  <2>1. k \in Nat /\ k >= 1 /\ k < M /\ k \in 1 .. p /\ k < p
    BY <1>1, <1>5
  <2>2. PieceStart(k, count) \in Nat /\ PieceLen(size, count, p, k) = count
    BY <2>1, PieceLenIs
  <2>3. PieceStart(k, count) + count <= loc
    BY <1>1, <1>3, <2>1, PieceOrder
  <2>4. PICK q \in Nat : q = PieceStart(k, count) + count /\ q >= 1 /\ q \in 0 .. ClusterLen - 1
    <3>1. PieceStart(k, count) + count \in Nat /\ PieceStart(k, count) + count >= 1
          /\ PieceStart(k, count) + count \in 0 .. ClusterLen - 1
      BY <1>1, <1>3, <2>2, <2>3
    <3>. QED  BY <3>1
  <2>5. q = Begin(0) + q
    <3>1. Begin(0) = 0
      BY LenFacts
    <3>. QED  BY <2>4, <3>1
  <2>6. q % ClusterLen = q
    <3>1. 0 \in Nat
      OBVIOUS
    <3>. QED  BY <2>4, <2>5, <3>1, OnlyCluster, Zenon
  <2>7. q # 0
    BY <2>4
  <2>. QED  BY <2>2, <2>4, <2>6, <2>7 DEF PieceEnds, EndsWithCluster
<1>9. f[j] = Span(0, loc)
  <2>1. f[j] = Span(0, PieceStart(j, count) + PieceLen(size, count, p, j))
    BY <1>5, <1>8, LoadsAll
  <2>2. PieceLen(size, count, p, j) = count
    BY <1>5, PieceLenIs
  <2>3. PieceStart(j + 1, count) = PieceStart(j, count) + count
    BY <1>1, <1>5, PieceFacts, Zenon
  <2>. QED  BY <1>3, <1>5, <2>1, <2>2, <2>3
<1>10. PICK s \in Seq(Int), t \in Seq(Int), i \in Nat :
          /\ s = f[j] /\ t = PieceKept(size, count, p, M) /\ Len(s) = loc /\ i = loc + 1
          /\ Len(t) = count /\ t[1] < loc
  <2>1. Span(0, loc) \in Seq(Int) /\ Len(Span(0, loc)) = loc - 0
    <3>1. 0 \in Int /\ loc \in Int /\ 0 <= loc
      OBVIOUS
    <3>. QED  BY <3>1, SpanFacts, Zenon
  <2>2. PieceKept(size, count, p, M) \in Seq(Int)
        /\ Len(PieceKept(size, count, p, M)) = PieceLen(size, count, p, M)
        /\ PieceKept(size, count, p, M)[1] < PieceStart(M, count)
    BY <1>5, <1>7, PieceKeptFacts
  <2>3. loc - 0 = loc /\ loc + 1 \in Nat
    OBVIOUS
  <2>. QED  BY <1>3, <1>6, <1>9, <2>1, <2>2, <2>3
<1>11. f[M] = s \o t
  BY <1>5, <1>10 DEF Loads
<1>12. i \in 1 .. Len(f[M]) /\ f[M][i] = t[1]
  <2>1. Len(s \o t) = Len(s) + Len(t) /\ \A k \in 1 .. Len(s) + Len(t) : (s \o t)[k] = IF k <= Len(s) THEN s[k] ELSE t[k - Len(s)]
    BY ConcatProperties
  <2>2. i \in 1 .. Len(s) + Len(t) /\ ~(i <= Len(s)) /\ i - Len(s) = 1
    BY <1>1, <1>10
  <2>. QED  BY <1>11, <2>1, <2>2
<1>13. f[p][i] = t[1]
  BY <1>5, <1>12, LoadsOn
<1>14. Part(0, size)[i] = loc
  <2>1. 0 \in Int /\ size \in Int /\ 0 <= size
    BY <1>1
  <2>2. \A k \in 1 .. size - 0 : Span(0, size)[k] = 0 + k - 1
    BY <2>1, SpanFacts, Zenon
  <2>3. i \in 1 .. size - 0 /\ 0 + i - 1 = loc
    BY <1>1, <1>3, <1>10
  <2>4. Part(0, size) = Span(0, size)
    BY <2>1, PartIs
  <2>. QED  BY <2>2, <2>3, <2>4
<1>15. ~(loc < loc)
  OBVIOUS
<1>. QED  BY <1>10, <1>13, <1>14, <1>15

\* The editor and exec read files right that are shorter than a cluster, and no others.
LEMMA LoadedRight ==
  ASSUME NEW size \in Nat, size >= 1, NEW count \in {1, ReadLen}
  PROVE  (Loaded(size, count) = Part(0, size)) <=> (size < ClusterLen)
<1>1. PICK p : p = (size + count - 1) \div count
  OBVIOUS
<1>2. Cut(size, count, p)
  BY <1>1, CutIs, Zenon
<1>3. PICK f : Loads(f, size, count, p) /\ Loaded(size, count) = f[p]
  BY <1>1, <1>2, LoadedIs
<1>4. size < ClusterLen \/ ClusterLen <= size
  BY LenFacts
<1>5. ~(size < ClusterLen /\ ClusterLen <= size)
  BY LenFacts
<1>. QED  BY <1>2, <1>3, <1>4, <1>5, LoadedSmall, LoadedLarge, Zenon

\* What was read and what was asked for.
LEMMA SpanAsked ==
  ASSUME NEW loc \in Nat, NEW n \in Nat, n >= 1
  PROVE  /\ Part(loc, loc + n) = Span(loc, loc + n)
         /\ IsPrefix(Span(loc, loc + n), Span(loc, loc + n))
         /\ ~IsPrefix(Span(loc, loc + n), <<>>)
<1>1. PICK end \in Int : end = loc + n /\ loc <= end /\ end - loc = n /\ loc \in Int
  <2>1. loc + n \in Int /\ loc <= loc + n /\ (loc + n) - loc = n /\ loc \in Int
    OBVIOUS
  <2>. QED  BY <2>1
<1>2. PICK s \in Seq(Int) : s = Span(loc, end) /\ Len(s) = n
  <2>1. Span(loc, end) \in Seq(Int) /\ Len(Span(loc, end)) = end - loc
    BY <1>1, SpanFacts, Zenon
  <2>. QED  BY <1>1, <2>1
<1>3. Part(loc, end) = Span(loc, end)
  BY <1>1, PartIs, Zenon
<1>4. IsPrefix(s, s)
  <2>1. Len(s) <= Len(s)
    BY <1>2
  <2>. QED  BY <2>1, PrefixIs, Zenon
<1>5. ~IsPrefix(s, <<>>)
  <2>1. <<>> \in Seq(Int) /\ Len(<<>>) = 0 /\ ~(n <= 0)
    OBVIOUS
  <2>. QED  BY <1>2, <2>1, PrefixIs
<1>. QED  BY <1>1, <1>2, <1>3, <1>4, <1>5

\* A request, and how much of it there is.
LEMMA RequestFacts ==
  ASSUME NEW r \in Requests
  PROVE  \E size \in Nat, loc \in Nat, count \in Nat, n \in Nat, end \in Nat :
            /\ size = r[1] /\ loc = r[2] /\ count = r[3] /\ loc < size /\ count >= 1
            /\ n = Clipped(size, loc, count) /\ n >= 1 /\ end = loc + n
<1>1. /\ r[1] \in Nat /\ r[2] \in Nat /\ r[3] \in Nat /\ r[2] < r[1] /\ r[3] >= 1
  BY FileReadAssumption DEF Requests
<1>2. PICK size \in Nat, loc \in Nat, count \in Nat :
         size = r[1] /\ loc = r[2] /\ count = r[3] /\ loc < size /\ count >= 1
  BY <1>1
<1>3. PICK n \in Nat : n = Clipped(size, loc, count) /\ n >= 1
  BY <1>2, ClippedFacts
<1>4. loc + n \in Nat
  OBVIOUS
<1>. QED  BY <1>2, <1>3, <1>4

\* Reads of FAT32 are right, except those that end with the cluster they start in.
LEMMA FatIsRight == FatReadsRight
<1>1. ASSUME NEW r \in Requests
      PROVE  LET n == Clipped(r[1], r[2], r[3])
             IN  ReadsAs(fs_read(r[1], r[2], r[3]).buf, r[2], n)
                     <=> ~(InOneCluster(r[2], n) /\ EndsWithCluster(r[2], n))
  <2>1. PICK size \in Nat, loc \in Nat, count \in Nat, n \in Nat, end \in Nat :
            /\ size = r[1] /\ loc = r[2] /\ count = r[3] /\ loc < size /\ count >= 1
            /\ n = Clipped(size, loc, count) /\ n >= 1 /\ end = loc + n
    BY RequestFacts
  <2>2. PICK buf : buf = fs_read(size, loc, count).buf
    OBVIOUS
  <2>3. InOneCluster(loc, n) => buf = IF EndsWithCluster(loc, n) THEN <<>> ELSE Span(loc, end)
    BY <2>1, <2>2, FatReadIs
  <2>4. ~InOneCluster(loc, n) => IsPrefix(Span(loc, end), buf)
    BY <2>1, <2>2, FatReadIs
  <2>5. /\ Part(loc, end) = Span(loc, end) /\ IsPrefix(Span(loc, end), Span(loc, end))
        /\ ~IsPrefix(Span(loc, end), <<>>)
    BY <2>1, SpanAsked
  <2>6. IsPrefix(Part(loc, end), buf) <=> ~(InOneCluster(loc, n) /\ EndsWithCluster(loc, n))
    BY <2>3, <2>4, <2>5, Zenon
  <2>. QED  BY <2>1, <2>2, <2>6 DEF ReadsAs
<1>2. ASSUME NEW size \in 1 .. MaxLen, NEW count \in {1, ReadLen}
      PROVE  (Loaded(size, count) = Part(0, size)) <=> (size < ClusterLen)
  <2>1. size \in Nat /\ size >= 1
    BY FileReadAssumption
  <2>. QED  BY <2>1, LoadedRight, Zenon
<1>. QED  BY <1>1, <1>2 DEF FatReadsRight

\* Reads of ext2 are right that stay in one block and do not end with it.
LEMMA ExtIsRight == ExtReadsRight
<1>1. ASSUME NEW r \in Requests
      PROVE  LET n == Clipped(r[1], r[2], r[3])
             IN  ReadsAs(ext_read(r[1], r[2], r[3]), r[2], n)
                     <=> InOneCluster(r[2], n) /\ ~EndsWithCluster(r[2], n)
  <2>1. PICK size \in Nat, loc \in Nat, count \in Nat, n \in Nat, end \in Nat :
            /\ size = r[1] /\ loc = r[2] /\ count = r[3] /\ loc < size /\ count >= 1
            /\ n = Clipped(size, loc, count) /\ n >= 1 /\ end = loc + n
    BY RequestFacts
  <2>2. PICK buf : buf = ext_read(size, loc, count)
    OBVIOUS
  <2>3. InOneCluster(loc, n) => buf = IF EndsWithCluster(loc, n) THEN <<>> ELSE Span(loc, end)
    BY <2>1, <2>2, ExtReadIs
  <2>4. ~InOneCluster(loc, n) => ~IsPrefix(Span(loc, end), buf)
    BY <2>1, <2>2, ExtReadLoses
  <2>5. /\ Part(loc, end) = Span(loc, end) /\ IsPrefix(Span(loc, end), Span(loc, end))
        /\ ~IsPrefix(Span(loc, end), <<>>)
    BY <2>1, SpanAsked
  <2>6. IsPrefix(Part(loc, end), buf) <=> InOneCluster(loc, n) /\ ~EndsWithCluster(loc, n)
    BY <2>3, <2>4, <2>5, Zenon
  <2>. QED  BY <2>1, <2>2, <2>6 DEF ReadsAs
<1>. QED  BY <1>1 DEF ExtReadsRight

\* What a read of FAT32 or ext2 gives is right in just the cases that ReadsRight names,
\* for every length of a cluster, of a piece that exec reads, and of the file.
THEOREM ReadsRightHolds == FilesSpec => []ReadsRight
<1>1. ReadsRight
  BY FatIsRight, ExtIsRight DEF ReadsRight
<1>. QED  BY <1>1, PTL
=============================================================================
