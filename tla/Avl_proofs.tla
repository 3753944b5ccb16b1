----------------------------- MODULE Avl_proofs -----------------------------
(***************************************************************************)
(* Proofs about Avl, for every number of keys: through every insertion and    *)
(* deletion the tree is a search tree with the right heights, and it is the   *)
(* set of keys of KeySet.                                                     *)
(***************************************************************************)
EXTENDS Avl, SeqLemmas

-----------------------------------------------------------------------------
(* Search trees *)

Node(k, h, l, r) == [key |-> k, height |-> h, left |-> l, right |-> r]
Higher(l, r) == 1 + (IF HEIGHT(l) > HEIGHT(r) THEN HEIGHT(l) ELSE HEIGHT(r))

\* The key k divides the keys of two trees.
Divides(k, L, R) == k \in Int /\ (\A q \in L : q < k) /\ (\A q \in R : k < q)

\* A tree and its keys in pair d are made of pairs of D.
Made(d, D) ==
    /\ HEIGHT(d[1]) \in Nat /\ d[2] \subseteq Int
    /\ \/ d[1] = NULL /\ d[2] = {}
       \/ \E l \in D, r \in D :
             /\ d[1] = Node(d[1].key, Higher(l[1], r[1]), l[1], r[1])
             /\ d[2] = {d[1].key} \cup l[2] \cup r[2]
             /\ Divides(d[1].key, l[2], r[2])

\* Tree t is a search tree with the right heights, and K are its keys.
Good(t, K) == \E D : (\E d \in D : d[1] = t /\ d[2] = K) /\ (\A d \in D : Made(d, D))

\* The null pointer is no node.
LEMMA NodeFacts ==
  ASSUME NEW k, NEW h, NEW l, NEW r
  PROVE  /\ Node(k, h, l, r) # NULL
         /\ Node(k, h, l, r).key = k /\ Node(k, h, l, r).height = h
         /\ Node(k, h, l, r).left = l /\ Node(k, h, l, r).right = r
         /\ HEIGHT(Node(k, h, l, r)) = h
<1>1. Node(k, h, l, r) # NULL
  <2>1. "key" \in DOMAIN Node(k, h, l, r) /\ "key" \notin DOMAIN NULL
    BY DEF Node, NULL
  <2>. QED  BY <2>1
<1>. QED  BY <1>1 DEF Node, HEIGHT

\* The empty tree is a tree.
LEMMA GoodNull == Good(NULL, {})
<1>. DEFINE D == {<<NULL, {}>>}
<1>1. \A d \in D : Made(d, D)
  BY DEF Made, HEIGHT
<1>. QED  BY <1>1 DEF Good

\* Its keys are numbers, and so is its height.
LEMMA GoodType ==
  ASSUME NEW t, NEW K, Good(t, K)
  PROVE  /\ HEIGHT(t) \in Nat /\ K \subseteq Int
         /\ t = NULL => K = {} /\ HEIGHT(t) = 0
         /\ t # NULL => HEIGHT(t) >= 1
<1>1. PICK D : (\E d \in D : d[1] = t /\ d[2] = K) /\ (\A d \in D : Made(d, D))
  BY DEF Good
<1>2. PICK d \in D : d[1] = t /\ d[2] = K
  BY <1>1
<1>3. Made(d, D) /\ HEIGHT(NULL) = 0
  BY <1>1 DEF HEIGHT
<1>4. HEIGHT(t) \in Nat /\ K \subseteq Int
  BY <1>2, <1>3 DEF Made
<1>5. CASE t = NULL
  <2>1. ASSUME NEW l \in D, NEW r \in D, t = Node(t.key, Higher(l[1], r[1]), l[1], r[1])
        PROVE FALSE
    BY <1>5, <2>1, NodeFacts
  <2>. QED  BY <1>2, <1>3, <1>4, <1>5, <2>1 DEF Made
<1>6. CASE t # NULL
  <2>1. PICK l \in D, r \in D : t = Node(t.key, Higher(l[1], r[1]), l[1], r[1])
    BY <1>2, <1>3, <1>6 DEF Made
  <2>2. HEIGHT(l[1]) \in Nat /\ HEIGHT(r[1]) \in Nat
    BY <1>1 DEF Made
  <2>3. HEIGHT(t) = Higher(l[1], r[1])
    BY <2>1, NodeFacts
  <2>. QED  BY <1>4, <1>6, <2>2, <2>3 DEF Higher
<1>. QED  BY <1>5, <1>6

\* A tree that is not empty has a key that divides those of its subtrees.
LEMMA GoodSplit ==
  ASSUME NEW t, NEW K, Good(t, K), t # NULL
  PROVE  /\ t = Node(t.key, Higher(t.left, t.right), t.left, t.right)
         /\ \E L, R : /\ Good(t.left, L) /\ Good(t.right, R)
                      /\ K = {t.key} \cup L \cup R /\ Divides(t.key, L, R)
<1>1. PICK D : (\E d \in D : d[1] = t /\ d[2] = K) /\ (\A d \in D : Made(d, D))
  BY DEF Good
<1>2. PICK d \in D : d[1] = t /\ d[2] = K
  BY <1>1
<1>3. PICK l \in D, r \in D : /\ t = Node(t.key, Higher(l[1], r[1]), l[1], r[1])
                              /\ K = {t.key} \cup l[2] \cup r[2] /\ Divides(t.key, l[2], r[2])
  BY <1>1, <1>2 DEF Made
<1>4. t.left = l[1] /\ t.right = r[1]
  BY <1>3, NodeFacts
<1>5. Good(l[1], l[2]) /\ Good(r[1], r[2])
  BY <1>1 DEF Good
<1>. QED  BY <1>3, <1>4, <1>5

\* Two trees and a key that divides them make a tree.
LEMMA GoodNode ==
  ASSUME NEW l, NEW L, Good(l, L), NEW r, NEW R, Good(r, R), NEW k, Divides(k, L, R)
  PROVE  Good(Node(k, Higher(l, r), l, r), {k} \cup L \cup R)
<1>1. PICK A : (\E d \in A : d[1] = l /\ d[2] = L) /\ (\A d \in A : Made(d, A))
  BY DEF Good
<1>2. PICK B : (\E d \in B : d[1] = r /\ d[2] = R) /\ (\A d \in B : Made(d, B))
  BY DEF Good
<1>. DEFINE t == Node(k, Higher(l, r), l, r)
            K == {k} \cup L \cup R
            new == <<t, K>>
            D == A \cup B \cup {new}
<1>3. new[1] = t /\ new[2] = K /\ t.key = k
  BY NodeFacts
<1>4. Made(new, D)
  <2>1. HEIGHT(l) \in Nat /\ HEIGHT(r) \in Nat /\ L \subseteq Int /\ R \subseteq Int
    BY GoodType
  <2>2. HEIGHT(t) = Higher(l, r) /\ Higher(l, r) \in Nat
    BY <2>1, NodeFacts DEF Higher
  <2>3. K \subseteq Int
    BY <2>1 DEF Divides
  <2>4. PICK a \in A : a[1] = l /\ a[2] = L
    BY <1>1
  <2>5. PICK b \in B : b[1] = r /\ b[2] = R
    BY <1>2
  <2>6. \E x \in D, y \in D : /\ t = Node(t.key, Higher(x[1], y[1]), x[1], y[1])
                              /\ K = {t.key} \cup x[2] \cup y[2]
                              /\ Divides(t.key, x[2], y[2])
    <3>1. /\ t = Node(t.key, Higher(a[1], b[1]), a[1], b[1])
          /\ K = {t.key} \cup a[2] \cup b[2] /\ Divides(t.key, a[2], b[2])
      BY <1>3, <2>4, <2>5
    <3>2. a \in D /\ b \in D
      OBVIOUS
    <3>. HIDE DEF t, K, D
    <3>. QED  BY <3>1, <3>2
  <2>. HIDE DEF t, K, D, new
  <2>. QED  BY <1>3, <2>2, <2>3, <2>6 DEF Made
<1>5. \A d \in A : Made(d, D)
  BY <1>1 DEF Made
<1>6. \A d \in B : Made(d, D)
  BY <1>2 DEF Made
<1>7. new \in D /\ \A d \in D : Made(d, D)
  BY <1>4, <1>5, <1>6
<1>. HIDE DEF D, new
<1>. QED  BY <1>3, <1>7 DEF Good

\* The height of a tree is at most the number of the keys it can have.
LEMMA HeightBound ==
  ASSUME NEW t, NEW K, Good(t, K), NEW a \in Int, NEW b \in Int, a <= b + 1, K \subseteq a .. b
  PROVE  HEIGHT(t) <= b - a + 1
<1>1. PICK D : (\E d \in D : d[1] = t /\ d[2] = K) /\ (\A d \in D : Made(d, D))
  BY DEF Good
<1>. DEFINE Over(d, x, y) == x <= y + 1 /\ d[2] \subseteq x .. y /\ ~(HEIGHT(d[1]) <= y - x + 1)
            B == {n \in Nat : \E d \in D, x, y \in Int : Over(d, x, y) /\ HEIGHT(d[1]) = n}
<1>2. B = {}
  <2>. SUFFICES ASSUME B # {}  PROVE FALSE
    OBVIOUS
  <2>1. PICK m \in B : \A n \in B : m <= n
    <3>1. B \in SUBSET Nat
      OBVIOUS
    <3>. HIDE DEF B
    <3>. QED  BY <3>1, LeastExists
  <2>2. PICK d \in D, x \in Int, y \in Int : Over(d, x, y) /\ HEIGHT(d[1]) = m
    OBVIOUS
  <2>20. m \in Nat
    OBVIOUS
  <2>3. \A e \in D : HEIGHT(e[1]) \in Nat
    BY <1>1 DEF Made
  <2>4. ASSUME NEW e \in D, HEIGHT(e[1]) < m, NEW u \in Int, NEW v \in Int, u <= v + 1, e[2] \subseteq u .. v
        PROVE  HEIGHT(e[1]) <= v - u + 1
    <3>1. SUFFICES ASSUME Over(e, u, v)  PROVE FALSE
      BY <2>4
    <3>2. HEIGHT(e[1]) \in B
      BY <2>3, <3>1
    <3>. HIDE DEF B, Over
    <3>. QED  BY <2>1, <2>20, <2>3, <2>4, <3>2
  <2>5. m \in Nat /\ m > y - x + 1 /\ y - x + 1 >= 0
    BY <2>2
  <2>6. d[1] # NULL
    BY <2>2, <2>5 DEF HEIGHT
  <2>7. PICK l \in D, r \in D : /\ d[1] = Node(d[1].key, Higher(l[1], r[1]), l[1], r[1])
                                /\ d[2] = {d[1].key} \cup l[2] \cup r[2]
                                /\ Divides(d[1].key, l[2], r[2])
    BY <1>1, <2>6 DEF Made
  <2>. DEFINE k == d[1].key
  <2>8. m = Higher(l[1], r[1])
    BY <2>2, <2>7, NodeFacts
  <2>9. k \in Int /\ x <= k /\ k <= y /\ l[2] \subseteq x .. k - 1 /\ r[2] \subseteq k + 1 .. y
    <3>1. d[2] \subseteq x .. y
      BY <2>2
    <3>2. k \in x .. y /\ (\A q \in l[2] : q \in x .. y /\ q < k) /\ (\A q \in r[2] : q \in x .. y /\ k < q)
      BY <2>7, <3>1 DEF Divides
    <3>. HIDE DEF k
    <3>. QED  BY <3>2
  <2>10. HEIGHT(l[1]) \in Nat /\ HEIGHT(r[1]) \in Nat /\ HEIGHT(l[1]) < m /\ HEIGHT(r[1]) < m
    BY <2>3, <2>8 DEF Higher
  <2>. HIDE DEF k, B, Over
  <2>11. HEIGHT(l[1]) <= (k - 1) - x + 1
    BY <2>4, <2>9, <2>10
  <2>12. HEIGHT(r[1]) <= y - (k + 1) + 1
    BY <2>4, <2>9, <2>10
  <2>. QED  BY <2>5, <2>8, <2>9, <2>10, <2>11, <2>12 DEF Higher
<1>3. PICK d \in D : d[1] = t /\ d[2] = K
  BY <1>1
<1>4. HEIGHT(d[1]) \in Nat
  BY <1>1 DEF Made
<1>. QED  BY <1>2, <1>3, <1>4

\* The bound on the depth is a number.
LEMMA DepthType == MaxDepth \in Nat /\ MaxDepth >= 1 /\ MaxDepth = MaxKey - (-1) + 1
BY KeyAssumption DEF MaxDepth

-----------------------------------------------------------------------------
(* Rotations *)

\* A node with its height.
LEMMA SizedNode ==
  ASSUME NEW k, NEW h, NEW l, NEW r
  PROVE  Sized(Node(k, h, l, r)) = Node(k, Higher(l, r), l, r)
<1>1. Node(k, h, l, r).left = l /\ Node(k, h, l, r).right = r
  BY NodeFacts
<1>2. \A x : [Node(k, h, l, r) EXCEPT !.height = x] = Node(k, x, l, r)
  BY DEF Node
<1>. QED  BY <1>1, <1>2 DEF Sized, Higher

\* The rotation to the right turns two nodes around.
LEMMA LeftLeft ==
  ASSUME NEW l, NEW L, Good(l, L), NEW r, NEW R, Good(r, R), NEW k, Divides(k, L, R), NEW h, l # NULL
  PROVE  /\ Good(left_left_rotation(Node(k, h, l, r)), {k} \cup L \cup R)
         /\ Good(Sized(left_left_rotation(Node(k, h, l, r))), {k} \cup L \cup R)
         /\ left_left_rotation(Node(k, h, l, r)) # NULL
<1>1. PICK A, B : /\ Good(l.left, A) /\ Good(l.right, B)
                  /\ L = {l.key} \cup A \cup B /\ Divides(l.key, A, B)
  BY GoodSplit
<1>2. l = Node(l.key, Higher(l.left, l.right), l.left, l.right)
  BY GoodSplit
<1>. DEFINE m == Node(k, Higher(l.right, r), l.right, r)
            new == Node(l.key, Higher(l.left, m), l.left, m)
<1>3. left_left_rotation(Node(k, h, l, r)) = new
  <2>1. Node(k, h, l, r).left = l
    BY NodeFacts
  <2>2. Sized([Node(k, h, l, r) EXCEPT !.left = l.right]) = m
    <3>1. [Node(k, h, l, r) EXCEPT !.left = l.right] = Node(k, h, l.right, r)
      BY DEF Node
    <3>. QED  BY <3>1, SizedNode
  <2>3. Sized([l EXCEPT !.right = m]) = new
    <3>. HIDE DEF m
    <3>1. PICK a, b, c, d : a = l.key /\ b = Higher(l.left, l.right) /\ c = l.left /\ d = l.right
      OBVIOUS
    <3>2. l = Node(a, b, c, d) /\ new = Node(a, Higher(c, m), c, m)
      BY <1>2, <3>1
    <3>. HIDE DEF new
    <3>3. [l EXCEPT !.right = m] = Node(a, b, c, m)
      BY <3>2 DEF Node
    <3>. QED  BY <3>2, <3>3, SizedNode
  <2>. QED  BY <2>1, <2>2, <2>3 DEF left_left_rotation
<1>4. Good(m, {k} \cup B \cup R)
  <2>1. Divides(k, B, R)
    BY <1>1 DEF Divides
  <2>. QED  BY <1>1, <2>1, GoodNode
<1>. HIDE DEF m
<1>5. Good(new, {l.key} \cup A \cup ({k} \cup B \cup R))
  <2>1. Divides(l.key, A, {k} \cup B \cup R)
    <3>1. l.key < k /\ l.key \in Int /\ k \in Int
      BY <1>1 DEF Divides
    <3>2. \A q \in R : l.key < q
      <4>1. R \subseteq Int
        BY GoodType
      <4>. QED  BY <3>1, <4>1 DEF Divides
    <3>. QED  BY <1>1, <3>1, <3>2 DEF Divides
  <2>. QED  BY <1>1, <1>4, <2>1, GoodNode
<1>6. {l.key} \cup A \cup ({k} \cup B \cup R) = {k} \cup L \cup R
  BY <1>1
<1>7. new # NULL /\ Sized(new) = new
  BY NodeFacts, SizedNode
<1>. HIDE DEF new
<1>. QED  BY <1>3, <1>5, <1>6, <1>7

\* So does the rotation to the left.
LEMMA RightRight ==
  ASSUME NEW l, NEW L, Good(l, L), NEW r, NEW R, Good(r, R), NEW k, Divides(k, L, R), NEW h, r # NULL
  PROVE  /\ Good(right_right_rotation(Node(k, h, l, r)), {k} \cup L \cup R)
         /\ Good(Sized(right_right_rotation(Node(k, h, l, r))), {k} \cup L \cup R)
         /\ right_right_rotation(Node(k, h, l, r)) # NULL
<1>1. PICK A, B : /\ Good(r.left, A) /\ Good(r.right, B)
                  /\ R = {r.key} \cup A \cup B /\ Divides(r.key, A, B)
  BY GoodSplit
<1>2. r = Node(r.key, Higher(r.left, r.right), r.left, r.right)
  BY GoodSplit
<1>. DEFINE m == Node(k, Higher(l, r.left), l, r.left)
            new == Node(r.key, Higher(m, r.right), m, r.right)
<1>3. right_right_rotation(Node(k, h, l, r)) = new
  <2>1. Node(k, h, l, r).right = r
    BY NodeFacts
  <2>2. Sized([Node(k, h, l, r) EXCEPT !.right = r.left]) = m
    <3>1. [Node(k, h, l, r) EXCEPT !.right = r.left] = Node(k, h, l, r.left)
      BY DEF Node
    <3>. QED  BY <3>1, SizedNode
  <2>3. Sized([r EXCEPT !.left = m]) = new
    <3>. HIDE DEF m
    <3>1. PICK a, b, c, d : a = r.key /\ b = Higher(r.left, r.right) /\ c = r.left /\ d = r.right
      OBVIOUS
    <3>2. r = Node(a, b, c, d) /\ new = Node(a, Higher(m, d), m, d)
      BY <1>2, <3>1
    <3>. HIDE DEF new
    <3>3. [r EXCEPT !.left = m] = Node(a, b, m, d)
      BY <3>2 DEF Node
    <3>. QED  BY <3>2, <3>3, SizedNode
  <2>. QED  BY <2>1, <2>2, <2>3 DEF right_right_rotation
<1>4. Good(m, {k} \cup L \cup A)
  <2>1. Divides(k, L, A)
    BY <1>1 DEF Divides
  <2>. QED  BY <1>1, <2>1, GoodNode
<1>. HIDE DEF m
<1>5. Good(new, {r.key} \cup ({k} \cup L \cup A) \cup B)
  <2>1. Divides(r.key, {k} \cup L \cup A, B)
    <3>1. k < r.key /\ r.key \in Int /\ k \in Int
      BY <1>1 DEF Divides
    <3>2. \A q \in L : q < r.key
      <4>1. L \subseteq Int
        BY GoodType
      <4>. QED  BY <3>1, <4>1 DEF Divides
    <3>. QED  BY <1>1, <3>1, <3>2 DEF Divides
  <2>. QED  BY <1>1, <1>4, <2>1, GoodNode
<1>6. {r.key} \cup ({k} \cup L \cup A) \cup B = {k} \cup L \cup R
  BY <1>1
<1>7. new # NULL /\ Sized(new) = new
  BY NodeFacts, SizedNode
<1>. HIDE DEF new
<1>. QED  BY <1>3, <1>5, <1>6, <1>7

\* A node with two trees that its key divides is a tree once it has its height.
LEMMA SizedGood ==
  ASSUME NEW l, NEW L, Good(l, L), NEW r, NEW R, Good(r, R), NEW k, Divides(k, L, R), NEW h
  PROVE  Good(Sized(Node(k, h, l, r)), {k} \cup L \cup R)
<1>1. Sized(Node(k, h, l, r)) = Node(k, Higher(l, r), l, r)
  BY SizedNode
<1>. QED  BY <1>1, GoodNode

\* The double rotations are two of them.
LEMMA LeftRight ==
  ASSUME NEW l, NEW L, Good(l, L), NEW r, NEW R, Good(r, R), NEW k, Divides(k, L, R), NEW h,
         l # NULL, l.right # NULL
  PROVE  Good(Sized(left_right_rotation(Node(k, h, l, r))), {k} \cup L \cup R)
<1>. DEFINE m == right_right_rotation(l)
<1>1. Good(m, L) /\ m # NULL
  <2>1. PICK A, B : /\ Good(l.left, A) /\ Good(l.right, B)
                    /\ L = {l.key} \cup A \cup B /\ Divides(l.key, A, B)
    BY GoodSplit
  <2>2. l = Node(l.key, Higher(l.left, l.right), l.left, l.right)
    BY GoodSplit
  <2>. QED  BY <2>1, <2>2, RightRight
<1>2. left_right_rotation(Node(k, h, l, r)) = left_left_rotation(Node(k, h, m, r))
  <2>1. Node(k, h, l, r).left = l
    BY NodeFacts
  <2>2. [Node(k, h, l, r) EXCEPT !.left = m] = Node(k, h, m, r)
    <3>. HIDE DEF m
    <3>. QED  BY DEF Node
  <2>. QED  BY <2>1, <2>2 DEF left_right_rotation
<1>. HIDE DEF m
<1>. QED  BY <1>1, <1>2, LeftLeft

\* The other one.
LEMMA RightLeft ==
  ASSUME NEW l, NEW L, Good(l, L), NEW r, NEW R, Good(r, R), NEW k, Divides(k, L, R), NEW h,
         r # NULL, r.left # NULL
  PROVE  Good(Sized(right_left_rotation(Node(k, h, l, r))), {k} \cup L \cup R)
<1>. DEFINE m == left_left_rotation(r)
<1>1. Good(m, R) /\ m # NULL
  <2>1. PICK A, B : /\ Good(r.left, A) /\ Good(r.right, B)
                    /\ R = {r.key} \cup A \cup B /\ Divides(r.key, A, B)
    BY GoodSplit
  <2>2. r = Node(r.key, Higher(r.left, r.right), r.left, r.right)
    BY GoodSplit
  <2>. QED  BY <2>1, <2>2, LeftLeft
<1>2. right_left_rotation(Node(k, h, l, r)) = right_right_rotation(Node(k, h, l, m))
  <2>1. Node(k, h, l, r).right = r
    BY NodeFacts
  <2>2. [Node(k, h, l, r) EXCEPT !.right = m] = Node(k, h, l, m)
    <3>. HIDE DEF m
    <3>. QED  BY DEF Node
  <2>. QED  BY <2>1, <2>2 DEF right_left_rotation
<1>. HIDE DEF m
<1>. QED  BY <1>1, <1>2, RightRight

\* After an insertion a node is rotated or not: it has the same keys.
LEMMA GrownGood ==
  ASSUME NEW l, NEW L, Good(l, L), NEW r, NEW R, Good(r, R), NEW k, Divides(k, L, R), NEW h,
         NEW key \in Int
  PROVE  /\ key < k => Good(Sized(GrownLeft(Node(k, h, l, r), key)), {k} \cup L \cup R)
         /\ k < key => Good(Sized(GrownRight(Node(k, h, l, r), key)), {k} \cup L \cup R)
<1>. DEFINE t == Node(k, h, l, r)
<1>1. /\ HEIGHT(l) \in Nat /\ HEIGHT(r) \in Nat
      /\ l = NULL => HEIGHT(l) = 0
      /\ r = NULL => HEIGHT(r) = 0
      /\ t.key = k /\ t.left = l /\ t.right = r /\ k \in Int
  BY GoodType, NodeFacts DEF Divides
<1>2. Good(Sized(t), {k} \cup L \cup R)
  BY SizedGood
<1>3. l # NULL => Good(Sized(left_left_rotation(t)), {k} \cup L \cup R)
  BY LeftLeft
<1>4. r # NULL => Good(Sized(right_right_rotation(t)), {k} \cup L \cup R)
  BY RightRight
<1>. HIDE DEF t
<1>5. ASSUME key < k  PROVE Good(Sized(GrownLeft(t, key)), {k} \cup L \cup R)
  <2>1. CASE LeftHigh(t)
    <3>1. l # NULL
      BY <1>1, <2>1 DEF LeftHigh
    <3>2. GrownLeft(t, key) = left_left_rotation(t)
      BY <1>1, <1>5, <2>1 DEF GrownLeft
    <3>. QED  BY <1>3, <3>1, <3>2
  <2>. QED  BY <1>2, <2>1 DEF GrownLeft
<1>6. ASSUME k < key  PROVE Good(Sized(GrownRight(t, key)), {k} \cup L \cup R)
  <2>1. CASE RightHigh(t)
    <3>1. r # NULL
      BY <1>1, <2>1 DEF RightHigh
    <3>2. GrownRight(t, key) = right_right_rotation(t)
      BY <1>1, <1>6, <2>1 DEF GrownRight
    <3>. QED  BY <1>4, <3>1, <3>2
  <2>. QED  BY <1>2, <2>1 DEF GrownRight
<1>. QED  BY <1>5, <1>6 DEF t

\* So it is after a deletion.
LEMMA ShrunkGood ==
  ASSUME NEW l, NEW L, Good(l, L), NEW r, NEW R, Good(r, R), NEW k, Divides(k, L, R), NEW h
  PROVE  /\ Good(Sized(ShrunkLeft(Node(k, h, l, r))), {k} \cup L \cup R)
         /\ Good(Sized(ShrunkRight(Node(k, h, l, r))), {k} \cup L \cup R)
<1>. DEFINE t == Node(k, h, l, r)
            K == {k} \cup L \cup R
<1>1. /\ HEIGHT(l) \in Nat /\ HEIGHT(r) \in Nat
      /\ l = NULL => HEIGHT(l) = 0
      /\ r = NULL => HEIGHT(r) = 0
      /\ t.left = l /\ t.right = r
  BY GoodType, NodeFacts
<1>2. Good(Sized(t), K)
  BY SizedGood
<1>3. l # NULL => Good(Sized(left_left_rotation(t)), K)
  BY LeftLeft
<1>4. r # NULL => Good(Sized(right_right_rotation(t)), K)
  BY RightRight
<1>5. l # NULL /\ l.right # NULL => Good(Sized(left_right_rotation(t)), K)
  BY LeftRight
<1>6. r # NULL /\ r.left # NULL => Good(Sized(right_left_rotation(t)), K)
  BY RightLeft
<1>7. r # NULL => HEIGHT(r.left) \in Nat /\ HEIGHT(r.right) \in Nat
  BY GoodSplit, GoodType
<1>8. l # NULL => HEIGHT(l.left) \in Nat /\ HEIGHT(l.right) \in Nat
  BY GoodSplit, GoodType
<1>9. HEIGHT(NULL) = 0
  BY DEF HEIGHT
<1>. HIDE DEF t, K
<1>10. Good(Sized(ShrunkLeft(t)), K)
  <2>1. CASE RightHigh(t)
    <3>1. r # NULL
      BY <1>1, <2>1 DEF RightHigh
    <3>2. CASE HEIGHT(r.left) > HEIGHT(r.right)
      <4>1. r.left # NULL
        BY <1>7, <1>9, <3>1, <3>2
      <4>. QED  BY <1>1, <1>6, <2>1, <3>1, <3>2, <4>1 DEF ShrunkLeft
    <3>3. CASE ~(HEIGHT(r.left) > HEIGHT(r.right))
      BY <1>1, <1>4, <2>1, <3>1, <3>3 DEF ShrunkLeft
    <3>. QED  BY <3>2, <3>3
  <2>. QED  BY <1>2, <2>1 DEF ShrunkLeft
<1>11. Good(Sized(ShrunkRight(t)), K)
  <2>1. CASE LeftHigh(t)
    <3>1. l # NULL
      BY <1>1, <2>1 DEF LeftHigh
    <3>2. CASE HEIGHT(l.right) > HEIGHT(l.left)
      <4>1. l.right # NULL
        BY <1>8, <1>9, <3>1, <3>2
      <4>. QED  BY <1>1, <1>5, <2>1, <3>1, <3>2, <4>1 DEF ShrunkRight
    <3>3. CASE ~(HEIGHT(l.right) > HEIGHT(l.left))
      BY <1>1, <1>3, <2>1, <3>1, <3>3 DEF ShrunkRight
    <3>. QED  BY <3>2, <3>3
  <2>. QED  BY <1>2, <2>1 DEF ShrunkRight
<1>. QED  BY <1>10, <1>11 DEF t, K

-----------------------------------------------------------------------------
(* Trees that fit *)

\* A tree of one new node, which has no height yet.
NewTree(t, K) == \E k \in Int : t = Node(k, 0, NULL, NULL) /\ K = {k}

\* A tree whose keys are those that there are, and the number of its levels.
Fits(t, K) == (Good(t, K) \/ NewTree(t, K)) /\ K \subseteq -1 .. MaxKey
Levels(t) == IF t = NULL THEN 0 ELSE Higher(t.left, t.right)

\* It has no more levels than MaxDepth, and its subtrees have fewer than it.
LEMMA FitsFacts ==
  ASSUME NEW t, NEW K, Fits(t, K)
  PROVE  /\ Levels(t) \in Nat /\ Levels(t) <= MaxDepth
         /\ t = NULL => K = {} /\ Good(t, K)
         /\ t # NULL => /\ Levels(t) >= 1 /\ t.key \in Int
                        /\ \E h : t = Node(t.key, h, t.left, t.right)
                        /\ \E L, R : /\ Fits(t.left, L) /\ Fits(t.right, R)
                                     /\ Good(t.left, L) /\ Good(t.right, R)
                                     /\ Levels(t.left) < Levels(t) /\ Levels(t.right) < Levels(t)
                                     /\ K = {t.key} \cup L \cup R /\ Divides(t.key, L, R)
<1>. DEFINE Split(L, R) ==
               /\ Fits(t.left, L) /\ Fits(t.right, R)
               /\ Good(t.left, L) /\ Good(t.right, R)
               /\ Levels(t.left) < Levels(t) /\ Levels(t.right) < Levels(t)
               /\ K = {t.key} \cup L \cup R /\ Divides(t.key, L, R)
<1>1. K \subseteq -1 .. MaxKey /\ (Good(t, K) \/ NewTree(t, K))
  BY DEF Fits
<1>2. ASSUME NEW s, NEW L, Good(s, L)
      PROVE  Levels(s) = HEIGHT(s) /\ HEIGHT(s) \in Nat
  <2>1. HEIGHT(s) \in Nat /\ (s = NULL => HEIGHT(s) = 0)
    BY <1>2, GoodType
  <2>2. ASSUME s # NULL  PROVE HEIGHT(s) = Higher(s.left, s.right)
    <3>1. s = Node(s.key, Higher(s.left, s.right), s.left, s.right)
      BY <1>2, <2>2, GoodSplit
    <3>2. PICK h : h = Higher(s.left, s.right)
      OBVIOUS
    <3>3. s = Node(s.key, h, s.left, s.right)
      BY <3>1, <3>2
    <3>. QED  BY <3>2, <3>3, NodeFacts
  <2>. QED  BY <2>1, <2>2 DEF Levels
<1>3. CASE Good(t, K)
  <2>1. HEIGHT(t) <= MaxDepth
    <3>1. -1 \in Int /\ MaxKey \in Int /\ -1 <= MaxKey + 1 /\ MaxDepth = MaxKey - (-1) + 1
      BY KeyAssumption, DepthType
    <3>2. \A a, b \in Int : a <= b + 1 /\ K \subseteq a .. b => HEIGHT(t) <= b - a + 1
      BY <1>3, HeightBound
    <3>. QED  BY <1>1, <3>1, <3>2
  <2>2. HEIGHT(t) \in Nat /\ (t = NULL => K = {}) /\ (t # NULL => HEIGHT(t) >= 1)
    BY <1>3, GoodType
  <2>3. ASSUME t # NULL
        PROVE  t.key \in Int /\ (\E h : t = Node(t.key, h, t.left, t.right)) /\ \E L, R : Split(L, R)
    <3>1. PICK L, R : /\ Good(t.left, L) /\ Good(t.right, R)
                      /\ K = {t.key} \cup L \cup R /\ Divides(t.key, L, R)
      BY <1>3, <2>3, GoodSplit
    <3>2. t = Node(t.key, Higher(t.left, t.right), t.left, t.right)
      BY <1>3, <2>3, GoodSplit
    <3>3. Levels(t) = Higher(t.left, t.right)
      BY <2>3 DEF Levels
    <3>4. /\ HEIGHT(t.left) \in Nat /\ HEIGHT(t.right) \in Nat
          /\ Levels(t.left) = HEIGHT(t.left) /\ Levels(t.right) = HEIGHT(t.right)
      BY <1>2, <3>1
    <3>5. Levels(t.left) < Levels(t) /\ Levels(t.right) < Levels(t)
      BY <3>3, <3>4 DEF Higher
    <3>6. Fits(t.left, L) /\ Fits(t.right, R)
      BY <1>1, <3>1 DEF Fits
    <3>7. Split(L, R)
      BY <3>1, <3>5, <3>6
    <3>8. \E h : t = Node(t.key, h, t.left, t.right)
      BY <3>2
    <3>. HIDE DEF Split
    <3>. QED  BY <3>1, <3>7, <3>8 DEF Divides
  <2>4. Levels(t) = HEIGHT(t)
    BY <1>2, <1>3
  <2>. QED  BY <1>3, <2>1, <2>2, <2>3, <2>4
<1>4. CASE NewTree(t, K)
  <2>1. PICK k \in Int : t = Node(k, 0, NULL, NULL) /\ K = {k}
    BY <1>4 DEF NewTree
  <2>2. t # NULL /\ t.key = k /\ t.left = NULL /\ t.right = NULL
    BY <2>1, NodeFacts
  <2>3. Levels(NULL) = 0 /\ HEIGHT(NULL) = 0
    BY DEF Levels, HEIGHT
  <2>4. Levels(t) = 1
    BY <2>2, <2>3 DEF Levels, Higher
  <2>5. Good(NULL, {}) /\ Fits(NULL, {})
    BY GoodNull DEF Fits
  <2>6. Split({}, {})
    BY <2>1, <2>2, <2>3, <2>4, <2>5 DEF Divides
  <2>. HIDE DEF Split
  <2>7. \E h : t = Node(t.key, h, t.left, t.right)
    BY <2>1, <2>2
  <2>8. (\E L, R : Split(L, R)) /\ t.key \in Int
    BY <2>2, <2>6
  <2>. QED  BY <2>2, <2>4, <2>7, <2>8, DepthType DEF Split
<1>. QED  BY <1>1, <1>3, <1>4

\* The subtrees of a tree have their subtrees among them.
LEMMA GoodSubtrees ==
  ASSUME NEW t, NEW K, Good(t, K)
  PROVE  \E S : t \in S /\ \A s \in S : s = NULL \/ (s.left \in S /\ s.right \in S)
<1>1. PICK D : (\E d \in D : d[1] = t /\ d[2] = K) /\ (\A d \in D : Made(d, D))
  BY DEF Good
<1>. DEFINE S == {d[1] : d \in D}
<1>2. t \in S
  BY <1>1
<1>3. ASSUME NEW d \in D, d[1] # NULL  PROVE d[1].left \in S /\ d[1].right \in S
  <2>1. PICK l \in D, r \in D : d[1] = Node(d[1].key, Higher(l[1], r[1]), l[1], r[1])
    BY <1>1, <1>3 DEF Made
  <2>2. d[1].left = l[1] /\ d[1].right = r[1]
    BY <2>1, NodeFacts
  <2>. QED  BY <2>2
<1>. QED  BY <1>2, <1>3

\* So have those of a tree that fits.
LEMMA Subtrees ==
  ASSUME NEW t, NEW K, Fits(t, K)
  PROVE  \E S : t \in S /\ \A s \in S : s = NULL \/ (s.left \in S /\ s.right \in S)
<1>1. CASE Good(t, K)
  BY <1>1, GoodSubtrees
<1>2. CASE NewTree(t, K)
  <2>1. PICK k : t = Node(k, 0, NULL, NULL)
    BY <1>2 DEF NewTree
  <2>2. t.left = NULL /\ t.right = NULL
    BY <2>1, NodeFacts
  <2>. DEFINE S == {t, NULL}
  <2>3. t \in S /\ \A s \in S : s = NULL \/ (s.left \in S /\ s.right \in S)
    BY <2>2
  <2>. QED  BY <2>3
<1>. QED  BY <1>1, <1>2 DEF Fits

-----------------------------------------------------------------------------
(* The way down *)

\* A number of steps in a set.
LEMMA StepsExist ==
  ASSUME NEW M \in Nat, NEW S, NEW x \in S, NEW step \in [S -> S]
  PROVE  \E f \in [0 .. M -> S] : f[0] = x /\ \A n \in 1 .. M : f[n] = step[f[n - 1]]
<1>. DEFINE Steps(m) == \E f \in [0 .. m -> S] : f[0] = x /\ \A n \in 1 .. m : f[n] = step[f[n - 1]]
            B == {m \in Nat : ~Steps(m)}
<1>1. B = {}
  <2>. SUFFICES ASSUME B # {}  PROVE FALSE
    OBVIOUS
  <2>1. PICK m \in B : \A n \in B : m <= n
    <3>1. B \in SUBSET Nat
      OBVIOUS
    <3>. HIDE DEF B
    <3>. QED  BY <3>1, LeastExists
  <2>2. m \in Nat /\ ~Steps(m)
    OBVIOUS
  <2>3. m # 0
    <3>. DEFINE f == [n \in 0 .. 0 |-> x]
    <3>1. f \in [0 .. 0 -> S] /\ f[0] = x /\ \A n \in 1 .. 0 : f[n] = step[f[n - 1]]
      OBVIOUS
    <3>. HIDE DEF f
    <3>2. Steps(0)
      BY <3>1
    <3>. QED  BY <2>2, <3>2
  <2>4. Steps(m - 1)
    <3>1. m - 1 \in Nat /\ m - 1 < m
      BY <2>2, <2>3
    <3>2. m - 1 \notin B
      <4>. HIDE DEF B
      <4>. QED  BY <2>1, <2>2, <3>1
    <3>. QED  BY <3>1, <3>2
  <2>5. PICK g \in [0 .. m - 1 -> S] : g[0] = x /\ \A n \in 1 .. m - 1 : g[n] = step[g[n - 1]]
    BY <2>4
  <2>. DEFINE f == [n \in 0 .. m |-> IF n = m THEN step[g[m - 1]] ELSE g[n]]
  <2>6. f \in [0 .. m -> S]
    <3>1. g[m - 1] \in S /\ \A n \in 0 .. m : n # m => g[n] \in S
      BY <2>2, <2>3, <2>5
    <3>. QED  BY <3>1
  <2>7. f[0] = x
    BY <2>2, <2>3, <2>5
  <2>8. \A n \in 1 .. m : f[n] = step[f[n - 1]]
    BY <2>2, <2>5
  <2>. HIDE DEF f
  <2>9. Steps(m)
    BY <2>6, <2>7, <2>8
  <2>. QED  BY <2>2, <2>9
<1>. HIDE DEF Steps
<1>2. Steps(M)
  BY <1>1
<1>. QED  BY <1>2 DEF Steps

\* One step towards key k, to the greatest and to the least key.
Toward(s, k) == IF s = NULL \/ s.key = k THEN s ELSE IF k < s.key THEN s.left ELSE s.right
Rightward(s) == IF s.right = NULL THEN s ELSE s.right
Leftward(s) == IF s.left = NULL THEN s ELSE s.left

\* The way to a key goes step by step.
LEMMA WayIs ==
  ASSUME NEW t, NEW K, Fits(t, K), NEW k
  PROVE  Way(t, k)[0] = t /\ \A n \in 1 .. MaxDepth : Way(t, k)[n] = Toward(Way(t, k)[n - 1], k)
<1>. DEFINE W(f) == [n \in 0 .. MaxDepth |-> IF n = 0 THEN t ELSE Toward(f[n - 1], k)]
<1>1. PICK S : t \in S /\ \A s \in S : s = NULL \/ (s.left \in S /\ s.right \in S)
  BY Subtrees
<1>. DEFINE step == [s \in S |-> Toward(s, k)]
<1>2. step \in [S -> S]
  BY <1>1 DEF Toward
<1>3. PICK f \in [0 .. MaxDepth -> S] : f[0] = t /\ \A n \in 1 .. MaxDepth : f[n] = step[f[n - 1]]
  <2>. HIDE DEF step
  <2>. QED  BY <1>1, <1>2, DepthType, StepsExist
<1>4. \A n \in 1 .. MaxDepth : f[n] = Toward(f[n - 1], k)
  <2>1. \A n \in 1 .. MaxDepth : f[n - 1] \in S
    BY <1>3, DepthType
  <2>. QED  BY <1>3, <2>1
<1>5. f = W(f)
  <2>1. \A n \in 0 .. MaxDepth : f[n] = W(f)[n]
    BY <1>3, <1>4, DepthType
  <2>. QED  BY <1>3, <2>1
<1>. DEFINE C == CHOOSE g : g = W(g)
<1>6. Way(t, k) = C
  BY DEF Way, Toward
<1>7. C = W(C)
  <2>. HIDE DEF W
  <2>. QED  BY <1>5
<1>. HIDE DEF C
<1>8. C[0] = t /\ \A n \in 1 .. MaxDepth : C[n] = Toward(C[n - 1], k)
  <2>1. 0 \in 0 .. MaxDepth /\ \A n \in 1 .. MaxDepth : n \in 0 .. MaxDepth /\ n # 0
    BY DepthType
  <2>. QED  BY <1>7, <2>1
<1>. QED  BY <1>6, <1>8

\* So does the way to the greatest key.
LEMMA MaximumIs ==
  ASSUME NEW t, NEW K, Fits(t, K), t # NULL
  PROVE  \E f : /\ f[0] = t /\ \A n \in 1 .. MaxDepth : f[n] = Rightward(f[n - 1])
                /\ avltree_maximum(t) = f[MaxDepth]
<1>. DEFINE W(f) == [n \in 0 .. MaxDepth |-> IF n = 0 THEN t ELSE Rightward(f[n - 1])]
<1>1. PICK U : t \in U /\ \A s \in U : s = NULL \/ (s.left \in U /\ s.right \in U)
  BY Subtrees
<1>. DEFINE S == U \ {NULL}
            step == [s \in S |-> Rightward(s)]
<1>2. step \in [S -> S] /\ t \in S
  BY <1>1 DEF Rightward
<1>3. PICK f \in [0 .. MaxDepth -> S] : f[0] = t /\ \A n \in 1 .. MaxDepth : f[n] = step[f[n - 1]]
  <2>. HIDE DEF step, S
  <2>1. MaxDepth \in Nat
    BY DepthType
  <2>. QED  BY <1>2, <2>1, StepsExist
<1>4. \A n \in 1 .. MaxDepth : f[n] = Rightward(f[n - 1])
  <2>1. \A n \in 1 .. MaxDepth : f[n - 1] \in S
    BY <1>3, DepthType
  <2>. QED  BY <1>3, <2>1
<1>5. f = W(f)
  <2>1. \A n \in 0 .. MaxDepth : f[n] = W(f)[n]
    BY <1>3, <1>4, DepthType
  <2>. QED  BY <1>3, <2>1
<1>. DEFINE C == CHOOSE g : g = W(g)
<1>6. avltree_maximum(t) = C[MaxDepth]
  BY DEF avltree_maximum, Rightward
<1>7. C = W(C)
  <2>. HIDE DEF W
  <2>. QED  BY <1>5
<1>. HIDE DEF C
<1>8. C[0] = t /\ \A n \in 1 .. MaxDepth : C[n] = Rightward(C[n - 1])
  <2>1. 0 \in 0 .. MaxDepth /\ \A n \in 1 .. MaxDepth : n \in 0 .. MaxDepth /\ n # 0
    BY DepthType
  <2>. QED  BY <1>7, <2>1
<1>. QED  BY <1>6, <1>8

\* So does the way to the least key.
LEMMA MinimumIs ==
  ASSUME NEW t, NEW K, Fits(t, K), t # NULL
  PROVE  \E f : /\ f[0] = t /\ \A n \in 1 .. MaxDepth : f[n] = Leftward(f[n - 1])
                /\ avltree_minimum(t) = f[MaxDepth]
<1>. DEFINE W(f) == [n \in 0 .. MaxDepth |-> IF n = 0 THEN t ELSE Leftward(f[n - 1])]
<1>1. PICK U : t \in U /\ \A s \in U : s = NULL \/ (s.left \in U /\ s.right \in U)
  BY Subtrees
<1>. DEFINE S == U \ {NULL}
            step == [s \in S |-> Leftward(s)]
<1>2. step \in [S -> S] /\ t \in S
  BY <1>1 DEF Leftward
<1>3. PICK f \in [0 .. MaxDepth -> S] : f[0] = t /\ \A n \in 1 .. MaxDepth : f[n] = step[f[n - 1]]
  <2>. HIDE DEF step, S
  <2>1. MaxDepth \in Nat
    BY DepthType
  <2>. QED  BY <1>2, <2>1, StepsExist
<1>4. \A n \in 1 .. MaxDepth : f[n] = Leftward(f[n - 1])
  <2>1. \A n \in 1 .. MaxDepth : f[n - 1] \in S
    BY <1>3, DepthType
  <2>. QED  BY <1>3, <2>1
<1>5. f = W(f)
  <2>1. \A n \in 0 .. MaxDepth : f[n] = W(f)[n]
    BY <1>3, <1>4, DepthType
  <2>. QED  BY <1>3, <2>1
<1>. DEFINE C == CHOOSE g : g = W(g)
<1>6. avltree_minimum(t) = C[MaxDepth]
  BY DEF avltree_minimum, Leftward
<1>7. C = W(C)
  <2>. HIDE DEF W
  <2>. QED  BY <1>5
<1>. HIDE DEF C
<1>8. C[0] = t /\ \A n \in 1 .. MaxDepth : C[n] = Leftward(C[n - 1])
  <2>1. 0 \in 0 .. MaxDepth /\ \A n \in 1 .. MaxDepth : n \in 0 .. MaxDepth /\ n # 0
    BY DepthType
  <2>. QED  BY <1>7, <2>1
<1>. QED  BY <1>6, <1>8

\* Nodes takes a tree level by level.
Below(N) == (UNION {{s.left, s.right} : s \in N}) \ {NULL}
LEMMA NodesIs ==
  ASSUME NEW t, NEW K, Fits(t, K)
  PROVE  \E f : /\ f[0] = {t} \ {NULL} /\ \A n \in 1 .. MaxDepth : f[n] = Below(f[n - 1])
                /\ Nodes(t) = UNION {f[n] : n \in 0 .. MaxDepth}
<1>. DEFINE W(f) == [n \in 0 .. MaxDepth |->
                        (IF n = 0 THEN {t} ELSE UNION {{s.left, s.right} : s \in f[n - 1]}) \ {NULL}]
<1>1. PICK U : t \in U /\ \A s \in U : s = NULL \/ (s.left \in U /\ s.right \in U)
  BY Subtrees
<1>. DEFINE Sets == SUBSET (U \ {NULL})
            step == [N \in Sets |-> Below(N)]
            root == {t} \ {NULL}
<1>2. step \in [Sets -> Sets] /\ root \in Sets
  <2>1. root \in Sets
    BY <1>1
  <2>2. ASSUME NEW N \in Sets  PROVE Below(N) \in Sets
    <3>1. \A s \in N : s.left \in U /\ s.right \in U
      BY <1>1
    <3>. QED  BY <3>1 DEF Below
  <2>. HIDE DEF Sets
  <2>. QED  BY <2>1, <2>2
<1>. HIDE DEF Sets, root
<1>3. PICK f \in [0 .. MaxDepth -> Sets] : f[0] = {t} \ {NULL} /\ \A n \in 1 .. MaxDepth : f[n] = step[f[n - 1]]
  <2>. HIDE DEF step
  <2>1. MaxDepth \in Nat
    BY DepthType
  <2>2. \E f \in [0 .. MaxDepth -> Sets] : f[0] = root /\ \A n \in 1 .. MaxDepth : f[n] = step[f[n - 1]]
    <3>1. step \in [Sets -> Sets]
      BY <1>2
    <3>2. root \in Sets
      BY <1>2
    <3>. HIDE DEF W
    <3>3. ASSUME NEW V, NEW y \in V, NEW g \in [V -> V]
          PROVE  \E f \in [0 .. MaxDepth -> V] : f[0] = y /\ \A n \in 1 .. MaxDepth : f[n] = g[f[n - 1]]
      BY <2>1, StepsExist
    <3>4. PICK V, y, g : V = Sets /\ y = root /\ g = step
      OBVIOUS
    <3>5. y \in V /\ g \in [V -> V]
      BY <3>1, <3>2, <3>4
    <3>6. \E f \in [0 .. MaxDepth -> V] : f[0] = y /\ \A n \in 1 .. MaxDepth : f[n] = g[f[n - 1]]
      BY <3>3, <3>5
    <3>. QED  BY <3>4, <3>6
  <2>. QED  BY <2>2 DEF root
<1>4. \A n \in 1 .. MaxDepth : f[n] = Below(f[n - 1])
  <2>1. \A n \in 1 .. MaxDepth : f[n - 1] \in Sets
    BY <1>3, DepthType
  <2>. QED  BY <1>3, <2>1
<1>5. f = W(f)
  <2>1. \A n \in 0 .. MaxDepth : f[n] = W(f)[n]
    <3>1. \A n \in 0 .. MaxDepth : n # 0 => n \in 1 .. MaxDepth
      BY DepthType
    <3>. QED  BY <1>3, <1>4, <3>1 DEF Below
  <2>. HIDE DEF W
  <2>2. W(f) = [n \in 0 .. MaxDepth |-> W(f)[n]]
    BY DEF W
  <2>. QED  BY <1>3, <2>1, <2>2
<1>. DEFINE C == CHOOSE g : g = W(g)
<1>6. Nodes(t) = UNION {C[n] : n \in 0 .. MaxDepth}
  BY DEF Nodes
<1>7. C = W(C)
  <2>. HIDE DEF W
  <2>. QED  BY <1>5
<1>. HIDE DEF C
<1>8. C[0] = {t} \ {NULL}
  BY <1>7, DepthType
<1>9. \A n \in 1 .. MaxDepth : C[n] = Below(C[n - 1])
  <2>1. \A n \in 1 .. MaxDepth : n \in 0 .. MaxDepth /\ n # 0
    BY DepthType
  <2>. QED  BY <1>7, <2>1 DEF Below
<1>. QED  BY <1>6, <1>8, <1>9

-----------------------------------------------------------------------------
(* The way to a key *)

\* Where the way to k ends.
Ends(s, k) == s = NULL \/ s.key = k

\* At depth n the way is at a subtree that has key k if the tree has it, or at its end.
Reached(s, n, k, t, K) ==
    /\ Ends(s, k) \/ Levels(s) + n <= Levels(t)
    /\ \E L \in SUBSET K : Fits(s, L) /\ (k \in K <=> k \in L)

\* That is what the way is.
LEMMA WayFacts ==
  ASSUME NEW t, NEW K, Fits(t, K), NEW k \in Int, NEW n \in 0 .. MaxDepth
  PROVE  Reached(Way(t, k)[n], n, k, t, K)
<1>. DEFINE at == Way(t, k)
            B == {m \in Nat : m <= MaxDepth /\ ~Reached(at[m], m, k, t, K)}
<1>1. at[0] = t /\ \A m \in 1 .. MaxDepth : at[m] = Toward(at[m - 1], k)
  BY WayIs
<1>. HIDE DEF at
<1>2. B = {}
  <2>. SUFFICES ASSUME B # {}  PROVE FALSE
    OBVIOUS
  <2>1. PICK m \in B : \A i \in B : m <= i
    <3>1. B \in SUBSET Nat
      OBVIOUS
    <3>. HIDE DEF B
    <3>. QED  BY <3>1, LeastExists
  <2>2. m \in Nat /\ m <= MaxDepth /\ ~Reached(at[m], m, k, t, K)
    OBVIOUS
  <2>3. m # 0
    <3>1. Reached(t, 0, k, t, K)
      <4>1. Levels(t) + 0 <= Levels(t)
        BY FitsFacts
      <4>. QED  BY <4>1 DEF Reached
    <3>. QED  BY <1>1, <2>2, <3>1
  <2>4. m - 1 \in Nat /\ m - 1 < m /\ m \in 1 .. MaxDepth
    BY <2>2, <2>3, DepthType
  <2>5. Reached(at[m - 1], m - 1, k, t, K)
    <3>1. m - 1 \notin B
      <4>. HIDE DEF B
      <4>. QED  BY <2>1, <2>2, <2>4
    <3>. QED  BY <2>2, <2>4, <3>1, DepthType
  <2>. DEFINE s == at[m - 1]
  <2>6. at[m] = Toward(s, k)
    BY <1>1, <2>4
  <2>. HIDE DEF s, B
  <2>7. CASE Ends(s, k)
    <3>1. Toward(s, k) = s
      BY <2>7 DEF Toward, Ends
    <3>2. Reached(s, m, k, t, K)
      BY <2>5, <2>7 DEF Reached, s
    <3>. QED  BY <2>2, <2>6, <3>1, <3>2
  <2>8. CASE ~Ends(s, k)
    <3>1. PICK L \in SUBSET K : Fits(s, L) /\ (k \in K <=> k \in L)
      BY <2>5 DEF Reached, s
    <3>2. s # NULL /\ s.key # k /\ Levels(s) + (m - 1) <= Levels(t)
      BY <2>5, <2>8 DEF Reached, Ends, s
    <3>3. Levels(s) \in Nat /\ Levels(t) \in Nat
      BY <3>1, FitsFacts
    <3>4. PICK A, C : /\ Fits(s.left, A) /\ Fits(s.right, C)
                      /\ Levels(s.left) < Levels(s) /\ Levels(s.right) < Levels(s)
                      /\ L = {s.key} \cup A \cup C /\ Divides(s.key, A, C)
      BY <3>1, <3>2, FitsFacts
    <3>5. Levels(s.left) \in Nat /\ Levels(s.right) \in Nat
      BY <3>4, FitsFacts
    <3>6. CASE k < s.key
      <4>1. Toward(s, k) = s.left
        BY <3>2, <3>6 DEF Toward
      <4>2. Levels(s.left) + m <= Levels(t)
        BY <2>2, <3>2, <3>3, <3>4, <3>5
      <4>3. A \in SUBSET K /\ (k \in K <=> k \in A)
        BY <3>1, <3>2, <3>4, <3>6 DEF Divides
      <4>4. Reached(s.left, m, k, t, K)
        BY <3>4, <4>2, <4>3 DEF Reached
      <4>. QED  BY <2>2, <2>6, <4>1, <4>4
    <3>7. CASE ~(k < s.key)
      <4>1. Toward(s, k) = s.right /\ s.key < k
        BY <3>2, <3>4, <3>7 DEF Toward, Divides
      <4>2. Levels(s.right) + m <= Levels(t)
        BY <2>2, <3>2, <3>3, <3>4, <3>5
      <4>3. C \in SUBSET K /\ (k \in K <=> k \in C)
        BY <3>1, <3>2, <3>4, <4>1 DEF Divides
      <4>4. Reached(s.right, m, k, t, K)
        BY <3>4, <4>2, <4>3 DEF Reached
      <4>. QED  BY <2>2, <2>6, <4>1, <4>4
    <3>. QED  BY <3>6, <3>7
  <2>. QED  BY <2>7, <2>8
<1>. QED  BY <1>2, DepthType DEF at

\* A search finds the node of the key if the tree has the key, and nothing if not.
LEMMA SearchFacts ==
  ASSUME NEW t, NEW K, Fits(t, K), NEW k \in Int
  PROVE  LET s == avltree_search(t, k)
         IN  /\ k \notin K => s = NULL
             /\ k \in K => s # NULL /\ s.key = k
             /\ \E L \in SUBSET K : Fits(s, L) /\ (k \in K <=> k \in L)
<1>. DEFINE s == avltree_search(t, k)
<1>1. Reached(s, MaxDepth, k, t, K)
  BY WayFacts, DepthType DEF avltree_search
<1>. HIDE DEF s
<1>2. PICK L \in SUBSET K : Fits(s, L) /\ (k \in K <=> k \in L)
  BY <1>1 DEF Reached
<1>3. Ends(s, k)
  <2>1. /\ Levels(s) \in Nat /\ Levels(t) \in Nat /\ Levels(t) <= MaxDepth
        /\ s # NULL => Levels(s) >= 1
    BY <1>2, FitsFacts
  <2>. QED  BY <1>1, <2>1, DepthType DEF Reached, Ends
<1>4. s = NULL => L = {}
  BY <1>2, FitsFacts
<1>5. s # NULL => s.key \in L
  BY <1>2, FitsFacts
<1>6. /\ k \notin K => s = NULL
      /\ k \in K => s # NULL /\ s.key = k
  BY <1>2, <1>3, <1>4, <1>5 DEF Ends
<1>. QED  BY <1>2, <1>6 DEF s

-----------------------------------------------------------------------------
(* The way back *)

\* What the call with subtree s returns when the one for its subtree has returned new.
Up(call, s, k, end, new) ==
    IF s = NULL \/ s.key = k THEN end
    ELSE IF k < s.key
    THEN Sized(IF call = "insert" THEN GrownLeft([s EXCEPT !.left = new], k)
               ELSE ShrunkLeft([s EXCEPT !.left = new]))
    ELSE Sized(IF call = "insert" THEN GrownRight([s EXCEPT !.right = new], k)
               ELSE ShrunkRight([s EXCEPT !.right = new]))

\* At the bound the way has ended.
LEMMA WayEnds ==
  ASSUME NEW t, NEW K, Fits(t, K), NEW k \in Int
  PROVE  Ends(Way(t, k)[MaxDepth], k)
<1>1. LET s == avltree_search(t, k)
      IN  (k \notin K => s = NULL) /\ (k \in K => s # NULL /\ s.key = k)
  BY SearchFacts
<1>. QED  BY <1>1 DEF Ends, avltree_search

\* The way back goes step by step.
LEMMA WayBackIs ==
  ASSUME NEW t, NEW K, Fits(t, K), NEW k \in Int, NEW call, NEW end
  PROVE  \E g : /\ WayBack(call, t, k, end) = g[0]
                /\ \A n \in 0 .. MaxDepth : g[n] = Up(call, Way(t, k)[n], k, end, g[n + 1])
<1>. DEFINE at == Way(t, k)
            M == MaxDepth
            E(n, v) == Up(call, at[n], k, end, v)
            From(m, g) == g = [n \in m .. M |-> E(n, g[n + 1])]
            B == {m \in Nat : m <= M /\ ~\E g : From(M - m, g)}
            W(g) == [n \in 0 .. M |-> E(n, g[n + 1])]
<1>1. \A v, w : E(M, v) = E(M, w)
  BY WayEnds DEF Ends, Up
<1>2. M \in Nat
  BY DepthType
<1>. HIDE DEF E, M
<1>3. B = {}
  <2>. SUFFICES ASSUME B # {}  PROVE FALSE
    OBVIOUS
  <2>1. PICK m \in B : \A i \in B : m <= i
    <3>1. B \in SUBSET Nat
      OBVIOUS
    <3>. HIDE DEF B
    <3>. QED  BY <3>1, LeastExists
  <2>2. m \in Nat /\ m <= M /\ ~\E g : From(M - m, g)
    OBVIOUS
  <2>3. m # 0
    <3>. DEFINE g == [n \in M .. M |-> E(n, NULL)]
    <3>1. From(M, g)
      <4>1. g = [n \in M .. M |-> E(n, g[n + 1])]
        <5>1. \A n \in M .. M : n = M
          BY <1>2
        <5>2. \A n \in M .. M : E(n, NULL) = E(n, g[n + 1])
          BY <1>1, <5>1
        <5>. QED  BY <5>2
      <4>. HIDE DEF g
      <4>. QED  BY <4>1
    <3>2. M - 0 = M
      BY <1>2
    <3>. HIDE DEF g, From
    <3>. QED  BY <2>2, <3>1, <3>2
  <2>4. PICK g : From(M - (m - 1), g)
    <3>1. m - 1 \in Nat /\ m - 1 < m
      BY <2>2, <2>3
    <3>2. m - 1 \notin B
      <4>. HIDE DEF B
      <4>. QED  BY <2>1, <2>2, <3>1
    <3>. HIDE DEF From
    <3>. QED  BY <1>2, <2>2, <3>1, <3>2
  <2>. DEFINE a == M - m
              h == [n \in a .. M |-> IF n = a THEN E(a, g[a + 1]) ELSE g[n]]
  <2>5. a \in Nat /\ M - (m - 1) = a + 1 /\ a < M
    BY <1>2, <2>2, <2>3
  <2>. HIDE DEF a
  <2>6. g = [n \in a + 1 .. M |-> E(n, g[n + 1])]
    BY <2>4, <2>5
  <2>7. \A n \in a .. M : h[n] = E(n, h[n + 1])
    <3>1. ASSUME NEW n \in a .. M, n = a  PROVE h[n] = E(n, h[n + 1])
      <4>1. a + 1 \in a .. M /\ a + 1 # a
        BY <1>2, <2>5
      <4>2. h[a + 1] = g[a + 1]
        BY <4>1
      <4>3. h[a] = E(a, g[a + 1])
        BY <3>1
      <4>. HIDE DEF h
      <4>. QED  BY <3>1, <4>2, <4>3
    <3>2. ASSUME NEW n \in a .. M, n # a, n # M  PROVE h[n] = E(n, h[n + 1])
      <4>1. n \in a + 1 .. M /\ n + 1 \in a .. M /\ n + 1 # a
        BY <1>2, <2>5, <3>2
      <4>2. h[n] = g[n] /\ h[n + 1] = g[n + 1]
        BY <3>2, <4>1
      <4>3. g[n] = E(n, g[n + 1])
        BY <2>6, <4>1
      <4>. HIDE DEF h
      <4>. QED  BY <4>2, <4>3
    <3>3. ASSUME NEW n \in a .. M, n # a, n = M  PROVE h[n] = E(n, h[n + 1])
      <4>1. n \in a + 1 .. M
        BY <1>2, <2>5, <3>3
      <4>2. h[n] = g[n]
        BY <3>3
      <4>3. g[n] = E(n, g[n + 1])
        BY <2>6, <4>1
      <4>. HIDE DEF h
      <4>. QED  BY <1>1, <3>3, <4>2, <4>3
    <3>. QED  BY <3>1, <3>2, <3>3
  <2>8. From(a, h)
    <3>1. h = [n \in a .. M |-> h[n]]
      OBVIOUS
    <3>. HIDE DEF h
    <3>. QED  BY <2>7, <3>1
  <2>. HIDE DEF h, From
  <2>. QED  BY <2>2, <2>8 DEF a
<1>4. \E g : g = W(g)
  <2>1. M \notin B
    BY <1>3
  <2>2. \E g : From(M - M, g)
    <3>. HIDE DEF From
    <3>. QED  BY <1>2, <2>1
  <2>3. M - M = 0
    BY <1>2
  <2>. QED  BY <2>2, <2>3
<1>. DEFINE C == CHOOSE g : g = W(g)
<1>5. WayBack(call, t, k, end) = C[0]
  BY DEF WayBack, E, M, Up
<1>6. C = W(C)
  <2>. HIDE DEF W
  <2>. QED  BY <1>4
<1>. HIDE DEF C
<1>7. \A n \in 0 .. M : C[n] = E(n, C[n + 1])
  BY <1>6
<1>. QED  BY <1>5, <1>7 DEF E, M

\* The keys after the call.
After(call, K, k) == IF call = "insert" THEN K \cup {k} ELSE K \ {k}

\* A node whose subtree on the way has come back from the call is a tree again.
LEMMA UpGood ==
  ASSUME NEW call, NEW s, NEW L, Fits(s, L), NEW k \in Int, ~Ends(s, k), NEW end, NEW new,
         \A A \in SUBSET L : Fits(Toward(s, k), A) => Good(new, After(call, A, k))
  PROVE  Good(Up(call, s, k, end, new), After(call, L, k))
<1>1. s # NULL /\ s.key # k
  BY DEF Ends
<1>2. PICK A, C : /\ Fits(s.left, A) /\ Fits(s.right, C) /\ Good(s.left, A) /\ Good(s.right, C)
                  /\ L = {s.key} \cup A \cup C /\ Divides(s.key, A, C)
  BY <1>1, FitsFacts
<1>3. PICK key, h, l, r : /\ s = Node(key, h, l, r)
                          /\ key = s.key /\ l = s.left /\ r = s.right
  BY <1>1, FitsFacts
<1>4. key \in Int /\ Good(l, A) /\ Good(r, C) /\ L = {key} \cup A \cup C /\ Divides(key, A, C)
  BY <1>2, <1>3 DEF Divides
<1>5. CASE k < key
  <2>. DEFINE N == After(call, A, k)
  <2>1. Good(new, N)
    BY <1>1, <1>2, <1>3, <1>5 DEF Toward
  <2>2. Divides(key, N, C)
    BY <1>4, <1>5 DEF Divides, After
  <2>3. {key} \cup N \cup C = After(call, L, k)
    BY <1>4, <1>5 DEF Divides, After
  <2>4. [s EXCEPT !.left = new] = Node(key, h, new, r)
    BY <1>3 DEF Node
  <2>. HIDE DEF N
  <2>5. /\ Good(Sized(GrownLeft(Node(key, h, new, r), k)), {key} \cup N \cup C)
        /\ Good(Sized(ShrunkLeft(Node(key, h, new, r))), {key} \cup N \cup C)
    BY <1>4, <1>5, <2>1, <2>2, GrownGood, ShrunkGood
  <2>6. Up(call, s, k, end, new) = Sized(IF call = "insert" THEN GrownLeft(Node(key, h, new, r), k)
                                         ELSE ShrunkLeft(Node(key, h, new, r)))
    BY <1>1, <1>3, <1>5, <2>4 DEF Up
  <2>. QED  BY <2>3, <2>5, <2>6
<1>6. CASE ~(k < key)
  <2>0. key < k
    BY <1>1, <1>3, <1>4, <1>6
  <2>. DEFINE N == After(call, C, k)
  <2>1. Good(new, N)
    BY <1>1, <1>2, <1>3, <1>6 DEF Toward
  <2>2. Divides(key, A, N)
    BY <1>4, <2>0 DEF Divides, After
  <2>3. {key} \cup A \cup N = After(call, L, k)
    BY <1>4, <2>0 DEF Divides, After
  <2>4. [s EXCEPT !.right = new] = Node(key, h, l, new)
    BY <1>3 DEF Node
  <2>. HIDE DEF N
  <2>5. /\ Good(Sized(GrownRight(Node(key, h, l, new), k)), {key} \cup A \cup N)
        /\ Good(Sized(ShrunkRight(Node(key, h, l, new))), {key} \cup A \cup N)
    BY <1>4, <2>0, <2>1, <2>2, GrownGood, ShrunkGood
  <2>6. Up(call, s, k, end, new) = Sized(IF call = "insert" THEN GrownRight(Node(key, h, l, new), k)
                                         ELSE ShrunkRight(Node(key, h, l, new)))
    BY <1>1, <1>3, <1>6, <2>4 DEF Up
  <2>. QED  BY <2>3, <2>5, <2>6
<1>. QED  BY <1>5, <1>6

\* If the end of the way has become a tree of the right keys, the whole tree has.
LEMMA WayBackGood ==
  ASSUME NEW t, NEW K, Fits(t, K), NEW k \in Int, NEW call, NEW end,
         \A A \in SUBSET K : Fits(avltree_search(t, k), A) => Good(end, After(call, A, k))
  PROVE  Good(WayBack(call, t, k, end), After(call, K, k))
<1>. DEFINE at == Way(t, k)
            M == MaxDepth
<1>1. PICK g : /\ WayBack(call, t, k, end) = g[0]
               /\ \A n \in 0 .. M : g[n] = Up(call, at[n], k, end, g[n + 1])
  BY WayBackIs
<1>. DEFINE Right(n) == /\ Ends(at[n], k) => at[n] = at[M]
                        /\ \A A \in SUBSET K : Fits(at[n], A) => Good(g[n], After(call, A, k))
            B == {m \in Nat : m <= M /\ ~Right(M - m)}
<1>2. at[0] = t /\ \A n \in 1 .. M : at[n] = Toward(at[n - 1], k)
  BY WayIs
<1>3. M \in Nat /\ Ends(at[M], k) /\ at[M] = avltree_search(t, k)
  BY DepthType, WayEnds DEF avltree_search
<1>4. ASSUME NEW n \in 0 .. M, Ends(at[n], k), at[n] = at[M]  PROVE Right(n)
  <2>1. g[n] = end
    BY <1>1, <1>4 DEF Up, Ends
  <2>. QED  BY <1>3, <1>4, <2>1
<1>. HIDE DEF at, M
<1>5. B = {}
  <2>. SUFFICES ASSUME B # {}  PROVE FALSE
    OBVIOUS
  <2>1. PICK m \in B : \A i \in B : m <= i
    <3>1. B \in SUBSET Nat
      OBVIOUS
    <3>. HIDE DEF B
    <3>. QED  BY <3>1, LeastExists
  <2>2. m \in Nat /\ m <= M /\ ~Right(M - m)
    OBVIOUS
  <2>3. m # 0
    <3>1. M - 0 = M /\ M \in 0 .. M
      BY <1>3
    <3>. HIDE DEF Right
    <3>. QED  BY <1>3, <1>4, <2>2, <3>1
  <2>. DEFINE n == M - m
  <2>4. n \in 0 .. M /\ n + 1 \in 1 .. M /\ M - (m - 1) = n + 1 /\ (n + 1) - 1 = n
    BY <1>3, <2>2, <2>3
  <2>5. Right(n + 1)
    <3>1. m - 1 \in Nat /\ m - 1 < m /\ m - 1 <= M
      BY <1>3, <2>2, <2>3
    <3>2. m - 1 \notin B
      <4>. HIDE DEF B
      <4>. QED  BY <2>1, <2>2, <3>1
    <3>. HIDE DEF Right, n
    <3>. QED  BY <2>4, <3>1, <3>2
  <2>6. ~Right(n)
    BY <2>2
  <2>. HIDE DEF n, B
  <2>7. at[n + 1] = Toward(at[n], k)
    BY <1>2, <2>4
  <2>8. CASE Ends(at[n], k)
    <3>1. at[n + 1] = at[n]
      BY <2>7, <2>8 DEF Toward, Ends
    <3>2. at[n] = at[M]
      BY <2>5, <2>8, <3>1
    <3>. HIDE DEF Right
    <3>. QED  BY <1>4, <2>4, <2>6, <2>8, <3>2
  <2>9. CASE ~Ends(at[n], k)
    <3>1. ASSUME NEW A \in SUBSET K, Fits(at[n], A)  PROVE Good(g[n], After(call, A, k))
      <4>1. \A X \in SUBSET A : Fits(Toward(at[n], k), X) => Good(g[n + 1], After(call, X, k))
        BY <2>5, <2>7
      <4>2. Good(Up(call, at[n], k, end, g[n + 1]), After(call, A, k))
        BY <2>9, <3>1, <4>1, UpGood
      <4>. QED  BY <1>1, <2>4, <4>2
    <3>. QED  BY <2>6, <2>9, <3>1
  <2>. QED  BY <2>8, <2>9
<1>6. Right(0)
  <2>1. M \notin B /\ M - M = 0
    BY <1>3, <1>5
  <2>. HIDE DEF Right
  <2>. QED  BY <1>3, <2>1
<1>. QED  BY <1>1, <1>2, <1>6

\* avltree_insert adds the key.
LEMMA InsertGood ==
  ASSUME NEW t, NEW K, Fits(t, K), NEW k \in Int, k \notin K
  PROVE  Good(avltree_insert(t, k), K \cup {k})
<1>. DEFINE new == Sized(avltree_create_node(k))
<1>1. avltree_search(t, k) = NULL
  BY SearchFacts
<1>2. avltree_insert(t, k) = WayBack("insert", t, k, new)
  BY <1>1 DEF avltree_insert
<1>3. Good(new, {k})
  <2>1. Good(NULL, {}) /\ Divides(k, {}, {})
    BY GoodNull DEF Divides
  <2>2. new = Sized(Node(k, 0, NULL, NULL))
    BY DEF avltree_create_node, Node
  <2>3. Good(Sized(Node(k, 0, NULL, NULL)), {k} \cup {} \cup {})
    BY <2>1, SizedGood
  <2>. HIDE DEF new
  <2>. QED  BY <2>2, <2>3
<1>. HIDE DEF new
<1>4. \A A \in SUBSET K : Fits(NULL, A) => Good(new, After("insert", A, k))
  <2>1. \A A \in SUBSET K : Fits(NULL, A) => A = {}
    BY FitsFacts
  <2>2. After("insert", {}, k) = {k}
    BY DEF After
  <2>. QED  BY <1>3, <2>1, <2>2
<1>5. Good(WayBack("insert", t, k, new), After("insert", K, k))
  BY <1>1, <1>4, WayBackGood
<1>6. After("insert", K, k) = K \cup {k}
  BY DEF After
<1>. QED  BY <1>2, <1>5, <1>6

-----------------------------------------------------------------------------
(* Deletion *)

\* avltree_maximum finds the node of the greatest key.
LEMMA MaximumFacts ==
  ASSUME NEW t, NEW K, Fits(t, K), t # NULL
  PROVE  LET m == avltree_maximum(t) IN m # NULL /\ m.key \in K /\ \A q \in K : q <= m.key
<1>1. PICK f : /\ f[0] = t /\ \A n \in 1 .. MaxDepth : f[n] = Rightward(f[n - 1])
               /\ avltree_maximum(t) = f[MaxDepth]
  BY MaximumIs
<1>. DEFINE Past(n) == /\ f[n] # NULL
                       /\ f[n].right = NULL \/ Levels(f[n]) + n <= Levels(t)
                       /\ \E L \in SUBSET K : Fits(f[n], L) /\ \A q \in K \ L : q <= f[n].key
            B == {m \in Nat : m <= MaxDepth /\ ~Past(m)}
<1>2. K \subseteq Int /\ MaxDepth \in Nat /\ Levels(t) \in Nat /\ Levels(t) <= MaxDepth
  BY FitsFacts, DepthType DEF Fits
<1>3. B = {}
  <2>. SUFFICES ASSUME B # {}  PROVE FALSE
    OBVIOUS
  <2>1. PICK m \in B : \A i \in B : m <= i
    <3>1. B \in SUBSET Nat
      OBVIOUS
    <3>. HIDE DEF B
    <3>. QED  BY <3>1, LeastExists
  <2>2. m \in Nat /\ m <= MaxDepth /\ ~Past(m)
    OBVIOUS
  <2>3. m # 0
    <3>1. Past(0)
      BY <1>1, <1>2
    <3>. HIDE DEF Past
    <3>. QED  BY <2>2, <3>1
  <2>4. m - 1 \in Nat /\ m - 1 < m /\ m \in 1 .. MaxDepth
    BY <1>2, <2>2, <2>3
  <2>5. Past(m - 1)
    <3>1. m - 1 \notin B
      <4>. HIDE DEF B
      <4>. QED  BY <2>1, <2>2, <2>4
    <3>. QED  BY <1>2, <2>2, <2>4, <3>1
  <2>. DEFINE s == f[m - 1]
  <2>6. PICK L \in SUBSET K : Fits(s, L) /\ \A q \in K \ L : q <= s.key
    BY <2>5
  <2>7. s # NULL /\ (s.right = NULL \/ Levels(s) + (m - 1) <= Levels(t)) /\ f[m] = Rightward(s)
    BY <1>1, <2>4, <2>5
  <2>. HIDE DEF s, B
  <2>8. CASE s.right = NULL
    <3>1. f[m] = s
      BY <2>7, <2>8 DEF Rightward
    <3>. QED  BY <2>2, <2>6, <2>7, <2>8, <3>1
  <2>9. CASE s.right # NULL
    <3>1. f[m] = s.right
      BY <2>7, <2>9 DEF Rightward
    <3>2. PICK A, C : /\ Fits(s.right, C) /\ Levels(s.right) < Levels(s)
                      /\ L = {s.key} \cup A \cup C /\ Divides(s.key, A, C)
      BY <2>6, <2>7, FitsFacts
    <3>3. Levels(s) \in Nat /\ Levels(s.right) \in Nat
      BY <2>6, <3>2, FitsFacts
    <3>4. s.right.key \in C
      BY <2>9, <3>2, FitsFacts
    <3>5. Levels(s.right) + m <= Levels(t)
      BY <1>2, <2>2, <2>7, <2>9, <3>2, <3>3
    <3>6. \A q \in K \ C : q <= s.right.key
      BY <1>2, <2>6, <3>2, <3>4 DEF Divides
    <3>. QED  BY <2>2, <2>6, <2>9, <3>1, <3>2, <3>5, <3>6
  <2>. QED  BY <2>8, <2>9
<1>4. Past(MaxDepth)
  BY <1>2, <1>3
<1>. DEFINE m == f[MaxDepth]
<1>5. PICK L \in SUBSET K : Fits(m, L) /\ \A q \in K \ L : q <= m.key
  BY <1>4
<1>6. m # NULL /\ (m.right = NULL \/ Levels(m) + MaxDepth <= Levels(t))
  BY <1>4
<1>. HIDE DEF m, Past
<1>7. PICK A, C : /\ Fits(m.right, C) /\ Levels(m) >= 1 /\ Levels(m) \in Nat /\ m.key \in Int
                  /\ L = {m.key} \cup A \cup C /\ Divides(m.key, A, C)
  BY <1>5, <1>6, FitsFacts
<1>8. m.right = NULL
  BY <1>2, <1>6, <1>7
<1>9. C = {}
  BY <1>7, <1>8, FitsFacts
<1>10. m.key \in K /\ \A q \in K : q <= m.key
  BY <1>2, <1>5, <1>7, <1>9 DEF Divides
<1>. QED  BY <1>1, <1>6, <1>10 DEF m

\* avltree_minimum finds the node of the least key.
LEMMA MinimumFacts ==
  ASSUME NEW t, NEW K, Fits(t, K), t # NULL
  PROVE  LET m == avltree_minimum(t) IN m # NULL /\ m.key \in K /\ \A q \in K : m.key <= q
<1>1. PICK f : /\ f[0] = t /\ \A n \in 1 .. MaxDepth : f[n] = Leftward(f[n - 1])
               /\ avltree_minimum(t) = f[MaxDepth]
  BY MinimumIs
<1>. DEFINE Past(n) == /\ f[n] # NULL
                       /\ f[n].left = NULL \/ Levels(f[n]) + n <= Levels(t)
                       /\ \E L \in SUBSET K : Fits(f[n], L) /\ \A q \in K \ L : f[n].key <= q
            B == {m \in Nat : m <= MaxDepth /\ ~Past(m)}
<1>2. K \subseteq Int /\ MaxDepth \in Nat /\ Levels(t) \in Nat /\ Levels(t) <= MaxDepth
  BY FitsFacts, DepthType DEF Fits
<1>3. B = {}
  <2>. SUFFICES ASSUME B # {}  PROVE FALSE
    OBVIOUS
  <2>1. PICK m \in B : \A i \in B : m <= i
    <3>1. B \in SUBSET Nat
      OBVIOUS
    <3>. HIDE DEF B
    <3>. QED  BY <3>1, LeastExists
  <2>2. m \in Nat /\ m <= MaxDepth /\ ~Past(m)
    OBVIOUS
  <2>3. m # 0
    <3>1. Past(0)
      BY <1>1, <1>2
    <3>. HIDE DEF Past
    <3>. QED  BY <2>2, <3>1
  <2>4. m - 1 \in Nat /\ m - 1 < m /\ m \in 1 .. MaxDepth
    BY <1>2, <2>2, <2>3
  <2>5. Past(m - 1)
    <3>1. m - 1 \notin B
      <4>. HIDE DEF B
      <4>. QED  BY <2>1, <2>2, <2>4
    <3>. QED  BY <1>2, <2>2, <2>4, <3>1
  <2>. DEFINE s == f[m - 1]
  <2>6. PICK L \in SUBSET K : Fits(s, L) /\ \A q \in K \ L : s.key <= q
    BY <2>5
  <2>7. s # NULL /\ (s.left = NULL \/ Levels(s) + (m - 1) <= Levels(t)) /\ f[m] = Leftward(s)
    BY <1>1, <2>4, <2>5
  <2>. HIDE DEF s, B
  <2>8. CASE s.left = NULL
    <3>1. f[m] = s
      BY <2>7, <2>8 DEF Leftward
    <3>. QED  BY <2>2, <2>6, <2>7, <2>8, <3>1
  <2>9. CASE s.left # NULL
    <3>1. f[m] = s.left
      BY <2>7, <2>9 DEF Leftward
    <3>2. PICK A, C : /\ Fits(s.left, A) /\ Levels(s.left) < Levels(s)
                      /\ L = {s.key} \cup A \cup C /\ Divides(s.key, A, C)
      BY <2>6, <2>7, FitsFacts
    <3>3. Levels(s) \in Nat /\ Levels(s.left) \in Nat
      BY <2>6, <3>2, FitsFacts
    <3>4. s.left.key \in A
      BY <2>9, <3>2, FitsFacts
    <3>5. Levels(s.left) + m <= Levels(t)
      BY <1>2, <2>2, <2>7, <2>9, <3>2, <3>3
    <3>6. \A q \in K \ A : s.left.key <= q
      BY <1>2, <2>6, <3>2, <3>4 DEF Divides
    <3>. QED  BY <2>2, <2>6, <2>9, <3>1, <3>2, <3>5, <3>6
  <2>. QED  BY <2>8, <2>9
<1>4. Past(MaxDepth)
  BY <1>2, <1>3
<1>. DEFINE m == f[MaxDepth]
<1>5. PICK L \in SUBSET K : Fits(m, L) /\ \A q \in K \ L : m.key <= q
  BY <1>4
<1>6. m # NULL /\ (m.left = NULL \/ Levels(m) + MaxDepth <= Levels(t))
  BY <1>4
<1>. HIDE DEF m, Past
<1>7. PICK A, C : /\ Fits(m.left, A) /\ Levels(m) >= 1 /\ Levels(m) \in Nat /\ m.key \in Int
                  /\ L = {m.key} \cup A \cup C /\ Divides(m.key, A, C)
  BY <1>5, <1>6, FitsFacts
<1>8. m.left = NULL
  BY <1>2, <1>6, <1>7
<1>9. A = {}
  BY <1>7, <1>8, FitsFacts
<1>10. m.key \in K /\ \A q \in K : m.key <= q
  BY <1>2, <1>5, <1>7, <1>9 DEF Divides
<1>. QED  BY <1>1, <1>6, <1>10 DEF m

\* Computing the height of a tree again changes nothing.
LEMMA ResizedSame ==
  ASSUME NEW t, NEW K, Good(t, K)
  PROVE  Resized(t) = t
<1>1. ASSUME t # NULL  PROVE Sized(t) = t
  <2>1. PICK k, h, l, r : t = Node(k, h, l, r) /\ h = Higher(l, r)
    <3>1. t = Node(t.key, Higher(t.left, t.right), t.left, t.right)
      BY <1>1, GoodSplit
    <3>. QED  BY <3>1
  <2>. QED  BY <2>1, SizedNode
<1>. QED  BY <1>1 DEF Resized

\* A node without one of its subtrees is replaced by the other.
LEMMA OneChildGood ==
  ASSUME NEW t, NEW L, Good(t.left, L), NEW R, Good(t.right, R), t.left = NULL \/ t.right = NULL
  PROVE  Good(Resized(OneChild(t)), L \cup R)
<1>1. CASE t.left # NULL
  <2>1. OneChild(t) = t.left /\ R = {}
    BY <1>1, GoodType DEF OneChild
  <2>. QED  BY <2>1, ResizedSame
<1>2. CASE t.left = NULL
  <2>1. OneChild(t) = t.right /\ L = {}
    BY <1>2, GoodType DEF OneChild
  <2>. QED  BY <2>1, ResizedSame
<1>. QED  BY <1>1, <1>2

\* The node that a search has found, and what is below it.
LEMMA FoundNode ==
  ASSUME NEW t, NEW K, Fits(t, K), NEW k \in K, NEW A, Fits(avltree_search(t, k), A)
  PROVE  LET s == avltree_search(t, k)
         IN  /\ s # NULL /\ s.key = k /\ k \in Int
             /\ \E L, R : /\ Fits(s.left, L) /\ Fits(s.right, R)
                          /\ Good(s.left, L) /\ Good(s.right, R)
                          /\ A \ {k} = L \cup R /\ Divides(k, L, R) /\ L \subseteq A /\ R \subseteq A
<1>. DEFINE s == avltree_search(t, k)
<1>1. k \in Int
  BY DEF Fits
<1>2. s # NULL /\ s.key = k
  BY <1>1, SearchFacts
<1>. HIDE DEF s
<1>3. PICK L, R : /\ Fits(s.left, L) /\ Fits(s.right, R) /\ Good(s.left, L) /\ Good(s.right, R)
                  /\ A = {s.key} \cup L \cup R /\ Divides(s.key, L, R)
  BY <1>2, FitsFacts DEF s
<1>4. A \ {k} = L \cup R
  BY <1>2, <1>3 DEF Divides
<1>. QED  BY <1>1, <1>2, <1>3, <1>4 DEF s

\* Deleting the greatest or the least key.
LEMMA DeleteEndGood ==
  ASSUME NEW t, NEW K, Fits(t, K), NEW k \in K,
         (\A q \in K : q <= k) \/ (\A q \in K : k <= q)
  PROVE  Good(delete_end(t, k), K \ {k})
<1>. DEFINE s == avltree_search(t, k)
            end == Resized(OneChild(s))
<1>1. k \in Int
  BY DEF Fits
<1>2. ASSUME NEW A \in SUBSET K, Fits(s, A)  PROVE Good(end, After("delete", A, k))
  <2>1. PICK L, R : /\ Good(s.left, L) /\ Good(s.right, R) /\ A \ {k} = L \cup R /\ Divides(k, L, R)
                    /\ L \subseteq A /\ R \subseteq A
    BY <1>2, FoundNode
  <2>2. L = {} \/ R = {}
    <3>1. L \subseteq Int /\ R \subseteq Int
      BY <2>1, GoodType
    <3>2. (\A q \in R : q <= k) \/ (\A q \in L : k <= q)
      BY <1>2, <2>1
    <3>. QED  BY <1>1, <2>1, <3>1, <3>2 DEF Divides
  <2>3. s.left = NULL \/ s.right = NULL
    <3>1. \A u, U : Good(u, U) /\ u # NULL => U # {}
      BY GoodSplit
    <3>. QED  BY <2>1, <2>2, <3>1
  <2>. HIDE DEF s
  <2>4. Good(end, L \cup R)
    BY <2>1, <2>3, OneChildGood
  <2>5. After("delete", A, k) = L \cup R
    BY <2>1 DEF After
  <2>. QED  BY <2>4, <2>5
<1>3. delete_end(t, k) = WayBack("delete", t, k, end)
  BY DEF delete_end
<1>. HIDE DEF end
<1>4. Good(WayBack("delete", t, k, end), After("delete", K, k))
  BY <1>1, <1>2, WayBackGood
<1>5. After("delete", K, k) = K \ {k}
  BY DEF After
<1>. QED  BY <1>3, <1>4, <1>5

\* The node that has lost its key is a tree of the others.
LEMMA SplicedGood ==
  ASSUME NEW s, NEW k, NEW L, Fits(s.left, L), Good(s.left, L), NEW R, Fits(s.right, R), Good(s.right, R),
         Divides(k, L, R), s # NULL, NEW h, s = Node(k, h, s.left, s.right)
  PROVE  Good(Resized(Spliced(s)), L \cup R)
<1>1. L \subseteq Int /\ R \subseteq Int
  BY GoodType
<1>2. CASE s.left # NULL /\ s.right # NULL /\ HEIGHT(s.left) > HEIGHT(s.right)
  <2>. DEFINE max == avltree_maximum(s.left).key
              l == delete_end(s.left, max)
  <2>1. max \in L /\ \A q \in L : q <= max
    BY <1>2, MaximumFacts
  <2>2. Spliced(s) = [s EXCEPT !.key = max, !.left = l]
    BY <1>2 DEF Spliced
  <2>. HIDE DEF max
  <2>3. Good(l, L \ {max})
    BY <2>1, DeleteEndGood
  <2>. HIDE DEF l
  <2>4. [s EXCEPT !.key = max, !.left = l] = Node(max, h, l, s.right)
    <3>1. PICK a, b : a = s.left /\ b = s.right
      OBVIOUS
    <3>2. s = Node(k, h, a, b)
      BY <3>1
    <3>3. [s EXCEPT !.key = max, !.left = l] = Node(max, h, l, b)
      <4>. DEFINE q == [s EXCEPT !.key = max, !.left = l]
                  fields == {"key", "height", "left", "right"}
      <4>1. DOMAIN s = fields /\ s.height = h /\ s.left = a /\ s.right = b
        BY <3>2 DEF Node
      <4>2. q = [f \in fields |-> IF f = "left" THEN l ELSE IF f = "key" THEN max ELSE s[f]]
        BY <4>1
      <4>3. Node(max, h, l, b)
              = [f \in fields |-> IF f = "left" THEN l ELSE IF f = "key" THEN max ELSE s[f]]
        BY <4>1 DEF Node
      <4>. QED  BY <4>2, <4>3
    <3>. QED  BY <3>1, <3>3
  <2>5. Divides(max, L \ {max}, R)
    BY <1>1, <2>1 DEF Divides
  <2>6. Good(Sized(Node(max, h, l, s.right)), {max} \cup (L \ {max}) \cup R)
    BY <2>3, <2>5, SizedGood
  <2>7. {max} \cup (L \ {max}) \cup R = L \cup R
    BY <2>1
  <2>8. Node(max, h, l, s.right) # NULL
    BY NodeFacts
  <2>. QED  BY <2>2, <2>4, <2>6, <2>7, <2>8 DEF Resized
<1>3. CASE s.left # NULL /\ s.right # NULL /\ ~(HEIGHT(s.left) > HEIGHT(s.right))
  <2>. DEFINE min == avltree_minimum(s.right).key
              r == delete_end(s.right, min)
  <2>1. min \in R /\ \A q \in R : min <= q
    BY <1>3, MinimumFacts
  <2>2. Spliced(s) = [s EXCEPT !.key = min, !.right = r]
    BY <1>3 DEF Spliced
  <2>. HIDE DEF min
  <2>3. Good(r, R \ {min})
    BY <2>1, DeleteEndGood
  <2>. HIDE DEF r
  <2>4. [s EXCEPT !.key = min, !.right = r] = Node(min, h, s.left, r)
    <3>1. PICK a, b : a = s.left /\ b = s.right
      OBVIOUS
    <3>2. s = Node(k, h, a, b)
      BY <3>1
    <3>3. [s EXCEPT !.key = min, !.right = r] = Node(min, h, a, r)
      <4>. DEFINE q == [s EXCEPT !.key = min, !.right = r]
                  fields == {"key", "height", "left", "right"}
      <4>1. DOMAIN s = fields /\ s.height = h /\ s.left = a /\ s.right = b
        BY <3>2 DEF Node
      <4>2. q = [f \in fields |-> IF f = "right" THEN r ELSE IF f = "key" THEN min ELSE s[f]]
        BY <4>1
      <4>3. Node(min, h, a, r)
              = [f \in fields |-> IF f = "right" THEN r ELSE IF f = "key" THEN min ELSE s[f]]
        BY <4>1 DEF Node
      <4>. QED  BY <4>2, <4>3
    <3>. QED  BY <3>1, <3>3
  <2>5. Divides(min, L, R \ {min})
    BY <1>1, <2>1 DEF Divides
  <2>6. Good(Sized(Node(min, h, s.left, r)), {min} \cup L \cup (R \ {min}))
    BY <2>3, <2>5, SizedGood
  <2>7. {min} \cup L \cup (R \ {min}) = L \cup R
    BY <2>1
  <2>8. Node(min, h, s.left, r) # NULL
    BY NodeFacts
  <2>. QED  BY <2>2, <2>4, <2>6, <2>7, <2>8 DEF Resized
<1>4. CASE s.left = NULL \/ s.right = NULL
  <2>1. Spliced(s) = OneChild(s)
    BY <1>4 DEF Spliced
  <2>. QED  BY <1>4, <2>1, OneChildGood
<1>. QED  BY <1>2, <1>3, <1>4

\* avltree_delete takes the key out, if it is there, and nothing else.
LEMMA DeleteGood ==
  ASSUME NEW t, NEW K, Fits(t, K), NEW k \in K
  PROVE  Good(avltree_delete(t, k), K \ {k})
<1>. DEFINE s == avltree_search(t, k)
            end == Resized(Spliced(s))
<1>1. k \in Int
  BY DEF Fits
<1>2. ASSUME NEW A \in SUBSET K, Fits(s, A)  PROVE Good(end, After("delete", A, k))
  <2>1. s # NULL /\ s.key = k
    BY <1>1, SearchFacts
  <2>2. PICK L, R : /\ Fits(s.left, L) /\ Fits(s.right, R) /\ Good(s.left, L) /\ Good(s.right, R)
                    /\ A \ {k} = L \cup R /\ Divides(k, L, R)
    BY <1>2, FoundNode
  <2>. HIDE DEF s
  <2>3. PICK h : s = Node(k, h, s.left, s.right)
    BY <1>2, <2>1, FitsFacts
  <2>4. Good(end, L \cup R)
    BY <2>1, <2>2, <2>3, SplicedGood
  <2>5. After("delete", A, k) = L \cup R
    BY <2>2 DEF After
  <2>. QED  BY <2>4, <2>5
<1>3. avltree_delete(t, k) = WayBack("delete", t, k, end)
  BY <1>1, SearchFacts DEF avltree_delete, delete_node
<1>. HIDE DEF end
<1>4. Good(WayBack("delete", t, k, end), After("delete", K, k))
  BY <1>1, <1>2, WayBackGood
<1>5. After("delete", K, k) = K \ {k}
  BY DEF After
<1>. QED  BY <1>3, <1>4, <1>5

-----------------------------------------------------------------------------
(* The nodes and the keys *)

\* Every node is a search tree of some of the keys.
LEMMA NodesFit ==
  ASSUME NEW t, NEW K, Fits(t, K), NEW s \in Nodes(t)
  PROVE  s # NULL /\ \E L \in SUBSET K : Fits(s, L)
<1>. DEFINE Fit(u) == u # NULL /\ \E L \in SUBSET K : Fits(u, L)
<1>1. PICK f : /\ f[0] = {t} \ {NULL} /\ \A n \in 1 .. MaxDepth : f[n] = Below(f[n - 1])
               /\ Nodes(t) = UNION {f[n] : n \in 0 .. MaxDepth}
  BY NodesIs
<1>. DEFINE B == {m \in Nat : m <= MaxDepth /\ ~(\A u \in f[m] : Fit(u))}
<1>2. B = {}
  <2>. SUFFICES ASSUME B # {}  PROVE FALSE
    OBVIOUS
  <2>1. PICK m \in B : \A i \in B : m <= i
    <3>1. B \in SUBSET Nat
      OBVIOUS
    <3>. HIDE DEF B
    <3>. QED  BY <3>1, LeastExists
  <2>2. m \in Nat /\ m <= MaxDepth /\ ~(\A u \in f[m] : Fit(u))
    OBVIOUS
  <2>3. m # 0
    BY <1>1, <2>2
  <2>4. m - 1 \in Nat /\ m - 1 < m /\ m - 1 <= MaxDepth /\ m \in 1 .. MaxDepth
    BY <2>2, <2>3, DepthType
  <2>5. \A u \in f[m - 1] : Fit(u)
    <3>1. m - 1 \notin B
      <4>. HIDE DEF B
      <4>. QED  BY <2>1, <2>4
    <3>. HIDE DEF Fit
    <3>. QED  BY <2>4, <3>1
  <2>6. ASSUME NEW u \in f[m]  PROVE Fit(u)
    <3>1. PICK v \in f[m - 1] : (u = v.left \/ u = v.right) /\ u # NULL
      BY <1>1, <2>4, <2>6 DEF Below
    <3>2. PICK L \in SUBSET K : v # NULL /\ Fits(v, L)
      BY <2>5
    <3>3. PICK A, C : Fits(v.left, A) /\ Fits(v.right, C) /\ L = {v.key} \cup A \cup C
      BY <3>2, FitsFacts
    <3>4. A \in SUBSET K /\ C \in SUBSET K
      BY <3>2, <3>3
    <3>. QED  BY <3>1, <3>3, <3>4
  <2>. QED  BY <2>2, <2>6
<1>3. PICK n \in 0 .. MaxDepth : s \in f[n]
  BY <1>1
<1>4. n \in Nat /\ n <= MaxDepth
  BY <1>3, DepthType
<1>5. n \notin B
  BY <1>2
<1>. HIDE DEF Fit
<1>6. Fit(s)
  BY <1>3, <1>4, <1>5
<1>. QED  BY <1>6 DEF Fit

\* The way to a key goes from node to node.
LEMMA WayNodes ==
  ASSUME NEW t, NEW K, Fits(t, K), NEW k
  PROVE  avltree_search(t, k) = NULL \/ avltree_search(t, k) \in Nodes(t)
<1>. DEFINE at == Way(t, k)
<1>1. PICK f : /\ f[0] = {t} \ {NULL} /\ \A n \in 1 .. MaxDepth : f[n] = Below(f[n - 1])
               /\ Nodes(t) = UNION {f[n] : n \in 0 .. MaxDepth}
  BY NodesIs
<1>2. at[0] = t /\ \A m \in 1 .. MaxDepth : at[m] = Toward(at[m - 1], k)
  BY WayIs
<1>. HIDE DEF at
<1>. DEFINE On(m) == at[m] = NULL \/ \E i \in 0 .. m : at[m] \in f[i]
            B == {m \in Nat : m <= MaxDepth /\ ~On(m)}
<1>3. B = {}
  <2>. SUFFICES ASSUME B # {}  PROVE FALSE
    OBVIOUS
  <2>1. PICK m \in B : \A i \in B : m <= i
    <3>1. B \in SUBSET Nat
      OBVIOUS
    <3>. HIDE DEF B
    <3>. QED  BY <3>1, LeastExists
  <2>2. m \in Nat /\ m <= MaxDepth /\ ~On(m)
    OBVIOUS
  <2>3. m # 0
    <3>1. On(0)
      BY <1>1, <1>2
    <3>. HIDE DEF On
    <3>. QED  BY <2>2, <3>1
  <2>4. m - 1 \in Nat /\ m - 1 < m /\ m - 1 <= MaxDepth /\ m \in 1 .. MaxDepth
    BY <2>2, <2>3, DepthType
  <2>5. On(m - 1)
    <3>1. m - 1 \notin B
      <4>. HIDE DEF B
      <4>. QED  BY <2>1, <2>4
    <3>. HIDE DEF On
    <3>. QED  BY <2>4, <3>1
  <2>6. at[m] = Toward(at[m - 1], k)
    BY <1>2, <2>4
  <2>7. CASE at[m] = at[m - 1]
    <3>1. \A i \in 0 .. m - 1 : i \in 0 .. m
      BY <2>4
    <3>. QED  BY <2>2, <2>5, <2>7, <3>1
  <2>8. CASE at[m] # at[m - 1]
    <3>1. at[m - 1] # NULL /\ (at[m] = at[m - 1].left \/ at[m] = at[m - 1].right)
      BY <2>6, <2>8 DEF Toward
    <3>2. PICK i \in 0 .. m - 1 : at[m - 1] \in f[i]
      BY <2>5, <3>1
    <3>3. i + 1 \in 1 .. MaxDepth /\ i + 1 \in 0 .. m /\ (i + 1) - 1 = i
      BY <2>2, <2>4, <3>2, DepthType
    <3>4. f[i + 1] = Below(f[i])
      BY <1>1, <3>3
    <3>5. at[m] = NULL \/ at[m] \in f[i + 1]
      BY <3>1, <3>2, <3>4 DEF Below
    <3>. QED  BY <2>2, <3>3, <3>5
  <2>. QED  BY <2>7, <2>8
<1>4. MaxDepth \in Nat
  BY DepthType
<1>5. On(MaxDepth)
  <2>1. MaxDepth \notin B
    BY <1>3
  <2>. HIDE DEF On
  <2>. QED  BY <1>4, <2>1
<1>6. avltree_search(t, k) = at[MaxDepth]
  BY DEF avltree_search, at
<1>. QED  BY <1>1, <1>5, <1>6

\* The keys of the tree are the keys of its nodes.
LEMMA KeysIs ==
  ASSUME NEW t, NEW K, Fits(t, K)
  PROVE  Keys(t) = K
<1>1. ASSUME NEW s \in Nodes(t)  PROVE s.key \in K
  <2>1. PICK L \in SUBSET K : s # NULL /\ Fits(s, L)
    BY NodesFit
  <2>2. s.key \in L
    BY <2>1, FitsFacts
  <2>. QED  BY <2>2
<1>2. ASSUME NEW k \in K  PROVE \E s \in Nodes(t) : s.key = k
  <2>1. k \in Int
    BY DEF Fits
  <2>2. avltree_search(t, k) # NULL /\ avltree_search(t, k).key = k
    BY <2>1, SearchFacts
  <2>. QED  BY <2>2, WayNodes
<1>. QED  BY <1>1, <1>2 DEF Keys

-----------------------------------------------------------------------------
(* The specification *)

\* The keys are a search tree that fits the model; idle stays in the tree of pids.
TreeFits == \E K : Fits(tree, K) /\ (kind = "pid" => 0 \in K)

\* What a step does to the keys.
Sees(K, L) ==
    \/ K = L
    \/ \E k \in Key : \/ k - 1 \in K /\ (\A q \in K : q < k) /\ L = K \cup {k}
                      \/ k \notin K /\ L = K \cup {k}
                      \/ k \in K /\ L = K \ {k}

\* A new tree has one key.
LEMMA InitFits ==
  ASSUME Init
  PROVE  Fits(tree, {IF kind = "pid" THEN 0 ELSE -1})
<1>. DEFINE k == IF kind = "pid" THEN 0 ELSE -1
<1>1. k \in Int /\ {k} \subseteq -1 .. MaxKey
  BY KeyAssumption
<1>2. tree = Node(k, 0, NULL, NULL)
  BY DEF Init, avltree_create_node, Node
<1>. HIDE DEF k
<1>3. NewTree(tree, {k})
  BY <1>1, <1>2 DEF NewTree
<1>4. Fits(tree, {k})
  BY <1>1, <1>3 DEF Fits
<1>. QED  BY <1>4 DEF k

\* Every operation keeps a search tree of the keys that there should be.
LEMMA StepFits ==
  ASSUME NEW K, Fits(tree, K), kind = "pid" => 0 \in K, [Next]_vars
  PROVE  \E L : Fits(tree', L) /\ Sees(K, L) /\ (kind' = "pid" => 0 \in L)
<1>1. K \subseteq -1 .. MaxKey /\ Key \subseteq Int /\ Key \subseteq -1 .. MaxKey /\ MaxKey \in Nat
  BY KeyAssumption DEF Fits, Key
<1>2. ASSUME NEW k \in Key, k \notin K, tree' = avltree_insert(tree, k), kind' = kind
      PROVE  Fits(tree', K \cup {k}) /\ (kind' = "pid" => 0 \in K \cup {k})
  <2>1. k \in Int
    BY <1>1
  <2>2. Good(avltree_insert(tree, k), K \cup {k})
    BY <1>2, <2>1, InsertGood
  <2>3. Good(tree', K \cup {k})
    BY <1>2, <2>2
  <2>. QED  BY <1>1, <1>2, <2>3 DEF Fits
<1>3. ASSUME NEW k \in Key, k \in K, tree' = avltree_delete(tree, k), kind' = kind,
             kind = "pid" => k # 0
      PROVE  Fits(tree', K \ {k}) /\ (kind' = "pid" => 0 \in K \ {k})
  <2>1. Good(avltree_delete(tree, k), K \ {k})
    BY <1>3, DeleteGood
  <2>2. Good(tree', K \ {k})
    BY <1>3, <2>1
  <2>. QED  BY <1>1, <1>3, <2>2 DEF Fits
<1>4. ASSUME NEW k \in Key
      PROVE  avltree_search(tree, k) = NULL <=> k \notin K
  <2>1. k \in Int
    BY <1>1
  <2>. QED  BY <2>1, SearchFacts
<1>5. CASE Alloc_pid
  <2>. DEFINE max == avltree_maximum(tree).key
              k == max + 1
  <2>1. 0 \in K /\ kind' = kind /\ max < MaxKey /\ tree' = avltree_insert(tree, k)
    BY <1>5 DEF Alloc_pid
  <2>2. tree # NULL
    BY <2>1, FitsFacts
  <2>3. max \in K /\ \A q \in K : q <= max
    BY <2>2, MaximumFacts
  <2>. HIDE DEF max
  <2>4. k \in Key /\ k \notin K /\ k - 1 \in K /\ \A q \in K : q < k
    BY <1>1, <2>1, <2>3 DEF Key
  <2>. HIDE DEF k
  <2>5. Fits(tree', K \cup {k}) /\ (kind' = "pid" => 0 \in K \cup {k})
    BY <1>2, <2>1, <2>4
  <2>6. Sees(K, K \cup {k})
    BY <2>4 DEF Sees
  <2>. QED  BY <2>5, <2>6
<1>6. ASSUME NEW k \in Key, Insert_pid(k) \/ Register_mailbox(k)
      PROVE  \E L : Fits(tree', L) /\ Sees(K, L) /\ (kind' = "pid" => 0 \in L)
  <2>1. avltree_search(tree, k) = NULL /\ tree' = avltree_insert(tree, k) /\ kind' = kind
    BY <1>6 DEF Insert_pid, Register_mailbox
  <2>2. k \notin K
    BY <1>4, <2>1
  <2>3. Fits(tree', K \cup {k}) /\ (kind' = "pid" => 0 \in K \cup {k})
    BY <1>2, <2>1, <2>2
  <2>4. Sees(K, K \cup {k})
    BY <2>2 DEF Sees
  <2>. QED  BY <2>3, <2>4
<1>7. ASSUME NEW k \in Key, Del_pid(k) \/ Destroy_mailbox(k)
      PROVE  \E L : Fits(tree', L) /\ Sees(K, L) /\ (kind' = "pid" => 0 \in L)
  <2>1. tree' = avltree_delete(tree, k) /\ kind' = kind /\ (kind = "pid" => k # 0)
    BY <1>7 DEF Del_pid, Destroy_mailbox
  <2>2. CASE k \in K
    <3>1. Fits(tree', K \ {k}) /\ (kind' = "pid" => 0 \in K \ {k})
      BY <1>3, <2>1, <2>2
    <3>2. Sees(K, K \ {k})
      BY <2>2 DEF Sees
    <3>. QED  BY <3>1, <3>2
  <2>3. CASE k \notin K
    <3>1. tree' = tree
      BY <1>4, <2>1, <2>3 DEF avltree_delete
    <3>. QED  BY <2>1, <3>1 DEF Sees
  <2>. QED  BY <2>2, <2>3
<1>8. CASE UNCHANGED vars
  BY <1>8 DEF vars, Sees
<1>. QED  BY <1>5, <1>6, <1>7, <1>8 DEF Next

\* The search trees stay what they are, at every step.
LEMMA TreeFitsAlways == Spec => []TreeFits
<1>1. Init => TreeFits
  <2>. SUFFICES ASSUME Init  PROVE TreeFits
    OBVIOUS
  <2>1. Fits(tree, {IF kind = "pid" THEN 0 ELSE -1})
    BY InitFits
  <2>. QED  BY <2>1 DEF TreeFits
<1>2. TreeFits /\ [Next]_vars => TreeFits'
  <2>. SUFFICES ASSUME TreeFits, [Next]_vars  PROVE TreeFits'
    OBVIOUS
  <2>1. PICK K : Fits(tree, K) /\ (kind = "pid" => 0 \in K)
    BY DEF TreeFits
  <2>2. PICK L : Fits(tree', L) /\ (kind' = "pid" => 0 \in L)
    BY <2>1, StepFits
  <2>3. Fits(tree, L)'
    BY <2>2 DEF Fits, Good, Made, Divides, NewTree, Higher, Node, NULL, HEIGHT
  <2>. QED  BY <2>2, <2>3 DEF TreeFits
<1>. QED  BY <1>1, <1>2, PTL DEF Spec

\* The search goes the right way at every node, and the heights are right.
LEMMA FitsSearchTree ==
  ASSUME TreeFits
  PROVE  SearchTree
<1>1. PICK K : Fits(tree, K)
  BY DEF TreeFits
<1>2. ASSUME NEW t \in Nodes(tree)
      PROVE  /\ \A k \in Keys(t.left) : k < t.key
             /\ \A k \in Keys(t.right) : t.key < k
             /\ t = Sized(t) \/ t = avltree_create_node(t.key)
  <2>1. PICK L \in SUBSET K : t # NULL /\ Fits(t, L)
    BY <1>1, NodesFit
  <2>2. PICK A, C : Fits(t.left, A) /\ Fits(t.right, C) /\ Divides(t.key, A, C)
    BY <2>1, FitsFacts
  <2>3. Keys(t.left) = A /\ Keys(t.right) = C
    BY <2>2, KeysIs
  <2>4. CASE Good(t, L)
    <3>1. PICK k, h, l, r : k = t.key /\ l = t.left /\ r = t.right /\ h = Higher(t.left, t.right)
      OBVIOUS
    <3>2. t = Node(k, h, l, r) /\ h = Higher(l, r)
      <4>1. t = Node(t.key, Higher(t.left, t.right), t.left, t.right)
        BY <2>1, <2>4, GoodSplit
      <4>. QED  BY <3>1, <4>1
    <3>3. Sized(Node(k, h, l, r)) = Node(k, Higher(l, r), l, r)
      BY SizedNode
    <3>4. t = Sized(t)
      BY <3>2, <3>3
    <3>. QED  BY <2>2, <2>3, <3>4 DEF Divides
  <2>5. CASE NewTree(t, L)
    <3>1. PICK k : t = Node(k, 0, NULL, NULL)
      BY <2>5 DEF NewTree
    <3>2. t.key = k
      BY <3>1, NodeFacts
    <3>3. t = avltree_create_node(k)
      BY <3>1 DEF avltree_create_node, Node
    <3>4. t = avltree_create_node(t.key)
      BY <3>2, <3>3
    <3>. QED  BY <2>2, <2>3, <3>4 DEF Divides
  <2>. QED  BY <2>1, <2>4, <2>5 DEF Fits
<1>. QED  BY <1>2 DEF SearchTree

\* Through every rotation and every key that moves up, smaller keys are on the left of
\* a node and greater ones on the right, and the heights are those of the subtrees.
THEOREM SearchTreeHolds == Spec => []SearchTree
<1>1. TreeFits => SearchTree
  BY FitsSearchTree
<1>. QED  BY <1>1, TreeFitsAlways, PTL

\* The keys of the tree are the set of pids that the process control works with.
THEOREM AvlIsKeySet == Spec => IsKeySet
<1>1. Init => Set!Init
  <2>. SUFFICES ASSUME Init  PROVE Set!Init
    OBVIOUS
  <2>1. Keys(tree) = {IF kind = "pid" THEN 0 ELSE -1}
    BY InitFits, KeysIs
  <2>. QED  BY <2>1 DEF Set!Init
<1>2. TreeFits /\ [Next]_vars => [Set!Next]_(Keys(tree))
  <2>. SUFFICES ASSUME TreeFits, [Next]_vars  PROVE [Set!Next]_(Keys(tree))
    OBVIOUS
  <2>1. PICK K : Fits(tree, K) /\ (kind = "pid" => 0 \in K)
    BY DEF TreeFits
  <2>2. PICK L : Fits(tree', L) /\ Sees(K, L)
    BY <2>1, StepFits
  <2>3. Keys(tree) = K
    BY <2>1, KeysIs
  <2>4. Keys(tree') = L
    BY <2>2, KeysIs
  <2>5. Keys(tree)' = L
    BY <2>4 DEF Keys, Nodes, MaxDepth, NULL
  <2>. QED  BY <2>2, <2>3, <2>5 DEF Sees, Key, Set!Next, Set!New, Set!Add, Set!Remove
<1>. QED  BY <1>1, <1>2, TreeFitsAlways, PTL DEF Spec, IsKeySet, Set!Spec
=============================================================================
