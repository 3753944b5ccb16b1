--------------------------------- MODULE Avl ---------------------------------
(***************************************************************************)
(* The tree behind pid_tree and mailbox_tree (kernel/pc/avl.c), with the     *)
(* operations that use it (kernel/pc/pid.c, kernel/pc/mail.c).               *)
(*                                                                         *)
(* A tree is NULL or a node with its subtrees as values: the operations      *)
(* replace every pointer on the way down by the subtree they return.  An     *)
(* operation is one step; a task switch in the middle of one is left out.    *)
(***************************************************************************)
EXTENDS Integers

CONSTANT MaxKey   \* bound of the model: no pid above it is handed out

ASSUME KeyAssumption == MaxKey \in Nat /\ MaxKey >= 2

VARIABLES
    tree,    \* the root
    kind     \* which of the two trees it is: "pid" or "mailbox"

vars == <<tree, kind>>

\* The null pointer, to which the code gives the height 0.
NULL == [height |-> 0]

HEIGHT(t) == IF t = NULL THEN 0 ELSE t.height

avltree_create_node(k) == [key |-> k, height |-> 0, left |-> NULL, right |-> NULL]

\* The node with its height computed anew.
Sized(t) ==
    [t EXCEPT !.height =
        1 + (IF HEIGHT(t.left) > HEIGHT(t.right) THEN HEIGHT(t.left) ELSE HEIGHT(t.right))]

-----------------------------------------------------------------------------
(* Rotations *)

left_left_rotation(k2) ==
    LET k1 == k2.left
    IN  Sized([k1 EXCEPT !.right = Sized([k2 EXCEPT !.left = k1.right])])

\* Variant of right_right_rotation that hangs the wrong subtree over.
Bad_right_right_rotation(k1) ==
    LET k2 == k1.right
    IN  Sized([k2 EXCEPT !.left = Sized([k1 EXCEPT !.right = k2.right])])

right_right_rotation(k1) ==
    LET k2 == k1.right
    IN  Sized([k2 EXCEPT !.left = Sized([k1 EXCEPT !.right = k2.left])])

left_right_rotation(k3) ==
    left_left_rotation([k3 EXCEPT !.left = right_right_rotation(k3.left)])

right_left_rotation(k1) ==
    right_right_rotation([k1 EXCEPT !.right = left_left_rotation(k1.right)])

-----------------------------------------------------------------------------
(* Search *)

\* There is a key for each level of a tree at least, and they are -1 .. MaxKey.
MaxDepth == MaxKey + 2

\* The arguments of the recursive calls on the way to key k, by their depth.
Way(t, k) ==
    LET at[n \in 0 .. MaxDepth] ==
            IF n = 0 THEN t
            ELSE LET s == at[n - 1]
                 IN  IF s = NULL \/ s.key = k THEN s ELSE IF k < s.key THEN s.left ELSE s.right
    IN  at

avltree_search(t, k) == Way(t, k)[MaxDepth]

avltree_minimum(t) ==
    LET at[n \in 0 .. MaxDepth] ==
            IF n = 0 THEN t ELSE IF at[n - 1].left = NULL THEN at[n - 1] ELSE at[n - 1].left
    IN  at[MaxDepth]

avltree_maximum(t) ==
    LET at[n \in 0 .. MaxDepth] ==
            IF n = 0 THEN t ELSE IF at[n - 1].right = NULL THEN at[n - 1] ELSE at[n - 1].right
    IN  at[MaxDepth]

-----------------------------------------------------------------------------
(* Insertion and deletion *)

LeftHigh(t)  == HEIGHT(t.left) - HEIGHT(t.right) = 2
RightHigh(t) == HEIGHT(t.right) - HEIGHT(t.left) = 2

\* The choice between the two rotations compares the key with that of the node
\* itself, which the branch has done already: it is always the single rotation.
GrownLeft(t, k) ==
    IF ~LeftHigh(t) THEN t
    ELSE IF k < t.key THEN left_left_rotation(t) ELSE left_right_rotation(t)
GrownRight(t, k) ==
    IF ~RightHigh(t) THEN t
    ELSE IF k > t.key THEN right_right_rotation(t) ELSE right_left_rotation(t)

\* After a deletion it is the heights of the grandchildren that decide.
ShrunkLeft(t) ==
    IF ~RightHigh(t) THEN t
    ELSE IF HEIGHT(t.right.left) > HEIGHT(t.right.right)
         THEN right_left_rotation(t) ELSE right_right_rotation(t)
ShrunkRight(t) ==
    IF ~LeftHigh(t) THEN t
    ELSE IF HEIGHT(t.left.right) > HEIGHT(t.left.left)
         THEN left_right_rotation(t) ELSE left_left_rotation(t)

\* What the recursive calls of avltree_insert or delete_node return, from the end of
\* the way to k back to its beginning: every node gets its new subtree, is
\* rebalanced and gets its height.
WayBack(call, t, k, end) ==
    LET at == Way(t, k)
        returned[n \in 0 .. MaxDepth] ==
            LET left == [at[n] EXCEPT !.left = returned[n + 1]]
                right == [at[n] EXCEPT !.right = returned[n + 1]]
            IN  IF at[n] = NULL \/ at[n].key = k THEN end
                ELSE IF k < at[n].key
                THEN Sized(IF call = "insert" THEN GrownLeft(left, k) ELSE ShrunkLeft(left))
                ELSE Sized(IF call = "insert" THEN GrownRight(right, k) ELSE ShrunkRight(right))
    IN  returned[0]

avltree_insert(t, k) ==
    LET node == avltree_search(t, k)
    IN  WayBack("insert", t, k, IF node = NULL THEN Sized(avltree_create_node(k)) ELSE node)

\* A node that has lost its key is replaced by its only subtree.
OneChild(t) == IF t.left # NULL THEN t.left ELSE t.right
Resized(t) == IF t = NULL THEN NULL ELSE Sized(t)

\* delete_node for the node with the greatest or the least key.
delete_end(t, k) == WayBack("delete", t, k, Resized(OneChild(avltree_search(t, k))))

\* Variant of Spliced that drops the other subtree of a node with one child.
Bad_Spliced(t) == t.left

\* The key of the node leaves the tree: one with two subtrees takes over the greatest
\* key of the left or the least of the right, whichever side is higher.
Spliced(t) ==
    IF t.left # NULL /\ t.right # NULL
    THEN IF HEIGHT(t.left) > HEIGHT(t.right)
         THEN LET max == avltree_maximum(t.left).key
              IN  [t EXCEPT !.key = max, !.left = delete_end(t.left, max)]
         ELSE LET min == avltree_minimum(t.right).key
              IN  [t EXCEPT !.key = min, !.right = delete_end(t.right, min)]
    ELSE OneChild(t)

delete_node(t, k) == WayBack("delete", t, k, Resized(Spliced(avltree_search(t, k))))

avltree_delete(t, k) == IF avltree_search(t, k) = NULL THEN t ELSE delete_node(t, k)

-----------------------------------------------------------------------------
(* The operations on the two trees *)

\* pid_tree begins with the idle process, mailbox_tree with a node of nobody.
Init ==
    /\ kind \in {"pid", "mailbox"}
    /\ tree = avltree_create_node(IF kind = "pid" THEN 0 ELSE -1)

Alloc_pid ==
    /\ kind = "pid"
    /\ avltree_maximum(tree).key < MaxKey
    /\ tree' = avltree_insert(tree, avltree_maximum(tree).key + 1)
    /\ UNCHANGED kind

\* Only the shell and the clock are created under a pid of their own.
Insert_pid(k) ==
    /\ kind = "pid" /\ k \in {1, 2}
    /\ avltree_search(tree, k) = NULL
    /\ tree' = avltree_insert(tree, k)
    /\ UNCHANGED kind

\* Idle never ends.
Del_pid(k) ==
    /\ kind = "pid" /\ k # 0
    /\ tree' = avltree_delete(tree, k)
    /\ UNCHANGED kind

Register_mailbox(k) ==
    /\ kind = "mailbox"
    /\ avltree_search(tree, k) = NULL
    /\ tree' = avltree_insert(tree, k)
    /\ UNCHANGED kind

Destroy_mailbox(k) ==
    /\ kind = "mailbox"
    /\ avltree_search(tree, k) # NULL
    /\ tree' = avltree_delete(tree, k)
    /\ UNCHANGED kind

Key == 0 .. MaxKey

Next ==
    \/ Alloc_pid
    \/ \E k \in Key : Insert_pid(k) \/ Del_pid(k) \/ Register_mailbox(k) \/ Destroy_mailbox(k)

Spec == Init /\ [][Next]_vars

-----------------------------------------------------------------------------
(* Properties *)

\* The nodes of a tree, level by level, and their keys.
Nodes(t) ==
    LET level[n \in 0 .. MaxDepth] ==
            (IF n = 0 THEN {t} ELSE UNION {{s.left, s.right} : s \in level[n - 1]}) \ {NULL}
    IN  UNION {level[n] : n \in 0 .. MaxDepth}
Keys(t) == {s.key : s \in Nodes(t)}

\* Through every rotation and every key that moves up, a search goes the way of
\* the key it is after: smaller keys are on the left, greater ones on the right.  The
\* heights that decide on the next rotation are right (a new root has none yet).
\* That the tree is balanced is no property of the code: after an insertion in
\* between two keys it is not.
SearchTree ==
    \A t \in Nodes(tree) :
        /\ \A k \in Keys(t.left) : k < t.key
        /\ \A k \in Keys(t.right) : t.key < k
        /\ t = Sized(t) \/ t = avltree_create_node(t.key)

\* The trees are the sets that Sched works with: insertion and deletion lose no
\* other pid, and the pid that Alloc_pid takes is one above all in use.
Set == INSTANCE KeySet WITH keys <- Keys(tree)
IsKeySet == Set!Spec
=============================================================================
