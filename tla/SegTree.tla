------------------------------ MODULE SegTree ------------------------------
(***************************************************************************)
(* The segment tree of kernel/mm/buddy.c, a second page allocator that the  *)
(* shell drives (inittree, mt, ft in usr/ps.c).  Node 1 is the root, 2t and *)
(* 2t + 1 are the children of t, and the pages are the leaves from          *)
(* OFFSET_TREE on.  Only the shell uses the tree: each call is one step.    *)
(***************************************************************************)
EXTENDS Integers, FiniteSets, FiniteSetsExt, SequencesExt

\* What they must satisfy is the MemoryAssumption of Memory.
CONSTANT OFFSET_TREE   \* number of pages, a power of two; 8 in the source

Pages == 0 .. OFFSET_TREE - 1
Node == 1 .. 2 * OFFSET_TREE - 1
Leaf(page) == page + OFFSET_TREE

VARIABLES
    tree,    \* node -> its interval and what is free in it
    given    \* the intervals that alloc_pages_tree has returned

vars == <<tree, given>>

-----------------------------------------------------------------------------
(* build_tree *)

Built ==
    LET interval[t \in Node] ==
            IF t = 1 THEN [left |-> 0, right |-> OFFSET_TREE - 1]
            ELSE LET father == interval[t \div 2]
                     middle == (father.left + father.right) \div 2
                 IN  IF t % 2 = 0 THEN [left |-> father.left, right |-> middle]
                     ELSE [left |-> middle + 1, right |-> father.right]
        size(t) == interval[t].right - interval[t].left + 1
    IN  [t \in Node |-> [left_address |-> interval[t].left, right_address |-> interval[t].right,
                         max_free_interval |-> size(t),
                         left_available |-> size(t), right_available |-> size(t)]]

Size(node) == node.right_address - node.left_address + 1

-----------------------------------------------------------------------------
(* update, update_leaf, update_leaves *)

\* Variant of Father that forgets the run across the middle.
Bad_Father(n0, n1, n2) ==
    [n0 EXCEPT !.max_free_interval = Max({n1.max_free_interval, n2.max_free_interval}),
               !.left_available = IF n1.max_free_interval = Size(n1)
                                  THEN n2.left_available + Size(n1) ELSE n1.left_available,
               !.right_available = IF n2.max_free_interval = Size(n2)
                                   THEN n1.right_available + Size(n2) ELSE n2.right_available]

\* Node n0 from its children: both free, one of them free, none of them free.
Father(n0, n1, n2) ==
    LET size == Size(n1)
        whole(n) == n.max_free_interval = size
        set(max, left, right) ==
            [n0 EXCEPT !.max_free_interval = max, !.left_available = left, !.right_available = right]
    IN  CASE whole(n1) /\ whole(n2) -> set(2 * size, 2 * size, 2 * size)
          [] whole(n1) /\ ~whole(n2) ->
                 set(n2.left_available + size, n2.left_available + size, n2.right_available)
          [] ~whole(n1) /\ whole(n2) ->
                 set(n1.right_available + size, n1.left_available, n1.right_available + size)
          [] OTHER ->
                 set(Max({n1.max_free_interval, n2.max_free_interval,
                          n1.right_available + n2.left_available}),
                     n1.left_available, n2.right_available)

\* The nodes above node t, up to the root, and what they say from there on: each one
\* follows from its children once these are right.
Above[t \in Node] == IF t = 1 THEN {} ELSE {t \div 2} \cup Above[t \div 2]
Update(tr, t) ==
    LET now[n \in Node] ==
            IF n \in Above[t] THEN Father(tr[n], now[2 * n], now[2 * n + 1]) ELSE tr[n]
    IN  now

UpdateLeaf(tr, t, free) ==
    Update([tr EXCEPT ![t] = [@ EXCEPT !.max_free_interval = free, !.left_available = free,
                                       !.right_available = free]], t)

\* The leaves of size pages from start on become free (1) or used (0), one by one.
UpdateLeaves(tr, start, size, free) ==
    LET after[i \in 0 .. size] ==
            IF i = 0 THEN tr ELSE UpdateLeaf(after[i - 1], Leaf(start + i - 1), free)
    IN  after[size]

-----------------------------------------------------------------------------
(* alloc_pages_tree, free_pages_tree *)

\* Where __alloc_pages_tree finds length pages below node t: the first free node
\* on the way down, or the run across the middle of a node.  A leaf on that way is free.
Found(t, length) ==
    LET found[n \in Node] ==
            IF tree[n].max_free_interval = Size(tree[n]) \/ n >= OFFSET_TREE THEN tree[n].left_address
            ELSE IF tree[2 * n].max_free_interval >= length THEN found[2 * n]
            ELSE IF tree[2 * n + 1].max_free_interval >= length THEN found[2 * n + 1]
            ELSE tree[2 * n].right_address - tree[2 * n].right_available + 1
    IN  found[t]

\* The assignments to a free node are overwritten by update_leaves, but for those
\* to a leaf, which mean the same.
Alloc(length) ==
    LET address == Found(1, length)
    IN  /\ length <= tree[1].max_free_interval   \* the code does not check: the caller's duty
        /\ tree' = UpdateLeaves(tree, address, length, 0)
        /\ given' = given \cup {[address |-> address, length |-> length]}

\* free_pages_tree sets the node of the interval to 0 and then corrects the
\* leaves and all nodes above them, once for every level that it comes back to.
NodesOf(address, length) ==
    {t \in Node : tree[t].left_address = address /\ Size(tree[t]) = length}
Zeroed(address, length) ==
    [t \in Node |-> IF t \in NodesOf(address, length)
                    THEN [tree[t] EXCEPT !.max_free_interval = 0, !.left_available = 0,
                                         !.right_available = 0]
                    ELSE tree[t]]

Free(interval) ==
    /\ interval \in given
    /\ tree' = UpdateLeaves(Zeroed(interval.address, interval.length),
                            interval.address, interval.length, 1)
    /\ given' = given \ {interval}

-----------------------------------------------------------------------------
Init == tree = Built /\ given = {}

Next ==
    \/ \E length \in 1 .. OFFSET_TREE : Alloc(length)
    \/ \E interval \in given : Free(interval)

Spec == Init /\ [][Next]_vars

-----------------------------------------------------------------------------
(* Properties *)

\* Every variable has its type.
TypeOK ==
    /\ \A t \in Node : /\ tree[t].left_address \in Pages /\ tree[t].right_address \in Pages
                       /\ tree[t].max_free_interval \in 0 .. Size(tree[t])
                       /\ tree[t].left_available \in 0 .. Size(tree[t])
                       /\ tree[t].right_available \in 0 .. Size(tree[t])
    /\ given \subseteq [address : Pages, length : 1 .. OFFSET_TREE]

\* The pages of an interval; those whose leaf says free.
Interval(address, length) == address .. address + length - 1
FreeLeaves == {p \in Pages : tree[Leaf(p)].max_free_interval = 1}

\* Intervals that are out at the same time share no page, and the leaves are
\* used exactly where an interval is out.
GivenApart ==
    /\ \A i, j \in given : i # j => Interval(i.address, i.length) \cap Interval(j.address, j.length) = {}
    /\ FreeLeaves = Pages \ UNION {Interval(i.address, i.length) : i \in given}

\* max_free_interval, left_available and right_available of every node are the
\* longest run of free pages in its interval, from its left and from its right end.
FreeRuns(node) ==
    {run \in [from : node.left_address .. node.right_address, length : 0 .. Size(node)] :
        /\ run.from + run.length - 1 <= node.right_address
        /\ Interval(run.from, run.length) \subseteq FreeLeaves}
Longest(runs) == Max({run.length : run \in runs} \cup {0})
Summary ==
    \A t \in Node :
        LET node == tree[t]
            runs == FreeRuns(node)
        IN  /\ node.max_free_interval = Longest(runs)
            /\ node.left_available = Longest({run \in runs : run.from = node.left_address})
            /\ node.right_available =
                   Longest({run \in runs : run.from + run.length - 1 = node.right_address})

Sound == TypeOK /\ GivenApart /\ Summary
=============================================================================
