------------------------------ MODULE NodeList ------------------------------
(***************************************************************************)
(* The linked lists of task nodes (list_... in kernel/pc/pc.c).  The nodes are *)
(* a function from the nodes in use to their fields; a node is named by the    *)
(* list it was made for and the pid of its task, the head of a list by NoPid.  *)
(* A node that is deleted is not freed: nobody reads it again but one who      *)
(* holds its address, and it leaves the function.                           *)
(***************************************************************************)
EXTENDS Integers, SequencesExt

CONSTANT MaxNodes    \* bound of the model: the longest list, in Nat

NULL  == <<>>
NoPid == -1
Node(level, pid) == <<level, pid>>
list_head(level) == Node(level, NoPid)

EmptyHead == [next |-> NULL, previous |-> NULL]

\* list_init
list_init(levels) == [n \in {list_head(l) : l \in levels} |-> EmptyHead]

\* The head of a list and the nodes behind it, along the next pointers.
Along(nodes, level) ==
    LET along[k \in 0 .. MaxNodes] ==
            IF k = 0 THEN <<list_head(level)>>
            ELSE LET way == along[k - 1]
                     next == nodes[Last(way)].next
                 IN  IF next = NULL THEN way ELSE Append(way, next)
    IN  along[MaxNodes]

\* The first node of pid in a list, as a set: empty stands for NULL.
list_find_by_pid(nodes, level, pid) ==
    LET way  == Along(nodes, level)
        hits == {k \in 2 .. Len(way) : way[k][2] = pid}
    IN  {way[k] : k \in {i \in hits : \A j \in hits : i <= j}}

\* Where the search for the end of the list stops.
TailOf(nodes, level) == Last(Along(nodes, level))

\* Sets a field, unless there is no such node or no list knows it any more.
Set(nodes, n, field, value) ==
    IF n \in DOMAIN nodes THEN [nodes EXCEPT ![n][field] = value] ELSE nodes

\* The rest of list_insert, behind the end of the list that was found.
LinkBehind(nodes, tail, n) ==
    [x \in DOMAIN nodes \cup {n} |->
        IF x = n THEN [next |-> NULL, previous |-> tail] ELSE Set(nodes, tail, "next", n)[x]]

list_insert(nodes, level, n) == LinkBehind(nodes, TailOf(nodes, level), n)

add_task_to_list(nodes, level, pid) == list_insert(nodes, level, Node(level, pid))

\* The neighbours of n are linked with each other.
Bridged(nodes, n) ==
    Set(Set(nodes, nodes[n].next, "previous", nodes[n].previous),
        nodes[n].previous, "next", nodes[n].next)

\* Variant of Unlinked that leaves the way back.
Bad_Unlinked(nodes, n) ==
    Restrict(Set(nodes, nodes[n].previous, "next", nodes[n].next), DOMAIN nodes \ {n})

Unlinked(nodes, n) == Restrict(Bridged(nodes, n), DOMAIN nodes \ {n})

\* The result of an operation on the node of pid, as a set of one element.
On(nodes, level, pid, Op(_, _)) ==
    LET found == list_find_by_pid(nodes, level, pid)
    IN  IF found = {} THEN {nodes} ELSE {Op(nodes, n) : n \in found}

list_delete(nodes, level, pid) == On(nodes, level, pid, Unlinked)

Moved(nodes, n) ==
    IF nodes[n].next = NULL THEN nodes
    ELSE LinkBehind(Bridged(nodes, n), TailOf(nodes, n[1]), n)

list_move_to_end(nodes, level, pid) == On(nodes, level, pid, Moved)
=============================================================================
