--------------------------- MODULE PageAllocator ---------------------------
(***************************************************************************)
(* What the buddy system of kernel/mm/buddy.c promises to its callers:      *)
(* aligned groups of 2^l free pages, as long as there is one.               *)
(***************************************************************************)
EXTENDS Integers

CONSTANTS
    Pages,             \* page indices, from 0
    MAX_BUDDY_ORDER,   \* the greatest group has 2^MAX_BUDDY_ORDER pages
    PageNums           \* how many pages callers ask for

VARIABLES
    free,    \* the free pages
    held,    \* the groups that callers hold: first page and level
    answer   \* what the last alloc_pages returned

Group(p, l) == p .. p + 2 ^ l - 1
GroupsOf(S, l) == {p \in S : p % 2 ^ l = 0 /\ Group(p, l) \subseteq S}
None == -1

Init == free = Pages /\ held = {} /\ answer = None

\* A request of n pages gets the next power of two, anywhere.
Level(n) == CHOOSE l \in 0 .. n : 2 ^ l >= n /\ \A k \in 0 .. l - 1 : 2 ^ k < n
Alloc(n) ==
    \E p \in GroupsOf(free, Level(n)) :
        /\ answer' = p
        /\ free' = free \ Group(p, Level(n))
        /\ held' = held \cup {[page |-> p, level |-> Level(n)]}

\* It is refused only if no such group is left.
Refuse(n) ==
    /\ \/ n = 0
       \/ Level(n) > MAX_BUDDY_ORDER
       \/ GroupsOf(free, Level(n)) = {}
    /\ answer' = None
    /\ UNCHANGED <<free, held>>

Free(h) ==
    /\ h \in held
    /\ held' = held \ {h}
    /\ free' = free \cup Group(h.page, h.level)
    /\ UNCHANGED answer

Next == (\E n \in PageNums : Alloc(n) \/ Refuse(n)) \/ (\E h \in held : Free(h))

Spec == Init /\ [][Next]_<<free, held, answer>>
=============================================================================
