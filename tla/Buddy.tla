------------------------------- MODULE Buddy -------------------------------
(***************************************************************************)
(* The buddy system (kernel/mm/buddy.c): page groups of 2^bplevel pages,    *)
(* one free list per level, split by __alloc_pages and merged again by      *)
(* __free_pages.  Pages are counted from buddy.start_page.                  *)
(*                                                                         *)
(* Every call is one step: buddy.lock does not keep other processes out     *)
(* (lock.c), so the module speaks of calls that are not preempted by        *)
(* another call.                                                            *)
(***************************************************************************)
EXTENDS Integers, FiniteSets, SequencesExt

CONSTANTS
    MAX_BUDDY_ORDER,
    Groups,           \* groups of 2^MAX_BUDDY_ORDER pages that init_buddy finds
    PageNums,         \* the page_num that alloc_pages is called with
    HeldPairs         \* a group may be freed although its pair is held

ASSUME ConstantsAssumption ==
    /\ MAX_BUDDY_ORDER \in Nat /\ Groups \in Nat \ {0}
    /\ PageNums \subseteq Nat /\ HeldPairs \in BOOLEAN

Page == 0 .. Groups * 2 ^ MAX_BUDDY_ORDER - 1
Level == 0 .. MAX_BUDDY_ORDER
None == -1

VARIABLES
    bplevel,    \* level of the group that starts with a page, -1 in between
    freelist,   \* the free lists, newest first
    nr_free,    \* their lengths, as the system counts them
    held,       \* the groups that callers hold
    answer      \* what the last alloc_pages returned

vars == <<bplevel, freelist, nr_free, held, answer>>

Group(p, l) == p .. p + 2 ^ l - 1

-----------------------------------------------------------------------------
(* __free_pages *)

\* page_index ^ (1 << bplevel)
Pair(p, l) == IF (p \div 2 ^ l) % 2 = 0 THEN p + 2 ^ l ELSE p - 2 ^ l

\* The group that page p is in at level l, and what the loop finds beside it there.
Combined(p, l) == p - (p % 2 ^ l)
PairAt(p, l) == Pair(Combined(p, l), l)

\* _is_same_bplevel(pair_page, bplevel), whoever has the pair
Same(p, l) == bplevel[PairAt(p, l)] = l

\* The level at which a group of level l can be merged no more.
Reached(p, l) ==
    CHOOSE k \in l .. MAX_BUDDY_ORDER :
        /\ \A j \in l .. k - 1 : Same(p, j)
        /\ k < MAX_BUDDY_ORDER => ~Same(p, k)

\* The free lists after the pairs of levels l to k - 1 were merged into one group.
Relist(p, l, k) ==
    [j \in Level |->
        CASE j \in l .. k - 1 -> RemoveFirst(freelist[j], PairAt(p, j))
          [] j = k            -> <<Combined(p, k)>> \o freelist[k]
          [] OTHER            -> freelist[j]]

FreePages(p, l) ==
    LET k == Reached(p, l)
        merged == {PairAt(p, j) : j \in l .. k - 1}
    IN  /\ bplevel' = [q \in Page |-> IF q = Combined(p, k) THEN k
                                      ELSE IF q \in merged THEN -1 ELSE bplevel[q]]
        /\ freelist' = Relist(p, l, k)
        /\ nr_free' = [j \in Level |-> CASE j \in l .. k - 1 -> nr_free[j] - 1
                                         [] j = k            -> nr_free[j] + 1
                                         [] OTHER            -> nr_free[j]]

\* No pair that the loop would merge is held.
PairsFree(p, l) ==
    \A j \in l .. Reached(p, l) - 1 : \A h \in held : h.page # PairAt(p, j)

\* kfree gives a group back with the level that its page remembers; its test for
\* a slab page never holds, as _PAGE_RESERVED is set in every page.
Free(h) ==
    /\ h \in held
    /\ ~HeldPairs => PairsFree(h.page, bplevel[h.page])
    /\ FreePages(h.page, bplevel[h.page])
    /\ held' = held \ {h}
    /\ UNCHANGED answer

-----------------------------------------------------------------------------
(* __alloc_pages *)

\* The first power of two that holds page_num pages.
BpLevel(page_num) ==
    CHOOSE l \in 0 .. page_num : 2 ^ l >= page_num /\ \A k \in 0 .. l - 1 : 2 ^ k < page_num

\* The levels with a free group from l on.
Usable(l) == {k \in l .. MAX_BUDDY_ORDER : freelist[k] # <<>>}

\* Variant of Split that drops the pages between the request and the group.
Bad_Split(page, l, c) == [freelist EXCEPT ![c] = Tail(@)]

\* The upper halves of a group of level c go to the lists below.
Split(page, l, c) ==
    [j \in Level |->
        CASE j = c            -> Tail(freelist[c])
          [] j \in l .. c - 1 -> <<page + 2 ^ j>> \o freelist[j]
          [] OTHER            -> freelist[j]]

\* Variant of Taken that leaves the level of a split group as it was.
Bad_Taken(page, l, c) ==
    [q \in Page |-> IF \E j \in l .. c - 1 : q = page + 2 ^ j
                    THEN CHOOSE j \in l .. c - 1 : q = page + 2 ^ j
                    ELSE bplevel[q]]

\* The levels of the pages where the parts of the group begin.
Taken(page, l, c) ==
    [q \in Page |-> IF q = page THEN l
                    ELSE IF \E j \in l .. c - 1 : q = page + 2 ^ j
                         THEN CHOOSE j \in l .. c - 1 : q = page + 2 ^ j
                         ELSE bplevel[q]]

Alloc(page_num) ==
    LET l == BpLevel(page_num)
        c == CHOOSE k \in Usable(l) : \A i \in Usable(l) : k <= i
        page == Head(freelist[c])
    IN  /\ page_num > 0
        /\ Usable(l) # {}
        /\ freelist' = Split(page, l, c)
        /\ bplevel' = Taken(page, l, c)
        /\ nr_free' = [j \in Level |-> CASE j = c            -> nr_free[j] - 1
                                         [] j \in l .. c - 1 -> nr_free[j] + 1
                                         [] OTHER            -> nr_free[j]]
        /\ held' = held \cup {[page |-> page, level |-> l]}
        /\ answer' = page

\* No pages wanted, too many, or no group left.
Refuse(page_num) ==
    /\ page_num = 0 \/ Usable(BpLevel(page_num)) = {}
    /\ answer' = None
    /\ UNCHANGED <<bplevel, freelist, nr_free, held>>

-----------------------------------------------------------------------------
\* init_buddy frees the pages one after the other, which merges them into groups.
GroupPages == {p \in Page : p % 2 ^ MAX_BUDDY_ORDER = 0}
Init ==
    /\ bplevel = [p \in Page |-> IF p \in GroupPages THEN MAX_BUDDY_ORDER ELSE -1]
    /\ freelist = [l \in Level |-> IF l = MAX_BUDDY_ORDER
                                   THEN Reverse([i \in 1 .. Groups |-> (i - 1) * 2 ^ MAX_BUDDY_ORDER])
                                   ELSE <<>>]
    /\ nr_free = [l \in Level |-> IF l = MAX_BUDDY_ORDER THEN Groups ELSE 0]
    /\ held = {}
    /\ answer = None

Next ==
    \/ \E page_num \in PageNums : Alloc(page_num) \/ Refuse(page_num)
    \/ \E h \in held : Free(h)

Spec == Init /\ [][Next]_vars

-----------------------------------------------------------------------------
(* Properties *)

Listed(l) == ToSet(freelist[l])
FreePagesOf(l) == UNION {Group(p, l) : p \in Listed(l)}
AllFree == UNION {FreePagesOf(l) : l \in Level}

\* Every variable has its type.
TypeOK ==
    /\ bplevel \in [Page -> Level \cup {-1}]
    /\ freelist \in [Level -> Seq(Page)]
    /\ nr_free \in [Level -> Int]
    /\ held \subseteq [page : Page, level : Level]
    /\ answer \in Page \cup {None}

\* Every page is in exactly one group, a free or a held one: split and merge
\* neither lose pages nor give one away twice; nr_free counts the lists, in which
\* no group stands twice.
Parts == {[page |-> p, level |-> l] : p \in Page, l \in Level}
FreeParts == {g \in Parts : g.page \in Listed(g.level)}
EveryPageOnce ==
    /\ TypeOK
    /\ \A q \in Page : Cardinality({g \in FreeParts \cup held : q \in Group(g.page, g.level)}) = 1
    /\ \A l \in Level : IsInjective(freelist[l]) /\ nr_free[l] = Len(freelist[l])

\* The buddy system is the PageAllocator: in particular it refuses only when no
\* aligned group of free pages is left.
Abstract == INSTANCE PageAllocator WITH Pages <- Page, free <- AllFree
IsPageAllocator == Abstract!Spec

\* A group in the list of order l is 2^l free pages (buddy.h): none of them is held.
FreeIsFree ==
    \A l \in Level : \A p \in Listed(l) : \A h \in held :
        Group(p, l) \cap Group(h.page, h.level) = {}
=============================================================================
