------------------------------- MODULE Memory -------------------------------
(***************************************************************************)
(* The memory management from the start on: the boot memory manager (Bootmm)  *)
(* until init_buddy, then kmalloc and kfree (Slab over Buddy) and the segment *)
(* tree that the shell drives (SegTree).  Page p of Buddy is page             *)
(* buddy_start_pfn + p of the machine.                                       *)
(*                                                                         *)
(* Two bounds of the model: kmalloc and the tree follow the start in which    *)
(* init_buddy makes the only request, and they are not used in turns: they    *)
(* share nothing.                                                           *)
(***************************************************************************)
EXTENDS Slab

CONSTANTS
    KernelPages, max_pfn, MAX_INFO,     \* see Bootmm
    BootRequests,                       \* what others ask of bootmm_alloc_pages
    PagesOfPages,                       \* the pages that the structs page take
    OFFSET_TREE                         \* see SegTree

ASSUME MemoryAssumption ==
    /\ KernelPages \in Nat \ {0} /\ max_pfn \in Nat /\ MAX_INFO \in Nat \ {0}
    /\ PagesOfPages \in Nat \ {0} /\ KernelPages + PagesOfPages <= max_pfn
    /\ \A r \in BootRequests : r.pages \in Nat \ {0} /\ r.align \in Nat \ {0}
    /\ \E k \in 0 .. OFFSET_TREE : OFFSET_TREE = 2 ^ k

VARIABLES
    bmm, boot_given,     \* of Bootmm
    stage,               \* "boot", then "run" or, without memory, "stopped"
    tree, given          \* of SegTree

Boot == INSTANCE Bootmm
Tree == INSTANCE SegTree

boot == <<bmm, boot_given, stage>>
shell_tree == <<tree, given>>

-----------------------------------------------------------------------------
(* init_buddy *)

\* The last page of the last interval.
kernel_end_pfn == Max({bmm.info[k].end : k \in DOMAIN bmm.info})

BuddyGroup == 2 ^ MAX_BUDDY_ORDER
buddy_start_pfn == Boot!Align(kernel_end_pfn, BuddyGroup)
buddy_end_pfn == (max_pfn \div BuddyGroup) * BuddyGroup
BuddyPages == buddy_start_pfn .. buddy_end_pfn - 1

\* The array of the structs page; without room for it the system stops.
PagesRequest == [pages |-> PagesOfPages, type |-> Boot!_MM_KERNEL, align |-> 1]

init_buddy ==
    /\ stage = "boot"
    /\ Boot!bootmm_alloc_pages(PagesRequest)
    /\ stage' = IF boot_given' # boot_given THEN "run" ELSE "stopped"
    /\ UNCHANGED <<memory, shell_tree>>

BootRequest ==
    /\ stage = "boot"
    /\ \E r \in BootRequests : Boot!bootmm_alloc_pages(r)
    /\ UNCHANGED <<stage, memory, shell_tree>>

-----------------------------------------------------------------------------
\* Only init_buddy asked for pages, and Buddy has the groups that it finds.
PlainStart ==
    /\ stage = "run"
    /\ Cardinality(boot_given) = 2
    /\ Groups * BuddyGroup = Cardinality(BuddyPages)

MemoryCall ==
    /\ PlainStart /\ Tree!Init
    /\ MemNext
    /\ UNCHANGED <<boot, shell_tree>>

TreeCall ==
    /\ PlainStart /\ MemInit
    /\ Tree!Next
    /\ UNCHANGED <<boot, memory>>

SystemInit == Boot!Init /\ stage = "boot" /\ MemInit /\ Tree!Init

SystemNext == BootRequest \/ init_buddy \/ MemoryCall \/ TreeCall

SystemSpec == SystemInit /\ [][SystemNext]_<<boot, memory, shell_tree>>

-----------------------------------------------------------------------------
(* Properties *)

PagesOf(i) == i.start .. i.end

\* Intervals given at boot share no page, each is recorded under its type, the records
\* share no page and name used pages only.  The buddy system begins behind all of them,
\* save where the last page is the first of a group: init_buddy takes the number of the
\* last page for that of the next one.
BootApart ==
    /\ \A i, j \in boot_given : i # j => PagesOf(i) \cap PagesOf(j) = {}
    /\ \A i \in boot_given : \E k \in DOMAIN bmm.info :
          bmm.info[k].type = i.type /\ PagesOf(i) \subseteq PagesOf(bmm.info[k])
    /\ \A k, m \in DOMAIN bmm.info :
          /\ PagesOf(bmm.info[k]) \subseteq bmm.used
          /\ k # m => PagesOf(bmm.info[k]) \cap PagesOf(bmm.info[m]) = {}
    /\ stage = "run" /\ kernel_end_pfn % BuddyGroup # 0 =>
          \A i \in boot_given : PagesOf(i) \cap BuddyPages = {}

\* See SegTree: no page of the tree is given twice, and every node describes the free
\* runs of its leaves, from the first call of the shell on.
TreeSound == Tree!Init \/ Tree!Sound
=============================================================================
