------------------------------- MODULE Bootmm -------------------------------
(***************************************************************************)
(* The boot memory manager (kernel/mm/bootmm.c): a map of the used pages and  *)
(* a table of the intervals they are used in, one type each.  It never gets a *)
(* page back.  Intervals are counted in pages; the code keeps them in bytes,   *)
(* always whole pages.                                                       *)
(*                                                                         *)
(* init_buddy is the only caller in this system.  The other requests are what *)
(* bootmm_alloc_pages offers to the modules that start before it.             *)
(***************************************************************************)
EXTENDS Integers, FiniteSetsExt, Sequences, SequencesExt

\* What they must satisfy is the MemoryAssumption of Memory.
CONSTANTS
    KernelPages,    \* the pages of the kernel, from 0 on; 16 MB in the source
    max_pfn,        \* the pages there are
    MAX_INFO        \* length of the table

VARIABLES
    bmm,            \* the map (the set of used pages), the table, last_alloc_end
    boot_given      \* history: the intervals that were returned

boot_vars == <<bmm, boot_given>>

_MM_KERNEL == "kernel"
None == -1
Align(n, align) == ((n + align - 1) \div align) * align       \* align_func

-----------------------------------------------------------------------------
(* insert_mminfo *)

Behind(i, start) == i.end + 1 = start
Before(i, end) == i.start = end + 1

\* The intervals of the same type that the new one continues.
Neighbours(info, new) ==
    {k \in DOMAIN info :
        info[k].type = new.type /\ (Behind(info[k], new.start) \/ Before(info[k], new.end))}

\* The new interval between two that stand one after the other in the table.
Bridges(info, k, new) ==
    k + 1 \in DOMAIN info /\ info[k + 1].type = new.type /\ Before(info[k + 1], new.end)

Joined(info, k, new) ==
    IF ~Behind(info[k], new.start) THEN [info EXCEPT ![k].start = new.start]
    ELSE IF Bridges(info, k, new)
         THEN RemoveAt([info EXCEPT ![k].end = info[k + 1].end], k + 1)
         ELSE [info EXCEPT ![k].end = new.end]

Full(info, new) == Neighbours(info, new) = {} /\ Len(info) >= MAX_INFO

insert_mminfo(info, new) ==
    IF Neighbours(info, new) # {} THEN Joined(info, Min(Neighbours(info, new)), new)
    ELSE IF Full(info, new) THEN info ELSE Append(info, new)

-----------------------------------------------------------------------------
(* find_pages and bootmm_alloc_pages *)

\* Variant of find_pages that asks for the first page only.
Bad_find_pages(used, n, s_pfn, e_pfn, align) ==
    LET fits == {i \in Align(s_pfn, align) .. e_pfn - n : i \notin used}
    IN  IF fits = {} THEN None ELSE Min(fits)

\* n free pages between s_pfn and e_pfn; behind a used page the alignment is not
\* looked at again.
find_pages(used, n, s_pfn, e_pfn, align) ==
    LET from[i \in Nat] ==
            LET taken == (i .. i + n - 1) \cap used \cap 0 .. e_pfn - 1
            IN  IF i >= e_pfn THEN None
                ELSE IF i \in used THEN from[i + 1]
                ELSE IF taken # {} THEN from[Min(taken) + align]
                ELSE IF i + n <= e_pfn THEN i ELSE None
    IN  from[Align(s_pfn, align)]

\* Behind the last interval first, then in front of it.
FoundPage(r) ==
    LET front == find_pages(bmm.used, r.pages, 0, bmm.last_alloc_end, r.align)
        rear == find_pages(bmm.used, r.pages, bmm.last_alloc_end + 1, max_pfn, r.align)
    IN  IF rear # None THEN rear ELSE front

\* Pages for which the table has no room stay marked and are not returned.
bootmm_alloc_pages(r) ==
    LET page == FoundPage(r)
        new == [start |-> page, end |-> page + r.pages - 1, type |-> r.type]
    IN  /\ page # None
        /\ bmm' = [used |-> bmm.used \cup (new.start .. new.end),
                   last_alloc_end |-> new.end,
                   info |-> insert_mminfo(bmm.info, new)]
        /\ boot_given' = boot_given \cup (IF Full(bmm.info, new) THEN {} ELSE {new})

-----------------------------------------------------------------------------
KernelInfo == [start |-> 0, end |-> KernelPages - 1, type |-> _MM_KERNEL]

\* init_bootmm
Init ==
    /\ bmm = [used |-> 0 .. KernelPages - 1, last_alloc_end |-> KernelPages - 1,
              info |-> <<KernelInfo>>]
    /\ boot_given = {KernelInfo}
=============================================================================
