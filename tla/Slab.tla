-------------------------------- MODULE Slab --------------------------------
(***************************************************************************)
(* kmalloc and kfree (kernel/mm/slab.c) over the buddy system: pages cut     *)
(* into objects of one size for small requests, groups of pages for large    *)
(* ones.                                                                    *)
(*                                                                         *)
(* Addresses count words.  A free object is found through links that lie in  *)
(* the pages themselves; the owner of an object may write every word of it,   *)
(* and the owner of a group every word of its pages.                          *)
(*                                                                         *)
(* kfree frees the page of a small object under the others, and the page      *)
(* stays the current one of its cache: small objects are only allocated here, *)
(* which is the only way in which the code keeps them apart.  So partial is   *)
(* always empty, and what slab_free does is not reached.                      *)
(***************************************************************************)
EXTENDS Buddy

CONSTANTS
    PageWords,   \* words of a page
    ObjSizes     \* objsize of the caches, in words

ASSUME SlabAssumption ==
    /\ PageWords \in Nat \ {0} /\ ObjSizes \subseteq Nat \ {0}
    \* as for the sizes up to 1536; a cache of 2048 bytes has no second chunk in a
    \* page, and slab_alloc takes page after page without finding an object
    /\ \A s \in ObjSizes : PageWords \div (s + 1) >= 2 /\ PageWords % (s + 1) # 0

VARIABLES
    cpu,       \* cache -> its current page and the address of the next link
    link,      \* the words that hold links
    objects    \* the small objects that callers hold

slab == <<cpu, link, objects>>
memory == <<vars, slab>>

NoPage == [page |-> None, freeobj |-> 0]

Base(page) == page * PageWords
Words(a, n) == a .. a + n - 1

\* An address at the start of a page, or none at all.
is_bound(a) == a % PageWords = 0

-----------------------------------------------------------------------------
(* format_slabpage *)

\* Variant of Chunks that counts them by the size of the object.
Bad_Chunks(s) == PageWords \div s

Chunks(s) == PageWords \div (s + 1)

\* Variant of Links whose chunks have no room for the link.
Bad_Links(p, s) ==
    [a \in {Base(p) + i * s : i \in 1 .. Chunks(s)} |->
        IF a = Base(p) + Chunks(s) * s THEN Base(p) ELSE a]

\* The first chunk is for slab_head.  A link stands in the first word of the chunk it
\* leads to, the last one in the word behind the chunks.
Links(p, s) ==
    [a \in {Base(p) + i * (s + 1) : i \in 1 .. Chunks(s)} |->
        IF a = Base(p) + Chunks(s) * (s + 1) THEN Base(p) ELSE a]

-----------------------------------------------------------------------------
(* slab_alloc *)

\* What a link that was overwritten leads to is anything; -1 stands for that.
Deref(l, a) == IF a \in DOMAIN l THEN l[a] ELSE -1

Without(l, S) == [a \in DOMAIN l \ S |-> l[a]]
WithLinks(l, new) ==
    [a \in DOMAIN l \cup DOMAIN new |-> IF a \in DOMAIN new THEN new[a] ELSE l[a]]

\* The object that the cache would give next; 0 when it has no page.
Offered(c) == IF c.freeobj = 0 THEN 0 ELSE Deref(link, c.freeobj)

\* The cache after it gave an object whose next link is at next: without a page
\* when that was the last one (the page goes to the list full, which nobody reads).
Advanced(l, page, next) ==
    IF is_bound(Deref(l, next)) THEN NoPage ELSE [page |-> page, freeobj |-> next]

\* The caller gets the object and writes on it.
Give(s, l, page, object) ==
    /\ cpu' = [cpu EXCEPT ![s] = Advanced(l, page, object + s + 1)]
    /\ link' = Without(l, Words(object, s))
    /\ objects' = objects \cup {[at |-> object, words |-> s]}

slab_alloc(s) ==
    \/ /\ ~is_bound(Offered(cpu[s]))
       /\ Give(s, link, cpu[s].page, Offered(cpu[s]))
       /\ UNCHANGED vars
    \* a new page; without one the system stops
    \/ /\ is_bound(Offered(cpu[s]))
       /\ Alloc(1)
       /\ LET l == WithLinks(link, Links(answer', s))
          IN  Give(s, l, answer', Deref(l, Base(answer') + s + 1))

-----------------------------------------------------------------------------
(* kmalloc and kfree *)

SlabPages == {p \in Page : \E o \in objects : o.at \div PageWords = p}

\* Pages for a size beyond the largest cache.
kmalloc_pages(page_num) ==
    /\ Alloc(page_num)
    /\ link' = Without(link, UNION {Words(Base(p), PageWords) : p \in Group(answer', BpLevel(page_num))})
    /\ UNCHANGED <<cpu, objects>>

kmalloc_refused(page_num) == Refuse(page_num) /\ UNCHANGED slab

kfree(h) == h.page \notin SlabPages /\ Free(h) /\ UNCHANGED slab

MemInit ==
    /\ Init
    /\ cpu = [s \in ObjSizes |-> NoPage]
    /\ link = <<>>
    /\ objects = {}

MemNext ==
    \/ \E s \in ObjSizes : slab_alloc(s)
    \/ \E n \in PageNums \ {0} : kmalloc_pages(n) \/ kmalloc_refused(n)
    \/ \E h \in held : kfree(h)

MemSpec == MemInit /\ [][MemNext]_memory

-----------------------------------------------------------------------------
(* Properties *)

\* The cut of every cache stays inside its page, and its next link, with the page, is
\* there to be read, whatever the owners of objects and of other pages write.
LinksIntact ==
    \A s \in ObjSizes : cpu[s] # NoPage =>
        /\ cpu[s].freeobj \in DOMAIN link
        /\ cpu[s].freeobj \div PageWords = cpu[s].page
        /\ [page |-> cpu[s].page, level |-> 0] \in held

\* Two objects never share a word; each lies in one page that was allocated for it,
\* behind the two words of slab_head.
ObjectsApart ==
    /\ \A o, p \in objects : o # p => Words(o.at, o.words) \cap Words(p.at, p.words) = {}
    /\ \A o \in objects :
          LET page == o.at \div PageWords
          IN  /\ [page |-> page, level |-> 0] \in held
              /\ Words(o.at, o.words) \subseteq Words(Base(page) + 2, PageWords - 2)
=============================================================================
