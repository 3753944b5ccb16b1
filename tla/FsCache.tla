------------------------------ MODULE FsCache ------------------------------
(***************************************************************************)
(* The write-back caches of the file system: kernel/fs/fscache/fscache.c    *)
(* (512-byte and 4K buffers, the same algorithm twice) and the FAT buffers  *)
(* of kernel/fs/fat/utils.c, over the SD card of kernel/driver/sd.c.        *)
(*                                                                         *)
(* Only the shell uses the file system, so a call is one step.  A crash is  *)
(* the loss of power: the buffers are gone, the card stays.                 *)
(***************************************************************************)
EXTENDS Integers, FiniteSets, FiniteSetsExt, Functions

CONSTANTS
    Size,          \* buffers of the cache
    Sectors,       \* sectors (or clusters) of the partition that are used
    BASE,          \* fat_info.base_addr, where the partition begins on the card; with a
                   \* BASE below the last sector see fat_erase of Fat
    Values,        \* contents of a sector
    Kinds,         \* the kinds of buffers, see below
    Fails          \* the transfers that may fail: <<kind, "read" or "write">>

AllKinds == {"512", "4K", "FAT"}

ASSUME ConstantsAssumption ==
    /\ Size \in Nat \ {0} /\ Sectors \subseteq Nat /\ BASE \in Nat
    /\ Kinds \subseteq AllKinds
    /\ Fails \subseteq AllKinds \X {"read", "write"}
    /\ <<"FAT", "write">> \notin Fails   \* bound of the model

Buffer == 0 .. Size - 1
NoSector == -1           \* 0xffffffff
Zero == "zero"           \* an erased sector
Mixed == "mixed"         \* a buffer after a transfer that broke off
Data == Values \cup {Zero, Mixed}
Card == Sectors \cup {s + BASE : s \in Sectors}

VARIABLES
    kind,         \* directory buffers, those of an open file, or of the FAT
    buf,          \* cur, the bits of state, and the data
    clock_head,
    disk, copy,   \* the card; the second FAT on it
    owned,        \* the sectors (clusters) of the file
    content,      \* history: what was written last to each of them
    since         \* history: what it may be after a crash: written since the last flush

cache == <<buf, clock_head>>
card == <<disk, copy>>
history == <<kind, owned, content, since>>
vars == <<cache, card, history>>

\* A transfer is one block, or all those of a cluster.
SingleBlock == kind # "4K"

Empty == [cur |-> NoSector, ref |-> FALSE, dirty |-> FALSE, data |-> Zero]

-----------------------------------------------------------------------------
(* fs_victim *)

\* The buffer that the clock hand reaches after k steps.
Hand(k) == (clock_head + k) % Size
Idle == {k \in Buffer : ~buf[Hand(k)].ref /\ ~buf[Hand(k)].dirty}
Clean == {k \in Buffer : ~buf[Hand(k)].dirty}

\* How far the hand goes: the first sweep looks for a buffer without reference
\* and dirty bit, the second for one without dirty bit; or it is back where it was.
Steps == IF Idle # {} THEN Min(Idle)
         ELSE IF Clean # {} THEN Min(Clean) ELSE 0
Victim == Hand(Steps)

\* Where the hand is left.
After(i) == (i + 1) % Size

\* The first sweep takes the reference bits of the buffers that it passes.
Passed == {Hand(k) : k \in 0 .. (IF Idle # {} THEN Min(Idle) ELSE Size) - 1}
Swept == [i \in Buffer |-> IF i \in Passed THEN [buf[i] EXCEPT !.ref = FALSE] ELSE buf[i]]

-----------------------------------------------------------------------------
(* sd_write_block, sd_read_block, fs_write *)

\* The dirty buffers of bufs reach the card, but for those that are lost; of those
\* that are torn a part does.  The FAT is written twice.
Saved(old, bufs, lost, torn) ==
    [a \in DOMAIN old |->
        LET here == {i \in bufs : buf[i].dirty /\ buf[i].cur = a} IN
        IF here \ lost # {} THEN buf[Min(here \ lost)].data
        ELSE IF here \cap torn # {} THEN Mixed ELSE old[a]]

\* Variant of Stored that forgets the second FAT.
Bad_Stored(bufs, lost, torn) ==
    /\ disk' = Saved(disk, bufs, lost, torn)
    /\ UNCHANGED copy

Stored(bufs, lost, torn) ==
    /\ disk' = Saved(disk, bufs, lost, torn)
    /\ copy' = IF kind = "FAT" THEN Saved(copy, bufs, lost, torn) ELSE copy

\* Transfers that may get lost.
Losses(op, bufs) == IF <<kind, op>> \in Fails THEN SUBSET bufs ELSE {{}}

\* The callers compare the answer with 1.  A transfer of several blocks answers 1
\* when it fails; that of a single block answers the card's status, which is even
\* then, so that the failure is taken for success.
Noticed(lost) == lost # {} /\ ~SingleBlock

\* A transfer of several blocks that is lost may have written some of them.
Tears(lost) == IF Noticed(lost) THEN {{}, {Min(lost)}} ELSE {{}}

\* A torn sector is known to the caller, who got an error.
Torn(torn) == [s \in Sectors |-> IF \E i \in torn : buf[i].dirty /\ buf[i].cur = s + BASE
                                 THEN since[s] \cup {Mixed} ELSE since[s]]

-----------------------------------------------------------------------------
(* fs_read, read_fat_sector *)

\* Variant of Cached that compares without base_addr.
Bad_Cached(s) == {i \in Buffer : buf[i].cur = s}

\* The buffers that hold sector s; the search finds the first of them.
Cached(s) == {i \in Buffer : buf[i].cur = s + BASE}

Hit(s) ==
    /\ Cached(s) # {}
    /\ buf' = [buf EXCEPT ![Min(Cached(s))].ref = TRUE]
    /\ UNCHANGED <<clock_head, card, history>>

\* Variant of Evicted that forgets to write the victim back.
Bad_Evicted(lost, torn) == UNCHANGED card

\* The victim is written back.
Evicted(lost, torn) == Stored({Victim}, lost, torn)

\* The victim is written back and the sector read into it.  A failure of either
\* that is noticed ends the call, the latter with the old address on the buffer.
Miss(s) ==
    LET i == Victim IN
    /\ Cached(s) = {}
    /\ clock_head' = After(i)
    /\ \E lost \in Losses("write", {i}), unread \in Losses("read", {i}) : \E torn \in Tears(lost) :
        /\ Evicted(lost, torn)
        /\ buf' = IF buf[i].dirty /\ Noticed(lost) THEN Swept
                  ELSE IF Noticed(unread)
                  THEN [Swept EXCEPT ![i].dirty = FALSE, ![i].data = Mixed]
                  ELSE [Swept EXCEPT ![i] =
                           [cur |-> s + BASE, ref |-> TRUE, dirty |-> FALSE,
                            data |-> IF unread = {} THEN disk'[s + BASE] ELSE buf[i].data]]
        /\ since' = Torn(torn)
    /\ UNCHANGED <<kind, owned, content>>

Read(s) == s \in owned /\ (Hit(s) \/ Miss(s))

\* A caller changes what it has just read; state becomes 3.
Modify(s, v) ==
    /\ s \in owned /\ Cached(s) # {}
    /\ buf' = [buf EXCEPT ![Min(Cached(s))] = [@ EXCEPT !.ref = TRUE, !.dirty = TRUE, !.data = v]]
    /\ content' = [content EXCEPT ![s] = v]
    /\ since' = [since EXCEPT ![s] = @ \cup {v}]
    /\ UNCHANGED <<clock_head, card, kind, owned>>

-----------------------------------------------------------------------------
(* fs_fflush, fs_close *)

\* Variant of Flush that leaves out the last buffer.
Bad_Flush ==
    /\ Stored(0 .. Size - 2, {}, {})
    /\ buf' = [i \in Buffer |-> [buf[i] EXCEPT !.dirty = i = Size - 1 /\ @]]
    /\ since' = [s \in Sectors |-> {content[s]}]
    /\ UNCHANGED <<clock_head, kind, owned, content>>

\* The buffers are written in their order, up to a failure that is noticed.
Flush ==
    \E lost \in Losses("write", {i \in Buffer : buf[i].dirty}) : \E torn \in Tears(lost) :
        LET tried == IF Noticed(lost) THEN 0 .. Min(lost) - 1 ELSE Buffer
        IN  /\ Stored(tried \cup torn, lost, torn)
            /\ buf' = [i \in Buffer |-> [buf[i] EXCEPT !.dirty = i \notin tried /\ @]]
            /\ since' = IF Noticed(lost) THEN Torn(torn) ELSE [s \in Sectors |-> {content[s]}]
            /\ UNCHANGED <<clock_head, kind, owned, content>>

\* The power goes; the caches start empty (init_fat_buf, init_dir_buf, fs_open).
Crash ==
    /\ buf' = [i \in Buffer |-> Empty]
    /\ clock_head' = 0
    /\ content' = [s \in Sectors |-> disk[s + BASE]]
    /\ since' = [s \in Sectors |-> {disk[s + BASE]}]
    /\ UNCHANGED <<card, kind, owned>>

-----------------------------------------------------------------------------
\* A file gets a cluster: fs_alloc erases it on the card, fs_clr_4k writes the
\* victim back and makes it a buffer of zeros: both under its address without
\* base_addr, so that a reader gets what was on the card before.
NewCluster(s) ==
    LET i == Victim
        erased == [a \in Card |-> IF a = s THEN Zero ELSE disk[a]]
    IN  /\ kind = "4K" /\ s \notin owned
        /\ disk' = Saved(erased, {i}, {}, {})
        /\ buf' = [Swept EXCEPT ![i] = [Empty EXCEPT !.cur = s]]
        /\ clock_head' = After(i)
        /\ owned' = owned \cup {s}
        /\ UNCHANGED <<copy, kind, content, since>>

-----------------------------------------------------------------------------
Init ==
    /\ buf = [i \in Buffer |-> Empty]
    /\ clock_head = 0
    /\ \E v \in Values : disk = [a \in Card |-> v]
    /\ copy = disk
    /\ content = [s \in Sectors |-> disk[s + BASE]]
    /\ since = [s \in Sectors |-> {disk[s + BASE]}]
    /\ kind \in Kinds
    /\ owned = Sectors \/ (kind = "4K" /\ owned = Sectors \ {Max(Sectors)})

Next ==
    \/ \E s \in Sectors : Read(s)
    \/ \E s \in Sectors, v \in Values : Modify(s, v)
    \/ \E s \in Sectors : NewCluster(s)
    \/ Flush
    \/ Crash

Spec == Init /\ [][Next]_vars

-----------------------------------------------------------------------------
(* Properties *)

\* Every variable has its type.
TypeOK ==
    /\ buf \in [Buffer -> [cur : Card \cup {NoSector}, ref : BOOLEAN, dirty : BOOLEAN, data : Data]]
    /\ clock_head \in Buffer /\ kind \in Kinds
    /\ disk \in [Card -> Data] /\ copy \in [Card -> Data]
    /\ content \in [Sectors -> Data] /\ since \in [Sectors -> SUBSET Data]
    /\ owned \subseteq Sectors

\* What a reader of sector s gets.
View(s) == IF Cached(s) # {} THEN buf[Min(Cached(s))].data ELSE disk[s + BASE]

\* Whatever is evicted, flushed or read again, and whatever write fails, a reader
\* gets what was written last.
ReadsBack == \A s \in owned : View(s) = content[s]

\* No sector is in two buffers, which would hide a write from a reader.
OneBufferEach ==
    /\ TypeOK
    /\ \A i, j \in Buffer : buf[i].cur = buf[j].cur => i = j \/ buf[i].cur = NoSector

\* What was there at the last flush that reported success, or something written
\* since, is what the card holds whenever the power goes, unless a transfer broke
\* off and the caller got the error ("fflush, write global buffers to sd").
FlushedSurvives == \A s \in owned : disk[s + BASE] \in since[s]

\* Whatever is evicted and flushed in whatever order, the second FAT is a copy of
\* the first between two calls ("Write FAT and FAT copy").
MirrorsAgree == kind = "FAT" => \A s \in Sectors : disk[s + BASE] = copy[s + BASE]
=============================================================================
