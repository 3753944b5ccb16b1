--------------------------------- MODULE Fat ---------------------------------
(***************************************************************************)
(* The FAT32 file system above its caches: the allocation of clusters, the  *)
(* root directory, and what the shell's commands do with them               *)
(* (kernel/fs/fat/fat.c, usr.c, utils.c, the file part of usr/myvi.c).      *)
(*                                                                         *)
(* Only the shell uses the file system, so a command changes the memory (FAT *)
(* and directory buffers, FSInfo) in one step; what it writes to the card is *)
(* a list of transfers, done one by one in the code's order, and the power   *)
(* may go between any two.  The volume is small: the FAT is one sector, the  *)
(* directory the first sector of the root, so that no buffer is evicted;     *)
(* transfers do not fail (FsCache has evictions and failures).  A file that  *)
(* the system writes has one cluster at most, for the editor's text does     *)
(* (BUFFER_SIZE); the kernel image is a longer one, written elsewhere.       *)
(***************************************************************************)
EXTENDS Integers, FiniteSets, FiniteSetsExt, Sequences

CONSTANTS
    TotalClusters,  \* total_data_clusters; they are numbered from 2
    FreeCount,      \* FSInfo: free clusters when the card was formatted; never updated
    Slots,          \* bound of the model: entries of the root directory
    Base,           \* fat_info.base_addr, in clusters
    Names,          \* file names
    Kernel,         \* the name of the kernel image
    Texts,          \* what the editor writes, shorter than a cluster
    MaxRestarts     \* bound of the model: how often the power goes

Root == 2                                  \* the cluster of the root directory
Cluster == 2 .. TotalClusters + 1
Free == 0
End == TotalClusters + 2                   \* 0x0FFFFFFF
NoCluster == TotalClusters + 3             \* 0xFFFFFFFF
Slot == 1 .. Slots

ASSUME ConstantsAssumption ==
    /\ TotalClusters \in Nat /\ TotalClusters >= 4
    /\ FreeCount \in 0 .. TotalClusters
    /\ Slots \in Nat \ {0} /\ Base \in Nat
    /\ Kernel \in Names
    /\ MaxRestarts \in Nat

\* A text that fills the cluster to the last byte.
Full == "full"
Data == Texts \cup {"old", "zero", "dots", "image"}

VARIABLES
    fat,        \* the FAT as the buffers hold it
    next_free,  \* FSInfo: the cluster given out last
    dir,        \* the root directory as the buffers hold it
    card,       \* what is on the card: FSInfo, FAT, directory and the clusters
    todo,       \* the transfers that the command still has to make
    command,    \* the command the shell is in, and the entry it is about
    restarts,
    content     \* history: what each file should hold, when that is known

memory == <<fat, next_free, dir>>
vars == <<memory, card, todo, command, restarts, content>>

Entry == [kind : {"none", "deleted", "file", "dir"}, name : Names,
          start : {0} \cup Cluster]
NoEntry == [kind |-> "none", name |-> Kernel, start |-> 0]

Live(d) == {s \in Slot : d[s].kind \in {"file", "dir"}}

-----------------------------------------------------------------------------
(* The FAT *)

\* An entry beyond the table is not part of the volume.
fs_modify_fat(f, c, val) == IF c \in Cluster THEN [f EXCEPT ![c] = val] ELSE f

fs_next_free(f, start) ==
    LET free == {c \in Cluster : c >= start /\ f[c] = Free}
    IN  IF free = {} THEN NoCluster ELSE Min(free)

\* The cluster after the one given out last, or, once that is past the number of
\* free clusters, the first free one.  It is marked before the next one is looked
\* for: without a next one the call fails and the cluster stays marked.
fs_alloc(f, h) ==
    LET clust == IF h + 1 > FreeCount + 1 THEN fs_next_free(f, 2) ELSE h + 1
        g     == fs_modify_fat(f, clust, End)
        next  == fs_next_free(g, clust)
        ok    == next <= TotalClusters + 1
    IN  [ok |-> ok, clust |-> clust, fat |-> g, next_free |-> IF ok THEN next - 1 ELSE h]

\* Where the walk along the chain of c is after k steps; 0 and End lead nowhere.
Walk(f, c) ==
    LET w[k \in 0 .. TotalClusters] ==
            IF k = 0 THEN c ELSE IF w[k - 1] \in Cluster THEN f[w[k - 1]] ELSE w[k - 1]
    IN  w
Chain(f, c) == {Walk(f, c)[k] : k \in 0 .. TotalClusters} \cap Cluster

\* The loop of fs_rm.
Freed(f, c) == [x \in Cluster |-> IF x \in Chain(f, c) THEN Free ELSE f[x]]

-----------------------------------------------------------------------------
(* The directory *)

\* fs_find: the search ends at the first entry that was never used.
fs_find(d, n) ==
    {s \in Live(d) : d[s].name = n /\ \A r \in Slot : r < s => d[r].kind # "none"}

\* fs_find_empty_entry, in the first sector.
Room(d) == {s \in Slot : d[s].kind \in {"none", "deleted"}}

\* Variant of Removed that makes the entry one that was never used.
Bad_Removed == NoEntry

\* What fs_rm and fs_mv leave of an entry: 0xE5 in place of the name.
Removed == [NoEntry EXCEPT !.kind = "deleted"]

fs_create_with_attr(d, n, attr) ==
    [d EXCEPT ![Min(Room(d))] = [kind |-> attr, name |-> n, start |-> 0]]

-----------------------------------------------------------------------------
(* The card *)

\* Variant of fs_fflush that writes the directory before the table.
Early_fs_fflush(f, h, d) == <<<<"next_free", h>>, <<"dir", d>>, <<"fat", f>>>>

\* Variant of fs_fflush that writes FSInfo last.
Bad_fs_fflush(f, h, d) == <<<<"fat", f>>, <<"dir", d>>, <<"next_free", h>>>>

fs_fflush(f, h, d) == <<<<"next_free", h>>, <<"fat", f>>, <<"dir", d>>>>

\* The erase of fs_alloc is addressed without base_addr, Base clusters too low.
\* What it hits in front of the first cluster is left out: with Base at least
\* TotalClusters the partition begins behind all such places.
Erase(img, c) == IF c - Base \in Cluster THEN [img EXCEPT ![c - Base] = "zero"] ELSE img

\* The single writer of a cluster, fs_write at position 0: a first cluster is
\* allocated when there is none; a text that ends with the cluster has endByte 0
\* and changes nothing.
fs_write(f, h, img, start, text) ==
    LET new   == fs_alloc(f, h)
        fresh == start = 0
        clust == IF fresh THEN new.clust ELSE start
        clear == IF fresh THEN Erase(img, clust) ELSE img
    IN  IF fresh /\ ~new.ok
        THEN [ok |-> FALSE, start |-> 0, fat |-> new.fat, next_free |-> h,
              erased |-> img, data |-> img]
        ELSE [ok |-> TRUE, start |-> clust,
              fat |-> IF fresh THEN new.fat ELSE f,
              next_free |-> IF fresh THEN new.next_free ELSE h,
              erased |-> clear,
              data |-> IF text = Full THEN clear ELSE [clear EXCEPT ![clust] = text]]

\* Variant of fs_close that forgets the buffers of the file.
Bad_fs_close(f, h, d, img) == fs_fflush(f, h, d)

\* The global buffers, then those of the file.
fs_close(f, h, d, img) == Append(fs_fflush(f, h, d), <<"data", img>>)

-----------------------------------------------------------------------------
(* The commands of the shell *)

Ready == todo = <<>>

\* The transfers of a list that are left on a card c: those in front that change
\* nothing (a buffer that is not dirty is not written) need no step.
Due(c, list) ==
    LET change == {i \in DOMAIN list : c[list[i][1]] # list[i][2]}
    IN  IF change = {} THEN <<>> ELSE SubSeq(list, Min(change), Len(list))

NoCommand == [op |-> "none", slot |-> 1]

\* The command ends with its last transfer.
Start(op, s) == command' = IF todo' = <<>> THEN NoCommand ELSE [op |-> op, slot |-> s]

\* Create the entry when there is none, open it, write, close.
CreateAndWrite(op, n, attr, text) ==
    LET d == IF fs_find(dir, n) # {} THEN dir ELSE fs_create_with_attr(dir, n, attr)
    IN  \E s \in fs_find(d, n) :
        \E w \in {fs_write(fat, next_free, card.data, d[s].start, text)} :
        \* fs_mkdir does not close after an error, save_file does not look for one
        LET e == [d EXCEPT ![s].start = w.start]
            closed == w.ok \/ op = "save"
        IN  /\ fat' = w.fat /\ next_free' = w.next_free
            /\ dir' = e
            /\ todo' = Due(card,
                   fs_fflush(fat, next_free, d) \o
                   (IF closed THEN <<<<"data", w.erased>>>>
                                   \o fs_close(w.fat, w.next_free, e, w.data)
                              ELSE <<>>))
            /\ content' = [content EXCEPT ![n] =
                              IF w.ok /\ text # Full THEN text
                              ELSE IF d[s].start = 0 THEN "none" ELSE @]
            /\ Start(op, s)
            /\ UNCHANGED <<card, restarts>>

\* vi: load_file, and save_file on :wq.  A file longer than the editor's buffer is
\* not loaded, and not saved.
Save(n, text) ==
    /\ Ready
    /\ \A s \in fs_find(dir, n) : Cardinality(Chain(fat, dir[s].start)) <= 1
    /\ fs_find(dir, n) # {} \/ Room(dir) # {}
    /\ CreateAndWrite("save", n, "file", text)

fs_mkdir(n) ==
    /\ Ready
    /\ fs_find(dir, n) = {} /\ Room(dir) # {}
    /\ CreateAndWrite("mkdir", n, "dir", "dots")

fs_rm(n) ==
    /\ Ready
    /\ \E s \in fs_find(dir, n) :
          /\ fat' = Freed(fat, dir[s].start)
          /\ dir' = [dir EXCEPT ![s] = Removed]
          /\ todo' = Due(card, fs_close(fat', next_free, dir', card.data))
          /\ Start("rm", s)
    /\ content' = [content EXCEPT ![n] = "none"]
    /\ UNCHANGED <<next_free, card, restarts>>

\* Variant of Moves that deletes the source first.
Bad_Moves(d, s, dest) ==
    LET gone == [d EXCEPT ![s] = Removed]
        made == fs_create_with_attr(gone, dest, d[s].kind)
        \* the slot of dest
        to   == Min(Room(gone))
    IN  <<gone, made, [made EXCEPT ![to].start = d[s].start]>>

\* The directories that fs_mv leaves on the card one after the other: with the new
\* name, with its contents, without the old name.
Moves(d, s, dest) ==
    LET made   == fs_create_with_attr(d, dest, d[s].kind)
        to     == Min(Room(d))
        copied == [made EXCEPT ![to].start = d[s].start]
    IN  <<made, copied, [copied EXCEPT ![s] = Removed]>>

fs_mv(src, dest) ==
    /\ Ready
    /\ fs_find(dir, dest) = {} /\ Room(dir) # {}
    /\ \E s \in fs_find(dir, src) :
          LET m == Moves(dir, s, dest)
          IN  /\ dir' = m[3]
              /\ todo' = Due(card, fs_fflush(fat, next_free, m[1])
                                   \o fs_close(fat, next_free, m[2], card.data)
                                   \o fs_close(fat, next_free, m[3], card.data))
              /\ Start("mv", s)
    /\ content' = [content EXCEPT ![dest] = content[src], ![src] = "none"]
    /\ UNCHANGED <<fat, next_free, card, restarts>>

\* A file that is opened, read and closed.
fs_cat(n) ==
    /\ Ready
    /\ todo' = Due(card, fs_close(fat, next_free, dir, card.data))
    /\ \E s \in fs_find(dir, n) : Start("cat", s)
    /\ UNCHANGED <<memory, card, restarts, content>>

\* One transfer reaches the card.
Transfer ==
    /\ todo # <<>>
    /\ card' = [card EXCEPT ![Head(todo)[1]] = Head(todo)[2]]
    /\ todo' = Due(card', Tail(todo))
    /\ command' = IF todo' = <<>> THEN NoCommand ELSE command
    /\ UNCHANGED <<memory, restarts, content>>

\* The power goes and the system starts again (init_fat).  Not inside rm and mv:
\* what the card holds there is looked at as it is.
init_fat ==
    /\ restarts < MaxRestarts
    /\ restarts' = restarts + 1
    /\ command.op \notin {"rm", "mv"}
    /\ fat' = card.fat /\ next_free' = card.next_free /\ dir' = card.dir
    /\ todo' = <<>>
    /\ command' = NoCommand
    /\ content' = IF Ready THEN content
                  ELSE [n \in Names |-> IF n = dir[command.slot].name THEN "none" ELSE content[n]]
    /\ UNCHANGED card

-----------------------------------------------------------------------------
\* A card that was formatted and got the kernel image, of two clusters.
Formatted == [c \in Cluster |-> CASE c = Root -> End [] c = 3 -> 4 [] c = 4 -> End
                                  [] OTHER -> Free]
FirstDir == [s \in Slot |-> IF s = 1 THEN [kind |-> "file", name |-> Kernel, start |-> 3]
                            ELSE NoEntry]

Init ==
    /\ fat = Formatted /\ next_free = 4 /\ dir = FirstDir
    /\ card = [fat |-> Formatted, next_free |-> 4, dir |-> FirstDir,
               data |-> [c \in Cluster |-> IF c \in {3, 4} THEN "image" ELSE "old"]]
    /\ todo = <<>>
    /\ command = NoCommand
    /\ restarts = 0
    /\ content = [n \in Names |-> IF n = Kernel THEN "image" ELSE "none"]

Next ==
    \/ \E n \in Names, t \in Texts \cup {Full} : Save(n, t)
    \/ \E n \in Names : fs_mkdir(n) \/ fs_rm(n) \/ fs_cat(n)
    \/ \E src, dest \in Names : fs_mv(src, dest)
    \/ Transfer
    \/ init_fat

Spec == Init /\ [][Next]_vars

-----------------------------------------------------------------------------
(* Properties *)

\* Every variable has its type (fat.h).
TypeOK ==
    /\ fat \in [Cluster -> {Free, End} \cup Cluster]
    /\ next_free \in 1 .. TotalClusters
    /\ dir \in [Slot -> Entry]
    /\ card \in [fat : [Cluster -> {Free, End} \cup Cluster], next_free : 1 .. TotalClusters,
                 dir : [Slot -> Entry], data : [Cluster -> Data]]
    /\ \A i \in DOMAIN todo : todo[i][1] \in {"fat", "next_free", "dir", "data"}
    /\ command \in [op : {"none", "save", "mkdir", "rm", "mv", "cat"}, slot : Slot]
    /\ content \in [Names -> Data \cup {"none"}]

\* In a table and a directory, the chains of the entries in S end, and no cluster
\* is in two of them or in that of the root directory.
Sound(f, d, S) ==
    LET started == {s \in S : d[s].start # 0}
    IN  /\ \A s \in started :
              Walk(f, d[s].start)[TotalClusters] = End /\ Root \notin Chain(f, d[s].start)
        /\ \A s, r \in started :
              s # r => Chain(f, d[s].start) \cap Chain(f, d[r].start) = {}

\* Whatever is created, written, moved and removed, and wherever save and mkdir
\* are cut off by the loss of power, the files have their clusters for themselves:
\* fs_alloc never gives out a cluster in use, fs_rm frees no other file's.  All that the
\* system keeps and writes has its type: no entry leads out of the volume.
ChainsApart == TypeOK /\ Sound(fat, dir, Live(dir))

\* What a restart would find at any moment is sound as well, but for the entry
\* that rm is removing (its clusters are freed first) and the old name in mv.
CardSound ==
    Sound(card.fat, card.dir,
          IF command.op \notin {"rm", "mv"} THEN Live(card.dir)
          ELSE Live(card.dir) \ {command.slot})

\* The first clusters that the directory on the card leads to.
Named(c) == {c.dir[s].start : s \in Live(c.dir)} \ {0}

\* A file disappears from the card only by rm: mv writes the new name before it
\* deletes the old one, in memory and on the card.
FilesKept == [][command.op # "rm" => Named(card) \subseteq Named(card')]_vars

\* Between two commands every cluster of a file holds what was last written to the
\* file, whatever was done to other files meanwhile.
ContentKept ==
    Ready => \A s \in Live(dir) :
        (dir[s].start # 0 /\ content[dir[s].name] # "none") =>
            \A c \in Chain(fat, dir[s].start) : card.data[c] = content[dir[s].name]

\* No two live entries have the same name, so that fs_find finds every file.
NamesOnce ==
    \A s \in Live(dir) : fs_find(dir, dir[s].name) = {s}
=============================================================================
