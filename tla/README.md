# HugePie in TLA+

HugePie is a small operating system for a MIPS board: processes with a multilevel
feedback scheduler, mail between processes, a keyboard, a buddy allocator, FAT32 and
ext2 on an SD card, and a shell. This directory models its stateful parts, checks the
models with TLC and proves the central ones with TLAPS. All paths below are relative
to `src/HugePie/`; `PROJECT.json` gives the lines of code behind every definition.

## 1. The system

One processor, no memory protection in use, one address space. A process runs until a
timer interrupt (`pc_schedule`), an exception or a system call (`do_exceptions`) takes
the processor away. Both entries run with interrupts off. Everything else, including
`pc_create`, mail, `kmalloc` and the keyboard's reader, runs inside a process with
interrupts on and may be preempted between any two instructions; only `pc_kill` masks
interrupts for its second half. The shell is the only process that reads the keyboard
and uses the file system.

| component | code | state | operations | what is hard | what makes it correct | module |
|---|---|---|---|---|---|---|
| process control | `kernel/pc/pc.c`, `pid.c` | `task_lists`, `exit_list`, `current_task`, `pid_tree`, `mailbox_tree`, the task structs | tick, create, kill, exception, reap | kill and create race with the tick; the shell is restarted in the handler that killed it | every process in one list, pids and mailboxes owned once, no error stop, feedback rule, no starvation; the linked lists agree with the queues | `Sched`, `NodeList`, `TaskList` |
| interrupts, exceptions, context switch | `arch/mips32` | saved registers, mask | save, dispatch, restore | every exception and system call ends the process | as above | `Sched` (in part) |
| AVL tree | `kernel/pc/avl.c` | pointer tree of keys | insert, delete, search, maximum | rotations, keys moved by deletion; a task switch in between | search tree, stored heights right, no key lost | `Avl`, `KeySet` |
| mail | `kernel/pc/mail.c` | per pid: linked list, tail, length | register, destroy, send, read | send and read interleave; a sender or the owner dies inside a call | bounded FIFO, nothing lost or invented | `Mail`, `MailQueue` |
| boot, system calls | `kernel/init.c`, `kernel/syscall` | none | start of idle, shell, clock | handlers that are registered and never called | as process control | `Sched` (in part) |
| keyboard | `kernel/driver/ps2.c` | ring, flags, indices, decoder, modifiers, LED command | handler, getkey, init_buffer | handler interrupts getkey; ring overflow; acknowledgement between bytes | no key twice, order, LED and modifiers agree with the keys | `Keyboard` |
| buddy system | `kernel/mm/buddy.c` | level of each group, free lists, counts | alloc_pages, free_pages | split and merge arithmetic | every page in one group; groups held are disjoint | `Buddy`, `PageAllocator` |
| segment tree | `kernel/mm/buddy.c` | array of nodes | build, alloc, free | summary fields over the middle | nodes describe the free runs | `SegTree` in `Memory` |
| slab | `kernel/mm/slab.c` | free lists in a page | kmalloc, kfree | links inside the pages; kfree frees the whole page | objects disjoint, links intact | `Slab` in `Memory` |
| boot memory | `kernel/mm/bootmm.c` | list of typed intervals, bitmap | insert, remove, alloc, then init_buddy | the search goes on where the last one ended and then in front; joined intervals | nothing given twice, the buddy system begins behind it all | `Bootmm`, `Memory` |
| lock | `kernel/lock/lock.c` | spin | lockup, unlock | never waits | none: it excludes nobody | hazard only |
| SD driver | `kernel/driver/sd.c` | none | read and write blocks | error codes differ with the count | errors reach the caller | `FsCache` (in part) |
| file system caches | `kernel/fs/fscache`, `kernel/fs/fat/utils.c` | buffers with address, reference and dirty bit, clock hand | read, modify, write back, flush, clear | eviction, failing transfers, power loss | reads return the last write, flush survives | `FsCache` |
| FAT32 | `kernel/fs/fat` | FAT chains, directory entries, FSInfo | open, create, read, write, alloc, rm | multi-cluster files, order of updates | chains are disjoint lists, a file keeps its contents and its name | `Fat`, `FileRead`, `Files` |
| ext2 | `kernel/fs/ext2` | bitmaps, inodes, directories, all on the card | find, create, mv, rm, cat | record lengths; the order of the transfers of mv | every file is found with its blocks, inodes are owned once, records fill the block | `Ext2`, `FileRead`, `Files` |
| shell | `usr/ps.c`, `ls.c`, `exec.c` | command line, `current_fs` | commands | one command line for two file systems | as the components | `Sched`, `Memory`, `Files` (in part) |
| editor | `usr/myvi.c` | text, cursor, page, mode, last line | keys of three modes, load, save | what is stale on the screen; buffer limits | cursor in the text and on the screen | `Editor` in `Files` |
| display, log, time | `kernel/driver/vga.c`, `utils`, `kernel/time` | screen | print | none | formatting | not modelled |

Interaction: the shell calls `pc_create` and `pc_kill`; processes call the mail wrappers
of `pc.c`; `pc_clear_exit` destroys the mailbox and the pid of a dead process;
`ps2_handler` shares the ring with `kernel_getkey`; `kmalloc`/`kfree` call the buddy
system; FAT code calls the caches, which call the SD driver.

The full list of hazards, each at its line and with the properties aimed at it, is under
`hazards` in `PROJECT.json`.

## 2. The modules

**`Sched`** has one action per kernel entry. `Tick` is the whole of `pc_schedule`: the
choice of the next task, the slice and the move to a lower queue, the exit list and its
clearing. `Exception` is `do_exceptions` with the restart of the shell. `pc_create` is
two steps (the pid is taken, the task is queued) and `pc_kill` two (checks, masked
section): those are the points where another process can run and see something. The
queues are sequences of pids, `task` maps a pid to its `task_struct`, `call` says which
process is between the two steps of a call. `halted` records which `while(1)` error stop
was reached. `pid_tree` and `mailbox_tree` are sets; that a tree walk may be preempted in
the middle of a rotation is not in this model.

**`NodeList`** is the linked list of `pc.c`, with `next`, `previous` and a head per list, and
**`TaskList`** extends `Sched` with it: every action of `Sched` is taken together with the
list operations that the code makes in it, in their order (`pc_find_next` moves a node to
the end, `pc_schedule` deletes and adds, `pc_clear_exit` deletes from the front, `pc_kill`
adds before it deletes). `ListsAgree` then says that walking the pointers gives the
sequences of `Sched`, which is why `Sched` may have sequences. `RaceSpec` cuts
`list_insert` in `pc_create` into the search for the end (`FindTail`) and the assignments
(`Link`), with ticks in between.

**`MailQueue`** is the promise: a queue of at most `MAILBOX_SIZE` mails, opened and closed
with its owner. **`Mail`** is the code, one step per statement of `SendMail` and
`ReadMail`, with `length++` a load and a store, the linked nodes with `next` and
`previous`, and the reading of a pointer that kmalloc left uninitialised as a choice.
`TakeTurns` restricts the scheduler so that no two calls on one mailbox overlap. `Mail`
implements `MailQueue` when calls take turns (`IsMailQueue`); `mail_race`, without that
restriction, shows what is lost.

**`KeySet`** is what `Sched` takes the trees for: a set of pids, with the next pid one above
all of them. **`Avl`** is the tree, as a value: every function of `avl.c` returns the new
subtree, as the code does, with the same rotations. Recursion is written as the way down to a key
(`Way`) and the way back up (`WayBack`), functions of the depth; that no way is longer than
`MaxDepth` is proved. `kind` says whether it is the
tree of pids, which only grows at its end and at pids 1 and 2, or that of mailboxes.

**`Keyboard`** has a step per byte of the handler and per statement of `kernel_getkey` and
`init_buffer`. Codes in the ring are numbered, so that "lost", "twice" and "out of order"
can be said; `roomy` and `alone` record whether the user has so far left the ring room, or
waited for each key. The keyboard itself (which codes a key sends, when it acknowledges) is the
environment.

**`PageAllocator`** is the promise of the buddy system: aligned groups of free pages, or
a refusal when there is none. **`Buddy`** is the code with its levels, lists and
counts. `HeldPairs = FALSE` lets a group be freed only while no pair it would meet is
held, which is the condition under which the code is right. **`Slab`** extends it with
`kmalloc` and `kfree`: a step of `Slab` is one of `Buddy` with what happens to the
objects, and `link` is the part of the memory that `slab_alloc` reads again. Callers may
write every word they were given. **`SegTree`** is the second allocator, its nodes and their
three summary fields. **`Bootmm`** is the boot memory manager, in pages: the map as the set
of used pages, the table as a sequence. In the source `init_buddy` is the only caller;
`BootRequest` stands for others, since that is what the table and its joins are for.
**`Memory`** puts them in order: requests, `init_buddy`, then calls of `Slab`, or of `SegTree`
(they share nothing, so that taking them in turns would add no behaviour). Page `p` of
`Buddy` is page `buddy_start_pfn + p` of the machine.

**`FsCache`** is the cache algorithm that the source has three times (512-byte, 4K, FAT),
as `kind`. A call is one step, with the transfers in it that
may fail. `content` records the last write to each sector, `since` what has been there
since the last successful flush. `NewCluster` is the erase in `fs_alloc`, which is addressed
without `base_addr` and therefore leaves the new cluster as it was; here `BASE` is larger
than the last sector, so that it hits nothing that is looked at.

**`Fat`** is the file system above those caches. A command of the shell (`Save` is the
editor's `:wq`, then `fs_mkdir`, `fs_rm`, `fs_mv`, `fs_cat`) changes the FAT, FSInfo and
the directory in memory in one step, since nothing else uses them; what it writes is the
list `todo`, from which `Transfer` takes one item at a time in the order of `fs_fflush` and
`fs_close`. The power may go between two transfers (`init_fat`), and `card` is what
a restart would find. `Due` skips transfers that change nothing, as clean buffers do.
`content` records what was written to each file. The volume is so small that no
buffer is evicted, and transfers succeed: evictions and errors are the subject of
`FsCache`, on whose promise (`ReadsBack`, `FlushedSurvives`) this module stands. A
restart inside `fs_rm` or `fs_mv` is left out, because the card is then not sound: between
the table and the directory of `fs_rm` the old entry leads to free clusters, and between the two names of
`fs_mv` two entries share a chain. `CardSound` names exactly this exception.

**`FileRead`** is what `fs_read`, `ext_read` and `exec` give for a range of a file, byte by
byte of an abstract block. **`Ext2`** is the other file system: nothing is cached between
commands, so that a command is read from the card in one step (`ext_find` and the changes)
and written back block by block (`todo`, in the order of the code). `files` is the history
of what should be found where. **`Editor`** has an action per kind of key. Its text is a
sequence, its locations count from 0; `narrow` records whether a line has ever filled a row.
**`Files`** is the shell above them: `current_fs` says where a command goes. What the editor
saves is the `Save` of `Fat`.

`MC...` modules give the sets that a `.cfg` cannot write down.

## 3. The runs

| run | states | bounds and why they are enough | shows |
|---|---|---|---|
| `sched` | 100,236 (`ListSpec`) | 3 levels (top, middle and bottom differ in the code), slice unit 1 (slices of 1, 2 and 3), pids 0..4 with `PidNum` 4 so that a pid beyond it occurs, 5 kinds of process | type, one place, kernel processes, pids, mailboxes, linked lists, no error stop, feedback, who may be killed; no READY process starves, the exit list drains |
| `queue_race` | violation | as `sched`, with `RaceSpec` | idle and other tasks are cut off from their queue |
| `mail_turns` | 16,063 | 2 senders of 2 mails, a mailbox of 2 (empty, one, full), 2 owners of the pid | refinement of `MailQueue`, no bad pointer, delivery |
| `mail_race` | violation | 1 sender, 1 reader, preempted anywhere | an accepted mail is unlinked unread |
| `keyboard` | 269,071 | ring of 2 and 5 codes: the ring wraps, overflows and starts again twice; one modifier of each form of code | no key twice, order, LED, modifiers, nothing lost |
| `memory` | 267,587 | start: 8 pages of the kernel, 3 kinds of request, a table of 4, which fills and is joined in both directions; then 2 groups of 4 pages, so that splits and merges go over two levels and never over a group's end; two sizes of objects, one with two in a page and one with one; the tree has 8 pages, the size in the source | boot memory given once; every page once, counts, refinement of `PageAllocator`; objects apart, links intact; nodes of the tree right |
| `buddy_held` | violation | `Buddy` alone, any free | a held neighbour is merged |
| `fscache` | 774,188 | 2 buffers of each kind over up to 3 sectors: eviction is forced, also with all dirty; failing and torn writes of a file, a new cluster, power loss | reads return the last write, one buffer each, a flush survives, the FATs agree |
| `fscache_error` | violation | 2 sectors | an error of one block that nobody notices |
| `files` | 282,757 | FAT32: 6 clusters (the root, an image of two, three to give away, so that the volume fills and is used again), 3 entries (first, middle, last), 2 names, one power loss; `FreeCount` 3, so that `fs_alloc` both counts on and starts again. ext2: a root and a directory, 3 names (a file in each and a free one), 72 inodes, because the search looks at one inode in eight. Reads: files of up to 10 bytes in clusters of 4. Editor: a text of 6 on 2 rows of 3, so that it fills, scrolls and wraps | FAT32: files have their clusters for themselves, on the card too, keep their contents, are found by one name, and go only by `fs_rm`. ext2: files are found with their blocks at every transfer, inodes are owned once, records fill their blocks. Which reads are right. The cursor is in the text and on the screen |
| `ext2_stale` | violation | `Ext2` alone, any name | a file that is not there is taken for its directory |
| `avl` | 8,172 | 7 pids: trees of four levels, in which every rotation and both cases of a node with two subtrees occur at the root and below it | search order, refinement of `KeySet` |

The slots, buffers and pages of the source are 32, 4 (2 for the FAT) and 2^4 per group; the
code treats all but the first and the last alike, and the bounds keep a first, a last and a
step from one to the next.

`CHECK_DEADLOCK FALSE` stands where the bound on mails, keys, or free memory ends the
behaviour; `TaskList`, `FsCache` and `Files` never stop and are checked for deadlock.

**Fairness.** `TaskList.ListSpec` is, like `Sched.FairSpec`, weak fairness of `Tick` and of nothing else: the count
register reaches the compare register again and again, and nothing masks the timer for
ever. Both liveness properties of `sched` hold under it. `NoStarvation` carries the
premise `ShellSettles`, since a shell that crashes for ever is queued again behind the
processes it has created, and the search never gets past queue 0. `Mail.FairSpec` is weak
fairness of each process inside its call, which is what `NoStarvation` gives.
`Keyboard.FairSpec` is weak fairness of the reader (the shell calls `kernel_getchar` in a
loop), of the bytes of a key on its way and of the acknowledgement, that is of the hardware.

## 4. Findings

Each is a run with `expect: violation` and an entry under `findings`: a mail lost when
`SendMail` and `ReadMail` interleave; a merge with a group that is still held; a write
error taken for success; a file of ext2 that does not exist and is taken for its directory; a
task queued behind a node that is no longer the end of the queue.

Recorded as hazards, with the bound or the premise that keeps the passing run right:

- After an insertion between two keys the AVL tree is out of balance, by two levels and,
  after deletions, by three: the comparison that chooses the rotation (`avl.c:96`) always
  holds. Order and contents survive, which is what `Avl` shows.
- Reads of FAT32 that end with the cluster they begin in give nothing (so `cat` of a file of
  exactly one cluster prints nothing), reads over several clusters report an error; reads of
  ext2 over a block boundary lose bytes. `ReadsRight` says which ones are right.
- In ext2 a new block for a directory and the inodes whose number is not the first of a byte
  are never found; `ext_rm` clears inode 0 instead of the one of the file; a file of more
  than 12 blocks frees block 0. `Ext2` has the second and leaves the others out.
- `init_buddy` takes the last used page for the first free one: a last page whose number is
  a multiple of 16 would be given away. With the sizes of the source it is 4319.
- In the editor a backspace at location 0 moves the cursor to -1; the key k stops at the
  beginning of its own line and never gets to the first one; a last line longer than 80
  characters runs over its array; a full buffer ends the editor without saving; a file of
  4095 bytes cannot be opened. Lines longer than a row move the cursor off the screen.
- `Alloc_pid` does not stop at the 128 processes of `pid.h`.
- A key that arrives inside `init_buffer` is lost or comes out later.
- A read error leaves the old address on a buffer with other contents; the two FATs
  differ if the power goes between their writes.
- `fs_alloc` on a full volume fails after it has changed an entry outside the table, and
  when it gives out the last free cluster it fails with the cluster already marked, which
  nobody then owns.
- `fs_alloc` erases a new cluster at an address without `base_addr`: with fewer
  clusters in front of the partition than in it (`Fat.cfg` with `Base = 2`), `ContentKept` fails.
- A sender that dies between linking its mail and `length++` leaves the last mail of
  later senders uncounted.
- `kfree` of a small object frees the page under the others; a request of 1537 to 2048 bytes
  uses up the memory and stops the system (`SlabAssumption` leaves that cache out).
- A text of exactly 4096 bytes is not written (`fs_write` with `endByte` 0).
- A loss of power inside `fs_rm` or `fs_mv` leaves an entry on free clusters or two
  entries on one chain.

## 5. The proofs

All of them hold for every value of the constants that the named assumptions of the
modules allow. Each has an inductive invariant, which TLC checked on the instances of
section 3 (or slightly larger ones) before it was proved (that of `Avl`, which speaks of a set of
trees, in the form of `SearchTree`), and a lemma per action.

**`Sched_proofs`**: for every number of levels from 2, every slice, pid bound and set
of commands, `Spec => []IInv`, and from it every safety
property of `sched`, among them the two action properties. `IInv` is the
conjunction of the invariants with two strengthenings: `ShellFixed`, because
`do_exceptions` restarts the shell at level 0 and `KernelProcessesLive` needs the shell
never to sink; and `KillTargets`, because the masked half of `pc_kill` trusts checks made
before other processes ran, and only the fact that idle, the shell and the caller itself
are never its target makes that harmless. The other conjuncts are needed together: that a
dead process is in one place makes the reaping of its pid safe, and that pids have one
owner makes the queueing of a new task keep the places apart.
Its second half is about `TaskList`. `ListsRunSched` proves `ListSpec => FairSpec`, so that
everything said of `Sched` is said of the linked lists too, and `ListsAgreeHolds` that their
pointers are the queues. The invariant gives each list the node of every place (`Spot`) and both
its pointers (`Links`), and lets no other node be in it (`Holds`); `WalkFacts` follows the pointers,
and `AddAgrees`, `DeleteAgrees`, `MoveAgrees` and `ClearAgrees` show that what the code does to
pointers is what `Sched` does to sequences. They need `IInv`: a node is
linked only for a task that the list does not hold, so a task is in one place, and `pc_kill`, which links a
second node of its target before it takes out the first, does so in another list.

**`Mail_proofs`**: while calls take turns on a mailbox (`TakeTurns`, the condition that
`mail_race` shows to be needed), no statement follows a bad pointer, and the list implements
`MailQueue` (`ListIsQueue`), step by step: the store of `length` in `SendMail` is the
sending, the one in `ReadMail` the reading, every other statement a stutter. The invariant
says where each mail is: with `Gone` mails read, the node of mail n is the
one behind that of mail n - 1 and its `previous` is that one (`Linked`), the tail is the last node except between
two named statements (`AtEnd`), the caller of `SendMail` holds nodes of the list in its
locals (`Sent`), and that of `ReadMail` the first one (`Received`). `MailQueueIsFifo` proves
that the queue is FIFO for every set of mails and every size, and `MailboxIsFifo` that the
list inherits it: no mail is lost, invented or overtaken.

**`Keyboard_proofs`**: `RingInv` says that a code is in one place only, a full slot, the
local of `kernel_getkey` or the reader's hands, wherever the handler interrupts; hence
`NeverTwiceHolds`. `InOrderHolds` needs more: while the ring had room, the full slots are consecutive
from the reading index and hold the last codes in their order (`InARow`), and `init_buffer`
goes through states with some of the slots emptied (`StartsAgain`). `ModifiersHold` follows the decoder
through the bytes of a code: `key_buffer` and the bytes to come are always a code cut in two.
Its premise `OneOfEachPair` is the one `ModifiersFollow` speaks of: the two shift keys share a bit.

**`Avl_proofs`**: for every number of keys the tree is a search tree with the right heights
(`SearchTreeHolds`) and implements the set of `KeySet` (`AvlIsKeySet`). Trees are nested values, and what is true of all
of them would be shown by induction over their structure, which the provers have not; `Good(t, K)` says
instead that there is a set of pairs, with t and its keys K among them, in which every tree is made of others of the
set. A tree with its keys is taken apart (`GoodSplit`) and put together (`GoodNode`) by that, its height is at most the number of
keys (`HeightBound`), and each rotation keeps the keys (`LeftLeft` to `RightLeft`) without a word about balance. What a
search finds (`SearchFacts`) and what the way back returns (`WayBackGood`) are by induction over the depth:
a tree that is given back in place of the end with the right keys makes each node above it right (`UpGood`). A node
with two subtrees gets the greatest key of one of them (`MaximumFacts`), which still divides what remains (`SplicedGood`).
The one node that is not `Good` is the first of a tree, with height 0 (`NewTree`); the first
operation that passes it sets it right.

**`FsCache_proofs`**: `OneEach`, `LastWritten` and `Fresh` are the invariant: a sector has
one buffer; a dirty buffer has the last write and the card has it otherwise; clean buffers agree
with it. The theorems name what they need: `Apart` (the erase of `fs_alloc` at an address
without `base_addr` hits no sector of the partition; without it `OneBufferEach` is wrong too),
`WritesNoticed` (the case of `fscache_error` is excluded) and, for
`ReadsBack` only, `ReadsSucceed` (a read error leaves the old address on the buffer). `MirrorsHold` needs none.

**`Kmalloc_proofs`**, first `Buddy`: while no group is freed whose merge would meet a held pair
(`HeldPairs = FALSE`; `buddy_held` is what happens otherwise), every page is in one group
(`EveryPageOnceHolds`), nothing held is in a free list (`FreeIsFreeHolds`) and the buddy system
implements `PageAllocator` (`BuddyIsPageAllocator`). The proof has three layers.
Numbers: `2 ^ n` is the number of subsets of n things, which the library knows, since it has no other
facts about powers; `PairAt` and `Combined` are the two halves of the group one
level up (`Halves`), and groups that meet are nested (`Laminar`). Partitions: the pairs that a
merge meets and the group itself cut the merged group into `Pieces`; a split is the same read
backwards; exchanging a group for its pieces keeps a partition (`Replace`). States: `IInv`
adds to the partition that the first page of each group remembers its level (`Starts`), without
which `_is_same_bplevel` could take a page inside a group for a pair (`PairStands`), and that
no two halves of a group are both free (`Merged`), without which a refusal could be wrong
although a large enough group of free pages is there.

Its second half extends this, under the same condition, to `kmalloc` and `kfree`: objects never
share a word and lie in pages held for them (`ObjectsApartHolds`), the next link of a cache is
always there to be read (`LinksIntactHolds`), and the pages stay partitioned
(`EveryPageOnceForKmalloc`). The invariant says of each cache how far its page is cut
(`CutFrom`): the chunks in front of chunk i are given, the links from there on stand where
`format_slabpage` put them. Two facts carry it: every page with an object is held as a group of
one, so that a new group meets neither objects nor links (`NewGroup`), and a page has objects of one size,
so that no two caches are at the same page (`OwnPages`). It rests on `SlabAssumption`: a page has two chunks at least,
and the last link does not fall on the next page.

Its third part is boot memory, under no condition but sizes and alignments of at least one
(`BootApartHolds`). `BootInv` says that the intervals of the table are disjoint and
their pages marked in the bitmap (`Recorded`), that each interval that was given lies in one of the same type
in the table (`InTable`), and that no page was given twice. `find_pages` is a search that only goes forward and
stops at free pages (`FindPagesFacts`); `insert_mminfo` joins an interval to one neighbour or bridges two
without losing a page (`GrownFacts`, `BridgedFacts`, `InsertFacts`); `init_buddy` rounds up the
last used page, unless it is the multiple of 16 that `BootApart` names.

Its fourth part is the segment tree, for every power of two of pages (`TreeSoundHolds`). `TreeInv` says that
the given intervals are apart and that every node `Reflects` its pages: its three numbers are the longest free
run, the one at the left end and the one at the right end. It is stronger than `Summary`, since it speaks of
free pages and not of leaves, and so survives an update that is only half done.
`build_tree` halves intervals, so a node's place follows from its depth (`TreePlaces`), children
have the two halves (`TreeHalved`), and the nodes that have a page are its leaf and those above (`AboveCovers`).
The four cases of `update` make a node right if its children are (`FatherReflects`, from `LeftJoin`, `RightJoin` and
`MaxJoin`), so that `update_leaf` makes a tree right that was wrong in a leaf and in the nodes above it
(`UpdateLeafReflects`). `ReflectsBut` says that much of the tree while `update_leaves` is on its way, and also
of the one in which `free_pages_tree` has set a node to 0: the order in which it writes is
harmless for that reason. The descent of `__alloc_pages_tree` ends at
free pages (`FoundFree`). Induction down and up the tree is over node numbers
(`DownTheTree`, `UpTheTree`, for the set of nodes that have a property).

The components are then put together: a
behaviour of the system is one of `kmalloc` and `kfree` (`SystemRunsKmalloc`) and that one of `Buddy`
(`KmallocRunsBuddy`), so the results above hold behind boot memory (`MemoryUnderSystem`).

**`Files_proofs`**, first `Fat`: for every size of the volume and of the directory, all names and texts, and
however often the power goes: files share no cluster (`ChainsApartHolds`), a restart after
any transfer finds a sound card (`CardSoundHolds`; rm and mv are excepted for one entry, as in the property), names are
unique and found (`NamesOnceHolds`), only rm takes the last name of a file off the card (`FilesKeptHolds`), and
files hold what was written last (`ContentKeptHolds`, which needs `Base >= TotalClusters`: the
erase of `fs_alloc` is addressed without `base_addr`, and with a smaller `Base` it can hit a file).
The layers, from the bottom:

- Transfers: `Leads` says that a list of transfers takes one card to another through cards of a given set.
- Chains: following the table from a first cluster gives the same chain after a change elsewhere (`ChainSame`).
- Volumes: `Volume` says that the files are sound, that the root is marked and that the
  cluster behind the FSInfo hint belongs to nobody. The last conjunct is the strengthening
  that `ChainsApart` needs: `fs_alloc` marks that cluster without looking at its entry. Allocating
  (`VolumeGrown`), freeing (`VolumeFreed`) and renaming (`VolumeRenamed`) keep it.
- The directory: `Once` says that `fs_find` finds each live entry by its name; it is the same as no
  two of the same name (`Apart`) and no live entry behind one never used (`Packed`), which commands keep.
- Commands: for each, what it leaves in memory and the transfers it asks for (`SaveSafe`, `MkdirSafe`,
  `RmSafe`, `CatSafe`, `MvSafe`).

`IInv`: memory is a `Volume` with a directory that is `Once`, and the transfers still to be made
lead the card through `Safe` cards to a `Target`, one that says what the memory
says but for a cluster marked and given to nobody. A loss of power makes memory of a `Safe`
card (`RestartSafe`), hence the order of the transfers inside each command is what the proof rests on.

The rest of it is about `Files`, in four parts. The editor: for every size of the buffer and of the
screen the cursor is in the text, and on the screen while no line has filled a row
(`CursorShownHolds`). The lemmas relate the walk of `screen_flush` through the
text to the number of line ends in front of a location (`Rows`, `WalkIsRows`, `ScreenFacts`); `EditorInv` adds to
the property that `page` is the beginning of a line and `page_end` is what a redraw of the
present text gives, which is why turning the page by one line is enough (`TurnedBack`, `TurnedOn`):
no key moves the cursor by more. FAT32 below the shell: a behaviour of `Files` is one of `Fat`
(`ShellRunsFat`), so that what is proved of `Fat` holds there (`FatUnderShell`).

The third part is ext2, for every set of names, block length and number of inodes: records
fill their blocks (`RecordsFillHolds`), inodes and blocks have one owner (`InodesOwnedHolds`), files
are found (`FilesFoundHolds`). Their hypothesis `OnlyExisting` is a choice of the user, that
commands name files that there are; `ext2_stale` shows that the code needs it. As in `Fat`, the invariant
`ExtInv` speaks of what is still to be transferred: it leads (`ExtLeads`) from the card as it is to one
with exactly the files (`ExtTarget`), by way of cards that have everything the
command is not about (`ExtCards`). Three more facts carry it. There are never more than three files,
wherever they were moved, and no two have a block in common (`FilesOK`, `ContentsApart`); so the records that
`ext_create` cuts off have room (`RoomLeft`) and among the inodes that its search
looks at there is a free one (`InodeFacts`). The record that grows when its neighbour is taken out and the one
that is cut to make room keep the sum of the lengths (`RemovedFacts`, `AppendedFacts`). And `ext_mv`
makes the new name before it takes the old one out, with the inode between them in two
places only for the command's own path (`MvTarget`).

The fourth part is what reads give (`ReadsRightHolds`), for every length of a cluster, of a piece of exec
that divides it, and of the file. What a read leaves in its buffer is a run of places (`Span`), nothing, or
such runs in a row, whose joining is an induction over `FlattenSeq` (`FlattenIs`, `InnerIs`). A read of FAT32 over a
cluster boundary is too long, with the bytes asked for in front (`FatReadIs`); one of ext2 lacks
the last byte of its first block, so that a later byte stands in that place (`ExtReadLoses`). For a file that is read
in pieces (`LoadedRight`): the pieces lie in one cluster each (`PieceInOne`), one that ends with it is not read, the
one before it always is (`NotTwice`), and what it left in the buffer is taken in its stead (`LoadedLarge`).

**`SeqLemmas`** has the facts that these modules share: appending, taking out,
prepending, taking the head off, reversing, in lists without duplicates; that a set of
numbers with an element has a least one; that a number is divided in one way only (`DivisionFacts`); and that a function defined by recursion has the values its
definition says (`RecursionExists`), which the library states with an operator as parameter and which is proved here
for functions.

Only model-checked: liveness and `ENABLED` (`NoStarvation`, the draining of the exit list, delivery,
`NothingLost`), for which TLAPS has no backend here.

## 6. Not modelled

Registers and stacks; the contents of a mail; parsing and printing; page tables (the TLB
is not used). Preemption inside the AVL tree and the allocators, and inside
the list operations but for `list_insert` of `pc_create`; `lockup`, which would
exclude nobody. In FAT32 subdirectories, directories of more than one sector and the size
field of an entry; in ext2 indirect blocks, block groups but the first, paths of three
names, full directories and `ext_write`, which nobody calls; a failing transfer in the middle of a
command in either. `slab_free`, `split_mminfo` and `list_move_to_head`, which are not reached;
`pc1.c`, which is not built.

## 7. Plan

1. `fs_find` and `fs_find_empty_entry` on directories of several sectors and on paths.
2. `__alloc_pages` and `slab_alloc` with the tick inside them.
3. The tree at the level of pointers, with a search that is preempted by a deletion.
4. `ProcessTable`: an abstract set of processes with owners of pids, refined by `Sched`.
