-------------------------------- MODULE Ext2 --------------------------------
(***************************************************************************)
(* The ext2 file system (kernel/fs/ext2/ext2.c, usr.c) as the shell uses it  *)
(* after "E:": ext_mv, ext_rm and ext_cat on a card that was formatted and   *)
(* filled elsewhere.  Nothing is cached between commands: a command reads the *)
(* card and writes whole blocks back, one transfer after the other (todo).   *)
(*                                                                         *)
(* The model has the first block group, files of direct blocks, directories  *)
(* as lists of entries with their record lengths, paths of one or two names. *)
(* A longer path is left out: ext_find would go on from the last entry that  *)
(* it looked at.  So are a name below a regular file, whose contents would   *)
(* be read as a directory, and the removal of the only entry of a block.     *)
(***************************************************************************)
EXTENDS Integers, FiniteSets, FiniteSetsExt, Sequences, SequencesExt

\* What they must satisfy is the FilesAssumption of Files.
CONSTANTS
    Names,           \* file names
    Dir,             \* the name of a directory that the card has at first
    BlockLen,        \* EXT2_BLOCK_SIZE, in entries of the least length
    inode_per_group,
    OnlyExisting     \* whether the user names only files that there are

Dot == "."
RootInode == 1       \* inode numbers count from 1 in the entries, from 0 here
Inode == 0 .. inode_per_group - 1
Reserved == 0 .. 10
PerByte == 8

\* Blocks 0 .. 3 are the superblock, the bitmaps and the inode table.
MetaBlocks == 0 .. 3
Block == 0 .. 9
Path == [1 .. 1 -> Names] \cup [1 .. 2 -> Names]

VARIABLES
    card,      \* bitmaps (sets of used numbers), inodes (their blocks), directories
    todo,      \* the transfers that the command still has to make
    command,   \* the paths the command is about
    files      \* history: path -> blocks of every file that there should be

vars == <<card, todo, command, files>>

Entry == [name : Names \cup {Dot}, inode : Inode, type : {"file", "dir"}, len : 1 .. BlockLen]

-----------------------------------------------------------------------------
(* ext_find *)

NotFound == [ok |-> FALSE, father |-> 0, offset |-> 0, inode |-> 0, type |-> "file"]

\* The first entry with name n in the blocks of inode i.
InDirectory(c, i, n) ==
    LET hit(k) == {o \in DOMAIN c.dirs[c.inodes[i][k]] : c.dirs[c.inodes[i][k]][o].name = n}
        hits == {k \in DOMAIN c.inodes[i] : hit(k) # {}}
    IN  IF hits = {} THEN NotFound
        ELSE LET father == c.inodes[i][Min(hits)]
                 offset == Min(hit(Min(hits)))
                 e == c.dirs[father][offset]
             IN  [ok |-> TRUE, father |-> father, offset |-> offset,
                  inode |-> e.inode, type |-> e.type]

\* found_in_this_dir is never reset: a second name that is not in its directory
\* counts as found, and the file is the directory.
ext_find(c, path) ==
    LET first == InDirectory(c, RootInode, path[1])
        second == InDirectory(c, first.inode, path[2])
    IN  IF ~first.ok \/ Len(path) = 1 THEN first
        ELSE IF first.type # "dir" THEN NotFound
        ELSE IF second.ok THEN second ELSE first

\* The names that are shown of the directory at path.
ext_ls(c, path) ==
    LET blocks == ToSet(c.inodes[ext_find(c, path).inode])
    IN  UNION {{e.name : e \in ToSet(c.dirs[b])} : b \in blocks}

-----------------------------------------------------------------------------
(* ext_create_with_attr, alloc_new_inode *)

\* Variant of alloc_new_inode that takes the first byte with a free place.
Bad_alloc_new_inode(c) ==
    Min({i \in Inode : i % PerByte = 0 /\ \E j \in i .. i + PerByte - 1 : j \notin c.inodeBits})

\* In the tests of the other seven bits == binds before &: only a byte whose first
\* bit is free has a free inode for the code.
alloc_new_inode(c) == Min({i \in Inode : i % PerByte = 0 /\ i \notin c.inodeBits})

Length(d) ==
    LET sum[i \in 0 .. Len(d)] == IF i = 0 THEN 0 ELSE sum[i - 1] + d[i].len
    IN  sum[Len(d)]

\* What is left of a block behind the last entry, cut down to its least length.
Rest(d) == BlockLen - Length(Front(d)) - 1

\* Variant of Appended that does not cut the last entry down.
Bad_Appended(d, e) == Append(d, [e EXCEPT !.len = Rest(d)])

\* The new entry takes the rest of the block.
Appended(d, e) ==
    Append([d EXCEPT ![Len(d)].len = 1], [e EXCEPT !.len = Rest(d)])

\* The first block of the root directory with room for an entry.  Without one the
\* code asks for a new block, never gets one (alloc_new_block looks for zeros as
\* alloc_new_inode does, at no bit), and puts the entry alone into the last block.
ext_create_with_attr(c, n, i, type) ==
    LET blocks == c.inodes[RootInode]
        room   == {k \in DOMAIN blocks : Rest(c.dirs[blocks[k]]) >= 1}
        e      == [name |-> n, inode |-> i, type |-> type, len |-> BlockLen]
    IN  IF room = {} THEN [c.dirs EXCEPT ![Last(blocks)] = <<e>>]
        ELSE [c.dirs EXCEPT ![blocks[Min(room)]] = Appended(@, e)]

-----------------------------------------------------------------------------
(* Removal of an entry, in ext_rm and ext_mv *)

\* Variant of Removed that gives the length to the entry in front of the removed one.
Bad_Removed(d, o) ==
    LET r == RemoveAt(d, o) IN [r EXCEPT ![o - 1].len = @ + d[Len(d)].len]

\* The entries behind it move forward; the last one of those left gets its length.
Removed(d, o) ==
    IF o \notin DOMAIN d THEN d
    ELSE LET r == RemoveAt(d, o) IN [r EXCEPT ![Len(r)].len = @ + d[o].len]

-----------------------------------------------------------------------------
(* The commands *)

Ready == todo = <<>>
NoPath == <<>>
NoCommand == [src |-> NoPath, dest |-> NoPath]

\* Blocks are written back changed or not; those that change nothing need no step.
Due(c, list) ==
    LET change == {i \in DOMAIN list : c[list[i][1]] # list[i][2]}
    IN  IF change = {} THEN <<>> ELSE SubSeq(list, Min(change), Len(list))

Begin(list, src, dest) ==
    /\ todo' = Due(card, list)
    /\ command' = IF todo' = <<>> THEN NoCommand ELSE [src |-> src, dest |-> dest]
    /\ UNCHANGED card

\* The paths at and below p.
Below(p) == {q \in DOMAIN files : IsPrefix(p, q)}

\* What the user may name: see OnlyExisting.
Nameable(p) == OnlyExisting => p \in DOMAIN files

\* The inode table is written back with inode 0 cleared, whatever the file's is:
\* % binds as * does, from the left.
ext_rm(path) ==
    LET f == ext_find(card, path)
    IN  /\ Ready /\ Nameable(path) /\ f.ok
        /\ Begin(<<<<"blockBits", card.blockBits \ ToSet(card.inodes[f.inode])>>,
                   <<"inodes", [card.inodes EXCEPT ![0] = <<>>]>>,
                   <<"inodeBits", card.inodeBits \ {f.inode}>>,
                   <<"dirs", [card.dirs EXCEPT ![f.father] = Removed(@, f.offset)]>>>>,
                 path, NoPath)
        /\ files' = [p \in DOMAIN files \ Below(path) |-> files[p]]

\* Variant of Moved that forgets to write the new inode.
Bad_Moved(f, new, made) ==
    <<<<"inodeBits", card.inodeBits \cup {new}>>,
      <<"dirs", made>>,
      <<"inodeBits", (card.inodeBits \cup {new}) \ {f.inode}>>,
      <<"dirs", [made EXCEPT ![f.father] = Removed(@, f.offset)]>>,
      <<"inodes", [card.inodes EXCEPT ![f.inode] = <<>>]>>>>

\* The new name with an inode of its own, the old name, the two inodes.
Moved(f, new, made) ==
    LET copied == [card.inodes EXCEPT ![new] = card.inodes[f.inode]]
    IN  <<<<"inodeBits", card.inodeBits \cup {new}>>,
          <<"dirs", made>>,
          <<"inodeBits", (card.inodeBits \cup {new}) \ {f.inode}>>,
          <<"dirs", [made EXCEPT ![f.father] = Removed(@, f.offset)]>>,
          <<"inodes", copied>>,
          <<"inodes", [copied EXCEPT ![f.inode] = <<>>]>>>>

\* The new name is one of the root directory: in another one it is always found
\* (ext_find finds the directory), and nothing happens.
ext_mv(src, n) ==
    LET f   == ext_find(card, src)
        new == alloc_new_inode(card)
        \* where a path at or below src goes
        to(p) == <<n>> \o SubSeq(p, Len(src) + 1, Len(p))
        kept == DOMAIN files \ Below(src)
    IN  /\ Ready /\ Nameable(src) /\ f.ok /\ ~ext_find(card, <<n>>).ok
        /\ Begin(Moved(f, new, ext_create_with_attr(card, n, new, f.type)), src, <<n>>)
        /\ files' = [p \in kept \cup {to(q) : q \in Below(src)} |->
                        IF p \in kept THEN files[p]
                        ELSE files[CHOOSE q \in Below(src) : to(q) = p]]

\* What is shown is in FileRead; ext_close writes the inode back as it was read.
ext_cat(path) ==
    LET f == ext_find(card, path)
    IN  /\ Ready /\ Nameable(path) /\ f.ok
        /\ Begin(<<<<"inodes", [card.inodes EXCEPT ![f.inode] = card.inodes[f.inode]]>>>>,
                 path, NoPath)
        /\ UNCHANGED files

\* One transfer reaches the card.
Transfer ==
    /\ todo # <<>>
    /\ card' = [card EXCEPT ![Head(todo)[1]] = Head(todo)[2]]
    /\ todo' = Due(card', Tail(todo))
    /\ command' = IF todo' = <<>> THEN NoCommand ELSE command
    /\ UNCHANGED files

-----------------------------------------------------------------------------
\* The card at first: two names in the root, one of them Dir with a third in it.
First == CHOOSE n \in Names \ {Dir} : TRUE
Second == CHOOSE n \in Names \ {Dir, First} : TRUE
Made(n, i, type, len) == [name |-> n, inode |-> i, type |-> type, len |-> len]

Init ==
    /\ card = [blockBits |-> MetaBlocks \cup 4 .. 8,
               inodeBits |-> Reserved \cup 11 .. 13,
               inodes |-> [i \in Inode |-> CASE i = RootInode -> <<4>> [] i = 11 -> <<5, 6>>
                                             [] i = 12 -> <<7>> [] i = 13 -> <<8>>
                                             [] OTHER -> <<>>],
               dirs |-> [b \in {4, 7} |->
                   IF b = 4 THEN <<Made(Dot, RootInode, "dir", 1), Made(First, 11, "file", 1),
                                   Made(Dir, 12, "dir", BlockLen - 2)>>
                   ELSE <<Made(Dot, 12, "dir", 1), Made(Second, 13, "file", BlockLen - 1)>>]]
    /\ todo = <<>>
    /\ command = NoCommand
    /\ files = [p \in {<<First>>, <<Dir>>, <<Dir, Second>>} |->
                   CASE p = <<First>> -> <<5, 6>> [] p = <<Dir>> -> <<7>> [] OTHER -> <<8>>]

Next ==
    \/ \E p \in Path : ext_rm(p) \/ ext_cat(p)
    \/ \E p \in Path, n \in Names : ext_mv(p, n)
    \/ Transfer
    \/ Ready /\ UNCHANGED vars      \* ext_ls, and every command that fails

Spec == Init /\ [][Next]_vars

-----------------------------------------------------------------------------
(* Properties *)

\* Every variable has its type (ext2.h).
TypeOK ==
    /\ card.blockBits \subseteq Block /\ card.inodeBits \subseteq Inode
    /\ card.inodes \in [Inode -> Seq(Block)]
    /\ \A b \in DOMAIN card.dirs : card.dirs[b] \in Seq(Entry)
    /\ \A i \in DOMAIN todo : todo[i][1] \in DOMAIN card
    /\ command.src \in Path \cup {NoPath} /\ command.dest \in Path \cup {NoPath}
    /\ DOMAIN files \subseteq Path

\* The files that no command is at work on.
Settled == {p \in DOMAIN files :
               Ready \/ ~(\E q \in {command.src, command.dest} \ {NoPath} : IsPrefix(q, p))}

\* The directory at path shows what is in it.
Shown(path, names) == ext_ls(card, path) = names \cup {Dot}

\* Every file that nobody has removed is found under its name with its blocks, at
\* every moment if the command is about another one; between two commands a listing
\* shows every file of its directory and nothing that is gone.
FilesFound ==
    /\ \A p \in Settled :
          LET f == ext_find(card, p)
          IN  /\ f.ok /\ card.inodes[f.inode] = files[p]
              /\ Ready /\ f.type = "dir" => Shown(p, {q[2] : q \in Below(p) \ {p}})
    /\ Ready => Shown(<<Dot>>, {q[1] : q \in DOMAIN files})

\* Two files never share an inode or a block, and what they have is marked as used:
\* ext_mv gives a file an inode of its own and frees no other one.  All that is on the card has its type.
InodesOwned ==
    TypeOK /\
    LET inode(p) == ext_find(card, p).inode
        blocks(p) == ToSet(card.inodes[inode(p)])
    IN  /\ \A p \in Settled : inode(p) \in card.inodeBits /\ blocks(p) \subseteq card.blockBits
        /\ \A p, q \in Settled :
              p # q => inode(p) # inode(q) /\ blocks(p) \cap blocks(q) = {}

\* The record lengths of a directory lead from entry to entry and end with the
\* block, whatever was created and removed: every search ends.
RecordsFill ==
    \A b \in DOMAIN card.dirs :
        card.dirs[b] # <<>> /\ Length(card.dirs[b]) = BlockLen
=============================================================================
