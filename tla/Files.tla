------------------------------- MODULE Files -------------------------------
(***************************************************************************)
(* The shell with its two file systems (usr/ps.c): a command goes to FAT32    *)
(* (Fat) or, after "E:", to ext2 (Ext2); FileRead has what either reads of a   *)
(* file, and Editor what vi does between reading and saving one.  The two have *)
(* a partition and buffers each, and a step of one leaves the other alone.    *)
(*                                                                         *)
(* A bound of the model: the user chooses a file system, or the editor, before *)
(* the first command and stays with it.  What the editor saves is the Save of  *)
(* Fat, which is where vi and mkdir go after "E:" too.                       *)
(***************************************************************************)
EXTENDS Fat, FileRead

CONSTANTS ExtNames, Dir, BlockLen, inode_per_group, OnlyExisting   \* see Ext2
CONSTANTS BUFFER_SIZE, ROW_LEN, COLUMN_LEN, MaxInst, MaxFile         \* see Editor

ASSUME FilesAssumption ==
    /\ Dir \in ExtNames /\ "." \notin ExtNames
    /\ IsFiniteSet(ExtNames) /\ Cardinality(ExtNames) >= 3
    /\ BlockLen \in Nat /\ BlockLen > Cardinality(ExtNames) + 1
    \* a free inode in the first place of a byte for every name and one more
    /\ inode_per_group \in Nat /\ inode_per_group > 8 * (2 * Cardinality(ExtNames) + 2)
    /\ OnlyExisting \in BOOLEAN
    /\ {BUFFER_SIZE, ROW_LEN, COLUMN_LEN, MaxInst, MaxFile} \subseteq Nat
    /\ BUFFER_SIZE >= 2 /\ ROW_LEN >= 1 /\ COLUMN_LEN >= 1

VARIABLES
    current_fs,     \* 0 is FAT32, 1 ext2
    ext_card, ext_todo, ext_command, ext_files

ext_vars == <<ext_card, ext_todo, ext_command, ext_files>>

VARIABLES text, cursor, page, page_end, mode, instruction, err, saved, narrow

edit_vars == <<text, cursor, page, page_end, mode, instruction, err, saved, narrow>>

Ed == INSTANCE Editor

E == INSTANCE Ext2 WITH
        Names <- ExtNames, card <- ext_card, todo <- ext_todo,
        command <- ext_command, files <- ext_files

-----------------------------------------------------------------------------
FilesInit == Init /\ E!Init /\ Ed!Init /\ current_fs = 0

\* The commands "E:" and "F:".
ChangeFs(fs) ==
    /\ Init /\ E!Init /\ Ed!Init          \* see the bound above
    /\ current_fs' = fs
    /\ UNCHANGED <<vars, ext_vars, edit_vars>>

\* exec_command hands the command to the file system of the moment.
ToFat ==
    /\ current_fs = 0 /\ Ed!Init
    /\ Next
    /\ UNCHANGED <<current_fs, ext_vars, edit_vars>>

ToExt ==
    /\ current_fs = 1
    /\ E!Next
    /\ UNCHANGED <<current_fs, vars, edit_vars>>

\* The command "vi".
ToEditor ==
    /\ current_fs = 0 /\ Init
    /\ Ed!Next
    /\ UNCHANGED <<current_fs, vars, ext_vars>>

FilesNext == (\E fs \in {0, 1} : ChangeFs(fs)) \/ ToFat \/ ToExt \/ ToEditor

FilesSpec == FilesInit /\ [][FilesNext]_<<vars, current_fs, ext_vars, edit_vars>>

-----------------------------------------------------------------------------
(* Properties *)

\* See Ext2 and Editor.
FilesFound == E!FilesFound
InodesOwned == E!InodesOwned
RecordsFill == E!RecordsFill
CursorShown == Ed!CursorShown

\* A read of FAT32 gives the bytes that were asked for, unless it lies in one cluster
\* and ends with it; one of ext2 gives them just when it ends inside the block that
\* it begins in.  So cat of FAT32 is right for every file but one of one full cluster,
\* the editor, exec and cat of ext2 for files shorter than a cluster.
ReadsRight == IF current_fs = 0 THEN FatReadsRight ELSE ExtReadsRight
=============================================================================
