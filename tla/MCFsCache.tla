----------------------------- MODULE MCFsCache -----------------------------
(* Instances of FsCache for TLC. *)
EXTENDS FsCache
TwoSectors == {1, 2}
ThreeSectors == {1, 2, 3}
TwoValues == {"x", "y"}
DirectoryOnly == {"512"}
NoticedFails == {<<"4K", "write">>}
UnnoticedFails == {<<"512", "write">>}
=============================================================================
