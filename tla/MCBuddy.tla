------------------------------ MODULE MCBuddy ------------------------------
(* Instances of Buddy for TLC. *)
EXTENDS Buddy
AllPageNums == 0 .. 2 ^ MAX_BUDDY_ORDER + 1
=============================================================================
