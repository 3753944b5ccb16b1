------------------------------ MODULE MCMemory ------------------------------
(* Instances of Memory for TLC. *)
EXTENDS Memory
AllPageNums == 0 .. 2 ^ MAX_BUDDY_ORDER + 1
TwoSizes == {3, 5}
SomeRequests ==
    {[pages |-> 1, type |-> "dynamic", align |-> 1], [pages |-> 2, type |-> "dynamic", align |-> 4],
     [pages |-> 3, type |-> "kernel", align |-> 1]}
=============================================================================
