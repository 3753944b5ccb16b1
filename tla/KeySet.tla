------------------------------- MODULE KeySet -------------------------------
(***************************************************************************)
(* What the process control expects of its two search trees: a set of pids  *)
(* in use, from which the next new pid follows.                             *)
(***************************************************************************)
EXTENDS Integers

CONSTANT MaxKey   \* bound of the model: no pid above it

VARIABLE keys

Init == keys = {0} \/ keys = {-1}

\* One more than every pid in use.
New(k) == k - 1 \in keys /\ (\A q \in keys : q < k) /\ keys' = keys \cup {k}

\* A pid that was asked for by its number.
Add(k) == k \notin keys /\ keys' = keys \cup {k}

Remove(k) == k \in keys /\ keys' = keys \ {k}

Next == \E k \in 0 .. MaxKey : New(k) \/ Add(k) \/ Remove(k)

Spec == Init /\ [][Next]_keys
=============================================================================
