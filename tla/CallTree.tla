------------------------------ MODULE CallTree ------------------------------
(* What a call graph promises: it is the set of all call paths, outermost   *)
(* function first, that occur in the stacks that were merged into it.       *)
EXTENDS Integers, Sequences

CONSTANTS
  Names,     \* what functions frames can have
  MaxFrames  \* bound: frames of a stack

VARIABLE paths

CallPaths == UNION {[1 .. n -> Names] : n \in 1 .. MaxFrames}
Prefixes(s) == {[k \in 1 .. n |-> s[k]] : n \in 1 .. Len(s)}

Init == paths = {}

Merge(s) == paths' = paths \cup Prefixes(s)

Next == \E s \in CallPaths : Merge(s)

Spec == Init /\ [][Next]_paths
=============================================================================
