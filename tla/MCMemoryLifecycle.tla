------------------------- MODULE MCMemoryLifecycle -------------------------
(* Instances of MemoryLifecycle for TLC. *)
EXTENDS MemoryLifecycle, TLC

CONSTANTS o1, o2

\* The first source's facts had closed when the second's began.
Intervals == (o1 :> {[from |-> 0, until |-> 1]}) @@ (o2 :> {[from |-> 1, until |-> 9]})
Symmetry == Permutations(Drivers)
=============================================================================
