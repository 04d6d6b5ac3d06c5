--------------------------- MODULE MCFramebuffers ---------------------------
(* Instance of Framebuffers: a driver that gives the smallest names that    *)
(* are free, so that a deleted name is given again at the first occasion.   *)
EXTENDS Framebuffers

SmallestNames(n, used) ==
  LET free == GLNames \ used
  IN [i \in 1 .. n |-> CHOOSE x \in free : Cardinality({y \in free : y < x}) = i - 1]
==============================================================================
