-------------------------- MODULE MCGraphicsHandles --------------------------
(* Small instances of GraphicsHandles.  Storage, clients and null pointers  *)
(* are model values; driver names are small integers, as many as there is   *)
(* storage for, so that a name is reused as soon as it has been deleted.    *)
EXTENDS GraphicsHandles, TLC

Symmetry ==
  UNION {Permutations(S) : S \in {Clients, Buffers, VertexArrays, Drawables}}
==============================================================================
