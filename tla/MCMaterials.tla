----------------------------- MODULE MCMaterials -----------------------------
(* Instance of Materials: two materials that share one uniform buffer.      *)
EXTENDS Materials, TLC

CONSTANTS t1, t2

\* A texture in both units; a null entry, and a second texture for the same unit.
Lists == { << [texture |-> t1, unit |-> 0], [texture |-> t1, unit |-> 1] >>,
           << [texture |-> NoTexture, unit |-> 1], [texture |-> t2, unit |-> 0],
              [texture |-> t1, unit |-> 0] >> }

MaterialSymmetry == Permutations(MaterialIds)
==============================================================================
