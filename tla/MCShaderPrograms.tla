-------------------------- MODULE MCShaderPrograms --------------------------
(* Instance of ShaderPrograms.                                              *)
EXTENDS ShaderPrograms, TLC

Symmetry == Permutations(Shaders) \union Permutations(Programs) \union Permutations(GLNames)
=============================================================================
