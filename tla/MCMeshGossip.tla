---------------------------- MODULE MCMeshGossip ----------------------------
(* Constant values for the run of MeshGossip. *)
EXTENDS MeshGossip, TLC

CONSTANTS n1, n2, n3, n4, k1, k2

NodeSymmetry == Permutations(Node)
=============================================================================
