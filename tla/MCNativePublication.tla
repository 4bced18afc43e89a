------------------------ MODULE MCNativePublication ------------------------
(* NativePublication on small instances. *)
EXTENDS NativePublication, TLC

CONSTANTS p, q, b1, b2, b3

PublicationSymmetry == Permutations(Paper) \cup Permutations(Batch)
=============================================================================
