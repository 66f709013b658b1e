------------------------- MODULE MCMetadataService -------------------------
(* Instances of MetadataService for TLC. *)
EXTENDS MetadataService, TLC

CONSTANTS s1, s2, l1, l2, n1, c1, c2, c3

Symmetry == Permutations({s1, s2}) \cup Permutations({l1, l2}) \cup Permutations({c1, c2, c3})
=============================================================================
