--------------------------- MODULE MCArtifactStore ---------------------------
(***************************************************************************)
(* Small instances of ArtifactStore for TLC.                               *)
(***************************************************************************)
EXTENDS ArtifactStore, TLC

CONSTANTS w1, w2, r1, m1, m2

Symmetric == Permutations({w1, w2})
=============================================================================
