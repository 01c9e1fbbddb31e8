--------------------------- MODULE MCArtifactStore ---------------------------
(* Three uploads, two of them of one crate.                                *)
EXTENDS ArtifactStore, TLC

CONSTANTS j1, j2, j3, t1, t2

TwoTars == j1 :> t1 @@ j2 :> t1 @@ j3 :> t2
=============================================================================
