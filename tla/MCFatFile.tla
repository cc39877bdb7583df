----------------------------- MODULE MCFatFile -----------------------------
(* FatFile for TLC: the clusters are alike.                                *)
EXTENDS FatFile, TLC

ClustSymmetry == Permutations(Clust)
=============================================================================
