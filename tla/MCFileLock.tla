----------------------------- MODULE MCFileLock -----------------------------
(***************************************************************************)
(* FileLock for TLC.  The symmetry is sound: no property is a liveness one.*)
(***************************************************************************)
EXTENDS FileLockInv, TLC

VolumeSymmetry == Permutations(Handle) \cup Permutations(Vol)

\* Bound: names in use at a time on one volume.
OneName == \A v \in Vol : Cardinality({e \in Entry : tree[v][e] # NoObj}) <= 1
=============================================================================
