----------------------------- MODULE MCFatVolume -----------------------------
(***************************************************************************)
(* FatVolume for TLC.                                                      *)
(***************************************************************************)
EXTENDS FatVolume, TLC

EntrySymmetry == Permutations(Entry)

\* A volume hurt by a power loss in an exposed moment is not followed further:
\* the properties that remain say nothing about it.
NotHurt == ~hurt
=============================================================================
