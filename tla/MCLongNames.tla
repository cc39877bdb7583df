----------------------------- MODULE MCLongNames -----------------------------
(* LongNames for TLC: a long name in two parts with two numbered names, and *)
(* a mixed-case one that is its own short name.                             *)
EXTENDS LongNames, TLC

TheBase  == "ReadMe" :> "README"
TheTails == [n \in Lossy |-> <<"NAME~1", "NAME~2">>]
TheParts == [n \in Long |-> IF n = "LongName" THEN 2 ELSE 1]
TheSum   == [s \in Sfn |-> s]
NotBare == ~bare
FileSymmetry == Permutations(File)
=============================================================================
