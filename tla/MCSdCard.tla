------------------------------ MODULE MCSdCard ------------------------------
(* Instances of SdCard for TLC: three blocks, of which 512 has as number the *)
(* byte address of block 1, and contents that tell these two apart.          *)
EXTENDS SdCard

MCBlock == {0, 1, 512}
MCFresh == [b \in MCBlock |-> IF b = 1 THEN 1 ELSE 0]
=============================================================================
