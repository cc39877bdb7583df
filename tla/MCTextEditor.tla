---------------------------- MODULE MCTextEditor ----------------------------
(* TextEditor for TLC: a file of two lines and a file of one character.    *)
EXTENDS TextEditor, TLC

CONSTANTS f1, f2, a

MCStored0 == f1 :> <<a, Newline, a, a>> @@ f2 :> <<a>>
=============================================================================
