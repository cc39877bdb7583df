----------------------------- MODULE MCKeyboard -----------------------------
(* Two direction keys and one button; bytes of two values, so that one     *)
(* count in two carries.  The delays are to a byte what 500 and 150 are    *)
(* to 256: the first is between one and two bytes, the other below one.    *)
EXTENDS Keyboard

TwoArrows == <<"U", "D">>

FairSpec == Spec /\ Fairness
=============================================================================
