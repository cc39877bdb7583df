------------------------------ MODULE ByteFile ------------------------------
(***************************************************************************)
(* What f_read, f_write, f_lseek and f_truncate promise of an open file:   *)
(* it is a sequence of bytes with a position in it.  A call may be served  *)
(* in pieces; once a call has failed, the file is refused to all of them.  *)
(***************************************************************************)
EXTENDS Integers, Sequences

CONSTANTS Byte, Unknown

VARIABLES
  content,  \* the bytes of the file
  pos,      \* how many of them are before the position
  got,      \* the bytes delivered in this step
  broken    \* a call failed

vars == <<content, pos, got, broken>>

Init == content = <<>> /\ pos = 0 /\ got = <<>> /\ broken = FALSE

Before(n) == SubSeq(content, 1, n)
After(n)  == SubSeq(content, n + 1, Len(content))

\* The n bytes at the position are b, the others what they were.
Overwritten(n, b) == Before(pos) \o [i \in 1 .. n |-> b] \o After(pos + n)

Put ==
  /\ pos' > pos
  /\ \E b \in Byte : content' = Overwritten(pos' - pos, b)
  /\ got' = <<>> /\ UNCHANGED broken

Get ==
  /\ pos' > pos /\ pos' <= Len(content)
  /\ Len(got') = pos' - pos
  /\ \A i \in 1 .. pos' - pos : content[pos + i] \in {got'[i], Unknown}
  /\ UNCHANGED <<content, broken>>

Move ==
  /\ pos' \in 0 .. Len(content)
  /\ got' = <<>> /\ UNCHANGED <<content, broken>>

\* A position behind the end: nothing is known of the bytes in between, nor
\* need they stay the same.
GrowTo(n) ==
  /\ n > Len(content)
  /\ content' = content \o [i \in 1 .. n - Len(content) |-> Unknown]

Grow == GrowTo(pos') /\ got' = <<>> /\ UNCHANGED broken

Cut == content' = Before(pos) /\ got' = <<>> /\ UNCHANGED <<pos, broken>>

\* A file that was broken is left as it happens to be.
Close ==
  /\ pos' = 0
  /\ broken \/ content' = content
  /\ got' = <<>> /\ UNCHANGED broken

\* A call that fails may have done what it was to do, in part or not at all;
\* of the bytes it was to overwrite nothing is known.
Fail ==
  /\ broken' = TRUE
  /\ \/ content' = content \/ content' = Before(pos) \/ GrowTo(Len(content'))
     \/ \E n \in 1 .. Len(content) - pos : content' = Overwritten(n, Unknown)
  /\ got' = <<>>

Next == Close \/ (~broken /\ (Put \/ Get \/ Move \/ Grow \/ Cut \/ Fail))

Spec == Init /\ [][Next]_vars
=============================================================================
