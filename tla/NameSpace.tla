------------------------------ MODULE NameSpace ------------------------------
(***************************************************************************)
(* What f_open, f_unlink and f_rename promise of the names in a directory: *)
(* a call is about one file and gives it the name it was asked for, with   *)
(* at most a numbered short name besides; it never makes the name of a     *)
(* file lead to another.                                                   *)
(***************************************************************************)
CONSTANTS
  Name, File, NoFile,
  Alias,   \* the numbered short names
  NoName

VARIABLES
  names,   \* the file each name leads to
  asked,   \* the name that the call in progress is to give or remove
  taken,   \* names that a call left behind in parts, and another got
  damaged  \* a call failed, or the power did

Init == names = [n \in Name |-> NoFile] /\ asked = NoName
        /\ taken = {} /\ damaged = FALSE

Named(f) == \E n \in Name : names[n] = f

Ask == asked = NoName /\ asked' \in Name /\ UNCHANGED <<names, taken, damaged>>

\* Only f gets names, or loses them.  A name that is taken passes from one file
\* to another.
Touch(f) ==
  \A n \in Name :
    names'[n] # names[n] =>
      \/ {names[n], names'[n]} = {f, NoFile}
      \/ n \in taken' /\ f \in {names[n], names'[n]}

Take == taken \subseteq taken' /\ (damaged \/ taken' = taken)

\* f is called what was asked.  After a failure it may get the long name of a
\* file that was never completed.
Give(f) ==
  /\ names'[asked] = f
  /\ damaged \/ \A n \in Name \ Alias : names'[n] = f => n = asked

Create(f) == ~Named(f) /\ Give(f)

\* After a failure a file may have been left with a name too many.
Remove(f) == names[asked] = f /\ (damaged \/ ~Named(f)')

Rename(f) == Named(f) /\ Give(f)

Return ==
  /\ asked \in Name /\ asked' = NoName
  /\ \E f \in File : Touch(f) /\ (Create(f) \/ Remove(f) \/ Rename(f))
  /\ Take /\ UNCHANGED damaged

\* A call that is cut short may have done all of it or a part.
Fail ==
  /\ asked \in Name /\ asked' = NoName
  /\ \E f \in File : Touch(f)
  /\ Take /\ damaged'

\* The power fails: the last calls, and a part of the one in progress, may be
\* lost or may not; an earlier failure may come back with a name given anew.
Lose ==
  /\ asked' = NoName
  /\ \A n \in Name :
       names'[n] # names[n] =>
         damaged \/ n \in taken \/ NoFile \in {names[n], names'[n]}
  /\ Take /\ damaged'

Next == (Take /\ UNCHANGED <<names, asked, damaged>>) \/ Ask \/ Return \/ Fail \/ Lose

Spec == Init /\ [][Next]_<<names, asked, taken, damaged>>
=============================================================================
