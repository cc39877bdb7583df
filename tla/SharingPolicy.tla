---------------------------- MODULE SharingPolicy ----------------------------
(***************************************************************************)
(* What the file lock of FatFs promises to an application: a volume's      *)
(* object is held by any number of readers or by one writer, and a mount   *)
(* takes every grant of its volume back.  Module FileLock implements it    *)
(* with the table Files[] of ff.c.                                         *)
(***************************************************************************)
CONSTANTS
  Handle,   \* file and directory objects (FIL, DIR) of the application
  Vol,      \* logical drives
  Key,      \* names of the lockable objects of one volume
  NoGrant   \* the handle holds nothing (a value that is no grant)

Grant == [vol : Vol, key : Key, write : BOOLEAN]

VARIABLE grant

Holds(h) == grant[h] # NoGrant

SameObject(g1, g2) == g1.vol = g2.vol /\ g1.key = g2.key

Init == grant = [h \in Handle |-> NoGrant]

\* Two grants of one object are compatible when both only read.  A handle
\* that is opened anew gives up what it held.
Acquire(h, g) ==
  /\ \A k \in Handle \ {h} :
       Holds(k) /\ SameObject(grant[k], g) => ~g.write /\ ~grant[k].write
  /\ grant' = [grant EXCEPT ![h] = g]

Release(h) ==
  /\ Holds(h)
  /\ grant' = [grant EXCEPT ![h] = NoGrant]

Revoke(v) ==
  grant' = [h \in Handle |->
              IF Holds(h) /\ grant[h].vol = v THEN NoGrant ELSE grant[h]]

Next ==
  \/ \E h \in Handle : \E g \in {grant'[h]} \cap Grant : Acquire(h, g)
  \/ \E h \in Handle : Release(h)
  \/ \E v \in Vol : Revoke(v)

Spec == Init /\ [][Next]_grant
=============================================================================
