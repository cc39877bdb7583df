---------------------------- MODULE FileLockInv ----------------------------
(***************************************************************************)
(* The inductive invariant of module FileLock.  Its parts take the table   *)
(* F, the volumes V, the last mount id n, the objects O and the directory  *)
(* tree T as parameters: a call that first remounts a volume is then two   *)
(* steps that each preserve LockInv.                                       *)
(***************************************************************************)
EXTENDS FileLock

ValidIn(V, O, h) ==
  /\ O[h].fs # NoVol
  /\ V[O[h].fs].fs_type
  /\ V[O[h].fs].id = O[h].id

UsersIn(V, O, i) == {h \in Handle : ValidIn(V, O, h) /\ O[h].lockid = i + 1}

TypeInv(F, V, n, O, T) ==
  /\ F \in [Idx -> LockEntry]
  /\ V \in [Vol -> Volume]
  /\ n \in Nat
  /\ O \in [Handle -> ObjectId]
  /\ T \in [Vol -> [Entry -> {NoObj, IsFile} \cup Cluster]]

\* A mount id that is given out is never given out again.
IdsBelow(V, n, O) ==
  /\ \A v \in Vol : V[v].id <= n
  /\ \A h \in Handle : O[h].id <= n

\* Entries belong to mounted volumes, and those have a work area.
MountInv(F, V) ==
  /\ \A v \in Vol : V[v].fs_type => V[v].reg
  /\ \A i \in Idx : F[i].fs # NoVol => V[F[i].fs].fs_type

\* An object has one entry; a blank entry counts nothing; the root directory
\* is never locked.
TableInv(F) ==
  /\ \A i \in Idx : F[i].fs = NoVol => F[i].ctr = 0
  /\ \A i \in Idx : F[i].fs # NoVol => F[i].key # RootKey
  /\ \A i, j \in Idx :
       F[i].fs # NoVol /\ F[i].fs = F[j].fs /\ F[i].key = F[j].key => i = j

\* A usable object owns its entry, and a writer's entry says so.
OwnInv(F, V, O) ==
  \A h \in Handle :
    ValidIn(V, O, h) =>
      IF O[h].lockid = 0 THEN O[h].key = RootKey /\ ~O[h].write
      ELSE LET s == F[O[h].lockid - 1] IN
           /\ s.fs = O[h].fs
           /\ s.key = O[h].key
           /\ O[h].write => s.ctr = WMode

\* A counter in read mode covers the users of its entry (an object that was
\* opened anew left its count behind), and one in write mode has one user at
\* most (none when a failed f_open left the entry behind).
CountInv(F, V, O) ==
  \A i \in Idx :
    IF F[i].ctr = WMode THEN \A h, k \in UsersIn(V, O, i) : h = k
    ELSE /\ F[i].ctr < WMode
         /\ Cardinality(UsersIn(V, O, i)) <= F[i].ctr

\* Only files are opened for writing, never directories.
WriteInv(F) == \A i \in Idx : F[i].ctr = WMode => F[i].key.ofs # 0

\* A locked entry of the root directory exists: what NoInternalError needs.
ExistInv(F, T) ==
  \A i \in Idx, v \in Vol, e \in Entry :
    F[i].fs = v /\ F[i].key = FileKey(e) => T[v][e] # NoObj

LockInv(F, V, n, O, T) ==
  /\ TypeInv(F, V, n, O, T)
  /\ IdsBelow(V, n, O)
  /\ MountInv(F, V)
  /\ TableInv(F)
  /\ OwnInv(F, V, O)
  /\ CountInv(F, V, O)
  /\ WriteInv(F)
  /\ ExistInv(F, T)

\* The inductive invariant: Files[], mount ids, objects and tree fit together.
IInv ==
  /\ res \in Result \ {"FR_INT_ERR"}
  /\ LockInv(Files, vol, Fsid, obj, tree)
=============================================================================
