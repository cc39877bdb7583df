------------------------------ MODULE FileLock ------------------------------
(***************************************************************************)
(* The file lock of FatFs (src/fat_fs/src/ff.c, _FS_LOCK > 0): the table   *)
(* Files[] shared by all volumes, the volumes that are mounted, remounted  *)
(* on demand and unmounted, and the file and directory objects that an     *)
(* application opens, closes, removes and renames.                         *)
(*                                                                         *)
(* An object of a volume is named as Files[] names it, by the start        *)
(* cluster of a directory and an offset in it.  The entries modelled are   *)
(* those of the root directory (cluster 0); a subdirectory that is opened  *)
(* is named by its own start cluster and offset 0.                         *)
(***************************************************************************)
EXTENDS Integers, FiniteSets

CONSTANTS
  Vol,       \* logical drives, each with one work area (FATFS)
  NoVol,     \* the null FATFS pointer
  Entry,     \* offsets of the entries of a root directory
  Cluster,   \* start clusters of subdirectory tables
  Handle,    \* FIL and DIR objects of the application
  NLock,     \* _FS_LOCK, entries of Files[]
  WMode,     \* 0x100, the value of ctr that means "open for writing"
  MaxMount,  \* bound: mounts in a behaviour, below the wrap of the 16-bit id
  Reopens    \* whether an open object may be passed to f_open or f_opendir,
             \* as gui.c:127 passes dirObject for every directory it enters

ASSUME NLockAssumption == NLock \in Nat \ {0}
ASSUME WModeAssumption == WMode \in Nat \ {0}
ASSUME VolAssumption == NoVol \notin Vol
ASSUME EntryAssumption == Entry \subseteq Nat \ {0}
ASSUME ClusterAssumption == Cluster \subseteq Nat \ {0, 1}
ASSUME MaxMountAssumption == MaxMount \in Nat
ASSUME HandleAssumption == IsFiniteSet(Handle)
ASSUME ReopensAssumption == Reopens \in BOOLEAN

VARIABLES
  Files,  \* Files[]: the semaphore table
  vol,    \* per drive: FatFs[] registered, fs_type # 0, mount id
  Fsid,   \* last mount id given
  obj,    \* per handle: the _FDID fields that the lock code reads
  tree,   \* per drive and entry: NoObj, IsFile or a subdirectory's cluster
  res     \* result of the last call

vars == <<Files, vol, Fsid, obj, tree, res>>

NoObj  == 0
IsFile == 1

Idx == 0 .. NLock - 1

FileKey(e) == [clu |-> 0, ofs |-> e]
DirKey(c)  == [clu |-> c, ofs |-> 0]
RootKey    == [clu |-> 0, ofs |-> 0]
Key        == [clu : Cluster \cup {0}, ofs : Entry \cup {0}]

\* An entry with a null fs: the code never reads its other fields.
Blank   == [fs |-> NoVol, key |-> RootKey, ctr |-> 0]
\* A FIL or DIR with a null obj.fs.
Closed  == [fs |-> NoVol, id |-> 0, key |-> RootKey, lockid |-> 0,
            write |-> FALSE]

----------------------------------------------------------------------------
(* The table.                                                              *)

First(S) == CHOOSE i \in S : \A j \in S : i <= j

Lookup(F, v, k) == {i \in Idx : F[i].fs = v /\ F[i].key = k}
Blanks(F)       == {i \in Idx : F[i].fs = NoVol}

chk_lock_shared(F, v, k, acc) ==    \* mutant: a writer's entry lets readers in
  IF Lookup(F, v, k) = {}
    THEN IF Blanks(F) # {} \/ acc = 2 THEN "FR_OK" ELSE "FR_TOO_MANY_OPEN_FILES"
    ELSE IF acc # 0 THEN "FR_LOCKED" ELSE "FR_OK"

\* acc: 0 read, 1 write, 2 delete or rename
chk_lock(F, v, k, acc) ==
  IF Lookup(F, v, k) = {}
    THEN IF Blanks(F) # {} \/ acc = 2 THEN "FR_OK" ELSE "FR_TOO_MANY_OPEN_FILES"
    ELSE IF acc # 0 \/ F[First(Lookup(F, v, k))].ctr = WMode
           THEN "FR_LOCKED" ELSE "FR_OK"

enq_lock_always(F) == TRUE    \* mutant
enq_lock(F) == Blanks(F) # {}

\* Where inc_lock counts the object: its entry, else the first blank one.
Slots(F, v, k) == IF Lookup(F, v, k) # {} THEN Lookup(F, v, k) ELSE Blanks(F)

CanInc(F, v, k, acc) ==
  /\ Slots(F, v, k) # {}
  /\ acc # 0 => F[First(Slots(F, v, k))].ctr = 0

\* bound: the 256th read of an object is left out; its count would read as
\* 0x100.  Fewer than 256 objects get there only by leaking counts.
ReadBound(F, v, k, acc) == acc = 0 => F[First(Slots(F, v, k))].ctr + 1 # WMode

inc_lock(F, v, k, acc) ==
  LET i == First(Slots(F, v, k)) IN
  [F EXCEPT ![i] = [fs |-> v, key |-> k,
                    ctr |-> IF acc # 0 THEN WMode ELSE F[i].ctr + 1]]

dec_lock_all(F, lockid) ==    \* mutant: the first close deletes the entry
  [F EXCEPT ![lockid - 1] = Blank]

dec_lock(F, lockid) ==
  LET i == lockid - 1
      n == IF F[i].ctr = WMode \/ F[i].ctr = 0 THEN 0 ELSE F[i].ctr - 1
  IN  [F EXCEPT ![i] = IF n = 0 THEN Blank ELSE [F[i] EXCEPT !.ctr = n]]

clear_lock_all(F, v) == [i \in Idx |-> Blank]    \* mutant: every volume's
clear_lock(F, v) == [i \in Idx |-> IF F[i].fs = v THEN Blank ELSE F[i]]

----------------------------------------------------------------------------
(* Mounting.                                                               *)

\* validate: disk_status of this port never reports STA_NOINIT.
Valid(h) ==
  /\ obj[h].fs # NoVol
  /\ vol[obj[h].fs].fs_type
  /\ vol[obj[h].fs].id = obj[h].id

\* find_volume returns FR_OK: the volume is mounted, or gets mounted now.
Found(v) == vol[v].reg /\ (vol[v].fs_type \/ Fsid < MaxMount)

\* mutant: a remount keeps the id, and with it the objects of the last mount
MountedSameId(v) == [reg |-> TRUE, fs_type |-> TRUE, id |-> vol[v].id]

Mounted(v)    == [reg |-> TRUE, fs_type |-> TRUE, id |-> Fsid + 1]
FoundFiles(v) == IF vol[v].fs_type THEN Files ELSE clear_lock(Files, v)
FoundFsid(v)  == IF vol[v].fs_type THEN Fsid ELSE Fsid + 1
FoundVol(v)   == IF vol[v].fs_type THEN vol ELSE [vol EXCEPT ![v] = Mounted(v)]

\* find_volume returns an error: there is no work area, or no medium.
find_volume_fails(v) ==
  /\ ~vol[v].fs_type
  /\ res' = IF vol[v].reg THEN "FR_NOT_READY" ELSE "FR_NOT_ENABLED"
  /\ UNCHANGED <<Files, vol, Fsid, tree>>

\* f_mount: reg is whether a work area is given, now whether opt is 1 and the
\* forced mount succeeds.
f_mount(v, reg, now) ==
  LET F == IF vol[v].reg THEN clear_lock(Files, v) ELSE Files IN
  /\ now => reg /\ Fsid < MaxMount
  /\ Files' = IF now THEN clear_lock(F, v) ELSE F
  /\ Fsid' = IF now THEN Fsid + 1 ELSE Fsid
  /\ vol' = [vol EXCEPT ![v] = [reg |-> reg, fs_type |-> now,
                                id |-> IF now THEN Fsid + 1 ELSE @.id]]
  /\ res' = "FR_OK"
  /\ UNCHANGED <<obj, tree>>

----------------------------------------------------------------------------
(* Opening and closing.                                                    *)

Mode == {"read", "write", "append", "create_new", "create_always", "open_always"}

Access(mode)  == IF mode = "read" THEN 0 ELSE 1        \* mode & ~FA_READ
Creates(mode) == mode \notin {"read", "write"}

\* The result of f_open before it registers the object with inc_lock.
OpenCheck(F, v, e, mode) ==
  LET exists == tree[v][e] # NoObj
      lock   == chk_lock(F, v, FileKey(e), Access(mode))
  IN  IF ~exists
        THEN IF ~Creates(mode) THEN "FR_NO_FILE"
             ELSE IF enq_lock(F) THEN "FR_OK" ELSE "FR_TOO_MANY_OPEN_FILES"
      ELSE IF lock # "FR_OK" THEN lock
      ELSE IF tree[v][e] # IsFile
        THEN IF Creates(mode) THEN "FR_DENIED" ELSE "FR_NO_FILE"
      ELSE IF mode = "create_new" THEN "FR_EXIST"
      ELSE "FR_OK"

\* The handles an application passes to be opened.  The code overwrites an
\* open one without a look at it: its entry of Files[] keeps the old count.
Free(h) == Reopens \/ ~Valid(h)

OpenedNext(v, k, lockid, write) ==    \* mutant: the index is off by one
  [fs |-> v, id |-> FoundVol(v)[v].id, key |-> k, lockid |-> lockid + 1,
   write |-> write]

Opened(v, k, lockid, write) ==
  [fs |-> v, id |-> FoundVol(v)[v].id, key |-> k, lockid |-> lockid,
   write |-> write]

\* f_open when find_volume succeeds and no disk error is met before inc_lock.
\* seek_fails: the chain of a file opened for appending could not be followed
\* to its end; the object was registered in Files[] before that.
f_open(h, v, e, mode, seek_fails) ==
  LET F   == FoundFiles(v)
      k   == FileKey(e)
      acc == Access(mode)
      chk == OpenCheck(F, v, e, mode)
      inc == chk = "FR_OK" /\ CanInc(F, v, k, acc)
  IN
  /\ Free(h) /\ Found(v)
  /\ inc => ReadBound(F, v, k, acc)
  /\ seek_fails => inc /\ mode = "append" /\ tree[v][e] = IsFile
  /\ Files' = IF inc THEN inc_lock(F, v, k, acc) ELSE F
  /\ vol' = FoundVol(v)
  /\ Fsid' = FoundFsid(v)
  /\ obj' = [obj EXCEPT ![h] =
               IF inc /\ ~seek_fails
                 THEN Opened(v, k, First(Slots(F, v, k)) + 1, acc # 0)
                 ELSE Closed]
  /\ tree' = IF chk = "FR_OK" THEN [tree EXCEPT ![v][e] = IsFile] ELSE tree
  /\ res' = IF seek_fails THEN "FR_DISK_ERR"
            ELSE IF inc THEN "FR_OK"
            ELSE IF chk = "FR_OK" THEN "FR_INT_ERR" ELSE chk

\* f_open or f_opendir that meets a disk error before inc_lock.
open_disk_error(h, v) ==
  /\ Free(h) /\ Found(v)
  /\ Files' = FoundFiles(v)
  /\ vol' = FoundVol(v)
  /\ Fsid' = FoundFsid(v)
  /\ obj' = [obj EXCEPT ![h] = Closed]
  /\ res' = "FR_DISK_ERR"
  /\ UNCHANGED tree

open_no_volume(h, v) ==
  /\ Free(h)
  /\ find_volume_fails(v)
  /\ obj' = [obj EXCEPT ![h] = Closed]

\* f_opendir of the root directory (c = 0) or of the subdirectory at c.
f_opendir(h, v, c) ==
  LET F   == FoundFiles(v)
      k   == DirKey(c)
      inc == c # 0 /\ CanInc(F, v, k, 0)
  IN
  /\ Free(h) /\ Found(v)
  /\ inc => ReadBound(F, v, k, 0)
  /\ c # 0 => \E e \in Entry : tree[v][e] = c
  /\ Files' = IF inc THEN inc_lock(F, v, k, 0) ELSE F
  /\ vol' = FoundVol(v)
  /\ Fsid' = FoundFsid(v)
  /\ obj' = [obj EXCEPT ![h] =
               IF c = 0 THEN Opened(v, k, 0, FALSE)
               ELSE IF inc THEN Opened(v, k, First(Slots(F, v, k)) + 1, FALSE)
               ELSE Closed]
  /\ res' = IF c = 0 \/ inc THEN "FR_OK" ELSE "FR_TOO_MANY_OPEN_FILES"
  /\ UNCHANGED tree

\* f_close and f_closedir: release the entry and null obj.fs.
f_close(h) ==
  /\ Valid(h)
  /\ Files' = IF obj[h].lockid = 0 THEN Files ELSE dec_lock(Files, obj[h].lockid)
  /\ obj' = [obj EXCEPT ![h] = Closed]
  /\ res' = "FR_OK"
  /\ UNCHANGED <<vol, Fsid, tree>>

\* f_close whose f_sync fails: the object stays open and locked.
f_close_sync_error(h) ==
  /\ Valid(h) /\ obj[h].write
  /\ res' = "FR_DISK_ERR"
  /\ UNCHANGED <<Files, vol, Fsid, obj, tree>>

\* Any call on an object that validate refuses.
call_invalid(h) ==
  /\ ~Valid(h)
  /\ res' = "FR_INVALID_OBJECT"
  /\ UNCHANGED <<Files, vol, Fsid, obj, tree>>

----------------------------------------------------------------------------
(* Changing the directory tree.                                            *)

\* The volume side of a path function that find_volume lets through.
Enter(v) ==
  /\ Found(v)
  /\ Files' = FoundFiles(v)
  /\ vol' = FoundVol(v)
  /\ Fsid' = FoundFsid(v)
  /\ UNCHANGED obj

path_no_volume(v) == find_volume_fails(v) /\ UNCHANGED obj

path_disk_error(v) == Enter(v) /\ res' = "FR_DISK_ERR" /\ UNCHANGED tree

f_unlink_unlocked(v, e, fails) ==    \* mutant: chk_lock is not asked
  /\ Enter(v)
  /\ fails => tree[v][e] # NoObj
  /\ tree' = [tree EXCEPT ![v][e] = NoObj]
  /\ res' = IF tree[v][e] = NoObj THEN "FR_NO_FILE"
            ELSE IF fails THEN "FR_DISK_ERR" ELSE "FR_OK"

\* f_unlink; fails: freeing the chain fails after the entry was removed.
f_unlink(v, e, fails) ==
  LET lock == chk_lock(FoundFiles(v), v, FileKey(e), 2)
      ok   == tree[v][e] # NoObj /\ lock = "FR_OK"
  IN
  /\ Enter(v)
  /\ fails => ok
  /\ tree' = IF ok THEN [tree EXCEPT ![v][e] = NoObj] ELSE tree
  /\ res' = IF tree[v][e] = NoObj THEN "FR_NO_FILE"
            ELSE IF fails THEN "FR_DISK_ERR" ELSE lock

\* f_mkdir: the new table takes a cluster no other table uses.
f_mkdir(v, e, c) ==
  /\ Enter(v)
  /\ \A x \in Entry : tree[v][x] # c
  /\ tree' = IF tree[v][e] = NoObj THEN [tree EXCEPT ![v][e] = c] ELSE tree
  /\ res' = IF tree[v][e] = NoObj THEN "FR_OK" ELSE "FR_EXIST"

\* f_rename; fails: the old entry could not be removed, both remain.
f_rename(v, e, new, fails) ==
  LET lock == chk_lock(FoundFiles(v), v, FileKey(e), 2)
      chk  == IF tree[v][e] = NoObj THEN "FR_NO_FILE"
              ELSE IF lock # "FR_OK" THEN lock
              ELSE IF tree[v][new] # NoObj THEN "FR_EXIST"
              ELSE "FR_OK"
  IN
  /\ e # new
  /\ Enter(v)
  /\ fails => chk = "FR_OK"
  /\ tree' = IF chk = "FR_OK"
               THEN [tree EXCEPT ![v][new] = tree[v][e],
                                 ![v][e] = IF fails THEN tree[v][e] ELSE NoObj]
               ELSE tree
  /\ res' = IF fails THEN "FR_DISK_ERR" ELSE chk

----------------------------------------------------------------------------
Init ==
  /\ Files = [i \in Idx |-> Blank]
  /\ vol = [v \in Vol |-> [reg |-> FALSE, fs_type |-> FALSE, id |-> 0]]
  /\ Fsid = 0
  /\ obj = [h \in Handle |-> Closed]
  /\ tree \in [Vol -> [Entry -> {NoObj, IsFile}]]
  /\ res = "FR_OK"

OpenStep ==
  \/ \E h \in Handle, v \in Vol, e \in Entry, mode \in Mode, s \in BOOLEAN :
       f_open(h, v, e, mode, s)
  \/ \E h \in Handle, v \in Vol, c \in Cluster \cup {0} : f_opendir(h, v, c)
  \/ \E h \in Handle, v \in Vol : open_disk_error(h, v)
  \/ \E h \in Handle, v \in Vol : open_no_volume(h, v)

CloseStep ==
  \/ \E h \in Handle : f_close(h)
  \/ \E h \in Handle : f_close_sync_error(h)
  \/ \E h \in Handle : call_invalid(h)

TreeStep ==
  \/ \E v \in Vol, e \in Entry, b \in BOOLEAN : f_unlink(v, e, b)
  \/ \E v \in Vol, e \in Entry, c \in Cluster : f_mkdir(v, e, c)
  \/ \E v \in Vol, e \in Entry, new \in Entry, b \in BOOLEAN :
       f_rename(v, e, new, b)
  \/ \E v \in Vol : path_no_volume(v)
  \/ \E v \in Vol : path_disk_error(v)

MountStep ==
  \E v \in Vol, reg \in BOOLEAN, now \in BOOLEAN : f_mount(v, reg, now)

Next == OpenStep \/ CloseStep \/ TreeStep \/ MountStep

Spec == Init /\ [][Next]_vars

----------------------------------------------------------------------------
(* Properties.                                                             *)

LockEntry == [fs : Vol \cup {NoVol}, key : Key, ctr : Nat]

ObjectId == [fs : Vol \cup {NoVol}, id : Nat, key : Key, lockid : 0 .. NLock,
             write : BOOLEAN]

Volume == [reg : BOOLEAN, fs_type : BOOLEAN, id : Nat]

Result == {"FR_OK", "FR_DISK_ERR", "FR_INT_ERR", "FR_NOT_READY", "FR_NO_FILE",
           "FR_DENIED", "FR_EXIST", "FR_INVALID_OBJECT", "FR_NOT_ENABLED",
           "FR_LOCKED", "FR_TOO_MANY_OPEN_FILES"}

\* Every variable keeps its type; lock ids stay indices of Files[].
TypeOK ==
  /\ Files \in [Idx -> LockEntry]
  /\ vol \in [Vol -> Volume]
  /\ Fsid \in Nat
  /\ obj \in [Handle -> ObjectId]
  /\ tree \in [Vol -> [Entry -> {NoObj, IsFile} \cup Cluster]]
  /\ res \in Result

\* The sharing policy that FR_LOCKED enforces: an object open for writing is
\* open only once, whatever mounts, failed opens and closes came before.
ExclusiveWriter ==
  \A h, k \in Handle :
    Valid(h) /\ Valid(k) /\ obj[h].fs = obj[k].fs /\ obj[h].key = obj[k].key
      /\ obj[h].write => h = k

\* A usable object other than a root directory owns the entry its lockid
\* points at, so that closing it releases its own lock and not another's.
LockidIsOwn ==
  \A h \in Handle :
    Valid(h) /\ obj[h].lockid # 0 =>
      LET s == Files[obj[h].lockid - 1]
      IN  s.fs = obj[h].fs /\ s.key = obj[h].key

OpenAt(i) == {h \in Handle : Valid(h) /\ obj[h].lockid = i + 1}

\* The counter of an entry never falls below the number of usable objects
\* that rely on it: no close deletes an entry another object still needs.
CounterCovers ==
  \A i \in Idx :
    IF Files[i].ctr = WMode THEN \A h, k \in OpenAt(i) : h = k
    ELSE Cardinality(OpenAt(i)) <= Files[i].ctr

\* chk_lock and enq_lock, asked before the file is created or found, promise
\* the slot that inc_lock takes after it: f_open never ends in FR_INT_ERR.
NoInternalError == res # "FR_INT_ERR"

\* chk_lock with acc 2 guards f_unlink and f_rename: no step takes a file's
\* entry away from under an object open on it.
OpenFileKeepsEntry ==
  [][\A v \in Vol, e \in Entry :
       tree[v][e] = IsFile /\ tree'[v][e] # IsFile =>
         \A h \in Handle :
           ~(Valid(h)' /\ obj'[h].fs = v /\ obj'[h].key = FileKey(e))]_vars

----------------------------------------------------------------------------
(* Refinement: the objects that validate accepts are the grants.           *)

NoGrant == [none |-> TRUE]

Grant(h) == [vol |-> obj[h].fs, key |-> obj[h].key, write |-> obj[h].write]

Granted == [h \in Handle |-> IF Valid(h) THEN Grant(h) ELSE NoGrant]

Sharing == INSTANCE SharingPolicy WITH grant <- Granted

\* Files[], the mount ids and validate together implement the sharing policy.
SharingRefined == Sharing!Spec
=============================================================================
