--------------------------- MODULE FatVolumeProofs ---------------------------
(***************************************************************************)
(* FatVolume, proved for every number of entries, clusters and clusters in *)
(* a sector of the FAT, for FAT16 and FAT32.  In the first part: the       *)
(* variables keep their types, and the window never hides more than the    *)
(* sector it holds.  In the second: no two files ever share a cluster,     *)
(* neither as the code sees the volume nor on the medium alone, what       *)
(* f_sync reports as stored is stored, and without faults no cluster is    *)
(* lost and the free count of a FAT32 volume is exact.  In the last: the   *)
(* chains are as long as the sizes say.                                    *)
(*                                                                         *)
(* The types alone are not inductive.  A cluster number in call is valid   *)
(* only at some of its stages, a file position stays in range only because *)
(* of the offset that f_lseek has left, and the count of f_getfree is      *)
(* bounded by the clusters of the sectors behind it.                       *)
(*                                                                         *)
(* The other properties speak of the moments between calls.  What makes    *)
(* them inductive is the ownership during a call: every cluster that an    *)
(* entry or a link points at has that one owner, is allocated, and is not  *)
(* the root directory's, and the cluster that the call has taken and not   *)
(* yet linked, or cut off and not yet freed, is nobody's.  The free count  *)
(* rests on it too: a step that changes a link changes the number of free  *)
(* clusters only where the code counts.  That nothing is lost is the other *)
(* half of ownership: what nothing points at is free, or the call's.       *)
(*                                                                         *)
(* The length of a chain rests on ownership as well: a link that changes   *)
(* is then in no other chain, and in its own chain only once.  A chain is  *)
(* followed by an argument on the least place at which it fails to be so   *)
(* (MinIn), which takes no induction rule.                                 *)
(***************************************************************************)
EXTENDS FatVolume, FiniteSetTheorems, WellFoundedInduction, TLAPS

Op == {"idle", "create", "write", "lseek", "truncate", "unlink", "mkdir",
       "getfree", "sync", "close"}
Pc == {"none", "scan", "follow", "link", "cut", "free", "ret", "back", "sync",
       "next", "look", "remove", "flush", "table", "register", "count"}

CallRec ==
  [op : Op, pc : Pc, e : Entry \cup {NoEntry}, clst : {0} \cup Clst,
   pclst : {0} \cup Clst, ncl : Nat, scl : Nat, ret : 0 .. NFatEnt + 1,
   cl : {0} \cup Clst, rem : Nat]

\* The clusters whose entries lie in the sectors before s of the FAT.
Before(s) == {c \in Clst : FatSect(c) < s}

\* What holds of a call at each of its stages.
StageOK(k) ==
  /\ k.op \notin {"idle", "getfree"} => k.e \in Entry
  /\ k.pc \in {"follow", "link", "cut", "free"} => k.clst \in Clst
  /\ k.pc = "cut" => k.pclst \in Clst
  /\ k.pc = "scan" => k.ncl \in 1 .. NFatEnt - 1
  /\ k.pc = "link" => k.ncl \in Clst
  /\ k.pc \in {"look", "remove"} => k.op = "unlink"
  /\ k.pc \in {"flush", "table", "register"} => k.op = "mkdir"
  /\ k.pc \in {"back", "next"} => k.op \in {"create", "truncate"}
  /\ k.op = "create" \/ k.pc = "back" => k.cl \in Clst
  /\ k.pc = "count" => /\ k.op = "getfree" /\ k.ncl \in FatSects
                       /\ k.rem <= Cardinality(Before(k.ncl))

\* What ties a call to the object it works on.
TiedOK(k, f) ==
  /\ k.op = "write" => f[k.e].fptr < MaxSize
  /\ k.op = "lseek" => k.rem > 0 /\ f[k.e].fptr + k.rem <= MaxSize
  /\ k.pc = "next" => f[k.e].clust \in Clst

\* Past the first cluster an object knows its start and its current cluster.
FileOK(f) == f \in File /\ (f.fptr > 0 => f.sclust \in Clst /\ f.clust \in Clst)

VolumeOK == now \in Image /\ disk \in Image
WinOK    == win \in [sect : Sect, dirty : BOOLEAN]
CountsOK == info \in [free : Hint, last : Hint]
            /\ fs \in [free : Hint, last : Hint, fsi : BOOLEAN]
FilesOK  == fil \in [Entry -> File] /\ \A e \in Entry : FileOK(fil[e])
CallOK   == call \in CallRec /\ StageOK(call) /\ TiedOK(call, fil)
HistOK   == faults \in 0 .. MaxFault /\ cut \in SUBSET Entry /\ hurt \in BOOLEAN

\* f_mkdir clears the new table through the window only after sync_window.
TableClean == call.pc = "table" => ~win.dirty

\* The part of the invariant that the window's moves are about.
WindowOK == VolumeOK /\ WinOK /\ WindowCoherent

IInv == WindowOK /\ CountsOK /\ FilesOK /\ CallOK /\ HistOK /\ TableClean

----------------------------------------------------------------------------
(* Clusters and sectors.                                                   *)

LEMMA ClstFacts ==
  /\ Clst \subseteq Nat
  /\ 2 \in Clst /\ 0 \notin Clst /\ 1 \notin Clst
  /\ EOC \notin Clst /\ DiskErr \notin Clst
  /\ \A c \in Clst : c >= 2 /\ c < NFatEnt
  /\ NFatEnt \in Nat
  BY NFatEntAssumption DEF Clst, EOC, DiskErr

LEMMA SectOfClst == ASSUME NEW c \in Clst
                    PROVE  FatSect(c) \in FatSects /\ FatSect(c) \in Sect
<1>1. c \in 0 .. NFatEnt - 1
  BY NFatEntAssumption DEF Clst
<1>2. FatSect(c) \in FatSects
  BY <1>1 DEF FatSects
<1> QED
  BY <1>2 DEF Sect

LEMMA DivMul == ASSUME NEW q \in Nat PROVE FatSect(q * PerSect) = q
  BY PerSectAssumption, SMTT(30) DEF FatSect

LEMMA DivMono == ASSUME NEW a \in Nat, NEW b \in Nat, a <= b
                 PROVE  FatSect(a) \in Nat /\ FatSect(a) <= FatSect(b)
  BY PerSectAssumption, SMTT(30) DEF FatSect

LEMMA SectsAreNat == FatSects \subseteq Nat
  BY DivMono, NFatEntAssumption DEF FatSects

\* The sector after one that is not the FAT's last is the FAT's too.
LEMMA NextSect == ASSUME NEW s \in FatSects, s # FatSect(NFatEnt - 1)
                  PROVE  s + 1 \in FatSects
<1>1. PICK a \in 0 .. NFatEnt - 1 : s = FatSect(a)
  BY DEF FatSects
<1>2. s \in Nat /\ NFatEnt - 1 \in Nat /\ s < FatSect(NFatEnt - 1) /\ FatSect(NFatEnt - 1) \in Nat
  BY <1>1, DivMono, NFatEntAssumption
<1> DEFINE b == (s + 1) * PerSect
<1>3. b \in Nat /\ FatSect(b) = s + 1
  BY <1>2, DivMul, PerSectAssumption
<1>4. b <= NFatEnt - 1
  <2>1. CASE b > NFatEnt - 1
    BY <2>1, <1>2, <1>3, PerSectAssumption, NFatEntAssumption, SMTT(30) DEF FatSect
  <2> QED
    BY <2>1, <1>2, <1>3
<1>5. b \in 0 .. NFatEnt - 1
  BY <1>2, <1>3, <1>4
<1> HIDE DEF b
<1> QED
  BY <1>3, <1>5 DEF FatSects

LEMMA ClstFinite == IsFiniteSet(Clst) /\ Cardinality(Clst) = NFatEnt - 2
<1>1. 2 \in Int /\ NFatEnt - 1 \in Int /\ 2 <= NFatEnt - 1 + 1
  BY NFatEntAssumption
<1>2. IsFiniteSet(2 .. NFatEnt - 1)
      /\ Cardinality(2 .. NFatEnt - 1) = IF 2 > NFatEnt - 1 THEN 0 ELSE (NFatEnt - 1) - 2 + 1
  BY <1>1, FS_Interval
<1> QED
  BY <1>2, NFatEntAssumption DEF Clst

LEMMA SubFinite == ASSUME NEW S, S \subseteq Clst
                   PROVE  /\ IsFiniteSet(S) /\ Cardinality(S) \in Nat
                          /\ Cardinality(S) <= NFatEnt - 2
<1>1. IsFiniteSet(S) /\ Cardinality(S) <= Cardinality(Clst)
  BY ClstFinite, FS_Subset
<1> QED
  BY <1>1, ClstFinite, FS_CardinalityType

LEMMA CardBefore == \A n : /\ Cardinality(Before(n)) \in Nat
                           /\ Cardinality(Before(n)) <= NFatEnt - 2
<1> TAKE n
<1>1. Before(n) \subseteq Clst
  BY DEF Before
<1> QED
  BY <1>1, SubFinite

----------------------------------------------------------------------------
(* The window.                                                             *)

LEMMA FlushedTyped == ASSUME VolumeOK PROVE Synced \in Image
<1>1. now.fat \in [Clst -> Cell] /\ disk.fat \in [Clst -> Cell]
      /\ now.dir \in [Entry -> Ent] /\ disk.dir \in [Entry -> Ent]
  BY DEF VolumeOK, Image
<1>2. [c \in Clst |-> IF FatSect(c) = win.sect THEN now.fat[c] ELSE disk.fat[c]]
        \in [Clst -> Cell]
  BY <1>1
<1>3. (IF win.sect = DirSect THEN now.dir ELSE disk.dir) \in [Entry -> Ent]
  BY <1>1
<1>4. Flushed \in Image
  BY <1>2, <1>3 DEF Flushed, Image
<1> QED
  BY <1>4 DEF Synced, VolumeOK

\* Once the window is written back the medium holds what the code sees.
LEMMA SyncedIsNow == ASSUME VolumeOK, WindowCoherent PROVE Synced = now
<1>1. now.fat \in [Clst -> Cell] /\ disk.fat \in [Clst -> Cell]
      /\ now = [fat |-> now.fat, dir |-> now.dir]
      /\ disk = [fat |-> disk.fat, dir |-> disk.dir]
  BY DEF VolumeOK, Image
<1>2. CASE win.dirty
  <2>1. \A c \in Clst : (IF FatSect(c) = win.sect THEN now.fat[c] ELSE disk.fat[c]) = now.fat[c]
    BY <1>2 DEF WindowCoherent
  <2>2. [c \in Clst |-> IF FatSect(c) = win.sect THEN now.fat[c] ELSE disk.fat[c]] = now.fat
    BY <2>1, <1>1
  <2>3. (IF win.sect = DirSect THEN now.dir ELSE disk.dir) = now.dir
    BY <1>2 DEF WindowCoherent
  <2>4. Flushed = now
    BY <2>2, <2>3, <1>1 DEF Flushed
  <2> QED
    BY <2>4, <1>2 DEF Synced
<1>3. CASE ~win.dirty
  <2>1. now.fat = disk.fat /\ now.dir = disk.dir
    BY <1>1, <1>3 DEF WindowCoherent
  <2> QED
    BY <2>1, <1>1, <1>3 DEF Synced
<1> QED
  BY <1>2, <1>3

LEMMA ReadKeeps ==
  ASSUME WindowOK, NEW s \in Sect, ReadAt(s), UNCHANGED now
  PROVE  WindowOK'
<1>1. Synced = now /\ Synced \in Image
  BY SyncedIsNow, FlushedTyped DEF WindowOK
<1>2. disk' \in Image /\ now' \in Image
  BY <1>1 DEF ReadAt, WindowOK, VolumeOK
<1>3. (win.sect = s /\ win.dirty) \in BOOLEAN
  OBVIOUS
<1>4. win' \in [sect : Sect, dirty : BOOLEAN]
  BY <1>3 DEF ReadAt
<1>5. CASE win.sect = s
  <2>1. win'.sect = win.sect /\ (win.dirty => win'.dirty) /\ disk' = disk
    BY <1>5 DEF ReadAt
  <2>2. WindowCoherent'
    BY <2>1 DEF WindowCoherent, WindowOK
  <2> QED
    BY <2>2, <1>2, <1>4 DEF WindowOK, VolumeOK, WinOK
<1>6. CASE win.sect # s
  <2>1. disk' = now'
    BY <1>1, <1>6 DEF ReadAt
  <2>2. WindowCoherent'
    BY <2>1 DEF WindowCoherent
  <2> QED
    BY <2>2, <1>2, <1>4 DEF WindowOK, VolumeOK, WinOK
<1> QED
  BY <1>5, <1>6

LEMMA WriteFatKeeps ==
  ASSUME WindowOK, NEW c \in Clst, NEW x \in Cell, WriteAt(FatSect(c)), PutFat(c, x)
  PROVE  WindowOK'
<1>1. Synced = now /\ Synced \in Image
  BY SyncedIsNow, FlushedTyped DEF WindowOK
<1>2. /\ now.fat \in [Clst -> Cell] /\ now.dir \in [Entry -> Ent]
      /\ now = [fat |-> now.fat, dir |-> now.dir]
  BY DEF WindowOK, VolumeOK, Image
<1>3. /\ now'.fat = [now.fat EXCEPT ![c] = x] /\ now'.dir = now.dir
      /\ now' = [fat |-> [now.fat EXCEPT ![c] = x], dir |-> now.dir]
  BY <1>2 DEF PutFat
<1>4. now' \in Image
  BY <1>2, <1>3 DEF Image
<1>5. disk' \in Image
  BY <1>1 DEF WriteAt, WindowOK, VolumeOK
<1>6. win' \in [sect : Sect, dirty : BOOLEAN] /\ win'.dirty /\ win'.sect = FatSect(c)
  BY SectOfClst DEF WriteAt
<1>7. \A d \in Clst : d # c => now'.fat[d] = now.fat[d]
  BY <1>2, <1>3
<1>8. CASE win.sect = FatSect(c)
  <2>1. disk' = disk
    BY <1>8 DEF WriteAt
  <2>2. WindowCoherent'
    BY <2>1, <1>3, <1>6, <1>7, <1>8 DEF WindowCoherent, WindowOK
  <2> QED
    BY <2>2, <1>4, <1>5, <1>6 DEF WindowOK, VolumeOK, WinOK
<1>9. CASE win.sect # FatSect(c)
  <2>1. disk' = now
    BY <1>1, <1>9 DEF WriteAt
  <2>2. WindowCoherent'
    BY <2>1, <1>3, <1>6, <1>7 DEF WindowCoherent
  <2> QED
    BY <2>2, <1>4, <1>5, <1>6 DEF WindowOK, VolumeOK, WinOK
<1> QED
  BY <1>8, <1>9

LEMMA WriteDirKeeps ==
  ASSUME WindowOK, NEW e \in Entry, NEW x \in Ent, WriteAt(DirSect), PutDir(e, x)
  PROVE  WindowOK'
<1>1. Synced = now /\ Synced \in Image
  BY SyncedIsNow, FlushedTyped DEF WindowOK
<1>2. /\ now.fat \in [Clst -> Cell] /\ now.dir \in [Entry -> Ent]
      /\ now = [fat |-> now.fat, dir |-> now.dir]
  BY DEF WindowOK, VolumeOK, Image
<1>3. /\ now'.dir = [now.dir EXCEPT ![e] = x] /\ now'.fat = now.fat
      /\ now' = [fat |-> now.fat, dir |-> [now.dir EXCEPT ![e] = x]]
  BY <1>2 DEF PutDir
<1>4. now' \in Image
  BY <1>2, <1>3 DEF Image
<1>5. disk' \in Image
  BY <1>1 DEF WriteAt, WindowOK, VolumeOK
<1>6. win' \in [sect : Sect, dirty : BOOLEAN] /\ win'.dirty /\ win'.sect = DirSect
  BY DEF WriteAt, Sect
<1>7. CASE win.sect = DirSect
  <2>1. disk' = disk
    BY <1>7 DEF WriteAt
  <2>2. WindowCoherent'
    BY <2>1, <1>3, <1>6, <1>7 DEF WindowCoherent, WindowOK
  <2> QED
    BY <2>2, <1>4, <1>5, <1>6 DEF WindowOK, VolumeOK, WinOK
<1>8. CASE win.sect # DirSect
  <2>1. disk' = now
    BY <1>1, <1>8 DEF WriteAt
  <2>2. WindowCoherent'
    BY <2>1, <1>3, <1>6 DEF WindowCoherent
  <2> QED
    BY <2>2, <1>4, <1>5, <1>6 DEF WindowOK, VolumeOK, WinOK
<1> QED
  BY <1>7, <1>8

LEMMA FailKeeps ==
  ASSUME WindowOK, NEW s, MoveFails(s), UNCHANGED now
  PROVE  WindowOK'
<1>1. Synced = now /\ Synced \in Image
  BY SyncedIsNow, FlushedTyped DEF WindowOK
<1>2. CASE disk' = disk /\ UNCHANGED win
  BY <1>2 DEF WindowOK, VolumeOK, WinOK, WindowCoherent
<1>3. CASE disk' = Synced
  <2>1. disk' = now' /\ disk' \in Image
    BY <1>1, <1>3
  <2>2. WindowCoherent' /\ VolumeOK'
    BY <2>1 DEF WindowCoherent, VolumeOK
  <2>3. UNCHANGED win \/ win' = [sect |-> NoSect, dirty |-> FALSE]
    BY DEF MoveFails
  <2>4. [sect |-> NoSect, dirty |-> FALSE] \in [sect : Sect, dirty : BOOLEAN]
    BY DEF Sect
  <2>5. WinOK'
    BY <2>3, <2>4 DEF WindowOK, WinOK
  <2> QED
    BY <2>2, <2>5 DEF WindowOK
<1> QED
  BY <1>2, <1>3 DEF MoveFails

\* sync_window: the medium is up to date, whatever the window holds then.
LEMMA SyncKeeps ==
  ASSUME WindowOK, disk' = Synced, UNCHANGED now, WinOK'
  PROVE  WindowOK'
<1>1. Synced = now /\ Synced \in Image
  BY SyncedIsNow, FlushedTyped DEF WindowOK
<1>2. disk' = now' /\ disk' \in Image
  BY <1>1
<1>3. WindowCoherent' /\ VolumeOK'
  BY <1>2 DEF WindowCoherent, VolumeOK
<1> QED
  BY <1>3 DEF WindowOK

LEMMA StillKeeps ==
  ASSUME WindowOK, UNCHANGED <<now, disk, win>>
  PROVE  WindowOK'
  BY DEF WindowOK, VolumeOK, WinOK, WindowCoherent

----------------------------------------------------------------------------
(* The call's record.                                                      *)

LEMMA IdleOK == /\ Idle \in CallRec /\ StageOK(Idle) /\ Idle.pc = "none"
                /\ \A f : TiedOK(Idle, f)
<1>1. Idle \in CallRec /\ Idle.pc = "none" /\ Idle.op = "idle"
  BY NFatEntAssumption DEF Idle, CallRec, Op, Pc
<1> QED
  BY <1>1 DEF StageOK, TiedOK

LEMMA FinishOK == ASSUME call' = Idle PROVE CallOK' /\ TableClean'
  BY IdleOK DEF CallOK, TableClean

LEMMA BeginIs ==
  ASSUME NEW op, NEW e
  PROVE  Begin(op, e) = [op |-> op, pc |-> "none", e |-> e, clst |-> 0, pclst |-> 0,
                         ncl |-> 0, scl |-> 0, ret |-> 0, cl |-> 0, rem |-> 0]
<1> DEFINE k1 == [Idle EXCEPT !.op = op]
<1>1. k1 = [op |-> op, pc |-> "none", e |-> NoEntry, clst |-> 0, pclst |-> 0,
            ncl |-> 0, scl |-> 0, ret |-> 0, cl |-> 0, rem |-> 0]
  BY DEF Idle
<1>2. Begin(op, e) = [k1 EXCEPT !.e = e]
  BY Zenon DEF Begin
<1> HIDE DEF k1
<1> QED
  BY <1>1, <1>2

LEMMA BeginOK ==
  ASSUME NEW op \in Op \ {"idle", "create", "getfree"}, NEW e \in Entry
  PROVE  LET k == Begin(op, e) IN
         k \in CallRec /\ StageOK(k) /\ k.op = op /\ k.e = e /\ k.pc = "none" /\ k.rem = 0
<1>1. Begin(op, e) \in CallRec
  BY BeginIs, NFatEntAssumption DEF CallRec, Op, Pc
<1> QED
  BY <1>1, BeginIs DEF StageOK

\* k stands for a call whose next step is another one, of the same operation.
SameCall(k, h) == k.op = h.op /\ k.e = h.e /\ k.rem = h.rem

LEMMA TiedSame ==
  ASSUME NEW k, NEW h, NEW f, TiedOK(k, f), SameCall(k, h), h.pc # "next"
  PROVE  TiedOK(h, f)
  BY DEF TiedOK, SameCall

LEMMA ReturnedOK ==
  ASSUME NEW k \in CallRec, StageOK(k), NEW r \in 0 .. NFatEnt + 1
  PROVE  LET h == Returned(k, r) IN
         h \in CallRec /\ StageOK(h) /\ SameCall(k, h) /\ h.pc = "ret" /\ h.cl = k.cl
         /\ h.ret = r
<1> DEFINE h == Returned(k, r)
<1>1. h = [op |-> k.op, pc |-> "ret", e |-> k.e, clst |-> 0, pclst |-> 0,
           ncl |-> 0, scl |-> 0, ret |-> r, cl |-> k.cl, rem |-> k.rem]
  <2>1. k = [op |-> k.op, pc |-> k.pc, e |-> k.e, clst |-> k.clst, pclst |-> k.pclst,
              ncl |-> k.ncl, scl |-> k.scl, ret |-> k.ret, cl |-> k.cl, rem |-> k.rem]
    BY DEF CallRec
  <2> DEFINE k1 == [k EXCEPT !.pc = "ret"]
  <2>2. k1 = [op |-> k.op, pc |-> "ret", e |-> k.e, clst |-> k.clst, pclst |-> k.pclst,
              ncl |-> k.ncl, scl |-> k.scl, ret |-> k.ret, cl |-> k.cl, rem |-> k.rem]
    BY <2>1
  <2> HIDE DEF k1
  <2> DEFINE k2 == [k1 EXCEPT !.ret = r]
  <2>3. k2 = [op |-> k.op, pc |-> "ret", e |-> k.e, clst |-> k.clst, pclst |-> k.pclst,
              ncl |-> k.ncl, scl |-> k.scl, ret |-> r, cl |-> k.cl, rem |-> k.rem]
    BY <2>2
  <2> HIDE DEF k2
  <2> DEFINE k3 == [k2 EXCEPT !.clst = 0]
  <2>4. k3 = [op |-> k.op, pc |-> "ret", e |-> k.e, clst |-> 0, pclst |-> k.pclst,
              ncl |-> k.ncl, scl |-> k.scl, ret |-> r, cl |-> k.cl, rem |-> k.rem]
    BY <2>3
  <2> HIDE DEF k3
  <2> DEFINE k4 == [k3 EXCEPT !.pclst = 0]
  <2>5. k4 = [op |-> k.op, pc |-> "ret", e |-> k.e, clst |-> 0, pclst |-> 0,
              ncl |-> k.ncl, scl |-> k.scl, ret |-> r, cl |-> k.cl, rem |-> k.rem]
    BY <2>4
  <2> HIDE DEF k4
  <2> DEFINE k5 == [k4 EXCEPT !.ncl = 0]
  <2>6. k5 = [op |-> k.op, pc |-> "ret", e |-> k.e, clst |-> 0, pclst |-> 0,
              ncl |-> 0, scl |-> k.scl, ret |-> r, cl |-> k.cl, rem |-> k.rem]
    BY <2>5
  <2> HIDE DEF k5
  <2>7. h = [k5 EXCEPT !.scl = 0]
    BY Zenon DEF Returned, k1, k2, k3, k4, k5
  <2> HIDE DEF h
  <2> QED
    BY <2>6, <2>7
<1> HIDE DEF h
<1>2. h \in CallRec
  BY <1>1 DEF CallRec, Pc
<1>3. StageOK(h)
  BY <1>1 DEF StageOK
<1> QED
  BY <1>1, <1>2, <1>3 DEF SameCall, h

LEMMA RemovingOK ==
  ASSUME NEW k \in CallRec, StageOK(k), NEW c, NEW p \in {0} \cup Clst
  PROVE  LET h == Removing(k, c, p) IN
         /\ h \in CallRec /\ StageOK(h) /\ SameCall(k, h) /\ h.pc \in {"ret", "free", "cut"}
         /\ h.cl = k.cl
         /\ h.pc = "ret" => c \notin Clst /\ h.ret = 1
         /\ h.pc # "ret" => /\ c \in Clst /\ h.clst = c /\ h.pclst = p
                            /\ h.pc = IF p = 0 THEN "free" ELSE "cut"
<1> DEFINE h == Removing(k, c, p)
<1>1. CASE c \notin Clst
  <2>1. h = Returned(k, 1) /\ 1 \in 0 .. NFatEnt + 1
    BY <1>1, NFatEntAssumption DEF Removing
  <2> QED
    BY <1>1, <2>1, ReturnedOK
<1>2. CASE c \in Clst
  <2> DEFINE pc == IF p = 0 THEN "free" ELSE "cut"
  <2>1. h = [op |-> k.op, pc |-> pc, e |-> k.e, clst |-> c, pclst |-> p,
             ncl |-> k.ncl, scl |-> k.scl, ret |-> k.ret, cl |-> k.cl, rem |-> k.rem]
    BY <1>2 DEF Removing, CallRec
  <2>2. pc \in {"free", "cut"} /\ (pc = "cut" => p \in Clst)
    OBVIOUS
  <2> HIDE DEF h, pc
  <2>3. h \in CallRec
    BY <2>1, <2>2, <1>2 DEF CallRec, Pc
  <2>4. StageOK(h)
    BY <2>1, <2>2, <1>2 DEF StageOK
  <2> QED
    BY <1>2, <2>1, <2>2, <2>3, <2>4 DEF SameCall, h, pc
<1> QED
  BY <1>1, <1>2

LEMMA CreatingOK ==
  ASSUME NEW k \in CallRec, StageOK(k), CountsOK, NEW c \in {0} \cup Clst
  PROVE  LET h == Creating(k, c) IN
         /\ h \in CallRec /\ StageOK(h) /\ SameCall(k, h) /\ h.cl = k.cl
         /\ h.pc = IF c = 0 THEN "scan" ELSE "follow"
         /\ h.clst = IF c = 0 THEN k.clst ELSE c
<1> DEFINE h == Creating(k, c)
           s == ScanFrom(fs.last)
<1>1. s \in 1 .. NFatEnt - 1
  BY NFatEntAssumption DEF CountsOK, Hint, ScanFrom
<1>2. CASE c = 0
  <2>1. h = [op |-> k.op, pc |-> "scan", e |-> k.e, clst |-> k.clst, pclst |-> k.pclst,
             ncl |-> s, scl |-> s, ret |-> 0, cl |-> k.cl, rem |-> k.rem]
    BY <1>2 DEF Creating, CallRec
  <2>2. s \in Nat
    BY <1>1, NFatEntAssumption
  <2> HIDE DEF h, s
  <2>3. h \in CallRec
    BY <2>1, <2>2, NFatEntAssumption DEF CallRec, Pc
  <2>4. StageOK(h)
    BY <2>1, <1>1 DEF StageOK
  <2> QED
    BY <1>2, <2>1, <2>3, <2>4 DEF SameCall, h
<1>3. CASE c # 0
  <2>1. h = [op |-> k.op, pc |-> "follow", e |-> k.e, clst |-> c, pclst |-> k.pclst,
             ncl |-> k.ncl, scl |-> k.scl, ret |-> 0, cl |-> k.cl, rem |-> k.rem]
    BY <1>3 DEF Creating, CallRec
  <2>2. c \in Clst
    BY <1>3
  <2> HIDE DEF h
  <2>3. h \in CallRec
    BY <2>1, <2>2, NFatEntAssumption DEF CallRec, Pc
  <2>4. StageOK(h)
    BY <2>1, <2>2 DEF StageOK
  <2> QED
    BY <1>3, <2>1, <2>3, <2>4 DEF SameCall, h
<1> QED
  BY <1>2, <1>3

LEMMA StepOK ==
  ASSUME CallOK, NEW h, call' = h, h \in CallRec, StageOK(h), SameCall(call, h),
         h.pc \notin {"next", "table"}, UNCHANGED fil
  PROVE  CallOK' /\ TableClean'
<1>1. TiedOK(h, fil)
  BY TiedSame DEF CallOK
<1> QED
  BY <1>1 DEF CallOK, TableClean

LEMMA ReturnOK ==
  ASSUME CallOK, NEW r \in 0 .. NFatEnt + 1, Return(r), UNCHANGED fil
  PROVE  CallOK' /\ TableClean'
<1> DEFINE h == Returned(call, r)
<1>1. h \in CallRec /\ StageOK(h) /\ SameCall(call, h) /\ h.pc = "ret"
  BY ReturnedOK DEF CallOK
<1>2. call' = h
  BY DEF Return
<1> HIDE DEF h
<1> QED
  BY <1>1, <1>2, StepOK

LEMMA GotoOK ==
  ASSUME CallOK, NEW pc \in {"back", "sync", "remove", "register"}, Goto(pc), UNCHANGED fil,
         pc = "back" => call.op = "create",
         pc = "remove" => call.op = "unlink",
         pc = "register" => call.op = "mkdir"
  PROVE  CallOK' /\ TableClean'
<1> DEFINE h == [call EXCEPT !.pc = pc]
<1>1. call \in CallRec /\ StageOK(call)
  BY DEF CallOK
<1>2. h \in CallRec
  BY <1>1 DEF CallRec, Pc
<1>3. h.pc = pc /\ h.op = call.op /\ h.e = call.e /\ h.rem = call.rem /\ h.cl = call.cl
  BY <1>1 DEF CallRec
<1>4. call' = h
  BY DEF Goto
<1> HIDE DEF h
<1>5. StageOK(h)
  BY <1>1, <1>3 DEF StageOK
<1>6. SameCall(call, h)
  BY <1>3 DEF SameCall
<1> QED
  BY <1>2, <1>3, <1>4, <1>5, <1>6, StepOK

----------------------------------------------------------------------------
(* create_chain, remove_chain and sync_fs.                                 *)

LEMMA FatTyped == ASSUME WindowOK, NEW c \in Clst
                  PROVE  now.fat[c] \in Cell /\ now.fat[c] \in 0 .. NFatEnt + 1
<1>1. now.fat[c] \in Cell
  BY DEF WindowOK, VolumeOK, Image
<1> QED
  BY <1>1, NFatEntAssumption DEF Cell, Clst, EOC

LEMMA AllocatedOK == ASSUME CountsOK, NEW c \in Clst
                     PROVE  Allocated(c) \in [free : Hint, last : Hint, fsi : BOOLEAN]
<1>1. fs.free \in Hint
  BY DEF CountsOK
<1>2. (IF fs.free = 0 THEN Unknown
       ELSE IF fs.free < NFatEnt - 2 THEN fs.free - 1 ELSE fs.free) \in Hint
  BY <1>1, NFatEntAssumption DEF Hint, Unknown
<1>3. c \in Hint
  BY NFatEntAssumption DEF Hint, Clst
<1> QED
  BY <1>2, <1>3 DEF Allocated

LEMMA ReleasedOK == ASSUME CountsOK
                    PROVE  Released \in [free : Hint, last : Hint, fsi : BOOLEAN]
<1>1. fs \in [free : Hint, last : Hint, fsi : BOOLEAN]
  BY DEF CountsOK
<1>2. CASE fs.free < NFatEnt - 2
  <2>1. fs.free + 1 \in Hint
    BY <1>1, <1>2, NFatEntAssumption DEF Hint
  <2> QED
    BY <1>1, <1>2, <2>1 DEF Released
<1> QED
  BY <1>1, <1>2 DEF Released

LEMMA FollowKeeps == ASSUME IInv, create_follow PROVE IInv'
<1>1. /\ WindowOK /\ CountsOK /\ FilesOK /\ CallOK /\ HistOK
      /\ call \in CallRec /\ StageOK(call)
  BY DEF IInv, CallOK
<1>2. call.pc = "follow" /\ ReadAt(FatSect(call.clst)) /\ UNCHANGED <<now, info, fs, fil, faults, cut, hurt>>
  BY DEF create_follow
<1>3. call.clst \in Clst
  BY <1>1, <1>2 DEF StageOK
<1>4. WindowOK'
  BY <1>1, <1>2, <1>3, ReadKeeps, SectOfClst
<1>5. CountsOK' /\ FilesOK' /\ HistOK'
  BY <1>1, <1>2 DEF CountsOK, FilesOK, HistOK
<1> DEFINE x == now.fat[call.clst]
<1>6. x \in 0 .. NFatEnt + 1 /\ 1 \in 0 .. NFatEnt + 1
  BY <1>1, <1>3, FatTyped, NFatEntAssumption
<1>7. CASE x = 0
  <2>1. Return(1)
    BY <1>7 DEF create_follow
  <2>2. CallOK' /\ TableClean'
    BY <1>1, <1>2, <1>6, <2>1, ReturnOK
  <2> QED
    BY <1>4, <1>5, <2>2 DEF IInv
<1>8. CASE x # 0 /\ x # EOC
  <2>1. Return(x)
    BY <1>8 DEF create_follow
  <2>2. CallOK' /\ TableClean'
    BY <1>1, <1>2, <1>6, <2>1, ReturnOK
  <2> QED
    BY <1>4, <1>5, <2>2 DEF IInv
<1>9. CASE x = EOC /\ x # 0
  <2> DEFINE h == [call EXCEPT !.pc = "scan", !.scl = call.clst, !.ncl = call.clst]
  <2>1. call' = h
    BY <1>9 DEF create_follow
  <2>2. call.clst \in Nat /\ call.clst \in 1 .. NFatEnt - 1
    BY <1>3, NFatEntAssumption DEF Clst
  <2>3. h \in CallRec
    BY <1>1, <2>2 DEF CallRec, Pc
  <2>4. h.pc = "scan" /\ h.op = call.op /\ h.e = call.e /\ h.rem = call.rem
        /\ h.cl = call.cl /\ h.ncl = call.clst
    BY <1>1 DEF CallRec
  <2> HIDE DEF h
  <2>5. StageOK(h) /\ SameCall(call, h)
    BY <1>1, <2>2, <2>4 DEF StageOK, SameCall
  <2>6. CallOK' /\ TableClean'
    BY <1>1, <1>2, <2>1, <2>3, <2>4, <2>5, StepOK
  <2> QED
    BY <1>4, <1>5, <2>6 DEF IInv
<1> QED
  BY <1>7, <1>8, <1>9

LEMMA ScanEndKeeps == ASSUME IInv, scan_end PROVE IInv'
<1>1. WindowOK /\ CountsOK /\ FilesOK /\ CallOK /\ HistOK
  BY DEF IInv
<1>2. Return(0) /\ UNCHANGED <<now, disk, info, win, fs, fil, faults, cut, hurt>>
  BY DEF scan_end
<1>3. CallOK' /\ TableClean'
  BY <1>1, <1>2, ReturnOK, NFatEntAssumption
<1>4. CountsOK' /\ FilesOK' /\ HistOK'
  BY <1>1, <1>2 DEF CountsOK, FilesOK, HistOK
<1>5. WindowOK'
  BY <1>1, <1>2, StillKeeps
<1> QED
  BY <1>3, <1>4, <1>5 DEF IInv

LEMMA ScanNextOK == ASSUME CallOK, call.pc = "scan"
                    PROVE  ScanNext \in Clst /\ ScanNext \in 0 .. NFatEnt + 1 /\ ScanNext \in Nat
<1>1. call.ncl \in 1 .. NFatEnt - 1
  BY DEF CallOK, StageOK
<1> QED
  BY <1>1, NFatEntAssumption DEF ScanNext, Wraps, Clst

LEMMA ScanUsedKeeps == ASSUME IInv, scan_used PROVE IInv'
<1>1. /\ WindowOK /\ CountsOK /\ FilesOK /\ CallOK /\ HistOK
      /\ call \in CallRec /\ StageOK(call)
  BY DEF IInv, CallOK
<1>2. call.pc = "scan" /\ ReadAt(FatSect(ScanNext)) /\ UNCHANGED <<now, info, fs, fil, faults, cut, hurt>>
  BY DEF scan_used
<1>3. ScanNext \in Clst /\ ScanNext \in 1 .. NFatEnt - 1 /\ ScanNext \in Nat
  BY <1>1, <1>2, ScanNextOK, NFatEntAssumption DEF Clst
<1>4. WindowOK'
  BY <1>1, <1>2, <1>3, ReadKeeps, SectOfClst
<1>5. CountsOK' /\ FilesOK' /\ HistOK'
  BY <1>1, <1>2 DEF CountsOK, FilesOK, HistOK
<1>6. CASE ScanNext = call.scl
  <2>1. Return(0)
    BY <1>6 DEF scan_used
  <2>2. CallOK' /\ TableClean'
    BY <1>1, <1>2, <2>1, ReturnOK, NFatEntAssumption
  <2> QED
    BY <1>4, <1>5, <2>2 DEF IInv
<1>7. CASE ScanNext # call.scl
  <2> DEFINE h == [call EXCEPT !.ncl = ScanNext]
  <2>1. call' = h
    BY <1>7 DEF scan_used
  <2>2. h \in CallRec
    BY <1>1, <1>3 DEF CallRec
  <2>3. h.pc = "scan" /\ h.op = call.op /\ h.e = call.e /\ h.rem = call.rem
        /\ h.cl = call.cl /\ h.ncl = ScanNext
    BY <1>1, <1>2 DEF CallRec
  <2> HIDE DEF h
  <2>4. StageOK(h) /\ SameCall(call, h)
    BY <1>1, <1>3, <2>3 DEF StageOK, SameCall
  <2>5. CallOK' /\ TableClean'
    BY <1>1, <1>2, <2>1, <2>2, <2>3, <2>4, StepOK
  <2> QED
    BY <1>4, <1>5, <2>5 DEF IInv
<1> QED
  BY <1>6, <1>7

LEMMA ScanTakeKeeps == ASSUME IInv, scan_take PROVE IInv'
<1>1. /\ WindowOK /\ CountsOK /\ FilesOK /\ CallOK /\ HistOK
      /\ call \in CallRec /\ StageOK(call)
  BY DEF IInv, CallOK
<1>2. /\ call.pc = "scan" /\ WriteAt(FatSect(ScanNext)) /\ PutFat(ScanNext, EOC)
      /\ UNCHANGED <<info, fil, faults, cut, hurt>>
  BY DEF scan_take
<1>3. ScanNext \in Clst /\ ScanNext \in Nat /\ ScanNext \in 0 .. NFatEnt + 1
  BY <1>1, <1>2, ScanNextOK
<1>4. WindowOK'
  <2>1. EOC \in Cell
    BY DEF Cell
  <2> QED
    BY <1>1, <1>2, <1>3, <2>1, WriteFatKeeps
<1>5. FilesOK' /\ HistOK'
  BY <1>1, <1>2 DEF FilesOK, HistOK
<1>6. CASE call.clst = 0
  <2>1. Return(ScanNext) /\ fs' = Allocated(ScanNext)
    BY <1>6 DEF scan_take
  <2>2. CountsOK'
    BY <1>1, <1>2, <1>3, <2>1, AllocatedOK DEF CountsOK
  <2>3. CallOK' /\ TableClean'
    BY <1>1, <1>2, <1>3, <2>1, ReturnOK
  <2> QED
    BY <1>4, <1>5, <2>2, <2>3 DEF IInv
<1>7. CASE call.clst # 0
  <2> DEFINE h == [call EXCEPT !.pc = "link", !.ncl = ScanNext]
  <2>1. call' = h /\ UNCHANGED fs
    BY <1>7 DEF scan_take
  <2>2. h \in CallRec
    BY <1>1, <1>3 DEF CallRec, Pc
  <2>3. h.pc = "link" /\ h.op = call.op /\ h.e = call.e /\ h.rem = call.rem
        /\ h.cl = call.cl /\ h.ncl = ScanNext /\ h.clst = call.clst
    BY <1>1, <1>2 DEF CallRec
  <2>4. call.clst \in Clst
    BY <1>1, <1>7 DEF CallRec
  <2> HIDE DEF h
  <2>5. StageOK(h) /\ SameCall(call, h)
    BY <1>1, <1>3, <2>3, <2>4 DEF StageOK, SameCall
  <2>6. CallOK' /\ TableClean'
    BY <1>1, <1>2, <2>1, <2>2, <2>3, <2>5, StepOK
  <2>7. CountsOK'
    BY <1>1, <1>2, <2>1 DEF CountsOK
  <2> QED
    BY <1>4, <1>5, <2>6, <2>7 DEF IInv
<1> QED
  BY <1>6, <1>7

LEMMA LinkKeeps == ASSUME IInv, create_link PROVE IInv'
<1>1. /\ WindowOK /\ CountsOK /\ FilesOK /\ CallOK /\ HistOK
      /\ call \in CallRec /\ StageOK(call)
  BY DEF IInv, CallOK
<1>2. /\ call.pc = "link" /\ WriteAt(FatSect(call.clst)) /\ PutFat(call.clst, call.ncl)
      /\ fs' = Allocated(call.ncl) /\ Return(call.ncl)
      /\ UNCHANGED <<info, fil, faults, cut, hurt>>
  BY DEF create_link
<1>3. call.clst \in Clst /\ call.ncl \in Clst /\ call.ncl \in 0 .. NFatEnt + 1
  BY <1>1, <1>2, NFatEntAssumption DEF StageOK, Clst
<1>4. WindowOK'
  <2>1. call.ncl \in Cell
    BY <1>3 DEF Cell
  <2> QED
    BY <1>1, <1>2, <1>3, <2>1, WriteFatKeeps
<1>5. FilesOK' /\ HistOK'
  BY <1>1, <1>2 DEF FilesOK, HistOK
<1>6. CountsOK'
  BY <1>1, <1>2, <1>3, AllocatedOK DEF CountsOK
<1>7. CallOK' /\ TableClean'
  BY <1>1, <1>2, <1>3, ReturnOK
<1> QED
  BY <1>4, <1>5, <1>6, <1>7 DEF IInv

LEMMA CutKeeps == ASSUME IInv, remove_cut PROVE IInv'
<1>1. /\ WindowOK /\ CountsOK /\ FilesOK /\ CallOK /\ HistOK
      /\ call \in CallRec /\ StageOK(call)
  BY DEF IInv, CallOK
<1> DEFINE h == [call EXCEPT !.pc = "free", !.pclst = 0]
<1>2. /\ call.pc = "cut" /\ WriteAt(FatSect(call.pclst)) /\ PutFat(call.pclst, EOC)
      /\ call' = h /\ UNCHANGED <<info, fs, fil, faults, cut, hurt>>
  BY DEF remove_cut
<1>3. call.clst \in Clst /\ call.pclst \in Clst
  BY <1>1, <1>2 DEF StageOK
<1>4. WindowOK'
  <2>1. EOC \in Cell
    BY DEF Cell
  <2> QED
    BY <1>1, <1>2, <1>3, <2>1, WriteFatKeeps
<1>5. CountsOK' /\ FilesOK' /\ HistOK'
  BY <1>1, <1>2 DEF CountsOK, FilesOK, HistOK
<1>6. h \in CallRec
  BY <1>1 DEF CallRec, Pc
<1>7. h.pc = "free" /\ h.op = call.op /\ h.e = call.e /\ h.rem = call.rem
      /\ h.cl = call.cl /\ h.clst = call.clst
  BY <1>1 DEF CallRec
<1> HIDE DEF h
<1>8. StageOK(h) /\ SameCall(call, h)
  BY <1>1, <1>3, <1>7 DEF StageOK, SameCall
<1>9. CallOK' /\ TableClean'
  BY <1>1, <1>2, <1>6, <1>7, <1>8, StepOK
<1> QED
  BY <1>4, <1>5, <1>9 DEF IInv

LEMMA FreeKeeps == ASSUME IInv, remove_free PROVE IInv'
<1>1. /\ WindowOK /\ CountsOK /\ FilesOK /\ CallOK /\ HistOK
      /\ call \in CallRec /\ StageOK(call)
  BY DEF IInv, CallOK
<1>2. call.pc = "free" /\ UNCHANGED <<info, fil, faults, cut, hurt>>
  BY DEF remove_free
<1>3. call.clst \in Clst
  BY <1>1, <1>2 DEF StageOK
<1>4. FilesOK' /\ HistOK'
  BY <1>1, <1>2 DEF FilesOK, HistOK
<1> DEFINE x == now.fat[call.clst]
<1>5. CASE x = 0
  <2>1. ReadAt(FatSect(call.clst)) /\ Return(0) /\ UNCHANGED <<now, fs>>
    BY <1>5 DEF remove_free
  <2>2. WindowOK'
    BY <1>1, <1>3, <2>1, ReadKeeps, SectOfClst
  <2>3. CountsOK'
    BY <1>1, <1>2, <2>1 DEF CountsOK
  <2>4. CallOK' /\ TableClean'
    BY <1>1, <1>2, <2>1, ReturnOK, NFatEntAssumption
  <2> QED
    BY <1>4, <2>2, <2>3, <2>4 DEF IInv
<1>6. CASE x # 0
  <2>1. /\ WriteAt(FatSect(call.clst)) /\ PutFat(call.clst, 0) /\ fs' = Released
        /\ \/ x = EOC /\ Return(0)
           \/ x # EOC /\ call' = [call EXCEPT !.clst = x]
    BY <1>6 DEF remove_free
  <2>2. WindowOK'
    <3>1. 0 \in Cell
      BY DEF Cell
    <3> QED
      BY <1>1, <1>3, <2>1, <3>1, WriteFatKeeps
  <2>3. CountsOK'
    BY <1>1, <1>2, <2>1, ReleasedOK DEF CountsOK
  <2>4. CASE x = EOC
    <3>1. CallOK' /\ TableClean'
      BY <1>1, <1>2, <2>1, <2>4, ReturnOK, NFatEntAssumption
    <3> QED
      BY <1>4, <2>2, <2>3, <3>1 DEF IInv
  <2>5. CASE x # EOC
    <3> DEFINE h == [call EXCEPT !.clst = x]
    <3>1. x \in Clst
      BY <1>1, <1>3, <1>6, <2>5, FatTyped DEF Cell
    <3>2. call' = h
      BY <2>1, <2>5
    <3>3. h \in CallRec
      BY <1>1, <3>1 DEF CallRec
    <3>4. h.pc = "free" /\ h.op = call.op /\ h.e = call.e /\ h.rem = call.rem
          /\ h.cl = call.cl /\ h.clst = x
      BY <1>1, <1>2 DEF CallRec
    <3> HIDE DEF h
    <3>5. StageOK(h) /\ SameCall(call, h)
      BY <1>1, <3>1, <3>4 DEF StageOK, SameCall
    <3>6. CallOK' /\ TableClean'
      BY <1>1, <1>2, <3>2, <3>3, <3>4, <3>5, StepOK
    <3> QED
      BY <1>4, <2>2, <2>3, <3>6 DEF IInv
  <2> QED
    BY <2>4, <2>5
<1> QED
  BY <1>5, <1>6

----------------------------------------------------------------------------
(* The objects.                                                            *)

LEMMA ClosedOK == FileOK(ClosedFil)
<1>1. 0 \in 0 .. MaxSize
  BY MaxSizeAssumption
<1>2. ClosedFil \in File
  BY <1>1 DEF ClosedFil, File
<1>3. ClosedFil.fptr = 0
  BY DEF ClosedFil
<1> QED
  BY <1>2, <1>3 DEF FileOK

LEMMA OpenOK == ASSUME NEW c \in {0} \cup Clst, NEW n \in 0 .. MaxSize, NEW m \in BOOLEAN
                PROVE  FileOK(OpenFil(c, n, m))
<1> DEFINE f1 == [ClosedFil EXCEPT !.open = TRUE]
<1>1. ClosedFil \in File /\ ClosedFil.fptr = 0
  BY ClosedOK DEF FileOK, ClosedFil
<1>2. f1 \in File /\ f1.fptr = 0
  BY <1>1 DEF File
<1> HIDE DEF f1
<1> DEFINE f2 == [f1 EXCEPT !.sclust = c]
<1>3. f2 \in File /\ f2.fptr = 0
  BY <1>2 DEF File
<1> HIDE DEF f2
<1> DEFINE f3 == [f2 EXCEPT !.size = n]
<1>4. f3 \in File /\ f3.fptr = 0
  BY <1>3 DEF File
<1> HIDE DEF f3
<1> DEFINE f4 == [f3 EXCEPT !.modified = m]
<1>5. f4 \in File /\ f4.fptr = 0
  BY <1>4 DEF File
<1>6. OpenFil(c, n, m) = f4
  BY Zenon DEF OpenFil, f1, f2, f3
<1> HIDE DEF f4
<1> QED
  BY <1>5, <1>6 DEF FileOK

LEMMA ErrOK == ASSUME NEW f, FileOK(f) PROVE FileOK([f EXCEPT !.err = TRUE])
<1> DEFINE g == [f EXCEPT !.err = TRUE]
<1>1. f \in File
  BY DEF FileOK
<1>2. g \in File
  BY <1>1 DEF File
<1>3. g.fptr = f.fptr /\ g.sclust = f.sclust /\ g.clust = f.clust
  BY <1>1 DEF File
<1> HIDE DEF g
<1> QED
  BY <1>2, <1>3 DEF FileOK, g

LEMMA CleanOK == ASSUME NEW f, FileOK(f), NEW m \in BOOLEAN
                 PROVE  FileOK([f EXCEPT !.modified = m])
<1> DEFINE g == [f EXCEPT !.modified = m]
<1>1. f \in File
  BY DEF FileOK
<1>2. g \in File
  BY <1>1 DEF File
<1>3. g.fptr = f.fptr /\ g.sclust = f.sclust /\ g.clust = f.clust
  BY <1>1 DEF File
<1> HIDE DEF g
<1> QED
  BY <1>2, <1>3 DEF FileOK, g

LEMMA PutFilOK ==
  ASSUME FilesOK, NEW e \in Entry, NEW g, FileOK(g), fil' = [fil EXCEPT ![e] = g]
  PROVE  FilesOK' /\ fil'[e] = g
<1>1. g \in File /\ fil \in [Entry -> File]
  BY DEF FileOK, FilesOK
<1>2. fil' \in [Entry -> File] /\ fil'[e] = g
  BY <1>1
<1>3. \A x \in Entry : FileOK(fil'[x])
  BY <1>1, <1>2 DEF FilesOK
<1> QED
  BY <1>2, <1>3 DEF FilesOK

LEMMA Kept ==
  ASSUME HistOK, UNCHANGED <<faults, cut, hurt>>
  PROVE  HistOK'
  BY DEF HistOK

LEMMA FaultOK ==
  ASSUME HistOK, faults < MaxFault, faults' = faults + 1, UNCHANGED <<cut, hurt>>
  PROVE  HistOK'
  BY MaxFaultAssumption DEF HistOK

----------------------------------------------------------------------------
(* sync_fs.                                                                *)

LEMMA AfterSyncOK ==
  ASSUME FilesOK, CallOK, NEW ok \in BOOLEAN, AfterSync(ok)
  PROVE  FilesOK'
<1>1. CASE call.op \in {"sync", "close"}
  <2>1. call.e \in Entry
    BY <1>1 DEF CallOK, StageOK
  <2> DEFINE g == IF ok /\ call.op = "close" THEN ClosedFil
                  ELSE [fil[call.e] EXCEPT !.modified = FALSE]
  <2>2. FileOK(fil[call.e])
    BY <2>1 DEF FilesOK
  <2>3. FileOK([fil[call.e] EXCEPT !.modified = FALSE])
    BY <2>2, CleanOK
  <2>4. FileOK(g)
    BY <2>3, ClosedOK
  <2>5. fil' = [fil EXCEPT ![call.e] = g]
    BY <1>1 DEF AfterSync, UpdateFil
  <2> HIDE DEF g
  <2> QED
    BY <2>1, <2>4, <2>5, PutFilOK
<1>2. CASE call.op \notin {"sync", "close"}
  BY <1>2 DEF AfterSync, FilesOK
<1> QED
  BY <1>1, <1>2

LEMMA SyncFsiOK ==
  ASSUME CountsOK, WinOK, SyncFsi, faults \in 0 .. MaxFault
  PROVE  CountsOK' /\ WinOK' /\ faults' \in 0 .. MaxFault
<1>1. /\ info \in [free : Hint, last : Hint]
      /\ fs \in [free : Hint, last : Hint, fsi : BOOLEAN]
      /\ win \in [sect : Sect, dirty : BOOLEAN]
  BY DEF CountsOK, WinOK
<1>2. CASE FAT32 /\ fs.fsi
  <2>1. \/ info' = [free |-> fs.free, last |-> fs.last] /\ UNCHANGED faults
        \/ faults < MaxFault /\ UNCHANGED info /\ faults' = faults + 1
    BY <1>2 DEF SyncFsi
  <2>2. win' = [sect |-> InfoSect, dirty |-> FALSE] /\ fs' = [fs EXCEPT !.fsi = FALSE]
    BY <1>2 DEF SyncFsi
  <2>3. win' \in [sect : Sect, dirty : BOOLEAN]
    BY <2>2 DEF Sect
  <2>4. fs' \in [free : Hint, last : Hint, fsi : BOOLEAN]
    BY <1>1, <2>2
  <2>5. info' \in [free : Hint, last : Hint] /\ faults' \in 0 .. MaxFault
    BY <1>1, <2>1, MaxFaultAssumption
  <2> QED
    BY <2>3, <2>4, <2>5 DEF CountsOK, WinOK
<1>3. CASE ~(FAT32 /\ fs.fsi)
  <2>1. win' = [win EXCEPT !.dirty = FALSE] /\ UNCHANGED <<info, fs, faults>>
    BY <1>3 DEF SyncFsi
  <2>2. win' \in [sect : Sect, dirty : BOOLEAN]
    BY <1>1, <2>1
  <2> QED
    BY <1>1, <2>1, <2>2 DEF CountsOK, WinOK
<1> QED
  BY <1>2, <1>3

LEMMA SyncFsKeeps == ASSUME IInv, sync_fs PROVE IInv'
<1>1. WindowOK /\ CountsOK /\ FilesOK /\ CallOK /\ HistOK /\ WinOK
  BY DEF IInv, WindowOK
<1>2. /\ disk' = Synced /\ SyncFsi /\ AfterSync(TRUE) /\ Finish("FR_OK")
      /\ UNCHANGED <<now, hurt>>
      /\ cut' = IF call.op \in {"sync", "close"} THEN cut \ {call.e} ELSE cut
  BY DEF sync_fs
<1>3. CountsOK' /\ WinOK' /\ faults' \in 0 .. MaxFault
  BY <1>1, <1>2, SyncFsiOK DEF HistOK
<1>4. WindowOK'
  BY <1>1, <1>2, <1>3, SyncKeeps
<1>5. FilesOK'
  BY <1>1, <1>2, AfterSyncOK
<1>6. HistOK'
  BY <1>1, <1>2, <1>3 DEF HistOK
<1>7. CallOK' /\ TableClean'
  BY <1>2, FinishOK DEF Finish
<1> QED
  BY <1>3, <1>4, <1>5, <1>6, <1>7 DEF IInv

LEMMA SyncErrorKeeps == ASSUME IInv, sync_fs_error PROVE IInv'
<1>1. WindowOK /\ CountsOK /\ FilesOK /\ CallOK /\ HistOK /\ WinOK
  BY DEF IInv, WindowOK
<1>2. /\ disk' \in {disk, Synced} /\ AfterSync(FALSE) /\ Finish("FR_DISK_ERR")
      /\ faults < MaxFault /\ faults' = faults + 1
      /\ UNCHANGED <<now, info, win, fs, cut, hurt>>
  BY DEF sync_fs_error
<1>3. WindowOK'
  <2>1. CASE disk' = disk
    BY <1>1, <1>2, <2>1, StillKeeps
  <2>2. CASE disk' = Synced
    <3>1. WinOK'
      BY <1>1, <1>2 DEF WinOK
    <3> QED
      BY <1>1, <1>2, <2>2, <3>1, SyncKeeps
  <2> QED
    BY <1>2, <2>1, <2>2
<1>4. FilesOK'
  BY <1>1, <1>2, AfterSyncOK
<1>5. HistOK'
  BY <1>1, <1>2, FaultOK
<1>6. CountsOK'
  BY <1>1, <1>2 DEF CountsOK
<1>7. CallOK' /\ TableClean'
  BY <1>2, FinishOK DEF Finish
<1> QED
  BY <1>3, <1>4, <1>5, <1>6, <1>7 DEF IInv

----------------------------------------------------------------------------
(* The calls that begin in the directory sector.                           *)

LEMMA DirSectOK == DirSect \in Sect /\ DataSect \in Sect
  BY DEF Sect

LEMMA EntTyped == ASSUME WindowOK, NEW e \in Entry
                  PROVE  now.dir[e] \in Ent
  BY DEF WindowOK, VolumeOK, Image

LEMMA FileEntOK == ASSUME NEW c \in {0} \cup Clst, NEW n \in 0 .. MaxSize
                   PROVE  FileEnt(c, n) \in Ent
  BY DEF FileEnt, Ent

LEMMA DirErrorKeeps == ASSUME IInv, dir_error PROVE IInv'
<1>1. WindowOK /\ CountsOK /\ FilesOK /\ CallOK /\ HistOK
  BY DEF IInv
<1>2. /\ call = Idle /\ faults < MaxFault /\ faults' = faults + 1 /\ MoveFails(DirSect)
      /\ UNCHANGED <<now, info, fs, fil, call, cut, hurt>>
  BY DEF dir_error
<1>3. WindowOK'
  BY <1>1, <1>2, FailKeeps
<1>4. HistOK'
  BY <1>1, <1>2, FaultOK
<1>5. CountsOK' /\ FilesOK'
  BY <1>1, <1>2 DEF CountsOK, FilesOK
<1>6. CallOK' /\ TableClean'
  BY <1>2, FinishOK
<1> QED
  BY <1>3, <1>4, <1>5, <1>6 DEF IInv

LEMMA OpenKeeps == ASSUME IInv, NEW e \in Entry, f_open(e) PROVE IInv'
<1>1. WindowOK /\ CountsOK /\ FilesOK /\ CallOK /\ HistOK
  BY DEF IInv
<1> DEFINE d == now.dir[e]
           g == IF d.kind = "file" THEN OpenFil(d.clst, d.size, FALSE) ELSE fil[e]
<1>2. /\ call = Idle /\ ReadAt(DirSect) /\ UNCHANGED <<now, info, fs, call, faults, cut, hurt>>
      /\ fil' = [fil EXCEPT ![e] = g]
  BY DEF f_open
<1>3. d.clst \in {0} \cup Clst /\ d.size \in 0 .. MaxSize
  BY <1>1, EntTyped DEF Ent
<1>4. FileOK(OpenFil(d.clst, d.size, FALSE)) /\ FileOK(fil[e])
  BY <1>1, <1>3, OpenOK DEF FilesOK
<1>5. FileOK(g)
  BY <1>4
<1> HIDE DEF g
<1>6. FilesOK'
  BY <1>1, <1>2, <1>5, PutFilOK
<1>7. WindowOK'
  BY <1>1, <1>2, ReadKeeps, DirSectOK
<1>8. CallOK' /\ TableClean'
  BY <1>2, FinishOK
<1>9. CountsOK' /\ HistOK'
  BY <1>1, <1>2, Kept DEF CountsOK
<1> QED
  BY <1>6, <1>7, <1>8, <1>9 DEF IInv

LEMMA DeniedKeeps == ASSUME IInv, NEW e \in Entry, f_open_denied(e) PROVE IInv'
<1>1. WindowOK /\ CountsOK /\ FilesOK /\ CallOK /\ HistOK
  BY DEF IInv
<1>2. call = Idle /\ ReadAt(DirSect) /\ UNCHANGED <<now, info, fs, fil, call, faults, cut, hurt>>
  BY DEF f_open_denied
<1>3. WindowOK'
  BY <1>1, <1>2, ReadKeeps, DirSectOK
<1>4. CallOK' /\ TableClean'
  BY <1>2, FinishOK
<1>5. CountsOK' /\ HistOK' /\ FilesOK'
  BY <1>1, <1>2, Kept DEF CountsOK, FilesOK
<1> QED
  BY <1>3, <1>4, <1>5 DEF IInv

LEMMA CreateKeeps == ASSUME IInv, NEW e \in Entry, f_open_create(e) PROVE IInv'
<1>1. WindowOK /\ CountsOK /\ FilesOK /\ CallOK /\ HistOK
  BY DEF IInv
<1> DEFINE c == now.dir[e].clst
<1>2. /\ call = Idle /\ WriteAt(DirSect) /\ PutDir(e, FileEnt(0, 0))
      /\ UNCHANGED <<info, fs, faults, cut, hurt>>
  BY DEF f_open_create
<1>3. 0 \in 0 .. MaxSize
  BY MaxSizeAssumption
<1>4. WindowOK'
  BY <1>1, <1>2, <1>3, FileEntOK, WriteDirKeeps
<1>5. CountsOK' /\ HistOK'
  BY <1>1, <1>2, Kept DEF CountsOK
<1>6. CASE c = 0
  <2>1. fil' = [fil EXCEPT ![e] = OpenFil(0, 0, TRUE)] /\ UNCHANGED call
    BY <1>6 DEF f_open_create
  <2>2. FilesOK'
    BY <1>1, <1>3, <2>1, OpenOK, PutFilOK
  <2>3. CallOK' /\ TableClean'
    BY <1>2, <2>1, FinishOK
  <2> QED
    BY <1>4, <1>5, <2>2, <2>3 DEF IInv
<1>7. CASE c # 0
  <2>1. c \in Clst
    BY <1>1, <1>7, EntTyped DEF Ent
  <2> DEFINE b == Begin("create", e)
             k == [b EXCEPT !.cl = c]
             h == Removing(k, c, 0)
  <2>2. call' = h /\ UNCHANGED fil
    BY <1>7 DEF f_open_create
  <2>3. b = [op |-> "create", pc |-> "none", e |-> e, clst |-> 0, pclst |-> 0,
             ncl |-> 0, scl |-> 0, ret |-> 0, cl |-> 0, rem |-> 0]
    BY BeginIs
  <2> HIDE DEF b
  <2>4. k = [op |-> "create", pc |-> "none", e |-> e, clst |-> 0, pclst |-> 0,
             ncl |-> 0, scl |-> 0, ret |-> 0, cl |-> c, rem |-> 0]
    BY <2>3
  <2> HIDE DEF k, c
  <2>5. k \in CallRec
    BY <2>1, <2>4, NFatEntAssumption DEF CallRec, Op, Pc
  <2>6. StageOK(k) /\ k.op = "create"
    BY <2>1, <2>4 DEF StageOK
  <2>7. h \in CallRec /\ StageOK(h) /\ SameCall(k, h) /\ h.pc \in {"ret", "free", "cut"}
    BY <2>5, <2>6, RemovingOK
  <2> HIDE DEF h
  <2>8. TiedOK(h, fil)
    BY <2>6, <2>7 DEF TiedOK, SameCall
  <2>9. CallOK' /\ TableClean'
    BY <2>2, <2>7, <2>8 DEF CallOK, TableClean
  <2>10. FilesOK'
    BY <1>1, <2>2 DEF FilesOK
  <2> QED
    BY <1>4, <1>5, <2>9, <2>10 DEF IInv
<1> QED
  BY <1>6, <1>7

LEMMA OpenRemovedKeeps == ASSUME IInv, open_removed PROVE IInv'
<1>1. WindowOK /\ CountsOK /\ FilesOK /\ CallOK /\ HistOK
  BY DEF IInv
<1>2. /\ call.op = "create" /\ UNCHANGED <<now, disk, info, win, fs, fil, faults, cut, hurt>>
      /\ Goto("back") \/ Finish("FR_DISK_ERR")
  BY DEF open_removed
<1>3. WindowOK' /\ CountsOK' /\ FilesOK' /\ HistOK'
  BY <1>1, <1>2, StillKeeps, Kept DEF CountsOK, FilesOK
<1>4. CASE Goto("back")
  BY <1>1, <1>2, <1>3, <1>4, GotoOK DEF IInv
<1>5. CASE Finish("FR_DISK_ERR")
  BY <1>3, <1>5, FinishOK DEF IInv, Finish
<1> QED
  BY <1>2, <1>4, <1>5

LEMMA LastOK == ASSUME CountsOK, CallOK, call.pc = "back"
                PROVE  [fs EXCEPT !.last = call.cl - 1] \in [free : Hint, last : Hint, fsi : BOOLEAN]
<1>1. call.cl \in Clst
  BY DEF CallOK, StageOK
<1>2. call.cl - 1 \in Hint
  BY <1>1, NFatEntAssumption DEF Clst, Hint
<1> QED
  BY <1>2 DEF CountsOK

LEMMA OpenBackKeeps == ASSUME IInv, open_back PROVE IInv'
<1>1. WindowOK /\ CountsOK /\ FilesOK /\ CallOK /\ HistOK
  BY DEF IInv
<1>2. /\ call.pc = "back" /\ ReadAt(DirSect) /\ fs' = [fs EXCEPT !.last = call.cl - 1]
      /\ fil' = [fil EXCEPT ![call.e] = OpenFil(0, 0, TRUE)] /\ Finish("FR_OK")
      /\ UNCHANGED <<now, info, faults, cut, hurt>>
  BY DEF open_back, UpdateFil
<1>3. call.e \in Entry
  BY <1>1, <1>2 DEF CallOK, StageOK
<1>4. WindowOK'
  BY <1>1, <1>2, ReadKeeps, DirSectOK
<1>5. CountsOK'
  BY <1>1, <1>2, LastOK DEF CountsOK
<1>6. 0 \in 0 .. MaxSize
  BY MaxSizeAssumption
<1>7. FilesOK'
  BY <1>1, <1>2, <1>3, <1>6, OpenOK, PutFilOK
<1>8. CallOK' /\ TableClean' /\ HistOK'
  BY <1>1, <1>2, FinishOK, Kept DEF Finish
<1> QED
  BY <1>4, <1>5, <1>7, <1>8 DEF IInv

----------------------------------------------------------------------------
(* f_sync and f_close.                                                     *)

LEMMA UpdateKeeps ==
  ASSUME IInv, NEW op \in {"sync", "close"}, NEW e \in Entry, Update(op, e),
         UNCHANGED <<info, fs, faults, cut, hurt>>
  PROVE  IInv'
<1>1. WindowOK /\ CountsOK /\ FilesOK /\ CallOK /\ HistOK
  BY DEF IInv
<1> DEFINE x == FileEnt(fil[e].sclust, fil[e].size)
           b == Begin(op, e)
           h == [b EXCEPT !.pc = "sync"]
<1>2. WriteAt(DirSect) /\ PutDir(e, x) /\ call' = h /\ UNCHANGED fil
  BY DEF Update
<1>3. fil[e].sclust \in {0} \cup Clst /\ fil[e].size \in 0 .. MaxSize
  BY <1>1 DEF FilesOK, FileOK, File
<1>4. x \in Ent
  BY <1>3, FileEntOK
<1>5. WindowOK'
  BY <1>1, <1>2, <1>4, WriteDirKeeps
<1>6. b = [op |-> op, pc |-> "none", e |-> e, clst |-> 0, pclst |-> 0,
           ncl |-> 0, scl |-> 0, ret |-> 0, cl |-> 0, rem |-> 0]
  BY BeginIs
<1> HIDE DEF b
<1>7. h = [op |-> op, pc |-> "sync", e |-> e, clst |-> 0, pclst |-> 0,
           ncl |-> 0, scl |-> 0, ret |-> 0, cl |-> 0, rem |-> 0]
  BY <1>6
<1> HIDE DEF h
<1>8. h \in CallRec
  BY <1>7, NFatEntAssumption DEF CallRec, Op, Pc
<1>9. StageOK(h) /\ TiedOK(h, fil)
  BY <1>7 DEF StageOK, TiedOK
<1>10. CallOK' /\ TableClean'
  BY <1>2, <1>7, <1>8, <1>9 DEF CallOK, TableClean
<1>11. CountsOK' /\ FilesOK' /\ HistOK'
  BY <1>1, <1>2, Kept DEF CountsOK, FilesOK
<1> QED
  BY <1>5, <1>10, <1>11 DEF IInv

LEMMA SyncKeepsInv == ASSUME IInv, NEW e \in Entry, f_sync(e) PROVE IInv'
<1>1. UNCHANGED <<info, fs, faults, cut, hurt>> /\ call = Idle
  BY DEF f_sync
<1>2. CASE Update("sync", e)
  BY <1>1, <1>2, UpdateKeeps
<1>3. CASE UNCHANGED <<now, disk, win, fil, call>>
  <2>1. WindowOK /\ CountsOK /\ FilesOK /\ CallOK /\ HistOK
    BY DEF IInv
  <2>2. WindowOK' /\ HistOK'
    BY <1>1, <1>3, <2>1, StillKeeps, Kept
  <2>3. CountsOK' /\ FilesOK'
    BY <1>1, <1>3, <2>1 DEF CountsOK, FilesOK
  <2>4. CallOK' /\ TableClean'
    BY <1>1, <1>3, FinishOK
  <2> QED
    BY <2>2, <2>3, <2>4 DEF IInv
<1> QED
  BY <1>2, <1>3 DEF f_sync

LEMMA CloseKeeps == ASSUME IInv, NEW e \in Entry, f_close(e) PROVE IInv'
<1>1. UNCHANGED <<info, fs, faults, cut, hurt>> /\ call = Idle
  BY DEF f_close
<1>2. CASE Update("close", e)
  BY <1>1, <1>2, UpdateKeeps
<1>3. CASE fil' = [fil EXCEPT ![e] = ClosedFil] /\ UNCHANGED <<now, disk, win, call>>
  <2>1. WindowOK /\ CountsOK /\ FilesOK /\ CallOK /\ HistOK
    BY DEF IInv
  <2>2. WindowOK' /\ HistOK'
    BY <1>1, <1>3, <2>1, StillKeeps, Kept
  <2>3. CountsOK'
    BY <1>1, <1>3, <2>1 DEF CountsOK
  <2>4. FilesOK'
    BY <1>3, <2>1, ClosedOK, PutFilOK
  <2>5. CallOK' /\ TableClean'
    BY <1>1, <1>3, FinishOK
  <2> QED
    BY <2>2, <2>3, <2>4, <2>5 DEF IInv
<1> QED
  BY <1>2, <1>3 DEF f_close

----------------------------------------------------------------------------
(* f_write.                                                                *)

LEMMA WriteKeeps == ASSUME IInv, NEW e \in Entry, f_write(e) PROVE IInv'
<1>1. WindowOK /\ CountsOK /\ FilesOK /\ CallOK /\ HistOK
  BY DEF IInv
<1> DEFINE f == fil[e]
           k == Begin("write", e)
           r == [k EXCEPT !.pc = "ret", !.ret = f.sclust]
           h == IF f.fptr = 0
                  THEN IF f.sclust = 0 THEN Creating(k, 0) ELSE r
                  ELSE Creating(k, f.clust)
<1>2. /\ f.fptr < MaxSize /\ call' = h
      /\ UNCHANGED <<now, disk, info, win, fs, fil, faults, cut, hurt>>
  BY DEF f_write
<1>3. f \in File
  BY <1>1 DEF FilesOK
<1>4. f.sclust \in {0} \cup Clst /\ f.clust \in {0} \cup Clst
  BY <1>3 DEF File
<1>5. k \in CallRec /\ StageOK(k) /\ k.op = "write" /\ k.e = e
  <2>1. "write" \in Op \ {"idle", "create", "getfree"}
    BY DEF Op
  <2> QED
    BY <2>1, BeginOK
<1> HIDE DEF k
<1>6. r \in CallRec /\ r.pc = "ret" /\ SameCall(k, r) /\ StageOK(r)
  <2>1. f.sclust \in 0 .. NFatEnt + 1
    BY <1>4, NFatEntAssumption DEF Clst
  <2>2. r \in CallRec
    BY <1>5, <2>1 DEF CallRec, Pc
  <2>3. r.pc = "ret" /\ r.op = k.op /\ r.e = k.e /\ r.rem = k.rem /\ r.cl = k.cl
    BY <1>5 DEF CallRec
  <2> HIDE DEF r
  <2> QED
    BY <1>5, <2>2, <2>3 DEF SameCall, StageOK
<1>7. \A c \in {0} \cup Clst : LET n == Creating(k, c) IN
        n \in CallRec /\ StageOK(n) /\ SameCall(k, n) /\ n.pc \in {"scan", "follow"}
  BY <1>1, <1>5, CreatingOK
<1> HIDE DEF r
<1>8. h \in CallRec /\ StageOK(h) /\ SameCall(k, h) /\ h.pc \in {"ret", "scan", "follow"}
  BY <1>4, <1>6, <1>7
<1> HIDE DEF h
<1>9. TiedOK(h, fil)
  BY <1>2, <1>5, <1>8 DEF TiedOK, SameCall
<1>10. CallOK' /\ TableClean'
  BY <1>2, <1>8, <1>9 DEF CallOK, TableClean
<1>11. CountsOK' /\ FilesOK' /\ HistOK' /\ WindowOK'
  BY <1>1, <1>2, Kept, StillKeeps DEF CountsOK, FilesOK
<1> QED
  BY <1>10, <1>11 DEF IInv

\* The object once the call's cluster is its current one.
LEMMA GotClusterOK ==
  ASSUME NEW f, FileOK(f), NEW c \in Clst
  PROVE  LET g == [f EXCEPT !.clust = c, !.sclust = IF @ = 0 THEN c ELSE @] IN
         FileOK(g) /\ g.sclust \in Clst /\ g.clust = c /\ g.fptr = f.fptr /\ g.size = f.size
<1> DEFINE s == IF f.sclust = 0 THEN c ELSE f.sclust
           g == [f EXCEPT !.clust = c, !.sclust = s]
<1>1. f \in File /\ f.sclust \in {0} \cup Clst
  BY DEF FileOK, File
<1>2. s \in Clst
  BY <1>1
<1> HIDE DEF s
<1>3. g \in File
  BY <1>1, <1>2 DEF File
<1>4. g.sclust = s /\ g.clust = c /\ g.fptr = f.fptr /\ g.size = f.size
  BY <1>1 DEF File
<1>5. [f EXCEPT !.clust = c, !.sclust = IF @ = 0 THEN c ELSE @] = g
  BY DEF s
<1> HIDE DEF g
<1> QED
  BY <1>2, <1>3, <1>4, <1>5 DEF FileOK

LEMMA AbortOK ==
  ASSUME FilesOK, call.e \in Entry, NEW f, FileOK(f), Abort(f)
  PROVE  FilesOK' /\ CallOK' /\ TableClean'
<1>1. fil' = [fil EXCEPT ![call.e] = [f EXCEPT !.err = TRUE]] /\ call' = Idle
  BY DEF Abort, UpdateFil, Finish
<1>2. FileOK([f EXCEPT !.err = TRUE])
  BY ErrOK
<1> QED
  BY <1>1, <1>2, PutFilOK, FinishOK

LEMMA WrittenOK ==
  ASSUME NEW g, FileOK(g), g.fptr < MaxSize, g.sclust \in Clst, g.clust \in Clst, NEW p, p = g.fptr
  PROVE  FileOK([g EXCEPT !.fptr = @ + 1, !.modified = TRUE,
                          !.size = IF p + 1 > @ THEN p + 1 ELSE @])
<1> DEFINE n == g.fptr + 1
           z == IF p + 1 > g.size THEN p + 1 ELSE g.size
<1>1. g \in File /\ g.fptr \in 0 .. MaxSize /\ g.size \in 0 .. MaxSize
  BY DEF FileOK, File
<1>2. n \in 0 .. MaxSize /\ z \in 0 .. MaxSize
  BY <1>1, MaxSizeAssumption
<1> HIDE DEF n, z
<1> DEFINE g1 == [g EXCEPT !.fptr = n]
           g2 == [g1 EXCEPT !.modified = TRUE]
           g3 == [g2 EXCEPT !.size = z]
<1>3. g1 \in File /\ g1.sclust = g.sclust /\ g1.clust = g.clust
  BY <1>1, <1>2 DEF File
<1> HIDE DEF g1
<1>4. g2 \in File /\ g2.sclust = g.sclust /\ g2.clust = g.clust
  BY <1>3 DEF File
<1> HIDE DEF g2
<1>5. g3 \in File /\ g3.sclust = g.sclust /\ g3.clust = g.clust
  BY <1>2, <1>4 DEF File
<1>6. [g EXCEPT !.fptr = @ + 1, !.modified = TRUE,
                !.size = IF p + 1 > @ THEN p + 1 ELSE @] = g3
  BY DEF g1, g2, n, z
<1> HIDE DEF g3
<1> QED
  BY <1>5, <1>6 DEF FileOK

LEMMA WriteChainedKeeps == ASSUME IInv, NEW ok \in BOOLEAN, write_chained(ok) PROVE IInv'
<1>1. WindowOK /\ CountsOK /\ FilesOK /\ CallOK /\ HistOK
  BY DEF IInv
<1> DEFINE f == fil[call.e]
           g == [f EXCEPT !.clust = call.ret, !.sclust = IF @ = 0 THEN call.ret ELSE @]
<1>2. /\ call.op = "write" /\ (~ok => faults < MaxFault)
      /\ faults' = IF ok THEN faults ELSE faults + 1
      /\ UNCHANGED <<now, disk, info, win, fs, cut, hurt>>
  BY DEF write_chained
<1>3. call.e \in Entry
  BY <1>1, <1>2 DEF CallOK, StageOK
<1>4. FileOK(f) /\ f.fptr < MaxSize
  BY <1>1, <1>2, <1>3 DEF FilesOK, CallOK, TiedOK
<1>5. WindowOK' /\ CountsOK'
  BY <1>1, <1>2, StillKeeps DEF CountsOK
<1>6. HistOK'
  BY <1>1, <1>2, FaultOK, Kept
<1>7. CASE call.ret = 0
  <2>1. fil' = [fil EXCEPT ![call.e] = [f EXCEPT !.modified = TRUE]] /\ call' = Idle
    BY <1>7 DEF write_chained, UpdateFil, Finish
  <2>2. FilesOK' /\ CallOK' /\ TableClean'
    BY <1>1, <1>3, <1>4, <2>1, CleanOK, PutFilOK, FinishOK
  <2> QED
    BY <1>5, <1>6, <2>2 DEF IInv
<1>8. CASE call.ret # 0 /\ Failed(call.ret)
  <2>1. Abort(f)
    BY <1>8 DEF write_chained
  <2>2. FilesOK' /\ CallOK' /\ TableClean'
    BY <1>1, <1>3, <1>4, <2>1, AbortOK
  <2> QED
    BY <1>5, <1>6, <2>2 DEF IInv
<1>9. CASE call.ret # 0 /\ ~Failed(call.ret)
  <2>1. call.ret \in Clst
    BY <1>9 DEF Failed
  <2>2. FileOK(g) /\ g.sclust \in Clst /\ g.clust = call.ret /\ g.fptr = f.fptr
    BY <1>4, <2>1, GotClusterOK
  <2>3. \/ Abort(g)
        \/ /\ call' = Idle
           /\ fil' = [fil EXCEPT ![call.e] =
                        [g EXCEPT !.fptr = @ + 1, !.modified = TRUE,
                                  !.size = IF f.fptr + 1 > @ THEN f.fptr + 1 ELSE @]]
    BY <1>9 DEF write_chained, UpdateFil, Finish
  <2>4. CASE Abort(g)
    <3>1. FilesOK' /\ CallOK' /\ TableClean'
      BY <1>1, <1>3, <2>2, <2>4, AbortOK
    <3> QED
      BY <1>5, <1>6, <3>1 DEF IInv
  <2>5. CASE ~Abort(g)
    <3> DEFINE w == [g EXCEPT !.fptr = @ + 1, !.modified = TRUE,
                              !.size = IF f.fptr + 1 > @ THEN f.fptr + 1 ELSE @]
    <3>1. call' = Idle /\ fil' = [fil EXCEPT ![call.e] = w]
      BY <2>3, <2>5
    <3>2. FileOK(w)
      <4> HIDE DEF g
      <4> QED
        BY <1>4, <2>1, <2>2, WrittenOK
    <3> HIDE DEF w
    <3>3. FilesOK' /\ CallOK' /\ TableClean'
      BY <1>1, <1>3, <3>1, <3>2, PutFilOK, FinishOK
    <3> QED
      BY <1>5, <1>6, <3>3 DEF IInv
  <2> QED
    BY <2>4, <2>5
<1> QED
  BY <1>7, <1>8, <1>9

----------------------------------------------------------------------------
(* f_lseek and f_truncate.                                                 *)

LEMMA PtrOK ==
  ASSUME NEW f \in File, NEW n \in 0 .. MaxSize
  PROVE  LET g == [f EXCEPT !.fptr = n] IN
         g \in File /\ g.fptr = n /\ g.clust = f.clust /\ g.sclust = f.sclust
  BY DEF File

LEMMA SoughtOK ==
  ASSUME NEW f \in File, NEW n \in 0 .. MaxSize,
         n > 0 => f.sclust \in Clst /\ f.clust \in Clst
  PROVE  FileOK(Sought(f, n))
<1> DEFINE z == IF n > f.size THEN n ELSE f.size
           m == f.modified \/ n > f.size
           c == IF n = 0 THEN 0 ELSE f.clust
<1>1. f.size \in 0 .. MaxSize /\ f.clust \in {0} \cup Clst /\ f.sclust \in {0} \cup Clst
  BY DEF File
<1>2. z \in 0 .. MaxSize /\ c \in {0} \cup Clst /\ (n > 0 => c \in Clst)
  BY <1>1
<1>3. m \in BOOLEAN
  <2>1. f.modified \in BOOLEAN
    BY DEF File
  <2> QED
    BY <2>1
<1> DEFINE f1 == [f EXCEPT !.fptr = n]
           f2 == [f1 EXCEPT !.size = z]
           f3 == [f2 EXCEPT !.modified = m]
           f4 == [f3 EXCEPT !.clust = c]
<1>10. Sought(f, n) = f4
  BY Zenon DEF Sought
<1> HIDE DEF z, m, c
<1>4. f1 \in File /\ f1.fptr = n /\ f1.sclust = f.sclust
  BY DEF File
<1> HIDE DEF f1
<1>5. f2 \in File /\ f2.fptr = n /\ f2.sclust = f.sclust
  BY <1>2, <1>4 DEF File
<1> HIDE DEF f2
<1>6. f3 \in File /\ f3.fptr = n /\ f3.sclust = f.sclust
  BY <1>3, <1>5 DEF File
<1> HIDE DEF f3
<1>7. f4 \in File /\ f4.fptr = n /\ f4.sclust = f.sclust /\ f4.clust = c
  BY <1>2, <1>6 DEF File
<1> HIDE DEF f4
<1> QED
  BY <1>2, <1>7, <1>10 DEF FileOK

LEMMA SeekOK ==
  ASSUME FilesOK, CountsOK, NEW k \in CallRec, StageOK(k), k.op = "lseek", k.e \in Entry,
         NEW f, FileOK(f), f.fptr + k.rem <= MaxSize,
         k.rem > 0 => f.sclust \in Clst /\ f.clust \in Clst,
         Seek(k, f)
  PROVE  /\ FilesOK' /\ CallOK' /\ TableClean'
         /\ k.rem > 1 => /\ call'.op = "lseek" /\ call'.e = k.e
                         /\ call'.pc = IF f.clust = 0 THEN "scan" ELSE "follow"
<1>1. f \in File /\ f.fptr \in 0 .. MaxSize /\ k.rem \in Nat /\ MaxSize \in Nat
  BY MaxSizeAssumption DEF FileOK, File, CallRec
<1>2. CASE k.rem > 1
  <2> DEFINE g == [f EXCEPT !.fptr = f.fptr + 1]
             b == [k EXCEPT !.rem = k.rem - 1]
             h == Creating(b, f.clust)
  <2>1. fil' = [fil EXCEPT ![k.e] = g] /\ call' = h
    BY <1>2 DEF Seek
  <2>2. f.fptr + 1 \in 0 .. MaxSize
    BY <1>1, <1>2
  <2>3. g \in File /\ g.fptr = f.fptr + 1 /\ g.clust = f.clust /\ g.sclust = f.sclust
    BY <1>1, <2>2, PtrOK
  <2> HIDE DEF g
  <2>4. FileOK(g)
    BY <1>1, <1>2, <2>3 DEF FileOK
  <2>5. FilesOK' /\ fil'[k.e] = g
    BY <2>1, <2>4, PutFilOK
  <2>6. k.rem - 1 \in Nat
    BY <1>1, <1>2
  <2>7. b \in CallRec
    BY <2>6 DEF CallRec
  <2>8. b.op = k.op /\ b.e = k.e /\ b.rem = k.rem - 1 /\ b.cl = k.cl /\ b.pc = k.pc
        /\ b.clst = k.clst /\ b.pclst = k.pclst /\ b.ncl = k.ncl
    BY DEF CallRec
  <2> HIDE DEF b
  <2>9. StageOK(b)
    <3>1. b.pc = "count" => b.rem <= Cardinality(Before(b.ncl))
      <4>1. b.pc = "count" => k.rem <= Cardinality(Before(k.ncl))
        BY <2>8 DEF StageOK
      <4>2. Cardinality(Before(k.ncl)) \in Nat
        BY CardBefore
      <4> QED
        BY <1>1, <2>8, <4>1, <4>2
    <3> QED
      BY <2>8, <3>1 DEF StageOK
  <2>10. f.clust \in {0} \cup Clst
    BY <1>1 DEF File
  <2>11. /\ h \in CallRec /\ StageOK(h) /\ SameCall(b, h)
         /\ h.pc = IF f.clust = 0 THEN "scan" ELSE "follow"
    BY <2>7, <2>9, <2>10, CreatingOK
  <2> HIDE DEF h
  <2>12. TiedOK(h, fil')
    BY <1>1, <1>2, <2>3, <2>5, <2>8, <2>11 DEF TiedOK, SameCall
  <2>13. CallOK' /\ TableClean'
    BY <2>1, <2>11, <2>12 DEF CallOK, TableClean
  <2>14. h.op = "lseek" /\ h.e = k.e
    BY <2>8, <2>11 DEF SameCall
  <2> QED
    BY <2>1, <2>5, <2>11, <2>13, <2>14
<1>3. CASE ~(k.rem > 1)
  <2> DEFINE n == f.fptr + k.rem
  <2>1. fil' = [fil EXCEPT ![k.e] = Sought(f, n)] /\ call' = Idle
    BY <1>3 DEF Seek, Finish
  <2>2. n \in 0 .. MaxSize
    BY <1>1
  <2>3. n > 0 => f.sclust \in Clst /\ f.clust \in Clst
    BY <1>1 DEF FileOK
  <2> HIDE DEF n
  <2>4. FileOK(Sought(f, n))
    BY <1>1, <2>2, <2>3, SoughtOK
  <2> QED
    BY <1>3, <2>1, <2>4, PutFilOK, FinishOK
<1> QED
  BY <1>2, <1>3

LEMMA LseekKeeps == ASSUME IInv, NEW e \in Entry, NEW ofs \in 0 .. MaxSize, f_lseek(e, ofs)
                    PROVE  IInv'
<1>1. WindowOK /\ CountsOK /\ FilesOK /\ CallOK /\ HistOK
  BY DEF IInv
<1> DEFINE f == fil[e]
           b == Begin("lseek", e)
           k == [b EXCEPT !.rem = ofs]
<1>2. UNCHANGED <<now, disk, info, win, fs, faults, cut, hurt>>
  BY DEF f_lseek
<1>3. WindowOK' /\ CountsOK' /\ HistOK'
  BY <1>1, <1>2, StillKeeps, Kept DEF CountsOK
<1>4. /\ FileOK(f) /\ f \in File /\ f.fptr \in 0 .. MaxSize /\ ofs \in Nat /\ MaxSize \in Nat
      /\ f.sclust \in {0} \cup Clst
  BY <1>1, MaxSizeAssumption DEF FilesOK, FileOK, File
<1>5. b = [op |-> "lseek", pc |-> "none", e |-> e, clst |-> 0, pclst |-> 0,
           ncl |-> 0, scl |-> 0, ret |-> 0, cl |-> 0, rem |-> 0]
  BY BeginIs
<1> DEFINE kk(n) == [op |-> "lseek", pc |-> "none", e |-> e, clst |-> 0, pclst |-> 0,
                     ncl |-> 0, scl |-> 0, ret |-> 0, cl |-> 0, rem |-> n]
<1>6. k = kk(ofs)
  BY <1>5
<1>7. \A n \in Nat : kk(n) \in CallRec /\ StageOK(kk(n)) /\ kk(n).op = "lseek"
                     /\ kk(n).e = e /\ kk(n).rem = n
  <2> TAKE n \in Nat
  <2>1. kk(n) \in CallRec
    BY NFatEntAssumption DEF CallRec, Op, Pc
  <2> QED
    BY <2>1 DEF StageOK
<1> HIDE DEF b, k
<1>8. \A n : [k EXCEPT !.rem = n] = kk(n)
  BY <1>6
<1> HIDE DEF kk
<1>9. CASE ofs = 0
  <2> DEFINE g == [f EXCEPT !.fptr = 0]
  <2>1. Seek(k, g)
    BY <1>9 DEF f_lseek, b, k
  <2>2. g \in File /\ g.fptr = 0
    BY <1>4, PtrOK
  <2> HIDE DEF g
  <2>3. FileOK(g)
    BY <2>2 DEF FileOK
  <2>4. FilesOK' /\ CallOK' /\ TableClean'
    BY <1>1, <1>4, <1>6, <1>7, <1>9, <2>1, <2>2, <2>3, SeekOK
  <2> QED
    BY <1>3, <2>4 DEF IInv
<1>10. CASE ofs # 0 /\ FromCurrent(f, ofs)
  <2> DEFINE g == [f EXCEPT !.fptr = f.fptr - 1]
             n == ofs - (f.fptr - 1)
  <2>1. Seek(kk(n), g)
    <3>1. Seek([k EXCEPT !.rem = n], g)
      BY <1>10 DEF f_lseek, b, k
    <3> QED
      BY <3>1, <1>8
  <2>2. f.fptr > 0 /\ ofs >= f.fptr
    BY <1>10 DEF FromCurrent
  <2>3. f.fptr - 1 \in 0 .. MaxSize /\ n \in Nat /\ f.fptr - 1 + n <= MaxSize
    BY <1>4, <2>2
  <2>4. g \in File /\ g.fptr = f.fptr - 1 /\ g.clust = f.clust /\ g.sclust = f.sclust
    BY <1>4, <2>3, PtrOK
  <2>5. f.sclust \in Clst /\ f.clust \in Clst
    BY <1>4, <2>2 DEF FileOK
  <2> HIDE DEF g, n
  <2>6. FileOK(g)
    BY <2>4, <2>5 DEF FileOK
  <2>7. FilesOK' /\ CallOK' /\ TableClean'
    BY <1>1, <1>7, <2>1, <2>3, <2>4, <2>5, <2>6, SeekOK
  <2> QED
    BY <1>3, <2>7 DEF IInv
<1>11. CASE ofs # 0 /\ ~FromCurrent(f, ofs) /\ f.sclust = 0
  <2> DEFINE g == [f EXCEPT !.fptr = 0, !.clust = 0]
             h == Creating(k, 0)
  <2>1. fil' = [fil EXCEPT ![e].fptr = 0, ![e].clust = 0] /\ call' = h
    BY <1>11 DEF f_lseek, b, k
  <2>2. fil \in [Entry -> File]
    BY <1>1 DEF FilesOK
  <2>3. fil' = [fil EXCEPT ![e] = g]
    BY <2>1, <2>2
  <2>4. 0 \in 0 .. MaxSize /\ 0 \in {0} \cup Clst
    BY MaxSizeAssumption
  <2>5. g \in File /\ g.fptr = 0
    <3> HIDE DEF f
    <3> QED
      BY <1>4, <2>4 DEF File
  <2> HIDE DEF g
  <2>6. FileOK(g)
    BY <2>5 DEF FileOK
  <2>7. FilesOK' /\ fil'[e] = g
    BY <1>1, <2>3, <2>6, PutFilOK
  <2>8. h \in CallRec /\ StageOK(h) /\ SameCall(k, h) /\ h.pc \in {"scan", "follow"}
    BY <1>1, <1>4, <1>6, <1>7, CreatingOK
  <2>9. k.op = "lseek" /\ k.e = e /\ k.rem = ofs
    BY <1>4, <1>6, <1>7
  <2> HIDE DEF h
  <2>10. TiedOK(h, fil')
    BY <1>4, <1>11, <2>5, <2>7, <2>8, <2>9 DEF TiedOK, SameCall
  <2>11. CallOK' /\ TableClean'
    BY <2>1, <2>8, <2>10 DEF CallOK, TableClean
  <2> QED
    BY <1>3, <2>7, <2>11 DEF IInv
<1>12. CASE ofs # 0 /\ ~FromCurrent(f, ofs) /\ f.sclust # 0
  <2> DEFINE g == [f EXCEPT !.fptr = 0, !.clust = f.sclust]
  <2>1. Seek(k, g)
    BY <1>12 DEF f_lseek, b, k
  <2>2. f.sclust \in Clst /\ 0 \in 0 .. MaxSize
    BY <1>4, <1>12
  <2>3. g \in File /\ g.fptr = 0 /\ g.clust = f.sclust /\ g.sclust = f.sclust
    <3> HIDE DEF f
    <3> QED
      BY <1>4, <2>2 DEF File
  <2> HIDE DEF g
  <2>4. FileOK(g)
    BY <2>3 DEF FileOK
  <2>5. FilesOK' /\ CallOK' /\ TableClean'
    BY <1>1, <1>4, <1>6, <1>7, <2>1, <2>2, <2>3, <2>4, SeekOK
  <2> QED
    BY <1>3, <2>5 DEF IInv
<1> QED
  BY <1>9, <1>10, <1>11, <1>12

LEMMA LseekChainedKeeps == ASSUME IInv, lseek_chained PROVE IInv'
<1>1. WindowOK /\ CountsOK /\ FilesOK /\ CallOK /\ HistOK /\ call \in CallRec /\ StageOK(call)
  BY DEF IInv, CallOK
<1> DEFINE f == fil[call.e]
           g == [f EXCEPT !.clust = call.ret, !.sclust = IF @ = 0 THEN call.ret ELSE @]
<1>2. call.op = "lseek" /\ UNCHANGED <<now, disk, info, win, fs, faults, cut, hurt>>
  BY DEF lseek_chained
<1>3. call.e \in Entry
  BY <1>1, <1>2 DEF StageOK
<1>4. FileOK(f) /\ call.rem > 0 /\ f.fptr + call.rem <= MaxSize
  BY <1>1, <1>2, <1>3 DEF FilesOK, CallOK, TiedOK
<1>5. WindowOK' /\ CountsOK' /\ HistOK'
  BY <1>1, <1>2, StillKeeps, Kept DEF CountsOK
<1>6. f \in File /\ f.fptr \in 0 .. MaxSize
  BY <1>4 DEF FileOK, File
<1>7. CASE call.ret = 0
  <2> DEFINE w == IF f.sclust = 0 THEN g ELSE f
             z == Sought(w, f.fptr)
  <2>1. fil' = [fil EXCEPT ![call.e] = z] /\ call' = Idle
    BY <1>7 DEF lseek_chained, UpdateFil, Finish
  <2>2. ASSUME f.sclust = 0 PROVE FileOK(z)
    <3> DEFINE g0 == [f EXCEPT !.clust = 0, !.sclust = 0]
    <3>1. g = g0
      BY <1>7, <2>2
    <3>2. g0 \in File
      BY <1>6 DEF File
    <3>3. f.fptr = 0
      BY <1>4, <1>6, <2>2, ClstFacts DEF FileOK
    <3>4. w = g0
      BY <2>2, <3>1
    <3> HIDE DEF g0, w, f
    <3>5. FileOK(Sought(g0, f.fptr))
      BY <1>6, <3>2, <3>3, SoughtOK
    <3> QED
      BY <3>4, <3>5
  <2>3. ASSUME f.sclust # 0 PROVE FileOK(z)
    <3>1. w = f
      BY <2>3
    <3>2. f.fptr > 0 => f.sclust \in Clst /\ f.clust \in Clst
      BY <1>4 DEF FileOK
    <3> HIDE DEF w, f
    <3>3. FileOK(Sought(f, f.fptr))
      BY <1>6, <3>2, SoughtOK
    <3> QED
      BY <3>1, <3>3
  <2> HIDE DEF z
  <2>4. FileOK(z)
    BY <2>2, <2>3
  <2>5. FilesOK' /\ CallOK' /\ TableClean'
    BY <1>1, <1>3, <2>1, <2>4, PutFilOK, FinishOK
  <2> QED
    BY <1>5, <2>5 DEF IInv
<1>8. CASE call.ret # 0 /\ Failed(call.ret)
  <2>1. Abort(f)
    BY <1>8 DEF lseek_chained
  <2>2. FilesOK' /\ CallOK' /\ TableClean'
    BY <1>1, <1>3, <1>4, <2>1, AbortOK
  <2> QED
    BY <1>5, <2>2 DEF IInv
<1>9. CASE call.ret # 0 /\ ~Failed(call.ret)
  <2>1. Seek(call, g)
    BY <1>9 DEF lseek_chained
  <2>2. call.ret \in Clst
    BY <1>9 DEF Failed
  <2>3. FileOK(g) /\ g.sclust \in Clst /\ g.clust \in Clst /\ g.fptr = f.fptr
    BY <1>4, <2>2, GotClusterOK
  <2> HIDE DEF g
  <2>4. FilesOK' /\ CallOK' /\ TableClean'
    BY <1>1, <1>2, <1>3, <1>4, <2>1, <2>3, SeekOK
  <2> QED
    BY <1>5, <2>4 DEF IInv
<1> QED
  BY <1>7, <1>8, <1>9

LEMMA TruncateKeeps == ASSUME IInv, NEW e \in Entry, f_truncate(e) PROVE IInv'
<1>1. WindowOK /\ CountsOK /\ FilesOK /\ CallOK /\ HistOK
  BY DEF IInv
<1> DEFINE f == fil[e]
           k == Begin("truncate", e)
<1>2. /\ call = Idle /\ UNCHANGED <<now, disk, info, win, fs, fil, faults, hurt>>
      /\ cut' = cut \/ cut' = cut \cup {e}
  BY DEF f_truncate
<1>3. WindowOK' /\ CountsOK' /\ FilesOK' /\ HistOK'
  BY <1>1, <1>2, StillKeeps DEF CountsOK, FilesOK, HistOK
<1>4. FileOK(f) /\ f.fptr \in 0 .. MaxSize
  BY <1>1 DEF FilesOK, FileOK, File
<1>5. k \in CallRec /\ StageOK(k) /\ k.op = "truncate" /\ k.e = e
  <2>1. "truncate" \in Op \ {"idle", "create", "getfree"}
    BY DEF Op
  <2> QED
    BY <2>1, BeginOK
<1>6. CASE call' = Idle
  BY <1>3, <1>6, FinishOK DEF IInv
<1>7. CASE f.fptr = 0 /\ call' = Removing(k, f.sclust, 0)
  <2> DEFINE h == Removing(k, f.sclust, 0)
  <2> HIDE DEF k
  <2>1. h \in CallRec /\ StageOK(h) /\ SameCall(k, h) /\ h.pc \in {"ret", "free", "cut"}
    BY <1>5, RemovingOK
  <2>2. call' = h
    BY <1>7
  <2> HIDE DEF h
  <2>3. TiedOK(h, fil')
    BY <1>5, <2>1 DEF TiedOK, SameCall
  <2>4. CallOK' /\ TableClean'
    BY <2>1, <2>2, <2>3 DEF CallOK, TableClean
  <2> QED
    BY <1>3, <2>4 DEF IInv
<1>8. CASE f.fptr # 0 /\ call' = [k EXCEPT !.pc = "next"]
  <2> DEFINE h == [k EXCEPT !.pc = "next"]
  <2>1. h = [op |-> "truncate", pc |-> "next", e |-> e, clst |-> 0, pclst |-> 0,
             ncl |-> 0, scl |-> 0, ret |-> 0, cl |-> 0, rem |-> 0]
    <3>1. k = [op |-> "truncate", pc |-> "none", e |-> e, clst |-> 0, pclst |-> 0,
               ncl |-> 0, scl |-> 0, ret |-> 0, cl |-> 0, rem |-> 0]
      BY BeginIs
    <3> HIDE DEF k
    <3> QED
      BY <3>1
  <2>2. call' = h
    BY <1>8
  <2> HIDE DEF h
  <2>3. h \in CallRec
    BY <2>1, NFatEntAssumption DEF CallRec, Op, Pc
  <2>4. StageOK(h)
    BY <2>1 DEF StageOK
  <2>5. f.clust \in Clst
    BY <1>4, <1>8 DEF FileOK
  <2>6. TiedOK(h, fil')
    BY <1>2, <2>1, <2>5 DEF TiedOK
  <2>7. CallOK' /\ TableClean'
    BY <2>1, <2>2, <2>3, <2>4, <2>6 DEF CallOK, TableClean
  <2> QED
    BY <1>3, <2>7 DEF IInv
<1> QED
  BY <1>6, <1>7, <1>8 DEF f_truncate, Finish

LEMMA TruncateNextKeeps == ASSUME IInv, truncate_next PROVE IInv'
<1>1. /\ WindowOK /\ CountsOK /\ FilesOK /\ CallOK /\ HistOK
      /\ call \in CallRec /\ StageOK(call)
  BY DEF IInv, CallOK
<1> DEFINE c == fil[call.e].clust
           h == Removing(call, now.fat[c], c)
<1>2. /\ call.pc = "next" /\ ReadAt(FatSect(c))
      /\ Return(0) \/ call' = h
      /\ UNCHANGED <<now, info, fs, fil, faults, cut, hurt>>
  BY DEF truncate_next
<1>3. c \in Clst
  BY <1>1, <1>2 DEF CallOK, TiedOK
<1>4. WindowOK'
  BY <1>1, <1>2, <1>3, ReadKeeps, SectOfClst
<1>5. CountsOK' /\ FilesOK' /\ HistOK'
  BY <1>1, <1>2, Kept DEF CountsOK, FilesOK
<1>6. CASE Return(0)
  <2>1. CallOK' /\ TableClean'
    BY <1>1, <1>2, <1>6, ReturnOK, NFatEntAssumption
  <2> QED
    BY <1>4, <1>5, <2>1 DEF IInv
<1>7. CASE call' = h
  <2> HIDE DEF c
  <2>1. h \in CallRec /\ StageOK(h) /\ SameCall(call, h) /\ h.pc \in {"ret", "free", "cut"}
    BY <1>1, <1>3, RemovingOK
  <2> HIDE DEF h
  <2>2. CallOK' /\ TableClean'
    BY <1>1, <1>2, <1>7, <2>1, StepOK
  <2> QED
    BY <1>4, <1>5, <2>2 DEF IInv
<1> QED
  BY <1>2, <1>6, <1>7

LEMMA ShortenedOK == ASSUME NEW f, FileOK(f) PROVE FileOK(Shortened(f))
<1> DEFINE s == IF f.fptr = 0 THEN 0 ELSE f.sclust
           f1 == [f EXCEPT !.sclust = s]
           f2 == [f1 EXCEPT !.size = f.fptr]
           f3 == [f2 EXCEPT !.modified = TRUE]
<1>1. /\ f \in File /\ f.fptr \in 0 .. MaxSize /\ f.sclust \in {0} \cup Clst
      /\ (f.fptr > 0 => f.sclust \in Clst /\ f.clust \in Clst)
  BY DEF FileOK, File
<1>2. s \in {0} \cup Clst /\ (f.fptr > 0 => s \in Clst)
  BY <1>1
<1>3. Shortened(f) = f3
  BY Zenon DEF Shortened
<1> HIDE DEF s
<1>4. f1 \in File /\ f1.fptr = f.fptr /\ f1.sclust = s /\ f1.clust = f.clust
  BY <1>1, <1>2 DEF File
<1> HIDE DEF f1
<1>5. f2 \in File /\ f2.fptr = f.fptr /\ f2.sclust = s /\ f2.clust = f.clust
  BY <1>1, <1>4 DEF File
<1> HIDE DEF f2
<1>6. f3 \in File /\ f3.fptr = f.fptr /\ f3.sclust = s /\ f3.clust = f.clust
  BY <1>5 DEF File
<1> HIDE DEF f3
<1> QED
  BY <1>1, <1>2, <1>3, <1>6 DEF FileOK

LEMMA TruncateRemovedKeeps == ASSUME IInv, truncate_removed PROVE IInv'
<1>1. WindowOK /\ CountsOK /\ FilesOK /\ CallOK /\ HistOK
  BY DEF IInv
<1> DEFINE g == Shortened(fil[call.e])
<1>2. /\ call.op = "truncate"
      /\ UNCHANGED <<now, disk, info, win, fs, faults, cut, hurt>>
      /\ \/ fil' = [fil EXCEPT ![call.e] = g] /\ call' = Idle
         \/ Abort(g)
  BY DEF truncate_removed, UpdateFil, Finish
<1>3. call.e \in Entry
  BY <1>1, <1>2 DEF CallOK, StageOK
<1>4. FileOK(g)
  BY <1>1, <1>3, ShortenedOK DEF FilesOK
<1>5. WindowOK' /\ CountsOK' /\ HistOK'
  BY <1>1, <1>2, StillKeeps, Kept DEF CountsOK
<1> HIDE DEF g
<1>6. FilesOK' /\ CallOK' /\ TableClean'
  <2>1. CASE Abort(g)
    BY <1>1, <1>3, <1>4, <2>1, AbortOK
  <2>2. CASE ~Abort(g)
    BY <1>1, <1>2, <1>3, <1>4, <2>2, PutFilOK, FinishOK
  <2> QED
    BY <2>1, <2>2
<1> QED
  BY <1>5, <1>6 DEF IInv

----------------------------------------------------------------------------
(* f_unlink and f_mkdir.                                                   *)

LEMMA UnlinkStep ==
  ASSUME WindowOK, NEW k \in CallRec, StageOK(k), k.op = "unlink", Unlink(k), UNCHANGED fil
  PROVE  WindowOK' /\ CallOK' /\ TableClean'
<1> DEFINE c == now.dir[k.e].clst
<1>1. k.e \in Entry
  BY DEF StageOK
<1>2. WriteAt(DirSect) /\ PutDir(k.e, NoEnt)
  BY DEF Unlink
<1>3. NoEnt \in Ent
  BY MaxSizeAssumption DEF NoEnt, Ent
<1>4. WindowOK'
  BY <1>1, <1>2, <1>3, WriteDirKeeps
<1>5. CASE c = 0
  <2> DEFINE h == [k EXCEPT !.pc = "sync"]
  <2>1. call' = h
    BY <1>5 DEF Unlink
  <2>2. h \in CallRec
    BY DEF CallRec, Pc
  <2>3. h.pc = "sync" /\ h.op = k.op /\ h.e = k.e /\ h.cl = k.cl
    BY DEF CallRec
  <2> HIDE DEF h
  <2>4. StageOK(h) /\ TiedOK(h, fil')
    BY <2>3 DEF StageOK, TiedOK
  <2> QED
    BY <1>4, <2>1, <2>2, <2>3, <2>4 DEF CallOK, TableClean
<1>6. CASE c # 0
  <2> DEFINE h == Removing(k, c, 0)
  <2>1. call' = h
    BY <1>6 DEF Unlink
  <2>2. h \in CallRec /\ StageOK(h) /\ SameCall(k, h) /\ h.pc \in {"ret", "free", "cut"}
    BY RemovingOK
  <2> HIDE DEF h
  <2>3. TiedOK(h, fil')
    BY <2>2 DEF TiedOK, SameCall
  <2> QED
    BY <1>4, <2>1, <2>2, <2>3 DEF CallOK, TableClean
<1> QED
  BY <1>5, <1>6

LEMMA UnlinkKeeps == ASSUME IInv, NEW e \in Entry, f_unlink(e) PROVE IInv'
<1>1. WindowOK /\ CountsOK /\ FilesOK /\ CallOK /\ HistOK
  BY DEF IInv
<1> DEFINE b == Begin("unlink", e)
           h == [b EXCEPT !.pc = "look"]
<1>2. call = Idle /\ UNCHANGED <<info, fs, fil, faults, cut, hurt>>
  BY DEF f_unlink
<1>3. CountsOK' /\ FilesOK' /\ HistOK'
  BY <1>1, <1>2, Kept DEF CountsOK, FilesOK
<1>4. CASE Unlink(b)
  <2>1. b \in CallRec /\ StageOK(b) /\ b.op = "unlink"
    <3>1. "unlink" \in Op \ {"idle", "create", "getfree"}
      BY DEF Op
    <3> QED
      BY <3>1, BeginOK
  <2> HIDE DEF b
  <2>2. WindowOK' /\ CallOK' /\ TableClean'
    BY <1>1, <1>2, <1>4, <2>1, UnlinkStep
  <2> QED
    BY <1>3, <2>2 DEF IInv
<1>5. CASE ReadAt(DirSect) /\ UNCHANGED now /\ call' \in {Idle, h}
  <2>1. WindowOK'
    BY <1>1, <1>5, ReadKeeps, DirSectOK
  <2>2. CASE call' = Idle
    BY <1>3, <2>1, <2>2, FinishOK DEF IInv
  <2>3. CASE call' = h
    <3>1. b = [op |-> "unlink", pc |-> "none", e |-> e, clst |-> 0, pclst |-> 0,
               ncl |-> 0, scl |-> 0, ret |-> 0, cl |-> 0, rem |-> 0]
      BY BeginIs
    <3> HIDE DEF b
    <3>2. h = [op |-> "unlink", pc |-> "look", e |-> e, clst |-> 0, pclst |-> 0,
               ncl |-> 0, scl |-> 0, ret |-> 0, cl |-> 0, rem |-> 0]
      BY <3>1
    <3> HIDE DEF h
    <3>3. h \in CallRec
      BY <3>2, NFatEntAssumption DEF CallRec, Op, Pc
    <3>4. StageOK(h) /\ TiedOK(h, fil')
      BY <3>2 DEF StageOK, TiedOK
    <3>5. CallOK' /\ TableClean'
      BY <2>3, <3>2, <3>3, <3>4 DEF CallOK, TableClean
    <3> QED
      BY <1>3, <2>1, <3>5 DEF IInv
  <2> QED
    BY <1>5, <2>2, <2>3
<1>6. Unlink(b) \/ (ReadAt(DirSect) /\ UNCHANGED now /\ call' \in {Idle, h})
  BY DEF f_unlink
<1> QED
  BY <1>4, <1>5, <1>6

LEMMA UnlinkLookKeeps == ASSUME IInv, unlink_look PROVE IInv'
<1>1. WindowOK /\ CountsOK /\ FilesOK /\ CallOK /\ HistOK
  BY DEF IInv
<1>2. /\ call.pc = "look" /\ ReadAt(DataSect) /\ Goto("remove")
      /\ UNCHANGED <<now, info, fs, fil, faults, cut, hurt>>
  BY DEF unlink_look
<1>3. WindowOK'
  BY <1>1, <1>2, ReadKeeps, DirSectOK
<1>4. call.op = "unlink"
  BY <1>1, <1>2 DEF CallOK, StageOK
<1>5. CallOK' /\ TableClean'
  BY <1>1, <1>2, <1>4, GotoOK
<1>6. CountsOK' /\ FilesOK' /\ HistOK'
  BY <1>1, <1>2, Kept DEF CountsOK, FilesOK
<1> QED
  BY <1>3, <1>5, <1>6 DEF IInv

LEMMA UnlinkRemoveKeeps == ASSUME IInv, unlink_remove PROVE IInv'
<1>1. /\ WindowOK /\ CountsOK /\ FilesOK /\ CallOK /\ HistOK
      /\ call \in CallRec /\ StageOK(call)
  BY DEF IInv, CallOK
<1>2. call.pc = "remove" /\ Unlink(call) /\ UNCHANGED <<info, fs, fil, faults, cut, hurt>>
  BY DEF unlink_remove
<1>3. call.op = "unlink"
  BY <1>1, <1>2 DEF StageOK
<1>4. WindowOK' /\ CallOK' /\ TableClean'
  BY <1>1, <1>2, <1>3, UnlinkStep
<1>5. CountsOK' /\ FilesOK' /\ HistOK'
  BY <1>1, <1>2, Kept DEF CountsOK, FilesOK
<1> QED
  BY <1>4, <1>5 DEF IInv

LEMMA UnlinkRemovedKeeps == ASSUME IInv, unlink_removed PROVE IInv'
<1>1. WindowOK /\ CountsOK /\ FilesOK /\ CallOK /\ HistOK
  BY DEF IInv
<1>2. /\ Goto("sync") \/ Finish("FR_DISK_ERR")
      /\ UNCHANGED <<now, disk, info, win, fs, fil, faults, cut, hurt>>
  BY DEF unlink_removed
<1>3. WindowOK' /\ CountsOK' /\ FilesOK' /\ HistOK'
  BY <1>1, <1>2, StillKeeps, Kept DEF CountsOK, FilesOK
<1>4. CASE Goto("sync")
  BY <1>1, <1>2, <1>3, <1>4, GotoOK DEF IInv
<1>5. CASE Finish("FR_DISK_ERR")
  BY <1>3, <1>5, FinishOK DEF IInv, Finish
<1> QED
  BY <1>2, <1>4, <1>5

LEMMA MkdirKeeps == ASSUME IInv, NEW e \in Entry, f_mkdir(e) PROVE IInv'
<1>1. WindowOK /\ CountsOK /\ FilesOK /\ CallOK /\ HistOK
  BY DEF IInv
<1> DEFINE k == Begin("mkdir", e)
           h == Creating(k, 0)
<1>2. /\ ReadAt(DirSect) /\ call' \in {h, Idle}
      /\ UNCHANGED <<now, info, fs, fil, faults, cut, hurt>>
  BY DEF f_mkdir
<1>3. WindowOK'
  BY <1>1, <1>2, ReadKeeps, DirSectOK
<1>4. CountsOK' /\ FilesOK' /\ HistOK'
  BY <1>1, <1>2, Kept DEF CountsOK, FilesOK
<1>5. CASE call' = Idle
  BY <1>3, <1>4, <1>5, FinishOK DEF IInv
<1>6. CASE call' = h
  <2>1. k \in CallRec /\ StageOK(k) /\ k.op = "mkdir" /\ k.e = e
    <3>1. "mkdir" \in Op \ {"idle", "create", "getfree"}
      BY DEF Op
    <3> QED
      BY <3>1, BeginOK
  <2> HIDE DEF k
  <2>2. h \in CallRec /\ StageOK(h) /\ SameCall(k, h) /\ h.pc \in {"scan", "follow"}
    BY <1>1, <2>1, CreatingOK
  <2> HIDE DEF h
  <2>3. TiedOK(h, fil')
    BY <2>1, <2>2 DEF TiedOK, SameCall
  <2>4. CallOK' /\ TableClean'
    BY <1>6, <2>2, <2>3 DEF CallOK, TableClean
  <2> QED
    BY <1>3, <1>4, <2>4 DEF IInv
<1> QED
  BY <1>2, <1>5, <1>6

LEMMA MkdirChainedKeeps == ASSUME IInv, mkdir_chained PROVE IInv'
<1>1. /\ WindowOK /\ CountsOK /\ FilesOK /\ CallOK /\ HistOK
      /\ call \in CallRec /\ StageOK(call)
  BY DEF IInv, CallOK
<1> DEFINE h == [call EXCEPT !.pc = "flush", !.ret = 0, !.cl = call.ret]
<1>2. /\ call.op = "mkdir" /\ UNCHANGED <<now, disk, info, win, fs, fil, faults, cut, hurt>>
      /\ call' = Idle \/ (call.ret \in Clst /\ call' = h)
  BY DEF mkdir_chained, Finish, Failed
<1>3. WindowOK' /\ CountsOK' /\ FilesOK' /\ HistOK'
  BY <1>1, <1>2, StillKeeps, Kept DEF CountsOK, FilesOK
<1>4. CASE call' = Idle
  BY <1>3, <1>4, FinishOK DEF IInv
<1>5. CASE call.ret \in Clst /\ call' = h
  <2> DEFINE h1 == [call EXCEPT !.pc = "flush"]
             h2 == [h1 EXCEPT !.ret = 0]
             h3 == [h2 EXCEPT !.cl = call.ret]
  <2>1. h = h3
    BY Zenon
  <2>2. /\ h1 \in CallRec /\ h1.pc = "flush" /\ h1.op = call.op /\ h1.e = call.e
        /\ h1.rem = call.rem
    BY <1>1 DEF CallRec, Pc
  <2> HIDE DEF h1
  <2>3. /\ h2 \in CallRec /\ h2.pc = "flush" /\ h2.op = call.op /\ h2.e = call.e
        /\ h2.rem = call.rem
    BY <2>2, NFatEntAssumption DEF CallRec
  <2> HIDE DEF h2
  <2>4. /\ h3 \in CallRec /\ h3.pc = "flush" /\ h3.op = call.op /\ h3.e = call.e
        /\ h3.rem = call.rem
    BY <2>3, <1>5 DEF CallRec
  <2> HIDE DEF h3, h
  <2>5. StageOK(h3) /\ SameCall(call, h3)
    BY <1>1, <1>2, <2>4 DEF StageOK, SameCall
  <2>6. CallOK' /\ TableClean'
    BY <1>1, <1>2, <1>5, <2>1, <2>4, <2>5, StepOK
  <2> QED
    BY <1>3, <2>6 DEF IInv
<1> QED
  BY <1>2, <1>4, <1>5

LEMMA MkdirFlushKeeps == ASSUME IInv, mkdir_flush PROVE IInv'
<1>1. /\ WindowOK /\ CountsOK /\ FilesOK /\ CallOK /\ HistOK
      /\ call \in CallRec /\ StageOK(call)
  BY DEF IInv, CallOK
<1> DEFINE h == [call EXCEPT !.pc = "table"]
<1>2. /\ call.pc = "flush" /\ disk' = Synced /\ win' = [win EXCEPT !.dirty = FALSE]
      /\ call' = h /\ UNCHANGED <<now, info, fs, fil, faults, cut, hurt>>
  BY DEF mkdir_flush, Goto
<1>3. WinOK' /\ ~win'.dirty
  BY <1>1, <1>2 DEF WindowOK, WinOK
<1>4. WindowOK'
  BY <1>1, <1>2, <1>3, SyncKeeps
<1>5. h \in CallRec
  BY <1>1 DEF CallRec, Pc
<1>6. h.pc = "table" /\ h.op = call.op /\ h.e = call.e /\ h.rem = call.rem /\ h.cl = call.cl
  BY <1>1 DEF CallRec
<1> HIDE DEF h
<1>7. call.op = "mkdir"
  BY <1>1, <1>2 DEF StageOK
<1>8. StageOK(h) /\ TiedOK(h, fil')
  BY <1>1, <1>6, <1>7 DEF StageOK, TiedOK
<1>9. CallOK' /\ TableClean'
  BY <1>2, <1>3, <1>5, <1>8 DEF CallOK, TableClean
<1>10. CountsOK' /\ FilesOK' /\ HistOK'
  BY <1>1, <1>2, Kept DEF CountsOK, FilesOK
<1> QED
  BY <1>4, <1>9, <1>10 DEF IInv

\* The window can be used for the table because nothing in it is unsaved.
LEMMA CleanMeansSame == ASSUME WindowOK, ~win.dirty
                        PROVE  now.dir = disk.dir /\ \A c \in Clst : now.fat[c] = disk.fat[c]
  BY DEF WindowOK, WindowCoherent

LEMMA ReusedOK ==
  ASSUME WindowOK, ~win.dirty, UNCHANGED <<now, disk>>, NEW d \in BOOLEAN,
         win' = [sect |-> DataSect, dirty |-> d]
  PROVE  WindowOK'
<1>1. now.dir = disk.dir /\ \A c \in Clst : now.fat[c] = disk.fat[c]
  BY CleanMeansSame
<1>2. WinOK'
  BY DirSectOK DEF WinOK
<1>3. VolumeOK'
  BY DEF WindowOK, VolumeOK
<1>4. WindowCoherent'
  BY <1>1 DEF WindowCoherent
<1> QED
  BY <1>2, <1>3, <1>4 DEF WindowOK

LEMMA MkdirTableKeeps == ASSUME IInv, mkdir_table PROVE IInv'
<1>1. WindowOK /\ CountsOK /\ FilesOK /\ CallOK /\ HistOK /\ TableClean
  BY DEF IInv
<1>2. /\ call.pc = "table" /\ win' = [sect |-> DataSect, dirty |-> FALSE] /\ Goto("register")
      /\ UNCHANGED <<now, disk, info, fs, fil, faults, cut, hurt>>
  BY DEF mkdir_table
<1>3. ~win.dirty
  BY <1>1, <1>2 DEF TableClean
<1>4. WindowOK'
  BY <1>1, <1>2, <1>3, ReusedOK
<1>5. call.op = "mkdir"
  BY <1>1, <1>2 DEF CallOK, StageOK
<1>6. CallOK' /\ TableClean'
  BY <1>1, <1>2, <1>5, GotoOK
<1>7. CountsOK' /\ FilesOK' /\ HistOK'
  BY <1>1, <1>2, Kept DEF CountsOK, FilesOK
<1> QED
  BY <1>4, <1>6, <1>7 DEF IInv

LEMMA MkdirRegisterKeeps == ASSUME IInv, mkdir_register PROVE IInv'
<1>1. /\ WindowOK /\ CountsOK /\ FilesOK /\ CallOK /\ HistOK
      /\ call \in CallRec /\ StageOK(call)
  BY DEF IInv, CallOK
<1> DEFINE x == [kind |-> "dir", clst |-> call.cl, size |-> 0]
<1>2. /\ call.pc = "register" /\ WriteAt(DirSect) /\ PutDir(call.e, x) /\ Goto("sync")
      /\ UNCHANGED <<info, fs, fil, faults, cut, hurt>>
  BY DEF mkdir_register
<1>3. call.e \in Entry
  BY <1>1, <1>2 DEF StageOK
<1>4. x \in Ent
  <2>1. call.cl \in {0} \cup Clst /\ 0 \in 0 .. MaxSize
    BY <1>1, MaxSizeAssumption DEF CallRec
  <2> QED
    BY <2>1 DEF Ent
<1>5. WindowOK'
  BY <1>1, <1>2, <1>3, <1>4, WriteDirKeeps
<1>6. CallOK' /\ TableClean'
  BY <1>1, <1>2, GotoOK
<1>7. CountsOK' /\ FilesOK' /\ HistOK'
  BY <1>1, <1>2, Kept DEF CountsOK, FilesOK
<1> QED
  BY <1>5, <1>6, <1>7 DEF IInv

LEMMA MkdirErrorKeeps == ASSUME IInv, mkdir_error PROVE IInv'
<1>1. /\ WindowOK /\ CountsOK /\ FilesOK /\ CallOK /\ HistOK /\ TableClean
      /\ call \in CallRec /\ StageOK(call)
  BY DEF IInv, CallOK
<1> DEFINE h == Removing(call, call.cl, 0)
<1>2. /\ faults < MaxFault /\ faults' = faults + 1 /\ call' = h
      /\ UNCHANGED <<now, info, fs, fil, cut, hurt>>
  BY DEF mkdir_error
<1>3. WindowOK'
  <2>1. CASE call.pc = "flush" /\ disk' \in {disk, Synced} /\ UNCHANGED win
    <3>1. CASE disk' = disk
      BY <1>1, <1>2, <2>1, <3>1, StillKeeps
    <3>2. CASE disk' = Synced
      <4>1. WinOK'
        BY <1>1, <2>1 DEF WindowOK, WinOK
      <4> QED
        BY <1>1, <1>2, <3>2, <4>1, SyncKeeps
    <3> QED
      BY <2>1, <3>1, <3>2
  <2>2. CASE call.pc = "table" /\ win' = [sect |-> DataSect, dirty |-> TRUE] /\ UNCHANGED disk
    BY <1>1, <1>2, <2>2, ReusedOK DEF TableClean
  <2>3. CASE MoveFails(DirSect)
    BY <1>1, <1>2, <2>3, FailKeeps
  <2> QED
    BY <2>1, <2>2, <2>3 DEF mkdir_error
<1>4. HistOK'
  BY <1>1, <1>2, FaultOK
<1>5. CountsOK' /\ FilesOK'
  BY <1>1, <1>2 DEF CountsOK, FilesOK
<1>6. h \in CallRec /\ StageOK(h) /\ SameCall(call, h) /\ h.pc \in {"ret", "free", "cut"}
  BY <1>1, RemovingOK
<1> HIDE DEF h
<1>7. CallOK' /\ TableClean'
  BY <1>1, <1>2, <1>6, StepOK
<1> QED
  BY <1>3, <1>4, <1>5, <1>7 DEF IInv

----------------------------------------------------------------------------
(* f_getfree.                                                              *)

LEMMA FirstSect == 0 \in FatSects /\ FatSect(0) = 0
<1>1. FatSect(0 * PerSect) = 0
  BY DivMul
<1>2. 0 * PerSect = 0 /\ 0 \in 0 .. NFatEnt - 1
  BY PerSectAssumption, NFatEntAssumption
<1> QED
  BY <1>1, <1>2 DEF FatSects

LEMMA GetfreeKeeps == ASSUME IInv, f_getfree PROVE IInv'
<1>1. WindowOK /\ CountsOK /\ FilesOK /\ CallOK /\ HistOK
  BY DEF IInv
<1> DEFINE b == Begin("getfree", NoEntry)
           h == [b EXCEPT !.pc = "count"]
<1>2. call' \in {Idle, h} /\ UNCHANGED <<now, disk, info, win, fs, fil, faults, cut, hurt>>
  BY DEF f_getfree, Finish
<1>3. WindowOK' /\ CountsOK' /\ FilesOK' /\ HistOK'
  BY <1>1, <1>2, StillKeeps, Kept DEF CountsOK, FilesOK
<1>4. CASE call' = Idle
  BY <1>3, <1>4, FinishOK DEF IInv
<1>5. CASE call' = h
  <2>1. b = [op |-> "getfree", pc |-> "none", e |-> NoEntry, clst |-> 0, pclst |-> 0,
             ncl |-> 0, scl |-> 0, ret |-> 0, cl |-> 0, rem |-> 0]
    BY BeginIs
  <2> HIDE DEF b
  <2>2. h = [op |-> "getfree", pc |-> "count", e |-> NoEntry, clst |-> 0, pclst |-> 0,
             ncl |-> 0, scl |-> 0, ret |-> 0, cl |-> 0, rem |-> 0]
    BY <2>1
  <2> HIDE DEF h
  <2>3. h \in CallRec
    BY <2>2, NFatEntAssumption DEF CallRec, Op, Pc
  <2>4. 0 <= Cardinality(Before(0))
    BY CardBefore
  <2>5. StageOK(h) /\ TiedOK(h, fil')
    BY <2>2, <2>4, FirstSect DEF StageOK, TiedOK
  <2>6. CallOK' /\ TableClean'
    BY <1>5, <2>2, <2>3, <2>5 DEF CallOK, TableClean
  <2> QED
    BY <1>3, <2>6 DEF IInv
<1> QED
  BY <1>2, <1>4, <1>5

\* What a sector adds to the count is among its own entries.
LEMMA ZerosBound ==
  ASSUME NEW s \in Nat
  PROVE  /\ Zeros({s}) \in Nat
         /\ Cardinality(Before(s)) + Zeros({s}) <= Cardinality(Before(s + 1))
<1> DEFINE Z == {c \in Clst : FatSect(c) \in {s} /\ now.fat[c] = 0}
           B == Before(s)
<1>1. B \subseteq Clst /\ Z \subseteq Clst /\ Before(s + 1) \subseteq Clst
  BY DEF Before
<1>2. \A c \in Clst : FatSect(c) \in Nat
  BY ClstFacts, DivMono
<1>3. B \cap Z = {}
  BY <1>2 DEF Before
<1>4. B \cup Z \subseteq Before(s + 1)
  BY <1>2 DEF Before
<1>5. Zeros({s}) = Cardinality(Z)
  BY DEF Zeros
<1> HIDE DEF Z, B
<1>6. /\ IsFiniteSet(B) /\ Cardinality(B) \in Nat /\ IsFiniteSet(Z) /\ Cardinality(Z) \in Nat
      /\ IsFiniteSet(Before(s + 1)) /\ Cardinality(Before(s + 1)) \in Nat
  BY <1>1, SubFinite
<1>7. Cardinality(B \cup Z) = Cardinality(B) + Cardinality(Z) - Cardinality(B \cap Z)
  BY <1>6, FS_Union
<1>8. Cardinality(B \cap Z) = 0
  BY <1>3, FS_EmptySet
<1>9. Cardinality(B \cup Z) <= Cardinality(Before(s + 1))
  BY <1>4, <1>6, FS_Subset
<1> QED
  BY <1>5, <1>6, <1>7, <1>8, <1>9 DEF B

LEMMA CountedOK ==
  ASSUME CountsOK, NEW n \in Hint, Counted(n), UNCHANGED info
  PROVE  CountsOK'
<1> DEFINE f1 == [fs EXCEPT !.free = n]
           f2 == [f1 EXCEPT !.fsi = TRUE]
<1>1. fs' = f2
  BY Zenon DEF Counted
<1>2. f1 \in [free : Hint, last : Hint, fsi : BOOLEAN]
  BY DEF CountsOK
<1> HIDE DEF f1
<1>3. f2 \in [free : Hint, last : Hint, fsi : BOOLEAN]
  BY <1>2
<1> QED
  BY <1>1, <1>3 DEF CountsOK

LEMMA GetfreeCountKeeps == ASSUME IInv, getfree_count PROVE IInv'
<1>1. /\ WindowOK /\ CountsOK /\ FilesOK /\ CallOK /\ HistOK
      /\ call \in CallRec /\ StageOK(call) /\ TiedOK(call, fil)
  BY DEF IInv, CallOK
<1> DEFINE n == call.rem + Zeros({call.ncl})
           h == [call EXCEPT !.ncl = call.ncl + 1, !.rem = n]
<1>2. /\ call.pc = "count" /\ ReadAt(call.ncl) /\ UNCHANGED <<now, info, fil, faults, cut, hurt>>
      /\ \/ Counted(n) /\ call' = Idle
         \/ call.ncl # FatSect(NFatEnt - 1) /\ call' = h /\ UNCHANGED fs
  BY DEF getfree_count, Finish
<1>3. call.ncl \in FatSects /\ call.rem <= Cardinality(Before(call.ncl))
  BY <1>1, <1>2 DEF StageOK
<1>4. call.ncl \in Nat /\ call.rem \in Nat /\ call.ncl \in Sect
  BY <1>1, <1>3 DEF CallRec, Sect
<1>5. /\ n \in Nat /\ n <= Cardinality(Before(call.ncl + 1))
      /\ Cardinality(Before(call.ncl + 1)) \in Nat
      /\ Cardinality(Before(call.ncl + 1)) <= NFatEnt - 2
  <2>1. Zeros({call.ncl}) \in Nat
        /\ Cardinality(Before(call.ncl)) + Zeros({call.ncl})
             <= Cardinality(Before(call.ncl + 1))
    BY <1>4, ZerosBound
  <2> QED
    BY <1>3, <1>4, <2>1, CardBefore
<1> HIDE DEF n
<1>6. WindowOK'
  BY <1>1, <1>2, <1>4, ReadKeeps
<1>7. FilesOK' /\ HistOK'
  BY <1>1, <1>2, Kept DEF FilesOK
<1>8. CASE Counted(n) /\ call' = Idle
  <2>1. n \in Hint
    BY <1>5, NFatEntAssumption DEF Hint
  <2>2. CountsOK'
    BY <1>1, <1>2, <1>8, <2>1, CountedOK
  <2> QED
    BY <1>6, <1>7, <1>8, <2>2, FinishOK DEF IInv
<1>9. CASE call.ncl # FatSect(NFatEnt - 1) /\ call' = h /\ UNCHANGED fs
  <2>1. call.ncl + 1 \in FatSects /\ call.ncl + 1 \in Nat
    BY <1>3, <1>4, <1>9, NextSect
  <2>2. h \in CallRec
    BY <1>1, <1>5, <2>1 DEF CallRec
  <2>3. h.pc = "count" /\ h.op = call.op /\ h.e = call.e /\ h.cl = call.cl
        /\ h.ncl = call.ncl + 1 /\ h.rem = n
    BY <1>1, <1>2 DEF CallRec
  <2>4. call.op = "getfree"
    BY <1>1, <1>2 DEF StageOK
  <2> HIDE DEF h
  <2>5. StageOK(h) /\ TiedOK(h, fil')
    BY <1>1, <1>5, <2>1, <2>3, <2>4 DEF StageOK, TiedOK
  <2>6. CallOK' /\ TableClean'
    BY <1>9, <2>2, <2>3, <2>5 DEF CallOK, TableClean
  <2>7. CountsOK'
    BY <1>1, <1>2, <1>9 DEF CountsOK
  <2> QED
    BY <1>6, <1>7, <2>6, <2>7 DEF IInv
<1> QED
  BY <1>2, <1>8, <1>9

LEMMA GetfreeErrorKeeps == ASSUME IInv, getfree_error PROVE IInv'
<1>1. /\ WindowOK /\ CountsOK /\ FilesOK /\ CallOK /\ HistOK
      /\ call \in CallRec /\ StageOK(call)
  BY DEF IInv, CallOK
<1>2. /\ call.pc = "count" /\ MoveFails(call.ncl) /\ Counted(call.rem) /\ call' = Idle
      /\ faults < MaxFault /\ faults' = faults + 1 /\ UNCHANGED <<now, info, fil, cut, hurt>>
  BY DEF getfree_error, Finish
<1>3. call.rem \in Hint
  <2>1. call.rem \in Nat /\ call.rem <= Cardinality(Before(call.ncl))
    BY <1>1, <1>2 DEF StageOK, CallRec
  <2> QED
    BY <2>1, CardBefore, NFatEntAssumption DEF Hint
<1>4. WindowOK'
  BY <1>1, <1>2, FailKeeps
<1>5. CountsOK'
  BY <1>1, <1>2, <1>3, CountedOK
<1>6. FilesOK' /\ HistOK'
  BY <1>1, <1>2, FaultOK DEF FilesOK
<1> QED
  BY <1>2, <1>4, <1>5, <1>6, FinishOK DEF IInv

----------------------------------------------------------------------------
(* Errors and power losses.                                                *)

LEMMA MoveErrorKeeps == ASSUME IInv, move_window_error PROVE IInv'
<1>1. /\ WindowOK /\ CountsOK /\ FilesOK /\ CallOK /\ HistOK
      /\ call \in CallRec /\ StageOK(call)
  BY DEF IInv, CallOK
<1>2. /\ faults < MaxFault /\ faults' = faults + 1 /\ MoveFails(Target)
      /\ Return(DiskErr) \/ call' = Idle
      /\ fs' = IF call.pc = "back" THEN [fs EXCEPT !.last = call.cl - 1] ELSE fs
      /\ UNCHANGED <<now, info, fil, cut, hurt>>
  BY DEF move_window_error, Finish
<1> DEFINE s == Target
<1>3. MoveFails(s)
  BY <1>2
<1> HIDE DEF s
<1>4. WindowOK'
  BY <1>1, <1>2, <1>3, FailKeeps
<1>5. CountsOK'
  BY <1>1, <1>2, LastOK DEF CountsOK
<1>6. FilesOK' /\ HistOK'
  BY <1>1, <1>2, FaultOK DEF FilesOK
<1>7. CASE Return(DiskErr)
  <2>1. DiskErr \in 0 .. NFatEnt + 1
    BY NFatEntAssumption DEF DiskErr
  <2>2. CallOK' /\ TableClean'
    BY <1>1, <1>2, <1>7, <2>1, ReturnOK
  <2> QED
    BY <1>4, <1>5, <1>6, <2>2 DEF IInv
<1>8. CASE call' = Idle
  BY <1>4, <1>5, <1>6, <1>8, FinishOK DEF IInv
<1> QED
  BY <1>2, <1>7, <1>8

LEMMA PowerLossKeeps == ASSUME IInv, PowerLoss PROVE IInv'
<1>1. WindowOK /\ CountsOK /\ FilesOK /\ CallOK /\ HistOK
  BY DEF IInv
<1>2. /\ faults < MaxFault /\ faults' = faults + 1
      /\ now' = disk /\ win' = [sect |-> NoSect, dirty |-> FALSE]
      /\ fs' = IF FAT32 THEN [free |-> info.free, last |-> info.last, fsi |-> FALSE]
               ELSE [free |-> Unknown, last |-> Unknown, fsi |-> FALSE]
      /\ fil' = [e \in Entry |-> ClosedFil] /\ cut' = {} /\ call' = Idle
      /\ UNCHANGED <<disk, info>>
  BY DEF PowerLoss, Finish
<1>3. WindowOK'
  <2>1. VolumeOK' /\ WindowCoherent'
    BY <1>1, <1>2 DEF WindowOK, VolumeOK, WindowCoherent
  <2>2. WinOK'
    BY <1>2 DEF WinOK, Sect
  <2> QED
    BY <2>1, <2>2 DEF WindowOK
<1>4. CountsOK'
  BY <1>1, <1>2, NFatEntAssumption DEF CountsOK, Hint, Unknown
<1>5. FilesOK'
  <2>1. ClosedFil \in File
    BY ClosedOK DEF FileOK
  <2> QED
    BY <1>2, <2>1, ClosedOK DEF FilesOK
<1>6. HistOK'
  <2>1. hurt' = (hurt \/ \E e \in Entry : Exposed(e))
    BY DEF PowerLoss
  <2>2. hurt' \in BOOLEAN
    BY <2>1
  <2>3. faults' \in 0 .. MaxFault /\ cut' \in SUBSET Entry
    BY <1>1, <1>2, MaxFaultAssumption DEF HistOK
  <2> QED
    BY <2>2, <2>3 DEF HistOK
<1> QED
  BY <1>2, <1>3, <1>4, <1>5, <1>6, FinishOK DEF IInv

----------------------------------------------------------------------------
(* The theorems.                                                           *)

LEMMA InitOK == Init => IInv
<1> SUFFICES ASSUME Init PROVE IInv
  OBVIOUS
<1>1. VolumeOK
  <2>1. now.fat \in [Clst -> Cell]
    BY DEF Init, Cell
  <2>2. NoEnt \in Ent
    BY MaxSizeAssumption DEF NoEnt, Ent
  <2>3. now \in Image
    BY <2>2 DEF Init, Image, Cell
  <2> QED
    BY <2>3 DEF Init, VolumeOK
<1>2. WinOK
  BY DEF Init, WinOK, Sect
<1>3. WindowCoherent
  BY DEF Init, WindowCoherent
<1>4. CountsOK
  BY NFatEntAssumption DEF Init, CountsOK, Hint, Unknown
<1>5. FilesOK
  <2>1. ClosedFil \in File
    BY ClosedOK DEF FileOK
  <2> QED
    BY <2>1, ClosedOK DEF Init, FilesOK
<1>6. CallOK /\ TableClean
  BY IdleOK DEF Init, CallOK, TableClean
<1>7. HistOK
  <2>1. hurt \in BOOLEAN
    BY Zenon DEF Init
  <2>2. faults \in 0 .. MaxFault /\ cut \in SUBSET Entry
    BY MaxFaultAssumption DEF Init
  <2> QED
    BY <2>1, <2>2 DEF HistOK
<1> QED
  BY <1>1, <1>2, <1>3, <1>4, <1>5, <1>6, <1>7 DEF IInv, WindowOK

LEMMA NextOK == ASSUME IInv, [Next]_vars PROVE IInv'
<1>1. CASE Start
  BY <1>1, DirErrorKeeps, OpenKeeps, DeniedKeeps, CreateKeeps, SyncKeepsInv, CloseKeeps,
     WriteKeeps, TruncateKeeps, LseekKeeps, UnlinkKeeps, MkdirKeeps, GetfreeKeeps DEF Start
<1>2. CASE Chain
  BY <1>2, FollowKeeps, ScanEndKeeps, ScanUsedKeeps, ScanTakeKeeps, LinkKeeps, CutKeeps,
     FreeKeeps, SyncFsKeeps, SyncErrorKeeps DEF Chain
<1>3. CASE FileStep
  BY <1>3, OpenRemovedKeeps, OpenBackKeeps, WriteChainedKeeps, LseekChainedKeeps,
     TruncateNextKeeps, TruncateRemovedKeeps DEF FileStep
<1>4. CASE DirStep
  BY <1>4, UnlinkLookKeeps, UnlinkRemoveKeeps, UnlinkRemovedKeeps, MkdirChainedKeeps,
     MkdirFlushKeeps, MkdirTableKeeps, MkdirRegisterKeeps, MkdirErrorKeeps,
     GetfreeCountKeeps, GetfreeErrorKeeps DEF DirStep
<1>5. CASE move_window_error
  BY <1>5, MoveErrorKeeps
<1>6. CASE PowerLoss
  BY <1>6, PowerLossKeeps
<1>7. CASE UNCHANGED vars
  <2>1. WindowOK /\ CountsOK /\ FilesOK /\ CallOK /\ HistOK /\ TableClean
    BY DEF IInv
  <2>2. UNCHANGED <<now, disk, win, info, fs, fil, call, faults, cut, hurt>>
    BY <1>7 DEF vars
  <2>3. WindowOK'
    BY <2>1, <2>2, StillKeeps
  <2>4. CountsOK' /\ FilesOK' /\ HistOK'
    BY <2>1, <2>2, Kept DEF CountsOK, FilesOK
  <2>5. CallOK' /\ TableClean'
    BY <2>1, <2>2 DEF CallOK, TableClean
  <2> QED
    BY <2>3, <2>4, <2>5 DEF IInv
<1> QED
  BY <1>1, <1>2, <1>3, <1>4, <1>5, <1>6, <1>7 DEF Next

\* The window, the call in progress and the objects fit together in every
\* reachable state, also after I/O errors and power losses.
THEOREM VolumeInvariant == Spec => []IInv
<1>1. Init => IInv
  BY InitOK
<1>2. IInv /\ [Next]_vars => IInv'
  BY NextOK
<1> QED
  BY <1>1, <1>2, PTL DEF Spec

\* Every variable keeps its type: no link leaves the FAT, no file position or
\* size its range, and the free count never exceeds the clusters there are.
THEOREM VolumeTypes == Spec => []TypeOK
<1>1. IInv => TypeOK
  BY DEF IInv, WindowOK, VolumeOK, WinOK, CountsOK, FilesOK, HistOK, TypeOK
<1> QED
  BY <1>1, VolumeInvariant, PTL

\* The medium differs from what the code sees in the window's sector at most,
\* and only while wflag is set: no move of the window, no failed one and no
\* reuse of its buffer by f_mkdir loses a change of the FAT or the directory.
THEOREM WindowHidesOneSector == Spec => []WindowCoherent
<1>1. IInv => WindowCoherent
  BY DEF IInv, WindowOK
<1> QED
  BY <1>1, VolumeInvariant, PTL

----------------------------------------------------------------------------
(* Ownership of the clusters.                                              *)

IsRoot(c) == FAT32 /\ c = 2

\* The first cluster of an entry, as the call in progress will leave it: an
\* open object knows better than the directory, and f_truncate at the start of
\* a file gives its whole chain up.
HeadOf(k, f, dir, e) ==
  IF ~f[e].open THEN dir[e].clst
  ELSE IF k.op = "truncate" /\ k.e = e /\ f[e].fptr = 0 THEN 0
  ELSE f[e].sclust

Heads == [e \in Entry |-> HeadOf(call, fil, now.dir, e)]

\* On the medium, where a truncation not yet synced leaves an old entry.
StoredHeads == [e \in Entry |-> IF e \in cut THEN 0 ELSE disk.dir[e].clst]

\* Nothing points at cluster c.
Unowned(fat, head, c) ==
  /\ c \in Clst /\ ~IsRoot(c)
  /\ \A e \in Entry : head[e] # c
  /\ \A d \in Clst : fat[d] # c

Fresh(fat, head, c) == Unowned(fat, head, c) /\ fat[c] # 0

\* What is pointed at has one owner, is allocated and is not the root.
Owned(fat, head) ==
  /\ \A e, f \in Entry : head[e] \in Clst /\ head[e] = head[f] => e = f
  /\ \A b, d \in Clst : fat[d] \in Clst /\ fat[d] = fat[b] => b = d
  /\ \A e \in Entry, d \in Clst : fat[d] \in Clst => head[e] # fat[d]
  /\ \A e \in Entry : head[e] \in Clst => fat[head[e]] # 0 /\ ~IsRoot(head[e])
  /\ \A d \in Clst : fat[d] \in Clst => fat[fat[d]] # 0 /\ ~IsRoot(fat[d])
  /\ \A c \in Clst : IsRoot(c) => fat[c] # 0

\* An open file's entry is there; its cluster in the directory is the object's
\* start, or none yet, unless f_truncate gave that start up since f_sync.
EntriesAgree ==
  \A e \in Entry :
    fil[e].open =>
      /\ now.dir[e].kind = "file"
      /\ e \notin cut \/ ~fil[e].modified => now.dir[e].clst \in {0, fil[e].sclust}

\* Which call is at which stage, and with which object.
RolesOK(k, f, dir, x) ==
  /\ k.op \in {"write", "lseek", "truncate", "sync", "close"} => f[k.e].open
  /\ k.op \in {"create", "unlink", "mkdir"} => ~f[k.e].open
  /\ k.op = "create" => dir[k.e].kind = "file" /\ dir[k.e].clst = 0
  /\ k.op = "truncate" => k.e \in x /\ k.pc \in {"next", "cut", "free", "ret"}
  /\ k.op \in {"sync", "close"} =>
       k.pc = "sync" /\ dir[k.e] = FileEnt(f[k.e].sclust, f[k.e].size)
  /\ k.pc = "back" => k.op = "create"
  /\ k.pc = "next" => k.op = "truncate"
  /\ k.pc = "follow" => k.op \in {"write", "lseek"} /\ f[k.e].sclust # 0
  /\ k.pc \in {"scan", "link"} =>
       /\ k.op \in {"write", "lseek", "mkdir"}
       /\ k.clst # 0 => k.op \in {"write", "lseek"} /\ f[k.e].sclust # 0
  /\ k.pc = "link" => k.clst # 0

\* The cluster the call holds is nobody's.
HeldOK(k, f, fat, head) ==
  /\ k.pc = "free" => Unowned(fat, head, k.clst)
  /\ k.pc = "link" => Fresh(fat, head, k.ncl)
  /\ k.pc = "ret" /\ k.op \in {"write", "lseek"} /\ k.ret \in Clst /\ f[k.e].sclust = 0 =>
       Fresh(fat, head, k.ret)
  /\ k.pc = "ret" /\ k.op = "mkdir" /\ k.cl = 0 /\ k.ret \in Clst => Fresh(fat, head, k.ret)
  /\ k.pc \in {"flush", "table", "register"} => Fresh(fat, head, k.cl)

\* The links the call is about to change are as it found them.
LinksOK(k, fat) ==
  /\ k.pc = "cut" => fat[k.pclst] = k.clst
  /\ k.pc \in {"scan", "link"} /\ k.clst # 0 => fat[k.clst] = EOC

Agree  == EntriesAgree /\ RolesOK(call, fil, now.dir, cut)
Sound  == Owned(now.fat, Heads) /\ HeldOK(call, fil, now.fat, Heads) /\ LinksOK(call, now.fat)
Stable == Owned(disk.fat, StoredHeads)

OInv == Agree /\ (~hurt => Sound /\ Stable)

----------------------------------------------------------------------------
(* Changing one link, or one head.                                         *)

LEMMA MarkOwned ==
  ASSUME NEW fat \in [Clst -> Cell], NEW head, Owned(fat, head),
         NEW c \in Clst, fat[c] = 0
  PROVE  LET g == [fat EXCEPT ![c] = EOC] IN
         Owned(g, head) /\ Fresh(g, head, c) /\ \A d \in Clst : fat[d] # 0 => g[d] = fat[d]
<1> DEFINE g == [fat EXCEPT ![c] = EOC]
<1>1. g[c] = EOC /\ \A d \in Clst : d # c => g[d] = fat[d]
  OBVIOUS
<1>2. EOC \notin Clst /\ EOC # 0 /\ 0 \notin Clst
  BY ClstFacts, NFatEntAssumption DEF EOC
<1> HIDE DEF g
<1>3. Owned(g, head)
  BY <1>1, <1>2 DEF Owned
<1>4. Fresh(g, head, c)
  BY <1>1, <1>2 DEF Owned, Fresh, Unowned
<1> QED
  BY <1>1, <1>3, <1>4 DEF g

LEMMA LinkOwned ==
  ASSUME NEW fat \in [Clst -> Cell], NEW head, Owned(fat, head),
         NEW c \in Clst, fat[c] = EOC, NEW n, Fresh(fat, head, n)
  PROVE  Owned([fat EXCEPT ![c] = n], head)
<1> DEFINE g == [fat EXCEPT ![c] = n]
<1>1. g[c] = n /\ \A d \in Clst : d # c => g[d] = fat[d]
  OBVIOUS
<1>2. EOC \notin Clst /\ EOC # 0 /\ 0 \notin Clst
  BY ClstFacts, NFatEntAssumption DEF EOC
<1> HIDE DEF g
<1>3. Owned(g, head)
  BY <1>1, <1>2 DEF Owned, Fresh, Unowned
<1> QED
  BY <1>3 DEF g

LEMMA CutOwned ==
  ASSUME NEW fat \in [Clst -> Cell], NEW head, Owned(fat, head),
         NEW c \in Clst, fat[c] \in Clst
  PROVE  LET g == [fat EXCEPT ![c] = EOC] IN
         Owned(g, head) /\ Unowned(g, head, fat[c])
<1> DEFINE g == [fat EXCEPT ![c] = EOC]
<1>1. g[c] = EOC /\ \A d \in Clst : d # c => g[d] = fat[d]
  OBVIOUS
<1>2. EOC \notin Clst /\ EOC # 0 /\ 0 \notin Clst
  BY ClstFacts, NFatEntAssumption DEF EOC
<1> HIDE DEF g
<1>3. Owned(g, head)
  BY <1>1, <1>2 DEF Owned
<1>4. Unowned(g, head, fat[c])
  BY <1>1, <1>2 DEF Owned, Unowned
<1> QED
  BY <1>3, <1>4 DEF g

LEMMA FreeOwned ==
  ASSUME NEW fat \in [Clst -> Cell], NEW head, Owned(fat, head),
         NEW c \in Clst, Unowned(fat, head, c)
  PROVE  LET g == [fat EXCEPT ![c] = 0] IN
         Owned(g, head) /\ (fat[c] \in Clst => Unowned(g, head, fat[c]))
<1> DEFINE g == [fat EXCEPT ![c] = 0]
<1>1. g[c] = 0 /\ \A d \in Clst : d # c => g[d] = fat[d]
  OBVIOUS
<1>2. 0 \notin Clst
  BY ClstFacts
<1> HIDE DEF g
<1>3. Owned(g, head)
  BY <1>1, <1>2 DEF Owned, Unowned
<1>4. fat[c] \in Clst => Unowned(g, head, fat[c])
  BY <1>1, <1>2 DEF Owned, Unowned
<1> QED
  BY <1>3, <1>4 DEF g

LEMMA DropOwned ==
  ASSUME NEW fat, NEW head, NEW less, Owned(fat, head),
         \A e \in Entry : less[e] \in {0, head[e]}
  PROVE  /\ Owned(fat, less)
         /\ \A c : Unowned(fat, head, c) => Unowned(fat, less, c)
         /\ \A e \in Entry : less[e] = 0 /\ head[e] \in Clst => Unowned(fat, less, head[e])
<1>1. 0 \notin Clst
  BY ClstFacts
<1>2. Owned(fat, less)
  BY <1>1 DEF Owned
<1>3. \A c : Unowned(fat, head, c) => Unowned(fat, less, c)
  BY <1>1 DEF Unowned
<1>4. \A e \in Entry : less[e] = 0 /\ head[e] \in Clst => Unowned(fat, less, head[e])
  BY <1>1 DEF Unowned, Owned
<1> QED
  BY <1>2, <1>3, <1>4

LEMMA TakeOwned ==
  ASSUME NEW fat, NEW head, NEW more, Owned(fat, head), NEW c, Fresh(fat, head, c),
         NEW e \in Entry, more[e] = c, \A d \in Entry : d # e => more[d] = head[d]
  PROVE  Owned(fat, more)
  BY DEF Owned, Fresh, Unowned

----------------------------------------------------------------------------
(* What the steps have in common.                                          *)

LEMMA FatIs == ASSUME WindowOK
               PROVE  now.fat \in [Clst -> Cell] /\ now.dir \in [Entry -> Ent]
                      /\ disk.fat \in [Clst -> Cell] /\ disk.dir \in [Entry -> Ent]
  BY DEF WindowOK, VolumeOK, Image

LEMMA HeadIs ==
  \A e \in Entry : /\ Heads[e] = HeadOf(call, fil, now.dir, e)
                   /\ Heads'[e] = HeadOf(call', fil', now'.dir, e)
  BY DEF Heads

LEMMA HeadsSame ==
  ASSUME UNCHANGED fil, now'.dir = now.dir, call'.op = call.op, call'.e = call.e
  PROVE  Heads' = Heads
  BY DEF Heads, HeadOf

LEMMA EntriesSame ==
  ASSUME EntriesAgree, UNCHANGED <<fil, cut>>, now'.dir = now.dir
  PROVE  EntriesAgree'
  BY DEF EntriesAgree

\* Between calls nothing is held.
LEMMA IdleAgrees ==
  ASSUME NEW f, NEW dir, NEW x, NEW fat, NEW head
  PROVE  RolesOK(Idle, f, dir, x) /\ HeldOK(Idle, f, fat, head) /\ LinksOK(Idle, fat)
<1>1. Idle.op = "idle" /\ Idle.pc = "none"
  BY DEF Idle
<1> QED
  BY <1>1 DEF RolesOK, HeldOK, LinksOK

\* Written out, what the code sees is sound for the medium too.
LEMMA StoredOwned ==
  ASSUME NEW x, Owned(now.fat, Heads), \A e \in Entry : e \in x \/ now.dir[e].clst \in {0, Heads[e]}
  PROVE  Owned(now.fat, [e \in Entry |-> IF e \in x THEN 0 ELSE now.dir[e].clst])
<1> DEFINE less == [e \in Entry |-> IF e \in x THEN 0 ELSE now.dir[e].clst]
<1>1. \A e \in Entry : less[e] \in {0, Heads[e]}
  OBVIOUS
<1> HIDE DEF less
<1>2. Owned(now.fat, less)
  BY <1>1, DropOwned
<1> QED
  BY <1>2 DEF less

\* The directory is behind the objects by the heads of new chains alone.
LEMMA DirBehind ==
  ASSUME Agree
  PROVE  \A e \in Entry : e \in cut \/ now.dir[e].clst \in {0, Heads[e]}
<1> SUFFICES ASSUME NEW e \in Entry, e \notin cut PROVE now.dir[e].clst \in {0, Heads[e]}
  OBVIOUS
<1>1. Heads[e] = HeadOf(call, fil, now.dir, e)
  BY HeadIs
<1> QED
  BY <1>1 DEF Agree, EntriesAgree, RolesOK, HeadOf

\* Every step but those of sync_fs and PowerLoss ends with this argument.
LEMMA Concluded ==
  ASSUME IInv, OInv, disk' \in {disk, Synced}, cut \subseteq cut', UNCHANGED hurt,
         Agree', ~hurt => Sound'
  PROVE  OInv'
<1>1. Synced = now
  BY SyncedIsNow DEF IInv, WindowOK
<1>2. ASSUME ~hurt PROVE Stable'
  <2>1. Sound /\ Stable /\ Agree
    BY <1>2 DEF OInv
  <2>2. CASE disk' = disk
    <3>1. \A e \in Entry : StoredHeads'[e] \in {0, StoredHeads[e]}
      BY <2>2 DEF StoredHeads
    <3>2. Owned(disk.fat, StoredHeads)
      BY <2>1 DEF Stable
    <3>3. Owned(disk.fat, StoredHeads')
      BY <3>1, <3>2, DropOwned
    <3> QED
      BY <2>2, <3>3 DEF Stable
  <2>3. CASE disk' = now
    <3>1. \A e \in Entry : e \in cut' \/ now.dir[e].clst \in {0, Heads[e]}
      BY <2>1, DirBehind
    <3>2. Owned(now.fat, [e \in Entry |-> IF e \in cut' THEN 0 ELSE now.dir[e].clst])
      BY <2>1, <3>1, StoredOwned DEF Sound
    <3>3. StoredHeads' = [e \in Entry |-> IF e \in cut' THEN 0 ELSE now.dir[e].clst]
      BY <2>3 DEF StoredHeads
    <3> QED
      BY <2>3, <3>2, <3>3 DEF Stable
  <2> QED
    BY <1>1, <2>2, <2>3
<1> QED
  BY <1>2 DEF OInv

\* A step of a call that changes neither the volume nor an object.
LEMMA StepSound ==
  ASSUME IInv, OInv, disk' \in {disk, Synced}, UNCHANGED <<now, fil, cut, hurt>>,
         call'.op = call.op, call'.e = call.e,
         RolesOK(call', fil, now.dir, cut),
         ~hurt => HeldOK(call', fil, now.fat, Heads) /\ LinksOK(call', now.fat)
  PROVE  OInv'
<1>1. Heads' = Heads
  BY HeadsSame
<1>2. Agree'
  BY EntriesSame DEF OInv, Agree
<1>3. ~hurt => Sound'
  BY <1>1 DEF OInv, Sound
<1> QED
  BY <1>2, <1>3, Concluded

\* A call other than f_truncate ends and leaves the volume and the objects.
LEMMA FinishSound ==
  ASSUME IInv, OInv, disk' \in {disk, Synced}, UNCHANGED <<now, fil, cut, hurt>>,
         call' = Idle, call.op # "truncate"
  PROVE  OInv'
<1>1. Heads' = Heads
  BY DEF Heads, HeadOf, Idle
<1>2. Agree'
  BY EntriesSame, IdleAgrees DEF OInv, Agree
<1>3. ~hurt => Sound'
  BY <1>1, IdleAgrees DEF OInv, Sound
<1> QED
  BY <1>2, <1>3, Concluded

\* A chain function of a file returns to a caller that holds nothing then.
LEMMA ReturnSound ==
  ASSUME IInv, OInv, disk' \in {disk, Synced}, UNCHANGED <<now, fil, cut, hurt>>,
         NEW r \in 0 .. NFatEnt + 1, Return(r), call.op \notin {"sync", "close"},
         ~hurt /\ r \in Clst =>
            call.op \in {"write", "lseek"} /\ fil[call.e].sclust # 0
  PROVE  OInv'
<1>1. call \in CallRec /\ StageOK(call)
  BY DEF IInv, CallOK
<1>2. call' = Returned(call, r)
  BY DEF Return
<1>3. call'.op = call.op /\ call'.e = call.e /\ call'.cl = call.cl /\ call'.pc = "ret"
      /\ call'.ret = r
  BY <1>1, <1>2, ReturnedOK DEF SameCall
<1>4. RolesOK(call', fil, now.dir, cut)
  BY <1>3 DEF OInv, Agree, RolesOK
<1>5. ~hurt => HeldOK(call', fil, now.fat, Heads) /\ LinksOK(call', now.fat)
  BY <1>3 DEF HeldOK, LinksOK
<1> QED
  BY <1>3, <1>4, <1>5, StepSound

LEMMA ReadDisk == ASSUME NEW s, ReadAt(s) \/ WriteAt(s) \/ MoveFails(s)
                  PROVE  disk' \in {disk, Synced}
  BY DEF ReadAt, WriteAt, MoveFails

----------------------------------------------------------------------------
(* create_chain, remove_chain and sync_fs.                                 *)

LEMMA FollowOwns == ASSUME IInv, OInv, create_follow PROVE OInv'
<1>1. WindowOK /\ call \in CallRec /\ StageOK(call) /\ RolesOK(call, fil, now.dir, cut)
  BY DEF IInv, CallOK, OInv, Agree
<1>2. call.pc = "follow" /\ UNCHANGED <<now, fil, cut, hurt>> /\ disk' \in {disk, Synced}
  BY ReadDisk DEF create_follow
<1>3. call.clst \in Clst /\ call.op \in {"write", "lseek"} /\ fil[call.e].sclust # 0
  BY <1>1, <1>2 DEF StageOK, RolesOK
<1> DEFINE x == now.fat[call.clst]
<1>4. x \in 0 .. NFatEnt + 1 /\ 1 \in 0 .. NFatEnt + 1
  BY <1>1, <1>3, FatTyped, NFatEntAssumption
<1>5. CASE x = 0
  <2>1. Return(1)
    BY <1>5 DEF create_follow
  <2> QED
    BY <1>2, <1>3, <1>4, <2>1, ReturnSound
<1>6. CASE x # 0 /\ x # EOC
  <2>1. Return(x)
    BY <1>6 DEF create_follow
  <2> QED
    BY <1>2, <1>3, <1>4, <2>1, ReturnSound
<1>7. CASE x = EOC /\ x # 0
  <2> DEFINE h == [call EXCEPT !.pc = "scan", !.scl = call.clst, !.ncl = call.clst]
  <2>1. call' = h
    BY <1>7 DEF create_follow
  <2>2. h.pc = "scan" /\ h.op = call.op /\ h.e = call.e /\ h.clst = call.clst
    BY <1>1 DEF CallRec
  <2> HIDE DEF h
  <2>3. RolesOK(h, fil, now.dir, cut)
    BY <1>1, <1>3, <2>2 DEF RolesOK
  <2>4. HeldOK(h, fil, now.fat, Heads) /\ LinksOK(h, now.fat)
    BY <1>7, <2>2 DEF HeldOK, LinksOK
  <2> QED
    BY <1>2, <2>1, <2>2, <2>3, <2>4, StepSound
<1> QED
  BY <1>5, <1>6, <1>7

\* The scan belongs to f_write, f_lseek or f_mkdir.
LEMMA ScanCaller ==
  ASSUME OInv, call.pc \in {"scan", "link"}
  PROVE  call.op \in {"write", "lseek", "mkdir"}
  BY DEF OInv, Agree, RolesOK

LEMMA ScanEndOwns == ASSUME IInv, OInv, scan_end PROVE OInv'
<1>1. /\ call.pc = "scan" /\ Return(0)
      /\ UNCHANGED <<now, disk, fil, cut, hurt>>
  BY DEF scan_end
<1>2. 0 \notin Clst /\ 0 \in 0 .. NFatEnt + 1
  BY ClstFacts
<1> QED
  BY <1>1, <1>2, ScanCaller, ReturnSound

LEMMA ScanUsedOwns == ASSUME IInv, OInv, scan_used PROVE OInv'
<1>1. call \in CallRec /\ RolesOK(call, fil, now.dir, cut)
  BY DEF IInv, CallOK, OInv, Agree
<1>2. call.pc = "scan" /\ UNCHANGED <<now, fil, cut, hurt>> /\ disk' \in {disk, Synced}
  BY ReadDisk DEF scan_used
<1>3. CASE ScanNext = call.scl
  <2>1. Return(0) /\ 0 \notin Clst /\ 0 \in 0 .. NFatEnt + 1
    BY <1>3, ClstFacts DEF scan_used
  <2> QED
    BY <1>2, <2>1, ScanCaller, ReturnSound
<1>4. CASE ScanNext # call.scl
  <2> DEFINE h == [call EXCEPT !.ncl = ScanNext]
  <2>1. call' = h
    BY <1>4 DEF scan_used
  <2>2. h.pc = "scan" /\ h.op = call.op /\ h.e = call.e /\ h.clst = call.clst
    BY <1>1, <1>2 DEF CallRec
  <2> HIDE DEF h
  <2>3. RolesOK(h, fil, now.dir, cut)
    BY <1>1, <1>2, <2>2 DEF RolesOK
  <2>4. ~hurt => HeldOK(h, fil, now.fat, Heads) /\ LinksOK(h, now.fat)
    BY <1>2, <2>2 DEF HeldOK, LinksOK, OInv, Sound
  <2> QED
    BY <1>2, <2>1, <2>2, <2>3, <2>4, StepSound
<1> QED
  BY <1>3, <1>4

\* The FAT changes, the directory and the objects do not.
LEMMA FatStepSound ==
  ASSUME IInv, OInv, disk' \in {disk, Synced}, UNCHANGED <<fil, cut, hurt>>,
         now'.dir = now.dir, call'.op = call.op, call'.e = call.e,
         RolesOK(call', fil, now.dir, cut),
         ~hurt => /\ Owned(now'.fat, Heads) /\ HeldOK(call', fil, now'.fat, Heads)
                  /\ LinksOK(call', now'.fat)
  PROVE  OInv'
<1>1. Heads' = Heads
  BY HeadsSame
<1>2. Agree'
  BY EntriesSame DEF OInv, Agree
<1>3. ~hurt => Sound'
  BY <1>1 DEF OInv, Sound
<1> QED
  BY <1>2, <1>3, Concluded

LEMMA PutFatIs ==
  ASSUME WindowOK, NEW c, NEW x, PutFat(c, x)
  PROVE  now'.fat = [now.fat EXCEPT ![c] = x] /\ now'.dir = now.dir
  BY DEF PutFat, WindowOK, VolumeOK, Image

LEMMA ReturnedIs ==
  ASSUME CallOK, NEW r \in 0 .. NFatEnt + 1, Return(r)
  PROVE  /\ call'.op = call.op /\ call'.e = call.e /\ call'.cl = call.cl
         /\ call'.pc = "ret" /\ call'.ret = r
<1>1. call \in CallRec /\ StageOK(call) /\ call' = Returned(call, r)
  BY DEF CallOK, Return
<1> QED
  BY <1>1, ReturnedOK DEF SameCall

LEMMA ScanTakeOwns == ASSUME IInv, OInv, scan_take PROVE OInv'
<1>1. /\ WindowOK /\ CallOK /\ call \in CallRec /\ StageOK(call)
      /\ RolesOK(call, fil, now.dir, cut)
  BY DEF IInv, CallOK, OInv, Agree
<1> DEFINE c == ScanNext
<1>2. /\ call.pc = "scan" /\ PutFat(c, EOC) /\ now.fat[c] = 0
      /\ UNCHANGED <<fil, cut, hurt>> /\ disk' \in {disk, Synced}
  BY ReadDisk DEF scan_take
<1>3. c \in Clst /\ c \in 0 .. NFatEnt + 1
  BY <1>1, <1>2, ScanNextOK
<1>4. now'.fat = [now.fat EXCEPT ![c] = EOC] /\ now'.dir = now.dir
  BY <1>1, <1>2, PutFatIs
<1>5. ASSUME ~hurt
      PROVE  /\ Owned(now'.fat, Heads) /\ Fresh(now'.fat, Heads, c)
             /\ \A d \in Clst : now.fat[d] # 0 => now'.fat[d] = now.fat[d]
  <2>1. Owned(now.fat, Heads) /\ now.fat \in [Clst -> Cell]
    BY <1>1, <1>5, FatIs DEF OInv, Sound
  <2> QED
    BY <1>2, <1>3, <1>4, <2>1, MarkOwned
<1>6. CASE call.clst = 0
  <2>1. Return(c)
    BY <1>6 DEF scan_take
  <2>2. /\ call'.op = call.op /\ call'.e = call.e /\ call'.cl = call.cl
        /\ call'.pc = "ret" /\ call'.ret = c
    BY <1>1, <1>3, <2>1, ReturnedIs
  <2>3. RolesOK(call', fil, now.dir, cut)
    BY <1>1, <1>2, <2>2 DEF RolesOK
  <2>4. ~hurt => HeldOK(call', fil, now'.fat, Heads) /\ LinksOK(call', now'.fat)
    BY <1>5, <2>2 DEF HeldOK, LinksOK
  <2> QED
    BY <1>2, <1>4, <1>5, <2>2, <2>3, <2>4, FatStepSound
<1>7. CASE call.clst # 0
  <2> DEFINE h == [call EXCEPT !.pc = "link", !.ncl = c]
  <2>1. call' = h
    BY <1>7 DEF scan_take
  <2>2. h.pc = "link" /\ h.op = call.op /\ h.e = call.e /\ h.ncl = c /\ h.clst = call.clst
    BY <1>1, <1>2 DEF CallRec
  <2>3. call.clst \in Clst
    BY <1>1, <1>7 DEF CallRec
  <2> HIDE DEF h
  <2>4. RolesOK(h, fil, now.dir, cut)
    BY <1>1, <1>2, <1>7, <2>2 DEF RolesOK
  <2>5. ASSUME ~hurt PROVE HeldOK(h, fil, now'.fat, Heads) /\ LinksOK(h, now'.fat)
    <3>1. now.fat[call.clst] = EOC /\ EOC # 0
      BY <1>2, <1>7, <2>5, NFatEntAssumption DEF OInv, Sound, LinksOK, EOC
    <3> QED
      BY <1>5, <2>2, <2>3, <2>5, <3>1 DEF HeldOK, LinksOK
  <2> QED
    BY <1>2, <1>4, <1>5, <2>1, <2>2, <2>4, <2>5, FatStepSound
<1> QED
  BY <1>6, <1>7

LEMMA LinkOwns == ASSUME IInv, OInv, create_link PROVE OInv'
<1>1. /\ WindowOK /\ CallOK /\ call \in CallRec /\ StageOK(call)
      /\ RolesOK(call, fil, now.dir, cut)
  BY DEF IInv, CallOK, OInv, Agree
<1>2. /\ call.pc = "link" /\ PutFat(call.clst, call.ncl) /\ Return(call.ncl)
      /\ UNCHANGED <<fil, cut, hurt>> /\ disk' \in {disk, Synced}
  BY ReadDisk DEF create_link
<1>3. call.clst \in Clst /\ call.ncl \in Clst /\ call.ncl \in 0 .. NFatEnt + 1
      /\ call.clst # 0
  BY <1>1, <1>2, NFatEntAssumption DEF StageOK, Clst
<1>4. call.op \in {"write", "lseek"} /\ fil[call.e].sclust # 0
  BY <1>1, <1>2, <1>3 DEF RolesOK
<1>5. now'.fat = [now.fat EXCEPT ![call.clst] = call.ncl] /\ now'.dir = now.dir
  BY <1>1, <1>2, PutFatIs
<1>6. /\ call'.op = call.op /\ call'.e = call.e /\ call'.cl = call.cl
      /\ call'.pc = "ret" /\ call'.ret = call.ncl
  BY <1>1, <1>2, <1>3, ReturnedIs
<1>7. RolesOK(call', fil, now.dir, cut)
  BY <1>1, <1>2, <1>6 DEF RolesOK
<1>8. ASSUME ~hurt PROVE Owned(now'.fat, Heads)
  <2>1. Owned(now.fat, Heads) /\ now.fat \in [Clst -> Cell]
    BY <1>1, <1>8, FatIs DEF OInv, Sound
  <2>2. Fresh(now.fat, Heads, call.ncl) /\ now.fat[call.clst] = EOC
    BY <1>2, <1>3, <1>8 DEF OInv, Sound, HeldOK, LinksOK
  <2> QED
    BY <1>3, <1>5, <2>1, <2>2, LinkOwned
<1>9. HeldOK(call', fil, now'.fat, Heads) /\ LinksOK(call', now'.fat)
  BY <1>4, <1>6 DEF HeldOK, LinksOK
<1> QED
  BY <1>2, <1>5, <1>6, <1>7, <1>8, <1>9, FatStepSound

LEMMA CutOwns == ASSUME IInv, OInv, remove_cut PROVE OInv'
<1>1. /\ WindowOK /\ CallOK /\ call \in CallRec /\ StageOK(call)
      /\ RolesOK(call, fil, now.dir, cut)
  BY DEF IInv, CallOK, OInv, Agree
<1> DEFINE h == [call EXCEPT !.pc = "free", !.pclst = 0]
<1>2. /\ call.pc = "cut" /\ PutFat(call.pclst, EOC) /\ call' = h
      /\ UNCHANGED <<fil, cut, hurt>> /\ disk' \in {disk, Synced}
  BY ReadDisk DEF remove_cut
<1>3. call.clst \in Clst /\ call.pclst \in Clst
  BY <1>1, <1>2 DEF StageOK
<1>4. now'.fat = [now.fat EXCEPT ![call.pclst] = EOC] /\ now'.dir = now.dir
  BY <1>1, <1>2, PutFatIs
<1>5. h.pc = "free" /\ h.op = call.op /\ h.e = call.e /\ h.clst = call.clst
  BY <1>1 DEF CallRec
<1> HIDE DEF h
<1>6. RolesOK(h, fil, now.dir, cut)
  BY <1>1, <1>2, <1>5 DEF RolesOK
<1>7. ASSUME ~hurt
      PROVE  /\ Owned(now'.fat, Heads) /\ HeldOK(h, fil, now'.fat, Heads)
             /\ LinksOK(h, now'.fat)
  <2>1. Owned(now.fat, Heads) /\ now.fat \in [Clst -> Cell]
    BY <1>1, <1>7, FatIs DEF OInv, Sound
  <2>2. now.fat[call.pclst] = call.clst
    BY <1>2, <1>7 DEF OInv, Sound, LinksOK
  <2>3. Owned(now'.fat, Heads) /\ Unowned(now'.fat, Heads, call.clst)
    BY <1>3, <1>4, <2>1, <2>2, CutOwned
  <2> QED
    BY <1>5, <2>3 DEF HeldOK, LinksOK
<1> QED
  BY <1>2, <1>4, <1>5, <1>6, <1>7, FatStepSound

LEMMA FreeOwns == ASSUME IInv, OInv, remove_free PROVE OInv'
<1>1. /\ WindowOK /\ CallOK /\ call \in CallRec /\ StageOK(call)
      /\ RolesOK(call, fil, now.dir, cut)
  BY DEF IInv, CallOK, OInv, Agree
<1>2. call.pc = "free" /\ UNCHANGED <<fil, cut, hurt>> /\ call.op \notin {"sync", "close"}
  BY <1>1 DEF remove_free, RolesOK
<1>3. call.clst \in Clst /\ 0 \notin Clst /\ 0 \in 0 .. NFatEnt + 1
  BY <1>1, <1>2, ClstFacts DEF StageOK
<1> DEFINE x == now.fat[call.clst]
<1>4. CASE x = 0
  <2>1. Return(0) /\ UNCHANGED now /\ disk' \in {disk, Synced}
    BY <1>4, ReadDisk DEF remove_free
  <2> QED
    BY <1>2, <1>3, <2>1, ReturnSound
<1>5. CASE x # 0
  <2>1. /\ PutFat(call.clst, 0) /\ disk' \in {disk, Synced}
        /\ \/ x = EOC /\ Return(0)
           \/ x # EOC /\ call' = [call EXCEPT !.clst = x]
    BY <1>5, ReadDisk DEF remove_free
  <2>2. now'.fat = [now.fat EXCEPT ![call.clst] = 0] /\ now'.dir = now.dir
    BY <1>1, <2>1, PutFatIs
  <2>3. ASSUME ~hurt
        PROVE  Owned(now'.fat, Heads) /\ (x \in Clst => Unowned(now'.fat, Heads, x))
    <3>1. Owned(now.fat, Heads) /\ now.fat \in [Clst -> Cell]
      BY <1>1, <2>3, FatIs DEF OInv, Sound
    <3>2. Unowned(now.fat, Heads, call.clst)
      BY <1>2, <2>3 DEF OInv, Sound, HeldOK
    <3> QED
      BY <1>3, <2>2, <3>1, <3>2, FreeOwned
  <2>4. CASE x = EOC
    <3>1. /\ call'.op = call.op /\ call'.e = call.e /\ call'.cl = call.cl
          /\ call'.pc = "ret" /\ call'.ret = 0
      BY <1>1, <1>3, <2>1, <2>4, ReturnedIs
    <3>2. RolesOK(call', fil, now.dir, cut)
      BY <1>1, <1>2, <3>1 DEF RolesOK
    <3>3. HeldOK(call', fil, now'.fat, Heads) /\ LinksOK(call', now'.fat)
      BY <1>3, <3>1 DEF HeldOK, LinksOK
    <3> QED
      BY <1>2, <2>1, <2>2, <2>3, <3>1, <3>2, <3>3, FatStepSound
  <2>5. CASE x # EOC
    <3> DEFINE h == [call EXCEPT !.clst = x]
    <3>1. x \in Clst
      BY <1>1, <1>3, <1>5, <2>5, FatTyped DEF Cell
    <3>2. call' = h
      BY <2>1, <2>5
    <3>3. h.pc = "free" /\ h.op = call.op /\ h.e = call.e /\ h.clst = x
      BY <1>1, <1>2 DEF CallRec
    <3> HIDE DEF h
    <3>4. RolesOK(h, fil, now.dir, cut)
      BY <1>1, <1>2, <3>3 DEF RolesOK
    <3>5. ~hurt => HeldOK(h, fil, now'.fat, Heads) /\ LinksOK(h, now'.fat)
      BY <2>3, <3>1, <3>3 DEF HeldOK, LinksOK
    <3> QED
      BY <1>2, <2>1, <2>2, <2>3, <3>2, <3>3, <3>4, <3>5, FatStepSound
  <2> QED
    BY <2>4, <2>5
<1> QED
  BY <1>4, <1>5

\* An object changes, the volume does not; no call is at work on the chains.
LEMMA ObjectSound ==
  ASSUME IInv, OInv, disk' \in {disk, Synced}, UNCHANGED <<now, cut, hurt>>,
         NEW e \in Entry, NEW g, fil' = [fil EXCEPT ![e] = g],
         g.open => /\ now.dir[e].kind = "file"
                   /\ e \notin cut \/ ~g.modified => now.dir[e].clst \in {0, g.sclust},
         call.op = "truncate" => call.e = e, call'.op # "truncate",
         call'.pc \in {"none", "follow", "scan"}, call'.pc = "scan" => call'.clst = 0,
         RolesOK(call', fil', now.dir, cut),
         LET c == IF g.open THEN g.sclust ELSE now.dir[e].clst IN
           c \in {0, Heads[e]} \/ (~hurt => Fresh(now.fat, Heads, c))
  PROVE  OInv'
<1> DEFINE c == IF g.open THEN g.sclust ELSE now.dir[e].clst
<1>1. fil \in [Entry -> File]
  BY DEF IInv, FilesOK
<1>2. fil'[e] = g /\ \A d \in Entry : d # e => fil'[d] = fil[d]
  BY <1>1
<1>3. Heads'[e] = c /\ \A d \in Entry : d # e => Heads'[d] = Heads[d]
  BY <1>2, HeadIs DEF HeadOf
<1>4. Agree'
  BY <1>2 DEF OInv, Agree, EntriesAgree
<1>5. ASSUME ~hurt PROVE Sound'
  <2>1. Owned(now.fat, Heads)
    BY <1>5 DEF OInv, Sound
  <2>2. Owned(now.fat, Heads')
    <3> DEFINE hd == Heads'
    <3> HIDE DEF c
    <3>1. CASE c \in {0, Heads[e]}
      <4>1. \A d \in Entry : hd[d] \in {0, Heads[d]}
        BY <1>3, <3>1
      <4> HIDE DEF hd
      <4>2. Owned(now.fat, hd)
        BY <2>1, <4>1, DropOwned
      <4> QED
        BY <4>2 DEF hd
    <3>2. CASE Fresh(now.fat, Heads, c)
      <4>1. hd[e] = c /\ \A d \in Entry : d # e => hd[d] = Heads[d]
        BY <1>3
      <4> HIDE DEF hd
      <4>2. Owned(now.fat, hd)
        BY <2>1, <3>2, <4>1, TakeOwned
      <4> QED
        BY <4>2 DEF hd
    <3> QED
      BY <1>5, <3>1, <3>2 DEF c
  <2>3. HeldOK(call', fil', now.fat, Heads') /\ LinksOK(call', now.fat)
    BY DEF HeldOK, LinksOK
  <2> QED
    BY <2>2, <2>3 DEF Sound
<1> QED
  BY <1>4, <1>5, Concluded

LEMMA FileEntIs == \A c, n : FileEnt(c, n).kind = "file" /\ FileEnt(c, n).clst = c
  BY DEF FileEnt

LEMMA CleanIs == ASSUME NEW f \in File
                 PROVE  LET g == [f EXCEPT !.modified = FALSE] IN
                        g.open = f.open /\ g.sclust = f.sclust /\ ~g.modified
  BY DEF File

LEMMA ClosedIs == ~ClosedFil.open
  BY DEF ClosedFil

LEMMA SyncErrorOwns == ASSUME IInv, OInv, sync_fs_error PROVE OInv'
<1>1. /\ call.pc = "sync" /\ disk' \in {disk, Synced} /\ AfterSync(FALSE) /\ call' = Idle
      /\ UNCHANGED <<now, cut, hurt>>
  BY DEF sync_fs_error, Finish
<1>2. RolesOK(call, fil, now.dir, cut) /\ call.op # "truncate" /\ StageOK(call)
      /\ fil \in [Entry -> File]
  BY <1>1 DEF OInv, Agree, RolesOK, IInv, CallOK, FilesOK
<1>3. CASE call.op \in {"sync", "close"}
  <2> DEFINE f == fil[call.e]
             g == [f EXCEPT !.modified = FALSE]
  <2>1. fil' = [fil EXCEPT ![call.e] = g]
    BY <1>1, <1>3 DEF AfterSync, UpdateFil
  <2>2. call.e \in Entry /\ f.open /\ now.dir[call.e] = FileEnt(f.sclust, f.size)
    BY <1>2, <1>3 DEF StageOK, RolesOK
  <2>3. g.open /\ g.sclust = f.sclust /\ ~g.modified
    BY <1>2, <2>2, CleanIs
  <2> HIDE DEF g
  <2>4. now.dir[call.e].kind = "file" /\ now.dir[call.e].clst = g.sclust
        /\ g.sclust = Heads[call.e]
    BY <1>2, <2>2, <2>3, FileEntIs, HeadIs DEF HeadOf
  <2>5. RolesOK(call', fil', now.dir, cut) /\ call'.pc = "none" /\ call'.op # "truncate"
    BY <1>1, IdleAgrees DEF Idle
  <2> QED
    BY <1>1, <1>2, <2>1, <2>2, <2>3, <2>4, <2>5, ObjectSound
<1>4. CASE call.op \notin {"sync", "close"}
  <2>1. UNCHANGED fil
    BY <1>1, <1>4 DEF AfterSync
  <2> QED
    BY <1>1, <1>2, <2>1, FinishSound
<1> QED
  BY <1>3, <1>4

LEMMA SyncFsOwns == ASSUME IInv, OInv, sync_fs PROVE OInv'
<1>1. /\ call.pc = "sync" /\ disk' = Synced /\ AfterSync(TRUE) /\ call' = Idle
      /\ cut' = IF call.op \in {"sync", "close"} THEN cut \ {call.e} ELSE cut
      /\ UNCHANGED <<now, hurt>>
  BY DEF sync_fs, Finish
<1>2. RolesOK(call, fil, now.dir, cut) /\ call.op # "truncate" /\ StageOK(call)
      /\ fil \in [Entry -> File] /\ Synced = now
  BY <1>1, SyncedIsNow DEF OInv, Agree, RolesOK, IInv, CallOK, FilesOK, WindowOK
<1>3. CASE call.op \in {"sync", "close"}
  <2> DEFINE e == call.e
             f == fil[e]
             g == IF call.op = "close" THEN ClosedFil ELSE [f EXCEPT !.modified = FALSE]
  <2>1. fil' = [fil EXCEPT ![e] = g] /\ cut' = cut \ {e}
    BY <1>1, <1>3 DEF AfterSync, UpdateFil
  <2>2. e \in Entry /\ f.open /\ now.dir[e] = FileEnt(f.sclust, f.size)
    BY <1>2, <1>3 DEF StageOK, RolesOK
  <2>3. g.open => g.sclust = f.sclust
    BY <1>2, <2>2, CleanIs, ClosedIs
  <2> HIDE DEF g
  <2>4. fil'[e] = g /\ \A d \in Entry : d # e => fil'[d] = fil[d]
    BY <1>2, <2>1, <2>2
  <2>5. now.dir[e].kind = "file" /\ now.dir[e].clst = f.sclust
    BY <2>2, FileEntIs
  <2>6. Heads[e] = f.sclust
    BY <1>2, <2>2, HeadIs DEF HeadOf
  <2>7. call'.op = "idle"
    BY <1>1 DEF Idle
  <2>8. Heads' = Heads
    <3>1. \A d \in Entry : HeadOf(call', fil', now'.dir, d) = HeadOf(call, fil, now.dir, d)
      BY <1>1, <1>2, <2>2, <2>3, <2>4, <2>5, <2>7 DEF HeadOf
    <3> QED
      BY <3>1 DEF Heads
  <2>9. Agree'
    <3>1. EntriesAgree'
      BY <1>1, <2>1, <2>3, <2>4, <2>5 DEF OInv, Agree, EntriesAgree
    <3> QED
      BY <1>1, <3>1, IdleAgrees DEF Agree
  <2>10. ASSUME ~hurt PROVE Sound' /\ Stable'
    <3>1. Owned(now.fat, Heads)
      BY <2>10 DEF OInv, Sound
    <3>2. Sound'
      BY <1>1, <2>8, <3>1, IdleAgrees DEF Sound
    <3>3. \A d \in Entry : d \in cut' \/ now.dir[d].clst \in {0, Heads[d]}
      BY <2>1, <2>5, <2>6, DirBehind DEF OInv
    <3>4. Owned(now.fat, [d \in Entry |-> IF d \in cut' THEN 0 ELSE now.dir[d].clst])
      BY <3>1, <3>3, StoredOwned
    <3>5. StoredHeads' = [d \in Entry |-> IF d \in cut' THEN 0 ELSE now.dir[d].clst]
      BY <1>1, <1>2 DEF StoredHeads
    <3> QED
      BY <1>1, <1>2, <3>2, <3>4, <3>5 DEF Stable
  <2> QED
    BY <1>1, <2>9, <2>10 DEF OInv
<1>4. CASE call.op \notin {"sync", "close"}
  <2>1. UNCHANGED <<fil, cut>>
    BY <1>1, <1>4 DEF AfterSync
  <2> QED
    BY <1>1, <1>2, <2>1, FinishSound
<1> QED
  BY <1>3, <1>4

----------------------------------------------------------------------------
(* The calls that begin in the directory sector.                           *)

LEMMA PutDirIs ==
  ASSUME WindowOK, NEW e \in Entry, NEW x, PutDir(e, x)
  PROVE  /\ now'.fat = now.fat /\ now'.dir[e] = x
         /\ \A d \in Entry : d # e => now'.dir[d] = now.dir[d]
<1>1. now.dir \in [Entry -> Ent] /\ now = [fat |-> now.fat, dir |-> now.dir]
  BY DEF WindowOK, VolumeOK, Image
<1>2. now'.dir = [now.dir EXCEPT ![e] = x] /\ now'.fat = now.fat
  BY <1>1 DEF PutDir
<1> QED
  BY <1>1, <1>2

\* One entry changes, perhaps with its object; a chain it starts no more is the
\* call's to free.
LEMMA DirSound ==
  ASSUME IInv, OInv, disk' \in {disk, Synced}, UNCHANGED <<cut, hurt>>,
         NEW e \in Entry, NEW x, PutDir(e, x),
         NEW g, fil'[e] = g, \A d \in Entry : d # e => fil'[d] = fil[d],
         g.open => /\ x.kind = "file"
                   /\ e \notin cut \/ ~g.modified => x.clst \in {0, g.sclust},
         call.op # "truncate", call'.op # "truncate",
         RolesOK(call', fil', now'.dir, cut),
         LET c == IF g.open THEN g.sclust ELSE x.clst IN
           c \in {0, Heads[e]} \/ (~hurt => Fresh(now.fat, Heads, c)),
         \/ call'.pc \in {"none", "sync"}
         \/ call'.pc = "ret" /\ call'.op \in {"create", "unlink"}
         \/ call'.pc = "free" /\ call'.clst = Heads[e] /\ Heads[e] \in Clst
            /\ ~g.open /\ x.clst = 0
  PROVE  OInv'
<1> DEFINE c == IF g.open THEN g.sclust ELSE x.clst
           hd == Heads'
<1>1. WindowOK
  BY DEF IInv
<1>2. /\ now'.fat = now.fat /\ now'.dir[e] = x
      /\ \A d \in Entry : d # e => now'.dir[d] = now.dir[d]
  BY <1>1, PutDirIs
<1>3. hd[e] = c /\ \A d \in Entry : d # e => hd[d] = Heads[d]
  BY <1>2, HeadIs DEF HeadOf
<1>4. Agree'
  BY <1>2 DEF OInv, Agree, EntriesAgree
<1>5. ASSUME ~hurt PROVE Sound'
  <2>1. Owned(now.fat, Heads)
    BY <1>5 DEF OInv, Sound
  <2>2. /\ Owned(now.fat, hd)
        /\ call'.pc = "free" => Unowned(now.fat, hd, call'.clst)
    <3> DEFINE old == Heads[e]
    <3>1. CASE c \in {0, old}
      <4> HIDE DEF hd, c
      <4>1. \A d \in Entry : hd[d] \in {0, Heads[d]}
        BY <1>3, <3>1
      <4>2. Owned(now.fat, hd)
            /\ \A d \in Entry : hd[d] = 0 /\ Heads[d] \in Clst => Unowned(now.fat, hd, Heads[d])
        BY <2>1, <4>1, DropOwned
      <4>3. call'.pc = "free" => hd[e] = 0 /\ call'.clst = old /\ old \in Clst
        BY <1>3 DEF c
      <4> QED
        BY <4>2, <4>3
    <3>2. CASE c \notin {0, old} /\ Fresh(now.fat, Heads, c)
      <4>1. call'.pc # "free"
        BY <3>2
      <4> HIDE DEF hd, c
      <4>2. Owned(now.fat, hd)
        BY <1>3, <2>1, <3>2, TakeOwned
      <4> QED
        BY <4>1, <4>2
    <3> QED
      BY <1>5, <3>1, <3>2 DEF c
  <2>3. HeldOK(call', fil', now'.fat, Heads') /\ LinksOK(call', now'.fat)
    BY <1>2, <2>2 DEF HeldOK, LinksOK
  <2> QED
    BY <1>2, <2>2, <2>3 DEF Sound
<1> QED
  BY <1>4, <1>5, Concluded

LEMMA IdleIs == Idle.op = "idle" /\ Idle.pc = "none"
  BY DEF Idle

LEMMA DirErrorOwns == ASSUME IInv, OInv, dir_error PROVE OInv'
<1>1. call = Idle /\ call' = Idle /\ UNCHANGED <<now, fil, cut, hurt>>
      /\ disk' \in {disk, Synced}
  BY ReadDisk DEF dir_error
<1> QED
  BY <1>1, IdleIs, FinishSound

LEMMA OpenIs == ASSUME NEW c \in {0} \cup Clst, NEW n \in 0 .. MaxSize, NEW m \in BOOLEAN
                PROVE  OpenFil(c, n, m).open /\ OpenFil(c, n, m).sclust = c
<1> DEFINE f1 == [ClosedFil EXCEPT !.open = TRUE]
<1>1. ClosedFil \in File
  BY ClosedOK DEF FileOK
<1>2. f1 \in File /\ f1.open
  BY <1>1 DEF File
<1> HIDE DEF f1
<1> DEFINE f2 == [f1 EXCEPT !.sclust = c]
<1>3. f2 \in File /\ f2.open /\ f2.sclust = c
  BY <1>2 DEF File
<1> HIDE DEF f2
<1> DEFINE f3 == [f2 EXCEPT !.size = n]
<1>4. f3 \in File /\ f3.open /\ f3.sclust = c
  BY <1>3 DEF File
<1> HIDE DEF f3
<1> DEFINE f4 == [f3 EXCEPT !.modified = m]
<1>5. f4.open /\ f4.sclust = c
  BY <1>4 DEF File
<1>6. OpenFil(c, n, m) = f4
  BY Zenon DEF OpenFil, f1, f2, f3
<1> HIDE DEF f4
<1> QED
  BY <1>5, <1>6

LEMMA NewIs == OpenFil(0, 0, TRUE).open /\ OpenFil(0, 0, TRUE).sclust = 0
<1>1. 0 \in 0 .. MaxSize /\ 0 \in {0} \cup Clst
  BY MaxSizeAssumption
<1> DEFINE t == TRUE
<1>2. t \in BOOLEAN
  OBVIOUS
<1> HIDE DEF t
<1>3. OpenFil(0, 0, t).open /\ OpenFil(0, 0, t).sclust = 0
  BY <1>1, <1>2, OpenIs
<1> QED
  BY <1>3, Zenon DEF t

LEMMA OpenOwns == ASSUME IInv, OInv, NEW e \in Entry, f_open(e) PROVE OInv'
<1> DEFINE d == now.dir[e]
           g == OpenFil(d.clst, d.size, FALSE)
<1>1. /\ call = Idle /\ call' = Idle /\ ~fil[e].open
      /\ fil' = [fil EXCEPT ![e] = IF d.kind = "file" THEN g ELSE @]
      /\ UNCHANGED <<now, cut, hurt>> /\ disk' \in {disk, Synced}
  BY ReadDisk DEF f_open
<1>2. fil \in [Entry -> File]
  BY DEF IInv, FilesOK
<1>3. CASE d.kind = "file"
  <2>1. fil' = [fil EXCEPT ![e] = g]
    BY <1>1, <1>3
  <2>2. g.open /\ g.sclust = d.clst
    <3>1. d \in Ent
      BY EntTyped DEF IInv
    <3> QED
      BY <3>1, OpenIs DEF Ent
  <2>3. Heads[e] = d.clst
    BY <1>1, HeadIs DEF HeadOf
  <2>4. RolesOK(call', fil', now.dir, cut)
    BY <1>1, IdleAgrees
  <2> HIDE DEF g
  <2> QED
    BY <1>1, <1>3, <2>1, <2>2, <2>3, <2>4, IdleIs, ObjectSound
<1>4. CASE d.kind # "file"
  <2>1. UNCHANGED fil
    BY <1>1, <1>2, <1>4
  <2> QED
    BY <1>1, <2>1, IdleIs, FinishSound
<1> QED
  BY <1>3, <1>4

LEMMA DeniedOwns == ASSUME IInv, OInv, NEW e \in Entry, f_open_denied(e) PROVE OInv'
<1>1. call = Idle /\ call' = Idle /\ UNCHANGED <<now, fil, cut, hurt>>
      /\ disk' \in {disk, Synced}
  BY ReadDisk DEF f_open_denied
<1> QED
  BY <1>1, IdleIs, FinishSound

LEMMA CreateOwns == ASSUME IInv, OInv, NEW e \in Entry, f_open_create(e) PROVE OInv'
<1> DEFINE c == now.dir[e].clst
           x == FileEnt(0, 0)
           b == Begin("create", e)
           k == [b EXCEPT !.cl = c]
           h == Removing(k, c, 0)
           g == OpenFil(0, 0, TRUE)
<1>1. /\ call = Idle /\ ~fil[e].open /\ PutDir(e, x)
      /\ UNCHANGED <<cut, hurt>> /\ disk' \in {disk, Synced}
      /\ \/ c = 0 /\ fil' = [fil EXCEPT ![e] = g] /\ UNCHANGED call
         \/ c # 0 /\ call' = h /\ UNCHANGED fil
  BY ReadDisk DEF f_open_create
<1>2. WindowOK /\ fil \in [Entry -> File]
  BY DEF IInv, FilesOK
<1>3. now'.dir[e] = x
  BY <1>1, <1>2, PutDirIs
<1>4. x.kind = "file" /\ x.clst = 0
  BY FileEntIs
<1>5. Heads[e] = c /\ c \in {0} \cup Clst
  <2>1. now.dir[e] \in Ent
    BY <1>2, EntTyped
  <2> QED
    BY <1>1, <2>1, HeadIs DEF HeadOf, Ent
<1> HIDE DEF x
<1>6. CASE c = 0
  <2>1. fil'[e] = g /\ call' = Idle /\ \A d \in Entry : d # e => fil'[d] = fil[d]
    BY <1>1, <1>2, <1>6
  <2>2. g.open /\ g.sclust = 0
    BY NewIs
  <2>3. RolesOK(call', fil', now'.dir, cut)
    BY <2>1, IdleAgrees
  <2> HIDE DEF g
  <2> QED
    BY <1>1, <1>4, <2>1, <2>2, <2>3, IdleIs, DirSound
<1>7. CASE c # 0
  <2>1. call' = h /\ UNCHANGED fil /\ c \in Clst
    BY <1>1, <1>5, <1>7
  <2>2. b = [op |-> "create", pc |-> "none", e |-> e, clst |-> 0, pclst |-> 0,
             ncl |-> 0, scl |-> 0, ret |-> 0, cl |-> 0, rem |-> 0]
    BY BeginIs
  <2> HIDE DEF b
  <2>3. k = [op |-> "create", pc |-> "none", e |-> e, clst |-> 0, pclst |-> 0,
             ncl |-> 0, scl |-> 0, ret |-> 0, cl |-> c, rem |-> 0]
    BY <2>2
  <2> HIDE DEF k
  <2>4. k \in CallRec
    BY <2>1, <2>3, NFatEntAssumption DEF CallRec, Op, Pc
  <2>5. StageOK(k) /\ k.op = "create" /\ k.e = e
    BY <2>1, <2>3 DEF StageOK
  <2>6. 0 \in {0} \cup Clst
    OBVIOUS
  <2>7. h.op = "create" /\ h.e = e /\ h.pc = "free" /\ h.clst = c
    BY <2>1, <2>4, <2>5, <2>6, RemovingOK DEF SameCall
  <2> HIDE DEF h
  <2>8. RolesOK(call', fil', now'.dir, cut)
    BY <1>1, <1>3, <1>4, <2>1, <2>7 DEF RolesOK
  <2> QED
    BY <1>1, <1>4, <1>5, <2>1, <2>7, <2>8, IdleIs, DirSound
<1> QED
  BY <1>6, <1>7

LEMMA OpenRemovedOwns == ASSUME IInv, OInv, open_removed PROVE OInv'
<1>1. /\ call.pc = "ret" /\ call.op = "create" /\ UNCHANGED <<now, disk, fil, cut, hurt>>
      /\ \/ call' = [call EXCEPT !.pc = "back"]
         \/ call' = Idle
  BY DEF open_removed, Goto, Finish
<1>2. call \in CallRec /\ RolesOK(call, fil, now.dir, cut)
  BY DEF IInv, CallOK, OInv, Agree
<1>3. CASE call' = [call EXCEPT !.pc = "back"]
  <2>1. call'.pc = "back" /\ call'.op = call.op /\ call'.e = call.e
    BY <1>2, <1>3 DEF CallRec
  <2>2. RolesOK(call', fil, now.dir, cut)
    BY <1>1, <1>2, <2>1 DEF RolesOK
  <2>3. HeldOK(call', fil, now.fat, Heads) /\ LinksOK(call', now.fat)
    BY <2>1 DEF HeldOK, LinksOK
  <2> QED
    BY <1>1, <2>1, <2>2, <2>3, StepSound
<1>4. CASE call' = Idle
  BY <1>1, <1>4, FinishSound
<1> QED
  BY <1>1, <1>3, <1>4

LEMMA OpenBackOwns == ASSUME IInv, OInv, open_back PROVE OInv'
<1> DEFINE e == call.e
           g == OpenFil(0, 0, TRUE)
<1>1. /\ call.pc = "back" /\ fil' = [fil EXCEPT ![e] = g] /\ call' = Idle
      /\ UNCHANGED <<now, cut, hurt>> /\ disk' \in {disk, Synced}
  BY ReadDisk DEF open_back, UpdateFil, Finish
<1>2. call.op = "create" /\ ~fil[e].open /\ e \in Entry
      /\ now.dir[e].kind = "file" /\ now.dir[e].clst = 0
  BY <1>1 DEF OInv, Agree, RolesOK, IInv, CallOK, StageOK
<1>3. g.open /\ g.sclust = 0
  BY NewIs
<1> HIDE DEF g
<1>4. RolesOK(call', fil', now.dir, cut)
  BY <1>1, IdleAgrees
<1> QED
  BY <1>1, <1>2, <1>3, <1>4, IdleIs, ObjectSound

----------------------------------------------------------------------------
(* f_sync, f_close and f_write.                                            *)

LEMMA UpdateOwns ==
  ASSUME IInv, OInv, NEW op \in {"sync", "close"}, NEW e \in Entry, call = Idle, fil[e].open,
         Update(op, e), UNCHANGED <<cut, hurt>>
  PROVE  OInv'
<1> DEFINE x == FileEnt(fil[e].sclust, fil[e].size)
           b == Begin(op, e)
           h == [b EXCEPT !.pc = "sync"]
<1>1. PutDir(e, x) /\ call' = h /\ UNCHANGED fil /\ disk' \in {disk, Synced}
  BY ReadDisk DEF Update
<1>2. WindowOK
  BY DEF IInv
<1>3. now'.dir[e] = x
  BY <1>1, <1>2, PutDirIs
<1>4. x.kind = "file" /\ x.clst = fil[e].sclust
  BY FileEntIs
<1>5. b = [op |-> op, pc |-> "none", e |-> e, clst |-> 0, pclst |-> 0,
           ncl |-> 0, scl |-> 0, ret |-> 0, cl |-> 0, rem |-> 0]
  BY BeginIs
<1> HIDE DEF b
<1>6. h.op = op /\ h.pc = "sync" /\ h.e = e
  BY <1>5
<1>7. RolesOK(h, fil, now'.dir, cut)
  BY <1>3, <1>6 DEF RolesOK
<1>8. Heads[e] = fil[e].sclust
  BY HeadIs, IdleIs DEF HeadOf
<1> HIDE DEF h, x
<1> QED
  BY <1>1, <1>4, <1>6, <1>7, <1>8, IdleIs, DirSound

LEMMA FileSyncOwns == ASSUME IInv, OInv, NEW e \in Entry, f_sync(e) PROVE OInv'
<1>1. call = Idle /\ fil[e].open /\ UNCHANGED <<cut, hurt>>
  BY DEF f_sync
<1>2. CASE Update("sync", e)
  BY <1>1, <1>2, UpdateOwns
<1>3. CASE UNCHANGED <<now, disk, win, fil, call>>
  BY <1>1, <1>3, IdleIs, FinishSound
<1> QED
  BY <1>2, <1>3 DEF f_sync

LEMMA CloseOwns == ASSUME IInv, OInv, NEW e \in Entry, f_close(e) PROVE OInv'
<1>1. call = Idle /\ fil[e].open /\ UNCHANGED <<cut, hurt>>
  BY DEF f_close
<1>2. CASE Update("close", e)
  BY <1>1, <1>2, UpdateOwns
<1>3. CASE ~fil[e].modified /\ fil' = [fil EXCEPT ![e] = ClosedFil]
           /\ UNCHANGED <<now, disk, win, call>>
  <2>1. Heads[e] = fil[e].sclust
    BY <1>1, HeadIs, IdleIs DEF HeadOf
  <2>2. now.dir[e].clst \in {0, fil[e].sclust}
    BY <1>1, <1>3 DEF OInv, Agree, EntriesAgree
  <2>3. RolesOK(call', fil', now.dir, cut)
    BY <1>1, <1>3, IdleAgrees
  <2> QED
    BY <1>1, <1>3, <2>1, <2>2, <2>3, ClosedIs, IdleIs, ObjectSound
<1> QED
  BY <1>2, <1>3 DEF f_close

\* A call begins that changes nothing yet.
LEMMA StartSound ==
  ASSUME IInv, OInv, disk' \in {disk, Synced}, UNCHANGED <<now, fil, cut, hurt>>,
         call = Idle, call'.op # "truncate", RolesOK(call', fil, now.dir, cut),
         ~hurt => HeldOK(call', fil, now.fat, Heads) /\ LinksOK(call', now.fat)
  PROVE  OInv'
<1>1. Heads' = Heads
  BY IdleIs DEF Heads, HeadOf
<1>2. Agree'
  BY EntriesSame DEF OInv, Agree
<1>3. ~hurt => Sound'
  BY <1>1 DEF OInv, Sound
<1> QED
  BY <1>2, <1>3, Concluded

LEMMA WriteOwns == ASSUME IInv, OInv, NEW e \in Entry, f_write(e) PROVE OInv'
<1> DEFINE f == fil[e]
           b == Begin("write", e)
           r == [b EXCEPT !.pc = "ret", !.ret = f.sclust]
<1>1. /\ call = Idle /\ f.open /\ UNCHANGED <<now, disk, fil, cut, hurt>>
      /\ \/ f.fptr = 0 /\ f.sclust = 0 /\ call' = Creating(b, 0)
         \/ f.fptr = 0 /\ f.sclust # 0 /\ call' = r
         \/ f.fptr # 0 /\ call' = Creating(b, f.clust)
  BY DEF f_write, Usable
<1>2. FileOK(f) /\ f.fptr \in 0 .. MaxSize /\ CountsOK
  BY DEF IInv, FilesOK, FileOK, File
<1>3. f.fptr # 0 => f.sclust \in Clst /\ f.clust \in Clst
  BY <1>2 DEF FileOK
<1>4. b = [op |-> "write", pc |-> "none", e |-> e, clst |-> 0, pclst |-> 0,
           ncl |-> 0, scl |-> 0, ret |-> 0, cl |-> 0, rem |-> 0]
  BY BeginIs
<1>5. b \in CallRec /\ StageOK(b) /\ b.op = "write" /\ b.e = e
  <2>1. "write" \in Op \ {"idle", "create", "getfree"}
    BY DEF Op
  <2> QED
    BY <2>1, BeginOK
<1> HIDE DEF b
<1>6. b.clst = 0
  BY <1>4
<1>7. r.op = "write" /\ r.e = e /\ r.pc = "ret"
  BY <1>4
<1>8. \A c \in {0} \cup Clst :
         LET h == Creating(b, c) IN
         /\ h.op = "write" /\ h.e = e
         /\ h.pc = IF c = 0 THEN "scan" ELSE "follow"
         /\ h.clst = IF c = 0 THEN 0 ELSE c
  BY <1>2, <1>5, <1>6, CreatingOK DEF SameCall
<1>9. CASE f.fptr = 0 /\ f.sclust = 0 /\ call' = Creating(b, 0)
  <2>1. call'.op = "write" /\ call'.e = e /\ call'.pc = "scan" /\ call'.clst = 0
    BY <1>8, <1>9
  <2>2. RolesOK(call', fil, now.dir, cut)
    BY <1>1, <2>1 DEF RolesOK
  <2>3. HeldOK(call', fil, now.fat, Heads) /\ LinksOK(call', now.fat)
    BY <2>1 DEF HeldOK, LinksOK
  <2> QED
    BY <1>1, <2>1, <2>2, <2>3, StartSound
<1>10. CASE f.fptr = 0 /\ f.sclust # 0 /\ call' = r
  <2>1. call'.op = "write" /\ call'.e = e /\ call'.pc = "ret"
    BY <1>7, <1>10
  <2>2. RolesOK(call', fil, now.dir, cut)
    BY <1>1, <2>1 DEF RolesOK
  <2>3. HeldOK(call', fil, now.fat, Heads) /\ LinksOK(call', now.fat)
    BY <1>10, <2>1 DEF HeldOK, LinksOK
  <2> QED
    BY <1>1, <2>1, <2>2, <2>3, StartSound
<1>11. CASE f.fptr # 0 /\ call' = Creating(b, f.clust)
  <2>1. call'.op = "write" /\ call'.e = e /\ call'.pc = "follow" /\ f.sclust # 0
    BY <1>3, <1>8, <1>11, ClstFacts
  <2>2. RolesOK(call', fil, now.dir, cut)
    BY <1>1, <2>1 DEF RolesOK
  <2>3. HeldOK(call', fil, now.fat, Heads) /\ LinksOK(call', now.fat)
    BY <2>1 DEF HeldOK, LinksOK
  <2> QED
    BY <1>1, <2>1, <2>2, <2>3, StartSound
<1> QED
  BY <1>1, <1>9, <1>10, <1>11

\* The object of a call goes on with its chain, or with the new one it has got.
LEMMA ObjectGrows ==
  ASSUME IInv, OInv, UNCHANGED <<now, disk, cut, hurt>>,
         NEW e \in Entry, NEW g, fil' = [fil EXCEPT ![e] = g],
         fil[e].open, g.open, fil[e].modified => g.modified,
         g.sclust = fil[e].sclust
           \/ (fil[e].sclust = 0 /\ (~hurt => Fresh(now.fat, Heads, g.sclust))),
         call.op # "truncate", call'.op # "truncate",
         call'.pc \in {"none", "follow", "scan"}, call'.pc = "scan" => call'.clst = 0,
         RolesOK(call', fil', now.dir, cut)
  PROVE  OInv'
<1>1. now.dir[e].kind = "file"
      /\ (e \notin cut \/ ~g.modified => now.dir[e].clst \in {0, g.sclust})
  BY DEF OInv, Agree, EntriesAgree
<1>2. Heads[e] = fil[e].sclust
  BY HeadIs DEF HeadOf
<1>3. g.sclust \in {0, Heads[e]} \/ (~hurt => Fresh(now.fat, Heads, g.sclust))
  BY <1>2
<1> QED
  BY <1>1, <1>3, ObjectSound

LEMMA ErrIs == ASSUME NEW f \in File
               PROVE  LET g == [f EXCEPT !.err = TRUE] IN
                      g.open = f.open /\ g.sclust = f.sclust /\ (f.modified => g.modified)
  BY DEF File

LEMMA GotIs ==
  ASSUME NEW f, FileOK(f), NEW c \in Clst
  PROVE  LET g == [f EXCEPT !.clust = c, !.sclust = IF @ = 0 THEN c ELSE @] IN
         /\ FileOK(g) /\ g \in File /\ g.open = f.open /\ (f.modified => g.modified)
         /\ g.sclust = IF f.sclust = 0 THEN c ELSE f.sclust
<1> DEFINE s == IF f.sclust = 0 THEN c ELSE f.sclust
           g == [f EXCEPT !.clust = c, !.sclust = s]
<1>1. f \in File
  BY DEF FileOK
<1>2. [f EXCEPT !.clust = c, !.sclust = IF @ = 0 THEN c ELSE @] = g
  OBVIOUS
<1>3. FileOK(g) /\ g \in File
  BY <1>2, GotClusterOK DEF FileOK
<1> HIDE DEF s
<1>4. g.open = f.open /\ (f.modified => g.modified) /\ g.sclust = s
  BY <1>1 DEF File
<1> HIDE DEF g
<1> QED
  BY <1>2, <1>3, <1>4 DEF s

LEMMA WrittenIs ==
  ASSUME NEW g \in File, NEW p \in 0 .. MaxSize, p < MaxSize, g.fptr = p
  PROVE  LET w == [g EXCEPT !.fptr = @ + 1, !.modified = TRUE,
                            !.size = IF p + 1 > @ THEN p + 1 ELSE @] IN
         w.open = g.open /\ w.sclust = g.sclust /\ w.modified
<1> DEFINE n == g.fptr + 1
           z == IF p + 1 > g.size THEN p + 1 ELSE g.size
<1>1. n \in 0 .. MaxSize /\ z \in 0 .. MaxSize
  BY MaxSizeAssumption DEF File
<1> HIDE DEF n, z
<1> DEFINE g1 == [g EXCEPT !.fptr = n]
           g2 == [g1 EXCEPT !.modified = TRUE]
           g3 == [g2 EXCEPT !.size = z]
<1>2. g1 \in File /\ g1.open = g.open /\ g1.sclust = g.sclust
  BY <1>1 DEF File
<1> HIDE DEF g1
<1>3. g2 \in File /\ g2.open = g.open /\ g2.sclust = g.sclust /\ g2.modified
  BY <1>2 DEF File
<1> HIDE DEF g2
<1>4. g3.open = g.open /\ g3.sclust = g.sclust /\ g3.modified
  BY <1>1, <1>3 DEF File
<1>5. [g EXCEPT !.fptr = @ + 1, !.modified = TRUE,
                !.size = IF p + 1 > @ THEN p + 1 ELSE @] = g3
  BY DEF g1, g2, n, z
<1> HIDE DEF g3
<1> QED
  BY <1>4, <1>5

LEMMA WriteChainedOwns == ASSUME IInv, OInv, NEW ok \in BOOLEAN, write_chained(ok) PROVE OInv'
<1> DEFINE e == call.e
           f == fil[e]
           g == [f EXCEPT !.clust = call.ret, !.sclust = IF @ = 0 THEN call.ret ELSE @]
<1>1. call.pc = "ret" /\ call.op = "write" /\ UNCHANGED <<now, disk, cut, hurt>>
  BY DEF write_chained
<1>2. e \in Entry /\ f.open /\ FileOK(f) /\ f \in File /\ f.fptr < MaxSize
      /\ f.fptr \in 0 .. MaxSize
  <2>1. e \in Entry /\ f.open /\ f.fptr < MaxSize
    BY <1>1 DEF IInv, CallOK, StageOK, TiedOK, OInv, Agree, RolesOK
  <2>2. FileOK(f)
    BY <2>1 DEF IInv, FilesOK
  <2> QED
    BY <2>1, <2>2 DEF FileOK, File
<1>3. ASSUME ~hurt, call.ret \in Clst, f.sclust = 0
      PROVE  Fresh(now.fat, Heads, call.ret)
  BY <1>1, <1>3 DEF OInv, Sound, HeldOK
<1>4. call' = Idle
  BY DEF write_chained, Abort, Finish
<1>5. RolesOK(call', fil', now.dir, cut) /\ call'.pc = "none" /\ call'.op # "truncate"
  BY <1>4, IdleAgrees, IdleIs
<1>6. CASE call.ret = 0
  <2> DEFINE w == [f EXCEPT !.modified = TRUE]
  <2>1. fil' = [fil EXCEPT ![e] = w]
    BY <1>6 DEF write_chained, UpdateFil
  <2>2. w.open = f.open /\ w.sclust = f.sclust /\ w.modified
    BY <1>2 DEF File
  <2> HIDE DEF w
  <2> QED
    BY <1>1, <1>2, <1>5, <2>1, <2>2, ObjectGrows
<1>7. CASE call.ret # 0 /\ Failed(call.ret)
  <2> DEFINE w == [f EXCEPT !.err = TRUE]
  <2>1. fil' = [fil EXCEPT ![e] = w]
    BY <1>7 DEF write_chained, Abort, UpdateFil
  <2>2. w.open = f.open /\ w.sclust = f.sclust /\ (f.modified => w.modified)
    BY <1>2, ErrIs
  <2> HIDE DEF w
  <2> QED
    BY <1>1, <1>2, <1>5, <2>1, <2>2, ObjectGrows
<1>8. CASE call.ret # 0 /\ ~Failed(call.ret)
  <2>1. call.ret \in Clst
    BY <1>8 DEF Failed
  <2>2. /\ FileOK(g) /\ g \in File /\ g.open = f.open /\ (f.modified => g.modified)
        /\ g.sclust = IF f.sclust = 0 THEN call.ret ELSE f.sclust
    BY <1>2, <2>1, GotIs
  <2>3. g.fptr = f.fptr
    BY <1>2, <2>1, GotClusterOK
  <2>4. g.sclust = f.sclust
        \/ (f.sclust = 0 /\ (~hurt => Fresh(now.fat, Heads, g.sclust)))
    BY <1>3, <2>1, <2>2
  <2> DEFINE a == [g EXCEPT !.err = TRUE]
             w == [g EXCEPT !.fptr = @ + 1, !.modified = TRUE,
                            !.size = IF f.fptr + 1 > @ THEN f.fptr + 1 ELSE @]
  <2>5. fil' = [fil EXCEPT ![e] = a] \/ fil' = [fil EXCEPT ![e] = w]
    BY <1>8 DEF write_chained, Abort, UpdateFil
  <2> HIDE DEF g
  <2>6. a.open = g.open /\ a.sclust = g.sclust /\ (g.modified => a.modified)
    BY <2>2, ErrIs
  <2>7. w.open = g.open /\ w.sclust = g.sclust /\ w.modified
    BY <1>2, <2>2, <2>3, WrittenIs
  <2> HIDE DEF a, w
  <2>8. CASE fil' = [fil EXCEPT ![e] = a]
    BY <1>1, <1>2, <1>5, <2>2, <2>4, <2>6, <2>8, ObjectGrows
  <2>9. CASE fil' = [fil EXCEPT ![e] = w]
    BY <1>1, <1>2, <1>5, <2>2, <2>4, <2>7, <2>9, ObjectGrows
  <2> QED
    BY <2>5, <2>8, <2>9
<1> QED
  BY <1>6, <1>7, <1>8

----------------------------------------------------------------------------
(* f_lseek and f_truncate.                                                 *)

LEMMA PtrIs == ASSUME NEW f \in File, NEW n \in 0 .. MaxSize
               PROVE  LET g == [f EXCEPT !.fptr = n] IN
                      /\ g \in File /\ g.open = f.open /\ g.sclust = f.sclust
                      /\ g.clust = f.clust /\ g.fptr = n /\ (f.modified => g.modified)
  BY DEF File

LEMMA SoughtIs ==
  ASSUME NEW f \in File, NEW n \in 0 .. MaxSize
  PROVE  LET g == Sought(f, n) IN
         g.open = f.open /\ g.sclust = f.sclust /\ (f.modified => g.modified)
<1> DEFINE z == IF n > f.size THEN n ELSE f.size
           m == f.modified \/ n > f.size
           c == IF n = 0 THEN 0 ELSE f.clust
           f1 == [f EXCEPT !.fptr = n]
           f2 == [f1 EXCEPT !.size = z]
           f3 == [f2 EXCEPT !.modified = m]
           f4 == [f3 EXCEPT !.clust = c]
<1>1. Sought(f, n) = f4
  BY Zenon DEF Sought
<1>2. z \in 0 .. MaxSize /\ c \in {0} \cup Clst
  BY DEF File
<1>3. m \in BOOLEAN /\ (f.modified => m)
  BY DEF File
<1> HIDE DEF z, m, c
<1>4. f1 \in File /\ f1.open = f.open /\ f1.sclust = f.sclust
  BY DEF File
<1> HIDE DEF f1
<1>5. f2 \in File /\ f2.open = f.open /\ f2.sclust = f.sclust
  BY <1>2, <1>4 DEF File
<1> HIDE DEF f2
<1>6. f3 \in File /\ f3.open = f.open /\ f3.sclust = f.sclust /\ (m => f3.modified)
  BY <1>3, <1>5 DEF File
<1> HIDE DEF f3
<1>7. f4.open = f.open /\ f4.sclust = f.sclust /\ (m => f4.modified)
  BY <1>2, <1>6 DEF File
<1> HIDE DEF f4
<1> QED
  BY <1>1, <1>3, <1>7

LEMMA SeekOwns ==
  ASSUME IInv, OInv, UNCHANGED <<now, disk, cut, hurt>>,
         NEW k \in CallRec, StageOK(k), k.op = "lseek", k.e \in Entry,
         NEW g, FileOK(g), g.fptr + k.rem <= MaxSize,
         k.rem > 0 => g.sclust \in Clst /\ g.clust \in Clst,
         fil[k.e].open, g.open, fil[k.e].modified => g.modified,
         g.sclust = fil[k.e].sclust
           \/ (fil[k.e].sclust = 0 /\ (~hurt => Fresh(now.fat, Heads, g.sclust))),
         call.op # "truncate", Seek(k, g)
  PROVE  OInv'
<1>1. g \in File /\ g.fptr \in 0 .. MaxSize /\ k.rem \in Nat /\ MaxSize \in Nat
  BY MaxSizeAssumption DEF FileOK, File, CallRec
<1>2. FilesOK /\ CountsOK /\ fil \in [Entry -> File]
  BY DEF IInv, FilesOK
<1>3. CASE k.rem > 1
  <2> DEFINE w == [g EXCEPT !.fptr = g.fptr + 1]
  <2>1. fil' = [fil EXCEPT ![k.e] = w]
    BY <1>3 DEF Seek
  <2>2. g.fptr + 1 \in 0 .. MaxSize /\ g.clust # 0 /\ g.sclust \in Clst
    BY <1>1, <1>3, ClstFacts
  <2>3. w.open = g.open /\ w.sclust = g.sclust /\ (g.modified => w.modified)
    BY <1>1, <2>2, PtrIs
  <2> HIDE DEF w
  <2>4. call'.op = "lseek" /\ call'.e = k.e /\ call'.pc = "follow"
    BY <1>2, <1>3, <2>2, SeekOK
  <2>5. fil'[k.e] = w
    BY <1>2, <2>1
  <2>6. RolesOK(call', fil', now.dir, cut)
    BY <2>2, <2>3, <2>4, <2>5, ClstFacts DEF RolesOK
  <2> QED
    BY <2>1, <2>3, <2>4, <2>6, ObjectGrows
<1>4. CASE ~(k.rem > 1)
  <2> DEFINE n == g.fptr + k.rem
             w == Sought(g, n)
  <2>1. fil' = [fil EXCEPT ![k.e] = w] /\ call' = Idle
    BY <1>4 DEF Seek, Finish
  <2>2. n \in 0 .. MaxSize
    BY <1>1
  <2> HIDE DEF n
  <2>3. w.open = g.open /\ w.sclust = g.sclust /\ (g.modified => w.modified)
    BY <1>1, <2>2, SoughtIs
  <2> HIDE DEF w
  <2>4. RolesOK(call', fil', now.dir, cut)
    BY <2>1, IdleAgrees
  <2> QED
    BY <2>1, <2>3, <2>4, IdleIs, ObjectGrows
<1> QED
  BY <1>3, <1>4

LEMMA LseekOwns == ASSUME IInv, OInv, NEW e \in Entry, NEW ofs \in 0 .. MaxSize, f_lseek(e, ofs)
                   PROVE  OInv'
<1> DEFINE f == fil[e]
           b == Begin("lseek", e)
           k == [b EXCEPT !.rem = ofs]
<1>1. call = Idle /\ f.open /\ UNCHANGED <<now, disk, cut, hurt>>
  BY DEF f_lseek, Usable
<1>2. /\ FileOK(f) /\ f \in File /\ f.fptr \in 0 .. MaxSize /\ ofs \in Nat /\ MaxSize \in Nat
      /\ f.sclust \in {0} \cup Clst /\ CountsOK /\ fil \in [Entry -> File]
  BY MaxSizeAssumption DEF IInv, FilesOK, FileOK, File
<1>3. b = [op |-> "lseek", pc |-> "none", e |-> e, clst |-> 0, pclst |-> 0,
           ncl |-> 0, scl |-> 0, ret |-> 0, cl |-> 0, rem |-> 0]
  BY BeginIs
<1> DEFINE kk(n) == [op |-> "lseek", pc |-> "none", e |-> e, clst |-> 0, pclst |-> 0,
                     ncl |-> 0, scl |-> 0, ret |-> 0, cl |-> 0, rem |-> n]
<1>4. k = kk(ofs)
  BY <1>3
<1>5. \A n \in Nat : kk(n) \in CallRec /\ StageOK(kk(n)) /\ kk(n).op = "lseek"
                     /\ kk(n).e = e /\ kk(n).rem = n /\ kk(n).clst = 0
  <2> TAKE n \in Nat
  <2>1. kk(n) \in CallRec
    BY NFatEntAssumption DEF CallRec, Op, Pc
  <2> QED
    BY <2>1 DEF StageOK
<1> HIDE DEF b, k
<1>6. \A n : [k EXCEPT !.rem = n] = kk(n)
  BY <1>4
<1> HIDE DEF kk
<1>7. call.op # "truncate" /\ k \in CallRec /\ StageOK(k) /\ k.op = "lseek" /\ k.e = e
      /\ k.rem = ofs
  BY <1>1, <1>2, <1>4, <1>5, IdleIs
<1>8. CASE ofs = 0
  <2> DEFINE g == [f EXCEPT !.fptr = 0]
  <2>1. Seek(k, g)
    BY <1>8 DEF f_lseek, b, k
  <2>2. /\ g \in File /\ g.fptr = 0 /\ g.open = f.open /\ g.sclust = f.sclust
        /\ (f.modified => g.modified)
    BY <1>2, PtrIs
  <2> HIDE DEF g
  <2>3. FileOK(g)
    BY <2>2 DEF FileOK
  <2>4. g.fptr + k.rem <= MaxSize /\ ~(k.rem > 0)
    BY <1>2, <1>7, <1>8, <2>2
  <2>5. fil[k.e].open /\ g.open /\ g.sclust = fil[k.e].sclust
        /\ (fil[k.e].modified => g.modified) /\ k.e \in Entry
    BY <1>1, <1>7, <2>2
  <2> QED
    BY <1>1, <1>7, <2>1, <2>3, <2>4, <2>5, SeekOwns
<1>9. CASE ofs # 0 /\ FromCurrent(f, ofs)
  <2> DEFINE g == [f EXCEPT !.fptr = f.fptr - 1]
             n == ofs - (f.fptr - 1)
  <2>1. Seek(kk(n), g)
    <3>1. Seek([k EXCEPT !.rem = n], g)
      BY <1>9 DEF f_lseek, b, k
    <3> QED
      BY <3>1, <1>6
  <2>2. f.fptr > 0 /\ ofs >= f.fptr
    BY <1>9 DEF FromCurrent
  <2>3. f.fptr - 1 \in 0 .. MaxSize /\ n \in Nat /\ f.fptr - 1 + n <= MaxSize
    BY <1>2, <2>2
  <2>4. /\ g \in File /\ g.fptr = f.fptr - 1 /\ g.open = f.open /\ g.sclust = f.sclust
        /\ g.clust = f.clust /\ (f.modified => g.modified)
    BY <1>2, <2>3, PtrIs
  <2>5. f.sclust \in Clst /\ f.clust \in Clst
    BY <1>2, <2>2 DEF FileOK
  <2> HIDE DEF g, n
  <2>6. FileOK(g)
    BY <2>4, <2>5 DEF FileOK
  <2> QED
    BY <1>1, <1>5, <1>7, <2>1, <2>3, <2>4, <2>5, <2>6, SeekOwns
<1>10. CASE ofs # 0 /\ ~FromCurrent(f, ofs) /\ f.sclust = 0
  <2> DEFINE g == [f EXCEPT !.fptr = 0, !.clust = 0]
             h == Creating(k, 0)
  <2>1. fil' = [fil EXCEPT ![e].fptr = 0, ![e].clust = 0] /\ call' = h
    BY <1>10 DEF f_lseek, b, k
  <2>2. fil' = [fil EXCEPT ![e] = g]
    BY <1>2, <2>1
  <2>3. 0 \in 0 .. MaxSize /\ 0 \in {0} \cup Clst
    BY MaxSizeAssumption
  <2>4. g.open = f.open /\ g.sclust = f.sclust /\ (f.modified => g.modified)
    <3> HIDE DEF f
    <3> QED
      BY <1>2, <2>3 DEF File
  <2> HIDE DEF g
  <2>5. k \in CallRec /\ StageOK(k) /\ k.op = "lseek" /\ k.e = e /\ k.clst = 0
    BY <1>2, <1>4, <1>5
  <2>6. h.op = "lseek" /\ h.e = e /\ h.pc = "scan" /\ h.clst = 0
    BY <1>2, <2>3, <2>5, CreatingOK DEF SameCall
  <2> HIDE DEF h
  <2>7. fil'[e] = g
    BY <1>2, <2>2
  <2>8. RolesOK(call', fil', now.dir, cut)
    BY <1>1, <2>1, <2>4, <2>6, <2>7 DEF RolesOK
  <2> QED
    BY <1>1, <1>7, <2>1, <2>2, <2>4, <2>6, <2>8, ObjectGrows
<1>11. CASE ofs # 0 /\ ~FromCurrent(f, ofs) /\ f.sclust # 0
  <2> DEFINE g == [f EXCEPT !.fptr = 0, !.clust = f.sclust]
  <2>1. Seek(k, g)
    BY <1>11 DEF f_lseek, b, k
  <2>2. f.sclust \in Clst /\ 0 \in 0 .. MaxSize
    BY <1>2, <1>11
  <2>3. /\ g \in File /\ g.fptr = 0 /\ g.clust = f.sclust /\ g.sclust = f.sclust
        /\ g.open = f.open /\ (f.modified => g.modified)
    <3> HIDE DEF f
    <3> QED
      BY <1>2, <2>2 DEF File
  <2> HIDE DEF g
  <2>4. FileOK(g)
    BY <2>3 DEF FileOK
  <2>5. g.fptr + k.rem <= MaxSize
    BY <1>2, <1>7, <2>3
  <2> QED
    BY <1>1, <1>7, <2>1, <2>2, <2>3, <2>4, <2>5, SeekOwns
<1> QED
  BY <1>8, <1>9, <1>10, <1>11

LEMMA LseekChainedOwns == ASSUME IInv, OInv, lseek_chained PROVE OInv'
<1> DEFINE e == call.e
           f == fil[e]
           g == [f EXCEPT !.clust = call.ret, !.sclust = IF @ = 0 THEN call.ret ELSE @]
<1>1. call.pc = "ret" /\ call.op = "lseek" /\ UNCHANGED <<now, disk, cut, hurt>>
  BY DEF lseek_chained
<1>2. /\ e \in Entry /\ f.open /\ FileOK(f) /\ f \in File /\ call.rem > 0
      /\ f.fptr + call.rem <= MaxSize /\ call \in CallRec /\ StageOK(call)
  <2>1. e \in Entry /\ f.open /\ call.rem > 0 /\ f.fptr + call.rem <= MaxSize
        /\ call \in CallRec /\ StageOK(call)
    BY <1>1 DEF IInv, CallOK, StageOK, TiedOK, OInv, Agree, RolesOK
  <2>2. FileOK(f)
    BY <2>1 DEF IInv, FilesOK
  <2> QED
    BY <2>1, <2>2 DEF FileOK
<1>3. f.fptr \in 0 .. MaxSize
  BY <1>2 DEF File
<1>4. CASE call.ret = 0
  <2> DEFINE w == IF f.sclust = 0 THEN g ELSE f
             z == Sought(w, f.fptr)
  <2>1. fil' = [fil EXCEPT ![e] = z] /\ call' = Idle
    BY <1>4 DEF lseek_chained, UpdateFil, Finish
  <2>2. w \in File /\ w.open = f.open /\ w.sclust = f.sclust /\ (f.modified => w.modified)
    <3>1. CASE f.sclust = 0
      <4> DEFINE g0 == [f EXCEPT !.clust = 0, !.sclust = 0]
      <4>1. g = g0 /\ w = g
        BY <1>4, <3>1
      <4>2. g0 \in File /\ g0.open = f.open /\ g0.sclust = 0 /\ (f.modified => g0.modified)
        BY <1>2 DEF File
      <4> HIDE DEF g0, w, g
      <4> QED
        BY <3>1, <4>1, <4>2
    <3>2. CASE f.sclust # 0
      <4>1. w = f
        BY <3>2
      <4> QED
        BY <1>2, <4>1
    <3> QED
      BY <3>1, <3>2
  <2> HIDE DEF w
  <2>3. z.open = w.open /\ z.sclust = w.sclust /\ (w.modified => z.modified)
    BY <1>3, <2>2, SoughtIs
  <2>4. RolesOK(call', fil', now.dir, cut)
    BY <2>1, IdleAgrees
  <2> HIDE DEF z
  <2> QED
    BY <1>1, <1>2, <2>1, <2>2, <2>3, <2>4, IdleIs, ObjectGrows
<1>5. CASE call.ret # 0 /\ Failed(call.ret)
  <2> DEFINE w == [f EXCEPT !.err = TRUE]
  <2>1. fil' = [fil EXCEPT ![e] = w] /\ call' = Idle
    BY <1>5 DEF lseek_chained, Abort, UpdateFil, Finish
  <2>2. w.open = f.open /\ w.sclust = f.sclust /\ (f.modified => w.modified)
    BY <1>2, ErrIs
  <2>3. RolesOK(call', fil', now.dir, cut)
    BY <2>1, IdleAgrees
  <2> HIDE DEF w
  <2> QED
    BY <1>1, <1>2, <2>1, <2>2, <2>3, IdleIs, ObjectGrows
<1>6. CASE call.ret # 0 /\ ~Failed(call.ret)
  <2>1. call.ret \in Clst /\ Seek(call, g)
    BY <1>6 DEF lseek_chained, Failed
  <2>2. /\ FileOK(g) /\ g.open = f.open /\ (f.modified => g.modified)
        /\ g.sclust = IF f.sclust = 0 THEN call.ret ELSE f.sclust
    BY <1>2, <2>1, GotIs
  <2>3. g.fptr = f.fptr /\ g.sclust \in Clst /\ g.clust \in Clst
    <3>1. FileOK(f) /\ call.ret \in Clst
      BY <1>2, <2>1
    <3> QED
      BY <3>1, GotClusterOK
  <2>4. ASSUME ~hurt, f.sclust = 0 PROVE Fresh(now.fat, Heads, call.ret)
    BY <1>1, <2>1, <2>4 DEF OInv, Sound, HeldOK
  <2>5. g.sclust = f.sclust
        \/ (f.sclust = 0 /\ (~hurt => Fresh(now.fat, Heads, g.sclust)))
    BY <2>2, <2>4
  <2> HIDE DEF g
  <2> QED
    BY <1>1, <1>2, <2>1, <2>2, <2>3, <2>5, SeekOwns
<1> QED
  BY <1>4, <1>5, <1>6

LEMMA TruncateOwns == ASSUME IInv, OInv, NEW e \in Entry, f_truncate(e) PROVE OInv'
<1> DEFINE f == fil[e]
           k == Begin("truncate", e)
           h == Removing(k, f.sclust, 0)
           t == [k EXCEPT !.pc = "next"]
<1>1. /\ call = Idle /\ f.open /\ UNCHANGED <<now, disk, fil, hurt>>
      /\ \/ f.fptr = 0 /\ call' = h /\ cut' = cut \cup {e}
         \/ f.fptr # 0 /\ call' = t /\ cut' = cut \cup {e}
         \/ call' = Idle /\ UNCHANGED cut
  BY DEF f_truncate, Usable, Finish
<1>2. k \in CallRec /\ StageOK(k) /\ k.op = "truncate" /\ k.e = e
  <2>1. "truncate" \in Op \ {"idle", "create", "getfree"}
    BY DEF Op
  <2> QED
    BY <2>1, BeginOK
<1> HIDE DEF k
<1>3. EntriesAgree' /\ cut \subseteq cut'
  BY <1>1 DEF OInv, Agree, EntriesAgree
<1>4. CASE f.fptr = 0 /\ call' = h /\ cut' = cut \cup {e}
  <2>1. 0 \in {0} \cup Clst
    OBVIOUS
  <2>2. /\ h.op = "truncate" /\ h.e = e /\ h.pc \in {"ret", "free"}
        /\ h.pc = "free" => h.clst = f.sclust /\ f.sclust \in Clst
    BY <1>2, <2>1, RemovingOK DEF SameCall
  <2> HIDE DEF h
  <2>3. RolesOK(call', fil', now'.dir, cut')
    BY <1>1, <1>4, <2>2 DEF RolesOK
  <2>4. Heads[e] = f.sclust /\ Heads'[e] = 0 /\ \A d \in Entry : Heads'[d] \in {0, Heads[d]}
    BY <1>1, <1>4, <2>2, HeadIs, IdleIs DEF HeadOf
  <2>5. ASSUME ~hurt PROVE Sound'
    <3> DEFINE hd == Heads'
    <3>1. Owned(now.fat, Heads) /\ hd[e] = 0 /\ \A d \in Entry : hd[d] \in {0, Heads[d]}
      BY <2>4, <2>5 DEF OInv, Sound
    <3> HIDE DEF hd
    <3>2. Owned(now.fat, hd) /\ (Heads[e] \in Clst => Unowned(now.fat, hd, Heads[e]))
      BY <3>1, DropOwned
    <3>3. HeldOK(h, fil, now.fat, hd) /\ LinksOK(h, now.fat)
      BY <2>2, <2>4, <3>2 DEF HeldOK, LinksOK
    <3> QED
      BY <1>1, <1>4, <3>2, <3>3 DEF Sound, hd
  <2> QED
    BY <1>1, <1>3, <2>3, <2>5, Concluded DEF Agree
<1>5. CASE f.fptr # 0 /\ call' = t /\ cut' = cut \cup {e}
  <2>1. t.op = "truncate" /\ t.e = e /\ t.pc = "next"
    BY <1>2 DEF CallRec
  <2> HIDE DEF t
  <2>2. RolesOK(call', fil', now'.dir, cut')
    BY <1>1, <1>5, <2>1 DEF RolesOK
  <2>3. Heads' = Heads
    BY <1>1, <1>5, <2>1, IdleIs DEF Heads, HeadOf
  <2>4. HeldOK(call', fil', now.fat, Heads) /\ LinksOK(call', now.fat)
    BY <1>5, <2>1 DEF HeldOK, LinksOK
  <2>5. ~hurt => Sound'
    BY <1>1, <2>3, <2>4 DEF OInv, Sound
  <2> QED
    BY <1>1, <1>3, <2>2, <2>5, Concluded DEF Agree
<1>6. CASE call' = Idle /\ UNCHANGED cut
  BY <1>1, <1>6, IdleIs, FinishSound
<1> QED
  BY <1>1, <1>4, <1>5, <1>6

LEMMA TruncateNextOwns == ASSUME IInv, OInv, truncate_next PROVE OInv'
<1> DEFINE c == fil[call.e].clust
           h == Removing(call, now.fat[c], c)
<1>1. /\ call.pc = "next" /\ UNCHANGED <<now, fil, cut, hurt>> /\ disk' \in {disk, Synced}
      /\ Return(0) \/ call' = h
  BY ReadDisk DEF truncate_next
<1>2. /\ call.op = "truncate" /\ c \in Clst /\ call \in CallRec /\ StageOK(call)
      /\ RolesOK(call, fil, now.dir, cut)
  BY <1>1 DEF OInv, Agree, RolesOK, IInv, CallOK, TiedOK
<1>3. CASE Return(0)
  <2>1. 0 \notin Clst /\ 0 \in 0 .. NFatEnt + 1
    BY ClstFacts
  <2> QED
    BY <1>1, <1>2, <1>3, <2>1, ReturnSound
<1>4. CASE call' = h
  <2>1. c \in {0} \cup Clst /\ c # 0
    BY <1>2, ClstFacts
  <2> HIDE DEF c
  <2>2. /\ h.op = "truncate" /\ h.e = call.e /\ h.pc \in {"ret", "cut"}
        /\ h.pc = "cut" => h.clst = now.fat[c] /\ h.pclst = c
    BY <1>2, <2>1, RemovingOK DEF SameCall
  <2> HIDE DEF h
  <2>3. RolesOK(h, fil, now.dir, cut)
    BY <1>2, <2>2 DEF RolesOK
  <2>4. HeldOK(h, fil, now.fat, Heads) /\ LinksOK(h, now.fat)
    BY <2>2 DEF HeldOK, LinksOK
  <2> QED
    BY <1>1, <1>2, <1>4, <2>2, <2>3, <2>4, StepSound
<1> QED
  BY <1>1, <1>3, <1>4

LEMMA ShortenedIs ==
  ASSUME NEW f, FileOK(f)
  PROVE  LET g == Shortened(f) IN
         /\ g.open = f.open /\ g.modified
         /\ g.sclust = IF f.fptr = 0 THEN 0 ELSE f.sclust
<1> DEFINE s == IF f.fptr = 0 THEN 0 ELSE f.sclust
           f1 == [f EXCEPT !.sclust = s]
           f2 == [f1 EXCEPT !.size = f.fptr]
           f3 == [f2 EXCEPT !.modified = TRUE]
<1>1. f \in File /\ f.fptr \in 0 .. MaxSize /\ s \in {0} \cup Clst
  BY DEF FileOK, File
<1>2. Shortened(f) = f3
  BY Zenon DEF Shortened
<1> HIDE DEF s
<1>3. f1 \in File /\ f1.open = f.open /\ f1.sclust = s
  BY <1>1 DEF File
<1> HIDE DEF f1
<1>4. f2 \in File /\ f2.open = f.open /\ f2.sclust = s
  BY <1>1, <1>3 DEF File
<1> HIDE DEF f2
<1>5. f3.open = f.open /\ f3.sclust = s /\ f3.modified
  BY <1>4 DEF File
<1> HIDE DEF f3
<1> QED
  BY <1>2, <1>5 DEF s

LEMMA TruncateRemovedOwns == ASSUME IInv, OInv, truncate_removed PROVE OInv'
<1> DEFINE e == call.e
           f == fil[e]
           g == Shortened(f)
           a == [g EXCEPT !.err = TRUE]
<1>1. /\ call.op = "truncate" /\ call' = Idle /\ UNCHANGED <<now, disk, cut, hurt>>
      /\ fil' = [fil EXCEPT ![e] = g] \/ fil' = [fil EXCEPT ![e] = a]
  BY DEF truncate_removed, Abort, UpdateFil, Finish
<1>2. /\ e \in Entry /\ f.open /\ e \in cut /\ now.dir[e].kind = "file"
  <2>1. e \in Entry /\ f.open /\ e \in cut
    BY <1>1 DEF IInv, CallOK, StageOK, OInv, Agree, RolesOK
  <2> QED
    BY <2>1 DEF OInv, Agree, EntriesAgree
<1>3. FileOK(f)
  BY <1>2 DEF IInv, FilesOK
<1>4. g.open /\ g.modified /\ g.sclust = (IF f.fptr = 0 THEN 0 ELSE f.sclust) /\ g \in File
  BY <1>2, <1>3, ShortenedIs, ShortenedOK DEF FileOK
<1> HIDE DEF g
<1>5. a.open /\ a.modified /\ a.sclust = g.sclust
  BY <1>4, ErrIs
<1>6. g.sclust \in {0, Heads[e]}
  BY <1>1, <1>2, <1>4, HeadIs DEF HeadOf
<1>7. RolesOK(call', fil', now.dir, cut)
  BY <1>1, IdleAgrees
<1> HIDE DEF a
<1>8. CASE fil' = [fil EXCEPT ![e] = g]
  BY <1>1, <1>2, <1>4, <1>6, <1>7, <1>8, IdleIs, ObjectSound
<1>9. CASE fil' = [fil EXCEPT ![e] = a]
  BY <1>1, <1>2, <1>5, <1>6, <1>7, <1>9, IdleIs, ObjectSound
<1> QED
  BY <1>1, <1>8, <1>9

----------------------------------------------------------------------------
(* f_unlink and f_mkdir.                                                   *)

LEMMA UnlinkOwns ==
  ASSUME IInv, OInv, disk' \in {disk, Synced}, NEW k \in CallRec, StageOK(k), k.op = "unlink",
         k.e \in Entry, ~fil[k.e].open, call.op # "truncate",
         Unlink(k), UNCHANGED <<fil, cut, hurt>>
  PROVE  OInv'
<1> DEFINE e == k.e
           c == now.dir[e].clst
           h == Removing(k, c, 0)
           s == [k EXCEPT !.pc = "sync"]
<1>1. /\ PutDir(e, NoEnt)
      /\ \/ c = 0 /\ call' = s
         \/ c # 0 /\ call' = h
  BY DEF Unlink
<1>2. NoEnt.clst = 0
  BY DEF NoEnt
<1>3. Heads[e] = c /\ c \in {0} \cup Clst
  <2>1. now.dir[e] \in Ent
    BY EntTyped DEF IInv
  <2> QED
    BY <2>1, HeadIs DEF HeadOf, Ent
<1>4. CASE c = 0 /\ call' = s
  <2>1. s.op = "unlink" /\ s.e = e /\ s.pc = "sync"
    BY DEF CallRec
  <2> HIDE DEF s
  <2>2. RolesOK(call', fil', now'.dir, cut)
    BY <1>4, <2>1 DEF RolesOK
  <2> QED
    BY <1>1, <1>2, <1>4, <2>1, <2>2, DirSound
<1>5. CASE c # 0 /\ call' = h
  <2>1. 0 \in {0} \cup Clst /\ c \in Clst
    BY <1>3, <1>5
  <2> HIDE DEF c
  <2>2. h.op = "unlink" /\ h.e = e /\ h.pc = "free" /\ h.clst = c
    BY <2>1, RemovingOK DEF SameCall
  <2> HIDE DEF h
  <2>3. RolesOK(call', fil', now'.dir, cut)
    BY <1>5, <2>2 DEF RolesOK
  <2> QED
    BY <1>1, <1>2, <1>3, <1>5, <2>1, <2>2, <2>3, DirSound
<1> QED
  BY <1>1, <1>4, <1>5

\* A call begins at a stage that holds no cluster and follows no link.
LEMMA StartFree ==
  ASSUME IInv, OInv, disk' \in {disk, Synced}, UNCHANGED <<now, fil, cut, hurt>>,
         call = Idle, call'.op \in {"unlink", "mkdir", "getfree"},
         call'.op # "getfree" => ~fil[call'.e].open,
         \/ call'.pc \in {"look", "count"}
         \/ call'.pc = "scan" /\ call'.clst = 0 /\ call'.op = "mkdir"
  PROVE  OInv'
<1>1. RolesOK(call', fil, now.dir, cut)
  BY DEF RolesOK
<1>2. HeldOK(call', fil, now.fat, Heads) /\ LinksOK(call', now.fat)
  BY DEF HeldOK, LinksOK
<1> QED
  BY <1>1, <1>2, StartSound

LEMMA FileUnlinkOwns == ASSUME IInv, OInv, NEW e \in Entry, f_unlink(e) PROVE OInv'
<1> DEFINE b == Begin("unlink", e)
           h == [b EXCEPT !.pc = "look"]
<1>1. /\ call = Idle /\ ~fil[e].open /\ UNCHANGED <<fil, cut, hurt>>
      /\ disk' \in {disk, Synced}
      /\ \/ Unlink(b)
         \/ UNCHANGED now /\ call' = Idle
         \/ UNCHANGED now /\ call' = h
  <2>1. disk' \in {disk, Synced}
    BY ReadDisk DEF f_unlink, Unlink
  <2> QED
    BY <2>1 DEF f_unlink
<1>2. CASE Unlink(b)
  <2>1. b \in CallRec /\ StageOK(b) /\ b.op = "unlink" /\ b.e = e
    <3>1. "unlink" \in Op \ {"idle", "create", "getfree"}
      BY DEF Op
    <3> QED
      BY <3>1, BeginOK
  <2> HIDE DEF b
  <2> QED
    BY <1>1, <1>2, <2>1, IdleIs, UnlinkOwns
<1>3. CASE UNCHANGED now /\ call' = Idle
  BY <1>1, <1>3, IdleIs, FinishSound
<1>4. CASE UNCHANGED now /\ call' = h
  <2>1. b = [op |-> "unlink", pc |-> "none", e |-> e, clst |-> 0, pclst |-> 0,
             ncl |-> 0, scl |-> 0, ret |-> 0, cl |-> 0, rem |-> 0]
    BY BeginIs
  <2> HIDE DEF b
  <2>2. h.op = "unlink" /\ h.pc = "look" /\ h.e = e
    BY <2>1
  <2> HIDE DEF h
  <2> QED
    BY <1>1, <1>4, <2>2, StartFree
<1> QED
  BY <1>1, <1>2, <1>3, <1>4

\* The call goes on to a stage that holds no cluster.
LEMMA GotoSound ==
  ASSUME IInv, OInv, disk' \in {disk, Synced}, UNCHANGED <<now, fil, cut, hurt>>,
         call.op \in {"unlink", "mkdir"}, NEW pc \in {"remove", "sync"}, Goto(pc)
  PROVE  OInv'
<1>1. call \in CallRec /\ RolesOK(call, fil, now.dir, cut)
  BY DEF IInv, CallOK, OInv, Agree
<1>2. call'.pc = pc /\ call'.op = call.op /\ call'.e = call.e
  BY <1>1 DEF Goto, CallRec
<1>3. RolesOK(call', fil, now.dir, cut)
  BY <1>1, <1>2 DEF RolesOK
<1>4. HeldOK(call', fil, now.fat, Heads) /\ LinksOK(call', now.fat)
  BY <1>2 DEF HeldOK, LinksOK
<1> QED
  BY <1>2, <1>3, <1>4, StepSound

LEMMA UnlinkLookOwns == ASSUME IInv, OInv, unlink_look PROVE OInv'
<1>1. call.pc = "look" /\ Goto("remove") /\ UNCHANGED <<now, fil, cut, hurt>>
      /\ disk' \in {disk, Synced}
  BY ReadDisk DEF unlink_look
<1>2. call.op = "unlink"
  BY <1>1 DEF IInv, CallOK, StageOK
<1> QED
  BY <1>1, <1>2, GotoSound

LEMMA UnlinkRemoveOwns == ASSUME IInv, OInv, unlink_remove PROVE OInv'
<1>1. call.pc = "remove" /\ Unlink(call) /\ UNCHANGED <<fil, cut, hurt>>
      /\ disk' \in {disk, Synced}
  BY ReadDisk DEF unlink_remove, Unlink
<1>2. call \in CallRec /\ StageOK(call) /\ call.op = "unlink" /\ call.e \in Entry
  BY <1>1 DEF IInv, CallOK, StageOK
<1>3. ~fil[call.e].open
  BY <1>2 DEF OInv, Agree, RolesOK
<1> QED
  BY <1>1, <1>2, <1>3, UnlinkOwns

LEMMA UnlinkRemovedOwns == ASSUME IInv, OInv, unlink_removed PROVE OInv'
<1>1. /\ call.op = "unlink" /\ UNCHANGED <<now, disk, fil, cut, hurt>>
      /\ Goto("sync") \/ call' = Idle
  BY DEF unlink_removed, Finish
<1> QED
  BY <1>1, GotoSound, FinishSound

LEMMA MkdirOwns == ASSUME IInv, OInv, NEW e \in Entry, f_mkdir(e) PROVE OInv'
<1> DEFINE b == Begin("mkdir", e)
           h == Creating(b, 0)
<1>1. /\ call = Idle /\ UNCHANGED <<now, fil, cut, hurt>> /\ disk' \in {disk, Synced}
      /\ \/ now.dir[e].kind = "none" /\ call' = h
         \/ call' = Idle
  BY ReadDisk DEF f_mkdir
<1>2. CASE now.dir[e].kind = "none" /\ call' = h
  <2>1. ~fil[e].open
    BY <1>2 DEF OInv, Agree, EntriesAgree
  <2>2. b \in CallRec /\ StageOK(b) /\ b.op = "mkdir" /\ b.e = e
    <3>1. "mkdir" \in Op \ {"idle", "create", "getfree"}
      BY DEF Op
    <3> QED
      BY <3>1, BeginOK
  <2>3. b.clst = 0
    BY BeginIs
  <2> HIDE DEF b
  <2>4. CountsOK /\ 0 \in {0} \cup Clst
    BY DEF IInv
  <2>5. h.op = "mkdir" /\ h.e = e /\ h.pc = "scan" /\ h.clst = 0
    BY <2>2, <2>3, <2>4, CreatingOK DEF SameCall
  <2> HIDE DEF h
  <2> QED
    BY <1>1, <1>2, <2>1, <2>5, StartFree
<1>3. CASE call' = Idle
  BY <1>1, <1>3, IdleIs, FinishSound
<1> QED
  BY <1>1, <1>2, <1>3

LEMMA MkdirChainedOwns == ASSUME IInv, OInv, mkdir_chained PROVE OInv'
<1> DEFINE h == [call EXCEPT !.pc = "flush", !.ret = 0, !.cl = call.ret]
<1>1. /\ call.pc = "ret" /\ call.op = "mkdir" /\ UNCHANGED <<now, disk, fil, cut, hurt>>
      /\ \/ call' = Idle
         \/ call.cl = 0 /\ call.ret \in Clst /\ call' = h
  BY DEF mkdir_chained, Finish, Failed
<1>2. CASE call' = Idle
  BY <1>1, <1>2, FinishSound
<1>3. CASE call.cl = 0 /\ call.ret \in Clst /\ call' = h
  <2>1. call \in CallRec /\ RolesOK(call, fil, now.dir, cut)
    BY DEF IInv, CallOK, OInv, Agree
  <2>2. h.pc = "flush" /\ h.op = call.op /\ h.e = call.e /\ h.cl = call.ret
    BY <2>1 DEF CallRec
  <2> HIDE DEF h
  <2>3. RolesOK(h, fil, now.dir, cut)
    BY <1>1, <2>1, <2>2 DEF RolesOK
  <2>4. ASSUME ~hurt PROVE HeldOK(h, fil, now.fat, Heads) /\ LinksOK(h, now.fat)
    <3>1. Fresh(now.fat, Heads, call.ret)
      BY <1>1, <1>3, <2>4 DEF OInv, Sound, HeldOK
    <3> QED
      BY <2>2, <3>1 DEF HeldOK, LinksOK
  <2> QED
    BY <1>1, <1>3, <2>2, <2>3, <2>4, StepSound
<1> QED
  BY <1>1, <1>2, <1>3

\* The call keeps the cluster of the new directory.
LEMMA TableStepOwns ==
  ASSUME IInv, OInv, disk' \in {disk, Synced}, UNCHANGED <<now, fil, cut, hurt>>,
         call.pc \in {"flush", "table"}, NEW pc \in {"table", "register"}, Goto(pc)
  PROVE  OInv'
<1>1. call \in CallRec /\ RolesOK(call, fil, now.dir, cut) /\ call.op = "mkdir"
  BY DEF IInv, CallOK, StageOK, OInv, Agree
<1>2. call'.pc = pc /\ call'.op = call.op /\ call'.e = call.e /\ call'.cl = call.cl
  BY <1>1 DEF Goto, CallRec
<1>3. RolesOK(call', fil, now.dir, cut)
  BY <1>1, <1>2 DEF RolesOK
<1>4. ~hurt => HeldOK(call', fil, now.fat, Heads) /\ LinksOK(call', now.fat)
  BY <1>2 DEF HeldOK, LinksOK, OInv, Sound
<1> QED
  BY <1>2, <1>3, <1>4, StepSound

LEMMA MkdirFlushOwns == ASSUME IInv, OInv, mkdir_flush PROVE OInv'
<1>1. call.pc = "flush" /\ disk' = Synced /\ Goto("table") /\ UNCHANGED <<now, fil, cut, hurt>>
  BY DEF mkdir_flush
<1> QED
  BY <1>1, TableStepOwns

LEMMA MkdirTableOwns == ASSUME IInv, OInv, mkdir_table PROVE OInv'
<1>1. call.pc = "table" /\ UNCHANGED disk /\ Goto("register") /\ UNCHANGED <<now, fil, cut, hurt>>
  BY DEF mkdir_table
<1> QED
  BY <1>1, TableStepOwns

LEMMA MkdirRegisterOwns == ASSUME IInv, OInv, mkdir_register PROVE OInv'
<1> DEFINE e == call.e
           x == [kind |-> "dir", clst |-> call.cl, size |-> 0]
<1>1. /\ call.pc = "register" /\ PutDir(e, x) /\ Goto("sync") /\ UNCHANGED <<fil, cut, hurt>>
      /\ disk' \in {disk, Synced}
  BY ReadDisk DEF mkdir_register
<1>2. call \in CallRec /\ call.op = "mkdir" /\ e \in Entry /\ ~fil[e].open
  BY <1>1 DEF IInv, CallOK, StageOK, OInv, Agree, RolesOK
<1>3. call'.pc = "sync" /\ call'.op = "mkdir" /\ call'.e = e
  BY <1>1, <1>2 DEF Goto, CallRec
<1>4. RolesOK(call', fil', now'.dir, cut)
  BY <1>1, <1>2, <1>3 DEF RolesOK
<1>5. x.clst = call.cl
  OBVIOUS
<1>6. ~hurt => Fresh(now.fat, Heads, x.clst)
  BY <1>1, <1>5 DEF OInv, Sound, HeldOK
<1> HIDE DEF x
<1> QED
  BY <1>1, <1>2, <1>3, <1>4, <1>6, DirSound

LEMMA MkdirErrorOwns == ASSUME IInv, OInv, mkdir_error PROVE OInv'
<1> DEFINE h == Removing(call, call.cl, 0)
<1>1. /\ call.pc \in {"flush", "table", "register"} /\ call' = h
      /\ UNCHANGED <<now, fil, cut, hurt>> /\ disk' \in {disk, Synced}
  BY ReadDisk DEF mkdir_error
<1>2. /\ call \in CallRec /\ StageOK(call) /\ call.op = "mkdir"
      /\ RolesOK(call, fil, now.dir, cut) /\ 0 \in {0} \cup Clst
  BY <1>1 DEF IInv, CallOK, StageOK, OInv, Agree
<1>3. /\ h.op = "mkdir" /\ h.e = call.e /\ h.pc \in {"ret", "free"}
      /\ h.pc = "ret" => h.ret = 1
      /\ h.pc = "free" => h.clst = call.cl
  BY <1>2, RemovingOK DEF SameCall
<1> HIDE DEF h
<1>4. RolesOK(h, fil, now.dir, cut)
  BY <1>2, <1>3 DEF RolesOK
<1>5. ASSUME ~hurt PROVE HeldOK(h, fil, now.fat, Heads) /\ LinksOK(h, now.fat)
  <2>1. Fresh(now.fat, Heads, call.cl)
    BY <1>1, <1>5 DEF OInv, Sound, HeldOK
  <2> QED
    BY <1>3, <2>1, ClstFacts DEF HeldOK, LinksOK, Fresh
<1> QED
  BY <1>1, <1>2, <1>3, <1>4, <1>5, StepSound

----------------------------------------------------------------------------
(* f_getfree, errors and power losses.                                     *)

LEMMA GetfreeOwns == ASSUME IInv, OInv, f_getfree PROVE OInv'
<1> DEFINE b == Begin("getfree", NoEntry)
           h == [b EXCEPT !.pc = "count"]
<1>1. call = Idle /\ call' \in {Idle, h} /\ UNCHANGED <<now, disk, fil, cut, hurt>>
  BY DEF f_getfree, Finish
<1>2. b = [op |-> "getfree", pc |-> "none", e |-> NoEntry, clst |-> 0, pclst |-> 0,
           ncl |-> 0, scl |-> 0, ret |-> 0, cl |-> 0, rem |-> 0]
  BY BeginIs
<1> HIDE DEF b
<1>3. h.op = "getfree" /\ h.pc = "count"
  BY <1>2
<1> HIDE DEF h
<1>4. CASE call' = Idle
  BY <1>1, <1>4, IdleIs, FinishSound
<1>5. CASE call' = h
  BY <1>1, <1>3, <1>5, StartFree
<1> QED
  BY <1>1, <1>4, <1>5

LEMMA GetfreeCountOwns == ASSUME IInv, OInv, getfree_count PROVE OInv'
<1> DEFINE n == call.rem + Zeros({call.ncl})
           h == [call EXCEPT !.ncl = call.ncl + 1, !.rem = n]
<1>1. /\ call.pc = "count" /\ UNCHANGED <<now, fil, cut, hurt>> /\ disk' \in {disk, Synced}
      /\ call' = Idle \/ call' = h
  BY ReadDisk DEF getfree_count, Finish
<1>2. call \in CallRec /\ call.op = "getfree" /\ RolesOK(call, fil, now.dir, cut)
  BY <1>1 DEF IInv, CallOK, StageOK, OInv, Agree
<1> HIDE DEF n
<1>3. CASE call' = Idle
  BY <1>1, <1>2, <1>3, FinishSound
<1>4. CASE call' = h
  <2>1. h.pc = "count" /\ h.op = "getfree" /\ h.e = call.e
    BY <1>1, <1>2 DEF CallRec
  <2> HIDE DEF h
  <2>2. RolesOK(h, fil, now.dir, cut) /\ HeldOK(h, fil, now.fat, Heads) /\ LinksOK(h, now.fat)
    BY <2>1 DEF RolesOK, HeldOK, LinksOK
  <2> QED
    BY <1>1, <1>2, <1>4, <2>1, <2>2, StepSound
<1> QED
  BY <1>1, <1>3, <1>4

LEMMA GetfreeErrorOwns == ASSUME IInv, OInv, getfree_error PROVE OInv'
<1>1. call.pc = "count" /\ call' = Idle /\ UNCHANGED <<now, fil, cut, hurt>>
      /\ disk' \in {disk, Synced}
  BY ReadDisk DEF getfree_error, Finish
<1>2. call.op = "getfree"
  BY <1>1 DEF IInv, CallOK, StageOK
<1> QED
  BY <1>1, <1>2, FinishSound

LEMMA MoveErrorOwns == ASSUME IInv, OInv, move_window_error PROVE OInv'
<1> DEFINE P == {"follow", "scan", "link", "cut", "free", "next"}
<1>1. /\ UNCHANGED <<now, fil, cut, hurt>> /\ disk' \in {disk, Synced}
      /\ \/ call.pc \in P /\ Return(DiskErr)
         \/ call.pc \notin P /\ call' = Idle
  BY ReadDisk DEF move_window_error, Finish
<1>2. call.pc # "ret"
  <2>1. Target # win.sect
    BY DEF move_window_error, MoveFails
  <2> QED
    BY <2>1 DEF Target
<1>3. RolesOK(call, fil, now.dir, cut)
  BY DEF OInv, Agree
<1>4. CASE call.pc \in P /\ Return(DiskErr)
  <2>1. DiskErr \in 0 .. NFatEnt + 1 /\ DiskErr \notin Clst
    BY NFatEntAssumption, ClstFacts DEF DiskErr
  <2>2. call.op \notin {"sync", "close"}
    BY <1>3, <1>4 DEF RolesOK
  <2> QED
    BY <1>1, <1>4, <2>1, <2>2, ReturnSound
<1>5. CASE call.pc \notin P /\ call' = Idle
  <2>1. call.op # "truncate"
    BY <1>2, <1>3, <1>5 DEF RolesOK
  <2> QED
    BY <1>1, <1>5, <2>1, FinishSound
<1> QED
  BY <1>1, <1>4, <1>5

LEMMA PowerLossOwns == ASSUME IInv, OInv, PowerLoss PROVE OInv'
<1>1. /\ now' = disk /\ UNCHANGED disk /\ fil' = [e \in Entry |-> ClosedFil] /\ cut' = {}
      /\ call' = Idle /\ hurt' = (hurt \/ \E e \in Entry : Exposed(e))
  BY DEF PowerLoss, Finish
<1>2. \A e \in Entry : ~fil'[e].open
  BY <1>1, ClosedIs
<1>3. Agree'
  BY <1>1, <1>2, IdleAgrees DEF Agree, EntriesAgree
<1>4. ASSUME ~hurt' PROVE Sound' /\ Stable'
  <2>1. ~hurt /\ \A e \in Entry : ~Exposed(e)
    BY <1>1, <1>4
  <2>2. Owned(disk.fat, StoredHeads)
    BY <2>1 DEF OInv, Stable
  <2>3. \A e \in Entry : e \in cut => disk.dir[e].clst = 0
    BY <2>1 DEF Exposed
  <2>4. StoredHeads = [e \in Entry |-> disk.dir[e].clst]
    BY <2>3 DEF StoredHeads
  <2>5. Heads' = StoredHeads
    BY <1>1, <1>2, <2>4 DEF Heads, HeadOf
  <2>6. StoredHeads' = StoredHeads
    BY <1>1, <2>4 DEF StoredHeads
  <2> QED
    BY <1>1, <2>2, <2>5, <2>6, IdleAgrees DEF Sound, Stable
<1> QED
  BY <1>3, <1>4 DEF OInv

----------------------------------------------------------------------------
(* The invariant.                                                          *)

LEMMA InitOwns == Init => OInv
<1> SUFFICES ASSUME Init PROVE OInv
  OBVIOUS
<1>1. call = Idle /\ \A e \in Entry : ~fil[e].open
  BY ClosedIs DEF Init
<1>2. \A e \in Entry : now.dir[e].clst = 0 /\ disk.dir[e].clst = 0
  BY DEF Init, NoEnt
<1>3. /\ now.fat = disk.fat
      /\ \A c \in Clst : now.fat[c] \notin Clst /\ (IsRoot(c) => now.fat[c] # 0)
  <2>1. EOC \notin Clst /\ EOC # 0 /\ 0 \notin Clst
    BY ClstFacts, NFatEntAssumption DEF EOC
  <2> QED
    BY <2>1 DEF Init, IsRoot
<1>4. \A e \in Entry : Heads[e] = 0 /\ StoredHeads[e] = 0
  BY <1>1, <1>2 DEF Heads, HeadOf, StoredHeads
<1>5. Owned(now.fat, Heads) /\ Owned(disk.fat, StoredHeads)
  BY <1>3, <1>4, ClstFacts DEF Owned
<1>6. Agree
  BY <1>1, IdleAgrees DEF Agree, EntriesAgree
<1> QED
  BY <1>1, <1>5, <1>6, IdleAgrees DEF OInv, Sound, Stable

LEMMA OwnStep == ASSUME IInv, OInv, [Next]_vars PROVE OInv'
<1>1. CASE Start
  BY <1>1, DirErrorOwns, OpenOwns, DeniedOwns, CreateOwns, FileSyncOwns, CloseOwns,
     WriteOwns, TruncateOwns, LseekOwns, FileUnlinkOwns, MkdirOwns, GetfreeOwns DEF Start
<1>2. CASE Chain
  BY <1>2, FollowOwns, ScanEndOwns, ScanUsedOwns, ScanTakeOwns, LinkOwns, CutOwns,
     FreeOwns, SyncFsOwns, SyncErrorOwns DEF Chain
<1>3. CASE FileStep
  BY <1>3, OpenRemovedOwns, OpenBackOwns, WriteChainedOwns, LseekChainedOwns,
     TruncateNextOwns, TruncateRemovedOwns DEF FileStep
<1>4. CASE DirStep
  BY <1>4, UnlinkLookOwns, UnlinkRemoveOwns, UnlinkRemovedOwns, MkdirChainedOwns,
     MkdirFlushOwns, MkdirTableOwns, MkdirRegisterOwns, MkdirErrorOwns,
     GetfreeCountOwns, GetfreeErrorOwns DEF DirStep
<1>5. CASE move_window_error
  BY <1>5, MoveErrorOwns
<1>6. CASE PowerLoss
  BY <1>6, PowerLossOwns
<1>7. CASE UNCHANGED vars
  <2>1. UNCHANGED <<now, disk, fil, call, cut, hurt>>
    BY <1>7 DEF vars
  <2>2. RolesOK(call, fil, now.dir, cut)
    BY DEF OInv, Agree
  <2>3. ~hurt => HeldOK(call, fil, now.fat, Heads) /\ LinksOK(call, now.fat)
    BY DEF OInv, Sound
  <2> QED
    BY <2>1, <2>2, <2>3, StepSound
<1> QED
  BY <1>1, <1>2, <1>3, <1>4, <1>5, <1>6, <1>7 DEF Next

\* During every call, too, each cluster has one owner at most and the cluster
\* that the call holds has none, also after I/O errors and power losses.
THEOREM OwnershipInvariant == Spec => []OInv
<1>1. Init => OInv
  BY InitOwns
<1>2. IInv /\ OInv /\ [Next]_vars => OInv'
  BY OwnStep
<1> QED
  BY <1>1, <1>2, VolumeInvariant, PTL DEF Spec

----------------------------------------------------------------------------
(* What it means for the files and for the medium.                         *)

LEMMA OneOrNone ==
  ASSUME NEW S, \A x, y \in S : x = y
  PROVE  \/ S = {} /\ Cardinality(S) = 0
         \/ S # {} /\ Cardinality(S) = 1
<1>1. CASE S = {}
  BY <1>1, FS_EmptySet
<1>2. CASE S # {}
  <2>1. PICK x : x \in S
    BY <1>2
  <2>2. S = {x}
    BY <2>1
  <2> QED
    BY <1>2, <2>2, FS_Singleton
<1> QED
  BY <1>1, <1>2

LEMMA OwnedIsOneOwner ==
  ASSUME NEW fat, NEW head, NEW dir, Owned(fat, head), \A e \in Entry : dir[e].clst = head[e]
  PROVE  OneOwner(fat, dir)
<1> SUFFICES ASSUME NEW c \in Clst
             PROVE  LET n == Refs(fat, dir, c) IN n <= 1 /\ (n = 1 => fat[c] # 0)
  BY DEF OneOwner
<1> DEFINE E == {e \in Entry : dir[e].clst = c}
           D == {d \in Clst : fat[d] = c}
           r == IF FAT32 /\ c = 2 THEN 1 ELSE 0
           n == Cardinality(E) + Cardinality(D) + r
<1>1. /\ \A e, f \in E : e = f
      /\ \A b, d \in D : b = d
  BY DEF Owned
<1>2. E # {} => D = {} /\ r = 0 /\ fat[c] # 0
  BY DEF Owned, IsRoot
<1>3. D # {} => E = {} /\ r = 0 /\ fat[c] # 0
  BY DEF Owned, IsRoot
<1>4. r \in {0, 1} /\ (r = 1 => fat[c] # 0)
  BY DEF Owned, IsRoot
<1>5. n = Refs(fat, dir, c)
  BY DEF Refs
<1> HIDE DEF E, D, r
<1>6. (E = {} /\ Cardinality(E) = 0) \/ (E # {} /\ Cardinality(E) = 1)
  BY <1>1, OneOrNone
<1>7. (D = {} /\ Cardinality(D) = 0) \/ (D # {} /\ Cardinality(D) = 1)
  BY <1>1, OneOrNone
<1>8. n <= 1 /\ (n = 1 => fat[c] # 0)
  BY <1>2, <1>3, <1>4, <1>6, <1>7
<1> QED
  BY <1>5, <1>8

\* Between calls no two files share a cluster and none starts at or leads to a
\* free one, on every volume and after any I/O errors: create_chain,
\* remove_chain and their callers leave no cross-link behind.
THEOREM FilesShareNoCluster == Spec => []NoCrossLink
<1>1. OInv => NoCrossLink
  <2> SUFFICES ASSUME OInv, call = Idle, ~hurt
               PROVE  OneOwner(now.fat, [e \in Entry |-> Current(e)])
    BY DEF NoCrossLink
  <2>1. Owned(now.fat, Heads)
    BY DEF OInv, Sound
  <2>2. \A e \in Entry : Current(e).clst = Heads[e]
    BY IdleIs, FileEntIs DEF Current, Heads, HeadOf
  <2> DEFINE dir == [e \in Entry |-> Current(e)]
  <2>3. \A e \in Entry : dir[e].clst = Heads[e]
    BY <2>2
  <2> HIDE DEF dir
  <2>4. OneOwner(now.fat, dir)
    BY <2>1, <2>3, OwnedIsOneOwner
  <2> QED
    BY <2>4 DEF dir
<1> QED
  BY <1>1, OwnershipInvariant, PTL

\* At every moment, in the middle of a call too, no two files of the medium
\* alone share a cluster or have a free one, but for the entries of files that
\* f_truncate shortened and f_sync has not stored yet.
THEOREM MediumSharesNoCluster == Spec => []CrashConsistent
<1>1. OInv => CrashConsistent
  <2> SUFFICES ASSUME OInv, ~hurt
               PROVE  OneOwner(disk.fat, [e \in Entry |-> OnMedium(e)])
    BY DEF CrashConsistent
  <2>1. Owned(disk.fat, StoredHeads)
    BY DEF OInv, Stable
  <2>2. \A e \in Entry : OnMedium(e).clst = StoredHeads[e]
    BY DEF OnMedium, Exposed, StoredHeads, NoEnt
  <2> DEFINE dir == [e \in Entry |-> OnMedium(e)]
  <2>3. \A e \in Entry : dir[e].clst = StoredHeads[e]
    BY <2>2
  <2> HIDE DEF dir
  <2>4. OneOwner(disk.fat, dir)
    BY <2>1, <2>3, OwnedIsOneOwner
  <2> QED
    BY <2>4 DEF dir
<1> QED
  BY <1>1, OwnershipInvariant, PTL

\* Only sync_fs ends a call that is at its last access with FR_OK.
LEMMA OnlySyncFs ==
  ASSUME Next, call.pc = "sync", res' = "FR_OK"
  PROVE  sync_fs
<1>1. call # Idle
  BY IdleIs
<1>2. ~Start
  BY <1>1 DEF Start, f_open, f_open_denied, f_open_create, f_sync, f_close, f_write,
     f_truncate, f_lseek, f_unlink, f_mkdir, f_getfree, dir_error
<1>3. Chain => sync_fs
  BY DEF Chain, create_follow, scan_end, scan_used, scan_take, create_link, remove_cut,
     remove_free, sync_fs_error, Finish
<1>4. ~FileStep
  BY DEF FileStep, open_removed, open_back, write_chained, lseek_chained, truncate_next,
     truncate_removed
<1>5. ~DirStep
  BY DEF DirStep, unlink_look, unlink_remove, unlink_removed, mkdir_chained, mkdir_flush,
     mkdir_table, mkdir_register, mkdir_error, getfree_count, getfree_error
<1>6. ~move_window_error
  <2>1. Target = win.sect
    BY DEF Target
  <2> QED
    BY <2>1 DEF move_window_error, MoveFails
<1>7. ~PowerLoss
  BY DEF PowerLoss, Finish
<1> QED
  BY <1>2, <1>3, <1>4, <1>5, <1>6, <1>7 DEF Next

LEMMA SyncFsStores ==
  ASSUME IInv, OInv, sync_fs, NEW e \in Entry, call.op = "sync", call.e = e
  PROVE  Stored(e)'
<1> DEFINE g == [fil[e] EXCEPT !.modified = FALSE]
<1>1. disk' = now /\ now' = now
  BY SyncedIsNow DEF sync_fs, IInv, WindowOK
<1>2. fil \in [Entry -> File]
  BY DEF IInv, FilesOK
<1>3. fil' = [fil EXCEPT ![e] = g]
  BY DEF sync_fs, AfterSync, UpdateFil
<1>4. g.sclust = fil[e].sclust /\ g.size = fil[e].size
  <2>1. fil[e] \in File
    BY <1>2
  <2> QED
    BY <2>1 DEF File
<1> HIDE DEF g
<1>5. fil'[e].sclust = fil[e].sclust /\ fil'[e].size = fil[e].size
  BY <1>2, <1>3, <1>4
<1>6. now.dir[e] = FileEnt(fil[e].sclust, fil[e].size)
  BY DEF OInv, Agree, RolesOK, sync_fs
<1> QED
  BY <1>1, <1>5, <1>6 DEF Stored

\* When an f_sync that had something to store reports success, the medium
\* holds the entry and every link of the file's chain, whatever writes failed
\* before.
THEOREM SyncIsDurable == Spec => SyncStores
<1>1. IInv /\ OInv /\ [Next]_vars =>
        [\A e \in Entry :
           call.pc = "sync" /\ call.op = "sync" /\ call.e = e /\ res' = "FR_OK"
             => Stored(e)']_vars
  <2> SUFFICES ASSUME IInv, OInv, Next, NEW e \in Entry,
                      call.pc = "sync", call.op = "sync", call.e = e, res' = "FR_OK"
               PROVE  Stored(e)'
    OBVIOUS
  <2>1. sync_fs
    BY OnlySyncFs
  <2> QED
    BY <2>1, SyncFsStores
<1> QED
  BY <1>1, VolumeInvariant, OwnershipInvariant, PTL DEF Spec, SyncStores

----------------------------------------------------------------------------
(* The count of free clusters.                                             *)

Zero(fat) == {c \in Clst : fat[c] = 0}

\* FAT32, where the root directory keeps free_clst below the value at which
\* create_chain stops to count: without faults it is exact but for the cluster
\* that is taken and not yet linked, and f_getfree has nothing to count.
CountInv ==
  faults = 0 =>
    /\ ~hurt
    /\ FAT32 =>
         /\ call.pc # "count"
         /\ fs.free = Cardinality(Zero(now.fat)) + (IF call.pc = "link" THEN 1 ELSE 0)

LEMMA ZeroFinite ==
  ASSUME NEW fat
  PROVE  IsFiniteSet(Zero(fat)) /\ Cardinality(Zero(fat)) \in Nat
<1>1. Zero(fat) \subseteq Clst
  BY DEF Zero
<1> QED
  BY <1>1, SubFinite

LEMMA ZeroTaken ==
  ASSUME NEW fat \in [Clst -> Cell], NEW c \in Clst, fat[c] = 0, NEW x, x # 0
  PROVE  Cardinality(Zero([fat EXCEPT ![c] = x])) = Cardinality(Zero(fat)) - 1
<1>1. Zero([fat EXCEPT ![c] = x]) = Zero(fat) \ {c} /\ c \in Zero(fat)
  BY DEF Zero
<1> QED
  BY <1>1, ZeroFinite, FS_RemoveElement

LEMMA ZeroGiven ==
  ASSUME NEW fat \in [Clst -> Cell], NEW c \in Clst, fat[c] # 0
  PROVE  Cardinality(Zero([fat EXCEPT ![c] = 0])) = Cardinality(Zero(fat)) + 1
<1>1. Zero([fat EXCEPT ![c] = 0]) = Zero(fat) \cup {c} /\ c \notin Zero(fat)
  BY DEF Zero
<1> QED
  BY <1>1, ZeroFinite, FS_AddElement

LEMMA ZeroSame ==
  ASSUME NEW fat \in [Clst -> Cell], NEW c \in Clst, fat[c] # 0, NEW x, x # 0
  PROVE  Zero([fat EXCEPT ![c] = x]) = Zero(fat)
  BY DEF Zero

\* Clusters that are in use bound the count.
LEMMA ZeroBelow ==
  ASSUME NEW fat, NEW S, S \subseteq Clst, \A c \in S : fat[c] # 0
  PROVE  Cardinality(Zero(fat)) + Cardinality(S) <= NFatEnt - 2 /\ Cardinality(S) \in Nat
<1>1. Zero(fat) \cap S = {} /\ Zero(fat) \cup S \subseteq Clst
  BY DEF Zero
<1>2. IsFiniteSet(S) /\ Cardinality(S) \in Nat
  BY SubFinite
<1>3. Cardinality(Zero(fat) \cup S)
        = Cardinality(Zero(fat)) + Cardinality(S) - Cardinality(Zero(fat) \cap S)
  BY <1>2, ZeroFinite, FS_Union
<1>4. Cardinality(Zero(fat) \cap S) = 0
  BY <1>1, FS_EmptySet
<1>5. Cardinality(Zero(fat) \cup S) <= NFatEnt - 2
  BY <1>1, SubFinite
<1> QED
  BY <1>2, <1>3, <1>4, <1>5, ZeroFinite

LEMMA RootInUse ==
  ASSUME OInv, ~hurt, FAT32
  PROVE  2 \in Clst /\ now.fat[2] # 0 /\ Cardinality(Zero(now.fat)) <= NFatEnt - 3
<1>1. 2 \in Clst /\ now.fat[2] # 0
  BY ClstFacts DEF OInv, Sound, Owned, IsRoot
<1>2. Cardinality({2}) = 1
  BY FS_Singleton
<1>3. Cardinality(Zero(now.fat)) + Cardinality({2}) <= NFatEnt - 2
  BY <1>1, ZeroBelow
<1> QED
  BY <1>1, <1>2, <1>3, ZeroFinite, NFatEntAssumption

\* A fault ends what the invariant says.
LEMMA FaultCounts == ASSUME IInv, faults' = faults + 1 PROVE CountInv'
  BY DEF CountInv, IInv, HistOK

\* A step that leaves the FAT and the count, and is not about a link.
LEMMA SameCounts ==
  ASSUME CountInv, now'.fat = now.fat, fs'.free = fs.free, UNCHANGED <<faults, hurt>>,
         call.pc # "link", call'.pc \notin {"link", "count"}
  PROVE  CountInv'
  BY DEF CountInv

LEMMA ReturnPc ==
  ASSUME IInv, NEW r \in 0 .. NFatEnt + 1, Return(r)
  PROVE  call'.pc = "ret"
  BY ReturnedIs DEF IInv

LEMMA FollowCounts == ASSUME IInv, CountInv, create_follow PROVE CountInv'
<1>1. /\ call.pc = "follow" /\ UNCHANGED <<now, fs, faults, hurt>>
      /\ call \in CallRec /\ StageOK(call) /\ WindowOK
  BY DEF create_follow, IInv, CallOK
<1>2. call.clst \in Clst /\ 1 \in 0 .. NFatEnt + 1
  BY <1>1, NFatEntAssumption DEF StageOK
<1>3. now.fat[call.clst] \in 0 .. NFatEnt + 1
  BY <1>1, <1>2, FatTyped
<1> DEFINE h == [call EXCEPT !.pc = "scan", !.scl = call.clst, !.ncl = call.clst]
<1>4. \/ Return(1) \/ Return(now.fat[call.clst])
      \/ call' = h
  BY DEF create_follow
<1>5. h.pc = "scan"
  BY <1>1 DEF CallRec
<1> HIDE DEF h
<1>6. call'.pc \in {"ret", "scan"}
  BY <1>2, <1>3, <1>4, <1>5, ReturnPc
<1> QED
  BY <1>1, <1>6, SameCounts

LEMMA ScanEndCounts == ASSUME IInv, CountInv, scan_end PROVE CountInv'
<1>1. call.pc = "scan" /\ Return(0) /\ UNCHANGED <<now, fs, faults, hurt>>
      /\ 0 \in 0 .. NFatEnt + 1
  BY NFatEntAssumption DEF scan_end
<1>2. call'.pc = "ret"
  BY <1>1, ReturnPc
<1> QED
  BY <1>1, <1>2, SameCounts

LEMMA ScanUsedCounts == ASSUME IInv, CountInv, scan_used PROVE CountInv'
<1> DEFINE h == [call EXCEPT !.ncl = ScanNext]
<1>1. call.pc = "scan" /\ UNCHANGED <<now, fs, faults, hurt>> /\ (Return(0) \/ call' = h)
      /\ call \in CallRec /\ 0 \in 0 .. NFatEnt + 1
  BY NFatEntAssumption DEF scan_used, IInv, CallOK
<1>2. h.pc = "scan"
  BY <1>1 DEF CallRec
<1> HIDE DEF h
<1>3. call'.pc \in {"ret", "scan"}
  BY <1>1, <1>2, ReturnPc
<1> QED
  BY <1>1, <1>3, SameCounts

\* Taking a cluster: it is counted at once, or when it is linked.
LEMMA ScanTakeCounts == ASSUME IInv, OInv, CountInv, scan_take PROVE CountInv'
<1> DEFINE c == ScanNext
           h == [call EXCEPT !.pc = "link", !.ncl = c]
<1>1. /\ call.pc = "scan" /\ PutFat(c, EOC) /\ now.fat[c] = 0 /\ UNCHANGED <<faults, hurt>>
      /\ \/ Return(c) /\ fs' = Allocated(c)
         \/ call' = h /\ UNCHANGED fs
      /\ WindowOK /\ CallOK /\ call \in CallRec
  BY DEF scan_take, IInv, CallOK
<1>2. c \in Clst /\ c \in 0 .. NFatEnt + 1 /\ EOC # 0
  BY <1>1, ScanNextOK, NFatEntAssumption DEF EOC
<1>3. now'.fat = [now.fat EXCEPT ![c] = EOC] /\ now.fat \in [Clst -> Cell]
  BY <1>1, PutFatIs, FatIs
<1>4. Cardinality(Zero(now'.fat)) = Cardinality(Zero(now.fat)) - 1
  BY <1>1, <1>2, <1>3, ZeroTaken
<1>5. h.pc = "link"
  BY <1>1 DEF CallRec
<1>6. Return(c) => call'.pc = "ret"
  BY <1>2, ReturnPc
<1> HIDE DEF c, h
<1> SUFFICES ASSUME faults = 0, FAT32
             PROVE  /\ call'.pc # "count"
                    /\ fs'.free = Cardinality(Zero(now'.fat))
                                    + (IF call'.pc = "link" THEN 1 ELSE 0)
  BY <1>1 DEF CountInv
<1>7. fs.free = Cardinality(Zero(now.fat)) /\ Cardinality(Zero(now.fat)) \in Nat
      /\ Cardinality(Zero(now.fat)) <= NFatEnt - 3 /\ Cardinality(Zero(now'.fat)) \in Nat
  BY <1>1, RootInUse, ZeroFinite DEF CountInv
<1>8. CASE Return(c) /\ fs' = Allocated(c)
  <2>1. fs.free # 0 /\ fs.free < NFatEnt - 2
    BY <1>4, <1>7, NFatEntAssumption
  <2>2. fs'.free = fs.free - 1
    BY <1>8, <2>1 DEF Allocated
  <2> QED
    BY <1>4, <1>6, <1>7, <1>8, <2>2
<1>9. CASE call' = h /\ UNCHANGED fs
  BY <1>4, <1>5, <1>7, <1>9
<1> QED
  BY <1>1, <1>8, <1>9

LEMMA LinkCounts == ASSUME IInv, OInv, CountInv, create_link PROVE CountInv'
<1>1. /\ call.pc = "link" /\ PutFat(call.clst, call.ncl) /\ Return(call.ncl)
      /\ fs' = Allocated(call.ncl) /\ UNCHANGED <<faults, hurt>>
      /\ WindowOK /\ CallOK /\ StageOK(call)
  BY DEF create_link, IInv, CallOK
<1>2. call.clst \in Clst /\ call.ncl \in Clst /\ call.ncl \in 0 .. NFatEnt + 1
      /\ call.ncl # 0 /\ EOC # 0 /\ call.clst # 0
  BY <1>1, NFatEntAssumption DEF StageOK, Clst, EOC
<1>3. now'.fat = [now.fat EXCEPT ![call.clst] = call.ncl] /\ now.fat \in [Clst -> Cell]
  BY <1>1, PutFatIs, FatIs
<1>4. call'.pc = "ret"
  BY <1>1, <1>2, ReturnPc
<1> SUFFICES ASSUME faults = 0, FAT32
             PROVE  fs'.free = Cardinality(Zero(now'.fat))
  BY <1>1, <1>4, ZeroFinite DEF CountInv
<1>5. ~hurt /\ fs.free = Cardinality(Zero(now.fat)) + 1 /\ Cardinality(Zero(now.fat)) \in Nat
  BY <1>1, ZeroFinite DEF CountInv
<1>6. now.fat[call.clst] = EOC /\ Fresh(now.fat, Heads, call.ncl)
  BY <1>1, <1>2, <1>5 DEF OInv, Sound, LinksOK, HeldOK
<1>7. Zero(now'.fat) = Zero(now.fat)
  BY <1>2, <1>3, <1>6, ZeroSame
<1>8. Cardinality(Zero(now.fat)) <= NFatEnt - 4
  <2> DEFINE S == {2, call.ncl}
  <2>1. S \subseteq Clst /\ \A c \in S : now.fat[c] # 0
    BY <1>2, <1>5, <1>6, RootInUse DEF Fresh
  <2>2. Cardinality(S) = 2
    <3>1. IsFiniteSet({2}) /\ Cardinality({2}) = 1 /\ call.ncl \notin {2}
      BY <1>6, FS_Singleton DEF Fresh, Unowned, IsRoot
    <3>2. S = {2} \cup {call.ncl}
      OBVIOUS
    <3> HIDE DEF S
    <3> QED
      BY <3>1, <3>2, FS_AddElement
  <2>3. Cardinality(Zero(now.fat)) + Cardinality(S) <= NFatEnt - 2
    BY <2>1, ZeroBelow
  <2> HIDE DEF S
  <2> QED
    BY <1>5, <2>2, <2>3, NFatEntAssumption
<1>9. fs'.free = fs.free - 1
  <2>1. fs.free # 0 /\ fs.free < NFatEnt - 2
    BY <1>5, <1>8, NFatEntAssumption
  <2> QED
    BY <1>1, <2>1 DEF Allocated
<1> QED
  BY <1>5, <1>7, <1>9

LEMMA CutCounts == ASSUME IInv, OInv, CountInv, remove_cut PROVE CountInv'
<1> DEFINE h == [call EXCEPT !.pc = "free", !.pclst = 0]
<1>1. /\ call.pc = "cut" /\ PutFat(call.pclst, EOC) /\ call' = h
      /\ UNCHANGED <<fs, faults, hurt>>
      /\ WindowOK /\ CallOK /\ call \in CallRec /\ StageOK(call)
  BY DEF remove_cut, IInv, CallOK
<1>2. call.clst \in Clst /\ call.pclst \in Clst /\ EOC # 0 /\ 0 \notin Clst
  BY <1>1, ClstFacts, NFatEntAssumption DEF StageOK, EOC
<1>3. now'.fat = [now.fat EXCEPT ![call.pclst] = EOC] /\ now.fat \in [Clst -> Cell]
  BY <1>1, PutFatIs, FatIs
<1>4. call'.pc = "free"
  BY <1>1 DEF CallRec
<1> SUFFICES ASSUME faults = 0, FAT32 PROVE Zero(now'.fat) = Zero(now.fat)
  BY <1>1, <1>4 DEF CountInv
<1>5. now.fat[call.pclst] = call.clst
  BY <1>1 DEF CountInv, OInv, Sound, LinksOK
<1> QED
  BY <1>2, <1>3, <1>5, ZeroSame

LEMMA FreeCounts == ASSUME IInv, OInv, CountInv, remove_free PROVE CountInv'
<1> DEFINE x == now.fat[call.clst]
           h == [call EXCEPT !.clst = x]
<1>1. /\ call.pc = "free" /\ UNCHANGED <<faults, hurt>>
      /\ WindowOK /\ CountsOK /\ CallOK /\ call \in CallRec /\ StageOK(call)
  BY DEF remove_free, IInv, CallOK
<1>2. call.clst \in Clst /\ 0 \in 0 .. NFatEnt + 1
  BY <1>1, NFatEntAssumption DEF StageOK
<1>3. h.pc = "free"
  BY <1>1 DEF CallRec
<1>4. call'.pc \in {"ret", "free"}
  <2>1. Return(0) \/ call' = h
    BY DEF remove_free
  <2> HIDE DEF h
  <2> QED
    BY <1>2, <1>3, <2>1, ReturnPc
<1> HIDE DEF h
<1>5. CASE x = 0
  <2>1. UNCHANGED <<now, fs>>
    BY <1>5 DEF remove_free
  <2> QED
    BY <1>1, <1>4, <2>1, SameCounts
<1>6. CASE x # 0
  <2>1. PutFat(call.clst, 0) /\ fs' = Released
    BY <1>6 DEF remove_free
  <2>2. now'.fat = [now.fat EXCEPT ![call.clst] = 0] /\ now.fat \in [Clst -> Cell]
    BY <1>1, <2>1, PutFatIs, FatIs
  <2>3. Cardinality(Zero(now'.fat)) = Cardinality(Zero(now.fat)) + 1
    BY <1>2, <1>6, <2>2, ZeroGiven
  <2> SUFFICES ASSUME faults = 0, FAT32 PROVE fs'.free = Cardinality(Zero(now'.fat))
    BY <1>1, <1>4, ZeroFinite DEF CountInv
  <2>4. fs.free = Cardinality(Zero(now.fat)) /\ Cardinality(Zero(now.fat)) \in Nat
        /\ Cardinality(Zero(now.fat)) <= NFatEnt - 3
    BY <1>1, RootInUse, ZeroFinite DEF CountInv
  <2>5. fs'.free = fs.free + 1
    <3>1. fs.free < NFatEnt - 2 /\ fs \in [free : Hint, last : Hint, fsi : BOOLEAN]
      BY <1>1, <2>4, NFatEntAssumption DEF CountsOK
    <3>2. Released = [fs EXCEPT !.free = fs.free + 1, !.fsi = TRUE]
      BY <3>1 DEF Released
    <3> QED
      BY <2>1, <3>1, <3>2
  <2> QED
    BY <2>3, <2>4, <2>5
<1> QED
  BY <1>5, <1>6

LEMMA SyncFsCounts == ASSUME IInv, CountInv, sync_fs PROVE CountInv'
<1>1. /\ call.pc = "sync" /\ call' = Idle /\ UNCHANGED <<now, hurt>>
      /\ CountsOK
  BY DEF sync_fs, Finish, IInv
<1>2. fs'.free = fs.free /\ (faults' = faults \/ faults' = faults + 1)
  <2>1. SyncFsi
    BY DEF sync_fs
  <2> QED
    BY <1>1, <2>1 DEF SyncFsi, CountsOK
<1> QED
  BY <1>1, <1>2, IdleIs, SameCounts, FaultCounts

\* The stages a call can be at after these steps.
LEMMA RemovingPc ==
  ASSUME NEW k \in CallRec, StageOK(k), NEW c, NEW p \in {0} \cup Clst
  PROVE  Removing(k, c, p).pc \in {"ret", "free", "cut"}
  BY RemovingOK

LEMMA RemovingStays ==
  ASSUME NEW k \in CallRec, StageOK(k), NEW c, NEW p \in {0} \cup Clst
  PROVE  /\ Removing(k, c, p).op = k.op /\ Removing(k, c, p).e = k.e
         /\ Removing(k, c, p).pc \in {"ret", "free", "cut"}
         /\ Removing(k, c, p).pc = "ret" => c \notin Clst
         /\ Removing(k, c, p).pc # "ret" => c \in Clst /\ Removing(k, c, p).clst = c
         /\ p = 0 => Removing(k, c, p).pc # "cut"
<1> DEFINE h == Removing(k, c, p)
<1>1. /\ SameCall(k, h) /\ h.pc \in {"ret", "free", "cut"}
      /\ h.pc = "ret" => c \notin Clst
      /\ h.pc # "ret" => c \in Clst /\ h.clst = c
      /\ h.pc # "ret" => h.pc = IF p = 0 THEN "free" ELSE "cut"
  BY RemovingOK
<1> HIDE DEF h
<1>2. /\ h.op = k.op /\ h.e = k.e
      /\ p = 0 => h.pc # "cut"
  BY <1>1 DEF SameCall
<1> QED
  BY <1>1, <1>2 DEF h

LEMMA CreatingPc ==
  ASSUME CountsOK, NEW k \in CallRec, StageOK(k), NEW c \in {0} \cup Clst
  PROVE  Creating(k, c).pc \in {"scan", "follow"}
  BY CreatingOK

LEMMA GotoPc ==
  ASSUME IInv, NEW pc, Goto(pc) PROVE call'.pc = pc
  BY DEF IInv, CallOK, CallRec, Goto

\* What the callers of create_chain and remove_chain do does not touch the FAT.
LEMMA CallerCounts ==
  ASSUME CountInv, UNCHANGED <<now, hurt>>, fs'.free = fs.free,
         faults' \in {faults, faults + 1}, IInv,
         call.pc # "link", call'.pc \notin {"link", "count"}
  PROVE  CountInv'
  BY SameCounts, FaultCounts

LEMMA FileStepCounts == ASSUME IInv, CountInv, FileStep PROVE CountInv'
<1>1. /\ CountsOK /\ FilesOK /\ WindowOK /\ call \in CallRec /\ StageOK(call)
      /\ fil \in [Entry -> File]
  BY DEF IInv, CallOK, FilesOK
<1>2. CASE open_removed
  BY <1>2, GotoPc, IdleIs, CallerCounts DEF open_removed, Finish
<1>3. CASE open_back
  <2>1. call.pc = "back" /\ call' = Idle /\ UNCHANGED <<now, faults, hurt>>
        /\ fs'.free = fs.free
    BY <1>1, <1>3 DEF open_back, Finish, CountsOK
  <2> QED
    BY <2>1, IdleIs, CallerCounts
<1>4. ASSUME NEW ok \in BOOLEAN, write_chained(ok) PROVE CountInv'
  <2>1. call.pc = "ret" /\ call' = Idle /\ UNCHANGED <<now, fs, hurt>>
        /\ faults' \in {faults, faults + 1}
    BY <1>4 DEF write_chained, Abort, Finish
  <2> QED
    BY <2>1, IdleIs, CallerCounts
<1>5. CASE lseek_chained
  <2>1. call.pc = "ret" /\ call.op = "lseek" /\ UNCHANGED <<now, fs, faults, hurt>>
    BY <1>5 DEF lseek_chained
  <2>2. call'.pc \in {"none", "scan", "follow"}
    <3> DEFINE f == fil[call.e]
               g == [f EXCEPT !.clust = call.ret,
                              !.sclust = IF @ = 0 THEN call.ret ELSE @]
               k == [call EXCEPT !.rem = @ - 1]
    <3>1. call' = Idle \/ (call.ret \in Clst /\ Seek(call, g))
      BY <1>5 DEF lseek_chained, Abort, Finish, Failed
    <3>2. CASE call' = Idle
      BY <3>2, IdleIs
    <3>3. CASE call.ret \in Clst /\ Seek(call, g) /\ call' # Idle
      <4>1. call.rem > 1 /\ call' = Creating(k, g.clust)
        BY <3>3 DEF Seek, Finish
      <4>2. g.clust = call.ret
        <5>1. call.e \in Entry
          BY <1>1, <2>1 DEF StageOK
        <5>2. f \in File
          BY <1>1, <5>1
        <5> HIDE DEF f
        <5> QED
          BY <5>2 DEF File
      <4>3. k \in CallRec /\ StageOK(k)
        <5>1. k \in CallRec
          BY <1>1, <4>1 DEF CallRec
        <5>2. k.pc = "ret" /\ k.op = "lseek" /\ k.e = call.e
          BY <1>1, <2>1 DEF CallRec
        <5> HIDE DEF k
        <5> QED
          BY <1>1, <2>1, <5>1, <5>2 DEF StageOK
      <4> HIDE DEF g, k
      <4> QED
        BY <1>1, <3>3, <4>1, <4>2, <4>3, CreatingPc
    <3> QED
      BY <3>1, <3>2, <3>3
  <2> QED
    BY <2>1, <2>2, CallerCounts
<1>6. CASE truncate_next
  <2> DEFINE c == fil[call.e].clust
  <2>1. call.pc = "next" /\ UNCHANGED <<now, fs, faults, hurt>>
        /\ (Return(0) \/ call' = Removing(call, now.fat[c], c)) /\ 0 \in 0 .. NFatEnt + 1
    BY <1>6, NFatEntAssumption DEF truncate_next
  <2>2. c \in {0} \cup Clst
    BY <2>1 DEF IInv, CallOK, TiedOK
  <2> HIDE DEF c
  <2>3. call'.pc \in {"ret", "free", "cut"}
    BY <1>1, <2>1, <2>2, ReturnPc, RemovingPc
  <2> QED
    BY <2>1, <2>3, CallerCounts
<1>7. CASE truncate_removed
  <2>1. call.pc = "ret" /\ call' = Idle /\ UNCHANGED <<now, fs, faults, hurt>>
    BY <1>7 DEF truncate_removed, Abort, Finish
  <2> QED
    BY <2>1, IdleIs, CallerCounts
<1> QED
  BY <1>2, <1>3, <1>4, <1>5, <1>6, <1>7 DEF FileStep

LEMMA DirStepCounts == ASSUME IInv, OInv, CountInv, DirStep PROVE CountInv'
<1>1. /\ CountsOK /\ call \in CallRec /\ StageOK(call)
      /\ 0 \in {0} \cup Clst
  BY DEF IInv, CallOK
<1>2. CASE unlink_look
  BY <1>2, GotoPc, CallerCounts DEF unlink_look
<1>3. CASE unlink_remove
  <2> DEFINE c == now.dir[call.e].clst
             h == [call EXCEPT !.pc = "sync"]
  <2>1. /\ call.pc = "remove" /\ UNCHANGED <<fs, faults, hurt>> /\ Unlink(call)
    BY <1>3 DEF unlink_remove
  <2>2. now'.fat = now.fat /\ (call' = h \/ call' = Removing(call, c, 0))
    BY <2>1 DEF Unlink, PutDir, IInv, WindowOK, VolumeOK, Image
  <2>3. h.pc = "sync"
    BY <1>1 DEF CallRec
  <2> HIDE DEF c, h
  <2>4. call'.pc \in {"sync", "ret", "free", "cut"}
    BY <1>1, <2>2, <2>3, RemovingPc
  <2> QED
    BY <2>1, <2>2, <2>4, SameCounts
<1>4. CASE unlink_removed
  BY <1>4, GotoPc, IdleIs, CallerCounts DEF unlink_removed, Finish
<1>5. CASE mkdir_chained
  <2> DEFINE h == [call EXCEPT !.pc = "flush", !.ret = 0, !.cl = call.ret]
  <2>1. call.pc = "ret" /\ (call' = Idle \/ call' = h) /\ UNCHANGED <<now, fs, faults, hurt>>
    BY <1>5 DEF mkdir_chained, Finish
  <2>2. h.pc = "flush"
    BY <1>1 DEF CallRec
  <2> HIDE DEF h
  <2> QED
    BY <2>1, <2>2, IdleIs, CallerCounts
<1>6. CASE mkdir_flush
  BY <1>6, GotoPc, CallerCounts DEF mkdir_flush
<1>7. CASE mkdir_table
  BY <1>7, GotoPc, CallerCounts DEF mkdir_table
<1>8. CASE mkdir_register
  <2>1. now'.fat = now.fat
    BY <1>8 DEF mkdir_register, PutDir, IInv, WindowOK, VolumeOK, Image
  <2>2. call.pc = "register" /\ UNCHANGED <<fs, faults, hurt>> /\ call'.pc = "sync"
    BY <1>8, GotoPc DEF mkdir_register
  <2> QED
    BY <2>1, <2>2, SameCounts
<1>9. CASE mkdir_error
  BY <1>9, FaultCounts DEF mkdir_error
<1>10. CASE getfree_count
  <2>1. call.pc = "count" /\ UNCHANGED <<faults, hurt, now>>
    BY <1>10 DEF getfree_count
  <2>2. ~FAT32 \/ faults # 0
    BY <2>1 DEF CountInv
  <2> QED
    BY <2>1, <2>2 DEF CountInv
<1>11. CASE getfree_error
  BY <1>11, FaultCounts DEF getfree_error
<1> QED
  BY <1>2, <1>3, <1>4, <1>5, <1>6, <1>7, <1>8, <1>9, <1>10, <1>11 DEF DirStep

\* A call begins where nothing is counted.
LEMMA BeginCounts ==
  ASSUME CountInv, call = Idle, now'.fat = now.fat, UNCHANGED <<fs, faults, hurt>>,
         call'.pc \notin {"link", "count"}
  PROVE  CountInv'
  BY IdleIs, SameCounts

LEMMA DirFatSame ==
  ASSUME IInv, NEW e, NEW x, PutDir(e, x) PROVE now'.fat = now.fat
  BY DEF PutDir, IInv, WindowOK, VolumeOK, Image

LEMMA CreateCounts == ASSUME IInv, CountInv, NEW e \in Entry, f_open_create(e) PROVE CountInv'
<1> DEFINE c == now.dir[e].clst
           b == Begin("create", e)
           k == [b EXCEPT !.cl = c]
           h == Removing(k, c, 0)
<1>1. /\ call = Idle /\ PutDir(e, FileEnt(0, 0)) /\ UNCHANGED <<fs, faults, hurt>>
      /\ \/ call' = Idle
         \/ c # 0 /\ call' = h
  BY DEF f_open_create
<1>2. now'.fat = now.fat
  BY <1>1, DirFatSame
<1>3. CASE c # 0 /\ call' = h
  <2>1. c \in Clst /\ 0 \in {0} \cup Clst
    <3>1. now.dir[e] \in Ent
      BY EntTyped DEF IInv
    <3> QED
      BY <1>3, <3>1 DEF Ent
  <2>2. b = [op |-> "create", pc |-> "none", e |-> e, clst |-> 0, pclst |-> 0,
             ncl |-> 0, scl |-> 0, ret |-> 0, cl |-> 0, rem |-> 0]
    BY BeginIs
  <2> HIDE DEF b
  <2>3. k = [op |-> "create", pc |-> "none", e |-> e, clst |-> 0, pclst |-> 0,
             ncl |-> 0, scl |-> 0, ret |-> 0, cl |-> c, rem |-> 0]
    BY <2>2
  <2> HIDE DEF k
  <2>4. k \in CallRec
    BY <2>1, <2>3, NFatEntAssumption DEF CallRec, Op, Pc
  <2>5. StageOK(k)
    BY <2>1, <2>3 DEF StageOK
  <2>6. h.pc \in {"ret", "free", "cut"}
    BY <2>1, <2>4, <2>5, RemovingPc
  <2> HIDE DEF h
  <2> QED
    BY <1>1, <1>2, <1>3, <2>6, BeginCounts
<1> QED
  BY <1>1, <1>2, <1>3, IdleIs, BeginCounts

LEMMA UpdateCounts ==
  ASSUME IInv, CountInv, NEW op \in {"sync", "close"}, NEW e \in Entry, call = Idle,
         Update(op, e), UNCHANGED <<fs, faults, hurt>>
  PROVE  CountInv'
<1> DEFINE b == Begin(op, e)
           h == [b EXCEPT !.pc = "sync"]
<1>1. PutDir(e, FileEnt(fil[e].sclust, fil[e].size)) /\ call' = h
  BY DEF Update
<1>2. h.pc = "sync"
  BY BeginIs
<1> HIDE DEF h
<1>3. now'.fat = now.fat
  BY <1>1, DirFatSame
<1> QED
  BY <1>1, <1>2, <1>3, BeginCounts

LEMMA FileSyncCounts ==
  ASSUME IInv, CountInv, NEW e \in Entry, f_sync(e) \/ f_close(e) PROVE CountInv'
<1>1. /\ call = Idle /\ UNCHANGED <<fs, faults, hurt>>
      /\ \/ Update("sync", e)
         \/ Update("close", e)
         \/ UNCHANGED <<now, call>>
  BY DEF f_sync, f_close
<1> QED
  BY <1>1, IdleIs, UpdateCounts, BeginCounts

LEMMA WriteCounts == ASSUME IInv, CountInv, NEW e \in Entry, f_write(e) PROVE CountInv'
<1> DEFINE f == fil[e]
           b == Begin("write", e)
           r == [b EXCEPT !.pc = "ret", !.ret = f.sclust]
<1>1. /\ call = Idle /\ UNCHANGED <<now, fs, faults, hurt>>
      /\ call' \in {r, Creating(b, 0), Creating(b, f.clust)}
  BY DEF f_write
<1>2. f.clust \in {0} \cup Clst /\ CountsOK
  BY DEF IInv, FilesOK, FileOK, File
<1>3. b \in CallRec /\ StageOK(b)
  <2>1. "write" \in Op \ {"idle", "create", "getfree"}
    BY DEF Op
  <2> QED
    BY <2>1, BeginOK
<1>4. b = [op |-> "write", pc |-> "none", e |-> e, clst |-> 0, pclst |-> 0,
           ncl |-> 0, scl |-> 0, ret |-> 0, cl |-> 0, rem |-> 0]
  BY BeginIs
<1> HIDE DEF b
<1>5. r.pc = "ret"
  BY <1>4
<1>6. 0 \in {0} \cup Clst
  OBVIOUS
<1>7. Creating(b, 0).pc \in {"scan", "follow"} /\ Creating(b, f.clust).pc \in {"scan", "follow"}
  BY <1>2, <1>3, <1>6, CreatingPc
<1> HIDE DEF r, f
<1> QED
  BY <1>1, <1>5, <1>7, BeginCounts

\* f_lseek enters the loop, or ends.
LEMMA SeekCounts ==
  ASSUME IInv, CountInv, UNCHANGED <<now, fs, faults, hurt>>, call = Idle,
         NEW k \in CallRec, StageOK(k), k.op = "lseek", k.e \in Entry,
         NEW f, FileOK(f), f.fptr + k.rem <= MaxSize,
         k.rem > 0 => f.sclust \in Clst /\ f.clust \in Clst,
         Seek(k, f)
  PROVE  CountInv'
<1>1. FilesOK /\ CountsOK
  BY DEF IInv
<1>2. k.rem > 1 => call'.pc \in {"scan", "follow"}
  BY <1>1, SeekOK
<1>3. k.rem > 1 \/ call' = Idle
  BY DEF Seek, Finish
<1> QED
  BY <1>2, <1>3, IdleIs, BeginCounts

LEMMA LseekCounts ==
  ASSUME IInv, CountInv, NEW e \in Entry, NEW ofs \in 0 .. MaxSize, f_lseek(e, ofs)
  PROVE  CountInv'
<1> DEFINE f == fil[e]
           b == Begin("lseek", e)
           k == [b EXCEPT !.rem = ofs]
<1>1. call = Idle /\ UNCHANGED <<now, fs, faults, hurt>>
  BY DEF f_lseek
<1>2. /\ FileOK(f) /\ f \in File /\ f.fptr \in 0 .. MaxSize /\ ofs \in Nat /\ MaxSize \in Nat
      /\ f.sclust \in {0} \cup Clst /\ CountsOK
  BY MaxSizeAssumption DEF IInv, FilesOK, FileOK, File
<1>3. b = [op |-> "lseek", pc |-> "none", e |-> e, clst |-> 0, pclst |-> 0,
           ncl |-> 0, scl |-> 0, ret |-> 0, cl |-> 0, rem |-> 0]
  BY BeginIs
<1> DEFINE kk(n) == [op |-> "lseek", pc |-> "none", e |-> e, clst |-> 0, pclst |-> 0,
                     ncl |-> 0, scl |-> 0, ret |-> 0, cl |-> 0, rem |-> n]
<1>4. k = kk(ofs)
  BY <1>3
<1>5. \A n \in Nat : kk(n) \in CallRec /\ StageOK(kk(n)) /\ kk(n).op = "lseek"
                     /\ kk(n).e = e /\ kk(n).rem = n
  <2> TAKE n \in Nat
  <2>1. kk(n) \in CallRec
    BY NFatEntAssumption DEF CallRec, Op, Pc
  <2> QED
    BY <2>1 DEF StageOK
<1> HIDE DEF b, k
<1>6. \A n : [k EXCEPT !.rem = n] = kk(n)
  BY <1>4
<1> HIDE DEF kk
<1>7. k \in CallRec /\ StageOK(k) /\ k.op = "lseek" /\ k.e = e /\ k.rem = ofs
  BY <1>2, <1>4, <1>5
<1>8. CASE ofs = 0
  <2> DEFINE g == [f EXCEPT !.fptr = 0]
  <2>1. Seek(k, g)
    BY <1>8 DEF f_lseek, b, k
  <2>2. g \in File /\ g.fptr = 0
    BY <1>2, PtrIs
  <2> HIDE DEF g
  <2>3. FileOK(g)
    BY <2>2 DEF FileOK
  <2>4. g.fptr + k.rem <= MaxSize /\ ~(k.rem > 0)
    BY <1>2, <1>7, <1>8, <2>2
  <2> QED
    BY <1>1, <1>7, <2>1, <2>3, <2>4, SeekCounts
<1>9. CASE ofs # 0 /\ FromCurrent(f, ofs)
  <2> DEFINE g == [f EXCEPT !.fptr = f.fptr - 1]
             n == ofs - (f.fptr - 1)
  <2>1. Seek(kk(n), g)
    <3>1. Seek([k EXCEPT !.rem = n], g)
      BY <1>9 DEF f_lseek, b, k
    <3> QED
      BY <3>1, <1>6
  <2>2. f.fptr > 0 /\ ofs >= f.fptr
    BY <1>9 DEF FromCurrent
  <2>3. f.fptr - 1 \in 0 .. MaxSize /\ n \in Nat /\ f.fptr - 1 + n <= MaxSize
    BY <1>2, <2>2
  <2>4. g \in File /\ g.fptr = f.fptr - 1 /\ g.sclust = f.sclust /\ g.clust = f.clust
    BY <1>2, <2>3, PtrIs
  <2>5. f.sclust \in Clst /\ f.clust \in Clst
    BY <1>2, <2>2 DEF FileOK
  <2> HIDE DEF g, n
  <2>6. FileOK(g)
    BY <2>4, <2>5 DEF FileOK
  <2> QED
    BY <1>1, <1>5, <2>1, <2>3, <2>4, <2>5, <2>6, SeekCounts
<1>10. CASE ofs # 0 /\ ~FromCurrent(f, ofs) /\ f.sclust = 0
  <2>1. call' = Creating(k, 0)
    BY <1>10 DEF f_lseek, b, k
  <2>2. Creating(k, 0).pc \in {"scan", "follow"}
    BY <1>2, <1>7, CreatingPc
  <2> QED
    BY <1>1, <2>1, <2>2, BeginCounts
<1>11. CASE ofs # 0 /\ ~FromCurrent(f, ofs) /\ f.sclust # 0
  <2> DEFINE g == [f EXCEPT !.fptr = 0, !.clust = f.sclust]
  <2>1. Seek(k, g)
    BY <1>11 DEF f_lseek, b, k
  <2>2. f.sclust \in Clst /\ 0 \in 0 .. MaxSize
    BY <1>2, <1>11
  <2>3. g \in File /\ g.fptr = 0 /\ g.clust = f.sclust /\ g.sclust = f.sclust
    <3> HIDE DEF f
    <3> QED
      BY <1>2, <2>2 DEF File
  <2> HIDE DEF g
  <2>4. FileOK(g)
    BY <2>3 DEF FileOK
  <2>5. g.fptr + k.rem <= MaxSize
    BY <1>2, <1>7, <2>3
  <2> QED
    BY <1>1, <1>7, <2>1, <2>2, <2>3, <2>4, <2>5, SeekCounts
<1> QED
  BY <1>8, <1>9, <1>10, <1>11

LEMMA TruncateCounts == ASSUME IInv, CountInv, NEW e \in Entry, f_truncate(e) PROVE CountInv'
<1> DEFINE k == Begin("truncate", e)
           h == Removing(k, fil[e].sclust, 0)
           t == [k EXCEPT !.pc = "next"]
<1>1. call = Idle /\ UNCHANGED <<now, fs, faults, hurt>> /\ call' \in {h, t, Idle}
  BY DEF f_truncate, Finish
<1>2. k \in CallRec /\ StageOK(k) /\ 0 \in {0} \cup Clst
  <2>1. "truncate" \in Op \ {"idle", "create", "getfree"}
    BY DEF Op
  <2> QED
    BY <2>1, BeginOK
<1>3. t.pc = "next"
  BY BeginIs
<1> HIDE DEF k
<1>4. h.pc \in {"ret", "free", "cut"}
  BY <1>2, RemovingPc
<1> HIDE DEF h, t
<1> QED
  BY <1>1, <1>3, <1>4, IdleIs, BeginCounts

LEMMA UnlinkCounts == ASSUME IInv, CountInv, NEW e \in Entry, f_unlink(e) PROVE CountInv'
<1> DEFINE b == Begin("unlink", e)
           c == now.dir[e].clst
           s == [b EXCEPT !.pc = "sync"]
           l == [b EXCEPT !.pc = "look"]
           h == Removing(b, c, 0)
<1>1. b \in CallRec /\ StageOK(b) /\ b.e = e /\ 0 \in {0} \cup Clst
  <2>1. "unlink" \in Op \ {"idle", "create", "getfree"}
    BY DEF Op
  <2> QED
    BY <2>1, BeginOK
<1>2. b = [op |-> "unlink", pc |-> "none", e |-> e, clst |-> 0, pclst |-> 0,
           ncl |-> 0, scl |-> 0, ret |-> 0, cl |-> 0, rem |-> 0]
  BY BeginIs
<1>3. /\ call = Idle /\ UNCHANGED <<fs, faults, hurt>>
      /\ \/ Unlink(b)
         \/ UNCHANGED now /\ call' \in {l, Idle}
  BY DEF f_unlink
<1> HIDE DEF b
<1>4. s.pc = "sync" /\ l.pc = "look"
  BY <1>2
<1>5. h.pc \in {"ret", "free", "cut"}
  BY <1>1, RemovingPc
<1>6. CASE Unlink(b)
  <2>1. PutDir(b.e, NoEnt) /\ call' \in {s, h}
    BY <1>1, <1>6 DEF Unlink
  <2>2. now'.fat = now.fat
    BY <2>1, DirFatSame
  <2> HIDE DEF s, h
  <2> QED
    BY <1>3, <1>4, <1>5, <2>1, <2>2, BeginCounts
<1>7. CASE UNCHANGED now /\ call' \in {l, Idle}
  <2> HIDE DEF l
  <2> QED
    BY <1>3, <1>4, <1>7, IdleIs, BeginCounts
<1> QED
  BY <1>3, <1>6, <1>7

LEMMA MkdirCounts == ASSUME IInv, CountInv, NEW e \in Entry, f_mkdir(e) PROVE CountInv'
<1> DEFINE b == Begin("mkdir", e)
<1>1. call = Idle /\ UNCHANGED <<now, fs, faults, hurt>> /\ call' \in {Idle, Creating(b, 0)}
  BY DEF f_mkdir
<1>2. b \in CallRec /\ StageOK(b) /\ 0 \in {0} \cup Clst /\ CountsOK
  <2>1. "mkdir" \in Op \ {"idle", "create", "getfree"}
    BY DEF Op
  <2> QED
    BY <2>1, BeginOK DEF IInv
<1> HIDE DEF b
<1>3. Creating(b, 0).pc \in {"scan", "follow"}
  BY <1>2, CreatingPc
<1> QED
  BY <1>1, <1>3, IdleIs, BeginCounts

\* On FAT32 the count is known, so f_getfree returns it.
LEMMA GetfreeCounts == ASSUME IInv, OInv, CountInv, f_getfree PROVE CountInv'
<1>1. call = Idle /\ UNCHANGED <<now, fs, faults, hurt>>
      /\ (fs.free <= NFatEnt - 2 => call' = Idle)
  BY DEF f_getfree, Finish
<1>2. CASE FAT32 /\ faults = 0
  <2>1. fs.free = Cardinality(Zero(now.fat)) /\ ~hurt /\ Cardinality(Zero(now.fat)) \in Nat
    BY <1>1, <1>2, IdleIs, ZeroFinite DEF CountInv
  <2>2. Cardinality(Zero(now.fat)) <= NFatEnt - 3
    BY <1>2, <2>1, RootInUse
  <2>3. call' = Idle
    BY <1>1, <2>1, <2>2, NFatEntAssumption
  <2> QED
    BY <1>1, <2>3, IdleIs, BeginCounts
<1>3. CASE ~(FAT32 /\ faults = 0)
  BY <1>1, <1>3 DEF CountInv
<1> QED
  BY <1>2, <1>3

LEMMA StartCounts == ASSUME IInv, OInv, CountInv, Start PROVE CountInv'
<1>1. ASSUME NEW e \in Entry, f_open(e) \/ f_open_denied(e) PROVE CountInv'
  BY <1>1, IdleIs, BeginCounts DEF f_open, f_open_denied
<1>2. CASE dir_error
  BY <1>2, FaultCounts DEF dir_error
<1> QED
  BY <1>1, <1>2, CreateCounts, FileSyncCounts, WriteCounts, LseekCounts, TruncateCounts,
     UnlinkCounts, MkdirCounts, GetfreeCounts DEF Start

LEMMA InitCounts == Init => CountInv
<1> SUFFICES ASSUME Init PROVE CountInv
  OBVIOUS
<1>1. ~hurt /\ call.pc = "none"
  BY IdleIs DEF Init
<1>2. ASSUME FAT32 PROVE fs.free = Cardinality(Zero(now.fat))
  <2>1. fs.free = NFatEnt - 3
    BY <1>2 DEF Init
  <2>2. now.fat = [c \in Clst |-> IF c = 2 THEN EOC ELSE 0] /\ EOC # 0
    BY <1>2, NFatEntAssumption DEF Init, EOC
  <2>3. Zero(now.fat) = Clst \ {2} /\ 2 \in Clst
    BY <2>2, ClstFacts DEF Zero
  <2>4. Cardinality(Clst \ {2}) = Cardinality(Clst) - 1
    BY <2>3, ClstFinite, FS_RemoveElement
  <2> QED
    BY <2>1, <2>3, <2>4, ClstFinite, NFatEntAssumption
<1>3. Cardinality(Zero(now.fat)) \in Nat
  BY ZeroFinite
<1> QED
  BY <1>1, <1>2, <1>3 DEF CountInv

LEMMA CountStep == ASSUME IInv, OInv, CountInv, [Next]_vars PROVE CountInv'
<1>1. CASE Chain
  <2>1. CASE sync_fs_error
    BY <2>1, FaultCounts DEF sync_fs_error
  <2> QED
    BY <1>1, <2>1, FollowCounts, ScanEndCounts, ScanUsedCounts, ScanTakeCounts, LinkCounts,
       CutCounts, FreeCounts, SyncFsCounts DEF Chain
<1>2. CASE move_window_error \/ PowerLoss
  BY <1>2, FaultCounts DEF move_window_error, PowerLoss
<1>3. CASE UNCHANGED vars
  BY <1>3 DEF vars, CountInv
<1> QED
  BY <1>1, <1>2, <1>3, StartCounts, FileStepCounts, DirStepCounts DEF Next

\* On FAT32 the free count that create_chain and remove_chain keep, that
\* sync_fs stores in FSINFO and that f_getfree reports without looking is the
\* number of free clusters between calls, as long as no I/O error and no power
\* loss occurred.
THEOREM FreeCountIsExact == Spec => [](FAT32 => FreeCountExact)
<1>1. Init => CountInv
  BY InitCounts
<1>2. IInv /\ OInv /\ CountInv /\ [Next]_vars => CountInv'
  BY CountStep
<1>3. CountInv => (FAT32 => FreeCountExact)
  <2> SUFFICES ASSUME CountInv, FAT32, call = Idle, faults = 0
               PROVE  fs.free = Cardinality(Zero(now.fat))
    BY DEF FreeCountExact, Zero
  <2>1. call.pc = "none" /\ Cardinality(Zero(now.fat)) \in Nat
    BY IdleIs, ZeroFinite
  <2> QED
    BY <2>1 DEF CountInv
<1> QED
  BY <1>1, <1>2, <1>3, VolumeInvariant, OwnershipInvariant, PTL DEF Spec

----------------------------------------------------------------------------
(* No cluster is lost.                                                     *)

\* The allocated cluster that the call alone knows of.
Holds(k, f, c) ==
  \/ k.pc = "free" /\ c = k.clst
  \/ k.pc = "link" /\ c = k.ncl
  \/ /\ k.pc = "ret" /\ c = k.ret
     /\ \/ k.op = "mkdir" /\ k.cl = 0
        \/ k.op \in {"write", "lseek"} /\ f[k.e].sclust = 0
  \/ k.pc \in {"flush", "table", "register"} /\ c = k.cl

\* What nothing points at is free, or the call's.
NoneLost(k, f, fat, head) ==
  \A c \in Clst : fat[c] # 0 /\ Unowned(fat, head, c) => Holds(k, f, c)

\* A new chain is for an object or a directory that has none.
NewOK(k, f, dir) ==
  /\ k.pc = "scan" /\ k.clst = 0 =>
       \/ k.op = "mkdir" /\ k.cl = 0
       \/ k.op \in {"write", "lseek"} /\ f[k.e].sclust = 0
  /\ k.op = "mkdir" /\ k.pc # "sync" => dir[k.e].clst = 0

\* The object knows of a chain that its entry does not, and f_close would not
\* store it.
Ahead(f, dir, e) == f[e].open /\ ~f[e].modified /\ dir[e].clst # f[e].sclust

\* That is so only while f_lseek extends an empty file, which it ends by a
\* larger size and FA_MODIFIED, also when the volume is full.
AheadOK(k, f, fat, dir) ==
  \A e \in Entry : Ahead(f, dir, e) =>
    /\ k.op = "lseek" /\ k.e = e /\ f[e].size = 0 /\ f[e].fptr > 0
    /\ k.pc \in {"follow", "scan", "link", "ret"}
    /\ k.pc = "follow" => fat[k.clst] # 0
    /\ k.pc = "ret" => k.ret = 0 \/ (k.ret \in Clst /\ fat[k.ret] # 0)

\* No chain, no size.
SizesOK(f, dir) ==
  \A e \in Entry : /\ f[e].open /\ f[e].sclust = 0 => f[e].size = 0
                   /\ dir[e].clst = 0 => dir[e].size = 0
                   /\ dir[e].kind = "none" => dir[e].clst = 0

Lossless ==
  /\ NoneLost(call, fil, now.fat, Heads)
  /\ NewOK(call, fil, now.dir)
  /\ AheadOK(call, fil, now.fat, now.dir)
  /\ SizesOK(fil, now.dir)

LeakInv == faults = 0 => Lossless

LEMMA FaultLeaks == ASSUME IInv, faults' = faults + 1 PROVE LeakInv'
  BY DEF LeakInv, IInv, HistOK

\* What is known before a step without a fault.
LEMMA LeakBefore ==
  ASSUME IInv, OInv, CountInv, LeakInv, UNCHANGED faults, faults' = 0
  PROVE  Lossless /\ Sound /\ Agree
  BY DEF LeakInv, OInv, CountInv

\* A cluster that lost its owner is the call's; what the call held is owned now
\* or still held.
LEMMA LostKept ==
  ASSUME NEW fat, NEW head, NEW more, NEW k, NEW h, NEW f, NEW g, NoneLost(k, f, fat, head),
         \A e \in Entry : more[e] = head[e] \/ head[e] = 0 \/ Holds(h, g, head[e]),
         \A c \in Clst : fat[c] # 0 /\ Holds(k, f, c) =>
                           Holds(h, g, c) \/ \E e \in Entry : more[e] = c
  PROVE  NoneLost(h, g, fat, more)
<1> SUFFICES ASSUME NEW c \in Clst, fat[c] # 0, Unowned(fat, more, c) PROVE Holds(h, g, c)
  BY DEF NoneLost
<1>1. c # 0
  BY ClstFacts
<1>2. CASE \E e \in Entry : head[e] = c
  BY <1>1, <1>2 DEF Unowned
<1>3. CASE ~\E e \in Entry : head[e] = c
  <2>1. Unowned(fat, head, c)
    BY <1>3 DEF Unowned
  <2>2. Holds(k, f, c)
    BY <2>1 DEF NoneLost
  <2> QED
    BY <2>2 DEF Unowned
<1> QED
  BY <1>2, <1>3

\* The call goes on; the volume and the objects stay.
LEMMA StepLeaks ==
  ASSUME Lossless, UNCHANGED <<now, fil>>, call'.op = call.op, call'.e = call.e,
         \A c \in Clst : now.fat[c] # 0 /\ Holds(call, fil, c) => Holds(call', fil, c),
         NewOK(call', fil, now.dir), AheadOK(call', fil, now.fat, now.dir)
  PROVE  Lossless'
<1>1. Heads' = Heads
  BY HeadsSame
<1>2. NoneLost(call', fil, now.fat, Heads)
  BY DEF Lossless, NoneLost
<1> QED
  BY <1>1, <1>2 DEF Lossless

\* A call begins, or ends that was at no object and held nothing.
LEMMA EndsLeaks ==
  ASSUME Lossless, UNCHANGED <<now, fil>>, call.op \notin {"truncate", "lseek"},
         call'.op # "truncate", \A c \in Clst : now.fat[c] # 0 => ~Holds(call, fil, c),
         NewOK(call', fil, now.dir)
  PROVE  Lossless'
<1>1. Heads' = Heads
  BY DEF Heads, HeadOf
<1>2. NoneLost(call', fil, now.fat, Heads)
  BY DEF Lossless, NoneLost
<1>3. AheadOK(call', fil, now.fat, now.dir)
  BY DEF Lossless, AheadOK
<1> QED
  BY <1>1, <1>2, <1>3 DEF Lossless

LEMMA IdleHolds ==
  ASSUME NEW f, NEW fat, NEW dir
  PROVE  NewOK(Idle, f, dir) /\ \A c \in Clst : ~Holds(Idle, f, c)
  BY IdleIs DEF NewOK, Holds

\* The FAT changes, the directory and the objects do not.
LEMMA FatLeaks ==
  ASSUME Lossless, UNCHANGED fil, now'.dir = now.dir, call'.op = call.op, call'.e = call.e,
         NoneLost(call', fil, now'.fat, Heads),
         NewOK(call', fil, now.dir), AheadOK(call', fil, now'.fat, now.dir)
  PROVE  Lossless'
<1>1. Heads' = Heads
  BY HeadsSame
<1> QED
  BY <1>1 DEF Lossless

----------------------------------------------------------------------------
(* create_chain, remove_chain and sync_fs.                                 *)

LEMMA FollowLeaks ==
  ASSUME IInv, OInv, CountInv, LeakInv, create_follow PROVE LeakInv'
<1>1. /\ call.pc = "follow" /\ UNCHANGED <<now, fil, faults>>
      /\ CallOK /\ WindowOK /\ call \in CallRec /\ StageOK(call)
      /\ RolesOK(call, fil, now.dir, cut)
  BY DEF create_follow, IInv, CallOK, OInv, Agree
<1> SUFFICES ASSUME faults' = 0 PROVE Lossless'
  BY DEF LeakInv
<1>2. Lossless /\ Sound
  BY <1>1, LeakBefore
<1> DEFINE c == call.clst
           x == now.fat[c]
<1>3. c \in Clst /\ c # 0 /\ x \in Cell /\ x \in 0 .. NFatEnt + 1 /\ 1 \in 0 .. NFatEnt + 1
      /\ call.op \in {"write", "lseek"}
  <2>1. c \in Clst /\ call.op \in {"write", "lseek"}
    BY <1>1 DEF StageOK, RolesOK
  <2>2. c # 0 /\ 1 \in 0 .. NFatEnt + 1
    BY <2>1, ClstFacts, NFatEntAssumption
  <2>3. x \in Cell /\ x \in 0 .. NFatEnt + 1
    BY <1>1, <2>1, FatTyped
  <2> QED
    BY <2>1, <2>2, <2>3
<1>4. \A a \in Clst : ~Holds(call, fil, a)
  BY <1>1 DEF Holds
<1>5. \A e \in Entry : Ahead(fil, now.dir, e) =>
        /\ call.op = "lseek" /\ call.e = e /\ fil[e].size = 0 /\ fil[e].fptr > 0 /\ x # 0
  BY <1>1, <1>2 DEF Lossless, AheadOK
<1>6. CASE x = 0
  <2>1. Return(1)
    BY <1>6 DEF create_follow
  <2>2. call'.op = call.op /\ call'.e = call.e /\ call'.pc = "ret"
    BY <1>1, <1>3, <2>1, ReturnedIs
  <2>3. NewOK(call', fil, now.dir)
    BY <1>3, <2>2 DEF NewOK
  <2>4. AheadOK(call', fil, now.fat, now.dir)
    BY <1>5, <1>6 DEF AheadOK
  <2> QED
    BY <1>1, <1>2, <1>4, <2>2, <2>3, <2>4, StepLeaks
<1>7. CASE x # 0 /\ x # EOC
  <2>1. Return(x)
    BY <1>7 DEF create_follow
  <2>2. call'.op = call.op /\ call'.e = call.e /\ call'.pc = "ret" /\ call'.ret = x
    BY <1>1, <1>3, <2>1, ReturnedIs
  <2>3. NewOK(call', fil, now.dir)
    BY <1>3, <2>2 DEF NewOK
  <2>4. x \in Clst /\ now.fat[x] # 0
    BY <1>2, <1>3, <1>7 DEF Cell, Sound, Owned
  <2> HIDE DEF x
  <2>5. AheadOK(call', fil, now.fat, now.dir)
    BY <1>5, <2>2, <2>4 DEF AheadOK
  <2> QED
    BY <1>1, <1>2, <1>4, <2>2, <2>3, <2>5, StepLeaks
<1>8. CASE x = EOC /\ x # 0
  <2> DEFINE h == [call EXCEPT !.pc = "scan", !.scl = call.clst, !.ncl = call.clst]
  <2>1. call' = h
    BY <1>8 DEF create_follow
  <2>2. h.pc = "scan" /\ h.op = call.op /\ h.e = call.e /\ h.clst = c
    BY <1>1 DEF CallRec
  <2> HIDE DEF h, x
  <2>3. NewOK(h, fil, now.dir)
    BY <1>3, <2>2 DEF NewOK
  <2>4. AheadOK(h, fil, now.fat, now.dir)
    BY <1>5, <2>2 DEF AheadOK
  <2> QED
    BY <1>1, <1>2, <1>4, <2>1, <2>2, <2>3, <2>4, StepLeaks
<1> QED
  BY <1>6, <1>7, <1>8

\* The scan finds no free cluster, or goes on.
LEMMA ScanLeaks ==
  ASSUME IInv, OInv, CountInv, LeakInv, call.pc = "scan", UNCHANGED <<now, fil, faults>>,
         Return(0) \/ call' = [call EXCEPT !.ncl = ScanNext]
  PROVE  LeakInv'
<1>1. CallOK /\ call \in CallRec /\ RolesOK(call, fil, now.dir, cut)
  BY DEF IInv, CallOK, OInv, Agree
<1> SUFFICES ASSUME faults' = 0 PROVE Lossless'
  BY DEF LeakInv
<1>2. Lossless
  BY LeakBefore
<1>3. \A a \in Clst : ~Holds(call, fil, a)
  BY DEF Holds
<1>4. CASE Return(0)
  <2>1. 0 \in 0 .. NFatEnt + 1
    BY NFatEntAssumption
  <2>2. call'.op = call.op /\ call'.e = call.e /\ call'.pc = "ret" /\ call'.ret = 0
    BY <1>1, <1>4, <2>1, ReturnedIs
  <2>3. NewOK(call', fil, now.dir)
    BY <1>2, <2>2 DEF NewOK, Lossless
  <2>4. AheadOK(call', fil, now.fat, now.dir)
    BY <1>2, <2>2 DEF AheadOK, Lossless
  <2> QED
    BY <1>2, <1>3, <2>2, <2>3, <2>4, StepLeaks
<1>5. CASE call' = [call EXCEPT !.ncl = ScanNext]
  <2> DEFINE h == [call EXCEPT !.ncl = ScanNext]
  <2>1. h.pc = "scan" /\ h.op = call.op /\ h.e = call.e /\ h.clst = call.clst /\ h.cl = call.cl
    BY <1>1 DEF CallRec
  <2>2. call' = h
    BY <1>5
  <2> HIDE DEF h
  <2>3. NewOK(h, fil, now.dir)
    BY <1>2, <2>1 DEF NewOK, Lossless
  <2>4. AheadOK(h, fil, now.fat, now.dir)
    BY <1>2, <2>1 DEF AheadOK, Lossless
  <2> QED
    BY <1>2, <1>3, <2>1, <2>2, <2>3, <2>4, StepLeaks
<1> QED
  BY <1>4, <1>5

LEMMA ScanTakeLeaks ==
  ASSUME IInv, OInv, CountInv, LeakInv, scan_take PROVE LeakInv'
<1> DEFINE n == ScanNext
           h == [call EXCEPT !.pc = "link", !.ncl = n]
<1>1. /\ call.pc = "scan" /\ PutFat(n, EOC) /\ now.fat[n] = 0 /\ UNCHANGED <<fil, faults>>
      /\ \/ call.clst = 0 /\ Return(n)
         \/ call.clst # 0 /\ call' = h
      /\ WindowOK /\ CallOK /\ call \in CallRec /\ RolesOK(call, fil, now.dir, cut)
  BY DEF scan_take, IInv, CallOK, OInv, Agree
<1> SUFFICES ASSUME faults' = 0 PROVE Lossless'
  BY DEF LeakInv
<1>2. Lossless
  BY <1>1, LeakBefore
<1>3. n \in Clst /\ n \in 0 .. NFatEnt + 1 /\ EOC # 0 /\ EOC \notin Clst
  BY <1>1, ScanNextOK, ClstFacts, NFatEntAssumption DEF EOC
<1>4. /\ now'.fat = [now.fat EXCEPT ![n] = EOC] /\ now'.dir = now.dir
      /\ now.fat \in [Clst -> Cell]
  BY <1>1, PutFatIs, FatIs
<1>5. now'.fat[n] = EOC /\ \A d \in Clst : d # n => now'.fat[d] = now.fat[d]
  BY <1>3, <1>4
<1>6. call'.op = call.op /\ call'.e = call.e
      /\ \/ call'.pc = "ret" /\ call'.ret = n /\ call'.cl = call.cl /\ call.clst = 0
         \/ call'.pc = "link" /\ call'.ncl = n
  <2>1. CASE call.clst = 0 /\ Return(n)
    BY <1>1, <1>3, <2>1, ReturnedIs
  <2>2. CASE call' = h
    <3>1. h.pc = "link" /\ h.ncl = n /\ h.op = call.op /\ h.e = call.e
      BY <1>1, <1>3 DEF CallRec
    <3> QED
      BY <2>2, <3>1
  <2> QED
    BY <1>1, <2>1, <2>2
<1> HIDE DEF n, h
<1>7. Holds(call', fil, n)
  BY <1>1, <1>2, <1>6 DEF Holds, NewOK, Lossless
<1>8. NoneLost(call', fil, now'.fat, Heads)
  <2> SUFFICES ASSUME NEW c \in Clst, now'.fat[c] # 0, Unowned(now'.fat, Heads, c)
               PROVE  Holds(call', fil, c)
    BY DEF NoneLost
  <2>1. CASE c = n
    BY <1>7, <2>1
  <2>2. CASE c # n
    <3>1. now.fat[c] # 0 /\ Unowned(now.fat, Heads, c)
      BY <1>1, <1>5, <2>2, ClstFacts DEF Unowned
    <3>2. Holds(call, fil, c)
      BY <1>2, <3>1 DEF Lossless, NoneLost
    <3> QED
      BY <1>1, <3>2 DEF Holds
  <2> QED
    BY <2>1, <2>2
<1>9. NewOK(call', fil, now.dir)
  BY <1>1, <1>2, <1>6 DEF NewOK, Lossless
<1>10. AheadOK(call', fil, now'.fat, now.dir)
  BY <1>1, <1>2, <1>3, <1>5, <1>6 DEF AheadOK, Lossless
<1> QED
  BY <1>1, <1>2, <1>4, <1>6, <1>8, <1>9, <1>10, FatLeaks

LEMMA LinkLeaks ==
  ASSUME IInv, OInv, CountInv, LeakInv, create_link PROVE LeakInv'
<1> DEFINE n == call.ncl
           p == call.clst
<1>1. /\ call.pc = "link" /\ PutFat(p, n) /\ Return(n) /\ UNCHANGED <<fil, faults>>
      /\ WindowOK /\ CallOK /\ StageOK(call) /\ RolesOK(call, fil, now.dir, cut)
  BY DEF create_link, IInv, CallOK, OInv, Agree
<1> SUFFICES ASSUME faults' = 0 PROVE Lossless'
  BY DEF LeakInv
<1>2. Lossless /\ Sound
  BY <1>1, LeakBefore
<1>3. p \in Clst /\ n \in Clst /\ n \in 0 .. NFatEnt + 1 /\ p # 0 /\ n # 0
      /\ EOC # 0 /\ EOC \notin Clst
  BY <1>1, ClstFacts, NFatEntAssumption DEF StageOK, EOC, Clst
<1>4. /\ now'.fat = [now.fat EXCEPT ![p] = n] /\ now'.dir = now.dir
      /\ now.fat \in [Clst -> Cell]
  BY <1>1, PutFatIs, FatIs
<1>5. now'.fat[p] = n /\ \A d \in Clst : d # p => now'.fat[d] = now.fat[d]
  BY <1>3, <1>4
<1>6. call'.op = call.op /\ call'.e = call.e /\ call'.pc = "ret" /\ call'.ret = n
  BY <1>1, <1>3, ReturnedIs
<1>7. now.fat[p] = EOC /\ now.fat[n] # 0 /\ call.op \in {"write", "lseek"}
  BY <1>1, <1>2, <1>3 DEF Sound, LinksOK, HeldOK, Fresh, RolesOK
<1> HIDE DEF n, p
<1>8. NoneLost(call', fil, now'.fat, Heads)
  <2> SUFFICES ASSUME NEW c \in Clst, now'.fat[c] # 0, Unowned(now'.fat, Heads, c)
               PROVE  FALSE
    BY DEF NoneLost
  <2>1. c # n
    BY <1>3, <1>5 DEF Unowned
  <2>2. now.fat[c] # 0 /\ Unowned(now.fat, Heads, c)
    BY <1>3, <1>5, <1>7 DEF Unowned
  <2>3. Holds(call, fil, c)
    BY <1>2, <2>2 DEF Lossless, NoneLost
  <2> QED
    BY <1>1, <2>1, <2>3 DEF Holds, n
<1>9. NewOK(call', fil, now.dir)
  BY <1>6, <1>7 DEF NewOK
<1>10. AheadOK(call', fil, now'.fat, now.dir)
  BY <1>1, <1>2, <1>3, <1>5, <1>6, <1>7 DEF AheadOK, Lossless
<1> QED
  BY <1>1, <1>2, <1>4, <1>6, <1>8, <1>9, <1>10, FatLeaks

LEMMA CutLeaks ==
  ASSUME IInv, OInv, CountInv, LeakInv, remove_cut PROVE LeakInv'
<1> DEFINE p == call.pclst
           n == call.clst
           h == [call EXCEPT !.pc = "free", !.pclst = 0]
<1>1. /\ call.pc = "cut" /\ PutFat(p, EOC) /\ call' = h /\ UNCHANGED <<fil, faults>>
      /\ WindowOK /\ call \in CallRec /\ StageOK(call)
  BY DEF remove_cut, IInv, CallOK
<1> SUFFICES ASSUME faults' = 0 PROVE Lossless'
  BY DEF LeakInv
<1>2. Lossless /\ Sound
  BY <1>1, LeakBefore
<1>3. p \in Clst /\ n \in Clst /\ EOC \notin Clst /\ 0 \notin Clst
  BY <1>1, ClstFacts, NFatEntAssumption DEF StageOK, EOC
<1>4. /\ now'.fat = [now.fat EXCEPT ![p] = EOC] /\ now'.dir = now.dir
      /\ now.fat \in [Clst -> Cell]
  BY <1>1, PutFatIs, FatIs
<1>5. now'.fat[p] = EOC /\ \A d \in Clst : d # p => now'.fat[d] = now.fat[d]
  BY <1>3, <1>4
<1>6. call'.op = call.op /\ call'.e = call.e /\ call'.pc = "free" /\ call'.clst = n
  BY <1>1 DEF CallRec
<1>7. now.fat[p] = n
  BY <1>1, <1>2 DEF Sound, LinksOK
<1> HIDE DEF n, p, h
<1>8. NoneLost(call', fil, now'.fat, Heads)
  <2> SUFFICES ASSUME NEW c \in Clst, now'.fat[c] # 0, Unowned(now'.fat, Heads, c)
               PROVE  Holds(call', fil, c)
    BY DEF NoneLost
  <2>1. CASE c = n
    BY <1>6, <2>1 DEF Holds
  <2>2. CASE c # n
    <3>1. now.fat[c] # 0 /\ Unowned(now.fat, Heads, c)
      BY <1>3, <1>5, <1>7, <2>2 DEF Unowned
    <3>2. Holds(call, fil, c)
      BY <1>2, <3>1 DEF Lossless, NoneLost
    <3> QED
      BY <1>1, <3>2 DEF Holds
  <2> QED
    BY <2>1, <2>2
<1>9. NewOK(call', fil, now.dir)
  BY <1>1, <1>2, <1>6 DEF NewOK, Lossless
<1>10. AheadOK(call', fil, now'.fat, now.dir)
  BY <1>1, <1>2 DEF AheadOK, Lossless
<1> QED
  BY <1>1, <1>2, <1>4, <1>6, <1>8, <1>9, <1>10, FatLeaks

LEMMA FreeLeaks ==
  ASSUME IInv, OInv, CountInv, LeakInv, remove_free PROVE LeakInv'
<1> DEFINE n == call.clst
           x == now.fat[n]
           h == [call EXCEPT !.clst = x]
<1>1. /\ call.pc = "free" /\ UNCHANGED <<fil, faults>>
      /\ \/ x = 0 /\ Return(0) /\ UNCHANGED now
         \/ x # 0 /\ PutFat(n, 0) /\ ((Return(0) /\ x = EOC) \/ (call' = h /\ x # EOC))
      /\ WindowOK /\ CallOK /\ call \in CallRec /\ StageOK(call)
  <2>1. CASE x = 0
    BY <2>1 DEF remove_free, IInv, CallOK
  <2>2. CASE x # 0 /\ x = EOC
    BY <2>2 DEF remove_free, IInv, CallOK
  <2>3. CASE x # 0 /\ x # EOC
    BY <2>3 DEF remove_free, IInv, CallOK
  <2> QED
    BY <2>1, <2>2, <2>3
<1> SUFFICES ASSUME faults' = 0 PROVE Lossless'
  BY DEF LeakInv
<1>2. Lossless
  BY <1>1, LeakBefore
<1>3. n \in Clst /\ 0 \notin Clst /\ EOC \notin Clst /\ 0 \in 0 .. NFatEnt + 1 /\ x \in Cell
  BY <1>1, ClstFacts, FatTyped, NFatEntAssumption DEF StageOK, EOC
<1>4. call'.op = call.op /\ call'.e = call.e
      /\ \/ call'.pc = "ret" /\ call'.ret = 0
         \/ call'.pc = "free" /\ call'.clst = x
  <2>1. CASE Return(0)
    BY <1>1, <1>3, <2>1, ReturnedIs
  <2>2. CASE call' = h
    <3>1. h.op = call.op /\ h.e = call.e /\ h.pc = "free" /\ h.clst = x
      BY <1>1 DEF CallRec
    <3> QED
      BY <2>2, <3>1
  <2> QED
    BY <1>1, <2>1, <2>2
<1>5. NewOK(call', fil, now.dir)
  BY <1>1, <1>2, <1>4 DEF NewOK, Lossless
<1>6. \A fat : AheadOK(call', fil, fat, now.dir)
  BY <1>1, <1>2 DEF AheadOK, Lossless
<1> HIDE DEF h
<1>7. CASE x = 0
  <2>1. \A c \in Clst : now.fat[c] # 0 => ~Holds(call, fil, c)
    BY <1>1, <1>7 DEF Holds
  <2> QED
    BY <1>1, <1>2, <1>4, <1>5, <1>6, <1>7, <2>1, StepLeaks
<1>8. CASE x # 0
  <2>1. /\ now'.fat = [now.fat EXCEPT ![n] = 0] /\ now'.dir = now.dir
        /\ now.fat \in [Clst -> Cell] /\ (call'.pc # "free" => x = EOC)
    <3>1. call'.pc # "free" => x = EOC
      <4>1. call' = h => call'.pc = "free"
        BY <1>1 DEF CallRec, h
      <4> QED
        BY <1>1, <1>8, <4>1
    <3> QED
      BY <1>1, <1>8, <3>1, PutFatIs, FatIs
  <2>2. now'.fat[n] = 0 /\ \A d \in Clst : d # n => now'.fat[d] = now.fat[d]
    BY <1>3, <2>1
  <2> HIDE DEF n
  <2>3. NoneLost(call', fil, now'.fat, Heads)
    <3> SUFFICES ASSUME NEW c \in Clst, now'.fat[c] # 0, Unowned(now'.fat, Heads, c)
                 PROVE  Holds(call', fil, c)
      BY DEF NoneLost
    <3>1. c # n /\ now.fat[c] # 0
      BY <2>2
    <3>2. CASE c = x
      BY <1>3, <1>4, <2>1, <3>2 DEF Holds
    <3>3. CASE c # x
      <4>1. Unowned(now.fat, Heads, c)
        BY <2>2, <3>1, <3>3 DEF Unowned
      <4>2. Holds(call, fil, c)
        BY <1>2, <3>1, <4>1 DEF Lossless, NoneLost
      <4> QED
        BY <1>1, <3>1, <4>2 DEF Holds, n
    <3> QED
      BY <3>2, <3>3
  <2> QED
    BY <1>1, <1>2, <1>4, <1>5, <1>6, <2>1, <2>3, FatLeaks
<1> QED
  BY <1>7, <1>8

----------------------------------------------------------------------------
(* The objects and the entries.                                            *)

HeadFrom(g, d) == IF g.open THEN g.sclust ELSE d.clst

\* The call holds no cluster but c.
HoldsOnly(c) == \A a \in Clst : now.fat[a] # 0 /\ Holds(call, fil, a) => a = c

HoldsNone == \A a \in Clst : ~Holds(call, fil, a)

\* An object changes, the volume does not: what the call held is the object's.
LEMMA ObjectLeaks ==
  ASSUME Lossless, UNCHANGED now, fil \in [Entry -> File],
         NEW e \in Entry, NEW g, fil' = [fil EXCEPT ![e] = g],
         call.op = "truncate" => call.e = e, call'.op # "truncate",
         HeadFrom(g, now.dir[e]) = Heads[e] \/ Heads[e] = 0,
         HoldsOnly(HeadFrom(g, now.dir[e])),
         g.open /\ g.sclust = 0 => g.size = 0,
         NewOK(call', fil', now.dir), AheadOK(call', fil', now.fat, now.dir)
  PROVE  Lossless'
<1>1. fil'[e] = g /\ \A d \in Entry : d # e => fil'[d] = fil[d]
  OBVIOUS
<1> DEFINE hd == Heads'
           c == HeadFrom(g, now.dir[e])
<1>2. hd[e] = c /\ \A d \in Entry : d # e => hd[d] = Heads[d]
  BY <1>1, HeadIs DEF HeadOf, HeadFrom
<1> HIDE DEF hd
<1>3. NoneLost(call, fil, now.fat, Heads)
  BY DEF Lossless
<1>4. \A d \in Entry : hd[d] = Heads[d] \/ Heads[d] = 0
  BY <1>2
<1>5. \A a \in Clst : now.fat[a] # 0 /\ Holds(call, fil, a) => \E d \in Entry : hd[d] = a
  BY <1>2 DEF HoldsOnly
<1>6. NoneLost(call', fil', now.fat, hd)
  BY <1>3, <1>4, <1>5, LostKept
<1>7. SizesOK(fil', now.dir)
  BY <1>1 DEF Lossless, SizesOK
<1> QED
  BY <1>6, <1>7 DEF Lossless, hd

\* The call ends with the object it was about.
LEMMA ObjectEnds ==
  ASSUME Lossless, UNCHANGED now, fil \in [Entry -> File],
         NEW e \in Entry, NEW g, fil' = [fil EXCEPT ![e] = g],
         call.op \in {"truncate", "lseek"} => call.e = e, call' = Idle,
         HeadFrom(g, now.dir[e]) = Heads[e] \/ Heads[e] = 0,
         HoldsOnly(HeadFrom(g, now.dir[e])),
         g.open /\ g.sclust = 0 => g.size = 0,
         g.open => g.modified \/ now.dir[e].clst = g.sclust
  PROVE  Lossless'
<1>1. fil'[e] = g /\ \A d \in Entry : d # e => fil'[d] = fil[d]
  OBVIOUS
<1>2. \A d \in Entry : Ahead(fil, now.dir, d) => d = e
  BY DEF Lossless, AheadOK
<1>3. \A d \in Entry : ~Ahead(fil', now.dir, d)
  BY <1>1, <1>2 DEF Ahead
<1>4. AheadOK(call', fil', now.fat, now.dir)
  BY <1>3 DEF AheadOK
<1>5. NewOK(call', fil', now.dir)
  BY IdleHolds
<1>6. call'.op # "truncate" /\ (call.op = "truncate" => call.e = e)
  BY IdleIs
<1> QED
  BY <1>4, <1>5, <1>6, ObjectLeaks

\* One entry changes, perhaps with its object: the chain it starts no more is
\* the call's.
LEMMA DirLeaks ==
  ASSUME Lossless, IInv, NEW e \in Entry, NEW x, PutDir(e, x),
         NEW g, fil'[e] = g, \A d \in Entry : d # e => fil'[d] = fil[d],
         call.op \notin {"truncate", "lseek"}, call'.op # "truncate",
         HeadFrom(g, x) = Heads[e] \/ Heads[e] = 0 \/ Holds(call', fil', Heads[e]),
         HoldsOnly(HeadFrom(g, x)),
         NewOK(call', fil', now'.dir),
         g.open /\ g.sclust = 0 => g.size = 0,
         g.open => g.modified \/ x.clst = g.sclust,
         x.clst = 0 => x.size = 0, x.kind = "none" => x.clst = 0
  PROVE  Lossless'
<1>1. WindowOK
  BY DEF IInv
<1>2. /\ now'.fat = now.fat /\ now'.dir[e] = x
      /\ \A d \in Entry : d # e => now'.dir[d] = now.dir[d]
  BY <1>1, PutDirIs
<1> DEFINE hd == Heads'
           c == HeadFrom(g, x)
<1>3. hd[e] = c /\ \A d \in Entry : d # e => hd[d] = Heads[d]
  BY <1>2, HeadIs DEF HeadOf, HeadFrom
<1> HIDE DEF hd
<1>4. NoneLost(call, fil, now.fat, Heads)
  BY DEF Lossless
<1>5. \A d \in Entry : hd[d] = Heads[d] \/ Heads[d] = 0 \/ Holds(call', fil', Heads[d])
  BY <1>3
<1>6. \A a \in Clst : now.fat[a] # 0 /\ Holds(call, fil, a) => \E d \in Entry : hd[d] = a
  BY <1>3 DEF HoldsOnly
<1>7. NoneLost(call', fil', now.fat, hd)
  BY <1>4, <1>5, <1>6, LostKept
<1>8. SizesOK(fil', now'.dir)
  BY <1>2 DEF Lossless, SizesOK
<1>9. \A d \in Entry : ~Ahead(fil, now.dir, d)
  BY DEF Lossless, AheadOK
<1>10. \A d \in Entry : ~Ahead(fil', now'.dir, d)
  BY <1>2, <1>9 DEF Ahead
<1>11. AheadOK(call', fil', now'.fat, now'.dir)
  BY <1>10 DEF AheadOK
<1> QED
  BY <1>2, <1>7, <1>8, <1>11 DEF Lossless, hd

LEMMA CleanSize == ASSUME NEW f \in File
                   PROVE  [f EXCEPT !.modified = FALSE].size = f.size
  BY DEF File

LEMMA NoneIsOnly == ASSUME HoldsNone PROVE \A c : HoldsOnly(c)
  BY DEF HoldsNone, HoldsOnly

LEMMA SyncFsLeaks ==
  ASSUME IInv, OInv, CountInv, LeakInv, sync_fs PROVE LeakInv'
<1>1. /\ call.pc = "sync" /\ AfterSync(TRUE) /\ call' = Idle /\ UNCHANGED now
      /\ faults' \in {faults, faults + 1}
      /\ RolesOK(call, fil, now.dir, cut) /\ StageOK(call) /\ fil \in [Entry -> File]
  <2>1. faults' \in {faults, faults + 1}
    BY DEF sync_fs, SyncFsi
  <2> QED
    BY <2>1 DEF sync_fs, Finish, OInv, Agree, IInv, CallOK, FilesOK
<1> SUFFICES ASSUME faults' = faults, faults' = 0 PROVE Lossless'
  BY <1>1, FaultLeaks DEF LeakInv
<1>2. Lossless
  BY LeakBefore
<1>3. HoldsNone
  BY <1>1 DEF HoldsNone, Holds
<1>4. CASE call.op \in {"sync", "close"}
  <2> DEFINE e == call.e
             f == fil[e]
             g == IF call.op = "close" THEN ClosedFil ELSE [f EXCEPT !.modified = FALSE]
  <2>1. fil' = [fil EXCEPT ![e] = g]
    BY <1>1, <1>4 DEF AfterSync, UpdateFil
  <2>2. e \in Entry /\ f.open /\ now.dir[e] = FileEnt(f.sclust, f.size) /\ f \in File
    BY <1>1, <1>4 DEF StageOK, RolesOK
  <2>3. g.open => g.sclust = f.sclust /\ g.size = f.size
    BY <2>2, CleanIs, CleanSize, ClosedIs
  <2> HIDE DEF g
  <2>4. now.dir[e].clst = f.sclust /\ Heads[e] = f.sclust
    BY <1>4, <2>2, FileEntIs, HeadIs DEF HeadOf
  <2>5. HeadFrom(g, now.dir[e]) = Heads[e]
    BY <2>3, <2>4 DEF HeadFrom
  <2>6. g.open /\ g.sclust = 0 => g.size = 0
    BY <1>2, <2>2, <2>3 DEF Lossless, SizesOK
  <2>7. g.open => g.modified \/ now.dir[e].clst = g.sclust
    BY <2>3, <2>4
  <2>8. call.op \in {"truncate", "lseek"} => call.e = e
    OBVIOUS
  <2>9. UNCHANGED now /\ fil \in [Entry -> File] /\ call' = Idle /\ e \in Entry
    BY <1>1, <2>2
  <2> HIDE DEF e
  <2> QED
    BY <1>2, <1>3, <2>1, <2>5, <2>6, <2>7, <2>8, <2>9, NoneIsOnly, ObjectEnds
<1>5. CASE call.op \notin {"sync", "close"}
  <2>1. UNCHANGED fil
    BY <1>1, <1>5 DEF AfterSync
  <2>2. call.op \notin {"truncate", "lseek"} \/ call.op = "lseek"
    BY <1>1 DEF RolesOK
  <2>3. CASE call.op # "lseek"
    BY <1>1, <1>2, <1>3, <2>1, <2>2, <2>3, IdleHolds, IdleIs, EndsLeaks DEF HoldsNone
  <2>4. CASE call.op = "lseek"
    <3>1. \A e \in Entry : ~Ahead(fil, now.dir, e)
      BY <1>1, <1>2 DEF Lossless, AheadOK
    <3>2. Heads' = Heads
      BY <1>1, <2>1, <2>4, IdleIs DEF Heads, HeadOf
    <3>3. NoneLost(call', fil, now.fat, Heads)
      BY <1>2, <1>3 DEF Lossless, NoneLost, HoldsNone
    <3>4. NewOK(call', fil, now.dir) /\ AheadOK(call', fil, now.fat, now.dir)
      BY <1>1, <3>1, IdleHolds DEF AheadOK
    <3> QED
      BY <1>1, <1>2, <2>1, <3>2, <3>3, <3>4 DEF Lossless
  <2> QED
    BY <2>3, <2>4
<1> QED
  BY <1>4, <1>5

LEMMA OpenSize ==
  ASSUME NEW c \in {0} \cup Clst, NEW n \in 0 .. MaxSize, NEW m \in BOOLEAN
  PROVE  OpenFil(c, n, m).size = n /\ OpenFil(c, n, m).modified = m
<1> DEFINE f1 == [ClosedFil EXCEPT !.open = TRUE]
<1>1. ClosedFil \in File
  BY ClosedOK DEF FileOK
<1>2. f1 \in File
  BY <1>1 DEF File
<1> HIDE DEF f1
<1> DEFINE f2 == [f1 EXCEPT !.sclust = c]
<1>3. f2 \in File
  BY <1>2 DEF File
<1> HIDE DEF f2
<1> DEFINE f3 == [f2 EXCEPT !.size = n]
<1>4. f3 \in File /\ f3.size = n
  BY <1>3 DEF File
<1> HIDE DEF f3
<1> DEFINE f4 == [f3 EXCEPT !.modified = m]
<1>5. f4.size = n /\ f4.modified = m
  BY <1>4 DEF File
<1>6. OpenFil(c, n, m) = f4
  BY Zenon DEF OpenFil, f1, f2, f3
<1> HIDE DEF f4
<1> QED
  BY <1>5, <1>6

LEMMA NewSize == OpenFil(0, 0, TRUE).size = 0 /\ OpenFil(0, 0, TRUE).modified
<1>1. 0 \in 0 .. MaxSize /\ 0 \in {0} \cup Clst
  BY MaxSizeAssumption
<1> DEFINE t == TRUE
<1>2. t \in BOOLEAN
  OBVIOUS
<1> HIDE DEF t
<1>3. OpenFil(0, 0, t).size = 0 /\ OpenFil(0, 0, t).modified = t
  BY <1>1, <1>2, OpenSize
<1> QED
  BY <1>3, Zenon DEF t

\* Between calls no object knows more than its entry, but for what f_sync and
\* f_close will store.
LEMMA IdleKnows ==
  ASSUME Lossless, call = Idle
  PROVE  /\ call.op = "idle" /\ call.pc = "none"
         /\ HoldsNone
         /\ \A e \in Entry : fil[e].open => fil[e].modified \/ now.dir[e].clst = fil[e].sclust
<1>1. call.op = "idle" /\ call.pc = "none"
  BY IdleIs
<1>2. \A e \in Entry : ~Ahead(fil, now.dir, e)
  BY <1>1 DEF Lossless, AheadOK
<1>3. HoldsNone
  BY <1>1 DEF HoldsNone, Holds
<1> QED
  BY <1>1, <1>2, <1>3 DEF Ahead

\* A call that ends at once, or at a stage that looks only.
LEMMA LooksLeaks ==
  ASSUME IInv, OInv, CountInv, LeakInv, call = Idle, UNCHANGED <<now, fil, faults>>,
         call'.op \notin {"truncate", "mkdir"}, call'.pc # "scan"
  PROVE  LeakInv'
<1> SUFFICES ASSUME faults' = 0 PROVE Lossless'
  BY DEF LeakInv
<1>1. Lossless
  BY LeakBefore
<1>2. call.op = "idle" /\ HoldsNone
  BY <1>1, IdleKnows
<1>3. NewOK(call', fil, now.dir)
  BY DEF NewOK
<1> QED
  BY <1>1, <1>2, <1>3, EndsLeaks DEF HoldsNone

LEMMA OpenLeaks ==
  ASSUME IInv, OInv, CountInv, LeakInv, NEW e \in Entry, f_open(e) PROVE LeakInv'
<1> DEFINE d == now.dir[e]
           g == OpenFil(d.clst, d.size, FALSE)
<1>1. /\ call = Idle /\ call' = Idle /\ ~fil[e].open
      /\ fil' = [fil EXCEPT ![e] = IF d.kind = "file" THEN g ELSE @]
      /\ UNCHANGED <<now, faults>> /\ fil \in [Entry -> File] /\ WindowOK
  BY DEF f_open, IInv, FilesOK
<1>2. CASE d.kind # "file"
  <2>1. UNCHANGED fil
    BY <1>1, <1>2
  <2> QED
    BY <1>1, <2>1, IdleIs, LooksLeaks
<1>3. CASE d.kind = "file"
  <2> SUFFICES ASSUME faults' = 0 PROVE Lossless'
    BY DEF LeakInv
  <2>1. Lossless
    BY <1>1, LeakBefore
  <2>2. fil' = [fil EXCEPT ![e] = g]
    BY <1>1, <1>3
  <2>3. d \in Ent
    BY <1>1, EntTyped
  <2>4. g.open /\ g.sclust = d.clst /\ g.size = d.size
    <3>1. d.clst \in {0} \cup Clst /\ d.size \in 0 .. MaxSize
      BY <2>3 DEF Ent
    <3> HIDE DEF d
    <3> QED
      BY <3>1, OpenIs, OpenSize
  <2>5. HeadFrom(g, now.dir[e]) = Heads[e]
    BY <1>1, <2>4, HeadIs DEF HeadOf, HeadFrom
  <2>6. g.sclust = 0 => g.size = 0
    BY <2>1, <2>4 DEF Lossless, SizesOK
  <2>7. call.op = "idle" /\ HoldsNone
    BY <1>1, <2>1, IdleKnows
  <2> HIDE DEF g
  <2> QED
    BY <1>1, <2>1, <2>2, <2>4, <2>5, <2>6, <2>7, NoneIsOnly, ObjectEnds
<1> QED
  BY <1>2, <1>3

LEMMA CreateLeaks ==
  ASSUME IInv, OInv, CountInv, LeakInv, NEW e \in Entry, f_open_create(e) PROVE LeakInv'
<1> DEFINE c == now.dir[e].clst
           x == FileEnt(0, 0)
           b == Begin("create", e)
           k == [b EXCEPT !.cl = c]
           h == Removing(k, c, 0)
           g == OpenFil(0, 0, TRUE)
<1>1. /\ call = Idle /\ ~fil[e].open /\ PutDir(e, x) /\ UNCHANGED faults
      /\ \/ c = 0 /\ fil' = [fil EXCEPT ![e] = g] /\ UNCHANGED call
         \/ c # 0 /\ call' = h /\ UNCHANGED fil
      /\ WindowOK /\ fil \in [Entry -> File]
  BY DEF f_open_create, IInv, FilesOK
<1> SUFFICES ASSUME faults' = 0 PROVE Lossless'
  BY DEF LeakInv
<1>2. Lossless
  BY <1>1, LeakBefore
<1>3. call.op = "idle" /\ HoldsNone
  BY <1>1, <1>2, IdleKnows
<1>4. x.kind = "file" /\ x.clst = 0 /\ x.size = 0
  BY DEF FileEnt
<1>5. Heads[e] = c /\ c \in {0} \cup Clst
  <2>1. now.dir[e] \in Ent
    BY <1>1, EntTyped
  <2> QED
    BY <1>1, <2>1, HeadIs DEF HeadOf, Ent
<1> HIDE DEF x
<1>6. CASE c = 0
  <2>1. fil'[e] = g /\ call' = Idle /\ \A d \in Entry : d # e => fil'[d] = fil[d]
    BY <1>1, <1>6
  <2>2. g.open /\ g.sclust = 0 /\ g.size = 0 /\ g.modified /\ HeadFrom(g, x) = Heads[e]
    BY <1>5, <1>6, NewIs, NewSize DEF HeadFrom
  <2>3. NewOK(call', fil', now'.dir)
    BY <2>1, IdleHolds
  <2> HIDE DEF g
  <2> QED
    BY <1>1, <1>2, <1>3, <1>4, <1>5, <1>6, <2>1, <2>2, <2>3, IdleIs, NoneIsOnly, DirLeaks
<1>7. CASE c # 0
  <2>1. call' = h /\ UNCHANGED fil /\ c \in Clst
    BY <1>1, <1>5, <1>7
  <2>2. b = [op |-> "create", pc |-> "none", e |-> e, clst |-> 0, pclst |-> 0,
             ncl |-> 0, scl |-> 0, ret |-> 0, cl |-> 0, rem |-> 0]
    BY BeginIs
  <2> HIDE DEF b
  <2>3. k = [op |-> "create", pc |-> "none", e |-> e, clst |-> 0, pclst |-> 0,
             ncl |-> 0, scl |-> 0, ret |-> 0, cl |-> c, rem |-> 0]
    BY <2>2
  <2> HIDE DEF k
  <2>4. k \in CallRec
    BY <2>1, <2>3, NFatEntAssumption DEF CallRec, Op, Pc
  <2>5. StageOK(k) /\ k.op = "create" /\ k.e = e
    BY <2>1, <2>3 DEF StageOK
  <2>6. 0 \in {0} \cup Clst
    OBVIOUS
  <2>7. h.op = "create" /\ h.e = e /\ h.pc = "free" /\ h.clst = c
    BY <2>1, <2>4, <2>5, <2>6, RemovingOK DEF SameCall
  <2> HIDE DEF h
  <2>8. NewOK(call', fil', now'.dir)
    BY <2>1, <2>7 DEF NewOK
  <2>9. Holds(call', fil', Heads[e])
    BY <1>5, <2>1, <2>7 DEF Holds
  <2> QED
    BY <1>1, <1>2, <1>3, <1>4, <2>1, <2>7, <2>8, <2>9, NoneIsOnly, DirLeaks
<1> QED
  BY <1>6, <1>7

LEMMA OpenRemovedLeaks ==
  ASSUME IInv, OInv, CountInv, LeakInv, open_removed PROVE LeakInv'
<1>1. /\ call.pc = "ret" /\ call.op = "create" /\ UNCHANGED <<now, fil, faults>>
      /\ Goto("back") \/ call' = Idle
      /\ call \in CallRec
  BY DEF open_removed, Finish, IInv, CallOK
<1> SUFFICES ASSUME faults' = 0 PROVE Lossless'
  BY DEF LeakInv
<1>2. Lossless
  BY <1>1, LeakBefore
<1>3. HoldsNone
  BY <1>1 DEF HoldsNone, Holds
<1>4. Goto("back") => call'.pc = "back" /\ call'.op = call.op
  BY <1>1 DEF Goto, CallRec
<1>5. call'.op # "truncate" /\ NewOK(call', fil, now.dir)
  BY <1>1, <1>4, IdleHolds, IdleIs DEF NewOK
<1> QED
  BY <1>1, <1>2, <1>3, <1>5, EndsLeaks DEF HoldsNone

LEMMA OpenBackLeaks ==
  ASSUME IInv, OInv, CountInv, LeakInv, open_back PROVE LeakInv'
<1> DEFINE e == call.e
           g == OpenFil(0, 0, TRUE)
<1>1. /\ call.pc = "back" /\ fil' = [fil EXCEPT ![e] = g] /\ call' = Idle
      /\ UNCHANGED <<now, faults>> /\ fil \in [Entry -> File]
  BY DEF open_back, UpdateFil, Finish, IInv, FilesOK
<1>2. call.op = "create" /\ ~fil[e].open /\ e \in Entry /\ now.dir[e].clst = 0
  BY <1>1 DEF OInv, Agree, RolesOK, IInv, CallOK, StageOK
<1> SUFFICES ASSUME faults' = 0 PROVE Lossless'
  BY DEF LeakInv
<1>3. Lossless
  BY <1>1, LeakBefore
<1>4. g.open /\ g.sclust = 0 /\ g.size = 0 /\ g.modified
  BY NewIs, NewSize
<1>5. Heads[e] = 0 /\ HoldsNone
  BY <1>1, <1>2, HeadIs DEF HeadOf, HoldsNone, Holds
<1> HIDE DEF g, e
<1>6. HeadFrom(g, now.dir[e]) = Heads[e]
  BY <1>4, <1>5 DEF HeadFrom
<1> QED
  BY <1>1, <1>2, <1>3, <1>4, <1>5, <1>6, NoneIsOnly, ObjectEnds

LEMMA UpdateLeaks ==
  ASSUME IInv, OInv, CountInv, LeakInv, NEW op \in {"sync", "close"}, NEW e \in Entry,
         call = Idle, fil[e].open, Update(op, e), UNCHANGED faults
  PROVE  LeakInv'
<1> DEFINE f == fil[e]
           x == FileEnt(f.sclust, f.size)
           b == Begin(op, e)
           h == [b EXCEPT !.pc = "sync"]
<1>1. PutDir(e, x) /\ call' = h /\ UNCHANGED fil
  BY DEF Update
<1> SUFFICES ASSUME faults' = 0 PROVE Lossless'
  BY DEF LeakInv
<1>2. Lossless
  BY LeakBefore
<1>3. call.op = "idle" /\ HoldsNone
  BY <1>2, IdleKnows
<1>4. x.kind = "file" /\ x.clst = f.sclust /\ x.size = f.size
  BY DEF FileEnt
<1>5. b = [op |-> op, pc |-> "none", e |-> e, clst |-> 0, pclst |-> 0,
           ncl |-> 0, scl |-> 0, ret |-> 0, cl |-> 0, rem |-> 0]
  BY BeginIs
<1> HIDE DEF b
<1>6. h.op = op /\ h.pc = "sync"
  BY <1>5
<1> HIDE DEF h, x
<1>7. NewOK(call', fil', now'.dir) /\ call'.op # "truncate"
  BY <1>1, <1>6 DEF NewOK
<1>8. HeadFrom(f, x) = Heads[e]
  BY <1>3, HeadIs DEF HeadOf, HeadFrom
<1>9. f.sclust = 0 => f.size = 0
  BY <1>2 DEF Lossless, SizesOK
<1>10. fil'[e] = f /\ \A d \in Entry : d # e => fil'[d] = fil[d]
  BY <1>1
<1> HIDE DEF f
<1> QED
  BY <1>1, <1>2, <1>3, <1>4, <1>7, <1>8, <1>9, <1>10, NoneIsOnly, DirLeaks

LEMMA FileSyncLeaks ==
  ASSUME IInv, OInv, CountInv, LeakInv, NEW e \in Entry, f_sync(e) PROVE LeakInv'
<1>1. call = Idle /\ fil[e].open /\ UNCHANGED faults
  BY DEF f_sync
<1>2. CASE Update("sync", e)
  BY <1>1, <1>2, UpdateLeaks
<1>3. CASE UNCHANGED <<now, disk, win, fil, call>>
  BY <1>1, <1>3, IdleIs, LooksLeaks
<1> QED
  BY <1>2, <1>3 DEF f_sync

LEMMA CloseLeaks ==
  ASSUME IInv, OInv, CountInv, LeakInv, NEW e \in Entry, f_close(e) PROVE LeakInv'
<1>1. call = Idle /\ fil[e].open /\ UNCHANGED faults /\ fil \in [Entry -> File]
  BY DEF f_close, IInv, FilesOK
<1>2. CASE Update("close", e)
  BY <1>1, <1>2, UpdateLeaks
<1>3. CASE ~fil[e].modified /\ fil' = [fil EXCEPT ![e] = ClosedFil]
           /\ UNCHANGED <<now, disk, win, call>>
  <2> SUFFICES ASSUME faults' = 0 PROVE Lossless'
    BY DEF LeakInv
  <2>1. Lossless
    BY <1>1, LeakBefore
  <2>2. call.op = "idle" /\ HoldsNone /\ now.dir[e].clst = fil[e].sclust
    BY <1>1, <1>3, <2>1, IdleKnows
  <2>3. HeadFrom(ClosedFil, now.dir[e]) = Heads[e]
    BY <1>1, <2>2, HeadIs, ClosedIs DEF HeadOf, HeadFrom
  <2> QED
    BY <1>1, <1>3, <2>1, <2>2, <2>3, ClosedIs, NoneIsOnly, ObjectEnds
<1> QED
  BY <1>2, <1>3 DEF f_close

LEMMA WriteLeaks ==
  ASSUME IInv, OInv, CountInv, LeakInv, NEW e \in Entry, f_write(e) PROVE LeakInv'
<1> DEFINE f == fil[e]
           b == Begin("write", e)
           r == [b EXCEPT !.pc = "ret", !.ret = f.sclust]
<1>1. /\ call = Idle /\ UNCHANGED <<now, fil, faults>>
      /\ \/ f.fptr = 0 /\ f.sclust = 0 /\ call' = Creating(b, 0)
         \/ f.fptr = 0 /\ f.sclust # 0 /\ call' = r
         \/ f.fptr # 0 /\ call' = Creating(b, f.clust)
  BY DEF f_write
<1>2. f.fptr # 0 => f.clust \in Clst
  BY DEF IInv, FilesOK, FileOK, File
<1>3. b = [op |-> "write", pc |-> "none", e |-> e, clst |-> 0, pclst |-> 0,
           ncl |-> 0, scl |-> 0, ret |-> 0, cl |-> 0, rem |-> 0]
  BY BeginIs
<1>4. b \in CallRec /\ StageOK(b) /\ b.op = "write" /\ b.e = e
  <2>1. "write" \in Op \ {"idle", "create", "getfree"}
    BY DEF Op
  <2> QED
    BY <2>1, BeginOK
<1> HIDE DEF b
<1>5. r.op = "write" /\ r.pc = "ret"
  BY <1>3
<1>6. \A c \in {0} \cup Clst :
         LET h == Creating(b, c) IN
         h.op = "write" /\ h.e = e /\ h.pc = IF c = 0 THEN "scan" ELSE "follow"
  BY <1>4, CreatingOK DEF SameCall, IInv
<1>7. CASE f.sclust = 0 /\ call' = Creating(b, 0)
  <2> SUFFICES ASSUME faults' = 0 PROVE Lossless'
    BY DEF LeakInv
  <2>1. Lossless
    BY <1>1, LeakBefore
  <2>2. call.op = "idle" /\ HoldsNone
    BY <1>1, <2>1, IdleKnows
  <2>3. call'.op = "write" /\ call'.e = e
    BY <1>6, <1>7
  <2>4. NewOK(call', fil, now.dir)
    BY <1>7, <2>3 DEF NewOK
  <2> QED
    BY <1>1, <2>1, <2>2, <2>3, <2>4, EndsLeaks DEF HoldsNone
<1>8. CASE call' = r
  BY <1>1, <1>5, <1>8, LooksLeaks
<1>9. CASE f.fptr # 0 /\ call' = Creating(b, f.clust)
  <2>1. call'.op = "write" /\ call'.pc = "follow"
    BY <1>2, <1>6, <1>9, ClstFacts
  <2> QED
    BY <1>1, <2>1, LooksLeaks
<1> QED
  BY <1>1, <1>7, <1>8, <1>9

LEMMA ErrSize == ASSUME NEW f \in File
                 PROVE  LET g == [f EXCEPT !.err = TRUE] IN
                        g.open = f.open /\ g.sclust = f.sclust /\ g.size = f.size
  BY DEF File

\* A call that ends with an object whose start it did not change.
LEMMA SameEnds ==
  ASSUME Lossless, UNCHANGED now, fil \in [Entry -> File],
         NEW e \in Entry, NEW g, fil' = [fil EXCEPT ![e] = g],
         call.op # "truncate", call.op = "lseek" => call.e = e, call' = Idle, fil[e].open,
         g.open, g.sclust = fil[e].sclust, g.sclust = 0 => g.size = 0,
         HoldsNone, g.modified \/ now.dir[e].clst = fil[e].sclust
  PROVE  Lossless'
<1>1. HeadFrom(g, now.dir[e]) = Heads[e]
  BY HeadIs DEF HeadOf, HeadFrom
<1>2. HoldsOnly(HeadFrom(g, now.dir[e]))
  BY NoneIsOnly
<1>3. call.op \in {"truncate", "lseek"} => call.e = e
  OBVIOUS
<1>4. g.open => g.modified \/ now.dir[e].clst = g.sclust
  OBVIOUS
<1> QED
  BY <1>1, <1>2, <1>3, <1>4, ObjectEnds

LEMMA WriteChainedLeaks ==
  ASSUME IInv, OInv, CountInv, LeakInv, NEW ok \in BOOLEAN, write_chained(ok) PROVE LeakInv'
<1> DEFINE e == call.e
           f == fil[e]
           g == [f EXCEPT !.clust = call.ret, !.sclust = IF @ = 0 THEN call.ret ELSE @]
<1>1. call.pc = "ret" /\ call.op = "write" /\ UNCHANGED now /\ fil \in [Entry -> File]
      /\ faults' = IF ok THEN faults ELSE faults + 1
  BY DEF write_chained, IInv, FilesOK
<1>2. CASE ~ok
  BY <1>1, <1>2, FaultLeaks
<1>3. CASE ok
  <2> SUFFICES ASSUME faults' = 0 PROVE Lossless'
    BY DEF LeakInv
  <2>1. Lossless
    BY <1>1, <1>3, LeakBefore
  <2>2. e \in Entry /\ f.open /\ FileOK(f) /\ f \in File /\ f.fptr < MaxSize
        /\ f.fptr \in 0 .. MaxSize
    <3>1. e \in Entry /\ f.open /\ f.fptr < MaxSize
      BY <1>1 DEF IInv, CallOK, StageOK, TiedOK, OInv, Agree, RolesOK
    <3>2. FileOK(f)
      BY <3>1 DEF IInv, FilesOK
    <3> QED
      BY <3>1, <3>2 DEF FileOK, File
  <2>3. \A a \in Clst : Holds(call, fil, a) => a = call.ret /\ f.sclust = 0
    BY <1>1 DEF Holds
  <2>4. f.modified \/ now.dir[e].clst = f.sclust
    BY <1>1, <2>1, <2>2 DEF Lossless, AheadOK, Ahead
  <2>5. f.sclust = 0 => f.size = 0
    BY <2>1, <2>2 DEF Lossless, SizesOK
  <2>6. call' = Idle
    BY DEF write_chained, Abort, Finish
  <2>7. call.op # "truncate" /\ call.op # "lseek"
    BY <1>1
  <2>8. CASE call.ret = 0
    <3> DEFINE w == [f EXCEPT !.modified = TRUE]
    <3>1. fil' = [fil EXCEPT ![e] = w]
      BY <2>8 DEF write_chained, UpdateFil
    <3>2. w.open = f.open /\ w.sclust = f.sclust /\ w.modified /\ w.size = f.size
      BY <2>2 DEF File
    <3>3. HoldsNone
      BY <2>3, <2>8, ClstFacts DEF HoldsNone
    <3> HIDE DEF w
    <3> QED
      BY <1>1, <2>1, <2>2, <2>5, <2>6, <2>7, <3>1, <3>2, <3>3, SameEnds
  <2>9. CASE call.ret # 0 /\ Failed(call.ret)
    <3> DEFINE w == [f EXCEPT !.err = TRUE]
    <3>1. fil' = [fil EXCEPT ![e] = w]
      BY <2>9 DEF write_chained, Abort, UpdateFil
    <3>2. w.open = f.open /\ w.sclust = f.sclust /\ (f.modified => w.modified) /\ w.size = f.size
      BY <2>2, ErrIs, ErrSize
    <3>3. HoldsNone
      BY <2>3, <2>9 DEF HoldsNone, Failed
    <3> HIDE DEF w
    <3> QED
      BY <1>1, <2>1, <2>2, <2>4, <2>5, <2>6, <2>7, <3>1, <3>2, <3>3, SameEnds
  <2>10. CASE call.ret # 0 /\ ~Failed(call.ret)
    <3>1. call.ret \in Clst
      BY <2>10 DEF Failed
    <3>2. /\ g \in File /\ g.open = f.open
          /\ g.sclust = IF f.sclust = 0 THEN call.ret ELSE f.sclust
      BY <2>2, <3>1, GotIs
    <3>3. g.fptr = f.fptr /\ g.sclust \in Clst
      BY <2>2, <3>1, GotClusterOK
    <3> DEFINE w == [g EXCEPT !.fptr = @ + 1, !.modified = TRUE,
                              !.size = IF f.fptr + 1 > @ THEN f.fptr + 1 ELSE @]
    <3>4. fil' = [fil EXCEPT ![e] = w]
      BY <1>3, <2>10 DEF write_chained, UpdateFil
    <3> HIDE DEF g
    <3>5. w.open = g.open /\ w.sclust = g.sclust /\ w.modified
      BY <2>2, <3>2, <3>3, WrittenIs
    <3> HIDE DEF w
    <3>6. HeadFrom(w, now.dir[e]) = Heads[e] \/ Heads[e] = 0
      BY <1>1, <2>2, <3>2, <3>5, HeadIs DEF HeadOf, HeadFrom
    <3>7. HoldsOnly(HeadFrom(w, now.dir[e]))
      BY <2>2, <2>3, <3>2, <3>5 DEF HoldsOnly, HeadFrom
    <3>8. w.sclust # 0
      BY <3>3, <3>5, ClstFacts
    <3>9. call.op \in {"truncate", "lseek"} => call.e = e
      OBVIOUS
    <3> HIDE DEF e
    <3> QED
      BY <1>1, <2>1, <2>2, <2>6, <3>4, <3>5, <3>6, <3>7, <3>8, <3>9, ObjectEnds
  <2> QED
    BY <2>8, <2>9, <2>10
<1> QED
  BY <1>2, <1>3

----------------------------------------------------------------------------
(* f_lseek and f_truncate.                                                 *)

LEMMA PtrSize == ASSUME NEW f \in File, NEW n \in 0 .. MaxSize
                 PROVE  LET g == [f EXCEPT !.fptr = n] IN
                        g.size = f.size /\ g.modified = f.modified
  BY DEF File

LEMMA SoughtSize ==
  ASSUME NEW f \in File, NEW n \in 0 .. MaxSize
  PROVE  LET g == Sought(f, n) IN
         g.size = (IF n > f.size THEN n ELSE f.size) /\ (n > f.size => g.modified)
<1> DEFINE z == IF n > f.size THEN n ELSE f.size
           m == f.modified \/ n > f.size
           c == IF n = 0 THEN 0 ELSE f.clust
           f1 == [f EXCEPT !.fptr = n]
           f2 == [f1 EXCEPT !.size = z]
           f3 == [f2 EXCEPT !.modified = m]
           f4 == [f3 EXCEPT !.clust = c]
<1>1. Sought(f, n) = f4
  BY Zenon DEF Sought
<1>2. z \in 0 .. MaxSize /\ c \in {0} \cup Clst
  BY DEF File
<1>3. m \in BOOLEAN /\ (n > f.size => m)
  BY DEF File
<1> HIDE DEF m, c
<1>4. f1 \in File
  BY DEF File
<1> HIDE DEF f1
<1>5. f2 \in File /\ f2.size = z
  <2> HIDE DEF z
  <2> QED
    BY <1>2, <1>4 DEF File
<1> HIDE DEF f2
<1>6. f3 \in File /\ f3.size = z /\ (m => f3.modified)
  <2> HIDE DEF z
  <2> QED
    BY <1>3, <1>5 DEF File
<1> HIDE DEF f3
<1>7. f4.size = z /\ (m => f4.modified)
  <2> HIDE DEF z
  <2> QED
    BY <1>2, <1>6 DEF File
<1> HIDE DEF f4
<1> QED
  BY <1>1, <1>3, <1>7

\* What the loop of f_lseek starts from: an object that is ahead of its entry
\* is empty and will be extended.
Extending(g, k) ==
  ~g.modified /\ now.dir[k.e].clst # g.sclust =>
    g.size = 0 /\ k.rem > 0 /\ now.fat[g.clust] # 0

LEMMA SeekLeaks ==
  ASSUME Lossless, CountsOK, UNCHANGED now, fil \in [Entry -> File],
         NEW k \in CallRec, StageOK(k), k.op = "lseek", k.e \in Entry,
         NEW g, FileOK(g), g.fptr + k.rem <= MaxSize,
         k.rem > 0 => g.sclust \in Clst /\ g.clust \in Clst,
         fil[k.e].open, g.open,
         g.sclust = fil[k.e].sclust \/ fil[k.e].sclust = 0, HoldsOnly(g.sclust),
         call.op # "truncate", call.op = "lseek" => call.e = k.e,
         g.sclust = 0 => g.size = 0, Extending(g, k), Seek(k, g)
  PROVE  Lossless'
<1>1. g \in File /\ g.fptr \in 0 .. MaxSize /\ k.rem \in Nat /\ MaxSize \in Nat
      /\ g.size \in 0 .. MaxSize
  BY MaxSizeAssumption DEF FileOK, File, CallRec
<1>2. Heads[k.e] = fil[k.e].sclust
  BY HeadIs DEF HeadOf
<1>3. HeadFrom(g, now.dir[k.e]) = g.sclust
  BY DEF HeadFrom
<1>4. call.op = "truncate" => call.e = k.e
  OBVIOUS
<1>5. CASE k.rem > 1
  <2> DEFINE w == [g EXCEPT !.fptr = g.fptr + 1]
             j == [k EXCEPT !.rem = k.rem - 1]
             h == Creating(j, g.clust)
  <2>1. fil' = [fil EXCEPT ![k.e] = w] /\ call' = h
    BY <1>5 DEF Seek
  <2>2. g.fptr + 1 \in 0 .. MaxSize /\ g.clust # 0 /\ g.clust \in Clst
    BY <1>1, <1>5, ClstFacts
  <2>3. /\ w.open = g.open /\ w.sclust = g.sclust /\ w.modified = g.modified
        /\ w.size = g.size /\ w.fptr = g.fptr + 1
    BY <1>1, <2>2, PtrIs, PtrSize
  <2> HIDE DEF w
  <2>4. j \in CallRec /\ StageOK(j) /\ j.op = "lseek" /\ j.e = k.e
    <3>1. k.rem - 1 \in Nat
      BY <1>1, <1>5
    <3>2. j \in CallRec /\ j.op = "lseek" /\ j.e = k.e /\ j.pc = k.pc /\ j.clst = k.clst
          /\ j.pclst = k.pclst /\ j.ncl = k.ncl /\ j.cl = k.cl
      BY <3>1 DEF CallRec
    <3> HIDE DEF j
    <3>3. StageOK(j)
      BY <3>2 DEF StageOK
    <3> QED
      BY <3>2, <3>3
  <2> HIDE DEF j
  <2>5. h.op = "lseek" /\ h.e = k.e /\ h.pc = "follow" /\ h.clst = g.clust
    <3> DEFINE c == g.clust
    <3>1. c \in {0} \cup Clst /\ c # 0
      BY <2>2
    <3> HIDE DEF c
    <3>2. LET i == Creating(j, c) IN
          i.op = "lseek" /\ i.e = k.e /\ i.pc = "follow" /\ i.clst = c
      BY <2>4, <3>1, CreatingOK DEF SameCall
    <3> QED
      BY <3>2 DEF c
  <2> HIDE DEF h
  <2>6. fil'[k.e] = w /\ \A d \in Entry : d # k.e => fil'[d] = fil[d]
    BY <2>1
  <2>7. \A d \in Entry : Ahead(fil', now.dir, d) => d = k.e
    <3>1. \A d \in Entry : Ahead(fil, now.dir, d) => d = k.e
      BY DEF Lossless, AheadOK
    <3> QED
      BY <2>6, <3>1 DEF Ahead
  <2>8. Ahead(fil', now.dir, k.e) => g.size = 0 /\ now.fat[g.clust] # 0
    BY <2>3, <2>6 DEF Ahead, Extending
  <2>9. AheadOK(call', fil', now.fat, now.dir)
    BY <1>1, <2>1, <2>3, <2>5, <2>6, <2>7, <2>8 DEF AheadOK
  <2>10. NewOK(call', fil', now.dir) /\ call'.op # "truncate"
    BY <2>1, <2>5 DEF NewOK
  <2>11. HeadFrom(w, now.dir[k.e]) = g.sclust
    BY <2>3 DEF HeadFrom
  <2> QED
    BY <1>2, <1>4, <2>1, <2>3, <2>9, <2>10, <2>11, ObjectLeaks
<1>6. CASE ~(k.rem > 1)
  <2> DEFINE n == g.fptr + k.rem
             w == Sought(g, n)
  <2>1. fil' = [fil EXCEPT ![k.e] = w] /\ call' = Idle
    BY <1>6 DEF Seek, Finish
  <2>2. n \in 0 .. MaxSize /\ (k.rem > 0 => n > 0)
    BY <1>1
  <2>3. g.sclust = 0 => n = 0
    <3>1. g.sclust = 0 => ~(k.rem > 0) /\ ~(g.fptr > 0)
      BY ClstFacts DEF FileOK
    <3> QED
      BY <1>1, <3>1
  <2> HIDE DEF n
  <2>4. w.open = g.open /\ w.sclust = g.sclust /\ (g.modified => w.modified)
    BY <1>1, <2>2, SoughtIs
  <2>5. w.size = (IF n > g.size THEN n ELSE g.size) /\ (n > g.size => w.modified)
    BY <1>1, <2>2, SoughtSize
  <2> HIDE DEF w
  <2>6. w.modified \/ now.dir[k.e].clst = w.sclust
    BY <2>2, <2>4, <2>5 DEF Extending
  <2>7. w.sclust = 0 => w.size = 0
    BY <2>3, <2>4, <2>5
  <2>8. HeadFrom(w, now.dir[k.e]) = g.sclust
    BY <2>4 DEF HeadFrom
  <2>9. call.op \in {"truncate", "lseek"} => call.e = k.e
    OBVIOUS
  <2> QED
    BY <1>2, <2>1, <2>4, <2>6, <2>7, <2>8, <2>9, ObjectEnds
<1> QED
  BY <1>5, <1>6

LEMMA LseekLeaks ==
  ASSUME IInv, OInv, CountInv, LeakInv, NEW e \in Entry, NEW ofs \in 0 .. MaxSize, f_lseek(e, ofs)
  PROVE  LeakInv'
<1> DEFINE f == fil[e]
           b == Begin("lseek", e)
           k == [b EXCEPT !.rem = ofs]
<1>1. call = Idle /\ f.open /\ UNCHANGED <<now, faults>>
  BY DEF f_lseek, Usable
<1> SUFFICES ASSUME faults' = 0 PROVE Lossless'
  BY DEF LeakInv
<1>2. Lossless
  BY <1>1, LeakBefore
<1>3. /\ call.op = "idle" /\ HoldsNone
      /\ f.modified \/ now.dir[e].clst = f.sclust
      /\ f.sclust = 0 => f.size = 0
  BY <1>1, <1>2, IdleKnows DEF Lossless, SizesOK
<1>4. /\ FileOK(f) /\ f \in File /\ f.fptr \in 0 .. MaxSize /\ ofs \in Nat /\ MaxSize \in Nat
      /\ f.sclust \in {0} \cup Clst /\ CountsOK /\ fil \in [Entry -> File]
  BY MaxSizeAssumption DEF IInv, FilesOK, FileOK, File
<1>5. b = [op |-> "lseek", pc |-> "none", e |-> e, clst |-> 0, pclst |-> 0,
           ncl |-> 0, scl |-> 0, ret |-> 0, cl |-> 0, rem |-> 0]
  BY BeginIs
<1> DEFINE kk(n) == [op |-> "lseek", pc |-> "none", e |-> e, clst |-> 0, pclst |-> 0,
                     ncl |-> 0, scl |-> 0, ret |-> 0, cl |-> 0, rem |-> n]
<1>6. k = kk(ofs)
  BY <1>5
<1>7. \A n \in Nat : kk(n) \in CallRec /\ StageOK(kk(n)) /\ kk(n).op = "lseek"
                     /\ kk(n).e = e /\ kk(n).rem = n /\ kk(n).clst = 0
  <2> TAKE n \in Nat
  <2>1. kk(n) \in CallRec
    BY NFatEntAssumption DEF CallRec, Op, Pc
  <2> QED
    BY <2>1 DEF StageOK
<1> HIDE DEF b, k
<1>8. \A n : [k EXCEPT !.rem = n] = kk(n)
  BY <1>6
<1> HIDE DEF kk
<1>9. k \in CallRec /\ StageOK(k) /\ k.op = "lseek" /\ k.e = e /\ k.rem = ofs /\ k.clst = 0
  BY <1>4, <1>6, <1>7
<1>10. CASE ofs = 0
  <2> DEFINE g == [f EXCEPT !.fptr = 0]
  <2>1. Seek(k, g)
    BY <1>10 DEF f_lseek, b, k
  <2>2. /\ g \in File /\ g.fptr = 0 /\ g.open = f.open /\ g.sclust = f.sclust
        /\ g.modified = f.modified /\ g.size = f.size
    BY <1>4, PtrIs, PtrSize
  <2> HIDE DEF g
  <2>3. FileOK(g)
    BY <2>2 DEF FileOK
  <2>4. g.fptr + k.rem <= MaxSize /\ ~(k.rem > 0)
    BY <1>4, <1>9, <1>10, <2>2
  <2>5. fil[k.e].open /\ g.open /\ g.sclust = fil[k.e].sclust /\ k.e \in Entry
        /\ Extending(g, k) /\ HoldsOnly(g.sclust)
    BY <1>1, <1>3, <1>9, <2>2, NoneIsOnly DEF Extending
  <2> QED
    BY <1>1, <1>2, <1>3, <1>4, <1>9, <2>1, <2>2, <2>3, <2>4, <2>5, SeekLeaks
<1>11. CASE ofs # 0 /\ FromCurrent(f, ofs)
  <2> DEFINE g == [f EXCEPT !.fptr = f.fptr - 1]
             n == ofs - (f.fptr - 1)
             i == kk(n)
  <2>1. Seek(i, g)
    <3>1. Seek([k EXCEPT !.rem = n], g)
      BY <1>11 DEF f_lseek, b, k
    <3> QED
      BY <3>1, <1>8
  <2>2. f.fptr > 0 /\ ofs >= f.fptr
    BY <1>11 DEF FromCurrent
  <2>3. f.fptr - 1 \in 0 .. MaxSize /\ n \in Nat /\ f.fptr - 1 + n <= MaxSize
    BY <1>4, <2>2
  <2>4. /\ g \in File /\ g.fptr = f.fptr - 1 /\ g.open = f.open /\ g.sclust = f.sclust
        /\ g.clust = f.clust /\ g.modified = f.modified /\ g.size = f.size
    BY <1>4, <2>3, PtrIs, PtrSize
  <2>5. f.sclust \in Clst /\ f.clust \in Clst
    BY <1>4, <2>2 DEF FileOK
  <2> HIDE DEF g, n
  <2>6. FileOK(g)
    BY <2>4, <2>5 DEF FileOK
  <2>7. i \in CallRec /\ StageOK(i) /\ i.op = "lseek" /\ i.e = e /\ i.rem = n
    BY <1>7, <2>3
  <2> HIDE DEF i
  <2>8. fil[i.e].open /\ g.open /\ g.sclust = fil[i.e].sclust /\ i.e \in Entry
        /\ Extending(g, i) /\ HoldsOnly(g.sclust)
    BY <1>1, <1>3, <2>4, <2>7, NoneIsOnly DEF Extending
  <2>9. g.fptr + i.rem <= MaxSize /\ g.sclust \in Clst /\ g.clust \in Clst
    BY <2>3, <2>4, <2>5, <2>7
  <2> QED
    BY <1>1, <1>2, <1>3, <1>4, <2>1, <2>4, <2>6, <2>7, <2>8, <2>9, SeekLeaks
<1>12. CASE ofs # 0 /\ ~FromCurrent(f, ofs) /\ f.sclust = 0
  <2> DEFINE g == [f EXCEPT !.fptr = 0, !.clust = 0]
             h == Creating(k, 0)
  <2>1. fil' = [fil EXCEPT ![e].fptr = 0, ![e].clust = 0] /\ call' = h
    BY <1>12 DEF f_lseek, b, k
  <2>2. fil' = [fil EXCEPT ![e] = g]
    BY <1>4, <2>1
  <2>3. 0 \in 0 .. MaxSize /\ 0 \in {0} \cup Clst
    BY MaxSizeAssumption
  <2>4. g.open = f.open /\ g.sclust = f.sclust /\ g.modified = f.modified /\ g.size = f.size
    <3> HIDE DEF f
    <3> QED
      BY <1>4, <2>3 DEF File
  <2> HIDE DEF g
  <2>5. h.op = "lseek" /\ h.e = e
    BY <1>4, <1>9, <2>3, CreatingOK DEF SameCall
  <2> HIDE DEF h
  <2>6. fil'[e] = g /\ \A d \in Entry : d # e => fil'[d] = fil[d]
    BY <1>4, <2>2
  <2>7. NewOK(call', fil', now.dir) /\ call'.op # "truncate"
    BY <1>12, <2>1, <2>4, <2>5, <2>6 DEF NewOK
  <2>8. \A d \in Entry : ~Ahead(fil', now.dir, d)
    <3>1. \A d \in Entry : ~Ahead(fil, now.dir, d)
      BY <1>2, <1>3 DEF Lossless, AheadOK
    <3> QED
      BY <1>3, <2>4, <2>6, <3>1 DEF Ahead
  <2>9. AheadOK(call', fil', now.fat, now.dir)
    BY <2>8 DEF AheadOK
  <2>10. HeadFrom(g, now.dir[e]) = Heads[e] /\ HoldsOnly(HeadFrom(g, now.dir[e]))
    BY <1>1, <1>3, <2>4, HeadIs, NoneIsOnly DEF HeadOf, HeadFrom
  <2> QED
    BY <1>1, <1>2, <1>3, <1>4, <2>2, <2>4, <2>7, <2>9, <2>10, ObjectLeaks
<1>13. CASE ofs # 0 /\ ~FromCurrent(f, ofs) /\ f.sclust # 0
  <2> DEFINE g == [f EXCEPT !.fptr = 0, !.clust = f.sclust]
  <2>1. Seek(k, g)
    BY <1>13 DEF f_lseek, b, k
  <2>2. f.sclust \in Clst /\ 0 \in 0 .. MaxSize
    BY <1>4, <1>13
  <2>3. /\ g \in File /\ g.fptr = 0 /\ g.clust = f.sclust /\ g.sclust = f.sclust
        /\ g.open = f.open /\ g.modified = f.modified
    <3> HIDE DEF f
    <3> QED
      BY <1>4, <2>2 DEF File
  <2> HIDE DEF g
  <2>4. FileOK(g)
    BY <2>3 DEF FileOK
  <2>5. fil[k.e].open /\ g.open /\ g.sclust = fil[k.e].sclust /\ k.e \in Entry
        /\ Extending(g, k) /\ HoldsOnly(g.sclust)
    BY <1>1, <1>3, <1>9, <2>3, NoneIsOnly DEF Extending
  <2>6. g.fptr + k.rem <= MaxSize /\ g.sclust # 0
    BY <1>4, <1>9, <1>13, <2>3
  <2> QED
    BY <1>1, <1>2, <1>3, <1>4, <1>9, <2>1, <2>2, <2>3, <2>4, <2>5, <2>6, SeekLeaks
<1> QED
  BY <1>10, <1>11, <1>12, <1>13

LEMMA LseekChainedLeaks ==
  ASSUME IInv, OInv, CountInv, LeakInv, lseek_chained PROVE LeakInv'
<1> DEFINE e == call.e
           f == fil[e]
           g == [f EXCEPT !.clust = call.ret, !.sclust = IF @ = 0 THEN call.ret ELSE @]
<1>1. call.pc = "ret" /\ call.op = "lseek" /\ UNCHANGED <<now, faults>> /\ CountsOK
      /\ fil \in [Entry -> File]
  BY DEF lseek_chained, IInv, FilesOK
<1> SUFFICES ASSUME faults' = 0 PROVE Lossless'
  BY DEF LeakInv
<1>2. Lossless /\ Sound
  BY <1>1, LeakBefore
<1>3. /\ e \in Entry /\ f.open /\ FileOK(f) /\ f \in File /\ call.rem > 0
      /\ f.fptr + call.rem <= MaxSize /\ call \in CallRec /\ StageOK(call)
  <2>1. e \in Entry /\ f.open /\ call.rem > 0 /\ f.fptr + call.rem <= MaxSize
        /\ call \in CallRec /\ StageOK(call)
    BY <1>1 DEF IInv, CallOK, StageOK, TiedOK, OInv, Agree, RolesOK
  <2>2. FileOK(f)
    BY <2>1 DEF IInv, FilesOK
  <2> QED
    BY <2>1, <2>2 DEF FileOK
<1>4. f.fptr \in 0 .. MaxSize /\ f.size \in 0 .. MaxSize /\ f.sclust \in {0} \cup Clst
  BY <1>3 DEF File
<1>5. \A a \in Clst : Holds(call, fil, a) => a = call.ret /\ f.sclust = 0
  BY <1>1 DEF Holds
<1>6. f.sclust = 0 => f.size = 0 /\ ~(f.fptr > 0)
  BY <1>2, <1>3, ClstFacts DEF Lossless, SizesOK, FileOK
<1>7. Ahead(fil, now.dir, e) =>
        /\ f.size = 0 /\ f.fptr > 0
        /\ call.ret = 0 \/ (call.ret \in Clst /\ now.fat[call.ret] # 0)
  BY <1>1, <1>2, <1>3 DEF Lossless, AheadOK
<1>8. ~Ahead(fil, now.dir, e) => f.modified \/ now.dir[e].clst = f.sclust
  BY <1>3 DEF Ahead
<1>9. CASE call.ret = 0
  <2> DEFINE w == IF f.sclust = 0 THEN g ELSE f
             z == Sought(w, f.fptr)
  <2>1. fil' = [fil EXCEPT ![e] = z] /\ call' = Idle
    BY <1>9 DEF lseek_chained, UpdateFil, Finish
  <2>2. /\ w \in File /\ w.open = f.open /\ w.sclust = f.sclust /\ (f.modified => w.modified)
        /\ w.size = f.size
    <3>1. CASE f.sclust = 0
      <4> DEFINE g0 == [f EXCEPT !.clust = 0, !.sclust = 0]
      <4>1. g = g0 /\ w = g
        BY <1>9, <3>1
      <4>2. g0 \in File /\ g0.open = f.open /\ g0.sclust = 0 /\ (f.modified => g0.modified)
            /\ g0.size = f.size
        BY <1>3 DEF File
      <4> HIDE DEF g0, w, g
      <4> QED
        BY <3>1, <4>1, <4>2
    <3>2. CASE f.sclust # 0
      <4>1. w = f
        BY <3>2
      <4> QED
        BY <1>3, <4>1
    <3> QED
      BY <3>1, <3>2
  <2> HIDE DEF w
  <2>3. z.open = w.open /\ z.sclust = w.sclust /\ (w.modified => z.modified)
    BY <1>4, <2>2, SoughtIs
  <2>4. z.size = (IF f.fptr > w.size THEN f.fptr ELSE w.size)
        /\ (f.fptr > w.size => z.modified)
    BY <1>4, <2>2, SoughtSize
  <2> HIDE DEF z
  <2>5. z.modified \/ now.dir[e].clst = f.sclust
    BY <1>7, <1>8, <2>2, <2>3, <2>4
  <2>6. z.sclust = 0 => z.size = 0
    BY <1>6, <2>2, <2>3, <2>4
  <2>7. HoldsNone
    BY <1>5, <1>9, ClstFacts DEF HoldsNone
  <2>8. call.op # "truncate" /\ (call.op = "lseek" => call.e = e)
    BY <1>1
  <2> HIDE DEF e
  <2> QED
    BY <1>1, <1>2, <1>3, <2>1, <2>2, <2>3, <2>5, <2>6, <2>7, <2>8, SameEnds
<1>10. CASE call.ret # 0 /\ Failed(call.ret)
  <2> DEFINE w == [f EXCEPT !.err = TRUE]
  <2>1. fil' = [fil EXCEPT ![e] = w] /\ call' = Idle
    BY <1>10 DEF lseek_chained, Abort, UpdateFil, Finish
  <2>2. w.open = f.open /\ w.sclust = f.sclust /\ (f.modified => w.modified) /\ w.size = f.size
    BY <1>3, ErrIs, ErrSize
  <2>3. w.modified \/ now.dir[e].clst = f.sclust
    BY <1>7, <1>8, <1>10, <2>2 DEF Failed
  <2>4. HoldsNone
    BY <1>5, <1>10 DEF HoldsNone, Failed
  <2>5. call.op # "truncate" /\ (call.op = "lseek" => call.e = e)
    BY <1>1
  <2>6. w.sclust = 0 => w.size = 0
    BY <1>6, <2>2
  <2> HIDE DEF w, e
  <2> QED
    BY <1>1, <1>2, <1>3, <2>1, <2>2, <2>3, <2>4, <2>5, <2>6, SameEnds
<1>11. CASE call.ret # 0 /\ ~Failed(call.ret)
  <2>1. call.ret \in Clst /\ Seek(call, g)
    BY <1>11 DEF lseek_chained, Failed
  <2>2. /\ FileOK(g) /\ g.open = f.open /\ (f.modified => g.modified)
        /\ g.sclust = IF f.sclust = 0 THEN call.ret ELSE f.sclust
    BY <1>3, <2>1, GotIs
  <2>3. g.fptr = f.fptr /\ g.sclust \in Clst /\ g.clust = call.ret /\ g.size = f.size
    <3>1. FileOK(f) /\ call.ret \in Clst
      BY <1>3, <2>1
    <3> QED
      BY <3>1, GotClusterOK
  <2>4. f.sclust = 0 => now.fat[call.ret] # 0
    BY <1>1, <1>2, <2>1 DEF Sound, HeldOK, Fresh
  <2> HIDE DEF g
  <2>5. Extending(g, call)
    <3>1. CASE f.sclust = 0
      BY <1>3, <1>6, <2>3, <2>4, <3>1 DEF Extending
    <3>2. CASE f.sclust # 0
      BY <1>3, <1>7, <1>8, <1>11, <2>1, <2>2, <2>3, <3>2 DEF Extending
    <3> QED
      BY <3>1, <3>2
  <2>6. HoldsOnly(g.sclust)
    BY <1>5, <2>2 DEF HoldsOnly
  <2>7. g.sclust # 0
    BY <2>3, ClstFacts
  <2> QED
    BY <1>1, <1>2, <1>3, <2>1, <2>2, <2>3, <2>5, <2>6, <2>7, SeekLeaks
<1> QED
  BY <1>9, <1>10, <1>11

LEMMA TruncateLeaks ==
  ASSUME IInv, OInv, CountInv, LeakInv, NEW e \in Entry, f_truncate(e) PROVE LeakInv'
<1> DEFINE f == fil[e]
           k == Begin("truncate", e)
           h == Removing(k, f.sclust, 0)
           t == [k EXCEPT !.pc = "next"]
<1>1. /\ call = Idle /\ f.open /\ UNCHANGED <<now, fil, faults>>
      /\ \/ f.size > f.fptr /\ f.fptr = 0 /\ call' = h
         \/ f.fptr # 0 /\ call' = t
         \/ call' = Idle
  BY DEF f_truncate, Usable, Finish
<1>2. k \in CallRec /\ StageOK(k) /\ k.op = "truncate" /\ k.e = e
  <2>1. "truncate" \in Op \ {"idle", "create", "getfree"}
    BY DEF Op
  <2> QED
    BY <2>1, BeginOK
<1> HIDE DEF k
<1>3. CASE call' = Idle
  BY <1>1, <1>3, IdleIs, LooksLeaks
<1>4. CASE call' # Idle
  <2> SUFFICES ASSUME faults' = 0 PROVE Lossless'
    BY DEF LeakInv
  <2>1. Lossless
    BY <1>1, LeakBefore
  <2>2. call.op = "idle" /\ HoldsNone
    BY <1>1, <2>1, IdleKnows
  <2>3. \A d \in Entry : ~Ahead(fil, now.dir, d)
    BY <2>1, <2>2 DEF Lossless, AheadOK
  <2>4. AheadOK(call', fil, now.fat, now.dir)
    BY <2>3 DEF AheadOK
  <2>5. CASE f.size > f.fptr /\ f.fptr = 0 /\ call' = h
    <3>1. 0 \in {0} \cup Clst
      OBVIOUS
    <3>2. /\ h.op = "truncate" /\ h.e = e /\ h.pc \in {"ret", "free"}
          /\ h.pc = "ret" => f.sclust \notin Clst
          /\ h.pc = "free" => h.clst = f.sclust
      BY <1>2, <3>1, RemovingStays
    <3> HIDE DEF h
    <3>3. f.sclust \in Clst
      <4>1. f.sclust \in {0} \cup Clst /\ f.size # 0
        BY <2>5 DEF IInv, FilesOK, File
      <4> QED
        BY <1>1, <2>1, <4>1 DEF Lossless, SizesOK
    <3> DEFINE hd == Heads'
    <3>4. Heads[e] = f.sclust /\ hd[e] = 0 /\ \A d \in Entry : d # e => hd[d] = Heads[d]
      BY <1>1, <2>2, <2>5, <3>2, HeadIs DEF HeadOf
    <3>5. Holds(call', fil, f.sclust)
      BY <2>5, <3>2, <3>3 DEF Holds
    <3> HIDE DEF hd
    <3>6. NoneLost(call, fil, now.fat, Heads)
      BY <2>1 DEF Lossless
    <3>7. \A d \in Entry : hd[d] = Heads[d] \/ Heads[d] = 0 \/ Holds(call', fil, Heads[d])
      BY <3>4, <3>5
    <3>8. \A a \in Clst : now.fat[a] # 0 /\ Holds(call, fil, a) =>
            Holds(call', fil, a) \/ \E d \in Entry : hd[d] = a
      BY <2>2 DEF HoldsNone
    <3>9. NoneLost(call', fil, now.fat, hd)
      BY <3>6, <3>7, <3>8, LostKept
    <3>10. NewOK(call', fil, now.dir)
      BY <2>5, <3>2 DEF NewOK
    <3> QED
      BY <1>1, <2>1, <2>4, <3>9, <3>10 DEF Lossless, hd
  <2>6. CASE f.fptr # 0 /\ call' = t
    <3>1. t.op = "truncate" /\ t.e = e /\ t.pc = "next"
      BY <1>2 DEF CallRec
    <3> HIDE DEF t
    <3>2. Heads' = Heads
      BY <1>1, <2>2, <2>6, <3>1 DEF Heads, HeadOf
    <3>3. NoneLost(call', fil, now.fat, Heads)
      BY <2>1, <2>2 DEF Lossless, NoneLost, HoldsNone
    <3>4. NewOK(call', fil, now.dir)
      BY <2>6, <3>1 DEF NewOK
    <3> QED
      BY <1>1, <2>1, <2>4, <3>2, <3>3, <3>4 DEF Lossless
  <2> QED
    BY <1>1, <1>4, <2>5, <2>6
<1> QED
  BY <1>3, <1>4

LEMMA TruncateNextLeaks ==
  ASSUME IInv, OInv, CountInv, LeakInv, truncate_next PROVE LeakInv'
<1> DEFINE c == fil[call.e].clust
           h == Removing(call, now.fat[c], c)
<1>1. /\ call.pc = "next" /\ UNCHANGED <<now, fil, faults>>
      /\ Return(0) \/ call' = h
  BY DEF truncate_next
<1>2. /\ call.op = "truncate" /\ c \in Clst /\ call \in CallRec /\ StageOK(call) /\ CallOK
  BY <1>1 DEF OInv, Agree, RolesOK, IInv, CallOK, TiedOK
<1> SUFFICES ASSUME faults' = 0 PROVE Lossless'
  BY DEF LeakInv
<1>3. Lossless
  BY <1>1, LeakBefore
<1>4. call'.op = call.op /\ call'.e = call.e /\ call'.pc \in {"ret", "free", "cut"}
  <2>1. CASE Return(0)
    <3>1. 0 \in 0 .. NFatEnt + 1
      BY NFatEntAssumption
    <3> QED
      BY <1>2, <2>1, <3>1, ReturnedIs
  <2>2. CASE call' = h
    <3>1. c \in {0} \cup Clst
      BY <1>2
    <3> HIDE DEF c
    <3>2. h.op = call.op /\ h.e = call.e /\ h.pc \in {"ret", "free", "cut"}
      BY <1>2, <3>1, RemovingStays
    <3> HIDE DEF h
    <3> QED
      BY <2>2, <3>2
  <2> QED
    BY <1>1, <2>1, <2>2
<1>5. \A a \in Clst : ~Holds(call, fil, a)
  BY <1>1, <1>2 DEF Holds
<1>6. NewOK(call', fil, now.dir)
  BY <1>2, <1>4 DEF NewOK
<1>7. AheadOK(call', fil, now.fat, now.dir)
  BY <1>2, <1>3 DEF Lossless, AheadOK
<1> QED
  BY <1>1, <1>3, <1>4, <1>5, <1>6, <1>7, StepLeaks

LEMMA ShortenedSize == ASSUME NEW f, FileOK(f) PROVE Shortened(f).size = f.fptr
<1> DEFINE s == IF f.fptr = 0 THEN 0 ELSE f.sclust
           f1 == [f EXCEPT !.sclust = s]
           f2 == [f1 EXCEPT !.size = f.fptr]
           f3 == [f2 EXCEPT !.modified = TRUE]
<1>1. f \in File /\ f.fptr \in 0 .. MaxSize /\ s \in {0} \cup Clst
  BY DEF FileOK, File
<1>2. Shortened(f) = f3
  BY Zenon DEF Shortened
<1> HIDE DEF s
<1>3. f1 \in File
  BY <1>1 DEF File
<1> HIDE DEF f1
<1>4. f2 \in File /\ f2.size = f.fptr
  BY <1>1, <1>3 DEF File
<1> HIDE DEF f2
<1>5. f3.size = f.fptr
  BY <1>4 DEF File
<1> HIDE DEF f3
<1> QED
  BY <1>2, <1>5

LEMMA TruncateRemovedLeaks ==
  ASSUME IInv, OInv, CountInv, LeakInv, truncate_removed PROVE LeakInv'
<1> DEFINE e == call.e
           f == fil[e]
           g == Shortened(f)
           a == [g EXCEPT !.err = TRUE]
<1>1. /\ call.pc = "ret" /\ call.op = "truncate" /\ call' = Idle /\ UNCHANGED <<now, faults>>
      /\ fil' = [fil EXCEPT ![e] = g] \/ fil' = [fil EXCEPT ![e] = a]
      /\ fil \in [Entry -> File]
  BY DEF truncate_removed, Abort, UpdateFil, Finish, IInv, FilesOK
<1>2. e \in Entry /\ f.open
  BY <1>1 DEF IInv, CallOK, StageOK, OInv, Agree, RolesOK
<1>3. FileOK(f) /\ f.fptr \in 0 .. MaxSize
  BY <1>2 DEF IInv, FilesOK, FileOK, File
<1> SUFFICES ASSUME faults' = 0 PROVE Lossless'
  BY DEF LeakInv
<1>4. Lossless
  BY <1>1, LeakBefore
<1>5. HoldsNone
  BY <1>1 DEF HoldsNone, Holds
<1>6. /\ g.open /\ g.modified /\ g.sclust = (IF f.fptr = 0 THEN 0 ELSE f.sclust) /\ g \in File
      /\ g.size = f.fptr
  BY <1>2, <1>3, ShortenedIs, ShortenedOK, ShortenedSize DEF FileOK
<1> HIDE DEF g
<1>7. a.open /\ a.modified /\ a.sclust = g.sclust /\ a.size = g.size
  BY <1>6, ErrIs, ErrSize
<1>8. g.sclust = Heads[e]
  BY <1>1, <1>2, <1>6, HeadIs DEF HeadOf
<1>9. g.sclust = 0 => g.size = 0
  BY <1>3, <1>6, ClstFacts DEF FileOK
<1> HIDE DEF a
<1>10. HeadFrom(g, now.dir[e]) = Heads[e] /\ HeadFrom(a, now.dir[e]) = Heads[e]
  BY <1>6, <1>7, <1>8 DEF HeadFrom
<1>11. HoldsOnly(HeadFrom(g, now.dir[e])) /\ HoldsOnly(HeadFrom(a, now.dir[e]))
  BY <1>5, NoneIsOnly
<1>12. call.op \in {"truncate", "lseek"} => call.e = e
  OBVIOUS
<1> HIDE DEF e
<1>13. CASE fil' = [fil EXCEPT ![e] = g]
  BY <1>1, <1>2, <1>4, <1>6, <1>9, <1>10, <1>11, <1>12, <1>13, ObjectEnds
<1>14. CASE fil' = [fil EXCEPT ![e] = a]
  BY <1>1, <1>2, <1>4, <1>7, <1>9, <1>10, <1>11, <1>12, <1>14, ObjectEnds
<1> QED
  BY <1>1, <1>13, <1>14

----------------------------------------------------------------------------
(* f_unlink, f_mkdir and f_getfree.                                        *)

LEMMA UnlinkLeaks ==
  ASSUME IInv, Lossless, NEW k \in CallRec, StageOK(k), k.op = "unlink",
         k.e \in Entry, ~fil[k.e].open, call.op \notin {"truncate", "lseek"}, HoldsNone,
         Unlink(k), UNCHANGED fil
  PROVE  Lossless'
<1> DEFINE e == k.e
           c == now.dir[e].clst
           x == NoEnt
           g == fil[e]
           h == Removing(k, c, 0)
           s == [k EXCEPT !.pc = "sync"]
<1>1. /\ PutDir(e, x)
      /\ \/ c = 0 /\ call' = s
         \/ c # 0 /\ call' = h
  BY DEF Unlink
<1>2. x.clst = 0 /\ x.size = 0
  BY DEF NoEnt
<1>3. Heads[e] = c /\ c \in {0} \cup Clst
  <2>1. now.dir[e] \in Ent
    BY EntTyped DEF IInv
  <2> QED
    BY <2>1, HeadIs DEF HeadOf, Ent
<1>4. /\ call'.op = "unlink" /\ call'.pc \in {"sync", "free"}
      /\ c = 0 \/ Holds(call', fil', c)
  <2>1. CASE c = 0 /\ call' = s
    <3>1. s.op = "unlink" /\ s.pc = "sync"
      BY DEF CallRec
    <3> QED
      BY <2>1, <3>1
  <2>2. CASE c # 0 /\ call' = h
    <3>1. 0 \in {0} \cup Clst /\ c \in Clst
      BY <1>3, <2>2
    <3> HIDE DEF c
    <3>2. h.op = "unlink" /\ h.pc = "free" /\ h.clst = c
      BY <3>1, RemovingStays
    <3> HIDE DEF h
    <3> QED
      BY <2>2, <3>2 DEF Holds
  <2> QED
    BY <1>1, <2>1, <2>2
<1> HIDE DEF x, h, s
<1>5. NewOK(call', fil', now'.dir) /\ call'.op # "truncate"
  BY <1>4 DEF NewOK
<1>6. HeadFrom(g, x) = 0
  BY <1>2 DEF HeadFrom
<1>7. Heads[e] = 0 \/ Holds(call', fil', Heads[e])
  BY <1>3, <1>4
<1>8. HoldsOnly(HeadFrom(g, x))
  BY NoneIsOnly
<1>9. fil'[e] = g /\ ~g.open /\ e \in Entry /\ \A d \in Entry : d # e => fil'[d] = fil[d]
  OBVIOUS
<1> HIDE DEF c, g, e
<1> QED
  BY <1>1, <1>2, <1>5, <1>7, <1>8, <1>9, DirLeaks

LEMMA FileUnlinkLeaks ==
  ASSUME IInv, OInv, CountInv, LeakInv, NEW e \in Entry, f_unlink(e) PROVE LeakInv'
<1> DEFINE b == Begin("unlink", e)
           h == [b EXCEPT !.pc = "look"]
<1>1. /\ call = Idle /\ ~fil[e].open /\ UNCHANGED <<fil, faults>>
      /\ \/ Unlink(b)
         \/ UNCHANGED now /\ call' = Idle
         \/ UNCHANGED now /\ call' = h
  BY DEF f_unlink
<1>2. CASE Unlink(b)
  <2> SUFFICES ASSUME faults' = 0 PROVE Lossless'
    BY DEF LeakInv
  <2>1. b \in CallRec /\ StageOK(b) /\ b.op = "unlink" /\ b.e = e
    <3>1. "unlink" \in Op \ {"idle", "create", "getfree"}
      BY DEF Op
    <3> QED
      BY <3>1, BeginOK
  <2> HIDE DEF b
  <2>2. Lossless
    BY <1>1, LeakBefore
  <2>3. call.op = "idle" /\ HoldsNone
    BY <1>1, <2>2, IdleKnows
  <2> QED
    BY <1>1, <1>2, <2>1, <2>2, <2>3, UnlinkLeaks
<1>3. CASE UNCHANGED now /\ call' = Idle
  BY <1>1, <1>3, IdleIs, LooksLeaks
<1>4. CASE UNCHANGED now /\ call' = h
  <2>1. b = [op |-> "unlink", pc |-> "none", e |-> e, clst |-> 0, pclst |-> 0,
             ncl |-> 0, scl |-> 0, ret |-> 0, cl |-> 0, rem |-> 0]
    BY BeginIs
  <2> HIDE DEF b
  <2>2. h.op = "unlink" /\ h.pc = "look"
    BY <2>1
  <2> HIDE DEF h
  <2> QED
    BY <1>1, <1>4, <2>2, LooksLeaks
<1> QED
  BY <1>1, <1>2, <1>3, <1>4

\* A call that holds nothing goes on to a stage that holds nothing, or ends.
LEMMA GoesLeaks ==
  ASSUME IInv, OInv, CountInv, LeakInv, UNCHANGED <<now, fil, faults>>, HoldsNone,
         call.op \in {"unlink", "mkdir", "getfree"},
         \/ call' = Idle
         \/ call.op = "unlink" /\ call'.op = "unlink" /\ call'.pc \in {"remove", "sync"}
         \/ call'.op = "getfree" /\ call'.pc = "count"
  PROVE  LeakInv'
<1> SUFFICES ASSUME faults' = 0 PROVE Lossless'
  BY DEF LeakInv
<1>1. Lossless
  BY LeakBefore
<1>2. NewOK(call', fil, now.dir) /\ call'.op # "truncate"
  BY IdleHolds, IdleIs DEF NewOK
<1> QED
  BY <1>1, <1>2, EndsLeaks DEF HoldsNone

LEMMA UnlinkLookLeaks == ASSUME IInv, OInv, CountInv, LeakInv, unlink_look PROVE LeakInv'
<1>1. call.pc = "look" /\ Goto("remove") /\ UNCHANGED <<now, fil, faults>>
      /\ call.op = "unlink" /\ call \in CallRec
  BY DEF unlink_look, IInv, CallOK, StageOK
<1>2. call'.pc = "remove" /\ call'.op = "unlink"
  BY <1>1 DEF Goto, CallRec
<1>3. HoldsNone
  BY <1>1 DEF HoldsNone, Holds
<1> QED
  BY <1>1, <1>2, <1>3, GoesLeaks

LEMMA UnlinkRemoveLeaks == ASSUME IInv, OInv, CountInv, LeakInv, unlink_remove PROVE LeakInv'
<1>1. call.pc = "remove" /\ Unlink(call) /\ UNCHANGED <<fil, faults>>
  BY DEF unlink_remove
<1>2. call \in CallRec /\ StageOK(call) /\ call.op = "unlink" /\ call.e \in Entry
  BY <1>1 DEF IInv, CallOK, StageOK
<1>3. ~fil[call.e].open
  BY <1>2 DEF OInv, Agree, RolesOK
<1>4. HoldsNone
  BY <1>1 DEF HoldsNone, Holds
<1> SUFFICES ASSUME faults' = 0 PROVE Lossless'
  BY DEF LeakInv
<1>5. Lossless
  BY <1>1, LeakBefore
<1> QED
  BY <1>1, <1>2, <1>3, <1>4, <1>5, UnlinkLeaks

LEMMA UnlinkRemovedLeaks == ASSUME IInv, OInv, CountInv, LeakInv, unlink_removed PROVE LeakInv'
<1>1. /\ call.pc = "ret" /\ call.op = "unlink" /\ UNCHANGED <<now, fil, faults>>
      /\ Goto("sync") \/ call' = Idle
      /\ call \in CallRec
  BY DEF unlink_removed, Finish, IInv, CallOK
<1>2. Goto("sync") => call'.pc = "sync" /\ call'.op = "unlink"
  BY <1>1 DEF Goto, CallRec
<1>3. HoldsNone
  BY <1>1 DEF HoldsNone, Holds
<1> QED
  BY <1>1, <1>2, <1>3, GoesLeaks

LEMMA MkdirLeaks ==
  ASSUME IInv, OInv, CountInv, LeakInv, NEW e \in Entry, f_mkdir(e) PROVE LeakInv'
<1> DEFINE b == Begin("mkdir", e)
           h == Creating(b, 0)
<1>1. /\ call = Idle /\ UNCHANGED <<now, fil, faults>>
      /\ \/ now.dir[e].kind = "none" /\ call' = h
         \/ call' = Idle
  BY DEF f_mkdir
<1>2. CASE now.dir[e].kind = "none" /\ call' = h
  <2> SUFFICES ASSUME faults' = 0 PROVE Lossless'
    BY DEF LeakInv
  <2>1. Lossless
    BY <1>1, LeakBefore
  <2>2. call.op = "idle" /\ HoldsNone
    BY <1>1, <2>1, IdleKnows
  <2>3. now.dir[e].clst = 0
    BY <1>2, <2>1 DEF Lossless, SizesOK
  <2>4. b \in CallRec /\ StageOK(b) /\ b.op = "mkdir" /\ b.e = e
    <3>1. "mkdir" \in Op \ {"idle", "create", "getfree"}
      BY DEF Op
    <3> QED
      BY <3>1, BeginOK
  <2>5. b.cl = 0
    BY BeginIs
  <2> HIDE DEF b
  <2>6. CountsOK /\ 0 \in {0} \cup Clst
    BY DEF IInv
  <2>7. h.op = "mkdir" /\ h.e = e /\ h.cl = 0
    BY <2>4, <2>5, <2>6, CreatingOK DEF SameCall
  <2> HIDE DEF h
  <2>8. NewOK(call', fil, now.dir) /\ call'.op # "truncate"
    BY <1>2, <2>3, <2>7 DEF NewOK
  <2> QED
    BY <1>1, <2>1, <2>2, <2>8, EndsLeaks DEF HoldsNone
<1>3. CASE call' = Idle
  BY <1>1, <1>3, IdleIs, LooksLeaks
<1> QED
  BY <1>1, <1>2, <1>3

LEMMA MkdirChainedLeaks == ASSUME IInv, OInv, CountInv, LeakInv, mkdir_chained PROVE LeakInv'
<1> DEFINE h == [call EXCEPT !.pc = "flush", !.ret = 0, !.cl = call.ret]
<1>1. /\ call.pc = "ret" /\ call.op = "mkdir" /\ UNCHANGED <<now, fil, faults>>
      /\ \/ call' = Idle /\ (call.cl = 0 => call.ret \notin Clst)
         \/ call' = h
      /\ call \in CallRec
  BY ClstFacts DEF mkdir_chained, Finish, Failed, IInv, CallOK
<1>2. CASE call' = Idle /\ (call.cl = 0 => call.ret \notin Clst)
  <2>1. HoldsNone
    BY <1>1, <1>2 DEF HoldsNone, Holds
  <2> QED
    BY <1>1, <1>2, <2>1, GoesLeaks
<1>3. CASE call' = h
  <2> SUFFICES ASSUME faults' = 0 PROVE Lossless'
    BY DEF LeakInv
  <2>1. Lossless
    BY <1>1, LeakBefore
  <2>2. h.pc = "flush" /\ h.op = call.op /\ h.e = call.e /\ h.cl = call.ret
    BY <1>1 DEF CallRec
  <2> HIDE DEF h
  <2>3. \A a \in Clst : Holds(call, fil, a) => Holds(call', fil, a)
    BY <1>1, <1>3, <2>2 DEF Holds
  <2>4. NewOK(call', fil, now.dir)
    BY <1>1, <1>3, <2>1, <2>2 DEF NewOK, Lossless
  <2>5. AheadOK(call', fil, now.fat, now.dir)
    BY <1>1, <2>1 DEF AheadOK, Lossless
  <2> QED
    BY <1>1, <1>3, <2>1, <2>2, <2>3, <2>4, <2>5, StepLeaks
<1> QED
  BY <1>1, <1>2, <1>3

\* The call keeps the cluster of the new directory.
LEMMA TableStepLeaks ==
  ASSUME IInv, OInv, CountInv, LeakInv, UNCHANGED <<now, fil, faults>>,
         call.pc \in {"flush", "table"}, NEW pc \in {"table", "register"}, Goto(pc)
  PROVE  LeakInv'
<1>1. call \in CallRec /\ call.op = "mkdir"
  BY DEF IInv, CallOK, StageOK
<1> SUFFICES ASSUME faults' = 0 PROVE Lossless'
  BY DEF LeakInv
<1>2. Lossless
  BY LeakBefore
<1>3. call'.pc = pc /\ call'.op = call.op /\ call'.e = call.e /\ call'.cl = call.cl
  BY <1>1 DEF Goto, CallRec
<1>4. \A a \in Clst : Holds(call, fil, a) => Holds(call', fil, a)
  BY <1>3 DEF Holds
<1>5. NewOK(call', fil, now.dir)
  BY <1>1, <1>2, <1>3 DEF NewOK, Lossless
<1>6. AheadOK(call', fil, now.fat, now.dir)
  BY <1>1, <1>2 DEF AheadOK, Lossless
<1> QED
  BY <1>2, <1>3, <1>4, <1>5, <1>6, StepLeaks

LEMMA MkdirTableLeaks ==
  ASSUME IInv, OInv, CountInv, LeakInv, mkdir_flush \/ mkdir_table PROVE LeakInv'
<1>1. CASE mkdir_flush
  <2>1. call.pc = "flush" /\ Goto("table") /\ UNCHANGED <<now, fil, faults>>
    BY <1>1 DEF mkdir_flush
  <2> QED
    BY <2>1, TableStepLeaks
<1>2. CASE mkdir_table
  <2>1. call.pc = "table" /\ Goto("register") /\ UNCHANGED <<now, fil, faults>>
    BY <1>2 DEF mkdir_table
  <2> QED
    BY <2>1, TableStepLeaks
<1> QED
  BY <1>1, <1>2

LEMMA MkdirRegisterLeaks == ASSUME IInv, OInv, CountInv, LeakInv, mkdir_register PROVE LeakInv'
<1> DEFINE e == call.e
           x == [kind |-> "dir", clst |-> call.cl, size |-> 0]
           g == fil[e]
<1>1. /\ call.pc = "register" /\ PutDir(e, x) /\ Goto("sync") /\ UNCHANGED <<fil, faults>>
  BY DEF mkdir_register
<1>2. call \in CallRec /\ call.op = "mkdir" /\ e \in Entry /\ ~g.open
  BY <1>1 DEF IInv, CallOK, StageOK, OInv, Agree, RolesOK
<1> SUFFICES ASSUME faults' = 0 PROVE Lossless'
  BY DEF LeakInv
<1>3. Lossless
  BY <1>1, LeakBefore
<1>4. call'.pc = "sync" /\ call'.op = "mkdir"
  BY <1>1, <1>2 DEF Goto, CallRec
<1>5. NewOK(call', fil', now'.dir) /\ call'.op # "truncate"
  BY <1>4 DEF NewOK
<1>6. x.clst = call.cl /\ x.size = 0 /\ x.kind # "none"
  OBVIOUS
<1> HIDE DEF x
<1>7. Heads[e] = 0
  BY <1>1, <1>2, <1>3, HeadIs DEF HeadOf, Lossless, NewOK
<1>8. HoldsOnly(HeadFrom(g, x))
  BY <1>1, <1>2, <1>6 DEF HoldsOnly, Holds, HeadFrom
<1>9. fil'[e] = g /\ \A d \in Entry : d # e => fil'[d] = fil[d]
  BY <1>1
<1>10. call.op \notin {"truncate", "lseek"}
  BY <1>2
<1> HIDE DEF e, g
<1> QED
  BY <1>1, <1>2, <1>3, <1>5, <1>6, <1>7, <1>8, <1>9, <1>10, DirLeaks

LEMMA GetfreeLeaks == ASSUME IInv, OInv, CountInv, LeakInv, f_getfree PROVE LeakInv'
<1> DEFINE b == Begin("getfree", NoEntry)
           h == [b EXCEPT !.pc = "count"]
<1>1. call = Idle /\ call' \in {Idle, h} /\ UNCHANGED <<now, fil, faults>>
  BY DEF f_getfree, Finish
<1>2. b = [op |-> "getfree", pc |-> "none", e |-> NoEntry, clst |-> 0, pclst |-> 0,
           ncl |-> 0, scl |-> 0, ret |-> 0, cl |-> 0, rem |-> 0]
  BY BeginIs
<1> HIDE DEF b
<1>3. h.op = "getfree" /\ h.pc = "count"
  BY <1>2
<1> HIDE DEF h
<1> QED
  BY <1>1, <1>3, IdleIs, LooksLeaks

LEMMA GetfreeCountLeaks == ASSUME IInv, OInv, CountInv, LeakInv, getfree_count PROVE LeakInv'
<1> DEFINE n == call.rem + Zeros({call.ncl})
           h == [call EXCEPT !.ncl = call.ncl + 1, !.rem = n]
<1>1. /\ call.pc = "count" /\ UNCHANGED <<now, fil, faults>>
      /\ call' = Idle \/ call' = h
  BY DEF getfree_count, Finish
<1>2. call \in CallRec /\ call.op = "getfree"
  BY <1>1 DEF IInv, CallOK, StageOK
<1> HIDE DEF n
<1>3. h.pc = "count" /\ h.op = "getfree"
  BY <1>1, <1>2 DEF CallRec
<1> HIDE DEF h
<1>4. HoldsNone
  BY <1>1 DEF HoldsNone, Holds
<1> QED
  BY <1>1, <1>2, <1>3, <1>4, GoesLeaks

----------------------------------------------------------------------------
(* The invariant.                                                          *)

LEMMA InitLeaks == Init => LeakInv
<1> SUFFICES ASSUME Init PROVE Lossless
  BY DEF LeakInv
<1>1. call = Idle /\ \A e \in Entry : ~fil[e].open
  BY ClosedIs DEF Init
<1>2. \A e \in Entry : now.dir[e].clst = 0 /\ now.dir[e].size = 0
  BY DEF Init, NoEnt
<1>3. \A c \in Clst : now.fat[c] # 0 => IsRoot(c)
  BY DEF Init, IsRoot
<1>4. NoneLost(call, fil, now.fat, Heads)
  BY <1>3 DEF NoneLost, Unowned
<1>5. NewOK(call, fil, now.dir)
  BY <1>1, IdleHolds
<1>6. AheadOK(call, fil, now.fat, now.dir)
  BY <1>1 DEF AheadOK, Ahead
<1>7. SizesOK(fil, now.dir)
  BY <1>1, <1>2 DEF SizesOK
<1> QED
  BY <1>4, <1>5, <1>6, <1>7 DEF Lossless

LEMMA ChainLeaks == ASSUME IInv, OInv, CountInv, LeakInv, Chain PROVE LeakInv'
<1>1. CASE scan_end
  <2>1. call.pc = "scan" /\ Return(0) /\ UNCHANGED <<now, fil, faults>>
    BY <1>1 DEF scan_end
  <2> QED
    BY <2>1, ScanLeaks
<1>2. CASE scan_used
  <2>1. /\ call.pc = "scan" /\ UNCHANGED <<now, fil, faults>>
        /\ Return(0) \/ call' = [call EXCEPT !.ncl = ScanNext]
    BY <1>2 DEF scan_used
  <2> QED
    BY <2>1, ScanLeaks
<1>3. CASE sync_fs_error
  BY <1>3, FaultLeaks DEF sync_fs_error
<1> QED
  BY <1>1, <1>2, <1>3, FollowLeaks, ScanTakeLeaks, LinkLeaks, CutLeaks, FreeLeaks, SyncFsLeaks
     DEF Chain

LEMMA StartLeaks == ASSUME IInv, OInv, CountInv, LeakInv, Start PROVE LeakInv'
<1>1. ASSUME NEW e \in Entry, f_open_denied(e) PROVE LeakInv'
  BY <1>1, IdleIs, LooksLeaks DEF f_open_denied
<1>2. CASE dir_error
  BY <1>2, FaultLeaks DEF dir_error
<1> QED
  BY <1>1, <1>2, OpenLeaks, CreateLeaks, FileSyncLeaks, CloseLeaks, WriteLeaks, LseekLeaks,
     TruncateLeaks, FileUnlinkLeaks, MkdirLeaks, GetfreeLeaks DEF Start

LEMMA CallStepLeaks ==
  ASSUME IInv, OInv, CountInv, LeakInv, FileStep \/ DirStep PROVE LeakInv'
<1>1. CASE FileStep
  BY <1>1, OpenRemovedLeaks, OpenBackLeaks, WriteChainedLeaks, LseekChainedLeaks,
     TruncateNextLeaks, TruncateRemovedLeaks DEF FileStep
<1>2. CASE DirStep
  <2>1. CASE mkdir_error \/ getfree_error
    BY <2>1, FaultLeaks DEF mkdir_error, getfree_error
  <2> QED
    BY <1>2, <2>1, UnlinkLookLeaks, UnlinkRemoveLeaks, UnlinkRemovedLeaks, MkdirChainedLeaks,
       MkdirTableLeaks, MkdirRegisterLeaks, GetfreeCountLeaks DEF DirStep
<1> QED
  BY <1>1, <1>2

LEMMA LeakStep == ASSUME IInv, OInv, CountInv, LeakInv, [Next]_vars PROVE LeakInv'
<1>1. CASE move_window_error \/ PowerLoss
  BY <1>1, FaultLeaks DEF move_window_error, PowerLoss
<1>2. CASE UNCHANGED vars
  <2>1. UNCHANGED <<now, fil, call, faults>>
    BY <1>2 DEF vars
  <2>2. Heads' = Heads
    BY <2>1 DEF Heads
  <2> QED
    BY <2>1, <2>2 DEF LeakInv, Lossless
<1> QED
  BY <1>1, <1>2, StartLeaks, ChainLeaks, CallStepLeaks DEF Next

\* What has an owner has just one.
LEMMA OwnedOnce ==
  ASSUME NEW fat, NEW head, NEW dir, NEW c \in Clst, Owned(fat, head),
         \A e \in Entry : dir[e].clst = head[e], ~Unowned(fat, head, c)
  PROVE  Refs(fat, dir, c) = 1
<1> DEFINE E == {e \in Entry : dir[e].clst = c}
           D == {d \in Clst : fat[d] = c}
           r == IF FAT32 /\ c = 2 THEN 1 ELSE 0
<1>1. Refs(fat, dir, c) = Cardinality(E) + Cardinality(D) + r
  BY DEF Refs
<1>2. /\ \A e, f \in E : e = f
      /\ \A b, d \in D : b = d
  BY DEF Owned
<1>3. E # {} => D = {} /\ r = 0
  BY DEF Owned, IsRoot
<1>4. D # {} => E = {} /\ r = 0
  BY DEF Owned, IsRoot
<1>5. r \in {0, 1} /\ (E # {} \/ D # {} \/ r = 1)
  BY DEF Unowned, IsRoot
<1> HIDE DEF E, D, r
<1>6. (E = {} /\ Cardinality(E) = 0) \/ (E # {} /\ Cardinality(E) = 1)
  BY <1>2, OneOrNone
<1>7. (D = {} /\ Cardinality(D) = 0) \/ (D # {} /\ Cardinality(D) = 1)
  BY <1>2, OneOrNone
<1> QED
  BY <1>1, <1>3, <1>4, <1>5, <1>6, <1>7

\* Without faults no cluster gets lost: between calls, when all files are
\* closed, each allocated cluster belongs to just one entry, directly or
\* through a link.  f_write and f_lseek on a full volume, an f_open that empties
\* a file, f_truncate, f_unlink and an f_mkdir that finds no cluster leave none
\* behind, and f_close stores the start of every new chain, since whatever gives
\* an object its first cluster ends with FA_MODIFIED.
THEOREM NothingLeaks == Spec => []NoLeak
<1>1. Init => LeakInv /\ CountInv
  BY InitLeaks, InitCounts
<1>2. IInv /\ OInv /\ CountInv /\ LeakInv /\ [Next]_vars => LeakInv' /\ CountInv'
  BY LeakStep, CountStep
<1>3. OInv /\ CountInv /\ LeakInv => NoLeak
  <2> SUFFICES ASSUME OInv, CountInv, LeakInv, call = Idle, faults = 0,
                      \A e \in Entry : ~fil[e].open, NEW c \in Clst, now.fat[c] # 0
               PROVE  Refs(now.fat, now.dir, c) = 1
    BY DEF NoLeak
  <2>1. Lossless /\ Owned(now.fat, Heads)
    BY DEF LeakInv, CountInv, OInv, Sound
  <2>2. HoldsNone
    BY <2>1, IdleKnows
  <2>3. ~Unowned(now.fat, Heads, c)
    BY <2>1, <2>2 DEF Lossless, NoneLost, HoldsNone
  <2>4. \A e \in Entry : now.dir[e].clst = Heads[e]
    BY HeadIs DEF HeadOf
  <2> QED
    BY <2>1, <2>3, <2>4, OwnedOnce
<1> QED
  BY <1>1, <1>2, <1>3, VolumeInvariant, OwnershipInvariant, PTL DEF Spec

----------------------------------------------------------------------------
(* How long the chains are: walking along a chain.                         *)

\* A set of numbers that is not empty has a least one.
LEMMA MinIn ==
  ASSUME NEW S \in SUBSET Nat, S # {}
  PROVE  \E x \in S : \A y \in S : x <= y
<1>1. \E x \in S : \A y \in S : ~ (<<y, x>> \in OpToRel(<, Nat))
  <2> DEFINE R == OpToRel(<, Nat)
  <2>1. IsWellFoundedOn(R, Nat)
    BY NatLessThanWellFounded
  <2> HIDE DEF R
  <2>2. \E x \in S : \A y \in S : ~ (<<y, x>> \in R)
    BY <2>1, WFMin
  <2> QED
    BY <2>2 DEF R
<1>2. \E x \in S : \A y \in S : ~ (y < x)
  BY <1>1, Zenon DEF OpToRel
<1> QED
  BY <1>2

\* One step along a chain.
Follow(fat, x) == IF x \in Clst THEN fat[x] ELSE 0

\* w is the first m clusters of the chain that starts at c.
Path(fat, c, m, w) == w = [i \in 1 .. m |-> IF i = 1 THEN c ELSE Follow(fat, w[i - 1])]

LEMMA PathExists == ASSUME NEW fat, NEW c, NEW n \in Nat \ {0}
                    PROVE  \E w : Path(fat, c, n, w)
<1> DEFINE S == {m \in Nat \ {0} : ~\E w : Path(fat, c, m, w)}
<1>1. SUFFICES ASSUME S # {} PROVE FALSE
  OBVIOUS
<1>2. PICK m \in S : \A y \in S : m <= y
  <2>1. S \in SUBSET Nat
    OBVIOUS
  <2> HIDE DEF S
  <2> QED
    BY <1>1, <2>1, MinIn
<1>3. m \in Nat /\ m > 0 /\ ~\E w : Path(fat, c, m, w)
  OBVIOUS
<1>4. CASE m = 1
  <2> DEFINE w == [i \in 1 .. 1 |-> c]
  <2>1. w = [i \in 1 .. 1 |-> IF i = 1 THEN c ELSE Follow(fat, w[i - 1])]
    OBVIOUS
  <2>2. Path(fat, c, 1, w)
    BY <2>1 DEF Path
  <2> QED
    BY <1>3, <1>4, <2>2
<1>5. CASE m # 1
  <2>1. m - 1 \in Nat \ {0} /\ m - 1 \notin S
    BY <1>2, <1>3, <1>5
  <2>2. PICK v : Path(fat, c, m - 1, v)
    BY <2>1
  <2> DEFINE x == Follow(fat, v[m - 1])
             w == [i \in 1 .. m |-> IF i = m THEN x ELSE v[i]]
             u == [i \in 1 .. m |-> IF i = 1 THEN c ELSE Follow(fat, w[i - 1])]
  <2>3. \A i \in 1 .. m - 1 : v[i] = IF i = 1 THEN c ELSE Follow(fat, v[i - 1])
    BY <2>2, Zenon DEF Path
  <2>4. ASSUME NEW i \in 1 .. m PROVE w[i] = u[i]
    <3>1. w[i] = IF i = m THEN x ELSE v[i]
      OBVIOUS
    <3>2. CASE i = 1
      BY <1>3, <1>5, <2>3, <3>1, <3>2
    <3>3. CASE i # 1
      <4>1. i - 1 \in 1 .. m /\ i - 1 # m /\ i - 1 \in 1 .. m - 1
        BY <1>3, <3>3
      <4>2. w[i - 1] = v[i - 1]
        BY <4>1
      <4>3. u[i] = Follow(fat, v[i - 1])
        BY <3>3, <4>2
      <4>4. CASE i = m
        BY <3>1, <4>3, <4>4
      <4>5. CASE i # m
        <5>1. i \in 1 .. m - 1
          BY <1>3, <4>5
        <5> QED
          BY <2>3, <3>1, <3>3, <4>3, <4>5, <5>1
      <4> QED
        BY <4>4, <4>5
    <3> QED
      BY <3>2, <3>3
  <2>5. w = u
    BY <2>4
  <2>6. Path(fat, c, m, w)
    BY <2>5 DEF Path
  <2> QED
    BY <1>3, <2>6
<1> QED
  BY <1>4, <1>5

\* What the recursive function of Nth is.
LEMMA NthIs == ASSUME NEW fat, NEW c
               PROVE  /\ Nth(fat, c, 1) = c
                      /\ \A n \in 1 .. MaxSize - 1 : Nth(fat, c, n + 1) = Follow(fat, Nth(fat, c, n))
<1> DEFINE w == CHOOSE w : Path(fat, c, MaxSize, w)
<1>1. MaxSize \in Nat \ {0}
  BY MaxSizeAssumption
<1>2. Path(fat, c, MaxSize, w)
  BY <1>1, PathExists
<1>3. \A n : Nth(fat, c, n) = w[n]
  BY Zenon DEF Nth, Path, Follow
<1> HIDE DEF w
<1>4. \A i \in 1 .. MaxSize : w[i] = IF i = 1 THEN c ELSE Follow(fat, w[i - 1])
  BY <1>2, Zenon DEF Path
<1>5. w[1] = c
  BY <1>1, <1>4
<1>6. ASSUME NEW n \in 1 .. MaxSize - 1 PROVE w[n + 1] = Follow(fat, w[n])
  <2> DEFINE i == n + 1
  <2>1. i \in 1 .. MaxSize /\ i # 1 /\ i - 1 = n
    BY <1>1
  <2> HIDE DEF i
  <2>2. w[i] = Follow(fat, w[i - 1])
    BY <1>4, <2>1
  <2> QED
    BY <2>1, <2>2 DEF i
<1> QED
  BY <1>3, <1>5, <1>6
\* The chain of h has its n-th cluster.
Reach(fat, h, n) == n > 0 => Nth(fat, h, n) \in Clst

LEMMA NthNext ==
  ASSUME NEW fat, NEW h, NEW n \in 1 .. MaxSize, n > 1
  PROVE  /\ n - 1 \in 1 .. MaxSize
         /\ Nth(fat, h, n) \in Clst => /\ Nth(fat, h, n - 1) \in Clst
                                       /\ Nth(fat, h, n) = fat[Nth(fat, h, n - 1)]
<1> DEFINE m == n - 1
<1>1. m \in 1 .. MaxSize - 1 /\ m \in 1 .. MaxSize /\ m + 1 = n
  BY MaxSizeAssumption
<1> HIDE DEF m
<1>2. Nth(fat, h, m + 1) = Follow(fat, Nth(fat, h, m))
  BY <1>1, NthIs
<1>3. Nth(fat, h, n) = Follow(fat, Nth(fat, h, m))
  BY <1>1, <1>2
<1>4. Nth(fat, h, n) \in Clst => /\ Nth(fat, h, m) \in Clst
                                 /\ Nth(fat, h, n) = fat[Nth(fat, h, m)]
  BY <1>3, ClstFacts DEF Follow
<1> QED
  BY <1>1, <1>4 DEF m

\* A chain that has an n-th cluster has all those before it, each the link of
\* the one before.
LEMMA EarlierIn ==
  ASSUME NEW fat, NEW h, NEW n \in 1 .. MaxSize, Nth(fat, h, n) \in Clst
  PROVE  \A i \in 1 .. n : Nth(fat, h, i) \in Clst
<1> DEFINE S == {d \in 0 .. n - 1 : Nth(fat, h, n - d) \notin Clst}
<1>1. SUFFICES ASSUME NEW i \in 1 .. n, Nth(fat, h, i) \notin Clst PROVE FALSE
  OBVIOUS
<1>2. S # {} /\ S \in SUBSET Nat
  <2>1. n - i \in 0 .. n - 1 /\ n - (n - i) = i
    OBVIOUS
  <2>2. n - i \in S
    BY <1>1, <2>1
  <2>3. S \in SUBSET Nat
    OBVIOUS
  <2> HIDE DEF S
  <2> QED
    BY <2>2, <2>3
<1>3. PICK d \in S : \A y \in S : d <= y
  <2> HIDE DEF S
  <2> QED
    BY <1>2, MinIn
<1>4. d \in 0 .. n - 1 /\ Nth(fat, h, n - d) \notin Clst /\ d # 0
  <2>1. n - 0 = n
    OBVIOUS
  <2> QED
    BY <2>1
<1> DEFINE m == n - (d - 1)
<1>5. m \in 1 .. MaxSize /\ m > 1 /\ m - 1 = n - d /\ d - 1 \in 0 .. n - 1
  BY <1>4, MaxSizeAssumption
<1>6. d - 1 \notin S
  <2> HIDE DEF S
  <2> QED
    BY <1>3, <1>4
<1>7. Nth(fat, h, m) \in Clst
  BY <1>5, <1>6
<1> HIDE DEF m, S
<1>8. Nth(fat, h, m - 1) \in Clst
  BY <1>5, <1>7, NthNext
<1> QED
  BY <1>4, <1>5, <1>8

\* Two FATs that agree on the links before the n-th cluster have it in common.
LEMMA SameNth ==
  ASSUME NEW fat, NEW g, NEW h, NEW n \in 1 .. MaxSize, Nth(fat, h, n) \in Clst,
         \A i \in 1 .. n - 1 : g[Nth(fat, h, i)] = fat[Nth(fat, h, i)]
  PROVE  Nth(g, h, n) = Nth(fat, h, n)
<1> DEFINE S == {i \in 1 .. n : Nth(g, h, i) # Nth(fat, h, i)}
<1>1. SUFFICES ASSUME S # {} PROVE FALSE
  OBVIOUS
<1>2. PICK m \in S : \A y \in S : m <= y
  <2>1. S \in SUBSET Nat
    OBVIOUS
  <2> HIDE DEF S
  <2> QED
    BY <1>1, <2>1, MinIn
<1>3. m \in 1 .. n /\ Nth(g, h, m) # Nth(fat, h, m)
  OBVIOUS
<1>4. m # 1
  BY <1>3, NthIs
<1> DEFINE k == m - 1
<1>5. k \in 1 .. n - 1 /\ k \in 1 .. n /\ k \in 1 .. MaxSize - 1 /\ k + 1 = m /\ k < m
  BY <1>3, <1>4, MaxSizeAssumption
<1>6. Nth(g, h, k) = Nth(fat, h, k)
  <2>1. k \notin S
    <3> HIDE DEF S, k
    <3> QED
      BY <1>2, <1>3, <1>5
  <2> QED
    BY <1>5, <2>1
<1> HIDE DEF k, S
<1>7. Nth(g, h, m) = Follow(g, Nth(g, h, k)) /\ Nth(fat, h, m) = Follow(fat, Nth(fat, h, k))
  BY <1>5, NthIs
<1>8. g[Nth(fat, h, k)] = fat[Nth(fat, h, k)]
  BY <1>5
<1> QED
  BY <1>3, <1>6, <1>7, <1>8 DEF Follow

\* Links are added only.
LEMMA MoreKept ==
  ASSUME NEW fat, NEW g, NEW h, NEW n \in 1 .. MaxSize, Nth(fat, h, n) \in Clst,
         \A c \in Clst : fat[c] \in Clst => g[c] = fat[c]
  PROVE  Nth(g, h, n) = Nth(fat, h, n)
<1>1. ASSUME NEW i \in 1 .. n - 1 PROVE g[Nth(fat, h, i)] = fat[Nth(fat, h, i)]
  <2> DEFINE m == i + 1
  <2>1. m \in 1 .. n /\ m \in 1 .. MaxSize /\ m > 1 /\ m - 1 = i
    BY MaxSizeAssumption
  <2> HIDE DEF m
  <2>2. Nth(fat, h, m) \in Clst
    BY <2>1, EarlierIn
  <2>3. Nth(fat, h, i) \in Clst /\ fat[Nth(fat, h, i)] \in Clst
    BY <2>1, <2>2, NthNext
  <2> QED
    BY <2>3
<1> QED
  BY <1>1, SameNth

\* A cluster that nothing points at is in no chain.
LEMMA FreeKept ==
  ASSUME NEW fat, NEW g, NEW head, NEW e \in Entry, NEW n \in 1 .. MaxSize,
         Nth(fat, head[e], n) \in Clst, NEW c, Unowned(fat, head, c),
         \A d \in Clst : d # c => g[d] = fat[d]
  PROVE  Nth(g, head[e], n) = Nth(fat, head[e], n)
<1> DEFINE h == head[e]
<1>1. ASSUME NEW i \in 1 .. n - 1 PROVE g[Nth(fat, h, i)] = fat[Nth(fat, h, i)]
  <2>1. i \in 1 .. n /\ i \in 1 .. MaxSize
    BY MaxSizeAssumption
  <2>2. Nth(fat, h, i) \in Clst
    <3> HIDE DEF h
    <3> QED
      BY <2>1, EarlierIn DEF h
  <2>3. Nth(fat, h, i) # c
    <3>1. CASE i = 1
      <4>1. Nth(fat, h, 1) = h
        BY NthIs
      <4> QED
        BY <3>1, <4>1 DEF Unowned
    <3>2. CASE i # 1
      <4>1. i > 1
        BY <2>1, <3>2
      <4>2. Nth(fat, h, i - 1) \in Clst /\ Nth(fat, h, i) = fat[Nth(fat, h, i - 1)]
        <5> HIDE DEF h
        <5> QED
          BY <2>1, <2>2, <4>1, NthNext
      <4> QED
        BY <4>2 DEF Unowned
    <3> QED
      BY <3>1, <3>2
  <2> QED
    BY <2>2, <2>3
<1> HIDE DEF h
<1> QED
  BY <1>1, SameNth DEF h

\* Chains of owned clusters meet in no cluster, not even with themselves.
LEMMA Apart ==
  ASSUME NEW fat, NEW head, Owned(fat, head), NEW e \in Entry, NEW f \in Entry,
         NEW i \in 1 .. MaxSize, NEW j \in 1 .. MaxSize,
         Nth(fat, head[e], i) \in Clst, Nth(fat, head[e], i) = Nth(fat, head[f], j)
  PROVE  e = f /\ i = j
<1> DEFINE N(d, m) == Nth(fat, head[d], m)
           Meets(a, m) == N(e, a) \in Clst /\ N(e, a) = N(f, m) /\ ~(e = f /\ a = m)
           S == {a \in 1 .. MaxSize : \E m \in 1 .. MaxSize : Meets(a, m)}
<1>1. SUFFICES ASSUME S # {} PROVE FALSE
  OBVIOUS
<1>2. PICK a \in S : \A y \in S : a <= y
  <2>1. S \in SUBSET Nat
    BY MaxSizeAssumption
  <2> HIDE DEF S
  <2> QED
    BY <1>1, <2>1, MinIn
<1>3. PICK m \in 1 .. MaxSize : Meets(a, m)
  OBVIOUS
<1>4. a \in 1 .. MaxSize
  OBVIOUS
<1>5. N(e, 1) = head[e] /\ N(f, 1) = head[f]
  BY NthIs
<1>6. ASSUME NEW d \in Entry, NEW b \in 1 .. MaxSize, b # 1, N(d, b) \in Clst
      PROVE  b - 1 \in 1 .. MaxSize /\ N(d, b - 1) \in Clst /\ N(d, b) = fat[N(d, b - 1)]
  <2> DEFINE h == head[d]
  <2>1. b > 1
    BY <1>6
  <2>2. Nth(fat, h, b) \in Clst
    BY <1>6
  <2> HIDE DEF h
  <2> QED
    BY <2>1, <2>2, NthNext DEF h
<1>7. ASSUME a # 1, m # 1 PROVE FALSE
  <2> DEFINE p == a - 1
             q == m - 1
  <2>1. p \in 1 .. MaxSize /\ N(e, p) \in Clst /\ N(e, a) = fat[N(e, p)]
    BY <1>3, <1>4, <1>6, <1>7
  <2>2. q \in 1 .. MaxSize /\ N(f, q) \in Clst /\ N(f, m) = fat[N(f, q)]
    BY <1>3, <1>6, <1>7
  <2>3. p < a /\ (p = q => a = m)
    BY <1>4, <2>1, <2>2
  <2>4. N(e, p) = N(f, q)
    <3> HIDE DEF N, p, q
    <3>1. fat[N(e, p)] \in Clst /\ fat[N(e, p)] = fat[N(f, q)]
      BY <1>3, <2>1, <2>2 DEF Meets
    <3> QED
      BY <2>1, <2>2, <3>1 DEF Owned
  <2>5. Meets(p, q)
    BY <1>3, <2>1, <2>3, <2>4
  <2>6. p \in S
    BY <2>1, <2>2, <2>5
  <2> HIDE DEF S, p, Meets, N
  <2> QED
    BY <1>2, <1>4, <2>1, <2>3, <2>6
<1>8. CASE a = 1 /\ m = 1
  <2>1. head[e] \in Clst /\ head[e] = head[f] /\ e # f
    BY <1>3, <1>5, <1>8
  <2> QED
    BY <2>1 DEF Owned
<1>9. CASE a = 1 /\ m # 1
  <2>1. N(f, m) \in Clst
    BY <1>3
  <2>2. N(f, m - 1) \in Clst /\ N(f, m) = fat[N(f, m - 1)]
    BY <1>6, <1>9, <2>1
  <2>3. head[e] = N(f, m)
    BY <1>3, <1>5, <1>9
  <2> HIDE DEF N
  <2> QED
    BY <2>1, <2>2, <2>3 DEF Owned
<1>10. CASE a # 1 /\ m = 1
  <2>1. N(e, a) \in Clst
    BY <1>3
  <2>2. N(e, a - 1) \in Clst /\ N(e, a) = fat[N(e, a - 1)]
    BY <1>4, <1>6, <1>10, <2>1
  <2>3. head[f] = N(e, a)
    BY <1>3, <1>5, <1>10
  <2> HIDE DEF N
  <2> QED
    BY <2>1, <2>2, <2>3 DEF Owned
<1> QED
  BY <1>7, <1>8, <1>9, <1>10

\* A chain cut behind its q-th cluster keeps what is before the cut, and the
\* other chains keep all.
LEMMA CutKept ==
  ASSUME NEW fat, NEW g, NEW head, Owned(fat, head), NEW e \in Entry,
         NEW q \in 1 .. MaxSize, Nth(fat, head[e], q) \in Clst,
         \A d \in Clst : d # Nth(fat, head[e], q) => g[d] = fat[d],
         NEW f \in Entry, NEW n \in 1 .. MaxSize, Nth(fat, head[f], n) \in Clst,
         f = e => n <= q
  PROVE  Nth(g, head[f], n) = Nth(fat, head[f], n)
<1> DEFINE h == head[f]
<1>1. ASSUME NEW i \in 1 .. n - 1 PROVE g[Nth(fat, h, i)] = fat[Nth(fat, h, i)]
  <2>1. i \in 1 .. n /\ i \in 1 .. MaxSize /\ (i = q => f # e)
    BY MaxSizeAssumption
  <2>2. Nth(fat, h, i) \in Clst
    <3>1. Nth(fat, h, n) \in Clst
      OBVIOUS
    <3> HIDE DEF h
    <3> QED
      BY <2>1, <3>1, EarlierIn
  <2>3. Nth(fat, h, i) # Nth(fat, head[e], q)
    BY <2>1, <2>2, Apart
  <2> QED
    BY <2>2, <2>3
<1>2. Nth(fat, h, n) \in Clst
  OBVIOUS
<1> HIDE DEF h
<1>3. Nth(g, h, n) = Nth(fat, h, n)
  BY <1>1, <1>2, SameNth
<1> QED
  BY <1>3 DEF h
----------------------------------------------------------------------------
(* The invariant of the chains.                                            *)

\* f_truncate is at work on e.
Truncates(k, e) == k.op = "truncate" /\ k.e = e

\* The entry is no longer than its chain: f_truncate has not shortened the
\* file, or what it left has been put into the entry again.
Settled(k, f, x, e) == e \notin x \/ (~(f[e].open /\ f[e].modified) /\ ~Truncates(k, e))

\* What has no first cluster has no size.
Bare(dir) == \A e \in Entry : dir[e].clst = 0 => dir[e].size = 0

EntriesReach(k, f, x, fat, dir) ==
  /\ Bare(dir)
  /\ \A e \in Entry : Settled(k, f, x, e) => Reach(fat, dir[e].clst, dir[e].size)

\* The current cluster of an object is the one before its pointer.
Placed(fat, g) == ~g.err /\ g.fptr > 0 => Nth(fat, g.sclust, g.fptr) = g.clust

ObjectsReach(k, f, fat) ==
  \A e \in Entry : f[e].open =>
    /\ Truncates(k, e) \/ Reach(fat, f[e].sclust, f[e].size)
    /\ Placed(fat, f[e])

\* Where the call is in the chain of its object.
AtChain(k, f, fat) ==
  /\ k.op \in {"write", "lseek", "truncate"} => ~f[k.e].err
  /\ k.op \in {"write", "lseek"} /\ k.pc \in {"follow", "scan", "link"} =>
       \/ f[k.e].fptr = 0 /\ k.clst = 0 /\ f[k.e].sclust = 0
       \/ f[k.e].fptr # 0 /\ k.clst = f[k.e].clust
  /\ k.op \in {"write", "lseek"} /\ k.pc = "ret" /\ k.ret \in Clst =>
       \/ f[k.e].fptr = 0 /\ f[k.e].sclust \in {0, k.ret}
       \/ f[k.e].fptr # 0 /\ fat[f[k.e].clust] = k.ret
  /\ k.pc = "next" => f[k.e].fptr # 0
  /\ k.pc = "cut" => k.op = "truncate" /\ f[k.e].fptr # 0 /\ k.pclst = f[k.e].clust

MediumReach ==
  /\ Bare(disk.dir)
  /\ \A e \in Entry : e \notin cut => Reach(disk.fat, disk.dir[e].clst, disk.dir[e].size)

Chained ==
  /\ EntriesReach(call, fil, cut, now.fat, now.dir)
  /\ ObjectsReach(call, fil, now.fat)
  /\ AtChain(call, fil, now.fat)
  /\ MediumReach

ReachInv == ~hurt => Chained

LEMMA NoChain == ASSUME NEW fat, NEW n \in 0 .. MaxSize, Reach(fat, 0, n) PROVE n = 0
<1> SUFFICES ASSUME n # 0 PROVE FALSE
  OBVIOUS
<1>1. n > 0 /\ n \in 1 .. MaxSize /\ 1 \in 1 .. n
  BY MaxSizeAssumption
<1>2. Nth(fat, 0, n) \in Clst
  BY <1>1 DEF Reach
<1>3. Nth(fat, 0, 1) \in Clst
  BY <1>1, <1>2, EarlierIn
<1> QED
  BY <1>3, NthIs, ClstFacts

LEMMA FirstReach == \A fat : \A c \in Clst : Nth(fat, c, 1) = c /\ Reach(fat, c, 1)
  BY NthIs DEF Reach

\* The types the proofs need of entries and objects.
LEMMA SizesAre ==
  ASSUME IInv, NEW e \in Entry
  PROVE  /\ now.dir[e].size \in 0 .. MaxSize /\ now.dir[e].clst \in {0} \cup Clst
         /\ fil[e].size \in 0 .. MaxSize /\ fil[e].fptr \in 0 .. MaxSize
         /\ FileOK(fil[e]) /\ fil[e] \in File /\ fil[e].sclust \in {0} \cup Clst
<1>1. now.dir[e] \in Ent
  BY EntTyped DEF IInv
<1>2. FileOK(fil[e]) /\ fil[e] \in File
  BY DEF IInv, FilesOK, FileOK
<1> QED
  BY <1>1, <1>2 DEF Ent, File

\* The chain an entry speaks of is owned.
LEMMA EntryStarts ==
  ASSUME IInv, OInv, Bare(now.dir), NEW e \in Entry, Settled(call, fil, cut, e),
         now.dir[e].size # 0
  PROVE  now.dir[e].clst = Heads[e] /\ ~Truncates(call, e)
<1>1. now.dir[e].clst # 0
  BY DEF Bare
<1>2. EntriesAgree /\ RolesOK(call, fil, now.dir, cut)
  BY DEF OInv, Agree
<1>3. ~Truncates(call, e)
  BY <1>2 DEF Settled, Truncates, RolesOK
<1>4. Heads[e] = IF fil[e].open THEN fil[e].sclust ELSE now.dir[e].clst
  BY <1>3, HeadIs DEF HeadOf, Truncates
<1>5. fil[e].open => e \notin cut \/ ~fil[e].modified
  BY DEF Settled
<1>6. fil[e].open => now.dir[e].clst \in {0, fil[e].sclust}
  BY <1>2, <1>5 DEF EntriesAgree
<1> QED
  BY <1>1, <1>3, <1>4, <1>6

LEMMA ObjectStarts ==
  ASSUME NEW e \in Entry, fil[e].open, ~Truncates(call, e) \/ fil[e].fptr # 0
  PROVE  Heads[e] = fil[e].sclust
  BY HeadIs DEF HeadOf, Truncates

\* What is written back was in order before, unless it is not settled.
LEMMA MediumSettled ==
  ASSUME IInv, Chained, disk' \in {disk, Synced}, cut \subseteq cut'
  PROVE  MediumReach'
<1>1. Synced = now
  BY SyncedIsNow DEF IInv, WindowOK
<1>2. CASE disk' = disk
  BY <1>2 DEF Chained, MediumReach, Bare
<1>3. CASE disk' = now
  <2>1. \A e \in Entry : e \notin cut' => Reach(now.fat, now.dir[e].clst, now.dir[e].size)
    BY DEF Chained, EntriesReach, Settled
  <2>2. Bare(now.dir)
    BY DEF Chained, EntriesReach
  <2> QED
    BY <1>3, <2>1, <2>2 DEF MediumReach
<1> QED
  BY <1>1, <1>2, <1>3

\* The volume and the objects stay.
LEMMA StillReach ==
  ASSUME IInv, Chained, disk' \in {disk, Synced}, cut \subseteq cut', UNCHANGED <<now, fil>>,
         \A e \in Entry : Truncates(call, e) => Truncates(call', e),
         AtChain(call', fil, now.fat)
  PROVE  Chained'
<1>1. MediumReach'
  BY MediumSettled
<1>2. \A e \in Entry : Settled(call', fil, cut', e) => Settled(call, fil, cut, e)
  BY DEF Settled
<1>3. EntriesReach(call', fil, cut', now.fat, now.dir)
  BY <1>2 DEF Chained, EntriesReach
<1>4. ObjectsReach(call', fil, now.fat)
  BY DEF Chained, ObjectsReach
<1> QED
  BY <1>1, <1>3, <1>4 DEF Chained

LEMMA ElsewhereReach ==
  ASSUME NEW k, k.op \notin {"write", "lseek", "truncate"}, k.pc \notin {"next", "cut"},
         NEW f, NEW fat
  PROVE  AtChain(k, f, fat)
  BY DEF AtChain

\* A call that is not at an object's chain begins, goes on or ends.
LEMMA OtherReach ==
  ASSUME IInv, Chained, disk' \in {disk, Synced}, UNCHANGED <<now, fil, cut>>,
         call.op # "truncate",
         call'.op \notin {"write", "lseek", "truncate"}, call'.pc \notin {"next", "cut"}
  PROVE  Chained'
<1>1. AtChain(call', fil, now.fat)
  BY ElsewhereReach
<1>2. \A e \in Entry : ~Truncates(call, e)
  BY DEF Truncates
<1> QED
  BY <1>1, <1>2, StillReach

\* The FAT changes, the directory and the objects do not.
LEMMA FatReach ==
  ASSUME IInv, OInv, Chained, disk' \in {disk, Synced}, UNCHANGED <<fil, cut>>,
         now'.dir = now.dir, call'.op = call.op, call'.e = call.e,
         AtChain(call', fil, now'.fat),
         \A e \in Entry : \A n \in 1 .. MaxSize :
           Nth(now.fat, Heads[e], n) \in Clst /\ (Truncates(call, e) => n <= fil[e].fptr)
             => Nth(now'.fat, Heads[e], n) = Nth(now.fat, Heads[e], n)
  PROVE  Chained'
<1>1. MediumReach'
  BY MediumSettled
<1>2. \A e \in Entry : Truncates(call', e) <=> Truncates(call, e)
  BY DEF Truncates
<1>3. Bare(now.dir)
  BY DEF Chained, EntriesReach
<1>4. ASSUME NEW e \in Entry, Settled(call', fil, cut, e)
      PROVE  Reach(now'.fat, now.dir[e].clst, now.dir[e].size)
  <2> DEFINE n == now.dir[e].size
             h == now.dir[e].clst
  <2>1. Settled(call, fil, cut, e)
    BY <1>2, <1>4 DEF Settled
  <2>2. Reach(now.fat, h, n) /\ n \in 0 .. MaxSize
    BY <2>1, SizesAre DEF Chained, EntriesReach
  <2>3. CASE n = 0
    BY <2>3 DEF Reach
  <2>4. CASE n # 0
    <3>1. h = Heads[e] /\ ~Truncates(call, e)
      BY <1>3, <2>1, <2>4, EntryStarts
    <3> HIDE DEF n, h
    <3>2. n > 0 /\ n \in 1 .. MaxSize
      BY <2>2, <2>4
    <3>3. Nth(now.fat, h, n) \in Clst
      BY <2>2, <3>2 DEF Reach
    <3>4. Nth(now'.fat, h, n) = Nth(now.fat, h, n)
      BY <3>1, <3>2, <3>3
    <3>5. Reach(now'.fat, h, n)
      BY <3>3, <3>4 DEF Reach
    <3> QED
      BY <3>5 DEF n, h
  <2> QED
    BY <2>3, <2>4
<1>5. EntriesReach(call', fil, cut, now'.fat, now.dir)
  BY <1>3, <1>4 DEF EntriesReach
<1>6. ASSUME NEW e \in Entry, fil[e].open, ~Truncates(call, e)
      PROVE  Reach(now'.fat, fil[e].sclust, fil[e].size)
  <2> DEFINE n == fil[e].size
             h == fil[e].sclust
  <2>1. Reach(now.fat, h, n) /\ n \in 0 .. MaxSize /\ h = Heads[e]
    BY <1>6, SizesAre, ObjectStarts DEF Chained, ObjectsReach
  <2> HIDE DEF n, h
  <2>2. Reach(now'.fat, h, n)
    BY <1>6, <2>1 DEF Reach
  <2> QED
    BY <2>2 DEF n, h
<1>7. ASSUME NEW e \in Entry, fil[e].open PROVE Placed(now'.fat, fil[e])
  <2> DEFINE n == fil[e].fptr
             h == fil[e].sclust
             c == fil[e].clust
  <2> SUFFICES ASSUME ~fil[e].err, n > 0 PROVE Nth(now'.fat, h, n) = c
    BY DEF Placed
  <2>1. Placed(now.fat, fil[e]) /\ n \in 1 .. MaxSize /\ c \in Clst
    BY <1>7, SizesAre DEF Chained, ObjectsReach, FileOK
  <2>2. Nth(now.fat, h, n) = c
    BY <2>1 DEF Placed
  <2>3. h = Heads[e]
    BY <1>7, <2>1, ObjectStarts
  <2>4. Truncates(call, e) => n <= fil[e].fptr
    BY <2>1
  <2> HIDE DEF n, h, c
  <2> QED
    BY <2>1, <2>2, <2>3, <2>4
<1>8. ObjectsReach(call', fil, now'.fat)
  BY <1>2, <1>6, <1>7 DEF ObjectsReach
<1> QED
  BY <1>1, <1>5, <1>8 DEF Chained

----------------------------------------------------------------------------
(* create_chain, remove_chain and sync_fs.                                 *)

\* A chain function returns without a cluster.
LEMMA ReturnReach ==
  ASSUME IInv, Chained, disk' \in {disk, Synced}, UNCHANGED <<now, fil, cut>>,
         NEW r \in 0 .. NFatEnt + 1, r \notin Clst, Return(r)
  PROVE  Chained'
<1>1. call'.op = call.op /\ call'.e = call.e /\ call'.pc = "ret" /\ call'.ret = r
  BY ReturnedIs DEF IInv
<1>2. AtChain(call', fil, now.fat)
  BY <1>1 DEF Chained, AtChain
<1>3. \A e \in Entry : Truncates(call, e) => Truncates(call', e)
  BY <1>1 DEF Truncates
<1> QED
  BY <1>2, <1>3, StillReach

LEMMA FollowReach == ASSUME IInv, OInv, Chained, create_follow PROVE Chained'
<1>1. /\ CallOK /\ WindowOK /\ call \in CallRec /\ StageOK(call)
      /\ RolesOK(call, fil, now.dir, cut) /\ AtChain(call, fil, now.fat)
  BY DEF IInv, CallOK, OInv, Agree, Chained
<1>2. call.pc = "follow" /\ UNCHANGED <<now, fil, cut>> /\ disk' \in {disk, Synced}
  BY ReadDisk DEF create_follow
<1>3. call.clst \in Clst /\ call.clst # 0 /\ call.op \in {"write", "lseek"}
  BY <1>1, <1>2, ClstFacts DEF StageOK, RolesOK
<1> DEFINE x == now.fat[call.clst]
<1>4. /\ fil[call.e].fptr # 0 /\ call.clst = fil[call.e].clust /\ ~fil[call.e].err
  BY <1>1, <1>2, <1>3 DEF AtChain
<1>5. x \in 0 .. NFatEnt + 1 /\ 1 \in 0 .. NFatEnt + 1 /\ 1 \notin Clst
  <2>1. x \in 0 .. NFatEnt + 1
    BY <1>1, <1>3, FatTyped
  <2> QED
    BY <2>1, NFatEntAssumption, ClstFacts
<1>6. CASE x = 0
  <2>1. Return(1)
    BY <1>6 DEF create_follow
  <2> QED
    BY <1>2, <1>5, <2>1, ReturnReach
<1>7. CASE x # 0 /\ x # EOC
  <2>1. Return(x)
    BY <1>7 DEF create_follow
  <2>2. call'.op = call.op /\ call'.e = call.e /\ call'.pc = "ret" /\ call'.ret = x
    BY <1>1, <1>5, <2>1, ReturnedIs
  <2>3. now.fat[fil[call.e].clust] = x
    BY <1>4
  <2> HIDE DEF x
  <2>5. AtChain(call', fil, now.fat)
    BY <1>3, <1>4, <2>2, <2>3 DEF AtChain
  <2>4. \A e \in Entry : Truncates(call, e) => Truncates(call', e)
    BY <2>2 DEF Truncates
  <2> QED
    BY <1>2, <2>5, <2>4, StillReach
<1>8. CASE x = EOC /\ x # 0
  <2> DEFINE h == [call EXCEPT !.pc = "scan", !.scl = call.clst, !.ncl = call.clst]
  <2>1. call' = h
    BY <1>8 DEF create_follow
  <2>2. h.pc = "scan" /\ h.op = call.op /\ h.e = call.e /\ h.clst = call.clst
    BY <1>1 DEF CallRec
  <2> HIDE DEF h
  <2>3. AtChain(call', fil, now.fat)
    BY <1>3, <1>4, <2>1, <2>2 DEF AtChain
  <2>4. \A e \in Entry : Truncates(call, e) => Truncates(call', e)
    BY <2>1, <2>2 DEF Truncates
  <2> QED
    BY <1>2, <2>3, <2>4, StillReach
<1> QED
  BY <1>6, <1>7, <1>8

LEMMA ScanEndReach == ASSUME IInv, OInv, Chained, scan_end PROVE Chained'
<1>1. Return(0) /\ UNCHANGED <<now, disk, fil, cut>>
  BY DEF scan_end
<1>2. 0 \notin Clst /\ 0 \in 0 .. NFatEnt + 1
  BY ClstFacts
<1> QED
  BY <1>1, <1>2, ReturnReach

LEMMA ScanUsedReach == ASSUME IInv, OInv, Chained, scan_used PROVE Chained'
<1>1. call \in CallRec /\ AtChain(call, fil, now.fat)
  BY DEF IInv, CallOK, Chained
<1>2. call.pc = "scan" /\ UNCHANGED <<now, fil, cut>> /\ disk' \in {disk, Synced}
  BY ReadDisk DEF scan_used
<1>3. CASE ScanNext = call.scl
  <2>1. Return(0) /\ 0 \notin Clst /\ 0 \in 0 .. NFatEnt + 1
    BY <1>3, ClstFacts DEF scan_used
  <2> QED
    BY <1>2, <2>1, ReturnReach
<1>4. CASE ScanNext # call.scl
  <2> DEFINE h == [call EXCEPT !.ncl = ScanNext]
  <2>1. call' = h
    BY <1>4 DEF scan_used
  <2>2. h.pc = "scan" /\ h.op = call.op /\ h.e = call.e /\ h.clst = call.clst
    BY <1>1, <1>2 DEF CallRec
  <2> HIDE DEF h
  <2>3. AtChain(call', fil, now.fat)
    BY <1>1, <1>2, <2>1, <2>2 DEF AtChain
  <2>4. \A e \in Entry : Truncates(call, e) => Truncates(call', e)
    BY <2>1, <2>2 DEF Truncates
  <2> QED
    BY <1>2, <2>3, <2>4, StillReach
<1> QED
  BY <1>3, <1>4

\* A link is set where there was none.
LEMMA AddedReach ==
  ASSUME IInv, OInv, Chained, disk' \in {disk, Synced}, UNCHANGED <<fil, cut>>,
         NEW c \in Clst, NEW x, PutFat(c, x), now.fat[c] \notin Clst,
         call'.op = call.op, call'.e = call.e, AtChain(call', fil, now'.fat)
  PROVE  Chained'
<1>1. WindowOK
  BY DEF IInv
<1>2. now'.fat = [now.fat EXCEPT ![c] = x] /\ now'.dir = now.dir /\ now.fat \in [Clst -> Cell]
  BY <1>1, PutFatIs, FatIs
<1>3. \A d \in Clst : now.fat[d] \in Clst => now'.fat[d] = now.fat[d]
  BY <1>2
<1>4. \A e \in Entry : \A n \in 1 .. MaxSize :
        Nth(now.fat, Heads[e], n) \in Clst => Nth(now'.fat, Heads[e], n) = Nth(now.fat, Heads[e], n)
  BY <1>3, MoreKept
<1> QED
  BY <1>2, <1>4, FatReach

LEMMA ScanTakeReach == ASSUME IInv, OInv, Chained, scan_take PROVE Chained'
<1>1. CallOK /\ call \in CallRec /\ AtChain(call, fil, now.fat)
  BY DEF IInv, CallOK, Chained
<1> DEFINE c == ScanNext
<1>2. /\ call.pc = "scan" /\ PutFat(c, EOC) /\ now.fat[c] = 0
      /\ UNCHANGED <<fil, cut>> /\ disk' \in {disk, Synced}
  BY ReadDisk DEF scan_take
<1>3. c \in Clst /\ c \in 0 .. NFatEnt + 1 /\ 0 \notin Clst
  BY <1>1, <1>2, ScanNextOK, ClstFacts
<1>4. CASE call.clst = 0
  <2>1. Return(c)
    BY <1>4 DEF scan_take
  <2>2. call'.op = call.op /\ call'.e = call.e /\ call'.pc = "ret" /\ call'.ret = c
    BY <1>1, <1>3, <2>1, ReturnedIs
  <2>3. ASSUME call.op \in {"write", "lseek"}
        PROVE  fil[call.e].fptr = 0 /\ fil[call.e].sclust = 0
    <3>1. call.e \in Entry
      BY <1>1, <2>3 DEF CallOK, StageOK
    <3>2. fil[call.e].fptr # 0 => fil[call.e].clust # 0
      BY <3>1, SizesAre, ClstFacts DEF FileOK
    <3> QED
      BY <1>1, <1>2, <1>4, <2>3, <3>2 DEF AtChain
  <2>4. AtChain(call', fil, now'.fat)
    BY <1>1, <2>2, <2>3 DEF AtChain
  <2> HIDE DEF c
  <2> QED
    BY <1>2, <1>3, <2>2, <2>4, AddedReach
<1>5. CASE call.clst # 0
  <2> DEFINE h == [call EXCEPT !.pc = "link", !.ncl = c]
  <2>1. call' = h
    BY <1>5 DEF scan_take
  <2>2. h.pc = "link" /\ h.op = call.op /\ h.e = call.e /\ h.clst = call.clst
    BY <1>1, <1>2 DEF CallRec
  <2> HIDE DEF h
  <2>3. AtChain(call', fil, now'.fat)
    BY <1>1, <1>2, <2>1, <2>2 DEF AtChain
  <2> HIDE DEF c
  <2> QED
    BY <1>2, <1>3, <2>1, <2>2, <2>3, AddedReach
<1> QED
  BY <1>4, <1>5

LEMMA LinkReach == ASSUME IInv, OInv, Sound, Chained, create_link PROVE Chained'
<1>1. /\ WindowOK /\ CallOK /\ call \in CallRec /\ StageOK(call)
      /\ RolesOK(call, fil, now.dir, cut) /\ AtChain(call, fil, now.fat)
  BY DEF IInv, CallOK, OInv, Agree, Chained
<1> DEFINE p == call.clst
           n == call.ncl
<1>2. /\ call.pc = "link" /\ PutFat(p, n) /\ Return(n)
      /\ UNCHANGED <<fil, cut>> /\ disk' \in {disk, Synced}
  BY ReadDisk DEF create_link
<1>3. p \in Clst /\ p # 0 /\ n \in 0 .. NFatEnt + 1
  BY <1>1, <1>2, NFatEntAssumption DEF StageOK, RolesOK, Clst
<1>4. call.op \in {"write", "lseek"} /\ now.fat[p] = EOC /\ EOC \notin Clst
  BY <1>1, <1>2, <1>3, ClstFacts DEF RolesOK, Sound, LinksOK
<1>5. now'.fat[p] = n
  <2>1. now'.fat = [now.fat EXCEPT ![p] = n] /\ now.fat \in [Clst -> Cell]
    BY <1>1, <1>2, PutFatIs, FatIs
  <2> HIDE DEF p, n
  <2> QED
    BY <1>3, <2>1
<1>6. call'.op = call.op /\ call'.e = call.e /\ call'.pc = "ret" /\ call'.ret = n
  BY <1>1, <1>2, <1>3, ReturnedIs
<1>7. fil[call.e].fptr # 0 /\ p = fil[call.e].clust /\ ~fil[call.e].err
  BY <1>1, <1>2, <1>3, <1>4 DEF AtChain
<1>8. AtChain(call', fil, now'.fat)
  <2> HIDE DEF p, n
  <2> QED
    BY <1>5, <1>6, <1>7 DEF AtChain
<1> HIDE DEF p, n
<1> QED
  BY <1>2, <1>3, <1>4, <1>6, <1>8, AddedReach

LEMMA CutReach == ASSUME IInv, OInv, Sound, Chained, remove_cut PROVE Chained'
<1>1. /\ WindowOK /\ CallOK /\ call \in CallRec /\ StageOK(call)
      /\ RolesOK(call, fil, now.dir, cut) /\ AtChain(call, fil, now.fat)
  BY DEF IInv, CallOK, OInv, Agree, Chained
<1> DEFINE h == [call EXCEPT !.pc = "free", !.pclst = 0]
           p == call.pclst
           e == call.e
           q == fil[e].fptr
<1>2. /\ call.pc = "cut" /\ PutFat(p, EOC) /\ call' = h
      /\ UNCHANGED <<fil, cut>> /\ disk' \in {disk, Synced}
  BY ReadDisk DEF remove_cut
<1>3. call.op = "truncate" /\ q # 0 /\ p = fil[e].clust /\ ~fil[e].err
  BY <1>1, <1>2 DEF AtChain
<1>4. e \in Entry /\ fil[e].open /\ p \in Clst
  BY <1>1, <1>2, <1>3 DEF StageOK, RolesOK
<1>5. now'.fat = [now.fat EXCEPT ![p] = EOC] /\ now'.dir = now.dir /\ now.fat \in [Clst -> Cell]
  BY <1>1, <1>2, PutFatIs, FatIs
<1>6. h.pc = "free" /\ h.op = call.op /\ h.e = call.e
  BY <1>1 DEF CallRec
<1> HIDE DEF h
<1>7. AtChain(call', fil, now'.fat)
  BY <1>2, <1>3, <1>6 DEF AtChain
<1>8. Heads[e] = fil[e].sclust /\ q \in 1 .. MaxSize
  BY <1>3, <1>4, ObjectStarts, SizesAre
<1>9. Nth(now.fat, Heads[e], q) = p
  BY <1>3, <1>4, <1>8 DEF Chained, ObjectsReach, Placed
<1>10. \A d \in Clst : d # p => now'.fat[d] = now.fat[d]
  BY <1>5
<1>11. Owned(now.fat, Heads)
  BY DEF Sound
<1> HIDE DEF p, q
<1>12. ASSUME NEW d \in Entry, NEW n \in 1 .. MaxSize, Nth(now.fat, Heads[d], n) \in Clst,
              Truncates(call, d) => n <= fil[d].fptr
       PROVE  Nth(now'.fat, Heads[d], n) = Nth(now.fat, Heads[d], n)
  <2>1. d = e => n <= q
    BY <1>3, <1>12 DEF Truncates, q
  <2>2. Nth(now.fat, Heads[e], q) \in Clst
    BY <1>4, <1>9
  <2>3. \A b \in Clst : b # Nth(now.fat, Heads[e], q) => now'.fat[b] = now.fat[b]
    BY <1>9, <1>10
  <2> HIDE DEF e
  <2> QED
    BY <1>4, <1>8, <1>11, <1>12, <2>1, <2>2, <2>3, CutKept
<1> QED
  BY <1>2, <1>5, <1>6, <1>7, <1>12, FatReach

LEMMA FreeReach == ASSUME IInv, OInv, Sound, Chained, remove_free PROVE Chained'
<1>1. /\ WindowOK /\ CallOK /\ call \in CallRec /\ StageOK(call) /\ AtChain(call, fil, now.fat)
  BY DEF IInv, CallOK, Chained
<1> DEFINE c == call.clst
           x == now.fat[c]
<1>2. call.pc = "free" /\ UNCHANGED <<fil, cut>>
  BY DEF remove_free
<1>3. 0 \notin Clst /\ 0 \in 0 .. NFatEnt + 1 /\ Unowned(now.fat, Heads, c) /\ c \in Clst
  BY <1>1, <1>2, ClstFacts DEF StageOK, Sound, HeldOK
<1>4. CASE x = 0
  <2>1. Return(0) /\ UNCHANGED now /\ disk' \in {disk, Synced}
    BY <1>4, ReadDisk DEF remove_free
  <2> QED
    BY <1>2, <1>3, <2>1, ReturnReach
<1>5. CASE x # 0
  <2>1. /\ PutFat(c, 0) /\ disk' \in {disk, Synced}
        /\ \/ Return(0)
           \/ call' = [call EXCEPT !.clst = x]
    BY <1>5, ReadDisk DEF remove_free
  <2>2. now'.fat = [now.fat EXCEPT ![c] = 0] /\ now'.dir = now.dir /\ now.fat \in [Clst -> Cell]
    BY <1>1, <2>1, PutFatIs, FatIs
  <2>3. \A d \in Clst : d # c => now'.fat[d] = now.fat[d]
    BY <2>2
  <2>4. call'.op = call.op /\ call'.e = call.e
        /\ (call'.pc = "free" \/ (call'.pc = "ret" /\ call'.ret = 0))
    <3>1. CASE Return(0)
      BY <1>1, <1>3, <3>1, ReturnedIs
    <3>2. CASE call' = [call EXCEPT !.clst = x]
      <4> HIDE DEF x
      <4> QED
        BY <1>1, <1>2, <3>2 DEF CallRec
    <3> QED
      BY <2>1, <3>1, <3>2
  <2>5. AtChain(call', fil, now'.fat)
    BY <1>1, <1>3, <2>4 DEF AtChain
  <2> HIDE DEF c
  <2>6. ASSUME NEW e \in Entry, NEW n \in 1 .. MaxSize, Nth(now.fat, Heads[e], n) \in Clst
        PROVE  Nth(now'.fat, Heads[e], n) = Nth(now.fat, Heads[e], n)
    BY <1>3, <2>3, <2>6, FreeKept
  <2> QED
    BY <1>2, <2>1, <2>2, <2>4, <2>5, <2>6, FatReach
<1> QED
  BY <1>4, <1>5

----------------------------------------------------------------------------
(* Steps of the objects and of the directory.                              *)

\* g is f but for its flags.
Alike(f, g) ==
  /\ g.sclust = f.sclust /\ g.size = f.size /\ g.fptr = f.fptr /\ g.clust = f.clust
  /\ ~g.err => ~f.err

LEMMA AlikeReach ==
  ASSUME NEW fat, NEW f, NEW g, Alike(f, g), Reach(fat, f.sclust, f.size), Placed(fat, f)
  PROVE  Reach(fat, g.sclust, g.size) /\ Placed(fat, g)
  BY DEF Alike, Placed

LEMMA FlagIs ==
  ASSUME NEW f \in File, NEW m \in BOOLEAN
  PROVE  Alike(f, [f EXCEPT !.modified = m]) /\ Alike(f, [f EXCEPT !.err = TRUE])
<1> DEFINE g == [f EXCEPT !.modified = m]
           a == [f EXCEPT !.err = TRUE]
<1>1. /\ g.sclust = f.sclust /\ g.size = f.size /\ g.fptr = f.fptr /\ g.clust = f.clust
      /\ a.sclust = f.sclust /\ a.size = f.size /\ a.fptr = f.fptr /\ a.clust = f.clust
  BY DEF File
<1>2. g.err = f.err
  BY DEF File
<1>3. a.err
  BY DEF File
<1> HIDE DEF g, a
<1>4. Alike(f, g)
  BY <1>1, <1>2 DEF Alike
<1>5. Alike(f, a)
  BY <1>1, <1>3 DEF Alike
<1> QED
  BY <1>4, <1>5 DEF g, a

\* An object changes, the volume does not.
LEMMA ObjReach ==
  ASSUME IInv, Chained, disk' \in {disk, Synced}, UNCHANGED <<now, cut>>,
         NEW e \in Entry, NEW g, fil' = [fil EXCEPT ![e] = g],
         call.op = "truncate" => call.e = e, call'.op # "truncate",
         g.open => Reach(now.fat, g.sclust, g.size) /\ Placed(now.fat, g),
         e \in cut /\ ~(g.open /\ g.modified) => Reach(now.fat, now.dir[e].clst, now.dir[e].size),
         AtChain(call', fil', now.fat)
  PROVE  Chained'
<1>1. fil'[e] = g /\ \A d \in Entry : d # e => fil'[d] = fil[d]
  BY DEF IInv, FilesOK
<1>2. MediumReach'
  BY MediumSettled
<1>3. \A d \in Entry : ~Truncates(call', d) /\ (d # e => ~Truncates(call, d))
  BY DEF Truncates
<1>4. ASSUME NEW d \in Entry, Settled(call', fil', cut, d)
      PROVE  Reach(now.fat, now.dir[d].clst, now.dir[d].size)
  <2>1. CASE d # e
    <3>1. Settled(call, fil, cut, d)
      BY <1>1, <1>3, <1>4, <2>1 DEF Settled
    <3> QED
      BY <3>1 DEF Chained, EntriesReach
  <2>2. CASE d = e /\ e \notin cut
    <3>1. Settled(call, fil, cut, d)
      BY <2>2 DEF Settled
    <3> QED
      BY <3>1 DEF Chained, EntriesReach
  <2>3. CASE d = e /\ e \in cut
    <3>1. ~(g.open /\ g.modified)
      BY <1>1, <1>4, <2>3 DEF Settled
    <3> QED
      BY <2>3, <3>1
  <2> QED
    BY <2>1, <2>2, <2>3
<1>5. EntriesReach(call', fil', cut, now.fat, now.dir)
  BY <1>4 DEF Chained, EntriesReach
<1>6. ObjectsReach(call', fil', now.fat)
  BY <1>1, <1>3 DEF Chained, ObjectsReach
<1> QED
  BY <1>2, <1>5, <1>6 DEF Chained

\* The object of a call goes on.
LEMMA GrowReach ==
  ASSUME IInv, Chained, disk' \in {disk, Synced}, UNCHANGED <<now, cut>>,
         NEW e \in Entry, NEW g, fil' = [fil EXCEPT ![e] = g],
         fil[e].open, g.open, fil[e].modified => g.modified,
         call.op # "truncate", call'.op # "truncate",
         Reach(now.fat, g.sclust, g.size), Placed(now.fat, g),
         AtChain(call', fil', now.fat)
  PROVE  Chained'
<1>1. ASSUME ~(g.open /\ g.modified) PROVE Reach(now.fat, now.dir[e].clst, now.dir[e].size)
  <2>1. Settled(call, fil, cut, e)
    BY <1>1 DEF Settled, Truncates
  <2> QED
    BY <2>1 DEF Chained, EntriesReach
<1> QED
  BY <1>1, ObjReach

\* One entry changes, perhaps with its object.
LEMMA DirReach ==
  ASSUME IInv, Chained, disk' \in {disk, Synced}, UNCHANGED cut,
         NEW e \in Entry, NEW x, PutDir(e, x),
         NEW g, fil'[e] = g, \A d \in Entry : d # e => fil'[d] = fil[d],
         x.clst = 0 => x.size = 0, Reach(now.fat, x.clst, x.size),
         call.op # "truncate", call'.op # "truncate",
         g.open => Reach(now.fat, g.sclust, g.size) /\ Placed(now.fat, g),
         AtChain(call', fil', now.fat)
  PROVE  Chained'
<1>1. WindowOK
  BY DEF IInv
<1>2. /\ now'.fat = now.fat /\ now'.dir[e] = x
      /\ \A d \in Entry : d # e => now'.dir[d] = now.dir[d]
  BY <1>1, PutDirIs
<1>3. MediumReach'
  BY MediumSettled
<1>4. \A d \in Entry : ~Truncates(call', d) /\ ~Truncates(call, d)
  BY DEF Truncates
<1>5. Bare(now'.dir)
  BY <1>2 DEF Chained, EntriesReach, Bare
<1>6. ASSUME NEW d \in Entry, Settled(call', fil', cut, d)
      PROVE  Reach(now'.fat, now'.dir[d].clst, now'.dir[d].size)
  <2>1. CASE d # e
    <3>1. Settled(call, fil, cut, d)
      BY <1>4, <1>6, <2>1 DEF Settled
    <3> QED
      BY <1>2, <2>1, <3>1 DEF Chained, EntriesReach
  <2>2. CASE d = e
    BY <1>2, <2>2
  <2> QED
    BY <2>1, <2>2
<1>7. EntriesReach(call', fil', cut, now'.fat, now'.dir)
  BY <1>5, <1>6 DEF EntriesReach
<1>8. ObjectsReach(call', fil', now'.fat)
  BY <1>2, <1>4 DEF Chained, ObjectsReach
<1> QED
  BY <1>2, <1>3, <1>7, <1>8 DEF Chained

LEMMA IdleReach == ASSUME NEW f, NEW fat PROVE AtChain(Idle, f, fat)
  BY IdleIs, ElsewhereReach

LEMMA FileEntSize == \A c, n : FileEnt(c, n).size = n
  BY DEF FileEnt

LEMMA SyncErrorReach == ASSUME IInv, OInv, Chained, sync_fs_error PROVE Chained'
<1>1. /\ call.pc = "sync" /\ disk' \in {disk, Synced} /\ AfterSync(FALSE) /\ call' = Idle
      /\ UNCHANGED <<now, cut>>
  BY DEF sync_fs_error, Finish
<1>2. RolesOK(call, fil, now.dir, cut) /\ call.op # "truncate" /\ StageOK(call)
      /\ fil \in [Entry -> File]
  BY <1>1 DEF OInv, Agree, RolesOK, IInv, CallOK, FilesOK
<1>3. CASE call.op \in {"sync", "close"}
  <2> DEFINE e == call.e
             f == fil[e]
             g == [f EXCEPT !.modified = FALSE]
  <2>1. fil' = [fil EXCEPT ![e] = g]
    BY <1>1, <1>3 DEF AfterSync, UpdateFil
  <2>2. e \in Entry /\ f.open /\ now.dir[e] = FileEnt(f.sclust, f.size)
    BY <1>2, <1>3 DEF StageOK, RolesOK
  <2>3. Reach(now.fat, f.sclust, f.size) /\ Placed(now.fat, f)
    BY <1>2, <2>2 DEF Chained, ObjectsReach, Truncates
  <2>4. Alike(f, g)
    BY <1>2, <2>2, FlagIs
  <2> HIDE DEF g
  <2>5. Reach(now.fat, g.sclust, g.size) /\ Placed(now.fat, g)
    BY <2>3, <2>4, AlikeReach
  <2>6. Reach(now.fat, now.dir[e].clst, now.dir[e].size)
    BY <2>2, <2>3, FileEntIs, FileEntSize
  <2>7. AtChain(call', fil', now.fat) /\ call'.op # "truncate"
    BY <1>1, IdleReach, IdleIs
  <2> QED
    BY <1>1, <1>2, <2>1, <2>2, <2>5, <2>6, <2>7, ObjReach
<1>4. CASE call.op \notin {"sync", "close"}
  <2>1. UNCHANGED fil
    BY <1>1, <1>4 DEF AfterSync
  <2> QED
    BY <1>1, <1>2, <2>1, IdleIs, OtherReach
<1> QED
  BY <1>3, <1>4

LEMMA SyncFsReach == ASSUME IInv, OInv, Chained, sync_fs PROVE Chained'
<1>1. /\ call.pc = "sync" /\ disk' = Synced /\ AfterSync(TRUE) /\ call' = Idle
      /\ cut' = IF call.op \in {"sync", "close"} THEN cut \ {call.e} ELSE cut
      /\ UNCHANGED now
  BY DEF sync_fs, Finish
<1>2. RolesOK(call, fil, now.dir, cut) /\ call.op # "truncate" /\ StageOK(call)
      /\ fil \in [Entry -> File] /\ Synced = now
  BY <1>1, SyncedIsNow DEF OInv, Agree, RolesOK, IInv, CallOK, FilesOK, WindowOK
<1>3. CASE call.op \in {"sync", "close"}
  <2> DEFINE e == call.e
             f == fil[e]
             g == IF call.op = "close" THEN ClosedFil ELSE [f EXCEPT !.modified = FALSE]
  <2>1. fil' = [fil EXCEPT ![e] = g] /\ cut' = cut \ {e}
    BY <1>1, <1>3 DEF AfterSync, UpdateFil
  <2>2. e \in Entry /\ f.open /\ now.dir[e] = FileEnt(f.sclust, f.size)
    BY <1>2, <1>3 DEF StageOK, RolesOK
  <2>3. \A d \in Entry : ~Truncates(call, d) /\ ~Truncates(call', d)
    BY <1>1, <1>2, IdleIs DEF Truncates
  <2>4. Reach(now.fat, f.sclust, f.size) /\ Placed(now.fat, f)
    BY <2>2, <2>3 DEF Chained, ObjectsReach
  <2>5. g.open => Alike(f, g)
    BY <1>2, <2>2, FlagIs, ClosedIs
  <2> HIDE DEF g
  <2>6. fil'[e] = g /\ \A d \in Entry : d # e => fil'[d] = fil[d]
    BY <1>2, <2>1, <2>2
  <2>7. g.open => Reach(now.fat, g.sclust, g.size) /\ Placed(now.fat, g)
    BY <2>4, <2>5, AlikeReach
  <2>8. Reach(now.fat, now.dir[e].clst, now.dir[e].size)
    BY <2>2, <2>4, FileEntIs, FileEntSize
  <2>9. \A d \in Entry : d # e /\ Settled(call', fil', cut', d) => Settled(call, fil, cut, d)
    BY <2>1, <2>3, <2>6 DEF Settled
  <2>10. \A d \in Entry : Settled(call', fil', cut', d)
                            => Reach(now.fat, now.dir[d].clst, now.dir[d].size)
    BY <2>8, <2>9 DEF Chained, EntriesReach
  <2>11. EntriesReach(call', fil', cut', now.fat, now.dir)
    BY <2>10 DEF Chained, EntriesReach
  <2>12. ObjectsReach(call', fil', now.fat)
    BY <2>3, <2>6, <2>7 DEF Chained, ObjectsReach
  <2>13. MediumReach'
    <3>1. \A d \in Entry : d \notin cut' => Reach(now.fat, now.dir[d].clst, now.dir[d].size)
      BY <2>10 DEF Settled
    <3> QED
      BY <1>1, <1>2, <3>1 DEF MediumReach, Chained, EntriesReach
  <2>14. AtChain(call', fil', now.fat)
    BY <1>1, IdleReach
  <2> QED
    BY <1>1, <2>11, <2>12, <2>13, <2>14 DEF Chained
<1>4. CASE call.op \notin {"sync", "close"}
  <2>1. UNCHANGED <<fil, cut>>
    BY <1>1, <1>4 DEF AfterSync
  <2> QED
    BY <1>1, <1>2, <2>1, IdleIs, OtherReach
<1> QED
  BY <1>3, <1>4

LEMMA DirErrorReach == ASSUME IInv, Chained, dir_error PROVE Chained'
<1>1. call = Idle /\ call' = Idle /\ UNCHANGED <<now, fil, cut>> /\ disk' \in {disk, Synced}
  BY ReadDisk DEF dir_error
<1> QED
  BY <1>1, IdleIs, OtherReach

LEMMA DeniedReach == ASSUME IInv, Chained, NEW e \in Entry, f_open_denied(e) PROVE Chained'
<1>1. call = Idle /\ call' = Idle /\ UNCHANGED <<now, fil, cut>> /\ disk' \in {disk, Synced}
  BY ReadDisk DEF f_open_denied
<1> QED
  BY <1>1, IdleIs, OtherReach

LEMMA OpenPtr == ASSUME NEW c \in {0} \cup Clst, NEW n \in 0 .. MaxSize, NEW m \in BOOLEAN
                 PROVE  OpenFil(c, n, m).fptr = 0
<1> DEFINE f1 == [ClosedFil EXCEPT !.open = TRUE]
           f2 == [f1 EXCEPT !.sclust = c]
           f3 == [f2 EXCEPT !.size = n]
           f4 == [f3 EXCEPT !.modified = m]
<1>1. ClosedFil \in File /\ ClosedFil.fptr = 0
  BY ClosedOK DEF FileOK, ClosedFil
<1>2. OpenFil(c, n, m) = f4
  BY Zenon DEF OpenFil
<1>3. f1 \in File /\ f1.fptr = 0
  BY <1>1 DEF File
<1> HIDE DEF f1
<1>4. f2 \in File /\ f2.fptr = 0
  BY <1>3 DEF File
<1> HIDE DEF f2
<1>5. f3 \in File /\ f3.fptr = 0
  BY <1>4 DEF File
<1> HIDE DEF f3
<1>6. f4.fptr = 0
  BY <1>5 DEF File
<1> HIDE DEF f4
<1> QED
  BY <1>2, <1>6

LEMMA NewPtr == OpenFil(0, 0, TRUE).fptr = 0
<1>1. 0 \in 0 .. MaxSize /\ 0 \in {0} \cup Clst
  BY MaxSizeAssumption
<1> DEFINE t == TRUE
<1>2. t \in BOOLEAN
  OBVIOUS
<1> HIDE DEF t
<1>3. OpenFil(0, 0, t).fptr = 0
  BY <1>1, <1>2, OpenPtr
<1> QED
  BY <1>3, Zenon DEF t

\* A new object is at the start of an empty file.
LEMMA EmptyReach == ASSUME NEW fat, NEW g, g.size = 0, g.fptr = 0
                    PROVE  Reach(fat, g.sclust, g.size) /\ Placed(fat, g)
  BY DEF Reach, Placed

LEMMA NewReach == ASSUME NEW fat, NEW g, g = OpenFil(0, 0, TRUE)
                  PROVE  /\ g.open /\ g.modified
                         /\ Reach(fat, g.sclust, g.size) /\ Placed(fat, g)
<1>1. g.open /\ g.modified
  BY NewIs, NewSize, Zenon
<1>2. g.size = 0 /\ g.fptr = 0
  BY NewSize, NewPtr, Zenon
<1>3. Reach(fat, g.sclust, g.size) /\ Placed(fat, g)
  BY <1>2, EmptyReach, Zenon
<1> QED
  BY <1>1, <1>3, Zenon

LEMMA OpenReach == ASSUME IInv, Chained, NEW e \in Entry, f_open(e) PROVE Chained'
<1> DEFINE d == now.dir[e]
           g == OpenFil(d.clst, d.size, FALSE)
<1>1. /\ call = Idle /\ call' = Idle /\ ~fil[e].open
      /\ fil' = [fil EXCEPT ![e] = IF d.kind = "file" THEN g ELSE @]
      /\ UNCHANGED <<now, cut>> /\ disk' \in {disk, Synced}
  BY ReadDisk DEF f_open
<1>2. fil \in [Entry -> File]
  BY DEF IInv, FilesOK
<1>3. CASE d.kind = "file"
  <2>1. fil' = [fil EXCEPT ![e] = g]
    BY <1>1, <1>3
  <2>2. d.clst \in {0} \cup Clst /\ d.size \in 0 .. MaxSize /\ FALSE \in BOOLEAN
    BY SizesAre
  <2> HIDE DEF d
  <2>3. g.open /\ g.sclust = d.clst
    BY <2>2, OpenIs
  <2>4. g.size = d.size
    BY <2>2, OpenSize
  <2>5. g.fptr = 0
    BY <2>2, OpenPtr
  <2> HIDE DEF g
  <2>6. Reach(now.fat, d.clst, d.size)
    <3>1. Settled(call, fil, cut, e)
      BY <1>1, IdleIs DEF Settled, Truncates
    <3> QED
      BY <3>1 DEF Chained, EntriesReach, d
  <2>7. Reach(now.fat, g.sclust, g.size) /\ Placed(now.fat, g)
    BY <2>3, <2>4, <2>5, <2>6 DEF Placed
  <2>8. AtChain(call', fil', now.fat)
    BY <1>1, IdleReach
  <2> QED
    BY <1>1, <2>1, <2>6, <2>7, <2>8, IdleIs, ObjReach DEF d
<1>4. CASE d.kind # "file"
  <2>1. UNCHANGED fil
    BY <1>1, <1>2, <1>4
  <2> QED
    BY <1>1, <2>1, IdleIs, OtherReach
<1> QED
  BY <1>3, <1>4

LEMMA CreateReach == ASSUME IInv, Chained, NEW e \in Entry, f_open_create(e) PROVE Chained'
<1> DEFINE c == now.dir[e].clst
           x == FileEnt(0, 0)
           b == Begin("create", e)
           k == [b EXCEPT !.cl = c]
           h == Removing(k, c, 0)
           g == OpenFil(0, 0, TRUE)
<1>1. /\ call = Idle /\ ~fil[e].open /\ PutDir(e, x) /\ UNCHANGED cut
      /\ disk' \in {disk, Synced}
      /\ \/ fil' = [fil EXCEPT ![e] = g] /\ UNCHANGED call
         \/ c # 0 /\ call' = h /\ UNCHANGED fil
  BY ReadDisk DEF f_open_create
<1>2. fil \in [Entry -> File] /\ c \in {0} \cup Clst
  BY SizesAre DEF IInv, FilesOK
<1>3. x.size = 0 /\ Reach(now.fat, x.clst, x.size)
  BY FileEntSize DEF Reach
<1> HIDE DEF x
<1>4. CASE fil' = [fil EXCEPT ![e] = g] /\ UNCHANGED call
  <2>1. fil'[e] = g /\ call' = Idle /\ \A d \in Entry : d # e => fil'[d] = fil[d]
    BY <1>1, <1>2, <1>4
  <2>2. Reach(now.fat, g.sclust, g.size) /\ Placed(now.fat, g)
    BY NewReach, Zenon
  <2> HIDE DEF g
  <2>3. AtChain(call', fil', now.fat)
    BY <2>1, IdleReach
  <2> QED
    BY <1>1, <1>3, <2>1, <2>2, <2>3, IdleIs, DirReach
<1>5. CASE c # 0 /\ call' = h /\ UNCHANGED fil
  <2>1. c \in Clst /\ 0 \in {0} \cup Clst
    BY <1>2, <1>5
  <2>2. b = [op |-> "create", pc |-> "none", e |-> e, clst |-> 0, pclst |-> 0,
             ncl |-> 0, scl |-> 0, ret |-> 0, cl |-> 0, rem |-> 0]
    BY BeginIs
  <2> HIDE DEF b
  <2>3. k = [op |-> "create", pc |-> "none", e |-> e, clst |-> 0, pclst |-> 0,
             ncl |-> 0, scl |-> 0, ret |-> 0, cl |-> c, rem |-> 0]
    BY <2>2
  <2> HIDE DEF k
  <2>4. k \in CallRec
    BY <2>1, <2>3, NFatEntAssumption DEF CallRec, Op, Pc
  <2>5. StageOK(k) /\ k.op = "create"
    BY <2>1, <2>3 DEF StageOK
  <2>6. h.op = "create" /\ h.pc = "free"
    BY <2>1, <2>4, <2>5, RemovingOK DEF SameCall
  <2> HIDE DEF h
  <2>7. AtChain(call', fil', now.fat)
    BY <1>5, <2>6, ElsewhereReach
  <2> QED
    BY <1>1, <1>3, <1>5, <2>6, <2>7, IdleIs, DirReach
<1> QED
  BY <1>1, <1>4, <1>5

LEMMA OpenRemovedReach == ASSUME IInv, Chained, open_removed PROVE Chained'
<1>1. /\ call.op = "create" /\ UNCHANGED <<now, disk, fil, cut>> /\ call \in CallRec
      /\ call' = [call EXCEPT !.pc = "back"] \/ call' = Idle
  BY DEF open_removed, Goto, Finish, IInv, CallOK
<1>2. call'.op \notin {"write", "lseek", "truncate"} /\ call'.pc \notin {"next", "cut"}
  BY <1>1, IdleIs DEF CallRec
<1> QED
  BY <1>1, <1>2, OtherReach

LEMMA OpenBackReach == ASSUME IInv, OInv, Chained, open_back PROVE Chained'
<1> DEFINE e == call.e
           g == OpenFil(0, 0, TRUE)
<1>1. /\ call.pc = "back" /\ fil' = [fil EXCEPT ![e] = g] /\ call' = Idle
      /\ UNCHANGED <<now, cut>> /\ disk' \in {disk, Synced}
  BY ReadDisk DEF open_back, UpdateFil, Finish
<1>2. call.op = "create" /\ e \in Entry
  BY <1>1 DEF OInv, Agree, RolesOK, IInv, CallOK, StageOK
<1>3. g.open /\ g.modified /\ Reach(now.fat, g.sclust, g.size) /\ Placed(now.fat, g)
  BY NewReach, Zenon
<1> HIDE DEF g
<1>4. AtChain(call', fil', now.fat)
  BY <1>1, IdleReach
<1> QED
  BY <1>1, <1>2, <1>3, <1>4, IdleIs, ObjReach

LEMMA UpdateReach ==
  ASSUME IInv, Chained, NEW op \in {"sync", "close"}, NEW e \in Entry, call = Idle, fil[e].open,
         Update(op, e), UNCHANGED cut
  PROVE  Chained'
<1> DEFINE f == fil[e]
           x == FileEnt(f.sclust, f.size)
           b == Begin(op, e)
           h == [b EXCEPT !.pc = "sync"]
<1>1. PutDir(e, x) /\ call' = h /\ UNCHANGED fil /\ disk' \in {disk, Synced}
  BY ReadDisk DEF Update
<1>2. Reach(now.fat, f.sclust, f.size) /\ Placed(now.fat, f) /\ f.size \in 0 .. MaxSize
  BY IdleIs, SizesAre DEF Chained, ObjectsReach, Truncates
<1>3. f.sclust = 0 => f.size = 0
  BY <1>2, NoChain
<1>4. x.clst = f.sclust /\ x.size = f.size
  BY FileEntIs, FileEntSize
<1>5. b = [op |-> op, pc |-> "none", e |-> e, clst |-> 0, pclst |-> 0,
           ncl |-> 0, scl |-> 0, ret |-> 0, cl |-> 0, rem |-> 0]
  BY BeginIs
<1> HIDE DEF b
<1>6. h.op = op /\ h.pc = "sync"
  BY <1>5
<1> HIDE DEF h, x
<1>7. AtChain(call', fil', now.fat)
  BY <1>1, <1>6, ElsewhereReach
<1> QED
  BY <1>1, <1>2, <1>3, <1>4, <1>6, <1>7, IdleIs, DirReach

LEMMA FileSyncReach == ASSUME IInv, Chained, NEW e \in Entry, f_sync(e) PROVE Chained'
<1>1. call = Idle /\ fil[e].open /\ UNCHANGED cut
  BY DEF f_sync
<1>2. CASE Update("sync", e)
  BY <1>1, <1>2, UpdateReach
<1>3. CASE UNCHANGED <<now, disk, win, fil, call>>
  BY <1>1, <1>3, IdleIs, OtherReach
<1> QED
  BY <1>2, <1>3 DEF f_sync

LEMMA CloseReach == ASSUME IInv, Chained, NEW e \in Entry, f_close(e) PROVE Chained'
<1>1. call = Idle /\ fil[e].open /\ UNCHANGED cut
  BY DEF f_close
<1>2. CASE Update("close", e)
  BY <1>1, <1>2, UpdateReach
<1>3. CASE ~fil[e].modified /\ fil' = [fil EXCEPT ![e] = ClosedFil]
           /\ UNCHANGED <<now, disk, win, call>>
  <2>1. Settled(call, fil, cut, e)
    BY <1>1, <1>3, IdleIs DEF Settled, Truncates
  <2>2. Reach(now.fat, now.dir[e].clst, now.dir[e].size)
    BY <2>1 DEF Chained, EntriesReach
  <2>3. AtChain(call', fil', now.fat)
    BY <1>1, <1>3, IdleReach
  <2> QED
    BY <1>1, <1>3, <2>2, <2>3, ClosedIs, IdleIs, ObjReach
<1> QED
  BY <1>2, <1>3 DEF f_close

----------------------------------------------------------------------------
(* f_write, f_lseek and f_truncate.                                        *)

LEMMA WriteReach == ASSUME IInv, Chained, NEW e \in Entry, f_write(e) PROVE Chained'
<1> DEFINE f == fil[e]
           b == Begin("write", e)
           r == [b EXCEPT !.pc = "ret", !.ret = f.sclust]
<1>1. /\ call = Idle /\ ~f.err /\ UNCHANGED <<now, disk, fil, cut>>
      /\ \/ f.fptr = 0 /\ f.sclust = 0 /\ call' = Creating(b, 0)
         \/ f.fptr = 0 /\ f.sclust # 0 /\ call' = r
         \/ f.fptr # 0 /\ call' = Creating(b, f.clust)
  BY DEF f_write, Usable
<1>2. CountsOK /\ (f.fptr # 0 => f.clust \in Clst)
  BY SizesAre DEF IInv, FileOK
<1>3. b = [op |-> "write", pc |-> "none", e |-> e, clst |-> 0, pclst |-> 0,
           ncl |-> 0, scl |-> 0, ret |-> 0, cl |-> 0, rem |-> 0]
  BY BeginIs
<1>4. b \in CallRec /\ StageOK(b) /\ b.op = "write" /\ b.e = e
  <2>1. "write" \in Op \ {"idle", "create", "getfree"}
    BY DEF Op
  <2> QED
    BY <2>1, BeginOK
<1> HIDE DEF b
<1>5. b.clst = 0
  BY <1>3
<1>6. r.op = "write" /\ r.e = e /\ r.pc = "ret" /\ r.ret = f.sclust
  BY <1>3
<1> HIDE DEF r
<1>7. \A c \in {0} \cup Clst :
         LET h == Creating(b, c) IN
         /\ h.op = "write" /\ h.e = e
         /\ h.pc = IF c = 0 THEN "scan" ELSE "follow"
         /\ h.clst = IF c = 0 THEN 0 ELSE c
  BY <1>2, <1>4, <1>5, CreatingOK DEF SameCall
<1>8. AtChain(call', fil, now.fat)
  <2>1. CASE f.fptr = 0 /\ f.sclust = 0 /\ call' = Creating(b, 0)
    <3>1. call'.op = "write" /\ call'.e = e /\ call'.pc = "scan" /\ call'.clst = 0
      BY <1>7, <2>1
    <3> QED
      BY <1>1, <2>1, <3>1 DEF AtChain
  <2>2. CASE f.fptr = 0 /\ f.sclust # 0 /\ call' = r
    <3>1. call'.op = "write" /\ call'.e = e /\ call'.pc = "ret" /\ call'.ret = f.sclust
      BY <1>6, <2>2
    <3> QED
      BY <1>1, <2>2, <3>1 DEF AtChain
  <2>3. CASE f.fptr # 0 /\ call' = Creating(b, f.clust)
    <3>1. call'.op = "write" /\ call'.e = e /\ call'.pc = "follow" /\ call'.clst = f.clust
      BY <1>2, <1>7, <2>3, ClstFacts
    <3> QED
      BY <1>1, <2>3, <3>1 DEF AtChain
  <2> QED
    BY <1>1, <2>1, <2>2, <2>3
<1>9. \A d \in Entry : ~Truncates(call, d)
  BY <1>1, IdleIs DEF Truncates
<1> QED
  BY <1>1, <1>8, <1>9, StillReach

\* The object with the cluster that create_chain returned.
Got(f, c) == [f EXCEPT !.clust = c, !.sclust = IF @ = 0 THEN c ELSE @]

LEMMA GotAll ==
  ASSUME NEW f, FileOK(f), NEW c \in Clst
  PROVE  LET g == Got(f, c) IN
         /\ FileOK(g) /\ g \in File /\ g.open = f.open /\ (f.modified => g.modified)
         /\ g.sclust = (IF f.sclust = 0 THEN c ELSE f.sclust) /\ g.sclust \in Clst
         /\ g.clust = c /\ g.fptr = f.fptr /\ g.size = f.size /\ (g.err => f.err)
<1> DEFINE s == IF f.sclust = 0 THEN c ELSE f.sclust
           g == [f EXCEPT !.clust = c, !.sclust = s]
<1>1. f \in File /\ s \in {0} \cup Clst
  BY DEF FileOK, File
<1>2. Got(f, c) = g
  BY DEF Got
<1>3. /\ FileOK(Got(f, c)) /\ Got(f, c).sclust \in Clst /\ Got(f, c).clust = c
      /\ Got(f, c).fptr = f.fptr /\ Got(f, c).size = f.size
  BY GotClusterOK DEF Got
<1>4. /\ Got(f, c) \in File /\ Got(f, c).open = f.open /\ (f.modified => Got(f, c).modified)
      /\ Got(f, c).sclust = s
  BY GotIs DEF Got
<1>5. g.err => f.err
  <2> HIDE DEF s
  <2> QED
    BY <1>1 DEF File
<1> HIDE DEF g
<1> QED
  BY <1>2, <1>3, <1>4, <1>5

LEMMA NthStep ==
  ASSUME NEW fat, NEW c, NEW d \in Clst, NEW n \in 1 .. MaxSize - 1, Nth(fat, c, n) = d
  PROVE  Nth(fat, c, n + 1) = fat[d]
  BY NthIs DEF Follow

\* That cluster is the one at the file pointer.
LEMMA GotReach ==
  ASSUME IInv, Chained, call.pc = "ret", call.op \in {"write", "lseek"}, call.ret \in Clst,
         call.e \in Entry, fil[call.e].open, fil[call.e].fptr < MaxSize,
         NEW g, g = Got(fil[call.e], call.ret)
  PROVE  /\ Reach(now.fat, g.sclust, g.size) /\ ~g.err
         /\ Nth(now.fat, g.sclust, g.fptr + 1) = g.clust
<1> DEFINE f == fil[call.e]
           p == f.fptr
           c == call.ret
<1>1. /\ FileOK(f) /\ f.size \in 0 .. MaxSize /\ p \in 0 .. MaxSize /\ c \in Clst
      /\ ~Truncates(call, call.e)
  BY SizesAre DEF Truncates
<1>2. /\ g.sclust = (IF f.sclust = 0 THEN c ELSE f.sclust)
      /\ g.clust = c /\ g.fptr = p /\ g.size = f.size /\ (g.err => f.err)
  BY <1>1, GotAll
<1>3. Reach(now.fat, f.sclust, f.size) /\ Placed(now.fat, f)
  BY <1>1 DEF Chained, ObjectsReach
<1>4. ~f.err /\ \/ p = 0 /\ f.sclust \in {0, c}
                \/ p # 0 /\ now.fat[f.clust] = c
  BY DEF Chained, AtChain
<1>5. f.sclust = 0 => f.size = 0
  BY <1>1, <1>3, NoChain
<1>6. p # 0 => /\ p \in 1 .. MaxSize - 1 /\ f.sclust \in Clst /\ f.clust \in Clst
               /\ Nth(now.fat, f.sclust, p) = f.clust
  <2>1. p # 0 => p \in 1 .. MaxSize - 1 /\ p > 0
    BY <1>1, MaxSizeAssumption
  <2> QED
    BY <1>1, <1>3, <1>4, <2>1 DEF Placed, FileOK
<1> HIDE DEF f, p, c
<1>7. Reach(now.fat, g.sclust, g.size) /\ ~g.err
  <2>1. ~g.err
    BY <1>2, <1>4
  <2>2. Reach(now.fat, g.sclust, g.size)
    BY <1>2, <1>3, <1>5 DEF Reach
  <2> QED
    BY <2>1, <2>2
<1>8. Nth(now.fat, g.sclust, p + 1) = c
  <2>1. CASE p = 0
    BY <1>2, <1>4, <2>1, NthIs
  <2>2. CASE p # 0
    <3>1. g.sclust = f.sclust /\ now.fat[f.clust] = c
      BY <1>2, <1>4, <1>6, <2>2, ClstFacts
    <3>2. p \in 1 .. MaxSize - 1 /\ Nth(now.fat, f.sclust, p) = f.clust /\ f.clust \in Clst
      BY <1>6, <2>2
    <3>3. Nth(now.fat, f.sclust, p + 1) = now.fat[f.clust]
      BY <3>2, NthStep
    <3> QED
      BY <3>1, <3>3
  <2> QED
    BY <2>1, <2>2
<1> QED
  BY <1>2, <1>7, <1>8

LEMMA WrittenAll ==
  ASSUME NEW g \in File, NEW p \in 0 .. MaxSize, p < MaxSize, g.fptr = p
  PROVE  LET w == [g EXCEPT !.fptr = @ + 1, !.modified = TRUE,
                            !.size = IF p + 1 > @ THEN p + 1 ELSE @] IN
         /\ w.open = g.open /\ w.sclust = g.sclust /\ w.modified /\ w.clust = g.clust
         /\ w.fptr = p + 1 /\ w.size = (IF p + 1 > g.size THEN p + 1 ELSE g.size)
<1> DEFINE n == g.fptr + 1
           z == IF p + 1 > g.size THEN p + 1 ELSE g.size
           g1 == [g EXCEPT !.fptr = n]
           g2 == [g1 EXCEPT !.modified = TRUE]
           g3 == [g2 EXCEPT !.size = z]
           w  == [g EXCEPT !.fptr = @ + 1, !.modified = TRUE,
                           !.size = IF p + 1 > @ THEN p + 1 ELSE @]
<1>1. n \in 0 .. MaxSize /\ z \in 0 .. MaxSize /\ n = p + 1
  BY MaxSizeAssumption DEF File
<1>2. w = g3
  OBVIOUS
<1>3. w.open = g.open /\ w.sclust = g.sclust /\ w.modified
  BY WrittenIs
<1> HIDE DEF n, z, w
<1>4. g1 \in File /\ g1.fptr = n /\ g1.clust = g.clust
  BY <1>1 DEF File
<1> HIDE DEF g1
<1>5. g2 \in File /\ g2.fptr = n /\ g2.clust = g.clust
  BY <1>4 DEF File
<1> HIDE DEF g2
<1>6. g3.fptr = n /\ g3.clust = g.clust /\ g3.size = z
  BY <1>1, <1>5 DEF File
<1> HIDE DEF g3
<1>7. w.clust = g.clust /\ w.fptr = p + 1 /\ w.size = z
  BY <1>1, <1>2, <1>6
<1> QED
  BY <1>3, <1>7 DEF w, z

LEMMA WriteChainedReach ==
  ASSUME IInv, OInv, Chained, NEW ok \in BOOLEAN, write_chained(ok) PROVE Chained'
<1> DEFINE e == call.e
           f == fil[e]
           g == Got(f, call.ret)
<1>1. call.pc = "ret" /\ call.op = "write" /\ UNCHANGED <<now, disk, cut>>
  BY DEF write_chained
<1>2. e \in Entry /\ f.open /\ FileOK(f) /\ f \in File /\ f.fptr < MaxSize
      /\ f.fptr \in 0 .. MaxSize
  <2>1. e \in Entry /\ f.open /\ f.fptr < MaxSize
    BY <1>1 DEF IInv, CallOK, StageOK, TiedOK, OInv, Agree, RolesOK
  <2> QED
    BY <2>1, SizesAre
<1>3. Reach(now.fat, f.sclust, f.size) /\ Placed(now.fat, f)
  BY <1>1, <1>2 DEF Chained, ObjectsReach, Truncates
<1>4. call' = Idle
  BY DEF write_chained, Abort, Finish
<1>5. AtChain(call', fil', now.fat) /\ call'.op # "truncate"
  BY <1>4, IdleReach, IdleIs
<1>6. CASE call.ret = 0
  <2> DEFINE w == [f EXCEPT !.modified = TRUE]
  <2>1. fil' = [fil EXCEPT ![e] = w]
    BY <1>6 DEF write_chained, UpdateFil
  <2>2. w.open = f.open /\ w.modified
    BY <1>2 DEF File
  <2>3. Alike(f, w)
    BY <1>2, FlagIs
  <2> HIDE DEF w
  <2>4. Reach(now.fat, w.sclust, w.size) /\ Placed(now.fat, w)
    BY <1>3, <2>3, AlikeReach
  <2> QED
    BY <1>1, <1>2, <1>5, <2>1, <2>2, <2>4, GrowReach
<1>7. CASE call.ret # 0 /\ Failed(call.ret)
  <2> DEFINE w == [f EXCEPT !.err = TRUE]
  <2>1. fil' = [fil EXCEPT ![e] = w]
    BY <1>7 DEF write_chained, Abort, UpdateFil
  <2>2. w.open = f.open /\ (f.modified => w.modified)
    BY <1>2, ErrIs
  <2>3. Alike(f, w)
    BY <1>2, FlagIs
  <2> HIDE DEF w
  <2>4. Reach(now.fat, w.sclust, w.size) /\ Placed(now.fat, w)
    BY <1>3, <2>3, AlikeReach
  <2> QED
    BY <1>1, <1>2, <1>5, <2>1, <2>2, <2>4, GrowReach
<1>8. CASE call.ret # 0 /\ ~Failed(call.ret)
  <2>1. call.ret \in Clst
    BY <1>8 DEF Failed
  <2>2. /\ g \in File /\ g.open = f.open /\ (f.modified => g.modified)
        /\ g.clust = call.ret /\ g.fptr = f.fptr /\ g.size = f.size
    BY <1>2, <2>1, GotAll
  <2>3. /\ Reach(now.fat, g.sclust, g.size) /\ ~g.err
        /\ Nth(now.fat, g.sclust, g.fptr + 1) = g.clust
    BY <1>1, <1>2, <2>1, GotReach
  <2> DEFINE a == [g EXCEPT !.err = TRUE]
             w == [g EXCEPT !.fptr = @ + 1, !.modified = TRUE,
                            !.size = IF f.fptr + 1 > @ THEN f.fptr + 1 ELSE @]
  <2>4. fil' = [fil EXCEPT ![e] = a] \/ fil' = [fil EXCEPT ![e] = w]
    BY <1>8 DEF write_chained, Abort, UpdateFil, Got
  <2> HIDE DEF g
  <2>5. CASE fil' = [fil EXCEPT ![e] = a]
    <3>1. a.open = g.open /\ a.sclust = g.sclust /\ (g.modified => a.modified)
      BY <2>2, ErrIs
    <3>2. a.size = g.size
      BY <2>2, ErrSize
    <3>3. a.err
      BY <2>2 DEF File
    <3> HIDE DEF a
    <3>4. Reach(now.fat, a.sclust, a.size) /\ Placed(now.fat, a)
      BY <2>3, <3>1, <3>2, <3>3 DEF Placed
    <3> QED
      BY <1>1, <1>2, <1>5, <2>2, <2>5, <3>1, <3>4, GrowReach
  <2>6. CASE fil' = [fil EXCEPT ![e] = w]
    <3> DEFINE p == f.fptr
    <3>1. /\ w.open = g.open /\ w.sclust = g.sclust /\ w.modified /\ w.clust = g.clust
          /\ w.fptr = p + 1 /\ w.size = (IF p + 1 > g.size THEN p + 1 ELSE g.size)
      BY <1>2, <2>2, WrittenAll
    <3> HIDE DEF w
    <3>2. Reach(now.fat, w.sclust, w.size)
      BY <2>1, <2>2, <2>3, <3>1 DEF Reach
    <3>3. Placed(now.fat, w)
      BY <2>2, <2>3, <3>1 DEF Placed
    <3> QED
      BY <1>1, <1>2, <1>5, <2>2, <2>6, <3>1, <3>2, <3>3, GrowReach
  <2> QED
    BY <2>4, <2>5, <2>6
<1> QED
  BY <1>6, <1>7, <1>8

LEMMA SoughtAll ==
  ASSUME NEW f \in File, NEW n \in 0 .. MaxSize
  PROVE  LET g == Sought(f, n) IN
         /\ g.open = f.open /\ g.sclust = f.sclust /\ (f.modified => g.modified)
         /\ g.size = (IF n > f.size THEN n ELSE f.size) /\ g.fptr = n
         /\ n # 0 => g.clust = f.clust
<1> DEFINE z == IF n > f.size THEN n ELSE f.size
           m == f.modified \/ n > f.size
           c == IF n = 0 THEN 0 ELSE f.clust
           f1 == [f EXCEPT !.fptr = n]
           f2 == [f1 EXCEPT !.size = z]
           f3 == [f2 EXCEPT !.modified = m]
           f4 == [f3 EXCEPT !.clust = c]
<1>1. Sought(f, n) = f4
  BY Zenon DEF Sought
<1>2. z \in 0 .. MaxSize /\ c \in {0} \cup Clst /\ (n # 0 => c = f.clust)
  BY DEF File
<1>3. m \in BOOLEAN
  BY DEF File
<1>4. Sought(f, n).open = f.open /\ Sought(f, n).sclust = f.sclust
      /\ (f.modified => Sought(f, n).modified)
  BY SoughtIs
<1>5. Sought(f, n).size = z
  BY SoughtSize
<1> HIDE DEF z, m, c
<1>6. f1 \in File /\ f1.fptr = n
  BY DEF File
<1> HIDE DEF f1
<1>7. f2 \in File /\ f2.fptr = n
  BY <1>2, <1>6 DEF File
<1> HIDE DEF f2
<1>8. f3 \in File /\ f3.fptr = n
  BY <1>3, <1>7 DEF File
<1> HIDE DEF f3
<1>9. f4.fptr = n /\ f4.clust = c
  BY <1>2, <1>8 DEF File
<1> HIDE DEF f4
<1> QED
  BY <1>1, <1>2, <1>4, <1>5, <1>9 DEF z

\* The loop of f_lseek, at the cluster that follows the pointer.
LEMMA SeekReach ==
  ASSUME IInv, Chained, UNCHANGED <<now, disk, cut>>,
         NEW k \in CallRec, StageOK(k), k.op = "lseek", k.e \in Entry,
         NEW g, FileOK(g), g.fptr + k.rem <= MaxSize,
         k.rem > 0 => /\ g.sclust \in Clst /\ g.clust \in Clst
                      /\ Nth(now.fat, g.sclust, g.fptr + 1) = g.clust,
         k.rem = 0 => g.fptr = 0,
         fil[k.e].open, g.open, fil[k.e].modified => g.modified, ~g.err,
         Reach(now.fat, g.sclust, g.size),
         call.op # "truncate", Seek(k, g)
  PROVE  Chained'
<1>1. g \in File /\ g.fptr \in 0 .. MaxSize /\ k.rem \in Nat /\ MaxSize \in Nat
      /\ g.size \in 0 .. MaxSize
  BY MaxSizeAssumption DEF FileOK, File, CallRec
<1>2. FilesOK /\ CountsOK /\ fil \in [Entry -> File]
  BY DEF IInv, FilesOK
<1>3. CASE k.rem > 1
  <2> DEFINE w == [g EXCEPT !.fptr = g.fptr + 1]
             b == [k EXCEPT !.rem = k.rem - 1]
             h == Creating(b, g.clust)
  <2>1. fil' = [fil EXCEPT ![k.e] = w] /\ call' = h
    BY <1>3 DEF Seek
  <2>2. g.fptr + 1 \in 0 .. MaxSize /\ g.clust \in Clst /\ g.clust # 0 /\ g.clust \in {0} \cup Clst
    BY <1>1, <1>3, ClstFacts
  <2>3. /\ w.open = g.open /\ w.sclust = g.sclust /\ (g.modified => w.modified)
        /\ w.clust = g.clust /\ w.fptr = g.fptr + 1
    BY <1>1, <2>2, PtrIs
  <2>4. w.size = g.size
    BY <1>1, <2>2, PtrSize
  <2>5. ~w.err
    BY <1>1, <2>2 DEF File
  <2> HIDE DEF w
  <2>6. fil'[k.e] = w
    BY <1>2, <2>1
  <2>7. k.rem - 1 \in Nat
    BY <1>1, <1>3
  <2>8. b \in CallRec
    BY <2>7 DEF CallRec
  <2>9. b.op = k.op /\ b.e = k.e /\ b.rem = k.rem - 1 /\ b.cl = k.cl /\ b.pc = k.pc
        /\ b.clst = k.clst /\ b.pclst = k.pclst /\ b.ncl = k.ncl
    BY DEF CallRec
  <2> HIDE DEF b
  <2>10. StageOK(b)
    <3>1. b.pc # "count"
      BY <2>9 DEF StageOK
    <3> QED
      BY <2>9, <3>1 DEF StageOK
  <2>11. h.op = "lseek" /\ h.e = k.e /\ h.pc = "follow" /\ h.clst = g.clust
    BY <1>2, <2>2, <2>8, <2>9, <2>10, CreatingOK DEF SameCall
  <2> HIDE DEF h
  <2>12. AtChain(call', fil', now.fat)
    <3>1. w.fptr # 0
      BY <1>1, <2>3
    <3> QED
      BY <2>1, <2>3, <2>5, <2>6, <2>11, <3>1 DEF AtChain
  <2>13. Reach(now.fat, w.sclust, w.size)
    BY <2>3, <2>4
  <2>14. Placed(now.fat, w)
    <3> DEFINE n == g.fptr + 1
    <3>1. k.rem > 0
      BY <1>1, <1>3
    <3>2. Nth(now.fat, g.sclust, n) = g.clust
      BY <3>1
    <3>3. w.fptr = n
      BY <2>3
    <3> HIDE DEF n
    <3> QED
      BY <2>3, <3>2, <3>3 DEF Placed
  <2>15. call'.op # "truncate"
    BY <2>1, <2>11
  <2> QED
    BY <2>1, <2>3, <2>12, <2>13, <2>14, <2>15, GrowReach
<1>4. CASE ~(k.rem > 1)
  <2> DEFINE n == g.fptr + k.rem
             w == Sought(g, n)
  <2>1. fil' = [fil EXCEPT ![k.e] = w] /\ call' = Idle
    BY <1>4 DEF Seek, Finish
  <2>2. n \in 0 .. MaxSize /\ (n = 0 \/ n = g.fptr + 1)
    BY <1>1, <1>4
  <2>3. n # 0 => /\ g.clust \in Clst /\ Nth(now.fat, g.sclust, n) = g.clust
    <3>1. n # 0 => k.rem > 0
      BY <1>1
    <3>2. n # 0 => n = g.fptr + 1
      BY <2>2
    <3> HIDE DEF n
    <3> QED
      BY <3>1, <3>2
  <2> HIDE DEF n
  <2>4. /\ w.open = g.open /\ w.sclust = g.sclust /\ (g.modified => w.modified)
        /\ w.size = (IF n > g.size THEN n ELSE g.size) /\ w.fptr = n
        /\ n # 0 => w.clust = g.clust
    BY <1>1, <2>2, SoughtAll
  <2> HIDE DEF w
  <2>5. Reach(now.fat, w.sclust, w.size)
    <3>1. CASE n > g.size
      <4>1. n # 0 /\ w.size = n
        BY <1>1, <2>4, <3>1
      <4> QED
        BY <2>3, <2>4, <4>1 DEF Reach
    <3>2. CASE ~(n > g.size)
      BY <2>4, <3>2
    <3> QED
      BY <3>1, <3>2
  <2>6. Placed(now.fat, w)
    BY <2>2, <2>3, <2>4 DEF Placed
  <2>7. AtChain(call', fil', now.fat) /\ call'.op # "truncate"
    BY <2>1, IdleReach, IdleIs
  <2> QED
    BY <2>1, <2>4, <2>5, <2>6, <2>7, GrowReach
<1> QED
  BY <1>3, <1>4

LEMMA LseekReach == ASSUME IInv, Chained, NEW e \in Entry, NEW ofs \in 0 .. MaxSize,
                           f_lseek(e, ofs)
                    PROVE  Chained'
<1> DEFINE f == fil[e]
           b == Begin("lseek", e)
           k == [b EXCEPT !.rem = ofs]
<1>1. call = Idle /\ f.open /\ UNCHANGED <<now, disk, cut>>
  BY DEF f_lseek, Usable
<1>2. /\ FileOK(f) /\ f \in File /\ f.fptr \in 0 .. MaxSize /\ ofs \in Nat /\ MaxSize \in Nat
      /\ f.sclust \in {0} \cup Clst /\ CountsOK /\ fil \in [Entry -> File]
  BY SizesAre, MaxSizeAssumption DEF IInv, FilesOK
<1>3. ~f.err
  BY DEF f_lseek, Usable
<1>4. Reach(now.fat, f.sclust, f.size) /\ Placed(now.fat, f)
  BY <1>1, IdleIs DEF Chained, ObjectsReach, Truncates
<1>5. b = [op |-> "lseek", pc |-> "none", e |-> e, clst |-> 0, pclst |-> 0,
           ncl |-> 0, scl |-> 0, ret |-> 0, cl |-> 0, rem |-> 0]
  BY BeginIs
<1> DEFINE kk(n) == [op |-> "lseek", pc |-> "none", e |-> e, clst |-> 0, pclst |-> 0,
                     ncl |-> 0, scl |-> 0, ret |-> 0, cl |-> 0, rem |-> n]
<1>6. k = kk(ofs)
  BY <1>5
<1>7. \A n \in Nat : kk(n) \in CallRec /\ StageOK(kk(n)) /\ kk(n).op = "lseek"
                     /\ kk(n).e = e /\ kk(n).rem = n /\ kk(n).clst = 0
  <2> TAKE n \in Nat
  <2>1. kk(n) \in CallRec
    BY NFatEntAssumption DEF CallRec, Op, Pc
  <2> QED
    BY <2>1 DEF StageOK
<1> HIDE DEF b, k
<1>8. \A n : [k EXCEPT !.rem = n] = kk(n)
  BY <1>6
<1> HIDE DEF kk
<1>9. call.op # "truncate" /\ k \in CallRec /\ StageOK(k) /\ k.op = "lseek" /\ k.e = e
      /\ k.rem = ofs /\ k.clst = 0
  BY <1>1, <1>2, <1>6, <1>7, IdleIs
<1>10. CASE ofs = 0
  <2> DEFINE g == [f EXCEPT !.fptr = 0]
  <2>1. Seek(k, g)
    BY <1>10 DEF f_lseek, b, k
  <2>2. /\ g \in File /\ g.fptr = 0 /\ g.open = f.open /\ g.sclust = f.sclust
        /\ (f.modified => g.modified)
    BY <1>2, PtrIs
  <2>3. g.size = f.size
    BY <1>2, PtrSize
  <2>4. ~g.err
    BY <1>2, <1>3 DEF File
  <2> HIDE DEF g
  <2>5. FileOK(g)
    BY <2>2 DEF FileOK
  <2>6. g.fptr + k.rem <= MaxSize /\ ~(k.rem > 0)
    BY <1>2, <1>9, <1>10, <2>2
  <2>7. fil[k.e].open /\ g.open /\ (fil[k.e].modified => g.modified) /\ k.e \in Entry
    BY <1>1, <1>9, <2>2
  <2>8. Reach(now.fat, g.sclust, g.size)
    BY <1>4, <2>2, <2>3
  <2> QED
    BY <1>1, <1>9, <2>1, <2>2, <2>4, <2>5, <2>6, <2>7, <2>8, SeekReach
<1>11. CASE ofs # 0 /\ FromCurrent(f, ofs)
  <2> DEFINE g == [f EXCEPT !.fptr = f.fptr - 1]
             n == ofs - (f.fptr - 1)
  <2>1. Seek(kk(n), g)
    <3>1. Seek([k EXCEPT !.rem = n], g)
      BY <1>11 DEF f_lseek, b, k
    <3> QED
      BY <3>1, <1>8
  <2>2. f.fptr > 0 /\ ofs >= f.fptr
    BY <1>11 DEF FromCurrent
  <2>3. f.fptr - 1 \in 0 .. MaxSize /\ n \in Nat /\ n # 0 /\ f.fptr - 1 + n <= MaxSize
        /\ f.fptr - 1 + 1 = f.fptr
    BY <1>2, <2>2
  <2>4. /\ g \in File /\ g.fptr = f.fptr - 1 /\ g.open = f.open /\ g.sclust = f.sclust
        /\ g.clust = f.clust /\ (f.modified => g.modified)
    BY <1>2, <2>3, PtrIs
  <2>5. g.size = f.size
    BY <1>2, <2>3, PtrSize
  <2>6. ~g.err
    BY <1>2, <1>3, <2>3 DEF File
  <2>7. f.sclust \in Clst /\ f.clust \in Clst
    BY <1>2, <2>2 DEF FileOK
  <2>8. Nth(now.fat, f.sclust, f.fptr) = f.clust
    BY <1>3, <1>4, <2>2 DEF Placed
  <2> HIDE DEF g, n
  <2>9. FileOK(g)
    BY <2>4, <2>7 DEF FileOK
  <2>10. g.fptr + 1 = f.fptr /\ Nth(now.fat, g.sclust, g.fptr + 1) = g.clust
    <3>1. g.fptr + 1 = f.fptr
      BY <2>3, <2>4
    <3> QED
      BY <2>4, <2>8, <3>1
  <2>11. Reach(now.fat, g.sclust, g.size)
    BY <1>4, <2>4, <2>5
  <2>12. /\ kk(n) \in CallRec /\ StageOK(kk(n)) /\ kk(n).op = "lseek"
         /\ kk(n).e = e /\ kk(n).rem = n
    BY <1>7, <2>3
  <2> QED
    BY <1>1, <1>9, <2>1, <2>3, <2>4, <2>6, <2>7, <2>9, <2>10, <2>11, <2>12, SeekReach
<1>12. CASE ofs # 0 /\ ~FromCurrent(f, ofs) /\ f.sclust = 0
  <2> DEFINE g == [f EXCEPT !.fptr = 0, !.clust = 0]
             h == Creating(k, 0)
  <2>1. fil' = [fil EXCEPT ![e].fptr = 0, ![e].clust = 0] /\ call' = h
    BY <1>12 DEF f_lseek, b, k
  <2>2. fil' = [fil EXCEPT ![e] = g]
    BY <1>2, <2>1
  <2>3. 0 \in 0 .. MaxSize /\ 0 \in {0} \cup Clst
    BY MaxSizeAssumption
  <2>4. g.open = f.open /\ g.sclust = f.sclust /\ (f.modified => g.modified)
    <3> HIDE DEF f
    <3> QED
      BY <1>2, <2>3 DEF File
  <2>5. g.fptr = 0 /\ g.size = f.size
    <3> HIDE DEF f
    <3> QED
      BY <1>2, <2>3 DEF File
  <2>6. ~g.err
    <3> HIDE DEF f
    <3> QED
      BY <1>2, <1>3, <2>3 DEF File
  <2> HIDE DEF g
  <2>7. h.op = "lseek" /\ h.e = e /\ h.pc = "scan" /\ h.clst = 0
    BY <1>2, <1>9, <2>3, CreatingOK DEF SameCall
  <2> HIDE DEF h
  <2>8. fil'[e] = g
    BY <1>2, <2>2
  <2>9. AtChain(call', fil', now.fat)
    BY <1>12, <2>1, <2>4, <2>5, <2>6, <2>7, <2>8 DEF AtChain
  <2>10. Reach(now.fat, g.sclust, g.size)
    BY <1>4, <2>4, <2>5
  <2>11. Placed(now.fat, g)
    BY <2>5 DEF Placed
  <2>12. call'.op # "truncate"
    BY <2>1, <2>7
  <2> QED
    BY <1>1, <1>9, <2>2, <2>4, <2>9, <2>10, <2>11, <2>12, GrowReach
<1>13. CASE ofs # 0 /\ ~FromCurrent(f, ofs) /\ f.sclust # 0
  <2> DEFINE g == [f EXCEPT !.fptr = 0, !.clust = f.sclust]
  <2>1. Seek(k, g)
    BY <1>13 DEF f_lseek, b, k
  <2>2. f.sclust \in Clst /\ 0 \in 0 .. MaxSize
    BY <1>2, <1>13
  <2>3. /\ g \in File /\ g.fptr = 0 /\ g.clust = f.sclust /\ g.sclust = f.sclust
        /\ g.open = f.open /\ (f.modified => g.modified)
    <3> HIDE DEF f
    <3> QED
      BY <1>2, <2>2 DEF File
  <2>4. g.size = f.size
    <3> HIDE DEF f
    <3> QED
      BY <1>2, <2>2 DEF File
  <2>5. ~g.err
    <3> HIDE DEF f
    <3> QED
      BY <1>2, <1>3, <2>2 DEF File
  <2> HIDE DEF g
  <2>6. FileOK(g)
    BY <2>3 DEF FileOK
  <2>7. g.fptr + k.rem <= MaxSize
    BY <1>2, <1>9, <2>3
  <2>8. Reach(now.fat, g.sclust, g.size)
    BY <1>4, <2>3, <2>4
  <2>9. Nth(now.fat, g.sclust, g.fptr + 1) = g.clust
    <3>1. g.fptr + 1 = 1
      BY <2>3
    <3>2. Nth(now.fat, g.sclust, 1) = g.sclust
      BY NthIs
    <3> QED
      BY <2>3, <3>1, <3>2
  <2> QED
    BY <1>1, <1>9, <2>1, <2>2, <2>3, <2>5, <2>6, <2>7, <2>8, <2>9, SeekReach
<1> QED
  BY <1>10, <1>11, <1>12, <1>13

LEMMA LseekChainedReach == ASSUME IInv, OInv, Chained, lseek_chained PROVE Chained'
<1> DEFINE e == call.e
           f == fil[e]
           g == Got(f, call.ret)
<1>1. call.pc = "ret" /\ call.op = "lseek" /\ UNCHANGED <<now, disk, cut>>
  BY DEF lseek_chained
<1>2. /\ e \in Entry /\ f.open /\ call.rem > 0 /\ f.fptr + call.rem <= MaxSize
      /\ call \in CallRec /\ StageOK(call)
  BY <1>1 DEF IInv, CallOK, StageOK, TiedOK, OInv, Agree, RolesOK
<1>3. /\ FileOK(f) /\ f \in File /\ f.fptr \in 0 .. MaxSize /\ f.size \in 0 .. MaxSize
      /\ f.sclust \in {0} \cup Clst /\ call.rem \in Nat /\ MaxSize \in Nat
  BY <1>2, SizesAre, MaxSizeAssumption DEF CallRec
<1>4. f.fptr < MaxSize
  BY <1>2, <1>3
<1>5. Reach(now.fat, f.sclust, f.size) /\ Placed(now.fat, f)
  BY <1>1, <1>2 DEF Chained, ObjectsReach, Truncates
<1>6. ~f.err
  BY <1>1 DEF Chained, AtChain
<1>7. CASE call.ret = 0
  <2> DEFINE g0 == [f EXCEPT !.clust = 0, !.sclust = 0]
             w == IF f.sclust = 0 THEN g0 ELSE f
             n == f.fptr
             z == Sought(w, n)
  <2>1. fil' = [fil EXCEPT ![e] = z] /\ call' = Idle
    BY <1>7 DEF lseek_chained, UpdateFil, Finish
  <2>2. /\ w \in File /\ w.open = f.open /\ w.sclust = f.sclust /\ (f.modified => w.modified)
        /\ w.size = f.size /\ (n # 0 => w.clust = f.clust)
    <3>1. CASE f.sclust = 0
      <4>1. g0 \in File /\ g0.open = f.open /\ g0.sclust = 0 /\ (f.modified => g0.modified)
        BY <1>3 DEF File
      <4>2. g0.size = f.size
        BY <1>3 DEF File
      <4>3. w = g0
        BY <3>1
      <4>4. n = 0
        BY <1>3, <3>1, ClstFacts DEF FileOK
      <4> HIDE DEF g0, w
      <4> QED
        BY <3>1, <4>1, <4>2, <4>3, <4>4
    <3>2. CASE f.sclust # 0
      <4>1. w = f
        BY <3>2
      <4> QED
        BY <1>3, <4>1
    <3> QED
      BY <3>1, <3>2
  <2> HIDE DEF w
  <2>3. n > 0 => f.clust \in Clst /\ Nth(now.fat, f.sclust, n) = f.clust
    BY <1>3, <1>5, <1>6 DEF Placed, FileOK
  <2>4. n \in 0 .. MaxSize
    BY <1>3
  <2> HIDE DEF n
  <2>5. /\ z.open = w.open /\ z.sclust = w.sclust /\ (w.modified => z.modified)
        /\ z.size = (IF n > w.size THEN n ELSE w.size) /\ z.fptr = n
        /\ n # 0 => z.clust = w.clust
    BY <2>2, <2>4, SoughtAll
  <2> HIDE DEF z
  <2>6. Reach(now.fat, z.sclust, z.size)
    <3>1. CASE n > w.size
      <4>1. n > 0 /\ z.size = n
        BY <1>3, <2>2, <2>4, <2>5, <3>1
      <4> QED
        BY <2>2, <2>3, <2>5, <4>1 DEF Reach
    <3>2. CASE ~(n > w.size)
      BY <1>5, <2>2, <2>5, <3>2
    <3> QED
      BY <3>1, <3>2
  <2>7. Placed(now.fat, z)
    <3>1. n > 0 => n # 0
      BY <2>4
    <3> QED
      BY <2>2, <2>3, <2>5, <3>1 DEF Placed
  <2>8. AtChain(call', fil', now.fat) /\ call'.op # "truncate"
    BY <2>1, IdleReach, IdleIs
  <2> QED
    BY <1>1, <1>2, <2>1, <2>2, <2>5, <2>6, <2>7, <2>8, GrowReach
<1>8. CASE call.ret # 0 /\ Failed(call.ret)
  <2> DEFINE w == [f EXCEPT !.err = TRUE]
  <2>1. fil' = [fil EXCEPT ![e] = w] /\ call' = Idle
    BY <1>8 DEF lseek_chained, Abort, UpdateFil, Finish
  <2>2. w.open = f.open /\ (f.modified => w.modified)
    BY <1>3, ErrIs
  <2>3. Alike(f, w)
    BY <1>3, FlagIs
  <2> HIDE DEF w
  <2>4. Reach(now.fat, w.sclust, w.size) /\ Placed(now.fat, w)
    BY <1>5, <2>3, AlikeReach
  <2>5. AtChain(call', fil', now.fat) /\ call'.op # "truncate"
    BY <2>1, IdleReach, IdleIs
  <2> QED
    BY <1>1, <1>2, <2>1, <2>2, <2>4, <2>5, GrowReach
<1>9. CASE call.ret # 0 /\ ~Failed(call.ret)
  <2>1. call.ret \in Clst /\ Seek(call, g)
    BY <1>9 DEF lseek_chained, Failed, Got
  <2>2. /\ FileOK(g) /\ g.open = f.open /\ (f.modified => g.modified)
        /\ g.sclust \in Clst /\ g.clust \in Clst /\ g.fptr = f.fptr
    BY <1>3, <2>1, GotAll
  <2>3. /\ Reach(now.fat, g.sclust, g.size) /\ ~g.err
        /\ Nth(now.fat, g.sclust, g.fptr + 1) = g.clust
    BY <1>1, <1>2, <1>4, <2>1, GotReach
  <2> HIDE DEF g
  <2>4. g.fptr + call.rem <= MaxSize /\ call.rem # 0
    BY <1>2, <1>3, <2>2
  <2> QED
    BY <1>1, <1>2, <2>1, <2>2, <2>3, <2>4, SeekReach
<1> QED
  BY <1>7, <1>8, <1>9

LEMMA TruncateReach == ASSUME IInv, Chained, NEW e \in Entry, f_truncate(e) PROVE Chained'
<1> DEFINE f == fil[e]
           k == Begin("truncate", e)
           h == Removing(k, f.sclust, 0)
           t == [k EXCEPT !.pc = "next"]
<1>1. /\ call = Idle /\ ~f.err /\ UNCHANGED <<now, disk, fil>> /\ cut \subseteq cut'
      /\ \/ f.fptr = 0 /\ call' = h
         \/ f.fptr # 0 /\ call' = t
         \/ call' = Idle
  BY DEF f_truncate, Usable, Finish
<1>2. k \in CallRec /\ StageOK(k) /\ k.op = "truncate" /\ k.e = e
  <2>1. "truncate" \in Op \ {"idle", "create", "getfree"}
    BY DEF Op
  <2> QED
    BY <2>1, BeginOK
<1> HIDE DEF k
<1>3. AtChain(call', fil, now.fat)
  <2>1. CASE f.fptr = 0 /\ call' = h
    <3>1. 0 \in {0} \cup Clst
      OBVIOUS
    <3>2. h.op = "truncate" /\ h.e = e /\ h.pc \in {"ret", "free"}
      BY <1>2, <3>1, RemovingOK DEF SameCall
    <3> HIDE DEF h
    <3> QED
      BY <1>1, <2>1, <3>2 DEF AtChain
  <2>2. CASE f.fptr # 0 /\ call' = t
    <3>1. t.op = "truncate" /\ t.e = e /\ t.pc = "next"
      BY <1>2 DEF CallRec
    <3> HIDE DEF t
    <3> QED
      BY <1>1, <2>2, <3>1 DEF AtChain
  <2>3. CASE call' = Idle
    BY <2>3, IdleReach
  <2> QED
    BY <1>1, <2>1, <2>2, <2>3
<1>4. \A d \in Entry : ~Truncates(call, d)
  BY <1>1, IdleIs DEF Truncates
<1> QED
  BY <1>1, <1>3, <1>4, StillReach

LEMMA TruncateNextReach == ASSUME IInv, OInv, Chained, truncate_next PROVE Chained'
<1> DEFINE c == fil[call.e].clust
           h == Removing(call, now.fat[c], c)
<1>1. /\ call.pc = "next" /\ UNCHANGED <<now, fil, cut>> /\ disk' \in {disk, Synced}
      /\ Return(0) \/ call' = h
  BY ReadDisk DEF truncate_next
<1>2. /\ call.op = "truncate" /\ c \in Clst /\ call \in CallRec /\ StageOK(call)
  BY <1>1 DEF OInv, Agree, RolesOK, IInv, CallOK, TiedOK
<1>3. ~fil[call.e].err /\ fil[call.e].fptr # 0
  BY <1>1, <1>2 DEF Chained, AtChain
<1>4. CASE Return(0)
  <2>1. 0 \notin Clst /\ 0 \in 0 .. NFatEnt + 1
    BY ClstFacts
  <2> QED
    BY <1>1, <1>4, <2>1, ReturnReach
<1>5. CASE call' = h
  <2>1. c \in {0} \cup Clst /\ c # 0
    BY <1>2, ClstFacts
  <2>2. /\ h.op = "truncate" /\ h.e = call.e /\ h.pc \in {"ret", "cut"}
        /\ h.pc = "cut" => h.pclst = c
    <3> HIDE DEF c
    <3> QED
      BY <1>2, <2>1, RemovingOK DEF SameCall
  <2> HIDE DEF h
  <2>3. AtChain(call', fil, now.fat)
    BY <1>3, <1>5, <2>2 DEF AtChain
  <2>4. \A d \in Entry : Truncates(call, d) => Truncates(call', d)
    BY <1>2, <1>5, <2>2 DEF Truncates
  <2> QED
    BY <1>1, <2>3, <2>4, StillReach
<1> QED
  BY <1>1, <1>4, <1>5

LEMMA ShortenedAll ==
  ASSUME NEW f, FileOK(f)
  PROVE  LET g == Shortened(f) IN
         g.fptr = f.fptr /\ g.clust = f.clust /\ (~g.err => ~f.err)
<1> DEFINE s == IF f.fptr = 0 THEN 0 ELSE f.sclust
           f1 == [f EXCEPT !.sclust = s]
           f2 == [f1 EXCEPT !.size = f.fptr]
           f3 == [f2 EXCEPT !.modified = TRUE]
<1>1. f \in File /\ f.fptr \in 0 .. MaxSize /\ s \in {0} \cup Clst
  BY DEF FileOK, File
<1>2. Shortened(f) = f3
  BY Zenon DEF Shortened
<1> HIDE DEF s
<1>3. f1 \in File /\ f1.fptr = f.fptr /\ f1.clust = f.clust
  BY <1>1 DEF File
<1>4. f1.err = f.err
  BY <1>1 DEF File
<1> HIDE DEF f1
<1>5. f2 \in File /\ f2.fptr = f.fptr /\ f2.clust = f.clust
  BY <1>1, <1>3 DEF File
<1>6. f2.err = f1.err
  BY <1>1, <1>3 DEF File
<1> HIDE DEF f2
<1>7. f3.fptr = f.fptr /\ f3.clust = f.clust
  BY <1>5 DEF File
<1>8. f3.err = f2.err
  BY <1>5 DEF File
<1>9. ~f3.err => ~f.err
  BY <1>4, <1>6, <1>8
<1> HIDE DEF f3
<1> QED
  BY <1>2, <1>7, <1>9

LEMMA TruncateRemovedReach == ASSUME IInv, OInv, Chained, truncate_removed PROVE Chained'
<1> DEFINE e == call.e
           f == fil[e]
           g == Shortened(f)
           a == [g EXCEPT !.err = TRUE]
<1>1. /\ call.op = "truncate" /\ call' = Idle /\ UNCHANGED <<now, disk, cut>>
      /\ fil' = [fil EXCEPT ![e] = g] \/ fil' = [fil EXCEPT ![e] = a]
  BY DEF truncate_removed, Abort, UpdateFil, Finish
<1>2. e \in Entry /\ f.open
  BY <1>1 DEF IInv, CallOK, StageOK, OInv, Agree, RolesOK
<1>3. FileOK(f) /\ f.fptr \in 0 .. MaxSize
  BY <1>2, SizesAre
<1>4. ~f.err /\ Placed(now.fat, f)
  BY <1>1, <1>2 DEF Chained, AtChain, ObjectsReach
<1>5. /\ g.open /\ g.modified /\ g.sclust = (IF f.fptr = 0 THEN 0 ELSE f.sclust)
      /\ g \in File
  BY <1>2, <1>3, ShortenedIs, ShortenedOK DEF FileOK
<1>6. g.size = f.fptr /\ g.fptr = f.fptr /\ g.clust = f.clust
  BY <1>3, ShortenedSize, ShortenedAll
<1> HIDE DEF g
<1>7. f.fptr > 0 => f.fptr # 0 /\ Nth(now.fat, f.sclust, f.fptr) = f.clust /\ f.clust \in Clst
  BY <1>3, <1>4 DEF Placed, FileOK
<1>8. Reach(now.fat, g.sclust, g.size) /\ Placed(now.fat, g)
  <2>1. f.fptr > 0 => g.sclust = f.sclust
    BY <1>5, <1>7
  <2> QED
    BY <1>6, <1>7, <2>1 DEF Reach, Placed
<1>9. a.open /\ a.modified /\ a.sclust = g.sclust
  BY <1>5, ErrIs
<1>10. Alike(g, a)
  BY <1>5, FlagIs
<1> HIDE DEF a
<1>11. Reach(now.fat, a.sclust, a.size) /\ Placed(now.fat, a)
  BY <1>8, <1>10, AlikeReach
<1>12. AtChain(call', fil', now.fat) /\ call'.op # "truncate"
  BY <1>1, IdleReach, IdleIs
<1>13. CASE fil' = [fil EXCEPT ![e] = g]
  BY <1>1, <1>2, <1>5, <1>8, <1>12, <1>13, ObjReach
<1>14. CASE fil' = [fil EXCEPT ![e] = a]
  BY <1>1, <1>2, <1>9, <1>11, <1>12, <1>14, ObjReach
<1> QED
  BY <1>1, <1>13, <1>14

----------------------------------------------------------------------------
(* f_unlink, f_mkdir and f_getfree.                                        *)

LEMMA UnlinkReach ==
  ASSUME IInv, Chained, disk' \in {disk, Synced}, NEW k \in CallRec, StageOK(k),
         k.op = "unlink", k.e \in Entry, ~fil[k.e].open, call.op # "truncate",
         Unlink(k), UNCHANGED <<fil, cut>>
  PROVE  Chained'
<1> DEFINE e == k.e
           c == now.dir[e].clst
           h == Removing(k, c, 0)
           s == [k EXCEPT !.pc = "sync"]
           g == fil[e]
<1>1. /\ PutDir(e, NoEnt)
      /\ \/ c = 0 /\ call' = s
         \/ c # 0 /\ call' = h
  BY DEF Unlink
<1>2. NoEnt.clst = 0 /\ NoEnt.size = 0
  BY DEF NoEnt
<1>3. Reach(now.fat, NoEnt.clst, NoEnt.size)
  BY <1>2 DEF Reach
<1>4. c # 0 => c \in Clst /\ 0 \in {0} \cup Clst
  BY SizesAre
<1>5. call'.op = "unlink" /\ call'.pc \in {"sync", "free"}
  <2>1. CASE c = 0 /\ call' = s
    <3>1. s.op = "unlink" /\ s.pc = "sync"
      BY DEF CallRec
    <3> QED
      BY <2>1, <3>1
  <2>2. CASE c # 0 /\ call' = h
    <3> HIDE DEF c
    <3>1. h.op = "unlink" /\ h.pc = "free"
      BY <1>4, <2>2, RemovingOK DEF SameCall
    <3> QED
      BY <2>2, <3>1
  <2> QED
    BY <1>1, <2>1, <2>2
<1>6. AtChain(call', fil', now.fat)
  BY <1>5, ElsewhereReach
<1>7. fil'[e] = g /\ ~g.open /\ \A d \in Entry : d # e => fil'[d] = fil[d]
  OBVIOUS
<1> HIDE DEF g
<1> QED
  BY <1>1, <1>2, <1>3, <1>5, <1>6, <1>7, DirReach

LEMMA FileUnlinkReach == ASSUME IInv, Chained, NEW e \in Entry, f_unlink(e) PROVE Chained'
<1> DEFINE b == Begin("unlink", e)
           h == [b EXCEPT !.pc = "look"]
<1>1. /\ call = Idle /\ ~fil[e].open /\ UNCHANGED <<fil, cut>>
      /\ disk' \in {disk, Synced}
      /\ \/ Unlink(b)
         \/ UNCHANGED now /\ call' = Idle
         \/ UNCHANGED now /\ call' = h
  <2>1. disk' \in {disk, Synced}
    BY ReadDisk DEF f_unlink, Unlink
  <2> QED
    BY <2>1 DEF f_unlink
<1>2. CASE Unlink(b)
  <2>1. b \in CallRec /\ StageOK(b) /\ b.op = "unlink" /\ b.e = e
    <3>1. "unlink" \in Op \ {"idle", "create", "getfree"}
      BY DEF Op
    <3> QED
      BY <3>1, BeginOK
  <2> HIDE DEF b
  <2> QED
    BY <1>1, <1>2, <2>1, IdleIs, UnlinkReach
<1>3. CASE UNCHANGED now /\ call' = Idle
  BY <1>1, <1>3, IdleIs, OtherReach
<1>4. CASE UNCHANGED now /\ call' = h
  <2>1. b = [op |-> "unlink", pc |-> "none", e |-> e, clst |-> 0, pclst |-> 0,
             ncl |-> 0, scl |-> 0, ret |-> 0, cl |-> 0, rem |-> 0]
    BY BeginIs
  <2> HIDE DEF b
  <2>2. h.op = "unlink" /\ h.pc = "look"
    BY <2>1
  <2> HIDE DEF h
  <2> QED
    BY <1>1, <1>4, <2>2, IdleIs, OtherReach
<1> QED
  BY <1>1, <1>2, <1>3, <1>4

\* A call on the directory goes on with the volume as it is.
LEMMA GotoReach ==
  ASSUME IInv, Chained, disk' \in {disk, Synced}, UNCHANGED <<now, fil, cut>>,
         call.op \in {"unlink", "mkdir"},
         NEW pc \in {"remove", "sync", "table", "register"}, Goto(pc)
  PROVE  Chained'
<1>1. call \in CallRec
  BY DEF IInv, CallOK
<1>2. call'.pc = pc /\ call'.op = call.op
  BY <1>1 DEF Goto, CallRec
<1> QED
  BY <1>2, OtherReach

LEMMA UnlinkLookReach == ASSUME IInv, Chained, unlink_look PROVE Chained'
<1>1. call.pc = "look" /\ Goto("remove") /\ UNCHANGED <<now, fil, cut>>
      /\ disk' \in {disk, Synced}
  BY ReadDisk DEF unlink_look
<1>2. call.op = "unlink"
  BY <1>1 DEF IInv, CallOK, StageOK
<1> QED
  BY <1>1, <1>2, GotoReach

LEMMA UnlinkRemoveReach == ASSUME IInv, OInv, Chained, unlink_remove PROVE Chained'
<1>1. call.pc = "remove" /\ Unlink(call) /\ UNCHANGED <<fil, cut>> /\ disk' \in {disk, Synced}
  BY ReadDisk DEF unlink_remove, Unlink
<1>2. call \in CallRec /\ StageOK(call) /\ call.op = "unlink" /\ call.e \in Entry
  BY <1>1 DEF IInv, CallOK, StageOK
<1>3. ~fil[call.e].open
  BY <1>2 DEF OInv, Agree, RolesOK
<1> QED
  BY <1>1, <1>2, <1>3, UnlinkReach

LEMMA UnlinkRemovedReach == ASSUME IInv, Chained, unlink_removed PROVE Chained'
<1>1. /\ call.op = "unlink" /\ UNCHANGED <<now, disk, fil, cut>>
      /\ Goto("sync") \/ call' = Idle
  BY DEF unlink_removed, Finish
<1> QED
  BY <1>1, IdleIs, GotoReach, OtherReach

LEMMA MkdirReach == ASSUME IInv, Chained, NEW e \in Entry, f_mkdir(e) PROVE Chained'
<1> DEFINE b == Begin("mkdir", e)
           h == Creating(b, 0)
<1>1. /\ call = Idle /\ UNCHANGED <<now, fil, cut>> /\ disk' \in {disk, Synced}
      /\ call' = h \/ call' = Idle
  BY ReadDisk DEF f_mkdir
<1>2. CASE call' = h
  <2>1. b \in CallRec /\ StageOK(b) /\ b.op = "mkdir" /\ b.e = e
    <3>1. "mkdir" \in Op \ {"idle", "create", "getfree"}
      BY DEF Op
    <3> QED
      BY <3>1, BeginOK
  <2> HIDE DEF b
  <2>2. CountsOK /\ 0 \in {0} \cup Clst
    BY DEF IInv
  <2>3. h.op = "mkdir" /\ h.pc = "scan"
    BY <2>1, <2>2, CreatingOK DEF SameCall
  <2> HIDE DEF h
  <2> QED
    BY <1>1, <1>2, <2>3, IdleIs, OtherReach
<1>3. CASE call' = Idle
  BY <1>1, <1>3, IdleIs, OtherReach
<1> QED
  BY <1>1, <1>2, <1>3

LEMMA MkdirChainedReach == ASSUME IInv, Chained, mkdir_chained PROVE Chained'
<1> DEFINE h == [call EXCEPT !.pc = "flush", !.ret = 0, !.cl = call.ret]
<1>1. /\ call.op = "mkdir" /\ UNCHANGED <<now, disk, fil, cut>> /\ call \in CallRec
      /\ call' = Idle \/ call' = h
  BY DEF mkdir_chained, Finish, IInv, CallOK
<1>2. h.pc = "flush" /\ h.op = call.op
  BY <1>1 DEF CallRec
<1> HIDE DEF h
<1> QED
  BY <1>1, <1>2, IdleIs, OtherReach

LEMMA MkdirFlushReach == ASSUME IInv, Chained, mkdir_flush PROVE Chained'
<1>1. call.pc = "flush" /\ disk' = Synced /\ Goto("table") /\ UNCHANGED <<now, fil, cut>>
  BY DEF mkdir_flush
<1>2. call.op = "mkdir"
  BY <1>1 DEF IInv, CallOK, StageOK
<1> QED
  BY <1>1, <1>2, GotoReach

LEMMA MkdirTableReach == ASSUME IInv, Chained, mkdir_table PROVE Chained'
<1>1. call.pc = "table" /\ UNCHANGED disk /\ Goto("register") /\ UNCHANGED <<now, fil, cut>>
  BY DEF mkdir_table
<1>2. call.op = "mkdir"
  BY <1>1 DEF IInv, CallOK, StageOK
<1> QED
  BY <1>1, <1>2, GotoReach

LEMMA MkdirRegisterReach == ASSUME IInv, OInv, Chained, mkdir_register PROVE Chained'
<1> DEFINE e == call.e
           g == fil[e]
           x == [kind |-> "dir", clst |-> call.cl, size |-> 0]
<1>1. /\ call.pc = "register" /\ PutDir(e, x) /\ Goto("sync") /\ UNCHANGED <<fil, cut>>
      /\ disk' \in {disk, Synced}
  BY ReadDisk DEF mkdir_register
<1>2. call \in CallRec /\ call.op = "mkdir" /\ e \in Entry /\ ~g.open
  BY <1>1 DEF IInv, CallOK, StageOK, OInv, Agree, RolesOK
<1>3. call'.pc = "sync" /\ call'.op = "mkdir"
  BY <1>1, <1>2 DEF Goto, CallRec
<1>4. AtChain(call', fil', now.fat)
  BY <1>3, ElsewhereReach
<1>5. x.size = 0 /\ Reach(now.fat, x.clst, x.size)
  BY DEF Reach
<1>6. fil'[e] = g /\ \A d \in Entry : d # e => fil'[d] = fil[d]
  BY <1>1
<1> HIDE DEF x, g
<1> QED
  BY <1>1, <1>2, <1>3, <1>4, <1>5, <1>6, DirReach

LEMMA MkdirErrorReach == ASSUME IInv, Chained, mkdir_error PROVE Chained'
<1> DEFINE h == Removing(call, call.cl, 0)
<1>1. /\ call.pc \in {"flush", "table", "register"} /\ call' = h
      /\ UNCHANGED <<now, fil, cut>> /\ disk' \in {disk, Synced}
  BY ReadDisk DEF mkdir_error
<1>2. call \in CallRec /\ StageOK(call) /\ call.op = "mkdir" /\ 0 \in {0} \cup Clst
  BY <1>1 DEF IInv, CallOK, StageOK
<1>3. h.op = "mkdir" /\ h.pc \in {"ret", "free"}
  BY <1>2, RemovingOK DEF SameCall
<1> HIDE DEF h
<1> QED
  BY <1>1, <1>2, <1>3, OtherReach

LEMMA GetfreeReach == ASSUME IInv, Chained, f_getfree PROVE Chained'
<1> DEFINE b == Begin("getfree", NoEntry)
           h == [b EXCEPT !.pc = "count"]
<1>1. call = Idle /\ call' \in {Idle, h} /\ UNCHANGED <<now, disk, fil, cut>>
  BY DEF f_getfree, Finish
<1>2. b = [op |-> "getfree", pc |-> "none", e |-> NoEntry, clst |-> 0, pclst |-> 0,
           ncl |-> 0, scl |-> 0, ret |-> 0, cl |-> 0, rem |-> 0]
  BY BeginIs
<1> HIDE DEF b
<1>3. h.op = "getfree" /\ h.pc = "count"
  BY <1>2
<1> HIDE DEF h
<1> QED
  BY <1>1, <1>3, IdleIs, OtherReach

LEMMA GetfreeCountReach == ASSUME IInv, Chained, getfree_count PROVE Chained'
<1> DEFINE n == call.rem + Zeros({call.ncl})
           h == [call EXCEPT !.ncl = call.ncl + 1, !.rem = n]
<1>1. /\ call.pc = "count" /\ UNCHANGED <<now, fil, cut>> /\ disk' \in {disk, Synced}
      /\ call' = Idle \/ call' = h
  BY ReadDisk DEF getfree_count, Finish
<1>2. call \in CallRec /\ call.op = "getfree"
  BY <1>1 DEF IInv, CallOK, StageOK
<1> HIDE DEF n
<1>3. h.pc = "count" /\ h.op = "getfree"
  BY <1>1, <1>2 DEF CallRec
<1> HIDE DEF h
<1> QED
  BY <1>1, <1>2, <1>3, IdleIs, OtherReach

LEMMA GetfreeErrorReach == ASSUME IInv, Chained, getfree_error PROVE Chained'
<1>1. call.pc = "count" /\ call' = Idle /\ UNCHANGED <<now, fil, cut>> /\ disk' \in {disk, Synced}
  BY ReadDisk DEF getfree_error, Finish
<1>2. call.op = "getfree"
  BY <1>1 DEF IInv, CallOK, StageOK
<1> QED
  BY <1>1, <1>2, IdleIs, OtherReach

----------------------------------------------------------------------------
(* Errors and power losses, and the invariant.                             *)

LEMMA MoveErrorReach == ASSUME IInv, OInv, Chained, move_window_error PROVE Chained'
<1> DEFINE P == {"follow", "scan", "link", "cut", "free", "next"}
<1>1. /\ UNCHANGED <<now, fil, cut>> /\ disk' \in {disk, Synced}
      /\ \/ call.pc \in P /\ Return(DiskErr)
         \/ call.pc \notin P /\ call' = Idle
  BY ReadDisk DEF move_window_error, Finish
<1>2. call.pc # "ret"
  <2>1. Target # win.sect
    BY DEF move_window_error, MoveFails
  <2> QED
    BY <2>1 DEF Target
<1>3. CASE call.pc \in P /\ Return(DiskErr)
  <2>1. DiskErr \in 0 .. NFatEnt + 1 /\ DiskErr \notin Clst
    BY NFatEntAssumption, ClstFacts DEF DiskErr
  <2> QED
    BY <1>1, <1>3, <2>1, ReturnReach
<1>4. CASE call.pc \notin P /\ call' = Idle
  <2>1. call.op # "truncate"
    BY <1>2, <1>4 DEF OInv, Agree, RolesOK
  <2> QED
    BY <1>1, <1>4, <2>1, IdleIs, OtherReach
<1> QED
  BY <1>1, <1>3, <1>4

\* What the medium holds is what the volume is after the power loss: an entry
\* that was cut short and not synced has no cluster there, unless it is Exposed.
LEMMA PowerLossReach == ASSUME Chained, PowerLoss, ~hurt' PROVE Chained'
<1>1. /\ now' = disk /\ UNCHANGED disk /\ fil' = [e \in Entry |-> ClosedFil] /\ cut' = {}
      /\ call' = Idle /\ \A e \in Entry : ~Exposed(e)
  BY DEF PowerLoss, Finish
<1>2. \A e \in Entry : ~fil'[e].open
  BY <1>1, ClosedIs
<1>3. MediumReach
  BY DEF Chained
<1>4. \A e \in Entry : Reach(disk.fat, disk.dir[e].clst, disk.dir[e].size)
  <2> TAKE e \in Entry
  <2>1. CASE e \notin cut
    BY <1>3, <2>1 DEF MediumReach
  <2>2. CASE e \in cut
    <3>1. disk.dir[e].size = 0
      BY <1>1, <1>3, <2>2 DEF Exposed, MediumReach, Bare
    <3> QED
      BY <3>1 DEF Reach
  <2> QED
    BY <2>1, <2>2
<1>5. MediumReach'
  BY <1>1, <1>3, <1>4 DEF MediumReach
<1>6. EntriesReach(call', fil', cut', now'.fat, now'.dir)
  BY <1>1, <1>3, <1>4 DEF EntriesReach, MediumReach
<1>7. ObjectsReach(call', fil', now'.fat)
  BY <1>2 DEF ObjectsReach
<1>8. AtChain(call', fil', now'.fat)
  BY <1>1, IdleReach
<1> QED
  BY <1>5, <1>6, <1>7, <1>8 DEF Chained

LEMMA InitReach == Init => ReachInv
<1> SUFFICES ASSUME Init PROVE Chained
  BY DEF ReachInv
<1>1. call = Idle /\ disk = now /\ \A e \in Entry : ~fil[e].open
  BY ClosedIs DEF Init
<1>2. \A e \in Entry : now.dir[e].size = 0
  BY DEF Init, NoEnt
<1>3. EntriesReach(call, fil, cut, now.fat, now.dir) /\ MediumReach
  BY <1>1, <1>2 DEF EntriesReach, MediumReach, Bare, Reach
<1>4. ObjectsReach(call, fil, now.fat) /\ AtChain(call, fil, now.fat)
  BY <1>1, IdleReach DEF ObjectsReach
<1> QED
  BY <1>3, <1>4 DEF Chained

\* Only a power loss hurts, and what is hurt stays so.
LEMMA HurtStays == ASSUME [Next]_vars, ~hurt' PROVE ~hurt
<1>1. CASE Start
  BY <1>1 DEF Start, dir_error, f_open, f_open_denied, f_open_create, f_sync, f_close,
     f_write, f_truncate, f_lseek, f_unlink, f_mkdir, f_getfree
<1>2. CASE Chain
  BY <1>2 DEF Chain, create_follow, scan_end, scan_used, scan_take, create_link,
     remove_cut, remove_free, sync_fs, sync_fs_error
<1>3. CASE FileStep
  BY <1>3 DEF FileStep, open_removed, open_back, write_chained, lseek_chained,
     truncate_next, truncate_removed
<1>4. CASE DirStep
  BY <1>4 DEF DirStep, unlink_look, unlink_remove, unlink_removed, mkdir_chained,
     mkdir_flush, mkdir_table, mkdir_register, mkdir_error, getfree_count, getfree_error
<1>5. CASE move_window_error
  BY <1>5 DEF move_window_error
<1>6. CASE PowerLoss
  BY <1>6 DEF PowerLoss
<1>7. CASE UNCHANGED vars
  BY <1>7 DEF vars
<1> QED
  BY <1>1, <1>2, <1>3, <1>4, <1>5, <1>6, <1>7 DEF Next

LEMMA ReachStep == ASSUME IInv, OInv, ReachInv, [Next]_vars PROVE ReachInv'
<1> SUFFICES ASSUME ~hurt' PROVE Chained'
  BY DEF ReachInv
<1>1. Chained /\ Sound
  BY HurtStays DEF ReachInv, OInv
<1>2. CASE Start
  BY <1>1, <1>2, DirErrorReach, OpenReach, DeniedReach, CreateReach, FileSyncReach, CloseReach,
     WriteReach, TruncateReach, LseekReach, FileUnlinkReach, MkdirReach, GetfreeReach DEF Start
<1>3. CASE Chain
  BY <1>1, <1>3, FollowReach, ScanEndReach, ScanUsedReach, ScanTakeReach, LinkReach, CutReach,
     FreeReach, SyncFsReach, SyncErrorReach DEF Chain
<1>4. CASE FileStep
  BY <1>1, <1>4, OpenRemovedReach, OpenBackReach, WriteChainedReach, LseekChainedReach,
     TruncateNextReach, TruncateRemovedReach DEF FileStep
<1>5. CASE DirStep
  BY <1>1, <1>5, UnlinkLookReach, UnlinkRemoveReach, UnlinkRemovedReach, MkdirChainedReach,
     MkdirFlushReach, MkdirTableReach, MkdirRegisterReach, MkdirErrorReach,
     GetfreeCountReach, GetfreeErrorReach DEF DirStep
<1>6. CASE move_window_error
  BY <1>1, <1>6, MoveErrorReach
<1>7. CASE PowerLoss
  BY <1>1, <1>7, PowerLossReach
<1>8. CASE UNCHANGED vars
  <2>1. UNCHANGED <<now, disk, fil, call, cut>>
    BY <1>8 DEF vars
  <2>2. AtChain(call', fil, now.fat)
    BY <1>1, <2>1 DEF Chained
  <2>3. \A e \in Entry : Truncates(call, e) => Truncates(call', e)
    BY <2>1
  <2> QED
    BY <1>1, <2>1, <2>2, <2>3, StillReach
<1> QED
  BY <1>2, <1>3, <1>4, <1>5, <1>6, <1>7, <1>8 DEF Next

\* At every step of every call the chain of an entry or of an object reaches
\* as far as its size says, and the step that is next is at the right link:
\* f_truncate's object apart, whose chain is shortened before its size is, and
\* the old entry it leaves until f_sync.
THEOREM ChainsInvariant == Spec => []ReachInv
<1>1. Init => ReachInv
  BY InitReach
<1>2. IInv /\ OInv /\ ReachInv /\ [Next]_vars => ReachInv'
  BY ReachStep
<1> QED
  BY <1>1, <1>2, VolumeInvariant, OwnershipInvariant, PTL DEF Spec

LEMMA ChainsAreReached == ASSUME IInv, ReachInv PROVE ChainsReach
<1> SUFFICES ASSUME ~hurt, NEW e \in Entry
             PROVE  /\ Reaches(disk.fat, OnMedium(e))
                    /\ call = Idle =>
                         /\ Reaches(now.fat, Current(e))
                         /\ Usable(e) /\ fil[e].fptr > 0 =>
                              Nth(now.fat, fil[e].sclust, fil[e].fptr) = fil[e].clust
  BY DEF ChainsReach
<1>1. Chained
  BY DEF ReachInv
<1>2. Reaches(disk.fat, OnMedium(e))
  <2>1. CASE Exposed(e)
    BY <2>1 DEF OnMedium, Reaches, NoEnt
  <2>2. CASE ~Exposed(e) /\ e \notin cut
    BY <1>1, <2>2 DEF OnMedium, Reaches, Chained, MediumReach, Reach
  <2>3. CASE ~Exposed(e) /\ e \in cut
    <3>1. disk.dir[e].size = 0
      BY <1>1, <2>3 DEF Exposed, Chained, MediumReach, Bare
    <3> QED
      BY <2>3, <3>1 DEF OnMedium, Reaches
  <2> QED
    BY <2>1, <2>2, <2>3
<1>3. ASSUME call = Idle PROVE Reaches(now.fat, Current(e))
  <2>1. ~Truncates(call, e)
    BY <1>3, IdleIs DEF Truncates
  <2>2. CASE fil[e].open
    <3> DEFINE f == fil[e]
               x == FileEnt(f.sclust, f.size)
    <3>1. Current(e) = x /\ x.clst = f.sclust /\ x.size = f.size
      BY <2>2, FileEntIs, FileEntSize DEF Current
    <3>2. Reach(now.fat, f.sclust, f.size)
      BY <1>1, <2>1, <2>2 DEF Chained, ObjectsReach
    <3> HIDE DEF f, x
    <3> QED
      BY <3>1, <3>2 DEF Reach, Reaches
  <2>3. CASE ~fil[e].open
    <3>1. Settled(call, fil, cut, e)
      BY <2>1, <2>3 DEF Settled
    <3>2. Reach(now.fat, now.dir[e].clst, now.dir[e].size)
      BY <1>1, <3>1 DEF Chained, EntriesReach
    <3> QED
      BY <2>3, <3>2 DEF Current, Reach, Reaches
  <2> QED
    BY <2>2, <2>3
<1>4. ASSUME Usable(e), fil[e].fptr > 0
      PROVE  Nth(now.fat, fil[e].sclust, fil[e].fptr) = fil[e].clust
  BY <1>1, <1>4 DEF Usable, Chained, ObjectsReach, Placed
<1> QED
  BY <1>2, <1>3, <1>4

\* The chain of a file is as long as its size says, in the FAT that the code
\* sees and in the one on the medium, and a file's current cluster is the one
\* before its pointer: whatever calls fail, and wherever power is lost (unless
\* that was between an f_truncate and its f_sync).
THEOREM ChainsAreLongEnough == Spec => []ChainsReach
<1>1. IInv /\ ReachInv => ChainsReach
  BY ChainsAreReached
<1> QED
  BY <1>1, VolumeInvariant, ChainsInvariant, PTL

=============================================================================
