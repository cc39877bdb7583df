------------------------------ MODULE FatVolume ------------------------------
(***************************************************************************)
(* Cluster allocation of FatFs (src/fat_fs/src/ff.c) on a FAT16 or FAT32   *)
(* volume: the FAT, one directory sector, the one-sector window win[] they *)
(* are accessed through, FSINFO, and the calls that create, extend,        *)
(* shorten and remove files.                                               *)
(*                                                                         *)
(* A step is the code between two uses of move_window, so that an I/O      *)
(* error can end, and a power loss can interrupt, a call at each of them.  *)
(* now is the volume as the code sees it through the window, disk is what  *)
(* the medium holds.  File positions and sizes count clusters; one f_write *)
(* stores one cluster and its data goes straight to the medium.            *)
(***************************************************************************)
EXTENDS Integers, FiniteSets

CONSTANTS
  Entry,     \* slots of the directory sector
  NoEntry,   \* no slot: the call is about the volume
  NFatEnt,   \* n_fatent: clusters are 2 .. n_fatent - 1
  PerSect,   \* FAT entries in a sector
  FAT32,     \* TRUE: FSINFO is used, the root directory owns cluster 2
  MaxSize,   \* bound: clusters of a file
  MaxFault   \* bound: I/O errors and power losses in a behaviour

ASSUME EntryAssumption == NoEntry \notin Entry
ASSUME NFatEntAssumption == NFatEnt \in Nat /\ NFatEnt > 3
ASSUME PerSectAssumption == PerSect \in Nat \ {0}
ASSUME FAT32Assumption == FAT32 \in BOOLEAN
ASSUME MaxSizeAssumption == MaxSize \in Nat \ {0}
ASSUME MaxFaultAssumption == MaxFault \in Nat

VARIABLES
  now,    \* the volume seen through the window
  disk,   \* the volume on the medium
  info,   \* the FSINFO sector on the medium
  win,    \* winsect and wflag
  fs,     \* free_clst, last_clst, fsi_flag
  fil,    \* per entry: the FIL open on it
  call,   \* the call in progress
  res,    \* result of the last call
  faults, \* history: I/O errors and power losses so far
  cut,    \* history: entries shortened by f_truncate and not synced since
  hurt    \* history: power was lost while an entry was Exposed

vars == <<now, disk, info, win, fs, fil, call, res, faults, cut, hurt>>

Clst    == 2 .. NFatEnt - 1
EOC     == NFatEnt            \* any value >= n_fatent ends a chain
DiskErr == NFatEnt + 1        \* 0xFFFFFFFF as the result of a function
Unknown == NFatEnt + 1        \* 0xFFFFFFFF in free_clst and last_clst

\* Sector numbers: the FAT's count from 0.
DirSect  == -1
InfoSect == -2
DataSect == -3
NoSect   == -4
FatSect(c) == c \div PerSect
FatSects   == {FatSect(c) : c \in 0 .. NFatEnt - 1}

NoEnt       == [kind |-> "none", clst |-> 0, size |-> 0]
FileEnt(c, n) == [kind |-> "file", clst |-> c, size |-> n]
ClosedFil   == [open |-> FALSE, sclust |-> 0, size |-> 0, fptr |-> 0,
                clust |-> 0, modified |-> FALSE, err |-> FALSE]
OpenFil(c, n, m) == [ClosedFil EXCEPT !.open = TRUE, !.sclust = c, !.size = n,
                                      !.modified = m]
\* The call in progress; its res is FR_OK.  pc names the next access; clst,
\* pclst, ncl, scl and ret are the locals of create_chain and remove_chain; cl
\* is the cluster f_open or f_mkdir remembers; rem is the rest of f_lseek's
\* offset or f_getfree's count.
Idle == [op |-> "idle", pc |-> "none", e |-> NoEntry, clst |-> 0, pclst |-> 0,
         ncl |-> 0, scl |-> 0, ret |-> 0, cl |-> 0, rem |-> 0]

----------------------------------------------------------------------------
(* The window.                                                             *)

Flushed ==
  [fat |-> [c \in Clst |-> IF FatSect(c) = win.sect THEN now.fat[c] ELSE disk.fat[c]],
   dir |-> IF win.sect = DirSect THEN now.dir ELSE disk.dir]

Synced == IF win.dirty THEN Flushed ELSE disk

\* move_window succeeds, and the sector is only read.
ReadAt(s) ==
  /\ disk' = IF win.sect = s THEN disk ELSE Synced
  /\ win' = [sect |-> s, dirty |-> win.sect = s /\ win.dirty]

\* move_window succeeds, and the sector is changed.
WriteAt(s) ==
  /\ disk' = IF win.sect = s THEN disk ELSE Synced
  /\ win' = [sect |-> s, dirty |-> TRUE]

MoveFailsForgets(s) ==    \* mutant: wflag is cleared before the write
  /\ win.sect # s
  /\ \/ win.dirty /\ UNCHANGED disk /\ win' = [win EXCEPT !.dirty = FALSE]
     \/ disk' = Synced /\ win' = [sect |-> NoSect, dirty |-> FALSE]

\* move_window fails: writing the old sector back (a write reported as failed
\* may still have reached the medium), or reading the new one.
MoveFails(s) ==
  /\ win.sect # s
  /\ \/ win.dirty /\ disk' \in {disk, Synced} /\ UNCHANGED win
     \/ disk' = Synced /\ win' = [sect |-> NoSect, dirty |-> FALSE]

PutFat(c, x) == now' = [now EXCEPT !.fat[c] = x]
PutDir(e, x) == now' = [now EXCEPT !.dir[e] = x]

----------------------------------------------------------------------------
(* The end of a call and of a function called by it.                       *)

Finish(r) == call' = Idle /\ res' = r

\* The locals of the function that returns are gone.
Returned(k, r) == [k EXCEPT !.pc = "ret", !.ret = r, !.clst = 0, !.pclst = 0,
                            !.ncl = 0, !.scl = 0]
Return(r) == call' = Returned(call, r) /\ UNCHANGED res

Goto(pc) == call' = [call EXCEPT !.pc = pc] /\ UNCHANGED res

UpdateFil(f) == fil' = [fil EXCEPT ![call.e] = f]

----------------------------------------------------------------------------
(* create_chain(obj, clst).                                                *)

ScanFrom(c) == IF c = 0 \/ c >= NFatEnt THEN 1 ELSE c

\* The call's record on entry of create_chain.
Creating(k, clst) ==
  IF clst = 0
    THEN [k EXCEPT !.pc = "scan", !.ret = 0,
                   !.scl = ScanFrom(fs.last), !.ncl = ScanFrom(fs.last)]
    ELSE [k EXCEPT !.pc = "follow", !.ret = 0, !.clst = clst]

\* Stretching: the link after clst is returned, or the scan starts there.
create_follow ==
  /\ call.pc = "follow"
  /\ ReadAt(FatSect(call.clst))
  /\ IF now.fat[call.clst] = 0 THEN Return(1)
     ELSE IF now.fat[call.clst] # EOC THEN Return(now.fat[call.clst])
     ELSE /\ call' = [call EXCEPT !.pc = "scan", !.scl = call.clst, !.ncl = call.clst]
          /\ UNCHANGED res
  /\ UNCHANGED <<now, info, fs, fil, faults, cut, hurt>>

Wraps    == call.ncl + 1 >= NFatEnt
ScanNext == IF Wraps THEN 2 ELSE call.ncl + 1

\* Wrapped past the starting point 1: no free cluster.
scan_end ==
  /\ call.pc = "scan" /\ Wraps /\ call.scl < 2
  /\ Return(0)
  /\ UNCHANGED <<now, disk, info, win, fs, fil, faults, cut, hurt>>

scan_used ==
  /\ call.pc = "scan" /\ ~(Wraps /\ call.scl < 2)
  /\ now.fat[ScanNext] # 0
  /\ ReadAt(FatSect(ScanNext))
  /\ IF ScanNext = call.scl THEN Return(0)
     ELSE call' = [call EXCEPT !.ncl = ScanNext] /\ UNCHANGED res
  /\ UNCHANGED <<now, info, fs, fil, faults, cut, hurt>>

AllocatedUncounted(c) ==    \* mutant: free_clst is not counted down
  [free |-> fs.free, last |-> c, fsi |-> TRUE]

\* FSINFO bookkeeping of a successful create_chain.  free_clst is 32 bits wide:
\* taking a cluster when a stale count is 0 makes it unknown.
Allocated(c) ==
  [free |-> IF fs.free = 0 THEN Unknown
            ELSE IF fs.free < NFatEnt - 2 THEN fs.free - 1 ELSE fs.free,
   last |-> c, fsi |-> TRUE]

\* A free cluster is marked as the end of a chain; a new chain is complete.
scan_take ==
  /\ call.pc = "scan" /\ ~(Wraps /\ call.scl < 2)
  /\ now.fat[ScanNext] = 0
  /\ WriteAt(FatSect(ScanNext))
  /\ PutFat(ScanNext, EOC)
  /\ IF call.clst = 0
       THEN Return(ScanNext) /\ fs' = Allocated(ScanNext)
       ELSE /\ call' = [call EXCEPT !.pc = "link", !.ncl = ScanNext]
            /\ UNCHANGED <<fs, res>>
  /\ UNCHANGED <<info, fil, faults, cut, hurt>>

create_link ==
  /\ call.pc = "link"
  /\ WriteAt(FatSect(call.clst))
  /\ PutFat(call.clst, call.ncl)
  /\ fs' = Allocated(call.ncl)
  /\ Return(call.ncl)
  /\ UNCHANGED <<info, fil, faults, cut, hurt>>

----------------------------------------------------------------------------
(* remove_chain(obj, clst, pclst).                                         *)

Removing(k, clst, pclst) ==
  IF clst \notin Clst THEN Returned(k, 1)
  ELSE [k EXCEPT !.pc = IF pclst = 0 THEN "free" ELSE "cut",
                 !.clst = clst, !.pclst = pclst]

remove_cut ==
  /\ call.pc = "cut"
  /\ WriteAt(FatSect(call.pclst))
  /\ PutFat(call.pclst, EOC)
  /\ call' = [call EXCEPT !.pc = "free", !.pclst = 0]
  /\ UNCHANGED <<info, fs, fil, res, faults, cut, hurt>>

\* FSINFO bookkeeping of one freed cluster.
Released ==
  IF fs.free < NFatEnt - 2 THEN [fs EXCEPT !.free = @ + 1, !.fsi = TRUE] ELSE fs

remove_free_first ==    \* mutant: the loop ends after the first cluster
  /\ call.pc = "free"
  /\ WriteAt(FatSect(call.clst))
  /\ PutFat(call.clst, 0)
  /\ fs' = Released
  /\ Return(0)
  /\ UNCHANGED <<info, fil, faults, cut, hurt>>

remove_free ==
  /\ call.pc = "free"
  /\ LET nxt == now.fat[call.clst] IN
     \/ /\ nxt = 0
        /\ ReadAt(FatSect(call.clst))
        /\ Return(0)
        /\ UNCHANGED <<now, fs>>
     \/ /\ nxt # 0
        /\ WriteAt(FatSect(call.clst))
        /\ PutFat(call.clst, 0)
        /\ fs' = Released
        /\ IF nxt = EOC THEN Return(0)
           ELSE call' = [call EXCEPT !.clst = nxt] /\ UNCHANGED res
  /\ UNCHANGED <<info, fil, faults, cut, hurt>>

----------------------------------------------------------------------------
(* sync_fs: the window, then FSINFO (whose write error is ignored), then   *)
(* CTRL_SYNC, which disk_ioctl of diskio.c always reports as done.         *)

SyncFsi ==
  IF FAT32 /\ fs.fsi
    THEN /\ \/ info' = [free |-> fs.free, last |-> fs.last] /\ UNCHANGED faults
            \/ faults < MaxFault /\ UNCHANGED info /\ faults' = faults + 1
         /\ win' = [sect |-> InfoSect, dirty |-> FALSE]
         /\ fs' = [fs EXCEPT !.fsi = FALSE]
    ELSE /\ win' = [win EXCEPT !.dirty = FALSE]
         /\ UNCHANGED <<info, fs, faults>>

\* f_sync and f_close forget FA_MODIFIED whatever sync_fs returns.
AfterSync(ok) ==
  IF call.op \in {"sync", "close"}
    THEN UpdateFil(IF ok /\ call.op = "close" THEN ClosedFil
                   ELSE [fil[call.e] EXCEPT !.modified = FALSE])
    ELSE UNCHANGED fil

sync_fs ==
  /\ call.pc = "sync"
  /\ disk' = Synced
  /\ SyncFsi
  /\ AfterSync(TRUE)
  /\ cut' = IF call.op \in {"sync", "close"} THEN cut \ {call.e} ELSE cut
  /\ Finish("FR_OK")
  /\ UNCHANGED <<now, hurt>>

sync_fs_error ==
  /\ call.pc = "sync" /\ win.dirty /\ faults < MaxFault
  /\ disk' \in {disk, Synced}
  /\ AfterSync(FALSE)
  /\ Finish("FR_DISK_ERR")
  /\ faults' = faults + 1
  /\ UNCHANGED <<now, info, win, fs, cut, hurt>>

----------------------------------------------------------------------------
(* The calls that begin in the directory sector.                           *)

Begin(op, e) == [Idle EXCEPT !.op = op, !.e = e]

\* follow_path, or f_sync, cannot read the directory sector: the call ends.
dir_error ==
  /\ call = Idle /\ faults < MaxFault /\ faults' = faults + 1
  /\ MoveFails(DirSect)
  /\ res' = "FR_DISK_ERR"
  /\ UNCHANGED <<now, info, fs, fil, call, cut, hurt>>

\* f_open of an existing file for writing.
f_open(e) ==
  LET d == now.dir[e] IN
  /\ call = Idle /\ ~fil[e].open
  /\ ReadAt(DirSect)
  /\ fil' = [fil EXCEPT ![e] =
               IF d.kind = "file" THEN OpenFil(d.clst, d.size, FALSE) ELSE @]
  /\ res' = IF d.kind = "file" THEN "FR_OK" ELSE "FR_NO_FILE"
  /\ UNCHANGED <<now, info, fs, call, faults, cut, hurt>>

f_open_denied(e) ==
  /\ call = Idle /\ ~fil[e].open /\ now.dir[e].kind = "dir"
  /\ ReadAt(DirSect)
  /\ res' = "FR_DENIED"
  /\ UNCHANGED <<now, info, fs, fil, call, faults, cut, hurt>>

\* f_open with FA_CREATE_ALWAYS: dir_register adds a new entry; an existing
\* one is emptied before its chain is removed.
f_open_create(e) ==
  LET c == now.dir[e].clst IN
  /\ call = Idle /\ ~fil[e].open /\ now.dir[e].kind # "dir"
  /\ WriteAt(DirSect)
  /\ PutDir(e, FileEnt(0, 0))
  /\ IF c = 0
       THEN /\ fil' = [fil EXCEPT ![e] = OpenFil(0, 0, TRUE)]
            /\ UNCHANGED call
       ELSE /\ call' = Removing([Begin("create", e) EXCEPT !.cl = c], c, 0)
            /\ UNCHANGED fil
  /\ res' = "FR_OK"
  /\ UNCHANGED <<info, fs, faults, cut, hurt>>

open_removed ==
  /\ call.pc = "ret" /\ call.op = "create"
  /\ IF call.ret = 0 THEN Goto("back") ELSE Finish("FR_DISK_ERR")
  /\ UNCHANGED <<now, disk, info, win, fs, fil, faults, cut, hurt>>

\* Back at the entry's sector; the next chain is to reuse the hole.
open_back ==
  /\ call.pc = "back"
  /\ ReadAt(DirSect)
  /\ fs' = [fs EXCEPT !.last = call.cl - 1]
  /\ UpdateFil(OpenFil(0, 0, TRUE))
  /\ Finish("FR_OK")
  /\ UNCHANGED <<now, info, faults, cut, hurt>>

----------------------------------------------------------------------------
(* f_sync and f_close.                                                     *)

UpdateOldSize(op, e) ==    \* mutant: the size in the entry is kept
  /\ fil[e].modified
  /\ WriteAt(DirSect)
  /\ PutDir(e, FileEnt(fil[e].sclust, now.dir[e].size))
  /\ call' = [Begin(op, e) EXCEPT !.pc = "sync"]
  /\ UNCHANGED fil

\* FA_MODIFIED: the entry is updated and sync_fs follows.
Update(op, e) ==
  /\ fil[e].modified
  /\ WriteAt(DirSect)
  /\ PutDir(e, FileEnt(fil[e].sclust, fil[e].size))
  /\ call' = [Begin(op, e) EXCEPT !.pc = "sync"]
  /\ UNCHANGED fil

f_sync(e) ==
  /\ call = Idle /\ fil[e].open
  /\ \/ Update("sync", e)
     \/ ~fil[e].modified /\ UNCHANGED <<now, disk, win, fil, call>>
  /\ res' = "FR_OK"
  /\ UNCHANGED <<info, fs, faults, cut, hurt>>

f_close(e) ==
  /\ call = Idle /\ fil[e].open
  /\ \/ Update("close", e)
     \/ /\ ~fil[e].modified
        /\ fil' = [fil EXCEPT ![e] = ClosedFil]
        /\ UNCHANGED <<now, disk, win, call>>
  /\ res' = "FR_OK"
  /\ UNCHANGED <<info, fs, faults, cut, hurt>>

----------------------------------------------------------------------------
(* f_write of one cluster and f_lseek.                                     *)

Usable(e) == fil[e].open /\ ~fil[e].err

\* The error values of create_chain, 0 (disk full) aside.
FailedBut1(r) == r = 1    \* mutant: 0xFFFFFFFF is taken for a cluster
Failed(r)     == r \notin Clst

\* ABORT of ff.c: the object refuses further work.
Abort(f) == UpdateFil([f EXCEPT !.err = TRUE]) /\ Finish("FR_DISK_ERR")

f_write(e) ==
  LET f == fil[e]
      k == Begin("write", e)
  IN
  /\ call = Idle /\ Usable(e) /\ f.fptr < MaxSize
  /\ call' = IF f.fptr = 0
               THEN IF f.sclust = 0 THEN Creating(k, 0)
                    ELSE [k EXCEPT !.pc = "ret", !.ret = f.sclust]
             ELSE Creating(k, f.clust)
  /\ res' = "FR_OK"
  /\ UNCHANGED <<now, disk, info, win, fs, fil, faults, cut, hurt>>

\* ok: the data is stored.
write_chained(ok) ==
  LET f == fil[call.e]
      g == [f EXCEPT !.clust = call.ret,
                     !.sclust = IF @ = 0 THEN call.ret ELSE @]
  IN
  /\ call.pc = "ret" /\ call.op = "write"
  /\ ~ok => call.ret \in Clst /\ faults < MaxFault
  /\ IF call.ret = 0      \* disk full: nothing written
       THEN UpdateFil([f EXCEPT !.modified = TRUE]) /\ Finish("FR_OK")
     ELSE IF Failed(call.ret) THEN Abort(f)
     ELSE IF ~ok THEN Abort(g)
     ELSE /\ UpdateFil([g EXCEPT !.fptr = @ + 1, !.modified = TRUE,
                                 !.size = IF f.fptr + 1 > @ THEN f.fptr + 1 ELSE @])
          /\ Finish("FR_OK")
  /\ faults' = IF ok THEN faults ELSE faults + 1
  /\ UNCHANGED <<now, disk, info, win, fs, cut, hurt>>

\* The end of f_lseek at offset n: a larger offset extends the file.  clust
\* is not read again while the pointer is at the top of the file.
Sought(f, n) ==
  [f EXCEPT !.fptr = n, !.size = IF n > @ THEN n ELSE @,
            !.modified = @ \/ n > f.size, !.clust = IF n = 0 THEN 0 ELSE @]

\* The cluster following loop of f_lseek, entered with clst = f.clust.
Seek(k, f) ==
  IF k.rem > 1
    THEN /\ fil' = [fil EXCEPT ![k.e] = [f EXCEPT !.fptr = @ + 1]]
         /\ call' = Creating([k EXCEPT !.rem = @ - 1], f.clust)
         /\ res' = "FR_OK"
    ELSE /\ fil' = [fil EXCEPT ![k.e] = Sought(f, f.fptr + k.rem)]
         /\ Finish("FR_OK")

\* Seeking to the same or a following cluster starts at the current one.
FromCurrentLoose(f, ofs) == f.fptr > 0 /\ ofs + 1 >= f.fptr    \* mutant
FromCurrent(f, ofs)      == f.fptr > 0 /\ ofs >= f.fptr

f_lseek(e, ofs) ==
  LET f == fil[e]
      k == [Begin("lseek", e) EXCEPT !.rem = ofs]
  IN
  /\ call = Idle /\ Usable(e)
  /\ IF ofs = 0
       THEN Seek(k, [f EXCEPT !.fptr = 0])
     ELSE IF FromCurrent(f, ofs)
       THEN Seek([k EXCEPT !.rem = ofs - (f.fptr - 1)], [f EXCEPT !.fptr = @ - 1])
     ELSE IF f.sclust = 0
       THEN /\ fil' = [fil EXCEPT ![e].fptr = 0, ![e].clust = 0]
            /\ call' = Creating(k, 0)
            /\ res' = "FR_OK"
     ELSE Seek(k, [f EXCEPT !.fptr = 0, !.clust = f.sclust])
  /\ UNCHANGED <<now, disk, info, win, fs, faults, cut, hurt>>

lseek_chained ==
  LET f == fil[call.e]
      g == [f EXCEPT !.clust = call.ret, !.sclust = IF @ = 0 THEN call.ret ELSE @]
  IN
  /\ call.pc = "ret" /\ call.op = "lseek"
  /\ IF call.ret = 0      \* disk full: clip the file here
       THEN /\ UpdateFil(Sought(IF f.sclust = 0 THEN g ELSE f, f.fptr))
            /\ Finish("FR_OK")
     ELSE IF Failed(call.ret) THEN Abort(f)
     ELSE Seek(call, g)
  /\ UNCHANGED <<now, disk, info, win, fs, faults, cut, hurt>>

----------------------------------------------------------------------------
(* f_truncate.                                                             *)

f_truncate(e) ==
  LET f == fil[e]
      k == Begin("truncate", e)
  IN
  /\ call = Idle /\ Usable(e)
  /\ IF f.size > f.fptr
       THEN /\ call' = IF f.fptr = 0 THEN Removing(k, f.sclust, 0)
                       ELSE [k EXCEPT !.pc = "next"]
            /\ res' = "FR_OK"
            /\ cut' = cut \cup {e}
       ELSE Finish("FR_OK") /\ UNCHANGED cut
  /\ UNCHANGED <<now, disk, info, win, fs, fil, faults, hurt>>

truncate_next ==
  LET c == fil[call.e].clust IN
  /\ call.pc = "next"
  /\ ReadAt(FatSect(c))
  /\ IF now.fat[c] = EOC THEN Return(0)
     ELSE call' = Removing(call, now.fat[c], c) /\ UNCHANGED res
  /\ UNCHANGED <<now, info, fs, fil, faults, cut, hurt>>

ShortenedKeeps(f) ==    \* mutant: the start of a removed chain is kept
  [f EXCEPT !.size = f.fptr, !.modified = TRUE]

Shortened(f) ==
  [f EXCEPT !.sclust = IF f.fptr = 0 THEN 0 ELSE @, !.size = f.fptr,
            !.modified = TRUE]

truncate_removed ==
  LET g == Shortened(fil[call.e]) IN
  /\ call.pc = "ret" /\ call.op = "truncate"
  /\ IF call.ret = 0 THEN UpdateFil(g) /\ Finish("FR_OK") ELSE Abort(g)
  /\ UNCHANGED <<now, disk, info, win, fs, faults, cut, hurt>>

----------------------------------------------------------------------------
(* f_unlink of a file or an empty directory, and f_mkdir.                  *)

\* The entry goes first, then its chain.
Unlink(k) ==
  LET c == now.dir[k.e].clst IN
  /\ WriteAt(DirSect)
  /\ PutDir(k.e, NoEnt)
  /\ call' = IF c = 0 THEN [k EXCEPT !.pc = "sync"] ELSE Removing(k, c, 0)

\* chk_lock keeps f_unlink away from an open file.
f_unlink(e) ==
  LET kind == now.dir[e].kind IN
  /\ call = Idle /\ ~fil[e].open
  /\ \/ kind = "file" /\ Unlink(Begin("unlink", e))
     \/ /\ kind # "file"
        /\ ReadAt(DirSect)
        /\ call' = IF kind = "dir" THEN [Begin("unlink", e) EXCEPT !.pc = "look"]
                   ELSE Idle
        /\ UNCHANGED now
  /\ res' = IF kind = "none" THEN "FR_NO_FILE" ELSE "FR_OK"
  /\ UNCHANGED <<info, fs, fil, faults, cut, hurt>>

\* dir_read finds the directory empty.
unlink_look ==
  /\ call.pc = "look"
  /\ ReadAt(DataSect)
  /\ Goto("remove")
  /\ UNCHANGED <<now, info, fs, fil, faults, cut, hurt>>

unlink_remove ==
  /\ call.pc = "remove"
  /\ Unlink(call)
  /\ UNCHANGED <<info, fs, fil, res, faults, cut, hurt>>

unlink_removed ==
  /\ call.pc = "ret" /\ call.op = "unlink"
  /\ IF call.ret = 0 THEN Goto("sync") ELSE Finish("FR_DISK_ERR")
  /\ UNCHANGED <<now, disk, info, win, fs, fil, faults, cut, hurt>>

f_mkdir(e) ==
  LET new == now.dir[e].kind = "none" IN
  /\ call = Idle
  /\ ReadAt(DirSect)
  /\ call' = IF new THEN Creating(Begin("mkdir", e), 0) ELSE Idle
  /\ res' = IF new THEN "FR_OK" ELSE "FR_EXIST"
  /\ UNCHANGED <<now, info, fs, fil, faults, cut, hurt>>

\* After create_chain, and again after the rollback's remove_chain, whose
\* result is dropped.
mkdir_chained ==
  /\ call.pc = "ret" /\ call.op = "mkdir"
  /\ IF call.cl # 0 THEN Finish("FR_DISK_ERR")
     ELSE IF call.ret = 0 THEN Finish("FR_DENIED")
     ELSE IF Failed(call.ret) THEN Finish("FR_DISK_ERR")
     ELSE call' = [call EXCEPT !.pc = "flush", !.ret = 0, !.cl = call.ret] /\ UNCHANGED res
  /\ UNCHANGED <<now, disk, info, win, fs, fil, faults, cut, hurt>>

mkdir_flush_none ==    \* mutant: the window is reused without sync_window
  /\ call.pc = "flush"
  /\ win' = [win EXCEPT !.dirty = FALSE]
  /\ Goto("table")
  /\ UNCHANGED <<now, disk, info, fs, fil, faults, cut, hurt>>

\* sync_window, before the window is used to clear the new table.
mkdir_flush ==
  /\ call.pc = "flush"
  /\ disk' = Synced
  /\ win' = [win EXCEPT !.dirty = FALSE]
  /\ Goto("table")
  /\ UNCHANGED <<now, info, fs, fil, faults, cut, hurt>>

mkdir_table ==
  /\ call.pc = "table"
  /\ win' = [sect |-> DataSect, dirty |-> FALSE]
  /\ Goto("register")
  /\ UNCHANGED <<now, disk, info, fs, fil, faults, cut, hurt>>

mkdir_register ==
  /\ call.pc = "register"
  /\ WriteAt(DirSect)
  /\ PutDir(call.e, [kind |-> "dir", clst |-> call.cl, size |-> 0])
  /\ Goto("sync")
  /\ UNCHANGED <<info, fs, fil, faults, cut, hurt>>

\* Every failure between create_chain and the entry gives the cluster back.
mkdir_error ==
  /\ faults < MaxFault /\ faults' = faults + 1
  /\ \/ call.pc = "flush" /\ win.dirty /\ disk' \in {disk, Synced} /\ UNCHANGED win
     \/ call.pc = "table" /\ win' = [sect |-> DataSect, dirty |-> TRUE] /\ UNCHANGED disk
     \/ call.pc = "register" /\ MoveFails(DirSect)
  /\ call' = Removing(call, call.cl, 0)
  /\ UNCHANGED <<now, info, fs, fil, res, cut, hurt>>

----------------------------------------------------------------------------
(* f_getfree: it counts the zero entries sector by sector.                 *)

f_getfree ==
  /\ call = Idle
  /\ IF fs.free <= NFatEnt - 2 THEN Finish("FR_OK")
     ELSE call' = [Begin("getfree", NoEntry) EXCEPT !.pc = "count"] /\ res' = "FR_OK"
  /\ UNCHANGED <<now, disk, info, win, fs, fil, faults, cut, hurt>>

Zeros(S) == Cardinality({c \in Clst : FatSect(c) \in S /\ now.fat[c] = 0})

\* The count is stored when the scan ends, also when it ends in an error.
Counted(n) == fs' = [fs EXCEPT !.free = n, !.fsi = TRUE]

getfree_count ==
  LET n == call.rem + Zeros({call.ncl}) IN
  /\ call.pc = "count"
  /\ ReadAt(call.ncl)
  /\ IF call.ncl = FatSect(NFatEnt - 1)
       THEN Counted(n) /\ Finish("FR_OK")
       ELSE /\ call' = [call EXCEPT !.ncl = @ + 1, !.rem = n]
            /\ UNCHANGED <<fs, res>>
  /\ UNCHANGED <<now, info, fil, faults, cut, hurt>>

getfree_error ==
  /\ call.pc = "count" /\ faults < MaxFault
  /\ MoveFails(call.ncl)
  /\ Counted(call.rem)
  /\ Finish("FR_DISK_ERR")
  /\ faults' = faults + 1
  /\ UNCHANGED <<now, info, fil, cut, hurt>>

----------------------------------------------------------------------------
(* A failed move_window, and power losses.                                 *)

\* The sector the call accesses next, where a failure needs no other code.
Target ==
  CASE call.pc \in {"back", "remove"} -> DirSect
    [] call.pc = "look" -> DataSect
    [] call.pc \in {"follow", "free", "link"} -> FatSect(call.clst)
    [] call.pc = "cut" -> FatSect(call.pclst)
    [] call.pc = "next" -> FatSect(fil[call.e].clust)
    [] call.pc = "scan" /\ ~(Wraps /\ call.scl < 2) -> FatSect(ScanNext)
    [] OTHER -> win.sect    \* none

\* get_fat and put_fat hand the error to the caller of the chain function.
move_window_error ==
  /\ faults < MaxFault /\ faults' = faults + 1
  /\ MoveFails(Target)
  /\ IF call.pc \in {"follow", "scan", "link", "cut", "free", "next"}
       THEN Return(DiskErr)
       ELSE Finish("FR_DISK_ERR")
  /\ fs' = IF call.pc = "back" THEN [fs EXCEPT !.last = call.cl - 1] ELSE fs
  /\ UNCHANGED <<now, info, fil, cut, hurt>>

\* The stored entry of a file that f_truncate shortened is left behind the FAT
\* until f_sync: its chain may be free by now, or another file's.
Exposed(e) == e \in cut /\ disk.dir[e].clst # 0

\* The volume is mounted again by the next call: find_volume.
PowerLoss ==
  /\ faults < MaxFault /\ faults' = faults + 1
  /\ hurt' = (hurt \/ \E e \in Entry : Exposed(e))
  /\ now' = disk
  /\ win' = [sect |-> NoSect, dirty |-> FALSE]
  /\ fs' = IF FAT32 THEN [free |-> info.free, last |-> info.last, fsi |-> FALSE]
           ELSE [free |-> Unknown, last |-> Unknown, fsi |-> FALSE]
  /\ fil' = [e \in Entry |-> ClosedFil]
  /\ cut' = {}
  /\ Finish("FR_NOT_READY")
  /\ UNCHANGED <<disk, info>>

----------------------------------------------------------------------------
\* A formatted volume, just mounted.
Init ==
  /\ now = [fat |-> [c \in Clst |-> IF FAT32 /\ c = 2 THEN EOC ELSE 0],
            dir |-> [e \in Entry |-> NoEnt]]
  /\ disk = now
  /\ info = [free |-> NFatEnt - 3, last |-> 2]
  /\ win = [sect |-> NoSect, dirty |-> FALSE]
  /\ fs = IF FAT32 THEN [free |-> info.free, last |-> info.last, fsi |-> FALSE]
          ELSE [free |-> Unknown, last |-> Unknown, fsi |-> FALSE]
  /\ fil = [e \in Entry |-> ClosedFil]
  /\ call = Idle
  /\ res = "FR_OK"
  /\ faults = 0
  /\ cut = {}
  /\ hurt = FALSE

Chain ==
  \/ create_follow \/ scan_end \/ scan_used \/ scan_take \/ create_link
  \/ remove_cut \/ remove_free
  \/ sync_fs \/ sync_fs_error

FileStep ==
  \/ open_removed \/ open_back
  \/ \E ok \in BOOLEAN : write_chained(ok)
  \/ lseek_chained
  \/ truncate_next \/ truncate_removed

DirStep ==
  \/ unlink_look \/ unlink_remove \/ unlink_removed
  \/ mkdir_chained \/ mkdir_flush \/ mkdir_table \/ mkdir_register
  \/ mkdir_error
  \/ getfree_count \/ getfree_error

Start ==
  \/ \E e \in Entry : f_open(e) \/ f_open_denied(e) \/ f_open_create(e)
  \/ \E e \in Entry : f_sync(e) \/ f_close(e)
  \/ \E e \in Entry : f_write(e) \/ f_truncate(e)
  \/ \E e \in Entry, ofs \in 0 .. MaxSize : f_lseek(e, ofs)
  \/ \E e \in Entry : f_unlink(e) \/ f_mkdir(e)
  \/ f_getfree
  \/ dir_error

Next == Start \/ Chain \/ FileStep \/ DirStep \/ move_window_error \/ PowerLoss

Spec == Init /\ [][Next]_vars

----------------------------------------------------------------------------
(* Properties.                                                             *)

Cell   == {0, EOC} \cup Clst
Ent    == [kind : {"none", "file", "dir"}, clst : {0} \cup Clst, size : 0 .. MaxSize]
Image  == [fat : [Clst -> Cell], dir : [Entry -> Ent]]
Hint   == 0 .. NFatEnt + 1
Sect   == FatSects \cup {DirSect, InfoSect, DataSect, NoSect}
File   == [open : BOOLEAN, sclust : {0} \cup Clst, size : 0 .. MaxSize,
           fptr : 0 .. MaxSize, clust : {0} \cup Clst, modified : BOOLEAN,
           err : BOOLEAN]

\* Every variable keeps its type; no link leaves the FAT.
TypeOK ==
  /\ now \in Image /\ disk \in Image
  /\ info \in [free : Hint, last : Hint]
  /\ win \in [sect : Sect, dirty : BOOLEAN]
  /\ fs \in [free : Hint, last : Hint, fsi : BOOLEAN]
  /\ fil \in [Entry -> File]
  /\ faults \in 0 .. MaxFault /\ cut \in SUBSET Entry /\ hurt \in BOOLEAN

\* What the window hides from the medium is in the window: the medium differs
\* from what the code sees in one sector at most, and only while wflag is set.
WindowCoherent ==
  /\ \A c \in Clst :
       now.fat[c] # disk.fat[c] => win.dirty /\ win.sect = FatSect(c)
  /\ now.dir # disk.dir => win.dirty /\ win.sect = DirSect

\* The n-th cluster of the chain that starts at c.
Nth(fat, c, n) ==
  LET w[i \in 1 .. MaxSize] ==
        IF i = 1 THEN c ELSE IF w[i - 1] \in Clst THEN fat[w[i - 1]] ELSE 0
  IN  w[n]

\* How many entries and links point at cluster c.
Refs(fat, dir, c) ==
  Cardinality({e \in Entry : dir[e].clst = c})
  + Cardinality({d \in Clst : fat[d] = c})
  + IF FAT32 /\ c = 2 THEN 1 ELSE 0

\* No cluster has two owners, and what is owned is allocated.
OneOwner(fat, dir) ==
  \A c \in Clst :
    LET n == Refs(fat, dir, c) IN n <= 1 /\ (n = 1 => fat[c] # 0)

\* The chain of an entry is as long as its size says.
Reaches(fat, d) == d.size > 0 => Nth(fat, d.clst, d.size) \in Clst

\* What an entry is: an open object knows better than the directory.
Current(e) ==
  IF fil[e].open THEN FileEnt(fil[e].sclust, fil[e].size) ELSE now.dir[e]

\* What the medium says of an entry that is not Exposed.
OnMedium(e) == IF Exposed(e) THEN NoEnt ELSE disk.dir[e]

\* Between calls no two files share a cluster and none starts at or leads to
\* a free one, whatever I/O errors cut earlier calls short.
NoCrossLink ==
  call = Idle /\ ~hurt => OneOwner(now.fat, [e \in Entry |-> Current(e)])

\* The order of the sector writes: at every moment no two files of the medium
\* alone share a cluster or have a free one, but for the entries Exposed by a
\* truncation that is not yet synced.
CrashConsistent ==
  ~hurt => OneOwner(disk.fat, [e \in Entry |-> OnMedium(e)])

\* The chains reach as far as the sizes say, also on the medium alone; the
\* current cluster is the one before the file pointer, from which f_lseek and
\* f_write follow the chain without looking at its start again.
ChainsReach ==
  ~hurt =>
    \A e \in Entry :
      /\ Reaches(disk.fat, OnMedium(e))
      /\ call = Idle =>
           /\ Reaches(now.fat, Current(e))
           /\ Usable(e) /\ fil[e].fptr > 0 =>
                Nth(now.fat, fil[e].sclust, fil[e].fptr) = fil[e].clust

\* Without faults no cluster gets lost: when all files are closed each
\* allocated cluster belongs to an entry, directly or through a link.
NoLeak ==
  call = Idle /\ faults = 0 /\ (\A e \in Entry : ~fil[e].open) =>
    \A c \in Clst : now.fat[c] # 0 => Refs(now.fat, now.dir, c) = 1

\* free_clst, when it is not unknown, is the number of free clusters.
FreeCountExact ==
  call = Idle /\ faults = 0 /\ fs.free <= NFatEnt - 2 =>
    fs.free = Cardinality({c \in Clst : now.fat[c] = 0})

Stored(e) ==
  /\ disk.dir[e] = FileEnt(fil[e].sclust, fil[e].size)
  /\ \A n \in 1 .. fil[e].size :
       LET c == Nth(now.fat, fil[e].sclust, n) IN disk.fat[c] = now.fat[c]

\* An f_sync that had something to store and reports success has stored it,
\* entry and chain, also after earlier write errors.
SyncStores ==
  [][\A e \in Entry :
       call.pc = "sync" /\ call.op = "sync" /\ call.e = e /\ res' = "FR_OK"
         => Stored(e)']_vars
=============================================================================
