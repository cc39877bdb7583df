# TLA+ models of arduFPGA-app-common

The repository is the library that bootloaders and applications of arduFPGA
boards share: a FAT file system (ChaN's FatFs with a driver structure per
volume), an SD card driver over SPI, a file browser, a text editor, keys,
timers, buses, displays and some algorithms.  Everything runs on one small
processor: one main loop that polls the components, and an interrupt that
counts timer ticks.  This directory models the parts whose correctness depends
on *sequences* of operations: the file system from its sharing rules down to
bytes, names and sectors, the card below it, and the browser, the editor and
the keys above it.  TLC checks the models, TLAPS proves what is safe about
eight of them.

- [Inventory](#inventory)
- [Modules](#modules)
- [Runs](#runs)
- [What the runs found](#what-the-runs-found)
- [Proofs](#proofs)
- [Not modelled](#not-modelled)
- [Plan](#plan)

## Inventory

Paths are relative to `src/`.

| Component | State | Operations | What makes it hard | Module |
|---|---|---|---|---|
| FatFs file lock and mounts, `fat_fs/src/ff.c` | `Files[]`, `FatFs[]`, `Fsid`, `fs_type` and `id` of each FATFS, the `_FDID` of each FIL and DIR | `f_mount`, `f_open`, `f_opendir`, `f_close`, `f_unlink`, `f_rename`, `f_mkdir`, and inside them `find_volume`, `validate`, `chk_lock`, `enq_lock`, `inc_lock`, `dec_lock`, `clear_lock` | one table for all volumes; remounts happen inside other calls; objects outlive mounts; errors after the lock was taken | `FileLock` |
| FatFs clusters and directory entries, `fat_fs/src/ff.c` | the FAT, the directory sector, `win[]`, `wflag`, `winsect`, FSINFO, `free_clst`, `last_clst`, the chain fields of each FIL | `create_chain`, `remove_chain`, `sync_fs` and the calls built from them | several sector writes per call through one dirty window; I/O errors and power loss between them; counts kept beside the FAT | `FatVolume` |
| FatFs file data, `fat_fs/src/ff.c` | `fptr`, `sect`, `buf`, `FA_DIRTY`, `FA_MODIFIED`, `cltbl` | `f_read`, `f_write`, `f_lseek`, `f_truncate`, `f_sync`, `f_close` | write-back of a private sector buffer, whole sectors that go past it, a link map beside the chain | `FatFile` |
| FatFs names, `fat_fs/src/ff.c` | the directory table, through `win[]` | `dir_find`, `dir_register`, `dir_remove`, `dir_next`, `f_readdir` in `f_open`, `f_mkdir`, `f_unlink`, `f_rename` | one name is several entries, in several sectors, tied by a sum; the table grows by clusters that hold old data | `LongNames` |
| Disk I/O layer, `fat_fs/src/diskio.c` | none | dispatch through `drv_rw_func` | drops the driver's result of `CTRL_SYNC`; never reports `STA_NOINIT` | in `SdCard`, `Explorer` |
| SD card driver, `mmc_sd_spi.c` | `SD_Init_OK`, `sdType`, `initFlg`, `connected`, `fs_mounted`, chip select | `initCard`, `readPage`, `writePage`, `mmcSdSpiIoctl`, `mmc_sd_spi_idle` | time-outs by counters that wrap, card removed at any moment, no retry after a failed initialisation | `SdCard`; `mmc_sd_spi_idle` in `Explorer` |
| File browser, `gui.c` | `menu_pos`, `menu_sel`, `items_scanned`, `fs_mounted`, `dirObject`, `nameBuff` | `gui_idle`, `gui_paint` | follows the driver's mount flag by polling; positions kept across directory changes | `Explorer` |
| Timers, `delay.c` | `timer_cnt`, each timer's `tik` | `timer_service` (interrupt), `timer_enable`, `timer_tik` | a 32-bit counter read byte by byte beside the interrupt that increments it | in `Keyboard` |
| Keyboard, `kbd.c` | key states, repeat timers | `kbd_idle`, `kbd_changed` | edges and auto-repeat by comparing states | `Keyboard` |
| Text editor, `app/textEditor.c` | table of files, active file, buffer, cursor | `addFile`, `changeFile`, `edit`, cursor moves | switching files stores and loads several fields, every step of it may fail | `TextEditor` |
| Buses, `driver/*.c`; flash and MP3 chips, `device/25flash.c`, `device/vs10xx.c` | chip select, bus state | transactions | busy waits without time-out, missing STOP after an error | |
| Displays, graphics, cryptography, conversions, FFT, code pages | none between calls | pure functions and tables | numeric edges | |

How they interact.  The application's main loop calls `mmc_sd_spi_idle`, which
polls the card detect pin and, on insertion, initialises the card, fills in
`drv_rw_func` and calls `f_mount`; it then calls `gui_idle`, which follows the
driver's `fs_mounted` flag, polls the keys and calls FatFs.  FatFs calls
`disk_read`, `disk_write` and `disk_ioctl`, which dispatch to the driver of the
volume.  Nothing in the repository calls FatFs from two tasks or from an
interrupt: its concurrency is that of *objects* (several FIL and DIR open at
once) and of the *medium* (the card may fail, be removed, or lose power between
any two sector accesses).

## Modules

| Module | Models | Extends / instantiates |
|---|---|---|
| `SharingPolicy` | what the file lock promises: readers or one writer per object, a mount revokes | |
| `FileLock` | `Files[]`, mounting, the calls that open, close, remove and rename | instantiates `SharingPolicy` |
| `FileLockInv` | the inductive invariant of `FileLock` | `FileLock` |
| `FatVolume` | clusters, directory entries, the window, FSINFO, errors and power loss | |
| `ByteFile` | what `f_read`, `f_write`, `f_lseek` and `f_truncate` promise: a sequence of bytes with a position | |
| `FatFile` | one open file: its buffer, direct transfers, link map, and the medium | instantiates `ByteFile` |
| `NameSpace` | what the calls promise of names: a name leads to one file, a call touches one file | |
| `LongNames` | the directory table with long name entries, sector by sector | instantiates `NameSpace` |
| `BlockStore` | what the card driver promises to `disk_read` and `disk_write` | |
| `SdCard` | the card driver, `disk_ioctl` and the card | instantiates `BlockStore` |
| `Explorer` | the browser, `mmc_sd_spi_idle`, the mount and the slot, composed | |
| `TextEditor` | the editor's buffer and table of files over a disk that fails | |
| `Keyboard` | `kbd_idle` over the timers of `delay.c` and their interrupt | |
| `MC...` | the instance of a module for TLC: data, symmetry, bounds | the module |
| `...Proofs` | the theorems about a module | the module, `TLAPS` |

Layers meet at the interface of the code.  `FatVolume` takes the medium to be
sectors that are written whole, which is what `BlockStore` allows and `SdCard`
implements.  `FatFile` takes `get_fat`, `create_chain` and `remove_chain` to do what
`FatVolume` does, and `LongNames` names without clusters.  `Explorer` uses a FatFs
reduced to its window, current directory, mount and locks.

### FileLock

*State.* `Files` is `Files[]` (an index of the model is an index of the array;
`lockid` is the index plus one, 0 for none, as in the code).  `vol[v]` holds
whether `FatFs[v]` is registered, whether `fs_type` is not 0, and the mount
`id`; `Fsid` is the static counter.  `obj[h]` has the `_FDID` fields the lock
code reads; `validate` is the operator `Valid`.  `tree[v]` is the root directory:
each entry is free, a file, or a subdirectory named by its start cluster.
`res` is the `FRESULT` of the last call.

*Steps.* One action is one call of the FatFs API from its first line to
`LEAVE_FF`; calls do not interleave because nothing in the repository calls
FatFs concurrently.  `find_volume`, which may mount the volume first and clear
its locks, is part of every path call (`FoundFiles`, `FoundVol`, `FoundFsid`).
Disk errors are disjuncts of their own where they end a call before it took its
lock (`open_disk_error`, `path_disk_error`, `find_volume_fails`) and parameters
where they end it after (`seek_fails` of `f_open`, `fails` of `f_unlink` and
`f_rename`).  An object is named as the code names it: a file by (0, offset of
its entry), a subdirectory opened by `f_opendir` by (its start cluster, 0).

*Abstractions.* Paths are entries; attributes other than "directory" are left
out; `f_unlink` of a directory assumes it is empty (a full one is refused
before anything changes).  `Reopens` says whether a handle that is still open may be
passed to `f_open` or `f_opendir`: `gui.c` does so with `dirObject` for every
directory it enters, `textEditor.c` after an `f_close` that failed.  The code
overwrites such an object, and the entry of `Files[]` keeps the old count.
`ReadBound` leaves out the 256th count of one entry, which only such leaks reach:
it would read as 0x100, "writing".

### FatVolume

*State.* `now` is the volume as the code sees it (medium plus window), `disk` the
medium alone, `win` the window's sector and dirty flag, `info` the FSINFO sector
on the medium, `fs` the FATFS fields `free_clst`, `last_clst` and `fsi_flag`,
`fil[e]` the FIL open on entry `e`.  `call` is the call in progress: its `pc`
names the next sector access, the other fields are the locals of
`create_chain`, `remove_chain` and their callers.

*Steps.* One action is the code between two calls of `move_window` (or
`sync_window`), so an I/O error (`move_window_error`, `sync_fs_error`,
`mkdir_error`, `getfree_error`, `dir_error`) or `PowerLoss` can fall between any
two sector accesses.  A failed write may or may not have reached the medium.
After `PowerLoss` the volume is as `find_volume` finds it on the next call.

*Abstractions.* Positions and sizes count clusters, and `f_write` stores one
cluster; the byte level is left out.  The directory is one sector, so
`dir_register` finds a slot without growing the table; `f_mkdir` clears its table
in one write.  FAT12, where an entry may straddle two sectors, exFAT, the second
copy of the FAT and `_USE_TRIM` are left out.  The medium and `disk_ioctl`, which
always reports `CTRL_SYNC` as done, are modelled from `diskio.c`; `SdCard` looks behind them.

### FatFile

*State.* `medium` is the data area, one sequence of bytes per sector; `chain` the
clusters of the file, `others` those of all other files.  `fil` is the FIL object:
`fptr`, `objsize`, `clust`, `sect`, `buf`, the two flags `FA_DIRTY` and `FA_MODIFIED`, `err`
and `cltbl`.  `call` is the `f_read` or `f_write` in progress with the bytes it has left.

*Steps.* One action is one turn of the loops of `f_read` and `f_write`: the rest
of a sector through the buffer, or a run of whole sectors that goes to or from
the medium directly, with what the code does about a buffer that is dirty or lies
in the run.  `f_lseek` (normal, extending, and with a link map), `f_truncate`, `f_sync`,
`f_close` and `f_open` with and without `FA_OPEN_APPEND` are whole actions; each sector access of them may
fail.  `others_take` and `others_give` are the rest of the volume: the calls of other files
that allocate, overwrite and free clusters.

*Abstractions.* The bytes of one `f_write` are alike, and stand for the call.  File
sizes stay below `Limit`.  A program drops the link map before it changes the
length of the file, as FatFs asks; a map too small for its file is left
out.  A file that an I/O error has hit is not opened again.

### LongNames

*State.* `table` is the directory as FatFs sees it, `disk` as it is stored; they differ
in the sector in the window.  An entry is free, deleted, a part of a long name
(its text, order, whether it is the last, and the sum of a short name) or a short
name with its file.  `disk` may have fewer entries than `table`: those of a cluster whose link is not
stored yet.  `todo` holds the steps the call in progress has left.

*Steps.* A call (`f_open` or `f_mkdir` for a new name, `f_unlink`, `f_rename`) computes from `table` what it
will write: `dir_register` with `gen_numname`, `dir_remove`, in the order of the code.
`write_entry` does one of the writes, storing the window first when it moves to another
sector; `sync_fs` ends the call.  When the table has too few entries, `dir_next` stretches it first:
it links a cluster (`dir_next_link`), stores the link (`dir_next_flush`) and stores zeros in each sector
(`dir_next_clear`); until then the cluster holds `Old` entries.  `dir_register_denied` is the call for which
the volume is too full.  `write_error`, `clear_error` and `PowerLoss` may come before each step.

*Abstractions.* Names are values that `create_name` would produce: a long name that
is not in 8.3 format has its list of numbered names, any other its short name.  `sum_sfn` has 8 bits; the
instance gives each short name a sum of its own, so that names whose sums
collide are not covered.  `_USE_LFN` is taken as set and `_FS_EXFAT` as not: `ffconf.h` is
not in the repository, and `gui.c` needs long names.

### SdCard

*State.* `card` is the slot and the card in it: its kind (addressed by blocks, by
bytes with or without CMD8, or an MMC), whether it is still in its native mode,
idle or ready, its blocks, and the block it is programming.  `inst` holds
`SD_Init_OK` and `sdType` of `mmc_sd_t`, `cs` the chip select line, `call` the call
in progress: its `pc` names the next command or data block, the other fields
are locals and arguments.

*Steps.* One action is one command with its response (`sendCmd`, which retries
nothing), one data block, or the wait of `CTRL_SYNC`.  Between any two the card may
finish programming, be pulled (and lose the block it was programming), or be put in.
Whether the card answers, with what, and whether a data token or a data response
comes, is the card's choice; a card that was not brought up answers nothing
but CMD0.  The counted waits inside `select`, `rcvrDatablock` and `read_csd`
are either long enough or not.

*Abstractions.* A block is a value; the geometry read from the CSD is left out, as are the
LED, the interrupt flag and the SPI clock.  `Timer` stands for the 1000 polls of the initialisation.
`readPage` and `writePage` are called for one block only, so CMD18, CMD25, ACMD23 and
CMD12 are never sent.  `Content`, the card's data with the block being programmed, is
what `BlockStore` sees as its store.

### Explorer

*State.* `slot` and `ready` are the card; `sd` the two flags of `mmc_sd_t`; `fs` the FATFS as far as
the browser depends on it: the mount, the current directory, the sector in `win[]` with the card
it was read from, and the directories that hold an entry of `Files[]`.  `gui` has the
variables of `gui.c`, `view` what the display shows.

*Steps.* `SdStep` is `mmc_sd_spi_idle`; `GuiStep` the part of `gui_idle` that follows the flag, one key with
its FatFs calls, and `gui_paint`; `SlotStep` puts a card in or pulls it, between any two of them.  A
read is served when the card answers, or when the entry lies in the sector the window
holds, as `move_window` does; `disk_status` never says that the card is gone.

*Abstractions.* Directories are tables of names; a name is a file the filter
passes, one it rejects, a directory or "..".  `f_readdir` stops before the last entry of
a full table, as ff.c:4219 (a line that is commented out) makes it do.  The
asterisks, icons and the start of an application are left out.

### TextEditor

*State.* `disk` has the text of each file; `files` the editor's table, `buf` the
buffer of `maxFileLen` bytes, `cursorPos`, `busy`, `edited` and `activeFile` the fields of its
instance.  `strayed` is history: a line key has looked outside the buffer.

*Steps.* `addFile`, `changeFile` and every key are whole actions.  `changeFile` stores
the text through the temporary chunk, finding the end backwards, and loads the other
file; one action for each call of FatFs in it that can fail.  `textEditor_Idle` is the timer
of the cursor, whose painting clears `busy`.

*Outside the buffer.*  A position is a `textEditorPtr`, an unsigned type whose largest value is `PtrMax`
(65535); `Succ` and `Pred` wrap as it does.  With the cursor at 1 behind a newline, `cnt - 1` in
`getPreviousLine` (textEditor.c:328) wraps to 65535, and the search goes down the memory from there; with the
cursor at the end of a full buffer both line keys begin with the byte behind it.  `Search`
lets such a scan stop at any place outside the buffer, as nothing is known of that memory, so
`getPreviousLine` and `getNextLine` are sets of results.  The cursor may then be anywhere, also behind
the buffer, is kept for a file like any other and found again when the file is loaded.
`CursorInside`, a part of `TypeOK`, says that this is the only way out of the buffer.

*Abstractions.* The window on the text is left out, so `busy` is cleared by the painting
that any change of it asks for.  `moveString` copies from and to the memory outside when the text is
changed at the end of a full buffer or with the cursor beyond it: such keys are not modelled (`InRange`); those that
move the cursor are, wherever it is.

### Keyboard

*State.* `timer_cnt`, the pins `port`, the `state` and `last_state` of `kbd.c`, and of each arrow its timer (`tik`,
value, enabled).  `ticked` stands between the two reads of `timer_tik`.  `report`, `before` and `left` are history:
`left` has, of each timer that is not in doubt, how many counts it has to go, whatever `tik` says.

*Steps.* A poll is one action for the pins, one for each arrow's edge, one or two for each
arrow's timer (`tick` compares, `arm_again` arms) and one for the buttons; `timer_service`
counts between any two of them, and keys go down and up between polls.

*Torn reads.*  `Reads(c)` is what a read of the counter can give when the interrupt falls
within it: the 8-bit processor loads four bytes, in the order the compiler chose, so that the bytes below
any of the three byte boundaries (`Units`: 256, 256^2 and 256^3) may be of one count and those above of the next.
0x0000FFFF can be read as 0x0001FFFF or as 0, and the last count as 0 in its upper bytes only.  The counter wraps
at `Range` (256^4), and so does `tik`.  A read that comes to a count without a carry is exact, torn or not: its
upper bytes are the same in both counts.  `OnTime` is therefore a property without slack, and names what it leaves out:
an arming or comparing read during which the count carries, and a delay in which the counter starts again from 0.
Each such misread spoils the delay it is made in, by up to 2^24 counts, more at the wrap; the timer armed next is in step again.

*Abstractions.* The delays of 500 and 150 counts are `First` and `Again`.  A read is shorter than the
time between two interrupts.

## Runs

TLC checks each run exhaustively; none uses simulation.

| Run | Instance | Question |
|---|---|---|
| `FileLock_share` | 2 volumes, 2 entries of which one is in use on each, 1 subdirectory, 2 handles opened again at will, 1 slot, counts below 3, 2 mounts | does any interleaving of opens, closes, unlinks, renames, remounts and failures break the sharing policy, the ownership of lock entries or the inductive invariant, does a mount touch another volume's locks, and does the table implement `SharingPolicy`? |
| `FatVolume_faults` | FAT16, 2 clusters in 2 FAT sectors, 2 files, one fault | what do an I/O error or a power loss at any access do to the volume? |
| `FatVolume_chain` | FAT32, a chain of up to 3 of 4 clusters over 2 FAT sectors, one fault | do the window, the medium, the free count and the positions of open files stay in step? |
| `FatFile_bytes` | 2 clusters of 2 sectors of 2 bytes, reads of 5 bytes, writes of 1 and 5, seeks to 1 and 4, 2 writes, one fault | is an open file a sequence of bytes (`ByteFile`), does what `f_sync` stored stay, and is any other file written? |
| `LongNames_dir` | a table that grows from 2 entries to 6 by clusters of one sector of 2, 2 files, a long name in two parts with two numbered names, a mixed-case name, one fault | is the directory a set of names (`NameSpace`), do its two scans agree, can a rename lose a file? |
| `SdCard_blocks` | 4 kinds of card, blocks 0, 1 and 512, requests of up to 2 blocks, 3 polls, with fairness | is a card taken for ready when it is not, addressed the wrong way, or read or written other than asked (`BlockStore`)?  Can the card keep a call from returning? |
| `Explorer_browse` | 2 cards, 3 nested directories, 3 entries in a sector, 2 lines of display, 2 lock slots, with fairness | do list, selection, current directory and mounted card stay together while cards come and go at any step, and is every absent and every new card noticed? |
| `TextEditor_files` | a buffer of two chunks of 3 bytes, 2 files, 2 keys that change the text, positions up to 2 behind the buffer, one disk error, with fairness | can an edit be lost or stored to the wrong file, when does the cursor leave the buffer, and can a key block the keyboard? |
| `Keyboard_repeat` | 2 arrows, 1 button, a counter of 3 bytes of 2 values that wraps, delays of 3 and 1, with fairness | is every press reported, what do torn reads and the wrap-around do to the delays, is a held key repeated? |
| `Explorer_EntersMarked`, `TextEditor_SavedIsEdited`, `FatFile_OthersKept` | the instances above | the three disagreements listed below |

*Why the bounds are enough.*  `FileLock`: a sharing conflict needs two objects, a
full table as few slots as there are objects less one, an object that outlives
a mount two mounts, a mount that must leave the other's locks alone two volumes;
the proofs remove all these bounds.  `FatVolume`: sharing a cluster needs two
files, a dirty window overtaken by another sector needs two FAT sectors and the
directory, a chain of three has a first, a middle and a last link; one fault
shows each single failure at each access, and what the calls after it make of
it.  `FatFile`: 5 bytes are a rest of a sector, a whole sector that goes past the buffer
and a rest, across a cluster boundary; one byte is a write within the buffer; with two clusters in all the
volume fills up, and a cluster given back is taken by others.  `LongNames`: a name of
three entries crosses a sector boundary wherever it lies, the table grows by one cluster for one and by
two for the other, two files with a numbered name each fill it, and parts that a power loss
left have room behind them for the entry that takes them over (5 entries were too few for this case).  A table of
4 entries with two faults holds as well, and so do clusters of two sectors of one entry.  `SdCard`: block 512 has as its number the byte
address of block 1, so a wrong addressing shows; two blocks of a request have a
first and a last.  `Explorer`: the larger directory needs two sectors and scrolls, the inner one is full,
and the two cards differ in what a name means.  `TextEditor`: the two chunks make the
search for the end cross one, the stored texts have a line break, and one key is
enough to be lost; the text with a line break at 1 leads to the wrapped search, and a full buffer to the scan
past its end, to positions behind the buffer and to the last one, whose successor is 0.
`Keyboard`: bytes of two values carry at every second count, and two boundaries show a read that is wrong by the upper one.
The delays are to a byte what 500 and 150 are to 256: the first is between one and two bytes, the second below
one.  Nothing bounds the counter: it wraps.

*What the volume properties say of faults.*  `NoLeak` and `FreeCountExact` hold
only without faults: FatFs gives clusters up rather than share them, so a fault
may lose clusters until the volume is checked, and FSINFO is only a hint.
`NoCrossLink` and `CrashConsistent` hold with faults.  They have one exception,
which the code has too: `f_truncate` frees clusters before `f_sync` updates the
directory entry, so a power loss in between leaves an entry that leads into free
clusters.  `Exposed` names exactly these entries, `hurt` records that power was
lost in such a moment, and the runs do not follow such a volume further
(`NotHurt`): the model checks that this is the *only* such moment.
`OthersKept` has an exception too, an `f_truncate` that failed, and a run of its own shows
what that exception costs (finding 3).  In `NameSpace`, after a fault a file may
keep a name too many or get the long name of one that was never completed.  A name then passes from one file
to another in two cases only: it is in `taken`, as the parts a power loss left behind
came before a new short name of their sum; or the power is lost after an earlier failure, and what was there
before that failure comes back.  `bare` records that a failure or power loss came between the link of
a new cluster and the last of its zeros, and the run does not follow such a directory further (`NotBare`):
`ListedIsFound` says that old entries are listed in no other case.

*Deadlock* is checked except in the runs of `FatFile` and `LongNames`, whose
behaviours end where the bounds on calls and faults, or a full table, let nothing more happen.

*Fairness.*  FatFs calls run to their end by themselves and wait for nothing, so the
modules of FatFs state no fairness and no liveness property.  The others assume that
the main loop goes on, since it is the only thread and nothing takes it away:

- `SdCard`: `WF_vars(DriverStep)`, a call that has begun continues; nothing of the card.
  `CallsReturn` is about the driver's own counters.
- `Explorer`: `WF_vars(SdStep \/ GuiStep)`, both idle functions are called for ever.
  `InsertedIsMounted` starts from an empty slot the driver has *seen*, and excepts a failed
  initialisation: a card exchanged between two polls is not noticed, and one that failed is not tried
  again.  The model has both, and the property says that nothing else keeps a card out.
- `TextEditor`: `WF_vars(textEditor_Idle(TRUE))`, the cursor's timer elapses again and again.  Keys
  restart it, but a key that finds `busy` set does nothing.
- `Keyboard`: `WF_vars(Poll)`; neither the keys nor the clock owe anything.

## What the runs found

Each is a violation run that checks one property.

1. `Explorer_EntersMarked`: `gui_paint` counts the entry after the last line as one more
   item before it filters it (gui.c:183), so key down can select an entry that is
   then not shown.  No line is marked, but `fattrib` and `nameBuff` keep the entry marked
   before, and A enters that directory.
2. `TextEditor_SavedIsEdited`: `changeFile` looks for the end of the text backwards in chunks of 16
   and takes a chunk of which only the first byte is used for an empty one
   (textEditor.c:193): a text of 16n+1 characters, n at least 1, is stored without its last one.  `SaveStores`
   shows that this is the only length at which a text is lost.
3. `FatFile_OthersKept`: when `f_truncate` fails in `remove_chain` after the first clusters
   are free, the dirty buffer of one of them stays (ff.c:4437), and `f_sync` and
   `f_close`, which do not look at the error, write it later: into another file, if
   that has taken the cluster.

The models also behave as follows where a comment or a caller would expect
otherwise.  The properties of the passing runs are stated so that they hold
with it, and say how far it goes.

- `f_open` with `FA_OPEN_APPEND` registers the object with `inc_lock` and then follows the chain;
  when that fails it nulls `obj.fs` and leaves the entry (ff.c:3442), so the file stays locked until
  the next mount.  `CounterCovers`: counters may be too high, never too low.
- `f_opendir` locks a subdirectory as (its start cluster, 0), `f_unlink` asks for
  (parent, entry offset) (ff.c:4141, 4482): an open directory is not protected.
  `OpenFileKeepsEntry` is about files only.
- `dir_find` and `dir_read` tie a long name to the short one behind it by its sum only (ff.c:2229).  A
  power loss between two sectors of a name leaves its parts; when a file is created later with the short
  name they were for, right behind them, it takes the long name, even one that another file has by
  now.  `taken` holds these names, and `ListedIsFound` and `NameSpace` except them.
- `dir_next` stores the link to a new cluster of a directory before it fills the cluster with zeros (ff.c:1522):
  an I/O error or a power loss in between makes entries of what the cluster held before.
- `f_sync` forgets `FA_MODIFIED` even when `sync_fs` fails (ff.c:3735), so that repeating
  the call reports success and stores nothing.  `SyncStores`: an `f_sync` that finds
  something to store and succeeds has stored everything.
- A read error during the scan of `f_getfree` leaves the partial count in `free_clst`
  (ff.c:4393).  On an empty FAT16 volume `free_clst` is `n_fatent - 2`, a value
  `create_chain` does not count down from (ff.c:1385).  `FreeCountExact` holds for FAT32 without faults.
- `CTRL_SYNC` returns `RES_OK` while the card is busy: the time-out of `select` is ignored, the
  wait after it listens to a deselected card (mmc_sd_spi.c:451), and `disk_ioctl` drops the
  result in any case.  `f_sync` therefore reports success for data a power loss can
  still destroy.
- The cursor is saved into the entry of the file changed to (textEditor.c:206), so it may
  be restored beyond the end of a text, where a typed character follows a NUL.
- Key up behind a newline at position 1 searches all the memory up to 65535 for the line before
  (textEditor.c:328), and a line key at the end of a full buffer searches past it: the cursor may end outside the
  buffer, for good when the file is left and loaded again.  `CursorInside` names the two cases.
- When `timer_cnt` starts again from 0 during a delay, `tik < timer_cnt` (delay.c:57) fails both ways.  If
  `tik` has wrapped and the count has not, the key repeats at every poll until it does.  If the count
  wraps before a poll has seen it above `tik`, a held key stops repeating for another 2^32 counts.
  A torn arming read can do the same for up to 2^24 counts.  `OnTime` and `HeldIsRepeated` name these cases.

## Proofs

Eight modules have theorems, for every value of the constants; the only
assumptions are the named ASSUMEs of the modules, which say what the constants
are (a finite set of handles, sizes that are not 0, `Nat` offsets, "none" values outside their sets).  Every
theorem follows from an inductive invariant by Init, one lemma per action, and
PTL.

| Module | Theorems | Why the properties are not inductive by themselves |
|---|---|---|
| `FileLockProofs` | `Inductive`, `TypeCorrect`, `LocksAreOwn`, `WritersAreExclusive`, `CountersCover`, `InternalErrorImpossible`, `FilesStay`, `SharingImplemented` | see below |
| `FatVolumeProofs` | `VolumeTypes`, `WindowHidesOneSector`, `OwnershipInvariant`, `FilesShareNoCluster`, `MediumSharesNoCluster`, `SyncIsDurable`, `FreeCountIsExact`, `NothingLeaks`, `ChainsInvariant`, `ChainsAreLongEnough` | see below |
| `FatFileProofs` | `FileInvariant`, `OthersAreKept`, `SyncedBytesStay`, `BytesImplemented` | see below |
| `LongNamesProofs` | `WindowInvariant`, `RenameLosesNoFile`, `NamesStayApart`, `WhatIsListedIsFound`, `NamesUntilBare`, `NamesImplemented` | see below |
| `SdCardProofs` | `DriverTypes`, `InitFindsType`, `BlocksImplemented` | success depends on answers many steps earlier |
| `ExplorerProofs` | `BrowserTypes`, `SelectionStays`, `ListAndCurrentAgree`, `ListsOneCard` | a list may come from the window, which may be of another card |
| `TextEditorProofs` | `EditorTypes`, `NoOtherEdited`, `UnmarkedIsOnDisk`, `ChangeStoresTheText` | the first three hold only together |
| `KeyboardProofs` | `PollsReport`, `RepeatsOnTime` | a poll is many steps, with interrupts between |

**FileLock.**  Every property that `FileLock_share` checks is proved, for any
number of volumes, entries, clusters and slots, and handles opened again or not;
and that `FileLock` implements `SharingPolicy`.  `MaxMount` bounds the mounts below the wrap
of the 16-bit id, `ReadBound` leaves out the read that would count 0x100.  `IInv` adds to the properties why they hold:

- `IdsBelow`: no id in use is above `Fsid`, so a remount makes all older objects of
  the volume unusable;
- `MountInv`: entries belong to mounted volumes, so clearing at a mount is enough;
- `TableInv`: one entry per object, blank entries count nothing, the root
  directory is never registered;
- `OwnInv`: a usable object owns the entry its lockid names, and a writer's entry
  says so.  `LockidIsOwn` and, with `CountInv`, `ExclusiveWriter` follow;
- `CountInv`: a read count covers the entry's users (leaks make it larger); a write
  entry has one user at most (none after an append that failed).  `CounterCovers` follows;
- `WriteInv`, `ExistInv`: directories are never locked for writing, and a locked
  root entry exists, which is why the slot `enq_lock` finds for a *new* entry is
  the one `inc_lock` takes: `NoInternalError`.

The parts take the variables as parameters.  A path call that first remounts its
volume is then two steps that each preserve `LockInv`: lemma `Remount` for
`find_volume`, and one lemma per thing a call does to the table or to a handle (`Drop`, `Acquire`, `Leak`,
`Release`, `TreeChange`).  Opening an open handle is `Drop` followed by `Acquire`.  `OpenInv`, `OpendirInv`, `CloseInv`, `UnlinkInv`, `RenameInv`,
`PathInv` and `MountStepInv` put them together per action, `NextInv` over `Next`.
The refinement (`SharingImplemented`) maps an open to `Acquire`, a close to `Release`,
a mount to `Revoke`, and a call that remounts first *and* opens to a single
`Acquire` after showing that the remount alone revokes nothing that still counts
(`SameGrants`).

**FatVolume.**  `IInv` is the conjunction of the parts `WindowOK`, `CountsOK`, `FilesOK`, `CallOK` and
`HistOK`, one for each group of variables, and `TableClean`.  The essence
is in `CallOK`: the locals of the call in progress are defined only at some of its
steps, and `StageOK` says at which a cluster number in them is one of the volume's.  Type
correctness needs more than types: `TiedOK` bounds `fptr` and what `f_lseek` has left *together*,
and the count of `f_getfree` is at most the number of clusters it has passed.
`WindowCoherent` needs `TableClean`: `f_mkdir` fills the window with the new table, which
loses nothing only because the window is clean by then.

The second part of `FatVolumeProofs` builds on it.  What `NoCrossLink` says between calls needs to be said of
every step: `Owned` gives each cluster one owner at most, an entry (`Heads`, what the entry will say
after the call) or a link, and none to the root directory's; `HeldOK` says that the cluster
which a call has taken and not yet linked, or cut off and not yet freed, is nobody's; `LinksOK` that the
link it is about to write still is as it found it.  Lemmas on one change of the FAT (`MarkOwned`, `LinkOwned`,
`CutOwned`, `FreeOwned`) and of the heads (`DropOwned`, `TakeOwned`) carry every action.  For the medium the
window is what matters: the medium is either as before or all that the code sees (`SyncedIsNow`), so
a sound view makes a sound medium at every write (`Concluded`); that is the argument by
which the order of the writes in `ff.c` is safe.

`CountInv` carries `FreeCountExact` on FAT32: without faults `free_clst` is the number of free clusters, plus one while
`create_chain` has taken a cluster and not yet linked it.  That the code's test `free_clst < n_fatent - 2` never
stops the count follows from the root directory, which keeps a cluster (`RootInUse`); on FAT16 nothing does, hence
the restriction.  That a link being changed was not free comes from `LinksOK`.

`LeakInv` carries `NoLeak`, the other half of ownership: without faults a cluster that nothing points at (`Unowned`) is
free, or the call holds it (`NoneLost`, `Holds`).  A closed file needs more than its object does: `f_close` stores the start
of a chain only if `FA_MODIFIED` is set.  `AheadOK` says when an unmodified object knows of a chain that its entry does not:
only while `f_lseek` extends an empty file, and there it is empty (`SizesOK`: no chain, no size) and the pointer has moved, so that
the call ends with a larger size, and marks the object, also when the volume is full.  `NewOK` says that a new chain is
for an object or a directory that has none, so that taking it leaves no older one behind.

`ReachInv` carries `ChainsReach`.  While no power was lost over an `Exposed` entry, each entry and each object has a chain of its size
(`EntriesReach`, `ObjectsReach`) and each object without an error its current cluster before its pointer (`Placed`);
what has no first cluster has no size (`Bare`).  Exempt are the object `f_truncate` is at work on, which
is longer than its chain while the call frees clusters, and until `f_sync` the entry it leaves (`Settled`).  `AtChain` says where a call is:
what `create_chain` follows, and what it returns, continues the object's chain, and `remove_chain` cuts at the current cluster.
That such a step changes no other chain is `Apart`: chains of owned clusters never meet, and none comes back to itself, so a link
that is cut (`CutKept`), freed (`FreeKept`) or added at an end (`MoreKept`) is in no part of a chain that a size speaks of.
`Nth` is a recursive function; `NthIs` says what one step along it does, and each fact about all places
of a chain is proved at the least place at which it could fail (`MinIn`).

**FatFile.**  `IInv` is `TypeInv`, `SpaceInv`, `SizeInv`, `PlaceInv`, `CallInv`, `FaultInv`, `DirtyInv`, `StoredInv`,
`CleanInv` and `OthersKept`.  `SyncedStays` and `OthersKept` are about the medium alone; that they survive a buffer
written late depends on where the buffer belongs: `PlaceInv` says that, unless a call failed, the current cluster is
that of the byte before the position and the buffer has the sector of the position inside a sector; `DirtyInv` that a
dirty buffer is of a sector of the file (until `f_truncate` fails: `hurt`); `StoredInv` that a dirty buffer has the stored bytes of its
sector too, and `CleanInv` that a clean one agrees with the medium, which is what lets `f_write` reuse it.
`SpaceInv` (a cluster is in the chain once, and then nobody else's) makes sectors of different bytes different
(`Moves`, `SameSector`).  The arithmetic of bytes, sectors and clusters for any `SS` and `CSIZE` is in `DivUnique`,
`ClusterOf`, `Advance`, `BytesOfSectors` and `BytesOfPart`.

`BytesImplemented`: `FatFile` implements `ByteFile`.  `File` is the abstract sequence, byte `p` of it `At(p)`.  Each
action has a lemma (`WriteDirectBytes`, `ReadPartBytes`, `CutBytes`, ...) that says which bytes change: none (`Untouched`, with
`MoveIs`, `FailIs`, `StillIs`), those at the position (`FilePatched`), or those after it.  `MarkedInv` adds that a dirty buffer of a
sound file is marked as modified between calls, so that `f_close` loses nothing.

**LongNames.**  `RenamedStays` is about the disk, which lags behind the table by the window.  `Inv` ties the two
together: `WindowOK` says that the disk with the window's changes is the table; `Ready` and `Ordered` that a cluster is linked
and cleared only through a window that has been stored, so that the zeros of `dir_next` meet no entry; `OneSfn` that a call
writes one short name; `Awaited` that the file of the entry still to be written is new to table and disk, or keeps its
old entry until then.  That holds because `dir_register` puts the new entries into unused ones (`dir_alloc`), or behind all entries of
the table when it has to stretch it, and `f_rename` removes the old ones after.  Then no single
write, and no loss of the window, takes a file off the disk.  A `table` with no entry
at all does not occur: a directory has one sector at least.

`ListedIsFound` is proved for names whose sums collide, too, which `LongNames_dir` has not.  Two comparisons have to agree: `dir_find`
goes by a short name, or by parts whose sum is that of the entry behind them, `dir_read` by the parts it has collected.  By itself the
property is not inductive, since a power loss puts the disk in the place of the table, and parts of one name stay before
the entry of another.  `Listing` says of table and disk alike (`Sound`) that a long name which could be short is that
of its own entry (`Own`), that no name outside `taken` leads to two files (`Apart`), that behind a free entry nothing is but old
contents of a new cluster (`Packed`), and that the directory is made of whole clusters (`Clusters`); of what a call has yet to do, that
the clusters it links lie behind the entries in use and are cleared before it writes there (`Stretching`), that the parts
of a name come in order, right before their short name, into unused entries with no free one before them (`Placed`), and that the names it is going to write
lead to no other file (`Promised`); and that the disk holds old contents only where they are about to be
cleared, or are in the window (`Leftover`).

`NamesImplemented`: `LongNames` implements `NameSpace`, for any names, sums, sizes and number of faults, in every behaviour
that stays within `NotBare` (the hypothesis `[] ~ bare`); `NamesUntilBare` says the same of each step up to the one
that leaves a cluster uncleared.  `NameSpace` sees a call at its return
only, so the invariant `Naming` has to say in every state of the call, and after each loss of the window, what the table will be: for some
file `f` and some table `F` (`Calling`), the table leads where `names` does but for names of `f`, also by its first entries, which are those
that `dir_find` returns (`Onward`); what is still to be deleted is one entry of `f` with the parts before it (`Removes`), what
is still to be written is of `f` (`Gives`), and both together turn the table into `F` (`Results`), in which `f` has the
name that was asked for, or none (`Purpose`).  Until the first failure, every part in `F` belongs to the entry behind it and
no file has two entries (`Clean`), which gives that a call leaves no name too many; and the disk has no name that the
table has not, except while a call is under way that ends with `sync_fs` (`Behindhand`), which gives that the first power loss makes no name
pass from one file to another.  Then a step of a call, its return and its being cut short are steps of `NameSpace` (`Seems`).

**SdCard.**  `InitOrder` ties each step of `initCard` to what the card must have
answered for the driver to be there, so that where `sdType` is settled the card in
the slot is of that kind, and where it becomes ready the command was one that makes this
kind ready (a card addressed by blocks never is without the HCS bit).  `PageInRequest`
keeps the page of a transfer within the request.  A card that is put in during
a call is in its native mode until CMD0 is sent to it: hence what `InitOrder` says holds
also of an exchanged card once it is out of that mode.

The second part of `SdCardProofs` shows that the driver implements `BlockStore`.  The mapping takes the block
that is being programmed as stored.  `TypeKept` says that a card which is ready
outside `initCard` is the one `initCard` found, so that the address in `CMD17` or `CMD24` names one block
(`TargetIsBlock`); `DataReady` that no block is being programmed while the next one is sent.
Steps of `initCard`, commands and the end of programming are stutters (`InitStepKnown`,
`PageStepRefined`, `CardStepRefined`); a page is a `ReadBlock` or a `WriteBlock`, a failure `Fail`.

**Explorer.**  `WindowOwn`: a window that is not empty holds a sector of a directory of the card it
names, and of the one mounted while a mount lasts, because the mount reads the boot sector; `SlotOwn`: while `ready`
the card in the slot is the one mounted; `EntersSame`: between `f_opendir` and `f_chdir`
the name leads to the directory opened; `FollowsMount`: the browser's flag and the driver's.

**TextEditor.**  `EditorTypes`: `SearchTypes`, `NextLineTypes` and `PreviousLineTypes` say that a line key which does not start
at the end of a full buffer, nor at a newline on position 1, leads to a place in the buffer or its end.  The lemmas about `SavedEnd`, `Written`, `Loaded` and the two shifts say that
they stay inside buffer and file for any length of chunk; `NoOtherEdited` and `UnmarkedIsOnDisk`
are then one case for each failing call of `changeFile`.  `ChangeStoresTheText` is about what the save
puts on the disk: `SavedEndCovers` says that the end which the search finds is not before the text's,
unless only the first character of its last chunk is used, `ImageIsText` that what `strnlen` leaves of the chunks up to there is the
text, and `LoadedText` that a file which needs no save is what its buffer holds.  `CHUNK` (16 in the code) is
assumed to be more than 1: the search passes over the first character of a chunk.

**Keyboard.**  `ReportInv` says for each step of the poll which arrows have been reported.  `Agree` relates
each `tik` to the counts its timer has left, as long as it is not in doubt: `LeftAgrees` keeps it over a count,
`ArmedAgrees` over an arming read, `StoppedAgrees` when a timer is stopped.  `ReadExact` says that a
read without a carry is the count before or after it, from which `TickInv` has that the comparison is
right.  `Range`, `Units` and the delays are any numbers.

*Only model-checked.*  Liveness (`CallsReturn`, `GoneIsNoticed`, `InsertedIsMounted`, `KeysReturn`,
`HeldIsRepeated`), which the prover does not reach.

## Not modelled

More than half of the repository's lines are the code page tables, data without
control, and much of the rest is drawing, arithmetic and register access; the
modules cover the parts that keep state over calls and can get it wrong.

- In `ff.c`: parsing of paths, `f_mkfs`, `f_fdisk`, volume labels, `f_chmod` and `f_utime`, `f_gets`,
  `f_puts` and `f_printf`, `f_expand`, `f_forward`, exFAT, FAT12, the second copy of the FAT, and `_USE_TRIM`.
  The directory of `FatVolume` is one sector; a directory that grows is in `LongNames`.
- Counters at their limits: the 256th reader of an object and the 65536th mount,
  which the bounds of `FileLock` name and leave out.
- In the editor: keys that change the text while the cursor is at the end of a full buffer or outside.
- In the SD card driver: the geometry from the CSD, the CRC, which the driver discards, and the commands for several
  blocks, which no caller reaches.
- `ff_util.c` prints what FatFs returns; `syncobj.c` and `fattime.c` are skeletons.
- Buses, serial flash and MP3 decoder: command sequences whose effect depends on
  chips the repository does not describe; their waits have no time-out.
- Displays and graphics: output only.  Cryptography and conversions: pure functions
  that test vectors settle.  Elliptic curves: vendored.  FFT and 3D geometry: floating
  point.

## Plan

What a next step would add, the most useful first.

1. A run of `LongNames` with names whose sums collide.
2. `TwiMaster` and `Flash25`, with the controller and the chip as external actions.
