------------------------------- MODULE Explorer -------------------------------
(***************************************************************************)
(* The file browser (gui.c) over the card slot: mmc_sd_spi_idle polls the  *)
(* detect pin, initialises and mounts, gui_idle follows its flag and moves *)
(* through the directories with FatFs.  One thread runs both in turn, but  *)
(* a card comes and goes between any two steps of it, and FatFs goes on    *)
(* serving what its window win[] still holds.                              *)
(*                                                                         *)
(* Left out: path_cnt, path_sel_cnt and file_checked, which only decide    *)
(* whether a line is drawn with an asterisk; the hooks but one.            *)
(***************************************************************************)
EXTENDS Naturals, Sequences, FiniteSets

CONSTANTS
  Card,     \* the cards, all formatted
  NoCard,   \* an empty slot
  Dir,      \* directories
  Root,     \* the root directory
  NoDir,    \* where a file leads; an invalid directory object
  Name,     \* names of directory entries
  Up,       \* the name ".."
  NoName,   \* the empty string
  Table(_, _), \* the entries of a directory of a card
  Full(_, _),  \* whether the table has no room left, and so no end mark
  PerSect,  \* entries in a sector
  Lines,    \* lines of the display, disp_dn_limit + 1 - disp_up_limit
  NLock     \* _FS_LOCK, size of Files[]

Kind == {"dir", "app", "doc", "dot"} \* "app" passes the filter, "doc" does not
Entry == [name : Name \cup {Up}, kind : Kind, to : Dir \cup {NoDir}]

ASSUME CardAssumption == NoCard \notin Card
ASSUME DirAssumption == Root \in Dir /\ NoDir \notin Dir
ASSUME NameAssumption == Up \notin Name /\ NoName \notin Name \cup {Up}
ASSUME TableAssumption ==
  \A c \in Card, d \in Dir : Table(c, d) \in Seq(Entry) /\ Full(c, d) \in BOOLEAN
ASSUME SizeAssumption ==
  PerSect \in Nat \ {0} /\ Lines \in Nat \ {0} /\ NLock \in Nat

VARIABLES
  slot,   \* the card in the slot
  ready,  \* whether it was initialised since it was put in
  sd,     \* mmc_sd_t: initFlg, fs_mounted
  fs,     \* FATFS: registered, mounted, card it was found on, current directory,
          \* sector in the window, directories with an entry in Files[]
  dirObject, \* the directory the browser reads, or NoDir
  gui,    \* gui.c: fs_mounted, menu_pos, menu_sel, items_scanned, res, the
          \* name in nameBuff and whether fattrib calls it a directory
  view,   \* what the display shows: a list of whose card, the marked name
  pc      \* next step of the thread

vars == <<slot, ready, sd, fs, dirObject, gui, view, pc>>

----------------------------------------------------------------------------
(* The window, and reading a directory through it.                         *)

Boot == [card |-> NoCard, dir |-> NoDir, n |-> 0] \* any sector of no directory
Sector(i) == (i - 1) \div PerSect

\* Reading entry i of directory d after those before it: possible while the
\* card answers, or as long as it lies in the sector the window holds.
InWindow(w, d, i) == w.dir = d /\ w.n = 0 /\ Sector(i) = 0
CanRead(w, d, i)  == ready \/ InWindow(w, d, i)

\* Whose entries are read: those in the window, without asking the card.
Source(w, d)  == IF InWindow(w, d, 1) THEN w.card ELSE slot
Entries(c, d) == IF c = NoCard THEN <<>> ELSE Table(c, d)

\* The window after reading up to entry i, the end mark included.
Moved(w, d, i) ==
  IF CanRead(w, d, i)
  THEN IF Sector(i) = 0 /\ InWindow(w, d, 1) THEN w
       ELSE [card |-> slot, dir |-> d, n |-> Sector(i)]
  ELSE Boot

----------------------------------------------------------------------------
(* FatFs.                                                                  *)

\* find_volume: a volume once mounted is good until the next f_mount, since
\* disk_status cannot tell; any other is looked for on the card in the slot.
MountedKeepsWindow(f) ==
  [f EXCEPT !.type = TRUE, !.card = slot, !.cwd = Root, !.held = {}]
Mounted(f) == [f EXCEPT !.type = TRUE, !.card = slot, !.cwd = Root,
                        !.win = Boot, !.held = {}]
find_volume(f) ==
  IF f.type \/ ~f.reg THEN f
  ELSE IF ready THEN Mounted(f)
  ELSE IF slot = NoCard THEN f ELSE [f EXCEPT !.win = Boot]

\* dir_find through follow_path, for one name in the current directory: the
\* directory found, whether reading succeeded, and the window afterwards.
follow_path(f, name) ==
  LET d     == f.cwd
      t     == Entries(Source(f.win, d), d)
      Hits  == {i \in DOMAIN t : t[i].name = name}
      last  == IF Hits = {} THEN Len(t) + 1 ELSE CHOOSE i \in Hits : TRUE
      able  == CanRead(f.win, d, 1) /\ CanRead(f.win, d, last)
  IN  [to  |-> IF ~able THEN NoDir
               ELSE IF Hits # {} THEN t[last].to
               ELSE IF name = Up THEN d ELSE NoDir, \* no dot entry: stay there
       win |-> Moved(f.win, d, IF CanRead(f.win, d, 1) THEN last ELSE 1)]

\* f_opendir: every directory but the root takes an entry of Files[].
f_opendir(name) ==
  LET f == find_volume(fs)
      p == follow_path(f, name)
      Held == f.held \cup ({p.to} \ {Root, NoDir})
  IN  IF ~f.type THEN [fs |-> f, obj |-> NoDir]
      ELSE IF Cardinality(Held) > NLock THEN [fs |-> [f EXCEPT !.win = p.win], obj |-> NoDir]
      ELSE [fs |-> [f EXCEPT !.win = p.win, !.held = Held], obj |-> p.to]

f_chdir_unchecked(name) ==
  LET f == find_volume(fs)
      p == follow_path(f, name)
  IN  IF ~f.type THEN f ELSE [f EXCEPT !.win = p.win, !.cwd = p.to]

f_chdir(name) ==
  LET f == find_volume(fs)
      p == follow_path(f, name)
  IN  IF ~f.type THEN f
      ELSE [f EXCEPT !.win = p.win, !.cwd = IF p.to = NoDir THEN f.cwd ELSE p.to]

----------------------------------------------------------------------------
(* The card and its detection, mmc_sd_spi_idle.                            *)

Insert(c) ==
  /\ slot = NoCard
  /\ slot' = c
  /\ UNCHANGED <<ready, sd, fs, dirObject, gui, view, pc>>

Remove ==
  /\ slot # NoCard
  /\ slot' = NoCard
  /\ ready' = FALSE
  /\ UNCHANGED <<sd, fs, dirObject, gui, view, pc>>

poll_connected ==
  /\ pc = "sd" /\ slot # NoCard
  /\ sd' = [sd EXCEPT !.initFlg = FALSE]
  /\ pc' = IF sd.initFlg THEN "init" ELSE "gui"
  /\ UNCHANGED <<slot, ready, fs, dirObject, gui, view>>

poll_absent_keeps ==
  /\ pc = "sd" /\ slot = NoCard
  /\ sd' = [sd EXCEPT !.initFlg = TRUE]
  /\ pc' = "gui"
  /\ UNCHANGED <<slot, ready, fs, dirObject, gui, view>>

poll_absent ==
  /\ pc = "sd" /\ slot = NoCard
  /\ sd' = IF sd.initFlg THEN sd ELSE [initFlg |-> TRUE, fs_mounted |-> FALSE]
  /\ pc' = "gui"
  /\ UNCHANGED <<slot, ready, fs, dirObject, gui, view>>

\* The two calls of initCard: only the second one's result counts.  A card
\* may fail it, and is not tried again before the slot was seen empty.
initCard ==
  /\ pc = "init"
  /\ ready' \in {FALSE, slot # NoCard}
  /\ pc' = IF ready' THEN "mount" ELSE "gui"
  /\ UNCHANGED <<slot, sd, fs, dirObject, gui, view>>

f_mount_delayed ==
  /\ pc = "mount"
  /\ fs' = [fs EXCEPT !.reg = TRUE, !.type = FALSE, !.held = {}]
  /\ dirObject' = NoDir
  /\ pc' = "gui"
  /\ UNCHANGED <<slot, ready, sd, gui, view>>

\* f_mount clears the locks and mounts anew; the root it then opens takes no
\* lock.  Objects of the earlier mount are invalid from here on.
f_mount ==
  /\ pc = "mount"
  /\ fs' = find_volume([fs EXCEPT !.reg = TRUE, !.type = FALSE, !.held = {}])
  /\ dirObject' = NoDir
  /\ sd' = [sd EXCEPT !.fs_mounted = fs'.type \/ sd.fs_mounted]
  /\ pc' = "gui"
  /\ UNCHANGED <<slot, ready, gui, view>>

----------------------------------------------------------------------------
(* gui_paint.                                                              *)

Blank == [mode |-> "status", card |-> NoCard, mark |-> NoName]

\* The lines from menu_pos on.  The scan ends when an entry follows the last
\* line of the display, whether or not the filter would show it, or when
\* f_readdir does not say FR_OK, as it does for the last entry of a full table.
List(d, g) ==
  LET w   == fs.win
      src == Source(w, d)
      t   == Entries(src, d)
      able(i) == CanRead(w, d, 1) /\ CanRead(w, d, i)
      Got   == {i \in DOMAIN t : /\ able(i) /\ t[i].kind # "dot"
                                 /\ i = Len(t) => ~Full(src, d)}
      Shown == {i \in Got : t[i].kind # "doc"}
      Above(i) == Cardinality({j \in Shown : j < i})
      bottom == g.menu_pos + Lines
      Below  == {i \in Got : Above(i) >= bottom}
      scan   == IF Cardinality(Shown) > bottom THEN bottom ELSE Cardinality(Shown)
      Mark   == {i \in Shown : Above(i) = g.menu_sel /\ g.menu_sel \in g.menu_pos .. bottom - 1}
      last   == IF Below = {} THEN Len(t) + 1 ELSE CHOOSE i \in Below : \A j \in Below : i <= j
  IN  [items |-> scan + IF Below = {} THEN 0 ELSE 1,
       more  |-> Below # {},
       card  |-> IF Shown = {} THEN NoCard ELSE src,
       mark  |-> IF Mark = {} THEN NoName ELSE t[CHOOSE i \in Mark : TRUE].name,
       isdir |-> \E i \in Mark : t[i].kind = "dir",
       win   |-> IF Below = {} /\ src # NoCard /\ Full(src, d) THEN Boot \* dir_next asks the FAT
                 ELSE Moved(w, d, IF able(1) THEN last ELSE 1)]

gui_paint(g) ==
  IF g.fs_mounted /\ dirObject # NoDir /\ fs.type
  THEN LET l == List(dirObject, g) IN
       /\ gui' = [g EXCEPT !.items_scanned = l.items, !.res = l.more,
                    !.name = IF l.mark = NoName THEN @ ELSE l.mark,
                    !.isdir = IF l.mark = NoName THEN @ ELSE l.isdir]
       /\ view' = [mode |-> "list", card |-> l.card, mark |-> l.mark]
       /\ fs' = [fs EXCEPT !.win = l.win]
  ELSE /\ gui' = [g EXCEPT !.menu_pos = 0, !.menu_sel = 0]
       /\ view' = Blank
       /\ UNCHANGED fs

----------------------------------------------------------------------------
(* gui_idle.                                                               *)

\* Following the flag.  On a mount the application opens the root directory.
gui_follow ==
  /\ pc = "gui"
  /\ gui' = [gui EXCEPT !.fs_mounted = sd.fs_mounted]
  /\ IF sd.fs_mounted /\ ~gui.fs_mounted
     THEN dirObject' = (IF fs.type THEN Root ELSE NoDir) /\ pc' = "shown"
     ELSE UNCHANGED dirObject /\ pc' = "key"
  /\ UNCHANGED <<slot, ready, sd, fs, view>>

\* The hook paints what it opened.
hook_paint ==
  /\ pc = "shown"
  /\ gui_paint(gui)
  /\ pc' = "key"
  /\ UNCHANGED <<slot, ready, sd, dirObject>>

no_key ==
  /\ pc = "key"
  /\ pc' = "sd"
  /\ UNCHANGED <<slot, ready, sd, fs, dirObject, gui, view>>

Repaint(g) ==
  /\ pc = "key"
  /\ gui_paint(g)
  /\ pc' = "sd"
  /\ UNCHANGED <<slot, ready, sd, dirObject>>

key_up_loose ==
  Repaint([gui EXCEPT !.menu_sel = IF @ > 0 THEN @ - 1 ELSE 0])

key_up ==
  LET sel == IF gui.menu_sel > 0 THEN gui.menu_sel - 1 ELSE 0 IN
  Repaint([gui EXCEPT !.menu_sel = sel,
                      !.menu_pos = IF sel < @ THEN sel ELSE @])

\* items_scanned - 1 is 65535 for an empty list, as int has 16 bits.
key_down ==
  LET bottom == gui.menu_pos + Lines
      sel == IF gui.menu_sel < bottom /\ gui.menu_sel < (gui.items_scanned + 65535) % 65536
             THEN gui.menu_sel + 1 ELSE gui.menu_sel
  IN  Repaint([gui EXCEPT !.menu_sel = sel,
                          !.menu_pos = IF sel >= bottom /\ gui.res THEN @ + 1 ELSE @])

\* A on a file selects it and only repaints.
key_select == ~gui.isdir /\ Repaint(gui)

\* A on a directory: nothing more happens when f_opendir refuses.
key_enter ==
  /\ pc = "key" /\ gui.isdir
  /\ LET o == f_opendir(gui.name) IN
     /\ fs' = o.fs
     /\ dirObject' = o.obj
     /\ pc' = IF o.obj = NoDir THEN "sd" ELSE "chdir"
  /\ UNCHANGED <<slot, ready, sd, gui, view>>

\* B goes to the parent, whatever the two calls return.
key_back ==
  /\ pc = "key"
  /\ LET o == f_opendir(Up) IN fs' = o.fs /\ dirObject' = o.obj
  /\ pc' = "chdirUp"
  /\ UNCHANGED <<slot, ready, sd, gui, view>>

change_dir_enters ==
  /\ pc \in {"chdir", "chdirUp"}
  /\ fs' = IF pc = "chdir" THEN f_chdir(gui.name) ELSE fs
  /\ gui' = [gui EXCEPT !.menu_pos = 0, !.menu_sel = 0]
  /\ pc' = "paint"
  /\ UNCHANGED <<slot, ready, sd, dirObject, view>>

change_dir ==
  /\ pc \in {"chdir", "chdirUp"}
  /\ fs' = f_chdir(IF pc = "chdir" THEN gui.name ELSE Up)
  /\ gui' = [gui EXCEPT !.menu_pos = 0, !.menu_sel = 0]
  /\ pc' = "paint"
  /\ UNCHANGED <<slot, ready, sd, dirObject, view>>

entered_paint ==
  /\ pc = "paint"
  /\ gui_paint(gui)
  /\ pc' = "sd"
  /\ UNCHANGED <<slot, ready, sd, dirObject>>

----------------------------------------------------------------------------
Init ==
  /\ slot \in Card \cup {NoCard}
  /\ ready = FALSE
  /\ sd = [initFlg |-> TRUE, fs_mounted |-> FALSE]
  /\ fs = [reg |-> FALSE, type |-> FALSE, card |-> NoCard, cwd |-> Root,
           win |-> Boot, held |-> {}]
  /\ dirObject = NoDir
  /\ gui = [fs_mounted |-> FALSE, menu_pos |-> 0, menu_sel |-> 0,
            items_scanned |-> 0, res |-> TRUE, name |-> NoName, isdir |-> FALSE]
  /\ view = Blank
  /\ pc = "sd"

SlotStep == Remove \/ \E c \in Card : Insert(c)
SdStep   == poll_connected \/ poll_absent \/ initCard \/ f_mount
KeyStep  == no_key \/ key_up \/ key_down \/ key_select \/ key_enter \/ key_back
GuiStep  == gui_follow \/ hook_paint \/ KeyStep \/ change_dir \/ entered_paint

Next == SlotStep \/ SdStep \/ GuiStep

Spec == Init /\ [][Next]_vars

\* The application's loop calls both idle functions for ever; cards and keys
\* owe it nothing.
FairSpec == Spec /\ WF_vars(SdStep \/ GuiStep)

----------------------------------------------------------------------------
(* Properties.                                                             *)

Sect == [card : Card \cup {NoCard}, dir : Dir \cup {NoDir}, n : Nat]

\* Every variable keeps its type.
TypeOK ==
  /\ slot \in Card \cup {NoCard} /\ ready \in BOOLEAN
  /\ sd \in [initFlg : BOOLEAN, fs_mounted : BOOLEAN]
  /\ fs \in [reg : BOOLEAN, type : BOOLEAN, card : Card \cup {NoCard},
             cwd : Dir, win : Sect, held : SUBSET Dir]
  /\ dirObject \in Dir \cup {NoDir}
  /\ gui \in [fs_mounted : BOOLEAN, menu_pos : Nat, menu_sel : Nat,
              items_scanned : Nat, res : BOOLEAN,
              name : Name \cup {NoName, Up}, isdir : BOOLEAN]
  /\ view \in [mode : {"status", "list"}, card : Card \cup {NoCard},
               mark : Name \cup {NoName, Up}]
  /\ pc \in {"sd", "init", "mount", "gui", "shown", "key", "chdir", "chdirUp", "paint"}

\* The selection never leaves the display by more than the line below it,
\* whatever keys, directories and cards come in between.
SelectionInWindow ==
  gui.menu_sel \in gui.menu_pos .. gui.menu_pos + Lines

\* The directory that is listed and the current directory, in which the next
\* name is looked up, are set by two calls.  They differ only when the card
\* that answered the first is gone: no card that answers is browsed that way.
ListIsCurrent ==
  ready /\ fs.type /\ dirObject # NoDir /\ pc \notin {"init", "mount", "chdir", "chdirUp"}
    => dirObject = fs.cwd

\* A list is one card's, the one that was mounted: nothing the window kept of
\* an earlier card is listed, however fast cards are exchanged.
ListsMountedCard ==
  [][(pc \in {"shown", "key", "paint"} /\ view'.mode = "list" /\ view' # view)
       => view'.card \in {fs.card, NoCard}]_vars

\* A card that is taken out and stays out is soon no longer browsed.
GoneIsNoticed ==
  slot = NoCard ~> slot # NoCard \/ ~gui.fs_mounted

\* Once an empty slot was noticed, a card that is put in and stays is mounted
\* and browsed, unless its one initialization failed.
InitFailed == pc = "gui" /\ ~sd.initFlg /\ ~ready
InsertedIsMounted ==
  \A c \in Card :
    (sd.initFlg /\ slot = c) ~> (gui.fs_mounted \/ slot # c \/ InitFailed)

\* gui.c says that A opens the selected item, which is the one marked in the
\* list on the display.
EntersMarked ==
  [][(pc = "key" /\ pc' = "chdir" /\ ready /\ view.mode = "list")
       => gui.name = view.mark]_vars

=============================================================================
