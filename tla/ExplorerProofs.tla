---------------------------- MODULE ExplorerProofs ----------------------------
(***************************************************************************)
(* Proofs about module Explorer, for any cards, any directories on them,   *)
(* any size of a sector and of the display.                                *)
(***************************************************************************)
EXTENDS Explorer, FiniteSetTheorems, WellFoundedInduction, TLAPS

SomeCard == Card \cup {NoCard}
Mark     == Name \cup {NoName, Up}
Volume   == [reg : BOOLEAN, type : BOOLEAN, card : SomeCard, cwd : Dir,
             win : Sect, held : SUBSET Dir]
Browser  == [fs_mounted : BOOLEAN, menu_pos : Nat, menu_sel : Nat,
             items_scanned : Nat, res : BOOLEAN, name : Mark, isdir : BOOLEAN]
Display  == [mode : {"status", "list"}, card : SomeCard, mark : Mark]

----------------------------------------------------------------------------
(* The invariant.                                                          *)

\* Where a name leads in a directory of a card.
Leads(c, d, name) ==
  LET t    == Entries(c, d)
      Hits == {i \in DOMAIN t : t[i].name = name}
  IN  IF Hits # {} THEN t[CHOOSE i \in Hits : TRUE].to
      ELSE IF name = Up THEN d ELSE NoDir

\* A mounted volume's window holds nothing of another card.
WindowOwn(f) == f.type /\ f.win.dir # NoDir => f.win.card = f.card

\* The card that answers is the one the volume was mounted from.
SlotOwn(f) == ready /\ f.type => slot = f.card

\* Between f_opendir and f_chdir the directory opened is the one the name
\* leads to.
EntersSame ==
  /\ ready /\ dirObject # NoDir /\ pc = "chdir" => dirObject = Leads(fs.card, fs.cwd, gui.name)
  /\ ready /\ dirObject # NoDir /\ pc = "chdirUp" => dirObject = Leads(fs.card, fs.cwd, Up)

\* gui.fs_mounted is behind sd.fs_mounted only right after a mount.
FollowsMount ==
  sd.fs_mounted /\ ~gui.fs_mounted => pc = "gui" /\ (fs.type => fs.cwd = Root)

Inv ==
  /\ TypeOK
  /\ SelectionInWindow
  /\ ready => slot # NoCard
  /\ WindowOwn(fs)
  /\ pc # "mount" => SlotOwn(fs)
  /\ dirObject # NoDir => fs.type
  /\ FollowsMount
  /\ EntersSame
  /\ ListIsCurrent

LEMMA Types ==
  TypeOK <=> /\ slot \in SomeCard /\ ready \in BOOLEAN
             /\ sd \in [initFlg : BOOLEAN, fs_mounted : BOOLEAN]
             /\ fs \in Volume
             /\ dirObject \in Dir \cup {NoDir}
             /\ gui \in Browser
             /\ view \in Display
             /\ pc \in {"sd", "init", "mount", "gui", "shown", "key", "chdir", "chdirUp", "paint"}
BY DEF TypeOK, SomeCard, Mark, Volume, Browser, Display

----------------------------------------------------------------------------
(* Reading through the window.                                             *)

LEMMA FirstSector == Sector(1) = 0
BY SizeAssumption DEF Sector

LEMMA SectorType == \A i \in Nat \ {0} : Sector(i) \in Nat
BY SizeAssumption DEF Sector

LEMMA BootType == Boot \in Sect /\ Boot.dir = NoDir
BY DEF Boot, Sect, SomeCard

\* The window, and the slot if its card answers, hold card c and no other.
Only(w, c) == (w.dir # NoDir => w.card = c) /\ (ready => slot = c)

\* What is read of a directory is the mounted card's.
LEMMA SourceOwn ==
  ASSUME NEW w, NEW d, NEW c, d # NoDir, Only(w, c), CanRead(w, d, 1)
  PROVE  Source(w, d) = c
BY FirstSector DEF CanRead, InWindow, Source, Only

\* The window after reading belongs to the same card.
LEMMA MovedOwn ==
  ASSUME NEW w \in Sect, NEW d \in Dir, NEW c, NEW i \in Nat \ {0}, slot \in SomeCard
  PROVE  /\ Moved(w, d, i) \in Sect
         /\ Only(w, c) => Only(Moved(w, d, i), c)
<1>1. Sector(i) \in Nat
  BY SectorType
<1>2. CASE ~CanRead(w, d, i)
  BY <1>2, BootType DEF Moved, Only
<1>3. CASE CanRead(w, d, i) /\ Sector(i) = 0 /\ InWindow(w, d, 1)
  BY <1>3 DEF Moved
<1>4. CASE CanRead(w, d, i) /\ ~(Sector(i) = 0 /\ InWindow(w, d, 1))
  <2>1. Moved(w, d, i) = [card |-> slot, dir |-> d, n |-> Sector(i)]
    BY <1>4 DEF Moved
  <2>2. ready
    BY <1>4, FirstSector DEF CanRead, InWindow
  <2> QED
    BY <1>1, <2>1, <2>2 DEF Sect, SomeCard, Only
<1> QED
  BY <1>2, <1>3, <1>4

LEMMA EntriesType ==
  ASSUME NEW c \in SomeCard, NEW d \in Dir
  PROVE  Entries(c, d) \in Seq(Entry)
BY TableAssumption, CardAssumption DEF Entries, SomeCard

LEMMA SourceType ==
  ASSUME NEW w \in Sect, NEW d, slot \in SomeCard
  PROVE  Source(w, d) \in SomeCard
BY DEF Source, Sect, SomeCard

\* dir_find: while the card answers, it finds what the table says.
LEMMA PathFound ==
  ASSUME NEW f \in Volume, NEW name, slot \in SomeCard, WindowOwn(f), SlotOwn(f), f.type
  PROVE  LET p == follow_path(f, name) IN
         /\ p.to \in Dir \cup {NoDir} /\ p.win \in Sect
         /\ p.win.dir # NoDir => p.win.card = f.card
         /\ p.to # NoDir => p.to = Leads(f.card, f.cwd, name)
         /\ ready => p.to = Leads(f.card, f.cwd, name)
<1> DEFINE d     == f.cwd
           t     == Entries(Source(f.win, d), d)
           Hits  == {i \in DOMAIN t : t[i].name = name}
           last  == IF Hits = {} THEN Len(t) + 1 ELSE CHOOSE i \in Hits : TRUE
           able  == CanRead(f.win, d, 1) /\ CanRead(f.win, d, last)
           to    == IF ~able THEN NoDir
                    ELSE IF Hits # {} THEN t[last].to
                    ELSE IF name = Up THEN d ELSE NoDir
           at    == IF CanRead(f.win, d, 1) THEN last ELSE 1
           p     == follow_path(f, name)
<1>1. p = [to |-> to, win |-> Moved(f.win, d, at)]
  BY Zenon DEF follow_path
<1>2. d \in Dir /\ f.win \in Sect /\ d # NoDir
  BY DirAssumption DEF Volume
<1>3. t \in Seq(Entry)
  BY <1>2, SourceType, EntriesType
<1> HIDE DEF d, t, p
<1>4. DOMAIN t = 1 .. Len(t) /\ Len(t) \in Nat
  BY <1>3
<1>5. last \in Nat \ {0} /\ (Hits # {} => last \in DOMAIN t)
  <2>1. Hits # {} => (CHOOSE i \in Hits : TRUE) \in Hits
    BY Zenon
  <2>2. Hits \subseteq DOMAIN t
    OBVIOUS
  <2>3. CASE Hits = {}
    BY <1>4, <2>3
  <2>4. CASE Hits # {}
    <3>1. last \in Hits
      BY <2>1, <2>4, Zenon
    <3> HIDE DEF last, Hits
    <3> QED
      BY <1>4, <2>2, <3>1
  <2> QED
    BY <2>3, <2>4
<1>6. to \in Dir \cup {NoDir}
  <2> HIDE DEF Hits, last, able
  <2>1. Hits # {} => t[last] \in Entry
    BY <1>3, <1>4, <1>5
  <2>2. \A e \in Entry : e.to \in Dir \cup {NoDir}
    BY DEF Entry
  <2> QED
    BY <1>2, <2>1, <2>2
<1> HIDE DEF Hits, last
<1>7. at \in Nat \ {0}
  BY <1>5
<1>8. Only(f.win, f.card)
  BY DEF WindowOwn, SlotOwn, Only
<1>9. /\ Moved(f.win, d, at) \in Sect
      /\ Only(Moved(f.win, d, at), f.card)
  <2> HIDE DEF at
  <2> QED
    BY <1>2, <1>7, <1>8, MovedOwn
<1>10. able => to = Leads(f.card, d, name)
  <2>1. able => t = Entries(f.card, d)
    <3>1. CanRead(f.win, d, 1) => Source(f.win, d) = f.card
      BY <1>2, <1>8, SourceOwn
    <3> QED
      BY <3>1 DEF t
  <2>2. Leads(f.card, d, name) =
          LET u == Entries(f.card, d)
              H == {i \in DOMAIN u : u[i].name = name}
          IN  IF H # {} THEN u[CHOOSE i \in H : TRUE].to
              ELSE IF name = Up THEN d ELSE NoDir
    BY Zenon DEF Leads
  <2> QED
    BY <2>1, <2>2 DEF last, Hits
<1>11. ready => able
  BY DEF CanRead
<1>12. to # NoDir => able
  OBVIOUS
<1> HIDE DEF to, at, able
<1>13. p.to = to /\ p.win = Moved(f.win, d, at)
  BY <1>1
<1> QED
  BY <1>6, <1>9, <1>10, <1>11, <1>12, <1>13 DEF p, d, Only

\* find_volume leaves a volume that is mounted alone, and mounts another only
\* from the card that answers.
LEMMA FindVolume ==
  ASSUME NEW f \in Volume, slot \in SomeCard, WindowOwn(f), f.type => SlotOwn(f)
  PROVE  /\ find_volume(f) \in Volume
         /\ WindowOwn(find_volume(f)) /\ SlotOwn(find_volume(f))
         /\ f.type => find_volume(f) = f
         /\ find_volume(f).type /\ ~f.type => find_volume(f).cwd = Root
<1>1. Mounted(f) \in Volume
  BY BootType, DirAssumption DEF Mounted, Volume
<1>2. /\ Mounted(f).card = slot /\ Mounted(f).cwd = Root /\ Mounted(f).win = Boot
  BY DEF Mounted, Volume
<1>3. CASE f.type \/ ~f.reg
  <2>1. find_volume(f) = f
    BY <1>3 DEF find_volume
  <2> QED
    BY <1>3, <2>1 DEF SlotOwn
<1>4. CASE ~(f.type \/ ~f.reg) /\ ready
  <2>1. find_volume(f) = Mounted(f)
    BY <1>4 DEF find_volume
  <2> QED
    BY <1>1, <1>2, <1>4, <2>1, BootType DEF WindowOwn, SlotOwn
<1>5. CASE ~(f.type \/ ~f.reg) /\ ~ready
  <2>1. find_volume(f) = IF slot = NoCard THEN f ELSE [f EXCEPT !.win = Boot]
    BY <1>5 DEF find_volume
  <2>2. find_volume(f) \in Volume /\ find_volume(f).type = f.type
    BY <2>1, BootType DEF Volume
  <2> QED
    BY <1>5, <2>2 DEF WindowOwn, SlotOwn
<1> QED
  BY <1>3, <1>4, <1>5

\* f_opendir: an object it gives is in a mounted volume, and the directory
\* its name leads to.
LEMMA OpenDir ==
  ASSUME Inv, pc # "mount", NEW name
  PROVE  LET o == f_opendir(name) IN
         /\ o.fs \in Volume /\ WindowOwn(o.fs) /\ SlotOwn(o.fs)
         /\ o.obj \in Dir \cup {NoDir}
         /\ o.obj # NoDir => o.fs.type /\ o.obj = Leads(o.fs.card, o.fs.cwd, name)
         /\ fs.type => o.fs.cwd = fs.cwd /\ o.fs.type
         /\ o.fs.type /\ ~fs.type => o.fs.cwd = Root
<1> DEFINE f == find_volume(fs)
           p == follow_path(f, name)
           Held == f.held \cup ({p.to} \ {Root, NoDir})
           o == f_opendir(name)
<1>1. fs \in Volume /\ slot \in SomeCard /\ WindowOwn(fs) /\ SlotOwn(fs)
  BY Types DEF Inv
<1>2. /\ f \in Volume /\ WindowOwn(f) /\ SlotOwn(f)
      /\ fs.type => f = fs
      /\ f.type /\ ~fs.type => f.cwd = Root
  BY <1>1, FindVolume
<1>3. o = IF ~f.type THEN [fs |-> f, obj |-> NoDir]
          ELSE IF Cardinality(Held) > NLock THEN [fs |-> [f EXCEPT !.win = p.win], obj |-> NoDir]
          ELSE [fs |-> [f EXCEPT !.win = p.win, !.held = Held], obj |-> p.to]
  BY Zenon DEF f_opendir
<1> HIDE DEF f, o
<1>4. CASE ~f.type
  <2>1. o.fs = f /\ o.obj = NoDir
    BY <1>3, <1>4
  <2> QED
    BY <1>2, <1>4, <2>1 DEF o
<1>5. CASE f.type
  <2>1. /\ p.to \in Dir \cup {NoDir} /\ p.win \in Sect
        /\ p.win.dir # NoDir => p.win.card = f.card
        /\ p.to # NoDir => p.to = Leads(f.card, f.cwd, name)
    BY <1>1, <1>2, <1>5, PathFound
  <2>2. Held \in SUBSET Dir
    BY <1>2, <2>1 DEF Volume
  <2> HIDE DEF p, Held
  <2>3. /\ o.fs = [f EXCEPT !.win = p.win] \/ o.fs = [f EXCEPT !.win = p.win, !.held = Held]
        /\ o.obj \in {NoDir, p.to}
    BY <1>3, <1>5
  <2>4. /\ o.fs \in Volume /\ o.fs.win = p.win /\ o.fs.card = f.card /\ o.fs.cwd = f.cwd
        /\ o.fs.type = f.type
    BY <1>2, <2>1, <2>2, <2>3 DEF Volume
  <2>5. WindowOwn(o.fs) /\ SlotOwn(o.fs)
    BY <1>2, <2>1, <2>4 DEF WindowOwn, SlotOwn
  <2> QED
    BY <1>2, <1>5, <2>1, <2>3, <2>4, <2>5 DEF o
<1> QED
  BY <1>4, <1>5

LEMMA ChangeDir ==
  ASSUME Inv, pc # "mount", NEW name
  PROVE  LET f == f_chdir(name) IN
         /\ f \in Volume /\ WindowOwn(f) /\ SlotOwn(f)
         /\ fs.type => f.type
         /\ fs.type /\ ready =>
              LET to == Leads(fs.card, fs.cwd, name) IN f.cwd = IF to = NoDir THEN fs.cwd ELSE to
         /\ f.type /\ ~fs.type /\ dirObject # NoDir => FALSE
<1> DEFINE f == find_volume(fs)
           p == follow_path(f, name)
           g == f_chdir(name)
<1>1. /\ fs \in Volume /\ slot \in SomeCard /\ WindowOwn(fs) /\ SlotOwn(fs)
      /\ dirObject # NoDir => fs.type
  BY Types DEF Inv
<1>2. f \in Volume /\ WindowOwn(f) /\ SlotOwn(f) /\ (fs.type => f = fs)
  BY <1>1, FindVolume
<1>3. g = IF ~f.type THEN f
          ELSE [f EXCEPT !.win = p.win, !.cwd = IF p.to = NoDir THEN f.cwd ELSE p.to]
  BY Zenon DEF f_chdir
<1> HIDE DEF f, g
<1>4. CASE ~f.type
  BY <1>1, <1>2, <1>3, <1>4 DEF g
<1>5. CASE f.type
  <2>1. /\ p.to \in Dir \cup {NoDir} /\ p.win \in Sect
        /\ p.win.dir # NoDir => p.win.card = f.card
        /\ ready => p.to = Leads(f.card, f.cwd, name)
    BY <1>1, <1>2, <1>5, PathFound
  <2> HIDE DEF p
  <2>2. /\ g \in Volume /\ g.win = p.win /\ g.card = f.card /\ g.type = f.type
        /\ g.cwd = IF p.to = NoDir THEN f.cwd ELSE p.to
    BY <1>2, <1>3, <1>5, <2>1 DEF Volume
  <2>3. WindowOwn(g) /\ SlotOwn(g)
    BY <1>2, <2>1, <2>2 DEF WindowOwn, SlotOwn
  <2> QED
    BY <1>1, <1>2, <1>5, <2>1, <2>2, <2>3 DEF g
<1> QED
  BY <1>4, <1>5

----------------------------------------------------------------------------
(* gui_paint.                                                              *)

LEMMA LeastIn ==
  ASSUME NEW S \in SUBSET Nat, S # {}
  PROVE  \E x \in S : \A y \in S : x <= y
<1> DEFINE R == OpToRel(<, Nat)
<1>1. IsWellFoundedOn(R, Nat)
  BY NatLessThanWellFounded
<1> HIDE DEF R
<1>2. \E x \in S : \A y \in S : ~ (<<y, x>> \in R)
  BY <1>1, WFMin
<1>3. \E x \in S : \A y \in S : ~ (y < x)
  BY <1>2, Zenon DEF R, OpToRel
<1> QED
  BY <1>3

\* A list shows entries of one card only, and leaves the window with it.
LEMMA ListOwn ==
  ASSUME Inv, pc # "mount", NEW g \in Browser, fs.type, NEW d \in Dir
  PROVE  LET l == List(d, g) IN
         /\ l.items \in Nat /\ l.more \in BOOLEAN /\ l.isdir \in BOOLEAN
         /\ l.mark \in Mark
         /\ l.card \in {fs.card, NoCard}
         /\ l.win \in Sect /\ (l.win.dir # NoDir => l.win.card = fs.card)
<1> DEFINE w   == fs.win
           src == Source(w, d)
           t   == Entries(src, d)
           able(i) == CanRead(w, d, 1) /\ CanRead(w, d, i)
           Got   == {i \in DOMAIN t : /\ able(i) /\ t[i].kind # "dot"
                                      /\ i = Len(t) => ~Full(src, d)}
           Shown == {i \in Got : t[i].kind # "doc"}
           Above(i) == Cardinality({j \in Shown : j < i})
           bottom == g.menu_pos + Lines
           Below  == {i \in Got : Above(i) >= bottom}
           scan   == IF Cardinality(Shown) > bottom THEN bottom ELSE Cardinality(Shown)
           Marks  == {i \in Shown : Above(i) = g.menu_sel /\ g.menu_sel \in g.menu_pos .. bottom - 1}
           last   == IF Below = {} THEN Len(t) + 1 ELSE CHOOSE i \in Below : \A j \in Below : i <= j
           at     == IF able(1) THEN last ELSE 1
           l      == List(d, g)
<1>1. l = [items |-> scan + IF Below = {} THEN 0 ELSE 1,
           more  |-> Below # {},
           card  |-> IF Shown = {} THEN NoCard ELSE src,
           mark  |-> IF Marks = {} THEN NoName ELSE t[CHOOSE i \in Marks : TRUE].name,
           isdir |-> \E i \in Marks : t[i].kind = "dir",
           win   |-> IF Below = {} /\ src # NoCard /\ Full(src, d) THEN Boot
                     ELSE Moved(w, d, at)]
  BY Zenon DEF List
<1>2. fs \in Volume /\ slot \in SomeCard /\ WindowOwn(fs) /\ SlotOwn(fs)
  BY Types DEF Inv
<1>3. w \in Sect /\ src \in SomeCard /\ d # NoDir /\ Only(w, fs.card)
  BY <1>2, SourceType, DirAssumption DEF Volume, WindowOwn, SlotOwn, Only
<1>4. t \in Seq(Entry)
  BY <1>3, EntriesType
<1>5. CanRead(w, d, 1) => src = fs.card
  BY <1>3, SourceOwn
<1> HIDE DEF w, src, t, l
<1>6. Len(t) \in Nat /\ DOMAIN t = 1 .. Len(t) /\ \A i \in DOMAIN t : t[i] \in Entry
  BY <1>4
<1>7. IsFiniteSet(1 .. Len(t))
  BY <1>6, FS_Interval
<1>8. Got \subseteq 1 .. Len(t) /\ Shown \subseteq Got /\ Marks \subseteq Shown /\ Below \subseteq Got
  BY <1>6
<1>9. \A i \in Shown : able(i)
  OBVIOUS
<1> HIDE DEF Marks, Below
<1>10. Cardinality(Shown) \in Nat
  <2>1. Shown \subseteq 1 .. Len(t)
    BY <1>8
  <2> HIDE DEF Shown, Got
  <2> QED
    BY <1>7, <2>1, FS_Subset, FS_CardinalityType
<1>11. bottom \in Nat
  BY SizeAssumption DEF Browser
<1> HIDE DEF Got, bottom, able
<1>12. Shown # {} => src = fs.card
  BY <1>5, <1>9 DEF able
<1> HIDE DEF Shown
<1>13. scan + (IF Below = {} THEN 0 ELSE 1) \in Nat
  BY <1>10, <1>11
<1>14. Marks # {} => t[CHOOSE i \in Marks : TRUE].name \in Mark
  <2>1. Marks # {} => (CHOOSE i \in Marks : TRUE) \in Marks
    BY Zenon
  <2>2. \A i \in Marks : t[i].name \in Mark
    BY <1>6, <1>8 DEF Entry, Mark
  <2> QED
    BY <2>1, <2>2
<1>15. last \in Nat \ {0}
  <2>1. CASE Below = {}
    BY <1>6, <2>1
  <2>2. CASE Below # {}
    <3>1. Below \subseteq 1 .. Len(t)
      BY <1>8
    <3>2. Below \in SUBSET Nat
      BY <1>6, <3>1
    <3>3. \E i \in Below : \A j \in Below : i <= j
      BY <2>2, <3>2, LeastIn
    <3>4. last \in Below
      BY <2>2, <3>3, Zenon
    <3> HIDE DEF last
    <3> QED
      BY <1>6, <3>1, <3>4
  <2> QED
    BY <2>1, <2>2
<1>16. at \in Nat \ {0}
  <2> HIDE DEF last
  <2> QED
    BY <1>15
<1> HIDE DEF last, at
<1>17. Moved(w, d, at) \in Sect /\ Only(Moved(w, d, at), fs.card)
  BY <1>2, <1>3, <1>16, MovedOwn
<1> HIDE DEF scan
<1>18. /\ l.items = scan + IF Below = {} THEN 0 ELSE 1
       /\ l.card = IF Shown = {} THEN NoCard ELSE src
       /\ l.mark = IF Marks = {} THEN NoName ELSE t[CHOOSE i \in Marks : TRUE].name
       /\ l.win = IF Below = {} /\ src # NoCard /\ Full(src, d) THEN Boot ELSE Moved(w, d, at)
  BY <1>1
<1>19. l.more \in BOOLEAN /\ l.isdir \in BOOLEAN
  <2>1. /\ l.more = (Below # {})
        /\ l.isdir = (\E i \in Marks : t[i].kind = "dir")
    BY <1>1, Zenon
  <2> QED
    BY <2>1, Zenon
<1>20. l.mark \in Mark
  BY <1>14, <1>18 DEF Mark
<1>21. l.card \in {fs.card, NoCard}
  BY <1>12, <1>18
<1>22. l.win \in Sect /\ (l.win.dir # NoDir => l.win.card = fs.card)
  BY <1>17, <1>18, BootType DEF Only
<1> QED
  BY <1>13, <1>18, <1>19, <1>20, <1>21, <1>22 DEF l

\* Painting shows what g says, in a directory of the mounted card.
Selected(g) ==
  /\ g \in Browser
  /\ g.menu_sel \in g.menu_pos .. g.menu_pos + Lines
  /\ g.fs_mounted = gui.fs_mounted

LEMMA PaintInv ==
  ASSUME Inv, pc \in {"shown", "key", "paint"}, NEW g, Selected(g), gui_paint(g),
         pc' \in {"sd", "key"}, UNCHANGED <<slot, ready, sd, dirObject>>
  PROVE  Inv' /\ (view'.mode = "list" => view'.card \in {fs.card, NoCard})
<1>1. /\ fs \in Volume /\ slot \in SomeCard /\ ready \in BOOLEAN
      /\ sd \in [initFlg : BOOLEAN, fs_mounted : BOOLEAN]
      /\ dirObject \in Dir \cup {NoDir}
  BY Types DEF Inv
<1>2. /\ fs' \in Volume /\ gui' \in Browser /\ view' \in Display
      /\ gui'.menu_sel \in gui'.menu_pos .. gui'.menu_pos + Lines
      /\ gui'.fs_mounted = gui.fs_mounted
      /\ fs'.type = fs.type /\ fs'.card = fs.card /\ fs'.cwd = fs.cwd
      /\ WindowOwn(fs')
      /\ view'.mode = "list" => view'.card \in {fs.card, NoCard}
  <2>1. CASE g.fs_mounted /\ dirObject # NoDir /\ fs.type
    <3> DEFINE l == List(dirObject, g)
    <3>1. /\ l.items \in Nat /\ l.more \in BOOLEAN /\ l.isdir \in BOOLEAN
          /\ l.mark \in Mark
          /\ l.card \in {fs.card, NoCard}
          /\ l.win \in Sect /\ (l.win.dir # NoDir => l.win.card = fs.card)
      BY <1>1, <2>1, ListOwn DEF Selected
    <3>2. /\ gui' = [g EXCEPT !.items_scanned = l.items, !.res = l.more,
                       !.name = IF l.mark = NoName THEN @ ELSE l.mark,
                       !.isdir = IF l.mark = NoName THEN @ ELSE l.isdir]
          /\ view' = [mode |-> "list", card |-> l.card, mark |-> l.mark]
          /\ fs' = [fs EXCEPT !.win = l.win]
      BY <2>1, Zenon DEF gui_paint
    <3> HIDE DEF l
    <3>3. /\ fs' \in Volume /\ fs'.win = l.win
          /\ fs'.type = fs.type /\ fs'.card = fs.card /\ fs'.cwd = fs.cwd
      BY <1>1, <3>1, <3>2 DEF Volume
    <3>4. /\ gui' \in Browser
          /\ gui'.menu_sel = g.menu_sel /\ gui'.menu_pos = g.menu_pos
          /\ gui'.fs_mounted = g.fs_mounted
      BY <3>1, <3>2 DEF Browser, Selected
    <3>5. fs.card \in SomeCard /\ NoCard \in SomeCard
      BY <1>1 DEF Volume, SomeCard
    <3>6. view' \in Display /\ view'.card = l.card
      BY <3>1, <3>2, <3>5 DEF Display
    <3> QED
      BY <3>1, <3>3, <3>4, <3>6 DEF WindowOwn, Selected
  <2>2. CASE ~(g.fs_mounted /\ dirObject # NoDir /\ fs.type)
    <3>1. gui' = [g EXCEPT !.menu_pos = 0, !.menu_sel = 0] /\ view' = Blank /\ fs' = fs
      BY <2>2, Zenon DEF gui_paint
    <3>2. view' \in Display /\ view'.mode = "status"
      BY <3>1 DEF Blank, Display, SomeCard, Mark
    <3>3. /\ gui' \in Browser /\ gui'.menu_sel = 0 /\ gui'.menu_pos = 0
          /\ gui'.fs_mounted = g.fs_mounted
      BY <3>1 DEF Browser, Selected
    <3> QED
      BY <1>1, <3>1, <3>2, <3>3, SizeAssumption DEF Selected, Inv
  <2> QED
    BY <2>1, <2>2
<1>3. TypeOK'
  BY <1>1, <1>2 DEF TypeOK, SomeCard, Mark, Volume, Browser, Display
<1>4. SelectionInWindow'
  BY <1>2 DEF SelectionInWindow
<1>5. (pc # "mount" => SlotOwn(fs))' /\ (ready => slot # NoCard)' /\ (dirObject # NoDir => fs.type)'
  BY <1>2 DEF Inv, SlotOwn
<1>6. FollowsMount' /\ EntersSame' /\ ListIsCurrent'
  BY <1>2 DEF Inv, FollowsMount, EntersSame, ListIsCurrent
<1> QED
  BY <1>2, <1>3, <1>4, <1>5, <1>6 DEF Inv

----------------------------------------------------------------------------
(* The slot and its polling.                                               *)

\* The parts of the invariant as facts, for the steps that leave most alone.
LEMMA Parts ==
  ASSUME Inv
  PROVE  /\ slot \in SomeCard /\ ready \in BOOLEAN
         /\ sd \in [initFlg : BOOLEAN, fs_mounted : BOOLEAN]
         /\ fs \in Volume /\ dirObject \in Dir \cup {NoDir}
         /\ gui \in Browser /\ view \in Display
         /\ pc \in {"sd", "init", "mount", "gui", "shown", "key", "chdir", "chdirUp", "paint"}
         /\ gui.menu_sel \in gui.menu_pos .. gui.menu_pos + Lines
BY Types DEF Inv, SelectionInWindow

\* Only the slot, the flags and the place in the loop change.
LEMMA SlotInv ==
  ASSUME Inv, slot' \in SomeCard, ready' \in BOOLEAN,
         sd' \in [initFlg : BOOLEAN, fs_mounted : BOOLEAN],
         UNCHANGED <<fs, dirObject, gui, view>>,
         pc' = pc \/ (pc = "sd" /\ pc' \in {"init", "gui"}) \/ (pc = "init" /\ pc' \in {"mount", "gui"})
                  \/ (pc = "key" /\ pc' = "sd"),
         ready' => slot' # NoCard,
         ready' => (ready /\ slot' = slot /\ pc' # "mount" /\ pc # "init") \/ pc' = "mount",
         sd'.fs_mounted => sd.fs_mounted
  PROVE  Inv'
<1>1. TypeOK'
  BY Parts DEF TypeOK, SomeCard, Mark, Volume, Browser, Display
<1>2. SelectionInWindow'
  BY DEF Inv, SelectionInWindow
<1>3. WindowOwn(fs)' /\ (dirObject # NoDir => fs.type)'
  BY DEF Inv, WindowOwn
<1>4. (pc # "mount" => SlotOwn(fs))'
  BY DEF Inv, SlotOwn
<1>5. FollowsMount'
  BY DEF Inv, FollowsMount
<1>6. EntersSame'
  BY DEF Inv, EntersSame
<1>7. ListIsCurrent'
  BY DEF Inv, ListIsCurrent
<1> QED
  BY <1>1, <1>2, <1>3, <1>4, <1>5, <1>6, <1>7 DEF Inv

LEMMA RemoveInv == ASSUME Inv, Remove PROVE Inv'
BY SlotInv, Parts DEF Remove, SomeCard

LEMMA InsertInv == ASSUME Inv, NEW c \in Card, Insert(c) PROVE Inv'
<1>1. ~ready
  BY DEF Insert, Inv
<1> QED
  BY <1>1, SlotInv, Parts DEF Insert, SomeCard

LEMMA PollInv == ASSUME Inv, poll_connected \/ poll_absent PROVE Inv'
<1>1. sd' \in [initFlg : BOOLEAN, fs_mounted : BOOLEAN] /\ (sd'.fs_mounted => sd.fs_mounted)
  <2>1. CASE poll_connected
    BY <2>1, Parts DEF poll_connected
  <2>2. CASE poll_absent
    <3>1. sd' = sd \/ sd' = [initFlg |-> TRUE, fs_mounted |-> FALSE]
      BY <2>2 DEF poll_absent
    <3>2. sd \in [initFlg : BOOLEAN, fs_mounted : BOOLEAN]
      BY Parts
    <3>3. CASE sd' = sd
      BY <3>2, <3>3
    <3>4. CASE sd' = [initFlg |-> TRUE, fs_mounted |-> FALSE]
      <4>1. sd' \in [initFlg : BOOLEAN, fs_mounted : BOOLEAN]
        BY <3>4
      <4>2. sd'.fs_mounted = FALSE
        BY <3>4
      <4> QED
        BY <4>1, <4>2, Zenon
    <3> QED
      BY <3>1, <3>3, <3>4
  <2> QED
    BY <2>1, <2>2
<1>2. pc = "sd" /\ pc' \in {"init", "gui"} /\ UNCHANGED <<slot, ready, fs, dirObject, gui, view>>
  BY DEF poll_connected, poll_absent
<1>3. ready => slot # NoCard
  BY DEF Inv
<1> QED
  BY <1>1, <1>2, <1>3, SlotInv, Parts

LEMMA InitCardInv == ASSUME Inv, initCard PROVE Inv'
<1>1. /\ pc = "init" /\ ready' \in {FALSE, slot # NoCard} /\ UNCHANGED <<slot, sd, fs, dirObject, gui, view>>
      /\ pc' = IF ready' THEN "mount" ELSE "gui"
  BY DEF initCard
<1>2. ready' \in BOOLEAN
  BY <1>1, Zenon
<1> QED
  BY <1>1, <1>2, SlotInv, Parts

\* A mount ends every directory object, and starts in the root directory.
LEMMA MountInv == ASSUME Inv, f_mount PROVE Inv'
<1> DEFINE f == [fs EXCEPT !.reg = TRUE, !.type = FALSE, !.held = {}]
<1>1. f \in Volume /\ ~f.type
  BY Parts DEF Volume
<1>2. WindowOwn(f)
  BY <1>1 DEF WindowOwn
<1> HIDE DEF f
<1>3. /\ find_volume(f) \in Volume
      /\ WindowOwn(find_volume(f)) /\ SlotOwn(find_volume(f))
      /\ find_volume(f).type => find_volume(f).cwd = Root
  BY <1>1, <1>2, FindVolume, Parts
<1>4. /\ fs' = find_volume(f) /\ dirObject' = NoDir
      /\ sd' = [sd EXCEPT !.fs_mounted = fs'.type \/ sd.fs_mounted]
      /\ pc = "mount" /\ pc' = "gui" /\ UNCHANGED <<slot, ready, gui, view>>
  BY DEF f_mount, f
<1>5. sd' \in [initFlg : BOOLEAN, fs_mounted : BOOLEAN]
  <2>1. (fs'.type \/ sd.fs_mounted) \in BOOLEAN
    BY Zenon
  <2> QED
    BY <1>4, <2>1, Parts
<1>6. TypeOK'
  BY <1>3, <1>4, <1>5, Parts DEF TypeOK, SomeCard, Mark, Volume, Browser, Display
<1>7. SelectionInWindow'
  BY <1>4 DEF Inv, SelectionInWindow
<1>8. WindowOwn(fs)' /\ SlotOwn(fs)'
  BY <1>3, <1>4 DEF WindowOwn, SlotOwn
<1>9. FollowsMount' /\ EntersSame' /\ ListIsCurrent'
  BY <1>3, <1>4 DEF FollowsMount, EntersSame, ListIsCurrent
<1> QED
  BY <1>4, <1>6, <1>7, <1>8, <1>9 DEF Inv

----------------------------------------------------------------------------
(* gui_idle.                                                               *)

LEMMA FollowInv == ASSUME Inv, gui_follow PROVE Inv'
<1>1. /\ pc = "gui" /\ gui' = [gui EXCEPT !.fs_mounted = sd.fs_mounted]
      /\ UNCHANGED <<slot, ready, sd, fs, view>>
      /\ pc' \in {"shown", "key"}
      /\ \/ UNCHANGED dirObject
         \/ sd.fs_mounted /\ ~gui.fs_mounted /\ dirObject' = IF fs.type THEN Root ELSE NoDir
  BY DEF gui_follow
<1>2. /\ gui' \in Browser /\ gui'.fs_mounted = sd.fs_mounted
      /\ gui'.menu_sel = gui.menu_sel /\ gui'.menu_pos = gui.menu_pos
  BY <1>1, Parts DEF Browser
<1>3. dirObject' \in Dir \cup {NoDir}
  BY <1>1, Parts, DirAssumption
<1>4. TypeOK'
  BY <1>1, <1>2, <1>3, Parts DEF TypeOK, SomeCard, Mark, Volume, Browser, Display
<1>5. SelectionInWindow'
  BY <1>1, <1>2 DEF Inv, SelectionInWindow
<1>6. WindowOwn(fs)' /\ SlotOwn(fs)' /\ (dirObject # NoDir => fs.type)'
  BY <1>1 DEF Inv, WindowOwn, SlotOwn
<1>7. FollowsMount' /\ EntersSame'
  BY <1>1, <1>2 DEF FollowsMount, EntersSame
<1>8. ListIsCurrent'
  BY <1>1 DEF Inv, FollowsMount, ListIsCurrent
<1> QED
  BY <1>1, <1>4, <1>5, <1>6, <1>7, <1>8 DEF Inv

\* The keys that move the selection move the window with it.
LEMMA SelectUp ==
  ASSUME Inv
  PROVE  LET sel == IF gui.menu_sel > 0 THEN gui.menu_sel - 1 ELSE 0 IN
         Selected([gui EXCEPT !.menu_sel = sel, !.menu_pos = IF sel < @ THEN sel ELSE @])
<1> DEFINE sel == IF gui.menu_sel > 0 THEN gui.menu_sel - 1 ELSE 0
           pos == IF sel < gui.menu_pos THEN sel ELSE gui.menu_pos
           g   == [gui EXCEPT !.menu_sel = sel, !.menu_pos = pos]
<1>1. gui.menu_sel \in Nat /\ gui.menu_pos \in Nat /\ Lines \in Nat
  BY Parts, SizeAssumption DEF Browser
<1>2. sel \in Nat /\ pos \in Nat /\ sel \in pos .. pos + Lines
  BY <1>1, Parts
<1> HIDE DEF sel, pos
<1>3. g \in Browser /\ g.menu_sel = sel /\ g.menu_pos = pos /\ g.fs_mounted = gui.fs_mounted
  BY <1>2, Parts DEF Browser
<1>4. Selected(g)
  BY <1>2, <1>3 DEF Selected
<1> QED
  BY <1>4 DEF sel, pos

LEMMA SelectDown ==
  ASSUME Inv
  PROVE  LET bottom == gui.menu_pos + Lines
             sel == IF gui.menu_sel < bottom /\ gui.menu_sel < (gui.items_scanned + 65535) % 65536
                    THEN gui.menu_sel + 1 ELSE gui.menu_sel
         IN  Selected([gui EXCEPT !.menu_sel = sel,
                        !.menu_pos = IF sel >= bottom /\ gui.res THEN @ + 1 ELSE @])
<1> DEFINE bottom == gui.menu_pos + Lines
           sel == IF gui.menu_sel < bottom /\ gui.menu_sel < (gui.items_scanned + 65535) % 65536
                  THEN gui.menu_sel + 1 ELSE gui.menu_sel
           pos == IF sel >= bottom /\ gui.res THEN gui.menu_pos + 1 ELSE gui.menu_pos
           g   == [gui EXCEPT !.menu_sel = sel, !.menu_pos = pos]
<1>1. gui.menu_sel \in Nat /\ gui.menu_pos \in Nat /\ Lines \in Nat \ {0}
  BY Parts, SizeAssumption DEF Browser
<1>2. sel \in {gui.menu_sel, gui.menu_sel + 1} /\ (sel # gui.menu_sel => gui.menu_sel < bottom)
  BY <1>1
<1> HIDE DEF sel
<1>3. sel \in Nat /\ sel >= gui.menu_pos /\ sel <= bottom
  BY <1>1, <1>2, Parts
<1>4. pos \in Nat /\ sel \in pos .. pos + Lines
  BY <1>1, <1>3
<1> HIDE DEF pos
<1>5. g \in Browser /\ g.menu_sel = sel /\ g.menu_pos = pos /\ g.fs_mounted = gui.fs_mounted
  BY <1>3, <1>4, Parts DEF Browser
<1>6. Selected(g)
  BY <1>4, <1>5 DEF Selected
<1> QED
  BY <1>6 DEF sel, pos

LEMMA SelectedNow == ASSUME Inv PROVE Selected(gui)
BY Parts DEF Selected

\* Every step that paints.
Painting ==
  \/ hook_paint \/ entered_paint \/ key_up \/ key_down \/ key_select

LEMMA PaintingInv ==
  ASSUME Inv, Painting
  PROVE  Inv' /\ (view'.mode = "list" => view'.card \in {fs.card, NoCard})
<1>1. ASSUME NEW g, Selected(g), Repaint(g)
      PROVE  Inv' /\ (view'.mode = "list" => view'.card \in {fs.card, NoCard})
  <2>1. pc = "key" /\ gui_paint(g) /\ pc' = "sd" /\ UNCHANGED <<slot, ready, sd, dirObject>>
    BY <1>1 DEF Repaint
  <2> QED
    BY <1>1, <2>1, PaintInv
<1>2. CASE key_up
  BY <1>1, <1>2, SelectUp DEF key_up
<1>3. CASE key_down
  BY <1>1, <1>3, SelectDown DEF key_down
<1>4. CASE key_select
  BY <1>1, <1>4, SelectedNow DEF key_select
<1>5. CASE hook_paint \/ entered_paint
  <2>1. /\ pc \in {"shown", "paint"} /\ gui_paint(gui) /\ pc' \in {"key", "sd"}
        /\ UNCHANGED <<slot, ready, sd, dirObject>>
    BY <1>5 DEF hook_paint, entered_paint
  <2> QED
    BY <2>1, SelectedNow, PaintInv
<1> QED
  BY <1>2, <1>3, <1>4, <1>5 DEF Painting

LEMMA NoKeyInv == ASSUME Inv, no_key PROVE Inv'
<1>1. ready => slot # NoCard
  BY DEF Inv
<1>2. pc = "key" /\ pc' = "sd" /\ UNCHANGED <<slot, ready, sd, fs, dirObject, gui, view>>
  BY DEF no_key
<1> QED
  BY <1>1, <1>2, SlotInv, Parts

\* A directory opened by name, before f_chdir.
LEMMA OpenInv ==
  ASSUME Inv, pc = "key", NEW name, pc' \in {"sd", "chdir", "chdirUp"},
         fs' = f_opendir(name).fs, dirObject' = f_opendir(name).obj,
         pc' = "chdir" => name = gui.name, pc' = "chdirUp" => name = Up,
         pc' = "sd" => dirObject' = NoDir,
         UNCHANGED <<slot, ready, sd, gui, view>>
  PROVE  Inv'
<1>1. /\ fs' \in Volume /\ WindowOwn(fs') /\ SlotOwn(fs')
      /\ dirObject' \in Dir \cup {NoDir}
      /\ dirObject' # NoDir => fs'.type /\ dirObject' = Leads(fs'.card, fs'.cwd, name)
  BY OpenDir
<1>2. TypeOK'
  BY <1>1, Parts DEF TypeOK, SomeCard, Mark, Volume, Browser, Display
<1>3. SelectionInWindow'
  BY DEF Inv, SelectionInWindow
<1>4. SlotOwn(fs)' /\ WindowOwn(fs)'
  BY <1>1 DEF SlotOwn, WindowOwn
<1>5. FollowsMount'
  BY DEF Inv, FollowsMount
<1>6. EntersSame'
  <2>1. CASE pc' = "chdir"
    <3>1. gui'.name = name
      BY <2>1
    <3> QED
      BY <1>1, <2>1, <3>1 DEF EntersSame
  <2>2. CASE pc' = "chdirUp"
    BY <1>1, <2>2 DEF EntersSame
  <2>3. CASE pc' = "sd"
    BY <2>3 DEF EntersSame
  <2> QED
    BY <2>1, <2>2, <2>3
<1>7. ListIsCurrent'
  BY DEF ListIsCurrent
<1>8. (ready => slot # NoCard)'
  BY DEF Inv
<1> QED
  BY <1>1, <1>2, <1>3, <1>4, <1>5, <1>6, <1>7, <1>8 DEF Inv

LEMMA KeyOpenInv == ASSUME Inv, key_enter \/ key_back PROVE Inv'
<1>1. CASE key_enter
  <2>1. /\ pc = "key" /\ fs' = f_opendir(gui.name).fs /\ dirObject' = f_opendir(gui.name).obj
        /\ pc' = IF dirObject' = NoDir THEN "sd" ELSE "chdir"
        /\ UNCHANGED <<slot, ready, sd, gui, view>>
    BY <1>1 DEF key_enter
  <2> QED
    BY <2>1, OpenInv
<1>2. CASE key_back
  <2>1. /\ pc = "key" /\ fs' = f_opendir(Up).fs /\ dirObject' = f_opendir(Up).obj
        /\ pc' = "chdirUp"
        /\ UNCHANGED <<slot, ready, sd, gui, view>>
    BY <1>2 DEF key_back
  <2> QED
    BY <2>1, OpenInv
<1> QED
  BY <1>1, <1>2

LEMMA ChangeDirInv == ASSUME Inv, change_dir PROVE Inv'
<1> DEFINE name == IF pc = "chdir" THEN gui.name ELSE Up
<1>1. /\ pc \in {"chdir", "chdirUp"} /\ fs' = f_chdir(name)
      /\ gui' = [gui EXCEPT !.menu_pos = 0, !.menu_sel = 0]
      /\ pc' = "paint" /\ UNCHANGED <<slot, ready, sd, dirObject, view>>
  BY DEF change_dir
<1>2. ready /\ dirObject # NoDir => fs.type /\ dirObject = Leads(fs.card, fs.cwd, name)
  BY <1>1 DEF Inv, EntersSame
<1> HIDE DEF name
<1>3. /\ fs' \in Volume /\ WindowOwn(fs') /\ SlotOwn(fs') /\ (fs.type => fs'.type)
      /\ fs.type /\ ready =>
           fs'.cwd = IF Leads(fs.card, fs.cwd, name) = NoDir THEN fs.cwd
                     ELSE Leads(fs.card, fs.cwd, name)
  BY <1>1, ChangeDir
<1>4. /\ gui' \in Browser /\ gui'.fs_mounted = gui.fs_mounted
      /\ gui'.menu_sel = 0 /\ gui'.menu_pos = 0
  BY <1>1, Parts DEF Browser
<1>5. TypeOK'
  BY <1>1, <1>3, <1>4, Parts DEF TypeOK, SomeCard, Mark, Volume, Browser, Display
<1>6. SelectionInWindow'
  BY <1>4, SizeAssumption DEF SelectionInWindow
<1>7. SlotOwn(fs)' /\ WindowOwn(fs)'
  BY <1>1, <1>3 DEF SlotOwn, WindowOwn
<1>8. FollowsMount'
  BY <1>1, <1>4 DEF Inv, FollowsMount
<1>9. EntersSame'
  BY <1>1 DEF EntersSame
<1>10. ListIsCurrent'
  BY <1>1, <1>2, <1>3 DEF ListIsCurrent
<1>11. (ready => slot # NoCard)' /\ (dirObject # NoDir => fs.type)'
  BY <1>1, <1>3 DEF Inv
<1> QED
  BY <1>5, <1>6, <1>7, <1>8, <1>9, <1>10, <1>11 DEF Inv

----------------------------------------------------------------------------
LEMMA InitInv == Init => Inv
<1> SUFFICES ASSUME Init PROVE Inv
  OBVIOUS
<1>1. fs \in Volume /\ ~fs.type
  BY BootType, DirAssumption DEF Init, Volume, SomeCard
<1>2. gui \in Browser /\ gui.menu_sel = 0 /\ gui.menu_pos = 0
  BY DEF Init, Browser, Mark
<1>3. view \in Display
  BY DEF Init, Blank, Display, SomeCard, Mark
<1>4. sd \in [initFlg : BOOLEAN, fs_mounted : BOOLEAN] /\ ~sd.fs_mounted
  BY DEF Init
<1>5. slot \in SomeCard /\ ready = FALSE /\ dirObject = NoDir /\ pc = "sd"
  BY DEF Init, SomeCard
<1>6. TypeOK
  BY <1>1, <1>2, <1>3, <1>4, <1>5, Types
<1> QED
  BY <1>1, <1>2, <1>4, <1>5, <1>6, SizeAssumption
  DEF Inv, SelectionInWindow, WindowOwn, SlotOwn, FollowsMount, EntersSame, ListIsCurrent

LEMMA NextInv ==
  ASSUME Inv, [Next]_vars
  PROVE  Inv'
<1>1. CASE UNCHANGED vars
  BY <1>1 DEF vars, Inv, TypeOK, SelectionInWindow, WindowOwn, SlotOwn, FollowsMount,
              EntersSame, Leads, Entries, ListIsCurrent
<1>2. CASE Next
  BY <1>2, RemoveInv, InsertInv, PollInv, InitCardInv, MountInv, FollowInv, PaintingInv,
     NoKeyInv, KeyOpenInv, ChangeDirInv
  DEF Next, SlotStep, SdStep, GuiStep, KeyStep, Painting
<1> QED
  BY <1>1, <1>2

\* The invariant of the browser: window, slot, current directory, directory
\* object and selection fit together at every step of the loop.
THEOREM BrowserInvariant == Spec => []Inv
<1>1. Init => Inv
  BY InitInv
<1>2. Inv /\ [Next]_vars => Inv'
  BY NextInv
<1> QED
  BY <1>1, <1>2, PTL DEF Spec

\* Every variable keeps its type: neither a name that is looked up nor a list
\* that is scanned leads out of the directory table.
THEOREM BrowserTypes == Spec => []TypeOK
<1>1. Inv => TypeOK
  BY DEF Inv
<1> QED
  BY <1>1, BrowserInvariant, PTL

\* Whatever the length of the list and the size of the display, the selection
\* stays on it or on the line below.
THEOREM SelectionStays == Spec => []SelectionInWindow
<1>1. Inv => SelectionInWindow
  BY DEF Inv
<1> QED
  BY <1>1, BrowserInvariant, PTL

\* As long as the card answers, f_opendir and f_chdir agree: the list shown
\* is the directory in which the next name is looked up, on any directory tree.
THEOREM ListAndCurrentAgree == Spec => []ListIsCurrent
<1>1. Inv => ListIsCurrent
  BY DEF Inv
<1> QED
  BY <1>1, BrowserInvariant, PTL

\* No list shows entries of another card than the mounted one, although the
\* window of FatFs outlives the card it was read from.
THEOREM ListsOneCard == Spec => ListsMountedCard
<1>1. Inv /\ [Next]_vars =>
        [(pc \in {"shown", "key", "paint"} /\ view'.mode = "list" /\ view' # view)
           => view'.card \in {fs.card, NoCard}]_vars
  <2> SUFFICES ASSUME Inv, Next, pc \in {"shown", "key", "paint"}, view'.mode = "list", view' # view
               PROVE  view'.card \in {fs.card, NoCard}
    OBVIOUS
  <2>1. Painting
    BY DEF Next, SlotStep, SdStep, GuiStep, KeyStep, Painting, Remove, Insert,
           poll_connected, poll_absent, initCard, f_mount, gui_follow, no_key,
           key_enter, key_back, change_dir
  <2> QED
    BY <2>1, PaintingInv
<1> QED
  BY <1>1, BrowserInvariant, PTL DEF Spec, ListsMountedCard
=============================================================================
