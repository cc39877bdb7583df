------------------------------ MODULE LongNames ------------------------------
(***************************************************************************)
(* The names in a directory (ff.c, _USE_LFN): an entry with the short name *)
(* of a file (SFN), after the parts of its long name (LFN) when it needs   *)
(* one, which only their order and a sum of the short name tie to it.  The *)
(* entries of a name may lie in two sectors, which are stored one by one   *)
(* as the window of the volume moves.                                      *)
(*                                                                         *)
(* The table grows by a cluster at a time, as all but the root of FAT12    *)
(* and FAT16 do; a cluster that is linked to it holds old entries until it *)
(* is filled with zeros.  Reads that fail change nothing and are left out; *)
(* so are the files' clusters, and the ".." of a directory that is moved.  *)
(* sum_sfn has 8 bits; the instance gives every SFN a sum of its own.      *)
(***************************************************************************)
EXTENDS Naturals, Sequences, FiniteSets, SequencesExt

CONSTANTS
  Long,       \* names that need an LFN
  Sfn,        \* short names, which are names as well
  Lossy,      \* the long names that are not in 8.3 format, NS_LOSS
  Base,       \* of each other long name: its SFN
  Tails,      \* of each lossy long name: its numbered names, in order
  Parts,      \* of each long name: its LFN entries
  Sum,        \* sum_sfn
  File, NoFile, NoName,
  OldSfn,     \* the name in a cluster's old entries
  Slots,      \* bound: entries of the table when the volume is full
  PerSector,  \* entries of a sector
  PerCluster, \* sectors of a cluster
  MaxFault    \* bound: I/O errors and power losses

ASSUME NameAssumption ==
  /\ Lossy \subseteq Long /\ Long \cap Sfn = {}
  /\ Base \in [Long \ Lossy -> Sfn]
  /\ Tails \in [Lossy -> Seq(Sfn)]
  /\ Parts \in [Long -> Nat \ {0}]
  /\ DOMAIN Sum = Sfn
ASSUME TableAssumption ==
  /\ {Slots, PerSector, PerCluster} \subseteq Nat \ {0}
  /\ Slots % (PerSector * PerCluster) = 0
  /\ MaxFault \in Nat /\ NoFile \notin File /\ OldSfn \in Sfn

VARIABLES
  table,   \* the entries as FatFs sees them
  disk,    \* the entries as they are stored
  sect,    \* the sector in the window, 0: another one, Fat: the FAT's
  dirty,   \* the window is newer than the disk
  todo,    \* the writes that the call in progress has left
  names,   \* history: the file each name led to before that call
  asked,   \* history: the name that call is to give or remove
  bare,    \* history: a new cluster was not cleared
  taken,   \* history: long names whose lost parts got a new short name
  faults   \* I/O errors and power losses so far

vars == <<table, disk, sect, dirty, todo, names, asked, bare, taken, faults>>

Typed == Long \cup Sfn
Slot == 1 .. Slots
Sector(i) == (i - 1) \div PerSector + 1
Fat == Sector(Slots) + 1

Blank   == [kind |-> "free"]
Deleted == [kind |-> "deleted"]

\* What is in a cluster before it is cleared: an entry of no file that exists.
Old == [kind |-> "sfn", sfn |-> OldSfn, file |-> NoFile]

\* create_name: what names are compared by (without case), and the short name.
Text(n) == IF n \in Long \ Lossy THEN Base[n] ELSE n

\* The names that differ in more than case.
Name  == {Text(n) : n \in Typed}
Alias == UNION {Range(Tails[n]) : n \in Lossy}

LfnEntry(n, ord, sum) ==
  [kind |-> "lfn", text |-> Text(n), ord |-> ord, last |-> ord = Parts[n], sum |-> sum]
SfnEntry(s, f) == [kind |-> "sfn", sfn |-> s, file |-> f]

----------------------------------------------------------------------------
(* Looking names up.                                                       *)

\* The first entry that was never used ends the table.
End(t) == Min({i \in DOMAIN t : t[i].kind = "free"} \cup {Len(t) + 1})

IsSfn(t, i) == t[i].kind = "sfn"

\* blk_ofs: where the LFN entries before entry i begin, or i.
Block(t, i) ==
  LET run == Max({0} \cup {j \in 1 .. i - 1 : t[j].kind # "lfn"})
      top == {b \in run + 1 .. i - 1 : t[b].last}
  IN  IF top = {} THEN i ELSE Max(top)

\* Mutant: the sum is not looked at.
Attached_unsummed(t, b, i) ==
  \A j \in b .. i - 1 : t[j].ord = i - j /\ t[j].text = t[b].text

\* The LFN entries from b belong to the SFN entry i behind them: they are in
\* order down to 1, of its sum and of one name.
Attached(t, b, i) ==
  \A j \in b .. i - 1 :
    t[j].ord = i - j /\ t[j].sum = Sum[t[i].sfn] /\ t[j].text = t[b].text

\* The names of entry i; dir_read lists the first.
LongText(t, i) ==
  LET b == Block(t, i) IN {t[j].text : j \in {k \in {b} \ {i} : Attached(t, b, i)}}
Listed(t, i) == IF LongText(t, i) = {} THEN {t[i].sfn} ELSE LongText(t, i)

\* dir_find matches by the long name, or by the short one unless the name is
\* lossy.
Matches(t, i, n) ==
  (n \notin Lossy /\ t[i].sfn = n) \/ n \in LongText(t, i)

NoSlot == 0
Least(S) == IF S = {} THEN NoSlot ELSE Min(S)

dir_find(t, n) ==
  Least({i \in 1 .. End(t) - 1 : IsSfn(t, i) /\ Matches(t, i, n)})

FileOf(t, i) == IF i = NoSlot THEN NoFile ELSE t[i].file

NamesOf(t) == [n \in Name |-> FileOf(t, dir_find(t, n))]

\* dir_read: the names f_readdir lists, with their entries.
dir_read(t) ==
  UNION {Listed(t, i) \X {i} : i \in {j \in 1 .. End(t) - 1 : IsSfn(t, j)}}

----------------------------------------------------------------------------
(* Adding and removing entries.                                            *)

\* dir_alloc: the first block of n entries that are deleted or free, or that
\* the table is stretched to.
dir_alloc(t, n) ==
  Least({b \in 1 .. Slots + 1 - n :
           \A i \in b .. b + n - 1 : i > Len(t) \/ t[i].kind \in {"deleted", "free"}})

UsesSfn(t, s) == \E i \in 1 .. End(t) - 1 : IsSfn(t, i) /\ t[i].sfn = s

\* gen_numname and the search for a number that is not in use.
Numbered(t, n) ==
  LET free == {k \in DOMAIN Tails[n] : ~UsesSfn(t, Tails[n][k])}
  IN  IF free = {} THEN {} ELSE {Tails[n][Min(free)]}

\* The short name of a new entry, none after too many collisions.
ShortNames(t, n) == IF n \in Lossy THEN Numbered(t, n) ELSE {Text(n)}

\* dir_next stretches the table of sectors 1 to s: a cluster is linked, that is
\* stored, and each of its sectors is cleared.  The k-th step, over clusters.
Link  == <<0, [kind |-> "link"]>>
Flush == <<0, [kind |-> "flush"]>>
Clear(s) == <<s, [kind |-> "clear"]>>
stretch(s, k) ==
  LET cluster == (k - 1) \div (PerCluster + 2)
      step    == (k - 1) % (PerCluster + 2)
  IN  IF step = 0 THEN Link ELSE IF step = 1 THEN Flush
      ELSE Clear(s + cluster * PerCluster + step - 1)

\* As often as entry i needs it.
Stretch(t, i) ==
  LET size == PerSector * PerCluster
      more == (Max({i, Len(t)}) - Len(t) + size - 1) \div size
  IN  [k \in 1 .. more * (PerCluster + 2) |-> stretch(Sector(Len(t)), k)]

LfnParts(n) == IF n \in Long THEN Parts[n] ELSE 0

\* dir_register: the writes that give file f the name n, with the last LFN
\* part first; none when the volume is full.
dir_register(t, n, f) ==
  LET p == LfnParts(n)
      b == dir_alloc(t, p + 1)
  IN  {Stretch(t, b + p) \o
       [k \in 1 .. p + 1 |->
          <<b + k - 1, IF k = p + 1 THEN SfnEntry(s, f)
                       ELSE LfnEntry(n, p + 1 - k, Sum[s])>>] :
         s \in IF b = NoSlot THEN {} ELSE ShortNames(t, n)}

\* Mutant: the long name is left.
dir_remove_short(t, i) == <<<<i, Deleted>>>>

\* dir_remove: from the first LFN entry to the SFN.
dir_remove(t, i) ==
  LET b == Block(t, i) IN [k \in 1 .. i - b + 1 |-> <<b + k - 1, Deleted>>]

----------------------------------------------------------------------------
(* The window.                                                             *)

\* The entries of the disk are those of the clusters that are linked there.
Stored ==
  IF ~dirty THEN disk
  ELSE [i \in DOMAIN (IF sect = Fat THEN table ELSE disk) |->
          IF Sector(i) = sect \/ i > Len(disk) THEN table[i] ELSE disk[i]]

\* Sector s, filled with zeros.
Cleared(t, s) == [i \in DOMAIN t |-> IF Sector(i) = s THEN Blank ELSE t[i]]

\* Scans of the table that reach the entries in S move the window, which is
\* stored when it has to; the FAT is read to find the end of the table.  The
\* last scan ends at i, or at the end to stretch the table.
Scanned(S, i) ==
  /\ sect' = Sector(Min({i, Len(table)}))
  /\ IF sect = 1 /\ \A j \in S \cup {i} : j <= Len(table) /\ Sector(j) = 1
       THEN UNCHANGED <<disk, dirty>>
       ELSE disk' = Stored /\ dirty' = FALSE

\* A call whose writes are w, sync_fs the last of them or none.
Sync == <<<<0, [kind |-> "sync"]>>>>
Begin(n, w) ==
  /\ todo' = w /\ asked' = n
  /\ UNCHANGED <<table, names, bare, taken, faults>>

----------------------------------------------------------------------------
(* The calls.                                                              *)

Files(t) == {t[i].file : i \in {j \in DOMAIN t : IsSfn(t, j)}}

\* f_open makes a new file, f_mkdir a directory: f is its first cluster or
\* what stands for it.
Creatable(n, f) ==
  dir_find(table, Text(n)) = NoSlot /\ f \notin Files(table) \cup Files(disk)

f_open(n, f) ==
  /\ Creatable(n, f)
  /\ \E w \in dir_register(table, n, f) :
       Begin(Text(n), w) /\ Scanned({End(table)}, Last(w)[1])

\* The window is used for the new directory in between, and stored at last.
f_mkdir(n, f) ==
  /\ Creatable(n, f)
  /\ \E w \in dir_register(table, n, f) :
       /\ Begin(Text(n), w \o Sync)
       /\ disk' = Stored /\ dirty' = FALSE /\ sect' = Sector(Min({Last(w)[1], Len(table)}))

\* f_open, f_mkdir or f_rename stretches the table until the volume is full,
\* and there are still not enough entries in a row.
dir_register_denied(n) ==
  /\ ShortNames(table, n) # {} /\ dir_alloc(table, LfnParts(n) + 1) = NoSlot
  /\ Len(table) < Slots
  /\ Begin(NoName, Stretch(table, Slots)) /\ Scanned({}, Slots)

f_unlink(n) ==
  LET i == dir_find(table, n) IN
  /\ i # NoSlot
  /\ Begin(n, dir_remove(table, i) \o Sync)
  /\ Scanned({}, i)

\* Mutant: the old entry goes first.
Order_swapped(new, old) == old \o new

\* The new entry is written before the old one goes.
Order(new, old) == new \o old

\* The new name may lead to the file itself: another case, or its other name.
f_rename(o, n) ==
  LET i == dir_find(table, o)
      j == dir_find(table, Text(n))
  IN  /\ i # NoSlot /\ j \in {NoSlot, i}
      /\ \E w \in dir_register(table, n, table[i].file) :
           /\ Begin(Text(n), Order(w, dir_remove(table, i)) \o Sync)
           /\ Scanned({i} \cup IF j = i /\ n \notin Lossy THEN {} ELSE {End(table)}, Last(w)[1])

\* The names after the call.
Returned(t) == names' = NamesOf(t) /\ asked' = NoName

\* f_sync or f_close of a file.
f_sync ==
  /\ todo = <<>> /\ dirty
  /\ disk' = Stored /\ dirty' = FALSE
  /\ UNCHANGED <<table, sect, todo, names, asked, bare, taken, faults>>

\* The next step of a call is done; it may have been the last.
Step ==
  /\ todo' = Tail(todo)
  /\ IF todo' = <<>> THEN Returned(table') ELSE UNCHANGED <<names, asked>>
  /\ UNCHANGED faults

At(w) == todo # <<>> /\ Head(todo) = w

IsWrite(w) == w[2].kind \in {"lfn", "sfn", "deleted"}

\* create_chain: the link is in the window.
dir_next_link ==
  /\ At(Link)
  /\ table' = table \o [i \in 1 .. PerSector * PerCluster |-> Old]
  /\ disk' = IF sect = Fat THEN disk ELSE Stored
  /\ sect' = Fat /\ dirty' = TRUE
  /\ Step /\ UNCHANGED <<bare, taken>>

dir_next_flush ==
  /\ At(Flush)
  /\ disk' = Stored /\ dirty' = FALSE
  /\ UNCHANGED <<table, sect, bare, taken>> /\ Step

\* A sector of zeros is stored.  At last the window is the first of them.
dir_next_clear ==
  \E s \in 1 .. Fat - 1 :
    /\ At(Clear(s))
    /\ table' = Cleared(table, s) /\ disk' = Cleared(disk, s)
    /\ sect' = s - ((s - 1) % PerCluster) /\ dirty' = FALSE
    /\ Step /\ UNCHANGED <<bare, taken>>

\* An SFN entry stored behind parts of a long name that a call left without
\* theirs, and of its sum, takes that name over.
TakenBy(w) ==
  {n \in LongText(table', w[1]) \ {asked} : table'[w[1] - 1].sum = Sum[w[2].sfn]}

\* The next write: its sector is moved into the window and changed there.
write_entry ==
  /\ todo # <<>> /\ IsWrite(Head(todo))
  /\ LET w == Head(todo)
         s == Sector(w[1])
     IN  /\ table' = [table EXCEPT ![w[1]] = w[2]]
         /\ disk' = IF s = sect THEN disk ELSE Stored
         /\ sect' = s /\ dirty' = TRUE
         /\ taken' = IF w[2].kind = "sfn" THEN taken \cup TakenBy(w) ELSE taken
  /\ Step /\ UNCHANGED bare

sync_fs ==
  /\ todo = Sync
  /\ disk' = Stored /\ dirty' = FALSE
  /\ UNCHANGED <<table, sect, bare, taken>> /\ Step

Fails ==
  /\ faults < MaxFault /\ faults' = faults + 1
  /\ todo' = <<>> /\ Returned(table')
  /\ UNCHANGED taken

\* The sector that the next step reads, 0: it stores the window only.
Needs(w) == IF w = Link THEN Fat ELSE IF IsWrite(w) THEN Sector(w[1]) ELSE 0

\* The window is not stored, or its new sector not read: the call ends.
write_error ==
  /\ todo # <<>> /\ Head(todo)[2].kind # "clear" /\ Needs(Head(todo)) # sect
  /\ \/ dirty /\ disk' \in {disk, Stored} /\ UNCHANGED <<sect, dirty>>
     \/ Needs(Head(todo)) # 0 /\ disk' = Stored /\ sect' = 0 /\ dirty' = FALSE
  /\ bare' = (bare \/ At(Flush))
  /\ UNCHANGED table /\ Fails

\* The zeros are not stored but stay in the window; the sectors of the cluster
\* behind them keep their old entries.
clear_error ==
  \E s \in 1 .. Fat - 1 :
    /\ At(Clear(s))
    /\ table' = Cleared(table, s) /\ disk' \in {disk, Cleared(disk, s)}
    /\ sect' = s /\ dirty' = TRUE
    /\ bare' = (bare \/ s % PerCluster # 0)
    /\ Fails

\* What is in the window is lost, as are zeros not stored.
PowerLoss ==
  /\ table' = disk /\ sect' = 0 /\ dirty' = FALSE
  /\ bare' = \/ bare
             \/ todo # <<>> /\ Head(todo)[2].kind = "clear"
             \/ dirty /\ \E i \in DOMAIN disk : Sector(i) = sect /\ disk[i] = Old
  /\ Fails /\ UNCHANGED disk

----------------------------------------------------------------------------
Init ==
  /\ table = [i \in 1 .. PerSector * PerCluster |-> Blank] /\ disk = table
  /\ names = NamesOf(table) /\ asked = NoName
  /\ bare = FALSE /\ taken = {}
  /\ sect = 0 /\ dirty = FALSE
  /\ todo = <<>>
  /\ faults = 0

Call ==
  /\ todo = <<>>
  /\ \/ \E n \in Typed, f \in File : f_open(n, f) \/ f_mkdir(n, f)
     \/ \E n \in Name : f_unlink(n)
     \/ \E o \in Name, n \in Typed : f_rename(o, n)
     \/ \E n \in Typed : dir_register_denied(n)

dir_next == dir_next_link \/ dir_next_flush \/ dir_next_clear

Next ==
  \/ Call \/ dir_next \/ write_entry \/ sync_fs \/ f_sync
  \/ write_error \/ clear_error \/ PowerLoss

Spec == Init /\ [][Next]_vars

----------------------------------------------------------------------------
(* Properties.                                                             *)

\* To a program a call is one step, when it returns or is cut short.
Names == INSTANCE NameSpace WITH
  damaged <- faults > 0

\* Through short names that are numbered or shared, orphans of a power loss
\* and entries in two sectors, the table is a set of names: no call makes the
\* name of one file lead to another.
NamesRefined == Names!Spec

\* What f_readdir lists is found by dir_find under the name listed, as the
\* same file: their two scans agree.
ListedIsFound ==
  todo = <<>> /\ ~bare =>
    \A e \in dir_read(table) :
      /\ table[e[2]] # Old
      /\ e[1] \in taken \/ FileOf(table, dir_find(table, e[1])) = table[e[2]].file

\* f_rename stores the new entry before it removes the old one ("Start of
\* critical section", ff.c): a file leaves the disk only when it is removed,
\* so that it is there whenever the power fails.
Coming == {todo[k][2].file : k \in {l \in DOMAIN todo : todo[l][2].kind = "sfn"}}
RenamedStays ==
  [][\A f \in Files(disk) \ Files(disk)' : f \notin (Files(table) \cup Coming)']_vars
=============================================================================
