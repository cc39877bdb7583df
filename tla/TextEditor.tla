------------------------------ MODULE TextEditor ------------------------------
(***************************************************************************)
(* The text editor of app/textEditor.c: one buffer of maxFileLen bytes     *)
(* holds the active file; changeFile stores it and loads another.  The     *)
(* disk is FatFs, any of whose calls may fail.                             *)
(*                                                                         *)
(* The scans of the line keys may leave the buffer; what the rest of the   *)
(* memory holds is not known, so that they may stop anywhere in it.        *)
(*                                                                         *)
(* Left out: the window (winX, winY, lineCnt), which only decides what is  *)
(* drawn; keys while no file is active, and keys that change the text at   *)
(* the end of a full buffer or beyond it (InRange), where moveString       *)
(* copies from and to the memory outside.                                  *)
(***************************************************************************)
EXTENDS Naturals, Sequences, FiniteSets, Functions

CONSTANTS
  File,      \* names of the files; each is added once
  NoFile,    \* activeFile = (uint8_t)-1
  Char,      \* what can be typed, the newline included
  Newline,   \* '\n'
  NUL,       \* '\0', what the buffer is filled with
  maxFileLen, \* size of the buffer
  PtrMax,    \* the largest textEditorPtr, 65535 in the code
  CHUNK,     \* sizeof(chunk), 16 in the code
  Stored0,   \* the files on the disk to begin with
  MaxKey,    \* bound: keys that change the text
  MaxFault   \* bound: disk errors

ASSUME FileAssumption == NoFile \notin File
ASSUME CharAssumption == Newline \in Char /\ NUL \notin Char
\* changeFile's search for the end of a text passes over the first character
\* of a chunk: with chunks of one it would find none.
ASSUME SizeAssumption ==
  CHUNK \in Nat \ {0, 1} /\ maxFileLen \in Nat \ {0} /\ maxFileLen % CHUNK = 0
ASSUME PtrAssumption == PtrMax \in Nat /\ maxFileLen <= PtrMax
ASSUME StoredAssumption == Stored0 \in [File -> Seq(Char)]
ASSUME BoundAssumption == MaxKey \in Nat /\ MaxFault \in Nat

VARIABLES
  disk,    \* the text of each file on the disk
  files,   \* inst->files: of the added ones, cursorPos and edited
  activeFile,
  buf,     \* the buffer at filePtr
  cursorPos,
  busy,    \* a key is being drawn; others are dropped
  edited,  \* the window must be painted again
  keys,    \* history: keys that changed the text
  faults,  \* history: disk errors
  strayed  \* history: a line key has looked outside the buffer

vars == <<disk, files, activeFile, buf, cursorPos, busy, edited, keys, faults, strayed>>

Pos   == 0 .. maxFileLen - 1
Ptr   == 0 .. PtrMax
Empty == [i \in Pos |-> NUL]

----------------------------------------------------------------------------
(* The buffer and its text.                                                *)

\* moveString by one place, to the right and to the left.  The last byte but
\* one is not moved to the left.
ShiftRight(from) == [i \in Pos |-> IF i > from THEN buf[i - 1] ELSE buf[i]]
ShiftLeft(to)    == [i \in Pos |-> IF i >= to /\ i + 1 < maxFileLen - 1 THEN buf[i + 1] ELSE buf[i]]
InRange(from)    == from < maxFileLen

\* Arithmetic of textEditorPtr, an unsigned type.
Succ(p) == IF p = PtrMax THEN 0 ELSE p + 1
Pred(p) == IF p = 0 THEN PtrMax ELSE p - 1

\* Where the search from p back to 1 for a newline may stop, 0 when it finds
\* none: at any place outside the buffer, or else at the last one in it.
LastLine(p) ==
  LET Lines == {i \in Pos : 0 < i /\ i <= p /\ buf[i] = Newline}
  IN  IF Lines = {} THEN 0 ELSE CHOOSE i \in Lines : \A j \in Lines : j <= i
Search(p) == {i \in Ptr : maxFileLen <= i /\ i <= p} \cup {LastLine(p)}

\* The places a search leads to: behind the newline, or to the start.
Behind(S) == {IF i = 0 THEN 0 ELSE Succ(i) : i \in S}

getNextLine ==
  LET After == {i \in Pos : i >= cursorPos /\ buf[i] = Newline}
  IN  IF After # {} THEN {1 + CHOOSE i \in After : \A j \in After : i <= j}
      ELSE Behind(Search(cursorPos))

\* With the cursor at 1, behind a newline there, the second search begins at
\* Pred(0): it goes down the memory from the last pointer.
getPreviousLine ==
  UNION {IF i = 0 THEN {0}
         ELSE Behind(Search(Pred(IF i = cursorPos THEN i - 1 ELSE i))) : i \in Search(cursorPos)}

\* Where getPreviousLine and getNextLine look outside the buffer.
AtEnd  == cursorPos >= maxFileLen
AtWrap == cursorPos = 1 /\ 1 \in Pos /\ buf[1] = Newline

\* The text of a buffer goes up to its last character.
TextEnd(b) == LET Used == {i \in Pos : b[i] # NUL} IN
              IF Used = {} THEN 0 ELSE 1 + CHOOSE i \in Used : \A j \in Used : j <= i
Text(b)    == [i \in 1 .. TextEnd(b) |-> b[i - 1]]

\* Where changeFile finds the end of the text: it goes back chunk by chunk to
\* one in which a byte other than the first is used.
SavedEnd(b) ==
  LET Stop == {p \in Pos : p % CHUNK = 0 /\
                 (p = 0 \/ \E i \in p + 1 .. p + CHUNK - 1 : b[i] # NUL)}
  IN  CHUNK + CHOOSE p \in Stop : \A q \in Stop : q <= p

\* strnlen: of each chunk the bytes before its first NUL are written.
Written(b, end) ==
  LET Kept == {i \in 0 .. end - 1 :
                 \A j \in (i - (i % CHUNK)) .. i : b[j] # NUL}
  IN  [n \in 1 .. Cardinality(Kept) |->
         b[CHOOSE i \in Kept : Cardinality({j \in Kept : j < i}) = n - 1]]

\* A file whose first bytes are overwritten and whose rest stays.
Over(old, new) == new \o SubSeq(old, Len(new) + 1, Len(old))

\* The buffer with the first n bytes of a text read into it.
Loaded(text, n) == [i \in Pos |-> IF i < n /\ i < Len(text) THEN text[i + 1] ELSE NUL]

----------------------------------------------------------------------------
(* Files.                                                                  *)

\* Out of memory, addFile returns before it enters the file in the list.
addFile(f) ==
  /\ f \notin DOMAIN files
  /\ files' = [g \in DOMAIN files \cup {f} |->
                 IF g = f THEN [cursorPos |-> 0, edited |-> FALSE] ELSE files[g]]
  /\ UNCHANGED <<disk, activeFile, buf, cursorPos, busy, edited, keys, faults, strayed>>

\* Reading stops at a full buffer; the cursor of the file is restored.
Load(fs, text, f) ==
  /\ activeFile' = f
  /\ buf' = Loaded(text, maxFileLen)
  /\ cursorPos' = fs[f].cursorPos
  /\ files' = fs

MustSave(f) == activeFile \notin {NoFile, f} /\ files[activeFile].edited

\* The cursor goes to the entry of the new file, from which Load takes it.
AfterSaveClears(f) ==
  [files EXCEPT ![f].cursorPos = cursorPos, ![f].edited = FALSE]
AfterSave(f) ==
  [files EXCEPT ![f].cursorPos = cursorPos, ![activeFile].edited = FALSE]

Image == Written(buf, SavedEnd(buf))

\* A change of file without the save: the active file is not edited, or is
\* the file that is loaded once more.
change_load(f) ==
  /\ f \in DOMAIN files /\ ~MustSave(f)
  /\ Load(files, disk[f], f)
  /\ UNCHANGED <<disk, busy, edited, keys, faults, strayed>>

change_save_longer(f) ==
  /\ f \in DOMAIN files /\ MustSave(f)
  /\ disk' = [disk EXCEPT ![activeFile] = Over(@, Image)]
  /\ Load(AfterSave(f), disk[f], f)
  /\ UNCHANGED <<busy, edited, keys, faults, strayed>>

change_save(f) ==
  /\ f \in DOMAIN files /\ MustSave(f)
  /\ disk' = [disk EXCEPT ![activeFile] = Image]
  /\ Load(AfterSave(f), disk[f], f)
  /\ UNCHANGED <<busy, edited, keys, faults, strayed>>

Fault ==
  /\ faults < MaxFault
  /\ faults' = faults + 1
  /\ UNCHANGED <<busy, edited, keys, strayed>>

\* f_open for the save fails, or a write after some chunks: what was written
\* so far is in the file, over its old text.
save_error(f) ==
  /\ f \in DOMAIN files /\ MustSave(f) /\ Fault
  /\ \E n \in 0 .. Len(Image) :
       disk' = [disk EXCEPT ![activeFile] = Over(@, SubSeq(Image, 1, n))]
  /\ UNCHANGED <<files, activeFile, buf, cursorPos>>

\* The result of f_truncate is dropped.
truncate_error(f) ==
  /\ f \in DOMAIN files /\ MustSave(f) /\ Fault
  /\ disk' = [disk EXCEPT ![activeFile] = Over(@, Image)]
  /\ Load(AfterSave(f), disk[f], f)

\* f_open for the load fails: the buffer keeps the old file.
reopen_error(f) ==
  /\ f \in DOMAIN files /\ Fault
  /\ disk' = IF MustSave(f) THEN [disk EXCEPT ![activeFile] = Image] ELSE disk
  /\ files' = IF MustSave(f) THEN AfterSave(f) ELSE files
  /\ UNCHANGED <<activeFile, buf, cursorPos>>

\* f_read fails after some chunks: the new file is active, half loaded, under
\* the old cursor.
read_error(f) ==
  /\ f \in DOMAIN files /\ Fault
  /\ disk' = IF MustSave(f) THEN [disk EXCEPT ![activeFile] = Image] ELSE disk
  /\ files' = IF MustSave(f) THEN AfterSave(f) ELSE files
  /\ activeFile' = f
  /\ \E n \in {i \in Pos : i % CHUNK = 0 /\ i <= Len(disk[f])} : buf' = Loaded(disk[f], n)
  /\ UNCHANGED cursorPos

changeFile(f) ==
  \/ change_load(f) \/ change_save(f)
  \/ save_error(f) \/ truncate_error(f) \/ reopen_error(f) \/ read_error(f)

----------------------------------------------------------------------------
(* Keys.  A key that finds busy set is dropped.                            *)

Key == ~busy /\ activeFile # NoFile /\ busy' = TRUE /\ UNCHANGED <<disk, activeFile, faults>>

Change(b, pos) ==
  /\ keys < MaxKey /\ keys' = keys + 1
  /\ buf' = b
  /\ cursorPos' = pos
  /\ files' = [files EXCEPT ![activeFile].edited = TRUE]
  /\ edited' = TRUE
  /\ UNCHANGED strayed

Move(pos) ==
  /\ cursorPos' = pos
  /\ edited' = TRUE
  /\ UNCHANGED <<files, buf, keys>>

\* At the start or the end of the text the handler returns with busy set.
Nothing == UNCHANGED <<files, buf, cursorPos, edited, keys, strayed>>

backspace ==
  /\ Key
  /\ IF cursorPos = 0 THEN Nothing
     ELSE InRange(cursorPos) /\ Change(ShiftLeft(cursorPos - 1), cursorPos - 1)

delete ==
  /\ Key /\ InRange(cursorPos + 1)
  /\ Change(ShiftLeft(cursorPos), cursorPos)

type_quietly(c) ==
  /\ Key /\ InRange(cursorPos)
  /\ keys < MaxKey /\ keys' = keys + 1
  /\ buf' = [ShiftRight(cursorPos) EXCEPT ![cursorPos] = c]
  /\ cursorPos' = cursorPos + 1
  /\ edited' = TRUE
  /\ UNCHANGED <<files, strayed>>

type(c) ==
  /\ Key /\ InRange(cursorPos)
  /\ Change([ShiftRight(cursorPos) EXCEPT ![cursorPos] = c], cursorPos + 1)

goLeft_unchecked == Key /\ Move(Pred(cursorPos)) /\ UNCHANGED strayed

textEditor_goLeft ==
  /\ Key
  /\ IF cursorPos > 0 THEN Move(cursorPos - 1) /\ UNCHANGED strayed ELSE Nothing

textEditor_goRight ==
  /\ Key
  /\ IF cursorPos < maxFileLen /\ buf[cursorPos] # NUL
     THEN Move(cursorPos + 1) /\ UNCHANGED strayed ELSE Nothing

textEditor_goUp ==
  /\ Key
  /\ \E pos \in getPreviousLine : Move(pos)
  /\ strayed' = (strayed \/ AtEnd \/ AtWrap)

textEditor_goDown ==
  /\ Key
  /\ \E pos \in getNextLine : Move(pos)
  /\ strayed' = (strayed \/ AtEnd)

----------------------------------------------------------------------------
(* textEditor_Idle: paint what was edited, which may ask for another        *)
(* painting; then blink the cursor when the timer has elapsed.             *)

idle_lazy(tick) ==
  /\ edited' \in BOOLEAN /\ (edited' => edited)
  /\ busy' = (busy /\ ~edited)
  /\ UNCHANGED <<disk, files, activeFile, buf, cursorPos, keys, faults, strayed>>

textEditor_Idle(tick) ==
  /\ edited' \in BOOLEAN
  /\ edited' => edited \/ tick
  /\ tick => edited'
  /\ busy' = (busy /\ ~edited)
  /\ UNCHANGED <<disk, files, activeFile, buf, cursorPos, keys, faults, strayed>>

----------------------------------------------------------------------------
Init ==
  /\ disk = Stored0
  /\ files = <<>>
  /\ activeFile = NoFile
  /\ buf = Empty
  /\ cursorPos = 0
  /\ busy = FALSE
  /\ edited = TRUE
  /\ keys = 0
  /\ faults = 0
  /\ strayed = FALSE

KeyStep ==
  \/ backspace \/ delete \/ \E c \in Char : type(c)
  \/ textEditor_goLeft \/ textEditor_goRight \/ textEditor_goUp \/ textEditor_goDown

FileStep == \E f \in File : addFile(f) \/ changeFile(f)

Next == FileStep \/ KeyStep \/ \E tick \in BOOLEAN : textEditor_Idle(tick)

Spec == Init /\ [][Next]_vars

\* The main loop polls the editor for ever, and its timer elapses again and
\* again: keys restart it, but none that finds busy set.
FairSpec == Spec /\ WF_vars(textEditor_Idle(TRUE))

----------------------------------------------------------------------------
(* Properties.                                                             *)

\* The cursor, and every cursor kept for a file, is in the buffer or at its
\* end, whatever the order of keys, saves and loads, until a line key has
\* looked outside: getPreviousLine at a newline on position 1, or a line key
\* at the end of a full buffer.
CursorInside ==
  ~strayed => /\ cursorPos \in 0 .. maxFileLen
              /\ \A f \in DOMAIN files : files[f].cursorPos \in 0 .. maxFileLen

\* Every variable keeps its type, and the cursors their buffer.
TypeOK ==
  /\ disk \in [File -> Seq(Char)]
  /\ DOMAIN files \subseteq File
  /\ \A f \in DOMAIN files : files[f] \in [cursorPos : Ptr, edited : BOOLEAN]
  /\ activeFile \in DOMAIN files \cup {NoFile}
  /\ buf \in [Pos -> Char \cup {NUL}]
  /\ cursorPos \in Ptr
  /\ busy \in BOOLEAN /\ edited \in BOOLEAN /\ strayed \in BOOLEAN
  /\ CursorInside

\* Only the active file can have changes that are not on the disk: no failed
\* save and no failed load leaves a changed file behind.
OnlyActiveEdited ==
  \A f \in DOMAIN files : files[f].edited => f = activeFile

\* A buffer not marked as edited is the file on the disk, as far as it fits:
\* no key changes the text without the mark that makes changeFile store it.
\* (A failed read breaks this: the half loaded file looks unedited.)
UneditedIsStored ==
  activeFile # NoFile /\ faults = 0 /\ ~files[activeFile].edited
    => buf = Loaded(disk[activeFile], maxFileLen)

\* A change of file without disk errors leaves on the disk the text that was
\* in the buffer.  Left out are the texts SavedIsEdited is about, and those a
\* cursor restored beyond their end has put a NUL into.
SaveStores ==
  [][\A f \in File :
       (activeFile # f /\ activeFile' = f /\ activeFile # NoFile /\ faults' = 0
          /\ Text(buf) \in Seq(Char) /\ (TextEnd(buf) % CHUNK # 1 \/ TextEnd(buf) = 1)
          /\ Len(disk[activeFile]) <= maxFileLen)
       => disk'[activeFile] = Text(buf)]_vars

\* changeFile searches the end of the text: whatever the text, all of it is
\* on the disk afterwards.
SavedIsEdited ==
  [][\A f \in File :
       (activeFile # f /\ activeFile' = f /\ activeFile # NoFile /\ faults' = 0
          /\ files[activeFile].edited /\ Text(buf) \in Seq(Char))
       => disk'[activeFile] = Text(buf)]_vars

\* A key never blocks the keyboard for good: busy is cleared by a painting,
\* also for the keys that change nothing and ask for none.
KeysReturn == busy ~> ~busy
=============================================================================
