--------------------------- MODULE TextEditorProofs ---------------------------
(***************************************************************************)
(* Proofs about module TextEditor, for any files, any size of the buffer   *)
(* and of the chunks, and any number of keys and disk errors.              *)
(***************************************************************************)
EXTENDS TextEditor, FiniteSetTheorems, WellFoundedInduction, TLAPS

----------------------------------------------------------------------------
(* Numbers and finite sets.                                                *)

LEMMA MinIn ==
  ASSUME NEW S \in SUBSET Nat, S # {}
  PROVE  \E x \in S : \A y \in S : x <= y
<1>1. \E x \in S : \A y \in S : ~ (<<y, x>> \in OpToRel(<, Nat))
  <2> DEFINE R == OpToRel(<, Nat)
  <2>1. IsWellFoundedOn(R, Nat)
    BY NatLessThanWellFounded
  <2> HIDE DEF R
  <2>2. \E x \in S : \A y \in S : ~ (<<y, x>> \in R)
    BY <2>1, WFMin
  <2> QED
    BY <2>2 DEF R
<1>2. \E x \in S : \A y \in S : ~ (y < x)
  BY <1>1, Zenon DEF OpToRel
<1> QED
  BY <1>2

LEMMA MaxIn ==
  ASSUME NEW m \in Nat, NEW S \in SUBSET (0 .. m), S # {}
  PROVE  \E x \in S : \A y \in S : y <= x
<1> DEFINE D == {m - i : i \in S}
<1>1. D \in SUBSET Nat /\ D # {}
  <2>1. \A i \in S : m - i \in Nat
    OBVIOUS
  <2> QED
    BY <2>1
<1>2. PICK d \in D : \A e \in D : d <= e
  <2> HIDE DEF D
  <2> QED
    BY <1>1, MinIn
<1>3. PICK x \in S : d = m - x
  BY <1>2
<1>4. \A y \in S : d <= m - y
  <2>1. \A y \in S : m - y \in D
    OBVIOUS
  <2> HIDE DEF D
  <2> QED
    BY <2>1, <1>2
<1>5. ASSUME NEW y \in S
      PROVE  y <= x
  <2>1. m - x <= m - y /\ x \in 0 .. m /\ y \in 0 .. m
    BY <1>3, <1>4
  <2> QED
    BY <2>1
<1> QED
  BY <1>5

\* A set of n numbers has one with k below it, for every k less than n.
LEMMA Ranked ==
  ASSUME NEW m \in Nat, NEW K \in SUBSET (0 .. m), NEW k \in Nat,
         k < Cardinality(K)
  PROVE  \E i \in K : Cardinality({j \in K : j < i}) = k
<1> DEFINE Below(i) == {j \in K : j < i}
           T == {i \in K : Cardinality(Below(i)) >= k}
<1>1. IsFiniteSet(0 .. m)
  BY FS_Interval
<1>2. IsFiniteSet(K) /\ Cardinality(K) \in Nat
  BY <1>1, FS_Subset, FS_CardinalityType
<1>3. ASSUME NEW i \in K
      PROVE  /\ IsFiniteSet(Below(i)) /\ Cardinality(Below(i)) \in Nat
             /\ Below(i) \in SUBSET (0 .. m)
  <2>1. Below(i) \in SUBSET K
    OBVIOUS
  <2> QED
    BY <2>1, <1>2, FS_Subset, FS_CardinalityType
<1>4. \A S, x : IsFiniteSet(S) /\ x \in S => Cardinality(S \ {x}) = Cardinality(S) - 1
  BY FS_RemoveElement
<1>5. T # {}
  <2>1. K # {}
    BY <1>2, FS_EmptySet
  <2>2. PICK x \in K : \A y \in K : y <= x
    BY <2>1, MaxIn
  <2>3. Below(x) = K \ {x}
    <3>1. \A y \in K : y \in 0 .. m
      OBVIOUS
    <3>2. \A y \in K : y < x <=> y # x
      BY <2>2, <3>1
    <3> QED
      BY <3>2
  <2>4. Cardinality(Below(x)) = Cardinality(K) - 1
    BY <2>3, <1>2, <1>4
  <2> QED
    BY <2>4, <1>2
<1>6. PICK i \in T : \A y \in T : i <= y
  <2>1. T \in SUBSET Nat
    <3>1. \A y \in K : y \in Nat
      OBVIOUS
    <3> QED
      BY <3>1
  <2> HIDE DEF T
  <2> QED
    BY <2>1, <1>5, MinIn
<1>7. CASE Cardinality(Below(i)) # k
  <2>1. Below(i) # {}
    BY <1>3, <1>6, <1>7, FS_EmptySet
  <2>2. PICK p \in Below(i) : \A y \in Below(i) : y <= p
    BY <2>1, <1>3, <1>6, MaxIn
  <2>3. Below(p) = Below(i) \ {p}
    <3>1. \A y \in K : y \in 0 .. m
      OBVIOUS
    <3>2. \A y \in K : y < p <=> y < i /\ y # p
      BY <2>2, <3>1
    <3> QED
      BY <3>2
  <2>4. Cardinality(Below(p)) = Cardinality(Below(i)) - 1
    BY <2>2, <2>3, <1>3, <1>4, <1>6
  <2>5. p \in T
    BY <2>2, <2>4, <1>3, <1>6, <1>7
  <2> QED
    BY <2>2, <2>5, <1>6
<1> QED
  BY <1>6, <1>7

----------------------------------------------------------------------------
(* What changeFile writes.                                                 *)

Buffer == [Pos -> Char \cup {NUL}]
FileEntry == [cursorPos : Ptr, edited : BOOLEAN]
Inside == 0 .. maxFileLen

\* The chunks fill the buffer, so that one which begins in it ends in it.
LEMMA ChunkFits ==
  ASSUME NEW p \in Pos, p % CHUNK = 0
  PROVE  p + CHUNK <= maxFileLen
<1>1. /\ CHUNK \in Nat /\ CHUNK > 0 /\ maxFileLen \in Nat /\ p \in Nat
      /\ maxFileLen % CHUNK = 0 /\ p < maxFileLen
  BY SizeAssumption DEF Pos
<1>2. \E q \in Nat : p = CHUNK * q
  <2>1. p \div CHUNK \in Nat /\ p = CHUNK * (p \div CHUNK) + (p % CHUNK)
    BY <1>1
  <2> QED
    BY <2>1, <1>1
<1>3. \E r \in Nat : maxFileLen = CHUNK * r
  BY <1>1
<1>4. PICK q \in Nat, r \in Nat : p = CHUNK * q /\ maxFileLen = CHUNK * r
  BY <1>2, <1>3
<1>5. q + 1 <= r
  BY <1>1, <1>4
<1>6. CHUNK * (q + 1) <= CHUNK * r
  BY <1>1, <1>5
<1> QED
  BY <1>1, <1>4, <1>6

LEMMA SavedEndType ==
  ASSUME buf \in Buffer
  PROVE  SavedEnd(buf) \in 0 .. maxFileLen
<1> DEFINE Stop == {p \in Pos : p % CHUNK = 0 /\
                     (p = 0 \/ \E i \in p + 1 .. p + CHUNK - 1 : buf[i] # NUL)}
<1>1. Stop # {}
  <2>1. 0 \in Pos /\ 0 % CHUNK = 0
    BY SizeAssumption DEF Pos
  <2> QED
    BY <2>1
<1>2. Stop \in SUBSET (0 .. maxFileLen - 1) /\ maxFileLen - 1 \in Nat
  BY SizeAssumption DEF Pos
<1>3. \E p \in Stop : \A q \in Stop : q <= p
  <2> HIDE DEF Stop
  <2> QED
    BY <1>1, <1>2, MaxIn
<1>4. SavedEnd(buf) = CHUNK + CHOOSE p \in Stop : \A q \in Stop : q <= p
  BY Zenon DEF SavedEnd
<1>5. PICK p \in Stop : SavedEnd(buf) = CHUNK + p
  BY <1>3, <1>4
<1>6. p \in Pos /\ p % CHUNK = 0
  OBVIOUS
<1>7. p + CHUNK <= maxFileLen
  BY <1>6, ChunkFits
<1> QED
  BY <1>5, <1>6, <1>7, SizeAssumption DEF Pos

\* The bytes written are characters of the buffer.
LEMMA ImageType ==
  ASSUME buf \in Buffer
  PROVE  Image \in Seq(Char)
<1> DEFINE end == SavedEnd(buf)
           Kept == {i \in 0 .. end - 1 :
                      \A j \in (i - (i % CHUNK)) .. i : buf[j] # NUL}
           Nth(n) == CHOOSE i \in Kept : Cardinality({j \in Kept : j < i}) = n - 1
<1>1. end \in 0 .. maxFileLen
  BY SavedEndType
<1>2. Image = [n \in 1 .. Cardinality(Kept) |-> buf[Nth(n)]]
  BY Zenon DEF Image, Written
<1>3. \A i \in Kept : buf[i] \in Char
  <2> SUFFICES ASSUME NEW i \in Kept PROVE buf[i] \in Char
    OBVIOUS
  <2> HIDE DEF end
  <2>1. i \in Pos
    BY <1>1, SizeAssumption DEF Pos
  <2>2. i % CHUNK \in 0 .. CHUNK - 1
    BY <2>1, SizeAssumption DEF Pos
  <2>3. i \in (i - (i % CHUNK)) .. i
    BY <2>1, <2>2, SizeAssumption DEF Pos
  <2> QED
    BY <2>1, <2>3 DEF Buffer
<1> HIDE DEF end
<1>4. Kept \in SUBSET (0 .. maxFileLen)
  BY <1>1, SizeAssumption
<1>5. Cardinality(Kept) \in Nat
  <2>1. IsFiniteSet(0 .. maxFileLen)
    BY SizeAssumption, FS_Interval
  <2> HIDE DEF Kept
  <2> QED
    BY <2>1, <1>4, FS_Subset, FS_CardinalityType
<1>6. ASSUME NEW n \in 1 .. Cardinality(Kept)
      PROVE  Nth(n) \in Kept
  <2> HIDE DEF Kept
  <2> DEFINE k == n - 1
  <2>1. k \in Nat /\ k < Cardinality(Kept) /\ maxFileLen \in Nat
    BY <1>5, SizeAssumption
  <2> HIDE DEF k
  <2>2. \E i \in Kept : Cardinality({j \in Kept : j < i}) = k
    BY <2>1, <1>4, Ranked, Zenon
  <2> QED
    BY <2>2 DEF k
<1> HIDE DEF Kept, Nth
<1>7. Image \in [1 .. Cardinality(Kept) -> Char]
  BY <1>2, <1>3, <1>6
<1> QED
  BY <1>5, <1>7

LEMMA LoadedType ==
  ASSUME NEW text \in Seq(Char), NEW n \in Nat
  PROVE  Loaded(text, n) \in Buffer
<1>1. \A i \in Pos : i < Len(text) => text[i + 1] \in Char
  BY SizeAssumption DEF Pos
<1> QED
  BY <1>1 DEF Loaded, Buffer

LEMMA OverType ==
  ASSUME NEW old \in Seq(Char), NEW new \in Seq(Char)
  PROVE  Over(old, new) \in Seq(Char)
<1>1. SubSeq(old, Len(new) + 1, Len(old)) \in Seq(Char)
  BY Len(new) \in Nat /\ Len(old) \in Nat
<1> QED
  BY <1>1 DEF Over

LEMMA PrefixType ==
  ASSUME NEW s \in Seq(Char), NEW n \in 0 .. Len(s)
  PROVE  SubSeq(s, 1, n) \in Seq(Char)
OBVIOUS

LEMMA ShiftTypes ==
  ASSUME buf \in Buffer, NEW k \in 0 .. maxFileLen
  PROVE  /\ ShiftLeft(k) \in Buffer
         /\ \A c \in Char : [ShiftRight(k) EXCEPT ![k] = c] \in Buffer
<1>1. \A i \in Pos : i >= k /\ i + 1 < maxFileLen - 1 => i + 1 \in Pos
  BY SizeAssumption DEF Pos
<1>2. \A i \in Pos : i > k => i - 1 \in Pos
  BY SizeAssumption DEF Pos
<1>3. ShiftLeft(k) \in Buffer
  BY <1>1 DEF ShiftLeft, Buffer
<1>4. ShiftRight(k) \in Buffer
  BY <1>2 DEF ShiftRight, Buffer
<1> QED
  BY <1>3, <1>4 DEF Buffer

\* A search back from p stops at 0, at a newline of the buffer, or outside.
LEMMA SearchTypes ==
  ASSUME NEW p \in Ptr, NEW i \in Search(p)
  PROVE  /\ i \in Ptr
         /\ p \in Pos => i \in Pos /\ (i = 0 \/ (i <= p /\ buf[i] = Newline))
<1> DEFINE Lines == {j \in Pos : 0 < j /\ j <= p /\ buf[j] = Newline}
<1>1. (i \in Ptr /\ maxFileLen <= i /\ i <= p) \/ i = LastLine(p)
  BY DEF Search
<1>2. LastLine(p) = IF Lines = {} THEN 0 ELSE CHOOSE k \in Lines : \A j \in Lines : j <= k
  BY Zenon DEF LastLine
<1>3. LastLine(p) \in {0} \cup Lines
  <2>1. Lines \in SUBSET (0 .. maxFileLen - 1) /\ maxFileLen - 1 \in Nat
    BY SizeAssumption DEF Pos
  <2>2. Lines # {} => \E k \in Lines : \A j \in Lines : j <= k
    <3> HIDE DEF Lines
    <3> QED
      BY <2>1, MaxIn
  <2> HIDE DEF Lines
  <2> QED
    BY <1>2, <2>2
<1>4. CASE i \in Ptr /\ maxFileLen <= i /\ i <= p
  BY <1>4, SizeAssumption DEF Pos, Ptr
<1>5. CASE i = LastLine(p)
  <2>1. i \in {0} \cup Lines
    BY <1>3, <1>5
  <2>2. 0 \in Pos /\ \A k \in Pos : k \in Ptr
    BY SizeAssumption, PtrAssumption DEF Pos, Ptr
  <2> QED
    BY <2>1, <2>2
<1> QED
  BY <1>1, <1>4, <1>5

LEMMA BehindTypes ==
  ASSUME NEW S \in SUBSET Ptr
  PROVE  /\ Behind(S) \in SUBSET Ptr
         /\ S \in SUBSET Pos => Behind(S) \in SUBSET Inside
<1>1. \A i \in Ptr : (IF i = 0 THEN 0 ELSE Succ(i)) \in Ptr
  BY PtrAssumption DEF Ptr, Succ
<1>2. \A i \in Pos : (IF i = 0 THEN 0 ELSE Succ(i)) \in Inside
  BY PtrAssumption, SizeAssumption DEF Pos, Inside, Succ
<1> QED
  BY <1>1, <1>2 DEF Behind

\* Where the line keys lead; they stay in the buffer as long as they do not
\* look outside.
LEMMA NextLineTypes ==
  ASSUME buf \in Buffer, cursorPos \in Ptr
  PROVE  /\ getNextLine \in SUBSET Ptr
         /\ ~ AtEnd => getNextLine \in SUBSET Inside
<1> DEFINE After == {i \in Pos : i >= cursorPos /\ buf[i] = Newline}
           first == CHOOSE i \in After : \A j \in After : i <= j
<1>1. getNextLine = IF After # {} THEN {1 + first} ELSE Behind(Search(cursorPos))
  BY Zenon DEF getNextLine
<1>2. CASE After # {}
  <2>1. After \in SUBSET Nat
    BY SizeAssumption DEF Pos
  <2>2. \E i \in After : \A j \in After : i <= j
    <3> HIDE DEF After
    <3> QED
      BY <2>1, <1>2, MinIn
  <2>3. first \in Pos
    BY <2>2
  <2> HIDE DEF first, After
  <2>4. 1 + first \in Ptr /\ 1 + first \in Inside
    BY <2>3, PtrAssumption, SizeAssumption DEF Pos, Ptr, Inside
  <2> QED
    BY <1>1, <1>2, <2>4
<1>3. CASE After = {}
  <2>1. Search(cursorPos) \in SUBSET Ptr
    BY SearchTypes
  <2>2. ~ AtEnd => Search(cursorPos) \in SUBSET Pos
    <3>1. ~ AtEnd => cursorPos \in Pos
      BY SizeAssumption DEF AtEnd, Pos, Ptr
    <3> QED
      BY <3>1, SearchTypes
  <2> HIDE DEF After
  <2> QED
    BY <1>1, <1>3, <2>1, <2>2, BehindTypes
<1> QED
  BY <1>2, <1>3

LEMMA PreviousLineTypes ==
  ASSUME buf \in Buffer, cursorPos \in Ptr, NEW pos \in getPreviousLine
  PROVE  /\ pos \in Ptr
         /\ ~ AtEnd /\ ~ AtWrap => pos \in Inside
<1>0. 0 \in Ptr /\ 0 \in Inside
  BY PtrAssumption, SizeAssumption DEF Ptr, Inside
<1>1. PICK i \in Search(cursorPos) :
        pos \in IF i = 0 THEN {0}
                ELSE Behind(Search(Pred(IF i = cursorPos THEN i - 1 ELSE i)))
  BY Zenon DEF getPreviousLine
<1>2. CASE i = 0
  BY <1>0, <1>1, <1>2
<1>3. CASE i # 0
  <2> DEFINE start == IF i = cursorPos THEN i - 1 ELSE i
             q == Pred(start)
  <2>1. i \in Ptr /\ pos \in Behind(Search(q))
    BY <1>1, <1>3, SearchTypes
  <2>2. start \in Ptr /\ q \in Ptr
    BY <2>1, <1>3, PtrAssumption DEF Ptr, Pred
  <2>3. pos \in Ptr
    <3> HIDE DEF q
    <3>1. Search(q) \in SUBSET Ptr
      BY <2>2, SearchTypes
    <3> QED
      BY <2>1, <3>1, BehindTypes
  <2>4. ASSUME ~ AtEnd, ~ AtWrap
        PROVE  pos \in Inside
    <3>1. cursorPos \in Pos
      BY <2>4, SizeAssumption DEF AtEnd, Pos, Ptr
    <3>2. i \in Pos /\ i <= cursorPos /\ buf[i] = Newline
      BY <1>3, <3>1, SearchTypes
    <3>3. start # 0
      <4>1. start = 0 => i = 1 /\ cursorPos = 1
        BY <1>3, <3>2, SizeAssumption DEF Pos
      <4>2. ~ (i = 1 /\ cursorPos = 1)
        BY <3>2, <2>4 DEF AtWrap
      <4> HIDE DEF start
      <4> QED
        BY <4>1, <4>2
    <3>4. q \in Pos
      <4>1. start \in Pos
        BY <1>3, <3>2, SizeAssumption DEF Pos
      <4> HIDE DEF start
      <4>2. q = start - 1 /\ start - 1 \in Pos
        BY <3>3, <4>1, SizeAssumption DEF Pos, Pred
      <4> QED
        BY <4>2
    <3> HIDE DEF q
    <3>5. Search(q) \in SUBSET Pos /\ Search(q) \in SUBSET Ptr
      BY <2>2, <3>4, SearchTypes
    <3> QED
      BY <2>1, <3>5, BehindTypes
  <2> QED
    BY <2>3, <2>4
<1> QED
  BY <1>2, <1>3

----------------------------------------------------------------------------
(* The invariant.                                                          *)

Inv ==
  /\ TypeOK
  /\ files \in [DOMAIN files -> FileEntry]
  /\ keys \in Nat /\ faults \in Nat
  /\ OnlyActiveEdited
  /\ UneditedIsStored

LEMMA InitInv == Init => Inv
<1> SUFFICES ASSUME Init PROVE Inv
  OBVIOUS
<1>1. DOMAIN files = {} /\ files \in [DOMAIN files -> FileEntry]
  BY DEF Init
<1>2. buf \in [Pos -> Char \cup {NUL}]
  BY DEF Init, Empty
<1>3. TypeOK
  <2>1. disk \in [File -> Seq(Char)]
    BY StoredAssumption DEF Init
  <2>2. cursorPos \in Ptr
    BY PtrAssumption DEF Init, Ptr
  <2>3. busy \in BOOLEAN /\ edited \in BOOLEAN /\ strayed \in BOOLEAN /\ activeFile = NoFile
    BY DEF Init
  <2>4. CursorInside
    BY <1>1, SizeAssumption DEF Init, CursorInside
  <2> QED
    BY <1>1, <1>2, <2>1, <2>2, <2>3, <2>4 DEF TypeOK
<1> QED
  BY <1>1, <1>3 DEF Init, Inv, OnlyActiveEdited, UneditedIsStored

\* A file is entered in the list with its cursor at the start and unedited.
LEMMA AddFileInv ==
  ASSUME Inv, NEW f \in File, addFile(f)
  PROVE  Inv'
<1>1. /\ DOMAIN files' = DOMAIN files \cup {f} /\ f \notin DOMAIN files
      /\ \A g \in DOMAIN files : files'[g] = files[g]
      /\ files'[f] = [cursorPos |-> 0, edited |-> FALSE]
  BY DEF addFile
<1>2. [cursorPos |-> 0, edited |-> FALSE] \in FileEntry
  BY PtrAssumption DEF FileEntry, Ptr
<1>3. files' \in [DOMAIN files' -> FileEntry]
  <2>1. \A g \in DOMAIN files' : files'[g] \in FileEntry
    BY <1>1, <1>2 DEF Inv
  <2>2. files' = [g \in DOMAIN files' |-> files'[g]]
    BY <1>1 DEF addFile
  <2> QED
    BY <2>1, <2>2
<1>4. TypeOK'
  <2>1. CursorInside'
    BY <1>1, SizeAssumption DEF addFile, Inv, TypeOK, CursorInside
  <2> QED
    BY <1>1, <1>3, <2>1 DEF addFile, Inv, TypeOK, FileEntry
<1>5. OnlyActiveEdited'
  BY <1>1 DEF addFile, Inv, OnlyActiveEdited
<1>6. UneditedIsStored'
  BY <1>1, FileAssumption DEF addFile, Inv, TypeOK, UneditedIsStored
<1> QED
  BY <1>3, <1>4, <1>5, <1>6 DEF addFile, Inv

\* The list after a save: the new file has the cursor, the active one is no
\* longer edited.
LEMMA AfterSaveList ==
  ASSUME Inv, NEW f \in DOMAIN files, MustSave(f)
  PROVE  /\ AfterSave(f) \in [DOMAIN files -> FileEntry]
         /\ DOMAIN AfterSave(f) = DOMAIN files
         /\ activeFile \in DOMAIN files /\ activeFile # f /\ activeFile # NoFile
         /\ \A g \in DOMAIN files : ~ AfterSave(f)[g].edited
         /\ \A g \in DOMAIN files :
              AfterSave(f)[g].cursorPos \in {cursorPos, files[g].cursorPos}
<1> DEFINE mid == [files EXCEPT ![f].cursorPos = cursorPos]
<1>1. activeFile \in DOMAIN files /\ activeFile # f /\ activeFile # NoFile
  BY DEF Inv, TypeOK, MustSave
<1>2. AfterSave(f) = [mid EXCEPT ![activeFile].edited = FALSE]
  BY DEF AfterSave
<1>3. /\ mid \in [DOMAIN files -> FileEntry]
      /\ \A g \in DOMAIN files :
           /\ mid[g].edited = files[g].edited
           /\ mid[g].cursorPos \in {cursorPos, files[g].cursorPos}
  BY DEF Inv, TypeOK, FileEntry
<1>4. \A g \in DOMAIN files : g # activeFile => ~ files[g].edited
  BY DEF Inv, OnlyActiveEdited
<1> HIDE DEF mid
<1>5. AfterSave(f) \in [DOMAIN files -> FileEntry]
  BY <1>1, <1>2, <1>3 DEF FileEntry
<1>6. \A g \in DOMAIN files : ~ AfterSave(f)[g].edited
  <2>1. /\ ~ AfterSave(f)[activeFile].edited
        /\ \A g \in DOMAIN files : g # activeFile => AfterSave(f)[g] = mid[g]
    BY <1>1, <1>2, <1>3 DEF FileEntry
  <2> QED
    BY <2>1, <1>3, <1>4
<1>7. \A g \in DOMAIN files : AfterSave(f)[g].cursorPos = mid[g].cursorPos
  BY <1>1, <1>2, <1>3 DEF FileEntry
<1> QED
  BY <1>1, <1>3, <1>5, <1>6, <1>7

\* Without a save no other file than the one loaded is edited.
LEMMA NoSaveList ==
  ASSUME Inv, NEW f \in DOMAIN files, ~ MustSave(f)
  PROVE  \A g \in DOMAIN files : files[g].edited => g = f /\ g = activeFile
BY FileAssumption DEF Inv, TypeOK, MustSave, OnlyActiveEdited

\* What the steps of changeFile have in common.
Changed(f) ==
  /\ disk' \in [File -> Seq(Char)]
  /\ DOMAIN files' = DOMAIN files
  /\ files' \in [DOMAIN files -> FileEntry]
  /\ \A g \in DOMAIN files : files'[g].edited => g = activeFile'
  /\ activeFile' \in {activeFile, f}
  /\ buf' \in Buffer
  /\ cursorPos' \in {cursorPos, files'[f].cursorPos}
  /\ \A g \in DOMAIN files : files'[g].cursorPos \in {cursorPos, files[g].cursorPos}
  /\ UNCHANGED <<busy, edited, keys, strayed>>
  /\ faults' \in {faults, faults + 1}
  /\ faults' = faults => activeFile' = f /\ buf' = Loaded(disk'[f], maxFileLen)

LEMMA ChangedInv ==
  ASSUME Inv, NEW f \in DOMAIN files, Changed(f)
  PROVE  Inv'
<1>1. TypeOK'
  <2>1. cursorPos' \in Ptr
    BY DEF Inv, TypeOK, Changed, FileEntry
  <2>2. CursorInside'
    BY DEF Inv, TypeOK, Changed, CursorInside
  <2> QED
    BY <2>1, <2>2 DEF Inv, TypeOK, Changed, FileEntry, Buffer
<1>2. OnlyActiveEdited'
  BY DEF Inv, Changed, OnlyActiveEdited
<1>3. UneditedIsStored'
  BY DEF Inv, Changed, UneditedIsStored
<1>4. keys' \in Nat /\ faults' \in Nat
  BY DEF Inv, Changed
<1>5. files' \in [DOMAIN files' -> FileEntry]
  BY DEF Changed
<1> QED
  BY <1>1, <1>2, <1>3, <1>4, <1>5 DEF Inv

\* What is on the disk after the active file was written, wholly or in part.
LEMMA DiskTypes ==
  ASSUME Inv, NEW n \in 0 .. Len(Image)
  PROVE  /\ [disk EXCEPT ![activeFile] = Image] \in [File -> Seq(Char)]
         /\ [disk EXCEPT ![activeFile] = Over(@, Image)] \in [File -> Seq(Char)]
         /\ [disk EXCEPT ![activeFile] = Over(@, SubSeq(Image, 1, n))] \in [File -> Seq(Char)]
<1>1. Image \in Seq(Char)
  BY ImageType DEF Inv, TypeOK, Buffer
<1>2. SubSeq(Image, 1, n) \in Seq(Char)
  BY <1>1, PrefixType
<1>3. disk \in [File -> Seq(Char)]
  BY DEF Inv, TypeOK
<1>4. \A new \in Seq(Char) : [disk EXCEPT ![activeFile] = Over(@, new)] \in [File -> Seq(Char)]
  <2>1. \A new \in Seq(Char) : \A g \in File : Over(disk[g], new) \in Seq(Char)
    BY <1>3, OverType
  <2> QED
    BY <1>3, <2>1
<1> QED
  BY <1>1, <1>2, <1>3, <1>4

LEMMA LoadTypes ==
  ASSUME Inv, NEW f \in DOMAIN files, NEW n \in Nat
  PROVE  Loaded(disk[f], n) \in Buffer /\ disk[f] \in Seq(Char)
<1>1. disk[f] \in Seq(Char)
  BY DEF Inv, TypeOK
<1> QED
  BY <1>1, LoadedType

LEMMA ChangeLoadInv ==
  ASSUME Inv, NEW f \in File, change_load(f)
  PROVE  Inv'
<1>1. f \in DOMAIN files /\ ~ MustSave(f)
  BY DEF change_load
<1>2. \A g \in DOMAIN files : files[g].edited => g = f
  BY <1>1, NoSaveList
<1>3. Loaded(disk[f], maxFileLen) \in Buffer
  BY <1>1, LoadTypes, SizeAssumption
<1>5. Changed(f)
  BY <1>1, <1>2, <1>3 DEF change_load, Load, Changed, Inv, TypeOK
<1> QED
  BY <1>1, <1>5, ChangedInv

LEMMA ChangeSaveInv ==
  ASSUME Inv, NEW f \in File, change_save(f)
  PROVE  Inv'
<1>1. f \in DOMAIN files /\ MustSave(f)
  BY DEF change_save
<1>2. /\ AfterSave(f) \in [DOMAIN files -> FileEntry]
      /\ DOMAIN AfterSave(f) = DOMAIN files
      /\ activeFile # f
      /\ \A g \in DOMAIN files : ~ AfterSave(f)[g].edited
      /\ \A g \in DOMAIN files : AfterSave(f)[g].cursorPos \in {cursorPos, files[g].cursorPos}
  BY <1>1, AfterSaveList
<1>3. Loaded(disk[f], maxFileLen) \in Buffer
  BY <1>1, LoadTypes, SizeAssumption
<1>4. disk' \in [File -> Seq(Char)]
  <2>1. 0 \in 0 .. Len(Image)
    <3>1. Image \in Seq(Char)
      BY ImageType DEF Inv, TypeOK, Buffer
    <3> QED
      BY <3>1
  <2> QED
    BY <2>1, DiskTypes DEF change_save
<1>5. disk'[f] = disk[f]
  BY <1>2 DEF change_save, Inv, TypeOK
<1>6. Changed(f)
  BY <1>1, <1>2, <1>3, <1>4, <1>5 DEF change_save, Load, Changed
<1> QED
  BY <1>1, <1>6, ChangedInv

\* A step that meets a disk error: the buffer may be left as it is, or hold a
\* part of the new file.
LEMMA FaultChanged ==
  ASSUME Inv, NEW f \in DOMAIN files, Fault,
         disk' \in [File -> Seq(Char)], activeFile' \in {activeFile, f},
         buf' \in Buffer, cursorPos' \in {cursorPos, files'[f].cursorPos},
         \A g \in DOMAIN files : files'[g].cursorPos \in {cursorPos, files[g].cursorPos},
         DOMAIN files' = DOMAIN files, files' \in [DOMAIN files -> FileEntry],
         \A g \in DOMAIN files : files'[g].edited => g = activeFile'
  PROVE  Changed(f)
<1>1. faults' = faults + 1 /\ faults' # faults
  BY DEF Fault, Inv
<1> QED
  BY <1>1 DEF Fault, Changed

LEMMA ImageHasParts == ASSUME Inv PROVE 0 \in 0 .. Len(Image)
<1>1. Image \in Seq(Char)
  BY ImageType DEF Inv, TypeOK, Buffer
<1> QED
  BY <1>1

LEMMA SaveErrorInv ==
  ASSUME Inv, NEW f \in File, save_error(f)
  PROVE  Inv'
<1>1. f \in DOMAIN files /\ Fault /\ UNCHANGED <<files, activeFile, buf, cursorPos>>
  BY DEF save_error
<1>2. disk' \in [File -> Seq(Char)]
  BY DiskTypes DEF save_error
<1>3. Changed(f)
  BY <1>1, <1>2, FaultChanged DEF Inv, TypeOK, Buffer, OnlyActiveEdited
<1> QED
  BY <1>1, <1>3, ChangedInv

LEMMA TruncateErrorInv ==
  ASSUME Inv, NEW f \in File, truncate_error(f)
  PROVE  Inv'
<1>1. f \in DOMAIN files /\ MustSave(f) /\ Fault
  BY DEF truncate_error
<1>2. /\ AfterSave(f) \in [DOMAIN files -> FileEntry]
      /\ DOMAIN AfterSave(f) = DOMAIN files
      /\ \A g \in DOMAIN files : ~ AfterSave(f)[g].edited
      /\ \A g \in DOMAIN files : AfterSave(f)[g].cursorPos \in {cursorPos, files[g].cursorPos}
  BY <1>1, AfterSaveList
<1>3. Loaded(disk[f], maxFileLen) \in Buffer
  BY <1>1, LoadTypes, SizeAssumption
<1>4. disk' \in [File -> Seq(Char)]
  BY ImageHasParts, DiskTypes DEF truncate_error
<1>5. /\ activeFile' = f /\ files' = AfterSave(f)
      /\ buf' = Loaded(disk[f], maxFileLen)
      /\ cursorPos' = AfterSave(f)[f].cursorPos
  BY DEF truncate_error, Load
<1>6. Changed(f)
  BY <1>1, <1>2, <1>3, <1>4, <1>5, FaultChanged
<1> QED
  BY <1>1, <1>6, ChangedInv

\* The list and the disk when the load fails, with or without a save before.
LEMMA FailedLoadTypes ==
  ASSUME Inv, NEW f \in DOMAIN files, NEW next \in {activeFile, f},
         next = f \/ ~ MustSave(f) \/ files' = AfterSave(f),
         disk' = IF MustSave(f) THEN [disk EXCEPT ![activeFile] = Image] ELSE disk,
         files' = IF MustSave(f) THEN AfterSave(f) ELSE files
  PROVE  /\ disk' \in [File -> Seq(Char)]
         /\ DOMAIN files' = DOMAIN files
         /\ files' \in [DOMAIN files -> FileEntry]
         /\ \A g \in DOMAIN files : files'[g].edited => g = next
         /\ \A g \in DOMAIN files : files'[g].cursorPos \in {cursorPos, files[g].cursorPos}
<1>1. CASE MustSave(f)
  <2>1. /\ AfterSave(f) \in [DOMAIN files -> FileEntry]
        /\ DOMAIN AfterSave(f) = DOMAIN files
        /\ \A g \in DOMAIN files : ~ AfterSave(f)[g].edited
        /\ \A g \in DOMAIN files : AfterSave(f)[g].cursorPos \in {cursorPos, files[g].cursorPos}
    BY <1>1, AfterSaveList
  <2>2. [disk EXCEPT ![activeFile] = Image] \in [File -> Seq(Char)]
    BY ImageHasParts, DiskTypes
  <2> QED
    BY <1>1, <2>1, <2>2
<1>2. CASE ~ MustSave(f)
  <2>1. \A g \in DOMAIN files : files[g].edited => g = f /\ g = activeFile
    BY <1>2, NoSaveList
  <2> QED
    BY <1>2, <2>1 DEF Inv, TypeOK
<1> QED
  BY <1>1, <1>2

LEMMA ReopenErrorInv ==
  ASSUME Inv, NEW f \in File, reopen_error(f)
  PROVE  Inv'
<1>1. /\ f \in DOMAIN files /\ Fault /\ UNCHANGED <<activeFile, buf, cursorPos>>
      /\ disk' = IF MustSave(f) THEN [disk EXCEPT ![activeFile] = Image] ELSE disk
      /\ files' = IF MustSave(f) THEN AfterSave(f) ELSE files
  BY DEF reopen_error
<1>2. /\ disk' \in [File -> Seq(Char)]
      /\ DOMAIN files' = DOMAIN files
      /\ files' \in [DOMAIN files -> FileEntry]
      /\ \A g \in DOMAIN files : files'[g].edited => g = activeFile
      /\ \A g \in DOMAIN files : files'[g].cursorPos \in {cursorPos, files[g].cursorPos}
  BY <1>1, FailedLoadTypes
<1>3. buf' \in Buffer
  BY <1>1 DEF Inv, TypeOK, Buffer
<1>4. Changed(f)
  BY <1>1, <1>2, <1>3, FaultChanged
<1> QED
  BY <1>1, <1>4, ChangedInv

LEMMA ReadErrorInv ==
  ASSUME Inv, NEW f \in File, read_error(f)
  PROVE  Inv'
<1>1. /\ f \in DOMAIN files /\ Fault /\ activeFile' = f /\ UNCHANGED cursorPos
      /\ disk' = IF MustSave(f) THEN [disk EXCEPT ![activeFile] = Image] ELSE disk
      /\ files' = IF MustSave(f) THEN AfterSave(f) ELSE files
  BY DEF read_error
<1>2. /\ disk' \in [File -> Seq(Char)]
      /\ DOMAIN files' = DOMAIN files
      /\ files' \in [DOMAIN files -> FileEntry]
      /\ \A g \in DOMAIN files : files'[g].edited => g = f
      /\ \A g \in DOMAIN files : files'[g].cursorPos \in {cursorPos, files[g].cursorPos}
  BY <1>1, FailedLoadTypes
<1>3. PICK n \in Pos : buf' = Loaded(disk[f], n)
  BY DEF read_error
<1>4. n \in Nat
  BY SizeAssumption DEF Pos
<1>5. buf' \in Buffer
  BY <1>1, <1>3, <1>4, LoadTypes
<1>6. Changed(f)
  BY <1>1, <1>2, <1>5, FaultChanged
<1> QED
  BY <1>1, <1>6, ChangedInv

----------------------------------------------------------------------------
(* Keys.                                                                   *)

\* A key that changes the text marks the file.
LEMMA ChangeInv ==
  ASSUME Inv, Key, NEW b \in Buffer, NEW pos \in Inside, Change(b, pos)
  PROVE  Inv'
<1>1. activeFile \in DOMAIN files /\ activeFile # NoFile
  BY DEF Key, Inv, TypeOK
<1>2. /\ files' \in [DOMAIN files -> FileEntry] /\ DOMAIN files' = DOMAIN files
      /\ files'[activeFile].edited
      /\ \A g \in DOMAIN files : g # activeFile => files'[g] = files[g]
  <2>1. files' = [files EXCEPT ![activeFile].edited = TRUE]
    BY DEF Change
  <2> QED
    BY <1>1, <2>1 DEF Inv, FileEntry
<1>3. TypeOK'
  <2>1. \A g \in DOMAIN files : files'[g].cursorPos = files[g].cursorPos
    BY <1>1 DEF Change, Inv, FileEntry
  <2>2. cursorPos' = pos /\ pos \in 0 .. maxFileLen /\ pos \in Ptr
    BY PtrAssumption, SizeAssumption DEF Change, Inside, Ptr
  <2>3. CursorInside'
    BY <1>2, <2>1, <2>2 DEF Change, Inv, TypeOK, CursorInside
  <2> QED
    BY <1>2, <2>2, <2>3 DEF Change, Key, Inv, TypeOK, FileEntry, Buffer
<1>4. OnlyActiveEdited'
  BY <1>2 DEF Key, Inv, OnlyActiveEdited
<1>5. UneditedIsStored'
  BY <1>1, <1>2 DEF Key, UneditedIsStored
<1>6. keys' \in Nat /\ faults' \in Nat
  BY DEF Change, Key, Inv
<1> QED
  BY <1>2, <1>3, <1>4, <1>5, <1>6 DEF Inv

\* A key that does not change it leaves the buffer, the list and the disk.
LEMMA MoveInv ==
  ASSUME Inv, cursorPos' \in Ptr, busy' \in BOOLEAN, edited' \in BOOLEAN,
         strayed' \in BOOLEAN, strayed => strayed', strayed' \/ cursorPos' \in Inside \/ cursorPos' = cursorPos,
         UNCHANGED <<disk, files, activeFile, buf, keys, faults>>
  PROVE  Inv'
<1>1. TypeOK'
  <2>1. CursorInside'
    BY DEF Inv, TypeOK, CursorInside, Inside
  <2> QED
    BY <2>1 DEF Inv, TypeOK
<1>2. OnlyActiveEdited' /\ UneditedIsStored'
  BY DEF Inv, OnlyActiveEdited, UneditedIsStored
<1> QED
  BY <1>1, <1>2 DEF Inv

LEMMA KeyInv ==
  ASSUME Inv, KeyStep
  PROVE  Inv'
<1> USE SizeAssumption
<1>1. /\ buf \in Buffer /\ cursorPos \in Ptr
      /\ busy \in BOOLEAN /\ edited \in BOOLEAN /\ strayed \in BOOLEAN
  BY DEF Inv, TypeOK, Buffer
<1>2. Key
  BY DEF KeyStep, backspace, delete, type, textEditor_goLeft, textEditor_goRight,
         textEditor_goUp, textEditor_goDown
<1>3. ASSUME NEW pos \in Ptr, Move(pos), strayed' \in BOOLEAN, strayed => strayed',
             strayed' \/ pos \in Inside
      PROVE  Inv'
  BY <1>2, <1>3, MoveInv DEF Key, Move
<1>4. ASSUME Nothing
      PROVE  Inv'
  BY <1>1, <1>2, <1>4, MoveInv DEF Key, Nothing
<1>5. CASE backspace
  <2>1. CASE cursorPos = 0
    BY <1>4, <1>5, <2>1 DEF backspace
  <2>2. CASE cursorPos # 0
    <3>1. cursorPos - 1 \in Inside
      BY <1>1, <1>5, <2>2 DEF backspace, InRange, Ptr, Inside
    <3>2. ShiftLeft(cursorPos - 1) \in Buffer
      BY <1>1, <3>1, ShiftTypes DEF Inside
    <3> QED
      BY <1>2, <1>5, <2>2, <3>1, <3>2, ChangeInv DEF backspace
  <2> QED
    BY <2>1, <2>2
<1>6. CASE delete
  <2>1. cursorPos \in Inside
    BY <1>1, <1>6 DEF delete, InRange, Ptr, Inside
  <2>2. ShiftLeft(cursorPos) \in Buffer
    BY <1>1, <2>1, ShiftTypes DEF Inside
  <2> QED
    BY <1>2, <1>6, <2>1, <2>2, ChangeInv DEF delete
<1>7. ASSUME NEW c \in Char, type(c)
      PROVE  Inv'
  <2>1. cursorPos \in Inside /\ cursorPos + 1 \in Inside
    BY <1>1, <1>7 DEF type, InRange, Ptr, Inside
  <2>2. [ShiftRight(cursorPos) EXCEPT ![cursorPos] = c] \in Buffer
    BY <1>1, <2>1, ShiftTypes DEF Inside
  <2> QED
    BY <1>2, <1>7, <2>1, <2>2, ChangeInv DEF type
<1>8. CASE textEditor_goLeft
  <2>1. CASE cursorPos > 0
    <3>1. cursorPos - 1 \in Ptr
      BY <1>1, <2>1, PtrAssumption DEF Ptr
    <3>2. strayed \/ cursorPos - 1 \in Inside
      BY <1>1, <2>1 DEF Inv, TypeOK, CursorInside, Inside
    <3> QED
      BY <1>1, <1>3, <1>8, <2>1, <3>1, <3>2 DEF textEditor_goLeft
  <2>2. CASE ~ (cursorPos > 0)
    BY <1>4, <1>8, <2>2 DEF textEditor_goLeft
  <2> QED
    BY <2>1, <2>2
<1>9. CASE textEditor_goRight
  <2>1. CASE cursorPos < maxFileLen /\ buf[cursorPos] # NUL
    <3>1. cursorPos + 1 \in Ptr /\ cursorPos + 1 \in Inside
      BY <1>1, <2>1, PtrAssumption DEF Ptr, Inside
    <3> QED
      BY <1>1, <1>3, <1>9, <2>1, <3>1 DEF textEditor_goRight
  <2>2. CASE ~ (cursorPos < maxFileLen /\ buf[cursorPos] # NUL)
    BY <1>4, <1>9, <2>2 DEF textEditor_goRight
  <2> QED
    BY <2>1, <2>2
<1>10. CASE textEditor_goUp
  <2>1. PICK pos \in getPreviousLine : Move(pos)
    BY <1>10 DEF textEditor_goUp
  <2>2. pos \in Ptr /\ (~ AtEnd /\ ~ AtWrap => pos \in Inside)
    BY <1>1, PreviousLineTypes
  <2>3. strayed' = (strayed \/ AtEnd \/ AtWrap)
    BY <1>10 DEF textEditor_goUp
  <2> QED
    BY <1>3, <2>1, <2>2, <2>3
<1>11. CASE textEditor_goDown
  <2>1. PICK pos \in getNextLine : Move(pos)
    BY <1>11 DEF textEditor_goDown
  <2>2. pos \in Ptr /\ (~ AtEnd => pos \in Inside)
    BY <1>1, NextLineTypes
  <2>3. strayed' = (strayed \/ AtEnd)
    BY <1>11 DEF textEditor_goDown
  <2> QED
    BY <1>3, <2>1, <2>2, <2>3
<1> QED
  BY <1>5, <1>6, <1>7, <1>8, <1>9, <1>10, <1>11 DEF KeyStep

----------------------------------------------------------------------------
(* Every step.                                                             *)

LEMMA NextInv ==
  ASSUME Inv, [Next]_vars
  PROVE  Inv'
<1>1. ASSUME NEW f \in File, addFile(f) \/ changeFile(f)
      PROVE  Inv'
  BY <1>1, AddFileInv, ChangeLoadInv, ChangeSaveInv, SaveErrorInv, TruncateErrorInv,
     ReopenErrorInv, ReadErrorInv DEF changeFile
<1>2. CASE KeyStep
  BY <1>2, KeyInv
<1>3. ASSUME NEW tick \in BOOLEAN, textEditor_Idle(tick)
      PROVE  Inv'
  <2>1. cursorPos' \in Ptr /\ busy' \in BOOLEAN /\ edited' \in BOOLEAN /\ strayed' \in BOOLEAN
    BY <1>3 DEF textEditor_Idle, Inv, TypeOK
  <2> QED
    BY <1>3, <2>1, MoveInv DEF textEditor_Idle
<1>4. CASE UNCHANGED vars
  <2>1. cursorPos' \in Ptr /\ busy' \in BOOLEAN /\ edited' \in BOOLEAN /\ strayed' \in BOOLEAN
    BY <1>4 DEF vars, Inv, TypeOK
  <2> QED
    BY <1>4, <2>1, MoveInv DEF vars
<1> QED
  BY <1>1, <1>2, <1>3, <1>4 DEF Next, FileStep

\* The invariant of the editor: what it takes to prove the theorems
\* below by induction over the steps.
THEOREM EditorInvariant == Spec => []Inv
<1>1. Init => Inv
  BY InitInv
<1>2. Inv /\ [Next]_vars => Inv'
  BY NextInv
<1> QED
  BY <1>1, <1>2, PTL DEF Spec

\* Whatever is typed, loaded or fails, the cursor and the cursors kept for the
\* files stay in the buffer or just behind it until a line key has looked
\* outside: getPreviousLine at a newline on position 1, whose second search
\* begins at the last pointer, or a line key at the end of a full buffer.
THEOREM EditorTypes == Spec => []TypeOK
<1>1. Inv => TypeOK
  BY DEF Inv
<1> QED
  BY <1>1, EditorInvariant, PTL

\* changeFile, whichever of its calls fails, leaves no file but the active
\* one with changes that are not on the disk.
THEOREM NoOtherEdited == Spec => []OnlyActiveEdited
<1>1. Inv => OnlyActiveEdited
  BY DEF Inv
<1> QED
  BY <1>1, EditorInvariant, PTL

\* As long as no disk call failed, a buffer without the mark edited is what
\* the disk holds, so that changeFile may drop it.
THEOREM UnmarkedIsOnDisk == Spec => []UneditedIsStored
<1>1. Inv => UneditedIsStored
  BY DEF Inv
<1> QED
  BY <1>1, EditorInvariant, PTL
----------------------------------------------------------------------------
(* What a save leaves on the disk.                                         *)

\* The text ends behind the last byte that is used.
LEMMA TextEndIs ==
  ASSUME NEW b \in Buffer
  PROVE  /\ TextEnd(b) \in 0 .. maxFileLen
         /\ \A i \in Pos : i >= TextEnd(b) => b[i] = NUL
         /\ TextEnd(b) # 0 => TextEnd(b) - 1 \in Pos /\ b[TextEnd(b) - 1] # NUL
<1> DEFINE Used == {i \in Pos : b[i] # NUL}
           last == CHOOSE i \in Used : \A j \in Used : j <= i
<1>1. TextEnd(b) = IF Used = {} THEN 0 ELSE 1 + last
  BY Zenon DEF TextEnd
<1>2. Used \in SUBSET (0 .. maxFileLen - 1) /\ maxFileLen - 1 \in Nat /\ maxFileLen \in Nat
  BY SizeAssumption DEF Pos
<1>3. CASE Used = {}
  BY <1>1, <1>2, <1>3
<1>4. CASE Used # {}
  <2>1. \E i \in Used : \A j \in Used : j <= i
    <3> HIDE DEF Used
    <3> QED
      BY <1>2, <1>4, MaxIn
  <2>2. last \in Used /\ \A j \in Used : j <= last
    BY <2>1
  <2>3. TextEnd(b) = 1 + last /\ last \in Pos /\ b[last] # NUL
    BY <1>1, <1>4, <2>2
  <2>4. \A i \in Pos : b[i] # NUL => i <= last
    BY <2>2
  <2> HIDE DEF last, Used
  <2> QED
    BY <1>2, <2>3, <2>4 DEF Pos
<1> QED
  BY <1>3, <1>4

\* A text of characters has no NUL before its end.
LEMMA TextHasChars ==
  ASSUME NEW b \in Buffer, Text(b) \in Seq(Char), NEW i \in Pos, i < TextEnd(b)
  PROVE  b[i] \in Char /\ b[i] # NUL
<1> DEFINE t == TextEnd(b)
<1>1. t \in Nat /\ i + 1 \in 1 .. t /\ (i + 1) - 1 = i
  BY TextEndIs, SizeAssumption DEF Pos
<1>2. Text(b) = [k \in 1 .. t |-> b[k - 1]]
  BY DEF Text
<1> HIDE DEF t
<1>3. DOMAIN Text(b) = 1 .. t /\ Text(b)[i + 1] = b[i]
  BY <1>1, <1>2
<1>4. Text(b)[i + 1] \in Char
  BY <1>1, <1>3
<1> QED
  BY <1>3, <1>4, CharAssumption

\* The chunk of a position: its first byte and the bytes behind it.
LEMMA ChunkOf ==
  ASSUME NEW i \in Pos
  PROVE  /\ i % CHUNK \in 0 .. CHUNK - 1
         /\ i - (i % CHUNK) \in Pos
         /\ (i - (i % CHUNK)) % CHUNK = 0
<1>1. CHUNK \in Nat /\ CHUNK > 0 /\ i \in Nat /\ maxFileLen \in Nat
  BY SizeAssumption DEF Pos
<1>2. i % CHUNK \in 0 .. CHUNK - 1 /\ i = CHUNK * (i \div CHUNK) + (i % CHUNK) /\ i \div CHUNK \in Nat
  BY <1>1
<1>3. i % CHUNK <= i
  BY <1>1, <1>2
<1>4. i - (i % CHUNK) = CHUNK * (i \div CHUNK)
  BY <1>1, <1>2
<1>5. \A q \in Nat : (CHUNK * q) % CHUNK = 0
  BY <1>1
<1> QED
  BY <1>1, <1>2, <1>3, <1>4, <1>5 DEF Pos

\* Unless only the first byte of its last chunk is used, the search finds an
\* end behind the text.
LEMMA SavedEndCovers ==
  ASSUME buf \in Buffer, TextEnd(buf) % CHUNK # 1 \/ TextEnd(buf) = 1
  PROVE  SavedEnd(buf) \in Nat /\ TextEnd(buf) <= SavedEnd(buf) /\ SavedEnd(buf) <= maxFileLen
<1> DEFINE Stop == {p \in Pos : p % CHUNK = 0 /\
                     (p = 0 \/ \E i \in p + 1 .. p + CHUNK - 1 : buf[i] # NUL)}
           t == TextEnd(buf)
           s == SavedEnd(buf)
<1>1. s \in 0 .. maxFileLen /\ t \in 0 .. maxFileLen /\ CHUNK \in Nat /\ CHUNK > 1 /\ maxFileLen \in Nat
  BY SavedEndType, TextEndIs, SizeAssumption
<1>2. 0 \in Stop
  BY SizeAssumption DEF Pos
<1>3. \E p \in Stop : \A q \in Stop : q <= p
  <2>1. Stop \in SUBSET (0 .. maxFileLen - 1) /\ maxFileLen - 1 \in Nat
    BY SizeAssumption DEF Pos
  <2> HIDE DEF Stop
  <2> QED
    BY <1>2, <2>1, MaxIn
<1>4. s = CHUNK + CHOOSE p \in Stop : \A q \in Stop : q <= p
  BY Zenon DEF SavedEnd
<1>5. PICK p \in Stop : s = CHUNK + p /\ \A q \in Stop : q <= p
  BY <1>3, <1>4
<1>6. p \in Nat
  BY SizeAssumption DEF Pos
<1>7. CASE t <= 1
  BY <1>1, <1>5, <1>6, <1>7
<1>8. CASE t > 1
  <2> DEFINE u == t - 1
             r == u % CHUNK
  <2>1. u \in Pos /\ buf[u] # NUL
    BY <1>8, TextEndIs
  <2>2. r \in 0 .. CHUNK - 1 /\ u - r \in Pos /\ (u - r) % CHUNK = 0
    BY <2>1, ChunkOf
  <2>3. r # 0
    <3>1. u \in Nat /\ u + 1 = t /\ t % CHUNK # 1
      BY <1>1, <1>8
    <3> HIDE DEF u, t
    <3>2. u % CHUNK = 0 => (u + 1) % CHUNK = 1
      BY <1>1, <3>1
    <3> QED
      BY <3>1, <3>2
  <2>4. u \in (u - r) + 1 .. (u - r) + CHUNK - 1
    <3> HIDE DEF r, u
    <3> QED
      BY <1>1, <2>1, <2>2, <2>3, SizeAssumption DEF Pos
  <2>5. u - r \in Stop
    <3> HIDE DEF r, u
    <3> QED
      BY <2>1, <2>2, <2>4
  <2> HIDE DEF Stop
  <2>6. u - r <= p
    BY <1>5, <2>5
  <2>7. u <= p + CHUNK - 1
    <3>1. u \in Nat /\ r \in Nat
      BY <2>1, <2>2, <1>1, SizeAssumption DEF Pos
    <3> HIDE DEF r, u
    <3> QED
      BY <1>1, <1>6, <2>2, <2>6, <3>1
  <2>8. t <= s
    <3> HIDE DEF t, s
    <3> QED
      BY <1>1, <1>5, <1>6, <2>7
  <2> QED
    BY <1>1, <2>8
<1> HIDE DEF t, s
<1> QED
  BY <1>1, <1>7, <1>8 DEF t, s

\* Of the numbers below n, those below i are i.
LEMMA Below ==
  ASSUME NEW n \in Nat, NEW i \in 0 .. n
  PROVE  Cardinality({j \in 0 .. n - 1 : j < i}) = i
<1>1. {j \in 0 .. n - 1 : j < i} = 0 .. i - 1
  OBVIOUS
<1>2. i \in Nat /\ i - 1 \in Int
  OBVIOUS
<1>3. Cardinality(0 .. i - 1) = IF 0 > i - 1 THEN 0 ELSE (i - 1) - 0 + 1
  BY <1>2, FS_Interval
<1>4. Cardinality(0 .. i - 1) = i
  BY <1>2, <1>3
<1> QED
  BY <1>1, <1>4

LEMMA ImageIsText ==
  ASSUME buf \in Buffer, Text(buf) \in Seq(Char),
         TextEnd(buf) % CHUNK # 1 \/ TextEnd(buf) = 1
  PROVE  Image = Text(buf)
<1> DEFINE t == TextEnd(buf)
           end == SavedEnd(buf)
           Kept == {i \in 0 .. end - 1 :
                      \A j \in (i - (i % CHUNK)) .. i : buf[j] # NUL}
           Nth(K, n) == CHOOSE i \in K : Cardinality({j \in K : j < i}) = n - 1
<1>1. end \in Nat /\ t \in Nat /\ t <= end /\ end <= maxFileLen /\ maxFileLen \in Nat
  BY SavedEndCovers, TextEndIs, SizeAssumption
<1>2. Image = [n \in 1 .. Cardinality(Kept) |-> buf[Nth(Kept, n)]]
  BY Zenon DEF Image, Written
<1>3. \A i \in Pos : i < t => buf[i] # NUL
  BY TextHasChars
<1>4. \A i \in Pos : i >= t => buf[i] = NUL
  BY TextEndIs
<1>5. Text(buf) = [n \in 1 .. t |-> buf[n - 1]]
  BY DEF Text
<1> HIDE DEF t, end
<1>6. Kept = 0 .. t - 1
  <2>1. ASSUME NEW i \in 0 .. end - 1
        PROVE  /\ i \in Pos /\ i \in (i - (i % CHUNK)) .. i
               /\ \A j \in (i - (i % CHUNK)) .. i : j \in Pos /\ j <= i
    <3>1. i \in Pos
      BY <1>1 DEF Pos
    <3>2. i % CHUNK \in 0 .. CHUNK - 1 /\ i - (i % CHUNK) \in Pos
      BY <3>1, ChunkOf
    <3> QED
      BY <1>1, <3>1, <3>2, SizeAssumption DEF Pos
  <2>2. ASSUME NEW i \in Kept PROVE i \in 0 .. t - 1
    <3>1. i \in Pos /\ buf[i] # NUL
      BY <2>1
    <3>2. ~ (i >= t)
      BY <1>4, <3>1
    <3> HIDE DEF Kept
    <3> QED
      BY <1>1, <3>1, <3>2 DEF Pos
  <2>3. ASSUME NEW i \in 0 .. t - 1 PROVE i \in Kept
    <3>1. i \in 0 .. end - 1
      BY <1>1
    <3>2. ASSUME NEW j \in (i - (i % CHUNK)) .. i PROVE buf[j] # NUL
      <4>1. j \in Pos /\ j <= i
        BY <2>1, <3>1
      <4>2. j < t
        BY <1>1, <4>1 DEF Pos
      <4> QED
        BY <1>3, <4>1, <4>2
    <3> QED
      BY <3>1, <3>2
  <2> QED
    BY <2>2, <2>3
<1> HIDE DEF Kept
<1>7. Cardinality(Kept) = t
  <2>1. Cardinality(0 .. t - 1) = IF 0 > t - 1 THEN 0 ELSE (t - 1) - 0 + 1
    BY <1>1, FS_Interval
  <2> QED
    BY <1>1, <1>6, <2>1
<1>8. ASSUME NEW n \in 1 .. t PROVE Nth(Kept, n) = n - 1
  <2>1. \A i \in 0 .. t - 1 : Cardinality({j \in 0 .. t - 1 : j < i}) = i
    BY <1>1, Below
  <2>2. n - 1 \in 0 .. t - 1
    BY <1>1
  <2>3. \A i \in Kept : Cardinality({j \in Kept : j < i}) = n - 1 <=> i = n - 1
    BY <1>6, <2>1
  <2>4. n - 1 \in Kept
    BY <1>6, <2>2
  <2> QED
    BY <2>3, <2>4
<1> HIDE DEF Nth
<1> QED
  BY <1>2, <1>5, <1>7, <1>8

\* A text that fits is what its buffer holds.
LEMMA LoadedText ==
  ASSUME NEW s \in Seq(Char), Len(s) <= maxFileLen
  PROVE  Text(Loaded(s, maxFileLen)) = s
<1> DEFINE b == Loaded(s, maxFileLen)
           t == TextEnd(b)
<1>1. maxFileLen \in Nat /\ Len(s) \in Nat
  BY SizeAssumption
<1>2. b \in Buffer
  BY <1>1, LoadedType
<1>3. \A i \in Pos : b[i] = IF i < Len(s) THEN s[i + 1] ELSE NUL
  BY <1>1 DEF Loaded, Pos
<1>4. \A i \in Pos : b[i] # NUL <=> i < Len(s)
  <2>1. \A i \in Pos : i < Len(s) => s[i + 1] \in Char
    BY <1>1 DEF Pos
  <2> HIDE DEF b
  <2> QED
    BY <1>3, <2>1, CharAssumption
<1>5. /\ t \in 0 .. maxFileLen
      /\ \A i \in Pos : i >= t => b[i] = NUL
      /\ t # 0 => t - 1 \in Pos /\ b[t - 1] # NUL
  BY <1>2, TextEndIs
<1>6. Text(b) = [k \in 1 .. t |-> b[k - 1]]
  BY DEF Text
<1> HIDE DEF b, t
<1>7. t = Len(s)
  <2>1. t <= Len(s)
    <3>1. CASE t # 0
      <4>1. t - 1 < Len(s)
        BY <1>4, <1>5, <3>1
      <4> QED
        BY <1>1, <1>5, <4>1
    <3> QED
      BY <1>1, <3>1
  <2>2. Len(s) <= t
    <3>1. CASE t < Len(s)
      <4>1. t \in Pos
        BY <1>1, <1>5, <3>1 DEF Pos
      <4>2. b[t] = NUL
        BY <1>5, <4>1
      <4> QED
        BY <1>4, <3>1, <4>1, <4>2
    <3> QED
      BY <1>1, <1>5, <3>1
  <2> QED
    BY <1>1, <1>5, <2>1, <2>2
<1>8. \A k \in 1 .. Len(s) : b[k - 1] = s[k]
  <2>1. ASSUME NEW k \in 1 .. Len(s) PROVE b[k - 1] = s[k]
    <3>1. k - 1 \in Pos /\ k - 1 < Len(s) /\ (k - 1) + 1 = k
      BY <1>1 DEF Pos
    <3> QED
      BY <1>3, <3>1
  <2> QED
    BY <2>1
<1>9. s = [k \in 1 .. Len(s) |-> s[k]]
  OBVIOUS
<1> QED
  BY <1>6, <1>7, <1>8, <1>9 DEF b

\* The change of file that SaveStores is about.
ChangesTo(f) ==
  /\ activeFile # f /\ activeFile' = f /\ activeFile # NoFile /\ faults' = 0
  /\ Text(buf) \in Seq(Char) /\ (TextEnd(buf) % CHUNK # 1 \/ TextEnd(buf) = 1)
  /\ Len(disk[activeFile]) <= maxFileLen

LEMMA NextStores ==
  ASSUME Inv, [Next]_vars, NEW f \in File, ChangesTo(f)
  PROVE  disk'[activeFile] = Text(buf)
<1>1. activeFile \in File /\ activeFile \in DOMAIN files /\ buf \in Buffer /\ disk \in [File -> Seq(Char)]
      /\ activeFile' # activeFile /\ faults \in Nat
  BY DEF ChangesTo, Inv, TypeOK, Buffer
<1>2. ~ Fault
  BY <1>1 DEF Fault, ChangesTo
<1>3. ASSUME NEW g \in File, change_load(g) PROVE disk'[activeFile] = Text(buf)
  <2>1. g = f /\ disk' = disk /\ faults' = faults /\ ~ MustSave(f)
    BY <1>3 DEF change_load, Load, ChangesTo
  <2>2. ~ files[activeFile].edited
    BY <2>1 DEF MustSave, ChangesTo
  <2>3. buf = Loaded(disk[activeFile], maxFileLen)
    BY <2>1, <2>2 DEF Inv, UneditedIsStored, ChangesTo
  <2>4. Text(Loaded(disk[activeFile], maxFileLen)) = disk[activeFile]
    BY <1>1, LoadedText DEF ChangesTo
  <2> QED
    BY <2>1, <2>3, <2>4
<1>4. ASSUME NEW g \in File, change_save(g) PROVE disk'[activeFile] = Text(buf)
  <2>1. disk' = [disk EXCEPT ![activeFile] = Image]
    BY <1>4 DEF change_save
  <2>2. Image = Text(buf)
    BY <1>1, ImageIsText DEF ChangesTo
  <2> QED
    BY <1>1, <2>1, <2>2
<1>5. ASSUME NEW g \in File, changeFile(g) PROVE disk'[activeFile] = Text(buf)
  BY <1>2, <1>3, <1>4, <1>5 DEF changeFile, save_error, truncate_error, reopen_error, read_error
<1>6. ASSUME NEW g \in File, addFile(g) PROVE FALSE
  BY <1>1, <1>6 DEF addFile
<1>7. ~ KeyStep
  BY <1>1 DEF KeyStep, Key, backspace, delete, type, textEditor_goLeft, textEditor_goRight,
              textEditor_goUp, textEditor_goDown
<1>8. ASSUME NEW tick \in BOOLEAN, textEditor_Idle(tick) PROVE FALSE
  BY <1>1, <1>8 DEF textEditor_Idle
<1>9. vars' # vars
  BY <1>1 DEF vars
<1> QED
  BY <1>5, <1>6, <1>7, <1>8, <1>9 DEF Next, FileStep

\* A change of file that meets no disk error leaves on the disk the text of
\* the buffer, stored now or there already: the backward search for its end
\* loses none of it, save for the texts SavedIsEdited is about.
THEOREM ChangeStoresTheText == Spec => SaveStores
<1>1. Inv /\ [Next]_vars =>
        [\A f \in File :
           (activeFile # f /\ activeFile' = f /\ activeFile # NoFile /\ faults' = 0
              /\ Text(buf) \in Seq(Char) /\ (TextEnd(buf) % CHUNK # 1 \/ TextEnd(buf) = 1)
              /\ Len(disk[activeFile]) <= maxFileLen)
           => disk'[activeFile] = Text(buf)]_vars
  BY NextStores DEF ChangesTo
<1> QED
  BY <1>1, EditorInvariant, PTL DEF Spec, SaveStores
=============================================================================
