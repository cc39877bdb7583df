--------------------------- MODULE LongNamesProofs ---------------------------
(***************************************************************************)
(* Proofs about module LongNames, for any names, sums of them, size of the *)
(* directory, its sectors and clusters, and number of faults: f_rename     *)
(* takes no file off the disk that its new entry is to lead to.            *)
(*                                                                         *)
(* The disk lags behind the table by the window, whose writes are not yet  *)
(* stored.  What is needed of the window is that with its changes the disk *)
(* is the table; of a call, that the file of the entry it is going to      *)
(* write keeps its old entry until then.  The new one goes into unused     *)
(* entries, or into a cluster that is linked and cleared first: that one   *)
(* lies behind all entries of the table.                                   *)
(*                                                                         *)
(* From there: which entries a name leads to.  The places of the parts of  *)
(* every name, on the table and on the disk, give that no name leads to    *)
(* two files, and that what f_readdir lists is what dir_find finds.  With  *)
(* the table that the call in progress is going to leave, they give that   *)
(* the directory is the NameSpace its calls promise.                       *)
(***************************************************************************)
EXTENDS LongNames, FiniteSetTheorems, WellFoundedInduction, TLAPS

\* A write of the window, by its place and what it puts there.
SfnEntries == {SfnEntry(s, f) : s \in Sfn, f \in File \cup {NoFile}}
LfnEntries == {LfnEntry(n, ord, Sum[s]) : n \in Long, ord \in Nat, s \in Sfn}
Entries == {Blank, Deleted} \cup SfnEntries \cup LfnEntries
Steps == {Link, Flush, <<0, [kind |-> "sync"]>>} \cup {Clear(s) : s \in Nat}
         \cup (Nat \X ({Deleted} \cup SfnEntries \cup LfnEntries))

TypeOK ==
  /\ table \in Seq(Entries) /\ Len(table) > 0
  /\ disk \in Seq(Entries) /\ Len(disk) > 0
  /\ todo \in Seq(Steps)
  /\ sect \in Nat /\ dirty \in BOOLEAN

Kind(w) == w[2].kind

\* A cluster is linked and cleared through a window that was stored before.
Ordered(w) ==
  \A k \in 2 .. Len(w) :
    /\ Kind(w[k]) = "clear" => Kind(w[k - 1]) \in {"flush", "clear"}
    /\ Kind(w[k]) = "link" => Kind(w[k - 1]) = "clear"
Ready == todo # <<>> /\ Kind(Head(todo)) \in {"link", "clear"} => ~dirty

OneSfn(w) ==
  \A k, l \in 1 .. Len(w) : Kind(w[k]) = "sfn" /\ Kind(w[l]) = "sfn" => k = l

\* None of the first k steps of w changes entry i.
Spares(w, k, i) ==
  \A l \in 1 .. k :
    /\ IsWrite(w[l]) => w[l][1] # i
    /\ Kind(w[l]) = "clear" => w[l][1] # Sector(i)

HasFile(t, i, f) == IsSfn(t, i) /\ t[i].file = f
New(f, t, d) == f \in File /\ f \notin Files(t) \cup Files(d)
Kept(f, t, w, k) == \E i \in DOMAIN t : HasFile(t, i, f) /\ Spares(w, k, i)

\* The file of an entry that is still to come is not there yet, or keeps its
\* old entry until then.
Awaited ==
  \A k \in 1 .. Len(todo) :
    Kind(todo[k]) = "sfn" =>
      New(todo[k][2].file, table, disk) \/ Kept(todo[k][2].file, table, todo, k)

\* The entries of the disk and the window are those of the table.
WindowOK == Stored = table

Inv == TypeOK /\ WindowOK /\ Ready /\ Ordered(todo) /\ OneSfn(todo) /\ Awaited

----------------------------------------------------------------------------
(* Numbers.                                                                *)

LEMMA MinIn ==
  ASSUME NEW S \in SUBSET Nat, S # {}
  PROVE  \E x \in S : \A y \in S : x <= y
<1>1. \E x \in S : \A y \in S : ~ (<<y, x>> \in OpToRel(<, Nat))
  <2> DEFINE R == OpToRel(<, Nat)
  <2>1. IsWellFoundedOn(R, Nat)
    BY NatLessThanWellFounded
  <2> HIDE DEF R
  <2>2. \E x \in S : \A y \in S : ~ (<<y, x>> \in R)
    BY <2>1, WFMin
  <2> QED
    BY <2>2 DEF R
<1>2. \E x \in S : \A y \in S : ~ (y < x)
  BY <1>1, Zenon DEF OpToRel
<1> QED
  BY <1>2

LEMMA MaxIn ==
  ASSUME NEW m \in Nat, NEW S \in SUBSET (0 .. m), S # {}
  PROVE  \E x \in S : \A y \in S : y <= x
<1> DEFINE D == {m - i : i \in S}
<1>1. D \in SUBSET Nat /\ D # {}
  <2>1. \A i \in S : m - i \in Nat
    OBVIOUS
  <2> QED
    BY <2>1
<1>2. PICK d \in D : \A e \in D : d <= e
  <2> HIDE DEF D
  <2> QED
    BY <1>1, MinIn
<1>3. PICK x \in S : d = m - x
  BY <1>2
<1>4. \A y \in S : d <= m - y
  <2>1. \A y \in S : m - y \in D
    OBVIOUS
  <2> HIDE DEF D
  <2> QED
    BY <2>1, <1>2
<1>5. ASSUME NEW y \in S
      PROVE  y <= x
  <2>1. m - x <= m - y /\ x \in 0 .. m /\ y \in 0 .. m
    BY <1>3, <1>4
  <2> QED
    BY <2>1
<1> QED
  BY <1>5


LEMMA MinIs ==
  ASSUME NEW S \in SUBSET Nat, S # {}
  PROVE  Min(S) \in S /\ \A y \in S : Min(S) <= y
<1>1. \E x \in S : \A y \in S : x <= y
  BY MinIn
<1> QED
  BY <1>1 DEF Min

LEMMA MaxIs ==
  ASSUME NEW m \in Nat, NEW S \in SUBSET (0 .. m), S # {}
  PROVE  Max(S) \in S /\ \A y \in S : y <= Max(S)
<1>1. \E x \in S : \A y \in S : y <= x
  BY MaxIn
<1>2. \A x, y \in S : x >= y <=> y <= x
  OBVIOUS
<1>3. \E x \in S : \A y \in S : x >= y
  BY <1>1, <1>2
<1>4. Max(S) \in S /\ \A y \in S : Max(S) >= y
  BY <1>3 DEF Max
<1> QED
  BY <1>2, <1>4

LEMMA MaxOfTwo ==
  ASSUME NEW a \in Nat, NEW b \in Nat
  PROVE  Max({a, b}) = IF a > b THEN a ELSE b
<1>1. \E x \in {a, b} : \A y \in {a, b} : x >= y
  OBVIOUS
<1>2. Max({a, b}) \in {a, b} /\ \A y \in {a, b} : Max({a, b}) >= y
  BY <1>1, Zenon DEF Max
<1> HIDE DEF Max
<1> QED
  BY <1>2

LEMMA MinOfTwo ==
  ASSUME NEW a \in Nat, NEW b \in Nat
  PROVE  Min({a, b}) = IF a < b THEN a ELSE b
<1>1. \E x \in {a, b} : \A y \in {a, b} : x =< y
  OBVIOUS
<1>2. Min({a, b}) \in {a, b} /\ \A y \in {a, b} : Min({a, b}) =< y
  BY <1>1, Zenon DEF Min
<1> QED
  BY <1>2

LEMMA LeastIs ==
  ASSUME NEW S \in SUBSET Nat, Least(S) # NoSlot PROVE Least(S) \in S
<1>1. CASE S = {}
  BY <1>1 DEF Least
<1>2. CASE S # {}
  BY <1>2, MinIs DEF Least
<1> QED
  BY <1>1, <1>2

LEMMA Division ==
  ASSUME NEW a \in Nat, NEW p \in Nat \ {0}
  PROVE  /\ a \div p \in Nat /\ a % p \in 0 .. p - 1
         /\ a = p * (a \div p) + (a % p)
<1>1. a \in Nat /\ p \in Nat /\ p > 0
  OBVIOUS
<1>2. a % p \in 0 .. p - 1
  BY <1>1
<1>3. a = p * (a \div p) + (a % p)
  BY <1>1
<1>4. a \div p \in Nat
  BY <1>1
<1> QED
  BY <1>2, <1>3, <1>4

LEMMA DivisionKeepsOrder ==
  ASSUME NEW a \in Nat, NEW b \in Nat, NEW p \in Nat \ {0}, a <= b
  PROVE  a \div p <= b \div p
<1> DEFINE q == a \div p
           r == b \div p
           x == a % p
           y == b % p
<1>1. q \in Nat /\ r \in Nat /\ x \in 0 .. p - 1 /\ y \in 0 .. p - 1
      /\ a = p * q + x /\ b = p * r + y
  BY Division
<1> HIDE DEF q, r, x, y
<1>2. CASE r < q
  <2>1. r + 1 <= q
    BY <1>1, <1>2
  <2>2. p * (r + 1) <= p * q
    BY <1>1, <2>1
  <2>3. p * (r + 1) = p * r + p
    BY <1>1
  <2>4. p * r \in Nat /\ p * q \in Nat
    BY <1>1
  <2> QED
    BY <1>1, <2>2, <2>3, <2>4
<1>3. CASE q <= r
  BY <1>3 DEF q, r
<1> QED
  BY <1>1, <1>2, <1>3

LEMMA SmallQuotient ==
  ASSUME NEW p \in Nat \ {0} PROVE (p - 1) \div p = 0
<1> DEFINE q == (p - 1) \div p
           x == (p - 1) % p
<1>1. q \in Nat /\ x \in 0 .. p - 1 /\ p - 1 = p * q + x
  BY Division, p - 1 \in Nat
<1> HIDE DEF q, x
<1>2. CASE q >= 1
  <2>1. p * q >= p * 1
    BY <1>1, <1>2
  <2>2. p * q \in Nat
    BY <1>1
  <2> QED
    BY <1>1, <2>1, <2>2
<1>3. CASE q = 0
  BY <1>3 DEF q
<1> QED
  BY <1>1, <1>2, <1>3

LEMMA Sizes ==
  /\ PerSector \in Nat \ {0} /\ PerCluster \in Nat \ {0} /\ Slots \in Nat \ {0}
  /\ PerSector * PerCluster \in Nat \ {0}
  /\ Fat \in Nat \ {0}
  /\ \A i \in Nat \ {0} : Sector(i) \in Nat \ {0}
  /\ \A i, j \in Nat \ {0} : i <= j => Sector(i) <= Sector(j)
<1>1. PerSector \in Nat \ {0} /\ PerCluster \in Nat \ {0} /\ Slots \in Nat \ {0}
  BY TableAssumption
<1>2. PerSector * PerCluster \in Nat \ {0}
  BY <1>1
<1>3. ASSUME NEW i \in Nat \ {0} PROVE Sector(i) \in Nat \ {0}
  <2>1. (i - 1) \div PerSector \in Nat
    BY <1>1, Division, i - 1 \in Nat
  <2> QED
    BY <2>1 DEF Sector
<1>4. ASSUME NEW i \in Nat \ {0}, NEW j \in Nat \ {0}, i <= j PROVE Sector(i) <= Sector(j)
  <2>1. i - 1 \in Nat /\ j - 1 \in Nat /\ i - 1 <= j - 1
    BY <1>4
  <2>2. (i - 1) \div PerSector <= (j - 1) \div PerSector
    BY <1>1, <2>1, DivisionKeepsOrder
  <2>3. (i - 1) \div PerSector \in Nat /\ (j - 1) \div PerSector \in Nat
    BY <1>1, <2>1, Division
  <2> QED
    BY <2>2, <2>3 DEF Sector
<1>5. Fat \in Nat \ {0}
  BY <1>1, <1>3 DEF Fat
<1> QED
  BY <1>1, <1>2, <1>3, <1>4, <1>5

----------------------------------------------------------------------------
(* The kinds of entries and of steps.                                      *)

LEMMA Kinds ==
  /\ Kind(Link) = "link" /\ Kind(Flush) = "flush" /\ Kind(<<0, [kind |-> "sync"]>>) = "sync"
  /\ \A s : Kind(Clear(s)) = "clear" /\ Clear(s)[1] = s
  /\ Deleted.kind = "deleted" /\ Blank.kind = "free" /\ Old.kind = "sfn" /\ Old.file = NoFile
  /\ \A s, f : SfnEntry(s, f).kind = "sfn" /\ SfnEntry(s, f).file = f
  /\ \A n, o, s : LfnEntry(n, o, s).kind = "lfn"
BY DEF Kind, Link, Flush, Clear, Deleted, Blank, Old, SfnEntry, LfnEntry

LEMMA EntryKinds ==
  /\ Blank \in Entries /\ Deleted \in Entries /\ Old \in Entries
  /\ \A e \in LfnEntries : e.kind = "lfn"
  /\ \A e \in SfnEntries : e.kind = "sfn" /\ e.file \in File \cup {NoFile}
<1>1. Old = SfnEntry(OldSfn, NoFile)
  BY DEF Old, SfnEntry
<1>2. Old \in SfnEntries
  BY <1>1, TableAssumption DEF SfnEntries
<1>3. \A e \in LfnEntries : e.kind = "lfn"
  BY Kinds DEF LfnEntries
<1>4. \A e \in SfnEntries : e.kind = "sfn" /\ e.file \in File \cup {NoFile}
  BY Kinds DEF SfnEntries
<1> QED
  BY <1>2, <1>3, <1>4 DEF Entries

LEMMA WriteIs ==
  ASSUME NEW w \in Steps, IsWrite(w)
  PROVE  w[1] \in Nat /\ w[2] \in Entries
<1>1. Kind(w) \in {"lfn", "sfn", "deleted"}
  BY DEF IsWrite, Kind
<1>2. w \in Nat \X ({Deleted} \cup SfnEntries \cup LfnEntries)
  BY <1>1, Kinds DEF Steps
<1> QED
  BY <1>2 DEF Entries

LEMMA ClearIs ==
  ASSUME NEW s, Clear(s) \in Steps PROVE s \in Nat
<1>1. Kind(Clear(s)) = "clear" /\ Clear(s)[1] = s
  BY Kinds
<1>2. \A w \in Nat \X ({Deleted} \cup SfnEntries \cup LfnEntries) : Kind(w) # "clear"
  BY Kinds, EntryKinds DEF Kind
<1>3. \E r \in Nat : Clear(s) = Clear(r)
  BY <1>1, <1>2, Kinds DEF Steps
<1> QED
  BY <1>1, <1>3, Kinds

----------------------------------------------------------------------------
(* The steps of stretching the table.                                      *)

LEMMA RemainderIs ==
  ASSUME NEW a \in Nat, NEW p \in Nat \ {0}, NEW q \in Int, NEW x \in 0 .. p - 1,
         a = p * q + x
  PROVE  a % p = x
<1> DEFINE r == a \div p
           y == a % p
<1>1. r \in Nat /\ y \in 0 .. p - 1 /\ a = p * r + y
  BY Division
<1> HIDE DEF r, y
<1>2. p * r \in Int /\ p * q \in Int
  BY <1>1
<1>3. CASE r < q
  <2>1. p * (r + 1) <= p * q
    BY <1>1, <1>3
  <2>2. p * (r + 1) = p * r + p
    BY <1>1
  <2> QED
    BY <1>1, <1>2, <2>1, <2>2
<1>4. CASE q < r
  <2>1. p * (q + 1) <= p * r
    BY <1>1, <1>4
  <2>2. p * (q + 1) = p * q + p
    OBVIOUS
  <2> QED
    BY <1>1, <1>2, <2>1, <2>2
<1>5. CASE q = r
  <2>1. y = x
    BY <1>1, <1>2, <1>5
  <2> QED
    BY <2>1 DEF y
<1> QED
  BY <1>1, <1>3, <1>4, <1>5

LEMMA Remainders ==
  ASSUME NEW a \in Nat \ {0}, NEW p \in Nat \ {0}
  PROVE  (a - 1) % p = IF a % p = 0 THEN p - 1 ELSE (a % p) - 1
<1> DEFINE q == a \div p
           x == a % p
<1>1. q \in Nat /\ x \in 0 .. p - 1 /\ a = p * q + x
  BY Division
<1> HIDE DEF q, x
<1>2. a - 1 \in Nat /\ p * q \in Int
  BY <1>1
<1>3. CASE x = 0
  <2>1. p * (q - 1) = p * q - p
    BY <1>1
  <2>2. a - 1 = p * (q - 1) + (p - 1)
    BY <1>1, <1>2, <1>3, <2>1
  <2>3. q - 1 \in Int /\ p - 1 \in 0 .. p - 1
    BY <1>1
  <2>4. (a - 1) % p = p - 1
    BY <1>2, <2>2, <2>3, RemainderIs
  <2> QED
    BY <1>3, <2>4 DEF x
<1>4. CASE x # 0
  <2>1. a - 1 = p * q + (x - 1) /\ x - 1 \in 0 .. p - 1 /\ q \in Int
    BY <1>1, <1>2, <1>4
  <2>2. (a - 1) % p = x - 1
    BY <1>2, <2>1, RemainderIs
  <2> QED
    BY <1>4, <2>2 DEF x
<1> QED
  BY <1>3, <1>4

LEMMA StretchStep ==
  ASSUME NEW s \in Nat, NEW k \in Nat \ {0}
  PROVE  LET r == (k - 1) % (PerCluster + 2) IN
         /\ stretch(s, k) \in Steps
         /\ Kind(stretch(s, k)) = IF r = 0 THEN "link" ELSE IF r = 1 THEN "flush" ELSE "clear"
         /\ r > 1 => stretch(s, k)[1] > s
<1> DEFINE p == PerCluster + 2
           r == (k - 1) % p
           c == (k - 1) \div p
           x == s + c * PerCluster + r - 1
<1>1. PerCluster \in Nat \ {0} /\ p \in Nat \ {0} /\ k - 1 \in Nat
  BY Sizes
<1>2. r \in 0 .. p - 1 /\ c \in Nat
  BY <1>1, Division
<1>3. stretch(s, k) = IF r = 0 THEN Link ELSE IF r = 1 THEN Flush ELSE Clear(x)
  BY DEF stretch
<1> HIDE DEF p, r, c
<1>4. c * PerCluster \in Nat /\ r \in Nat
  BY <1>1, <1>2
<1>5. r > 1 => x \in Nat /\ x > s
  BY <1>4
<1> HIDE DEF x
<1>6. stretch(s, k) \in Steps
  BY <1>2, <1>3, <1>4, <1>5 DEF Steps
<1>7. Kind(stretch(s, k)) = IF r = 0 THEN "link" ELSE IF r = 1 THEN "flush" ELSE "clear"
  BY <1>3, Kinds
<1>8. r > 1 => stretch(s, k)[1] > s
  BY <1>3, <1>4, <1>5, Kinds
<1> QED
  BY <1>6, <1>7, <1>8 DEF r, p

\* A stretch clears only what lies behind the table, and a table that reaches
\* entry i is not stretched.
LEMMA StretchIs ==
  ASSUME NEW t \in Seq(Entries), Len(t) > 0, NEW i \in Nat
  PROVE  /\ Stretch(t, i) \in Seq(Steps) /\ Ordered(Stretch(t, i))
         /\ \A k \in 1 .. Len(Stretch(t, i)) :
              /\ Kind(Stretch(t, i)[k]) \in {"link", "flush", "clear"}
              /\ Kind(Stretch(t, i)[k]) = "clear" => Stretch(t, i)[k][1] > Sector(Len(t))
         /\ i <= Len(t) => Len(Stretch(t, i)) = 0
<1> DEFINE size == PerSector * PerCluster
           d == Max({i, Len(t)}) - Len(t)
           more == (d + size - 1) \div size
           n == more * (PerCluster + 2)
           s == Sector(Len(t))
           w == Stretch(t, i)
           r(k) == (k - 1) % (PerCluster + 2)
<1>1. size \in Nat \ {0} /\ PerCluster \in Nat \ {0} /\ Len(t) \in Nat \ {0} /\ s \in Nat
  BY Sizes
<1>2. d \in Nat /\ (i <= Len(t) => d = 0)
  BY <1>1, MaxOfTwo
<1>3. more \in Nat /\ (i <= Len(t) => more = 0)
  <2> HIDE DEF d, size
  <2>1. d + size - 1 \in Nat
    BY <1>1, <1>2
  <2>2. i <= Len(t) => d + size - 1 = size - 1
    BY <1>1, <1>2
  <2>3. (size - 1) \div size = 0
    BY <1>1, SmallQuotient
  <2>4. more \in Nat
    BY <1>1, <2>1, Division
  <2> QED
    BY <2>2, <2>3, <2>4
<1>4. w = [k \in 1 .. n |-> stretch(s, k)]
  BY DEF Stretch
<1> HIDE DEF d, size, more, s, w
<1>5. n \in Nat /\ (i <= Len(t) => n = 0)
  BY <1>1, <1>3
<1> HIDE DEF n
<1>6. ASSUME NEW k \in Nat \ {0}
      PROVE  /\ stretch(s, k) \in Steps
             /\ Kind(stretch(s, k)) = IF r(k) = 0 THEN "link" ELSE IF r(k) = 1 THEN "flush" ELSE "clear"
             /\ r(k) > 1 => stretch(s, k)[1] > s
             /\ r(k) \in 0 .. PerCluster + 1
  <2>1. r(k) \in 0 .. PerCluster + 1
    <3>1. k - 1 \in Nat /\ PerCluster + 2 \in Nat \ {0}
      BY <1>1
    <3> QED
      BY <1>1, <3>1, Division
  <2> QED
    BY <1>1, <2>1, StretchStep
<1>7. w \in Seq(Steps) /\ Len(w) = n /\ \A k \in 1 .. n : w[k] = stretch(s, k)
  BY <1>4, <1>5, <1>6
<1>8. \A k \in 1 .. n :
        /\ Kind(w[k]) \in {"link", "flush", "clear"}
        /\ Kind(w[k]) = "clear" => w[k][1] > s
  <2> SUFFICES ASSUME NEW k \in 1 .. n
               PROVE  /\ Kind(w[k]) \in {"link", "flush", "clear"}
                      /\ Kind(w[k]) = "clear" => w[k][1] > s
    OBVIOUS
  <2>1. k \in Nat \ {0} /\ w[k] = stretch(s, k)
    BY <1>5, <1>7
  <2> HIDE DEF r
  <2> QED
    BY <1>1, <1>6, <2>1
<1>9. Ordered(w)
  <2> SUFFICES ASSUME NEW k \in 2 .. n
               PROVE  /\ Kind(w[k]) = "clear" => Kind(w[k - 1]) \in {"flush", "clear"}
                      /\ Kind(w[k]) = "link" => Kind(w[k - 1]) = "clear"
    BY <1>7 DEF Ordered
  <2>1. k \in Nat \ {0} /\ k - 1 \in Nat \ {0} /\ w[k] = stretch(s, k) /\ w[k - 1] = stretch(s, k - 1)
    BY <1>5, <1>7
  <2>2. r(k - 1) = IF r(k) = 0 THEN PerCluster + 1 ELSE r(k) - 1
    <3>1. PerCluster + 2 \in Nat \ {0} /\ (PerCluster + 2) - 1 = PerCluster + 1
      BY <1>1
    <3>2. ((k - 1) - 1) % (PerCluster + 2) =
            IF (k - 1) % (PerCluster + 2) = 0 THEN (PerCluster + 2) - 1
            ELSE ((k - 1) % (PerCluster + 2)) - 1
      BY <2>1, <3>1, Remainders
    <3> QED
      BY <3>1, <3>2
  <2>3. r(k) \in 0 .. PerCluster + 1 /\ r(k - 1) \in 0 .. PerCluster + 1
    BY <1>6, <2>1
  <2>4. /\ Kind(w[k]) = IF r(k) = 0 THEN "link" ELSE IF r(k) = 1 THEN "flush" ELSE "clear"
        /\ Kind(w[k - 1]) = IF r(k - 1) = 0 THEN "link" ELSE IF r(k - 1) = 1 THEN "flush" ELSE "clear"
    BY <1>6, <2>1
  <2> HIDE DEF r
  <2> QED
    BY <1>1, <2>2, <2>3, <2>4
<1> QED
  BY <1>5, <1>7, <1>8, <1>9 DEF w, s
----------------------------------------------------------------------------
(* What a call is going to write.                                          *)

Quiet(w) == \A k \in 1 .. Len(w) : Kind(w[k]) \notin {"link", "clear", "sfn"}

LEMMA Joined ==
  ASSUME NEW u \in Seq(Steps), NEW v \in Seq(Steps)
  PROVE  /\ u \o v \in Seq(Steps) /\ Len(u \o v) = Len(u) + Len(v)
         /\ Len(u) \in Nat /\ Len(v) \in Nat
         /\ \A k \in 1 .. Len(u) : (u \o v)[k] = u[k]
         /\ \A k \in 1 .. Len(v) : (u \o v)[Len(u) + k] = v[k]
OBVIOUS

\* Steps that stretch nothing and write no short name may follow any others.
LEMMA Followed ==
  ASSUME NEW u \in Seq(Steps), NEW v \in Seq(Steps), Ordered(u), OneSfn(u), Quiet(v)
  PROVE  /\ u \o v \in Seq(Steps) /\ Len(u \o v) = Len(u) + Len(v)
         /\ \A k \in 1 .. Len(u) : (u \o v)[k] = u[k]
         /\ \A k \in 1 .. Len(u \o v) : Kind((u \o v)[k]) = "sfn" => k \in 1 .. Len(u)
         /\ Ordered(u \o v) /\ OneSfn(u \o v)
<1> DEFINE w == u \o v
<1>1. /\ w \in Seq(Steps) /\ Len(w) = Len(u) + Len(v) /\ Len(u) \in Nat /\ Len(v) \in Nat
      /\ \A k \in 1 .. Len(u) : w[k] = u[k]
      /\ \A k \in 1 .. Len(v) : w[Len(u) + k] = v[k]
  BY Joined
<1> HIDE DEF w
<1>2. ASSUME NEW k \in 1 .. Len(w), k \notin 1 .. Len(u)
      PROVE  Kind(w[k]) \notin {"link", "clear", "sfn"}
  <2>1. k - Len(u) \in 1 .. Len(v) /\ Len(u) + (k - Len(u)) = k
    BY <1>1, <1>2
  <2>2. w[k] = v[k - Len(u)]
    BY <1>1, <2>1
  <2> QED
    BY <2>1, <2>2 DEF Quiet
<1>3. Ordered(w)
  <2> SUFFICES ASSUME NEW k \in 2 .. Len(w), Kind(w[k]) \in {"link", "clear"}
               PROVE  /\ Kind(w[k]) = "clear" => Kind(w[k - 1]) \in {"flush", "clear"}
                      /\ Kind(w[k]) = "link" => Kind(w[k - 1]) = "clear"
    BY DEF Ordered
  <2>1. k \in 1 .. Len(w)
    BY <1>1
  <2>2. k \in 1 .. Len(u)
    BY <1>2, <2>1
  <2>3. k \in 2 .. Len(u) /\ k - 1 \in 1 .. Len(u)
    BY <1>1, <2>2
  <2>4. w[k] = u[k] /\ w[k - 1] = u[k - 1]
    BY <1>1, <2>2, <2>3
  <2> QED
    BY <2>3, <2>4 DEF Ordered
<1>4. \A k \in 1 .. Len(w) : Kind(w[k]) = "sfn" => k \in 1 .. Len(u)
  BY <1>2
<1>5. OneSfn(w)
  BY <1>1, <1>4 DEF OneSfn
<1> QED
  BY <1>1, <1>3, <1>4, <1>5 DEF w

LEMMA EndIs ==
  ASSUME NEW t \in Seq(Entries) PROVE End(t) \in 1 .. Len(t) + 1
<1> DEFINE S == {i \in DOMAIN t : t[i].kind = "free"} \cup {Len(t) + 1}
<1>1. S \in SUBSET Nat /\ S # {} /\ Len(t) + 1 \in S /\ S \subseteq 1 .. Len(t) + 1
  OBVIOUS
<1>2. End(t) = Min(S)
  BY DEF End
<1> HIDE DEF S
<1>3. Min(S) \in S
  BY <1>1, MinIs
<1> QED
  BY <1>1, <1>2, <1>3

LEMMA FoundIs ==
  ASSUME NEW t \in Seq(Entries), NEW n, dir_find(t, n) # NoSlot
  PROVE  dir_find(t, n) \in DOMAIN t /\ IsSfn(t, dir_find(t, n))
<1> DEFINE S == {i \in 1 .. End(t) - 1 : IsSfn(t, i) /\ Matches(t, i, n)}
<1>1. End(t) \in 1 .. Len(t) + 1 /\ Len(t) \in Nat
  BY EndIs
<1>2. S \in SUBSET Nat /\ \A i \in S : i \in DOMAIN t /\ IsSfn(t, i)
  <2>1. 1 .. End(t) - 1 \subseteq 1 .. Len(t) /\ DOMAIN t = 1 .. Len(t)
    BY <1>1
  <2> QED
    BY <2>1
<1>3. dir_find(t, n) = Least(S)
  BY DEF dir_find
<1> HIDE DEF S
<1> QED
  BY <1>2, <1>3, LeastIs

LEMMA AllocIs ==
  ASSUME NEW t \in Seq(Entries), NEW n \in Nat \ {0}, dir_alloc(t, n) # NoSlot
  PROVE  /\ dir_alloc(t, n) \in Nat \ {0}
         /\ \A i \in dir_alloc(t, n) .. dir_alloc(t, n) + n - 1 : i \in DOMAIN t => ~ IsSfn(t, i)
<1> DEFINE S == {b \in 1 .. Slots + 1 - n :
                  \A i \in b .. b + n - 1 : i > Len(t) \/ t[i].kind \in {"deleted", "free"}}
           b == dir_alloc(t, n)
<1>1. S \in SUBSET Nat
  BY Sizes
<1>2. b = Least(S)
  BY DEF dir_alloc
<1>3. b \in S
  <2> HIDE DEF S
  <2> QED
    BY <1>1, <1>2, LeastIs
<1>4. b \in Nat \ {0} /\ \A i \in b .. b + n - 1 : i > Len(t) \/ t[i].kind \in {"deleted", "free"}
  BY <1>3, Sizes
<1> HIDE DEF b, S
<1>5. \A i \in DOMAIN t : ~ (i > Len(t))
  OBVIOUS
<1> QED
  BY <1>4, <1>5 DEF IsSfn, b

LEMMA TextIs ==
  ASSUME NEW n \in Typed, n \notin Lossy PROVE Text(n) \in Sfn
BY NameAssumption DEF Typed, Text

LEMMA ShortNamesIs ==
  ASSUME NEW t, NEW n \in Typed PROVE ShortNames(t, n) \subseteq Sfn
<1>1. CASE n \notin Lossy
  BY <1>1, TextIs DEF ShortNames
<1>2. CASE n \in Lossy
  <2> DEFINE free == {k \in DOMAIN Tails[n] : ~UsesSfn(t, Tails[n][k])}
  <2>1. Tails[n] \in Seq(Sfn)
    BY <1>2, NameAssumption
  <2>2. free \in SUBSET Nat /\ free \subseteq DOMAIN Tails[n]
    BY <2>1
  <2>3. ShortNames(t, n) = IF free = {} THEN {} ELSE {Tails[n][Min(free)]}
    BY <1>2 DEF ShortNames, Numbered
  <2> HIDE DEF free
  <2>4. CASE free # {}
    <3>1. Min(free) \in DOMAIN Tails[n]
      BY <2>2, <2>4, MinIs
    <3> QED
      BY <2>1, <2>3, <2>4, <3>1
  <2> QED
    BY <2>3, <2>4
<1> QED
  BY <1>1, <1>2

\* The entries of a name and before them the clusters they need: they lie
\* where no entry of the table is in use.
LEMMA RegisterIs ==
  ASSUME NEW t \in Seq(Entries), Len(t) > 0, NEW n \in Typed, NEW f \in File \cup {NoFile},
         NEW w \in dir_register(t, n, f)
  PROVE  /\ w \in Seq(Steps) /\ Len(w) > 0 /\ Ordered(w) /\ OneSfn(w)
         /\ \A k \in 1 .. Len(w) : Kind(w[k]) = "sfn" => w[k][2].file = f
         /\ \A i \in DOMAIN t : IsSfn(t, i) => Spares(w, Len(w), i)
         /\ Last(w)[1] \in Nat \ {0}
         /\ Kind(w[1]) \in {"link", "clear"} => Last(w)[1] > Len(t)
<1> DEFINE p == LfnParts(n)
           b == dir_alloc(t, p + 1)
           u == Stretch(t, b + p)
           E(s, k) == IF k = p + 1 THEN SfnEntry(s, f) ELSE LfnEntry(n, p + 1 - k, Sum[s])
           V(s) == [k \in 1 .. p + 1 |-> <<b + k - 1, E(s, k)>>]
<1>1. p \in Nat /\ (p # 0 => n \in Long)
  BY NameAssumption DEF LfnParts
<1>2. b # NoSlot /\ \E s \in ShortNames(t, n) : w = u \o V(s)
  BY DEF dir_register
<1>3. PICK s \in Sfn : w = u \o V(s)
  BY <1>2, ShortNamesIs
<1>4. /\ b \in Nat \ {0}
      /\ \A i \in b .. b + p : i \in DOMAIN t => ~ IsSfn(t, i)
  <2>1. p + 1 \in Nat \ {0}
    BY <1>1
  <2> HIDE DEF p
  <2>2. b \in Nat \ {0} /\ \A i \in b .. b + (p + 1) - 1 : i \in DOMAIN t => ~ IsSfn(t, i)
    BY <1>2, <2>1, AllocIs
  <2>3. b + (p + 1) - 1 = b + p
    BY <1>1, <2>2
  <2> QED
    BY <2>2, <2>3
<1> DEFINE v == V(s)
<1>5. \A k \in 1 .. p + 1 :
        /\ v[k] = <<b + k - 1, E(s, k)>> /\ v[k] \in Steps
        /\ Kind(v[k]) = IF k = p + 1 THEN "sfn" ELSE "lfn"
        /\ k = p + 1 => v[k][2].file = f
  <2> HIDE DEF p, b
  <2> SUFFICES ASSUME NEW k \in 1 .. p + 1
               PROVE  /\ v[k] = <<b + k - 1, E(s, k)>> /\ v[k] \in Steps
                      /\ Kind(v[k]) = IF k = p + 1 THEN "sfn" ELSE "lfn"
                      /\ k = p + 1 => v[k][2].file = f
    OBVIOUS
  <2>1. v[k] = <<b + k - 1, E(s, k)>>
    OBVIOUS
  <2>2. b + k - 1 \in Nat
    BY <1>1, <1>4
  <2>3. CASE k = p + 1
    <3>1. E(s, k) = SfnEntry(s, f) /\ SfnEntry(s, f) \in SfnEntries
      BY <2>3 DEF SfnEntries
    <3> HIDE DEF E, v
    <3>2. v[k] \in Steps
      BY <2>1, <2>2, <3>1 DEF Steps
    <3> QED
      BY <2>1, <2>3, <3>1, <3>2, Kinds DEF Kind
  <2>4. CASE k # p + 1
    <3>1. n \in Long /\ p + 1 - k \in Nat
      BY <1>1, <2>4
    <3>2. E(s, k) = LfnEntry(n, p + 1 - k, Sum[s]) /\ LfnEntry(n, p + 1 - k, Sum[s]) \in LfnEntries
      BY <2>4, <3>1 DEF LfnEntries
    <3> HIDE DEF E, v
    <3>3. v[k] \in Steps
      BY <2>1, <2>2, <3>2 DEF Steps
    <3> QED
      BY <2>1, <2>4, <3>2, <3>3, Kinds DEF Kind
  <2> QED
    BY <2>3, <2>4
<1>6. v \in Seq(Steps) /\ Len(v) = p + 1
  <2>1. v = [k \in 1 .. p + 1 |-> v[k]] /\ p + 1 \in Nat
    BY <1>1
  <2> HIDE DEF v, p
  <2> QED
    BY <1>5, <2>1
<1>7. b + p \in Nat
  BY <1>1, <1>4
<1>8. /\ u \in Seq(Steps) /\ Ordered(u)
      /\ \A k \in 1 .. Len(u) : /\ Kind(u[k]) \in {"link", "flush", "clear"}
                                /\ Kind(u[k]) = "clear" => u[k][1] > Sector(Len(t))
      /\ b + p <= Len(t) => Len(u) = 0
  <2> HIDE DEF b, p
  <2> QED
    BY <1>7, StretchIs
<1> HIDE DEF p, b, u, E
<1>9. \A k \in 1 .. p + 1 : v[k][1] = b + k - 1
  BY <1>5
<1> HIDE DEF v
<1>10. /\ w \in Seq(Steps) /\ Len(w) = Len(u) + (p + 1) /\ Len(u) \in Nat
       /\ \A k \in 1 .. Len(u) : w[k] = u[k]
       /\ \A k \in 1 .. p + 1 : w[Len(u) + k] = v[k]
  <2>1. w = u \o v
    BY <1>3 DEF v
  <2>2. u \in Seq(Steps) /\ v \in Seq(Steps) /\ Len(v) = p + 1
    BY <1>6, <1>8 DEF v
  <2> HIDE DEF V
  <2>3. /\ u \o v \in Seq(Steps) /\ Len(u \o v) = Len(u) + Len(v) /\ Len(u) \in Nat
        /\ \A k \in 1 .. Len(u) : (u \o v)[k] = u[k]
        /\ \A k \in 1 .. Len(v) : (u \o v)[Len(u) + k] = v[k]
    BY <2>2, Joined
  <2> QED
    BY <2>1, <2>2, <2>3
<1>11. ASSUME NEW k \in 1 .. Len(w), k \notin 1 .. Len(u)
       PROVE  /\ k - Len(u) \in 1 .. p + 1 /\ w[k] = v[k - Len(u)]
              /\ Kind(w[k]) \in {"sfn", "lfn"}
              /\ Kind(w[k]) = "sfn" => k = Len(w)
              /\ w[k][1] \in b .. b + p
  <2>1. k - Len(u) \in 1 .. p + 1 /\ Len(u) + (k - Len(u)) = k
    BY <1>1, <1>10, <1>11
  <2>2. w[k] = v[k - Len(u)]
    BY <1>10, <2>1
  <2>3. Kind(w[k]) = IF k - Len(u) = p + 1 THEN "sfn" ELSE "lfn"
    BY <1>5, <2>1, <2>2
  <2>4. Kind(w[k]) = "sfn" => k = Len(w)
    BY <1>1, <1>10, <2>1, <2>3
  <2>5. w[k][1] = b + (k - Len(u)) - 1
    BY <1>9, <2>1, <2>2
  <2>6. w[k][1] \in b .. b + p
    BY <1>1, <1>4, <2>1, <2>5
  <2> QED
    BY <2>1, <2>2, <2>3, <2>4, <2>6
<1>12. Ordered(w)
  <2> SUFFICES ASSUME NEW k \in 2 .. Len(w), Kind(w[k]) \in {"link", "clear"}
               PROVE  /\ Kind(w[k]) = "clear" => Kind(w[k - 1]) \in {"flush", "clear"}
                      /\ Kind(w[k]) = "link" => Kind(w[k - 1]) = "clear"
    BY DEF Ordered
  <2>1. k \in 1 .. Len(w)
    BY <1>10
  <2>2. k \in 1 .. Len(u)
    BY <1>11, <2>1
  <2>3. k \in 2 .. Len(u) /\ k - 1 \in 1 .. Len(u)
    BY <1>10, <2>2
  <2> QED
    BY <1>8, <1>10, <2>2, <2>3 DEF Ordered
<1>13. \A k \in 1 .. Len(w) : Kind(w[k]) = "sfn" => k = Len(w) /\ w[k][2].file = f
  <2> SUFFICES ASSUME NEW k \in 1 .. Len(w), Kind(w[k]) = "sfn"
               PROVE  k = Len(w) /\ w[k][2].file = f
    OBVIOUS
  <2>1. k \notin 1 .. Len(u)
    BY <1>8, <1>10
  <2>2. k = Len(w) /\ k - Len(u) \in 1 .. p + 1 /\ w[k] = v[k - Len(u)]
    BY <1>11, <2>1
  <2>3. k - Len(u) = p + 1
    BY <1>1, <1>10, <2>2
  <2> QED
    BY <1>5, <2>2, <2>3
<1>14. OneSfn(w)
  BY <1>13 DEF OneSfn
<1>15. ASSUME NEW i \in DOMAIN t, IsSfn(t, i) PROVE Spares(w, Len(w), i)
  <2> SUFFICES ASSUME NEW l \in 1 .. Len(w)
               PROVE  /\ IsWrite(w[l]) => w[l][1] # i
                      /\ Kind(w[l]) = "clear" => w[l][1] # Sector(i)
    BY DEF Spares
  <2>1. CASE l \in 1 .. Len(u)
    <3>1. ~ IsWrite(w[l])
      BY <1>8, <1>10, <2>1 DEF IsWrite, Kind
    <3>2. i \in Nat \ {0} /\ Len(t) \in Nat \ {0} /\ i <= Len(t)
      OBVIOUS
    <3>3. Sector(i) <= Sector(Len(t)) /\ Sector(i) \in Nat /\ Sector(Len(t)) \in Nat
      BY <3>2, Sizes
    <3>4. Kind(w[l]) = "clear" => w[l][1] > Sector(Len(t))
      BY <1>8, <1>10, <2>1
    <3>5. Kind(w[l]) = "clear" => w[l][1] # Sector(i)
      BY <3>3, <3>4
    <3> QED
      BY <3>1, <3>5
  <2>2. CASE l \notin 1 .. Len(u)
    <3>1. Kind(w[l]) \in {"sfn", "lfn"} /\ w[l][1] \in b .. b + p
      BY <1>11, <2>2
    <3>2. w[l][1] # i
      BY <1>4, <1>15, <3>1
    <3> QED
      BY <3>1, <3>2
  <2> QED
    BY <2>1, <2>2
<1>16. Last(w)[1] = b + p
  <2>1. w[Len(u) + (p + 1)] = v[p + 1] /\ v[p + 1][1] = b + (p + 1) - 1
    BY <1>1, <1>9, <1>10
  <2>2. b + (p + 1) - 1 = b + p
    BY <1>1, <1>4
  <2> QED
    BY <1>10, <2>1, <2>2 DEF Last
<1>17. Len(w) > 0 /\ b + p \in Nat \ {0}
  BY <1>1, <1>4, <1>10
<1>18. Kind(w[1]) \in {"link", "clear"} => b + p > Len(t)
  <2> SUFFICES ASSUME Kind(w[1]) \in {"link", "clear"} PROVE b + p > Len(t)
    OBVIOUS
  <2>1. 1 \in 1 .. Len(w)
    BY <1>10, <1>17
  <2>2. 1 \in 1 .. Len(u)
    BY <1>11, <2>1
  <2> QED
    BY <1>7, <1>8, <1>10, <2>2
<1> QED
  BY <1>10, <1>12, <1>13, <1>14, <1>15, <1>16, <1>17, <1>18
LEMMA SyncIs == Sync \in Seq(Steps) /\ Len(Sync) = 1 /\ Quiet(Sync) /\ Ordered(<<>>) /\ OneSfn(<<>>)
<1>1. <<0, [kind |-> "sync"]>> \in Steps
  BY DEF Steps
<1>2. Sync = << <<0, [kind |-> "sync"]>> >>
  BY DEF Sync
<1>3. Sync \in Seq(Steps) /\ Len(Sync) = 1 /\ \A k \in 1 .. Len(Sync) : Sync[k] = <<0, [kind |-> "sync"]>>
  BY <1>1, <1>2
<1>4. Quiet(Sync)
  BY <1>3, Kinds DEF Quiet
<1>5. Ordered(<<>>) /\ OneSfn(<<>>)
  BY DEF Ordered, OneSfn
<1> QED
  BY <1>3, <1>4, <1>5

LEMMA BlockIs ==
  ASSUME NEW t \in Seq(Entries), NEW i \in Nat \ {0}
  PROVE  Block(t, i) \in 1 .. i
<1> DEFINE R == {0} \cup {j \in 1 .. i - 1 : t[j].kind # "lfn"}
           run == Max(R)
           top == {b \in run + 1 .. i - 1 : t[b].last}
<1>1. R \in SUBSET (0 .. i) /\ R # {} /\ i \in Nat
  OBVIOUS
<1>2. run \in 0 .. i
  <2> HIDE DEF R
  <2> QED
    BY <1>1, MaxIs
<1>3. Block(t, i) = IF top = {} THEN i ELSE Max(top)
  BY DEF Block
<1> HIDE DEF run
<1>4. top \in SUBSET (0 .. i) /\ top \subseteq 1 .. i
  BY <1>2
<1> HIDE DEF top
<1>5. top # {} => Max(top) \in top
  BY <1>1, <1>4, MaxIs
<1>6. CASE top = {}
  BY <1>1, <1>3, <1>6
<1>7. CASE top # {}
  BY <1>3, <1>4, <1>5, <1>7
<1> QED
  BY <1>6, <1>7

LEMMA RemoveIs ==
  ASSUME NEW t \in Seq(Entries), NEW i \in DOMAIN t
  PROVE  dir_remove(t, i) \in Seq(Steps) /\ Quiet(dir_remove(t, i)) /\ Len(dir_remove(t, i)) > 0
<1> DEFINE b == Block(t, i)
           n == i - b + 1
           w == dir_remove(t, i)
<1>1. i \in Nat \ {0} /\ b \in 1 .. i
  BY BlockIs
<1>2. w = [k \in 1 .. n |-> <<b + k - 1, Deleted>>]
  BY DEF dir_remove
<1> HIDE DEF b, w
<1>3. n \in Nat \ {0}
  BY <1>1
<1> HIDE DEF n
<1>4. \A k \in 1 .. n : <<b + k - 1, Deleted>> \in Steps /\ Kind(<<b + k - 1, Deleted>>) = "deleted"
  <2>1. \A k \in 1 .. n : b + k - 1 \in Nat
    BY <1>1, <1>3
  <2> QED
    BY <2>1, Kinds DEF Steps, Kind
<1>5. w \in Seq(Steps) /\ Len(w) = n /\ \A k \in 1 .. n : Kind(w[k]) = "deleted"
  BY <1>2, <1>3, <1>4
<1> QED
  BY <1>3, <1>5 DEF Quiet, w

----------------------------------------------------------------------------
(* The window.                                                             *)

LEMMA WindowMeans ==
  ASSUME WindowOK, TypeOK
  PROVE  /\ ~ dirty => disk = table
         /\ dirty /\ sect # Fat => Len(disk) = Len(table)
         /\ dirty => \A i \in DOMAIN table :
                       i \in DOMAIN disk /\ Sector(i) # sect => disk[i] = table[i]
<1>1. CASE ~ dirty
  BY <1>1 DEF WindowOK, Stored
<1>2. CASE dirty
  <2> DEFINE D == DOMAIN (IF sect = Fat THEN table ELSE disk)
  <2>1. table = [i \in D |-> IF Sector(i) = sect \/ i > Len(disk) THEN table[i] ELSE disk[i]]
    BY <1>2 DEF WindowOK, Stored
  <2>2. DOMAIN table = D
    BY <2>1
  <2>3. sect # Fat => Len(disk) = Len(table)
    BY <2>2 DEF TypeOK
  <2>4. \A i \in DOMAIN table : i \in DOMAIN disk /\ Sector(i) # sect => disk[i] = table[i]
    <3>1. \A i \in DOMAIN disk : ~ (i > Len(disk))
      BY DEF TypeOK
    <3> HIDE DEF D
    <3>2. \A i \in D : table[i] = IF Sector(i) = sect \/ i > Len(disk) THEN table[i] ELSE disk[i]
      BY <2>1
    <3> QED
      BY <2>2, <3>1, <3>2
  <2> QED
    BY <1>2, <2>3, <2>4
<1> QED
  BY <1>1, <1>2

LEMMA CleanWindow ==
  ASSUME disk' = table', dirty' = FALSE PROVE WindowOK'
BY DEF WindowOK, Stored

\* With changes in the window, the disk may lag behind in its sector only.
LEMMA Patched ==
  ASSUME NEW t \in Seq(Entries), NEW d \in Seq(Entries), NEW s \in Nat,
         s # Fat => Len(d) = Len(t),
         \A i \in DOMAIN t : i \in DOMAIN d /\ Sector(i) # s => d[i] = t[i]
  PROVE  [i \in DOMAIN (IF s = Fat THEN t ELSE d) |->
            IF Sector(i) = s \/ i > Len(d) THEN t[i] ELSE d[i]] = t
<1> DEFINE D == DOMAIN (IF s = Fat THEN t ELSE d)
           R(i) == IF Sector(i) = s \/ i > Len(d) THEN t[i] ELSE d[i]
<1>1. /\ DOMAIN t = 1 .. Len(t) /\ DOMAIN d = 1 .. Len(d) /\ Len(d) \in Nat /\ Len(t) \in Nat
      /\ t = [i \in 1 .. Len(t) |-> t[i]]
  OBVIOUS
<1>2. D = 1 .. Len(t)
  <2>1. CASE s = Fat
    BY <1>1, <2>1
  <2>2. CASE s # Fat
    BY <1>1, <2>2
  <2> QED
    BY <2>1, <2>2
<1>3. ASSUME NEW i \in 1 .. Len(t) PROVE R(i) = t[i]
  <2>1. Len(d) \in Nat /\ i \in Nat /\ 1 <= i
    OBVIOUS
  <2>2. i > Len(d) \/ i \in 1 .. Len(d)
    BY <2>1
  <2> QED
    BY <1>1, <2>2
<1> HIDE DEF D, R
<1>4. [i \in D |-> R(i)] = t
  BY <1>1, <1>2, <1>3
<1> QED
  BY <1>4 DEF D, R

LEMMA DirtyWindow ==
  ASSUME sect' \in Nat, dirty' = TRUE, table' \in Seq(Entries), disk' \in Seq(Entries),
         sect' # Fat => Len(disk') = Len(table'),
         \A i \in DOMAIN table' : i \in DOMAIN disk' /\ Sector(i) # sect' => disk'[i] = table'[i]
  PROVE  WindowOK'
<1>1. Stored' = [i \in DOMAIN (IF sect' = Fat THEN table' ELSE disk') |->
                  IF Sector(i) = sect' \/ i > Len(disk') THEN table'[i] ELSE disk'[i]]
  BY DEF Stored
<1>2. Stored' = table'
  BY <1>1, Patched
<1> QED
  BY <1>2 DEF WindowOK
----------------------------------------------------------------------------
(* The steps of a call.                                                    *)

\* What RenamedStays says of a step.
Stays == \A f \in Files(disk) \ Files(disk)' : f \notin (Files(table) \cup Coming)'

LEMMA FilesAre ==
  ASSUME NEW t, NEW f
  PROVE  f \in Files(t) <=> \E i \in DOMAIN t : HasFile(t, i, f)
BY DEF Files, HasFile

LEMMA ComingAre ==
  ASSUME NEW f, f \in Coming', todo' \in Seq(Steps)
  PROVE  \E k \in 1 .. Len(todo') : Kind(todo'[k]) = "sfn" /\ todo'[k][2].file = f
BY DEF Coming, Kind

LEMMA TailIs ==
  ASSUME todo \in Seq(Steps), todo # <<>>, todo' = Tail(todo)
  PROVE  /\ todo' \in Seq(Steps) /\ Len(todo) \in Nat \ {0} /\ Len(todo') = Len(todo) - 1
         /\ \A k \in 1 .. Len(todo') : todo'[k] = todo[k + 1] /\ k + 1 \in 1 .. Len(todo)
         /\ Head(todo) = todo[1] /\ 1 \in 1 .. Len(todo) /\ Head(todo) \in Steps
         /\ todo' # <<>> => 2 \in 2 .. Len(todo) /\ Head(todo') = todo[2]
OBVIOUS

LEMMA TailOrdered ==
  ASSUME todo \in Seq(Steps), todo # <<>>, todo' = Tail(todo), Ordered(todo), OneSfn(todo)
  PROVE  Ordered(todo') /\ OneSfn(todo')
<1>1. /\ Len(todo) \in Nat \ {0} /\ Len(todo') = Len(todo) - 1
      /\ \A k \in 1 .. Len(todo') : todo'[k] = todo[k + 1] /\ k + 1 \in 1 .. Len(todo)
  BY TailIs
<1>2. ASSUME NEW k \in 2 .. Len(todo')
      PROVE  /\ Kind(todo'[k]) = "clear" => Kind(todo'[k - 1]) \in {"flush", "clear"}
             /\ Kind(todo'[k]) = "link" => Kind(todo'[k - 1]) = "clear"
  <2>1. k \in 1 .. Len(todo') /\ k - 1 \in 1 .. Len(todo') /\ (k - 1) + 1 = k /\ (k + 1) - 1 = k
        /\ k + 1 \in 2 .. Len(todo)
    BY <1>1
  <2>2. todo'[k] = todo[k + 1] /\ todo'[k - 1] = todo[k]
    BY <1>1, <2>1
  <2> QED
    BY <2>1, <2>2 DEF Ordered
<1>3. ASSUME NEW k \in 1 .. Len(todo'), NEW l \in 1 .. Len(todo'),
             Kind(todo'[k]) = "sfn", Kind(todo'[l]) = "sfn"
      PROVE  k = l
  <2>1. k + 1 = l + 1
    BY <1>1, <1>3 DEF OneSfn
  <2> QED
    BY <1>1, <2>1
<1>4. Ordered(todo')
  BY <1>2 DEF Ordered
<1>5. OneSfn(todo')
  BY <1>3 DEF OneSfn
<1> QED
  BY <1>4, <1>5

\* The step after one that stores the window finds it without changes.
LEMMA NextReady ==
  ASSUME Inv, todo # <<>>, todo' = Tail(todo),
         Kind(Head(todo)) \in {"flush", "clear"} => dirty' = FALSE
  PROVE  Ready'
<1> SUFFICES ASSUME todo' # <<>>, Kind(Head(todo')) \in {"link", "clear"} PROVE dirty' = FALSE
  BY DEF Ready
<1>1. todo \in Seq(Steps) /\ Ordered(todo)
  BY DEF Inv, TypeOK
<1>2. 2 \in 2 .. Len(todo) /\ Head(todo') = todo[2] /\ Head(todo) = todo[1] /\ 2 - 1 = 1
  BY <1>1, TailIs
<1>3. Kind(todo[1]) \in {"flush", "clear"}
  BY <1>1, <1>2 DEF Ordered
<1> QED
  BY <1>2, <1>3

\* A step that changes no entry it is not about, and adds no file but that of
\* its entry, or what is in a new cluster.
Minds ==
  /\ disk' \in {disk, table, table'}
  /\ \A i \in DOMAIN table :
       IsSfn(table, i) /\ Spares(todo, 1, i) => i \in DOMAIN table' /\ table'[i] = table[i]
  /\ \A f \in Files(table') :
       \/ f \in Files(table)
       \/ f = NoFile /\ disk' = disk
       \/ Kind(Head(todo)) = "sfn" /\ Head(todo)[2].file = f

LEMMA StillAwaited ==
  ASSUME Inv, todo # <<>>, todo' = Tail(todo), Minds,
         NEW k \in 1 .. Len(todo'), Kind(todo'[k]) = "sfn"
  PROVE  LET f == todo'[k][2].file IN
         \/ New(f, table, disk) /\ New(f, table', disk')
         \/ (\E i \in DOMAIN table' : HasFile(table', i, f) /\ Spares(todo', k, i))
<1> DEFINE f == todo'[k][2].file
<1>1. todo \in Seq(Steps) /\ OneSfn(todo) /\ Awaited
  BY DEF Inv, TypeOK
<1>2. /\ Len(todo) \in Nat \ {0} /\ Len(todo') = Len(todo) - 1
      /\ \A l \in 1 .. Len(todo') : todo'[l] = todo[l + 1] /\ l + 1 \in 1 .. Len(todo)
      /\ Head(todo) = todo[1] /\ 1 \in 1 .. Len(todo)
  BY <1>1, TailIs
<1>3. todo'[k] = todo[k + 1] /\ k + 1 \in 1 .. Len(todo) /\ k + 1 # 1
  BY <1>2
<1>4. New(f, table, disk) \/ Kept(f, table, todo, k + 1)
  BY <1>1, <1>3 DEF Awaited
<1>5. Kind(Head(todo)) # "sfn"
  BY <1>1, <1>2, <1>3 DEF OneSfn
<1> HIDE DEF f
<1>6. CASE New(f, table, disk)
  <2>1. f \in File /\ f \notin Files(table) /\ f \notin Files(disk) /\ f # NoFile
    BY <1>6, TableAssumption DEF New
  <2>2. f \notin Files(table')
    BY <1>5, <2>1 DEF Minds
  <2>3. f \notin Files(disk')
    BY <2>1, <2>2 DEF Minds
  <2>4. New(f, table', disk')
    BY <2>1, <2>2, <2>3 DEF New
  <2> QED
    BY <1>6, <2>4 DEF f
<1>7. CASE Kept(f, table, todo, k + 1)
  <2>1. PICK i \in DOMAIN table : HasFile(table, i, f) /\ Spares(todo, k + 1, i)
    BY <1>7 DEF Kept
  <2>2. Spares(todo, 1, i)
    <3>1. \A l \in 1 .. 1 : l \in 1 .. k + 1
      BY <1>2
    <3> QED
      BY <2>1, <3>1 DEF Spares
  <2>3. i \in DOMAIN table' /\ table'[i] = table[i]
    BY <2>1, <2>2 DEF Minds, HasFile
  <2>4. HasFile(table', i, f)
    BY <2>1, <2>3 DEF HasFile, IsSfn
  <2>5. Spares(todo', k, i)
    <3> SUFFICES ASSUME NEW l \in 1 .. k
                 PROVE  /\ IsWrite(todo'[l]) => todo'[l][1] # i
                        /\ Kind(todo'[l]) = "clear" => todo'[l][1] # Sector(i)
      BY DEF Spares
    <3>1. l \in 1 .. Len(todo') /\ l + 1 \in 1 .. k + 1
      BY <1>2
    <3>2. todo'[l] = todo[l + 1]
      BY <1>2, <3>1
    <3> QED
      BY <2>1, <3>1, <3>2 DEF Spares
  <2> QED
    BY <2>3, <2>4, <2>5 DEF f
<1> QED
  BY <1>4, <1>6, <1>7

LEMMA StepKeeps ==
  ASSUME Inv, todo # <<>>, todo' = Tail(todo), Minds
  PROVE  Awaited' /\ Stays
<1>1. todo \in Seq(Steps) /\ todo' \in Seq(Steps) /\ Awaited
  BY TailIs DEF Inv, TypeOK
<1>2. Awaited'
  <2> SUFFICES ASSUME NEW k \in 1 .. Len(todo'), Kind(todo'[k]) = "sfn"
               PROVE  New(todo'[k][2].file, table', disk') \/ Kept(todo'[k][2].file, table', todo', k)
    BY DEF Awaited
  <2> QED
    BY StillAwaited DEF Kept
<1>3. ASSUME NEW f \in Files(disk), f \notin Files(disk') PROVE f \notin Files(table')
  <2> SUFFICES ASSUME f \in Files(table') PROVE FALSE
    OBVIOUS
  <2>1. disk' = table /\ disk' # disk
    BY <1>3 DEF Minds
  <2>2. f \notin Files(table)
    BY <1>3, <2>1
  <2>3. Kind(Head(todo)) = "sfn" /\ Head(todo)[2].file = f
    BY <2>1, <2>2 DEF Minds
  <2>4. New(f, table, disk) \/ Kept(f, table, todo, 1)
    BY <1>1, <2>3, TailIs DEF Awaited
  <2>5. ~ New(f, table, disk)
    BY DEF New
  <2>6. ~ Kept(f, table, todo, 1)
    BY <2>2, FilesAre DEF Kept
  <2> QED
    BY <2>4, <2>5, <2>6
<1>4. ASSUME NEW f \in Files(disk), f \notin Files(disk') PROVE f \notin Coming'
  <2> SUFFICES ASSUME f \in Coming' PROVE FALSE
    OBVIOUS
  <2>1. PICK k \in 1 .. Len(todo') : Kind(todo'[k]) = "sfn" /\ todo'[k][2].file = f
    BY <1>1, ComingAre
  <2>2. New(f, table, disk) \/ \E i \in DOMAIN table' : HasFile(table', i, f)
    BY <2>1, StillAwaited
  <2>3. ~ New(f, table, disk)
    BY DEF New
  <2>4. f \in Files(table')
    BY <2>2, <2>3, FilesAre
  <2> QED
    BY <1>3, <1>4, <2>4
<1>5. Stays
  <2> SUFFICES ASSUME NEW f \in Files(disk) \ Files(disk)' PROVE f \notin (Files(table) \cup Coming)'
    BY DEF Stays
  <2>1. f \in Files(disk) /\ f \notin Files(disk')
    BY DEF Files
  <2>2. f \notin Files(table') /\ f \notin Coming'
    BY <1>3, <1>4, <2>1
  <2> QED
    BY <2>2 DEF Files
<1> QED
  BY <1>2, <1>5
\* The last step of a call, done or cut short, leaves nothing to come.
LEMMA Ended ==
  ASSUME TypeOK', WindowOK', todo' = <<>>, disk' = disk \/ Files(disk') = Files(table')
  PROVE  Inv' /\ Stays
<1>1. Ordered(todo') /\ OneSfn(todo') /\ Awaited' /\ Ready'
  BY DEF Ordered, OneSfn, Awaited, Ready
<1>2. Coming' = {}
  BY DEF Coming
<1>3. Stays
  BY <1>2 DEF Stays, Files
<1> QED
  BY <1>1, <1>3 DEF Inv

\* The scans of a call leave the window as it was, or store it.
Looked ==
  \/ disk' = disk /\ dirty' = dirty /\ sect' = sect
  \/ disk' = table /\ dirty' = FALSE /\ sect' \in Nat

LEMMA Begun ==
  ASSUME Inv, table' = table, Looked, todo' \in Seq(Steps), Ordered(todo'), OneSfn(todo'),
         todo' # <<>> /\ Kind(todo'[1]) \in {"link", "clear"} => dirty' = FALSE,
         \A k \in 1 .. Len(todo') :
           Kind(todo'[k]) = "sfn" =>
             New(todo'[k][2].file, table, disk) \/ Kept(todo'[k][2].file, table, todo', k)
  PROVE  Inv' /\ Stays
<1>1. TypeOK'
  BY DEF Inv, TypeOK, Looked
<1>2. WindowOK'
  <2>1. CASE disk' = table /\ dirty' = FALSE
    BY <2>1, CleanWindow
  <2>2. CASE disk' = disk /\ dirty' = dirty /\ sect' = sect
    BY <2>2 DEF Inv, WindowOK, Stored
  <2> QED
    BY <2>1, <2>2 DEF Looked
<1>3. Ready'
  BY DEF Ready
<1>4. disk' \in {disk, table}
  BY DEF Looked
<1>5. Awaited'
  <2> SUFFICES ASSUME NEW k \in 1 .. Len(todo'), Kind(todo'[k]) = "sfn"
               PROVE  New(todo'[k][2].file, table', disk') \/ Kept(todo'[k][2].file, table', todo', k)
    BY DEF Awaited
  <2> QED
    BY <1>4 DEF New
<1>6. Stays
  <2> SUFFICES ASSUME NEW f \in Files(disk), f \notin Files(disk'), f \in Files(table') \/ f \in Coming'
               PROVE  FALSE
    BY DEF Stays, Files
  <2>1. disk' = table /\ f \notin Files(table) /\ f \in Coming'
    BY <1>4
  <2>2. PICK k \in 1 .. Len(todo') : Kind(todo'[k]) = "sfn" /\ todo'[k][2].file = f
    BY <2>1, ComingAre
  <2>3. ~ New(f, table, disk) /\ ~ Kept(f, table, todo', k)
    BY <2>1, FilesAre DEF New, Kept
  <2> QED
    BY <2>2, <2>3
<1> QED
  BY <1>1, <1>2, <1>3, <1>5, <1>6 DEF Inv

LEMMA ScannedIs ==
  ASSUME Inv, NEW S, NEW i \in Nat \ {0}, Scanned(S, i)
  PROVE  Looked /\ (i > Len(table) => dirty' = FALSE)
<1> DEFINE m == Min({i, Len(table)})
           Near == sect = 1 /\ \A j \in S \cup {i} : j <= Len(table) /\ Sector(j) = 1
<1>1. Len(table) \in Nat \ {0} /\ Stored = table
  BY DEF Inv, TypeOK, WindowOK
<1>2. m = IF i < Len(table) THEN i ELSE Len(table)
  BY <1>1, MinOfTwo
<1>3. sect' = Sector(m) /\ IF Near THEN UNCHANGED <<disk, dirty>> ELSE disk' = table /\ dirty' = FALSE
  BY <1>1 DEF Scanned
<1>4. CASE Near
  <2>1. i <= Len(table) /\ Sector(i) = 1 /\ sect = 1
    BY <1>4
  <2> HIDE DEF Near, m
  <2>2. m = i
    BY <1>1, <1>2, <2>1
  <2> QED
    BY <1>1, <1>3, <1>4, <2>1, <2>2 DEF Looked
<1>5. CASE ~ Near
  <2> HIDE DEF Near, m
  <2>1. m \in Nat \ {0}
    BY <1>1, <1>2
  <2>2. sect' \in Nat
    BY <1>3, <2>1, Sizes
  <2> QED
    BY <1>3, <1>5, <2>2 DEF Looked
<1> HIDE DEF Near
<1> QED
  BY <1>4, <1>5

\* A call that stores the window before its first step.
LEMMA StoredIs ==
  ASSUME Inv, NEW i \in Nat \ {0},
         disk' = Stored, dirty' = FALSE, sect' = Sector(Min({i, Len(table)}))
  PROVE  Looked
<1>1. Len(table) \in Nat \ {0} /\ Stored = table
  BY DEF Inv, TypeOK, WindowOK
<1>2. Min({i, Len(table)}) \in Nat \ {0}
  BY <1>1, MinOfTwo
<1>3. sect' \in Nat
  BY <1>2, Sizes
<1> QED
  BY <1>1, <1>3 DEF Looked

\* The steps of a registration, and others behind them, are begun: the file
\* is new or its entry is one of the table.
LEMMA Registered ==
  ASSUME Inv, NEW n \in Typed, NEW f \in File \cup {NoFile},
         NEW w \in dir_register(table, n, f), NEW v \in Seq(Steps), Quiet(v),
         todo' = w \o v, table' = table, Looked, Last(w)[1] > Len(table) => dirty' = FALSE,
         New(f, table, disk) \/ \E i \in DOMAIN table : HasFile(table, i, f)
  PROVE  Inv' /\ Stays
<1>1. table \in Seq(Entries) /\ Len(table) > 0
  BY DEF Inv, TypeOK
<1>2. /\ w \in Seq(Steps) /\ Len(w) > 0 /\ Ordered(w) /\ OneSfn(w)
      /\ \A k \in 1 .. Len(w) : Kind(w[k]) = "sfn" => w[k][2].file = f
      /\ \A i \in DOMAIN table : IsSfn(table, i) => Spares(w, Len(w), i)
      /\ Kind(w[1]) \in {"link", "clear"} => Last(w)[1] > Len(table)
  BY <1>1, RegisterIs
<1>3. /\ todo' \in Seq(Steps) /\ \A k \in 1 .. Len(w) : todo'[k] = w[k]
      /\ \A k \in 1 .. Len(todo') : Kind(todo'[k]) = "sfn" => k \in 1 .. Len(w)
      /\ Ordered(todo') /\ OneSfn(todo')
  BY <1>2, Followed
<1>4. todo' # <<>> /\ Kind(todo'[1]) \in {"link", "clear"} => dirty' = FALSE
  <2>1. 1 \in 1 .. Len(w)
    BY <1>2
  <2> QED
    BY <1>2, <1>3, <2>1
<1>5. ASSUME NEW k \in 1 .. Len(todo'), Kind(todo'[k]) = "sfn"
      PROVE  New(todo'[k][2].file, table, disk) \/ Kept(todo'[k][2].file, table, todo', k)
  <2>1. k \in 1 .. Len(w) /\ todo'[k] = w[k] /\ todo'[k][2].file = f
    BY <1>2, <1>3, <1>5
  <2>2. ASSUME NEW i \in DOMAIN table, HasFile(table, i, f) PROVE Spares(todo', k, i)
    <3>1. Spares(w, Len(w), i)
      BY <1>2, <2>2 DEF HasFile
    <3>2. \A l \in 1 .. k : l \in 1 .. Len(w) /\ todo'[l] = w[l]
      BY <1>2, <1>3, <2>1
    <3> QED
      BY <3>1, <3>2 DEF Spares
  <2> QED
    BY <2>1, <2>2 DEF Kept
<1> QED
  BY <1>3, <1>4, <1>5, Begun

\* A call that registers nothing begins steps that write no short name.
LEMMA OnlySteps ==
  ASSUME Inv, table' = table, Looked, todo' \in Seq(Steps), Ordered(todo'),
         todo' # <<>> /\ Kind(todo'[1]) \in {"link", "clear"} => dirty' = FALSE,
         \A k \in 1 .. Len(todo') : Kind(todo'[k]) # "sfn"
  PROVE  Inv' /\ Stays
<1>1. OneSfn(todo')
  BY DEF OneSfn
<1> QED
  BY <1>1, Begun

LEMMA QuietOrdered ==
  ASSUME NEW u \in Seq(Steps), NEW v \in Seq(Steps), Quiet(u), Quiet(v)
  PROVE  u \o v \in Seq(Steps) /\ Quiet(u \o v) /\ Ordered(u \o v)
<1>1. Ordered(u) /\ OneSfn(u)
  <2>1. \A k \in 2 .. Len(u) : k \in 1 .. Len(u)
    OBVIOUS
  <2> QED
    BY <2>1 DEF Quiet, Ordered, OneSfn
<1> DEFINE w == u \o v
<1>2. /\ w \in Seq(Steps) /\ Len(w) = Len(u) + Len(v) /\ Len(u) \in Nat /\ Len(v) \in Nat
      /\ \A k \in 1 .. Len(u) : w[k] = u[k]
      /\ \A k \in 1 .. Len(v) : w[Len(u) + k] = v[k]
  BY Joined
<1>3. Ordered(w)
  BY <1>1, Followed
<1> HIDE DEF w
<1>4. ASSUME NEW k \in 1 .. Len(w) PROVE Kind(w[k]) \notin {"link", "clear", "sfn"}
  <2>1. CASE k \in 1 .. Len(u)
    BY <1>2, <2>1 DEF Quiet
  <2>2. CASE k \notin 1 .. Len(u)
    <3>1. k - Len(u) \in 1 .. Len(v) /\ Len(u) + (k - Len(u)) = k
      BY <1>2, <2>2
    <3>2. w[k] = v[k - Len(u)]
      BY <1>2, <3>1
    <3> QED
      BY <3>1, <3>2 DEF Quiet
  <2> QED
    BY <2>1, <2>2
<1> QED
  BY <1>2, <1>3, <1>4 DEF Quiet, w
----------------------------------------------------------------------------
(* The calls.                                                              *)

LEMMA Chained ==
  ASSUME NEW u \in Seq(Steps), NEW v \in Seq(Steps), NEW w \in Seq(Steps)
  PROVE  (u \o v) \o w = u \o (v \o w) /\ u \o <<>> = u
OBVIOUS

LEMMA LastIs ==
  ASSUME Inv, NEW n \in Typed, NEW f \in File \cup {NoFile}, NEW w \in dir_register(table, n, f)
  PROVE  Last(w)[1] \in Nat \ {0} /\ w \in Seq(Steps)
BY RegisterIs DEF Inv, TypeOK

LEMMA OpenKeeps ==
  ASSUME Inv, NEW n \in Typed, NEW f \in File, f_open(n, f)
  PROVE  Inv' /\ Stays
<1>1. New(f, table, disk)
  BY DEF f_open, Creatable, New
<1>2. PICK w \in dir_register(table, n, f) : Begin(Text(n), w) /\ Scanned({End(table)}, Last(w)[1])
  BY DEF f_open
<1>3. Last(w)[1] \in Nat \ {0} /\ w \in Seq(Steps)
  BY LastIs
<1>4. Looked /\ (Last(w)[1] > Len(table) => dirty' = FALSE)
  BY <1>2, <1>3, ScannedIs
<1>5. <<>> \in Seq(Steps) /\ Quiet(<<>>) /\ todo' = w \o <<>> /\ table' = table
  BY <1>2, <1>3, Chained DEF Begin, Quiet
<1> QED
  BY <1>1, <1>4, <1>5, Registered

LEMMA MkdirKeeps ==
  ASSUME Inv, NEW n \in Typed, NEW f \in File, f_mkdir(n, f)
  PROVE  Inv' /\ Stays
<1>1. New(f, table, disk)
  BY DEF f_mkdir, Creatable, New
<1>2. PICK w \in dir_register(table, n, f) :
        /\ Begin(Text(n), w \o Sync)
        /\ disk' = Stored /\ dirty' = FALSE /\ sect' = Sector(Min({Last(w)[1], Len(table)}))
  BY DEF f_mkdir
<1>3. Last(w)[1] \in Nat \ {0}
  BY LastIs
<1>4. Looked
  BY <1>2, <1>3, StoredIs
<1>5. Sync \in Seq(Steps) /\ Quiet(Sync) /\ todo' = w \o Sync /\ table' = table
  BY <1>2, SyncIs DEF Begin
<1> QED
  BY <1>1, <1>2, <1>4, <1>5, Registered

LEMMA DeniedKeeps ==
  ASSUME Inv, NEW n \in Typed, dir_register_denied(n)
  PROVE  Inv' /\ Stays
<1> DEFINE w == Stretch(table, Slots)
<1>1. Len(table) < Slots /\ todo' = w /\ table' = table /\ Scanned({}, Slots)
  BY DEF dir_register_denied, Begin
<1>2. Slots \in Nat \ {0} /\ table \in Seq(Entries) /\ Len(table) > 0
  BY Sizes DEF Inv, TypeOK
<1>3. Looked /\ (Slots > Len(table) => dirty' = FALSE)
  BY <1>1, <1>2, ScannedIs
<1>4. dirty' = FALSE
  BY <1>1, <1>2, <1>3
<1>5. /\ w \in Seq(Steps) /\ Ordered(w)
      /\ \A k \in 1 .. Len(w) : Kind(w[k]) \in {"link", "flush", "clear"}
  BY <1>2, StretchIs
<1> HIDE DEF w
<1> QED
  BY <1>1, <1>3, <1>4, <1>5, OnlySteps

LEMMA UnlinkKeeps ==
  ASSUME Inv, NEW n, f_unlink(n)
  PROVE  Inv' /\ Stays
<1> DEFINE i == dir_find(table, n)
           w == dir_remove(table, i) \o Sync
<1>1. i # NoSlot /\ todo' = w /\ table' = table /\ Scanned({}, i)
  BY DEF f_unlink, Begin
<1>2. table \in Seq(Entries)
  BY DEF Inv, TypeOK
<1>3. i \in DOMAIN table /\ i \in Nat \ {0}
  <2>1. i \in DOMAIN table
    BY <1>1, <1>2, FoundIs
  <2> HIDE DEF i
  <2> QED
    BY <1>2, <2>1
<1>4. w \in Seq(Steps) /\ Quiet(w) /\ Ordered(w)
  BY <1>2, <1>3, RemoveIs, SyncIs, QuietOrdered
<1> HIDE DEF w, i
<1>5. Looked
  BY <1>1, <1>3, ScannedIs
<1>6. \A k \in 1 .. Len(w) : Kind(w[k]) \notin {"link", "clear", "sfn"}
  BY <1>4 DEF Quiet
<1>7. todo' # <<>> => Kind(todo'[1]) \notin {"link", "clear"}
  <2>1. w # <<>> => 1 \in 1 .. Len(w)
    BY <1>4
  <2> QED
    BY <1>1, <1>6, <2>1
<1> QED
  BY <1>1, <1>4, <1>5, <1>6, <1>7, OnlySteps

LEMMA RenameKeeps ==
  ASSUME Inv, NEW o, NEW n \in Typed, f_rename(o, n)
  PROVE  Inv' /\ Stays
<1> DEFINE i == dir_find(table, o)
           j == dir_find(table, Text(n))
           f == table[i].file
           r == dir_remove(table, i)
           S == {i} \cup IF j = i /\ n \notin Lossy THEN {} ELSE {End(table)}
<1>1. i # NoSlot
  BY DEF f_rename
<1>2. PICK w \in dir_register(table, n, f) :
        Begin(Text(n), Order(w, r) \o Sync) /\ Scanned(S, Last(w)[1])
  BY DEF f_rename
<1>3. table \in Seq(Entries)
  BY DEF Inv, TypeOK
<1>4. i \in DOMAIN table /\ IsSfn(table, i)
  BY <1>1, <1>3, FoundIs
<1>5. r \in Seq(Steps) /\ Quiet(r)
  BY <1>3, <1>4, RemoveIs
<1> HIDE DEF i, r, S
<1>6. HasFile(table, i, f)
  BY <1>4 DEF HasFile
<1>7. f \in File \cup {NoFile}
  <2>1. table[i] \in Entries /\ table[i].kind = "sfn"
    BY <1>3, <1>4 DEF IsSfn
  <2>2. table[i] \in SfnEntries
    BY <2>1, Kinds, EntryKinds DEF Entries
  <2> QED
    BY <2>2, EntryKinds
<1> HIDE DEF f
<1>8. Last(w)[1] \in Nat \ {0} /\ w \in Seq(Steps)
  BY <1>7, LastIs
<1>9. Looked /\ (Last(w)[1] > Len(table) => dirty' = FALSE)
  BY <1>2, <1>8, ScannedIs
<1>10. r \o Sync \in Seq(Steps) /\ Quiet(r \o Sync)
  BY <1>5, SyncIs, QuietOrdered
<1>11. todo' = w \o (r \o Sync) /\ table' = table
  BY <1>2, <1>5, <1>8, SyncIs, Chained DEF Begin, Order
<1> QED
  BY <1>4, <1>6, <1>7, <1>9, <1>10, <1>11, Registered

----------------------------------------------------------------------------
(* Storing and failing.                                                    *)

LEMMA InvMeans ==
  ASSUME Inv
  PROVE  /\ Stored = table /\ (~ dirty => disk = table)
         /\ table \in Seq(Entries) /\ Len(table) > 0 /\ disk \in Seq(Entries) /\ Len(disk) > 0
         /\ todo \in Seq(Steps) /\ sect \in Nat /\ dirty \in BOOLEAN
BY WindowMeans DEF Inv, TypeOK, WindowOK

LEMMA EmptyType == <<>> \in Seq(Steps)
OBVIOUS

LEMMA SyncKeeps ==
  ASSUME Inv, f_sync
  PROVE  Inv' /\ Stays
<1>1. todo' = <<>> /\ disk' = table /\ dirty' = FALSE /\ table' = table /\ sect' = sect
  BY InvMeans DEF f_sync
<1>2. table' \in Seq(Entries) /\ Len(table') > 0 /\ disk' = table' /\ sect' \in Nat
  BY <1>1, InvMeans
<1>3. TypeOK'
  BY <1>1, <1>2, EmptyType DEF TypeOK
<1>4. WindowOK'
  BY <1>1, <1>2, CleanWindow
<1> QED
  BY <1>1, <1>2, <1>3, <1>4, Ended

LEMMA ClearedTypes ==
  ASSUME NEW t \in Seq(Entries), NEW s
  PROVE  Cleared(t, s) \in Seq(Entries) /\ Len(Cleared(t, s)) = Len(t) /\ DOMAIN Cleared(t, s) = DOMAIN t
<1>1. \A i \in 1 .. Len(t) : (IF Sector(i) = s THEN Blank ELSE t[i]) \in Entries
  BY EntryKinds
<1>2. Cleared(t, s) = [i \in 1 .. Len(t) |-> IF Sector(i) = s THEN Blank ELSE t[i]] /\ Len(t) \in Nat
  BY DEF Cleared
<1> QED
  BY <1>1, <1>2

LEMMA ClearedFiles ==
  ASSUME NEW t \in Seq(Entries), NEW s
  PROVE  /\ Files(Cleared(t, s)) \subseteq Files(t)
         /\ \A i \in DOMAIN t : Sector(i) # s => Cleared(t, s)[i] = t[i]
<1>1. \A i \in DOMAIN t : Cleared(t, s)[i] = IF Sector(i) = s THEN Blank ELSE t[i]
  BY DEF Cleared
<1>2. DOMAIN Cleared(t, s) = DOMAIN t
  BY DEF Cleared
<1>3. ASSUME NEW f \in Files(Cleared(t, s)) PROVE f \in Files(t)
  <2>1. PICK i \in DOMAIN t : HasFile(Cleared(t, s), i, f)
    BY <1>2, FilesAre
  <2>2. Cleared(t, s)[i] = t[i]
    BY <1>1, <2>1, Kinds DEF HasFile, IsSfn
  <2>3. HasFile(t, i, f)
    BY <2>1, <2>2 DEF HasFile, IsSfn
  <2> QED
    BY <2>3, FilesAre
<1> QED
  BY <1>1, <1>3

LEMMA WriteErrorKeeps ==
  ASSUME Inv, write_error
  PROVE  Inv' /\ Stays
<1>1. /\ todo' = <<>> /\ table' = table
      /\ \/ dirty /\ disk' \in {disk, table} /\ sect' = sect /\ dirty' = dirty
         \/ disk' = table /\ sect' = 0 /\ dirty' = FALSE
  BY InvMeans DEF write_error, Fails
<1>2. TypeOK'
  <2>1. table' \in Seq(Entries) /\ Len(table') > 0 /\ sect' \in Nat
    BY <1>1, InvMeans
  <2>2. disk' \in Seq(Entries) /\ Len(disk') > 0
    BY <1>1, InvMeans
  <2>3. dirty' \in BOOLEAN
    BY <1>1, InvMeans
  <2> QED
    BY <1>1, <2>1, <2>2, <2>3, EmptyType DEF TypeOK
<1>3. WindowOK'
  <2>1. CASE disk' = table /\ dirty' = FALSE
    BY <1>1, <2>1, CleanWindow
  <2>2. CASE dirty /\ disk' = disk /\ sect' = sect /\ dirty' = dirty
    BY <1>1, <2>2 DEF Inv, WindowOK, Stored
  <2>3. CASE dirty /\ disk' = table /\ sect' = sect /\ dirty' = dirty
    BY <1>1, <1>2, <2>3, DirtyWindow DEF TypeOK
  <2> QED
    BY <1>1, <2>1, <2>2, <2>3
<1>4. disk' = disk \/ Files(disk') = Files(table')
  BY <1>1
<1> QED
  BY <1>1, <1>2, <1>3, <1>4, Ended

LEMMA ClearErrorKeeps ==
  ASSUME Inv, clear_error
  PROVE  Inv' /\ Stays
<1>1. PICK s \in 1 .. Fat - 1 :
        /\ At(Clear(s))
        /\ table' = Cleared(table, s) /\ disk' \in {disk, Cleared(disk, s)}
        /\ sect' = s /\ dirty' = TRUE /\ todo' = <<>>
  BY DEF clear_error, Fails
<1>2. disk = table
  BY <1>1, InvMeans, Kinds DEF Inv, Ready, At
<1>3. /\ Cleared(table, s) \in Seq(Entries) /\ Len(Cleared(table, s)) = Len(table)
      /\ DOMAIN Cleared(table, s) = DOMAIN table
      /\ \A i \in DOMAIN table : Sector(i) # s => Cleared(table, s)[i] = table[i]
  BY InvMeans, ClearedTypes, ClearedFiles
<1>4. s \in Nat /\ s # Fat
  BY Sizes
<1>5. TypeOK'
  BY <1>1, <1>2, <1>3, <1>4, InvMeans DEF TypeOK
<1>6. WindowOK'
  BY <1>1, <1>2, <1>3, <1>5, DirtyWindow DEF TypeOK
<1>7. disk' = disk \/ Files(disk') = Files(table')
  BY <1>1, <1>2
<1> QED
  BY <1>1, <1>5, <1>6, <1>7, Ended

LEMMA PowerLossKeeps ==
  ASSUME Inv, PowerLoss
  PROVE  Inv' /\ Stays
<1>1. table' = disk /\ disk' = disk /\ sect' = 0 /\ dirty' = FALSE /\ todo' = <<>>
  BY DEF PowerLoss, Fails
<1>2. table' \in Seq(Entries) /\ Len(table') > 0 /\ disk' = table' /\ sect' \in Nat
  BY <1>1, InvMeans
<1>3. TypeOK'
  BY <1>1, <1>2, EmptyType DEF TypeOK
<1>4. WindowOK'
  BY <1>1, <1>2, CleanWindow
<1> QED
  BY <1>1, <1>2, <1>3, <1>4, Ended
\* A step of a call that keeps the types and the window, and of the entries
\* and files what Minds says.
LEMMA StepDone ==
  ASSUME Inv, todo # <<>>, todo' = Tail(todo), Minds, WindowOK',
         table' \in Seq(Entries), Len(table') > 0, disk' \in Seq(Entries), Len(disk') > 0,
         sect' \in Nat, dirty' \in BOOLEAN,
         Kind(Head(todo)) \in {"flush", "clear"} => dirty' = FALSE
  PROVE  Inv' /\ Stays
<1>1. todo \in Seq(Steps) /\ Ordered(todo) /\ OneSfn(todo)
  BY DEF Inv, TypeOK
<1>2. todo' \in Seq(Steps) /\ Ordered(todo') /\ OneSfn(todo')
  BY <1>1, TailIs, TailOrdered
<1>3. TypeOK'
  BY <1>2 DEF TypeOK
<1>4. Awaited' /\ Stays /\ Ready'
  BY StepKeeps, NextReady
<1> QED
  BY <1>2, <1>3, <1>4 DEF Inv

LEMMA Lengthened ==
  ASSUME NEW t \in Seq(Entries), NEW m \in Seq(Entries)
  PROVE  /\ t \o m \in Seq(Entries) /\ Len(t \o m) = Len(t) + Len(m)
         /\ \A i \in 1 .. Len(t) : (t \o m)[i] = t[i]
         /\ \A i \in 1 .. Len(m) : (t \o m)[Len(t) + i] = m[i]
OBVIOUS

LEMMA Replaced ==
  ASSUME NEW t \in Seq(Entries), NEW x \in Nat, NEW e \in Entries
  PROVE  LET r == [t EXCEPT ![x] = e] IN
         /\ r \in Seq(Entries) /\ Len(r) = Len(t) /\ DOMAIN r = DOMAIN t
         /\ \A i \in DOMAIN t : r[i] = IF i = x THEN e ELSE t[i]
<1> DEFINE r == [t EXCEPT ![x] = e]
<1>1. DOMAIN r = DOMAIN t /\ \A i \in DOMAIN t : r[i] = IF i = x THEN e ELSE t[i]
  OBVIOUS
<1>2. DOMAIN t = 1 .. Len(t) /\ Len(t) \in Nat /\ \A i \in DOMAIN t : t[i] \in Entries
  OBVIOUS
<1>3. r = [i \in 1 .. Len(t) |-> r[i]]
  BY <1>2
<1> HIDE DEF r
<1>4. \A i \in 1 .. Len(t) : r[i] \in Entries
  BY <1>1, <1>2
<1>5. r \in Seq(Entries) /\ Len(r) = Len(t)
  BY <1>2, <1>3, <1>4
<1> QED
  BY <1>1, <1>5 DEF r

LEMMA LinkKeeps ==
  ASSUME Inv, dir_next_link
  PROVE  Inv' /\ Stays
<1> DEFINE n == PerSector * PerCluster
           more == [i \in 1 .. n |-> Old]
<1>1. /\ todo # <<>> /\ Head(todo) = Link /\ table' = table \o more
      /\ sect' = Fat /\ dirty' = TRUE /\ todo' = Tail(todo)
      /\ disk' = IF sect = Fat THEN disk ELSE Stored
  BY DEF dir_next_link, At, Step
<1>2. disk = table /\ disk' = disk
  <2>1. ~ dirty
    BY <1>1, Kinds DEF Inv, Ready
  <2>2. disk = table /\ Stored = table
    BY <2>1, InvMeans
  <2> QED
    BY <1>1, <2>2
<1>3. n \in Nat
  BY Sizes
<1> HIDE DEF n
<1>4. more \in Seq(Entries) /\ Len(more) = n /\ \A i \in 1 .. n : more[i] = Old
  BY <1>3, EntryKinds
<1>5. /\ table' \in Seq(Entries) /\ Len(table') = Len(table) + n
      /\ \A i \in 1 .. Len(table) : table'[i] = table[i]
      /\ \A i \in 1 .. n : table'[Len(table) + i] = Old
  <2> HIDE DEF more
  <2>1. table \in Seq(Entries)
    BY InvMeans
  <2> QED
    BY <1>1, <1>4, <2>1, Lengthened
<1>6. DOMAIN table = 1 .. Len(table) /\ Len(table) \in Nat /\ DOMAIN table' = 1 .. Len(table')
  BY <1>5, InvMeans
<1>7. Fat \in Nat
  BY Sizes
<1>8. WindowOK'
  <2>1. \A i \in DOMAIN table' : i \in DOMAIN disk' /\ Sector(i) # sect' => disk'[i] = table'[i]
    BY <1>2, <1>5, <1>6
  <2> QED
    BY <1>1, <1>2, <1>5, <1>7, <2>1, InvMeans, DirtyWindow
<1>9. ASSUME NEW f \in Files(table') PROVE f \in Files(table) \/ f = NoFile
  <2>1. PICK i \in DOMAIN table' : HasFile(table', i, f)
    BY FilesAre
  <2>2. CASE i \in 1 .. Len(table)
    <3>1. HasFile(table, i, f)
      BY <1>5, <2>1, <2>2 DEF HasFile, IsSfn
    <3> QED
      BY <1>6, <2>2, <3>1, FilesAre
  <2>3. CASE i \notin 1 .. Len(table)
    <3>1. i - Len(table) \in 1 .. n /\ Len(table) + (i - Len(table)) = i
      BY <1>3, <1>5, <1>6, <2>3
    <3>2. table'[i] = Old
      BY <1>5, <3>1
    <3> QED
      BY <2>1, <3>2, Kinds DEF HasFile
  <2> QED
    BY <2>2, <2>3
<1>10. Minds
  <2>1. \A i \in DOMAIN table : i \in DOMAIN table' /\ table'[i] = table[i]
    BY <1>3, <1>5, <1>6
  <2> QED
    BY <1>2, <1>9, <2>1 DEF Minds
<1>11. Len(table') > 0
  BY <1>3, <1>5, <1>6, InvMeans
<1>12. Kind(Head(todo)) = "link"
  BY <1>1, Kinds
<1> QED
  BY <1>1, <1>2, <1>5, <1>7, <1>8, <1>10, <1>11, <1>12, InvMeans, StepDone

LEMMA FlushKeeps ==
  ASSUME Inv, dir_next_flush \/ sync_fs
  PROVE  Inv' /\ Stays
<1>1. todo # <<>> /\ todo' = Tail(todo)
  <2>1. Sync # <<>>
    BY DEF Sync
  <2> QED
    BY <2>1 DEF dir_next_flush, sync_fs, At, Step
<1>2. disk' = table /\ table' = table /\ dirty' = FALSE /\ sect' = sect
  BY InvMeans DEF dir_next_flush, sync_fs
<1>3. WindowOK'
  BY <1>2, CleanWindow
<1>4. Minds
  BY <1>2 DEF Minds
<1>5. dirty' \in BOOLEAN /\ sect' \in Nat /\ disk' \in Seq(Entries) /\ Len(disk') > 0
  BY <1>2, InvMeans
<1> QED
  BY <1>1, <1>2, <1>3, <1>4, <1>5, StepDone

LEMMA ClearKeeps ==
  ASSUME Inv, dir_next_clear
  PROVE  Inv' /\ Stays
<1>1. PICK s \in 1 .. Fat - 1 :
        /\ todo # <<>> /\ Head(todo) = Clear(s) /\ todo' = Tail(todo)
        /\ table' = Cleared(table, s) /\ disk' = Cleared(disk, s)
        /\ sect' = s - ((s - 1) % PerCluster) /\ dirty' = FALSE
  BY DEF dir_next_clear, At, Step
<1>2. disk = table
  <2>1. ~ dirty
    BY <1>1, Kinds DEF Inv, Ready
  <2> QED
    BY <2>1, InvMeans
<1>3. /\ Cleared(table, s) \in Seq(Entries) /\ Len(Cleared(table, s)) = Len(table)
      /\ DOMAIN Cleared(table, s) = DOMAIN table
      /\ Files(Cleared(table, s)) \subseteq Files(table)
      /\ \A i \in DOMAIN table : Sector(i) # s => Cleared(table, s)[i] = table[i]
  BY InvMeans, ClearedTypes, ClearedFiles
<1>4. sect' \in Nat
  <2>1. s - 1 \in Nat /\ PerCluster \in Nat \ {0}
    BY Sizes
  <2>2. /\ (s - 1) % PerCluster \in 0 .. PerCluster - 1 /\ (s - 1) \div PerCluster \in Nat
        /\ s - 1 = PerCluster * ((s - 1) \div PerCluster) + ((s - 1) % PerCluster)
    BY <2>1, Division
  <2>3. PerCluster * ((s - 1) \div PerCluster) \in Nat
    BY <2>1, <2>2
  <2>4. (s - 1) % PerCluster <= s - 1
    BY <2>1, <2>2, <2>3
  <2> QED
    BY <1>1, <2>1, <2>2, <2>4
<1>5. WindowOK'
  BY <1>1, <1>2, CleanWindow
<1>6. ASSUME NEW i \in DOMAIN table, Spares(todo, 1, i) PROVE Sector(i) # s
  <2>1. 1 \in 1 .. 1 /\ Kind(todo[1]) = "clear" /\ todo[1][1] = s
    BY <1>1, InvMeans, TailIs, Kinds
  <2> QED
    BY <1>6, <2>1 DEF Spares
<1>7. Minds
  BY <1>1, <1>2, <1>3, <1>6 DEF Minds
<1> QED
  BY <1>1, <1>2, <1>3, <1>4, <1>5, <1>7, InvMeans, StepDone

LEMMA WriteKeeps ==
  ASSUME Inv, write_entry
  PROVE  Inv' /\ Stays
<1> DEFINE w == Head(todo)
           s == Sector(w[1])
<1>1. /\ todo # <<>> /\ IsWrite(w) /\ todo' = Tail(todo)
      /\ table' = [table EXCEPT ![w[1]] = w[2]]
      /\ disk' = IF s = sect THEN disk ELSE table
      /\ sect' = s /\ dirty' = TRUE
  BY InvMeans DEF write_entry, Step
<1>2. w \in Steps /\ todo[1] = w
  BY <1>1, InvMeans, TailIs
<1>3. w[1] \in Nat /\ w[2] \in Entries
  BY <1>1, <1>2, WriteIs
<1>4. /\ table' \in Seq(Entries) /\ Len(table') = Len(table) /\ DOMAIN table' = DOMAIN table
      /\ \A i \in DOMAIN table : table'[i] = IF i = w[1] THEN w[2] ELSE table[i]
  <2> HIDE DEF w, s
  <2>1. table \in Seq(Entries)
    BY InvMeans
  <2> QED
    BY <1>1, <1>3, <2>1, Replaced
<1>5. s \in Nat
  <2>1. w[1] = 0 \/ w[1] \in Nat \ {0}
    BY <1>3
  <2>2. CASE w[1] = 0
    <3>1. PerSector \in Nat /\ PerSector > 0
      BY Sizes
    <3>2. (0 - 1) \div PerSector = -1
      BY <3>1
    <3> QED
      BY <2>2, <3>2 DEF Sector
  <2>3. CASE w[1] \in Nat \ {0}
    BY <2>3, Sizes
  <2> QED
    BY <2>1, <2>2, <2>3
<1> HIDE DEF w
<1>6. \A i \in DOMAIN table : Sector(i) # s => table'[i] = table[i]
  <2>1. \A i : i = w[1] => Sector(i) = s
    OBVIOUS
  <2> HIDE DEF s
  <2> QED
    BY <1>4, <2>1
<1> HIDE DEF s
<1>7. /\ sect # Fat => Len(disk) = Len(table)
      /\ \A i \in DOMAIN table : i \in DOMAIN disk /\ Sector(i) # sect => disk[i] = table[i]
  <2>1. CASE dirty
    BY <2>1, WindowMeans DEF Inv
  <2>2. CASE ~ dirty
    BY <2>2, InvMeans
  <2> QED
    BY <2>1, <2>2
<1>8. /\ sect' # Fat => Len(disk') = Len(table')
      /\ \A i \in DOMAIN table' : i \in DOMAIN disk' /\ Sector(i) # sect' => disk'[i] = table'[i]
  <2>1. CASE s = sect
    BY <1>1, <1>4, <1>6, <1>7, <2>1
  <2>2. CASE s # sect
    BY <1>1, <1>4, <1>6, <2>2
  <2> QED
    BY <2>1, <2>2
<1>9. disk' \in {disk, table} /\ disk' \in Seq(Entries) /\ Len(disk') > 0
  BY <1>1, InvMeans
<1>10. WindowOK'
  BY <1>1, <1>4, <1>5, <1>8, <1>9, DirtyWindow
<1>11. ASSUME NEW i \in DOMAIN table, Spares(todo, 1, i) PROVE table'[i] = table[i]
  <2>1. 1 \in 1 .. 1 /\ w[1] # i
    BY <1>1, <1>2, <1>11 DEF Spares
  <2> QED
    BY <1>4, <2>1
<1>12. ASSUME NEW f \in Files(table')
       PROVE  f \in Files(table) \/ (Kind(w) = "sfn" /\ w[2].file = f)
  <2>1. PICK i \in DOMAIN table : HasFile(table', i, f)
    BY <1>4, FilesAre
  <2>2. CASE i = w[1]
    BY <1>4, <2>1, <2>2 DEF HasFile, IsSfn, Kind
  <2>3. CASE i # w[1]
    <3>1. HasFile(table, i, f)
      BY <1>4, <2>1, <2>3 DEF HasFile, IsSfn
    <3> QED
      BY <3>1, FilesAre
  <2> QED
    BY <2>2, <2>3
<1>13. Minds
  BY <1>4, <1>9, <1>11, <1>12 DEF Minds, w
<1>14. Kind(Head(todo)) \notin {"flush", "clear"}
  BY <1>1 DEF IsWrite, Kind, w
<1> QED
  BY <1>1, <1>4, <1>5, <1>9, <1>10, <1>13, <1>14, InvMeans, StepDone

----------------------------------------------------------------------------
(* Every step.                                                             *)

LEMMA InitInv == Init => Inv
<1> SUFFICES ASSUME Init PROVE Inv
  OBVIOUS
<1> DEFINE n == PerSector * PerCluster
<1>1. /\ table = [i \in 1 .. n |-> Blank] /\ disk = table
      /\ sect = 0 /\ dirty = FALSE /\ todo = <<>>
  BY DEF Init
<1>2. n \in Nat \ {0}
  BY Sizes
<1> HIDE DEF n
<1>3. table \in Seq(Entries) /\ Len(table) = n
  BY <1>1, <1>2, EntryKinds
<1>4. TypeOK
  <2>1. Len(table) > 0 /\ 0 \in Nat /\ FALSE \in BOOLEAN
    BY <1>2, <1>3
  <2> QED
    BY <1>1, <1>3, <2>1, EmptyType DEF TypeOK
<1>5. WindowOK
  BY <1>1 DEF WindowOK, Stored
<1>6. Ready /\ Ordered(todo) /\ OneSfn(todo) /\ Awaited
  BY <1>1 DEF Ready, Ordered, OneSfn, Awaited
<1> QED
  BY <1>4, <1>5, <1>6 DEF Inv

LEMMA StutterKeeps ==
  ASSUME Inv, UNCHANGED vars
  PROVE  Inv' /\ Stays
<1>1. /\ table' = table /\ disk' = disk /\ sect' = sect /\ dirty' = dirty /\ todo' = todo
  BY DEF vars
<1>2. TypeOK' /\ WindowOK' /\ Ready' /\ Ordered(todo') /\ OneSfn(todo')
  BY <1>1 DEF Inv, TypeOK, WindowOK, Stored, Ready, Ordered, OneSfn
<1>3. Awaited'
  BY <1>1 DEF Inv, Awaited
<1>4. Stays
  BY <1>1 DEF Stays, Files
<1> QED
  BY <1>2, <1>3, <1>4 DEF Inv

LEMMA NextKeeps ==
  ASSUME Inv, [Next]_vars
  PROVE  Inv' /\ Stays
<1>1. CASE Call
  BY <1>1, OpenKeeps, MkdirKeeps, UnlinkKeeps, RenameKeeps, DeniedKeeps DEF Call
<1>2. CASE dir_next
  BY <1>2, LinkKeeps, FlushKeeps, ClearKeeps DEF dir_next
<1>3. CASE write_entry \/ sync_fs \/ f_sync
  BY <1>3, WriteKeeps, FlushKeeps, SyncKeeps
<1>4. CASE write_error \/ clear_error \/ PowerLoss
  BY <1>4, WriteErrorKeeps, ClearErrorKeeps, PowerLossKeeps
<1>5. CASE UNCHANGED vars
  BY <1>5, StutterKeeps
<1> QED
  BY <1>1, <1>2, <1>3, <1>4, <1>5 DEF Next

\* The entries of the disk and the window are those of the table, and the
\* file of an entry still to be written is new or keeps its old entry.
THEOREM WindowInvariant == Spec => []Inv
<1>1. Init => Inv
  BY InitInv
<1>2. Inv /\ [Next]_vars => Inv'
  BY NextKeeps
<1> QED
  BY <1>1, <1>2, PTL DEF Spec

\* However often the power fails or a sector cannot be stored, and wherever
\* the entries lie: f_rename, which writes the new entry first, takes no file
\* off the disk that is in the table or that the call is still to write.
THEOREM RenameLosesNoFile == Spec => RenamedStays
<1>1. Inv /\ [Next]_vars =>
        [\A f \in Files(disk) \ Files(disk)' : f \notin (Files(table) \cup Coming)']_vars
  BY NextKeeps DEF Stays
<1> QED
  BY <1>1, WindowInvariant, PTL DEF Spec, RenamedStays

----------------------------------------------------------------------------
(* What the parts of a long name are attached to.                          *)

\* The parts from b on lead up to entry i, and only the first is marked as it.
Heads(t, b, i) ==
  /\ t[b].last
  /\ \A j \in b .. i - 1 : t[j].kind = "lfn"
  /\ \A j \in b + 1 .. i - 1 : ~ t[j].last

LEMMA BlockHeads ==
  ASSUME NEW t, NEW i \in Nat \ {0}
  PROVE  /\ Block(t, i) # i => Block(t, i) \in 1 .. i - 1 /\ Heads(t, Block(t, i), i)
         /\ \A b \in 1 .. i - 1 : Heads(t, b, i) => Block(t, i) = b
<1> DEFINE R == {0} \cup {j \in 1 .. i - 1 : t[j].kind # "lfn"}
           run == Max(R)
           top == {b \in run + 1 .. i - 1 : t[b].last}
           m == Max(top)
<1>1. R \in SUBSET (0 .. i) /\ R # {} /\ i \in Nat
  OBVIOUS
<1>2. run \in R /\ \A y \in R : y <= run
  <2> HIDE DEF R
  <2> QED
    BY <1>1, MaxIs
<1>3. Block(t, i) = IF top = {} THEN i ELSE m
  BY DEF Block
<1>4. run \in 0 .. i - 1 /\ (run = 0 \/ t[run].kind # "lfn")
      /\ \A j \in run + 1 .. i - 1 : t[j].kind = "lfn"
  <2>1. run \in 0 .. i - 1 /\ (run = 0 \/ t[run].kind # "lfn")
    <3> HIDE DEF run
    <3> QED
      BY <1>2
  <2>2. ASSUME NEW j \in run + 1 .. i - 1 PROVE t[j].kind = "lfn"
    <3> HIDE DEF run
    <3>1. j \in 1 .. i - 1 /\ ~ (j <= run)
      BY <2>1
    <3>2. j \notin R
      BY <1>2, <3>1
    <3> QED
      BY <3>1, <3>2
  <2> QED
    BY <2>1, <2>2
<1> HIDE DEF run, R
<1>5. top \in SUBSET (0 .. i) /\ \A b : b \in top <=> b \in run + 1 .. i - 1 /\ t[b].last
  BY <1>4
<1> HIDE DEF top
<1>6. top # {} => m \in top /\ \A y \in top : y <= m
  BY <1>1, <1>5, MaxIs
<1> HIDE DEF m
<1>7. ASSUME Block(t, i) # i
      PROVE  Block(t, i) \in 1 .. i - 1 /\ Heads(t, Block(t, i), i)
  <2>1. top # {} /\ Block(t, i) = m
    BY <1>3, <1>7
  <2>2. m \in top /\ m \in run + 1 .. i - 1 /\ t[m].last
    BY <1>5, <1>6, <2>1
  <2>3. ASSUME NEW j \in m + 1 .. i - 1 PROVE ~ t[j].last
    <3>1. j \in run + 1 .. i - 1 /\ ~ (j <= m)
      BY <1>4, <2>2
    <3>2. j \notin top
      BY <1>6, <2>1, <3>1
    <3> QED
      BY <1>5, <3>1, <3>2
  <2>4. \A j \in m .. i - 1 : t[j].kind = "lfn"
    BY <1>4, <2>2
  <2>5. m \in 1 .. i - 1
    BY <1>4, <2>2
  <2> QED
    BY <2>1, <2>2, <2>3, <2>4, <2>5 DEF Heads
<1>8. ASSUME NEW b \in 1 .. i - 1, Heads(t, b, i) PROVE Block(t, i) = b
  <2>1. run < b
    <3>1. ~ (run >= b)
      <4> SUFFICES ASSUME run >= b PROVE FALSE
        OBVIOUS
      <4>1. run \in b .. i - 1 /\ run # 0
        BY <1>4
      <4> QED
        BY <1>4, <1>8, <4>1 DEF Heads
    <3> QED
      BY <1>4, <3>1
  <2>2. b \in top
    <3>1. b \in run + 1 .. i - 1
      BY <1>4, <2>1
    <3> QED
      BY <1>5, <1>8, <3>1 DEF Heads
  <2>3. m \in top /\ b <= m /\ m \in run + 1 .. i - 1 /\ t[m].last
    BY <1>5, <1>6, <2>2
  <2>4. m \notin b + 1 .. i - 1
    BY <1>8, <2>3 DEF Heads
  <2>5. m = b
    BY <1>4, <2>3, <2>4
  <2> QED
    BY <1>3, <2>2, <2>5
<1> QED
  BY <1>7, <1>8

LEMMA LongTextIs ==
  ASSUME NEW t, NEW i \in Nat \ {0}
  PROVE  \A n : n \in LongText(t, i) <=>
                  \E b \in 1 .. i - 1 : Heads(t, b, i) /\ Attached(t, b, i) /\ n = t[b].text
<1> DEFINE b0 == Block(t, i)
<1>1. LongText(t, i) = {t[j].text : j \in {k \in {b0} \ {i} : Attached(t, b0, i)}}
  BY DEF LongText
<1>2. /\ b0 # i => b0 \in 1 .. i - 1 /\ Heads(t, b0, i)
      /\ \A b \in 1 .. i - 1 : Heads(t, b, i) => b0 = b
  BY BlockHeads
<1> HIDE DEF b0
<1>3. \A n : n \in LongText(t, i) <=> b0 # i /\ Attached(t, b0, i) /\ n = t[b0].text
  BY <1>1
<1>4. \A b \in 1 .. i - 1 : b # i
  OBVIOUS
<1> QED
  BY <1>2, <1>3, <1>4

\* Entry i gets no name by a change of the table before it when no part is new
\* there, or only such parts as other entries part from it.
LEMMA FewerNames ==
  ASSUME NEW t, NEW u, NEW i \in Nat \ {0}, u[i].sfn = t[i].sfn,
         \A j \in 1 .. i - 1 :
           u[j].kind = "lfn" => u[j] = t[j] \/ \E z \in j + 1 .. i - 1 : u[z].kind # "lfn"
  PROVE  LongText(u, i) \subseteq LongText(t, i)
<1> SUFFICES ASSUME NEW n \in LongText(u, i) PROVE n \in LongText(t, i)
  OBVIOUS
<1>1. PICK b \in 1 .. i - 1 : Heads(u, b, i) /\ Attached(u, b, i) /\ n = u[b].text
  BY LongTextIs
<1>2. ASSUME NEW j \in b .. i - 1 PROVE u[j] = t[j]
  <2>1. j \in 1 .. i - 1 /\ u[j].kind = "lfn"
    BY <1>1 DEF Heads
  <2>2. \A z \in j + 1 .. i - 1 : z \in b .. i - 1
    OBVIOUS
  <2>3. \A z \in j + 1 .. i - 1 : u[z].kind = "lfn"
    BY <1>1, <2>2 DEF Heads
  <2> QED
    BY <2>1, <2>3
<1>3. b \in b .. i - 1 /\ \A j \in b + 1 .. i - 1 : j \in b .. i - 1
  OBVIOUS
<1>4. Heads(t, b, i)
  BY <1>1, <1>2, <1>3 DEF Heads
<1>5. Attached(t, b, i)
  BY <1>1, <1>2, <1>3 DEF Attached
<1>6. n = t[b].text
  BY <1>1, <1>2, <1>3
<1> QED
  BY <1>4, <1>5, <1>6, LongTextIs

----------------------------------------------------------------------------
(* The names of a table.                                                   *)

\* An entry of a file, not one that a new cluster happens to hold.
Live(t, i) == i \in DOMAIN t /\ IsSfn(t, i) /\ t[i] # Old

\* The names entry i is found by.
Called(t, i) == {t[i].sfn} \cup LongText(t, i)

\* Of the names that are not in T, n leads to file f only.
Leads(t, T, n, f) == \A i : Live(t, i) /\ n \in Called(t, i) => n \in T \/ t[i].file = f

\* A long name that is a short name as well is that of its own entry.
Own(t, T) ==
  \A i : Live(t, i) =>
    t[i].file \in File /\ LongText(t, i) \cap Sfn \subseteq {t[i].sfn} \cup T

\* No name leads to two files.
Apart(t, T) ==
  \A i : Live(t, i) => \A n \in Called(t, i) : Leads(t, T, n, t[i].file)

\* Nothing but the old entries of a new cluster is behind a free entry.
Packed(t) ==
  \A i, j \in DOMAIN t : i < j /\ t[i].kind = "free" => t[j].kind = "free" \/ t[j] = Old

\* A table is a number of clusters.
Clusters(t) == \E c \in Nat \ {0} : Len(t) = PerSector * (PerCluster * c)

Sound(t, T) == Own(t, T) /\ Apart(t, T) /\ Packed(t) /\ Clusters(t)

\* From t to u there are no names that are new.
Shrunk(t, u) ==
  \A i : Live(u, i) => Live(t, i) /\ u[i] = t[i] /\ LongText(u, i) \subseteq LongText(t, i)

LEMMA ShrunkKeeps ==
  ASSUME NEW t, NEW u, NEW T, NEW U, Shrunk(t, u), T \subseteq U
  PROVE  /\ Own(t, T) => Own(u, U)
         /\ Apart(t, T) => Apart(u, U)
         /\ \A n, f : Leads(t, T, n, f) => Leads(u, U, n, f)
<1>1. ASSUME NEW i, Live(u, i)
      PROVE  /\ Live(t, i) /\ u[i] = t[i] /\ LongText(u, i) \subseteq LongText(t, i)
             /\ Called(u, i) \subseteq Called(t, i)
  BY <1>1 DEF Shrunk, Called
<1>2. ASSUME Own(t, T) PROVE Own(u, U)
  <2> SUFFICES ASSUME NEW i, Live(u, i)
               PROVE  u[i].file \in File /\ LongText(u, i) \cap Sfn \subseteq {u[i].sfn} \cup U
    BY DEF Own
  <2>1. t[i].file \in File /\ LongText(t, i) \cap Sfn \subseteq {t[i].sfn} \cup T
    BY <1>1, <1>2 DEF Own
  <2> QED
    BY <1>1, <2>1
<1>3. ASSUME NEW n, NEW f, Leads(t, T, n, f) PROVE Leads(u, U, n, f)
  <2> SUFFICES ASSUME NEW i, Live(u, i), n \in Called(u, i) PROVE n \in U \/ u[i].file = f
    BY DEF Leads
  <2>1. Live(t, i) /\ n \in Called(t, i) /\ u[i] = t[i]
    BY <1>1
  <2>2. n \in T \/ t[i].file = f
    BY <1>3, <2>1 DEF Leads
  <2> QED
    BY <2>1, <2>2
<1>4. ASSUME Apart(t, T) PROVE Apart(u, U)
  <2> SUFFICES ASSUME NEW i, Live(u, i), NEW n \in Called(u, i) PROVE Leads(u, U, n, u[i].file)
    BY DEF Apart
  <2>1. Live(t, i) /\ n \in Called(t, i) /\ u[i] = t[i]
    BY <1>1
  <2>2. Leads(t, T, n, t[i].file)
    BY <1>4, <2>1 DEF Apart
  <2> QED
    BY <1>3, <2>1, <2>2
<1> QED
  BY <1>2, <1>3, <1>4

LEMMA ShrunkSame ==
  ASSUME NEW t PROVE Shrunk(t, t)
BY DEF Shrunk

\* What is kept of an entry is the same, and so are the parts before it.
LEMMA ShrunkEntries ==
  ASSUME NEW t \in Seq(Entries), NEW u \in Seq(Entries),
         \A i : Live(u, i) => i \in DOMAIN t /\ u[i] = t[i],
         \A i : Live(u, i) => \A j \in 1 .. i - 1 :
           u[j].kind = "lfn" => u[j] = t[j] \/ \E z \in j + 1 .. i - 1 : u[z].kind # "lfn"
  PROVE  Shrunk(t, u)
<1> SUFFICES ASSUME NEW i, Live(u, i)
             PROVE  Live(t, i) /\ u[i] = t[i] /\ LongText(u, i) \subseteq LongText(t, i)
  BY DEF Shrunk
<1>1. i \in DOMAIN t /\ u[i] = t[i]
  OBVIOUS
<1>2. Live(t, i)
  BY <1>1 DEF Live, IsSfn
<1>3. i \in Nat \ {0}
  BY <1>1
<1>4. LongText(u, i) \subseteq LongText(t, i)
  BY <1>1, <1>3, FewerNames
<1> QED
  BY <1>1, <1>2, <1>4

LEMMA ShrunkLonger ==
  ASSUME NEW t \in Seq(Entries), NEW u \in Seq(Entries), Len(t) <= Len(u),
         \A i \in DOMAIN u : IF i \in DOMAIN t THEN u[i] = t[i] ELSE u[i] = Old
  PROVE  Shrunk(t, u)
<1>1. \A i : Live(u, i) => i \in DOMAIN t /\ u[i] = t[i]
  BY DEF Live
<1>2. ASSUME NEW i, Live(u, i), NEW j \in 1 .. i - 1 PROVE u[j] = t[j]
  <2>1. i \in DOMAIN t
    BY <1>1, <1>2
  <2>2. j \in DOMAIN t /\ j \in DOMAIN u
    BY <2>1
  <2> QED
    BY <2>2
<1> QED
  BY <1>1, <1>2, ShrunkEntries

LEMMA ShrunkCleared ==
  ASSUME NEW t \in Seq(Entries), NEW s
  PROVE  Shrunk(t, Cleared(t, s))
<1> DEFINE u == Cleared(t, s)
<1>1. u \in Seq(Entries) /\ DOMAIN u = DOMAIN t
  BY ClearedTypes
<1>2. \A i \in DOMAIN t : u[i] = IF Sector(i) = s THEN Blank ELSE t[i]
  BY DEF Cleared
<1> HIDE DEF u
<1>3. \A i : Live(u, i) => i \in DOMAIN t /\ u[i] = t[i]
  BY <1>1, <1>2, Kinds DEF Live, IsSfn
<1>4. ASSUME NEW i, Live(u, i), NEW j \in 1 .. i - 1, u[j].kind = "lfn" PROVE u[j] = t[j]
  <2>1. i \in DOMAIN t
    BY <1>3, <1>4
  <2>2. j \in DOMAIN t
    BY <2>1
  <2> QED
    BY <1>2, <1>4, <2>2, Kinds
<1>5. Shrunk(t, u)
  BY <1>1, <1>3, <1>4, ShrunkEntries
<1> QED
  BY <1>5 DEF u

\* Nothing is attached to what is in front of an unused entry.
Unused(t, x) == x \in DOMAIN t => t[x].kind \in {"deleted", "free"} \/ t[x] = Old

\* Entry x of t becomes e.
Puts(t, u, x, e) ==
  /\ t \in Seq(Entries) /\ u \in Seq(Entries) /\ Len(u) = Len(t) /\ DOMAIN u = DOMAIN t
  /\ x \in Nat /\ \A i \in DOMAIN t : u[i] = IF i = x THEN e ELSE t[i]

LEMMA ShrunkWritten ==
  ASSUME NEW t, NEW u, NEW x, NEW e, Puts(t, u, x, e), e.kind \in {"lfn", "deleted"},
         e.kind = "lfn" => Unused(t, x + 1)
  PROVE  Shrunk(t, u)
<1> USE DEF Puts
<1>1. \A i : Live(u, i) => i \in DOMAIN t /\ i # x /\ u[i] = t[i]
  BY DEF Live, IsSfn
<1>2. ASSUME NEW i, Live(u, i), NEW j \in 1 .. i - 1, u[j].kind = "lfn"
      PROVE  u[j] = t[j] \/ \E z \in j + 1 .. i - 1 : u[z].kind # "lfn"
  <2>1. i \in DOMAIN t /\ DOMAIN t = 1 .. Len(t) /\ Len(t) \in Nat
    BY <1>1, <1>2
  <2>2. j \in DOMAIN t
    BY <2>1
  <2>3. CASE j # x
    BY <2>2, <2>3
  <2>4. CASE j = x
    <3>1. e.kind = "lfn" /\ x + 1 \in DOMAIN t
      BY <1>2, <2>1, <2>2, <2>4
    <3>2. t[x + 1].kind \in {"deleted", "free"} \/ t[x + 1] = Old
      BY <3>1 DEF Unused
    <3>3. u[x + 1] = t[x + 1]
      BY <3>1
    <3>4. u[x + 1].kind # "lfn" /\ ~ Live(u, x + 1)
      BY <3>2, <3>3, Kinds DEF Live, IsSfn
    <3>5. x + 1 # i
      BY <1>2, <3>4
    <3>6. x + 1 \in j + 1 .. i - 1
      BY <2>1, <2>4, <3>5
    <3> QED
      BY <3>4, <3>6
  <2> QED
    BY <2>3, <2>4
<1> QED
  BY <1>1, <1>2, ShrunkEntries

\* The entry of file f gets its short name s, the name a that the call was
\* asked for, or one that is taken from then on.
LEMMA Named ==
  ASSUME NEW t, NEW u, NEW y, NEW s, NEW f \in File, Puts(t, u, y, SfnEntry(s, f)),
         NEW a, NEW T, NEW U, T \subseteq U,
         y \in DOMAIN t => LongText(u, y) \subseteq {a} \cup U,
         a \in Sfn => a = s,
         Leads(t, T, s, f), Leads(t, T, a, f), Own(t, T), Apart(t, T)
  PROVE  Own(u, U) /\ Apart(u, U)
<1> USE DEF Puts
<1>1. u[y] = SfnEntry(s, f) \/ y \notin DOMAIN t
  OBVIOUS
<1>2. ASSUME NEW i, Live(u, i), i # y
      PROVE  /\ Live(t, i) /\ u[i] = t[i] /\ LongText(u, i) \subseteq LongText(t, i)
             /\ Called(u, i) \subseteq Called(t, i)
  <2>1. i \in DOMAIN t /\ u[i] = t[i] /\ i \in Nat \ {0}
    BY <1>2 DEF Live
  <2>2. Live(t, i)
    BY <1>2, <2>1 DEF Live, IsSfn
  <2>3. ASSUME NEW j \in 1 .. i - 1, u[j].kind = "lfn" PROVE u[j] = t[j]
    <3>1. j \in DOMAIN t
      BY <2>1
    <3> QED
      BY <2>3, <3>1, Kinds
  <2>4. LongText(u, i) \subseteq LongText(t, i)
    BY <2>1, <2>3, FewerNames
  <2> QED
    BY <2>1, <2>2, <2>4 DEF Called
<1>3. Live(u, y) => Called(u, y) \subseteq {s, a} \cup U /\ u[y].file = f /\ u[y].sfn = s
  BY <1>1 DEF Live, Called, SfnEntry
<1>4. ASSUME NEW i, Live(u, i)
      PROVE  u[i].file \in File /\ LongText(u, i) \cap Sfn \subseteq {u[i].sfn} \cup U
  <2>1. CASE i = y
    <3>1. u[y].file = f /\ u[y].sfn = s /\ y \in DOMAIN t
      BY <1>3, <1>4, <2>1 DEF Live
    <3> QED
      BY <2>1, <3>1
  <2>2. CASE i # y
    <3>1. t[i].file \in File /\ LongText(t, i) \cap Sfn \subseteq {t[i].sfn} \cup T
      BY <1>2, <1>4, <2>2 DEF Own
    <3> QED
      BY <1>2, <1>4, <2>2, <3>1
  <2> QED
    BY <2>1, <2>2
<1>5. ASSUME NEW i, Live(u, i), i # y, NEW n \in Called(u, i), n \in {s, a} \cup U
      PROVE  n \in U \/ u[i].file = f
  <2>1. Live(t, i) /\ n \in Called(t, i) /\ u[i] = t[i]
    BY <1>2, <1>5
  <2>2. n \in {s, a} => n \in T \/ t[i].file = f
    BY <2>1 DEF Leads
  <2> QED
    BY <1>5, <2>1, <2>2
<1>6. ASSUME NEW i, Live(u, i), NEW n \in Called(u, i) PROVE Leads(u, U, n, u[i].file)
  <2> SUFFICES ASSUME NEW j, Live(u, j), n \in Called(u, j) PROVE n \in U \/ u[j].file = u[i].file
    BY DEF Leads
  <2>1. CASE i = y /\ j = y
    BY <2>1
  <2>2. CASE i = y /\ j # y
    <3>1. n \in {s, a} \cup U /\ u[i].file = f
      BY <1>3, <1>6, <2>2
    <3> QED
      BY <1>5, <2>2, <3>1
  <2>3. CASE i # y /\ j = y
    <3>1. n \in {s, a} \cup U /\ u[j].file = f
      BY <1>3, <2>3
    <3>2. n \in U \/ u[i].file = f
      BY <1>5, <1>6, <2>3, <3>1
    <3> QED
      BY <3>1, <3>2
  <2>4. CASE i # y /\ j # y
    <3>1. Live(t, i) /\ n \in Called(t, i) /\ u[i] = t[i]
      BY <1>2, <1>6, <2>4
    <3>2. Live(t, j) /\ n \in Called(t, j) /\ u[j] = t[j]
      BY <1>2, <2>4
    <3>3. n \in T \/ t[j].file = t[i].file
      BY <3>1, <3>2 DEF Apart, Leads
    <3> QED
      BY <3>1, <3>2, <3>3
  <2> QED
    BY <2>1, <2>2, <2>3, <2>4
<1> QED
  BY <1>4, <1>6 DEF Own, Apart

\* Free entries stay at the end.
Solid(t, i) == i \in DOMAIN t /\ t[i].kind # "free" /\ t[i] # Old

LEMMA PackedLonger ==
  ASSUME NEW t \in Seq(Entries), NEW u \in Seq(Entries), Len(t) <= Len(u), Packed(t),
         \A i \in DOMAIN u : IF i \in DOMAIN t THEN u[i] = t[i] ELSE u[i] = Old
  PROVE  Packed(u)
<1> SUFFICES ASSUME NEW i \in DOMAIN u, NEW j \in DOMAIN u, i < j, u[i].kind = "free"
             PROVE  u[j].kind = "free" \/ u[j] = Old
  BY DEF Packed
<1>1. CASE j \in DOMAIN t
  <2>1. i \in DOMAIN t
    BY <1>1
  <2> QED
    BY <1>1, <2>1 DEF Packed
<1>2. CASE j \notin DOMAIN t
  BY <1>2
<1> QED
  BY <1>1, <1>2

LEMMA PackedCleared ==
  ASSUME NEW t \in Seq(Entries), NEW s \in Nat, Packed(t),
         \A i \in DOMAIN t : Sector(i) >= s => t[i] \in {Old, Blank}
  PROVE  Packed(Cleared(t, s))
<1> DEFINE u == Cleared(t, s)
<1>1. DOMAIN u = DOMAIN t
  BY ClearedTypes
<1>2. \A i \in DOMAIN t : u[i] = IF Sector(i) = s THEN Blank ELSE t[i]
  BY DEF Cleared
<1> HIDE DEF u
<1>3. ASSUME NEW i \in DOMAIN t, NEW j \in DOMAIN t, i < j, u[i].kind = "free"
      PROVE  u[j].kind = "free" \/ u[j] = Old
  <2>1. i \in Nat \ {0} /\ j \in Nat \ {0} /\ i <= j
    BY <1>3
  <2>2. Sector(i) <= Sector(j) /\ Sector(i) \in Nat /\ Sector(j) \in Nat
    BY <2>1, Sizes
  <2>3. t[j].kind = "free" \/ t[j] = Old
    <3>1. CASE Sector(i) = s
      <4>1. t[j] \in {Old, Blank}
        BY <2>2, <3>1
      <4> QED
        BY <4>1, Kinds
    <3>2. CASE Sector(i) # s
      BY <1>2, <1>3, <3>2 DEF Packed
    <3> QED
      BY <3>1, <3>2
  <2> QED
    BY <1>2, <2>3, Kinds
<1>4. Packed(u)
  BY <1>1, <1>3 DEF Packed
<1> QED
  BY <1>4 DEF u

LEMMA PackedWritten ==
  ASSUME NEW t, NEW u, NEW x, NEW e, Puts(t, u, x, e), e.kind # "free", Packed(t),
         \A i \in 1 .. x - 1 : Solid(t, i)
  PROVE  Packed(u)
<1> USE DEF Puts
<1> SUFFICES ASSUME NEW i \in DOMAIN t, NEW j \in DOMAIN t, i < j, u[i].kind = "free"
             PROVE  u[j].kind = "free" \/ u[j] = Old
  BY DEF Packed
<1>1. i # x /\ t[i].kind = "free"
  OBVIOUS
<1>2. j # x
  <2>1. ~ Solid(t, i)
    BY <1>1 DEF Solid
  <2>2. i \notin 1 .. x - 1
    BY <2>1
  <2> QED
    BY <2>2
<1> QED
  BY <1>1, <1>2 DEF Packed

----------------------------------------------------------------------------
(* Stretching the table.                                                   *)

LEMMA SectorBehind ==
  ASSUME NEW i \in Nat \ {0}, NEW s \in Nat
  PROVE  Sector(i) > s <=> i > PerSector * s
<1> DEFINE q == (i - 1) \div PerSector
           x == (i - 1) % PerSector
<1>1. PerSector \in Nat \ {0} /\ i - 1 \in Nat
  BY Sizes
<1>2. q \in Nat /\ x \in 0 .. PerSector - 1 /\ i - 1 = PerSector * q + x
  BY <1>1, Division
<1>3. Sector(i) = q + 1
  BY DEF Sector
<1> HIDE DEF q, x
<1>4. CASE q >= s
  <2>1. PerSector * q >= PerSector * s
    BY <1>1, <1>2, <1>4
  <2>2. PerSector * q \in Nat /\ PerSector * s \in Nat
    BY <1>1, <1>2
  <2> QED
    BY <1>2, <1>3, <1>4, <2>1, <2>2
<1>5. CASE q < s
  <2>1. PerSector * (q + 1) <= PerSector * s
    BY <1>1, <1>2, <1>5
  <2>2. PerSector * (q + 1) = PerSector * q + PerSector
    BY <1>1, <1>2
  <2>3. PerSector * q \in Nat /\ PerSector * s \in Nat
    BY <1>1, <1>2
  <2> QED
    BY <1>1, <1>2, <1>3, <1>5, <2>1, <2>2, <2>3
<1> QED
  BY <1>2, <1>4, <1>5

LEMMA QuotientIs ==
  ASSUME NEW a \in Nat, NEW p \in Nat \ {0}, NEW q \in Int, NEW x \in 0 .. p - 1,
         a = p * q + x
  PROVE  a \div p = q /\ a % p = x
<1> DEFINE r == a \div p
<1>1. r \in Nat /\ a = p * r + (a % p)
  BY Division
<1>2. a % p = x
  BY RemainderIs
<1> HIDE DEF r
<1>3. p * r = p * q
  <2>1. p * r \in Int /\ p * q \in Int
    BY <1>1
  <2> QED
    BY <1>1, <1>2, <2>1
<1>4. r = q
  <2>1. CASE r < q
    <3>1. p * (r + 1) <= p * q
      BY <1>1, <2>1
    <3>2. p * (r + 1) = p * r + p
      BY <1>1
    <3>3. p * r \in Int /\ p * q \in Int
      BY <1>1
    <3> QED
      BY <1>3, <3>1, <3>2, <3>3
  <2>2. CASE q < r
    <3>1. p * (q + 1) <= p * r
      BY <1>1, <2>2
    <3>2. p * (q + 1) = p * q + p
      OBVIOUS
    <3>3. p * r \in Int /\ p * q \in Int
      BY <1>1
    <3> QED
      BY <1>3, <3>1, <3>2, <3>3
  <2> QED
    BY <1>1, <2>1, <2>2
<1> QED
  BY <1>2, <1>4 DEF r

\* The steps of a cluster, and those of the clusters behind it.
LEMMA StretchFirst ==
  ASSUME NEW s \in Nat, NEW r \in 0 .. PerCluster + 1
  PROVE  stretch(s, r + 1) = IF r = 0 THEN Link ELSE IF r = 1 THEN Flush ELSE Clear(s + r - 1)
<1>1. PerCluster \in Nat \ {0} /\ PerCluster + 2 \in Nat \ {0}
  BY Sizes
<1>2. r \in Nat /\ (r + 1) - 1 = r /\ r = (PerCluster + 2) * 0 + r /\ r \in 0 .. (PerCluster + 2) - 1
  BY <1>1
<1>3. r \div (PerCluster + 2) = 0 /\ r % (PerCluster + 2) = r
  BY <1>1, <1>2, QuotientIs
<1>4. s + 0 * PerCluster + r - 1 = s + r - 1
  BY <1>1, <1>2
<1> QED
  BY <1>2, <1>3, <1>4 DEF stretch

LEMMA StretchShift ==
  ASSUME NEW s \in Nat, NEW k \in Nat \ {0}
  PROVE  stretch(s, (PerCluster + 2) + k) = stretch(s + PerCluster, k)
<1> DEFINE p == PerCluster + 2
           q == (k - 1) \div p
           x == (k - 1) % p
<1>1. PerCluster \in Nat \ {0} /\ p \in Nat \ {0} /\ k - 1 \in Nat
  BY Sizes
<1>2. q \in Nat /\ x \in 0 .. p - 1 /\ k - 1 = p * q + x
  BY <1>1, Division
<1>3. stretch(s + PerCluster, k) =
        IF x = 0 THEN Link ELSE IF x = 1 THEN Flush ELSE Clear((s + PerCluster) + q * PerCluster + x - 1)
  BY DEF stretch
<1>4. stretch(s, p + k) =
        IF ((p + k) - 1) % p = 0 THEN Link ELSE IF ((p + k) - 1) % p = 1 THEN Flush
        ELSE Clear(s + (((p + k) - 1) \div p) * PerCluster + (((p + k) - 1) % p) - 1)
  BY DEF stretch
<1> HIDE DEF q, x, p
<1>5. ((p + k) - 1) \div p = q + 1 /\ ((p + k) - 1) % p = x
  <2> DEFINE a == (p + k) - 1
  <2>1. p * (q + 1) = p * q + p /\ p * q \in Nat
    BY <1>1, <1>2
  <2>2. a = p * (q + 1) + x /\ a \in Nat /\ q + 1 \in Int
    BY <1>1, <1>2, <2>1
  <2> HIDE DEF a
  <2>3. a \div p = q + 1 /\ a % p = x
    <3> DEFINE b == q + 1
    <3> HIDE DEF b
    <3>1. b \in Int /\ a = p * b + x
      BY <2>2 DEF b
    <3>2. a \div p = b /\ a % p = x
      BY <1>1, <1>2, <2>2, <3>1, QuotientIs
    <3> QED
      BY <3>2 DEF b
  <2> QED
    BY <2>3 DEF a
<1>6. s + (q + 1) * PerCluster + x - 1 = (s + PerCluster) + q * PerCluster + x - 1
  <2>1. (q + 1) * PerCluster = q * PerCluster + PerCluster /\ q * PerCluster \in Nat
    BY <1>1, <1>2
  <2> QED
    BY <1>1, <1>2, <2>1
<1>7. stretch(s, p + k) = stretch(s + PerCluster, k)
  BY <1>3, <1>4, <1>5, <1>6
<1> QED
  BY <1>7 DEF p

IsNew(w) == Kind(w) \in {"lfn", "sfn"}

\* Of the c clusters behind sector s, r steps of the first are done; the
\* others and then the writes of w are left, into them or before them.
Left(w, s, r, c) ==
  /\ (PerCluster + 2) * c - r \in 0 .. Len(w)
  /\ c = 0 => r = 0
  /\ \A k \in 1 .. (PerCluster + 2) * c - r : w[k] = stretch(s, r + k)
  /\ \A k \in (PerCluster + 2) * c - r + 1 .. Len(w) :
       /\ Kind(w[k]) \notin {"link", "flush", "clear"}
       /\ IsNew(w[k]) => w[k][1] \in 1 .. PerSector * (s + PerCluster * c)

\* The entries that are in use lie before these clusters.
Filled(t, s, r) ==
  /\ \E q \in Nat : s = PerCluster * q
  /\ Len(t) = PerSector * (IF r = 0 THEN s ELSE s + PerCluster)
  /\ \A i \in DOMAIN t : Sector(i) > s => t[i] \in {Old, Blank}
  /\ \A i \in DOMAIN t : t[i] = Old => r > 0 /\ Sector(i) > s /\ Sector(i) >= s + r - 1

Stretching(w, t) ==
  \E s \in Nat, r \in 0 .. PerCluster + 1, c \in Nat : Left(w, s, r, c) /\ Filled(t, s, r)

LEMMA LeftHead ==
  ASSUME NEW w \in Seq(Steps), w # <<>>,
         NEW s \in Nat, NEW r \in 0 .. PerCluster + 1, NEW c \in Nat, Left(w, s, r, c)
  PROVE  /\ Kind(w[1]) = "link" => r = 0 /\ c > 0
         /\ Kind(w[1]) = "flush" => r = 1 /\ c > 0 /\ w[1] = Flush
         /\ Kind(w[1]) = "clear" => r >= 2 /\ c > 0 /\ w[1] = Clear(s + r - 1)
         /\ Kind(w[1]) \notin {"link", "flush", "clear"} => r = 0 /\ c = 0
<1> DEFINE m == (PerCluster + 2) * c - r
<1>1. PerCluster \in Nat \ {0} /\ Len(w) \in Nat \ {0}
  BY Sizes
<1>2. /\ m \in 0 .. Len(w) /\ (c = 0 => r = 0)
      /\ \A k \in 1 .. m : w[k] = stretch(s, r + k)
      /\ \A k \in m + 1 .. Len(w) : Kind(w[k]) \notin {"link", "flush", "clear"}
  BY DEF Left
<1>3. CASE c = 0
  <2>1. r = 0 /\ (PerCluster + 2) * c = 0
    BY <1>1, <1>2, <1>3
  <2>2. m = 0
    BY <2>1
  <2>3. 1 \in m + 1 .. Len(w)
    BY <1>1, <2>2
  <2>4. Kind(w[1]) \notin {"link", "flush", "clear"}
    BY <1>2, <2>3
  <2> QED
    BY <1>3, <2>1, <2>4
<1>4. CASE c > 0
  <2>1. (PerCluster + 2) * c >= (PerCluster + 2) * 1
    BY <1>1, <1>4
  <2>2. (PerCluster + 2) * c \in Nat
    BY <1>1
  <2>3. m >= 1
    BY <1>1, <2>1, <2>2
  <2> HIDE DEF m
  <2>4. 1 \in 1 .. m
    BY <1>2, <2>3
  <2>5. w[1] = stretch(s, r + 1)
    BY <1>2, <2>4
  <2>6. w[1] = IF r = 0 THEN Link ELSE IF r = 1 THEN Flush ELSE Clear(s + r - 1)
    BY <2>5, StretchFirst
  <2>7. CASE r = 0
    BY <1>4, <2>6, <2>7, Kinds
  <2>8. CASE r = 1
    BY <1>4, <2>6, <2>8, Kinds
  <2>9. CASE r >= 2
    <3>1. w[1] = Clear(s + r - 1) /\ Kind(w[1]) = "clear"
      BY <2>6, <2>9, Kinds
    <3> QED
      BY <1>4, <2>9, <3>1
  <2> QED
    BY <1>1, <2>7, <2>8, <2>9
<1> QED
  BY <1>3, <1>4

LEMMA TailAt ==
  ASSUME NEW w \in Seq(Steps), w # <<>>
  PROVE  /\ Tail(w) \in Seq(Steps) /\ Len(w) \in Nat \ {0} /\ Len(Tail(w)) = Len(w) - 1
         /\ \A k \in 1 .. Len(Tail(w)) : Tail(w)[k] = w[k + 1] /\ k + 1 \in 1 .. Len(w)
OBVIOUS

LEMMA LeftNext ==
  ASSUME NEW w \in Seq(Steps), w # <<>>,
         NEW s \in Nat, NEW r \in 0 .. PerCluster + 1, NEW c \in Nat \ {0}, Left(w, s, r, c)
  PROVE  /\ r < PerCluster + 1 => Left(Tail(w), s, r + 1, c)
         /\ r = PerCluster + 1 => Left(Tail(w), s + PerCluster, 0, c - 1)
<1> DEFINE m == (PerCluster + 2) * c
           v == Tail(w)
<1>1. PerCluster \in Nat \ {0} /\ PerSector \in Nat \ {0}
  BY Sizes
<1>2. /\ v \in Seq(Steps) /\ Len(w) \in Nat \ {0} /\ Len(v) = Len(w) - 1
      /\ \A k \in 1 .. Len(v) : v[k] = w[k + 1] /\ k + 1 \in 1 .. Len(w)
  BY TailAt
<1>3. m \in Nat /\ m >= PerCluster + 2
  <2>1. (PerCluster + 2) * c >= (PerCluster + 2) * 1
    BY <1>1
  <2>2. (PerCluster + 2) * c \in Nat
    BY <1>1
  <2> QED
    BY <1>1, <2>1, <2>2
<1>4. /\ m - r \in 0 .. Len(w)
      /\ \A k \in 1 .. m - r : w[k] = stretch(s, r + k)
      /\ \A k \in m - r + 1 .. Len(w) :
           /\ Kind(w[k]) \notin {"link", "flush", "clear"}
           /\ IsNew(w[k]) => w[k][1] \in 1 .. PerSector * (s + PerCluster * c)
  BY DEF Left
<1>5. (PerCluster + 2) * (c - 1) = m - (PerCluster + 2)
  BY <1>1
<1>6. s + PerCluster * c = (s + PerCluster) + PerCluster * (c - 1)
  <2>1. PerCluster * (c - 1) = PerCluster * c - PerCluster /\ PerCluster * c \in Nat
    BY <1>1
  <2> QED
    BY <1>1, <2>1
<1> HIDE DEF v
<1>7. ASSUME NEW k \in 1 .. m - r - 1 PROVE v[k] = stretch(s, r + (k + 1))
  <2> HIDE DEF m
  <2>1. k \in 1 .. Len(v) /\ k + 1 \in 1 .. m - r
    BY <1>2, <1>3, <1>4
  <2> QED
    BY <1>2, <1>4, <2>1
<1>8. ASSUME NEW k \in m - r .. Len(v)
      PROVE  /\ Kind(v[k]) \notin {"link", "flush", "clear"}
             /\ IsNew(v[k]) => v[k][1] \in 1 .. PerSector * (s + PerCluster * c)
  <2> HIDE DEF m
  <2>1. k \in 1 .. Len(v) /\ k + 1 \in m - r + 1 .. Len(w)
    BY <1>1, <1>2, <1>3, <1>4
  <2> QED
    BY <1>2, <1>4, <2>1
<1>9. m - r >= 1
  <2> HIDE DEF m
  <2> QED
    BY <1>1, <1>3
<1>10. ASSUME r < PerCluster + 1 PROVE Left(v, s, r + 1, c)
  <2>1. m - (r + 1) \in 0 .. Len(v)
    <3> HIDE DEF m
    <3> QED
      BY <1>1, <1>2, <1>3, <1>4, <1>9
  <2>2. \A k \in 1 .. m - (r + 1) : v[k] = stretch(s, (r + 1) + k)
    <3> HIDE DEF m
    <3> SUFFICES ASSUME NEW k \in 1 .. m - (r + 1) PROVE v[k] = stretch(s, (r + 1) + k)
      OBVIOUS
    <3>1. k \in 1 .. m - r - 1 /\ r + (k + 1) = (r + 1) + k
      BY <1>3
    <3> QED
      BY <1>7, <3>1
  <2>3. ASSUME NEW k \in m - (r + 1) + 1 .. Len(v)
        PROVE  /\ Kind(v[k]) \notin {"link", "flush", "clear"}
               /\ IsNew(v[k]) => v[k][1] \in 1 .. PerSector * (s + PerCluster * c)
    <3> HIDE DEF m
    <3>1. k \in m - r .. Len(v)
      BY <1>3
    <3> QED
      BY <1>8, <3>1
  <2>4. c = 0 => r + 1 = 0
    OBVIOUS
  <2> QED
    BY <2>1, <2>2, <2>3, <2>4 DEF Left
<1>11. ASSUME r = PerCluster + 1 PROVE Left(v, s + PerCluster, 0, c - 1)
  <2> DEFINE n == (PerCluster + 2) * (c - 1)
  <2>1. n = m - (PerCluster + 2)
    BY <1>5
  <2> HIDE DEF n, m
  <2>2. n - 0 = m - r - 1 /\ n - 0 + 1 = m - r /\ n - 0 \in 0 .. Len(v)
    BY <1>1, <1>2, <1>3, <1>4, <1>11, <2>1
  <2>3. ASSUME NEW k \in 1 .. n - 0 PROVE v[k] = stretch(s + PerCluster, 0 + k)
    <3>1. k \in 1 .. m - r - 1
      BY <2>2
    <3>2. v[k] = stretch(s, r + (k + 1))
      BY <1>7, <3>1
    <3>3. r + (k + 1) = (PerCluster + 2) + k /\ k \in Nat \ {0} /\ 0 + k = k
      BY <1>1, <1>3, <1>11, <3>1
    <3> QED
      BY <3>2, <3>3, StretchShift
  <2>4. ASSUME NEW k \in n - 0 + 1 .. Len(v)
        PROVE  /\ Kind(v[k]) \notin {"link", "flush", "clear"}
               /\ IsNew(v[k]) => v[k][1] \in 1 .. PerSector * ((s + PerCluster) + PerCluster * (c - 1))
    <3>1. k \in m - r .. Len(v)
      BY <2>2
    <3>2. /\ Kind(v[k]) \notin {"link", "flush", "clear"}
          /\ IsNew(v[k]) => v[k][1] \in 1 .. PerSector * (s + PerCluster * c)
      BY <1>8, <3>1
    <3> QED
      BY <1>6, <3>2
  <2> QED
    BY <2>2, <2>3, <2>4 DEF Left, n
<1> QED
  BY <1>10, <1>11 DEF v

LEMMA LeftWrites ==
  ASSUME NEW w \in Seq(Steps), w # <<>>, NEW s \in Nat, Left(w, s, 0, 0)
  PROVE  /\ Left(Tail(w), s, 0, 0)
         /\ \A k \in 1 .. Len(w) :
              /\ Kind(w[k]) \notin {"link", "flush", "clear"}
              /\ IsNew(w[k]) => w[k][1] \in 1 .. PerSector * s
<1>1. PerCluster \in Nat \ {0}
  BY Sizes
<1>2. (PerCluster + 2) * 0 - 0 = 0 /\ s + PerCluster * 0 = s /\ 0 + 1 = 1
  BY <1>1
<1>3. \A k \in 1 .. Len(w) :
        /\ Kind(w[k]) \notin {"link", "flush", "clear"}
        /\ IsNew(w[k]) => w[k][1] \in 1 .. PerSector * s
  BY <1>2 DEF Left
<1>4. \A k \in 1 .. Len(Tail(w)) :
        /\ Kind(Tail(w)[k]) \notin {"link", "flush", "clear"}
        /\ IsNew(Tail(w)[k]) => Tail(w)[k][1] \in 1 .. PerSector * s
  BY <1>3, TailAt
<1>5. 0 \in 0 .. Len(Tail(w))
  BY TailAt
<1>6. \A k \in 1 .. 0 : Tail(w)[k] = stretch(s, 0 + k)
  OBVIOUS
<1> QED
  BY <1>2, <1>3, <1>4, <1>5, <1>6 DEF Left

\* The table as these steps change it.
LEMMA FilledLinked ==
  ASSUME NEW t \in Seq(Entries), NEW u \in Seq(Entries), NEW s \in Nat, Filled(t, s, 0),
         Len(u) = Len(t) + PerSector * PerCluster,
         \A i \in DOMAIN u : IF i \in DOMAIN t THEN u[i] = t[i] ELSE u[i] = Old
  PROVE  Filled(u, s, 1)
<1>1. PerCluster \in Nat \ {0} /\ PerSector \in Nat \ {0}
  BY Sizes
<1>2. /\ \E q \in Nat : s = PerCluster * q
      /\ Len(t) = PerSector * s
      /\ \A i \in DOMAIN t : t[i] # Old
      /\ \A i \in DOMAIN t : Sector(i) > s => t[i] \in {Old, Blank}
  BY DEF Filled
<1>3. Len(u) = PerSector * (s + PerCluster)
  BY <1>1, <1>2
<1>4. ASSUME NEW i \in DOMAIN u, u[i] = Old PROVE Sector(i) > s /\ Sector(i) >= s + 1 - 1
  <2>1. i \notin DOMAIN t /\ i \in Nat \ {0} /\ Len(t) \in Nat
    BY <1>2, <1>4
  <2>2. i > PerSector * s
    BY <1>2, <2>1
  <2>3. Sector(i) > s /\ Sector(i) \in Nat
    BY <2>1, <2>2, SectorBehind, Sizes
  <2> QED
    BY <2>3
<1>5. \A i \in DOMAIN u : Sector(i) > s => u[i] \in {Old, Blank}
  BY <1>2
<1> QED
  BY <1>2, <1>3, <1>4, <1>5 DEF Filled

LEMMA FilledFlushed ==
  ASSUME NEW t \in Seq(Entries), NEW s \in Nat, Filled(t, s, 1)
  PROVE  Filled(t, s, 2)
<1>1. \A i \in DOMAIN t : Sector(i) \in Nat
  BY Sizes
<1>2. \A i \in DOMAIN t : t[i] = Old => Sector(i) > s
  BY DEF Filled
<1>3. \A i \in DOMAIN t : t[i] = Old => 2 > 0 /\ Sector(i) > s /\ Sector(i) >= s + 2 - 1
  BY <1>1, <1>2
<1> QED
  BY <1>3 DEF Filled

LEMMA FilledCleared ==
  ASSUME NEW t \in Seq(Entries), NEW s \in Nat, NEW r \in 2 .. PerCluster + 1, Filled(t, s, r)
  PROVE  /\ r < PerCluster + 1 => Filled(Cleared(t, s + r - 1), s, r + 1)
         /\ r = PerCluster + 1 => Filled(Cleared(t, s + r - 1), s + PerCluster, 0)
         /\ \A i \in DOMAIN t : Sector(i) >= s + r - 1 => t[i] \in {Old, Blank}
<1> DEFINE x == s + r - 1
           u == Cleared(t, x)
<1>1. PerCluster \in Nat \ {0} /\ PerSector \in Nat \ {0}
  BY Sizes
<1>2. /\ \E q \in Nat : s = PerCluster * q
      /\ Len(t) = PerSector * (s + PerCluster)
      /\ \A i \in DOMAIN t : Sector(i) > s => t[i] \in {Old, Blank}
      /\ \A i \in DOMAIN t : t[i] = Old => Sector(i) > s /\ Sector(i) >= x
  BY DEF Filled
<1>3. x \in Nat /\ x > s /\ \A i \in DOMAIN t : Sector(i) \in Nat
  BY <1>1, Sizes
<1>4. /\ u \in Seq(Entries) /\ Len(u) = Len(t) /\ DOMAIN u = DOMAIN t
      /\ \A i \in DOMAIN t : u[i] = IF Sector(i) = x THEN Blank ELSE t[i]
  BY ClearedTypes DEF Cleared
<1> HIDE DEF u
<1>5. \A i \in DOMAIN t : Sector(i) >= x => t[i] \in {Old, Blank}
  <2> HIDE DEF x
  <2> QED
    BY <1>2, <1>3
<1>6. \A i \in DOMAIN u : u[i] = Old => Sector(i) > s /\ Sector(i) >= x + 1
  <2> HIDE DEF x
  <2>1. Old # Blank
    BY Kinds
  <2> QED
    BY <1>2, <1>3, <1>4, <2>1
<1>7. \A i \in DOMAIN u : Sector(i) > s => u[i] \in {Old, Blank}
  BY <1>2, <1>4
<1>8. ASSUME r < PerCluster + 1 PROVE Filled(u, s, r + 1)
  <2>1. Len(u) = PerSector * (s + PerCluster) /\ r + 1 # 0 /\ r + 1 > 0 /\ x + 1 = s + (r + 1) - 1
    BY <1>1, <1>2, <1>4
  <2> QED
    BY <1>2, <1>6, <1>7, <2>1 DEF Filled
<1>9. ASSUME r = PerCluster + 1 PROVE Filled(u, s + PerCluster, 0)
  <2>1. PICK q \in Nat : s = PerCluster * q
    BY <1>2
  <2>2. s + PerCluster = PerCluster * (q + 1) /\ q + 1 \in Nat
    BY <1>1, <2>1
  <2>3. ASSUME NEW i \in DOMAIN u PROVE ~ (Sector(i) > s + PerCluster)
    <3>1. i \in Nat \ {0} /\ i <= Len(t)
      BY <1>4
    <3>2. s + PerCluster \in Nat
      BY <1>1
    <3>3. ~ (i > PerSector * (s + PerCluster))
      BY <1>1, <1>2, <3>1, <3>2
    <3> DEFINE z == s + PerCluster
    <3> HIDE DEF z
    <3>4. z \in Nat /\ ~ (i > PerSector * z)
      BY <3>2, <3>3 DEF z
    <3>5. ~ (Sector(i) > z)
      BY <3>1, <3>4, SectorBehind
    <3> QED
      BY <3>5 DEF z
  <2>4. x + 1 = (s + PerCluster) + 1
    BY <1>1, <1>9
  <2>5. \A i \in DOMAIN u : u[i] # Old
    <3> SUFFICES ASSUME NEW i \in DOMAIN u, u[i] = Old PROVE FALSE
      OBVIOUS
    <3>1. Sector(i) >= (s + PerCluster) + 1 /\ Sector(i) \in Nat
      BY <1>3, <1>4, <1>6, <2>4
    <3> QED
      BY <1>1, <2>3, <3>1
  <2>6. Len(u) = PerSector * (s + PerCluster)
    BY <1>2, <1>4
  <2>7. \E p \in Nat : s + PerCluster = PerCluster * p
    BY <2>2
  <2>8. Len(u) = PerSector * (IF 0 = 0 THEN s + PerCluster ELSE (s + PerCluster) + PerCluster)
    BY <2>6
  <2> QED
    BY <2>3, <2>5, <2>7, <2>8 DEF Filled
<1> QED
  BY <1>5, <1>8, <1>9 DEF u

LEMMA FilledWritten ==
  ASSUME NEW t, NEW u, NEW x, NEW e, Puts(t, u, x, e), e # Old,
         NEW s \in Nat, Filled(t, s, 0)
  PROVE  Filled(u, s, 0) /\ \A i \in DOMAIN t : t[i] # Old
<1> USE DEF Puts
<1>1. \A i \in DOMAIN t : t[i] # Old
  BY DEF Filled
<1>2. DOMAIN u = DOMAIN t
  OBVIOUS
<1>3. Len(t) = PerSector * s
  BY DEF Filled
<1>4. \A i \in DOMAIN t : ~ (Sector(i) > s)
  <2> SUFFICES ASSUME NEW i \in DOMAIN t PROVE ~ (Sector(i) > s)
    OBVIOUS
  <2>1. i \in Nat \ {0} /\ i <= Len(t) /\ Len(t) \in Nat
    OBVIOUS
  <2>2. ~ (i > PerSector * s)
    BY <1>3, <2>1
  <2> QED
    BY <2>1, <2>2, SectorBehind
<1> QED
  BY <1>1, <1>2, <1>3, <1>4 DEF Filled

LEMMA LeftEmpty ==
  ASSUME NEW s \in Nat, NEW r \in 0 .. PerCluster + 1, NEW c \in Nat, Left(<<>>, s, r, c)
  PROVE  r = 0
<1>1. PerCluster \in Nat \ {0} /\ Len(<<>>) = 0
  BY Sizes
<1>2. (PerCluster + 2) * c - r = 0 /\ (c = 0 => r = 0)
  BY <1>1 DEF Left
<1>3. CASE c > 0
  <2>1. (PerCluster + 2) * c >= (PerCluster + 2) * 1 /\ (PerCluster + 2) * c \in Nat
    BY <1>1, <1>3
  <2> QED
    BY <1>1, <1>2, <2>1
<1> QED
  BY <1>2, <1>3

LEMMA LeftClear ==
  ASSUME NEW w \in Seq(Steps), NEW s \in Nat, NEW r \in 2 .. PerCluster + 1, NEW c \in Nat,
         Left(w, s, r, c)
  PROVE  w # <<>> /\ Kind(w[1]) = "clear"
<1>1. r \in 0 .. PerCluster + 1
  BY Sizes
<1>2. w # <<>>
  BY <1>1, LeftEmpty
<1> QED
  BY <1>1, <1>2, LeftHead

LEMMA LeftNone ==
  ASSUME NEW s \in Nat PROVE Left(<<>>, s, 0, 0)
<1>1. PerCluster \in Nat \ {0} /\ Len(<<>>) = 0
  BY Sizes
<1>2. (PerCluster + 2) * 0 - 0 = 0
  BY <1>1
<1>3. 0 \in 0 .. 0 /\ \A k \in 1 .. 0 : FALSE
  OBVIOUS
<1>4. \A k \in 0 + 1 .. 0 : FALSE
  OBVIOUS
<1> QED
  BY <1>1, <1>2, <1>3, <1>4 DEF Left

LEMMA FilledWhole ==
  ASSUME NEW t \in Seq(Entries), Clusters(t), \A i \in DOMAIN t : t[i] # Old
  PROVE  \E s \in Nat : Filled(t, s, 0) /\ Sector(Len(t)) = s
<1>1. PerCluster \in Nat \ {0} /\ PerSector \in Nat \ {0}
  BY Sizes
<1>2. PICK c \in Nat \ {0} : Len(t) = PerSector * (PerCluster * c)
  BY DEF Clusters
<1> DEFINE s == PerCluster * c
<1>3. s \in Nat \ {0} /\ Len(t) = PerSector * s
  BY <1>1, <1>2
<1>4. \E q \in Nat : s = PerCluster * q
  OBVIOUS
<1> HIDE DEF s
<1>5. \A i \in DOMAIN t : ~ (Sector(i) > s)
  <2> SUFFICES ASSUME NEW i \in DOMAIN t PROVE ~ (Sector(i) > s)
    OBVIOUS
  <2>1. i \in Nat \ {0} /\ i <= Len(t) /\ Len(t) \in Nat
    OBVIOUS
  <2>2. ~ (i > PerSector * s)
    BY <1>3, <2>1
  <2> QED
    BY <1>3, <2>1, <2>2, SectorBehind
<1>6. Sector(Len(t)) = s
  <2>1. PerSector * s >= PerSector * 1 /\ PerSector * s \in Nat \ {0}
    BY <1>1, <1>3
  <2>2. Len(t) \in Nat \ {0} /\ Len(t) \in DOMAIN t
    BY <1>1, <1>3, <2>1
  <2>3. ~ (Sector(Len(t)) > s) /\ Sector(Len(t)) \in Nat \ {0}
    BY <1>5, <2>2, Sizes
  <2>4. PerSector * (s - 1) = PerSector * s - PerSector
    BY <1>1, <1>3
  <2>5. Len(t) > PerSector * (s - 1) /\ s - 1 \in Nat
    BY <1>1, <1>3, <2>1, <2>4
  <2> DEFINE z == s - 1
  <2> HIDE DEF z
  <2>6. Len(t) > PerSector * z /\ z \in Nat
    BY <2>5 DEF z
  <2>7. Sector(Len(t)) > z
    BY <2>2, <2>6, SectorBehind
  <2>8. z = s - 1
    BY DEF z
  <2> QED
    BY <1>3, <2>3, <2>7, <2>8
<1>7. Filled(t, s, 0)
  BY <1>3, <1>4, <1>5 DEF Filled
<1> QED
  BY <1>3, <1>6, <1>7

----------------------------------------------------------------------------
(* Where a call writes.                                                    *)

\* The parts of a name are written one behind the other, up to the short name.
InOrder(w) ==
  /\ \A k, l \in 1 .. Len(w) :
       IsNew(w[k]) /\ IsNew(w[l]) => w[l][1] = w[k][1] + (l - k)
  /\ \A k \in 1 .. Len(w) :
       Kind(w[k]) = "lfn" => k + 1 \in 1 .. Len(w) /\ IsNew(w[k + 1])

OnUnused(w, t) == \A k \in 1 .. Len(w) : IsNew(w[k]) => Unused(t, w[k][1])

\* There is no free entry before one that is written.
Behind(w, t) ==
  \A k \in 1 .. Len(w) :
    IsWrite(w[k]) =>
      \A i \in 1 .. w[k][1] - 1 :
        Solid(t, i) \/ \E l \in 1 .. k - 1 : IsNew(w[l]) /\ w[l][1] = i

\* The names of the entry that is written, and the name a that was asked for,
\* lead to its file only.
Promised(w, t, T, a) ==
  \A k \in 1 .. Len(w) :
    Kind(w[k]) = "sfn" =>
      /\ w[k][2].file \in File
      /\ a \in Sfn => a = w[k][2].sfn
      /\ Leads(t, T, w[k][2].sfn, w[k][2].file)
      /\ Leads(t, T, a, w[k][2].file)

Placed(w, t) == InOrder(w) /\ OnUnused(w, t) /\ Behind(w, t)

LEMMA NewIs ==
  ASSUME NEW w \in Seq(Steps), NEW k \in 1 .. Len(w)
  PROVE  /\ IsWrite(w[k]) => w[k][1] \in Nat /\ w[k][2] \in Entries /\ w[k][2].kind # "free"
         /\ IsNew(w[k]) => IsWrite(w[k])
         /\ Kind(w[k]) = w[k][2].kind
         /\ Kind(w[k]) = "sfn" => w[k][2] = SfnEntry(w[k][2].sfn, w[k][2].file)
<1>1. w[k] \in Steps
  OBVIOUS
<1>2. IsNew(w[k]) => IsWrite(w[k])
  BY DEF IsNew, IsWrite, Kind
<1>3. Kind(w[k]) = w[k][2].kind
  BY DEF Kind
<1>4. ASSUME IsWrite(w[k])
      PROVE  w[k][1] \in Nat /\ w[k][2] \in Entries /\ w[k][2].kind # "free"
  BY <1>1, <1>4, WriteIs DEF IsWrite
<1>5. ASSUME Kind(w[k]) = "sfn" PROVE w[k][2] = SfnEntry(w[k][2].sfn, w[k][2].file)
  <2>1. w[k][2] \in Entries /\ w[k][2].kind = "sfn"
    BY <1>3, <1>4, <1>5 DEF IsWrite
  <2>2. w[k][2] \in SfnEntries
    BY <2>1, Kinds, EntryKinds DEF Entries
  <2> DEFINE e == w[k][2]
  <2> HIDE DEF e
  <2>3. e \in SfnEntries
    BY <2>2 DEF e
  <2>4. e = SfnEntry(e.sfn, e.file)
    BY <2>3 DEF SfnEntries, SfnEntry
  <2> QED
    BY <2>4 DEF e
<1> QED
  BY <1>2, <1>3, <1>4, <1>5

LEMMA TailInOrder ==
  ASSUME NEW w \in Seq(Steps), w # <<>>, InOrder(w)
  PROVE  InOrder(Tail(w))
<1> DEFINE v == Tail(w)
<1>1. /\ Len(w) \in Nat \ {0} /\ Len(v) = Len(w) - 1
      /\ \A k \in 1 .. Len(v) : v[k] = w[k + 1] /\ k + 1 \in 1 .. Len(w)
  BY TailAt
<1> HIDE DEF v
<1>2. ASSUME NEW k \in 1 .. Len(v), NEW l \in 1 .. Len(v), IsNew(v[k]), IsNew(v[l])
      PROVE  v[l][1] = v[k][1] + (l - k)
  <2>1. w[l + 1][1] = w[k + 1][1] + ((l + 1) - (k + 1))
    BY <1>1, <1>2 DEF InOrder
  <2>2. (l + 1) - (k + 1) = l - k
    OBVIOUS
  <2> QED
    BY <1>1, <2>1, <2>2
<1>3. ASSUME NEW k \in 1 .. Len(v), Kind(v[k]) = "lfn" PROVE k + 1 \in 1 .. Len(v) /\ IsNew(v[k + 1])
  <2>1. (k + 1) + 1 \in 1 .. Len(w) /\ IsNew(w[(k + 1) + 1])
    BY <1>1, <1>3 DEF InOrder
  <2>2. k + 1 \in 1 .. Len(v)
    BY <1>1, <2>1
  <2> QED
    BY <1>1, <2>1, <2>2
<1>4. InOrder(v)
  BY <1>2, <1>3 DEF InOrder
<1> QED
  BY <1>4 DEF v

\* A step that writes no new entry.
LEMMA PlacedNext ==
  ASSUME NEW w \in Seq(Steps), w # <<>>, ~ IsNew(w[1]), NEW t, NEW u, NEW T, NEW a,
         \A i : Solid(t, i) => Solid(u, i), \A x \in Nat : Unused(t, x) => Unused(u, x),
         Shrunk(t, u), Placed(w, t), Promised(w, t, T, a)
  PROVE  Placed(Tail(w), u) /\ Promised(Tail(w), u, T, a)
<1> DEFINE v == Tail(w)
<1>1. /\ Len(w) \in Nat \ {0} /\ Len(v) = Len(w) - 1
      /\ \A k \in 1 .. Len(v) : v[k] = w[k + 1] /\ k + 1 \in 1 .. Len(w)
  BY TailAt
<1>2. InOrder(v)
  BY TailInOrder DEF Placed
<1> HIDE DEF v
<1>3. ASSUME NEW k \in 1 .. Len(v), IsNew(v[k]) PROVE Unused(u, v[k][1])
  <2>1. Unused(t, w[k + 1][1]) /\ w[k + 1][1] \in Nat
    BY <1>1, <1>3, NewIs DEF Placed, OnUnused
  <2> QED
    BY <1>1, <2>1
<1>4. ASSUME NEW k \in 1 .. Len(v), IsWrite(v[k]), NEW i \in 1 .. v[k][1] - 1, ~ Solid(u, i)
      PROVE  \E l \in 1 .. k - 1 : IsNew(v[l]) /\ v[l][1] = i
  <2>1. IsWrite(w[k + 1]) /\ i \in 1 .. w[k + 1][1] - 1 /\ ~ Solid(t, i)
    BY <1>1, <1>4
  <2>2. PICK l \in 1 .. (k + 1) - 1 : IsNew(w[l]) /\ w[l][1] = i
    BY <1>1, <2>1 DEF Placed, Behind
  <2>3. l # 1
    BY <2>2
  <2>4. l - 1 \in 1 .. k - 1 /\ l - 1 \in 1 .. Len(v) /\ (l - 1) + 1 = l
    BY <1>1, <2>3
  <2>5. v[l - 1] = w[l]
    BY <1>1, <2>4
  <2> QED
    BY <2>2, <2>4, <2>5
<1>5. ASSUME NEW k \in 1 .. Len(v), Kind(v[k]) = "sfn"
      PROVE  /\ v[k][2].file \in File
             /\ a \in Sfn => a = v[k][2].sfn
             /\ Leads(u, T, v[k][2].sfn, v[k][2].file)
             /\ Leads(u, T, a, v[k][2].file)
  <2>1. /\ w[k + 1][2].file \in File
        /\ a \in Sfn => a = w[k + 1][2].sfn
        /\ Leads(t, T, w[k + 1][2].sfn, w[k + 1][2].file)
        /\ Leads(t, T, a, w[k + 1][2].file)
    BY <1>1, <1>5 DEF Promised
  <2>2. \A n, f : Leads(t, T, n, f) => Leads(u, T, n, f)
    BY ShrunkKeeps
  <2> QED
    BY <1>1, <2>1, <2>2
<1>6. OnUnused(v, u)
  BY <1>3 DEF OnUnused
<1>7. Behind(v, u)
  BY <1>4 DEF Behind
<1>8. Promised(v, u, T, a)
  BY <1>5 DEF Promised
<1> QED
  BY <1>2, <1>6, <1>7, <1>8 DEF Placed, v

\* A step that writes an entry where it is to be.
LEMMA PlacedWritten ==
  ASSUME NEW w \in Seq(Steps), w # <<>>, IsNew(w[1]), OneSfn(w),
         NEW t, NEW u, Puts(t, u, w[1][1], w[1][2]),
         NEW T, NEW U, NEW a, T \subseteq U,
         w[1][1] \in DOMAIN t, w[1][2] # Old,
         Placed(w, t), Promised(w, t, T, a)
  PROVE  /\ Placed(Tail(w), u) /\ Promised(Tail(w), u, U, a)
         /\ Kind(w[1]) = "lfn" => Unused(t, w[1][1] + 1) /\ Shrunk(t, u)
<1> DEFINE v == Tail(w)
           x == w[1][1]
           e == w[1][2]
<1>1. /\ Len(w) \in Nat \ {0} /\ Len(v) = Len(w) - 1 /\ 1 \in 1 .. Len(w)
      /\ \A k \in 1 .. Len(v) : v[k] = w[k + 1] /\ k + 1 \in 1 .. Len(w) /\ k + 1 # 1
  BY TailAt
<1>2. InOrder(v)
  BY TailInOrder DEF Placed
<1> HIDE DEF v
<1>3. x \in Nat /\ e.kind # "free" /\ e.kind = Kind(w[1])
  BY <1>1, NewIs
<1>4. /\ x \in DOMAIN t /\ e # Old /\ Puts(t, u, x, e)
      /\ DOMAIN u = DOMAIN t /\ \A i \in DOMAIN t : u[i] = IF i = x THEN e ELSE t[i]
  BY DEF Puts
<1>5. Kind(w[1]) = "lfn" => Unused(t, x + 1) /\ Shrunk(t, u)
  <2> SUFFICES ASSUME Kind(w[1]) = "lfn" PROVE Unused(t, x + 1) /\ Shrunk(t, u)
    OBVIOUS
  <2>1. 1 + 1 \in 1 .. Len(w) /\ IsNew(w[1 + 1])
    BY <1>1 DEF Placed, InOrder
  <2>2. w[1 + 1][1] = x + ((1 + 1) - 1)
    BY <1>1, <2>1 DEF Placed, InOrder
  <2>3. Unused(t, w[1 + 1][1])
    BY <2>1 DEF Placed, OnUnused
  <2> HIDE DEF x, e
  <2>4. Unused(t, x + 1)
    BY <1>3, <2>2, <2>3
  <2>5. e.kind \in {"lfn", "deleted"}
    BY <1>3
  <2>6. Shrunk(t, u)
    BY <1>4, <2>4, <2>5, ShrunkWritten
  <2> QED
    BY <2>4, <2>6
<1>6. ASSUME NEW k \in 1 .. Len(v), IsNew(v[k]) PROVE Unused(u, v[k][1])
  <2>1. Unused(t, w[k + 1][1]) /\ w[k + 1][1] = x + ((k + 1) - 1)
    BY <1>1, <1>6 DEF Placed, OnUnused, InOrder
  <2>2. v[k][1] # x /\ v[k][1] = w[k + 1][1]
    BY <1>1, <1>3, <2>1
  <2> HIDE DEF x, e
  <2> QED
    BY <1>4, <2>1, <2>2 DEF Unused
<1> HIDE DEF x, e
<1>7. \A i : Solid(t, i) => Solid(u, i)
  BY <1>3, <1>4 DEF Solid
<1>8. Solid(u, x)
  BY <1>3, <1>4 DEF Solid
<1>9. ASSUME NEW k \in 1 .. Len(v), IsWrite(v[k]), NEW i \in 1 .. v[k][1] - 1, ~ Solid(u, i)
      PROVE  \E l \in 1 .. k - 1 : IsNew(v[l]) /\ v[l][1] = i
  <2>1. IsWrite(w[k + 1]) /\ i \in 1 .. w[k + 1][1] - 1 /\ ~ Solid(t, i)
    BY <1>1, <1>7, <1>9
  <2>2. PICK l \in 1 .. (k + 1) - 1 : IsNew(w[l]) /\ w[l][1] = i
    BY <1>1, <2>1 DEF Placed, Behind
  <2>3. l # 1
    BY <1>8, <1>9, <2>2 DEF x
  <2>4. l - 1 \in 1 .. k - 1 /\ l - 1 \in 1 .. Len(v) /\ (l - 1) + 1 = l
    BY <1>1, <2>3
  <2>5. v[l - 1] = w[l]
    BY <1>1, <2>4
  <2> QED
    BY <2>2, <2>4, <2>5
<1>10. ASSUME NEW k \in 1 .. Len(v), Kind(v[k]) = "sfn"
       PROVE  /\ v[k][2].file \in File
              /\ a \in Sfn => a = v[k][2].sfn
              /\ Leads(u, U, v[k][2].sfn, v[k][2].file)
              /\ Leads(u, U, a, v[k][2].file)
  <2>1. Kind(w[1]) # "sfn"
    BY <1>1, <1>10 DEF OneSfn
  <2>2. Shrunk(t, u)
    BY <1>5, <2>1 DEF IsNew
  <2>3. /\ w[k + 1][2].file \in File
        /\ a \in Sfn => a = w[k + 1][2].sfn
        /\ Leads(t, T, w[k + 1][2].sfn, w[k + 1][2].file)
        /\ Leads(t, T, a, w[k + 1][2].file)
    BY <1>1, <1>10 DEF Promised
  <2>4. \A n, f : Leads(t, T, n, f) => Leads(u, U, n, f)
    BY <2>2, ShrunkKeeps
  <2> QED
    BY <1>1, <2>3, <2>4
<1>11. OnUnused(v, u)
  BY <1>6 DEF OnUnused
<1>12. Behind(v, u)
  BY <1>9 DEF Behind
<1>13. Promised(v, u, U, a)
  BY <1>10 DEF Promised
<1> QED
  BY <1>2, <1>5, <1>11, <1>12, <1>13 DEF Placed, v, x

----------------------------------------------------------------------------
(* The invariant of the names, and the steps that keep it.                 *)

\* The disk holds old entries while their cluster is cleared, or where zeros
\* that could not be stored are in the window.
Leftover ==
  \A i \in DOMAIN disk :
    disk[i] = Old =>
      \/ todo # <<>> /\ Kind(Head(todo)) = "clear"
      \/ dirty /\ sect = Sector(i)

Listing ==
  /\ Sound(table, taken) /\ Sound(disk, taken)
  /\ Stretching(todo, table)
  /\ Placed(todo, table) /\ Promised(todo, table, taken, asked)
  /\ Leftover

LEMMA SoundStays ==
  ASSUME NEW t, NEW T, NEW U, Sound(t, T), T \subseteq U
  PROVE  Sound(t, U)
BY ShrunkSame, ShrunkKeeps DEF Sound

LEMMA NothingLeft ==
  ASSUME NEW t, NEW T, NEW a
  PROVE  Placed(<<>>, t) /\ Promised(<<>>, t, T, a)
<1>1. Len(<<>>) = 0 /\ \A k \in 1 .. 0 : FALSE
  OBVIOUS
<1> QED
  BY <1>1 DEF Placed, Promised, InOrder, OnUnused, Behind

\* Only a call that stretches the table leaves old entries in it for a while.
LEMMA NoOld ==
  ASSUME Inv, Listing, todo = <<>> \/ Kind(Head(todo)) \notin {"flush", "clear"}
  PROVE  /\ \A i \in DOMAIN table : table[i] # Old
         /\ \E s \in Nat, c \in Nat : Left(todo, s, 0, c) /\ Filled(table, s, 0)
<1>1. todo \in Seq(Steps)
  BY InvMeans
<1>2. PICK s \in Nat, r \in 0 .. PerCluster + 1, c \in Nat : Left(todo, s, r, c) /\ Filled(table, s, r)
  BY DEF Listing, Stretching
<1>3. r = 0
  <2>1. CASE todo = <<>>
    BY <1>2, <2>1, LeftEmpty
  <2>2. CASE todo # <<>>
    <3>1. Kind(todo[1]) \notin {"flush", "clear"}
      BY <1>1, <2>2, TailIs
    <3> QED
      BY <1>1, <1>2, <2>2, <3>1, LeftHead
  <2> QED
    BY <2>1, <2>2
<1>4. Left(todo, s, 0, c) /\ Filled(table, s, 0)
  BY <1>2, <1>3
<1>5. \A i \in DOMAIN table : table[i] # Old
  BY <1>4 DEF Filled
<1> QED
  BY <1>4, <1>5

\* A step that only goes on: what it leaves is Promised whatever was asked.
LEMMA StepLists ==
  ASSUME Inv, Listing, todo # <<>>, Step, taken \subseteq taken',
         disk' \in {disk, table, table'}, Sound(table', taken'),
         Stretching(todo', table'), Placed(todo', table'),
         Promised(todo', table', taken', asked), Leftover'
  PROVE  Listing'
<1>1. Promised(todo', table', taken', asked')
  <2>1. CASE todo' = <<>>
    BY <2>1, NothingLeft
  <2>2. CASE todo' # <<>>
    <3>1. asked' = asked
      BY <2>2 DEF Step
    <3> QED
      BY <3>1
  <2> QED
    BY <2>1, <2>2
<1>2. Sound(disk', taken')
  <2>1. Sound(disk, taken') /\ Sound(table, taken')
    BY SoundStays DEF Listing
  <2> QED
    BY <2>1
<1> QED
  BY <1>1, <1>2 DEF Listing

LEMMA LinkLists ==
  ASSUME Inv, Listing, dir_next_link
  PROVE  Listing'
<1> DEFINE n == PerSector * PerCluster
           more == [i \in 1 .. n |-> Old]
<1>1. /\ todo # <<>> /\ Head(todo) = Link /\ table' = table \o more
      /\ sect' = Fat /\ dirty' = TRUE /\ todo' = Tail(todo) /\ taken' = taken
      /\ disk' = IF sect = Fat THEN disk ELSE Stored
      /\ Step
  BY DEF dir_next_link, At, Step
<1>2. todo \in Seq(Steps) /\ todo[1] = Head(todo) /\ Kind(Head(todo)) = "link" /\ ~ IsNew(todo[1])
  BY <1>1, InvMeans, TailIs, Kinds DEF IsNew
<1>3. disk = table /\ disk' = disk /\ ~ dirty
  <2>1. ~ dirty
    BY <1>1, Kinds DEF Inv, Ready
  <2> QED
    BY <1>1, <2>1, InvMeans
<1>4. n \in Nat /\ PerCluster \in Nat \ {0} /\ PerSector \in Nat \ {0}
  BY Sizes
<1>5. PICK s \in Nat, c \in Nat : Left(todo, s, 0, c) /\ Filled(table, s, 0)
  BY <1>2, NoOld
<1>6. c \in Nat \ {0}
  BY <1>1, <1>2, <1>4, <1>5, LeftHead
<1>7. Left(todo', s, 1, c)
  <2>1. 0 \in 0 .. PerCluster + 1 /\ 0 < PerCluster + 1 /\ 0 + 1 = 1
    BY <1>4
  <2> QED
    BY <1>1, <1>2, <1>5, <1>6, <2>1, LeftNext
<1> HIDE DEF n
<1>8. more \in Seq(Entries) /\ Len(more) = n /\ \A i \in 1 .. n : more[i] = Old
  BY <1>4, EntryKinds
<1> HIDE DEF more
<1>9. /\ table \in Seq(Entries) /\ table' \in Seq(Entries) /\ Len(table') = Len(table) + n
      /\ Len(table) <= Len(table')
      /\ \A i \in DOMAIN table' : IF i \in DOMAIN table THEN table'[i] = table[i] ELSE table'[i] = Old
  <2>1. table \in Seq(Entries)
    BY InvMeans
  <2>2. /\ table' \in Seq(Entries) /\ Len(table') = Len(table) + n
        /\ \A i \in 1 .. Len(table) : table'[i] = table[i]
        /\ \A i \in 1 .. n : table'[Len(table) + i] = more[i]
    BY <1>1, <1>8, <2>1, Lengthened
  <2>3. ASSUME NEW i \in DOMAIN table', i \notin DOMAIN table PROVE table'[i] = Old
    <3>1. i - Len(table) \in 1 .. n /\ Len(table) + (i - Len(table)) = i
      BY <1>4, <2>1, <2>2, <2>3
    <3> QED
      BY <1>8, <2>2, <3>1
  <2> QED
    BY <1>4, <2>1, <2>2, <2>3
<1>10. Filled(table', s, 1)
  BY <1>5, <1>9, FilledLinked DEF n
<1>11. Shrunk(table, table') /\ Packed(table')
  BY <1>9, ShrunkLonger, PackedLonger DEF Listing, Sound
<1>12. Clusters(table')
  <2>1. PICK q \in Nat \ {0} : Len(table) = PerSector * (PerCluster * q)
    BY DEF Listing, Sound, Clusters
  <2>2. PerSector * (PerCluster * (q + 1)) = PerSector * (PerCluster * q) + PerSector * PerCluster
    <3>1. PerCluster * (q + 1) = PerCluster * q + PerCluster /\ PerCluster * q \in Nat
      BY <1>4
    <3> DEFINE z == PerCluster * q
    <3> HIDE DEF z
    <3>2. z \in Nat /\ PerCluster * (q + 1) = z + PerCluster
      BY <3>1 DEF z
    <3>3. PerSector * (z + PerCluster) = PerSector * z + PerSector * PerCluster
      BY <1>4, <3>2
    <3> QED
      BY <3>2, <3>3 DEF z
  <2>3. q + 1 \in Nat \ {0} /\ Len(table') = PerSector * (PerCluster * (q + 1))
    BY <1>9, <2>1, <2>2 DEF n
  <2> QED
    BY <2>3 DEF Clusters
<1>13. Sound(table', taken')
  BY <1>1, <1>11, <1>12, ShrunkKeeps DEF Listing, Sound
<1>14. Placed(todo', table') /\ Promised(todo', table', taken', asked)
  <2>1. \A i : Solid(table, i) => Solid(table', i)
    <3> SUFFICES ASSUME NEW i, Solid(table, i) PROVE Solid(table', i)
      OBVIOUS
    <3>1. i \in DOMAIN table /\ i \in DOMAIN table'
      BY <1>4, <1>9 DEF Solid
    <3>2. table'[i] = table[i]
      BY <1>9, <3>1
    <3> QED
      BY <3>1, <3>2 DEF Solid
  <2>2. \A x \in Nat : Unused(table, x) => Unused(table', x)
    BY <1>9 DEF Unused
  <2> QED
    BY <1>1, <1>2, <1>11, <2>1, <2>2, PlacedNext DEF Listing
<1>15. Leftover'
  <2>1. \A i \in DOMAIN disk : disk[i] # Old
    BY <1>1, <1>2, <1>3 DEF Listing, Leftover
  <2> QED
    BY <1>3, <2>1 DEF Leftover
<1>16. Stretching(todo', table')
  <2>1. 1 \in 0 .. PerCluster + 1
    BY <1>4
  <2> QED
    BY <1>7, <1>10, <2>1 DEF Stretching
<1> QED
  BY <1>1, <1>3, <1>13, <1>14, <1>15, <1>16, StepLists

LEMMA FlushLists ==
  ASSUME Inv, Listing, dir_next_flush
  PROVE  Listing'
<1>1. /\ todo # <<>> /\ Head(todo) = Flush /\ todo' = Tail(todo) /\ taken' = taken
      /\ disk' = table /\ table' = table /\ Step
  BY InvMeans DEF dir_next_flush, At, Step
<1>2. /\ todo \in Seq(Steps) /\ todo' \in Seq(Steps) /\ todo[1] = Head(todo) /\ Kind(todo[1]) = "flush"
      /\ ~ IsNew(todo[1])
  BY <1>1, InvMeans, TailIs, Kinds DEF IsNew
<1>3. PICK s \in Nat, r \in 0 .. PerCluster + 1, c \in Nat : Left(todo, s, r, c) /\ Filled(table, s, r)
  BY DEF Listing, Stretching
<1>4. r = 1 /\ c \in Nat \ {0} /\ 1 < PerCluster + 1 /\ 2 \in 2 .. PerCluster + 1 /\ 1 + 1 = 2
      /\ 2 \in 0 .. PerCluster + 1
  BY <1>1, <1>2, <1>3, LeftHead, Sizes
<1>5. Left(todo', s, 2, c)
  BY <1>1, <1>2, <1>3, <1>4, LeftNext
<1>6. Filled(table', s, 2)
  BY <1>1, <1>3, <1>4, InvMeans, FilledFlushed
<1>7. Leftover'
  <2>1. todo' # <<>> /\ Kind(todo'[1]) = "clear"
    BY <1>2, <1>4, <1>5, LeftClear
  <2>2. Head(todo') = todo'[1]
    BY <1>2, <2>1
  <2> QED
    BY <2>1, <2>2 DEF Leftover
<1>8. Placed(todo', table') /\ Promised(todo', table', taken', asked)
  BY <1>1, <1>2, ShrunkSame, PlacedNext DEF Listing
<1>9. Stretching(todo', table') /\ Sound(table', taken')
  BY <1>1, <1>4, <1>5, <1>6 DEF Stretching, Listing
<1> QED
  BY <1>1, <1>7, <1>8, <1>9, StepLists

LEMMA SyncFsLists ==
  ASSUME Inv, Listing, sync_fs
  PROVE  Listing'
<1>1. /\ todo # <<>> /\ todo = Sync /\ todo' = Tail(todo) /\ taken' = taken
      /\ disk' = table /\ table' = table /\ Step
  <2>1. Sync # <<>>
    BY DEF Sync
  <2> QED
    BY <2>1, InvMeans DEF sync_fs, Step
<1>2. todo \in Seq(Steps) /\ todo[1] = Head(todo) /\ Kind(todo[1]) = "sync" /\ ~ IsNew(todo[1])
  <2>1. todo[1] = <<0, [kind |-> "sync"]>>
    BY <1>1 DEF Sync
  <2> QED
    BY <1>1, <2>1, InvMeans, TailIs, Kinds DEF IsNew
<1>3. PICK s \in Nat, c \in Nat : Left(todo, s, 0, c) /\ Filled(table, s, 0)
  BY <1>2, NoOld
<1>4. \A i \in DOMAIN table : table[i] # Old
  BY <1>2, NoOld
<1>5. 0 \in 0 .. PerCluster + 1
  BY Sizes
<1>6. c = 0
  BY <1>1, <1>2, <1>3, <1>5, LeftHead
<1>7. Left(todo', s, 0, 0)
  BY <1>1, <1>2, <1>3, <1>6, LeftWrites
<1>8. Leftover'
  BY <1>1, <1>4 DEF Leftover
<1>9. Placed(todo', table') /\ Promised(todo', table', taken', asked)
  BY <1>1, <1>2, ShrunkSame, PlacedNext DEF Listing
<1>10. Stretching(todo', table') /\ Sound(table', taken')
  BY <1>1, <1>3, <1>5, <1>7 DEF Stretching, Listing
<1> QED
  BY <1>1, <1>8, <1>9, <1>10, StepLists

LEMMA SyncLists ==
  ASSUME Inv, Listing, f_sync
  PROVE  Listing'
<1>1. todo = <<>> /\ todo' = todo /\ disk' = table /\ table' = table /\ taken' = taken /\ asked' = asked
  BY InvMeans DEF f_sync
<1>2. \A i \in DOMAIN table : table[i] # Old
  BY <1>1, NoOld
<1>3. Leftover'
  BY <1>1, <1>2 DEF Leftover
<1> QED
  BY <1>1, <1>3 DEF Listing

LEMMA ClearLists ==
  ASSUME Inv, Listing, dir_next_clear
  PROVE  Listing'
<1>1. PICK x \in 1 .. Fat - 1 :
        /\ todo # <<>> /\ Head(todo) = Clear(x) /\ todo' = Tail(todo)
        /\ table' = Cleared(table, x) /\ disk' = Cleared(disk, x)
        /\ taken' = taken /\ Step
  BY DEF dir_next_clear, At, Step
<1>2. disk = table
  <2>1. ~ dirty
    BY <1>1, Kinds DEF Inv, Ready
  <2> QED
    BY <2>1, InvMeans
<1>3. /\ todo \in Seq(Steps) /\ todo' \in Seq(Steps) /\ todo[1] = Head(todo) /\ Kind(todo[1]) = "clear"
      /\ ~ IsNew(todo[1])
  BY <1>1, InvMeans, TailIs, Kinds DEF IsNew
<1>4. PICK s \in Nat, r \in 0 .. PerCluster + 1, c \in Nat : Left(todo, s, r, c) /\ Filled(table, s, r)
  BY DEF Listing, Stretching
<1>5. r \in 2 .. PerCluster + 1 /\ c \in Nat \ {0} /\ todo[1] = Clear(s + r - 1)
  BY <1>1, <1>3, <1>4, LeftHead, Sizes
<1>6. x = s + r - 1 /\ x \in Nat
  BY <1>1, <1>3, <1>5, Kinds
<1>7. /\ r < PerCluster + 1 => Filled(table', s, r + 1)
      /\ r = PerCluster + 1 => Filled(table', s + PerCluster, 0)
      /\ \A i \in DOMAIN table : Sector(i) >= x => table[i] \in {Old, Blank}
  BY <1>1, <1>4, <1>5, <1>6, InvMeans, FilledCleared
<1>8. /\ r < PerCluster + 1 => Left(todo', s, r + 1, c)
      /\ r = PerCluster + 1 => Left(todo', s + PerCluster, 0, c - 1)
  BY <1>1, <1>3, <1>4, <1>5, LeftNext
<1>9. Stretching(todo', table') /\ Leftover'
  <2>1. CASE r < PerCluster + 1
    <3>1. r + 1 \in 2 .. PerCluster + 1 /\ r + 1 \in 0 .. PerCluster + 1
      BY <1>5, <2>1, Sizes
    <3>2. todo' # <<>> /\ Kind(todo'[1]) = "clear"
      BY <1>3, <1>8, <2>1, <3>1, LeftClear
    <3>3. Head(todo') = todo'[1]
      BY <1>3, <3>2
    <3>4. Stretching(todo', table')
      BY <1>7, <1>8, <2>1, <3>1 DEF Stretching
    <3> QED
      BY <3>2, <3>3, <3>4 DEF Leftover
  <2>2. CASE r = PerCluster + 1
    <3>1. 0 \in 0 .. PerCluster + 1 /\ s + PerCluster \in Nat /\ c - 1 \in Nat
      BY <1>5, Sizes
    <3>2. Stretching(todo', table')
      BY <1>7, <1>8, <2>2, <3>1 DEF Stretching
    <3>3. \A i \in DOMAIN table' : table'[i] # Old
      BY <1>7, <2>2 DEF Filled
    <3> QED
      BY <1>1, <1>2, <3>2, <3>3 DEF Leftover
  <2> QED
    BY <1>5, <2>1, <2>2, Sizes
<1>10. /\ table \in Seq(Entries) /\ table' \in Seq(Entries) /\ Len(table') = Len(table)
       /\ DOMAIN table' = DOMAIN table
       /\ \A i \in DOMAIN table : table'[i] = IF Sector(i) = x THEN Blank ELSE table[i]
  BY <1>1, InvMeans, ClearedTypes DEF Cleared
<1>11. Shrunk(table, table') /\ Packed(table')
  BY <1>1, <1>6, <1>7, <1>10, ShrunkCleared, PackedCleared DEF Listing, Sound
<1>12. Clusters(table')
  BY <1>10 DEF Clusters, Listing, Sound
<1>13. Sound(table', taken')
  BY <1>1, <1>11, <1>12, ShrunkKeeps DEF Listing, Sound
<1>14. Placed(todo', table') /\ Promised(todo', table', taken', asked)
  <2>1. ASSUME NEW i, Solid(table, i) PROVE Solid(table', i)
    <3>1. i \in DOMAIN table /\ Sector(i) \in Nat
      BY <1>10, <2>1, Sizes DEF Solid
    <3>2. Sector(i) # x
      BY <1>6, <1>7, <2>1, <3>1, Kinds DEF Solid
    <3> QED
      BY <1>10, <2>1, <3>1, <3>2 DEF Solid
  <2>2. \A y \in Nat : Unused(table, y) => Unused(table', y)
    BY <1>10, Kinds DEF Unused
  <2> QED
    BY <1>1, <1>3, <1>11, <2>1, <2>2, PlacedNext DEF Listing
<1> QED
  BY <1>1, <1>2, <1>9, <1>13, <1>14, StepLists

\* The next write of a call, whose sector is in the window.
LEMMA OneWritten ==
  ASSUME NEW w \in Seq(Steps), w # <<>>, IsWrite(w[1]), OneSfn(w),
         NEW t, NEW u, NEW x, NEW e, Puts(t, u, x, e),
         x = w[1][1], e = w[1][2], e # Old, IsNew(w[1]) => x \in DOMAIN t,
         NEW T, NEW U, T \subseteq U, NEW a,
         Sound(t, T), Placed(w, t), Promised(w, t, T, a),
         Kind(w[1]) = "sfn" => LongText(u, x) \subseteq {a} \cup U
  PROVE  Sound(u, U) /\ Placed(Tail(w), u) /\ Promised(Tail(w), u, U, a)
<1>1. 1 \in 1 .. Len(w) /\ w[1] \in Steps
  BY TailAt
<1>2. x \in Nat /\ e \in Entries /\ e.kind # "free" /\ e.kind = Kind(w[1])
  BY <1>1, NewIs
<1>3. e.kind \in {"lfn", "sfn", "deleted"}
  BY <1>2 DEF IsWrite, Kind
<1>4. Packed(u)
  <2>1. \A i \in 1 .. x - 1 : Solid(t, i)
    <3>1. \A i \in 1 .. x - 1 : Solid(t, i) \/ \E l \in 1 .. 1 - 1 : IsNew(w[l]) /\ w[l][1] = i
      BY <1>1 DEF Placed, Behind
    <3>2. \A l \in 1 .. 1 - 1 : FALSE
      OBVIOUS
    <3> QED
      BY <3>1, <3>2
  <2>2. Packed(t)
    BY DEF Sound
  <2> QED
    BY <1>2, <2>1, <2>2, PackedWritten
<1>5. Clusters(u)
  BY DEF Sound, Clusters, Puts
<1>6. Own(t, T) /\ Apart(t, T)
  BY DEF Sound
<1>7. ASSUME Shrunk(t, u) PROVE Own(u, U) /\ Apart(u, U)
  BY <1>6, <1>7, ShrunkKeeps
<1>8. CASE e.kind = "deleted"
  <2>1. Shrunk(t, u)
    <3>1. e.kind \in {"lfn", "deleted"} /\ (e.kind = "lfn" => Unused(t, x + 1))
      BY <1>8
    <3> QED
      BY <1>2, <3>1, ShrunkWritten
  <2>2. ~ IsNew(w[1])
    BY <1>2, <1>8 DEF IsNew
  <2>3. ASSUME NEW i, Solid(t, i) PROVE Solid(u, i)
    BY <1>2, <2>3 DEF Solid, Puts
  <2>4. ASSUME NEW y \in Nat, Unused(t, y) PROVE Unused(u, y)
    BY <1>2, <1>8, <2>4 DEF Unused, Puts
  <2>5. Placed(Tail(w), u) /\ Promised(Tail(w), u, T, a)
    BY <2>1, <2>2, <2>3, <2>4, PlacedNext
  <2>6. Promised(Tail(w), u, U, a)
    <3> DEFINE v == Tail(w)
    <3> HIDE DEF v
    <3>1. \A n, f : Leads(u, T, n, f) => Leads(u, U, n, f)
      BY ShrunkSame, ShrunkKeeps
    <3>2. Promised(v, u, T, a) => Promised(v, u, U, a)
      BY <3>1 DEF Promised
    <3> QED
      BY <2>5, <3>2 DEF v
  <2> QED
    BY <1>4, <1>5, <1>7, <2>1, <2>5, <2>6 DEF Sound
<1>9. CASE e.kind \in {"lfn", "sfn"}
  <2>1. /\ Placed(Tail(w), u) /\ Promised(Tail(w), u, U, a)
        /\ Kind(w[1]) = "lfn" => Shrunk(t, u)
    <3>1. IsNew(w[1])
      BY <1>2, <1>9 DEF IsNew
    <3>2. w[1][1] \in DOMAIN t /\ w[1][2] # Old /\ Puts(t, u, w[1][1], w[1][2])
      BY <3>1
    <3> QED
      BY <3>1, <3>2, PlacedWritten
  <2>2. CASE e.kind = "lfn"
    BY <1>2, <1>4, <1>5, <1>7, <2>1, <2>2 DEF Sound
  <2>3. CASE e.kind = "sfn"
    <3>1. /\ e.file \in File /\ (a \in Sfn => a = e.sfn)
          /\ Leads(t, T, e.sfn, e.file) /\ Leads(t, T, a, e.file)
      BY <1>1, <1>2, <2>3 DEF Promised
    <3>2. e = SfnEntry(e.sfn, e.file)
      BY <1>1, <1>2, <2>3, NewIs
    <3>3. PICK s, f : s = e.sfn /\ f = e.file
      OBVIOUS
    <3>4. e = SfnEntry(s, f) /\ f \in File /\ (a \in Sfn => a = s)
          /\ Leads(t, T, s, f) /\ Leads(t, T, a, f)
      BY <3>1, <3>2, <3>3
    <3>5. Puts(t, u, x, SfnEntry(s, f))
      BY <3>4
    <3>6. LongText(u, x) \subseteq {a} \cup U
      BY <1>2, <2>3
    <3>7. Own(u, U) /\ Apart(u, U)
      BY <1>2, <1>6, <3>4, <3>5, <3>6, Named
    <3> QED
      BY <1>4, <1>5, <2>1, <3>7 DEF Sound
  <2> QED
    BY <1>9, <2>2, <2>3
<1> QED
  BY <1>3, <1>8, <1>9

LEMMA WriteLists ==
  ASSUME Inv, Listing, write_entry
  PROVE  Listing'
<1>1. PICK w, x, e : w = Head(todo) /\ x = w[1] /\ e = w[2]
  OBVIOUS
<1>2. /\ todo # <<>> /\ IsWrite(w) /\ todo' = Tail(todo) /\ Step
      /\ table' = [table EXCEPT ![x] = e]
      /\ disk' = IF Sector(x) = sect THEN disk ELSE table
      /\ sect' = Sector(x) /\ dirty' = TRUE
      /\ taken' = IF Kind(w) = "sfn" THEN taken \cup TakenBy(w) ELSE taken
  BY <1>1, InvMeans DEF write_entry, Step, Kind
<1>3. /\ todo \in Seq(Steps) /\ todo[1] = w /\ 1 \in 1 .. Len(todo) /\ OneSfn(todo)
      /\ Kind(w) \in {"lfn", "sfn", "deleted"}
  BY <1>1, <1>2, InvMeans, TailIs DEF IsWrite, Kind, Inv
<1>4. /\ x \in Nat /\ e \in Entries /\ e.kind = Kind(w)
      /\ Kind(w) = "sfn" => e = SfnEntry(e.sfn, e.file)
  BY <1>1, <1>2, <1>3, NewIs
<1>5. /\ table \in Seq(Entries) /\ table' \in Seq(Entries) /\ Len(table') = Len(table)
      /\ DOMAIN table' = DOMAIN table
      /\ \A i \in DOMAIN table : table'[i] = IF i = x THEN e ELSE table[i]
  <2>1. table \in Seq(Entries)
    BY InvMeans
  <2> QED
    BY <1>2, <1>4, <2>1, Replaced
<1>5a. Puts(table, table', x, e)
  BY <1>4, <1>5 DEF Puts
<1>6. e # Old
  <2>1. CASE Kind(w) = "sfn"
    <3>1. e.file \in File
      BY <1>1, <1>3, <2>1 DEF Listing, Promised
    <3> QED
      BY <3>1, Kinds, TableAssumption
  <2>2. CASE Kind(w) # "sfn"
    BY <1>4, <2>2, Kinds
  <2> QED
    BY <2>1, <2>2
<1>7. Kind(Head(todo)) \notin {"flush", "clear"}
  BY <1>1, <1>3
<1>8. PICK s \in Nat, c \in Nat : Left(todo, s, 0, c) /\ Filled(table, s, 0)
  BY <1>7, NoOld
<1>9. \A i \in DOMAIN table : table[i] # Old
  BY <1>7, NoOld
<1>10. 0 \in 0 .. PerCluster + 1
  BY Sizes
<1>11. c = 0
  BY <1>2, <1>3, <1>8, <1>10, LeftHead
<1>12. Left(todo', s, 0, 0) /\ (IsNew(w) => x \in 1 .. PerSector * s)
  BY <1>1, <1>2, <1>3, <1>8, <1>11, LeftWrites
<1>13. IsNew(w) => x \in DOMAIN table
  <2>1. Len(table) = PerSector * s
    BY <1>8 DEF Filled
  <2> QED
    BY <1>5, <1>12, <2>1
<1>14. Filled(table', s, 0)
  <2>1. Filled(table, s, 0)
    BY <1>8
  <2> QED
    BY <1>6, <1>5a, <2>1, FilledWritten
<1>15. Stretching(todo', table')
  BY <1>10, <1>12, <1>14 DEF Stretching
<1>16. Kind(w) = "sfn" => LongText(table', x) \subseteq {asked} \cup taken'
  <2> SUFFICES ASSUME Kind(w) = "sfn", NEW n \in LongText(table', x), n # asked
               PROVE  n \in taken'
    OBVIOUS
  <2>1. x \in DOMAIN table /\ x \in Nat \ {0}
    BY <1>5, <1>13 DEF IsNew
  <2>2. PICK b \in 1 .. x - 1 : Attached(table', b, x)
    BY <2>1, LongTextIs
  <2>3. x - 1 \in b .. x - 1 /\ table'[x] = e
    BY <1>5, <2>1
  <2>4. table'[x - 1].sum = Sum[e.sfn]
    BY <2>2, <2>3 DEF Attached
  <2>5. n \in TakenBy(w)
    BY <1>1, <2>4 DEF TakenBy
  <2> QED
    BY <1>2, <2>5
<1>17. taken \subseteq taken'
  BY <1>2
<1>18. Sound(table, taken) /\ Placed(todo, table) /\ Promised(todo, table, taken, asked)
  BY DEF Listing
<1>19. IsWrite(todo[1]) /\ x = todo[1][1] /\ e = todo[1][2] /\ (IsNew(todo[1]) => x \in DOMAIN table)
       /\ (Kind(todo[1]) = "sfn" => LongText(table', x) \subseteq {asked} \cup taken')
  BY <1>1, <1>2, <1>3, <1>13, <1>16
<1>20. Sound(table', taken') /\ Placed(todo', table') /\ Promised(todo', table', taken', asked)
  <2>1. PICK v, t, u, T, U, a : /\ v = todo /\ t = table /\ u = table'
                                /\ T = taken /\ U = taken' /\ a = asked
    OBVIOUS
  <2>2. /\ v \in Seq(Steps) /\ v # <<>> /\ IsWrite(v[1]) /\ OneSfn(v) /\ Puts(t, u, x, e)
        /\ x = v[1][1] /\ e = v[1][2] /\ (IsNew(v[1]) => x \in DOMAIN t) /\ T \subseteq U
        /\ Sound(t, T) /\ Placed(v, t) /\ Promised(v, t, T, a)
        /\ Kind(v[1]) = "sfn" => LongText(u, x) \subseteq {a} \cup U
    BY <1>2, <1>3, <1>17, <1>18, <1>19, <1>5a, <2>1
  <2>3. Sound(u, U) /\ Placed(Tail(v), u) /\ Promised(Tail(v), u, U, a)
    BY <1>6, <2>2, OneWritten
  <2> QED
    BY <1>2, <2>1, <2>3
<1>21. Leftover'
  <2>1. ASSUME NEW i \in DOMAIN disk', disk'[i] = Old PROVE dirty' /\ sect' = Sector(i)
    <3>1. disk' = disk /\ Sector(x) = sect
      BY <1>2, <1>9, <2>1
    <3>2. dirty /\ sect = Sector(i)
      BY <1>7, <2>1, <3>1 DEF Listing, Leftover
    <3> QED
      BY <1>2, <3>1, <3>2
  <2> QED
    BY <2>1 DEF Leftover
<1>22. disk' \in {disk, table, table'}
  BY <1>2
<1> QED
  BY <1>2, <1>15, <1>17, <1>20, <1>21, <1>22, StepLists

----------------------------------------------------------------------------
(* Failures.                                                               *)

\* A call that is cut short leaves nothing to write.
LEMMA EndLists ==
  ASSUME todo' = <<>>, Sound(table', taken'), Sound(disk', taken'), Leftover',
         NEW s \in Nat, Filled(table', s, 0)
  PROVE  Listing'
<1>1. Left(todo', s, 0, 0) /\ 0 \in 0 .. PerCluster + 1
  BY LeftNone, Sizes
<1>2. Stretching(todo', table')
  BY <1>1 DEF Stretching
<1>3. Placed(todo', table') /\ Promised(todo', table', taken', asked')
  BY NothingLeft
<1> QED
  BY <1>2, <1>3 DEF Listing

LEMMA WriteErrorLists ==
  ASSUME Inv, Listing, write_error, ~ bare'
  PROVE  Listing'
<1>1. /\ todo # <<>> /\ Kind(Head(todo)) # "clear" /\ ~ At(Flush)
      /\ todo' = <<>> /\ table' = table /\ taken' = taken
      /\ \/ dirty /\ disk' \in {disk, table} /\ sect' = sect /\ dirty' = dirty
         \/ disk' = table
  BY InvMeans DEF write_error, Fails, Kind
<1>2. Kind(Head(todo)) # "flush"
  <2> SUFFICES ASSUME Kind(Head(todo)) = "flush" PROVE FALSE
    OBVIOUS
  <2>1. todo \in Seq(Steps) /\ todo[1] = Head(todo)
    BY <1>1, InvMeans, TailIs
  <2>2. PICK s \in Nat, r \in 0 .. PerCluster + 1, c \in Nat : Left(todo, s, r, c)
    BY DEF Listing, Stretching
  <2>3. Head(todo) = Flush
    BY <1>1, <2>1, <2>2, LeftHead
  <2> QED
    BY <1>1, <2>3 DEF At
<1>3. PICK s \in Nat : Filled(table, s, 0)
  BY <1>1, <1>2, NoOld
<1>4. \A i \in DOMAIN table : table[i] # Old
  BY <1>1, <1>2, NoOld
<1>5. Leftover'
  BY <1>1, <1>4 DEF Listing, Leftover
<1>6. Sound(table', taken') /\ Sound(disk', taken')
  BY <1>1 DEF Listing
<1> QED
  BY <1>1, <1>3, <1>5, <1>6, EndLists

LEMMA ClearErrorLists ==
  ASSUME Inv, Listing, clear_error, ~ bare'
  PROVE  Listing'
<1>1. PICK x \in 1 .. Fat - 1 :
        /\ todo # <<>> /\ Head(todo) = Clear(x) /\ x % PerCluster = 0
        /\ table' = Cleared(table, x) /\ disk' \in {disk, Cleared(disk, x)}
        /\ sect' = x /\ dirty' = TRUE /\ todo' = <<>> /\ taken' = taken
  BY DEF clear_error, Fails, At
<1>2. disk = table
  BY <1>1, InvMeans, Kinds DEF Inv, Ready
<1>3. todo \in Seq(Steps) /\ todo[1] = Head(todo) /\ Kind(todo[1]) = "clear"
  BY <1>1, InvMeans, TailIs, Kinds
<1>4. PICK s \in Nat, r \in 0 .. PerCluster + 1, c \in Nat : Left(todo, s, r, c) /\ Filled(table, s, r)
  BY DEF Listing, Stretching
<1>5. r \in 2 .. PerCluster + 1 /\ todo[1] = Clear(s + r - 1)
  BY <1>1, <1>3, <1>4, LeftHead, Sizes
<1>6. x = s + r - 1 /\ x \in Nat
  BY <1>1, <1>3, <1>5, Kinds
<1>7. PerCluster \in Nat \ {0} /\ PerSector \in Nat \ {0}
  BY Sizes
<1>8. r = PerCluster + 1
  <2> SUFFICES ASSUME r < PerCluster + 1 PROVE FALSE
    BY <1>5, <1>7
  <2>1. PICK q \in Nat : s = PerCluster * q
    BY <1>4 DEF Filled
  <2>2. x = PerCluster * q + (r - 1) /\ r - 1 \in 0 .. PerCluster - 1 /\ q \in Int
    BY <1>5, <1>6, <1>7, <2>1
  <2>3. x % PerCluster = r - 1
    BY <1>6, <1>7, <2>2, RemainderIs
  <2> QED
    BY <1>1, <1>5, <2>3
<1>9. /\ Filled(table', s + PerCluster, 0) /\ s + PerCluster \in Nat /\ x = s + PerCluster
      /\ \A i \in DOMAIN table : Sector(i) >= x => table[i] \in {Old, Blank}
  BY <1>1, <1>4, <1>5, <1>6, <1>7, <1>8, InvMeans, FilledCleared
<1>10. /\ table \in Seq(Entries) /\ table' \in Seq(Entries) /\ Len(table') = Len(table)
  BY <1>1, InvMeans, ClearedTypes
<1>11. Sound(table', taken')
  <2>1. Shrunk(table, table') /\ Packed(table')
    BY <1>1, <1>6, <1>9, <1>10, ShrunkCleared, PackedCleared DEF Listing, Sound
  <2>2. Clusters(table')
    BY <1>10 DEF Clusters, Listing, Sound
  <2> QED
    BY <1>1, <2>1, <2>2, ShrunkKeeps DEF Listing, Sound
<1>12. Sound(disk', taken')
  BY <1>1, <1>2, <1>11 DEF Listing
<1>13. Leftover'
  <2>1. ASSUME NEW i \in DOMAIN disk', disk'[i] = Old PROVE sect' = Sector(i)
    <3>1. disk' = table
      <4>1. \A j \in DOMAIN table' : table'[j] # Old
        BY <1>9 DEF Filled
      <4> QED
        BY <1>1, <1>2, <2>1, <4>1
    <3>2. i \in DOMAIN table /\ table[i] = Old
      BY <2>1, <3>1
    <3>3. Sector(i) >= x /\ Len(table) = PerSector * (s + PerCluster)
      BY <1>4, <1>5, <1>6, <3>2 DEF Filled
    <3>4. i \in Nat \ {0} /\ i <= PerSector * x /\ Sector(i) \in Nat
      <4>1. i \in Nat \ {0} /\ i <= Len(table)
        BY <1>10, <3>2
      <4> QED
        BY <1>9, <3>3, <4>1, Sizes
    <3>5. PerSector * x \in Nat
      BY <1>6, <1>7
    <3>6. ~ (Sector(i) > x)
      BY <1>6, <3>4, <3>5, SectorBehind
    <3> QED
      BY <1>1, <1>6, <3>3, <3>4, <3>6
  <2> QED
    BY <1>1, <2>1 DEF Leftover
<1> QED
  BY <1>1, <1>9, <1>11, <1>12, <1>13, EndLists

LEMMA PowerLossLists ==
  ASSUME Inv, Listing, PowerLoss, ~ bare'
  PROVE  Listing'
<1>1. /\ table' = disk /\ disk' = disk /\ todo' = <<>> /\ taken' = taken
      /\ ~ (todo # <<>> /\ Kind(Head(todo)) = "clear")
      /\ \A i \in DOMAIN disk : ~ (dirty /\ Sector(i) = sect /\ disk[i] = Old)
  BY DEF PowerLoss, Fails, Kind
<1>2. \A i \in DOMAIN disk : disk[i] # Old
  BY <1>1 DEF Listing, Leftover
<1>3. Sound(disk, taken)
  BY DEF Listing
<1>4. \E s \in Nat : Filled(disk, s, 0)
  <2>1. Clusters(disk)
    BY <1>3 DEF Sound
  <2> QED
    BY <1>2, <2>1, InvMeans, FilledWhole
<1>5. Leftover'
  BY <1>1, <1>2 DEF Leftover
<1> QED
  BY <1>1, <1>3, <1>4, <1>5, EndLists

----------------------------------------------------------------------------
(* What a call begins.                                                     *)

Whole(t) == t \in Seq(Entries) /\ Packed(t) /\ \A i \in DOMAIN t : t[i] # Old

\* What is in use lies before the end of the table.
LEMMA LiveBeforeEnd ==
  ASSUME NEW t, Whole(t)
  PROVE  /\ \A i \in 1 .. End(t) - 1 : i \in DOMAIN t /\ Solid(t, i)
         /\ \A i : Live(t, i) <=> i \in 1 .. End(t) - 1 /\ IsSfn(t, i)
         /\ \A i \in DOMAIN t : \A j \in 1 .. i : Solid(t, i) => Solid(t, j)
<1> DEFINE S == {i \in DOMAIN t : t[i].kind = "free"} \cup {Len(t) + 1}
           m == Min(S)
<1>1. S \in SUBSET Nat /\ S # {} /\ S \subseteq 1 .. Len(t) + 1 /\ Len(t) \in Nat
  BY DEF Whole
<1>2. End(t) = m
  BY DEF End
<1>3. \A i \in DOMAIN t : t[i].kind = "free" => i \in S
  OBVIOUS
<1>4. \A i \in S : i \in DOMAIN t => t[i].kind = "free"
  BY <1>1 DEF Whole
<1> HIDE DEF S
<1>5. m \in S /\ \A i \in S : m <= i
  BY <1>1, MinIs
<1> HIDE DEF m
<1>6. m \in 1 .. Len(t) + 1
  BY <1>1, <1>5
<1>7. \A i \in 1 .. m - 1 : i \in DOMAIN t /\ Solid(t, i)
  <2> SUFFICES ASSUME NEW i \in 1 .. m - 1 PROVE i \in DOMAIN t /\ Solid(t, i)
    OBVIOUS
  <2>1. i \in DOMAIN t /\ ~ (m <= i)
    BY <1>1, <1>6 DEF Whole
  <2>2. t[i].kind # "free"
    BY <1>3, <1>5, <2>1
  <2> QED
    BY <2>1, <2>2 DEF Solid, Whole
<1>8. ASSUME NEW i \in DOMAIN t, Solid(t, i), NEW j \in 1 .. i PROVE Solid(t, j)
  <2>1. i \in Nat /\ j \in DOMAIN t
    BY DEF Whole
  <2>2. j < i \/ j = i
    BY <2>1
  <2>3. j < i => t[j].kind # "free"
    BY <1>8, <2>1 DEF Whole, Packed, Solid
  <2> QED
    BY <1>8, <2>1, <2>2, <2>3 DEF Whole, Solid
<1>9. ASSUME NEW i, Live(t, i) PROVE i \in 1 .. m - 1
  <2>1. i \in DOMAIN t /\ t[i].kind = "sfn" /\ i \in Nat \ {0} /\ i <= Len(t)
    BY <1>9 DEF Live, IsSfn, Whole
  <2>2. Solid(t, i)
    BY <2>1 DEF Solid, Whole
  <2> SUFFICES ASSUME m <= i PROVE FALSE
    BY <1>6, <2>1
  <2>3. m \in DOMAIN t /\ m \in 1 .. i
    BY <1>1, <1>6, <2>1 DEF Whole
  <2>4. Solid(t, m)
    BY <1>8, <2>1, <2>2, <2>3
  <2> QED
    BY <1>4, <1>5, <2>3, <2>4 DEF Solid
<1>10. ASSUME NEW i \in 1 .. m - 1, IsSfn(t, i) PROVE Live(t, i)
  BY <1>7, <1>10 DEF Live, Solid
<1>11. \A i : Live(t, i) <=> i \in 1 .. m - 1 /\ IsSfn(t, i)
  BY <1>9, <1>10 DEF Live
<1> QED
  BY <1>2, <1>7, <1>8, <1>11

\* dir_find matches the names of an entry, and no others.
LEMMA CalledMatches ==
  ASSUME NEW t, Whole(t), NEW i, Live(t, i), NEW n
  PROVE  Matches(t, i, n) <=> n \in Called(t, i)
<1>1. t[i] \in Entries /\ t[i].kind = "sfn"
  BY DEF Live, IsSfn, Whole
<1>2. t[i] \in SfnEntries
  BY <1>1, Kinds, EntryKinds DEF Entries
<1>3. t[i].sfn \in Sfn
  BY <1>2 DEF SfnEntries, SfnEntry
<1>4. t[i].sfn \notin Lossy
  BY <1>3, NameAssumption
<1> QED
  BY <1>4 DEF Matches, Called

LEMMA FindIs ==
  ASSUME NEW t, Whole(t), NEW n
  PROVE  IF dir_find(t, n) = NoSlot THEN \A i : Live(t, i) => n \notin Called(t, i)
         ELSE Live(t, dir_find(t, n)) /\ n \in Called(t, dir_find(t, n))
<1> DEFINE S == {i \in 1 .. End(t) - 1 : IsSfn(t, i) /\ Matches(t, i, n)}
           d == dir_find(t, n)
<1>1. \A i : i \in S <=> Live(t, i) /\ n \in Called(t, i)
  BY LiveBeforeEnd, CalledMatches
<1>2. S \in SUBSET Nat /\ 0 \notin S
  BY LiveBeforeEnd DEF Whole
<1>3. d = Least(S)
  BY DEF dir_find
<1> HIDE DEF S
<1>4. S = {} => d = NoSlot
  BY <1>3 DEF Least
<1>5. S # {} => d \in S
  BY <1>2, <1>3, MinIs DEF Least
<1> QED
  BY <1>1, <1>2, <1>4, <1>5 DEF NoSlot

LEMMA FindLeads ==
  ASSUME NEW t, Whole(t), NEW T, Apart(t, T), NEW n, NEW f,
         dir_find(t, n) = NoSlot \/ t[dir_find(t, n)].file = f
  PROVE  Leads(t, T, n, f)
<1> DEFINE d == dir_find(t, n)
<1>1. IF d = NoSlot THEN \A i : Live(t, i) => n \notin Called(t, i)
      ELSE Live(t, d) /\ n \in Called(t, d)
  BY FindIs
<1> HIDE DEF d
<1>2. CASE d = NoSlot
  BY <1>1, <1>2 DEF Leads
<1>3. CASE d # NoSlot
  <2>1. t[d].file = f
    BY <1>3 DEF d
  <2> QED
    BY <1>1, <1>3, <2>1 DEF Apart
<1> QED
  BY <1>2, <1>3

\* The short name that is chosen leads to no other file.
LEMMA ShortLeads ==
  ASSUME NEW t, Whole(t), NEW T, Own(t, T), NEW n \in Typed, NEW f,
         Leads(t, T, Text(n), f), NEW s \in ShortNames(t, n)
  PROVE  Leads(t, T, s, f) /\ s \in Sfn /\ (Text(n) \in Sfn => Text(n) = s)
<1>1. s \in Sfn
  BY ShortNamesIs
<1>2. CASE n \notin Lossy
  BY <1>1, <1>2 DEF ShortNames
<1>3. CASE n \in Lossy
  <2>1. Text(n) = n /\ n \notin Sfn
    BY <1>3, NameAssumption DEF Text
  <2>2. ~ UsesSfn(t, s)
    <3> DEFINE free == {k \in DOMAIN Tails[n] : ~UsesSfn(t, Tails[n][k])}
    <3>1. Tails[n] \in Seq(Sfn)
      BY <1>3, NameAssumption
    <3>2. free \in SUBSET Nat
      BY <3>1
    <3>3. \A k \in free : ~ UsesSfn(t, Tails[n][k])
      OBVIOUS
    <3>4. s \in IF free = {} THEN {} ELSE {Tails[n][Min(free)]}
      BY <1>3 DEF ShortNames, Numbered
    <3> HIDE DEF free
    <3>5. free # {} /\ s = Tails[n][Min(free)]
      BY <3>4
    <3>6. Min(free) \in free
      BY <3>2, <3>5, MinIs
    <3> QED
      BY <3>3, <3>5, <3>6
  <2>3. ASSUME NEW i, Live(t, i), s \in Called(t, i) PROVE s \in T
    <3>1. i \in 1 .. End(t) - 1 /\ IsSfn(t, i)
      BY <2>3, LiveBeforeEnd
    <3>2. t[i].sfn # s
      BY <2>2, <3>1 DEF UsesSfn
    <3>3. s \in LongText(t, i) \cap Sfn
      BY <1>1, <2>3, <3>2 DEF Called
    <3> QED
      BY <2>3, <3>2, <3>3 DEF Own
  <2> QED
    BY <1>1, <2>1, <2>3 DEF Leads
<1> QED
  BY <1>2, <1>3

\* The first entries that are not in use are allocated.
LEMMA AllocFirst ==
  ASSUME NEW t, Whole(t), NEW n \in Nat \ {0}, dir_alloc(t, n) # NoSlot
  PROVE  /\ dir_alloc(t, n) \in Nat \ {0}
         /\ \A x \in dir_alloc(t, n) .. dir_alloc(t, n) + n - 1 : Unused(t, x)
         /\ \A i \in 1 .. dir_alloc(t, n) - 1 : Solid(t, i)
<1> DEFINE fits(c) == \A i \in c .. c + n - 1 : i > Len(t) \/ t[i].kind \in {"deleted", "free"}
           S == {c \in 1 .. Slots + 1 - n : fits(c)}
           b == dir_alloc(t, n)
<1>1. S \in SUBSET Nat /\ Slots \in Nat
  BY Sizes
<1>2. b = Least(S)
  BY DEF dir_alloc
<1>3. b \in S /\ \A c \in S : b <= c
  <2> HIDE DEF S
  <2>1. S # {} /\ b = Min(S)
    BY <1>2 DEF Least
  <2> QED
    BY <1>1, <2>1, MinIs
<1>4. b \in 1 .. Slots + 1 - n /\ fits(b)
  BY <1>3
<1>5. \A c \in 1 .. Slots + 1 - n : fits(c) => b <= c
  BY <1>3
<1> HIDE DEF S, b
<1>6. ASSUME NEW x \in b .. b + n - 1 PROVE Unused(t, x)
  BY <1>4 DEF Unused, Whole
<1>7. ASSUME NEW i \in 1 .. b - 1, ~ Solid(t, i) PROVE FALSE
  <2>1. fits(i)
    <3> SUFFICES ASSUME NEW j \in i .. i + n - 1, j \in DOMAIN t
                 PROVE  t[j].kind = "free"
      BY <1>1, <1>4 DEF Whole
    <3>1. i \in 1 .. j
      BY <1>1, <1>4
    <3>2. ~ Solid(t, j)
      BY <1>7, <3>1, LiveBeforeEnd
    <3> QED
      BY <3>2 DEF Solid, Whole
  <2>2. i \in 1 .. Slots + 1 - n /\ ~ (b <= i)
    BY <1>1, <1>4
  <2> QED
    BY <1>5, <2>1, <2>2
<1> QED
  BY <1>1, <1>4, <1>6, <1>7 DEF b

\* The clusters that a stretch links reach entry i.
LEMMA StretchSpan ==
  ASSUME NEW t \in Seq(Entries), NEW s \in Nat, Len(t) = PerSector * s, Sector(Len(t)) = s,
         NEW i \in Nat
  PROVE  \E c \in Nat :
           /\ Stretch(t, i) \in Seq(Steps) /\ Len(Stretch(t, i)) = (PerCluster + 2) * c
           /\ \A k \in 1 .. (PerCluster + 2) * c : Stretch(t, i)[k] = stretch(s, k)
           /\ i <= PerSector * (s + PerCluster * c)
<1> DEFINE size == PerSector * PerCluster
           m == Max({i, Len(t)})
           d == m - Len(t)
           c == (d + size - 1) \div size
           n == c * (PerCluster + 2)
           w == Stretch(t, i)
<1>1. size \in Nat \ {0} /\ PerCluster \in Nat \ {0} /\ PerSector \in Nat \ {0} /\ Len(t) \in Nat
  BY Sizes
<1>2. m \in Nat /\ m >= i /\ m >= Len(t)
  <2>1. m = IF i > Len(t) THEN i ELSE Len(t)
    BY <1>1, MaxOfTwo
  <2> HIDE DEF m
  <2> QED
    BY <1>1, <2>1
<1>3. w = [k \in 1 .. n |-> stretch(s, k)]
  BY DEF Stretch
<1> HIDE DEF m, w
<1>4. d \in Nat
  BY <1>1, <1>2
<1> HIDE DEF d, size
<1>5. c \in Nat /\ size * c + size > d + size - 1
  <2>1. d + size - 1 \in Nat
    BY <1>1, <1>4
  <2> DEFINE y == d + size - 1
             x == y % size
  <2> HIDE DEF y
  <2>2. c = y \div size /\ y \in Nat
    BY <2>1 DEF y
  <2>3. c \in Nat /\ x \in 0 .. size - 1 /\ y = size * c + x
    BY <1>1, <2>2, Division
  <2> HIDE DEF x, c
  <2>4. size * c \in Nat
    BY <1>1, <2>3
  <2> QED
    BY <1>1, <2>3, <2>4 DEF y
<1> HIDE DEF c
<1>6. size * c \in Nat /\ n \in Nat /\ n = (PerCluster + 2) * c
  BY <1>1, <1>5
<1>7. i <= Len(t) + size * c
  <2>1. d <= size * c
    BY <1>1, <1>4, <1>5, <1>6
  <2> QED
    BY <1>1, <1>2, <1>6, <2>1 DEF d
<1>8. PerSector * (s + PerCluster * c) = PerSector * s + size * c
  <2>1. PerCluster * c \in Nat
    BY <1>1, <1>5
  <2> DEFINE z == PerCluster * c
  <2> HIDE DEF z
  <2>2. z \in Nat /\ PerSector * (s + z) = PerSector * s + PerSector * z
    BY <1>1, <2>1 DEF z
  <2>3. PerSector * (PerCluster * c) = (PerSector * PerCluster) * c
    BY <1>1, <1>5
  <2> QED
    BY <2>2, <2>3 DEF z, size
<1> HIDE DEF n
<1>9. \A k \in 1 .. n : stretch(s, k) \in Steps
  BY StretchStep
<1>10. w \in Seq(Steps) /\ Len(w) = n /\ \A k \in 1 .. n : w[k] = stretch(s, k)
  BY <1>3, <1>6, <1>9
<1>11. i <= PerSector * (s + PerCluster * c)
  BY <1>7, <1>8
<1> QED
  BY <1>5, <1>6, <1>10, <1>11 DEF w

\* The writes v of a call lie in the table that it is stretched to.
LEMMA StretchingBegun ==
  ASSUME NEW t, Whole(t), Clusters(t), NEW i \in Nat, NEW v \in Seq(Steps),
         \A k \in 1 .. Len(v) :
           /\ Kind(v[k]) \notin {"link", "flush", "clear"}
           /\ IsNew(v[k]) => v[k][1] \in 1 .. i
  PROVE  Stretching(Stretch(t, i) \o v, t)
<1> DEFINE u == Stretch(t, i)
           w == u \o v
<1>1. t \in Seq(Entries) /\ \A j \in DOMAIN t : t[j] # Old
  BY DEF Whole
<1>2. PICK s \in Nat : Filled(t, s, 0) /\ Sector(Len(t)) = s
  BY <1>1, FilledWhole
<1>3. Len(t) = PerSector * s
  BY <1>2 DEF Filled
<1>4. PICK c \in Nat :
        /\ u \in Seq(Steps) /\ Len(u) = (PerCluster + 2) * c
        /\ \A k \in 1 .. (PerCluster + 2) * c : u[k] = stretch(s, k)
        /\ i <= PerSector * (s + PerCluster * c)
  BY <1>1, <1>2, <1>3, StretchSpan
<1> HIDE DEF u
<1>5. /\ w \in Seq(Steps) /\ Len(w) = Len(u) + Len(v) /\ Len(u) \in Nat /\ Len(v) \in Nat
      /\ \A k \in 1 .. Len(u) : w[k] = u[k]
      /\ \A k \in 1 .. Len(v) : w[Len(u) + k] = v[k]
  BY <1>4, Joined
<1> HIDE DEF w
<1>6. PICK n, e : n = (PerCluster + 2) * c /\ e = PerSector * (s + PerCluster * c)
  OBVIOUS
<1>7. e \in Nat
  <2>1. PerCluster * c \in Nat /\ PerSector \in Nat
    BY Sizes
  <2> DEFINE z == PerCluster * c
  <2> HIDE DEF z
  <2>2. z \in Nat /\ e = PerSector * (s + z)
    BY <1>6, <2>1 DEF z
  <2> QED
    BY <2>1, <2>2
<1>8. ASSUME NEW k \in n + 1 .. Len(w)
      PROVE  Kind(w[k]) \notin {"link", "flush", "clear"} /\ (IsNew(w[k]) => w[k][1] \in 1 .. e)
  <2>1. k - Len(u) \in 1 .. Len(v) /\ Len(u) + (k - Len(u)) = k
    BY <1>4, <1>5, <1>6
  <2>2. w[k] = v[k - Len(u)]
    BY <1>5, <2>1
  <2>3. IsNew(w[k]) => w[k][1] \in 1 .. i
    BY <2>1, <2>2
  <2>4. Kind(w[k]) \notin {"link", "flush", "clear"}
    BY <2>1, <2>2
  <2>5. \A x \in 1 .. i : x \in 1 .. e
    BY <1>4, <1>6, <1>7
  <2> QED
    BY <2>3, <2>4, <2>5
<1>9. ASSUME NEW k \in 1 .. n PROVE w[k] = stretch(s, 0 + k)
  <2>1. k \in 1 .. Len(u) /\ 0 + k = k
    BY <1>4, <1>6
  <2> QED
    BY <1>4, <1>5, <1>6, <2>1
<1>10. n - 0 \in 0 .. Len(w) /\ n - 0 = n
  BY <1>4, <1>5, <1>6
<1>11. Left(w, s, 0, c)
  BY <1>6, <1>8, <1>9, <1>10 DEF Left
<1>12. 0 \in 0 .. PerCluster + 1
  BY Sizes
<1>13. Stretching(w, t)
  BY <1>2, <1>11, <1>12 DEF Stretching
<1> QED
  BY <1>13 DEF w, u

\* The steps that stretch the table come before the writes, and write nothing.
LEMMA PlacedBehind ==
  ASSUME NEW u \in Seq(Steps), NEW v \in Seq(Steps),
         \A k \in 1 .. Len(u) : Kind(u[k]) \in {"link", "flush", "clear"},
         NEW t, NEW T, NEW a, Placed(v, t), Promised(v, t, T, a)
  PROVE  Placed(u \o v, t) /\ Promised(u \o v, t, T, a)
<1> DEFINE w == u \o v
<1>1. /\ w \in Seq(Steps) /\ Len(w) = Len(u) + Len(v) /\ Len(u) \in Nat /\ Len(v) \in Nat
      /\ \A k \in 1 .. Len(u) : w[k] = u[k]
      /\ \A k \in 1 .. Len(v) : w[Len(u) + k] = v[k]
  BY Joined
<1> HIDE DEF w
<1>2. ASSUME NEW k \in 1 .. Len(w), IsNew(w[k]) \/ IsWrite(w[k]) \/ Kind(w[k]) = "sfn"
      PROVE  k - Len(u) \in 1 .. Len(v) /\ w[k] = v[k - Len(u)]
  <2>1. k \notin 1 .. Len(u)
    BY <1>1, <1>2 DEF IsNew, IsWrite, Kind
  <2>2. k - Len(u) \in 1 .. Len(v) /\ Len(u) + (k - Len(u)) = k
    BY <1>1, <2>1
  <2> QED
    BY <1>1, <2>2
<1>3. InOrder(w)
  <2>1. ASSUME NEW k \in 1 .. Len(w), NEW l \in 1 .. Len(w), IsNew(w[k]), IsNew(w[l])
        PROVE  w[l][1] = w[k][1] + (l - k)
    <3>1. /\ k - Len(u) \in 1 .. Len(v) /\ w[k] = v[k - Len(u)]
          /\ l - Len(u) \in 1 .. Len(v) /\ w[l] = v[l - Len(u)]
      BY <1>2, <2>1
    <3>2. w[l][1] = w[k][1] + ((l - Len(u)) - (k - Len(u)))
      BY <2>1, <3>1 DEF Placed, InOrder
    <3>3. (l - Len(u)) - (k - Len(u)) = l - k
      BY <1>1
    <3> QED
      BY <3>2, <3>3
  <2>2. ASSUME NEW k \in 1 .. Len(w), Kind(w[k]) = "lfn"
        PROVE  k + 1 \in 1 .. Len(w) /\ IsNew(w[k + 1])
    <3>1. k - Len(u) \in 1 .. Len(v) /\ w[k] = v[k - Len(u)]
      BY <1>2, <2>2 DEF IsNew
    <3>2. (k - Len(u)) + 1 \in 1 .. Len(v) /\ IsNew(v[(k - Len(u)) + 1])
      BY <2>2, <3>1 DEF Placed, InOrder
    <3>3. Len(u) + ((k - Len(u)) + 1) = k + 1
      BY <1>1
    <3>4. w[k + 1] = v[(k - Len(u)) + 1] /\ k + 1 \in 1 .. Len(w)
      BY <1>1, <3>2, <3>3
    <3> QED
      BY <3>2, <3>4
  <2> QED
    BY <2>1, <2>2 DEF InOrder
<1>4. OnUnused(w, t)
  <2> SUFFICES ASSUME NEW k \in 1 .. Len(w), IsNew(w[k]) PROVE Unused(t, w[k][1])
    BY DEF OnUnused
  <2>1. k - Len(u) \in 1 .. Len(v) /\ w[k] = v[k - Len(u)]
    BY <1>2
  <2> QED
    BY <2>1 DEF Placed, OnUnused
<1>5. Behind(w, t)
  <2> SUFFICES ASSUME NEW k \in 1 .. Len(w), IsWrite(w[k]), NEW i \in 1 .. w[k][1] - 1, ~ Solid(t, i)
               PROVE  \E l \in 1 .. k - 1 : IsNew(w[l]) /\ w[l][1] = i
    BY DEF Behind
  <2>1. k - Len(u) \in 1 .. Len(v) /\ w[k] = v[k - Len(u)]
    BY <1>2
  <2>2. PICK l \in 1 .. (k - Len(u)) - 1 : IsNew(v[l]) /\ v[l][1] = i
    BY <2>1 DEF Placed, Behind
  <2>3. l \in 1 .. Len(v) /\ Len(u) + l \in 1 .. k - 1
    BY <1>1, <2>1
  <2>4. w[Len(u) + l] = v[l]
    BY <1>1, <2>3
  <2> QED
    BY <2>2, <2>3, <2>4
<1>6. Promised(w, t, T, a)
  <2> SUFFICES ASSUME NEW k \in 1 .. Len(w), Kind(w[k]) = "sfn"
               PROVE  /\ w[k][2].file \in File
                      /\ a \in Sfn => a = w[k][2].sfn
                      /\ Leads(t, T, w[k][2].sfn, w[k][2].file)
                      /\ Leads(t, T, a, w[k][2].file)
    BY DEF Promised
  <2>1. k - Len(u) \in 1 .. Len(v) /\ w[k] = v[k - Len(u)]
    BY <1>2
  <2> QED
    BY <2>1 DEF Promised
<1> QED
  BY <1>3, <1>4, <1>5, <1>6 DEF Placed, w

\* The steps that remove entry i of the table write to what is in use.
Removing(v, t) ==
  \A k \in 1 .. Len(v) :
    /\ Kind(v[k]) \in {"deleted", "sync"}
    /\ Kind(v[k]) = "deleted" => \A i \in 1 .. v[k][1] - 1 : Solid(t, i)

LEMMA RemovingPlaced ==
  ASSUME NEW v \in Seq(Steps), NEW t, Removing(v, t), NEW T, NEW a
  PROVE  Placed(v, t) /\ Promised(v, t, T, a)
<1>1. \A k \in 1 .. Len(v) : ~ IsNew(v[k]) /\ Kind(v[k]) # "sfn" /\ Kind(v[k]) # "lfn"
  BY DEF Removing, IsNew
<1>2. Behind(v, t)
  <2>1. \A k \in 1 .. Len(v) : IsWrite(v[k]) => Kind(v[k]) = "deleted"
    BY DEF Removing, IsWrite, Kind
  <2> QED
    BY <2>1 DEF Removing, Behind
<1>3. InOrder(v) /\ OnUnused(v, t) /\ Promised(v, t, T, a)
  BY <1>1 DEF InOrder, OnUnused, Promised
<1> QED
  BY <1>2, <1>3 DEF Placed

LEMMA RemoveSync ==
  ASSUME NEW t, Whole(t), NEW i, Live(t, i)
  PROVE  /\ dir_remove(t, i) \o Sync \in Seq(Steps)
         /\ Removing(dir_remove(t, i) \o Sync, t)
<1> DEFINE b == Block(t, i)
           r == dir_remove(t, i)
           w == r \o Sync
<1>1. t \in Seq(Entries) /\ i \in DOMAIN t /\ i \in Nat \ {0} /\ Solid(t, i)
  BY Kinds DEF Whole, Live, Solid, IsSfn
<1>2. b \in 1 .. i /\ r \in Seq(Steps)
  BY <1>1, BlockIs, RemoveIs
<1>3. r = [k \in 1 .. i - b + 1 |-> <<b + k - 1, Deleted>>]
  BY DEF dir_remove
<1> HIDE DEF b, r
<1>4. \A k \in 1 .. Len(r) : r[k] = <<b + k - 1, Deleted>> /\ b + k - 1 \in 1 .. i
  BY <1>1, <1>2, <1>3
<1>5. Sync \in Seq(Steps) /\ Len(Sync) = 1 /\ Sync[1] = <<0, [kind |-> "sync"]>>
  BY SyncIs DEF Sync
<1>6. /\ w \in Seq(Steps) /\ Len(w) = Len(r) + 1 /\ Len(r) \in Nat
      /\ \A k \in 1 .. Len(r) : w[k] = r[k]
      /\ w[Len(r) + 1] = <<0, [kind |-> "sync"]>>
  <2>1. /\ w \in Seq(Steps) /\ Len(w) = Len(r) + Len(Sync) /\ Len(r) \in Nat
        /\ \A k \in 1 .. Len(r) : w[k] = r[k]
        /\ \A k \in 1 .. Len(Sync) : w[Len(r) + k] = Sync[k]
    BY <1>2, <1>5, Joined
  <2> HIDE DEF w
  <2>2. 1 \in 1 .. Len(Sync)
    BY <1>5
  <2> QED
    BY <1>5, <2>1, <2>2
<1> HIDE DEF w
<1>7. ASSUME NEW k \in 1 .. Len(w)
      PROVE  /\ Kind(w[k]) \in {"deleted", "sync"}
             /\ Kind(w[k]) = "deleted" => \A j \in 1 .. w[k][1] - 1 : Solid(t, j)
  <2>1. CASE k \in 1 .. Len(r)
    <3>1. w[k] = <<b + k - 1, Deleted>> /\ b + k - 1 \in 1 .. i
      BY <1>4, <1>6, <2>1
    <3>2. w[k][1] = b + k - 1 /\ Kind(w[k]) = "deleted"
      BY <3>1, Kinds DEF Kind
    <3>3. \A j \in 1 .. w[k][1] - 1 : j \in 1 .. i
      BY <1>1, <3>1, <3>2
    <3>4. \A j \in 1 .. i : Solid(t, j)
      BY <1>1, LiveBeforeEnd
    <3> QED
      BY <3>2, <3>3, <3>4
  <2>2. CASE k \notin 1 .. Len(r)
    <3>1. k = Len(r) + 1
      BY <1>6, <2>2
    <3> QED
      BY <1>6, <3>1, Kinds
  <2> QED
    BY <2>1, <2>2
<1> QED
  BY <1>6, <1>7 DEF Removing, w, r

\* The writes of p parts and of entry e, from slot b on.
FromOn(u, b, p, e) ==
  /\ u \in Seq(Steps) /\ Len(u) = p + 1 /\ u[p + 1][2] = e
  /\ \A k \in 1 .. p + 1 :
       u[k][1] = b + k - 1 /\ Kind(u[k]) = IF k = p + 1 THEN "sfn" ELSE "lfn"

\* The entries of a name, and what is to be removed behind them.
LEMMA EntriesPlaced ==
  ASSUME NEW t, Whole(t), NEW T, NEW a, NEW p \in Nat, NEW b \in Nat \ {0},
         \A x \in b .. b + p : Unused(t, x), \A i \in 1 .. b - 1 : Solid(t, i),
         NEW s, NEW f \in File, Leads(t, T, s, f), Leads(t, T, a, f), a \in Sfn => a = s,
         NEW u, FromOn(u, b, p, SfnEntry(s, f)), NEW v \in Seq(Steps), Removing(v, t)
  PROVE  /\ u \o v \in Seq(Steps) /\ Placed(u \o v, t) /\ Promised(u \o v, t, T, a)
         /\ \A k \in 1 .. Len(u \o v) :
              /\ Kind((u \o v)[k]) \notin {"link", "flush", "clear"}
              /\ IsNew((u \o v)[k]) => (u \o v)[k][1] \in 1 .. b + p
<1> USE DEF FromOn
<1> DEFINE w == u \o v
<1>1. /\ w \in Seq(Steps) /\ Len(w) = (p + 1) + Len(v) /\ Len(v) \in Nat
      /\ \A k \in 1 .. p + 1 : w[k] = u[k]
      /\ \A k \in 1 .. Len(v) : w[(p + 1) + k] = v[k]
  <2>1. /\ w \in Seq(Steps) /\ Len(w) = Len(u) + Len(v) /\ Len(v) \in Nat
        /\ \A k \in 1 .. Len(u) : w[k] = u[k]
        /\ \A k \in 1 .. Len(v) : w[Len(u) + k] = v[k]
    BY Joined
  <2> HIDE DEF w
  <2> QED
    BY <2>1
<1> HIDE DEF w
<1>2. \A k \in 1 .. p + 1 :
        w[k][1] = b + k - 1 /\ Kind(w[k]) = IF k = p + 1 THEN "sfn" ELSE "lfn"
  BY <1>1
<1>3. ASSUME NEW k \in 1 .. Len(w), k \notin 1 .. p + 1
      PROVE  /\ Kind(w[k]) \in {"deleted", "sync"}
             /\ Kind(w[k]) = "deleted" => \A i \in 1 .. w[k][1] - 1 : Solid(t, i)
  <2>1. k - (p + 1) \in 1 .. Len(v) /\ (p + 1) + (k - (p + 1)) = k
    BY <1>1, <1>3
  <2>2. w[k] = v[k - (p + 1)]
    BY <1>1, <2>1
  <2> QED
    BY <2>1, <2>2 DEF Removing
<1>4. \A k \in 1 .. Len(w) : IsNew(w[k]) <=> k \in 1 .. p + 1
  <2> SUFFICES ASSUME NEW k \in 1 .. Len(w) PROVE IsNew(w[k]) <=> k \in 1 .. p + 1
    OBVIOUS
  <2>1. CASE k \in 1 .. p + 1
    BY <1>2, <2>1 DEF IsNew
  <2>2. CASE k \notin 1 .. p + 1
    BY <1>3, <2>2 DEF IsNew
  <2> QED
    BY <2>1, <2>2
<1>5. \A k \in 1 .. p + 1 : k \in 1 .. Len(w)
  BY <1>1
<1>6. InOrder(w)
  <2>1. ASSUME NEW k \in 1 .. Len(w), NEW l \in 1 .. Len(w), IsNew(w[k]), IsNew(w[l])
        PROVE  w[l][1] = w[k][1] + (l - k)
    <3>1. k \in 1 .. p + 1 /\ l \in 1 .. p + 1
      BY <1>4, <2>1
    <3>2. w[k][1] = b + k - 1 /\ w[l][1] = b + l - 1
      BY <1>2, <3>1
    <3> QED
      BY <3>1, <3>2
  <2>2. ASSUME NEW k \in 1 .. Len(w), Kind(w[k]) = "lfn"
        PROVE  k + 1 \in 1 .. Len(w) /\ IsNew(w[k + 1])
    <3>1. k \in 1 .. p + 1 /\ k # p + 1
      BY <1>2, <1>4, <2>2 DEF IsNew
    <3>2. k + 1 \in 1 .. p + 1
      BY <3>1
    <3> QED
      BY <1>4, <1>5, <3>2
  <2> QED
    BY <2>1, <2>2 DEF InOrder
<1>7. OnUnused(w, t)
  <2> SUFFICES ASSUME NEW k \in 1 .. Len(w), IsNew(w[k]) PROVE Unused(t, w[k][1])
    BY DEF OnUnused
  <2>1. k \in 1 .. p + 1 /\ w[k][1] = b + k - 1
    BY <1>2, <1>4
  <2>2. b + k - 1 \in b .. b + p
    BY <2>1
  <2> QED
    BY <2>1, <2>2
<1>8. Behind(w, t)
  <2> SUFFICES ASSUME NEW k \in 1 .. Len(w), IsWrite(w[k]), NEW i \in 1 .. w[k][1] - 1, ~ Solid(t, i)
               PROVE  \E l \in 1 .. k - 1 : IsNew(w[l]) /\ w[l][1] = i
    BY DEF Behind
  <2>1. k \in 1 .. p + 1
    <3> SUFFICES ASSUME k \notin 1 .. p + 1 PROVE FALSE
      OBVIOUS
    <3>1. Kind(w[k]) = "deleted"
      BY <1>3 DEF IsWrite, Kind
    <3> QED
      BY <1>3, <3>1
  <2>2. i \in Nat /\ i >= b /\ i < b + k - 1
    <3>1. i \in 1 .. (b + k - 1) - 1
      BY <1>2, <2>1
    <3>2. i \notin 1 .. b - 1
      OBVIOUS
    <3> QED
      BY <2>1, <3>1, <3>2
  <2>3. (i - b) + 1 \in 1 .. k - 1 /\ (i - b) + 1 \in 1 .. p + 1 /\ b + ((i - b) + 1) - 1 = i
    BY <2>1, <2>2
  <2>4. w[(i - b) + 1][1] = i /\ IsNew(w[(i - b) + 1])
    BY <1>2, <1>4, <1>5, <2>3
  <2> QED
    BY <2>3, <2>4
<1>9. Promised(w, t, T, a)
  <2> SUFFICES ASSUME NEW k \in 1 .. Len(w), Kind(w[k]) = "sfn"
               PROVE  /\ w[k][2].file \in File
                      /\ a \in Sfn => a = w[k][2].sfn
                      /\ Leads(t, T, w[k][2].sfn, w[k][2].file)
                      /\ Leads(t, T, a, w[k][2].file)
    BY DEF Promised
  <2>1. k \in 1 .. p + 1
    BY <1>3
  <2>2. k = p + 1
    BY <1>2, <2>1
  <2>3. w[k][2] = SfnEntry(s, f)
    BY <1>1, <2>1, <2>2
  <2>4. w[k][2].sfn = s /\ w[k][2].file = f
    BY <2>3 DEF SfnEntry
  <2> QED
    BY <2>4
<1>10. ASSUME NEW k \in 1 .. Len(w)
       PROVE  /\ Kind(w[k]) \notin {"link", "flush", "clear"}
              /\ IsNew(w[k]) => w[k][1] \in 1 .. b + p
  <2>1. CASE k \in 1 .. p + 1
    <3>0. w[k][1] = b + k - 1 /\ Kind(w[k]) = IF k = p + 1 THEN "sfn" ELSE "lfn"
      BY <1>2, <2>1
    <3>1. w[k][1] = b + k - 1 /\ Kind(w[k]) \in {"sfn", "lfn"}
      BY <3>0
    <3>2. k \in Nat /\ k >= 1 /\ k <= p + 1
      BY <2>1
    <3>3. b + k - 1 \in 1 .. b + p
      BY <3>2
    <3> QED
      BY <3>1, <3>3
  <2>2. CASE k \notin 1 .. p + 1
    BY <1>3, <1>4, <2>2
  <2> QED
    BY <2>1, <2>2
<1> QED
  BY <1>1, <1>6, <1>7, <1>8, <1>9, <1>10 DEF Placed, w

\* A file gets a name: the steps are those that stretch the table, those of
\* EntriesPlaced and those that remove its other name.
LEMMA RegisterBegins ==
  ASSUME NEW t, Whole(t), Clusters(t), NEW T, Own(t, T), Apart(t, T),
         NEW n \in Typed, NEW f \in File,
         dir_find(t, Text(n)) = NoSlot \/ t[dir_find(t, Text(n))].file = f,
         NEW w \in dir_register(t, n, f), NEW v \in Seq(Steps), Removing(v, t)
  PROVE  /\ w \in Seq(Steps) /\ Stretching(w \o v, t)
         /\ Placed(w \o v, t) /\ Promised(w \o v, t, T, Text(n))
<1> DEFINE p == LfnParts(n)
           b == dir_alloc(t, p + 1)
           u == Stretch(t, b + p)
           E(s, k) == IF k = p + 1 THEN SfnEntry(s, f) ELSE LfnEntry(n, p + 1 - k, Sum[s])
           V(s) == [k \in 1 .. p + 1 |-> <<b + k - 1, E(s, k)>>]
           a == Text(n)
<1>1. p \in Nat /\ (p # 0 => n \in Long) /\ t \in Seq(Entries) /\ Len(t) \in Nat \ {0}
  <2>1. p \in Nat /\ (p # 0 => n \in Long)
    BY NameAssumption DEF LfnParts
  <2>2. t \in Seq(Entries)
    BY DEF Whole
  <2>3. Len(t) # 0
    <3>1. PICK c \in Nat \ {0} : Len(t) = PerSector * (PerCluster * c)
      BY DEF Clusters
    <3>2. PerCluster * c \in Nat \ {0}
      BY Sizes
    <3> DEFINE z == PerCluster * c
    <3> HIDE DEF z
    <3>3. z \in Nat \ {0} /\ Len(t) = PerSector * z
      BY <3>1, <3>2 DEF z
    <3> QED
      BY <3>3, Sizes
  <2> QED
    BY <2>1, <2>2, <2>3
<1>2. b # NoSlot /\ \E s \in ShortNames(t, n) : w = u \o V(s)
  BY DEF dir_register
<1>3. PICK s \in ShortNames(t, n) : w = u \o V(s)
  BY <1>2
<1>4. Leads(t, T, a, f)
  BY FindLeads
<1>5. Leads(t, T, s, f) /\ s \in Sfn /\ (a \in Sfn => a = s)
  BY <1>4, ShortLeads
<1>6. /\ b \in Nat \ {0} /\ \A x \in b .. b + p : Unused(t, x)
      /\ \A i \in 1 .. b - 1 : Solid(t, i)
  <2>1. p + 1 \in Nat \ {0}
    BY <1>1
  <2> HIDE DEF p
  <2>2. /\ b \in Nat \ {0} /\ \A x \in b .. b + (p + 1) - 1 : Unused(t, x)
        /\ \A i \in 1 .. b - 1 : Solid(t, i)
    BY <1>2, <2>1, AllocFirst
  <2>3. b + (p + 1) - 1 = b + p
    BY <1>1, <2>2
  <2> QED
    BY <2>2, <2>3
<1> DEFINE e == V(s)
<1>7. \A k \in 1 .. p + 1 :
        /\ e[k] = <<b + k - 1, E(s, k)>> /\ e[k] \in Steps
        /\ Kind(e[k]) = IF k = p + 1 THEN "sfn" ELSE "lfn"
        /\ k = p + 1 => e[k][2] = SfnEntry(s, f)
  <2> HIDE DEF p, b
  <2> SUFFICES ASSUME NEW k \in 1 .. p + 1
               PROVE  /\ e[k] = <<b + k - 1, E(s, k)>> /\ e[k] \in Steps
                      /\ Kind(e[k]) = IF k = p + 1 THEN "sfn" ELSE "lfn"
                      /\ k = p + 1 => e[k][2] = SfnEntry(s, f)
    OBVIOUS
  <2>1. e[k] = <<b + k - 1, E(s, k)>>
    OBVIOUS
  <2>2. b + k - 1 \in Nat
    BY <1>1, <1>6
  <2>3. CASE k = p + 1
    <3>1. E(s, k) = SfnEntry(s, f) /\ SfnEntry(s, f) \in SfnEntries
      BY <1>5, <2>3 DEF SfnEntries
    <3> HIDE DEF E, e
    <3>2. e[k] \in Steps
      BY <2>1, <2>2, <3>1 DEF Steps
    <3> QED
      BY <2>1, <2>3, <3>1, <3>2, Kinds DEF Kind
  <2>4. CASE k # p + 1
    <3>1. n \in Long /\ p + 1 - k \in Nat
      BY <1>1, <2>4
    <3>2. E(s, k) = LfnEntry(n, p + 1 - k, Sum[s]) /\ LfnEntry(n, p + 1 - k, Sum[s]) \in LfnEntries
      BY <1>5, <2>4, <3>1 DEF LfnEntries
    <3> HIDE DEF E, e
    <3>3. e[k] \in Steps
      BY <2>1, <2>2, <3>2 DEF Steps
    <3> QED
      BY <2>1, <2>4, <3>2, <3>3, Kinds DEF Kind
  <2> QED
    BY <2>3, <2>4
<1>8. e \in Seq(Steps) /\ Len(e) = p + 1
  <2>1. e = [k \in 1 .. p + 1 |-> e[k]] /\ p + 1 \in Nat
    BY <1>1
  <2> HIDE DEF e, p
  <2> QED
    BY <1>7, <2>1
<1>9. b + p \in Nat /\ p + 1 \in 1 .. p + 1
  BY <1>1, <1>6
<1>10. /\ u \in Seq(Steps)
       /\ \A k \in 1 .. Len(u) : Kind(u[k]) \in {"link", "flush", "clear"}
  <2> HIDE DEF b, p
  <2> QED
    BY <1>1, <1>9, StretchIs
<1>11. w = u \o e
  BY <1>3
<1>12. \A k \in 1 .. p + 1 :
         e[k][1] = b + k - 1 /\ Kind(e[k]) = IF k = p + 1 THEN "sfn" ELSE "lfn"
  <2> HIDE DEF e, p, b, E
  <2> QED
    BY <1>7
<1>13. e[p + 1][2] = SfnEntry(s, f)
  BY <1>7, <1>9
<1> HIDE DEF e, E, V, a, p, b
<1>14. /\ e \o v \in Seq(Steps) /\ Placed(e \o v, t) /\ Promised(e \o v, t, T, a)
       /\ \A k \in 1 .. Len(e \o v) :
            /\ Kind((e \o v)[k]) \notin {"link", "flush", "clear"}
            /\ IsNew((e \o v)[k]) => (e \o v)[k][1] \in 1 .. b + p
  <2>1. p \in Nat /\ b \in Nat \ {0} /\ FromOn(e, b, p, SfnEntry(s, f))
    BY <1>1, <1>6, <1>8, <1>12, <1>13 DEF FromOn
  <2> QED
    BY <1>4, <1>5, <1>6, <2>1, EntriesPlaced
<1> DEFINE m == e \o v
           i == b + p
<1> HIDE DEF m
<1>15. /\ m \in Seq(Steps) /\ Placed(m, t) /\ Promised(m, t, T, a)
       /\ \A k \in 1 .. Len(m) :
            /\ Kind(m[k]) \notin {"link", "flush", "clear"}
            /\ IsNew(m[k]) => m[k][1] \in 1 .. i
  BY <1>14 DEF m
<1>16. Stretching(u \o m, t)
  <2> HIDE DEF i
  <2>1. i \in Nat
    BY <1>9 DEF i
  <2>2. Stretching(Stretch(t, i) \o m, t)
    BY <1>15, <2>1, StretchingBegun
  <2> QED
    BY <2>2 DEF i
<1> HIDE DEF u
<1>17. Placed(u \o m, t) /\ Promised(u \o m, t, T, a)
  BY <1>10, <1>15, PlacedBehind
<1>18. w \o v = u \o m /\ w \in Seq(Steps)
  <2>1. (u \o e) \o v = u \o (e \o v)
    BY <1>8, <1>10, Chained
  <2>2. u \o e \in Seq(Steps)
    BY <1>8, <1>10, Joined
  <2> QED
    BY <1>11, <2>1, <2>2 DEF m
<1> QED
  BY <1>16, <1>17, <1>18 DEF a

\* A call begins: between calls the table holds no old entries.
LEMMA BetweenCalls ==
  ASSUME Inv, Listing, todo = <<>>
  PROVE  Whole(table) /\ Clusters(table) /\ Own(table, taken) /\ Apart(table, taken)
<1>1. \A i \in DOMAIN table : table[i] # Old
  BY NoOld
<1>2. table \in Seq(Entries)
  BY InvMeans
<1> QED
  BY <1>1, <1>2 DEF Listing, Sound, Whole

LEMMA CallLists ==
  ASSUME Inv, Listing, todo = <<>>, table' = table, taken' = taken, Looked,
         Stretching(todo', table), Placed(todo', table), Promised(todo', table, taken, asked')
  PROVE  Listing'
<1>1. disk' \in {disk, table} /\ (disk' # table => disk' = disk /\ dirty' = dirty /\ sect' = sect)
  BY DEF Looked
<1>2. Sound(table', taken') /\ Sound(disk', taken')
  BY <1>1 DEF Listing
<1>3. Leftover'
  <2> SUFFICES ASSUME NEW i \in DOMAIN disk', disk'[i] = Old PROVE dirty' /\ sect' = Sector(i)
    BY DEF Leftover
  <2>1. \A j \in DOMAIN table : table[j] # Old
    BY NoOld
  <2>2. disk' = disk /\ dirty' = dirty /\ sect' = sect
    BY <1>1, <2>1
  <2> QED
    BY <2>2 DEF Listing, Leftover
<1> QED
  BY <1>2, <1>3 DEF Listing

LEMMA OpenLists ==
  ASSUME Inv, Listing, todo = <<>>, NEW n \in Typed, NEW f \in File, f_open(n, f)
  PROVE  Listing'
<1>1. PICK w \in dir_register(table, n, f) : Begin(Text(n), w) /\ Scanned({End(table)}, Last(w)[1])
  BY DEF f_open
<1>2. dir_find(table, Text(n)) = NoSlot
  BY DEF f_open, Creatable
<1>3. Last(w)[1] \in Nat \ {0} /\ w \in Seq(Steps)
  BY LastIs
<1>4. Looked
  BY <1>1, <1>3, ScannedIs
<1>5. <<>> \in Seq(Steps) /\ Removing(<<>>, table)
  BY DEF Removing
<1>6. todo' = w \o <<>> /\ table' = table /\ taken' = taken /\ asked' = Text(n)
  BY <1>1, <1>3, Chained DEF Begin
<1>7. Stretching(w \o <<>>, table) /\ Placed(w \o <<>>, table) /\ Promised(w \o <<>>, table, taken, Text(n))
  BY <1>2, <1>5, BetweenCalls, RegisterBegins
<1> QED
  BY <1>4, <1>6, <1>7, CallLists

LEMMA MkdirLists ==
  ASSUME Inv, Listing, todo = <<>>, NEW n \in Typed, NEW f \in File, f_mkdir(n, f)
  PROVE  Listing'
<1>1. PICK w \in dir_register(table, n, f) :
        /\ Begin(Text(n), w \o Sync)
        /\ disk' = Stored /\ dirty' = FALSE /\ sect' = Sector(Min({Last(w)[1], Len(table)}))
  BY DEF f_mkdir
<1>2. dir_find(table, Text(n)) = NoSlot
  BY DEF f_mkdir, Creatable
<1>3. Last(w)[1] \in Nat \ {0}
  BY LastIs
<1>4. Looked
  BY <1>1, <1>3, StoredIs
<1>5. Sync \in Seq(Steps) /\ Removing(Sync, table)
  <2>1. Len(Sync) = 1 /\ Sync[1] = <<0, [kind |-> "sync"]>>
    BY SyncIs DEF Sync
  <2>2. \A k \in 1 .. Len(Sync) : Kind(Sync[k]) = "sync"
    BY <2>1, Kinds
  <2> QED
    BY <2>2, SyncIs DEF Removing
<1>6. todo' = w \o Sync /\ table' = table /\ taken' = taken /\ asked' = Text(n)
  BY <1>1 DEF Begin
<1>7. Stretching(w \o Sync, table) /\ Placed(w \o Sync, table) /\ Promised(w \o Sync, table, taken, Text(n))
  BY <1>2, <1>5, BetweenCalls, RegisterBegins
<1> QED
  BY <1>4, <1>6, <1>7, CallLists

LEMMA DeniedLists ==
  ASSUME Inv, Listing, todo = <<>>, NEW n \in Typed, dir_register_denied(n)
  PROVE  Listing'
<1> DEFINE u == Stretch(table, Slots)
<1>1. todo' = u /\ table' = table /\ taken' = taken /\ Scanned({}, Slots)
  BY DEF dir_register_denied, Begin
<1>2. Slots \in Nat \ {0} /\ table \in Seq(Entries) /\ Len(table) > 0
  BY Sizes, InvMeans DEF Inv, TypeOK
<1>3. Looked
  BY <1>1, <1>2, ScannedIs
<1>4. u \in Seq(Steps) /\ \A k \in 1 .. Len(u) : Kind(u[k]) \in {"link", "flush", "clear"}
  BY <1>2, StretchIs
<1>5. <<>> \in Seq(Steps) /\ Len(<<>>) = 0 /\ \A k \in 1 .. 0 : FALSE
  OBVIOUS
<1>6. Stretching(u \o <<>>, table)
  BY <1>2, <1>5, BetweenCalls, StretchingBegun
<1> HIDE DEF u
<1>7. Placed(u \o <<>>, table) /\ Promised(u \o <<>>, table, taken, asked')
  BY <1>4, <1>5, NothingLeft, PlacedBehind
<1>8. u \o <<>> = u
  BY <1>4, Chained
<1> QED
  BY <1>1, <1>3, <1>6, <1>7, <1>8, CallLists

LEMMA UnlinkLists ==
  ASSUME Inv, Listing, todo = <<>>, NEW n, f_unlink(n)
  PROVE  Listing'
<1> DEFINE i == dir_find(table, n)
           w == dir_remove(table, i) \o Sync
<1>1. i # NoSlot /\ todo' = w /\ table' = table /\ taken' = taken /\ Scanned({}, i)
  BY DEF f_unlink, Begin
<1>2. Live(table, i)
  BY <1>1, BetweenCalls, FindIs
<1>3. i \in Nat \ {0}
  BY <1>2, InvMeans DEF Live
<1> HIDE DEF i
<1>4. w \in Seq(Steps) /\ Removing(w, table)
  BY <1>2, BetweenCalls, RemoveSync
<1> HIDE DEF w
<1>5. Looked
  BY <1>1, <1>3, ScannedIs
<1>6. Placed(w, table) /\ Promised(w, table, taken, asked')
  BY <1>4, RemovingPlaced
<1>7. Stretching(w, table)
  <2>1. PICK s \in Nat : Filled(table, s, 0)
    BY NoOld
  <2>2. Left(w, s, 0, 0)
    <3>1. (PerCluster + 2) * 0 - 0 = 0 /\ Len(w) \in Nat
      BY <1>4, Sizes
    <3>2. \A k \in 1 .. Len(w) : Kind(w[k]) \notin {"link", "flush", "clear"} /\ ~ IsNew(w[k])
      BY <1>4 DEF Removing, IsNew
    <3>3. \A k \in 1 .. 0 : FALSE
      OBVIOUS
    <3> QED
      BY <3>1, <3>2, <3>3 DEF Left
  <2> QED
    BY <2>1, <2>2, Sizes DEF Stretching
<1> QED
  BY <1>1, <1>5, <1>6, <1>7, CallLists

LEMMA RenameLists ==
  ASSUME Inv, Listing, todo = <<>>, NEW o, NEW n \in Typed, f_rename(o, n)
  PROVE  Listing'
<1> DEFINE i == dir_find(table, o)
           j == dir_find(table, Text(n))
           f == table[i].file
           r == dir_remove(table, i)
           S == {i} \cup IF j = i /\ n \notin Lossy THEN {} ELSE {End(table)}
           v == r \o Sync
<1>1. i # NoSlot /\ j \in {NoSlot, i}
  BY DEF f_rename
<1>2. PICK w \in dir_register(table, n, f) :
        Begin(Text(n), Order(w, r) \o Sync) /\ Scanned(S, Last(w)[1])
  BY DEF f_rename
<1>3. Live(table, i) /\ table \in Seq(Entries)
  BY <1>1, InvMeans, BetweenCalls, FindIs
<1>4. f \in File
  BY <1>3, BetweenCalls DEF Own
<1>5. v \in Seq(Steps) /\ Removing(v, table)
  BY <1>3, BetweenCalls, RemoveSync
<1>6. j = NoSlot \/ table[j].file = f
  BY <1>1
<1>7. r \in Seq(Steps)
  BY <1>3, RemoveIs DEF Live
<1> HIDE DEF i, S, f, r
<1>8. Last(w)[1] \in Nat \ {0} /\ w \in Seq(Steps)
  BY <1>4, LastIs
<1>9. Looked
  BY <1>2, <1>8, ScannedIs
<1>10. todo' = w \o v /\ table' = table /\ taken' = taken /\ asked' = Text(n)
  BY <1>2, <1>7, <1>8, SyncIs, Chained DEF Begin, Order
<1> HIDE DEF v
<1>11. Stretching(w \o v, table) /\ Placed(w \o v, table) /\ Promised(w \o v, table, taken, Text(n))
  BY <1>4, <1>5, <1>6, BetweenCalls, RegisterBegins
<1> QED
  BY <1>9, <1>10, <1>11, CallLists

----------------------------------------------------------------------------
(* The invariant, and what dir_read lists.                                 *)

LEMMA InitListing ==
  ASSUME Init PROVE Listing
<1> DEFINE n == PerSector * PerCluster
<1>1. /\ table = [i \in 1 .. n |-> Blank] /\ disk = table /\ todo = <<>>
  BY DEF Init
<1>2. n \in Nat \ {0} /\ PerCluster \in Nat \ {0} /\ PerSector \in Nat \ {0}
  BY Sizes
<1>3. Clusters(table)
  <2>1. PerCluster * 1 = PerCluster /\ Len(table) = n
    BY <1>1, <1>2
  <2>2. Len(table) = PerSector * (PerCluster * 1)
    BY <2>1
  <2> QED
    BY <2>2 DEF Clusters
<1> HIDE DEF n
<1>4. table \in Seq(Entries) /\ DOMAIN table = 1 .. n /\ \A i \in 1 .. n : table[i] = Blank
  BY <1>1, <1>2, EntryKinds
<1>5. \A i \in DOMAIN table : table[i].kind = "free" /\ table[i] # Old
  BY <1>4, Kinds
<1>6. \A i : ~ Live(table, i)
  BY <1>5 DEF Live, IsSfn
<1>7. Sound(table, taken)
  BY <1>3, <1>5, <1>6 DEF Sound, Own, Apart, Packed
<1>8. PICK s \in Nat : Filled(table, s, 0)
  BY <1>3, <1>4, <1>5, FilledWhole
<1>9. Stretching(todo, table)
  BY <1>1, <1>8, LeftNone, Sizes DEF Stretching
<1>10. Placed(todo, table) /\ Promised(todo, table, taken, asked)
  BY <1>1, NothingLeft
<1>11. Leftover
  BY <1>1, <1>5 DEF Leftover
<1> QED
  BY <1>1, <1>7, <1>9, <1>10, <1>11 DEF Listing

LEMMA StutterLists ==
  ASSUME Listing, UNCHANGED vars
  PROVE  Listing'
<1>1. /\ table' = table /\ disk' = disk /\ sect' = sect /\ dirty' = dirty /\ todo' = todo
      /\ taken' = taken /\ asked' = asked
  BY DEF vars
<1>2. Leftover'
  BY <1>1 DEF Listing, Leftover
<1> QED
  BY <1>1, <1>2 DEF Listing

\* A cluster that was not cleared stays so.
LEMMA NextLists ==
  ASSUME Inv, ~ bare => Listing, [Next]_vars, ~ bare'
  PROVE  Listing'
<1>1. CASE Call
  <2>1. todo = <<>> /\ bare' = bare
    BY <1>1 DEF Call, f_open, f_mkdir, f_unlink, f_rename, dir_register_denied, Begin
  <2>2. Listing
    BY <2>1
  <2>3. CASE \E n \in Typed, f \in File : f_open(n, f) \/ f_mkdir(n, f)
    BY <2>1, <2>2, <2>3, OpenLists, MkdirLists
  <2>4. CASE \E n \in Name : f_unlink(n)
    BY <2>1, <2>2, <2>4, UnlinkLists
  <2>5. CASE \E o \in Name, n \in Typed : f_rename(o, n)
    BY <2>1, <2>2, <2>5, RenameLists
  <2>6. CASE \E n \in Typed : dir_register_denied(n)
    BY <2>1, <2>2, <2>6, DeniedLists
  <2> QED
    BY <1>1, <2>3, <2>4, <2>5, <2>6 DEF Call
<1>2. CASE dir_next
  <2>1. Listing
    BY <1>2 DEF dir_next, dir_next_link, dir_next_flush, dir_next_clear
  <2> QED
    BY <1>2, <2>1, LinkLists, FlushLists, ClearLists DEF dir_next
<1>3. CASE write_entry \/ sync_fs \/ f_sync
  <2>1. Listing
    BY <1>3 DEF write_entry, sync_fs, f_sync
  <2> QED
    BY <1>3, <2>1, WriteLists, SyncFsLists, SyncLists
<1>4. CASE write_error \/ clear_error \/ PowerLoss
  <2>1. Listing
    BY <1>4 DEF write_error, clear_error, PowerLoss
  <2> QED
    BY <1>4, <2>1, WriteErrorLists, ClearErrorLists, PowerLossLists
<1>5. CASE UNCHANGED vars
  <2>1. Listing
    BY <1>5 DEF vars
  <2> QED
    BY <1>5, <2>1, StutterLists
<1> QED
  BY <1>1, <1>2, <1>3, <1>4, <1>5 DEF Next

LEMMA ListingFound ==
  ASSUME Inv, ~ bare => Listing
  PROVE  ListedIsFound
<1> SUFFICES ASSUME todo = <<>>, ~ bare, NEW e \in dir_read(table)
             PROVE  /\ table[e[2]] # Old
                    /\ e[1] \in taken \/ FileOf(table, dir_find(table, e[1])) = table[e[2]].file
  BY DEF ListedIsFound
<1>1. Whole(table) /\ Apart(table, taken)
  BY BetweenCalls
<1>2. PICK i \in 1 .. End(table) - 1 : IsSfn(table, i) /\ e \in Listed(table, i) \X {i}
  BY DEF dir_read
<1>3. PICK n : n = e[1]
  OBVIOUS
<1>4. e[2] = i /\ n \in Listed(table, i)
  BY <1>2, <1>3
<1>5. Live(table, i)
  BY <1>1, <1>2, LiveBeforeEnd
<1>6. n \in Called(table, i)
  BY <1>4 DEF Listed, Called
<1> DEFINE d == dir_find(table, n)
<1>7. d # NoSlot /\ Live(table, d) /\ n \in Called(table, d)
  BY <1>1, <1>5, <1>6, FindIs
<1> HIDE DEF d
<1>8. n \in taken \/ table[d].file = table[i].file
  BY <1>1, <1>5, <1>6, <1>7 DEF Apart, Leads
<1>9. FileOf(table, d) = table[d].file
  BY <1>7 DEF FileOf
<1>10. table[i] # Old
  BY <1>5 DEF Live
<1> QED
  BY <1>3, <1>4, <1>8, <1>9, <1>10 DEF d

\* Of the names in the table and of those on the disk none leads to two files,
\* however often a call is cut short: but for those that a new short name took
\* over with parts that were left, and while no cluster stayed uncleared.
THEOREM NamesStayApart == Spec => [](~ bare => Listing)
<1>1. Init => (~ bare => Listing)
  BY InitListing
<1>2. Inv /\ (~ bare => Listing) /\ [Next]_vars => (~ bare => Listing)'
  BY NextLists
<1> QED
  BY <1>1, <1>2, WindowInvariant, PTL DEF Spec

\* dir_find, which compares short names and sums, and dir_read, which collects
\* the long ones, agree on every table that the calls and the failures of a
\* directory can leave: what f_readdir lists is found under the name it gives.
THEOREM WhatIsListedIsFound == Spec => []ListedIsFound
<1>1. Inv /\ (~ bare => Listing) => ListedIsFound
  BY ListingFound
<1> QED
  BY <1>1, WindowInvariant, NamesStayApart, PTL

----------------------------------------------------------------------------
(* The names a program sees: those before the call in progress, of which   *)
(* only the file that the call is about has got or lost any by now.        *)

\* What leads to a file in t was a name of that file, if it was one at all.
Agrees(t, T, nm) ==
  \A j : Live(t, j) =>
    \A n \in Called(t, j) \cap Name : nm[n] \in {NoFile, t[j].file} \/ n \in T

\* The first entry of t that n leads to is one of file g, or of f.
Led(t, n, g, f) ==
  \E j : /\ Live(t, j) /\ n \in Called(t, j) /\ t[j].file = g
         /\ \A i : Live(t, i) /\ i < j /\ n \in Called(t, i) => t[i].file = f

\* But for names of f, those of t are nm.
Onward(t, T, nm, f) ==
  /\ Agrees(t, T, nm)
  /\ \A j : Live(t, j) => \A n \in Called(t, j) \cap Name : nm[n] = NoFile => t[j].file = f
  /\ \A n \in Name : nm[n] \notin {NoFile, f} => Led(t, n, nm[n], f)

\* The other files keep their names from t to u.
Keeps(t, u, f) ==
  \A i : Live(t, i) /\ t[i].file # f =>
    Live(u, i) /\ u[i] = t[i] /\ LongText(t, i) \subseteq LongText(u, i)

\* Names that are new in u are those of f, and free.
Brings(t, u, U, nm, f) ==
  \A i : Live(u, i) =>
    \/ Live(t, i) /\ u[i] = t[i] /\ LongText(u, i) \subseteq LongText(t, i)
    \/ u[i].file = f /\ \A n \in Called(u, i) \cap Name : nm[n] \in {NoFile, f} \/ n \in U

LEMMA OnwardStep ==
  ASSUME NEW t, NEW u, NEW T, NEW U, T \subseteq U, NEW nm, NEW f,
         Onward(t, T, nm, f), Keeps(t, u, f), Brings(t, u, U, nm, f)
  PROVE  Onward(u, U, nm, f)
<1>1. ASSUME NEW i, Live(u, i)
      PROVE  \/ Live(t, i) /\ u[i] = t[i] /\ Called(u, i) \subseteq Called(t, i)
             \/ u[i].file = f /\ \A n \in Called(u, i) \cap Name : nm[n] \in {NoFile, f} \/ n \in U
  BY <1>1 DEF Brings, Called
<1>2. ASSUME NEW j, Live(u, j), NEW n \in Called(u, j) \cap Name
      PROVE  (nm[n] \in {NoFile, u[j].file} \/ n \in U) /\ (nm[n] = NoFile => u[j].file = f)
  BY <1>1, <1>2 DEF Onward, Agrees
<1>3. ASSUME NEW n \in Name, nm[n] \notin {NoFile, f} PROVE Led(u, n, nm[n], f)
  <2>1. PICK j : /\ Live(t, j) /\ n \in Called(t, j) /\ t[j].file = nm[n]
                 /\ \A i : Live(t, i) /\ i < j /\ n \in Called(t, i) => t[i].file = f
    BY <1>3 DEF Onward, Led
  <2>2. Live(u, j) /\ u[j] = t[j] /\ n \in Called(u, j)
    BY <1>3, <2>1 DEF Keeps, Called
  <2>3. ASSUME NEW i, Live(u, i), i < j, n \in Called(u, i) PROVE u[i].file = f
    BY <1>1, <2>1, <2>3
  <2> QED
    BY <2>1, <2>2, <2>3 DEF Led
<1> QED
  BY <1>2, <1>3 DEF Onward, Agrees

LEMMA FewerBrings ==
  ASSUME NEW t, NEW u, NEW U, NEW nm, NEW f, Shrunk(t, u)
  PROVE  Brings(t, u, U, nm, f)
BY DEF Shrunk, Brings

LEMMA MoreKeeps ==
  ASSUME NEW t, NEW u, NEW f, Shrunk(u, t)
  PROVE  Keeps(t, u, f)
BY DEF Shrunk, Keeps

LEMMA FewerAgree ==
  ASSUME NEW t, NEW u, NEW T, NEW nm, Shrunk(t, u), Agrees(t, T, nm)
  PROVE  Agrees(u, T, nm)
<1>1. ASSUME NEW i, Live(u, i) PROVE Live(t, i) /\ u[i] = t[i] /\ Called(u, i) \subseteq Called(t, i)
  BY <1>1 DEF Shrunk, Called
<1> QED
  BY <1>1 DEF Agrees

LEMMA ShrunkTwice ==
  ASSUME NEW t, NEW u, NEW v, Shrunk(t, u), Shrunk(u, v)
  PROVE  Shrunk(t, v)
BY DEF Shrunk

\* No entry is of no file.
LEMMA OnwardAny ==
  ASSUME NEW t, NEW T, NEW nm, NEW f, Onward(t, T, nm, NoFile), Own(t, T)
  PROVE  Onward(t, T, nm, f)
<1>1. \A i : Live(t, i) => t[i].file # NoFile
  BY TableAssumption DEF Own
<1>2. ASSUME NEW n \in Name, nm[n] \notin {NoFile, f} PROVE Led(t, n, nm[n], f)
  BY <1>1, <1>2 DEF Onward, Led
<1> QED
  BY <1>1, <1>2 DEF Onward

\* dir_find returns the first entry.
LEMMA FindFirst ==
  ASSUME NEW t, Whole(t), NEW n, NEW i, Live(t, i), n \in Called(t, i)
  PROVE  dir_find(t, n) # NoSlot /\ dir_find(t, n) <= i
<1> DEFINE S == {j \in 1 .. End(t) - 1 : IsSfn(t, j) /\ Matches(t, j, n)}
           d == dir_find(t, n)
<1>1. i \in S /\ S \in SUBSET Nat /\ 0 \notin S
  BY LiveBeforeEnd, CalledMatches DEF Whole
<1>2. d = Least(S)
  BY DEF dir_find
<1> HIDE DEF S
<1>3. d \in S /\ \A j \in S : d <= j
  BY <1>1, <1>2, MinIs DEF Least
<1> QED
  BY <1>1, <1>3 DEF NoSlot

LEMMA NamesAre ==
  ASSUME NEW t, Whole(t), NEW n \in Name
  PROVE  \/ NamesOf(t)[n] = NoFile /\ \A i : Live(t, i) => n \notin Called(t, i)
         \/ \E d : /\ Live(t, d) /\ n \in Called(t, d) /\ NamesOf(t)[n] = t[d].file
                   /\ \A i : Live(t, i) /\ n \in Called(t, i) => d <= i
<1> DEFINE d == dir_find(t, n)
<1>1. NamesOf(t)[n] = FileOf(t, d)
  BY DEF NamesOf
<1>2. IF d = NoSlot THEN \A i : Live(t, i) => n \notin Called(t, i)
      ELSE Live(t, d) /\ n \in Called(t, d)
  BY FindIs
<1>3. \A i : Live(t, i) /\ n \in Called(t, i) => d <= i
  BY FindFirst
<1> HIDE DEF d
<1> QED
  BY <1>1, <1>2, <1>3 DEF FileOf

\* Between calls the names are those of the table.
LEMMA OnwardNames ==
  ASSUME NEW t, NEW T, Whole(t), Own(t, T), Apart(t, T)
  PROVE  Onward(t, T, NamesOf(t), NoFile)
<1> DEFINE nm == NamesOf(t)
<1>1. ASSUME NEW n \in Name
      PROVE  \/ nm[n] = NoFile /\ \A i : Live(t, i) => n \notin Called(t, i)
             \/ \E d : /\ Live(t, d) /\ n \in Called(t, d) /\ nm[n] = t[d].file
                       /\ \A i : Live(t, i) /\ n \in Called(t, i) => d <= i
  BY NamesAre
<1>2. \A i : Live(t, i) => t[i].file \in File /\ i \in Nat
  BY DEF Own, Live, Whole
<1> HIDE DEF nm
<1>3. ASSUME NEW j, Live(t, j), NEW n \in Called(t, j) \cap Name
      PROVE  (nm[n] \in {NoFile, t[j].file} \/ n \in T) /\ nm[n] # NoFile
  <2>1. PICK d : Live(t, d) /\ n \in Called(t, d) /\ nm[n] = t[d].file
    BY <1>1, <1>3
  <2>2. n \in T \/ t[j].file = t[d].file
    BY <1>3, <2>1 DEF Apart, Leads
  <2> QED
    BY <1>2, <2>1, <2>2, TableAssumption
<1>4. ASSUME NEW n \in Name, nm[n] # NoFile PROVE Led(t, n, nm[n], NoFile)
  <2>1. PICK d : /\ Live(t, d) /\ n \in Called(t, d) /\ nm[n] = t[d].file
                 /\ \A i : Live(t, i) /\ n \in Called(t, i) => d <= i
    BY <1>1, <1>4
  <2>2. \A i : ~ (Live(t, i) /\ i < d /\ n \in Called(t, i))
    BY <1>2, <2>1
  <2> QED
    BY <2>1, <2>2 DEF Led
<1> QED
  BY <1>3, <1>4 DEF Onward, Agrees, nm

\* What the names become when the call ends.
LEMMA OnwardIs ==
  ASSUME NEW t, NEW T, NEW nm, NEW f, Whole(t), Own(t, T), Onward(t, T, nm, f),
         NEW n \in Name, NEW m, m = NamesOf(t)[n]
  PROVE  /\ nm[n] = NoFile => m = NoFile \/ (m = f /\ m \in File)
         /\ nm[n] = f => m \in {NoFile, f} \/ n \in T
         /\ nm[n] \notin {NoFile, f} => m = nm[n] \/ (m = f /\ m \in File /\ n \in T)
<1>1. \/ m = NoFile /\ \A i : Live(t, i) => n \notin Called(t, i)
      \/ \E d : /\ Live(t, d) /\ n \in Called(t, d) /\ m = t[d].file
                /\ \A i : Live(t, i) /\ n \in Called(t, i) => d <= i
  BY NamesAre
<1>2. \A i : Live(t, i) => t[i].file \in File /\ i \in Nat
  BY DEF Own, Live, Whole
<1>3. nm[n] \notin {NoFile, f} => Led(t, n, nm[n], f)
  BY DEF Onward
<1>4. CASE m = NoFile /\ \A i : Live(t, i) => n \notin Called(t, i)
  BY <1>3, <1>4 DEF Led
<1>5. ASSUME NEW d, Live(t, d), n \in Called(t, d), m = t[d].file,
             \A i : Live(t, i) /\ n \in Called(t, i) => d <= i
      PROVE  /\ nm[n] = NoFile => m = f /\ m \in File
             /\ nm[n] = f => m = f \/ m = NoFile \/ n \in T
             /\ nm[n] \notin {NoFile, f} => m = nm[n] \/ (m = f /\ m \in File /\ n \in T)
  <2>1. (nm[n] \in {NoFile, m} \/ n \in T) /\ (nm[n] = NoFile => m = f) /\ m \in File
    BY <1>2, <1>5 DEF Onward, Agrees
  <2>2. ASSUME nm[n] \notin {NoFile, f} PROVE m = nm[n] \/ m = f
    <3>1. PICK j : /\ Live(t, j) /\ n \in Called(t, j) /\ t[j].file = nm[n]
                   /\ \A i : Live(t, i) /\ i < j /\ n \in Called(t, i) => t[i].file = f
      BY <1>3, <2>2 DEF Led
    <3>2. d <= j /\ d \in Nat /\ j \in Nat
      BY <1>2, <1>5, <3>1
    <3>3. CASE d = j
      BY <1>5, <3>1, <3>3
    <3>4. CASE d # j
      <4>1. d < j
        BY <3>2, <3>4
      <4> QED
        BY <1>5, <3>1, <4>1
    <3> QED
      BY <3>3, <3>4
  <2> QED
    BY <2>1, <2>2
<1> QED
  BY <1>1, <1>4, <1>5

\* No name is lost in the table as it grows, is cleared or gets an entry.
LEMMA LongerKeeps ==
  ASSUME NEW t \in Seq(Entries), NEW u \in Seq(Entries), Len(t) <= Len(u),
         \A i \in DOMAIN u : IF i \in DOMAIN t THEN u[i] = t[i] ELSE u[i] = Old
  PROVE  Shrunk(u, t)
<1>1. \A i \in DOMAIN t : i \in DOMAIN u /\ u[i] = t[i]
  OBVIOUS
<1>2. \A i : Live(t, i) => i \in DOMAIN u /\ t[i] = u[i]
  BY <1>1 DEF Live
<1>3. ASSUME NEW i, Live(t, i), NEW j \in 1 .. i - 1 PROVE t[j] = u[j]
  <2>1. i \in DOMAIN t
    BY <1>3 DEF Live
  <2>2. j \in DOMAIN t
    BY <2>1
  <2> QED
    BY <1>1, <2>2
<1> QED
  BY <1>2, <1>3, ShrunkEntries

LEMMA ClearedKeeps ==
  ASSUME NEW t \in Seq(Entries), NEW s,
         \A i \in DOMAIN t : Sector(i) = s => t[i] \in {Old, Blank}
  PROVE  Shrunk(Cleared(t, s), t)
<1> DEFINE u == Cleared(t, s)
<1>1. u \in Seq(Entries) /\ DOMAIN u = DOMAIN t
  BY ClearedTypes
<1>2. \A i \in DOMAIN t : u[i] = IF Sector(i) = s THEN Blank ELSE t[i]
  BY DEF Cleared
<1> HIDE DEF u
<1>3. \A i : Live(t, i) => i \in DOMAIN u /\ t[i] = u[i]
  BY <1>1, <1>2, Kinds DEF Live, IsSfn
<1>4. ASSUME NEW i, Live(t, i), NEW j \in 1 .. i - 1, t[j].kind = "lfn" PROVE t[j] = u[j]
  <2>1. i \in DOMAIN t
    BY <1>4 DEF Live
  <2>2. j \in DOMAIN t
    BY <2>1
  <2> QED
    BY <1>2, <1>4, <2>2, Kinds
<1>5. Shrunk(u, t)
  BY <1>1, <1>3, <1>4, ShrunkEntries
<1> QED
  BY <1>5 DEF u

LEMMA WrittenKeeps ==
  ASSUME NEW t, NEW u, NEW x, NEW e, Puts(t, u, x, e), Unused(t, x)
  PROVE  Shrunk(u, t)
<1> USE DEF Puts
<1>1. x \in DOMAIN t => t[x].kind # "lfn" /\ ~ Live(t, x)
  BY Kinds DEF Unused, Live, IsSfn
<1>2. \A i : Live(t, i) => i \in DOMAIN u /\ t[i] = u[i]
  BY <1>1 DEF Live
<1>3. ASSUME NEW i, Live(t, i), NEW j \in 1 .. i - 1, t[j].kind = "lfn" PROVE t[j] = u[j]
  <2>1. i \in DOMAIN t
    BY <1>3 DEF Live
  <2>2. j \in DOMAIN t
    BY <2>1
  <2> QED
    BY <1>1, <1>3, <2>2
<1> QED
  BY <1>2, <1>3, ShrunkEntries

\* The parts that go are those of one entry, of file f.
LEMMA DeletedKeeps ==
  ASSUME NEW t, NEW u, NEW x \in Nat \ {0}, Puts(t, u, x, Deleted),
         NEW f, NEW i, Live(t, i), t[i].file = f, x \in 1 .. i,
         \A z \in x .. i - 1 : t[z].kind = "lfn"
  PROVE  Keeps(t, u, f)
<1> USE DEF Puts
<1>1. i \in DOMAIN t /\ t[i].kind = "sfn" /\ i \in Nat
  BY DEF Live, IsSfn
<1> SUFFICES ASSUME NEW j, Live(t, j), t[j].file # f
             PROVE  Live(u, j) /\ u[j] = t[j] /\ LongText(t, j) \subseteq LongText(u, j)
  BY DEF Keeps
<1>2. j \in DOMAIN t /\ t[j].kind = "sfn" /\ j \in Nat \ {0} /\ j # i
  BY DEF Live, IsSfn
<1>3. j \notin x .. i - 1
  BY <1>2
<1>4. j < x \/ j > i
  BY <1>1, <1>2, <1>3
<1>5. j # x
  BY <1>1, <1>4
<1>6. u[j] = t[j] /\ Live(u, j)
  BY <1>2, <1>5 DEF Live, IsSfn
<1>7. ASSUME NEW k \in 1 .. j - 1, t[k].kind = "lfn"
      PROVE  t[k] = u[k] \/ \E z \in k + 1 .. j - 1 : t[z].kind # "lfn"
  <2>1. k \in DOMAIN t
    BY <1>2
  <2>2. CASE k # x
    BY <2>1, <2>2
  <2>3. CASE k = x
    <3>1. x # i /\ x < j
      BY <1>1, <1>2, <1>7, <2>3
    <3>2. i \in k + 1 .. j - 1
      BY <1>1, <1>2, <1>4, <2>3, <3>1
    <3> QED
      BY <1>1, <3>2
  <2> QED
    BY <2>2, <2>3
<1>8. LongText(t, j) \subseteq LongText(u, j)
  BY <1>2, <1>6, <1>7, FewerNames
<1> QED
  BY <1>6, <1>8

----------------------------------------------------------------------------
(* What a call is going to do.                                             *)

\* What it removes is entry i of file f with the parts before it, in order;
\* it ends with sync_fs then.
RemovesAt(w, t, f, i, k) ==
  /\ w[k][1] \in 1 .. i /\ Live(t, i) /\ t[i].file = f
  /\ \A z \in w[k][1] .. i - 1 : t[z].kind = "lfn"
  /\ \A l \in k + 1 .. Len(w) : Kind(w[l]) = "deleted" => w[k][1] < w[l][1]

Syncs(w) == w # <<>> /\ Kind(w[Len(w)]) = "sync"

Removes(w, t, f) ==
  /\ \E i \in Nat : \A k \in 1 .. Len(w) : Kind(w[k]) = "deleted" => RemovesAt(w, t, f, i, k)
  /\ \A k \in 1 .. Len(w) : Kind(w[k]) = "deleted" => Syncs(w)

\* What it adds is for file f.
Gives(w, f) == \A k \in 1 .. Len(w) : Kind(w[k]) = "sfn" => w[k][2].file = f

\* The table that it leaves, F, without the old entries of a new cluster.
Places == Nat \ {0}
Seen(t, i) == IF i \in DOMAIN t /\ t[i] # Old THEN t[i] ELSE Blank
Results(F, t, w) ==
  /\ \A k \in 1 .. Len(w) : IsWrite(w[k]) => F[w[k][1]] = w[k][2]
  /\ \A i \in Places : F[i] = Seen(t, i) \/ \E k \in 1 .. Len(w) : IsWrite(w[k]) /\ w[k][1] = i

\* File f is called a then, and nothing else that could be avoided; or f is
\* not called a any more.  After k failures, more names may stay.
Given(F, a, f, k) ==
  /\ \E y : Live(F, y) /\ F[y].file = f /\ a \in Called(F, y)
  /\ k = 0 => \A y : Live(F, y) /\ F[y].file = f =>
                       LongText(F, y) \subseteq {a} /\ F[y].sfn \in {a} \cup Alias
Gone(F, f, k) == k = 0 => \A y : Live(F, y) => F[y].file # f
Purpose(F, nm, a, f, k) ==
  \/ nm[a] \in {NoFile, f} /\ Given(F, a, f, k)
  \/ nm[a] = f /\ Gone(F, f, k)

LEMMA SyncsNext ==
  ASSUME NEW w \in Seq(Steps), w # <<>>, Syncs(w), Tail(w) # <<>>
  PROVE  Syncs(Tail(w))
<1> DEFINE v == Tail(w)
<1>1. /\ v \in Seq(Steps) /\ Len(w) \in Nat \ {0} /\ Len(v) = Len(w) - 1
      /\ \A k \in 1 .. Len(v) : v[k] = w[k + 1] /\ k + 1 \in 1 .. Len(w)
  BY TailAt
<1> HIDE DEF v
<1>2. v # <<>>
  BY DEF v
<1>3. Len(v) \in 1 .. Len(v) /\ Len(v) + 1 = Len(w)
  BY <1>1, <1>2
<1>4. v[Len(v)] = w[Len(w)]
  BY <1>1, <1>3
<1> QED
  BY <1>2, <1>4 DEF Syncs, v

\* A step that leaves what the call has still to remove.
LEMMA RemovesNext ==
  ASSUME NEW w \in Seq(Steps), w # <<>>, NEW t \in Seq(Entries), NEW u, NEW f, Removes(w, t, f),
         \A i \in DOMAIN t :
           (Live(t, i) \/ t[i].kind = "lfn") /\ ~ (Kind(w[1]) = "deleted" /\ w[1][1] = i)
             => i \in DOMAIN u /\ u[i] = t[i]
  PROVE  Removes(Tail(w), u, f)
<1> DEFINE v == Tail(w)
<1>1. /\ v \in Seq(Steps) /\ Len(w) \in Nat \ {0} /\ Len(v) = Len(w) - 1
      /\ \A k \in 1 .. Len(v) : v[k] = w[k + 1] /\ k + 1 \in 1 .. Len(w)
  BY TailAt
<1>2. PICK i \in Nat : \A k \in 1 .. Len(w) : Kind(w[k]) = "deleted" => RemovesAt(w, t, f, i, k)
  BY DEF Removes
<1>3. v # <<>> /\ Syncs(w) => Syncs(v)
  BY SyncsNext
<1> HIDE DEF v
<1>4. ASSUME NEW k \in 1 .. Len(v), Kind(v[k]) = "deleted" PROVE RemovesAt(v, u, f, i, k)
  <2>1. k + 1 \in 1 .. Len(w) /\ v[k] = w[k + 1] /\ k + 1 \in 1 + 1 .. Len(w) /\ 1 \in 1 .. Len(w)
    BY <1>1
  <2>2. RemovesAt(w, t, f, i, k + 1)
    BY <1>2, <1>4, <2>1
  <2>3. /\ v[k][1] \in 1 .. i /\ Live(t, i) /\ t[i].file = f
        /\ \A z \in v[k][1] .. i - 1 : t[z].kind = "lfn"
        /\ \A l \in k + 1 + 1 .. Len(w) : Kind(w[l]) = "deleted" => v[k][1] < w[l][1]
    BY <2>1, <2>2 DEF RemovesAt
  <2>4. ASSUME Kind(w[1]) = "deleted" PROVE w[1][1] < v[k][1] /\ w[1][1] \in Nat
    <3>1. RemovesAt(w, t, f, i, 1)
      BY <1>2, <2>1, <2>4
    <3> QED
      BY <1>4, <2>1, <3>1 DEF RemovesAt
  <2>5. i \in DOMAIN t /\ DOMAIN t = 1 .. Len(t) /\ Len(t) \in Nat
    BY <2>3 DEF Live
  <2>6. i \in DOMAIN u /\ u[i] = t[i]
    <3>1. ~ (Kind(w[1]) = "deleted" /\ w[1][1] = i)
      BY <2>3, <2>4
    <3> QED
      BY <2>3, <2>5, <3>1
  <2>7. Live(u, i) /\ u[i].file = f
    BY <2>3, <2>6 DEF Live, IsSfn
  <2>8. ASSUME NEW z \in v[k][1] .. i - 1 PROVE u[z].kind = "lfn"
    <3>1. z \in DOMAIN t /\ t[z].kind = "lfn" /\ z \in Nat
      BY <2>3, <2>5
    <3>2. ~ (Kind(w[1]) = "deleted" /\ w[1][1] = z)
      BY <2>3, <2>4, <3>1
    <3> QED
      BY <3>1, <3>2
  <2>9. ASSUME NEW l \in k + 1 .. Len(v), Kind(v[l]) = "deleted" PROVE v[k][1] < v[l][1]
    <3>1. l \in 1 .. Len(v) /\ l + 1 \in k + 1 + 1 .. Len(w)
      BY <1>1
    <3>2. v[l] = w[l + 1]
      BY <1>1, <3>1
    <3> QED
      BY <2>3, <2>9, <3>1, <3>2
  <2> QED
    BY <2>3, <2>7, <2>8, <2>9 DEF RemovesAt
<1>5. ASSUME NEW k \in 1 .. Len(v), Kind(v[k]) = "deleted" PROVE Syncs(v)
  <2>1. k + 1 \in 1 .. Len(w) /\ Kind(w[k + 1]) = "deleted"
    BY <1>1, <1>5
  <2>2. v # <<>>
    BY <1>5
  <2> QED
    BY <1>3, <2>1, <2>2 DEF Removes
<1>6. Removes(v, u, f)
  BY <1>4, <1>5 DEF Removes
<1> QED
  BY <1>6 DEF v

LEMMA GivesNext ==
  ASSUME NEW w \in Seq(Steps), w # <<>>, NEW f, Gives(w, f)
  PROVE  Gives(Tail(w), f)
<1>1. \A k \in 1 .. Len(Tail(w)) : Tail(w)[k] = w[k + 1] /\ k + 1 \in 1 .. Len(w)
  BY TailAt
<1> QED
  BY <1>1 DEF Gives

LEMMA ResultsNext ==
  ASSUME NEW w \in Seq(Steps), w # <<>>, NEW t, NEW u, NEW F, Results(F, t, w),
         \A i \in Places : \/ Seen(u, i) = Seen(t, i) /\ ~ (IsWrite(w[1]) /\ w[1][1] = i)
                           \/ IsWrite(w[1]) /\ w[1][1] = i /\ Seen(u, i) = w[1][2]
  PROVE  Results(F, u, Tail(w))
<1> DEFINE v == Tail(w)
<1>1. /\ Len(w) \in Nat \ {0} /\ Len(v) = Len(w) - 1
      /\ \A k \in 1 .. Len(v) : v[k] = w[k + 1] /\ k + 1 \in 1 .. Len(w)
  BY TailAt
<1> HIDE DEF v
<1>2. \A k \in 1 .. Len(v) : IsWrite(v[k]) => F[v[k][1]] = v[k][2]
  BY <1>1 DEF Results
<1>3. ASSUME NEW i \in Places
      PROVE  F[i] = Seen(u, i) \/ \E k \in 1 .. Len(v) : IsWrite(v[k]) /\ v[k][1] = i
  <2>1. CASE IsWrite(w[1]) /\ w[1][1] = i /\ Seen(u, i) = w[1][2]
    <3>1. 1 \in 1 .. Len(w)
      BY <1>1
    <3>2. F[w[1][1]] = w[1][2]
      BY <2>1, <3>1 DEF Results
    <3> QED
      BY <2>1, <3>2
  <2>2. CASE Seen(u, i) = Seen(t, i) /\ ~ (IsWrite(w[1]) /\ w[1][1] = i)
    <3>1. CASE F[i] = Seen(t, i)
      BY <2>2, <3>1
    <3>2. CASE F[i] # Seen(t, i)
      <4>1. PICK k \in 1 .. Len(w) : IsWrite(w[k]) /\ w[k][1] = i
        BY <3>2 DEF Results
      <4>2. k # 1
        BY <2>2, <4>1
      <4>3. k - 1 \in 1 .. Len(v) /\ k - 1 + 1 = k
        BY <1>1, <4>2
      <4>4. v[k - 1] = w[k]
        BY <1>1, <4>3
      <4> QED
        BY <4>1, <4>3, <4>4
    <3> QED
      BY <3>1, <3>2
  <2> QED
    BY <2>1, <2>2
<1> QED
  BY <1>2, <1>3 DEF Results, v

\* Where nothing is left to do, F is the table.
LEMMA SeenSame ==
  ASSUME NEW t, Whole(t), NEW F, \A i \in Places : F[i] = Seen(t, i),
         DOMAIN F = Places
  PROVE  \A i : /\ Live(F, i) <=> Live(t, i)
                /\ Live(t, i) => F[i] = t[i] /\ Called(F, i) = Called(t, i)
                                 /\ LongText(F, i) = LongText(t, i)
<1>1. /\ DOMAIN t = 1 .. Len(t) /\ Len(t) \in Nat
      /\ \A i \in DOMAIN t : i \in Places /\ F[i] = t[i]
  BY DEF Whole, Seen, Places
<1>2. \A i \in Places : i \notin DOMAIN t => F[i].kind = "free"
  BY Kinds DEF Seen
<1> SUFFICES ASSUME NEW i
             PROVE  /\ Live(F, i) <=> Live(t, i)
                    /\ Live(t, i) => F[i] = t[i] /\ Called(F, i) = Called(t, i)
                                     /\ LongText(F, i) = LongText(t, i)
  OBVIOUS
<1>3. Live(F, i) <=> Live(t, i)
  BY <1>1, <1>2 DEF Live, IsSfn
<1>4. ASSUME Live(t, i) PROVE F[i] = t[i] /\ LongText(F, i) = LongText(t, i)
  <2>1. i \in DOMAIN t /\ i \in Nat \ {0}
    BY <1>1, <1>4 DEF Live
  <2>2. F[i] = t[i] /\ F[i].sfn = t[i].sfn
    BY <1>1, <2>1
  <2>3. \A j \in 1 .. i - 1 : F[j] = t[j]
    BY <1>1, <2>1
  <2>4. LongText(F, i) \subseteq LongText(t, i)
    BY <2>1, <2>2, <2>3, FewerNames
  <2>5. LongText(t, i) \subseteq LongText(F, i)
    BY <2>1, <2>2, <2>3, FewerNames
  <2> QED
    BY <2>2, <2>4, <2>5
<1> QED
  BY <1>3, <1>4 DEF Called

\* The names of before and after a call are those that NameSpace allows.
Touched(nm, m, T, f) ==
  \A n \in Name :
    m[n] # nm[n] => {nm[n], m[n]} = {f, NoFile} \/ (n \in T /\ f \in {nm[n], m[n]})
Served(nm, m, a, f, k) ==
  \/ m[a] = f /\ (k = 0 => \A n \in Name \ Alias : m[n] = f => n = a)
  \/ nm[a] = f /\ (k = 0 => \A n \in Name : m[n] # f)

LEMMA Returning ==
  ASSUME NEW t, NEW T, NEW nm, NEW f \in File, NEW F, NEW a \in Name, NEW k \in Nat,
         Whole(t), Own(t, T), Onward(t, T, nm, f), Purpose(F, nm, a, f, k),
         \A i \in Places : F[i] = Seen(t, i), DOMAIN F = Places,
         NEW m, m = NamesOf(t), k = 0 => T = {}
  PROVE  Touched(nm, m, T, f) /\ Served(nm, m, a, f, k)
<1>1. \A i : /\ Live(F, i) <=> Live(t, i)
             /\ Live(t, i) => F[i] = t[i] /\ Called(F, i) = Called(t, i)
                              /\ LongText(F, i) = LongText(t, i)
  BY SeenSame
<1>2. ASSUME NEW n \in Name
      PROVE  /\ nm[n] = NoFile => m[n] = NoFile \/ m[n] = f
             /\ nm[n] = f => m[n] \in {NoFile, f} \/ n \in T
             /\ nm[n] \notin {NoFile, f} => m[n] = nm[n] \/ (m[n] = f /\ n \in T)
  <2>1. PICK g : g = m[n]
    OBVIOUS
  <2>2. g = NamesOf(t)[n]
    BY <2>1
  <2> QED
    BY <2>1, <2>2, OnwardIs
<1>3. ASSUME NEW n \in Name, m[n] # nm[n]
      PROVE  {nm[n], m[n]} = {f, NoFile} \/ (n \in T /\ f \in {nm[n], m[n]})
  <2>1. CASE nm[n] = NoFile
    BY <1>2, <1>3, <2>1
  <2>2. CASE nm[n] = f
    BY <1>2, <1>3, <2>2
  <2>3. CASE nm[n] \notin {NoFile, f}
    BY <1>2, <1>3, <2>3
  <2> QED
    BY <2>1, <2>2, <2>3
<1>4. ASSUME NEW n \in Name
      PROVE  \/ m[n] = NoFile /\ \A i : Live(t, i) => n \notin Called(t, i)
             \/ \E d : Live(t, d) /\ n \in Called(t, d) /\ m[n] = t[d].file
  BY NamesAre
<1>5. Touched(nm, m, T, f)
  BY <1>3 DEF Touched
<1>6. CASE nm[a] = f /\ k # 0
  BY <1>5, <1>6 DEF Served
<1>7. CASE nm[a] = f /\ Gone(F, f, k)
  <2>1. ASSUME k = 0, NEW n \in Name PROVE m[n] # f
    BY <1>1, <1>4, <1>7, <2>1, TableAssumption DEF Gone
  <2> QED
    BY <1>5, <1>7, <2>1 DEF Served
<1>8. CASE nm[a] \in {NoFile, f} /\ Given(F, a, f, k) /\ (nm[a] = NoFile \/ k = 0)
  <2>1. PICK y : Live(t, y) /\ t[y].file = f /\ a \in Called(t, y)
    BY <1>1, <1>8 DEF Given
  <2>2. PICK d : Live(t, d) /\ a \in Called(t, d) /\ m[a] = t[d].file
    BY <1>4, <2>1
  <2>3. m[a] = f
    <3>1. m[a] \in File
      BY <2>2 DEF Own
    <3>2. a \in T => k # 0
      OBVIOUS
    <3> QED
      BY <1>2, <1>8, <3>1, <3>2, TableAssumption
  <2>4. ASSUME k = 0, NEW n \in Name \ Alias, m[n] = f PROVE n = a
    <3>1. PICK z : Live(t, z) /\ n \in Called(t, z) /\ t[z].file = f
      BY <1>4, <2>4, TableAssumption
    <3>2. LongText(t, z) \subseteq {a} /\ t[z].sfn \in {a} \cup Alias
      BY <1>1, <1>8, <2>4, <3>1 DEF Given
    <3> QED
      BY <2>4, <3>1, <3>2 DEF Called
  <2> QED
    BY <1>5, <2>3, <2>4 DEF Served
<1> QED
  BY <1>6, <1>7, <1>8 DEF Purpose

\* Nothing is left of a call that stretched the table.
LEMMA AtRest ==
  ASSUME NEW t \in Seq(Entries), NEW T, Sound(t, T), Stretching(<<>>, t)
  PROVE  Whole(t) /\ Own(t, T) /\ Apart(t, T)
<1>1. PICK s \in Nat, r \in 0 .. PerCluster + 1, c \in Nat : Left(<<>>, s, r, c) /\ Filled(t, s, r)
  BY DEF Stretching
<1>2. r = 0
  BY <1>1, LeftEmpty
<1>3. \A i \in DOMAIN t : t[i] # Old
  BY <1>1, <1>2 DEF Filled
<1> QED
  BY <1>3 DEF Whole, Sound

----------------------------------------------------------------------------
(* The invariant of the names, and that the steps are those of NameSpace.  *)

\* Before the first failure every part is where it belongs, no file has two
\* entries, and the disk has no name that the table has not.
Tidy(F) ==
  \A x \in Places :
    F[x].kind = "lfn" =>
      /\ F[x + 1].kind = "sfn" \/ (F[x + 1].kind = "lfn" /\ ~ F[x + 1].last)
      /\ F[x].last \/ (x > 1 /\ F[x - 1].kind = "lfn")
Single(F) == \A i, j : Live(F, i) /\ Live(F, j) /\ F[i].file = F[j].file => i = j
Clean(F) == Tidy(F) /\ Single(F)
Behindhand(w, t, d, T, nm) ==
  T = {} /\ Agrees(d, {}, nm) /\ (Shrunk(t, d) \/ Syncs(w))

\* File f is that of the call in progress.
Calling(f, F) ==
  /\ Onward(table, taken, names, f)
  /\ Removes(todo, table, f) /\ Gives(todo, f) /\ Results(F, table, todo)
  /\ IF f = NoFile THEN asked = NoName
     ELSE todo # <<>> /\ asked \in Name /\ Purpose(F, names, asked, f, faults)
  /\ faults = 0 => Clean(F) /\ Behindhand(todo, table, disk, taken, names)

Naming ==
  /\ faults \in Nat /\ names = [n \in Name |-> names[n]]
  /\ \E f \in File \cup {NoFile}, F \in [Places -> Entries] : Calling(f, F)

\* What NameSpace sees of a step.
Seems == [Names!Next]_<<names, asked, taken, faults > 0>>

LEMMA NothingToDo ==
  ASSUME NEW t, NEW f
  PROVE  Removes(<<>>, t, f) /\ Gives(<<>>, f)
<1>1. Len(<<>>) = 0 /\ \A k \in 1 .. 0 : FALSE
  OBVIOUS
<1> QED
  BY <1>1 DEF Removes, Gives

\* A step of the call in progress, and the last one.
LEMMA GoesOn ==
  ASSUME Naming, todo # <<>>, Step, table' \in Seq(Entries), Listing', taken \subseteq taken',
         NEW f \in File \cup {NoFile}, NEW F \in [Places -> Entries], Calling(f, F),
         Onward(table', taken', names, f),
         Removes(todo', table', f), Gives(todo', f), Results(F, table', todo'),
         faults = 0 => Behindhand(todo', table', disk', taken', names)
  PROVE  Naming' /\ Seems
<1>1. /\ faults' = faults /\ faults \in Nat
      /\ IF todo' = <<>> THEN names' = NamesOf(table') /\ asked' = NoName
         ELSE names' = names /\ asked' = asked
  BY DEF Naming, Step, Returned
<1>2. /\ names = [n \in Name |-> names[n]]
      /\ IF f = NoFile THEN asked = NoName
         ELSE todo # <<>> /\ asked \in Name /\ Purpose(F, names, asked, f, faults)
      /\ faults = 0 => Clean(F) /\ Behindhand(todo, table, disk, taken, names)
  BY DEF Naming, Calling
<1>3. faults = 0 => taken' = taken
  BY <1>2 DEF Behindhand
<1>4. (faults > 0) \in BOOLEAN /\ (faults > 0)' = (faults > 0)
  BY <1>1
<1>5. CASE todo' # <<>>
  <2>1. Calling(f, F)'
    BY <1>1, <1>2, <1>5 DEF Calling
  <2>2. Naming'
    BY <1>1, <1>2, <1>5, <2>1 DEF Naming
  <2>3. Names!Take /\ UNCHANGED <<names, asked>> /\ (faults > 0)' = (faults > 0)
    BY <1>1, <1>3, <1>4, <1>5 DEF Names!Take
  <2> QED
    BY <2>2, <2>3 DEF Seems, Names!Next
<1>6. CASE todo' = <<>>
  <2>1. Sound(table', taken') /\ Stretching(<<>>, table')
    BY <1>6 DEF Listing
  <2>2. Whole(table') /\ Own(table', taken') /\ Apart(table', taken')
    BY <2>1, AtRest
  <2>3. names' = NamesOf(table') /\ asked' = NoName
    BY <1>1, <1>6
  <2>4. Onward(table', taken', names', NoFile)
    BY <2>2, <2>3, OnwardNames
  <2>5. names' = [n \in Name |-> names'[n]]
    BY <2>3 DEF NamesOf
  <2>6. DOMAIN F = Places /\ \A i \in Places : F[i] = Seen(table', i)
    <3>1. Len(<<>>) = 0 /\ \A k \in 1 .. 0 : FALSE
      OBVIOUS
    <3> QED
      BY <1>6, <3>1 DEF Results
  <2>7. Removes(todo', table', NoFile) /\ Gives(todo', NoFile)
    BY <1>6, NothingToDo
  <2>8. ASSUME faults' = 0 PROVE Clean(F) /\ Behindhand(todo', table', disk', taken', names')
    <3>1. /\ Clean(F) /\ taken' = {} /\ Shrunk(table', disk')
      BY <1>1, <1>2, <1>6, <2>8 DEF Behindhand, Syncs
    <3>2. Agrees(table', {}, names')
      BY <2>4, <3>1 DEF Onward
    <3>3. Agrees(disk', {}, names')
      BY <3>1, <3>2, FewerAgree
    <3> QED
      BY <3>1, <3>3 DEF Behindhand
  <2>9. Calling(NoFile, F)'
    BY <2>3, <2>4, <2>7, <2>8 DEF Calling
  <2>10. Naming'
    BY <1>1, <2>5, <2>9 DEF Naming
  <2>11. CASE f = NoFile
    <3>1. ASSUME NEW n \in Name PROVE names'[n] = names[n]
      <4>1. PICK m : m = NamesOf(table')[n]
        OBVIOUS
      <4>2. /\ names[n] = NoFile => m = NoFile \/ (m = NoFile /\ m \in File)
            /\ names[n] \notin {NoFile, NoFile} => m = names[n] \/ (m = NoFile /\ m \in File /\ n \in taken')
        BY <2>2, <2>11, <4>1, OnwardIs
      <4> QED
        BY <2>3, <4>1, <4>2, TableAssumption
    <3>2. names' = names
      BY <1>2, <2>5, <3>1
    <3>3. Names!Take /\ UNCHANGED <<names, asked>> /\ (faults > 0)' = (faults > 0)
      <4>1. asked' = asked
        BY <1>2, <2>3, <2>11
      <4>2. faults > 0 <=> faults # 0
        BY <1>1
      <4>3. Names!Take
        BY <1>3, <4>2 DEF Names!Take
      <4> QED
        BY <1>4, <3>2, <4>1, <4>3
    <3> QED
      BY <2>10, <3>3 DEF Seems, Names!Next
  <2>12. CASE f # NoFile
    <3>1. f \in File /\ asked \in Name /\ Purpose(F, names, asked, f, faults)
      BY <1>2, <2>12
    <3>2. Touched(names, names', taken', f) /\ Served(names, names', asked, f, faults)
      <4>1. faults = 0 => taken' = {}
        BY DEF Behindhand
      <4>2. PICK t, T, nm, m, a, k :
              /\ t = table' /\ T = taken' /\ nm = names /\ m = names' /\ a = asked /\ k = faults
        OBVIOUS
      <4>3. /\ Whole(t) /\ Own(t, T) /\ Onward(t, T, nm, f) /\ Purpose(F, nm, a, f, k)
            /\ a \in Name /\ k \in Nat /\ m = NamesOf(t) /\ (k = 0 => T = {})
            /\ \A i \in Places : F[i] = Seen(t, i)
        BY <1>1, <2>2, <2>3, <2>6, <3>1, <4>1, <4>2
      <4>4. Touched(nm, m, T, f) /\ Served(nm, m, a, f, k)
        BY <2>6, <3>1, <4>3, Returning
      <4> QED
        BY <4>2, <4>4
    <3>3. faults # 0 <=> faults > 0
      BY <1>1
    <3>4. Names!Touch(f)
      BY <3>2 DEF Names!Touch, Touched
    <3>5. Names!Create(f) \/ Names!Remove(f) \/ Names!Rename(f)
      <4>1. CASE names'[asked] = f /\ (faults = 0 => \A n \in Name \ Alias : names'[n] = f => n = asked)
        <5>1. Names!Give(f)
          BY <3>3, <4>1 DEF Names!Give
        <5> QED
          BY <5>1 DEF Names!Create, Names!Rename
      <4>2. CASE names[asked] = f /\ (faults = 0 => \A n \in Name : names'[n] # f)
        <5>1. Names!Remove(f)
          BY <3>3, <4>2 DEF Names!Remove, Names!Named
        <5> QED
          BY <5>1
      <4> QED
        BY <3>2, <4>1, <4>2 DEF Served
    <3>6. Names!Take /\ (faults > 0)' = (faults > 0)
      BY <1>3, <1>4, <1>1 DEF Names!Take
    <3>7. Names!Return
      BY <2>3, <3>1, <3>4, <3>5, <3>6 DEF Names!Return
    <3> QED
      BY <2>10, <3>7 DEF Seems, Names!Next
  <2> QED
    BY <2>11, <2>12
<1> QED
  BY <1>5, <1>6

\* Where the disk agreed with the names, or was to be stored by sync_fs.
LEMMA DiskFollows ==
  ASSUME NEW w \in Seq(Steps), w # <<>>, NEW t, NEW u, NEW d, NEW e, NEW nm, NEW T, NEW U, U = {},
         Behindhand(w, t, d, T, nm), Agrees(t, {}, nm), Agrees(u, {}, nm),
         e \in {d, t, u}, e = u \/ Kind(w[1]) # "sync",
         Shrunk(u, t) \/ Syncs(w)
  PROVE  Behindhand(Tail(w), u, e, U, nm)
<1>1. Agrees(e, {}, nm)
  BY DEF Behindhand
<1>2. ASSUME Syncs(w), ~ Syncs(Tail(w)) PROVE e = u
  <2>1. PICK v : v = Tail(w)
    OBVIOUS
  <2>2. v = <<>>
    BY <1>2, <2>1, SyncsNext
  <2>3. Len(w) \in Nat \ {0} /\ Len(v) = Len(w) - 1
    BY <2>1, TailAt
  <2>4. Len(w) = 1
    BY <2>2, <2>3
  <2> QED
    BY <1>2, <2>4 DEF Syncs
<1>3. CASE Syncs(w)
  BY <1>1, <1>2, <1>3, ShrunkSame DEF Behindhand
<1>4. CASE ~ Syncs(w)
  <2>1. Shrunk(u, t) /\ Shrunk(t, d)
    BY <1>4 DEF Behindhand
  <2>2. Shrunk(u, e)
    BY <2>1, ShrunkSame, ShrunkTwice
  <2> QED
    BY <1>1, <2>2 DEF Behindhand
<1> QED
  BY <1>3, <1>4

\* A step that writes no entry.
LEMMA QuietStep ==
  ASSUME Inv, Listing, Listing', Naming, todo # <<>>, Step, ~ IsWrite(todo[1]),
         table' \in Seq(Entries), taken' = taken, disk' \in {disk, table, table'},
         disk' = table' \/ Kind(todo[1]) # "sync",
         Shrunk(table, table'), Shrunk(table', table),
         \A i \in DOMAIN table : table[i].kind = "lfn" => i \in DOMAIN table' /\ table'[i] = table[i],
         \A i \in Places : Seen(table', i) = Seen(table, i)
  PROVE  Naming' /\ Seems
<1>1. PICK f \in File \cup {NoFile}, F \in [Places -> Entries] : Calling(f, F)
  BY DEF Naming
<1>2. /\ todo \in Seq(Steps) /\ todo' = Tail(todo) /\ table \in Seq(Entries)
      /\ Onward(table, taken, names, f) /\ Removes(todo, table, f) /\ Gives(todo, f)
      /\ Results(F, table, todo)
      /\ faults = 0 => Behindhand(todo, table, disk, taken, names)
  BY <1>1, InvMeans DEF Calling, Step
<1>3. Kind(todo[1]) # "deleted"
  BY DEF IsWrite, Kind
<1>4. Onward(table', taken', names, f)
  BY <1>2, FewerBrings, MoreKeeps, OnwardStep
<1>5. Removes(todo', table', f)
  <2>1. PICK w, t, u : w = todo /\ t = table /\ u = table'
    OBVIOUS
  <2>2. \A i \in DOMAIN t : Live(t, i) \/ t[i].kind = "lfn" => i \in DOMAIN u /\ u[i] = t[i]
    BY <2>1 DEF Shrunk, Live
  <2>3. Removes(Tail(w), u, f)
    BY <1>2, <1>3, <2>1, <2>2, RemovesNext
  <2> QED
    BY <1>2, <2>1, <2>3
<1>6. Gives(todo', f)
  BY <1>2, GivesNext
<1>7. Results(F, table', todo')
  BY <1>2, ResultsNext
<1>8. ASSUME faults = 0 PROVE Behindhand(todo', table', disk', taken', names)
  <2>1. Behindhand(todo, table, disk, taken, names) /\ taken = {}
    BY <1>2, <1>8 DEF Behindhand
  <2>2. Agrees(table, {}, names) /\ Agrees(table', {}, names)
    BY <1>2, <1>4, <2>1 DEF Onward
  <2> QED
    BY <1>2, <2>1, <2>2, DiskFollows
<1> QED
  BY <1>1, <1>4, <1>5, <1>6, <1>7, <1>8, GoesOn

LEMMA LinkAdds ==
  ASSUME Inv, dir_next_link
  PROVE  /\ table \in Seq(Entries) /\ table' \in Seq(Entries) /\ Len(table) <= Len(table')
         /\ \A i \in DOMAIN table' : IF i \in DOMAIN table THEN table'[i] = table[i] ELSE table'[i] = Old
<1> DEFINE n == PerSector * PerCluster
           more == [i \in 1 .. n |-> Old]
<1>1. table' = table \o more /\ table \in Seq(Entries)
  BY InvMeans DEF dir_next_link
<1>2. n \in Nat
  BY Sizes
<1> HIDE DEF n
<1>3. more \in Seq(Entries) /\ Len(more) = n /\ \A i \in 1 .. n : more[i] = Old
  BY <1>2, EntryKinds
<1> HIDE DEF more
<1>4. /\ table' \in Seq(Entries) /\ Len(table') = Len(table) + n
      /\ \A i \in 1 .. Len(table) : table'[i] = table[i]
      /\ \A i \in 1 .. n : table'[Len(table) + i] = more[i]
  BY <1>1, <1>3, Lengthened
<1>5. ASSUME NEW i \in DOMAIN table', i \notin DOMAIN table PROVE table'[i] = Old
  <2>1. i - Len(table) \in 1 .. n /\ Len(table) + (i - Len(table)) = i
    BY <1>1, <1>2, <1>4, <1>5
  <2> QED
    BY <1>3, <1>4, <2>1
<1> QED
  BY <1>1, <1>2, <1>4, <1>5

LEMMA LinkNames ==
  ASSUME Inv, Listing, Listing', Naming, dir_next_link
  PROVE  Naming' /\ Seems
<1>1. /\ todo # <<>> /\ Head(todo) = Link /\ Step /\ taken' = taken
      /\ disk' \in {disk, table}
  BY InvMeans DEF dir_next_link, At
<1>2. todo[1] = Link /\ ~ IsWrite(todo[1]) /\ Kind(todo[1]) # "sync"
  BY <1>1, InvMeans, Kinds DEF IsWrite, Kind
<1>3. /\ table \in Seq(Entries) /\ table' \in Seq(Entries) /\ Len(table) <= Len(table')
      /\ \A i \in DOMAIN table' : IF i \in DOMAIN table THEN table'[i] = table[i] ELSE table'[i] = Old
  BY LinkAdds
<1>4. Shrunk(table, table') /\ Shrunk(table', table)
  BY <1>3, ShrunkLonger, LongerKeeps
<1>5. \A i \in DOMAIN table : i \in DOMAIN table' /\ table'[i] = table[i]
  BY <1>3
<1>6. ASSUME NEW i \in Places PROVE Seen(table', i) = Seen(table, i)
  BY <1>3, <1>5 DEF Seen
<1> QED
  BY <1>1, <1>2, <1>3, <1>4, <1>5, <1>6, QuietStep

LEMMA FlushNames ==
  ASSUME Inv, Listing, Listing', Naming, dir_next_flush
  PROVE  Naming' /\ Seems
<1>1. /\ todo # <<>> /\ Head(todo) = Flush /\ Step /\ taken' = taken
      /\ disk' = table /\ table' = table /\ table \in Seq(Entries)
  BY InvMeans DEF dir_next_flush, At
<1>2. ~ IsWrite(todo[1])
  BY <1>1, InvMeans, Kinds DEF IsWrite, Kind
<1> QED
  BY <1>1, <1>2, ShrunkSame, QuietStep

LEMMA SyncFsNames ==
  ASSUME Inv, Listing, Listing', Naming, sync_fs
  PROVE  Naming' /\ Seems
<1>1. /\ todo = Sync /\ Step /\ taken' = taken
      /\ disk' = table /\ table' = table /\ table \in Seq(Entries)
  BY InvMeans DEF sync_fs
<1>2. todo # <<>> /\ ~ IsWrite(todo[1])
  BY <1>1 DEF IsWrite, Sync
<1> QED
  BY <1>1, <1>2, ShrunkSame, QuietStep

\* A sector is cleared only where its entries are old, or free.
LEMMA ClearedWere ==
  ASSUME Inv, Listing, NEW x \in Nat, todo # <<>>, Head(todo) = Clear(x)
  PROVE  \A i \in DOMAIN table : Sector(i) = x => table[i] \in {Old, Blank}
<1>1. todo \in Seq(Steps) /\ todo[1] = Clear(x) /\ Kind(todo[1]) = "clear"
  BY InvMeans, Kinds
<1>2. PICK s \in Nat, r \in 0 .. PerCluster + 1, c \in Nat : Left(todo, s, r, c) /\ Filled(table, s, r)
  BY DEF Listing, Stretching
<1>3. r \in 2 .. PerCluster + 1 /\ todo[1] = Clear(s + r - 1)
  BY <1>1, <1>2, LeftHead, Sizes
<1>4. x = s + r - 1
  <2>1. PICK y : y = s + r - 1
    OBVIOUS
  <2>2. Clear(x)[1] = x /\ Clear(y)[1] = y /\ Clear(x) = Clear(y)
    BY <1>1, <1>3, <2>1, Kinds
  <2> QED
    BY <2>1, <2>2
<1>5. \A i \in DOMAIN table : Sector(i) >= s + r - 1 => table[i] \in {Old, Blank}
  BY <1>2, <1>3, InvMeans, FilledCleared
<1> QED
  BY <1>4, <1>5

LEMMA ClearNames ==
  ASSUME Inv, Listing, Listing', Naming, dir_next_clear
  PROVE  Naming' /\ Seems
<1>1. PICK x \in 1 .. Fat - 1 :
        /\ todo # <<>> /\ Head(todo) = Clear(x) /\ Step /\ taken' = taken
        /\ table' = Cleared(table, x) /\ disk' = Cleared(disk, x)
  BY DEF dir_next_clear, At
<1>2. disk = table
  <2>1. ~ dirty
    BY <1>1, Kinds DEF Inv, Ready
  <2> QED
    BY <2>1, InvMeans
<1>3. /\ todo \in Seq(Steps) /\ todo[1] = Clear(x) /\ Kind(todo[1]) = "clear"
      /\ ~ IsWrite(todo[1])
  BY <1>1, InvMeans, Kinds DEF IsWrite, Kind
<1>4. \A i \in DOMAIN table : Sector(i) = x => table[i] \in {Old, Blank}
  BY <1>1, ClearedWere
<1>5. /\ table \in Seq(Entries) /\ table' \in Seq(Entries) /\ DOMAIN table' = DOMAIN table
      /\ \A i \in DOMAIN table : table'[i] = IF Sector(i) = x THEN Blank ELSE table[i]
  BY <1>1, InvMeans, ClearedTypes DEF Cleared
<1>6. Shrunk(table, table') /\ Shrunk(table', table)
  BY <1>1, <1>4, <1>5, ShrunkCleared, ClearedKeeps
<1>7. \A i \in DOMAIN table : table[i].kind = "lfn" => table'[i] = table[i]
  BY <1>4, <1>5, Kinds
<1>8. ASSUME NEW i \in Places PROVE Seen(table', i) = Seen(table, i)
  <2>1. CASE i \notin DOMAIN table
    BY <1>5, <2>1 DEF Seen
  <2>2. CASE i \in DOMAIN table /\ Sector(i) = x
    BY <1>4, <1>5, <2>2 DEF Seen
  <2>3. CASE i \in DOMAIN table /\ Sector(i) # x
    BY <1>5, <2>3 DEF Seen
  <2> QED
    BY <2>1, <2>2, <2>3
<1>9. disk' = table'
  BY <1>1, <1>2
<1> QED
  BY <1>1, <1>3, <1>5, <1>6, <1>7, <1>8, <1>9, QuietStep

----------------------------------------------------------------------------
(* The writes of a call.                                                   *)

\* The names of a new entry are free, or those of its file.
LEMMA SfnBrings ==
  ASSUME NEW t, NEW u, NEW x, NEW e, Puts(t, u, x, e), NEW f, e.kind = "sfn", e.file = f,
         NEW T, NEW U, T \subseteq U, NEW nm, Onward(t, T, nm, f), NEW a,
         Leads(t, T, e.sfn, f), Leads(t, T, a, f), LongText(u, x) \subseteq {a} \cup U
  PROVE  Brings(t, u, U, nm, f)
<1> USE DEF Puts
<1>1. ASSUME NEW i, Live(u, i), i # x
      PROVE  Live(t, i) /\ u[i] = t[i] /\ LongText(u, i) \subseteq LongText(t, i)
  <2>1. i \in DOMAIN t /\ u[i] = t[i] /\ i \in Nat \ {0}
    BY <1>1 DEF Live
  <2>2. Live(t, i)
    BY <1>1, <2>1 DEF Live, IsSfn
  <2>3. ASSUME NEW j \in 1 .. i - 1, u[j].kind = "lfn" PROVE u[j] = t[j]
    <3>1. j \in DOMAIN t
      BY <2>1
    <3> QED
      BY <2>3, <3>1
  <2>4. LongText(u, i) \subseteq LongText(t, i)
    BY <2>1, <2>3, FewerNames
  <2> QED
    BY <2>1, <2>2, <2>4
<1>2. ASSUME Live(u, x), NEW n \in Called(u, x) \cap Name PROVE nm[n] \in {NoFile, f} \/ n \in U
  <2>1. n = e.sfn \/ n = a \/ n \in U
    BY <1>2 DEF Live, Called
  <2> SUFFICES ASSUME n \notin U, nm[n] \notin {NoFile, f} PROVE FALSE
    OBVIOUS
  <2>2. PICK j : Live(t, j) /\ n \in Called(t, j) /\ t[j].file = nm[n]
    BY DEF Onward, Led
  <2>3. Leads(t, T, n, f)
    BY <2>1
  <2> QED
    BY <2>2, <2>3 DEF Leads
<1>3. Live(u, x) => u[x].file = f
  BY DEF Live
<1> QED
  BY <1>1, <1>2, <1>3 DEF Brings

\* What write_entry does, and where.
LEMMA WriteDoes ==
  ASSUME Inv, Listing, write_entry, NEW w, NEW x, NEW e, w = Head(todo), x = w[1], e = w[2]
  PROVE  /\ todo \in Seq(Steps) /\ todo # <<>> /\ todo[1] = w /\ IsWrite(w) /\ Step
         /\ Puts(table, table', x, e) /\ disk' \in {disk, table}
         /\ taken' = IF Kind(w) = "sfn" THEN taken \cup TakenBy(w) ELSE taken
         /\ Kind(w) \in {"lfn", "sfn", "deleted"} /\ e.kind = Kind(w) /\ e # Old
         /\ IsNew(w) => x \in DOMAIN table /\ Unused(table, x)
         /\ Kind(w) = "lfn" => Unused(table, x + 1)
         /\ Kind(w) = "sfn" =>
              /\ e.file \in File /\ LongText(table', x) \subseteq {asked} \cup taken'
              /\ Leads(table, taken, e.sfn, e.file) /\ Leads(table, taken, asked, e.file)
         /\ \A i \in DOMAIN table : table[i] # Old
<1>1. /\ todo # <<>> /\ IsWrite(w) /\ todo' = Tail(todo) /\ Step
      /\ table' = [table EXCEPT ![x] = e]
      /\ disk' \in {disk, table}
      /\ taken' = IF Kind(w) = "sfn" THEN taken \cup TakenBy(w) ELSE taken
  BY InvMeans DEF write_entry, Step, Kind
<1>2. /\ todo \in Seq(Steps) /\ todo[1] = w /\ 1 \in 1 .. Len(todo) /\ OneSfn(todo)
      /\ Kind(w) \in {"lfn", "sfn", "deleted"}
  BY <1>1, InvMeans, TailIs DEF IsWrite, Kind, Inv
<1>3. x \in Nat /\ e \in Entries /\ e.kind = Kind(w)
  BY <1>1, <1>2, NewIs
<1>4. Puts(table, table', x, e)
  <2>1. table \in Seq(Entries)
    BY InvMeans
  <2>2. /\ table' \in Seq(Entries) /\ Len(table') = Len(table) /\ DOMAIN table' = DOMAIN table
        /\ \A i \in DOMAIN table : table'[i] = IF i = x THEN e ELSE table[i]
    BY <1>1, <1>3, <2>1, Replaced
  <2> QED
    BY <1>3, <2>1, <2>2 DEF Puts
<1>5. Kind(w) = "sfn" => /\ e.file \in File
                         /\ Leads(table, taken, e.sfn, e.file) /\ Leads(table, taken, asked, e.file)
  BY <1>2 DEF Listing, Promised
<1>6. e # Old
  BY <1>3, <1>5, Kinds, TableAssumption
<1>7. Kind(Head(todo)) \notin {"flush", "clear"}
  BY <1>2
<1>8. PICK s \in Nat, c \in Nat : Left(todo, s, 0, c) /\ Filled(table, s, 0)
  BY <1>7, NoOld
<1>9. \A i \in DOMAIN table : table[i] # Old
  BY <1>7, NoOld
<1>10. 0 \in 0 .. PerCluster + 1
  BY Sizes
<1>11. c = 0
  BY <1>1, <1>2, <1>8, <1>10, LeftHead
<1>12. IsNew(w) => x \in 1 .. PerSector * s
  BY <1>1, <1>2, <1>8, <1>11, LeftWrites
<1>13. IsNew(w) => x \in DOMAIN table /\ Unused(table, x)
  <2>1. Len(table) = PerSector * s
    BY <1>8 DEF Filled
  <2>2. IsNew(w) => Unused(table, x)
    BY <1>2 DEF Listing, Placed, OnUnused
  <2> QED
    BY <1>4, <1>12, <2>1, <2>2 DEF Puts
<1>14. Kind(w) = "sfn" => LongText(table', x) \subseteq {asked} \cup taken'
  <2> SUFFICES ASSUME Kind(w) = "sfn", NEW n \in LongText(table', x), n # asked
               PROVE  n \in taken'
    OBVIOUS
  <2>1. x \in DOMAIN table /\ x \in Nat \ {0} /\ table'[x] = e
    BY <1>4, <1>13 DEF IsNew, Puts
  <2>2. PICK b \in 1 .. x - 1 : Attached(table', b, x)
    BY <2>1, LongTextIs
  <2>3. x - 1 \in b .. x - 1
    BY <2>1
  <2>4. table'[x - 1].sum = Sum[e.sfn]
    BY <2>1, <2>2, <2>3 DEF Attached
  <2>5. n \in TakenBy(w)
    BY <2>4 DEF TakenBy
  <2> QED
    BY <1>1, <2>5
<1>15. Kind(w) = "lfn" => Unused(table, x + 1)
  <2> SUFFICES ASSUME Kind(w) = "lfn" PROVE Unused(table, x + 1)
    OBVIOUS
  <2>1. PICK v, t, u, T, a : v = todo /\ t = table /\ u = table' /\ T = taken /\ a = asked
    OBVIOUS
  <2>2. /\ v \in Seq(Steps) /\ v # <<>> /\ IsNew(v[1]) /\ OneSfn(v)
        /\ Puts(t, u, v[1][1], v[1][2]) /\ T \subseteq T
        /\ v[1][1] \in DOMAIN t /\ v[1][2] # Old
        /\ Placed(v, t) /\ Promised(v, t, T, a) /\ Kind(v[1]) = "lfn"
    BY <1>1, <1>2, <1>4, <1>6, <1>13, <2>1 DEF Listing, IsNew
  <2>3. Unused(t, v[1][1] + 1)
    BY <2>2, PlacedWritten
  <2> QED
    BY <1>2, <2>1, <2>3
<1> QED
  BY <1>1, <1>2, <1>3, <1>4, <1>5, <1>6, <1>9, <1>13, <1>14, <1>15

\* An entry is deleted in one way.
LEMMA DeletedIs ==
  ASSUME NEW w \in Steps, Kind(w) = "deleted"
  PROVE  w[2] = Deleted
<1>1. IsWrite(w)
  BY DEF IsWrite, Kind
<1>2. w[2] \in Entries /\ w[2].kind = "deleted"
  BY <1>1, WriteIs DEF Kind
<1> QED
  BY <1>2, Kinds, EntryKinds DEF Entries

\* Before the first failure the parts that are found before a new short name
\* are its own.
NoneOld(t) == \A i \in DOMAIN t : t[i] # Old
First(w, x, e) == x = w[1][1] /\ e = w[1][2]

LEMMA OwnParts ==
  ASSUME NEW w \in Seq(Steps), w # <<>>, Kind(w[1]) = "sfn", InOrder(w),
         NEW t, NEW u, NEW x, NEW e, Puts(t, u, x, e), First(w, x, e), e # Old,
         x \in DOMAIN t, Unused(t, x), NoneOld(t),
         NEW f, Removes(w, t, f), NEW F, Results(F, t, w)
  PROVE  LongText(u, x) \subseteq LongText(F, x)
<1> USE DEF Puts, First
<1>1. 1 \in 1 .. Len(w) /\ Len(w) \in Nat /\ IsWrite(w[1]) /\ IsNew(w[1])
  BY DEF IsWrite, IsNew, Kind
<1>2. F[x] = e
  BY <1>1 DEF Results
<1>3. x \in Nat \ {0} /\ u[x] = e /\ DOMAIN t = 1 .. Len(t)
  OBVIOUS
<1>4. x \in Nat \ {0} /\ u[x] = e /\ DOMAIN t = 1 .. Len(t) /\ t[x].kind \in {"deleted", "free"}
  BY <1>3 DEF Unused, NoneOld
<1>5. ASSUME NEW j \in 1 .. x - 1, u[j].kind = "lfn"
      PROVE  u[j] = F[j] \/ \E z \in j + 1 .. x - 1 : u[z].kind # "lfn"
  <2>1. j \in Nat \ {0} /\ j \in 1 .. Len(t) /\ j # x
    BY <1>4
  <2>2. j \in DOMAIN t /\ j \in Places /\ u[j] = t[j] /\ t[j] # Old
    BY <1>4, <2>1 DEF Places, NoneOld
  <2>3. CASE F[j] = Seen(t, j)
    BY <2>2, <2>3 DEF Seen
  <2>4. CASE F[j] # Seen(t, j)
    <3>1. PICK k \in 1 .. Len(w) : IsWrite(w[k]) /\ w[k][1] = j
      BY <2>2, <2>4 DEF Results
    <3>2. ~ IsNew(w[k])
      <4> SUFFICES ASSUME IsNew(w[k]) PROVE FALSE
        OBVIOUS
      <4>1. j = x + (k - 1)
        BY <1>1, <3>1 DEF InOrder
      <4> QED
        BY <1>4, <4>1
    <3>3. Kind(w[k]) = "deleted"
      BY <3>1, <3>2 DEF IsWrite, IsNew, Kind
    <3>4. PICK i \in Nat : RemovesAt(w, t, f, i, k)
      BY <3>3 DEF Removes
    <3>5. /\ j \in 1 .. i /\ Live(t, i) /\ \A z \in j .. i - 1 : t[z].kind = "lfn"
      BY <3>1, <3>4 DEF RemovesAt
    <3>6. i # x /\ x \notin j .. i - 1 /\ t[i].kind = "sfn"
      BY <1>4, <3>5 DEF Live, IsSfn
    <3>7. i # j
      BY <1>5, <2>2, <3>6
    <3>8. i \in j + 1 .. x - 1 /\ i \in DOMAIN t /\ i # x
      BY <1>4, <2>2, <3>5, <3>6, <3>7
    <3>9. u[i].kind = "sfn"
      BY <3>6, <3>8
    <3> QED
      BY <3>8, <3>9
  <2> QED
    BY <2>3, <2>4
<1>6. u[x].sfn = F[x].sfn
  BY <1>2, <1>4
<1>7. LongText(u, x) \subseteq LongText(F, x)
  BY <1>4, <1>5, <1>6, FewerNames
<1> QED
  BY <1>7

LEMMA WriteNames ==
  ASSUME Inv, Listing, Listing', Naming, write_entry
  PROVE  Naming' /\ Seems
<1>1. PICK f \in File \cup {NoFile}, F \in [Places -> Entries] : Calling(f, F)
  BY DEF Naming
<1>2. PICK w, x, e : w = Head(todo) /\ x = w[1] /\ e = w[2]
  OBVIOUS
<1>3. /\ todo \in Seq(Steps) /\ todo # <<>> /\ todo[1] = w /\ IsWrite(w) /\ Step
      /\ Puts(table, table', x, e) /\ disk' \in {disk, table}
      /\ taken' = IF Kind(w) = "sfn" THEN taken \cup TakenBy(w) ELSE taken
      /\ Kind(w) \in {"lfn", "sfn", "deleted"} /\ e.kind = Kind(w) /\ e # Old
      /\ IsNew(w) => x \in DOMAIN table /\ Unused(table, x)
      /\ Kind(w) = "lfn" => Unused(table, x + 1)
      /\ Kind(w) = "sfn" =>
           /\ e.file \in File /\ LongText(table', x) \subseteq {asked} \cup taken'
           /\ Leads(table, taken, e.sfn, e.file) /\ Leads(table, taken, asked, e.file)
      /\ \A i \in DOMAIN table : table[i] # Old
  BY <1>2, WriteDoes
<1>4. /\ Onward(table, taken, names, f) /\ Removes(todo, table, f) /\ Gives(todo, f)
      /\ Results(F, table, todo)
      /\ faults = 0 => Behindhand(todo, table, disk, taken, names)
  BY <1>1 DEF Calling
<1>5. /\ todo' = Tail(todo) /\ taken \subseteq taken' /\ 1 \in 1 .. Len(todo)
      /\ table' \in Seq(Entries) /\ table \in Seq(Entries)
  BY <1>3 DEF Step, Puts
<1>6. Kind(w) \in {"lfn", "sfn"} <=> IsNew(w)
  BY DEF IsNew
<1>7. IsNew(w) => Shrunk(table', table)
  BY <1>3, WrittenKeeps
<1>8. ASSUME Kind(w) = "deleted"
      PROVE  \E i : /\ Live(table, i) /\ table[i].file = f /\ x \in 1 .. i /\ x \in Nat \ {0}
                    /\ \A z \in x .. i - 1 : table[z].kind = "lfn"
  <2>1. PICK i \in Nat : RemovesAt(todo, table, f, i, 1)
    BY <1>3, <1>4, <1>5, <1>8 DEF Removes
  <2>2. /\ Live(table, i) /\ table[i].file = f /\ x \in 1 .. i
        /\ \A z \in x .. i - 1 : table[z].kind = "lfn"
    BY <1>2, <1>3, <2>1 DEF RemovesAt
  <2>3. x \in Nat \ {0}
    BY <2>2
  <2> QED
    BY <2>2, <2>3
<1>9. x \in DOMAIN table
  <2>1. CASE IsNew(w)
    BY <1>3, <2>1
  <2>2. CASE ~ IsNew(w)
    <3>1. PICK i : Live(table, i) /\ x \in 1 .. i
      BY <1>3, <1>6, <1>8, <2>2
    <3>2. i \in DOMAIN table
      BY <3>1 DEF Live
    <3> QED
      BY <1>5, <3>1, <3>2
  <2> QED
    BY <2>1, <2>2
<1>10. Onward(table', taken', names, f)
  <2>1. CASE Kind(w) = "deleted"
    <3>1. e = Deleted
      BY <1>2, <1>3, <1>5, <2>1, DeletedIs
    <3>2. Shrunk(table, table')
      <4>1. e.kind \in {"lfn", "deleted"} /\ (e.kind = "lfn" => Unused(table, x + 1))
        BY <1>3, <2>1
      <4> QED
        BY <1>3, <4>1, ShrunkWritten
    <3>3. Keeps(table, table', f)
      <4>1. PICK i : /\ Live(table, i) /\ table[i].file = f /\ x \in 1 .. i /\ x \in Nat \ {0}
                     /\ \A z \in x .. i - 1 : table[z].kind = "lfn"
        BY <1>8, <2>1
      <4>2. Puts(table, table', x, Deleted)
        BY <1>3, <3>1
      <4> QED
        BY <4>1, <4>2, DeletedKeeps
    <3> QED
      BY <1>4, <1>5, <3>2, <3>3, FewerBrings, OnwardStep
  <2>2. CASE Kind(w) = "lfn"
    <3>1. Shrunk(table, table')
      <4>1. e.kind \in {"lfn", "deleted"} /\ (e.kind = "lfn" => Unused(table, x + 1))
        BY <1>3, <2>2
      <4> QED
        BY <1>3, <4>1, ShrunkWritten
    <3>2. Keeps(table, table', f)
      BY <1>6, <1>7, <2>2, MoreKeeps
    <3> QED
      BY <1>4, <1>5, <3>1, <3>2, FewerBrings, OnwardStep
  <2>3. CASE Kind(w) = "sfn"
    <3>1. e.file = f
      BY <1>2, <1>3, <1>4, <1>5, <2>3 DEF Gives
    <3>2. Keeps(table, table', f)
      BY <1>6, <1>7, <2>3, MoreKeeps
    <3>3. Brings(table, table', taken', names, f)
      <4>1. PICK t, u, T, U, nm, a :
              /\ t = table /\ u = table' /\ T = taken /\ U = taken' /\ nm = names /\ a = asked
        OBVIOUS
      <4>2. /\ Puts(t, u, x, e) /\ e.kind = "sfn" /\ e.file = f /\ T \subseteq U
            /\ Onward(t, T, nm, f) /\ Leads(t, T, e.sfn, f) /\ Leads(t, T, a, f)
            /\ LongText(u, x) \subseteq {a} \cup U
        BY <1>3, <1>4, <1>5, <2>3, <3>1, <4>1
      <4>3. Brings(t, u, U, nm, f)
        BY <4>2, SfnBrings
      <4> QED
        BY <4>1, <4>3
    <3> QED
      BY <1>4, <1>5, <3>2, <3>3, OnwardStep
  <2> QED
    BY <1>3, <2>1, <2>2, <2>3
<1>11. Removes(todo', table', f)
  <2>1. PICK v, t, u : v = todo /\ t = table /\ u = table'
    OBVIOUS
  <2>2. ASSUME NEW i \in DOMAIN t, Live(t, i) \/ t[i].kind = "lfn",
               ~ (Kind(v[1]) = "deleted" /\ v[1][1] = i)
        PROVE  i \in DOMAIN u /\ u[i] = t[i]
    <3>1. CASE i # x
      BY <1>3, <2>1, <2>2, <3>1 DEF Puts
    <3>2. CASE i = x
      <4>1. Unused(t, x)
        BY <1>2, <1>3, <1>6, <2>1, <2>2, <3>2
      <4>2. t[x].kind # "lfn" /\ ~ Live(t, x)
        BY <2>2, <3>2, <4>1, Kinds DEF Unused, Live, IsSfn
      <4> QED
        BY <2>2, <3>2, <4>2
    <3> QED
      BY <3>1, <3>2
  <2>3. Removes(Tail(v), u, f)
    BY <1>3, <1>4, <1>5, <2>1, <2>2, RemovesNext
  <2> QED
    BY <1>5, <2>1, <2>3
<1>12. Gives(todo', f)
  BY <1>3, <1>4, <1>5, GivesNext
<1>13. Results(F, table', todo')
  <2>1. ASSUME NEW i \in Places
        PROVE  \/ Seen(table', i) = Seen(table, i) /\ ~ (IsWrite(todo[1]) /\ todo[1][1] = i)
               \/ IsWrite(todo[1]) /\ todo[1][1] = i /\ Seen(table', i) = todo[1][2]
    <3>1. CASE i = x
      <4>1. Seen(table', i) = e
        BY <1>3, <1>9, <3>1 DEF Puts, Seen
      <4> QED
        BY <1>2, <1>3, <3>1, <4>1
    <3>2. CASE i # x
      <4>1. Seen(table', i) = Seen(table, i)
        BY <1>3, <3>2 DEF Puts, Seen
      <4> QED
        BY <1>2, <1>3, <3>2, <4>1
    <3> QED
      BY <3>1, <3>2
  <2> QED
    BY <1>3, <1>4, <1>5, <2>1, ResultsNext
<1>14. ASSUME faults = 0 PROVE taken' = {}
  <2>1. taken = {}
    BY <1>4, <1>14 DEF Behindhand
  <2>2. CASE Kind(w) # "sfn"
    BY <1>3, <2>1, <2>2
  <2>3. CASE Kind(w) = "sfn"
    <3>1. e.file = f /\ f \in File /\ f # NoFile
      BY <1>2, <1>3, <1>4, <1>5, <2>3, TableAssumption DEF Gives
    <3>2. Purpose(F, names, asked, f, faults)
      BY <1>1, <3>1 DEF Calling
    <3>3. F[x] = e /\ LongText(table', x) \subseteq LongText(F, x)
      <4>1. PICK v, t, u : v = todo /\ t = table /\ u = table'
        OBVIOUS
      <4>2. /\ v \in Seq(Steps) /\ v # <<>> /\ Kind(v[1]) = "sfn" /\ InOrder(v)
            /\ Puts(t, u, x, e) /\ First(v, x, e) /\ x \in DOMAIN t /\ Unused(t, x)
            /\ e # Old
        BY <1>2, <1>3, <1>6, <2>3, <4>1 DEF Listing, Placed, First
      <4>3. NoneOld(t)
        BY <1>3, <4>1 DEF NoneOld
      <4>4. Removes(v, t, f) /\ Results(F, t, v)
        BY <1>4, <4>1
      <4>5. LongText(u, x) \subseteq LongText(F, x)
        BY <4>2, <4>3, <4>4, OwnParts
      <4>6. F[x] = e
        BY <1>2, <1>3, <1>4, <1>5 DEF Results
      <4> QED
        BY <4>1, <4>5, <4>6
    <3>4. Live(F, x)
      <4>1. x \in Places
        BY <1>5, <1>9 DEF Places
      <4> QED
        BY <1>3, <2>3, <3>3, <4>1 DEF Live, IsSfn
    <3>5. LongText(F, x) \subseteq {asked}
      BY <1>14, <3>1, <3>2, <3>3, <3>4 DEF Purpose, Given, Gone
    <3>6. TakenBy(w) = {}
      BY <1>2, <3>3, <3>5 DEF TakenBy
    <3> QED
      BY <1>3, <2>1, <2>3, <3>6
  <2> QED
    BY <2>2, <2>3
<1>15. ASSUME faults = 0 PROVE Behindhand(todo', table', disk', taken', names)
  <2>1. Behindhand(todo, table, disk, taken, names) /\ taken = {} /\ taken' = {}
    BY <1>4, <1>14, <1>15 DEF Behindhand
  <2>2. Agrees(table, {}, names) /\ Agrees(table', {}, names)
    BY <1>4, <1>10, <2>1 DEF Onward
  <2>3. Shrunk(table', table) \/ Syncs(todo)
    BY <1>3, <1>4, <1>5, <1>6, <1>7 DEF Removes
  <2>4. Kind(todo[1]) # "sync"
    BY <1>3
  <2> QED
    BY <1>3, <1>5, <2>1, <2>2, <2>3, <2>4, DiskFollows
<1> QED
  BY <1>1, <1>3, <1>5, <1>10, <1>11, <1>12, <1>13, <1>15, GoesOn

LEMMA SyncNames ==
  ASSUME Inv, Naming, f_sync
  PROVE  Naming' /\ Seems
<1>1. /\ todo = <<>> /\ todo' = todo /\ table' = table /\ disk' = table
      /\ names' = names /\ asked' = asked /\ taken' = taken /\ faults' = faults
  BY InvMeans DEF f_sync
<1>2. PICK f \in File \cup {NoFile}, F \in [Places -> Entries] : Calling(f, F)
  BY DEF Naming
<1>3. faults = 0 => Behindhand(todo', table', disk', taken', names')
  BY <1>1, <1>2, ShrunkSame DEF Calling, Behindhand, Onward
<1>4. Calling(f, F)'
  BY <1>1, <1>2, <1>3 DEF Calling
<1>5. Naming'
  BY <1>1, <1>4 DEF Naming
<1> QED
  BY <1>1, <1>5 DEF Seems

LEMMA StutterNames ==
  ASSUME Naming, UNCHANGED vars
  PROVE  Naming' /\ Seems
<1>1. /\ todo' = todo /\ table' = table /\ disk' = disk
      /\ names' = names /\ asked' = asked /\ taken' = taken /\ faults' = faults
  BY DEF vars
<1>2. Naming'
  BY <1>1 DEF Naming, Calling
<1> QED
  BY <1>1, <1>2 DEF Seems

----------------------------------------------------------------------------
(* Calls that are cut short.                                               *)

\* The names of table t, between calls.
LEMMA RestNames ==
  ASSUME NEW t \in Seq(Entries), NEW F, F = [i \in Places |-> Seen(t, i)]
  PROVE  F \in [Places -> Entries] /\ Results(F, t, <<>>)
<1>1. \A i \in Places : Seen(t, i) \in Entries
  BY EntryKinds DEF Seen
<1>2. Len(<<>>) = 0 /\ \A k \in 1 .. 0 : FALSE
  OBVIOUS
<1> QED
  BY <1>1, <1>2 DEF Results

LEMMA BrokenNames ==
  ASSUME Inv, Listing, Listing', Naming, todo' = <<>>, names' = NamesOf(table'), asked' = NoName,
         taken' = taken, faults' = faults + 1, table' \in Seq(Entries),
         table' \in {table, disk} \/ \E x : table' = Cleared(table, x)
  PROVE  Naming' /\ Seems
<1>1. PICK f \in File \cup {NoFile}, G \in [Places -> Entries] : Calling(f, G)
  BY DEF Naming
<1>2. Sound(table', taken') /\ Stretching(<<>>, table')
  BY DEF Listing
<1>3. Whole(table') /\ Own(table', taken') /\ Apart(table', taken')
  BY <1>2, AtRest
<1>4. Onward(table', taken', names', NoFile)
  BY <1>3, OnwardNames
<1>5. faults \in Nat /\ faults' \in Nat /\ faults' # 0 /\ (faults > 0)' /\ (faults # 0 => faults > 0)
  BY DEF Naming
<1>6. Naming'
  <2>1. PICK F : F = [i \in Places |-> Seen(table', i)]
    OBVIOUS
  <2>2. F \in [Places -> Entries] /\ Results(F, table', todo')
    BY <2>1, RestNames
  <2>3. Removes(todo', table', NoFile) /\ Gives(todo', NoFile)
    BY NothingToDo
  <2>4. Calling(NoFile, F)'
    BY <1>4, <1>5, <2>2, <2>3 DEF Calling
  <2>5. names' = [n \in Name |-> names'[n]]
    BY DEF NamesOf
  <2> QED
    BY <1>5, <2>2, <2>4, <2>5 DEF Naming
<1>7. ASSUME faults = 0, NEW n \in Name, names'[n] # names[n] PROVE NoFile \in {names[n], names'[n]}
  <2>1. Agrees(table, {}, names) /\ Agrees(disk, {}, names)
    BY <1>1, <1>7 DEF Calling, Behindhand, Onward
  <2>2. Agrees(table', {}, names)
    BY <2>1, InvMeans, ShrunkCleared, FewerAgree
  <2>3. PICK t, m : t = table' /\ m = NamesOf(t)[n]
    OBVIOUS
  <2>4. \/ m = NoFile
        \/ \E d : Live(t, d) /\ n \in Called(t, d) /\ m = t[d].file
    BY <1>3, <2>3, NamesAre
  <2>5. m = NoFile \/ names[n] \in {NoFile, m}
    BY <2>2, <2>3, <2>4 DEF Agrees
  <2> QED
    BY <1>7, <2>3, <2>5
<1>8. Names!Lose
  BY <1>5, <1>7 DEF Names!Lose, Names!Take
<1> QED
  BY <1>6, <1>8 DEF Seems, Names!Next

LEMMA WriteErrorNames ==
  ASSUME Inv, Listing, Listing', Naming, write_error
  PROVE  Naming' /\ Seems
<1>1. /\ todo' = <<>> /\ names' = NamesOf(table') /\ asked' = NoName /\ taken' = taken
      /\ faults' = faults + 1 /\ table' = table /\ table \in Seq(Entries)
  BY InvMeans DEF write_error, Fails, Returned
<1> QED
  BY <1>1, BrokenNames

LEMMA ClearErrorNames ==
  ASSUME Inv, Listing, Listing', Naming, clear_error
  PROVE  Naming' /\ Seems
<1>1. PICK x \in 1 .. Fat - 1 :
        /\ todo' = <<>> /\ names' = NamesOf(table') /\ asked' = NoName /\ taken' = taken
        /\ faults' = faults + 1 /\ table' = Cleared(table, x)
  BY DEF clear_error, Fails, Returned
<1>2. table' \in Seq(Entries)
  BY <1>1, InvMeans, ClearedTypes
<1> QED
  BY <1>1, <1>2, BrokenNames

LEMMA PowerLossNames ==
  ASSUME Inv, Listing, Listing', Naming, PowerLoss
  PROVE  Naming' /\ Seems
<1>1. /\ todo' = <<>> /\ names' = NamesOf(table') /\ asked' = NoName /\ taken' = taken
      /\ faults' = faults + 1 /\ table' = disk /\ disk \in Seq(Entries)
  BY InvMeans DEF PowerLoss, Fails, Returned
<1> QED
  BY <1>1, BrokenNames

----------------------------------------------------------------------------
(* What a call is about.                                                   *)

\* Between calls the names are those of the table, and no file's.
LEMMA RestingNames ==
  ASSUME Inv, Listing, Naming, todo = <<>>
  PROVE  /\ Whole(table) /\ Clusters(table) /\ Own(table, taken) /\ Apart(table, taken)
         /\ faults \in Nat /\ names = [n \in Name |-> names[n]] /\ names = NamesOf(table)
         /\ asked = NoName /\ Onward(table, taken, names, NoFile)
         /\ \E F \in [Places -> Entries] :
              /\ \A i \in Places : F[i] = Seen(table, i)
              /\ faults = 0 => /\ Clean(F) /\ taken = {} /\ Agrees(disk, {}, names)
                               /\ Agrees(table, {}, names) /\ Shrunk(table, disk)
<1>1. Whole(table) /\ Clusters(table) /\ Own(table, taken) /\ Apart(table, taken)
  BY BetweenCalls
<1>2. PICK f \in File \cup {NoFile}, F \in [Places -> Entries] : Calling(f, F)
  BY DEF Naming
<1>3. f = NoFile /\ asked = NoName /\ Onward(table, taken, names, NoFile)
  BY <1>2 DEF Calling
<1>4. faults \in Nat /\ names = [n \in Name |-> names[n]]
  BY DEF Naming
<1>5. \A i \in Places : F[i] = Seen(table, i)
  <2>1. Len(<<>>) = 0 /\ \A k \in 1 .. 0 : FALSE
    OBVIOUS
  <2>2. Results(F, table, <<>>)
    BY <1>2 DEF Calling
  <2> QED
    BY <2>1, <2>2 DEF Results
<1>6. faults = 0 => /\ Clean(F) /\ taken = {} /\ Agrees(disk, {}, names)
                    /\ Agrees(table, {}, names) /\ Shrunk(table, disk)
  BY <1>2 DEF Calling, Behindhand, Syncs, Onward
<1>7. ASSUME NEW n \in Name PROVE names[n] = NamesOf(table)[n]
  <2>1. PICK m : m = NamesOf(table)[n]
    OBVIOUS
  <2>2. /\ names[n] = NoFile => m = NoFile \/ (m = NoFile /\ m \in File)
        /\ names[n] \notin {NoFile, NoFile} => m = names[n] \/ (m = NoFile /\ m \in File /\ n \in taken)
    BY <1>1, <1>3, <2>1, OnwardIs
  <2> QED
    BY <2>1, <2>2, TableAssumption
<1>8. names = NamesOf(table)
  BY <1>4, <1>7 DEF NamesOf
<1> QED
  BY <1>1, <1>3, <1>4, <1>5, <1>6, <1>8

\* The scans of a call leave the disk behind the table.
LEMMA LookedBehind ==
  ASSUME Looked, taken = {}, Agrees(disk, {}, names), Agrees(table, {}, names), Shrunk(table, disk)
  PROVE  Behindhand(todo', table, disk', taken, names)
<1>1. disk' \in {disk, table}
  BY DEF Looked
<1> QED
  BY <1>1, ShrunkSame DEF Behindhand

\* A call that is about file f.
LEMMA Begins ==
  ASSUME Inv, Listing, Naming, todo = <<>>, todo' # <<>>, table' = table, taken' = taken,
         names' = names, faults' = faults, Looked, asked' \in Name,
         NEW f \in File, NEW F \in [Places -> Entries],
         Removes(todo', table, f), Gives(todo', f), Results(F, table, todo'),
         Purpose(F, names, asked', f, faults), faults = 0 => Clean(F)
  PROVE  Naming' /\ Seems
<1>1. /\ Own(table, taken) /\ faults \in Nat /\ names = [n \in Name |-> names[n]]
      /\ asked = NoName /\ Onward(table, taken, names, NoFile)
      /\ faults = 0 => /\ taken = {} /\ Agrees(disk, {}, names)
                       /\ Agrees(table, {}, names) /\ Shrunk(table, disk)
  BY RestingNames
<1>2. Onward(table, taken, names, f)
  BY <1>1, OnwardAny
<1>3. f # NoFile
  BY TableAssumption
<1>4. faults = 0 => Behindhand(todo', table, disk', taken, names)
  BY <1>1, LookedBehind
<1>5. Calling(f, F)'
  BY <1>2, <1>3, <1>4 DEF Calling
<1>6. Naming'
  BY <1>1, <1>5 DEF Naming
<1>7. Names!Ask
  BY <1>1 DEF Names!Ask
<1> QED
  BY <1>6, <1>7 DEF Seems, Names!Next

\* A call that only stretches the table.
LEMMA DeniedNames ==
  ASSUME Inv, Listing, Naming, todo = <<>>, NEW n \in Typed, dir_register_denied(n)
  PROVE  Naming' /\ Seems
<1> DEFINE u == Stretch(table, Slots)
<1>1. /\ todo' = u /\ table' = table /\ taken' = taken /\ Scanned({}, Slots)
      /\ names' = names /\ faults' = faults /\ asked' = NoName
  BY DEF dir_register_denied, Begin
<1>2. Slots \in Nat \ {0} /\ table \in Seq(Entries) /\ Len(table) > 0
  BY Sizes, InvMeans DEF Inv, TypeOK
<1>3. Looked
  BY <1>1, <1>2, ScannedIs
<1>4. u \in Seq(Steps) /\ \A k \in 1 .. Len(u) : Kind(u[k]) \in {"link", "flush", "clear"}
  BY <1>2, StretchIs
<1> HIDE DEF u
<1>5. \A k \in 1 .. Len(u) : Kind(u[k]) \notin {"sfn", "deleted"} /\ ~ IsWrite(u[k])
  BY <1>4 DEF IsWrite, Kind
<1>6. /\ faults \in Nat /\ names = [m \in Name |-> names[m]]
      /\ asked = NoName /\ Onward(table, taken, names, NoFile)
      /\ \E F \in [Places -> Entries] :
           /\ \A i \in Places : F[i] = Seen(table, i)
           /\ faults = 0 => /\ Clean(F) /\ taken = {} /\ Agrees(disk, {}, names)
                            /\ Agrees(table, {}, names) /\ Shrunk(table, disk)
  BY RestingNames
<1>7. PICK F \in [Places -> Entries] :
        /\ \A i \in Places : F[i] = Seen(table, i)
        /\ faults = 0 => /\ Clean(F) /\ taken = {} /\ Agrees(disk, {}, names)
                         /\ Agrees(table, {}, names) /\ Shrunk(table, disk)
  BY <1>6
<1>8. Removes(u, table, NoFile) /\ Gives(u, NoFile) /\ Results(F, table, u)
  <2>1. 0 \in Nat
    OBVIOUS
  <2> QED
    BY <1>5, <1>7, <2>1 DEF Removes, Gives, Results
<1>9. faults = 0 => Behindhand(todo', table, disk', taken, names)
  BY <1>3, <1>7, LookedBehind
<1>10. Calling(NoFile, F)'
  BY <1>1, <1>6, <1>7, <1>8, <1>9 DEF Calling
<1>11. Naming'
  BY <1>1, <1>6, <1>10 DEF Naming
<1> QED
  BY <1>1, <1>6, <1>11 DEF Seems

----------------------------------------------------------------------------
(* The steps of a call, and what they leave.                               *)

\* What w writes is in F; it writes entry i.
Writes(F, w) == \A k \in 1 .. Len(w) : IsWrite(w[k]) => F[w[k][1]] = w[k][2]
Touches(w, i) == \E k \in 1 .. Len(w) : IsWrite(w[k]) /\ w[k][1] = i

LEMMA ResultsAre ==
  ASSUME NEW F, NEW t, NEW w, Writes(F, w),
         \A i \in Places : F[i] = Seen(t, i) \/ Touches(w, i)
  PROVE  Results(F, t, w)
BY DEF Results, Writes, Touches

NoRemoval(u) == \A k \in 1 .. Len(u) : Kind(u[k]) # "deleted"

\* The steps that add entries, and those that remove some.
LEMMA JoinedSteps ==
  ASSUME NEW u \in Seq(Steps), NEW v \in Seq(Steps), NoRemoval(u),
         NEW t, NEW f, Removes(v, t, f), Gives(u, f), Gives(v, f),
         NEW F, Writes(F, u), Writes(F, v)
  PROVE  /\ Removes(u \o v, t, f) /\ Gives(u \o v, f) /\ Writes(F, u \o v)
         /\ \A i : Touches(u, i) \/ Touches(v, i) => Touches(u \o v, i)
<1> DEFINE w == u \o v
<1>1. /\ w \in Seq(Steps) /\ Len(w) = Len(u) + Len(v) /\ Len(u) \in Nat /\ Len(v) \in Nat
      /\ \A k \in 1 .. Len(u) : w[k] = u[k]
      /\ \A k \in 1 .. Len(v) : w[Len(u) + k] = v[k]
  BY Joined
<1> HIDE DEF w
<1>2. ASSUME NEW k \in 1 .. Len(w)
      PROVE  \/ k \in 1 .. Len(u) /\ w[k] = u[k]
             \/ k - Len(u) \in 1 .. Len(v) /\ w[k] = v[k - Len(u)]
  <2>1. CASE k \in 1 .. Len(u)
    BY <1>1, <2>1
  <2>2. CASE k \notin 1 .. Len(u)
    <3>1. k - Len(u) \in 1 .. Len(v) /\ Len(u) + (k - Len(u)) = k
      BY <1>1, <2>2
    <3> QED
      BY <1>1, <3>1
  <2> QED
    BY <2>1, <2>2
<1>3. Gives(w, f) /\ Writes(F, w)
  <2>1. ASSUME NEW k \in 1 .. Len(w)
        PROVE  /\ Kind(w[k]) = "sfn" => w[k][2].file = f
               /\ IsWrite(w[k]) => F[w[k][1]] = w[k][2]
    BY <1>2 DEF Gives, Writes
  <2> QED
    BY <2>1 DEF Gives, Writes
<1>4. ASSUME NEW i, Touches(u, i) \/ Touches(v, i) PROVE Touches(w, i)
  <2>1. CASE Touches(u, i)
    <3>1. PICK k \in 1 .. Len(u) : IsWrite(u[k]) /\ u[k][1] = i
      BY <2>1 DEF Touches
    <3>2. k \in 1 .. Len(w) /\ w[k] = u[k]
      BY <1>1
    <3> QED
      BY <3>1, <3>2 DEF Touches
  <2>2. CASE Touches(v, i)
    <3>1. PICK k \in 1 .. Len(v) : IsWrite(v[k]) /\ v[k][1] = i
      BY <2>2 DEF Touches
    <3>2. Len(u) + k \in 1 .. Len(w) /\ w[Len(u) + k] = v[k]
      BY <1>1
    <3> QED
      BY <3>1, <3>2 DEF Touches
  <2> QED
    BY <1>4, <2>1, <2>2
<1>5. PICK i \in Nat : \A k \in 1 .. Len(v) : Kind(v[k]) = "deleted" => RemovesAt(v, t, f, i, k)
  BY DEF Removes
<1>6. ASSUME NEW k \in 1 .. Len(w), Kind(w[k]) = "deleted"
      PROVE  RemovesAt(w, t, f, i, k) /\ Syncs(w)
  <2>1. k - Len(u) \in 1 .. Len(v) /\ w[k] = v[k - Len(u)]
    BY <1>2, <1>6 DEF NoRemoval
  <2>2. PICK m : m = k - Len(u)
    OBVIOUS
  <2>3. RemovesAt(v, t, f, i, m) /\ Syncs(v)
    BY <1>5, <1>6, <2>1, <2>2 DEF Removes
  <2>4. /\ w[k][1] \in 1 .. i /\ Live(t, i) /\ t[i].file = f
        /\ \A z \in w[k][1] .. i - 1 : t[z].kind = "lfn"
        /\ \A l \in m + 1 .. Len(v) : Kind(v[l]) = "deleted" => w[k][1] < v[l][1]
    BY <2>1, <2>2, <2>3 DEF RemovesAt
  <2>5. ASSUME NEW l \in k + 1 .. Len(w), Kind(w[l]) = "deleted" PROVE w[k][1] < w[l][1]
    <3>1. l \in 1 .. Len(w) /\ l - Len(u) >= m + 1
      BY <1>1, <2>1, <2>2
    <3>2. l - Len(u) \in 1 .. Len(v) /\ w[l] = v[l - Len(u)]
      BY <1>2, <2>5, <3>1 DEF NoRemoval
    <3>3. l - Len(u) \in m + 1 .. Len(v)
      BY <2>1, <2>2, <3>1, <3>2
    <3> QED
      BY <2>4, <2>5, <3>2, <3>3
  <2>6. Syncs(w)
    <3>1. Len(v) \in 1 .. Len(v) /\ Len(w) = Len(u) + Len(v)
      BY <1>1, <2>1
    <3>2. w[Len(w)] = v[Len(v)]
      BY <1>1, <3>1
    <3>3. w # <<>>
      BY <1>6
    <3> QED
      BY <2>3, <3>2, <3>3 DEF Syncs
  <2> QED
    BY <2>4, <2>5, <2>6 DEF RemovesAt
<1>7. Removes(w, t, f)
  BY <1>6 DEF Removes
<1> QED
  BY <1>3, <1>4, <1>7 DEF w

\* The steps of dir_remove and sync_fs.
LEMMA RemoveSteps ==
  ASSUME NEW t, Whole(t), NEW i, Live(t, i), NEW f, f = t[i].file,
         NEW F, \A j \in Block(t, i) .. i : F[j] = Deleted, NEW v, v = dir_remove(t, i) \o Sync
  PROVE  /\ v \in Seq(Steps) /\ v # <<>> /\ Removes(v, t, f) /\ Gives(v, f) /\ Writes(F, v)
         /\ \A j \in Block(t, i) .. i : Touches(v, j)
<1> DEFINE b == Block(t, i)
           r == dir_remove(t, i)
<1>1. t \in Seq(Entries) /\ i \in DOMAIN t /\ i \in Nat \ {0}
  BY DEF Whole, Live
<1>2. /\ b \in 1 .. i /\ r \in Seq(Steps)
      /\ b # i => \A j \in b .. i - 1 : t[j].kind = "lfn"
  BY <1>1, BlockIs, RemoveIs, BlockHeads DEF Heads
<1>3. r = [k \in 1 .. i - b + 1 |-> <<b + k - 1, Deleted>>]
  BY DEF dir_remove
<1> HIDE DEF b, r
<1>4. /\ Len(r) = i - b + 1
      /\ \A k \in 1 .. Len(r) : r[k] = <<b + k - 1, Deleted>> /\ b + k - 1 \in 1 .. i
  BY <1>1, <1>2, <1>3
<1>5. Sync \in Seq(Steps) /\ Len(Sync) = 1 /\ Sync[1] = <<0, [kind |-> "sync"]>>
  BY SyncIs DEF Sync
<1>6. /\ v \in Seq(Steps) /\ Len(v) = Len(r) + 1 /\ Len(r) \in Nat
      /\ \A k \in 1 .. Len(r) : v[k] = r[k]
      /\ v[Len(r) + 1] = <<0, [kind |-> "sync"]>>
  <2>1. /\ v \in Seq(Steps) /\ Len(v) = Len(r) + Len(Sync) /\ Len(r) \in Nat
        /\ \A k \in 1 .. Len(r) : v[k] = r[k]
        /\ \A k \in 1 .. Len(Sync) : v[Len(r) + k] = Sync[k]
    BY <1>2, <1>5, Joined DEF r
  <2>2. 1 \in 1 .. Len(Sync)
    BY <1>5
  <2> QED
    BY <1>5, <2>1, <2>2
<1>7. ASSUME NEW k \in 1 .. Len(v)
      PROVE  \/ k \in 1 .. Len(r) /\ v[k][1] = b + k - 1 /\ v[k][2] = Deleted
                /\ b + k - 1 \in 1 .. i /\ Kind(v[k]) = "deleted"
             \/ k = Len(v) /\ v[k] = <<0, [kind |-> "sync"]>> /\ Kind(v[k]) = "sync"
  <2>1. CASE k \in 1 .. Len(r)
    <3>1. v[k] = <<b + k - 1, Deleted>> /\ b + k - 1 \in 1 .. i
      BY <1>4, <1>6, <2>1
    <3>2. v[k][1] = b + k - 1 /\ v[k][2] = Deleted /\ Kind(v[k]) = "deleted"
      BY <3>1, Kinds DEF Kind
    <3> QED
      BY <2>1, <3>1, <3>2
  <2>2. CASE k \notin 1 .. Len(r)
    <3>1. k = Len(r) + 1
      BY <1>6, <2>2
    <3> QED
      BY <1>6, <3>1, Kinds
  <2> QED
    BY <2>1, <2>2
<1>8. v # <<>> /\ Syncs(v)
  <2>1. v # <<>> /\ Len(v) \in 1 .. Len(v) /\ v[Len(v)] = <<0, [kind |-> "sync"]>>
    BY <1>6
  <2> QED
    BY <2>1, Kinds DEF Syncs
<1>9. ASSUME NEW k \in 1 .. Len(v), Kind(v[k]) = "deleted" PROVE RemovesAt(v, t, f, i, k)
  <2>1. k \in 1 .. Len(r) /\ v[k][1] = b + k - 1 /\ b + k - 1 \in 1 .. i
    BY <1>7, <1>9
  <2>2. ASSUME NEW z \in v[k][1] .. i - 1 PROVE t[z].kind = "lfn"
    <3>1. z \in b .. i - 1 /\ b # i
      BY <1>1, <1>2, <2>1
    <3> QED
      BY <1>2, <3>1
  <2>3. ASSUME NEW l \in k + 1 .. Len(v), Kind(v[l]) = "deleted" PROVE v[k][1] < v[l][1]
    <3>1. l \in 1 .. Len(v)
      BY <1>6
    <3>2. v[l][1] = b + l - 1
      BY <1>7, <2>3, <3>1
    <3> QED
      BY <1>2, <2>1, <3>2
  <2> QED
    BY <2>1, <2>2, <2>3 DEF RemovesAt
<1>10. Removes(v, t, f)
  BY <1>1, <1>8, <1>9 DEF Removes
<1>11. Gives(v, f)
  <2>1. \A k \in 1 .. Len(v) : Kind(v[k]) # "sfn"
    BY <1>7
  <2> QED
    BY <2>1 DEF Gives
<1>12. Writes(F, v)
  <2> SUFFICES ASSUME NEW k \in 1 .. Len(v), IsWrite(v[k]) PROVE F[v[k][1]] = v[k][2]
    BY DEF Writes
  <2>1. v[k][1] = b + k - 1 /\ v[k][2] = Deleted /\ b + k - 1 \in 1 .. i /\ k \in 1 .. Len(r)
    BY <1>7 DEF IsWrite, Kind
  <2>2. b + k - 1 \in b .. i
    BY <1>1, <1>2, <2>1
  <2> QED
    BY <2>1, <2>2 DEF b
<1>13. ASSUME NEW j \in b .. i PROVE Touches(v, j)
  <2>1. b \in Nat /\ i \in Nat /\ j \in Nat /\ b <= j /\ j <= i /\ b >= 1
    BY <1>1, <1>2
  <2>2. PICK k : k = (j - b) + 1
    OBVIOUS
  <2>3. k \in 1 .. i - b + 1 /\ b + k - 1 = j
    BY <2>1, <2>2
  <2>4. k \in 1 .. Len(r) /\ k \in 1 .. Len(v)
    BY <1>4, <1>6, <2>3
  <2>5. v[k] = <<b + k - 1, Deleted>>
    BY <1>4, <1>6, <2>4
  <2>6. v[k][1] = j /\ v[k][2] = Deleted
    BY <2>3, <2>5
  <2>7. IsWrite(v[k])
    BY <2>6, Kinds DEF IsWrite
  <2> QED
    BY <2>4, <2>6, <2>7 DEF Touches
<1> QED
  BY <1>6, <1>8, <1>10, <1>11, <1>12, <1>13 DEF b

\* The entries of name n for file f, with short name s, from slot b on.
NewEntry(n, s, f, b, p, j) ==
  IF j = b + p THEN SfnEntry(s, f) ELSE LfnEntry(n, p - (j - b), Sum[s])

\* They are what w writes.
Enters(w, n, s, f, b, p) ==
  /\ \A k \in 1 .. Len(w) :
       /\ Kind(w[k]) # "deleted"
       /\ IsWrite(w[k]) => w[k][1] \in b .. b + p /\ w[k][2] = NewEntry(n, s, f, b, p, w[k][1])
  /\ \A j \in b .. b + p : Touches(w, j)

LEMMA RegisterSteps ==
  ASSUME NEW t, Whole(t), Len(t) > 0, NEW n \in Typed, NEW f \in File, NEW w \in dir_register(t, n, f)
  PROVE  \E s \in ShortNames(t, n), b \in Nat \ {0} :
           /\ w \in Seq(Steps) /\ w # <<>> /\ LfnParts(n) \in Nat
           /\ \A x \in b .. b + LfnParts(n) : Unused(t, x)
           /\ Enters(w, n, s, f, b, LfnParts(n))
<1> DEFINE p == LfnParts(n)
           b == dir_alloc(t, p + 1)
           u == Stretch(t, b + p)
           E(s, k) == IF k = p + 1 THEN SfnEntry(s, f) ELSE LfnEntry(n, p + 1 - k, Sum[s])
           V(s) == [k \in 1 .. p + 1 |-> <<b + k - 1, E(s, k)>>]
<1>1. p \in Nat /\ (p # 0 => n \in Long) /\ t \in Seq(Entries)
  BY NameAssumption DEF LfnParts, Whole
<1>2. b # NoSlot /\ \E s \in ShortNames(t, n) : w = u \o V(s)
  BY DEF dir_register
<1>3. PICK s \in ShortNames(t, n) : w = u \o V(s)
  BY <1>2
<1>4. s \in Sfn
  BY ShortNamesIs
<1>5. b \in Nat \ {0} /\ \A x \in b .. b + p : Unused(t, x)
  <2>1. p + 1 \in Nat \ {0}
    BY <1>1
  <2> HIDE DEF p
  <2>2. b \in Nat \ {0} /\ \A x \in b .. b + (p + 1) - 1 : Unused(t, x)
    BY <1>2, <2>1, AllocFirst
  <2>3. b + (p + 1) - 1 = b + p
    BY <1>1, <2>2
  <2> QED
    BY <2>2, <2>3
<1>6. /\ u \in Seq(Steps)
      /\ \A k \in 1 .. Len(u) : Kind(u[k]) \in {"link", "flush", "clear"}
  <2>1. b + p \in Nat
    BY <1>1, <1>5
  <2> HIDE DEF b, p
  <2> QED
    BY <1>1, <2>1, StretchIs
<1> DEFINE v == V(s)
<1>7. v = [k \in 1 .. p + 1 |-> <<b + k - 1, E(s, k)>>] /\ w = u \o v
  BY <1>3
<1> HIDE DEF p, b, u, v, V
<1>8. ASSUME NEW k \in 1 .. p + 1
      PROVE  /\ v[k] = <<b + k - 1, E(s, k)>> /\ v[k] \in Steps
             /\ Kind(v[k]) \in {"sfn", "lfn"} /\ b + k - 1 \in b .. b + p
             /\ E(s, k) = NewEntry(n, s, f, b, p, b + k - 1)
  <2>1. v[k] = <<b + k - 1, E(s, k)>>
    BY <1>7
  <2>2. k \in Nat /\ b + k - 1 \in Nat /\ b + k - 1 \in b .. b + p
    BY <1>1, <1>5
  <2>3. CASE k = p + 1
    <3>1. E(s, k) = SfnEntry(s, f) /\ SfnEntry(s, f) \in SfnEntries /\ b + k - 1 = b + p
      BY <1>1, <1>4, <1>5, <2>2, <2>3 DEF SfnEntries
    <3> HIDE DEF E
    <3>2. v[k] \in Steps /\ Kind(v[k]) = "sfn"
      BY <2>1, <2>2, <3>1, Kinds DEF Steps, Kind
    <3> QED
      BY <2>1, <2>2, <3>1, <3>2 DEF NewEntry
  <2>4. CASE k # p + 1
    <3>1. n \in Long /\ p + 1 - k \in Nat /\ b + k - 1 # b + p /\ p - ((b + k - 1) - b) = p + 1 - k
      BY <1>1, <1>5, <2>2, <2>4
    <3>2. E(s, k) = LfnEntry(n, p + 1 - k, Sum[s]) /\ LfnEntry(n, p + 1 - k, Sum[s]) \in LfnEntries
      BY <1>4, <2>4, <3>1 DEF LfnEntries
    <3> HIDE DEF E
    <3>3. v[k] \in Steps /\ Kind(v[k]) = "lfn"
      BY <2>1, <2>2, <3>2, Kinds DEF Steps, Kind
    <3>4. NewEntry(n, s, f, b, p, b + k - 1) = LfnEntry(n, p + 1 - k, Sum[s])
      BY <3>1 DEF NewEntry
    <3> QED
      BY <2>1, <2>2, <3>2, <3>3, <3>4
  <2> QED
    BY <2>3, <2>4
<1> HIDE DEF E
<1>9. v \in Seq(Steps) /\ Len(v) = p + 1
  BY <1>1, <1>7, <1>8
<1>10. /\ w \in Seq(Steps) /\ Len(w) = Len(u) + (p + 1) /\ Len(u) \in Nat
       /\ \A k \in 1 .. Len(u) : w[k] = u[k]
       /\ \A k \in 1 .. p + 1 : w[Len(u) + k] = v[k]
  <2>1. /\ u \o v \in Seq(Steps) /\ Len(u \o v) = Len(u) + Len(v) /\ Len(u) \in Nat
        /\ \A k \in 1 .. Len(u) : (u \o v)[k] = u[k]
        /\ \A k \in 1 .. Len(v) : (u \o v)[Len(u) + k] = v[k]
    BY <1>6, <1>9, Joined
  <2> QED
    BY <1>7, <1>9, <2>1
<1>11. ASSUME NEW k \in 1 .. Len(w)
       PROVE  /\ Kind(w[k]) # "deleted"
              /\ IsWrite(w[k]) => w[k][1] \in b .. b + p /\ w[k][2] = NewEntry(n, s, f, b, p, w[k][1])
  <2>1. CASE k \in 1 .. Len(u)
    BY <1>6, <1>10, <2>1 DEF IsWrite, Kind
  <2>2. CASE k \notin 1 .. Len(u)
    <3>1. k - Len(u) \in 1 .. p + 1 /\ Len(u) + (k - Len(u)) = k
      BY <1>1, <1>10, <2>2
    <3>2. PICK l \in 1 .. p + 1 : w[k] = v[l]
      BY <1>10, <3>1
    <3> QED
      BY <1>8, <3>2
  <2> QED
    BY <2>1, <2>2
<1>12. ASSUME NEW j \in b .. b + p PROVE Touches(w, j)
  <2>1. PICK k : k = (j - b) + 1
    OBVIOUS
  <2>2. k \in 1 .. p + 1 /\ b + k - 1 = j /\ k \in Nat
    BY <1>1, <1>5, <2>1
  <2>3. Len(u) + k \in 1 .. Len(w) /\ w[Len(u) + k] = v[k]
    BY <1>1, <1>10, <2>2
  <2>4. v[k][1] = j /\ IsWrite(v[k])
    BY <1>8, <2>2 DEF IsWrite, Kind
  <2> QED
    BY <2>3, <2>4 DEF Touches
<1>13. w # <<>>
  BY <1>1, <1>10
<1> QED
  BY <1>1, <1>5, <1>10, <1>11, <1>12, <1>13 DEF Enters, p

\* The short name of a new entry is numbered, or the name itself.
LEMMA ShortIs ==
  ASSUME NEW t, NEW n \in Typed, NEW s \in ShortNames(t, n)
  PROVE  s \in Sfn /\ s \in {Text(n)} \cup Alias /\ (LfnParts(n) = 0 => s = Text(n))
<1>1. s \in Sfn
  BY ShortNamesIs
<1>2. CASE n \notin Lossy
  BY <1>1, <1>2 DEF ShortNames
<1>3. CASE n \in Lossy
  <2> DEFINE free == {k \in DOMAIN Tails[n] : ~UsesSfn(t, Tails[n][k])}
  <2>1. Tails[n] \in Seq(Sfn)
    BY <1>3, NameAssumption
  <2>2. free \in SUBSET Nat /\ free \subseteq DOMAIN Tails[n]
    BY <2>1
  <2>3. s \in IF free = {} THEN {} ELSE {Tails[n][Min(free)]}
    BY <1>3 DEF ShortNames, Numbered
  <2> HIDE DEF free
  <2>4. Min(free) \in DOMAIN Tails[n] /\ s = Tails[n][Min(free)]
    BY <2>2, <2>3, MinIs
  <2>5. s \in Range(Tails[n])
    BY <2>4 DEF Range
  <2>6. s \in Alias
    BY <1>3, <2>5 DEF Alias
  <2>7. LfnParts(n) # 0
    BY <1>3, NameAssumption DEF LfnParts
  <2> QED
    BY <1>1, <2>6, <2>7
<1> QED
  BY <1>2, <1>3

\* F is G with the entries of a name.
Adds(F, G, n, s, f, b, p) ==
  /\ p = LfnParts(n)
  /\ \A j \in Places : F[j] = IF j \in b .. b + p THEN NewEntry(n, s, f, b, p, j) ELSE G[j]
  /\ \A j \in b .. b + p : G[j].kind \in {"free", "deleted"}

HasParts(F, n, s, b, y) ==
  \A j \in b .. y - 1 :
    /\ F[j].kind = "lfn" /\ F[j].text = Text(n) /\ F[j].ord = y - j
    /\ F[j].sum = Sum[s] /\ (F[j].last <=> j = b)

LEMMA AddedEntries ==
  ASSUME NEW F, NEW G, NEW n \in Typed, NEW s, NEW f, NEW b \in Nat \ {0}, NEW p \in Nat, Adds(F, G, n, s, f, b, p)
  PROVE  /\ F[b + p] = SfnEntry(s, f) /\ F[b + p].kind = "sfn" /\ F[b + p].file = f /\ F[b + p].sfn = s
         /\ HasParts(F, n, s, b, b + p)
<1>1. b + p \in Places /\ b + p \in b .. b + p
  BY DEF Places
<1>2. F[b + p] = SfnEntry(s, f)
  BY <1>1 DEF Adds, NewEntry
<1>3. ASSUME NEW j \in b .. b + p - 1
      PROVE  /\ F[j].kind = "lfn" /\ F[j].text = Text(n) /\ F[j].ord = (b + p) - j
             /\ F[j].sum = Sum[s] /\ (F[j].last <=> j = b)
  <2>1. j \in Places /\ j \in b .. b + p /\ j # b + p /\ p - (j - b) = (b + p) - j /\ p # 0
    BY DEF Places
  <2>2. F[j] = LfnEntry(n, (b + p) - j, Sum[s])
    BY <2>1 DEF Adds, NewEntry
  <2>3. p = Parts[n]
    BY <2>1 DEF Adds, LfnParts
  <2>4. (b + p) - j = p <=> j = b
    OBVIOUS
  <2>5. PICK o : o = (b + p) - j
    OBVIOUS
  <2>6. /\ F[j].kind = "lfn" /\ F[j].text = Text(n) /\ F[j].ord = (b + p) - j
        /\ F[j].sum = Sum[s] /\ (F[j].last <=> (b + p) - j = Parts[n])
    <3>1. F[j] = LfnEntry(n, o, Sum[s])
      BY <2>2, <2>5
    <3>2. /\ F[j].kind = "lfn" /\ F[j].text = Text(n) /\ F[j].ord = o
          /\ F[j].sum = Sum[s]
      BY <3>1 DEF LfnEntry
    <3>3. F[j].last = (o = Parts[n])
      BY <3>1, SMT DEF LfnEntry
    <3> QED
      BY <2>5, <3>2, <3>3
  <2> QED
    BY <2>3, <2>4, <2>6
<1> QED
  BY <1>2, <1>3 DEF SfnEntry, HasParts

\* The new entry has the name, and no other but a numbered one.
LEMMA AddedNames ==
  ASSUME NEW t, NEW n \in Typed, NEW s \in ShortNames(t, n), NEW f \in File,
         NEW b \in Nat \ {0}, NEW p \in Nat,
         NEW F \in [Places -> Entries], NEW G, Adds(F, G, n, s, f, b, p)
  PROVE  /\ Live(F, b + p) /\ F[b + p].file = f /\ Text(n) \in Called(F, b + p)
         /\ Tidy(G) => /\ LongText(F, b + p) \subseteq {Text(n)}
                       /\ F[b + p].sfn \in {Text(n)} \cup Alias
<1> DEFINE y == b + p
<1>1. y \in Nat \ {0} /\ y \in Places /\ y = b + p
  BY DEF Places
<1> HIDE DEF y
<1>2. F[y] = SfnEntry(s, f) /\ F[y].kind = "sfn" /\ F[y].file = f /\ F[y].sfn = s
  BY <1>1, AddedEntries
<1>3. \A j \in b .. y - 1 :
        /\ F[j].kind = "lfn" /\ F[j].text = Text(n) /\ F[j].ord = y - j
        /\ F[j].sum = Sum[s] /\ (F[j].last <=> j = b)
  <2>1. HasParts(F, n, s, b, y)
    BY <1>1, AddedEntries
  <2> QED
    BY <2>1 DEF HasParts
<1>4. Live(F, y)
  <2>1. F[y] # Old
    BY <1>2, Kinds, TableAssumption
  <2> QED
    BY <1>1, <1>2, <2>1 DEF Live, IsSfn
<1>5. s \in {Text(n)} \cup Alias /\ (p = 0 => s = Text(n))
  BY ShortIs DEF Adds
<1>6. CASE p # 0
  <2>1. b \in 1 .. y - 1 /\ b \in b .. y - 1
    BY <1>1, <1>6
  <2>2. Heads(F, b, y)
    <3>1. \A j \in b + 1 .. y - 1 : j \in b .. y - 1 /\ j # b
      OBVIOUS
    <3>2. \A j \in b + 1 .. y - 1 : ~ F[j].last
      BY <1>3, <3>1
    <3>3. F[b].last
      BY <1>3, <2>1
    <3> QED
      BY <1>3, <3>2, <3>3 DEF Heads
  <2>3. Attached(F, b, y)
    <3>1. F[b].text = Text(n)
      BY <1>3, <2>1
    <3>2. Sum[F[y].sfn] = Sum[s]
      BY <1>2
    <3> QED
      BY <1>3, <3>1, <3>2 DEF Attached
  <2>4. Text(n) \in LongText(F, y)
    <3>1. F[b].text = Text(n)
      BY <1>3, <2>1
    <3> QED
      BY <1>1, <2>1, <2>2, <2>3, <3>1, LongTextIs
  <2>5. ASSUME NEW m \in LongText(F, y) PROVE m = Text(n)
    <3>1. PICK c \in 1 .. y - 1 : Heads(F, c, y) /\ m = F[c].text
      BY <1>1, LongTextIs
    <3>2. c = b
      BY <1>1, <2>1, <2>2, <3>1, BlockHeads
    <3> QED
      BY <1>3, <2>1, <3>1, <3>2
  <2> QED
    BY <1>1, <1>2, <1>4, <1>5, <2>4, <2>5 DEF Called
<1>7. CASE p = 0
  <2>1. Text(n) \in Called(F, y)
    BY <1>2, <1>5, <1>7 DEF Called
  <2>2. ASSUME Tidy(G), NEW m \in LongText(F, y) PROVE FALSE
    <3>1. PICK c \in 1 .. y - 1 : Heads(F, c, y)
      BY <1>1, LongTextIs
    <3>2. PICK x : x = y - 1
      OBVIOUS
    <3>3. c \in Nat /\ c >= 1 /\ c <= y - 1
      BY <1>1
    <3>4. y = b /\ x \in Nat /\ x >= c /\ x = y - 1 /\ c >= 1
      BY <1>1, <1>7, <3>2, <3>3
    <3>5. x \in c .. y - 1 /\ x \in Places /\ x + 1 = y /\ x \notin b .. b + p /\ y \in b .. b + p
      BY <1>7, <3>1, <3>4 DEF Places
    <3>6. F[x].kind = "lfn"
      BY <3>1, <3>5 DEF Heads
    <3>7. F[x] = G[x]
      BY <3>5 DEF Adds
    <3>8. G[y].kind \in {"sfn", "lfn"}
      BY <2>2, <3>5, <3>6, <3>7 DEF Tidy
    <3> QED
      BY <3>5, <3>8 DEF Adds
  <2> QED
    BY <1>1, <1>2, <1>4, <1>5, <2>1, <2>2
<1> QED
  BY <1>6, <1>7

LEMMA AddedTidy ==
  ASSUME NEW n \in Typed, NEW s, NEW f, NEW b \in Nat \ {0}, NEW p \in Nat,
         NEW F, NEW G, Adds(F, G, n, s, f, b, p), Tidy(G)
  PROVE  Tidy(F)
<1> SUFFICES ASSUME NEW x \in Places, F[x].kind = "lfn"
             PROVE  /\ F[x + 1].kind = "sfn" \/ (F[x + 1].kind = "lfn" /\ ~ F[x + 1].last)
                    /\ F[x].last \/ (x > 1 /\ F[x - 1].kind = "lfn")
  BY DEF Tidy
<1>1. x \in Nat \ {0} /\ x + 1 \in Places
  BY DEF Places
<1>2. F[b + p].kind = "sfn" /\ HasParts(F, n, s, b, b + p)
  BY AddedEntries
<1>3. /\ F[b + p].kind = "sfn"
      /\ \A j \in b .. b + p - 1 : F[j].kind = "lfn" /\ (F[j].last <=> j = b)
  BY <1>2 DEF HasParts
<1>4. CASE x \in b .. b + p
  <2>1. x \in b .. b + p - 1
    <3>1. x # b + p
      BY <1>3
    <3> QED
      BY <1>1, <1>4, <3>1
  <2>2. F[x + 1].kind = "sfn" \/ (F[x + 1].kind = "lfn" /\ ~ F[x + 1].last)
    <3>1. CASE x + 1 = b + p
      BY <1>3, <3>1
    <3>2. CASE x + 1 # b + p
      <4>1. x + 1 \in b .. b + p - 1 /\ x + 1 # b
        BY <1>1, <2>1, <3>2
      <4> QED
        BY <1>3, <4>1
    <3> QED
      BY <3>1, <3>2
  <2>3. CASE x = b
    BY <1>3, <2>1, <2>2, <2>3
  <2>4. CASE x # b
    <3>1. x - 1 \in b .. b + p - 1 /\ x > 1
      BY <1>1, <2>1, <2>4
    <3> QED
      BY <1>3, <2>2, <3>1
  <2> QED
    BY <2>3, <2>4
<1>5. CASE x \notin b .. b + p
  <2>1. F[x] = G[x] /\ G[x].kind = "lfn"
    BY <1>5 DEF Adds
  <2>2. /\ G[x + 1].kind = "sfn" \/ (G[x + 1].kind = "lfn" /\ ~ G[x + 1].last)
        /\ G[x].last \/ (x > 1 /\ G[x - 1].kind = "lfn")
    BY <2>1 DEF Tidy
  <2>3. F[x + 1] = G[x + 1]
    <3>1. x + 1 \notin b .. b + p
      BY <2>2 DEF Adds
    <3> QED
      BY <1>1, <3>1 DEF Adds
  <2>4. x > 1 /\ G[x - 1].kind = "lfn" => F[x - 1] = G[x - 1]
    <3> SUFFICES ASSUME x > 1, G[x - 1].kind = "lfn" PROVE F[x - 1] = G[x - 1]
      OBVIOUS
    <3>1. x - 1 \in Places
      BY <1>1 DEF Places
    <3>2. x - 1 \notin b .. b + p
      BY DEF Adds
    <3> QED
      BY <3>1, <3>2 DEF Adds
  <2> QED
    BY <2>1, <2>2, <2>3, <2>4
<1> QED
  BY <1>4, <1>5

NoneOf(G, f) == \A y : Live(G, y) => G[y].file # f
OnlyAt(F, f, x) == \A y : Live(F, y) /\ F[y].file = f => y = x

LEMMA AddedSingle ==
  ASSUME NEW n \in Typed, NEW s, NEW f, NEW b \in Nat \ {0}, NEW p \in Nat,
         NEW F \in [Places -> Entries], NEW G \in [Places -> Entries], Adds(F, G, n, s, f, b, p),
         Single(G), NoneOf(G, f)
  PROVE  Single(F) /\ OnlyAt(F, f, b + p)
<1>1. F[b + p].kind = "sfn" /\ F[b + p].file = f /\ HasParts(F, n, s, b, b + p)
  BY AddedEntries
<1>2. /\ F[b + p].kind = "sfn" /\ F[b + p].file = f
      /\ \A j \in b .. b + p - 1 : F[j].kind = "lfn"
  BY <1>1 DEF HasParts
<1>3. ASSUME NEW y, Live(F, y), y # b + p PROVE Live(G, y) /\ F[y] = G[y]
  <2>1. y \in Places /\ F[y].kind = "sfn" /\ F[y] # Old
    BY <1>3 DEF Live, IsSfn
  <2>2. y \notin b .. b + p
    <3>1. y \notin b .. b + p - 1
      BY <1>2, <2>1
    <3> QED
      BY <1>3, <3>1
  <2>3. F[y] = G[y]
    BY <2>1, <2>2 DEF Adds
  <2> QED
    BY <2>1, <2>3 DEF Live, IsSfn
<1>4. \A y : Live(F, y) /\ F[y].file = f => y = b + p
  BY <1>3 DEF NoneOf
<1> QED
  BY <1>2, <1>3, <1>4 DEF Single, OnlyAt

\* G is F without the entries from b to i.
Cut(G, F, b, i) == \A j \in Places : G[j] = IF j \in b .. i THEN Deleted ELSE F[j]

IsBlock(F, i, b) ==
  /\ b \in 1 .. i /\ (b # i => b \in 1 .. i - 1 /\ Heads(F, b, i))
  /\ \A c \in 1 .. i - 1 : Heads(F, c, i) => c = b

LEMMA BlockSeen ==
  ASSUME NEW t, Whole(t), NEW i, Live(t, i), NEW F, \A j \in Places : F[j] = Seen(t, j),
         NEW b, b = Block(t, i)
  PROVE  IsBlock(F, i, b) /\ i \in Places /\ F[i] = t[i] /\ F[i].kind = "sfn"
<1>1. t \in Seq(Entries) /\ i \in DOMAIN t /\ i \in Nat \ {0} /\ DOMAIN t = 1 .. Len(t)
      /\ Len(t) \in Nat /\ t[i].kind = "sfn"
  BY DEF Whole, Live, IsSfn
<1>2. \A j \in DOMAIN t : j \in Places /\ F[j] = t[j]
  BY <1>1 DEF Whole, Seen, Places
<1>3. \A j \in 1 .. i - 1 : F[j] = t[j]
  BY <1>1, <1>2
<1>4. ASSUME NEW c \in 1 .. i - 1 PROVE Heads(F, c, i) <=> Heads(t, c, i)
  <2>1. \A j \in c .. i - 1 : F[j] = t[j]
    BY <1>3
  <2>2. c \in c .. i - 1 /\ \A j \in c + 1 .. i - 1 : j \in c .. i - 1
    OBVIOUS
  <2> QED
    BY <2>1, <2>2 DEF Heads
<1>5. b # i => b \in 1 .. i - 1 /\ Heads(t, b, i)
  BY <1>1, BlockHeads
<1>6. \A c \in 1 .. i - 1 : Heads(t, c, i) => c = b
  BY <1>1, BlockHeads
<1>7. b \in 1 .. i
  BY <1>1, <1>5
<1> QED
  BY <1>1, <1>2, <1>4, <1>5, <1>6, <1>7 DEF IsBlock

\* All parts before an entry go with it when none is lost.
LEMMA CutTidy ==
  ASSUME NEW F, NEW G, NEW i \in Places, NEW b, Tidy(F), IsBlock(F, i, b), F[i].kind = "sfn",
         Cut(G, F, b, i)
  PROVE  Tidy(G)
<1>1. i \in Nat \ {0} /\ b \in 1 .. i
  BY DEF Places, IsBlock
<1> SUFFICES ASSUME NEW x \in Places, G[x].kind = "lfn"
             PROVE  /\ G[x + 1].kind = "sfn" \/ (G[x + 1].kind = "lfn" /\ ~ G[x + 1].last)
                    /\ G[x].last \/ (x > 1 /\ G[x - 1].kind = "lfn")
  BY DEF Tidy
<1>2. x \in Nat \ {0} /\ x + 1 \in Places
  BY DEF Places
<1>3. x \notin b .. i /\ G[x] = F[x] /\ F[x].kind = "lfn"
  BY Kinds DEF Cut
<1>4. /\ F[x + 1].kind = "sfn" \/ (F[x + 1].kind = "lfn" /\ ~ F[x + 1].last)
      /\ F[x].last \/ (x > 1 /\ F[x - 1].kind = "lfn")
  BY <1>3 DEF Tidy
<1>5. x + 1 \notin b .. i
  <2> SUFFICES ASSUME x + 1 \in b .. i PROVE FALSE
    OBVIOUS
  <2>1. x + 1 = b
    BY <1>1, <1>2, <1>3
  <2>2. CASE b # i
    <3>1. b \in b .. i - 1 /\ Heads(F, b, i)
      BY <1>1, <2>2 DEF IsBlock
    <3>2. F[b].kind = "lfn" /\ F[b].last
      BY <3>1 DEF Heads
    <3> QED
      BY <1>4, <2>1, <3>2
  <2>3. CASE b = i
    <3> DEFINE S == {j \in 1 .. i - 1 : \A k \in j .. i - 1 : F[k].kind = "lfn"}
    <3>1. x \in 1 .. i - 1 /\ \A k \in x .. i - 1 : k = x
      BY <1>1, <1>2, <2>1, <2>3
    <3>2. S \in SUBSET Nat /\ x \in S
      BY <1>3, <3>1
    <3>3. \A j : j \in S <=> j \in 1 .. i - 1 /\ \A k \in j .. i - 1 : F[k].kind = "lfn"
      OBVIOUS
    <3> HIDE DEF S
    <3>4. PICK j \in S : \A k \in S : j <= k
      BY <3>2, MinIn
    <3>5. j \in 1 .. i - 1 /\ \A k \in j .. i - 1 : F[k].kind = "lfn"
      BY <3>3
    <3>6. j \in Places /\ j \in Nat /\ j \in j .. i - 1
      BY <1>1, <3>5 DEF Places
    <3>7. F[j].last
      <4> SUFFICES ASSUME ~ F[j].last PROVE FALSE
        OBVIOUS
      <4>1. j > 1 /\ F[j - 1].kind = "lfn"
        BY <3>5, <3>6 DEF Tidy
      <4>2. j - 1 \in 1 .. i - 1 /\ \A k \in j - 1 .. i - 1 : k = j - 1 \/ k \in j .. i - 1
        BY <1>1, <3>5, <3>6, <4>1
      <4>3. j - 1 \in S
        BY <3>3, <3>5, <4>1, <4>2
      <4>4. j <= j - 1
        BY <3>4, <4>3
      <4> QED
        BY <3>6, <4>4
    <3>8. ASSUME NEW k \in j + 1 .. i - 1 PROVE ~ F[k].last
      <4>1. k - 1 \in Places /\ k - 1 \in j .. i - 1 /\ k \in j .. i - 1 /\ k - 1 + 1 = k
        BY <1>1, <3>6 DEF Places
      <4>2. F[k - 1].kind = "lfn" /\ F[k].kind = "lfn"
        BY <3>5, <4>1
      <4>3. PICK y \in Places : y = k - 1
        BY <4>1
      <4>4. F[y].kind = "lfn" /\ y + 1 = k
        BY <4>1, <4>2, <4>3
      <4>5. F[y + 1].kind = "sfn" \/ (F[y + 1].kind = "lfn" /\ ~ F[y + 1].last)
        BY <4>4 DEF Tidy
      <4> QED
        BY <4>2, <4>4, <4>5
    <3>9. Heads(F, j, i)
      BY <3>5, <3>7, <3>8 DEF Heads
    <3>10. j = b
      BY <3>5, <3>9 DEF IsBlock
    <3> QED
      BY <1>1, <2>3, <3>5, <3>10
  <2> QED
    BY <2>2, <2>3
<1>6. G[x + 1] = F[x + 1]
  BY <1>2, <1>5 DEF Cut
<1>7. x > 1 /\ F[x - 1].kind = "lfn" => G[x - 1] = F[x - 1]
  <2> SUFFICES ASSUME x > 1, F[x - 1].kind = "lfn" PROVE G[x - 1] = F[x - 1]
    OBVIOUS
  <2>1. x - 1 \in Places /\ x - 1 # i
    BY <1>2 DEF Places
  <2>2. x - 1 \notin b .. i
    BY <1>1, <1>2, <1>3, <2>1
  <2> QED
    BY <2>1, <2>2 DEF Cut
<1> QED
  BY <1>3, <1>4, <1>6, <1>7

LEMMA CutLive ==
  ASSUME NEW F \in [Places -> Entries], NEW G \in [Places -> Entries], NEW b, NEW i, Cut(G, F, b, i),
         NEW y, Live(G, y)
  PROVE  Live(F, y) /\ G[y] = F[y] /\ y \notin b .. i
<1>1. y \in Places /\ G[y].kind = "sfn" /\ G[y] # Old
  BY DEF Live, IsSfn
<1>2. y \notin b .. i /\ G[y] = F[y]
  BY <1>1, Kinds DEF Cut
<1> QED
  BY <1>1, <1>2 DEF Live, IsSfn

LEMMA CutSingle ==
  ASSUME NEW F \in [Places -> Entries], NEW G \in [Places -> Entries], NEW b, NEW i, Cut(G, F, b, i),
         Single(F), Live(F, i), IsBlock(F, i, b), i \in Nat
  PROVE  Single(G) /\ NoneOf(G, F[i].file)
<1>1. i \in b .. i
  BY DEF IsBlock
<1>2. \A y : Live(G, y) => Live(F, y) /\ G[y] = F[y] /\ y \notin b .. i
  BY CutLive
<1>3. Single(G)
  BY <1>2 DEF Single
<1>4. ASSUME NEW y, Live(G, y), G[y].file = F[i].file PROVE FALSE
  <2>1. Live(F, y) /\ F[y].file = F[i].file /\ y \notin b .. i
    BY <1>2, <1>4
  <2>2. y = i
    BY <2>1 DEF Single
  <2> QED
    BY <1>1, <2>1, <2>2
<1> QED
  BY <1>3, <1>4 DEF NoneOf

LEMMA CutType ==
  ASSUME NEW F \in [Places -> Entries], NEW b, NEW i
  PROVE  \E G \in [Places -> Entries] : Cut(G, F, b, i)
<1> DEFINE G == [j \in Places |-> IF j \in b .. i THEN Deleted ELSE F[j]]
<1>1. G \in [Places -> Entries]
  BY EntryKinds
<1>2. \A j \in Places : G[j] = IF j \in b .. i THEN Deleted ELSE F[j]
  OBVIOUS
<1> HIDE DEF G
<1>3. Cut(G, F, b, i)
  BY <1>2 DEF Cut
<1> QED
  BY <1>1, <1>3

LEMMA UnlinkNames ==
  ASSUME Inv, Listing, Naming, todo = <<>>, NEW n \in Name, f_unlink(n)
  PROVE  Naming' /\ Seems
<1> DEFINE d == dir_find(table, n)
<1>1. /\ d # NoSlot /\ todo' = dir_remove(table, d) \o Sync /\ asked' = n
      /\ table' = table /\ taken' = taken /\ names' = names /\ faults' = faults /\ Scanned({}, d)
  BY DEF f_unlink, Begin
<1>2. PICK i : i = d
  OBVIOUS
<1>3. Live(table, i)
  BY <1>1, <1>2, BetweenCalls, FindIs
<1>4. i \in Nat \ {0}
  BY <1>3, InvMeans DEF Live
<1>5. Looked
  BY <1>1, <1>2, <1>4, ScannedIs
<1>6. PICK F \in [Places -> Entries] :
        /\ \A j \in Places : F[j] = Seen(table, j)
        /\ faults = 0 => Clean(F)
  BY RestingNames
<1>7. PICK b, f : b = Block(table, i) /\ f = table[i].file
  OBVIOUS
<1>8. IsBlock(F, i, b) /\ i \in Places /\ F[i] = table[i] /\ F[i].kind = "sfn"
  BY <1>3, <1>6, <1>7, BetweenCalls, BlockSeen
<1>9. PICK G \in [Places -> Entries] : Cut(G, F, b, i)
  BY CutType
<1>10. PICK v : v = dir_remove(table, i) \o Sync
  OBVIOUS
<1>11. \A j \in b .. i : G[j] = Deleted
  <2>1. \A j \in b .. i : j \in Places
    BY <1>4, <1>8 DEF IsBlock, Places
  <2> QED
    BY <1>9, <2>1 DEF Cut
<1>12. /\ v \in Seq(Steps) /\ v # <<>> /\ Removes(v, table, f) /\ Gives(v, f) /\ Writes(G, v)
       /\ \A j \in b .. i : Touches(v, j)
  <2>1. \A j \in Block(table, i) .. i : G[j] = Deleted
    BY <1>7, <1>11
  <2> QED
    BY <1>3, <1>7, <1>10, <2>1, BetweenCalls, RemoveSteps
<1>13. Results(G, table, v)
  <2>1. \A j \in Places : G[j] = Seen(table, j) \/ Touches(v, j)
    BY <1>6, <1>9, <1>12 DEF Cut
  <2> QED
    BY <1>12, <2>1, ResultsAre
<1>14. f \in File
  BY <1>3, <1>7, BetweenCalls DEF Own
<1>15. names[n] = f
  <2>1. names = NamesOf(table)
    BY RestingNames
  <2> HIDE DEF d
  <2>2. names[n] = FileOf(table, d)
    BY <2>1 DEF NamesOf, d
  <2> QED
    BY <1>1, <1>2, <1>7, <2>2 DEF FileOf
<1>16. faults = 0 => Clean(G) /\ NoneOf(G, f)
  <2> SUFFICES ASSUME faults = 0 PROVE Clean(G) /\ NoneOf(G, f)
    OBVIOUS
  <2>1. Tidy(F) /\ Single(F)
    BY <1>6 DEF Clean
  <2>2. Tidy(G)
    BY <1>8, <1>9, <2>1, CutTidy
  <2>3. Live(F, i)
    BY <1>3, <1>8 DEF Live, IsSfn
  <2>4. Single(G) /\ NoneOf(G, F[i].file)
    BY <1>4, <1>8, <1>9, <2>1, <2>3, CutSingle
  <2> QED
    BY <1>7, <1>8, <2>2, <2>4 DEF Clean
<1>17. Purpose(G, names, n, f, faults)
  BY <1>15, <1>16 DEF Purpose, Gone, NoneOf
<1>18. todo' = v
  BY <1>1, <1>2, <1>10
<1>19. /\ todo' # <<>> /\ asked' \in Name /\ Removes(todo', table, f) /\ Gives(todo', f)
       /\ Results(G, table, todo') /\ Purpose(G, names, asked', f, faults) /\ (faults = 0 => Clean(G))
  BY <1>1, <1>12, <1>13, <1>16, <1>17, <1>18
<1> QED
  BY <1>1, <1>5, <1>14, <1>19, Begins

\* The table that a call leaves which enters a name in G.
LEMMA EntersWrites ==
  ASSUME NEW n \in Typed, NEW s \in Sfn, NEW f \in File, NEW b \in Nat \ {0}, NEW p \in Nat,
         NEW G \in [Places -> Entries], p = LfnParts(n),
         \A j \in b .. b + p : G[j].kind \in {"free", "deleted"},
         NEW w \in Seq(Steps), Enters(w, n, s, f, b, p)
  PROVE  /\ NoRemoval(w) /\ Gives(w, f)
         /\ \E F \in [Places -> Entries] : Adds(F, G, n, s, f, b, p) /\ Writes(F, w)
<1>1. ASSUME NEW j \in b .. b + p
      PROVE  /\ NewEntry(n, s, f, b, p, j) \in Entries
             /\ NewEntry(n, s, f, b, p, j).kind = "sfn" => NewEntry(n, s, f, b, p, j).file = f
  <2>1. CASE j = b + p
    <3>1. SfnEntry(s, f) \in SfnEntries /\ SfnEntry(s, f).file = f
      BY DEF SfnEntries, SfnEntry
    <3> QED
      BY <2>1, <3>1 DEF NewEntry, Entries
  <2>2. CASE j # b + p
    <3>1. p # 0 /\ p - (j - b) \in Nat
      BY <2>2
    <3>2. n \in Long
      BY <3>1 DEF LfnParts
    <3>3. PICK o \in Nat : o = p - (j - b)
      BY <3>1
    <3>4. LfnEntry(n, o, Sum[s]) \in LfnEntries
      BY <3>2 DEF LfnEntries
    <3>5. LfnEntry(n, o, Sum[s]).kind = "lfn"
      BY DEF LfnEntry
    <3>6. NewEntry(n, s, f, b, p, j) = LfnEntry(n, o, Sum[s])
      BY <2>2, <3>3 DEF NewEntry
    <3> QED
      BY <3>4, <3>5, <3>6, Kinds DEF Entries
  <2> QED
    BY <2>1, <2>2
<1> DEFINE F == [j \in Places |-> IF j \in b .. b + p THEN NewEntry(n, s, f, b, p, j) ELSE G[j]]
<1>2. F \in [Places -> Entries]
  BY <1>1
<1>3. \A j \in Places : F[j] = IF j \in b .. b + p THEN NewEntry(n, s, f, b, p, j) ELSE G[j]
  OBVIOUS
<1> HIDE DEF F
<1>4. Adds(F, G, n, s, f, b, p)
  BY <1>3 DEF Adds
<1>5. NoRemoval(w)
  BY DEF Enters, NoRemoval
<1>6. ASSUME NEW k \in 1 .. Len(w), IsWrite(w[k])
      PROVE  w[k][1] \in b .. b + p /\ w[k][2] = NewEntry(n, s, f, b, p, w[k][1])
  BY <1>6 DEF Enters
<1>7. ASSUME NEW k \in 1 .. Len(w), Kind(w[k]) = "sfn" PROVE w[k][2].file = f
  <2>1. IsWrite(w[k])
    BY <1>7 DEF IsWrite, Kind
  <2>2. PICK j : j = w[k][1]
    OBVIOUS
  <2>3. j \in b .. b + p /\ w[k][2] = NewEntry(n, s, f, b, p, j)
    BY <1>6, <2>1, <2>2
  <2> QED
    BY <1>1, <1>7, <2>3 DEF Kind
<1>8. ASSUME NEW k \in 1 .. Len(w), IsWrite(w[k]) PROVE F[w[k][1]] = w[k][2]
  <2>1. PICK j : j = w[k][1]
    OBVIOUS
  <2>2. j \in b .. b + p /\ w[k][2] = NewEntry(n, s, f, b, p, j)
    BY <1>6, <1>8, <2>1
  <2>3. j \in Places
    BY <2>2 DEF Places
  <2> QED
    BY <1>3, <2>1, <2>2, <2>3
<1> QED
  BY <1>2, <1>4, <1>5, <1>7, <1>8 DEF Gives, Writes

\* The call has done its purpose then, and left the table clean.
LEMMA AddedPurpose ==
  ASSUME NEW t, NEW n \in Typed, NEW s \in ShortNames(t, n), NEW f \in File,
         NEW b \in Nat \ {0}, NEW p \in Nat, NEW k,
         NEW F \in [Places -> Entries], NEW G \in [Places -> Entries], Adds(F, G, n, s, f, b, p),
         k = 0 => Clean(G) /\ NoneOf(G, f)
  PROVE  Given(F, Text(n), f, k) /\ (k = 0 => Clean(F))
<1>1. /\ Live(F, b + p) /\ F[b + p].file = f /\ Text(n) \in Called(F, b + p)
      /\ Tidy(G) => /\ LongText(F, b + p) \subseteq {Text(n)}
                    /\ F[b + p].sfn \in {Text(n)} \cup Alias
  BY AddedNames
<1>2. ASSUME k = 0 PROVE Tidy(G) /\ Single(G) /\ NoneOf(G, f)
  BY <1>2 DEF Clean
<1>3. ASSUME k = 0
      PROVE  /\ Clean(F)
             /\ \A y : Live(F, y) /\ F[y].file = f =>
                         LongText(F, y) \subseteq {Text(n)} /\ F[y].sfn \in {Text(n)} \cup Alias
  <2>1. Tidy(F)
    BY <1>2, <1>3, AddedTidy
  <2>2. Single(F) /\ OnlyAt(F, f, b + p)
    BY <1>2, <1>3, AddedSingle
  <2>3. Tidy(G)
    BY <1>2, <1>3
  <2> QED
    BY <1>1, <2>1, <2>2, <2>3 DEF Clean, OnlyAt
<1> QED
  BY <1>1, <1>3 DEF Given

\* The steps of a call that enters a name, and those that follow, v: they
\* remove the entries in which G differs from the table, of the file's old name.
LEMMA EntersBegins ==
  ASSUME Inv, Listing, Naming, todo = <<>>, NEW n \in Typed, NEW f \in File,
         NEW w \in dir_register(table, n, f), NEW v \in Seq(Steps), todo' = w \o v,
         table' = table, taken' = taken, names' = names, faults' = faults, Looked,
         asked' = Text(n), names[Text(n)] \in {NoFile, f},
         Removes(v, table, f), Gives(v, f), NEW G \in [Places -> Entries], Writes(G, v),
         \A j \in Places : G[j] = Seen(table, j) \/ (Touches(v, j) /\ G[j] = Deleted),
         \A k \in 1 .. Len(v) : IsWrite(v[k]) =>
           v[k][1] \in DOMAIN table /\ ~ Unused(table, v[k][1]),
         faults = 0 => Clean(G) /\ NoneOf(G, f)
  PROVE  Naming' /\ Seems
<1>1. Whole(table) /\ Len(table) > 0
  BY BetweenCalls DEF Inv, TypeOK
<1>2. PICK s \in ShortNames(table, n), b \in Nat \ {0} :
        /\ w \in Seq(Steps) /\ w # <<>> /\ LfnParts(n) \in Nat
        /\ \A x \in b .. b + LfnParts(n) : Unused(table, x)
        /\ Enters(w, n, s, f, b, LfnParts(n))
  BY <1>1, RegisterSteps
<1>3. PICK p \in Nat : p = LfnParts(n)
  BY <1>2
<1>4. s \in Sfn
  BY ShortNamesIs
<1>5. \A x \in b .. b + p : Unused(table, x)
  BY <1>2, <1>3
<1>6. ASSUME NEW j \in b .. b + p PROVE G[j].kind \in {"free", "deleted"}
  <2>1. j \in Places
    BY DEF Places
  <2>2. Unused(table, j)
    BY <1>5
  <2>3. Seen(table, j).kind \in {"free", "deleted"}
    BY <2>2, Kinds DEF Unused, Seen
  <2> QED
    BY <2>1, <2>3, Kinds
<1>7. Enters(w, n, s, f, b, p)
  BY <1>2, <1>3
<1>8. /\ NoRemoval(w) /\ Gives(w, f)
      /\ \E F \in [Places -> Entries] : Adds(F, G, n, s, f, b, p) /\ Writes(F, w)
  BY <1>2, <1>3, <1>4, <1>6, <1>7, EntersWrites
<1>9. PICK F \in [Places -> Entries] : Adds(F, G, n, s, f, b, p) /\ Writes(F, w)
  BY <1>8
<1>10. Writes(F, v)
  <2> SUFFICES ASSUME NEW k \in 1 .. Len(v), IsWrite(v[k]) PROVE F[v[k][1]] = v[k][2]
    BY DEF Writes
  <2>1. PICK j : j = v[k][1]
    OBVIOUS
  <2>2. G[j] = v[k][2]
    BY <2>1 DEF Writes
  <2>3. j \in DOMAIN table /\ ~ Unused(table, j)
    BY <2>1
  <2>4. j \in Places /\ j \notin b .. b + p
    BY <1>1, <1>5, <2>3 DEF Whole, Places
  <2> QED
    BY <1>9, <2>1, <2>2, <2>4 DEF Adds
<1>11. /\ Removes(w \o v, table, f) /\ Gives(w \o v, f) /\ Writes(F, w \o v)
       /\ \A j : Touches(w, j) \/ Touches(v, j) => Touches(w \o v, j)
  BY <1>2, <1>8, <1>9, <1>10, JoinedSteps
<1>12. Results(F, table, w \o v)
  <2>1. ASSUME NEW j \in Places PROVE F[j] = Seen(table, j) \/ Touches(w \o v, j)
    <3>1. CASE j \in b .. b + p
      BY <1>7, <1>11, <3>1 DEF Enters
    <3>2. CASE j \notin b .. b + p
      BY <1>9, <1>11, <3>2 DEF Adds
    <3> QED
      BY <3>1, <3>2
  <2> QED
    BY <1>11, <2>1, ResultsAre
<1>13. Given(F, Text(n), f, faults) /\ (faults = 0 => Clean(F))
  BY <1>9, AddedPurpose
<1>14. Purpose(F, names, asked', f, faults)
  BY <1>13 DEF Purpose
<1>15. asked' \in Name
  BY DEF Name
<1>16. w \o v # <<>>
  <2>1. Len(w) \in Nat \ {0} /\ Len(w \o v) = Len(w) + Len(v) /\ Len(v) \in Nat
    BY <1>2
  <2> QED
    BY <2>1
<1>17. /\ todo' # <<>> /\ Removes(todo', table, f) /\ Gives(todo', f) /\ Results(F, table, todo')
  BY <1>11, <1>12, <1>16
<1> QED
  BY <1>13, <1>14, <1>15, <1>17, Begins

\* A new file has no entry, and what it is to be called is no file's name.
LEMMA FreshBegins ==
  ASSUME Inv, Listing, Naming, todo = <<>>, NEW n \in Typed, NEW f \in File, Creatable(n, f),
         NEW w \in dir_register(table, n, f), NEW v \in Seq(Steps), todo' = w \o v,
         \A k \in 1 .. Len(v) : Kind(v[k]) = "sync",
         table' = table, taken' = taken, names' = names, faults' = faults, Looked,
         asked' = Text(n)
  PROVE  Naming' /\ Seems
<1>1. dir_find(table, Text(n)) = NoSlot /\ f \notin Files(table)
  BY DEF Creatable
<1>2. PICK G \in [Places -> Entries] :
        /\ \A j \in Places : G[j] = Seen(table, j)
        /\ faults = 0 => Clean(G)
  BY RestingNames
<1>3. names[Text(n)] = NoFile
  <2>1. Text(n) \in Name /\ names = NamesOf(table)
    BY RestingNames DEF Name
  <2> QED
    BY <1>1, <2>1 DEF NamesOf, FileOf
<1>4. \A k \in 1 .. Len(v) : Kind(v[k]) \notin {"sfn", "deleted"} /\ ~ IsWrite(v[k])
  BY DEF IsWrite, Kind
<1>5. Removes(v, table, f) /\ Gives(v, f) /\ Writes(G, v)
  <2>1. 0 \in Nat
    OBVIOUS
  <2> QED
    BY <1>4, <2>1 DEF Removes, Gives, Writes
<1>6. NoneOf(G, f)
  <2> SUFFICES ASSUME NEW y, Live(G, y), G[y].file = f PROVE FALSE
    BY DEF NoneOf
  <2>1. y \in Places /\ G[y].kind = "sfn" /\ G[y] = Seen(table, y)
    BY <1>2 DEF Live, IsSfn
  <2>2. y \in DOMAIN table /\ G[y] = table[y]
    BY <2>1, Kinds DEF Seen
  <2> QED
    BY <1>1, <2>1, <2>2 DEF Files, IsSfn
<1>7. \A j \in Places : G[j] = Seen(table, j) \/ (Touches(v, j) /\ G[j] = Deleted)
  BY <1>2
<1>8. names[Text(n)] \in {NoFile, f}
  BY <1>3
<1> QED
  BY <1>2, <1>4, <1>5, <1>6, <1>7, <1>8, EntersBegins

LEMMA OpenNames ==
  ASSUME Inv, Listing, Naming, todo = <<>>, NEW n \in Typed, NEW f \in File, f_open(n, f)
  PROVE  Naming' /\ Seems
<1>1. PICK w \in dir_register(table, n, f) : Begin(Text(n), w) /\ Scanned({End(table)}, Last(w)[1])
  BY DEF f_open
<1>2. Creatable(n, f)
  BY DEF f_open
<1>3. Last(w)[1] \in Nat \ {0} /\ w \in Seq(Steps)
  BY LastIs
<1>4. Looked
  BY <1>1, <1>3, ScannedIs
<1>5. <<>> \in Seq(Steps) /\ \A k \in 1 .. Len(<<>>) : Kind(<<>>[k]) = "sync"
  OBVIOUS
<1>6. /\ todo' = w \o <<>> /\ table' = table /\ taken' = taken /\ names' = names /\ faults' = faults
      /\ asked' = Text(n)
  BY <1>1, <1>3, Chained DEF Begin
<1> QED
  BY <1>2, <1>4, <1>5, <1>6, FreshBegins

LEMMA MkdirNames ==
  ASSUME Inv, Listing, Naming, todo = <<>>, NEW n \in Typed, NEW f \in File, f_mkdir(n, f)
  PROVE  Naming' /\ Seems
<1>1. PICK w \in dir_register(table, n, f) :
        /\ Begin(Text(n), w \o Sync)
        /\ disk' = Stored /\ dirty' = FALSE /\ sect' = Sector(Min({Last(w)[1], Len(table)}))
  BY DEF f_mkdir
<1>2. Creatable(n, f)
  BY DEF f_mkdir
<1>3. Last(w)[1] \in Nat \ {0}
  BY LastIs
<1>4. Looked
  BY <1>1, <1>3, StoredIs
<1>5. Sync \in Seq(Steps) /\ \A k \in 1 .. Len(Sync) : Kind(Sync[k]) = "sync"
  <2>1. Len(Sync) = 1 /\ Sync[1] = <<0, [kind |-> "sync"]>>
    BY SyncIs DEF Sync
  <2> QED
    BY <2>1, SyncIs, Kinds
<1>6. /\ todo' = w \o Sync /\ table' = table /\ taken' = taken /\ names' = names /\ faults' = faults
      /\ asked' = Text(n)
  BY <1>1 DEF Begin
<1> QED
  BY <1>2, <1>4, <1>5, <1>6, FreshBegins

LEMMA RenameNames ==
  ASSUME Inv, Listing, Naming, todo = <<>>, NEW o, NEW n \in Typed, f_rename(o, n)
  PROVE  Naming' /\ Seems
<1> DEFINE d == dir_find(table, o)
           e == dir_find(table, Text(n))
           D == {d} \cup IF e = d /\ n \notin Lossy THEN {} ELSE {End(table)}
<1>1. PICK i, f, r : i = d /\ f = table[i].file /\ r = dir_remove(table, i)
  OBVIOUS
<1>2. d # NoSlot /\ e \in {NoSlot, d}
  BY DEF f_rename
<1>3. PICK w \in dir_register(table, n, f) :
        Begin(Text(n), Order(w, r) \o Sync) /\ Scanned(D, Last(w)[1])
  <2>1. \E w \in dir_register(table, n, table[d].file) :
          Begin(Text(n), Order(w, dir_remove(table, d)) \o Sync) /\ Scanned(D, Last(w)[1])
    BY DEF f_rename
  <2> HIDE DEF d, D
  <2> QED
    BY <1>1, <2>1
<1> HIDE DEF D
<1>4. Live(table, i) /\ table \in Seq(Entries)
  BY <1>1, <1>2, InvMeans, BetweenCalls, FindIs
<1>5. f \in File /\ i \in Nat \ {0} /\ DOMAIN table = 1 .. Len(table) /\ Len(table) \in Nat
  BY <1>1, <1>4, BetweenCalls DEF Own, Live
<1>6. r \in Seq(Steps) /\ Last(w)[1] \in Nat \ {0} /\ w \in Seq(Steps)
  BY <1>1, <1>4, <1>5, RemoveIs, LastIs DEF Live
<1>7. Looked
  BY <1>3, <1>6, ScannedIs
<1>8. names[Text(n)] \in {NoFile, f}
  <2>1. Text(n) \in Name /\ names = NamesOf(table)
    BY RestingNames DEF Name
  <2> HIDE DEF d
  <2>2. names[Text(n)] = FileOf(table, e)
    BY <2>1 DEF NamesOf
  <2> HIDE DEF e
  <2> QED
    BY <1>1, <1>2, <2>2 DEF FileOf
<1> HIDE DEF d, e
<1>9. PICK F \in [Places -> Entries] :
        /\ \A j \in Places : F[j] = Seen(table, j)
        /\ faults = 0 => Clean(F)
  BY RestingNames
<1>10. PICK b : b = Block(table, i)
  OBVIOUS
<1>11. IsBlock(F, i, b) /\ i \in Places /\ F[i] = table[i] /\ F[i].kind = "sfn"
  BY <1>4, <1>9, <1>10, BetweenCalls, BlockSeen
<1>12. PICK G \in [Places -> Entries] : Cut(G, F, b, i)
  BY CutType
<1>13. PICK v : v = dir_remove(table, i) \o Sync
  OBVIOUS
<1>14. \A j \in b .. i : G[j] = Deleted
  <2>1. \A j \in b .. i : j \in Places
    BY <1>5, <1>11 DEF IsBlock, Places
  <2> QED
    BY <1>12, <2>1 DEF Cut
<1>15. /\ v \in Seq(Steps) /\ v # <<>> /\ Removes(v, table, f) /\ Gives(v, f) /\ Writes(G, v)
       /\ \A j \in b .. i : Touches(v, j)
  <2>1. \A j \in Block(table, i) .. i : G[j] = Deleted
    BY <1>10, <1>14
  <2>2. f = table[i].file
    BY <1>1
  <2> QED
    BY <1>4, <1>10, <1>13, <2>1, <2>2, BetweenCalls, RemoveSteps
<1>16. \A j \in Places : G[j] = Seen(table, j) \/ (Touches(v, j) /\ G[j] = Deleted)
  BY <1>9, <1>12, <1>15 DEF Cut
<1>17. ASSUME NEW k \in 1 .. Len(v), IsWrite(v[k])
       PROVE  v[k][1] \in DOMAIN table /\ ~ Unused(table, v[k][1])
  <2>1. Removing(v, table)
    BY <1>4, <1>13, BetweenCalls, RemoveSync
  <2>2. Kind(v[k]) = "deleted"
    BY <1>17, <2>1 DEF Removing, IsWrite, Kind
  <2>3. PICK y \in Nat : RemovesAt(v, table, f, y, k)
    BY <1>15, <2>2 DEF Removes
  <2>4. PICK x : x = v[k][1]
    OBVIOUS
  <2>5. x \in 1 .. y /\ Live(table, y) /\ \A z \in x .. y - 1 : table[z].kind = "lfn"
    BY <2>3, <2>4 DEF RemovesAt
  <2>6. x \in DOMAIN table /\ (x = y \/ table[x].kind = "lfn")
    BY <1>5, <2>5 DEF Live
  <2>7. table[x].kind \in {"sfn", "lfn"} /\ table[x] # Old
    BY <2>5, <2>6, Kinds DEF Live, IsSfn
  <2> QED
    BY <2>4, <2>6, <2>7 DEF Unused
<1>18. faults = 0 => Clean(G) /\ NoneOf(G, f)
  <2> SUFFICES ASSUME faults = 0 PROVE Clean(G) /\ NoneOf(G, f)
    OBVIOUS
  <2>1. Tidy(F) /\ Single(F)
    BY <1>9 DEF Clean
  <2>2. Tidy(G)
    BY <1>11, <1>12, <2>1, CutTidy
  <2>3. Live(F, i)
    BY <1>4, <1>11 DEF Live, IsSfn
  <2>4. Single(G) /\ NoneOf(G, F[i].file)
    BY <1>5, <1>11, <1>12, <2>1, <2>3, CutSingle
  <2> QED
    BY <1>1, <1>11, <2>2, <2>4 DEF Clean
<1>19. /\ todo' = w \o v /\ table' = table /\ taken' = taken /\ names' = names /\ faults' = faults
       /\ asked' = Text(n)
  BY <1>1, <1>3, <1>6, <1>13, SyncIs, Chained DEF Begin, Order
<1> QED
  BY <1>5, <1>7, <1>8, <1>15, <1>16, <1>17, <1>18, <1>19, EntersBegins

----------------------------------------------------------------------------
(* The names are those of NameSpace.                                       *)

LEMMA InitNames ==
  ASSUME Init PROVE Naming /\ Names!Init
<1>1. /\ table = [i \in 1 .. PerSector * PerCluster |-> Blank] /\ disk = table
      /\ names = NamesOf(table) /\ asked = NoName /\ taken = {} /\ todo = <<>> /\ faults = 0
  BY DEF Init
<1>2. Inv /\ Listing
  BY InitInv, InitListing
<1>3. table \in Seq(Entries) /\ \A i \in DOMAIN table : table[i] = Blank
  BY <1>1, <1>2, InvMeans
<1>4. \A i : ~ Live(table, i)
  BY <1>3, Kinds DEF Live, IsSfn
<1>5. Whole(table) /\ Own(table, taken) /\ Apart(table, taken)
  BY <1>1, <1>2, BetweenCalls
<1>6. Onward(table, taken, names, NoFile)
  BY <1>1, <1>5, OnwardNames
<1>7. PICK F : F = [i \in Places |-> Seen(table, i)]
  OBVIOUS
<1>8. F \in [Places -> Entries] /\ Results(F, table, todo)
  BY <1>1, <1>3, <1>7, RestNames
<1>9. Removes(todo, table, NoFile) /\ Gives(todo, NoFile)
  BY <1>1, NothingToDo
<1>10. Clean(F)
  <2>1. \A i \in Places : F[i].kind = "free"
    BY <1>3, <1>7, Kinds DEF Seen
  <2>2. \A i : ~ Live(F, i)
    BY <1>7, <2>1 DEF Live, IsSfn
  <2> QED
    BY <2>1, <2>2 DEF Clean, Tidy, Single
<1>11. Behindhand(todo, table, disk, taken, names)
  BY <1>1, <1>6, ShrunkSame DEF Behindhand, Onward
<1>12. Calling(NoFile, F)
  BY <1>1, <1>6, <1>8, <1>9, <1>10, <1>11 DEF Calling
<1>13. names = [n \in Name |-> names[n]]
  BY <1>1 DEF NamesOf
<1>14. Naming
  BY <1>1, <1>8, <1>12, <1>13 DEF Naming
<1>15. ASSUME NEW n \in Name PROVE names[n] = NoFile
  <2>1. \/ NamesOf(table)[n] = NoFile
        \/ \E d : Live(table, d)
    BY <1>5, NamesAre
  <2> QED
    BY <1>1, <1>4, <2>1
<1>16. names = [n \in Name |-> NoFile]
  BY <1>13, <1>15
<1>17. (faults > 0) = FALSE
  BY <1>1
<1>18. Names!Init
  BY <1>1, <1>16, <1>17 DEF Names!Init
<1> QED
  BY <1>14, <1>18

LEMMA NextNames ==
  ASSUME Inv, Listing, Listing', Naming, [Next]_vars
  PROVE  Naming' /\ Seems
<1>1. CASE Call
  <2>1. todo = <<>>
    BY <1>1 DEF Call
  <2>2. CASE \E n \in Typed, f \in File : f_open(n, f) \/ f_mkdir(n, f)
    BY <2>1, <2>2, OpenNames, MkdirNames
  <2>3. CASE \E n \in Name : f_unlink(n)
    BY <2>1, <2>3, UnlinkNames
  <2>4. CASE \E o \in Name, n \in Typed : f_rename(o, n)
    BY <2>1, <2>4, RenameNames
  <2>5. CASE \E n \in Typed : dir_register_denied(n)
    BY <2>1, <2>5, DeniedNames
  <2> QED
    BY <1>1, <2>2, <2>3, <2>4, <2>5 DEF Call
<1>2. CASE dir_next
  BY <1>2, LinkNames, FlushNames, ClearNames DEF dir_next
<1>3. CASE write_entry \/ sync_fs \/ f_sync
  BY <1>3, WriteNames, SyncFsNames, SyncNames
<1>4. CASE write_error \/ clear_error \/ PowerLoss
  BY <1>4, WriteErrorNames, ClearErrorNames, PowerLossNames
<1>5. CASE UNCHANGED vars
  BY <1>5, StutterNames
<1> QED
  BY <1>1, <1>2, <1>3, <1>4, <1>5 DEF Next

LEMMA StaysBare ==
  ASSUME [Next]_vars, bare PROVE bare'
<1>1. CASE Call
  BY <1>1 DEF Call, f_open, f_mkdir, f_unlink, f_rename, dir_register_denied, Begin
<1>2. CASE dir_next
  BY <1>2 DEF dir_next, dir_next_link, dir_next_flush, dir_next_clear
<1>3. CASE write_entry \/ sync_fs \/ f_sync
  BY <1>3 DEF write_entry, sync_fs, f_sync
<1>4. CASE write_error \/ clear_error \/ PowerLoss
  BY <1>4 DEF write_error, clear_error, PowerLoss
<1>5. CASE UNCHANGED vars
  BY <1>5 DEF vars
<1> QED
  BY <1>1, <1>2, <1>3, <1>4, <1>5 DEF Next

\* f_open, f_mkdir, f_rename and f_unlink keep what NameSpace promises of the
\* names in a directory until a cluster stays uncleared: however their writes
\* and those of the window are cut short, the name of one file comes to lead to
\* another in no case but those NameSpace has: it is in taken, or the power is
\* lost after an earlier failure.
THEOREM NamesUntilBare == Spec => Names!Init /\ [][~ bare' => Seems]_vars
<1>1. Init => Naming /\ Names!Init
  BY InitNames
<1>2. /\ Inv /\ (~ bare => Listing) /\ (~ bare => Listing)' /\ (~ bare => Naming) /\ [Next]_vars
      => (~ bare => Naming)' /\ (~ bare' => Seems)
  BY NextNames, StaysBare
<1> QED
  BY <1>1, <1>2, WindowInvariant, NamesStayApart, PTL DEF Spec

\* Where every cluster is cleared, the directory is a NameSpace.
THEOREM NamesImplemented == Spec /\ [] ~ bare => NamesRefined
<1>1. UNCHANGED vars => Seems
  BY DEF vars, Seems
<1>2. Spec /\ [] ~ bare => Names!Init /\ [][Names!Next]_<<names, asked, taken, faults > 0>>
  BY <1>1, NamesUntilBare, PTL DEF Seems
<1> QED
  BY <1>2, PTL DEF NamesRefined, Names!Spec
=============================================================================
