---------------------------- MODULE FatFileProofs ----------------------------
(***************************************************************************)
(* Proofs about FatFile, for any size of a sector and of a cluster, any    *)
(* number of clusters, calls and faults, and calls of any length.          *)
(*                                                                         *)
(* The invariant says how chain, FIL object, buffer and medium hang        *)
(* together: the current cluster and the sector in the buffer are those of *)
(* the position (PlaceInv), and sectors of the chain are nobody else's     *)
(* (SpaceInv), so that a sector written is either one of this file or, for *)
(* other files, none of it.                                                *)
(*                                                                         *)
(* The second part shows that FatFile implements ByteFile: of the bytes of *)
(* the file, each step changes what the step of ByteFile says.             *)
(***************************************************************************)
EXTENDS FatFile, SequenceTheorems, FiniteSetTheorems, TLAPS

----------------------------------------------------------------------------
(* The inductive invariant.                                                *)

Page == [0 .. SS - 1 -> Theirs .. MaxCall]
Held == {chain[i] : i \in DOMAIN chain}

FilRec == [open : BOOLEAN, write : BOOLEAN, fptr : Nat, objsize : Nat,
           clust : Clust \cup {NoClust}, sect : Sector \cup {NoSect}, buf : Page,
           dirty : BOOLEAN, modified : BOOLEAN, err : BOOLEAN, cltbl : Seq(Clust)]

TypeInv ==
  /\ medium \in [Sector -> Page]
  /\ chain \in Seq(Clust) /\ others \subseteq Clust /\ lost \subseteq Clust
  /\ fil \in FilRec
  /\ call \in [op : {"none", "read", "write"}, rem : Nat]
  /\ calls \in 0 .. MaxCall /\ faults \in 0 .. MaxFault
  /\ known \subseteq Nat /\ hurt \in BOOLEAN

\* A cluster is in the chain once, and then nobody else's.
SpaceInv ==
  /\ \A i, j \in DOMAIN chain : chain[i] = chain[j] => i = j
  /\ Held \cap others = {} /\ Held \cap lost = {}

\* The chain has room for the file, which ends before Limit.
SizeInv ==
  /\ fil.objsize <= Len(chain) * BCS /\ fil.objsize < Limit
  /\ \A p \in known : p < fil.objsize
  /\ DOMAIN stored \subseteq known

Sound == fil.open /\ ~fil.err

\* Unless a call failed: the current cluster is the one before the position,
\* the buffer has the sector of a position inside a sector, and a link map is
\* the chain.
PlaceInv ==
  Sound =>
    /\ fil.fptr <= fil.objsize
    /\ fil.fptr > 0 => fil.clust = chain[(fil.fptr - 1) \div BCS + 1]
    /\ fil.fptr % SS # 0 => fil.sect = SectorOf(fil.fptr)
    /\ fil.cltbl # <<>> => fil.cltbl = chain

CallInv ==
  /\ call.op = "none" => call = Idle
  /\ call.op # "none" => Sound /\ call.rem > 0
  /\ call.op = "read" => fil.fptr + call.rem <= fil.objsize
  /\ call.op = "write" => fil.write /\ fil.fptr + call.rem < Limit /\ calls > 0

FaultInv == (fil.err \/ hurt => faults > 0)

\* A dirty buffer is of a sector of the file.
DirtyInv ==
  fil.dirty => fil.open /\ fil.sect \in Sector /\ (hurt \/ fil.sect[1] \in Held)

\* What f_sync stored is on the medium, and a dirty buffer has it too.
StoredInv ==
  \A p \in DOMAIN stored :
    /\ medium[SectorOf(p)][p % SS] = stored[p]
    /\ fil.dirty /\ fil.sect = SectorOf(p) => fil.buf[p % SS] = stored[p]

\* A buffer that is not dirty agrees with the medium in what f_write wrote.
CleanInv ==
  \A p \in known :
    ~fil.dirty /\ fil.sect = SectorOf(p) => fil.buf[p % SS] = medium[fil.sect][p % SS]

IInv ==
  /\ TypeInv /\ SpaceInv /\ SizeInv /\ PlaceInv /\ CallInv /\ FaultInv /\ DirtyInv
  /\ StoredInv /\ CleanInv /\ OthersKept

----------------------------------------------------------------------------
(* Sectors and clusters of a byte.                                         *)

LEMMA DivIs ==
  ASSUME NEW b \in Nat \ {0}, NEW q \in Nat, NEW r \in 0 .. b - 1
  PROVE  (b * q + r) \div b = q /\ (b * q + r) % b = r
  BY SMTT(30)

LEMMA DivParts ==
  ASSUME NEW a \in Nat, NEW b \in Nat \ {0}
  PROVE  a \div b \in Nat /\ a % b \in 0 .. b - 1 /\ a = b * (a \div b) + (a % b)
<1>1. a % b \in 0 .. b - 1
  BY SMTT(30)
<1>2. a \div b \in Int
  BY SMTT(30)
<1>3. a \div b >= 0
  BY SMTT(30)
<1>4. a = b * (a \div b) + (a % b)
  BY SMTT(30)
<1> QED
  BY <1>1, <1>2, <1>3, <1>4

LEMMA DivUnique ==
  ASSUME NEW a \in Nat, NEW b \in Nat \ {0}, NEW q \in Nat, NEW r \in 0 .. b - 1, a = b * q + r
  PROVE  a \div b = q /\ a % b = r
  BY DivIs

LEMMA BCSIs == BCS \in Nat \ {0} /\ BCS = CSIZE * SS /\ SS \in Nat \ {0} /\ CSIZE \in Nat \ {0}
  BY SizeAssumption, SMTT(30) DEF BCS

\* A cluster is CSIZE sectors.
LEMMA ClusterOf ==
  ASSUME NEW p \in Nat
  PROVE  /\ p \div BCS = (p \div SS) \div CSIZE
         /\ p \div SS = CSIZE * (p \div BCS) + ((p \div SS) % CSIZE)
         /\ p \div BCS \in Nat /\ p \div SS \in Nat /\ (p \div SS) % CSIZE \in 0 .. CSIZE - 1
<1> DEFINE s == p \div SS
           k == s \div CSIZE
           j == s % CSIZE
           r == p % SS
<1>1. s \in Nat /\ r \in 0 .. SS - 1 /\ p = SS * s + r
  BY DivParts, BCSIs
<1>2. k \in Nat /\ j \in 0 .. CSIZE - 1 /\ s = CSIZE * k + j
  BY <1>1, DivParts, BCSIs
<1>0. p \div SS = s /\ (p \div SS) \div CSIZE = k /\ (p \div SS) % CSIZE = j
  OBVIOUS
<1> HIDE DEF s, k, j, r
<1>3. p = BCS * k + (SS * j + r)
  <2>1. SS * (CSIZE * k + j) = (CSIZE * SS) * k + SS * j
    BY <1>2, BCSIs, SMTT(30)
  <2> QED
    BY <1>1, <1>2, <2>1, BCSIs
<1>4. SS * j + r \in 0 .. BCS - 1
  <2>1. SS * j <= SS * (CSIZE - 1) /\ SS * j \in Nat /\ SS * (CSIZE - 1) = CSIZE * SS - SS
    BY <1>2, BCSIs, SMTT(30)
  <2> QED
    BY <1>1, <2>1, BCSIs
<1>5. p \div BCS = k
  <2> DEFINE t == SS * j + r
  <2>1. t \in 0 .. BCS - 1 /\ p = BCS * k + t /\ BCS \in Nat \ {0}
    BY <1>3, <1>4, BCSIs
  <2> HIDE DEF t
  <2> QED
    BY <2>1, <1>2, DivUnique
<1> QED
  BY <1>0, <1>1, <1>2, <1>5

\* The bytes of a sector are SS, one after the other.
LEMMA SectorParts ==
  ASSUME NEW p \in Nat
  PROVE  /\ p \div SS \in Nat /\ p % SS \in 0 .. SS - 1
         /\ p = SS * (p \div SS) + (p % SS)
         /\ (p \div SS) % CSIZE \in 0 .. CSIZE - 1
         /\ p \div BCS \in Nat /\ p % BCS \in 0 .. BCS - 1
         /\ p = BCS * (p \div BCS) + (p % BCS)
  BY DivParts, BCSIs, ClusterOf

\* Two bytes with the same place in the chain and in the cluster are in the
\* same sector.
LEMMA SameSector ==
  ASSUME NEW p \in Nat, NEW q \in Nat, NEW i \in Nat,
         p \div BCS = q \div BCS, (p \div SS) % CSIZE = ((q \div SS) % CSIZE) + i
  PROVE  p \div SS = (q \div SS) + i
<1> DEFINE kp == p \div BCS
           kq == q \div BCS
           jp == (p \div SS) % CSIZE
           jq == (q \div SS) % CSIZE
           sp == p \div SS
           sq == q \div SS
<1>1. sp = CSIZE * kp + jp /\ kp \in Nat /\ jp \in 0 .. CSIZE - 1
  BY ClusterOf
<1>5. sq = CSIZE * kq + jq /\ jq \in 0 .. CSIZE - 1
  BY ClusterOf
<1>2. kp = kq /\ jp = jq + i
  OBVIOUS
<1> HIDE DEF kp, kq, jp, jq, sp, sq
<1>3. CSIZE * kp \in Nat
  BY <1>1, BCSIs, SMTT(30)
<1>4. sp = sq + i
  BY <1>1, <1>2, <1>3, <1>5, BCSIs
<1> QED
  BY <1>4 DEF sp, sq

\* A position inside a cluster, or at its end, is in the cluster of the byte
\* before.
LEMMA Before ==
  ASSUME NEW p \in Nat \ {0}
  PROVE  /\ p % BCS # 0 => (p - 1) \div BCS = p \div BCS
         /\ p % BCS = 0 => (p - 1) \div BCS = (p \div BCS) - 1 /\ p \div BCS > 0
         /\ (p - 1) \div BCS \in Nat
         /\ (p - 1) \div BCS <= p \div BCS
<1> DEFINE k == p \div BCS
           r == p % BCS
<1>1. k \in Nat /\ r \in 0 .. BCS - 1 /\ p = BCS * k + r /\ BCS \in Nat \ {0}
  BY DivParts, BCSIs
<1>2. p \div BCS = k /\ p % BCS = r
  OBVIOUS
<1> HIDE DEF k, r
<1>3. CASE r # 0
  <2>1. r - 1 \in 0 .. BCS - 1 /\ p - 1 = BCS * k + (r - 1) /\ p - 1 \in Nat
    <3>1. BCS * k \in Nat
      BY <1>1, SMTT(30)
    <3> QED
      BY <1>1, <1>3, <3>1
  <2>2. (p - 1) \div BCS = k
    BY <1>1, <2>1, DivUnique
  <2> QED
    BY <1>1, <1>2, <1>3, <2>2
<1>4. CASE r = 0
  <2>1. k # 0
    BY <1>1, <1>4, SMTT(30)
  <2>2. BCS - 1 \in 0 .. BCS - 1 /\ p - 1 = BCS * (k - 1) + (BCS - 1) /\ p - 1 \in Nat /\ k - 1 \in Nat
    <3>1. BCS * (k - 1) = BCS * k - BCS /\ BCS * k \in Nat
      BY <1>1, SMTT(30)
    <3> QED
      BY <1>1, <1>4, <2>1, <3>1
  <2>3. (p - 1) \div BCS = k - 1
    BY <1>1, <2>2, DivUnique
  <2> QED
    BY <1>1, <1>2, <1>4, <2>1, <2>3
<1> QED
  BY <1>3, <1>4

\* A position inside a sector is inside a cluster.
LEMMA InsideSector ==
  ASSUME NEW p \in Nat, p % SS # 0
  PROVE  p % BCS # 0 /\ p > 0
<1>1. SUFFICES ASSUME p % BCS = 0 PROVE FALSE
  BY DivParts, BCSIs, SMTT(30)
<1> DEFINE k == p \div BCS
<1>2. p = BCS * k + 0 /\ k \in Nat
  <2>1. k \in Nat /\ p = BCS * k + (p % BCS)
    BY SectorParts
  <2> QED
    BY <1>1, <2>1
<1> HIDE DEF k
<1>3. p = SS * (CSIZE * k) + 0 /\ CSIZE * k \in Nat
  <2>1. (CSIZE * SS) * k = SS * (CSIZE * k) /\ CSIZE * k \in Nat
    BY <1>2, BCSIs, SMTT(30)
  <2> QED
    BY <1>2, <2>1, BCSIs
<1> DEFINE m == CSIZE * k
<1>4. p = SS * m + 0 /\ m \in Nat /\ 0 \in 0 .. SS - 1
  BY <1>3, BCSIs
<1> HIDE DEF m
<1>5. p % SS = 0
  BY <1>4, BCSIs, DivUnique
<1> QED
  BY <1>5

\* The chain has a cluster for each byte below its size.
LEMMA InChain ==
  ASSUME NEW n \in Nat, NEW p \in Nat
  PROVE  /\ p < n * BCS <=> p \div BCS < n
         /\ p < n * BCS => p \div BCS + 1 \in 1 .. n
<1> DEFINE k == p \div BCS
           r == p % BCS
<1>1. k \in Nat /\ r \in 0 .. BCS - 1 /\ p = BCS * k + r /\ BCS \in Nat \ {0}
  BY DivParts, BCSIs
<1>2. p \div BCS = k
  OBVIOUS
<1> HIDE DEF k, r
<1>3. p < n * BCS => k < n
  BY <1>1, SMTT(30)
<1>4. k < n => p < n * BCS
  BY <1>1, SMTT(30)
<1> QED
  BY <1>1, <1>2, <1>3, <1>4

\* The next n bytes are in the cluster of the first one when they fit.
LEMMA Advance ==
  ASSUME NEW p \in Nat, NEW n \in Nat \ {0}, NEW h \in Nat,
         h = SS * ((p \div SS) % CSIZE) + (p % SS), h + n <= BCS
  PROVE  (p + n - 1) \div BCS = p \div BCS
<1> DEFINE k == p \div BCS
           j == (p \div SS) % CSIZE
           t == p \div SS
           r == p % SS
<1>1. p = SS * t + r /\ r \in 0 .. SS - 1
  BY SectorParts
<1>2. t = CSIZE * k + j /\ k \in Nat /\ j \in 0 .. CSIZE - 1
  BY ClusterOf
<1>3. h = SS * j + r /\ p \div BCS = k
  OBVIOUS
<1> HIDE DEF k, j, t, r
<1>4. p = BCS * k + h
  <2>1. SS * (CSIZE * k + j) = (CSIZE * SS) * k + SS * j /\ SS * j \in Nat /\ (CSIZE * SS) * k \in Nat
    BY <1>2, BCSIs, SMTT(30)
  <2>2. SS * t = SS * (CSIZE * k + j) /\ BCS * k = (CSIZE * SS) * k
    BY <1>2, BCSIs
  <2>3. SS * t = BCS * k + SS * j
    BY <2>1, <2>2
  <2>4. BCS * k \in Nat /\ SS * j \in Nat
    BY <2>1, <2>2
  <2> QED
    BY <1>1, <1>3, <2>3, <2>4
<1> DEFINE u == h + n - 1
<1>5. u \in 0 .. BCS - 1 /\ p + n - 1 = BCS * k + u /\ p + n - 1 \in Nat
  <2>1. BCS * k \in Nat
    BY <1>2, BCSIs, SMTT(30)
  <2> QED
    BY <1>4, <2>1, BCSIs
<1> DEFINE a == p + n - 1
<1>7. a \in Nat /\ a = BCS * k + u /\ (p + n - 1) \div BCS = a \div BCS
  BY <1>5
<1> HIDE DEF u, a
<1>8. BCS \in Nat \ {0}
  BY BCSIs
<1>6. (p + n - 1) \div BCS = k
  BY <1>2, <1>5, <1>7, <1>8, DivUnique
<1> QED
  BY <1>3, <1>6

\* A part of a sector.
LEMMA AdvancePart ==
  ASSUME NEW p \in Nat, NEW n \in Nat \ {0}, n <= SS - (p % SS)
  PROVE  /\ (p + n - 1) \div BCS = p \div BCS
         /\ (p + n) % SS # 0 => (p + n) \div SS = p \div SS /\ (p + n) \div BCS = p \div BCS
<1> DEFINE j == (p \div SS) % CSIZE
           r == p % SS
           t == p \div SS
           h == SS * j + r
<1>1. p = SS * t + r /\ r \in 0 .. SS - 1 /\ j \in 0 .. CSIZE - 1 /\ t \in Nat
  BY SectorParts
<1>2. n <= SS - r /\ p \div SS = t
  OBVIOUS
<1>3. h \in Nat /\ h + n <= BCS
  <2> HIDE DEF j, r, t
  <2>1. SS * j <= SS * (CSIZE - 1) /\ SS * j \in Nat /\ SS * (CSIZE - 1) = CSIZE * SS - SS
    BY <1>1, BCSIs, SMTT(30)
  <2> QED
    BY <1>1, <1>2, <2>1, BCSIs
<1>4. (p + n - 1) \div BCS = p \div BCS
  BY <1>3, Advance
<1>5. ASSUME (p + n) % SS # 0
      PROVE  (p + n) \div SS = t /\ n < SS - r
  <2> HIDE DEF j, r, t, h
  <2>1. CASE n = SS - r
    <3>1. p + n = SS * (t + 1) + 0 /\ t + 1 \in Nat /\ 0 \in 0 .. SS - 1 /\ p + n \in Nat
      <4>1. SS * (t + 1) = SS * t + SS /\ SS * t \in Nat
        BY <1>1, BCSIs, SMTT(30)
      <4> QED
        BY <1>1, <2>1, <4>1, BCSIs
    <3> DEFINE v == t + 1
    <3>2. p + n = SS * v + 0 /\ v \in Nat
      BY <3>1
    <3> HIDE DEF v
    <3>3. (p + n) % SS = 0
      BY <3>1, <3>2, BCSIs, DivUnique
    <3> QED
      BY <1>5, <3>3
  <2>2. CASE n # SS - r
    <3> DEFINE v == r + n
    <3>1. v \in 0 .. SS - 1 /\ p + n = SS * t + v /\ p + n \in Nat
      <4>1. SS * t \in Nat
        BY <1>1, BCSIs, SMTT(30)
      <4> QED
        BY <1>1, <1>2, <2>2, <4>1, BCSIs
    <3> HIDE DEF v
    <3>2. (p + n) \div SS = t
      BY <1>1, <3>1, BCSIs, DivUnique
    <3> QED
      BY <1>1, <1>2, <2>2, <3>2, BCSIs
  <2> QED
    BY <2>1, <2>2
<1>6. ASSUME (p + n) % SS # 0
      PROVE  (p + n) \div BCS = p \div BCS
  <2>1. (p + n) \div BCS = ((p + n) \div SS) \div CSIZE /\ p \div BCS = (p \div SS) \div CSIZE
    BY ClusterOf
  <2> QED
    BY <1>2, <1>5, <1>6, <2>1
<1> QED
  BY <1>2, <1>4, <1>5, <1>6

\* c whole sectors.
LEMMA AdvanceSectors ==
  ASSUME NEW p \in Nat, p % SS = 0, NEW c \in Nat \ {0}, c <= CSIZE - ((p \div SS) % CSIZE)
  PROVE  /\ c * SS \in Nat \ {0}
         /\ (p + c * SS - 1) \div BCS = p \div BCS
         /\ (p + c * SS) % SS = 0
<1> DEFINE j == (p \div SS) % CSIZE
           t == p \div SS
           n == c * SS
           h == SS * j + (p % SS)
<1>1. p = SS * t /\ j \in 0 .. CSIZE - 1 /\ t \in Nat
  <2>1. p = SS * t + (p % SS) /\ j \in 0 .. CSIZE - 1 /\ t \in Nat
    BY SectorParts
  <2>2. SS * t \in Nat
    <3> HIDE DEF t, j
    <3> QED
      BY <2>1, BCSIs, SMTT(30)
  <2> HIDE DEF t, j
  <2> QED
    BY <2>1, <2>2
<1>2. c <= CSIZE - j /\ n = c * SS
  OBVIOUS
<1>3. n \in Nat \ {0} /\ h \in Nat /\ h + n <= BCS
  <2>1. h = SS * j
    <3>1. SS * j \in Nat
      <4> HIDE DEF j
      <4> QED
        BY <1>1, BCSIs, SMTT(30)
    <3> QED
      BY <3>1
  <2> HIDE DEF j, t, n, h
  <2>2. SS * (j + c) <= SS * CSIZE /\ SS * (j + c) = SS * j + SS * c /\ SS * CSIZE = CSIZE * SS
        /\ SS * j \in Nat /\ SS * c = c * SS /\ c * SS \in Nat \ {0}
    BY <1>1, <1>2, BCSIs, SMTT(30)
  <2> QED
    BY <1>2, <2>1, <2>2, BCSIs
<1>4. (p + n - 1) \div BCS = p \div BCS
  BY <1>3, Advance
<1>5. (p + n) % SS = 0
  <2> DEFINE v == t + c
  <2>1. p + n = SS * v + 0 /\ v \in Nat /\ p + n \in Nat /\ 0 \in 0 .. SS - 1
    <3> HIDE DEF t, j, n
    <3>1. SS * (t + c) = SS * t + c * SS /\ SS * t \in Nat /\ t + c \in Nat
      BY <1>1, BCSIs, SMTT(30)
    <3> QED
      BY <1>1, <1>2, <1>3, <3>1, BCSIs
  <2> HIDE DEF v, n
  <2> QED
    BY <2>1, BCSIs, DivUnique
<1> QED
  BY <1>3, <1>4, <1>5

\* The first n bytes behind p, which is at a sector boundary, in c sectors.
LEMMA AheadIn ==
  ASSUME NEW p \in Nat, p % SS = 0, NEW c \in Nat \ {0}, c <= CSIZE - ((p \div SS) % CSIZE),
         NEW q \in p .. p + c * SS - 1
  PROVE  /\ q \div BCS = p \div BCS
         /\ \E i \in 0 .. c - 1 : (q \div SS) % CSIZE = ((p \div SS) % CSIZE) + i
<1> DEFINE t == p \div SS
           j == t % CSIZE
           k == p \div BCS
           d == q - p
           i == d \div SS
           e == d % SS
<1>1. p = SS * t + (p % SS) /\ t \in Nat /\ j \in 0 .. CSIZE - 1
  BY SectorParts
<1>2. t = CSIZE * k + j /\ k \in Nat
  BY ClusterOf
<1>3. c * SS \in Nat \ {0}
  BY BCSIs, SMTT(30)
<1>4. d \in Nat /\ d < c * SS /\ q \in Nat /\ q = p + d
  BY <1>3
<1>5. i \in Nat /\ e \in 0 .. SS - 1 /\ d = SS * i + e
  BY <1>4, DivParts, BCSIs
<1>6. c <= CSIZE - j /\ p % SS = 0 /\ p \div SS = t /\ p \div BCS = k /\ (p \div SS) % CSIZE = j
  OBVIOUS
<1> HIDE DEF t, j, k, d, i, e
<1>7. i < c
  BY <1>4, <1>5, BCSIs, SMTT(30)
<1> DEFINE u == t + i
<1>8. q = SS * u + e /\ u \in Nat
  <2>1. SS * (t + i) = SS * t + SS * i /\ SS * t \in Nat /\ SS * i \in Nat /\ t + i \in Nat
    BY <1>1, <1>5, BCSIs, SMTT(30)
  <2>2. p = SS * t
    BY <1>1, <1>6, <2>1
  <2> QED
    BY <1>4, <1>5, <2>1, <2>2, BCSIs
<1> HIDE DEF u
<1>9. q \div SS = u
  BY <1>4, <1>5, <1>8, BCSIs, DivUnique
<1> DEFINE f == j + i
<1>10. u = CSIZE * k + f /\ f \in 0 .. CSIZE - 1
  <2>1. CSIZE * k \in Nat
    BY <1>2, BCSIs, SMTT(30)
  <2> QED
    BY <1>1, <1>2, <1>5, <1>6, <1>7, <2>1, BCSIs DEF u
<1> HIDE DEF f
<1>11. u \div CSIZE = k /\ u % CSIZE = f
  BY <1>2, <1>8, <1>10, BCSIs, DivUnique
<1>12. q \div BCS = k
  BY <1>4, <1>9, <1>11, ClusterOf
<1>13. i \in 0 .. c - 1
  BY <1>5, <1>7
<1> QED
  BY <1>6, <1>9, <1>11, <1>12, <1>13 DEF f

\* The bytes of those sectors.
LEMMA BytesOfSectors ==
  ASSUME NEW p \in Nat, p % SS = 0, NEW q \in Nat, NEW c \in Nat, NEW i \in 0 .. c - 1,
         q \div SS = (p \div SS) + i
  PROVE  q \in p .. p + c * SS - 1
<1> DEFINE t == p \div SS
           r == q % SS
<1>1. p = SS * t /\ t \in Nat
  <2>1. p = SS * t + (p % SS) /\ t \in Nat
    BY SectorParts
  <2>2. SS * t \in Nat
    <3> HIDE DEF t
    <3> QED
      BY <2>1, BCSIs, SMTT(30)
  <2> HIDE DEF t
  <2> QED
    BY <2>1, <2>2
<1>2. q = SS * (t + i) + r /\ r \in 0 .. SS - 1
  <2>1. q = SS * (q \div SS) + r /\ r \in 0 .. SS - 1
    BY SectorParts
  <2>2. q \div SS = t + i
    OBVIOUS
  <2> HIDE DEF t, r
  <2> QED
    BY <2>1, <2>2
<1> HIDE DEF t, r
<1>3. SS * (t + i) = SS * t + SS * i /\ SS * i \in Nat /\ SS * t \in Nat /\ SS * i + SS <= c * SS
      /\ c * SS \in Nat
  BY <1>1, BCSIs, SMTT(30)
<1> QED
  BY <1>1, <1>2, <1>3, BCSIs

\* A byte of the sector of p that is not among the n bytes from p.
LEMMA BytesOfPart ==
  ASSUME NEW p \in Nat, NEW q \in Nat, NEW n \in Nat, q \div SS = p \div SS,
         q % SS \in (p % SS) .. (p % SS) + n - 1
  PROVE  q \in p .. p + n - 1
<1>1. q = SS * (q \div SS) + (q % SS) /\ p = SS * (p \div SS) + (p % SS)
      /\ p % SS \in 0 .. SS - 1 /\ q % SS \in 0 .. SS - 1 /\ p \div SS \in Nat
  BY SectorParts
<1> DEFINE t == p \div SS
           u == SS * t
<1>2. u \in Nat
  <2>1. t \in Nat
    BY <1>1
  <2> HIDE DEF t
  <2> QED
    BY <2>1, BCSIs, SMTT(30)
<1>3. q = u + (q % SS) /\ p = u + (p % SS)
  BY <1>1
<1> HIDE DEF u
<1> QED
  BY <1>1, <1>2, <1>3, BCSIs

----------------------------------------------------------------------------
(* The chain.                                                              *)

LEMMA ChainIs ==
  ASSUME TypeInv
  PROVE  Len(chain) \in Nat /\ DOMAIN chain = 1 .. Len(chain)
         /\ \A i \in 1 .. Len(chain) : chain[i] \in Clust
  BY DEF TypeInv

\* A byte of the file is in a sector of the chain.
LEMMA SectorIn ==
  ASSUME TypeInv, SizeInv, NEW p \in Nat, p < fil.objsize
  PROVE  /\ p \div BCS + 1 \in DOMAIN chain
         /\ SectorOf(p) \in Sector /\ SectorOf(p)[1] \in Held /\ SectorOf(p) # NoSect
<1>1. fil.objsize \in Nat /\ fil.objsize <= Len(chain) * BCS
  BY DEF TypeInv, FilRec, SizeInv
<1>2. Len(chain) \in Nat /\ DOMAIN chain = 1 .. Len(chain)
  BY ChainIs
<1>3. Len(chain) * BCS \in Nat
  BY <1>2, BCSIs, SMTT(30)
<1> DEFINE n == Len(chain)
           i == p \div BCS + 1
<1>4. p < n * BCS
  BY <1>1, <1>3
<1>5. i \in DOMAIN chain
  <2>1. n \in Nat
    BY <1>2
  <2> HIDE DEF n
  <2>2. p \div BCS + 1 \in 1 .. n
    BY <1>4, <2>1, InChain
  <2> QED
    BY <1>2, <2>2 DEF n
<1>6. chain[i] \in Clust /\ chain[i] \in Held
  BY <1>2, <1>5, ChainIs DEF Held
<1>7. SectorOf(p) = <<chain[i], (p \div SS) % CSIZE>>
  BY DEF SectorOf, clust2sect
<1>8. (p \div SS) % CSIZE \in 0 .. CSIZE - 1
  BY SectorParts
<1> HIDE DEF i
<1> QED
  BY <1>5, <1>6, <1>7, <1>8, ClustAssumption DEF Sector, NoSect, i

LEMMA KnownIn ==
  ASSUME TypeInv, SizeInv, NEW p \in known
  PROVE  /\ p \in Nat /\ p < fil.objsize
         /\ p \div BCS + 1 \in DOMAIN chain
         /\ SectorOf(p) \in Sector /\ SectorOf(p)[1] \in Held /\ SectorOf(p) # NoSect
<1>1. p \in Nat /\ p < fil.objsize
  BY DEF TypeInv, SizeInv
<1> QED
  BY <1>1, SectorIn

LEMMA OrderIs ==
  ASSUME TypeInv, SpaceInv, NEW k \in DOMAIN chain
  PROVE  Order(chain[k]) = k
<1>1. \A i \in DOMAIN chain : chain[i] = chain[k] => i = k
  BY DEF SpaceInv
<1>2. Order(chain[k]) \in DOMAIN chain /\ chain[Order(chain[k])] = chain[k]
  BY DEF Order
<1> QED
  BY <1>1, <1>2

\* A sector that is i behind the sector of p in a cluster of the chain.
LEMMA InSectors ==
  ASSUME NEW all, \A i, j \in DOMAIN all : all[i] = all[j] => i = j,
         NEW p \in Nat, NEW q \in Nat, NEW i \in Nat,
         p \div BCS + 1 \in DOMAIN all, q \div BCS + 1 \in DOMAIN all,
         clust2sect(all[q \div BCS + 1], q) = <<all[p \div BCS + 1], ((p \div SS) % CSIZE) + i>>
  PROVE  q \div SS = (p \div SS) + i
<1>1. all[q \div BCS + 1] = all[p \div BCS + 1] /\ (q \div SS) % CSIZE = ((p \div SS) % CSIZE) + i
  BY DEF clust2sect
<1>2. q \div BCS + 1 = p \div BCS + 1
  BY <1>1
<1>3. q \div BCS \in Nat /\ p \div BCS \in Nat
  BY SectorParts
<1>4. q \div BCS = p \div BCS
  BY <1>2, <1>3
<1> QED
  BY <1>1, <1>4, SameSector

Fresh(s) == s \in Seq(Free) /\ \A i, j \in 1 .. Len(s) : s[i] = s[j] => i = j

Grown(all) == \E s : Fresh(s) /\ all = chain \o s

LEMMA NotGrown ==
  ASSUME TypeInv
  PROVE  Grown(chain)
<1>1. Fresh(<<>>) /\ chain = chain \o <<>>
  BY DEF Fresh, TypeInv
<1> QED
  BY <1>1 DEF Grown

LEMMA GrownByOne ==
  ASSUME TypeInv, NEW c \in Free
  PROVE  Grown(Append(chain, c))
<1>1. Fresh(<<c>>)
  <2>1. <<c>> \in Seq(Free) /\ Len(<<c>>) = 1
    OBVIOUS
  <2> QED
    BY <2>1 DEF Fresh
<1>2. Append(chain, c) = chain \o <<c>>
  BY DEF TypeInv
<1> QED
  BY <1>1, <1>2 DEF Grown

LEMMA FreeCount ==
  Cardinality(Free) \in Nat
<1>1. IsFiniteSet(Clust) /\ Free \subseteq Clust
  BY ClustAssumption DEF Free
<1> QED
  BY <1>1, FS_Subset, FS_CardinalityType

LEMMA StretchIs ==
  ASSUME NEW n \in Nat, NEW s \in Stretches(n)
  PROVE  Fresh(s) /\ Len(s) \in 0 .. n
<1> DEFINE m == Lesser(n, Cardinality(Free))
<1>1. m \in 0 .. n
  BY FreeCount DEF Lesser
<1>2. s \in [1 .. m -> Free] /\ \A i, j \in 1 .. m : i # j => s[i] # s[j]
  BY DEF Stretches
<1> HIDE DEF m
<1>3. s \in Seq(Free) /\ Len(s) = m
  BY <1>1, <1>2
<1> QED
  BY <1>1, <1>2, <1>3 DEF Fresh

\* A longer chain has the old clusters at their places.
LEMMA GrownIs ==
  ASSUME TypeInv, NEW all, Grown(all)
  PROVE  /\ all \in Seq(Clust) /\ Len(all) \in Nat /\ Len(all) >= Len(chain)
         /\ DOMAIN all = 1 .. Len(all)
         /\ \A i \in DOMAIN chain : i \in DOMAIN all /\ all[i] = chain[i]
         /\ \A i \in DOMAIN all : i \in DOMAIN chain \/ all[i] \in Free
         /\ SpaceInv => \A i, j \in DOMAIN all : all[i] = all[j] => i = j
<1>1. PICK s : Fresh(s) /\ all = chain \o s
  BY DEF Grown
<1>2. Free \subseteq Clust
  BY DEF Free
<1>3. chain \in Seq(Clust) /\ s \in Seq(Clust) /\ s \in Seq(Free)
  BY <1>1, <1>2 DEF Fresh, TypeInv
<1>4. all \in Seq(Clust) /\ Len(all) = Len(chain) + Len(s)
  BY <1>1, <1>3
<1>5. Len(chain) \in Nat /\ Len(s) \in Nat /\ DOMAIN chain = 1 .. Len(chain) /\ DOMAIN all = 1 .. Len(all)
  BY <1>3, <1>4
<1>6. \A i \in DOMAIN chain : i \in DOMAIN all /\ all[i] = chain[i]
  BY <1>1, <1>3, <1>4, <1>5
<1>7. \A i \in DOMAIN all : i \notin DOMAIN chain =>
        i - Len(chain) \in 1 .. Len(s) /\ all[i] = s[i - Len(chain)]
  BY <1>1, <1>3, <1>4, <1>5
<1>8. \A i \in 1 .. Len(s) : s[i] \in Free
  BY <1>3
<1>9. ASSUME SpaceInv, NEW i \in DOMAIN all, NEW j \in DOMAIN all, all[i] = all[j]
      PROVE  i = j
  <2>1. CASE i \in DOMAIN chain /\ j \in DOMAIN chain
    BY <1>6, <1>9, <2>1 DEF SpaceInv
  <2>2. CASE i \in DOMAIN chain /\ j \notin DOMAIN chain
    <3>1. all[i] = chain[i] /\ all[j] \in Free
      BY <1>6, <1>7, <1>8, <2>2
    <3> QED
      BY <1>9, <2>2, <3>1 DEF Free
  <2>3. CASE i \notin DOMAIN chain /\ j \in DOMAIN chain
    <3>1. all[j] = chain[j] /\ all[i] \in Free
      BY <1>6, <1>7, <1>8, <2>3
    <3> QED
      BY <1>9, <2>3, <3>1 DEF Free
  <2>4. CASE i \notin DOMAIN chain /\ j \notin DOMAIN chain
    <3>1. i - Len(chain) \in 1 .. Len(s) /\ j - Len(chain) \in 1 .. Len(s)
          /\ s[i - Len(chain)] = s[j - Len(chain)]
      BY <1>7, <1>9, <2>4
    <3>2. i - Len(chain) = j - Len(chain)
      BY <1>1, <3>1 DEF Fresh
    <3> QED
      BY <1>5, <1>4, <3>2
  <2> QED
    BY <2>1, <2>2, <2>3, <2>4
<1> QED
  BY <1>4, <1>5, <1>6, <1>7, <1>8, <1>9

\* The chain may get longer: nothing of the file moves.
LEMMA Longer ==
  ASSUME TypeInv, SpaceInv, SizeInv, Grown(chain'), others' = others, lost' = lost
  PROVE  /\ chain' \in Seq(Clust) /\ SpaceInv' /\ Held \subseteq Held'
         /\ Len(chain') \in Nat /\ Len(chain) <= Len(chain') /\ DOMAIN chain' = 1 .. Len(chain')
         /\ fil.objsize <= Len(chain') * BCS
         /\ \A i \in DOMAIN chain : i \in DOMAIN chain' /\ chain'[i] = chain[i]
         /\ \A p \in Nat : p < fil.objsize => SectorOf(p)' = SectorOf(p)
<1>1. /\ chain' \in Seq(Clust) /\ Len(chain') \in Nat /\ Len(chain') >= Len(chain)
      /\ DOMAIN chain' = 1 .. Len(chain')
      /\ \A i \in DOMAIN chain : i \in DOMAIN chain' /\ chain'[i] = chain[i]
      /\ \A i \in DOMAIN chain' : i \in DOMAIN chain \/ chain'[i] \in Free
      /\ \A i, j \in DOMAIN chain' : chain'[i] = chain'[j] => i = j
  BY GrownIs
<1>2. Held' \cap others' = {} /\ Held' \cap lost' = {}
  BY <1>1 DEF SpaceInv, Held, Free
<1>3. SpaceInv'
  BY <1>1, <1>2 DEF SpaceInv
<1>4. Held \subseteq Held'
  BY <1>1 DEF Held
<1>5. Len(chain) \in Nat /\ fil.objsize \in Nat /\ fil.objsize <= Len(chain) * BCS
  BY ChainIs DEF TypeInv, FilRec, SizeInv
<1>6. fil.objsize <= Len(chain') * BCS
  <2> DEFINE m == Len(chain)
             n == Len(chain')
             z == fil.objsize
  <2>1. m \in Nat /\ n \in Nat /\ m <= n /\ z \in Nat /\ z <= m * BCS
    BY <1>1, <1>5
  <2> HIDE DEF m, n, z
  <2>2. m * BCS <= n * BCS /\ m * BCS \in Nat /\ n * BCS \in Nat
    BY <2>1, BCSIs, SMTT(30)
  <2>3. z <= n * BCS
    BY <2>1, <2>2
  <2> QED
    BY <2>3 DEF n, z
<1>7. ASSUME NEW p \in Nat, p < fil.objsize
      PROVE  SectorOf(p)' = SectorOf(p)
  <2>1. p \div BCS + 1 \in DOMAIN chain
    BY <1>7, SectorIn
  <2>2. chain'[p \div BCS + 1] = chain[p \div BCS + 1]
    BY <1>1, <2>1
  <2> QED
    BY <2>2 DEF SectorOf, clust2sect, BCS
<1> QED
  BY <1>1, <1>3, <1>4, <1>6, <1>7

----------------------------------------------------------------------------
(* The buffer and the medium.                                              *)

LEMMA FlushedIs ==
  ASSUME TypeInv, DirtyInv
  PROVE  /\ Flushed \in [Sector -> Page]
         /\ \A s \in Sector : Flushed[s] = IF fil.dirty /\ fil.sect = s THEN fil.buf ELSE medium[s]
<1>1. medium \in [Sector -> Page] /\ fil.buf \in Page /\ (fil.dirty => fil.sect \in Sector)
      /\ fil.dirty \in BOOLEAN
  BY DEF TypeInv, FilRec, DirtyInv
<1>2. CASE fil.dirty
  <2>1. Flushed = [medium EXCEPT ![fil.sect] = fil.buf]
    BY <1>2 DEF Flushed
  <2> QED
    BY <1>1, <1>2, <2>1
<1>3. CASE ~fil.dirty
  BY <1>1, <1>3 DEF Flushed
<1> QED
  BY <1>1, <1>2, <1>3

\* Storing the buffer keeps what f_sync stored, and the sectors of others.
LEMMA FlushedKeeps ==
  ASSUME IInv
  PROVE  /\ \A p \in DOMAIN stored : Flushed[SectorOf(p)][p % SS] = stored[p]
         /\ hurt \/ \A s \in Sector : s[1] \in others => Flushed[s] = All(Theirs)
<1>1. TypeInv /\ SizeInv /\ SpaceInv /\ DirtyInv /\ StoredInv /\ OthersKept
  BY DEF IInv
<1>2. \A s \in Sector : Flushed[s] = IF fil.dirty /\ fil.sect = s THEN fil.buf ELSE medium[s]
  BY <1>1, FlushedIs
<1>3. ASSUME NEW p \in DOMAIN stored
      PROVE  Flushed[SectorOf(p)][p % SS] = stored[p]
  <2>1. SectorOf(p) \in Sector
    BY <1>1, <1>3, KnownIn DEF SizeInv
  <2> QED
    BY <1>1, <1>2, <1>3, <2>1 DEF StoredInv
<1>4. ASSUME ~hurt, NEW s \in Sector, s[1] \in others
      PROVE  Flushed[s] = All(Theirs)
  <2>1. ~(fil.dirty /\ fil.sect = s)
    BY <1>1, <1>4 DEF DirtyInv, SpaceInv
  <2> QED
    BY <1>1, <1>2, <1>4, <2>1 DEF OthersKept
<1> QED
  BY <1>3, <1>4

\* A step that stores at most the buffer, and keeps the buffer, leaves it
\* stored or loads it.
LEMMA Moves ==
  ASSUME IInv, medium' \in HalfFlushed,
         known' \subseteq known, \A p \in known' : SectorOf(p)' = SectorOf(p),
         DOMAIN stored' \subseteq DOMAIN stored, DOMAIN stored' \subseteq known',
         \A p \in DOMAIN stored' : stored'[p] = stored[p],
         others' \subseteq others, hurt => hurt',
         fil'.dirty => fil.dirty /\ fil'.sect = fil.sect /\ fil'.buf = fil.buf,
         ~fil'.dirty =>
           \/ fil'.sect = fil.sect /\ fil'.buf = fil.buf /\ (fil.dirty => medium' = Flushed)
           \/ fil'.sect = NoSect
           \/ fil'.buf = medium'[fil'.sect]
  PROVE  medium' \in [Sector -> Page] /\ StoredInv' /\ CleanInv' /\ OthersKept'
<1>1. TypeInv /\ SizeInv /\ SpaceInv /\ DirtyInv /\ StoredInv /\ CleanInv /\ OthersKept
  BY DEF IInv
<1>2. /\ Flushed \in [Sector -> Page]
      /\ \A s \in Sector : Flushed[s] = IF fil.dirty /\ fil.sect = s THEN fil.buf ELSE medium[s]
  BY <1>1, FlushedIs
<1>3. medium' = medium \/ medium' = Flushed
  BY DEF HalfFlushed
<1>4. medium' \in [Sector -> Page]
  BY <1>1, <1>2, <1>3 DEF TypeInv
<1>5. ASSUME NEW p \in known'
      PROVE  p \in known /\ SectorOf(p)' = SectorOf(p) /\ SectorOf(p) \in Sector /\ SectorOf(p) # NoSect
  BY <1>1, <1>5, KnownIn
<1>6. StoredInv'
  <2> SUFFICES ASSUME NEW p \in DOMAIN stored'
               PROVE  /\ medium'[SectorOf(p)'][p % SS] = stored'[p]
                      /\ fil'.dirty /\ fil'.sect = SectorOf(p)' => fil'.buf[p % SS] = stored'[p]
    BY DEF StoredInv
  <2>1. p \in DOMAIN stored /\ stored'[p] = stored[p] /\ SectorOf(p)' = SectorOf(p)
    BY <1>5
  <2>2. medium'[SectorOf(p)][p % SS] = stored[p]
    BY <1>1, <1>3, <2>1, FlushedKeeps DEF StoredInv
  <2>3. fil'.dirty /\ fil'.sect = SectorOf(p) => fil'.buf[p % SS] = stored[p]
    BY <1>1, <2>1 DEF StoredInv
  <2> QED
    BY <2>1, <2>2, <2>3
<1>7. CleanInv'
  <2> SUFFICES ASSUME NEW p \in known', ~fil'.dirty, fil'.sect = SectorOf(p)'
               PROVE  fil'.buf[p % SS] = medium'[fil'.sect][p % SS]
    BY DEF CleanInv
  <2>1. p \in known /\ fil'.sect = SectorOf(p) /\ SectorOf(p) \in Sector /\ SectorOf(p) # NoSect
    BY <1>5
  <2>2. CASE fil'.sect = fil.sect /\ fil'.buf = fil.buf /\ (fil.dirty => medium' = Flushed)
    <3>1. CASE fil.dirty
      <4>1. medium'[fil.sect] = fil.buf
        BY <1>2, <2>1, <2>2, <3>1
      <4> QED
        BY <2>2, <4>1
    <3>2. CASE ~fil.dirty
      <4>1. medium' = medium
        BY <1>3, <3>2 DEF Flushed
      <4> QED
        BY <1>1, <2>1, <2>2, <3>2, <4>1 DEF CleanInv
    <3> QED
      BY <3>1, <3>2
  <2>3. CASE fil'.buf = medium'[fil'.sect]
    BY <2>3
  <2> QED
    BY <2>1, <2>2, <2>3
<1>8. OthersKept'
  <2>1. hurt \/ \A s \in Sector : s[1] \in others => medium'[s] = All(Theirs)
    BY <1>1, <1>3, FlushedKeeps DEF OthersKept
  <2> QED
    BY <2>1 DEF OthersKept, Sector, All
<1> QED
  BY <1>4, <1>6, <1>7, <1>8

----------------------------------------------------------------------------
(* The cluster of the next byte.                                           *)

\* Where the current cluster is in the chain.
LEMMA HereIs ==
  ASSUME IInv, Sound
  PROVE  /\ fil.fptr \in Nat /\ fil.objsize \in Nat /\ fil.fptr <= fil.objsize
         /\ fil.fptr > 0 =>
              /\ (fil.fptr - 1) \div BCS + 1 \in DOMAIN chain
              /\ fil.clust = chain[(fil.fptr - 1) \div BCS + 1]
              /\ Order(fil.clust) = (fil.fptr - 1) \div BCS + 1
<1>1. TypeInv /\ SpaceInv /\ SizeInv /\ PlaceInv
  BY DEF IInv
<1>2. fil.fptr \in Nat /\ fil.objsize \in Nat /\ fil.fptr <= fil.objsize
      /\ (fil.fptr > 0 => fil.clust = chain[(fil.fptr - 1) \div BCS + 1])
  BY <1>1 DEF TypeInv, FilRec, PlaceInv
<1>3. ASSUME fil.fptr > 0
      PROVE  (fil.fptr - 1) \div BCS + 1 \in DOMAIN chain
  <2> DEFINE q == fil.fptr - 1
  <2>1. q \in Nat /\ q < fil.objsize
    BY <1>2, <1>3
  <2> HIDE DEF q
  <2>2. q \div BCS + 1 \in DOMAIN chain
    BY <1>1, <2>1, SectorIn
  <2> QED
    BY <2>2 DEF q
<1> QED
  BY <1>1, <1>2, <1>3, OrderIs

LEMMA NextCluster ==
  ASSUME IInv, Sound
  PROVE  /\ fil.fptr % BCS # 0 => (fil.fptr - 1) \div BCS = fil.fptr \div BCS /\ fil.fptr > 0
         /\ fil.fptr % BCS = 0 /\ fil.fptr > 0 => Order(fil.clust) = fil.fptr \div BCS
         /\ fil.fptr = 0 => fil.fptr \div BCS = 0 /\ fil.fptr % BCS = 0
         /\ fil.fptr \div BCS \in Nat
<1> DEFINE p == fil.fptr
<1>1. p \in Nat /\ p \div BCS \in Nat
  BY HereIs, SectorParts
<1>2. p = 0 => p \div BCS = 0 /\ p % BCS = 0
  <2>1. 0 = BCS * 0 + 0 /\ BCS \in Nat \ {0} /\ 0 \in 0 .. BCS - 1
    BY BCSIs
  <2>2. 0 \div BCS = 0 /\ 0 % BCS = 0
    BY <2>1, DivUnique
  <2> QED
    BY <2>2
<1>3. p > 0 => (p % BCS # 0 => (p - 1) \div BCS = p \div BCS)
            /\ (p % BCS = 0 => (p - 1) \div BCS = (p \div BCS) - 1)
  <2> HIDE DEF p
  <2> QED
    BY <1>1, Before
<1>4. p > 0 => Order(fil.clust) = (p - 1) \div BCS + 1
  BY HereIs
<1> HIDE DEF p
<1>5. /\ p % BCS # 0 => (p - 1) \div BCS = p \div BCS /\ p > 0
      /\ p % BCS = 0 /\ p > 0 => Order(fil.clust) = p \div BCS
  BY <1>1, <1>2, <1>3, <1>4
<1> QED
  BY <1>1, <1>2, <1>5 DEF p

LEMMA ReadClustIs ==
  ASSUME IInv, Sound, fil.fptr < fil.objsize
  PROVE  /\ fil.fptr \div BCS + 1 \in DOMAIN chain
         /\ ReadClust = chain[fil.fptr \div BCS + 1] /\ ReadClust \in Clust
<1>1. TypeInv /\ SpaceInv /\ SizeInv /\ PlaceInv /\ fil.fptr \in Nat
  BY HereIs DEF IInv
<1> DEFINE k == fil.fptr \div BCS
<1>2. k + 1 \in DOMAIN chain /\ k \in Nat
  BY <1>1, SectorIn, SectorParts
<1>3. ReadClust = chain[k + 1]
  <2>1. CASE fil.fptr % BCS # 0
    <3>1. fil.clust = chain[k + 1]
      BY <2>1, HereIs, NextCluster
    <3> QED
      BY <2>1, <3>1 DEF ReadClust
  <2>2. CASE fil.fptr % BCS = 0 /\ fil.fptr = 0
    <3>1. k = 0
      BY <2>2, NextCluster
    <3> QED
      BY <2>2, <3>1 DEF ReadClust
  <2>3. CASE fil.fptr % BCS = 0 /\ fil.fptr # 0 /\ fil.cltbl # <<>>
    <3>1. fil.cltbl = chain
      BY <1>1, <2>3 DEF PlaceInv
    <3>2. clmt_clust(fil.fptr) = chain[k + 1]
      BY <1>2, <3>1 DEF clmt_clust
    <3> QED
      BY <2>3, <3>2 DEF ReadClust
  <2>4. CASE fil.fptr % BCS = 0 /\ fil.fptr # 0 /\ fil.cltbl = <<>>
    <3>1. Order(fil.clust) = k
      BY <1>1, <2>4, NextCluster
    <3> QED
      BY <2>4, <3>1 DEF ReadClust
  <2> QED
    BY <2>1, <2>2, <2>3, <2>4
<1>4. chain[k + 1] \in Clust
  BY <1>1, <1>2 DEF TypeInv
<1> QED
  BY <1>2, <1>3, <1>4

LEMMA TargetIs ==
  ASSUME IInv, Sound, NEW r \in Targets
  PROVE  /\ Grown(r.chain) /\ fil.fptr \div BCS + 1 \in DOMAIN r.chain
         /\ r.clust = r.chain[fil.fptr \div BCS + 1] /\ r.clust \in Clust
         /\ fil.cltbl # <<>> => r.chain = chain
<1>1. TypeInv /\ SpaceInv /\ SizeInv /\ PlaceInv
      /\ fil.fptr \in Nat /\ fil.objsize \in Nat /\ fil.fptr <= fil.objsize
  BY HereIs DEF IInv
<1>2. r \in WriteClusts /\ r.clust # NoClust
  BY DEF Targets
<1> DEFINE k == fil.fptr \div BCS
           i == IF fil.fptr = 0 THEN 0 ELSE Order(fil.clust)
<1>3. Len(chain) \in Nat /\ DOMAIN chain = 1 .. Len(chain) /\ k \in Nat /\ chain \in Seq(Clust)
  BY <1>1, ChainIs, SectorParts DEF TypeInv
<1>4. CASE fil.fptr % BCS # 0
  <2>1. fil.clust = chain[k + 1] /\ k + 1 \in DOMAIN chain
    BY <1>4, HereIs, NextCluster
  <2>2. r = [clust |-> fil.clust, chain |-> chain]
    BY <1>2, <1>4 DEF WriteClusts
  <2> QED
    BY <1>1, <1>3, <2>1, <2>2, NotGrown
<1>5. CASE fil.fptr % BCS = 0
  <2>1. i = k
    BY <1>1, <1>5, NextCluster
  <2>2. k <= Len(chain)
    <3>1. CASE fil.fptr = 0
      BY <1>3, <3>1, NextCluster
    <3>2. CASE fil.fptr # 0
      <4>1. (fil.fptr - 1) \div BCS + 1 \in DOMAIN chain /\ Order(fil.clust) = (fil.fptr - 1) \div BCS + 1
        BY <1>1, <3>2, HereIs
      <4>2. i = Order(fil.clust)
        BY <3>2
      <4> HIDE DEF k, i
      <4> QED
        BY <1>3, <2>1, <4>1, <4>2
    <3> QED
      BY <3>1, <3>2
  <2>3. CASE i > 0 /\ fil.cltbl # <<>>
    <3>1. fil.cltbl = chain
      BY <1>1, <2>3 DEF PlaceInv
    <3>2. r = [clust |-> clmt_clust(fil.fptr), chain |-> chain]
      BY <1>2, <1>5, <2>3 DEF WriteClusts
    <3>3. k + 1 \in DOMAIN chain /\ clmt_clust(fil.fptr) = chain[k + 1]
      BY <1>2, <3>1, <3>2 DEF clmt_clust
    <3> QED
      BY <1>1, <1>3, <3>2, <3>3, NotGrown
  <2>4. CASE ~(i > 0 /\ fil.cltbl # <<>>) /\ i < Len(chain)
    <3>1. r = [clust |-> chain[i + 1], chain |-> chain]
      BY <1>2, <1>5, <2>4 DEF WriteClusts
    <3> HIDE DEF i, k
    <3>2. k + 1 \in DOMAIN chain
      BY <1>3, <2>1, <2>4
    <3>3. Grown(r.chain) /\ k + 1 \in DOMAIN r.chain /\ r.clust = r.chain[k + 1] /\ r.clust \in Clust
      BY <1>1, <1>3, <2>1, <3>1, <3>2, NotGrown
    <3> QED
      BY <3>1, <3>3 DEF k
  <2>5. CASE ~(i > 0 /\ fil.cltbl # <<>>) /\ ~(i < Len(chain))
    <3>1. Free # {}
      BY <1>2, <1>5, <2>5 DEF WriteClusts
    <3>2. PICK c \in Free : r = [clust |-> c, chain |-> Append(chain, c)]
      BY <1>2, <1>5, <2>5, <3>1 DEF WriteClusts
    <3>3. k = Len(chain) /\ c \in Clust
      <4>1. c \in Clust
        BY DEF Free
      <4>2. ~(i < Len(chain)) /\ i = k /\ k <= Len(chain) /\ k \in Nat /\ Len(chain) \in Nat
        BY <1>3, <2>1, <2>2, <2>5
      <4> HIDE DEF i, k
      <4>3. k = Len(chain)
        BY <4>2
      <4> QED
        BY <4>1, <4>3
    <3> HIDE DEF i, k
    <3>4. k + 1 \in DOMAIN Append(chain, c) /\ Append(chain, c)[k + 1] = c
      BY <1>3, <3>3
    <3>5. Grown(r.chain) /\ k + 1 \in DOMAIN r.chain /\ r.clust = r.chain[k + 1] /\ r.clust \in Clust
      BY <1>1, <3>2, <3>3, <3>4, GrownByOne
    <3>6. fil.cltbl = <<>>
      <4>1. SUFFICES ASSUME fil.cltbl # <<>> PROVE FALSE
        OBVIOUS
      <4>2. k = 0
        BY <1>3, <2>1, <2>5, <4>1
      <4>3. chain = <<>>
        BY <1>3, <3>3, <4>2
      <4>4. fil.cltbl = chain
        BY <1>1, <4>1 DEF PlaceInv
      <4> QED
        BY <4>1, <4>3, <4>4
    <3> QED
      BY <3>5, <3>6 DEF k
  <2> QED
    BY <2>3, <2>4, <2>5
<1> QED
  BY <1>4, <1>5

----------------------------------------------------------------------------
(* The steps that change no byte.                                          *)

CallRec == [op : {"none", "read", "write"}, rem : Nat]

LEMMA Quiet ==
  ASSUME IInv, Grown(chain'), others' = others, lost' = lost,
         known' = known, stored' = stored, hurt' = hurt,
         medium' \in HalfFlushed, fil' \in FilRec,
         fil.objsize <= fil'.objsize, fil'.objsize <= Len(chain') * BCS, fil'.objsize < Limit,
         fil'.dirty => fil'.open /\ fil.dirty /\ fil'.sect = fil.sect /\ fil'.buf = fil.buf,
         ~fil'.dirty =>
           \/ fil'.sect = fil.sect /\ fil'.buf = fil.buf /\ (fil.dirty => medium' = Flushed)
           \/ fil'.sect = NoSect
           \/ fil'.buf = medium'[fil'.sect],
         call' \in CallRec, calls' \in 0 .. MaxCall, faults' \in 0 .. MaxFault
  PROVE  TypeInv' /\ SpaceInv' /\ SizeInv' /\ DirtyInv' /\ StoredInv' /\ CleanInv' /\ OthersKept'
<1>1. TypeInv /\ SpaceInv /\ SizeInv /\ DirtyInv
  BY DEF IInv
<1>2. /\ chain' \in Seq(Clust) /\ SpaceInv' /\ Held \subseteq Held'
      /\ \A p \in Nat : p < fil.objsize => SectorOf(p)' = SectorOf(p)
  BY <1>1, Longer
<1>3. \A p \in known' : SectorOf(p)' = SectorOf(p)
  BY <1>1, <1>2, KnownIn
<1>4. DOMAIN stored' \subseteq known'
  BY <1>1 DEF SizeInv
<1>5. medium' \in [Sector -> Page] /\ StoredInv' /\ CleanInv' /\ OthersKept'
  BY <1>3, <1>4, Moves
<1>6. TypeInv'
  <2>1. others' \subseteq Clust /\ lost' \subseteq Clust /\ known' \subseteq Nat /\ hurt' \in BOOLEAN
    BY <1>1 DEF TypeInv
  <2>2. call' \in [op : {"none", "read", "write"}, rem : Nat]
    BY DEF CallRec
  <2>3. medium' \in [Sector -> Page] /\ chain' \in Seq(Clust) /\ fil' \in FilRec
    BY <1>2, <1>5
  <2> QED
    BY <2>1, <2>2, <2>3 DEF TypeInv, Page, Sector, FilRec, NoSect
<1>7. SizeInv'
  <2>1. \A p \in known' : p < fil'.objsize
    <3>1. \A p \in known : p \in Nat /\ p < fil.objsize
      BY <1>1, KnownIn
    <3>2. fil.objsize \in Nat /\ fil'.objsize \in Nat
      BY <1>1 DEF TypeInv, FilRec
    <3> QED
      BY <3>1, <3>2
  <2> QED
    BY <1>4, <2>1 DEF SizeInv, BCS
<1>8. DirtyInv'
  BY <1>1, <1>2 DEF DirtyInv, Sector
<1> QED
  BY <1>2, <1>5, <1>6, <1>7, <1>8

\* The chain is what it was.
LEMMA Stays ==
  ASSUME IInv, chain' = chain
  PROVE  Grown(chain') /\ fil.objsize \in Nat /\ fil.objsize <= Len(chain') * BCS /\ fil.objsize < Limit
  BY NotGrown DEF IInv, SizeInv, TypeInv, FilRec

LEMMA Types ==
  ASSUME IInv
  PROVE  /\ TypeInv /\ SpaceInv /\ SizeInv /\ DirtyInv /\ PlaceInv /\ CallInv /\ FaultInv
         /\ StoredInv /\ CleanInv /\ OthersKept /\ fil \in FilRec
         /\ fil.open \in BOOLEAN /\ fil.write \in BOOLEAN /\ fil.fptr \in Nat /\ fil.objsize \in Nat
         /\ fil.clust \in Clust \cup {NoClust} /\ fil.sect \in Sector \cup {NoSect}
         /\ fil.buf \in Page /\ fil.dirty \in BOOLEAN /\ fil.modified \in BOOLEAN
         /\ fil.err \in BOOLEAN /\ fil.cltbl \in Seq(Clust)
         /\ call \in CallRec /\ call.op \in {"none", "read", "write"} /\ call.rem \in Nat
         /\ calls \in 0 .. MaxCall /\ faults \in 0 .. MaxFault
         /\ MaxCall \in Nat /\ MaxFault \in Nat /\ Limit \in Nat \ {0}
         /\ Len(chain) \in Nat /\ DOMAIN chain = 1 .. Len(chain)
<1>1. TypeInv
  BY DEF IInv
<1>2. fil \in FilRec /\ call \in CallRec
  BY <1>1 DEF TypeInv, CallRec
<1>3. calls \in 0 .. MaxCall /\ faults \in 0 .. MaxFault
  BY <1>1 DEF TypeInv
<1>4. MaxCall \in Nat /\ MaxFault \in Nat /\ Limit \in Nat \ {0}
  BY SizeAssumption
<1>5. fil.open \in BOOLEAN /\ fil.write \in BOOLEAN /\ fil.fptr \in Nat /\ fil.objsize \in Nat
      /\ fil.clust \in Clust \cup {NoClust} /\ fil.sect \in Sector \cup {NoSect}
      /\ fil.buf \in Page /\ fil.dirty \in BOOLEAN /\ fil.modified \in BOOLEAN
      /\ fil.err \in BOOLEAN /\ fil.cltbl \in Seq(Clust)
  BY <1>2 DEF FilRec
<1>6. call.op \in {"none", "read", "write"} /\ call.rem \in Nat
  BY <1>2 DEF CallRec
<1>7. /\ TypeInv /\ SpaceInv /\ SizeInv /\ DirtyInv /\ PlaceInv /\ CallInv /\ FaultInv
      /\ StoredInv /\ CleanInv /\ OthersKept
  BY DEF IInv
<1> QED
  BY <1>1, <1>2, <1>3, <1>4, <1>5, <1>6, <1>7, ChainIs

LEMMA UsableIs ==
  ASSUME IInv, Usable
  PROVE  Sound /\ call = Idle /\ call.op = "none"
  BY DEF Usable, Sound, Idle

LEMMA BlankIs == Blank \in Page
  BY SizeAssumption DEF Blank, All, Page, Theirs

LEMMA NewFilIs ==
  ASSUME NEW w \in BOOLEAN, NEW z \in Nat
  PROVE  NewFil(w, z) \in FilRec
<1>1. <<>> \in Seq(Clust) /\ NoSect \in Sector \cup {NoSect} /\ Blank \in Page /\ 0 \in Nat
  BY BlankIs
<1> QED
  BY <1>1 DEF NewFil, FilRec

LEMMA OpenStep ==
  ASSUME IInv, NEW w \in BOOLEAN, f_open(w)
  PROVE  IInv'
<1>1. /\ fil' = NewFil(w, fil.objsize) /\ faults = 0 /\ ~fil.open
      /\ medium' = medium /\ chain' = chain /\ others' = others /\ lost' = lost /\ call' = call
      /\ calls' = calls /\ faults' = faults /\ known' = known /\ stored' = stored /\ hurt' = hurt
  BY DEF f_open, hist
<1>2. fil' \in FilRec
  BY <1>1, Types, NewFilIs
<1>3. /\ fil'.open /\ fil'.fptr = 0 /\ fil'.objsize = fil.objsize /\ fil'.sect = NoSect
      /\ fil'.dirty = FALSE /\ fil'.err = FALSE /\ fil'.cltbl = <<>>
  BY <1>1 DEF NewFil
<1>4. TypeInv' /\ SpaceInv' /\ SizeInv' /\ DirtyInv' /\ StoredInv' /\ CleanInv' /\ OthersKept'
  <2>1. medium' \in HalfFlushed
    BY <1>1 DEF HalfFlushed
  <2> HIDE DEF IInv
  <2> QED
    BY <1>1, <1>2, <1>3, <2>1, Types, Stays, Quiet
<1>5. PlaceInv'
  <2>1. fil'.objsize \in Nat /\ 0 % SS = 0
    BY <1>3, Types, BCSIs, SMTT(30)
  <2> QED
    BY <1>3, <2>1 DEF PlaceInv
<1>6. CallInv' /\ FaultInv'
  BY <1>1, <1>3, Types DEF CallInv, FaultInv, Sound, Idle
<1> QED
  BY <1>4, <1>5, <1>6 DEF IInv

LEMMA SectIs ==
  ASSUME NEW c \in Clust, NEW p \in Nat
  PROVE  clust2sect(c, p) \in Sector
<1>1. (p \div SS) % CSIZE \in 0 .. CSIZE - 1
  BY SectorParts
<1> QED
  BY <1>1 DEF clust2sect, Sector

LEMMA AppendStep ==
  ASSUME IInv, f_open_append
  PROVE  IInv'
<1> DEFINE size == fil.objsize
           last == chain[(size - 1) \div BCS + 1]
           sect == clust2sect(last, size)
<1>1. /\ faults = 0 /\ ~fil.open /\ size > 0
      /\ fil' = IF size % SS = 0
                THEN [NewFil(TRUE, size) EXCEPT !.fptr = size, !.clust = last]
                ELSE [NewFil(TRUE, size) EXCEPT
                        !.fptr = size, !.clust = last, !.sect = sect, !.buf = medium[sect]]
      /\ medium' = medium /\ chain' = chain /\ others' = others /\ lost' = lost /\ call' = call
      /\ calls' = calls /\ faults' = faults /\ known' = known /\ stored' = stored /\ hurt' = hurt
  BY DEF f_open_append, hist
<1>2. size \in Nat /\ TypeInv /\ SizeInv
  BY Types
<1>3. (size - 1) \div BCS + 1 \in DOMAIN chain
  <2> DEFINE q == size - 1
  <2>1. q \in Nat /\ q < fil.objsize
    BY <1>1, <1>2
  <2> HIDE DEF q
  <2>2. q \div BCS + 1 \in DOMAIN chain
    BY <1>2, <2>1, SectorIn
  <2> QED
    BY <2>2 DEF q
<1>4. last \in Clust /\ sect \in Sector
  BY <1>2, <1>3, SectIs, ChainIs
<1>5. medium[sect] \in Page
  BY <1>2, <1>4 DEF TypeInv
<1>6. size % SS # 0 => sect = SectorOf(size)
  <2>1. size % SS # 0 => size % BCS # 0
    BY <1>2, InsideSector
  <2>2. size % SS # 0 => (size - 1) \div BCS = size \div BCS
    BY <1>1, <1>2, <2>1, Before
  <2> QED
    BY <2>2 DEF SectorOf
<1> HIDE DEF sect, last
<1>7. NewFil(TRUE, size) \in FilRec
  BY <1>2, NewFilIs
<1>8. /\ fil'.open /\ fil'.fptr = size /\ fil'.objsize = size /\ fil'.clust = last
      /\ fil'.dirty = FALSE /\ fil'.err = FALSE /\ fil'.cltbl = <<>>
      /\ size % SS = 0 => fil'.sect = NoSect
      /\ size % SS # 0 => fil'.sect = sect /\ fil'.buf = medium[sect]
      /\ fil' \in FilRec
  <2>1. CASE size % SS = 0
    <3>1. fil' = [NewFil(TRUE, size) EXCEPT !.fptr = size, !.clust = last]
      BY <1>1, <2>1
    <3>2. fil' \in FilRec
      BY <3>1, <1>2, <1>4, <1>7 DEF FilRec
    <3> QED
      BY <2>1, <3>1, <3>2 DEF NewFil
  <2>2. CASE size % SS # 0
    <3>1. fil' = [NewFil(TRUE, size) EXCEPT
                    !.fptr = size, !.clust = last, !.sect = sect, !.buf = medium[sect]]
      BY <1>1, <2>2
    <3>2. fil' \in FilRec
      BY <3>1, <1>2, <1>4, <1>5, <1>7 DEF FilRec
    <3> QED
      BY <2>2, <3>1, <3>2 DEF NewFil
  <2> QED
    BY <2>1, <2>2
<1>9. TypeInv' /\ SpaceInv' /\ SizeInv' /\ DirtyInv' /\ StoredInv' /\ CleanInv' /\ OthersKept'
  <2>1. medium' \in HalfFlushed
    BY <1>1 DEF HalfFlushed
  <2>2. \/ fil'.sect = NoSect
        \/ fil'.buf = medium'[fil'.sect]
    BY <1>1, <1>8
  <2>3. /\ fil' \in FilRec /\ fil'.objsize = fil.objsize /\ fil'.dirty = FALSE /\ chain' = chain
        /\ others' = others /\ lost' = lost /\ known' = known /\ stored' = stored /\ hurt' = hurt
        /\ call' = call /\ calls' = calls /\ faults' = faults
    BY <1>1, <1>8
  <2> HIDE DEF IInv, size
  <2> QED
    BY <2>1, <2>2, <2>3, Types, Stays, Quiet
<1>10. PlaceInv'
  <2>1. fil'.fptr = size /\ fil'.clust = chain'[(size - 1) \div BCS + 1] /\ chain' = chain
        /\ fil'.objsize = size /\ fil'.cltbl = <<>> /\ (size % SS # 0 => fil'.sect = sect)
    BY <1>1, <1>8 DEF last
  <2>2. size % SS # 0 => fil'.sect = SectorOf(size)
    BY <1>6, <2>1
  <2>3. fil'.fptr <= fil'.objsize
    BY <1>2, <2>1
  <2> HIDE DEF size
  <2>4. SectorOf(fil.fptr)' = SectorOf(size)
    BY <2>1 DEF SectorOf, clust2sect, BCS
  <2> QED
    BY <2>1, <2>2, <2>3, <2>4 DEF PlaceInv, BCS
<1>11. CallInv' /\ FaultInv'
  BY <1>1, <1>8, Types DEF CallInv, FaultInv, Sound, Idle
<1> QED
  BY <1>9, <1>10, <1>11 DEF IInv

\* The steps that leave the file, the buffer and the medium alone, but for
\* the position, the call and the link map.
LEMMA StillStep ==
  ASSUME IInv, medium' = medium, chain' = chain, others' = others, lost' = lost,
         known' = known, stored' = stored, hurt' = hurt, faults' = faults,
         fil' \in FilRec, fil'.open = fil.open, fil'.objsize = fil.objsize, fil'.err = fil.err,
         fil'.sect = fil.sect, fil'.buf = fil.buf, fil'.dirty = fil.dirty,
         call' \in CallRec, calls' \in 0 .. MaxCall,
         PlaceInv', CallInv'
  PROVE  IInv'
<1>1. TypeInv' /\ SpaceInv' /\ SizeInv' /\ DirtyInv' /\ StoredInv' /\ CleanInv' /\ OthersKept'
  <2>1. medium' \in HalfFlushed
    BY DEF HalfFlushed
  <2>2. fil'.dirty => fil'.open
    BY Types DEF DirtyInv
  <2>3. ~fil'.dirty => fil'.sect = fil.sect /\ fil'.buf = fil.buf /\ (fil.dirty => medium' = Flushed)
    BY Types
  <2> HIDE DEF IInv
  <2> QED
    BY <2>1, <2>2, <2>3, Types, Stays, Quiet
<1>2. FaultInv'
  BY Types DEF FaultInv
<1> QED
  BY <1>1, <1>2 DEF IInv

LEMMA ReadCallStep ==
  ASSUME IInv, NEW btr \in ReadLens, f_read(btr)
  PROVE  IInv'
<1> DEFINE n == Lesser(btr, fil.objsize - fil.fptr)
<1>1. /\ Usable /\ n > 0 /\ call' = [op |-> "read", rem |-> n]
      /\ medium' = medium /\ chain' = chain /\ others' = others /\ lost' = lost /\ fil' = fil
      /\ calls' = calls /\ faults' = faults /\ known' = known /\ stored' = stored /\ hurt' = hurt
  BY DEF f_read, hist
<1>2. Sound /\ fil.fptr <= fil.objsize
  BY <1>1, UsableIs, HereIs
<1>3. btr \in Nat
  BY SizeAssumption
<1>4. n \in Nat /\ fil.fptr + n <= fil.objsize
  BY <1>1, <1>2, <1>3, Types DEF Lesser
<1> HIDE DEF n
<1>5. call' \in CallRec /\ call'.op = "read" /\ call'.rem = n
  BY <1>1, <1>4 DEF CallRec
<1>6. PlaceInv'
  BY <1>1, Types DEF PlaceInv, Sound, SectorOf, clust2sect, BCS
<1>7. CallInv'
  BY <1>1, <1>2, <1>4, <1>5 DEF CallInv, Sound
<1> QED
  BY <1>1, <1>5, <1>6, <1>7, Types, StillStep

LEMMA WriteCallStep ==
  ASSUME IInv, NEW btw \in WriteLens, f_write(btw)
  PROVE  IInv'
<1> DEFINE n == IF (fil.fptr + btw) % Limit < fil.fptr THEN Limit - 1 - fil.fptr ELSE btw
<1>1. /\ Usable /\ fil.write /\ n > 0 /\ calls < MaxCall
      /\ call' = [op |-> "write", rem |-> n] /\ calls' = calls + 1
      /\ medium' = medium /\ chain' = chain /\ others' = others /\ lost' = lost /\ fil' = fil
      /\ faults' = faults /\ known' = known /\ stored' = stored /\ hurt' = hurt
  BY DEF f_write, hist
<1>2. Sound /\ fil.fptr <= fil.objsize /\ fil.objsize < Limit
  BY <1>1, UsableIs, HereIs, Types DEF SizeInv
<1>3. btw \in 0 .. Limit - 1
  BY SizeAssumption
<1>4. n \in Nat /\ fil.fptr + n < Limit
  <2> DEFINE p == fil.fptr
  <2>1. p \in Nat /\ p < Limit /\ Limit \in Nat \ {0}
    BY <1>2, Types
  <2>2. CASE p + btw < Limit
    <3>1. (p + btw) % Limit = p + btw
      <4> HIDE DEF p
      <4>1. p + btw = Limit * 0 + (p + btw) /\ p + btw \in 0 .. Limit - 1 /\ p + btw \in Nat
        BY <1>3, <2>1, <2>2
      <4> QED
        BY <2>1, <4>1, SMTT(30)
    <3>2. n = btw
      BY <1>3, <2>1, <3>1
    <3> QED
      BY <1>3, <2>1, <2>2, <3>2
  <2>3. CASE ~(p + btw < Limit)
    <3>1. (p + btw) % Limit = p + btw - Limit
      <4> HIDE DEF p
      <4> DEFINE r == p + btw - Limit
      <4>1. p + btw = Limit * 1 + r /\ r \in 0 .. Limit - 1 /\ p + btw \in Nat
        BY <1>3, <2>1, <2>3
      <4> DEFINE a == p + btw
      <4>2. a = Limit * 1 + r /\ a \in Nat
        BY <4>1
      <4> HIDE DEF r, a
      <4>3. a % Limit = r
        BY <2>1, <4>1, <4>2, DivUnique
      <4> QED
        BY <4>3 DEF a, r
    <3>2. (p + btw) % Limit < p
      BY <1>3, <2>1, <2>3, <3>1
    <3>3. n = Limit - 1 - p
      BY <3>2
    <3> QED
      BY <2>1, <3>3
  <2> QED
    BY <2>2, <2>3
<1> HIDE DEF n
<1>5. call' \in CallRec /\ call'.op = "write" /\ call'.rem = n
  BY <1>1, <1>4 DEF CallRec
<1>6. PlaceInv'
  BY <1>1, Types DEF PlaceInv, Sound, SectorOf, clust2sect, BCS
<1>7. calls' \in 0 .. MaxCall /\ calls' > 0
  BY <1>1, Types
<1>8. CallInv'
  BY <1>1, <1>2, <1>4, <1>5, <1>7 DEF CallInv, Sound
<1> QED
  BY <1>1, <1>5, <1>6, <1>7, <1>8, Types, StillStep

LEMMA WriteFullStep ==
  ASSUME IInv, write_full
  PROVE  IInv'
<1>1. /\ call.op = "write" /\ fil' = [fil EXCEPT !.modified = TRUE] /\ call' = Idle
      /\ medium' = medium /\ chain' = chain /\ others' = others /\ lost' = lost
      /\ calls' = calls /\ faults' = faults /\ known' = known /\ stored' = stored /\ hurt' = hurt
  BY DEF write_full, hist
<1>2. /\ fil' \in FilRec /\ fil'.open = fil.open /\ fil'.objsize = fil.objsize /\ fil'.err = fil.err
      /\ fil'.sect = fil.sect /\ fil'.buf = fil.buf /\ fil'.dirty = fil.dirty
      /\ fil'.fptr = fil.fptr /\ fil'.clust = fil.clust /\ fil'.cltbl = fil.cltbl
  BY <1>1, Types DEF FilRec
<1>3. call' \in CallRec /\ call'.op = "none"
  BY <1>1 DEF CallRec, Idle
<1>4. PlaceInv'
  BY <1>1, <1>2, Types DEF PlaceInv, Sound, SectorOf, clust2sect, BCS
<1>5. CallInv'
  BY <1>1, <1>3 DEF CallInv, Idle
<1> QED
  BY <1>1, <1>2, <1>3, <1>4, <1>5, Types, StillStep

LEMMA TopStep ==
  ASSUME IInv, lseek_top
  PROVE  IInv'
<1>1. /\ Usable /\ fil.cltbl = <<>> /\ fil' = [fil EXCEPT !.fptr = 0] /\ call' = call
      /\ medium' = medium /\ chain' = chain /\ others' = others /\ lost' = lost
      /\ calls' = calls /\ faults' = faults /\ known' = known /\ stored' = stored /\ hurt' = hurt
  BY DEF lseek_top, hist
<1>2. /\ fil' \in FilRec /\ fil'.open = fil.open /\ fil'.objsize = fil.objsize /\ fil'.err = fil.err
      /\ fil'.sect = fil.sect /\ fil'.buf = fil.buf /\ fil'.dirty = fil.dirty
      /\ fil'.fptr = 0 /\ fil'.clust = fil.clust /\ fil'.cltbl = fil.cltbl
  BY <1>1, Types DEF FilRec
<1>3. 0 % SS = 0
  BY BCSIs, SMTT(30)
<1>4. PlaceInv'
  BY <1>1, <1>2, <1>3, Types DEF PlaceInv
<1>5. CallInv'
  BY <1>1, Types, UsableIs DEF CallInv, Idle
<1> QED
  BY <1>1, <1>2, <1>4, <1>5, Types, StillStep

LEMMA LinkMapStep ==
  ASSUME IInv, lseek_linkmap \/ drop_linkmap
  PROVE  IInv'
<1>1. /\ Usable /\ (fil' = [fil EXCEPT !.cltbl = chain] \/ fil' = [fil EXCEPT !.cltbl = <<>>]) /\ call' = call
      /\ medium' = medium /\ chain' = chain /\ others' = others /\ lost' = lost
      /\ calls' = calls /\ faults' = faults /\ known' = known /\ stored' = stored /\ hurt' = hurt
  BY DEF lseek_linkmap, drop_linkmap, hist
<1>2. chain \in Seq(Clust) /\ <<>> \in Seq(Clust)
  BY Types DEF TypeInv
<1>3. /\ fil' \in FilRec /\ fil'.open = fil.open /\ fil'.objsize = fil.objsize /\ fil'.err = fil.err
      /\ fil'.sect = fil.sect /\ fil'.buf = fil.buf /\ fil'.dirty = fil.dirty
      /\ fil'.fptr = fil.fptr /\ fil'.clust = fil.clust /\ (fil'.cltbl = chain \/ fil'.cltbl = <<>>)
  BY <1>1, <1>2, Types DEF FilRec
<1>4. PlaceInv'
  BY <1>1, <1>3, Types DEF PlaceInv, Sound, SectorOf, clust2sect, BCS
<1>5. CallInv'
  BY <1>1, Types, UsableIs DEF CallInv, Idle
<1> QED
  BY <1>1, <1>3, <1>4, <1>5, Types, StillStep

----------------------------------------------------------------------------
(* A step of f_read or f_write.                                            *)

LEMMA RestIs ==
  ASSUME call \in CallRec, call.op # "none", NEW n \in Nat, n <= call.rem
  PROVE  /\ Rest(n) \in CallRec
         /\ Rest(n).op = "none" => Rest(n) = Idle
         /\ Rest(n).op # "none" => Rest(n).op = call.op /\ Rest(n).rem = call.rem - n /\ Rest(n).rem > 0
<1>1. CASE call.rem = n
  BY <1>1 DEF Rest, Idle, CallRec
<1>2. CASE call.rem # n
  <2>1. Rest(n) = [call EXCEPT !.rem = @ - n] /\ call.rem - n \in Nat /\ call.rem - n > 0
    BY <1>2 DEF Rest, CallRec
  <2> QED
    BY <2>1 DEF CallRec
<1> QED
  BY <1>1, <1>2

LEMMA DirectIs ==
  ASSUME IInv, AtSector, cc > 0
  PROVE  /\ csect \in 0 .. CSIZE - 1
         /\ cc \in Nat \ {0} /\ cc <= CSIZE - csect
         /\ cc * SS \in Nat \ {0} /\ cc * SS <= call.rem
         /\ (fil.fptr + cc * SS - 1) \div BCS = fil.fptr \div BCS
         /\ (fil.fptr + cc * SS) % SS = 0
<1> DEFINE m == call.rem \div SS
           c == cc
<1>1. fil.fptr \in Nat /\ call.rem \in Nat /\ fil.fptr % SS = 0
  BY Types DEF AtSector
<1>2. csect \in 0 .. CSIZE - 1
  BY <1>1, SectorParts DEF csect
<1>3. m \in Nat /\ m * SS <= call.rem
  <2> DEFINE a == call.rem
             r == call.rem % SS
  <2>1. m \in Nat /\ r \in 0 .. SS - 1 /\ a = SS * m + r /\ a \in Nat
    BY <1>1, DivParts, BCSIs
  <2> HIDE DEF m, r, a
  <2>2. m * SS = SS * m /\ SS * m \in Nat
    BY <2>1, BCSIs, SMTT(30)
  <2>3. m * SS <= a
    BY <2>1, <2>2, BCSIs
  <2> QED
    BY <2>1, <2>3 DEF a
<1>4. c = m \/ c = CSIZE - csect
  BY DEF cc, Lesser
<1>5. c \in Nat \ {0} /\ c <= m /\ c <= CSIZE - csect
  <2>1. c = IF m < CSIZE - csect THEN m ELSE CSIZE - csect
    BY DEF cc, Lesser
  <2> HIDE DEF m
  <2> QED
    BY <1>2, <1>3, <2>1, BCSIs
<1>6. c * SS <= call.rem
  <2>1. c * SS <= m * SS /\ c * SS \in Nat /\ m * SS \in Nat
    <3> HIDE DEF c, m
    <3> QED
      BY <1>3, <1>5, BCSIs, SMTT(30)
  <2> HIDE DEF c, m
  <2> QED
    BY <1>1, <1>3, <2>1
<1> HIDE DEF c
<1>7. /\ c * SS \in Nat \ {0}
      /\ (fil.fptr + c * SS - 1) \div BCS = fil.fptr \div BCS
      /\ (fil.fptr + c * SS) % SS = 0
  <2> DEFINE p == fil.fptr
  <2>1. p \in Nat /\ p % SS = 0 /\ c \in Nat \ {0} /\ c <= CSIZE - ((p \div SS) % CSIZE)
    BY <1>1, <1>5 DEF csect
  <2> HIDE DEF p
  <2>2. /\ c * SS \in Nat \ {0}
        /\ (p + c * SS - 1) \div BCS = p \div BCS
        /\ (p + c * SS) % SS = 0
    BY <2>1, AdvanceSectors
  <2> QED
    BY <2>2 DEF p
<1> QED
  BY <1>2, <1>5, <1>6, <1>7 DEF c

LEMMA PartIs ==
  ASSUME IInv, call.op # "none", NEW n, n = Lesser(SS - (fil.fptr % SS), call.rem)
  PROVE  /\ fil.fptr % SS \in 0 .. SS - 1
         /\ n \in Nat \ {0} /\ n <= call.rem /\ n <= SS - (fil.fptr % SS)
         /\ (fil.fptr + n - 1) \div BCS = fil.fptr \div BCS
         /\ (fil.fptr + n) % SS # 0 =>
              (fil.fptr + n) \div SS = fil.fptr \div SS /\ (fil.fptr + n) \div BCS = fil.fptr \div BCS
<1> DEFINE p == fil.fptr
           r == p % SS
<1>1. p \in Nat /\ r \in 0 .. SS - 1 /\ call.rem \in Nat /\ call.rem > 0
  BY Types, SectorParts DEF CallInv
<1>2. n = IF SS - r < call.rem THEN SS - r ELSE call.rem
  BY DEF Lesser
<1>3. n \in Nat \ {0} /\ n <= call.rem /\ n <= SS - r
  <2> HIDE DEF r
  <2> QED
    BY <1>1, <1>2, BCSIs
<1>4. n <= SS - (p % SS)
  BY <1>3
<1> HIDE DEF p
<1>5. /\ (p + n - 1) \div BCS = p \div BCS
      /\ (p + n) % SS # 0 => (p + n) \div SS = p \div SS /\ (p + n) \div BCS = p \div BCS
  BY <1>1, <1>3, <1>4, AdvancePart
<1> QED
  BY <1>1, <1>3, <1>5 DEF p

LEMMA InCall ==
  ASSUME IInv, call.op # "none"
  PROVE  Sound /\ call.rem > 0 /\ call.rem \in Nat /\ fil.open /\ fil.err = FALSE
         /\ (call.op = "read" => fil.fptr < fil.objsize /\ fil.fptr + call.rem <= fil.objsize)
         /\ (call.op = "write" => fil.write /\ fil.fptr + call.rem < Limit /\ calls > 0)
<1>1. CallInv
  BY DEF IInv
<1>2. Sound /\ call.rem > 0
  BY <1>1 DEF CallInv
<1>3. call.op = "read" => fil.fptr + call.rem <= fil.objsize
  BY <1>1 DEF CallInv
<1>4. call.op = "write" => fil.write /\ fil.fptr + call.rem < Limit /\ calls > 0
  BY <1>1 DEF CallInv
<1> QED
  BY <1>2, <1>3, <1>4, Types DEF Sound

LEMMA ReadDirectStep ==
  ASSUME IInv, read_direct
  PROVE  IInv'
<1> DEFINE n == cc * SS
<1>1. /\ call.op = "read" /\ AtSector /\ cc > 0
      /\ fil' = [fil EXCEPT !.clust = ReadClust, !.fptr = @ + n] /\ call' = Rest(n)
      /\ medium' = medium /\ chain' = chain /\ others' = others /\ lost' = lost
      /\ calls' = calls /\ faults' = faults /\ known' = known /\ stored' = stored /\ hurt' = hurt
  BY DEF read_direct, hist
<1>2. Sound /\ fil.fptr < fil.objsize /\ fil.fptr + call.rem <= fil.objsize
  BY <1>1, InCall
<1>3. n \in Nat \ {0} /\ n <= call.rem /\ (fil.fptr + n - 1) \div BCS = fil.fptr \div BCS
      /\ (fil.fptr + n) % SS = 0
  BY <1>1, DirectIs
<1>4. ReadClust = chain[fil.fptr \div BCS + 1] /\ ReadClust \in Clust
  BY <1>2, ReadClustIs
<1>9. fil.fptr + n \in Nat
  BY <1>3, Types
<1> DEFINE c == ReadClust
<1>10. c = ReadClust /\ c \in Clust /\ fil' = [fil EXCEPT !.clust = c, !.fptr = @ + n]
  BY <1>1, <1>4
<1> HIDE DEF n, c
<1>5. /\ fil' \in FilRec /\ fil'.open = fil.open /\ fil'.objsize = fil.objsize /\ fil'.err = fil.err
      /\ fil'.sect = fil.sect /\ fil'.buf = fil.buf /\ fil'.dirty = fil.dirty
      /\ fil'.fptr = fil.fptr + n /\ fil'.clust = c /\ fil'.cltbl = fil.cltbl
  BY <1>9, <1>10, Types DEF FilRec
<1>6. /\ call' \in CallRec /\ (call'.op = "none" => call' = Idle)
      /\ (call'.op # "none" => call'.op = "read" /\ call'.rem = call.rem - n /\ call'.rem > 0)
  BY <1>1, <1>3, Types, RestIs
<1>7. PlaceInv'
  <2>1. fil'.fptr <= fil'.objsize
    BY <1>2, <1>3, <1>5, Types
  <2>2. fil'.clust = chain'[(fil'.fptr - 1) \div BCS + 1]
    <3>1. fil'.clust = chain[fil.fptr \div BCS + 1] /\ chain' = chain
      BY <1>1, <1>4, <1>5, <1>10
    <3>2. (fil'.fptr - 1) \div BCS = fil.fptr \div BCS
      <4>1. fil'.fptr = fil.fptr + n /\ fil.fptr \in Nat /\ n \in Nat
        BY <1>3, <1>5, Types
      <4>2. fil'.fptr - 1 = fil.fptr + n - 1
        BY <4>1
      <4> QED
        BY <1>3, <4>2
    <3> QED
      BY <3>1, <3>2
  <2>3. fil'.cltbl # <<>> => fil'.cltbl = chain'
    BY <1>1, <1>2, <1>5, Types DEF PlaceInv
  <2>4. fil'.fptr % SS = 0
    BY <1>3, <1>5
  <2> QED
    BY <2>1, <2>2, <2>3, <2>4 DEF PlaceInv, BCS
<1>8. CallInv'
  <2>1. Sound'
    BY <1>2, <1>5 DEF Sound
  <2>2. call'.op = "read" => fil'.fptr + call'.rem <= fil'.objsize
    <3>1. fil'.fptr = fil.fptr + n /\ fil'.objsize = fil.objsize /\ fil.fptr + call.rem <= fil.objsize
      BY <1>2, <1>5
    <3>2. call'.op # "none" => call'.rem = call.rem - n
      BY <1>6
    <3>3. fil.fptr \in Nat /\ fil.objsize \in Nat /\ call.rem \in Nat /\ n \in Nat
      BY <1>3, Types
    <3> QED
      BY <3>1, <3>2, <3>3
  <2> QED
    BY <1>6, <2>1, <2>2 DEF CallInv, Idle
<1> QED
  BY <1>1, <1>5, <1>6, <1>7, <1>8, Types, StillStep

\* The sector of the next byte.
LEMMA NextSector ==
  ASSUME NEW all, NEW c, c = all[fil.fptr \div BCS + 1]
  PROVE  <<c, csect>> = clust2sect(all[fil.fptr \div BCS + 1], fil.fptr)
  BY DEF clust2sect, csect

LEMMA ReadPartStep ==
  ASSUME IInv, read_part
  PROVE  IInv'
<1> DEFINE c == ReadClust
           sect == <<c, csect>>
           load == AtSector /\ fil.sect # sect
           buf == IF load THEN Flushed[sect] ELSE fil.buf
           to == IF AtSector THEN sect ELSE fil.sect
           dirty == fil.dirty /\ ~load
           n == Lesser(SS - (fil.fptr % SS), call.rem)
<1>1. /\ call.op = "read" /\ call' = Rest(n)
      /\ medium' = (IF load THEN Flushed ELSE medium)
      /\ fil' = [fil EXCEPT !.clust = c, !.fptr = @ + n, !.buf = buf, !.sect = to, !.dirty = dirty]
      /\ chain' = chain /\ others' = others /\ lost' = lost
      /\ calls' = calls /\ faults' = faults /\ known' = known /\ stored' = stored /\ hurt' = hurt
  BY DEF read_part, hist
<1>2. Sound /\ fil.fptr < fil.objsize /\ fil.fptr + call.rem <= fil.objsize
  BY <1>1, InCall
<1>3. /\ n \in Nat \ {0} /\ n <= call.rem
      /\ (fil.fptr + n - 1) \div BCS = fil.fptr \div BCS
      /\ (fil.fptr + n) % SS # 0 =>
           (fil.fptr + n) \div SS = fil.fptr \div SS /\ (fil.fptr + n) \div BCS = fil.fptr \div BCS
  BY <1>1, PartIs
<1>4. c = chain[fil.fptr \div BCS + 1] /\ c \in Clust
  BY <1>2, ReadClustIs
<1>5. sect = SectorOf(fil.fptr)
  BY <1>4, NextSector DEF SectorOf
<1>6. sect \in Sector
  BY <1>4, <1>5, SectIs, Types DEF SectorOf
<1>7. to = SectorOf(fil.fptr)
  BY <1>2, <1>5, Types DEF PlaceInv, AtSector
<1>8. Flushed[sect] \in Page
  BY <1>6, Types, FlushedIs
<1>9. /\ c \in Clust /\ fil.fptr + n \in Nat /\ buf \in Page /\ to \in Sector /\ dirty \in BOOLEAN
  <2>1. buf \in Page
    BY <1>8, Types
  <2>2. to \in Sector
    BY <1>5, <1>6, <1>7
  <2>3. dirty \in BOOLEAN
    BY Types
  <2> HIDE DEF n
  <2>4. fil.fptr + n \in Nat
    BY <1>3, Types
  <2> QED
    BY <1>4, <2>1, <2>2, <2>3, <2>4
<1>10. /\ dirty => fil.dirty /\ to = fil.sect /\ buf = fil.buf
       /\ ~dirty =>
            \/ to = fil.sect /\ buf = fil.buf /\ (fil.dirty => medium' = Flushed)
            \/ buf = medium'[to]
       /\ medium' \in HalfFlushed
  <2>1. CASE load
    <3>1. medium' = Flushed /\ buf = Flushed[to] /\ dirty = FALSE
      BY <1>1, <2>1
    <3> QED
      BY <3>1 DEF HalfFlushed
  <2>2. CASE ~load
    <3>1. medium' = medium /\ buf = fil.buf /\ dirty = fil.dirty /\ to = fil.sect
      BY <1>1, <2>2, Types
    <3> QED
      BY <3>1 DEF HalfFlushed
  <2> QED
    BY <2>1, <2>2
<1> HIDE DEF n, c, sect, load, buf, to, dirty
<1>11. /\ fil' \in FilRec /\ fil'.open = fil.open /\ fil'.objsize = fil.objsize /\ fil'.err = fil.err
       /\ fil'.sect = to /\ fil'.buf = buf /\ fil'.dirty = dirty
       /\ fil'.fptr = fil.fptr + n /\ fil'.clust = c /\ fil'.cltbl = fil.cltbl
  <2>1. fil' = [fil EXCEPT !.clust = c, !.fptr = @ + n, !.buf = buf, !.sect = to, !.dirty = dirty]
    BY <1>1
  <2> QED
    BY <1>9, <2>1, Types DEF FilRec
<1>12. /\ call' \in CallRec /\ (call'.op = "none" => call' = Idle)
       /\ (call'.op # "none" => call'.op = "read" /\ call'.rem = call.rem - n /\ call'.rem > 0)
  BY <1>1, <1>3, Types, RestIs
<1>13. TypeInv' /\ SpaceInv' /\ SizeInv' /\ DirtyInv' /\ StoredInv' /\ CleanInv' /\ OthersKept'
  <2>1. /\ chain' = chain /\ others' = others /\ lost' = lost /\ known' = known /\ stored' = stored
        /\ hurt' = hurt /\ calls' = calls /\ faults' = faults /\ fil.open
    BY <1>1, InCall
  <2> HIDE DEF IInv
  <2> QED
    BY <2>1, <1>10, <1>11, <1>12, Types, Stays, Quiet
<1>14. PlaceInv'
  <2>0. fil.fptr \in Nat /\ n \in Nat /\ fil'.fptr = fil.fptr + n /\ chain' = chain
    BY <1>1, <1>3, <1>11, Types
  <2>1. fil'.fptr <= fil'.objsize
    BY <1>2, <1>3, <1>11, <2>0, Types
  <2>2. fil'.clust = chain'[(fil'.fptr - 1) \div BCS + 1]
    <3>1. fil'.fptr - 1 = fil.fptr + n - 1
      BY <2>0
    <3>2. (fil'.fptr - 1) \div BCS = fil.fptr \div BCS
      BY <1>3, <3>1
    <3> QED
      BY <1>4, <1>11, <2>0, <3>2
  <2>3. fil'.cltbl # <<>> => fil'.cltbl = chain'
    BY <1>1, <1>2, <1>11, Types DEF PlaceInv
  <2>4. ASSUME fil'.fptr % SS # 0
        PROVE  fil'.sect = SectorOf(fil.fptr)'
    <3>1. fil'.fptr \div SS = fil.fptr \div SS /\ fil'.fptr \div BCS = fil.fptr \div BCS
      BY <1>3, <2>0, <2>4
    <3>2. SectorOf(fil.fptr)' = SectorOf(fil.fptr)
      BY <2>0, <3>1 DEF SectorOf, clust2sect, BCS
    <3> QED
      BY <1>7, <1>11, <3>2
  <2> QED
    BY <2>1, <2>2, <2>3, <2>4 DEF PlaceInv, BCS
<1>15. CallInv'
  <2>1. Sound'
    BY <1>2, <1>11 DEF Sound
  <2>2. call'.op = "read" => fil'.fptr + call'.rem <= fil'.objsize
    <3>1. fil'.fptr = fil.fptr + n /\ fil'.objsize = fil.objsize /\ fil.fptr + call.rem <= fil.objsize
      BY <1>2, <1>11
    <3>2. call'.op # "none" => call'.rem = call.rem - n
      BY <1>12
    <3>3. fil.fptr \in Nat /\ fil.objsize \in Nat /\ call.rem \in Nat /\ n \in Nat
      BY <1>3, Types
    <3> QED
      BY <3>1, <3>2, <3>3
  <2> QED
    BY <1>12, <2>1, <2>2 DEF CallInv, Idle
<1>16. FaultInv'
  BY <1>1, <1>11, Types DEF FaultInv
<1> QED
  BY <1>13, <1>14, <1>15, <1>16 DEF IInv

\* After an error the position, the call and the link map count for nothing.
LEMMA ErrorStep ==
  ASSUME IInv, Grown(chain'), others' = others, lost' = lost,
         known' = known, stored' = stored, hurt' = hurt,
         medium' \in HalfFlushed, fil' \in FilRec, fil'.open = fil.open, fil'.err,
         fil.objsize <= fil'.objsize, fil'.objsize <= Len(chain') * BCS, fil'.objsize < Limit,
         fil'.sect = fil.sect, fil'.buf = fil.buf, fil'.dirty => fil.dirty,
         ~fil'.dirty /\ fil.dirty => medium' = Flushed,
         call' = Idle, calls' = calls, faults < MaxFault, faults' = faults + 1
  PROVE  IInv'
<1>1. call' \in CallRec /\ call'.op = "none"
  BY DEF CallRec, Idle
<1>2. faults' \in 0 .. MaxFault /\ faults' > 0
  BY Types
<1>3. fil'.dirty => fil'.open
  BY Types DEF DirtyInv
<1>4. TypeInv' /\ SpaceInv' /\ SizeInv' /\ DirtyInv' /\ StoredInv' /\ CleanInv' /\ OthersKept'
  <2>1. calls' \in 0 .. MaxCall
    BY Types
  <2> HIDE DEF IInv
  <2> QED
    BY <1>1, <1>2, <1>3, <2>1, Quiet
<1>5. PlaceInv' /\ CallInv' /\ FaultInv'
  BY <1>1, <1>2 DEF PlaceInv, CallInv, FaultInv, Sound, Idle
<1> QED
  BY <1>4, <1>5 DEF IInv

LEMMA ReadErrorStep ==
  ASSUME IInv, read_error
  PROVE  IInv'
<1>1. /\ call.op = "read" /\ faults < MaxFault /\ faults' = faults + 1 /\ call' = Idle
      /\ chain' = chain /\ others' = others /\ lost' = lost
      /\ calls' = calls /\ known' = known /\ stored' = stored /\ hurt' = hurt
  BY DEF read_error, hist
<1>2. ReadClust \in Clust
  BY <1>1, InCall, ReadClustIs
<1> DEFINE c == ReadClust
<1>3. c \in Clust
  BY <1>2
<1>4. \/ fil' = [fil EXCEPT !.err = TRUE] /\ medium' = medium
      \/ fil.dirty /\ medium' \in HalfFlushed /\ fil' = [fil EXCEPT !.clust = c, !.err = TRUE]
      \/ medium' = Flushed /\ fil' = [fil EXCEPT !.clust = c, !.err = TRUE, !.dirty = FALSE]
  BY DEF read_error
<1> HIDE DEF c
<1>5. /\ medium' \in HalfFlushed /\ fil' \in FilRec /\ fil'.open = fil.open /\ fil'.err
      /\ fil'.objsize = fil.objsize /\ fil'.sect = fil.sect /\ fil'.buf = fil.buf
      /\ (fil'.dirty => fil.dirty) /\ (~fil'.dirty /\ fil.dirty => medium' = Flushed)
  <2>1. CASE fil' = [fil EXCEPT !.err = TRUE] /\ medium' = medium
    BY <2>1, Types DEF FilRec, HalfFlushed
  <2>2. CASE fil.dirty /\ medium' \in HalfFlushed /\ fil' = [fil EXCEPT !.clust = c, !.err = TRUE]
    BY <1>3, <2>2, Types DEF FilRec
  <2>3. CASE medium' = Flushed /\ fil' = [fil EXCEPT !.clust = c, !.err = TRUE, !.dirty = FALSE]
    BY <1>3, <2>3, Types DEF FilRec, HalfFlushed
  <2> QED
    BY <1>4, <2>1, <2>2, <2>3
<1>6. Grown(chain') /\ fil.objsize \in Nat /\ fil.objsize <= Len(chain') * BCS /\ fil.objsize < Limit
  BY <1>1, Stays
<1> HIDE DEF IInv
<1> QED
  BY <1>1, <1>5, <1>6, ErrorStep

\* The sectors of a direct write are those of the bytes it writes.
LEMMA DirectBytes ==
  ASSUME IInv, AtSector, cc > 0, Sound, NEW r \in Targets,
         chain' = r.chain, others' = others, lost' = lost,
         NEW S, S = {<<r.clust, csect + i>> : i \in 0 .. cc - 1}
  PROVE  /\ S \subseteq Sector /\ \A s \in S : s[1] \in Held'
         /\ \A q \in Nat : q < fil.objsize /\ SectorOf(q)' \in S => q \in Ahead(cc * SS)
         /\ \A q \in Ahead(cc * SS) : SectorOf(q)' \in S
<1> DEFINE p == fil.fptr
           k == p \div BCS
<1>1. p \in Nat /\ k \in Nat /\ p % SS = 0 /\ TypeInv /\ SpaceInv /\ SizeInv /\ csect = (p \div SS) % CSIZE
  BY Types, SectorParts DEF AtSector, csect
<1>2. /\ csect \in 0 .. CSIZE - 1 /\ cc \in Nat \ {0} /\ cc <= CSIZE - csect /\ cc * SS \in Nat
  BY DirectIs
<1>3. Grown(chain') /\ k + 1 \in DOMAIN chain' /\ r.clust = chain'[k + 1] /\ r.clust \in Clust
  BY TargetIs
<1>4. /\ \A i, j \in DOMAIN chain' : chain'[i] = chain'[j] => i = j
      /\ \A i \in DOMAIN chain : i \in DOMAIN chain'
  BY <1>1, <1>3, GrownIs
<1>5. S \subseteq Sector /\ \A s \in S : s[1] \in Held'
  <2> SUFFICES ASSUME NEW i \in 0 .. cc - 1
               PROVE  <<r.clust, csect + i>> \in Sector /\ r.clust \in Held'
    OBVIOUS
  <2>1. csect + i \in 0 .. CSIZE - 1
    BY <1>2, BCSIs
  <2> QED
    BY <1>3, <2>1 DEF Sector, Held
<1>6. ASSUME NEW q \in Nat, q < fil.objsize, SectorOf(q)' \in S
      PROVE  q \in Ahead(cc * SS)
  <2>1. PICK i \in 0 .. cc - 1 : SectorOf(q)' = <<r.clust, csect + i>>
    BY <1>6
  <2>2. q \div BCS + 1 \in DOMAIN chain'
    BY <1>1, <1>4, <1>6, SectorIn
  <2>3. SectorOf(q)' = clust2sect(chain'[q \div BCS + 1], q)
    BY DEF SectorOf, clust2sect, BCS
  <2>4. i \in Nat
    BY <1>2
  <2>5. q \div SS = (p \div SS) + i
    <3> HIDE DEF p
    <3>1. clust2sect(chain'[q \div BCS + 1], q) = <<chain'[p \div BCS + 1], ((p \div SS) % CSIZE) + i>>
      BY <1>1, <1>3, <2>1, <2>3
    <3> QED
      BY <1>1, <1>3, <1>4, <2>2, <2>4, <3>1, InSectors
  <2> HIDE DEF p
  <2>6. q \in p .. p + cc * SS - 1
    BY <1>1, <1>2, <2>5, BytesOfSectors
  <2> QED
    BY <2>6 DEF Ahead, p
<1>7. ASSUME NEW q \in Ahead(cc * SS)
      PROVE  SectorOf(q)' \in S
  <2>1. q \in p .. p + cc * SS - 1
    BY DEF Ahead
  <2>2. q \div BCS = k /\ \E i \in 0 .. cc - 1 : (q \div SS) % CSIZE = csect + i
    <3> HIDE DEF p
    <3>1. cc <= CSIZE - ((p \div SS) % CSIZE)
      BY <1>1, <1>2
    <3>2. /\ q \div BCS = p \div BCS
          /\ \E i \in 0 .. cc - 1 : (q \div SS) % CSIZE = ((p \div SS) % CSIZE) + i
      BY <1>1, <1>2, <2>1, <3>1, AheadIn
    <3> QED
      BY <1>1, <3>2
  <2>3. PICK i \in 0 .. cc - 1 : (q \div SS) % CSIZE = csect + i
    BY <2>2
  <2>4. SectorOf(q)' = <<chain'[q \div BCS + 1], (q \div SS) % CSIZE>>
    BY DEF SectorOf, clust2sect, BCS
  <2>5. SectorOf(q)' = <<r.clust, csect + i>>
    BY <1>3, <2>2, <2>3, <2>4
  <2> QED
    BY <2>5
<1> QED
  BY <1>5, <1>6, <1>7

LEMMA WrittenByte ==
  ASSUME IInv
  PROVE  calls \in Theirs .. MaxCall /\ All(calls) \in Page
  BY Types, BCSIs DEF All, Page, Theirs

\* The sectors of a direct write get the bytes; the others have what they
\* had, or the buffer.
LEMMA DirectMedium ==
  ASSUME IInv, NEW T \in SUBSET Sector,
         medium' = [s \in Sector |-> IF s \in T THEN All(calls) ELSE Flushed[s]],
         others' = others, hurt' = hurt, \A s \in T : s[1] \notin others
  PROVE  /\ medium' \in [Sector -> Page] /\ OthersKept'
         /\ \A s \in Sector \ T : medium'[s] = Flushed[s]
         /\ \A s \in T : medium'[s] = All(calls)
         /\ \A p \in DOMAIN stored : SectorOf(p) \notin T => medium'[SectorOf(p)][p % SS] = stored[p]
         /\ \A p \in known : SectorOf(p) \notin T /\ fil.sect = SectorOf(p) =>
              fil.buf[p % SS] = medium'[fil.sect][p % SS]
<1>1. /\ Flushed \in [Sector -> Page]
      /\ \A s \in Sector : Flushed[s] = IF fil.dirty /\ fil.sect = s THEN fil.buf ELSE medium[s]
  BY Types, FlushedIs
<1>2. All(calls) \in Page
  BY WrittenByte
<1>3. /\ \A s \in Sector \ T : medium'[s] = Flushed[s]
      /\ \A s \in T : medium'[s] = All(calls)
  OBVIOUS
<1>4. medium' \in [Sector -> Page]
  BY <1>1, <1>2
<1>5. OthersKept'
  <2>1. hurt \/ \A s \in Sector : s[1] \in others => Flushed[s] = All(Theirs)
    BY FlushedKeeps
  <2>2. hurt \/ \A s \in Sector : s[1] \in others => medium'[s] = All(Theirs)
    BY <1>3, <2>1
  <2> QED
    BY <2>2 DEF OthersKept, Sector, All
<1>6. ASSUME NEW p \in DOMAIN stored, SectorOf(p) \notin T
      PROVE  medium'[SectorOf(p)][p % SS] = stored[p]
  <2>1. SectorOf(p) \in Sector
    BY <1>6, Types, KnownIn DEF SizeInv
  <2> QED
    BY <1>3, <1>6, <2>1, FlushedKeeps
<1>7. ASSUME NEW p \in known, SectorOf(p) \notin T, fil.sect = SectorOf(p)
      PROVE  fil.buf[p % SS] = medium'[fil.sect][p % SS]
  <2>1. SectorOf(p) \in Sector
    BY <1>7, Types, KnownIn
  <2>2. medium'[fil.sect] = IF fil.dirty THEN fil.buf ELSE medium[fil.sect]
    BY <1>1, <1>3, <1>7, <2>1
  <2> QED
    BY <1>7, <2>2, Types DEF CleanInv
<1> QED
  BY <1>3, <1>4, <1>5, <1>6, <1>7

\* n bytes behind the position that are in one cluster.
LEMMA WrittenSize ==
  ASSUME IInv, Sound, call.op = "write", NEW r \in Targets, chain' = r.chain,
         others' = others, lost' = lost,
         NEW n \in Nat \ {0}, n <= call.rem, (fil.fptr + n - 1) \div BCS = fil.fptr \div BCS,
         fil' \in FilRec, fil'.objsize = Larger(fil.objsize, fil.fptr + n)
  PROVE  /\ fil'.objsize \in Nat /\ fil.objsize <= fil'.objsize /\ fil.fptr + n <= fil'.objsize
         /\ fil'.objsize <= Len(chain') * BCS /\ fil'.objsize < Limit
<1>1. Grown(chain') /\ fil.fptr \div BCS + 1 \in DOMAIN chain'
  BY TargetIs
<1>2. Len(chain') \in Nat /\ DOMAIN chain' = 1 .. Len(chain') /\ fil.objsize <= Len(chain') * BCS
  BY <1>1, Types, Longer
<1>3. fil.fptr \in Nat /\ fil.objsize \in Nat /\ call.rem \in Nat /\ fil.fptr + call.rem < Limit
      /\ fil.objsize < Limit /\ Limit \in Nat
  BY Types, InCall DEF SizeInv
<1>4. fil.fptr + n <= Len(chain') * BCS
  <2> DEFINE q == fil.fptr + n - 1
             m == Len(chain')
  <2>1. q \in Nat /\ m \in Nat
    BY <1>2, <1>3
  <2>2. q \div BCS < m
    <3>1. fil.fptr \div BCS \in Nat
      BY <1>3, SectorParts
    <3>2. q \div BCS = fil.fptr \div BCS
      OBVIOUS
    <3> HIDE DEF q
    <3> QED
      BY <1>1, <1>2, <3>1, <3>2
  <2> HIDE DEF q, m
  <2>3. q < m * BCS
    BY <2>1, <2>2, InChain
  <2>4. m * BCS \in Nat
    BY <2>1, BCSIs, SMTT(30)
  <2> QED
    BY <1>3, <2>1, <2>3, <2>4 DEF q, m
<1>5. Len(chain') * BCS \in Nat
  <2> DEFINE m == Len(chain')
  <2>1. m \in Nat
    BY <1>2
  <2> HIDE DEF m
  <2>2. m * BCS \in Nat
    BY <2>1, BCSIs, SMTT(30)
  <2> QED
    BY <2>2 DEF m
<1>6. fil'.objsize = IF fil.objsize > fil.fptr + n THEN fil.objsize ELSE fil.fptr + n
  BY DEF Larger
<1> QED
  BY <1>2, <1>3, <1>4, <1>5, <1>6

\* The position, the call and the types after n bytes of a write.
LEMMA WrittenPlace ==
  ASSUME IInv, Sound, call.op = "write", NEW r \in Targets, chain' = r.chain,
         others' = others, lost' = lost, hurt' = hurt, calls' = calls, faults' = faults,
         NEW n \in Nat \ {0}, n <= call.rem, (fil.fptr + n - 1) \div BCS = fil.fptr \div BCS,
         fil' \in FilRec, fil'.objsize = Larger(fil.objsize, fil.fptr + n),
         fil'.fptr = fil.fptr + n, fil'.clust = r.clust, fil'.cltbl = fil.cltbl,
         fil'.open = fil.open, fil'.err = fil.err, fil'.write = fil.write,
         fil'.fptr % SS # 0 => fil'.sect = SectorOf(fil.fptr)',
         call' = Rest(n), known' = known \cup Ahead(n), DOMAIN stored' \subseteq DOMAIN stored,
         medium' \in [Sector -> Page]
  PROVE  TypeInv' /\ SpaceInv' /\ SizeInv' /\ PlaceInv' /\ CallInv' /\ FaultInv'
<1>1. /\ Grown(chain') /\ fil.fptr \div BCS + 1 \in DOMAIN chain'
      /\ r.clust = chain'[fil.fptr \div BCS + 1] /\ (fil.cltbl # <<>> => chain' = chain)
  BY TargetIs
<1>2. chain' \in Seq(Clust) /\ SpaceInv'
  BY <1>1, Types, Longer
<1>3. /\ fil'.objsize \in Nat /\ fil.objsize <= fil'.objsize /\ fil.fptr + n <= fil'.objsize
      /\ fil'.objsize <= Len(chain') * BCS /\ fil'.objsize < Limit
  BY WrittenSize
<1>4. /\ call' \in CallRec /\ (call'.op = "none" => call' = Idle)
      /\ (call'.op # "none" => call'.op = "write" /\ call'.rem = call.rem - n /\ call'.rem > 0)
  BY Types, RestIs
<1>5. fil.fptr \in Nat /\ fil.objsize \in Nat /\ call.rem \in Nat /\ Limit \in Nat
  BY Types
<1>6. TypeInv'
  <2>1. others' \subseteq Clust /\ lost' \subseteq Clust /\ hurt' \in BOOLEAN
    BY Types DEF TypeInv
  <2>2. known' \subseteq Nat
    <3>1. known \subseteq Nat
      BY Types DEF TypeInv
    <3>2. Ahead(n) \subseteq Nat
      BY <1>5 DEF Ahead
    <3> QED
      BY <3>1, <3>2
  <2>3. call' \in [op : {"none", "read", "write"}, rem : Nat]
    BY <1>4 DEF CallRec
  <2>4. calls' \in 0 .. MaxCall /\ faults' \in 0 .. MaxFault
    BY Types
  <2> QED
    BY <1>2, <2>1, <2>2, <2>3, <2>4 DEF TypeInv, Page, Sector, FilRec, NoSect
<1>7. SizeInv'
  <2>1. ASSUME NEW p \in known'
        PROVE  p < fil'.objsize
    <3>1. CASE p \in known
      BY <1>3, <1>5, <3>1, Types, KnownIn
    <3>2. CASE p \in Ahead(n)
      BY <1>3, <1>5, <3>2 DEF Ahead
    <3> QED
      BY <2>1, <3>1, <3>2
  <2>2. DOMAIN stored' \subseteq known'
    BY Types DEF SizeInv
  <2> QED
    BY <1>3, <2>1, <2>2 DEF SizeInv, BCS
<1>8. PlaceInv'
  <2>1. fil'.clust = chain'[(fil'.fptr - 1) \div BCS + 1]
    <3>1. fil'.fptr - 1 = fil.fptr + n - 1
      BY <1>5
    <3>2. (fil'.fptr - 1) \div BCS = fil.fptr \div BCS
      BY <3>1
    <3> QED
      BY <1>1, <3>2
  <2>2. fil'.cltbl # <<>> => fil'.cltbl = chain'
    BY <1>1, Types DEF PlaceInv
  <2>3. fil'.fptr <= fil'.objsize
    BY <1>3
  <2> QED
    BY <2>1, <2>2, <2>3 DEF PlaceInv, BCS
<1>9. CallInv'
  <2>1. Sound' /\ fil'.write /\ calls' > 0 /\ fil.fptr + call.rem < Limit
    BY Types, InCall DEF Sound
  <2>2. call'.op = "write" => fil'.fptr + call'.rem < Limit
    <3>1. call'.op = "write" => call'.rem = call.rem - n
      BY <1>4
    <3> QED
      BY <1>5, <2>1, <3>1
  <2> QED
    BY <1>4, <2>1, <2>2 DEF CallInv, Idle
<1>10. FaultInv'
  BY Types DEF FaultInv
<1> QED
  BY <1>2, <1>6, <1>7, <1>8, <1>9, <1>10

LEMMA WriteDirectStep ==
  ASSUME IInv, write_direct
  PROVE  IInv'
<1> DEFINE n == cc * SS
           S(r) == {<<r.clust, csect + i>> : i \in 0 .. cc - 1}
<1>1. PICK r \in Targets :
        /\ AtSector /\ cc > 0
        /\ medium' = [s \in Sector |-> IF s \in S(r) THEN All(calls) ELSE Flushed[s]]
        /\ fil' = [Written(r.clust, n) EXCEPT
                     !.dirty = FALSE, !.buf = IF fil.sect \in S(r) THEN All(calls) ELSE @]
        /\ chain' = r.chain /\ call' = Rest(n)
        /\ stored' = [p \in DOMAIN stored \ Ahead(n) |-> stored[p]] /\ known' = known \cup Ahead(n)
        /\ others' = others /\ lost' = lost /\ calls' = calls /\ faults' = faults /\ hurt' = hurt
  BY DEF write_direct, Note, Forget
<1>2. call.op = "write" /\ Sound
  BY <1>1, InCall DEF Targets
<1> DEFINE T == S(r)
           buf == IF fil.sect \in T THEN All(calls) ELSE fil.buf
           modified == fil.modified \/ call.rem = n
           size == Larger(fil.objsize, fil.fptr + n)
           c == r.clust
<1>3. /\ n \in Nat \ {0} /\ n <= call.rem /\ (fil.fptr + n - 1) \div BCS = fil.fptr \div BCS
      /\ (fil.fptr + n) % SS = 0
  BY <1>1, DirectIs
<1>4. /\ T \subseteq Sector /\ \A s \in T : s[1] \in Held'
      /\ \A q \in Nat : q < fil.objsize /\ SectorOf(q)' \in T => q \in Ahead(n)
      /\ \A q \in Ahead(n) : SectorOf(q)' \in T
  BY <1>1, <1>2, DirectBytes
<1>5. /\ SpaceInv' /\ \A p \in Nat : p < fil.objsize => SectorOf(p)' = SectorOf(p)
  BY <1>1, <1>2, Types, TargetIs, Longer
<1>6. \A s \in T : s[1] \notin others
  BY <1>1, <1>4, <1>5 DEF SpaceInv
<1>7. c \in Clust
  BY <1>2, TargetIs
<1>8. buf \in Page
  BY WrittenByte, Types
<1> HIDE DEF S
<1>9. medium' = [s \in Sector |-> IF s \in T THEN All(calls) ELSE Flushed[s]]
  BY <1>1
<1> HIDE DEF T
<1>10. /\ medium' \in [Sector -> Page] /\ OthersKept'
       /\ \A s \in T : medium'[s] = All(calls)
       /\ \A p \in DOMAIN stored : SectorOf(p) \notin T => medium'[SectorOf(p)][p % SS] = stored[p]
       /\ \A p \in known : SectorOf(p) \notin T /\ fil.sect = SectorOf(p) =>
            fil.buf[p % SS] = medium'[fil.sect][p % SS]
  BY <1>1, <1>4, <1>6, <1>9, DirectMedium
<1>11. size \in Nat /\ fil.fptr + n \in Nat /\ modified \in BOOLEAN
  <2> HIDE DEF n
  <2> QED
    BY <1>3, Types DEF Larger
<1>12. fil' = [fil EXCEPT !.clust = c, !.fptr = @ + n, !.objsize = size, !.modified = modified,
                          !.dirty = FALSE, !.buf = buf]
  BY <1>1, Types DEF Written, FilRec, T
<1> HIDE DEF n, buf, modified, size, c
<1>13. /\ fil' \in FilRec /\ fil'.open = fil.open /\ fil'.write = fil.write /\ fil'.err = fil.err
       /\ fil'.sect = fil.sect /\ fil'.buf = buf /\ fil'.dirty = FALSE /\ fil'.objsize = size
       /\ fil'.fptr = fil.fptr + n /\ fil'.clust = c /\ fil'.cltbl = fil.cltbl
  BY <1>7, <1>8, <1>11, <1>12, Types DEF FilRec
<1>14. TypeInv' /\ SpaceInv' /\ SizeInv' /\ PlaceInv' /\ CallInv' /\ FaultInv'
  <2>1. fil'.objsize = Larger(fil.objsize, fil.fptr + n) /\ fil'.clust = r.clust /\ fil'.fptr % SS = 0
    BY <1>3, <1>13 DEF size, c
  <2>2. DOMAIN stored' \subseteq DOMAIN stored
    BY <1>1 DEF n
  <2>3. /\ chain' = r.chain /\ others' = others /\ lost' = lost /\ hurt' = hurt /\ calls' = calls
        /\ faults' = faults /\ call' = Rest(n) /\ known' = known \cup Ahead(n)
    BY <1>1 DEF n
  <2> HIDE DEF IInv, Sound
  <2> QED
    BY <1>2, <1>3, <1>10, <1>13, <2>1, <2>2, <2>3, WrittenPlace
<1>15. DirtyInv'
  BY <1>13 DEF DirtyInv
<1>16. StoredInv'
  <2> SUFFICES ASSUME NEW p \in DOMAIN stored'
               PROVE  medium'[SectorOf(p)'][p % SS] = stored'[p]
    BY <1>13 DEF StoredInv
  <2>1. p \in DOMAIN stored /\ p \notin Ahead(n) /\ stored'[p] = stored[p]
    BY <1>1 DEF n
  <2>2. p \in Nat /\ p < fil.objsize
    BY <2>1, Types, KnownIn DEF SizeInv
  <2>3. SectorOf(p) \notin T /\ SectorOf(p)' = SectorOf(p)
    BY <1>4, <1>5, <2>1, <2>2
  <2> QED
    BY <1>10, <2>1, <2>3
<1>17. CleanInv'
  <2> SUFFICES ASSUME NEW p \in known', fil'.sect = SectorOf(p)'
               PROVE  fil'.buf[p % SS] = medium'[fil'.sect][p % SS]
    BY DEF CleanInv
  <2>1. CASE fil.sect \in T
    <3>1. fil'.buf = All(calls) /\ medium'[fil'.sect] = All(calls)
      BY <1>10, <1>13, <2>1 DEF buf
    <3> QED
      BY <3>1
  <2>2. CASE fil.sect \notin T
    <3>1. p \notin Ahead(n)
      BY <1>4, <1>13, <2>2
    <3>2. p \in known
      BY <1>1, <3>1 DEF n
    <3>3. SectorOf(p)' = SectorOf(p)
      BY <1>5, <3>2, Types, KnownIn
    <3>4. fil'.buf = fil.buf /\ fil'.sect = fil.sect
      BY <1>13, <2>2 DEF buf
    <3> QED
      BY <1>10, <2>2, <3>2, <3>3, <3>4
  <2> QED
    BY <2>1, <2>2
<1> QED
  BY <1>10, <1>14, <1>15, <1>16, <1>17 DEF IInv

\* The sector a part of which is written: the buffer has the other bytes of
\* the file in it.
LEMMA PartBytes ==
  ASSUME IInv, Sound, NEW r \in Targets, chain' = r.chain, others' = others, lost' = lost,
         NEW sect, sect = IF AtSector THEN <<r.clust, csect>> ELSE fil.sect
  PROVE  /\ sect \in Sector /\ sect[1] \in Held'
         /\ sect = clust2sect(chain'[fil.fptr \div BCS + 1], fil.fptr)
         /\ Filled(sect) \in Page
         /\ \A q \in Nat : q < fil.objsize /\ SectorOf(q) = sect => q \div SS = fil.fptr \div SS
         /\ \A q \in DOMAIN stored : SectorOf(q) = sect => Filled(sect)[q % SS] = stored[q]
<1> DEFINE p == fil.fptr
           k == p \div BCS
<1>1. p \in Nat /\ k \in Nat /\ TypeInv /\ SpaceInv /\ SizeInv /\ fil.objsize \in Nat
  BY Types, SectorParts
<1>2. Grown(chain') /\ k + 1 \in DOMAIN chain' /\ r.clust = chain'[k + 1] /\ r.clust \in Clust
  BY TargetIs
<1>3. /\ \A i, j \in DOMAIN chain' : chain'[i] = chain'[j] => i = j
      /\ \A i \in DOMAIN chain : i \in DOMAIN chain' /\ chain'[i] = chain[i]
  BY <1>1, <1>2, GrownIs
<1>4. sect = clust2sect(chain'[k + 1], p)
  <2>1. CASE AtSector
    <3>1. sect = <<r.clust, csect>>
      BY <2>1
    <3> QED
      BY <1>2, <3>1 DEF clust2sect, csect
  <2>2. CASE ~AtSector
    <3>1. sect = SectorOf(p) /\ p % SS # 0
      BY <2>2, Types DEF PlaceInv, AtSector
    <3>2. p % BCS # 0
      <4> HIDE DEF p
      <4> QED
        BY <1>1, <3>1, InsideSector
    <3>3. k + 1 \in DOMAIN chain
      <4>1. p > 0 /\ (p - 1) \div BCS = k
        BY <3>2, NextCluster
      <4>2. (p - 1) \div BCS + 1 \in DOMAIN chain
        BY <4>1, HereIs
      <4> QED
        BY <4>1, <4>2
    <3>4. chain'[k + 1] = chain[k + 1]
      BY <1>3, <3>3
    <3> QED
      BY <3>1, <3>4 DEF SectorOf
  <2> QED
    BY <2>1, <2>2
<1>5. sect \in Sector /\ sect[1] \in Held'
  <2>1. sect \in Sector
    BY <1>1, <1>2, <1>4, SectIs
  <2>2. sect[1] = chain'[k + 1]
    BY <1>4 DEF clust2sect
  <2> QED
    BY <1>2, <2>1, <2>2 DEF Held
<1>6. Filled(sect) \in Page
  <2>1. Flushed[sect] \in Page /\ fil.buf \in Page
    BY <1>5, Types, FlushedIs
  <2> QED
    BY <2>1 DEF Filled
<1>7. ASSUME NEW q \in Nat, q < fil.objsize, SectorOf(q) = sect
      PROVE  q \div SS = p \div SS
  <2>1. q \div BCS + 1 \in DOMAIN chain
    BY <1>1, <1>7, SectorIn
  <2>2. q \div BCS + 1 \in DOMAIN chain' /\ chain'[q \div BCS + 1] = chain[q \div BCS + 1]
    BY <1>3, <2>1
  <2>3. clust2sect(chain'[q \div BCS + 1], q) = clust2sect(chain'[k + 1], p)
    BY <1>4, <1>7, <2>2 DEF SectorOf
  <2> HIDE DEF p
  <2>4. (p \div SS) % CSIZE \in Nat
    BY <1>1, SectorParts
  <2>5. clust2sect(chain'[k + 1], p) = <<chain'[p \div BCS + 1], ((p \div SS) % CSIZE) + 0>>
    BY <2>4 DEF clust2sect
  <2>6. q \div SS = (p \div SS) + 0
    BY <1>1, <1>2, <1>3, <2>2, <2>3, <2>5, InSectors
  <2>7. p \div SS \in Nat
    BY <1>1, SectorParts
  <2> QED
    BY <2>6, <2>7
<1>8. ASSUME NEW q \in DOMAIN stored, SectorOf(q) = sect
      PROVE  Filled(sect)[q % SS] = stored[q]
  <2>1. q \in known /\ q \in Nat /\ q < fil.objsize
    BY <1>1, KnownIn DEF SizeInv
  <2>2. CASE AtSector /\ fil.sect # sect /\ fil.fptr < fil.objsize
    BY <1>8, <2>2, FlushedKeeps DEF Filled
  <2>3. CASE ~(AtSector /\ fil.sect # sect /\ fil.fptr < fil.objsize) /\ fil.sect = sect
    <3>1. Filled(sect) = fil.buf
      BY <2>3 DEF Filled
    <3>2. fil.buf[q % SS] = stored[q]
      BY <1>8, <2>1, <2>3, Types DEF StoredInv, CleanInv
    <3> QED
      BY <3>1, <3>2
  <2>4. CASE AtSector /\ fil.sect # sect /\ ~(fil.fptr < fil.objsize)
    <3>1. q \div SS = p \div SS /\ p % SS = 0
      BY <1>7, <1>8, <2>1, <2>4 DEF AtSector
    <3>2. q = SS * (q \div SS) + (q % SS) /\ p = SS * (p \div SS) + (p % SS) /\ q % SS \in 0 .. SS - 1
          /\ p \div SS \in Nat
      BY <1>1, <2>1, SectorParts
    <3> DEFINE t == p \div SS
               u == SS * t
    <3>3. u \in Nat
      <4>1. t \in Nat
        BY <3>2
      <4> HIDE DEF t
      <4> QED
        BY <4>1, BCSIs, SMTT(30)
    <3>4. q = u + (q % SS) /\ p = u + 0
      BY <3>1, <3>2
    <3> HIDE DEF u
    <3>5. q >= p
      BY <3>2, <3>3, <3>4, BCSIs
    <3> QED
      BY <1>1, <2>1, <2>4, <3>5
  <2> QED
    BY <2>2, <2>3, <2>4, <1>1 DEF AtSector
<1> QED
  BY <1>4, <1>5, <1>6, <1>7, <1>8

LEMMA WritePartStep ==
  ASSUME IInv, write_part
  PROVE  IInv'
<1> DEFINE ofs == fil.fptr % SS
           n == Lesser(SS - ofs, call.rem)
           S(r) == IF AtSector THEN <<r.clust, csect>> ELSE fil.sect
           B(r) == [i \in 0 .. SS - 1 |-> IF i \in ofs .. ofs + n - 1 THEN calls ELSE Filled(S(r))[i]]
<1>1. PICK r \in Targets :
        /\ medium' = IF AtSector THEN Flushed ELSE medium
        /\ fil' = [Written(r.clust, n) EXCEPT !.sect = S(r), !.dirty = TRUE, !.buf = B(r)]
        /\ chain' = r.chain /\ call' = Rest(n)
        /\ stored' = [p \in DOMAIN stored \ Ahead(n) |-> stored[p]] /\ known' = known \cup Ahead(n)
        /\ others' = others /\ lost' = lost /\ calls' = calls /\ faults' = faults /\ hurt' = hurt
  BY DEF write_part, Note, Forget
<1>2. call.op = "write" /\ Sound
  BY <1>1, InCall DEF Targets
<1> DEFINE sect == S(r)
           buf == B(r)
           modified == fil.modified \/ call.rem = n
           size == Larger(fil.objsize, fil.fptr + n)
           c == r.clust
<1>3. /\ n \in Nat \ {0} /\ n <= call.rem /\ (fil.fptr + n - 1) \div BCS = fil.fptr \div BCS
      /\ (fil.fptr + n) % SS # 0 =>
           (fil.fptr + n) \div SS = fil.fptr \div SS /\ (fil.fptr + n) \div BCS = fil.fptr \div BCS
      /\ ofs \in 0 .. SS - 1
  BY <1>2, PartIs
<1>4. /\ sect \in Sector /\ sect[1] \in Held'
      /\ sect = clust2sect(chain'[fil.fptr \div BCS + 1], fil.fptr)
      /\ Filled(sect) \in Page
      /\ \A q \in Nat : q < fil.objsize /\ SectorOf(q) = sect => q \div SS = fil.fptr \div SS
      /\ \A q \in DOMAIN stored : SectorOf(q) = sect => Filled(sect)[q % SS] = stored[q]
  BY <1>1, <1>2, PartBytes
<1>5. \A p \in Nat : p < fil.objsize => SectorOf(p)' = SectorOf(p)
  BY <1>1, <1>2, Types, TargetIs, Longer
<1>6. c \in Clust
  BY <1>2, TargetIs
<1> HIDE DEF S
<1>7. buf = [i \in 0 .. SS - 1 |-> IF i \in ofs .. ofs + n - 1 THEN calls ELSE Filled(sect)[i]]
  OBVIOUS
<1> HIDE DEF B, sect
<1>8. buf \in Page
  <2>1. calls \in Theirs .. MaxCall
    BY WrittenByte
  <2>2. \A i \in 0 .. SS - 1 : Filled(sect)[i] \in Theirs .. MaxCall
    BY <1>4 DEF Page
  <2> HIDE DEF n, ofs, buf
  <2> QED
    BY <1>7, <2>1, <2>2 DEF Page
<1>9. size \in Nat /\ fil.fptr + n \in Nat /\ modified \in BOOLEAN
  <2> HIDE DEF n
  <2> QED
    BY <1>3, Types DEF Larger
<1>10. fil' = [fil EXCEPT !.clust = c, !.fptr = @ + n, !.objsize = size, !.modified = modified,
                          !.sect = sect, !.dirty = TRUE, !.buf = buf]
  <2>1. fil' = [Written(c, n) EXCEPT !.sect = sect, !.dirty = TRUE, !.buf = buf]
    BY <1>1 DEF sect
  <2>2. Written(c, n) = [fil EXCEPT !.clust = c, !.fptr = @ + n, !.objsize = size, !.modified = modified]
    BY DEF Written
  <2> HIDE DEF n, buf, modified, size, c
  <2> QED
    BY <2>1, <2>2, Types DEF FilRec
<1>11. medium' \in HalfFlushed
  BY <1>1 DEF HalfFlushed
<1> HIDE DEF buf, modified, size, c
<1>12. /\ fil' \in FilRec /\ fil'.open = fil.open /\ fil'.write = fil.write /\ fil'.err = fil.err
       /\ fil'.sect = sect /\ fil'.buf = buf /\ fil'.dirty = TRUE /\ fil'.objsize = size
       /\ fil'.fptr = fil.fptr + n /\ fil'.clust = c /\ fil'.cltbl = fil.cltbl
  <2> HIDE DEF n
  <2> QED
    BY <1>4, <1>6, <1>8, <1>9, <1>10, Types DEF FilRec
<1>13. medium' \in [Sector -> Page]
  BY <1>1, Types, FlushedIs DEF TypeInv
<1> HIDE DEF n, ofs
<1>14. TypeInv' /\ SpaceInv' /\ SizeInv' /\ PlaceInv' /\ CallInv' /\ FaultInv'
  <2>1. fil'.objsize = Larger(fil.objsize, fil.fptr + n) /\ fil'.clust = r.clust
    BY <1>12 DEF size, c
  <2>2. DOMAIN stored' \subseteq DOMAIN stored
    BY <1>1 DEF n, ofs
  <2>3. /\ chain' = r.chain /\ others' = others /\ lost' = lost /\ hurt' = hurt /\ calls' = calls
        /\ faults' = faults /\ call' = Rest(n) /\ known' = known \cup Ahead(n)
    BY <1>1 DEF n, ofs
  <2>4. ASSUME fil'.fptr % SS # 0
        PROVE  fil'.sect = SectorOf(fil.fptr)'
    <3>1. fil'.fptr \div SS = fil.fptr \div SS /\ fil'.fptr \div BCS = fil.fptr \div BCS
      BY <1>3, <1>12, <2>4
    <3>2. SectorOf(fil.fptr)' = clust2sect(chain'[fil.fptr \div BCS + 1], fil.fptr)
      BY <3>1 DEF SectorOf, clust2sect, BCS
    <3> QED
      BY <1>4, <1>12, <3>2
  <2> HIDE DEF IInv, Sound
  <2> QED
    BY <1>2, <1>3, <1>12, <1>13, <2>1, <2>2, <2>3, <2>4, WrittenPlace
<1>15. DirtyInv'
  BY <1>2, <1>4, <1>12 DEF DirtyInv, Sector, Sound
<1>16. StoredInv'
  <2> SUFFICES ASSUME NEW p \in DOMAIN stored'
               PROVE  /\ medium'[SectorOf(p)'][p % SS] = stored'[p]
                      /\ fil'.sect = SectorOf(p)' => fil'.buf[p % SS] = stored'[p]
    BY DEF StoredInv
  <2>1. p \in DOMAIN stored /\ p \notin Ahead(n) /\ stored'[p] = stored[p]
    BY <1>1 DEF n, ofs
  <2>2. p \in Nat /\ p < fil.objsize /\ SectorOf(p)' = SectorOf(p)
    BY <1>5, <2>1, Types, KnownIn DEF SizeInv
  <2>3. medium'[SectorOf(p)][p % SS] = stored[p]
    BY <1>1, <2>1, Types, FlushedKeeps DEF StoredInv
  <2>4. ASSUME SectorOf(p) = sect
        PROVE  buf[p % SS] = stored[p]
    <3>1. p \div SS = fil.fptr \div SS
      BY <1>4, <2>2, <2>4
    <3>2. p % SS \notin ofs .. ofs + n - 1
      <4> DEFINE f == fil.fptr
      <4>1. f \in Nat /\ n \in Nat /\ p \div SS = f \div SS /\ ofs = f % SS /\ p \notin f .. f + n - 1
        BY <1>3, <2>1, <3>1, Types DEF ofs, Ahead
      <4> HIDE DEF f
      <4> QED
        BY <2>2, <4>1, BytesOfPart
    <3>3. p % SS \in 0 .. SS - 1
      BY <2>2, SectorParts
    <3>4. buf[p % SS] = Filled(sect)[p % SS]
      BY <1>7, <3>2, <3>3
    <3> QED
      BY <1>4, <2>1, <2>4, <3>4
  <2> QED
    BY <1>12, <2>1, <2>2, <2>3, <2>4
<1>17. CleanInv'
  BY <1>12 DEF CleanInv
<1>18. OthersKept'
  <2>1. hurt \/ \A s \in Sector : s[1] \in others => medium'[s] = All(Theirs)
    BY <1>1, Types, FlushedKeeps DEF OthersKept
  <2>2. hurt' = hurt /\ others' = others
    BY <1>1
  <2> QED
    BY <2>1, <2>2 DEF OthersKept, Sector, All
<1> QED
  BY <1>14, <1>15, <1>16, <1>17, <1>18 DEF IInv

LEMMA WriteErrorStep ==
  ASSUME IInv, write_error
  PROVE  IInv'
<1> DEFINE n == cc * SS
           S(r, k) == {<<r.clust, csect + i>> : i \in 0 .. k - 1}
<1>1. /\ call.op = "write" /\ faults < MaxFault /\ AtSector /\ faults' = faults + 1 /\ call' = Idle
      /\ others' = others /\ lost' = lost /\ calls' = calls /\ hurt' = hurt
  BY DEF write_error
<1>2. \/ fil' = [fil EXCEPT !.err = TRUE]
         /\ medium' = medium /\ chain' = chain /\ known' = known /\ stored' = stored
      \/ \E r \in Targets :
           /\ chain' = r.chain
           /\ \/ /\ fil.dirty /\ medium' \in HalfFlushed
                 /\ fil' = [fil EXCEPT !.clust = r.clust, !.err = TRUE]
                 /\ known' = known /\ stored' = stored
              \/ /\ cc > 0
                 /\ \E k \in 0 .. cc - 1 :
                      medium' = [s \in Sector |-> IF s \in S(r, k) THEN All(calls) ELSE Flushed[s]]
                 /\ fil' = [fil EXCEPT !.clust = r.clust, !.err = TRUE, !.dirty = FALSE]
                 /\ stored' = [p \in DOMAIN stored \ Ahead(n) |-> stored[p]] /\ known' = known \ Ahead(n)
              \/ /\ medium' = Flushed
                 /\ fil' = [fil EXCEPT !.clust = r.clust, !.err = TRUE, !.dirty = FALSE]
                 /\ known' = known /\ stored' = stored
  BY DEF write_error, Forget
<1>3. Sound
  BY <1>1, InCall
<1>4. fil.objsize \in Nat /\ fil.objsize <= fil.objsize /\ fil.objsize < Limit
  BY Types DEF SizeInv
<1>5. CASE fil' = [fil EXCEPT !.err = TRUE]
           /\ medium' = medium /\ chain' = chain /\ known' = known /\ stored' = stored
  <2>1. /\ medium' \in HalfFlushed /\ fil' \in FilRec /\ fil'.open = fil.open /\ fil'.err
        /\ fil'.objsize = fil.objsize /\ fil'.sect = fil.sect /\ fil'.buf = fil.buf
        /\ fil'.dirty = fil.dirty
    BY <1>5, Types DEF FilRec, HalfFlushed
  <2>2. Grown(chain') /\ fil.objsize <= Len(chain') * BCS
    BY <1>5, Stays
  <2> HIDE DEF IInv
  <2> QED
    BY <1>1, <1>4, <1>5, <2>1, <2>2, ErrorStep
<1>6. ASSUME NEW r \in Targets, chain' = r.chain
      PROVE  /\ Grown(chain') /\ fil.objsize <= Len(chain') * BCS /\ r.clust \in Clust
             /\ chain' \in Seq(Clust) /\ SpaceInv'
             /\ \A p \in Nat : p < fil.objsize => SectorOf(p)' = SectorOf(p)
  BY <1>1, <1>3, <1>6, Types, TargetIs, Longer
<1>7. ASSUME NEW r \in Targets, chain' = r.chain,
             \/ fil.dirty /\ medium' \in HalfFlushed /\ fil' = [fil EXCEPT !.clust = r.clust, !.err = TRUE]
             \/ medium' = Flushed /\ fil' = [fil EXCEPT !.clust = r.clust, !.err = TRUE, !.dirty = FALSE],
             known' = known, stored' = stored
      PROVE  IInv'
  <2> DEFINE c == r.clust
  <2>1. c \in Clust /\ Grown(chain') /\ fil.objsize <= Len(chain') * BCS
    BY <1>6, <1>7
  <2>2. /\ medium' \in HalfFlushed
        /\ \/ fil.dirty /\ fil' = [fil EXCEPT !.clust = c, !.err = TRUE]
           \/ medium' = Flushed /\ fil' = [fil EXCEPT !.clust = c, !.err = TRUE, !.dirty = FALSE]
    BY <1>7 DEF HalfFlushed
  <2> HIDE DEF c
  <2>3. /\ fil' \in FilRec /\ fil'.open = fil.open /\ fil'.err
        /\ fil'.objsize = fil.objsize /\ fil'.sect = fil.sect /\ fil'.buf = fil.buf
        /\ (fil'.dirty => fil.dirty) /\ (~fil'.dirty /\ fil.dirty => medium' = Flushed)
    <3>1. CASE fil.dirty /\ fil' = [fil EXCEPT !.clust = c, !.err = TRUE]
      BY <2>1, <3>1, Types DEF FilRec
    <3>2. CASE medium' = Flushed /\ fil' = [fil EXCEPT !.clust = c, !.err = TRUE, !.dirty = FALSE]
      BY <2>1, <3>2, Types DEF FilRec
    <3> QED
      BY <2>2, <3>1, <3>2
  <2> HIDE DEF IInv
  <2> QED
    BY <1>1, <1>4, <1>7, <2>1, <2>2, <2>3, ErrorStep
<1>8. ASSUME NEW r \in Targets, chain' = r.chain, cc > 0, NEW k \in 0 .. cc - 1,
             medium' = [s \in Sector |-> IF s \in S(r, k) THEN All(calls) ELSE Flushed[s]],
             fil' = [fil EXCEPT !.clust = r.clust, !.err = TRUE, !.dirty = FALSE],
             stored' = [p \in DOMAIN stored \ Ahead(n) |-> stored[p]], known' = known \ Ahead(n)
      PROVE  IInv'
  <2> DEFINE W == S(r, cc)
             T == S(r, k)
             c == r.clust
  <2>1. /\ W \subseteq Sector /\ \A s \in W : s[1] \in Held'
        /\ \A q \in Nat : q < fil.objsize /\ SectorOf(q)' \in W => q \in Ahead(n)
    BY <1>1, <1>3, <1>8, DirectBytes
  <2>2. T \subseteq W
    <3>1. cc \in Nat
      BY <1>1, <1>8, DirectIs
    <3>2. 0 .. k - 1 \subseteq 0 .. cc - 1
      BY <3>1
    <3> QED
      BY <3>2
  <2>3. \A s \in T : s[1] \notin others
    BY <1>1, <1>6, <1>8, <2>1, <2>2 DEF SpaceInv
  <2>4. c \in Clust /\ Grown(chain') /\ fil.objsize <= Len(chain') * BCS /\ chain' \in Seq(Clust) /\ SpaceInv'
        /\ \A p \in Nat : p < fil.objsize => SectorOf(p)' = SectorOf(p)
    BY <1>6, <1>8
  <2>5. fil' = [fil EXCEPT !.clust = c, !.err = TRUE, !.dirty = FALSE]
    BY <1>8
  <2>6. medium' = [s \in Sector |-> IF s \in T THEN All(calls) ELSE Flushed[s]]
    BY <1>8
  <2>7. T \in SUBSET Sector
    BY <2>1, <2>2
  <2> HIDE DEF S, T, W, c
  <2>8. /\ medium' \in [Sector -> Page] /\ OthersKept'
        /\ \A p \in DOMAIN stored : SectorOf(p) \notin T => medium'[SectorOf(p)][p % SS] = stored[p]
        /\ \A p \in known : SectorOf(p) \notin T /\ fil.sect = SectorOf(p) =>
             fil.buf[p % SS] = medium'[fil.sect][p % SS]
    BY <1>1, <2>3, <2>6, <2>7, DirectMedium
  <2>9. /\ fil' \in FilRec /\ fil'.open = fil.open /\ fil'.err /\ fil'.dirty = FALSE
        /\ fil'.objsize = fil.objsize /\ fil'.sect = fil.sect /\ fil'.buf = fil.buf
    BY <2>4, <2>5, Types DEF FilRec
  <2>10. \A p \in known' : p \in known /\ p \in Nat /\ p < fil.objsize /\ SectorOf(p)' = SectorOf(p)
                           /\ SectorOf(p) \notin T
    <3> SUFFICES ASSUME NEW p \in known'
                 PROVE  p \in known /\ p \in Nat /\ p < fil.objsize /\ SectorOf(p)' = SectorOf(p)
                           /\ SectorOf(p) \notin T
      OBVIOUS
    <3>1. p \in known /\ p \notin Ahead(n)
      BY <1>8
    <3>2. p \in Nat /\ p < fil.objsize
      BY <3>1, Types, KnownIn
    <3> QED
      BY <2>1, <2>2, <2>4, <3>1, <3>2
  <2>11. DOMAIN stored' \subseteq known' /\ \A p \in DOMAIN stored' : p \in DOMAIN stored /\ stored'[p] = stored[p]
    BY <1>8, Types DEF SizeInv
  <2>12. call' \in [op : {"none", "read", "write"}, rem : Nat] /\ call'.op = "none"
    BY <1>1 DEF Idle
  <2>13. TypeInv'
    <3>1. others' \subseteq Clust /\ lost' \subseteq Clust /\ hurt' \in BOOLEAN /\ known' \subseteq Nat
      BY <1>1, <2>10, Types DEF TypeInv
    <3>2. calls' \in 0 .. MaxCall /\ faults' \in 0 .. MaxFault
      BY <1>1, Types
    <3> QED
      BY <2>4, <2>8, <2>9, <2>12, <3>1, <3>2 DEF TypeInv, Page, Sector, FilRec, NoSect
  <2>14. SizeInv'
    BY <1>4, <2>4, <2>9, <2>10, <2>11 DEF SizeInv, BCS
  <2>15. StoredInv'
    BY <2>8, <2>9, <2>10, <2>11 DEF StoredInv
  <2>16. CleanInv'
    BY <2>8, <2>9, <2>10 DEF CleanInv
  <2>17. PlaceInv' /\ CallInv' /\ FaultInv' /\ DirtyInv'
    BY <1>1, <2>9, <2>12, Types DEF PlaceInv, CallInv, FaultInv, DirtyInv, Sound, Idle
  <2> QED
    BY <2>4, <2>8, <2>13, <2>14, <2>15, <2>16, <2>17 DEF IInv
<1> HIDE DEF S, n, IInv
<1>9. CASE \E r \in Targets :
           /\ chain' = r.chain
           /\ \/ /\ fil.dirty /\ medium' \in HalfFlushed
                 /\ fil' = [fil EXCEPT !.clust = r.clust, !.err = TRUE]
                 /\ known' = known /\ stored' = stored
              \/ /\ cc > 0
                 /\ \E k \in 0 .. cc - 1 :
                      medium' = [s \in Sector |-> IF s \in S(r, k) THEN All(calls) ELSE Flushed[s]]
                 /\ fil' = [fil EXCEPT !.clust = r.clust, !.err = TRUE, !.dirty = FALSE]
                 /\ stored' = [p \in DOMAIN stored \ Ahead(n) |-> stored[p]] /\ known' = known \ Ahead(n)
              \/ /\ medium' = Flushed
                 /\ fil' = [fil EXCEPT !.clust = r.clust, !.err = TRUE, !.dirty = FALSE]
                 /\ known' = known /\ stored' = stored
  BY <1>7, <1>8, <1>9
<1> QED
  BY <1>2, <1>5, <1>9

----------------------------------------------------------------------------
(* f_lseek.                                                                *)

\* The walk ends in the cluster of the byte before the offset.
LEMMA WalkIs ==
  ASSUME IInv, Sound, NEW ofs \in Nat \ {0}
  PROVE  /\ From(ofs) \in Nat \ {0} /\ Base(ofs) \in Nat /\ Base(ofs) = (From(ofs) - 1) * BCS
         /\ Upto(ofs) = (ofs - 1) \div BCS + 1 /\ Upto(ofs) \in Nat \ {0}
         /\ From(ofs) = 1 \/ From(ofs) \in DOMAIN chain
<1> DEFINE q == ofs - 1
<1>0. q \in Nat /\ q \div BCS \in Nat
  <2>1. q \in Nat
    OBVIOUS
  <2> HIDE DEF q
  <2> QED
    BY <2>1, SectorParts
<1>1. CASE ~Near(ofs)
  <2>1. From(ofs) = 1 /\ Base(ofs) = 0
    BY <1>1 DEF From, Base
  <2>2. Upto(ofs) = 1 + (ofs - 0 - 1) \div BCS
    BY <2>1 DEF Upto
  <2>3. ofs - 0 - 1 = q
    OBVIOUS
  <2>4. Upto(ofs) = 1 + (q \div BCS)
    BY <2>2, <2>3
  <2>5. 0 = (1 - 1) * BCS
    BY BCSIs
  <2> QED
    BY <1>0, <2>1, <2>4, <2>5
<1>2. CASE Near(ofs)
  <2> DEFINE f == fil.fptr
             m == (f - 1) \div BCS
             b == m * BCS
             u == q \div BCS
             r == q % BCS
  <2>1. f \in Nat /\ f > 0 /\ u >= m
    BY <1>2, Types DEF Near
  <2>2. Order(fil.clust) = m + 1 /\ m + 1 \in DOMAIN chain /\ m \in Nat
    <3>1. Order(fil.clust) = m + 1 /\ m + 1 \in DOMAIN chain
      BY <2>1, HereIs
    <3> DEFINE g == f - 1
    <3>2. g \in Nat
      BY <2>1
    <3> HIDE DEF g
    <3>3. g \div BCS \in Nat
      BY <3>2, SectorParts
    <3> QED
      BY <3>1, <3>3 DEF g
  <2>3. From(ofs) = m + 1 /\ Base(ofs) = b
    BY <1>2, <2>2 DEF From, Base
  <2>4. q = BCS * u + r /\ u \in Nat /\ r \in 0 .. BCS - 1
    <3> HIDE DEF q
    <3> QED
      BY <1>0, SectorParts
  <2>5. Upto(ofs) = From(ofs) + (ofs - b - 1) \div BCS
    BY <2>3 DEF Upto
  <2>6. b \in Nat
    <3> HIDE DEF m
    <3> QED
      BY <2>2, BCSIs, SMTT(30)
  <2> DEFINE x == ofs - b - 1
             y == u - m
  <2>7. y \in Nat
    <3> HIDE DEF u, m
    <3> QED
      BY <2>1, <2>2, <2>4
  <2>8. x = BCS * y + r /\ x \in Nat
    <3> HIDE DEF r, m
    <3>1. x = q - b
      <4> HIDE DEF b
      <4> QED
        BY <2>6
    <3> HIDE DEF q, u, x
    <3>2. BCS * (u - m) = BCS * u - m * BCS /\ BCS * u \in Nat /\ BCS * (u - m) \in Nat
      BY <2>1, <2>2, <2>4, <2>7, BCSIs, SMTT(30)
    <3> QED
      BY <2>4, <2>6, <3>1, <3>2
  <2>9. x \div BCS = y
    <3> HIDE DEF x, y, r
    <3> QED
      BY <2>4, <2>7, <2>8, BCSIs, DivUnique
  <2>10. Upto(ofs) = (m + 1) + y
    BY <2>3, <2>5, <2>9
  <2>11. Upto(ofs) = u + 1
    <3> HIDE DEF u, m
    <3> QED
      BY <2>2, <2>4, <2>10
  <2>12. Base(ofs) = (From(ofs) - 1) * BCS
    <3>1. From(ofs) - 1 = m
      <4> HIDE DEF m
      <4> QED
        BY <2>2, <2>3
    <3> QED
      BY <2>3, <3>1
  <2>13. u \in Nat /\ (ofs - 1) \div BCS = u
    BY <2>4
  <2> HIDE DEF u, m, b
  <2> QED
    BY <2>2, <2>3, <2>6, <2>11, <2>12, <2>13
<1> QED
  BY <1>1, <1>2

\* The position is at ofs, in the cluster of the byte before.
LEMMA PositionStep ==
  ASSUME IInv, Usable, Grown(chain'), others' = others, lost' = lost, call' = call, calls' = calls,
         faults' = faults, known' = known, stored' = stored, hurt' = hurt,
         NEW c \in Clust \cup {NoClust}, NEW ofs \in Nat, Positioned(c, ofs),
         ofs # 0 => c \in Clust /\ c = chain'[(ofs - 1) \div BCS + 1],
         ofs <= Len(chain') * BCS, ofs < Limit, fil.cltbl # <<>> => chain' = chain
  PROVE  IInv'
<1> DEFINE sect == clust2sect(c, ofs)
           load == ofs % SS # 0 /\ sect # fil.sect
           to == IF load THEN sect ELSE fil.sect
           buf == IF load THEN Flushed[sect] ELSE fil.buf
           dirty == fil.dirty /\ ~load
           size == Larger(fil.objsize, ofs)
           modified == fil.modified \/ ofs > fil.objsize
<1>1. /\ medium' = (IF load THEN Flushed ELSE medium)
      /\ fil' = [fil EXCEPT !.clust = c, !.fptr = ofs, !.objsize = size, !.modified = modified,
                            !.sect = to, !.buf = buf, !.dirty = dirty]
  BY DEF Positioned
<1>2. Sound /\ call.op = "none"
  BY UsableIs
<1>3. ofs % SS # 0 =>
        /\ ofs # 0 /\ sect \in Sector
        /\ sect = clust2sect(chain'[ofs \div BCS + 1], ofs)
  <2> SUFFICES ASSUME ofs % SS # 0
               PROVE  /\ ofs # 0 /\ sect \in Sector
                      /\ sect = clust2sect(chain'[ofs \div BCS + 1], ofs)
    OBVIOUS
  <2>1. ofs > 0 /\ ofs % BCS # 0
    BY InsideSector
  <2>2. (ofs - 1) \div BCS = ofs \div BCS
    BY <2>1, Before
  <2>3. sect \in Sector
    BY <2>1, SectIs
  <2> QED
    BY <2>1, <2>2, <2>3
<1>4. load => Flushed[sect] \in Page
  BY <1>3, Types, FlushedIs
<1>5. size \in Nat /\ fil.objsize <= size /\ ofs <= size /\ size < Limit /\ (size = ofs \/ size = fil.objsize)
  BY Types DEF Larger, SizeInv
<1>6. /\ buf \in Page /\ to \in Sector \cup {NoSect} /\ dirty \in BOOLEAN /\ modified \in BOOLEAN
  BY <1>3, <1>4, Types
<1>7. /\ dirty => fil.dirty /\ to = fil.sect /\ buf = fil.buf
      /\ ~dirty =>
           \/ to = fil.sect /\ buf = fil.buf /\ (fil.dirty => medium' = Flushed)
           \/ buf = medium'[to]
      /\ medium' \in HalfFlushed
  <2>1. CASE load
    <3>1. medium' = Flushed /\ buf = Flushed[to] /\ dirty = FALSE
      BY <1>1, <2>1
    <3> QED
      BY <3>1 DEF HalfFlushed
  <2>2. CASE ~load
    <3>1. medium' = medium /\ buf = fil.buf /\ dirty = fil.dirty /\ to = fil.sect
      BY <1>1, <2>2, Types
    <3> QED
      BY <3>1 DEF HalfFlushed
  <2> QED
    BY <2>1, <2>2
<1>8. ofs % SS # 0 => to = clust2sect(chain'[ofs \div BCS + 1], ofs)
  BY <1>3
<1> HIDE DEF sect, load, to, buf, dirty, size, modified
<1>9. /\ fil' \in FilRec /\ fil'.open = fil.open /\ fil'.err = fil.err
      /\ fil'.sect = to /\ fil'.buf = buf /\ fil'.dirty = dirty /\ fil'.objsize = size
      /\ fil'.fptr = ofs /\ fil'.clust = c /\ fil'.cltbl = fil.cltbl
  BY <1>1, <1>5, <1>6, Types DEF FilRec
<1>10. size <= Len(chain') * BCS
  <2>1. fil.objsize <= Len(chain') * BCS
    BY Types, Longer
  <2> QED
    BY <1>5, <2>1
<1>11. TypeInv' /\ SpaceInv' /\ SizeInv' /\ DirtyInv' /\ StoredInv' /\ CleanInv' /\ OthersKept'
  <2>1. fil.open
    BY <1>2 DEF Sound
  <2>2. call' \in CallRec /\ calls' \in 0 .. MaxCall /\ faults' \in 0 .. MaxFault
    BY Types
  <2> HIDE DEF IInv
  <2> QED
    BY <1>5, <1>7, <1>9, <1>10, <2>1, <2>2, Quiet
<1>12. PlaceInv'
  <2>1. fil'.fptr > 0 => fil'.clust = chain'[(fil'.fptr - 1) \div BCS + 1]
    BY <1>9
  <2>2. fil'.fptr % SS # 0 => fil'.sect = SectorOf(fil.fptr)'
    <3>1. SectorOf(fil.fptr)' = clust2sect(chain'[ofs \div BCS + 1], ofs)
      BY <1>9 DEF SectorOf, clust2sect, BCS
    <3> QED
      BY <1>8, <1>9, <3>1
  <2>3. fil'.fptr <= fil'.objsize
    BY <1>5, <1>9
  <2>4. fil'.cltbl # <<>> => fil'.cltbl = chain'
    BY <1>2, <1>9, Types DEF PlaceInv
  <2> QED
    BY <2>1, <2>2, <2>3, <2>4 DEF PlaceInv, BCS
<1>13. CallInv'
  BY <1>2, UsableIs DEF CallInv, Idle
<1>14. FaultInv'
  BY <1>9, Types DEF FaultInv
<1> QED
  BY <1>11, <1>12, <1>13, <1>14 DEF IInv

LEMMA NotPositionStep ==
  ASSUME IInv, Usable, Grown(chain'), others' = others, lost' = lost, call' = call, calls' = calls,
         faults < MaxFault, faults' = faults + 1, known' = known, stored' = stored, hurt' = hurt,
         NEW c \in Clust \cup {NoClust}, NEW ofs \in Nat, NotPositioned(c, ofs),
         ofs <= Len(chain') * BCS, ofs < Limit
  PROVE  IInv'
<1> DEFINE size == Larger(fil.objsize, ofs)
           modified == fil.modified \/ ofs > fil.objsize
<1>1. PICK stays \in BOOLEAN :
        /\ stays => fil.dirty
        /\ medium' \in IF stays THEN HalfFlushed ELSE {Flushed}
        /\ fil' = [fil EXCEPT !.clust = c, !.fptr = ofs, !.objsize = size, !.modified = modified,
                              !.err = TRUE, !.dirty = stays]
  BY DEF NotPositioned
<1>2. size \in Nat /\ fil.objsize <= size /\ ofs <= size /\ size < Limit /\ (size = ofs \/ size = fil.objsize)
  BY Types DEF Larger, SizeInv
<1>3. modified \in BOOLEAN
  BY Types
<1> HIDE DEF size, modified
<1>4. /\ fil' \in FilRec /\ fil'.open = fil.open /\ fil'.err = TRUE
      /\ fil'.sect = fil.sect /\ fil'.buf = fil.buf /\ fil'.dirty = stays /\ fil'.objsize = size
  BY <1>1, <1>2, <1>3, Types DEF FilRec
<1>5. size <= Len(chain') * BCS
  <2>1. fil.objsize <= Len(chain') * BCS
    BY Types, Longer
  <2> QED
    BY <1>2, <2>1
<1>6. medium' \in HalfFlushed /\ (~stays => medium' = Flushed)
  BY <1>1 DEF HalfFlushed
<1>7. call' = Idle
  BY UsableIs
<1> HIDE DEF IInv
<1> QED
  BY <1>1, <1>2, <1>4, <1>5, <1>6, <1>7, ErrorStep

LEMMA ClippedIs ==
  ASSUME IInv, NEW o \in Offsets
  PROVE  Clipped(o) \in Nat /\ Clipped(o) < Limit /\ Lesser(o, fil.objsize) \in Nat
         /\ Lesser(o, fil.objsize) <= fil.objsize /\ fil.objsize < Limit
<1>1. o \in 1 .. Limit - 1 /\ Limit \in Nat \ {0}
  BY SizeAssumption
<1>2. fil.objsize \in Nat /\ fil.objsize < Limit
  BY Types DEF SizeInv
<1> QED
  BY <1>1, <1>2 DEF Clipped, Lesser

LEMMA StretchGrows ==
  ASSUME NEW n \in Int, NEW s \in Stretches(Larger(n, 0))
  PROVE  Grown(chain \o s)
<1>1. Larger(n, 0) \in Nat
  BY DEF Larger
<1>2. Fresh(s)
  BY <1>1, StretchIs
<1> QED
  BY <1>2 DEF Grown

\* A chain of that many clusters has room up to an offset in the last one.
LEMMA Room ==
  ASSUME NEW ofs \in Nat \ {0}, NEW n \in Nat, (ofs - 1) \div BCS + 1 <= n
  PROVE  ofs <= n * BCS /\ (ofs - 1) \div BCS + 1 \in 1 .. n
<1> DEFINE q == ofs - 1
<1>1. q \in Nat /\ q \div BCS \in Nat
  <2>1. q \in Nat
    OBVIOUS
  <2> HIDE DEF q
  <2> QED
    BY <2>1, SectorParts
<1>2. q \div BCS < n
  BY <1>1
<1>3. n * BCS \in Nat
  BY BCSIs, SMTT(30)
<1>4. q < n * BCS
  <2> HIDE DEF q
  <2> QED
    BY <1>1, <1>2, InChain
<1> QED
  BY <1>1, <1>2, <1>3, <1>4

LEMMA SeekStep ==
  ASSUME IInv, NEW o \in Offsets, f_lseek(o)
  PROVE  IInv'
<1> DEFINE ofs == Clipped(o)
<1>1. PICK s \in Stretches(Larger(Upto(ofs) - Len(chain), 0)) :
        /\ chain' = chain \o s
        /\ IF Len(chain \o s) >= Upto(ofs) THEN Positioned((chain \o s)[Upto(ofs)], ofs)
           ELSE IF Len(chain \o s) = 0 THEN Positioned(NoClust, 0)
           ELSE Positioned((chain \o s)[Len(chain \o s)],
                           Base(ofs) + (Len(chain \o s) - From(ofs) + 1) * BCS)
  BY DEF f_lseek
<1>2. /\ Usable /\ fil.cltbl = <<>> /\ ofs > 0
      /\ others' = others /\ lost' = lost /\ call' = call /\ calls' = calls /\ faults' = faults
      /\ known' = known /\ stored' = stored /\ hurt' = hurt
  BY DEF f_lseek, hist
<1>3. Sound /\ TypeInv /\ Len(chain) \in Nat
  BY <1>2, UsableIs, Types
<1>4. ofs \in Nat \ {0} /\ ofs < Limit
  BY <1>2, ClippedIs
<1> HIDE DEF ofs
<1> DEFINE all == chain \o s
           n == Len(all)
           k == (ofs - 1) \div BCS + 1
           f == From(ofs)
<1>5. /\ f \in Nat \ {0} /\ Base(ofs) \in Nat /\ Base(ofs) = (f - 1) * BCS
      /\ Upto(ofs) = k /\ k \in Nat \ {0} /\ (f = 1 \/ f \in DOMAIN chain)
  BY <1>3, <1>4, WalkIs
<1>6. Upto(ofs) - Len(chain) \in Int
  BY <1>3, <1>5
<1>7. Grown(all) /\ chain' = all
  BY <1>1, <1>6, StretchGrows
<1>8. all \in Seq(Clust) /\ n \in Nat /\ Len(chain) <= n /\ DOMAIN all = 1 .. n
  BY <1>3, <1>7, GrownIs
<1>9. /\ n >= k => Positioned(all[k], ofs)
      /\ n < k /\ n = 0 => Positioned(NoClust, 0)
      /\ n < k /\ n # 0 => Positioned(all[n], Base(ofs) + (n - f + 1) * BCS)
  <2> HIDE DEF k, f, n
  <2>1. IF n >= k THEN Positioned(all[k], ofs)
        ELSE IF n = 0 THEN Positioned(NoClust, 0)
        ELSE Positioned(all[n], Base(ofs) + (n - f + 1) * BCS)
    BY <1>1, <1>5 DEF n, f
  <2> QED
    BY <1>5, <1>8, <2>1
<1> HIDE DEF all, n, f
<1>10. CASE n >= k
  <2>1. ofs <= n * BCS /\ k \in 1 .. n
    BY <1>4, <1>8, <1>10, Room
  <2>2. all[k] \in Clust
    BY <1>8, <2>1
  <2> DEFINE c == all[k]
  <2>3. Positioned(c, ofs) /\ c \in Clust /\ c = chain'[(ofs - 1) \div BCS + 1] /\ ofs <= Len(chain') * BCS
    BY <1>7, <1>9, <1>10, <2>1, <2>2 DEF n
  <2> HIDE DEF c, k, IInv
  <2> QED
    BY <1>2, <1>4, <1>7, <2>3, PositionStep
<1>11. CASE n < k /\ n = 0
  <2>1. Positioned(NoClust, 0)
    BY <1>9, <1>11
  <2>2. 0 <= Len(chain') * BCS /\ 0 < Limit
    <3>1. 0 <= n * BCS
      BY <1>11, BCSIs
    <3> QED
      BY <1>4, <1>7, <3>1, Types DEF n
  <2> HIDE DEF IInv
  <2> QED
    BY <1>2, <1>7, <2>1, <2>2, PositionStep
<1>12. CASE n < k /\ n # 0
  <2>1. f <= n
    BY <1>3, <1>5, <1>8, <1>12, ChainIs
  <2> DEFINE end == n * BCS
  <2>2. Base(ofs) + (n - f + 1) * BCS = end /\ end \in Nat \ {0} /\ end = BCS * n /\ end = BCS * (n - 1) + BCS
        /\ BCS * (n - 1) \in Nat
    <3>1. (f - 1) * BCS + (n - f + 1) * BCS = n * BCS /\ n * BCS \in Nat \ {0} /\ n * BCS = BCS * n
          /\ BCS * n = BCS * (n - 1) + BCS /\ BCS * (n - 1) \in Nat
      BY <1>5, <1>8, <1>12, <2>1, BCSIs, SMTT(30)
    <3> QED
      BY <1>5, <3>1
  <2>3. end <= ofs - 1 /\ end < Limit
    <3> DEFINE q == ofs - 1
    <3>1. q \in Nat /\ k = q \div BCS + 1 /\ q \div BCS \in Nat
      <4>1. q \in Nat
        BY <1>4
      <4>2. k = q \div BCS + 1
        OBVIOUS
      <4> HIDE DEF q, k
      <4> QED
        BY <4>1, <4>2, SectorParts
    <3> HIDE DEF q, end
    <3>2. ~(q \div BCS < n)
      BY <1>8, <1>12, <3>1
    <3>3. ~(q < n * BCS)
      BY <1>8, <3>1, <3>2, InChain
    <3> QED
      BY <1>4, <2>2, <3>1, <3>3, Types DEF q, end
  <2>4. (end - 1) \div BCS + 1 = n
    <3> DEFINE e == end - 1
               g == n - 1
               r == BCS - 1
    <3>1. e = BCS * g + r /\ e \in Nat /\ g \in Nat /\ r \in 0 .. BCS - 1
      <4> HIDE DEF end
      <4> QED
        BY <1>8, <1>12, <2>2, BCSIs
    <3> HIDE DEF e, g, r
    <3>2. e \div BCS = g
      BY <3>1, BCSIs, DivUnique
    <3> QED
      BY <1>8, <1>12, <3>2 DEF e, g
  <2>5. all[n] \in Clust
    BY <1>8, <1>12
  <2> DEFINE c == all[n]
  <2>6. Positioned(c, end) /\ c \in Clust /\ c = chain'[(end - 1) \div BCS + 1] /\ end <= Len(chain') * BCS
    <3>1. Positioned(c, end)
      BY <1>9, <1>12, <2>2
    <3>2. end <= n * BCS
      BY <2>2
    <3> QED
      BY <1>7, <2>4, <2>5, <3>1, <3>2 DEF n
  <2> HIDE DEF c, k, end, IInv
  <2> QED
    BY <1>2, <1>7, <2>2, <2>3, <2>6, PositionStep
<1> QED
  BY <1>5, <1>8, <1>10, <1>11, <1>12

LEMMA SeekErrorStep ==
  ASSUME IInv, NEW o \in Offsets, lseek_error(o)
  PROVE  IInv'
<1> DEFINE ofs == Clipped(o)
<1>1. \/ \E j \in 0 .. Upto(ofs) - From(ofs) :
           LET need == Larger(From(ofs) + j - 1 - Len(chain), 0) IN
           /\ \E s \in Stretches(need) : chain' = chain \o s
           /\ fil' = [fil EXCEPT !.fptr = Base(ofs) + j * BCS, !.err = TRUE]
           /\ medium' = medium
      \/ \E s \in Stretches(Larger(Upto(ofs) - Len(chain), 0)) :
           /\ chain' = chain \o s
           /\ Len(chain') >= Upto(ofs) /\ NotPositioned(chain'[Upto(ofs)], ofs)
  BY DEF lseek_error
<1>2. /\ Usable /\ fil.cltbl = <<>> /\ ofs > 0 /\ faults < MaxFault /\ faults' = faults + 1
      /\ others' = others /\ lost' = lost /\ call' = call /\ calls' = calls
      /\ known' = known /\ stored' = stored /\ hurt' = hurt
  BY DEF lseek_error, hist
<1>3. Sound /\ TypeInv /\ Len(chain) \in Nat /\ call' = Idle
  BY <1>2, UsableIs, Types
<1>4. ofs \in Nat \ {0} /\ ofs < Limit
  BY <1>2, ClippedIs
<1> HIDE DEF ofs
<1> DEFINE k == (ofs - 1) \div BCS + 1
           f == From(ofs)
           b == Base(ofs)
           u == Upto(ofs)
<1>5. f \in Nat \ {0} /\ b \in Nat /\ u = k /\ k \in Nat \ {0}
  BY <1>3, <1>4, WalkIs
<1> HIDE DEF f, b, u
<1>6. ASSUME NEW j \in 0 .. u - f, NEW s \in Stretches(Larger(f + j - 1 - Len(chain), 0)), chain' = chain \o s,
             fil' = [fil EXCEPT !.fptr = b + j * BCS, !.err = TRUE], medium' = medium
      PROVE  IInv'
  <2>1. f + j - 1 - Len(chain) \in Int
    <3> HIDE DEF k
    <3> QED
      BY <1>3, <1>5
  <2>2. Grown(chain')
    BY <1>6, <2>1, StretchGrows
  <2> DEFINE x == b + j * BCS
  <2>3. x \in Nat
    <3>1. j \in Nat
      <4> HIDE DEF k
      <4> QED
        BY <1>5
    <3>2. j * BCS \in Nat
      BY <3>1, BCSIs, SMTT(30)
    <3> QED
      BY <1>5, <3>2
  <2>4. fil' = [fil EXCEPT !.fptr = x, !.err = TRUE]
    BY <1>6
  <2> HIDE DEF x
  <2>5. /\ fil' \in FilRec /\ fil'.open = fil.open /\ fil'.err = TRUE /\ fil'.objsize = fil.objsize
        /\ fil'.sect = fil.sect /\ fil'.buf = fil.buf /\ fil'.dirty = fil.dirty
    BY <2>3, <2>4, Types DEF FilRec
  <2>6. medium' \in HalfFlushed
    BY <1>6 DEF HalfFlushed
  <2>7. fil.objsize \in Nat /\ fil.objsize < Limit /\ fil.objsize <= Len(chain') * BCS
    BY <1>2, <2>2, Types, Longer DEF SizeInv
  <2> HIDE DEF IInv
  <2> QED
    BY <1>2, <1>3, <2>2, <2>5, <2>6, <2>7, ErrorStep
<1>7. ASSUME NEW s \in Stretches(Larger(u - Len(chain), 0)), chain' = chain \o s,
             Len(chain') >= u, NotPositioned(chain'[u], ofs)
      PROVE  IInv'
  <2>1. u - Len(chain) \in Int
    <3> HIDE DEF k
    <3> QED
      BY <1>3, <1>5
  <2>2. Grown(chain')
    BY <1>7, <2>1, StretchGrows
  <2>3. chain' \in Seq(Clust) /\ Len(chain') \in Nat
    BY <1>3, <2>2, GrownIs
  <2>4. ofs <= Len(chain') * BCS /\ u \in 1 .. Len(chain')
    <3> DEFINE n == Len(chain')
    <3>1. n \in Nat /\ k <= n /\ u = k
      BY <1>5, <1>7, <2>3
    <3> HIDE DEF n
    <3>2. ofs <= n * BCS /\ k \in 1 .. n
      BY <1>4, <3>1, Room
    <3> QED
      BY <3>1, <3>2 DEF n
  <2> DEFINE c == chain'[u]
  <2>5. c \in Clust \cup {NoClust} /\ NotPositioned(c, ofs)
    BY <1>7, <2>3, <2>4
  <2> HIDE DEF c, IInv
  <2> QED
    BY <1>2, <1>4, <2>2, <2>4, <2>5, NotPositionStep
<1> QED
  BY <1>1, <1>6, <1>7 DEF u, f, b

\* In fast seek the link map has the cluster.
LEMMA MapIs ==
  ASSUME IInv, Sound, fil.cltbl # <<>>, NEW ofs \in Nat \ {0}, ofs <= fil.objsize
  PROVE  /\ clmt_clust(ofs - 1) \in Clust /\ clmt_clust(ofs - 1) = chain[(ofs - 1) \div BCS + 1]
<1> DEFINE q == ofs - 1
<1>1. q \in Nat /\ q < fil.objsize
  BY Types
<1> HIDE DEF q
<1>2. q \div BCS + 1 \in DOMAIN chain
  BY <1>1, Types, SectorIn
<1>3. fil.cltbl = chain
  BY Types DEF PlaceInv
<1>4. clmt_clust(q) = chain[q \div BCS + 1] /\ chain[q \div BCS + 1] \in Clust
  BY <1>2, <1>3, Types, ChainIs DEF clmt_clust
<1> QED
  BY <1>4 DEF q

LEMMA FastSeekStep ==
  ASSUME IInv, NEW o \in Offsets, lseek_fast(o) \/ lseek_fast_error(o)
  PROVE  IInv'
<1> DEFINE ofs == Lesser(o, fil.objsize)
           c == clmt_clust(ofs - 1)
<1>1. /\ Usable /\ fil.cltbl # <<>>
      /\ chain' = chain /\ others' = others /\ lost' = lost /\ call' = call /\ calls' = calls
      /\ known' = known /\ stored' = stored /\ hurt' = hurt
  BY DEF lseek_fast, lseek_fast_error, hist
<1>2. \/ ofs = 0 /\ fil' = [fil EXCEPT !.fptr = 0] /\ medium' = medium /\ faults' = faults
      \/ ofs # 0 /\ Positioned(c, ofs) /\ faults' = faults
      \/ ofs > 0 /\ NotPositioned(c, ofs) /\ faults < MaxFault /\ faults' = faults + 1
  BY DEF lseek_fast, lseek_fast_error
<1>3. Sound /\ Grown(chain')
  BY <1>1, UsableIs, Stays
<1>4. ofs \in Nat /\ ofs <= fil.objsize /\ ofs < Limit /\ ofs <= Len(chain') * BCS
  <2>1. fil.objsize <= Len(chain') * BCS /\ fil.objsize \in Nat
    BY <1>1, Stays
  <2>2. ofs \in Nat /\ ofs <= fil.objsize /\ fil.objsize < Limit
    BY ClippedIs
  <2>3. Len(chain') * BCS \in Nat
    <3> DEFINE n == Len(chain')
    <3>1. n \in Nat
      BY <1>1, Types
    <3> HIDE DEF n
    <3>2. n * BCS \in Nat
      BY <3>1, BCSIs, SMTT(30)
    <3> QED
      BY <3>2 DEF n
  <2> HIDE DEF ofs
  <2> QED
    BY <2>1, <2>2, <2>3, Types
<1> HIDE DEF ofs
<1>5. CASE ofs = 0 /\ fil' = [fil EXCEPT !.fptr = 0] /\ medium' = medium /\ faults' = faults
  <2>1. /\ fil' \in FilRec /\ fil'.open = fil.open /\ fil'.objsize = fil.objsize /\ fil'.err = fil.err
        /\ fil'.sect = fil.sect /\ fil'.buf = fil.buf /\ fil'.dirty = fil.dirty
        /\ fil'.fptr = 0 /\ fil'.clust = fil.clust /\ fil'.cltbl = fil.cltbl
    BY <1>5, Types DEF FilRec
  <2>2. 0 % SS = 0
    BY BCSIs, SMTT(30)
  <2>3. PlaceInv'
    BY <1>1, <1>3, <2>1, <2>2, Types DEF PlaceInv
  <2>4. CallInv'
    BY <1>1, Types, UsableIs DEF CallInv, Idle
  <2> QED
    BY <1>1, <1>5, <2>1, <2>3, <2>4, Types, StillStep
<1>6. ofs # 0 => c \in Clust /\ c = chain'[(ofs - 1) \div BCS + 1]
  BY <1>1, <1>3, <1>4, MapIs
<1> HIDE DEF c
<1>7. CASE ofs # 0 /\ Positioned(c, ofs) /\ faults' = faults
  <2>1. c \in Clust \cup {NoClust}
    BY <1>6, <1>7
  <2> HIDE DEF IInv
  <2> QED
    BY <1>1, <1>3, <1>4, <1>6, <1>7, <2>1, PositionStep
<1>8. CASE ofs > 0 /\ NotPositioned(c, ofs) /\ faults < MaxFault /\ faults' = faults + 1
  <2>1. c \in Clust \cup {NoClust}
    BY <1>4, <1>6, <1>8
  <2> HIDE DEF IInv
  <2> QED
    BY <1>1, <1>3, <1>4, <1>8, <2>1, NotPositionStep
<1> QED
  BY <1>2, <1>5, <1>7, <1>8

----------------------------------------------------------------------------
(* f_truncate.                                                             *)

LEMMA KeptIs ==
  ASSUME IInv, Sound
  PROVE  /\ Kept \in 0 .. Len(chain) /\ fil.fptr <= Kept * BCS
         /\ fil.fptr > 0 => Kept = (fil.fptr - 1) \div BCS + 1
         /\ \A p \in Nat : p < fil.fptr => p \div BCS + 1 \in 1 .. Kept
<1>1. fil.fptr \in Nat /\ Len(chain) \in Nat /\ DOMAIN chain = 1 .. Len(chain)
  BY Types
<1>2. CASE fil.fptr = 0
  <2>1. Kept = 0
    BY <1>2 DEF Kept
  <2> QED
    BY <1>1, <1>2, <2>1, BCSIs
<1>3. CASE fil.fptr > 0
  <2> DEFINE k == (fil.fptr - 1) \div BCS + 1
             f == fil.fptr
  <2>1. Kept = k /\ k \in DOMAIN chain
    BY <1>3, HereIs DEF Kept
  <2>2. k \in Nat /\ f \in Nat \ {0}
    BY <1>1, <1>3, <2>1
  <2>3. k = (f - 1) \div BCS + 1
    OBVIOUS
  <2> HIDE DEF k, f
  <2>4. f <= k * BCS
    BY <2>2, <2>3, Room
  <2>5. ASSUME NEW p \in Nat, p < f
        PROVE  p \div BCS + 1 \in 1 .. k
    <3>1. k * BCS \in Nat
      BY <2>2, BCSIs, SMTT(30)
    <3>2. p < k * BCS
      BY <2>2, <2>4, <2>5, <3>1
    <3> QED
      BY <2>2, <3>2, InChain
  <2> QED
    BY <1>1, <1>3, <2>1, <2>3, <2>4, <2>5 DEF f
<1> QED
  BY <1>1, <1>2, <1>3

\* The file ends at the position; the chain keeps at least the clusters up
\* to it.
LEMMA CutStep ==
  ASSUME IInv, Truncatable, NEW m \in Kept .. Len(chain), chain' = SubSeq(chain, 1, m),
         others' = others, lost' \subseteq lost \cup {chain[i] : i \in m + 1 .. Len(chain)},
         call' = call, calls' = calls, faults' \in 0 .. MaxFault, Ended,
         hurt' \in BOOLEAN, hurt => hurt', medium' \in HalfFlushed,
         fil' \in FilRec, fil'.objsize = fil.fptr, fil'.fptr = fil.fptr, fil'.clust = fil.clust,
         fil'.cltbl = fil.cltbl, fil'.open = fil.open,
         fil'.sect = fil.sect, fil'.buf = fil.buf,
         fil'.dirty => fil.dirty /\ hurt', ~fil'.dirty /\ fil.dirty => medium' = Flushed,
         fil'.err \/ hurt' => faults' > 0
  PROVE  IInv'
<1>1. /\ Usable /\ Sound /\ call = Idle /\ fil.cltbl = <<>> /\ fil.fptr < fil.objsize /\ fil.objsize < Limit
      /\ fil.fptr \in Nat /\ fil.objsize \in Nat /\ Limit \in Nat /\ TypeInv /\ SpaceInv /\ SizeInv
  BY Types, UsableIs DEF Truncatable, SizeInv
<1>2. /\ Kept \in 0 .. Len(chain) /\ fil.fptr <= Kept * BCS
      /\ fil.fptr > 0 => Kept = (fil.fptr - 1) \div BCS + 1
      /\ \A p \in Nat : p < fil.fptr => p \div BCS + 1 \in 1 .. Kept
  BY <1>1, KeptIs
<1>3. Len(chain) \in Nat /\ DOMAIN chain = 1 .. Len(chain) /\ chain \in Seq(Clust)
  BY Types DEF TypeInv
<1>4. m \in 0 .. Len(chain) /\ Kept <= m
  BY <1>2, <1>3
<1>5. chain' \in Seq(Clust) /\ Len(chain') = m /\ DOMAIN chain' = 1 .. m
  BY <1>3, <1>4
<1>6. \A i \in 1 .. m : i \in DOMAIN chain /\ chain'[i] = chain[i]
  BY <1>3, <1>4
<1>7. SpaceInv'
  <2>1. \A i, j \in DOMAIN chain' : chain'[i] = chain'[j] => i = j
    BY <1>1, <1>5, <1>6 DEF SpaceInv
  <2>2. Held' \subseteq Held
    BY <1>5, <1>6 DEF Held
  <2>3. ASSUME NEW i \in DOMAIN chain', NEW j \in m + 1 .. Len(chain)
        PROVE  chain'[i] # chain[j]
    <3>1. i \in DOMAIN chain /\ j \in DOMAIN chain /\ i # j /\ chain'[i] = chain[i]
      BY <1>3, <1>4, <1>5, <1>6
    <3> QED
      BY <1>1, <3>1 DEF SpaceInv
  <2>4. ASSUME NEW x \in Held', x \in lost'
        PROVE  FALSE
    <3>1. x \in Held /\ x \notin lost
      BY <1>1, <2>2, <2>4 DEF SpaceInv
    <3>2. PICK j \in m + 1 .. Len(chain) : x = chain[j]
      BY <2>4, <3>1
    <3>3. PICK i \in DOMAIN chain' : x = chain'[i]
      BY <2>4 DEF Held
    <3> QED
      BY <2>3, <3>2, <3>3
  <2> QED
    BY <1>1, <2>1, <2>2, <2>4 DEF SpaceInv
<1>8. ASSUME NEW p \in Nat, p < fil.fptr
      PROVE  SectorOf(p)' = SectorOf(p)
  <2>1. p \div BCS + 1 \in 1 .. m
    BY <1>2, <1>4, <1>8
  <2>2. chain'[p \div BCS + 1] = chain[p \div BCS + 1]
    BY <1>6, <2>1
  <2> QED
    BY <2>2 DEF SectorOf, clust2sect, BCS
<1>9. known' = known \ Ahead(Limit) /\ stored' = [p \in DOMAIN stored \ Ahead(Limit) |-> stored[p]]
  BY DEF Ended, Forget
<1>10. ASSUME NEW p \in known'
       PROVE  p \in known /\ p \in Nat /\ p < fil.fptr
  <2>1. p \in known /\ p \notin Ahead(Limit)
    BY <1>9
  <2>2. p \in Nat /\ p < fil.objsize
    BY <1>1, <2>1, KnownIn
  <2> QED
    BY <1>1, <2>1, <2>2 DEF Ahead
<1>11. medium' \in [Sector -> Page] /\ StoredInv' /\ CleanInv' /\ OthersKept'
  <2>1. \A p \in known' : SectorOf(p)' = SectorOf(p)
    BY <1>8, <1>10
  <2>2. DOMAIN stored' \subseteq DOMAIN stored /\ DOMAIN stored' \subseteq known'
        /\ \A p \in DOMAIN stored' : stored'[p] = stored[p]
    BY <1>1, <1>9 DEF SizeInv
  <2>3. known' \subseteq known
    BY <1>9
  <2> HIDE DEF IInv
  <2> QED
    BY <2>1, <2>2, <2>3, Moves
<1>12. TypeInv'
  <2>1. others' \subseteq Clust /\ known' \subseteq Nat
    BY <1>1, <1>10 DEF TypeInv
  <2>2. lost' \subseteq Clust
    <3>1. {chain[i] : i \in m + 1 .. Len(chain)} \subseteq Clust
      BY <1>3, <1>4
    <3> QED
      BY <1>1, <3>1 DEF TypeInv
  <2>3. call' \in [op : {"none", "read", "write"}, rem : Nat] /\ calls' \in 0 .. MaxCall
    BY Types DEF CallRec
  <2> QED
    BY <1>5, <1>11, <2>1, <2>2, <2>3 DEF TypeInv, Page, Sector, FilRec, NoSect
<1>13. SizeInv'
  <2>1. fil.fptr <= m * BCS
    <3> DEFINE k == Kept
               f == fil.fptr
    <3>1. k \in Nat /\ m \in Nat /\ k <= m /\ f \in Nat /\ f <= k * BCS
      BY <1>1, <1>2, <1>3, <1>4
    <3> HIDE DEF k, f
    <3>2. k * BCS <= m * BCS /\ k * BCS \in Nat /\ m * BCS \in Nat
      BY <3>1, BCSIs, SMTT(30)
    <3>3. f <= m * BCS
      BY <3>1, <3>2
    <3> QED
      BY <3>3 DEF f
  <2>2. DOMAIN stored' \subseteq known'
    BY <1>1, <1>9 DEF SizeInv
  <2>3. fil.fptr < Limit
    BY <1>1
  <2> QED
    BY <1>5, <1>10, <2>1, <2>2, <2>3 DEF SizeInv, BCS
<1>14. PlaceInv'
  <2>1. ASSUME fil.fptr > 0
        PROVE  fil'.clust = chain'[(fil.fptr - 1) \div BCS + 1]
    <3> DEFINE q == (fil.fptr - 1) \div BCS + 1
    <3>1. q = Kept /\ q \in DOMAIN chain /\ fil.clust = chain[q]
      BY <1>1, <1>2, <2>1, HereIs
    <3> HIDE DEF q
    <3>2. q \in 1 .. m
      BY <1>3, <1>4, <3>1
    <3>3. chain'[q] = chain[q]
      BY <1>6, <3>2
    <3> QED
      BY <3>1, <3>3 DEF q
  <2>2. ASSUME fil.fptr % SS # 0
        PROVE  fil'.sect = SectorOf(fil.fptr)'
    <3> DEFINE p == fil.fptr
    <3>1. p \in Nat /\ p % SS # 0
      BY <1>1, <2>2
    <3>2. p > 0 /\ p % BCS # 0
      <4> HIDE DEF p
      <4> QED
        BY <3>1, InsideSector
    <3>3. p \div BCS + 1 = Kept
      BY <1>1, <1>2, <3>2, NextCluster
    <3>4. p \div BCS + 1 \in 1 .. m
      <4>1. p \div BCS \in Nat
        BY <3>1, SectorParts
      <4> HIDE DEF p
      <4> QED
        BY <1>4, <3>3, <4>1
    <3>5. chain'[p \div BCS + 1] = chain[p \div BCS + 1]
      BY <1>6, <3>4
    <3>6. SectorOf(fil.fptr)' = SectorOf(fil.fptr)
      BY <3>5 DEF SectorOf, clust2sect, BCS
    <3> QED
      BY <1>1, <2>2, <3>6, Types DEF PlaceInv
  <2>3. fil'.fptr <= fil'.objsize
    BY <1>1
  <2> QED
    BY <1>1, <2>1, <2>2, <2>3 DEF PlaceInv, BCS
<1>15. CallInv'
  BY <1>1 DEF CallInv, Idle
<1>16. DirtyInv'
  BY Types DEF DirtyInv, Sector
<1>17. FaultInv'
  BY DEF FaultInv
<1> QED
  BY <1>7, <1>11, <1>12, <1>13, <1>14, <1>15, <1>16, <1>17 DEF IInv

LEMMA TruncateStep ==
  ASSUME IInv, f_truncate
  PROVE  IInv'
<1>1. /\ Truncatable /\ chain' = SubSeq(chain, 1, Kept) /\ Ended /\ medium' = Flushed
      /\ fil' = [fil EXCEPT !.objsize = fil.fptr, !.modified = TRUE, !.dirty = FALSE]
      /\ others' = others /\ lost' = lost /\ call' = call /\ calls' = calls /\ faults' = faults /\ hurt' = hurt
  BY DEF f_truncate, Shortened
<1>2. Kept \in Kept .. Len(chain)
  <2>1. Sound
    BY <1>1, UsableIs DEF Truncatable
  <2> QED
    BY <2>1, KeptIs, Types
<1>3. /\ fil' \in FilRec /\ fil'.objsize = fil.fptr /\ fil'.fptr = fil.fptr /\ fil'.clust = fil.clust
      /\ fil'.cltbl = fil.cltbl /\ fil'.open = fil.open /\ fil'.sect = fil.sect /\ fil'.buf = fil.buf
      /\ fil'.dirty = FALSE /\ fil'.err = fil.err
  BY <1>1, Types DEF FilRec
<1>4. medium' \in HalfFlushed
  BY <1>1 DEF HalfFlushed
<1>5. fil'.err \/ hurt' => faults' > 0
  BY <1>1, <1>3, Types DEF FaultInv
<1>6. hurt' \in BOOLEAN /\ faults' \in 0 .. MaxFault
  BY <1>1, Types DEF TypeInv
<1> HIDE DEF IInv
<1> QED
  BY <1>1, <1>2, <1>3, <1>4, <1>5, <1>6, CutStep

LEMMA TruncateErrorStep ==
  ASSUME IInv, truncate_error
  PROVE  IInv'
<1>1. /\ Truncatable /\ faults < MaxFault /\ Ended
      /\ fil' = [fil EXCEPT !.objsize = fil.fptr, !.modified = TRUE, !.err = TRUE]
      /\ hurt' = TRUE /\ faults' = faults + 1
      /\ others' = others /\ call' = call /\ calls' = calls
  BY DEF truncate_error
<1>2. \/ \E freed \in 0 .. Len(chain) - Kept :
           /\ chain' = SubSeq(chain, 1, Kept)
           /\ lost' = lost \cup {chain[i] : i \in Kept + freed + 1 .. Len(chain)}
           /\ freed = Len(chain) - Kept => medium' \in HalfFlushed
           /\ freed < Len(chain) - Kept => medium' = medium
      \/ medium' = medium /\ chain' = chain /\ lost' = lost
  BY DEF truncate_error, Shortened
<1>3. Kept \in 0 .. Len(chain) /\ Len(chain) \in Nat /\ chain \in Seq(Clust)
  <2>1. Sound
    BY <1>1, UsableIs DEF Truncatable
  <2> QED
    BY <2>1, KeptIs, Types DEF TypeInv
<1>4. /\ fil' \in FilRec /\ fil'.objsize = fil.fptr /\ fil'.fptr = fil.fptr /\ fil'.clust = fil.clust
      /\ fil'.cltbl = fil.cltbl /\ fil'.open = fil.open /\ fil'.sect = fil.sect /\ fil'.buf = fil.buf
      /\ fil'.dirty = fil.dirty
  BY <1>1, Types DEF FilRec
<1>5. faults' \in 0 .. MaxFault /\ faults' > 0
  BY <1>1, Types
<1>6. \E m \in Kept .. Len(chain) :
        /\ chain' = SubSeq(chain, 1, m) /\ lost' \subseteq lost \cup {chain[i] : i \in m + 1 .. Len(chain)}
        /\ medium' \in HalfFlushed
  <2>1. ASSUME NEW freed \in 0 .. Len(chain) - Kept,
               chain' = SubSeq(chain, 1, Kept),
               lost' = lost \cup {chain[i] : i \in Kept + freed + 1 .. Len(chain)},
               freed = Len(chain) - Kept => medium' \in HalfFlushed,
               freed < Len(chain) - Kept => medium' = medium
        PROVE  /\ chain' = SubSeq(chain, 1, Kept)
               /\ lost' \subseteq lost \cup {chain[i] : i \in Kept + 1 .. Len(chain)}
               /\ medium' \in HalfFlushed
    <3>1. Kept + freed + 1 .. Len(chain) \subseteq Kept + 1 .. Len(chain)
      BY <1>3
    <3>2. medium' \in HalfFlushed
      BY <1>3, <2>1 DEF HalfFlushed
    <3> QED
      BY <2>1, <3>1, <3>2
  <2>2. CASE medium' = medium /\ chain' = chain /\ lost' = lost
    <3>1. SubSeq(chain, 1, Len(chain)) = chain
      BY <1>3
    <3>2. Len(chain) \in Kept .. Len(chain)
      BY <1>3
    <3> QED
      BY <2>2, <3>1, <3>2 DEF HalfFlushed
  <2>3. Kept \in Kept .. Len(chain)
    BY <1>3
  <2> QED
    BY <1>2, <2>1, <2>2, <2>3
<1>7. PICK m \in Kept .. Len(chain) :
        /\ chain' = SubSeq(chain, 1, m) /\ lost' \subseteq lost \cup {chain[i] : i \in m + 1 .. Len(chain)}
        /\ medium' \in HalfFlushed
  BY <1>6
<1> HIDE DEF IInv
<1> QED
  BY <1>1, <1>4, <1>5, <1>7, CutStep

----------------------------------------------------------------------------
(* f_sync, f_close, and the other files.                                   *)

\* f_sync puts what f_write wrote on the medium.
LEMMA ContentIs ==
  /\ DOMAIN Content = known
  /\ \A p \in known :
       Content[p] = IF fil.dirty /\ fil.sect = SectorOf(p) THEN fil.buf[p % SS] ELSE medium[SectorOf(p)][p % SS]
  BY DEF Content, SectorOf, clust2sect

LEMMA SyncedIs ==
  ASSUME IInv, fil.modified, Synced, chain' = chain
  PROVE  /\ medium' = Flushed /\ DOMAIN stored' = known /\ known' = known
         /\ \A p \in known : SectorOf(p)' = SectorOf(p)
         /\ \A p \in known : medium'[SectorOf(p)][p % SS] = stored'[p]
<1>1. medium' = Flushed /\ stored' = Content /\ known' = known
  BY DEF Synced
<1>2. \A s \in Sector : Flushed[s] = IF fil.dirty /\ fil.sect = s THEN fil.buf ELSE medium[s]
  BY Types, FlushedIs
<1>3. \A p \in known : SectorOf(p)' = SectorOf(p)
  <2> HIDE DEF Content
  <2> QED
    BY DEF SectorOf, clust2sect, BCS
<1>4. ASSUME NEW p \in known
      PROVE  Flushed[SectorOf(p)][p % SS] = Content[p]
  <2>1. SectorOf(p) \in Sector
    BY Types, KnownIn
  <2> QED
    BY <1>2, <2>1, ContentIs
<1> QED
  BY <1>1, <1>3, <1>4, ContentIs

\* The steps after which the buffer is not dirty and the medium has it, when
\* FA_MODIFIED was set.
LEMMA StoreStep ==
  ASSUME IInv, call = Idle, call' = call, fil.modified, Synced,
         fil' \in FilRec, fil'.objsize = fil.objsize, fil'.err = fil.err, fil'.dirty = FALSE,
         \/ fil'.sect = NoSect
         \/ fil'.sect = fil.sect /\ fil'.buf = fil.buf,
         PlaceInv'
  PROVE  IInv'
<1>1. /\ chain' = chain /\ others' = others /\ lost' = lost /\ calls' = calls /\ faults' = faults
      /\ known' = known /\ hurt' = hurt
  BY DEF Synced
<1>2. /\ medium' = Flushed /\ DOMAIN stored' = known
      /\ \A p \in known : SectorOf(p)' = SectorOf(p)
      /\ \A p \in known : medium'[SectorOf(p)][p % SS] = stored'[p]
  BY <1>1, SyncedIs
<1>3. /\ Flushed \in [Sector -> Page]
      /\ \A s \in Sector : Flushed[s] = IF fil.dirty /\ fil.sect = s THEN fil.buf ELSE medium[s]
  BY Types, FlushedIs
<1>4. TypeInv'
  <2>1. medium' \in [Sector -> Page]
    BY <1>2, <1>3
  <2> QED
    BY <1>1, <2>1, Types DEF TypeInv, Page, Sector, FilRec, NoSect
<1>5. SpaceInv'
  BY <1>1, Types DEF SpaceInv, Held
<1>6. SizeInv'
  BY <1>1, <1>2, Types DEF SizeInv, BCS
<1>7. CallInv' /\ FaultInv' /\ DirtyInv'
  BY <1>1, Types DEF CallInv, FaultInv, DirtyInv, Idle
<1>8. StoredInv'
  BY <1>1, <1>2 DEF StoredInv
<1>9. CleanInv'
  <2> SUFFICES ASSUME NEW p \in known, fil'.sect = SectorOf(p)
               PROVE  fil'.buf[p % SS] = medium'[fil'.sect][p % SS]
    BY <1>1, <1>2 DEF CleanInv
  <2>1. SectorOf(p) \in Sector /\ SectorOf(p) # NoSect
    BY Types, KnownIn
  <2>2. fil'.sect = fil.sect /\ fil'.buf = fil.buf
    BY <2>1
  <2>3. medium'[fil.sect] = IF fil.dirty THEN fil.buf ELSE medium[fil.sect]
    BY <1>2, <1>3, <2>1, <2>2
  <2> QED
    BY <2>2, <2>3, Types DEF CleanInv
<1>10. OthersKept'
  <2>1. hurt \/ \A s \in Sector : s[1] \in others => medium'[s] = All(Theirs)
    BY <1>2, FlushedKeeps
  <2> QED
    BY <1>1, <2>1 DEF OthersKept, Sector, All
<1> QED
  BY <1>4, <1>5, <1>6, <1>7, <1>8, <1>9, <1>10 DEF IInv

LEMMA SyncStep ==
  ASSUME IInv, f_sync
  PROVE  IInv'
<1>1. /\ call = Idle /\ call' = call /\ fil.modified /\ Synced /\ chain' = chain
      /\ fil' = [fil EXCEPT !.modified = FALSE, !.dirty = FALSE]
  BY DEF f_sync, Syncable, Synced
<1>2. /\ fil' \in FilRec /\ fil'.open = fil.open /\ fil'.objsize = fil.objsize /\ fil'.err = fil.err
      /\ fil'.sect = fil.sect /\ fil'.buf = fil.buf /\ fil'.dirty = FALSE
      /\ fil'.fptr = fil.fptr /\ fil'.clust = fil.clust /\ fil'.cltbl = fil.cltbl
  BY <1>1, Types DEF FilRec
<1>3. PlaceInv'
  BY <1>1, <1>2, Types DEF PlaceInv, Sound, SectorOf, clust2sect, BCS
<1> HIDE DEF IInv
<1> QED
  BY <1>1, <1>2, <1>3, StoreStep

LEMMA ClosedIs ==
  ASSUME NEW z \in Nat, NEW e \in BOOLEAN
  PROVE  /\ Closed(z, e) \in FilRec /\ Closed(z, e).open = FALSE /\ Closed(z, e).err = e
         /\ Closed(z, e).objsize = z /\ Closed(z, e).dirty = FALSE /\ Closed(z, e).sect = NoSect
<1>1. NewFil(FALSE, z) \in FilRec
  BY NewFilIs
<1>2. Closed(z, e) = [NewFil(FALSE, z) EXCEPT !.open = FALSE, !.err = e]
  BY DEF Closed
<1>3. NewFil(FALSE, z).objsize = z /\ NewFil(FALSE, z).dirty = FALSE /\ NewFil(FALSE, z).sect = NoSect
  BY DEF NewFil
<1> QED
  BY <1>1, <1>2, <1>3 DEF FilRec

LEMMA CloseStep ==
  ASSUME IInv, f_close
  PROVE  IInv'
<1>1. /\ call = Idle /\ call' = call /\ Synced /\ fil' = Closed(fil.objsize, fil.err)
  BY DEF f_close, Syncable, Synced
<1>2. /\ fil' \in FilRec /\ fil'.open = FALSE /\ fil'.err = fil.err
      /\ fil'.objsize = fil.objsize /\ fil'.dirty = FALSE /\ fil'.sect = NoSect
  <2>1. fil.objsize \in Nat /\ fil.err \in BOOLEAN
    BY Types
  <2>2. /\ Closed(fil.objsize, fil.err) \in FilRec
        /\ Closed(fil.objsize, fil.err).open = FALSE /\ Closed(fil.objsize, fil.err).err = fil.err
        /\ Closed(fil.objsize, fil.err).objsize = fil.objsize
        /\ Closed(fil.objsize, fil.err).dirty = FALSE /\ Closed(fil.objsize, fil.err).sect = NoSect
    BY <2>1, ClosedIs
  <2> QED
    BY <1>1, <2>2
<1>3. PlaceInv'
  BY <1>2 DEF PlaceInv, Sound
<1>4. CASE fil.modified
  BY <1>1, <1>2, <1>3, <1>4, StoreStep
<1>5. CASE ~fil.modified
  <2>1. /\ medium' = medium /\ stored' = stored /\ chain' = chain /\ others' = others /\ lost' = lost
        /\ calls' = calls /\ faults' = faults /\ known' = known /\ hurt' = hurt
    BY <1>1, <1>5 DEF Synced
  <2>2. medium' \in HalfFlushed
    BY <2>1 DEF HalfFlushed
  <2>3. TypeInv' /\ SpaceInv' /\ SizeInv' /\ DirtyInv' /\ StoredInv' /\ CleanInv' /\ OthersKept'
    <3> HIDE DEF IInv
    <3> QED
      BY <1>1, <1>2, <2>1, <2>2, Types, Stays, Quiet
  <2>4. CallInv' /\ FaultInv'
    BY <1>1, <1>2, <2>1, Types DEF CallInv, FaultInv, Idle
  <2> QED
    BY <1>3, <2>3, <2>4 DEF IInv
<1> QED
  BY <1>4, <1>5

LEMMA SyncErrorStep ==
  ASSUME IInv, sync_error
  PROVE  IInv'
<1>1. /\ call = Idle /\ call' = call /\ faults < MaxFault /\ faults' = faults + 1
      /\ chain' = chain /\ others' = others /\ lost' = lost /\ calls' = calls
      /\ known' = known /\ stored' = stored /\ hurt' = hurt
  BY DEF sync_error, Syncable, hist
<1>2. \/ fil.dirty /\ medium' \in HalfFlushed /\ fil' = fil
      \/ medium' = Flushed /\ \E m \in BOOLEAN : fil' = [fil EXCEPT !.dirty = FALSE, !.modified = m]
  BY DEF sync_error
<1>3. /\ medium' \in HalfFlushed /\ fil' \in FilRec /\ fil'.open = fil.open /\ fil'.objsize = fil.objsize
      /\ fil'.err = fil.err /\ fil'.sect = fil.sect /\ fil'.buf = fil.buf
      /\ (fil'.dirty => fil.dirty) /\ (~fil'.dirty /\ fil.dirty => medium' = Flushed)
      /\ fil'.fptr = fil.fptr /\ fil'.clust = fil.clust /\ fil'.cltbl = fil.cltbl
  <2>1. CASE fil.dirty /\ medium' \in HalfFlushed /\ fil' = fil
    BY <2>1, Types
  <2>2. CASE medium' = Flushed /\ \E m \in BOOLEAN : fil' = [fil EXCEPT !.dirty = FALSE, !.modified = m]
    BY <2>2, Types DEF FilRec, HalfFlushed
  <2> QED
    BY <1>2, <2>1, <2>2
<1>4. PlaceInv'
  BY <1>1, <1>3, Types DEF PlaceInv, Sound, SectorOf, clust2sect, BCS
<1>5. faults' \in 0 .. MaxFault /\ faults' > 0
  BY <1>1, Types
<1>6. CallInv' /\ FaultInv'
  BY <1>1, <1>5 DEF CallInv, FaultInv, Idle
<1>7. TypeInv' /\ SpaceInv' /\ SizeInv' /\ DirtyInv' /\ StoredInv' /\ CleanInv' /\ OthersKept'
  <2>1. fil'.dirty => fil'.open
    BY <1>3, Types DEF DirtyInv
  <2> HIDE DEF IInv
  <2> QED
    BY <1>1, <1>3, <1>5, <2>1, Types, Stays, Quiet
<1> QED
  BY <1>4, <1>6, <1>7 DEF IInv

\* The other files take only clusters that are free, where no buffer goes.
LEMMA OthersTakeStep ==
  ASSUME IInv, NEW c \in Clust, others_take(c)
  PROVE  IInv'
<1>1. /\ call = Idle /\ c \in Free /\ others' = others \cup {c}
      /\ medium' = [s \in Sector |-> IF s[1] = c THEN All(Theirs) ELSE medium[s]]
      /\ chain' = chain /\ lost' = lost /\ fil' = fil /\ call' = call /\ calls' = calls /\ faults' = faults
      /\ known' = known /\ stored' = stored /\ hurt' = hurt
  BY DEF others_take, hist
<1>2. c \notin Held
  BY <1>1 DEF Free, Held
<1>3. medium \in [Sector -> Page] /\ All(Theirs) \in Page
  BY Types, BlankIs DEF TypeInv, Blank
<1>4. TypeInv'
  <2>1. medium' \in [Sector -> Page]
    BY <1>1, <1>3
  <2>2. others' \subseteq Clust
    BY <1>1, Types DEF TypeInv
  <2> QED
    BY <1>1, <2>1, <2>2, Types DEF TypeInv, Page, Sector, FilRec, NoSect
<1>5. SpaceInv'
  BY <1>1, <1>2, Types DEF SpaceInv, Held
<1>6. SizeInv' /\ FaultInv' /\ CallInv'
  BY <1>1, Types DEF SizeInv, FaultInv, CallInv, Sound, BCS, Idle
<1>7. PlaceInv' /\ DirtyInv'
  BY <1>1, Types DEF PlaceInv, DirtyInv, Sound, SectorOf, clust2sect, BCS, Held, Sector
<1>8. ASSUME NEW p \in known
      PROVE  SectorOf(p)' = SectorOf(p) /\ SectorOf(p) \in Sector /\ medium'[SectorOf(p)] = medium[SectorOf(p)]
  <2>1. SectorOf(p)' = SectorOf(p)
    BY <1>1 DEF SectorOf, clust2sect, BCS
  <2>2. SectorOf(p) \in Sector /\ SectorOf(p)[1] \in Held
    BY <1>8, Types, KnownIn
  <2> QED
    BY <1>1, <1>2, <2>1, <2>2
<1>9. StoredInv'
  BY <1>1, <1>8, Types DEF StoredInv, SizeInv
<1>10. CleanInv'
  BY <1>1, <1>8, Types DEF CleanInv
<1>11. OthersKept'
  <2>1. hurt \/ \A s \in Sector : s[1] \in others' => medium'[s] = All(Theirs)
    BY <1>1, <1>3, Types DEF OthersKept
  <2> QED
    BY <1>1, <2>1 DEF OthersKept, Sector, All
<1> QED
  BY <1>4, <1>5, <1>6, <1>7, <1>9, <1>10, <1>11 DEF IInv

LEMMA OthersFreeStep ==
  ASSUME IInv, NEW c \in Clust, others_free(c)
  PROVE  IInv'
<1>1. /\ call = Idle /\ others' = others \ {c} /\ medium' = medium
      /\ chain' = chain /\ lost' = lost /\ fil' = fil /\ call' = call /\ calls' = calls /\ faults' = faults
      /\ known' = known /\ stored' = stored /\ hurt' = hurt
  BY DEF others_free, hist
<1>2. TypeInv' /\ SpaceInv' /\ SizeInv'
  BY <1>1, Types DEF TypeInv, SpaceInv, SizeInv, Held, Page, Sector, FilRec, NoSect, BCS
<1>3. PlaceInv' /\ CallInv' /\ FaultInv' /\ DirtyInv'
  BY <1>1, Types DEF PlaceInv, CallInv, FaultInv, DirtyInv, Sound, SectorOf, clust2sect, BCS, Held, Sector, Idle
<1>4. StoredInv' /\ CleanInv'
  BY <1>1, Types DEF StoredInv, CleanInv, SectorOf, clust2sect, BCS
<1>5. OthersKept'
  BY <1>1, Types DEF OthersKept, Sector, All
<1> QED
  BY <1>2, <1>3, <1>4, <1>5 DEF IInv

----------------------------------------------------------------------------
(* The theorems.                                                           *)

LEMMA InitStep == Init => IInv
<1> SUFFICES ASSUME Init PROVE IInv
  OBVIOUS
<1>1. /\ medium = [s \in Sector |-> Blank] /\ chain = <<>> /\ others = {} /\ lost = {}
      /\ fil = Closed(0, FALSE) /\ call = Idle /\ calls = 0 /\ faults = 0
      /\ known = {} /\ stored = [p \in {} |-> Theirs] /\ hurt = FALSE
  BY DEF Init
<1>2. /\ fil \in FilRec /\ fil.open = FALSE /\ fil.err = FALSE /\ fil.objsize = 0 /\ fil.dirty = FALSE
  BY <1>1, ClosedIs
<1>3. TypeInv
  <2>1. medium \in [Sector -> Page] /\ chain \in Seq(Clust)
    BY <1>1, BlankIs
  <2>2. call \in [op : {"none", "read", "write"}, rem : Nat]
    BY <1>1 DEF Idle
  <2>3. calls \in 0 .. MaxCall /\ faults \in 0 .. MaxFault
    BY <1>1, SizeAssumption
  <2>4. others \subseteq Clust /\ lost \subseteq Clust /\ known \subseteq Nat /\ hurt \in BOOLEAN
    BY <1>1
  <2> QED
    BY <1>2, <2>1, <2>2, <2>3, <2>4 DEF TypeInv
<1>4. SpaceInv /\ PlaceInv /\ CallInv /\ FaultInv /\ DirtyInv
  <2>1. SpaceInv
    BY <1>1 DEF SpaceInv, Held
  <2>2. PlaceInv /\ FaultInv /\ DirtyInv
    BY <1>1, <1>2 DEF PlaceInv, FaultInv, DirtyInv, Sound
  <2>3. CallInv
    BY <1>1 DEF CallInv, Idle
  <2> QED
    BY <2>1, <2>2, <2>3
<1>5. SizeInv
  <2>1. Len(chain) = 0 /\ DOMAIN stored = {}
    BY <1>1
  <2>2. 0 * BCS = 0 /\ 0 < Limit
    BY BCSIs, SizeAssumption
  <2>3. fil.objsize <= Len(chain) * BCS /\ fil.objsize < Limit
    BY <1>2, <2>1, <2>2
  <2>4. \A p \in known : p < fil.objsize
    BY <1>1
  <2> QED
    BY <2>1, <2>3, <2>4 DEF SizeInv
<1>6. StoredInv /\ CleanInv
  BY <1>1 DEF StoredInv, CleanInv
<1>7. OthersKept
  BY <1>1 DEF OthersKept
<1> QED
  BY <1>3, <1>4, <1>5, <1>6, <1>7 DEF IInv

LEMMA NextStep == IInv /\ [Next]_vars => IInv'
<1> SUFFICES ASSUME IInv, [Next]_vars PROVE IInv'
  OBVIOUS
<1>1. CASE Open
  BY <1>1, OpenStep, AppendStep DEF Open
<1>2. CASE Read
  BY <1>2, ReadCallStep, ReadDirectStep, ReadPartStep, ReadErrorStep DEF Read
<1>3. CASE Write
  BY <1>3, WriteCallStep, WriteDirectStep, WritePartStep, WriteFullStep, WriteErrorStep DEF Write
<1>4. CASE Seek
  BY <1>4, TopStep, LinkMapStep, SeekStep, SeekErrorStep, FastSeekStep DEF Seek
<1>5. CASE Store
  BY <1>5, TruncateStep, TruncateErrorStep, SyncStep, CloseStep, SyncErrorStep DEF Store
<1>6. CASE Others
  BY <1>6, OthersTakeStep, OthersFreeStep DEF Others
<1>7. CASE UNCHANGED vars
  <2>1. /\ medium' = medium /\ chain' = chain /\ others' = others /\ lost' = lost /\ fil' = fil /\ call' = call
        /\ calls' = calls /\ faults' = faults /\ known' = known /\ stored' = stored /\ hurt' = hurt
    BY <1>7 DEF vars, hist
  <2>2. TypeInv' /\ SpaceInv' /\ SizeInv'
    BY <2>1, Types DEF TypeInv, SpaceInv, SizeInv, Held, Page, Sector, FilRec, NoSect, BCS
  <2>3. PlaceInv' /\ CallInv' /\ FaultInv' /\ DirtyInv'
    BY <2>1, Types DEF PlaceInv, CallInv, FaultInv, DirtyInv, Sound, SectorOf, clust2sect, BCS, Held, Sector, Idle
  <2>4. StoredInv' /\ CleanInv' /\ OthersKept'
    BY <2>1, Types DEF StoredInv, CleanInv, SectorOf, clust2sect, BCS, OthersKept, Sector, All
  <2> QED
    BY <2>2, <2>3, <2>4 DEF IInv
<1> QED
  BY <1>1, <1>2, <1>3, <1>4, <1>5, <1>6, <1>7 DEF Next

\* The invariant holds of every reachable state: chain, FIL object, buffer
\* and medium fit together (f_open, f_read, f_write, f_lseek, f_truncate,
\* f_sync, f_close), whatever the sizes of a sector and of a cluster.
THEOREM FileInvariant == Spec => []IInv
  BY InitStep, NextStep, PTL DEF Spec

\* No buffer and no direct transfer reaches a cluster that is another file's,
\* unless f_truncate failed (write_direct, write_part, f_sync).
THEOREM OthersAreKept == Spec => []OthersKept
<1>1. IInv => OthersKept
  BY DEF IInv
<1> QED
  BY <1>1, FileInvariant, PTL

\* What f_sync stored is on the medium, where the chain has it, until a call
\* changes it: f_write keeps the neighbours of the bytes it writes.
THEOREM SyncedBytesStay == Spec => []SyncedStays
<1>1. IInv => SyncedStays
  BY DEF IInv, StoredInv, SyncedStays
<1> QED
  BY <1>1, FileInvariant, PTL

----------------------------------------------------------------------------
(* The file is a sequence of bytes: FatFile implements ByteFile.           *)

\* What is written and not marked as modified was written by a call that goes
\* on or failed; only calls of a sound file deliver bytes.
MarkedInv ==
  /\ fil.dirty /\ ~fil.modified => fil.err \/ call.op = "write"
  /\ fil.err => got = <<>>
  /\ ~fil.open => fil.fptr = 0

At(p) == IF p \in known THEN Content[p] ELSE Unknown
File  == [i \in 1 .. fil.objsize |-> IF i - 1 \in known THEN Content[i - 1] ELSE Unknown]

bytes == <<File, fil.fptr, got, fil.err>>

LEMMA FileIs ==
  ASSUME IInv
  PROVE  /\ File \in Seq({At(p) : p \in Nat}) /\ Len(File) = fil.objsize
         /\ DOMAIN File = 1 .. fil.objsize
         /\ \A i \in 1 .. fil.objsize : File[i] = At(i - 1)
<1>1. fil.objsize \in Nat
  BY Types
<1>2. \A i \in 1 .. fil.objsize : i - 1 \in Nat
  BY <1>1
<1>3. File \in [1 .. fil.objsize -> {At(p) : p \in Nat}]
  BY <1>2 DEF File, At
<1>4. \A i \in 1 .. fil.objsize : File[i] = At(i - 1)
  BY DEF File, At
<1>5. DOMAIN File = 1 .. fil.objsize
  BY DEF File
<1> HIDE DEF File, At
<1>6. File \in Seq({At(p) : p \in Nat})
  BY <1>1, <1>3
<1>7. Len(File) = fil.objsize
  BY <1>1, <1>5, <1>6
<1> QED
  BY <1>4, <1>5, <1>6, <1>7

\* The new file, as a sequence, byte by byte.
LEMMA NewFileIs ==
  ASSUME fil'.objsize \in Nat
  PROVE  /\ DOMAIN File' = 1 .. fil'.objsize
         /\ File' \in Seq({At(p)' : p \in Nat}) /\ Len(File') = fil'.objsize
         /\ \A i \in 1 .. fil'.objsize : File'[i] = At(i - 1)'
<1>1. fil'.objsize \in Nat
  OBVIOUS
<1>2. \A i \in 1 .. fil'.objsize : i - 1 \in Nat
  BY <1>1
<1>3. File' \in [1 .. fil'.objsize -> {At(p)' : p \in Nat}]
  BY <1>2 DEF File, At
<1>4. \A i \in 1 .. fil'.objsize : File'[i] = At(i - 1)'
  BY DEF File, At
<1>5. DOMAIN File' = 1 .. fil'.objsize
  BY DEF File
<1> HIDE DEF File, At
<1>6. File' \in Seq({At(p)' : p \in Nat})
  BY <1>1, <1>3
<1>7. Len(File') = fil'.objsize
  BY <1>1, <1>5, <1>6
<1> QED
  BY <1>4, <1>5, <1>6, <1>7

----------------------------------------------------------------------------
(* Sequences that are cut, made longer, or partly overwritten.             *)

LEMMA CutIs ==
  ASSUME NEW S, NEW c \in Seq(S), NEW k \in 0 .. Len(c)
  PROVE  /\ SubSeq(c, 1, k) \in Seq(S) /\ Len(SubSeq(c, 1, k)) = k
         /\ \A i \in 1 .. k : SubSeq(c, 1, k)[i] = c[i]
  OBVIOUS

LEMMA TailIs ==
  ASSUME NEW S, NEW c \in Seq(S), NEW k \in Nat, NEW z, z = SubSeq(c, k + 1, Len(c))
  PROVE  /\ z \in Seq(S) /\ Len(z) = IF k <= Len(c) THEN Len(c) - k ELSE 0
         /\ \A i \in 1 .. Len(c) - k : z[i] = c[k + i]
  OBVIOUS

LEMMA SameSeq ==
  ASSUME NEW S, NEW T, NEW c \in Seq(S), NEW d \in Seq(T), Len(c) = Len(d),
         \A i \in 1 .. Len(c) : c[i] = d[i]
  PROVE  c = d
  OBVIOUS

LEMMA JoinIs ==
  ASSUME NEW S, NEW x \in Seq(S), NEW y \in Seq(S), NEW z \in Seq(S), NEW w, w = x \o y \o z
  PROVE  /\ w \in Seq(S) /\ Len(w) = Len(x) + Len(y) + Len(z)
         /\ \A i \in 1 .. Len(x) : w[i] = x[i]
         /\ \A i \in 1 .. Len(y) : w[Len(x) + i] = y[i]
         /\ \A i \in 1 .. Len(z) : w[Len(x) + Len(y) + i] = z[i]
  OBVIOUS

\* n bytes b, from the k-th on.
Patched(c, k, n, b) == SubSeq(c, 1, k) \o [i \in 1 .. n |-> b] \o SubSeq(c, k + n + 1, Len(c))

LEMMA LongerIs ==
  ASSUME NEW S, NEW c \in Seq(S), NEW n \in Nat, n >= Len(c), NEW b,
         NEW T, NEW d \in Seq(T), Len(d) = n,
         \A i \in 1 .. n : d[i] = IF i \in 1 .. Len(c) THEN c[i] ELSE b
  PROVE  d = c \o [i \in 1 .. n - Len(c) |-> b]
<1> DEFINE U == S \cup {b}
           y == [i \in 1 .. n - Len(c) |-> b]
<1>1. c \in Seq(U)
  OBVIOUS
<1>2. n - Len(c) \in Nat
  OBVIOUS
<1>3. y \in Seq(U) /\ Len(y) = n - Len(c) /\ \A i \in 1 .. n - Len(c) : y[i] = b
  <2>1. y \in [1 .. n - Len(c) -> U]
    OBVIOUS
  <2> HIDE DEF U
  <2> QED
    BY <1>2, <2>1
<1> HIDE DEF y, U
<1>4. c \o y \in Seq(U) /\ Len(c \o y) = n /\ \A i \in 1 .. n : d[i] = (c \o y)[i]
  BY <1>1, <1>3
<1>5. d = c \o y
  BY <1>4, SameSeq
<1> QED
  BY <1>5 DEF y

----------------------------------------------------------------------------
(* Where the bytes are.                                                    *)

\* The buffer, dirty or not, has what the content has in its sector.
LEMMA ContentOf ==
  ASSUME IInv, NEW p \in known
  PROVE  /\ Content[p] = Flushed[SectorOf(p)][p % SS]
         /\ fil.sect = SectorOf(p) => Content[p] = fil.buf[p % SS]
<1>1. SectorOf(p) \in Sector
  BY Types, KnownIn
<1>2. Flushed[SectorOf(p)] = IF fil.dirty /\ fil.sect = SectorOf(p) THEN fil.buf ELSE medium[SectorOf(p)]
  BY <1>1, Types, FlushedIs
<1>3. Content[p] = IF fil.dirty /\ fil.sect = SectorOf(p) THEN fil.buf[p % SS] ELSE medium[SectorOf(p)][p % SS]
  BY ContentIs
<1>4. ~fil.dirty /\ fil.sect = SectorOf(p) => fil.buf[p % SS] = medium[SectorOf(p)][p % SS]
  BY Types DEF CleanInv
<1> QED
  BY <1>2, <1>3, <1>4

LEMMA NewContentIs ==
  /\ DOMAIN Content' = known'
  /\ \A p \in known' :
       Content'[p] = IF fil'.dirty /\ fil'.sect = SectorOf(p)' THEN fil'.buf[p % SS]
                     ELSE medium'[SectorOf(p)'][p % SS]
  BY DEF Content, SectorOf, clust2sect, BCS

\* What is known of a byte stays as it is.
LEMMA SameByte ==
  ASSUME IInv, medium' \in HalfFlushed,
         fil'.dirty => fil.dirty /\ fil'.sect = fil.sect /\ fil'.buf = fil.buf,
         ~fil'.dirty /\ fil.dirty => medium' = Flushed,
         NEW p \in known, p \in known', SectorOf(p)' = SectorOf(p)
  PROVE  At(p)' = At(p)
<1>1. SectorOf(p) \in Sector
  BY Types, KnownIn
<1>2. \A s \in Sector : Flushed[s] = IF fil.dirty /\ fil.sect = s THEN fil.buf ELSE medium[s]
  BY Types, FlushedIs
<1>3. Content'[p] = IF fil'.dirty /\ fil'.sect = SectorOf(p) THEN fil'.buf[p % SS]
                    ELSE medium'[SectorOf(p)][p % SS]
  BY NewContentIs
<1>4. Content[p] = IF fil.dirty /\ fil.sect = SectorOf(p) THEN fil.buf[p % SS]
                   ELSE medium[SectorOf(p)][p % SS]
  BY ContentIs
<1>5. medium' = medium \/ medium' = Flushed
  BY DEF HalfFlushed
<1>6. Content'[p] = Content[p]
  BY <1>1, <1>2, <1>3, <1>4, <1>5
<1> QED
  BY <1>6 DEF At

\* A call that changes no byte, and perhaps the length.
Untouched ==
  /\ Grown(chain') /\ others' = others /\ lost' = lost /\ known' = known
  /\ medium' \in HalfFlushed
  /\ fil'.dirty => fil.dirty /\ fil'.sect = fil.sect /\ fil'.buf = fil.buf
  /\ ~fil'.dirty /\ fil.dirty => medium' = Flushed

LEMMA UntouchedIs ==
  ASSUME IInv, IInv', Untouched, fil.objsize <= fil'.objsize
  PROVE  /\ fil'.objsize = fil.objsize => File' = File
         /\ fil'.objsize > fil.objsize =>
              File' = File \o [i \in 1 .. fil'.objsize - Len(File) |-> Unknown]
<1>1. fil'.objsize \in Nat /\ fil.objsize \in Nat
  BY Types DEF IInv, TypeInv, FilRec
<1>2. \A p \in Nat : p < fil.objsize => SectorOf(p)' = SectorOf(p)
  BY Types, Longer DEF Untouched
<1>3. \A p \in known : p \in Nat /\ p < fil.objsize
  BY Types, KnownIn
<1>4. \A p \in known : At(p)' = At(p)
  BY <1>2, <1>3, SameByte DEF Untouched
<1>5. \A p \in Nat : At(p)' = At(p)
  BY <1>4 DEF At, Untouched
<1>6. \A p \in Nat : p >= fil.objsize => At(p)' = Unknown
  BY <1>1, <1>3, <1>5 DEF At
<1>7. /\ File \in Seq({At(p) : p \in Nat}) /\ Len(File) = fil.objsize
      /\ \A i \in 1 .. fil.objsize : File[i] = At(i - 1)
  BY FileIs
<1>8. /\ File' \in Seq({At(p)' : p \in Nat}) /\ Len(File') = fil'.objsize
      /\ \A i \in 1 .. fil'.objsize : File'[i] = At(i - 1)'
  BY <1>1, NewFileIs
<1> DEFINE S == {At(p) : p \in Nat}
           T == {At(p)' : p \in Nat}
<1> HIDE DEF S, T
<1>9. ASSUME fil'.objsize = fil.objsize
      PROVE  File' = File
  <2>1. \A i \in 1 .. Len(File) : File[i] = File'[i]
    BY <1>1, <1>5, <1>7, <1>8, <1>9
  <2> QED
    BY <1>7, <1>8, <1>9, <2>1, SameSeq DEF S, T
<1>10. ASSUME fil'.objsize > fil.objsize
       PROVE  File' = File \o [i \in 1 .. fil'.objsize - Len(File) |-> Unknown]
  <2>1. \A i \in 1 .. fil'.objsize : File'[i] = IF i \in 1 .. Len(File) THEN File[i] ELSE Unknown
    <3> SUFFICES ASSUME NEW i \in 1 .. fil'.objsize
                 PROVE  File'[i] = IF i \in 1 .. Len(File) THEN File[i] ELSE Unknown
      OBVIOUS
    <3>1. i - 1 \in Nat /\ File'[i] = At(i - 1)'
      BY <1>1, <1>8
    <3>2. CASE i \in 1 .. fil.objsize
      BY <1>5, <1>7, <3>1, <3>2
    <3>3. CASE i \notin 1 .. fil.objsize
      <4>1. i - 1 >= fil.objsize
        BY <1>1, <3>3
      <4> QED
        BY <1>6, <1>7, <3>1, <3>3, <4>1
    <3> QED
      BY <3>2, <3>3
  <2>2. File \in Seq(S) /\ File' \in Seq(T) /\ Len(File') = fil'.objsize /\ fil'.objsize >= Len(File)
    BY <1>1, <1>7, <1>8, <1>10 DEF S, T
  <2> QED
    BY <1>1, <2>1, <2>2, LongerIs
<1> QED
  BY <1>9, <1>10

LEMMA PatchOfFile ==
  ASSUME IInv, fil.fptr <= fil.objsize, NEW n \in Nat, NEW b, NEW w, w = Patched(File, fil.fptr, n, b)
  PROVE  /\ w \in Seq({At(q) : q \in Nat} \cup {b})
         /\ Len(w) = IF fil.fptr + n <= fil.objsize THEN fil.objsize ELSE fil.fptr + n
         /\ \A i \in 1 .. Len(w) : w[i] = IF i \in fil.fptr + 1 .. fil.fptr + n THEN b ELSE File[i]
<1> DEFINE k == fil.fptr
           S == {At(q) : q \in Nat}
           c == File
<1>13. /\ c \in Seq(S) /\ k \in Nat /\ k <= Len(c) /\ Len(c) = fil.objsize /\ Len(c) \in Nat
       /\ w = Patched(c, k, n, b)
  BY Types, FileIs
<1> HIDE DEF k, S, c
<1> DEFINE U == S \cup {b}
           x == SubSeq(c, 1, k)
           y == [i \in 1 .. n |-> b]
           z == SubSeq(c, k + n + 1, Len(c))
           m == IF k + n <= Len(c) THEN Len(c) - (k + n) ELSE 0
           v == x \o y \o z
<1>0. k \in Nat /\ n \in Nat /\ Len(c) \in Nat /\ k <= Len(c) /\ k + n \in Nat
  BY <1>13
<1>1. c \in Seq(U)
  BY <1>13
<1>2. x \in Seq(U) /\ Len(x) = k /\ \A i \in 1 .. k : x[i] = c[i]
  <2> HIDE DEF U
  <2>1. k \in 0 .. Len(c)
    BY <1>0
  <2> QED
    BY <1>1, <2>1, CutIs
<1>3. y \in Seq(U) /\ Len(y) = n /\ \A i \in 1 .. n : y[i] = b
  <2>1. y \in [1 .. n -> U]
    OBVIOUS
  <2> HIDE DEF U
  <2> QED
    BY <2>1
<1>4. /\ z \in Seq(U) /\ Len(z) = m /\ m \in Nat
      /\ \A i \in 1 .. m : z[i] = c[k + n + i]
  <2> DEFINE h == k + n
  <2>1. z = SubSeq(c, h + 1, Len(c)) /\ h \in Nat
    BY <1>0
  <2>2. m = IF h <= Len(c) THEN Len(c) - h ELSE 0
    OBVIOUS
  <2>3. ASSUME NEW q, z[q] = c[h + q]
        PROVE  z[q] = c[k + n + q]
    BY <2>3
  <2> HIDE DEF U, z, h, m
  <2>4. z \in Seq(U) /\ Len(z) = m /\ \A i \in 1 .. Len(c) - h : z[i] = c[h + i]
    BY <1>0, <1>1, <2>1, <2>2, TailIs
  <2>5. m \in Nat /\ \A i \in 1 .. m : i \in 1 .. Len(c) - h
    BY <1>0, <2>1, <2>2
  <2> QED
    BY <2>3, <2>4, <2>5
<1>5. v = x \o y \o z
  OBVIOUS
<1>6. /\ k + n <= Len(c) => k + n + m = Len(c)
      /\ ~(k + n <= Len(c)) => m = 0
  <2>1. m = IF k + n <= Len(c) THEN Len(c) - (k + n) ELSE 0
    OBVIOUS
  <2>2. m \in Nat
    BY <1>4
  <2> HIDE DEF m
  <2>3. CASE k + n <= Len(c)
    <3>1. m = Len(c) - (k + n)
      BY <2>1, <2>3
    <3> QED
      BY <1>0, <2>3, <3>1
  <2>4. CASE ~(k + n <= Len(c))
    BY <2>1, <2>4
  <2> QED
    BY <2>3, <2>4
<1>7. w = v
  BY <1>13 DEF Patched
<1> HIDE DEF x, y, z, U, v, m
<1>8. /\ v \in Seq(U) /\ Len(v) = Len(x) + Len(y) + Len(z)
      /\ \A i \in 1 .. Len(x) : v[i] = x[i]
      /\ \A i \in 1 .. Len(y) : v[Len(x) + i] = y[i]
      /\ \A i \in 1 .. Len(z) : v[Len(x) + Len(y) + i] = z[i]
  <2>1. x \in Seq(U) /\ y \in Seq(U) /\ z \in Seq(U)
    BY <1>2, <1>3, <1>4
  <2> QED
    BY <1>5, <2>1, JoinIs
<1>9. Len(v) = k + n + m
  BY <1>2, <1>3, <1>4, <1>8
<1>10. Len(v) = IF k + n <= Len(c) THEN Len(c) ELSE k + n
  BY <1>0, <1>6, <1>9
<1>11. ASSUME NEW i \in 1 .. k + n + m
       PROVE  v[i] = IF i \in k + 1 .. k + n THEN b ELSE c[i]
  <2>1. CASE i \in 1 .. k
    <3>1. v[i] = c[i]
      BY <1>2, <1>8, <2>1
    <3> QED
      BY <1>0, <2>1, <3>1
  <2>2. CASE i \in k + 1 .. k + n
    <3>1. i - k \in 1 .. n /\ k + (i - k) = i
      BY <1>0, <2>2
    <3>2. v[k + (i - k)] = y[i - k]
      BY <1>2, <1>3, <1>8, <3>1
    <3> QED
      BY <1>3, <2>2, <3>1, <3>2
  <2>3. CASE i \in k + n + 1 .. k + n + m
    <3>1. i - (k + n) \in 1 .. m /\ k + n + (i - (k + n)) = i /\ i \notin k + 1 .. k + n
      BY <1>0, <1>4, <2>3
    <3>2. v[k + n + (i - (k + n))] = z[i - (k + n)]
      BY <1>2, <1>3, <1>4, <1>8, <3>1
    <3>3. z[i - (k + n)] = c[k + n + (i - (k + n))]
      BY <1>4, <3>1
    <3> QED
      BY <3>1, <3>2, <3>3
  <2> QED
    BY <1>0, <1>4, <2>1, <2>2, <2>3
<1>12. /\ w \in Seq(S \cup {b}) /\ Len(w) = IF k + n <= Len(c) THEN Len(c) ELSE k + n
       /\ \A i \in 1 .. Len(w) : w[i] = IF i \in k + 1 .. k + n THEN b ELSE c[i]
  BY <1>7, <1>8, <1>9, <1>10, <1>11 DEF U
<1> QED
  BY <1>12, <1>13 DEF k, S, c

\* Of the bytes, n at the position are b.
LEMMA FilePatched ==
  ASSUME IInv, IInv', fil.fptr <= fil.objsize, NEW n \in Nat, NEW b,
         fil'.objsize = Larger(fil.objsize, fil.fptr + n)
  PROVE  /\ \A q \in Nat : q \in fil.fptr .. fil.fptr + n - 1 /\ q < fil'.objsize => At(q)' = b
         /\ \A q \in Nat : q \notin fil.fptr .. fil.fptr + n - 1 /\ q < fil.objsize => At(q)' = At(q)
         => File' = Patched(File, fil.fptr, n, b)
<1> DEFINE p == fil.fptr
           z == fil.objsize
           S == {At(q) : q \in Nat}
           T == {At(q)' : q \in Nat}
<1>1. p \in Nat /\ z \in Nat /\ p <= z
  BY Types
<1>2. fil'.objsize = IF p + n <= z THEN z ELSE p + n
  BY <1>1 DEF Larger
<1>3. fil'.objsize \in Nat
  BY <1>1, <1>2
<1>4. File \in Seq(S) /\ Len(File) = z /\ \A i \in 1 .. z : File[i] = At(i - 1)
  BY FileIs
<1>5. File' \in Seq(T) /\ Len(File') = fil'.objsize /\ \A i \in 1 .. fil'.objsize : File'[i] = At(i - 1)'
  BY <1>3, NewFileIs
<1> HIDE DEF S, T
<1> DEFINE w == Patched(File, fil.fptr, n, b)
<1>6. w = Patched(File, fil.fptr, n, b)
  OBVIOUS
<1> HIDE DEF w
<1>7. /\ w \in Seq({At(q) : q \in Nat} \cup {b})
      /\ Len(w) = IF fil.fptr + n <= fil.objsize THEN fil.objsize ELSE fil.fptr + n
      /\ \A i \in 1 .. Len(w) : w[i] = IF i \in fil.fptr + 1 .. fil.fptr + n THEN b ELSE File[i]
  BY <1>6, PatchOfFile
<1> SUFFICES ASSUME \A q \in Nat : q \in fil.fptr .. fil.fptr + n - 1 /\ q < fil'.objsize => At(q)' = b,
                    \A q \in Nat : q \notin fil.fptr .. fil.fptr + n - 1 /\ q < fil.objsize => At(q)' = At(q)
             PROVE  File' = w
  BY DEF w
<1>8. ASSUME NEW i \in 1 .. Len(File')
      PROVE  File'[i] = IF i \in p + 1 .. p + n THEN b ELSE File[i]
  <2>1. i - 1 \in Nat /\ i - 1 < fil'.objsize /\ File'[i] = At(i - 1)'
    BY <1>3, <1>5
  <2>2. CASE i \in p + 1 .. p + n
    <3>1. i - 1 \in fil.fptr .. fil.fptr + n - 1
      BY <1>1, <2>2
    <3> QED
      BY <2>1, <2>2, <3>1
  <2>3. CASE i \notin p + 1 .. p + n
    <3>1. i - 1 \notin fil.fptr .. fil.fptr + n - 1
      BY <1>1, <2>3
    <3>2. i - 1 < fil.objsize /\ i \in 1 .. z
      BY <1>1, <1>2, <1>5, <2>1, <2>3
    <3>3. At(i - 1)' = At(i - 1)
      BY <2>1, <3>1, <3>2
    <3> QED
      BY <1>4, <2>1, <2>3, <3>2, <3>3
  <2> QED
    BY <2>2, <2>3
<1>9. p \in 0 .. Len(File) /\ Len(File') = IF p + n <= Len(File) THEN Len(File) ELSE p + n
  BY <1>1, <1>2, <1>4, <1>5
<1>10. Len(w) = Len(File')
  BY <1>4, <1>7, <1>9
<1>11. \A i \in 1 .. Len(w) : w[i] = File'[i]
  BY <1>7, <1>8, <1>10
<1>12. w = File'
  BY <1>5, <1>7, <1>10, <1>11, SameSeq
<1> QED
  BY <1>12

LEMMA PutIs ==
  ASSUME IInv, IInv', fil.fptr <= fil.objsize, NEW n \in Nat \ {0}, NEW b \in Byte,
         fil'.objsize = Larger(fil.objsize, fil.fptr + n),
         \A q \in Nat : q \in fil.fptr .. fil.fptr + n - 1 /\ q < fil'.objsize => At(q)' = b,
         \A q \in Nat : q \notin fil.fptr .. fil.fptr + n - 1 /\ q < fil.objsize => At(q)' = At(q),
         fil'.fptr = fil.fptr + n, fil'.err = fil.err, got' = <<>>
  PROVE  Bytes!Put
<1>1. File' = Patched(File, fil.fptr, n, b)
  BY FilePatched
<1>2. fil'.fptr - fil.fptr = n /\ fil'.fptr > fil.fptr
  BY Types
<1> QED
  BY <1>1, <1>2 DEF Bytes!Put, Bytes!Overwritten, Bytes!Before, Bytes!After, Patched, File

\* A call that changes no byte moves the position, makes the file longer,
\* fails, or is not seen.
LEMMA MoveIs ==
  ASSUME IInv, IInv', Untouched, ~fil.err, fil'.err = fil.err, got' = <<>>,
         \/ fil'.objsize = fil.objsize /\ fil'.fptr <= fil.objsize
         \/ fil'.objsize > fil.objsize /\ fil'.fptr = fil'.objsize
  PROVE  Bytes!Next
<1>1. fil.objsize \in Nat /\ fil'.objsize \in Nat /\ fil'.fptr \in Nat
  BY Types DEF IInv, TypeInv, FilRec
<1>2. fil.objsize <= fil'.objsize
  BY <1>1
<1>3. CASE fil'.objsize = fil.objsize /\ fil'.fptr <= fil.objsize
  <2>1. File' = File /\ Len(File) = fil.objsize
    BY <1>2, <1>3, UntouchedIs, FileIs
  <2>2. Bytes!Move
    BY <1>1, <1>3, <2>1 DEF Bytes!Move, File
  <2> QED
    BY <2>2 DEF Bytes!Next
<1>4. CASE fil'.objsize > fil.objsize /\ fil'.fptr = fil'.objsize
  <2>1. File' = File \o [i \in 1 .. fil'.fptr - Len(File) |-> Unknown] /\ fil'.fptr > Len(File)
    BY <1>2, <1>4, UntouchedIs, FileIs
  <2>2. Bytes!Grow
    BY <2>1 DEF Bytes!Grow, Bytes!GrowTo, File
  <2> QED
    BY <2>2 DEF Bytes!Next
<1> QED
  BY <1>3, <1>4

LEMMA FailIs ==
  ASSUME IInv, IInv', Untouched, ~fil.err, fil'.err, fil.objsize <= fil'.objsize, got' = <<>>
  PROVE  Bytes!Next
<1>1. fil.objsize \in Nat /\ fil'.objsize \in Nat /\ fil'.err = TRUE
  BY Types DEF IInv, TypeInv, FilRec
<1>2. Len(File') = fil'.objsize
  BY <1>1, NewFileIs
<1>3. \/ File' = File
      \/ File' = File \o [i \in 1 .. Len(File') - Len(File) |-> Unknown] /\ Len(File') > Len(File)
  <2>1. fil'.objsize = fil.objsize \/ fil'.objsize > fil.objsize
    BY <1>1
  <2>2. CASE fil'.objsize = fil.objsize
    BY <2>2, UntouchedIs
  <2>3. CASE fil'.objsize > fil.objsize
    <3>1. File' = File \o [i \in 1 .. fil'.objsize - Len(File) |-> Unknown]
      BY <2>3, UntouchedIs
    <3> QED
      BY <1>2, <2>3, <3>1, FileIs
  <2> QED
    BY <2>1, <2>2, <2>3
<1>4. Bytes!Fail
  BY <1>1, <1>3 DEF Bytes!Fail, Bytes!GrowTo, File
<1> QED
  BY <1>4 DEF Bytes!Next

LEMMA StillIs ==
  ASSUME IInv, IInv', MarkedInv, Untouched, fil'.objsize = fil.objsize,
         fil'.fptr = fil.fptr, fil'.err = fil.err, got' = <<>>,
         ~fil.err => fil.fptr <= fil.objsize
  PROVE  [Bytes!Next]_bytes
<1>1. fil.objsize <= fil'.objsize
  BY Types
<1>2. CASE fil.err
  <2>1. File' = File
    BY <1>1, UntouchedIs
  <2>2. got' = got
    BY <1>2 DEF MarkedInv
  <2> QED
    BY <2>1, <2>2 DEF bytes
<1>3. CASE ~fil.err
  BY <1>3, MoveIs
<1> QED
  BY <1>2, <1>3

----------------------------------------------------------------------------
(* One lemma per action.                                                   *)

LEMMA SameFile ==
  ASSUME IInv, medium' = medium, chain' = chain, others' = others, lost' = lost, known' = known,
         fil'.dirty => fil.dirty /\ fil'.sect = fil.sect /\ fil'.buf = fil.buf, fil.dirty => fil'.dirty
  PROVE  Untouched
  BY Stays DEF Untouched, HalfFlushed

LEMMA OpenBytes ==
  ASSUME IInv, IInv', MarkedInv, Open
  PROVE  MarkedInv' /\ [Bytes!Next]_bytes
<1>1. /\ ~fil.open /\ faults = 0 /\ got' = <<>>
      /\ medium' = medium /\ chain' = chain /\ others' = others /\ lost' = lost /\ known' = known
  BY DEF Open, f_open, f_open_append, hist
<1>2. ~fil.dirty /\ ~fil.err
  BY <1>1, Types DEF DirtyInv, FaultInv
<1>3. /\ fil'.open /\ ~fil'.dirty /\ fil'.err = FALSE /\ fil'.objsize = fil.objsize
      /\ fil'.fptr \in {0, fil.objsize}
  <2>1. ASSUME NEW w \in BOOLEAN, f_open(w)
        PROVE  <1>3!:
    BY <2>1 DEF f_open, NewFil
  <2>2. CASE f_open_append
    BY <2>2 DEF f_open_append, NewFil
  <2> QED
    BY <2>1, <2>2 DEF Open
<1>4. Untouched
  BY <1>1, <1>2, <1>3, SameFile
<1>5. fil'.fptr <= fil.objsize /\ fil'.err = fil.err
  <2>1. fil.objsize \in Nat /\ fil.err \in BOOLEAN
    BY Types
  <2>2. fil'.fptr <= fil.objsize
    BY <1>3, <2>1
  <2> QED
    BY <1>2, <1>3, <2>1, <2>2
<1>6. Bytes!Next
  BY <1>1, <1>2, <1>3, <1>4, <1>5, MoveIs
<1>7. MarkedInv'
  BY <1>1, <1>3 DEF MarkedInv
<1> QED
  BY <1>6, <1>7

\* f_read and f_write begin, f_write finds the volume full, f_lseek changes
\* the position or the link map alone.
LEMMA QuietBytes ==
  ASSUME IInv, IInv', MarkedInv, ~fil.err,
         medium' = medium, chain' = chain, others' = others, lost' = lost, known' = known, got' = <<>>,
         fil'.dirty = fil.dirty, fil'.sect = fil.sect, fil'.buf = fil.buf, fil'.objsize = fil.objsize,
         fil'.err = fil.err, fil'.open, fil.modified => fil'.modified,
         fil'.fptr \in {0, fil.fptr}, fil.fptr <= fil.objsize,
         call.op = "write" => fil'.modified
  PROVE  MarkedInv' /\ [Bytes!Next]_bytes
<1>1. Untouched
  BY SameFile
<1>2. fil'.fptr <= fil.objsize
  BY Types
<1>3. Bytes!Next
  BY <1>1, <1>2, MoveIs
<1>4. MarkedInv'
  BY DEF MarkedInv
<1> QED
  BY <1>3, <1>4

LEMMA CallBytes ==
  ASSUME IInv, IInv', MarkedInv,
         (\E n \in ReadLens : f_read(n)) \/ (\E n \in WriteLens : f_write(n))
  PROVE  MarkedInv' /\ [Bytes!Next]_bytes
<1>1. /\ Usable /\ got' = <<>> /\ fil' = fil
      /\ medium' = medium /\ chain' = chain /\ others' = others /\ lost' = lost /\ known' = known
  BY DEF f_read, f_write, hist
<1>2. Sound /\ call.op = "none"
  BY <1>1, UsableIs
<1>3. fil.fptr <= fil.objsize /\ ~fil.err /\ fil.open
  BY <1>2, HereIs DEF Sound
<1> QED
  BY <1>1, <1>2, <1>3, QuietBytes

LEMMA WriteFullBytes ==
  ASSUME IInv, IInv', MarkedInv, write_full
  PROVE  MarkedInv' /\ [Bytes!Next]_bytes
<1>1. /\ call.op = "write" /\ got' = <<>> /\ fil' = [fil EXCEPT !.modified = TRUE]
      /\ medium' = medium /\ chain' = chain /\ others' = others /\ lost' = lost /\ known' = known
  BY DEF write_full, hist
<1>2. Sound
  BY <1>1, InCall
<1>3. fil.fptr <= fil.objsize /\ ~fil.err /\ fil.open
  BY <1>2, HereIs DEF Sound
<1>4. /\ fil'.dirty = fil.dirty /\ fil'.sect = fil.sect /\ fil'.buf = fil.buf /\ fil'.objsize = fil.objsize
      /\ fil'.err = fil.err /\ fil'.open = fil.open /\ fil'.modified /\ fil'.fptr = fil.fptr
  BY <1>1, Types DEF FilRec
<1> QED
  BY <1>1, <1>3, <1>4, QuietBytes

LEMMA TopBytes ==
  ASSUME IInv, IInv', MarkedInv, lseek_top \/ lseek_linkmap \/ drop_linkmap
  PROVE  MarkedInv' /\ [Bytes!Next]_bytes
<1>1. /\ Usable /\ got' = <<>>
      /\ medium' = medium /\ chain' = chain /\ others' = others /\ lost' = lost /\ known' = known
      /\ \/ fil' = [fil EXCEPT !.fptr = 0]
         \/ fil' = [fil EXCEPT !.cltbl = chain]
         \/ fil' = [fil EXCEPT !.cltbl = <<>>]
  BY DEF lseek_top, lseek_linkmap, drop_linkmap, hist
<1>2. Sound /\ call.op = "none"
  BY <1>1, UsableIs
<1>3. fil.fptr <= fil.objsize /\ ~fil.err /\ fil.open
  BY <1>2, HereIs DEF Sound
<1>4. /\ fil'.dirty = fil.dirty /\ fil'.sect = fil.sect /\ fil'.buf = fil.buf /\ fil'.objsize = fil.objsize
      /\ fil'.err = fil.err /\ fil'.open = fil.open /\ fil'.modified = fil.modified
      /\ fil'.fptr \in {0, fil.fptr}
  BY <1>1, Types DEF FilRec
<1> QED
  BY <1>1, <1>2, <1>3, <1>4, QuietBytes

\* What f_sync, f_close and a call of another file leave of the file.
LEMMA SyncBytes ==
  ASSUME IInv, IInv', MarkedInv, f_sync \/ sync_error
  PROVE  MarkedInv' /\ [Bytes!Next]_bytes
<1>1. /\ Syncable /\ fil.modified /\ got' = <<>>
      /\ chain' = chain /\ others' = others /\ lost' = lost /\ known' = known
      /\ \/ fil.dirty /\ medium' \in HalfFlushed /\ fil' = fil
         \/ /\ medium' = Flushed
            /\ \E m \in BOOLEAN : fil' = [fil EXCEPT !.dirty = FALSE, !.modified = m]
  BY DEF f_sync, sync_error, Synced, hist
<1>2. fil.open /\ call.op = "none"
  BY <1>1 DEF Syncable, Idle
<1>3. ~fil.err => fil.fptr <= fil.objsize
  BY <1>2, HereIs DEF Sound
<1>4. /\ fil'.objsize = fil.objsize /\ fil'.fptr = fil.fptr /\ fil'.err = fil.err /\ fil'.open = fil.open
      /\ fil'.sect = fil.sect /\ fil'.buf = fil.buf
      /\ \/ fil'.dirty = fil.dirty /\ fil.dirty /\ fil'.modified = fil.modified /\ medium' \in HalfFlushed
         \/ fil'.dirty = FALSE /\ medium' = Flushed
  BY <1>1, Types DEF FilRec
<1>5. Untouched
  BY <1>1, <1>4, Stays DEF Untouched, HalfFlushed
<1>6. [Bytes!Next]_bytes
  BY <1>1, <1>3, <1>4, <1>5, StillIs
<1>7. MarkedInv'
  BY <1>1, <1>2, <1>4 DEF MarkedInv
<1> QED
  BY <1>6, <1>7

LEMMA CloseBytes ==
  ASSUME IInv, IInv', MarkedInv, f_close
  PROVE  MarkedInv' /\ [Bytes!Next]_bytes
<1>1. /\ Syncable /\ got' = <<>>
      /\ chain' = chain /\ others' = others /\ lost' = lost /\ known' = known
      /\ medium' = (IF fil.modified THEN Flushed ELSE medium)
      /\ fil' = Closed(fil.objsize, fil.err)
  BY DEF f_close, Synced
<1>2. fil.open /\ call.op = "none"
  BY <1>1 DEF Syncable, Idle
<1>3. /\ fil'.objsize = fil.objsize /\ fil'.fptr = 0 /\ fil'.err = fil.err /\ ~fil'.open /\ ~fil'.dirty
  BY <1>1 DEF Closed, NewFil
<1>4. ASSUME ~fil.err
      PROVE  File' = File
  <2>1. fil.dirty => medium' = Flushed
    BY <1>1, <1>2, <1>4 DEF MarkedInv
  <2>2. Untouched
    BY <1>1, <1>3, <2>1, Stays DEF Untouched, HalfFlushed
  <2> QED
    BY <1>3, <2>2, Types, UntouchedIs
<1>5. Bytes!Close
  BY <1>1, <1>3, <1>4 DEF Bytes!Close, File
<1>6. MarkedInv'
  <2>1. got' = <<>> /\ fil'.fptr = 0 /\ ~fil'.dirty
    BY <1>1, <1>3
  <2> QED
    BY <2>1 DEF MarkedInv
<1> QED
  BY <1>5, <1>6 DEF Bytes!Next

LEMMA OthersBytes ==
  ASSUME IInv, IInv', MarkedInv, Others
  PROVE  MarkedInv' /\ [Bytes!Next]_bytes
<1>1. /\ call = Idle /\ fil' = fil /\ got' = <<>> /\ call' = call
      /\ chain' = chain /\ known' = known
      /\ \/ medium' = medium
         \/ \E c \in Free : medium' = [s \in Sector |-> IF s[1] = c THEN All(Theirs) ELSE medium[s]]
  BY DEF Others, others_take, others_free, hist
<1>2. ASSUME NEW p \in known
      PROVE  At(p)' = At(p)
  <2>1. SectorOf(p) \in Sector /\ SectorOf(p)[1] \in Held
    BY Types, KnownIn
  <2>2. SectorOf(p)' = SectorOf(p)
    BY <1>1 DEF SectorOf, clust2sect, BCS
  <2>3. medium'[SectorOf(p)] = medium[SectorOf(p)]
    BY <1>1, <2>1 DEF Free, Held
  <2>4. Content'[p] = Content[p]
    BY <1>1, <2>2, <2>3, NewContentIs, ContentIs
  <2> QED
    BY <1>1, <2>4 DEF At
<1>3. File' = File
  <2>1. \A p \in Nat : At(p)' = At(p)
    BY <1>1, <1>2 DEF At
  <2>2. fil'.objsize = fil.objsize /\ fil.objsize \in Nat
    BY <1>1, Types
  <2>3. /\ File \in Seq({At(p) : p \in Nat}) /\ Len(File) = fil.objsize
        /\ \A i \in 1 .. fil.objsize : File[i] = At(i - 1)
    BY FileIs
  <2>4. /\ File' \in Seq({At(p)' : p \in Nat}) /\ Len(File') = fil'.objsize
        /\ \A i \in 1 .. fil'.objsize : File'[i] = At(i - 1)'
    BY <2>2, NewFileIs
  <2>5. \A i \in 1 .. Len(File) : File[i] = File'[i]
    BY <2>1, <2>2, <2>3, <2>4
  <2> DEFINE S == {At(p) : p \in Nat}
             T == {At(p)' : p \in Nat}
  <2>6. File \in Seq(S) /\ File' \in Seq(T) /\ Len(File) = Len(File')
    BY <2>2, <2>3, <2>4
  <2> HIDE DEF S, T
  <2> QED
    BY <2>5, <2>6, SameSeq
<1>4. MarkedInv'
  <2>1. got' = <<>> /\ fil' = fil /\ call' = call
    BY <1>1
  <2> QED
    BY <2>1 DEF MarkedInv
<1>5. CASE fil.err
  <2>1. got' = got
    BY <1>1, <1>5 DEF MarkedInv
  <2> QED
    BY <1>1, <1>3, <1>4, <2>1 DEF bytes
<1>6. CASE ~fil.err
  <2>1. fil.fptr \in Nat /\ fil.fptr <= fil.objsize
    BY <1>6, HereIs, Types DEF Sound, MarkedInv
  <2>2. fil'.fptr \in 0 .. Len(File)
    BY <1>1, <2>1, Types, FileIs
  <2>3. Bytes!Move
    BY <1>1, <1>3, <2>2 DEF Bytes!Move, File
  <2> QED
    BY <1>4, <1>6, <2>3 DEF Bytes!Next
<1> QED
  BY <1>5, <1>6

----------------------------------------------------------------------------
(* f_read.                                                                 *)

LEMMA OffsetIs ==
  ASSUME NEW p \in Nat, p % SS = 0, NEW c \in Nat \ {0}, c <= CSIZE - ((p \div SS) % CSIZE),
         NEW d \in 0 .. c * SS - 1
  PROVE  /\ (p + d) \div BCS = p \div BCS
         /\ ((p + d) \div SS) % CSIZE = ((p \div SS) % CSIZE) + (d \div SS)
         /\ (p + d) % SS = d % SS
<1> DEFINE t == p \div SS
           j == t % CSIZE
           k == p \div BCS
           q == p + d
           i == d \div SS
           e == d % SS
<1>1. p = SS * t + (p % SS) /\ t \in Nat /\ j \in 0 .. CSIZE - 1
  BY SectorParts
<1>2. t = CSIZE * k + j /\ k \in Nat
  BY ClusterOf
<1>3. c * SS \in Nat \ {0}
  BY BCSIs, SMTT(30)
<1>4. d \in Nat /\ d < c * SS /\ q \in Nat /\ q = p + d
  BY <1>3
<1>5. i \in Nat /\ e \in 0 .. SS - 1 /\ d = SS * i + e
  BY <1>4, DivParts, BCSIs
<1>6. c <= CSIZE - j /\ p % SS = 0 /\ p \div SS = t /\ p \div BCS = k /\ (p \div SS) % CSIZE = j
      /\ d \div SS = i /\ d % SS = e /\ p + d = q
  OBVIOUS
<1> HIDE DEF t, j, k, q, i, e
<1>7. i < c
  BY <1>4, <1>5, BCSIs, SMTT(30)
<1> DEFINE u == t + i
<1>8. q = SS * u + e /\ u \in Nat
  <2>1. SS * (t + i) = SS * t + SS * i /\ SS * t \in Nat /\ SS * i \in Nat /\ t + i \in Nat
    BY <1>1, <1>5, BCSIs, SMTT(30)
  <2>2. p = SS * t
    BY <1>1, <1>6, <2>1
  <2> QED
    BY <1>4, <1>5, <2>1, <2>2, BCSIs
<1> HIDE DEF u
<1>9. q \div SS = u /\ q % SS = e
  BY <1>4, <1>5, <1>8, BCSIs, DivUnique
<1> DEFINE f == j + i
<1>10. u = CSIZE * k + f /\ f \in 0 .. CSIZE - 1
  <2>1. CSIZE * k \in Nat
    BY <1>2, BCSIs, SMTT(30)
  <2> QED
    BY <1>1, <1>2, <1>5, <1>6, <1>7, <2>1, BCSIs DEF u
<1> HIDE DEF f
<1>11. u \div CSIZE = k /\ u % CSIZE = f
  BY <1>2, <1>8, <1>10, BCSIs, DivUnique
<1>12. q \div BCS = k
  BY <1>4, <1>9, <1>11, ClusterOf
<1> QED
  BY <1>6, <1>9, <1>11, <1>12 DEF f

LEMMA OffsetInSector ==
  ASSUME NEW p \in Nat, NEW d \in Nat, (p % SS) + d < SS
  PROVE  /\ (p + d) \div BCS = p \div BCS
         /\ (p + d) \div SS = p \div SS
         /\ (p + d) % SS = (p % SS) + d
<1> DEFINE t == p \div SS
           r == p % SS
           q == p + d
<1>1. p = SS * t + r /\ t \in Nat /\ r \in 0 .. SS - 1
  BY SectorParts
<1>2. p \div SS = t /\ p % SS = r /\ p + d = q /\ r + d < SS /\ q \in Nat
  OBVIOUS
<1> HIDE DEF t, r
<1>3. SS * t \in Nat
  BY <1>1, BCSIs, SMTT(30)
<1> DEFINE x == r + d
<1>4. q = SS * t + x /\ x \in 0 .. SS - 1
  BY <1>1, <1>2, <1>3, BCSIs
<1> HIDE DEF x, q
<1>5. q \div SS = t /\ q % SS = x
  BY <1>1, <1>2, <1>4, BCSIs, DivUnique
<1>6. q \div BCS = t \div CSIZE /\ p \div BCS = t \div CSIZE
  BY <1>2, <1>5, ClusterOf
<1> QED
  BY <1>2, <1>5, <1>6 DEF x

LEMMA GetIs ==
  ASSUME IInv, IInv', MarkedInv, Untouched, call.op = "read", fil'.open, ~fil.err,
         fil'.err = fil.err, fil'.objsize = fil.objsize,
         fil'.dirty => fil.dirty, fil'.modified = fil.modified,
         NEW n \in Nat \ {0}, fil'.fptr = fil.fptr + n, fil.fptr + n <= fil.objsize,
         Len(got') = n, \A i \in 1 .. n : At(fil.fptr + (i - 1)) \in {got'[i], Unknown}
  PROVE  MarkedInv' /\ [Bytes!Next]_bytes
<1>1. MarkedInv'
  BY Types DEF MarkedInv
<1>2. fil.fptr \in Nat /\ fil.objsize \in Nat
  BY Types
<1>3. Len(File) = fil.objsize /\ File' = File
  BY <1>2, FileIs, UntouchedIs
<1>4. fil'.fptr - fil.fptr = n /\ fil'.fptr > fil.fptr /\ fil'.fptr <= Len(File)
  BY <1>2, <1>3
<1>5. ASSUME NEW i \in 1 .. n
      PROVE  File[fil.fptr + i] \in {got'[i], Unknown}
  <2>1. fil.fptr + i \in 1 .. fil.objsize /\ fil.fptr + i - 1 = fil.fptr + (i - 1)
    BY <1>2
  <2> DEFINE j == fil.fptr + i
  <2>2. j - 1 = fil.fptr + (i - 1) /\ j \in 1 .. fil.objsize
    BY <1>2, <2>1
  <2>3. At(j - 1) \in {got'[i], Unknown}
    BY <2>2
  <2> HIDE DEF j
  <2>4. File[j] = At(j - 1)
    BY <2>2, FileIs
  <2>5. File[j] \in {got'[i], Unknown}
    BY <2>3, <2>4
  <2> QED
    BY <2>5 DEF j
<1>6. Bytes!Get
  BY <1>3, <1>4, <1>5 DEF Bytes!Get, File
<1> QED
  BY <1>1, <1>6 DEF Bytes!Next

LEMMA ReadDirectBytes ==
  ASSUME IInv, IInv', MarkedInv, read_direct
  PROVE  MarkedInv' /\ [Bytes!Next]_bytes
<1> DEFINE n == cc * SS
           c == ReadClust
           Source(s) == IF fil.dirty /\ fil.sect = s THEN fil.buf ELSE medium[s]
<1>1. /\ call.op = "read" /\ AtSector /\ cc > 0
      /\ got' = [i \in 1 .. n |-> Source(<<c, csect + (i - 1) \div SS>>)[(i - 1) % SS]]
      /\ fil' = [fil EXCEPT !.clust = c, !.fptr = @ + n]
      /\ medium' = medium /\ chain' = chain /\ others' = others /\ lost' = lost /\ known' = known
  BY DEF read_direct, hist
<1>2. Sound /\ fil.fptr < fil.objsize /\ fil.fptr + call.rem <= fil.objsize /\ fil.open /\ fil.err = FALSE
  BY <1>1, InCall
<1>3. n \in Nat \ {0} /\ n <= call.rem /\ cc \in Nat \ {0} /\ cc <= CSIZE - csect
  BY <1>1, DirectIs
<1>4. c = chain[fil.fptr \div BCS + 1]
  BY <1>2, ReadClustIs
<1>5. ASSUME NEW i \in 1 .. n
      PROVE  At(fil.fptr + (i - 1)) \in {got'[i], Unknown}
  <2> DEFINE p == fil.fptr + (i - 1)
  <2>0. got'[i] = Source(<<c, csect + (i - 1) \div SS>>)[(i - 1) % SS]
    BY <1>1
  <2>1. i - 1 \in 0 .. cc * SS - 1 /\ fil.fptr \in Nat
    BY <1>3, Types
  <2>2. p \div BCS = fil.fptr \div BCS /\ (p \div SS) % CSIZE = csect + ((i - 1) \div SS)
        /\ p % SS = (i - 1) % SS
    BY <1>1, <1>3, <2>1, OffsetIs DEF AtSector, csect
  <2>3. SectorOf(p) = <<c, csect + ((i - 1) \div SS)>>
    BY <1>4, <2>2 DEF SectorOf, clust2sect
  <2>4. ASSUME p \in known
        PROVE  Content[p] = got'[i]
    <3>1. Content[p] = Source(SectorOf(p))[p % SS]
      BY <2>4, ContentIs
    <3> QED
      BY <2>0, <2>2, <2>3, <3>1
  <2> QED
    BY <2>4 DEF At
<1>6. Len(got') = n
  <2> DEFINE g(i) == Source(<<c, csect + (i - 1) \div SS>>)[(i - 1) % SS]
  <2>1. got' = [i \in 1 .. n |-> g(i)]
    BY <1>1
  <2> HIDE DEF n, g
  <2> QED
    BY <1>3, <2>1
<1> HIDE DEF n, c, Source
<1>7. /\ fil'.open = fil.open /\ fil'.objsize = fil.objsize /\ fil'.err = fil.err
      /\ fil'.sect = fil.sect /\ fil'.buf = fil.buf /\ fil'.dirty = fil.dirty
      /\ fil'.fptr = fil.fptr + n /\ fil'.modified = fil.modified
  BY <1>1, Types DEF FilRec
<1>8. Untouched
  BY <1>1, <1>7, SameFile
<1>9. fil.fptr + n <= fil.objsize
  BY <1>2, <1>3, Types
<1> QED
  BY <1>1, <1>2, <1>3, <1>5, <1>6, <1>7, <1>8, <1>9, GetIs

LEMMA ReadPartBytes ==
  ASSUME IInv, IInv', MarkedInv, read_part
  PROVE  MarkedInv' /\ [Bytes!Next]_bytes
<1> DEFINE c == ReadClust
           sect == <<c, csect>>
           load == AtSector /\ fil.sect # sect
           buf == IF load THEN Flushed[sect] ELSE fil.buf
           to == IF AtSector THEN sect ELSE fil.sect
           dirty == fil.dirty /\ ~load
           n == Lesser(SS - (fil.fptr % SS), call.rem)
<1>1. /\ call.op = "read"
      /\ medium' = (IF load THEN Flushed ELSE medium)
      /\ got' = [i \in 1 .. n |-> buf[(fil.fptr % SS) + i - 1]]
      /\ fil' = [fil EXCEPT !.clust = c, !.fptr = @ + n, !.buf = buf, !.sect = to, !.dirty = dirty]
      /\ chain' = chain /\ others' = others /\ lost' = lost /\ known' = known
  BY DEF read_part, hist
<1>2. Sound /\ fil.fptr < fil.objsize /\ fil.fptr + call.rem <= fil.objsize /\ fil.open /\ fil.err = FALSE
  BY <1>1, InCall
<1>3. n \in Nat \ {0} /\ n <= call.rem /\ n <= SS - (fil.fptr % SS) /\ fil.fptr % SS \in 0 .. SS - 1
  BY <1>1, PartIs
<1>4. c = chain[fil.fptr \div BCS + 1]
  BY <1>2, ReadClustIs
<1>5. sect = SectorOf(fil.fptr)
  BY <1>4, NextSector DEF SectorOf
<1>6. ~AtSector => fil.sect = sect
  BY <1>2, <1>5, Types DEF PlaceInv, AtSector
<1>7. ASSUME NEW i \in 1 .. n
      PROVE  At(fil.fptr + (i - 1)) \in {got'[i], Unknown}
  <2> DEFINE p == fil.fptr + (i - 1)
             r == fil.fptr % SS
  <2>0. got'[i] = buf[r + i - 1]
    BY <1>1
  <2>1. i - 1 \in Nat /\ r + (i - 1) < SS /\ fil.fptr \in Nat /\ r + i - 1 = r + (i - 1)
    <3> HIDE DEF n, r
    <3>1. n \in Nat \ {0} /\ n <= SS - r /\ r \in 0 .. SS - 1
      BY <1>3 DEF r
    <3> QED
      BY <3>1, Types, BCSIs
  <2>2. p \div BCS = fil.fptr \div BCS /\ p \div SS = fil.fptr \div SS /\ p % SS = r + (i - 1)
    BY <2>1, OffsetInSector
  <2>3. SectorOf(p) = sect
    BY <1>5, <2>2 DEF SectorOf, clust2sect
  <2>4. ASSUME p \in known
        PROVE  Content[p] = got'[i]
    <3>1. Content[p] = Flushed[sect][p % SS] /\ (fil.sect = sect => Content[p] = fil.buf[p % SS])
      BY <2>3, <2>4, ContentOf
    <3>2. CASE load
      BY <2>0, <2>1, <2>2, <3>1, <3>2
    <3>3. CASE ~load
      BY <1>6, <2>0, <2>1, <2>2, <3>1, <3>3
    <3> QED
      BY <3>2, <3>3
  <2> QED
    BY <2>4 DEF At
<1>8. Len(got') = n
  <2> DEFINE g(i) == buf[(fil.fptr % SS) + i - 1]
  <2>1. got' = [i \in 1 .. n |-> g(i)]
    BY <1>1
  <2> HIDE DEF n, g
  <2> QED
    BY <1>3, <2>1
<1>9. dirty \in BOOLEAN /\ (load => dirty = FALSE /\ medium' = Flushed)
      /\ (~load => dirty = fil.dirty /\ buf = fil.buf /\ to = fil.sect /\ medium' = medium)
  BY <1>1, <1>6, Types
<1> HIDE DEF n, c, sect, load, buf, to, dirty
<1>10. /\ fil'.open = fil.open /\ fil'.objsize = fil.objsize /\ fil'.err = fil.err
       /\ fil'.sect = to /\ fil'.buf = buf /\ fil'.dirty = dirty
       /\ fil'.fptr = fil.fptr + n /\ fil'.modified = fil.modified
  BY <1>1, Types DEF FilRec
<1>11. Untouched
  BY <1>1, <1>9, <1>10, Stays DEF Untouched, HalfFlushed
<1>12. fil.fptr + n <= fil.objsize
  BY <1>2, <1>3, Types
<1>13. fil'.dirty => fil.dirty
  BY <1>9, <1>10
<1> QED
  BY <1>1, <1>2, <1>3, <1>7, <1>8, <1>10, <1>11, <1>12, <1>13, GetIs

LEMMA ReadErrorBytes ==
  ASSUME IInv, IInv', MarkedInv, read_error
  PROVE  MarkedInv' /\ [Bytes!Next]_bytes
<1>1. /\ call.op = "read" /\ got' = <<>>
      /\ chain' = chain /\ others' = others /\ lost' = lost /\ known' = known
      /\ \/ fil' = [fil EXCEPT !.err = TRUE] /\ medium' = medium
         \/ medium' \in HalfFlushed /\ fil' = [fil EXCEPT !.clust = ReadClust, !.err = TRUE]
         \/ medium' = Flushed /\ fil' = [fil EXCEPT !.clust = ReadClust, !.err = TRUE, !.dirty = FALSE]
  BY DEF read_error, hist
<1>2. fil.open /\ fil.err = FALSE
  BY <1>1, InCall
<1>3. /\ fil'.objsize = fil.objsize /\ fil'.err /\ fil'.open = fil.open /\ fil'.modified = fil.modified
      /\ fil'.sect = fil.sect /\ fil'.buf = fil.buf
      /\ \/ fil'.dirty = fil.dirty /\ medium' \in HalfFlushed
         \/ fil'.dirty = FALSE /\ medium' = Flushed
  BY <1>1, Types DEF FilRec, HalfFlushed
<1>4. Untouched
  BY <1>1, <1>3, Stays DEF Untouched, HalfFlushed
<1>5. Bytes!Next
  BY <1>1, <1>2, <1>3, <1>4, Types, FailIs
<1>6. MarkedInv'
  BY <1>1, <1>2, <1>3 DEF MarkedInv
<1> QED
  BY <1>5, <1>6

----------------------------------------------------------------------------
(* f_write.                                                                *)

LEMMA WriteDirectBytes ==
  ASSUME IInv, IInv', MarkedInv, write_direct
  PROVE  MarkedInv' /\ [Bytes!Next]_bytes
<1> DEFINE n == cc * SS
           S(r) == {<<r.clust, csect + i>> : i \in 0 .. cc - 1}
<1>1. PICK r \in Targets :
        /\ AtSector /\ cc > 0
        /\ medium' = [s \in Sector |-> IF s \in S(r) THEN All(calls) ELSE Flushed[s]]
        /\ fil' = [Written(r.clust, n) EXCEPT
                     !.dirty = FALSE, !.buf = IF fil.sect \in S(r) THEN All(calls) ELSE @]
        /\ chain' = r.chain /\ known' = known \cup Ahead(n)
        /\ others' = others /\ lost' = lost /\ got' = <<>>
  BY DEF write_direct, Note
<1>2. call.op = "write" /\ Sound /\ calls > 0 /\ fil.err = FALSE
  BY <1>1, InCall DEF Targets
<1>3. n \in Nat \ {0}
  BY <1>1, DirectIs
<1> DEFINE T == S(r)
<1>4. /\ T \subseteq Sector
      /\ \A q \in Nat : q < fil.objsize /\ SectorOf(q)' \in T => q \in Ahead(n)
      /\ \A q \in Ahead(n) : SectorOf(q)' \in T
  BY <1>1, <1>2, DirectBytes
<1>5. \A p \in Nat : p < fil.objsize => SectorOf(p)' = SectorOf(p)
  BY <1>1, <1>2, Types, TargetIs, Longer
<1>6. fil.fptr \in Nat /\ fil.fptr <= fil.objsize
  BY <1>2, HereIs
<1> HIDE DEF S
<1>7. medium' = [s \in Sector |-> IF s \in T THEN All(calls) ELSE Flushed[s]]
  BY <1>1
<1> HIDE DEF T
<1>8. calls \in Byte
  BY <1>2, Types DEF Byte
<1>9. fil'.dirty = FALSE /\ fil'.fptr = fil.fptr + n /\ fil'.err = fil.err /\ fil'.open = fil.open
      /\ fil'.objsize = Larger(fil.objsize, fil.fptr + n)
  <2> DEFINE buf == IF fil.sect \in S(r) THEN All(calls) ELSE Written(r.clust, n).buf
             f == Written(r.clust, n)
  <2>1. f.fptr = fil.fptr + n /\ f.err = fil.err /\ f.open = fil.open
        /\ f.objsize = Larger(fil.objsize, fil.fptr + n)
        /\ DOMAIN f = DOMAIN fil
    BY Types DEF Written, FilRec
  <2>2. fil' = [f EXCEPT !.dirty = FALSE, !.buf = buf]
    BY <1>1
  <2>3. DOMAIN fil = {"open", "write", "fptr", "objsize", "clust", "sect", "buf", "dirty", "modified", "err", "cltbl"}
    BY Types DEF FilRec
  <2> HIDE DEF f, buf, n
  <2> QED
    BY <2>1, <2>2, <2>3
<1>10. \A q \in Nat : q \in fil.fptr .. fil.fptr + n - 1 /\ q < fil'.objsize => At(q)' = calls
  <2> SUFFICES ASSUME NEW q \in Nat, q \in fil.fptr .. fil.fptr + n - 1
               PROVE  At(q)' = calls
    OBVIOUS
  <2>1. q \in Ahead(n) /\ q \in known'
    BY <1>1 DEF Ahead
  <2>2. SectorOf(q)' \in T /\ SectorOf(q)' \in Sector
    BY <1>4, <2>1
  <2>3. q % SS \in 0 .. SS - 1
    BY SectorParts
  <2>4. Content'[q] = medium'[SectorOf(q)'][q % SS]
    BY <1>9, <2>1, NewContentIs
  <2>5. medium'[SectorOf(q)'] = All(calls)
    BY <1>7, <2>2
  <2>6. Content'[q] = calls
    BY <2>3, <2>4, <2>5 DEF All
  <2> QED
    BY <2>1, <2>6 DEF At
<1>11. \A q \in Nat : q \notin fil.fptr .. fil.fptr + n - 1 /\ q < fil.objsize => At(q)' = At(q)
  <2> SUFFICES ASSUME NEW q \in Nat, q \notin fil.fptr .. fil.fptr + n - 1, q < fil.objsize
               PROVE  At(q)' = At(q)
    OBVIOUS
  <2>1. q \notin Ahead(n) /\ SectorOf(q)' \notin T /\ SectorOf(q)' = SectorOf(q)
    BY <1>4, <1>5 DEF Ahead
  <2>2. q \in known' <=> q \in known
    BY <1>1, <2>1
  <2>3. ASSUME q \in known
        PROVE  Content'[q] = Content[q]
    <3>1. SectorOf(q) \in Sector
      BY <2>3, Types, KnownIn
    <3>2. Content'[q] = medium'[SectorOf(q)][q % SS]
      BY <1>9, <2>1, <2>2, <2>3, NewContentIs
    <3>3. medium'[SectorOf(q)] = Flushed[SectorOf(q)]
      BY <1>7, <2>1, <3>1
    <3> QED
      BY <2>3, <3>2, <3>3, ContentOf
  <2> QED
    BY <2>2, <2>3 DEF At
<1>12. MarkedInv'
  BY <1>1, <1>2, <1>9 DEF MarkedInv, Sound
<1> HIDE DEF n
<1>13. Bytes!Put
  BY <1>1, <1>3, <1>6, <1>8, <1>9, <1>10, <1>11, PutIs
<1>14. ~fil.err
  BY <1>2
<1> QED
  BY <1>12, <1>13, <1>14 DEF Bytes!Next

LEMMA WritePartBytes ==
  ASSUME IInv, IInv', MarkedInv, write_part
  PROVE  MarkedInv' /\ [Bytes!Next]_bytes
<1> DEFINE ofs == fil.fptr % SS
           n == Lesser(SS - ofs, call.rem)
           S(r) == IF AtSector THEN <<r.clust, csect>> ELSE fil.sect
           B(r) == [i \in 0 .. SS - 1 |-> IF i \in ofs .. ofs + n - 1 THEN calls ELSE Filled(S(r))[i]]
<1>1. PICK r \in Targets :
        /\ medium' = IF AtSector THEN Flushed ELSE medium
        /\ fil' = [Written(r.clust, n) EXCEPT !.sect = S(r), !.dirty = TRUE, !.buf = B(r)]
        /\ chain' = r.chain /\ call' = Rest(n) /\ known' = known \cup Ahead(n)
        /\ others' = others /\ lost' = lost /\ got' = <<>>
  BY DEF write_part, Note
<1>2. call.op = "write" /\ Sound /\ calls > 0 /\ fil.err = FALSE /\ fil.open
  BY <1>1, InCall DEF Targets
<1> DEFINE sect == S(r)
           buf == B(r)
<1>3. /\ n \in Nat \ {0} /\ n <= call.rem /\ ofs \in 0 .. SS - 1 /\ n <= SS - ofs
  BY <1>2, PartIs
<1>4. /\ sect \in Sector
      /\ sect = clust2sect(chain'[fil.fptr \div BCS + 1], fil.fptr)
      /\ \A q \in Nat : q < fil.objsize /\ SectorOf(q) = sect => q \div SS = fil.fptr \div SS
  BY <1>1, <1>2, PartBytes
<1>5. \A p \in Nat : p < fil.objsize => SectorOf(p)' = SectorOf(p)
  BY <1>1, <1>2, Types, TargetIs, Longer
<1>6. fil.fptr \in Nat /\ fil.fptr <= fil.objsize /\ fil.objsize \in Nat
  BY <1>2, HereIs
<1>7. ~AtSector => sect = fil.sect
  OBVIOUS
<1> HIDE DEF S
<1>8. buf = [i \in 0 .. SS - 1 |-> IF i \in ofs .. ofs + n - 1 THEN calls ELSE Filled(sect)[i]]
  OBVIOUS
<1> HIDE DEF B, sect
<1>9. calls \in Byte
  BY <1>2, Types DEF Byte
<1>10. /\ fil'.dirty = TRUE /\ fil'.fptr = fil.fptr + n /\ fil'.err = fil.err /\ fil'.open = fil.open
       /\ fil'.objsize = Larger(fil.objsize, fil.fptr + n) /\ fil'.sect = sect /\ fil'.buf = buf
       /\ fil'.modified = (fil.modified \/ call.rem = n)
  <2> DEFINE f == Written(r.clust, n)
  <2>1. f.fptr = fil.fptr + n /\ f.err = fil.err /\ f.open = fil.open
        /\ f.objsize = Larger(fil.objsize, fil.fptr + n)
        /\ f.modified = (fil.modified \/ call.rem = n)
        /\ DOMAIN f = DOMAIN fil
    BY Types DEF Written, FilRec
  <2>2. fil' = [f EXCEPT !.sect = sect, !.dirty = TRUE, !.buf = buf]
    BY <1>1 DEF sect
  <2>3. DOMAIN fil = {"open", "write", "fptr", "objsize", "clust", "sect", "buf", "dirty", "modified", "err", "cltbl"}
    BY Types DEF FilRec
  <2> HIDE DEF f, buf, n
  <2> QED
    BY <2>1, <2>2, <2>3
<1> HIDE DEF buf
<1>11. \A q \in Nat : q \in fil.fptr .. fil.fptr + n - 1 /\ q < fil'.objsize => At(q)' = calls
  <2> SUFFICES ASSUME NEW q \in Nat, q \in fil.fptr .. fil.fptr + n - 1
               PROVE  At(q)' = calls
    OBVIOUS
  <2>1. q \in Ahead(n) /\ q \in known'
    BY <1>1 DEF Ahead
  <2> DEFINE d == q - fil.fptr
  <2>2. d \in 0 .. n - 1 /\ fil.fptr + d = q /\ (fil.fptr % SS) + d < SS
    <3> HIDE DEF n, ofs
    <3>1. n \in Nat /\ ofs \in 0 .. SS - 1 /\ n <= SS - ofs /\ fil.fptr % SS = ofs
      BY <1>3 DEF ofs
    <3> QED
      BY <1>6, <3>1, BCSIs
  <2>3. d \in Nat
    BY <1>3, <2>2
  <2> HIDE DEF d
  <2>4. q \div BCS = fil.fptr \div BCS /\ q \div SS = fil.fptr \div SS /\ q % SS = ofs + d
    BY <1>6, <2>2, <2>3, OffsetInSector
  <2>5. SectorOf(q)' = sect
    BY <1>4, <2>4 DEF SectorOf, clust2sect, BCS
  <2>6. Content'[q] = buf[q % SS]
    BY <1>10, <2>1, <2>5, NewContentIs
  <2>7. q % SS \in 0 .. SS - 1 /\ q % SS \in ofs .. ofs + n - 1
    <3>1. q % SS \in 0 .. SS - 1
      BY SectorParts
    <3> HIDE DEF n, ofs
    <3>2. ofs + d \in ofs .. ofs + n - 1
      BY <1>3, <2>2, <2>3
    <3> QED
      BY <2>4, <3>1, <3>2
  <2>8. buf[q % SS] = calls
    BY <1>8, <2>7
  <2> QED
    BY <2>1, <2>6, <2>8 DEF At
<1>12. \A q \in Nat : q \notin fil.fptr .. fil.fptr + n - 1 /\ q < fil.objsize => At(q)' = At(q)
  <2> SUFFICES ASSUME NEW q \in Nat, q \notin fil.fptr .. fil.fptr + n - 1, q < fil.objsize
               PROVE  At(q)' = At(q)
    OBVIOUS
  <2>1. q \notin Ahead(n) /\ SectorOf(q)' = SectorOf(q)
    BY <1>5 DEF Ahead
  <2>2. q \in known' <=> q \in known
    BY <1>1, <2>1
  <2>3. ASSUME q \in known
        PROVE  Content'[q] = Content[q]
    <3>1. SectorOf(q) \in Sector
      BY <2>3, Types, KnownIn
    <3>2. Content'[q] = IF SectorOf(q) = sect THEN buf[q % SS] ELSE medium'[SectorOf(q)][q % SS]
      BY <1>10, <2>1, <2>2, <2>3, NewContentIs
    <3>3. Content[q] = Flushed[SectorOf(q)][q % SS] /\ (fil.sect = SectorOf(q) => Content[q] = fil.buf[q % SS])
      BY <2>3, ContentOf
    <3>4. CASE SectorOf(q) = sect
      <4>1. q \div SS = fil.fptr \div SS
        BY <1>4, <3>4
      <4>2. q % SS \notin ofs .. ofs + n - 1
        <5> DEFINE f == fil.fptr
        <5>1. f \in Nat /\ n \in Nat /\ q \div SS = f \div SS /\ ofs = f % SS /\ q \notin f .. f + n - 1
          BY <1>3, <1>6, <4>1
        <5> HIDE DEF f, n, ofs
        <5> QED
          BY <5>1, BytesOfPart
      <4>3. q % SS \in 0 .. SS - 1
        BY SectorParts
      <4>4. buf[q % SS] = Filled(sect)[q % SS]
        BY <1>8, <4>2, <4>3
      <4>5. Filled(sect)[q % SS] = Content[q]
        <5>1. CASE fil.sect = sect
          BY <3>3, <3>4, <5>1 DEF Filled
        <5>2. CASE fil.sect # sect
          <6>1. AtSector
            BY <1>7, <5>2
          <6>2. fil.fptr < fil.objsize
            <7> SUFFICES ASSUME fil.fptr = fil.objsize
                         PROVE  FALSE
              BY <1>6
            <7>1. fil.fptr = SS * (fil.fptr \div SS) + (fil.fptr % SS) /\ fil.fptr % SS = 0
              BY <1>6, <6>1, SectorParts DEF AtSector
            <7>2. q = SS * (q \div SS) + (q % SS)
              BY SectorParts
            <7> DEFINE u == SS * (fil.fptr \div SS)
            <7>3. fil.fptr = u + 0 /\ q = u + (q % SS)
              BY <4>1, <7>1, <7>2
            <7>4. u \in Int
              BY <1>6, BCSIs, DivParts, SMTT(30)
            <7> HIDE DEF u
            <7>5. q >= fil.fptr
              BY <4>3, <7>3, <7>4, BCSIs
            <7> QED
              BY <1>6, <7>5
          <6>3. Filled(sect) = Flushed[sect]
            BY <5>2, <6>1, <6>2 DEF Filled
          <6> QED
            BY <3>3, <3>4, <6>3
        <5> QED
          BY <5>1, <5>2
      <4> QED
        BY <3>2, <3>4, <4>4, <4>5
    <3>5. CASE SectorOf(q) # sect
      <4>1. Content'[q] = medium'[SectorOf(q)][q % SS]
        BY <3>2, <3>5
      <4>2. medium'[SectorOf(q)] = Flushed[SectorOf(q)]
        <5>1. CASE AtSector
          BY <1>1, <5>1
        <5>2. CASE ~AtSector
          <6>1. Flushed[SectorOf(q)] = medium[SectorOf(q)]
            BY <1>7, <3>1, <3>5, <5>2, Types, FlushedIs
          <6> QED
            BY <1>1, <5>2, <6>1
        <5> QED
          BY <5>1, <5>2
      <4> QED
        BY <3>3, <4>1, <4>2
    <3> QED
      BY <3>4, <3>5
  <2> QED
    BY <2>2, <2>3 DEF At
<1>13. MarkedInv'
  <2>1. fil'.err = FALSE /\ fil'.open
    BY <1>2, <1>10
  <2>2. call.rem # n => call'.op = "write"
    BY <1>1, <1>2, Types DEF Rest, CallRec
  <2> HIDE DEF n
  <2> QED
    BY <1>1, <1>10, <2>1, <2>2 DEF MarkedInv
<1> HIDE DEF n, ofs
<1>14. Bytes!Put
  BY <1>1, <1>3, <1>6, <1>9, <1>10, <1>11, <1>12, PutIs
<1> QED
  BY <1>2, <1>13, <1>14 DEF Bytes!Next

LEMMA NothingPatched ==
  ASSUME IInv, fil.fptr <= fil.objsize, NEW b
  PROVE  Patched(File, fil.fptr, 0, b) = File
<1>1. fil.fptr \in Nat /\ fil.objsize \in Nat
  BY Types
<1>2. Len(File) = fil.objsize /\ File \in Seq({At(q) : q \in Nat})
  BY FileIs
<1> DEFINE w == Patched(File, fil.fptr, 0, b)
<1>3. w = Patched(File, fil.fptr, 0, b)
  OBVIOUS
<1> HIDE DEF w
<1>4. /\ w \in Seq({At(q) : q \in Nat} \cup {b})
      /\ Len(w) = IF fil.fptr + 0 <= fil.objsize THEN fil.objsize ELSE fil.fptr + 0
      /\ \A i \in 1 .. Len(w) : w[i] = IF i \in fil.fptr + 1 .. fil.fptr + 0 THEN b ELSE File[i]
  BY <1>3, PatchOfFile
<1>5. Len(w) = Len(File) /\ \A i \in 1 .. Len(w) : w[i] = File[i]
  BY <1>1, <1>2, <1>4
<1>6. w = File
  BY <1>2, <1>4, <1>5, SameSeq
<1> QED
  BY <1>3, <1>6

\* A call that fails when nothing is known any more of the m bytes at the
\* position.
LEMMA SpoiledIs ==
  ASSUME IInv, IInv', ~fil.err, fil'.err, got' = <<>>, fil'.objsize = fil.objsize,
         NEW m \in Nat, fil.fptr + m <= fil.objsize,
         \A q \in Nat : q \in fil.fptr .. fil.fptr + m - 1 => At(q)' = Unknown,
         \A q \in Nat : q \notin fil.fptr .. fil.fptr + m - 1 /\ q < fil.objsize => At(q)' = At(q)
  PROVE  Bytes!Next
<1>1. fil.fptr \in Nat /\ fil.objsize \in Nat /\ fil.fptr <= fil.objsize
  BY Types
<1>2. fil'.objsize = Larger(fil.objsize, fil.fptr + m)
  BY <1>1 DEF Larger
<1>3. File' = Patched(File, fil.fptr, m, Unknown)
  BY <1>1, <1>2, FilePatched
<1>4. Len(File) = fil.objsize
  BY FileIs
<1>5. fil'.err = TRUE
  BY Types DEF IInv, TypeInv, FilRec
<1>6. CASE m = 0
  <2>5. File' = File
    BY <1>1, <1>3, <1>6, NothingPatched
  <2>6. Bytes!Fail
    BY <1>5, <2>5 DEF Bytes!Fail, File
  <2> QED
    BY <2>6 DEF Bytes!Next
<1>7. CASE m # 0
  <2>1. m \in 1 .. Len(File) - fil.fptr
    BY <1>1, <1>4, <1>7
  <2>2. Bytes!Fail
    BY <1>3, <1>5, <2>1 DEF Bytes!Fail, Bytes!Overwritten, Bytes!Before, Bytes!After, Patched, File
  <2> QED
    BY <2>2 DEF Bytes!Next
<1> QED
  BY <1>6, <1>7

LEMMA WriteHalfBytes ==
  ASSUME IInv, IInv', MarkedInv, call.op = "write", AtSector, got' = <<>>, cc > 0,
         others' = others, lost' = lost,
         NEW r \in Targets, chain' = r.chain, NEW k \in 0 .. cc - 1,
         medium' = [s \in Sector |->
                      IF s \in {<<r.clust, csect + i>> : i \in 0 .. k - 1}
                      THEN All(calls) ELSE Flushed[s]],
         fil' = [fil EXCEPT !.clust = r.clust, !.err = TRUE, !.dirty = FALSE],
         known' = known \ Ahead(cc * SS)
  PROVE  MarkedInv' /\ [Bytes!Next]_bytes
<1> DEFINE n == cc * SS
           S(h) == {<<r.clust, csect + i>> : i \in 0 .. h - 1}
           W == S(cc)
           T == S(k)
           m == Lesser(n, fil.objsize - fil.fptr)
<1>1. Sound /\ fil.err = FALSE
  BY InCall
<1>2. n \in Nat /\ cc \in Nat
  BY DirectIs
<1>3. fil.fptr \in Nat /\ fil.objsize \in Nat /\ fil.fptr <= fil.objsize
  BY <1>1, HereIs, Types
<1>4. /\ W \subseteq Sector
      /\ \A q \in Nat : q < fil.objsize /\ SectorOf(q)' \in W => q \in Ahead(n)
  BY <1>1, DirectBytes
<1>5. T \subseteq W
  <2>1. 0 .. k - 1 \subseteq 0 .. cc - 1
    BY <1>2
  <2> QED
    BY <2>1
<1>6. \A p \in Nat : p < fil.objsize => SectorOf(p)' = SectorOf(p)
  BY <1>1, Types, TargetIs, Longer
<1>7. /\ fil'.objsize = fil.objsize /\ fil'.err /\ fil'.dirty = FALSE /\ fil'.open = fil.open
  BY Types DEF FilRec
<1>8. medium' = [s \in Sector |-> IF s \in T THEN All(calls) ELSE Flushed[s]]
  OBVIOUS
<1>9. MarkedInv'
  BY <1>1, <1>7 DEF MarkedInv, Sound
<1> HIDE DEF S, T, W
<1>14. known' = known \ Ahead(n)
  OBVIOUS
<1> HIDE DEF n
<1>10. m \in Nat /\ fil.fptr + m <= fil.objsize /\ m <= n /\ (m < n => fil.fptr + m = fil.objsize)
  BY <1>2, <1>3 DEF Lesser
<1> HIDE DEF m
<1>11. \A q \in Nat : q \in fil.fptr .. fil.fptr + m - 1 => At(q)' = Unknown
  <2> SUFFICES ASSUME NEW q \in Nat, q \in fil.fptr .. fil.fptr + m - 1
               PROVE  At(q)' = Unknown
    OBVIOUS
  <2>1. q \in Ahead(n)
    BY <1>2, <1>3, <1>10 DEF Ahead
  <2> QED
    BY <1>14, <2>1 DEF At
<1>12. \A q \in Nat : q \notin fil.fptr .. fil.fptr + m - 1 /\ q < fil.objsize => At(q)' = At(q)
  <2> SUFFICES ASSUME NEW q \in Nat, q \notin fil.fptr .. fil.fptr + m - 1, q < fil.objsize
               PROVE  At(q)' = At(q)
    OBVIOUS
  <2>1. q \notin Ahead(n)
    <3>1. CASE m < n
      BY <1>3, <1>10, <3>1 DEF Ahead
    <3>2. CASE ~(m < n)
      <4>1. m = n
        BY <1>2, <1>10, <3>2
      <4> QED
        BY <4>1 DEF Ahead
    <3> QED
      BY <3>1, <3>2
  <2>2. q \in known' <=> q \in known
    BY <1>14, <2>1
  <2>3. SectorOf(q)' = SectorOf(q) /\ SectorOf(q) \notin T
    BY <1>4, <1>5, <1>6, <2>1
  <2>4. ASSUME q \in known
        PROVE  Content'[q] = Content[q]
    <3>1. SectorOf(q) \in Sector
      BY <2>4, Types, KnownIn
    <3>2. Content'[q] = medium'[SectorOf(q)][q % SS]
      BY <1>7, <2>2, <2>3, <2>4, NewContentIs
    <3>3. medium'[SectorOf(q)] = Flushed[SectorOf(q)]
      BY <1>8, <2>3, <3>1
    <3> QED
      BY <2>4, <3>2, <3>3, ContentOf
  <2> QED
    BY <2>2, <2>4 DEF At
<1>13. Bytes!Next
  BY <1>1, <1>3, <1>7, <1>10, <1>11, <1>12, SpoiledIs
<1> QED
  BY <1>9, <1>13

LEMMA WriteErrorBytes ==
  ASSUME IInv, IInv', MarkedInv, write_error
  PROVE  MarkedInv' /\ [Bytes!Next]_bytes
<1>1. /\ call.op = "write" /\ AtSector /\ got' = <<>> /\ others' = others /\ lost' = lost
  BY DEF write_error
<1>2. Sound /\ fil.err = FALSE /\ fil.open
  BY <1>1, InCall
<1>3. ASSUME Grown(chain'), known' = known,
             \/ medium' \in HalfFlushed /\ fil' = [fil EXCEPT !.err = TRUE]
             \/ \E c \in Clust : medium' \in HalfFlushed /\ fil' = [fil EXCEPT !.clust = c, !.err = TRUE]
             \/ \E c \in Clust : medium' = Flushed
                                 /\ fil' = [fil EXCEPT !.clust = c, !.err = TRUE, !.dirty = FALSE]
      PROVE  MarkedInv' /\ [Bytes!Next]_bytes
  <2>1. /\ fil'.objsize = fil.objsize /\ fil'.err /\ fil'.open = fil.open
        /\ fil'.sect = fil.sect /\ fil'.buf = fil.buf
        /\ \/ fil'.dirty = fil.dirty /\ medium' \in HalfFlushed
           \/ fil'.dirty = FALSE /\ medium' = Flushed
    <3>1. CASE medium' \in HalfFlushed /\ fil' = [fil EXCEPT !.err = TRUE]
      BY <3>1, Types DEF FilRec
    <3>2. CASE \E c \in Clust : medium' \in HalfFlushed /\ fil' = [fil EXCEPT !.clust = c, !.err = TRUE]
      BY <3>2, Types DEF FilRec
    <3>3. CASE \E c \in Clust : medium' = Flushed
                                 /\ fil' = [fil EXCEPT !.clust = c, !.err = TRUE, !.dirty = FALSE]
      BY <3>3, Types DEF FilRec
    <3> QED
      BY <1>3, <3>1, <3>2, <3>3
  <2>2. Untouched
    BY <1>1, <1>3, <2>1 DEF Untouched, HalfFlushed
  <2>3. Bytes!Next
    BY <1>1, <1>2, <2>1, <2>2, Types, FailIs
  <2>4. MarkedInv'
    BY <1>1, <1>2, <2>1 DEF MarkedInv
  <2> QED
    BY <2>3, <2>4
<1>4. ASSUME NEW r \in Targets, chain' = r.chain
      PROVE  Grown(chain') /\ r.clust \in Clust
  BY <1>1, <1>2, <1>4, Types, TargetIs
<1>5. \/ fil' = [fil EXCEPT !.err = TRUE] /\ medium' = medium /\ chain' = chain /\ known' = known
      \/ \E r \in Targets :
           /\ chain' = r.chain
           /\ \/ /\ medium' \in HalfFlushed /\ known' = known
                 /\ fil' = [fil EXCEPT !.clust = r.clust, !.err = TRUE]
              \/ /\ cc > 0
                 /\ \E k \in 0 .. cc - 1 :
                      medium' = [s \in Sector |->
                                  IF s \in {<<r.clust, csect + i>> : i \in 0 .. k - 1}
                                  THEN All(calls) ELSE Flushed[s]]
                 /\ fil' = [fil EXCEPT !.clust = r.clust, !.err = TRUE, !.dirty = FALSE]
                 /\ known' = known \ Ahead(cc * SS)
              \/ /\ medium' = Flushed /\ known' = known
                 /\ fil' = [fil EXCEPT !.clust = r.clust, !.err = TRUE, !.dirty = FALSE]
  BY DEF write_error
<1>6. CASE fil' = [fil EXCEPT !.err = TRUE] /\ medium' = medium /\ chain' = chain /\ known' = known
  <2>1. Grown(chain') /\ medium' \in HalfFlushed
    BY <1>6, Stays DEF HalfFlushed
  <2> QED
    BY <1>3, <1>6, <2>1
<1>7. ASSUME NEW r \in Targets, chain' = r.chain,
             \/ /\ medium' \in HalfFlushed /\ known' = known
                /\ fil' = [fil EXCEPT !.clust = r.clust, !.err = TRUE]
             \/ /\ medium' = Flushed /\ known' = known
                /\ fil' = [fil EXCEPT !.clust = r.clust, !.err = TRUE, !.dirty = FALSE]
      PROVE  MarkedInv' /\ [Bytes!Next]_bytes
  <2>1. Grown(chain') /\ r.clust \in Clust
    BY <1>4, <1>7
  <2> QED
    BY <1>3, <1>7, <2>1
<1>8. ASSUME NEW r \in Targets, chain' = r.chain, cc > 0, NEW k \in 0 .. cc - 1,
             medium' = [s \in Sector |->
                                  IF s \in {<<r.clust, csect + i>> : i \in 0 .. k - 1}
                                  THEN All(calls) ELSE Flushed[s]],
             fil' = [fil EXCEPT !.clust = r.clust, !.err = TRUE, !.dirty = FALSE],
             known' = known \ Ahead(cc * SS)
      PROVE  MarkedInv' /\ [Bytes!Next]_bytes
  BY <1>1, <1>8, WriteHalfBytes
<1> HIDE DEF IInv, MarkedInv
<1> QED
  BY <1>5, <1>6, <1>7, <1>8

----------------------------------------------------------------------------
(* f_lseek.                                                                *)

LEMMA PositionBytes ==
  ASSUME IInv, IInv', MarkedInv, Usable, Grown(chain'),
         others' = others, lost' = lost, known' = known, got' = <<>>,
         NEW c, NEW ofs \in Nat, Positioned(c, ofs)
  PROVE  MarkedInv' /\ [Bytes!Next]_bytes
<1> DEFINE sect == clust2sect(c, ofs)
           load == ofs % SS # 0 /\ sect # fil.sect
           to == IF load THEN sect ELSE fil.sect
           buf == IF load THEN Flushed[sect] ELSE fil.buf
           dirty == fil.dirty /\ ~load
           size == Larger(fil.objsize, ofs)
           modified == fil.modified \/ ofs > fil.objsize
<1>1. /\ medium' = (IF load THEN Flushed ELSE medium)
      /\ fil' = [fil EXCEPT !.clust = c, !.fptr = ofs, !.objsize = size, !.modified = modified,
                            !.sect = to, !.buf = buf, !.dirty = dirty]
  BY DEF Positioned
<1>2. call.op = "none" /\ fil.open /\ ~fil.err
  BY UsableIs DEF Sound
<1>3. /\ dirty => fil.dirty /\ to = fil.sect /\ buf = fil.buf
      /\ ~dirty /\ fil.dirty => medium' = Flushed
      /\ medium' \in HalfFlushed
  BY <1>1 DEF HalfFlushed
<1>4. fil.modified => modified
  OBVIOUS
<1>5. \/ size = fil.objsize /\ ofs <= fil.objsize
      \/ size > fil.objsize /\ ofs = size
  BY Types DEF Larger
<1> HIDE DEF sect, load, to, buf, dirty, size, modified
<1>6. /\ fil'.open = fil.open /\ fil'.err = fil.err /\ fil'.modified = modified
      /\ fil'.sect = to /\ fil'.buf = buf /\ fil'.dirty = dirty /\ fil'.objsize = size
      /\ fil'.fptr = ofs
  BY <1>1, Types DEF FilRec
<1>7. Untouched
  BY <1>3, <1>6 DEF Untouched
<1>8. Bytes!Next
  BY <1>2, <1>5, <1>6, <1>7, MoveIs
<1>9. MarkedInv'
  BY <1>2, <1>3, <1>4, <1>6 DEF MarkedInv
<1> QED
  BY <1>8, <1>9

LEMMA NotPositionBytes ==
  ASSUME IInv, IInv', MarkedInv, Usable, Grown(chain'),
         others' = others, lost' = lost, known' = known, got' = <<>>,
         NEW c, NEW ofs \in Nat, NotPositioned(c, ofs)
  PROVE  MarkedInv' /\ [Bytes!Next]_bytes
<1> DEFINE size == Larger(fil.objsize, ofs)
           modified == fil.modified \/ ofs > fil.objsize
<1>1. PICK stays \in BOOLEAN :
        /\ stays => fil.dirty
        /\ medium' \in IF stays THEN HalfFlushed ELSE {Flushed}
        /\ fil' = [fil EXCEPT !.clust = c, !.fptr = ofs, !.objsize = size, !.modified = modified,
                              !.err = TRUE, !.dirty = stays]
  BY DEF NotPositioned
<1>2. fil.open /\ ~fil.err
  BY UsableIs DEF Sound
<1>3. fil.objsize <= size
  BY Types DEF Larger
<1> HIDE DEF size, modified
<1>4. /\ fil'.open = fil.open /\ fil'.err = TRUE
      /\ fil'.sect = fil.sect /\ fil'.buf = fil.buf /\ fil'.dirty = stays /\ fil'.objsize = size
  BY <1>1, Types DEF FilRec
<1>5. medium' \in HalfFlushed /\ (~stays => medium' = Flushed)
  BY <1>1 DEF HalfFlushed
<1>6. Untouched
  BY <1>1, <1>4, <1>5 DEF Untouched
<1>7. Bytes!Next
  BY <1>2, <1>3, <1>4, <1>6, FailIs
<1>8. MarkedInv'
  BY <1>2, <1>4 DEF MarkedInv
<1> QED
  BY <1>7, <1>8

LEMMA SeekBytes ==
  ASSUME IInv, IInv', MarkedInv, NEW o \in Offsets, f_lseek(o)
  PROVE  MarkedInv' /\ [Bytes!Next]_bytes
<1> DEFINE ofs == Clipped(o)
<1>1. PICK s \in Stretches(Larger(Upto(ofs) - Len(chain), 0)) :
        /\ chain' = chain \o s
        /\ \E c, x : Positioned(c, x) /\ x \in {ofs, 0, Base(ofs) + (Len(chain \o s) - From(ofs) + 1) * BCS}
  BY DEF f_lseek
<1>2. /\ Usable /\ ofs > 0 /\ others' = others /\ lost' = lost /\ known' = known /\ got' = <<>>
  BY DEF f_lseek, hist
<1>3. Sound /\ TypeInv /\ Len(chain) \in Nat
  BY <1>2, UsableIs, Types
<1>4. ofs \in Nat \ {0}
  BY <1>2, ClippedIs
<1> HIDE DEF ofs
<1>5. Upto(ofs) \in Nat /\ From(ofs) \in Nat
  BY <1>3, <1>4, WalkIs
<1>6. Grown(chain')
  BY <1>1, <1>3, <1>5, StretchGrows
<1>7. PICK c, x : Positioned(c, x) /\ x \in {ofs, 0, Base(ofs) + (Len(chain \o s) - From(ofs) + 1) * BCS}
  BY <1>1
<1>8. x \in Nat
  <2>1. fil'.fptr = x
    BY <1>7, Types DEF Positioned, FilRec
  <2> QED
    BY <2>1 DEF IInv, TypeInv, FilRec
<1> QED
  BY <1>2, <1>6, <1>7, <1>8, PositionBytes

LEMMA SeekErrorBytes ==
  ASSUME IInv, IInv', MarkedInv, NEW o \in Offsets, lseek_error(o)
  PROVE  MarkedInv' /\ [Bytes!Next]_bytes
<1> DEFINE ofs == Clipped(o)
<1>1. \/ \E j \in 0 .. Upto(ofs) - From(ofs) :
           /\ \E s \in Stretches(Larger(From(ofs) + j - 1 - Len(chain), 0)) : chain' = chain \o s
           /\ fil' = [fil EXCEPT !.fptr = Base(ofs) + j * BCS, !.err = TRUE]
           /\ medium' = medium
      \/ \E s \in Stretches(Larger(Upto(ofs) - Len(chain), 0)) :
           /\ chain' = chain \o s
           /\ NotPositioned(chain'[Upto(ofs)], ofs)
  BY DEF lseek_error
<1>2. /\ Usable /\ ofs > 0 /\ others' = others /\ lost' = lost /\ known' = known /\ got' = <<>>
  BY DEF lseek_error, hist
<1>3. Sound /\ TypeInv /\ Len(chain) \in Nat /\ ~fil.err /\ fil.open
  BY <1>2, UsableIs, Types DEF Sound
<1>4. ofs \in Nat \ {0}
  BY <1>2, ClippedIs
<1> HIDE DEF ofs
<1>5. Upto(ofs) \in Nat /\ From(ofs) \in Nat
  BY <1>3, <1>4, WalkIs
<1>6. ASSUME NEW j \in 0 .. Upto(ofs) - From(ofs),
             NEW s \in Stretches(Larger(From(ofs) + j - 1 - Len(chain), 0)), chain' = chain \o s,
             fil' = [fil EXCEPT !.fptr = Base(ofs) + j * BCS, !.err = TRUE], medium' = medium
      PROVE  MarkedInv' /\ [Bytes!Next]_bytes
  <2>1. From(ofs) + j - 1 - Len(chain) \in Int
    BY <1>3, <1>5
  <2>2. Grown(chain')
    BY <1>6, <2>1, StretchGrows
  <2> DEFINE x == Base(ofs) + j * BCS
  <2>3. fil' = [fil EXCEPT !.fptr = x, !.err = TRUE]
    BY <1>6
  <2> HIDE DEF x
  <2>4. /\ fil'.open = fil.open /\ fil'.err = TRUE /\ fil'.objsize = fil.objsize
        /\ fil'.sect = fil.sect /\ fil'.buf = fil.buf /\ fil'.dirty = fil.dirty
    BY <2>3, Types DEF FilRec
  <2>5. Untouched
    BY <1>2, <1>6, <2>2, <2>4 DEF Untouched, HalfFlushed
  <2>6. Bytes!Next
    BY <1>2, <1>3, <2>4, <2>5, Types, FailIs
  <2>7. MarkedInv'
    BY <1>2, <1>3, <2>4 DEF MarkedInv
  <2> QED
    BY <2>6, <2>7
<1>7. ASSUME NEW s \in Stretches(Larger(Upto(ofs) - Len(chain), 0)), chain' = chain \o s,
             NotPositioned(chain'[Upto(ofs)], ofs)
      PROVE  MarkedInv' /\ [Bytes!Next]_bytes
  <2>1. Upto(ofs) - Len(chain) \in Int
    BY <1>3, <1>5
  <2>2. Grown(chain')
    BY <1>7, <2>1, StretchGrows
  <2> DEFINE c == chain'[Upto(ofs)]
  <2>3. NotPositioned(c, ofs)
    BY <1>7
  <2> HIDE DEF c
  <2> QED
    BY <1>2, <1>4, <2>2, <2>3, NotPositionBytes
<1> QED
  BY <1>1, <1>6, <1>7

LEMMA FastSeekBytes ==
  ASSUME IInv, IInv', MarkedInv, NEW o \in Offsets, lseek_fast(o) \/ lseek_fast_error(o)
  PROVE  MarkedInv' /\ [Bytes!Next]_bytes
<1> DEFINE ofs == Lesser(o, fil.objsize)
           c == clmt_clust(ofs - 1)
<1>1. /\ Usable /\ got' = <<>>
      /\ chain' = chain /\ others' = others /\ lost' = lost /\ known' = known
  BY DEF lseek_fast, lseek_fast_error, hist
<1>2. \/ fil' = [fil EXCEPT !.fptr = 0] /\ medium' = medium
      \/ Positioned(c, ofs)
      \/ NotPositioned(c, ofs)
  BY DEF lseek_fast, lseek_fast_error
<1>3. Sound /\ Grown(chain')
  BY <1>1, UsableIs, Stays
<1>4. ofs \in Nat
  BY ClippedIs
<1> HIDE DEF ofs, c
<1>5. CASE fil' = [fil EXCEPT !.fptr = 0] /\ medium' = medium
  <2>1. /\ fil'.open = fil.open /\ fil'.objsize = fil.objsize /\ fil'.err = fil.err
        /\ fil'.sect = fil.sect /\ fil'.buf = fil.buf /\ fil'.dirty = fil.dirty
        /\ fil'.fptr = 0 /\ fil'.modified = fil.modified
    BY <1>5, Types DEF FilRec
  <2>2. fil.fptr <= fil.objsize /\ ~fil.err /\ fil.open /\ call.op = "none"
    BY <1>1, <1>3, UsableIs, HereIs DEF Sound
  <2> QED
    BY <1>1, <1>5, <2>1, <2>2, QuietBytes
<1>6. CASE Positioned(c, ofs)
  BY <1>1, <1>3, <1>4, <1>6, PositionBytes
<1>7. CASE NotPositioned(c, ofs)
  BY <1>1, <1>3, <1>4, <1>7, NotPositionBytes
<1> QED
  BY <1>2, <1>5, <1>6, <1>7

----------------------------------------------------------------------------
(* f_truncate.                                                             *)

\* The file ends at the position.
LEMMA CutBytes ==
  ASSUME IInv, IInv', Truncatable, NEW m \in Kept .. Len(chain), chain' = SubSeq(chain, 1, m),
         Ended, medium' \in HalfFlushed, fil'.objsize = fil.fptr,
         fil'.dirty => fil.dirty /\ fil'.sect = fil.sect /\ fil'.buf = fil.buf,
         ~fil'.dirty /\ fil.dirty => medium' = Flushed
  PROVE  File' = SubSeq(File, 1, fil.fptr)
<1>1. /\ Sound /\ fil.fptr \in Nat /\ fil.objsize \in Nat /\ Limit \in Nat
      /\ fil.fptr < fil.objsize /\ fil.objsize < Limit /\ known' = known \ Ahead(Limit)
  BY Types, UsableIs DEF Truncatable, SizeInv, Ended
<1>2. /\ Kept \in 0 .. Len(chain) /\ \A p \in Nat : p < fil.fptr => p \div BCS + 1 \in 1 .. Kept
  BY <1>1, KeptIs
<1>3. Len(chain) \in Nat /\ chain \in Seq(Clust)
  BY Types DEF TypeInv
<1>4. m \in 0 .. Len(chain) /\ Kept <= m
  BY <1>2, <1>3
<1>5. \A i \in 1 .. m : chain'[i] = chain[i]
  BY <1>3, <1>4
<1>6. ASSUME NEW p \in Nat, p < fil.fptr
      PROVE  At(p)' = At(p)
  <2>1. p \div BCS + 1 \in 1 .. m
    BY <1>2, <1>4, <1>6
  <2>2. chain'[p \div BCS + 1] = chain[p \div BCS + 1]
    BY <1>5, <2>1
  <2>3. SectorOf(p)' = SectorOf(p)
    BY <2>2 DEF SectorOf, clust2sect, BCS
  <2>4. p \in known' <=> p \in known
    BY <1>1, <1>6 DEF Ahead
  <2>5. CASE p \in known
    BY <2>3, <2>4, <2>5, SameByte
  <2>6. CASE p \notin known
    BY <2>4, <2>6 DEF At
  <2> QED
    BY <2>5, <2>6
<1>7. /\ File \in Seq({At(p) : p \in Nat}) /\ Len(File) = fil.objsize
      /\ \A i \in 1 .. fil.objsize : File[i] = At(i - 1)
  BY FileIs
<1>8. /\ File' \in Seq({At(p)' : p \in Nat}) /\ Len(File') = fil.fptr
      /\ \A i \in 1 .. fil.fptr : File'[i] = At(i - 1)'
  BY <1>1, NewFileIs
<1> DEFINE w == SubSeq(File, 1, fil.fptr)
<1>9. fil.fptr \in 0 .. Len(File)
  BY <1>1, <1>7
<1>10. /\ w \in Seq({At(p) : p \in Nat}) /\ Len(w) = fil.fptr
       /\ \A i \in 1 .. fil.fptr : w[i] = File[i]
  BY <1>7, <1>9, CutIs
<1> HIDE DEF w
<1>11. ASSUME NEW i \in 1 .. Len(w)
       PROVE  w[i] = File'[i]
  <2>1. i \in 1 .. fil.fptr /\ i \in 1 .. fil.objsize /\ i - 1 \in Nat /\ i - 1 < fil.fptr
    BY <1>1, <1>10
  <2> QED
    BY <1>6, <1>7, <1>8, <1>10, <2>1
<1>12. w = File'
  BY <1>8, <1>10, <1>11, SameSeq
<1> QED
  BY <1>12 DEF w

LEMMA TruncateBytes ==
  ASSUME IInv, IInv', MarkedInv, f_truncate
  PROVE  MarkedInv' /\ [Bytes!Next]_bytes
<1>1. /\ Truncatable /\ chain' = SubSeq(chain, 1, Kept) /\ Ended /\ medium' = Flushed /\ got' = <<>>
      /\ fil' = [fil EXCEPT !.objsize = fil.fptr, !.modified = TRUE, !.dirty = FALSE]
  BY DEF f_truncate, Shortened
<1>2. Sound /\ ~fil.err /\ fil.open
  BY <1>1, UsableIs DEF Truncatable, Sound
<1>3. Kept \in Kept .. Len(chain)
  BY <1>2, KeptIs, Types
<1>4. /\ fil'.objsize = fil.fptr /\ fil'.fptr = fil.fptr /\ fil'.open = fil.open
      /\ fil'.dirty = FALSE /\ fil'.err = fil.err
  BY <1>1, Types DEF FilRec
<1>5. medium' \in HalfFlushed
  BY <1>1 DEF HalfFlushed
<1>6. File' = SubSeq(File, 1, fil.fptr)
  BY <1>1, <1>3, <1>4, <1>5, CutBytes
<1>7. Bytes!Cut
  BY <1>1, <1>4, <1>6 DEF Bytes!Cut, Bytes!Before, File
<1>8. MarkedInv'
  BY <1>1, <1>2, <1>4 DEF MarkedInv
<1> QED
  BY <1>2, <1>7, <1>8 DEF Bytes!Next

LEMMA TruncateErrorBytes ==
  ASSUME IInv, IInv', MarkedInv, truncate_error
  PROVE  MarkedInv' /\ [Bytes!Next]_bytes
<1>1. /\ Truncatable /\ Ended /\ got' = <<>>
      /\ fil' = [fil EXCEPT !.objsize = fil.fptr, !.modified = TRUE, !.err = TRUE]
      /\ \/ \E freed \in 0 .. Len(chain) - Kept :
              /\ chain' = SubSeq(chain, 1, Kept)
              /\ freed = Len(chain) - Kept => medium' \in HalfFlushed
              /\ freed < Len(chain) - Kept => medium' = medium
         \/ medium' = medium /\ chain' = chain
  BY DEF truncate_error, Shortened
<1>2. Sound /\ ~fil.err /\ fil.open
  BY <1>1, UsableIs DEF Truncatable, Sound
<1>3. Kept \in 0 .. Len(chain) /\ Len(chain) \in Nat /\ chain \in Seq(Clust)
  BY <1>2, KeptIs, Types DEF TypeInv
<1>4. /\ fil'.objsize = fil.fptr /\ fil'.fptr = fil.fptr /\ fil'.open = fil.open
      /\ fil'.dirty = fil.dirty /\ fil'.err = TRUE /\ fil'.sect = fil.sect /\ fil'.buf = fil.buf
  BY <1>1, Types DEF FilRec
<1>5. \E m \in Kept .. Len(chain) : chain' = SubSeq(chain, 1, m) /\ medium' \in HalfFlushed
  <2>1. ASSUME NEW freed \in 0 .. Len(chain) - Kept,
               chain' = SubSeq(chain, 1, Kept),
               freed = Len(chain) - Kept => medium' \in HalfFlushed,
               freed < Len(chain) - Kept => medium' = medium
        PROVE  chain' = SubSeq(chain, 1, Kept) /\ medium' \in HalfFlushed
    BY <1>3, <2>1 DEF HalfFlushed
  <2>2. CASE medium' = medium /\ chain' = chain
    <3>1. SubSeq(chain, 1, Len(chain)) = chain /\ Len(chain) \in Kept .. Len(chain)
      BY <1>3
    <3> QED
      BY <2>2, <3>1 DEF HalfFlushed
  <2>3. Kept \in Kept .. Len(chain)
    BY <1>3
  <2> QED
    BY <1>1, <2>1, <2>2, <2>3
<1>6. PICK m \in Kept .. Len(chain) : chain' = SubSeq(chain, 1, m) /\ medium' \in HalfFlushed
  BY <1>5
<1>7. File' = SubSeq(File, 1, fil.fptr)
  BY <1>1, <1>4, <1>6, CutBytes
<1>8. Bytes!Fail
  BY <1>1, <1>4, <1>7 DEF Bytes!Fail, Bytes!Before, File
<1>9. MarkedInv'
  BY <1>1, <1>2, <1>4 DEF MarkedInv
<1> QED
  BY <1>2, <1>8, <1>9 DEF Bytes!Next

----------------------------------------------------------------------------
LEMMA InitBytes ==
  ASSUME Init
  PROVE  MarkedInv /\ Bytes!Init
<1>1. fil = Closed(0, FALSE) /\ got = <<>> /\ IInv
  BY InitStep DEF Init
<1>2. fil.objsize = 0 /\ fil.fptr = 0 /\ fil.err = FALSE /\ fil.open = FALSE /\ fil.dirty = FALSE
  BY <1>1 DEF Closed, NewFil
<1>3. File \in Seq({At(p) : p \in Nat}) /\ Len(File) = 0
  BY <1>1, <1>2, FileIs
<1>4. File = <<>>
  BY <1>3
<1> QED
  BY <1>1, <1>2, <1>4 DEF MarkedInv, Bytes!Init, File

LEMMA NextBytes ==
  ASSUME IInv, IInv', MarkedInv, [Next]_vars
  PROVE  MarkedInv' /\ [Bytes!Next]_bytes
<1>1. CASE Open
  BY <1>1, OpenBytes
<1>2. CASE Read
  BY <1>2, CallBytes, ReadDirectBytes, ReadPartBytes, ReadErrorBytes DEF Read
<1>3. CASE Write
  BY <1>3, CallBytes, WriteDirectBytes, WritePartBytes, WriteFullBytes, WriteErrorBytes DEF Write
<1>4. CASE Seek
  BY <1>4, TopBytes, SeekBytes, SeekErrorBytes, FastSeekBytes DEF Seek
<1>5. CASE Store
  BY <1>5, TruncateBytes, TruncateErrorBytes, SyncBytes, CloseBytes DEF Store
<1>6. CASE Others
  BY <1>6, OthersBytes DEF Others
<1>7. CASE UNCHANGED vars
  <2>1. /\ medium' = medium /\ chain' = chain /\ fil' = fil /\ call' = call
        /\ known' = known /\ got' = got
    BY <1>7 DEF vars, hist
  <2>2. Content' = Content
    BY <2>1 DEF Content, SectorOf, clust2sect, BCS
  <2>3. File' = File
    BY <2>1, <2>2 DEF File
  <2>4. MarkedInv'
    BY <2>1 DEF MarkedInv
  <2> QED
    BY <2>1, <2>3, <2>4 DEF bytes
<1> QED
  BY <1>1, <1>2, <1>3, <1>4, <1>5, <1>6, <1>7 DEF Next

\* What a dirty buffer, direct transfers around it, and a link map make of the
\* file is a sequence of bytes with a position: f_read delivers what f_write
\* wrote, f_lseek and f_truncate keep the bytes before the end, and a call
\* that fails leaves the others as they were.
THEOREM BytesImplemented == Spec => BytesRefined
<1>1. Init => IInv /\ MarkedInv /\ Bytes!Init
  BY InitStep, InitBytes
<1>2. (IInv /\ MarkedInv) /\ [Next]_vars => (IInv /\ MarkedInv)' /\ [Bytes!Next]_(Bytes!vars)
  <2>1. UNCHANGED bytes => UNCHANGED Bytes!vars
    BY DEF bytes, Bytes!vars, File
  <2> QED
    BY <2>1, NextStep, NextBytes
<1> QED
  BY <1>1, <1>2, PTL DEF Spec, BytesRefined, Bytes!Spec
=============================================================================
