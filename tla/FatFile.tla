------------------------------ MODULE FatFile ------------------------------
(***************************************************************************)
(* The data path of one open file (ff.c): f_read, f_write, f_lseek,        *)
(* f_truncate and f_sync through the sector buffer of the FIL object, with *)
(* and without the cluster link map of the fast seek.                      *)
(*                                                                         *)
(* What get_fat, create_chain and remove_chain do is in FatVolume: here    *)
(* the chain is the sequence of the file's clusters.  Other files take     *)
(* clusters that are free, and give them back.  The bytes of one f_write   *)
(* are alike; file sizes are below Limit, as on a volume below 2^32.       *)
(***************************************************************************)
EXTENDS Integers, Sequences, FiniteSets

CONSTANTS
  Clust,     \* data clusters
  NoClust,   \* none
  SS,        \* bytes per sector
  CSIZE,     \* sectors per cluster
  Limit,     \* 2^32
  ReadLens,  \* bound: the lengths of f_read
  WriteLens, \* bound: the lengths of f_write
  Offsets,   \* bound: the offsets of f_lseek
  MaxCall,   \* bound: calls of f_write, numbered
  MaxFault   \* bound: I/O errors

ASSUME SizeAssumption ==
  /\ SS \in Nat \ {0} /\ CSIZE \in Nat \ {0}
  /\ Limit \in Nat \ {0} /\ MaxCall \in Nat /\ MaxFault \in Nat
  /\ ReadLens \cup WriteLens \subseteq 0 .. Limit - 1 /\ Offsets \subseteq 1 .. Limit - 1
ASSUME ClustAssumption == IsFiniteSet(Clust) /\ NoClust \notin Clust

VARIABLES
  medium,   \* the bytes of each data sector
  chain,    \* the clusters of the file
  others,   \* the clusters of the other files
  lost,     \* clusters that a failed f_truncate left to nobody
  fil,      \* the FIL object
  call,     \* the f_read or f_write in progress
  got,      \* what f_read delivers in this step
  calls,    \* calls of f_write so far
  faults,   \* I/O errors so far
  known,    \* history: the positions that f_write wrote
  stored,   \* history: the bytes that f_sync stored and no call changed since
  hurt      \* history: f_truncate failed

hist == <<known, stored, hurt>>
vars == <<medium, chain, others, lost, fil, call, got, calls, faults, hist>>

BCS    == CSIZE * SS
Sector == Clust \X (0 .. CSIZE - 1)
NoSect == <<NoClust, 0>>
Theirs == 0   \* what other files write, and wrote before
Byte   == 1 .. MaxCall  \* what the calls of f_write write
Unknown == MaxCall + 1

All(b) == [i \in 0 .. SS - 1 |-> b]
Blank == All(Theirs)

Idle == [op |-> "none", rem |-> 0]
Free == Clust \ ({chain[i] : i \in DOMAIN chain} \cup others \cup lost)

Lesser(a, b) == IF a < b THEN a ELSE b
Larger(a, b) == IF a > b THEN a ELSE b

\* The place of a cluster in the chain.
Order(c) == CHOOSE i \in DOMAIN chain : chain[i] = c

\* clust2sect, and the sector of a byte, as the chain has it.
clust2sect(c, ofs) == <<c, (ofs \div SS) % CSIZE>>
SectorOf(ofs) == clust2sect(chain[ofs \div BCS + 1], ofs)

\* All the distinct clusters that can lengthen the chain by n, or by fewer
\* when the volume gets full.
Stretches(n) ==
  LET m == Lesser(n, Cardinality(Free))
  IN  {s \in [1 .. m -> Free] : \A i, j \in 1 .. m : i # j => s[i] # s[j]}

----------------------------------------------------------------------------
(* Opening.                                                                *)

NewFil(write, size) ==
  [open |-> TRUE, write |-> write, fptr |-> 0, objsize |-> size, clust |-> NoClust,
   sect |-> NoSect, buf |-> Blank, dirty |-> FALSE, modified |-> FALSE,
   err |-> FALSE, cltbl |-> <<>>]

Closed(size, err) == [NewFil(FALSE, size) EXCEPT !.open = FALSE, !.err = err]

\* A file that an I/O error has hit is not opened again here.
f_open(write) ==
  /\ ~fil.open /\ faults = 0
  /\ fil' = NewFil(write, fil.objsize)
  /\ got' = <<>>
  /\ UNCHANGED <<medium, chain, others, lost, call, calls, faults, hist>>

\* FA_OPEN_APPEND: to the last byte, and its sector into the buffer.
f_open_append ==
  LET size == fil.objsize
      last == chain[(size - 1) \div BCS + 1]
      sect == clust2sect(last, size)
  IN  /\ ~fil.open /\ faults = 0 /\ size > 0
      /\ fil' = IF size % SS = 0
                THEN [NewFil(TRUE, size) EXCEPT !.fptr = size, !.clust = last]
                ELSE [NewFil(TRUE, size) EXCEPT
                        !.fptr = size, !.clust = last,
                        !.sect = sect, !.buf = medium[sect]]
      /\ got' = <<>>
      /\ UNCHANGED <<medium, chain, others, lost, call, calls, faults, hist>>

Usable == fil.open /\ ~fil.err /\ call = Idle

----------------------------------------------------------------------------
(* f_read.                                                                 *)

f_read(btr) ==
  LET n == Lesser(btr, fil.objsize - fil.fptr) IN
  /\ Usable /\ n > 0
  /\ call' = [op |-> "read", rem |-> n]
  /\ got' = <<>>
  /\ UNCHANGED <<medium, chain, others, lost, fil, calls, faults, hist>>

AtSector == fil.fptr % SS = 0
csect    == (fil.fptr \div SS) % CSIZE
cc       == Lesser(call.rem \div SS, CSIZE - csect)

clmt_clust(ofs) ==
  LET i == ofs \div BCS + 1
  IN  IF i \in DOMAIN fil.cltbl THEN fil.cltbl[i] ELSE NoClust

\* The cluster the next byte is read from.
ReadClust ==
  IF fil.fptr % BCS # 0 THEN fil.clust
  ELSE IF fil.fptr = 0 THEN chain[1]
  ELSE IF fil.cltbl # <<>> THEN clmt_clust(fil.fptr)
  ELSE chain[Order(fil.clust) + 1]

FollowsFat == fil.fptr > 0 /\ fil.fptr % BCS = 0 /\ fil.cltbl = <<>>

\* f_write and f_read first store a dirty buffer that they are to replace.
Flushed == IF fil.dirty THEN [medium EXCEPT ![fil.sect] = fil.buf] ELSE medium

Rest(n) == IF call.rem = n THEN Idle ELSE [call EXCEPT !.rem = @ - n]

\* Mutant: the buffer is not looked at.
read_direct_stale ==
  LET c == ReadClust
      n == cc * SS
  IN  /\ call.op = "read" /\ AtSector /\ cc > 0
      /\ got' = [i \in 1 .. n |->
                   medium[<<c, csect + (i - 1) \div SS>>][(i - 1) % SS]]
      /\ fil' = [fil EXCEPT !.clust = c, !.fptr = @ + n]
      /\ call' = Rest(n)
      /\ UNCHANGED <<medium, chain, others, lost, calls, faults, hist>>

\* Whole sectors are read from the medium, but for the one that is newer in
\* the buffer.
read_direct ==
  LET c == ReadClust
      Source(s) == IF fil.dirty /\ fil.sect = s THEN fil.buf ELSE medium[s]
      n == cc * SS
  IN  /\ call.op = "read" /\ AtSector /\ cc > 0
      /\ got' = [i \in 1 .. n |->
                   Source(<<c, csect + (i - 1) \div SS>>)[(i - 1) % SS]]
      /\ fil' = [fil EXCEPT !.clust = c, !.fptr = @ + n]
      /\ call' = Rest(n)
      /\ UNCHANGED <<medium, chain, others, lost, calls, faults, hist>>

\* A part of a sector goes through the buffer.
read_part ==
  LET sect == <<ReadClust, csect>>
      load == AtSector /\ fil.sect # sect
      buf  == IF load THEN Flushed[sect] ELSE fil.buf
      n    == Lesser(SS - (fil.fptr % SS), call.rem)
  IN  /\ call.op = "read" /\ (AtSector => cc = 0)
      /\ medium' = IF load THEN Flushed ELSE medium
      /\ got' = [i \in 1 .. n |-> buf[(fil.fptr % SS) + i - 1]]
      /\ fil' = [fil EXCEPT !.clust = ReadClust, !.fptr = @ + n, !.buf = buf,
                            !.sect = IF AtSector THEN sect ELSE @,
                            !.dirty = @ /\ ~load]
      /\ call' = Rest(n)
      /\ UNCHANGED <<chain, others, lost, calls, faults, hist>>

\* The outcomes of a disk_write of the buffer that fails.
HalfFlushed == {medium, Flushed}

\* get_fat or disk_read fails, or the disk_write of the dirty buffer, which
\* stays dirty.
read_error ==
  /\ call.op = "read" /\ faults < MaxFault /\ AtSector
  /\ \/ /\ cc > 0 \/ FollowsFat
        /\ fil' = [fil EXCEPT !.err = TRUE] /\ UNCHANGED medium
     \/ /\ cc = 0 /\ fil.sect # <<ReadClust, csect>>
        /\ \/ /\ fil.dirty /\ medium' \in HalfFlushed
              /\ fil' = [fil EXCEPT !.clust = ReadClust, !.err = TRUE]
           \/ /\ medium' = Flushed
              /\ fil' = [fil EXCEPT !.clust = ReadClust, !.err = TRUE, !.dirty = FALSE]
  /\ faults' = faults + 1
  /\ call' = Idle
  /\ got' = <<>>
  /\ UNCHANGED <<chain, others, lost, calls, hist>>

----------------------------------------------------------------------------
(* f_write.                                                                *)

\* A write that would pass 2^32 is cut so that it ends at 2^32 - 1.
f_write(btw) ==
  LET n == IF (fil.fptr + btw) % Limit < fil.fptr
           THEN Limit - 1 - fil.fptr ELSE btw
  IN  /\ Usable /\ fil.write /\ n > 0 /\ calls < MaxCall
      /\ call' = [op |-> "write", rem |-> n]
      /\ calls' = calls + 1
      /\ got' = <<>>
      /\ UNCHANGED <<medium, chain, others, lost, fil, faults, hist>>

\* Where the next byte is written: the cluster, and the chain with it.  In
\* fast seek the chain is neither followed nor lengthened.
WriteClusts ==
  LET here(c) == {[clust |-> c, chain |-> chain]}
      i == IF fil.fptr = 0 THEN 0 ELSE Order(fil.clust)
  IN  IF fil.fptr % BCS # 0 THEN here(fil.clust)
      ELSE IF i > 0 /\ fil.cltbl # <<>> THEN here(clmt_clust(fil.fptr))
      ELSE IF i < Len(chain) THEN here(chain[i + 1])
      ELSE IF Free = {} THEN here(NoClust)
      ELSE {[clust |-> c, chain |-> Append(chain, c)] : c \in Free}

Targets ==
  IF call.op = "write" THEN {r \in WriteClusts : r.clust # NoClust} ELSE {}

\* The next n bytes are no more what f_sync stored.
Ahead(n) == fil.fptr .. fil.fptr + n - 1
Forget(n) == stored' = [p \in DOMAIN stored \ Ahead(n) |-> stored[p]]
Note(n)   == Forget(n) /\ known' = known \cup Ahead(n)

\* The file after n bytes were written to cluster c.
Written(c, n) ==
  [fil EXCEPT !.clust = c, !.fptr = @ + n,
              !.objsize = Larger(@, fil.fptr + n),
              !.modified = @ \/ call.rem = n]

\* Whole sectors go to the medium; the buffer gets what replaces it there.
write_direct ==
  \E r \in Targets :
    LET n == cc * SS
        S == {<<r.clust, csect + i>> : i \in 0 .. cc - 1}
    IN  /\ AtSector /\ cc > 0
        /\ medium' = [s \in Sector |-> IF s \in S THEN All(calls) ELSE Flushed[s]]
        /\ fil' = [Written(r.clust, n) EXCEPT
                     !.dirty = FALSE,
                     !.buf = IF fil.sect \in S THEN All(calls) ELSE @]
        /\ chain' = r.chain
        /\ call' = Rest(n)
        /\ Note(n)
        /\ got' = <<>>
        /\ UNCHANGED <<others, lost, calls, faults, hurt>>

\* Mutant: it does not get them.
Filled_never(sect) == fil.buf

\* A part of a sector goes to the buffer, which first gets the other bytes of
\* the sector unless it lies behind the end of the file.
Filled(sect) ==
  IF AtSector /\ fil.sect # sect /\ fil.fptr < fil.objsize
  THEN Flushed[sect] ELSE fil.buf

write_part ==
  \E r \in Targets :
    LET sect == IF AtSector THEN <<r.clust, csect>> ELSE fil.sect
        ofs  == fil.fptr % SS
        n    == Lesser(SS - ofs, call.rem)
    IN  /\ AtSector => cc = 0
        /\ medium' = IF AtSector THEN Flushed ELSE medium
        /\ fil' = [Written(r.clust, n) EXCEPT
                     !.sect = sect, !.dirty = TRUE,
                     !.buf = [i \in 0 .. SS - 1 |->
                                IF i \in ofs .. ofs + n - 1 THEN calls
                                ELSE Filled(sect)[i]]]
        /\ chain' = r.chain
        /\ call' = Rest(n)
        /\ Note(n)
        /\ got' = <<>>
        /\ UNCHANGED <<others, lost, calls, faults, hurt>>

\* No cluster: the volume is full, or the link map ends.
write_full ==
  /\ call.op = "write"
  /\ \E r \in WriteClusts : r.clust = NoClust
  /\ fil' = [fil EXCEPT !.modified = TRUE]
  /\ call' = Idle
  /\ got' = <<>>
  /\ UNCHANGED <<medium, chain, others, lost, calls, faults, hist>>

\* An I/O error ends the call, and FA_MODIFIED is not set.  The chain may be
\* longer; a direct write may have stored its first sectors.
write_error ==
  /\ call.op = "write" /\ faults < MaxFault /\ AtSector
  /\ faults' = faults + 1
  /\ call' = Idle
  /\ \/ \* create_chain or get_fat
        /\ FollowsFat \/ (fil.fptr = 0 /\ chain = <<>>)
        /\ fil' = [fil EXCEPT !.err = TRUE]
        /\ UNCHANGED <<medium, chain, known, stored>>
     \/ \E r \in Targets :
          /\ chain' = r.chain
          /\ \/ \* the buffer is not stored
                /\ fil.dirty /\ medium' \in HalfFlushed
                /\ fil' = [fil EXCEPT !.clust = r.clust, !.err = TRUE]
                /\ UNCHANGED <<known, stored>>
             \/ \* the sectors are not written, or only the first ones
                /\ cc > 0
                /\ \E k \in 0 .. cc - 1 :
                     medium' = [s \in Sector |->
                                  IF s \in {<<r.clust, csect + i>> : i \in 0 .. k - 1}
                                  THEN All(calls) ELSE Flushed[s]]
                /\ fil' = [fil EXCEPT !.clust = r.clust, !.err = TRUE, !.dirty = FALSE]
                /\ Forget(cc * SS) /\ known' = known \ Ahead(cc * SS)
             \/ \* the other bytes of the sector are not read
                /\ cc = 0 /\ fil.fptr < fil.objsize /\ fil.sect # <<r.clust, csect>>
                /\ medium' = Flushed
                /\ fil' = [fil EXCEPT !.clust = r.clust, !.err = TRUE, !.dirty = FALSE]
                /\ UNCHANGED <<known, stored>>
  /\ got' = <<>>
  /\ UNCHANGED <<others, lost, calls, hurt>>

----------------------------------------------------------------------------
(* f_lseek.                                                                *)

\* The file with the position at ofs in cluster c: inside a sector, it has to
\* be the one in the buffer.
Positioned(c, ofs) ==
  LET sect == clust2sect(c, ofs)
      load == ofs % SS # 0 /\ sect # fil.sect
  IN  /\ medium' = IF load THEN Flushed ELSE medium
      /\ fil' = [fil EXCEPT
                   !.clust = c, !.fptr = ofs, !.objsize = Larger(@, ofs),
                   !.modified = @ \/ ofs > fil.objsize,
                   !.sect = IF load THEN sect ELSE @,
                   !.buf = IF load THEN Flushed[sect] ELSE @,
                   !.dirty = @ /\ ~load]

\* The buffer is not stored, or it is and the sector is not read.
NotPositioned(c, ofs) ==
  /\ ofs % SS # 0 /\ clust2sect(c, ofs) # fil.sect
  /\ \E stays \in BOOLEAN :
       /\ stays => fil.dirty
       /\ medium' \in IF stays THEN HalfFlushed ELSE {Flushed}
       /\ fil' = [fil EXCEPT
                    !.clust = c, !.fptr = ofs, !.objsize = Larger(@, ofs),
                    !.modified = @ \/ ofs > fil.objsize,
                    !.err = TRUE, !.dirty = stays]

Clipped(ofs) == IF fil.write THEN ofs ELSE Lesser(ofs, fil.objsize)

\* The walk to ofs starts in the current cluster when that is not behind it:
\* the offset and the order of the cluster it starts in, and of the last one.
Near(ofs) == fil.fptr > 0 /\ (ofs - 1) \div BCS >= (fil.fptr - 1) \div BCS
Base(ofs) == IF Near(ofs) THEN ((fil.fptr - 1) \div BCS) * BCS ELSE 0
From(ofs) == IF Near(ofs) THEN Order(fil.clust) ELSE 1
Upto(ofs) == From(ofs) + (ofs - Base(ofs) - 1) \div BCS

lseek_top ==
  /\ Usable /\ fil.cltbl = <<>>
  /\ fil' = [fil EXCEPT !.fptr = 0]
  /\ got' = <<>>
  /\ UNCHANGED <<medium, chain, others, lost, call, calls, faults, hist>>

\* Up to ofs, lengthening the chain in write mode; when the volume gets full,
\* to the end of the last cluster there is.
f_lseek(o) ==
  LET ofs == Clipped(o) IN
  /\ Usable /\ fil.cltbl = <<>> /\ ofs > 0
  /\ \E s \in Stretches(Larger(Upto(ofs) - Len(chain), 0)) :
       LET all == chain \o s
           n   == Len(all)
       IN  /\ chain' = all
           /\ IF n >= Upto(ofs) THEN Positioned(all[Upto(ofs)], ofs)
              ELSE IF n = 0 THEN Positioned(NoClust, 0)
              ELSE Positioned(all[n], Base(ofs) + (n - From(ofs) + 1) * BCS)
  /\ got' = <<>>
  /\ UNCHANGED <<others, lost, call, calls, faults, hist>>

\* A link of the chain cannot be read or written, or the buffer cannot.
lseek_error(o) ==
  LET ofs == Clipped(o) IN
  /\ Usable /\ fil.cltbl = <<>> /\ ofs > 0 /\ faults < MaxFault
  /\ \/ \E j \in 0 .. Upto(ofs) - From(ofs) :
          LET need == Larger(From(ofs) + j - 1 - Len(chain), 0) IN
          /\ j = 0 => chain = <<>>
          /\ \E s \in Stretches(need) : Len(s) = need /\ chain' = chain \o s
          /\ fil' = [fil EXCEPT !.fptr = Base(ofs) + j * BCS, !.err = TRUE]
          /\ UNCHANGED medium
     \/ \E s \in Stretches(Larger(Upto(ofs) - Len(chain), 0)) :
          /\ chain' = chain \o s
          /\ Len(chain') >= Upto(ofs) /\ NotPositioned(chain'[Upto(ofs)], ofs)
  /\ faults' = faults + 1
  /\ got' = <<>>
  /\ UNCHANGED <<others, lost, call, calls, hist>>

\* The link map is the chain, as long as nobody changes it.
lseek_linkmap ==
  /\ Usable /\ fil.cltbl = <<>> /\ chain # <<>>
  /\ fil' = [fil EXCEPT !.cltbl = chain]
  /\ got' = <<>>
  /\ UNCHANGED <<medium, chain, others, lost, call, calls, faults, hist>>

lseek_fast(o) ==
  LET ofs == Lesser(o, fil.objsize) IN
  /\ Usable /\ fil.cltbl # <<>>
  /\ IF ofs = 0 THEN fil' = [fil EXCEPT !.fptr = 0] /\ UNCHANGED medium
     ELSE Positioned(clmt_clust(ofs - 1), ofs)
  /\ got' = <<>>
  /\ UNCHANGED <<chain, others, lost, call, calls, faults, hist>>

lseek_fast_error(o) ==
  LET ofs == Lesser(o, fil.objsize) IN
  /\ Usable /\ fil.cltbl # <<>> /\ ofs > 0 /\ faults < MaxFault
  /\ NotPositioned(clmt_clust(ofs - 1), ofs)
  /\ faults' = faults + 1
  /\ got' = <<>>
  /\ UNCHANGED <<chain, others, lost, call, calls, hist>>

----------------------------------------------------------------------------
(* f_truncate.  In fast seek it would leave the link map behind: a program *)
(* drops the map first.                                                    *)

Kept == IF fil.fptr = 0 THEN 0 ELSE Order(fil.clust)

Shortened(k) == chain' = SubSeq(chain, 1, k)
Ended == Forget(Limit) /\ known' = known \ Ahead(Limit)

Truncatable ==
  Usable /\ fil.write /\ fil.cltbl = <<>> /\ fil.objsize > fil.fptr

\* Mutant: the buffer stays dirty.
f_truncate_unflushed ==
  /\ Truncatable
  /\ Shortened(Kept) /\ Ended
  /\ fil' = [fil EXCEPT !.objsize = fil.fptr, !.modified = TRUE]
  /\ got' = <<>>
  /\ UNCHANGED <<medium, others, lost, call, calls, faults, hurt>>

\* The buffer is stored last, whether its cluster is still the file's or not.
f_truncate ==
  /\ Truncatable
  /\ Shortened(Kept) /\ Ended
  /\ medium' = Flushed
  /\ fil' = [fil EXCEPT !.objsize = fil.fptr, !.modified = TRUE, !.dirty = FALSE]
  /\ got' = <<>>
  /\ UNCHANGED <<others, lost, call, calls, faults, hurt>>

\* remove_chain fails when the chain is cut off and its first clusters are
\* free, or before; or all clusters are free and the buffer is not stored.  A
\* dirty buffer stays.
truncate_error ==
  /\ Truncatable /\ faults < MaxFault
  /\ \/ \E freed \in 0 .. Len(chain) - Kept :
          /\ Shortened(Kept)
          /\ lost' = lost \cup {chain[i] : i \in Kept + freed + 1 .. Len(chain)}
          /\ freed = Len(chain) - Kept => fil.dirty /\ medium' \in HalfFlushed
          /\ freed < Len(chain) - Kept => UNCHANGED medium
     \/ /\ fil.fptr > 0
        /\ UNCHANGED <<medium, chain, lost>>
  /\ fil' = [fil EXCEPT !.objsize = fil.fptr, !.modified = TRUE, !.err = TRUE]
  /\ Ended
  /\ hurt' = TRUE
  /\ faults' = faults + 1
  /\ got' = <<>>
  /\ UNCHANGED <<others, call, calls>>

----------------------------------------------------------------------------
(* f_sync and f_close, which do not look at the error of earlier calls.    *)

\* A link map is dropped by the program.
Syncable == fil.open /\ call = Idle

\* The bytes that f_write wrote, where they are now.
Content ==
  [p \in known |->
     IF fil.dirty /\ fil.sect = SectorOf(p) THEN fil.buf[p % SS]
     ELSE medium[SectorOf(p)][p % SS]]

Synced ==
  /\ medium' = IF fil.modified THEN Flushed ELSE medium
  /\ stored' = IF fil.modified THEN Content ELSE stored
  /\ got' = <<>>
  /\ UNCHANGED <<chain, others, lost, call, calls, faults, known, hurt>>

f_sync ==
  /\ Syncable /\ fil.modified /\ Synced
  /\ fil' = [fil EXCEPT !.modified = FALSE, !.dirty = FALSE]

f_close == Syncable /\ Synced /\ fil' = Closed(fil.objsize, fil.err)

\* The buffer is not stored; or it is, and the entry is not, in which case
\* FA_MODIFIED may be cleared all the same.
sync_error ==
  /\ Syncable /\ fil.modified /\ faults < MaxFault
  /\ \/ fil.dirty /\ medium' \in HalfFlushed /\ UNCHANGED fil
     \/ /\ medium' = Flushed
        /\ \E m \in BOOLEAN : fil' = [fil EXCEPT !.dirty = FALSE, !.modified = m]
  /\ faults' = faults + 1
  /\ got' = <<>>
  /\ UNCHANGED <<chain, others, lost, call, calls, hist>>

\* Back to normal seeks.
drop_linkmap ==
  /\ Usable /\ fil.cltbl # <<>>
  /\ fil' = [fil EXCEPT !.cltbl = <<>>]
  /\ got' = <<>>
  /\ UNCHANGED <<medium, chain, others, lost, call, calls, faults, hist>>

----------------------------------------------------------------------------
(* The other files of the volume, between the calls on this one.           *)

others_take(c) ==
  /\ call = Idle /\ c \in Free
  /\ others' = others \cup {c}
  /\ medium' = [s \in Sector |-> IF s[1] = c THEN All(Theirs) ELSE medium[s]]
  /\ got' = <<>>
  /\ UNCHANGED <<chain, lost, fil, call, calls, faults, hist>>

others_free(c) ==
  /\ call = Idle /\ c \in others
  /\ others' = others \ {c}
  /\ got' = <<>>
  /\ UNCHANGED <<medium, chain, lost, fil, call, calls, faults, hist>>

----------------------------------------------------------------------------
Init ==
  /\ medium = [s \in Sector |-> Blank]
  /\ chain = <<>> /\ others = {} /\ lost = {}
  /\ fil = Closed(0, FALSE)
  /\ call = Idle
  /\ got = <<>>
  /\ calls = 0 /\ faults = 0
  /\ known = {} /\ stored = [p \in {} |-> Theirs]
  /\ hurt = FALSE

Open == (\E write \in BOOLEAN : f_open(write)) \/ f_open_append

Read == (\E n \in ReadLens : f_read(n)) \/ read_direct \/ read_part \/ read_error

Write ==
  \/ \E n \in WriteLens : f_write(n)
  \/ write_direct \/ write_part \/ write_full \/ write_error

Seek ==
  \/ lseek_top \/ lseek_linkmap \/ drop_linkmap
  \/ \E ofs \in Offsets :
       f_lseek(ofs) \/ lseek_error(ofs) \/ lseek_fast(ofs) \/ lseek_fast_error(ofs)

Store == f_truncate \/ truncate_error \/ f_sync \/ f_close \/ sync_error

Others == \E c \in Clust : others_take(c) \/ others_free(c)

Next == Open \/ Read \/ Write \/ Seek \/ Store \/ Others

Spec == Init /\ [][Next]_vars

----------------------------------------------------------------------------
(* Properties.                                                             *)

\* What a dirty buffer, direct transfers around it, and a link map make of
\* the file is a sequence of bytes with a position (f_read, f_write, f_lseek).
Bytes == INSTANCE ByteFile WITH
  content <- [i \in 1 .. fil.objsize |->
                IF i - 1 \in known THEN Content[i - 1] ELSE Unknown],
  pos     <- fil.fptr,
  broken  <- fil.err

BytesRefined == Bytes!Spec

\* The bytes an f_sync stored are on the medium from then on, in the cluster
\* the chain has for them, until a call changes them: f_write never destroys
\* the neighbours of the bytes it writes, whenever the power fails.
SyncedStays ==
  \A p \in DOMAIN stored : medium[SectorOf(p)][p % SS] = stored[p]

\* A buffer or a direct write that is late does not reach a cluster that is
\* another file's by now, unless f_truncate failed.
OthersKept ==
  hurt \/ \A s \in Sector : s[1] \in others => medium[s] = All(Theirs)

\* The same, whatever failed.
OthersKeptAlways ==
  \A s \in Sector : s[1] \in others => medium[s] = All(Theirs)
=============================================================================
