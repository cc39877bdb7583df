------------------------------- MODULE SdCard -------------------------------
(***************************************************************************)
(* The driver of an MMC or SD card on an SPI bus, src/mmc_sd_spi.c, with   *)
(* disk_ioctl of src/fat_fs/src/diskio.c, and the card it talks to.        *)
(*                                                                         *)
(* A step of the driver is one command with its response (sendCmd), one    *)
(* data block, or one wait.  Between any two steps the card may finish     *)
(* programming, leave the slot or be put back.  A card that is absent, or  *)
(* not selected, leaves the bus at 0xFF.                                   *)
(***************************************************************************)
EXTENDS Integers, Sequences

CONSTANTS
  Block,     \* block numbers the application uses
  Kind,      \* kinds of card: subset of {"HC", "SD2", "SD1", "MMC"}
  Value,     \* contents of a block
  Fresh,     \* contents of a new card: a function from Block to Value
  Timer,     \* polls of the initialization loops, 1000 in the code
  MaxBlks    \* bound: blocks of one request

ASSUME BlockAssumption == Block \subseteq Nat
ASSUME KindAssumption == Kind \subseteq {"HC", "SD2", "SD1", "MMC"}
ASSUME ValueAssumption == 0 \in Value
ASSUME FreshAssumption == Fresh \in [Block -> Value]
ASSUME TimerAssumption == Timer \in Nat \ {0, 1}
ASSUME MaxBlksAssumption == MaxBlks \in Nat \ {0}

VARIABLES
  card,   \* the slot: in, kind, mode, data and the block being programmed
  inst,   \* mmc_sd_t: SD_Init_OK and sdType
  cs,     \* whether chip select is asserted
  call    \* the call in progress, or the last one; lost: the slot was
          \* emptied or filled since it began

vars == <<card, inst, cs, call>>

Nothing == <<>>     \* no block is being programmed

HCS == 1          \* argument of ACMD41: the host can do high capacity

BlkSize == 512

----------------------------------------------------------------------------
(* The card.                                                               *)

Busy == card.prog # Nothing

\* What a reader of the card would find: the block being programmed counts.
Content ==
  [b \in Block |-> IF Busy /\ card.prog[1] = b THEN card.prog[2]
                                                ELSE card.data[b]]

\* The block an address names, if it names one: byte or block addressing.
Addressed(kind, arg) ==
  {b \in Block : arg = IF kind = "HC" THEN b ELSE b * BlkSize}

\* A card that finds nothing wrong with a command answers with its state.
State == IF card.mode = "idle" THEN "idle" ELSE "ready"

\* The initialization command (ACMD41, for MMC CMD1) makes the card ready
\* sooner or later; a high capacity card insists on the HCS bit.
Starts(hcs) ==
  {[r |-> "idle", mode |-> card.mode]} \cup
  (IF card.kind = "HC" /\ ~hcs /\ card.mode = "idle" THEN {}
   ELSE {[r |-> "ready", mode |-> "ready"]})

Same(r) == {[r |-> r, mode |-> card.mode]}

\* The answers of a card that heard the command, r being the R1 response:
\* "ready" is 0, "idle" 1, "err" any other value below 0x80.
Answer(cmd, arg) ==
  CASE cmd = "CMD0" -> {[r |-> "idle", mode |-> "idle"]}
    [] cmd # "CMD0" /\ card.mode = "native" -> {}
    [] cmd = "CMD8" /\ card.mode # "native" ->
         Same(IF card.kind \in {"HC", "SD2"} THEN State ELSE "err")
    [] cmd = "ACMD41" /\ card.mode # "native" ->
         IF card.kind = "MMC" THEN Same("err") ELSE Starts(arg = HCS)
    [] cmd = "CMD1" /\ card.mode # "native" -> Starts(FALSE)
    [] cmd \in {"CMD58", "CMD59"} /\ card.mode # "native" -> Same(State)
    [] cmd \in {"CMD9", "CMD16"} /\ card.mode # "native" ->
         Same(IF card.mode = "ready" THEN "ready" ELSE "err")
    [] cmd \in {"CMD17", "CMD24"} /\ card.mode # "native" ->
         Same(IF card.mode = "ready" /\ Addressed(card.kind, arg) # {}
                THEN "ready" ELSE "err")

\* sendCmd: a busy card lets select time out, which leaves it deselected; no
\* answer ("none", 0xFF) and an error answer are always possible.
sendCmd(cmd, arg) ==
  IF Busy THEN {[r |-> "none", mode |-> card.mode, cs |-> FALSE]}
  ELSE {[r |-> a.r, mode |-> a.mode, cs |-> TRUE] :
          a \in Same("none") \cup
                (IF card.in
                   THEN Answer(cmd, arg) \cup
                        (IF card.mode # "native" THEN Same("err") ELSE {})
                   ELSE {})}

\* The driver sends cmd, gets the response a.r and goes on as next says.
Command(a, next) ==
  /\ card' = [card EXCEPT !.mode = a.mode]
  /\ cs' = a.cs
  /\ call' = next

\* A new card, or the one that was pulled.
Insert(kind) ==
  /\ ~card.in
  /\ \E d \in {Fresh} \cup (IF kind = card.kind THEN {card.data} ELSE {}) :
       card' = [in |-> TRUE, kind |-> kind, mode |-> "native", data |-> d,
                prog |-> Nothing]
  /\ call' = [call EXCEPT !.lost = TRUE]
  /\ UNCHANGED <<inst, cs>>

\* The card is pulled: a block that is being programmed may be lost.
Remove ==
  /\ card.in
  /\ \E d \in {card.data, Content} :
       card' = [card EXCEPT !.in = FALSE, !.mode = "native", !.data = d,
                            !.prog = Nothing]
  /\ call' = [call EXCEPT !.lost = TRUE]
  /\ UNCHANGED <<inst, cs>>

Program ==
  /\ Busy
  /\ card' = [card EXCEPT !.data = Content, !.prog = Nothing]
  /\ UNCHANGED <<inst, cs, call>>

----------------------------------------------------------------------------
(* initCard.                                                               *)

Begin(op, pc, b, n, v) ==
  /\ call.pc = "done"
  /\ call' = [op |-> op, pc |-> pc, b |-> b, n |-> n, v |-> v, got |-> <<>>,
              done |-> 0, timer |-> Timer, cmd |-> "none", ty |-> "none",
              lost |-> FALSE, res |-> "RES_OK"]

initCard ==
  /\ Begin("init", "CMD0", 0, 0, 0)
  /\ inst' = [inst EXCEPT !.sdType = "IsSd"]
  /\ cs' = FALSE
  /\ UNCHANGED card

At(pc) == call.pc = pc
Goto(pc) == [call EXCEPT !.pc = pc]

\* initCard returns; its locals end with it.
Ended == [Goto("done") EXCEPT !.timer = Timer, !.cmd = "none", !.ty = "none"]

\* Nothing usable was found: ty stays 0 for the rest of the call.
NoType == [call EXCEPT !.pc = "CMD59", !.ty = "none"]

go_idle ==
  /\ At("CMD0")
  /\ \E a \in sendCmd("CMD0", 0) :
       Command(a, IF a.r = "idle" THEN Goto("CMD8") ELSE NoType)
  /\ UNCHANGED inst

\* echo: the four bytes after the response confirm the supply voltage.
send_if_cond(echo) ==
  /\ At("CMD8")
  /\ \E a \in sendCmd("CMD8", 0) :
       Command(a, IF a.r # "idle" THEN Goto("probe")
                  ELSE IF echo THEN [Goto("wait") EXCEPT !.cmd = "HCS"]
                  ELSE NoType)
  /\ UNCHANGED inst

\* SDv1 or MMC?
probe ==
  /\ At("probe")
  /\ \E a \in sendCmd("ACMD41", 0) :
       LET sd == a.r \in {"ready", "idle"} IN
       Command(a, [Goto("wait") EXCEPT !.ty = IF sd THEN "CT_SD1" ELSE "CT_MMC",
                                       !.cmd = IF sd THEN "ACMD41" ELSE "CMD1"])
  /\ UNCHANGED inst

AfterWait == IF call.cmd = "HCS" THEN "CMD58" ELSE "CMD16"

wait_poll_unguarded ==    \* mutant: the loop goes on at a timer of 0
  /\ At("wait")
  /\ \E a \in (IF call.cmd = "HCS" THEN sendCmd("ACMD41", HCS)
                                   ELSE sendCmd(call.cmd, 0)) :
       Command(a, IF a.r # "ready" THEN [call EXCEPT !.timer = @ - 1]
                  ELSE Goto(AfterWait))
  /\ UNCHANGED inst

wait_poll_forever ==    \* mutant: Timer1 is not counted down
  /\ At("wait")
  /\ \E a \in (IF call.cmd = "HCS" THEN sendCmd("ACMD41", HCS)
                                   ELSE sendCmd(call.cmd, 0)) :
       Command(a, IF a.r # "ready" THEN call ELSE Goto(AfterWait))
  /\ UNCHANGED inst

\* while (Timer1-- && sendCmd(...)): a poll that succeeds as Timer1 reaches 0
\* is taken for a time-out.
wait_poll ==
  /\ At("wait") /\ call.timer > 0
  /\ \E a \in (IF call.cmd = "HCS" THEN sendCmd("ACMD41", HCS)
                                   ELSE sendCmd(call.cmd, 0)) :
       LET t == call.timer - 1 IN
       Command(a, IF a.r # "ready" THEN [call EXCEPT !.timer = t]
                  ELSE IF t = 0 THEN NoType
                  ELSE Goto(AfterWait))
  /\ UNCHANGED inst

\* Timer1-- of 0 ends the loop and leaves Timer1 at its largest value, which
\* the test after the loop does not take for a time-out.
wait_timeout ==
  /\ At("wait") /\ call.timer = 0
  /\ call' = Goto(AfterWait)
  /\ UNCHANGED <<card, inst, cs>>

read_ocr_unchecked ==    \* mutant: the response to CMD58 is not looked at
  /\ At("CMD58")
  /\ \E a \in sendCmd("CMD58", 0) :
       /\ Command(a, [Goto("CMD59") EXCEPT !.ty = "CT_SD2"])
       /\ inst' = IF card.kind = "HC"
                    THEN [inst EXCEPT !.sdType = "IsSdhc"] ELSE inst

\* CCS of the OCR tells a block addressed card.
read_ocr ==
  /\ At("CMD58")
  /\ \E a \in sendCmd("CMD58", 0) :
       /\ Command(a, IF a.r = "ready" THEN [Goto("CMD59") EXCEPT !.ty = "CT_SD2"]
                                      ELSE NoType)
       /\ inst' = IF a.r = "ready" /\ card.kind = "HC"
                    THEN [inst EXCEPT !.sdType = "IsSdhc"] ELSE inst

set_blocklen ==
  /\ At("CMD16")
  /\ \E a \in sendCmd("CMD16", BlkSize) :
       Command(a, IF a.r = "ready" THEN Goto("CMD59") ELSE NoType)
  /\ UNCHANGED inst

\* crc_off: the outcome of CMD59 is ignored; without a type initCard fails.
crc_off ==
  /\ At("CMD59")
  /\ \E a \in sendCmd("CMD59", 0) :
       IF call.ty = "none"
         THEN /\ Command([a EXCEPT !.cs = FALSE], Ended)
              /\ inst' = [inst EXCEPT !.SD_Init_OK = FALSE]
         ELSE Command(a, Goto("CMD9")) /\ UNCHANGED inst

\* The CSD: a card that accepts CMD9 and then sends no data token fails the
\* initialization, one that does not accept it does not.
read_csd(token) ==
  /\ At("CMD9")
  /\ \E a \in sendCmd("CMD9", 0) :
       /\ Command([a EXCEPT !.cs = FALSE], Ended)
       /\ inst' = [inst EXCEPT !.SD_Init_OK = a.r # "ready" \/ token]

----------------------------------------------------------------------------
(* mmcSdSpiRead and mmcSdSpiWrite, one page at a time.                     *)

Request(op, b, n, v) ==
  /\ Begin(op, "page", b, n, v)
  /\ UNCHANGED <<card, inst, cs>>

\* Leave the call with the bus released.
Return(res) ==
  /\ call' = [call EXCEPT !.pc = "done", !.res = res]
  /\ cs' = FALSE

\* readPage and writePage refuse a drive that is not ready.
not_ready ==
  /\ At("page") /\ ~inst.SD_Init_OK
  /\ call' = [call EXCEPT !.pc = "done", !.res = "RES_ERROR"]
  /\ UNCHANGED <<card, inst, cs>>

AddressBlocks(b) == b    \* mutant: no conversion for byte addressing cards
Address(b) == IF inst.sdType = "IsSd" THEN b * BlkSize ELSE b

page_command ==
  LET cmd == IF call.op = "read" THEN "CMD17" ELSE "CMD24" IN
  /\ At("page") /\ inst.SD_Init_OK
  /\ \E a \in sendCmd(cmd, Address(call.b + call.done)) :
       IF a.r = "ready"
         THEN Command(a, Goto("data"))
         ELSE Command([a EXCEPT !.cs = FALSE],
                      [call EXCEPT !.pc = "done", !.res = "RES_ERROR"])
  /\ UNCHANGED inst

\* The block CMD17 or CMD24 addressed.
Target == Addressed(card.kind, Address(call.b + call.done))

\* The next page, or the end of the call.
Advance(new) ==
  /\ call' = [new EXCEPT !.done = @ + 1,
                         !.pc = IF call.done + 1 = call.n THEN "done" ELSE "page"]
  /\ cs' = FALSE

\* rcvrDatablock: the CRC is discarded, so a card that leaves after its data
\* token is not noticed and the rest of the block reads 0xFF.
receive ==
  /\ At("data") /\ call.op = "read"
  /\ \E x \in Value :
       /\ ~call.lost => \E b \in Target : x = Content[b]
       /\ Advance([call EXCEPT !.got = Append(@, x)])
  /\ UNCHANGED <<card, inst>>

no_token ==
  /\ At("data") /\ call.op = "read"
  /\ Return("RES_ERROR")
  /\ UNCHANGED <<card, inst>>

\* xmitDatablock: the card accepts the block and starts to program it.
accept ==
  /\ At("data") /\ call.op = "write"
  /\ card.in /\ ~call.lost
  /\ \E b \in Target : card' = [card EXCEPT !.prog = <<b, call.v>>]
  /\ Advance(call)
  /\ UNCHANGED inst

reject ==
  /\ At("data") /\ call.op = "write"
  /\ Return("RES_ERROR")
  /\ UNCHANGED <<card, inst>>

----------------------------------------------------------------------------
(* disk_ioctl with CTRL_SYNC.                                              *)

disk_ioctl ==
  /\ Begin("sync", "select", 0, 0, 0)
  /\ UNCHANGED <<card, inst, cs>>

\* select waits for the card; its result is ignored, and so is what
\* mmcSdSpiIoctl returns after a second wait.
sync_select(timeout) ==
  /\ At("select")
  /\ timeout <=> Busy
  /\ cs' = ~timeout
  /\ call' = Goto("done")
  /\ UNCHANGED <<card, inst>>

----------------------------------------------------------------------------
Init ==
  /\ \E in \in BOOLEAN, kind \in Kind :
       card = [in |-> in, kind |-> kind, mode |-> "native", data |-> Fresh,
               prog |-> Nothing]
  /\ inst = [SD_Init_OK |-> FALSE, sdType |-> "IsNoCard"]
  /\ cs = FALSE
  /\ call = [op |-> "none", pc |-> "done", b |-> 0, n |-> 0, v |-> 0,
             got |-> <<>>, done |-> 0, timer |-> Timer, cmd |-> "none",
             ty |-> "none", lost |-> FALSE, res |-> "RES_OK"]

InitStep ==
  \/ go_idle
  \/ \E echo \in BOOLEAN : send_if_cond(echo)
  \/ probe
  \/ wait_poll
  \/ wait_timeout
  \/ read_ocr
  \/ set_blocklen
  \/ crc_off
  \/ \E token \in BOOLEAN : read_csd(token)

PageStep == not_ready \/ page_command \/ receive \/ no_token \/ accept \/ reject

SyncStep == \E timeout \in BOOLEAN : sync_select(timeout)

\* The steps of a call that has begun.
DriverStep == InitStep \/ PageStep \/ SyncStep

Start ==
  \/ initCard
  \/ \E op \in {"read", "write"}, b \in Block, n \in 1 .. MaxBlks, v \in Value :
       b + n - 1 \in Block /\ (op = "read" => v = 0) /\ Request(op, b, n, v)
  \/ disk_ioctl

CardStep == Remove \/ Program \/ \E kind \in Kind : Insert(kind)

Next == Start \/ DriverStep \/ CardStep

Spec == Init /\ [][Next]_vars

\* The driver is the only thread: a call that has begun goes on.
FairSpec == Spec /\ WF_vars(DriverStep)

----------------------------------------------------------------------------
(* Properties.                                                             *)

\* The variables stay in their domains: the timer is never counted below 0
\* and no more blocks are moved than were asked for.
TypeOK ==
  /\ card \in [in : BOOLEAN, kind : Kind,
              mode : {"native", "idle", "ready"}, data : [Block -> Value],
              prog : {Nothing} \cup (Block \X Value)]
  /\ inst \in [SD_Init_OK : BOOLEAN, sdType : {"IsNoCard", "IsSd", "IsSdhc"}]
  /\ cs \in BOOLEAN
  /\ call.timer \in 0 .. Timer
  /\ call.done \in 0 .. call.n
  /\ Len(call.got) = IF call.op = "read" THEN call.done ELSE 0

\* initCard returns true only for a card it brought to the ready state, and
\* then knows whether the card is addressed by bytes or by blocks, unless
\* the card was exchanged under it (initCard and its commands that fail).
InitMatches ==
  call.op = "init" /\ call.pc = "done" /\ inst.SD_Init_OK /\ ~call.lost =>
    /\ card.mode = "ready"
    /\ inst.sdType = IF card.kind = "HC" THEN "IsSdhc" ELSE "IsSd"

Req ==
  [op |-> "none", b |-> 0, n |-> 0, v |-> 0, got |-> <<>>, done |-> 0,
   lost |-> call.lost, res |-> "RES_OK"]

Requested ==
  IF call.op \notin {"read", "write"} THEN Req
  ELSE [op |-> call.op, b |-> call.b, n |-> call.n, v |-> call.v, got |-> call.got,
        done |-> call.done, lost |-> call.lost,
        res |-> IF call.pc = "done" THEN call.res ELSE "busy"]

Store == INSTANCE BlockStore WITH store <- Content, req <- Requested

\* mmcSdSpiRead and mmcSdSpiWrite, through initialization, addressing, pages
\* and cards that come and go, read and write exactly the blocks they are
\* asked for, never those of a card that was put in since initCard, and
\* return RES_OK only after the last one.
ImplementsBlockStore == Store!Spec

\* Every call of the driver returns, whatever the card does: there is no card
\* it polls forever (the counted loops of initCard, sendCmd and waitReady).
CallsReturn == call.pc # "done" ~> call.pc = "done"
=============================================================================
