----------------------------- MODULE SdCardProofs -----------------------------
(***************************************************************************)
(* Proofs about module SdCard, for any blocks, any kinds of cards, any     *)
(* number of polls and any length of a request: its invariants, and, in    *)
(* the second half, that the driver implements BlockStore.                 *)
(***************************************************************************)
EXTENDS SdCard, TLAPS

Modes  == {"native", "idle", "ready"}
Reply  == [r : {"none", "ready", "idle", "err"}, mode : Modes, cs : BOOLEAN]
Slot   == [in : BOOLEAN, kind : Kind, mode : Modes, data : [Block -> Value],
           prog : {Nothing} \cup (Block \X Value)]
Drive  == [SD_Init_OK : BOOLEAN, sdType : {"IsNoCard", "IsSd", "IsSdhc"}]

Probing == {"CMD0", "CMD8", "probe", "wait", "CMD58", "CMD16"}
Place   == Probing \cup {"CMD59", "CMD9", "page", "data", "select", "done"}

CallRecord ==
  [op : {"none", "init", "read", "write", "sync"}, pc : Place, b : Int, n : Nat,
   v : Value, got : Seq(Value), done : Nat, timer : 0 .. Timer,
   cmd : {"none", "HCS", "ACMD41", "CMD1"},
   ty : {"none", "CT_SD1", "CT_SD2", "CT_MMC"}, lost : BOOLEAN,
   res : {"RES_OK", "RES_ERROR"}]

----------------------------------------------------------------------------
(* The invariant.                                                          *)

\* A page is under way only in a request that is not complete.
PageInRequest ==
  /\ call.pc \in {"page", "data"} => call.op \in {"read", "write"} /\ call.done < call.n
  /\ call.pc = "select" => call.op = "sync"
  /\ call.pc = "wait" => call.cmd # "none"
  /\ call.done <= call.n
  /\ Len(call.got) = IF call.op = "read" THEN call.done ELSE 0

Matches ==
  /\ card.mode = "ready"
  /\ inst.sdType = IF card.kind = "HC" THEN "IsSdhc" ELSE "IsSd"

\* Where the type of the card is settled, and that no high capacity card gets
\* ready by the commands meant for the others.  A card that was put in during
\* the call stays in its native mode unless CMD0 is still to be sent to it.
InitOrder ==
  /\ call.pc = "CMD0" => inst.sdType = "IsSd"
  /\ call.op = "init" /\ (~call.lost \/ card.mode # "native") =>
       /\ call.pc \in Probing => inst.sdType = "IsSd"
       /\ (call.pc \in {"CMD8", "probe", "CMD16"} \/ (call.pc = "wait" /\ call.cmd # "HCS"))
            /\ card.kind = "HC" => card.mode # "ready"
       /\ (call.pc = "CMD59" /\ call.ty # "none") \/ call.pc = "CMD9" => Matches
       /\ call.pc = "done" /\ inst.SD_Init_OK => Matches

Inv ==
  /\ card \in Slot
  /\ inst \in Drive
  /\ cs \in BOOLEAN
  /\ call \in CallRecord
  /\ PageInRequest
  /\ InitOrder

LEMMA InvTypes == Inv => TypeOK
BY DEF Inv, TypeOK, Slot, Drive, CallRecord, PageInRequest, Modes

----------------------------------------------------------------------------
(* The card's answers.                                                     *)

LEMMA CardReplies ==
  ASSUME Inv, NEW cmd, NEW arg,
         NEW a \in sendCmd(cmd, arg)
  PROVE  \/ a.r = "none" /\ a.mode = card.mode /\ a \in Reply
         \/ a.r = "err" /\ a.mode = card.mode /\ a \in Reply
         \/ \E x \in Answer(cmd, arg) : a = [r |-> x.r, mode |-> x.mode, cs |-> TRUE]
<1>1. card.mode \in Modes
  BY DEF Inv, Slot
<1>2. CASE Busy
  <2>1. a = [r |-> "none", mode |-> card.mode, cs |-> FALSE]
    BY <1>2, Zenon DEF sendCmd
  <2> QED
    BY <1>1, <2>1 DEF Reply
<1>3. CASE ~Busy
  <2> DEFINE All == Same("none") \cup
                (IF card.in
                   THEN Answer(cmd, arg) \cup
                        (IF card.mode # "native" THEN Same("err") ELSE {})
                   ELSE {})
  <2>1. a \in {[r |-> x.r, mode |-> x.mode, cs |-> TRUE] : x \in All}
    BY <1>3, Zenon DEF sendCmd
  <2>2. PICK x \in All : a = [r |-> x.r, mode |-> x.mode, cs |-> TRUE]
    BY <2>1
  <2>3. x \in Answer(cmd, arg) \/ x \in Same("none") \/ x \in Same("err")
    BY <2>2
  <2>4. CASE x \in Same("none")
    BY <1>1, <2>2, <2>4 DEF Same, Reply
  <2>5. CASE x \in Same("err")
    BY <1>1, <2>2, <2>5 DEF Same, Reply
  <2>6. CASE x \in Answer(cmd, arg)
    BY <2>2, <2>6
  <2> QED
    BY <2>3, <2>4, <2>5, <2>6
<1> QED
  BY <1>2, <1>3

LEMMA ReplyToCMD0 ==
  ASSUME Inv, NEW a \in sendCmd("CMD0", 0)
  PROVE  a \in Reply /\ (a.r = "idle" => a.mode = "idle")
<1>1. Answer("CMD0", 0) = {[r |-> "idle", mode |-> "idle"]}
  BY DEF Answer
<1>2. ASSUME NEW x \in Answer("CMD0", 0), a = [r |-> x.r, mode |-> x.mode, cs |-> TRUE]
      PROVE  a \in Reply /\ a.mode = "idle"
  BY <1>1, <1>2 DEF Reply, Modes
<1> QED
  BY <1>2, CardReplies

\* These commands leave the mode of the card alone, and those that are
\* answered with 0 found it ready.
LEMMA ReplyToQuery ==
  ASSUME Inv, NEW arg,
         NEW cmd \in {"CMD8", "CMD58", "CMD59", "CMD9", "CMD16", "CMD17", "CMD24"},
         NEW a \in sendCmd(cmd, arg)
  PROVE  a \in Reply /\ a.mode = card.mode /\ (a.r = "ready" => card.mode = "ready")
<1>1. card.mode \in Modes
  BY DEF Inv, Slot
<1>2. Answer(cmd, arg) \subseteq Same("err") \cup Same(State)
        \cup (IF card.mode = "ready" THEN Same("ready") ELSE {})
  BY <1>1 DEF Answer, Modes, Same, State
<1>3. ASSUME NEW x \in Answer(cmd, arg), a = [r |-> x.r, mode |-> x.mode, cs |-> TRUE]
      PROVE  a \in Reply /\ a.mode = card.mode /\ (a.r = "ready" => card.mode = "ready" \/ card.mode = "native")
  BY <1>1, <1>2, <1>3 DEF Same, State, Reply, Modes
<1>4. card.mode = "native" => Answer(cmd, arg) = {}
  BY DEF Answer
<1> QED
  BY <1>3, <1>4, CardReplies

\* The initialization commands without HCS never start a high capacity card.
LEMMA ReplyToStart ==
  ASSUME Inv, NEW arg \in {0, HCS}, NEW cmd \in {"ACMD41", "CMD1"}, NEW a \in sendCmd(cmd, arg)
  PROVE  /\ a \in Reply
         /\ (cmd = "CMD1" \/ arg = 0) /\ card.kind = "HC" /\ card.mode # "ready" => a.mode # "ready"
         /\ card.mode = "native" => a.mode = "native"
<1>1. card.mode \in Modes
  BY DEF Inv, Slot
<1>2. \A x \in Answer(cmd, arg) :
        /\ x \in [r : {"ready", "idle", "err"}, mode : Modes]
        /\ (cmd = "CMD1" \/ arg = 0) /\ card.kind = "HC" /\ card.mode # "ready" => x.mode # "ready"
        /\ card.mode # "native"
  <2>1. CASE card.mode = "native"
    <3>1. Answer(cmd, arg) = {}
      BY <2>1 DEF Answer
    <3> QED
      BY <3>1
  <2>2. CASE card.mode # "native" /\ cmd = "CMD1"
    <3>1. Answer(cmd, arg) = Starts(FALSE)
      BY <2>2 DEF Answer
    <3> QED
      BY <1>1, <2>2, <3>1 DEF Starts, Modes
  <2>3. CASE card.mode # "native" /\ cmd = "ACMD41"
    <3>1. Answer(cmd, arg) = IF card.kind = "MMC" THEN Same("err") ELSE Starts(arg = HCS)
      BY <2>3 DEF Answer
    <3>2. CASE card.kind = "MMC"
      BY <1>1, <2>3, <3>1, <3>2 DEF Same, Modes
    <3>3. CASE card.kind # "MMC"
      BY <1>1, <2>3, <3>1, <3>3 DEF Starts, Modes, HCS
    <3> QED
      BY <3>2, <3>3
  <2> QED
    BY <2>1, <2>2, <2>3
<1>3. ASSUME NEW x \in Answer(cmd, arg), a = [r |-> x.r, mode |-> x.mode, cs |-> TRUE]
      PROVE  a \in Reply /\ a.mode = x.mode
  BY <1>2, <1>3 DEF Reply
<1> QED
  BY <1>2, <1>3, CardReplies

----------------------------------------------------------------------------
(* initCard.                                                               *)

\* What a step of initCard changes of a call.
Steps(next) ==
  /\ next \in CallRecord
  /\ next.pc \in Probing \cup {"CMD59", "CMD9", "done"}
  /\ next.pc = "wait" => next.cmd # "none"
  /\ next.op = call.op /\ next.n = call.n /\ next.got = call.got
  /\ next.done = call.done /\ next.lost = call.lost

LEMMA InitStepInv ==
  ASSUME Inv, NEW a \in Reply, NEW next, Steps(next), Command(a, next),
         inst' \in Drive, InitOrder'
  PROVE  Inv'
<1>1. card' \in Slot
  BY DEF Command, Inv, Slot, Reply
<1>2. cs' \in BOOLEAN
  BY DEF Command, Reply
<1>3. call' \in CallRecord
  BY DEF Command, Steps
<1>4. PageInRequest'
  BY DEF Command, Steps, Inv, PageInRequest, Probing
<1> QED
  BY <1>1, <1>2, <1>3, <1>4 DEF Inv

\* The calls that the steps of initCard go on with.
LEMMA NextCalls ==
  ASSUME Inv
  PROVE  /\ \A pc \in (Probing \cup {"CMD59", "CMD9"}) \ {"wait"} : Steps(Goto(pc))
         /\ Steps(NoType) /\ Steps(Ended)
         /\ Steps([Goto("wait") EXCEPT !.cmd = "HCS"])
         /\ \A t \in {"CT_SD1", "CT_MMC"}, c \in {"ACMD41", "CMD1"} :
              Steps([Goto("wait") EXCEPT !.ty = t, !.cmd = c])
         /\ Steps([Goto("CMD59") EXCEPT !.ty = "CT_SD2"])
         /\ \A t \in 0 .. Timer : Steps([call EXCEPT !.timer = t])
              \/ call.pc \notin Probing \cup {"CMD59", "CMD9", "done"}
<1>1. call \in CallRecord /\ 0 <= Timer /\ Timer \in 0 .. Timer
  BY TimerAssumption DEF Inv
<1>2. \A pc \in (Probing \cup {"CMD59", "CMD9"}) \ {"wait"} : Steps(Goto(pc))
  BY <1>1 DEF Steps, Goto, CallRecord, Place, Probing
<1>3. Steps(NoType)
  BY <1>1 DEF Steps, NoType, CallRecord, Place
<1>4. Steps(Ended)
  BY <1>1 DEF Steps, Ended, Goto, CallRecord, Place
<1>5. Steps([Goto("wait") EXCEPT !.cmd = "HCS"])
  BY <1>1 DEF Steps, Goto, CallRecord, Place, Probing
<1>6. ASSUME NEW t \in {"CT_SD1", "CT_MMC"}, NEW c \in {"ACMD41", "CMD1"}
      PROVE  Steps([Goto("wait") EXCEPT !.ty = t, !.cmd = c])
  <2>1. /\ t \in {"none", "CT_SD1", "CT_SD2", "CT_MMC"}
        /\ c \in {"none", "HCS", "ACMD41", "CMD1"} /\ c # "none"
    OBVIOUS
  <2>2. "wait" \in Place /\ "wait" \in Probing
    BY DEF Place, Probing
  <2>3. [Goto("wait") EXCEPT !.ty = t, !.cmd = c] \in CallRecord
    BY <1>1, <2>1, <2>2 DEF Goto, CallRecord
  <2> QED
    BY <1>1, <2>1, <2>2, <2>3 DEF Goto, CallRecord, Steps
<1>7. Steps([Goto("CMD59") EXCEPT !.ty = "CT_SD2"])
  BY <1>1 DEF Steps, Goto, CallRecord, Place, Probing
<1>8. ASSUME NEW t \in 0 .. Timer, call.pc \in Probing \cup {"CMD59", "CMD9", "done"}
      PROVE  Steps([call EXCEPT !.timer = t])
  BY <1>1, <1>8 DEF Steps, CallRecord, Place, Inv, PageInRequest
<1> QED
  BY <1>2, <1>3, <1>4, <1>5, <1>6, <1>7, <1>8

\* After NoType nothing is claimed of the card.
LEMMA NoTypeOrder ==
  ASSUME Inv, NEW a \in Reply, Command(a, NoType)
  PROVE  InitOrder'
<1>1. call'.pc = "CMD59" /\ call'.ty = "none"
  BY DEF Command, NoType, Inv, CallRecord
<1> QED
  BY <1>1 DEF InitOrder, Probing

LEMMA GoIdleInv ==
  ASSUME Inv, go_idle
  PROVE  Inv'
<1>1. PICK a \in sendCmd("CMD0", 0) :
        Command(a, IF a.r = "idle" THEN Goto("CMD8") ELSE NoType)
  BY DEF go_idle
<1>2. a \in Reply /\ (a.r = "idle" => a.mode = "idle")
  BY ReplyToCMD0
<1>3. inst' = inst /\ inst' \in Drive /\ call.pc = "CMD0"
  BY DEF go_idle, Inv, At
<1>4. CASE a.r = "idle"
  <2>1. Command(a, Goto("CMD8"))
    BY <1>1, <1>4
  <2>2. InitOrder'
    BY <1>2, <1>3, <1>4, <2>1 DEF Command, Goto, Inv, InitOrder, Slot, CallRecord, Probing
  <2> QED
    BY <1>2, <1>3, <2>1, <2>2, NextCalls, InitStepInv DEF Probing
<1>5. CASE a.r # "idle"
  <2>1. Command(a, NoType)
    BY <1>1, <1>5
  <2> QED
    BY <1>2, <1>3, <2>1, NoTypeOrder, NextCalls, InitStepInv
<1> QED
  BY <1>4, <1>5

LEMMA SendIfCondInv ==
  ASSUME Inv, NEW echo \in BOOLEAN, send_if_cond(echo)
  PROVE  Inv'
<1>1. PICK a \in sendCmd("CMD8", 0) :
        Command(a, IF a.r # "idle" THEN Goto("probe")
                   ELSE IF echo THEN [Goto("wait") EXCEPT !.cmd = "HCS"]
                   ELSE NoType)
  BY DEF send_if_cond
<1>2. a \in Reply /\ a.mode = card.mode
  BY ReplyToQuery
<1>3. inst' = inst /\ inst' \in Drive /\ call.pc = "CMD8"
  BY DEF send_if_cond, Inv, At
<1>4. CASE a.r # "idle"
  <2>1. Command(a, Goto("probe"))
    BY <1>1, <1>4
  <2>2. InitOrder'
    BY <1>2, <1>3, <2>1 DEF Command, Goto, Inv, InitOrder, Slot, CallRecord, Probing
  <2> QED
    BY <1>2, <1>3, <2>1, <2>2, NextCalls, InitStepInv DEF Probing
<1>5. CASE a.r = "idle" /\ echo
  <2>1. Command(a, [Goto("wait") EXCEPT !.cmd = "HCS"])
    BY <1>1, <1>5
  <2>2. InitOrder'
    BY <1>2, <1>3, <2>1 DEF Command, Goto, Inv, InitOrder, Slot, CallRecord, Probing
  <2> QED
    BY <1>2, <1>3, <2>1, <2>2, NextCalls, InitStepInv
<1>6. CASE a.r = "idle" /\ ~echo
  <2>1. Command(a, NoType)
    BY <1>1, <1>6
  <2> QED
    BY <1>2, <1>3, <2>1, NoTypeOrder, NextCalls, InitStepInv
<1> QED
  BY <1>4, <1>5, <1>6

LEMMA ProbeInv ==
  ASSUME Inv, probe
  PROVE  Inv'
<1>1. PICK a \in sendCmd("ACMD41", 0) :
        LET sd == a.r \in {"ready", "idle"} IN
        Command(a, [Goto("wait") EXCEPT !.ty = IF sd THEN "CT_SD1" ELSE "CT_MMC",
                                        !.cmd = IF sd THEN "ACMD41" ELSE "CMD1"])
  BY DEF probe
<1>2. /\ a \in Reply
      /\ card.kind = "HC" /\ card.mode # "ready" => a.mode # "ready"
      /\ card.mode = "native" => a.mode = "native"
  BY ReplyToStart
<1>3. inst' = inst /\ inst' \in Drive /\ call.pc = "probe"
  BY DEF probe, Inv, At
<1>4. PICK t \in {"CT_SD1", "CT_MMC"}, c \in {"ACMD41", "CMD1"} :
        Command(a, [Goto("wait") EXCEPT !.ty = t, !.cmd = c])
  BY <1>1
<1>5. InitOrder'
  BY <1>2, <1>3, <1>4 DEF Command, Goto, Inv, InitOrder, Slot, CallRecord, Probing
<1> QED
  BY <1>2, <1>3, <1>4, <1>5, NextCalls, InitStepInv

\* A poll of the card for readiness.
Poll(a) ==
  \/ /\ call.cmd = "HCS" /\ a \in sendCmd("ACMD41", HCS)
  \/ /\ call.cmd \in {"ACMD41", "CMD1"} /\ a \in sendCmd(call.cmd, 0)

LEMMA PollReply ==
  ASSUME Inv, NEW a, Poll(a)
  PROVE  /\ a \in Reply
         /\ call.cmd # "HCS" /\ card.kind = "HC" /\ card.mode # "ready" => a.mode # "ready"
         /\ card.mode = "native" => a.mode = "native"
<1>1. CASE call.cmd = "HCS" /\ a \in sendCmd("ACMD41", HCS)
  BY <1>1, ReplyToStart
<1>2. CASE call.cmd \in {"ACMD41", "CMD1"} /\ a \in sendCmd(call.cmd, 0)
  BY <1>2, ReplyToStart
<1> QED
  BY <1>1, <1>2 DEF Poll

\* After the last poll the call goes on at CMD58 or CMD16.
LEMMA AfterWaitOrder ==
  ASSUME Inv, call.pc = "wait", inst' = inst, NEW mode \in Modes,
         card' = [card EXCEPT !.mode = mode], call' = Goto(AfterWait),
         call.cmd # "HCS" /\ card.kind = "HC" /\ card.mode # "ready" => mode # "ready",
         card.mode = "native" => mode = "native"
  PROVE  InitOrder'
BY DEF Goto, AfterWait, Inv, InitOrder, Slot, CallRecord, Probing

LEMMA WaitPollInv ==
  ASSUME Inv, wait_poll
  PROVE  Inv'
<1> DEFINE t == call.timer - 1
<1>1. inst' = inst /\ inst' \in Drive /\ call.pc = "wait" /\ t \in 0 .. Timer
  BY TimerAssumption DEF wait_poll, Inv, At, CallRecord
<1>2. call.cmd \in {"HCS", "ACMD41", "CMD1"}
  BY <1>1 DEF Inv, CallRecord, PageInRequest
<1>3. PICK a \in (IF call.cmd = "HCS" THEN sendCmd("ACMD41", HCS)
                                      ELSE sendCmd(call.cmd, 0)) :
        Command(a, IF a.r # "ready" THEN [call EXCEPT !.timer = t]
                   ELSE IF t = 0 THEN NoType ELSE Goto(AfterWait))
  BY DEF wait_poll
<1>4. Poll(a)
  BY <1>2, <1>3 DEF Poll
<1>5. /\ a \in Reply
      /\ call.cmd # "HCS" /\ card.kind = "HC" /\ card.mode # "ready" => a.mode # "ready"
      /\ card.mode = "native" => a.mode = "native"
  BY <1>4, PollReply
<1> HIDE DEF t
<1>6. CASE a.r # "ready"
  <2>1. Command(a, [call EXCEPT !.timer = t])
    BY <1>3, <1>6
  <2>2. Steps([call EXCEPT !.timer = t])
    BY <1>1, NextCalls DEF Probing
  <2>3. InitOrder'
    BY <1>1, <1>5, <2>1 DEF Command, Inv, InitOrder, Slot, CallRecord, Probing
  <2> QED
    BY <1>1, <1>5, <2>1, <2>2, <2>3, InitStepInv
<1>7. CASE a.r = "ready" /\ t = 0
  <2>1. Command(a, NoType)
    BY <1>3, <1>7
  <2> QED
    BY <1>1, <1>5, <2>1, NoTypeOrder, NextCalls, InitStepInv
<1>8. CASE a.r = "ready" /\ t # 0
  <2>1. Command(a, Goto(AfterWait))
    BY <1>3, <1>8
  <2>2. Steps(Goto(AfterWait))
    BY NextCalls DEF AfterWait, Probing
  <2>3. InitOrder'
    BY <1>1, <1>5, <2>1, AfterWaitOrder DEF Command, Reply
  <2> QED
    BY <1>1, <1>5, <2>1, <2>2, <2>3, InitStepInv
<1> QED
  BY <1>6, <1>7, <1>8

LEMMA WaitTimeoutInv ==
  ASSUME Inv, wait_timeout
  PROVE  Inv'
<1>1. /\ call.pc = "wait" /\ call' = Goto(AfterWait) /\ UNCHANGED <<card, inst, cs>>
      /\ inst' \in Drive
  BY DEF wait_timeout, At, Inv
<1> DEFINE a == [r |-> "none", mode |-> card.mode, cs |-> cs]
<1>2. a \in Reply
  BY DEF Inv, Slot, Reply
<1>3. card' = [card EXCEPT !.mode = card.mode] /\ card.mode \in Modes
  BY <1>1 DEF Inv, Slot
<1>4. Command(a, Goto(AfterWait))
  BY <1>1, <1>3 DEF Command
<1>5. Steps(Goto(AfterWait))
  BY NextCalls DEF AfterWait, Probing
<1>6. InitOrder'
  BY <1>1, <1>3, AfterWaitOrder
<1> HIDE DEF a
<1> QED
  BY <1>1, <1>2, <1>4, <1>5, <1>6, InitStepInv

LEMMA ReadOcrInv ==
  ASSUME Inv, read_ocr
  PROVE  Inv'
<1>1. PICK a \in sendCmd("CMD58", 0) :
        /\ Command(a, IF a.r = "ready" THEN [Goto("CMD59") EXCEPT !.ty = "CT_SD2"]
                                       ELSE NoType)
        /\ inst' = IF a.r = "ready" /\ card.kind = "HC"
                     THEN [inst EXCEPT !.sdType = "IsSdhc"] ELSE inst
  BY DEF read_ocr
<1>2. a \in Reply /\ a.mode = card.mode /\ (a.r = "ready" => card.mode = "ready")
  BY ReplyToQuery
<1>3. call.pc = "CMD58" /\ inst' \in Drive
  BY <1>1 DEF read_ocr, At, Inv, Drive
<1>4. CASE a.r = "ready"
  <2>1. Command(a, [Goto("CMD59") EXCEPT !.ty = "CT_SD2"])
    BY <1>1, <1>4
  <2>2. call'.op = call.op /\ call'.lost = call.lost /\ call'.pc = "CMD59"
    BY <2>1 DEF Command, Goto, Inv, CallRecord
  <2>3. card'.mode = "ready" /\ card'.kind = card.kind
    BY <1>2, <1>4, <2>1 DEF Command, Inv, Slot
  <2>4. call.op = "init" => inst.sdType = "IsSd"
    BY <1>2, <1>3, <1>4 DEF Inv, InitOrder, Probing
  <2>5. call.op = "init" => Matches'
    BY <1>1, <1>4, <2>3, <2>4 DEF Matches, Inv, Drive
  <2>6. InitOrder'
    BY <2>2, <2>5 DEF InitOrder, Probing
  <2> QED
    BY <1>2, <1>3, <2>1, <2>6, NextCalls, InitStepInv
<1>5. CASE a.r # "ready"
  <2>1. Command(a, NoType)
    BY <1>1, <1>5
  <2> QED
    BY <1>2, <1>3, <2>1, NoTypeOrder, NextCalls, InitStepInv
<1> QED
  BY <1>4, <1>5

LEMMA SetBlocklenInv ==
  ASSUME Inv, set_blocklen
  PROVE  Inv'
<1>1. PICK a \in sendCmd("CMD16", BlkSize) :
        Command(a, IF a.r = "ready" THEN Goto("CMD59") ELSE NoType)
  BY DEF set_blocklen
<1>2. a \in Reply /\ a.mode = card.mode /\ (a.r = "ready" => card.mode = "ready")
  BY ReplyToQuery
<1>3. call.pc = "CMD16" /\ inst' = inst /\ inst' \in Drive
  BY DEF set_blocklen, At, Inv
<1>4. CASE a.r = "ready"
  <2>1. Command(a, Goto("CMD59"))
    BY <1>1, <1>4
  <2>2. call'.op = call.op /\ call'.lost = call.lost /\ call'.pc = "CMD59"
    BY <2>1 DEF Command, Goto, Inv, CallRecord
  <2>3. card'.mode = "ready" /\ card'.kind = card.kind
    BY <1>2, <1>4, <2>1 DEF Command, Inv, Slot
  <2>4. call.op = "init" => inst.sdType = "IsSd" /\ card.kind # "HC"
    BY <1>2, <1>3, <1>4 DEF Inv, InitOrder, Probing
  <2>5. call.op = "init" => Matches'
    BY <1>3, <2>3, <2>4 DEF Matches
  <2>6. InitOrder'
    BY <2>2, <2>5 DEF InitOrder, Probing
  <2> QED
    BY <1>2, <1>3, <2>1, <2>6, NextCalls, InitStepInv DEF Probing
<1>5. CASE a.r # "ready"
  <2>1. Command(a, NoType)
    BY <1>1, <1>5
  <2> QED
    BY <1>2, <1>3, <2>1, NoTypeOrder, NextCalls, InitStepInv
<1> QED
  BY <1>4, <1>5

\* crc_off and read_csd know the type already.
LEMMA CrcOffInv ==
  ASSUME Inv, crc_off
  PROVE  Inv'
<1>1. PICK a \in sendCmd("CMD59", 0) :
        IF call.ty = "none"
          THEN /\ Command([a EXCEPT !.cs = FALSE], Ended)
               /\ inst' = [inst EXCEPT !.SD_Init_OK = FALSE]
          ELSE Command(a, Goto("CMD9")) /\ UNCHANGED inst
  BY DEF crc_off
<1>2. a \in Reply /\ [a EXCEPT !.cs = FALSE] \in Reply /\ a.mode = card.mode
  BY ReplyToQuery DEF Reply
<1>3. call.pc = "CMD59" /\ inst' \in Drive
  BY <1>1 DEF crc_off, At, Inv, Drive
<1>4. CASE call.ty = "none"
  <2>1. Command([a EXCEPT !.cs = FALSE], Ended) /\ ~inst'.SD_Init_OK
    BY <1>1, <1>4 DEF Inv, Drive
  <2>2. call'.pc = "done"
    BY <2>1 DEF Command, Ended, Goto, Inv, CallRecord
  <2>3. InitOrder'
    BY <2>1, <2>2 DEF InitOrder, Probing
  <2> QED
    BY <1>2, <1>3, <2>1, <2>3, NextCalls, InitStepInv
<1>5. CASE call.ty # "none"
  <2>1. Command(a, Goto("CMD9")) /\ inst' = inst
    BY <1>1, <1>5
  <2>2. call'.op = call.op /\ call'.lost = call.lost /\ call'.pc = "CMD9"
    BY <2>1 DEF Command, Goto, Inv, CallRecord
  <2>3. card' = card
    BY <1>2, <2>1 DEF Command, Inv, Slot
  <2>4. InitOrder'
    BY <1>3, <1>5, <2>1, <2>2, <2>3 DEF InitOrder, Probing, Matches, Inv
  <2> QED
    BY <1>2, <1>3, <2>1, <2>4, NextCalls, InitStepInv DEF Probing
<1> QED
  BY <1>4, <1>5

LEMMA ReadCsdInv ==
  ASSUME Inv, NEW token \in BOOLEAN, read_csd(token)
  PROVE  Inv'
<1>1. PICK a \in sendCmd("CMD9", 0) :
        /\ Command([a EXCEPT !.cs = FALSE], Ended)
        /\ inst' = [inst EXCEPT !.SD_Init_OK = a.r # "ready" \/ token]
  BY DEF read_csd
<1>2. [a EXCEPT !.cs = FALSE] \in Reply /\ a.mode = card.mode /\ a \in Reply
  BY ReplyToQuery DEF Reply
<1>3. call.pc = "CMD9" /\ inst' \in Drive /\ inst'.sdType = inst.sdType
  BY <1>1 DEF read_csd, At, Inv, Drive
<1>4. call'.op = call.op /\ call'.lost = call.lost /\ call'.pc = "done"
  BY <1>1 DEF Command, Ended, Goto, Inv, CallRecord
<1>5. card' = card
  BY <1>1, <1>2 DEF Command, Inv, Slot, Reply
<1>6. InitOrder'
  BY <1>3, <1>4, <1>5 DEF InitOrder, Probing, Matches, Inv
<1> QED
  BY <1>1, <1>2, <1>3, <1>6, NextCalls, InitStepInv

LEMMA InitStepsInv ==
  ASSUME Inv, InitStep
  PROVE  Inv'
BY GoIdleInv, SendIfCondInv, ProbeInv, WaitPollInv, WaitTimeoutInv, ReadOcrInv,
   SetBlocklenInv, CrcOffInv, ReadCsdInv DEF InitStep

----------------------------------------------------------------------------
(* Requests, CTRL_SYNC and the slot.                                       *)

\* A new call.
LEMMA BeginInv ==
  ASSUME Inv, NEW op \in {"init", "read", "write", "sync"},
         NEW pc \in {"CMD0", "page", "select"}, NEW b \in Int, NEW n \in Nat, NEW v \in Value,
         Begin(op, pc, b, n, v), card' = card, cs' \in BOOLEAN, inst' \in Drive,
         pc = "CMD0" => op = "init" /\ inst'.sdType = "IsSd",
         pc = "page" => op \in {"read", "write"} /\ 0 < n,
         pc = "select" => op = "sync"
  PROVE  Inv'
<1>1. call' = [op |-> op, pc |-> pc, b |-> b, n |-> n, v |-> v, got |-> <<>>,
               done |-> 0, timer |-> Timer, cmd |-> "none", ty |-> "none",
               lost |-> FALSE, res |-> "RES_OK"]
  BY DEF Begin
<1>2. <<>> \in Seq(Value) /\ Len(<<>>) = 0 /\ Timer \in 0 .. Timer /\ pc \in Place
  BY TimerAssumption DEF Place, Probing
<1>3. op \in {"none", "init", "read", "write", "sync"}
  OBVIOUS
<1>4. call' \in CallRecord
  BY <1>1, <1>2, <1>3 DEF CallRecord
<1>5. PageInRequest'
  BY <1>1, <1>2 DEF PageInRequest
<1>6. InitOrder'
  BY <1>1 DEF InitOrder, Probing
<1> QED
  BY <1>4, <1>5, <1>6 DEF Inv

LEMMA StartInv ==
  ASSUME Inv, Start
  PROVE  Inv'
<1>1. CASE initCard
  <2>1. Begin("init", "CMD0", 0, 0, 0) /\ card' = card /\ cs' = FALSE
    BY <1>1 DEF initCard
  <2>2. inst' \in Drive /\ inst'.sdType = "IsSd"
    BY <1>1 DEF initCard, Inv, Drive
  <2>3. cs' \in BOOLEAN
    BY <2>1, Zenon
  <2>4. 0 \in Value /\ 0 \in Int /\ 0 \in Nat
    BY ValueAssumption
  <2> QED
    BY <2>1, <2>2, <2>3, <2>4, BeginInv
<1>2. ASSUME NEW op \in {"read", "write"}, NEW b \in Block, NEW n \in 1 .. MaxBlks, NEW v \in Value,
             Request(op, b, n, v)
      PROVE  Inv'
  <2>1. b \in Int /\ n \in Nat /\ 0 < n
    BY BlockAssumption, MaxBlksAssumption
  <2>2. /\ Begin(op, "page", b, n, v) /\ card' = card
        /\ cs' \in BOOLEAN /\ inst' \in Drive
    BY <1>2 DEF Request, Inv
  <2> QED
    BY <2>1, <2>2, BeginInv
<1>3. CASE disk_ioctl
  <2>1. Begin("sync", "select", 0, 0, 0) /\ card' = card /\ cs' \in BOOLEAN /\ inst' \in Drive
    BY <1>3 DEF disk_ioctl, Inv
  <2> QED
    BY <2>1, BeginInv, ValueAssumption
<1> QED
  BY <1>1, <1>2, <1>3 DEF Start

\* A step of a request or of CTRL_SYNC.
LEMMA PageInv ==
  ASSUME Inv, call.pc \in {"page", "data", "select"}, card' \in Slot, inst' = inst,
         cs' \in BOOLEAN, call' \in CallRecord, PageInRequest', call'.op = call.op,
         call'.pc \in {"page", "data", "done"}
  PROVE  Inv'
<1>1. call.op # "init"
  BY DEF Inv, PageInRequest
<1> QED
  BY <1>1 DEF Inv, InitOrder

LEMMA PageStepInv ==
  ASSUME Inv, PageStep
  PROVE  Inv'
<1>1. /\ call \in CallRecord /\ PageInRequest /\ card \in Slot /\ inst' = inst
      /\ {"page", "data", "done"} \subseteq Place
  BY DEF Inv, PageStep, not_ready, page_command, receive, no_token, accept, reject, Place
<1>2. ASSUME NEW r \in {"RES_OK", "RES_ERROR"}, call.pc \in {"page", "data"},
             call' = [call EXCEPT !.pc = "done", !.res = r]
      PROVE  /\ call' \in CallRecord /\ PageInRequest' /\ call'.op = call.op
             /\ call'.pc = "done"
  BY <1>1, <1>2 DEF CallRecord, PageInRequest
<1>3. CASE not_ready
  <2>1. /\ call.pc = "page" /\ card' \in Slot /\ cs' \in BOOLEAN
        /\ call' = [call EXCEPT !.pc = "done", !.res = "RES_ERROR"]
    BY <1>3 DEF not_ready, At, Inv
  <2>2. call' \in CallRecord /\ PageInRequest' /\ call'.op = call.op /\ call'.pc = "done"
    BY <1>2, <2>1
  <2> QED
    BY <1>1, <2>1, <2>2, PageInv
<1>4. CASE page_command
  <2> DEFINE cmd == IF call.op = "read" THEN "CMD17" ELSE "CMD24"
  <2>0. cmd \in {"CMD17", "CMD24"}
    OBVIOUS
  <2>1. PICK a \in sendCmd(cmd, Address(call.b + call.done)) :
          IF a.r = "ready" THEN Command(a, Goto("data"))
          ELSE Command([a EXCEPT !.cs = FALSE],
                       [call EXCEPT !.pc = "done", !.res = "RES_ERROR"])
    BY <1>4, Zenon DEF page_command
  <2> HIDE DEF cmd
  <2>2. a \in Reply /\ [a EXCEPT !.cs = FALSE] \in Reply
    <3>1. cmd \in {"CMD8", "CMD58", "CMD59", "CMD9", "CMD16", "CMD17", "CMD24"}
      BY <2>0
    <3>2. a \in Reply
      BY <2>1, <3>1, ReplyToQuery
    <3> QED
      BY <3>2 DEF Reply
  <2>3. call.pc = "page"
    BY <1>4 DEF page_command, At
  <2>4. card' \in Slot /\ cs' \in BOOLEAN
    BY <1>1, <2>1, <2>2 DEF Command, Slot, Reply
  <2>5. CASE a.r = "ready"
    <3>1. call' = Goto("data")
      BY <2>1, <2>5 DEF Command
    <3>2. call' \in CallRecord /\ PageInRequest' /\ call'.op = call.op /\ call'.pc = "data"
      BY <1>1, <2>3, <3>1 DEF Goto, CallRecord, PageInRequest
    <3> QED
      BY <1>1, <2>3, <2>4, <3>2, PageInv
  <2>6. CASE a.r # "ready"
    <3>1. call' = [call EXCEPT !.pc = "done", !.res = "RES_ERROR"]
      BY <2>1, <2>6 DEF Command
    <3> QED
      BY <1>1, <1>2, <2>3, <2>4, <3>1, PageInv
  <2> QED
    BY <2>5, <2>6
<1>5. ASSUME NEW new \in CallRecord, Advance(new), call.pc = "data", card' \in Slot,
             new.done = call.done, new.n = call.n, new.op = call.op,
             Len(new.got) = IF call.op = "read" THEN call.done + 1 ELSE 0
      PROVE  Inv'
  <2>1. call.done \in Nat /\ call.n \in Nat /\ call.done < call.n
        /\ call.op \in {"read", "write"}
    BY <1>1, <1>5 DEF PageInRequest, CallRecord
  <2> DEFINE pc == IF call.done + 1 = call.n THEN "done" ELSE "page"
  <2>2. /\ call' = [new EXCEPT !.done = call.done + 1, !.pc = pc]
        /\ pc \in {"page", "done"} /\ (pc = "page" => call.done + 1 # call.n)
    BY <1>5 DEF Advance
  <2> HIDE DEF pc
  <2>a. pc \in Place /\ call.done + 1 \in Nat
    BY <1>1, <2>1, <2>2
  <2>3. call' \in CallRecord
    BY <1>5, <2>2, <2>a DEF CallRecord
  <2>4. /\ call'.op = call.op /\ call'.pc = pc /\ call'.done = call.done + 1
        /\ call'.n = call.n /\ call'.got = new.got
    BY <1>5, <2>2 DEF CallRecord
  <2>5. PageInRequest'
    BY <1>5, <2>1, <2>2, <2>4 DEF PageInRequest
  <2> QED
    <3>1. cs' \in BOOLEAN /\ call'.pc \in {"page", "data", "done"}
      BY <1>5, <2>2, <2>4 DEF Advance
    <3> QED
      BY <1>1, <1>5, <2>3, <2>4, <2>5, <3>1, PageInv
<1>6. CASE receive
  <2>1. PICK x \in Value : Advance([call EXCEPT !.got = Append(@, x)])
    BY <1>6 DEF receive
  <2>2. call.got \in Seq(Value) /\ call.op = "read" /\ call.pc = "data" /\ card' = card
    BY <1>1, <1>6 DEF receive, At, CallRecord
  <2>3. Append(call.got, x) \in Seq(Value) /\ Len(Append(call.got, x)) = call.done + 1
    BY <1>1, <2>2 DEF PageInRequest
  <2> DEFINE new == [call EXCEPT !.got = Append(@, x)]
  <2>4. /\ new \in CallRecord /\ new.done = call.done /\ new.n = call.n
        /\ new.op = call.op /\ new.got = Append(call.got, x)
    BY <1>1, <2>3 DEF CallRecord
  <2> HIDE DEF new
  <2>5. Advance(new)
    BY <2>1 DEF new
  <2> QED
    BY <1>1, <1>5, <2>2, <2>3, <2>4, <2>5
<1>7. CASE no_token \/ reject
  <2>1. /\ call.pc = "data" /\ card' \in Slot /\ cs' \in BOOLEAN
        /\ call' = [call EXCEPT !.pc = "done", !.res = "RES_ERROR"]
    BY <1>7 DEF no_token, reject, Return, At, Inv
  <2>2. call' \in CallRecord /\ PageInRequest' /\ call'.op = call.op /\ call'.pc = "done"
    BY <1>2, <2>1
  <2> QED
    BY <1>1, <2>1, <2>2, PageInv
<1>8. CASE accept
  <2>1. call.pc = "data" /\ call.op = "write" /\ Advance(call)
    BY <1>8 DEF accept, At
  <2>2. card' \in Slot
    <3>1. PICK b \in Target : card' = [card EXCEPT !.prog = <<b, call.v>>]
      BY <1>8 DEF accept
    <3>2. b \in Block /\ call.v \in Value
      BY <1>1 DEF Target, Addressed, CallRecord
    <3>3. <<b, call.v>> \in {Nothing} \cup (Block \X Value)
      BY <3>2
    <3> QED
      BY <1>1, <3>1, <3>3 DEF Slot
  <2>3. Len(call.got) = 0
    BY <1>1, <2>1 DEF PageInRequest
  <2> QED
    BY <1>1, <1>5, <2>1, <2>2, <2>3
<1> QED
  BY <1>3, <1>4, <1>6, <1>7, <1>8 DEF PageStep

LEMMA SyncStepInv ==
  ASSUME Inv, SyncStep
  PROVE  Inv'
<1>1. /\ call.pc = "select" /\ call' = Goto("done") /\ card' = card /\ inst' = inst
      /\ cs' \in BOOLEAN
  BY DEF SyncStep, sync_select, At
<1>2. call' \in CallRecord /\ PageInRequest' /\ call'.op = call.op /\ call'.pc = "done"
  BY <1>1 DEF Inv, Goto, CallRecord, PageInRequest, Place
<1> QED
  BY <1>1, <1>2, PageInv DEF Inv

\* The slot: whoever puts a card in or out also ends what is known of it.
LEMMA CardStepInv ==
  ASSUME Inv, CardStep
  PROVE  Inv'
<1>1. Content \in [Block -> Value]
  BY DEF Content, Busy, Inv, Slot
<1>2. ASSUME card' \in Slot, card'.mode = "native", call' = [call EXCEPT !.lost = TRUE], UNCHANGED <<inst, cs>>
      PROVE  Inv'
  <2>1. call' \in CallRecord
    BY <1>2 DEF Inv, CallRecord
  <2>2. PageInRequest'
    BY <1>2 DEF Inv, CallRecord, PageInRequest
  <2>3. call'.lost /\ call'.pc = call.pc
    BY <1>2 DEF Inv, CallRecord
  <2>4. InitOrder'
    BY <1>2, <2>3 DEF Inv, InitOrder
  <2> QED
    BY <1>2, <2>1, <2>2, <2>4 DEF Inv
<1>3. CASE Remove
  <2>1. card' \in Slot /\ card'.mode = "native"
    BY <1>1, <1>3 DEF Remove, Inv, Slot, Modes
  <2> QED
    BY <1>2, <1>3, <2>1 DEF Remove
<1>4. ASSUME NEW kind \in Kind, Insert(kind)
      PROVE  Inv'
  <2>1. card.data \in [Block -> Value] /\ Fresh \in [Block -> Value]
    BY FreshAssumption DEF Inv, Slot
  <2>2. card' \in Slot /\ card'.mode = "native"
    BY <1>4, <2>1 DEF Insert, Slot, Modes
  <2> QED
    BY <1>2, <1>4, <2>2 DEF Insert
<1>5. CASE Program
  <2>1. card' \in Slot /\ card'.mode = card.mode /\ card'.kind = card.kind
    BY <1>1, <1>5 DEF Program, Inv, Slot
  <2>2. UNCHANGED <<inst, cs, call>>
    BY <1>5 DEF Program
  <2>3. PageInRequest' /\ InitOrder'
    BY <2>1, <2>2 DEF Inv, PageInRequest, InitOrder, Matches
  <2> QED
    BY <2>1, <2>2, <2>3 DEF Inv
<1> QED
  BY <1>3, <1>4, <1>5 DEF CardStep

----------------------------------------------------------------------------
LEMMA InitInv == Init => Inv
<1> SUFFICES ASSUME Init PROVE Inv
  OBVIOUS
<1>1. PICK in \in BOOLEAN, kind \in Kind :
        card = [in |-> in, kind |-> kind, mode |-> "native", data |-> Fresh, prog |-> Nothing]
  BY DEF Init
<1>2. card \in Slot
  BY <1>1, FreshAssumption DEF Slot, Modes
<1>3. inst \in Drive /\ cs \in BOOLEAN
  BY DEF Init, Drive
<1>4. call = [op |-> "none", pc |-> "done", b |-> 0, n |-> 0, v |-> 0,
             got |-> <<>>, done |-> 0, timer |-> Timer, cmd |-> "none",
             ty |-> "none", lost |-> FALSE, res |-> "RES_OK"]
  BY DEF Init
<1>5. <<>> \in Seq(Value) /\ Len(<<>>) = 0 /\ Timer \in 0 .. Timer /\ 0 \in Value
  BY TimerAssumption, ValueAssumption
<1>6. call \in CallRecord
  BY <1>4, <1>5 DEF CallRecord, Place
<1>7. PageInRequest /\ InitOrder
  BY <1>4, <1>5 DEF PageInRequest, InitOrder
<1> QED
  BY <1>2, <1>3, <1>6, <1>7 DEF Inv

LEMMA NextInv ==
  ASSUME Inv, [Next]_vars
  PROVE  Inv'
<1>1. CASE UNCHANGED vars
  BY <1>1 DEF vars, Inv, PageInRequest, InitOrder, Matches
<1>2. CASE Next
  BY <1>2, StartInv, InitStepsInv, PageStepInv, SyncStepInv, CardStepInv DEF Next, DriverStep
<1> QED
  BY <1>1, <1>2

\* The invariant of the driver: what it knows of the card at each of its
\* commands, and how far a request has come.
THEOREM DriverInvariant == Spec => []Inv
<1>1. Init => Inv
  BY InitInv
<1>2. Inv /\ [Next]_vars => Inv'
  BY NextInv
<1> QED
  BY <1>1, <1>2, PTL DEF Spec

\* The poll loops of initCard never count below 0, and mmcSdSpiRead and
\* mmcSdSpiWrite never move more blocks than they were asked for.
THEOREM DriverTypes == Spec => []TypeOK
<1>1. Inv => TypeOK
  BY InvTypes
<1> QED
  BY <1>1, DriverInvariant, PTL

\* When initCard reports success for a card that stayed in the slot, that
\* card is ready and sdType says how it is addressed, for every kind of card
\* and every pattern of missing and erroneous answers.
THEOREM InitFindsType == Spec => []InitMatches
<1>1. Inv => InitMatches
  BY DEF Inv, InitOrder, InitMatches, Matches
<1> QED
  BY <1>1, DriverInvariant, PTL

----------------------------------------------------------------------------
(* The driver implements BlockStore.                                       *)

Initializing == Probing \cup {"CMD59", "CMD9"}

\* The commands of initCard are sent by it alone.
OwnCommands == call.pc \in Initializing => call.op = "init"

\* No result is set while a request goes on.
NoResultYet == call.pc \in {"page", "data"} => call.res = "RES_OK"

\* A card that is ready is the one initCard found, and is addressed as it
\* needs: a card put in since then is still in its native mode.
TypeKept == call.op # "init" /\ inst.SD_Init_OK /\ card.mode = "ready" => Matches

\* Data blocks are moved by a card that accepted the command for them.
DataReady ==
  call.pc = "data" => /\ ~Busy /\ inst.SD_Init_OK
                      /\ ~call.lost => card.mode = "ready"

Known == Inv /\ OwnCommands /\ NoResultYet /\ TypeKept /\ DataReady

LEMMA ContentTypes == ASSUME Inv PROVE Content \in [Block -> Value]
BY DEF Content, Busy, Inv, Slot

----------------------------------------------------------------------------
(* initCard: no step of it touches a block or is seen by a request.        *)

Silent == Content' = Content /\ Requested' = Requested

Effect ==
  /\ call.pc \in Initializing
  /\ Steps(call')
  /\ \E mode : card' = [card EXCEPT !.mode = mode]

LEMMA CommandEffect ==
  ASSUME call.pc \in Initializing, NEW a, NEW next, Command(a, next), Steps(next)
  PROVE  Effect
BY DEF Command, Effect

LEMMA InitEffect ==
  ASSUME Inv, InitStep
  PROVE  Effect
<1> USE DEF Initializing, Probing, At
<1>1. CASE go_idle
  <2>1. PICK a \in sendCmd("CMD0", 0) :
          Command(a, IF a.r = "idle" THEN Goto("CMD8") ELSE NoType)
    BY <1>1 DEF go_idle
  <2>2. Steps(IF a.r = "idle" THEN Goto("CMD8") ELSE NoType)
    BY NextCalls
  <2> QED
    BY <1>1, <2>1, <2>2, CommandEffect DEF go_idle
<1>2. ASSUME NEW echo \in BOOLEAN, send_if_cond(echo)
      PROVE  Effect
  <2> DEFINE next(a) == IF a.r # "idle" THEN Goto("probe")
                        ELSE IF echo THEN [Goto("wait") EXCEPT !.cmd = "HCS"]
                        ELSE NoType
  <2>1. PICK a \in sendCmd("CMD8", 0) : Command(a, next(a))
    BY <1>2 DEF send_if_cond
  <2>2. Steps(next(a))
    BY NextCalls
  <2> QED
    BY <1>2, <2>1, <2>2, CommandEffect DEF send_if_cond
<1>3. CASE probe
  <2>1. PICK a \in sendCmd("ACMD41", 0), t \in {"CT_SD1", "CT_MMC"}, c \in {"ACMD41", "CMD1"} :
          Command(a, [Goto("wait") EXCEPT !.ty = t, !.cmd = c])
    BY <1>3 DEF probe
  <2>2. Steps([Goto("wait") EXCEPT !.ty = t, !.cmd = c])
    BY NextCalls
  <2> QED
    BY <1>3, <2>1, <2>2, CommandEffect DEF probe
<1>4. CASE wait_poll
  <2> DEFINE t == call.timer - 1
             next(a) == IF a.r # "ready" THEN [call EXCEPT !.timer = t]
                        ELSE IF t = 0 THEN NoType ELSE Goto(AfterWait)
  <2>1. PICK a : Command(a, next(a))
    BY <1>4 DEF wait_poll
  <2>2. t \in 0 .. Timer /\ call.pc = "wait"
    BY <1>4, TimerAssumption DEF wait_poll, Inv, CallRecord
  <2>3. Steps([call EXCEPT !.timer = t]) /\ Steps(NoType) /\ Steps(Goto(AfterWait))
    <3> HIDE DEF t
    <3> QED
      BY <2>2, NextCalls DEF AfterWait
  <2>4. Steps(next(a))
    BY <2>3
  <2> HIDE DEF next
  <2> QED
    BY <2>1, <2>2, <2>4, CommandEffect
<1>5. CASE wait_timeout
  <2>1. call' = Goto(AfterWait) /\ card' = card /\ call.pc = "wait"
    BY <1>5 DEF wait_timeout
  <2>2. card = [card EXCEPT !.mode = card.mode]
    BY DEF Inv, Slot
  <2> QED
    BY <2>1, <2>2, NextCalls DEF Effect, AfterWait
<1>6. CASE read_ocr
  <2> DEFINE next(a) == IF a.r = "ready" THEN [Goto("CMD59") EXCEPT !.ty = "CT_SD2"]
                                         ELSE NoType
  <2>1. PICK a : Command(a, next(a))
    BY <1>6 DEF read_ocr
  <2>2. Steps(next(a))
    BY NextCalls
  <2> QED
    BY <1>6, <2>1, <2>2, CommandEffect DEF read_ocr
<1>7. CASE set_blocklen
  <2>1. PICK a : Command(a, IF a.r = "ready" THEN Goto("CMD59") ELSE NoType)
    BY <1>7 DEF set_blocklen
  <2>2. Steps(IF a.r = "ready" THEN Goto("CMD59") ELSE NoType)
    BY NextCalls
  <2> QED
    BY <1>7, <2>1, <2>2, CommandEffect DEF set_blocklen
<1>8. CASE crc_off
  <2>1. PICK a : Command(a, Ended) \/ Command(a, Goto("CMD9"))
    BY <1>8 DEF crc_off
  <2>2. Steps(Ended) /\ Steps(Goto("CMD9"))
    BY NextCalls
  <2> QED
    BY <1>8, <2>1, <2>2, CommandEffect DEF crc_off
<1>9. ASSUME NEW token \in BOOLEAN, read_csd(token)
      PROVE  Effect
  <2>1. PICK a : Command(a, Ended)
    BY <1>9 DEF read_csd
  <2> QED
    BY <1>9, <2>1, NextCalls, CommandEffect DEF read_csd
<1> QED
  BY <1>1, <1>2, <1>3, <1>4, <1>5, <1>6, <1>7, <1>8, <1>9 DEF InitStep

LEMMA InitStepKnown ==
  ASSUME Known, InitStep
  PROVE  Known' /\ Silent
<1>1. Inv /\ Inv'
  BY InitStepsInv DEF Known
<1>2. Effect
  BY <1>1, InitEffect
<1>3. /\ call.op = "init" /\ call'.op = "init" /\ call'.lost = call.lost
      /\ call'.pc \in Initializing \cup {"done"}
  BY <1>2 DEF Known, OwnCommands, Effect, Steps, Initializing
<1>4. card'.data = card.data /\ card'.prog = card.prog
  BY <1>1, <1>2 DEF Effect, Inv, Slot
<1>5. OwnCommands' /\ NoResultYet' /\ TypeKept' /\ DataReady'
  BY <1>3 DEF OwnCommands, NoResultYet, TypeKept, DataReady, Initializing, Probing
<1>6. Content' = Content
  BY <1>4 DEF Content, Busy
<1>7. Requested' = Requested
  BY <1>3 DEF Requested, Req
<1> QED
  BY <1>1, <1>5, <1>6, <1>7 DEF Known, Silent

----------------------------------------------------------------------------
(* Calls begin.                                                            *)

LEMMA BeginKnown ==
  ASSUME Known, Inv', NEW op \in {"init", "read", "write", "sync"},
         NEW pc \in {"CMD0", "page", "select"}, NEW b, NEW n, NEW v,
         Begin(op, pc, b, n, v), card' = card, op = "init" \/ inst' = inst,
         pc = "CMD0" => op = "init"
  PROVE  Known' /\ Content' = Content
<1>1. /\ call.pc = "done"
      /\ call'.op = op /\ call'.pc = pc /\ call'.res = "RES_OK"
  BY DEF Begin
<1>2. OwnCommands' /\ NoResultYet' /\ DataReady'
  BY <1>1 DEF OwnCommands, NoResultYet, DataReady, Initializing, Probing
<1>3. TypeKept'
  <2>1. inst.SD_Init_OK /\ card.mode = "ready" => Matches
    BY <1>1 DEF Known, TypeKept, Inv, InitOrder
  <2> QED
    BY <1>1, <2>1 DEF TypeKept, Matches
<1> QED
  BY <1>2, <1>3 DEF Known, Content, Busy

\* A request starts a request of the store; initCard and disk_ioctl end the
\* memory of the last one.
LEMMA StartRefined ==
  ASSUME Known, Start
  PROVE  Known' /\ Store!Next
<1>1. Inv'
  BY StartInv DEF Known
<1>2. ASSUME call.pc = "done"
      PROVE  Requested.res # "busy"
  BY <1>2 DEF Known, Inv, CallRecord, Requested, Req
<1>3. ASSUME NEW op \in {"init", "sync"}, NEW pc, Begin(op, pc, 0, 0, 0), Content' = Content
      PROVE  Store!Next
  <2>1. call'.op = op /\ ~call'.lost /\ call.pc = "done"
    BY <1>3 DEF Begin
  <2>2. call'.lost = FALSE
    BY <1>3 DEF Begin
  <2>3. Requested' = Store!Blank
    BY <2>1, <2>2 DEF Requested, Req, Store!Blank
  <2> QED
    BY <1>2, <1>3, <2>1, <2>3 DEF Store!Next, Store!Forget
<1>4. CASE initCard
  <2>1. Begin("init", "CMD0", 0, 0, 0) /\ card' = card
    BY <1>4 DEF initCard
  <2>2. Known' /\ Content' = Content
    BY <1>1, <2>1, BeginKnown
  <2> QED
    BY <1>3, <2>1, <2>2
<1>5. CASE disk_ioctl
  <2>1. Begin("sync", "select", 0, 0, 0) /\ card' = card /\ inst' = inst
    BY <1>5 DEF disk_ioctl
  <2>2. Known' /\ Content' = Content
    BY <1>1, <2>1, BeginKnown
  <2> QED
    BY <1>3, <2>1, <2>2
<1>6. ASSUME NEW op \in {"read", "write"}, NEW b \in Block, NEW n \in 1 .. MaxBlks, NEW v \in Value,
             b + n - 1 \in Block, Request(op, b, n, v)
      PROVE  Known' /\ Store!Next
  <2>1. Begin(op, "page", b, n, v) /\ card' = card /\ inst' = inst
    BY <1>6 DEF Request
  <2>2. Known' /\ Content' = Content
    BY <1>1, <2>1, BeginKnown
  <2>3. call.pc = "done" /\ call' = [op |-> op, pc |-> "page", b |-> b, n |-> n, v |-> v,
              got |-> <<>>, done |-> 0, timer |-> Timer, cmd |-> "none", ty |-> "none",
              lost |-> FALSE, res |-> "RES_OK"]
    BY <2>1 DEF Begin
  <2>4. Requested' = [op |-> op, b |-> b, n |-> n, v |-> v, got |-> <<>>, done |-> 0,
                      lost |-> FALSE, res |-> "busy"]
    BY <2>3 DEF Requested
  <2>5. Store!Start(op, b, n, v)
    BY <1>2, <2>2, <2>3, <2>4 DEF Store!Start
  <2> QED
    BY <1>6, <2>2, <2>5 DEF Store!Next, Store!Ops
<1> QED
  BY <1>4, <1>5, <1>6 DEF Start

----------------------------------------------------------------------------
(* Pages.                                                                  *)

\* The request a page belongs to, as the store sees it.
LEMMA Underway ==
  ASSUME Known, call.pc \in {"page", "data"}
  PROVE  /\ call.op \in {"read", "write"} /\ call.res = "RES_OK"
         /\ Requested = [op |-> call.op, b |-> call.b, n |-> call.n, v |-> call.v,
                         got |-> call.got, done |-> call.done, lost |-> call.lost,
                         res |-> "busy"]
<1>1. call.op \in {"read", "write"}
  BY DEF Known, Inv, PageInRequest
<1>2. call.res = "RES_OK"
  BY DEF Known, NoResultYet
<1>3. call.pc # "done"
  OBVIOUS
<1> QED
  BY <1>1, <1>2, <1>3 DEF Requested

\* An address of a page names its block and no other.
LEMMA TargetIsBlock ==
  ASSUME Known, call.pc = "data", ~call.lost, NEW b \in Target
  PROVE  b = call.b + call.done /\ b \in Block
<1>1. Matches
  BY DEF Known, DataReady, TypeKept, Inv, PageInRequest
<1>2. call.b \in Int /\ call.done \in Nat
  BY DEF Known, Inv, CallRecord
<1>3. b \in Block /\ b \in Int
  BY BlockAssumption DEF Target, Addressed
<1>4. Address(call.b + call.done) = IF card.kind = "HC" THEN b ELSE b * BlkSize
  BY DEF Target, Addressed
<1>5. CASE card.kind = "HC"
  BY <1>1, <1>3, <1>4, <1>5 DEF Matches, Address
<1>6. CASE card.kind # "HC"
  <2>1. Address(call.b + call.done) = (call.b + call.done) * 512 /\ inst.sdType = "IsSd"
    BY <1>1, <1>6 DEF Matches, Address, BlkSize
  <2>2. (call.b + call.done) * 512 = b * 512
    BY <1>4, <1>6, <2>1 DEF BlkSize
  <2> QED
    BY <1>2, <1>3, <2>2
<1> QED
  BY <1>5, <1>6

\* A page that fails ends the request.
LEMMA FailRefined ==
  ASSUME Known, Inv', call.pc \in {"page", "data"}, Content' = Content,
         call' = [call EXCEPT !.pc = "done", !.res = "RES_ERROR"],
         inst' = inst, card' = card
  PROVE  Known' /\ Store!Next
<1>1. /\ call'.pc = "done" /\ call'.res = "RES_ERROR" /\ call'.op = call.op
      /\ call'.b = call.b /\ call'.n = call.n /\ call'.v = call.v /\ call'.got = call.got
      /\ call'.done = call.done /\ call'.lost = call.lost
  BY DEF Known, Inv, CallRecord
<1>2. call.op \in {"read", "write"}
  BY Underway
<1>3. Known'
  <2>1. TypeKept'
    BY <1>1, <1>2 DEF Known, TypeKept, Matches
  <2> QED
    BY <1>1, <2>1 DEF Known, OwnCommands, NoResultYet, DataReady, Initializing, Probing
<1>4. Requested' = [op |-> call.op, b |-> call.b, n |-> call.n, v |-> call.v,
                    got |-> call.got, done |-> call.done, lost |-> call.lost,
                    res |-> "RES_ERROR"]
  BY <1>1, <1>2 DEF Requested
<1>5. Requested' = [Requested EXCEPT !.res = "RES_ERROR"] /\ Requested.res = "busy"
  BY <1>4, Underway
<1> QED
  BY <1>3, <1>5 DEF Store!Next, Store!Fail

\* A page that is moved is one step of the request.
LEMMA AdvanceRefined ==
  ASSUME Known, Inv', call.pc = "data", NEW got, inst' = inst,
         card'.mode = card.mode, card'.kind = card.kind,
         Advance([call EXCEPT !.got = got])
  PROVE  /\ Known'
         /\ Requested' = [Requested EXCEPT !.got = got, !.done = @ + 1, !.res = Store!Result]
<1> DEFINE pc == IF call.done + 1 = call.n THEN "done" ELSE "page"
<1>1. /\ call'.pc = pc /\ call'.res = call.res /\ call'.op = call.op
      /\ call'.b = call.b /\ call'.n = call.n /\ call'.v = call.v /\ call'.got = got
      /\ call'.done = call.done + 1 /\ call'.lost = call.lost
  BY DEF Known, Inv, CallRecord, Advance
<1>2. pc \in {"done", "page"} /\ (pc = "done" <=> call.done + 1 = call.n)
  OBVIOUS
<1> HIDE DEF pc
<1>3. call.op \in {"read", "write"} /\ call.res = "RES_OK"
  BY Underway
<1>4. Known'
  <2>1. TypeKept'
    BY <1>1, <1>3 DEF Known, TypeKept, Matches
  <2> QED
    BY <1>1, <1>2, <1>3, <2>1
    DEF Known, OwnCommands, NoResultYet, DataReady, Initializing, Probing
<1>5. Store!Result = IF pc = "done" THEN "RES_OK" ELSE "busy"
  BY <1>2, Underway DEF Store!Result
<1>6. Requested' = [op |-> call.op, b |-> call.b, n |-> call.n, v |-> call.v,
                    got |-> got, done |-> call.done + 1, lost |-> call.lost,
                    res |-> IF pc = "done" THEN "RES_OK" ELSE "busy"]
  BY <1>1, <1>3 DEF Requested
<1> DEFINE result == Store!Result
<1>7. result = IF pc = "done" THEN "RES_OK" ELSE "busy"
  BY <1>5
<1> HIDE DEF result
<1>8. Requested = [op |-> call.op, b |-> call.b, n |-> call.n, v |-> call.v,
                   got |-> call.got, done |-> call.done, lost |-> call.lost,
                   res |-> "busy"]
  BY Underway
<1> DEFINE r1 == [Requested EXCEPT !.got = got]
           r2 == [r1 EXCEPT !.done = call.done + 1]
           r3 == [r2 EXCEPT !.res = result]
<1>9. [Requested EXCEPT !.got = got, !.done = @ + 1, !.res = result] = r3
  BY <1>8
<1>10. r1 = [op |-> call.op, b |-> call.b, n |-> call.n, v |-> call.v, got |-> got,
             done |-> call.done, lost |-> call.lost, res |-> "busy"]
  BY <1>8
<1> HIDE DEF r1
<1>11. r2 = [op |-> call.op, b |-> call.b, n |-> call.n, v |-> call.v, got |-> got,
             done |-> call.done + 1, lost |-> call.lost, res |-> "busy"]
  BY <1>10
<1> HIDE DEF r2
<1>12. r3 = [op |-> call.op, b |-> call.b, n |-> call.n, v |-> call.v, got |-> got,
             done |-> call.done + 1, lost |-> call.lost, res |-> result]
  BY <1>11
<1> HIDE DEF r3
<1> QED
  BY <1>4, <1>6, <1>7, <1>9, <1>12 DEF result

LEMMA PageStepRefined ==
  ASSUME Known, PageStep
  PROVE  Known' /\ [Store!Next]_<<Content, Requested>>
<1>1. /\ Inv /\ Inv' /\ inst' = inst /\ call \in CallRecord /\ card \in Slot
      /\ call.pc \in {"page", "data"}
  BY PageStepInv DEF Known, Inv, PageStep, not_ready, page_command, receive, no_token,
                     accept, reject, At
<1>2. card' = card => Content' = Content
  BY DEF Content, Busy
<1>3. CASE not_ready
  BY <1>1, <1>2, <1>3, FailRefined DEF not_ready
<1>4. CASE no_token \/ reject
  <2>1. /\ call' = [call EXCEPT !.pc = "done", !.res = "RES_ERROR"] /\ card' = card
    BY <1>4 DEF no_token, reject, Return
  <2> QED
    BY <1>1, <1>2, <2>1, FailRefined
<1>5. CASE page_command
  <2> DEFINE cmd == IF call.op = "read" THEN "CMD17" ELSE "CMD24"
             arg == Address(call.b + call.done)
  <2>1. cmd \in {"CMD8", "CMD58", "CMD59", "CMD9", "CMD16", "CMD17", "CMD24"}
    OBVIOUS
  <2>2. PICK a \in sendCmd(cmd, arg) :
          IF a.r = "ready" THEN Command(a, Goto("data"))
          ELSE Command([a EXCEPT !.cs = FALSE],
                       [call EXCEPT !.pc = "done", !.res = "RES_ERROR"])
    BY <1>5, Zenon DEF page_command
  <2> HIDE DEF cmd, arg
  <2>3. a \in Reply /\ a.mode = card.mode /\ (a.r = "ready" => card.mode = "ready")
    BY <1>1, <2>1, <2>2, ReplyToQuery
  <2>4. Busy => a.r = "none"
    <3>1. ASSUME Busy
          PROVE  a = [r |-> "none", mode |-> card.mode, cs |-> FALSE]
      BY <2>2, <3>1, Zenon DEF sendCmd
    <3> QED
      BY <3>1
  <2>5. card' = card
    <3>1. card' = [card EXCEPT !.mode = card.mode]
      BY <2>2, <2>3 DEF Command, Reply
    <3>2. [card EXCEPT !.mode = card.mode] = card
      BY <1>1 DEF Slot
    <3> QED
      BY <3>1, <3>2
  <2>6. CASE a.r = "ready"
    <3>1. call' = Goto("data") /\ call.pc = "page" /\ inst.SD_Init_OK
      BY <1>5, <2>2, <2>6 DEF Command, page_command, At
    <3>2. /\ call'.pc = "data" /\ call'.res = call.res /\ call'.op = call.op
          /\ call'.b = call.b /\ call'.n = call.n /\ call'.v = call.v
          /\ call'.got = call.got /\ call'.done = call.done /\ call'.lost = call.lost
      BY <1>1, <3>1 DEF Goto, CallRecord
    <3>3. ~Busy /\ card.mode = "ready"
      BY <2>3, <2>4, <2>6
    <3>4. DataReady' /\ NoResultYet' /\ TypeKept' /\ OwnCommands'
      BY <1>1, <2>5, <3>1, <3>2, <3>3 DEF Known, DataReady, NoResultYet, TypeKept,
           OwnCommands, Matches, Busy, Initializing, Probing
    <3>5. Requested' = Requested
      BY <3>1, <3>2 DEF Requested, Req
    <3> QED
      BY <1>1, <1>2, <2>5, <3>4, <3>5 DEF Known
  <2>7. CASE a.r # "ready"
    <3>1. call' = [call EXCEPT !.pc = "done", !.res = "RES_ERROR"]
      BY <2>2, <2>7 DEF Command
    <3> QED
      BY <1>1, <1>2, <2>5, <3>1, FailRefined
  <2> QED
    BY <2>6, <2>7
<1>6. CASE receive
  <2>1. /\ call.pc = "data" /\ call.op = "read" /\ card' = card
    BY <1>6 DEF receive, At
  <2>2. PICK x \in Value :
          /\ ~call.lost => \E b \in Target : x = Content[b]
          /\ Advance([call EXCEPT !.got = Append(@, x)])
    BY <1>6 DEF receive
  <2>3. Advance([call EXCEPT !.got = Append(call.got, x)])
    BY <2>2
  <2>4. /\ Known'
        /\ Requested' = [Requested EXCEPT !.got = Append(call.got, x), !.done = @ + 1,
                                          !.res = Store!Result]
    BY <1>1, <2>1, <2>3, AdvanceRefined
  <2>5. ~call.lost => x = Content[call.b + call.done]
    BY <2>1, <2>2, TargetIsBlock
  <2>6. /\ Requested.res = "busy" /\ Requested.op = "read" /\ Requested.lost = call.lost
        /\ Requested.b = call.b /\ Requested.done = call.done /\ Requested.got = call.got
    BY <2>1, Underway
  <2>7. Requested' = [Requested EXCEPT !.got = Append(@, x), !.done = @ + 1,
                                       !.res = Store!Result]
    BY <2>4, <2>6
  <2>8. Store!ReadBlock
    BY <1>2, <2>1, <2>5, <2>6, <2>7 DEF Store!ReadBlock
  <2> QED
    BY <2>4, <2>8 DEF Store!Next
<1>7. CASE accept
  <2>1. call.pc = "data" /\ call.op = "write" /\ ~call.lost /\ Advance(call)
    BY <1>7 DEF accept, At
  <2>2. PICK b \in Target : card' = [card EXCEPT !.prog = <<b, call.v>>]
    BY <1>7 DEF accept
  <2>3. b = call.b + call.done /\ b \in Block
    BY <2>1, TargetIsBlock
  <2>4. /\ card'.mode = card.mode /\ card'.kind = card.kind
        /\ card'.data = card.data /\ card'.prog = <<b, call.v>>
    BY <1>1, <2>2 DEF Slot
  <2>5. call = [call EXCEPT !.got = call.got]
    BY <1>1 DEF CallRecord
  <2>6. /\ Known'
        /\ Requested' = [Requested EXCEPT !.got = call.got, !.done = @ + 1,
                                          !.res = Store!Result]
    BY <1>1, <2>1, <2>4, <2>5, AdvanceRefined
  <2>7. /\ Requested.res = "busy" /\ Requested.op = "write" /\ Requested.lost = call.lost
        /\ Requested.b = call.b /\ Requested.done = call.done /\ Requested.got = call.got
        /\ Requested.v = call.v
    BY <2>1, Underway
  <2>8. Requested' = [Requested EXCEPT !.done = @ + 1, !.res = Store!Result]
    BY <2>1, <2>6, <2>7, Underway
  <2>9. Content' = [Content EXCEPT ![b] = call.v]
    <3>1. ~Busy
      BY <2>1 DEF Known, DataReady
    <3>2. <<b, call.v>> # Nothing
      BY DEF Nothing
    <3>3. Content' = [c \in Block |-> IF b = c THEN call.v ELSE card.data[c]]
      BY <2>4, <3>2 DEF Content, Busy
    <3>4. Content = [c \in Block |-> card.data[c]]
      BY <3>1 DEF Content
    <3> QED
      BY <2>3, <3>3, <3>4
  <2>10. Store!WriteBlock
    BY <2>1, <2>3, <2>7, <2>8, <2>9 DEF Store!WriteBlock
  <2> QED
    BY <2>6, <2>10 DEF Store!Next
<1> QED
  BY <1>3, <1>4, <1>5, <1>6, <1>7 DEF PageStep

----------------------------------------------------------------------------
(* CTRL_SYNC and the slot.                                                 *)

LEMMA SyncStepKnown ==
  ASSUME Known, SyncStep
  PROVE  Known' /\ Silent
<1>1. Inv' /\ call \in CallRecord
  BY SyncStepInv DEF Known, Inv
<1>2. call.pc = "select" /\ call' = Goto("done") /\ card' = card /\ inst' = inst
  BY DEF SyncStep, sync_select, At
<1>3. call.op = "sync" /\ call'.op = "sync" /\ call'.pc = "done" /\ call'.lost = call.lost
  BY <1>1, <1>2 DEF Known, Inv, PageInRequest, CallRecord, Goto
<1>4. OwnCommands' /\ NoResultYet' /\ TypeKept' /\ DataReady'
  BY <1>2, <1>3 DEF Known, OwnCommands, NoResultYet, TypeKept, DataReady, Matches,
                    Initializing, Probing
<1>5. Content' = Content /\ Requested' = Requested
  BY <1>2, <1>3 DEF Content, Busy, Requested, Req
<1> QED
  BY <1>1, <1>4, <1>5 DEF Known, Silent

\* The end of the programming of a block changes nothing a reader can tell;
\* a card that goes or comes is an exchange.
LEMMA CardStepRefined ==
  ASSUME Known, CardStep
  PROVE  Known' /\ [Store!Next]_<<Content, Requested>>
<1>1. Inv /\ Inv' /\ call \in CallRecord /\ card \in Slot
  BY CardStepInv DEF Known, Inv
<1>2. CASE Program
  <2>1. UNCHANGED <<inst, cs, call>> /\ card' = [card EXCEPT !.data = Content, !.prog = Nothing]
        /\ Busy
    BY <1>2 DEF Program
  <2>2. /\ card'.data = Content /\ card'.prog = Nothing /\ card'.mode = card.mode
        /\ card'.kind = card.kind
    BY <1>1, <2>1 DEF Slot
  <2>3. Content' = Content
    <3>1. Content' = [b \in Block |-> Content[b]]
      BY <2>2 DEF Content, Busy
    <3> QED
      BY <1>1, <3>1, ContentTypes
  <2>4. Requested' = Requested
    BY <2>1 DEF Requested, Req
  <2>5. OwnCommands' /\ NoResultYet' /\ TypeKept' /\ DataReady'
    BY <2>1, <2>2 DEF Known, OwnCommands, NoResultYet, TypeKept, DataReady, Matches
  <2> QED
    BY <1>1, <2>3, <2>4, <2>5 DEF Known
<1>3. CASE Remove \/ \E kind \in Kind : Insert(kind)
  <2>1. /\ call' = [call EXCEPT !.lost = TRUE] /\ inst' = inst
        /\ card'.mode = "native" /\ card'.prog = Nothing
    <3>1. CASE Remove
      <4>1. PICK d : card' = [card EXCEPT !.in = FALSE, !.mode = "native", !.data = d,
                                          !.prog = Nothing]
        BY <3>1 DEF Remove
      <4> QED
        BY <1>1, <3>1, <4>1 DEF Remove, Slot
    <3>2. ASSUME NEW kind \in Kind, Insert(kind)
          PROVE  /\ call' = [call EXCEPT !.lost = TRUE] /\ inst' = inst
                 /\ card'.mode = "native" /\ card'.prog = Nothing
      BY <3>2 DEF Insert
    <3> QED
      BY <1>3, <3>1, <3>2
  <2>2. /\ call'.pc = call.pc /\ call'.op = call.op /\ call'.b = call.b /\ call'.n = call.n
        /\ call'.v = call.v /\ call'.got = call.got /\ call'.done = call.done
        /\ call'.res = call.res /\ call'.lost = TRUE
    BY <1>1, <2>1 DEF CallRecord
  <2>3. OwnCommands' /\ NoResultYet' /\ TypeKept' /\ DataReady'
    BY <2>1, <2>2 DEF Known, OwnCommands, NoResultYet, TypeKept, DataReady, Busy
  <2>4. Requested' = [Requested EXCEPT !.lost = TRUE]
    <3> DEFINE yes == TRUE
               without == call.lost
    <3>1. CASE call.op \in {"read", "write"}
      <4> DEFINE res == IF call.pc = "done" THEN call.res ELSE "busy"
      <4>1. Requested = [op |-> call.op, b |-> call.b, n |-> call.n, v |-> call.v,
                         got |-> call.got, done |-> call.done, lost |-> without,
                         res |-> res]
        BY <3>1 DEF Requested
      <4>2. Requested' = [op |-> call.op, b |-> call.b, n |-> call.n, v |-> call.v,
                          got |-> call.got, done |-> call.done, lost |-> yes,
                          res |-> res]
        BY <2>2, <3>1 DEF Requested
      <4> HIDE DEF res, yes, without
      <4>3. Requested' = [Requested EXCEPT !.lost = yes]
        BY <4>1, <4>2
      <4> QED
        BY <4>3 DEF yes
    <3>2. CASE call.op \notin {"read", "write"}
      <4>1. Requested = [op |-> "none", b |-> 0, n |-> 0, v |-> 0, got |-> <<>>,
                         done |-> 0, lost |-> without, res |-> "RES_OK"]
        BY <3>2 DEF Requested, Req
      <4>2. Requested' = [op |-> "none", b |-> 0, n |-> 0, v |-> 0, got |-> <<>>,
                          done |-> 0, lost |-> yes, res |-> "RES_OK"]
        BY <2>2, <3>2 DEF Requested, Req
      <4> HIDE DEF yes, without
      <4>3. Requested' = [Requested EXCEPT !.lost = yes]
        BY <4>1, <4>2
      <4> QED
        BY <4>3 DEF yes
    <3> QED
      BY <3>1, <3>2
  <2>5. Content' \in [Block -> Value]
    BY <1>1 DEF Content, Busy, Inv, Slot
  <2>6. Store!Exchange
    BY <2>4, <2>5 DEF Store!Exchange
  <2> QED
    BY <1>1, <2>3, <2>6 DEF Known, Store!Next
<1> QED
  BY <1>2, <1>3 DEF CardStep

----------------------------------------------------------------------------
LEMMA InitKnown ==
  ASSUME Init
  PROVE  Known /\ Store!Init
<1>1. Inv
  BY InitInv
<1>2. call.op = "none" /\ call.pc = "done" /\ call.lost = FALSE /\ ~inst.SD_Init_OK
  BY DEF Init
<1>3. Known
  BY <1>1, <1>2 DEF Known, OwnCommands, NoResultYet, TypeKept, DataReady, Initializing, Probing
<1>4. Requested = Store!Blank
  BY <1>2 DEF Requested, Req, Store!Blank
<1> QED
  BY <1>1, <1>3, <1>4, ContentTypes DEF Store!Init

LEMMA NextRefined ==
  ASSUME Known, [Next]_vars
  PROVE  Known' /\ [Store!Next]_<<Content, Requested>>
<1>1. CASE UNCHANGED vars
  <2>1. Inv'
    BY NextInv DEF Known
  <2> QED
    BY <1>1, <2>1 DEF vars, Known, OwnCommands, NoResultYet, TypeKept, DataReady, Matches,
                      Busy, Content, Requested, Req
<1>2. CASE Start
  BY <1>2, StartRefined
<1>3. CASE InitStep \/ SyncStep
  BY <1>3, InitStepKnown, SyncStepKnown DEF Silent
<1>4. CASE PageStep
  BY <1>4, PageStepRefined
<1>5. CASE CardStep
  BY <1>5, CardStepRefined
<1> QED
  BY <1>1, <1>2, <1>3, <1>4, <1>5 DEF Next, DriverStep

\* mmcSdSpiRead and mmcSdSpiWrite read and write exactly the blocks they are
\* asked for and return RES_OK only after the last one, whatever card is in
\* the slot, whenever it is exchanged and whichever commands fail.
THEOREM BlocksImplemented == Spec => ImplementsBlockStore
<1>1. Init => Known /\ Store!Init
  BY InitKnown
<1>2. Known /\ [Next]_vars => Known' /\ [Store!Next]_<<Content, Requested>>
  BY NextRefined
<1> QED
  BY <1>1, <1>2, PTL DEF Spec, ImplementsBlockStore, Store!Spec
=============================================================================
