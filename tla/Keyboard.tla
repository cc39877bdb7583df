------------------------------- MODULE Keyboard -------------------------------
(***************************************************************************)
(* The keys (kbd.c, with KBD_USE_TICK) and the timers that repeat them     *)
(* (delay.c).  timer_cnt is counted up by an interrupt, from its largest    *)
(* value back to 0; on the 8-bit processor the main program reads it byte  *)
(* by byte, so that an interrupt within a read can leave it with bytes of  *)
(* two counts.                                                             *)
(***************************************************************************)
EXTENDS Naturals, Sequences, FiniteSets

CONSTANTS
  Arrows,   \* the direction keys, in the order they are looked at
  Buttons,  \* the A and B keys
  Range,    \* how many values a uint32_t has, 256^4
  Units,    \* where its bytes meet: 256, 256^2, 256^3
  First,    \* delay before a key is repeated, 500
  Again     \* delay between repetitions, 150

Arrow == {Arrows[i] : i \in DOMAIN Arrows}

ASSUME KeyAssumption == Arrows \in Seq(Arrow) /\ Arrow \cap Buttons = {}
ASSUME CountAssumption == Range \in Nat \ {0, 1} /\ Units \subseteq Nat \ {0}
ASSUME DelayAssumption == First \in Nat /\ Again \in Nat

VARIABLES
  timer_cnt,
  port,       \* the keys that are down
  state,      \* the keys that were down when kbd_idle looked
  last_state, \* what kbd_get returns
  timer,      \* of each direction key: tik, value, enabled
  pc,         \* 0: between polls; then each arrow's edge, its timer, the buttons
  report,     \* history: keys that set changed in this poll
  before,     \* history: in a poll, last_state when it began
  ticked,     \* timer_tik has found its timer elapsed and will return true
  left        \* history: of each timer not in doubt, the counts until it is
              \* due, -1 when it is

vars == <<timer_cnt, port, state, last_state, timer, pc, report, before, ticked, left>>

N == Len(Arrows)

----------------------------------------------------------------------------
(* delay.c.                                                                *)

Succ(c)   == (c + 1) % Range
High(c, u) == c - (c % u)
Torn(h, l, u) == High(h, u) + (l % u)

\* Reading the counter at count c: what is read, and the count afterwards.
\* The lower bytes may come from before an interrupt and the upper ones from
\* after it, or the other way round, as the compiler orders the loads.  A
\* read is shorter than the time between two interrupts.
Reads(c) ==
  {<<c, c>>, <<c, Succ(c)>>, <<Succ(c), Succ(c)>>} \cup
  UNION {{<<Torn(Succ(c), c, u), Succ(c)>>, <<Torn(c, Succ(c), u), Succ(c)>>} : u \in Units}

\* The count after c carries into another byte, or starts again from 0.
Carries(c) == Succ(c) = 0 \/ \E u \in Units : High(Succ(c), u) # High(c, u)

\* History of the counts from c to d, over a read or an interrupt.
Left(l, c, d) ==
  IF d = c THEN l ELSE IF d < c THEN <<>>
  ELSE [k \in DOMAIN l |-> IF l[k] < 0 THEN l[k] ELSE l[k] - 1]

\* History of arming timer k with a read r at count c.  The timer is in doubt
\* when the read may have met a carry, and when tik is past the last count.
InDoubt(value, c, r) == (r[2] # c /\ Carries(c)) \/ r[1] + value >= Range
Stopped(l, k) == [j \in DOMAIN l \ {k} |-> l[j]]
Armed(l, k, value, c, r) ==
  IF InDoubt(value, c, r) THEN Stopped(l, k)
  ELSE [j \in DOMAIN l \cup {k} |->
          IF j # k THEN l[j] ELSE IF r[1] = r[2] THEN value ELSE value - 1]

timer_service ==
  /\ timer_cnt' = Succ(timer_cnt)
  /\ left' = Left(left, timer_cnt, timer_cnt')
  /\ UNCHANGED <<port, state, last_state, timer, pc, report, before, ticked>>

\* timer_enable, with the count read.
Enabled_now(value, r, enable) == [tik |-> r[1], value |-> value, enabled |-> enable]
Enabled(value, r, enable) ==
  [tik |-> (r[1] + value) % Range, value |-> value, enabled |-> enable]

\* timer_tik: two reads, the second to arm the timer again with its old value.
Elapsed_exact(t, c) == t.enabled /\ t.tik + 1 = c
Elapsed(t, c) == t.enabled /\ t.tik < c

----------------------------------------------------------------------------
(* kbd.c.                                                                  *)

\* Only kbd_idle looks at the pins: a key that moves within a poll is a key
\* that moves after it.
press(k) ==
  /\ pc = 0 /\ k \notin port /\ port' = port \cup {k}
  /\ UNCHANGED <<timer_cnt, state, last_state, timer, pc, report, before, ticked, left>>

release(k) ==
  /\ pc = 0 /\ k \in port /\ port' = port \ {k}
  /\ UNCHANGED <<timer_cnt, state, last_state, timer, pc, report, before, ticked, left>>

kbd_idle ==
  /\ pc = 0
  /\ state' = port
  /\ report' = {}
  /\ before' = last_state
  /\ pc' = 1
  /\ UNCHANGED <<timer_cnt, port, last_state, timer, ticked, left>>

\* Mutant: a release leaves the timer running.
edge_keeps(k) ==
  \/ /\ k \in state \ last_state
     /\ \E r \in Reads(timer_cnt) :
          /\ timer' = [timer EXCEPT ![k] = Enabled(First, r, TRUE)]
          /\ timer_cnt' = r[2]
          /\ left' = Armed(Left(left, timer_cnt, r[2]), k, First, timer_cnt, r)
     /\ last_state' = last_state \cup {k}
     /\ report' = report \cup {k}
  \/ /\ k \in last_state \ state
     /\ last_state' = last_state \ {k}
     /\ UNCHANGED <<timer_cnt, timer, report, left>>
  \/ /\ k \in state <=> k \in last_state
     /\ UNCHANGED <<timer_cnt, timer, last_state, report, left>>

\* The edges of arrow k: a press arms its timer and is reported, a release
\* stops the timer.
edge(k) ==
  \/ /\ k \in state \ last_state
     /\ \E r \in Reads(timer_cnt) :
          /\ timer' = [timer EXCEPT ![k] = Enabled(First, r, TRUE)]
          /\ timer_cnt' = r[2]
          /\ left' = Armed(Left(left, timer_cnt, r[2]), k, First, timer_cnt, r)
     /\ last_state' = last_state \cup {k}
     /\ report' = report \cup {k}
  \/ /\ k \in last_state \ state
     /\ \E r \in Reads(timer_cnt) :
          /\ timer' = [timer EXCEPT ![k] = Enabled(timer[k].value, r, FALSE)]
          /\ timer_cnt' = r[2]
     /\ left' = Stopped(Left(left, timer_cnt, timer_cnt'), k)
     /\ last_state' = last_state \ {k}
     /\ UNCHANGED report
  \/ /\ k \in state <=> k \in last_state
     /\ UNCHANGED <<timer_cnt, timer, last_state, report, left>>

\* The timer of arrow k: timer_tik compares it with one read of the counter
\* and arms it again, with its old delay, from another.  The new delay counts
\* from the next time on.
tick(k) ==
  /\ ~ticked
  /\ \E r \in Reads(timer_cnt) :
       /\ ticked' = Elapsed(timer[k], r[1])
       /\ timer_cnt' = r[2]
       /\ left' = Left(left, timer_cnt, r[2])
  /\ pc' = IF ticked' THEN pc ELSE pc + 1
  /\ UNCHANGED <<timer, report>>

arm_again(k) ==
  /\ ticked /\ ticked' = FALSE
  /\ \E r \in Reads(timer_cnt) :
       /\ timer' = [timer EXCEPT ![k] = [Enabled(@.value, r, TRUE) EXCEPT !.value = Again]]
       /\ timer_cnt' = r[2]
       /\ left' = Armed(Left(left, timer_cnt, r[2]), k, timer[k].value, timer_cnt, r)
  /\ report' = report \cup {k}
  /\ pc' = pc + 1

\* A and B are reported when pressed and when released.
buttons ==
  /\ pc = 2 * N + 1
  /\ report' = report \cup
       {k \in Buttons : (k \in state) # (k \in last_state)}
  /\ last_state' = (last_state \ Buttons) \cup (state \cap Buttons)
  /\ pc' = 0
  /\ before' = {}
  /\ UNCHANGED <<timer_cnt, port, state, timer, ticked, left>>

kbd_edge == pc \in 1 .. N /\ pc' = pc + 1 /\ edge(Arrows[pc])
            /\ UNCHANGED <<port, state, before, ticked>>
kbd_tick == pc \in N + 1 .. 2 * N
            /\ (tick(Arrows[pc - N]) \/ arm_again(Arrows[pc - N]))
            /\ UNCHANGED <<port, state, last_state, before>>

----------------------------------------------------------------------------
Init ==
  /\ timer_cnt = 0
  /\ port = {} /\ state = {} /\ last_state = {}
  /\ timer = [k \in Arrow |-> [tik |-> 0, value |-> First, enabled |-> FALSE]]
  /\ pc = 0
  /\ report = {} /\ before = {}
  /\ ticked = FALSE /\ left = <<>>

Poll == kbd_idle \/ kbd_edge \/ kbd_tick \/ buttons

Next == timer_service \/ Poll \/ \E k \in Arrow \cup Buttons : press(k) \/ release(k)

Spec == Init /\ [][Next]_vars

\* The main loop polls the keys for ever; nothing is owed by the user.
Fairness == WF_vars(Poll)

----------------------------------------------------------------------------
(* Properties.                                                             *)

\* A poll reports every arrow it finds newly pressed, and no arrow that is
\* not down: no timer outlives its key.
PollReports ==
  pc = 2 * N + 1 =>
    /\ (state \ before) \cap Arrow \subseteq report
    /\ report \subseteq state

\* timer_tik finds a timer elapsed at the first poll after its delay, neither
\* before it nor later, wherever an interrupt falls within the reads.  Left
\* out are the timers in doubt, whose arming read met a carry or whose delay
\* has the counter start again from 0, and a comparing read that may meet a
\* carry: one misread, after which the timer armed again is exact.
OnTime ==
  [][\A k \in DOMAIN left :
       (pc \in N + 1 .. 2 * N /\ Arrows[pc - N] = k /\ (pc' # pc \/ ticked') /\ ~ticked
          /\ (timer_cnt' # timer_cnt => ~Carries(timer_cnt)))
         => IF ticked' THEN left[k] < 0 \/ (left[k] = 0 /\ timer_cnt' # timer_cnt)
            ELSE left[k] >= 0]_vars

\* A key that is held while its timer has elapsed is repeated, unless the
\* counter starts again from 0 before a poll has read it.
HeldIsRepeated ==
  \A k \in Arrow :
    (timer[k].enabled /\ timer[k].tik < timer_cnt)
      ~> (k \in report \/ k \notin port \/ timer_cnt <= timer[k].tik)
=============================================================================
