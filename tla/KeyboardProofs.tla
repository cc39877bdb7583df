--------------------------- MODULE KeyboardProofs ---------------------------
(***************************************************************************)
(* Proofs about module Keyboard, for any number of keys, any delays and    *)
(* any width of the counter and its bytes: what a poll reports, and that   *)
(* a misread of the counter is all that makes a repetition early or late.  *)
(***************************************************************************)
EXTENDS Keyboard, Integers, TLAPS

Count == 0 .. Range - 1
Timer == [tik : Int, value : Nat, enabled : BOOLEAN]

TypeInv ==
  /\ timer_cnt \in Count
  /\ timer \in [Arrow -> Timer]
  /\ pc \in 0 .. 2 * N + 1
  /\ ticked \in BOOLEAN

\* A timer runs only while its key was down when looked at, and a key that is
\* newly held was reported: while a poll goes on, and between two polls.
ReportInv ==
  /\ \A k \in Arrow : timer[k].enabled => k \in last_state
  /\ pc > 0 =>
       /\ report \subseteq state
       /\ (last_state \ before) \cap Arrow \subseteq report
       /\ \A i \in 1 .. N : i < pc => (Arrows[i] \in state <=> Arrows[i] \in last_state)
  /\ ticked => pc \in N + 1 .. 2 * N /\ timer[Arrows[pc - N]].enabled

\* At count c, the timers t are due when the counts left in l say so.
Agree(l, t, c) ==
  /\ DOMAIN l \subseteq Arrow
  /\ \A k \in DOMAIN l :
       /\ l[k] \in Int /\ t[k].enabled
       /\ l[k] < 0 => t[k].tik < c
       /\ l[k] >= 0 => t[k].tik = c + l[k]

Inv == TypeInv /\ ReportInv /\ Agree(left, timer, timer_cnt)

----------------------------------------------------------------------------
(* The counter.                                                            *)

LEMMA SmallMod ==
  ASSUME NEW a \in Nat, a < Range
  PROVE  a % Range = a
BY CountAssumption

LEMMA SuccIs ==
  ASSUME NEW c \in Count
  PROVE  /\ Succ(c) \in Count /\ Succ(c) # c
         /\ Succ(c) = 0 \/ Succ(c) = c + 1
<1>1. CASE c + 1 < Range
  <2>1. c + 1 \in Nat
    BY DEF Count
  <2>2. Succ(c) = c + 1
    BY <1>1, <2>1, SmallMod DEF Succ
  <2> QED
    BY <1>1, <2>2, CountAssumption DEF Count
<1>2. CASE ~ (c + 1 < Range)
  <2>1. c + 1 = Range
    BY <1>2, CountAssumption DEF Count
  <2>2. Range % Range = 0
    BY CountAssumption
  <2>3. Succ(c) = 0
    BY <2>1, <2>2 DEF Succ
  <2> QED
    BY <2>1, <2>3, CountAssumption DEF Count
<1> QED
  BY <1>1, <1>2

LEMMA ReadTypes ==
  ASSUME NEW c \in Count, NEW r \in Reads(c)
  PROVE  r[1] \in Int /\ r[2] \in {c, Succ(c)} /\ r[2] \in Count
<1>1. Succ(c) \in Count
  BY SuccIs
<1>2. CASE r \in {<<c, c>>, <<c, Succ(c)>>, <<Succ(c), Succ(c)>>}
  BY <1>1, <1>2 DEF Count
<1>3. ASSUME NEW u \in Units,
             r \in {<<Torn(Succ(c), c, u), Succ(c)>>, <<Torn(c, Succ(c), u), Succ(c)>>}
      PROVE  r[1] \in Int /\ r[2] = Succ(c)
  <2>1. u \in Nat /\ u > 0
    BY CountAssumption
  <2>2. c % u \in Int /\ Succ(c) % u \in Int
    BY <1>1, <2>1 DEF Count
  <2>3. Torn(Succ(c), c, u) \in Int /\ Torn(c, Succ(c), u) \in Int
    BY <1>1, <2>2 DEF Count, Torn, High
  <2> QED
    BY <1>3, <2>3
<1>4. r \in {<<c, c>>, <<c, Succ(c)>>, <<Succ(c), Succ(c)>>}
      \/ \E u \in Units : r \in {<<Torn(Succ(c), c, u), Succ(c)>>, <<Torn(c, Succ(c), u), Succ(c)>>}
  BY Zenon DEF Reads
<1> QED
  BY <1>1, <1>2, <1>3, <1>4

\* A read that no interrupt falls into, or one after which no upper byte
\* changes, is the count before or after it.
LEMMA ReadExact ==
  ASSUME NEW c \in Count, NEW r \in Reads(c), r[2] # c => ~ Carries(c)
  PROVE  \/ r[1] = r[2]
         \/ r[1] = c /\ r[2] = c + 1
<1>1. Succ(c) \in Count /\ Succ(c) # c /\ (Succ(c) = 0 \/ Succ(c) = c + 1)
  BY SuccIs
<1>2. \/ r \in {<<c, c>>, <<c, Succ(c)>>, <<Succ(c), Succ(c)>>}
      \/ \E u \in Units : r \in {<<Torn(Succ(c), c, u), Succ(c)>>, <<Torn(c, Succ(c), u), Succ(c)>>}
  BY Zenon DEF Reads
<1>3. CASE r[2] = c
  <2>1. r = <<c, c>>
    BY <1>1, <1>2, <1>3
  <2> QED
    BY <2>1
<1>4. CASE r[2] # c
  <2>1. ~ Carries(c)
    BY <1>4
  <2>2. Succ(c) = c + 1 /\ \A u \in Units : High(Succ(c), u) = High(c, u)
    BY <1>1, <2>1 DEF Carries
  <2>3. ASSUME NEW u \in Units
        PROVE  Torn(Succ(c), c, u) = c /\ Torn(c, Succ(c), u) = Succ(c)
    <3>1. u \in Nat /\ u > 0 /\ High(Succ(c), u) = High(c, u)
      BY <2>2, CountAssumption
    <3>2. c % u \in Int /\ Succ(c) % u \in Int
      BY <1>1, <3>1 DEF Count
    <3>3. High(c, u) + (c % u) = c /\ High(Succ(c), u) + (Succ(c) % u) = Succ(c)
      BY <1>1, <3>2 DEF High, Count
    <3> QED
      BY <3>1, <3>3 DEF Torn
  <2>4. r = <<c, Succ(c)>> \/ r = <<Succ(c), Succ(c)>>
    BY <1>2, <1>4, <2>3
  <2> QED
    BY <2>2, <2>4
<1> QED
  BY <1>3, <1>4

\* Counting does not part a timer from what its clock has left.
LEMMA LeftAgrees ==
  ASSUME NEW l, NEW t \in [Arrow -> Timer], NEW c \in Count, NEW d \in {c, Succ(c)},
         Agree(l, t, c)
  PROVE  Agree(Left(l, c, d), t, d)
<1>1. Succ(c) = 0 \/ Succ(c) = c + 1
  BY SuccIs
<1>2. CASE d = c
  BY <1>2 DEF Left
<1>3. CASE d # c /\ d < c
  BY <1>3 DEF Left, Agree
<1>4. CASE d # c /\ ~ (d < c)
  <2>1. d = c + 1
    BY <1>1, <1>4 DEF Count
  <2>2. Left(l, c, d) = [k \in DOMAIN l |-> IF l[k] < 0 THEN l[k] ELSE l[k] - 1]
    BY <1>4 DEF Left
  <2>3. ASSUME NEW k \in DOMAIN l
        PROVE  /\ Left(l, c, d)[k] = IF l[k] < 0 THEN l[k] ELSE l[k] - 1
               /\ l[k] \in Int /\ t[k].enabled /\ t[k].tik \in Int
               /\ l[k] < 0 => t[k].tik < c
               /\ l[k] >= 0 => t[k].tik = c + l[k]
    BY <2>2 DEF Agree, Timer
  <2>4. ASSUME NEW k \in DOMAIN l
        PROVE  /\ Left(l, c, d)[k] \in Int
               /\ Left(l, c, d)[k] < 0 => t[k].tik < d
               /\ Left(l, c, d)[k] >= 0 => t[k].tik = d + Left(l, c, d)[k]
    BY <2>1, <2>3 DEF Count
  <2>5. DOMAIN Left(l, c, d) = DOMAIN l
    BY <2>2
  <2> QED
    BY <2>3, <2>4, <2>5 DEF Agree
<1> QED
  BY <1>2, <1>3, <1>4

LEMMA StoppedAgrees ==
  ASSUME NEW l, NEW t \in [Arrow -> Timer], NEW c \in Count, NEW k \in Arrow, NEW x \in Timer,
         Agree(l, t, c)
  PROVE  Agree(Stopped(l, k), [t EXCEPT ![k] = x], c)
BY DEF Agree, Stopped

\* A timer armed with a read that is not in doubt agrees with its clock.
LEMMA ArmedAgrees ==
  ASSUME NEW l, NEW t \in [Arrow -> Timer], NEW k \in Arrow, NEW x \in Timer,
         NEW c \in Count, NEW r \in Reads(c), NEW v \in Nat, Agree(l, t, r[2]),
         x.tik = (r[1] + v) % Range, x.enabled
  PROVE  Agree(Armed(l, k, v, c, r), [t EXCEPT ![k] = x], r[2])
<1>1. r[1] \in Int /\ r[2] \in Count
  BY ReadTypes
<1>2. CASE InDoubt(v, c, r)
  BY <1>1, <1>2, StoppedAgrees DEF Armed
<1>3. CASE ~ InDoubt(v, c, r)
  <2> DEFINE n == IF r[1] = r[2] THEN v ELSE v - 1
             a == Armed(l, k, v, c, r)
  <2>1. /\ r[2] # c => ~ Carries(c)
        /\ r[1] + v < Range
    BY <1>1, <1>3, CountAssumption DEF InDoubt
  <2>2. \/ r[1] = r[2]
        \/ r[1] = c /\ r[2] = c + 1
    BY <2>1, ReadExact
  <2>3. r[1] + v \in Nat
    BY <1>1, <2>2 DEF Count
  <2>4. x.tik = r[1] + v
    BY <2>1, <2>3, SmallMod
  <2>5. /\ n \in Int
        /\ n < 0 => x.tik < r[2]
        /\ n >= 0 => x.tik = r[2] + n
    BY <1>1, <2>2, <2>4 DEF Count
  <2>6. a = [j \in DOMAIN l \cup {k} |-> IF j # k THEN l[j] ELSE n]
    BY <1>3 DEF Armed
  <2> HIDE DEF n, a
  <2>7. /\ DOMAIN a = DOMAIN l \cup {k} /\ a[k] = n
        /\ \A j \in DOMAIN l : j # k => a[j] = l[j]
    BY <2>6
  <2>8. [t EXCEPT ![k] = x][k] = x /\ \A j \in Arrow : j # k => [t EXCEPT ![k] = x][j] = t[j]
    OBVIOUS
  <2>9. Agree(a, [t EXCEPT ![k] = x], r[2])
    BY <2>5, <2>7, <2>8 DEF Agree
  <2> QED
    BY <2>9 DEF a
<1> QED
  BY <1>2, <1>3

LEMMA WithValue ==
  ASSUME NEW t \in Timer, NEW v \in Nat
  PROVE  LET x == [t EXCEPT !.value = v]
         IN  x \in Timer /\ x.tik = t.tik /\ x.enabled = t.enabled
BY DEF Timer

LEMMA ArrowIn ==
  ASSUME NEW i \in 1 .. N
  PROVE  Arrows[i] \in Arrow /\ Arrows[i] \notin Buttons
BY KeyAssumption DEF Arrow, N

LEMMA LenNat == N \in Nat
BY KeyAssumption DEF N

LEMMA ArrowIndex ==
  ASSUME NEW k \in Arrow
  PROVE  \E i \in 1 .. N : Arrows[i] = k
BY KeyAssumption DEF Arrow, N

----------------------------------------------------------------------------
(* The invariant.                                                          *)

LEMMA InitInv == Init => Inv
<1> SUFFICES ASSUME Init PROVE Inv
  OBVIOUS
<1>1. TypeInv
  <2>1. timer_cnt \in Count
    BY CountAssumption DEF Init, Count
  <2>2. [tik |-> 0, value |-> First, enabled |-> FALSE] \in Timer
    BY DelayAssumption DEF Timer
  <2>3. timer \in [Arrow -> Timer]
    BY <2>2 DEF Init
  <2>4. pc = 0 /\ ticked = FALSE
    BY DEF Init
  <2>5. pc \in 0 .. 2 * N + 1
    BY <2>4, LenNat
  <2>6. ticked \in BOOLEAN
    BY <2>4
  <2> QED
    BY <2>1, <2>3, <2>5, <2>6 DEF TypeInv
<1>2. ReportInv /\ Agree(left, timer, timer_cnt)
  BY DEF Init, ReportInv, Agree
<1> QED
  BY <1>1, <1>2 DEF Inv

\* A press arms the timer of its key, a release stops it.
LEMMA EdgeInv ==
  ASSUME Inv, kbd_edge
  PROVE  Inv'
<1> DEFINE k == Arrows[pc]
<1>1. /\ pc \in 1 .. N /\ pc' = pc + 1 /\ edge(k)
      /\ state' = state /\ before' = before /\ ticked' = ticked
  BY DEF kbd_edge
<1>2. k \in Arrow
  BY <1>1, ArrowIn
<1>3. pc' \in 0 .. 2 * N + 1 /\ pc' > 0
  BY <1>1, LenNat DEF Inv, TypeInv
<1>4. ASSUME NEW i \in 1 .. N, i < pc', Arrows[i] # k
      PROVE  Arrows[i] \in state <=> Arrows[i] \in last_state
  <2>1. i < pc
    BY <1>1, <1>4, LenNat
  <2> QED
    BY <2>1, <1>1 DEF Inv, ReportInv
<1>5. /\ report \subseteq state
      /\ (last_state \ before) \cap Arrow \subseteq report
      /\ \A j \in Arrow : timer[j].enabled => j \in last_state
      /\ ticked = FALSE
  BY <1>1, LenNat DEF Inv, TypeInv, ReportInv
<1>6. timer_cnt \in Count /\ timer \in [Arrow -> Timer] /\ Agree(left, timer, timer_cnt)
  BY DEF Inv, TypeInv
<1> HIDE DEF k
<1>7. CASE k \in state \ last_state
  <2>1. PICK r \in Reads(timer_cnt) :
          /\ timer' = [timer EXCEPT ![k] = Enabled(First, r, TRUE)]
          /\ timer_cnt' = r[2]
          /\ left' = Armed(Left(left, timer_cnt, r[2]), k, First, timer_cnt, r)
    BY <1>1, <1>7 DEF edge
  <2>2. /\ last_state' = last_state \cup {k}
        /\ report' = report \cup {k}
    BY <1>1, <1>7 DEF edge
  <2>3. r[1] \in Int /\ r[2] \in {timer_cnt, Succ(timer_cnt)} /\ r[2] \in Count
    BY <2>1, <1>6, ReadTypes
  <2> DEFINE x == Enabled(First, r, TRUE)
  <2>4. x \in Timer /\ x.tik = (r[1] + First) % Range /\ x.enabled
    BY <2>3, CountAssumption, DelayAssumption DEF Timer, Enabled
  <2>5. timer' = [timer EXCEPT ![k] = x]
    BY <2>1
  <2> HIDE DEF x
  <2>6. TypeInv'
    BY <2>1, <2>3, <2>4, <2>5, <1>1, <1>2, <1>3, <1>6 DEF Inv, TypeInv
  <2>7. ReportInv'
    <3>1. \A j \in Arrow : timer'[j].enabled => j \in last_state'
      BY <2>2, <2>5, <1>2, <1>5, <1>6
    <3>2. \A i \in 1 .. N : i < pc' => (Arrows[i] \in state' <=> Arrows[i] \in last_state')
      BY <2>2, <1>1, <1>4, <1>7
    <3> QED
      BY <3>1, <3>2, <2>2, <1>1, <1>5, <1>7 DEF ReportInv
  <2>8. Agree(left', timer', timer_cnt')
    <3>1. Agree(Left(left, timer_cnt, r[2]), timer, r[2])
      BY <2>3, <1>6, LeftAgrees
    <3> DEFINE l == Left(left, timer_cnt, r[2])
    <3>2. Agree(l, timer, r[2])
      BY <3>1
    <3>3. left' = Armed(l, k, First, timer_cnt, r)
      BY <2>1
    <3> HIDE DEF l
    <3>4. Agree(Armed(l, k, First, timer_cnt, r), [timer EXCEPT ![k] = x], r[2])
      BY <2>4, <3>2, <1>2, <1>6, DelayAssumption, ArmedAgrees
    <3> QED
      BY <2>1, <2>5, <3>3, <3>4
  <2> QED
    BY <2>6, <2>7, <2>8 DEF Inv, Agree
<1>8. CASE k \in last_state \ state
  <2>1. PICK r \in Reads(timer_cnt) :
          /\ timer' = [timer EXCEPT ![k] = Enabled(timer[k].value, r, FALSE)]
          /\ timer_cnt' = r[2]
    BY <1>1, <1>8 DEF edge
  <2>2. /\ left' = Stopped(Left(left, timer_cnt, timer_cnt'), k)
        /\ last_state' = last_state \ {k}
        /\ report' = report
    BY <1>1, <1>8 DEF edge
  <2>3. r[1] \in Int /\ r[2] \in {timer_cnt, Succ(timer_cnt)} /\ r[2] \in Count
    BY <2>1, <1>6, ReadTypes
  <2> DEFINE x == Enabled(timer[k].value, r, FALSE)
  <2>4. x \in Timer /\ ~ x.enabled
    BY <2>3, <1>2, <1>6, CountAssumption DEF Timer, Enabled
  <2>5. timer' = [timer EXCEPT ![k] = x]
    BY <2>1
  <2> HIDE DEF x
  <2>6. TypeInv'
    BY <2>1, <2>3, <2>4, <2>5, <1>1, <1>2, <1>3, <1>6 DEF Inv, TypeInv
  <2>7. ReportInv'
    <3>1. \A j \in Arrow : timer'[j].enabled => j \in last_state'
      BY <2>2, <2>4, <2>5, <1>2, <1>5, <1>6
    <3>2. \A i \in 1 .. N : i < pc' => (Arrows[i] \in state' <=> Arrows[i] \in last_state')
      BY <2>2, <1>1, <1>4, <1>8
    <3> QED
      BY <3>1, <3>2, <2>2, <1>1, <1>5, <1>8 DEF ReportInv
  <2>8. Agree(left', timer', timer_cnt')
    <3>1. Agree(Left(left, timer_cnt, r[2]), timer, r[2])
      BY <2>3, <1>6, LeftAgrees
    <3> DEFINE l == Left(left, timer_cnt, r[2])
    <3>2. Agree(l, timer, r[2])
      BY <3>1
    <3>3. left' = Stopped(l, k)
      BY <2>1, <2>2
    <3> HIDE DEF l
    <3>4. Agree(Stopped(l, k), [timer EXCEPT ![k] = x], r[2])
      BY <2>3, <2>4, <3>2, <1>2, <1>6, StoppedAgrees
    <3> QED
      BY <2>1, <2>5, <3>3, <3>4
  <2> QED
    BY <2>6, <2>7, <2>8 DEF Inv, Agree
<1>9. CASE k \in state <=> k \in last_state
  <2>1. UNCHANGED <<timer_cnt, timer, last_state, report, left>>
    BY <1>1, <1>9 DEF edge
  <2>2. \A i \in 1 .. N : i < pc' => (Arrows[i] \in state' <=> Arrows[i] \in last_state')
    BY <2>1, <1>1, <1>4, <1>9
  <2>3. Agree(left', timer', timer_cnt')
    BY <2>1, <1>6
  <2> QED
    BY <2>1, <2>2, <2>3, <1>1, <1>3, <1>5, <1>6 DEF Inv, TypeInv, ReportInv, Agree
<1> QED
  BY <1>7, <1>8, <1>9

\* What both steps of a timer start from.
LEMMA TickStart ==
  ASSUME Inv, pc \in N + 1 .. 2 * N
  PROVE  /\ Arrows[pc - N] \in Arrow /\ pc > 0
         /\ pc + 1 \in 0 .. 2 * N + 1 /\ pc + 1 > 0
         /\ report \subseteq state
         /\ (last_state \ before) \cap Arrow \subseteq report
         /\ \A j \in Arrow : timer[j].enabled => j \in last_state
         /\ \A i \in 1 .. N : Arrows[i] \in state <=> Arrows[i] \in last_state
         /\ Arrows[pc - N] \in state <=> Arrows[pc - N] \in last_state
<1>1. pc - N \in 1 .. N /\ pc > N /\ pc > 0
  BY LenNat
<1>2. \A i \in 1 .. N : i < pc
  BY <1>1, LenNat
<1>3. /\ report \subseteq state
      /\ (last_state \ before) \cap Arrow \subseteq report
      /\ \A j \in Arrow : timer[j].enabled => j \in last_state
      /\ \A i \in 1 .. N : Arrows[i] \in state <=> Arrows[i] \in last_state
  BY <1>1, <1>2 DEF Inv, ReportInv
<1> QED
  BY <1>1, <1>3, ArrowIn, LenNat

\* The comparing read finds a timer that is not in doubt elapsed exactly when
\* its clock has.
LEMMA TickInv ==
  ASSUME Inv, pc \in N + 1 .. 2 * N, tick(Arrows[pc - N]),
         UNCHANGED <<port, state, last_state, before>>
  PROVE  /\ Inv'
         /\ (Arrows[pc - N] \in DOMAIN left /\ (timer_cnt' # timer_cnt => ~ Carries(timer_cnt)))
              => IF ticked' THEN left[Arrows[pc - N]] < 0
                                   \/ (left[Arrows[pc - N]] = 0 /\ timer_cnt' # timer_cnt)
                 ELSE left[Arrows[pc - N]] >= 0
<1> DEFINE k == Arrows[pc - N]
<1>1. /\ k \in Arrow /\ pc > 0
      /\ pc + 1 \in 0 .. 2 * N + 1 /\ pc + 1 > 0
      /\ report \subseteq state
      /\ (last_state \ before) \cap Arrow \subseteq report
      /\ \A j \in Arrow : timer[j].enabled => j \in last_state
      /\ \A i \in 1 .. N : Arrows[i] \in state <=> Arrows[i] \in last_state
  BY TickStart
<1>2. /\ timer_cnt \in Count /\ timer \in [Arrow -> Timer] /\ pc \in 0 .. 2 * N + 1
      /\ Agree(left, timer, timer_cnt)
  BY DEF Inv, TypeInv
<1>3. PICK r \in Reads(timer_cnt) :
        /\ ticked' = Elapsed(timer[k], r[1])
        /\ timer_cnt' = r[2]
        /\ left' = Left(left, timer_cnt, r[2])
  BY DEF tick
<1>4. /\ pc' = IF ticked' THEN pc ELSE pc + 1
      /\ timer' = timer /\ report' = report
      /\ state' = state /\ last_state' = last_state /\ before' = before
  BY DEF tick
<1>5. r[1] \in Int /\ r[2] \in {timer_cnt, Succ(timer_cnt)} /\ r[2] \in Count
  BY <1>2, <1>3, ReadTypes
<1>6. ticked' \in BOOLEAN /\ (ticked' <=> timer[k].enabled /\ timer[k].tik < r[1])
  BY <1>1, <1>2, <1>3 DEF Elapsed, Timer
<1>7. Agree(left', timer', timer_cnt')
  BY <1>2, <1>3, <1>4, <1>5, LeftAgrees
<1>8. pc' \in 0 .. 2 * N + 1 /\ pc' > 0 /\ (ticked' => pc' = pc)
  <2>1. CASE ticked'
    BY <2>1, <1>1, <1>2, <1>4
  <2>2. CASE ~ ticked'
    BY <2>2, <1>1, <1>4
  <2> QED
    BY <2>1, <2>2
<1>9. TypeInv'
  BY <1>2, <1>3, <1>4, <1>5, <1>6, <1>8 DEF TypeInv
<1>10. ReportInv'
  <2>1. ticked' => pc' \in N + 1 .. 2 * N /\ timer'[Arrows[pc' - N]].enabled
    <3>1. ticked' => timer[Arrows[pc - N]].enabled
      BY <1>6
    <3> QED
      BY <3>1, <1>4, <1>8
  <2> QED
    BY <2>1, <1>1, <1>4 DEF ReportInv
<1>11. ASSUME k \in DOMAIN left, timer_cnt' # timer_cnt => ~ Carries(timer_cnt)
       PROVE  IF ticked' THEN left[k] < 0 \/ (left[k] = 0 /\ timer_cnt' # timer_cnt)
              ELSE left[k] >= 0
  <2>1. r[1] = r[2] \/ (r[1] = timer_cnt /\ r[2] = timer_cnt + 1)
    BY <1>2, <1>3, <1>11, ReadExact
  <2>2. r[2] = timer_cnt \/ r[2] = timer_cnt + 1
    <3>1. CASE r[2] # timer_cnt
      <4>1. ~ Carries(timer_cnt)
        BY <3>1, <1>3, <1>11
      <4>2. Succ(timer_cnt) # 0
        BY <4>1 DEF Carries
      <4> QED
        BY <4>2, <3>1, <1>2, <1>5, SuccIs
    <3> QED
      BY <3>1
  <2>3. /\ left[k] \in Int /\ timer[k].enabled /\ timer[k].tik \in Int
        /\ left[k] < 0 => timer[k].tik < timer_cnt
        /\ left[k] >= 0 => timer[k].tik = timer_cnt + left[k]
    BY <1>1, <1>2, <1>11 DEF Agree, Timer
  <2>4. timer[k].tik < r[1] => left[k] < 0 \/ (left[k] = 0 /\ timer_cnt' # timer_cnt)
    BY <2>1, <2>2, <2>3, <1>2, <1>3 DEF Count
  <2>5. ~ (timer[k].tik < r[1]) => left[k] >= 0
    BY <2>1, <2>2, <2>3, <1>2 DEF Count
  <2> QED
    BY <2>3, <2>4, <2>5, <1>6
<1> QED
  BY <1>7, <1>9, <1>10, <1>11 DEF Inv

\* A timer that has elapsed is armed again and reports its key, which is
\* still down.
LEMMA ArmAgainInv ==
  ASSUME Inv, pc \in N + 1 .. 2 * N, arm_again(Arrows[pc - N]),
         UNCHANGED <<port, state, last_state, before>>
  PROVE  Inv'
<1> DEFINE k == Arrows[pc - N]
<1>1. /\ k \in Arrow /\ pc > 0
      /\ pc + 1 \in 0 .. 2 * N + 1 /\ pc + 1 > 0
      /\ report \subseteq state
      /\ (last_state \ before) \cap Arrow \subseteq report
      /\ \A j \in Arrow : timer[j].enabled => j \in last_state
      /\ \A i \in 1 .. N : Arrows[i] \in state <=> Arrows[i] \in last_state
      /\ k \in state <=> k \in last_state
  BY TickStart
<1>2. /\ timer_cnt \in Count /\ timer \in [Arrow -> Timer]
      /\ Agree(left, timer, timer_cnt)
  BY DEF Inv, TypeInv
<1>3. k \in state
  BY <1>1 DEF arm_again, Inv, ReportInv
<1>4. /\ ticked' = FALSE /\ pc' = pc + 1 /\ report' = report \cup {k}
      /\ state' = state /\ last_state' = last_state /\ before' = before
  BY DEF arm_again
<1>5. PICK r \in Reads(timer_cnt) :
        /\ timer' = [timer EXCEPT ![k] = [Enabled(@.value, r, TRUE) EXCEPT !.value = Again]]
        /\ timer_cnt' = r[2]
        /\ left' = Armed(Left(left, timer_cnt, r[2]), k, timer[k].value, timer_cnt, r)
  BY DEF arm_again
<1>6. r[1] \in Int /\ r[2] \in {timer_cnt, Succ(timer_cnt)} /\ r[2] \in Count
  BY <1>2, <1>5, ReadTypes
<1> DEFINE x == [Enabled(timer[k].value, r, TRUE) EXCEPT !.value = Again]
<1>7. timer[k].value \in Nat
  BY <1>1, <1>2 DEF Timer
<1>8. x \in Timer /\ x.tik = (r[1] + timer[k].value) % Range /\ x.enabled
  <2>1. (r[1] + timer[k].value) % Range \in Int
    BY <1>6, <1>7, CountAssumption
  <2> DEFINE y == Enabled(timer[k].value, r, TRUE)
  <2>2. y \in Timer /\ y.tik = (r[1] + timer[k].value) % Range /\ y.enabled
    BY <2>1, <1>7 DEF Timer, Enabled
  <2> HIDE DEF y
  <2>3. LET z == [y EXCEPT !.value = Again]
        IN  z \in Timer /\ z.tik = y.tik /\ z.enabled = y.enabled
    BY <2>2, DelayAssumption, WithValue
  <2> QED
    BY <2>2, <2>3 DEF y
<1>9. timer' = [timer EXCEPT ![k] = x]
  BY <1>5
<1> HIDE DEF x, k
<1>10. TypeInv'
  BY <1>1, <1>2, <1>4, <1>5, <1>6, <1>8, <1>9 DEF TypeInv
<1>11. ReportInv'
  <2>1. \A j \in Arrow : timer'[j].enabled => j \in last_state'
    BY <1>1, <1>2, <1>3, <1>4, <1>9
  <2> QED
    BY <2>1, <1>1, <1>3, <1>4 DEF ReportInv
<1>12. Agree(left', timer', timer_cnt')
  <2>1. Agree(Left(left, timer_cnt, r[2]), timer, r[2])
    BY <1>2, <1>6, LeftAgrees
  <2> DEFINE l == Left(left, timer_cnt, r[2])
  <2>2. Agree(l, timer, r[2])
    BY <2>1
  <2>3. left' = Armed(l, k, timer[k].value, timer_cnt, r)
    BY <1>5 DEF k
  <2> HIDE DEF l
  <2>4. ASSUME NEW v \in Nat, v = timer[k].value
        PROVE  Agree(Armed(l, k, v, timer_cnt, r), [timer EXCEPT ![k] = x], r[2])
    BY <2>2, <2>4, <1>1, <1>2, <1>8, ArmedAgrees
  <2> QED
    BY <2>3, <2>4, <1>5, <1>7, <1>9
<1> QED
  BY <1>10, <1>11, <1>12 DEF Inv

\* No timer, key or poll is touched.
LEMMA CountInv ==
  ASSUME Inv, timer_service
  PROVE  Inv'
<1>1. /\ timer_cnt \in Count /\ timer \in [Arrow -> Timer]
      /\ Agree(left, timer, timer_cnt)
  BY DEF Inv, TypeInv
<1>2. timer_cnt' = Succ(timer_cnt) /\ timer_cnt' \in Count
  BY <1>1, SuccIs DEF timer_service
<1>3. Agree(left', timer', timer_cnt')
  <2>1. Agree(Left(left, timer_cnt, timer_cnt'), timer, timer_cnt')
    BY <1>1, <1>2, LeftAgrees
  <2> QED
    BY <2>1 DEF timer_service
<1>4. TypeInv' /\ ReportInv'
  BY <1>1, <1>2 DEF timer_service, Inv, TypeInv, ReportInv
<1> QED
  BY <1>3, <1>4 DEF Inv

LEMMA NextInv == Inv /\ [Next]_vars => Inv'
<1> SUFFICES ASSUME Inv, [Next]_vars PROVE Inv'
  OBVIOUS
<1>1. CASE timer_service
  BY <1>1, CountInv
<1>2. CASE kbd_idle
  <2>1. ~ ticked
    BY <1>2, LenNat DEF kbd_idle, Inv, ReportInv
  <2> QED
    BY <1>2, <2>1, LenNat DEF kbd_idle, Inv, TypeInv, ReportInv, Agree
<1>3. CASE kbd_edge
  BY <1>3, EdgeInv
<1>4. CASE kbd_tick
  BY <1>4, TickInv, ArmAgainInv DEF kbd_tick
<1>5. CASE buttons
  <2>1. \A k \in Arrow : k \in last_state' <=> k \in last_state
    BY <1>5, KeyAssumption DEF buttons
  <2>2. ~ ticked
    BY <1>5, LenNat DEF buttons, Inv, ReportInv
  <2> QED
    BY <1>5, <2>1, <2>2, LenNat DEF buttons, Inv, TypeInv, ReportInv, Agree
<1>6. ASSUME NEW k \in Arrow \cup Buttons, press(k) \/ release(k)
      PROVE  Inv'
  BY <1>6 DEF press, release, Inv, TypeInv, ReportInv, Agree
<1>7. CASE UNCHANGED vars
  BY <1>7 DEF vars, Inv, TypeInv, ReportInv, Agree
<1> QED
  BY <1>1, <1>2, <1>3, <1>4, <1>5, <1>6, <1>7 DEF Next, Poll

THEOREM KeyboardInvariant == Spec => []Inv
BY InitInv, NextInv, PTL DEF Spec

----------------------------------------------------------------------------
(* The properties.                                                         *)

\* A poll of kbd_idle reports every arrow that it finds newly pressed and
\* none that is not down: a release stops the timer of its key before the
\* timers are looked at.
THEOREM PollsReport == Spec => []PollReports
<1>1. Inv => PollReports
  <2> SUFFICES ASSUME Inv, pc = 2 * N + 1
               PROVE  (state \ before) \cap Arrow \subseteq report /\ report \subseteq state
    BY DEF PollReports
  <2>1. \A i \in 1 .. N : Arrows[i] \in state <=> Arrows[i] \in last_state
    BY LenNat DEF Inv, ReportInv
  <2>2. \A k \in Arrow : k \in state => k \in last_state
    BY <2>1, ArrowIndex
  <2> QED
    BY <2>2, LenNat DEF Inv, ReportInv
<1> QED
  BY <1>1, KeyboardInvariant, PTL

\* timer_tik repeats a key at the first poll after its delay, for any delays
\* and any width of timer_cnt and its bytes, but for the reads in which a
\* carry may be torn and the delays in which the counter wraps: what an
\* interrupt does to a read without a carry never shows, and what it does to
\* one with a carry is gone when the timer is armed again.
THEOREM RepeatsOnTime == Spec => OnTime
<1> DEFINE A == \A k \in DOMAIN left :
       (pc \in N + 1 .. 2 * N /\ Arrows[pc - N] = k /\ (pc' # pc \/ ticked') /\ ~ticked
          /\ (timer_cnt' # timer_cnt => ~Carries(timer_cnt)))
         => IF ticked' THEN left[k] < 0 \/ (left[k] = 0 /\ timer_cnt' # timer_cnt)
            ELSE left[k] >= 0
<1>1. Inv /\ [Next]_vars => A
  <2> SUFFICES ASSUME Inv, [Next]_vars, NEW k \in DOMAIN left,
                      pc \in N + 1 .. 2 * N, Arrows[pc - N] = k, pc' # pc \/ ticked', ~ ticked,
                      timer_cnt' # timer_cnt => ~ Carries(timer_cnt)
               PROVE  IF ticked' THEN left[k] < 0 \/ (left[k] = 0 /\ timer_cnt' # timer_cnt)
                      ELSE left[k] >= 0
    OBVIOUS
  <2>1. CASE kbd_tick
    BY <2>1, TickInv DEF kbd_tick, arm_again
  <2>2. CASE kbd_edge
    BY <2>2, LenNat DEF kbd_edge
  <2>3. CASE kbd_idle \/ buttons
    BY <2>3, LenNat DEF kbd_idle, buttons
  <2>4. CASE timer_service \/ (\E j \in Arrow \cup Buttons : press(j) \/ release(j))
             \/ UNCHANGED vars
    <3>1. pc' = pc /\ ticked' = ticked
      BY <2>4 DEF timer_service, press, release, vars
    <3> QED
      BY <3>1
  <2> QED
    BY <2>1, <2>2, <2>3, <2>4 DEF Next, Poll
<1>2. Spec => [][A]_vars
  BY <1>1, KeyboardInvariant, PTL DEF Spec
<1> QED
  BY <1>2 DEF OnTime
=============================================================================
