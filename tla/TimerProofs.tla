------------------------------ MODULE TimerProofs ------------------------------
(***************************************************************************)
(* Proofs about Timers: a timer that counts undisturbed overflows neither  *)
(* late nor more than two update intervals early.                          *)
(***************************************************************************)
EXTENDS Timers, NaturalsInduction, WellFoundedInduction, TLAPS

(* A timer that is given an interval does not overflow U32_t before an     *)
(* update sees that the interval has passed.                               *)
IntervalsFit == \A i \in Interval : (i % TimerWidth) # 0 /\ (i % TimerWidth) + MaxLag <= TimerWidth

Param == [on : BOOLEAN, periodic : BOOLEAN, ar : BOOLEAN, itr : 0 .. 31]

(* No task runs any more: a call never returns, or the update is on freed  *)
(* memory.                                                                 *)
Ended == All \cup {"dangling"}

TimerTypes ==
  /\ live \subseteq Timer
  /\ state \in [Timer -> {"running", "waiting", "stopped"}]
  /\ ticks \in [Timer -> Nat] /\ T \in [Timer -> Nat]
  /\ param \in [Timer -> Param \cup {NoTimer}]
  /\ \A t \in live : param[t] \in Param
  /\ now \in 0 .. HourLength - 1 /\ seen \in Nat
  /\ upd \in {"sleep", "read", "walk", "callback"} \cup Ended
  /\ t_us \in Nat
  /\ hist \in [of : [Timer -> [age : Nat, clean : BOOLEAN]], lag : Nat,
               rolled : BOOLEAN, bad : BOOLEAN]

(* The iterator: its next timer exists and comes later in the list; in a   *)
(* callback it may be no longer the very next one.                         *)
Iterating ==
  /\ upd \in {"walk", "callback"} =>
       cur \in live /\ nxt \in live \cup {NoTimer} /\ (nxt # NoTimer => nxt > cur)
  /\ upd = "walk" => \A t \in live : t > cur => nxt # NoTimer /\ t >= nxt

(* The time since the last update, unless the run-time passed the hour.    *)
Clock ==
  /\ upd # "read" /\ ~hist.rolled => now = seen + hist.lag /\ hist.lag <= MaxLag
  /\ upd = "read" => ~hist.rolled
  /\ ~hist.bad => t_us <= MaxLag

(* The timers that the update in progress has still to visit, what it will *)
(* give them, and the time that passed since it was computed.              *)
Pending(t) == \/ upd = "read"
              \/ upd = "walk" /\ t >= cur
              \/ upd = "callback" /\ nxt # NoTimer /\ t >= nxt
Due(t) == IF Pending(t) THEN t_us ELSE 0
Since == IF upd = "read" THEN 0 ELSE hist.lag

(* The count of a timer is its age, up to two update intervals.            *)
Counted(t) ==
  LET age == hist.of[t].age
  IN /\ ticks[t] < T[t]
     /\ state[t] # "running" => ticks[t] = 0 /\ age = 0
     /\ state[t] = "running" /\ ~(Pending(t) /\ hist.bad) =>
          /\ age <= ticks[t] + Due(t) + Since
          /\ Pending(t) => ticks[t] + t_us <= age + 2 * MaxLag
          /\ ~hist.rolled => ticks[t] + Due(t) + Since <= age + 2 * MaxLag

Own(t) == upd = "callback" /\ t = cur

Counts ==
  IntervalsFit /\ upd \notin Ended =>
    \A t \in live : /\ T[t] > 0 /\ T[t] + MaxLag <= TimerWidth
                    /\ hist.of[t].clean /\ ~Own(t) => Counted(t)

TimerInv == TimerTypes /\ Iterating /\ Clock /\ Counts
-------------------------------------------------------------------------------
LEMMA LeastNat ==
  ASSUME NEW S, S \subseteq Nat, S # {}
  PROVE  Min(S) \in S /\ \A y \in S : Min(S) <= y
<1>1. \E x \in S : \A y \in S : ~(<<y, x>> \in OpToRel(<, Nat))
  BY NatLessThanWellFounded, WFMin
<1>2. PICK x \in S : \A y \in S : ~(<<y, x>> \in OpToRel(<, Nat)) BY <1>1
<1>3. ASSUME NEW y \in S, y < x PROVE FALSE
  <2>1. <<y, x>> \in Nat \X Nat /\ <<y, x>>[1] < <<y, x>>[2] BY <1>2, <1>3
  <2>2. <<y, x>> \in OpToRel(<, Nat) BY <2>1, Zenon DEF OpToRel
  <2>3. QED BY <1>2, <1>3, <2>2
<1>4. \A y \in S : x \in Nat /\ y \in Nat /\ ~(y < x) BY <1>3
<1> DEFINE P(z) == \A y \in S : z <= y
<1>5. \E z \in S : P(z) BY <1>4
<1>6. Min(S) = CHOOSE z \in S : P(z) BY DEF Min
<1>7. Min(S) \in S /\ P(Min(S))
  <2> HIDE DEF P
  <2>1. QED BY <1>5, <1>6
<1>8. QED BY <1>7

(* The order of TimerList.                                                 *)
LEMMA AfterIs ==
  ASSUME live \subseteq Timer, NEW t \in Timer
  PROVE  /\ After(t) \in live \cup {NoTimer}
         /\ After(t) # NoTimer => After(t) > t
         /\ \A u \in live : u > t => After(t) # NoTimer /\ u >= After(t)
<1> DEFINE later == {u \in live : u > t}
<1>1. later \subseteq Nat BY TimerAssumption
<1>2. CASE later = {} BY <1>2 DEF After
<1>3. CASE later # {}
  <2>1. Min(later) \in later /\ \A y \in later : Min(later) <= y BY <1>1, <1>3, LeastNat
  <2>2. After(t) = Min(later) BY <1>3 DEF After
  <2> HIDE DEF later
  <2>3. After(t) \in later /\ \A y \in later : After(t) <= y BY <2>1, <2>2
  <2>4. \A y \in later : y \in live /\ y > t /\ y \in Nat BY TimerAssumption DEF later
  <2>5. \A u \in live : u > t => u \in later BY DEF later
  <2>6. \A u \in later : u >= After(t) BY <2>3, <2>4
  <2>7. After(t) # NoTimer BY <2>3, TimerAssumption DEF later
  <2>8. QED BY <2>3, <2>4, <2>5, <2>6, <2>7
<1>4. QED BY <1>2, <1>3

LEMMA HeadIs ==
  ASSUME live \subseteq Timer
  PROVE  /\ FirstTimer \in live \cup {NoTimer}
         /\ \A u \in live : FirstTimer # NoTimer /\ u >= FirstTimer
<1>1. live \subseteq Nat BY TimerAssumption
<1>2. CASE live = {} BY <1>2 DEF FirstTimer
<1>3. CASE live # {}
  <2>1. Min(live) \in live /\ \A y \in live : Min(live) <= y BY <1>1, <1>3, LeastNat
  <2>2. FirstTimer = Min(live) BY <1>3 DEF FirstTimer
  <2>3. FirstTimer \in live /\ \A y \in live : FirstTimer <= y BY <2>1, <2>2
  <2>4. \A u \in live : u >= FirstTimer BY <1>1, <2>3
  <2>5. FirstTimer # NoTimer BY <2>3, TimerAssumption
  <2>6. QED BY <2>3, <2>4, <2>5
<1>4. QED BY <1>2, <1>3

(* The iterator goes to c; the update may have deleted an earlier timer.   *)
LEMMA MoveToIs ==
  ASSUME live \subseteq Timer, NEW c \in live \cup {NoTimer}, MoveTo(c),
         live' \subseteq live, \A u \in live : c # NoTimer /\ u >= c => u \in live'
  PROVE  /\ Iterating'
         /\ upd' = (IF c = NoTimer THEN "sleep" ELSE "walk") /\ cur' = c
<1>1. CASE c = NoTimer BY <1>1 DEF MoveTo, Iterating
<1>2. CASE c # NoTimer
  <2>1. c \in Timer /\ c \in Nat BY <1>2, TimerAssumption
  <2>2. /\ After(c) \in live \cup {NoTimer}
        /\ After(c) # NoTimer => After(c) > c
        /\ \A u \in live : u > c => After(c) # NoTimer /\ u >= After(c)
    BY <2>1, AfterIs
  <2>3. cur' = c /\ nxt' = After(c) /\ upd' = "walk" BY <1>2 DEF MoveTo
  <2>4. c \in live' BY <1>2, <2>1
  <2>5. After(c) # NoTimer => After(c) \in live'
    <3>1. After(c) # NoTimer => After(c) \in live /\ After(c) \in Nat BY <2>2, TimerAssumption
    <3>2. QED BY <1>2, <2>1, <2>2, <3>1
  <2>6. QED BY <1>2, <2>2, <2>3, <2>4, <2>5 DEF Iterating
<1>3. QED BY <1>1, <1>2
-------------------------------------------------------------------------------
LEMMA NoteIs ==
  ASSUME TimerTypes, NEW t \in Timer, NEW h \in [age : Nat, clean : BOOLEAN], Note(t, h)
  PROVE  /\ hist' \in [of : [Timer -> [age : Nat, clean : BOOLEAN]], lag : Nat,
                       rolled : BOOLEAN, bad : BOOLEAN]
         /\ hist'.of[t] = h /\ \A u \in Timer \ {t} : hist'.of[u] = hist.of[u]
         /\ hist'.lag = hist.lag /\ hist'.rolled = hist.rolled /\ hist'.bad = hist.bad
BY DEF TimerTypes, Note

LEMMA InitTimerInv == TimersInit => TimerInv
<1> SUFFICES ASSUME TimersInit PROVE TimerInv OBVIOUS
<1>1. TimerTypes
  <2>1. now \in 0 .. HourLength - 1 BY TimerAssumption DEF TimersInit
  <2>2. Fresh \in [age : Nat, clean : BOOLEAN] BY DEF Fresh
  <2>3. [t \in Timer |-> Fresh] \in [Timer -> [age : Nat, clean : BOOLEAN]] BY <2>2
  <2>4. hist \in [of : [Timer -> [age : Nat, clean : BOOLEAN]], lag : Nat,
                 rolled : BOOLEAN, bad : BOOLEAN]
    BY <2>3 DEF TimersInit
  <2>5. /\ param \in [Timer -> Param \cup {NoTimer}] /\ live \subseteq Timer
        /\ \A t \in live : param[t] \in Param
    BY DEF TimersInit
  <2>6. QED BY <2>1, <2>4, <2>5 DEF TimersInit, TimerTypes
<1>2. hist.lag = 0 /\ ~hist.rolled BY DEF TimersInit
<1>3. Clock BY <1>2, TimerAssumption DEF TimersInit, Clock
<1>4. Iterating /\ Counts BY DEF TimersInit, Iterating, Counts
<1>5. QED BY <1>1, <1>3, <1>4 DEF TimerInv

(* A call of the API on one timer, which leaves its count alone, or leaves *)
(* it at the beginning or no longer undisturbed.                           *)
LEMMA CallStep ==
  ASSUME TimerInv, TimerTypes', CallAllowed, UNCHANGED <<now, taskVars>>,
         NEW t \in Timer,
         \A u \in Timer \ {t} :
           /\ u \in live' <=> u \in live
           /\ state'[u] = state[u] /\ ticks'[u] = ticks[u] /\ T'[u] = T[u]
           /\ hist'.of[u] = hist.of[u],
         hist'.lag = hist.lag, hist'.rolled = hist.rolled, hist'.bad = hist.bad,
         t \in live' \/ (upd = "callback" => t \notin {cur, nxt}),
         t \in live' /\ IntervalsFit =>
           /\ T'[t] > 0 /\ T'[t] + MaxLag <= TimerWidth
           /\ \/ ~hist'.of[t].clean
              \/ ticks'[t] = 0 /\ hist'.of[t].age = 0
              \/ /\ t \in live /\ hist'.of[t] = hist.of[t] /\ ticks'[t] = ticks[t]
                 /\ T'[t] = T[t] /\ state'[t] \in {state[t], "running"}
  PROVE  TimerInv'
<1>1. upd' = upd /\ cur' = cur /\ nxt' = nxt /\ t_us' = t_us /\ seen' = seen /\ now' = now
  BY DEF taskVars
<1>2. upd \in {"sleep", "callback"} BY DEF CallAllowed
<1>3. Iterating'
  <2>1. upd = "callback" => cur \in Timer /\ nxt \in Timer \cup {NoTimer}
    BY DEF TimerInv, TimerTypes, Iterating
  <2>2. QED BY <1>1, <1>2, <2>1, TimerAssumption DEF TimerInv, Iterating
<1>4. Clock' BY <1>1 DEF TimerInv, Clock
<1>5. ASSUME IntervalsFit, NEW u \in live', upd \notin Ended
      PROVE /\ T'[u] > 0 /\ T'[u] + MaxLag <= TimerWidth
            /\ hist'.of[u].clean /\ ~Own(u)' => Counted(u)'
  <2> USE <1>5
  <2>1. u \in Timer BY DEF TimerTypes
  <2>2. Own(u)' <=> Own(u) BY <1>1 DEF Own
  <2>3. Pending(u)' <=> Pending(u) BY <1>1 DEF Pending
  <2>4. Due(u)' = Due(u) /\ Since' = Since
    <3>1. Due(u)' = IF Pending(u)' THEN t_us' ELSE 0 BY DEF Due
    <3>2. QED BY <1>1, <2>3, <3>1 DEF Due, Since
  <2>5. ASSUME u \in live, ticks'[u] = ticks[u], T'[u] = T[u], state'[u] = state[u],
               hist'.of[u] = hist.of[u]
        PROVE  /\ T'[u] > 0 /\ T'[u] + MaxLag <= TimerWidth
               /\ hist'.of[u].clean /\ ~Own(u)' => Counted(u)'
    <3>1. /\ T[u] > 0 /\ T[u] + MaxLag <= TimerWidth
          /\ hist.of[u].clean /\ ~Own(u) => Counted(u)
      BY <1>5, <2>5 DEF TimerInv, Counts
    <3>2. QED BY <1>1, <2>2, <2>3, <2>4, <2>5, <3>1 DEF Counted
  <2>6. ASSUME ticks'[u] = 0, hist'.of[u].age = 0, T'[u] > 0
        PROVE  Counted(u)'
    <3>1. Since = hist.lag /\ hist.lag \in Nat /\ t_us \in Nat /\ MaxLag \in Nat
      BY <1>2, TimerAssumption DEF Since, TimerInv, TimerTypes
    <3>2. ~hist.rolled => hist.lag <= MaxLag BY <1>2 DEF TimerInv, Clock
    <3>3. ~hist.bad => t_us <= MaxLag BY DEF TimerInv, Clock
    <3>4. Due(u) = (IF Pending(u) THEN t_us ELSE 0) BY DEF Due
    <3> DEFINE due == Due(u)
               since == Since
               pend == Pending(u)
    <3>5. /\ 0 <= due + since
          /\ pend /\ ~hist.bad => t_us <= 2 * MaxLag
          /\ ~(pend /\ hist.bad) /\ ~hist.rolled => due + since <= 2 * MaxLag
      BY <3>1, <3>2, <3>3, <3>4
    <3>6. /\ Due(u)' = due /\ Since' = since /\ (Pending(u)' <=> pend)
          /\ t_us' = t_us /\ hist'.bad = hist.bad /\ hist'.rolled = hist.rolled
      BY <1>1, <2>3, <2>4
    <3>7. due \in Nat /\ since \in Nat BY <3>1, <3>4
    <3> HIDE DEF due, since, pend
    <3>8. QED BY <2>6, <3>1, <3>5, <3>6, <3>7 DEF Counted
  <2>7. CASE u # t
    <3>1. u \in Timer \ {t} BY <2>1, <2>7
    <3>2. QED BY <2>5, <3>1
  <2>8. CASE u = t
    <3>1. CASE ~hist'.of[t].clean BY <2>8, <3>1
    <3>2. CASE ticks'[t] = 0 /\ hist'.of[t].age = 0 BY <2>6, <2>8, <3>2
    <3>3. CASE /\ t \in live /\ hist'.of[t] = hist.of[t] /\ ticks'[t] = ticks[t]
               /\ T'[t] = T[t] /\ state'[t] \in {state[t], "running"}
      <4>1. CASE state'[t] = state[t] BY <2>5, <2>8, <3>3, <4>1
      <4>2. CASE state[t] # "running"
        <5>1. hist.of[t].clean /\ ~Own(t) => ticks[t] = 0 /\ hist.of[t].age = 0
          BY <1>5, <3>3, <4>2 DEF TimerInv, Counts, Counted
        <5>2. hist'.of[u].clean /\ ~Own(u)' => Counted(u)'
          BY <2>2, <2>6, <2>8, <3>3, <5>1
        <5>3. QED BY <2>8, <5>2
      <4>3. QED BY <3>3, <4>1, <4>2
    <3>4. QED BY <2>8, <3>1, <3>2, <3>3
  <2>9. QED BY <2>7, <2>8
<1>6. Counts' BY <1>1, <1>5 DEF Counts
<1>7. QED BY <1>3, <1>4, <1>6 DEF TimerInv


(* The calls of the API on one timer.                                      *)
LEMMA ApiStep ==
  ASSUME TimerInv, NEW t \in Timer,
         \/ \E interval \in Interval, p \in Parameter : TimerCreate(t, interval, p)
         \/ TimerDelete(t) \/ TimerReset(t) \/ TimerPause(t) \/ TimerStop(t) \/ TimerStart(t)
         \/ \E interval \in Interval : TimerIntervalSet(t, interval)
         \/ \E p \in Parameter : TimerParameterSet(t, p)
         \/ \E n \in Iterations : TimerIterationsSet(t, n)
  PROVE  TimerInv'
<1> DEFINE H == [age : Nat, clean : BOOLEAN]
<1>1. TimerTypes /\ hist.of[t] \in H BY DEF TimerInv, TimerTypes
<1>2. \A u \in live : IntervalsFit /\ upd \notin Ended => T[u] > 0 /\ T[u] + MaxLag <= TimerWidth
  BY DEF TimerInv, Counts
<1>3. \A i \in Interval :
        i % TimerWidth \in Nat /\ (IntervalsFit => (i % TimerWidth) > 0 /\ (i % TimerWidth) + MaxLag <= TimerWidth)
  <2>1. \A i \in Interval : i \in Nat /\ TimerWidth \in Nat /\ TimerWidth > 0 BY TimerAssumption
  <2>2. \A i \in Interval : i % TimerWidth \in Nat BY <2>1
  <2>3. QED BY <2>2 DEF IntervalsFit
<1>4. Fresh \in H /\ Fresh.age = 0 BY DEF Fresh
<1>5. CallAllowed => upd \notin Ended BY DEF CallAllowed, Ended, All
<1> DEFINE h0 == [hist.of[t] EXCEPT !.age = 0, !.clean = TRUE]
           h1 == [hist.of[t] EXCEPT !.age = 0, !.clean = FALSE]
<1>6. h0 \in H /\ h0.age = 0 /\ h1 \in H /\ ~h1.clean BY <1>1
<1> HIDE DEF H, h0, h1
<1>7. ASSUME NEW interval \in Interval, NEW p \in Parameter, TimerCreate(t, interval, p)
      PROVE  TimerInv'
  <2> USE <1>7 DEF TimerCreate, ITimerCreate
  <2>1. Note(t, Fresh) OBVIOUS
  <2>2. /\ hist' \in [of : [Timer -> H], lag : Nat, rolled : BOOLEAN, bad : BOOLEAN]
        /\ hist'.of[t] = Fresh /\ \A u \in Timer \ {t} : hist'.of[u] = hist.of[u]
        /\ hist'.lag = hist.lag /\ hist'.rolled = hist.rolled /\ hist'.bad = hist.bad
    BY <1>1, <1>4, <2>1, NoteIs DEF H
  <2>3. p \in Param BY TimerAssumption DEF Param
  <2>4. TimerTypes' BY <1>1, <1>3, <2>2, <2>3 DEF TimerTypes, H, taskVars
  <2>5. ticks'[t] = 0 /\ (IntervalsFit => T'[t] > 0 /\ T'[t] + MaxLag <= TimerWidth)
    BY <1>1, <1>3 DEF TimerTypes
  <2>6. \A u \in Timer \ {t} :
          /\ u \in live' <=> u \in live
          /\ state'[u] = state[u] /\ ticks'[u] = ticks[u] /\ T'[u] = T[u]
    BY <1>1 DEF TimerTypes
  <2>7. QED BY <1>4, <2>2, <2>4, <2>5, <2>6, CallStep
<1>8. CASE TimerDelete(t)
  <2> USE <1>8 DEF TimerDelete, Forget
  <2>1. Note(t, Fresh) OBVIOUS
  <2>2. /\ hist' \in [of : [Timer -> H], lag : Nat, rolled : BOOLEAN, bad : BOOLEAN]
        /\ hist'.of[t] = Fresh /\ \A u \in Timer \ {t} : hist'.of[u] = hist.of[u]
        /\ hist'.lag = hist.lag /\ hist'.rolled = hist.rolled /\ hist'.bad = hist.bad
    BY <1>1, <1>4, <2>1, NoteIs DEF H
  <2>3. TimerTypes' BY <1>1, <2>2 DEF TimerTypes, H, Ended
  <2>4. \A u \in Timer \ {t} :
          /\ u \in live' <=> u \in live
          /\ state'[u] = state[u] /\ ticks'[u] = ticks[u] /\ T'[u] = T[u]
    BY <1>1 DEF TimerTypes
  <2>5. CASE upd = "callback" /\ t \in {cur, nxt}
    <3>1. /\ upd' = "dangling" /\ upd # "read" /\ UNCHANGED <<now, seen, t_us, cur, nxt>>
          /\ hist'.lag = hist.lag /\ hist'.rolled = hist.rolled /\ hist'.bad = hist.bad
      BY <2>2, <2>5
    <3>2. Iterating' /\ Clock' BY <3>1 DEF TimerInv, Iterating, Clock
    <3>3. Counts' BY <3>1 DEF Counts, Ended
    <3>4. QED BY <2>3, <3>2, <3>3 DEF TimerInv
  <2>6. CASE ~(upd = "callback" /\ t \in {cur, nxt})
    <3>1. UNCHANGED <<now, taskVars>> /\ CallAllowed /\ (upd = "callback" => t \notin {cur, nxt})
      BY <2>6 DEF taskVars
    <3>2. t \notin live' OBVIOUS
    <3>3. QED BY <2>2, <2>3, <2>4, <3>1, <3>2, CallStep
  <2>7. QED BY <2>5, <2>6
<1>9. ASSUME TimerReset(t) \/ TimerStop(t)
      PROVE  TimerInv'
  <2> USE <1>9 DEF TimerReset, TimerStop, Access
  <2>1. Note(t, h0) BY DEF h0
  <2>2. /\ hist' \in [of : [Timer -> H], lag : Nat, rolled : BOOLEAN, bad : BOOLEAN]
        /\ hist'.of[t] = h0 /\ \A u \in Timer \ {t} : hist'.of[u] = hist.of[u]
        /\ hist'.lag = hist.lag /\ hist'.rolled = hist.rolled /\ hist'.bad = hist.bad
    BY <1>1, <1>6, <2>1, NoteIs DEF H
  <2>3. TimerTypes'
    <3>1. /\ state' \in [Timer -> {"running", "waiting", "stopped"}]
          /\ ticks' \in [Timer -> Nat]
      BY <1>1 DEF TimerTypes
    <3>2. UNCHANGED <<live, T, param, now, taskVars>> OBVIOUS
    <3>3. QED BY <1>1, <2>2, <3>1, <3>2 DEF TimerTypes, H, taskVars
  <2>4. \A u \in Timer \ {t} :
          /\ u \in live' <=> u \in live
          /\ state'[u] = state[u] /\ ticks'[u] = ticks[u] /\ T'[u] = T[u]
    BY <1>1 DEF TimerTypes
  <2>5. /\ CallAllowed /\ t \in live' /\ t \in live /\ ticks'[t] = 0 /\ T'[t] = T[t]
        /\ UNCHANGED <<now, taskVars>>
    BY <1>1 DEF TimerTypes
  <2> QED BY <1>2, <1>5, <1>6, <2>2, <2>3, <2>4, <2>5, CallStep
<1>10. ASSUME TimerPause(t) \/ \E interval \in Interval : TimerIntervalSet(t, interval)
       PROVE  TimerInv'
  <2> USE <1>10 DEF TimerPause, TimerIntervalSet, Access
  <2>1. Note(t, h1) BY DEF h1
  <2>2. /\ hist' \in [of : [Timer -> H], lag : Nat, rolled : BOOLEAN, bad : BOOLEAN]
        /\ hist'.of[t] = h1 /\ \A u \in Timer \ {t} : hist'.of[u] = hist.of[u]
        /\ hist'.lag = hist.lag /\ hist'.rolled = hist.rolled /\ hist'.bad = hist.bad
    BY <1>1, <1>6, <2>1, NoteIs DEF H
  <2>3. TimerTypes'
    <3>1. /\ state' \in [Timer -> {"running", "waiting", "stopped"}]
          /\ T' \in [Timer -> Nat]
      BY <1>1, <1>3 DEF TimerTypes
    <3>2. UNCHANGED <<live, ticks, param, now, taskVars>> OBVIOUS
    <3>3. QED BY <1>1, <2>2, <3>1, <3>2 DEF TimerTypes, H, taskVars
  <2>4. \A u \in Timer \ {t} :
          /\ u \in live' <=> u \in live
          /\ state'[u] = state[u] /\ ticks'[u] = ticks[u] /\ T'[u] = T[u]
    BY <1>1 DEF TimerTypes
  <2>5. /\ CallAllowed /\ t \in live' /\ t \in live
        /\ T'[t] = T[t] \/ \E i \in Interval : T'[t] = i % TimerWidth
        /\ UNCHANGED <<now, taskVars>>
    BY <1>1 DEF TimerTypes
  <2>6. IntervalsFit => T'[t] > 0 /\ T'[t] + MaxLag <= TimerWidth BY <1>2, <1>3, <1>5, <2>5
  <2> QED BY <1>6, <2>2, <2>3, <2>4, <2>5, <2>6, CallStep
<1>11. ASSUME \/ TimerStart(t)
              \/ \E p \in Parameter : TimerParameterSet(t, p)
              \/ \E n \in Iterations : TimerIterationsSet(t, n)
       PROVE  TimerInv'
  <2> USE <1>11 DEF TimerStart, TimerParameterSet, TimerIterationsSet, Access
  <2>1. /\ CallAllowed /\ t \in live' /\ t \in live /\ ticks' = ticks /\ T' = T /\ hist' = hist
        /\ live' = live
        /\ UNCHANGED <<now, taskVars>>
    OBVIOUS
  <2>2. param' \in [Timer -> Param \cup {NoTimer}] /\ \A u \in live : param'[u] \in Param
    <3>1. \A p \in Parameter : p \in Param BY TimerAssumption DEF Param
    <3>2. CASE param' = param BY <1>1, <3>2 DEF TimerTypes
    <3>3. ASSUME NEW p \in Parameter, param' = [param EXCEPT ![t] = p] PROVE <2>2!1 /\ <2>2!2
      BY <1>1, <3>1, <3>3 DEF TimerTypes
    <3>4. ASSUME NEW n \in 1 .. 31, param' = [param EXCEPT ![t].itr = n] PROVE <2>2!1 /\ <2>2!2
      <4>1. param[t] \in Param BY <1>1, <2>1 DEF TimerTypes
      <4>2. [param[t] EXCEPT !.itr = n] \in Param BY <4>1 DEF Param
      <4>3. param' = [param EXCEPT ![t] = [param[t] EXCEPT !.itr = n]] BY <3>4
      <4>4. QED BY <1>1, <4>2, <4>3 DEF TimerTypes
    <3>5. QED BY <3>2, <3>3, <3>4
  <2>3. /\ state' \in [Timer -> {"running", "waiting", "stopped"}]
        /\ \A u \in Timer \ {t} : state'[u] = state[u]
        /\ state'[t] \in {state[t], "running"}
    BY <1>1 DEF TimerTypes
  <2>4. TimerTypes' BY <1>1, <2>1, <2>2, <2>3 DEF TimerTypes, taskVars
  <2> QED BY <1>2, <1>5, <2>1, <2>3, <2>4, CallStep
<1>12. QED BY <1>7, <1>8, <1>9, <1>10, <1>11


(* The calls that never return.                                            *)
LEMMA RepeatStep ==
  ASSUME TimerInv, TimerStartAll \/ TimerStopAll \/ TimerResetAll
  PROVE  TimerInv'
<1>1. /\ upd' \in Ended /\ upd # "read"
      /\ UNCHANGED <<live, T, param, now, seen, t_us, cur, nxt, hist>>
  BY DEF TimerStartAll, TimerStopAll, TimerResetAll, Repeat, CallAllowed, Ended, All
<1>2. state' \in [Timer -> {"running", "waiting", "stopped"}] /\ ticks' \in [Timer -> Nat]
  BY DEF TimerStartAll, TimerStopAll, TimerResetAll, TimerInv, TimerTypes
<1>3. TimerTypes' BY <1>1, <1>2 DEF TimerInv, TimerTypes
<1>4. upd' \notin {"walk", "callback", "read"} BY <1>1 DEF Ended, All
<1>5. QED BY <1>1, <1>3, <1>4 DEF TimerInv, Iterating, Clock, Counts

LEMMA HistIs ==
  ASSUME NEW H, NEW h \in [of : H, lag : Nat, rolled : BOOLEAN, bad : BOOLEAN],
         NEW l \in Nat, NEW r \in BOOLEAN, NEW a \in H,
         NEW k, k = [h EXCEPT !.lag = l, !.rolled = r, !.of = a]
  PROVE  /\ k \in [of : H, lag : Nat, rolled : BOOLEAN, bad : BOOLEAN]
         /\ k.lag = l /\ k.bad = h.bad /\ k.of = a /\ k.rolled = r
OBVIOUS

LEMMA TickStep ==
  ASSUME TimerInv, ICoreRunTimeUpdate
  PROVE  TimerInv'
<1>1. TimerTypes BY DEF TimerInv
<1>2. UNCHANGED <<live, state, ticks, T, param, seen, upd, t_us, cur, nxt>>
  BY DEF ICoreRunTimeUpdate, timerVars, taskVars
<1> DEFINE aged == [t \in Timer |->
                      IF state[t] = "running" /\ hist.of[t].clean /\ upd # "read"
                      THEN [hist.of[t] EXCEPT !.age = hist.of[t].age + 1] ELSE hist.of[t]]
<1>3. aged \in [Timer -> [age : Nat, clean : BOOLEAN]]
  <2>1. ASSUME NEW t \in Timer PROVE aged[t] \in [age : Nat, clean : BOOLEAN]
    <3>1. hist.of[t] \in [age : Nat, clean : BOOLEAN] BY <1>1 DEF TimerTypes
    <3>2. [hist.of[t] EXCEPT !.age = hist.of[t].age + 1] \in [age : Nat, clean : BOOLEAN]
      BY <3>1
    <3>3. QED BY <3>1, <3>2
  <2>2. QED BY <2>1
<1>4. now' = (IF now + 1 >= HourLength THEN 0 ELSE now + 1)
  BY DEF ICoreRunTimeUpdate, RollOver
<1>5. now' \in 0 .. HourLength - 1 BY <1>1, <1>4, TimerAssumption DEF TimerTypes
<1>6. /\ hist' \in [of : [Timer -> [age : Nat, clean : BOOLEAN]], lag : Nat,
                    rolled : BOOLEAN, bad : BOOLEAN]
      /\ hist'.lag = hist.lag + 1 /\ hist'.bad = hist.bad /\ hist'.of = aged
      /\ hist'.rolled <=> hist.rolled \/ (now' = 0 /\ upd # "read")
  <2> DEFINE roll == hist.rolled \/ (now' = 0 /\ upd # "read")
  <2>1. hist' = [hist EXCEPT !.lag = hist.lag + 1, !.rolled = roll, !.of = aged]
    BY Zenon DEF ICoreRunTimeUpdate
  <2>2. roll \in BOOLEAN OBVIOUS
  <2> HIDE DEF aged, roll
  <2>3. /\ hist' \in [of : [Timer -> [age : Nat, clean : BOOLEAN]], lag : Nat,
                      rolled : BOOLEAN, bad : BOOLEAN]
        /\ hist'.lag = hist.lag + 1 /\ hist'.bad = hist.bad /\ hist'.of = aged
        /\ hist'.rolled = roll
    <3>1. hist \in [of : [Timer -> [age : Nat, clean : BOOLEAN]], lag : Nat,
                   rolled : BOOLEAN, bad : BOOLEAN]
      BY <1>1 DEF TimerTypes
    <3>2. hist.lag + 1 \in Nat BY <3>1
    <3>3. QED BY <1>3, <2>1, <2>2, <3>1, <3>2, HistIs
  <2>4. QED BY <2>3 DEF roll
<1>7. TimerTypes' BY <1>1, <1>2, <1>5, <1>6 DEF TimerTypes
<1>8. Iterating' BY <1>2 DEF TimerInv, Iterating
<1>9. Clock'
  <2>1. hist.lag < MaxLag \/ now = 0 BY DEF ICoreRunTimeUpdate
  <2>2. /\ hist.lag \in Nat /\ now \in Nat /\ seen \in Nat
        /\ MaxLag \in Nat /\ MaxLag >= 1
    BY <1>1, TimerAssumption DEF TimerTypes
  <2>3. ASSUME upd # "read", ~hist'.rolled
        PROVE  now' = seen + hist'.lag /\ hist'.lag <= MaxLag
    <3>1. ~hist.rolled /\ now' # 0 BY <1>6, <2>3
    <3>2. now = seen + hist.lag /\ hist.lag <= MaxLag BY <2>3, <3>1 DEF TimerInv, Clock
    <3>3. QED BY <1>4, <1>6, <2>1, <2>2, <3>1, <3>2
  <2>4. QED BY <1>2, <1>6, <2>3 DEF TimerInv, Clock
<1>10. ASSUME IntervalsFit, NEW u \in live, upd \notin Ended, hist'.of[u].clean, ~Own(u)
       PROVE  Counted(u)'
  <2> USE <1>10
  <2>1. u \in Timer /\ hist.of[u] \in [age : Nat, clean : BOOLEAN]
    BY <1>1 DEF TimerTypes
  <2>2. hist'.of[u] = IF state[u] = "running" /\ hist.of[u].clean /\ upd # "read"
                      THEN [hist.of[u] EXCEPT !.age = hist.of[u].age + 1] ELSE hist.of[u]
    BY <1>6, <2>1
  <2>3. hist.of[u].clean BY <1>10, <2>1, <2>2
  <2>4. Counted(u) BY <1>10, <2>3 DEF TimerInv, Counts
  <2>5. hist'.of[u].age = IF state[u] = "running" /\ upd # "read"
                          THEN hist.of[u].age + 1 ELSE hist.of[u].age
    BY <2>1, <2>2, <2>3
  <2>6. Pending(u)' <=> Pending(u) BY <1>2 DEF Pending
  <2>7. Due(u)' = Due(u)
    <3>1. Due(u)' = IF Pending(u)' THEN t_us' ELSE 0 BY DEF Due
    <3>2. QED BY <1>2, <2>6, <3>1 DEF Due
  <2>8. Since' = (IF upd # "read" THEN Since + 1 ELSE Since)
    BY <1>2, <1>6 DEF Since
  <2>9. /\ ticks[u] \in Nat /\ hist.of[u].age \in Nat /\ Due(u) \in Nat /\ Since \in Nat
        /\ t_us \in Nat /\ MaxLag \in Nat
    BY <1>1, <2>1, TimerAssumption DEF TimerTypes, Due, Since
  <2> DEFINE due == Due(u)
             since == Since
             pend == Pending(u)
             age == hist.of[u].age
  <2>10. /\ ticks[u] < T[u]
         /\ state[u] # "running" => ticks[u] = 0 /\ age = 0
         /\ state[u] = "running" /\ ~(pend /\ hist.bad) =>
              /\ age <= ticks[u] + due + since
              /\ pend => ticks[u] + t_us <= age + 2 * MaxLag
              /\ ~hist.rolled => ticks[u] + due + since <= age + 2 * MaxLag
    BY <2>4 DEF Counted
  <2>11. /\ Due(u)' = due /\ (Pending(u)' <=> pend)
         /\ Since' = (IF upd # "read" THEN since + 1 ELSE since)
         /\ hist'.of[u].age = IF state[u] = "running" /\ upd # "read" THEN age + 1 ELSE age
         /\ ticks[u] \in Nat /\ age \in Nat /\ due \in Nat /\ since \in Nat
    BY <2>5, <2>6, <2>7, <2>8, <2>9
  <2>12. hist'.rolled \/ ~hist.rolled BY <1>6
  <2> HIDE DEF due, since, pend, age
  <2>13. CASE upd = "read"
    BY <1>2, <1>6, <2>9, <2>10, <2>11, <2>12, <2>13, SMTT(30) DEF Counted
  <2>14. CASE upd # "read"
    BY <1>2, <1>6, <2>9, <2>10, <2>11, <2>12, <2>14, SMTT(30) DEF Counted
  <2>15. QED BY <2>13, <2>14
<1>11. Counts'
  <2>1. \A u \in live : IntervalsFit /\ upd \notin Ended => T[u] > 0 /\ T[u] + MaxLag <= TimerWidth
    BY DEF TimerInv, Counts
  <2>2. \A u \in live : Own(u)' <=> Own(u) BY <1>2 DEF Own
  <2>3. QED BY <1>2, <1>10, <2>1, <2>2 DEF Counts
<1>12. QED BY <1>7, <1>8, <1>9, <1>11 DEF TimerInv
-------------------------------------------------------------------------------
LEMMA BeginStep ==
  ASSUME TimerInv, UpdateBegin
  PROVE  TimerInv'
<1>1. TimerTypes BY DEF TimerInv
<1>2. /\ UNCHANGED <<live, state, ticks, T, param, now, seen, cur, nxt>>
      /\ upd = "sleep" /\ upd' = "read" /\ t_us' = OsRunTimeMicrosDelta(seen)
  BY DEF UpdateBegin, timerVars
<1>3. /\ hist' \in [of : [Timer -> [age : Nat, clean : BOOLEAN]], lag : Nat,
                    rolled : BOOLEAN, bad : BOOLEAN]
      /\ hist'.lag = 0 /\ ~hist'.rolled /\ hist'.bad = hist.rolled /\ hist'.of = hist.of
  BY <1>1 DEF UpdateBegin, TimerTypes
<1>4. now \in Nat /\ seen \in Nat /\ hist.lag \in Nat /\ MaxLag \in Nat
  BY <1>1, TimerAssumption DEF TimerTypes
<1>5. t_us' \in Nat BY <1>2, <1>4 DEF OsRunTimeMicrosDelta
<1>6. TimerTypes' BY <1>1, <1>2, <1>3, <1>5 DEF TimerTypes
<1>7. ~hist.rolled => t_us' = hist.lag /\ hist.lag <= MaxLag
  <2>1. ~hist.rolled => now = seen + hist.lag /\ hist.lag <= MaxLag
    BY <1>2 DEF TimerInv, Clock
  <2>2. QED BY <1>2, <1>4, <2>1 DEF OsRunTimeMicrosDelta
<1>8. Clock' BY <1>2, <1>3, <1>7 DEF Clock
<1>9. Iterating' BY <1>2 DEF Iterating
<1>10. ASSUME IntervalsFit, NEW u \in live
       PROVE /\ T[u] > 0 /\ T[u] + MaxLag <= TimerWidth
             /\ hist.of[u].clean => Counted(u)'
  <2> USE <1>10
  <2>1. ~Own(u) /\ ~Pending(u) /\ Pending(u)' BY <1>2 DEF Own, Pending
  <2>2. Due(u) = 0 /\ Due(u)' = t_us' /\ Since = hist.lag /\ Since' = 0
    <3>1. Due(u)' = IF Pending(u)' THEN t_us' ELSE 0 BY DEF Due
    <3>2. QED BY <1>2, <2>1, <3>1 DEF Due, Since
  <2>3. upd \notin Ended BY <1>2 DEF Ended, All
  <2>4. /\ T[u] > 0 /\ T[u] + MaxLag <= TimerWidth
        /\ hist.of[u].clean => Counted(u)
    BY <2>1, <2>3 DEF TimerInv, Counts
  <2>5. ticks[u] \in Nat /\ hist.of[u].age \in Nat BY <1>1 DEF TimerTypes
  <2>6. ASSUME Counted(u) PROVE Counted(u)'
    <3>1. /\ ticks[u] < T[u]
          /\ state[u] # "running" => ticks[u] = 0 /\ hist.of[u].age = 0
          /\ state[u] = "running" =>
               /\ hist.of[u].age <= ticks[u] + 0 + hist.lag
               /\ ~hist.rolled => ticks[u] + 0 + hist.lag <= hist.of[u].age + 2 * MaxLag
      BY <2>1, <2>2, <2>6 DEF Counted
    <3>2. state[u] = "running" /\ ~hist.rolled =>
            /\ hist.of[u].age <= ticks[u] + t_us' + 0
            /\ ticks[u] + t_us' <= hist.of[u].age + 2 * MaxLag
            /\ ticks[u] + t_us' + 0 <= hist.of[u].age + 2 * MaxLag
      BY <1>4, <1>7, <2>5, <3>1
    <3>3. QED BY <1>2, <1>3, <2>1, <2>2, <3>1, <3>2 DEF Counted
  <2>7. QED BY <2>4, <2>6
<1>11. Counts' BY <1>2, <1>3, <1>10 DEF Counts
<1>12. QED BY <1>6, <1>8, <1>9, <1>11 DEF TimerInv

LEMMA ReadStep ==
  ASSUME TimerInv, UpdateRead
  PROVE  TimerInv'
<1>1. TimerTypes BY DEF TimerInv
<1>2. /\ UNCHANGED <<live, state, ticks, T, param, now, t_us>>
      /\ upd = "read" /\ MoveTo(FirstTimer) /\ seen' = now
  BY DEF UpdateRead, SeenNow, timerVars
<1>3. /\ hist' \in [of : [Timer -> [age : Nat, clean : BOOLEAN]], lag : Nat,
                    rolled : BOOLEAN, bad : BOOLEAN]
      /\ hist'.lag = 0 /\ hist'.rolled = hist.rolled /\ hist'.bad = hist.bad /\ hist'.of = hist.of
  BY <1>1 DEF UpdateRead, TimerTypes
<1>4. live \subseteq Timer BY <1>1 DEF TimerTypes
<1>5. FirstTimer \in live \cup {NoTimer} /\ \A u \in live : FirstTimer # NoTimer /\ u >= FirstTimer BY <1>4, HeadIs
<1>6. Iterating' /\ upd' = (IF FirstTimer = NoTimer THEN "sleep" ELSE "walk") /\ cur' = FirstTimer
  BY <1>2, <1>4, <1>5, MoveToIs
<1>7. now \in Nat /\ hist.lag \in Nat /\ MaxLag \in Nat
  BY <1>1, TimerAssumption DEF TimerTypes
<1>8. TimerTypes' BY <1>1, <1>2, <1>3, <1>6, <1>7 DEF TimerTypes
<1>9. Clock'
  <2>1. ~hist.bad => t_us <= MaxLag BY DEF TimerInv, Clock
  <2>2. QED BY <1>2, <1>3, <1>6, <1>7, <2>1 DEF Clock
<1>10. ASSUME IntervalsFit, NEW u \in live
       PROVE /\ T[u] > 0 /\ T[u] + MaxLag <= TimerWidth
             /\ hist.of[u].clean => Counted(u)'
  <2> USE <1>10
  <2>1. ~Own(u) /\ Pending(u) /\ Pending(u)'
    BY <1>2, <1>5, <1>6 DEF Own, Pending
  <2>2. Due(u) = t_us /\ Due(u)' = t_us /\ Since = 0 /\ Since' = 0
    <3>1. Due(u)' = IF Pending(u)' THEN t_us' ELSE 0 BY DEF Due
    <3>2. Since = 0 BY <1>2 DEF Since
    <3>3. Since' = 0 BY <1>3 DEF Since
    <3>4. QED BY <1>2, <2>1, <3>1, <3>2, <3>3 DEF Due
  <2>3. upd \notin Ended BY <1>2 DEF Ended, All
  <2>4. /\ T[u] > 0 /\ T[u] + MaxLag <= TimerWidth
        /\ hist.of[u].clean => Counted(u)
    BY <2>1, <2>3 DEF TimerInv, Counts
  <2>5. ASSUME Counted(u) PROVE Counted(u)'
    BY <1>2, <1>3, <2>1, <2>2, <2>5 DEF Counted
  <2>6. QED BY <2>4, <2>5
<1>11. Counts' BY <1>2, <1>3, <1>10 DEF Counts
<1>12. QED BY <1>6, <1>8, <1>9, <1>11 DEF TimerInv

(* The timers that an update step does not visit.                          *)
LEMMA PassedBy ==
  ASSUME TimerInv, IntervalsFit, upd \in {"walk", "callback"}, NEW u \in live, u # cur,
         upd' \in {"sleep", "walk", "callback"}, t_us' = t_us,
         Pending(u)' <=> Pending(u),
         state'[u] = state[u], ticks'[u] = ticks[u], T'[u] = T[u], hist'.of[u] = hist.of[u],
         hist'.lag = hist.lag, hist'.rolled = hist.rolled, hist'.bad = hist.bad
  PROVE  /\ T'[u] > 0 /\ T'[u] + MaxLag <= TimerWidth
         /\ hist'.of[u].clean => Counted(u)'
<1>1. upd \notin Ended /\ ~Own(u) BY DEF Ended, All, Own
<1>2. /\ T[u] > 0 /\ T[u] + MaxLag <= TimerWidth
      /\ hist.of[u].clean => Counted(u)
  BY <1>1 DEF TimerInv, Counts
<1>3. Due(u)' = Due(u) /\ Since' = Since
  <2>1. Due(u)' = IF Pending(u)' THEN t_us' ELSE 0 BY DEF Due
  <2>2. Since = hist.lag BY DEF Since
  <2>3. Since' = hist'.lag BY DEF Since
  <2>4. QED BY <2>1, <2>2, <2>3 DEF Due
<1>4. Counted(u) => Counted(u)' BY <1>3 DEF Counted
<1>5. QED BY <1>2, <1>4

(* The iterator passes the current timer.                                  *)
LEMMA PendingNext ==
  ASSUME TimerInv, upd \in {"walk", "callback"}, NEW u \in live, u # cur,
         \/ upd' = (IF nxt = NoTimer THEN "sleep" ELSE "walk") /\ cur' = nxt
         \/ upd = "walk" /\ upd' = "callback" /\ nxt' = nxt
  PROVE  Pending(u)' <=> Pending(u)
<1>1. cur \in Nat /\ u \in Nat /\ (nxt # NoTimer => nxt \in Nat /\ nxt > cur)
  BY TimerAssumption DEF TimerInv, TimerTypes, Iterating
<1>2. Pending(u) <=> nxt # NoTimer /\ u >= nxt
  <2>1. CASE upd = "callback" BY <2>1 DEF Pending
  <2>2. CASE upd = "walk"
    <3>1. u > cur => nxt # NoTimer /\ u >= nxt BY <2>2 DEF TimerInv, Iterating
    <3>2. Pending(u) <=> u >= cur BY <2>2 DEF Pending
    <3>3. QED BY <1>1, <3>1, <3>2
  <2>3. QED BY <2>1, <2>2
<1>3. Pending(u)' <=> nxt # NoTimer /\ u >= nxt
  BY DEF Pending
<1>4. QED BY <1>2, <1>3


(* What KTimerUpdateAll adds to an undisturbed timer is exact: U32_t does  *)
(* not wrap around.                                                        *)
LEMMA SumIs ==
  ASSUME TimerInv, IntervalsFit, upd = "walk", hist.of[cur].clean, ~hist.bad
  PROVE  /\ (ticks[cur] + t_us) % TimerWidth = ticks[cur] + t_us
         /\ Counted(cur) /\ Pending(cur) /\ Due(cur) = t_us /\ Since = hist.lag
<1>1. cur \in live /\ cur \in Timer /\ cur \in Nat
  BY TimerAssumption DEF TimerInv, TimerTypes, Iterating
<1>2. upd \notin Ended /\ ~Own(cur) BY DEF Ended, All, Own
<1>3. Counted(cur) /\ T[cur] + MaxLag <= TimerWidth BY <1>1, <1>2 DEF TimerInv, Counts
<1>4. Pending(cur) BY <1>1 DEF Pending
<1>5. /\ ticks[cur] \in Nat /\ T[cur] \in Nat /\ t_us \in Nat /\ t_us <= MaxLag
      /\ MaxLag \in Nat /\ TimerWidth \in Nat
  BY <1>1, TimerAssumption DEF TimerInv, TimerTypes, Clock
<1>6. ticks[cur] < T[cur] BY <1>3 DEF Counted
<1>7. ticks[cur] + t_us \in 0 .. TimerWidth - 1 BY <1>3, <1>5, <1>6
<1>8. (ticks[cur] + t_us) % TimerWidth = ticks[cur] + t_us BY <1>5, <1>7
<1>9. QED BY <1>3, <1>4, <1>8 DEF Due, Since

LEMMA UpdateStep ==
  ASSUME TimerInv, KTimerUpdate
  PROVE  TimerInv'
<1> DEFINE sum == (ticks[cur] + t_us) % TimerWidth
           h == IF hist.bad THEN [hist.of[cur] EXCEPT !.age = 0, !.clean = FALSE]
                ELSE hist.of[cur]
<1>1. TimerTypes /\ Iterating BY DEF TimerInv
<1>2. /\ upd = "walk" /\ cur \in live /\ cur \in Timer /\ live \subseteq Timer
      /\ nxt \in live \cup {NoTimer} /\ (nxt # NoTimer => nxt \in Nat /\ nxt > cur) /\ cur \in Nat
  BY <1>1, TimerAssumption DEF KTimerUpdate, TimerTypes, Iterating
<1>3. /\ UNCHANGED <<live, T, param, now, seen, t_us>>
      /\ ticks' = [ticks EXCEPT ![cur] = sum] /\ state[cur] = "running" /\ Note(cur, h)
      /\ \/ /\ sum >= T[cur] /\ state' = [state EXCEPT ![cur] = "waiting"]
            /\ upd' = "callback" /\ UNCHANGED <<cur, nxt>>
         \/ ~(sum >= T[cur]) /\ MoveTo(nxt) /\ state' = state
  BY DEF KTimerUpdate, Advance
<1>4. h \in [age : Nat, clean : BOOLEAN] /\ (hist.bad => ~h.clean) /\ (~hist.bad => h = hist.of[cur])
  <2>1. hist.of[cur] \in [age : Nat, clean : BOOLEAN] BY <1>1, <1>2 DEF TimerTypes
  <2>2. QED BY <2>1
<1>5. sum \in Nat
  <2>1. ticks[cur] + t_us \in Nat /\ TimerWidth \in Nat /\ TimerWidth > 0
    BY <1>1, <1>2, TimerAssumption DEF TimerTypes
  <2>2. QED BY <2>1
<1> HIDE DEF h, sum
<1>6. /\ hist' \in [of : [Timer -> [age : Nat, clean : BOOLEAN]], lag : Nat,
                    rolled : BOOLEAN, bad : BOOLEAN]
      /\ hist'.of[cur] = h /\ \A u \in Timer \ {cur} : hist'.of[u] = hist.of[u]
      /\ hist'.lag = hist.lag /\ hist'.rolled = hist.rolled /\ hist'.bad = hist.bad
  BY <1>1, <1>2, <1>3, <1>4, NoteIs
<1>7. /\ Iterating'
      /\ \/ upd' = "callback" /\ nxt' = nxt /\ cur' = cur
         \/ /\ upd' = (IF nxt = NoTimer THEN "sleep" ELSE "walk") /\ cur' = nxt
            /\ state' = state /\ ~(sum >= T[cur])
  <2>1. CASE MoveTo(nxt) /\ state' = state /\ ~(sum >= T[cur])
    BY <1>2, <1>3, <2>1, MoveToIs
  <2>2. CASE upd' = "callback" /\ UNCHANGED <<cur, nxt>>
    BY <1>1, <1>2, <1>3, <2>2 DEF Iterating
  <2>3. QED BY <1>3, <2>1, <2>2
<1>8. TimerTypes'
  <2>1. /\ ticks' \in [Timer -> Nat]
        /\ state' \in [Timer -> {"running", "waiting", "stopped"}]
    BY <1>1, <1>3, <1>5 DEF TimerTypes
  <2>2. upd' \in {"sleep", "read", "walk", "callback"} BY <1>7
  <2>3. QED BY <1>1, <1>3, <1>6, <2>1, <2>2 DEF TimerTypes
<1>9. Clock' BY <1>2, <1>3, <1>6, <1>7 DEF TimerInv, Clock
<1>10. ASSUME IntervalsFit, NEW u \in live, u # cur
       PROVE  /\ T'[u] > 0 /\ T'[u] + MaxLag <= TimerWidth
              /\ hist'.of[u].clean => Counted(u)'
  <2> USE <1>10
  <2>1. Pending(u)' <=> Pending(u) BY <1>2, <1>7, <1>10, PendingNext
  <2>2. state'[u] = state[u] /\ ticks'[u] = ticks[u] /\ T'[u] = T[u] /\ hist'.of[u] = hist.of[u]
    BY <1>1, <1>2, <1>3, <1>6, <1>10 DEF TimerTypes
  <2>3. upd' \in {"sleep", "walk", "callback"} BY <1>7
  <2>4. QED BY <1>2, <1>3, <1>6, <1>10, <2>1, <2>2, <2>3, PassedBy
<1>11. IntervalsFit => T'[cur] > 0 /\ T'[cur] + MaxLag <= TimerWidth
  BY <1>2, <1>3 DEF TimerInv, Counts, Ended, All
<1>12. ASSUME IntervalsFit, NEW u \in live, u = cur, hist'.of[u].clean, ~Own(u)'
       PROVE  Counted(u)'
  <2> USE <1>12
  <2>1. /\ upd' = (IF nxt = NoTimer THEN "sleep" ELSE "walk") /\ cur' = nxt
        /\ state' = state /\ ~(sum >= T[cur])
    BY <1>7, <1>12 DEF Own
  <2>2. ~hist.bad /\ h = hist.of[cur] /\ hist.of[cur].clean BY <1>4, <1>6, <1>12
  <2>3. /\ sum = ticks[cur] + t_us /\ Counted(cur) /\ Pending(cur)
        /\ Due(cur) = t_us /\ Since = hist.lag
    BY <1>2, <2>2, SumIs DEF sum
  <2>4. /\ hist.of[cur].age <= ticks[cur] + t_us + hist.lag
        /\ ~hist.rolled => ticks[cur] + t_us + hist.lag <= hist.of[cur].age + 2 * MaxLag
    BY <1>3, <2>2, <2>3 DEF Counted
  <2>5. ~Pending(u)' BY <1>2, <1>12, <2>1 DEF Pending
  <2>6. Due(u)' = 0 /\ Since' = hist.lag
    <3>1. Due(u)' = IF Pending(u)' THEN t_us' ELSE 0 BY DEF Due
    <3>2. Since' = hist.lag BY <1>6, <2>1 DEF Since
    <3>3. QED BY <2>5, <3>1, <3>2
  <2>7. /\ ticks'[u] = sum /\ T'[u] = T[u] /\ state'[u] = "running"
        /\ hist'.of[u].age = hist.of[cur].age
    BY <1>1, <1>2, <1>3, <1>6, <1>12, <2>1, <2>2 DEF TimerTypes
  <2>8. /\ ticks[cur] \in Nat /\ t_us \in Nat /\ hist.lag \in Nat /\ T[cur] \in Nat
        /\ hist.of[cur].age \in Nat /\ MaxLag \in Nat
    BY <1>1, <1>2, TimerAssumption DEF TimerTypes
  <2>9. /\ sum < T[cur] /\ hist.of[cur].age <= sum + 0 + hist.lag
        /\ ~hist.rolled => sum + 0 + hist.lag <= hist.of[cur].age + 2 * MaxLag
    BY <2>1, <2>3, <2>4, <2>8
  <2>10. QED BY <1>6, <1>12, <2>5, <2>6, <2>7, <2>9 DEF Counted
<1>13. Counts' BY <1>3, <1>10, <1>11, <1>12 DEF Counts
<1>14. QED BY <1>7, <1>8, <1>9, <1>13 DEF TimerInv

LEMMA SkipStep ==
  ASSUME TimerInv, KTimerSkip
  PROVE  TimerInv'
<1>1. TimerTypes /\ Iterating BY DEF TimerInv
<1>2. /\ upd = "walk" /\ cur \in live /\ cur \in Timer /\ live \subseteq Timer
      /\ nxt \in live \cup {NoTimer} /\ (nxt # NoTimer => nxt \in Nat /\ nxt > cur) /\ cur \in Nat
  BY <1>1, TimerAssumption DEF KTimerSkip, TimerTypes, Iterating
<1>3. /\ UNCHANGED <<live, state, ticks, T, param, now, seen, t_us, hist>>
      /\ state[cur] # "running" /\ MoveTo(nxt)
  BY DEF KTimerSkip, Advance, timerVars
<1>4. Iterating' /\ upd' = (IF nxt = NoTimer THEN "sleep" ELSE "walk") /\ cur' = nxt
  BY <1>2, <1>3, MoveToIs
<1>5. TimerTypes' BY <1>1, <1>3, <1>4 DEF TimerTypes
<1>6. Clock' BY <1>2, <1>3, <1>4 DEF TimerInv, Clock
<1>7. ASSUME IntervalsFit, NEW u \in live, u # cur
      PROVE  /\ T'[u] > 0 /\ T'[u] + MaxLag <= TimerWidth
             /\ hist'.of[u].clean => Counted(u)'
  <2> USE <1>7
  <2>1. Pending(u)' <=> Pending(u) BY <1>2, <1>4, <1>7, PendingNext
  <2>2. upd' \in {"sleep", "walk", "callback"} BY <1>4
  <2>3. QED BY <1>2, <1>3, <1>7, <2>1, <2>2, PassedBy
<1>8. IntervalsFit =>
        T[cur] > 0 /\ T[cur] + MaxLag <= TimerWidth /\ (hist.of[cur].clean => Counted(cur))
  BY <1>2 DEF TimerInv, Counts, Ended, All, Own
<1>9. Counted(cur) => \A u \in live : u = cur => Counted(u)'
  BY <1>3 DEF Counted
<1>10. Counts' BY <1>3, <1>7, <1>8, <1>9 DEF Counts
<1>11. QED BY <1>4, <1>5, <1>6, <1>10 DEF TimerInv


LEMMA IterationsLeftType == \A n \in 0 .. 31 : IterationsLeft(n) \in 0 .. 31
<1>1. \A m, n : BitsOr(m, n) \in 0 .. 31
  <2> SUFFICES ASSUME NEW m, NEW n PROVE BitsOr(m, n) \in 0 .. 31 OBVIOUS
  <2> DEFINE b(i) == IF 1 \in {IterBit(m, i), IterBit(n, i)} THEN 1 ELSE 0
  <2>1. BitsOr(m, n) = b(0) + 2 * b(1) + 4 * b(2) + 8 * b(3) + 16 * b(4) BY DEF BitsOr
  <2>2. b(0) \in 0 .. 1 /\ b(1) \in 0 .. 1 /\ b(2) \in 0 .. 1 /\ b(3) \in 0 .. 1 /\ b(4) \in 0 .. 1
    OBVIOUS
  <2> HIDE DEF b
  <2>3. QED BY <2>1, <2>2
<1>2. QED BY <1>1 DEF IterationsLeft

LEMMA ReturnStep ==
  ASSUME TimerInv, CallbackReturns
  PROVE  TimerInv'
<1> DEFINE p == param[cur]
           h == [hist.of[cur] EXCEPT !.age = 0, !.clean = p.ar]
           left == IF p.periodic THEN p.itr ELSE IterationsLeft(p.itr)
           k == IF LastIteration(p) THEN Fresh ELSE h
<1>1. TimerTypes /\ Iterating BY DEF TimerInv
<1>2. /\ upd = "callback" /\ cur \in live /\ cur \in Timer /\ live \subseteq Timer
      /\ nxt \in live \cup {NoTimer} /\ (nxt # NoTimer => nxt \in Nat /\ nxt > cur) /\ cur \in Nat
  BY <1>1, TimerAssumption DEF CallbackReturns, TimerTypes, Iterating
<1>3. UNCHANGED <<now, seen, t_us>> /\ MoveTo(nxt) BY DEF CallbackReturns, Advance
<1>4. p \in Param BY <1>1, <1>2 DEF TimerTypes
<1>5. h \in [age : Nat, clean : BOOLEAN] /\ h.age = 0 /\ h.clean = p.ar
  <2>1. hist.of[cur] \in [age : Nat, clean : BOOLEAN] BY <1>1, <1>2 DEF TimerTypes
  <2>2. p.ar \in BOOLEAN BY <1>4 DEF Param
  <2> HIDE DEF p
  <2>3. QED BY <2>1, <2>2
<1>6. [p EXCEPT !.itr = left] \in Param
  <2>1. p.itr \in 0 .. 31 BY <1>4 DEF Param
  <2>2. left \in 0 .. 31 BY <2>1, IterationsLeftType
  <2> HIDE DEF p, left
  <2>3. QED BY <1>4, <2>2 DEF Param
<1>7. /\ LastIteration(p) => Forget(cur)
      /\ ~LastIteration(p) =>
           /\ ticks' = [ticks EXCEPT ![cur] = IF p.ar THEN 0 ELSE ticks[cur]]
           /\ state' = [state EXCEPT ![cur] = IF p.on THEN "running" ELSE state[cur]]
           /\ param' = [param EXCEPT ![cur] = [p EXCEPT !.itr = left]]
           /\ Note(cur, h) /\ live' = live /\ T' = T
  BY DEF CallbackReturns, AutoReset
<1>8. k \in [age : Nat, clean : BOOLEAN] BY <1>5 DEF Fresh
<1> HIDE DEF h, p, left
<1>9. Note(cur, k) BY <1>7 DEF Forget
<1>10. LastIteration(p) \in BOOLEAN BY DEF LastIteration
<1>11. /\ live' = (IF LastIteration(p) THEN live \ {cur} ELSE live)
       /\ T' \in [Timer -> Nat] /\ \A u \in Timer \ {cur} : T'[u] = T[u]
       /\ ~LastIteration(p) => T' = T
       /\ state' \in [Timer -> {"running", "waiting", "stopped"}]
       /\ \A u \in Timer \ {cur} : state'[u] = state[u]
       /\ ticks' \in [Timer -> Nat] /\ \A u \in Timer \ {cur} : ticks'[u] = ticks[u]
       /\ ~LastIteration(p) /\ p.ar => ticks'[cur] = 0
  <2>1. CASE LastIteration(p)
    <3>1. /\ live' = live \ {cur} /\ state' = [state EXCEPT ![cur] = "stopped"]
          /\ ticks' = [ticks EXCEPT ![cur] = 0] /\ T' = [T EXCEPT ![cur] = 0]
      BY <1>7, <2>1 DEF Forget
    <3>2. QED BY <1>1, <1>2, <2>1, <3>1 DEF TimerTypes
  <2>2. CASE ~LastIteration(p)
    <3>1. state[cur] \in {"running", "waiting", "stopped"} BY <1>1, <1>2 DEF TimerTypes
    <3>2. QED BY <1>1, <1>2, <1>7, <2>2, <3>1 DEF TimerTypes
  <2>3. QED BY <2>1, <2>2
<1>12. param' \in [Timer -> Param \cup {NoTimer}] /\ \A u \in live' : param'[u] \in Param
  <2>1. CASE LastIteration(p)
    BY <1>1, <1>2, <1>7, <1>11, <2>1 DEF Forget, TimerTypes
  <2>2. CASE ~LastIteration(p)
    BY <1>1, <1>2, <1>6, <1>7, <2>2 DEF TimerTypes
  <2>3. QED BY <2>1, <2>2
<1> HIDE DEF k
<1>13. /\ hist' \in [of : [Timer -> [age : Nat, clean : BOOLEAN]], lag : Nat,
                     rolled : BOOLEAN, bad : BOOLEAN]
       /\ hist'.of[cur] = k /\ \A u \in Timer \ {cur} : hist'.of[u] = hist.of[u]
       /\ hist'.lag = hist.lag /\ hist'.rolled = hist.rolled /\ hist'.bad = hist.bad
  BY <1>1, <1>2, <1>8, <1>9, NoteIs
<1>14. live' \subseteq live /\ \A u \in live : u # cur => u \in live' BY <1>11
<1>15. Iterating' /\ upd' = (IF nxt = NoTimer THEN "sleep" ELSE "walk") /\ cur' = nxt
  <2>1. \A u \in live : nxt # NoTimer /\ u >= nxt => u \in live'
    BY <1>2, <1>14, TimerAssumption
  <2>2. QED BY <1>2, <1>3, <1>14, <2>1, MoveToIs
<1>16. TimerTypes'
  BY <1>1, <1>3, <1>11, <1>12, <1>13, <1>14, <1>15 DEF TimerTypes
<1>17. Clock' BY <1>2, <1>3, <1>13, <1>15 DEF TimerInv, Clock
<1>18. ASSUME IntervalsFit, NEW u \in live, u # cur
       PROVE  /\ T'[u] > 0 /\ T'[u] + MaxLag <= TimerWidth
              /\ hist'.of[u].clean => Counted(u)'
  <2> USE <1>18
  <2>1. Pending(u)' <=> Pending(u) BY <1>2, <1>15, <1>18, PendingNext
  <2>2. state'[u] = state[u] /\ ticks'[u] = ticks[u] /\ T'[u] = T[u] /\ hist'.of[u] = hist.of[u]
    BY <1>2, <1>11, <1>13, <1>18
  <2>3. upd' \in {"sleep", "walk", "callback"} BY <1>15
  <2>4. QED BY <1>2, <1>3, <1>13, <1>18, <2>1, <2>2, <2>3, PassedBy
<1>19. ASSUME IntervalsFit, NEW u \in live', u = cur
       PROVE  /\ T'[u] > 0 /\ T'[u] + MaxLag <= TimerWidth
              /\ hist'.of[u].clean => Counted(u)'
  <2> USE <1>19
  <2>1. ~LastIteration(p) BY <1>11, <1>19
  <2>2. k.clean = p.ar /\ k.age = 0 BY <1>5, <2>1 DEF k
  <2>3. T[cur] > 0 /\ T[cur] + MaxLag <= TimerWidth BY <1>2 DEF TimerInv, Counts, Ended, All
  <2>4. T'[u] = T[cur] BY <1>11, <1>19, <2>1
  <2>5. ASSUME hist'.of[u].clean PROVE Counted(u)'
    <3>1. ticks'[u] = 0 /\ hist'.of[u].age = 0 BY <1>11, <1>13, <1>19, <2>1, <2>2, <2>5
    <3>2. ~Pending(u)' BY <1>2, <1>15, <1>19 DEF Pending
    <3>3. Due(u)' = 0 /\ Since' = hist.lag
      <4>1. Due(u)' = IF Pending(u)' THEN t_us' ELSE 0 BY DEF Due
      <4>2. Since' = hist.lag BY <1>13, <1>15 DEF Since
      <4>3. QED BY <3>2, <4>1, <4>2
    <3>4. hist.lag \in Nat /\ MaxLag \in Nat /\ (~hist.rolled => hist.lag <= MaxLag)
      BY <1>1, <1>2, TimerAssumption DEF TimerTypes, TimerInv, Clock
    <3>5. 0 <= 0 + 0 + hist.lag /\ (~hist.rolled => 0 + 0 + hist.lag <= 0 + 2 * MaxLag)
      BY <3>4
    <3>6. QED BY <1>13, <2>3, <2>4, <3>1, <3>2, <3>3, <3>5 DEF Counted
  <2>6. QED BY <2>3, <2>4, <2>5
<1>20. Counts' BY <1>14, <1>18, <1>19 DEF Counts
<1>21. QED BY <1>15, <1>16, <1>17, <1>20 DEF TimerInv

LEMMA NextTimerInv == TimerInv /\ [TimersNext]_timersVars => TimerInv'
<1> SUFFICES ASSUME TimerInv, [TimersNext]_timersVars PROVE TimerInv' OBVIOUS
<1>1. ASSUME NEW t \in Timer,
             \/ \E interval \in Interval, p \in Parameter : TimerCreate(t, interval, p)
             \/ TimerDelete(t) \/ TimerReset(t) \/ TimerPause(t) \/ TimerStop(t) \/ TimerStart(t)
             \/ \E interval \in Interval : TimerIntervalSet(t, interval)
             \/ \E p \in Parameter : TimerParameterSet(t, p)
             \/ \E n \in Iterations : TimerIterationsSet(t, n)
      PROVE  TimerInv'
  BY <1>1, ApiStep
<1>2. CASE TimerStartAll \/ TimerStopAll \/ TimerResetAll BY <1>2, RepeatStep
<1>3. CASE ICoreRunTimeUpdate BY <1>3, TickStep
<1>4. CASE UpdateBegin BY <1>4, BeginStep
<1>5. CASE UpdateRead BY <1>5, ReadStep
<1>6. CASE KTimerUpdate BY <1>6, UpdateStep
<1>7. CASE KTimerSkip BY <1>7, SkipStep
<1>8. CASE CallbackReturns BY <1>8, ReturnStep
<1>9. CASE UNCHANGED timersVars
  <2>1. UNCHANGED <<live, state, ticks, T, param, now, seen, upd, t_us, cur, nxt, hist>>
    BY <1>9 DEF timersVars, timerVars, taskVars
  <2>2. TimerTypes' /\ Iterating' /\ Clock'
    BY <2>1 DEF TimerInv, TimerTypes, Iterating, Clock
  <2>3. Counts' BY <2>1 DEF TimerInv, Counts, Counted, Own, Pending, Due, Since
  <2>4. QED BY <2>2, <2>3 DEF TimerInv
<1>10. QED BY <1>1, <1>2, <1>3, <1>4, <1>5, <1>6, <1>7, <1>8, <1>9 DEF TimersNext
-------------------------------------------------------------------------------
(* No update passes an undisturbed running timer by or loses its time,     *)
(* for any number of timers, any intervals that fit and any update period. *)
THEOREM TimersNeverLate ==
  ASSUME IntervalsFit
  PROVE  TimersSpec => []NotTooLate
<1>1. TimerInv => NotTooLate
  <2> SUFFICES ASSUME TimerInv, upd = "sleep", NEW t \in live,
                      state[t] = "running", hist.of[t].clean
               PROVE  hist.of[t].age < T[t] + hist.lag
    BY DEF NotTooLate
  <2>1. Counted(t) BY DEF TimerInv, Counts, Own, Ended, All
  <2>2. ~Pending(t) BY DEF Pending
  <2>3. Due(t) = 0 /\ Since = hist.lag BY <2>2 DEF Due, Since
  <2>4. hist.of[t].age <= ticks[t] + 0 + hist.lag /\ ticks[t] < T[t]
    BY <2>1, <2>2, <2>3 DEF Counted
  <2>5. hist.of[t].age \in Nat /\ ticks[t] \in Nat /\ hist.lag \in Nat /\ T[t] \in Nat
    BY DEF TimerInv, TimerTypes
  <2>6. QED BY <2>4, <2>5
<1>2. QED BY InitTimerInv, NextTimerInv, <1>1, PTL DEF TimersSpec

(* An undisturbed timer overflows at most two update periods too soon, for *)
(* any number of timers, any intervals that fit and any update period.     *)
THEOREM TimersNeverEarly ==
  ASSUME IntervalsFit
  PROVE  TimersSpec => NotTooEarly
<1> DEFINE InTime == upd = "walk" /\ upd' = "callback" /\ hist'.of[cur].clean =>
                       hist'.of[cur].age + 2 * MaxLag >= T[cur]
<1>1. TimerInv /\ [TimersNext]_timersVars => [InTime]_timersVars
  <2> SUFFICES ASSUME TimerInv, TimersNext, upd = "walk", upd' = "callback", hist'.of[cur].clean
               PROVE  hist'.of[cur].age + 2 * MaxLag >= T[cur]
    OBVIOUS
  <2>1. KTimerUpdate
    BY DEF TimersNext, TimerCreate, TimerDelete, TimerReset, TimerPause, TimerStop, TimerStart,
           TimerIntervalSet, TimerParameterSet, TimerIterationsSet, Access, CallAllowed, Repeat,
           TimerStartAll, TimerStopAll, TimerResetAll, ICoreRunTimeUpdate, taskVars,
           UpdateBegin, UpdateRead, KTimerSkip, CallbackReturns, Advance, MoveTo
  <2> DEFINE h == IF hist.bad THEN [hist.of[cur] EXCEPT !.age = 0, !.clean = FALSE]
                  ELSE hist.of[cur]
  <2>2. cur \in Timer /\ hist.of[cur] \in [age : Nat, clean : BOOLEAN]
    BY DEF TimerInv, TimerTypes, Iterating
  <2>3. h \in [age : Nat, clean : BOOLEAN] /\ (hist.bad => ~h.clean)
    BY <2>2
  <2>4. Note(cur, h) BY <2>1 DEF KTimerUpdate
  <2> HIDE DEF h
  <2>5. hist'.of[cur] = h BY <2>2, <2>3, <2>4, NoteIs DEF TimerInv
  <2>6. ~hist.bad /\ h = hist.of[cur] /\ hist.of[cur].clean BY <2>3, <2>5 DEF h
  <2>7. /\ (ticks[cur] + t_us) % TimerWidth = ticks[cur] + t_us
        /\ Counted(cur) /\ Pending(cur)
    BY <2>6, SumIs
  <2>8. ticks[cur] + t_us >= T[cur] /\ state[cur] = "running"
    <3>1. (ticks[cur] + t_us) % TimerWidth >= T[cur] /\ state[cur] = "running"
      BY <2>1 DEF KTimerUpdate, Advance, MoveTo
    <3>2. QED BY <2>7, <3>1
  <2>9. ticks[cur] + t_us <= hist.of[cur].age + 2 * MaxLag
    BY <2>6, <2>7, <2>8 DEF Counted
  <2>10. /\ ticks[cur] \in Nat /\ t_us \in Nat /\ hist.of[cur].age \in Nat /\ T[cur] \in Nat
         /\ MaxLag \in Nat
    BY <2>2, TimerAssumption DEF TimerInv, TimerTypes
  <2>11. QED BY <2>5, <2>6, <2>8, <2>9, <2>10
<1>2. TimersSpec => [][InTime]_timersVars BY InitTimerInv, NextTimerInv, <1>1, PTL DEF TimersSpec
<1>3. QED BY <1>2 DEF NotTooEarly
================================================================================
