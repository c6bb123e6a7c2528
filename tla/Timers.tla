-------------------------------- MODULE Timers --------------------------------
(***************************************************************************)
(* The software timers of Timer.c and the kernel task that updates them.   *)
(* Tasks are not pre-empted, so the application and the update do not      *)
(* interleave, except that the update calls the overflow callbacks, which  *)
(* may use the timers again; OS ticks come at any time and advance the     *)
(* run-time.                                                               *)
(*                                                                         *)
(* TimerList is sorted (see LinkedList), so it is the set of the timers    *)
(* that exist.  The overflow event, emitted together with the callback, is *)
(* an emission of PriorKernel.                                             *)
(***************************************************************************)
EXTENDS Integers, FiniteSetsExt

CONSTANTS
  Timer,     \* timer IDs
  Interval,  \* the intervals that are asked for
  Parameter, \* the parameters that are asked for
  Iterations, \* the numbers of iterations that are asked for
  TimerWidth,     \* the range of U32_t
  HourLength,      \* USEC_PER_HOUR, in ticks
  MaxLag,    \* the longest time between two updates
  NoTimer

ASSUME TimerAssumption ==
  /\ Timer \subseteq Nat /\ NoTimer \notin Timer
  /\ Interval \subseteq Nat \ {0}
  /\ Parameter \subseteq [on : BOOLEAN, periodic : BOOLEAN, ar : BOOLEAN, itr : 0 .. 31]
  /\ Iterations \subseteq Nat
  /\ HourLength \in Nat /\ TimerWidth \in Nat
  /\ HourLength < TimerWidth /\ MaxLag \in 1 .. HourLength - 1

VARIABLES
  live,   \* TimerList
  state, ticks, T, param, \* the fields of a timer
  now, \* the run-time within the hour
  seen,   \* the run-time of the last update
  upd,     \* where KernelTaskTimerUpdate is
  t_us,   \* the time that it adds to the timers
  cur, nxt, \* its iterator
  hist    \* history of each timer, and of the time

timerVars == <<live, state, ticks, T, param>>
taskVars == <<seen, upd, t_us, cur, nxt>>
timersVars == <<timerVars, now, taskVars, hist>>

(* For each timer: the time it ran since its count was 0, and whether      *)
(* nothing but time changed it since.  For all: the time since the last    *)
(* update, whether the run-time passed the hour, and whether it did so     *)
(* before the update in progress.                                          *)
Fresh == [age |-> 0, clean |-> TRUE]

TimersInit ==
  /\ live = {} /\ state = [t \in Timer |-> "stopped"]
  /\ ticks = [t \in Timer |-> 0] /\ T = [t \in Timer |-> 0]
  /\ param = [t \in Timer |-> NoTimer]
  /\ now = 0 /\ seen = 0
  /\ upd = "sleep" /\ t_us = 0 /\ cur = NoTimer /\ nxt = NoTimer
  /\ hist = [of |-> [t \in Timer |-> Fresh], lag |-> 0, rolled |-> FALSE, bad |-> FALSE]

Note(t, h) == hist' = [hist EXCEPT !.of[t] = h]
------------------------------------------------------------------------------
(* The API, called by a task or by a callback.                             *)
CallAllowed == upd \in {"sleep", "callback"}

(* A timer with its fields cleared; TimerCreate sets the others.           *)
ITimerCreate(t) ==
  /\ t \notin live
  /\ live' = live \cup {t}
  /\ ticks' = [ticks EXCEPT ![t] = 0]

TimerCreate(t, interval, p) ==
  /\ CallAllowed /\ ITimerCreate(t)
  /\ T' = [T EXCEPT ![t] = interval % TimerWidth]
  /\ param' = [param EXCEPT ![t] = p]
  /\ state' = [state EXCEPT ![t] = IF p.on THEN "running" ELSE "stopped"]
  /\ Note(t, Fresh)
  /\ UNCHANGED <<now, taskVars>>

(* A deleted timer is zeroed and freed.                                    *)
Forget(t) ==
  /\ live' = live \ {t}
  /\ state' = [state EXCEPT ![t] = "stopped"]
  /\ ticks' = [ticks EXCEPT ![t] = 0] /\ T' = [T EXCEPT ![t] = 0]
  /\ param' = [param EXCEPT ![t] = NoTimer]
  /\ Note(t, Fresh)

(* KTimerUpdateAll holds pointers to its timer and to the next one of the  *)
(* list: after a callback has deleted one of them it works on freed        *)
(* memory, and nothing more is said of it.                                 *)
TimerDelete(t) ==
  /\ CallAllowed /\ t \in live
  /\ Forget(t)
  /\ upd' = IF upd = "callback" /\ t \in {cur, nxt} THEN "dangling" ELSE upd
  /\ UNCHANGED <<now, seen, t_us, cur, nxt>>

Access(t) == CallAllowed /\ t \in live /\ UNCHANGED <<live, now, taskVars>>

TimerReset(t) ==
  /\ Access(t)
  /\ ticks' = [ticks EXCEPT ![t] = 0]
  /\ Note(t, [hist.of[t] EXCEPT !.age = 0, !.clean = TRUE])
  /\ UNCHANGED <<state, T, param>>

TimerPause(t) ==
  /\ Access(t)
  /\ state' = [state EXCEPT ![t] = "waiting"]
  /\ Note(t, [hist.of[t] EXCEPT !.age = 0, !.clean = FALSE])
  /\ UNCHANGED <<ticks, T, param>>

TimerStop(t) ==
  /\ Access(t)
  /\ state' = [state EXCEPT ![t] = "stopped"]
  /\ ticks' = [ticks EXCEPT ![t] = 0]
  /\ Note(t, [hist.of[t] EXCEPT !.age = 0, !.clean = TRUE])
  /\ UNCHANGED <<T, param>>

TimerStart(t) ==
  /\ Access(t)
  /\ state' = [state EXCEPT ![t] = "running"]
  /\ UNCHANGED <<ticks, T, param, hist>>

TimerIntervalSet(t, interval) ==
  /\ Access(t)
  /\ T' = [T EXCEPT ![t] = interval % TimerWidth]
  /\ Note(t, [hist.of[t] EXCEPT !.age = 0, !.clean = FALSE])
  /\ UNCHANGED <<state, ticks, param>>

TimerIterationsSet(t, n) ==
  /\ Access(t) /\ n \in 1 .. 31
  /\ param' = [param EXCEPT ![t].itr = n]
  /\ UNCHANGED <<state, ticks, T, hist>>

TimerParameterSet(t, p) ==
  /\ Access(t)
  /\ param' = [param EXCEPT ![t] = p]
  /\ UNCHANGED <<state, ticks, T, hist>>

(* node->next_node of t, and the head of TimerList.                        *)
After(t) == LET later == {u \in live : u > t} IN IF later = {} THEN NoTimer ELSE Min(later)
FirstTimer == IF live = {} THEN NoTimer ELSE Min(live)

(* The calls for all timers look at the head again and again, and do not   *)
(* return once there is a timer: no task runs any more, only ticks do.     *)
All == {"startall", "stopall", "resetall"}

Repeat(call) ==
  /\ CallAllowed \/ upd = call
  /\ live # {}
  /\ upd' = call
  /\ UNCHANGED <<live, T, param, now, seen, t_us, cur, nxt, hist>>

TimerStartAll ==
  Repeat("startall") /\ state' = [state EXCEPT ![FirstTimer] = "running"] /\ UNCHANGED ticks

TimerStopAll ==
  Repeat("stopall") /\ state' = [state EXCEPT ![FirstTimer] = "stopped"] /\ UNCHANGED ticks

TimerResetAll ==
  Repeat("resetall") /\ ticks' = [ticks EXCEPT ![FirstTimer] = 0] /\ UNCHANGED state
------------------------------------------------------------------------------
RollOver(us) == IF us >= HourLength THEN 0 ELSE us

(* OsTick: the run-time starts again from 0 every hour.  A tick between    *)
(* the two reads of an update is never counted.                            *)
ICoreRunTimeUpdate ==
  /\ hist.lag < MaxLag \/ now = 0
  /\ upd = "read" => hist.lag = 0
  /\ now' = RollOver(now + 1)
  /\ hist' = [hist EXCEPT
       !.lag = @ + 1,
       !.rolled = @ \/ (now' = 0 /\ upd # "read"),
       !.of = [t \in Timer |->
                IF state[t] = "running" /\ hist.of[t].clean /\ upd # "read"
                THEN [hist.of[t] EXCEPT !.age = @ + 1] ELSE hist.of[t]]]
  /\ UNCHANGED <<timerVars, taskVars>>

OsRunTimeMicrosDelta(us) ==
  IF now = 0 THEN 0 ELSE IF now >= us THEN now - us ELSE us - now

(* KernelTaskTimerUpdate reads the run-time twice, then updates all timers.*)
UpdateBegin ==
  /\ upd = "sleep" /\ OsRunTimeMicrosDelta(seen) # 0
  /\ t_us' = OsRunTimeMicrosDelta(seen)
  /\ upd' = "read"
  /\ hist' = [hist EXCEPT !.lag = 0, !.rolled = FALSE, !.bad = hist.rolled]
  /\ UNCHANGED <<timerVars, now, seen, cur, nxt>>

(* The iterator is at c; the update ends there if that is the end.         *)
MoveTo(c) ==
  /\ cur' = c
  /\ nxt' = IF c = NoTimer THEN NoTimer ELSE After(c)
  /\ upd' = IF c = NoTimer THEN "sleep" ELSE "walk"

SeenBefore == seen' = seen \* mutant

SeenNow == seen' = now

UpdateRead ==
  /\ upd = "read" /\ SeenNow
  /\ MoveTo(FirstTimer)
  /\ hist' = [hist EXCEPT !.lag = 0]
  /\ UNCHANGED <<timerVars, now, t_us>>

(* Whether a timer is destroyed when it overflows.                         *)
LastIteration(p) == ~p.periodic /\ p.itr = 1

AdvanceFreed == \* mutant: next_node is read when the timer may have been zeroed
  MoveTo(IF upd = "callback" /\ LastIteration(param[cur]) THEN NoTimer ELSE After(cur))

(* ListIteratorNext: the next timer is the one that was next when the      *)
(* iterator came to the current one.                                       *)

Advance == MoveTo(nxt)

(* KTimerUpdateAll on one timer, up to the call of its callback.           *)
KTimerUpdate ==
  LET t == cur
      sum == (ticks[t] + t_us) % TimerWidth
  IN /\ upd = "walk" /\ state[t] = "running"
     /\ ticks' = [ticks EXCEPT ![t] = sum]
     /\ IF sum >= T[t]
        THEN /\ state' = [state EXCEPT ![t] = "waiting"]
             /\ upd' = "callback" /\ UNCHANGED <<cur, nxt>>
        ELSE Advance /\ UNCHANGED state
     /\ Note(t, IF hist.bad THEN [hist.of[t] EXCEPT !.age = 0, !.clean = FALSE] ELSE hist.of[t])
     /\ UNCHANGED <<live, T, param, now, seen, t_us>>

KTimerSkip ==
  /\ upd = "walk" /\ state[cur] # "running"
  /\ Advance
  /\ UNCHANGED <<timerVars, now, seen, t_us, hist>>

IterBit(n, i) == (n \div 2^i) % 2
BitsOr(m, n) ==
  LET b(i) == IF 1 \in {IterBit(m, i), IterBit(n, i)} THEN 1 ELSE 0
  IN b(0) + 2 * b(1) + 4 * b(2) + 8 * b(3) + 16 * b(4)

(* The five iteration bits of the parameter after an overflow: the new     *)
(* count is combined with the old one.  A count of 0 wraps around.         *)
IterationsLeft(n) == IF n = 0 THEN 31 ELSE BitsOr(n, n - 1)

AutoReset(t) == ticks' = [ticks EXCEPT ![t] = IF param[t].ar THEN 0 ELSE @]

(* The rest of KTimerUpdateAll, once the callback has returned.            *)
CallbackReturns ==
  LET t == cur  p == param[t]  h == hist.of[t]
  IN /\ upd = "callback"
     /\ IF LastIteration(p) THEN Forget(t)
        ELSE /\ AutoReset(t)
             /\ state' = [state EXCEPT ![t] = IF p.on THEN "running" ELSE @]
             /\ param' = [param EXCEPT ![t].itr = IF p.periodic THEN @ ELSE IterationsLeft(@)]
             /\ Note(t, [h EXCEPT !.age = 0, !.clean = p.ar])
             /\ UNCHANGED <<live, T>>
     /\ Advance
     /\ UNCHANGED <<now, seen, t_us>>
------------------------------------------------------------------------------
TimersNext ==
  \/ \E t \in Timer :
       \/ \E interval \in Interval, p \in Parameter : TimerCreate(t, interval, p)
       \/ TimerDelete(t) \/ TimerReset(t) \/ TimerPause(t) \/ TimerStop(t) \/ TimerStart(t)
       \/ \E interval \in Interval : TimerIntervalSet(t, interval)
       \/ \E p \in Parameter : TimerParameterSet(t, p)
       \/ \E n \in Iterations : TimerIterationsSet(t, n)
  \/ TimerStartAll \/ TimerStopAll \/ TimerResetAll
  \/ ICoreRunTimeUpdate
  \/ UpdateBegin \/ UpdateRead \/ KTimerUpdate \/ KTimerSkip \/ CallbackReturns

TimersSpec == TimersInit /\ [][TimersNext]_timersVars
------------------------------------------------------------------------------
(* Timer.h: TimerDelete deletes the specified timer, whoever calls it.  So *)
(* KTimerUpdateAll's iterator stays on timers that exist, although timers  *)
(* are created and deleted by callbacks and by the update itself.          *)
IteratorLive ==
  upd \in {"walk", "callback", "dangling"} => cur \in live /\ nxt \in live \cup {NoTimer}

(* A timer that counted from 0 undisturbed overflows at most two update    *)
(* intervals too soon: it is also given the time between the last update   *)
(* and its start, twice if a callback of that update starts it.  Updates   *)
(* over a change of the hour, where the time added is wrong, are excepted. *)
NotTooEarly ==
  [][upd = "walk" /\ upd' = "callback" /\ hist'.of[cur].clean =>
       hist'.of[cur].age + 2 * MaxLag >= T[cur]]_timersVars

(* Outside an update, an undisturbed running timer has run less than its   *)
(* interval and the time since the last update: no update passed it by,    *)
(* whatever was created or deleted meanwhile, nor lost time, except for    *)
(* ticks between the two reads.                                            *)
NotTooLate ==
  upd = "sleep" =>
    \A t \in live : state[t] = "running" /\ hist.of[t].clean => hist.of[t].age < T[t] + hist.lag
===============================================================================
