------------------------------- MODULE RunTime -------------------------------
(***************************************************************************)
(* The run time of the system and of the running task (Core.c, Task.c).    *)
(* Time comes from the OS timer: a tick counts a whole period, unless the  *)
(* end of a task forced it; then ICoreTickInvoke has added the counts of   *)
(* the timer before.  Its steps, and those of OsRunTimeGet, may have a     *)
(* tick in between; the tick itself is not interrupted.                    *)
(*                                                                         *)
(* The unit of time is a count of the timer.                               *)
(***************************************************************************)
EXTENDS Integers

CONSTANTS
  Period,     \* tick_period_us
  Hour,       \* USEC_PER_HOUR
  MaxClock    \* bound on the time explored

ASSUME RunTimeAssumption ==
  Period \in Nat \ {0} /\ Hour \in Nat \ {0} /\ MaxClock \in Nat

VARIABLES
  clock,      \* history: the real time
  timer,      \* the counter of the OS timer
  irq,        \* the tick interrupt is pending
  t_accu, micros, hours,  \* fields of KernelReg
  dispatch,   \* CORE_FLAG_DISPATCH
  last_micros, run_time,  \* KTaskRunTimeUpdate's static variable, and its sum
  cpu,        \* where the running task is, and its registers
  races,      \* history: ticks that came while a task's time was added
  since,      \* history: when the running task was dispatched
  turned      \* history: the hour turned, or such a tick came, since then or
              \* since last_micros was written

timeVars == <<clock, timer, irq, t_accu, micros, hours, dispatch, last_micros,
              run_time, cpu, races, since, turned>>

Total(h, m) == h * Hour + m

At0(label) == [at |-> label, tc |-> 0, accu |-> 0, h |-> 0, m |-> 0,
                start |-> <<0, 0>>, end |-> <<0, 0>>]

TimeInit ==
  /\ clock = 0 /\ timer = 0 /\ irq = FALSE
  /\ t_accu = 0 /\ micros = 0 /\ hours = 0
  /\ dispatch = FALSE
  /\ last_micros = 0 /\ run_time = 0
  /\ cpu = At0("task")
  /\ races = 0 /\ since = 0 /\ turned = FALSE

(* The timer counts, and asks for a tick at the end of its period.         *)
Count ==
  /\ ~irq /\ clock < MaxClock
  /\ clock' = clock + 1
  /\ timer' = (timer + 1) % Period
  /\ irq' = (timer + 1 = Period)
  /\ UNCHANGED <<t_accu, micros, hours, dispatch, last_micros, run_time, cpu,
                 races, since, turned>>

AddsPeriod(d, accu) == accu + Period  \* mutant: a forced tick counts one too

(* What the tick adds to the run time.                                     *)
Accumulated(d, accu) == IF d THEN accu ELSE accu + Period

NeverReset(m) ==  \* mutant: the next task goes on with the sum
  /\ run_time' = IF m = 0 THEN run_time
                 ELSE run_time + (IF m >= last_micros THEN m - last_micros
                                                      ELSE last_micros - m)
  /\ last_micros' = IF m = 0 THEN last_micros ELSE m

(* The absolute difference, nothing at the start of an hour.               *)
KTaskRunTimeUpdate(m) ==
  /\ run_time' = IF dispatch THEN 0  \* KTaskRunTimeReset
                 ELSE IF m = 0 THEN run_time
                 ELSE run_time + (IF m >= last_micros THEN m - last_micros
                                                      ELSE last_micros - m)
  /\ last_micros' = IF m = 0 THEN last_micros ELSE m

Racing == cpu.at \in {"add", "sum", "flag", "force"}

Tick ==
  /\ irq
  /\ irq' = FALSE
  /\ LET sum == micros + Accumulated(dispatch, t_accu)
     IN  /\ micros' = IF sum >= Hour THEN 0 ELSE sum
         /\ hours' = IF sum >= Hour THEN hours + 1 ELSE hours
         /\ turned' = (Racing \/ sum >= Hour \/ (turned /\ ~(dispatch /\ sum > 0)))
  /\ t_accu' = 0
  /\ KTaskRunTimeUpdate(micros')
  /\ dispatch' = FALSE
  /\ races' = IF Racing THEN races + 1 ELSE races
  /\ since' = IF dispatch THEN clock ELSE since
  /\ UNCHANGED <<clock, timer, cpu>>
------------------------------------------------------------------------------
Go(from, c) == ~irq /\ cpu.at = from /\ cpu' = c

(* ICoreTickInvoke, at the end of every task: the counts since the last    *)
(* tick are added up, and a tick is forced.                                *)
TicksGet ==
  /\ Go("task", [At0("add") EXCEPT !.tc = timer])
  /\ UNCHANGED <<t_accu, dispatch, timer, irq>>

AccumulateLoad ==
  /\ Go("add", [cpu EXCEPT !.at = "sum", !.accu = t_accu])
  /\ UNCHANGED <<t_accu, dispatch, timer, irq>>

AccumulateStore ==
  /\ Go("sum", [cpu EXCEPT !.at = "flag"])
  /\ t_accu' = cpu.accu + cpu.tc
  /\ UNCHANGED <<dispatch, timer, irq>>

SetDispatch ==
  /\ Go("flag", At0("force"))
  /\ dispatch' = TRUE
  /\ UNCHANGED <<t_accu, timer, irq>>

(* The tick, forced or not, clears the flag that the task waits for.       *)
ForceTick ==
  /\ Go("force", At0("spin"))
  /\ timer' = 0 /\ irq' = TRUE
  /\ UNCHANGED <<t_accu, dispatch>>

Spin ==
  /\ ~dispatch
  /\ Go("spin", At0("task"))
  /\ UNCHANGED <<t_accu, dispatch, timer, irq>>
------------------------------------------------------------------------------
(* OsRunTimeGet: the hours, then the microseconds.                         *)
MicrosFirst == <<"m", "h">>  \* mutant

ReadOrder == <<"h", "m">>

Field(f) == IF f = "h" THEN hours ELSE micros

ReadFirst ==
  /\ Go("task", [At0("read") EXCEPT ![ReadOrder[1]] = Field(ReadOrder[1]),
                                    !.start = <<hours, micros>>])
  /\ UNCHANGED <<t_accu, dispatch, timer, irq>>

ReadSecond ==
  /\ Go("read", [cpu EXCEPT !.at = "have", ![ReadOrder[2]] = Field(ReadOrder[2]),
                            !.end = <<hours, micros>>])
  /\ UNCHANGED <<t_accu, dispatch, timer, irq>>

UseReading ==
  /\ Go("have", At0("task"))
  /\ UNCHANGED <<t_accu, dispatch, timer, irq>>

TimeNext ==
  \/ Count
  \/ Tick
  \/ /\ \/ TicksGet \/ AccumulateLoad \/ AccumulateStore \/ SetDispatch \/ ForceTick \/ Spin
        \/ ReadFirst \/ ReadSecond \/ UseReading
     /\ UNCHANGED <<clock, micros, hours, last_micros, run_time, races, since, turned>>
------------------------------------------------------------------------------
(* The run time is never ahead of the clock, except by at most a period    *)
(* for every tick that the timer makes in the middle of ICoreTickInvoke:   *)
(* it adds time twice, or the forced tick finds no flag and adds a period. *)
RunTimeNotAhead ==
  Total(hours, micros) <= clock + races * Period

(* A reading lies between the run time before and after the call, unless   *)
(* the hour turns in between: then it is up to an hour too early.          *)
ReadingFits ==
  cpu.at = "have" =>
    LET r     == Total(cpu.h, cpu.m)
        start == Total(cpu.start[1], cpu.start[2])
        end   == Total(cpu.end[1], cpu.end[2])
        turns == cpu.end[1] - cpu.start[1]
    IN  IF turns = 0 THEN r \in start .. end ELSE end - r \in 0 .. Hour * turns

(* The run time of a task is at most the time since it was dispatched,     *)
(* unless the hour turned (the absolute difference is then taken for the   *)
(* time that passed, by a task dispatched just after the turn as well,     *)
(* for KTaskRunTimeUpdate skips microsecond 0) or such a tick came.        *)
TaskTimeFits == turned \/ run_time <= clock - since

(* The run time of the system, a reading of it and the run time of a task  *)
(* fit the clock, under ticks and forced ticks at whatever step, with the  *)
(* exceptions above.                                                       *)
TimeFits == RunTimeNotAhead /\ ReadingFits /\ TaskTimeFits
==============================================================================
