-------------------------------- MODULE Startup --------------------------------
(***************************************************************************)
(* OsInit, OsStart and OsStop (Core.c): the modules are initialised one    *)
(* after the other within a critical section, while the debug UART already *)
(* receives; a failing module makes OsInit return at once, hang, or go on. *)
(* The application (main.c) does not look at the result.  OsInit may be    *)
(* called again after OsStop.                                              *)
(***************************************************************************)
EXTENDS Integers, Sequences

CONSTANT MaxBoots   \* bound on the calls of OsInit

VARIABLES
  at,        \* where the program is
  step,      \* the init that OsInit calls next
  ready,     \* the modules that are initialised
  crit, mode,       \* nest counters of KernelReg
  running,   \* tcb_running: "none" is NULL
  os_running,
  ints,      \* interrupts are enabled
  uart,      \* the UART receives
  tick,      \* the tick interrupt is enabled, and the timer runs
  created,   \* the application's task exists
  boots,
  misuse,    \* history: the modules used before they were initialised, by whom
  lost,      \* history: the inits that failed since OsInit was called
  nullRing,  \* history: what had failed when a character found no ring-buffer
  served     \* history: what had failed when a tick was served

startVars == <<at, step, ready, crit, mode, running, os_running, ints, uart,
               tick, created, boots, misuse, lost, nullRing, served>>
------------------------------------------------------------------------------
(* An init: its module, the modules it uses, and what its failure does.    *)
Module(name, uses, failure) ==
  [name |-> name, uses |-> uses, failure |-> failure]

LogInit       == Module("log", {}, "never")
TickInit      == Module("tick", {}, "never")
IdInit        == Module("id", {}, "never")
KMemInit      == Module("memory", {}, "return")
KTaskInit     == Module("task", {"memory", "id"}, "return")
EventInit     == Module("event", {"tick"}, "never")
KSchedulerInit == Module("scheduler", {"event", "memory"}, "hang")
KTimerInit    == Module("timer", {"task", "event", "memory", "id"}, "go on")
KEventgroupInit == Module("eventgroup", {}, "never")
KMailboxInit  == Module("mailbox", {}, "never")
KRingbufInit  == Module("ringbuffer", {}, "never")
KShellInit    ==
  Module("shell", {"ringbuffer", "memory", "id", "task", "event"}, "go on")

SchedulerFirst ==  \* mutant: the scheduler is initialised before the events
  <<LogInit, TickInit, IdInit, KMemInit, KTaskInit, KSchedulerInit, EventInit,
    KTimerInit, KEventgroupInit, KMailboxInit, KRingbufInit, KShellInit>>

OsInitOrder ==
  <<LogInit, TickInit, IdInit, KMemInit, KTaskInit, EventInit, KSchedulerInit,
    KTimerInit, KEventgroupInit, KMailboxInit, KRingbufInit, KShellInit>>

(* What KernelTaskCreate needs at a tick.                                  *)
Kernel == {"memory", "task", "event", "scheduler"}

Uses(who, what) == misuse' = misuse \cup {<<who, u>> : u \in what \ ready}

(* Interrupts are enabled at the end of the outermost section only.        *)
Enabled(level) == IF level = 0 THEN TRUE ELSE ints

StartInit ==
  /\ at = "reset" /\ step = 0 /\ ready = {} /\ crit = 0 /\ mode = 0
  /\ running = "none" /\ os_running = FALSE
  /\ ints = TRUE /\ uart = FALSE /\ tick = FALSE /\ created = FALSE
  /\ boots = 0
  /\ misuse = {} /\ lost = {} /\ nullRing = {} /\ served = {}
------------------------------------------------------------------------------
NoSection == 0  \* mutant: OsInit does not begin a critical section

SectionLevel == 1

OsInitBegin ==
  /\ at \in {"reset", "stopped"} /\ boots < MaxBoots
  /\ boots' = boots + 1
  /\ at' = "init" /\ step' = 1
  /\ ready' = {} /\ lost' = {} /\ created' = FALSE
  /\ os_running' = TRUE
  /\ crit' = SectionLevel /\ mode' = 1
  /\ ints' = (SectionLevel = 0)
  /\ UNCHANGED <<running, uart, tick, misuse, nullRing, served>>

(* A module that allocates begins and ends a section of its own in it.     *)
InitModule(s) ==
  /\ Uses(s.name, s.uses)
  /\ ready' = ready \cup {s.name}
  /\ step' = step + 1
  /\ ints' = IF "memory" \in s.uses \cup {s.name} THEN Enabled(crit) ELSE ints
  /\ uart' = (uart \/ s = LogInit)
  /\ tick' = (tick /\ s # TickInit)
  /\ running' = IF s = KTaskInit THEN "none" ELSE running
  /\ UNCHANGED <<at, crit, mode, os_running, created, boots, lost, nullRing,
                 served>>

EndsSection(c) == c - 1  \* mutant: the error return ends the section

ReturnLevel(c) == c

(* A module that cannot be created: no object memory, or no pool.          *)
InitFails(s) ==
  /\ s.failure # "never"
  /\ Uses(s.name, s.uses)
  /\ lost' = lost \cup {s.name}
  /\ \/ s.failure = "return" /\ at' = "app" /\ crit' = ReturnLevel(crit)
        /\ UNCHANGED step
     \/ s.failure = "hang" /\ at' = "hung" /\ UNCHANGED <<crit, step>>
     \/ s.failure = "go on" /\ step' = step + 1 /\ UNCHANGED <<at, crit>>
  /\ ints' = Enabled(crit')
  /\ UNCHANGED <<ready, mode, running, os_running, uart, tick, created, boots,
                 nullRing, served>>

OsInitEnd ==
  /\ at = "init" /\ step > Len(OsInitOrder)
  /\ at' = "app"
  /\ mode' = mode - 1 /\ crit' = IF crit > 0 THEN crit - 1 ELSE 0
  /\ ints' = Enabled(crit')
  /\ UNCHANGED <<step, ready, running, os_running, uart, tick, created, boots,
                 misuse, lost, nullRing, served>>
------------------------------------------------------------------------------
appFrame == <<ready, crit, mode, running, os_running, uart, tick, boots, lost,
              nullRing, served, at, step>>

(* The application creates its first task, which may fail; and it may      *)
(* create a message queue: no init calls KMessageInit.                     *)
AppTaskCreate ==
  /\ at = "app" /\ ~created
  /\ created' = ("memory" \in ready)
  /\ ints' = Enabled(crit)
  /\ UNCHANGED <<appFrame, misuse>>

AppMessageQueueCreate ==
  /\ at \in {"app", "run"} /\ "memory" \in ready
  /\ Uses("application", {"memory", "message"})
  /\ ints' = Enabled(crit)
  /\ UNCHANGED <<appFrame, created>>

(* OsStart takes the task it is given, or Idle; there is none when         *)
(* KTaskInit has failed, and then it writes through NULL.                  *)
OsStart(task) ==
  /\ at = "app"
  /\ task => created
  /\ IF task \/ "task" \in ready
     THEN at' = "start" /\ running' = IF task THEN "task" ELSE "idle"
     ELSE at' = "hung" /\ UNCHANGED running
  /\ crit' = crit + 1 /\ ints' = FALSE
  /\ UNCHANGED <<step, ready, mode, os_running, uart, tick, created, boots,
                 misuse, lost, nullRing, served>>

StartTick ==
  /\ at = "start"
  /\ at' = "run"
  /\ tick' = TRUE
  /\ crit' = crit - 1 /\ ints' = Enabled(crit')
  /\ UNCHANGED <<step, ready, mode, running, os_running, uart, created, boots,
                 misuse, lost, nullRing, served>>

OsStop ==
  /\ at = "run" /\ os_running
  /\ os_running' = FALSE
  /\ UNCHANGED <<at, step, ready, crit, mode, running, ints, uart, tick,
                 created, boots, misuse, lost, nullRing, served>>

(* The running task returns: ICoreTickInvoke waits for the tick.           *)
TaskReturns ==
  /\ at = "run"
  /\ at' = "spin"
  /\ UNCHANGED <<step, ready, crit, mode, running, os_running, ints, uart,
                 tick, created, boots, misuse, lost, nullRing, served>>

(* OsTick, when there is a running task; then the loop of OsStart ends, or *)
(* goes on.  The tick is not disabled after OsStop.                        *)
ServeTick ==
  /\ ints /\ tick /\ running # "none"
  /\ served' = served \cup {lost \cup (Kernel \ ready)}
  /\ at' = IF at # "spin" THEN at ELSE IF os_running THEN "run" ELSE "stopped"
  /\ UNCHANGED <<step, ready, crit, mode, running, os_running, ints, uart,
                 tick, created, boots, misuse, lost, nullRing>>

(* A received character is written to ShellRxRingbuf: RingbufWrite reads   *)
(* through NULL when the ring-buffer does not exist.                       *)
Receive ==
  /\ ints /\ uart
  /\ nullRing' = IF "shell" \in ready THEN nullRing ELSE nullRing \cup {lost}
  /\ UNCHANGED <<at, step, ready, crit, mode, running, os_running, ints, uart,
                 tick, created, boots, misuse, lost, served>>

StartNext ==
  \/ OsInitBegin
  \/ /\ at = "init" /\ step <= Len(OsInitOrder)
     /\ InitModule(OsInitOrder[step]) \/ InitFails(OsInitOrder[step])
  \/ OsInitEnd
  \/ AppTaskCreate
  \/ AppMessageQueueCreate
  \/ \E task \in BOOLEAN : OsStart(task)
  \/ StartTick
  \/ OsStop
  \/ TaskReturns
  \/ ServeTick
  \/ Receive
------------------------------------------------------------------------------
(* Every init uses only modules that the earlier ones have prepared, or    *)
(* that could not be created.  The message queues are the exception: no    *)
(* init prepares them.                                                     *)
InitUsesReady ==
  misuse \subseteq {<<"application", "message">>}

(* A tick is served only by a kernel whose OsInit has got to its end: the  *)
(* error returns keep interrupts disabled for good, so that an application *)
(* that starts the system all the same waits for its first tick forever.   *)
TicksAfterInit == \A l \in served : l \subseteq {"timer", "shell"}

(* A character received during OsInit waits for the end of it: it finds no *)
(* ring-buffer only when KShellInit has failed, which OsInit ignores.      *)
ReceivesAfterInit == \A l \in nullRing : "shell" \in l

(* Whichever inits fail and wherever an interrupt comes, nothing is used   *)
(* before it is prepared: not by an init, by the tick or by the receiving  *)
(* interrupt, with the exceptions above.                                   *)
StartsSafely == InitUsesReady /\ TicksAfterInit /\ ReceivesAfterInit
==============================================================================
