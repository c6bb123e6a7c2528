----------------------------- MODULE PriorKernel -----------------------------
(***************************************************************************)
(* The cooperative kernel of PriorRTOS: tasks (Task.c), the events they    *)
(* poll and emit (Event.c), the event broker and the execution queue       *)
(* (Scheduler.c), and the tick that dispatches and runs the broker         *)
(* (Core.c).                                                               *)
(*                                                                         *)
(* The actors are the running task (or the idle task), interrupt service   *)
(* routines, and the OS tick.  Interrupts are disabled while the tick      *)
(* runs, so phase # "thread" excludes every other actor; the loops of the  *)
(* broker are taken one iteration per step.  A task in TcbList or          *)
(* TcbWaitList is found by its ID and the lists are kept in ID order, so   *)
(* the lists are sets of IDs; the ExecutionQueue is a sequence.  Time is   *)
(* counted in units of which TickPeriod make one OS tick.                  *)
(***************************************************************************)
EXTENDS Naturals, Sequences

CONSTANTS
  Task,          \* TCBs, named by their IDs: natural numbers
  Idle,          \* the TCB of KernelTaskIdle
  Boot,          \* the tasks created before OsStart, Idle among them
  Category,      \* TaskCat_t of every task, 0 (LOW) .. 4 (OS)
  Minor,         \* the minor priority every task is created with, 1 .. 5
  NewMinor,      \* minor priorities that TaskPrioritySet is called with
  Known,         \* the task IDs the application can name in a call
  Deletable,     \* the task IDs the application may pass to TaskDelete
  Event,         \* (source, code) pairs of ordinary events
  Sleep,         \* (ID_INVALID, TASK_EVENT_SLEEP)
  Mock,          \* (ID_INVALID, MOCK_EVENT)
  Hash,          \* EventToHash, on every key
  Timeout,       \* finite timeouts passed to the polling calls
  Inf,           \* OS_TIMEOUT_INFINITE
  Wrapped,       \* what 0xFFFFFFFF ms becomes in us when it does not saturate
  TickPeriod,    \* tick_period_us
  EventLifeTime, \* EmittedEventLifetimeUs
  MaxLag,        \* bound on the time that may pass between two broker cycles
  MaxLock,       \* bound on the nesting of OsSchedulerLock
  None           \* no event, no call

(* An event is named by its (source, code) pair; the TASK_EVENT_ACTIVATE   *)
(* event addressed to task t is named by t itself.                         *)
Key == Event \cup {Sleep, Mock} \cup Task

(* Lifetimes of polled events: a number of time units, or Inf when         *)
(* EVENT_FLAG_NO_TIMEOUT is set.                                           *)
LifeTime == Timeout \cup {Wrapped, Inf}

(* A polled event: its lifetime, the lifetime consumed, and the flags      *)
(* OCCURRED, TIMED_OUT and PERMANENT.                                      *)
Polled == [life : LifeTime, cnt : 0 .. MaxLag,
           occ : BOOLEAN, tout : BOOLEAN, perm : BOOLEAN]

(* A call cut in two: TaskDelete and TaskPrioritySet between the look-up   *)
(* of the TCB and the write to it, EventEmit between the search of         *)
(* EventList and the addition of the event or the reset of the one found,  *)
(* which is stale once the broker has destroyed that one.  The arg of an   *)
(* emission is 1 when an interrupt makes it.                               *)
Emitting == {"add", "reset", "stale"}

Call == [op : {"delete"}, obj : Deletable, arg : {0}]
          \cup [op : {"priority"}, obj : Task, arg : NewMinor]
          \cup [op : Emitting, obj : Event \cup Task, arg : {0, 1}]

States == {"FREE", "IDLE", "WAITING", "ACTIVE", "RUNNING", "DEAD"}

ASSUME TaskAssumption ==
  /\ Task \subseteq Nat
  /\ Idle \in Boot
  /\ Boot \subseteq Task
  /\ Known \subseteq Task
  /\ Deletable \subseteq Known
  /\ Category \in [Task -> 0 .. 4]
  /\ Minor \in [Task -> 1 .. 5]
  /\ NewMinor \subseteq 1 .. 5

ASSUME KeyAssumption ==
  /\ Sleep \notin Event \cup Task \cup {Mock}
  /\ Mock \notin Event \cup Task
  /\ Event \cap Task = {}
  /\ Hash \in [Key -> Nat]
  /\ None \notin Polled
  /\ None \notin Call

ASSUME TimeAssumption ==
  /\ TickPeriod \in Nat \ {0}
  /\ EventLifeTime \in Nat \ {0}
  /\ MaxLag \in Nat
  /\ Timeout \subseteq 1 .. MaxLag
  /\ Wrapped \in 1 .. MaxLag
  /\ EventLifeTime <= MaxLag
  /\ Inf \notin Nat
  /\ MaxLock \in Nat

VARIABLES
  tcbList,    \* TcbList: the tasks in state IDLE
  waitList,   \* TcbWaitList: the tasks waiting for an event
  queue,      \* ExecutionQueue: activated tasks, highest priority first
  running,    \* KernelReg.tcb_running
  state,      \* tcb->state
  prio,       \* tcb->priority
  del,        \* the tasks with TASK_FLAG_DELETE
  listen,     \* tcb->event_list: what each task polls
  evs,        \* EventList: the keys of the emitted events, oldest first
  evCnt,      \* life_time_us_cnt of the events of EventList, in its order
  dispatch,   \* CORE_FLAG_DISPATCH
  idleFlag,   \* CORE_FLAG_IDLE
  idleLoop,   \* KernelTaskIdle is in its loop
  schedLock,  \* KernelReg.scheduler_lock
  lag,        \* OS run-time not yet seen by the broker
  call,       \* a call that has looked something up and not yet written
  phase,      \* where the tick is; "thread" when no tick is being served
  idx,        \* the broker's position in EventList
  stage,      \* the task list the broker is comparing
  todo,       \* the tasks of that list still to be compared
  delta       \* delta_us of this broker cycle

taskVars == <<tcbList, waitList, queue, running, state>>
evVars   == <<evs, evCnt>>
tickVars == <<phase, idx, stage, todo, delta>>
vars == <<taskVars, prio, del, listen, evVars, dispatch, idleFlag, idleLoop,
          schedLock, lag, call, tickVars>>

TypeOK ==
  /\ tcbList \subseteq Task
  /\ waitList \subseteq Task
  /\ queue \in Seq(Task)
  /\ running \in Task
  /\ state \in [Task -> States]
  /\ prio \in [Task -> 0 .. 24]
  /\ del \subseteq Task
  /\ listen \in [Task -> [Key -> Polled \cup {None}]]
  /\ evs \in Seq(Key)
  /\ evCnt \in Seq(0 .. MaxLag) /\ Len(evCnt) = Len(evs)
  /\ dispatch \in BOOLEAN /\ idleFlag \in BOOLEAN /\ idleLoop \in BOOLEAN
  /\ schedLock \in 0 .. MaxLock
  /\ lag \in 0 .. MaxLag
  /\ call \in Call \cup {None}
  /\ phase \in {"thread", "event", "compare", "cleanup"}
  /\ idx \in Nat
  /\ stage \in {"wait", "list", "queue"}
  /\ todo \subseteq Task
  /\ delta \in 0 .. MaxLag
------------------------------------------------------------------------------
(* Operators on tasks and events.                                          *)

KTaskCalculatePriority(Mj, Mi) == Mj * 5 + Mi - 1

(* The search of TcbList and then TcbWaitList; tasks in the ExecutionQueue *)
(* and the running task are not found.                                     *)
KTcbFromId(t) == t \in tcbList \cup waitList

Queued(t) == \E i \in 1 .. Len(queue) : queue[i] = t

(* The events of polling list L with the hash of k: EventListContainsEvent *)
(* and the search of EventRegister compare hashes only.                    *)
Find(L, k) == {e \in Key : L[e] # None /\ Hash[e] = Hash[k]}

Listening(t) == \E e \in Key : listen[t][e] # None

NoPolls == [e \in Key |-> None]

(* ConvertMsToUs multiplies in floating point: 0xFFFFFFFF ms does not fit, *)
(* and the out-of-range conversion saturates or wraps, per target.         *)
ConvertMsToUs(ms) == IF ms = Inf THEN {Inf, Wrapped} ELSE {ms}

AddTime(a, b) == IF a + b < MaxLag THEN a + b ELSE MaxLag

(* Mutant: the search compares events instead of hashes.                   *)
RegisterByKey(L, k, perm, us) ==
  IF L[k] # None
  THEN [L EXCEPT ![k].cnt = 0]
  ELSE [L EXCEPT ![k] = [life |-> us, cnt |-> 0, occ |-> FALSE,
                         tout |-> FALSE, perm |-> perm]]

(* EventRegister: an event already polled under this hash only has its     *)
(* lifetime reset (OS_RES_FAIL), else a new event is added.                *)
EventRegister(L, k, perm, us) ==
  IF Find(L, k) # {}
  THEN [e \in Key |-> IF e \in Find(L, k) /\ L[e].life # Inf
                      THEN [L[e] EXCEPT !.cnt = 0] ELSE L[e]]
  ELSE [L EXCEPT ![k] = [life |-> us, cnt |-> 0, occ |-> FALSE,
                         tout |-> FALSE, perm |-> perm]]

(* ITaskEventHandle on an event that occurred or timed out: a permanent    *)
(* event is reset, any other is destroyed.                                 *)
ITaskEventHandle(L, k) ==
  [e \in Key |->
     IF e \notin Find(L, k) \/ ~(L[e].occ \/ L[e].tout) THEN L[e]
     ELSE IF L[e].perm
          THEN [L[e] EXCEPT !.occ = FALSE, !.tout = FALSE, !.cnt = 0]
          ELSE None]

(* The result of TaskPoll(k, ., add) on polling list L.                    *)
TaskPollResult(L, k, add) ==
  IF add
  THEN IF Find(ITaskEventHandle(L, k), k) = {} THEN "POLL" ELSE "FAIL"
  ELSE IF Find(L, k) = {} THEN "FAIL"
  ELSE IF \E e \in Find(L, k) : L[e].occ THEN "EVENT"
  ELSE IF \E e \in Find(L, k) : L[e].tout THEN "TIMEOUT"
  ELSE "POLL"

(* EventLifeTimeIncrement of a polled event, and the timeout.              *)
IncrementNoLimit(r) == [r EXCEPT !.cnt = @ + delta] \* mutant: no timeout

PolledLifeTimeIncrement(r) ==
  IF r.cnt + delta < r.life THEN [r EXCEPT !.cnt = @ + delta]
                            ELSE [r EXCEPT !.tout = TRUE]

(* Whether the lifetime of polled event r runs in this comparison.         *)
RunsButLast(r, last) == ~last /\ r.life # Inf /\ ~r.tout \* mutant

LifeTimeRuns(r, last) == last /\ r.life # Inf /\ ~r.tout

(* ISchedulerTaskEventsCompare on the polling list of one task: the event  *)
(* that equals e has occurred; lifetimes run on the last event only.       *)
ISchedulerTaskEventsCompare(L, e, last) ==
  [k \in Key |->
     IF L[k] = None THEN None
     ELSE IF k = e THEN [L[k] EXCEPT !.occ = TRUE, !.tout = FALSE, !.cnt = 0]
     ELSE IF LifeTimeRuns(L[k], last) THEN PolledLifeTimeIncrement(L[k])
     ELSE L[k]]

Activated(L) == \E k \in Key : L[k] # None /\ (L[k].occ \/ L[k].tout)

(* ListNodeAddAtNode / AddAtPosition and ListNodeRemove on a sequence.     *)
InsertAt(s, i, x) ==
  [j \in 1 .. Len(s) + 1 |->
     IF j < i THEN s[j] ELSE IF j = i THEN x ELSE s[j - 1]]

RemoveAt(s, i) ==
  [j \in 1 .. Len(s) - 1 |-> IF j < i THEN s[j] ELSE s[j + 1]]

(* ListNodeRemove from the list the TCB is in.                             *)
RemoveFromTcbList(t) == tcbList' = tcbList \ {t} /\ UNCHANGED waitList \* mutant

ListNodeRemove(t) == tcbList' = tcbList \ {t} /\ waitList' = waitList \ {t}

(* The node before which t is inserted: the first of strictly lower        *)
(* priority, else the end of the list.                                     *)
AtTail(t, i) == i = Len(queue) + 1 \* mutant

InsertionPoint(t, i) ==
  /\ \A j \in 1 .. i - 1 : prio[t] <= prio[queue[j]]
  /\ i <= Len(queue) => prio[t] > prio[queue[i]]

ISchedulerTaskAddDescendingPriority(t) ==
  /\ ListNodeRemove(t)
  /\ state' = [state EXCEPT ![t] = "ACTIVE"]
  /\ \E i \in 1 .. Len(queue) + 1 :
       InsertionPoint(t, i) /\ queue' = InsertAt(queue, i, t)

(* ListSearch of EventList, which is not sorted: the first event with the  *)
(* hash of k.                                                              *)
EventFound(k, i) ==
  /\ Hash[evs[i]] = Hash[k]
  /\ \A j \in 1 .. i - 1 : Hash[evs[j]] # Hash[k]

OnlyAddressed(k) == \E i \in 1 .. Len(evs) : evs[i] = k /\ k \in Task \* mutant

InEventList(k) == \E i \in 1 .. Len(evs) : Hash[evs[i]] = Hash[k]

(* EventEmit: an event found only has its lifetime reset (OS_RES_FAIL),    *)
(* else k is added at the tail.                                            *)
ResetEvent(k) ==
  /\ evCnt' = [i \in 1 .. Len(evs) |-> IF EventFound(k, i) THEN 0 ELSE evCnt[i]]
  /\ UNCHANGED evs

AddEvent(k) == evs' = Append(evs, k) /\ evCnt' = Append(evCnt, 0)

EventEmit(k) == IF InEventList(k) THEN ResetEvent(k) ELSE AddEvent(k)

(* EventEmit when it has searched EventList; isr is 1 in an interrupt.     *)
Emission(k, isr) ==
  [op |-> IF InEventList(k) THEN "reset" ELSE "add", obj |-> k, arg |-> isr]

(* An interrupt other than the tick is in EventEmit.                       *)
InIsr == call # None /\ call.op \in Emitting /\ call.arg = 1
------------------------------------------------------------------------------
(* OsInit, KTaskInit, KSchedulerInit, then OsStart with a start task.      *)
Init ==
  /\ running \in Boot
  /\ tcbList = Boot \ {running}
  /\ waitList = {}
  /\ queue = <<>>
  /\ state = [t \in Task |-> IF t = running THEN "RUNNING"
                             ELSE IF t \in Boot THEN "IDLE" ELSE "FREE"]
  /\ prio = [t \in Task |-> KTaskCalculatePriority(Category[t], Minor[t])]
  /\ del = {}
  /\ listen = [t \in Task |-> NoPolls]
  /\ evs = <<Mock>>
  /\ evCnt = <<0>>
  /\ dispatch = FALSE /\ idleFlag = FALSE /\ idleLoop = FALSE
  /\ schedLock = 0
  /\ lag = 0
  /\ call = None
  /\ phase = "thread" /\ idx = 1 /\ stage = "wait" /\ todo = {} /\ delta = 0
------------------------------------------------------------------------------
(* Calls of the running task.                                              *)

InTask == phase = "thread" /\ running # Idle /\ ~dispatch /\ call = None

SetPolls(L) ==
  /\ listen' = [listen EXCEPT ![running] = L]
  /\ UNCHANGED <<taskVars, prio, del, evVars, dispatch, idleFlag, idleLoop,
                 schedLock, lag, call, tickVars>>

TaskPoll(k, ms, add) ==
  /\ InTask
  /\ LET handled == ITaskEventHandle(listen[running], k)
     IN \E us \in ConvertMsToUs(ms) :
          SetPolls(IF add THEN EventRegister(handled, k, FALSE, us) ELSE handled)

TaskPollAdd(k, ms) ==
  /\ InTask
  /\ \E us \in ConvertMsToUs(ms) :
       SetPolls(EventRegister(listen[running], k, TRUE, us))

TaskPollRemove(k) ==
  /\ InTask
  /\ SetPolls([e \in Key |-> IF e \in Find(listen[running], k)
                             THEN None ELSE listen[running][e]])

TaskSleep(ms) == ms # Inf /\ TaskPoll(Sleep, ms, TRUE)

(* TaskCreate: the ID is the next one of the group, never one used before; *)
(* TASK_PARAMETER_START notifies the new task.  CAT_OS needs kernel mode.  *)
TaskCreate(t, start) ==
  /\ InTask
  /\ Category[t] # 4
  /\ state[t] = "FREE"
  /\ \A u \in Task : state[u] = "FREE" => t <= u
  /\ tcbList' = tcbList \cup {t}
  /\ state' = [state EXCEPT ![t] = "IDLE"]
  /\ prio' = [prio EXCEPT ![t] = KTaskCalculatePriority(Category[t], Minor[t])]
  /\ call' = IF start THEN Emission(t, 0) ELSE None
  /\ UNCHANGED <<waitList, queue, running, del, listen, evVars, dispatch,
                 idleFlag, idleLoop, schedLock, lag, tickVars>>

(* TaskDelete and TaskPrioritySet look the TCB up and then write to it; a  *)
(* tick may come in between.                                               *)
Lookup(op, t, arg) ==
  /\ InTask
  /\ t = running \/ KTcbFromId(t)
  /\ call' = [op |-> op, obj |-> t, arg |-> arg]
  /\ UNCHANGED <<taskVars, prio, del, listen, evVars, dispatch, idleFlag,
                 idleLoop, schedLock, lag, tickVars>>

TaskDelete(t) == t \in Deletable /\ Lookup("delete", t, 0)

TaskPrioritySet(t, mi) == Lookup("priority", t, mi)

(* The second half of a call; what it has looked up may have changed.      *)
(* EventEmit may write to an event that the broker has destroyed.          *)
Write ==
  /\ phase = "thread" /\ call # None
  /\ \/ /\ call.op = "delete"
        /\ del' = del \cup {call.obj}
        /\ UNCHANGED <<prio, evVars>>
     \/ /\ call.op = "priority"
        /\ prio' = [prio EXCEPT ![call.obj] =
                      KTaskCalculatePriority(Category[call.obj], call.arg)]
        /\ UNCHANGED <<del, evVars>>
     \/ call.op = "add" /\ AddEvent(call.obj) /\ UNCHANGED <<prio, del>>
     \/ call.op = "reset" /\ ResetEvent(call.obj) /\ UNCHANGED <<prio, del>>
     \/ call.op = "stale" /\ UNCHANGED <<prio, del, evVars>>
  /\ call' = None
  /\ UNCHANGED <<taskVars, listen, dispatch, idleFlag, idleLoop, schedLock, lag,
                 tickVars>>

SetSchedulerLock(n) ==
  /\ InTask
  /\ schedLock' = n
  /\ UNCHANGED <<taskVars, prio, del, listen, evVars, dispatch, idleFlag,
                 idleLoop, lag, call, tickVars>>

OsSchedulerLock == schedLock < MaxLock /\ SetSchedulerLock(schedLock + 1)

OsSchedulerUnlock == schedLock > 0 /\ SetSchedulerLock(schedLock - 1)

(* The handler returns: ICoreTickInvoke accounts for the tc time units     *)
(* since the last tick, requests the dispatch and spins.                   *)
ICoreTickInvoke(tc) ==
  /\ phase = "thread" /\ ~dispatch /\ call = None
  /\ running = Idle => idleLoop /\ ~idleFlag
  /\ dispatch' = TRUE
  /\ idleLoop' = FALSE
  /\ lag' = AddTime(lag, tc)
  /\ UNCHANGED <<taskVars, prio, del, listen, evVars, idleFlag, schedLock,
                 call, tickVars>>

(* KernelTaskIdle raises CORE_FLAG_IDLE and loops until a tick clears it.  *)
KernelTaskIdle ==
  /\ phase = "thread" /\ running = Idle /\ ~dispatch /\ ~idleLoop /\ call = None
  /\ idleFlag' = TRUE /\ idleLoop' = TRUE
  /\ UNCHANGED <<taskVars, prio, del, listen, evVars, dispatch, schedLock,
                 lag, call, tickVars>>
------------------------------------------------------------------------------
(* Calls made by the running task and by interrupt service routines alike. *)

(* An emission that nothing interrupts, and the first half of one that a   *)
(* tick or an interrupt may interrupt: of one such emission at a time.     *)
EmitAtOnce(k) ==
  /\ phase = "thread"
  /\ EventEmit(k)
  /\ UNCHANGED <<taskVars, prio, del, listen, dispatch, idleFlag, idleLoop,
                 schedLock, lag, call, tickVars>>

EmitBegin(k, isr) ==
  /\ phase = "thread" /\ call = None
  /\ isr = 0 => running # Idle /\ ~dispatch
  /\ call' = Emission(k, isr)
  /\ UNCHANGED <<taskVars, prio, del, listen, evVars, dispatch, idleFlag,
                 idleLoop, schedLock, lag, tickVars>>

Emit(k) == EmitAtOnce(k) \/ \E isr \in {0, 1} : EmitBegin(k, isr)

TaskResume(t) == Emit(t)

TaskNotify(t) == KTcbFromId(t) /\ Emit(t)
------------------------------------------------------------------------------
(* The OS tick.                                                            *)

(* The state in which the running task t leaves the CPU: it waits when it  *)
(* polls an event, else is destroyed when it has the delete flag, unless   *)
(* it is a CAT_OS idle task, which loses the flag instead.                 *)
StateIgnoresPermanent(t) == \* mutant: permanent polls do not count
  IF \E k \in Key : listen[t][k] # None /\ ~listen[t][k].perm THEN "WAITING"
  ELSE IF t \in del THEN "DEAD" ELSE "IDLE"

(* The idle task is CAT_LOW, so that it is destroyed all the same.         *)
StateAfterRun(t) ==
  IF Listening(t) THEN "WAITING"
  ELSE IF t \in del /\ (Category[t] # 4 \/ t # Idle) THEN "DEAD" ELSE "IDLE"

(* The ExecutionQueue after its head is taken.                             *)
PopTail == IF queue = <<>> THEN queue ELSE RemoveAt(queue, Len(queue)) \* mutant

KSchedulerQueueTaskPop == IF queue = <<>> THEN queue ELSE Tail(queue)

(* ICoreSwitchTask: the running task is put back or destroyed, then the    *)
(* head of the ExecutionQueue is loaded, or Idle when there is none.       *)
ICoreSwitchTask ==
  LET out  == StateAfterRun(running)
      next == IF queue = <<>> THEN Idle ELSE Head(queue)
  IN /\ waitList' = IF out = "WAITING" THEN waitList \cup {running} ELSE waitList
     /\ tcbList' = (tcbList \cup (IF out = "IDLE" THEN {running} ELSE {}))
                     \ (IF queue = <<>> THEN {Idle} ELSE {})
     /\ queue' = KSchedulerQueueTaskPop
     /\ running' = next
     /\ state' = [state EXCEPT ![running] = out, ![next] = "RUNNING"]
     /\ del' = IF out = "IDLE" THEN del \ {running} ELSE del

FlagKept(flag) == flag \* mutant

KCoreFlagClear(flag) == FALSE

(* The end of ICoreTickCoop: CORE_FLAG_IDLE is cleared when a task is in   *)
(* the ExecutionQueue.                                                     *)
IdleFlagAfter(q) == idleFlag /\ q = <<>>

(* ICoreTickCoop up to the broker cycle.  nested: the tick interrupted     *)
(* another interrupt; locked: it interrupted a call that holds the lock of *)
(* TcbList, TcbWaitList or EventList.                                      *)
OsTick(nested, locked) ==
  /\ phase = "thread"
  /\ InIsr => nested
  /\ locked => InIsr \/ (running # Idle /\ ~dispatch)
  /\ IF dispatch /\ ~nested
     THEN ICoreSwitchTask /\ dispatch' = KCoreFlagClear(dispatch)
     ELSE UNCHANGED <<taskVars, del, dispatch>>
  /\ LET now == AddTime(lag, IF dispatch THEN 0 ELSE TickPeriod)
     IN IF locked \/ schedLock > 0
        THEN /\ lag' = now
             /\ idleFlag' = IdleFlagAfter(queue')
             /\ UNCHANGED tickVars
        ELSE /\ lag' = 0
             /\ phase' = "event" /\ idx' = 1 /\ delta' = now
             /\ UNCHANGED <<idleFlag, stage, todo>>
  /\ UNCHANGED <<prio, listen, evVars, idleLoop, schedLock, call>>

Last == idx = Len(evs)

(* The tasks of the list that the broker compares in stage st.             *)
NotQueue(st) == CASE st = "wait" -> waitList [] st = "list" -> tcbList
                  [] st = "queue" -> {} \* mutant

NotWaitList(st) == CASE st = "wait" -> {} [] st = "list" -> tcbList
                     [] st = "queue" -> {t \in Task : Queued(t)} \* mutant

TasksOf(st) == CASE st = "wait" -> waitList [] st = "list" -> tcbList
                 [] st = "queue" -> {t \in Task : Queued(t)}

brokerFrame == <<running, prio, del, dispatch, idleLoop, schedLock, lag, call,
                 delta>>

(* An event addressed to a task activates it wherever it waits; unless it  *)
(* is the last event it is compared with no polled event.                  *)
BrokerAddressed ==
  /\ phase = "event"
  /\ evs[idx] \in Task
  /\ IF KTcbFromId(evs[idx])
     THEN ISchedulerTaskAddDescendingPriority(evs[idx])
     ELSE UNCHANGED <<tcbList, waitList, queue, state>>
  /\ IF Last
     THEN phase' = "compare" /\ stage' = "wait" /\ todo' = TasksOf("wait")'
     ELSE phase' = "cleanup" /\ UNCHANGED <<stage, todo>>
  /\ UNCHANGED <<brokerFrame, listen, evVars, idleFlag, idx>>

BrokerEvent ==
  /\ phase = "event"
  /\ evs[idx] \notin Task
  /\ phase' = "compare" /\ stage' = "wait" /\ todo' = TasksOf("wait")
  /\ UNCHANGED <<brokerFrame, tcbList, waitList, queue, state, listen, evVars,
                 idleFlag, idx>>

(* ISchedulerTaskListCompare, one task: its polled events are compared and *)
(* it is queued when one of them has occurred or timed out.                *)
BrokerCompare(t) ==
  /\ phase = "compare"
  /\ t \in todo /\ \A u \in todo : t <= u
  /\ LET L == ISchedulerTaskEventsCompare(listen[t], evs[idx], Last)
     IN /\ listen' = [listen EXCEPT ![t] = L]
        /\ IF stage # "queue" /\ Activated(L)
           THEN ISchedulerTaskAddDescendingPriority(t)
           ELSE UNCHANGED <<tcbList, waitList, queue, state>>
  /\ todo' = todo \ {t}
  /\ UNCHANGED <<brokerFrame, evVars, idleFlag, phase, idx, stage>>

(* The lists are compared in the order TcbWaitList, TcbList,               *)
(* ExecutionQueue; the last holds the tasks just activated as well.        *)
BrokerNextList ==
  /\ phase = "compare" /\ todo = {}
  /\ \/ stage = "wait" /\ stage' = "list" /\ todo' = TasksOf("list") /\ UNCHANGED phase
     \/ stage = "list" /\ stage' = "queue" /\ todo' = TasksOf("queue") /\ UNCHANGED phase
     \/ stage = "queue" /\ phase' = "cleanup" /\ UNCHANGED <<stage, todo>>
  /\ UNCHANGED <<brokerFrame, tcbList, waitList, queue, state, listen, evVars,
                 idleFlag, idx>>

(* EventLifeTimeIncrement of an emitted event: whether its life is over.   *)
(* The mock event has EVENT_FLAG_NO_TIMEOUT.                               *)
ExpiredOrMock(i) == evCnt[i] + delta >= EventLifeTime \* mutant

Expired(i) == evs[i] # Mock /\ evCnt[i] + delta >= EventLifeTime

(* The iterator's next position: a destroyed event closes the gap.         *)
IteratorSkips(i) == i + 1 \* mutant

ListIteratorNext(i) == IF Expired(i) THEN i ELSE i + 1

(* An EventEmit has found the event at i and is about to reset it.         *)
Resetting(i) == call # None /\ call.op = "reset" /\ EventFound(call.obj, i)

(* event_cleanup: the event ages and is destroyed at the end of its life;  *)
(* the last one ends the broker cycle and with it the tick.                *)
BrokerCleanup ==
  /\ phase = "cleanup"
  /\ IF Expired(idx)
     THEN evs' = RemoveAt(evs, idx) /\ evCnt' = RemoveAt(evCnt, idx)
     ELSE /\ evCnt' = [evCnt EXCEPT ![idx] = IF evs[idx] = Mock THEN @ ELSE @ + delta]
          /\ UNCHANGED evs
  /\ call' = IF Expired(idx) /\ Resetting(idx) THEN [call EXCEPT !.op = "stale"] ELSE call
  /\ IF Last
     THEN /\ phase' = "thread" /\ idx' = 1 /\ delta' = 0
          /\ idleFlag' = IdleFlagAfter(queue)
     ELSE /\ phase' = "event" /\ idx' = ListIteratorNext(idx)
          /\ UNCHANGED <<idleFlag, delta>>
  /\ stage' = "wait"
  /\ UNCHANGED <<running, prio, del, dispatch, idleLoop, schedLock, lag, tcbList,
                 waitList, queue, state, listen, todo>>
------------------------------------------------------------------------------
TaskCall ==
  \/ \E k \in Event, ms \in Timeout \cup {Inf} :
       \/ \E add \in BOOLEAN : TaskPoll(k, ms, add)
       \/ TaskPollAdd(k, ms)
  \/ \E k \in Event \cup {Sleep} : TaskPollRemove(k)
  \/ \E ms \in Timeout : TaskSleep(ms)
  \/ \E t \in Task, start \in BOOLEAN : TaskCreate(t, start)
  \/ \E t \in Deletable : TaskDelete(t)
  \/ \E t \in Known, mi \in NewMinor : TaskPrioritySet(t, mi)
  \/ Write
  \/ OsSchedulerLock
  \/ OsSchedulerUnlock

AnyCall ==
  \/ \E k \in Event : Emit(k)
  \/ \E t \in Known : TaskResume(t) \/ TaskNotify(t)

Tick == \E nested, locked \in BOOLEAN : OsTick(nested, locked)

Broker ==
  \/ BrokerAddressed
  \/ BrokerEvent
  \/ \E t \in Task : BrokerCompare(t)
  \/ BrokerNextList
  \/ BrokerCleanup

Next ==
  \/ TaskCall
  \/ AnyCall
  \/ \E tc \in 0 .. TickPeriod : ICoreTickInvoke(tc)
  \/ KernelTaskIdle
  \/ Tick
  \/ Broker

Spec == Init /\ [][Next]_vars

(* Fairness.  Interrupts are served: a requested dispatch is not nested    *)
(* in another interrupt for ever, and the broker, which runs with          *)
(* interrupts disabled, finishes.  Cooperative tasks finish their calls    *)
(* and return, and KernelTaskIdle is plain code; as ticks preempt them,    *)
(* the fairness of thread code is strong: it runs between two ticks.       *)
(* TimePasses: a tick period elapses again and again, in a handler or in   *)
(* the idle loop.                                                          *)
TimePasses ==
  \/ \E nested, locked \in BOOLEAN : ~dispatch /\ OsTick(nested, locked)
  \/ ICoreTickInvoke(TickPeriod)

Fairness ==
  /\ WF_vars(Broker)
  /\ SF_vars(KernelTaskIdle)
  /\ SF_vars(Write)
  /\ SF_vars(\E tc \in 0 .. TickPeriod : ICoreTickInvoke(tc))
  /\ SF_vars(dispatch /\ OsTick(FALSE, FALSE))
  /\ SF_vars(TimePasses)

FairSpec == Spec /\ Fairness
------------------------------------------------------------------------------
(* Properties.                                                             *)

(* Every task is in at most one of TcbList, TcbWaitList, ExecutionQueue    *)
(* and tcb_running, at most once, and tcb->state says which: ICoreSwitch-  *)
(* Task and ISchedulerTaskAddDescendingPriority move list nodes without    *)
(* checking where they are, so a second copy would corrupt two lists.      *)
OnePlace ==
  /\ \A i, j \in 1 .. Len(queue) : queue[i] = queue[j] => i = j
  /\ \A t \in Task :
       /\ t \in tcbList <=> state[t] = "IDLE"
       /\ t \in waitList <=> state[t] = "WAITING"
       /\ Queued(t) <=> state[t] = "ACTIVE"
       /\ t = running <=> state[t] = "RUNNING"

(* A task in TcbWaitList polls at least one event and a task in TcbList    *)
(* polls none: a task parked in the wrong list would never be woken by its *)
(* events, or would wait for nothing.                                      *)
ParkedByPolls ==
  /\ \A t \in waitList : Listening(t)
  /\ \A t \in tcbList : ~Listening(t)

(* "The Idle task is essential and cannot be deleted" (Task.c).             *)
IdleKept == state[Idle] # "DEAD"

(* The mock event stays at the head of EventList and occurs there once:    *)
(* the broker traps (while(1)) on an empty EventList.                      *)
MockStays ==
  /\ Len(evs) > 0
  /\ \A i \in 1 .. Len(evs) : evs[i] = Mock <=> i = 1

(* EventList holds at most two events of one hash, the second added by an  *)
(* EventEmit that an interrupt's emission of the same event came into, and *)
(* at most one while such an EventEmit is still to add its own; no two     *)
(* events polled by one task have the same hash.  So EventList is bounded  *)
(* by twice the number of hashes, however often events are emitted.        *)
CopiesBounded ==
  /\ \A i, j, l \in 1 .. Len(evs) :
       Hash[evs[i]] = Hash[evs[j]] /\ Hash[evs[j]] = Hash[evs[l]]
         => i = j \/ j = l \/ i = l
  /\ call # None /\ call.op = "add" =>
       \A i, j \in 1 .. Len(evs) :
         Hash[evs[i]] = Hash[call.obj] /\ Hash[evs[j]] = Hash[call.obj] => i = j
  /\ \A t \in Task : \A d, e \in Key :
       listen[t][d] # None /\ listen[t][e] # None /\ Hash[d] = Hash[e] => d = e

(* The broker stays within EventList, and visits the tasks of the list it  *)
(* is comparing only: the cached next node of the iterator is still there. *)
BrokerInBounds ==
  /\ phase # "thread" => idx \in 1 .. Len(evs)
  /\ phase = "compare" =>
       \A t \in todo : \/ stage = "wait" /\ t \in waitList
                       \/ stage = "list" /\ t \in tcbList
                       \/ stage = "queue" /\ Queued(t)

(* An ordinary event leaves EventList only after every parked or queued    *)
(* task that polls it has been told: event_cleanup never runs before the   *)
(* comparison with all the three lists.                                    *)
NoUnseenExpiry ==
  [][\A i \in 1 .. Len(evs) :
       evs[i] \in Event /\ Len(evs') < Len(evs) /\ i = idx =>
         \A t \in Task : listen[t][evs[i]] # None /\ t # running =>
           listen[t][evs[i]].occ]_vars

(* A task leaves the ExecutionQueue by being dispatched only, and becomes  *)
(* the running task only from there or as Idle: no activation is dropped.  *)
DispatchFromQueue ==
  [][/\ \A t \in Task : Queued(t) /\ ~Queued(t)' => running' = t
     /\ running' # running => Queued(running') \/ running' = Idle]_vars

(* The ExecutionQueue is in descending order of priority, so that its head *)
(* is the task to dispatch: ISchedulerTaskAddDescendingPriority keeps it,  *)
(* as long as no TaskPrioritySet hits a queued task.                       *)
QueueSorted ==
  \A i, j \in 1 .. Len(queue) : i < j => prio[queue[i]] >= prio[queue[j]]

(* A requested dispatch is served: the spin loop of ICoreTickInvoke ends.  *)
DispatchServed == dispatch ~> ~dispatch

(* A waiting task that polls an event with a timeout is woken, though the  *)
(* event may never come: the broker counts down every poll of TcbWaitList. *)
TimeoutWakes ==
  \A t \in Task :
    t \in waitList /\ (\E k \in Key : listen[t][k] # None /\ listen[t][k].life # Inf)
      ~> t \notin waitList

(* A waiting task is woken when an event it polls is in EventList, before  *)
(* the event can expire, whatever its timeout.                             *)
EmissionWakes ==
  \A t \in Task :
    t \in waitList /\ (\E k \in Event : listen[t][k] # None
                                    /\ \E i \in 1 .. Len(evs) : evs[i] = k)
      ~> t \notin waitList
=============================================================================
