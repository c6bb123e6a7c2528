# A verification project for the PriorRTOS kernel

PriorRTOS is a small cooperative real-time kernel in C: tasks with four priority
categories, a global event system by which tasks wait for each other and for
time-outs, software timers, ring-buffers, message queues, mailboxes and event groups,
a heap with pools, and a shell. This directory holds TLA+ modules for all of its parts
that compute or keep state, TLC runs on small instances, and TLAPS proofs for all
instances of nearly every safety property the runs check. Paths below are relative to
`source/kernel/src/` unless they say otherwise. The models follow
`config/PriorRTOSConfig.h`: cooperative scheduler, sorted lists, list integrity check
on, event life time of three ticks, no watchdog, no memory protection. Semaphores,
which it disables, are modelled all the same.

## 1. Inventory

| Component | State | Operations | Talks to |
|---|---|---|---|
| Core (`Core.c`) | kernel register: running TCB, flags (dispatch, idle, tick, kernel mode), nest counters, scheduler lock, run-time clock | tick, task switch, tick invocation, kernel mode, critical sections, OS clock | calls Scheduler and Task; called by the tick interrupt |
| Task (`Task.c`) | TCBs in `TcbList`, `TcbWaitList`; each with state, priority, flags, list of polled events | create, delete, poll, sleep, notify, resume, set priority | Event, List, Memory |
| Scheduler (`Scheduler.c`) | `ExecutionQueue` | broker cycle over events and tasks, insertion by priority | Event, Task, List |
| Event (`Event.c`) | `EventList` of emitted events; polled events in TCBs | emit, register, destroy, life time, hash | List, Memory |
| List (`List.c`) | head, tail, middle, size, sorted flag, lock; links in nodes | add at position / at node / sorted, remove, search, iterate, verify | used by everything |
| Ring-buffer (`Ringbuffer.c`) | buffer, two indices, count, read and write lock | write, read, dump, purge, count | Shell writes from an interrupt |
| Timer (`Timer.c`, `ktask/KernelTaskTimerUpdate.c`) | `TimerList`: state, count, interval, parameter | create, delete, start, stop, pause, reset, update by a kernel task | Core's clock, callbacks of the application |
| Memory (`Memory.c`) | `OsHeap`, pool table | pools: create, format, delete; allocate, free, reallocate; kernel objects | Core's kernel mode; every object |
| Message, Mailbox, Event group, Semaphore (`Message.c`, ...) | their own object lists, each object with a queue, pend counters, a register or a count | create, delete, and calls that act or register a poll, by tasks and by interrupts | Task, Event, List, IdType |
| Object IDs (`IdType.c`) | a pool of numbers per group; lists of IDs | request, fields of an ID, add to and take from a list | List, Message, Mailbox |
| Shell (`Shell.c`) | receive ring-buffer, line buffer, table of commands | receive, parse, split, execute, register | Ring-buffer, Task, Memory, the debug UART |
| Logger, Convert, CRC, Fletcher, RecursiveLock | - | text, arithmetic, a lock that nobody uses | Event uses Fletcher |
| Ports | - | interrupt enable, timer, UART | Core, Shell |

The hard behaviours:

* **Ticks and interrupts against tasks.** A cooperative task is not pre-empted by
  tasks, but the tick, which runs the broker and may move any TCB, comes between any
  two of its instructions outside critical sections. So do interrupts that emit events.
* **Iterating while changing.** The broker moves tasks between the lists and destroys
  events of the list it iterates over; the timer update calls callbacks that create and
  delete timers.
* **Time.** Life times and time-outs are counted in broker cycles of varying length;
  the clock starts again from 0 every hour; timers are updated with the difference of
  two clock reads.
* **Identity by hash.** Events are looked up by a 16-bit hash.
* **Check, then register.** A call that cannot go on registers a poll; what it waits for
  may happen between its check and the registration, in an interrupt.
* **Nest counters without protection.** Critical sections, kernel mode and interrupt
  nesting are counted by tasks and interrupts of several levels in plain variables.
* **Partial failure at start-up.** A dozen modules are initialised in a row, each of
  which may fail, while the UART already receives.
* **Progress.** A task waits for a tick by spinning; the broker is left out of ticks
  that find a list locked; an allocation that fails does not return.

What makes the parts correct: a TCB is in the one list its state says and is woken by
what it polls; the queue is in priority order and no activation gets lost; no event
dies before those who wait for it were compared with it, and no time-out is missed; the pointers of a list are those of a list; a
ring-buffer is a FIFO; timers overflow neither early nor late by more than an update;
allocations do not overlap and freed memory comes back; no task waits for what has
already happened; nobody is interrupted in a critical section; IDs are unique; what is
typed reaches the shell. `PROJECT.json` lists under
`hazards` where in the code each of these could go wrong.

## 2. Modules

| Module | Models | Kind |
|---|---|---|
| `PriorKernel` | Core, Task, Scheduler, Event, idle task | state machine, properties, fairness |
| `KernelAge` | `PriorKernel` with a clock per poll (history variable) | extension |
| `MCKernel`, `MCKernelAge` | constants of their instances | MC modules |
| `LinkedList` | List, on real pointers | state machine, properties |
| `RingBuffer` / `Fifo` | Ring-buffer / what it promises | refinement pair |
| `Timers`, `MCTimers` | Timer, timer update task, OS clock; `MCTimers` for `find_iterator` | state machine, MC module |
| `Memory` | Memory, kernel mode | state machine |
| `SystemCall` | the macros of `SystemCall.h` and the access blocks of `List.h`, on top of `PriorKernel` | extension |
| `Message`, `Mailbox`, `Eventgroup`, `Semaphore` | the four kinds of objects, on top of `SystemCall` | state machines, properties |
| `Itc` | their composition: one kind of object per behaviour | composition, properties |
| `MCItc` | constants of its instance | MC module |
| `CritSect` | critical sections, kernel mode, interrupt nesting | state machine, properties |
| `RunTime` | the OS clock and the run time of tasks | state machine, properties |
| `Startup` | OsInit, OsStart, OsStop, the receive interrupt | state machine, properties |
| `Shell` | the shell's input, from the interrupt to the executing task | state machine, properties |
| `Ids` | IDs, ID lists, multicast | state machine, properties |
| `Locks` | the lock byte of lists and nodes, RecursiveLock | state machine, properties |
| `ListWhole` | swap, move, merge and destroy of lists | state machine, properties |
| `Algorithms` | CRC, Fletcher, conversions, split of a line, table of commands, prescaler | functions against references |
| `MCServices` | one instance of the twelve modules that work on their own | MC module |
| `KernelProofs`, `KernelAgeProofs` | proofs about `PriorKernel`, and about `KernelAge` on top of them | proofs |
| `RingProofs`, `ListProofs`, `TimerProofs`, `MemoryProofs` | proofs about `RingBuffer`, `LinkedList`, `Timers`, `Memory` | proofs |
| `ItcProofs` | proofs about `Itc`, on top of the kernel's | proofs |
| `ServiceProofs` | proofs about `Startup`, `Shell`, `Ids`, `Locks`, `RunTime`, `CritSect` | proofs |

Definitions with a comment *mutant* are plausible wrong versions of the definition
after them. They take part in no specification: each is put in the place of the
definition to see that a property notices.

### PriorKernel

State: `tcbList`, `waitList` and `queue` are the three task lists, `running` is
`tcb_running`. The first two are kept in ID order and only searched by ID, so they are
sets; the queue is a sequence. Per task there are `state`, `prio`, the delete flag `del`
and the polled events `listen`; `evs` and `evCnt`, two parallel sequences, are `EventList`
and the life times, since one event may be in it twice.
`dispatch`, `idleFlag`, `schedLock` are fields of the kernel register. `lag` is the
run-time the broker has not seen.

Interleaving: calls of the running task are steps while `phase = "thread"`; `TaskDelete`
and `TaskPrioritySet` are two steps, look-up and write, because a tick in between may
move the TCB. `Emit`, `TaskResume`, `TaskNotify` may come from an interrupt. `EventEmit`
searches `EventList`, then allocates and adds an event or resets the life time of the one
it found, without a critical section around the three: it is either uninterrupted
(`EmitAtOnce`) or cut after the search (`EmitBegin`, then `Write`), in a task or in an
interrupt (`arg` of `call`). Other emissions of the same event may come in between, which
gives two copies of it, and so may the broker, which may destroy the event found:
`call.op` is then `"stale"` and the reset writes to freed memory. The model has one cut
emission at a time; n interrupts nested in each other's emission could make n + 1 copies. `OsTick`
is the tick up to the broker, with `nested` (the tick came inside another interrupt) and
`locked` (the interrupted call holds one of the three list locks) as inputs; the broker
then runs one event, one list, one task at a time (`BrokerAddressed`, `BrokerEvent`,
`BrokerCompare`, `BrokerNextList`, `BrokerCleanup`) with the iterator's snapshot in
`idx` and `todo`. Nothing else runs during these steps, since the tick disables
interrupts; they are split so that the properties can look at the middle of a cycle.

Abstractions: an event is its (source, code) pair, a hash is a number given by the
constant `Hash`. Time is counted in tick periods. The conversion of an infinite
time-out from milliseconds is undefined behaviour in `Convert.c:69`, and may yield
`Inf` or `Wrapped`. The clock does not start again at the hour (`AddTime`; `RunTime` and
`Timers` model that). The early return of
`ICoreSwitchTask` outside kernel mode is not modelled: the tick enters kernel mode
itself, and the way the flag can be lost is the subject of `Memory`.

### LinkedList

Head, tail, middle, size, sorted flag of each list, `next` and `prev` of each node, and
the history variable `contents`, what the list should hold. Calls that hold the list's
lock are one step. `ListNodeAddSorted` is not protected (its lock is commented out), so
its walk takes a step per node; interrupts may come in between unless the caller is in
a critical section. The constants say which lists interrupts add to (`Given`) and remove
from (`Taken`) and which are walked outside critical sections (`Unguarded`). `held` is
the lock that `ListIntegrityVerify` leaves on a list it takes for corrupt. A detail the
model keeps: `ListNodeRemove` asks for the size under its own lock and gets 0, so that
`middle` is never corrected on removal.

### RingBuffer and Fifo

One access to shared memory per step, `dcount++` and `dcount--` as load and store, in
two contexts: a task and an interrupt that runs to its end. `Contents` maps indices,
count and the reader's position to the abstract queue of `Fifo`.

### Timers

The fields of each timer, the clock, and the update task: the two clock reads
(`UpdateBegin`, `UpdateRead`), then per timer the addition up to the callback
(`KTimerUpdate`, `KTimerSkip`) and the rest after it (`CallbackReturns`). All API calls
may be made by tasks between updates and by callbacks during one; ticks come at any
time. `TimerStartAll`, `TimerStopAll` and `TimerResetAll` look at the head of the list
again and again: from then on only ticks happen. A callback may delete any timer. If it
deletes its own or the iterator's next one, the update goes on with a freed node (`upd` is
`"dangling"`): its behaviour is undefined from there and the model says no more of it.

### Memory

Each block of the heap is represented by its first word: free, the size of the
allocation that starts there, or data; that is all the code's walks look at.
`KMemFreeObject` takes a step for each of setting the flag, counting the nesting, the
two `MemFree` calls and the same back, with interrupts that create or destroy objects in
between. `Windows` says whether interrupts may also come between the flag and the
counter of `KCoreKernelModeEnter` and `Exit`. `MemReAlloc` copies what `MemAllocSizeGet`
says, which is the size of the pool's first allocation. `Accounting` compares `mem_left`
with the blocks in use exactly, not modulo the width of `U32_t`, except for a full pool
whose size is no multiple of a block (section 6).

### SystemCall, Message, Mailbox, Eventgroup, Semaphore

A call of the running task is a sequence of steps: handle an earlier poll, look the node
up, lock it, check the object, act or register a poll, unlock (`pc` and `Enter`,
`LockNode`, the check and act steps, `UnlockNode`). Ticks, the broker and interrupts come
in between. A call made by an interrupt is one step; its `EventEmit` may be refused
because the interrupted code holds the lock of `EventList` (`IsrRefused`). `node` is the
static variable of the access macros, one for each calling function. `lost` remembers the
events that were refused or that expired while the running task polled them: the broker
does not compare the running task. Here `EventEmit` is one step: the object's write lock
is held around it, so that an interrupt cannot emit the same object's events in between.

`Message` has `mq`, the queues, with a sender that polls RECEIVE and an owner that polls
SEND; `Mailbox` the pend counters, at the index `address * width` of the code; `Eventgroup`
the register; `Semaphore` the count and the pointer to the owner. Each composes with all
of `PriorKernel`, so that what a poll is told goes through the broker, and the kernel's
own `QueueSorted` and `NoUnseenExpiry` are checked in this composition.

A mailbox may have any width, masks may overlap and hashes may collide. The code then
loses wake-ups and counts wrongly; the properties speak of the addresses with a counter of
their own (`OwnCounter`), the masks that no other one overlaps (`OwnFlags`) and the events
whose hash no other one has (`OwnHash`), each object and event on its own.

### The services

`MCServices` puts twelve modules that do not share state into one instance; a behaviour
runs one of them, chosen in `Init`: `RingBuffer`, `LinkedList`, `Memory` and `Timers`
described above, and these.

* `CritSect`: the code of a call is a list of operations, a context is a position in such
  a list, and a nest counter is read and written in two steps. The task allocates or frees
  an object; it and the interrupts are interrupted by the tick, which has the highest
  level, and by interrupts of lower levels, which take a lock or, as their `EventEmit` does,
  allocate an object in kernel mode, on ports where an interrupt masks the others
  (ATMega) and on ports with levels (PIC32, STM32).
* `RunTime`: the timer counts, the tick adds a period or, when the end of a task forced
  it, the time `ICoreTickInvoke` has read before. `OsRunTimeGet` reads hours and
  microseconds in two steps.
* `Startup`: the order of the inits of `OsInit` with what each uses and what its failure
  does (return, hang, go on); characters may be received from the moment the UART is set
  up; the application ignores the result and starts the system; `OsStop` and another
  `OsInit` may follow.
* `Shell`: characters come in bursts; the shell task polls, counts, reads, and gathers a
  line in `line` at `index`; it is parked and woken by the tick as `PriorKernel` does it,
  here in one step.
* `Ids`: `KIdRequest` per group up to its roll-over mark; an ID list and a multicast that
  takes from it and stops at a failure; it goes on after a queue that answered with a poll,
  to which nothing was sent. `KIdRequest` is one step, since only tasks create objects.
* `Locks`: lock and unlock of the byte of a list and of a node by a task and an
  interrupt; the print of a list, which keeps its lock; the recursive lock.
* `ListWhole`: the pointers of two lists with all nodes, and the calls on whole lists.
  A write through NULL ends the behaviour (`links.ok`).
* `Algorithms`: one input per state, and a part of `FunctionsRight` per function.

## 3. Runs

| Run | Instance | Checks |
|---|---|---|
| `kernel_calls` | Idle and two tasks, one of them created during the run, both deletable and re-prioritised, scheduler lock; 5.2 million states | `OnePlace`, `BrokerInBounds`, `DispatchFromQueue` |
| `kernel_live` | Idle and one task, one event with the hash of the sleep event, clock per poll, with fairness | `TypeOK`, `NotLate`, `CopiesBounded`, `MockStays`, `ParkedByPolls`, `TimeoutWakes`, `EmissionWakes`, `DispatchServed` |
| `itc` | Idle and two tasks, in turn a queue of one message, a mailbox with two owners, an event group with one mask, a semaphore; interrupts make the same calls; 4.0 million states | `NoWakeupLost`, `CountersFit`, `Exclusive`, `NodesReleased`, and `QueueSorted`, `NoUnseenExpiry` of the kernel below |
| `services` | twelve modules, each on its own; 1.3 million states | ring-buffer of three values: `RefinesFifo`, `IndicesAgree`, `CallFits`; two lists and four nodes, interrupts on one of the lists: `Intact`, `SortedOrder`, `SearchFinds`, `NeverHeld`; six heap blocks and three pools: `PoolsSound`, `HeapIsAllocs`, `HangsWhenFull`; two timers and an hour of four ticks: `NotTooEarly`, `NotTooLate`; the others: `FunctionsRight`, `IdsUnique`, `SectionsNest`, `TimeFits`, `StartsSafely`, `LocksKept`, `NoneStranded`, `ListsKept` |
| `find_count`, `find_list_race`, `find_leak`, `find_node`, `find_idle`, `find_destroy`, `find_line`, `find_iterator` | section 6 | violated |

Several of these are conjunctions of named parts; the parts of

* `PoolsSound`: allocations share no block (`Apart`), and the free and used space that is
  reported is exact (`Accounting`), the free space with the exception of a full pool of odd
  size;
* `NoWakeupLost`: a task that waits for a message or for space (`MessageTold`), for an
  address of a mailbox (`MailboxTold`) or for flags (`EventgroupTold`) has been told when
  they are there;
* `FunctionsRight`: the CRC table divides by the polynomial (`CrcDivides`), Fletcher sums
  detect a changed byte (`FletcherDetects`), conversions are read back
  (`ConversionsReadBack`), a line is split at its blanks (`SplitReads`), commands are found
  (`CommandsFound`), and a prescaler is found exactly when one fits, the smallest that does
  (`PrescalerFits`; for 1 Hz at 72 MHz there is none);
* `SectionsNest`: a critical section is not interrupted (`SectionAlone`), with one
  exception: that of an interrupt other than the tick, on a port with levels, when a
  context below it had counted its own section and not yet disabled interrupts; nest
  counters return to zero (`RegBalanced`); kernel mode is held (`ModeHeld`) but for the
  window of `find_leak`, which opens for a task that frees an object and, in the same case
  as the exception of `SectionAlone`, for an interrupt that allocates one;
* `TimeFits`: the run time is not ahead of the clock by more than the ticks that race with
  `ICoreTickInvoke` (`RunTimeNotAhead`), readings lie in the call's interval
  (`ReadingFits`), a task's time is not more than it had (`TaskTimeFits`);
* `StartsSafely`: inits use only what is ready (`InitUsesReady`), ticks are served only by
  an initialised kernel (`TicksAfterInit`), a character finds a ring-buffer unless
  `KShellInit` failed (`ReceivesAfterInit`);
* `LocksKept`: a writer is alone and a free lock can be had (`WriterAlone`), the recursive
  lock counts (`RecursiveCounts`).

`CountersFit` and `Exclusive` say that mailbox counters and semaphores are checked and taken
without anyone in between; `CopiesBounded` that `EventList` holds at most two copies of an
event, however often it is emitted, and the second only because an `EventEmit` was cut;
`NoneStranded` that typed characters do not lie unread while the shell is parked; `ListsKept`
that lists stay lists under swaps, moves and merges. Each names its exceptions, which section
6 explains.

**Bounds and why they are enough.** Two application tasks are the least for which
the queue has an order and for which one task's wake-up happens during the comparison of
another; three lists and three tasks make every move of the broker possible. One ordinary
event beside the mock event, sleep and the addressed events gives an `EventList` of up
to four, with expiry at its head, middle and tail. `EventLifeTime` is one tick instead
of three: a cycle may take no time, so that an event is seen in a first and in later cycles
and in the one in which it expires, and it does expire while a task that polls it runs.
In `kernel_live` no addressed events are emitted (`Known = {}`) and one task is enough, for its
properties are about each task or event on its own. `MaxLag` caps the time between two broker cycles and every
counter of life time; it is at least every time-out and life time, and a larger value
behaves as the cap does: expired. `MaxLock` bounds the nesting of the scheduler lock.
Four nodes give the removal of a head, a tail, and both kinds of middle node with a rest
of more than two, and a sorted insertion in front, between and behind. A ring of three
values wraps in the middle of a call and can be full, empty and in between. With two
timers the iterator has a current and a next timer that can each be deleted or created;
an hour of four ticks (`HourLength`) makes the clock roll over again and again, `MaxLag`
bounds the ticks between updates, `TimerWidth` stands for 2^32, and intervals of three ticks
exceed the two updates by which `NotTooEarly` lets a timer be early, so that it can fail.
Six heap blocks hold an object pool of three blocks, enough for an object with data, and
user pools of sizes that are and are not multiples of a block; `MemWidth` stands for the
2^32 at which `mem_left` wraps.

In `itc` a queue of one message is full and empty within two calls, two owners are the
least for which a posted address is half pended, and the interrupts' calls come between
any two steps of a task's; `Addr` has an address beyond the size. All masks of the event
group are disjoint (there is one): with overlapping masks the code loses wake-ups
(section 6). In `services` every constant that bounds a table, counter or clock is small
enough for the limit to be met: four numbers per ID group, three readers of a lock, an
hour of nine counts (four periods of the tick and one more, so that both a tick and a
forced tick turn it), a task, an interrupt and the tick in one another (`MaxDepth`; there are two interrupt
levels), lines longer than the line buffer's limit, four
nodes in two lists. `MaxClock`, `MaxDepth`, `MaxBoots`, `MaxTyped`, `MaxLine` bound what is
explored and nothing else.

`services` is run without a deadlock check because a failed start-up, a write through NULL, a
dangling iterator and the bounds on histories end behaviours, and because `KMemAllocObject`
really stops the system (`while(1)`), which `HangsWhenFull` is about; so are, each for the
reason among these that applies, `find_leak`, `find_iterator`, `find_line` and `find_destroy`.

## 4. Fairness

`AgeFairSpec`, which is `AgeSpec /\ Fairness`, is used by `kernel_live` alone.

* `WF(Broker)`: the broker runs with interrupts disabled and finishes.
* `SF(dispatch /\ OsTick(FALSE, FALSE))`: the tick keeps coming while a task spins in
  `ICoreTickInvoke`, and an interrupt is not nested in another one for ever; while the
  task spins it holds no list lock.
* `SF(ICoreTickInvoke)`, `SF(Write)`, `SF(KernelTaskIdle)`: cooperative tasks finish
  their calls and return, which is the contract of the cooperative scheduler. The
  fairness is strong because ticks interrupt this code again and again.
* `SF(TimePasses)`: run-time advances, by ticks or by the time a task took.

No fairness is assumed of what applications or interrupts do (polls, emissions,
notifications), and `MaxLock = 0` in this run: a scheduler that stays locked wakes
nobody.

## 5. Proofs

All theorems are of the form `Spec => []P` or `Spec => [][A]_vars` (or a refinement) for every value of the
constants allowed by the `ASSUME`s of the component's module.

* **KernelProofs**, types: `TypeCorrect`, `MockStaysForever`. The inductive invariant is
  `KernelTypes = TypeOK /\ MockStays /\ IdxInBounds`: an event's type at `evs[idx]` needs
  the index in bounds, which needs the list non-empty, which is the mock event's merit.
* **KernelProofs**, lists: `OnePlaceAlways`, `ParkedByPollsAlways`, `BrokerStaysInBounds`,
  `DispatchedFromQueue`. `KernelLists` strengthens `OnePlace` and `ParkedByPolls` by `TodoInList` (what
  the broker is still to visit is in the list it visits) and `UnparkedPolls` (Idle,
  which is loaded wherever it is when the queue is empty, polls nothing, and neither
  does a task outside all lists). That a task leaves a list as it is queued, and the
  broker goes on with the rest of its snapshot, is what makes the iteration safe.
* **KernelProofs**, events: `CopiesAlwaysBounded`, `NoUnseenExpiryAlways` (`AllSeen`: while the broker handles an event each task
  is the running one, has been told of the event, or is in a list still to be visited), and `QueueSortedAlways`, without
  `TaskPrioritySet`.
* **KernelAgeProofs**: `NeverLate`. The clock of a poll and the counter the broker keeps
  are compared in every state, not only between cycles: `AgeInv` says that the clock of
  every poll whose time runs is not ahead of its counter, or ahead by the delta that the
  broker has yet to count for its task. Whose delta has been counted (`Charged`) depends on
  the event, the list and the task that the broker is at, since it counts in the
  comparison with the last event only; that every parked or queued task is visited then,
  although tasks are moved from list to list, rests on `KernelLists`.
* **RingProofs**: `RingIsFifo`, the refinement of `Fifo`, `IndicesAlwaysAgree` and
  `CallAlwaysFits`, for
  one context whose calls ask for no more than the count says (`Alone`). `RingInv` ties
  indices, count, locks and program position together.
* **ListProofs**: `ListsIntact`, `ListsSorted`, if no unguarded list is used by
  interrupts (`Guarded`). `ListInv` adds to `Intact` and `SortedOrder` that every node is
  at one position of one list (`OnePosition`) and where the walk of `ListNodeAddSorted`
  is (`Walking`: all nodes before it are smaller than the new one). Lemmas describe the
  insertion into and removal from the represented sequence once for all calls.
  `ListSearchFinds` and `ListsNeverHeld` are about walks along the pointers, which are
  recursive functions over the naturals: a lemma shows that such a function exists (by the
  union of its finite initial parts, with the least counterexample in place of an
  induction scheme) and another that the walk visits the represented sequence. The search
  stops early by the sorted flag, and starts anywhere in the list or outside it. The
  integrity check counts in a byte, so `ListsNeverHeld` needs fewer nodes than it counts.
* **TimerProofs**: `TimersNeverLate`, `TimersNeverEarly`.
  `TimerInv` keeps the iterator on the list unless a callback has deleted what it points at, and relates each timer's count to the time it
  has really run: they differ by at most the time since the last update, and by the credit
  a timer gets when a callback starts it. Both need intervals that stay below the
  word's limit (`IntervalsFit`; longer ones overflow, section 6).
* **MemoryProofs**: `PoolsAlwaysSound`, `HeapAlwaysIsAllocs`, `HangsOnlyWhenFull`, for every
  heap, pool table and width of `U32_t`, when no interrupt comes inside
  `KCoreKernelModeEnter` and `Exit` (`~Windows`: `find_leak` shows that it is needed). The
  exactness of the free space is claimed of every pool but a full one of odd size.
  `MemoryInv` says what the first words on the heap are, block for block, in terms of the
  allocations; that `mem_left` is the size of the pool less what they span; and where an
  object's two frees are. The first-fit walk is a recursive function; the proof follows
  it from one allocation to the next.
* **ItcProofs**: `NodesAlwaysReleased`, `CountersAlwaysFit`, `ExclusiveAlways`,
  `NoWakeupEverLost`, for the composition of the objects with all of `PriorKernel`.
  Invariants: the kernel's own (`KernelTypes`, `KernelLists`, `AllSeen`), that the locked node
  is the one of the call in progress (`LockOfCall`), and per kind of object what the step the
  call is at has established. A wake-up is followed from the object to the emitted event,
  through the broker's cycle, to the poll. All four need one object of a kind (`Lone`;
  `find_node` shows what two do) and nothing else: width, masks and hashes are any, and the
  properties say for which addresses, masks and events they hold. `NodesAlwaysReleased` has an
  invariant `LockInv` that does without the kernel's, the counts one (`CountInv`) that does
  without the events.
* **ServiceProofs**: each theorem is about the initial states and steps of one part, which
  every behaviour of `MCServices` takes or stutters.
  `AlwaysStartsSafely` (what is ready after each init, which section is open in each
  state); `NoneEverStranded` (`Wakes`: a parked shell with characters has an event, an
  activation or a recorded loss); `IdsAlwaysUnique` (`Pools`, `GivenOnce`: every
  number given is below the pool's next one);
  `LocksAlwaysKept` (the byte is the number of holders, counted as the cardinality of the
  set of their grants); `TimeAlwaysFits` (`SystemTime`: what `ICoreTickInvoke` has read has
  passed since the last tick, or a racing tick allows for it; `TaskTime`, `Reads`). The
  attempt to prove the last one showed that `TaskTimeFits` was wrong as first stated: a
  task dispatched just after the turn of the hour is charged too much as well. The
  property now says so, and the instance is large enough to show it.
  `SectionsAlwaysNest` is about stacks of any number of contexts and any table of
  interrupt levels in which the tick's is the highest. `CritInv(base)` has a ghost value:
  `base[i]` are the counters as context `i` found them. What a context has added to them
  is a function of its position in its code (`Held`); every context that is interrupted
  has left its counters where the next one found them, whatever it holds in its register
  (`Interrupted`, `Current`), so that the second half of its `++` or `--` writes the right
  value when it is resumed. Whether interrupts are enabled follows from what the running
  context found and where it stands (`Open`), and the mode flag from the positions of all
  contexts (`Flag`). The specification has no variable for `base`: the theorem is
  proved of `\E base : CritInv(base)`, with a longer `base` for a new interrupt. The proof
  looks at the literal list of operations of each call.

Only model-checked are

* the liveness properties (`TimeoutWakes`, `EmissionWakes`, `DispatchServed`):
  liveness under fairness is out of the prover's reach;
* `FunctionsRight`: what the checksums, conversions and the split compute is defined by
  recursion over the input and by bit operations, and would need an induction over data;
* `ListsKept`: `ListDestroy` and the walks along whole lists of `ListWhole` are recursive.

`QueueSorted` and `NoUnseenExpiry` are proved for `PriorKernel` and checked again under the
system calls.

## 6. Disagreements between the code and its documentation

With a run:

* `find_count`: an interrupt that writes between load and store of a reader's
  `dcount--` leaves the count wrong for good (Ringbuffer.c:202).
* `find_list_race`: `TaskCreate` inserts into `TcbList` unprotected; a tick that takes
  the node it stands at to the execution queue makes it link into the wrong place
  (List.c:522, Task.c:167).
* `find_leak`: an interrupt inside `KCoreKernelModeEnter` clears the flag, and `MemFree`
  refuses to free the kernel object of the interrupted task (Core.c:869).
* `find_node`: the node of an access block is a static variable, so that an interrupt
  that posts to another mailbox makes the interrupted task unlock the wrong one, and its
  own mailbox stays locked (inc/List.h:315).
* `find_idle`: `TaskDelete` of Idle is accepted, and the next switch from it frees its TCB:
  the guard of Core.c:800 joins its conditions with an OR and Idle is of CAT_LOW (comments
  at Core.c:805 and Task.c:98-99). What Idle does after that is undefined, and
  `kernel_calls` does not delete it.
* `find_iterator`: a timer's callback deletes its timer or the next one, and the update goes
  on with a freed node (Timer.c:108; `include/Timer.h:126`).
* `find_destroy`: `ListDestroy` removes each node twice and writes through NULL, except for
  lists of no and of two nodes (List.c:88; `inc/List.h:145`).
* `find_line`: the index of the line is never reset, so that the second line and all after it
  are handed over empty (Shell.c:341; comment at Shell.c:378).

The following are visible in one or two calls, or contradict what the code could mean
so directly that a run would add nothing. The models contain them, and where a property
excepts one its comment says so.

Tasks, core and events:

* `TaskPoll` with `add_poll` never reports the event (Task.c:372; `include/Task.h:370`).
* `TaskDelete` only sets a flag; a waiting task that is deleted is woken and run again
  before it goes (`include/Task.h:148` says it cannot be scheduled any more).
* A queued task whose priority is changed stays where it is in the queue, so that
  `QueueSorted` holds without `TaskPrioritySet` only.
* A poll whose task is woken in a cycle is compared twice in it and may time out early.
* An event expires unseen by the running task when that task runs longer than the
  event's life; an `EventEmit` in an interrupt is refused while the interrupted code holds
  the lock of `EventList`. Search and insertion of `EventEmit` are not atomic, so that
  an interrupt in between may put the same event into `EventList` twice, which wakes those
  who poll it twice; a tick in between may destroy the event whose life time is then reset,
  in freed memory (Event.c:138-141).
* `EventListDestroy` would read nodes it has freed; it is called with empty lists only.
  `ITaskEventHandle` unlocks a list also when its lock was refused.
* A tick inside `ICoreTickInvoke` counts its time twice. At the turn of the hour the
  microseconds beyond it are lost, the absolute difference charges a task nearly an hour
  (Task.c, `KTaskRunTimeUpdate`; a task dispatched just after the turn too, for
  microsecond 0 is skipped and the last one of the hour is kept), and a reading of `OsRunTimeGet` may be an hour early.
* On ports with interrupt levels an interrupt between the counter and the disable of
  `OsCritSectBegin` finds itself in an inner section and disables nothing. A tick inside the kernel mode of that
  interrupt's `EventEmit` may then clear the mode flag, so that `MemAlloc` refuses and
  `KMemAllocObject` never returns.
* The table of prescalers has 65 for 64, and at 72 MHz no prescaler fits 1 Hz, for which
  the search does not end. `KTaskCalculateInvPriority` is not the inverse (and unused).

Start-up:

* `OsInit` compares results with `OS_RES_CRIT_ERROR` only: the other errors of `KMemInit`
  and `KTimerInit` slip through. Its error returns leave the critical section begun, so
  that a system started all the same (`main.c` ignores the result) hangs at its first
  tick. The result of `KShellInit` is ignored, and the receive interrupt then writes
  to a NULL ring-buffer. `KMessageInit` is never called, so that message queues are
  requested from ID group 0. `OsStop` leaves the tick running.

Objects:

* `MessageQueueCreate` returns a result where `include/Message.h:71` promises an ID, and
  adds the queue to the list before it initialises the queue's own list (Message.c:53).
* `MessageMulticast` drops the ID of the queue at which it fails, and goes on when a queue
  answered with a poll (Message.c:165), so that it may return OK though that queue got
  nothing (`include/Message.h:117`).
* A mailbox wider than one byte indexes its counters and events by `address * width`, past
  their ends, and the addresses that share a counter lose wake-ups. `MailboxPend` handles the PEND event and registers the POST event. An owner
  may pend twice and take another's turn.
* `EventgroupFlagsRequireSet` is satisfied by one flag where it should need all, and events
  are told apart by their exact mask: with overlapping masks a wake-up is lost. A flag set
  by an interrupt is dropped when the group is locked.
* Two events with one hash are one to `EventEmit`: while one is in `EventList`, the emission
  of the other only renews its life time, and who waits for the other is not told.
* `SemaphoreRelease` emits no event and clears the pointer to the owner, and a condition
  `|| SEMAPHORE_TYPE_MUTEX_RECURSIVE` is always true.
* `IdIsInGroup` compares as if a group were an ID. The recursive lock never grants a read
  lock, and two writers may hold it.

Lists, ring-buffers, timers, memory:

* `ListNodeSwap` of neighbours makes self-loops that the integrity check does not see;
  `ListMerge` writes through NULL or leaves a list locked; `ListNodeMove` to a locked list loses
  the node; `ListPrintToBuffer` never unlocks.
* `RingbufRead` of more than there is moves `read_index` too far; `RingbufPurge` can
  keep the read lock and still returns OK; `RingbufDump` reads nothing; a failed look-up
  is dereferenced (`Ringbuffer.c:137`). `RingbufSearchIndex` leaves cells out: it returns the index after the last occurrence it
  sees, or 0, where `include/Ringbuffer.h:206` promises the index of the first one, and may
  miss one; the endless loop its TODO warns of (Ringbuffer.c:268) does not happen.
* A timer stopped by its own callback is set running again when its ON bit is set; the
  iteration count is OR-ed and does not count down; `TimerStartAll`, `TimerStopAll`,
  `TimerResetAll` do not return (`include/Timer.h:203` says they act on all timers); intervals over 71 minutes overflow; the update over a full hour adds
  a wrong time (`Core.c:469`), which `NotTooEarly` excepts.
* `MemAllocSizeGet` looks at the pool's first allocation whatever it is asked about, so
  that `MemReAlloc` copies too little or past the block;
  `MemPoolCreate` reads one entry past the pool table when all pools are used. An
  allocation of the last block of a pool whose size is no multiple of a block takes more
  than is left (Memory.c:274, 318): `mem_left` wraps, and `MemPoolFreeSpaceGet` says of a
  full pool that some 4 GB are available (`include/Memory.h:128`).

Shell, conversions, ports:

* `ShellRxBuffer` has 200 cells and its ring-buffer is created with 400. The index of the
  line is advanced twice by a read of several characters; nothing bounds it. The table of tokens is allocated in bytes,
  checked for NULL after its use, and `help` with two tokens reads a third. Of two
  commands of one name the first is executed and the last is explained. The two limits of
  `IShellSplitLine` are swapped.
* `ConvertIntToString` stops after a cell that happened to hold a blank.
* PIC32: `bufFull` of the UART handler is never reset, and the timer period is a product
  that does not fit 16 bits. AT32UC3A ignores the arguments of its timer. The ATMega
  interrupt calls a `CoreTick` that does not exist.

## 7. Not modelled

The ports' registers and polling UART functions, the wording of log lines and of the
shell's answers, the configuration headers, tests and examples: hardware, text and
constants without behaviour of their own. The pre-emptive scheduler is an empty function in
the code. The watchdog task and memory protection are compiled out. `RingbufDelete` and
getters of single fields change nothing that the properties look at. `RingbufSearchIndex`
only reads, and does not compute what its header says (section 6). Within the modelled
parts: one emission at a time is cut in `PriorKernel` and none in the system calls; the
kernel's clock does not start again at the hour; memory contents beyond the first word of a
block are left out; the service modules are not composed with each other, since each has state of its own
and meets the others through calls that are modelled by what they do.

## 8. Plan

1. `PriorKernel`, `LinkedList`, `RingBuffer`, `Timers`, `Memory` - done.
2. System calls over events: `Message`, `Mailbox`, `Eventgroup`, `Semaphore` - done.
3. Critical sections, clock, start-up, shell, IDs, locks, whole lists, pure functions -
   done.
4. Inductive invariants and proofs for lists, timers, memory, objects and services - done.
5. `SectionsNest` and `NotLate` as theorems - done.
6. Left: the composition of `CritSect` with the modules that take its sections for
   granted.
