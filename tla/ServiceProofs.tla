----------------------------- MODULE ServiceProofs -----------------------------
(* Proofs about the parts of the kernel that work on their own: the start of *)
(* the system, the object IDs, the run time, the locks, the input of the     *)
(* shell, and the nesting of critical sections in tasks and interrupts.      *)
(* Every theorem is about the initial states and steps of the part, which a  *)
(* behaviour of MCServices takes or stutters.                                *)
EXTENDS Ids, RunTime, Startup, Locks, Shell, CritSect, FiniteSetTheorems, TLAPS

(* Startup.  The inits that may fail without an end to OsInit.              *)
Optional == {"timer", "shell"}

(* The modules of the inits before the n-th.                                *)
Before(n) == {OsInitOrder[i].name : i \in 1 .. n - 1}

(* All that is not ready is optional and has failed.                        *)
Prepared == lost \subseteq Optional /\ Before(13) \subseteq ready \cup lost

StartTypes ==
  /\ at \in {"reset", "init", "app", "hung", "start", "run", "spin", "stopped"}
  /\ step \in Nat /\ crit \in Nat

(* OsInit is within its section.  Only a section that OsInit did not end    *)
(* keeps a half prepared kernel from ticks and characters.                  *)
StartSections ==
  /\ at = "reset" => uart = FALSE /\ tick = FALSE
  /\ at = "init" => /\ crit = 1 /\ ints = FALSE
                    /\ step \in 1 .. 13
                    /\ lost \subseteq Optional
                    /\ Before(step) \subseteq ready \cup lost
  /\ at = "start" => crit > 0 /\ ints = FALSE
  /\ at \notin {"reset", "init"} /\ ~Prepared => /\ ints = FALSE /\ crit > 0
                                                 /\ at = "start" => crit > 1

StartInv == StartTypes /\ StartSections /\ StartsSafely

LEMMA OrderLength == Len(OsInitOrder) = 12
BY DEF OsInitOrder

(* What an init uses was initialised before, and is not optional.           *)
LEMMA OrderIs ==
  /\ \A i \in 1 .. 12 :
       /\ OsInitOrder[i].uses \subseteq Before(i) \ Optional
       /\ Before(i + 1) = Before(i) \cup {OsInitOrder[i].name}
       /\ OsInitOrder[i].failure = "go on" => OsInitOrder[i].name \in Optional
  /\ Before(1) = {}
  /\ Kernel \subseteq Before(13) /\ "shell" \in Before(13)
<1> USE DEF LogInit, TickInit, IdInit, KMemInit, KTaskInit, EventInit,
        KSchedulerInit, KTimerInit, KEventgroupInit, KMailboxInit, KRingbufInit,
        KShellInit, Module
<1>2. /\ OsInitOrder[1].name = "log" /\ OsInitOrder[2].name = "tick"
      /\ OsInitOrder[3].name = "id" /\ OsInitOrder[4].name = "memory"
      /\ OsInitOrder[5].name = "task" /\ OsInitOrder[6].name = "event"
      /\ OsInitOrder[7].name = "scheduler" /\ OsInitOrder[8].name = "timer"
      /\ OsInitOrder[9].name = "eventgroup" /\ OsInitOrder[10].name = "mailbox"
      /\ OsInitOrder[11].name = "ringbuffer" /\ OsInitOrder[12].name = "shell"
  BY DEF OsInitOrder
<1>3. ASSUME NEW i \in 1 .. 12
      PROVE  Before(i + 1) = Before(i) \cup {OsInitOrder[i].name}
  BY DEF Before
<1>4. Before(1) = {}
  BY DEF Before
<1>5. Kernel \subseteq Before(13) /\ "shell" \in Before(13)
  BY <1>2 DEF Before, Kernel
<1>6. /\ OsInitOrder[1].failure = "never" /\ OsInitOrder[2].failure = "never"
      /\ OsInitOrder[3].failure = "never" /\ OsInitOrder[4].failure = "return"
      /\ OsInitOrder[5].failure = "return" /\ OsInitOrder[6].failure = "never"
      /\ OsInitOrder[7].failure = "hang" /\ OsInitOrder[9].failure = "never"
      /\ OsInitOrder[10].failure = "never" /\ OsInitOrder[11].failure = "never"
  BY DEF OsInitOrder
<1>7. ASSUME NEW i \in 1 .. 12
      PROVE  OsInitOrder[i].failure = "go on" => OsInitOrder[i].name \in Optional
  <2>1. i \in {8, 12} \/ i = 1 \/ i = 2 \/ i = 3 \/ i = 4 \/ i = 5 \/ i = 6 \/ i = 7
        \/ i = 9 \/ i = 10 \/ i = 11
    OBVIOUS
  <2>2. QED BY <1>2, <1>6, <2>1 DEF Optional
<1>8. ASSUME NEW i \in 1 .. 12
      PROVE  OsInitOrder[i].uses \subseteq Before(i) \ Optional
  <2>1. CASE i \in {1, 2, 3, 4, 9, 10, 11}
    <3>1. /\ OsInitOrder[1].uses = {} /\ OsInitOrder[2].uses = {}
          /\ OsInitOrder[3].uses = {} /\ OsInitOrder[4].uses = {}
          /\ OsInitOrder[9].uses = {} /\ OsInitOrder[10].uses = {}
          /\ OsInitOrder[11].uses = {}
      BY DEF OsInitOrder
    <3>2. QED BY <2>1, <3>1
  <2>2. CASE i = 5
    <3>1. OsInitOrder[i].uses = {"memory", "id"}
      BY <2>2 DEF OsInitOrder
    <3>2. QED BY <1>2, <2>2, <3>1 DEF Before, Optional
  <2>3. CASE i = 6
    <3>1. OsInitOrder[i].uses = {"tick"}
      BY <2>3 DEF OsInitOrder
    <3>2. QED BY <1>2, <2>3, <3>1 DEF Before, Optional
  <2>4. CASE i = 7
    <3>1. OsInitOrder[i].uses = {"event", "memory"}
      BY <2>4 DEF OsInitOrder
    <3>2. QED BY <1>2, <2>4, <3>1 DEF Before, Optional
  <2>5. CASE i = 8
    <3>1. OsInitOrder[i].uses = {"task", "event", "memory", "id"}
      BY <2>5 DEF OsInitOrder
    <3>2. QED BY <1>2, <2>5, <3>1 DEF Before, Optional
  <2>6. CASE i = 12
    <3>1. OsInitOrder[i].uses = {"ringbuffer", "memory", "id", "task", "event"}
      BY <2>6 DEF OsInitOrder
    <3>2. QED BY <1>2, <2>6, <3>1 DEF Before, Optional
  <2>7. QED BY <2>1, <2>2, <2>3, <2>4, <2>5, <2>6
<1>9. QED BY <1>3, <1>4, <1>5, <1>7, <1>8

(* A kernel with interrupts is prepared, or has not been started.           *)
LEMMA StartInvInit == StartInit => StartInv
BY DEF StartInit, StartInv, StartTypes, StartSections, StartsSafely,
       InitUsesReady, TicksAfterInit, ReceivesAfterInit

(* An init that uses only what is ready is no misuse.                       *)
LEMMA InitUsesNothingElse ==
  ASSUME StartInv, at = "init", step \in 1 .. 12,
         Uses(OsInitOrder[step].name, OsInitOrder[step].uses)
  PROVE  misuse' = misuse
<1>1. OsInitOrder[step].uses \ ready = {}
  BY OrderIs DEF StartInv, StartSections
<1>2. QED BY <1>1 DEF Uses

LEMMA InitModuleKeeps ==
  ASSUME StartInv, at = "init", step <= Len(OsInitOrder), InitModule(OsInitOrder[step])
  PROVE  StartInv'
<1>1. step \in 1 .. 12
  BY OrderLength DEF StartInv, StartTypes, StartSections
<1>2. misuse' = misuse
  BY <1>1, InitUsesNothingElse DEF InitModule
<1>3. /\ OsInitOrder[step].name \in ready' /\ ready \subseteq ready'
      /\ Before(step + 1) = Before(step) \cup {OsInitOrder[step].name}
      /\ step' = step + 1 /\ at' = at /\ crit' = crit /\ lost' = lost
      /\ nullRing' = nullRing /\ served' = served
  BY <1>1, OrderIs DEF InitModule
<1>4. ints' = FALSE
  BY DEF InitModule, Enabled, StartInv, StartTypes, StartSections
<1>5. Before(step')  \subseteq ready' \cup lost'
  BY <1>3 DEF StartInv, StartSections
<1>6. StartTypes'
  BY <1>1, <1>3 DEF StartInv, StartTypes
<1>7. StartSections'
  BY <1>1, <1>3, <1>4, <1>5 DEF StartInv, StartTypes, StartSections
<1>8. StartsSafely'
  BY <1>2, <1>3
  DEF StartInv, StartsSafely, InitUsesReady, TicksAfterInit, ReceivesAfterInit
<1>9. QED BY <1>6, <1>7, <1>8 DEF StartInv

LEMMA InitFailsKeeps ==
  ASSUME StartInv, at = "init", step <= Len(OsInitOrder), InitFails(OsInitOrder[step])
  PROVE  StartInv'
<1>1. step \in 1 .. 12
  BY OrderLength DEF StartInv, StartTypes, StartSections
<1>2. misuse' = misuse
  BY <1>1, InitUsesNothingElse DEF InitFails
<1>3. /\ Before(step + 1) = Before(step) \cup {OsInitOrder[step].name}
      /\ lost' = lost \cup {OsInitOrder[step].name}
      /\ ready' = ready /\ uart' = uart /\ tick' = tick
      /\ nullRing' = nullRing /\ served' = served
  BY <1>1, OrderIs DEF InitFails
<1>4. crit' = 1 /\ ints' = FALSE
  <2>1. crit = 1 /\ ints = FALSE
    BY DEF StartInv, StartSections
  <2>2. crit' = crit
    BY DEF InitFails, ReturnLevel
  <2>3. ints' = Enabled(crit')
    BY DEF InitFails
  <2>4. Enabled(crit') = ints
    BY <2>1, <2>2 DEF Enabled
  <2>5. QED BY <2>1, <2>2, <2>3, <2>4
<1>5. \/ at' \in {"app", "hung"} /\ step' = step
      \/ at' = "init" /\ step' = step + 1 /\ OsInitOrder[step].name \in Optional
  BY <1>1, OrderIs DEF InitFails
<1>6. StartTypes'
  BY <1>1, <1>3, <1>4, <1>5 DEF StartInv, StartTypes
<1>7. StartSections'
  BY <1>1, <1>3, <1>4, <1>5 DEF StartInv, StartTypes, StartSections
<1>8. StartsSafely'
  BY <1>2, <1>3
  DEF StartInv, StartsSafely, InitUsesReady, TicksAfterInit, ReceivesAfterInit
<1>9. QED BY <1>6, <1>7, <1>8 DEF StartInv

(* A tick that is served, and a character that is received, find what they  *)
(* need.                                                                    *)
LEMMA InterruptsKeep ==
  ASSUME StartInv, ServeTick \/ Receive
  PROVE  StartInv'
<1>1. Prepared
  BY DEF StartInv, StartTypes, StartSections, ServeTick, Receive
<1>2. /\ lost \cup (Kernel \ ready) \subseteq Optional
      /\ "shell" \in ready \cup lost
  BY <1>1, OrderIs DEF Prepared
<1>3. Prepared'
  BY <1>1 DEF Prepared, ServeTick, Receive
<1>4. StartTypes' /\ StartSections'
  BY <1>1, <1>3 DEF StartInv, StartTypes, StartSections, ServeTick, Receive
<1>5. StartsSafely'
  BY <1>2 DEF StartInv, StartsSafely, InitUsesReady, TicksAfterInit,
              ReceivesAfterInit, ServeTick, Receive, Optional
<1>6. QED BY <1>4, <1>5 DEF StartInv

LEMMA StartInvNext == StartInv /\ [StartNext]_startVars => StartInv'
<1> SUFFICES ASSUME StartInv, [StartNext]_startVars PROVE StartInv'
  OBVIOUS
<1> USE DEF StartInv, StartTypes, StartSections, StartsSafely, InitUsesReady,
            TicksAfterInit, ReceivesAfterInit, Prepared
<1>1. CASE OsInitBegin
  <2> SectionLevel # 0
    BY DEF SectionLevel
  <2> (SectionLevel = 0) = FALSE
    OBVIOUS
  <2>1. /\ at' = "init" /\ step' = 1 /\ crit' = 1 /\ ints' = FALSE
        /\ lost' = {} /\ misuse' = misuse /\ nullRing' = nullRing /\ served' = served
    BY <1>1 DEF OsInitBegin, SectionLevel
  <2>2. Before(step') = {}
    BY <2>1, OrderIs
  <2>3. QED BY <2>1, <2>2
<1>2. CASE /\ at = "init" /\ step <= Len(OsInitOrder)
           /\ InitModule(OsInitOrder[step]) \/ InitFails(OsInitOrder[step])
  BY <1>2, InitModuleKeeps, InitFailsKeeps
<1>3. CASE OsInitEnd
  <2>1. step = 13
    BY <1>3, OrderLength DEF OsInitEnd
  <2>2. QED BY <1>3, <2>1 DEF OsInitEnd, Enabled
<1>4. CASE AppTaskCreate
  BY <1>4 DEF AppTaskCreate, Enabled, appFrame
<1>5. CASE AppMessageQueueCreate
  <2>1. misuse' \subseteq {<<"application", "message">>}
    BY <1>5 DEF AppMessageQueueCreate, Uses
  <2>2. QED BY <1>5, <2>1 DEF AppMessageQueueCreate, Enabled, appFrame
<1>6. ASSUME NEW task \in BOOLEAN, OsStart(task) PROVE StartInv'
  BY <1>6 DEF OsStart
<1>7. CASE StartTick
  BY <1>7 DEF StartTick, Enabled
<1>8. CASE OsStop
  BY <1>8 DEF OsStop
<1>9. CASE TaskReturns
  BY <1>9 DEF TaskReturns
<1>10. CASE ServeTick \/ Receive
  BY <1>10, InterruptsKeep
<1>11. CASE UNCHANGED startVars
  BY <1>11 DEF startVars
<1>12. QED
  BY <1>1, <1>2, <1>3, <1>4, <1>5, <1>6, <1>7, <1>8, <1>9, <1>10, <1>11
  DEF StartNext

(* For every number of restarts, whichever inits fail and wherever the      *)
(* tick or the receiving interrupt comes: nothing is used before it is      *)
(* prepared, with the exceptions that StartsSafely names.                   *)
THEOREM AlwaysStartsSafely == StartInit /\ [][StartNext]_startVars => []StartsSafely
<1>1. StartInv => StartsSafely BY DEF StartInv
<1>2. QED BY <1>1, StartInvInit, StartInvNext, PTL
------------------------------------------------------------------------------
(* The shell.  Somebody will look for what was received, or the exception   *)
(* of NoneStranded applies.                                                 *)
Signalled == dataIn > 0 \/ missed

Waiting == shell \in {"parked", "queued", "poll"}

ShellTypes ==
  /\ rx \in Seq(Typed)
  /\ amount \in Nat /\ dataIn \in Nat /\ activate \in Nat
  /\ poll \in {"none", "waits", "occurred"}
  /\ shell \in {"parked", "queued", "poll", "count", "read", "parse"}

(* A task that polls and does not run has nothing to read that it is not    *)
(* told of.  While it runs that is so for what came after its count; and    *)
(* between the poll and the count it is going to read all.                  *)
Wakes ==
  /\ poll = "none" => Waiting /\ (shell = "parked" => activate > 0)
  /\ poll = "occurred" => shell \in {"queued", "poll"}
  /\ poll = "waits" /\ Waiting /\ rx # <<>> => Signalled
  /\ shell = "read" => amount <= Len(rx) /\ (Len(rx) > amount => Signalled)
  /\ shell = "parse" /\ rx # <<>> => Signalled

LEMMA WakesInit == ShellInit => ShellTypes /\ Wakes
BY ShellAssumption DEF ShellInit, ShellTypes, Wakes, Waiting, Signalled

LEMMA WakesNext == ShellTypes /\ Wakes /\ [ShellNext]_shellVars => ShellTypes' /\ Wakes'
<1> SUFFICES ASSUME ShellTypes, Wakes, [ShellNext]_shellVars
             PROVE  ShellTypes' /\ Wakes'
  OBVIOUS
<1> USE DEF ShellTypes, Wakes, Waiting, Signalled
<1>1. ASSUME NEW n \in 1 .. Burst, NEW locked \in BOOLEAN, NEW chars \in [1 .. n -> Typed],
             PortDebugCallbackReadChars(chars, locked)
      PROVE  ShellTypes' /\ Wakes'
  <2>1. chars \in Seq(Typed)
    BY ShellAssumption
  <2>2. rx' \in Seq(Typed) /\ Len(rx') >= Len(rx) /\ dataIn' \in Nat
    BY <1>1, <2>1, ShellAssumption DEF PortDebugCallbackReadChars
  <2>3. Signalled'
    BY <1>1, ShellAssumption DEF PortDebugCallbackReadChars
  <2>4. QED BY <1>1, <2>2, <2>3 DEF PortDebugCallbackReadChars
<1>2. CASE ShellTick
  <2>1. rx' = rx /\ amount' = amount /\ dataIn' \in Nat /\ activate' \in Nat
    BY <1>2 DEF ShellTick
  <2>2. CASE Running
    <3>1. poll' = poll /\ shell' = shell /\ shell \notin {"parked", "queued"}
      BY <1>2, <2>2 DEF ShellTick, Running
    <3>2. Signalled => Signalled'
      <4>1. missed \/ dataIn = 1 => missed'
        BY <1>2, <2>2, Zenon DEF ShellTick
      <4>2. dataIn > 1 => dataIn' > 0
        BY <1>2 DEF ShellTick
      <4>3. QED BY <4>1, <4>2
    <3>3. QED BY <2>1, <3>1, <3>2
  <2>3. CASE ~Running /\ dataIn > 0 /\ poll # "none"
    <3>1. poll' = "occurred" /\ shell' = "queued"
      BY <1>2, <2>3 DEF ShellTick
    <3>2. QED BY <2>1, <3>1
  <2>4. CASE ~Running /\ ~(dataIn > 0 /\ poll # "none")
    <3>1. /\ poll' = poll
          /\ shell' = IF activate > 0 THEN "queued" ELSE shell
      BY <1>2, <2>4 DEF ShellTick
    <3>4. shell \in {"parked", "queued"}
      BY <2>4 DEF Running
    <3>2. poll # "none" /\ Signalled => Signalled'
      BY <1>2, <2>4 DEF ShellTick
    <3>3. QED BY <2>1, <3>1, <3>2, <3>4
  <2>5. QED BY <2>2, <2>3, <2>4
<1>3. CASE Dispatch
  BY <1>3 DEF Dispatch, taskFrame
<1>4. CASE TaskPollDataIn
  BY <1>4 DEF TaskPollDataIn, PollAfter
<1>5. CASE ReadAmount
  BY <1>5 DEF ReadAmount
<1>6. CASE ReadLine
  <2>1. /\ rx' \in Seq(Typed) /\ Len(rx') = Len(rx) - amount
        /\ amount = 0 => rx' = rx
    <3>1. amount <= Len(rx) /\ rx' = SubSeq(rx, amount + 1, Len(rx))
      BY <1>6 DEF ReadLine
    <3>2. QED BY <3>1
  <2>2. /\ dataIn' = dataIn /\ missed' = missed /\ activate' = activate
        /\ poll' = poll /\ amount' = amount
        /\ shell' = IF amount = 0 THEN "parked" ELSE "parse"
        /\ shell = "read"
    BY <1>6 DEF ReadLine
  <2>3. QED BY <2>1, <2>2
<1>7. CASE ParseLine
  BY <1>7 DEF ParseLine
<1>8. CASE TaskShellExecute
  BY <1>8 DEF TaskShellExecute
<1>9. CASE UNCHANGED shellVars
  BY <1>9 DEF shellVars
<1>10. QED
  BY <1>1, <1>2, <1>3, <1>4, <1>5, <1>6, <1>7, <1>8, <1>9 DEF ShellNext

(* For every length of the buffers, every life of an event and whatever is  *)
(* typed between any two steps of the shell: characters are not left to     *)
(* wait for more, but for the exceptions that NoneStranded names.           *)
THEOREM NoneEverStranded == ShellInit /\ [][ShellNext]_shellVars => []NoneStranded
<1>1. ShellTypes /\ Wakes => NoneStranded
  BY DEF ShellTypes, Wakes, Waiting, Signalled, NoneStranded
<1>2. QED BY <1>1, WakesInit, WakesNext, PTL
------------------------------------------------------------------------------
(* Object IDs.  The numbers of a group.                                     *)
W == 2 ^ SeqBits

LEMMA WType == W \in Nat \ {0, 1}
BY IdAssumption DEF W

LEMMA WFolds ==
  /\ SeqMask = W - 1
  /\ ID_INVALID = 256 * W - 1
  /\ KIdInit = [g \in 0 .. Groups - 1 |-> [free |-> g * W, rollover |-> FALSE]]
  /\ \A id : IsValid(id) <=> id # ID_INVALID /\ id \div W < Groups
  /\ \A id : IdGroupGet(id) = IF IsValid(id) THEN id \div W ELSE 255
  /\ \A id : IdSequenceNumberGet(id) = IF IsValid(id) THEN id % W ELSE ID_INVALID
  /\ \A id, g : IdIsInGroup(id, g) <=> IsValid(id) /\ g \div W < Groups /\ id \div W = g
  /\ \A p : TakeId(p) = [free |-> p.free + 1, rollover |-> (p.free + 1) % W = SeqMask]
BY Zenon DEF W, SeqMask, ID_INVALID, KIdInit, IsValid, IdGroupGet, IdSequenceNumberGet,
             IdIsInGroup, TakeId

(* An ID is a group and a number.                                           *)
LEMMA GroupAndNumber ==
  ASSUME NEW g \in Nat, NEW n \in 0 .. W - 1
  PROVE  (g * W + n) \div W = g /\ (g * W + n) % W = n
<1> USE WType
<1> DEFINE a == g * W + n
           q == a \div W
           r == a % W
<1>1. g * W \in Nat /\ a \in Nat
  OBVIOUS
<1>2. q \in Int /\ r \in 0 .. W - 1 /\ a = q * W + r
  BY <1>1
<1> HIDE DEF q, r
<1>3. ~(q < g)
  <2> SUFFICES ASSUME q < g PROVE FALSE
    OBVIOUS
  <2>1. (q + 1) * W <= g * W
    BY <1>2
  <2>2. (q + 1) * W = q * W + W
    BY <1>2
  <2>3. QED BY <1>1, <1>2, <2>1, <2>2
<1>4. ~(q > g)
  <2> SUFFICES ASSUME q > g PROVE FALSE
    OBVIOUS
  <2>1. (g + 1) * W <= q * W
    BY <1>2
  <2>2. (g + 1) * W = g * W + W
    OBVIOUS
  <2>3. QED BY <1>1, <1>2, <2>1, <2>2
<1>5. q = g
  BY <1>2, <1>3, <1>4
<1>6. r = n
  BY <1>1, <1>2, <1>5
<1>7. QED BY <1>5, <1>6 DEF q, r


Group == 0 .. Groups - 1

(* Number n of group g.                                                     *)
IdOf(g, n) == g * W + n

(* The pool of group g is at its number n, and has rolled over at the last. *)
PoolAt(p, g, n) ==
  p = [free |-> IdOf(g, n), rollover |-> p.rollover] /\ (p.rollover <=> n = W - 1)

(* The numbers that a group has given are below the one its pool is at.     *)
Pools ==
  \E next \in [Group -> 0 .. W - 1] :
    /\ IdPools = [g \in Group |-> IdPools[g]]
    /\ \A g \in Group : PoolAt(IdPools[g], g, next[g])
    /\ \A i \in 1 .. Len(given) :
         \E g \in Group, n \in 0 .. W - 2 :
           given[i] = <<g, IdOf(g, n)>> /\ n < next[g]

IdTypes ==
  /\ given \in Seq(Group \X Nat)
  /\ idList \in Seq(Nat)

GivenOnce == \A i, j \in 1 .. Len(given) : i # j => given[i][2] # given[j][2]

IdInv == IdTypes /\ Pools /\ GivenOnce

LEMMA IdOfUnique ==
  ASSUME NEW g \in Group, NEW n \in 0 .. W - 1, NEW h \in Group, NEW m \in 0 .. W - 1,
         IdOf(g, n) = IdOf(h, m)
  PROVE  g = h /\ n = m
<1>1. g \in Nat /\ h \in Nat
  BY IdAssumption DEF Group
<1>2. (g * W + n) \div W = g /\ (g * W + n) % W = n
  BY <1>1, GroupAndNumber
<1>3. (h * W + m) \div W = h /\ (h * W + m) % W = m
  BY <1>1, GroupAndNumber
<1>4. g * W + n = h * W + m
  BY DEF IdOf
<1>5. QED BY <1>2, <1>3, <1>4, Zenon

(* Every ID but the last of a group is valid, and of that group.            *)
LEMMA IdOfIsValid ==
  ASSUME NEW g \in Group, NEW n \in 0 .. W - 2
  PROVE  /\ IdGroupGet(IdOf(g, n)) = g
         /\ IdSequenceNumberGet(IdOf(g, n)) = n
         /\ \A h \in 0 .. Groups : IdIsInGroup(IdOf(g, n), h) <=> h = g
<1> DEFINE id == IdOf(g, n)
<1>1. /\ g \in Nat /\ g < Groups /\ Groups \in 1 .. 255 /\ n \in 0 .. W - 1
      /\ W \in Nat \ {0, 1}
  BY IdAssumption, WType DEF Group
<1>2. id \div W = g /\ id % W = n
  BY <1>1, GroupAndNumber DEF IdOf
<1>3. ID_INVALID \div W = 255
  <2>1. 255 * W + (W - 1) = 256 * W - 1
    BY <1>1
  <2>2. (255 * W + (W - 1)) \div W = 255
    <3>1. W - 1 \in 0 .. W - 1
      BY <1>1
    <3>2. 255 \in Nat
      OBVIOUS
    <3>3. QED BY <3>1, <3>2, GroupAndNumber
  <2>3. QED BY <2>1, <2>2, WFolds
<1> HIDE DEF id
<1>4. IsValid(id)
  <2>1. id # ID_INVALID /\ id \div W < Groups
    BY <1>1, <1>2, <1>3
  <2>2. QED BY <2>1, WFolds
<1>5. ASSUME NEW h \in 0 .. Groups PROVE h \div W < Groups
  <2>1. h \in Nat /\ h <= Groups
    BY <1>1
  <2> DEFINE q == h \div W
             r == h % W
  <2>2. q \in Nat /\ r \in Nat /\ h = q * W + r
    BY <1>1, <2>1
  <2> HIDE DEF q, r
  <2>3. q * W >= q * 2
    BY <1>1, <2>2
  <2>4. q < Groups
    BY <1>1, <2>1, <2>2, <2>3
  <2>5. QED BY <2>4 DEF q
<1>6. IdGroupGet(id) = g /\ IdSequenceNumberGet(id) = n
  BY <1>2, <1>4, WFolds
<1>7. ASSUME NEW h \in 0 .. Groups PROVE IdIsInGroup(id, h) <=> h = g
  BY <1>2, <1>4, <1>5, WFolds
<1>8. QED BY <1>6, <1>7 DEF id

LEMMA IdInvSafe == IdInv => IdsUnique
<1> SUFFICES ASSUME IdInv PROVE IdsUnique
  OBVIOUS
<1>1. DOMAIN given = 1 .. Len(given)
  BY DEF IdInv, IdTypes
<1>2. ASSUME NEW i \in 1 .. Len(given)
      PROVE  /\ IdGroupGet(given[i][2]) = given[i][1]
             /\ \A g \in 0 .. Groups : IdIsInGroup(given[i][2], g) <=> g = given[i][1]
             /\ IdSequenceNumberGet(given[i][2]) \in 0 .. SeqMask - 1
  <2>1. PICK g \in Group, n \in 0 .. W - 2 : given[i] = <<g, IdOf(g, n)>>
    BY DEF IdInv, Pools
  <2>2. given[i][1] = g /\ given[i][2] = IdOf(g, n)
    BY <2>1
  <2>3. SeqMask - 1 = W - 2
    BY WFolds, WType
  <2>4. QED BY <2>2, <2>3, IdOfIsValid
<1>3. QED BY <1>1, <1>2 DEF IdsUnique, IdInv, GivenOnce

LEMMA IdInvInit == IdsInit => IdInv
<1> SUFFICES ASSUME IdsInit PROVE IdInv
  OBVIOUS
<1>1. IdTypes /\ GivenOnce
  BY DEF IdsInit, IdTypes, GivenOnce
<1>2. Pools
  <2> DEFINE next == [g \in Group |-> 0]
  <2>1. next \in [Group -> 0 .. W - 1]
    BY WType
  <2>2. IdPools = [g \in Group |-> [free |-> g * W, rollover |-> FALSE]]
    BY WFolds DEF IdsInit, Group
  <2>3. ASSUME NEW g \in Group PROVE PoolAt(IdPools[g], g, next[g])
    <3>1. IdPools[g] = [free |-> g * W, rollover |-> FALSE] /\ next[g] = 0
      BY <2>2
    <3>2. g * W + 0 = g * W /\ 0 # W - 1
      BY WType, IdAssumption DEF Group
    <3>3. IdOf(g, 0) = g * W
      BY <3>2 DEF IdOf
    <3>4. IdPools[g].rollover = FALSE
      BY <3>1
    <3>5. IdPools[g] = [free |-> IdOf(g, 0), rollover |-> IdPools[g].rollover]
      BY <3>1, <3>3, <3>4
    <3>6. IdPools[g].rollover <=> 0 = W - 1
      BY <3>2, <3>4
    <3>7. QED BY <3>1, <3>5, <3>6 DEF PoolAt
  <2>4. IdPools = [g \in Group |-> IdPools[g]]
    BY <2>2
  <2>5. Len(given) = 0
    BY DEF IdsInit
  <2> HIDE DEF next
  <2>6. QED BY <2>1, <2>3, <2>4, <2>5 DEF Pools
<1>3. QED BY <1>1, <1>2 DEF IdInv


LEMMA AppendIs ==
  ASSUME NEW S, NEW s \in Seq(S), NEW e \in S
  PROVE  /\ Append(s, e) \in Seq(S) /\ Len(Append(s, e)) = Len(s) + 1 /\ Len(s) \in Nat
         /\ Append(s, e)[Len(s) + 1] = e
         /\ \A i \in 1 .. Len(s) : Append(s, e)[i] = s[i]
OBVIOUS

LEMMA ConcatIs ==
  ASSUME NEW S, NEW s \in Seq(S), NEW t \in Seq(S)
  PROVE  /\ s \o t \in Seq(S) /\ Len(s \o t) = Len(s) + Len(t)
         /\ Len(s) \in Nat /\ Len(t) \in Nat
         /\ \A i \in 1 .. Len(s) : (s \o t)[i] = s[i]
         /\ \A i \in 1 .. Len(t) : (s \o t)[Len(s) + i] = t[i]
OBVIOUS

(* A request moves the pool on by one number.                               *)
LEMMA TakeIdIs ==
  ASSUME NEW g \in Group, NEW n \in 0 .. W - 2, NEW p, PoolAt(p, g, n)
  PROVE  PoolAt(TakeId(p), g, n + 1)
<1>1. g \in Nat /\ W \in Nat \ {0, 1} /\ n + 1 \in 0 .. W - 1 /\ g * W \in Nat
  BY IdAssumption, WType DEF Group
<1>2. p.free = g * W + n
  BY DEF PoolAt, IdOf
<1>3. p.free + 1 = IdOf(g, n + 1)
  BY <1>1, <1>2 DEF IdOf
<1>4. IdOf(g, n + 1) % W = n + 1
  BY <1>1, GroupAndNumber DEF IdOf
<1>5. SeqMask = W - 1
  BY WFolds
<1>6. TakeId(p) = [free |-> IdOf(g, n + 1), rollover |-> n + 1 = W - 1]
  <2>1. TakeId(p) = [free |-> p.free + 1, rollover |-> (p.free + 1) % W = SeqMask]
    BY WFolds, Zenon
  <2>2. QED BY <1>3, <1>4, <1>5, <2>1
<1>7. TakeId(p).rollover = (n + 1 = W - 1)
  BY <1>6
<1>8. QED BY <1>6, <1>7 DEF PoolAt

LEMMA RequestKeeps ==
  ASSUME IdInv, NEW g \in DOMAIN IdPools, KIdRequest(g)
  PROVE  IdInv'
<1>1. PICK next \in [Group -> 0 .. W - 1] :
        /\ IdPools = [h \in Group |-> IdPools[h]]
        /\ \A h \in Group : PoolAt(IdPools[h], h, next[h])
        /\ \A i \in 1 .. Len(given) :
             \E h \in Group, n \in 0 .. W - 2 :
               given[i] = <<h, IdOf(h, n)>> /\ n < next[h]
  BY DEF IdInv, Pools
<1>2. g \in Group /\ W \in Nat \ {0, 1}
  BY <1>1, WType
<1> DEFINE n == next[g]
           id == IdPools[g].free
           new == [next EXCEPT ![g] = n + 1]
<1>3. n \in 0 .. W - 2 /\ n + 1 \in 0 .. W - 1 /\ id = IdOf(g, n)
  <2>1. PoolAt(IdPools[g], g, n) /\ ~IdPools[g].rollover
    BY <1>1, <1>2 DEF KIdRequest
  <2>2. n # W - 1 /\ n \in 0 .. W - 1
    BY <1>1, <1>2, <2>1 DEF PoolAt
  <2>3. QED BY <1>2, <2>1, <2>2 DEF PoolAt
<1>4. id \in Nat
  <2>1. g \in Nat /\ n \in Nat /\ id = g * W + n
    BY <1>2, <1>3, IdAssumption DEF IdOf, Group
  <2> HIDE DEF n, id
  <2>2. QED BY <1>2, <2>1
<1>5. /\ new \in [Group -> 0 .. W - 1] /\ new[g] = n + 1
      /\ \A h \in Group : h # g => new[h] = next[h]
      /\ \A h \in Group : new[h] >= next[h]
  BY <1>1, <1>2, <1>3
<1>6. /\ given' = Append(given, <<g, id>>)
      /\ IdPools' = [IdPools EXCEPT ![g] = TakeId(IdPools[g])]
      /\ idList' = idList
  BY DEF KIdRequest
<1>7. given \in Seq(Group \X Nat)
  BY DEF IdInv, IdTypes
<1> HIDE DEF n, id, new
<1>8. /\ given' \in Seq(Group \X Nat) /\ Len(given') = Len(given) + 1
      /\ given'[Len(given) + 1] = <<g, id>>
      /\ \A i \in 1 .. Len(given) : given'[i] = given[i]
      /\ Len(given) \in Nat
  <2>1. <<g, id>> \in Group \X Nat
    BY <1>2, <1>4
  <2>2. QED BY <1>6, <1>7, <2>1, AppendIs
<1>9. Pools'
  <2>1. IdPools' = [h \in Group |-> IdPools'[h]]
    BY <1>1, <1>6
  <2>2. ASSUME NEW h \in Group PROVE PoolAt(IdPools'[h], h, new[h])
    <3>1. CASE h = g
      <4>1. IdPools'[h] = TakeId(IdPools[g])
        BY <1>1, <1>6, <3>1
      <4>2. PoolAt(IdPools[g], g, n)
        BY <1>1, <1>2 DEF n
      <4>3. PoolAt(TakeId(IdPools[g]), g, n + 1)
        BY <1>2, <1>3, <4>2, TakeIdIs
      <4>4. QED BY <1>5, <3>1, <4>1, <4>3
    <3>2. CASE h # g
      <4>1. IdPools'[h] = IdPools[h]
        BY <1>1, <1>6, <3>2
      <4>2. QED BY <1>1, <1>5, <3>2, <4>1
    <3>3. QED BY <3>1, <3>2
  <2>3. ASSUME NEW i \in 1 .. Len(given')
        PROVE  \E h \in Group, m \in 0 .. W - 2 :
                 given'[i] = <<h, IdOf(h, m)>> /\ m < new[h]
    <3>1. CASE i = Len(given) + 1
      <4>1. given'[i] = <<g, IdOf(g, n)>> /\ n < new[g]
        BY <1>2, <1>3, <1>5, <1>8, <3>1
      <4>2. QED BY <1>2, <1>3, <4>1
    <3>2. CASE i \in 1 .. Len(given)
      <4>1. PICK h \in Group, m \in 0 .. W - 2 : given[i] = <<h, IdOf(h, m)>> /\ m < next[h]
        BY <1>1, <3>2
      <4>2. m < new[h]
        BY <1>1, <1>2, <1>5, <4>1
      <4>3. QED BY <1>8, <3>2, <4>1, <4>2
    <3>3. QED BY <1>8, <3>1, <3>2
  <2>4. QED BY <1>5, <2>1, <2>2, <2>3 DEF Pools
<1>10. GivenOnce'
  <2>1. ASSUME NEW i \in 1 .. Len(given) PROVE given[i][2] # id
    <3>1. PICK h \in Group, m \in 0 .. W - 2 : given[i] = <<h, IdOf(h, m)>> /\ m < next[h]
      BY <1>1
    <3>2. m \in 0 .. W - 1 /\ n \in 0 .. W - 1
      BY <1>2, <1>3
    <3>3. IdOf(h, m) # IdOf(g, n)
      <4> SUFFICES ASSUME IdOf(h, m) = IdOf(g, n) PROVE FALSE
        OBVIOUS
      <4>1. h = g /\ m = n
        BY <1>2, <3>2, IdOfUnique
      <4>2. QED BY <1>1, <1>2, <3>1, <4>1 DEF n
    <3>4. QED BY <1>3, <3>1, <3>3
  <2>2. given'[Len(given) + 1][2] = id
    BY <1>8
  <2>3. \A i, j \in 1 .. Len(given) : i # j => given[i][2] # given[j][2]
    BY DEF IdInv, GivenOnce
  <2>4. ASSUME NEW i \in 1 .. Len(given'), NEW j \in 1 .. Len(given'), i # j
        PROVE  given'[i][2] # given'[j][2]
    <3>1. i \in 1 .. Len(given) \/ i = Len(given) + 1
      BY <1>8
    <3>2. j \in 1 .. Len(given) \/ j = Len(given) + 1
      BY <1>8
    <3>3. \A k \in 1 .. Len(given) : given'[k][2] = given[k][2]
      BY <1>8
    <3>4. QED BY <2>1, <2>2, <2>3, <2>4, <3>1, <3>2, <3>3
  <2>5. QED BY <2>4 DEF GivenOnce
<1>11. IdTypes'
  BY <1>6, <1>8 DEF IdInv, IdTypes
<1>12. QED BY <1>9, <1>10, <1>11 DEF IdInv

LEMMA IdInvNext == IdInv /\ [IdsNext]_idVars => IdInv'
<1> SUFFICES ASSUME IdInv, [IdsNext]_idVars PROVE IdInv'
  OBVIOUS
<1>1. CASE \E g \in DOMAIN IdPools : KIdRequest(g)
  BY <1>1, RequestKeeps
<1>2. CASE UNCHANGED <<IdPools, given>> /\ idList' \in Seq(Nat)
  BY <1>2 DEF IdInv, IdTypes, Pools, GivenOnce
<1>3. ASSUME NEW i \in DOMAIN given, IdListIdAdd(given[i][2]) PROVE IdInv'
  <2>1. given[i][2] \in Nat /\ idList \in Seq(Nat)
    BY DEF IdInv, IdTypes
  <2>2. idList' \in Seq(Nat)
    BY <1>3, <2>1 DEF IdListIdAdd
  <2>3. QED BY <1>2, <1>3, <2>2 DEF IdListIdAdd
<1>4. CASE IdListIdRemove
  <2>1. idList' \in Seq(Nat)
    BY <1>4 DEF IdListIdRemove, IdInv, IdTypes
  <2>2. QED BY <1>2, <1>4, <2>1 DEF IdListIdRemove
<1>5. CASE MessageMulticast
  BY <1>2, <1>5 DEF MessageMulticast, IdInv, IdTypes
<1>6. CASE \E sent \in {"ok", "poll", "fail"} : MulticastRound(sent)
  <2>1. idList \in Seq(Nat)
    BY DEF IdInv, IdTypes
  <2>2. idList' \in Seq(Nat)
    BY <1>6, <2>1 DEF MulticastRound
  <2>3. QED BY <1>2, <1>6, <2>2 DEF MulticastRound
<1>7. CASE UNCHANGED idVars
  BY <1>7 DEF idVars, IdInv, IdTypes, Pools, GivenOnce
<1>8. QED BY <1>1, <1>3, <1>4, <1>5, <1>6, <1>7 DEF IdsNext

(* For every number of groups and of numbers in a group, up to and past     *)
(* the roll-over: no ID is given out twice or collides with ID_INVALID or   *)
(* another group's.                                                         *)
THEOREM IdsAlwaysUnique == IdsInit /\ [][IdsNext]_idVars => []IdsUnique
BY IdInvInit, IdInvNext, IdInvSafe, PTL
------------------------------------------------------------------------------
(* The locks.  The grants as a set: one more or one less.                   *)
LEMMA GrantIs ==
  ASSUME NEW h \in [Caller -> Nat], NEW c \in Caller, NEW n
  PROVE  <<c, n>> \in Grant(h) <=> n \in 1 .. h[c]
BY DEF Grant

LEMMA GrantPairs ==
  ASSUME NEW h, NEW x \in Grant(h)
  PROVE  \E c \in Caller, n \in Int : x = <<c, n>> /\ n \in 1 .. h[c]
BY DEF Grant

LEMMA GrantMore ==
  ASSUME NEW h \in [Caller -> Nat], NEW c \in Caller, IsFiniteSet(Grant(h)),
         NEW g, g = [h EXCEPT ![c] = h[c] + 1]
  PROVE  /\ g \in [Caller -> Nat] /\ IsFiniteSet(Grant(g))
         /\ Cardinality(Grant(g)) = Cardinality(Grant(h)) + 1
<1>1. /\ g \in [Caller -> Nat] /\ g[c] = h[c] + 1 /\ h[c] \in Nat
      /\ \A d \in Caller : d # c => g[d] = h[d]
  OBVIOUS
<1> DEFINE x == <<c, h[c] + 1>>
<1>2. x \notin Grant(h)
  BY <1>1, GrantIs
<1>3. ASSUME NEW y \in Grant(g) PROVE y \in Grant(h) \cup {x}
  <2>1. PICK d \in Caller, n \in Int : y = <<d, n>> /\ n \in 1 .. g[d]
    BY GrantPairs
  <2>2. CASE d = c /\ n = h[c] + 1
    BY <2>1, <2>2
  <2>3. CASE d # c \/ n # h[c] + 1
    <3>1. n \in 1 .. h[d]
      BY <1>1, <2>1, <2>3
    <3>2. QED BY <2>1, <3>1, GrantIs
  <2>4. QED BY <2>2, <2>3
<1>4. ASSUME NEW y \in Grant(h) \cup {x} PROVE y \in Grant(g)
  <2>1. CASE y \in Grant(h)
    <3>1. PICK d \in Caller, n \in Int : y = <<d, n>> /\ n \in 1 .. h[d]
      BY <2>1, GrantPairs
    <3>2. n \in 1 .. g[d]
      BY <1>1, <3>1
    <3>3. QED BY <1>1, <3>1, <3>2, GrantIs
  <2>2. CASE y = x
    <3>1. h[c] + 1 \in 1 .. g[c]
      BY <1>1
    <3>2. QED BY <1>1, <2>2, <3>1, GrantIs
  <2>3. QED BY <2>1, <2>2
<1>5. Grant(g) = Grant(h) \cup {x}
  BY <1>3, <1>4
<1> HIDE DEF x
<1>6. /\ IsFiniteSet(Grant(h) \cup {x})
      /\ Cardinality(Grant(h) \cup {x}) = Cardinality(Grant(h)) + 1
  BY <1>2, FS_AddElement
<1>7. QED BY <1>1, <1>5, <1>6

LEMMA GrantLess ==
  ASSUME NEW h \in [Caller -> Nat], NEW c \in Caller, IsFiniteSet(Grant(h)), h[c] > 0,
         NEW g, g = [h EXCEPT ![c] = h[c] - 1]
  PROVE  /\ g \in [Caller -> Nat] /\ IsFiniteSet(Grant(g))
         /\ Cardinality(Grant(h)) = Cardinality(Grant(g)) + 1
<1>1. /\ g \in [Caller -> Nat] /\ g[c] = h[c] - 1 /\ h[c] \in Nat
      /\ \A d \in Caller : d # c => g[d] = h[d]
  OBVIOUS
<1>2. h = [g EXCEPT ![c] = g[c] + 1]
  <2>1. \A d \in Caller : h[d] = [g EXCEPT ![c] = g[c] + 1][d]
    BY <1>1
  <2>2. QED BY <1>1, <2>1
<1>3. IsFiniteSet(Grant(g))
  <2>1. ASSUME NEW y \in Grant(g) PROVE y \in Grant(h)
    <3>1. PICK d \in Caller, n \in Int : y = <<d, n>> /\ n \in 1 .. g[d]
      BY GrantPairs
    <3>2. n \in 1 .. h[d]
      BY <1>1, <3>1
    <3>3. QED BY <3>1, <3>2, GrantIs
  <2>2. Grant(g) \subseteq Grant(h)
    BY <2>1
  <2>3. QED BY <2>2, FS_Subset
<1>4. QED BY <1>1, <1>2, <1>3, GrantMore

LEMMA GrantNone ==
  ASSUME NEW h \in [Caller -> Nat], IsFiniteSet(Grant(h))
  PROVE  /\ Cardinality(Grant(h)) \in Nat
         /\ Cardinality(Grant(h)) = 0 => \A c \in Caller : h[c] = 0
<1>1. Cardinality(Grant(h)) \in Nat
  BY FS_CardinalityType
<1>2. ASSUME Cardinality(Grant(h)) = 0, NEW c \in Caller PROVE h[c] = 0
  <2>1. Grant(h) = {}
    BY <1>2, FS_EmptySet
  <2>2. <<c, 1>> \notin Grant(h)
    BY <2>1
  <2>3. ~(1 \in 1 .. h[c])
    BY <2>2, GrantIs
  <2>4. QED BY <2>3
<1>3. QED BY <1>1, <1>2

LEMMA GrantZero ==
  ASSUME NEW h \in [Caller -> Nat], \A c \in Caller : h[c] = 0
  PROVE  IsFiniteSet(Grant(h)) /\ Cardinality(Grant(h)) = 0
<1>1. Grant(h) = {}
  <2> SUFFICES ASSUME NEW y \in Grant(h) PROVE FALSE
    OBVIOUS
  <2>1. PICK d \in Caller, n \in Int : y = <<d, n>> /\ n \in 1 .. h[d]
    BY GrantPairs
  <2>2. QED BY <2>1
<1>2. QED BY <1>1, FS_EmptySet


Holding == [Lockable -> [Caller -> [Modes -> Nat]]]

Of(h, o, md) == [c \in Caller |-> h[o][c][md]]

(* The byte of a lock with w writers and r readers.                         *)
LockIs(l, w, r) ==
  /\ l = [write |-> l.write, count |-> l.count]
  /\ l.count = w + r /\ w \in Nat /\ r \in Nat
  /\ l.write \in BOOLEAN /\ (l.write <=> w > 0)
  /\ w > 0 => w = 1 /\ r = 0

LockInv ==
  /\ lock = [o \in Lockable |-> lock[o]]
  /\ holds \in Holding
  /\ printed \in Nat
  /\ \A o \in Lockable, md \in Modes : IsFiniteSet(Grant(Of(holds, o, md)))
  /\ \A o \in Lockable : LockIs(lock[o], Holders(o, "WRITE"), Holders(o, "READ"))

RecursiveInv ==
  /\ recursive = [write |-> FALSE, count |-> recursive.count]
  /\ counted \in [Caller -> Nat]
  /\ IsFiniteSet(Grant(counted))
  /\ RecursiveCounts

Sets(h, g, o, c, md, v) ==
  /\ g \in Holding
  /\ Of(h, o, md) \in [Caller -> Nat] /\ Of(h, o, md)[c] = h[o][c][md]
  /\ Of(g, o, md) = [Of(h, o, md) EXCEPT ![c] = v]
  /\ \A p \in Lockable, k \in Modes : p # o \/ k # md => Of(g, p, k) = Of(h, p, k)

SetTo(h, o, c, md, v) == [h EXCEPT ![o][c][md] = v]

LEMMA OfExcept ==
  ASSUME NEW h \in Holding, NEW o \in Lockable, NEW c \in Caller, NEW md \in Modes,
         NEW v \in Nat
  PROVE  Sets(h, SetTo(h, o, c, md, v), o, c, md, v)
<1> DEFINE g == [h EXCEPT ![o][c][md] = v]
<1>1. g \in Holding
  BY DEF Holding
<1>2. \A p \in Lockable, d \in Caller, k \in Modes :
        g[p][d][k] = IF p = o /\ d = c /\ k = md THEN v ELSE h[p][d][k]
  <2>1. \A p \in Lockable : g[p] = IF p = o THEN [h[o] EXCEPT ![c][md] = v] ELSE h[p]
    BY DEF Holding
  <2>2. \A d \in Caller : g[o][d] = IF d = c THEN [h[o][c] EXCEPT ![md] = v] ELSE h[o][d]
    BY <2>1 DEF Holding
  <2>3. \A k \in Modes : g[o][c][k] = IF k = md THEN v ELSE h[o][c][k]
    BY <2>2 DEF Holding
  <2>4. QED BY <2>1, <2>2, <2>3
<1> HIDE DEF g
<1>3. Of(h, o, md) \in [Caller -> Nat] /\ Of(h, o, md)[c] = h[o][c][md]
  <2>1. \A d \in Caller : h[o][d][md] \in Nat
    BY DEF Holding
  <2>2. QED BY <2>1 DEF Of
<1>4. Of(g, o, md) = [Of(h, o, md) EXCEPT ![c] = v]
  <2>1. \A d \in Caller : g[o][d][md] = IF d = c THEN v ELSE h[o][d][md]
    BY <1>2
  <2>2. Of(g, o, md) = [d \in Caller |-> IF d = c THEN v ELSE h[o][d][md]]
    BY <2>1 DEF Of
  <2>3. QED BY <2>2 DEF Of
<1>5. ASSUME NEW p \in Lockable, NEW k \in Modes, p # o \/ k # md
      PROVE  Of(g, p, k) = Of(h, p, k)
  BY <1>2, <1>5 DEF Of
<1>6. QED BY <1>1, <1>3, <1>4, <1>5 DEF Sets, SetTo, g

(* One more or one less holder of o in md; the others stay.               *)
LEMMA HoldersMore ==
  ASSUME LockInv, NEW o \in Lockable, NEW c \in Caller, NEW md \in Modes,
         holds' = [holds EXCEPT ![o][c][md] = holds[o][c][md] + 1], printed' = printed
  PROVE  /\ holds' \in Holding
         /\ \A p \in Lockable, k \in Modes : IsFiniteSet(Grant(Of(holds', p, k)))
         /\ Holders(o, md)' = Holders(o, md) + 1
         /\ \A p \in Lockable, k \in Modes : p # o \/ k # md => Holders(p, k)' = Holders(p, k)
<1> DEFINE h == holds
           g == holds'
           n == h[o][c][md]
           s == Of(h, o, md)
           t == Of(g, o, md)
<1>1. n \in Nat /\ n + 1 \in Nat
  BY DEF LockInv, Holding
<1>2. h \in Holding /\ g = [h EXCEPT ![o][c][md] = n + 1]
  BY DEF LockInv
<1>3. /\ g \in Holding /\ s \in [Caller -> Nat] /\ s[c] = n /\ t = [s EXCEPT ![c] = n + 1]
      /\ \A p \in Lockable, k \in Modes : p # o \/ k # md => Of(g, p, k) = Of(h, p, k)
  <2> DEFINE v == n + 1
  <2>1. v \in Nat /\ h \in Holding /\ g = SetTo(h, o, c, md, v)
    BY <1>1, <1>2 DEF SetTo
  <2> HIDE DEF g, h, v, n
  <2>2. Sets(h, g, o, c, md, v)
    BY <2>1, OfExcept
  <2>3. QED BY <2>2 DEF Sets, v, n
<1>4. IsFiniteSet(Grant(s))
  BY DEF LockInv
<1>5. IsFiniteSet(Grant(t)) /\ Cardinality(Grant(t)) = Cardinality(Grant(s)) + 1
  <2> HIDE DEF g, h, n, s, t
  <2>1. t = [s EXCEPT ![c] = s[c] + 1] BY <1>3
  <2>2. QED BY ONLY <1>3, <1>4, <2>1, c \in Caller, GrantMore, ZenonT(60)
<1>6. Cardinality(Grant(s)) \in Nat
  BY <1>3, <1>4, FS_CardinalityType
<1>7. \A p \in Lockable, k \in Modes : IsFiniteSet(Grant(Of(g, p, k)))
  BY <1>3, <1>5 DEF LockInv
<1>8. Holders(o, md)' = Holders(o, md) + 1
  BY <1>5, <1>6 DEF Holders, Of, LockInv
<1>9. ASSUME NEW p \in Lockable, NEW k \in Modes, p # o \/ k # md
      PROVE  Holders(p, k)' = Holders(p, k)
  BY <1>3, <1>9 DEF Holders, Of
<1>10. QED BY <1>3, <1>7, <1>8, <1>9

LEMMA HoldersLess ==
  ASSUME LockInv, NEW o \in Lockable, NEW c \in Caller, NEW md \in Modes,
         holds[o][c][md] > 0,
         holds' = [holds EXCEPT ![o][c][md] = holds[o][c][md] - 1], printed' = printed
  PROVE  /\ holds' \in Holding
         /\ \A p \in Lockable, k \in Modes : IsFiniteSet(Grant(Of(holds', p, k)))
         /\ Holders(o, md) = Holders(o, md)' + 1 /\ Holders(o, md)' \in Nat
         /\ \A p \in Lockable, k \in Modes : p # o \/ k # md => Holders(p, k)' = Holders(p, k)
<1> DEFINE h == holds
           g == holds'
           n == h[o][c][md]
           s == Of(h, o, md)
           t == Of(g, o, md)
<1>1. n \in Nat /\ n - 1 \in Nat
  BY DEF LockInv, Holding
<1>2. h \in Holding /\ g = [h EXCEPT ![o][c][md] = n - 1]
  BY DEF LockInv
<1>3. /\ g \in Holding /\ s \in [Caller -> Nat] /\ s[c] = n /\ t = [s EXCEPT ![c] = n - 1]
      /\ \A p \in Lockable, k \in Modes : p # o \/ k # md => Of(g, p, k) = Of(h, p, k)
  <2> DEFINE v == n - 1
  <2>1. v \in Nat /\ h \in Holding /\ g = SetTo(h, o, c, md, v)
    BY <1>1, <1>2 DEF SetTo
  <2> HIDE DEF g, h, v, n
  <2>2. Sets(h, g, o, c, md, v)
    BY <2>1, OfExcept
  <2>3. QED BY <2>2 DEF Sets, v, n
<1>4. IsFiniteSet(Grant(s)) /\ n > 0
  BY DEF LockInv
<1>5. IsFiniteSet(Grant(t)) /\ Cardinality(Grant(s)) = Cardinality(Grant(t)) + 1
  <2> HIDE DEF g, h, n, s, t
  <2>1. s[c] > 0 /\ t = [s EXCEPT ![c] = s[c] - 1] BY <1>3, <1>4
  <2>2. QED BY ONLY <1>3, <1>4, <2>1, c \in Caller, GrantLess, ZenonT(60)
<1>6. Cardinality(Grant(t)) \in Nat
  BY <1>5, FS_CardinalityType
<1>7. \A p \in Lockable, k \in Modes : IsFiniteSet(Grant(Of(g, p, k)))
  BY <1>3, <1>5 DEF LockInv
<1>8. Holders(o, md) = Holders(o, md)' + 1 /\ Holders(o, md)' \in Nat
  BY <1>5, <1>6 DEF Holders, Of, LockInv
<1>9. ASSUME NEW p \in Lockable, NEW k \in Modes, p # o \/ k # md
      PROVE  Holders(p, k)' = Holders(p, k)
  BY <1>3, <1>9 DEF Holders, Of
<1>10. QED BY <1>3, <1>7, <1>8, <1>9


LEMMA LockKeeps ==
  ASSUME LockInv, NEW c \in Caller, NEW o \in Lockable, NEW md \in Modes,
         UtilLock(c, o, md)
  PROVE  LockInv'
<1>1. CASE ~Grants(o, md)
  BY <1>1 DEF UtilLock, LockInv, Holders
<1>2. CASE Grants(o, md)
  <2> DEFINE b == [write |-> md = "WRITE", count |-> lock[o].count + 1]
             w == Holders(o, "WRITE")
             r == Holders(o, "READ")
             w2 == Holders(o, "WRITE")'
             r2 == Holders(o, "READ")'
  <2>1. /\ lock' = [lock EXCEPT ![o] = b]
        /\ holds' = [holds EXCEPT ![o][c][md] = holds[o][c][md] + 1]
        /\ printed' = printed
    BY <1>2 DEF UtilLock
  <2>2. /\ holds' \in Holding
        /\ \A p \in Lockable, k \in Modes : IsFiniteSet(Grant(Of(holds', p, k)))
        /\ Holders(o, md)' = Holders(o, md) + 1
        /\ \A p \in Lockable, k \in Modes : p # o \/ k # md => Holders(p, k)' = Holders(p, k)
    BY <2>1, HoldersMore
  <2>3. /\ lock' = [p \in Lockable |-> lock'[p]] /\ lock'[o] = b
        /\ \A p \in Lockable : p # o => lock'[p] = lock[p]
    BY <2>1 DEF LockInv
  <2>4. LockIs(lock[o], w, r)
    BY DEF LockInv
  <2>5. \/ md = "WRITE" /\ w2 = w + 1 /\ r2 = r
        \/ md = "READ" /\ w2 = w /\ r2 = r + 1
    BY <2>2 DEF Modes
  <2>6. IF md = "READ" THEN ~lock[o].write ELSE lock[o].count = 0
    BY <1>2 DEF Grants
  <2>7. /\ b.count = lock[o].count + 1 /\ b.write = (md = "WRITE")
        /\ b = [write |-> b.write, count |-> b.count]
    OBVIOUS
  <2> HIDE DEF b, w, r, w2, r2
  <2>8. LockIs(b, w2, r2)
    <3>1. CASE md = "WRITE"
      <4>1. w = 0 /\ r = 0 /\ w2 = 1 /\ r2 = 0 /\ b.count = 1
        BY <2>4, <2>5, <2>6, <2>7, <3>1 DEF LockIs
      <4>2. b.write = TRUE /\ 1 \in Nat /\ 0 \in Nat
        BY <2>7, <3>1
      <4>3. b.count = w2 + r2 /\ w2 \in Nat /\ r2 \in Nat /\ w2 > 0
        BY <4>1
      <4>4. b.write \in BOOLEAN /\ (b.write <=> w2 > 0)
        BY <4>2, <4>3, Zenon
      <4>5. QED BY <2>7, <4>1, <4>3, <4>4 DEF LockIs
    <3>2. CASE md = "READ"
      <4>1. w = 0 /\ r \in Nat /\ w2 = 0 /\ r2 = r + 1 /\ b.count = r + 1
        BY <2>4, <2>5, <2>6, <2>7, <3>2 DEF LockIs
      <4>2. b.write = FALSE
        BY <2>7, <3>2
      <4>3. b.count = w2 + r2 /\ w2 \in Nat /\ r2 \in Nat /\ ~(w2 > 0)
        BY <4>1
      <4>4. b.write \in BOOLEAN /\ (b.write <=> w2 > 0)
        BY <4>2, <4>3, Zenon
      <4>5. QED BY <2>7, <4>3, <4>4 DEF LockIs
    <3>3. QED BY <3>1, <3>2 DEF Modes
  <2>9. ASSUME NEW p \in Lockable
        PROVE  LockIs(lock'[p], Holders(p, "WRITE")', Holders(p, "READ")')
    <3>1. CASE p = o
      BY <2>3, <2>8, <3>1 DEF w2, r2
    <3>2. CASE p # o
      <4>1. Holders(p, "WRITE")' = Holders(p, "WRITE") /\ Holders(p, "READ")' = Holders(p, "READ")
        BY <2>2, <3>2 DEF Modes
      <4>2. QED BY <2>3, <3>2, <4>1 DEF LockInv
    <3>3. QED BY <3>1, <3>2
  <2>10. QED BY <2>1, <2>2, <2>3, <2>9 DEF LockInv
<1>3. QED BY <1>1, <1>2

LEMMA UnlockKeeps ==
  ASSUME LockInv, NEW c \in Caller, NEW o \in Lockable, NEW md \in Modes,
         UtilUnlock(c, o, md)
  PROVE  LockInv'
<1> DEFINE n == IF lock[o].count > 0 THEN lock[o].count - 1 ELSE 0
           b == [write |-> lock[o].write /\ n # 0, count |-> n]
           w == Holders(o, "WRITE")
           r == Holders(o, "READ")
           w2 == Holders(o, "WRITE")'
           r2 == Holders(o, "READ")'
<1>1. /\ lock' = [lock EXCEPT ![o] = b]
      /\ holds[o][c][md] > 0
      /\ holds' = [holds EXCEPT ![o][c][md] = holds[o][c][md] - 1]
      /\ printed' = printed
  BY DEF UtilUnlock, ModeAfterUnlock
<1>2. /\ holds' \in Holding
      /\ \A p \in Lockable, k \in Modes : IsFiniteSet(Grant(Of(holds', p, k)))
      /\ Holders(o, md) = Holders(o, md)' + 1 /\ Holders(o, md)' \in Nat
      /\ \A p \in Lockable, k \in Modes : p # o \/ k # md => Holders(p, k)' = Holders(p, k)
  BY <1>1, HoldersLess
<1>3. /\ lock' = [p \in Lockable |-> lock'[p]] /\ lock'[o] = b
      /\ \A p \in Lockable : p # o => lock'[p] = lock[p]
  BY <1>1 DEF LockInv
<1>4. LockIs(lock[o], w, r)
  BY DEF LockInv
<1>5. \/ md = "WRITE" /\ w = w2 + 1 /\ w2 \in Nat /\ r2 = r
      \/ md = "READ" /\ w2 = w /\ r = r2 + 1 /\ r2 \in Nat
  BY <1>2 DEF Modes
<1>6. /\ b.count = n /\ b.write = (lock[o].write /\ n # 0)
      /\ b = [write |-> b.write, count |-> b.count]
  OBVIOUS
<1>7. n = IF lock[o].count > 0 THEN lock[o].count - 1 ELSE 0
  OBVIOUS
<1> HIDE DEF n, b, w, r, w2, r2
<1>8. LockIs(b, w2, r2)
  <2>1. w2 = 0 /\ r2 \in Nat /\ n = r2
    BY <1>4, <1>5, <1>7 DEF LockIs
  <2>2. ~(lock[o].write /\ n # 0)
    BY <1>4, <1>5, <1>7 DEF LockIs
  <2>3. b.write = FALSE
    BY <1>6, <2>2
  <2>4. QED BY <1>6, <2>1, <2>3 DEF LockIs
<1>9. ASSUME NEW p \in Lockable
      PROVE  LockIs(lock'[p], Holders(p, "WRITE")', Holders(p, "READ")')
  <2>1. CASE p = o
    BY <1>3, <1>8, <2>1 DEF w2, r2
  <2>2. CASE p # o
    <3>1. Holders(p, "WRITE")' = Holders(p, "WRITE") /\ Holders(p, "READ")' = Holders(p, "READ")
      BY <1>2, <2>2 DEF Modes
    <3>2. QED BY <1>3, <2>2, <3>1 DEF LockInv
  <2>3. QED BY <2>1, <2>2
<1>10. QED BY <1>1, <1>2, <1>3, <1>9 DEF LockInv

LEMMA PrintKeeps == ASSUME LockInv, ListPrintToBuffer PROVE LockInv'
<1> DEFINE b == [lock["list"] EXCEPT !.count = @ + 1]
           w == Holders("list", "WRITE")
           r == Holders("list", "READ")
<1>1. /\ lock' = [lock EXCEPT !["list"].count = @ + 1]
      /\ ~lock["list"].write /\ printed' = printed + 1 /\ holds' = holds
      /\ printed \in Nat /\ "list" \in Lockable /\ lock = [o \in Lockable |-> lock[o]]
  BY DEF ListPrintToBuffer, Grants, LockInv, Lockable
<1>2. LockIs(lock["list"], w, r)
  BY <1>1 DEF LockInv
<1>3. w = 0 /\ r \in Nat /\ lock["list"].count = r
  BY <1>1, <1>2 DEF LockIs
<1>4. /\ Holders("list", "WRITE")' = w /\ Holders("list", "READ")' = r + 1
      /\ \A k \in Modes : Holders("node", k)' = Holders("node", k)
  <2>1. IsFiniteSet(Grant([c \in Caller |-> holds["list"][c]["READ"]]))
    BY <1>1 DEF LockInv, Of, Modes
  <2>2. Cardinality(Grant([c \in Caller |-> holds["list"][c]["READ"]])) \in Nat
    BY <2>1, FS_CardinalityType
  <2>3. QED BY <1>1, <2>2 DEF Holders
<1>5. /\ lock' = [o \in Lockable |-> lock'[o]]
      /\ lock'["node"] = lock["node"]
      /\ lock'["list"].count = r + 1 /\ lock'["list"].write = lock["list"].write
      /\ lock'["list"] = [write |-> lock'["list"].write, count |-> lock'["list"].count]
  <2>1. /\ lock' = [o \in Lockable |-> lock'[o]] /\ lock'["node"] = lock["node"]
        /\ lock'["list"] = [lock["list"] EXCEPT !.count = lock["list"].count + 1]
    BY <1>1 DEF Lockable
  <2>2. PICK f, n : lock["list"] = [write |-> f, count |-> n]
    BY <1>2 DEF LockIs
  <2>3. lock'["list"] = [write |-> f, count |-> n + 1]
    BY <2>1, <2>2
  <2>4. QED BY <1>3, <2>1, <2>2, <2>3
<1> HIDE DEF b, w, r
<1>6. LockIs(lock'["list"], w, r + 1)
  <2>1. lock["list"].write \in BOOLEAN /\ (lock["list"].write <=> w > 0)
    BY <1>2 DEF LockIs
  <2>2. lock'["list"].write \in BOOLEAN /\ (lock'["list"].write <=> w > 0)
    BY <1>5, <2>1, Zenon
  <2>3. /\ lock'["list"].count = w + (r + 1) /\ w \in Nat /\ r + 1 \in Nat
        /\ w > 0 => w = 1 /\ r + 1 = 0
    BY <1>3, <1>5
  <2>4. QED BY <1>5, <2>2, <2>3 DEF LockIs
<1>7. LockIs(lock'["node"], Holders("node", "WRITE")', Holders("node", "READ")')
  BY <1>4, <1>5 DEF LockInv, Lockable, Modes
<1>8. \A o \in Lockable : LockIs(lock'[o], Holders(o, "WRITE")', Holders(o, "READ")')
  BY <1>4, <1>6, <1>7 DEF Lockable
<1>9. QED BY <1>1, <1>5, <1>8 DEF LockInv

LEMMA CountExcept ==
  ASSUME NEW r, r = [write |-> FALSE, count |-> r.count], NEW k
  PROVE  [r EXCEPT !.count = k] = [write |-> FALSE, count |-> k]
<1>1. \A f, n : [[write |-> f, count |-> n] EXCEPT !.count = k] = [write |-> f, count |-> k]
  OBVIOUS
<1>2. QED BY <1>1, Zenon

LEMMA RecursiveLockKeeps ==
  ASSUME RecursiveInv, NEW c \in Caller, NEW md \in Modes, RecursiveLockLock(c, md)
  PROVE  RecursiveInv'
<1>1. CASE UNCHANGED <<recursive, counted>>
  BY <1>1 DEF RecursiveInv, RecursiveCounts
<1>2. CASE /\ recursive' = [recursive EXCEPT !.count = recursive.count + 1]
           /\ counted' = [counted EXCEPT ![c] = counted[c] + 1]
  <2>1. /\ counted' \in [Caller -> Nat] /\ IsFiniteSet(Grant(counted'))
        /\ Cardinality(Grant(counted')) = Cardinality(Grant(counted)) + 1
    BY <1>2, GrantMore DEF RecursiveInv
  <2>2. recursive' = [write |-> FALSE, count |-> recursive.count + 1]
    BY <1>2, CountExcept DEF RecursiveInv
  <2>3. recursive'.count = recursive.count + 1
    BY <2>2
  <2>4. QED BY <2>1, <2>2, <2>3 DEF RecursiveInv, RecursiveCounts
<1>3. QED BY <1>1, <1>2 DEF RecursiveLockLock

LEMMA RecursiveUnlockKeeps ==
  ASSUME RecursiveInv, NEW c \in Caller, RecursiveLockUnlock(c)
  PROVE  RecursiveInv'
<1>1. /\ Cardinality(Grant(counted)) \in Nat /\ counted \in [Caller -> Nat]
      /\ IsFiniteSet(Grant(counted))
      /\ Cardinality(Grant(counted)) = 0 => \A d \in Caller : counted[d] = 0
      /\ recursive.count = Cardinality(Grant(counted))
  BY GrantNone DEF RecursiveInv, RecursiveCounts
<1>2. CASE counted[c] = 0
  <2>1. recursive.count = 0
    BY <1>2 DEF RecursiveLockUnlock
  <2>2. recursive' = [write |-> FALSE, count |-> 0]
    <3>1. recursive' = [recursive EXCEPT !.count = 0]
      BY <2>1 DEF RecursiveLockUnlock, LOCK_COUNT_DEC
    <3>2. QED BY <3>1, CountExcept DEF RecursiveInv
  <2>3. counted' = counted
    BY <1>1, <1>2 DEF RecursiveLockUnlock
  <2>4. QED BY <1>1, <2>1, <2>2, <2>3 DEF RecursiveInv, RecursiveCounts
<1>3. CASE counted[c] > 0
  <2>1. counted' = [counted EXCEPT ![c] = counted[c] - 1]
    <3>1. counted' = [counted EXCEPT ![c] = IF counted[c] > 0 THEN counted[c] - 1 ELSE 0]
      BY DEF RecursiveLockUnlock
    <3>2. (IF counted[c] > 0 THEN counted[c] - 1 ELSE 0) = counted[c] - 1
      BY <1>3
    <3>3. QED BY <3>1, <3>2
  <2>2. /\ counted' \in [Caller -> Nat] /\ IsFiniteSet(Grant(counted'))
        /\ Cardinality(Grant(counted)) = Cardinality(Grant(counted')) + 1
    <3>1. ASSUME NEW h, NEW g, h \in [Caller -> Nat], IsFiniteSet(Grant(h)), h[c] > 0,
                 g = [h EXCEPT ![c] = h[c] - 1]
          PROVE  /\ g \in [Caller -> Nat] /\ IsFiniteSet(Grant(g))
                 /\ Cardinality(Grant(h)) = Cardinality(Grant(g)) + 1
      BY ONLY <3>1, c \in Caller, GrantLess
    <3>2. QED BY ONLY <1>1, <1>3, <2>1, <3>1, Zenon
  <2>3. Cardinality(Grant(counted')) \in Nat
    BY <2>2, FS_CardinalityType
  <2>4. recursive.count > 0
    BY <1>1, <2>2, <2>3
  <2>5. recursive' = [write |-> FALSE, count |-> recursive.count - 1]
    <3>1. recursive' = [recursive EXCEPT !.count = recursive.count - 1]
      BY <2>4 DEF RecursiveLockUnlock, LOCK_COUNT_DEC
    <3>2. QED BY <3>1, CountExcept DEF RecursiveInv
  <2>6. QED BY <1>1, <2>2, <2>3, <2>5 DEF RecursiveInv, RecursiveCounts
<1>4. QED BY <1>1, <1>2, <1>3


LEMMA LocksInvInit == LocksInit => LockInv /\ RecursiveInv
<1> SUFFICES ASSUME LocksInit PROVE LockInv /\ RecursiveInv
  OBVIOUS
<1>1. /\ holds = [o \in Lockable |-> [c \in Caller |-> [m \in Modes |-> 0]]]
      /\ lock = [o \in Lockable |-> [write |-> FALSE, count |-> 0]]
      /\ printed = 0 /\ counted = [c \in Caller |-> 0]
      /\ recursive = [write |-> FALSE, count |-> 0]
  BY DEF LocksInit
<1>2. holds \in Holding
  BY <1>1 DEF Holding
<1>3. ASSUME NEW o \in Lockable, NEW k \in Modes
      PROVE  /\ IsFiniteSet(Grant(Of(holds, o, k)))
             /\ Cardinality(Grant(Of(holds, o, k))) = 0 /\ Holders(o, k) = 0
  <2>1. Of(holds, o, k) = [c \in Caller |-> 0]
    BY <1>1 DEF Of
  <2>2. Of(holds, o, k) \in [Caller -> Nat] /\ \A c \in Caller : Of(holds, o, k)[c] = 0
    BY <2>1
  <2>3. IsFiniteSet(Grant(Of(holds, o, k))) /\ Cardinality(Grant(Of(holds, o, k))) = 0
    BY <2>2, GrantZero
  <2>4. QED BY <1>1, <2>3 DEF Holders, Of
<1>4. LockInv
  <2>1. ASSUME NEW o \in Lockable
        PROVE  LockIs(lock[o], Holders(o, "WRITE"), Holders(o, "READ"))
    <3>1. Holders(o, "WRITE") = 0 /\ Holders(o, "READ") = 0
      BY <1>3 DEF Modes
    <3>2. lock[o] = [write |-> FALSE, count |-> 0]
      BY <1>1
    <3>3. lock[o].count = 0 /\ lock[o].write = FALSE
      BY <3>2
    <3>4. lock[o] = [write |-> lock[o].write, count |-> lock[o].count]
      BY <3>2, <3>3
    <3>5. lock[o].write \in BOOLEAN /\ ~lock[o].write
      BY <3>3
    <3>6. ~(Holders(o, "WRITE") > 0)
      BY <3>1
    <3>7. lock[o].write <=> Holders(o, "WRITE") > 0
      BY <3>5, <3>6, Zenon
    <3>8. QED BY <3>1, <3>3, <3>4, <3>5, <3>6, <3>7 DEF LockIs
  <2>2. lock = [o \in Lockable |-> lock[o]]
    BY <1>1
  <2>3. QED BY <1>1, <1>2, <1>3, <2>1, <2>2 DEF LockInv
<1>5. RecursiveInv
  <2>1. counted \in [Caller -> Nat] /\ \A c \in Caller : counted[c] = 0
    BY <1>1
  <2>2. IsFiniteSet(Grant(counted)) /\ Cardinality(Grant(counted)) = 0
    BY <2>1, GrantZero
  <2>3. recursive.count = 0
    BY <1>1
  <2>4. recursive = [write |-> FALSE, count |-> recursive.count]
    BY <1>1, <2>3
  <2>5. QED BY <2>1, <2>2, <2>3, <2>4 DEF RecursiveInv, RecursiveCounts
<1>6. QED BY <1>4, <1>5

LEMMA LocksInvNext ==
  LockInv /\ RecursiveInv /\ [LocksNext]_lockVars => LockInv' /\ RecursiveInv'
<1> SUFFICES ASSUME LockInv, RecursiveInv, [LocksNext]_lockVars
             PROVE  LockInv' /\ RecursiveInv'
  OBVIOUS
<1>1. UNCHANGED <<recursive, counted>> => RecursiveInv'
  BY DEF RecursiveInv, RecursiveCounts
<1>2. UNCHANGED <<lock, holds, printed>> => LockInv'
  BY DEF LockInv, Holders
<1>3. ASSUME NEW c \in Caller, NEW md \in Modes,
             ListLock(c, md) \/ ListNodeLock(c, md)
      PROVE  LockInv' /\ RecursiveInv'
  <2>1. PICK o \in Lockable : UtilLock(c, o, md)
    BY <1>3 DEF ListLock, ListNodeLock, Lockable
  <2>2. LockInv'
    BY <2>1, LockKeeps
  <2>3. QED BY <1>1, <2>1, <2>2 DEF UtilLock
<1>4. ASSUME NEW c \in Caller, NEW md \in Modes,
             ListUnlock(c, md) \/ ListNodeUnlock(c, md)
      PROVE  LockInv' /\ RecursiveInv'
  <2>1. PICK o \in Lockable : UtilUnlock(c, o, md)
    BY <1>4 DEF ListUnlock, ListNodeUnlock, Lockable
  <2>2. LockInv'
    BY <2>1, UnlockKeeps
  <2>3. QED BY <1>1, <2>1, <2>2 DEF UtilUnlock
<1>5. ASSUME NEW c \in Caller, NEW md \in Modes, RecursiveLockLock(c, md)
      PROVE  LockInv' /\ RecursiveInv'
  <2>1. RecursiveInv'
    BY <1>5, RecursiveLockKeeps
  <2>2. QED BY <1>2, <1>5, <2>1 DEF RecursiveLockLock
<1>6. ASSUME NEW c \in Caller, RecursiveLockUnlock(c)
      PROVE  LockInv' /\ RecursiveInv'
  <2>1. RecursiveInv'
    BY <1>6, RecursiveUnlockKeeps
  <2>2. QED BY <1>2, <1>6, <2>1 DEF RecursiveLockUnlock
<1>7. CASE ListPrintToBuffer
  BY <1>1, <1>7, PrintKeeps DEF ListPrintToBuffer
<1>8. CASE UNCHANGED lockVars
  BY <1>1, <1>2, <1>8 DEF lockVars
<1>9. QED BY <1>3, <1>4, <1>5, <1>6, <1>7, <1>8 DEF LocksNext

LEMMA LocksInvSafe == LockInv /\ RecursiveInv => LocksKept
<1> SUFFICES ASSUME LockInv, RecursiveInv PROVE WriterAlone
  BY DEF LocksKept, RecursiveInv
<1>1. ASSUME NEW o \in Lockable
      PROVE  /\ Holders(o, "WRITE") > 0 => Holders(o, "WRITE") = 1 /\ Holders(o, "READ") = 0
             /\ Holders(o, "WRITE") + Holders(o, "READ") = 0 => \A md \in Modes : Grants(o, md)
  <2>1. LockIs(lock[o], Holders(o, "WRITE"), Holders(o, "READ"))
    BY DEF LockInv
  <2>2. QED BY <2>1, LockAssumption DEF LockIs, Grants, Modes
<1>2. ListIsLocked <=> \E md \in Modes : Holders("list", md) > 0
  <2>1. LockIs(lock["list"], Holders("list", "WRITE"), Holders("list", "READ"))
    BY DEF LockInv, Lockable
  <2>2. QED BY <2>1 DEF LockIs, ListIsLocked, Modes
<1>3. QED BY <1>1, <1>2 DEF WriterAlone

(* For every set of callers and every limit of the counts, in every         *)
(* sequence of calls: a writer of a list or a node is alone, nothing of a   *)
(* refused or an ended lock stays in the byte, ListIsLocked is right, and   *)
(* the recursive lock counts its holders.                                   *)
THEOREM LocksAlwaysKept == LocksInit /\ [][LocksNext]_lockVars => []LocksKept
BY LocksInvInit, LocksInvNext, LocksInvSafe, PTL


(* The run time (RunTime).                                                   *)
(* The time since the last tick: a whole period once the tick is pending.  *)
Elapsed == IF irq THEN Period ELSE timer

(* How far the run time is behind the clock, and the task's behind the     *)
(* time since it was dispatched.                                           *)
Spare == clock + races * Period - (hours * Hour + micros)
TaskSpare == clock - since - run_time

(* No call of ICoreTickInvoke is under way, or its tick has been.          *)
Quiet == cpu.at \in {"task", "read", "have"} \/ (cpu.at = "spin" /\ ~dispatch)

TimeTypes ==
  /\ clock \in Nat /\ timer \in 0 .. (Period - 1) /\ (irq => timer = 0)
  /\ t_accu \in Nat /\ micros \in Nat /\ hours \in Nat
  /\ last_micros \in Nat /\ run_time \in Int /\ races \in Nat /\ since \in Int

CpuIs ==
  /\ cpu = [at |-> cpu.at, tc |-> cpu.tc, accu |-> cpu.accu, h |-> cpu.h, m |-> cpu.m,
            start |-> cpu.start, end |-> cpu.end]
  /\ cpu.at \in {"task", "add", "sum", "flag", "force", "spin", "read", "have"}

(* What ICoreTickInvoke is about to add, or has added, has passed since    *)
(* the last tick, or a tick came meanwhile and allows for a period more.   *)
SystemTime ==
  /\ Spare >= t_accu
  /\ Quiet => t_accu = 0 /\ Spare >= Elapsed
  /\ cpu.at \in {"add", "sum"} =>
       /\ t_accu = 0 /\ Spare >= Elapsed
       /\ cpu.tc \in 0 .. (Period - 1)
       /\ cpu.tc <= Elapsed \/ Spare >= Elapsed + cpu.tc
  /\ cpu.at = "sum" => cpu.accu = 0
  /\ dispatch => cpu.at \in {"force", "spin"}
  /\ cpu.at = "force" /\ ~dispatch => Spare >= Period /\ t_accu = 0
  /\ cpu.at = "spin" /\ dispatch => irq

TaskTime ==
  /\ cpu.at = "force" => dispatch \/ turned
  /\ \/ turned
     \/ /\ last_micros = micros /\ TaskSpare >= 0
        /\ Quiet => TaskSpare >= Elapsed

Reads ==
  /\ cpu.at = "read" =>
       /\ cpu.start = <<cpu.start[1], cpu.start[2]>> /\ cpu.start[1] \in Nat /\ cpu.start[2] \in Nat
       /\ cpu.h = cpu.start[1] /\ hours >= cpu.start[1]
       /\ hours = cpu.start[1] => micros >= cpu.start[2]
  /\ cpu.at = "have" =>
       /\ cpu.start[1] \in Nat /\ cpu.start[2] \in Nat /\ cpu.end[1] \in Nat /\ cpu.end[2] \in Nat
       /\ cpu.h = cpu.start[1] /\ cpu.m = cpu.end[2] /\ cpu.end[1] >= cpu.start[1]
       /\ cpu.end[1] = cpu.start[1] => cpu.end[2] >= cpu.start[2]

TimeInv == TimeTypes /\ CpuIs /\ SystemTime /\ TaskTime /\ Reads

LEMMA TimesOne ==
  /\ \A h \in Nat : (h + 1) * Hour = h * Hour + Hour /\ h * Hour \in Nat
  /\ \A n \in Nat : (n + 1) * Period = n * Period + Period /\ n * Period \in Nat
BY RunTimeAssumption

LEMMA TimeInvInit == TimeInit => TimeInv
<1> SUFFICES ASSUME TimeInit PROVE TimeInv
  OBVIOUS
<1> USE RunTimeAssumption
<1>1. cpu.at = "task" /\ CpuIs
  BY DEF TimeInit, At0, CpuIs
<1>2. TimeTypes
  BY DEF TimeInit, TimeTypes
<1>3. Spare = 0 /\ TaskSpare = 0 /\ Elapsed = 0 /\ Quiet
  BY <1>1 DEF TimeInit, Spare, TaskSpare, Elapsed, Quiet
<1>4. SystemTime
  BY <1>1, <1>3 DEF SystemTime, TimeInit
<1>5. TaskTime
  <2>1. last_micros = micros /\ TaskSpare >= 0 /\ TaskSpare >= Elapsed /\ cpu.at # "force"
    BY <1>1, <1>3 DEF TimeInit
  <2>2. QED BY <2>1 DEF TaskTime
<1>6. Reads
  BY <1>1 DEF Reads
<1>7. QED BY <1>1, <1>2, <1>4, <1>5, <1>6 DEF TimeInv

LEMMA TimeNumbers ==
  ASSUME TimeTypes
  PROVE  Spare \in Int /\ TaskSpare \in Int /\ Elapsed \in Nat /\ timer \in Nat /\ timer < Period
BY RunTimeAssumption, TimesOne DEF TimeTypes, Spare, TaskSpare, Elapsed

LEMMA CountKeeps == ASSUME TimeInv, Count PROVE TimeInv'
<1> USE RunTimeAssumption
<1>1. /\ TimeTypes /\ CpuIs /\ SystemTime /\ TaskTime /\ Reads
      /\ Spare \in Int /\ TaskSpare \in Int /\ Elapsed \in Nat
  BY TimeNumbers DEF TimeInv
<1>2. /\ clock' = clock + 1 /\ t_accu' = t_accu /\ micros' = micros /\ hours' = hours
      /\ dispatch' = dispatch /\ last_micros' = last_micros /\ run_time' = run_time
      /\ cpu' = cpu /\ races' = races /\ since' = since /\ turned' = turned /\ ~irq
      /\ timer' = (timer + 1) % Period /\ irq' = (timer + 1 = Period)
  BY DEF Count
<1>3. Elapsed' = Elapsed + 1 /\ (irq' => timer' = 0) /\ timer' \in 0 .. (Period - 1)
  <2>1. timer \in Nat /\ Period \in Nat /\ timer + 1 <= Period /\ Elapsed = timer
    BY <1>1, <1>2 DEF TimeTypes, Elapsed
  <2>2. CASE timer + 1 = Period
    <3>1. timer' = 0
      BY <1>2, <2>1, <2>2
    <3>2. irq'
      BY <1>2, <2>2
    <3>3. QED BY <2>1, <2>2, <3>1, <3>2 DEF Elapsed
  <2>3. CASE timer + 1 < Period
    <3>1. timer' = timer + 1
      BY <1>2, <2>1, <2>3
    <3>2. ~(timer + 1 = Period)
      BY <2>1, <2>3
    <3>3. irq' = FALSE
      BY <1>2, <3>2, Zenon
    <3>4. Elapsed' = timer'
      BY <3>3, Zenon DEF Elapsed
    <3>5. ~irq'
      BY <3>3, Zenon
    <3>6. QED BY <2>1, <2>3, <3>1, <3>4, <3>5
  <2>4. QED BY <2>1, <2>2, <2>3
<1>4. Spare' = Spare + 1 /\ TaskSpare' = TaskSpare + 1
  BY <1>1, <1>2, TimesOne DEF Spare, TaskSpare, TimeTypes
<1>5. Quiet' = Quiet
  BY <1>2 DEF Quiet
<1>6. TimeTypes'
  BY <1>1, <1>2, <1>3 DEF TimeTypes
<1>7. CpuIs' /\ Reads'
  BY <1>1, <1>2 DEF CpuIs, Reads
<1>8. SystemTime'
  BY <1>1, <1>2, <1>3, <1>4, <1>5 DEF SystemTime, TimeTypes
<1>9. TaskTime'
  BY <1>1, <1>2, <1>3, <1>4, <1>5 DEF TaskTime
<1>10. QED BY <1>6, <1>7, <1>8, <1>9 DEF TimeInv

(* What a step of the running task leaves as it is.                        *)
Rest == UNCHANGED <<clock, micros, hours, last_micros, run_time, races, since, turned>>

LEMMA RestKeeps ==
  ASSUME TimeInv, Rest
  PROVE  /\ Spare' = Spare /\ TaskSpare' = TaskSpare
         /\ timer' = timer /\ irq' = irq => Elapsed' = Elapsed
         /\ timer' = timer /\ irq' = irq /\ t_accu' \in Nat => TimeTypes'
BY DEF Rest, Spare, TaskSpare, Elapsed, TimeInv, TimeTypes

LEMMA AtIs ==
  ASSUME NEW l \in {"task", "add", "sum", "flag", "force", "spin", "read", "have"},
         cpu' = At0(l)
  PROVE  cpu'.at = l /\ CpuIs'
<1>1. cpu' = [at |-> l, tc |-> 0, accu |-> 0, h |-> 0, m |-> 0,
              start |-> <<0, 0>>, end |-> <<0, 0>>]
  BY DEF At0
<1>2. QED BY <1>1 DEF CpuIs

LEMMA TicksGetKeeps == ASSUME TimeInv, TicksGet, Rest PROVE TimeInv'
<1> USE RunTimeAssumption
<1>1. /\ TimeTypes /\ SystemTime /\ TaskTime /\ cpu.at = "task" /\ ~irq
      /\ Spare \in Int /\ Elapsed \in Nat
      /\ cpu' = [at |-> "add", tc |-> timer, accu |-> 0, h |-> 0, m |-> 0,
                 start |-> <<0, 0>>, end |-> <<0, 0>>]
      /\ UNCHANGED <<t_accu, dispatch, timer, irq>>
  BY TimeNumbers DEF TimeInv, TicksGet, Go, At0
<1>2. cpu'.at = "add" /\ cpu'.tc = timer /\ CpuIs' /\ Reads'
  BY <1>1 DEF CpuIs, Reads
<1>3. Spare' = Spare /\ TaskSpare' = TaskSpare /\ Elapsed' = Elapsed /\ TimeTypes' /\ ~Quiet'
  BY <1>1, <1>2, RestKeeps DEF TimeTypes, Quiet
<1>4. SystemTime'
  <2>1. t_accu' = 0 /\ Spare >= Elapsed /\ Elapsed = timer /\ ~dispatch
    BY <1>1 DEF SystemTime, Quiet, Elapsed
  <2>2. timer \in 0 .. (Period - 1)
    BY <1>1 DEF TimeTypes
  <2>3. QED BY <1>1, <1>2, <1>3, <2>1, <2>2 DEF SystemTime
<1>5. TaskTime'
  BY <1>1, <1>2, <1>3 DEF TaskTime, Rest
<1>6. QED BY <1>2, <1>3, <1>4, <1>5 DEF TimeInv

LEMMA LoadKeeps == ASSUME TimeInv, AccumulateLoad, Rest PROVE TimeInv'
<1>1. /\ TimeTypes /\ CpuIs /\ SystemTime /\ TaskTime /\ cpu.at = "add" /\ ~irq
      /\ cpu' = [cpu EXCEPT !.at = "sum", !.accu = t_accu]
      /\ UNCHANGED <<t_accu, dispatch, timer, irq>>
  BY DEF TimeInv, AccumulateLoad, Go
<1>2. PICK l, tc, a, h, m, f, e :
        cpu = [at |-> l, tc |-> tc, accu |-> a, h |-> h, m |-> m, start |-> f, end |-> e]
  BY <1>1 DEF CpuIs
<1>3. cpu' = [at |-> "sum", tc |-> tc, accu |-> t_accu, h |-> h, m |-> m, start |-> f, end |-> e]
  BY <1>1, <1>2
<1>4. cpu'.at = "sum" /\ cpu'.accu = t_accu /\ cpu'.tc = cpu.tc /\ CpuIs' /\ Reads'
  BY <1>2, <1>3 DEF CpuIs, Reads
<1>5. Spare' = Spare /\ TaskSpare' = TaskSpare /\ Elapsed' = Elapsed /\ TimeTypes' /\ ~Quiet'
  BY <1>1, <1>4, RestKeeps DEF TimeTypes, Quiet
<1>6. SystemTime'
  BY <1>1, <1>4, <1>5 DEF SystemTime
<1>7. TaskTime'
  BY <1>1, <1>4, <1>5 DEF TaskTime, Rest
<1>8. QED BY <1>4, <1>5, <1>6, <1>7 DEF TimeInv

LEMMA StoreKeeps == ASSUME TimeInv, AccumulateStore, Rest PROVE TimeInv'
<1> USE RunTimeAssumption
<1>1. /\ TimeTypes /\ CpuIs /\ SystemTime /\ TaskTime /\ cpu.at = "sum" /\ ~irq
      /\ cpu' = [cpu EXCEPT !.at = "flag"] /\ Spare \in Int /\ Elapsed \in Nat
      /\ t_accu' = cpu.accu + cpu.tc
      /\ UNCHANGED <<dispatch, timer, irq>>
  BY TimeNumbers DEF TimeInv, AccumulateStore, Go
<1>2. PICK l, tc, a, h, m, f, e :
        cpu = [at |-> l, tc |-> tc, accu |-> a, h |-> h, m |-> m, start |-> f, end |-> e]
  BY <1>1 DEF CpuIs
<1>3. cpu' = [at |-> "flag", tc |-> tc, accu |-> a, h |-> h, m |-> m, start |-> f, end |-> e]
  BY <1>1, <1>2
<1>4. cpu'.at = "flag" /\ CpuIs' /\ Reads'
  BY <1>3 DEF CpuIs, Reads
<1>5. t_accu' = cpu.tc /\ t_accu' \in Nat /\ Spare >= cpu.tc
  BY <1>1 DEF SystemTime
<1>6. Spare' = Spare /\ TaskSpare' = TaskSpare /\ TimeTypes' /\ ~Quiet'
  BY <1>1, <1>4, <1>5, RestKeeps DEF Quiet
<1>7. SystemTime'
  BY <1>1, <1>4, <1>5, <1>6 DEF SystemTime
<1>8. TaskTime'
  BY <1>1, <1>4, <1>6 DEF TaskTime, Rest
<1>9. QED BY <1>4, <1>6, <1>7, <1>8 DEF TimeInv

LEMMA SetDispatchKeeps == ASSUME TimeInv, SetDispatch, Rest PROVE TimeInv'
<1>1. /\ TimeTypes /\ SystemTime /\ TaskTime /\ cpu.at = "flag"
      /\ cpu' = At0("force") /\ dispatch' = TRUE
      /\ UNCHANGED <<t_accu, timer, irq>>
  BY DEF TimeInv, SetDispatch, Go
<1>2. cpu'.at = "force" /\ CpuIs' /\ Reads' /\ dispatch'
  BY <1>1, AtIs DEF Reads
<1>3. Spare' = Spare /\ TaskSpare' = TaskSpare /\ TimeTypes' /\ ~Quiet'
  BY <1>1, <1>2, RestKeeps DEF Quiet, TimeTypes
<1>4. SystemTime'
  BY <1>1, <1>2, <1>3 DEF SystemTime
<1>5. TaskTime'
  BY <1>1, <1>2, <1>3 DEF TaskTime, Rest
<1>6. QED BY <1>2, <1>3, <1>4, <1>5 DEF TimeInv

LEMMA ForceKeeps == ASSUME TimeInv, ForceTick, Rest PROVE TimeInv'
<1> USE RunTimeAssumption
<1>1. /\ TimeTypes /\ SystemTime /\ TaskTime /\ cpu.at = "force"
      /\ cpu' = At0("spin") /\ timer' = 0 /\ irq' = TRUE
      /\ UNCHANGED <<t_accu, dispatch>>
  BY DEF TimeInv, ForceTick, Go
<1>2. cpu'.at = "spin" /\ CpuIs' /\ Reads' /\ irq'
  BY <1>1, AtIs DEF Reads
<1>3. Spare' = Spare /\ TaskSpare' = TaskSpare /\ Elapsed' = Period
  BY <1>2, RestKeeps DEF Elapsed
<1>4. TimeTypes'
  BY <1>1 DEF TimeTypes, Rest
<1>5. Quiet' <=> ~dispatch
  BY <1>1, <1>2 DEF Quiet
<1>6. SystemTime'
  BY <1>1, <1>2, <1>3, <1>5 DEF SystemTime
<1>7. TaskTime'
  BY <1>1, <1>2, <1>3, <1>5 DEF TaskTime, Rest
<1>8. QED BY <1>2, <1>4, <1>6, <1>7 DEF TimeInv

LEMMA BackKeeps ==
  ASSUME TimeInv, Rest, Quiet, cpu' = At0("task"), UNCHANGED <<t_accu, dispatch, timer, irq>>,
         ~dispatch
  PROVE  TimeInv'
<1>1. TimeTypes /\ SystemTime /\ TaskTime
  BY DEF TimeInv
<1>2. cpu'.at = "task" /\ CpuIs' /\ Reads' /\ Quiet'
  BY AtIs DEF Reads, Quiet
<1>3. Spare' = Spare /\ TaskSpare' = TaskSpare /\ Elapsed' = Elapsed /\ TimeTypes'
  BY <1>1, RestKeeps DEF TimeTypes
<1>4. SystemTime'
  BY <1>1, <1>2, <1>3 DEF SystemTime
<1>5. TaskTime'
  BY <1>1, <1>2, <1>3 DEF TaskTime, Rest
<1>6. QED BY <1>2, <1>3, <1>4, <1>5 DEF TimeInv
LEMMA CpuFields ==
  ASSUME NEW l \in {"task", "add", "sum", "flag", "force", "spin", "read", "have"},
         NEW tc, NEW a, NEW h, NEW m, NEW f, NEW e,
         cpu' = [at |-> l, tc |-> tc, accu |-> a, h |-> h, m |-> m, start |-> f, end |-> e]
  PROVE  /\ cpu'.at = l /\ cpu'.h = h /\ cpu'.m = m /\ cpu'.start = f /\ cpu'.end = e
         /\ CpuIs'
BY DEF CpuIs

LEMMA ReadFirstKeeps == ASSUME TimeInv, ReadFirst, Rest PROVE TimeInv'
<1>1. /\ TimeTypes /\ SystemTime /\ TaskTime /\ cpu.at = "task"
      /\ UNCHANGED <<t_accu, dispatch, timer, irq>>
      /\ cpu' = [At0("read") EXCEPT ![ReadOrder[1]] = Field(ReadOrder[1]),
                                    !.start = <<hours, micros>>]
  BY DEF TimeInv, ReadFirst, Go
<1>2. cpu' = [At0("read") EXCEPT !["h"] = hours, !.start = <<hours, micros>>]
  BY <1>1 DEF ReadOrder, Field
<1>3. cpu' = [at |-> "read", tc |-> 0, accu |-> 0, h |-> hours, m |-> 0,
              start |-> <<hours, micros>>, end |-> <<0, 0>>]
  BY <1>2 DEF At0
<1>4. /\ cpu'.at = "read" /\ cpu'.h = hours /\ cpu'.start = <<hours, micros>>
      /\ CpuIs' /\ Quiet' /\ Quiet
  <2>1. "read" \in {"task", "add", "sum", "flag", "force", "spin", "read", "have"}
    OBVIOUS
  <2>2. cpu'.at = "read" /\ cpu'.h = hours /\ cpu'.start = <<hours, micros>> /\ CpuIs'
    BY <1>3, <2>1, CpuFields, Zenon
  <2>3. QED BY <1>1, <2>2 DEF Quiet
<1>5. Reads'
  <2>1. cpu'.start[1] = hours /\ cpu'.start[2] = micros /\ hours' = hours /\ micros' = micros
    BY <1>4 DEF Rest
  <2>2. hours \in Nat /\ micros \in Nat
    BY <1>1 DEF TimeTypes
  <2>3. QED BY <1>4, <2>1, <2>2 DEF Reads
<1>6. Spare' = Spare /\ TaskSpare' = TaskSpare /\ Elapsed' = Elapsed /\ TimeTypes'
  BY <1>1, RestKeeps DEF TimeTypes
<1>7. SystemTime'
  BY <1>1, <1>4, <1>6 DEF SystemTime
<1>8. TaskTime'
  BY <1>1, <1>4, <1>6 DEF TaskTime, Rest
<1>9. QED BY <1>4, <1>5, <1>6, <1>7, <1>8 DEF TimeInv

LEMMA ReadSecondKeeps == ASSUME TimeInv, ReadSecond, Rest PROVE TimeInv'
<1>1. /\ TimeTypes /\ CpuIs /\ SystemTime /\ TaskTime /\ Reads /\ cpu.at = "read"
      /\ UNCHANGED <<t_accu, dispatch, timer, irq>>
      /\ cpu' = [cpu EXCEPT !.at = "have", ![ReadOrder[2]] = Field(ReadOrder[2]),
                            !.end = <<hours, micros>>]
  BY DEF TimeInv, ReadSecond, Go
<1>2. cpu' = [cpu EXCEPT !.at = "have", !["m"] = micros, !.end = <<hours, micros>>]
  BY <1>1 DEF ReadOrder, Field
<1>3. PICK l, tc, a, h, m, f, e :
        cpu = [at |-> l, tc |-> tc, accu |-> a, h |-> h, m |-> m, start |-> f, end |-> e]
  BY <1>1 DEF CpuIs
<1>4. cpu' = [at |-> "have", tc |-> tc, accu |-> a, h |-> h, m |-> micros, start |-> f,
              end |-> <<hours, micros>>]
  BY <1>2, <1>3
<1>5. /\ cpu'.at = "have" /\ cpu'.h = cpu.h /\ cpu'.m = micros /\ cpu'.start = cpu.start
      /\ cpu'.end = <<hours, micros>> /\ CpuIs' /\ Quiet' /\ Quiet
  <2>1. "have" \in {"task", "add", "sum", "flag", "force", "spin", "read", "have"}
    OBVIOUS
  <2>2. /\ cpu'.at = "have" /\ cpu'.h = h /\ cpu'.m = micros /\ cpu'.start = f
        /\ cpu'.end = <<hours, micros>> /\ CpuIs'
    BY <1>4, <2>1, CpuFields, Zenon
  <2>3. cpu.h = h /\ cpu.start = f
    BY <1>3
  <2>4. QED BY <1>1, <2>2, <2>3 DEF Quiet
<1>6. Reads'
  <2>1. cpu'.end[1] = hours /\ cpu'.end[2] = micros
    BY <1>5
  <2>2. hours \in Nat /\ micros \in Nat
    BY <1>1 DEF TimeTypes
  <2>3. QED BY <1>1, <1>5, <2>1, <2>2 DEF Reads
<1>7. Spare' = Spare /\ TaskSpare' = TaskSpare /\ Elapsed' = Elapsed /\ TimeTypes'
  BY <1>1, RestKeeps DEF TimeTypes
<1>8. SystemTime'
  BY <1>1, <1>5, <1>7 DEF SystemTime
<1>9. TaskTime'
  BY <1>1, <1>5, <1>7 DEF TaskTime, Rest
<1>10. QED BY <1>5, <1>6, <1>7, <1>8, <1>9 DEF TimeInv

LEMMA TickKeeps == ASSUME TimeInv, Tick PROVE TimeInv'
<1> USE RunTimeAssumption
<1> DEFINE add == IF dispatch THEN t_accu ELSE t_accu + Period
           sum == micros + add
<1>1. /\ TimeTypes /\ CpuIs /\ SystemTime /\ TaskTime /\ Reads
      /\ Spare \in Int /\ TaskSpare \in Int /\ Elapsed = Period /\ irq
      /\ micros \in Nat /\ hours \in Nat /\ t_accu \in Nat /\ races \in Nat /\ clock \in Nat
      /\ last_micros \in Nat /\ run_time \in Int /\ since \in Int /\ timer = 0
      /\ Period \in Nat /\ Period > 0 /\ Hour \in Nat /\ Hour > 0
  BY TimeNumbers DEF TimeInv, Tick, TimeTypes, Elapsed
<1>2. /\ irq' = FALSE /\ dispatch' = FALSE /\ t_accu' = 0
      /\ clock' = clock /\ timer' = timer /\ cpu' = cpu
      /\ micros' = IF sum >= Hour THEN 0 ELSE sum
      /\ hours' = IF sum >= Hour THEN hours + 1 ELSE hours
      /\ races' = IF Racing THEN races + 1 ELSE races
      /\ since' = IF dispatch THEN clock ELSE since
      /\ turned' = (Racing \/ sum >= Hour \/ (turned /\ ~(dispatch /\ sum > 0)))
      /\ KTaskRunTimeUpdate(micros')
  BY DEF Tick, Accumulated
<1>3. add \in Nat /\ sum = micros + add /\ (dispatch => add = t_accu)
      /\ (~dispatch => add = t_accu + Period)
  BY <1>1
<1> HIDE DEF add, sum
<1>4. micros' \in Nat /\ hours' \in Nat /\ races' \in Nat
      /\ hours' >= hours /\ (hours' = hours => micros' >= micros)
  BY <1>1, <1>2, <1>3
<1>5. Elapsed' = 0
  BY <1>1, <1>2 DEF Elapsed
<1>6. Spare' >= Spare - add + (IF Racing THEN Period ELSE 0) /\ Spare' \in Int
  <2>1. hours' * Hour + micros' <= hours * Hour + micros + add
    BY <1>1, <1>2, <1>3, TimesOne
  <2>2. races' * Period = races * Period + (IF Racing THEN Period ELSE 0)
    BY <1>1, <1>2, TimesOne
  <2>3. /\ hours' * Hour \in Nat /\ hours * Hour \in Nat
        /\ races' * Period \in Nat /\ races * Period \in Nat
    BY <1>1, <1>4, TimesOne
  <2>4. QED BY <1>1, <1>2, <1>3, <1>4, <2>1, <2>2, <2>3 DEF Spare
<1>7. Racing <=> cpu.at \in {"add", "sum", "flag", "force"}
  BY DEF Racing
<1>8. SystemTime'
  BY <1>1, <1>2, <1>3, <1>5, <1>6, <1>7 DEF SystemTime, Quiet, CpuIs
<1>9. /\ run_time' = IF dispatch THEN 0
                     ELSE IF micros' = 0 THEN run_time
                     ELSE run_time + (IF micros' >= last_micros THEN micros' - last_micros
                                                                ELSE last_micros - micros')
      /\ last_micros' = IF micros' = 0 THEN last_micros ELSE micros'
  BY <1>2 DEF KTaskRunTimeUpdate
<1>10. TimeTypes'
  BY <1>1, <1>2, <1>4, <1>9 DEF TimeTypes
<1>11. CpuIs' /\ Reads'
  BY <1>1, <1>2, <1>4 DEF CpuIs, Reads
<1>12. TaskTime'
  <2>1. CASE turned'
    BY <2>1 DEF TaskTime
  <2>2. CASE ~turned'
    <3>1. ~Racing /\ sum < Hour /\ (turned => dispatch /\ sum > 0)
      <4>1. ~(Racing \/ sum >= Hour \/ (turned /\ ~(dispatch /\ sum > 0)))
        BY <1>2, <2>2, Zenon
      <4>2. QED BY <1>1, <1>3, <4>1
    <3>2. micros' = sum
      BY <1>1, <1>2, <1>3, <3>1
    <3>3. CASE dispatch
      <4>1. last_micros' = micros'
        BY <1>1, <1>3, <1>9, <3>1, <3>2, <3>3 DEF TaskTime
      <4>2. TaskSpare' = 0
        BY <1>1, <1>2, <1>9, <3>3 DEF TaskSpare
      <4>3. QED BY <1>2, <1>5, <1>7, <3>1, <4>1, <4>2 DEF TaskTime
    <3>4. CASE ~dispatch
      <4>1. Quiet /\ t_accu = 0 /\ add = Period /\ last_micros = micros /\ TaskSpare >= Period
        BY <1>1, <1>3, <1>7, <3>1, <3>4 DEF TaskTime, SystemTime, Quiet, CpuIs
      <4>2. last_micros' = micros' /\ run_time' = run_time + Period
        BY <1>1, <1>3, <1>9, <3>2, <3>4, <4>1
      <4>3. TaskSpare' = TaskSpare - Period
        BY <1>1, <1>2, <3>4, <4>2 DEF TaskSpare
      <4>4. QED BY <1>1, <1>2, <1>5, <1>7, <3>1, <4>1, <4>2, <4>3 DEF TaskTime
    <3>5. QED BY <3>3, <3>4
  <2>3. QED BY <2>1, <2>2
<1>13. QED BY <1>8, <1>10, <1>11, <1>12 DEF TimeInv

LEMMA TimeInvNext == TimeInv /\ [TimeNext]_timeVars => TimeInv'
<1> SUFFICES ASSUME TimeInv, [TimeNext]_timeVars PROVE TimeInv'
  OBVIOUS
<1>1. CASE Count
  BY <1>1, CountKeeps
<1>2. CASE Tick
  BY <1>2, TickKeeps
<1>3. CASE Rest /\ (Spin \/ UseReading)
  <2>1. /\ cpu' = At0("task") /\ UNCHANGED <<t_accu, dispatch, timer, irq>>
        /\ (cpu.at = "spin" /\ ~dispatch) \/ cpu.at = "have"
    BY <1>3 DEF Spin, UseReading, Go
  <2>2. Quiet /\ ~dispatch
    BY <2>1 DEF Quiet, TimeInv, SystemTime
  <2>3. QED BY <1>3, <2>1, <2>2, BackKeeps
<1>4. CASE /\ Rest
           /\ \/ TicksGet \/ AccumulateLoad \/ AccumulateStore \/ SetDispatch \/ ForceTick
              \/ ReadFirst \/ ReadSecond
  BY <1>4, TicksGetKeeps, LoadKeeps, StoreKeeps, SetDispatchKeeps, ForceKeeps,
     ReadFirstKeeps, ReadSecondKeeps
<1>5. CASE UNCHANGED timeVars
  BY <1>5 DEF timeVars, TimeInv, TimeTypes, CpuIs, SystemTime, TaskTime, Reads, Spare,
              TaskSpare, Elapsed, Quiet
<1>6. QED BY <1>1, <1>2, <1>3, <1>4, <1>5 DEF TimeNext, Rest

LEMMA TimeInvSafe == TimeInv => TimeFits
<1> SUFFICES ASSUME TimeInv PROVE TimeFits
  OBVIOUS
<1>1. /\ TimeTypes /\ SystemTime /\ TaskTime /\ Reads
      /\ Spare \in Int /\ TaskSpare \in Int
      /\ \A h \in Nat : h * Hour \in Nat
  BY TimeNumbers, TimesOne DEF TimeInv
<1>2. RunTimeNotAhead
  <2>1. Spare >= 0
    BY <1>1 DEF SystemTime, TimeTypes
  <2>2. QED BY <1>1, <2>1, TimesOne DEF RunTimeNotAhead, Spare, Total, TimeTypes
<1>3. TaskTimeFits
  BY <1>1 DEF TaskTimeFits, TaskTime, TaskSpare, TimeTypes
<1>4. ReadingFits
  <2> SUFFICES ASSUME cpu.at = "have" PROVE ReadingFits
    BY DEF ReadingFits
  <2> DEFINE p == cpu.start[1]  q == cpu.start[2]  u == cpu.end[1]  v == cpu.end[2]
  <2>1. /\ p \in Nat /\ q \in Nat /\ u \in Nat /\ v \in Nat /\ u >= p /\ (u = p => v >= q)
        /\ cpu.h = p /\ cpu.m = v
    BY <1>1 DEF Reads
  <2> HIDE DEF p, q, u, v
  <2>2. (u - p) * Hour = u * Hour - p * Hour /\ Hour * (u - p) = (u - p) * Hour
    BY <2>1, RunTimeAssumption
  <2>3. /\ p * Hour \in Nat /\ u * Hour \in Nat /\ Hour * (u - p) >= 0
    BY <2>1, RunTimeAssumption
  <2>4. IF u - p = 0 THEN p * Hour + v \in (p * Hour + q) .. (u * Hour + v)
        ELSE (u * Hour + v) - (p * Hour + v) \in 0 .. Hour * (u - p)
    BY <2>1, <2>2, <2>3
  <2>5. QED BY <2>1, <2>4 DEF ReadingFits, Total, p, q, u, v
<1>5. QED BY <1>2, <1>3, <1>4 DEF TimeFits

(* For every period of the tick and every length of an hour, with ticks and *)
(* forced ticks at whatever step: the system's run time is never ahead of   *)
(* the clock but for a period per racing tick, a reading is off only by the *)
(* hours that turned under it, and a task is charged at most its own time.  *)
THEOREM TimeAlwaysFits == TimeInit /\ [][TimeNext]_timeVars => []TimeFits
BY TimeInvInit, TimeInvNext, TimeInvSafe, PTL
--------------------------------------------------------------------------------
(* CritSect.  The operations of the calls, one by one.                       *)
Operation ==
  {<<"up", "lock">>, <<"down", "lock">>, <<"up", "crit">>, <<"down", "crit">>,
   <<"disable", "crit">>, <<"enable", "crit">>, <<"up", "isr">>, <<"down", "isr">>,
   <<"set", "mode">>, <<"clear", "mode">>, <<"up", "mode">>, <<"down", "mode">>,
   <<"work", "section">>, <<"work", "mode">>}

IsCode(s, n) == s \in Seq(Operation) /\ Len(s) = n

LEMMA OneOperation ==
  ASSUME NEW a \in Operation
  PROVE  IsCode(<<a>>, 1) /\ <<a>>[1] = a
BY DEF IsCode

LEMMA TwoOperations ==
  ASSUME NEW a \in Operation, NEW b \in Operation
  PROVE  IsCode(<<a, b>>, 2) /\ <<a, b>>[1] = a /\ <<a, b>>[2] = b
BY DEF IsCode

(* p is s, of m operations, followed by t, of n.                             *)
Joined(p, s, m, t, n) ==
  /\ IsCode(p, m + n)
  /\ \A i \in 1 .. m : p[i] = s[i]
  /\ \A i \in 1 .. n : p[m + i] = t[i]

LEMMA JoinedCode ==
  ASSUME NEW s, NEW t, NEW m \in Nat, NEW n \in Nat, IsCode(s, m), IsCode(t, n)
  PROVE  Joined(s \o t, s, m, t, n) /\ IsCode(s \o t, m + n)
<1>1. s \in Seq(Operation) /\ t \in Seq(Operation) /\ Len(s) = m /\ Len(t) = n
  BY DEF IsCode
<1>2. /\ s \o t \in Seq(Operation) /\ Len(s \o t) = Len(s) + Len(t)
      /\ \A i \in 1 .. Len(s) : (s \o t)[i] = s[i]
      /\ \A i \in 1 .. Len(t) : (s \o t)[Len(s) + i] = t[i]
  BY ONLY <1>1
<1>3. /\ s \o t \in Seq(Operation) /\ Len(s \o t) = m + n
      /\ \A i \in 1 .. m : (s \o t)[i] = s[i]
      /\ \A i \in 1 .. n : (s \o t)[m + i] = t[i]
  BY ONLY <1>1, <1>2, Zenon
<1>4. QED BY ONLY <1>3, Zenon DEF IsCode, Joined

LEMMA LockedCode ==
  ASSUME NEW s, NEW n \in Nat, IsCode(s, n)
  PROVE  /\ IsCode(Locked(s), n + 2)
         /\ Locked(s)[1] = <<"up", "lock">>
         /\ \A i \in 1 .. n : Locked(s)[i + 1] = s[i]
         /\ Locked(s)[n + 2] = <<"down", "lock">>
<1> DEFINE p == <<<<"up", "lock">>>>
           q == p \o s
           z == <<<<"down", "lock">>>>
           r == q \o z
<1>0. <<"up", "lock">> \in Operation /\ <<"down", "lock">> \in Operation
  BY DEF Operation
<1>1. IsCode(p, 1) /\ p[1] = <<"up", "lock">> /\ IsCode(z, 1) /\ z[1] = <<"down", "lock">>
  BY <1>0, OneOperation
<1> HIDE DEF p, z
<1>2. Joined(q, p, 1, s, n) BY <1>1, JoinedCode
<1>3. IsCode(q, 1 + n) BY <1>2 DEF Joined
<1> HIDE DEF q
<1>4. Joined(r, q, 1 + n, z, 1) BY <1>1, <1>3, JoinedCode
<1>5. Locked(s) = r BY DEF Locked, p, q, z
<1> HIDE DEF r
<1>6. /\ q[1] = p[1] /\ r[1] = q[1] /\ r[(1 + n) + 1] = z[1] /\ IsCode(r, (1 + n) + 1)
      /\ \A i \in 1 .. n : q[1 + i] = s[i] /\ r[1 + i] = q[1 + i]
  BY <1>2, <1>4 DEF Joined
<1>7. QED BY <1>1, <1>5, <1>6

LEMMA OsCritSectBeginIs ==
  /\ IsCode(OsCritSectBegin, 4)
  /\ OsCritSectBegin[1] = <<"up", "lock">>
  /\ OsCritSectBegin[2] = <<"up", "crit">>
  /\ OsCritSectBegin[3] = <<"disable", "crit">>
  /\ OsCritSectBegin[4] = <<"down", "lock">>
<1> DEFINE s == <<<<"up", "crit">>, <<"disable", "crit">>>>
<1>1. <<"up", "crit">> \in Operation /\ <<"disable", "crit">> \in Operation
  BY DEF Operation
<1>2. IsCode(s, 2) /\ s[1] = <<"up", "crit">> /\ s[2] = <<"disable", "crit">>
  BY ONLY <1>1, TwoOperations
<1>3. OsCritSectBegin = Locked(s) BY DEF OsCritSectBegin
<1> HIDE DEF s
<1>4. /\ IsCode(OsCritSectBegin, 2 + 2)
      /\ OsCritSectBegin[1] = <<"up", "lock">>
      /\ \A i \in 1 .. 2 : OsCritSectBegin[i + 1] = s[i]
      /\ OsCritSectBegin[2 + 2] = <<"down", "lock">>
  BY ONLY <1>2, <1>3, LockedCode
<1>5. OsCritSectBegin[1 + 1] = s[1] /\ OsCritSectBegin[2 + 1] = s[2]
  BY ONLY <1>4
<1>6. QED BY ONLY <1>2, <1>4, <1>5

LEMMA OsCritSectEndIs ==
  /\ IsCode(OsCritSectEnd, 4)
  /\ OsCritSectEnd[1] = <<"up", "lock">>
  /\ OsCritSectEnd[2] = <<"down", "crit">>
  /\ OsCritSectEnd[3] = <<"enable", "crit">>
  /\ OsCritSectEnd[4] = <<"down", "lock">>
<1> DEFINE s == <<<<"down", "crit">>, <<"enable", "crit">>>>
<1>1. <<"down", "crit">> \in Operation /\ <<"enable", "crit">> \in Operation
  BY DEF Operation
<1>2. IsCode(s, 2) /\ s[1] = <<"down", "crit">> /\ s[2] = <<"enable", "crit">>
  BY ONLY <1>1, TwoOperations
<1>3. OsCritSectEnd = Locked(s) BY DEF OsCritSectEnd
<1> HIDE DEF s
<1>4. /\ IsCode(OsCritSectEnd, 2 + 2)
      /\ OsCritSectEnd[1] = <<"up", "lock">>
      /\ \A i \in 1 .. 2 : OsCritSectEnd[i + 1] = s[i]
      /\ OsCritSectEnd[2 + 2] = <<"down", "lock">>
  BY ONLY <1>2, <1>3, LockedCode
<1>5. OsCritSectEnd[1 + 1] = s[1] /\ OsCritSectEnd[2 + 1] = s[2]
  BY ONLY <1>4
<1>6. QED BY ONLY <1>2, <1>4, <1>5

LEMMA OsIsrBeginIs ==
  /\ IsCode(OsIsrBegin, 3)
  /\ OsIsrBegin[1] = <<"up", "lock">>
  /\ OsIsrBegin[2] = <<"up", "isr">>
  /\ OsIsrBegin[3] = <<"down", "lock">>
<1> DEFINE s == <<<<"up", "isr">>>>
<1>1. <<"up", "isr">> \in Operation
  BY DEF Operation
<1>2. IsCode(s, 1) /\ s[1] = <<"up", "isr">>
  BY ONLY <1>1, OneOperation
<1>3. OsIsrBegin = Locked(s) BY DEF OsIsrBegin
<1> HIDE DEF s
<1>4. /\ IsCode(OsIsrBegin, 1 + 2)
      /\ OsIsrBegin[1] = <<"up", "lock">>
      /\ \A i \in 1 .. 1 : OsIsrBegin[i + 1] = s[i]
      /\ OsIsrBegin[1 + 2] = <<"down", "lock">>
  BY ONLY <1>2, <1>3, LockedCode
<1>5. OsIsrBegin[1 + 1] = s[1]
  BY ONLY <1>4
<1>6. QED BY ONLY <1>2, <1>4, <1>5

LEMMA OsIsrEndIs ==
  /\ IsCode(OsIsrEnd, 3)
  /\ OsIsrEnd[1] = <<"up", "lock">>
  /\ OsIsrEnd[2] = <<"down", "isr">>
  /\ OsIsrEnd[3] = <<"down", "lock">>
<1> DEFINE s == <<<<"down", "isr">>>>
<1>1. <<"down", "isr">> \in Operation
  BY DEF Operation
<1>2. IsCode(s, 1) /\ s[1] = <<"down", "isr">>
  BY ONLY <1>1, OneOperation
<1>3. OsIsrEnd = Locked(s) BY DEF OsIsrEnd
<1> HIDE DEF s
<1>4. /\ IsCode(OsIsrEnd, 1 + 2)
      /\ OsIsrEnd[1] = <<"up", "lock">>
      /\ \A i \in 1 .. 1 : OsIsrEnd[i + 1] = s[i]
      /\ OsIsrEnd[1 + 2] = <<"down", "lock">>
  BY ONLY <1>2, <1>3, LockedCode
<1>5. OsIsrEnd[1 + 1] = s[1]
  BY ONLY <1>4
<1>6. QED BY ONLY <1>2, <1>4, <1>5

LEMMA KCoreKernelModeEnterIs ==
  /\ IsCode(KCoreKernelModeEnter, 2)
  /\ KCoreKernelModeEnter[1] = <<"set", "mode">>
  /\ KCoreKernelModeEnter[2] = <<"up", "mode">>
<1>1. <<"set", "mode">> \in Operation /\ <<"up", "mode">> \in Operation
  BY DEF Operation
<1>2. QED BY ONLY <1>1, TwoOperations DEF KCoreKernelModeEnter

LEMMA KCoreKernelModeExitIs ==
  /\ IsCode(KCoreKernelModeExit, 2)
  /\ KCoreKernelModeExit[1] = <<"clear", "mode">>
  /\ KCoreKernelModeExit[2] = <<"down", "mode">>
<1>1. <<"clear", "mode">> \in Operation /\ <<"down", "mode">> \in Operation
  BY DEF Operation
<1>2. QED BY ONLY <1>1, TwoOperations DEF KCoreKernelModeExit

LEMMA SectionIs ==
  /\ IsCode(Section, 1)
  /\ Section[1] = <<"work", "section">>
<1>1. <<"work", "section">> \in Operation
  BY DEF Operation
<1>2. QED BY ONLY <1>1, OneOperation DEF Section

LEMMA PrivilegedIs ==
  /\ IsCode(Privileged, 1)
  /\ Privileged[1] = <<"work", "mode">>
<1>1. <<"work", "mode">> \in Operation
  BY DEF Operation
<1>2. QED BY ONLY <1>1, OneOperation DEF Privileged

LEMMA AllocObjectIs ==
  /\ IsCode(AllocObject, 24)
  /\ AllocObject[1] = <<"up", "lock">> /\ AllocObject[2] = <<"up", "crit">>
  /\ AllocObject[3] = <<"disable", "crit">>
  /\ AllocObject[4] = <<"down", "lock">> /\ AllocObject[5] = <<"set", "mode">>
  /\ AllocObject[6] = <<"up", "mode">>
  /\ AllocObject[7] = <<"work", "section">>
  /\ AllocObject[8] = <<"work", "mode">> /\ AllocObject[9] = <<"up", "lock">>
  /\ AllocObject[10] = <<"up", "crit">>
  /\ AllocObject[11] = <<"disable", "crit">>
  /\ AllocObject[12] = <<"down", "lock">>
  /\ AllocObject[13] = <<"work", "section">>
  /\ AllocObject[14] = <<"up", "lock">> /\ AllocObject[15] = <<"down", "crit">>
  /\ AllocObject[16] = <<"enable", "crit">>
  /\ AllocObject[17] = <<"down", "lock">>
  /\ AllocObject[18] = <<"work", "section">>
  /\ AllocObject[19] = <<"clear", "mode">>
  /\ AllocObject[20] = <<"down", "mode">> /\ AllocObject[21] = <<"up", "lock">>
  /\ AllocObject[22] = <<"down", "crit">>
  /\ AllocObject[23] = <<"enable", "crit">>
  /\ AllocObject[24] = <<"down", "lock">>
<1> DEFINE p == AllocObject
           q1 == OsCritSectBegin \o KCoreKernelModeEnter
           q2 == q1 \o Section
           q3 == q2 \o Privileged
           q4 == q3 \o OsCritSectBegin
           q5 == q4 \o Section
           q6 == q5 \o OsCritSectEnd
           q7 == q6 \o Section
           q8 == q7 \o KCoreKernelModeExit
           q9 == q8 \o OsCritSectEnd
<1>0. p = q9 BY DEF AllocObject
<1> HIDE DEF p, q1, q2, q3, q4, q5, q6, q7, q8, q9
<1>1. Joined(q1, OsCritSectBegin, 4, KCoreKernelModeEnter, 2) /\ IsCode(q1, 4 + 2)
  BY ONLY OsCritSectBeginIs, KCoreKernelModeEnterIs, JoinedCode DEF q1
<1>2. Joined(q2, q1, 6, Section, 1) /\ IsCode(q2, 6 + 1)
  BY ONLY <1>1, SectionIs, JoinedCode DEF q2
<1>3. Joined(q3, q2, 7, Privileged, 1) /\ IsCode(q3, 7 + 1)
  BY ONLY <1>2, PrivilegedIs, JoinedCode DEF q3
<1>4. Joined(q4, q3, 8, OsCritSectBegin, 4) /\ IsCode(q4, 8 + 4)
  BY ONLY <1>3, OsCritSectBeginIs, JoinedCode DEF q4
<1>5. Joined(q5, q4, 12, Section, 1) /\ IsCode(q5, 12 + 1)
  BY ONLY <1>4, SectionIs, JoinedCode DEF q5
<1>6. Joined(q6, q5, 13, OsCritSectEnd, 4) /\ IsCode(q6, 13 + 4)
  BY ONLY <1>5, OsCritSectEndIs, JoinedCode DEF q6
<1>7. Joined(q7, q6, 17, Section, 1) /\ IsCode(q7, 17 + 1)
  BY ONLY <1>6, SectionIs, JoinedCode DEF q7
<1>8. Joined(q8, q7, 18, KCoreKernelModeExit, 2) /\ IsCode(q8, 18 + 2)
  BY ONLY <1>7, KCoreKernelModeExitIs, JoinedCode DEF q8
<1>9. Joined(q9, q8, 20, OsCritSectEnd, 4) /\ IsCode(q9, 20 + 4)
  BY ONLY <1>8, OsCritSectEndIs, JoinedCode DEF q9
<1>10. p[1] = OsCritSectBegin[1] /\ p[2] = OsCritSectBegin[2] /\
      p[3] = OsCritSectBegin[3] /\ p[4] = OsCritSectBegin[4]
  BY ONLY <1>0, <1>1, <1>2, <1>3, <1>4, <1>5, <1>6, <1>7, <1>8, <1>9 DEF Joined
<1>11. p[5] = KCoreKernelModeEnter[1] /\ p[6] = KCoreKernelModeEnter[2]
  BY ONLY <1>0, <1>1, <1>2, <1>3, <1>4, <1>5, <1>6, <1>7, <1>8, <1>9 DEF Joined
<1>12. p[7] = Section[1]
  BY ONLY <1>0, <1>2, <1>3, <1>4, <1>5, <1>6, <1>7, <1>8, <1>9 DEF Joined
<1>13. p[8] = Privileged[1]
  BY ONLY <1>0, <1>3, <1>4, <1>5, <1>6, <1>7, <1>8, <1>9 DEF Joined
<1>14. p[9] = OsCritSectBegin[1] /\ p[10] = OsCritSectBegin[2] /\
      p[11] = OsCritSectBegin[3] /\ p[12] = OsCritSectBegin[4]
  BY ONLY <1>0, <1>4, <1>5, <1>6, <1>7, <1>8, <1>9 DEF Joined
<1>15. p[13] = Section[1]
  BY ONLY <1>0, <1>5, <1>6, <1>7, <1>8, <1>9 DEF Joined
<1>16. p[14] = OsCritSectEnd[1] /\ p[15] = OsCritSectEnd[2] /\
      p[16] = OsCritSectEnd[3] /\ p[17] = OsCritSectEnd[4]
  BY ONLY <1>0, <1>6, <1>7, <1>8, <1>9 DEF Joined
<1>17. p[18] = Section[1]
  BY ONLY <1>0, <1>7, <1>8, <1>9 DEF Joined
<1>18. p[19] = KCoreKernelModeExit[1] /\ p[20] = KCoreKernelModeExit[2]
  BY ONLY <1>0, <1>8, <1>9 DEF Joined
<1>19. p[21] = OsCritSectEnd[1] /\ p[22] = OsCritSectEnd[2] /\
      p[23] = OsCritSectEnd[3] /\ p[24] = OsCritSectEnd[4]
  BY ONLY <1>0, <1>9 DEF Joined
<1>20. IsCode(p, 24)
  BY ONLY <1>0, <1>9
<1>21. QED
  BY ONLY <1>10, <1>11, <1>12, <1>13, <1>14, <1>15, <1>16, <1>17, <1>18, <1>19,
          <1>20, KCoreKernelModeEnterIs, KCoreKernelModeExitIs, OsCritSectBeginIs,
          OsCritSectEndIs, PrivilegedIs, SectionIs
  DEF p

LEMMA FreeObjectIs ==
  /\ IsCode(FreeObject, 14)
  /\ FreeObject[1] = <<"set", "mode">> /\ FreeObject[2] = <<"up", "mode">>
  /\ FreeObject[3] = <<"work", "mode">> /\ FreeObject[4] = <<"up", "lock">>
  /\ FreeObject[5] = <<"up", "crit">> /\ FreeObject[6] = <<"disable", "crit">>
  /\ FreeObject[7] = <<"down", "lock">>
  /\ FreeObject[8] = <<"work", "section">> /\ FreeObject[9] = <<"up", "lock">>
  /\ FreeObject[10] = <<"down", "crit">>
  /\ FreeObject[11] = <<"enable", "crit">>
  /\ FreeObject[12] = <<"down", "lock">>
  /\ FreeObject[13] = <<"clear", "mode">>
  /\ FreeObject[14] = <<"down", "mode">>
<1> DEFINE p == FreeObject
           q1 == KCoreKernelModeEnter \o Privileged
           q2 == q1 \o OsCritSectBegin
           q3 == q2 \o Section
           q4 == q3 \o OsCritSectEnd
           q5 == q4 \o KCoreKernelModeExit
<1>0. p = q5 BY DEF FreeObject
<1> HIDE DEF p, q1, q2, q3, q4, q5
<1>1. Joined(q1, KCoreKernelModeEnter, 2, Privileged, 1) /\ IsCode(q1, 2 + 1)
  BY ONLY KCoreKernelModeEnterIs, PrivilegedIs, JoinedCode DEF q1
<1>2. Joined(q2, q1, 3, OsCritSectBegin, 4) /\ IsCode(q2, 3 + 4)
  BY ONLY <1>1, OsCritSectBeginIs, JoinedCode DEF q2
<1>3. Joined(q3, q2, 7, Section, 1) /\ IsCode(q3, 7 + 1)
  BY ONLY <1>2, SectionIs, JoinedCode DEF q3
<1>4. Joined(q4, q3, 8, OsCritSectEnd, 4) /\ IsCode(q4, 8 + 4)
  BY ONLY <1>3, OsCritSectEndIs, JoinedCode DEF q4
<1>5. Joined(q5, q4, 12, KCoreKernelModeExit, 2) /\ IsCode(q5, 12 + 2)
  BY ONLY <1>4, KCoreKernelModeExitIs, JoinedCode DEF q5
<1>6. p[1] = KCoreKernelModeEnter[1] /\ p[2] = KCoreKernelModeEnter[2]
  BY ONLY <1>0, <1>1, <1>2, <1>3, <1>4, <1>5 DEF Joined
<1>7. p[3] = Privileged[1]
  BY ONLY <1>0, <1>1, <1>2, <1>3, <1>4, <1>5 DEF Joined
<1>8. p[4] = OsCritSectBegin[1] /\ p[5] = OsCritSectBegin[2] /\
      p[6] = OsCritSectBegin[3] /\ p[7] = OsCritSectBegin[4]
  BY ONLY <1>0, <1>2, <1>3, <1>4, <1>5 DEF Joined
<1>9. p[8] = Section[1]
  BY ONLY <1>0, <1>3, <1>4, <1>5 DEF Joined
<1>10. p[9] = OsCritSectEnd[1] /\ p[10] = OsCritSectEnd[2] /\
      p[11] = OsCritSectEnd[3] /\ p[12] = OsCritSectEnd[4]
  BY ONLY <1>0, <1>4, <1>5 DEF Joined
<1>11. p[13] = KCoreKernelModeExit[1] /\ p[14] = KCoreKernelModeExit[2]
  BY ONLY <1>0, <1>5 DEF Joined
<1>12. IsCode(p, 14)
  BY ONLY <1>0, <1>5
<1>13. QED
  BY ONLY <1>6, <1>7, <1>8, <1>9, <1>10, <1>11, <1>12, KCoreKernelModeEnterIs,
          KCoreKernelModeExitIs, OsCritSectBeginIs, OsCritSectEndIs, PrivilegedIs,
          SectionIs
  DEF p

LEMMA ICoreTickCoopIs ==
  /\ IsCode(ICoreTickCoop, 36)
  /\ ICoreTickCoop[1] = <<"up", "lock">> /\ ICoreTickCoop[2] = <<"up", "isr">>
  /\ ICoreTickCoop[3] = <<"down", "lock">> /\ ICoreTickCoop[4] = <<"up", "lock">>
  /\ ICoreTickCoop[5] = <<"up", "crit">> /\ ICoreTickCoop[6] = <<"disable", "crit">>
  /\ ICoreTickCoop[7] = <<"down", "lock">> /\ ICoreTickCoop[8] = <<"set", "mode">>
  /\ ICoreTickCoop[9] = <<"up", "mode">> /\ ICoreTickCoop[10] = <<"work", "section">>
  /\ ICoreTickCoop[11] = <<"work", "mode">> /\ ICoreTickCoop[12] = <<"set", "mode">>
  /\ ICoreTickCoop[13] = <<"up", "mode">> /\ ICoreTickCoop[14] = <<"work", "mode">>
  /\ ICoreTickCoop[15] = <<"up", "lock">> /\ ICoreTickCoop[16] = <<"up", "crit">>
  /\ ICoreTickCoop[17] = <<"disable", "crit">>
  /\ ICoreTickCoop[18] = <<"down", "lock">>
  /\ ICoreTickCoop[19] = <<"work", "section">> /\ ICoreTickCoop[20] = <<"up", "lock">>
  /\ ICoreTickCoop[21] = <<"down", "crit">> /\ ICoreTickCoop[22] = <<"enable", "crit">>
  /\ ICoreTickCoop[23] = <<"down", "lock">> /\ ICoreTickCoop[24] = <<"clear", "mode">>
  /\ ICoreTickCoop[25] = <<"down", "mode">>
  /\ ICoreTickCoop[26] = <<"work", "section">>
  /\ ICoreTickCoop[27] = <<"work", "mode">> /\ ICoreTickCoop[28] = <<"clear", "mode">>
  /\ ICoreTickCoop[29] = <<"down", "mode">> /\ ICoreTickCoop[30] = <<"up", "lock">>
  /\ ICoreTickCoop[31] = <<"down", "crit">> /\ ICoreTickCoop[32] = <<"enable", "crit">>
  /\ ICoreTickCoop[33] = <<"down", "lock">> /\ ICoreTickCoop[34] = <<"up", "lock">>
  /\ ICoreTickCoop[35] = <<"down", "isr">> /\ ICoreTickCoop[36] = <<"down", "lock">>
<1> DEFINE p == ICoreTickCoop
           q1 == OsIsrBegin \o OsCritSectBegin
           q2 == q1 \o KCoreKernelModeEnter
           q3 == q2 \o Section
           q4 == q3 \o Privileged
           q5 == q4 \o FreeObject
           q6 == q5 \o Section
           q7 == q6 \o Privileged
           q8 == q7 \o KCoreKernelModeExit
           q9 == q8 \o OsCritSectEnd
           q10 == q9 \o OsIsrEnd
<1>0. p = q10 BY DEF ICoreTickCoop
<1> HIDE DEF p, q1, q2, q3, q4, q5, q6, q7, q8, q9, q10
<1>1. Joined(q1, OsIsrBegin, 3, OsCritSectBegin, 4) /\ IsCode(q1, 3 + 4)
  BY ONLY OsIsrBeginIs, OsCritSectBeginIs, JoinedCode DEF q1
<1>2. Joined(q2, q1, 7, KCoreKernelModeEnter, 2) /\ IsCode(q2, 7 + 2)
  BY ONLY <1>1, KCoreKernelModeEnterIs, JoinedCode DEF q2
<1>3. Joined(q3, q2, 9, Section, 1) /\ IsCode(q3, 9 + 1)
  BY ONLY <1>2, SectionIs, JoinedCode DEF q3
<1>4. Joined(q4, q3, 10, Privileged, 1) /\ IsCode(q4, 10 + 1)
  BY ONLY <1>3, PrivilegedIs, JoinedCode DEF q4
<1>5. Joined(q5, q4, 11, FreeObject, 14) /\ IsCode(q5, 11 + 14)
  BY ONLY <1>4, FreeObjectIs, JoinedCode DEF q5
<1>6. Joined(q6, q5, 25, Section, 1) /\ IsCode(q6, 25 + 1)
  BY ONLY <1>5, SectionIs, JoinedCode DEF q6
<1>7. Joined(q7, q6, 26, Privileged, 1) /\ IsCode(q7, 26 + 1)
  BY ONLY <1>6, PrivilegedIs, JoinedCode DEF q7
<1>8. Joined(q8, q7, 27, KCoreKernelModeExit, 2) /\ IsCode(q8, 27 + 2)
  BY ONLY <1>7, KCoreKernelModeExitIs, JoinedCode DEF q8
<1>9. Joined(q9, q8, 29, OsCritSectEnd, 4) /\ IsCode(q9, 29 + 4)
  BY ONLY <1>8, OsCritSectEndIs, JoinedCode DEF q9
<1>10. Joined(q10, q9, 33, OsIsrEnd, 3) /\ IsCode(q10, 33 + 3)
  BY ONLY <1>9, OsIsrEndIs, JoinedCode DEF q10
<1>11. p[1] = OsIsrBegin[1] /\ p[2] = OsIsrBegin[2] /\ p[3] = OsIsrBegin[3]
  BY ONLY <1>0, <1>1, <1>2, <1>3, <1>4, <1>5, <1>6, <1>7, <1>8, <1>9, <1>10 DEF Joined
<1>12. p[4] = OsCritSectBegin[1] /\ p[5] = OsCritSectBegin[2] /\
      p[6] = OsCritSectBegin[3] /\ p[7] = OsCritSectBegin[4]
  BY ONLY <1>0, <1>1, <1>2, <1>3, <1>4, <1>5, <1>6, <1>7, <1>8, <1>9, <1>10 DEF Joined
<1>13. p[8] = KCoreKernelModeEnter[1] /\ p[9] = KCoreKernelModeEnter[2]
  BY ONLY <1>0, <1>2, <1>3, <1>4, <1>5, <1>6, <1>7, <1>8, <1>9, <1>10 DEF Joined
<1>14. p[10] = Section[1]
  BY ONLY <1>0, <1>3, <1>4, <1>5, <1>6, <1>7, <1>8, <1>9, <1>10 DEF Joined
<1>15. p[11] = Privileged[1]
  BY ONLY <1>0, <1>4, <1>5, <1>6, <1>7, <1>8, <1>9, <1>10 DEF Joined
<1>16. p[12] = FreeObject[1] /\ p[13] = FreeObject[2] /\
      p[14] = FreeObject[3] /\ p[15] = FreeObject[4] /\
      p[16] = FreeObject[5] /\ p[17] = FreeObject[6] /\
      p[18] = FreeObject[7] /\ p[19] = FreeObject[8] /\
      p[20] = FreeObject[9] /\ p[21] = FreeObject[10] /\
      p[22] = FreeObject[11] /\ p[23] = FreeObject[12] /\
      p[24] = FreeObject[13] /\ p[25] = FreeObject[14]
  BY ONLY <1>0, <1>5, <1>6, <1>7, <1>8, <1>9, <1>10 DEF Joined
<1>17. p[26] = Section[1]
  BY ONLY <1>0, <1>6, <1>7, <1>8, <1>9, <1>10 DEF Joined
<1>18. p[27] = Privileged[1]
  BY ONLY <1>0, <1>7, <1>8, <1>9, <1>10 DEF Joined
<1>19. p[28] = KCoreKernelModeExit[1] /\ p[29] = KCoreKernelModeExit[2]
  BY ONLY <1>0, <1>8, <1>9, <1>10 DEF Joined
<1>20. p[30] = OsCritSectEnd[1] /\ p[31] = OsCritSectEnd[2] /\
      p[32] = OsCritSectEnd[3] /\ p[33] = OsCritSectEnd[4]
  BY ONLY <1>0, <1>9, <1>10 DEF Joined
<1>21. p[34] = OsIsrEnd[1] /\ p[35] = OsIsrEnd[2] /\ p[36] = OsIsrEnd[3]
  BY ONLY <1>0, <1>10 DEF Joined
<1>22. IsCode(p, 36)
  BY ONLY <1>0, <1>10
<1>23. QED
  BY ONLY <1>11, <1>12, <1>13, <1>14, <1>15, <1>16, <1>17, <1>18, <1>19, <1>20,
          <1>21, <1>22, KCoreKernelModeEnterIs, KCoreKernelModeExitIs,
          FreeObjectIs, OsCritSectBeginIs, OsCritSectEndIs, OsIsrBeginIs,
          OsIsrEndIs, PrivilegedIs, SectionIs
  DEF p

LEMMA UtilLockCallIs ==
  /\ IsCode(UtilLockCall, 9)
  /\ UtilLockCall[1] = <<"up", "lock">> /\ UtilLockCall[2] = <<"up", "crit">>
  /\ UtilLockCall[3] = <<"disable", "crit">> /\ UtilLockCall[4] = <<"down", "lock">>
  /\ UtilLockCall[5] = <<"work", "section">> /\ UtilLockCall[6] = <<"up", "lock">>
  /\ UtilLockCall[7] = <<"down", "crit">> /\ UtilLockCall[8] = <<"enable", "crit">>
  /\ UtilLockCall[9] = <<"down", "lock">>
<1> DEFINE p == UtilLockCall
           q1 == OsCritSectBegin \o Section
           q2 == q1 \o OsCritSectEnd
<1>0. p = q2 BY DEF UtilLockCall
<1> HIDE DEF p, q1, q2
<1>1. Joined(q1, OsCritSectBegin, 4, Section, 1) /\ IsCode(q1, 4 + 1)
  BY ONLY OsCritSectBeginIs, SectionIs, JoinedCode DEF q1
<1>2. Joined(q2, q1, 5, OsCritSectEnd, 4) /\ IsCode(q2, 5 + 4)
  BY ONLY <1>1, OsCritSectEndIs, JoinedCode DEF q2
<1>3. p[1] = OsCritSectBegin[1] /\ p[2] = OsCritSectBegin[2] /\
      p[3] = OsCritSectBegin[3] /\ p[4] = OsCritSectBegin[4]
  BY ONLY <1>0, <1>1, <1>2 DEF Joined
<1>4. p[5] = Section[1]
  BY ONLY <1>0, <1>1, <1>2 DEF Joined
<1>5. p[6] = OsCritSectEnd[1] /\ p[7] = OsCritSectEnd[2] /\
      p[8] = OsCritSectEnd[3] /\ p[9] = OsCritSectEnd[4]
  BY ONLY <1>0, <1>2 DEF Joined
<1>6. IsCode(p, 9)
  BY ONLY <1>0, <1>2
<1>7. QED
  BY ONLY <1>3, <1>4, <1>5, <1>6, OsCritSectBeginIs, OsCritSectEndIs, SectionIs
  DEF p
--------------------------------------------------------------------------------
(* What the code of a call has done when it is at operation n.               *)
Counter == {"lock", "crit", "isr", "mode"}

CodeName == {"rest", "alloc", "free", "tick", "call"}

Size(code) == IF code = "alloc" THEN 24 ELSE IF code = "free" THEN 14
              ELSE IF code = "tick" THEN 36 ELSE IF code = "call" THEN 9 ELSE 0

OpOf(code, n) == Code[code][n][1]

ArgOf(code, n) == Code[code][n][2]

One(b) == IF b THEN 1 ELSE 0

(* The counts of the counters that it has not yet undone.                    *)
HeldLock(code, n) ==
  One(\/ code = "alloc" /\ n \in {2, 3, 4, 10, 11, 12, 15, 16, 17, 22, 23, 24}
      \/ code = "free" /\ n \in {5, 6, 7, 10, 11, 12}
      \/ code = "tick" /\ n \in {2, 3, 5, 6, 7, 16, 17, 18, 21, 22, 23, 31, 32, 33, 35, 36}
      \/ code = "call" /\ n \in {2, 3, 4, 7, 8, 9})

HeldCrit(code, n) ==
  One(\/ code = "alloc" /\ n \in 3 .. 22
      \/ code = "free" /\ n \in 6 .. 10
      \/ code = "tick" /\ n \in 6 .. 31
      \/ code = "call" /\ n \in 3 .. 7)
  + One(\/ code = "alloc" /\ n \in 11 .. 15
        \/ code = "tick" /\ n \in 17 .. 21)

HeldMode(code, n) ==
  One(\/ code = "alloc" /\ n \in 7 .. 20
      \/ code = "free" /\ n \in 3 .. 14
      \/ code = "tick" /\ n \in 10 .. 29)
  + One(code = "tick" /\ n \in 14 .. 25)

HeldIsr(code, n) == One(code = "tick" /\ n \in 3 .. 35)

Held(code, n, c) ==
  IF c = "lock" THEN HeldLock(code, n) ELSE IF c = "crit" THEN HeldCrit(code, n)
  ELSE IF c = "mode" THEN HeldMode(code, n) ELSE HeldIsr(code, n)

(* It is in its outer critical section, with interrupts disabled; or past    *)
(* it, when interrupts were enabled.                                         *)
Inside(code, n) ==
  \/ code = "alloc" /\ n \in 4 .. 23
  \/ code = "free" /\ n \in 7 .. 11
  \/ code = "tick" /\ n \in 7 .. 32
  \/ code = "call" /\ n \in 4 .. 8

Past(code, n) ==
  \/ code = "alloc" /\ n \in 24 .. 25
  \/ code = "free" /\ n \in 12 .. 15
  \/ code = "tick" /\ n \in 33 .. 37
  \/ code = "call" /\ n \in 9 .. 10

(* It has set the mode and not yet cleared it; and it is between a change    *)
(* of the flag and of its counter.                                           *)
ModeOn(code, n) ==
  \/ code = "alloc" /\ n \in 6 .. 19
  \/ code = "free" /\ n \in 2 .. 13
  \/ code = "tick" /\ n \in 9 .. 28

Half(code, n) ==
  \/ code = "alloc" /\ n \in {6, 20}
  \/ code = "free" /\ n \in {2, 14}
  \/ code = "tick" /\ n \in {9, 13, 25, 29}
--------------------------------------------------------------------------------
(* The counters as context i found them: base[i], and whether interrupts     *)
(* were enabled when its current call began: base[i]["open"].                *)
Open(base, i) ==
  IF base[i]["crit"] > 0 THEN ~masks
  ELSE /\ ~Inside(contexts[i].code, contexts[i].at)
       /\ base[i]["open"] = 1 \/ Past(contexts[i].code, contexts[i].at)

(* What is true of every context.                                            *)
Shape(i) ==
  /\ IF i = 1 THEN contexts[i].who = "task" ELSE contexts[i].who \in DOMAIN Level
  /\ contexts[i].code \in CallsOf(contexts[i].who) \/ (i = 1 /\ contexts[i].code = "rest")
  /\ contexts[i].at \in 1 .. Size(contexts[i].code) + 1

Register(base, i) ==
  contexts[i].reg # -1 =>
    /\ contexts[i].at <= Size(contexts[i].code)
    /\ OpOf(contexts[i].code, contexts[i].at) \in {"up", "down"}
    /\ LET c == ArgOf(contexts[i].code, contexts[i].at)
       IN  contexts[i].reg = base[i][c] + Held(contexts[i].code, contexts[i].at, c)

Found(base, i) ==
  /\ base[i] \in [Counter \cup {"open"} -> Nat]
  /\ i = 1 => \A c \in Counter : base[i][c] = 0
  /\ i = 1 \/ ~masks => base[i]["open"] = 1
  /\ base[i]["crit"] > 0 =>
       \E j \in 1 .. i - 1 : IsAt(contexts[j], <<"disable", "crit">>)
  /\ base[i]["mode"] > 0 <=>
       \E j \in 1 .. i - 1 : HeldMode(contexts[j].code, contexts[j].at) > 0

(* When a context is torn: with interrupts enabled at a half.                *)
Torn(i) ==
  i \in torn =>
    \/ contexts[i].code = "free"
    \/ /\ ~masks /\ contexts[i].code = "alloc"
       /\ \E j \in 1 .. i - 1 : IsAt(contexts[j], <<"disable", "crit">>)

(* What is true of an interrupted one: interrupts were enabled, and the next *)
(* context found the counters as it had left them.                           *)
Interrupted(base, i) ==
  /\ Open(base, i)
  /\ ~masks => contexts[i].who # "tick"
  /\ i \notin torn => ~Half(contexts[i].code, contexts[i].at)
  /\ \A c \in Counter :
       base[i + 1][c] = base[i][c] + Held(contexts[i].code, contexts[i].at, c)

(* And of the running one.                                                   *)
Current(base) ==
  /\ enabled \in BOOLEAN
  /\ enabled <=> Open(base, Len(contexts))
  /\ \A c \in Counter :
       KernelReg[c] = base[Len(contexts)][c] + Held(Top.code, Top.at, c)

(* The mode flag is set only by a context that found nobody in the mode, and *)
(* it is set if a context is in the mode and neither it nor one below it is  *)
(* torn.                                                                     *)
On(i) == ModeOn(contexts[i].code, contexts[i].at)

Whole(i) == \A j \in 1 .. i : j \notin torn

Flag(base) ==
  /\ kernelMode => \E i \in 1 .. Len(contexts) : On(i) /\ base[i]["mode"] = 0
  /\ \A i \in 1 .. Len(contexts) : On(i) /\ Whole(i) => kernelMode

Context == [who : DOMAIN Level \cup {"task"}, code : CodeName, at : Nat, reg : Int]

CritTypes ==
  /\ contexts \in Seq(Context) /\ Len(contexts) > 0
  /\ KernelReg \in [Counter -> Int]
  /\ masks \in BOOLEAN /\ kernelMode \in BOOLEAN
  /\ torn \subseteq 1 .. Len(contexts)

CritInv(base) ==
  /\ CritTypes
  /\ \A i \in 1 .. Len(contexts) : Shape(i) /\ Register(base, i) /\ Found(base, i) /\ Torn(i)
  /\ \A i \in 1 .. Len(contexts) - 1 : Interrupted(base, i)
  /\ Current(base)
  /\ Flag(base)
--------------------------------------------------------------------------------
(* The operations of the calls by number.                                    *)
LEMMA OperationParts ==
  ASSUME NEW a, NEW b
  PROVE  <<a, b>>[1] = a /\ <<a, b>>[2] = b
OBVIOUS

LEMMA CodeIs ==
  /\ Code["alloc"] = AllocObject /\ Code["free"] = FreeObject
  /\ Code["tick"] = ICoreTickCoop /\ Code["call"] = UtilLockCall
  /\ Code["rest"] = << >>
BY DEF Code

LEMMA AllocOps ==
  /\ OpOf("alloc", 1) = "up" /\ ArgOf("alloc", 1) = "lock"
  /\ OpOf("alloc", 2) = "up" /\ ArgOf("alloc", 2) = "crit"
  /\ OpOf("alloc", 3) = "disable" /\ ArgOf("alloc", 3) = "crit"
  /\ OpOf("alloc", 4) = "down" /\ ArgOf("alloc", 4) = "lock"
  /\ OpOf("alloc", 5) = "set" /\ ArgOf("alloc", 5) = "mode"
  /\ OpOf("alloc", 6) = "up" /\ ArgOf("alloc", 6) = "mode"
  /\ OpOf("alloc", 7) = "work" /\ ArgOf("alloc", 7) = "section"
  /\ OpOf("alloc", 8) = "work" /\ ArgOf("alloc", 8) = "mode"
  /\ OpOf("alloc", 9) = "up" /\ ArgOf("alloc", 9) = "lock"
  /\ OpOf("alloc", 10) = "up" /\ ArgOf("alloc", 10) = "crit"
  /\ OpOf("alloc", 11) = "disable" /\ ArgOf("alloc", 11) = "crit"
  /\ OpOf("alloc", 12) = "down" /\ ArgOf("alloc", 12) = "lock"
  /\ OpOf("alloc", 13) = "work" /\ ArgOf("alloc", 13) = "section"
  /\ OpOf("alloc", 14) = "up" /\ ArgOf("alloc", 14) = "lock"
  /\ OpOf("alloc", 15) = "down" /\ ArgOf("alloc", 15) = "crit"
  /\ OpOf("alloc", 16) = "enable" /\ ArgOf("alloc", 16) = "crit"
  /\ OpOf("alloc", 17) = "down" /\ ArgOf("alloc", 17) = "lock"
  /\ OpOf("alloc", 18) = "work" /\ ArgOf("alloc", 18) = "section"
  /\ OpOf("alloc", 19) = "clear" /\ ArgOf("alloc", 19) = "mode"
  /\ OpOf("alloc", 20) = "down" /\ ArgOf("alloc", 20) = "mode"
  /\ OpOf("alloc", 21) = "up" /\ ArgOf("alloc", 21) = "lock"
  /\ OpOf("alloc", 22) = "down" /\ ArgOf("alloc", 22) = "crit"
  /\ OpOf("alloc", 23) = "enable" /\ ArgOf("alloc", 23) = "crit"
  /\ OpOf("alloc", 24) = "down" /\ ArgOf("alloc", 24) = "lock"
BY CodeIs, AllocObjectIs, OperationParts DEF OpOf, ArgOf

LEMMA FreeOps ==
  /\ OpOf("free", 1) = "set" /\ ArgOf("free", 1) = "mode"
  /\ OpOf("free", 2) = "up" /\ ArgOf("free", 2) = "mode"
  /\ OpOf("free", 3) = "work" /\ ArgOf("free", 3) = "mode"
  /\ OpOf("free", 4) = "up" /\ ArgOf("free", 4) = "lock"
  /\ OpOf("free", 5) = "up" /\ ArgOf("free", 5) = "crit"
  /\ OpOf("free", 6) = "disable" /\ ArgOf("free", 6) = "crit"
  /\ OpOf("free", 7) = "down" /\ ArgOf("free", 7) = "lock"
  /\ OpOf("free", 8) = "work" /\ ArgOf("free", 8) = "section"
  /\ OpOf("free", 9) = "up" /\ ArgOf("free", 9) = "lock"
  /\ OpOf("free", 10) = "down" /\ ArgOf("free", 10) = "crit"
  /\ OpOf("free", 11) = "enable" /\ ArgOf("free", 11) = "crit"
  /\ OpOf("free", 12) = "down" /\ ArgOf("free", 12) = "lock"
  /\ OpOf("free", 13) = "clear" /\ ArgOf("free", 13) = "mode"
  /\ OpOf("free", 14) = "down" /\ ArgOf("free", 14) = "mode"
BY CodeIs, FreeObjectIs, OperationParts DEF OpOf, ArgOf

LEMMA TickOps ==
  /\ OpOf("tick", 1) = "up" /\ ArgOf("tick", 1) = "lock"
  /\ OpOf("tick", 2) = "up" /\ ArgOf("tick", 2) = "isr"
  /\ OpOf("tick", 3) = "down" /\ ArgOf("tick", 3) = "lock"
  /\ OpOf("tick", 4) = "up" /\ ArgOf("tick", 4) = "lock"
  /\ OpOf("tick", 5) = "up" /\ ArgOf("tick", 5) = "crit"
  /\ OpOf("tick", 6) = "disable" /\ ArgOf("tick", 6) = "crit"
  /\ OpOf("tick", 7) = "down" /\ ArgOf("tick", 7) = "lock"
  /\ OpOf("tick", 8) = "set" /\ ArgOf("tick", 8) = "mode"
  /\ OpOf("tick", 9) = "up" /\ ArgOf("tick", 9) = "mode"
  /\ OpOf("tick", 10) = "work" /\ ArgOf("tick", 10) = "section"
  /\ OpOf("tick", 11) = "work" /\ ArgOf("tick", 11) = "mode"
  /\ OpOf("tick", 12) = "set" /\ ArgOf("tick", 12) = "mode"
  /\ OpOf("tick", 13) = "up" /\ ArgOf("tick", 13) = "mode"
  /\ OpOf("tick", 14) = "work" /\ ArgOf("tick", 14) = "mode"
  /\ OpOf("tick", 15) = "up" /\ ArgOf("tick", 15) = "lock"
  /\ OpOf("tick", 16) = "up" /\ ArgOf("tick", 16) = "crit"
  /\ OpOf("tick", 17) = "disable" /\ ArgOf("tick", 17) = "crit"
  /\ OpOf("tick", 18) = "down" /\ ArgOf("tick", 18) = "lock"
  /\ OpOf("tick", 19) = "work" /\ ArgOf("tick", 19) = "section"
  /\ OpOf("tick", 20) = "up" /\ ArgOf("tick", 20) = "lock"
  /\ OpOf("tick", 21) = "down" /\ ArgOf("tick", 21) = "crit"
  /\ OpOf("tick", 22) = "enable" /\ ArgOf("tick", 22) = "crit"
  /\ OpOf("tick", 23) = "down" /\ ArgOf("tick", 23) = "lock"
  /\ OpOf("tick", 24) = "clear" /\ ArgOf("tick", 24) = "mode"
  /\ OpOf("tick", 25) = "down" /\ ArgOf("tick", 25) = "mode"
  /\ OpOf("tick", 26) = "work" /\ ArgOf("tick", 26) = "section"
  /\ OpOf("tick", 27) = "work" /\ ArgOf("tick", 27) = "mode"
  /\ OpOf("tick", 28) = "clear" /\ ArgOf("tick", 28) = "mode"
  /\ OpOf("tick", 29) = "down" /\ ArgOf("tick", 29) = "mode"
  /\ OpOf("tick", 30) = "up" /\ ArgOf("tick", 30) = "lock"
  /\ OpOf("tick", 31) = "down" /\ ArgOf("tick", 31) = "crit"
  /\ OpOf("tick", 32) = "enable" /\ ArgOf("tick", 32) = "crit"
  /\ OpOf("tick", 33) = "down" /\ ArgOf("tick", 33) = "lock"
  /\ OpOf("tick", 34) = "up" /\ ArgOf("tick", 34) = "lock"
  /\ OpOf("tick", 35) = "down" /\ ArgOf("tick", 35) = "isr"
  /\ OpOf("tick", 36) = "down" /\ ArgOf("tick", 36) = "lock"
BY CodeIs, ICoreTickCoopIs, OperationParts DEF OpOf, ArgOf

LEMMA CallOps ==
  /\ OpOf("call", 1) = "up" /\ ArgOf("call", 1) = "lock"
  /\ OpOf("call", 2) = "up" /\ ArgOf("call", 2) = "crit"
  /\ OpOf("call", 3) = "disable" /\ ArgOf("call", 3) = "crit"
  /\ OpOf("call", 4) = "down" /\ ArgOf("call", 4) = "lock"
  /\ OpOf("call", 5) = "work" /\ ArgOf("call", 5) = "section"
  /\ OpOf("call", 6) = "up" /\ ArgOf("call", 6) = "lock"
  /\ OpOf("call", 7) = "down" /\ ArgOf("call", 7) = "crit"
  /\ OpOf("call", 8) = "enable" /\ ArgOf("call", 8) = "crit"
  /\ OpOf("call", 9) = "down" /\ ArgOf("call", 9) = "lock"
BY CodeIs, UtilLockCallIs, OperationParts DEF OpOf, ArgOf

Does(code, n, op, arg) == OpOf(code, n) = op /\ ArgOf(code, n) = arg

LEMMA AllocTable ==
  ASSUME NEW n \in 1 .. 24
  PROVE  \/ Does("alloc", n, "up", "lock") /\ n \in {1, 9, 14, 21}
         \/ Does("alloc", n, "down", "lock") /\ n \in {4, 12, 17, 24}
         \/ Does("alloc", n, "up", "crit") /\ n \in {2, 10}
         \/ Does("alloc", n, "down", "crit") /\ n \in {15, 22}
         \/ Does("alloc", n, "disable", "crit") /\ n \in {3, 11}
         \/ Does("alloc", n, "enable", "crit") /\ n \in {16, 23}
         \/ Does("alloc", n, "set", "mode") /\ n \in {5}
         \/ Does("alloc", n, "clear", "mode") /\ n \in {19}
         \/ Does("alloc", n, "up", "mode") /\ n \in {6}
         \/ Does("alloc", n, "down", "mode") /\ n \in {20}
         \/ Does("alloc", n, "work", "section") /\ n \in {7, 13, 18}
         \/ Does("alloc", n, "work", "mode") /\ n \in {8}
BY AllocOps DEF Does

LEMMA FreeTable ==
  ASSUME NEW n \in 1 .. 14
  PROVE  \/ Does("free", n, "up", "lock") /\ n \in {4, 9}
         \/ Does("free", n, "down", "lock") /\ n \in {7, 12}
         \/ Does("free", n, "up", "crit") /\ n \in {5}
         \/ Does("free", n, "down", "crit") /\ n \in {10}
         \/ Does("free", n, "disable", "crit") /\ n \in {6}
         \/ Does("free", n, "enable", "crit") /\ n \in {11}
         \/ Does("free", n, "set", "mode") /\ n \in {1}
         \/ Does("free", n, "clear", "mode") /\ n \in {13}
         \/ Does("free", n, "up", "mode") /\ n \in {2}
         \/ Does("free", n, "down", "mode") /\ n \in {14}
         \/ Does("free", n, "work", "section") /\ n \in {8}
         \/ Does("free", n, "work", "mode") /\ n \in {3}
BY FreeOps DEF Does

LEMMA TickTable ==
  ASSUME NEW n \in 1 .. 36
  PROVE  \/ Does("tick", n, "up", "lock") /\ n \in {1, 4, 15, 20, 30, 34}
         \/ Does("tick", n, "down", "lock") /\ n \in {3, 7, 18, 23, 33, 36}
         \/ Does("tick", n, "up", "crit") /\ n \in {5, 16}
         \/ Does("tick", n, "down", "crit") /\ n \in {21, 31}
         \/ Does("tick", n, "disable", "crit") /\ n \in {6, 17}
         \/ Does("tick", n, "enable", "crit") /\ n \in {22, 32}
         \/ Does("tick", n, "up", "isr") /\ n \in {2}
         \/ Does("tick", n, "down", "isr") /\ n \in {35}
         \/ Does("tick", n, "set", "mode") /\ n \in {8, 12}
         \/ Does("tick", n, "clear", "mode") /\ n \in {24, 28}
         \/ Does("tick", n, "up", "mode") /\ n \in {9, 13}
         \/ Does("tick", n, "down", "mode") /\ n \in {25, 29}
         \/ Does("tick", n, "work", "section") /\ n \in {10, 19, 26}
         \/ Does("tick", n, "work", "mode") /\ n \in {11, 14, 27}
BY TickOps DEF Does

LEMMA CallTable ==
  ASSUME NEW n \in 1 .. 9
  PROVE  \/ Does("call", n, "up", "lock") /\ n \in {1, 6}
         \/ Does("call", n, "down", "lock") /\ n \in {4, 9}
         \/ Does("call", n, "up", "crit") /\ n \in {2}
         \/ Does("call", n, "down", "crit") /\ n \in {7}
         \/ Does("call", n, "disable", "crit") /\ n \in {3}
         \/ Does("call", n, "enable", "crit") /\ n \in {8}
         \/ Does("call", n, "work", "section") /\ n \in {5}
BY CallOps DEF Does

(* The operations agree with what Held, Inside and Past say.                 *)
Counts(code, n) ==
  /\ OpOf(code, n) \in {"up", "down"} =>
       /\ ArgOf(code, n) \in Counter
       /\ \A d \in Counter :
            Held(code, n + 1, d) =
              IF d # ArgOf(code, n) THEN Held(code, n, d)
              ELSE IF OpOf(code, n) = "up" THEN Held(code, n, d) + 1 ELSE Held(code, n, d) - 1
  /\ OpOf(code, n) \notin {"up", "down"} =>
       \A d \in Counter : Held(code, n + 1, d) = Held(code, n, d)

Switches(code, n) ==
  /\ OpOf(code, n) = "disable" =>
       /\ ArgOf(code, n) = "crit" /\ Inside(code, n + 1) /\ Held(code, n, "crit") \in {1, 2}
       /\ Inside(code, n) <=> Held(code, n, "crit") = 2
  /\ OpOf(code, n) = "enable" =>
       /\ ArgOf(code, n) = "crit" /\ Inside(code, n) /\ Held(code, n, "crit") \in {0, 1}
       /\ Inside(code, n + 1) <=> Held(code, n, "crit") = 1
       /\ Held(code, n, "crit") = 0 => Past(code, n + 1)
  /\ OpOf(code, n) \notin {"disable", "enable"} =>
       /\ Inside(code, n + 1) <=> Inside(code, n)
       /\ Past(code, n + 1) <=> Past(code, n)

LEMMA AllocCounts ==
  ASSUME NEW n \in 1 .. 24
  PROVE  Counts("alloc", n) /\ Switches("alloc", n)
BY AllocTable DEF Does, Counts, Switches, Held, HeldLock, HeldCrit, HeldMode, HeldIsr,
                  One, Counter, Inside, Past

LEMMA FreeCounts ==
  ASSUME NEW n \in 1 .. 14
  PROVE  Counts("free", n) /\ Switches("free", n)
BY FreeTable DEF Does, Counts, Switches, Held, HeldLock, HeldCrit, HeldMode, HeldIsr,
                 One, Counter, Inside, Past

LEMMA TickCounts ==
  ASSUME NEW n \in 1 .. 36
  PROVE  Counts("tick", n) /\ Switches("tick", n)
BY TickTable DEF Does, Counts, Switches, Held, HeldLock, HeldCrit, HeldMode, HeldIsr,
                 One, Counter, Inside, Past

LEMMA CallCounts ==
  ASSUME NEW n \in 1 .. 9
  PROVE  Counts("call", n) /\ Switches("call", n)
BY CallTable DEF Does, Counts, Switches, Held, HeldLock, HeldCrit, HeldMode, HeldIsr,
                 One, Counter, Inside, Past

LEMMA CodeCounts ==
  ASSUME NEW code \in CodeName, NEW n \in 1 .. Size(code)
  PROVE  Counts(code, n) /\ Switches(code, n)
BY AllocCounts, FreeCounts, TickCounts, CallCounts DEF CodeName, Size

LEMMA SizeIs ==
  ASSUME NEW code \in CodeName
  PROVE  Len(Code[code]) = Size(code) /\ Size(code) \in Nat
<1>1. /\ Len(Code["alloc"]) = 24 /\ Len(Code["free"]) = 14 /\ Len(Code["tick"]) = 36
      /\ Len(Code["call"]) = 9 /\ Len(Code["rest"]) = 0
  BY CodeIs, AllocObjectIs, FreeObjectIs, ICoreTickCoopIs, UtilLockCallIs DEF IsCode
<1>2. QED BY <1>1 DEF CodeName, Size

(* A call begins and ends with nothing held.                                 *)
LEMMA NothingHeld ==
  ASSUME NEW code \in CodeName, NEW c \in Counter
  PROVE  /\ Held(code, 1, c) = 0 /\ Held(code, Size(code) + 1, c) = 0
         /\ ~Inside(code, 1) /\ ~Inside(code, Size(code) + 1)
         /\ ~Past(code, 1) /\ (code # "rest" => Past(code, Size(code) + 1))
         /\ ~ModeOn(code, 1) /\ ~ModeOn(code, Size(code) + 1)
         /\ \A n \in Nat : Held(code, n, c) \in Nat
BY DEF CodeName, Counter, Size, Held, HeldLock, HeldCrit, HeldMode, HeldIsr, One, Inside, Past,
       ModeOn

(* An operation as a pair, and the operations that matter one by one.        *)
LEMMA OperationIs ==
  ASSUME NEW x \in Context, NEW op, NEW arg, IsAt(x, <<op, arg>>)
  PROVE  x.at <= Size(x.code) /\ Does(x.code, x.at, op, arg)
<1>1. x.code \in CodeName /\ x.at \in Nat BY DEF Context
<1>2. Len(Code[x.code]) = Size(x.code) /\ Size(x.code) \in Nat BY <1>1, SizeIs
<1>3. x.at <= Size(x.code) BY <1>1, <1>2 DEF IsAt, Ended
<1>4. Code[x.code][x.at] = <<op, arg>> BY DEF IsAt, Op
<1>5. QED BY <1>3, <1>4, OperationParts DEF Does, OpOf, ArgOf

LEMMA WhereDone ==
  ASSUME NEW code \in CodeName, NEW n \in 1 .. Size(code)
  PROVE  /\ Does(code, n, "work", "section") => Inside(code, n)
         /\ OpOf(code, n) = "set" <=>
              \/ code = "alloc" /\ n = 5
              \/ code = "free" /\ n = 1
              \/ code = "tick" /\ n \in {8, 12}
         /\ OpOf(code, n) = "clear" <=>
              \/ code = "alloc" /\ n = 19
              \/ code = "free" /\ n = 13
              \/ code = "tick" /\ n \in {24, 28}
         /\ OpOf(code, n) \in {"set", "clear"} => ArgOf(code, n) = "mode"
         /\ Does(code, n, "work", "mode") =>
              \/ code = "alloc" /\ n = 8
              \/ code = "free" /\ n = 3
              \/ code = "tick" /\ n \in {11, 14, 27}
<1>1. CASE code = "alloc" BY <1>1, AllocTable DEF Size, Does, Inside
<1>2. CASE code = "free" BY <1>2, FreeTable DEF Size, Does, Inside
<1>3. CASE code = "tick" BY <1>3, TickTable DEF Size, Does, Inside
<1>4. CASE code = "call" BY <1>4, CallTable DEF Size, Does, Inside
<1>5. CASE code = "rest" BY <1>5 DEF Size
<1>6. QED BY <1>1, <1>2, <1>3, <1>4, <1>5 DEF CodeName

(* The flag and the count of the mode agree but for the halves, and the      *)
(* operations on the flag are where ModeOn changes.                          *)
LEMMA ModeTable ==
  ASSUME NEW code \in CodeName, NEW n \in 1 .. Size(code) + 1, ~Half(code, n)
  PROVE  ModeOn(code, n) <=> HeldMode(code, n) > 0
<1>0. n \in Nat BY SizeIs
<1>1. CASE code = "alloc" BY <1>0, <1>1 DEF Half, ModeOn, HeldMode, One
<1>2. CASE code = "free" BY <1>0, <1>2 DEF Half, ModeOn, HeldMode, One, Size
<1>3. CASE code = "tick" BY <1>0, <1>3 DEF Half, ModeOn, HeldMode, One
<1>4. CASE code \in {"call", "rest"} BY <1>4 DEF ModeOn, HeldMode, One
<1>5. QED BY <1>1, <1>2, <1>3, <1>4 DEF CodeName

LEMMA ModeSteps ==
  ASSUME NEW code \in CodeName, NEW n \in 1 .. Size(code)
  PROVE  /\ OpOf(code, n) = "set" =>
              /\ ModeOn(code, n + 1)
              /\ HeldMode(code, n) = 0 \/ ModeOn(code, n)
         /\ OpOf(code, n) = "clear" =>
              /\ ModeOn(code, n)
              /\ \/ HeldMode(code, n) = 1 /\ ~ModeOn(code, n + 1)
                 \/ HeldMode(code, n) = 2 /\ ModeOn(code, n + 1)
         /\ OpOf(code, n) \notin {"set", "clear"} => (ModeOn(code, n + 1) <=> ModeOn(code, n))
<1>0. n \in Nat BY SizeIs
<1>1. /\ OpOf(code, n) = "set" <=>
           \/ code = "alloc" /\ n = 5
           \/ code = "free" /\ n = 1
           \/ code = "tick" /\ n \in {8, 12}
      /\ OpOf(code, n) = "clear" <=>
           \/ code = "alloc" /\ n = 19
           \/ code = "free" /\ n = 13
           \/ code = "tick" /\ n \in {24, 28}
  BY WhereDone
<1>2. CASE code = "alloc" BY <1>0, <1>1, <1>2 DEF ModeOn, HeldMode, One
<1>3. CASE code = "free" BY <1>0, <1>1, <1>3 DEF ModeOn, HeldMode, One
<1>4. CASE code = "tick" BY <1>0, <1>1, <1>4 DEF ModeOn, HeldMode, One
<1>5. CASE code \in {"call", "rest"} BY <1>1, <1>5 DEF ModeOn
<1>6. QED BY <1>2, <1>3, <1>4, <1>5 DEF CodeName

LEMMA HalfIs ==
  ASSUME NEW code \in CodeName, NEW n \in 1 .. Size(code) + 1, Half(code, n)
  PROVE  /\ n <= Size(code)
         /\ Code[code][n] = <<"up", "mode">> \/ Code[code][n] = <<"down", "mode">>
         /\ code # "free" => code \in {"alloc", "tick"} /\ Inside(code, n)
<1>0. n \in Nat BY SizeIs
<1>1. CASE code = "alloc"
  BY <1>0, <1>1, CodeIs, AllocObjectIs DEF Half, Size, Inside
<1>2. CASE code = "free"
  BY <1>0, <1>2, CodeIs, FreeObjectIs DEF Half, Size
<1>3. CASE code = "tick"
  <2>1. /\ Code["tick"][9] = <<"up", "mode">> /\ Code["tick"][13] = <<"up", "mode">>
        /\ Code["tick"][25] = <<"down", "mode">> /\ Code["tick"][29] = <<"down", "mode">>
    <3>1. Code["tick"] = ICoreTickCoop BY CodeIs
    <3>2. QED BY <3>1, ICoreTickCoopIs
  <2>2. n = 9 \/ n = 13 \/ n = 25 \/ n = 29 BY <1>3 DEF Half
  <2>3. n <= Size(code) /\ Inside(code, n) BY <1>3, <2>2 DEF Size, Inside
  <2>4. Code[code][n] = <<"up", "mode">> \/ Code[code][n] = <<"down", "mode">>
    BY ONLY <1>3, <2>1, <2>2
  <2>5. QED BY <1>3, <2>3, <2>4
<1>4. QED BY <1>1, <1>2, <1>3 DEF Half
--------------------------------------------------------------------------------
(* The stack of contexts.                                                    *)
LEMMA ContextFields ==
  ASSUME CritTypes, NEW i \in 1 .. Len(contexts)
  PROVE  /\ contexts[i] \in Context
         /\ contexts[i].code \in CodeName /\ contexts[i].at \in Nat /\ contexts[i].reg \in Int
<1>1. contexts \in Seq(Context) BY DEF CritTypes
<1>2. contexts[i] \in Context BY <1>1
<1>3. QED BY <1>2 DEF Context

LEMMA DepthIs == CritTypes => Len(contexts) \in Nat \ {0}
<1>1. CritTypes => contexts \in Seq(Context) /\ Len(contexts) > 0 BY DEF CritTypes
<1>2. QED BY <1>1

LEMMA TopSet ==
  ASSUME CritTypes, NEW n \in Nat, NEW r \in Int, SetTop(n, r)
  PROVE  /\ contexts' \in Seq(Context) /\ Len(contexts') = Len(contexts)
         /\ \A i \in 1 .. Len(contexts) - 1 : contexts'[i] = contexts[i]
         /\ Top'.who = Top.who /\ Top'.code = Top.code /\ Top'.at = n /\ Top'.reg = r
<1> DEFINE x == [who |-> Top.who, code |-> Top.code, at |-> n, reg |-> r]
<1>1. contexts \in Seq(Context) /\ Len(contexts) \in Nat \ {0}
  BY DepthIs DEF CritTypes
<1>2. Top \in Context BY <1>1 DEF Top
<1>3. x \in Context BY <1>2 DEF Context
<1>4. contexts' = [contexts EXCEPT ![Len(contexts)] = x] BY DEF SetTop
<1>5. x.who = Top.who /\ x.code = Top.code /\ x.at = n /\ x.reg = r OBVIOUS
<1> HIDE DEF x
<1>6. /\ contexts' \in Seq(Context) /\ Len(contexts') = Len(contexts)
      /\ \A i \in 1 .. Len(contexts) - 1 : contexts'[i] = contexts[i]
      /\ contexts'[Len(contexts)] = x
  BY ONLY <1>1, <1>3, <1>4
<1>7. Top' = x BY ONLY <1>6 DEF Top
<1>8. QED BY ONLY <1>5, <1>6, <1>7

LEMMA TopIs ==
  ASSUME CritTypes
  PROVE  Top \in Context /\ Top.code \in CodeName /\ Top.at \in Nat /\ Top.reg \in Int
<1>1. Len(contexts) \in 1 .. Len(contexts) BY DepthIs
<1>2. QED BY <1>1, ContextFields DEF Top

LEMMA TopAdvanced ==
  ASSUME CritTypes, SetTop(Top.at + 1, -1)
  PROVE  /\ contexts' \in Seq(Context) /\ Len(contexts') = Len(contexts)
         /\ \A i \in 1 .. Len(contexts) - 1 : contexts'[i] = contexts[i]
         /\ Top'.who = Top.who /\ Top'.code = Top.code /\ Top'.at = Top.at + 1 /\ Top'.reg = -1
<1> DEFINE n == Top.at + 1
           r == -1
<1>1. n \in Nat /\ r \in Int /\ SetTop(n, r) BY TopIs
<1> HIDE DEF n, r
<1>2. /\ contexts' \in Seq(Context) /\ Len(contexts') = Len(contexts)
      /\ \A i \in 1 .. Len(contexts) - 1 : contexts'[i] = contexts[i]
      /\ Top'.who = Top.who /\ Top'.code = Top.code /\ Top'.at = n /\ Top'.reg = r
  BY <1>1, TopSet
<1>3. QED BY <1>2 DEF n, r

(* The contexts up to the k-th are left alone, and so is what they found.    *)
Same(base, b, k) ==
  /\ \A i \in 1 .. k : contexts'[i] = contexts[i]
  /\ \A i \in 1 .. Len(contexts) : i <= k + 1 => b[i] = base[i]

LEMMA BelowKept ==
  ASSUME NEW base, NEW b, NEW k \in 0 .. Len(contexts), CritInv(base),
         Same(base, b, k), masks' = masks, Len(contexts') \in Nat,
         \A i \in 1 .. k : i \in torn' <=> i \in torn
  PROVE  /\ \A i \in 1 .. k : Shape(i)' /\ Register(b, i)' /\ Torn(i)'
         /\ \A i \in 1 .. k : i < Len(contexts) => Interrupted(b, i)'
         /\ \A i \in 1 .. Len(contexts) : i <= k + 1 => Found(b, i)'
<1>0. Len(contexts) \in Nat \ {0} BY DepthIs DEF CritInv
<1>1. ASSUME NEW i \in 1 .. k
      PROVE  /\ i \in 1 .. Len(contexts) /\ contexts'[i] = contexts[i] /\ b[i] = base[i]
             /\ i < Len(contexts) => b[i + 1] = base[i + 1]
             /\ \A j \in 1 .. i - 1 : contexts'[j] = contexts[j]
  BY <1>0, <1>1 DEF Same
<1>2. ASSUME NEW i \in 1 .. k PROVE Shape(i)' /\ Register(b, i)' /\ Torn(i)'
  <2>1. Shape(i) /\ Register(base, i) /\ Torn(i) BY <1>1 DEF CritInv
  <2>2. Shape(i)' BY <1>1, <2>1 DEF Shape
  <2>3. Register(b, i)' BY <1>1, <2>1 DEF Register
  <2>4. Torn(i)' BY <1>1, <2>1 DEF Torn
  <2>5. QED BY <2>2, <2>3, <2>4
<1>3. ASSUME NEW i \in 1 .. k, i < Len(contexts) PROVE Interrupted(b, i)'
  <2>1. i \in 1 .. Len(contexts) - 1 BY <1>0, <1>3
  <2>2. Interrupted(base, i) BY <2>1 DEF CritInv
  <2>3. contexts'[i] = contexts[i] /\ b[i] = base[i] /\ b[i + 1] = base[i + 1]
    BY <1>1, <1>3
  <2>4. Open(b, i)' <=> Open(base, i) BY <2>3 DEF Open
  <2>5. QED BY <2>2, <2>3, <2>4 DEF Interrupted
<1>4. ASSUME NEW i \in 1 .. Len(contexts), i <= k + 1 PROVE Found(b, i)'
  <2>1. Found(base, i) /\ b[i] = base[i] BY <1>4 DEF CritInv, Same
  <2>2. \A j \in 1 .. i - 1 : contexts'[j] = contexts[j] BY <1>4 DEF Same
  <2>3. b[i]["crit"] > 0 =>
          \E j \in 1 .. i - 1 : IsAt(contexts'[j], <<"disable", "crit">>)
    BY <2>1, <2>2 DEF Found
  <2>4. b[i]["mode"] > 0 <=>
          \E j \in 1 .. i - 1 : HeldMode(contexts'[j].code, contexts'[j].at) > 0
    BY <2>1, <2>2 DEF Found
  <2>5. QED BY <2>1, <2>3, <2>4 DEF Found
<1>5. QED BY <1>2, <1>3, <1>4

(* The operation of the running context.                                     *)
LEMMA TopOperation ==
  ASSUME NEW base, CritInv(base), ~Ended(Top)
  PROVE  /\ Top.code \in CodeName /\ Top.at \in 1 .. Size(Top.code)
         /\ Op(Top)[1] = OpOf(Top.code, Top.at) /\ Op(Top)[2] = ArgOf(Top.code, Top.at)
         /\ Counts(Top.code, Top.at) /\ Switches(Top.code, Top.at)
         /\ \A c \in Counter :
              /\ KernelReg[c] = base[Len(contexts)][c] + Held(Top.code, Top.at, c)
              /\ base[Len(contexts)][c] \in Nat /\ Held(Top.code, Top.at, c) \in Nat
<1>0. CritTypes BY DEF CritInv
<1>1. Top.code \in CodeName /\ Top.at \in Nat BY <1>0, TopIs
<1>2. Len(contexts) \in 1 .. Len(contexts) BY <1>0, DepthIs
<1>3. Shape(Len(contexts)) /\ Found(base, Len(contexts)) BY <1>2 DEF CritInv
<1>4. Top.at \in 1 .. Size(Top.code) + 1 BY <1>3 DEF Shape, Top
<1>5. Top.at \in 1 .. Size(Top.code) BY <1>1, <1>4, SizeIs DEF Ended
<1>6. \A c \in Counter : base[Len(contexts)][c] \in Nat BY <1>3 DEF Found
<1>7. \A c \in Counter :
        /\ KernelReg[c] = base[Len(contexts)][c] + Held(Top.code, Top.at, c)
        /\ base[Len(contexts)][c] \in Nat /\ Held(Top.code, Top.at, c) \in Nat
  BY <1>1, <1>6, NothingHeld DEF CritInv, Current
<1>8. QED BY <1>1, <1>5, <1>6, <1>7, CodeCounts DEF Op, OpOf, ArgOf

(* Every step of the running context changes its own place and register      *)
(* only; the invariant is then about the running context.                    *)
LEMMA TopStep ==
  ASSUME NEW base, CritInv(base), masks' = masks, NEW n \in Nat, NEW r \in Int, SetTop(n, r),
         KernelReg' \in [Counter -> Int], kernelMode' \in BOOLEAN, torn' = torn,
         Top.at <= Size(Top.code), n \in {Top.at, Top.at + 1},
         Register(base, Len(contexts))', Current(base)', Flag(base)'
  PROVE  CritInv(base)'
<1>0. CritTypes BY DEF CritInv
<1>1. Len(contexts) \in Nat \ {0} BY <1>0, DepthIs
<1>2. /\ contexts' \in Seq(Context) /\ Len(contexts') = Len(contexts)
      /\ \A i \in 1 .. Len(contexts) - 1 : contexts'[i] = contexts[i]
      /\ Top'.who = Top.who /\ Top'.code = Top.code /\ Top'.at = n
  BY <1>0, TopSet
<1>3. Same(base, base, Len(contexts) - 1) BY <1>2 DEF Same
<1>4. Len(contexts) - 1 \in 0 .. Len(contexts) BY <1>1
<1>5. /\ \A i \in 1 .. Len(contexts) - 1 : Shape(i)' /\ Register(base, i)' /\ Torn(i)'
      /\ \A i \in 1 .. Len(contexts) - 1 : i < Len(contexts) => Interrupted(base, i)'
      /\ \A i \in 1 .. Len(contexts) : i <= (Len(contexts) - 1) + 1 => Found(base, i)'
  BY <1>1, <1>2, <1>3, <1>4, BelowKept
<1>6. Shape(Len(contexts))' /\ Torn(Len(contexts))'
  <2>1. Len(contexts) \in 1 .. Len(contexts) BY <1>1
  <2>2. Shape(Len(contexts)) /\ Torn(Len(contexts)) BY <2>1 DEF CritInv
  <2>3. Top.code \in CodeName /\ Top.at \in Nat BY <1>0, TopIs
  <2>4. Size(Top.code) \in Nat BY <2>3, SizeIs
  <2>5. Top.at \in 1 .. Size(Top.code) + 1 BY <2>2 DEF Shape, Top
  <2>6. n \in 1 .. Size(Top.code) + 1 BY <2>3, <2>4, <2>5
  <2>7. Top' = contexts'[Len(contexts)] BY <1>2 DEF Top
  <2>8. Shape(Len(contexts))' BY <1>2, <2>2, <2>6, <2>7 DEF Shape, Top
  <2>9. Torn(Len(contexts))' BY <1>2, <2>2, <2>7 DEF Torn, Top
  <2>10. QED BY <2>8, <2>9
<1>7. \A i \in 1 .. Len(contexts)' :
        Shape(i)' /\ Register(base, i)' /\ Found(base, i)' /\ Torn(i)'
  BY <1>1, <1>2, <1>5, <1>6
<1>8. \A i \in 1 .. Len(contexts)' - 1 : Interrupted(base, i)'
  BY <1>1, <1>2, <1>5
<1>9. CritTypes' BY <1>0, <1>1, <1>2 DEF CritTypes
<1>10. QED BY <1>7, <1>8, <1>9 DEF CritInv

(* The mode flag after an operation.                                         *)
ModeAfter ==
  IF OpOf(Top.code, Top.at) = "set" /\ KernelReg["mode"] = 0 THEN TRUE
  ELSE IF OpOf(Top.code, Top.at) = "clear" /\ KernelReg["mode"] = 1 THEN FALSE ELSE kernelMode

(* A context below the running one that is in the mode, and not torn nor     *)
(* above a torn one, has counted the mode; and who has counted it is in it.  *)
LEMMA BelowCounts ==
  ASSUME NEW base, CritInv(base), NEW i \in 1 .. Len(contexts) - 1, i \notin torn
  PROVE  On(i) <=> HeldMode(contexts[i].code, contexts[i].at) > 0
<1>0. CritTypes /\ Len(contexts) \in Nat /\ i \in 1 .. Len(contexts) BY DepthIs DEF CritInv
<1>1. contexts[i].code \in CodeName BY <1>0, ContextFields
<1>2. Interrupted(base, i) /\ Shape(i) BY <1>0 DEF CritInv
<1>3. ~Half(contexts[i].code, contexts[i].at) BY <1>2 DEF Interrupted
<1>4. contexts[i].at \in 1 .. Size(contexts[i].code) + 1 BY <1>2 DEF Shape
<1>5. QED BY <1>1, <1>3, <1>4, ModeTable DEF On

LEMMA FlagStep ==
  ASSUME NEW base, CritInv(base), ~Ended(Top),
         SetTop(Top.at + 1, -1), torn' = torn, kernelMode' = ModeAfter
  PROVE  Flag(base)' /\ kernelMode' \in BOOLEAN
<1> PICK k \in Nat : k = Len(contexts) BY DepthIs DEF CritInv
<1> DEFINE op == OpOf(Top.code, Top.at)
           held == HeldMode(Top.code, Top.at)
           found == base[k]["mode"]
           next == ModeOn(Top.code, Top.at + 1)
<1>0. CritTypes /\ k \in Nat \ {0} /\ Flag(base) /\ Found(base, k) /\ kernelMode \in BOOLEAN
  BY DepthIs DEF CritInv, CritTypes
<1>1. /\ Top.code \in CodeName /\ Top.at \in 1 .. Size(Top.code)
      /\ KernelReg["mode"] = found + held /\ found \in Nat /\ held \in Nat
  BY TopOperation DEF Counter, Held
<1>2. /\ Len(contexts') = k /\ \A i \in 1 .. k - 1 : contexts'[i] = contexts[i]
      /\ Top'.code = Top.code /\ Top'.at = Top.at + 1
  BY <1>0, TopAdvanced
<1>3. On(k)' <=> next BY <1>2 DEF On, Top
<1>4. On(k) <=> ModeOn(Top.code, Top.at) BY DEF On, Top
<1>5. \A i \in 1 .. k - 1 : On(i)' <=> On(i) BY <1>2 DEF On
<1>6. /\ op = "set" => next /\ (held = 0 \/ On(k))
      /\ op = "clear" => On(k) /\ ((held = 1 /\ ~next) \/ (held = 2 /\ next))
      /\ op \notin {"set", "clear"} => (next <=> On(k))
  BY <1>1, <1>4, ModeSteps
<1>7. found > 0 <=> \E j \in 1 .. k - 1 : HeldMode(contexts[j].code, contexts[j].at) > 0
  BY <1>0 DEF Found
<1>8. \A i \in 1 .. k : i \in 1 .. k - 1 \/ i = k BY <1>0
<1>9. kernelMode' = IF op = "set" /\ KernelReg["mode"] = 0 THEN TRUE
                    ELSE IF op = "clear" /\ KernelReg["mode"] = 1 THEN FALSE ELSE kernelMode
  BY DEF ModeAfter
<1>10. kernelMode' \in BOOLEAN BY <1>0, <1>9
<1> HIDE DEF op, held, found, next
<1>11. ASSUME kernelMode' PROVE \E i \in 1 .. k : On(i)' /\ base[i]["mode"] = 0
  <2>1. CASE op = "set" /\ KernelReg["mode"] = 0
    <3>1. found = 0 BY <1>1, <2>1
    <3>2. On(k)' BY <1>3, <1>6, <2>1
    <3>3. k \in 1 .. k BY <1>0
    <3>4. QED BY <3>1, <3>2, <3>3 DEF found
  <2>2. CASE ~(op = "set" /\ KernelReg["mode"] = 0)
    <3>1. kernelMode /\ ~(op = "clear" /\ KernelReg["mode"] = 1) BY <1>9, <1>11, <2>2
    <3>2. PICK i \in 1 .. k : On(i) /\ base[i]["mode"] = 0 BY <1>0, <3>1 DEF Flag
    <3>3. CASE i \in 1 .. k - 1 BY <1>5, <3>2, <3>3
    <3>4. CASE i = k
      <4>1. found = 0 /\ On(k) BY <3>2, <3>4 DEF found
      <4>2. KernelReg["mode"] = held BY <1>1, <4>1
      <4>3. next
        <5>1. CASE op = "set" BY <1>6, <5>1
        <5>2. CASE op = "clear" BY <1>6, <3>1, <4>2, <5>2
        <5>3. CASE op \notin {"set", "clear"} BY <1>6, <4>1, <5>3
        <5>4. QED BY <5>1, <5>2, <5>3
      <4>4. QED BY <1>3, <3>2, <3>4, <4>3
    <3>5. QED BY <1>8, <3>3, <3>4
  <2>3. QED BY <2>1, <2>2
<1>12. ASSUME NEW i \in 1 .. k, On(i)', Whole(i)' PROVE kernelMode'
  <2>0. Whole(i) BY <1>12 DEF Whole
  <2>1. CASE i \in 1 .. k - 1
    <3>1. On(i) /\ i \notin torn BY <1>5, <1>12, <2>0, <2>1 DEF Whole
    <3>2. kernelMode BY <1>0, <2>0, <3>1 DEF Flag
    <3>3. HeldMode(contexts[i].code, contexts[i].at) > 0 BY <2>1, <3>1, BelowCounts
    <3>4. found > 0 BY <1>7, <2>1, <3>3
    <3>5. ~(op = "clear" /\ KernelReg["mode"] = 1) BY <1>1, <1>6, <3>4
    <3>6. QED BY <1>9, <3>2, <3>5
  <2>2. CASE i = k
    <3>0. next BY <1>3, <1>12, <2>2
    <3>1. On(k) => kernelMode
      <4>1. k \in 1 .. Len(contexts) BY <1>0
      <4>2. QED BY <1>0, <2>0, <2>2, <4>1 DEF Flag
    <3>2. CASE op = "set"
      <4>1. CASE KernelReg["mode"] = 0 BY <1>9, <3>2, <4>1
      <4>2. CASE KernelReg["mode"] # 0 /\ On(k) BY <1>9, <3>1, <3>2, <4>2
      <4>3. CASE KernelReg["mode"] # 0 /\ held = 0
        <5>1. found > 0 BY <1>1, <4>3
        <5>2. PICK j \in 1 .. k - 1 : HeldMode(contexts[j].code, contexts[j].at) > 0
          BY <1>7, <5>1
        <5>3. j \in 1 .. k /\ \A l \in 1 .. j : l \in 1 .. k BY <1>0
        <5>4. Whole(j) /\ j \notin torn BY <2>0, <2>2, <5>3 DEF Whole
        <5>5. On(j) BY <5>2, <5>4, BelowCounts
        <5>6. kernelMode BY <1>0, <5>3, <5>4, <5>5 DEF Flag
        <5>7. QED BY <1>9, <3>2, <4>3, <5>6
      <4>4. QED BY <1>6, <3>2, <4>1, <4>2, <4>3
    <3>3. CASE op = "clear"
      <4>1. On(k) /\ held = 2 BY <1>6, <3>0, <3>3
      <4>2. KernelReg["mode"] # 1 BY <1>1, <4>1
      <4>3. QED BY <1>9, <3>1, <3>3, <4>1, <4>2
    <3>4. CASE op \notin {"set", "clear"} BY <1>6, <1>9, <3>0, <3>1, <3>4
    <3>5. QED BY <3>2, <3>3, <3>4
  <2>3. QED BY <1>8, <2>1, <2>2
<1>13. QED BY <1>2, <1>10, <1>11, <1>12 DEF Flag

(* The interrupt enable after an operation.                                  *)
EnabledAfter ==
  IF OpOf(Top.code, Top.at) = "disable" /\ KernelReg["crit"] = 1 THEN FALSE
  ELSE IF OpOf(Top.code, Top.at) = "enable" /\ KernelReg["crit"] = 0 THEN TRUE ELSE enabled

LEMMA EnabledStep ==
  ASSUME NEW base, CritInv(base), masks' = masks, ~Ended(Top),
         SetTop(Top.at + 1, -1), enabled' = EnabledAfter
  PROVE  enabled' \in BOOLEAN /\ (enabled' <=> Open(base, Len(contexts))')
<1> DEFINE k == Len(contexts)
           n == Top.at
           found == base[k]["crit"]
           held == Held(Top.code, n, "crit")
<1>0. CritTypes /\ enabled \in BOOLEAN /\ (enabled <=> Open(base, k)) /\ masks \in BOOLEAN
  BY DEF CritInv, Current, CritTypes
<1>1. /\ Switches(Top.code, n) /\ n \in Nat
      /\ found \in Nat /\ held \in Nat /\ KernelReg["crit"] = found + held
  BY <1>0, TopIs, TopOperation DEF Counter
<1>2. k \in Nat \ {0} BY <1>0, DepthIs
<1>3. Top'.code = Top.code /\ Top'.at = n + 1 /\ Len(contexts') = k
  BY <1>0, TopAdvanced
<1>4. contexts'[k].code = Top.code /\ contexts'[k].at = n + 1 BY <1>3 DEF Top
<1>5. enabled' \in BOOLEAN BY <1>0 DEF EnabledAfter
<1>6. found > 0 => (Open(base, k) <=> ~masks) /\ (Open(base, k)' <=> ~masks)
  BY <1>1, <1>3 DEF Open
<1>7. found = 0 =>
        /\ Open(base, k) <=> /\ ~Inside(Top.code, n)
                             /\ base[k]["open"] = 1 \/ Past(Top.code, n)
        /\ Open(base, k)' <=> /\ ~Inside(Top.code, n + 1)
                              /\ base[k]["open"] = 1 \/ Past(Top.code, n + 1)
  <2>1. found = 0 => ~(found > 0) BY <1>1
  <2>2. Top = contexts[k] BY DEF Top
  <2>3. QED BY <1>3, <1>4, <2>1, <2>2 DEF Open
<1> HIDE DEF k, n, found, held
<1>8. CASE found > 0
  <2>1. ~(OpOf(Top.code, n) = "disable" /\ KernelReg["crit"] = 1)
    BY <1>1, <1>8 DEF Switches, held, found
  <2>2. ~(OpOf(Top.code, n) = "enable" /\ KernelReg["crit"] = 0)
    BY <1>1, <1>8 DEF Switches, held, found
  <2>3. enabled' = enabled BY <2>1, <2>2 DEF EnabledAfter, n
  <2>4. QED BY <1>0, <1>5, <1>6, <1>8, <2>3 DEF k
<1>9. CASE found = 0
  <2>0. KernelReg["crit"] = held BY <1>1, <1>9
  <2>1. CASE OpOf(Top.code, n) = "disable"
    <3>1. Inside(Top.code, n + 1) /\ held \in {1, 2} /\ (Inside(Top.code, n) <=> held = 2)
      BY <1>1, <2>1 DEF Switches, held
    <3>2. ~Open(base, k)' BY <1>7, <1>9, <3>1
    <3>3. held = 1 => enabled' = FALSE BY <2>0, <2>1 DEF EnabledAfter, n
    <3>4. held = 2 => enabled' = enabled BY <2>0, <2>1 DEF EnabledAfter, n
    <3>5. held = 2 => ~Open(base, k) BY <1>7, <1>9, <3>1
    <3>6. ~enabled' BY <1>0, <3>1, <3>3, <3>4, <3>5
    <3>7. QED BY <1>5, <3>2, <3>6 DEF k
  <2>2. CASE OpOf(Top.code, n) = "enable"
    <3>1. /\ Inside(Top.code, n) /\ held \in {0, 1} /\ (Inside(Top.code, n + 1) <=> held = 1)
          /\ held = 0 => Past(Top.code, n + 1)
      BY <1>1, <2>2 DEF Switches, held
    <3>2. CASE held = 0
      <4>1. enabled' = TRUE BY <2>0, <2>2, <3>2 DEF EnabledAfter, n
      <4>2. Open(base, k)' BY <1>7, <1>9, <3>1, <3>2
      <4>3. QED BY <1>5, <4>1, <4>2 DEF k
    <3>3. CASE held = 1
      <4>1. enabled' = enabled BY <2>0, <2>2, <3>3 DEF EnabledAfter, n
      <4>2. ~Open(base, k)' /\ ~Open(base, k) BY <1>7, <1>9, <3>1, <3>3
      <4>3. QED BY <1>0, <1>5, <4>1, <4>2 DEF k
    <3>4. QED BY <3>1, <3>2, <3>3
  <2>3. CASE OpOf(Top.code, n) \notin {"disable", "enable"}
    <3>1. /\ Inside(Top.code, n + 1) <=> Inside(Top.code, n)
          /\ Past(Top.code, n + 1) <=> Past(Top.code, n)
      BY <1>1, <2>3 DEF Switches
    <3>2. enabled' = enabled BY <2>3 DEF EnabledAfter, n
    <3>3. Open(base, k)' <=> Open(base, k) BY <1>7, <1>9, <3>1
    <3>4. QED BY <1>0, <1>5, <3>2, <3>3 DEF k
  <2>4. QED BY <2>1, <2>2, <2>3
<1>10. QED BY <1>1, <1>8, <1>9

(* The running context goes on to its next operation.                        *)
LEMMA Advance ==
  ASSUME NEW base, CritInv(base), masks' = masks, torn' = torn, ~Ended(Top),
         SetTop(Top.at + 1, -1), KernelReg' \in [Counter -> Int],
         \A c \in Counter :
           KernelReg'[c] = base[Len(contexts)][c] + Held(Top.code, Top.at + 1, c),
         enabled' = EnabledAfter, kernelMode' = ModeAfter
  PROVE  CritInv(base)'
<1>0. CritTypes /\ Top.at \in Nat /\ Top.at <= Size(Top.code)
  BY TopOperation, TopIs DEF CritInv
<1>1. Len(contexts) \in Nat \ {0} BY <1>0, DepthIs
<1>2. /\ Len(contexts') = Len(contexts) /\ Top'.code = Top.code /\ Top'.at = Top.at + 1
      /\ Top'.reg = -1
  BY <1>0, TopAdvanced
<1>3. Register(base, Len(contexts))'
  <2>1. contexts'[Len(contexts')].reg = -1 BY <1>2 DEF Top
  <2>2. QED BY <2>1 DEF Register
<1>4. Current(base)'
  <2>1. enabled' \in BOOLEAN /\ (enabled' <=> Open(base, Len(contexts))') BY EnabledStep
  <2>2. \A c \in Counter :
          KernelReg'[c] = base[Len(contexts')][c] + Held(Top'.code, Top'.at, c)
    BY <1>2
  <2>3. QED BY <2>1, <2>2 DEF Current
<1>5. Flag(base)' /\ kernelMode' \in BOOLEAN BY FlagStep
<1>6. Top.at + 1 \in Nat /\ -1 \in Int /\ Top.at + 1 \in {Top.at, Top.at + 1} BY <1>0
<1>7. QED
  <2> DEFINE m == Top.at + 1
             r == -1
  <2>1. m \in Nat /\ r \in Int /\ SetTop(m, r) /\ m \in {Top.at, Top.at + 1} BY <1>6
  <2> HIDE DEF m, r
  <2>2. QED BY <1>0, <1>3, <1>4, <1>5, <2>1, TopStep

LEMMA LoadStep ==
  ASSUME NEW base, CritInv(base), masks' = masks, ~Ended(Top),
         OpOf(Top.code, Top.at) \in {"up", "down"}, Load(ArgOf(Top.code, Top.at))
  PROVE  CritInv(base)'
<1> DEFINE c == ArgOf(Top.code, Top.at)
           r == KernelReg[c]
<1>0. CritTypes /\ Top.at \in Nat /\ Top.at <= Size(Top.code) /\ c \in Counter
  BY TopOperation, TopIs DEF CritInv, Counts
<1>1. r \in Int /\ KernelReg \in [Counter -> Int] BY <1>0 DEF CritTypes
<1>2. SetTop(Top.at, r) /\ UNCHANGED <<KernelReg, enabled, kernelMode, torn>> BY DEF Load
<1>3. Len(contexts) \in Nat \ {0} BY <1>0, DepthIs
<1> HIDE DEF r
<1>4. /\ Len(contexts') = Len(contexts) /\ Top'.code = Top.code /\ Top'.at = Top.at
      /\ Top'.reg = r /\ \A i \in 1 .. Len(contexts) - 1 : contexts'[i] = contexts[i]
  BY <1>0, <1>1, <1>2, TopSet
<1>5. /\ contexts'[Len(contexts)].code = Top.code /\ contexts'[Len(contexts)].at = Top.at
      /\ contexts'[Len(contexts)].reg = r
  BY <1>4 DEF Top
<1>6. r = base[Len(contexts)][c] + Held(Top.code, Top.at, c) BY <1>0, TopOperation DEF r
<1>7. Register(base, Len(contexts))' BY <1>0, <1>4, <1>5, <1>6 DEF Register
<1>8. Current(base)'
  <2>1. /\ enabled \in BOOLEAN /\ (enabled <=> Open(base, Len(contexts)))
        /\ \A d \in Counter :
             KernelReg[d] = base[Len(contexts)][d] + Held(Top.code, Top.at, d)
    BY DEF CritInv, Current
  <2>2. Open(base, Len(contexts))' <=> Open(base, Len(contexts))
    BY <1>4, <1>5 DEF Open, Top
  <2>3. enabled' \in BOOLEAN /\ (enabled' <=> Open(base, Len(contexts))')
    BY <1>2, <2>1, <2>2
  <2>4. \A d \in Counter :
          KernelReg'[d] = base[Len(contexts')][d] + Held(Top'.code, Top'.at, d)
    BY <1>2, <1>4, <2>1
  <2>5. QED BY <2>3, <2>4 DEF Current
<1>9. Flag(base)'
  <2>1. Flag(base) BY DEF CritInv
  <2>2. \A i \in 1 .. Len(contexts) : i \in 1 .. Len(contexts) - 1 \/ i = Len(contexts) BY <1>3
  <2>3. \A i \in 1 .. Len(contexts) : On(i)' <=> On(i) BY <1>4, <1>5, <2>2 DEF On, Top
  <2>4. \A i \in 1 .. Len(contexts) : Whole(i)' <=> Whole(i) BY <1>2 DEF Whole
  <2>5. QED BY <1>2, <1>4, <2>1, <2>3, <2>4 DEF Flag
<1>10. kernelMode' \in BOOLEAN /\ torn' = torn BY <1>0, <1>2 DEF CritTypes
<1>11. KernelReg' \in [Counter -> Int] BY <1>1, <1>2
<1>12. Top.at \in {Top.at, Top.at + 1} OBVIOUS
<1>13. QED BY <1>0, <1>1, <1>2, <1>7, <1>8, <1>9, <1>10, <1>11, <1>12, TopStep

LEMMA StoreStep ==
  ASSUME NEW base, CritInv(base), masks' = masks, ~Ended(Top), NEW d \in {1, -1},
         OpOf(Top.code, Top.at) = (IF d = 1 THEN "up" ELSE "down"),
         Store(ArgOf(Top.code, Top.at), d)
  PROVE  CritInv(base)'
<1> DEFINE c == ArgOf(Top.code, Top.at)
           k == Len(contexts)
<1>0. CritTypes /\ Top.at \in Nat /\ Counts(Top.code, Top.at) BY TopOperation, TopIs DEF CritInv
<1>1. OpOf(Top.code, Top.at) \in {"up", "down"} OBVIOUS
<1>2. c \in Counter BY <1>0, <1>1 DEF Counts
<1>3. /\ Top.reg # -1 /\ KernelReg' = [KernelReg EXCEPT ![c] = Top.reg + d]
      /\ SetTop(Top.at + 1, -1) /\ UNCHANGED <<enabled, kernelMode, torn>>
  BY DEF Store, Done
<1>4. Top.reg = base[k][c] + Held(Top.code, Top.at, c)
  <2>1. k \in 1 .. k BY <1>0, DepthIs
  <2>2. Register(base, k) BY <2>1 DEF CritInv
  <2>3. QED BY <1>3, <2>2 DEF Register, Top
<1>5. \A e \in Counter :
        /\ KernelReg[e] = base[k][e] + Held(Top.code, Top.at, e)
        /\ base[k][e] \in Nat /\ Held(Top.code, Top.at, e) \in Nat
  BY TopOperation
<1>6. KernelReg \in [Counter -> Int] BY <1>0 DEF CritTypes
<1>7. Top.reg + d \in Int BY <1>2, <1>4, <1>5
<1>8. KernelReg' \in [Counter -> Int] BY <1>3, <1>6, <1>7
<1>9. ASSUME NEW e \in Counter
      PROVE  KernelReg'[e] = base[k][e] + Held(Top.code, Top.at + 1, e)
  <2>1. Held(Top.code, Top.at + 1, e) =
          IF e # c THEN Held(Top.code, Top.at, e)
          ELSE IF d = 1 THEN Held(Top.code, Top.at, e) + 1 ELSE Held(Top.code, Top.at, e) - 1
    BY <1>0, <1>1 DEF Counts
  <2>2. CASE e # c BY <1>3, <1>5, <1>6, <2>1, <2>2
  <2>3. CASE e = c
    <3>1. KernelReg'[e] = Top.reg + d BY <1>3, <1>6, <2>3
    <3>2. QED BY <1>4, <1>5, <2>1, <2>3, <3>1
  <2>4. QED BY <2>2, <2>3
<1>10. enabled' = EnabledAfter /\ kernelMode' = ModeAfter
  BY <1>1, <1>3 DEF EnabledAfter, ModeAfter
<1>11. QED BY <1>3, <1>8, <1>9, <1>10, Advance

LEMMA SwitchStep ==
  ASSUME NEW base, CritInv(base), masks' = masks, ~Ended(Top),
         OpOf(Top.code, Top.at) \notin {"up", "down"},
         Switch(OpOf(Top.code, Top.at), ArgOf(Top.code, Top.at))
  PROVE  CritInv(base)'
<1> DEFINE op == OpOf(Top.code, Top.at)
           c == ArgOf(Top.code, Top.at)
<1>0. /\ CritTypes /\ Top.at \in 1 .. Size(Top.code) /\ Counts(Top.code, Top.at)
      /\ Switches(Top.code, Top.at) /\ Top.code \in CodeName
  BY TopOperation DEF CritInv
<1>1. op \in {"disable", "enable"} => c = "crit" BY <1>0 DEF Switches
<1>2. op \in {"set", "clear"} => c = "mode" BY <1>0, WhereDone
<1>3. enabled' = EnabledAfter
  <2>1. enabled' = CASE op = "disable" /\ BeginDisables(KernelReg[c]) -> FALSE
                     [] op = "enable" /\ EndEnables(KernelReg[c]) -> TRUE
                     [] OTHER -> enabled
    BY DEF Switch
  <2>2. QED BY <1>1, <2>1 DEF EnabledAfter, BeginDisables, EndEnables
<1>4. kernelMode' = ModeAfter
  <2>1. kernelMode' = CASE op = "set" /\ KernelReg[c] = 0 -> TRUE
                        [] op = "clear" /\ ExitClears(KernelReg[c]) -> FALSE
                        [] OTHER -> kernelMode
    BY DEF Switch
  <2>2. QED BY <1>2, <2>1 DEF ModeAfter, ExitClears
<1>5. SetTop(Top.at + 1, -1) /\ UNCHANGED <<KernelReg, torn>> BY DEF Switch, Done
<1>6. KernelReg' \in [Counter -> Int] BY <1>0, <1>5 DEF CritTypes
<1>7. \A e \in Counter : Held(Top.code, Top.at + 1, e) = Held(Top.code, Top.at, e)
  BY <1>0 DEF Counts
<1>8. \A e \in Counter : KernelReg'[e] = base[Len(contexts)][e] + Held(Top.code, Top.at + 1, e)
  BY <1>5, <1>7, TopOperation
<1>9. QED BY <1>3, <1>4, <1>5, <1>6, <1>8, Advance

LEMMA StepKeeps ==
  ASSUME NEW base, CritInv(base), masks' = masks, Step
  PROVE  CritInv(base)'
<1>1. ~Ended(Top) BY DEF Step
<1>2. Op(Top)[1] = OpOf(Top.code, Top.at) /\ Op(Top)[2] = ArgOf(Top.code, Top.at)
  BY <1>1, TopOperation
<1> DEFINE op == OpOf(Top.code, Top.at)
           c == ArgOf(Top.code, Top.at)
<1>3. CASE op \in {"up", "down"}
  <2>1. Load(c) \/ Store(c, IF op = "up" THEN 1 ELSE -1) BY <1>2, <1>3 DEF Step
  <2>2. CASE Load(c) BY <1>1, <1>3, <2>2, LoadStep
  <2>3. CASE op = "up" /\ Store(c, 1) BY <1>1, <2>3, StoreStep
  <2>4. CASE op = "down" /\ Store(c, -1) BY <1>1, <2>4, StoreStep
  <2>5. QED BY <1>3, <2>1, <2>2, <2>3, <2>4
<1>4. CASE op \notin {"up", "down"}
  <2>1. Switch(op, c) BY <1>2, <1>4 DEF Step
  <2>2. QED BY <1>1, <1>4, <2>1, SwitchStep
<1>5. QED BY <1>3, <1>4

(* A context that could be interrupted has counted a critical section only   *)
(* just before disabling interrupts.                                         *)
LEMMA Interruptible ==
  ASSUME NEW base, NEW i, Found(base, i), Open(base, i)
  PROVE  base[i]["crit"] = 0 => ~Inside(contexts[i].code, contexts[i].at)
<1>1. base[i]["crit"] \in Nat BY DEF Found, Counter
<1>2. base[i]["crit"] = 0 => ~(base[i]["crit"] > 0) BY <1>1
<1>3. QED BY <1>2 DEF Open

LEMMA IsAtOp ==
  ASSUME NEW x \in Context, NEW op, x.at <= Size(x.code), Code[x.code][x.at] = op
  PROVE  IsAt(x, op)
<1>1. x.code \in CodeName /\ x.at \in Nat BY DEF Context
<1>2. Len(Code[x.code]) = Size(x.code) /\ Size(x.code) \in Nat BY <1>1, SizeIs
<1>3. QED BY <1>1, <1>2 DEF IsAt, Ended, Op

LEMMA AboutToDisable ==
  ASSUME NEW x \in Context, x.at \in 1 .. Size(x.code) + 1,
         HeldCrit(x.code, x.at) > 0, ~Inside(x.code, x.at)
  PROVE  IsAt(x, <<"disable", "crit">>)
<1> DEFINE code == x.code
           n == x.at
<1>0. code \in CodeName /\ n \in Nat BY DEF Context
<1>1. /\ Code["alloc"][3] = <<"disable", "crit">> /\ Code["free"][6] = <<"disable", "crit">>
      /\ Code["tick"][6] = <<"disable", "crit">> /\ Code["call"][3] = <<"disable", "crit">>
  BY CodeIs, AllocObjectIs, FreeObjectIs, ICoreTickCoopIs, UtilLockCallIs
<1>2. CASE code = "alloc"
  <2>1. n = 3 BY <1>0, <1>2 DEF HeldCrit, One, Inside
  <2>2. QED BY <1>1, <1>2, <2>1, IsAtOp DEF Size
<1>3. CASE code = "free"
  <2>1. n = 6 BY <1>0, <1>3 DEF HeldCrit, One, Inside
  <2>2. QED BY <1>1, <1>3, <2>1, IsAtOp DEF Size
<1>4. CASE code = "tick"
  <2>1. n = 6 BY <1>0, <1>4 DEF HeldCrit, One, Inside
  <2>2. QED BY <1>1, <1>4, <2>1, IsAtOp DEF Size
<1>5. CASE code = "call"
  <2>1. n = 3 BY <1>0, <1>5 DEF HeldCrit, One, Inside
  <2>2. QED BY <1>1, <1>5, <2>1, IsAtOp DEF Size
<1>6. CASE code = "rest" BY <1>6 DEF HeldCrit, One
<1>7. QED BY <1>0, <1>2, <1>3, <1>4, <1>5, <1>6 DEF CodeName

LEMMA Pushed ==
  ASSUME CritTypes, NEW x \in Context, contexts' = Append(contexts, x)
  PROVE  /\ contexts' \in Seq(Context) /\ Len(contexts') = Len(contexts) + 1
         /\ \A i \in 1 .. Len(contexts) : contexts'[i] = contexts[i]
         /\ contexts'[Len(contexts) + 1] = x
         /\ Top' = x /\ Task' = Task
<1>1. contexts \in Seq(Context) BY DEF CritTypes
<1>2. Len(contexts) \in Nat \ {0} BY DepthIs
<1>3. /\ contexts' \in Seq(Context) /\ Len(contexts') = Len(contexts) + 1
      /\ \A i \in 1 .. Len(contexts) : contexts'[i] = contexts[i]
      /\ contexts'[Len(contexts) + 1] = x
  BY ONLY <1>1, contexts' = Append(contexts, x), x \in Context
<1>4. 1 \in 1 .. Len(contexts) BY <1>2
<1>5. QED BY <1>3, <1>4 DEF Top, Task

LEMMA NotHalf ==
  ASSUME NEW x \in Context, x.at \in 1 .. Size(x.code) + 1, ~Half(x.code, x.at)
  PROVE  ~(IsAt(x, <<"up", "mode">>) \/ IsAt(x, <<"down", "mode">>))
<1> DEFINE code == x.code
           n == x.at
<1>0. code \in CodeName /\ n \in Nat /\ ~Half(code, n) BY DEF Context
<1>1. ASSUME NEW op \in {"up", "down"}, n \in 1 .. Size(code) PROVE ~Does(code, n, op, "mode")
  <2>1. CASE code = "alloc" BY <1>0, <1>1, <2>1, AllocTable DEF Size, Does, Half
  <2>2. CASE code = "free" BY <1>0, <1>1, <2>2, FreeTable DEF Size, Does, Half
  <2>3. CASE code = "tick" BY <1>0, <1>1, <2>3, TickTable DEF Size, Does, Half
  <2>4. CASE code = "call" BY <1>0, <1>1, <2>4, CallTable DEF Size, Does
  <2>5. CASE code = "rest" BY <1>1, <2>5 DEF Size
  <2>6. QED BY <1>0, <2>1, <2>2, <2>3, <2>4, <2>5 DEF CodeName
<1>2. ASSUME NEW op \in {"up", "down"}, IsAt(x, <<op, "mode">>) PROVE FALSE
  <2>1. n <= Size(code) /\ Does(code, n, op, "mode") BY <1>2, OperationIs
  <2>2. n \in 1 .. Size(code) BY <1>0, <2>1, SizeIs
  <2>3. QED BY <1>1, <2>1, <2>2
<1>3. QED BY <1>2

(* An interrupt finds the counters as the running context left them.         *)
LEMMA InterruptKeeps ==
  ASSUME NEW base, CritInv(base), masks' = masks, NEW w \in DOMAIN Level, Interrupt(w)
  PROVE  \E b : CritInv(b)'
<1> PICK code \in CallsOf(w) : contexts' = Append(contexts, Ctx(w, code)) BY DEF Interrupt
<1> DEFINE x == Ctx(w, code)
<1> PICK k \in Nat : k = Len(contexts) BY DepthIs DEF CritInv
<1>0. CritTypes /\ k \in Nat \ {0} /\ Top = contexts[k] /\ k \in 1 .. k
  BY DepthIs DEF CritInv, Top
<1>1. /\ enabled
      /\ masks \/ Level[w] > (IF Top.who = "task" THEN 0 ELSE Level[Top.who])
      /\ contexts' = Append(contexts, x) /\ enabled' = ~masks
      /\ UNCHANGED <<KernelReg, kernelMode>>
  BY DEF Interrupt
<1>2. /\ x \in Context /\ x.who = w /\ x.code = code /\ x.at = 1 /\ x.reg = -1
      /\ x.code \in CodeName /\ x.code \in CallsOf(w)
  BY DEF Ctx, Context, CallsOf, CodeName
<1> HIDE DEF x
<1>3. /\ contexts' \in Seq(Context) /\ Len(contexts') = k + 1
      /\ \A i \in 1 .. k : contexts'[i] = contexts[i]
      /\ contexts'[k + 1] = x /\ Top' = x /\ Task' = Task
  BY <1>0, <1>1, <1>2, Pushed
<1>4. Shape(k) /\ Found(base, k) /\ Current(base) /\ Flag(base) /\ Torn(k) BY <1>0 DEF CritInv
<1>5. /\ \A c \in Counter : KernelReg[c] = base[k][c] + Held(Top.code, Top.at, c)
      /\ Open(base, k)
  BY <1>0, <1>1, <1>4 DEF Current
<1>6. /\ Top \in Context /\ Top.code \in CodeName /\ Top.at \in 1 .. Size(Top.code) + 1
      /\ KernelReg \in [Counter -> Int]
      /\ \A c \in Counter : base[k][c] \in Nat /\ Held(Top.code, Top.at, c) \in Nat
  <2>1. Top \in Context /\ Top.code \in CodeName /\ Top.at \in Nat BY <1>0, TopIs
  <2>2. Top.at \in 1 .. Size(Top.code) + 1 BY <1>0, <1>4 DEF Shape
  <2>3. \A c \in Counter : base[k][c] \in Nat BY <1>4 DEF Found
  <2>4. QED BY <1>0, <2>1, <2>2, <2>3, NothingHeld DEF CritTypes
<1>7. ~masks => Top.who # "tick"
  <2>1. "tick" # "task" OBVIOUS
  <2>2. Level[w] \in Nat /\ Level["tick"] \in Nat /\ Level[w] <= Level["tick"]
    BY LevelAssumption
  <2>3. Top.who = "tick" => ~(Level[w] > (IF Top.who = "task" THEN 0 ELSE Level[Top.who]))
    BY <2>1, <2>2
  <2>4. QED BY <1>1, <2>3
<1>8. base[k]["crit"] = 0 => ~Inside(Top.code, Top.at) BY <1>0, <1>4, <1>5, Interruptible
<1> DEFINE found == [c \in Counter \cup {"open"} |->
                       IF c = "open" THEN (IF masks THEN 0 ELSE 1) ELSE KernelReg[c]]
<1>9. PICK b : b = [i \in 1 .. k + 1 |-> IF i <= k THEN base[i] ELSE found] OBVIOUS
<1>10. /\ b[k + 1] = found /\ \A i \in 1 .. k : b[i] = base[i]
       /\ \A c \in Counter : found[c] = KernelReg[c]
       /\ found["open"] = IF masks THEN 0 ELSE 1
  BY <1>0, <1>9 DEF Counter
<1>11. /\ torn' = IF IsAt(Top, <<"up", "mode">>) \/ IsAt(Top, <<"down", "mode">>)
                  THEN torn \cup {k} ELSE torn
       /\ torn \subseteq 1 .. k
  BY <1>0 DEF Interrupt, CritTypes
<1>12. /\ \A i \in 1 .. k - 1 : Shape(i)' /\ Register(b, i)' /\ Torn(i)'
       /\ \A i \in 1 .. k - 1 : i < k => Interrupted(b, i)'
       /\ \A i \in 1 .. k : i <= (k - 1) + 1 => Found(b, i)'
  <2>1. k - 1 \in 0 .. Len(contexts) /\ Len(contexts') \in Nat BY <1>0, <1>3
  <2>2. \A i \in 1 .. k - 1 : i \in torn' <=> i \in torn BY <1>0, <1>11
  <2>3. Same(base, b, k - 1) BY <1>0, <1>3, <1>10 DEF Same
  <2> PICK m \in 0 .. Len(contexts) : m = k - 1 BY <2>1
  <2>4. /\ \A i \in 1 .. m : Shape(i)' /\ Register(b, i)' /\ Torn(i)'
        /\ \A i \in 1 .. m : i < Len(contexts) => Interrupted(b, i)'
        /\ \A i \in 1 .. Len(contexts) : i <= m + 1 => Found(b, i)'
    BY <2>1, <2>2, <2>3, BelowKept
  <2>5. QED BY <2>4
<1>13. Shape(k + 1)' /\ Register(b, k + 1)' /\ Shape(k)' /\ Register(b, k)'
  <2>1. k + 1 # 1 /\ Size(x.code) \in Nat BY <1>0, <1>2, SizeIs
  <2>2. x.at \in 1 .. Size(x.code) + 1 BY <1>2, <2>1
  <2>3. Shape(k + 1)' BY <1>2, <1>3, <2>1, <2>2 DEF Shape
  <2>4. Register(b, k + 1)' BY <1>2, <1>3 DEF Register
  <2>5. contexts'[k] = contexts[k] /\ b[k] = base[k] BY <1>0, <1>3, <1>10
  <2>6. Register(base, k) BY <1>0 DEF CritInv
  <2>7. Shape(k)' BY <1>4, <2>5 DEF Shape
  <2>8. Register(b, k)' BY <2>5, <2>6 DEF Register
  <2>9. QED BY <2>3, <2>4, <2>7, <2>8
<1>14. Torn(k)' /\ Torn(k + 1)' /\ torn' \subseteq 1 .. k + 1
       /\ (k \notin torn' => ~Half(Top.code, Top.at))
  <2>0. torn' \subseteq 1 .. k BY <1>0, <1>11
  <2>1. k + 1 \notin torn' BY <1>0, <2>0
  <2>2. contexts'[k] = Top /\ \A j \in 1 .. k - 1 : contexts'[j] = contexts[j] BY <1>0, <1>3
  <2>3. CASE k \in torn
    <3>1. Torn(k)' BY <1>0, <1>4, <2>2, <2>3 DEF Torn
    <3>2. k \in torn' BY <1>11, <2>3
    <3>3. QED BY <1>0, <2>0, <2>1, <3>1, <3>2 DEF Torn
  <2>4. CASE k \notin torn /\ Half(Top.code, Top.at)
    <3>1. /\ Top.at <= Size(Top.code)
          /\ Code[Top.code][Top.at] = <<"up", "mode">> \/ Code[Top.code][Top.at] = <<"down", "mode">>
          /\ Top.code # "free" => Top.code \in {"alloc", "tick"} /\ Inside(Top.code, Top.at)
      BY <1>6, <2>4, HalfIs
    <3>2. IsAt(Top, <<"up", "mode">>) \/ IsAt(Top, <<"down", "mode">>) BY <1>6, <3>1, IsAtOp
    <3>3. k \in torn' BY <1>11, <3>2
    <3>4. ASSUME Top.code # "free"
          PROVE  /\ ~masks /\ Top.code = "alloc"
                 /\ \E j \in 1 .. k - 1 : IsAt(contexts[j], <<"disable", "crit">>)
      <4>1. base[k]["crit"] > 0 BY <1>6, <1>8, <3>1, <3>4 DEF Counter
      <4>2. ~masks BY <1>5, <4>1 DEF Open
      <4>3. Top.who # "tick" BY <1>7, <4>2
      <4>4. Top.code # "tick" BY <1>0, <1>4, <4>3 DEF Shape, CallsOf
      <4>5. QED BY <1>4, <3>1, <3>4, <4>1, <4>2, <4>4 DEF Found
    <3>5. Torn(k)' BY <2>2, <3>4 DEF Torn
    <3>6. QED BY <1>0, <2>0, <2>1, <3>3, <3>5 DEF Torn
  <2>5. CASE k \notin torn /\ ~Half(Top.code, Top.at)
    <3>1. ~(IsAt(Top, <<"up", "mode">>) \/ IsAt(Top, <<"down", "mode">>))
      BY <1>6, <2>5, NotHalf
    <3>2. k \notin torn' BY <1>11, <2>5, <3>1
    <3>3. QED BY <1>0, <2>0, <2>1, <2>5, <3>2 DEF Torn
  <2>6. QED BY <2>3, <2>4, <2>5
<1>15. Found(b, k + 1)'
  <2>1. b[k + 1] \in [Counter \cup {"open"} -> Nat]
    <3>1. \A c \in Counter : KernelReg[c] \in Nat BY <1>5, <1>6
    <3>2. QED BY <1>10, <3>1
  <2> HIDE DEF found
  <2>2. b[k + 1]["mode"] > 0 <=>
          \E j \in 1 .. k : HeldMode(contexts'[j].code, contexts'[j].at) > 0
    <3>1. /\ KernelReg["mode"] = base[k]["mode"] + HeldMode(Top.code, Top.at)
          /\ base[k]["mode"] \in Nat /\ HeldMode(Top.code, Top.at) \in Nat
          /\ b[k + 1]["mode"] = KernelReg["mode"]
      BY <1>5, <1>6, <1>10 DEF Counter, Held
    <3>2. base[k]["mode"] > 0 <=>
            \E j \in 1 .. k - 1 : HeldMode(contexts[j].code, contexts[j].at) > 0
      BY <1>4 DEF Found
    <3>3. \A j \in 1 .. k : j \in 1 .. k - 1 \/ j = k BY <1>0
    <3>4. \A j \in 1 .. k - 1 : j \in 1 .. k BY <1>0
    <3>5. (\E j \in 1 .. k : HeldMode(contexts'[j].code, contexts'[j].at) > 0) <=>
            \/ HeldMode(Top.code, Top.at) > 0
            \/ \E j \in 1 .. k - 1 : HeldMode(contexts[j].code, contexts[j].at) > 0
      BY <1>0, <1>3, <3>3, <3>4
    <3>6. QED BY <3>1, <3>2, <3>5
  <2>3. b[k + 1]["crit"] > 0 => \E j \in 1 .. k : IsAt(contexts'[j], <<"disable", "crit">>)
    <3>1. /\ KernelReg["crit"] = base[k]["crit"] + HeldCrit(Top.code, Top.at)
          /\ base[k]["crit"] \in Nat /\ HeldCrit(Top.code, Top.at) \in Nat
          /\ b[k + 1]["crit"] = KernelReg["crit"]
      BY <1>5, <1>6, <1>10 DEF Counter, Held
    <3>2. CASE base[k]["crit"] > 0
      <4>1. PICK j \in 1 .. k - 1 : IsAt(contexts[j], <<"disable", "crit">>)
        BY <1>4, <3>2 DEF Found
      <4>2. j \in 1 .. k BY <1>0
      <4>3. QED BY <1>3, <4>1, <4>2
    <3>3. CASE base[k]["crit"] = 0 /\ HeldCrit(Top.code, Top.at) > 0
      <4>1. IsAt(Top, <<"disable", "crit">>) BY <1>6, <1>8, <3>3, AboutToDisable
      <4>2. QED BY <1>0, <1>3, <4>1
    <3>4. QED BY <3>1, <3>2, <3>3
  <2>4. (k + 1) - 1 = k /\ k + 1 # 1 BY <1>0
  <2>5. ~masks => b[k + 1]["open"] = 1 BY <1>10
  <2>6. QED BY <2>1, <2>2, <2>3, <2>4, <2>5 DEF Found
<1> HIDE DEF found
<1>16. Interrupted(b, k)'
  <2>1. contexts'[k] = contexts[k] /\ b[k] = base[k] BY <1>0, <1>3, <1>10
  <2>2. Open(b, k)' BY <1>5, <2>1 DEF Open
  <2>3. \A c \in Counter : b[k + 1][c] = b[k][c] + Held(contexts[k].code, contexts[k].at, c)
    BY <1>0, <1>5, <1>10, <2>1
  <2>4. QED BY <1>0, <1>7, <1>14, <2>1, <2>2, <2>3 DEF Interrupted
<1>17. Current(b)'
  <2>1. enabled' \in BOOLEAN /\ (enabled' <=> ~masks) /\ masks \in BOOLEAN
    BY <1>0, <1>1 DEF CritTypes
  <2>2. ~Inside(x.code, 1) /\ ~Past(x.code, 1) BY <1>2, NothingHeld DEF Counter
  <2>3. b[k + 1]["open"] = 1 <=> ~masks BY <1>10, <2>1
  <2>4. Open(b, k + 1)' <=> ~masks BY <1>2, <1>3, <2>2, <2>3 DEF Open
  <2>5. \A c \in Counter : KernelReg'[c] = b[k + 1][c] + Held(Top'.code, Top'.at, c)
    <3>1. \A c \in Counter : Held(x.code, 1, c) = 0 BY <1>2, NothingHeld
    <3>2. \A c \in Counter : KernelReg[c] \in Int BY <1>6
    <3>3. QED BY <1>1, <1>2, <1>3, <1>10, <3>1, <3>2
  <2>6. QED BY <1>3, <2>1, <2>4, <2>5 DEF Current
<1>18. Flag(b)'
  <2>1. ~On(k + 1)'
    <3>1. ~ModeOn(x.code, 1) BY <1>2, NothingHeld DEF Counter
    <3>2. QED BY <1>2, <1>3, <3>1 DEF On
  <2>2. \A i \in 1 .. k : On(i)' <=> On(i) BY <1>3 DEF On
  <2>3. \A i \in 1 .. k : Whole(i)' => Whole(i) BY <1>11 DEF Whole
  <2>4. \A i \in 1 .. k + 1 : i \in 1 .. k \/ i = k + 1 BY <1>0
  <2>5. \A i \in 1 .. k : i \in 1 .. k + 1 BY <1>0
  <2>6. kernelMode' = kernelMode BY <1>1
  <2>7. kernelMode => \E i \in 1 .. k + 1 : On(i)' /\ b[i]["mode"] = 0
    BY <1>0, <1>4, <1>10, <2>2, <2>5 DEF Flag
  <2>8. \A i \in 1 .. k + 1 : On(i)' /\ Whole(i)' => kernelMode
    BY <1>4, <2>1, <2>2, <2>3, <2>4 DEF Flag
  <2>9. QED BY <1>3, <2>6, <2>7, <2>8 DEF Flag
<1>19. CritInv(b)'
  <2>1. \A i \in 1 .. Len(contexts)' : Shape(i)' /\ Register(b, i)' /\ Found(b, i)' /\ Torn(i)'
    <3>1. \A i \in 1 .. k + 1 : i \in 1 .. k - 1 \/ i = k \/ i = k + 1 BY <1>0
    <3>2. \A i \in 1 .. k : i <= (k - 1) + 1 BY <1>0
    <3>3. \A i \in 1 .. k - 1 : i \in 1 .. k BY <1>0
    <3>4. QED BY <1>0, <1>3, <1>12, <1>13, <1>14, <1>15, <3>1, <3>2, <3>3
  <2>2. \A i \in 1 .. Len(contexts)' - 1 : Interrupted(b, i)'
    <3>1. Len(contexts)' - 1 = k BY <1>0, <1>3
    <3>2. \A i \in 1 .. k : (i \in 1 .. k - 1 /\ i < k) \/ i = k BY <1>0
    <3>3. QED BY <1>12, <1>16, <3>1, <3>2
  <2>3. CritTypes' BY <1>0, <1>1, <1>3, <1>14 DEF CritTypes
  <2>4. QED BY <1>17, <1>18, <2>1, <2>2, <2>3 DEF CritInv
<1>20. QED BY <1>19

(* A call that has ended has undone everything it held.                      *)
LEMMA TopEnded ==
  ASSUME NEW base, CritInv(base), Ended(Top)
  PROVE  /\ Top.at = Size(Top.code) + 1 /\ Top.code \in CodeName
         /\ \A c \in Counter :
              KernelReg[c] = base[Len(contexts)][c] /\ Held(Top.code, Top.at, c) = 0
         /\ ~Inside(Top.code, Top.at) /\ ~ModeOn(Top.code, Top.at)
<1>0. CritTypes BY DEF CritInv
<1>1. Len(contexts) \in 1 .. Len(contexts) BY <1>0, DepthIs
<1>2. Top.code \in CodeName /\ Top.at \in Nat BY <1>0, TopIs
<1>3. Shape(Len(contexts)) /\ Found(base, Len(contexts)) BY <1>1 DEF CritInv
<1>4. Top.at \in 1 .. Size(Top.code) + 1 BY <1>3 DEF Shape, Top
<1>5. Top.at = Size(Top.code) + 1 BY <1>2, <1>4, SizeIs DEF Ended
<1>6. \A c \in Counter : Held(Top.code, Top.at, c) = 0 BY <1>2, <1>5, NothingHeld
<1>7. \A c \in Counter : base[Len(contexts)][c] \in Nat BY <1>3 DEF Found
<1>8. \A c \in Counter : KernelReg[c] = base[Len(contexts)][c] + Held(Top.code, Top.at, c)
  BY DEF CritInv, Current
<1>9. \A c \in Counter : KernelReg[c] = base[Len(contexts)][c] BY <1>6, <1>7, <1>8
<1>10. ~Inside(Top.code, Top.at) /\ ~ModeOn(Top.code, Top.at)
  BY <1>2, <1>5, NothingHeld DEF Counter
<1>11. QED BY <1>2, <1>5, <1>6, <1>9, <1>10

LEMMA Popped ==
  ASSUME CritTypes, Len(contexts) > 1, contexts' = SubSeq(contexts, 1, Len(contexts) - 1)
  PROVE  /\ contexts' \in Seq(Context) /\ Len(contexts') = Len(contexts) - 1
         /\ \A i \in 1 .. Len(contexts) - 1 : contexts'[i] = contexts[i]
         /\ Top' = contexts[Len(contexts) - 1] /\ Task' = Task
<1>1. contexts \in Seq(Context) BY DEF CritTypes
<1>2. Len(contexts) \in Nat \ {0} BY DepthIs
<1>3. Len(contexts) - 1 \in 1 .. Len(contexts) /\ Len(contexts) - 1 \in Nat BY <1>2
<1>4. /\ contexts' \in Seq(Context) /\ Len(contexts') = Len(contexts) - 1
      /\ \A i \in 1 .. Len(contexts) - 1 : contexts'[i] = contexts[i]
  BY ONLY <1>1, <1>2, <1>3, contexts' = SubSeq(contexts, 1, Len(contexts) - 1)
<1>5. 1 \in 1 .. Len(contexts) - 1 /\ Len(contexts) - 1 \in 1 .. Len(contexts) - 1
  BY <1>2, <1>3
<1>6. QED BY <1>4, <1>5 DEF Top, Task

LEMMA ReturnKeeps ==
  ASSUME NEW base, CritInv(base), masks' = masks, Return
  PROVE  CritInv(base)'
<1>t. CritTypes BY DEF CritInv
<1>l. Len(contexts) \in Nat \ {0} BY <1>t, DepthIs
<1>m. Len(contexts) - 1 \in Nat BY ONLY <1>l
<1> PICK k \in Nat : k = Len(contexts) - 1 BY ONLY <1>m
<1>0. /\ CritTypes /\ k \in Nat \ {0} /\ Len(contexts) = k + 1 /\ Ended(Top)
      /\ enabled' = (enabled \/ masks) /\ torn' = torn \ {k + 1}
      /\ UNCHANGED <<KernelReg, kernelMode>>
  BY DepthIs DEF CritInv, Return
<1>1. /\ contexts' \in Seq(Context) /\ Len(contexts') = k
      /\ \A i \in 1 .. k : contexts'[i] = contexts[i]
      /\ Top' = contexts[k] /\ Task' = Task
  <2>1. contexts' = SubSeq(contexts, 1, Len(contexts) - 1) /\ Len(contexts) > 1 BY DEF Return
  <2>2. QED BY <1>0, <2>1, Popped
<1>2. k \in 1 .. Len(contexts) - 1 /\ k \in 1 .. Len(contexts) BY <1>0
<1>3. Interrupted(base, k) /\ Shape(k) /\ Found(base, k) /\ Found(base, k + 1) /\ Flag(base)
      /\ Current(base)
  BY <1>0, <1>2 DEF CritInv
<1>4. /\ \A c \in Counter : KernelReg[c] = base[k + 1][c]
      /\ ~Inside(Top.code, Top.at) /\ ~ModeOn(Top.code, Top.at)
  BY <1>0, TopEnded
<1>5. /\ \A i \in 1 .. k : Shape(i)' /\ Register(base, i)' /\ Torn(i)'
      /\ \A i \in 1 .. k : i < Len(contexts) => Interrupted(base, i)'
      /\ \A i \in 1 .. Len(contexts) : i <= k + 1 => Found(base, i)'
  <2>1. k \in 0 .. Len(contexts) /\ Len(contexts') \in Nat BY <1>0, <1>1
  <2>2. Same(base, base, k) BY <1>1 DEF Same
  <2>3. \A i \in 1 .. k : i \in torn' <=> i \in torn BY <1>0
  <2>4. QED BY <2>1, <2>2, <2>3, BelowKept
<1>6. Current(base)'
  <2>0. masks \in BOOLEAN /\ enabled \in BOOLEAN BY <1>0, <1>3 DEF CritTypes, Current
  <2>1. ~masks => enabled
    <3>1. base[k + 1]["crit"] \in Nat BY <1>3 DEF Found, Counter
    <3>2. Top = contexts[k + 1] BY <1>0 DEF Top
    <3>3. ~masks => base[k + 1]["open"] = 1 BY <1>3 DEF Found
    <3>4. ~masks => Open(base, k + 1) BY <1>4, <3>1, <3>2, <3>3 DEF Open
    <3>5. QED BY <1>0, <1>3, <3>4 DEF Current
  <2>2. enabled' \in BOOLEAN /\ enabled' BY <1>0, <2>0, <2>1
  <2>3. Open(base, k)'
    <3>1. Open(base, k) BY <1>3 DEF Interrupted
    <3>2. contexts'[k] = contexts[k] BY <1>1, <1>2
    <3>3. QED BY <3>1, <3>2 DEF Open
  <2>4. \A c \in Counter : KernelReg'[c] = base[k][c] + Held(Top'.code, Top'.at, c)
    BY <1>0, <1>1, <1>3, <1>4 DEF Interrupted
  <2>5. QED BY <1>1, <2>2, <2>3, <2>4 DEF Current
<1>7. Flag(base)'
  <2>1. ~On(k + 1) BY <1>0, <1>4 DEF On, Top
  <2>2. \A i \in 1 .. k : On(i)' <=> On(i) BY <1>1 DEF On
  <2>3. \A i \in 1 .. k : Whole(i)' <=> Whole(i) BY <1>0 DEF Whole
  <2>4. \A i \in 1 .. k + 1 : i \in 1 .. k \/ i = k + 1 BY <1>0
  <2>5. \A i \in 1 .. k : i \in 1 .. k + 1 BY <1>0
  <2>6. kernelMode => \E i \in 1 .. k : On(i)' /\ base[i]["mode"] = 0
    BY <1>0, <1>3, <2>1, <2>2, <2>4 DEF Flag
  <2>7. \A i \in 1 .. k : On(i)' /\ Whole(i)' => kernelMode
    BY <1>0, <1>3, <2>2, <2>3, <2>5 DEF Flag
  <2>8. QED BY <1>0, <1>1, <2>6, <2>7 DEF Flag
<1>8. \A i \in 1 .. Len(contexts)' : Shape(i)' /\ Register(base, i)' /\ Found(base, i)' /\ Torn(i)'
  <2>1. \A i \in 1 .. k : i \in 1 .. Len(contexts) /\ i <= k + 1 BY <1>0
  <2>2. QED BY <1>1, <1>5, <2>1
<1>9. \A i \in 1 .. Len(contexts)' - 1 : Interrupted(base, i)'
  <2>1. \A i \in 1 .. k - 1 : i \in 1 .. k /\ i < Len(contexts) BY <1>0
  <2>2. QED BY <1>1, <1>5, <2>1
<1>10. CritTypes'
  <2>0. torn \subseteq 1 .. k + 1 BY <1>0 DEF CritTypes
  <2>1. torn' \subseteq 1 .. k
    <3>1. \A x \in 1 .. k + 1 : x # k + 1 => x \in 1 .. k BY ONLY k \in Nat
    <3>2. QED BY <1>0, <2>0, <3>1
  <2>2. QED BY <1>0, <1>1, <2>1 DEF CritTypes
<1>11. QED BY <1>6, <1>7, <1>8, <1>9, <1>10 DEF CritInv

(* The task outside of the kernel.                                           *)
LEMMA TaskOutside ==
  ASSUME NEW base, CritInv(base), Len(contexts) = 1, Ended(Task)
  PROVE  /\ \A c \in Counter : KernelReg[c] = 0
         /\ enabled /\ ~kernelMode
<1>0. CritTypes /\ Found(base, 1) /\ Current(base) /\ Flag(base) BY DEF CritInv
<1>1. Top = Task BY DEF Top, Task
<1>2. (\A c \in Counter : base[1][c] = 0) /\ base[1]["open"] = 1 BY <1>0 DEF Found
<1>3. /\ ~Inside(Task.code, Task.at) /\ ~ModeOn(Task.code, Task.at)
      /\ \A c \in Counter : KernelReg[c] = base[1][c]
  BY <1>1, TopEnded
<1>4. enabled
  <2>1. ~(base[1]["crit"] > 0) BY <1>2 DEF Counter
  <2>2. Open(base, 1) BY <1>2, <1>3, <2>1 DEF Open, Task
  <2>3. QED BY <1>0, <2>2 DEF Current
<1>5. ~kernelMode
  <2>1. \A i \in 1 .. Len(contexts) : i = 1 OBVIOUS
  <2>2. ~On(1) BY <1>3 DEF On, Task
  <2>3. QED BY <1>0, <2>1, <2>2 DEF Flag
<1>6. QED BY <1>2, <1>3, <1>4, <1>5

LEMMA Replaced ==
  ASSUME CritTypes, NEW x \in Context, contexts' = [contexts EXCEPT ![Len(contexts)] = x]
  PROVE  /\ contexts' \in Seq(Context) /\ Len(contexts') = Len(contexts)
         /\ \A i \in 1 .. Len(contexts) - 1 : contexts'[i] = contexts[i]
         /\ contexts'[Len(contexts)] = x /\ Top' = x
<1>1. contexts \in Seq(Context) /\ Len(contexts) \in Nat \ {0} BY DepthIs DEF CritTypes
<1>2. /\ contexts' \in Seq(Context) /\ Len(contexts') = Len(contexts)
      /\ \A i \in 1 .. Len(contexts) - 1 : contexts'[i] = contexts[i]
      /\ contexts'[Len(contexts)] = x
  BY ONLY <1>1, x \in Context, contexts' = [contexts EXCEPT ![Len(contexts)] = x]
<1>3. QED BY <1>2 DEF Top

(* A context that goes on to another call finds what its last one found.     *)
LEMMA CallsKeeps ==
  ASSUME NEW base, CritInv(base), masks' = masks, Calls
  PROVE  \E b : CritInv(b)'
<1> PICK k \in Nat : k = Len(contexts) BY DepthIs DEF CritInv
<1>0. /\ CritTypes /\ k \in Nat \ {0} /\ Top = contexts[k] /\ k \in 1 .. k
      /\ Ended(Top) /\ torn' = torn \ {k} /\ torn \subseteq 1 .. k
      /\ UNCHANGED <<KernelReg, enabled, kernelMode>>
  BY DepthIs DEF CritInv, CritTypes, Top, Calls
<1>1. PICK code \in CallsOf(Top.who) : contexts' = [contexts EXCEPT ![k] = Ctx(Top.who, code)]
  BY DEF Calls
<1> DEFINE x == Ctx(Top.who, code)
<1>2. /\ x \in Context /\ x.who = Top.who /\ x.code = code /\ x.at = 1 /\ x.reg = -1
      /\ code \in CodeName
  <2>1. Top \in Context BY <1>0, TopIs
  <2>2. code \in CodeName BY DEF CallsOf, CodeName
  <2>3. QED BY <2>1, <2>2 DEF Ctx, Context
<1> HIDE DEF x
<1>3. /\ contexts' \in Seq(Context) /\ Len(contexts') = k
      /\ \A i \in 1 .. k - 1 : contexts'[i] = contexts[i]
      /\ contexts'[k] = x /\ Top' = x
  BY <1>0, <1>1, <1>2, Replaced DEF x
<1>4. Shape(k) /\ Found(base, k) /\ Current(base) /\ Flag(base) BY <1>0 DEF CritInv
<1>5. /\ \A c \in Counter : KernelReg[c] = base[k][c]
      /\ ~Inside(Top.code, Top.at) /\ ~ModeOn(Top.code, Top.at)
  BY <1>0, TopEnded
<1>6. /\ base[k] \in [Counter \cup {"open"} -> Nat] /\ enabled \in BOOLEAN /\ masks \in BOOLEAN
      /\ enabled <=> Open(base, k)
      /\ base[k]["crit"] \in Nat
  BY <1>0, <1>4 DEF Found, Current, CritTypes, Counter
<1> DEFINE found == [c \in Counter \cup {"open"} |->
                       IF c = "open" THEN (IF enabled THEN 1 ELSE 0) ELSE base[k][c]]
<1>7. PICK b : b = [i \in 1 .. k |-> IF i < k THEN base[i] ELSE found] OBVIOUS
<1>8. /\ b[k] = found /\ \A i \in 1 .. k - 1 : b[i] = base[i]
      /\ \A c \in Counter : found[c] = base[k][c]
      /\ found["open"] = IF enabled THEN 1 ELSE 0
      /\ found \in [Counter \cup {"open"} -> Nat]
  BY <1>0, <1>6, <1>7 DEF Counter
<1> HIDE DEF found
<1>9. /\ \A i \in 1 .. k - 1 : Shape(i)' /\ Register(base, i)' /\ Torn(i)'
      /\ \A i \in 1 .. k - 1 : Interrupted(base, i)'
      /\ \A i \in 1 .. k : Found(base, i)'
  <2>1. k - 1 \in 0 .. Len(contexts) /\ Len(contexts') \in Nat BY <1>0, <1>3
  <2> PICK m \in 0 .. Len(contexts) : m = k - 1 BY <2>1
  <2>2. \A i \in 1 .. m : i \in torn' <=> i \in torn BY <1>0
  <2>3. Same(base, base, m) BY <1>3 DEF Same
  <2>4. /\ \A i \in 1 .. m : Shape(i)' /\ Register(base, i)' /\ Torn(i)'
        /\ \A i \in 1 .. m : i < Len(contexts) => Interrupted(base, i)'
        /\ \A i \in 1 .. Len(contexts) : i <= m + 1 => Found(base, i)'
    BY <2>1, <2>2, <2>3, BelowKept
  <2>5. (\A i \in 1 .. m : i < Len(contexts)) /\ (\A i \in 1 .. k : i <= m + 1) BY <1>0
  <2>6. QED BY <2>4, <2>5
<1>10. \A i \in 1 .. k, c \in Counter : b[i][c] = base[i][c]
  <2>1. \A i \in 1 .. k : i \in 1 .. k - 1 \/ i = k BY <1>0
  <2>2. QED BY <1>8, <2>1
<1>11. \A i \in 1 .. k - 1 : Shape(i)' /\ Register(b, i)' /\ Torn(i)' /\ Found(b, i)' /\ Interrupted(b, i)'
  <2> TAKE i \in 1 .. k - 1
  <2>1. i \in 1 .. k /\ i + 1 \in 1 .. k /\ b[i] = base[i] BY <1>0, <1>8
  <2>2. Register(b, i)' BY <1>9, <2>1 DEF Register
  <2>3. Found(b, i)' BY <1>9, <2>1 DEF Found
  <2>4. Open(b, i)' <=> Open(base, i)' BY <2>1 DEF Open
  <2>5. \A c \in Counter : b[i + 1][c] = base[i + 1][c] BY <1>10, <2>1
  <2>6. Interrupted(b, i)' BY <1>9, <2>1, <2>4, <2>5 DEF Interrupted
  <2>7. QED BY <1>9, <2>2, <2>3, <2>6
<1>12. k \notin torn' /\ torn' \subseteq 1 .. k BY <1>0
<1>13. Shape(k)' /\ Register(b, k)' /\ Torn(k)'
  <2>1. Size(code) \in Nat BY <1>2, SizeIs
  <2>2. x.at \in 1 .. Size(x.code) + 1 BY <1>2, <2>1
  <2>3. x.code \in CallsOf(x.who) BY <1>1, <1>2
  <2>4. Shape(k)' BY <1>0, <1>2, <1>3, <1>4, <2>2, <2>3 DEF Shape
  <2>5. Register(b, k)' BY <1>2, <1>3 DEF Register
  <2>6. QED BY <1>12, <2>4, <2>5 DEF Torn
<1>14. Found(b, k)'
  <2>1. Found(base, k)' BY <1>0, <1>9
  <2>2. k = 1 \/ ~masks => enabled
    <3>1. k = 1 \/ ~masks => base[k]["open"] = 1 BY <1>4 DEF Found
    <3>2. k = 1 => ~(base[k]["crit"] > 0) BY <1>4 DEF Found, Counter
    <3>3. QED BY <1>0, <1>5, <1>6, <3>1, <3>2 DEF Open
  <2>3. k = 1 \/ ~masks => b[k]["open"] = 1 BY <1>8, <2>2
  <2>4. b[k] \in [Counter \cup {"open"} -> Nat] BY <1>8
  <2>5. b[k]["crit"] = base[k]["crit"] /\ b[k]["mode"] = base[k]["mode"]
    BY <1>0, <1>10 DEF Counter
  <2>6. k = 1 => \A c \in Counter : b[k][c] = 0 BY <1>0, <1>10, <2>1 DEF Found
  <2>7. QED BY <2>1, <2>3, <2>4, <2>5, <2>6 DEF Found
<1>15. Current(b)'
  <2>1. ~Inside(x.code, 1) /\ ~Past(x.code, 1) BY <1>2, NothingHeld DEF Counter
  <2>2. b[k]["open"] = 1 <=> enabled BY <1>6, <1>8
  <2>3. b[k]["crit"] = base[k]["crit"] BY <1>0, <1>10 DEF Counter
  <2>4. Open(b, k)' <=> IF base[k]["crit"] > 0 THEN ~masks ELSE enabled
    BY <1>2, <1>3, <2>1, <2>2, <2>3 DEF Open
  <2>5. base[k]["crit"] > 0 => (enabled <=> ~masks) BY <1>6 DEF Open
  <2>6. enabled' \in BOOLEAN /\ (enabled' <=> Open(b, k)') BY <1>0, <1>6, <2>4, <2>5
  <2>7. \A c \in Counter : KernelReg'[c] = b[k][c] + Held(Top'.code, Top'.at, c)
    <3>1. \A c \in Counter : Held(x.code, 1, c) = 0 BY <1>2, NothingHeld
    <3>2. \A c \in Counter : base[k][c] \in Nat BY <1>6
    <3>3. QED BY <1>0, <1>2, <1>3, <1>5, <1>10, <3>1, <3>2
  <2>8. QED BY <1>3, <2>6, <2>7 DEF Current
<1>16. Flag(b)'
  <2>1. ~On(k)'
    <3>1. ~ModeOn(x.code, 1) BY <1>2, NothingHeld DEF Counter
    <3>2. QED BY <1>2, <1>3, <3>1 DEF On
  <2>2. ~On(k) BY <1>0, <1>5 DEF On
  <2>3. \A i \in 1 .. k - 1 : On(i)' <=> On(i) BY <1>3 DEF On
  <2>4. \A i \in 1 .. k - 1 : Whole(i)' <=> Whole(i) BY <1>0 DEF Whole
  <2>5. \A i \in 1 .. k : i \in 1 .. k - 1 \/ i = k BY <1>0
  <2>6. \A i \in 1 .. k - 1 : i \in 1 .. k BY <1>0
  <2>7. kernelMode => \E i \in 1 .. k : On(i)' /\ b[i]["mode"] = 0
    BY <1>0, <1>4, <1>8, <2>2, <2>3, <2>5, <2>6 DEF Flag
  <2>8. \A i \in 1 .. k : On(i)' /\ Whole(i)' => kernelMode
    BY <1>0, <1>4, <2>1, <2>3, <2>4, <2>5, <2>6 DEF Flag
  <2>9. QED BY <1>0, <1>3, <2>7, <2>8 DEF Flag
<1>17. CritInv(b)'
  <2>1. \A i \in 1 .. k : i \in 1 .. k - 1 \/ i = k BY <1>0
  <2>2. \A i \in 1 .. Len(contexts)' : Shape(i)' /\ Register(b, i)' /\ Found(b, i)' /\ Torn(i)'
    BY <1>3, <1>11, <1>13, <1>14, <2>1
  <2>3. \A i \in 1 .. Len(contexts)' - 1 : Interrupted(b, i)' BY <1>3, <1>11
  <2>4. CritTypes' BY <1>0, <1>3, <1>12 DEF CritTypes
  <2>5. QED BY <1>15, <1>16, <2>2, <2>3, <2>4 DEF CritInv
<1>18. QED BY <1>17

LEMMA CritInitIs == CritInit => \E base : CritInv(base)
<1> SUFFICES ASSUME CritInit PROVE \E base : CritInv(base) OBVIOUS
<1> DEFINE zero == [c \in Counter \cup {"open"} |-> IF c = "open" THEN 1 ELSE 0]
<1> PICK base : base = <<zero>> OBVIOUS
<1> DEFINE x == Ctx("task", "rest")
<1>0. x \in Context /\ x.who = "task" /\ x.code = "rest" /\ x.at = 1 /\ x.reg = -1
  BY DEF Ctx, Context, CodeName
<1>1. contexts = <<x>> /\ enabled = TRUE /\ kernelMode = FALSE /\ masks \in BOOLEAN /\ torn = {}
  BY DEF CritInit
<1>2. KernelReg \in [Counter -> Int] /\ \A c \in Counter : KernelReg[c] = 0
  BY DEF CritInit, Counter
<1>3. /\ zero \in [Counter \cup {"open"} -> Nat] /\ zero["open"] = 1
      /\ \A c \in Counter : zero[c] = 0
  BY DEF Counter
<1> HIDE DEF x, zero
<1>4. contexts \in Seq(Context) /\ Len(contexts) = 1 /\ contexts[1] = x BY ONLY <1>0, <1>1
<1>5. base[1] = zero OBVIOUS
<1>6. Top = x BY <1>4 DEF Top
<1>7. /\ ~Inside("rest", 1) /\ Size("rest") = 0 /\ ~ModeOn("rest", 1)
      /\ \A c \in Counter : Held("rest", 1, c) = 0
  BY NothingHeld DEF Counter, CodeName, Size
<1>8. Shape(1) BY <1>0, <1>4, <1>7 DEF Shape
<1>9. Register(base, 1) BY <1>0, <1>4 DEF Register
<1>10. ~(base[1]["crit"] > 0) /\ ~(base[1]["mode"] > 0) BY <1>3, <1>5 DEF Counter
<1>11. Found(base, 1) BY <1>3, <1>5, <1>10 DEF Found
<1>12. Current(base)
  <2>1. Open(base, 1) BY <1>0, <1>3, <1>4, <1>5, <1>7, <1>10 DEF Open
  <2>2. \A c \in Counter : KernelReg[c] = base[1][c] + Held(Top.code, Top.at, c)
    BY <1>0, <1>2, <1>3, <1>5, <1>6, <1>7
  <2>3. QED BY <1>1, <1>4, <2>1, <2>2 DEF Current
<1>13. \A i \in 1 .. Len(contexts) : i = 1 BY <1>4
<1>14. Flag(base)
  <2>1. ~On(1) BY <1>0, <1>4, <1>7 DEF On
  <2>2. QED BY <1>1, <1>13, <2>1 DEF Flag
<1>15. CritTypes
  <2>1. Len(contexts) > 0 BY <1>4
  <2>2. kernelMode \in BOOLEAN /\ torn \subseteq 1 .. Len(contexts) BY <1>1
  <2>3. QED BY <1>1, <1>2, <1>4, <2>1, <2>2 DEF CritTypes
<1>16. \A i \in 1 .. Len(contexts) - 1 : FALSE BY <1>4
<1>17. Torn(1) BY <1>1 DEF Torn
<1>18. CritInv(base)
  BY <1>8, <1>9, <1>11, <1>12, <1>13, <1>14, <1>15, <1>16, <1>17 DEF CritInv
<1>19. QED BY <1>18

(* What the invariant says of the sections.                                  *)
LEMMA InvNests ==
  ASSUME NEW base, CritInv(base)
  PROVE  SectionsNest
<1>0. CritTypes /\ Len(contexts) \in Nat \ {0} /\ Flag(base) /\ Current(base)
  BY DepthIs DEF CritInv
<1>1. SectionAlone
  <2> SUFFICES ASSUME NEW i \in 1 .. Len(contexts) - 1, At(i, "section")
               PROVE  /\ ~masks /\ contexts[i].who # "tick"
                      /\ \E j \in 1 .. i - 1 : IsAt(contexts[j], <<"disable", "crit">>)
    BY DEF SectionAlone
  <2>0. i \in 1 .. Len(contexts) BY <1>0
  <2>1. contexts[i] \in Context /\ contexts[i].code \in CodeName /\ contexts[i].at \in Nat
    BY <1>0, <2>0, ContextFields
  <2>2. /\ contexts[i].at <= Size(contexts[i].code)
        /\ Does(contexts[i].code, contexts[i].at, "work", "section")
    BY <2>1, OperationIs DEF At
  <2>3. Shape(i) /\ Found(base, i) /\ Interrupted(base, i) BY <2>0 DEF CritInv
  <2>4. contexts[i].at \in 1 .. Size(contexts[i].code)
    BY <2>1, <2>2, <2>3, SizeIs DEF Shape
  <2>5. Inside(contexts[i].code, contexts[i].at) BY <2>1, <2>2, <2>4, WhereDone
  <2>6. base[i]["crit"] > 0 /\ ~masks BY <2>3, <2>5 DEF Interrupted, Open
  <2>7. QED BY <2>3, <2>6 DEF Interrupted, Found
<1>2. RegBalanced
  <2> SUFFICES ASSUME Len(contexts) = 1, Ended(Task)
               PROVE  /\ \A c \in DOMAIN KernelReg : KernelReg[c] = 0
                      /\ enabled /\ ~kernelMode
    BY DEF RegBalanced
  <2>1. DOMAIN KernelReg = Counter BY <1>0 DEF CritTypes
  <2>2. QED BY <2>1, TaskOutside
<1>3. ModeHeld
  <2>1. ASSUME At(Len(contexts), "mode") PROVE kernelMode \/ torn # {}
    <3>1. Top \in Context /\ Top.code \in CodeName /\ Top.at \in Nat BY <1>0, TopIs
    <3>2. Top.at <= Size(Top.code) /\ Does(Top.code, Top.at, "work", "mode")
      BY <2>1, <3>1, OperationIs DEF At, Top
    <3>3. Shape(Len(contexts)) BY <1>0 DEF CritInv
    <3>4. Top.at \in 1 .. Size(Top.code) BY <3>1, <3>2, <3>3, SizeIs DEF Shape, Top
    <3>5. ModeOn(Top.code, Top.at) BY <3>1, <3>2, <3>4, WhereDone DEF ModeOn
    <3>6. On(Len(contexts)) BY <3>5 DEF On, Top
    <3>7. torn = {} => Whole(Len(contexts)) BY DEF Whole
    <3>8. Len(contexts) \in 1 .. Len(contexts) BY <1>0
    <3>9. QED BY <1>0, <3>6, <3>7, <3>8 DEF Flag
  <2>2. ASSUME NEW i \in torn
        PROVE  \/ contexts[i].code = "free"
               \/ /\ ~masks /\ contexts[i].code = "alloc"
                  /\ \E j \in 1 .. i - 1 : IsAt(contexts[j], <<"disable", "crit">>)
    <3>1. i \in 1 .. Len(contexts) BY <1>0 DEF CritTypes
    <3>2. Torn(i) BY <3>1 DEF CritInv
    <3>3. QED BY <3>2 DEF Torn
  <2>3. QED BY <2>1, <2>2 DEF ModeHeld
<1>4. QED BY <1>1, <1>2, <1>3 DEF SectionsNest

LEMMA CritUnchanged ==
  ASSUME NEW base, CritInv(base), UNCHANGED critVars
  PROVE  CritInv(base)'
BY DEF CritInv, critVars, CritTypes, Shape, Register, Found, Torn, Interrupted, Current, Flag,
       On, Whole, Open, Top

(* Critical sections and kernel mode nest, on every port, at every depth of  *)
(* interrupts and wherever they come (CritSect, SectionsNest).               *)
THEOREM SectionsAlwaysNest == CritInit /\ [][CritNext]_critVars => []SectionsNest
<1> DEFINE Inv == \E base : CritInv(base)
<1>1. CritInit => Inv BY CritInitIs
<1>2. Inv /\ [CritNext]_critVars => Inv'
  <2> SUFFICES ASSUME Inv, [CritNext]_critVars PROVE Inv' OBVIOUS
  <2>0. PICK base : CritInv(base) OBVIOUS
  <2>1. SUFFICES \E b : CritInv(b)' OBVIOUS
  <2>2. CASE Calls /\ masks' = masks BY <2>0, <2>2, CallsKeeps
  <2>3. CASE (\E w \in DOMAIN Level : Interrupt(w)) /\ masks' = masks
    BY <2>0, <2>3, InterruptKeeps
  <2>4. CASE Return /\ masks' = masks BY <2>0, <2>4, ReturnKeeps
  <2>5. CASE Step /\ masks' = masks BY <2>0, <2>5, StepKeeps
  <2>6. CASE UNCHANGED critVars BY <2>0, <2>6, CritUnchanged
  <2>7. QED BY <2>2, <2>3, <2>4, <2>5, <2>6 DEF CritNext
<1>3. Inv => SectionsNest BY InvNests
<1>4. QED BY <1>1, <1>2, <1>3, PTL
================================================================================
