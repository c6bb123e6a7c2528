----------------------------- MODULE KernelProofs -----------------------------
(* Proofs about PriorKernel for every set of tasks, events and timeouts: the *)
(* type invariant and the shape of EventList; that every task is in one      *)
(* list, in the right one (OnePlace, ParkedByPolls, BrokerInBounds,          *)
(* DispatchFromQueue); that EventList holds few events of one hash           *)
(* (CopiesBounded); that no event expires before the tasks that poll it have *)
(* seen it (NoUnseenExpiry); and that the ExecutionQueue is in priority      *)
(* order when priorities are not changed (QueueSorted).                      *)
EXTENDS PriorKernel, TLAPS

(* Lists as sequences.                                                      *)
LEMMA InsertAtProperties ==
  ASSUME NEW S, NEW s \in Seq(S), NEW i \in 1 .. Len(s) + 1, NEW x \in S
  PROVE  /\ InsertAt(s, i, x) \in Seq(S)
         /\ Len(InsertAt(s, i, x)) = Len(s) + 1
         /\ \A j \in 1 .. Len(s) + 1 :
              InsertAt(s, i, x)[j] =
                IF j < i THEN s[j] ELSE IF j = i THEN x ELSE s[j - 1]
<1>1. InsertAt(s, i, x) \in [1 .. Len(s) + 1 -> S]
  BY DEF InsertAt
<1>2. QED BY <1>1 DEF InsertAt

LEMMA RemoveAtProperties ==
  ASSUME NEW S, NEW s \in Seq(S), NEW i \in 1 .. Len(s)
  PROVE  /\ RemoveAt(s, i) \in Seq(S)
         /\ Len(RemoveAt(s, i)) = Len(s) - 1
         /\ \A j \in 1 .. Len(s) - 1 :
              RemoveAt(s, i)[j] = IF j < i THEN s[j] ELSE s[j + 1]
<1>1. RemoveAt(s, i) \in [1 .. Len(s) - 1 -> S]
  BY DEF RemoveAt
<1>2. QED BY <1>1 DEF RemoveAt

LEMMA TailProperties ==
  ASSUME NEW S, NEW s \in Seq(S), s # << >>
  PROVE  /\ Tail(s) \in Seq(S)
         /\ Head(s) \in S
         /\ Head(s) = s[1]
         /\ Len(s) \in Nat \ {0}
         /\ Len(Tail(s)) = Len(s) - 1
         /\ \A j \in 1 .. Len(s) - 1 : Tail(s)[j] = s[j + 1]
OBVIOUS

(* Polling lists.                                                           *)
PollList == [Key -> Polled \cup {None}]

LEMMA PolledFields ==
  ASSUME NEW r \in Polled
  PROVE  /\ r.life \in LifeTime /\ r.cnt \in 0 .. MaxLag
         /\ r.occ \in BOOLEAN /\ r.tout \in BOOLEAN /\ r.perm \in BOOLEAN
         /\ \A o, t \in BOOLEAN, c \in 0 .. MaxLag :
              /\ [r EXCEPT !.cnt = c] \in Polled
              /\ [r EXCEPT !.tout = t] \in Polled
              /\ [r EXCEPT !.occ = o, !.tout = t, !.cnt = c] \in Polled
BY DEF Polled

LEMMA EventRegisterType ==
  ASSUME NEW L \in PollList, NEW k \in Key, NEW perm \in BOOLEAN,
         NEW us \in LifeTime
  PROVE  EventRegister(L, k, perm, us) \in PollList
<1>1. 0 \in 0 .. MaxLag BY TimeAssumption
<1>2. [life |-> us, cnt |-> 0, occ |-> FALSE, tout |-> FALSE, perm |-> perm] \in Polled
  BY <1>1 DEF Polled
<1>3. \A e \in Find(L, k) : L[e] \in Polled
  BY DEF Find, PollList
<1>4. \A e \in Find(L, k) : [L[e] EXCEPT !.cnt = 0] \in Polled
  BY <1>1, <1>3, PolledFields
<1>5. QED BY <1>2, <1>4 DEF EventRegister, PollList

LEMMA ITaskEventHandleType ==
  ASSUME NEW L \in PollList, NEW k \in Key
  PROVE  ITaskEventHandle(L, k) \in PollList
<1>1. 0 \in 0 .. MaxLag BY TimeAssumption
<1>2. \A e \in Find(L, k) : L[e] \in Polled
  BY DEF Find, PollList
<1>3. \A e \in Find(L, k) :
        [L[e] EXCEPT !.occ = FALSE, !.tout = FALSE, !.cnt = 0] \in Polled
  BY <1>1, <1>2, PolledFields
<1>4. QED BY <1>3 DEF ITaskEventHandle, PollList

LEMMA PolledIncrementType ==
  ASSUME NEW r \in Polled, delta \in 0 .. MaxLag, NEW last, LifeTimeRuns(r, last)
  PROVE  PolledLifeTimeIncrement(r) \in Polled
<1>1. r.life \in 1 .. MaxLag /\ r.cnt \in 0 .. MaxLag
  BY PolledFields, TimeAssumption DEF LifeTimeRuns, LifeTime
<1>2. r.cnt + delta < r.life => r.cnt + delta \in 0 .. MaxLag
  BY <1>1, TimeAssumption
<1>3. QED BY <1>2, PolledFields DEF PolledLifeTimeIncrement

LEMMA CompareType ==
  ASSUME NEW L \in PollList, NEW e, NEW last, delta \in 0 .. MaxLag
  PROVE  ISchedulerTaskEventsCompare(L, e, last) \in PollList
<1>1. 0 \in 0 .. MaxLag BY TimeAssumption
<1>2. \A k \in Key : L[k] # None => L[k] \in Polled
  BY DEF PollList
<1>3. \A k \in Key : L[k] # None =>
        [L[k] EXCEPT !.occ = TRUE, !.tout = FALSE, !.cnt = 0] \in Polled
  BY <1>1, <1>2, PolledFields
<1>4. \A k \in Key : L[k] # None /\ LifeTimeRuns(L[k], last) =>
        PolledLifeTimeIncrement(L[k]) \in Polled
  BY <1>2, PolledIncrementType
<1>5. QED BY <1>2, <1>3, <1>4 DEF ISchedulerTaskEventsCompare, PollList

LEMMA PriorityType ==
  ASSUME NEW t \in Task, NEW m \in 1 .. 5
  PROVE  KTaskCalculatePriority(Category[t], m) \in 0 .. 24
BY TaskAssumption DEF KTaskCalculatePriority

LEMMA AddTimeType ==
  ASSUME NEW a \in Nat, NEW b \in Nat
  PROVE  AddTime(a, b) \in 0 .. MaxLag
BY TimeAssumption DEF AddTime

(* An element of a sequence.                                                *)
LEMMA ElementType ==
  ASSUME NEW S, NEW s \in Seq(S)
  PROVE  Len(s) \in Nat /\ \A i \in 1 .. Len(s) : s[i] \in S
OBVIOUS

(* The lists of the kernel after an emission and after an activation.       *)
LEMMA EventEmitType ==
  ASSUME TypeOK, MockStays, NEW k \in Event \cup Task, AddEvent(k) \/ ResetEvent(k)
  PROVE  /\ evs' \in Seq(Key)
         /\ evCnt' \in Seq(0 .. MaxLag) /\ Len(evCnt') = Len(evs')
         /\ MockStays'
<1>0. /\ 0 \in 0 .. MaxLag /\ k \in Key \ {Mock}
      /\ evs \in Seq(Key) /\ evCnt \in Seq(0 .. MaxLag) /\ Len(evCnt) = Len(evs)
  BY TimeAssumption, KeyAssumption DEF TypeOK, Key
<1>1. CASE ResetEvent(k)
  <2>1. evs' = evs BY <1>1 DEF ResetEvent
  <2>2. evCnt' = [i \in 1 .. Len(evs) |-> IF EventFound(k, i) THEN 0 ELSE evCnt[i]]
    BY <1>1 DEF ResetEvent
  <2>7. Len(evs) \in Nat /\ \A i \in 1 .. Len(evs) : evCnt[i] \in 0 .. MaxLag
    BY <1>0, ElementType
  <2>3. evCnt' \in [1 .. Len(evs) -> 0 .. MaxLag] /\ Len(evs) \in Nat
    BY ONLY <1>0, <2>2, <2>7
  <2>4. evCnt' \in Seq(0 .. MaxLag) /\ Len(evCnt') = Len(evs)
    BY ONLY <2>2, <2>3
  <2>5. MockStays' BY <2>1 DEF MockStays
  <2>6. QED BY <1>0, <2>1, <2>4, <2>5
<1>2. CASE AddEvent(k)
  <2>1. evs' = Append(evs, k) /\ evCnt' = Append(evCnt, 0)
    BY <1>2 DEF AddEvent
  <2>2. /\ evs' \in Seq(Key) /\ evCnt' \in Seq(0 .. MaxLag) /\ Len(evCnt') = Len(evs')
    BY <1>0, <2>1
  <2>3. MockStays' BY <1>0, <2>1 DEF MockStays
  <2>4. QED BY <2>2, <2>3
<1>3. QED BY <1>1, <1>2

LEMMA CallFields ==
  ASSUME NEW c \in Call
  PROVE  /\ c.op = "delete" => c.obj \in Deletable /\ c.arg = 0
         /\ c.op = "priority" => c.obj \in Task /\ c.arg \in NewMinor
         /\ c.op \in Emitting => c.obj \in Event \cup Task /\ c.arg \in {0, 1}
BY DEF Call, Emitting

LEMMA EmissionType ==
  ASSUME NEW k \in Event \cup Task, NEW isr \in {0, 1}
  PROVE  Emission(k, isr) \in Call
BY DEF Emission, Call, Emitting

LEMMA ActivationType ==
  ASSUME TypeOK, NEW t \in Task, ISchedulerTaskAddDescendingPriority(t)
  PROVE  /\ tcbList' \subseteq Task
         /\ waitList' \subseteq Task
         /\ queue' \in Seq(Task)
         /\ state' \in [Task -> States]
<1>1. PICK i \in 1 .. Len(queue) + 1 : queue' = InsertAt(queue, i, t)
  BY DEF ISchedulerTaskAddDescendingPriority
<1>2. queue' \in Seq(Task)
  BY <1>1, InsertAtProperties DEF TypeOK
<1>3. QED
  BY <1>2 DEF ISchedulerTaskAddDescendingPriority, ListNodeRemove, TypeOK, States

(* The broker's place in EventList, the first part of BrokerInBounds.       *)
IdxInBounds == phase # "thread" => idx \in 1 .. Len(evs)

KernelTypes == TypeOK /\ MockStays /\ IdxInBounds

LEMMA KernelTypesInit == Init => KernelTypes
<1>1. ASSUME Init PROVE TypeOK
  <2>1. 0 \in 0 .. MaxLag /\ 0 \in 0 .. MaxLock /\ Idle \in Task
    BY TimeAssumption, TaskAssumption
  <2>2. prio \in [Task -> 0 .. 24]
    BY <1>1, PriorityType, TaskAssumption DEF Init
  <2>3. evs \in Seq(Key) BY <1>1 DEF Init, Key
  <2>4. dispatch \in BOOLEAN /\ idleFlag \in BOOLEAN /\ idleLoop \in BOOLEAN
    BY <1>1 DEF Init
  <2>5. state \in [Task -> States] /\ queue \in Seq(Task)
    BY <1>1 DEF Init, States
  <2>6. listen \in [Task -> [Key -> Polled \cup {None}]]
    BY <1>1 DEF Init, NoPolls
  <2>7. evCnt \in Seq(0 .. MaxLag) /\ Len(evCnt) = Len(evs)
    BY <1>1, <2>1 DEF Init
  <2>8. QED
    BY <1>1, <2>1, <2>2, <2>3, <2>4, <2>5, <2>6, <2>7, TaskAssumption
    DEF Init, TypeOK
<1>2. ASSUME Init PROVE MockStays /\ IdxInBounds
  BY <1>2 DEF Init, MockStays, IdxInBounds
<1>3. QED BY <1>1, <1>2 DEF KernelTypes

LEMMA SetPollsTypes ==
  ASSUME KernelTypes, InTask, NEW L \in PollList, SetPolls(L)
  PROVE  KernelTypes'
<1>1. listen' \in [Task -> PollList]
  BY DEF SetPolls, KernelTypes, TypeOK, PollList
<1>2. TypeOK'
  BY <1>1 DEF SetPolls, KernelTypes, TypeOK, PollList, taskVars, evVars, tickVars
<1>3. QED
  BY <1>2 DEF SetPolls, KernelTypes, MockStays, IdxInBounds, evVars, tickVars

LEMMA ConvertType ==
  ASSUME NEW ms \in Timeout \cup {Inf}, NEW us \in ConvertMsToUs(ms)
  PROVE  us \in LifeTime
BY DEF ConvertMsToUs, LifeTime

LEMMA TaskCallTypes == KernelTypes /\ TaskCall => KernelTypes'
<1> SUFFICES ASSUME KernelTypes, TaskCall PROVE KernelTypes'
  OBVIOUS
<1> USE DEF KernelTypes
<1>0. /\ listen[running] \in PollList
      /\ Event \cup {Sleep} \subseteq Key
  BY DEF TypeOK, PollList, Key
<1>1. ASSUME NEW k \in Key, NEW ms \in Timeout \cup {Inf}, NEW add \in BOOLEAN,
             TaskPoll(k, ms, add)
      PROVE  KernelTypes'
  <2>1. PICK us \in ConvertMsToUs(ms) :
          LET handled == ITaskEventHandle(listen[running], k)
          IN SetPolls(IF add THEN EventRegister(handled, k, FALSE, us) ELSE handled)
    BY <1>1 DEF TaskPoll
  <2>2. ITaskEventHandle(listen[running], k) \in PollList
    BY <1>0, ITaskEventHandleType
  <2>3. EventRegister(ITaskEventHandle(listen[running], k), k, FALSE, us) \in PollList
    BY <2>2, ConvertType, EventRegisterType
  <2>4. QED BY <1>1, <2>1, <2>2, <2>3, SetPollsTypes DEF TaskPoll
<1>2. ASSUME NEW k \in Event, NEW ms \in Timeout \cup {Inf}, TaskPollAdd(k, ms)
      PROVE  KernelTypes'
  <2>1. PICK us \in ConvertMsToUs(ms) :
          SetPolls(EventRegister(listen[running], k, TRUE, us))
    BY <1>2 DEF TaskPollAdd
  <2>2. EventRegister(listen[running], k, TRUE, us) \in PollList
    BY <1>0, ConvertType, EventRegisterType
  <2>3. QED BY <1>2, <2>1, <2>2, SetPollsTypes DEF TaskPollAdd
<1>3. ASSUME NEW k \in Event \cup {Sleep}, TaskPollRemove(k)
      PROVE  KernelTypes'
  <2>1. [e \in Key |-> IF e \in Find(listen[running], k)
                       THEN None ELSE listen[running][e]] \in PollList
    BY <1>0 DEF PollList
  <2>2. QED BY <1>3, <2>1, SetPollsTypes DEF TaskPollRemove
<1>4. ASSUME NEW ms \in Timeout, TaskSleep(ms) PROVE KernelTypes'
  BY <1>0, <1>1, <1>4 DEF TaskSleep
<1>5. ASSUME NEW t \in Task, NEW start \in BOOLEAN, TaskCreate(t, start)
      PROVE  KernelTypes'
  <2>1. call' \in Call \cup {None} BY <1>5, EmissionType DEF TaskCreate
  <2>2. MockStays' BY <1>5 DEF TaskCreate, evVars, MockStays
  <2>3. prio' \in [Task -> 0 .. 24]
    BY <1>5, PriorityType, TaskAssumption DEF TaskCreate, TypeOK
  <2>4. TypeOK'
    BY <1>5, <2>1, <2>3 DEF TaskCreate, TypeOK, States, tickVars, evVars
  <2>5. QED BY <1>5, <2>2, <2>4 DEF TaskCreate, InTask, IdxInBounds, tickVars
<1>6. ASSUME NEW t \in Deletable, TaskDelete(t) PROVE KernelTypes'
  <2>0. call' \in Call BY <1>6 DEF TaskDelete, Lookup, Call
  <2>1. TypeOK'
    BY <1>6, <2>0 DEF TaskDelete, Lookup, TypeOK, taskVars, evVars, tickVars
  <2>2. QED
    BY <1>6, <2>1 DEF TaskDelete, Lookup, MockStays, IdxInBounds, evVars, tickVars
<1>7. ASSUME NEW t \in Known, NEW mi \in NewMinor, TaskPrioritySet(t, mi)
      PROVE  KernelTypes'
  <2>0. call' \in Call BY <1>7, TaskAssumption DEF TaskPrioritySet, Lookup, Call
  <2>1. TypeOK'
    BY <1>7, <2>0, TaskAssumption
    DEF TaskPrioritySet, Lookup, TypeOK, taskVars, evVars, tickVars
  <2>2. QED
    BY <1>7, <2>1
    DEF TaskPrioritySet, Lookup, MockStays, IdxInBounds, evVars, tickVars
<1>8. CASE Write
  <2>0. call \in Call BY <1>8 DEF Write, TypeOK
  <2>1. /\ del' \subseteq Task /\ prio' \in [Task -> 0 .. 24]
        /\ evs' \in Seq(Key)
        /\ evCnt' \in Seq(0 .. MaxLag) /\ Len(evCnt') = Len(evs')
        /\ MockStays'
    <3>1. CASE call.op = "delete" /\ del' = del \cup {call.obj} /\ UNCHANGED <<prio, evVars>>
      <4>1. call.obj \in Task BY <2>0, <3>1, CallFields, TaskAssumption
      <4>2. QED BY <3>1, <4>1 DEF TypeOK, evVars, MockStays
    <3>2. CASE /\ call.op = "priority"
               /\ prio' = [prio EXCEPT ![call.obj] =
                            KTaskCalculatePriority(Category[call.obj], call.arg)]
               /\ UNCHANGED <<del, evVars>>
      <4>1. call.obj \in Task /\ call.arg \in 1 .. 5
        BY <2>0, <3>2, CallFields, TaskAssumption
      <4>2. prio' \in [Task -> 0 .. 24] BY <3>2, <4>1, PriorityType DEF TypeOK
      <4>3. QED BY <3>2, <4>2 DEF TypeOK, evVars, MockStays
    <3>3. CASE /\ call.op \in {"add", "reset"}
               /\ AddEvent(call.obj) \/ ResetEvent(call.obj)
               /\ UNCHANGED <<prio, del>>
      <4>1. call.obj \in Event \cup Task BY <2>0, <3>3, CallFields DEF Emitting
      <4>2. QED BY <3>3, <4>1, EventEmitType DEF TypeOK
    <3>4. CASE UNCHANGED <<prio, del, evVars>>
      BY <3>4 DEF TypeOK, evVars, MockStays
    <3>5. QED BY <1>8, <3>1, <3>2, <3>3, <3>4 DEF Write
  <2>2. TypeOK'
    BY <1>8, <2>1 DEF Write, TypeOK, taskVars, tickVars
  <2>3. QED BY <1>8, <2>1, <2>2 DEF Write, IdxInBounds, tickVars
<1>9. ASSUME NEW n \in 0 .. MaxLock, SetSchedulerLock(n) PROVE KernelTypes'
  <2>1. TypeOK'
    BY <1>9 DEF SetSchedulerLock, TypeOK, taskVars, evVars, tickVars
  <2>2. QED
    BY <1>9, <2>1 DEF SetSchedulerLock, MockStays, IdxInBounds, evVars, tickVars
<1>10. CASE OsSchedulerLock
  <2>1. schedLock + 1 \in 0 .. MaxLock /\ SetSchedulerLock(schedLock + 1)
    BY <1>10, TimeAssumption DEF OsSchedulerLock, TypeOK
  <2>2. QED BY <1>9, <2>1
<1>11. CASE OsSchedulerUnlock
  BY <1>9, <1>11, TimeAssumption DEF OsSchedulerUnlock, TypeOK
<1>12. QED
  BY <1>0, <1>1, <1>2, <1>3, <1>4, <1>5, <1>6, <1>7, <1>8, <1>10, <1>11 DEF TaskCall

LEMMA ThreadTypes ==
  ASSUME KernelTypes,
         \/ AnyCall
         \/ \E tc \in 0 .. TickPeriod : ICoreTickInvoke(tc)
         \/ KernelTaskIdle
  PROVE  KernelTypes'
<1> USE DEF KernelTypes
<1>1. ASSUME NEW k \in Event \cup Task, Emit(k) PROVE KernelTypes'
  <2>1. CASE EmitAtOnce(k)
    <3>1. AddEvent(k) \/ ResetEvent(k) BY <2>1 DEF EmitAtOnce, EventEmit
    <3>2. /\ evs' \in Seq(Key) /\ evCnt' \in Seq(0 .. MaxLag)
          /\ Len(evCnt') = Len(evs') /\ MockStays'
      BY <3>1, EventEmitType
    <3>3. TypeOK' BY <2>1, <3>2 DEF EmitAtOnce, TypeOK, taskVars, tickVars
    <3>4. QED BY <2>1, <3>2, <3>3 DEF EmitAtOnce, IdxInBounds, tickVars
  <2>2. ASSUME NEW isr \in {0, 1}, EmitBegin(k, isr) PROVE KernelTypes'
    <3>1. call' \in Call BY <2>2, EmissionType DEF EmitBegin
    <3>2. TypeOK' BY <2>2, <3>1 DEF EmitBegin, TypeOK, taskVars, evVars, tickVars
    <3>3. QED
      BY <2>2, <3>2 DEF EmitBegin, MockStays, IdxInBounds, evVars, tickVars
  <2>3. QED BY <1>1, <2>1, <2>2 DEF Emit
<1>2. CASE AnyCall
  <2>1. \E k \in Event \cup Task : Emit(k)
    BY <1>2, TaskAssumption DEF AnyCall, TaskResume, TaskNotify
  <2>2. QED BY <1>1, <2>1
<1>3. ASSUME NEW tc \in 0 .. TickPeriod, ICoreTickInvoke(tc) PROVE KernelTypes'
  <2>1. lag' \in 0 .. MaxLag
    BY <1>3, AddTimeType, TimeAssumption DEF ICoreTickInvoke, TypeOK
  <2>2. dispatch' \in BOOLEAN /\ idleLoop' \in BOOLEAN
    BY <1>3 DEF ICoreTickInvoke
  <2>3. TypeOK'
    BY <1>3, <2>1, <2>2 DEF ICoreTickInvoke, TypeOK, taskVars, evVars, tickVars
  <2>4. QED
    BY <1>3, <2>3 DEF ICoreTickInvoke, MockStays, IdxInBounds, evVars, tickVars
<1>4. CASE KernelTaskIdle
  <2>1. idleFlag' \in BOOLEAN /\ idleLoop' \in BOOLEAN
    BY <1>4 DEF KernelTaskIdle
  <2>2. TypeOK'
    BY <1>4, <2>1 DEF KernelTaskIdle, TypeOK, taskVars, evVars, tickVars
  <2>3. QED
    BY <1>4, <2>2 DEF KernelTaskIdle, MockStays, IdxInBounds, evVars, tickVars
<1>5. QED BY <1>2, <1>3, <1>4

LEMMA SwitchTypes ==
  ASSUME TypeOK, ICoreSwitchTask
  PROVE  /\ tcbList' \subseteq Task /\ waitList' \subseteq Task
         /\ queue' \in Seq(Task) /\ running' \in Task
         /\ state' \in [Task -> States] /\ del' \subseteq Task
<1>1. queue' \in Seq(Task) /\ running' \in Task
  BY TailProperties, TaskAssumption
  DEF ICoreSwitchTask, KSchedulerQueueTaskPop, TypeOK
<1>2. StateAfterRun(running) \in States
  BY DEF StateAfterRun, States
<1>3. "RUNNING" \in States BY DEF States
<1>4. state' \in [Task -> States]
  BY <1>2, <1>3 DEF ICoreSwitchTask, TypeOK
<1>5. QED BY <1>1, <1>4 DEF ICoreSwitchTask, TypeOK

LEMMA TickTypes ==
  ASSUME KernelTypes, NEW nested \in BOOLEAN, NEW locked \in BOOLEAN,
         OsTick(nested, locked)
  PROVE  KernelTypes'
<1> USE DEF KernelTypes
<1>1. /\ tcbList' \subseteq Task /\ waitList' \subseteq Task
      /\ queue' \in Seq(Task) /\ running' \in Task
      /\ state' \in [Task -> States] /\ del' \subseteq Task
      /\ dispatch' \in BOOLEAN
  <2>1. CASE dispatch /\ ~nested
    BY <2>1, SwitchTypes DEF OsTick, KCoreFlagClear
  <2>2. CASE ~(dispatch /\ ~nested)
    BY <2>2 DEF OsTick, TypeOK, taskVars
  <2>3. QED BY <2>1, <2>2
<1>2. AddTime(lag, IF dispatch THEN 0 ELSE TickPeriod) \in 0 .. MaxLag
  <2>1. lag \in Nat /\ TickPeriod \in Nat BY TimeAssumption DEF TypeOK
  <2>2. (IF dispatch THEN 0 ELSE TickPeriod) \in Nat BY <2>1
  <2>3. QED BY <2>1, <2>2, AddTimeType
<1>3. CASE locked \/ schedLock > 0
  <2>1. idleFlag' \in BOOLEAN BY <1>3 DEF OsTick, IdleFlagAfter
  <2>2. TypeOK'
    BY <1>1, <1>2, <1>3, <2>1 DEF OsTick, TypeOK, evVars, tickVars
  <2>3. QED
    BY <1>3, <2>2 DEF OsTick, MockStays, IdxInBounds, evVars, tickVars
<1>4. CASE ~(locked \/ schedLock > 0)
  <2>1. TypeOK'
    BY <1>1, <1>2, <1>4, TimeAssumption DEF OsTick, TypeOK, evVars
  <2>2. MockStays' /\ idx' \in 1 .. Len(evs)'
    BY <1>4 DEF OsTick, MockStays, evVars, TypeOK
  <2>3. QED BY <2>1, <2>2 DEF IdxInBounds
<1>5. QED BY <1>3, <1>4

LEMMA BrokerTypes == KernelTypes /\ Broker => KernelTypes'
<1> SUFFICES ASSUME KernelTypes, Broker PROVE KernelTypes'
  OBVIOUS
<1> USE DEF KernelTypes
<1>0. phase \in {"event", "compare", "cleanup"}
      => idx \in 1 .. Len(evs) /\ evs[idx] \in Key
  BY DEF IdxInBounds, TypeOK
<1>1. \A st \in {"wait", "list", "queue"} : TasksOf(st) \subseteq Task
  BY DEF TasksOf, TypeOK
<1>2. CASE BrokerAddressed
  <2>1. /\ tcbList' \subseteq Task /\ waitList' \subseteq Task
        /\ queue' \in Seq(Task) /\ state' \in [Task -> States]
    BY <1>2, ActivationType DEF BrokerAddressed, TypeOK
  <2>2. todo' \subseteq Task /\ stage' \in {"wait", "list", "queue"}
        /\ phase' \in {"compare", "cleanup"}
    BY <1>2, <2>1 DEF BrokerAddressed, TasksOf, TypeOK
  <2>3. TypeOK'
    BY <1>2, <2>1, <2>2 DEF BrokerAddressed, TypeOK, brokerFrame, evVars
  <2>4. QED
    BY <1>0, <1>2, <2>3 DEF BrokerAddressed, MockStays, IdxInBounds, evVars
<1>3. CASE BrokerEvent
  <2>1. TypeOK'
    BY <1>1, <1>3 DEF BrokerEvent, TypeOK, brokerFrame, evVars
  <2>2. QED
    BY <1>0, <1>3, <2>1 DEF BrokerEvent, MockStays, IdxInBounds, evVars
<1>4. ASSUME NEW t \in Task, BrokerCompare(t) PROVE KernelTypes'
  <2>1. listen[t] \in PollList BY DEF TypeOK, PollList
  <2>2. ISchedulerTaskEventsCompare(listen[t], evs[idx], Last) \in PollList
    BY <2>1, CompareType DEF TypeOK
  <2>3. listen' \in [Task -> PollList]
    BY <1>4, <2>2 DEF BrokerCompare, TypeOK, PollList
  <2>4. /\ tcbList' \subseteq Task /\ waitList' \subseteq Task
        /\ queue' \in Seq(Task) /\ state' \in [Task -> States]
    BY <1>4, ActivationType DEF BrokerCompare, TypeOK
  <2>5. TypeOK'
    BY <1>4, <2>3, <2>4 DEF BrokerCompare, TypeOK, PollList, brokerFrame, evVars
  <2>6. QED
    BY <1>0, <1>4, <2>5 DEF BrokerCompare, MockStays, IdxInBounds, evVars
<1>5. CASE BrokerNextList
  <2>1. todo' \subseteq Task /\ stage' \in {"wait", "list", "queue"}
        /\ phase' \in {"compare", "cleanup"}
    BY <1>1, <1>5 DEF BrokerNextList, TypeOK
  <2>2. TypeOK'
    BY <1>5, <2>1 DEF BrokerNextList, TypeOK, brokerFrame, evVars
  <2>3. QED
    BY <1>0, <1>5, <2>2 DEF BrokerNextList, MockStays, IdxInBounds, evVars
<1>6. CASE BrokerCleanup
  <2>0. evs \in Seq(Key) /\ evCnt \in Seq(0 .. MaxLag) /\ Len(evCnt) = Len(evs)
    BY DEF TypeOK
  <2>1. idx \in 1 .. Len(evs) /\ evs[idx] \in Key
    BY <1>0, <1>6 DEF BrokerCleanup
  <2>12. idx \in 1 .. Len(evCnt) BY <2>0, <2>1
  <2>2. evs' \in Seq(Key)
    BY <1>6, <2>0, <2>1, RemoveAtProperties DEF BrokerCleanup
  <2>3. evCnt' \in Seq(0 .. MaxLag) /\ Len(evCnt') = Len(evs')
    <3>1. CASE Expired(idx)
      <4>1. evs' = RemoveAt(evs, idx) /\ evCnt' = RemoveAt(evCnt, idx)
        BY <1>6, <3>1 DEF BrokerCleanup
      <4>2. Len(evs') = Len(evs) - 1 BY <2>0, <2>1, <4>1, RemoveAtProperties
      <4>3. idx \in 1 .. Len(evCnt) BY <2>0, <2>1
      <4>4. evCnt' \in Seq(0 .. MaxLag) /\ Len(evCnt') = Len(evCnt) - 1
        BY <2>0, <4>1, <4>3, RemoveAtProperties
      <4>5. QED BY <2>0, <4>2, <4>4
    <3>2. CASE ~Expired(idx)
      <4>1. evs' = evs
            /\ evCnt' = [evCnt EXCEPT ![idx] = IF evs[idx] = Mock THEN @ ELSE @ + delta]
        BY <1>6, <3>2 DEF BrokerCleanup
      <4>2. evCnt[idx] \in 0 .. MaxLag BY <2>0, <2>12, ElementType
      <4>3. evs[idx] # Mock => evCnt[idx] + delta \in 0 .. MaxLag
        BY <3>2, <4>2, TimeAssumption DEF Expired, TypeOK
      <4>4. (IF evs[idx] = Mock THEN evCnt[idx] ELSE evCnt[idx] + delta) \in 0 .. MaxLag
        BY <4>2, <4>3
      <4>5. evCnt' = [evCnt EXCEPT ![idx] = IF evs[idx] = Mock THEN evCnt[idx]
                                             ELSE evCnt[idx] + delta]
        BY <4>1
      <4>6. evCnt' \in Seq(0 .. MaxLag) /\ Len(evCnt') = Len(evCnt)
        BY ONLY <2>0, <2>1, <4>4, <4>5
      <4>7. QED BY <2>0, <4>1, <4>6
    <3>3. QED BY <3>1, <3>2
  <2>4. MockStays'
    <3>1. CASE Expired(idx)
      <4>1. idx # 1 BY <2>1, <3>1 DEF Expired, MockStays
      <4>2. evs' = RemoveAt(evs, idx) BY <1>6, <3>1 DEF BrokerCleanup
      <4>3. /\ Len(evs') = Len(evs) - 1
            /\ \A j \in 1 .. Len(evs) - 1 :
                 evs'[j] = IF j < idx THEN evs[j] ELSE evs[j + 1]
        <5>1. evs \in Seq(Key) BY DEF TypeOK
        <5>2. /\ Len(RemoveAt(evs, idx)) = Len(evs) - 1
              /\ \A j \in 1 .. Len(evs) - 1 :
                   RemoveAt(evs, idx)[j] = IF j < idx THEN evs[j] ELSE evs[j + 1]
          BY <2>1, <5>1, RemoveAtProperties
        <5>3. QED BY <4>2, <5>2
      <4>4. Len(evs) \in Nat BY DEF TypeOK
      <4>5. ASSUME NEW j \in 1 .. Len(evs) - 1 PROVE evs'[j] = Mock <=> j = 1
        BY <2>1, <4>1, <4>3, <4>4 DEF MockStays
      <4>6. QED BY <2>1, <4>1, <4>3, <4>4, <4>5 DEF MockStays
    <3>2. CASE ~Expired(idx)
      BY <1>6, <3>2 DEF BrokerCleanup, MockStays
    <3>3. QED BY <3>1, <3>2
  <2>5. IdxInBounds' /\ idx' \in Nat
    <3>1. CASE Last
      BY <1>6, <3>1 DEF BrokerCleanup, IdxInBounds
    <3>2. CASE ~Last
      <4>1. idx < Len(evs) BY <2>1, <3>2 DEF Last, TypeOK
      <4>2. CASE Expired(idx)
        BY <1>6, <2>1, <3>2, <4>1, <4>2, RemoveAtProperties
        DEF BrokerCleanup, IdxInBounds, ListIteratorNext, TypeOK
      <4>3. CASE ~Expired(idx)
        BY <1>6, <2>1, <3>2, <4>1, <4>3
        DEF BrokerCleanup, IdxInBounds, ListIteratorNext, TypeOK
      <4>4. QED BY <4>2, <4>3
    <3>3. QED BY <3>1, <3>2
  <2>6. delta' \in 0 .. MaxLag /\ phase' \in {"thread", "event"}
    BY <1>6, TimeAssumption DEF BrokerCleanup, TypeOK
  <2>7. idleFlag' \in BOOLEAN
    BY <1>6 DEF BrokerCleanup, IdleFlagAfter, TypeOK
  <2>10. call' \in Call \cup {None}
    <3>1. CASE Expired(idx) /\ Resetting(idx)
      <4>1. call \in Call /\ call' = [call EXCEPT !.op = "stale"]
        BY <1>6, <3>1 DEF BrokerCleanup, Resetting, TypeOK
      <4>2. call.op = "reset" BY <3>1 DEF Resetting
      <4>3. QED BY <4>1, <4>2 DEF Call, Emitting
    <3>2. QED BY <1>6, <3>1 DEF BrokerCleanup, TypeOK
  <2>8. TypeOK'
    BY <1>6, <2>2, <2>3, <2>5, <2>6, <2>7, <2>10 DEF BrokerCleanup, TypeOK
  <2>9. QED BY <2>4, <2>5, <2>8
<1>7. QED BY <1>2, <1>3, <1>4, <1>5, <1>6 DEF Broker

LEMMA KernelTypesStep == KernelTypes /\ [Next]_vars => KernelTypes'
<1> SUFFICES ASSUME KernelTypes, [Next]_vars PROVE KernelTypes'
  OBVIOUS
<1>1. CASE UNCHANGED vars
  BY <1>1 DEF vars, taskVars, evVars, tickVars, KernelTypes, TypeOK, MockStays,
              IdxInBounds
<1>2. CASE Next
  BY <1>2, TaskCallTypes, ThreadTypes, TickTypes, BrokerTypes DEF Next, Tick
<1>3. QED BY <1>1, <1>2

(* Type correctness and the shape of EventList: the variables of the kernel *)
(* keep their types, the mock event stays at the head of EventList, and the *)
(* broker never leaves the list while it destroys events.                   *)
THEOREM KernelTypesInvariant == Spec => []KernelTypes
BY KernelTypesInit, KernelTypesStep, PTL DEF Spec

(* Type correctness of every reachable state of the kernel.                 *)
THEOREM TypeCorrect == Spec => []TypeOK
<1>1. KernelTypes => TypeOK BY DEF KernelTypes
<1>2. QED BY <1>1, KernelTypesInvariant, PTL

(* The mock event never leaves the head of EventList, so that the trap of   *)
(* ISchedulerEventBrokerCycle on an empty list is never reached.            *)
THEOREM MockStaysForever == Spec => []MockStays
<1>1. KernelTypes => MockStays BY DEF KernelTypes
<1>2. QED BY <1>1, KernelTypesInvariant, PTL
------------------------------------------------------------------------------
(* The second part of BrokerInBounds.                                       *)
TodoInList ==
  phase = "compare" =>
    \A t \in todo : \/ stage = "wait" /\ t \in waitList
                    \/ stage = "list" /\ t \in tcbList
                    \/ stage = "queue" /\ Queued(t)

(* Idle polls nothing, and neither does a task outside all lists.  OnePlace *)
(* needs it: Idle is loaded wherever it is when the ExecutionQueue is empty, *)
(* and it must not be in TcbWaitList then.                                  *)
UnparkedPolls ==
  /\ ~Listening(Idle)
  /\ \A t \in Task : state[t] \in {"FREE", "DEAD"} => ~Listening(t)

KernelLists == OnePlace /\ ParkedByPolls /\ TodoInList /\ UnparkedPolls

LEMMA KernelListsInit == Init => KernelLists
<1> SUFFICES ASSUME Init PROVE KernelLists
  OBVIOUS
<1>1. \A t \in Task : ~Listening(t)
  BY DEF Init, Listening, NoPolls
<1>2. Len(queue) = 0 /\ \A t : ~Queued(t)
  BY DEF Init, Queued
<1>3. OnePlace
  <2>1. \A t \in Task : state[t] = IF t = running THEN "RUNNING"
                                   ELSE IF t \in Boot THEN "IDLE" ELSE "FREE"
    BY DEF Init
  <2>2. QED BY <1>2, <2>1, TaskAssumption DEF Init, OnePlace
<1>4. QED
  BY <1>1, <1>3, TaskAssumption
  DEF Init, KernelLists, ParkedByPolls, TodoInList, UnparkedPolls

(* Steps that touch neither the lists nor the polls.                        *)
LEMMA ListsUnchanged ==
  ASSUME KernelLists, UNCHANGED <<taskVars, listen, phase, stage, todo>>
  PROVE  KernelLists'
<1>1. \A t : (Queued(t)' <=> Queued(t)) /\ (Listening(t)' <=> Listening(t))
  BY DEF Queued, Listening, taskVars
<1>2. OnePlace'
  BY <1>1 DEF KernelLists, OnePlace, taskVars
<1>3. QED
  BY <1>1, <1>2
  DEF KernelLists, ParkedByPolls, TodoInList, UnparkedPolls, taskVars

(* The polls of the running task are its own: no other list is concerned.   *)
LEMMA SetPollsLists ==
  ASSUME KernelTypes, KernelLists, InTask, NEW L, SetPolls(L)
  PROVE  KernelLists'
<1>1. \A t : Queued(t)' <=> Queued(t)
  BY DEF Queued, SetPolls, taskVars
<1>2. \A t \in Task : t # running => (Listening(t)' <=> Listening(t))
  BY DEF Listening, SetPolls, KernelTypes, TypeOK
<1>3. OnePlace'
  BY <1>1 DEF KernelLists, OnePlace, SetPolls, taskVars
<1>4. running \notin waitList \cup tcbList
      /\ state[running] = "RUNNING" /\ running # Idle
  BY DEF KernelLists, OnePlace, InTask, KernelTypes, TypeOK
<1>5. ParkedByPolls'
  BY <1>2, <1>4 DEF KernelLists, ParkedByPolls, SetPolls, taskVars, KernelTypes, TypeOK
<1>6. UnparkedPolls'
  BY <1>2, <1>4, TaskAssumption DEF KernelLists, UnparkedPolls, SetPolls, taskVars
<1>7. TodoInList'
  BY DEF InTask, TodoInList, SetPolls, tickVars
<1>8. QED BY <1>3, <1>5, <1>6, <1>7 DEF KernelLists

LEMMA TaskCreateLists ==
  ASSUME KernelTypes, KernelLists, NEW t \in Task, NEW start, TaskCreate(t, start)
  PROVE  KernelLists'
<1>1. \A u : (Queued(u)' <=> Queued(u)) /\ (Listening(u)' <=> Listening(u))
  BY DEF Queued, Listening, TaskCreate
<1>2. ~Listening(t)
  BY DEF TaskCreate, KernelLists, UnparkedPolls
<1>3. \A u \in Task : state'[u] = IF u = t THEN "IDLE" ELSE state[u]
  BY DEF TaskCreate, KernelTypes, TypeOK
<1>4. OnePlace'
  BY <1>1, <1>3 DEF TaskCreate, KernelLists, OnePlace
<1>5. ParkedByPolls' /\ UnparkedPolls'
  BY <1>1, <1>2, <1>3 DEF TaskCreate, KernelLists, ParkedByPolls, UnparkedPolls
<1>6. TodoInList'
  BY DEF TaskCreate, InTask, TodoInList, tickVars
<1>7. QED BY <1>4, <1>5, <1>6 DEF KernelLists

LEMMA TaskCallLists == KernelTypes /\ KernelLists /\ TaskCall => KernelLists'
<1> SUFFICES ASSUME KernelTypes, KernelLists, TaskCall PROVE KernelLists'
  OBVIOUS
<1>1. ASSUME NEW k, NEW ms, NEW add, TaskPoll(k, ms, add) PROVE KernelLists'
  BY <1>1, SetPollsLists DEF TaskPoll
<1>2. ASSUME NEW k, NEW ms, TaskPollAdd(k, ms) PROVE KernelLists'
  BY <1>2, SetPollsLists DEF TaskPollAdd
<1>3. ASSUME NEW k, TaskPollRemove(k) PROVE KernelLists'
  BY <1>3, SetPollsLists DEF TaskPollRemove
<1>4. ASSUME NEW ms, TaskSleep(ms) PROVE KernelLists'
  BY <1>1, <1>4 DEF TaskSleep
<1>5. ASSUME NEW op, NEW t, NEW arg, Lookup(op, t, arg) PROVE KernelLists'
  BY <1>5, ListsUnchanged DEF Lookup, tickVars
<1>6. CASE Write
  BY <1>6, ListsUnchanged DEF Write, tickVars
<1>7. ASSUME NEW n, SetSchedulerLock(n) PROVE KernelLists'
  BY <1>7, ListsUnchanged DEF SetSchedulerLock, tickVars
<1>8. QED
  BY <1>1, <1>2, <1>3, <1>4, <1>5, <1>6, <1>7, TaskCreateLists
  DEF TaskCall, TaskDelete, TaskPrioritySet, OsSchedulerLock, OsSchedulerUnlock

LEMMA ThreadLists ==
  ASSUME KernelLists,
         \/ AnyCall
         \/ \E tc \in 0 .. TickPeriod : ICoreTickInvoke(tc)
         \/ KernelTaskIdle
  PROVE  KernelLists'
<1>1. ASSUME NEW k, Emit(k) PROVE KernelLists'
  BY <1>1, ListsUnchanged DEF Emit, EmitAtOnce, EmitBegin, tickVars
<1>2. ASSUME NEW tc, ICoreTickInvoke(tc) PROVE KernelLists'
  BY <1>2, ListsUnchanged DEF ICoreTickInvoke, tickVars
<1>3. CASE KernelTaskIdle
  BY <1>3, ListsUnchanged DEF KernelTaskIdle, tickVars
<1>4. QED BY <1>1, <1>2, <1>3 DEF AnyCall, TaskResume, TaskNotify

(* The ExecutionQueue after its head is taken.                              *)
LEMMA PopProperties ==
  ASSUME KernelTypes, OnePlace, queue # << >>, queue' = Tail(queue)
  PROVE  /\ Head(queue) \in Task /\ Queued(Head(queue))
         /\ \A t : Queued(t)' <=> Queued(t) /\ t # Head(queue)
         /\ \A i, j \in 1 .. Len(queue') : queue'[i] = queue'[j] => i = j
<1>1. /\ Head(queue) \in Task /\ Head(queue) = queue[1]
      /\ Len(queue) \in Nat \ {0} /\ Len(queue') = Len(queue) - 1
      /\ \A j \in 1 .. Len(queue) - 1 : queue'[j] = queue[j + 1]
  BY TailProperties DEF KernelTypes, TypeOK
<1>2. Queued(Head(queue)) BY <1>1 DEF Queued
<1>3. \A i, j \in 1 .. Len(queue) : queue[i] = queue[j] => i = j
  BY DEF OnePlace
<1>4. \A i, j \in 1 .. Len(queue') : queue'[i] = queue'[j] => i = j
  BY <1>1, <1>3
<1>5. ASSUME NEW t, Queued(t)' PROVE Queued(t) /\ t # Head(queue)
  <2>1. PICK i \in 1 .. Len(queue') : queue'[i] = t BY <1>5 DEF Queued
  <2>2. queue[i + 1] = t /\ i + 1 \in 1 .. Len(queue) /\ i + 1 # 1
    BY <1>1, <2>1
  <2>3. QED BY <1>1, <1>3, <2>2 DEF Queued
<1>6. ASSUME NEW t, Queued(t), t # Head(queue) PROVE Queued(t)'
  <2>1. PICK i \in 1 .. Len(queue) : queue[i] = t BY <1>6 DEF Queued
  <2>2. i # 1 BY <1>1, <1>6, <2>1
  <2>3. i - 1 \in 1 .. Len(queue') /\ queue'[i - 1] = t
    BY <1>1, <2>1, <2>2
  <2>4. QED BY <2>3 DEF Queued
<1>7. QED BY <1>1, <1>2, <1>4, <1>5, <1>6

LEMMA SwitchLists ==
  ASSUME KernelTypes, KernelLists, ICoreSwitchTask, UNCHANGED listen
  PROVE  OnePlace' /\ ParkedByPolls' /\ UnparkedPolls'
<1> DEFINE out == StateAfterRun(running)
           next == IF queue = << >> THEN Idle ELSE Head(queue)
<1>0. /\ running \in Task /\ Idle \in Task
      /\ state[running] = "RUNNING"
      /\ \A t \in Task : Listening(t)' <=> Listening(t)
  BY TaskAssumption DEF KernelTypes, TypeOK, KernelLists, OnePlace, Listening
<1>1. /\ out \in {"WAITING", "DEAD", "IDLE"}
      /\ out = "WAITING" <=> Listening(running)
  BY DEF StateAfterRun
<1>2. CASE queue = << >>
  <2>1. queue' = queue /\ running' = Idle
    BY <1>2 DEF ICoreSwitchTask, KSchedulerQueueTaskPop
  <2>2. \A t : Queued(t)' <=> Queued(t) BY <2>1 DEF Queued
  <2>3. \A t : ~Queued(t) BY <1>2 DEF Queued
  <2>4. Idle \notin waitList /\ state[Idle] \notin {"WAITING", "ACTIVE"}
    BY <1>0, <2>3 DEF KernelLists, ParkedByPolls, UnparkedPolls, OnePlace
  <2>5. \A t \in Task : state'[t] = IF t = Idle THEN "RUNNING"
                                    ELSE IF t = running THEN out ELSE state[t]
    BY <1>0, <1>2 DEF ICoreSwitchTask, KernelTypes, TypeOK
  <2>6. /\ waitList' = IF out = "WAITING" THEN waitList \cup {running} ELSE waitList
        /\ tcbList' = (tcbList \cup (IF out = "IDLE" THEN {running} ELSE {})) \ {Idle}
    BY <1>2 DEF ICoreSwitchTask
  <2>7. running = Idle => out # "WAITING"
    BY <1>1 DEF KernelLists, UnparkedPolls
  <2>8. OnePlace'
    <3>1. ASSUME NEW t \in Task
          PROVE  /\ t \in tcbList' <=> state'[t] = "IDLE"
                 /\ t \in waitList' <=> state'[t] = "WAITING"
      BY <1>0, <1>1, <2>4, <2>5, <2>6, <2>7 DEF KernelLists, OnePlace
    <3>2. ASSUME NEW t \in Task
          PROVE  /\ Queued(t)' <=> state'[t] = "ACTIVE"
                 /\ t = running' <=> state'[t] = "RUNNING"
      BY <1>0, <1>1, <2>1, <2>2, <2>3, <2>5 DEF KernelLists, OnePlace
    <3>3. QED BY <2>1, <3>1, <3>2 DEF KernelLists, OnePlace
  <2>9. ParkedByPolls'
    BY <1>0, <1>1, <2>6 DEF KernelLists, ParkedByPolls, KernelTypes, TypeOK
  <2>10. UnparkedPolls'
    BY <1>0, <1>1, <2>5 DEF KernelLists, UnparkedPolls
  <2>11. QED BY <2>8, <2>9, <2>10
<1>3. CASE queue # << >>
  <2>1. queue' = Tail(queue) /\ running' = Head(queue)
    BY <1>3 DEF ICoreSwitchTask, KSchedulerQueueTaskPop
  <2>2. /\ Head(queue) \in Task /\ Queued(Head(queue))
        /\ \A t : Queued(t)' <=> Queued(t) /\ t # Head(queue)
        /\ \A i, j \in 1 .. Len(queue') : queue'[i] = queue'[j] => i = j
    BY <1>3, <2>1, PopProperties DEF KernelLists
  <2>3. state[Head(queue)] = "ACTIVE" /\ Head(queue) # running
    BY <1>0, <2>2 DEF KernelLists, OnePlace
  <2>4. \A t \in Task : state'[t] = IF t = Head(queue) THEN "RUNNING"
                                    ELSE IF t = running THEN out ELSE state[t]
    BY <1>0, <1>3, <2>2 DEF ICoreSwitchTask, KernelTypes, TypeOK
  <2>5. /\ waitList' = IF out = "WAITING" THEN waitList \cup {running} ELSE waitList
        /\ tcbList' = IF out = "IDLE" THEN tcbList \cup {running} ELSE tcbList
    BY <1>3 DEF ICoreSwitchTask
  <2>6. OnePlace'
    <3>1. ASSUME NEW t \in Task
          PROVE  /\ t \in tcbList' <=> state'[t] = "IDLE"
                 /\ t \in waitList' <=> state'[t] = "WAITING"
      BY <1>0, <1>1, <2>3, <2>4, <2>5 DEF KernelLists, OnePlace
    <3>2. ASSUME NEW t \in Task
          PROVE  /\ Queued(t)' <=> state'[t] = "ACTIVE"
                 /\ t = running' <=> state'[t] = "RUNNING"
      BY <1>0, <1>1, <2>1, <2>2, <2>3, <2>4 DEF KernelLists, OnePlace
    <3>3. QED BY <2>2, <3>1, <3>2 DEF OnePlace
  <2>7. ParkedByPolls'
    BY <1>0, <1>1, <2>5 DEF KernelLists, ParkedByPolls, KernelTypes, TypeOK
  <2>8. UnparkedPolls'
    BY <1>0, <1>1, <2>4 DEF KernelLists, UnparkedPolls
  <2>9. QED BY <2>6, <2>7, <2>8
<1>4. QED BY <1>2, <1>3

LEMMA TickLists ==
  ASSUME KernelTypes, KernelLists, NEW nested \in BOOLEAN, NEW locked \in BOOLEAN,
         OsTick(nested, locked)
  PROVE  KernelLists'
<1>1. OnePlace' /\ ParkedByPolls' /\ UnparkedPolls'
  <2>1. CASE dispatch /\ ~nested
    BY <2>1, SwitchLists DEF OsTick
  <2>2. CASE ~(dispatch /\ ~nested)
    <3>1. UNCHANGED taskVars BY <2>2 DEF OsTick
    <3>2. \A t : (Queued(t)' <=> Queued(t)) /\ (Listening(t)' <=> Listening(t))
      BY <3>1 DEF OsTick, Queued, Listening, taskVars
    <3>3. OnePlace'
      BY <3>1, <3>2 DEF KernelLists, OnePlace, taskVars
    <3>4. ParkedByPolls' /\ UnparkedPolls'
      BY <3>1, <3>2 DEF KernelLists, ParkedByPolls, UnparkedPolls, taskVars
    <3>5. QED BY <3>3, <3>4
  <2>3. QED BY <2>1, <2>2
<1>2. phase' # "compare" BY DEF OsTick, tickVars
<1>3. QED BY <1>1, <1>2 DEF KernelLists, TodoInList

(* The ExecutionQueue after an insertion.                                   *)
LEMMA QueueInsertion ==
  ASSUME KernelTypes, NEW t \in Task, NEW i \in 1 .. Len(queue) + 1,
         queue' = InsertAt(queue, i, t)
  PROVE  /\ Len(queue') = Len(queue) + 1
         /\ \A j \in 1 .. Len(queue) + 1 :
              queue'[j] =
                IF j < i THEN queue[j] ELSE IF j = i THEN t ELSE queue[j - 1]
         /\ Len(queue) \in Nat
<1>1. queue \in Seq(Task) BY DEF KernelTypes, TypeOK
<1>2. /\ Len(InsertAt(queue, i, t)) = Len(queue) + 1
      /\ \A j \in 1 .. Len(queue) + 1 :
           InsertAt(queue, i, t)[j] =
             IF j < i THEN queue[j] ELSE IF j = i THEN t ELSE queue[j - 1]
  BY <1>1, InsertAtProperties
<1>3. QED BY <1>1, <1>2

(* A task of TcbList or TcbWaitList is moved to the ExecutionQueue.         *)
LEMMA ActivationLists ==
  ASSUME KernelTypes, OnePlace, NEW t \in tcbList \cup waitList, UNCHANGED running,
         ISchedulerTaskAddDescendingPriority(t)
  PROVE  /\ OnePlace'
         /\ tcbList' = tcbList \ {t}
         /\ waitList' = waitList \ {t}
         /\ \A u : Queued(u)' <=> Queued(u) \/ u = t
         /\ \A u \in Task : state'[u] = IF u = t THEN "ACTIVE" ELSE state[u]
<1>0. t \in Task BY DEF KernelTypes, TypeOK
<1>1. PICK i \in 1 .. Len(queue) + 1 : queue' = InsertAt(queue, i, t)
  BY DEF ISchedulerTaskAddDescendingPriority
<1>2. /\ Len(queue') = Len(queue) + 1
      /\ \A j \in 1 .. Len(queue) + 1 :
           queue'[j] = IF j < i THEN queue[j] ELSE IF j = i THEN t ELSE queue[j - 1]
      /\ Len(queue) \in Nat
  BY <1>0, <1>1, QueueInsertion
<1>3. ~Queued(t) BY <1>0 DEF OnePlace
<1>4. \A u : Queued(u)' <=> Queued(u) \/ u = t
  <2>1. ASSUME NEW u, Queued(u)' PROVE Queued(u) \/ u = t
    <3>1. PICK j \in 1 .. Len(queue) + 1 : queue'[j] = u
      BY <1>2, <2>1 DEF Queued
    <3>2. CASE j < i BY <1>2, <3>1, <3>2 DEF Queued
    <3>3. CASE j = i BY <1>2, <3>1, <3>3
    <3>4. CASE j > i
      <4>1. j - 1 \in 1 .. Len(queue) /\ queue[j - 1] = u
        BY <1>2, <3>1, <3>4
      <4>2. QED BY <4>1 DEF Queued
    <3>5. QED BY <3>2, <3>3, <3>4
  <2>2. Queued(t)' BY <1>2 DEF Queued
  <2>3. ASSUME NEW u, Queued(u) PROVE Queued(u)'
    <3>1. PICK j \in 1 .. Len(queue) : queue[j] = u BY <2>3 DEF Queued
    <3>2. CASE j < i
      <4>1. j \in 1 .. Len(queue') /\ queue'[j] = u BY <1>2, <3>1, <3>2
      <4>2. QED BY <4>1 DEF Queued
    <3>3. CASE j >= i
      <4>1. j + 1 \in 1 .. Len(queue') /\ queue'[j + 1] = u BY <1>2, <3>1, <3>3
      <4>2. QED BY <4>1 DEF Queued
    <3>4. QED BY <3>2, <3>3
  <2>4. QED BY <2>1, <2>2, <2>3
<1>5. \A j, l \in 1 .. Len(queue') : queue'[j] = queue'[l] => j = l
  <2>1. \A j \in 1 .. Len(queue) : queue[j] # t BY <1>3 DEF Queued
  <2>2. \A j, l \in 1 .. Len(queue) : queue[j] = queue[l] => j = l BY DEF OnePlace
  <2>3. QED BY <1>2, <2>1, <2>2
<1>6. \A u \in Task : state'[u] = IF u = t THEN "ACTIVE" ELSE state[u]
  BY DEF ISchedulerTaskAddDescendingPriority, KernelTypes, TypeOK
<1>7. tcbList' = tcbList \ {t} /\ waitList' = waitList \ {t}
  BY DEF ISchedulerTaskAddDescendingPriority, ListNodeRemove
<1>8. OnePlace'
  <2>1. ASSUME NEW u \in Task
        PROVE  /\ u \in tcbList' <=> state'[u] = "IDLE"
               /\ u \in waitList' <=> state'[u] = "WAITING"
               /\ Queued(u)' <=> state'[u] = "ACTIVE"
               /\ u = running' <=> state'[u] = "RUNNING"
    BY <1>4, <1>6, <1>7 DEF OnePlace
  <2>2. QED BY <1>5, <2>1 DEF OnePlace
<1>9. QED BY <1>4, <1>6, <1>7, <1>8

(* A comparison leaves the set of polled events as it is.                   *)
LEMMA CompareKeepsPolls ==
  ASSUME NEW L \in PollList, NEW e, NEW last, delta \in 0 .. MaxLag
  PROVE  \A k \in Key :
           ISchedulerTaskEventsCompare(L, e, last)[k] # None <=> L[k] # None
<1>1. \A k \in Key : L[k] # None => L[k] \in Polled
  BY DEF PollList
<1>2. \A k \in Key : L[k] # None =>
        [L[k] EXCEPT !.occ = TRUE, !.tout = FALSE, !.cnt = 0] \in Polled
  <2>1. 0 \in 0 .. MaxLag BY TimeAssumption
  <2>2. QED BY <1>1, <2>1, PolledFields
<1>3. \A k \in Key : L[k] # None /\ LifeTimeRuns(L[k], last) =>
        PolledLifeTimeIncrement(L[k]) \in Polled
  BY <1>1, PolledIncrementType
<1>4. None \notin Polled BY KeyAssumption
<1>5. QED BY <1>2, <1>3, <1>4 DEF ISchedulerTaskEventsCompare

LEMMA BrokerLists == KernelTypes /\ KernelLists /\ Broker => KernelLists'
<1> SUFFICES ASSUME KernelTypes, KernelLists, Broker PROVE KernelLists'
  OBVIOUS
<1>1. CASE BrokerAddressed
  <2>1. \A u : Listening(u)' <=> Listening(u)
    BY <1>1 DEF BrokerAddressed, Listening
  <2>2. CASE KTcbFromId(evs[idx])
    <3> DEFINE t == evs[idx]
    <3>1. /\ OnePlace' /\ tcbList' = tcbList \ {t} /\ waitList' = waitList \ {t}
          /\ \A u \in Task : state'[u] = IF u = t THEN "ACTIVE" ELSE state[u]
      BY <1>1, <2>2, ActivationLists
      DEF BrokerAddressed, KTcbFromId, KernelLists, brokerFrame
    <3>2. ParkedByPolls' /\ UnparkedPolls'
      BY <2>1, <3>1 DEF KernelLists, ParkedByPolls, UnparkedPolls
    <3>3. TodoInList'
      BY <1>1 DEF BrokerAddressed, TodoInList, TasksOf
    <3>4. QED BY <3>1, <3>2, <3>3 DEF KernelLists
  <2>3. CASE ~KTcbFromId(evs[idx])
    <3>1. UNCHANGED <<tcbList, waitList, queue, state, running>>
      BY <1>1, <2>3 DEF BrokerAddressed, brokerFrame
    <3>2. \A u : Queued(u)' <=> Queued(u) BY <3>1 DEF Queued
    <3>3. OnePlace' BY <3>1, <3>2 DEF KernelLists, OnePlace
    <3>4. ParkedByPolls' /\ UnparkedPolls'
      BY <2>1, <3>1 DEF KernelLists, ParkedByPolls, UnparkedPolls
    <3>5. TodoInList'
      BY <1>1 DEF BrokerAddressed, TodoInList, TasksOf
    <3>6. QED BY <3>3, <3>4, <3>5 DEF KernelLists
  <2>4. QED BY <2>2, <2>3
<1>2. ASSUME BrokerEvent \/ BrokerNextList \/ BrokerCleanup PROVE KernelLists'
  <2>1. UNCHANGED <<tcbList, waitList, queue, state, running, listen>>
    BY <1>2 DEF BrokerEvent, BrokerNextList, BrokerCleanup, brokerFrame
  <2>2. \A u : (Queued(u)' <=> Queued(u)) /\ (Listening(u)' <=> Listening(u))
    BY <2>1 DEF Queued, Listening
  <2>3. OnePlace' BY <2>1, <2>2 DEF KernelLists, OnePlace
  <2>4. ParkedByPolls' /\ UnparkedPolls'
    BY <2>1, <2>2 DEF KernelLists, ParkedByPolls, UnparkedPolls
  <2>5. TodoInList'
    <3>1. CASE BrokerEvent
      BY <2>1, <3>1 DEF BrokerEvent, TodoInList, TasksOf
    <3>2. CASE BrokerNextList
      BY <2>1, <2>2, <3>2 DEF BrokerNextList, TodoInList, TasksOf
    <3>3. CASE BrokerCleanup
      BY <3>3 DEF BrokerCleanup, TodoInList
    <3>4. QED BY <1>2, <3>1, <3>2, <3>3
  <2>6. QED BY <2>3, <2>4, <2>5 DEF KernelLists
<1>3. ASSUME NEW t \in Task, BrokerCompare(t) PROVE KernelLists'
  <2> DEFINE L == ISchedulerTaskEventsCompare(listen[t], evs[idx], Last)
  <2>1. /\ phase = "compare" /\ t \in todo /\ todo' = todo \ {t}
        /\ UNCHANGED <<phase, stage, running>>
    BY <1>3 DEF BrokerCompare, brokerFrame
  <2>2. \A u \in Task : Listening(u)' <=> Listening(u)
    <3>1. listen[t] \in PollList /\ delta \in 0 .. MaxLag
      BY DEF KernelTypes, TypeOK, PollList
    <3>2. \A k \in Key : L[k] # None <=> listen[t][k] # None
      BY <3>1, CompareKeepsPolls
    <3>3. \A u \in Task : listen'[u] = IF u = t THEN L ELSE listen[u]
      BY <1>3 DEF BrokerCompare, KernelTypes, TypeOK
    <3>4. QED BY <3>2, <3>3 DEF Listening
  <2>3. CASE stage # "queue" /\ Activated(L)
    <3>1. t \in tcbList \cup waitList
      BY <2>1, <2>3 DEF KernelLists, TodoInList
    <3>2. ISchedulerTaskAddDescendingPriority(t)
      BY <1>3, <2>3 DEF BrokerCompare
    <3>3. /\ OnePlace' /\ tcbList' = tcbList \ {t} /\ waitList' = waitList \ {t}
          /\ \A u : Queued(u)' <=> Queued(u) \/ u = t
          /\ \A u \in Task : state'[u] = IF u = t THEN "ACTIVE" ELSE state[u]
      BY <2>1, <3>1, <3>2, ActivationLists DEF KernelLists
    <3>4. ParkedByPolls' /\ UnparkedPolls'
      BY <2>2, <3>3, TaskAssumption
      DEF KernelLists, ParkedByPolls, UnparkedPolls, KernelTypes, TypeOK
    <3>5. TodoInList'
      BY <2>1, <3>3 DEF KernelLists, TodoInList
    <3>6. QED BY <3>3, <3>4, <3>5 DEF KernelLists
  <2>4. CASE ~(stage # "queue" /\ Activated(L))
    <3>1. UNCHANGED <<tcbList, waitList, queue, state>>
      BY <1>3, <2>4 DEF BrokerCompare
    <3>2. \A u : Queued(u)' <=> Queued(u) BY <3>1 DEF Queued
    <3>3. OnePlace' BY <2>1, <3>1, <3>2 DEF KernelLists, OnePlace
    <3>4. ParkedByPolls' /\ UnparkedPolls'
      BY <2>2, <3>1, TaskAssumption
      DEF KernelLists, ParkedByPolls, UnparkedPolls, KernelTypes, TypeOK
    <3>5. TodoInList'
      BY <2>1, <3>1, <3>2 DEF KernelLists, TodoInList
    <3>6. QED BY <3>3, <3>4, <3>5 DEF KernelLists
  <2>5. QED BY <2>3, <2>4
<1>4. QED BY <1>1, <1>2, <1>3 DEF Broker

LEMMA KernelListsStep == KernelTypes /\ KernelLists /\ [Next]_vars => KernelLists'
<1> SUFFICES ASSUME KernelTypes, KernelLists, [Next]_vars PROVE KernelLists'
  OBVIOUS
<1>1. CASE UNCHANGED vars
  BY <1>1, ListsUnchanged DEF vars, tickVars
<1>2. CASE Next
  BY <1>2, TaskCallLists, ThreadLists, TickLists, BrokerLists DEF Next, Tick
<1>3. QED BY <1>1, <1>2

LEMMA KernelListsInvariant == Spec => [](KernelTypes /\ KernelLists)
BY KernelTypesInit, KernelTypesStep, KernelListsInit, KernelListsStep, PTL DEF Spec

(* Every TCB is in exactly the list its state names, however ticks, calls   *)
(* and the broker interleave.                                               *)
THEOREM OnePlaceAlways == Spec => []OnePlace
<1>1. KernelLists => OnePlace BY DEF KernelLists
<1>2. QED BY <1>1, KernelListsInvariant, PTL

(* A task parked by ICoreSwitchTask stays in the list its polls call for.   *)
THEOREM ParkedByPollsAlways == Spec => []ParkedByPolls
<1>1. KernelLists => ParkedByPolls BY DEF KernelLists
<1>2. QED BY <1>1, KernelListsInvariant, PTL

(* The broker's three nested iterations stay within their lists.            *)
THEOREM BrokerStaysInBounds == Spec => []BrokerInBounds
<1>1. KernelTypes /\ KernelLists => BrokerInBounds
  BY DEF KernelTypes, KernelLists, IdxInBounds, TodoInList, BrokerInBounds
<1>2. QED BY <1>1, KernelListsInvariant, PTL

(* No step but a dispatch takes a task from the ExecutionQueue, and nothing *)
(* but its head, or Idle, is dispatched.                                    *)
THEOREM DispatchedFromQueue == Spec => DispatchFromQueue
<1>1. ASSUME KernelTypes, KernelLists, [Next]_vars
      PROVE  /\ \A t \in Task : Queued(t) /\ ~Queued(t)' => running' = t
             /\ running' # running => Queued(running') \/ running' = Idle
  <2>1. CASE UNCHANGED <<queue, running>>
    BY <2>1 DEF Queued
  <2>2. CASE ICoreSwitchTask
    <3>1. CASE queue = << >>
      BY <2>2, <3>1 DEF ICoreSwitchTask, KSchedulerQueueTaskPop, Queued
    <3>2. CASE queue # << >>
      BY <1>1, <2>2, <3>2, PopProperties
      DEF ICoreSwitchTask, KSchedulerQueueTaskPop, KernelLists
    <3>3. QED BY <3>1, <3>2
  <2>3. ASSUME NEW t \in tcbList \cup waitList, UNCHANGED running,
               ISchedulerTaskAddDescendingPriority(t)
        PROVE  \A u : Queued(u) => Queued(u)'
    BY <1>1, <2>3, ActivationLists DEF KernelLists
  <2>4. CASE Broker
    <3>1. CASE BrokerAddressed
      BY <2>1, <2>3, <2>4, <3>1 DEF BrokerAddressed, KTcbFromId, brokerFrame
    <3>2. ASSUME NEW t \in Task, BrokerCompare(t)
          PROVE  running' = running /\ \A u : Queued(u) => Queued(u)'
      <4>1. stage # "queue" => t \in tcbList \cup waitList
        BY <1>1, <3>2 DEF BrokerCompare, KernelLists, TodoInList
      <4>2. CASE UNCHANGED queue
        BY <3>2, <4>2 DEF BrokerCompare, brokerFrame, Queued
      <4>3. CASE stage # "queue" /\ ISchedulerTaskAddDescendingPriority(t)
        BY <2>3, <3>2, <4>1, <4>3 DEF BrokerCompare, brokerFrame
      <4>4. QED BY <3>2, <4>2, <4>3 DEF BrokerCompare
    <3>3. CASE BrokerEvent \/ BrokerNextList \/ BrokerCleanup
      BY <2>1, <3>3 DEF BrokerEvent, BrokerNextList, BrokerCleanup, brokerFrame
    <3>4. QED BY <2>4, <3>1, <3>2, <3>3 DEF Broker
  <2>5. ASSUME NEW nested \in BOOLEAN, NEW locked \in BOOLEAN, OsTick(nested, locked)
        PROVE  ICoreSwitchTask \/ UNCHANGED <<queue, running>>
    BY <2>5 DEF OsTick, taskVars
  <2>6. ASSUME TaskCall \/ AnyCall \/ KernelTaskIdle
               \/ \E tc \in 0 .. TickPeriod : ICoreTickInvoke(tc)
        PROVE  UNCHANGED <<queue, running>>
    BY <2>6
    DEF TaskCall, AnyCall, KernelTaskIdle, ICoreTickInvoke, TaskPoll, TaskPollAdd,
        TaskPollRemove, TaskSleep, TaskCreate, TaskDelete, TaskPrioritySet, Lookup,
        Write, OsSchedulerLock, OsSchedulerUnlock, SetSchedulerLock, SetPolls,
        TaskResume, TaskNotify, Emit, EmitAtOnce, EmitBegin, taskVars
  <2>7. CASE UNCHANGED vars
    BY <2>1, <2>7 DEF vars, taskVars
  <2>8. QED BY <1>1, <2>1, <2>2, <2>4, <2>5, <2>6, <2>7 DEF Next, Tick
<1>2. QED BY <1>1, KernelListsInvariant, PTL DEF Spec, DispatchFromQueue
--------------------------------------------------------------------------------
(* One polled event per hash.                                                *)
OnePerHash(L) ==
  \A d, e \in Key : L[d] # None /\ L[e] # None /\ Hash[d] = Hash[e] => d = e

LEMMA RegisterOnePerHash ==
  ASSUME NEW L \in PollList, OnePerHash(L), NEW k \in Key, NEW perm \in BOOLEAN,
         NEW us \in LifeTime
  PROVE  OnePerHash(EventRegister(L, k, perm, us))
<1>1. CASE Find(L, k) # {}
  <2>1. \A e \in Key : EventRegister(L, k, perm, us)[e] # None => L[e] # None
    BY <1>1 DEF EventRegister, Find
  <2>2. QED BY <2>1 DEF OnePerHash
<1>2. CASE Find(L, k) = {}
  <2>1. \A e \in Key : L[e] # None => Hash[e] # Hash[k]
    BY <1>2 DEF Find
  <2>2. \A e \in Key : e # k => EventRegister(L, k, perm, us)[e] = L[e]
    BY <1>2 DEF EventRegister, PollList
  <2>3. QED BY <2>1, <2>2 DEF OnePerHash
<1>3. QED BY <1>1, <1>2

LEMMA FewerPollsOnePerHash ==
  ASSUME NEW L, NEW M, OnePerHash(L), \A e \in Key : M[e] # None => L[e] # None
  PROVE  OnePerHash(M)
BY DEF OnePerHash

LEMMA HandleOnePerHash ==
  ASSUME NEW L, NEW k, OnePerHash(L)
  PROVE  OnePerHash(ITaskEventHandle(L, k))
<1>1. \A e \in Key : ITaskEventHandle(L, k)[e] # None => L[e] # None
  BY DEF ITaskEventHandle, Find
<1>2. QED BY <1>1, FewerPollsOnePerHash

(* The parts of CopiesBounded.                                              *)
Adding == call # None /\ call.op = "add"

AtMostTwo ==
  \A i, j, l \in 1 .. Len(evs) :
    Hash[evs[i]] = Hash[evs[j]] /\ Hash[evs[j]] = Hash[evs[l]] => i = j \/ j = l \/ i = l

OneWhileAdding ==
  Adding => \A i, j \in 1 .. Len(evs) :
    Hash[evs[i]] = Hash[call.obj] /\ Hash[evs[j]] = Hash[call.obj] => i = j

EmittedHashes == AtMostTwo /\ OneWhileAdding

PolledHashes == \A t \in Task : OnePerHash(listen[t])

LEMMA HashParts == CopiesBounded <=> EmittedHashes /\ PolledHashes
BY DEF CopiesBounded, EmittedHashes, AtMostTwo, OneWhileAdding, Adding, PolledHashes,
       OnePerHash

LEMMA HashesKept ==
  ASSUME EmittedHashes, UNCHANGED evs, Adding' => UNCHANGED call
  PROVE  EmittedHashes'
BY DEF EmittedHashes, AtMostTwo, OneWhileAdding, Adding

LEMMA AddLast ==
  ASSUME KernelTypes, NEW k, AddEvent(k)
  PROVE  /\ Len(evs') = Len(evs) + 1 /\ Len(evs) \in Nat
         /\ \A i \in 1 .. Len(evs) : evs'[i] = evs[i]
         /\ evs'[Len(evs) + 1] = k
<1>1. evs' = Append(evs, k) BY DEF AddEvent
<1>2. evs \in Seq(Key) BY DEF KernelTypes, TypeOK
<1>3. QED BY <1>1, <1>2

(* An emission that nothing interrupts finds no event of its hash, or adds   *)
(* none.                                                                     *)
LEMMA EmitHashes ==
  ASSUME KernelTypes, EmittedHashes, NEW k \in Event \cup Task, EventEmit(k), UNCHANGED call
  PROVE  EmittedHashes'
<1>1. CASE InEventList(k)
  BY <1>1, HashesKept DEF EventEmit, ResetEvent
<1>2. CASE ~InEventList(k)
  <2>1. AddEvent(k) BY <1>2 DEF EventEmit
  <2>2. \A i \in 1 .. Len(evs) : Hash[evs[i]] # Hash[k] BY <1>2 DEF InEventList
  <2>3. AtMostTwo' BY <2>1, <2>2, AddLast DEF EmittedHashes, AtMostTwo
  <2>4. OneWhileAdding'
    BY <2>1, <2>2, AddLast DEF EmittedHashes, OneWhileAdding, Adding
  <2>5. QED BY <2>3, <2>4 DEF EmittedHashes
<1>3. QED BY <1>1, <1>2

(* One that has searched and is still to add has found none.                 *)
LEMMA SearchHashes ==
  ASSUME EmittedHashes, UNCHANGED evs, NEW k, NEW isr, call' = Emission(k, isr)
  PROVE  EmittedHashes'
<1>1. AtMostTwo' BY DEF EmittedHashes, AtMostTwo
<1>2. call'.obj = k /\ (call'.op = "add" => ~InEventList(k)) BY DEF Emission
<1>3. OneWhileAdding' BY <1>2 DEF OneWhileAdding, Adding, InEventList
<1>4. QED BY <1>1, <1>3 DEF EmittedHashes

LEMMA WriteHashes ==
  ASSUME KernelTypes, EmittedHashes, Write
  PROVE  EmittedHashes'
<1>1. ~Adding' BY DEF Write, Adding
<1>2. OneWhileAdding' BY <1>1 DEF OneWhileAdding
<1>3. CASE UNCHANGED evs BY <1>1, <1>3, HashesKept
<1>4. CASE call.op = "add" /\ AddEvent(call.obj)
  <2>1. Adding BY <1>4 DEF Adding, Write
  <2>2. \A i, j \in 1 .. Len(evs) :
          Hash[evs[i]] = Hash[call.obj] /\ Hash[evs[j]] = Hash[call.obj] => i = j
    BY <2>1 DEF EmittedHashes, OneWhileAdding
  <2>3. AtMostTwo' BY <1>4, <2>2, AddLast DEF EmittedHashes, AtMostTwo
  <2>4. QED BY <1>2, <2>3 DEF EmittedHashes
<1>5. QED BY <1>3, <1>4 DEF Write, ResetEvent, evVars

LEMMA CleanupHashes ==
  ASSUME KernelTypes, EmittedHashes, BrokerCleanup
  PROVE  EmittedHashes'
<1>0. Adding' => UNCHANGED call
  <2>1. CASE Expired(idx) /\ Resetting(idx)
    <3>1. call \in Call /\ call' = [call EXCEPT !.op = "stale"]
      BY <2>1 DEF BrokerCleanup, Resetting, KernelTypes, TypeOK
    <3>2. call'.op = "stale" BY <3>1 DEF Call
    <3>3. QED BY <3>2 DEF Adding
  <2>2. QED BY <2>1 DEF BrokerCleanup
<1>1. CASE Expired(idx)
  <2>1. evs \in Seq(Key) /\ idx \in 1 .. Len(evs) /\ evs' = RemoveAt(evs, idx)
    BY <1>1 DEF KernelTypes, TypeOK, IdxInBounds, BrokerCleanup
  <2>2. /\ Len(evs') = Len(evs) - 1 /\ Len(evs) \in Nat
        /\ \A j \in 1 .. Len(evs) - 1 :
             evs'[j] = IF j < idx THEN evs[j] ELSE evs[j + 1]
    BY <2>1, RemoveAtProperties
  <2> DEFINE Old(j) == IF j < idx THEN j ELSE j + 1
  <2>5. \A j \in 1 .. Len(evs') : Old(j) \in 1 .. Len(evs) /\ evs'[j] = evs[Old(j)]
    BY <2>1, <2>2
  <2>6. \A i, j \in 1 .. Len(evs') : Old(i) = Old(j) => i = j
    BY <2>1, <2>2
  <2> HIDE DEF Old
  <2>3. AtMostTwo' BY ONLY EmittedHashes, <2>5, <2>6 DEF EmittedHashes, AtMostTwo
  <2>4. OneWhileAdding'
    BY ONLY EmittedHashes, <1>0, <2>5, <2>6
    DEF EmittedHashes, OneWhileAdding, Adding
  <2>7. QED BY <2>3, <2>4 DEF EmittedHashes
<1>2. CASE ~Expired(idx)
  BY <1>0, <1>2, HashesKept DEF BrokerCleanup
<1>3. QED BY <1>1, <1>2

LEMMA SetPollsHashes ==
  ASSUME KernelTypes, PolledHashes, NEW L, OnePerHash(L), SetPolls(L)
  PROVE  PolledHashes'
BY DEF SetPolls, PolledHashes, KernelTypes, TypeOK

LEMMA HashStep ==
  ASSUME KernelTypes, EmittedHashes, PolledHashes, [Next]_vars
  PROVE  EmittedHashes' /\ PolledHashes'
<1>0. /\ listen[running] \in PollList /\ OnePerHash(listen[running])
      /\ Event \cup {Sleep} \subseteq Key /\ Task \subseteq Key
  BY DEF KernelTypes, TypeOK, PollList, PolledHashes, Key
<1>1. ASSUME UNCHANGED <<evs, listen>>, Adding' => UNCHANGED call
      PROVE  EmittedHashes' /\ PolledHashes'
  BY <1>1, HashesKept DEF PolledHashes
<1>2. ASSUME NEW L, OnePerHash(L), SetPolls(L)
      PROVE  EmittedHashes' /\ PolledHashes'
  BY <1>2, SetPollsHashes, HashesKept DEF SetPolls, evVars
<1>3. ASSUME NEW k \in Key, NEW ms \in Timeout \cup {Inf}, NEW add \in BOOLEAN,
             TaskPoll(k, ms, add)
      PROVE  EmittedHashes' /\ PolledHashes'
  <2> DEFINE handled == ITaskEventHandle(listen[running], k)
  <2>1. PICK us \in ConvertMsToUs(ms) :
          SetPolls(IF add THEN EventRegister(handled, k, FALSE, us) ELSE handled)
    BY <1>3 DEF TaskPoll
  <2>2. handled \in PollList /\ OnePerHash(handled) /\ us \in LifeTime
    BY <1>0, ITaskEventHandleType, HandleOnePerHash, ConvertType
  <2>3. OnePerHash(EventRegister(handled, k, FALSE, us))
    BY <2>2, RegisterOnePerHash
  <2>4. QED BY <1>2, <2>1, <2>2, <2>3
<1>4. ASSUME NEW k \in Event, NEW ms \in Timeout \cup {Inf}, TaskPollAdd(k, ms)
      PROVE  EmittedHashes' /\ PolledHashes'
  <2>1. PICK us \in ConvertMsToUs(ms) :
          SetPolls(EventRegister(listen[running], k, TRUE, us))
    BY <1>4 DEF TaskPollAdd
  <2>2. OnePerHash(EventRegister(listen[running], k, TRUE, us))
    BY <1>0, ConvertType, RegisterOnePerHash
  <2>3. QED BY <1>2, <2>1, <2>2
<1>5. ASSUME NEW k, TaskPollRemove(k) PROVE EmittedHashes' /\ PolledHashes'
  <2> DEFINE M == [e \in Key |-> IF e \in Find(listen[running], k)
                                 THEN None ELSE listen[running][e]]
  <2>1. OnePerHash(M) BY <1>0, FewerPollsOnePerHash
  <2>2. SetPolls(M) BY <1>5 DEF TaskPollRemove
  <2>3. QED BY <1>2, <2>1, <2>2
<1>6. ASSUME NEW t \in Task, NEW start \in BOOLEAN, TaskCreate(t, start)
      PROVE  EmittedHashes' /\ PolledHashes'
  <2>1. PolledHashes' BY <1>6 DEF TaskCreate, PolledHashes
  <2>2. UNCHANGED evs BY <1>6 DEF TaskCreate, evVars
  <2>3. CASE start BY <1>6, <2>1, <2>2, <2>3, SearchHashes DEF TaskCreate
  <2>4. CASE ~start BY <1>6, <2>1, <2>2, <2>4, HashesKept DEF TaskCreate, Adding
  <2>5. QED BY <2>3, <2>4
<1>7. CASE AnyCall
  <2>1. ASSUME NEW k \in Event \cup Task, EmitAtOnce(k)
        PROVE  EmittedHashes' /\ PolledHashes'
    BY <2>1, EmitHashes DEF EmitAtOnce, PolledHashes
  <2>2. ASSUME NEW k, NEW isr, EmitBegin(k, isr) PROVE EmittedHashes' /\ PolledHashes'
    BY <2>2, SearchHashes DEF EmitBegin, PolledHashes, evVars
  <2>3. QED
    BY <1>7, <2>1, <2>2, TaskAssumption DEF AnyCall, TaskResume, TaskNotify, Emit
<1>8. CASE TaskCall
  <2>1. ASSUME NEW op \in {"delete", "priority"}, NEW t, NEW arg, Lookup(op, t, arg)
        PROVE  EmittedHashes' /\ PolledHashes'
    <3>1. ~Adding' BY <2>1 DEF Lookup, Adding
    <3>2. QED BY <1>1, <2>1, <3>1 DEF Lookup, evVars
  <2>4. CASE OsSchedulerLock \/ OsSchedulerUnlock
    BY <1>1, <2>4 DEF OsSchedulerLock, OsSchedulerUnlock, SetSchedulerLock, evVars
  <2>5. CASE Write
    BY <2>5, WriteHashes DEF Write, PolledHashes
  <2>2. ASSUME NEW ms \in Timeout, TaskSleep(ms) PROVE EmittedHashes' /\ PolledHashes'
    BY <1>0, <1>3, <2>2 DEF TaskSleep
  <2>3. QED
    BY <1>0, <1>3, <1>4, <1>5, <1>6, <1>8, <2>1, <2>2, <2>4, <2>5
    DEF TaskCall, TaskDelete, TaskPrioritySet
<1>9. ASSUME Tick \/ KernelTaskIdle \/ UNCHANGED vars
             \/ \E tc \in 0 .. TickPeriod : ICoreTickInvoke(tc)
      PROVE  EmittedHashes' /\ PolledHashes'
  BY <1>1, <1>9 DEF Tick, OsTick, KernelTaskIdle, ICoreTickInvoke, vars, evVars
<1>10. CASE Broker
  <2>1. CASE BrokerAddressed \/ BrokerEvent \/ BrokerNextList
    BY <1>1, <2>1 DEF BrokerAddressed, BrokerEvent, BrokerNextList, evVars, brokerFrame
  <2>2. CASE BrokerCleanup
    BY <2>2, CleanupHashes DEF BrokerCleanup, PolledHashes
  <2>3. ASSUME NEW t \in Task, BrokerCompare(t) PROVE EmittedHashes' /\ PolledHashes'
    <3> DEFINE L == ISchedulerTaskEventsCompare(listen[t], evs[idx], Last)
    <3>1. \A k \in Key : L[k] # None => listen[t][k] # None
      BY DEF ISchedulerTaskEventsCompare
    <3>2. OnePerHash(L) BY <3>1, FewerPollsOnePerHash DEF PolledHashes
    <3>3. \A u \in Task : listen'[u] = IF u = t THEN L ELSE listen[u]
      BY <2>3 DEF BrokerCompare, KernelTypes, TypeOK
    <3>4. UNCHANGED <<evs, call>> BY <2>3 DEF BrokerCompare, evVars, brokerFrame
    <3>5. QED BY <3>2, <3>3, <3>4, HashesKept DEF PolledHashes
  <2>4. QED BY <1>10, <2>1, <2>2, <2>3 DEF Broker
<1>11. QED BY <1>7, <1>8, <1>9, <1>10 DEF Next

(* Whatever the hash function, and however a tick or an interrupt comes in   *)
(* between the search of EventList and the addition of the event, EventList  *)
(* holds at most two events of one hash; a task polls one.                   *)
THEOREM CopiesAlwaysBounded == Spec => []CopiesBounded
<1>1. Init => EmittedHashes /\ PolledHashes
  BY DEF Init, EmittedHashes, AtMostTwo, OneWhileAdding, Adding, PolledHashes,
         OnePerHash, NoPolls
<1>2. KernelTypes /\ EmittedHashes /\ PolledHashes /\ [Next]_vars
      => EmittedHashes' /\ PolledHashes'
  BY HashStep
<1>3. QED BY <1>1, <1>2, HashParts, KernelTypesInvariant, PTL DEF Spec

(* What the broker has still to do for the event it is at.  A task other     *)
(* than the running one that polls it has been told, or is in a list that    *)
(* will be compared later in this cycle.                                     *)
Seen(t) == listen[t][evs[idx]] # None => listen[t][evs[idx]].occ

Pending(t) ==
  /\ phase = "compare"
  /\ \/ stage = "wait" /\ (t \in todo \/ t \in tcbList \/ Queued(t))
     \/ stage = "list" /\ Queued(t)
     \/ stage = "queue" /\ t \in todo

AllSeen ==
  phase \in {"compare", "cleanup"} /\ evs[idx] \in Event =>
    \A t \in Task : t = running \/ Seen(t) \/ Pending(t)

LEMMA CompareTells ==
  ASSUME NEW L \in PollList, NEW e \in Key, NEW last,
         ISchedulerTaskEventsCompare(L, e, last)[e] # None
  PROVE  ISchedulerTaskEventsCompare(L, e, last)[e].occ
<1>1. L[e] # None BY DEF ISchedulerTaskEventsCompare
<1>2. L[e] \in Polled BY <1>1 DEF PollList
<1>3. ISchedulerTaskEventsCompare(L, e, last)[e]
        = [L[e] EXCEPT !.occ = TRUE, !.tout = FALSE, !.cnt = 0]
  BY <1>1 DEF ISchedulerTaskEventsCompare
<1>4. [L[e] EXCEPT !.occ = TRUE, !.tout = FALSE, !.cnt = 0].occ
  BY <1>2 DEF Polled
<1>5. QED BY <1>3, <1>4

LEMMA AllSeenStep ==
  ASSUME KernelTypes, KernelLists, AllSeen, [Next]_vars
  PROVE  AllSeen'
<1>0. \A t \in Task : ~Listening(t) /\ evs[idx] \in Event => Seen(t)
  BY DEF Listening, Seen, Key
<1>1. CASE BrokerEvent
  <2>1. SUFFICES ASSUME evs[idx] \in Event, NEW t \in Task, t # running
                 PROVE  Seen(t)' \/ Pending(t)'
    BY <1>1 DEF BrokerEvent, brokerFrame, evVars, AllSeen
  <2>2. \/ t \in waitList \/ t \in tcbList \/ Queued(t) \/ ~Listening(t)
    BY <2>1 DEF KernelTypes, TypeOK, States, KernelLists, OnePlace, UnparkedPolls
  <2>3. CASE ~Listening(t)
    BY <1>0, <1>1, <2>1, <2>3 DEF BrokerEvent, evVars, Seen
  <2>4. QED
    BY <1>1, <2>2, <2>3 DEF BrokerEvent, TasksOf, Pending, Queued
<1>2. CASE BrokerAddressed
  <2>1. evs'[idx'] \notin Event
    BY <1>2, KeyAssumption DEF BrokerAddressed, evVars
  <2>2. QED BY <2>1 DEF AllSeen
<1>3. ASSUME NEW t \in Task, BrokerCompare(t) PROVE AllSeen'
  <2> DEFINE L == ISchedulerTaskEventsCompare(listen[t], evs[idx], Last)
  <2>1. /\ phase = "compare" /\ t \in todo /\ todo' = todo \ {t}
        /\ UNCHANGED <<phase, stage, running, evs, idx>>
    BY <1>3 DEF BrokerCompare, brokerFrame, evVars
  <2>2. SUFFICES ASSUME evs[idx] \in Event, NEW u \in Task, u # running
                 PROVE  Seen(u)' \/ Pending(u)'
    BY <2>1 DEF AllSeen
  <2>3. \A v \in Task : listen'[v] = IF v = t THEN L ELSE listen[v]
    BY <1>3 DEF BrokerCompare, KernelTypes, TypeOK
  <2>4. CASE u = t
    <3>1. listen[t] \in PollList /\ evs[idx] \in Key
      BY <2>2 DEF KernelTypes, TypeOK, PollList, Key
    <3>2. L[evs[idx]] # None => L[evs[idx]].occ
      BY <3>1, CompareTells
    <3>3. QED BY <2>1, <2>3, <2>4, <3>2 DEF Seen
  <2>5. CASE u # t
    <3>1. Seen(u)' <=> Seen(u) BY <2>1, <2>3, <2>5 DEF Seen
    <3>2. /\ Queued(u) => Queued(u)'
          /\ u \in tcbList => u \in tcbList'
      <4>1. CASE UNCHANGED <<tcbList, queue>> BY <4>1 DEF Queued
      <4>2. CASE stage # "queue" /\ ISchedulerTaskAddDescendingPriority(t)
        <5>1. t \in tcbList \cup waitList
          BY <2>1, <4>2 DEF KernelLists, TodoInList
        <5>2. QED BY <2>1, <2>5, <4>2, <5>1, ActivationLists DEF KernelLists
      <4>3. QED BY <1>3, <4>1, <4>2 DEF BrokerCompare
    <3>3. Seen(u) \/ Pending(u) BY <2>1, <2>2 DEF AllSeen
    <3>4. QED BY <2>1, <2>5, <3>1, <3>2, <3>3 DEF Pending
  <2>6. QED BY <2>4, <2>5
<1>4. CASE BrokerNextList
  <2>1. /\ phase = "compare" /\ todo = {}
        /\ UNCHANGED <<running, tcbList, waitList, queue, listen, evs, idx>>
    BY <1>4 DEF BrokerNextList, brokerFrame, evVars
  <2>2. SUFFICES ASSUME evs[idx] \in Event, NEW t \in Task, t # running
                 PROVE  Seen(t)' \/ Pending(t)'
    BY <2>1 DEF AllSeen
  <2>3. (Seen(t)' <=> Seen(t)) /\ (Queued(t)' <=> Queued(t))
    BY <2>1 DEF Seen, Queued
  <2>4. Seen(t) \/ Pending(t) BY <2>1, <2>2 DEF AllSeen
  <2>5. t \in tcbList => Seen(t)
    BY <1>0, <2>2 DEF KernelLists, ParkedByPolls
  <2>6. QED
    BY <1>4, <2>1, <2>3, <2>4, <2>5 DEF BrokerNextList, Pending, TasksOf
<1>5. ASSUME phase' \notin {"compare", "cleanup"} PROVE AllSeen'
  BY <1>5 DEF AllSeen
<1>6. CASE BrokerCleanup
  BY <1>5, <1>6 DEF BrokerCleanup
<1>7. CASE UNCHANGED vars
  <2>1. \A t : (Seen(t)' <=> Seen(t)) /\ (Pending(t)' <=> Pending(t))
    BY <1>7 DEF vars, taskVars, evVars, tickVars, Seen, Pending, Queued
  <2>2. QED BY <1>7, <2>1 DEF vars, taskVars, evVars, tickVars, AllSeen
<1>8. ASSUME Tick \/ AnyCall \/ TaskCall \/ KernelTaskIdle
             \/ \E tc \in 0 .. TickPeriod : ICoreTickInvoke(tc)
      PROVE  phase' \in {"thread", "event"}
  BY <1>8
  DEF Tick, OsTick, TaskCall, AnyCall, KernelTaskIdle, ICoreTickInvoke, TaskPoll,
      TaskPollAdd, TaskPollRemove, TaskSleep, TaskCreate, TaskDelete,
      TaskPrioritySet, Lookup, Write, OsSchedulerLock, OsSchedulerUnlock,
      SetSchedulerLock, SetPolls, TaskResume, TaskNotify, Emit, EmitAtOnce, EmitBegin, InTask, tickVars
<1>9. QED BY <1>1, <1>2, <1>3, <1>4, <1>5, <1>6, <1>7, <1>8 DEF Next, Broker

(* An ordinary event is destroyed only when every parked or queued task that *)
(* polls it has been told: the order in which the broker takes the three     *)
(* lists loses no task, although it moves tasks between them meanwhile.      *)
THEOREM NoUnseenExpiryAlways == Spec => NoUnseenExpiry
<1>1. Init => AllSeen BY DEF Init, AllSeen
<1>2. KernelTypes /\ KernelLists /\ AllSeen /\ [Next]_vars => AllSeen'
  BY AllSeenStep
<1>3. ASSUME KernelTypes, AllSeen, [Next]_vars,
             NEW i \in 1 .. Len(evs), evs[i] \in Event, Len(evs') < Len(evs),
             i = idx, NEW t \in Task, listen[t][evs[i]] # None, t # running
      PROVE  listen[t][evs[i]].occ
  <2>1. ASSUME NEW k, AddEvent(k) PROVE FALSE
    <3>1. evs' = Append(evs, k) BY <2>1 DEF AddEvent
    <3>2. evs \in Seq(Key) BY <1>3 DEF KernelTypes, TypeOK
    <3>3. QED BY <1>3, <3>1, <3>2
  <2>2. evs' # evs BY <1>3
  <2>3. BrokerCleanup
    BY <1>3, <2>1, <2>2
    DEF Next, Tick, OsTick, TaskCall, AnyCall, KernelTaskIdle, ICoreTickInvoke,
        TaskPoll, TaskPollAdd, TaskPollRemove, TaskSleep, TaskCreate, TaskDelete,
        TaskPrioritySet, Lookup, Write, OsSchedulerLock, OsSchedulerUnlock,
        SetSchedulerLock, SetPolls, TaskResume, TaskNotify, Emit, EmitAtOnce,
        EmitBegin, EventEmit, ResetEvent, Broker,
        BrokerAddressed, BrokerEvent, BrokerCompare, BrokerNextList, vars, evVars
  <2>4. phase = "cleanup" BY <2>3 DEF BrokerCleanup
  <2>5. Seen(t) BY <1>3, <2>4 DEF AllSeen, Pending
  <2>6. QED BY <1>3, <2>5 DEF Seen
<1>4. KernelTypes /\ AllSeen /\ [Next]_vars =>
        [\A i \in 1 .. Len(evs) :
           evs[i] \in Event /\ Len(evs') < Len(evs) /\ i = idx =>
             \A t \in Task : listen[t][evs[i]] # None /\ t # running =>
               listen[t][evs[i]].occ]_vars
  BY <1>3
<1>5. QED BY <1>1, <1>2, <1>4, KernelListsInvariant, PTL DEF Spec, NoUnseenExpiry

LEMMA PriorityNat ==
  ASSUME KernelTypes, NEW u \in Task
  PROVE  prio[u] \in Nat
<1>1. prio \in [Task -> 0 .. 24] BY DEF KernelTypes, TypeOK
<1>2. prio[u] \in 0 .. 24 BY <1>1
<1>3. QED BY <1>2

LEMMA QueueTypes == KernelTypes => queue \in Seq(Task) /\ Len(queue) \in Nat
<1>1. KernelTypes => queue \in Seq(Task) BY DEF KernelTypes, TypeOK
<1>2. QED BY <1>1

LEMMA InsertionSorted ==
  ASSUME KernelTypes, QueueSorted, NEW t \in Task,
         ISchedulerTaskAddDescendingPriority(t), UNCHANGED prio
  PROVE  QueueSorted'
<1>0. queue \in Seq(Task) /\ Len(queue) \in Nat
  BY QueueTypes
<1>1. PICK i \in 1 .. Len(queue) + 1 :
        InsertionPoint(t, i) /\ queue' = InsertAt(queue, i, t)
  BY DEF ISchedulerTaskAddDescendingPriority
<1>2. /\ Len(queue') = Len(queue) + 1
      /\ \A j \in 1 .. Len(queue) + 1 :
           queue'[j] = IF j < i THEN queue[j] ELSE IF j = i THEN t ELSE queue[j - 1]
  BY <1>1, QueueInsertion
<1>3. \A j \in 1 .. Len(queue) : prio[queue[j]] \in Nat
  <2>1. \A j \in 1 .. Len(queue) : queue[j] \in Task BY <1>0
  <2>2. QED BY <2>1, PriorityNat
<1>4. \A j \in 1 .. Len(queue) : j < i => prio[t] <= prio[queue[j]]
  BY <1>1, <1>0 DEF InsertionPoint
<1>5. \A j \in 1 .. Len(queue) : j >= i => prio[t] >= prio[queue[j]]
  <2>1. SUFFICES ASSUME NEW j \in 1 .. Len(queue), j >= i
                 PROVE  prio[t] >= prio[queue[j]]
    OBVIOUS
  <2>2. i \in 1 .. Len(queue) /\ prio[t] > prio[queue[i]]
    BY <1>0, <1>1, <2>1 DEF InsertionPoint
  <2>3. i = j \/ prio[queue[i]] >= prio[queue[j]]
    BY <2>1, <2>2 DEF QueueSorted
  <2>4. prio[t] \in Nat BY PriorityNat
  <2>5. prio[queue[i]] \in Nat /\ prio[queue[j]] \in Nat
    BY <1>3, <2>1, <2>2
  <2>6. QED BY <2>2, <2>3, <2>4, <2>5
<1>6. ASSUME NEW j \in 1 .. Len(queue'), NEW l \in 1 .. Len(queue'), j < l
      PROVE  prio[queue'[j]] >= prio[queue'[l]]
  <2>1. CASE l < i
    BY <1>0, <1>2, <1>6, <2>1 DEF QueueSorted
  <2>2. CASE l = i
    BY <1>0, <1>2, <1>3, <1>4, <1>6, <2>2
  <2>3. CASE j < i /\ l > i
    BY <1>0, <1>2, <1>6, <2>3 DEF QueueSorted
  <2>4. CASE j = i
    BY <1>0, <1>2, <1>5, <1>6, <2>4
  <2>5. CASE j > i
    BY <1>0, <1>2, <1>6, <2>5 DEF QueueSorted
  <2>6. QED BY <1>0, <1>2, <1>6, <2>1, <2>2, <2>3, <2>4, <2>5
<1>7. QED BY <1>6 DEF QueueSorted

LEMMA QueueSortedStep ==
  ASSUME NewMinor = {}, KernelTypes, KernelLists, QueueSorted, [Next]_vars
  PROVE  QueueSorted'
<1>0. queue \in Seq(Task) /\ Len(queue) \in Nat
  BY QueueTypes
<1>1. CASE UNCHANGED <<queue, prio>>
  BY <1>1 DEF QueueSorted
<1>2. ASSUME NEW t \in Task, ISchedulerTaskAddDescendingPriority(t), UNCHANGED prio
      PROVE  QueueSorted'
  BY <1>2, InsertionSorted
<1>3. CASE Tick
  <2>1. UNCHANGED prio BY <1>3 DEF Tick, OsTick
  <2>2. CASE ICoreSwitchTask
    <3>1. queue' = queue \/ (queue # << >> /\ queue' = Tail(queue))
      BY <2>2 DEF ICoreSwitchTask, KSchedulerQueueTaskPop
    <3>2. CASE queue # << >> /\ queue' = Tail(queue)
      <4>1. /\ Len(queue') = Len(queue) - 1
            /\ \A j \in 1 .. Len(queue) - 1 : queue'[j] = queue[j + 1]
        BY <1>0, <3>2, TailProperties
      <4>2. QED BY <1>0, <2>1, <4>1 DEF QueueSorted
    <3>3. QED BY <1>1, <2>1, <3>1, <3>2
  <2>3. QED BY <1>1, <1>3, <2>1, <2>2 DEF Tick, OsTick, taskVars
<1>4. CASE Broker
  <2>1. UNCHANGED prio
    BY <1>4 DEF Broker, BrokerAddressed, BrokerEvent, BrokerCompare, BrokerNextList,
                BrokerCleanup, brokerFrame
  <2>2. UNCHANGED queue \/ \E t \in Task : ISchedulerTaskAddDescendingPriority(t)
    BY <1>4 DEF Broker, BrokerAddressed, BrokerEvent, BrokerCompare, BrokerNextList,
                BrokerCleanup
  <2>3. QED BY <1>1, <1>2, <2>1, <2>2
<1>5. ASSUME NEW t \in Task, NEW start \in BOOLEAN, TaskCreate(t, start)
      PROVE  QueueSorted'
  <2>1. ~Queued(t) BY <1>5 DEF TaskCreate, KernelLists, OnePlace
  <2>2. \A j \in 1 .. Len(queue) : prio'[queue[j]] = prio[queue[j]]
    BY <1>0, <1>5, <2>1 DEF TaskCreate, Queued
  <2>3. queue' = queue BY <1>5 DEF TaskCreate
  <2>4. QED BY <2>2, <2>3 DEF QueueSorted
<1>6. CASE Write
  <2>1. UNCHANGED prio
    <3>1. call \in Call BY <1>6 DEF Write, KernelTypes, TypeOK
    <3>2. call.op # "priority" BY <3>1, CallFields
    <3>3. QED BY <1>6, <3>2 DEF Write
  <2>2. QED BY <1>1, <1>6, <2>1 DEF Write, taskVars
<1>7. ASSUME TaskCall \/ AnyCall \/ KernelTaskIdle
             \/ \E tc \in 0 .. TickPeriod : ICoreTickInvoke(tc)
      PROVE  \/ UNCHANGED <<queue, prio>> \/ Write
             \/ \E t \in Task, start \in BOOLEAN : TaskCreate(t, start)
  BY <1>7
  DEF TaskCall, AnyCall, KernelTaskIdle, ICoreTickInvoke, TaskPoll, TaskPollAdd,
      TaskPollRemove, TaskSleep, TaskDelete, TaskPrioritySet, Lookup,
      OsSchedulerLock, OsSchedulerUnlock, SetSchedulerLock, SetPolls,
      TaskResume, TaskNotify, Emit, EmitAtOnce, EmitBegin, taskVars
<1>8. CASE UNCHANGED vars
  BY <1>1, <1>8 DEF vars, taskVars
<1>9. QED BY <1>1, <1>3, <1>4, <1>5, <1>6, <1>7, <1>8 DEF Next

(* Without TaskPrioritySet the ExecutionQueue stays in priority order;       *)
(* TaskPrioritySet of a queued task changes its key and leaves it in place.  *)
THEOREM QueueSortedAlways ==
  ASSUME NewMinor = {}
  PROVE  Spec => []QueueSorted
<1>1. Init => QueueSorted BY DEF Init, QueueSorted
<1>2. KernelTypes /\ KernelLists /\ QueueSorted /\ [Next]_vars => QueueSorted'
  BY QueueSortedStep
<1>3. QED BY <1>1, <1>2, KernelListsInvariant, PTL DEF Spec
================================================================================
