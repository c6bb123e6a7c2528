---------------------------- MODULE KernelAgeProofs ----------------------------
(* Proof that a timeout is never missed (NotLate): the broker counts every   *)
(* delta down on the polls of all the tasks but the running one, though it   *)
(* does so in the comparison with the last event only, list after list,      *)
(* while it moves tasks between the lists.                                   *)
EXTENDS KernelAge, KernelProofs

(* The polls whose time runs: neither occurred nor timed out.                *)
Counting(r) == r # None /\ ~r.occ /\ ~r.tout /\ r.life # Inf

(* Task t has had the delta of this broker cycle counted, or does not get    *)
(* it: the comparison with the last event is past t.                         *)
Charged(t) ==
  \/ t = running
  \/ phase = "thread"
  \/ /\ Last
     /\ \/ phase = "cleanup"
        \/ /\ phase = "compare"
           /\ \/ stage = "wait" /\ t \in waitList \ todo
              \/ stage \in {"list", "queue"} /\ t \in waitList
              \/ stage = "queue" /\ Queued(t) /\ t \notin todo

(* The clock of a poll is not ahead of its counter, or ahead by the delta    *)
(* that the broker is still to count.                                        *)
Behind(t, k) ==
  Counting(listen[t][k]) =>
    /\ listen[t][k].cnt < listen[t][k].life
    /\ age[t][k] <= listen[t][k].cnt + (IF Charged(t) THEN 0 ELSE delta)

AgeInv ==
  /\ age \in [Task -> [Key -> Nat]]
  /\ \A t \in Task, k \in Key : Behind(t, k)

LEMMA CountingFields ==
  ASSUME NEW r \in Polled \cup {None}, Counting(r)
  PROVE  r \in Polled /\ r.cnt \in Nat /\ r.life \in Nat \ {0} /\ ~r.tout
<1>1. r \in Polled /\ r.life # Inf /\ ~r.tout BY DEF Counting
<1>2. r.life \in LifeTime /\ r.cnt \in 0 .. MaxLag BY <1>1, PolledFields
<1>3. r.life \in 1 .. MaxLag BY ONLY <1>1, <1>2, TimeAssumption DEF LifeTime
<1>4. r.cnt \in Nat /\ r.life \in Nat \ {0} BY ONLY <1>2, <1>3, TimeAssumption
<1>5. QED BY ONLY <1>1, <1>4

(* A call of the running task leaves a poll alone, ends it or resets it.     *)
Reset(L, M) == \A e \in Key : M[e] = L[e] \/ ~Counting(M[e]) \/ M[e].cnt = 0

LEMMA RegisterResets ==
  ASSUME NEW L \in PollList, NEW k \in Key, NEW perm \in BOOLEAN, NEW us \in LifeTime
  PROVE  Reset(L, EventRegister(L, k, perm, us))
<1> DEFINE M == EventRegister(L, k, perm, us)
           new == [life |-> us, cnt |-> 0, occ |-> FALSE, tout |-> FALSE, perm |-> perm]
<1>1. \A e \in Find(L, k) : L[e] \in Polled BY DEF Find, PollList
<1>2. \A e \in Find(L, k) : [L[e] EXCEPT !.cnt = 0].cnt = 0
  BY <1>1 DEF Polled
<1>3. new.cnt = 0 OBVIOUS
<1>4. SUFFICES ASSUME NEW e \in Key PROVE M[e] = L[e] \/ M[e].cnt = 0
  BY DEF Reset
<1>5. M[e] = L[e] \/ (e \in Find(L, k) /\ M[e] = [L[e] EXCEPT !.cnt = 0]) \/ M[e] = new
  BY DEF EventRegister, PollList
<1>6. QED BY <1>2, <1>3, <1>5

LEMMA HandleResets ==
  ASSUME NEW L \in PollList, NEW k \in Key
  PROVE  Reset(L, ITaskEventHandle(L, k))
<1> DEFINE M == ITaskEventHandle(L, k)
<1>1. \A e \in Find(L, k) : L[e] \in Polled BY DEF Find, PollList
<1>2. \A e \in Find(L, k) : [L[e] EXCEPT !.occ = FALSE, !.tout = FALSE, !.cnt = 0].cnt = 0
  BY <1>1 DEF Polled
<1>3. SUFFICES ASSUME NEW e \in Key PROVE M[e] = L[e] \/ M[e] = None \/ M[e].cnt = 0
  BY DEF Reset, Counting
<1>4. \/ M[e] = L[e] \/ M[e] = None
      \/ /\ e \in Find(L, k)
         /\ M[e] = [L[e] EXCEPT !.occ = FALSE, !.tout = FALSE, !.cnt = 0]
  BY DEF ITaskEventHandle
<1>5. QED BY <1>2, <1>4

LEMMA ResetTwice ==
  ASSUME NEW L, NEW M, NEW N, Reset(L, M), Reset(M, N)
  PROVE  Reset(L, N)
BY DEF Reset

LEMMA SetPollsResets ==
  ASSUME KernelTypes, NEW L, Reset(listen[running], L), SetPolls(L)
  PROVE  \A t \in Task : Reset(listen[t], listen'[t])
BY DEF SetPolls, KernelTypes, TypeOK, Reset

LEMMA TaskCallResets ==
  ASSUME KernelTypes, TaskCall
  PROVE  \A t \in Task : Reset(listen[t], listen'[t])
<1>0. /\ listen[running] \in PollList
      /\ Event \cup {Sleep} \subseteq Key /\ Sleep \in Key
  BY DEF KernelTypes, TypeOK, PollList, Key
<1>1. ASSUME NEW k \in Key, NEW ms \in Timeout \cup {Inf}, NEW add \in BOOLEAN,
             TaskPoll(k, ms, add)
      PROVE  \A t \in Task : Reset(listen[t], listen'[t])
  <2> DEFINE handled == ITaskEventHandle(listen[running], k)
  <2>1. PICK us \in ConvertMsToUs(ms) :
          SetPolls(IF add THEN EventRegister(handled, k, FALSE, us) ELSE handled)
    BY <1>1 DEF TaskPoll
  <2>2. handled \in PollList /\ Reset(listen[running], handled) /\ us \in LifeTime
    BY <1>0, ITaskEventHandleType, HandleResets, ConvertType
  <2>3. Reset(listen[running], EventRegister(handled, k, FALSE, us))
    <3>1. Reset(handled, EventRegister(handled, k, FALSE, us))
      BY <2>2, RegisterResets
    <3> HIDE DEF handled
    <3>2. QED BY <2>2, <3>1, ResetTwice
  <2> HIDE DEF handled
  <2>4. CASE add BY <2>1, <2>3, <2>4, SetPollsResets
  <2>5. CASE ~add BY <2>1, <2>2, <2>5, SetPollsResets
  <2>6. QED BY <2>4, <2>5
<1>2. ASSUME NEW k \in Event, NEW ms \in Timeout \cup {Inf}, TaskPollAdd(k, ms)
      PROVE  \A t \in Task : Reset(listen[t], listen'[t])
  <2>1. PICK us \in ConvertMsToUs(ms) :
          SetPolls(EventRegister(listen[running], k, TRUE, us))
    BY <1>2 DEF TaskPollAdd
  <2>2. Reset(listen[running], EventRegister(listen[running], k, TRUE, us))
    BY <1>0, ConvertType, RegisterResets
  <2>3. QED BY <2>1, <2>2, SetPollsResets
<1>3. ASSUME NEW k, TaskPollRemove(k)
      PROVE  \A t \in Task : Reset(listen[t], listen'[t])
  <2> DEFINE M == [e \in Key |-> IF e \in Find(listen[running], k)
                                 THEN None ELSE listen[running][e]]
  <2>1. Reset(listen[running], M) BY DEF Reset, Counting
  <2>2. SetPolls(M) BY <1>3 DEF TaskPollRemove
  <2>3. QED BY <2>1, <2>2, SetPollsResets
<1>4. ASSUME UNCHANGED listen PROVE \A t \in Task : Reset(listen[t], listen'[t])
  BY <1>4 DEF Reset
<1>5. ASSUME \/ \E t \in Task, start \in BOOLEAN : TaskCreate(t, start)
             \/ \E t \in Deletable : TaskDelete(t)
             \/ \E t \in Known, mi \in NewMinor : TaskPrioritySet(t, mi)
             \/ Write \/ OsSchedulerLock \/ OsSchedulerUnlock
      PROVE  UNCHANGED listen
  BY <1>5
  DEF TaskCreate, TaskDelete, TaskPrioritySet, Lookup, Write, OsSchedulerLock,
      OsSchedulerUnlock, SetSchedulerLock
<1>6. ASSUME NEW ms \in Timeout, TaskSleep(ms)
      PROVE  \A t \in Task : Reset(listen[t], listen'[t])
  BY <1>0, <1>1, <1>6 DEF TaskSleep
<1>7. QED BY <1>0, <1>1, <1>2, <1>3, <1>4, <1>5, <1>6 DEF TaskCall

(* A comparison counts the delta with the last event, and only then; a poll  *)
(* that counts after it has counted before it.                               *)
LEMMA CompareCounts ==
  ASSUME NEW L \in PollList, NEW e, NEW last \in BOOLEAN, NEW k \in Key,
         delta \in 0 .. MaxLag,
         Counting(ISchedulerTaskEventsCompare(L, e, last)[k])
  PROVE  LET r == ISchedulerTaskEventsCompare(L, e, last)[k]
         IN  /\ Counting(L[k])
             /\ ~last => r = L[k]
             /\ last => r.life = L[k].life /\ r.cnt = L[k].cnt + delta /\ r.cnt < r.life
<1> DEFINE r == ISchedulerTaskEventsCompare(L, e, last)[k]
<1>1. L[k] # None /\ L[k] \in Polled
  BY DEF ISchedulerTaskEventsCompare, Counting, PollList
<1>2. k # e
  <2>1. [L[k] EXCEPT !.occ = TRUE, !.tout = FALSE, !.cnt = 0].occ BY <1>1 DEF Polled
  <2>2. k = e => r = [L[k] EXCEPT !.occ = TRUE, !.tout = FALSE, !.cnt = 0]
    BY <1>1 DEF ISchedulerTaskEventsCompare
  <2>3. QED BY <2>1, <2>2 DEF Counting
<1>3. CASE LifeTimeRuns(L[k], last)
  <2>1. last /\ r = PolledLifeTimeIncrement(L[k])
    BY <1>1, <1>2, <1>3 DEF ISchedulerTaskEventsCompare, LifeTimeRuns
  <2>2. [L[k] EXCEPT !.tout = TRUE].tout BY <1>1 DEF Polled
  <2>3. L[k].cnt + delta < L[k].life /\ r = [L[k] EXCEPT !.cnt = @ + delta]
    BY <2>1, <2>2 DEF PolledLifeTimeIncrement, Counting
  <2>4. /\ r.life = L[k].life /\ r.cnt = L[k].cnt + delta
        /\ r.occ = L[k].occ /\ r.tout = L[k].tout
    BY <1>1, <2>3 DEF Polled
  <2>5. Counting(L[k]) BY <1>1, <2>4 DEF Counting
  <2>6. QED BY <2>1, <2>3, <2>4, <2>5
<1>4. CASE ~LifeTimeRuns(L[k], last)
  <2>1. r = L[k] BY <1>1, <1>2, <1>4 DEF ISchedulerTaskEventsCompare
  <2>2. ~last BY <1>4, <2>1 DEF LifeTimeRuns, Counting
  <2>3. QED BY <2>1, <2>2
<1>5. QED BY <1>3, <1>4

LEMMA AddTimeBound ==
  ASSUME NEW a \in Nat, NEW b \in Nat
  PROVE  AddTime(a, b) \in Nat /\ AddTime(a, b) <= a + b
BY TimeAssumption DEF AddTime

(* What the clocks do in a step.                                             *)
LEMMA AgeChange ==
  ASSUME KernelTypes, KernelTypes', AgeInv, AgeNext, NEW t \in Task, NEW k \in Key
  PROVE  /\ age' \in [Task -> [Key -> Nat]]
         /\ \/ age'[t][k] <= age[t][k]
            \/ /\ phase = "thread" /\ phase' = "event" /\ t # running'
               /\ age'[t][k] <= age[t][k] + delta'
         /\ /\ listen'[t][k] # listen[t][k]
            /\ Counting(listen'[t][k])
            /\ listen'[t][k].cnt = 0
            => age'[t][k] = 0
<1>1. \A u \in Task, e \in Key : age[u][e] \in Nat BY DEF AgeInv
<1>2. delta' \in Nat BY TimeAssumption DEF KernelTypes, TypeOK
<1>3. \A a \in Nat : AddTime(a, delta') \in Nat /\ AddTime(a, delta') <= a + delta'
  BY <1>2, AddTimeBound
<1>4. age' \in [Task -> [Key -> Nat]]
  BY <1>1, <1>3 DEF AgeNext
<1>5. \/ age'[t][k] = 0 \/ age'[t][k] = age[t][k]
      \/ /\ phase = "thread" /\ phase' = "event" /\ t # running'
         /\ age'[t][k] = AddTime(age[t][k], delta')
  BY DEF AgeNext
<1>6. ASSUME listen'[t][k] # listen[t][k], Counting(listen'[t][k]), listen'[t][k].cnt = 0
      PROVE  age'[t][k] = 0
  <2>1. listen'[t][k] # None /\ ~listen'[t][k].tout BY <1>6 DEF Counting
  <2>2. QED BY <1>6, <2>1 DEF AgeNext
<1>7. \/ age'[t][k] <= age[t][k]
      \/ /\ phase = "thread" /\ phase' = "event" /\ t # running'
         /\ age'[t][k] <= age[t][k] + delta'
  BY <1>1, <1>3, <1>5
<1>8. QED BY <1>4, <1>6, <1>7

(* The polls and their clocks are of their types, before and after a step.   *)
LEMMA PollTypes ==
  ASSUME KernelTypes, AgeInv, NEW t \in Task, NEW k \in Key
  PROVE  /\ listen[t] \in PollList /\ listen[t][k] \in Polled \cup {None}
         /\ age[t][k] \in Nat /\ delta \in Nat
BY TimeAssumption DEF KernelTypes, TypeOK, PollList, AgeInv

(* A thread step: every task is charged, before and after.                   *)
LEMMA ThreadAges ==
  ASSUME KernelTypes, KernelTypes', AgeInv, AgeNext,
         phase = "thread", phase' = "thread",
         \A t \in Task : Reset(listen[t], listen'[t])
  PROVE  \A t \in Task, k \in Key : Behind(t, k)'
<1>0. \A t : Charged(t) /\ Charged(t)' BY DEF Charged
<1>1. SUFFICES ASSUME NEW t \in Task, NEW k \in Key, Counting(listen'[t][k])
               PROVE  /\ listen'[t][k].cnt < listen'[t][k].life
                      /\ age'[t][k] <= listen'[t][k].cnt + 0
  BY <1>0 DEF Behind
<1>2. listen'[t][k] \in Polled \cup {None} BY DEF KernelTypes, TypeOK
<1>3. listen'[t][k].cnt \in Nat /\ listen'[t][k].life \in Nat \ {0}
  BY <1>1, <1>2, CountingFields
<1>4. CASE listen'[t][k] = listen[t][k]
  <2>1. /\ listen[t][k].cnt < listen[t][k].life /\ age[t][k] <= listen[t][k].cnt + 0
    BY <1>0, <1>1, <1>4 DEF AgeInv, Behind
  <2>2. age'[t][k] <= age[t][k] /\ age'[t][k] \in Nat /\ age[t][k] \in Nat
    BY AgeChange, PollTypes
  <2>3. QED BY <1>3, <1>4, <2>1, <2>2
<1>5. CASE listen'[t][k] # listen[t][k]
  <2>1. listen'[t][k].cnt = 0 BY <1>1, <1>5 DEF Reset
  <2>2. age'[t][k] = 0 BY <1>1, <1>5, <2>1, AgeChange
  <2>3. QED BY <1>3, <2>1, <2>2
<1>6. QED BY <1>4, <1>5

(* A step that leaves the polls alone, and does not take a charge back.      *)
LEMMA QuietAges ==
  ASSUME KernelTypes, KernelTypes', AgeInv, AgeNext, UNCHANGED listen,
         ~(phase = "thread" /\ phase' = "event"),
         \A t \in Task : Listening(t) =>
           \/ Charged(t) /\ Charged(t)'
           \/ ~Charged(t) /\ ~Charged(t)' /\ delta' = delta
  PROVE  \A t \in Task, k \in Key : Behind(t, k)'
<1>1. SUFFICES ASSUME NEW t \in Task, NEW k \in Key, Counting(listen[t][k])
               PROVE  /\ listen[t][k].cnt < listen[t][k].life
                      /\ age'[t][k] <= listen[t][k].cnt
                                       + (IF Charged(t)' THEN 0 ELSE delta')
  BY DEF Behind
<1>2. Listening(t) BY <1>1 DEF Listening, Counting
<1>3. /\ listen[t][k].cnt < listen[t][k].life
      /\ age[t][k] <= listen[t][k].cnt + (IF Charged(t) THEN 0 ELSE delta)
  BY <1>1 DEF AgeInv, Behind
<1>4. /\ age'[t][k] <= age[t][k] /\ age[t][k] \in Nat /\ age'[t][k] \in Nat
      /\ listen[t][k].cnt \in Nat
  BY <1>1, AgeChange, PollTypes, CountingFields
<1>5. CASE Charged(t)'
  <2>1. Charged(t) BY <1>2, <1>5
  <2>2. QED BY <1>3, <1>4, <1>5, <2>1
<1>6. CASE ~Charged(t)'
  <2>1. ~Charged(t) /\ delta' = delta BY <1>2, <1>6
  <2>2. delta \in Nat BY PollTypes
  <2>3. QED BY <1>3, <1>4, <1>6, <2>1, <2>2
<1>7. QED BY <1>5, <1>6

(* The tick adds its delta to the clocks of all tasks but the one it loads.  *)
LEMMA TickAges ==
  ASSUME KernelTypes, KernelTypes', AgeInv, AgeNext, Tick
  PROVE  \A t \in Task, k \in Key : Behind(t, k)'
<1>1. /\ phase = "thread" /\ phase' \in {"thread", "event"} /\ listen' = listen
  BY DEF Tick, OsTick, tickVars
<1>2. CASE phase' = "thread"
  <2>1. \A t \in Task : Reset(listen[t], listen'[t]) BY <1>1 DEF Reset
  <2>2. QED BY <1>1, <1>2, <2>1, ThreadAges
<1>3. CASE phase' = "event"
  <2>1. \A t : Charged(t) BY <1>1 DEF Charged
  <2>2. \A t : Charged(t)' => t = running' BY <1>3 DEF Charged
  <2>3. SUFFICES ASSUME NEW t \in Task, NEW k \in Key, Counting(listen[t][k])
                 PROVE  /\ listen[t][k].cnt < listen[t][k].life
                        /\ age'[t][k] <= listen[t][k].cnt
                                         + (IF Charged(t)' THEN 0 ELSE delta')
    BY <1>1 DEF Behind
  <2>4. /\ listen[t][k].cnt < listen[t][k].life
        /\ age[t][k] <= listen[t][k].cnt + 0
    BY <2>1, <2>3 DEF AgeInv, Behind
  <2>5. /\ age[t][k] \in Nat /\ age'[t][k] \in Nat /\ listen[t][k].cnt \in Nat
        /\ \/ age'[t][k] <= age[t][k]
           \/ t # running' /\ age'[t][k] <= age[t][k] + delta'
    BY <2>3, AgeChange, PollTypes, CountingFields
  <2>6. delta' \in Nat BY TimeAssumption DEF KernelTypes, TypeOK
  <2>7. CASE Charged(t)' BY <2>2, <2>4, <2>5, <2>7
  <2>8. CASE ~Charged(t)' BY <2>4, <2>5, <2>6, <2>8
  <2>9. QED BY <2>7, <2>8
<1>4. QED BY <1>1, <1>2, <1>3

(* The tasks that poll are parked, queued or running.                        *)
LEMMA WherePolling ==
  ASSUME KernelTypes, KernelLists, NEW t \in Task, Listening(t)
  PROVE  /\ t \in waitList \/ Queued(t) \/ t = running
         /\ t \notin tcbList
BY DEF KernelTypes, TypeOK, States, KernelLists, OnePlace, UnparkedPolls, ParkedByPolls

(* A comparison with the last event charges its task, any other nobody.      *)
LEMMA CompareAges ==
  ASSUME KernelTypes, KernelTypes', KernelLists, AgeInv, AgeNext,
         NEW u \in Task, BrokerCompare(u)
  PROVE  \A t \in Task, k \in Key : Behind(t, k)'
<1> DEFINE L == ISchedulerTaskEventsCompare(listen[u], evs[idx], Last)
<1>1. /\ phase = "compare" /\ u \in todo /\ todo' = todo \ {u}
      /\ UNCHANGED <<phase, stage, running, evs, idx, delta>> /\ (Last' <=> Last)
  BY DEF BrokerCompare, brokerFrame, evVars, Last
<1>2. \A v \in Task : listen'[v] = IF v = u THEN L ELSE listen[v]
  BY DEF BrokerCompare, KernelTypes, TypeOK
<1>3. Last \in BOOLEAN BY DEF Last
<1>4. \A v \in Task : v # u =>
        (Queued(v) <=> Queued(v)') /\ (v \in waitList <=> v \in waitList')
  <2>1. CASE UNCHANGED <<waitList, queue>> BY <2>1 DEF Queued
  <2>2. CASE stage # "queue" /\ ISchedulerTaskAddDescendingPriority(u)
    <3>1. u \in tcbList \cup waitList
      BY <1>1, <2>2 DEF KernelLists, TodoInList
    <3>2. OnePlace BY DEF KernelLists
    <3>3. /\ waitList' = waitList \ {u}
          /\ \A v : Queued(v)' <=> Queued(v) \/ v = u
      BY <1>1, <2>2, <3>1, <3>2, ActivationLists
    <3>4. QED BY <3>3
  <2>3. QED BY <2>1, <2>2 DEF BrokerCompare
<1>5. SUFFICES ASSUME NEW t \in Task, NEW k \in Key, Counting(listen'[t][k])
               PROVE  /\ listen'[t][k].cnt < listen'[t][k].life
                      /\ age'[t][k] <= listen'[t][k].cnt
                                       + (IF Charged(t)' THEN 0 ELSE delta')
  BY DEF Behind
<1>6. /\ age[t][k] \in Nat /\ age'[t][k] \in Nat /\ delta \in Nat /\ delta' = delta
      /\ age'[t][k] <= age[t][k]
  BY <1>1, AgeChange, PollTypes
<1>7. CASE t # u
  <2>1. listen'[t] = listen[t] BY <1>2, <1>7
  <2>2. /\ listen[t][k].cnt < listen[t][k].life
        /\ age[t][k] <= listen[t][k].cnt + (IF Charged(t) THEN 0 ELSE delta)
    BY <1>5, <2>1 DEF AgeInv, Behind
  <2>3. listen[t][k].cnt \in Nat BY <1>5, <2>1, PollTypes, CountingFields
  <2>4. Charged(t) <=> Charged(t)'
    BY <1>1, <1>4, <1>7 DEF Charged
  <2>5. QED BY <1>6, <2>1, <2>2, <2>3, <2>4
<1>8. CASE t = u
  <2>1. listen'[t] = L BY <1>2, <1>8
  <2>2. listen[u] \in PollList /\ delta \in 0 .. MaxLag
    BY DEF KernelTypes, TypeOK, PollList
  <2>3. /\ Counting(listen[u][k])
        /\ ~Last => L[k] = listen[u][k]
        /\ Last => /\ L[k].life = listen[u][k].life
                   /\ L[k].cnt = listen[u][k].cnt + delta
                   /\ L[k].cnt < L[k].life
    BY <1>3, <1>5, <2>1, <2>2, CompareCounts
  <2>4. /\ listen[u][k].cnt < listen[u][k].life
        /\ age[u][k] <= listen[u][k].cnt + (IF Charged(u) THEN 0 ELSE delta)
    BY <2>3 DEF AgeInv, Behind
  <2>5. listen[u][k].cnt \in Nat BY <2>3, PollTypes, CountingFields
  <2> HIDE DEF L
  <2>6. CASE Last
    BY <1>6, <1>8, <2>1, <2>3, <2>4, <2>5, <2>6
  <2>7. CASE ~Last
    <3>1. Charged(u)' => Charged(u) BY <1>1, <2>7 DEF Charged
    <3>2. QED BY <1>6, <1>8, <2>1, <2>3, <2>4, <2>5, <2>7, <3>1
  <2>8. QED BY <2>6, <2>7
<1>9. QED BY <1>7, <1>8

(* Between two comparisons nobody is charged: the last event's cleanup comes *)
(* when every task that polls has been.                                      *)
LEMMA BrokerAges ==
  ASSUME KernelTypes, KernelTypes', KernelLists, AgeInv, AgeNext, Broker
  PROVE  \A t \in Task, k \in Key : Behind(t, k)'
<1>1. ASSUME BrokerAddressed \/ BrokerEvent
      PROVE  \A t \in Task, k \in Key : Behind(t, k)'
  <2>1. /\ phase = "event" /\ phase' \in {"compare", "cleanup"}
        /\ UNCHANGED <<listen, running, delta>>
        /\ phase' = "compare" => stage' = "wait" /\ todo' = TasksOf("wait")'
        /\ phase' = "cleanup" => ~Last'
    BY <1>1 DEF BrokerAddressed, BrokerEvent, brokerFrame, evVars, TasksOf, Last
  <2>2. \A t : Charged(t) => t = running BY <2>1 DEF Charged
  <2>3. \A t : Charged(t)' => t = running' BY <2>1 DEF Charged, TasksOf
  <2>4. \A t : (t = running => Charged(t)) /\ (t = running' => Charged(t)')
    BY DEF Charged
  <2>5. QED BY <2>1, <2>2, <2>3, <2>4, QuietAges
<1>2. CASE BrokerNextList
  <2>1. /\ phase = "compare" /\ todo = {}
        /\ UNCHANGED <<listen, running, delta, waitList, queue, evs, idx>>
        /\ \/ stage = "wait" /\ stage' = "list" /\ phase' = "compare"
           \/ stage = "list" /\ stage' = "queue" /\ phase' = "compare"
              /\ todo' = {t \in Task : Queued(t)}
           \/ stage = "queue" /\ phase' = "cleanup"
    BY <1>2 DEF BrokerNextList, brokerFrame, evVars, TasksOf
  <2>2. \A t : Queued(t)' <=> Queued(t) BY <2>1 DEF Queued
  <2>3. Last' <=> Last BY <2>1 DEF Last
  <2>4. ASSUME NEW t \in Task, Listening(t) PROVE Charged(t)' <=> Charged(t)
    BY <2>1, <2>2, <2>3, <2>4, WherePolling DEF Charged
  <2>5. QED BY <2>1, <2>4, QuietAges
<1>3. CASE BrokerCleanup
  <2>1. /\ phase = "cleanup" /\ UNCHANGED <<listen, running>>
        /\ \/ Last /\ phase' = "thread"
           \/ ~Last /\ phase' = "event" /\ delta' = delta
    BY <1>3 DEF BrokerCleanup
  <2>2. \A t : \/ Charged(t) /\ Charged(t)'
               \/ ~Charged(t) /\ ~Charged(t)' /\ delta' = delta
    BY <2>1 DEF Charged
  <2>3. QED BY <2>1, <2>2, QuietAges
<1>4. QED BY <1>1, <1>2, <1>3, CompareAges DEF Broker

LEMMA AgeInvStep ==
  KernelTypes /\ KernelTypes' /\ KernelLists /\ AgeInv /\ [AgeNext]_ageVars => AgeInv'
<1>1. SUFFICES ASSUME KernelTypes, KernelTypes', KernelLists, AgeInv, [AgeNext]_ageVars
               PROVE  AgeInv'
  OBVIOUS
<1>2. CASE AgeNext
  <2>0. Next BY <1>2 DEF AgeNext
  <2>1. age' \in [Task -> [Key -> Nat]]
    <3>1. \A t \in Task, k \in Key : age'[t][k] \in Nat BY <1>1, <1>2, AgeChange
    <3>2. QED BY <1>2, <3>1 DEF AgeNext
  <2>2. ASSUME TaskCall \/ AnyCall \/ KernelTaskIdle
               \/ \E tc \in 0 .. TickPeriod : ICoreTickInvoke(tc)
        PROVE  \A t \in Task, k \in Key : Behind(t, k)'
    <3>1. phase = "thread" /\ phase' = "thread"
      BY <2>2
      DEF TaskCall, AnyCall, KernelTaskIdle, ICoreTickInvoke, TaskPoll,
          TaskPollAdd, TaskPollRemove, TaskSleep, TaskCreate, TaskDelete,
          TaskPrioritySet, Lookup, Write, OsSchedulerLock, OsSchedulerUnlock,
          SetSchedulerLock, SetPolls, TaskResume, TaskNotify, Emit, EmitAtOnce, EmitBegin, InTask, tickVars
    <3>2. TaskCall \/ UNCHANGED listen
      BY <2>2 DEF AnyCall, KernelTaskIdle, ICoreTickInvoke, TaskResume, TaskNotify, Emit,
         EmitAtOnce, EmitBegin
    <3>3. \A t \in Task : Reset(listen[t], listen'[t])
      BY <1>1, <3>2, TaskCallResets DEF Reset
    <3>4. QED BY <1>1, <1>2, <3>1, <3>3, ThreadAges
  <2>3. \A t \in Task, k \in Key : Behind(t, k)'
    BY <1>1, <1>2, <2>0, <2>2, TickAges, BrokerAges DEF Next
  <2>4. QED BY <2>1, <2>3 DEF AgeInv
<1>3. CASE UNCHANGED ageVars
  <2>1. UNCHANGED <<age, listen, delta, running, phase, evs, idx, stage, waitList, queue, todo>>
    BY <1>3 DEF ageVars, vars, taskVars, evVars, tickVars
  <2>2. \A t : Charged(t)' <=> Charged(t) BY <2>1 DEF Charged, Last, Queued
  <2>3. \A t \in Task, k \in Key : Behind(t, k)' <=> Behind(t, k)
    BY <2>1, <2>2 DEF Behind
  <2>4. QED BY <1>1, <2>1, <2>3 DEF AgeInv
<1>4. QED BY <1>1, <1>2, <1>3

(* A timeout is never missed: between two ticks, the run-time that a poll    *)
(* has been waited for is less than its lifetime, unless the event occurred  *)
(* or the poll timed out, for all tasks, timeouts and interleavings.  The    *)
(* clocks lag the counters by at most the delta of the cycle in progress     *)
(* (AgeInv), and the end of a cycle has charged every task.                  *)
THEOREM NeverLate == AgeSpec => []NotLate
<1>1. AgeInit => AgeInv
  BY DEF AgeInit, Init, NoPolls, AgeInv, Behind, Counting
<1>2. AgeInv /\ KernelTypes => NotLate
  <2>1. SUFFICES ASSUME AgeInv, KernelTypes, phase = "thread", NEW t \in Task, NEW k \in Key,
                        Counting(listen[t][k])
                 PROVE  age[t][k] < listen[t][k].life
    BY DEF NotLate, Counting
  <2>2. Charged(t) BY <2>1 DEF Charged
  <2>3. listen[t][k].cnt < listen[t][k].life /\ age[t][k] <= listen[t][k].cnt + 0
    BY <2>1, <2>2 DEF AgeInv, Behind
  <2>4. listen[t][k].cnt \in Nat /\ listen[t][k].life \in Nat /\ age[t][k] \in Nat
    BY <2>1, PollTypes, CountingFields
  <2>5. QED BY <2>3, <2>4
<1>3. AgeInit => Init BY DEF AgeInit
<1>4. [AgeNext]_ageVars => [Next]_vars BY DEF AgeNext, ageVars
<1>5. AgeSpec => Spec BY <1>3, <1>4, PTL DEF AgeSpec, Spec
<1>6. AgeSpec => []AgeInv
  BY <1>1, <1>5, AgeInvStep, KernelListsInvariant, PTL DEF AgeSpec
<1>7. QED BY <1>2, <1>5, <1>6, KernelListsInvariant, PTL
================================================================================
