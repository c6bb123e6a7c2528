------------------------------- MODULE ItcProofs -------------------------------
(* Proof that the calls on message queues, mailboxes, event groups and       *)
(* semaphores release the nodes they lock (NodesReleased), take nothing      *)
(* twice (CountersFit, Exclusive) and lose no wake-up (NoWakeupLost), for    *)
(* any number of tasks, messages, addresses and flags, any width and any     *)
(* hash, when there is one object of a kind: FindNode.cfg shows what a       *)
(* second one does.                                                          *)
EXTENDS KernelProofs, Itc, FiniteSetTheorems

(* The objects and the calls of the kind that is explored.                   *)
KindObj ==
  {o \in Obj : \/ kind = "message" /\ o \in Queue
               \/ kind = "mailbox" /\ o \in Mbx
               \/ kind = "group" /\ o \in Group
               \/ kind = "semaphore" /\ o \in Sem}

KindCall ==
  {c \in MessageCall \cup MailboxCall \cup EventgroupCall \cup SemaphoreCall :
     c.obj \in KindObj}

(* At most one object of every kind.                                         *)
Lone == \A S \in {Queue, Mbx, Group, Sem} : \A x, y \in S : x = y

(* The kernel's invariants, which the calls keep.                            *)
KernelInv == KernelTypes /\ KernelLists /\ AllSeen

(* A task in a call is an ordinary running task, which is not switched out.  *)
CallerRuns ==
  /\ call = None
  /\ pc # None => pc \in KindCall /\ running # Idle /\ ~dispatch

(* The lock of a node says whether the call in progress is past its lock.    *)
Holds == pc # None /\ pc.step # "lock"

LockOfCall ==
  lock = [o \in Obj |-> IF Holds /\ o = pc.obj THEN IF pc.mode = "READ" THEN 1 ELSE -1
                                               ELSE 0]

(* The static variable points to the node of the call.                       *)
NodeOfCall ==
  /\ pc # None => node \in {None, pc.obj} /\ node \in objs \cup {None}
  /\ Holds => node = pc.obj
  /\ pc # None /\ pc.step \in {"act", "register"} => pc.local = pc.obj

(* No call polls permanently: what is handled is no longer polled.           *)
NoPermanent ==
  \A t \in Task, k \in Key : listen[t][k] # None => ~listen[t][k].perm

LockInv ==
  /\ fresh \subseteq Obj /\ objs \subseteq KindObj /\ fresh \cap objs = {}
  /\ CallerRuns /\ LockOfCall /\ NodeOfCall

SysInv == LockInv /\ NoPermanent
--------------------------------------------------------------------------------
(* The calls seen by the kernel: each of their steps is a step of the kernel *)
(* or emits the two events of a post.                                        *)
LEMMA CallerInTask == LockInv /\ pc # None /\ phase = "thread" => InTask
BY DEF LockInv, CallerRuns, InTask

CallStep == {"lock", "check", "act", "register", "unlock"}

(* A call keeps its shape when its step and its local variable change.       *)
Moved(c, d, l, s) ==
  /\ d.fn = c.fn /\ d.obj = c.obj /\ d.mode = c.mode /\ d.arg = c.arg
  /\ d.local = l /\ d.step = s

Shape(c, S) ==
  /\ c.mode \in {"READ", "WRITE"} /\ c.local \in Obj \cup {None} /\ c.step \in CallStep
  /\ \A s \in CallStep :
       [c EXCEPT !.step = s] \in S /\ Moved(c, [c EXCEPT !.step = s], c.local, s)
  /\ \A s \in CallStep, l \in Obj \cup {None} :
       /\ [c EXCEPT !.step = s, !.local = l] \in S
       /\ Moved(c, [c EXCEPT !.step = s, !.local = l], l, s)

WellFormed(S) == \A c \in S : Shape(c, S)

LEMMA WellFormedUnion ==
  ASSUME NEW S, NEW T, WellFormed(S), WellFormed(T)
  PROVE  WellFormed(S \cup T)
<1>1. ASSUME NEW c, NEW U, Shape(c, U), U \subseteq S \cup T
      PROVE  Shape(c, S \cup T)
  BY <1>1 DEF Shape
<1>2. QED BY <1>1 DEF WellFormed

LEMMA CallOfWellFormed ==
  ASSUME NEW fns, NEW os, NEW mode \in {"READ", "WRITE"}, NEW args
  PROVE  WellFormed(CallOf(fns, os, mode, args))
<1> SUFFICES ASSUME NEW c \in CallOf(fns, os, mode, args)
             PROVE  Shape(c, CallOf(fns, os, mode, args))
  BY DEF WellFormed
<1>1. c.mode \in {"READ", "WRITE"} /\ c.local \in Obj \cup {None} /\ c.step \in CallStep
  BY DEF CallOf, CallStep
<1>2. ASSUME NEW s \in CallStep
      PROVE  /\ [c EXCEPT !.step = s] \in CallOf(fns, os, mode, args)
             /\ Moved(c, [c EXCEPT !.step = s], c.local, s)
  BY <1>2 DEF CallOf, CallStep, Moved
<1>3. ASSUME NEW s \in CallStep, NEW l \in Obj \cup {None}
      PROVE  /\ [c EXCEPT !.step = s, !.local = l] \in CallOf(fns, os, mode, args)
             /\ Moved(c, [c EXCEPT !.step = s, !.local = l], l, s)
  BY <1>3 DEF CallOf, CallStep, Moved
<1>4. QED BY <1>1, <1>2, <1>3 DEF Shape

LEMMA KindCallWellFormed == WellFormed(KindCall)
<1>1. WellFormed(MessageCall)
  BY CallOfWellFormed, WellFormedUnion DEF MessageCall
<1>2. WellFormed(MailboxCall)
  BY CallOfWellFormed, WellFormedUnion DEF MailboxCall
<1>3. WellFormed(EventgroupCall)
  BY CallOfWellFormed, WellFormedUnion DEF EventgroupCall
<1>4. WellFormed(SemaphoreCall)
  BY CallOfWellFormed, WellFormedUnion DEF SemaphoreCall
<1> DEFINE All == MessageCall \cup MailboxCall \cup EventgroupCall \cup SemaphoreCall
<1>5. WellFormed(All)
  BY <1>1, <1>2, <1>3, <1>4, WellFormedUnion
<1>6. \A c \in KindCall : c \in All /\ c.obj \in KindObj
  BY DEF KindCall
<1>7. \A c \in All : c.obj \in KindObj => c \in KindCall
  BY DEF KindCall
<1> HIDE DEF All
<1>8. SUFFICES ASSUME NEW c \in KindCall PROVE Shape(c, KindCall)
  BY DEF WellFormed
<1>9. Shape(c, All) BY <1>5, <1>6 DEF WellFormed
<1>10. ASSUME NEW d, NEW l, NEW s, d \in All, Moved(c, d, l, s)
       PROVE  d \in KindCall
  BY <1>6, <1>7, <1>10 DEF Moved
<1>11. QED BY <1>9, <1>10 DEF Shape
--------------------------------------------------------------------------------
(* What the steps of a call do to the kernel: a step of the kernel, none, or *)
(* the emission of the two events of a post.                                 *)
LEMMA KernelInvStep == KernelInv /\ [Next]_vars => KernelInv'
BY KernelTypesStep, KernelListsStep, AllSeenStep DEF KernelInv

LEMMA EnterKernel ==
  ASSUME KernelInv, NEW f, NEW o, NEW k \in Event \cup {None}, NEW mode, NEW arg,
         Enter(f, o, k, mode, arg)
  PROVE  [Next]_vars
<1>1. CASE k = None
  <2>1. listen' = [listen EXCEPT ![running] = listen[running]]
    BY <1>1 DEF Enter, SetPolls
  <2>2. listen' = listen
    BY <2>1 DEF KernelInv, KernelTypes, TypeOK
  <2>3. QED BY <1>1, <2>2 DEF Enter, SetPolls, vars
<1>2. CASE k # None
  <2>1. SetPolls(ITaskEventHandle(listen[running], k)) /\ InTask
    BY <1>2 DEF Enter
  <2>2. Inf \in ConvertMsToUs(Inf) BY DEF ConvertMsToUs
  <2>3. TaskPoll(k, Inf, FALSE)
    BY <2>1, <2>2 DEF TaskPoll
  <2>4. TaskCall BY <1>2, <2>3 DEF TaskCall
  <2>5. QED BY <2>4 DEF Next
<1>3. QED BY <1>1, <1>2

LEMMA RegisterKernel ==
  ASSUME InTask, NEW k \in Event, NEW ms \in Timeout \cup {Inf},
         SysCallRegister(k, ms), UNCHANGED <<sysFrame, evVars>>
  PROVE  [Next]_vars
<1>1. TaskPoll(k, ms, TRUE)
  BY DEF SysCallRegister, TaskPoll, SetPolls, sysFrame
<1>2. QED BY <1>1 DEF TaskCall, Next

LEMMA EmitKernel ==
  ASSUME phase = "thread", NEW isr, NEW k \in Event, EmitFrom(isr, k),
         UNCHANGED <<sysFrame, listen>>
  PROVE  [Next]_vars
<1>1. CASE EventEmit(k)
  <2>1. Emit(k) BY <1>1 DEF Emit, EmitAtOnce, sysFrame
  <2>2. QED BY <2>1 DEF AnyCall, Next
<1>2. CASE UNCHANGED evVars
  BY <1>2 DEF sysFrame, vars
<1>3. QED BY <1>1, <1>2 DEF EmitFrom

LEMMA StepOfKernel == KernelStep => [Next]_vars
BY DEF KernelStep, Next, AnyCall, TaskNotify, Emit

(* The events that an emission leaves in EventList.                          *)
Added(s, e) == IF \E i \in 1 .. Len(s) : Hash[s[i]] = Hash[e] THEN s ELSE Append(s, e)

LEMMA AddedProperties ==
  ASSUME NEW s \in Seq(Key), NEW e \in Event, Len(s) > 0,
         \A i \in 1 .. Len(s) : s[i] = Mock <=> i = 1
  PROVE  /\ Added(s, e) \in Seq(Key) /\ Len(Added(s, e)) > 0
         /\ \A i \in 1 .. Len(Added(s, e)) : Added(s, e)[i] = Mock <=> i = 1
         /\ Len(s) <= Len(Added(s, e))
         /\ \A i \in 1 .. Len(s) : Added(s, e)[i] = s[i]
         /\ \A i \in 1 .. Len(Added(s, e)) : i > Len(s) => Added(s, e)[i] = e
         /\ \E i \in 1 .. Len(Added(s, e)) : Hash[Added(s, e)[i]] = Hash[e]
<1>1. e \in Key /\ e # Mock BY KeyAssumption DEF Key
<1>2. CASE \E i \in 1 .. Len(s) : Hash[s[i]] = Hash[e]
  <2>1. Added(s, e) = s BY <1>2 DEF Added
  <2>2. QED BY <1>2, <2>1
<1>3. CASE ~ \E i \in 1 .. Len(s) : Hash[s[i]] = Hash[e]
  <2>1. Added(s, e) = Append(s, e) BY <1>3 DEF Added
  <2>2. /\ Append(s, e) \in Seq(Key) /\ Len(Append(s, e)) = Len(s) + 1
        /\ \A i \in 1 .. Len(s) : Append(s, e)[i] = s[i]
        /\ Append(s, e)[Len(s) + 1] = e
    BY <1>1
  <2>3. QED BY <1>1, <2>1, <2>2
<1>4. QED BY <1>2, <1>3

LEMMA FunctionIsSequence ==
  ASSUME NEW S, NEW n \in Nat, NEW f \in [1 .. n -> S]
  PROVE  f \in Seq(S) /\ Len(f) = n
OBVIOUS

LEMMA BothEvents ==
  ASSUME KernelTypes, NEW j \in Event, NEW k \in Event, EmitBoth(j, k)
  PROVE  /\ evs' \in Seq(Key) /\ MockStays'
         /\ evCnt' \in Seq(0 .. MaxLag) /\ Len(evCnt') = Len(evs')
         /\ Len(evs) <= Len(evs') /\ \A i \in 1 .. Len(evs) : evs'[i] = evs[i]
         /\ \E l \in 1 .. Len(evs') : Hash[evs'[l]] = Hash[j]
<1> DEFINE s == Added(evs, j)
           r == Added(s, k)
<1>1. /\ evs' = r
      /\ evCnt' = [i \in 1 .. Len(evs') |->
                     IF Hash[evs'[i]] \in {Hash[j], Hash[k]} THEN 0 ELSE evCnt[i]]
  BY DEF EmitBoth, Added
<1>2. /\ evs \in Seq(Key) /\ Len(evCnt) = Len(evs) /\ 0 \in 0 .. MaxLag
      /\ \A i \in 1 .. Len(evs) : evCnt[i] \in 0 .. MaxLag
  <2>1. evs \in Seq(Key) /\ evCnt \in Seq(0 .. MaxLag) /\ Len(evCnt) = Len(evs)
    BY DEF KernelTypes, TypeOK
  <2>2. \A i \in 1 .. Len(evCnt) : evCnt[i] \in 0 .. MaxLag BY <2>1, ElementType
  <2>3. 0 \in 0 .. MaxLag BY TimeAssumption
  <2>4. QED BY <2>1, <2>2, <2>3
<1>3. /\ s \in Seq(Key) /\ Len(s) > 0 /\ Len(evs) <= Len(s)
      /\ \A i \in 1 .. Len(s) : s[i] = Mock <=> i = 1
      /\ \A i \in 1 .. Len(evs) : s[i] = evs[i]
      /\ \A i \in 1 .. Len(s) : i > Len(evs) => s[i] = j
      /\ \E i \in 1 .. Len(s) : Hash[s[i]] = Hash[j]
  BY AddedProperties DEF KernelTypes, TypeOK, MockStays
<1> HIDE DEF s
<1>4. /\ r \in Seq(Key) /\ Len(r) > 0 /\ Len(s) <= Len(r)
      /\ \A i \in 1 .. Len(r) : r[i] = Mock <=> i = 1
      /\ \A i \in 1 .. Len(s) : r[i] = s[i]
      /\ \A i \in 1 .. Len(r) : i > Len(s) => r[i] = k
  BY <1>3, AddedProperties
<1> HIDE DEF r
<1>5. Len(evs) \in Nat /\ Len(s) \in Nat /\ Len(r) \in Nat BY <1>2, <1>3, <1>4
<1>6. MockStays' BY <1>1, <1>4 DEF MockStays
<1>7. Len(evs) <= Len(r) /\ \A i \in 1 .. Len(evs) : r[i] = evs[i]
  BY <1>3, <1>4, <1>5
<1>8. \E l \in 1 .. Len(r) : Hash[r[l]] = Hash[j]
  <2>1. PICK i \in 1 .. Len(s) : Hash[s[i]] = Hash[j] BY <1>3
  <2>2. i \in 1 .. Len(r) /\ r[i] = s[i] BY <1>4, <1>5
  <2>3. QED BY <2>1, <2>2
<1>9. ASSUME NEW i \in 1 .. Len(r), i > Len(evs) PROVE r[i] \in {j, k}
  <2>1. CASE i > Len(s) BY <1>4, <2>1
  <2>2. CASE i <= Len(s) BY <1>3, <1>4, <1>5, <1>9, <2>2
  <2>3. QED BY <1>5, <2>1, <2>2
<1>10. evCnt' \in Seq(0 .. MaxLag) /\ Len(evCnt') = Len(r)
  <2>1. ASSUME NEW i \in 1 .. Len(r)
        PROVE  (IF Hash[r[i]] \in {Hash[j], Hash[k]} THEN 0 ELSE evCnt[i]) \in 0 .. MaxLag
    <3>1. CASE i <= Len(evs) BY <1>2, <1>5, <3>1
    <3>2. CASE i > Len(evs)
      <4>1. Hash[r[i]] \in {Hash[j], Hash[k]} BY <1>9, <3>2
      <4>2. QED BY <1>2, <4>1
    <3>3. QED BY <1>5, <3>1, <3>2
  <2>2. evCnt' = [i \in 1 .. Len(r) |->
                    IF Hash[r[i]] \in {Hash[j], Hash[k]} THEN 0 ELSE evCnt[i]]
    BY <1>1
  <2>3. evCnt' \in [1 .. Len(r) -> 0 .. MaxLag] BY <2>1, <2>2
  <2>4. QED BY <1>5, <2>3, FunctionIsSequence
<1>11. QED BY <1>1, <1>4, <1>6, <1>7, <1>8, <1>10

LEMMA BothKernel ==
  ASSUME KernelInv, phase = "thread", NEW j \in Event, NEW k \in Event, EmitBoth(j, k),
         UNCHANGED <<sysFrame, listen>>
  PROVE  KernelInv'
<1>1. /\ evs' \in Seq(Key) /\ MockStays'
      /\ evCnt' \in Seq(0 .. MaxLag) /\ Len(evCnt') = Len(evs')
  BY BothEvents DEF KernelInv
<1>2. TypeOK'
  BY <1>1 DEF KernelInv, KernelTypes, TypeOK, sysFrame, taskVars, tickVars
<1>3. KernelTypes'
  BY <1>1, <1>2 DEF KernelTypes, IdxInBounds, sysFrame, tickVars
<1>4. KernelLists'
  BY ListsUnchanged DEF KernelInv, sysFrame, taskVars, tickVars
<1>5. AllSeen'
  BY DEF AllSeen, sysFrame, tickVars
<1>6. QED BY <1>3, <1>4, <1>5 DEF KernelInv
--------------------------------------------------------------------------------
(* The locks and the static variable.                                        *)
LEMMA LoneKind == Lone => \A x, y \in KindObj : x = y
BY ObjAssumption DEF Lone, KindObj

LEMMA CallNotNone == None \notin KindCall
BY ObjAssumption DEF KindCall

(* What a poll may become without ever being permanent.                      *)
LEMMA HandlePolls ==
  ASSUME KernelTypes, NEW t \in Task, NEW k \in Key, NEW e \in Key
  PROVE  LET M == ITaskEventHandle(listen[t], k)
         IN /\ M \in PollList
            /\ \/ M[e] = None
               \/ M[e] = listen[t][e]
               \/ listen[t][e] # None /\ listen[t][e].perm
<1>1. listen[t] \in PollList BY DEF KernelTypes, TypeOK, PollList
<1>2. ITaskEventHandle(listen[t], k) \in PollList BY <1>1, ITaskEventHandleType
<1>3. QED BY <1>1, <1>2 DEF ITaskEventHandle, Find

(* R is L after a registration to k that is not permanent.                   *)
Registered(L, R, k) ==
  \A e \in Key : R[e] # None =>
    /\ L[e] # None /\ ~L[e].perm => ~R[e].perm
    /\ L[e] = None => ~R[e].perm
    /\ OwnHash(e) /\ e # k => R[e] = L[e]

LEMMA RegisterPolls ==
  ASSUME NEW L \in PollList, NEW k \in Key, NEW us \in LifeTime, NEW R,
         R = EventRegister(L, k, FALSE, us)
  PROVE  Registered(L, R, k)
<1> SUFFICES ASSUME NEW e \in Key, R[e] # None
             PROVE  /\ L[e] # None /\ ~L[e].perm => ~R[e].perm
                    /\ L[e] = None => ~R[e].perm
                    /\ OwnHash(e) /\ e # k => R[e] = L[e]
  BY DEF Registered
<1>1. CASE Find(L, k) # {}
  <2>1. R = [d \in Key |-> IF d \in Find(L, k) /\ L[d].life # Inf
                           THEN [L[d] EXCEPT !.cnt = 0] ELSE L[d]]
    BY <1>1 DEF EventRegister
  <2>2. R[e] = IF e \in Find(L, k) /\ L[e].life # Inf THEN [L[e] EXCEPT !.cnt = 0] ELSE L[e]
    BY <2>1
  <2>3. e \in Find(L, k) => L[e] # None /\ Hash[e] = Hash[k] BY DEF Find
  <2>4. L[e] # None BY <2>2, <2>3
  <2>5. L[e] \in Polled BY <2>4 DEF PollList
  <2>6. [L[e] EXCEPT !.cnt = 0].perm = L[e].perm BY <2>5 DEF Polled
  <2>7. ~L[e].perm => ~R[e].perm BY <2>2, <2>6
  <2>8. OwnHash(e) /\ e # k => e \notin Find(L, k) BY <2>3 DEF OwnHash
  <2>9. QED BY <2>2, <2>4, <2>7, <2>8
<1>2. CASE Find(L, k) = {}
  <2> DEFINE new == [life |-> us, cnt |-> 0, occ |-> FALSE, tout |-> FALSE, perm |-> FALSE]
  <2>1. R = [L EXCEPT ![k] = new] BY <1>2 DEF EventRegister
  <2>2. ~new.perm OBVIOUS
  <2> HIDE DEF new
  <2>3. R[k] = new /\ (e # k => R[e] = L[e]) BY <2>1 DEF PollList
  <2>4. CASE e = k BY <2>2, <2>3, <2>4, Zenon
  <2>5. CASE e # k BY <2>3, <2>5
  <2>6. QED BY <2>4, <2>5
<1>3. QED BY <1>1, <1>2

LEMMA KernelPermanent ==
  ASSUME KernelTypes, NoPermanent, KernelStep
  PROVE  NoPermanent'
<1>1. CASE UNCHANGED listen BY <1>1 DEF NoPermanent
<1>2. ASSUME NEW t \in Task, BrokerCompare(t) PROVE NoPermanent'
  <2> DEFINE L == ISchedulerTaskEventsCompare(listen[t], evs[idx], Last)
  <2>1. \A u \in Task : listen'[u] = IF u = t THEN L ELSE listen[u]
    BY <1>2 DEF BrokerCompare, KernelTypes, TypeOK
  <2>2. ASSUME NEW k \in Key, L[k] # None PROVE ~L[k].perm
    <3>1. listen[t][k] # None /\ ~listen[t][k].perm
      BY <2>2 DEF ISchedulerTaskEventsCompare, NoPermanent
    <3>2. listen[t][k] \in Polled BY <3>1 DEF KernelTypes, TypeOK
    <3>3. \/ L[k] = [listen[t][k] EXCEPT !.occ = TRUE, !.tout = FALSE, !.cnt = 0]
          \/ L[k] = [listen[t][k] EXCEPT !.cnt = @ + delta]
          \/ L[k] = [listen[t][k] EXCEPT !.tout = TRUE]
          \/ L[k] = listen[t][k]
      BY <3>1 DEF ISchedulerTaskEventsCompare, PolledLifeTimeIncrement
    <3>4. QED BY <3>1, <3>2, <3>3 DEF Polled
  <2>3. QED BY <2>1, <2>2 DEF NoPermanent
<1>3. QED
  BY <1>1, <1>2
  DEF KernelStep, ICoreTickInvoke, KernelTaskIdle, Tick, OsTick, Broker, BrokerAddressed,
      BrokerEvent, BrokerNextList, BrokerCleanup, EmitAtOnce

LEMMA KernelLocks ==
  ASSUME LockInv, KernelStep, UNCHANGED kind
  PROVE  LockInv'
<1>2. UNCHANGED <<fresh, objs, lock, node, pc>> BY DEF KernelStep
<1>3. KindObj' = KindObj /\ KindCall' = KindCall BY DEF KindObj, KindCall
<1>4. LockOfCall' /\ NodeOfCall' BY <1>2 DEF LockInv, LockOfCall, NodeOfCall, Holds
<1>5. call' = None
  BY DEF LockInv, CallerRuns, Resetting, KernelStep, ICoreTickInvoke, KernelTaskIdle, Tick, OsTick,
         Broker, BrokerAddressed, BrokerEvent, BrokerCompare, BrokerNextList, BrokerCleanup,
         EmitAtOnce, brokerFrame
<1>6. ASSUME pc # None PROVE UNCHANGED <<running, dispatch>>
  <2>1. ~dispatch BY <1>6 DEF LockInv, CallerRuns
  <2>2. QED
    BY <1>6, <2>1
    DEF KernelStep, KernelTaskIdle, Tick, OsTick, Broker, BrokerAddressed, BrokerEvent,
        BrokerCompare, BrokerNextList, BrokerCleanup, EmitAtOnce, brokerFrame, taskVars
<1>7. CallerRuns' BY <1>2, <1>3, <1>5, <1>6 DEF LockInv, CallerRuns
<1>8. QED BY <1>2, <1>3, <1>4, <1>7 DEF LockInv

(* A call enters: it polls less, and finds the node by its ID.               *)
LEMMA EnterLocks ==
  ASSUME LockInv, NEW f, NEW o \in KindObj, NEW k, NEW mode,
         NEW arg, Enter(f, o, k, mode, arg), UNCHANGED kind,
         [fn |-> f, obj |-> o, mode |-> mode, arg |-> arg, local |-> None, step |-> "lock"]
           \in KindCall
  PROVE  LockInv'
<1>1. InTask /\ pc = None /\ UNCHANGED <<fresh, objs, lock, call, running, dispatch>>
  BY DEF Enter, SetPolls, taskVars
<1>2. KindObj' = KindObj /\ KindCall' = KindCall BY DEF KindObj, KindCall
<1>3. \/ UNCHANGED <<pc, node>>
      \/ /\ node' = ListSearch(o)
         /\ pc' = [fn |-> f, obj |-> o, mode |-> mode, arg |-> arg, local |-> None, step |-> "lock"]
  BY DEF Enter
<1>4. LockOfCall' /\ NodeOfCall'
  <2>1. CASE UNCHANGED <<pc, node>>
    BY <1>1, <2>1 DEF LockInv, LockOfCall, NodeOfCall, Holds
  <2>2. CASE /\ node' = ListSearch(o) /\ pc'.obj = o /\ pc'.step = "lock"
    BY <1>1, <2>2 DEF LockInv, LockOfCall, NodeOfCall, Holds, ListSearch
  <2>3. QED BY <1>3, <2>1, <2>2
<1>5. CallerRuns' BY <1>1, <1>2, <1>3 DEF LockInv, CallerRuns, InTask
<1>7. QED BY <1>1, <1>2, <1>4, <1>5 DEF LockInv

LEMMA EnterStep ==
  ASSUME NEW f, NEW o, NEW k, NEW mode, NEW arg, Enter(f, o, k, mode, arg)
  PROVE  pc = None /\ (pc' = pc \/ pc'.step = "lock")
<1>1. \/ pc' = pc
      \/ pc' = [fn |-> f, obj |-> o, mode |-> mode, arg |-> arg, local |-> None, step |-> "lock"]
  BY DEF Enter
<1>2. QED BY <1>1 DEF Enter

LEMMA CreateLocks ==
  ASSUME LockInv, NEW o \in KindObj, Create(o) \/ Delete(o), UNCHANGED kind
  PROVE  LockInv'
<1>1. KindObj' = KindObj /\ KindCall' = KindCall BY DEF KindObj, KindCall
<1>2. pc = None /\ UNCHANGED <<lock, node, pc, call, running, dispatch>>
  BY DEF Create, Delete, vars, taskVars
<1>3. fresh' \subseteq Obj /\ objs' \subseteq KindObj /\ fresh' \cap objs' = {}
  BY DEF Create, Delete, LockInv
<1>4. QED
  BY <1>1, <1>2, <1>3
  DEF LockInv, CallerRuns, LockOfCall, NodeOfCall, Holds

LEMMA LockLocks ==
  ASSUME LockInv, LockNode, UNCHANGED kind
  PROVE  LockInv'
<1>1. KindObj' = KindObj /\ KindCall' = KindCall BY DEF KindObj, KindCall
<1>2. pc \in KindCall /\ pc.step = "lock" /\ pc # None
  BY DEF LockNode, LockInv, CallerRuns
<1>3. UNCHANGED <<call, running, dispatch, fresh, objs>>
  BY DEF LockNode, vars, taskVars
<1>4. CASE Return /\ UNCHANGED lock
  BY <1>1, <1>2, <1>3, <1>4
  DEF Return, LockInv, CallerRuns, LockOfCall, NodeOfCall, Holds
<1>5. CASE /\ node # None /\ UtilLock(lock[node], pc.mode) # lock[node]
           /\ lock' = [lock EXCEPT ![node] = UtilLock(@, pc.mode)]
           /\ pc' = [pc EXCEPT !.step = "check"]
           /\ UNCHANGED node
  <2>1. Shape(pc, KindCall) BY <1>2, KindCallWellFormed DEF WellFormed
  <2>2. pc' \in KindCall /\ pc'.obj = pc.obj /\ pc'.mode = pc.mode /\ pc'.step = "check"
    BY <1>5, <2>1 DEF Shape, Moved, CallStep
  <2>3. node = pc.obj /\ node \in objs /\ node \in Obj
    BY <1>2, <1>5 DEF LockInv, NodeOfCall, KindObj
  <2>4. lock = [o \in Obj |-> 0]
    BY <1>2 DEF LockInv, LockOfCall, Holds
  <2>5. UtilLock(0, pc.mode) = IF pc.mode = "READ" THEN 1 ELSE -1
    <3>1. lock[node] = 0 BY <2>3, <2>4
    <3>2. UtilLock(0, pc.mode) # 0 BY <1>5, <3>1
    <3>3. QED BY <3>2 DEF UtilLock
  <2>6. lock' = [o \in Obj |-> IF o = pc.obj THEN IF pc.mode = "READ" THEN 1 ELSE -1 ELSE 0]
    BY <1>5, <2>3, <2>4, <2>5
  <2>7. pc' # None BY <2>2, CallNotNone
  <2>8. LockOfCall' BY <2>2, <2>6, <2>7 DEF LockOfCall, Holds
  <2>9. NodeOfCall' BY <1>3, <1>5, <2>2, <2>3 DEF NodeOfCall, Holds
  <2>10. QED BY <1>1, <1>2, <1>3, <2>2, <2>8, <2>9 DEF LockInv, CallerRuns
<1>6. QED BY <1>4, <1>5 DEF LockNode

LEMMA UnlockLocks ==
  ASSUME LockInv, UnlockNode, UNCHANGED kind
  PROVE  LockInv'
<1>1. KindObj' = KindObj /\ KindCall' = KindCall BY DEF KindObj, KindCall
<1>2. UNCHANGED <<call, running, dispatch, fresh, objs>> /\ pc' = None
  BY DEF UnlockNode, vars, taskVars, Return
<1>3. Holds /\ node = pc.obj BY DEF UnlockNode, Holds, LockInv, NodeOfCall
<1>4. \A o \in Obj : o # node => lock[o] = 0
  BY <1>3 DEF LockInv, LockOfCall
<1>5. \A o \in Obj : o = node => UtilUnlock(lock[o]) = 0
  BY <1>3 DEF LockInv, LockOfCall, UtilUnlock
<1>6. lock' = [o \in Obj |-> 0]
  BY <1>4, <1>5 DEF UnlockNode
<1>7. QED
  BY <1>1, <1>2, <1>6 DEF LockInv, CallerRuns, LockOfCall, NodeOfCall, Holds

(* Past the lock a call moves on to a later step.                            *)
LEMMA CheckedLocks ==
  ASSUME LockInv, NEW f, At(f, "check"), NEW s \in {"act", "register", "unlock"}, Checked(s),
         UNCHANGED kind
  PROVE  /\ LockInv'
         /\ pc' \in KindCall /\ Moved(pc, pc', pc.obj, s)
<1>1. KindObj' = KindObj /\ KindCall' = KindCall BY DEF KindObj, KindCall
<1>2. pc \in KindCall /\ Holds /\ node = pc.obj /\ node # None /\ node \in Obj
  BY ObjAssumption DEF At, LockInv, CallerRuns, NodeOfCall, Holds, KindCall, KindObj
<1>3. pc' = [pc EXCEPT !.step = s, !.local = node] BY <1>2 DEF Checked
<1>4. Shape(pc, KindCall) BY <1>2, KindCallWellFormed DEF WellFormed
<1>5. pc' \in KindCall /\ Moved(pc, pc', node, s)
  BY <1>2, <1>3, <1>4 DEF Shape, CallStep
<1>6. pc' # None BY <1>5, CallNotNone
<1>7. UNCHANGED <<call, running, dispatch, fresh, objs, lock, node>>
  BY DEF Checked, vars, taskVars
<1>8. LockOfCall' /\ NodeOfCall'
  BY <1>2, <1>5, <1>6, <1>7 DEF LockInv, LockOfCall, NodeOfCall, Holds, Moved
<1>9. QED BY <1>1, <1>2, <1>5, <1>7, <1>8 DEF LockInv, CallerRuns, Holds

LEMMA GotoLocks ==
  ASSUME LockInv, NEW f, NEW s, At(f, s), s # "lock", Goto("unlock"), UNCHANGED kind,
         UNCHANGED <<sysFrame, fresh, objs, lock, node>>
  PROVE  /\ LockInv'
         /\ pc' \in KindCall /\ Moved(pc, pc', pc.local, "unlock")
<1>1. KindObj' = KindObj /\ KindCall' = KindCall BY DEF KindObj, KindCall
<1>2. pc \in KindCall /\ Holds
  BY DEF At, LockInv, CallerRuns, Holds
<1>3. Shape(pc, KindCall) BY <1>2, KindCallWellFormed DEF WellFormed
<1>4. pc' \in KindCall /\ Moved(pc, pc', pc.local, "unlock")
  BY <1>3 DEF Goto, Shape, CallStep
<1>5. pc' # None BY <1>4, CallNotNone
<1>6. UNCHANGED <<call, running, dispatch>> BY DEF sysFrame, taskVars
<1>7. LockOfCall' /\ NodeOfCall'
  BY <1>2, <1>4, <1>5 DEF LockInv, LockOfCall, NodeOfCall, Holds, Moved
<1>8. QED BY <1>1, <1>2, <1>4, <1>6, <1>7 DEF LockInv, CallerRuns, Holds

(* An interrupt finds the one node of its kind again, and a locked one is    *)
(* refused.                                                                  *)
LEMMA IsrLocks ==
  ASSUME Lone, LockInv, NEW f, NEW o \in KindObj, IsrEnter(f, o), UNCHANGED kind
  PROVE  LockInv'
<1>1. KindObj' = KindObj /\ KindCall' = KindCall BY DEF KindObj, KindCall
<1>2. UNCHANGED <<call, running, dispatch, fresh, objs, lock, pc>>
  BY DEF IsrEnter, sysFrame, taskVars
<1>3. pc # None => pc.obj = o
  BY LoneKind DEF LockInv, CallerRuns, KindCall
<1>4. node' = IF pc # None /\ pc.fn = f THEN ListSearch(o) ELSE node
  BY DEF IsrEnter
<1>5. NodeOfCall'
  BY <1>2, <1>3, <1>4, ObjAssumption DEF LockInv, NodeOfCall, Holds, ListSearch, KindObj
<1>6. QED
  BY <1>1, <1>2, <1>5 DEF LockInv, CallerRuns, LockOfCall, Holds

LEMMA IsrRefusedWhenHeld ==
  ASSUME Lone, LockInv, NEW o \in KindObj, IsrAccess(o, "WRITE")
  PROVE  ~Holds /\ o \in objs
<1>1. Holds => pc.obj = o
  BY LoneKind DEF Holds, LockInv, CallerRuns, KindCall
<1>2. o \in Obj /\ (Holds => lock[o] \in {1, -1})
  BY <1>1 DEF LockInv, LockOfCall, KindObj
<1>3. QED BY <1>2 DEF IsrAccess, UtilLock

(* The call of the running task past its lock, and where it is.              *)
LEMMA CallPastLock ==
  ASSUME LockInv, NEW f, NEW s, At(f, s), s # "lock"
  PROVE  /\ InTask /\ Holds /\ pc \in KindCall /\ phase = "thread"
         /\ node = pc.obj /\ pc.obj \in objs /\ pc.obj \in KindObj /\ pc.obj \notin fresh
         /\ s \in {"act", "register"} => pc.local = pc.obj
<1>1. Holds /\ pc \in KindCall /\ phase = "thread" /\ InTask
  BY CallerInTask DEF At, Holds, LockInv, CallerRuns
<1>2. pc.obj \in KindObj /\ pc.obj # None BY <1>1, ObjAssumption DEF KindCall, KindObj
<1>3. QED BY <1>1, <1>2 DEF At, LockInv, NodeOfCall
--------------------------------------------------------------------------------
(* The same with polls that are never permanent.                             *)
LEMMA KernelSys ==
  ASSUME KernelTypes, SysInv, KernelStep, UNCHANGED kind
  PROVE  SysInv'
BY KernelPermanent, KernelLocks DEF SysInv

LEMMA EnterSys ==
  ASSUME KernelInv, SysInv, NEW f, NEW o \in KindObj, NEW k \in Event \cup {None}, NEW mode,
         NEW arg, Enter(f, o, k, mode, arg), UNCHANGED kind,
         [fn |-> f, obj |-> o, mode |-> mode, arg |-> arg, local |-> None, step |-> "lock"]
           \in KindCall
  PROVE  SysInv'
<1>1. LockInv' BY EnterLocks DEF SysInv
<1>2. NoPermanent'
  <2> DEFINE M == IF k = None THEN listen[running] ELSE ITaskEventHandle(listen[running], k)
  <2>1. \A t \in Task : listen'[t] = IF t = running THEN M ELSE listen[t]
    BY DEF Enter, SetPolls, KernelInv, KernelTypes, TypeOK
  <2>2. running \in Task /\ (k # None => k \in Key)
    BY DEF KernelInv, KernelTypes, TypeOK, Key
  <2>3. \A e \in Key : M[e] # None => ~M[e].perm
    BY <2>2, HandlePolls DEF SysInv, NoPermanent, KernelInv
  <2>4. QED BY <2>1, <2>3 DEF SysInv, NoPermanent
<1>3. QED BY <1>1, <1>2 DEF SysInv

LEMMA CreateSys ==
  ASSUME SysInv, NEW o \in KindObj, Create(o) \/ Delete(o), UNCHANGED kind
  PROVE  SysInv'
<1>1. LockInv' BY CreateLocks DEF SysInv
<1>2. QED BY <1>1 DEF SysInv, NoPermanent, Create, Delete, vars

LEMMA LockSys ==
  ASSUME SysInv, LockNode, UNCHANGED kind
  PROVE  SysInv'
<1>1. LockInv' BY LockLocks DEF SysInv
<1>2. QED BY <1>1 DEF SysInv, NoPermanent, LockNode, vars

LEMMA UnlockSys ==
  ASSUME SysInv, UnlockNode, UNCHANGED kind
  PROVE  SysInv'
<1>1. LockInv' BY UnlockLocks DEF SysInv
<1>2. QED BY <1>1 DEF SysInv, NoPermanent, UnlockNode, vars

LEMMA CheckedSys ==
  ASSUME SysInv, NEW f, At(f, "check"), NEW s \in {"act", "register", "unlock"}, Checked(s),
         UNCHANGED kind
  PROVE  SysInv' /\ pc' \in KindCall /\ Moved(pc, pc', pc.obj, s)
<1>1. LockInv' /\ pc' \in KindCall /\ Moved(pc, pc', pc.obj, s) BY CheckedLocks DEF SysInv
<1>2. QED BY <1>1 DEF SysInv, NoPermanent, Checked, vars

LEMMA GotoSys ==
  ASSUME SysInv, NEW f, NEW s, At(f, s), s # "lock", Goto("unlock"), UNCHANGED kind,
         UNCHANGED <<sysFrame, fresh, objs, lock, node>>, NoPermanent'
  PROVE  SysInv' /\ pc' \in KindCall /\ Moved(pc, pc', pc.local, "unlock")
BY GotoLocks DEF SysInv

LEMMA IsrSys ==
  ASSUME Lone, SysInv, NEW f, NEW o \in KindObj, IsrEnter(f, o), UNCHANGED <<kind, listen>>
  PROVE  SysInv'
<1>1. LockInv' BY IsrLocks DEF SysInv
<1>2. QED BY <1>1 DEF SysInv, NoPermanent
--------------------------------------------------------------------------------
(* Wake-ups.  An event is announced when it is in EventList, or was refused  *)
(* or expired unseen; a task that polls it has heard of it when it was told  *)
(* or the event is announced.                                                *)
Announced(k) == (\E i \in 1 .. Len(evs) : evs[i] = k) \/ k \in lost

Heard(t, k) == OwnHash(k) /\ listen[t][k] # None => Told(t, k)

Unpolled(t, k) == OwnHash(k) => listen[t][k] = None

(* A step that adds no poll and takes no announcement away, but for the      *)
(* events in K.                                                              *)
Preserves(K) ==
  \A t \in Task, k \in Event \ K :
    /\ Unpolled(t, k) => Unpolled(t, k)'
    /\ Heard(t, k) => Heard(t, k)'

LEMMA QuietPreserves ==
  ASSUME NEW K,
         \A t \in Task, k \in Event \ K :
           OwnHash(k) => listen'[t][k] \in {None, listen[t][k]},
         \A k \in Event : OwnHash(k) /\ Announced(k) => Announced(k)'
  PROVE  Preserves(K)
BY DEF Preserves, Heard, Unpolled, Told, Announced, OwnHash

LEMMA IdlePreserves ==
  ASSUME UNCHANGED <<listen, evs, lost>>
  PROVE  Preserves({})
BY DEF Preserves, Heard, Unpolled, Told, OwnHash

LEMMA EnterPreserves ==
  ASSUME KernelInv, SysInv, NEW f, NEW o, NEW k \in Event \cup {None}, NEW mode, NEW arg,
         Enter(f, o, k, mode, arg)
  PROVE  Preserves({})
<1> DEFINE M == IF k = None THEN listen[running] ELSE ITaskEventHandle(listen[running], k)
<1>1. \A t \in Task : listen'[t] = IF t = running THEN M ELSE listen[t]
  BY DEF Enter, SetPolls, KernelInv, KernelTypes, TypeOK
<1>2. running \in Task /\ (k # None => k \in Key) /\ Event \subseteq Key
  BY DEF KernelInv, KernelTypes, TypeOK, Key
<1>3. \A e \in Event : M[e] \in {None, listen[running][e]}
  BY <1>2, HandlePolls DEF SysInv, NoPermanent, KernelInv
<1>4. \A e \in Event : Announced(e) => Announced(e)'
  BY DEF Announced, Enter, SetPolls, evVars
<1>5. QED BY <1>1, <1>3, <1>4, QuietPreserves

LEMMA RegisterPreserves ==
  ASSUME KernelInv, SysInv, NEW k \in Event, NEW ms \in Timeout \cup {Inf},
         SysCallRegister(k, ms), UNCHANGED <<evs, lost>>
  PROVE  Preserves({k}) /\ NoPermanent'
<1>1. PICK us \in ConvertMsToUs(ms) :
        listen' = [listen EXCEPT ![running] =
                     EventRegister(ITaskEventHandle(@, k), k, FALSE, us)]
  BY DEF SysCallRegister
<1> DEFINE H == ITaskEventHandle(listen[running], k)
           R == EventRegister(H, k, FALSE, us)
<1>2. \A t \in Task : listen'[t] = IF t = running THEN R ELSE listen[t]
  BY <1>1 DEF KernelInv, KernelTypes, TypeOK
<1>3. running \in Task /\ k \in Key /\ Event \subseteq Key /\ us \in LifeTime
  BY ConvertType DEF KernelInv, KernelTypes, TypeOK, Key
<1>4. H \in PollList BY <1>3, HandlePolls DEF KernelInv
<1>5. \A e \in Key : H[e] = None \/ H[e] = listen[running][e]
  BY <1>3, HandlePolls DEF SysInv, NoPermanent, KernelInv
<1>6. \A e \in Key : H[e] # None => ~H[e].perm
  BY <1>3, <1>5 DEF SysInv, NoPermanent
<1> HIDE DEF H
<1>7. ASSUME NEW e \in Key, R[e] # None
      PROVE  (OwnHash(e) /\ e # k => R[e] = H[e]) /\ ~R[e].perm
  <2>1. Registered(H, R, k) BY <1>3, <1>4, RegisterPolls
  <2> HIDE DEF R
  <2>2. QED BY <1>6, <1>7, <2>1 DEF Registered
<1> HIDE DEF R
<1>8. NoPermanent' BY <1>2, <1>7 DEF SysInv, NoPermanent
<1>9. \A t \in Task, e \in Event \ {k} :
        OwnHash(e) => listen'[t][e] \in {None, listen[t][e]}
  BY <1>2, <1>3, <1>5, <1>7
<1>10. \A e \in Event : Announced(e) => Announced(e)' BY DEF Announced
<1>11. QED BY <1>8, <1>9, <1>10, QuietPreserves

LEMMA EmitPreserves ==
  ASSUME KernelInv, NEW isr, NEW k \in Event, EmitFrom(isr, k), UNCHANGED listen
  PROVE  Preserves({}) /\ \A t \in Task : Heard(t, k)'
<1>1. Event \subseteq Key /\ evs \in Seq(Key)
  BY DEF Key, KernelInv, KernelTypes, TypeOK
<1>2. CASE EventEmit(k) /\ lost' = lost \ {k}
  <2>1. CASE InEventList(k)
    <3>1. evs' = evs BY <2>1, <1>2 DEF EventEmit, ResetEvent
    <3>2. OwnHash(k) => \E i \in 1 .. Len(evs) : evs[i] = k
      BY <1>1, <2>1 DEF OwnHash, InEventList
    <3>3. OwnHash(k) => Announced(k)' BY <3>1, <3>2 DEF Announced
    <3>4. \A e \in Event : OwnHash(e) /\ Announced(e) => Announced(e)'
      BY <1>2, <3>1, <3>3 DEF Announced
    <3>5. Preserves({}) BY <3>4, QuietPreserves
    <3>6. QED BY <3>3, <3>5 DEF Heard, Told, Announced, OwnHash
  <2>2. CASE ~InEventList(k)
    <3>1. evs' = Append(evs, k) BY <2>2, <1>2 DEF EventEmit, AddEvent
    <3>2. /\ Len(evs') = Len(evs) + 1 /\ evs'[Len(evs) + 1] = k /\ Len(evs) \in Nat
          /\ \A i \in 1 .. Len(evs) : evs'[i] = evs[i]
      BY <1>1, <3>1
    <3>3. Announced(k)' BY <3>2 DEF Announced
    <3>4. \A e \in Event : Announced(e) => Announced(e)'
      BY <1>2, <3>2, <3>3 DEF Announced
    <3>5. QED BY <3>3, <3>4, QuietPreserves DEF Heard, Told, Announced
  <2>3. QED BY <2>1, <2>2
<1>3. CASE UNCHANGED evs /\ lost' = lost \cup {k}
  <2>1. Announced(k)' BY <1>3 DEF Announced
  <2>2. \A e \in Event : Announced(e) => Announced(e)' BY <1>3 DEF Announced
  <2>3. QED BY <2>1, <2>2, QuietPreserves DEF Heard, Told, Announced
<1>4. QED BY <1>2, <1>3 DEF EmitFrom, evVars

LEMMA BothPreserves ==
  ASSUME KernelInv, NEW j \in Event, NEW k \in Event, UNCHANGED listen,
         \/ EmitBoth(j, k) /\ lost' = lost \ {j}
         \/ UNCHANGED evVars /\ lost' = lost \cup {j}
  PROVE  Preserves({}) /\ \A t \in Task : Heard(t, j)'
<1>1. Event \subseteq Key /\ evs \in Seq(Key)
  BY DEF Key, KernelInv, KernelTypes, TypeOK
<1>2. CASE EmitBoth(j, k) /\ lost' = lost \ {j}
  <2>1. /\ evs' \in Seq(Key) /\ Len(evs) <= Len(evs')
        /\ \A i \in 1 .. Len(evs) : evs'[i] = evs[i]
        /\ \E l \in 1 .. Len(evs') : Hash[evs'[l]] = Hash[j]
    BY <1>2, BothEvents DEF KernelInv
  <2>2. OwnHash(j) => \E l \in 1 .. Len(evs') : evs'[l] = j
    <3>1. PICK l \in 1 .. Len(evs') : Hash[evs'[l]] = Hash[j] BY <2>1
    <3>2. evs'[l] \in Key BY <2>1
    <3>3. QED BY <3>1, <3>2 DEF OwnHash
  <2>3. OwnHash(j) => Announced(j)' BY <2>2 DEF Announced
  <2>4. \A i \in 1 .. Len(evs) : i \in 1 .. Len(evs') BY <1>1, <2>1
  <2>5. \A e \in Event : OwnHash(e) /\ Announced(e) => Announced(e)'
    BY <1>2, <2>1, <2>3, <2>4 DEF Announced
  <2>6. Preserves({}) BY <2>5, QuietPreserves
  <2>7. QED BY <2>3, <2>6 DEF Heard, Told, Announced, OwnHash
<1>3. CASE UNCHANGED evVars /\ lost' = lost \cup {j}
  <2>1. Announced(j)' BY <1>3 DEF Announced
  <2>2. \A e \in Event : Announced(e) => Announced(e)' BY <1>3 DEF Announced, evVars
  <2>3. QED BY <2>1, <2>2, QuietPreserves DEF Heard, Told, Announced
<1>4. QED BY <1>2, <1>3

LEMMA ComparePreserves ==
  ASSUME KernelInv, NEW u \in Task, BrokerCompare(u), UNCHANGED lost
  PROVE  Preserves({})
<1> DEFINE L == ISchedulerTaskEventsCompare(listen[u], evs[idx], Last)
<1>1. \A t \in Task : listen'[t] = IF t = u THEN L ELSE listen[t]
  BY DEF BrokerCompare, KernelInv, KernelTypes, TypeOK
<1>2. UNCHANGED evs BY DEF BrokerCompare, evVars
<1>3. ASSUME NEW k \in Event, L[k] # None
      PROVE  /\ listen[u][k] # None
             /\ listen[u][k].occ \/ listen[u][k].tout => L[k].occ \/ L[k].tout
  <2>1. k \in Key /\ listen[u][k] # None
    BY <1>3 DEF Key, ISchedulerTaskEventsCompare
  <2>2. listen[u][k] \in Polled BY <2>1 DEF KernelInv, KernelTypes, TypeOK
  <2>3. \/ L[k] = [listen[u][k] EXCEPT !.occ = TRUE, !.tout = FALSE, !.cnt = 0]
        \/ L[k] = [listen[u][k] EXCEPT !.cnt = @ + delta]
        \/ L[k] = [listen[u][k] EXCEPT !.tout = TRUE]
        \/ L[k] = listen[u][k]
    BY <2>1 DEF ISchedulerTaskEventsCompare, PolledLifeTimeIncrement
  <2>4. CASE L[k] = [listen[u][k] EXCEPT !.occ = TRUE, !.tout = FALSE, !.cnt = 0]
    BY <2>1, <2>2, <2>4 DEF Polled
  <2>5. CASE L[k] = [listen[u][k] EXCEPT !.cnt = @ + delta]
    BY <2>1, <2>2, <2>5 DEF Polled
  <2>6. CASE L[k] = [listen[u][k] EXCEPT !.tout = TRUE]
    BY <2>1, <2>2, <2>6 DEF Polled
  <2>7. QED BY <2>1, <2>3, <2>4, <2>5, <2>6
<1> HIDE DEF L
<1>4. SUFFICES ASSUME NEW t \in Task, NEW k \in Event
               PROVE  /\ Unpolled(t, k) => Unpolled(t, k)'
                      /\ Heard(t, k) => Heard(t, k)'
  BY DEF Preserves
<1>5. CASE t = u BY <1>1, <1>2, <1>3, <1>5 DEF Heard, Unpolled, Told, OwnHash
<1>6. CASE t # u BY <1>1, <1>2, <1>6 DEF Heard, Unpolled, Told, OwnHash
<1>7. QED BY <1>5, <1>6

LEMMA CleanupPreserves ==
  ASSUME KernelInv, KernelStep, BrokerCleanup
  PROVE  Preserves({})
<1>1. /\ phase = "cleanup" /\ idx \in 1 .. Len(evs) /\ evs \in Seq(Key) /\ UNCHANGED listen
      /\ running \in Task
  BY DEF BrokerCleanup, KernelInv, KernelTypes, TypeOK, IdxInBounds
<1>2. SUFFICES ASSUME NEW t \in Task, NEW k \in Event, listen[t][k] # None, Told(t, k)
               PROVE  Told(t, k)'
  BY <1>1 DEF Preserves, Heard, Unpolled, OwnHash
<1>3. lost \subseteq lost' BY DEF KernelStep
<1>4. CASE ~Expired(idx)
  BY <1>1, <1>2, <1>3, <1>4 DEF BrokerCleanup, Told
<1>5. CASE Expired(idx)
  <2>0. evs' = RemoveAt(evs, idx) BY <1>5 DEF BrokerCleanup
  <2>1. /\ Len(evs') = Len(evs) - 1 /\ Len(evs) \in Nat
        /\ \A j \in 1 .. Len(evs) - 1 : evs'[j] = IF j < idx THEN evs[j] ELSE evs[j + 1]
    BY <1>1, <2>0, RemoveAtProperties
  <2>2. CASE k = evs[idx]
    <3>1. t # running => listen[t][k].occ
      BY <1>1, <1>2, <2>2 DEF KernelInv, AllSeen, Seen, Pending
    <3>2. t = running => k \in lost'
      BY <1>1, <1>2, <1>5, <2>2 DEF KernelStep
    <3>3. QED BY <1>1, <3>1, <3>2 DEF Told
  <2>3. ASSUME k # evs[idx], NEW i \in 1 .. Len(evs), evs[i] = k
        PROVE  \E j \in 1 .. Len(evs') : evs'[j] = k
    <3>1. CASE i < idx BY <1>1, <2>1, <2>3, <3>1
    <3>2. CASE i > idx
      <4>1. i - 1 \in 1 .. Len(evs') /\ evs'[i - 1] = evs[i]
        BY <1>1, <2>1, <2>3, <3>2
      <4>2. QED BY <2>3, <4>1
    <3>3. QED BY <1>1, <2>3, <3>1, <3>2
  <2>4. QED BY <1>1, <1>2, <1>3, <2>2, <2>3 DEF Told
<1>6. QED BY <1>4, <1>5

LEMMA KernelPreserves ==
  ASSUME KernelInv, KernelStep
  PROVE  Preserves({})
<1>1. lost \subseteq lost' BY DEF KernelStep
<1>2. ASSUME UNCHANGED <<listen, evs>> PROVE Preserves({})
  BY <1>1, <1>2 DEF Preserves, Heard, Unpolled, Told, OwnHash
<1>3. ASSUME NEW t \in Known, EmitAtOnce(t) PROVE Preserves({})
  <2>1. evs' = evs \/ evs' = Append(evs, t) BY <1>3 DEF EmitAtOnce, EventEmit, ResetEvent, AddEvent
  <2>2. evs \in Seq(Key) BY DEF KernelInv, KernelTypes, TypeOK
  <2>3. \A i \in 1 .. Len(evs) : \E j \in 1 .. Len(evs') : evs'[j] = evs[i]
    <3>1. CASE evs' = evs BY <3>1
    <3>2. CASE evs' = Append(evs, t)
      <4>1. Len(evs') = Len(evs) + 1 /\ Len(evs) \in Nat
            /\ \A i \in 1 .. Len(evs) : evs'[i] = evs[i]
        BY <2>2, <3>2
      <4>2. QED BY <4>1
    <3>3. QED BY <2>1, <3>1, <3>2
  <2>4. \A k \in Event : Announced(k) => Announced(k)'
    BY <1>1, <2>3 DEF Announced
  <2>5. UNCHANGED listen BY <1>3 DEF EmitAtOnce
  <2>6. QED BY <2>4, <2>5, QuietPreserves
<1>4. ASSUME NEW t \in Task, BrokerCompare(t) PROVE Preserves({})
  <2>1. UNCHANGED lost BY <1>4 DEF BrokerCompare, KernelStep
  <2>2. QED BY <1>4, <2>1, ComparePreserves
<1>5. ASSUME \/ \E tc \in 0 .. TickPeriod : ICoreTickInvoke(tc)
             \/ KernelTaskIdle \/ Tick \/ BrokerAddressed \/ BrokerEvent \/ BrokerNextList
      PROVE  UNCHANGED <<listen, evs>>
  BY <1>5 DEF ICoreTickInvoke, KernelTaskIdle, Tick, OsTick, BrokerAddressed, BrokerEvent,
              BrokerNextList, evVars
<1>6. QED BY <1>2, <1>3, <1>4, <1>5, CleanupPreserves DEF KernelStep, Broker
--------------------------------------------------------------------------------
(* Message queues.  Between the check and what is done about it the queue is *)
(* locked, so that the check still holds.                                    *)
MessageHeard ==
  \A q \in objs, t \in Task :
    /\ mq[q] # <<>> => Heard(t, SendEvent[q])
    /\ Space(q) => Heard(t, ReceiveEvent[q])

MessageUnborn ==
  \A q \in Queue, t \in Task :
    q \in fresh => Unpolled(t, SendEvent[q]) /\ Unpolled(t, ReceiveEvent[q])

MessageChecked ==
  pc # None =>
    /\ pc.fn = "MessageSend" /\ pc.step = "register" => ~Space(pc.obj)
    /\ pc.fn = "MessageReceive" /\ pc.step = "register" => mq[pc.obj] = <<>>
    /\ pc.fn = "MessageReceive" /\ pc.step = "act" => mq[pc.obj] # <<>>

MessageInv ==
  kind = "message" =>
    mq \in [Queue -> Seq(Msg)] /\ MessageHeard /\ MessageUnborn /\ MessageChecked

LEMMA MessageKind ==
  ASSUME kind = "message"
  PROVE  KindObj = Queue /\ KindCall = MessageCall
<1>1. KindObj = Queue BY ObjAssumption DEF KindObj
<1>2. \A c \in MessageCall : c.obj \in Queue BY DEF MessageCall, CallOf
<1>3. \A c \in MailboxCall : c.obj \in Mbx BY DEF MailboxCall, CallOf
<1>4. \A c \in EventgroupCall : c.obj \in Group BY DEF EventgroupCall, CallOf
<1>5. \A c \in SemaphoreCall : c.obj \in Sem BY DEF SemaphoreCall, CallOf
<1>6. QED BY <1>1, <1>2, <1>3, <1>4, <1>5, ObjAssumption DEF KindCall

(* A step that leaves the queues and what was checked alone.                 *)
LEMMA MessageKept ==
  ASSUME SysInv, MessageInv, kind = "message", Preserves({}),
         UNCHANGED <<mq, objs, fresh, kind>>, MessageChecked'
  PROVE  MessageInv'
<1>1. objs \subseteq Queue BY MessageKind DEF SysInv, LockInv
<1>2. \A q \in Queue : SendEvent[q] \in Event /\ ReceiveEvent[q] \in Event
  BY EventAssumption
<1>3. \A q : Space(q)' <=> Space(q) BY DEF Space
<1>4. MessageHeard'
  BY <1>1, <1>2, <1>3 DEF MessageInv, MessageHeard, Preserves
<1>5. MessageUnborn' BY <1>2 DEF MessageInv, MessageUnborn, Preserves
<1>6. QED BY <1>4, <1>5 DEF MessageInv

LEMMA MessageArgs ==
  ASSUME NEW c \in MessageCall
  PROVE  /\ c.obj \in Queue
         /\ c.fn = "MessageSend" => c.arg \in [msg : Msg, ms : Timeout \cup {Inf}]
         /\ c.fn = "MessageReceive" => c.arg \in [ms : Timeout \cup {Inf}]
BY DEF MessageCall, CallOf

(* The facts that every step of a call starts from.                          *)
Calm ==
  Lone /\ KernelInv /\ SysInv /\ UNCHANGED kind

LEMMA MessageEnter ==
  ASSUME Calm, MessageInv, kind = "message", NEW f, NEW q \in Queue, NEW k \in Event \cup {None},
         NEW arg, Enter(f, q, k, "WRITE", arg), UNCHANGED mq,
         [fn |-> f, obj |-> q, mode |-> "WRITE", arg |-> arg, local |-> None, step |-> "lock"]
           \in MessageCall
  PROVE  KernelInv' /\ SysInv' /\ MessageInv'
<1>1. KernelInv' BY EnterKernel, KernelInvStep DEF Calm
<1>2. SysInv' BY EnterSys, MessageKind DEF Calm
<1>3. UNCHANGED <<objs, fresh>> BY DEF Enter
<1>4. pc = None /\ (pc' = pc \/ pc'.step = "lock") BY EnterStep
<1>6. MessageChecked' BY <1>4 DEF MessageChecked
<1>7. Preserves({}) BY EnterPreserves DEF Calm
<1>8. QED BY <1>1, <1>2, <1>3, <1>6, <1>7, MessageKept DEF Calm

LEMMA MessageCheck ==
  ASSUME Calm, MessageInv, kind = "message", NEW f, At(f, "check"),
         NEW s \in {"act", "register", "unlock"}, Checked(s), UNCHANGED mq,
         f = "MessageSend" /\ s = "register" => ~Space(pc.obj),
         f = "MessageReceive" /\ s = "register" => mq[pc.obj] = <<>>,
         f = "MessageReceive" /\ s = "act" => mq[pc.obj] # <<>>
  PROVE  KernelInv' /\ SysInv' /\ MessageInv'
<1>1. KernelInv' BY KernelInvStep DEF Calm, Checked
<1>2. SysInv' /\ Moved(pc, pc', pc.obj, s) BY CheckedSys DEF Calm
<1>3. UNCHANGED <<objs, fresh, listen, evs, lost>> BY DEF Checked, vars, evVars
<1>4. MessageChecked'
  BY <1>2 DEF MessageChecked, Moved, At, Space
<1>5. Preserves({}) BY <1>3, IdlePreserves
<1>6. QED BY <1>1, <1>2, <1>3, <1>4, <1>5, MessageKept DEF Calm

(* A message is added or taken: the event that tells is announced.           *)
LEMMA MessageAppended ==
  ASSUME Calm, MessageInv, kind = "message", NEW isr, NEW q \in objs, NEW m \in Msg,
         AppendMessage(isr, q, q, m), UNCHANGED <<objs, fresh>>, MessageChecked'
  PROVE  MessageInv'
<1>1. objs \subseteq Queue BY MessageKind DEF Calm, SysInv, LockInv
<1>2. \A r \in Queue : SendEvent[r] \in Event /\ ReceiveEvent[r] \in Event
  BY EventAssumption
<1>3. Preserves({}) /\ \A t \in Task : Heard(t, SendEvent[q])'
  BY <1>1, <1>2, EmitPreserves DEF AppendMessage, Calm
<1>4. mq \in [Queue -> Seq(Msg)] /\ mq' = [mq EXCEPT ![q] = Append(@, m)]
  BY DEF MessageInv, AppendMessage
<1>5. mq'[q] = Append(mq[q], m) /\ mq[q] \in Seq(Msg) /\ \A r \in Queue : r # q => mq'[r] = mq[r]
  BY <1>1, <1>4
<1>6. Space(q)' => Space(q)
  BY <1>5, SizeAssumption DEF Space
<1>7. mq' \in [Queue -> Seq(Msg)] BY <1>1, <1>4, <1>5
<1>8. ASSUME NEW r \in objs, NEW t \in Task
      PROVE  /\ mq'[r] # <<>> => Heard(t, SendEvent[r])'
             /\ Space(r)' => Heard(t, ReceiveEvent[r])'
  <2>1. r \in Queue /\ SendEvent[r] \in Event /\ ReceiveEvent[r] \in Event BY <1>1, <1>2, <1>8
  <2>2. CASE r = q
    BY <1>3, <1>6, <2>1, <2>2 DEF MessageInv, MessageHeard, Preserves
  <2>3. CASE r # q
    BY <1>3, <1>5, <2>1, <2>3 DEF MessageInv, MessageHeard, Preserves, Space
  <2>4. QED BY <2>2, <2>3
<1>9. MessageHeard' BY <1>8 DEF MessageHeard
<1>10. MessageUnborn' BY <1>2, <1>3 DEF MessageInv, MessageUnborn, Preserves
<1>11. QED BY <1>7, <1>9, <1>10 DEF MessageInv

LEMMA MessageTaken ==
  ASSUME Calm, MessageInv, kind = "message", NEW q \in objs, mq[q] # <<>>,
         TakeMessage(q, q), UNCHANGED <<objs, fresh>>, MessageChecked'
  PROVE  MessageInv'
<1>1. objs \subseteq Queue BY MessageKind DEF Calm, SysInv, LockInv
<1>2. \A r \in Queue : SendEvent[r] \in Event /\ ReceiveEvent[r] \in Event
  BY EventAssumption
<1>3. Preserves({}) /\ \A t \in Task : Heard(t, ReceiveEvent[q])'
  BY <1>1, <1>2, EmitPreserves DEF TakeMessage, Calm
<1>4. mq \in [Queue -> Seq(Msg)] /\ mq' = [mq EXCEPT ![q] = Tail(@)]
  BY DEF MessageInv, TakeMessage
<1>5. mq'[q] = Tail(mq[q]) /\ mq[q] \in Seq(Msg) /\ \A r \in Queue : r # q => mq'[r] = mq[r]
  BY <1>1, <1>4
<1>7. mq' \in [Queue -> Seq(Msg)] BY <1>1, <1>4, <1>5
<1>8. ASSUME NEW r \in objs, NEW t \in Task
      PROVE  /\ mq'[r] # <<>> => Heard(t, SendEvent[r])'
             /\ Space(r)' => Heard(t, ReceiveEvent[r])'
  <2>1. r \in Queue /\ SendEvent[r] \in Event /\ ReceiveEvent[r] \in Event BY <1>1, <1>2, <1>8
  <2>2. CASE r = q
    BY <1>3, <2>1, <2>2 DEF MessageInv, MessageHeard, Preserves
  <2>3. CASE r # q
    BY <1>3, <1>5, <2>1, <2>3 DEF MessageInv, MessageHeard, Preserves, Space
  <2>4. QED BY <2>2, <2>3
<1>9. MessageHeard' BY <1>8 DEF MessageHeard
<1>10. MessageUnborn' BY <1>2, <1>3 DEF MessageInv, MessageUnborn, Preserves
<1>11. QED BY <1>7, <1>9, <1>10 DEF MessageInv

(* A task polls: what it polls for is not there.                             *)
LEMMA MessagePolled ==
  ASSUME Calm, MessageInv, kind = "message", NEW f, At(f, "register"), Goto("unlock"),
         NEW q, q = pc.obj,
         NEW k \in {SendEvent[q], ReceiveEvent[q]}, NEW ms \in Timeout \cup {Inf},
         k = SendEvent[q] => mq[q] = <<>>,
         k = ReceiveEvent[q] => ~Space(q),
         SysCallRegister(k, ms),
         UNCHANGED <<sysFrame, evVars, fresh, objs, lock, node, lost, mq>>
  PROVE  KernelInv' /\ SysInv' /\ MessageInv'
<1>1. /\ InTask /\ q \in objs /\ q \in Queue /\ q \notin fresh
      /\ \A r \in Queue : r = q
  BY CallPastLock, MessageKind DEF Calm, SysInv, Lone
<1>2. \A r \in Queue : SendEvent[r] \in Event /\ ReceiveEvent[r] \in Event
  BY EventAssumption
<1>3. k \in Event BY <1>1, <1>2
<1>4. KernelInv' BY <1>1, <1>3, RegisterKernel, KernelInvStep DEF Calm
<1>5. Preserves({k}) /\ NoPermanent'
  BY <1>3, RegisterPreserves DEF Calm, evVars
<1>6. SysInv' /\ Moved(pc, pc', pc.local, "unlock")
  BY <1>5, GotoSys DEF Calm
<1>7. MessageChecked' BY <1>6 DEF MessageChecked, Moved
<1>8. objs \subseteq Queue BY MessageKind DEF Calm, SysInv, LockInv
<1>9. MessageHeard'
  <2>1. SUFFICES ASSUME NEW t \in Task
                 PROVE  /\ mq[q] # <<>> => Heard(t, SendEvent[q])'
                        /\ Space(q) => Heard(t, ReceiveEvent[q])'
    BY <1>1, <1>8 DEF MessageHeard, Space
  <2>2. SendEvent[q] # ReceiveEvent[q]
    BY <1>1, EventsApart
  <2>3. k # SendEvent[q] /\ mq[q] # <<>> => Heard(t, SendEvent[q])'
    BY <1>1, <1>2, <1>5 DEF Preserves, MessageInv, MessageHeard
  <2>4. k # ReceiveEvent[q] /\ Space(q) => Heard(t, ReceiveEvent[q])'
    BY <1>1, <1>2, <1>5 DEF Preserves, MessageInv, MessageHeard
  <2>5. QED BY <2>3, <2>4
<1>10. MessageUnborn' BY <1>1 DEF MessageUnborn
<1>11. QED BY <1>4, <1>6, <1>7, <1>9, <1>10 DEF MessageInv

LEMMA MessageStep ==
  ASSUME Calm, MessageInv, kind = "message", MessageNext
  PROVE  KernelInv' /\ SysInv' /\ MessageInv'
<1>0. /\ objs \subseteq Queue
      /\ \A q \in Queue : SendEvent[q] \in Event /\ ReceiveEvent[q] \in Event
  BY MessageKind, EventAssumption DEF Calm, SysInv, LockInv
<1>1. ASSUME NEW q \in Queue, NEW ms \in Timeout \cup {Inf}, MessageReceive(q, ms)
      PROVE  KernelInv' /\ SysInv' /\ MessageInv'
  <2>1. [fn |-> "MessageReceive", obj |-> q, mode |-> "WRITE", arg |-> [ms |-> ms],
         local |-> None, step |-> "lock"] \in MessageCall
    BY <1>1 DEF MessageCall, CallOf
  <2>2. QED BY <1>0, <1>1, <2>1, MessageEnter DEF MessageReceive
<1>2. ASSUME NEW q \in Queue, NEW m \in Msg, NEW ms \in Timeout \cup {Inf}, MessageSend(q, m, ms)
      PROVE  KernelInv' /\ SysInv' /\ MessageInv'
  <2>1. [fn |-> "MessageSend", obj |-> q, mode |-> "WRITE", arg |-> [msg |-> m, ms |-> ms],
         local |-> None, step |-> "lock"] \in MessageCall
    BY <1>2 DEF MessageCall, CallOf
  <2>2. QED BY <1>0, <1>2, <2>1, MessageEnter DEF MessageSend
<1>3. CASE MessageQueueSizeGet
  <2>1. ASSUME NEW q \in Queue, Enter("SizeGet", q, None, "WRITE", None)
        PROVE  KernelInv' /\ SysInv' /\ MessageInv'
    <3>1. [fn |-> "SizeGet", obj |-> q, mode |-> "WRITE", arg |-> None,
           local |-> None, step |-> "lock"] \in MessageCall
      BY <2>1 DEF MessageCall, CallOf
    <3>2. QED BY <1>3, <2>1, <3>1, MessageEnter DEF MessageQueueSizeGet
  <2>2. CASE At("SizeGet", "check") /\ Checked("unlock")
    BY <1>3, <2>2, MessageCheck DEF MessageQueueSizeGet
  <2>3. QED BY <1>3, <2>1, <2>2 DEF MessageQueueSizeGet, Read
<1>4. ASSUME NEW q \in Queue, MessageQueueCreate(q)
      PROVE  KernelInv' /\ SysInv' /\ MessageInv'
  <2>1. /\ pc' = None /\ q \in fresh /\ fresh' = fresh \ {q} /\ objs' = objs \cup {q}
        /\ UNCHANGED <<vars, lost>> /\ mq' = [mq EXCEPT ![q] = <<>>]
    BY <1>4 DEF MessageQueueCreate, Create
  <2>2. KernelInv' BY <2>1, KernelInvStep DEF Calm
  <2>3. SysInv' BY <1>4, CreateSys, MessageKind DEF MessageQueueCreate, Calm
  <2>4. mq' \in [Queue -> Seq(Msg)] /\ \A r \in Queue : r # q => mq'[r] = mq[r]
    BY <2>1 DEF MessageInv
  <2>5. UNCHANGED <<listen, evs>> BY <2>1 DEF vars, evVars
  <2>6. \A t \in Task : Heard(t, SendEvent[q])' /\ Heard(t, ReceiveEvent[q])'
    BY <2>1, <2>5 DEF MessageInv, MessageUnborn, Heard, Unpolled, OwnHash
  <2>7. MessageHeard'
    <3>1. SUFFICES ASSUME NEW r \in objs \cup {q}, NEW t \in Task
                   PROVE  /\ mq'[r] # <<>> => Heard(t, SendEvent[r])'
                          /\ Space(r)' => Heard(t, ReceiveEvent[r])'
      BY <2>1 DEF MessageHeard
    <3>2. CASE r = q BY <2>6, <3>2
    <3>3. CASE r # q
      <4>1. r \in objs /\ r \in Queue BY <1>0, <3>1, <3>3
      <4>2. Preserves({}) BY <2>1, <2>5, IdlePreserves
      <4>3. QED
        BY <1>0, <2>4, <3>3, <4>1, <4>2 DEF MessageInv, MessageHeard, Preserves, Space
    <3>4. QED BY <3>2, <3>3
  <2>8. MessageUnborn' BY <2>1, <2>5 DEF MessageInv, MessageUnborn, Unpolled, OwnHash
  <2>9. MessageChecked' BY <2>1 DEF MessageChecked
  <2>10. QED BY <2>2, <2>3, <2>4, <2>7, <2>8, <2>9 DEF MessageInv
<1>5. ASSUME NEW q \in Queue, NEW m \in Msg, IsrMessageSend(q, m)
      PROVE  KernelInv' /\ SysInv' /\ MessageInv'
  <2>1. IsrEnter("MessageSend", q) /\ phase = "thread" /\ UNCHANGED <<sysFrame, pc, objs, fresh>>
    BY <1>5 DEF IsrMessageSend, IsrEnter
  <2>2. UNCHANGED listen
    BY <1>5 DEF IsrMessageSend, AppendMessage, IsrRefused
  <2>3. SysInv' BY <2>1, <2>2, IsrSys, MessageKind DEF Calm
  <2>4. CASE IsrAccess(q, "WRITE") /\ AppendMessage(TRUE, q, q, m)
    <3>1. ~Holds /\ q \in objs BY <2>4, IsrRefusedWhenHeld, MessageKind DEF Calm, SysInv
    <3>2. MessageChecked' BY <2>1, <3>1 DEF MessageChecked, Holds
    <3>3. KernelInv'
      BY <1>0, <2>1, <2>4, EmitKernel, KernelInvStep DEF AppendMessage, Calm
    <3>4. QED BY <2>1, <2>3, <2>4, <3>1, <3>2, <3>3, MessageAppended
  <2>5. CASE IsrRefused /\ UNCHANGED mq
    <3>1. UNCHANGED vars BY <2>1, <2>5 DEF IsrRefused, sysFrame, vars
    <3>2. KernelInv' BY <3>1, KernelInvStep DEF Calm
    <3>3. Preserves({}) BY <2>5, IdlePreserves DEF IsrRefused, evVars
    <3>4. MessageChecked' BY <2>1, <2>5 DEF MessageInv, MessageChecked, Space
    <3>5. QED BY <2>1, <2>3, <2>5, <3>2, <3>3, <3>4, MessageKept DEF Calm
  <2>6. QED BY <1>5, <2>4, <2>5 DEF IsrMessageSend
<1>6. CASE MessageSendStep
  <2>1. CASE /\ At("MessageSend", "check")
             /\ Checked(IF Space(node) THEN "act" ELSE "register") /\ UNCHANGED mq
    <3>1. node = pc.obj BY <2>1, CallPastLock DEF Calm, SysInv
    <3>2. QED BY <2>1, <3>1, MessageCheck
  <2>2. CASE /\ At("MessageSend", "act") /\ Goto("unlock")
             /\ AppendMessage(FALSE, pc.local, pc.obj, pc.arg.msg)
             /\ UNCHANGED <<sysFrame, fresh, objs, lock, node>>
    <3>1. pc.local = pc.obj /\ pc.obj \in objs /\ pc \in MessageCall /\ phase = "thread"
      BY <2>2, CallPastLock, MessageKind DEF Calm, SysInv
    <3>2. pc.arg.msg \in Msg BY <2>2, <3>1, MessageArgs DEF At
    <3>3. NoPermanent' BY <2>2 DEF Calm, SysInv, NoPermanent, AppendMessage
    <3>4. SysInv' /\ Moved(pc, pc', pc.local, "unlock") BY <2>2, <3>3, GotoSys DEF Calm
    <3>5. KernelInv'
      BY <1>0, <2>2, <3>1, EmitKernel, KernelInvStep DEF AppendMessage, Calm
    <3>6. MessageChecked' BY <3>4 DEF MessageChecked, Moved
    <3>7. QED BY <2>2, <3>1, <3>2, <3>4, <3>5, <3>6, MessageAppended
  <2>3. CASE /\ At("MessageSend", "register") /\ Goto("unlock")
             /\ SysCallRegister(ReceiveEvent[pc.obj], pc.arg.ms)
             /\ UNCHANGED <<sysFrame, evVars, fresh, objs, lock, node, lost, mq>>
    <3>1. pc \in MessageCall BY <2>3, CallPastLock, MessageKind DEF Calm, SysInv
    <3>2. pc.arg.ms \in Timeout \cup {Inf} BY <2>3, <3>1, MessageArgs DEF At
    <3>3. ~Space(pc.obj) BY <2>3 DEF At, MessageInv, MessageChecked
    <3>4. SendEvent[pc.obj] # ReceiveEvent[pc.obj]
      BY <3>1, MessageArgs, EventsApart
    <3>5. QED BY <2>3, <3>2, <3>3, <3>4, MessagePolled
  <2>4. QED BY <1>6, <2>1, <2>2, <2>3 DEF MessageSendStep
<1>7. CASE MessageReceiveStep
  <2>1. CASE /\ At("MessageReceive", "check")
             /\ Checked(IF Owner[node] # running THEN "unlock"
                        ELSE IF mq[node] # <<>> THEN "act" ELSE "register")
             /\ UNCHANGED mq
    <3>1. node = pc.obj BY <2>1, CallPastLock DEF Calm, SysInv
    <3>2. QED BY <2>1, <3>1, MessageCheck
  <2>2. CASE /\ At("MessageReceive", "act") /\ Goto("unlock")
             /\ TakeMessage(pc.local, pc.obj)
             /\ UNCHANGED <<sysFrame, fresh, objs, lock, node>>
    <3>1. pc.local = pc.obj /\ pc.obj \in objs /\ phase = "thread"
      BY <2>2, CallPastLock, MessageKind DEF Calm, SysInv
    <3>2. mq[pc.obj] # <<>> BY <2>2 DEF At, MessageInv, MessageChecked
    <3>3. NoPermanent' BY <2>2 DEF Calm, SysInv, NoPermanent, TakeMessage
    <3>4. SysInv' /\ Moved(pc, pc', pc.local, "unlock") BY <2>2, <3>3, GotoSys DEF Calm
    <3>5. KernelInv'
      BY <1>0, <2>2, <3>1, EmitKernel, KernelInvStep DEF TakeMessage, Calm
    <3>6. MessageChecked' BY <3>4 DEF MessageChecked, Moved
    <3>7. QED BY <2>2, <3>1, <3>2, <3>4, <3>5, <3>6, MessageTaken
  <2>3. CASE /\ At("MessageReceive", "register") /\ Goto("unlock")
             /\ SysCallRegister(SendEvent[pc.obj], pc.arg.ms)
             /\ UNCHANGED <<sysFrame, evVars, fresh, objs, lock, node, lost, mq>>
    <3>1. pc \in MessageCall BY <2>3, CallPastLock, MessageKind DEF Calm, SysInv
    <3>2. pc.arg.ms \in Timeout \cup {Inf} BY <2>3, <3>1, MessageArgs DEF At
    <3>3. mq[pc.obj] = <<>> BY <2>3 DEF At, MessageInv, MessageChecked
    <3>4. SendEvent[pc.obj] # ReceiveEvent[pc.obj]
      BY <3>1, MessageArgs, EventsApart
    <3>5. QED BY <2>3, <3>2, <3>3, <3>4, MessagePolled
  <2>4. QED BY <1>7, <2>1, <2>2, <2>3 DEF MessageReceiveStep
<1>8. QED BY <1>1, <1>2, <1>3, <1>4, <1>5, <1>6, <1>7 DEF MessageNext
--------------------------------------------------------------------------------
(* Mailboxes: what is said of an address needs that it has a counter of its  *)
(* own.                                                                      *)
Address == 0 .. MbxSize - 1

CountersTyped == counter \in [Mbx -> [Index -> Nat]] /\ CountersFit

MailboxHeard ==
  \A b \in objs, a \in Address, t \in Task : OwnCounter(a) =>
    /\ counter[b][a] # 0 => Heard(t, PostEvent[b][a])
    /\ counter[b][a] = 0 => Heard(t, PendEvent[b][a])

MailboxUnborn ==
  \A b \in Mbx, a \in Address, t \in Task :
    b \in fresh => Unpolled(t, PostEvent[b][a]) /\ Unpolled(t, PendEvent[b][a])

MailboxChecked ==
  pc # None /\ pc.step \in {"act", "register"} =>
    /\ pc.fn = "IMailboxWrite" =>
         /\ pc.arg.addr \in Address
         /\ pc.step = "register" => counter[pc.obj][pc.arg.addr] # 0
    /\ pc.fn = "MailboxPend" =>
         /\ pc.arg.addr \in Address
         /\ pc.step = "register" <=> counter[pc.obj][pc.arg.addr] = 0

MailboxInv ==
  kind = "mailbox" =>
    /\ CountersTyped
    /\ MailboxHeard /\ MailboxUnborn /\ MailboxChecked

LEMMA MailboxKind ==
  ASSUME kind = "mailbox"
  PROVE  KindObj = Mbx /\ KindCall = MailboxCall
<1>1. KindObj = Mbx BY ObjAssumption DEF KindObj
<1>2. \A c \in MessageCall : c.obj \in Queue BY DEF MessageCall, CallOf
<1>3. \A c \in MailboxCall : c.obj \in Mbx BY DEF MailboxCall, CallOf
<1>4. \A c \in EventgroupCall : c.obj \in Group BY DEF EventgroupCall, CallOf
<1>5. \A c \in SemaphoreCall : c.obj \in Sem BY DEF SemaphoreCall, CallOf
<1>6. QED BY <1>1, <1>2, <1>3, <1>4, <1>5, ObjAssumption DEF KindCall

LEMMA MailboxSizes ==
  /\ Cardinality(MbxOwner) \in Nat
  /\ Address \subseteq Index
  /\ \A a \in Address : Offset(a) \in Index /\ (OwnCounter(a) => Offset(a) = a)
<1>1. Cardinality(MbxOwner) \in Nat BY SizeAssumption, FS_CardinalityType
<1>2. Width \in Nat /\ Width >= 1 /\ MbxSize \in Nat /\ MbxSize * Width \in Nat
  BY SizeAssumption
<1>3. ASSUME NEW a \in Address PROVE a \in Index /\ Offset(a) \in Index
  <2>1. a \in Nat /\ a <= MbxSize - 1 BY <1>2 DEF Address
  <2>2. a * Width \in Nat /\ a <= a * Width BY <1>2, <2>1
  <2>3. (MbxSize - 1 - a) * Width >= 0 BY <1>2, <2>1
  <2>4. a * Width <= MbxSize * Width - Width BY <1>2, <2>1, <2>3
  <2>5. PICK p \in Nat : p = a * Width BY <2>2
  <2>6. p % 256 \in 0 .. p BY <2>5
  <2>7. QED BY <1>2, <2>1, <2>2, <2>4, <2>5, <2>6 DEF Index, Offset
<1>4. \A a \in Address : OwnCounter(a) => Offset(a) = a BY DEF OwnCounter, Address
<1>5. QED BY <1>1, <1>3, <1>4

(* A counter is set: of the addresses with a counter of their own it is the  *)
(* one of the address that is posted or pended.                              *)
LEMMA CounterSet ==
  ASSUME CountersTyped, NEW b \in Mbx, NEW a \in Address, NEW n \in Nat,
         OwnCounter(a) => n <= Cardinality(MbxOwner),
         counter' = [counter EXCEPT ![b][Offset(a)] = n]
  PROVE  /\ CountersTyped'
         /\ \A c \in Mbx, d \in Address : OwnCounter(d) =>
              counter'[c][d] = IF c = b /\ d = a THEN n ELSE counter[c][d]
<1>1. Offset(a) \in Index /\ Address \subseteq Index BY MailboxSizes
<1>2. counter \in [Mbx -> [Index -> Nat]] BY DEF CountersTyped
<1>3. counter' \in [Mbx -> [Index -> Nat]] BY <1>1, <1>2
<1>4. ASSUME NEW c \in Mbx, NEW d \in Address, OwnCounter(d)
      PROVE  counter'[c][d] = IF c = b /\ d = a THEN n ELSE counter[c][d]
  <2>1. Offset(a) = d <=> a = d BY <1>4 DEF OwnCounter, Address
  <2>2. counter'[c][d] = IF c = b /\ d = Offset(a) THEN n ELSE counter[c][d]
    BY <1>1, <1>2
  <2>3. QED BY <2>1, <2>2
<1>5. CountersFit'
  <2>1. SUFFICES ASSUME NEW c \in Mbx, NEW d \in Address, OwnCounter(d)
                 PROVE  counter'[c][d] <= Cardinality(MbxOwner)
    BY DEF CountersFit, Address, OwnCounter, Offset
  <2>2. counter[c][d] <= Cardinality(MbxOwner) BY <2>1 DEF CountersTyped, CountersFit, Address
  <2>3. QED BY <1>4, <2>1, <2>2
<1>6. QED BY <1>3, <1>4, <1>5 DEF CountersTyped

(* One is taken from the counter of an address that is posted.               *)
LEMMA CounterTaken ==
  ASSUME CountersTyped, NEW b \in Mbx, NEW a \in Address, counter[b][a] # 0
  PROVE  /\ (counter[b][Offset(a)] - 1) % 256 \in Nat
         /\ OwnCounter(a) => (counter[b][Offset(a)] - 1) % 256 <= Cardinality(MbxOwner)
<1>1. Offset(a) \in Index /\ a \in Index /\ Cardinality(MbxOwner) \in Nat BY MailboxSizes
<1>2. PICK x \in Nat : x = counter[b][Offset(a)] BY <1>1 DEF CountersTyped
<1>3. (x - 1) % 256 \in 0 .. 255 BY <1>2
<1>4. ASSUME OwnCounter(a) PROVE x # 0 /\ x <= Cardinality(MbxOwner)
  <2>1. Offset(a) = a BY <1>4, MailboxSizes
  <2>2. QED BY <1>2, <1>4, <2>1 DEF CountersTyped, CountersFit, Address
<1>5. x # 0 => (x - 1) % 256 <= x - 1 BY <1>2
<1>6. QED BY <1>1, <1>2, <1>3, <1>4, <1>5

LEMMA MailboxEvents ==
  ASSUME NEW b \in Mbx
  PROVE  /\ PostAny[b] \in Event
         /\ \A a \in Address : PostEvent[b][a] \in Event /\ PendEvent[b][a] \in Event
         /\ \A a \in Address :
              PostEvent[b][Offset(a)] \in Event /\ PendEvent[b][Offset(a)] \in Event
         /\ \A a \in Addr : PendEvent[b][a] \in Event
<1>1. \A a \in Address : Offset(a) \in {Offset(x) : x \in 0 .. MbxSize - 1}
  BY DEF Address
<1>2. QED BY <1>1, EventAssumption DEF Address

LEMMA MailboxArgs ==
  ASSUME NEW c \in MailboxCall
  PROVE  /\ c.obj \in Mbx
         /\ c.fn = "IMailboxWrite" =>
              c.arg \in [addr : Addr, ms : Timeout \cup {Inf, None}, force : BOOLEAN]
         /\ c.fn = "MailboxPend" => c.arg \in [addr : Addr, ms : Timeout \cup {Inf, None}]
BY DEF MailboxCall, CallOf

LEMMA CheckResults ==
  ASSUME NEW b, NEW a \in Addr, NEW force
  PROVE  /\ WriteCheck(b, a, force) \in {"act", "register", "unlock"}
         /\ WriteCheck(b, a, force) # "unlock" => a \in Address
         /\ WriteCheck(b, a, force) = "register" => counter[b][a] # 0
         /\ PendCheck(b, a) \in {"act", "register", "unlock"}
         /\ PendCheck(b, a) # "unlock" => a \in Address
         /\ PendCheck(b, a) = "register" => counter[b][a] = 0
         /\ PendCheck(b, a) = "act" => counter[b][a] # 0
<1>1. a > MbxSize - 1 \/ a \in Address BY SizeAssumption DEF Address
<1>2. QED BY <1>1 DEF WriteCheck, PendCheck

LEMMA MailboxKept ==
  ASSUME SysInv, MailboxInv, kind = "mailbox", Preserves({}),
         UNCHANGED <<counter, kind>>, objs' \subseteq objs, fresh' \subseteq fresh,
         MailboxChecked'
  PROVE  MailboxInv'
<1>1. objs \subseteq Mbx BY MailboxKind DEF SysInv, LockInv
<1>2. \A b \in Mbx, a \in Address : PostEvent[b][a] \in Event /\ PendEvent[b][a] \in Event
  BY MailboxEvents
<1>3. MailboxHeard'
  BY <1>1, <1>2 DEF MailboxInv, MailboxHeard, Preserves, OwnCounter, Offset
<1>4. MailboxUnborn' BY <1>2 DEF MailboxInv, MailboxUnborn, Preserves
<1>5. CountersTyped' BY DEF MailboxInv, CountersTyped, CountersFit, OwnCounter, Offset, Index
<1>6. QED BY <1>3, <1>4, <1>5 DEF MailboxInv

LEMMA MailboxEnter ==
  ASSUME Calm, MailboxInv, kind = "mailbox", NEW f, NEW b \in Mbx, NEW k \in Event \cup {None},
         NEW mode, NEW arg, Enter(f, b, k, mode, arg), UNCHANGED counter,
         [fn |-> f, obj |-> b, mode |-> mode, arg |-> arg, local |-> None, step |-> "lock"]
           \in MailboxCall
  PROVE  KernelInv' /\ SysInv' /\ MailboxInv'
<1>1. KernelInv' BY EnterKernel, KernelInvStep DEF Calm
<1>2. SysInv' BY EnterSys, MailboxKind DEF Calm
<1>3. UNCHANGED <<objs, fresh>> BY DEF Enter
<1>4. pc = None /\ (pc' = pc \/ pc'.step = "lock") BY EnterStep
<1>5. MailboxChecked' BY <1>4 DEF MailboxChecked
<1>6. Preserves({}) BY EnterPreserves DEF Calm
<1>7. QED BY <1>1, <1>2, <1>3, <1>5, <1>6, MailboxKept DEF Calm

LEMMA MailboxCheck ==
  ASSUME Calm, MailboxInv, kind = "mailbox", NEW f, At(f, "check"),
         NEW s \in {"act", "register", "unlock"}, Checked(s), UNCHANGED counter,
         f = "IMailboxWrite" /\ s # "unlock" =>
           /\ pc.arg.addr \in Address
           /\ s = "register" => counter[pc.obj][pc.arg.addr] # 0,
         f = "MailboxPend" /\ s # "unlock" =>
           /\ pc.arg.addr \in Address
           /\ s = "register" <=> counter[pc.obj][pc.arg.addr] = 0
  PROVE  KernelInv' /\ SysInv' /\ MailboxInv'
<1>1. KernelInv' BY KernelInvStep DEF Calm, Checked
<1>2. SysInv' /\ Moved(pc, pc', pc.obj, s) BY CheckedSys DEF Calm
<1>3. UNCHANGED <<objs, fresh, listen, evs, lost>> BY DEF Checked, vars, evVars
<1>4. MailboxChecked'
  BY <1>2 DEF MailboxChecked, Moved, At
<1>5. Preserves({}) BY <1>3, IdlePreserves
<1>6. QED BY <1>1, <1>2, <1>3, <1>4, <1>5, MailboxKept DEF Calm

(* A counter is set or taken from: the event that tells is announced.        *)
LEMMA MailboxCounted ==
  ASSUME Calm, MailboxInv, kind = "mailbox", NEW b \in objs, NEW a \in Address,
         NEW n \in Nat, counter' = [counter EXCEPT ![b][Offset(a)] = n],
         Preserves({}), UNCHANGED <<objs, fresh>>, MailboxChecked',
         OwnCounter(a) => n <= Cardinality(MbxOwner),
         OwnCounter(a) => \A t \in Task : /\ n # 0 => Heard(t, PostEvent[b][a])'
                                          /\ n = 0 => Heard(t, PendEvent[b][a])'
  PROVE  MailboxInv'
<1>1. objs \subseteq Mbx BY MailboxKind DEF Calm, SysInv, LockInv
<1>2. \A c \in Mbx, d \in Address : PostEvent[c][d] \in Event /\ PendEvent[c][d] \in Event
  BY MailboxEvents
<1>3. /\ CountersTyped'
      /\ \A c \in Mbx, d \in Address : OwnCounter(d) =>
           counter'[c][d] = IF c = b /\ d = a THEN n ELSE counter[c][d]
  <2>1. CountersTyped /\ b \in Mbx BY <1>1 DEF MailboxInv
  <2>2. QED BY <2>1, CounterSet
<1>4. ASSUME NEW c \in objs, NEW d \in Address, NEW t \in Task, OwnCounter(d)
      PROVE  /\ counter'[c][d] # 0 => Heard(t, PostEvent[c][d])'
             /\ counter'[c][d] = 0 => Heard(t, PendEvent[c][d])'
  <2>1. CASE c = b /\ d = a BY <1>1, <1>3, <1>4, <2>1
  <2>2. CASE ~(c = b /\ d = a)
    <3>1. counter'[c][d] = counter[c][d] BY <1>1, <1>3, <1>4, <2>2
    <3>2. QED BY <1>1, <1>2, <1>4, <3>1 DEF MailboxInv, MailboxHeard, Preserves
  <2>3. QED BY <2>1, <2>2
<1>5. MailboxHeard' BY <1>4 DEF MailboxHeard, OwnCounter, Offset
<1>6. MailboxUnborn' BY <1>2 DEF MailboxInv, MailboxUnborn, Preserves
<1>7. QED BY <1>3, <1>5, <1>6 DEF MailboxInv

LEMMA MailboxPosted ==
  ASSUME Calm, MailboxInv, kind = "mailbox", phase = "thread", NEW isr, NEW b \in objs,
         NEW a \in Address, Post(isr, b, b, a), UNCHANGED <<sysFrame, objs, fresh>>,
         MailboxChecked'
  PROVE  KernelInv' /\ MailboxInv'
<1>1. b \in Mbx BY MailboxKind DEF Calm, SysInv, LockInv
<1>2. (OwnCounter(a) => Offset(a) = a) /\ Cardinality(MbxOwner) \in Nat BY MailboxSizes
<1>3. /\ PostAny[b] \in Event /\ PostEvent[b][Offset(a)] \in Event
      /\ PostEvent[b][a] \in Event /\ PendEvent[b][a] \in Event
  BY <1>1, MailboxEvents
<1>4. /\ counter' = [counter EXCEPT ![b][Offset(a)] = Cardinality(MbxOwner)]
      /\ UNCHANGED listen
      /\ \/ EmitBoth(PostEvent[b][Offset(a)], PostAny[b]) /\ lost' = lost \ {PostEvent[b][Offset(a)]}
         \/ UNCHANGED evVars /\ lost' = lost \cup {PostEvent[b][Offset(a)]}
  BY DEF Post
<1>5. Preserves({}) /\ \A t \in Task : Heard(t, PostEvent[b][Offset(a)])'
  BY <1>3, <1>4, BothPreserves DEF Calm
<1>6. KernelInv'
  <2>1. CASE EmitBoth(PostEvent[b][Offset(a)], PostAny[b])
    BY <1>3, <1>4, <2>1, BothKernel DEF Calm
  <2>2. CASE UNCHANGED evVars
    <3>1. UNCHANGED vars BY <1>4, <2>2 DEF sysFrame, vars
    <3>2. QED BY <3>1, KernelInvStep DEF Calm
  <2>3. QED BY <1>4, <2>1, <2>2
<1>7. ASSUME OwnCounter(a), Cardinality(MbxOwner) = 0 PROVE counter[b][a] = 0
  <2>1. counter[b][a] <= Cardinality(MbxOwner)
    BY <1>1, <1>7 DEF MailboxInv, CountersTyped, CountersFit, Address
  <2>2. counter[b][a] \in Nat BY <1>1, MailboxSizes DEF MailboxInv, CountersTyped
  <2>3. QED BY <1>7, <2>1, <2>2
<1>8. ASSUME OwnCounter(a), NEW t \in Task
      PROVE  /\ Heard(t, PostEvent[b][a])'
             /\ Cardinality(MbxOwner) = 0 => Heard(t, PendEvent[b][a])'
  <2>1. Heard(t, PostEvent[b][a])' BY <1>2, <1>5, <1>8
  <2>2. Cardinality(MbxOwner) = 0 => Heard(t, PendEvent[b][a])'
    BY <1>3, <1>5, <1>7, <1>8 DEF MailboxInv, MailboxHeard, Preserves
  <2>3. QED BY <2>1, <2>2
<1>9. MailboxInv'
  <2>1. PICK n \in Nat : n = Cardinality(MbxOwner) BY <1>2
  <2>2. n <= Cardinality(MbxOwner) BY <2>1
  <2>3. counter' = [counter EXCEPT ![b][Offset(a)] = n] BY <1>4, <2>1
  <2>4. QED BY <1>5, <1>8, <2>1, <2>2, <2>3, MailboxCounted
<1>10. QED BY <1>6, <1>9

LEMMA MailboxPended ==
  ASSUME Calm, MailboxInv, kind = "mailbox", phase = "thread", NEW b \in objs,
         NEW a \in Address, counter[b][a] # 0, Pend(b, b, a), UNCHANGED <<sysFrame, objs, fresh>>,
         MailboxChecked'
  PROVE  KernelInv' /\ MailboxInv'
<1>1. b \in Mbx BY MailboxKind DEF Calm, SysInv, LockInv
<1>2. OwnCounter(a) => Offset(a) = a BY MailboxSizes
<1>3. /\ PendEvent[b][Offset(a)] \in Event
      /\ PostEvent[b][a] \in Event /\ PendEvent[b][a] \in Event
  BY <1>1, MailboxEvents
<1> DEFINE n == (counter[b][Offset(a)] - 1) % 256
<1>4. n \in Nat /\ (OwnCounter(a) => n <= Cardinality(MbxOwner))
  BY <1>1, CounterTaken DEF MailboxInv
<1>5. Offset(a) \in Index BY MailboxSizes
<1>6. counter' = [counter EXCEPT ![b][Offset(a)] = n] /\ UNCHANGED listen
  BY <1>1, <1>5 DEF Pend, MailboxInv, CountersTyped
<1> HIDE DEF n
<1>7. EmitFrom(FALSE, PendEvent[b][Offset(a)]) BY DEF Pend
<1>8. Preserves({}) /\ \A t \in Task : Heard(t, PendEvent[b][Offset(a)])'
  BY <1>3, <1>6, <1>7, EmitPreserves DEF Calm
<1>9. KernelInv' BY <1>3, <1>6, <1>7, EmitKernel, KernelInvStep DEF Calm
<1>10. ASSUME OwnCounter(a), NEW t \in Task
       PROVE  Heard(t, PostEvent[b][a])' /\ Heard(t, PendEvent[b][a])'
  <2>1. Heard(t, PendEvent[b][a])' BY <1>2, <1>8, <1>10
  <2>2. Heard(t, PostEvent[b][a])'
    BY <1>3, <1>8, <1>10 DEF MailboxInv, MailboxHeard, Preserves
  <2>3. QED BY <2>1, <2>2
<1>11. MailboxInv' BY <1>4, <1>6, <1>8, <1>10, MailboxCounted
<1>12. QED BY <1>9, <1>11

(* A task polls: the address is not as it needs it.                          *)
LEMMA MailboxPolled ==
  ASSUME Calm, MailboxInv, kind = "mailbox", NEW f, At(f, "register"), Goto("unlock"),
         NEW b, b = pc.obj, NEW a \in Address,
         NEW k \in {PostEvent[b][a], PendEvent[b][a]}, NEW ms \in Timeout \cup {Inf, None},
         k = PostEvent[b][a] => counter[b][a] = 0,
         k = PendEvent[b][a] => counter[b][a] # 0,
         IF ms = None THEN UNCHANGED listen ELSE SysCallRegister(k, ms),
         UNCHANGED <<sysFrame, evVars, fresh, objs, lock, node, lost, counter>>
  PROVE  KernelInv' /\ SysInv' /\ MailboxInv'
<1>1. /\ InTask /\ b \in objs /\ b \in Mbx /\ b \notin fresh
      /\ \A c \in Mbx : c = b
  BY CallPastLock, MailboxKind DEF Calm, SysInv, Lone
<1>2. \A d \in Address : PostEvent[b][d] \in Event /\ PendEvent[b][d] \in Event
  BY <1>1, MailboxEvents
<1>3. CASE UNCHANGED listen
  <2>1. UNCHANGED vars BY <1>3 DEF sysFrame, vars
  <2>2. KernelInv' BY <2>1, KernelInvStep DEF Calm
  <2>3. NoPermanent' BY <1>3 DEF Calm, SysInv, NoPermanent
  <2>4. SysInv' /\ Moved(pc, pc', pc.local, "unlock") BY <2>3, GotoSys DEF Calm
  <2>5. MailboxChecked' BY <2>4 DEF MailboxChecked, Moved
  <2>6. Preserves({}) BY <1>3, IdlePreserves DEF evVars
  <2>7. QED BY <2>2, <2>4, <2>5, <2>6, MailboxKept DEF Calm
<1>4. CASE ms \in Timeout \cup {Inf} /\ SysCallRegister(k, ms)
  <2>1. k \in Event BY <1>2
  <2>2. KernelInv' BY <1>1, <1>4, <2>1, RegisterKernel, KernelInvStep DEF Calm
  <2>3. Preserves({k}) /\ NoPermanent'
    BY <1>4, <2>1, RegisterPreserves DEF Calm, evVars
  <2>4. SysInv' /\ Moved(pc, pc', pc.local, "unlock")
    BY <2>3, GotoSys DEF Calm
  <2>5. MailboxChecked' BY <2>4 DEF MailboxChecked, Moved
  <2>6. objs \subseteq Mbx BY MailboxKind DEF Calm, SysInv, LockInv
  <2>7. ASSUME NEW d \in Address, NEW t \in Task, OwnCounter(d)
        PROVE  /\ counter[b][d] # 0 => Heard(t, PostEvent[b][d])'
               /\ counter[b][d] = 0 => Heard(t, PendEvent[b][d])'
    <3>1. /\ k # PostEvent[b][d] /\ counter[b][d] # 0 => Heard(t, PostEvent[b][d])'
          /\ k # PendEvent[b][d] /\ counter[b][d] = 0 => Heard(t, PendEvent[b][d])'
      BY <1>1, <1>2, <2>3, <2>7 DEF Preserves, MailboxInv, MailboxHeard
    <3>2. k = PostEvent[b][d] => counter[b][d] = 0
      BY <1>1, <2>7, EventsApart DEF Address
    <3>3. k = PendEvent[b][d] => counter[b][d] # 0
      BY <1>1, <2>7, EventsApart DEF Address
    <3>4. QED BY <3>1, <3>2, <3>3
  <2>8. MailboxHeard' BY <1>1, <2>6, <2>7 DEF MailboxHeard, OwnCounter, Offset
  <2>9. MailboxUnborn' BY <1>1 DEF MailboxUnborn
  <2>10. CountersTyped'
    BY DEF MailboxInv, CountersTyped, CountersFit, OwnCounter, Offset, Index
  <2>11. QED BY <2>2, <2>4, <2>5, <2>8, <2>9, <2>10 DEF MailboxInv
<1>5. QED BY <1>3, <1>4

LEMMA MailboxStep ==
  ASSUME Calm, MailboxInv, kind = "mailbox", MailboxNext
  PROVE  KernelInv' /\ SysInv' /\ MailboxInv'
<1>0. objs \subseteq Mbx BY MailboxKind DEF Calm, SysInv, LockInv
<1>1. ASSUME NEW b \in Mbx, NEW a \in Addr, NEW ms \in Timeout \cup {Inf, None},
             NEW force \in BOOLEAN, IMailboxWrite(b, a, ms, force)
      PROVE  KernelInv' /\ SysInv' /\ MailboxInv'
  <2>1. [fn |-> "IMailboxWrite", obj |-> b, mode |-> "WRITE",
         arg |-> [addr |-> a, ms |-> ms, force |-> force],
         local |-> None, step |-> "lock"] \in MailboxCall
    BY <1>1 DEF MailboxCall, CallOf
  <2>2. QED BY <1>1, <2>1, MailboxEnter, MailboxEvents DEF IMailboxWrite
<1>2. ASSUME NEW b \in Mbx, NEW a \in Addr, NEW ms \in Timeout \cup {Inf, None},
             MailboxPend(b, a, ms)
      PROVE  KernelInv' /\ SysInv' /\ MailboxInv'
  <2>1. [fn |-> "MailboxPend", obj |-> b, mode |-> "WRITE", arg |-> [addr |-> a, ms |-> ms],
         local |-> None, step |-> "lock"] \in MailboxCall
    BY <1>2 DEF MailboxCall, CallOf
  <2>2. QED BY <1>2, <2>1, MailboxEnter, MailboxEvents DEF MailboxPend
<1>3. CASE MailboxPendCounterGet
  <2>1. ASSUME NEW b \in Mbx, Enter("PendCounterGet", b, None, "READ", None)
        PROVE  KernelInv' /\ SysInv' /\ MailboxInv'
    <3>1. [fn |-> "PendCounterGet", obj |-> b, mode |-> "READ", arg |-> None,
           local |-> None, step |-> "lock"] \in MailboxCall
      BY <2>1 DEF MailboxCall, CallOf
    <3>2. QED BY <1>3, <2>1, <3>1, MailboxEnter DEF MailboxPendCounterGet
  <2>2. CASE At("PendCounterGet", "check") /\ Checked("unlock")
    BY <1>3, <2>2, MailboxCheck DEF MailboxPendCounterGet
  <2>3. QED BY <1>3, <2>1, <2>2 DEF MailboxPendCounterGet, Read
<1>4. ASSUME NEW b \in Mbx, MailboxCreate(b) \/ MailboxDelete(b)
      PROVE  KernelInv' /\ SysInv' /\ MailboxInv'
  <2>1. (Create(b) \/ Delete(b)) /\ UNCHANGED counter
    BY <1>4 DEF MailboxCreate, MailboxDelete
  <2>2. pc' = None /\ UNCHANGED <<vars, lost>> /\ fresh' \subseteq fresh /\ UNCHANGED counter
    BY <1>4 DEF MailboxCreate, MailboxDelete, Create, Delete
  <2>3. KernelInv' BY <2>2, KernelInvStep DEF Calm
  <2>4. SysInv' BY <1>4, CreateSys, MailboxKind DEF MailboxCreate, MailboxDelete, Calm
  <2>5. UNCHANGED <<listen, evs>> BY <2>2 DEF vars, evVars
  <2>6. MailboxChecked' BY <2>2 DEF MailboxChecked
  <2>7. Preserves({}) BY <2>2, <2>5, IdlePreserves
  <2>8. CASE objs' \subseteq objs
    BY <2>2, <2>3, <2>4, <2>6, <2>7, <2>8, MailboxKept DEF Calm
  <2>9. CASE objs' = objs \cup {b} /\ b \in fresh
    <3>1. \A a \in Address, t \in Task : Heard(t, PostEvent[b][a])' /\ Heard(t, PendEvent[b][a])'
      BY <2>5, <2>9 DEF MailboxInv, MailboxUnborn, Heard, Unpolled, OwnHash
    <3>2. MailboxHeard'
      <4>1. SUFFICES ASSUME NEW c \in objs \cup {b}, NEW a \in Address, NEW t \in Task,
                            OwnCounter(a)
                     PROVE  /\ counter[c][a] # 0 => Heard(t, PostEvent[c][a])'
                            /\ counter[c][a] = 0 => Heard(t, PendEvent[c][a])'
        BY <2>2, <2>9 DEF MailboxHeard, OwnCounter, Offset
      <4>2. CASE c = b BY <3>1, <4>1, <4>2
      <4>3. CASE c \in objs
        BY <1>0, <2>7, <4>1, <4>3, MailboxEvents DEF MailboxInv, MailboxHeard, Preserves
      <4>4. QED BY <4>2, <4>3
    <3>3. MailboxUnborn' BY <2>2, <2>5 DEF MailboxInv, MailboxUnborn, Unpolled, OwnHash
    <3>4. CountersTyped'
      BY <2>2 DEF MailboxInv, CountersTyped, CountersFit, OwnCounter, Offset, Index
    <3>5. QED BY <2>2, <2>3, <2>4, <2>6, <3>2, <3>3, <3>4 DEF MailboxInv
  <2>10. QED BY <1>4, <2>8, <2>9 DEF MailboxCreate, MailboxDelete, Create, Delete
<1>5. ASSUME NEW b \in Mbx, NEW a \in Addr, IsrMailboxPost(b, a)
      PROVE  KernelInv' /\ SysInv' /\ MailboxInv'
  <2>1. IsrEnter("IMailboxWrite", b) /\ phase = "thread" /\ UNCHANGED <<sysFrame, pc, objs, fresh>>
    BY <1>5 DEF IsrMailboxPost, IsrEnter
  <2>2. UNCHANGED listen
    BY <1>5 DEF IsrMailboxPost, Post, IsrRefused
  <2>3. SysInv' BY <2>1, <2>2, IsrSys, MailboxKind DEF Calm
  <2>4. CASE IsrAccess(b, "WRITE") /\ WriteCheck(b, a, FALSE) = "act" /\ Post(TRUE, b, b, a)
    <3>1. ~Holds /\ b \in objs BY <2>4, IsrRefusedWhenHeld, MailboxKind DEF Calm, SysInv
    <3>2. MailboxChecked' BY <2>1, <3>1 DEF MailboxChecked, Holds
    <3>3. a \in Address BY <1>5, <2>4, CheckResults
    <3>4. QED BY <2>1, <2>3, <2>4, <3>1, <3>2, <3>3, MailboxPosted
  <2>5. CASE IsrRefused /\ UNCHANGED counter
    <3>1. UNCHANGED vars BY <2>1, <2>5 DEF IsrRefused, sysFrame, vars
    <3>2. KernelInv' BY <3>1, KernelInvStep DEF Calm
    <3>3. Preserves({}) BY <2>5, IdlePreserves DEF IsrRefused, evVars
    <3>4. MailboxChecked' BY <2>1, <2>5 DEF MailboxInv, MailboxChecked
    <3>5. QED BY <2>1, <2>3, <2>5, <3>2, <3>3, <3>4, MailboxKept DEF Calm
  <2>6. QED BY <1>5, <2>4, <2>5 DEF IsrMailboxPost
<1>6. CASE MailboxWriteStep
  <2>1. CASE /\ At("IMailboxWrite", "check")
             /\ Checked(WriteCheck(node, pc.arg.addr, pc.arg.force)) /\ UNCHANGED counter
    <3>1. node = pc.obj /\ pc \in MailboxCall
      BY <2>1, CallPastLock, MailboxKind DEF Calm, SysInv
    <3>2. pc.arg.addr \in Addr BY <2>1, <3>1, MailboxArgs DEF At
    <3> DEFINE s == WriteCheck(node, pc.arg.addr, pc.arg.force)
    <3>3. /\ s \in {"act", "register", "unlock"}
          /\ s # "unlock" => pc.arg.addr \in Address
          /\ s = "register" => counter[pc.obj][pc.arg.addr] # 0
      BY <3>1, <3>2, CheckResults
    <3> HIDE DEF s
    <3>4. Checked(s) BY <2>1 DEF s
    <3>5. QED BY <2>1, <3>3, <3>4, MailboxCheck
  <2>2. CASE /\ At("IMailboxWrite", "act") /\ Goto("unlock")
             /\ Post(FALSE, pc.local, pc.obj, pc.arg.addr)
             /\ UNCHANGED <<sysFrame, fresh, objs, lock, node>>
    <3>1. pc.local = pc.obj /\ pc.obj \in objs /\ phase = "thread"
      BY <2>2, CallPastLock DEF Calm, SysInv
    <3>2. pc.arg.addr \in Address BY <2>2 DEF At, MailboxInv, MailboxChecked
    <3>3. NoPermanent' BY <2>2 DEF Calm, SysInv, NoPermanent, Post
    <3>4. SysInv' /\ Moved(pc, pc', pc.local, "unlock") BY <2>2, <3>3, GotoSys DEF Calm
    <3>5. MailboxChecked' BY <3>4 DEF MailboxChecked, Moved
    <3>6. QED BY <2>2, <3>1, <3>2, <3>4, <3>5, MailboxPosted
  <2>3. CASE /\ At("IMailboxWrite", "register") /\ Goto("unlock")
             /\ IF pc.arg.ms = None THEN UNCHANGED listen
                ELSE SysCallRegister(PendEvent[pc.obj][pc.arg.addr], pc.arg.ms)
             /\ UNCHANGED <<sysFrame, evVars, fresh, objs, lock, node, lost, counter>>
    <3>1. pc \in MailboxCall /\ pc.obj \in Mbx
      BY <2>3, CallPastLock, MailboxKind DEF Calm, SysInv
    <3>2. pc.arg.ms \in Timeout \cup {Inf, None} BY <2>3, <3>1, MailboxArgs DEF At
    <3>3. pc.arg.addr \in Address /\ counter[pc.obj][pc.arg.addr] # 0
      BY <2>3 DEF At, MailboxInv, MailboxChecked
    <3>4. PendEvent[pc.obj][pc.arg.addr] # PostEvent[pc.obj][pc.arg.addr]
      BY <3>1, <3>3, EventsApart DEF Address
    <3>5. QED BY <2>3, <3>2, <3>3, <3>4, MailboxPolled
  <2>4. QED BY <1>6, <2>1, <2>2, <2>3 DEF MailboxWriteStep
<1>7. CASE MailboxPendStep
  <2>1. CASE /\ At("MailboxPend", "check")
             /\ Checked(IF running \notin MbxOwner THEN "unlock" ELSE PendCheck(node, pc.arg.addr))
             /\ UNCHANGED counter
    <3>1. node = pc.obj /\ pc \in MailboxCall
      BY <2>1, CallPastLock, MailboxKind DEF Calm, SysInv
    <3>2. pc.arg.addr \in Addr BY <2>1, <3>1, MailboxArgs DEF At
    <3> DEFINE s == IF running \notin MbxOwner THEN "unlock" ELSE PendCheck(node, pc.arg.addr)
    <3>3. /\ s \in {"act", "register", "unlock"}
          /\ s # "unlock" => /\ pc.arg.addr \in Address
                             /\ s = "register" <=> counter[pc.obj][pc.arg.addr] = 0
      BY <3>1, <3>2, CheckResults
    <3> HIDE DEF s
    <3>4. Checked(s) BY <2>1 DEF s
    <3>5. QED BY <2>1, <3>3, <3>4, MailboxCheck
  <2>2. CASE /\ At("MailboxPend", "act") /\ Goto("unlock")
             /\ Pend(pc.local, pc.obj, pc.arg.addr)
             /\ UNCHANGED <<sysFrame, fresh, objs, lock, node>>
    <3>1. pc.local = pc.obj /\ pc.obj \in objs /\ phase = "thread"
      BY <2>2, CallPastLock DEF Calm, SysInv
    <3>2. pc.arg.addr \in Address /\ counter[pc.obj][pc.arg.addr] # 0
      BY <2>2 DEF At, MailboxInv, MailboxChecked
    <3>3. NoPermanent' BY <2>2 DEF Calm, SysInv, NoPermanent, Pend
    <3>4. SysInv' /\ Moved(pc, pc', pc.local, "unlock") BY <2>2, <3>3, GotoSys DEF Calm
    <3>5. MailboxChecked' BY <3>4 DEF MailboxChecked, Moved
    <3>6. QED BY <2>2, <3>1, <3>2, <3>4, <3>5, MailboxPended
  <2>3. CASE /\ At("MailboxPend", "register") /\ Goto("unlock")
             /\ IF pc.arg.ms = None THEN UNCHANGED listen
                ELSE SysCallRegister(PostEvent[pc.obj][pc.arg.addr], pc.arg.ms)
             /\ UNCHANGED <<sysFrame, evVars, fresh, objs, lock, node, lost, counter>>
    <3>1. pc \in MailboxCall /\ pc.obj \in Mbx
      BY <2>3, CallPastLock, MailboxKind DEF Calm, SysInv
    <3>2. pc.arg.ms \in Timeout \cup {Inf, None} BY <2>3, <3>1, MailboxArgs DEF At
    <3>3. pc.arg.addr \in Address /\ counter[pc.obj][pc.arg.addr] = 0
      BY <2>3 DEF At, MailboxInv, MailboxChecked
    <3>4. PendEvent[pc.obj][pc.arg.addr] # PostEvent[pc.obj][pc.arg.addr]
      BY <3>1, <3>3, EventsApart DEF Address
    <3>5. QED BY <2>3, <3>2, <3>3, <3>4, MailboxPolled
  <2>4. QED BY <1>7, <2>1, <2>2, <2>3 DEF MailboxPendStep
<1>8. QED BY <1>1, <1>2, <1>3, <1>4, <1>5, <1>6, <1>7 DEF MailboxNext
--------------------------------------------------------------------------------
(* Event groups.                                                             *)
GroupHeard ==
  \A g \in objs, m \in Mask, t \in Task : OwnFlags(m) =>
    /\ reg[g] \cap m # {} => Heard(t, SetEvent[g][m])
    /\ reg[g] \cap m = {} => Heard(t, ClearEvent[g][m])

GroupUnborn ==
  \A g \in Group, m \in Mask, t \in Task :
    g \in fresh => Unpolled(t, SetEvent[g][m]) /\ Unpolled(t, ClearEvent[g][m])

GroupChecked ==
  pc # None /\ pc.step = "register" =>
    /\ pc.fn = "RequireSet" => reg[pc.obj] \cap pc.arg.mask = {}
    /\ pc.fn = "RequireCleared" => reg[pc.obj] \cap pc.arg.mask # {}

EventgroupInv ==
  kind = "group" =>
    reg \in [Group -> SUBSET UNION Mask] /\ GroupHeard /\ GroupUnborn /\ GroupChecked

LEMMA GroupKind ==
  ASSUME kind = "group"
  PROVE  KindObj = Group /\ KindCall = EventgroupCall
<1>1. KindObj = Group BY ObjAssumption DEF KindObj
<1>2. \A c \in MessageCall : c.obj \in Queue BY DEF MessageCall, CallOf
<1>3. \A c \in MailboxCall : c.obj \in Mbx BY DEF MailboxCall, CallOf
<1>4. \A c \in EventgroupCall : c.obj \in Group BY DEF EventgroupCall, CallOf
<1>5. \A c \in SemaphoreCall : c.obj \in Sem BY DEF SemaphoreCall, CallOf
<1>6. QED BY <1>1, <1>2, <1>3, <1>4, <1>5, ObjAssumption DEF KindCall

LEMMA GroupArgs ==
  ASSUME NEW c \in EventgroupCall
  PROVE  /\ c.obj \in Group
         /\ c.fn \in {"Set", "Clear"} => c.arg \in [mask : Mask]
         /\ c.fn \in {"RequireSet", "RequireCleared"} =>
              c.arg \in [mask : Mask, ms : Timeout \cup {Inf}]
BY DEF EventgroupCall, CallOf

LEMMA GroupEvents ==
  ASSUME NEW g \in Group, NEW m \in Mask
  PROVE  SetEvent[g][m] \in Event /\ ClearEvent[g][m] \in Event
BY EventAssumption

LEMMA GroupKept ==
  ASSUME SysInv, EventgroupInv, kind = "group", Preserves({}),
         UNCHANGED <<reg, kind>>, objs' \subseteq objs, fresh' \subseteq fresh, GroupChecked'
  PROVE  EventgroupInv'
<1>1. objs \subseteq Group BY GroupKind DEF SysInv, LockInv
<1>2. GroupHeard'
  BY <1>1, GroupEvents DEF EventgroupInv, GroupHeard, Preserves, OwnFlags
<1>3. GroupUnborn' BY GroupEvents DEF EventgroupInv, GroupUnborn, Preserves
<1>4. QED BY <1>2, <1>3 DEF EventgroupInv

LEMMA GroupEnter ==
  ASSUME Calm, EventgroupInv, kind = "group", NEW f, NEW g \in Group,
         NEW k \in Event \cup {None}, NEW mode, NEW arg, Enter(f, g, k, mode, arg), UNCHANGED reg,
         [fn |-> f, obj |-> g, mode |-> mode, arg |-> arg, local |-> None, step |-> "lock"]
           \in EventgroupCall
  PROVE  KernelInv' /\ SysInv' /\ EventgroupInv'
<1>1. KernelInv' BY EnterKernel, KernelInvStep DEF Calm
<1>2. SysInv' BY EnterSys, GroupKind DEF Calm
<1>3. UNCHANGED <<objs, fresh>> BY DEF Enter
<1>4. pc = None /\ (pc' = pc \/ pc'.step = "lock") BY EnterStep
<1>5. GroupChecked' BY <1>4 DEF GroupChecked
<1>6. Preserves({}) BY EnterPreserves DEF Calm
<1>7. QED BY <1>1, <1>2, <1>3, <1>5, <1>6, GroupKept DEF Calm

LEMMA GroupCheck ==
  ASSUME Calm, EventgroupInv, kind = "group", NEW f, At(f, "check"),
         NEW s \in {"act", "register", "unlock"}, Checked(s), UNCHANGED reg,
         s = "register" => /\ f = "RequireSet" => reg[pc.obj] \cap pc.arg.mask = {}
                           /\ f = "RequireCleared" => reg[pc.obj] \cap pc.arg.mask # {}
  PROVE  KernelInv' /\ SysInv' /\ EventgroupInv'
<1>1. KernelInv' BY KernelInvStep DEF Calm, Checked
<1>2. SysInv' /\ Moved(pc, pc', pc.obj, s) BY CheckedSys DEF Calm
<1>3. UNCHANGED <<objs, fresh, listen, evs, lost>> BY DEF Checked, vars, evVars
<1>4. GroupChecked'
  BY <1>2 DEF GroupChecked, Moved, At
<1>5. Preserves({}) BY <1>3, IdlePreserves
<1>6. QED BY <1>1, <1>2, <1>3, <1>4, <1>5, GroupKept DEF Calm

(* Flags change: the event of the mask is announced, and no other mask has   *)
(* one of these flags.                                                       *)
LEMMA GroupChanged ==
  ASSUME Calm, EventgroupInv, kind = "group", phase = "thread", NEW isr,
         NEW f \in {"Set", "Clear"}, NEW g \in objs, NEW m \in Mask, Change(isr, f, g, g, m),
         UNCHANGED <<sysFrame, objs, fresh>>, GroupChecked'
  PROVE  KernelInv' /\ EventgroupInv'
<1>1. objs \subseteq Group /\ g \in Group BY GroupKind DEF Calm, SysInv, LockInv
<1>2. FlagEvent(f, g, m) \in Event BY <1>1, GroupEvents DEF FlagEvent
<1>3. EmitFrom(isr, FlagEvent(f, g, m)) /\ UNCHANGED listen
      /\ reg' = [reg EXCEPT ![g] = Flags(f, g, m)]
  BY DEF Change
<1>4. Preserves({}) /\ \A t \in Task : Heard(t, FlagEvent(f, g, m))'
  BY <1>2, <1>3, EmitPreserves DEF Calm
<1>5. KernelInv' BY <1>2, <1>3, EmitKernel, KernelInvStep DEF Calm
<1>6. reg \in [Group -> SUBSET UNION Mask] BY DEF EventgroupInv
<1>7. Flags(f, g, m) \in SUBSET UNION Mask BY <1>1, <1>6 DEF Flags
<1>8. reg' \in [Group -> SUBSET UNION Mask] BY <1>3, <1>6, <1>7
<1>9. reg'[g] = Flags(f, g, m) /\ \A h \in Group : h # g => reg'[h] = reg[h]
  BY <1>1, <1>3, <1>6
<1>10. ASSUME NEW h \in objs, NEW n \in Mask, NEW t \in Task, OwnFlags(n)
       PROVE  /\ reg'[h] \cap n # {} => Heard(t, SetEvent[h][n])'
              /\ reg'[h] \cap n = {} => Heard(t, ClearEvent[h][n])'
  <2>1. ASSUME reg'[h] \cap n = reg[h] \cap n
        PROVE  /\ reg'[h] \cap n # {} => Heard(t, SetEvent[h][n])'
               /\ reg'[h] \cap n = {} => Heard(t, ClearEvent[h][n])'
    BY <1>1, <1>4, <1>10, <2>1, GroupEvents DEF EventgroupInv, GroupHeard, Preserves
  <2>2. CASE h # g BY <1>1, <1>9, <1>10, <2>1, <2>2
  <2>3. CASE h = g /\ n # m
    <3>1. m \cap n = {} BY <1>10, <2>3 DEF OwnFlags
    <3>2. reg'[h] \cap n = reg[h] \cap n BY <1>9, <2>3, <3>1 DEF Flags
    <3>3. QED BY <2>1, <3>2
  <2>4. CASE h = g /\ n = m /\ f = "Clear"
    <3>1. reg'[h] \cap n = {} BY <1>9, <2>4 DEF Flags
    <3>2. FlagEvent(f, g, m) = ClearEvent[h][n] BY <2>4 DEF FlagEvent
    <3>3. \A u \in Task : Heard(u, ClearEvent[h][n])' BY <1>4, <3>2
    <3>4. QED BY <3>1, <3>3
  <2>5. CASE h = g /\ n = m /\ f = "Set"
    <3>1. reg'[h] \cap n = {} => reg'[h] \cap n = reg[h] \cap n
      BY <1>9, <2>5 DEF Flags
    <3>2. FlagEvent(f, g, m) = SetEvent[h][n] BY <2>5 DEF FlagEvent
    <3>3. \A u \in Task : Heard(u, SetEvent[h][n])' BY <1>4, <3>2
    <3>4. QED BY <2>1, <3>1, <3>3
  <2>6. QED BY <2>2, <2>3, <2>4, <2>5
<1>11. GroupHeard' BY <1>10 DEF GroupHeard, OwnFlags
<1>12. GroupUnborn' BY <1>4, GroupEvents DEF EventgroupInv, GroupUnborn, Preserves
<1>13. QED BY <1>5, <1>8, <1>11, <1>12 DEF EventgroupInv

(* A task polls: the flags are not as it requires them.                      *)
LEMMA GroupPolled ==
  ASSUME Calm, EventgroupInv, kind = "group", NEW f, At(f, "register"), Goto("unlock"),
         NEW g, g = pc.obj, NEW m \in Mask,
         NEW k \in {SetEvent[g][m], ClearEvent[g][m]}, NEW ms \in Timeout \cup {Inf},
         k = SetEvent[g][m] => reg[g] \cap m = {},
         k = ClearEvent[g][m] => reg[g] \cap m # {},
         SysCallRegister(k, ms),
         UNCHANGED <<sysFrame, evVars, fresh, objs, lock, node, lost, reg>>
  PROVE  KernelInv' /\ SysInv' /\ EventgroupInv'
<1>1. /\ InTask /\ g \in objs /\ g \in Group /\ g \notin fresh
      /\ \A h \in Group : h = g
  BY CallPastLock, GroupKind DEF Calm, SysInv, Lone
<1>2. k \in Event BY <1>1, GroupEvents
<1>3. KernelInv' BY <1>1, <1>2, RegisterKernel, KernelInvStep DEF Calm
<1>4. Preserves({k}) /\ NoPermanent'
  BY <1>2, RegisterPreserves DEF Calm, evVars
<1>5. SysInv' /\ Moved(pc, pc', pc.local, "unlock")
  BY <1>4, GotoSys DEF Calm
<1>6. GroupChecked' BY <1>5 DEF GroupChecked, Moved
<1>7. objs \subseteq Group BY GroupKind DEF Calm, SysInv, LockInv
<1>8. ASSUME NEW n \in Mask, NEW t \in Task, OwnFlags(n)
      PROVE  /\ reg[g] \cap n # {} => Heard(t, SetEvent[g][n])'
             /\ reg[g] \cap n = {} => Heard(t, ClearEvent[g][n])'
  <2>1. /\ k # SetEvent[g][n] /\ reg[g] \cap n # {} => Heard(t, SetEvent[g][n])'
        /\ k # ClearEvent[g][n] /\ reg[g] \cap n = {} => Heard(t, ClearEvent[g][n])'
    BY <1>1, <1>4, <1>8, GroupEvents DEF Preserves, EventgroupInv, GroupHeard
  <2>2. k = SetEvent[g][n] => reg[g] \cap n = {}
    BY <1>1, <1>8, EventsApart
  <2>3. k = ClearEvent[g][n] => reg[g] \cap n # {}
    BY <1>1, <1>8, EventsApart
  <2>4. QED BY <2>1, <2>2, <2>3
<1>9. GroupHeard' BY <1>1, <1>7, <1>8 DEF GroupHeard, OwnFlags
<1>10. GroupUnborn' BY <1>1 DEF GroupUnborn
<1>11. QED BY <1>3, <1>5, <1>6, <1>9, <1>10 DEF EventgroupInv

LEMMA GroupStep ==
  ASSUME Calm, EventgroupInv, kind = "group", EventgroupNext
  PROVE  KernelInv' /\ SysInv' /\ EventgroupInv'
<1>0. objs \subseteq Group BY GroupKind DEF Calm, SysInv, LockInv
<1>1. ASSUME NEW g \in Group, NEW m \in Mask, NEW f \in {"Set", "Clear"}, EventgroupFlags(f, g, m)
      PROVE  KernelInv' /\ SysInv' /\ EventgroupInv'
  <2>1. [fn |-> f, obj |-> g, mode |-> "WRITE", arg |-> [mask |-> m],
         local |-> None, step |-> "lock"] \in EventgroupCall
    BY <1>1 DEF EventgroupCall, CallOf
  <2>2. QED BY <1>1, <2>1, GroupEnter DEF EventgroupFlags
<1>2. ASSUME NEW g \in Group, NEW m \in Mask, NEW f \in {"RequireSet", "RequireCleared"},
             NEW ms \in Timeout \cup {Inf}, EventgroupFlagsRequire(f, g, m, ms)
      PROVE  KernelInv' /\ SysInv' /\ EventgroupInv'
  <2>1. [fn |-> f, obj |-> g, mode |-> "READ", arg |-> [mask |-> m, ms |-> ms],
         local |-> None, step |-> "lock"] \in EventgroupCall
    BY <1>2 DEF EventgroupCall, CallOf
  <2>2. RequireEvent(f, g, m) \in Event BY <1>2, GroupEvents DEF RequireEvent
  <2>3. QED BY <1>2, <2>1, <2>2, GroupEnter DEF EventgroupFlagsRequire
<1>3. CASE EventgroupFlagsGet
  <2>1. ASSUME NEW g \in Group, Enter("Get", g, None, "READ", None)
        PROVE  KernelInv' /\ SysInv' /\ EventgroupInv'
    <3>1. [fn |-> "Get", obj |-> g, mode |-> "READ", arg |-> None,
           local |-> None, step |-> "lock"] \in EventgroupCall
      BY <2>1 DEF EventgroupCall, CallOf
    <3>2. QED BY <1>3, <2>1, <3>1, GroupEnter DEF EventgroupFlagsGet
  <2>2. CASE At("Get", "check") /\ Checked("unlock")
    BY <1>3, <2>2, GroupCheck DEF EventgroupFlagsGet
  <2>3. QED BY <1>3, <2>1, <2>2 DEF EventgroupFlagsGet, Read
<1>4. ASSUME NEW g \in Group, EventgroupCreate(g) \/ EventgroupDelete(g)
      PROVE  KernelInv' /\ SysInv' /\ EventgroupInv'
  <2>1. pc' = None /\ UNCHANGED <<vars, lost>> /\ fresh' \subseteq fresh
    BY <1>4 DEF EventgroupCreate, EventgroupDelete, Create, Delete
  <2>2. KernelInv' BY <2>1, KernelInvStep DEF Calm
  <2>3. SysInv' BY <1>4, CreateSys, GroupKind DEF EventgroupCreate, EventgroupDelete, Calm
  <2>4. UNCHANGED <<listen, evs>> BY <2>1 DEF vars, evVars
  <2>5. GroupChecked' BY <2>1 DEF GroupChecked
  <2>6. Preserves({}) BY <2>1, <2>4, IdlePreserves
  <2>7. CASE EventgroupDelete(g)
    <3>1. UNCHANGED reg /\ objs' \subseteq objs
      BY <2>7 DEF EventgroupDelete, Delete
    <3>2. QED BY <2>1, <2>2, <2>3, <2>5, <2>6, <3>1, GroupKept DEF Calm
  <2>8. CASE EventgroupCreate(g)
    <3>1. objs' = objs \cup {g} /\ g \in fresh /\ reg' = [reg EXCEPT ![g] = {}]
      BY <2>8 DEF EventgroupCreate, Create
    <3>2. reg \in [Group -> SUBSET UNION Mask] BY DEF EventgroupInv
    <3>3. /\ reg' \in [Group -> SUBSET UNION Mask]
          /\ \A h \in Group : h # g => reg'[h] = reg[h]
      BY <3>1, <3>2
    <3>4. \A m \in Mask, t \in Task : Heard(t, SetEvent[g][m])' /\ Heard(t, ClearEvent[g][m])'
      BY <2>4, <3>1 DEF EventgroupInv, GroupUnborn, Heard, Unpolled, OwnHash
    <3>5. GroupHeard'
      <4>1. SUFFICES ASSUME NEW h \in objs \cup {g}, NEW m \in Mask, NEW t \in Task,
                            OwnFlags(m)
                     PROVE  /\ reg'[h] \cap m # {} => Heard(t, SetEvent[h][m])'
                            /\ reg'[h] \cap m = {} => Heard(t, ClearEvent[h][m])'
        BY <3>1 DEF GroupHeard, OwnFlags
      <4>2. CASE h = g BY <3>4, <4>1, <4>2
      <4>3. CASE h \in objs /\ h # g
        <5>1. h \in Group /\ reg'[h] = reg[h] BY <1>0, <3>3, <4>3
        <5>2. QED BY <2>6, <4>1, <4>3, <5>1, GroupEvents DEF EventgroupInv, GroupHeard, Preserves
      <4>4. QED BY <4>1, <4>2, <4>3
    <3>6. GroupUnborn' BY <2>1, <2>4 DEF EventgroupInv, GroupUnborn, Unpolled, OwnHash
    <3>7. QED BY <2>2, <2>3, <2>5, <3>3, <3>5, <3>6 DEF EventgroupInv
  <2>9. QED BY <1>4, <2>7, <2>8
<1>5. ASSUME NEW g \in Group, NEW m \in Mask, NEW f \in {"Set", "Clear"},
             IsrEventgroupFlags(f, g, m)
      PROVE  KernelInv' /\ SysInv' /\ EventgroupInv'
  <2>1. IsrEnter(f, g) /\ phase = "thread" /\ UNCHANGED <<sysFrame, pc, objs, fresh>>
    BY <1>5 DEF IsrEventgroupFlags, IsrEnter
  <2>2. UNCHANGED listen BY <1>5 DEF IsrEventgroupFlags, Change, IsrRefused
  <2>3. SysInv' BY <2>1, <2>2, IsrSys, GroupKind DEF Calm
  <2>4. CASE IsrAccess(g, "WRITE") /\ Change(TRUE, f, g, g, m)
    <3>1. ~Holds /\ g \in objs BY <2>4, IsrRefusedWhenHeld, GroupKind DEF Calm, SysInv
    <3>2. GroupChecked' BY <2>1, <3>1 DEF GroupChecked, Holds
    <3>3. QED BY <1>5, <2>1, <2>3, <2>4, <3>1, <3>2, GroupChanged
  <2>5. CASE IsrRefused /\ UNCHANGED reg
    <3>1. UNCHANGED vars BY <2>1, <2>5 DEF IsrRefused, sysFrame, vars
    <3>2. KernelInv' BY <3>1, KernelInvStep DEF Calm
    <3>3. Preserves({}) BY <2>5, IdlePreserves DEF IsrRefused, evVars
    <3>4. GroupChecked' BY <2>1, <2>5 DEF EventgroupInv, GroupChecked
    <3>5. QED BY <2>1, <2>3, <2>5, <3>2, <3>3, <3>4, GroupKept DEF Calm
  <2>6. QED BY <1>5, <2>4, <2>5 DEF IsrEventgroupFlags
<1>6. ASSUME NEW f \in {"Set", "Clear"}, EventgroupFlagsStep(f)
      PROVE  KernelInv' /\ SysInv' /\ EventgroupInv'
  <2>1. CASE At(f, "check") /\ Checked("act") /\ UNCHANGED reg
    BY <2>1, GroupCheck
  <2>2. CASE /\ At(f, "act") /\ Goto("unlock")
             /\ Change(FALSE, f, pc.local, pc.obj, pc.arg.mask)
             /\ UNCHANGED <<sysFrame, fresh, objs, lock, node>>
    <3>1. pc.local = pc.obj /\ pc.obj \in objs /\ phase = "thread" /\ pc \in EventgroupCall
      BY <2>2, CallPastLock, GroupKind DEF Calm, SysInv
    <3>2. pc.arg.mask \in Mask BY <1>6, <2>2, <3>1, GroupArgs DEF At
    <3>3. NoPermanent' BY <2>2 DEF Calm, SysInv, NoPermanent, Change
    <3>4. SysInv' /\ Moved(pc, pc', pc.local, "unlock") BY <2>2, <3>3, GotoSys DEF Calm
    <3>5. GroupChecked' BY <3>4 DEF GroupChecked, Moved
    <3>6. QED BY <1>6, <2>2, <3>1, <3>2, <3>4, <3>5, GroupChanged
  <2>3. QED BY <1>6, <2>1, <2>2 DEF EventgroupFlagsStep
<1>7. ASSUME NEW f \in {"RequireSet", "RequireCleared"}, EventgroupRequireStep(f)
      PROVE  KernelInv' /\ SysInv' /\ EventgroupInv'
  <2>1. CASE /\ At(f, "check")
             /\ Checked(IF Required(f, pc.obj, pc.arg.mask) THEN "unlock" ELSE "register")
             /\ UNCHANGED reg
    <3> DEFINE s == IF Required(f, pc.obj, pc.arg.mask) THEN "unlock" ELSE "register"
    <3>1. /\ s \in {"act", "register", "unlock"}
          /\ s = "register" => /\ f = "RequireSet" => reg[pc.obj] \cap pc.arg.mask = {}
                               /\ f = "RequireCleared" => reg[pc.obj] \cap pc.arg.mask # {}
      BY DEF Required
    <3>2. Checked(s) BY <2>1
    <3> HIDE DEF s
    <3>3. QED BY <2>1, <3>1, <3>2, GroupCheck
  <2>2. CASE /\ At(f, "register") /\ Goto("unlock")
             /\ SysCallRegister(RequireEvent(f, pc.obj, pc.arg.mask), pc.arg.ms)
             /\ UNCHANGED <<sysFrame, evVars, fresh, objs, lock, node, lost, reg>>
    <3>1. pc \in EventgroupCall /\ pc.obj \in Group
      BY <2>2, CallPastLock, GroupKind DEF Calm, SysInv
    <3>2. pc.arg.ms \in Timeout \cup {Inf} /\ pc.arg.mask \in Mask
      BY <1>7, <2>2, <3>1, GroupArgs DEF At
    <3>3. /\ f = "RequireSet" => reg[pc.obj] \cap pc.arg.mask = {}
          /\ f = "RequireCleared" => reg[pc.obj] \cap pc.arg.mask # {}
      BY <2>2 DEF At, EventgroupInv, GroupChecked
    <3>4. SetEvent[pc.obj][pc.arg.mask] # ClearEvent[pc.obj][pc.arg.mask]
      BY <3>1, <3>2, EventsApart
    <3>5. RequireEvent(f, pc.obj, pc.arg.mask)
            \in {SetEvent[pc.obj][pc.arg.mask], ClearEvent[pc.obj][pc.arg.mask]}
      BY DEF RequireEvent
    <3>6. /\ RequireEvent(f, pc.obj, pc.arg.mask) = SetEvent[pc.obj][pc.arg.mask]
               => reg[pc.obj] \cap pc.arg.mask = {}
          /\ RequireEvent(f, pc.obj, pc.arg.mask) = ClearEvent[pc.obj][pc.arg.mask]
               => reg[pc.obj] \cap pc.arg.mask # {}
      BY <1>7, <3>3, <3>4 DEF RequireEvent
    <3>7. QED BY <2>2, <3>2, <3>5, <3>6, GroupPolled
  <2>3. QED BY <1>7, <2>1, <2>2 DEF EventgroupRequireStep
<1>8. QED BY <1>1, <1>2, <1>3, <1>4, <1>5, <1>6, <1>7 DEF EventgroupNext
--------------------------------------------------------------------------------
(* Semaphores: between the check of the count and the increment the          *)
(* semaphore is locked.                                                      *)
SemaphoreChecked ==
  pc # None /\ pc.step = "act" /\ pc.fn = "Acquire" => aqCnt[pc.obj] = 0

SemaphoreInv ==
  kind = "semaphore" => aqCnt \in [Sem -> {0, 1}] /\ SemaphoreChecked

LEMMA SemaphoreKind ==
  ASSUME kind = "semaphore"
  PROVE  KindObj = Sem /\ KindCall = SemaphoreCall
<1>1. KindObj = Sem BY ObjAssumption DEF KindObj
<1>2. \A c \in MessageCall : c.obj \in Queue BY DEF MessageCall, CallOf
<1>3. \A c \in MailboxCall : c.obj \in Mbx BY DEF MailboxCall, CallOf
<1>4. \A c \in EventgroupCall : c.obj \in Group BY DEF EventgroupCall, CallOf
<1>5. \A c \in SemaphoreCall : c.obj \in Sem BY DEF SemaphoreCall, CallOf
<1>6. QED BY <1>1, <1>2, <1>3, <1>4, <1>5, ObjAssumption DEF KindCall

LEMMA SemaphoreArgs ==
  ASSUME NEW c \in SemaphoreCall
  PROVE  c.obj \in Sem /\ (c.fn = "Acquire" => c.arg \in [ms : Timeout \cup {Inf}])
BY DEF SemaphoreCall, CallOf

LEMMA SemaphoreEnter ==
  ASSUME Calm, SemaphoreInv, kind = "semaphore", NEW f, NEW s \in Sem,
         NEW k \in Event \cup {None}, NEW mode, NEW arg, Enter(f, s, k, mode, arg),
         UNCHANGED aqCnt,
         [fn |-> f, obj |-> s, mode |-> mode, arg |-> arg, local |-> None, step |-> "lock"]
           \in SemaphoreCall
  PROVE  KernelInv' /\ SysInv' /\ SemaphoreInv'
<1>1. KernelInv' BY EnterKernel, KernelInvStep DEF Calm
<1>2. SysInv' BY EnterSys, SemaphoreKind DEF Calm
<1>3. pc = None /\ (pc' = pc \/ pc'.step = "lock") BY EnterStep
<1>4. SemaphoreChecked' BY <1>3 DEF SemaphoreChecked
<1>5. QED BY <1>1, <1>2, <1>4 DEF SemaphoreInv

LEMMA SemaphoreCheck ==
  ASSUME Calm, SemaphoreInv, kind = "semaphore", NEW f, At(f, "check"),
         NEW s \in {"act", "register", "unlock"}, Checked(s), UNCHANGED aqCnt,
         f = "Acquire" /\ s = "act" => aqCnt[pc.obj] = 0
  PROVE  KernelInv' /\ SysInv' /\ SemaphoreInv'
<1>1. KernelInv' BY KernelInvStep DEF Calm, Checked
<1>2. SysInv' /\ Moved(pc, pc', pc.obj, s) BY CheckedSys DEF Calm
<1>3. SemaphoreChecked' BY <1>2 DEF SemaphoreChecked, Moved, At
<1>4. QED BY <1>1, <1>2, <1>3 DEF SemaphoreInv

(* The step of a call that takes or frees the semaphore.                     *)
LEMMA SemaphoreAct ==
  ASSUME Calm, SemaphoreInv, kind = "semaphore", NEW f, At(f, "act"), Goto("unlock"),
         aqCnt' \in [Sem -> {0, 1}],
         UNCHANGED <<sysFrame, listen, evVars, fresh, objs, lock, node, lost>>
  PROVE  KernelInv' /\ SysInv' /\ SemaphoreInv'
<1>1. UNCHANGED vars BY DEF sysFrame, vars
<1>2. KernelInv' BY <1>1, KernelInvStep DEF Calm
<1>3. NoPermanent' BY DEF Calm, SysInv, NoPermanent
<1>4. SysInv' /\ Moved(pc, pc', pc.local, "unlock") BY <1>3, GotoSys DEF Calm
<1>5. SemaphoreChecked' BY <1>4 DEF SemaphoreChecked, Moved
<1>6. QED BY <1>2, <1>4, <1>5 DEF SemaphoreInv

LEMMA TakeOnce ==
  ASSUME aqCnt \in [Sem -> {0, 1}], NEW s \in Sem, aqCnt[s] = 0, Take(s)
  PROVE  aqCnt' \in [Sem -> {0, 1}]
BY DEF Take

LEMMA FreeOnce ==
  ASSUME aqCnt \in [Sem -> {0, 1}], NEW s \in Sem, NEW f, Free(f, s)
  PROVE  aqCnt' \in [Sem -> {0, 1}]
BY DEF Free

LEMMA SemaphoreStep ==
  ASSUME Calm, SemaphoreInv, kind = "semaphore", SemaphoreNext
  PROVE  KernelInv' /\ SysInv' /\ SemaphoreInv'
<1>1. ASSUME NEW s \in Sem, NEW ms \in Timeout \cup {Inf}, SemaphoreAcquire(s, ms)
      PROVE  KernelInv' /\ SysInv' /\ SemaphoreInv'
  <2>1. [fn |-> "Acquire", obj |-> s, mode |-> "WRITE", arg |-> [ms |-> ms],
         local |-> None, step |-> "lock"] \in SemaphoreCall
    BY <1>1 DEF SemaphoreCall, CallOf
  <2>2. ReleaseEvent[s] \in Event BY <1>1, EventAssumption
  <2>3. QED BY <1>1, <2>1, <2>2, SemaphoreEnter DEF SemaphoreAcquire, semVars
<1>2. ASSUME NEW s \in Sem, NEW f \in {"Release", "CountReset"}, SemaphoreRelease(f, s)
      PROVE  KernelInv' /\ SysInv' /\ SemaphoreInv'
  <2>1. [fn |-> f, obj |-> s, mode |-> "WRITE", arg |-> None,
         local |-> None, step |-> "lock"] \in SemaphoreCall
    BY <1>2 DEF SemaphoreCall, CallOf
  <2>2. QED BY <1>2, <2>1, SemaphoreEnter DEF SemaphoreRelease, semVars
<1>3. CASE SemaphoreCountGet
  <2>1. ASSUME NEW s \in Sem, Enter("CountGet", s, None, "READ", None)
        PROVE  KernelInv' /\ SysInv' /\ SemaphoreInv'
    <3>1. [fn |-> "CountGet", obj |-> s, mode |-> "READ", arg |-> None,
           local |-> None, step |-> "lock"] \in SemaphoreCall
      BY <2>1 DEF SemaphoreCall, CallOf
    <3>2. QED BY <1>3, <2>1, <3>1, SemaphoreEnter DEF SemaphoreCountGet, semVars
  <2>2. CASE At("CountGet", "check") /\ Checked("unlock")
    BY <1>3, <2>2, SemaphoreCheck DEF SemaphoreCountGet, semVars
  <2>3. QED BY <1>3, <2>1, <2>2 DEF SemaphoreCountGet, Read
<1>4. ASSUME NEW s \in Sem, SemaphoreDelete(s) \/ \E n \in {0, 1} : SemaphoreCreate(s, n)
      PROVE  KernelInv' /\ SysInv' /\ SemaphoreInv'
  <2>1. pc' = None /\ UNCHANGED <<vars, aqCnt>> /\ (Create(s) \/ Delete(s))
    BY <1>4 DEF SemaphoreCreate, SemaphoreDelete, Create, Delete, semVars
  <2>2. KernelInv' BY <2>1, KernelInvStep DEF Calm
  <2>3. SysInv' BY <1>4, <2>1, CreateSys, SemaphoreKind DEF Calm
  <2>4. QED BY <2>1, <2>2, <2>3 DEF SemaphoreInv, SemaphoreChecked
<1>5. ASSUME NEW s \in Sem, NEW f, IsrEnter(f, s), IsrRefused,
             \/ UNCHANGED aqCnt
             \/ IsrAccess(s, "WRITE") /\ aqCnt' \in [Sem -> {0, 1}]
      PROVE  KernelInv' /\ SysInv' /\ SemaphoreInv'
  <2>1. UNCHANGED <<vars, pc, listen>> BY <1>5 DEF IsrEnter, IsrRefused, sysFrame, vars
  <2>2. KernelInv' BY <2>1, KernelInvStep DEF Calm
  <2>3. SysInv' BY <1>5, <2>1, IsrSys, SemaphoreKind DEF Calm
  <2>4. CASE UNCHANGED aqCnt
    BY <2>1, <2>2, <2>3, <2>4 DEF Calm, SemaphoreInv, SemaphoreChecked
  <2>5. CASE IsrAccess(s, "WRITE") /\ aqCnt' \in [Sem -> {0, 1}]
    <3>1. ~Holds BY <1>5, <2>5, IsrRefusedWhenHeld, SemaphoreKind DEF Calm, SysInv
    <3>2. SemaphoreChecked' BY <2>1, <3>1 DEF SemaphoreChecked, Holds
    <3>3. QED BY <2>2, <2>3, <2>5, <3>2 DEF SemaphoreInv
  <2>6. QED BY <1>5, <2>4, <2>5
<1>6. ASSUME NEW s \in Sem, IsrSemaphoreAcquire(s)
      PROVE  KernelInv' /\ SysInv' /\ SemaphoreInv'
  BY <1>5, <1>6, TakeOnce DEF IsrSemaphoreAcquire, SemaphoreInv, semVars
<1>7. ASSUME NEW s \in Sem, NEW f \in {"Release", "CountReset"}, IsrSemaphoreRelease(f, s)
      PROVE  KernelInv' /\ SysInv' /\ SemaphoreInv'
  BY <1>5, <1>7, FreeOnce DEF IsrSemaphoreRelease, SemaphoreInv, semVars
<1>8. CASE SemaphoreAcquireStep
  <2>1. CASE /\ At("Acquire", "check")
             /\ Checked(IF aqCnt[node] = 0 THEN "act" ELSE "register") /\ UNCHANGED semVars
    <3>1. node = pc.obj BY <2>1, CallPastLock DEF Calm, SysInv
    <3> DEFINE s == IF aqCnt[node] = 0 THEN "act" ELSE "register"
    <3>2. s \in {"act", "register", "unlock"} /\ (s = "act" => aqCnt[pc.obj] = 0)
      BY <3>1
    <3>3. Checked(s) /\ UNCHANGED aqCnt BY <2>1 DEF semVars
    <3> HIDE DEF s
    <3>4. QED BY <2>1, <3>2, <3>3, SemaphoreCheck
  <2>2. CASE /\ At("Acquire", "act") /\ Goto("unlock") /\ Take(pc.local)
             /\ UNCHANGED <<sysFrame, listen, evVars, fresh, objs, lock, node, lost>>
    <3>1. pc.local = pc.obj /\ pc.obj \in Sem
      BY <2>2, CallPastLock, SemaphoreKind DEF Calm, SysInv
    <3>2. aqCnt[pc.local] = 0 BY <2>2, <3>1 DEF At, SemaphoreInv, SemaphoreChecked
    <3>3. aqCnt' \in [Sem -> {0, 1}] BY <2>2, <3>1, <3>2, TakeOnce DEF SemaphoreInv
    <3>4. QED BY <2>2, <3>3, SemaphoreAct
  <2>3. CASE /\ At("Acquire", "register") /\ Goto("unlock")
             /\ SysCallRegister(ReleaseEvent[pc.obj], pc.arg.ms)
             /\ UNCHANGED <<sysFrame, evVars, fresh, objs, lock, node, lost, semVars>>
    <3>1. InTask /\ pc \in SemaphoreCall /\ pc.obj \in Sem
      BY <2>3, CallPastLock, SemaphoreKind DEF Calm, SysInv
    <3>2. pc.arg.ms \in Timeout \cup {Inf} /\ ReleaseEvent[pc.obj] \in Event
      BY <2>3, <3>1, SemaphoreArgs, EventAssumption DEF At
    <3>3. KernelInv' BY <2>3, <3>1, <3>2, RegisterKernel, KernelInvStep DEF Calm
    <3>4. NoPermanent' BY <2>3, <3>2, RegisterPreserves DEF Calm, evVars
    <3>5. SysInv' /\ Moved(pc, pc', pc.local, "unlock") BY <2>3, <3>4, GotoSys DEF Calm
    <3>6. UNCHANGED aqCnt BY <2>3 DEF semVars
    <3>7. QED BY <3>3, <3>5, <3>6 DEF SemaphoreInv, SemaphoreChecked, Moved
  <2>4. QED BY <1>8, <2>1, <2>2, <2>3 DEF SemaphoreAcquireStep
<1>9. ASSUME NEW f \in {"Release", "CountReset"}, SemaphoreReleaseStep(f)
      PROVE  KernelInv' /\ SysInv' /\ SemaphoreInv'
  <2>1. CASE At(f, "check") /\ Checked("act") /\ UNCHANGED semVars
    BY <1>9, <2>1, SemaphoreCheck DEF semVars
  <2>2. CASE /\ At(f, "act") /\ Goto("unlock") /\ Free(f, pc.local)
             /\ UNCHANGED <<sysFrame, listen, evVars, fresh, objs, lock, node, lost>>
    <3>1. pc.local = pc.obj /\ pc.obj \in Sem
      BY <2>2, CallPastLock, SemaphoreKind DEF Calm, SysInv
    <3>2. aqCnt' \in [Sem -> {0, 1}] BY <2>2, <3>1, FreeOnce DEF SemaphoreInv
    <3>3. QED BY <2>2, <3>2, SemaphoreAct
  <2>3. QED BY <1>9, <2>1, <2>2 DEF SemaphoreReleaseStep
<1>10. QED BY <1>1, <1>2, <1>3, <1>4, <1>6, <1>7, <1>8, <1>9 DEF SemaphoreNext
--------------------------------------------------------------------------------
(* The composition.  The counters of the kinds that are not explored keep    *)
(* the values they start with.                                               *)
OtherKinds ==
  /\ kind # "mailbox" => counter = [b \in Mbx |-> [i \in Index |-> 0]]
  /\ kind # "semaphore" => aqCnt = [s \in Sem |-> 0]

KindInv == MessageInv /\ MailboxInv /\ EventgroupInv /\ SemaphoreInv /\ OtherKinds

ItcInv == KernelInv /\ SysInv /\ KindInv

LEMMA ItcInitial ==
  ASSUME ItcInit
  PROVE  ItcInv
<1>1. KernelInv
  <2>1. Init BY DEF ItcInit, SysInit
  <2>2. AllSeen BY <2>1 DEF Init, AllSeen
  <2>3. QED BY <2>1, <2>2, KernelTypesInit, KernelListsInit DEF KernelInv
<1>2. /\ pc = None /\ fresh = Obj /\ objs = {} /\ lock = [o \in Obj |-> 0] /\ call = None
  BY DEF ItcInit, SysInit, Init
<1>3. \A t \in Task, k \in Key : listen[t][k] = None
  BY DEF ItcInit, SysInit, Init, NoPolls
<1>4. Event \subseteq Key BY DEF Key
<1>5. SysInv
  BY <1>2, <1>3 DEF SysInv, LockInv, CallerRuns, LockOfCall, NodeOfCall, NoPermanent, Holds
<1>6. MessageInv
  <2>1. mq \in [Queue -> Seq(Msg)] BY DEF ItcInit, MessageInit
  <2>2. MessageUnborn BY <1>3, <1>4, EventAssumption DEF MessageUnborn, Unpolled
  <2>3. QED BY <1>2, <2>1, <2>2 DEF MessageInv, MessageHeard, MessageChecked
<1>7. MailboxInv
  <2>1. CountersTyped
    BY MailboxSizes DEF ItcInit, MailboxInit, CountersTyped, CountersFit, Address
  <2>2. MailboxUnborn BY <1>3, <1>4, MailboxEvents DEF MailboxUnborn, Unpolled
  <2>3. QED BY <1>2, <2>1, <2>2 DEF MailboxInv, MailboxHeard, MailboxChecked
<1>8. EventgroupInv
  <2>1. reg \in [Group -> SUBSET UNION Mask] BY DEF ItcInit, EventgroupInit
  <2>2. GroupUnborn BY <1>3, <1>4, GroupEvents DEF GroupUnborn, Unpolled
  <2>3. QED BY <1>2, <2>1, <2>2 DEF EventgroupInv, GroupHeard, GroupChecked
<1>9. SemaphoreInv
  BY <1>2 DEF ItcInit, SemaphoreInit, SemaphoreInv, SemaphoreChecked
<1>10. OtherKinds BY DEF ItcInit, MailboxInit, SemaphoreInit, OtherKinds
<1>11. QED BY <1>1, <1>5, <1>6, <1>7, <1>8, <1>9, <1>10 DEF ItcInv, KindInv

(* The lock, the unlock and the kernel change no object, and what a call has *)
(* checked still holds.                                                      *)
LEMMA QuietStep ==
  ASSUME SysInv, KindInv, Preserves({}),
         UNCHANGED <<kind, objs, fresh, mq, counter, reg, semVars>>,
         pc' = pc \/ pc' = None \/ pc'.step = "check"
  PROVE  KindInv'
<1>1. MessageInv'
  <2>1. SUFFICES ASSUME kind = "message" PROVE MessageInv'
    BY DEF MessageInv
  <2>2. MessageChecked' BY <2>1 DEF KindInv, MessageInv, MessageChecked, Space
  <2>3. QED BY <2>1, <2>2, MessageKept DEF KindInv
<1>2. MailboxInv'
  <2>1. SUFFICES ASSUME kind = "mailbox" PROVE MailboxInv'
    BY DEF MailboxInv
  <2>2. MailboxChecked' BY <2>1 DEF KindInv, MailboxInv, MailboxChecked
  <2>3. QED BY <2>1, <2>2, MailboxKept DEF KindInv
<1>3. EventgroupInv'
  <2>1. SUFFICES ASSUME kind = "group" PROVE EventgroupInv'
    BY DEF EventgroupInv
  <2>2. GroupChecked' BY <2>1 DEF KindInv, EventgroupInv, GroupChecked
  <2>3. QED BY <2>1, <2>2, GroupKept DEF KindInv
<1>4. SemaphoreInv' BY DEF KindInv, SemaphoreInv, SemaphoreChecked, semVars
<1>5. OtherKinds' BY DEF KindInv, OtherKinds, semVars
<1>6. QED BY <1>1, <1>2, <1>3, <1>4, <1>5 DEF KindInv

LEMMA ItcStep ==
  ASSUME Lone, ItcInv, [ItcNext]_itcVars
  PROVE  ItcInv'
<1>0. KernelInv /\ SysInv /\ KindInv BY DEF ItcInv
<1>1. CASE UNCHANGED itcVars
  <2>1. UNCHANGED <<vars, sysVars, mq, counter, reg, semVars, kind>> BY <1>1 DEF itcVars
  <2>2. KernelInv' BY <1>0, <2>1, KernelInvStep
  <2>3. UNCHANGED <<fresh, objs, lock, node, pc, lost, listen, evs, call, running, dispatch>>
    BY <2>1 DEF sysVars, vars, evVars, taskVars
  <2>4. KindObj' = KindObj /\ KindCall' = KindCall BY <2>1 DEF KindObj, KindCall
  <2>5. SysInv'
    BY <1>0, <2>3, <2>4 DEF SysInv, LockInv, CallerRuns, LockOfCall, NodeOfCall, NoPermanent, Holds
  <2>6. KindInv' BY <1>0, <2>1, <2>3, IdlePreserves, QuietStep
  <2>7. QED BY <2>2, <2>5, <2>6 DEF ItcInv
<1>2. CASE ItcNext
  <2>1. UNCHANGED kind BY <1>2 DEF ItcNext
  <2>2. Calm BY <1>0, <2>1 DEF Calm
  <2>3. CASE kind = "message" /\ MessageNext /\ UNCHANGED <<counter, reg, semVars>>
    <3>1. KernelInv' /\ SysInv' /\ MessageInv' BY <1>0, <2>2, <2>3, MessageStep DEF KindInv
    <3>2. KindInv'
      BY <1>0, <2>1, <2>3, <3>1
      DEF KindInv, MailboxInv, EventgroupInv, SemaphoreInv, OtherKinds, semVars
    <3>3. QED BY <3>1, <3>2 DEF ItcInv
  <2>4. CASE kind = "mailbox" /\ MailboxNext /\ UNCHANGED <<mq, reg, semVars>>
    <3>1. KernelInv' /\ SysInv' /\ MailboxInv' BY <1>0, <2>2, <2>4, MailboxStep DEF KindInv
    <3>2. KindInv'
      BY <1>0, <2>1, <2>4, <3>1
      DEF KindInv, MessageInv, EventgroupInv, SemaphoreInv, OtherKinds, semVars
    <3>3. QED BY <3>1, <3>2 DEF ItcInv
  <2>5. CASE kind = "group" /\ EventgroupNext /\ UNCHANGED <<mq, counter, semVars>>
    <3>1. KernelInv' /\ SysInv' /\ EventgroupInv' BY <1>0, <2>2, <2>5, GroupStep DEF KindInv
    <3>2. KindInv'
      BY <1>0, <2>1, <2>5, <3>1
      DEF KindInv, MessageInv, MailboxInv, SemaphoreInv, OtherKinds, semVars
    <3>3. QED BY <3>1, <3>2 DEF ItcInv
  <2>6. CASE kind = "semaphore" /\ SemaphoreNext /\ UNCHANGED <<mq, counter, reg>>
    <3>1. KernelInv' /\ SysInv' /\ SemaphoreInv' BY <1>0, <2>2, <2>6, SemaphoreStep DEF KindInv
    <3>2. KindInv'
      BY <1>0, <2>1, <2>6, <3>1
      DEF KindInv, MessageInv, MailboxInv, EventgroupInv, OtherKinds
    <3>3. QED BY <3>1, <3>2 DEF ItcInv
  <2>7. CASE LockNode /\ UNCHANGED <<mq, counter, reg, semVars>>
    <3>1. UNCHANGED <<vars, fresh, objs, lost>> BY <2>7 DEF LockNode
    <3>2. KernelInv' BY <1>0, <3>1, KernelInvStep
    <3>3. SysInv' BY <1>0, <2>1, <2>7, LockSys
    <3>4. UNCHANGED <<listen, evs>> BY <3>1 DEF vars, evVars
    <3>5. pc' = None \/ pc'.step = "check"
      <4>1. pc # None /\ pc \in KindCall
        BY <1>0, <2>7 DEF LockNode, SysInv, LockInv, CallerRuns
      <4>2. Shape(pc, KindCall) BY <4>1, KindCallWellFormed DEF WellFormed
      <4>3. [pc EXCEPT !.step = "check"].step = "check"
        BY <4>2 DEF Shape, Moved, CallStep
      <4>4. QED BY <2>7, <4>3 DEF LockNode, Return
    <3>6. KindInv' BY <1>0, <2>1, <2>7, <3>1, <3>4, <3>5, IdlePreserves, QuietStep
    <3>7. QED BY <3>2, <3>3, <3>6 DEF ItcInv
  <2>8. CASE UnlockNode /\ UNCHANGED <<mq, counter, reg, semVars>>
    <3>1. UNCHANGED <<vars, fresh, objs, lost>> /\ pc' = None BY <2>8 DEF UnlockNode, Return
    <3>2. KernelInv' BY <1>0, <3>1, KernelInvStep
    <3>3. SysInv' BY <1>0, <2>1, <2>8, UnlockSys
    <3>4. UNCHANGED <<listen, evs>> BY <3>1 DEF vars, evVars
    <3>5. KindInv' BY <1>0, <2>1, <2>8, <3>1, <3>4, IdlePreserves, QuietStep
    <3>6. QED BY <3>2, <3>3, <3>5 DEF ItcInv
  <2>9. CASE KernelStep /\ UNCHANGED <<mq, counter, reg, semVars>>
    <3>1. KernelInv' BY <1>0, <2>9, StepOfKernel, KernelInvStep
    <3>2. SysInv' BY <1>0, <2>1, <2>9, KernelSys DEF KernelInv
    <3>3. UNCHANGED <<fresh, objs, pc>> BY <2>9 DEF KernelStep
    <3>4. KindInv' BY <1>0, <2>1, <2>9, <3>3, KernelPreserves, QuietStep
    <3>5. QED BY <3>1, <3>2, <3>4 DEF ItcInv
  <2>10. QED BY <1>2, <2>3, <2>4, <2>5, <2>6, <2>7, <2>8, <2>9 DEF ItcNext
<1>3. QED BY <1>1, <1>2

LEMMA ItcInvariant ==
  ASSUME Lone
  PROVE  ItcSpec => []ItcInv
<1>1. ItcInit => ItcInv BY ItcInitial
<1>2. ItcInv /\ [ItcNext]_itcVars => ItcInv' BY ItcStep
<1>3. QED BY <1>1, <1>2, PTL DEF ItcSpec

--------------------------------------------------------------------------------
(* The locks whatever the events, masks and widths are: no step of a call    *)
(* looks at a poll before it locks or unlocks.                               *)
LEMMA MessageLocks ==
  ASSUME Lone, LockInv, UNCHANGED kind, kind = "message", MessageNext
  PROVE  LockInv'
<1>1. KindObj = Queue /\ KindCall = MessageCall BY MessageKind
<1>2. ASSUME NEW q \in Queue, NEW m \in Msg, NEW ms \in Timeout \cup {Inf}, MessageSend(q, m, ms)
      PROVE  LockInv'
  <2>1. [fn |-> "MessageSend", obj |-> q, mode |-> "WRITE", arg |-> [msg |-> m, ms |-> ms],
         local |-> None, step |-> "lock"] \in MessageCall
    BY <1>2 DEF MessageCall, CallOf
  <2>2. QED BY <1>1, <1>2, <2>1, EnterLocks DEF MessageSend
<1>3. ASSUME NEW q \in Queue, NEW ms \in Timeout \cup {Inf}, MessageReceive(q, ms)
      PROVE  LockInv'
  <2>1. [fn |-> "MessageReceive", obj |-> q, mode |-> "WRITE", arg |-> [ms |-> ms],
         local |-> None, step |-> "lock"] \in MessageCall
    BY <1>3 DEF MessageCall, CallOf
  <2>2. QED BY <1>1, <1>3, <2>1, EnterLocks DEF MessageReceive
<1>4. CASE MessageQueueSizeGet
  <2>1. ASSUME NEW q \in Queue, Enter("SizeGet", q, None, "WRITE", None)
        PROVE  LockInv'
    <3>1. [fn |-> "SizeGet", obj |-> q, mode |-> "WRITE", arg |-> None,
           local |-> None, step |-> "lock"] \in MessageCall
      BY <2>1 DEF MessageCall, CallOf
    <3>2. QED BY <1>1, <2>1, <3>1, EnterLocks
  <2>2. CASE At("SizeGet", "check") /\ Checked("unlock") BY <2>2, CheckedLocks
  <2>3. QED BY <1>4, <2>1, <2>2 DEF MessageQueueSizeGet, Read
<1>5. ASSUME NEW q \in Queue, MessageQueueCreate(q) PROVE LockInv'
  BY <1>1, <1>5, CreateLocks DEF MessageQueueCreate
<1>6. ASSUME NEW q \in Queue, NEW m \in Msg, IsrMessageSend(q, m) PROVE LockInv'
  BY <1>1, <1>6, IsrLocks DEF IsrMessageSend
<1>7. CASE MessageSendStep
  <2>1. CASE At("MessageSend", "check") /\ Checked(IF Space(node) THEN "act" ELSE "register")
    BY <2>1, CheckedLocks
  <2>2. CASE \/ At("MessageSend", "act") \/ At("MessageSend", "register")
    <3>1. Goto("unlock") /\ UNCHANGED <<sysFrame, fresh, objs, lock, node>>
      BY <1>7, <2>2 DEF MessageSendStep, At
    <3>2. QED BY <2>2, <3>1, GotoLocks
  <2>3. QED BY <1>7, <2>1, <2>2 DEF MessageSendStep
<1>8. CASE MessageReceiveStep
  <2>1. CASE /\ At("MessageReceive", "check")
             /\ Checked(IF Owner[node] # running THEN "unlock"
                        ELSE IF mq[node] # <<>> THEN "act" ELSE "register")
    BY <2>1, CheckedLocks
  <2>2. CASE \/ At("MessageReceive", "act") \/ At("MessageReceive", "register")
    <3>1. Goto("unlock") /\ UNCHANGED <<sysFrame, fresh, objs, lock, node>>
      BY <1>8, <2>2 DEF MessageReceiveStep, At
    <3>2. QED BY <2>2, <3>1, GotoLocks
  <2>3. QED BY <1>8, <2>1, <2>2 DEF MessageReceiveStep
<1>9. QED BY <1>2, <1>3, <1>4, <1>5, <1>6, <1>7, <1>8 DEF MessageNext

LEMMA MailboxLocks ==
  ASSUME Lone, LockInv, UNCHANGED kind, kind = "mailbox", MailboxNext
  PROVE  LockInv'
<1>1. KindObj = Mbx /\ KindCall = MailboxCall BY MailboxKind
<1>2. ASSUME NEW b \in Mbx, NEW a \in Addr, NEW ms \in Timeout \cup {Inf, None},
             NEW force \in BOOLEAN, IMailboxWrite(b, a, ms, force)
      PROVE  LockInv'
  <2>1. [fn |-> "IMailboxWrite", obj |-> b, mode |-> "WRITE",
         arg |-> [addr |-> a, ms |-> ms, force |-> force],
         local |-> None, step |-> "lock"] \in MailboxCall
    BY <1>2 DEF MailboxCall, CallOf
  <2>2. QED BY <1>1, <1>2, <2>1, EnterLocks DEF IMailboxWrite
<1>3. ASSUME NEW b \in Mbx, NEW a \in Addr, NEW ms \in Timeout \cup {Inf, None},
             MailboxPend(b, a, ms)
      PROVE  LockInv'
  <2>1. [fn |-> "MailboxPend", obj |-> b, mode |-> "WRITE", arg |-> [addr |-> a, ms |-> ms],
         local |-> None, step |-> "lock"] \in MailboxCall
    BY <1>3 DEF MailboxCall, CallOf
  <2>2. QED BY <1>1, <1>3, <2>1, EnterLocks DEF MailboxPend
<1>4. CASE MailboxPendCounterGet
  <2>1. ASSUME NEW b \in Mbx, Enter("PendCounterGet", b, None, "READ", None)
        PROVE  LockInv'
    <3>1. [fn |-> "PendCounterGet", obj |-> b, mode |-> "READ", arg |-> None,
           local |-> None, step |-> "lock"] \in MailboxCall
      BY <2>1 DEF MailboxCall, CallOf
    <3>2. QED BY <1>1, <2>1, <3>1, EnterLocks
  <2>2. CASE At("PendCounterGet", "check") /\ Checked("unlock") BY <2>2, CheckedLocks
  <2>3. QED BY <1>4, <2>1, <2>2 DEF MailboxPendCounterGet, Read
<1>5. ASSUME NEW b \in Mbx, MailboxCreate(b) \/ MailboxDelete(b) PROVE LockInv'
  BY <1>1, <1>5, CreateLocks DEF MailboxCreate, MailboxDelete
<1>6. ASSUME NEW b \in Mbx, NEW a \in Addr, IsrMailboxPost(b, a) PROVE LockInv'
  BY <1>1, <1>6, IsrLocks DEF IsrMailboxPost
<1>7. CASE MailboxWriteStep
  <2>1. CASE At("IMailboxWrite", "check") /\ Checked(WriteCheck(node, pc.arg.addr, pc.arg.force))
    <3>1. WriteCheck(node, pc.arg.addr, pc.arg.force) \in {"act", "register", "unlock"}
      BY DEF WriteCheck
    <3>2. QED BY <2>1, <3>1, CheckedLocks
  <2>2. CASE \/ At("IMailboxWrite", "act") \/ At("IMailboxWrite", "register")
    <3>1. Goto("unlock") /\ UNCHANGED <<sysFrame, fresh, objs, lock, node>>
      BY <1>7, <2>2 DEF MailboxWriteStep, At
    <3>2. QED BY <2>2, <3>1, GotoLocks
  <2>3. QED BY <1>7, <2>1, <2>2 DEF MailboxWriteStep
<1>8. CASE MailboxPendStep
  <2> DEFINE s == IF running \notin MbxOwner THEN "unlock" ELSE PendCheck(node, pc.arg.addr)
  <2>1. CASE At("MailboxPend", "check") /\ Checked(s)
    <3>1. s \in {"act", "register", "unlock"} BY DEF PendCheck
    <3>2. QED BY <2>1, <3>1, CheckedLocks
  <2>2. CASE \/ At("MailboxPend", "act") \/ At("MailboxPend", "register")
    <3>1. Goto("unlock") /\ UNCHANGED <<sysFrame, fresh, objs, lock, node>>
      BY <1>8, <2>2 DEF MailboxPendStep, At
    <3>2. QED BY <2>2, <3>1, GotoLocks
  <2>3. QED BY <1>8, <2>1, <2>2 DEF MailboxPendStep
<1>9. QED BY <1>2, <1>3, <1>4, <1>5, <1>6, <1>7, <1>8 DEF MailboxNext

LEMMA GroupLocks ==
  ASSUME Lone, LockInv, UNCHANGED kind, kind = "group", EventgroupNext
  PROVE  LockInv'
<1>1. KindObj = Group /\ KindCall = EventgroupCall BY GroupKind
<1>2. ASSUME NEW g \in Group, NEW m \in Mask, NEW f \in {"Set", "Clear"}, EventgroupFlags(f, g, m)
      PROVE  LockInv'
  <2>1. [fn |-> f, obj |-> g, mode |-> "WRITE", arg |-> [mask |-> m],
         local |-> None, step |-> "lock"] \in EventgroupCall
    BY <1>2 DEF EventgroupCall, CallOf
  <2>2. QED BY <1>1, <1>2, <2>1, EnterLocks DEF EventgroupFlags
<1>3. ASSUME NEW g \in Group, NEW m \in Mask, NEW f \in {"RequireSet", "RequireCleared"},
             NEW ms \in Timeout \cup {Inf}, EventgroupFlagsRequire(f, g, m, ms)
      PROVE  LockInv'
  <2>1. [fn |-> f, obj |-> g, mode |-> "READ", arg |-> [mask |-> m, ms |-> ms],
         local |-> None, step |-> "lock"] \in EventgroupCall
    BY <1>3 DEF EventgroupCall, CallOf
  <2>2. QED BY <1>1, <1>3, <2>1, EnterLocks DEF EventgroupFlagsRequire
<1>4. CASE EventgroupFlagsGet
  <2>1. ASSUME NEW g \in Group, Enter("Get", g, None, "READ", None)
        PROVE  LockInv'
    <3>1. [fn |-> "Get", obj |-> g, mode |-> "READ", arg |-> None,
           local |-> None, step |-> "lock"] \in EventgroupCall
      BY <2>1 DEF EventgroupCall, CallOf
    <3>2. QED BY <1>1, <2>1, <3>1, EnterLocks
  <2>2. CASE At("Get", "check") /\ Checked("unlock") BY <2>2, CheckedLocks
  <2>3. QED BY <1>4, <2>1, <2>2 DEF EventgroupFlagsGet, Read
<1>5. ASSUME NEW g \in Group, EventgroupCreate(g) \/ EventgroupDelete(g) PROVE LockInv'
  BY <1>1, <1>5, CreateLocks DEF EventgroupCreate, EventgroupDelete
<1>6. ASSUME NEW g \in Group, NEW m \in Mask, NEW f, IsrEventgroupFlags(f, g, m) PROVE LockInv'
  BY <1>1, <1>6, IsrLocks DEF IsrEventgroupFlags
<1>7. ASSUME NEW f, EventgroupFlagsStep(f) PROVE LockInv'
  <2>1. CASE At(f, "check") /\ Checked("act") BY <2>1, CheckedLocks
  <2>2. CASE At(f, "act")
    <3>1. Goto("unlock") /\ UNCHANGED <<sysFrame, fresh, objs, lock, node>>
      BY <1>7, <2>2 DEF EventgroupFlagsStep, At
    <3>2. QED BY <2>2, <3>1, GotoLocks
  <2>3. QED BY <1>7, <2>1, <2>2 DEF EventgroupFlagsStep
<1>8. ASSUME NEW f, EventgroupRequireStep(f) PROVE LockInv'
  <2>1. CASE /\ At(f, "check")
             /\ Checked(IF Required(f, pc.obj, pc.arg.mask) THEN "unlock" ELSE "register")
    BY <2>1, CheckedLocks
  <2>2. CASE At(f, "register")
    <3>1. Goto("unlock") /\ UNCHANGED <<sysFrame, fresh, objs, lock, node>>
      BY <1>8, <2>2 DEF EventgroupRequireStep, At
    <3>2. QED BY <2>2, <3>1, GotoLocks
  <2>3. QED BY <1>8, <2>1, <2>2 DEF EventgroupRequireStep
<1>9. QED BY <1>2, <1>3, <1>4, <1>5, <1>6, <1>7, <1>8 DEF EventgroupNext

LEMMA SemaphoreLocks ==
  ASSUME Lone, LockInv, UNCHANGED kind, kind = "semaphore", SemaphoreNext
  PROVE  LockInv'
<1>1. KindObj = Sem /\ KindCall = SemaphoreCall BY SemaphoreKind
<1>2. ASSUME NEW s \in Sem, NEW ms \in Timeout \cup {Inf}, SemaphoreAcquire(s, ms)
      PROVE  LockInv'
  <2>1. [fn |-> "Acquire", obj |-> s, mode |-> "WRITE", arg |-> [ms |-> ms],
         local |-> None, step |-> "lock"] \in SemaphoreCall
    BY <1>2 DEF SemaphoreCall, CallOf
  <2>2. QED BY <1>1, <1>2, <2>1, EnterLocks DEF SemaphoreAcquire
<1>3. ASSUME NEW s \in Sem, NEW f \in {"Release", "CountReset"}, SemaphoreRelease(f, s)
      PROVE  LockInv'
  <2>1. [fn |-> f, obj |-> s, mode |-> "WRITE", arg |-> None,
         local |-> None, step |-> "lock"] \in SemaphoreCall
    BY <1>3 DEF SemaphoreCall, CallOf
  <2>2. QED BY <1>1, <1>3, <2>1, EnterLocks DEF SemaphoreRelease
<1>4. CASE SemaphoreCountGet
  <2>1. ASSUME NEW s \in Sem, Enter("CountGet", s, None, "READ", None)
        PROVE  LockInv'
    <3>1. [fn |-> "CountGet", obj |-> s, mode |-> "READ", arg |-> None,
           local |-> None, step |-> "lock"] \in SemaphoreCall
      BY <2>1 DEF SemaphoreCall, CallOf
    <3>2. QED BY <1>1, <2>1, <3>1, EnterLocks
  <2>2. CASE At("CountGet", "check") /\ Checked("unlock") BY <2>2, CheckedLocks
  <2>3. QED BY <1>4, <2>1, <2>2 DEF SemaphoreCountGet, Read
<1>5. ASSUME NEW s \in Sem, SemaphoreDelete(s) \/ \E n \in {0, 1} : SemaphoreCreate(s, n)
      PROVE  LockInv'
  BY <1>1, <1>5, CreateLocks DEF SemaphoreCreate, SemaphoreDelete
<1>6. ASSUME NEW s \in Sem, NEW f, IsrSemaphoreAcquire(s) \/ IsrSemaphoreRelease(f, s)
      PROVE  LockInv'
  BY <1>1, <1>6, IsrLocks DEF IsrSemaphoreAcquire, IsrSemaphoreRelease
<1>7. CASE SemaphoreAcquireStep
  <2>1. CASE At("Acquire", "check") /\ Checked(IF aqCnt[node] = 0 THEN "act" ELSE "register")
    BY <2>1, CheckedLocks
  <2>2. CASE \/ At("Acquire", "act") \/ At("Acquire", "register")
    <3>1. Goto("unlock") /\ UNCHANGED <<sysFrame, fresh, objs, lock, node>>
      BY <1>7, <2>2 DEF SemaphoreAcquireStep, At
    <3>2. QED BY <2>2, <3>1, GotoLocks
  <2>3. QED BY <1>7, <2>1, <2>2 DEF SemaphoreAcquireStep
<1>8. ASSUME NEW f, SemaphoreReleaseStep(f) PROVE LockInv'
  <2>1. CASE At(f, "check") /\ Checked("act") BY <2>1, CheckedLocks
  <2>2. CASE At(f, "act")
    <3>1. Goto("unlock") /\ UNCHANGED <<sysFrame, fresh, objs, lock, node>>
      BY <1>8, <2>2 DEF SemaphoreReleaseStep, At
    <3>2. QED BY <2>2, <3>1, GotoLocks
  <2>3. QED BY <1>8, <2>1, <2>2 DEF SemaphoreReleaseStep
<1>9. QED BY <1>2, <1>3, <1>4, <1>5, <1>6, <1>7, <1>8 DEF SemaphoreNext

LEMMA LockInitial == ItcInit => LockInv
<1>1. SUFFICES ASSUME ItcInit PROVE LockInv OBVIOUS
<1>2. fresh = Obj /\ objs = {} /\ lock = [o \in Obj |-> 0] /\ node = None /\ pc = None
      /\ call = None
  BY <1>1 DEF ItcInit, SysInit, Init
<1>3. QED BY <1>2 DEF LockInv, CallerRuns, LockOfCall, NodeOfCall, Holds

LEMMA LockInvStep ==
  ASSUME Lone, LockInv, [ItcNext]_itcVars
  PROVE  LockInv'
<1>1. CASE UNCHANGED itcVars
  <2>1. UNCHANGED <<fresh, objs, lock, node, pc, call, running, dispatch, kind>>
    BY <1>1 DEF itcVars, sysVars, vars, taskVars
  <2>2. KindObj' = KindObj /\ KindCall' = KindCall BY <2>1 DEF KindObj, KindCall
  <2>3. QED BY <2>1, <2>2 DEF LockInv, CallerRuns, LockOfCall, NodeOfCall, Holds
<1>2. CASE ItcNext
  <2>1. UNCHANGED kind BY <1>2 DEF ItcNext
  <2>2. QED
    BY <1>2, <2>1, MessageLocks, MailboxLocks, GroupLocks, SemaphoreLocks, LockLocks,
       UnlockLocks, KernelLocks
    DEF ItcNext
<1>3. QED BY <1>1, <1>2

LEMMA LockInvariant ==
  ASSUME Lone
  PROVE  ItcSpec => []LockInv
<1>1. LockInv /\ [ItcNext]_itcVars => LockInv' BY LockInvStep
<1>2. QED BY <1>1, LockInitial, PTL DEF ItcSpec

(* When no call is in progress no node is locked: a call unlocks the node it *)
(* has locked, however interrupts and ticks come between its steps, when     *)
(* there is one object of a kind and so one node for the static variable.    *)
THEOREM NodesAlwaysReleased ==
  ASSUME Lone
  PROVE  ItcSpec => []NodesReleased
<1>1. LockInv => NodesReleased BY DEF LockInv, LockOfCall, Holds, NodesReleased
<1>2. QED BY <1>1, LockInvariant, PTL

(* The counts, whatever the events and masks are.                            *)
MailboxCounts ==
  CountersTyped /\ MailboxChecked

CountInv == (kind = "mailbox" => MailboxCounts) /\ SemaphoreInv /\ OtherKinds

LEMMA CountsUntouched ==
  ASSUME MailboxCounts, UNCHANGED counter,
         pc' = pc \/ pc' = None \/ pc'.step \in {"lock", "check", "unlock"}
  PROVE  MailboxCounts'
<1>1. CountersTyped'
  BY DEF MailboxCounts, CountersTyped, CountersFit, OwnCounter, Offset, Index
<1>2. QED BY <1>1 DEF MailboxCounts, MailboxChecked

LEMMA MailboxCountsStep ==
  ASSUME Lone, LockInv, MailboxCounts, UNCHANGED kind, kind = "mailbox", MailboxNext
  PROVE  MailboxCounts'
<1>1. KindObj = Mbx /\ KindCall = MailboxCall BY MailboxKind
<1>2. Cardinality(MbxOwner) \in Nat BY MailboxSizes
<1>3. ASSUME NEW f, NEW b, NEW k, NEW mode, NEW arg, Enter(f, b, k, mode, arg), UNCHANGED counter
      PROVE  MailboxCounts'
  BY <1>3, EnterStep, CountsUntouched
<1>4. ASSUME NEW f, NEW s, At(f, s), s # "lock", Goto("unlock"),
             UNCHANGED <<sysFrame, fresh, objs, lock, node>>
      PROVE  pc'.step = "unlock"
  BY <1>4, GotoLocks DEF Moved
<1>5. ASSUME NEW b \in Mbx, NEW a \in Address, NEW isr, NEW id, Post(isr, b, id, a),
             MailboxChecked'
      PROVE  MailboxCounts'
  <2>1. counter' = [counter EXCEPT ![b][Offset(a)] = Cardinality(MbxOwner)]
    BY <1>5 DEF Post
  <2>2. PICK n \in Nat : n = Cardinality(MbxOwner) BY <1>2
  <2>3. counter' = [counter EXCEPT ![b][Offset(a)] = n] BY <2>1, <2>2
  <2>4. CountersTyped /\ n <= Cardinality(MbxOwner) BY <2>2 DEF MailboxCounts
  <2>5. CountersTyped' BY <2>3, <2>4, CounterSet
  <2>6. QED BY <1>5, <2>5 DEF MailboxCounts
<1>6. ASSUME NEW f, At(f, "check"), NEW s \in {"act", "register", "unlock"}, Checked(s)
      PROVE  Moved(pc, pc', pc.obj, s)
  BY <1>6, CheckedLocks
<1>7. CASE MailboxPendCounterGet
  <2>1. CASE At("PendCounterGet", "check") /\ Checked("unlock")
    BY <1>6, <1>7, <2>1, CountsUntouched DEF MailboxPendCounterGet, Moved
  <2>2. QED BY <1>3, <1>7, <2>1 DEF MailboxPendCounterGet, Read
<1>8. ASSUME NEW b \in Mbx, MailboxCreate(b) \/ MailboxDelete(b) PROVE MailboxCounts'
  BY <1>8, CountsUntouched DEF MailboxCreate, MailboxDelete, Create, Delete
<1>9. ASSUME NEW b \in Mbx, NEW a \in Addr, IsrMailboxPost(b, a) PROVE MailboxCounts'
  <2>1. UNCHANGED pc BY <1>9 DEF IsrMailboxPost, IsrEnter
  <2>2. CASE IsrAccess(b, "WRITE") /\ WriteCheck(b, a, FALSE) = "act" /\ Post(TRUE, b, b, a)
    <3>1. ~Holds BY <1>1, <2>2, IsrRefusedWhenHeld
    <3>2. MailboxChecked' BY <2>1, <3>1 DEF MailboxChecked, Holds
    <3>3. a \in Address BY <1>9, <2>2, CheckResults
    <3>4. QED BY <1>5, <2>2, <3>2, <3>3
  <2>3. CASE UNCHANGED counter BY <2>1, <2>3, CountsUntouched
  <2>4. QED BY <1>9, <2>2, <2>3 DEF IsrMailboxPost
<1>10. CASE MailboxWriteStep
  <2> DEFINE s == WriteCheck(node, pc.arg.addr, pc.arg.force)
  <2>1. CASE At("IMailboxWrite", "check") /\ Checked(s) /\ UNCHANGED counter
    <3>1. node = pc.obj /\ pc \in MailboxCall BY <1>1, <2>1, CallPastLock
    <3>2. pc.arg.addr \in Addr BY <2>1, <3>1, MailboxArgs DEF At
    <3>3. /\ s \in {"act", "register", "unlock"}
          /\ s # "unlock" => pc.arg.addr \in Address
          /\ s = "register" => counter[pc.obj][pc.arg.addr] # 0
      BY <3>1, <3>2, CheckResults
    <3> HIDE DEF s
    <3>4. Moved(pc, pc', pc.obj, s) BY <1>6, <2>1, <3>3
    <3>5. MailboxChecked' BY <2>1, <3>3, <3>4 DEF MailboxChecked, Moved, At
    <3>6. CountersTyped'
      BY <2>1 DEF MailboxCounts, CountersTyped, CountersFit, OwnCounter, Offset, Index
    <3>7. QED BY <3>5, <3>6 DEF MailboxCounts
  <2>2. CASE /\ At("IMailboxWrite", "act") /\ Goto("unlock")
             /\ Post(FALSE, pc.local, pc.obj, pc.arg.addr)
             /\ UNCHANGED <<sysFrame, fresh, objs, lock, node>>
    <3>1. pc.local \in Mbx BY <1>1, <2>2, CallPastLock
    <3>2. pc.arg.addr \in Address BY <2>2 DEF At, MailboxCounts, MailboxChecked
    <3>3. MailboxChecked' BY <1>4, <2>2 DEF MailboxChecked
    <3>4. QED BY <1>5, <2>2, <3>1, <3>2, <3>3
  <2>3. CASE /\ At("IMailboxWrite", "register") /\ Goto("unlock") /\ UNCHANGED counter
             /\ UNCHANGED <<sysFrame, fresh, objs, lock, node>>
    BY <1>4, <2>3, CountsUntouched
  <2>4. QED BY <1>10, <2>1, <2>2, <2>3 DEF MailboxWriteStep
<1>11. CASE MailboxPendStep
  <2> DEFINE s == IF running \notin MbxOwner THEN "unlock" ELSE PendCheck(node, pc.arg.addr)
  <2>1. CASE At("MailboxPend", "check") /\ Checked(s) /\ UNCHANGED counter
    <3>1. node = pc.obj /\ pc \in MailboxCall BY <1>1, <2>1, CallPastLock
    <3>2. pc.arg.addr \in Addr BY <2>1, <3>1, MailboxArgs DEF At
    <3>3. /\ s \in {"act", "register", "unlock"}
          /\ s # "unlock" => /\ pc.arg.addr \in Address
                             /\ s = "register" <=> counter[pc.obj][pc.arg.addr] = 0
      BY <3>1, <3>2, CheckResults
    <3> HIDE DEF s
    <3>4. Moved(pc, pc', pc.obj, s) BY <1>6, <2>1, <3>3
    <3>5. MailboxChecked' BY <2>1, <3>3, <3>4 DEF MailboxChecked, Moved, At
    <3>6. CountersTyped'
      BY <2>1 DEF MailboxCounts, CountersTyped, CountersFit, OwnCounter, Offset, Index
    <3>7. QED BY <3>5, <3>6 DEF MailboxCounts
  <2>2. CASE /\ At("MailboxPend", "act") /\ Goto("unlock")
             /\ Pend(pc.local, pc.obj, pc.arg.addr)
             /\ UNCHANGED <<sysFrame, fresh, objs, lock, node>>
    <3>1. pc.local = pc.obj /\ pc.obj \in Mbx BY <1>1, <2>2, CallPastLock
    <3>2. pc.arg.addr \in Address /\ counter[pc.obj][pc.arg.addr] # 0
      BY <2>2 DEF At, MailboxCounts, MailboxChecked
    <3>3. PICK a \in Address : a = pc.arg.addr BY <3>2
    <3>4. PICK b \in Mbx : b = pc.obj BY <3>1
    <3> DEFINE n == (counter[b][Offset(a)] - 1) % 256
    <3>5. n \in Nat /\ (OwnCounter(a) => n <= Cardinality(MbxOwner))
      BY <3>2, <3>3, <3>4, CounterTaken DEF MailboxCounts
    <3>6. counter' = [counter EXCEPT ![b][Offset(a)] = n]
      BY <2>2, <3>1, <3>3, <3>4, MailboxSizes DEF Pend, MailboxCounts, CountersTyped
    <3> HIDE DEF n
    <3>7. MailboxChecked' BY <1>4, <2>2 DEF MailboxChecked
    <3>8. CountersTyped' BY <3>5, <3>6, CounterSet DEF MailboxCounts
    <3>9. QED BY <3>7, <3>8 DEF MailboxCounts
  <2>3. CASE /\ At("MailboxPend", "register") /\ Goto("unlock") /\ UNCHANGED counter
             /\ UNCHANGED <<sysFrame, fresh, objs, lock, node>>
    BY <1>4, <2>3, CountsUntouched
  <2>4. QED BY <1>11, <2>1, <2>2, <2>3 DEF MailboxPendStep
<1>12. QED
  BY <1>3, <1>7, <1>8, <1>9, <1>10, <1>11 DEF MailboxNext, IMailboxWrite, MailboxPend

LEMMA SemaphoreCountsStep ==
  ASSUME Lone, LockInv, SemaphoreInv, UNCHANGED kind, kind = "semaphore", SemaphoreNext
  PROVE  SemaphoreInv'
<1>1. KindObj = Sem /\ KindCall = SemaphoreCall /\ aqCnt \in [Sem -> {0, 1}]
  BY SemaphoreKind DEF SemaphoreInv
<1>2. ASSUME UNCHANGED aqCnt, pc' = pc \/ pc' = None \/ pc'.step \in {"lock", "check", "unlock"}
      PROVE  SemaphoreInv'
  BY <1>2 DEF SemaphoreInv, SemaphoreChecked
<1>3. ASSUME NEW f, NEW o, NEW k, NEW mode, NEW arg, Enter(f, o, k, mode, arg), UNCHANGED aqCnt
      PROVE  SemaphoreInv'
  BY <1>2, <1>3, EnterStep
<1>4. ASSUME NEW f, NEW s, At(f, s), s # "lock", Goto("unlock"), aqCnt' \in [Sem -> {0, 1}],
             UNCHANGED <<sysFrame, fresh, objs, lock, node>>
      PROVE  SemaphoreInv'
  <2>1. pc'.step = "unlock" BY <1>4, GotoLocks DEF Moved
  <2>2. QED BY <1>4, <2>1 DEF SemaphoreInv, SemaphoreChecked
<1>5. ASSUME NEW f, At(f, "check"), NEW s \in {"act", "register", "unlock"}, Checked(s),
             UNCHANGED aqCnt, f = "Acquire" /\ s = "act" => aqCnt[pc.obj] = 0
      PROVE  SemaphoreInv'
  <2>1. Moved(pc, pc', pc.obj, s) BY <1>5, CheckedLocks
  <2>2. QED BY <1>1, <1>5, <2>1 DEF SemaphoreInv, SemaphoreChecked, Moved, At
<1>6. ASSUME NEW s \in Sem, NEW f, IsrEnter(f, s),
             \/ UNCHANGED aqCnt
             \/ IsrAccess(s, "WRITE") /\ aqCnt' \in [Sem -> {0, 1}]
      PROVE  SemaphoreInv'
  <2>1. UNCHANGED pc BY <1>6 DEF IsrEnter
  <2>2. CASE IsrAccess(s, "WRITE") /\ aqCnt' \in [Sem -> {0, 1}]
    <3>1. ~Holds BY <1>1, <2>2, IsrRefusedWhenHeld
    <3>2. QED BY <2>1, <2>2, <3>1 DEF SemaphoreInv, SemaphoreChecked, Holds
  <2>3. QED BY <1>2, <1>6, <2>1, <2>2
<1>7. CASE SemaphoreCountGet
  BY <1>3, <1>5, <1>7 DEF SemaphoreCountGet, Read, semVars
<1>8. ASSUME NEW s \in Sem, SemaphoreDelete(s) \/ \E n \in {0, 1} : SemaphoreCreate(s, n)
      PROVE  SemaphoreInv'
  BY <1>2, <1>8 DEF SemaphoreCreate, SemaphoreDelete, Create, Delete, semVars
<1>9. ASSUME NEW s \in Sem, IsrSemaphoreAcquire(s) PROVE SemaphoreInv'
  BY <1>1, <1>6, <1>9, TakeOnce DEF IsrSemaphoreAcquire, semVars
<1>10. ASSUME NEW s \in Sem, NEW f, IsrSemaphoreRelease(f, s) PROVE SemaphoreInv'
  BY <1>1, <1>6, <1>10, FreeOnce DEF IsrSemaphoreRelease, semVars
<1>11. CASE SemaphoreAcquireStep
  <2> DEFINE r == IF aqCnt[node] = 0 THEN "act" ELSE "register"
  <2>1. CASE At("Acquire", "check") /\ Checked(r) /\ UNCHANGED semVars
    <3>1. node = pc.obj BY <2>1, CallPastLock
    <3>2. r \in {"act", "register", "unlock"} /\ (r = "act" => aqCnt[pc.obj] = 0) BY <3>1
    <3>3. UNCHANGED aqCnt BY <2>1 DEF semVars
    <3> HIDE DEF r
    <3>4. QED BY <1>5, <2>1, <3>2, <3>3
  <2>2. CASE /\ At("Acquire", "act") /\ Goto("unlock") /\ Take(pc.local)
             /\ UNCHANGED <<sysFrame, fresh, objs, lock, node>>
    <3>1. pc.local = pc.obj /\ pc.obj \in Sem BY <1>1, <2>2, CallPastLock
    <3>2. aqCnt[pc.local] = 0 BY <2>2, <3>1 DEF At, SemaphoreInv, SemaphoreChecked
    <3>3. QED BY <1>1, <1>4, <2>2, <3>1, <3>2, TakeOnce
  <2>3. CASE /\ At("Acquire", "register") /\ Goto("unlock") /\ UNCHANGED semVars
             /\ UNCHANGED <<sysFrame, fresh, objs, lock, node>>
    BY <1>1, <1>4, <2>3 DEF semVars
  <2>4. QED BY <1>11, <2>1, <2>2, <2>3 DEF SemaphoreAcquireStep
<1>12. ASSUME NEW f \in {"Release", "CountReset"}, SemaphoreReleaseStep(f) PROVE SemaphoreInv'
  <2>1. CASE At(f, "check") /\ Checked("act") /\ UNCHANGED semVars
    BY <1>5, <1>12, <2>1 DEF semVars
  <2>2. CASE /\ At(f, "act") /\ Goto("unlock") /\ Free(f, pc.local)
             /\ UNCHANGED <<sysFrame, fresh, objs, lock, node>>
    <3>1. pc.local \in Sem BY <1>1, <2>2, CallPastLock
    <3>2. QED BY <1>1, <1>4, <2>2, <3>1, FreeOnce
  <2>3. QED BY <1>12, <2>1, <2>2 DEF SemaphoreReleaseStep
<1>13. QED
  BY <1>3, <1>7, <1>8, <1>9, <1>10, <1>11, <1>12
  DEF SemaphoreNext, SemaphoreAcquire, SemaphoreRelease, semVars

LEMMA CountInitial ==
  ASSUME ItcInit
  PROVE  CountInv
<1>1. pc = None BY DEF ItcInit, SysInit
<1>2. CountersTyped
  BY MailboxSizes DEF ItcInit, MailboxInit, CountersTyped, CountersFit, Address
<1>3. MailboxCounts BY <1>1, <1>2 DEF MailboxCounts, MailboxChecked
<1>4. SemaphoreInv BY <1>1 DEF ItcInit, SemaphoreInit, SemaphoreInv, SemaphoreChecked
<1>5. OtherKinds BY DEF ItcInit, MailboxInit, SemaphoreInit, OtherKinds
<1>6. QED BY <1>3, <1>4, <1>5 DEF CountInv

LEMMA CountInvStep ==
  ASSUME Lone, LockInv, CountInv, [ItcNext]_itcVars
  PROVE  CountInv'
<1>1. ASSUME UNCHANGED <<kind, counter, aqCnt>>,
             pc' = pc \/ pc' = None \/ pc'.step \in {"lock", "check", "unlock"}
      PROVE  CountInv'
  BY <1>1, CountsUntouched DEF CountInv, SemaphoreInv, SemaphoreChecked, OtherKinds
<1>2. CASE UNCHANGED itcVars BY <1>1, <1>2 DEF itcVars, sysVars, semVars
<1>3. CASE ItcNext
  <2>1. UNCHANGED kind BY <1>3 DEF ItcNext
  <2>2. CASE kind \in {"message", "group"} /\ UNCHANGED <<counter, semVars>>
    BY <2>1, <2>2 DEF CountInv, SemaphoreInv, OtherKinds, semVars
  <2>3. CASE kind = "mailbox" /\ MailboxNext /\ UNCHANGED <<mq, reg, semVars>>
    BY <2>1, <2>3, MailboxCountsStep DEF CountInv, SemaphoreInv, OtherKinds, semVars
  <2>4. CASE kind = "semaphore" /\ SemaphoreNext /\ UNCHANGED <<mq, counter, reg>>
    BY <2>1, <2>4, SemaphoreCountsStep DEF CountInv, OtherKinds
  <2>5. CASE (LockNode \/ UnlockNode \/ KernelStep) /\ UNCHANGED <<mq, counter, reg, semVars>>
    <3>1. CASE LockNode
      <4>1. pc # None /\ pc \in KindCall BY <3>1 DEF LockNode, LockInv, CallerRuns
      <4>2. Shape(pc, KindCall) BY <4>1, KindCallWellFormed DEF WellFormed
      <4>3. [pc EXCEPT !.step = "check"].step = "check" BY <4>2 DEF Shape, Moved, CallStep
      <4>4. pc' = None \/ pc'.step = "check" BY <3>1, <4>3 DEF LockNode, Return
      <4>5. QED BY <1>1, <2>1, <2>5, <4>4 DEF semVars
    <3>2. CASE UnlockNode \/ KernelStep
      BY <1>1, <2>1, <2>5, <3>2 DEF UnlockNode, Return, KernelStep, semVars
    <3>3. QED BY <2>5, <3>1, <3>2
  <2>6. QED BY <1>3, <2>2, <2>3, <2>4, <2>5 DEF ItcNext
<1>4. QED BY <1>2, <1>3

LEMMA CountInvariant ==
  ASSUME Lone
  PROVE  ItcSpec => []CountInv
<1>1. ItcInit => CountInv BY CountInitial
<1>2. LockInv /\ CountInv /\ [ItcNext]_itcVars => CountInv' BY CountInvStep
<1>3. QED BY <1>1, <1>2, LockInvariant, PTL DEF ItcSpec

(* A pend takes from a counter that it has checked: the counter of an        *)
(* address that has one of its own, in a mailbox of any size and width,      *)
(* neither exceeds the number of owners nor wraps below zero, with           *)
(* interrupts that post to it between the check and the update.              *)
THEOREM CountersAlwaysFit ==
  ASSUME Lone
  PROVE  ItcSpec => []CountersFit
<1>1. ASSUME CountInv PROVE CountersFit
  <2>1. CASE kind = "mailbox"
    BY <1>1, <2>1 DEF CountInv, MailboxCounts, CountersTyped
  <2>2. CASE kind # "mailbox"
    <3>1. \A b \in Mbx, a \in Address : counter[b][a] = 0
      BY <1>1, <2>2, MailboxSizes DEF CountInv, OtherKinds
    <3>2. QED BY <3>1, MailboxSizes DEF CountersFit, Address
  <2>3. QED BY <2>1, <2>2
<1>2. QED BY <1>1, CountInvariant, PTL

(* A binary semaphore is held once: the count that an acquire has checked is *)
(* still zero when it is incremented, with interrupts that acquire and       *)
(* release it in between.                                                    *)
THEOREM ExclusiveAlways ==
  ASSUME Lone
  PROVE  ItcSpec => []Exclusive
<1>1. CountInv => Exclusive
  BY DEF CountInv, SemaphoreInv, OtherKinds, Exclusive
<1>2. QED BY <1>1, CountInvariant, PTL

(* No wake-up is lost: a task that waits for a message, for space, for an    *)
(* address of a mailbox or for flags has been told once there is what it     *)
(* waits for, or the event is on its way, for every event, address and mask  *)
(* that is not taken for another one.                                        *)
THEOREM NoWakeupEverLost ==
  ASSUME Lone
  PROVE  ItcSpec => []NoWakeupLost
<1>0. ASSUME ItcInv, NEW o \in objs
      PROVE  /\ o \in Queue => kind = "message"
             /\ o \in Mbx => kind = "mailbox"
             /\ o \in Group => kind = "group"
  BY <1>0, ObjAssumption DEF ItcInv, SysInv, LockInv, KindObj
<1>1. ItcInv => MessageTold
  BY <1>0 DEF ItcInv, KindInv, MessageInv, MessageHeard, MessageTold, Heard, Waits
<1>2. ItcInv => MailboxTold
  BY <1>0 DEF ItcInv, KindInv, MailboxInv, MailboxHeard, MailboxTold, Heard, Waits, Address
<1>3. ItcInv => EventgroupTold
  BY <1>0 DEF ItcInv, KindInv, EventgroupInv, GroupHeard, EventgroupTold, Heard, Waits
<1>4. ItcInv => NoWakeupLost BY <1>1, <1>2, <1>3 DEF NoWakeupLost
<1>5. QED BY <1>4, ItcInvariant, PTL
================================================================================
