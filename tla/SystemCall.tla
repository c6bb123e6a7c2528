------------------------------ MODULE SystemCall ------------------------------
(***************************************************************************)
(* What the calls on message queues, mailboxes, event groups and           *)
(* semaphores have in common, on top of the kernel: the macros             *)
(* SYS_CALL_EVENT_HANDLE and SYS_CALL_EVENT_REGISTER, with which a call    *)
(* polls for an event instead of blocking (SystemCall.h), and the macros   *)
(* LIST_NODE_ACCESS_*_BEGIN and _END, which look an object up by its ID    *)
(* and lock its list node around the body of the call (List.h).            *)
(*                                                                         *)
(* A call of the running task takes a step for the look-up, for the lock,  *)
(* for the check of the object's state, for what is done about it, and for *)
(* the unlock; ticks and interrupts come in between.  A call made by an    *)
(* interrupt service routine is one step.                                  *)
(***************************************************************************)
EXTENDS PriorKernel, Integers

CONSTANTS
  Obj,       \* IDs of the objects
  ReadMax    \* LIST_LOCK_READ_COUNT_MAX

VARIABLES
  fresh,     \* the IDs not given out yet
  objs,      \* the objects in the lists of their modules
  lock,      \* the lock of every object's node: -1 write, n > 0 readers
  node,      \* the static variable node of the function that the task calls
  pc,        \* the call of the running task, None when there is none
  lost       \* history: events that a poll they were meant for cannot see

sysVars == <<fresh, objs, lock, node, pc, lost>>

(* The calls in progress of functions fns on objects os with arguments     *)
(* args, under a lock of the given mode.                                   *)
CallOf(fns, os, mode, args) ==
  [fn : fns, obj : os, mode : {mode}, arg : args, local : Obj \cup {None},
   step : {"lock", "check", "act", "register", "unlock"}]

SysInit ==
  /\ Init
  /\ fresh = Obj /\ objs = {}
  /\ lock = [o \in Obj |-> 0]
  /\ node = None
  /\ pc = None
  /\ lost = {}

sysFrame == <<taskVars, prio, del, dispatch, idleFlag, idleLoop, schedLock,
              lag, call, tickVars>>
------------------------------------------------------------------------------
(* Node locks: a node has one writer or up to ReadMax readers.             *)
UtilLock(l, mode) ==
  IF mode = "READ" THEN IF l >= 0 /\ l < ReadMax THEN l + 1 ELSE l
                   ELSE IF l = 0 THEN -1 ELSE l

KeepsWriter(l) == IF l > 0 THEN l - 1 ELSE l \* mutant

UtilUnlock(l) == IF l > 0 THEN l - 1 ELSE 0

ListSearch(o) == IF o \in objs THEN o ELSE None

(* A new object takes an ID that was never used; a deleted one leaves its  *)
(* list, and the polls for its events stay.                                *)
Create(o) ==
  /\ InTask /\ pc = None
  /\ o \in fresh
  /\ fresh' = fresh \ {o}
  /\ objs' = objs \cup {o}
  /\ UNCHANGED <<vars, lock, node, pc, lost>>

Delete(o) ==
  /\ InTask /\ pc = None
  /\ o \in objs
  /\ objs' = objs \ {o}
  /\ UNCHANGED <<vars, fresh, lock, node, pc, lost>>

(* SYS_CALL_EVENT_HANDLE(k) and the look-up: the call returns at once when *)
(* its event has timed out or is still polled.  k is None for a call that   *)
(* never waits.                                                            *)
Enter(f, o, k, mode, arg) ==
  /\ InTask /\ pc = None
  /\ SetPolls(IF k = None THEN listen[running]
                          ELSE ITaskEventHandle(listen[running], k))
  /\ IF k # None /\ TaskPollResult(listen[running], k, FALSE) \in {"TIMEOUT", "POLL"}
     THEN UNCHANGED <<pc, node>>
     ELSE /\ node' = ListSearch(o)
          /\ pc' = [fn |-> f, obj |-> o, mode |-> mode, arg |-> arg, local |-> None,
                    step |-> "lock"]
  /\ UNCHANGED <<fresh, objs, lock, lost>>

(* The call returns; nothing reads its static variable before it is        *)
(* assigned again.                                                         *)
Return == pc' = None /\ node' = None

(* ListNodeLock: the call returns when there is no node or it is locked.   *)
LockNode ==
  /\ phase = "thread" /\ pc # None /\ pc.step = "lock"
  /\ IF node # None /\ UtilLock(lock[node], pc.mode) # lock[node]
     THEN /\ lock' = [lock EXCEPT ![node] = UtilLock(@, pc.mode)]
          /\ pc' = [pc EXCEPT !.step = "check"]
          /\ UNCHANGED node
     ELSE Return /\ UNCHANGED lock
  /\ UNCHANGED <<vars, fresh, objs, lost>>

(* ListNodeUnlock of whatever the static variable points to by now.        *)
UnlockNode ==
  /\ phase = "thread" /\ pc # None /\ pc.step = "unlock"
  /\ lock' = [o \in Obj |-> IF o = node THEN UtilUnlock(lock[o]) ELSE lock[o]]
  /\ Return
  /\ UNCHANGED <<vars, fresh, objs, lost>>

(* Call f is past its lock and at the given step.                          *)
At(f, step) == phase = "thread" /\ pc # None /\ pc.fn = f /\ pc.step = step

Goto(step) == pc' = [pc EXCEPT !.step = step]

(* The check takes the object from the node, keeps it in a local variable, *)
(* and decides on the step that follows.                                   *)
Checked(step) ==
  /\ pc' = [pc EXCEPT !.step = IF node = None THEN "unlock" ELSE step, !.local = node]
  /\ UNCHANGED <<vars, fresh, objs, lock, node, lost>>

(* A call that only reads a value under the lock.                          *)
Read(f, o, mode) ==
  \/ Enter(f, o, None, mode, None)
  \/ At(f, "check") /\ Checked("unlock")

(* An interrupt service routine that makes a call on o in which            *)
(* SYS_CALL_EVENT_HANDLE does nothing.  Its look-up overwrites the static  *)
(* variable of the function it interrupts.                                 *)
IsrEnter(f, o) ==
  /\ phase = "thread"
  /\ node' = IF pc # None /\ pc.fn = f THEN ListSearch(o) ELSE node
  /\ UNCHANGED <<sysFrame, fresh, objs, lock, pc>>

IsrBarges(o, mode) == o \in objs \* mutant

IsrAccess(o, mode) == o \in objs /\ UtilLock(lock[o], mode) # lock[o]

IsrRefused == UNCHANGED <<listen, evVars, lost>>

(* EventEmit.  In an interrupt it fails when the interrupted task is in    *)
(* ListNodeAddAtPosition on EventList, which is then locked.               *)
EmitFrom(isr, k) ==
  \/ EventEmit(k) /\ lost' = lost \ {k}
  \/ /\ isr /\ running # Idle /\ ~dispatch
     /\ pc # None => pc.step = "act"
     /\ UNCHANGED evVars
     /\ lost' = lost \cup {k}

(* SYS_CALL_EVENT_REGISTER: an interrupt does not register.                *)
SysCallRegister(k, ms) ==
  \E us \in ConvertMsToUs(ms) :
    listen' = [listen EXCEPT ![running] =
                 EventRegister(ITaskEventHandle(@, k), k, FALSE, us)]
------------------------------------------------------------------------------
(* The kernel around the calls.  An event that expires while the running   *)
(* task polls it is lost to that poll: the broker does not compare the     *)
(* running task.                                                           *)
KernelStep ==
  /\ \/ pc = None /\ \E tc \in 0 .. TickPeriod : ICoreTickInvoke(tc)
     \/ KernelTaskIdle
     \/ Tick
     \/ Broker
     \/ \E t \in Known : KTcbFromId(t) /\ EmitAtOnce(t)
  /\ lost' = IF phase = "cleanup" /\ Expired(idx) /\ listen[running][evs[idx]] # None
             THEN lost \cup {evs[idx]} ELSE lost
  /\ UNCHANGED <<fresh, objs, lock, node, pc>>

(* Task t, which waits for event k, has been told or will be.              *)
Told(t, k) ==
  \/ listen[t][k].occ \/ listen[t][k].tout
  \/ \E i \in 1 .. Len(evs) : evs[i] = k
  \/ k \in lost

Waits(t, k) == t \in waitList /\ listen[t][k] # None

(* No other event has the hash of k: EventRegister and EventEmit take an   *)
(* event with the same hash, a Fletcher sum of 16 bits, for k.             *)
OwnHash(k) == \A e \in Key : Hash[e] = Hash[k] => e = k

(* When no call is in progress no node is locked: the access block of a    *)
(* call unlocks the node it has locked, whatever interrupts did meanwhile  *)
(* to the static variable it finds the node by.                            *)
NodesReleased == pc = None => \A o \in Obj : lock[o] = 0
==============================================================================
