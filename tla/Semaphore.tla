------------------------------- MODULE Semaphore -------------------------------
(***************************************************************************)
(* Binary semaphores (Semaphore.c), the only type whose calls do anything. *)
(***************************************************************************)
EXTENDS SystemCall

CONSTANTS
  Sem,           \* the IDs of the semaphores
  ReleaseEvent   \* SEM_EVENT_RELEASE of every semaphore

VARIABLES
  aqCnt,    \* aq_cnt of every semaphore
  owner,    \* what owner_task_ids points to; None when it is NULL
  nullWrite \* an ID has been written through a NULL pointer

semVars == <<aqCnt, owner, nullWrite>>

SemaphoreCall ==
  CallOf({"Acquire"}, Sem, "WRITE", [ms : Timeout \cup {Inf}])
    \cup CallOf({"Release", "CountReset"}, Sem, "WRITE", {None})
    \cup CallOf({"CountGet"}, Sem, "READ", {None})

SemaphoreInit ==
  /\ aqCnt = [s \in Sem |-> 0]
  /\ owner = [s \in Sem |-> Idle]
  /\ nullWrite = FALSE

(* SemaphoreCreate with max_count = 0 allocates no room for an owner.      *)
SemaphoreCreate(s, maxCount) ==
  /\ Create(s)
  /\ owner' = [owner EXCEPT ![s] = IF maxCount = 0 THEN None ELSE Idle]
  /\ UNCHANGED <<aqCnt, nullWrite>>

SemaphoreDelete(s) == Delete(s) /\ UNCHANGED semVars

(* SemaphoreAcquire: a free semaphore is taken, else its release polled.   *)
Take(s) ==
  /\ aqCnt' = [aqCnt EXCEPT ![s] = @ + 1]
  /\ IF owner[s] = None THEN nullWrite' = TRUE /\ UNCHANGED owner
                        ELSE owner' = [owner EXCEPT ![s] = running] /\ UNCHANGED nullWrite

SemaphoreAcquire(s, ms) ==
  Enter("Acquire", s, ReleaseEvent[s], "WRITE", [ms |-> ms]) /\ UNCHANGED semVars

SemaphoreAcquireStep ==
  \/ /\ At("Acquire", "check")
     /\ Checked(IF aqCnt[node] = 0 THEN "act" ELSE "register")
     /\ UNCHANGED semVars
  \/ /\ At("Acquire", "act") /\ Goto("unlock")
     /\ Take(pc.local)
     /\ UNCHANGED <<sysFrame, listen, evVars, fresh, objs, lock, node, lost>>
  \/ /\ At("Acquire", "register") /\ Goto("unlock")
     /\ SysCallRegister(ReleaseEvent[pc.obj], pc.arg.ms)
     /\ UNCHANGED <<sysFrame, evVars, fresh, objs, lock, node, lost, semVars>>

IsrSemaphoreAcquire(s) ==
  /\ IsrEnter("Acquire", s)
  /\ IsrRefused
  /\ IF IsrAccess(s, "WRITE") /\ aqCnt[s] = 0 THEN Take(s) ELSE UNCHANGED semVars

(* SemaphoreRelease, by anyone: the pointer to the owner is cleared, and   *)
(* no event emitted.  SemaphoreCountReset frees the semaphore as well.     *)
Free(f, s) ==
  /\ aqCnt' = [aqCnt EXCEPT ![s] = IF f = "Release" /\ @ # 1 THEN @ ELSE 0]
  /\ owner' = IF f = "Release" /\ aqCnt[s] = 1 THEN [owner EXCEPT ![s] = None] ELSE owner
  /\ UNCHANGED nullWrite

SemaphoreRelease(f, s) == Enter(f, s, None, "WRITE", None) /\ UNCHANGED semVars

SemaphoreReleaseStep(f) ==
  \/ At(f, "check") /\ Checked("act") /\ UNCHANGED semVars
  \/ /\ At(f, "act") /\ Goto("unlock")
     /\ Free(f, pc.local)
     /\ UNCHANGED <<sysFrame, listen, evVars, fresh, objs, lock, node, lost>>

IsrSemaphoreRelease(f, s) ==
  /\ IsrEnter(f, s)
  /\ IsrRefused
  /\ IF IsrAccess(s, "WRITE") THEN Free(f, s) ELSE UNCHANGED semVars

SemaphoreCountGet ==
  /\ \E s \in Sem : Read("CountGet", s, "READ")
  /\ UNCHANGED semVars

SemaphoreNext ==
  \/ SemaphoreCountGet
  \/ \E s \in Sem : \/ \E n \in {0, 1} : SemaphoreCreate(s, n)
                    \/ SemaphoreDelete(s)
                    \/ \E ms \in Timeout \cup {Inf} : SemaphoreAcquire(s, ms)
                    \/ IsrSemaphoreAcquire(s)
  \/ SemaphoreAcquireStep
  \/ \E f \in {"Release", "CountReset"} :
       \/ \E s \in Sem : SemaphoreRelease(f, s) \/ IsrSemaphoreRelease(f, s)
       \/ SemaphoreReleaseStep(f)
------------------------------------------------------------------------------
(* A semaphore is held at most once: between the check of its count and    *)
(* the increment no interrupt acquires it.                                 *)
Exclusive == \A s \in Sem : aqCnt[s] <= 1
==============================================================================
