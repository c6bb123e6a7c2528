------------------------------- MODULE Eventgroup -------------------------------
(***************************************************************************)
(* Event groups (Eventgroup.c): a register of flags that tasks and         *)
(* interrupts set and clear under a mask, and that tasks wait for.         *)
(***************************************************************************)
EXTENDS SystemCall

CONSTANTS
  Group,        \* the IDs of the event groups
  Setter,       \* the tasks that set and clear flags
  Mask,         \* the masks passed to the calls: sets of flags
  SetEvent,     \* EVENTGROUP_EVENT_FLAG_SET of every group and mask
  ClearEvent    \* EVENTGROUP_EVENT_FLAG_CLEAR of every group and mask

VARIABLE reg    \* event_reg of every group: the flags that are set

EventgroupCall ==
  CallOf({"Set", "Clear"}, Group, "WRITE", [mask : Mask])
    \cup CallOf({"RequireSet", "RequireCleared"}, Group, "READ",
                [mask : Mask, ms : Timeout \cup {Inf}])
    \cup CallOf({"Get"}, Group, "READ", {None})

EventgroupInit == reg = [g \in Group |-> {}]

EventgroupCreate(g) == Create(g) /\ reg' = [reg EXCEPT ![g] = {}]

EventgroupDelete(g) == Delete(g) /\ UNCHANGED reg

(* EventgroupFlagsSet and EventgroupFlagsClear: the event of the mask is   *)
(* emitted, once for every flag in it.                                     *)
Flags(f, g, m) == IF f = "Set" THEN reg[g] \cup m ELSE reg[g] \ m

FlagEvent(f, g, m) == IF f = "Set" THEN SetEvent[g][m] ELSE ClearEvent[g][m]

Change(isr, f, g, id, m) ==
  /\ reg' = [reg EXCEPT ![g] = Flags(f, g, m)]
  /\ EmitFrom(isr, FlagEvent(f, id, m))
  /\ UNCHANGED listen

EventgroupFlags(f, g, m) ==
  Enter(f, g, None, "WRITE", [mask |-> m]) /\ UNCHANGED reg

EventgroupFlagsStep(f) ==
  \/ At(f, "check") /\ Checked("act") /\ UNCHANGED reg
  \/ /\ At(f, "act") /\ Goto("unlock")
     /\ Change(FALSE, f, pc.local, pc.obj, pc.arg.mask)
     /\ UNCHANGED <<sysFrame, fresh, objs, lock, node>>

(* From an interrupt that finds the group locked the flags are dropped.    *)
IsrEventgroupFlags(f, g, m) ==
  /\ IsrEnter(f, g)
  /\ IF IsrAccess(g, "WRITE") THEN Change(TRUE, f, g, g, m)
                              ELSE IsrRefused /\ UNCHANGED reg

(* EventgroupFlagsRequireSet and RequireCleared: under a read lock; one    *)
(* set flag is enough for the first, none may be set for the second.       *)
Required(f, g, m) ==
  IF f = "RequireSet" THEN reg[g] \cap m # {} ELSE reg[g] \cap m = {}

RequireEvent(f, g, m) ==
  IF f = "RequireSet" THEN SetEvent[g][m] ELSE ClearEvent[g][m]

EventgroupFlagsRequire(f, g, m, ms) ==
  Enter(f, g, RequireEvent(f, g, m), "READ", [mask |-> m, ms |-> ms]) /\ UNCHANGED reg

EventgroupRequireStep(f) ==
  \/ /\ At(f, "check")
     /\ Checked(IF Required(f, pc.obj, pc.arg.mask) THEN "unlock" ELSE "register")
     /\ UNCHANGED reg
  \/ /\ At(f, "register") /\ Goto("unlock")
     /\ SysCallRegister(RequireEvent(f, pc.obj, pc.arg.mask), pc.arg.ms)
     /\ UNCHANGED <<sysFrame, evVars, fresh, objs, lock, node, lost, reg>>

(* EventgroupFlagsGet, and EventgroupFlagsAreSet.                          *)
EventgroupFlagsGet ==
  /\ \E g \in Group : Read("Get", g, "READ")
  /\ UNCHANGED reg

EventgroupNext ==
  \/ EventgroupFlagsGet
  \/ \E g \in Group : EventgroupCreate(g) \/ EventgroupDelete(g)
  \/ \E g \in Group, m \in Mask, f \in {"Set", "Clear"} :
       \/ running \in Setter /\ EventgroupFlags(f, g, m)
       \/ IsrEventgroupFlags(f, g, m)
  \/ \E g \in Group, m \in Mask, f \in {"RequireSet", "RequireCleared"}, ms \in Timeout \cup {Inf} :
       running \notin Setter /\ EventgroupFlagsRequire(f, g, m, ms)
  \/ \E f \in {"Set", "Clear"} : EventgroupFlagsStep(f)
  \/ \E f \in {"RequireSet", "RequireCleared"} : EventgroupRequireStep(f)
------------------------------------------------------------------------------
(* The flags of mask m are in no other mask: a call that sets or clears    *)
(* some of m's flags under another mask emits the event of that mask only. *)
OwnFlags(m) == \A n \in Mask : n # m => n \cap m = {}

(* No wake-up is lost: a task that waits for flags that are set, or for    *)
(* flags to be cleared that are clear, has been told or the event is still *)
(* in EventList, with the exceptions of MessageTold, for the masks that    *)
(* share no flag with another.                                             *)
EventgroupTold ==
  \A g \in Group \cap objs, t \in Task, m \in Mask : OwnFlags(m) =>
    /\ Waits(t, SetEvent[g][m]) /\ OwnHash(SetEvent[g][m]) /\ reg[g] \cap m # {}
         => Told(t, SetEvent[g][m])
    /\ Waits(t, ClearEvent[g][m]) /\ OwnHash(ClearEvent[g][m]) /\ reg[g] \cap m = {}
         => Told(t, ClearEvent[g][m])
==============================================================================
