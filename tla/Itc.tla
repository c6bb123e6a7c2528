--------------------------------- MODULE Itc ---------------------------------
(***************************************************************************)
(* Message queues, mailboxes, event groups and semaphores together.  A     *)
(* behaviour has objects of one kind, chosen at the start: the events and  *)
(* IDs stand for those of that kind.                                       *)
(***************************************************************************)
EXTENDS Message, Mailbox, Eventgroup, Semaphore

CONSTANT Kinds   \* the kinds of objects to explore

VARIABLE kind

itcVars == <<vars, sysVars, mq, counter, reg, semVars, kind>>

(* The IDs of the kinds are of different ID groups, and an event belongs   *)
(* to its object by the ID in it.                                          *)
ASSUME ObjAssumption ==
  /\ Kinds \subseteq {"message", "mailbox", "group", "semaphore"}
  /\ Queue \cup Mbx \cup Group \cup Sem \subseteq Obj
  /\ Queue \cap (Mbx \cup Group \cup Sem) = {}
  /\ Mbx \cap (Group \cup Sem) = {}
  /\ Group \cap Sem = {}
  /\ None \notin Obj
  /\ None \notin MessageCall \cup MailboxCall \cup EventgroupCall \cup SemaphoreCall

ASSUME EventAssumption ==
  /\ \A q \in Queue : SendEvent[q] \in Event /\ ReceiveEvent[q] \in Event
  /\ \A b \in Mbx : /\ PostAny[b] \in Event
                    /\ \A a \in Addr \cup 0 .. MbxSize - 1
                              \cup {Offset(x) : x \in 0 .. MbxSize - 1} :
                         PostEvent[b][a] \in Event /\ PendEvent[b][a] \in Event
  /\ \A g \in Group, m \in Mask : SetEvent[g][m] \in Event /\ ClearEvent[g][m] \in Event
  /\ \A s \in Sem : ReleaseEvent[s] \in Event

(* The events of an object differ in their codes.                          *)
ASSUME EventsApart ==
  /\ \A q \in Queue : SendEvent[q] # ReceiveEvent[q]
  /\ \A b \in Mbx : \A a, c \in 0 .. MbxSize - 1 :
       /\ PostEvent[b][a] # PendEvent[b][c]
       /\ a # c => PostEvent[b][a] # PostEvent[b][c] /\ PendEvent[b][a] # PendEvent[b][c]
  /\ \A g \in Group : \A m, n \in Mask :
       /\ SetEvent[g][m] # ClearEvent[g][n]
       /\ m # n => SetEvent[g][m] # SetEvent[g][n] /\ ClearEvent[g][m] # ClearEvent[g][n]

ASSUME SizeAssumption ==
  /\ MaxSize \in Nat
  /\ MbxSize \in 0 .. 255
  /\ Width \in Nat \ {0}
  /\ Addr \subseteq 0 .. 255
  /\ IsFiniteSet(MbxOwner)

ItcInit ==
  /\ kind \in Kinds
  /\ SysInit /\ MessageInit /\ MailboxInit /\ EventgroupInit /\ SemaphoreInit

ItcNext ==
  /\ UNCHANGED kind
  /\ \/ kind = "message" /\ MessageNext /\ UNCHANGED <<counter, reg, semVars>>
     \/ kind = "mailbox" /\ MailboxNext /\ UNCHANGED <<mq, reg, semVars>>
     \/ kind = "group" /\ EventgroupNext /\ UNCHANGED <<mq, counter, semVars>>
     \/ kind = "semaphore" /\ SemaphoreNext /\ UNCHANGED <<mq, counter, reg>>
     \/ /\ LockNode \/ UnlockNode \/ KernelStep
        /\ UNCHANGED <<mq, counter, reg, semVars>>

ItcSpec == ItcInit /\ [][ItcNext]_itcVars

(* A task that waits for a message, for space, for an address of a mailbox *)
(* or for flags has been told when there is what it waits for, or the      *)
(* event is still in EventList: no wake-up is lost between the check of    *)
(* an object and the poll, with the exceptions of MessageTold.             *)
NoWakeupLost == MessageTold /\ MailboxTold /\ EventgroupTold
==============================================================================
