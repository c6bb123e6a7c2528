-------------------------------- MODULE Message --------------------------------
(***************************************************************************)
(* Message queues (Message.c): any task or interrupt sends, the owner      *)
(* receives; a sender polls for the RECEIVE event of a full queue, the     *)
(* owner for the SEND event of an empty one.                               *)
(***************************************************************************)
EXTENDS SystemCall

CONSTANTS
  Queue,         \* the IDs of the message queues
  Msg,           \* messages
  Sender,        \* the tasks that send
  MaxSize,       \* max_size of every queue
  Owner,         \* task_id of every queue
  SendEvent,     \* MESSAGE_EVENT_SEND of every queue
  ReceiveEvent   \* MESSAGE_EVENT_RECEIVE of every queue

VARIABLE mq      \* the messages of every queue, oldest first

MessageCall ==
  CallOf({"MessageSend"}, Queue, "WRITE", [msg : Msg, ms : Timeout \cup {Inf}])
    \cup CallOf({"MessageReceive"}, Queue, "WRITE", [ms : Timeout \cup {Inf}])
    \cup CallOf({"SizeGet"}, Queue, "WRITE", {None})

MessageInit == mq = [q \in Queue |-> <<>>]

MessageQueueCreate(q) == Create(q) /\ mq' = [mq EXCEPT ![q] = <<>>]

(* MessageSend: a queue with space takes the message and emits the SEND    *)
(* event, a full one is polled.                                            *)
Space(q) == Len(mq[q]) < MaxSize

AppendMessage(isr, q, id, m) ==
  /\ mq' = [mq EXCEPT ![q] = Append(@, m)]
  /\ EmitFrom(isr, SendEvent[id])
  /\ UNCHANGED listen

MessageSend(q, m, ms) ==
  Enter("MessageSend", q, ReceiveEvent[q], "WRITE", [msg |-> m, ms |-> ms]) /\ UNCHANGED mq

MessageSendStep ==
  \/ /\ At("MessageSend", "check")
     /\ Checked(IF Space(node) THEN "act" ELSE "register")
     /\ UNCHANGED mq
  \/ /\ At("MessageSend", "act") /\ Goto("unlock")
     /\ AppendMessage(FALSE, pc.local, pc.obj, pc.arg.msg)
     /\ UNCHANGED <<sysFrame, fresh, objs, lock, node>>
  \/ /\ At("MessageSend", "register") /\ Goto("unlock")
     /\ SysCallRegister(ReceiveEvent[pc.obj], pc.arg.ms)
     /\ UNCHANGED <<sysFrame, evVars, fresh, objs, lock, node, lost, mq>>

IsrMessageSend(q, m) ==
  /\ IsrEnter("MessageSend", q)
  /\ IF IsrAccess(q, "WRITE") /\ Space(q)
     THEN AppendMessage(TRUE, q, q, m)
     ELSE IsrRefused /\ UNCHANGED mq

(* MessageReceive: only the owner takes the oldest message, which emits    *)
(* the RECEIVE event; an empty queue is polled.                            *)
TakeMessage(q, id) ==
  /\ mq' = [mq EXCEPT ![q] = Tail(@)]
  /\ EmitFrom(FALSE, ReceiveEvent[id])
  /\ UNCHANGED listen

MessageReceive(q, ms) ==
  Enter("MessageReceive", q, SendEvent[q], "WRITE", [ms |-> ms]) /\ UNCHANGED mq

MessageReceiveStep ==
  \/ /\ At("MessageReceive", "check")
     /\ LET q == node
        IN Checked(IF Owner[q] # running THEN "unlock"
                   ELSE IF mq[q] # <<>> THEN "act" ELSE "register")
     /\ UNCHANGED mq
  \/ /\ At("MessageReceive", "act") /\ Goto("unlock")
     /\ TakeMessage(pc.local, pc.obj)
     /\ UNCHANGED <<sysFrame, fresh, objs, lock, node>>
  \/ /\ At("MessageReceive", "register") /\ Goto("unlock")
     /\ SysCallRegister(SendEvent[pc.obj], pc.arg.ms)
     /\ UNCHANGED <<sysFrame, evVars, fresh, objs, lock, node, lost, mq>>

MessageQueueSizeGet ==
  /\ \E q \in Queue : Read("SizeGet", q, "WRITE")
  /\ UNCHANGED mq

MessageNext ==
  \/ MessageQueueSizeGet
  \/ \E q \in Queue, ms \in Timeout \cup {Inf} :
       \/ MessageQueueCreate(q)
       \/ \E m \in Msg : \/ running \in Sender /\ MessageSend(q, m, ms)
                         \/ IsrMessageSend(q, m)
       \/ running \notin Sender /\ MessageReceive(q, ms)
  \/ MessageSendStep
  \/ MessageReceiveStep
------------------------------------------------------------------------------
(* No wake-up is lost: the owner that waits for a message while there is   *)
(* one, and a sender that waits for space while there is some, have been   *)
(* told or the event is still in EventList, unless it was refused in an    *)
(* interrupt, expired under the running task, or shares its hash.          *)
MessageTold ==
  \A q \in Queue \cap objs, t \in Task :
    /\ Waits(t, SendEvent[q]) /\ OwnHash(SendEvent[q]) /\ mq[q] # <<>>
         => Told(t, SendEvent[q])
    /\ Waits(t, ReceiveEvent[q]) /\ OwnHash(ReceiveEvent[q]) /\ Space(q)
         => Told(t, ReceiveEvent[q])
==============================================================================
