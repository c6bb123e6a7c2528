-------------------------------- MODULE Mailbox --------------------------------
(***************************************************************************)
(* Mailboxes (Mailbox.c): an address is posted once and pended by every    *)
(* owner; a poster polls for the PEND event of an address that is not      *)
(* pended, an owner for the POST event of one that is not posted.          *)
(***************************************************************************)
EXTENDS SystemCall, FiniteSets

CONSTANTS
  Mbx,         \* the IDs of the mailboxes
  MbxSize,     \* mailbox_size: the number of addresses
  Width,       \* mailbox_width
  MbxOwner,    \* the tasks in the list of owners
  Poster,      \* the tasks that post
  Addr,        \* the addresses passed to the calls
  PostEvent,   \* MAILBOX_EVENT_POST of every mailbox and address
  PendEvent,   \* MAILBOX_EVENT_PEND of every mailbox and address
  PostAny      \* MAILBOX_EVENT_POST_ANY of every mailbox

VARIABLE counter   \* pend_counters of every mailbox

MailboxCall ==
  CallOf({"IMailboxWrite"}, Mbx, "WRITE",
         [addr : Addr, ms : Timeout \cup {Inf, None}, force : BOOLEAN])
    \cup CallOf({"MailboxPend"}, Mbx, "WRITE",
                [addr : Addr, ms : Timeout \cup {Inf, None}])
    \cup CallOf({"PendCounterGet"}, Mbx, "READ", {None})

(* The bytes that pend_counters is indexed with.                           *)
Index == 0 .. MbxSize * Width - 1

MailboxInit == counter = [b \in Mbx |-> [i \in Index |-> 0]]

MailboxCreate(b) == Create(b) /\ UNCHANGED counter

MailboxDelete(b) == Delete(b) /\ UNCHANGED counter

(* address * width, in a U8_t: the offset of the data, and by mistake also *)
(* the index of the counter and the address in the event.                  *)
Offset(a) == (a * Width) % 256

EmitBoth(j, k) ==
  LET add(s, e) == IF \E i \in 1 .. Len(s) : Hash[s[i]] = Hash[e] THEN s ELSE Append(s, e)
  IN /\ evs' = add(add(evs, j), k)
     /\ evCnt' = [i \in 1 .. Len(evs') |->
                    IF Hash[evs'[i]] \in {Hash[j], Hash[k]} THEN 0 ELSE evCnt[i]]

(* IMailboxWrite: the address is written, its counter set to the number of *)
(* owners, and the POST and POST_ANY events emitted.                       *)
Post(isr, b, id, a) ==
  /\ counter' = [counter EXCEPT ![b][Offset(a)] = Cardinality(MbxOwner)]
  /\ \/ /\ EmitBoth(PostEvent[id][Offset(a)], PostAny[id])
        /\ lost' = lost \ {PostEvent[id][Offset(a)]}
     \/ /\ isr /\ running # Idle /\ ~dispatch
        /\ pc # None => pc.step = "act"
        /\ UNCHANGED evVars
        /\ lost' = lost \cup {PostEvent[id][Offset(a)]}
  /\ UNCHANGED listen

IMailboxWrite(b, a, ms, force) ==
  /\ Enter("IMailboxWrite", b, PendEvent[b][a], "WRITE",
           [addr |-> a, ms |-> ms, force |-> force])
  /\ UNCHANGED counter

WriteCheck(b, a, force) ==
  IF a > MbxSize - 1 THEN "unlock"
  ELSE IF counter[b][a] = 0 \/ force THEN "act" ELSE "register"

MailboxWriteStep ==
  \/ /\ At("IMailboxWrite", "check")
     /\ Checked(WriteCheck(node, pc.arg.addr, pc.arg.force))
     /\ UNCHANGED counter
  \/ /\ At("IMailboxWrite", "act") /\ Goto("unlock")
     /\ Post(FALSE, pc.local, pc.obj, pc.arg.addr)
     /\ UNCHANGED <<sysFrame, fresh, objs, lock, node>>
  \/ /\ At("IMailboxWrite", "register") /\ Goto("unlock")
     /\ IF pc.arg.ms = None THEN UNCHANGED listen
        ELSE SysCallRegister(PendEvent[pc.obj][pc.arg.addr], pc.arg.ms)
     /\ UNCHANGED <<sysFrame, evVars, fresh, objs, lock, node, lost, counter>>

IsrMailboxPost(b, a) ==
  /\ IsrEnter("IMailboxWrite", b)
  /\ IF IsrAccess(b, "WRITE") /\ WriteCheck(b, a, FALSE) = "act"
     THEN Post(TRUE, b, b, a)
     ELSE IsrRefused /\ UNCHANGED counter

(* MailboxPend: an owner reads a posted address, which takes one from its  *)
(* counter and emits the PEND event.  It handles the PEND event, and       *)
(* registers to the POST event.                                            *)
Pend(b, id, a) ==
  /\ counter' = [counter EXCEPT ![b][Offset(a)] = (@ - 1) % 256]
  /\ EmitFrom(FALSE, PendEvent[id][Offset(a)])
  /\ UNCHANGED listen

PendUnposted(b, a) == IF a > MbxSize - 1 THEN "unlock" ELSE "act" \* mutant

PendCheck(b, a) ==
  IF a > MbxSize - 1 THEN "unlock"
  ELSE IF counter[b][a] = 0 THEN "register" ELSE "act"

MailboxPend(b, a, ms) ==
  /\ Enter("MailboxPend", b, PendEvent[b][a], "WRITE", [addr |-> a, ms |-> ms])
  /\ UNCHANGED counter

MailboxPendStep ==
  \/ /\ At("MailboxPend", "check")
     /\ Checked(IF running \notin MbxOwner THEN "unlock" ELSE PendCheck(node, pc.arg.addr))
     /\ UNCHANGED counter
  \/ /\ At("MailboxPend", "act") /\ Goto("unlock")
     /\ Pend(pc.local, pc.obj, pc.arg.addr)
     /\ UNCHANGED <<sysFrame, fresh, objs, lock, node>>
  \/ /\ At("MailboxPend", "register") /\ Goto("unlock")
     /\ IF pc.arg.ms = None THEN UNCHANGED listen
        ELSE SysCallRegister(PostEvent[pc.obj][pc.arg.addr], pc.arg.ms)
     /\ UNCHANGED <<sysFrame, evVars, fresh, objs, lock, node, lost, counter>>

MailboxPendCounterGet ==
  /\ \E b \in Mbx : Read("PendCounterGet", b, "READ")
  /\ UNCHANGED counter

MailboxNext ==
  \/ MailboxPendCounterGet
  \/ \E b \in Mbx, a \in Addr, ms \in Timeout \cup {Inf, None} :
       \/ MailboxCreate(b)
       \/ MailboxDelete(b)
       \/ running \in Poster /\ \E force \in BOOLEAN : IMailboxWrite(b, a, ms, force)
       \/ IsrMailboxPost(b, a)
       \/ running \notin Poster /\ MailboxPend(b, a, ms)
  \/ MailboxWriteStep
  \/ MailboxPendStep
------------------------------------------------------------------------------
(* Address a has a counter of its own: the posts and the pends of a, and   *)
(* of no other address, update counter[a], which the calls on a check.  So  *)
(* has every address of a mailbox one byte wide, and address 0 of any      *)
(* mailbox of up to 256 bytes; the other addresses of a wider mailbox are  *)
(* checked at one index and counted at another.                            *)
OwnCounter(a) == \A x \in 0 .. MbxSize - 1 : Offset(x) = a <=> x = a

(* No wake-up is lost: an owner that waits for a posted address, and a     *)
(* poster that waits for an address pended by all, have been told or the   *)
(* event is still in EventList, with the exceptions of MessageTold, for    *)
(* the addresses with a counter of their own.                              *)
MailboxTold ==
  \A b \in Mbx \cap objs, a \in 0 .. MbxSize - 1, t \in Task : OwnCounter(a) =>
    /\ Waits(t, PostEvent[b][a]) /\ OwnHash(PostEvent[b][a]) /\ counter[b][a] # 0
         => Told(t, PostEvent[b][a])
    /\ Waits(t, PendEvent[b][a]) /\ OwnHash(PendEvent[b][a]) /\ counter[b][a] = 0
         => Told(t, PendEvent[b][a])

(* The counter of an address never exceeds the number of owners and does   *)
(* not wrap below zero: a pend takes from a counter it has checked, where  *)
(* that is the counter it takes from.                                      *)
CountersFit ==
  \A b \in Mbx, a \in 0 .. MbxSize - 1 :
    OwnCounter(a) => counter[b][a] <= Cardinality(MbxOwner)
==============================================================================
