------------------------------ MODULE RingBuffer ------------------------------
(***************************************************************************)
(* One ring-buffer of Ringbuffer.c.  It is used from two contexts: a task, *)
(* and interrupt service routines (the Shell reads in a task what the port *)
(* writes from its receive interrupt).  An interrupt may come between any  *)
(* two accesses of the task to the volatile fields, and runs to its end;   *)
(* dcount++ and dcount-- are a load and a store.                           *)
(*                                                                         *)
(* The test-and-set of rw_lock is one step, and so is RingbufPurge: an     *)
(* interrupt leaves rw_lock as it found it, or is refused.  A call that is *)
(* refused by dcount changes nothing (it emits an event).                  *)
(***************************************************************************)
EXTENDS Naturals, Sequences

CONSTANTS
  Capacity,      \* ringbuf->size
  Value,      \* values of RingbufBase_t
  CountMod,  \* dcount is counted modulo CountMod (2^32)
  TaskOps,   \* the operations called from a task
  IsrOps,    \* the operations called from an interrupt
  Careful,   \* callers ask for no more than Data{Count,Space}Get report
  MaxLen     \* bound on the length of one read or write

ASSUME RingAssumption ==
  /\ Capacity \in Nat \ {0, 1}
  /\ CountMod \in Nat /\ Capacity < CountMod
  /\ Value # {}
  /\ MaxLen \in Nat
  /\ TaskOps \subseteq {"write", "read", "purge"}
  /\ IsrOps \subseteq {"write", "read", "purge"}
  /\ Careful \in BOOLEAN

Context == {"task", "isr"}
Index == 0 .. Capacity - 1
CountRange == 0 .. CountMod - 1

VARIABLES
  buffer,      \* ringbuf->buffer
  read_index,  \* the index read last
  write_index, \* the index to write next
  dcount,
  rlock,       \* rw_lock & RINGBUF_LOCK_READ_MASK
  wlock,       \* rw_lock & RINGBUF_LOCK_WRITE_MASK
  op,          \* the operation each context is in, "none" outside
  stage,          \* where in it
  left,        \* *length - i, *amount - i
  reg,         \* the value of dcount loaded
  last,        \* the value copied to the target last
  stored       \* history: values written and neither read nor purged

ring == <<buffer, read_index, write_index, dcount>>
calls == <<op, stage, left, reg>>
ringVars == <<ring, rlock, wlock, calls, last, stored>>

RingInit ==
  /\ buffer \in [Index -> Value]
  /\ read_index = Capacity - 1
  /\ write_index = 0
  /\ dcount = 0
  /\ rlock = FALSE /\ wlock = FALSE
  /\ op = [c \in Context |-> "none"]
  /\ stage = [c \in Context |-> "none"]
  /\ left = [c \in Context |-> 0]
  /\ reg = [c \in Context |-> 0]
  /\ last \in Value
  /\ stored = 0
------------------------------------------------------------------------------
WrapsEarly(i) == IF i >= Capacity - 2 THEN 0 ELSE i + 1 \* mutant

IRingbufBlockNextGet(i) == IF i = Capacity - 1 THEN 0 ELSE i + 1

(* The task stands still while an interrupt is served.                     *)
CanRun(c) == c = "task" => op["isr"] = "none"

Ops(c) == IF c = "task" THEN TaskOps ELSE IsrOps

(* RingbufDataCountGet, RingbufDataSpaceGet.                               *)
RingbufDataCountGet == dcount
RingbufDataSpaceGet == Capacity - dcount

AtStep(c, o, p) == CanRun(c) /\ op[c] = o /\ stage[c] = p

Goto(c, p) == stage' = [stage EXCEPT ![c] = p]

(* The head of the copy loop: the first step of the next iteration.        *)
LoopHead(c, n) == IF n = 0 THEN "unlock" ELSE IF op[c] = "write" THEN "copy" ELSE "next"

(* The calls, up to the test of dcount against size or 0.                  *)
Call(c, o, n, limit) ==
  /\ CanRun(c) /\ op[c] = "none" /\ o \in Ops(c)
  /\ Careful => n <= limit
  /\ op' = [op EXCEPT ![c] = o]
  /\ left' = [left EXCEPT ![c] = n]
  /\ Goto(c, "lock")
  /\ UNCHANGED <<ring, rlock, wlock, reg, last, stored>>

RingbufWrite(c, n) == dcount # Capacity /\ Call(c, "write", n, RingbufDataSpaceGet)

RingbufRead(c, n) == dcount # 0 /\ Call(c, "read", n, RingbufDataCountGet)

CallEnd(c) == /\ op' = [op EXCEPT ![c] = "none"]
             /\ Goto(c, "none")
             /\ left' = [left EXCEPT ![c] = 0]
             /\ reg' = [reg EXCEPT ![c] = 0]

(* IRingbufLockWrite, IRingbufLockRead: OS_RES_LOCKED when it is taken.    *)
IRingbufLock(c) ==
  /\ CanRun(c) /\ stage[c] = "lock"
  /\ \/ /\ IF op[c] = "write" THEN wlock ELSE rlock
        /\ CallEnd(c)
        /\ UNCHANGED <<rlock, wlock>>
     \/ /\ op[c] = "write" /\ ~wlock
        /\ wlock' = TRUE
        /\ Goto(c, LoopHead(c, left[c]))
        /\ UNCHANGED <<op, left, reg, rlock>>
     \/ /\ op[c] = "read" /\ ~rlock
        /\ rlock' = TRUE
        /\ Goto(c, LoopHead(c, left[c]))
        /\ UNCHANGED <<op, left, reg, wlock>>
  /\ UNCHANGED <<ring, last, stored>>

UnlockReadOnly(c) == \* mutant: the write lock is not released
  /\ CanRun(c) /\ stage[c] = "unlock"
  /\ rlock' = (rlock /\ op[c] # "read")
  /\ CallEnd(c)
  /\ UNCHANGED <<ring, wlock, last, stored>>

IRingbufUnlock(c) ==
  /\ CanRun(c) /\ stage[c] = "unlock"
  /\ rlock' = (rlock /\ op[c] # "read")
  /\ wlock' = (wlock /\ op[c] # "write")
  /\ CallEnd(c)
  /\ UNCHANGED <<ring, last, stored>>

(* buffer[write_index] = data[i].                                          *)
WriteCopy(c, d) ==
  /\ AtStep(c, "write", "copy")
  /\ buffer' = [buffer EXCEPT ![write_index] = d]
  /\ stored' = stored + 1
  /\ Goto(c, "load")
  /\ UNCHANGED <<read_index, write_index, dcount, rlock, wlock, op, left, reg, last>>

(* The load of dcount++ and dcount--.                                      *)
LoadCount(c) ==
  /\ CanRun(c) /\ stage[c] = "load"
  /\ reg' = [reg EXCEPT ![c] = dcount]
  /\ Goto(c, "store")
  /\ UNCHANGED <<ring, rlock, wlock, op, left, last, stored>>

(* The store of dcount++, and i++.                                         *)
WriteCount(c) ==
  /\ AtStep(c, "write", "store")
  /\ dcount' = (IF reg[c] = CountMod - 1 THEN 0 ELSE reg[c] + 1)
  /\ left' = [left EXCEPT ![c] = @ - 1]
  /\ Goto(c, "next")
  /\ UNCHANGED <<buffer, read_index, write_index, rlock, wlock, op, reg, last, stored>>

WriteNext(c) ==
  /\ AtStep(c, "write", "next")
  /\ write_index' = IRingbufBlockNextGet(write_index)
  /\ Goto(c, "compare")
  /\ UNCHANGED <<buffer, read_index, dcount, rlock, wlock, op, left, reg, last, stored>>

(* The loop ends when write_index has come to read_index and dcount is not *)
(* 0, that is, one value short of full.                                    *)
WriteCompare(c) ==
  /\ AtStep(c, "write", "compare")
  /\ Goto(c, IF write_index = read_index THEN "test" ELSE LoopHead(c, left[c]))
  /\ UNCHANGED <<ring, rlock, wlock, op, left, reg, last, stored>>

WriteTest(c) ==
  /\ AtStep(c, "write", "test")
  /\ Goto(c, IF dcount # 0 THEN "unlock" ELSE LoopHead(c, left[c]))
  /\ UNCHANGED <<ring, rlock, wlock, op, left, reg, last, stored>>

ReadNext(c) ==
  /\ AtStep(c, "read", "next")
  /\ read_index' = IRingbufBlockNextGet(read_index)
  /\ Goto(c, "compare")
  /\ UNCHANGED <<buffer, write_index, dcount, rlock, wlock, op, left, reg, last, stored>>

ReadCompare(c) ==
  /\ AtStep(c, "read", "compare")
  /\ Goto(c, IF read_index = write_index THEN "test" ELSE "copy")
  /\ UNCHANGED <<ring, rlock, wlock, op, left, reg, last, stored>>

(* The loop ends on an empty buffer, with read_index already advanced.     *)
ReadTest(c) ==
  /\ AtStep(c, "read", "test")
  /\ Goto(c, IF dcount = 0 THEN "unlock" ELSE "copy")
  /\ UNCHANGED <<ring, rlock, wlock, op, left, reg, last, stored>>

(* target[i] = buffer[read_index].                                         *)
ReadCopy(c) ==
  /\ AtStep(c, "read", "copy")
  /\ last' = buffer[read_index]
  /\ stored' = (IF stored = 0 THEN 0 ELSE stored - 1)
  /\ Goto(c, "load")
  /\ UNCHANGED <<ring, rlock, wlock, op, left, reg>>

(* The store of dcount--, and i++.                                         *)
ReadCount(c) ==
  /\ AtStep(c, "read", "store")
  /\ dcount' = (IF reg[c] = 0 THEN CountMod - 1 ELSE reg[c] - 1)
  /\ left' = [left EXCEPT ![c] = @ - 1]
  /\ Goto(c, LoopHead(c, left[c] - 1))
  /\ UNCHANGED <<buffer, read_index, write_index, rlock, wlock, op, reg, last, stored>>

PurgeKeepsRead == write_index' = 0 /\ UNCHANGED read_index \* mutant

ResetIndices == write_index' = 0 /\ read_index' = Capacity - 1

(* RingbufPurge takes both locks; when only the second is refused it       *)
(* returns with the first still held.                                      *)
RingbufPurge(c) ==
  /\ CanRun(c) /\ op[c] = "none" /\ "purge" \in Ops(c)
  /\ IF rlock \/ wlock
     THEN /\ rlock' = TRUE
          /\ UNCHANGED <<ring, stored>>
     ELSE /\ dcount' = 0 /\ ResetIndices /\ stored' = 0
          /\ UNCHANGED <<buffer, rlock>>
  /\ UNCHANGED <<wlock, calls, last>>
------------------------------------------------------------------------------
RingNext == \E c \in Context :
  \/ \E n \in 0 .. MaxLen : RingbufWrite(c, n) \/ RingbufRead(c, n)
  \/ IRingbufLock(c) \/ IRingbufUnlock(c)
  \/ \E d \in Value : WriteCopy(c, d)
  \/ LoadCount(c) \/ WriteCount(c) \/ WriteNext(c) \/ WriteCompare(c) \/ WriteTest(c)
  \/ ReadNext(c) \/ ReadCompare(c) \/ ReadTest(c) \/ ReadCopy(c) \/ ReadCount(c)
  \/ RingbufPurge(c)

RingSpec == RingInit /\ [][RingNext]_ringVars
------------------------------------------------------------------------------
(* The values stored, oldest first.  A reader has advanced read_index      *)
(* before it copies, and has copied before it counts.                      *)
Slot(i) == IF i < Capacity THEN i ELSE i - Capacity

Reading(c, P) == op[c] = "read" /\ stage[c] \in P

Oldest == IF \E c \in Context : Reading(c, {"compare", "test", "copy"})
          THEN read_index ELSE Slot(read_index + 1)

Stored == IF \E c \in Context : Reading(c, {"load", "store"}) THEN dcount - 1 ELSE dcount

Contents == [i \in 1 .. Stored |-> buffer[Slot(Oldest + i - 1)]]

F == INSTANCE Fifo WITH q <- Contents

(* Ringbuffer.h: data is written to and read from the ring-buffer.  Used   *)
(* by one task whose callers are careful, it is a first-in first-out queue *)
(* of Capacity values: no value is lost, overwritten or read twice,        *)
(* whatever the lengths, where the indices wrap and when it is purged.     *)
RefinesFifo == F!FifoSpec

(* The gap between the indices is what dcount says, at every step of a     *)
(* call, but for the value that is counted before write_index moves on:    *)
(* the tests on the indices and the tests on dcount, which the code mixes, *)
(* mean the same.                                                          *)
IndicesAgree ==
  /\ Stored \in 0 .. Capacity
  /\ write_index = Slot(Oldest + Stored - (IF op["task"] = "write" /\ stage["task"] = "next"
                                          THEN 1 ELSE 0))

(* What a task that is alone with the ring-buffer relies on: it holds the  *)
(* lock of its operation from the first copy to the return, and at every   *)
(* step what is left of the call still fits.                               *)
CallFits ==
  LET o == op["task"]  p == stage["task"]  n == left["task"]
  IN /\ wlock <=> o = "write" /\ p # "lock"
     /\ rlock <=> o = "read" /\ p # "lock"
     /\ o = "write" /\ p # "unlock" => n <= Capacity - dcount
     /\ o = "read" /\ p # "unlock" => n <= dcount
     /\ p = "store" => reg["task"] = dcount

(* Ringbuffer.h on RingbufDataCountGet: it returns the amount of data that *)
(* is present in the ring-buffer.                                          *)
CountIsData == (\A c \in Context : op[c] = "none") => dcount = stored
===============================================================================
