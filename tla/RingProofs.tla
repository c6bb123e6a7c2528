------------------------------ MODULE RingProofs ------------------------------
(***************************************************************************)
(* A ring-buffer used by one task, with calls that ask for no more than    *)
(* RingbufDataCountGet and RingbufDataSpaceGet report, is a FIFO queue,    *)
(* for every size and every length of the calls.                           *)
(***************************************************************************)
EXTENDS RingBuffer, SequenceTheorems, TLAPS

WritePc == {"lock", "copy", "load", "store", "next", "compare", "test", "unlock"}
ReadPc == {"lock", "next", "compare", "test", "copy", "load", "store", "unlock"}

RingTypes ==
  /\ buffer \in [Index -> Value]
  /\ read_index \in Index
  /\ write_index \in Index
  /\ dcount \in Nat
  /\ rlock \in BOOLEAN
  /\ wlock \in BOOLEAN
  /\ op \in [Context -> {"none", "write", "read"}]
  /\ stage \in [Context -> {"none"} \cup WritePc]
  /\ left \in [Context -> Nat]
  /\ reg \in [Context -> Nat]
  /\ last \in Value

(* The task is at a place of its operation, and no interrupt is served.    *)
Places ==
  /\ op["isr"] = "none" /\ stage["isr"] = "none"
  /\ op["task"] = "none" <=> stage["task"] = "none"
  /\ op["task"] = "write" => stage["task"] \in WritePc
  /\ op["task"] = "read" => stage["task"] \in ReadPc
  /\ op["task"] = "write" /\ stage["task"] \in {"copy", "load", "store"} => left["task"] > 0
  /\ op["task"] = "read" /\ stage["task"] \notin {"lock", "unlock"} => left["task"] > 0
  /\ op["task"] = "write" /\ stage["task"] \in {"next", "compare", "test"} => dcount > 0

RingInv == RingTypes /\ Places /\ IndicesAgree /\ CallFits

Alone == IsrOps = {} /\ Careful = TRUE

(* With the interrupt idle, the task alone decides where the values are.   *)
TaskReading(P) == op["task"] = "read" /\ stage["task"] \in P

LEMMA Where ==
  ASSUME RingInv
  PROVE  /\ Oldest = IF TaskReading({"compare", "test", "copy"})
                     THEN read_index ELSE Slot(read_index + 1)
         /\ Stored = IF TaskReading({"load", "store"}) THEN dcount - 1 ELSE dcount
<1>1. \A P : (\E c \in Context : Reading(c, P)) <=> TaskReading(P)
  BY DEF RingInv, Places, Reading, TaskReading, Context
<1> QED BY <1>1, SMT DEF Oldest, Stored, RingInv, RingTypes

LEMMA WhereNext ==
  ASSUME RingTypes', Places'
  PROVE  /\ Oldest' = IF TaskReading({"compare", "test", "copy"})'
                      THEN read_index' ELSE Slot(read_index' + 1)
         /\ Stored' = IF TaskReading({"load", "store"})' THEN dcount' - 1 ELSE dcount'
<1>1. (\E c \in Context : Reading(c, {"compare", "test", "copy"}))'
        <=> TaskReading({"compare", "test", "copy"})'
  BY DEF Places, Reading, TaskReading, Context
<1>2. (\E c \in Context : Reading(c, {"load", "store"}))' <=> TaskReading({"load", "store"})'
  BY DEF Places, Reading, TaskReading, Context
<1>3. Oldest' = IF TaskReading({"compare", "test", "copy"})'
                THEN read_index' ELSE Slot(read_index' + 1)
  BY <1>1, Zenon DEF Oldest, Slot
<1>4. Stored' = IF TaskReading({"load", "store"})' THEN dcount' - 1 ELSE dcount'
  BY <1>2, Zenon DEF Stored
<1> QED BY <1>3, <1>4

TaskNext ==
  \/ \E n \in 0 .. MaxLen : RingbufWrite("task", n) \/ RingbufRead("task", n)
  \/ IRingbufLock("task") \/ IRingbufUnlock("task")
  \/ \E d \in Value : WriteCopy("task", d)
  \/ LoadCount("task") \/ WriteCount("task") \/ WriteNext("task")
  \/ WriteCompare("task") \/ WriteTest("task")
  \/ ReadNext("task") \/ ReadCompare("task") \/ ReadTest("task")
  \/ ReadCopy("task") \/ ReadCount("task")
  \/ RingbufPurge("task")

(* An idle interrupt that calls nothing takes no step.                     *)
LEMMA OnlyTheTask ==
  ASSUME RingInv, RingNext, Alone
  PROVE  TaskNext
<1>1. PICK c \in Context :
        \/ \E n \in 0 .. MaxLen : RingbufWrite(c, n) \/ RingbufRead(c, n)
        \/ IRingbufLock(c) \/ IRingbufUnlock(c)
        \/ \E d \in Value : WriteCopy(c, d)
        \/ LoadCount(c) \/ WriteCount(c) \/ WriteNext(c) \/ WriteCompare(c) \/ WriteTest(c)
        \/ ReadNext(c) \/ ReadCompare(c) \/ ReadTest(c) \/ ReadCopy(c) \/ ReadCount(c)
        \/ RingbufPurge(c)
  BY Zenon DEF RingNext
<1>2. CASE c = "task"
  BY <1>1, <1>2, Zenon DEF TaskNext
<1>3. CASE c = "isr"
  <2>1. op[c] = "none" /\ stage[c] = "none" /\ Ops(c) = {}
    BY <1>3 DEF RingInv, Places, Alone, Ops
  <2> QED BY <1>1, <2>1 DEF RingbufWrite, RingbufRead, Call, IRingbufLock, IRingbufUnlock,
        WriteCopy, LoadCount, WriteCount, WriteNext, WriteCompare, WriteTest, ReadNext,
        ReadCompare, ReadTest, ReadCopy, ReadCount, RingbufPurge, AtStep
<1> QED BY <1>1, <1>2, <1>3 DEF Context

LEMMA NextIndex ==
  ASSUME NEW i \in Index
  PROVE  IRingbufBlockNextGet(i) \in Index /\ IRingbufBlockNextGet(i) = Slot(i + 1)
BY RingAssumption DEF IRingbufBlockNextGet, Index, Slot

LEMMA TypesStep ==
  ASSUME RingInv, TaskNext, Alone
  PROVE  RingTypes' /\ Places'
<1> USE DEF RingInv, RingTypes, Places, CallFits, Context, WritePc, ReadPc, Goto
<1>1. ASSUME NEW n \in 0 .. MaxLen, RingbufWrite("task", n) PROVE RingTypes' /\ Places'
  BY <1>1 DEF RingbufWrite, Call, ring
<1>2. ASSUME NEW n \in 0 .. MaxLen, RingbufRead("task", n) PROVE RingTypes' /\ Places'
  BY <1>2 DEF RingbufRead, Call, ring
<1>3. CASE IRingbufLock("task")
  <2>1. stage["task"] = "lock" /\ UNCHANGED <<ring, last>>
    BY <1>3 DEF IRingbufLock
  <2>2. CASE CallEnd("task") /\ UNCHANGED <<rlock, wlock>>
    BY <2>1, <2>2 DEF CallEnd, ring
  <2>3. CASE /\ op["task"] = "write" /\ wlock' = TRUE
             /\ Goto("task", LoopHead("task", left["task"]))
             /\ UNCHANGED <<op, left, reg, rlock>>
    BY <2>1, <2>3 DEF LoopHead, ring
  <2>4. CASE /\ op["task"] = "read" /\ rlock' = TRUE
             /\ Goto("task", LoopHead("task", left["task"]))
             /\ UNCHANGED <<op, left, reg, wlock>>
    BY <2>1, <2>4 DEF LoopHead, ring
  <2> QED BY <1>3, <2>2, <2>3, <2>4, Zenon DEF IRingbufLock
<1>4. CASE IRingbufUnlock("task")
  BY <1>4 DEF IRingbufUnlock, CallEnd, ring
<1>5. ASSUME NEW d \in Value, WriteCopy("task", d) PROVE RingTypes' /\ Places'
  BY <1>5 DEF WriteCopy, AtStep
<1>6. CASE LoadCount("task")
  BY <1>6 DEF LoadCount, ring
<1>7. CASE WriteCount("task")
  BY <1>7, RingAssumption DEF WriteCount, AtStep, IndicesAgree
<1>8. CASE WriteNext("task")
  BY <1>8, NextIndex DEF WriteNext, AtStep
<1>9. CASE WriteCompare("task")
  BY <1>9 DEF WriteCompare, AtStep, LoopHead, ring
<1>10. CASE WriteTest("task")
  BY <1>10 DEF WriteTest, AtStep, LoopHead, ring
<1>11. CASE ReadNext("task")
  BY <1>11, NextIndex DEF ReadNext, AtStep
<1>12. CASE ReadCompare("task")
  BY <1>12 DEF ReadCompare, AtStep, ring
<1>13. CASE ReadTest("task")
  BY <1>13 DEF ReadTest, AtStep, ring
<1>14. CASE ReadCopy("task")
  BY <1>14 DEF ReadCopy, AtStep, ring
<1>15. CASE ReadCount("task")
  BY <1>15, RingAssumption DEF ReadCount, AtStep, LoopHead
<1>16. CASE RingbufPurge("task")
  BY <1>16, RingAssumption DEF RingbufPurge, ResetIndices, ring, calls, Index
<1> QED BY <1>1, <1>2, <1>3, <1>4, <1>5, <1>6, <1>7, <1>8, <1>9, <1>10, <1>11, <1>12,
           <1>13, <1>14, <1>15, <1>16, Zenon DEF TaskNext

(* The steps that move an index or change dcount keep the indices apart by *)
(* what is stored.                                                         *)
LEMMA AgreeWriteCount ==
  ASSUME RingInv, TaskNext, Alone, WriteCount("task")
  PROVE  IndicesAgree'
<1>1. /\ op["task"] = "write" /\ stage["task"] = "store"
      /\ op'["task"] = "write" /\ stage'["task"] = "next"
      /\ dcount \in Nat /\ read_index \in Index
  BY DEF WriteCount, AtStep, Goto, RingInv, RingTypes, Context
<1>2. dcount < Capacity /\ dcount' = dcount + 1
  BY <1>1, RingAssumption DEF WriteCount, RingInv, Places, CallFits, RingTypes, Context
<1>3. UNCHANGED <<read_index, write_index>>
  BY DEF WriteCount
<1>4. Oldest = Slot(read_index + 1) /\ Stored = dcount
  BY <1>1, Where DEF TaskReading
<1>5. write_index = Slot(Slot(read_index + 1) + dcount - 0)
  BY <1>1, <1>4 DEF RingInv, IndicesAgree
<1>6. Oldest' = Slot(read_index + 1) /\ Stored' = dcount + 1
  BY <1>1, <1>2, <1>3, TypesStep, WhereNext DEF TaskReading, Slot
<1>7. Stored' \in 0 .. Capacity
  BY <1>1, <1>2, <1>6, RingAssumption
<1>8. write_index' = Slot(Oldest' + Stored' - 1)
  BY <1>1, <1>3, <1>5, <1>6, RingAssumption DEF Slot, Index
<1> QED BY <1>1, <1>7, <1>8, Zenon DEF IndicesAgree, Slot

LEMMA AgreeWriteNext ==
  ASSUME RingInv, TaskNext, Alone, WriteNext("task")
  PROVE  IndicesAgree'
<1>1. /\ op["task"] = "write" /\ stage["task"] = "next"
      /\ op'["task"] = "write" /\ stage'["task"] = "compare"
      /\ dcount \in Nat /\ dcount > 0 /\ read_index \in Index /\ write_index \in Index
  BY DEF WriteNext, AtStep, Goto, RingInv, RingTypes, Places, Context
<1>2. UNCHANGED <<read_index, dcount>> /\ write_index' = Slot(write_index + 1)
  BY <1>1, NextIndex DEF WriteNext
<1>3. Oldest = Slot(read_index + 1) /\ Stored = dcount
  BY <1>1, Where DEF TaskReading
<1>4. dcount <= Capacity /\ write_index = Slot(Slot(read_index + 1) + dcount - 1)
  BY <1>1, <1>3 DEF RingInv, IndicesAgree
<1>5. Oldest' = Slot(read_index + 1) /\ Stored' = dcount
  BY <1>1, <1>2, TypesStep, WhereNext DEF TaskReading, Slot
<1>6. write_index' = Slot(Oldest' + Stored' - 0)
  BY <1>1, <1>2, <1>4, <1>5, RingAssumption DEF Slot, Index
<1>7. Stored' \in 0 .. Capacity
  BY <1>1, <1>4, <1>5, RingAssumption
<1> QED BY <1>1, <1>6, <1>7 DEF IndicesAgree, Slot

LEMMA AgreeReadCount ==
  ASSUME RingInv, TaskNext, Alone, ReadCount("task")
  PROVE  IndicesAgree'
<1>1. /\ op["task"] = "read" /\ stage["task"] = "store"
      /\ op'["task"] = "read" /\ stage'["task"] \in {"next", "unlock"}
      /\ dcount \in Nat /\ read_index \in Index
      /\ UNCHANGED <<read_index, write_index>>
  BY DEF ReadCount, AtStep, Goto, LoopHead, RingInv, RingTypes, Context
<1>2. dcount > 0 /\ dcount' = dcount - 1
  BY <1>1, RingAssumption DEF ReadCount, RingInv, Places, CallFits, RingTypes, Context
<1>3. Oldest = Slot(read_index + 1) /\ Stored = dcount - 1
  BY <1>1, Where DEF TaskReading
<1>4. /\ dcount - 1 \in 0 .. Capacity
      /\ write_index = Slot(Slot(read_index + 1) + (dcount - 1) - 0)
  BY <1>1, <1>3 DEF RingInv, IndicesAgree
<1>5. Oldest' = Slot(read_index + 1) /\ Stored' = dcount - 1
  BY <1>1, <1>2, TypesStep, WhereNext DEF TaskReading, Slot
<1>6. /\ Stored' \in 0 .. Capacity
      /\ write_index' = Slot(Oldest' + Stored' - 0)
  BY <1>1, <1>4, <1>5 DEF Slot
<1> QED BY <1>1, <1>6, Zenon DEF IndicesAgree, Slot

LEMMA AgreePurge ==
  ASSUME RingInv, TaskNext, Alone, RingbufPurge("task")
  PROVE  IndicesAgree'
<1>1. op["task"] = "none" /\ op'["task"] = "none" /\ ~rlock /\ ~wlock
  BY DEF RingbufPurge, calls, RingInv, CallFits
<1>2. dcount' = 0 /\ write_index' = 0 /\ read_index' = Capacity - 1
  BY <1>1 DEF RingbufPurge, ResetIndices
<1>3. Oldest' = Slot(Capacity - 1 + 1) /\ Stored' = 0
  BY <1>1, <1>2, TypesStep, WhereNext DEF TaskReading, Slot
<1>4. Oldest' = 0 /\ Slot(Oldest' + Stored' - 0) = 0 /\ Stored' \in 0 .. Capacity
  BY <1>3, RingAssumption DEF Slot
<1> QED BY <1>1, <1>2, <1>4, Zenon DEF IndicesAgree, Slot

LEMMA AgreeStep ==
  ASSUME RingInv, TaskNext, Alone
  PROVE  IndicesAgree'
<1>a. RingTypes' /\ Places'
  BY TypesStep
<1> USE <1>a, Where, WhereNext, RingAssumption
<1> USE DEF RingInv, RingTypes, Places, CallFits, Context, WritePc, ReadPc, Goto, IndicesAgree,
        TaskReading, Index, Slot
<1>1. ASSUME NEW n \in 0 .. MaxLen, RingbufWrite("task", n) PROVE IndicesAgree'
  BY <1>1 DEF RingbufWrite, Call, ring, Alone, RingbufDataSpaceGet
<1>2. ASSUME NEW n \in 0 .. MaxLen, RingbufRead("task", n) PROVE IndicesAgree'
  BY <1>2 DEF RingbufRead, Call, ring, Alone, RingbufDataCountGet
<1>3. CASE IRingbufLock("task")
  BY <1>3 DEF IRingbufLock, CallEnd, LoopHead, ring
<1>4. CASE IRingbufUnlock("task")
  BY <1>4 DEF IRingbufUnlock, CallEnd, ring
<1>5. ASSUME NEW d \in Value, WriteCopy("task", d) PROVE IndicesAgree'
  BY <1>5 DEF WriteCopy, AtStep
<1>6. CASE LoadCount("task")
  BY <1>6 DEF LoadCount, ring
<1>7. CASE WriteCount("task")
  BY <1>7, AgreeWriteCount
<1>8. CASE WriteNext("task")
  BY <1>8, AgreeWriteNext
<1>9. CASE WriteCompare("task")
  BY <1>9 DEF WriteCompare, AtStep, LoopHead, ring
<1>10. CASE WriteTest("task")
  BY <1>10 DEF WriteTest, AtStep, LoopHead, ring
<1>11. CASE ReadNext("task")
  BY <1>11, NextIndex DEF ReadNext, AtStep
<1>12. CASE ReadCompare("task")
  BY <1>12 DEF ReadCompare, AtStep, ring
<1>13. CASE ReadTest("task")
  BY <1>13 DEF ReadTest, AtStep, ring
<1>14. CASE ReadCopy("task")
  BY <1>14, SMTT(30) DEF ReadCopy, AtStep, ring
<1>15. CASE ReadCount("task")
  BY <1>15, AgreeReadCount
<1>16. CASE RingbufPurge("task")
  BY <1>16, AgreePurge
<1> QED BY <1>1, <1>2, <1>3, <1>4, <1>5, <1>6, <1>7, <1>8, <1>9, <1>10, <1>11, <1>12, <1>13, <1>14, <1>15, <1>16, Zenon DEF TaskNext

LEMMA FitsStep ==
  ASSUME RingInv, TaskNext, Alone
  PROVE  CallFits'
<1>a. RingTypes' /\ Places'
  BY TypesStep
<1> USE <1>a, RingAssumption
<1> USE DEF RingInv, RingTypes, Places, CallFits, Context, WritePc, ReadPc, Goto
<1>1. ASSUME NEW n \in 0 .. MaxLen, RingbufWrite("task", n) PROVE CallFits'
  BY <1>1, Where DEF RingbufWrite, Call, ring, Alone, RingbufDataSpaceGet, IndicesAgree, TaskReading
<1>2. ASSUME NEW n \in 0 .. MaxLen, RingbufRead("task", n) PROVE CallFits'
  BY <1>2, Where DEF RingbufRead, Call, ring, Alone, RingbufDataCountGet, IndicesAgree, TaskReading
<1>3. CASE IRingbufLock("task")
  BY <1>3, Where DEF IRingbufLock, CallEnd, LoopHead, ring, IndicesAgree, TaskReading
<1>4. CASE IRingbufUnlock("task")
  BY <1>4, Where DEF IRingbufUnlock, CallEnd, ring, IndicesAgree, TaskReading
<1>5. ASSUME NEW d \in Value, WriteCopy("task", d) PROVE CallFits'
  BY <1>5, Where DEF WriteCopy, AtStep, IndicesAgree, TaskReading
<1>6. CASE LoadCount("task")
  BY <1>6, Where DEF LoadCount, ring, IndicesAgree, TaskReading
<1>7. CASE WriteCount("task")
  BY <1>7, Where DEF WriteCount, AtStep, IndicesAgree, TaskReading
<1>8. CASE WriteNext("task")
  BY <1>8, Where DEF WriteNext, AtStep, IndicesAgree, TaskReading
<1>9. CASE WriteCompare("task")
  BY <1>9, Where DEF WriteCompare, AtStep, LoopHead, ring, IndicesAgree, TaskReading
<1>10. CASE WriteTest("task")
  BY <1>10, Where DEF WriteTest, AtStep, LoopHead, ring, IndicesAgree, TaskReading
<1>11. CASE ReadNext("task")
  BY <1>11, Where DEF ReadNext, AtStep, IndicesAgree, TaskReading
<1>12. CASE ReadCompare("task")
  BY <1>12, Where DEF ReadCompare, AtStep, ring, IndicesAgree, TaskReading
<1>13. CASE ReadTest("task")
  BY <1>13, Where DEF ReadTest, AtStep, ring, IndicesAgree, TaskReading
<1>14. CASE ReadCopy("task")
  BY <1>14, Where DEF ReadCopy, AtStep, ring, IndicesAgree, TaskReading
<1>15. CASE ReadCount("task")
  BY <1>15, Where DEF ReadCount, AtStep, LoopHead, IndicesAgree, TaskReading
<1>16. CASE RingbufPurge("task")
  BY <1>16, Where DEF RingbufPurge, ResetIndices, ring, calls, IndicesAgree, TaskReading
<1> QED BY <1>1, <1>2, <1>3, <1>4, <1>5, <1>6, <1>7, <1>8, <1>9, <1>10, <1>11, <1>12, <1>13, <1>14, <1>15, <1>16, Zenon DEF TaskNext

------------------------------------------------------------------------------
(* The refinement.                                                         *)

LEMMA SlotIndex ==
  ASSUME NEW o \in Index, NEW i \in 0 .. Capacity
  PROVE  Slot(o + i) \in Index
BY RingAssumption DEF Slot, Index

LEMMA OldestIndex ==
  ASSUME RingInv
  PROVE  Oldest \in Index /\ Stored \in 0 .. Capacity
<1>1. Stored \in 0 .. Capacity /\ read_index \in Index
  BY DEF RingInv, IndicesAgree, RingTypes
<1>2. Slot(read_index + 1) \in Index
  BY <1>1, SlotIndex, RingAssumption
<1> QED BY <1>1, <1>2, Where

LEMMA ContentsSeq ==
  ASSUME RingInv
  PROVE  Contents \in Seq(Value) /\ Len(Contents) = Stored
<1>1. \A i \in 1 .. Stored : buffer[Slot(Oldest + i - 1)] \in Value
  <2> TAKE i \in 1 .. Stored
  <2>1. Oldest \in Index /\ i - 1 \in 0 .. Capacity /\ Oldest + i - 1 = Oldest + (i - 1)
    BY OldestIndex, RingAssumption DEF Index
  <2>2. Slot(Oldest + i - 1) \in Index
    BY <2>1, SlotIndex
  <2> QED BY <2>2 DEF RingInv, RingTypes
<1>2. Stored \in Nat
  BY OldestIndex, RingAssumption
<1>3. Contents \in [1 .. Stored -> Value]
  BY <1>1 DEF Contents
<1> QED BY <1>2, <1>3

LEMMA SameContents ==
  ASSUME Oldest' = Oldest, Stored' = Stored,
         \A i \in 1 .. Stored : buffer'[Slot(Oldest + i - 1)] = buffer[Slot(Oldest + i - 1)]
  PROVE  Contents' = Contents
BY DEF Contents, Slot

(* A value is copied to a free slot before it is counted.                  *)
LEMMA CopyKeeps ==
  ASSUME RingInv, TaskNext, Alone, NEW d \in Value, WriteCopy("task", d)
  PROVE  Contents' = Contents
<1>1. /\ op["task"] = "write" /\ stage["task"] = "copy"
      /\ op'["task"] = "write" /\ stage'["task"] = "load"
      /\ UNCHANGED <<read_index, dcount>>
      /\ buffer' = [buffer EXCEPT ![write_index] = d]
      /\ dcount \in Nat /\ buffer \in [Index -> Value]
  BY DEF WriteCopy, AtStep, Goto, RingInv, RingTypes, Context
<1>2. dcount < Capacity
  BY <1>1, RingAssumption DEF RingInv, Places, CallFits, RingTypes, Context
<1>3. Oldest = Slot(read_index + 1) /\ Stored = dcount
  BY <1>1, Where DEF TaskReading
<1>4. Oldest' = Oldest /\ Stored' = Stored
  BY <1>1, <1>3, TypesStep, WhereNext DEF TaskReading, Slot
<1>5. write_index = Slot(Oldest + Stored - 0) /\ Oldest \in Index
  BY <1>1, OldestIndex DEF RingInv, IndicesAgree
<1>6. \A i \in 1 .. Stored : Slot(Oldest + i - 1) # write_index
  BY <1>1, <1>2, <1>3, <1>5, RingAssumption DEF Slot, Index
<1>7. \A i \in 1 .. Stored : buffer'[Slot(Oldest + i - 1)] = buffer[Slot(Oldest + i - 1)]
  <2> TAKE i \in 1 .. Stored
  <2>1. Oldest \in Index /\ i - 1 \in 0 .. Capacity /\ Oldest + i - 1 = Oldest + (i - 1)
    BY <1>1, <1>2, <1>3, <1>5, RingAssumption DEF Index
  <2>2. Slot(Oldest + i - 1) \in Index
    BY <2>1, SlotIndex
  <2> QED BY <1>1, <1>6, <2>2
<1> QED BY <1>4, <1>7, SameContents

(* Counting it puts it behind the others.                                  *)
LEMMA CountPuts ==
  ASSUME RingInv, TaskNext, Alone, WriteCount("task")
  PROVE  \E d \in Value : F!Put(d)
<1>1. /\ op["task"] = "write" /\ stage["task"] = "store"
      /\ op'["task"] = "write" /\ stage'["task"] = "next"
      /\ UNCHANGED <<read_index, write_index, buffer, last>>
      /\ dcount \in Nat /\ buffer \in [Index -> Value] /\ write_index \in Index
  BY DEF WriteCount, AtStep, Goto, RingInv, RingTypes, Context
<1>2. dcount < Capacity /\ dcount' = dcount + 1
  BY <1>1, RingAssumption DEF WriteCount, RingInv, Places, CallFits, RingTypes, Context
<1>3. Oldest = Slot(read_index + 1) /\ Stored = dcount
  BY <1>1, Where DEF TaskReading
<1>4. Oldest' = Oldest /\ Stored' = Stored + 1
  BY <1>1, <1>2, <1>3, TypesStep, WhereNext DEF TaskReading, Slot
<1>5. write_index = Slot(Oldest + Stored - 0) /\ Oldest \in Index
  BY <1>1, OldestIndex DEF RingInv, IndicesAgree
<1>6. Contents \in Seq(Value) /\ Len(Contents) = Stored /\ Stored \in Nat
  BY <1>1, <1>3, ContentsSeq
<1>7. Contents' = [i \in 1 .. Stored + 1 |-> buffer[Slot(Oldest + i - 1)]]
  BY <1>1, <1>4 DEF Contents, Slot
<1>8. Oldest + (Stored + 1) - 1 = Oldest + Stored - 0
  BY <1>5, <1>6, RingAssumption DEF Index
<1>9. Contents' = Append(Contents, buffer[write_index])
  <2>1. \A i \in 1 .. Stored : Contents[i] = buffer[Slot(Oldest + i - 1)]
    BY Zenon DEF Contents
  <2>2. buffer[Slot(Oldest + (Stored + 1) - 1)] = buffer[write_index]
    BY <1>5, <1>8
  <2>3. Append(Contents, buffer[write_index]) =
          [i \in 1 .. Stored + 1 |-> IF i = Stored + 1 THEN buffer[write_index] ELSE Contents[i]]
    BY <1>6
  <2>4. \A i \in 1 .. Stored + 1 :
          buffer[Slot(Oldest + i - 1)] = IF i = Stored + 1 THEN buffer[write_index] ELSE Contents[i]
    BY <1>6, <2>1, <2>2
  <2> QED BY <1>7, <2>3, <2>4
<1> QED BY <1>1, <1>2, <1>3, <1>6, <1>9 DEF F!Put

(* Copying a value to the target takes the oldest.                         *)
LEMMA CopyGets ==
  ASSUME RingInv, TaskNext, Alone, ReadCopy("task")
  PROVE  F!Get
<1>1. /\ op["task"] = "read" /\ stage["task"] = "copy"
      /\ op'["task"] = "read" /\ stage'["task"] = "load"
      /\ UNCHANGED <<read_index, buffer, dcount>>
      /\ last' = buffer[read_index]
      /\ dcount \in Nat /\ read_index \in Index
  BY DEF ReadCopy, AtStep, Goto, RingInv, RingTypes, Context, ring
<1>2. dcount > 0
  BY <1>1, RingAssumption DEF RingInv, Places, CallFits, RingTypes, Context
<1>3. Oldest = read_index /\ Stored = dcount
  BY <1>1, Where DEF TaskReading
<1>4. Oldest' = Slot(read_index + 1) /\ Stored' = dcount - 1
  BY <1>1, <1>2, <1>3, TypesStep, WhereNext DEF TaskReading, Slot
<1>5. Contents \in Seq(Value) /\ Len(Contents) = dcount
  BY <1>3, ContentsSeq
<1>6. Slot(Oldest + 1 - 1) = read_index
  BY <1>1, <1>3, RingAssumption DEF Slot, Index
<1>7. Contents[1] = buffer[read_index]
  BY <1>1, <1>2, <1>3, <1>6 DEF Contents
<1>8. Contents' = [i \in 1 .. dcount - 1 |-> buffer[Slot(Slot(read_index + 1) + i - 1)]]
  BY <1>1, <1>4 DEF Contents, Slot
<1>9. \A i \in 1 .. dcount - 1 :
        Slot(Slot(read_index + 1) + i - 1) = Slot(read_index + (i + 1) - 1)
  BY <1>1, <1>3, OldestIndex, RingAssumption DEF Slot, Index
<1>10. Contents # <<>> /\ Head(Contents) = Contents[1]
  BY <1>1, <1>2, <1>5
<1>11. Contents' = Tail(Contents)
  <2>0. \A j \in 1 .. Stored : Contents[j] = buffer[Slot(Oldest + j - 1)]
    BY Zenon DEF Contents
  <2>1. \A i \in 1 .. dcount - 1 : Contents[i + 1] = buffer[Slot(read_index + (i + 1) - 1)]
    <3> TAKE i \in 1 .. dcount - 1
    <3>1. i + 1 \in 1 .. Stored
      BY <1>1, <1>3
    <3>2. Contents[i + 1] = buffer[Slot(Oldest + (i + 1) - 1)]
      BY <2>0, <3>1
    <3> QED BY <1>3, <3>2
  <2>2. Tail(Contents) = [i \in 1 .. dcount - 1 |-> Contents[i + 1]]
    <3>1. /\ Tail(Contents) \in Seq(Value) /\ Len(Tail(Contents)) = dcount - 1
          /\ \A i \in 1 .. Len(Tail(Contents)) : Tail(Contents)[i] = Contents[i + 1]
      BY <1>5, <1>10, HeadTailProperties
    <3>2. Tail(Contents) = [i \in 1 .. Len(Tail(Contents)) |-> Tail(Contents)[i]]
      <4>1. Tail(Contents) \in [1 .. Len(Tail(Contents)) -> Value]
        BY <3>1, LenProperties
      <4> QED BY <4>1, Zenon
    <3> QED BY <3>1, <3>2
  <2> QED BY <1>8, <1>9, <2>1, <2>2
<1> QED BY <1>1, <1>7, <1>10, <1>11 DEF F!Get

(* Every step of the ring-buffer is a step of the queue, or none.          *)
LEMMA FifoStep ==
  ASSUME RingInv, TaskNext, Alone
  PROVE  F!FifoNext \/ UNCHANGED <<Contents, last>>
<1>a. RingTypes' /\ Places'
  BY TypesStep
<1> DEFINE Same == Oldest' = Oldest /\ Stored' = Stored /\ UNCHANGED <<buffer, last>>
<1>b. ASSUME Same PROVE UNCHANGED <<Contents, last>>
  BY <1>b DEF Contents, Slot
<1> HIDE DEF Same
<1>1. ASSUME NEW n \in 0 .. MaxLen, RingbufWrite("task", n) PROVE Same
  BY <1>1, <1>a, Where, WhereNext DEF Same, RingInv, RingTypes, Places, Context, WritePc, ReadPc, Goto,
     TaskReading, Slot, RingbufWrite, Call, ring
<1>2. ASSUME NEW n \in 0 .. MaxLen, RingbufRead("task", n) PROVE Same
  BY <1>2, <1>a, Where, WhereNext DEF Same, RingInv, RingTypes, Places, Context, WritePc, ReadPc, Goto,
     TaskReading, Slot, RingbufRead, Call, ring
<1>3. ASSUME IRingbufLock("task") PROVE Same
  BY <1>3, <1>a, Where, WhereNext DEF Same, RingInv, RingTypes, Places, Context, WritePc, ReadPc, Goto,
     TaskReading, Slot, IRingbufLock, CallEnd, LoopHead, ring
<1>4. ASSUME IRingbufUnlock("task") PROVE Same
  BY <1>4, <1>a, Where, WhereNext DEF Same, RingInv, RingTypes, Places, Context, WritePc, ReadPc, Goto,
     TaskReading, Slot, IRingbufUnlock, CallEnd, ring
<1>5. ASSUME NEW d \in Value, WriteCopy("task", d) PROVE UNCHANGED <<Contents, last>>
  BY <1>5, CopyKeeps DEF WriteCopy
<1>6. ASSUME LoadCount("task") PROVE Same
  BY <1>6, <1>a, Where, WhereNext DEF Same, RingInv, RingTypes, Places, Context, WritePc, ReadPc, Goto,
     TaskReading, Slot, LoadCount, ring
<1>7. CASE WriteCount("task")
  BY <1>7, CountPuts DEF F!FifoNext
<1>8. ASSUME WriteNext("task") PROVE Same
  BY <1>8, <1>a, Where, WhereNext DEF Same, RingInv, RingTypes, Places, Context, WritePc, ReadPc, Goto,
     TaskReading, Slot, WriteNext, AtStep
<1>9. ASSUME WriteCompare("task") PROVE Same
  BY <1>9, <1>a, Where, WhereNext DEF Same, RingInv, RingTypes, Places, Context, WritePc, ReadPc, Goto,
     TaskReading, Slot, WriteCompare, AtStep, LoopHead, ring
<1>10. ASSUME WriteTest("task") PROVE Same
  BY <1>10, <1>a, Where, WhereNext DEF Same, RingInv, RingTypes, Places, Context, WritePc, ReadPc, Goto,
     TaskReading, Slot, WriteTest, AtStep, LoopHead, ring
<1>11. ASSUME ReadNext("task") PROVE Same
  BY <1>11, <1>a, Where, WhereNext, NextIndex DEF Same, RingInv, RingTypes, Places, Context, WritePc, ReadPc, Goto,
     TaskReading, Slot, ReadNext, AtStep
<1>12. ASSUME ReadCompare("task") PROVE Same
  BY <1>12, <1>a, Where, WhereNext DEF Same, RingInv, RingTypes, Places, Context, WritePc, ReadPc, Goto,
     TaskReading, Slot, ReadCompare, AtStep, ring
<1>13. ASSUME ReadTest("task") PROVE Same
  BY <1>13, <1>a, Where, WhereNext DEF Same, RingInv, RingTypes, Places, Context, WritePc, ReadPc, Goto,
     TaskReading, Slot, CallFits, ReadTest, AtStep, ring
<1>14. CASE ReadCopy("task")
  BY <1>14, CopyGets DEF F!FifoNext
<1>15. ASSUME ReadCount("task") PROVE Same
  BY <1>15, <1>a, Where, WhereNext, RingAssumption DEF Same, RingInv, RingTypes, Places, Context, WritePc, ReadPc, Goto,
     TaskReading, Slot, ReadCount, AtStep, LoopHead, CallFits
<1>16. CASE RingbufPurge("task")
  <2>1. op["task"] = "none" /\ ~rlock /\ ~wlock
    BY <1>16 DEF RingbufPurge, RingInv, CallFits
  <2>2. dcount' = 0 /\ op'["task"] = "none" /\ UNCHANGED last
    BY <1>16, <2>1 DEF RingbufPurge, calls
  <2>3. Stored' = 0
    BY <1>a, <2>2, WhereNext DEF TaskReading
  <2>4. Contents' = <<>>
    BY <2>3 DEF Contents
  <2> QED BY <2>2, <2>4 DEF F!FifoNext, F!Clear
<1> QED BY <1>b, <1>1, <1>2, <1>3, <1>4, <1>5, <1>6, <1>7, <1>8,
           <1>9, <1>10, <1>11, <1>12, <1>13, <1>14, <1>15, <1>16, Zenon DEF TaskNext

LEMMA RingInvInit ==
  ASSUME RingInit, Alone
  PROVE  RingInv /\ Contents = <<>>
<1>0. /\ op["task"] = "none" /\ op["isr"] = "none" /\ stage["task"] = "none" /\ stage["isr"] = "none"
      /\ rlock = FALSE /\ wlock = FALSE
  BY DEF RingInit, Context
<1>1. RingTypes /\ Places /\ CallFits
  <2>1. buffer \in [Index -> Value] /\ last \in Value
    BY DEF RingInit
  <2>2. read_index \in Index /\ write_index \in Index /\ dcount \in Nat
    BY RingAssumption DEF RingInit, Index
  <2>3. RingTypes
    <3>1. op \in [Context -> {"none", "write", "read"}] /\ stage \in [Context -> {"none"} \cup WritePc]
      BY DEF RingInit
    <3>2. left \in [Context -> Nat] /\ reg \in [Context -> Nat]
      BY DEF RingInit
    <3>3. rlock \in BOOLEAN /\ wlock \in BOOLEAN
      BY <1>0
    <3> QED BY <2>1, <2>2, <3>1, <3>2, <3>3, Zenon DEF RingTypes
  <2>4. Places
    BY <1>0 DEF Places
  <2>5. CallFits
    BY <1>0 DEF CallFits
  <2> QED BY <2>3, <2>4, <2>5
<1>2. ~\E c \in Context : op[c] = "read"
  BY DEF RingInit
<1>3. Oldest = Slot(read_index + 1) /\ Stored = 0
  BY <1>2 DEF Oldest, Stored, Reading, RingInit
<1>4. Slot(Oldest + Stored - 0) = 0
  BY <1>3, RingAssumption DEF Slot, RingInit
<1>5. IndicesAgree
  BY <1>3, <1>4, RingAssumption DEF IndicesAgree, RingInit, Context
<1> QED BY <1>1, <1>3, <1>5 DEF RingInv, Contents

LEMMA RingStutter ==
  ASSUME RingInv, UNCHANGED ringVars
  PROVE  RingInv' /\ UNCHANGED <<Contents, last>>
BY DEF ringVars, ring, calls, RingInv, RingTypes, Places, IndicesAgree, CallFits, Contents, Oldest,
       Stored, Slot, Reading

(* The ring-buffer of one careful task is a FIFO queue, whatever its size. *)
THEOREM RingIsFifo ==
  ASSUME Alone
  PROVE  RingSpec => RefinesFifo
<1>1. RingInit => RingInv /\ F!FifoInit
  BY RingInvInit DEF F!FifoInit, RingInv, RingTypes
<1>2. RingInv /\ [RingNext]_ringVars => RingInv' /\ [F!FifoNext]_<<Contents, last>>
  BY OnlyTheTask, TypesStep, AgreeStep, FitsStep, FifoStep, RingStutter DEF RingInv
<1> QED BY <1>1, <1>2, PTL DEF RingSpec, RefinesFifo, F!FifoSpec

(* At every step of a call the indices and dcount describe the same gap.   *)
THEOREM IndicesAlwaysAgree ==
  ASSUME Alone
  PROVE  RingSpec => []IndicesAgree
<1>1. RingInit => RingInv
  BY RingInvInit
<1>2. RingInv /\ [RingNext]_ringVars => RingInv'
  BY OnlyTheTask, TypesStep, AgreeStep, FitsStep, RingStutter DEF RingInv
<1>3. RingInv => IndicesAgree
  BY DEF RingInv
<1> QED BY <1>1, <1>2, <1>3, PTL DEF RingSpec


(* A task that is alone with the ring-buffer holds the lock of its         *)
(* operation from the first copy to the return, and what is left of the    *)
(* call fits at every step, whatever the size and the amount.              *)
THEOREM CallAlwaysFits ==
  ASSUME Alone
  PROVE  RingSpec => []CallFits
<1>1. RingInit => RingInv
  BY RingInvInit
<1>2. RingInv /\ [RingNext]_ringVars => RingInv'
  BY OnlyTheTask, TypesStep, AgreeStep, FitsStep, RingStutter DEF RingInv
<1>3. RingInv => CallFits
  BY DEF RingInv
<1> QED BY <1>1, <1>2, <1>3, PTL DEF RingSpec
================================================================================
