-------------------------------- MODULE Memory --------------------------------
(***************************************************************************)
(* The OS heap of Memory.c: pools, and allocations that start with their   *)
(* size, found by walking the heap.  Everything but KMemFreeObject runs in *)
(* a critical section and is one step; KMemFreeObject enters kernel mode   *)
(* step by step, and an interrupt that creates or destroys an object (an   *)
(* event) may come between the steps.                                      *)
(***************************************************************************)
EXTENDS Integers, FiniteSets, FiniteSetsExt

CONSTANTS
  HeapBlocks,   \* blocks of the heap
  ObjectBlocks, \* blocks of the object pool, which is pool 0
  Pools,        \* TotalHeapPools
  BlockSize,    \* MEM_BLOCK_SIZE
  SizeBytes,    \* MEM_ALLOC_SIZE_SIZE_BYTES
  PoolSize,     \* the pool sizes that are asked for
  Request,         \* the allocation sizes that are asked for
  MemWidth,        \* the range of U32_t
  Windows,      \* whether interrupts come inside KCoreKernelModeEnter and Exit
  Nil

ASSUME MemoryAssumption ==
  /\ HeapBlocks \in Nat /\ ObjectBlocks \in 1 .. HeapBlocks /\ Pools \in Nat \ {0}
  /\ BlockSize \in Nat \ {0} /\ SizeBytes \in Nat
  /\ PoolSize \subseteq Nat \ {0} /\ Request \subseteq Nat \ {0}
  /\ MemWidth \in Nat /\ HeapBlocks * BlockSize < MemWidth
  /\ Windows \in BOOLEAN

VARIABLES
  pool,   \* PoolTable: start and number of blocks, pool_size and mem_left in bytes
  heap,   \* OsHeap: the first word of each block, sizes in blocks
  flag,   \* CORE_FLAG_KERNEL_MODE
  nest,   \* kernel_mode_nest_counter
  job,    \* the call of KMemFreeObject that is in progress
  hung,   \* the request on which KMemAllocObject hangs
  allocs  \* history: the allocations in use

modeVars == <<flag, nest>>
memoryVars == <<pool, heap, modeVars, job, hung, allocs>>

Block == 0 .. HeapBlocks - 1
PoolId == 0 .. Pools - 1
Word == 1 \* a word that the user of an allocation wrote
NoPool == [start |-> 0, blocks |-> 0, size |-> 0, left |-> 0]
NoJob == [pc |-> "none", obj |-> Nil, data |-> Nil]

Span(s, n) == s .. s + n - 1
PoolSpan(p) == Span(pool[p].start, pool[p].blocks)

(* MEM_BYTES_TO_BLOCKS.                                                    *)
BytesToBlocks(bytes) == (bytes + BlockSize - 1) \div BlockSize

(* KMemInit.                                                               *)
MemoryInit ==
  /\ pool = [p \in PoolId |->
       IF p = 0 THEN [start |-> 0, blocks |-> ObjectBlocks, size |-> ObjectBlocks * BlockSize,
                      left |-> ObjectBlocks * BlockSize]
       ELSE NoPool]
  /\ heap = [b \in Block |-> 0]
  /\ flag = FALSE /\ nest = 0
  /\ job = NoJob /\ hung = Nil
  /\ allocs = {}
------------------------------------------------------------------------------
LooseFit(S, n) == \* mutant: the count of blocks is not reset by a block in use
  LET starts == {s \in S : s + n - 1 \in S} IN IF starts = {} THEN Nil ELSE Min(starts)

(* The lowest run of n blocks of S, or Nil.                                *)
FirstFit(S, n) ==
  LET starts == {s \in S : Span(s, n) \subseteq S}
  IN IF starts = {} THEN Nil ELSE Min(starts)

(* The blocks that MemAlloc looks at in a pool: it steps over free blocks  *)
(* one by one and over allocations by their size.                          *)
Walk(p) ==
  LET at[k \in 0 .. HeapBlocks] ==
        IF k = 0 THEN pool[p].start
        ELSE LET b == at[k - 1]
             IN IF b \notin PoolSpan(p) THEN b ELSE b + (IF heap[b] = 0 THEN 1 ELSE heap[b])
  IN {at[k] : k \in 0 .. HeapBlocks} \cap PoolSpan(p)

FreeButLast(p) == {b \in Walk(p) : heap[b] = 0 /\ b + 1 \in PoolSpan(p)} \* mutant

Free(p) == {b \in Walk(p) : heap[b] = 0}

Blocks(bytes) == BytesToBlocks(bytes + SizeBytes)

(* Where MemAlloc finds room, or Nil.  mem_left is compared with the size  *)
(* before the size field and the rounding are added.                       *)
MemAlloc(p, size, mode) ==
  IF pool[p].left < size \/ (p = 0 /\ ~mode) THEN Nil
  ELSE FirstFit(Free(p), Blocks(size))

Reserve(P, p, n) == [P EXCEPT ![p].left = (@ - n * BlockSize) % MemWidth]
Release(P, p, n) == [P EXCEPT ![p].left = (@ + n * BlockSize) % MemWidth]

ZeroHeader(h, a) == [h EXCEPT ![a.start] = 0] \* mutant

(* MemFree sets the allocation to 0, as far as its size field says.        *)
Zero(h, a) == [b \in Block |-> IF b \in Span(a.start, h[a.start]) THEN 0 ELSE h[b]]

Alloc(p, s, size) == [pool |-> p, start |-> s, blocks |-> Blocks(size)]

Idle == job.pc = "none" /\ hung = Nil

(* Calls of a task on the user's pools.                                    *)
TaskCall == Idle /\ UNCHANGED <<modeVars, job, hung>>

MemPoolCreate(size) ==
  LET unused == {p \in PoolId : pool[p].size = 0}
      n == BytesToBlocks(size)
      s == FirstFit(Block \ UNION {PoolSpan(p) : p \in PoolId}, n)
  IN /\ TaskCall /\ unused # {} /\ s # Nil
     /\ pool' = [pool EXCEPT ![Min(unused)] =
                   [start |-> s, blocks |-> n, size |-> size, left |-> size]]
     /\ UNCHANGED <<heap, allocs>>

NoRefill(P, p) == P \* mutant

Refill(P, p) == [P EXCEPT ![p].left = P[p].size]

Format(p) ==
  /\ p # 0
  /\ heap' = [b \in Block |-> IF b \in PoolSpan(p) THEN 0 ELSE heap[b]]
  /\ allocs' = {a \in allocs : a.pool # p}

MemPoolFormat(p) ==
  TaskCall /\ pool[p].size # 0 /\ Format(p) /\ pool' = Refill(pool, p)

MemPoolDelete(p) ==
  TaskCall /\ pool[p].size # 0 /\ Format(p) /\ pool' = [pool EXCEPT ![p] = NoPool]

UserAlloc(p, size) ==
  LET s == MemAlloc(p, size, flag)
  IN /\ TaskCall /\ p # 0 /\ s # Nil
     /\ heap' = [heap EXCEPT ![s] = Blocks(size)]
     /\ pool' = Reserve(pool, p, Blocks(size))
     /\ allocs' = allocs \cup {Alloc(p, s, size)}

UserFree(a) ==
  /\ TaskCall /\ a.pool # 0
  /\ heap' = Zero(heap, a)
  /\ pool' = Release(pool, a.pool, heap[a.start])
  /\ allocs' = allocs \ {a}

(* MemAllocSizeGet reads the first word of the pool, not the size field of *)
(* the allocation: another size, or -4 as a U32_t.                         *)
MemAllocSizeGet(a) == (heap[pool[a.pool].start] * BlockSize - SizeBytes) % MemWidth

(* The first word of block k of an allocation is copied to a new one of    *)
(* this size, also when the block is behind the old allocation.            *)
Copies(a, k, size) ==
  /\ k * BlockSize - SizeBytes < Min({MemAllocSizeGet(a), size})
  /\ a.start + k \in Block

(* MemReAlloc: a new allocation, the data, and then the old one is freed.  *)
MemReAlloc(a, p, size) ==
  LET s == MemAlloc(p, size, flag)
      h == [b \in Block |-> IF b = s THEN Blocks(size)
                            ELSE IF b \in Span(s, Blocks(size)) /\ Copies(a, b - s, size)
                            THEN heap[a.start + b - s] ELSE heap[b]]
  IN /\ TaskCall /\ a.pool # 0 /\ p # 0 /\ s # Nil
     /\ heap' = Zero(h, a)
     /\ pool' = Release(Reserve(pool, p, Blocks(size)), a.pool, heap[a.start])
     /\ allocs' = (allocs \ {a}) \cup {Alloc(p, s, size)}

(* What callers are told of the space.                                     *)
MemPoolFreeSpaceGet(p) == pool[p].left

MemPoolUsedSpaceGet(p) == (pool[p].size - pool[p].left) % MemWidth

MemOsHeapFreeSpaceGet ==
  LET total_data[i \in 0 .. Pools] ==
        IF i = 0 THEN 0 ELSE (total_data[i - 1] + MemPoolUsedSpaceGet(i - 1)) % MemWidth
  IN (HeapBlocks * BlockSize - total_data[Pools]) % MemWidth

(* The owner of an allocation writes to it.                                *)
Write(a) ==
  /\ Idle
  /\ heap' = [b \in Block |-> IF b \in Span(a.start, a.blocks) \ {a.start} THEN Word ELSE heap[b]]
  /\ UNCHANGED <<pool, modeVars, job, hung, allocs>>
------------------------------------------------------------------------------
(* KCoreKernelModeEnter and Exit as a whole, in a critical section or an   *)
(* interrupt: the flag in between and after.                               *)
Mode == flag \/ nest = 0

ModeAfter == flag /\ nest # 0

(* An interrupt, or a task that is not in a call.                          *)
IsrCall ==
  /\ hung = Nil
  /\ job.pc \in {"enter", "exit"} => Windows
  /\ flag' = ModeAfter /\ UNCHANGED <<nest, job>>

(* KMemAllocObject of an object with data, or without if data is 0.  When  *)
(* there is no room it waits forever.                                      *)
KMemAllocObject(size, data) ==
  LET s == MemAlloc(0, size, Mode)
      n == Blocks(size)
      d == IF s = Nil THEN Nil
           ELSE IF (pool[0].left - n * BlockSize) % MemWidth < data THEN Nil
           ELSE FirstFit(Free(0) \ Span(s, n), Blocks(data))
      fails == pool[0].left < size + data \/ s = Nil \/ (data # 0 /\ d = Nil)
  IN /\ IsrCall
     /\ IF fails THEN hung' = [size |-> size, data |-> data] /\ UNCHANGED <<pool, heap, allocs>>
        ELSE /\ heap' = [b \in Block |-> IF b = s THEN n
                                         ELSE IF data # 0 /\ b = d THEN Blocks(data) ELSE heap[b]]
             /\ pool' = Reserve(pool, 0, IF data = 0 THEN n ELSE n + Blocks(data))
             /\ allocs' = allocs \cup {Alloc(0, s, size)}
                            \cup (IF data = 0 THEN {} ELSE {Alloc(0, d, data)})
             /\ UNCHANGED hung

(* MemFree of an object: refused outside kernel mode.                      *)
MemFree(a, mode) ==
  /\ heap' = IF mode THEN Zero(heap, a) ELSE heap
  /\ pool' = IF mode THEN Release(pool, a.pool, heap[a.start]) ELSE pool
  /\ allocs' = allocs \ {a}

Object(a) == a \in allocs /\ a.pool = 0 /\ a \notin {job.obj, job.data}

(* KMemFreeObject in an interrupt: the broker destroys an event.           *)
DestroyEvent(a) == IsrCall /\ Object(a) /\ MemFree(a, Mode) /\ UNCHANGED hung

(* KMemFreeObject of a task.                                               *)
KMemFreeObject(obj, data) ==
  /\ Idle /\ Object(obj) /\ (data # Nil => Object(data) /\ data # obj)
  /\ flag' = (flag \/ nest = 0)
  /\ job' = [pc |-> "enter", obj |-> obj, data |-> data]
  /\ UNCHANGED <<pool, heap, nest, hung, allocs>>

JobStep(from, to) == job.pc = from /\ hung = Nil /\ job' = [job EXCEPT !.pc = to] /\ UNCHANGED hung

EnterNest ==
  /\ JobStep("enter", "data")
  /\ nest' = nest + 1
  /\ UNCHANGED <<pool, heap, flag, allocs>>

FreeData ==
  /\ JobStep("data", "object")
  /\ IF job.data = Nil THEN UNCHANGED <<pool, heap, allocs>> ELSE MemFree(job.data, flag)
  /\ UNCHANGED modeVars

FreeEvent ==
  /\ JobStep("object", "leave")
  /\ MemFree(job.obj, flag)
  /\ UNCHANGED modeVars

ExitClear ==
  /\ JobStep("leave", "exit")
  /\ flag' = (flag /\ nest # 1)
  /\ UNCHANGED <<pool, heap, nest, allocs>>

ExitNest ==
  /\ job.pc = "exit" /\ hung = Nil
  /\ nest' = nest - 1
  /\ job' = NoJob
  /\ UNCHANGED <<pool, heap, flag, hung, allocs>>
------------------------------------------------------------------------------
MemoryNext ==
  \/ \E size \in PoolSize : MemPoolCreate(size)
  \/ \E p \in PoolId :
       MemPoolFormat(p) \/ MemPoolDelete(p) \/ \E size \in Request : UserAlloc(p, size)
  \/ \E a \in allocs :
       \/ UserFree(a) \/ Write(a) \/ DestroyEvent(a)
       \/ \E p \in PoolId, size \in Request : MemReAlloc(a, p, size)
       \/ \E data \in allocs \cup {Nil} : KMemFreeObject(a, data)
  \/ \E size \in Request, data \in Request \cup {0} : KMemAllocObject(size, data)
  \/ EnterNest \/ FreeData \/ FreeEvent \/ ExitClear \/ ExitNest

MemorySpec == MemoryInit /\ [][MemoryNext]_memoryVars
------------------------------------------------------------------------------
(* Allocations lie within their pool and share no block, however pools     *)
(* come and go and whatever is written to allocations.                     *)
Apart ==
  \A a \in allocs :
    /\ Span(a.start, a.blocks) \subseteq PoolSpan(a.pool)
    /\ \A b \in allocs \ {a} : Span(a.start, a.blocks) \cap Span(b.start, b.blocks) = {}

(* Walking a pool by the sizes on the heap comes to the allocations in     *)
(* use and to nothing else that is not free: no data is taken for a size,  *)
(* and every allocation that was freed has returned to the pool.           *)
HeapIsAllocs ==
  \A p \in PoolId :
    /\ {b \in Walk(p) : heap[b] # 0} = {a.start : a \in {c \in allocs : c.pool = p}}
    /\ \A a \in allocs : heap[a.start] = a.blocks

(* A pool reports as free its size less the blocks in use as long as one   *)
(* of its blocks is free, and always when its size is in whole blocks (the *)
(* last block of another pool takes more than is left: mem_left wraps).    *)
(* What is reported as used, and as free on the heap, is exact.            *)
Accounting ==
  LET Used(S) == BlockSize * Cardinality(UNION {Span(a.start, a.blocks) : a \in S})
      InUse(p) == Used({a \in allocs : a.pool = p})
  IN /\ \A p \in PoolId :
          /\ pool[p].size % BlockSize = 0 \/ InUse(p) < BlockSize * pool[p].blocks
               => MemPoolFreeSpaceGet(p) = pool[p].size - InUse(p)
          /\ MemPoolUsedSpaceGet(p) = InUse(p)
     /\ MemOsHeapFreeSpaceGet = HeapBlocks * BlockSize - Used(allocs)

(* KMemAllocObject waits forever only when the object pool has no room.    *)
HangsWhenFull ==
  hung # Nil =>
    LET S == PoolSpan(0) \ UNION {Span(a.start, a.blocks) : a \in allocs}
        s == FirstFit(S, Blocks(hung.size))
    IN \/ s = Nil
       \/ /\ hung.data # 0
          /\ FirstFit(S \ Span(s, Blocks(hung.size)), Blocks(hung.data)) = Nil

(* Pools are sound: allocations do not share blocks, and what is reported  *)
(* as free is free, but for a full pool of an odd size.                    *)
PoolsSound == Apart /\ Accounting
===============================================================================
