------------------------------ MODULE MemoryProofs ------------------------------
(***************************************************************************)
(* Proofs about Memory: without the windows of KCoreKernelModeEnter and    *)
(* Exit, allocations lie apart in their pools, the walk over the sizes on  *)
(* the heap finds them, the space that is reported is what is free, and    *)
(* KMemAllocObject hangs only when the object pool has no room.            *)
(***************************************************************************)
EXTENDS Memory, FiniteSetTheorems, NaturalsInduction, WellFoundedInduction, TLAPS

(* The blocks of allocations, the allocations of a pool and its blocks.    *)
Taken(A) == UNION {Span(a.start, a.blocks) : a \in A}
Of(A, p) == {a \in A : a.pool = p}
Spn(P, p) == Span(P[p].start, P[p].blocks)

PoolsApart(P) ==
  /\ P \in [PoolId -> [start : Nat, blocks : Nat, size : Nat, left : Nat]]
  /\ \A p \in PoolId : /\ Spn(P, p) \subseteq Block
                       /\ P[p].blocks = BytesToBlocks(P[p].size)
                       /\ P[p].blocks <= HeapBlocks
  /\ \A p, q \in PoolId : p # q => Spn(P, p) \cap Spn(P, q) = {}
  /\ P[0].size = ObjectBlocks * BlockSize

AllocsApart(P, A) ==
  /\ A \subseteq [pool : PoolId, start : Nat, blocks : Nat \ {0}]
  /\ \A a \in A : Span(a.start, a.blocks) \subseteq Spn(P, a.pool)
  /\ \A a, b \in A : a # b => Span(a.start, a.blocks) \cap Span(b.start, b.blocks) = {}

(* What is on the heap: the sizes of allocations and, in no allocation, 0. *)
HeapHolds(h, A) ==
  /\ h \in [Block -> Nat]
  /\ \A a \in A : h[a.start] = a.blocks
  /\ \A b \in Block \ Taken(A) : h[b] = 0

LeftAt(size, used) == (size - BlockSize * used) % MemWidth

Left(P, A, p) == LeftAt(P[p].size, Cardinality(Taken(Of(A, p))))

LeftIs(P, A) == \A p \in PoolId : P[p].left = Left(P, A, p)

HeapInv(P, h, A) == PoolsApart(P) /\ AllocsApart(P, A) /\ HeapHolds(h, A) /\ LeftIs(P, A)

(* Kernel mode, and the allocations that KMemFreeObject has still to free. *)
ModeInv ==
  /\ job = [pc |-> job.pc, obj |-> job.obj, data |-> job.data]
  /\ job.pc \in {"none", "enter", "data", "object", "leave", "exit"}
  /\ nest = (IF job.pc \in {"none", "enter"} THEN 0 ELSE 1)
  /\ flag \in BOOLEAN /\ (flag <=> job.pc \in {"enter", "data", "object", "leave"})

JobInv ==
  /\ job.pc \in {"enter", "data", "object"} => job.obj \in Of(allocs, 0)
  /\ job.pc \in {"enter", "data"} /\ job.data # Nil =>
       job.data \in Of(allocs, 0) /\ job.data # job.obj

MemoryInv == HeapInv(pool, heap, allocs) /\ ModeInv /\ JobInv /\ HangsWhenFull
--------------------------------------------------------------------------------
(* Arithmetic of block sizes and of U32_t.                                 *)
LEMMA Modulo ==
  ASSUME NEW W \in Nat, W > 0, NEW x \in Int
  PROVE  /\ x % W \in 0 .. W - 1
         /\ x \div W \in Int /\ x = W * (x \div W) + (x % W)
         /\ \A q \in Int, r \in 0 .. W - 1 : x = W * q + r => r = x % W
<1> DEFINE d == x \div W
           m == x % W
<1>1. m \in 0 .. W - 1 /\ d \in Int /\ x = W * d + m OBVIOUS
<1> HIDE DEF d, m
<1>2. ASSUME NEW q \in Int, NEW r \in 0 .. W - 1, x = W * q + r PROVE r = m
  <2>1. W * (q - d) = m - r /\ q - d \in Int BY <1>1, <1>2
  <2>2. q - d >= 1 => W * (q - d) >= W BY <1>1, <2>1
  <2>3. q - d <= -1 => W * (q - d) <= -W BY <1>1, <2>1
  <2>4. q - d = 0 BY <1>1, <1>2, <2>1, <2>2, <2>3
  <2>5. W * (q - d) = 0 BY <2>4
  <2>6. QED BY <1>1, <1>2, <2>1, <2>5
<1>3. QED BY <1>1, <1>2 DEF d, m

LEMMA ModuloAdd ==
  ASSUME NEW W \in Nat, W > 0, NEW x \in Int, NEW y \in Int
  PROVE  ((x % W) + y) % W = (x + y) % W
<1> DEFINE q == x \div W
           z == (x % W) + y
           r == z \div W
<1>1. q \in Int /\ x % W \in Int /\ x = W * q + (x % W) BY Modulo
<1>2. z \in Int BY <1>1
<1>3. r \in Int /\ z % W \in 0 .. W - 1 /\ z = W * r + (z % W) BY <1>2, Modulo
<1>4. x + y = W * q + z BY <1>1
<1> HIDE DEF q, r, z
<1>5. W * (q + r) = W * q + W * r BY <1>1, <1>3
<1>6. x + y = W * (q + r) + (z % W) /\ q + r \in Int /\ x + y \in Int
  BY <1>1, <1>3, <1>4, <1>5
<1>7. z % W = (x + y) % W BY <1>3, <1>6, Modulo
<1>8. QED BY <1>7 DEF z

LEMMA BlocksCover ==
  ASSUME NEW n \in Nat
  PROVE  /\ BytesToBlocks(n) \in Nat
         /\ BlockSize * BytesToBlocks(n) >= n
         /\ n = 0 => BytesToBlocks(n) = 0
         /\ n > 0 => BytesToBlocks(n) > 0
         /\ \A k \in Nat : BytesToBlocks(k * BlockSize) = k
<1> DEFINE B == BlockSize
<1>1. B \in Nat /\ B > 0 BY MemoryAssumption
<1> DEFINE x == n + B - 1
           q == x \div B
<1>2. x \in Nat /\ q \in Int /\ x = B * q + (x % B) /\ x % B \in 0 .. B - 1 BY <1>1, Modulo
<1>3. q \in Nat BY <1>1, <1>2
<1>4. BytesToBlocks(n) = q BY DEF BytesToBlocks
<1>5. \A k \in Nat : BytesToBlocks(k * BlockSize) = k
  <2> TAKE k \in Nat
  <2> DEFINE y == k * B + B - 1
  <2>1. y \in Nat /\ y = B * k + (B - 1) /\ B - 1 \in 0 .. B - 1 BY <1>1
  <2>2. y \div B \in Int /\ y = B * (y \div B) + (y % B) /\ y % B = B - 1 BY <1>1, <2>1, Modulo
  <2>3. B * (y \div B) = B * k BY <1>1, <2>1, <2>2
  <2>4. y \div B = k BY <1>1, <2>2, <2>3
  <2>5. QED BY <2>4 DEF BytesToBlocks
<1> HIDE DEF q, B
<1>6. n = 0 => q = 0
  <2>1. ASSUME n = 0, q >= 1 PROVE FALSE
    <3>1. B * q >= B BY <1>1, <1>3, <2>1
    <3>2. QED BY <1>1, <1>2, <2>1, <3>1
  <2>2. QED BY <1>3, <2>1
<1>7. n > 0 => q > 0
  <2>1. ASSUME n > 0, q = 0 PROVE FALSE
    <3>1. B * q = 0 BY <1>1, <2>1
    <3>2. QED BY <1>1, <1>2, <2>1, <3>1
  <2>2. QED BY <1>3, <2>1
<1>8. B * q >= n BY <1>1, <1>2, <1>3
<1>9. QED BY <1>3, <1>4, <1>5, <1>6, <1>7, <1>8 DEF B

LEMMA LeastNat ==
  ASSUME NEW S, S \subseteq Nat, S # {}
  PROVE  Min(S) \in S /\ \A y \in S : Min(S) <= y
<1>1. \E x \in S : \A y \in S : ~(<<y, x>> \in OpToRel(<, Nat))
  BY NatLessThanWellFounded, WFMin
<1>2. PICK x \in S : \A y \in S : ~(<<y, x>> \in OpToRel(<, Nat)) BY <1>1
<1>3. ASSUME NEW y \in S, y < x PROVE FALSE
  <2>1. <<y, x>> \in Nat \X Nat /\ <<y, x>>[1] < <<y, x>>[2] BY <1>2, <1>3
  <2>2. <<y, x>> \in OpToRel(<, Nat) BY <2>1, Zenon DEF OpToRel
  <2>3. QED BY <1>2, <1>3, <2>2
<1>4. \A y \in S : x \in Nat /\ y \in Nat /\ ~(y < x) BY <1>3
<1> DEFINE P(z) == \A y \in S : z <= y
<1>5. \E z \in S : P(z) BY <1>4
<1>6. Min(S) = CHOOSE z \in S : P(z) BY DEF Min
<1>7. Min(S) \in S /\ P(Min(S))
  <2> HIDE DEF P
  <2>1. QED BY <1>5, <1>6
<1>8. QED BY <1>7

(* FirstFit finds a run of blocks, if there is one.                        *)
LEMMA FirstFitIs ==
  ASSUME NEW S, S \subseteq Nat, NEW n \in Nat, NEW s, s = FirstFit(S, n), s # Nil
  PROVE  s \in S /\ s \in Nat /\ Span(s, n) \subseteq S
<1> DEFINE starts == {x \in S : Span(x, n) \subseteq S}
<1>1. starts # {} BY DEF FirstFit
<1>2. s = Min(starts) BY <1>1 DEF FirstFit
<1>3. starts \subseteq Nat OBVIOUS
<1>4. Min(starts) \in starts
  <2> HIDE DEF starts
  <2>1. QED BY <1>1, <1>3, LeastNat
<1>5. QED BY <1>2, <1>4

(* Sets of blocks are finite.                                              *)
LEMMA BlocksFinite ==
  ASSUME NEW S, S \subseteq Block
  PROVE  /\ IsFiniteSet(S) /\ Cardinality(S) \in Nat
         /\ \A T \in SUBSET S : Cardinality(T) <= Cardinality(S)
<1>1. IsFiniteSet(Block) BY MemoryAssumption, FS_Interval DEF Block
<1>2. IsFiniteSet(S) BY <1>1, FS_Subset
<1>3. QED BY <1>2, FS_Subset, FS_CardinalityType

LEMMA SpanSize ==
  ASSUME NEW s \in Nat, NEW n \in Nat
  PROVE  IsFiniteSet(Span(s, n)) /\ Cardinality(Span(s, n)) = n
<1>1. s + n - 1 \in Int /\ s \in Int OBVIOUS
<1>2. /\ IsFiniteSet(s .. s + n - 1)
      /\ Cardinality(s .. s + n - 1) = IF s > s + n - 1 THEN 0 ELSE s + n - 1 - s + 1
  BY <1>1, FS_Interval
<1>3. QED BY <1>2 DEF Span

LEMMA DisjointSum ==
  ASSUME NEW S, IsFiniteSet(S), NEW T, IsFiniteSet(T), S \cap T = {}
  PROVE  /\ IsFiniteSet(S \cup T)
         /\ Cardinality(S) \in Nat /\ Cardinality(T) \in Nat
         /\ Cardinality(S \cup T) = Cardinality(S) + Cardinality(T)
<1>1. Cardinality(S) \in Nat /\ Cardinality(T) \in Nat BY FS_CardinalityType
<1>2. Cardinality(S \cap T) = 0 BY FS_EmptySet
<1>3. Cardinality(S \cup T) = Cardinality(S) + Cardinality(T) - Cardinality(S \cap T) /\ IsFiniteSet(S \cup T)
  BY FS_Union
<1>4. QED BY <1>1, <1>2, <1>3
--------------------------------------------------------------------------------
(* Allocations come and go.                                                *)
LEMMA TakenIs ==
  ASSUME NEW A
  PROVE  \A b : b \in Taken(A) <=> \E a \in A : b \in Span(a.start, a.blocks)
BY DEF Taken

LEMMA OwnStart ==
  ASSUME NEW P, NEW A, AllocsApart(P, A), NEW a \in A
  PROVE  /\ a.pool \in PoolId /\ a.start \in Nat /\ a.blocks \in Nat /\ a.blocks > 0
         /\ a = [pool |-> a.pool, start |-> a.start, blocks |-> a.blocks]
         /\ a.start \in Span(a.start, a.blocks)
BY DEF AllocsApart, Span

LEMMA TakenInHeap ==
  ASSUME NEW P, NEW A, PoolsApart(P), AllocsApart(P, A)
  PROVE  /\ Taken(A) \subseteq Block
         /\ \A p \in PoolId : /\ Taken(Of(A, p)) = Taken(A) \cap Spn(P, p)
                              /\ AllocsApart(P, Of(A, p))
<1>1. ASSUME NEW b \in Taken(A) PROVE b \in Block
  <2>1. PICK a \in A : b \in Span(a.start, a.blocks) BY <1>1, TakenIs
  <2>2. a.pool \in PoolId /\ b \in Spn(P, a.pool) BY <2>1 DEF AllocsApart
  <2>3. QED BY <2>2 DEF PoolsApart
<1>2. ASSUME NEW p \in PoolId PROVE Taken(Of(A, p)) = Taken(A) \cap Spn(P, p)
  <2>1. ASSUME NEW b \in Taken(Of(A, p)) PROVE b \in Taken(A) \cap Spn(P, p)
    <3>1. PICK a \in Of(A, p) : b \in Span(a.start, a.blocks) BY <2>1, TakenIs
    <3>2. a \in A /\ a.pool = p BY <3>1 DEF Of
    <3>3. QED BY <3>1, <3>2, TakenIs DEF AllocsApart
  <2>2. ASSUME NEW b \in Taken(A) \cap Spn(P, p) PROVE b \in Taken(Of(A, p))
    <3>1. PICK a \in A : b \in Span(a.start, a.blocks) BY <2>2, TakenIs
    <3>2. a.pool \in PoolId /\ b \in Spn(P, a.pool) BY <3>1 DEF AllocsApart
    <3>3. a.pool = p BY <2>2, <3>2 DEF PoolsApart
    <3>4. a \in Of(A, p) BY <3>3 DEF Of
    <3>5. QED BY <3>1, <3>4, TakenIs
  <2>3. QED BY <2>1, <2>2
<1>3. \A p \in PoolId : AllocsApart(P, Of(A, p)) BY DEF AllocsApart, Of
<1>4. QED BY <1>1, <1>2, <1>3

(* Only mem_left of pool p differs.                                        *)
LeftOnly(P, P2, p) ==
  /\ P2 \in [PoolId -> [start : Nat, blocks : Nat, size : Nat, left : Nat]]
  /\ \A q \in PoolId : /\ P2[q].start = P[q].start /\ P2[q].blocks = P[q].blocks
                       /\ P2[q].size = P[q].size
                       /\ q # p => P2[q].left = P[q].left

LEMMA LeftOnlyApart ==
  ASSUME NEW P, NEW P2, NEW p \in PoolId, PoolsApart(P), LeftOnly(P, P2, p)
  PROVE  PoolsApart(P2) /\ \A q \in PoolId : Spn(P2, q) = Spn(P, q)
<1>1. \A q \in PoolId : Spn(P2, q) = Spn(P, q) BY DEF LeftOnly, Spn
<1>2. 0 \in PoolId BY MemoryAssumption DEF PoolId
<1>3. P2 \in [PoolId -> [start : Nat, blocks : Nat, size : Nat, left : Nat]]
  BY DEF LeftOnly
<1>4. \A q \in PoolId : /\ Spn(P2, q) \subseteq Block
                        /\ P2[q].blocks = BytesToBlocks(P2[q].size)
                        /\ P2[q].blocks <= HeapBlocks
  BY <1>1 DEF LeftOnly, PoolsApart
<1>5. \A q, r \in PoolId : q # r => Spn(P2, q) \cap Spn(P2, r) = {} BY <1>1 DEF PoolsApart
<1>6. P2[0].size = ObjectBlocks * BlockSize BY <1>2 DEF LeftOnly, PoolsApart
<1>7. QED BY <1>1, <1>3, <1>4, <1>5, <1>6 DEF PoolsApart

LEMMA ReserveIs ==
  ASSUME NEW P, PoolsApart(P), NEW p \in PoolId, NEW n \in Nat
  PROVE  /\ LeftOnly(P, Reserve(P, p, n), p) /\ LeftOnly(P, Release(P, p, n), p)
         /\ Reserve(P, p, n)[p].left = (P[p].left - n * BlockSize) % MemWidth
         /\ Release(P, p, n)[p].left = (P[p].left + n * BlockSize) % MemWidth
<1>1. /\ MemWidth \in Nat /\ MemWidth > 0 /\ BlockSize \in Nat
  BY MemoryAssumption
<1>2. P \in [PoolId -> [start : Nat, blocks : Nat, size : Nat, left : Nat]] BY DEF PoolsApart
<1>3. P[p].left \in Nat BY <1>2
<1> DEFINE x == (P[p].left - n * BlockSize) % MemWidth
           y == (P[p].left + n * BlockSize) % MemWidth
<1>4. n * BlockSize \in Nat BY <1>1
<1>5. x \in Nat /\ y \in Nat BY <1>1, <1>3, <1>4, Modulo
<1>6. Reserve(P, p, n) = [P EXCEPT ![p].left = x] BY DEF Reserve
<1>7. Release(P, p, n) = [P EXCEPT ![p].left = y] BY DEF Release
<1> HIDE DEF x, y
<1>8. LeftOnly(P, Reserve(P, p, n), p) /\ Reserve(P, p, n)[p].left = x
  BY <1>2, <1>5, <1>6 DEF LeftOnly
<1>9. LeftOnly(P, Release(P, p, n), p) /\ Release(P, p, n)[p].left = y
  BY <1>2, <1>5, <1>7 DEF LeftOnly
<1>10. QED BY <1>8, <1>9 DEF x, y

LEMMA LeftShift ==
  ASSUME NEW x \in Nat, NEW c \in Nat, NEW n \in Int, NEW c2 \in Nat, c2 = c + n,
         NEW l, l = LeftAt(x, c)
  PROVE  (l - n * BlockSize) % MemWidth = LeftAt(x, c2)
<1>1. MemWidth \in Nat /\ MemWidth > 0 /\ BlockSize \in Nat BY MemoryAssumption
<1> DEFINE y == x - BlockSize * c
           z == -(n * BlockSize)
<1>2. y \in Int /\ z \in Int /\ x - BlockSize * c2 = y + z BY <1>1
<1>3. y % MemWidth \in Int BY <1>1, <1>2, Modulo
<1>4. l - n * BlockSize = (y % MemWidth) + z BY <1>1, <1>3 DEF LeftAt
<1>5. ((y % MemWidth) + z) % MemWidth = (y + z) % MemWidth BY <1>1, <1>2, ModuloAdd
<1>6. QED BY <1>2, <1>4, <1>5 DEF LeftAt

(* MemAlloc takes the blocks from s, which were free, and writes the size. *)
Place(p, s, n) == [pool |-> p, start |-> s, blocks |-> n]
Fits(P, A, p, s, n) == s \in Nat /\ n \in Nat /\ n > 0 /\ Span(s, n) \subseteq Spn(P, p) \ Taken(A)
Put(h, h2, s, n) ==
  h2 \in [Block -> Nat] /\ h2[s] = n /\ \A b \in Block \ Span(s, n) : h2[b] = h[b]

LEMMA AddSound ==
  ASSUME NEW P, NEW h, NEW A, HeapInv(P, h, A), NEW p \in PoolId, NEW s, NEW n,
         Fits(P, A, p, s, n), NEW h2, Put(h, h2, s, n)
  PROVE  /\ HeapInv(Reserve(P, p, n), h2, A \cup {Place(p, s, n)})
         /\ Place(p, s, n) \notin A
         /\ Taken(A \cup {Place(p, s, n)}) = Taken(A) \cup Span(s, n)
<1> USE DEF Fits, Put
<1> DEFINE a == Place(p, s, n)
<1>0. a = [pool |-> p, start |-> s, blocks |-> n] BY DEF Place
<1> DEFINE P2 == Reserve(P, p, n)
           A2 == A \cup {a}
           S == Span(s, n)
<1>1. PoolsApart(P) /\ AllocsApart(P, A) /\ HeapHolds(h, A) /\ LeftIs(P, A) BY DEF HeapInv
<1>2. LeftOnly(P, P2, p) /\ P2[p].left = (P[p].left - n * BlockSize) % MemWidth BY <1>1, ReserveIs
<1> HIDE DEF P2
<1>3. PoolsApart(P2) /\ \A q \in PoolId : Spn(P2, q) = Spn(P, q) BY <1>1, <1>2, LeftOnlyApart
<1>4. a.pool = p /\ a.start = s /\ a.blocks = n BY <1>0
<1> HIDE DEF a
<1>5. s \in S BY DEF Span
<1>6. \A c \in A : c.start \in Span(c.start, c.blocks) /\ Span(c.start, c.blocks) \subseteq Taken(A)
  BY <1>1, OwnStart, TakenIs
<1>7. a \notin A BY <1>4, <1>5, <1>6
<1>8. Taken(A2) = Taken(A) \cup S BY <1>4 DEF Taken
<1>9. AllocsApart(P2, A2)
  <2>1. A2 \subseteq [pool : PoolId, start : Nat, blocks : Nat \ {0}] BY <1>0, <1>1 DEF AllocsApart
  <2>2. \A c \in A2 : Span(c.start, c.blocks) \subseteq Spn(P2, c.pool)
    BY <1>1, <1>3, <1>4, <2>1 DEF AllocsApart
  <2>3. ASSUME NEW c \in A2, NEW d \in A2, c # d
        PROVE  Span(c.start, c.blocks) \cap Span(d.start, d.blocks) = {}
    <3>1. CASE c \in A /\ d \in A BY <1>1, <2>3, <3>1 DEF AllocsApart
    <3>2. CASE c = a
      <4>1. d \in A BY <2>3, <3>2
      <4>2. QED BY <1>4, <1>6, <3>2, <4>1
    <3>3. CASE d = a
      <4>1. c \in A BY <2>3, <3>3
      <4>2. QED BY <1>4, <1>6, <3>3, <4>1
    <3>4. QED BY <2>3, <3>1, <3>2, <3>3
  <2>4. QED BY <2>1, <2>2, <2>3 DEF AllocsApart
<1>10. HeapHolds(h2, A2)
  <2>1. ASSUME NEW c \in A PROVE h2[c.start] = c.blocks
    <3>1. c.start \in Taken(A) BY <1>6
    <3>2. c.start \in Block \ S BY <1>1, <3>1, TakenInHeap
    <3>3. QED BY <1>1, <3>2 DEF HeapHolds
  <2>2. \A b \in Block \ Taken(A2) : h2[b] = 0 BY <1>1, <1>8 DEF HeapHolds
  <2>3. QED BY <1>4, <2>1, <2>2 DEF HeapHolds
<1>11. LeftIs(P2, A2)
  <2>1. ASSUME NEW q \in PoolId, q # p PROVE P2[q].left = Left(P2, A2, q)
    <3>1. Of(A2, q) = Of(A, q) BY <1>4, <2>1 DEF Of
    <3>2. Left(P2, A2, q) = Left(P, A, q) BY <1>2, <3>1 DEF LeftOnly, Left
    <3>3. QED BY <1>1, <1>2, <2>1, <3>2 DEF LeftOnly, LeftIs
  <2>2. P2[p].left = Left(P2, A2, p)
    <3> DEFINE c == Cardinality(Taken(Of(A, p)))
               c2 == Cardinality(Taken(Of(A2, p)))
    <3>1. Taken(Of(A, p)) = Taken(A) \cap Spn(P, p) /\ Taken(A) \subseteq Block
      BY <1>1, TakenInHeap
    <3>2. Taken(Of(A2, p)) = Taken(A2) \cap Spn(P2, p) BY <1>3, <1>9, TakenInHeap
    <3>3. Taken(Of(A2, p)) = Taken(Of(A, p)) \cup S BY <1>3, <1>8, <3>1, <3>2
    <3>4. IsFiniteSet(Taken(Of(A, p))) BY <3>1, BlocksFinite
    <3>5. IsFiniteSet(S) /\ Cardinality(S) = n BY SpanSize
    <3>6. Taken(Of(A, p)) \cap S = {} BY <3>1
    <3> HIDE DEF S, A2
    <3>7. c2 = c + n /\ c \in Nat /\ c2 \in Nat
      <4> DEFINE T == Taken(Of(A, p))
      <4>1. IsFiniteSet(T) /\ T \cap S = {} BY <3>4, <3>6
      <4> HIDE DEF T
      <4>2. Cardinality(T) \in Nat /\ Cardinality(T \cup S) = Cardinality(T) + n
        BY <3>5, <4>1, DisjointSum
      <4>3. c = Cardinality(T) /\ c2 = Cardinality(T \cup S) BY <3>3 DEF T
      <4>4. QED BY <4>2, <4>3
    <3> HIDE DEF c, c2
    <3>8. P[p].left = LeftAt(P[p].size, c) BY <1>1 DEF LeftIs, Left, c
    <3>9. P[p].size \in Nat BY <1>1 DEF PoolsApart
    <3> DEFINE x == P[p].size
               l == P[p].left
    <3>0. x \in Nat /\ l = LeftAt(x, c) BY <3>8, <3>9
    <3> HIDE DEF x, l
    <3>13. (l - n * BlockSize) % MemWidth = LeftAt(x, c2)
      BY <3>0, <3>7, LeftShift
    <3>10. P2[p].left = LeftAt(P[p].size, c2) BY <1>2, <3>13 DEF x, l
    <3>11. P2[p].size = P[p].size BY <1>2 DEF LeftOnly
    <3>12. QED BY <3>10, <3>11 DEF Left, c2
  <2>3. QED BY <2>1, <2>2 DEF LeftIs
<1>12. QED BY <1>3, <1>7, <1>8, <1>9, <1>10, <1>11 DEF HeapInv, P2, a

(* MemFree gives the blocks of a back and sets them to 0.                  *)
LEMMA RemoveSound ==
  ASSUME NEW P, NEW h, NEW A, HeapInv(P, h, A), NEW a \in A
  PROVE  /\ HeapInv(Release(P, a.pool, h[a.start]), Zero(h, a), A \ {a})
         /\ h[a.start] = a.blocks
<1> DEFINE n == a.blocks
           p == a.pool
           P2 == Release(P, p, n)
           h2 == Zero(h, a)
           A2 == A \ {a}
           S == Span(a.start, n)
<1>1. PoolsApart(P) /\ AllocsApart(P, A) /\ HeapHolds(h, A) /\ LeftIs(P, A) BY DEF HeapInv
<1>2. p \in PoolId /\ n \in Nat /\ a.start \in Nat /\ n > 0 BY <1>1, OwnStart
<1>3. h[a.start] = n BY <1>1 DEF HeapHolds
<1>4. h2 = [b \in Block |-> IF b \in S THEN 0 ELSE h[b]] BY <1>3 DEF Zero
<1>5. LeftOnly(P, P2, p) /\ P2[p].left = (P[p].left + n * BlockSize) % MemWidth
  BY <1>1, <1>2, ReserveIs
<1> HIDE DEF P2, h2, n, p
<1>6. PoolsApart(P2) /\ \A q \in PoolId : Spn(P2, q) = Spn(P, q)
  BY <1>1, <1>2, <1>5, LeftOnlyApart
<1>7. AllocsApart(P2, A2)
  <2>1. \A c \in A2 : c \in A /\ c.pool \in PoolId BY <1>1, OwnStart
  <2>2. QED BY <1>1, <1>6, <2>1 DEF AllocsApart
<1>8. Taken(A2) = Taken(A) \ S /\ S \subseteq Taken(A)
  <2>1. \A c \in A2 : Span(c.start, c.blocks) \cap S = {} BY <1>1 DEF AllocsApart, n
  <2>2. QED BY <2>1 DEF Taken, n
<1>9. HeapHolds(h2, A2)
  <2>1. h2 \in [Block -> Nat] BY <1>1, <1>4 DEF HeapHolds
  <2>2. ASSUME NEW c \in A2 PROVE h2[c.start] = c.blocks
    <3>1. c.start \in Taken(A2) BY <1>7, OwnStart, TakenIs
    <3>2. c.start \in Block \ S BY <1>1, <1>8, <3>1, TakenInHeap
    <3>3. QED BY <1>1, <1>4, <3>2 DEF HeapHolds
  <2>3. ASSUME NEW b \in Block \ Taken(A2) PROVE h2[b] = 0
    <3>1. b \in S \/ b \notin Taken(A) BY <1>8
    <3>2. QED BY <1>1, <1>4, <3>1 DEF HeapHolds
  <2>4. QED BY <2>1, <2>2, <2>3 DEF HeapHolds
<1>10. LeftIs(P2, A2)
  <2>1. ASSUME NEW q \in PoolId, q # p PROVE P2[q].left = Left(P2, A2, q)
    <3>1. Of(A2, q) = Of(A, q) BY <2>1 DEF Of, p
    <3>2. Left(P2, A2, q) = Left(P, A, q) BY <1>5, <3>1 DEF LeftOnly, Left
    <3>3. QED BY <1>1, <1>5, <2>1, <3>2 DEF LeftOnly, LeftIs
  <2>2. P2[p].left = Left(P2, A2, p)
    <3> DEFINE c == Cardinality(Taken(Of(A, p)))
               c2 == Cardinality(Taken(Of(A2, p)))
    <3>1. Taken(Of(A, p)) = Taken(A) \cap Spn(P, p) /\ Taken(A) \subseteq Block
      BY <1>1, <1>2, TakenInHeap
    <3>2. Taken(Of(A2, p)) = Taken(A2) \cap Spn(P2, p) /\ Taken(A2) \subseteq Block
      BY <1>2, <1>6, <1>7, TakenInHeap
    <3>3. S \subseteq Spn(P, p) BY <1>1 DEF AllocsApart, n, p
    <3>4. /\ Taken(Of(A, p)) = Taken(Of(A2, p)) \cup S /\ Taken(Of(A2, p)) \cap S = {}
      BY <1>2, <1>6, <1>8, <3>1, <3>2, <3>3
    <3>5. IsFiniteSet(Taken(Of(A2, p))) BY <3>2, BlocksFinite
    <3>6. IsFiniteSet(S) /\ Cardinality(S) = n BY <1>2, SpanSize
    <3> HIDE DEF S, A2
    <3>7. c = c2 + n /\ c \in Nat /\ c2 \in Nat
      <4> DEFINE T == Taken(Of(A2, p))
      <4>1. IsFiniteSet(T) /\ T \cap S = {} BY <3>4, <3>5
      <4> HIDE DEF T
      <4>2. Cardinality(T) \in Nat /\ Cardinality(T \cup S) = Cardinality(T) + n
        BY <3>6, <4>1, DisjointSum
      <4>3. c2 = Cardinality(T) /\ c = Cardinality(T \cup S) BY <3>4 DEF T
      <4>4. QED BY <1>2, <4>2, <4>3
    <3> DEFINE m == -n
    <3> HIDE DEF c, c2
    <3>0. m \in Int /\ c2 = c + m BY <1>2, <3>7
    <3> HIDE DEF m
    <3>8. P[p].left = LeftAt(P[p].size, c) BY <1>1, <1>2 DEF LeftIs, Left, c
    <3>9. P[p].size \in Nat /\ P[p].left \in Nat BY <1>1, <1>2 DEF PoolsApart
    <3>10. (P[p].left - m * BlockSize) % MemWidth = LeftAt(P[p].size, c2)
      <4> DEFINE x == P[p].size
                 l == P[p].left
      <4>1. x \in Nat /\ l = LeftAt(x, c) BY <3>8, <3>9
      <4> HIDE DEF x, l
      <4>2. (l - m * BlockSize) % MemWidth = LeftAt(x, c2)
        BY <3>0, <3>7, <4>1, LeftShift
      <4>3. QED BY <4>2 DEF x, l
    <3>11. P[p].left - m * BlockSize = P[p].left + n * BlockSize
      BY <1>2, <3>9, MemoryAssumption DEF m
    <3>12. P2[p].size = P[p].size BY <1>2, <1>5 DEF LeftOnly
    <3>13. QED BY <1>5, <3>10, <3>11, <3>12 DEF Left, c2
  <2>3. QED BY <2>1, <2>2 DEF LeftIs
<1>11. QED BY <1>3, <1>6, <1>7, <1>9, <1>10 DEF HeapInv, P2, h2, n, p
--------------------------------------------------------------------------------
(* A function that is defined step by step exists.                         *)
LEMMA StepsExist ==
  ASSUME NEW N \in Nat, NEW x \in Nat, NEW g \in [Nat \X Nat -> Nat]
  PROVE  \E f \in [0 .. N -> Nat] :
           \A k \in 0 .. N : f[k] = IF k = 0 THEN x ELSE g[<<k, f[k - 1]>>]
<1> DEFINE Steps(f, n) == \A k \in 0 .. n : f[k] = IF k = 0 THEN x ELSE g[<<k, f[k - 1]>>]
           E(n) == \E f \in [0 .. n -> Nat] : Steps(f, n)
           D == {n \in Nat : ~E(n)}
<1>1. SUFFICES D = {} OBVIOUS
<1>2. SUFFICES ASSUME D # {} PROVE FALSE OBVIOUS
<1>3. PICK n \in D : \A y \in D : n <= y
  <2> HIDE DEF D
  <2>1. D \subseteq Nat BY DEF D
  <2>2. QED BY <1>2, <2>1, LeastNat
<1>4. n # 0
  <2>1. [k \in 0 .. 0 |-> x] \in [0 .. 0 -> Nat] /\ Steps([k \in 0 .. 0 |-> x], 0) OBVIOUS
  <2>2. E(0) BY <2>1
  <2>3. QED BY <2>2
<1>5. n - 1 \in Nat /\ n - 1 \notin D
  <2>1. n \in Nat OBVIOUS
  <2> HIDE DEF D
  <2>2. QED BY <1>3, <1>4, <2>1
<1>6. PICK f \in [0 .. n - 1 -> Nat] : Steps(f, n - 1) BY <1>5
<1> DEFINE f2 == [k \in 0 .. n |-> IF k = n THEN g[<<n, f[n - 1]>>] ELSE f[k]]
<1>7. g[<<n, f[n - 1]>>] \in Nat BY <1>5
<1>8. f2 \in [0 .. n -> Nat] BY <1>7
<1>9. Steps(f2, n)
  <2> SUFFICES ASSUME NEW k \in 0 .. n
               PROVE  f2[k] = IF k = 0 THEN x ELSE g[<<k, f2[k - 1]>>]
    OBVIOUS
  <2>1. CASE k = n
    <3>1. f2[k - 1] = f[n - 1] BY <1>5, <2>1
    <3>2. f2[k] = g[<<n, f[n - 1]>>] BY <2>1
    <3>3. QED BY <1>4, <2>1, <3>1, <3>2
  <2>2. CASE k # n
    <3>1. k \in 0 .. n - 1 BY <2>2, <1>5
    <3>2. f2[k] = f[k] BY <2>2
    <3>3. k # 0 => f2[k - 1] = f[k - 1] BY <3>1
    <3>4. QED BY <1>6, <3>1, <3>2, <3>3
  <2>3. QED BY <2>1, <2>2
<1>10. E(n) BY <1>8, <1>9
<1>11. QED BY <1>3, <1>10

(* The places that MemAlloc comes to.                                      *)
LEMMA WalkSteps ==
  ASSUME HeapInv(pool, heap, allocs), NEW p \in PoolId
  PROVE  \E at \in [0 .. HeapBlocks -> Nat] :
           /\ Walk(p) = {at[k] : k \in 0 .. HeapBlocks} \cap PoolSpan(p)
           /\ at[0] = pool[p].start
           /\ \A k \in 1 .. HeapBlocks :
                at[k] = IF at[k - 1] \notin PoolSpan(p) THEN at[k - 1]
                        ELSE at[k - 1] + IF heap[at[k - 1]] = 0 THEN 1 ELSE heap[at[k - 1]]
<1> DEFINE N == HeapBlocks
           After(b) == IF b \notin PoolSpan(p) THEN b ELSE b + (IF heap[b] = 0 THEN 1 ELSE heap[b])
           Is(f) == f = [k \in 0 .. N |-> IF k = 0 THEN pool[p].start ELSE After(f[k - 1])]
           g == [z \in Nat \X Nat |-> After(z[2])]
           w == CHOOSE f : Is(f)
<1>1. N \in Nat BY MemoryAssumption
<1>2. pool[p].start \in Nat BY DEF HeapInv, PoolsApart
<1>3. \A b \in PoolSpan(p) : heap[b] \in Nat
  BY DEF HeapInv, PoolsApart, HeapHolds, PoolSpan, Spn
<1>4. \A b \in Nat : After(b) \in Nat BY <1>3
<1> HIDE DEF After
<1>5. g \in [Nat \X Nat -> Nat] BY <1>4
<1>6. PICK f \in [0 .. N -> Nat] :
        \A k \in 0 .. N : f[k] = IF k = 0 THEN pool[p].start ELSE g[<<k, f[k - 1]>>]
  <2> HIDE DEF g, N
  <2>1. QED BY <1>1, <1>2, <1>5, StepsExist
<1>7. Is(f)
  <2>1. ASSUME NEW k \in 0 .. N
        PROVE  f[k] = IF k = 0 THEN pool[p].start ELSE After(f[k - 1])
    <3>1. k # 0 => k - 1 \in 0 .. N BY <1>1
    <3>2. k # 0 => g[<<k, f[k - 1]>>] = After(f[k - 1]) BY <3>1
    <3>3. QED BY <1>6, <3>2
  <2>2. QED BY <2>1
<1>8. Is(w)
  <2>1. \E v : Is(v) BY <1>7
  <2> HIDE DEF Is
  <2>2. QED BY <2>1
<1>9. \A k \in 0 .. N : w[k] = IF k = 0 THEN pool[p].start ELSE After(w[k - 1])
  BY <1>8
<1>10. w = [k \in 0 .. N |-> IF k = 0 THEN pool[p].start ELSE After(w[k - 1])] BY <1>8
<1>11. Walk(p) = {w[k] : k \in 0 .. N} \cap PoolSpan(p)
  BY DEF Walk, After
<1> HIDE DEF w
<1>12. \A k \in 0 .. N : w[k] \in Nat
  <2> DEFINE D == {k \in 0 .. N : w[k] \notin Nat}
  <2>1. SUFFICES ASSUME D # {} PROVE FALSE OBVIOUS
  <2>2. PICK k \in D : \A y \in D : k <= y
    <3> HIDE DEF D
    <3>1. D \subseteq Nat BY DEF D
    <3>2. QED BY <2>1, <3>1, LeastNat
  <2>3. k # 0 BY <1>1, <1>2, <1>9
  <2>4. k - 1 \in 0 .. N /\ k - 1 \notin D BY <1>1, <2>2, <2>3
  <2>5. QED BY <1>4, <1>9, <2>2, <2>3, <2>4
<1>13. w \in [0 .. N -> Nat] BY <1>10, <1>12
<1>14. w[0] = pool[p].start BY <1>1, <1>9
<1>15. \A k \in 1 .. N : w[k] = After(w[k - 1]) BY <1>9
<1>16. QED BY <1>11, <1>13, <1>14, <1>15 DEF After

(* The walk comes to the allocations and the free blocks of the pool.      *)
LEMMA WalkIs ==
  ASSUME HeapInv(pool, heap, allocs), NEW p \in PoolId
  PROVE  Walk(p) = {b \in PoolSpan(p) :
                      \A a \in allocs : b \in Span(a.start, a.blocks) => b = a.start}
<1> DEFINE At(b) == \A a \in allocs : b \in Span(a.start, a.blocks) => b = a.start
           s == pool[p].start
           n == pool[p].blocks
<1>1. PICK at \in [0 .. HeapBlocks -> Nat] :
        /\ Walk(p) = {at[k] : k \in 0 .. HeapBlocks} \cap PoolSpan(p)
        /\ at[0] = s
        /\ \A k \in 1 .. HeapBlocks :
             at[k] = IF at[k - 1] \notin PoolSpan(p) THEN at[k - 1]
                     ELSE at[k - 1] + IF heap[at[k - 1]] = 0 THEN 1 ELSE heap[at[k - 1]]
  BY WalkSteps
<1>2. HeapBlocks \in Nat BY MemoryAssumption
<1>3. /\ s \in Nat /\ n \in Nat /\ n <= HeapBlocks /\ PoolSpan(p) \subseteq Block
      /\ PoolSpan(p) \subseteq Nat
      /\ \A b \in Nat : b \in PoolSpan(p) <=> s <= b /\ b < s + n
  BY DEF HeapInv, PoolsApart, PoolSpan, Spn, Span
<1>4. AllocsApart(pool, allocs) /\ HeapHolds(heap, allocs) BY DEF HeapInv
<1>5. ASSUME NEW a \in allocs
      PROVE  /\ a.start \in Nat /\ a.blocks \in Nat /\ a.blocks > 0 /\ heap[a.start] = a.blocks
             /\ \A b \in Nat : b \in Span(a.start, a.blocks) <=>
                               a.start <= b /\ b < a.start + a.blocks
  <2>1. a.start \in Nat /\ a.blocks \in Nat /\ a.blocks > 0 BY <1>4, OwnStart
  <2>2. heap[a.start] = a.blocks BY <1>4 DEF HeapHolds
  <2>3. QED BY <2>1, <2>2 DEF Span
<1>6. ASSUME NEW b \in PoolSpan(p), At(b), NEW d, d = b + IF heap[b] = 0 THEN 1 ELSE heap[b]
      PROVE  /\ d \in Nat /\ d > b /\ At(d)
             /\ \A c \in Nat : At(c) /\ c < d => c <= b
  <2>1. CASE \E a \in allocs : b \in Span(a.start, a.blocks)
    <3>1. PICK a \in allocs : b \in Span(a.start, a.blocks) BY <2>1
    <3>2. b = a.start /\ heap[b] = a.blocks /\ d = b + a.blocks BY <1>5, <1>6, <3>1
    <3>3. d \in Nat /\ d > b BY <1>5, <3>2
    <3>4. At(d)
      <4> SUFFICES ASSUME NEW c \in allocs, d \in Span(c.start, c.blocks), d # c.start
                   PROVE  FALSE
        OBVIOUS
      <4>1. d - 1 \in Span(c.start, c.blocks) BY <1>5, <3>3
      <4>2. d - 1 \in Span(a.start, a.blocks) BY <1>5, <3>2, <3>3
      <4>3. c = a BY <1>4, <4>1, <4>2 DEF AllocsApart
      <4>4. QED BY <1>5, <3>2, <4>3
    <3>5. ASSUME NEW c \in Nat, At(c), c < d, ~(c <= b) PROVE FALSE
      <4>1. c \in Span(a.start, a.blocks) BY <1>3, <1>5, <3>2, <3>5
      <4>2. c = a.start BY <3>5, <4>1
      <4>3. QED BY <1>3, <1>5, <3>2, <3>5, <4>2
    <3>6. QED BY <3>3, <3>4, <3>5
  <2>2. CASE \A a \in allocs : b \notin Span(a.start, a.blocks)
    <3>1. b \in Block \ Taken(allocs) BY <1>3, <2>2, TakenIs
    <3>2. heap[b] = 0 /\ d = b + 1 BY <1>4, <1>6, <3>1 DEF HeapHolds
    <3>3. b \in Nat BY <1>3
    <3>4. At(d)
      <4> SUFFICES ASSUME NEW c \in allocs, d \in Span(c.start, c.blocks), d # c.start
                   PROVE  FALSE
        OBVIOUS
      <4>1. b \in Span(c.start, c.blocks) BY <1>5, <3>2, <3>3
      <4>2. QED BY <2>2, <4>1
    <3>5. QED BY <3>2, <3>3, <3>4
  <2>3. QED BY <2>1, <2>2
<1>7. At(s) \/ n = 0
  <2> SUFFICES ASSUME NEW a \in allocs, s \in Span(a.start, a.blocks), s # a.start, n # 0
               PROVE  FALSE
    OBVIOUS
  <2>1. s \in PoolSpan(p) BY <1>3
  <2>2. a.pool \in PoolId /\ Span(a.start, a.blocks) \subseteq Spn(pool, a.pool)
    BY <1>4 DEF AllocsApart
  <2>3. a.pool = p BY <2>1, <2>2 DEF HeapInv, PoolsApart, PoolSpan, Spn
  <2>4. a.start \in PoolSpan(p) BY <1>5, <2>2, <2>3 DEF PoolSpan, Spn
  <2>5. QED BY <1>3, <1>5, <2>4
<1> HIDE DEF At
<1> DEFINE I(k) == /\ at[k] \in Nat /\ at[k] >= s
                   /\ at[k] \in PoolSpan(p) => At(at[k]) /\ at[k] >= s + k
                   /\ \A c \in PoolSpan(p) : At(c) /\ c < at[k] => \E j \in 0 .. k : at[j] = c
           D == {k \in 0 .. HeapBlocks : ~I(k)}
<1>8. D = {}
  <2>1. SUFFICES ASSUME D # {} PROVE FALSE OBVIOUS
  <2>2. PICK k \in D : \A y \in D : k <= y
    <3> HIDE DEF D
    <3>1. D \subseteq Nat BY DEF D
    <3>2. QED BY <2>1, <3>1, LeastNat
  <2>3. k \in 0 .. HeapBlocks /\ ~I(k) OBVIOUS
  <2>4. I(0) BY <1>1, <1>2, <1>3, <1>7
  <2>5. k # 0 BY <2>3, <2>4
  <2>6. k - 1 \in 0 .. HeapBlocks /\ I(k - 1)
    <3>1. k - 1 \in 0 .. HeapBlocks BY <1>2, <2>3, <2>5
    <3>2. k - 1 \notin D
      <4> HIDE DEF D
      <4>1. QED BY <2>2, <2>3
    <3>3. QED BY <3>1, <3>2
  <2> HIDE DEF D
  <2>7. k \in 1 .. HeapBlocks /\ at[k] \in Nat BY <1>2, <2>3, <2>5
  <2>8. CASE at[k - 1] \notin PoolSpan(p)
    <3>1. at[k] = at[k - 1] BY <1>1, <2>7, <2>8
    <3>2. I(k) BY <2>3, <2>6, <2>8, <3>1
    <3>3. QED BY <2>3, <3>2
  <2>9. CASE at[k - 1] \in PoolSpan(p)
    <3>1. at[k] = at[k - 1] + IF heap[at[k - 1]] = 0 THEN 1 ELSE heap[at[k - 1]]
      BY <1>1, <2>7, <2>9
    <3>2. /\ at[k] > at[k - 1] /\ At(at[k])
          /\ \A c \in Nat : At(c) /\ c < at[k] => c <= at[k - 1]
      BY <1>6, <2>6, <2>9, <3>1
    <3>3. at[k] >= s /\ at[k] >= s + k BY <1>3, <2>6, <2>7, <2>9, <3>2
    <3>4. ASSUME NEW c \in PoolSpan(p), At(c), c < at[k] PROVE \E j \in 0 .. k : at[j] = c
      <4>1. c \in Nat /\ c <= at[k - 1] BY <1>3, <3>2, <3>4
      <4>2. CASE c = at[k - 1] BY <2>6, <2>7, <4>2
      <4>3. CASE c < at[k - 1]
        <5>1. PICK j \in 0 .. k - 1 : at[j] = c BY <2>6, <3>4, <4>3
        <5>2. QED BY <2>7, <5>1
      <4>4. QED BY <2>6, <4>1, <4>2, <4>3
    <3>5. I(k) BY <2>7, <3>2, <3>3, <3>4
    <3>6. QED BY <2>3, <3>5
  <2>10. QED BY <2>8, <2>9
<1>9. \A k \in 0 .. HeapBlocks : I(k) BY <1>8
<1>10. ASSUME NEW c \in PoolSpan(p), At(c) PROVE c \in Walk(p)
  <2>1. I(HeapBlocks) BY <1>2, <1>9
  <2>2. at[HeapBlocks] \notin PoolSpan(p) BY <1>2, <1>3, <2>1
  <2>3. c < at[HeapBlocks] BY <1>2, <1>3, <2>1, <2>2
  <2>4. PICK j \in 0 .. HeapBlocks : at[j] = c BY <1>10, <2>1, <2>3
  <2>5. QED BY <1>1, <2>4
<1>11. ASSUME NEW c \in Walk(p) PROVE c \in PoolSpan(p) /\ At(c)
  BY <1>1, <1>9, <1>11
<1>12. QED BY <1>10, <1>11 DEF At

LEMMA FreeIs ==
  ASSUME HeapInv(pool, heap, allocs), NEW p \in PoolId
  PROVE  /\ Free(p) = PoolSpan(p) \ Taken(allocs)
         /\ {b \in Walk(p) : heap[b] # 0} = {a.start : a \in Of(allocs, p)}
<1>1. Walk(p) = {b \in PoolSpan(p) :
                   \A a \in allocs : b \in Span(a.start, a.blocks) => b = a.start}
  BY WalkIs
<1>2. PoolsApart(pool) /\ AllocsApart(pool, allocs) /\ HeapHolds(heap, allocs) BY DEF HeapInv
<1>3. \A a \in allocs : /\ heap[a.start] = a.blocks /\ a.blocks \in Nat /\ a.blocks > 0
                        /\ a.start \in Span(a.start, a.blocks)
  BY <1>2, OwnStart DEF HeapHolds
<1>4. \A b \in PoolSpan(p) \ Taken(allocs) : heap[b] = 0
  BY <1>2 DEF HeapHolds, PoolsApart, PoolSpan, Spn
<1>5. Free(p) = PoolSpan(p) \ Taken(allocs) BY <1>1, <1>3, <1>4, TakenIs DEF Free
<1>6. ASSUME NEW b \in Walk(p), heap[b] # 0 PROVE \E a \in Of(allocs, p) : b = a.start
  <2>1. b \in PoolSpan(p) /\ b \in Taken(allocs) BY <1>1, <1>4, <1>6
  <2>2. PICK a \in allocs : b \in Span(a.start, a.blocks) BY <2>1, TakenIs
  <2>3. b = a.start BY <1>1, <2>2
  <2>4. a.pool \in PoolId /\ b \in Spn(pool, a.pool) BY <1>2, <2>2 DEF AllocsApart
  <2>5. a.pool = p BY <1>2, <2>1, <2>4 DEF PoolsApart, PoolSpan, Spn
  <2>6. QED BY <2>3, <2>5 DEF Of
<1>7. ASSUME NEW a \in Of(allocs, p) PROVE a.start \in Walk(p) /\ heap[a.start] # 0
  <2>1. a \in allocs /\ a.pool = p BY DEF Of
  <2>2. a.start \in PoolSpan(p) BY <1>2, <1>3, <2>1 DEF AllocsApart, PoolSpan, Spn
  <2>3. \A c \in allocs : a.start \in Span(c.start, c.blocks) => c = a
    BY <1>2, <1>3, <2>1 DEF AllocsApart
  <2>4. QED BY <1>1, <1>3, <2>1, <2>2, <2>3
<1>8. QED BY <1>5, <1>6, <1>7
--------------------------------------------------------------------------------
(* What MemOsHeapFreeSpaceGet computes from the pools.                     *)
LEMMA SmallModulo ==
  ASSUME NEW W \in Nat, W > 0, NEW x \in 0 .. W - 1
  PROVE  x % W = x
<1>1. x = W * 0 + x /\ 0 \in Int /\ x \in Int OBVIOUS
<1>2. QED BY <1>1, Modulo

LEMMA BytesFit ==
  ASSUME NEW S, S \subseteq Block
  PROVE  /\ Cardinality(S) \in 0 .. HeapBlocks
         /\ BlockSize * Cardinality(S) \in Nat
         /\ BlockSize * Cardinality(S) <= HeapBlocks * BlockSize
         /\ BlockSize * Cardinality(S) \in 0 .. MemWidth - 1
<1>1. HeapBlocks \in Nat /\ BlockSize \in Nat /\ MemWidth \in Nat /\ HeapBlocks * BlockSize < MemWidth
  BY MemoryAssumption
<1>2. Cardinality(Block) = HeapBlocks
  <2>1. Cardinality(0 .. HeapBlocks - 1) = IF 0 > HeapBlocks - 1 THEN 0 ELSE HeapBlocks - 1 - 0 + 1
    BY <1>1, FS_Interval
  <2>2. QED BY <1>1, <2>1 DEF Block
<1> DEFINE c == Cardinality(S)
<1>3. c \in Nat /\ c <= HeapBlocks BY <1>2, BlocksFinite
<1> HIDE DEF c
<1>4. BlockSize * c \in Nat /\ BlockSize * c <= HeapBlocks * BlockSize BY <1>1, <1>3
<1>5. QED BY <1>1, <1>3, <1>4 DEF c

LEMMA BlocksTight ==
  ASSUME NEW n \in Nat
  PROVE  /\ n > 0 => BlockSize * BytesToBlocks(n) < n + BlockSize
         /\ n % BlockSize = 0 => BlockSize * BytesToBlocks(n) = n
<1> DEFINE B == BlockSize
           x == n + B - 1
           q == x \div B
<1>1. B \in Nat /\ B > 0 BY MemoryAssumption
<1>2. x \in Nat /\ q \in Int /\ x = B * q + (x % B) /\ x % B \in 0 .. B - 1 BY <1>1, Modulo
<1>3. BytesToBlocks(n) = q BY DEF BytesToBlocks
<1>4. B * q < n + B BY <1>1, <1>2
<1>5. ASSUME n % B = 0 PROVE B * q = n
  <2> DEFINE k == n \div B
  <2>1. k \in Int /\ n = B * k + (n % B) BY <1>1, Modulo
  <2>2. n = B * k BY <1>1, <1>5, <2>1
  <2> HIDE DEF k
  <2>3. k \in Nat BY <1>1, <2>1, <2>2
  <2>4. n = k * BlockSize BY <1>1, <2>2, <2>3
  <2>5. BytesToBlocks(k * BlockSize) = k BY <2>3, BlocksCover
  <2>6. q = k BY <1>3, <2>4, <2>5
  <2>7. QED BY <2>2, <2>6
<1>6. QED BY <1>3, <1>4, <1>5

(* What MemPoolFreeSpaceGet reports: mem_left wraps only when the last     *)
(* block of a pool is taken whose size is not in whole blocks.             *)
LEMMA FreeSpaceIs ==
  ASSUME HeapInv(pool, heap, allocs), NEW p \in PoolId, NEW y,
         y = BlockSize * Cardinality(Taken(Of(allocs, p))),
         pool[p].size % BlockSize = 0 \/ y < BlockSize * pool[p].blocks
  PROVE  pool[p].left = pool[p].size - y
<1> DEFINE c == Cardinality(Taken(Of(allocs, p)))
           x == pool[p].size
           n == pool[p].blocks
<1>1. PoolsApart(pool) /\ AllocsApart(pool, allocs) /\ LeftIs(pool, allocs) BY DEF HeapInv
<1>2. Taken(Of(allocs, p)) \subseteq Spn(pool, p) /\ Spn(pool, p) \subseteq Block
  BY <1>1, TakenInHeap DEF PoolsApart
<1>3. /\ x \in Nat /\ n \in Nat /\ n = BytesToBlocks(x) /\ n <= HeapBlocks
      /\ pool[p].start \in Nat
  BY <1>1 DEF PoolsApart
<1>4. Cardinality(Spn(pool, p)) = n BY <1>3, SpanSize DEF Spn
<1>5. c \in Nat /\ c <= n
  <2>1. /\ Cardinality(Taken(Of(allocs, p))) <= Cardinality(Spn(pool, p))
        /\ Cardinality(Taken(Of(allocs, p))) \in Nat
    BY <1>2, BlocksFinite
  <2>2. QED BY <1>4, <2>1
<1>6. pool[p].left = (x - BlockSize * c) % MemWidth BY <1>1 DEF LeftIs, Left, LeftAt
<1>7. BlockSize \in Nat /\ BlockSize > 0 /\ MemWidth \in Nat /\ HeapBlocks \in Nat
      /\ HeapBlocks * BlockSize < MemWidth
  BY MemoryAssumption
<1>8. /\ x > 0 => BlockSize * n < x + BlockSize
      /\ x % BlockSize = 0 => BlockSize * n = x
      /\ BlockSize * n >= x
      /\ x = 0 => n = 0
  BY <1>3, BlocksTight, BlocksCover
<1>9. y = BlockSize * c OBVIOUS
<1>10. x % BlockSize = 0 \/ y < BlockSize * n OBVIOUS
<1> HIDE DEF c, x, n
<1>11. BlockSize * n <= HeapBlocks * BlockSize BY <1>3, <1>7
<1>12. BlockSize * c <= BlockSize * n /\ BlockSize * c \in Nat BY <1>3, <1>5, <1>7
<1>13. y < BlockSize * n => BlockSize * c <= BlockSize * n - BlockSize
  <2>1. SUFFICES ASSUME BlockSize * c < BlockSize * n
                 PROVE  BlockSize * c <= BlockSize * n - BlockSize
    BY <1>9
  <2>2. c # n BY <2>1, <1>7, <1>12
  <2>3. c + 1 <= n BY <1>3, <1>5, <2>2
  <2>4. BlockSize * (c + 1) <= BlockSize * n BY <1>3, <1>5, <1>7, <2>3
  <2>5. BlockSize * (c + 1) = BlockSize * c + BlockSize BY <1>5, <1>7
  <2>6. BlockSize * n \in Nat BY <1>3, <1>7
  <2>7. QED BY <1>7, <1>12, <2>4, <2>5, <2>6
<1>14. BlockSize * n \in Nat BY <1>3, <1>7
<1>15. x - BlockSize * c \in 0 .. MemWidth - 1
  <2> DEFINE u == BlockSize * c
             v == BlockSize * n
             w == HeapBlocks * BlockSize
  <2>1. /\ u \in Nat /\ v \in Nat /\ u <= v /\ v <= w /\ w < MemWidth /\ v >= x
        /\ w \in Nat
    BY <1>7, <1>8, <1>11, <1>12, <1>14
  <2>2. x > 0 => v < x + BlockSize BY <1>8
  <2>3. x % BlockSize = 0 => v = x BY <1>8
  <2>4. y < v => u <= v - BlockSize BY <1>13
  <2>5. x % BlockSize = 0 \/ y < v BY <1>10
  <2>6. x = 0 => u = 0
    <3>1. x = 0 => c = 0 BY <1>3, <1>5, <1>8
    <3>2. QED BY <1>7, <3>1
  <2> HIDE DEF u, v, w
  <2>7. x - u \in 0 .. MemWidth - 1 BY ONLY <1>3, <1>7, <2>1, <2>2, <2>3, <2>4, <2>5, <2>6
  <2>8. QED BY <2>7 DEF u
<1>16. (x - BlockSize * c) % MemWidth = x - BlockSize * c
  <2> DEFINE d == x - BlockSize * c
  <2>1. d \in 0 .. MemWidth - 1 /\ MemWidth > 0 BY <1>7, <1>15
  <2> HIDE DEF d
  <2>2. d % MemWidth = d BY <1>7, <2>1, SmallModulo
  <2>3. QED BY <2>2 DEF d
<1>17. QED BY <1>6, <1>9, <1>16 DEF x

LEMMA UsedSpaceIs ==
  ASSUME HeapInv(pool, heap, allocs), NEW p \in PoolId
  PROVE  MemPoolUsedSpaceGet(p) = BlockSize * Cardinality(Taken(Of(allocs, p)))
<1> DEFINE x == pool[p].size
           y == BlockSize * Cardinality(Taken(Of(allocs, p)))
           m == (x - y) % MemWidth
           q == (x - y) \div MemWidth
<1>1. PoolsApart(pool) /\ AllocsApart(pool, allocs) /\ LeftIs(pool, allocs) BY DEF HeapInv
<1>2. Taken(Of(allocs, p)) \subseteq Block BY <1>1, TakenInHeap
<1>3. y \in 0 .. MemWidth - 1 BY <1>2, BytesFit
<1>4. MemWidth \in Nat /\ MemWidth > 0 BY MemoryAssumption
<1>5. x \in Nat BY <1>1 DEF PoolsApart
<1>6. pool[p].left = m BY <1>1 DEF LeftIs, Left, LeftAt
<1> HIDE DEF x, y
<1>7. q \in Int /\ m \in Int /\ x - y = MemWidth * q + m BY <1>3, <1>4, <1>5, Modulo
<1> HIDE DEF q, m
<1>8. x - m = MemWidth * q + y /\ x - m \in Int BY <1>3, <1>4, <1>5, <1>7
<1>9. y = (x - m) % MemWidth
  <2> DEFINE d == x - m
  <2>1. d = MemWidth * q + y /\ q \in Int /\ d \in Int /\ y \in 0 .. MemWidth - 1
    BY <1>3, <1>7, <1>8
  <2> HIDE DEF d
  <2>2. y = d % MemWidth BY ONLY <1>4, <2>1, Modulo
  <2>3. QED BY <2>2 DEF d
<1>10. QED BY <1>6, <1>9 DEF MemPoolUsedSpaceGet, x, y

LEMMA HeapFreeSpaceIs ==
  ASSUME HeapInv(pool, heap, allocs)
  PROVE  MemOsHeapFreeSpaceGet = HeapBlocks * BlockSize - BlockSize * Cardinality(Taken(allocs))
<1> DEFINE Used(p) == MemPoolUsedSpaceGet(p)
           Is(f) == f = [i \in 0 .. Pools |->
                           IF i = 0 THEN 0 ELSE (f[i - 1] + Used(i - 1)) % MemWidth]
           g == [z \in Nat \X Nat |-> IF z[1] \in 1 .. Pools THEN (z[2] + Used(z[1] - 1)) % MemWidth
                                      ELSE 0]
           w == CHOOSE f : Is(f)
           T(i) == UNION {Taken(Of(allocs, q)) : q \in 0 .. i - 1}
<1>1. /\ Pools \in Nat /\ Pools > 0 /\ MemWidth \in Nat /\ MemWidth > 0 /\ HeapBlocks \in Nat
      /\ BlockSize \in Nat /\ HeapBlocks * BlockSize \in Nat /\ HeapBlocks * BlockSize < MemWidth
  BY MemoryAssumption
<1>2. \A i \in 1 .. Pools : i - 1 \in PoolId BY <1>1 DEF PoolId
<1>3. PoolsApart(pool) /\ AllocsApart(pool, allocs) BY DEF HeapInv
<1>4. \A p \in PoolId : /\ Used(p) = BlockSize * Cardinality(Taken(Of(allocs, p)))
                        /\ Taken(Of(allocs, p)) \subseteq Block
                        /\ Taken(Of(allocs, p)) = Taken(allocs) \cap Spn(pool, p)
  BY <1>3, UsedSpaceIs, TakenInHeap
<1>5. \A p \in PoolId : Used(p) \in Nat BY <1>4, BytesFit
<1> HIDE DEF Used
<1>6. g \in [Nat \X Nat -> Nat]
  <2>1. ASSUME NEW z \in Nat \X Nat, z[1] \in 1 .. Pools PROVE (z[2] + Used(z[1] - 1)) % MemWidth \in Nat
    <3>1. z[2] + Used(z[1] - 1) \in Int BY <1>2, <1>5, <2>1
    <3>2. QED BY <1>1, <3>1, Modulo
  <2> DEFINE G(z) == IF z[1] \in 1 .. Pools THEN (z[2] + Used(z[1] - 1)) % MemWidth ELSE 0
  <2>2. \A z \in Nat \X Nat : G(z) \in Nat BY <2>1
  <2>3. g = [z \in Nat \X Nat |-> G(z)] OBVIOUS
  <2> HIDE DEF G, g
  <2>4. QED BY <2>2, <2>3
<1>7. PICK f \in [0 .. Pools -> Nat] :
        \A k \in 0 .. Pools : f[k] = IF k = 0 THEN 0 ELSE g[<<k, f[k - 1]>>]
  <2> HIDE DEF g
  <2>1. Pools \in Nat /\ 0 \in Nat BY <1>1
  <2>2. QED BY <1>6, <2>1, StepsExist, Zenon
<1>8. Is(f)
  <2>1. ASSUME NEW k \in 0 .. Pools
        PROVE  f[k] = IF k = 0 THEN 0 ELSE (f[k - 1] + Used(k - 1)) % MemWidth
    <3>1. k # 0 => k - 1 \in 0 .. Pools /\ k \in 1 .. Pools BY <1>1
    <3>2. k # 0 => g[<<k, f[k - 1]>>] = (f[k - 1] + Used(k - 1)) % MemWidth BY <3>1
    <3>3. QED BY <1>7, <3>2
  <2>2. QED BY <2>1
<1>9. Is(w)
  <2>1. \E v : Is(v) BY <1>8
  <2> HIDE DEF Is
  <2>2. QED BY <2>1
<1>10. \A i \in 0 .. Pools : w[i] = IF i = 0 THEN 0 ELSE (w[i - 1] + Used(i - 1)) % MemWidth
  BY <1>9
<1>11. MemOsHeapFreeSpaceGet = (HeapBlocks * BlockSize - w[Pools]) % MemWidth
  BY DEF MemOsHeapFreeSpaceGet, Used
<1> HIDE DEF w
<1>12. \A i \in 0 .. Pools : T(i) \subseteq Block
  <2>1. \A i \in 0 .. Pools : \A q \in 0 .. i - 1 : q \in PoolId BY <1>1 DEF PoolId
  <2>2. QED BY <1>4, <2>1
<1> DEFINE D == {i \in 0 .. Pools : w[i] # BlockSize * Cardinality(T(i))}
<1>13. D = {}
  <2>1. SUFFICES ASSUME D # {} PROVE FALSE OBVIOUS
  <2>2. PICK i \in D : \A y \in D : i <= y
    <3> HIDE DEF D
    <3>1. D \subseteq Nat BY DEF D
    <3>2. QED BY <2>1, <3>1, LeastNat
  <2>3. i \in 0 .. Pools /\ w[i] # BlockSize * Cardinality(T(i)) OBVIOUS
  <2>4. ASSUME i = 0 PROVE FALSE
    <3>1. T(i) = {} BY <2>4
    <3>2. Cardinality(T(i)) = 0 BY <3>1, FS_EmptySet
    <3>3. QED BY <1>1, <1>10, <2>3, <2>4, <3>2
  <2>5. i - 1 \in 0 .. Pools /\ i \in 1 .. Pools /\ i - 1 \in PoolId BY <1>1, <1>2, <2>3, <2>4
  <2>6. w[i - 1] = BlockSize * Cardinality(T(i - 1))
    <3>1. i - 1 \notin D
      <4> HIDE DEF D
      <4>1. QED BY <2>2, <2>5
    <3>2. QED BY <2>5, <3>1
  <2> DEFINE S == Taken(Of(allocs, i - 1))
             R == T(i - 1)
  <2>7. T(i) = R \cup S
    <3>1. 0 .. i - 1 = (0 .. i - 1 - 1) \cup {i - 1} BY <2>5
    <3>2. QED BY <3>1
  <2>8. R \cap S = {}
    <3>1. \A q \in 0 .. i - 1 - 1 : q \in PoolId /\ q # i - 1 BY <1>1, <2>5 DEF PoolId
    <3>2. \A q \in 0 .. i - 1 - 1 : Taken(Of(allocs, q)) \cap S = {}
      <4>1. \A q \in 0 .. i - 1 - 1 : Spn(pool, q) \cap Spn(pool, i - 1) = {}
        BY <1>3, <2>5, <3>1 DEF PoolsApart
      <4>2. \A q \in 0 .. i - 1 - 1 : Taken(Of(allocs, q)) \subseteq Spn(pool, q)
        BY <1>4, <3>1
      <4>3. S \subseteq Spn(pool, i - 1) BY <1>4, <2>5
      <4>4. QED BY <4>1, <4>2, <4>3
    <3>3. QED BY <3>2
  <2>9. R \subseteq Block /\ S \subseteq Block /\ R \cup S \subseteq Block BY <1>4, <1>12, <2>5
  <2>10. /\ w[i - 1] = BlockSize * Cardinality(R)
         /\ Used(i - 1) = BlockSize * Cardinality(S)
         /\ w[i] # BlockSize * Cardinality(R \cup S)
    BY <1>4, <2>3, <2>5, <2>6, <2>7
  <2> HIDE DEF R, S, T, D
  <2>11. /\ Cardinality(R) \in Nat /\ Cardinality(S) \in Nat
         /\ Cardinality(R \cup S) = Cardinality(R) + Cardinality(S)
    BY <2>8, <2>9, BlocksFinite, DisjointSum
  <2> DEFINE r == Cardinality(R)
             s == Cardinality(S)
  <2>12. BlockSize * (r + s) \in 0 .. MemWidth - 1 BY <2>9, <2>11, BytesFit
  <2>13. r \in Nat /\ s \in Nat BY <2>11
  <2>14. w[i - 1] + Used(i - 1) = BlockSize * (r + s)
    <3>1. w[i - 1] = BlockSize * r /\ Used(i - 1) = BlockSize * s BY <2>10
    <3> HIDE DEF r, s
    <3>2. QED BY <1>1, <2>13, <3>1
  <2>15. (BlockSize * (r + s)) % MemWidth = BlockSize * (r + s)
    <3> DEFINE x == BlockSize * (r + s)
    <3>1. x \in 0 .. MemWidth - 1 BY <2>12
    <3> HIDE DEF x
    <3>2. x % MemWidth = x BY <1>1, <3>1, SmallModulo
    <3>3. QED BY <3>2 DEF x
  <2>16. w[i] = (w[i - 1] + Used(i - 1)) % MemWidth BY <1>10, <2>3, <2>4
  <2>17. QED BY <2>10, <2>11, <2>14, <2>15, <2>16
<1>14. w[Pools] = BlockSize * Cardinality(T(Pools))
  <2> HIDE DEF T
  <2>1. Pools \in 0 .. Pools /\ Pools \notin D BY <1>1, <1>13
  <2>2. QED BY <2>1
<1>15. T(Pools) = Taken(allocs)
  <2>1. T(Pools) \subseteq Taken(allocs) BY <1>4 DEF PoolId
  <2>2. ASSUME NEW b \in Taken(allocs) PROVE b \in T(Pools)
    <3>1. PICK a \in allocs : b \in Span(a.start, a.blocks) BY <2>2, TakenIs
    <3>2. a \in Of(allocs, a.pool) /\ a.pool \in 0 .. Pools - 1
      BY <1>3, <3>1, OwnStart DEF Of, PoolId
    <3>3. b \in Taken(Of(allocs, a.pool)) BY <3>1, <3>2, TakenIs
    <3>4. QED BY <3>2, <3>3
  <2>3. QED BY <2>1, <2>2
<1> DEFINE u == BlockSize * Cardinality(Taken(allocs))
           v == HeapBlocks * BlockSize - u
<1>16. u \in Nat /\ u <= HeapBlocks * BlockSize BY <1>3, TakenInHeap, BytesFit
<1>17. w[Pools] = u BY <1>14, <1>15
<1> HIDE DEF u
<1>18. v \in 0 .. MemWidth - 1 BY <1>1, <1>16
<1>19. v % MemWidth = v
  <2> HIDE DEF v
  <2>1. QED BY <1>1, <1>18, SmallModulo
<1>20. QED BY <1>11, <1>17, <1>19 DEF u
--------------------------------------------------------------------------------
LEMMA InitMemoryInv == MemoryInit => MemoryInv
<1> SUFFICES ASSUME MemoryInit PROVE MemoryInv OBVIOUS
<1>1. /\ HeapBlocks \in Nat /\ ObjectBlocks \in 1 .. HeapBlocks /\ BlockSize \in Nat
      /\ MemWidth \in Nat /\ MemWidth > 0 /\ 0 \in PoolId /\ HeapBlocks * BlockSize < MemWidth
  BY MemoryAssumption DEF PoolId
<1> DEFINE x == ObjectBlocks * BlockSize
<1>2. x \in Nat /\ x <= HeapBlocks * BlockSize BY <1>1
<1>3. x \in 0 .. MemWidth - 1 BY <1>1, <1>2
<1>4. BytesToBlocks(x) = ObjectBlocks /\ BytesToBlocks(0) = 0 BY <1>1, BlocksCover
<1>5. /\ pool \in [PoolId -> [start : Nat, blocks : Nat, size : Nat, left : Nat]]
      /\ pool[0] = [start |-> 0, blocks |-> ObjectBlocks, size |-> x, left |-> x]
      /\ \A p \in PoolId \ {0} : pool[p] = NoPool
  <2>1. NoPool \in [start : Nat, blocks : Nat, size : Nat, left : Nat] BY DEF NoPool
  <2> DEFINE o == [start |-> 0, blocks |-> ObjectBlocks, size |-> x, left |-> x]
  <2>2. o \in [start : Nat, blocks : Nat, size : Nat, left : Nat] BY <1>1, <1>2
  <2>3. pool = [p \in PoolId |-> IF p = 0 THEN o ELSE NoPool] BY DEF MemoryInit
  <2> HIDE DEF o
  <2>4. /\ pool \in [PoolId -> [start : Nat, blocks : Nat, size : Nat, left : Nat]]
        /\ pool[0] = o /\ \A p \in PoolId \ {0} : pool[p] = NoPool
    BY <1>1, <2>1, <2>2, <2>3
  <2>5. QED BY <2>4 DEF o
<1> HIDE DEF x
<1>6. \A p \in PoolId \ {0} : Spn(pool, p) = {} /\ pool[p].blocks = 0 /\ pool[p].size = 0 /\ pool[p].left = 0
  BY <1>5 DEF Spn, Span, NoPool
<1>7. Spn(pool, 0) \subseteq Block BY <1>1, <1>5 DEF Spn, Span, Block
<1>8. PoolsApart(pool)
  <2>1. \A p \in PoolId : /\ Spn(pool, p) \subseteq Block
                          /\ pool[p].blocks = BytesToBlocks(pool[p].size)
                          /\ pool[p].blocks <= HeapBlocks
    BY <1>1, <1>4, <1>5, <1>6, <1>7
  <2>2. \A p, q \in PoolId : p # q => Spn(pool, p) \cap Spn(pool, q) = {} BY <1>6
  <2>3. QED BY <1>5, <2>1, <2>2 DEF PoolsApart, x
<1>9. allocs = {} /\ AllocsApart(pool, allocs) BY DEF MemoryInit, AllocsApart
<1>10. HeapHolds(heap, allocs) BY DEF MemoryInit, HeapHolds
<1>11. LeftIs(pool, allocs)
  <2>1. ASSUME NEW p \in PoolId PROVE Left(pool, allocs, p) = pool[p].size % MemWidth
    <3>1. Taken(Of(allocs, p)) = {} BY <1>9 DEF Taken, Of
    <3>2. Cardinality(Taken(Of(allocs, p))) = 0 BY <3>1, FS_EmptySet
    <3>3. pool[p].size \in Nat BY <1>5
    <3>4. QED BY <1>1, <3>2, <3>3 DEF Left, LeftAt
  <2>2. x % MemWidth = x /\ 0 % MemWidth = 0 BY <1>1, <1>3, SmallModulo
  <2>3. QED BY <1>5, <1>6, <2>1, <2>2 DEF LeftIs
<1>12. job.pc = "none" BY DEF MemoryInit, NoJob
<1>13. ModeInv BY <1>12 DEF MemoryInit, NoJob, ModeInv
<1>14. JobInv BY <1>12 DEF JobInv
<1>15. HangsWhenFull BY DEF MemoryInit, HangsWhenFull
<1>16. QED BY <1>8, <1>9, <1>10, <1>11, <1>13, <1>14, <1>15 DEF MemoryInv, HeapInv

(* A pool comes, goes or is formatted: it has no allocations afterwards.   *)
LEMMA PoolSound ==
  ASSUME NEW P, NEW h, NEW A, HeapInv(P, h, A), NEW p \in PoolId,
         NEW P2, PoolsApart(P2), \A q \in PoolId \ {p} : P2[q] = P[q], P2[p].left = P2[p].size,
         NEW h2, h2 = [b \in Block |-> IF b \in Spn(P, p) THEN 0 ELSE h[b]],
         NEW A2, A2 = {a \in A : a.pool # p}
  PROVE  HeapInv(P2, h2, A2)
<1>1. PoolsApart(P) /\ AllocsApart(P, A) /\ HeapHolds(h, A) /\ LeftIs(P, A) BY DEF HeapInv
<1>2. \A q \in PoolId \ {p} : Spn(P2, q) = Spn(P, q) BY DEF Spn
<1>3. AllocsApart(P2, A2)
  <2>1. \A a \in A2 : a \in A /\ a.pool \in PoolId \ {p} BY <1>1 DEF AllocsApart
  <2>2. QED BY <1>1, <1>2, <2>1 DEF AllocsApart
<1>4. HeapHolds(h2, A2)
  <2>1. h2 \in [Block -> Nat] BY <1>1 DEF HeapHolds
  <2>2. ASSUME NEW a \in A2 PROVE h2[a.start] = a.blocks
    <3>1. a \in A /\ a.pool \in PoolId \ {p} BY <1>1 DEF AllocsApart
    <3>2. a.start \in Spn(P, a.pool) BY <1>1, <3>1, OwnStart DEF AllocsApart
    <3>3. a.start \in Block /\ a.start \notin Spn(P, p) BY <1>1, <3>1, <3>2 DEF PoolsApart
    <3>4. QED BY <1>1, <3>1, <3>3 DEF HeapHolds
  <2>3. ASSUME NEW b \in Block \ Taken(A2), b \notin Spn(P, p) PROVE h2[b] = 0
    <3>1. b \notin Taken(A)
      <4> SUFFICES ASSUME b \in Taken(A) PROVE FALSE OBVIOUS
      <4>1. PICK a \in A : b \in Span(a.start, a.blocks) BY TakenIs
      <4>2. a.pool # p BY <1>1, <2>3, <4>1 DEF AllocsApart
      <4>3. QED BY <2>3, <4>1, <4>2, TakenIs
    <3>2. QED BY <1>1, <2>3, <3>1 DEF HeapHolds
  <2>4. QED BY <2>1, <2>2, <2>3 DEF HeapHolds
<1>5. LeftIs(P2, A2)
  <2>1. ASSUME NEW q \in PoolId, q # p PROVE P2[q].left = Left(P2, A2, q)
    <3>1. Of(A2, q) = Of(A, q) BY <2>1 DEF Of
    <3>2. QED BY <1>1, <2>1, <3>1 DEF LeftIs, Left
  <2>2. P2[p].left = Left(P2, A2, p)
    <3> DEFINE x == P2[p].size
               n == P2[p].blocks
    <3>1. x \in Nat /\ n \in Nat /\ n <= HeapBlocks /\ n = BytesToBlocks(x) BY DEF PoolsApart
    <3>2. BlockSize * n >= x BY <3>1, BlocksCover
    <3>3. /\ BlockSize \in Nat /\ HeapBlocks \in Nat /\ MemWidth \in Nat
          /\ HeapBlocks * BlockSize < MemWidth /\ MemWidth > 0
      BY MemoryAssumption
    <3>4. x \in 0 .. MemWidth - 1
      <4> HIDE DEF x, n
      <4>1. BlockSize * n <= HeapBlocks * BlockSize BY <3>1, <3>3
      <4>2. QED BY <3>1, <3>2, <3>3, <4>1
    <3>5. Taken(Of(A2, p)) = {} BY DEF Taken, Of
    <3>6. Cardinality(Taken(Of(A2, p))) = 0 BY <3>5, FS_EmptySet
    <3>7. x - BlockSize * 0 = x BY <3>1, <3>3
    <3>8. Left(P2, A2, p) = x % MemWidth BY <3>6, <3>7 DEF Left, LeftAt
    <3> HIDE DEF x
    <3>9. x % MemWidth = x BY <3>3, <3>4, SmallModulo
    <3>10. QED BY <3>8, <3>9 DEF x
  <2>3. QED BY <2>1, <2>2 DEF LeftIs
<1>6. QED BY <1>3, <1>4, <1>5 DEF HeapInv
--------------------------------------------------------------------------------
(* Each operation keeps the invariant.                                     *)
LEMMA TaskFrame ==
  ASSUME ModeInv, Idle, UNCHANGED <<modeVars, job, hung>>
  PROVE  ModeInv' /\ JobInv' /\ HangsWhenFull'
<1>1. job.pc = "none" /\ hung = Nil /\ job' = job /\ hung' = hung /\ flag' = flag /\ nest' = nest
  BY DEF Idle, modeVars
<1>2. ModeInv' BY <1>1 DEF ModeInv
<1>3. JobInv' BY <1>1 DEF JobInv
<1>4. HangsWhenFull' BY <1>1 DEF HangsWhenFull
<1>5. QED BY <1>2, <1>3, <1>4

LEMMA CreateStep ==
  ASSUME MemoryInv, NEW size \in PoolSize, MemPoolCreate(size)
  PROVE  MemoryInv'
<1> DEFINE unused == {p \in PoolId : pool[p].size = 0}
           n == BytesToBlocks(size)
           S == Block \ UNION {PoolSpan(p) : p \in PoolId}
           s == FirstFit(S, n)
           q == Min(unused)
           new == [start |-> s, blocks |-> n, size |-> size, left |-> size]
<1>1. /\ TaskCall /\ unused # {} /\ s # Nil /\ pool' = [pool EXCEPT ![q] = new]
      /\ heap' = heap /\ allocs' = allocs
  BY DEF MemPoolCreate
<1>2. HeapInv(pool, heap, allocs) /\ ModeInv BY DEF MemoryInv
<1>3. PoolsApart(pool) /\ AllocsApart(pool, allocs) /\ HeapHolds(heap, allocs) BY <1>2 DEF HeapInv
<1>4. /\ size \in Nat /\ size > 0 /\ HeapBlocks \in Nat /\ PoolId \subseteq Nat /\ 0 \in PoolId
      /\ Block \subseteq Nat /\ ObjectBlocks \in Nat \ {0} /\ BlockSize \in Nat \ {0}
  BY MemoryAssumption DEF PoolId, Block
<1>5. n \in Nat /\ BytesToBlocks(0) = 0 BY <1>4, BlocksCover
<1>6. q \in PoolId /\ pool[q].size = 0
  <2>1. unused \subseteq Nat BY <1>4
  <2>2. q \in unused
    <3> HIDE DEF unused
    <3>1. QED BY <1>1, <2>1, LeastNat
  <2>3. QED BY <2>2
<1> HIDE DEF unused, q
<1>7. s \in Nat /\ Span(s, n) \subseteq S
  <2>1. S \subseteq Nat BY <1>4
  <2> HIDE DEF S, n
  <2>2. QED BY <1>1, <1>5, <2>1, FirstFitIs
<1>8. Spn(pool, q) = {}
  <2>1. pool[q].blocks = 0 /\ pool[q].start \in Nat BY <1>3, <1>5, <1>6 DEF PoolsApart
  <2>2. QED BY <2>1 DEF Spn, Span
<1>9. n <= HeapBlocks
  <2>1. Span(s, n) \subseteq Block BY <1>7
  <2>2. Cardinality(Span(s, n)) = n BY <1>5, <1>7, SpanSize
  <2>3. QED BY <2>1, <2>2, BytesFit
<1>10. q # 0
  <2>1. ObjectBlocks * BlockSize # 0 BY <1>4
  <2>2. QED BY <1>3, <1>6, <2>1 DEF PoolsApart
<1> HIDE DEF s, n
<1>11. /\ pool'[q] = new /\ \A p \in PoolId \ {q} : pool'[p] = pool[p]
       /\ pool' \in [PoolId -> [start : Nat, blocks : Nat, size : Nat, left : Nat]]
  BY <1>1, <1>3, <1>4, <1>5, <1>6, <1>7 DEF PoolsApart
<1>12. Spn(pool', q) = Span(s, n) BY <1>11 DEF Spn
<1>13. \A p \in PoolId \ {q} : Spn(pool', p) = PoolSpan(p) /\ Spn(pool', p) = Spn(pool, p)
  BY <1>11 DEF Spn, PoolSpan
<1>14. PoolsApart(pool')
  <2>1. \A p \in PoolId : /\ Spn(pool', p) \subseteq Block
                          /\ pool'[p].blocks = BytesToBlocks(pool'[p].size)
                          /\ pool'[p].blocks <= HeapBlocks
    BY <1>3, <1>7, <1>9, <1>11, <1>12, <1>13 DEF PoolsApart, n
  <2>2. ASSUME NEW p \in PoolId, NEW r \in PoolId, p # r PROVE Spn(pool', p) \cap Spn(pool', r) = {}
    <3>1. CASE p # q /\ r # q BY <1>3, <1>13, <2>2, <3>1 DEF PoolsApart
    <3>2. CASE p = q BY <1>7, <1>12, <1>13, <2>2, <3>2
    <3>3. CASE r = q BY <1>7, <1>12, <1>13, <2>2, <3>3
    <3>4. QED BY <3>1, <3>2, <3>3
  <2>3. pool'[0].size = ObjectBlocks * BlockSize BY <1>3, <1>4, <1>10, <1>11 DEF PoolsApart
  <2>4. QED BY <1>11, <2>1, <2>2, <2>3 DEF PoolsApart
<1>15. pool'[q].left = pool'[q].size BY <1>11
<1>16. heap' = [b \in Block |-> IF b \in Spn(pool, q) THEN 0 ELSE heap[b]]
  BY <1>1, <1>3, <1>8 DEF HeapHolds
<1>17. allocs' = {a \in allocs : a.pool # q}
  <2>1. \A a \in allocs : a.start \in Spn(pool, a.pool) BY <1>3, OwnStart DEF AllocsApart
  <2>2. QED BY <1>1, <1>8, <2>1
<1>18. HeapInv(pool', heap', allocs')
  BY <1>2, <1>6, <1>11, <1>14, <1>15, <1>16, <1>17, PoolSound
<1>19. ModeInv' /\ JobInv' /\ HangsWhenFull' BY <1>1, <1>2, TaskFrame DEF TaskCall
<1>20. QED BY <1>18, <1>19 DEF MemoryInv

LEMMA FormatStep ==
  ASSUME MemoryInv, NEW p \in PoolId, MemPoolFormat(p) \/ MemPoolDelete(p)
  PROVE  MemoryInv'
<1>1. TaskCall /\ p # 0 /\ Format(p) BY DEF MemPoolFormat, MemPoolDelete, Format
<1>2. HeapInv(pool, heap, allocs) /\ ModeInv BY DEF MemoryInv
<1>3. PoolsApart(pool) BY <1>2 DEF HeapInv
<1>4. /\ heap' = [b \in Block |-> IF b \in Spn(pool, p) THEN 0 ELSE heap[b]]
      /\ allocs' = {a \in allocs : a.pool # p}
  BY <1>1 DEF Format, PoolSpan, Spn
<1>5. 0 \in PoolId /\ HeapBlocks \in Nat BY MemoryAssumption DEF PoolId
<1>6. /\ PoolsApart(pool') /\ \A q \in PoolId \ {p} : pool'[q] = pool[q]
      /\ pool'[p].left = pool'[p].size
  <2>1. CASE MemPoolFormat(p)
    <3>1. pool' = [pool EXCEPT ![p].left = pool[p].size] BY <2>1 DEF MemPoolFormat, Refill
    <3>2. LeftOnly(pool, pool', p) /\ pool'[p].left = pool[p].size
      BY <1>3, <3>1 DEF LeftOnly, PoolsApart
    <3>3. PoolsApart(pool') BY <1>3, <3>2, LeftOnlyApart
    <3>4. \A q \in PoolId \ {p} : pool'[q] = pool[q] BY <1>3, <3>1 DEF PoolsApart
    <3>5. pool'[p].size = pool[p].size BY <3>2 DEF LeftOnly
    <3>6. QED BY <3>2, <3>3, <3>4, <3>5
  <2>2. CASE MemPoolDelete(p)
    <3>1. pool' = [pool EXCEPT ![p] = NoPool] BY <2>2 DEF MemPoolDelete
    <3>2. NoPool \in [start : Nat, blocks : Nat, size : Nat, left : Nat] BY DEF NoPool
    <3>3. /\ pool' \in [PoolId -> [start : Nat, blocks : Nat, size : Nat, left : Nat]]
          /\ pool'[p] = NoPool /\ \A q \in PoolId \ {p} : pool'[q] = pool[q]
      BY <1>3, <3>1, <3>2 DEF PoolsApart
    <3>4. Spn(pool', p) = {} BY <3>3 DEF Spn, Span, NoPool
    <3>5. \A q \in PoolId \ {p} : Spn(pool', q) = Spn(pool, q) BY <3>3 DEF Spn
    <3>6. pool'[p].blocks = 0 /\ pool'[p].size = 0 /\ pool'[p].left = 0 BY <3>3 DEF NoPool
    <3>7. BytesToBlocks(0) = 0 BY BlocksCover
    <3>8. \A q \in PoolId : /\ Spn(pool', q) \subseteq Block
                            /\ pool'[q].blocks = BytesToBlocks(pool'[q].size)
                            /\ pool'[q].blocks <= HeapBlocks
      BY <1>3, <1>5, <3>3, <3>4, <3>5, <3>6, <3>7 DEF PoolsApart
    <3>9. \A q, r \in PoolId : q # r => Spn(pool', q) \cap Spn(pool', r) = {}
      BY <1>3, <3>4, <3>5 DEF PoolsApart
    <3>10. pool'[0].size = ObjectBlocks * BlockSize BY <1>1, <1>3, <1>5, <3>3 DEF PoolsApart
    <3>11. QED BY <3>3, <3>6, <3>8, <3>9, <3>10 DEF PoolsApart
  <2>3. QED BY <2>1, <2>2
<1>7. HeapInv(pool', heap', allocs') BY <1>2, <1>4, <1>6, PoolSound
<1>8. ModeInv' /\ JobInv' /\ HangsWhenFull' BY <1>1, <1>2, TaskFrame DEF TaskCall
<1>9. QED BY <1>7, <1>8 DEF MemoryInv

LEMMA WriteStep ==
  ASSUME MemoryInv, NEW a \in allocs, Write(a)
  PROVE  MemoryInv'
<1>1. HeapInv(pool, heap, allocs) /\ ModeInv BY DEF MemoryInv
<1>2. AllocsApart(pool, allocs) /\ HeapHolds(heap, allocs) BY <1>1 DEF HeapInv
<1> DEFINE S == Span(a.start, a.blocks) \ {a.start}
<1>3. /\ Idle /\ heap' = [b \in Block |-> IF b \in S THEN Word ELSE heap[b]]
      /\ pool' = pool /\ allocs' = allocs /\ UNCHANGED <<modeVars, job, hung>>
  BY DEF Write
<1>4. \A c \in allocs : c.start \in Span(c.start, c.blocks) /\ c.start \in Block
  <2>1. \A c \in allocs : c.start \in Span(c.start, c.blocks) BY <1>2, OwnStart
  <2>2. QED BY <1>1, <1>2, <2>1, TakenIs, TakenInHeap DEF HeapInv
<1>5. \A c \in allocs : c.start \notin S BY <1>2, <1>4 DEF AllocsApart
<1>6. S \subseteq Taken(allocs) BY TakenIs
<1> HIDE DEF S
<1>7. HeapHolds(heap', allocs')
  <2>1. heap' \in [Block -> Nat] BY <1>2, <1>3 DEF HeapHolds, Word
  <2>2. \A c \in allocs : heap'[c.start] = c.blocks BY <1>2, <1>3, <1>4, <1>5 DEF HeapHolds
  <2>3. \A b \in Block \ Taken(allocs) : heap'[b] = 0 BY <1>2, <1>3, <1>6 DEF HeapHolds
  <2>4. QED BY <1>3, <2>1, <2>2, <2>3 DEF HeapHolds
<1>8. HeapInv(pool', heap', allocs') BY <1>1, <1>3, <1>7 DEF HeapInv
<1>9. ModeInv' /\ JobInv' /\ HangsWhenFull' BY <1>1, <1>3, TaskFrame
<1>10. QED BY <1>8, <1>9 DEF MemoryInv

(* MemAlloc finds blocks of the pool that are in no allocation.            *)
LEMMA MemAllocIs ==
  ASSUME HeapInv(pool, heap, allocs), NEW p \in PoolId, NEW size \in Request, NEW mode,
         NEW s, s = MemAlloc(p, size, mode), s # Nil
  PROVE  /\ s \in Nat /\ Blocks(size) \in Nat /\ Blocks(size) > 0
         /\ s = FirstFit(Free(p), Blocks(size))
         /\ Span(s, Blocks(size)) \subseteq Spn(pool, p) \ Taken(allocs) /\ s \in Span(s, Blocks(size))
<1>1. size \in Nat /\ size > 0 /\ SizeBytes \in Nat BY MemoryAssumption
<1>2. Blocks(size) \in Nat /\ Blocks(size) > 0 BY <1>1, BlocksCover DEF Blocks
<1>3. s = FirstFit(Free(p), Blocks(size)) BY DEF MemAlloc
<1>4. Free(p) = PoolSpan(p) \ Taken(allocs) BY FreeIs
<1>5. PoolSpan(p) \subseteq Nat BY DEF HeapInv, PoolsApart, PoolSpan, Spn, Block
<1>6. s \in Nat /\ Span(s, Blocks(size)) \subseteq Free(p)
  <2>1. Free(p) \subseteq Nat BY <1>4, <1>5
  <2>2. QED BY <1>2, <1>3, <2>1, FirstFitIs
<1>7. s \in Span(s, Blocks(size)) BY <1>2, <1>6 DEF Span
<1>8. QED BY <1>2, <1>3, <1>4, <1>6, <1>7 DEF PoolSpan, Spn

LEMMA UserAllocStep ==
  ASSUME MemoryInv, NEW p \in PoolId, NEW size \in Request, UserAlloc(p, size)
  PROVE  MemoryInv'
<1> DEFINE s == MemAlloc(p, size, flag)
           n == Blocks(size)
<1>1. HeapInv(pool, heap, allocs) /\ ModeInv BY DEF MemoryInv
<1>2. /\ TaskCall /\ s # Nil /\ heap' = [heap EXCEPT ![s] = n] /\ pool' = Reserve(pool, p, n)
      /\ allocs' = allocs \cup {Alloc(p, s, size)}
  BY DEF UserAlloc
<1>3. /\ s \in Nat /\ n \in Nat /\ n > 0 /\ s \in Span(s, n)
      /\ Span(s, n) \subseteq Spn(pool, p) \ Taken(allocs)
  BY <1>1, <1>2, MemAllocIs
<1>4. Alloc(p, s, size) = Place(p, s, n) BY DEF Alloc, Place
<1>5. heap \in [Block -> Nat] /\ s \in Block BY <1>1, <1>3 DEF HeapInv, HeapHolds, PoolsApart
<1> HIDE DEF s, n
<1>6. /\ heap' \in [Block -> Nat] /\ heap'[s] = n
      /\ \A b \in Block \ Span(s, n) : heap'[b] = heap[b]
  BY <1>2, <1>3, <1>5
<1>7. HeapInv(pool', heap', allocs')
  <2>1. Fits(pool, allocs, p, s, n) /\ Put(heap, heap', s, n) BY <1>3, <1>6 DEF Fits, Put
  <2>2. HeapInv(Reserve(pool, p, n), heap', allocs \cup {Place(p, s, n)}) BY <1>1, <2>1, AddSound
  <2>3. QED BY <1>2, <1>4, <2>2
<1>8. ModeInv' /\ JobInv' /\ HangsWhenFull' BY <1>1, <1>2, TaskFrame DEF TaskCall
<1>9. QED BY <1>7, <1>8 DEF MemoryInv

LEMMA UserFreeStep ==
  ASSUME MemoryInv, NEW a \in allocs, UserFree(a)
  PROVE  MemoryInv'
<1>1. HeapInv(pool, heap, allocs) /\ ModeInv BY DEF MemoryInv
<1>2. HeapInv(pool', heap', allocs') BY <1>1, RemoveSound DEF UserFree
<1>3. ModeInv' /\ JobInv' /\ HangsWhenFull' BY <1>1, TaskFrame DEF UserFree, TaskCall
<1>4. QED BY <1>2, <1>3 DEF MemoryInv

(* MemReAlloc: the new allocation is there before the old one is freed,    *)
(* and no block that is copied is outside the new allocation.              *)
LEMMA ReAllocStep ==
  ASSUME MemoryInv, NEW a \in allocs, NEW p \in PoolId, NEW size \in Request, MemReAlloc(a, p, size)
  PROVE  MemoryInv'
<1> DEFINE s == MemAlloc(p, size, flag)
           n == Blocks(size)
           h == [b \in Block |-> IF b = s THEN n
                                 ELSE IF b \in Span(s, n) /\ Copies(a, b - s, size)
                                 THEN heap[a.start + b - s] ELSE heap[b]]
           new == Alloc(p, s, size)
           P == Reserve(pool, p, n)
           A == allocs \cup {new}
<1>1. HeapInv(pool, heap, allocs) /\ ModeInv BY DEF MemoryInv
<1>2. /\ TaskCall /\ s # Nil /\ heap' = Zero(h, a) /\ pool' = Release(P, a.pool, heap[a.start])
      /\ allocs' = (allocs \ {a}) \cup {new}
  BY DEF MemReAlloc
<1>3. /\ s \in Nat /\ n \in Nat /\ n > 0 /\ s \in Span(s, n)
      /\ Span(s, n) \subseteq Spn(pool, p) \ Taken(allocs)
  BY <1>1, <1>2, MemAllocIs
<1>4. new = Place(p, s, n) BY DEF Alloc, Place
<1>5. heap \in [Block -> Nat] /\ s \in Block BY <1>1, <1>3 DEF HeapInv, HeapHolds, PoolsApart
<1>6. a.start \in Nat /\ a.start \in Taken(allocs) /\ a.start \in Block /\ heap[a.start] = a.blocks
  <2>1. AllocsApart(pool, allocs) /\ PoolsApart(pool) BY <1>1 DEF HeapInv
  <2>2. a.start \in Nat /\ a.start \in Taken(allocs) BY <2>1, OwnStart, TakenIs
  <2>3. QED BY <1>1, <2>1, <2>2, TakenInHeap DEF HeapInv, HeapHolds
<1> HIDE DEF s, n, new
<1>7. h \in [Block -> Nat]
  <2>1. ASSUME NEW b \in Block, Copies(a, b - s, size) PROVE heap[a.start + b - s] \in Nat
    <3>1. a.start + (b - s) \in Block BY <2>1 DEF Copies
    <3>2. a.start + (b - s) = a.start + b - s BY <1>3, <1>6, MemoryAssumption DEF Block
    <3>3. QED BY <1>5, <3>1, <3>2
  <2>2. QED BY <1>3, <1>5, <2>1
<1>8. h[s] = n /\ \A b \in Block \ Span(s, n) : h[b] = heap[b] BY <1>3, <1>5
<1> HIDE DEF h
<1>9. HeapInv(P, h, A) /\ new \notin allocs
  <2>1. Fits(pool, allocs, p, s, n) /\ Put(heap, h, s, n) BY <1>3, <1>7, <1>8 DEF Fits, Put
  <2>2. QED BY <1>1, <1>4, <2>1, AddSound
<1>10. h[a.start] = heap[a.start] BY <1>3, <1>6, <1>8
<1>11. a \in A /\ A \ {a} = allocs' BY <1>2, <1>9
<1> HIDE DEF P, A
<1>12. HeapInv(Release(P, a.pool, h[a.start]), Zero(h, a), A \ {a}) BY <1>9, <1>11, RemoveSound
<1>13. HeapInv(pool', heap', allocs') BY <1>2, <1>10, <1>11, <1>12
<1>14. ModeInv' /\ JobInv' /\ HangsWhenFull' BY <1>1, <1>2, TaskFrame DEF TaskCall
<1>15. QED BY <1>13, <1>14 DEF MemoryInv
--------------------------------------------------------------------------------
(* An interrupt is in kernel mode, and leaves the mode as it was.          *)
LEMMA InterruptMode ==
  ASSUME ~Windows, ModeInv, IsrCall
  PROVE  Mode /\ ModeInv' /\ hung = Nil /\ job' = job
<1>1. /\ job.pc \notin {"enter", "exit"} /\ hung = Nil /\ nest' = nest /\ job' = job
      /\ flag' = (flag /\ nest # 0)
  BY DEF IsrCall, ModeAfter
<1>2. Mode BY <1>1 DEF ModeInv, Mode
<1>3. job'.pc = job.pc BY <1>1
<1>4. flag' \in BOOLEAN BY <1>1
<1>5. flag' <=> job.pc \in {"enter", "data", "object", "leave"} BY <1>1 DEF ModeInv
<1>6. ModeInv' BY <1>1, <1>3, <1>4, <1>5 DEF ModeInv
<1>7. QED BY <1>1, <1>2, <1>6

(* KMemAllocObject reserves the object and its data at once.               *)
LEMMA ReserveTwice ==
  ASSUME NEW P, PoolsApart(P), NEW p \in PoolId, NEW n \in Nat, NEW m \in Nat
  PROVE  Reserve(Reserve(P, p, n), p, m) = Reserve(P, p, n + m)
<1> DEFINE l == P[p].left
           x == -(n * BlockSize)
           y == -(m * BlockSize)
<1>1. MemWidth \in Nat /\ MemWidth > 0 /\ BlockSize \in Nat BY MemoryAssumption
<1>2. l \in Nat BY DEF PoolsApart
<1> HIDE DEF l
<1>3. x \in Int /\ y \in Int /\ l + x \in Int BY <1>1, <1>2
<1>4. (((l + x) % MemWidth) + y) % MemWidth = (l + x + y) % MemWidth BY <1>1, <1>3, ModuloAdd
<1>5. (l + x) % MemWidth \in Int BY <1>1, <1>3, Modulo
<1>6. /\ l - n * BlockSize = l + x /\ l - (n + m) * BlockSize = l + x + y
      /\ ((l + x) % MemWidth) - m * BlockSize = ((l + x) % MemWidth) + y
  BY <1>1, <1>2, <1>5
<1> HIDE DEF x, y
<1>7. (((l - n * BlockSize) % MemWidth) - m * BlockSize) % MemWidth = (l - (n + m) * BlockSize) % MemWidth
  BY <1>4, <1>6
<1> DEFINE u == (l - n * BlockSize) % MemWidth
           v == (u - m * BlockSize) % MemWidth
           P1 == [P EXCEPT ![p].left = u]
<1>8. Reserve(P, p, n) = P1 /\ Reserve(P, p, n + m) = [P EXCEPT ![p].left = v]
  BY <1>7 DEF Reserve, l
<1> HIDE DEF u
<1>9. P1[p].left = u BY DEF PoolsApart
<1>10. Reserve(P1, p, m) = [P1 EXCEPT ![p].left = v] BY <1>9 DEF Reserve
<1> HIDE DEF v
<1>11. [P1 EXCEPT ![p].left = v] = [P EXCEPT ![p].left = v] BY DEF PoolsApart
<1>12. QED BY <1>8, <1>10, <1>11

LEMMA ObjectPoolLeft ==
  ASSUME HeapInv(pool, heap, allocs), NEW S, S = PoolSpan(0) \ Taken(allocs)
  PROVE  /\ Free(0) = S /\ S \subseteq Block
         /\ pool[0].left = BlockSize * Cardinality(S)
<1>1. 0 \in PoolId /\ ObjectBlocks \in Nat /\ MemWidth \in Nat /\ MemWidth > 0 /\ BlockSize \in Nat
  BY MemoryAssumption DEF PoolId
<1>2. PoolsApart(pool) /\ AllocsApart(pool, allocs) /\ LeftIs(pool, allocs) BY DEF HeapInv
<1>3. Free(0) = S BY <1>1, FreeIs
<1> DEFINE T == Taken(Of(allocs, 0))
           Q == Spn(pool, 0)
<1>4. Q = PoolSpan(0) /\ Q \subseteq Block BY <1>1, <1>2 DEF Spn, PoolSpan, PoolsApart
<1>5. T = Taken(allocs) \cap Q BY <1>1, <1>2, TakenInHeap
<1>6. S \cup T = Q /\ S \cap T = {} /\ S \subseteq Block /\ T \subseteq Block BY <1>4, <1>5
<1>7. Cardinality(Q) = ObjectBlocks
  <2>1. pool[0].start \in Nat /\ pool[0].blocks = BytesToBlocks(ObjectBlocks * BlockSize)
    BY <1>1, <1>2 DEF PoolsApart
  <2>2. pool[0].blocks = ObjectBlocks BY <1>1, <2>1, BlocksCover
  <2>3. QED BY <1>1, <2>1, <2>2, SpanSize DEF Spn
<1>8. pool[0].left = LeftAt(ObjectBlocks * BlockSize, Cardinality(T))
  BY <1>1, <1>2 DEF LeftIs, Left, PoolsApart
<1> HIDE DEF T, Q
<1> DEFINE c == Cardinality(S)
           d == Cardinality(T)
<1>9. c \in Nat /\ d \in Nat /\ ObjectBlocks = c + d
  BY <1>6, <1>7, BlocksFinite, DisjointSum
<1>10. BlockSize * c \in 0 .. MemWidth - 1 BY <1>6, BytesFit
<1>11. pool[0].left = LeftAt(ObjectBlocks * BlockSize, d) BY <1>8
<1> HIDE DEF c, d
<1>12. ObjectBlocks * BlockSize - BlockSize * d = BlockSize * c BY <1>1, <1>9
<1>13. (BlockSize * c) % MemWidth = BlockSize * c
  <2> DEFINE x == BlockSize * c
  <2>1. x \in 0 .. MemWidth - 1 BY <1>10
  <2> HIDE DEF x
  <2>2. x % MemWidth = x BY <1>1, <2>1, SmallModulo
  <2>3. QED BY <2>2 DEF x
<1>14. QED BY <1>3, <1>6, <1>11, <1>12, <1>13 DEF LeftAt, c

LEMMA RoomCovers ==
  ASSUME NEW S, S \subseteq Block, NEW s, NEW n \in Nat, s = FirstFit(S, n), s # Nil
  PROVE  /\ s \in Nat /\ Span(s, n) \subseteq S
         /\ Cardinality(S \ Span(s, n)) \in Nat /\ Cardinality(S) = n + Cardinality(S \ Span(s, n))
<1>1. S \subseteq Nat BY MemoryAssumption DEF Block
<1>2. s \in Nat /\ Span(s, n) \subseteq S BY <1>1, FirstFitIs
<1>3. IsFiniteSet(Span(s, n)) /\ Cardinality(Span(s, n)) = n BY <1>2, SpanSize
<1> DEFINE R == S \ Span(s, n)
           Q == Span(s, n)
<1>4. R \subseteq Block /\ R \cap Q = {} /\ Q \cup R = S BY <1>2
<1>5. IsFiniteSet(R) /\ Cardinality(R) \in Nat BY <1>4, BlocksFinite
<1>6. IsFiniteSet(Q) /\ Cardinality(Q) = n BY <1>3
<1> HIDE DEF R, Q
<1>7. Cardinality(Q \cup R) = n + Cardinality(R) BY <1>4, <1>5, <1>6, DisjointSum
<1>8. QED BY <1>2, <1>4, <1>5, <1>7 DEF R

(* When a check of KMemAllocObject fails, there is no room.                *)
LEMMA HangSound ==
  ASSUME HeapInv(pool, heap, allocs), NEW size \in Request, NEW data \in Request \cup {0},
         NEW S, S = PoolSpan(0) \ Taken(allocs), NEW s, s = FirstFit(S, Blocks(size)), s # Nil,
         data # 0 => FirstFit(S \ Span(s, Blocks(size)), Blocks(data)) # Nil
  PROVE  /\ ~(pool[0].left < size) /\ ~(pool[0].left < size + data)
         /\ data # 0 => ~((pool[0].left - Blocks(size) * BlockSize) % MemWidth < data)
<1>1. /\ size \in Nat /\ data \in Nat /\ SizeBytes \in Nat /\ BlockSize \in Nat
      /\ MemWidth \in Nat /\ MemWidth > 0
  BY MemoryAssumption
<1>2. S \subseteq Block /\ pool[0].left = BlockSize * Cardinality(S) BY ObjectPoolLeft
<1> DEFINE n == Blocks(size)
           m == Blocks(data)
           R == S \ Span(s, n)
           r == Cardinality(R)
<1>3. n \in Nat /\ m \in Nat /\ BlockSize * n >= size /\ BlockSize * m >= data
  <2>1. /\ n \in Nat /\ m \in Nat /\ BlockSize * n >= size + SizeBytes
        /\ BlockSize * m >= data + SizeBytes
    BY <1>1, BlocksCover DEF Blocks
  <2> HIDE DEF n, m
  <2>2. QED BY <1>1, <2>1
<1>4. r \in Nat /\ Cardinality(S) = n + r /\ R \subseteq Block
  <2>1. s = FirstFit(S, n) OBVIOUS
  <2>2. R = S \ Span(s, n) OBVIOUS
  <2> HIDE DEF n, R
  <2>3. Cardinality(R) \in Nat /\ Cardinality(S) = n + Cardinality(R)
    BY ONLY <1>2, <1>3, <2>1, <2>2, s # Nil, RoomCovers
  <2>4. QED BY <1>2, <2>2, <2>3
<1>5. data # 0 => \E k \in Nat : r = m + k
  <2> SUFFICES ASSUME data # 0 PROVE \E k \in Nat : r = m + k OBVIOUS
  <2> DEFINE d == FirstFit(R, m)
  <2>1. d # Nil OBVIOUS
  <2> HIDE DEF d, R, m
  <2>2. Cardinality(R \ Span(d, m)) \in Nat /\ Cardinality(R) = m + Cardinality(R \ Span(d, m))
    BY <1>3, <1>4, <2>1, RoomCovers DEF d
  <2>3. QED BY <2>2
<1>6. BlockSize * r \in 0 .. MemWidth - 1 BY <1>4, BytesFit
<1>7. pool[0].left = BlockSize * (n + r) BY <1>2, <1>4
<1> DEFINE l == pool[0].left
<1>8. l = BlockSize * (n + r) BY <1>7
<1>9. data # 0 => BlockSize * r >= data
  <2> SUFFICES ASSUME data # 0 PROVE BlockSize * r >= data OBVIOUS
  <2>1. PICK k \in Nat : r = m + k BY <1>5
  <2> HIDE DEF r, m, n
  <2>2. BlockSize * r >= BlockSize * m BY <1>1, <1>3, <2>1
  <2>3. BlockSize * r \in Nat /\ BlockSize * m \in Nat BY <1>1, <1>3, <1>4
  <2>4. QED BY <1>1, <1>3, <2>2, <2>3
<1> HIDE DEF l, r, n, m, R
<1>10. l = BlockSize * n + BlockSize * r /\ BlockSize * n \in Nat /\ BlockSize * r \in Nat
  BY <1>1, <1>3, <1>4, <1>8
<1>11. l \in Nat /\ l >= size /\ l >= size + data BY <1>1, <1>3, <1>9, <1>10
<1>12. l - n * BlockSize = BlockSize * r BY <1>1, <1>3, <1>10
<1>13. (BlockSize * r) % MemWidth = BlockSize * r
  <2> DEFINE x == BlockSize * r
  <2>1. x \in 0 .. MemWidth - 1 BY <1>6
  <2> HIDE DEF x
  <2>2. x % MemWidth = x BY <1>1, <2>1, SmallModulo
  <2>3. QED BY <2>2 DEF x
<1>14. data # 0 => (l - n * BlockSize) % MemWidth >= data /\ (l - n * BlockSize) % MemWidth \in Nat
  BY <1>9, <1>10, <1>12, <1>13
<1>15. QED BY <1>1, <1>11, <1>14 DEF l, n

LEMMA AllocObjectStep ==
  ASSUME ~Windows, MemoryInv, NEW size \in Request, NEW data \in Request \cup {0},
         KMemAllocObject(size, data)
  PROVE  MemoryInv'
<1> DEFINE s == MemAlloc(0, size, Mode)
           n == Blocks(size)
           m == Blocks(data)
           S == PoolSpan(0) \ Taken(allocs)
           d == IF s = Nil THEN Nil
                ELSE IF (pool[0].left - n * BlockSize) % MemWidth < data THEN Nil
                ELSE FirstFit(Free(0) \ Span(s, n), m)
           fails == pool[0].left < size + data \/ s = Nil \/ (data # 0 /\ d = Nil)
<1>1. HeapInv(pool, heap, allocs) /\ ModeInv /\ JobInv BY DEF MemoryInv
<1>2. Mode /\ ModeInv' /\ hung = Nil /\ job' = job BY <1>1, InterruptMode DEF KMemAllocObject
<1>3. Free(0) = S /\ S \subseteq Block BY <1>1, ObjectPoolLeft
<1>4. s = IF pool[0].left < size THEN Nil ELSE FirstFit(S, n) BY <1>2, <1>3 DEF MemAlloc
<1>5. CASE fails
  <2>1. hung' = [size |-> size, data |-> data] /\ pool' = pool /\ heap' = heap /\ allocs' = allocs
    BY <1>5 DEF KMemAllocObject
  <2>2. JobInv' BY <1>1, <1>2, <2>1 DEF JobInv
  <2>3. HeapInv(pool', heap', allocs') BY <1>1, <2>1
  <2> DEFINE t == FirstFit(S, n)
  <2>4. t = Nil \/ (data # 0 /\ FirstFit(S \ Span(t, n), m) = Nil)
    <3> SUFFICES ASSUME t # Nil, data # 0 => FirstFit(S \ Span(t, n), m) # Nil PROVE FALSE
      OBVIOUS
    <3>1. /\ ~(pool[0].left < size) /\ ~(pool[0].left < size + data)
          /\ data # 0 => ~((pool[0].left - n * BlockSize) % MemWidth < data)
      <4> HIDE DEF S, t
      <4>1. t = FirstFit(S, Blocks(size)) BY DEF t
      <4>2. S = PoolSpan(0) \ Taken(allocs) BY DEF S
      <4>3. QED BY <1>1, <4>1, <4>2, HangSound
    <3>2. s = t BY <1>4, <3>1
    <3>3. data # 0 => d = FirstFit(S \ Span(t, n), m) BY <1>3, <3>1, <3>2
    <3>4. QED BY <1>5, <3>1, <3>2, <3>3
  <2>5. HangsWhenFull'
    <3>1. hung'.size = size /\ hung'.data = data BY <2>1
    <3>2. PoolSpan(0)' = PoolSpan(0) /\ allocs' = allocs BY <2>1 DEF PoolSpan
    <3> HIDE DEF fails, d, s, n, m
    <3>3. QED BY <2>4, <3>1, <3>2 DEF HangsWhenFull, Taken, n, m
  <2>6. QED BY <1>2, <2>2, <2>3, <2>5 DEF MemoryInv
<1>6. CASE ~fails
  <2>1. s # Nil /\ (data # 0 => d # Nil) BY <1>6
  <2>2. /\ hung' = hung
        /\ heap' = [b \in Block |-> IF b = s THEN n ELSE IF data # 0 /\ b = d THEN m ELSE heap[b]]
        /\ pool' = Reserve(pool, 0, IF data = 0 THEN n ELSE n + m)
        /\ allocs' = allocs \cup {Alloc(0, s, size)}
                       \cup (IF data = 0 THEN {} ELSE {Alloc(0, d, data)})
    BY <1>6 DEF KMemAllocObject
  <2>3. 0 \in PoolId /\ heap \in [Block -> Nat] BY <1>1, MemoryAssumption DEF PoolId, HeapInv, HeapHolds
  <2>4. Fits(pool, allocs, 0, s, n) /\ s \in Span(s, n) /\ s \in Nat /\ n \in Nat
    BY <1>1, <2>1, <2>3, MemAllocIs DEF Fits
  <2>5. Alloc(0, s, size) = Place(0, s, n) BY DEF Alloc, Place
  <2>6. Alloc(0, d, data) = Place(0, d, m) BY DEF Alloc, Place
  <2>7. data # 0 => d = FirstFit(S \ Span(s, n), m) BY <1>3, <2>1
  <2>8. data # 0 => m \in Nat /\ m > 0
    <3>1. data # 0 => data \in Nat /\ data > 0 /\ SizeBytes \in Nat BY MemoryAssumption
    <3>2. QED BY <3>1, BlocksCover DEF Blocks
  <2>9. Span(s, n) \subseteq Block BY <1>1, <2>3, <2>4 DEF Fits, HeapInv, PoolsApart
  <2> HIDE DEF fails, d, s, n, m
  <2>10. HeapInv(pool', heap', allocs') /\ allocs \subseteq allocs'
    <3>1. CASE data = 0
      <4>1. heap' = [b \in Block |-> IF b = s THEN n ELSE heap[b]] BY <2>2, <3>1
      <4>2. Put(heap, heap', s, n) BY <2>3, <2>4, <2>9, <4>1 DEF Put
      <4>3. HeapInv(Reserve(pool, 0, n), heap', allocs \cup {Place(0, s, n)})
        BY <1>1, <2>3, <2>4, <4>2, AddSound
      <4>4. pool' = Reserve(pool, 0, n) /\ allocs' = allocs \cup {Place(0, s, n)}
        BY <2>2, <2>5, <3>1
      <4>5. QED BY <4>3, <4>4
    <3>2. CASE data # 0
      <4> DEFINE h == [b \in Block |-> IF b = s THEN n ELSE heap[b]]
                 P == Reserve(pool, 0, n)
                 A == allocs \cup {Place(0, s, n)}
      <4>1. Put(heap, h, s, n) BY <2>3, <2>4, <2>9 DEF Put
      <4> HIDE DEF h
      <4>2. HeapInv(P, h, A) /\ Taken(A) = Taken(allocs) \cup Span(s, n)
        BY <1>1, <2>3, <2>4, <4>1, AddSound
      <4>3. PoolsApart(pool) /\ LeftOnly(pool, P, 0) BY <1>1, <2>3, <2>4, ReserveIs DEF HeapInv
      <4>4. Spn(P, 0) = PoolSpan(0) BY <2>3, <4>3 DEF LeftOnly, Spn, PoolSpan
      <4>5. d \in Nat /\ Span(d, m) \subseteq S \ Span(s, n) /\ d \in Span(d, m)
        <5>1. S \ Span(s, n) \subseteq Block BY <1>3
        <5> HIDE DEF S
        <5>2. d \in Nat /\ Span(d, m) \subseteq S \ Span(s, n) BY <2>1, <2>7, <2>8, <3>2, <5>1, RoomCovers
        <5>3. QED BY <2>8, <3>2, <5>2 DEF Span
      <4>6. Fits(P, A, 0, d, m) BY <2>8, <3>2, <4>2, <4>4, <4>5 DEF Fits
      <4>7. d \in Block /\ d # s /\ d \notin Span(s, n) BY <1>3, <2>4, <4>5
      <4>8. Put(h, heap', d, m)
        <5>1. heap' = [b \in Block |-> IF b = s THEN n ELSE IF b = d THEN m ELSE heap[b]]
          BY <2>2, <3>2
        <5>2. heap' \in [Block -> Nat] BY <2>3, <2>4, <2>8, <3>2, <5>1
        <5>3. heap'[d] = m BY <4>7, <5>1
        <5>4. \A b \in Block \ Span(d, m) : heap'[b] = h[b] BY <4>5, <5>1 DEF h
        <5>5. QED BY <5>2, <5>3, <5>4 DEF Put
      <4> HIDE DEF P, A
      <4>9. HeapInv(Reserve(P, 0, m), heap', A \cup {Place(0, d, m)})
        BY <2>3, <4>2, <4>6, <4>8, AddSound
      <4>10. Reserve(P, 0, m) = pool'
        BY <2>2, <2>3, <2>4, <2>8, <3>2, <4>3, ReserveTwice DEF P
      <4>11. allocs' = A \cup {Place(0, d, m)} BY <2>2, <2>5, <2>6, <3>2 DEF A
      <4>12. QED BY <4>9, <4>10, <4>11 DEF A
    <3>3. QED BY <3>1, <3>2
  <2>11. JobInv'
    <3>1. \A a \in Of(allocs, 0) : a \in Of(allocs', 0) BY <2>10 DEF Of
    <3>2. QED BY <1>1, <1>2, <3>1 DEF JobInv
  <2>12. HangsWhenFull' BY <1>2, <2>2 DEF HangsWhenFull
  <2>13. QED BY <1>2, <2>10, <2>11, <2>12 DEF MemoryInv
<1>7. QED BY <1>5, <1>6

(* KMemFreeObject: what is freed is an allocation of the object pool.      *)
LEMMA FreeKeeps ==
  ASSUME HeapInv(pool, heap, allocs), NEW a \in allocs, NEW mode, mode, MemFree(a, mode)
  PROVE  /\ HeapInv(pool', heap', allocs')
         /\ \A c \in Of(allocs, 0) : c # a => c \in Of(allocs', 0)
<1>1. /\ heap' = Zero(heap, a) /\ pool' = Release(pool, a.pool, heap[a.start])
      /\ allocs' = allocs \ {a}
  BY DEF MemFree
<1>2. HeapInv(pool', heap', allocs') BY <1>1, RemoveSound
<1>3. QED BY <1>1, <1>2 DEF Of

LEMMA DestroyStep ==
  ASSUME ~Windows, MemoryInv, NEW a \in allocs, DestroyEvent(a)
  PROVE  MemoryInv'
<1>1. HeapInv(pool, heap, allocs) /\ ModeInv /\ JobInv BY DEF MemoryInv
<1>2. Mode /\ ModeInv' /\ hung = Nil /\ job' = job BY <1>1, InterruptMode DEF DestroyEvent
<1>3. MemFree(a, Mode) /\ a # job.obj /\ a # job.data /\ hung' = hung BY DEF DestroyEvent, Object
<1>4. /\ HeapInv(pool', heap', allocs')
      /\ \A c \in Of(allocs, 0) : c # a => c \in Of(allocs', 0)
  BY <1>1, <1>2, <1>3, FreeKeeps
<1>5. JobInv' BY <1>1, <1>2, <1>3, <1>4 DEF JobInv
<1>6. HangsWhenFull' BY <1>2, <1>3 DEF HangsWhenFull
<1>7. QED BY <1>2, <1>4, <1>5, <1>6 DEF MemoryInv

LEMMA FreeEventSteps ==
  ASSUME MemoryInv, \/ \E a \in allocs, data \in allocs \cup {Nil} : KMemFreeObject(a, data)
                    \/ EnterNest \/ FreeData \/ FreeEvent \/ ExitClear \/ ExitNest
  PROVE  MemoryInv'
<1>1. HeapInv(pool, heap, allocs) /\ ModeInv /\ JobInv BY DEF MemoryInv
<1>2. hung = Nil /\ hung' = hung
  BY DEF KMemFreeObject, Idle, EnterNest, FreeData, FreeEvent, ExitClear, ExitNest, JobStep
<1>3. HangsWhenFull' BY <1>2 DEF HangsWhenFull
<1>4. ASSUME NEW a \in allocs, NEW data \in allocs \cup {Nil}, KMemFreeObject(a, data)
      PROVE  HeapInv(pool', heap', allocs') /\ ModeInv' /\ JobInv'
  <2>1. /\ job.pc = "none" /\ Object(a) /\ (data # Nil => Object(data) /\ data # a)
        /\ flag' = (flag \/ nest = 0) /\ nest' = nest
        /\ job' = [pc |-> "enter", obj |-> a, data |-> data]
        /\ pool' = pool /\ heap' = heap /\ allocs' = allocs
    BY <1>4 DEF KMemFreeObject, Idle
  <2>2. job'.pc = "enter" /\ job'.obj = a /\ job'.data = data BY <2>1
  <2>3. flag' \in BOOLEAN /\ flag' BY <1>1, <2>1 DEF ModeInv
  <2>4. nest' = 0 BY <1>1, <2>1 DEF ModeInv
  <2>5. ModeInv' BY <2>1, <2>2, <2>3, <2>4 DEF ModeInv
  <2>6. a \in Of(allocs', 0) /\ (data # Nil => data \in Of(allocs', 0))
    BY <2>1 DEF Of, Object
  <2>7. JobInv' BY <2>1, <2>2, <2>6 DEF JobInv
  <2>8. QED BY <1>1, <2>1, <2>5, <2>7
<1>5. ASSUME NEW from, NEW to \in {"data", "object", "leave", "exit"}, JobStep(from, to)
      PROVE  /\ job.pc = from /\ job'.pc = to /\ job'.obj = job.obj /\ job'.data = job.data
             /\ job' = [pc |-> job'.pc, obj |-> job'.obj, data |-> job'.data]
  <2>1. job.pc = from /\ job' = [job EXCEPT !.pc = to] BY <1>5 DEF JobStep
  <2>2. job' = [pc |-> to, obj |-> job.obj, data |-> job.data] BY <1>1, <2>1 DEF ModeInv
  <2>3. QED BY <2>1, <2>2
<1>6. CASE EnterNest
  <2>1. /\ JobStep("enter", "data") /\ nest' = nest + 1 /\ flag' = flag
        /\ pool' = pool /\ heap' = heap /\ allocs' = allocs
    BY <1>6 DEF EnterNest
  <2>2. ModeInv' BY <1>1, <1>5, <2>1 DEF ModeInv
  <2>3. JobInv' BY <1>1, <1>5, <2>1 DEF JobInv
  <2>4. QED BY <1>1, <1>3, <2>1, <2>2, <2>3 DEF MemoryInv
<1>7. CASE FreeData
  <2>1. JobStep("data", "object") /\ nest' = nest /\ flag' = flag BY <1>7 DEF FreeData, modeVars
  <2>2. /\ job.pc = "data" /\ job'.pc = "object" /\ job'.obj = job.obj /\ job'.data = job.data
        /\ job' = [pc |-> job'.pc, obj |-> job'.obj, data |-> job'.data]
    BY <1>5, <2>1
  <2>3. ModeInv' BY <1>1, <2>1, <2>2 DEF ModeInv
  <2>4. flag /\ job.obj \in Of(allocs, 0) BY <1>1, <2>2 DEF ModeInv, JobInv
  <2>5. HeapInv(pool', heap', allocs') /\ job.obj \in Of(allocs', 0)
    <3>1. CASE job.data = Nil
      <4>1. pool' = pool /\ heap' = heap /\ allocs' = allocs BY <1>7, <3>1 DEF FreeData
      <4>2. QED BY <1>1, <2>4, <4>1
    <3>2. CASE job.data # Nil
      <4> DEFINE a == job.data
      <4>1. a \in allocs /\ a # job.obj BY <1>1, <2>2, <3>2 DEF JobInv, Of
      <4>2. MemFree(a, flag) BY <1>7, <3>2 DEF FreeData
      <4> HIDE DEF a
      <4>3. /\ HeapInv(pool', heap', allocs')
            /\ \A c \in Of(allocs, 0) : c # a => c \in Of(allocs', 0)
        BY <1>1, <2>4, <4>1, <4>2, FreeKeeps
      <4>4. QED BY <2>4, <4>1, <4>3
    <3>3. QED BY <3>1, <3>2
  <2>6. JobInv' BY <2>2, <2>5 DEF JobInv
  <2>7. QED BY <1>3, <2>3, <2>5, <2>6 DEF MemoryInv
<1>8. CASE FreeEvent
  <2>1. JobStep("object", "leave") /\ nest' = nest /\ flag' = flag BY <1>8 DEF FreeEvent, modeVars
  <2>2. /\ job.pc = "object" /\ job'.pc = "leave"
        /\ job' = [pc |-> job'.pc, obj |-> job'.obj, data |-> job'.data]
    BY <1>5, <2>1
  <2>3. ModeInv' BY <1>1, <2>1, <2>2 DEF ModeInv
  <2>4. JobInv' BY <2>2 DEF JobInv
  <2> DEFINE a == job.obj
  <2>5. flag /\ a \in allocs BY <1>1, <2>2 DEF ModeInv, JobInv, Of
  <2>6. MemFree(a, flag) BY <1>8 DEF FreeEvent
  <2> HIDE DEF a
  <2>7. HeapInv(pool', heap', allocs') BY <1>1, <2>5, <2>6, FreeKeeps
  <2>8. QED BY <1>3, <2>3, <2>4, <2>7 DEF MemoryInv
<1>9. CASE ExitClear
  <2>1. /\ JobStep("leave", "exit") /\ nest' = nest /\ flag' = (flag /\ nest # 1)
        /\ pool' = pool /\ heap' = heap /\ allocs' = allocs
    BY <1>9 DEF ExitClear
  <2>2. /\ job.pc = "leave" /\ job'.pc = "exit"
        /\ job' = [pc |-> job'.pc, obj |-> job'.obj, data |-> job'.data]
    BY <1>5, <2>1
  <2>3. nest = 1 BY <1>1, <2>2 DEF ModeInv
  <2>4. flag' \in BOOLEAN /\ ~flag' BY <2>1, <2>3
  <2>5. ModeInv' BY <2>1, <2>2, <2>3, <2>4 DEF ModeInv
  <2>6. JobInv' BY <2>2 DEF JobInv
  <2>7. QED BY <1>1, <1>3, <2>1, <2>5, <2>6 DEF MemoryInv
<1>10. CASE ExitNest
  <2>1. /\ job.pc = "exit" /\ nest' = nest - 1 /\ flag' = flag /\ job' = NoJob
        /\ pool' = pool /\ heap' = heap /\ allocs' = allocs
    BY <1>10 DEF ExitNest
  <2>2. job'.pc = "none" /\ job' = [pc |-> job'.pc, obj |-> job'.obj, data |-> job'.data]
    BY <2>1 DEF NoJob
  <2>3. nest' = 0 BY <1>1, <2>1 DEF ModeInv
  <2>4. ModeInv' BY <1>1, <2>1, <2>2, <2>3 DEF ModeInv
  <2>5. JobInv' BY <2>2 DEF JobInv
  <2>6. QED BY <1>1, <1>3, <2>1, <2>4, <2>5 DEF MemoryInv
<1>11. QED BY <1>3, <1>4, <1>6, <1>7, <1>8, <1>9, <1>10 DEF MemoryInv

LEMMA NextMemoryInv == ASSUME ~Windows PROVE MemoryInv /\ [MemoryNext]_memoryVars => MemoryInv'
<1> SUFFICES ASSUME MemoryInv, [MemoryNext]_memoryVars PROVE MemoryInv' OBVIOUS
<1>1. CASE UNCHANGED memoryVars
  <2>1. /\ pool' = pool /\ heap' = heap /\ flag' = flag /\ nest' = nest
        /\ job' = job /\ hung' = hung /\ allocs' = allocs
    BY <1>1 DEF memoryVars, modeVars
  <2>2. HeapInv(pool', heap', allocs') BY <2>1 DEF MemoryInv
  <2>3. ModeInv' /\ JobInv' BY <2>1 DEF MemoryInv, ModeInv, JobInv
  <2>4. HangsWhenFull' BY <2>1 DEF MemoryInv, HangsWhenFull, PoolSpan
  <2>5. QED BY <2>2, <2>3, <2>4 DEF MemoryInv
<1>2. ASSUME NEW size \in PoolSize, MemPoolCreate(size) PROVE MemoryInv' BY <1>2, CreateStep
<1>3. ASSUME NEW p \in PoolId, MemPoolFormat(p) \/ MemPoolDelete(p) PROVE MemoryInv'
  BY <1>3, FormatStep
<1>4. ASSUME NEW p \in PoolId, NEW size \in Request, UserAlloc(p, size) PROVE MemoryInv'
  BY <1>4, UserAllocStep
<1>5. ASSUME NEW a \in allocs, UserFree(a) PROVE MemoryInv' BY <1>5, UserFreeStep
<1>6. ASSUME NEW a \in allocs, Write(a) PROVE MemoryInv' BY <1>6, WriteStep
<1>7. ASSUME NEW a \in allocs, DestroyEvent(a) PROVE MemoryInv' BY <1>7, DestroyStep
<1>8. ASSUME NEW a \in allocs, NEW p \in PoolId, NEW size \in Request, MemReAlloc(a, p, size)
      PROVE  MemoryInv'
  BY <1>8, ReAllocStep
<1>9. ASSUME NEW size \in Request, NEW data \in Request \cup {0}, KMemAllocObject(size, data)
      PROVE  MemoryInv'
  BY <1>9, AllocObjectStep
<1>10. ASSUME \/ \E a \in allocs, data \in allocs \cup {Nil} : KMemFreeObject(a, data)
              \/ EnterNest \/ FreeData \/ FreeEvent \/ ExitClear \/ ExitNest
       PROVE  MemoryInv'
  BY <1>10, FreeEventSteps
<1>11. CASE MemoryNext
  BY <1>2, <1>3, <1>4, <1>5, <1>6, <1>7, <1>8, <1>9, <1>10, <1>11 DEF MemoryNext
<1>12. QED BY <1>1, <1>11

LEMMA MemoryInvAlways == ASSUME ~Windows PROVE MemorySpec => []MemoryInv
BY InitMemoryInv, NextMemoryInv, PTL DEF MemorySpec
--------------------------------------------------------------------------------
(* PoolsSound: while no interrupt comes inside KCoreKernelModeEnter and    *)
(* Exit, allocations lie within their pools and share no block, what is    *)
(* reported as used, and as free on the heap, is exact, and what a pool    *)
(* reports as free is free: the subtraction of mem_left does not wrap, but *)
(* when the last block is taken of a pool whose size is not in whole       *)
(* blocks; for every heap, pool and allocation size and width of U32_t.    *)
THEOREM PoolsAlwaysSound == ASSUME ~Windows PROVE MemorySpec => []PoolsSound
<1>1. MemoryInv => PoolsSound
  <2> SUFFICES ASSUME MemoryInv PROVE PoolsSound OBVIOUS
  <2>1. HeapInv(pool, heap, allocs) BY DEF MemoryInv
  <2>2. Apart BY <2>1 DEF HeapInv, AllocsApart, Apart, PoolSpan, Spn
  <2>3. ASSUME NEW p \in PoolId, NEW y, y = BlockSize * Cardinality(Taken(Of(allocs, p)))
        PROVE  /\ pool[p].size % BlockSize = 0 \/ y < BlockSize * pool[p].blocks
                    => MemPoolFreeSpaceGet(p) = pool[p].size - y
               /\ MemPoolUsedSpaceGet(p) = y
    BY <2>1, <2>3, FreeSpaceIs, UsedSpaceIs DEF MemPoolFreeSpaceGet
  <2>4. MemOsHeapFreeSpaceGet = HeapBlocks * BlockSize - BlockSize * Cardinality(Taken(allocs))
    BY <2>1, HeapFreeSpaceIs
  <2>5. Accounting BY <2>3, <2>4 DEF Accounting, Taken, Of
  <2>6. QED BY <2>2, <2>5 DEF PoolsSound
<1>2. QED BY <1>1, MemoryInvAlways, PTL

(* HeapIsAllocs: the walk of MemAlloc by the sizes on the heap comes to    *)
(* the allocations in use and to free blocks, never to data that a user    *)
(* wrote, and nothing that was freed stays behind.                         *)
THEOREM HeapAlwaysIsAllocs == ASSUME ~Windows PROVE MemorySpec => []HeapIsAllocs
<1>1. MemoryInv => HeapIsAllocs
  <2> SUFFICES ASSUME MemoryInv PROVE HeapIsAllocs OBVIOUS
  <2>1. HeapInv(pool, heap, allocs) BY DEF MemoryInv
  <2>2. \A p \in PoolId : {b \in Walk(p) : heap[b] # 0} = {a.start : a \in Of(allocs, p)}
    BY <2>1, FreeIs
  <2>3. \A a \in allocs : heap[a.start] = a.blocks BY <2>1 DEF HeapInv, HeapHolds
  <2>4. QED BY <2>2, <2>3 DEF HeapIsAllocs, Of
<1>2. QED BY <1>1, MemoryInvAlways, PTL

(* HangsWhenFull: KMemAllocObject waits forever only when the object pool  *)
(* has no room for the object and its data: none of its checks of          *)
(* mem_left, which leave out the size field and the rounding, turns down   *)
(* a request that would fit.                                               *)
THEOREM HangsOnlyWhenFull == ASSUME ~Windows PROVE MemorySpec => []HangsWhenFull
<1>1. MemoryInv => HangsWhenFull BY DEF MemoryInv
<1>2. QED BY <1>1, MemoryInvAlways, PTL
================================================================================
