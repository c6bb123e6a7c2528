------------------------------- MODULE ListWhole -------------------------------
(***************************************************************************)
(* The operations of List.c that change whole lists and that the kernel    *)
(* offers but does not call: ListNodeSwap, ListNodeMove, ListMerge and     *)
(* ListDestroy, with KTcbSwap and KTcbMove (Task.c).  LinkedList has the   *)
(* others.  A node stands for its ID; a write through NULL ends it all.    *)
(***************************************************************************)
EXTENDS Integers, SequencesExt, FiniteSetsExt

CONSTANTS
  WholeLists,   \* two lists
  WholeNodes    \* their nodes, as numbers above 0

VARIABLES
  links,       \* the lists and the pointers of the nodes
  order,      \* history: what each list should hold, in order
  looped,     \* history: two neighbours were swapped
  destroyed   \* history: the size of the list that was destroyed last, or -1

wholeVars == <<links, order, looped, destroyed>>

NULL == 0

At1(s, i) == IF i \in 1 .. Len(s) THEN s[i] ELSE NULL

(* A list of the links is the doubly linked list of s.                     *)
Links(h, l, s) ==
  /\ h.size[l] = Len(s) /\ h.head[l] = At1(s, 1) /\ h.tail[l] = At1(s, Len(s))
  /\ \A i \in 1 .. Len(s) : h.next[s[i]] = At1(s, i + 1) /\ h.prev[s[i]] = At1(s, i - 1)

(* The links of lists that hold all nodes between them, in ascending order.*)
HeapOf(o) ==
  LET Place(n) == CHOOSE p \in WholeLists \X (1 .. Cardinality(WholeNodes)) : At1(o[p[1]], p[2]) = n
      Next(n, d) == LET p == Place(n) IN At1(o[p[1]], p[2] + d)
  IN [head |-> [l \in WholeLists |-> At1(o[l], 1)],
      tail |-> [l \in WholeLists |-> At1(o[l], Len(o[l]))],
      size |-> [l \in WholeLists |-> Len(o[l])],
      sorted |-> [l \in WholeLists |-> o[l] # <<>>],
      locked |-> [l \in WholeLists |-> FALSE],
      next |-> [n \in WholeNodes |-> Next(n, 1)],
      prev |-> [n \in WholeNodes |-> Next(n, -1)],
      ok |-> TRUE]

WholeInit ==
  /\ \E f \in [WholeNodes -> WholeLists] :
       order = [l \in WholeLists |-> SetToSortSeq({n \in WholeNodes : f[n] = l}, <)]
  /\ links = HeapOf(order)
  /\ looped = FALSE /\ destroyed = -1
------------------------------------------------------------------------------
SetNext(h, n, m) == IF n = NULL THEN [h EXCEPT !.ok = FALSE] ELSE [h EXCEPT !.next[n] = m]
SetPrev(h, n, m) == IF n = NULL THEN [h EXCEPT !.ok = FALSE] ELSE [h EXCEPT !.prev[n] = m]

Follow(start, link, n) == FoldLeft(LAMBDA m, i : IF m = NULL THEN NULL ELSE link[m],
                                 start, [i \in 1 .. n - 1 |-> i])

(* ListIntegrityVerify leaves a list locked that it finds corrupt.         *)
Verified(h, l) ==
  LET hd == h.head[l]  tl == h.tail[l]  n == h.size[l]
      corrupt == n # 0 /\ (\/ h.prev[hd] # NULL \/ h.next[tl] # NULL
                           \/ n > 1 /\ NULL \in {h.next[hd], h.prev[tl]}
                           \/ NULL \in {Follow(hd, h.next, n), Follow(tl, h.prev, n)})
  IN IF h.ok THEN [h EXCEPT !.locked[l] = @ \/ corrupt] ELSE h

(* ListNodeRemove of a node that may have left the list before.            *)
Unlinked(h, l, n) ==
  LET x == h.prev[n]  z == h.next[n]
      other == IF x # NULL THEN x ELSE z
      Ends(hd, tl) == [h EXCEPT !.head[l] = hd, !.tail[l] = tl]
      g == IF h.size[l] = 2
             THEN SetPrev(SetNext(Ends(other, other), other, NULL), other, NULL)
           ELSE IF h.size[l] = 1 THEN Ends(NULL, NULL)
           ELSE IF n = h.head[l] THEN SetPrev(Ends(z, h.tail[l]), z, NULL)
           ELSE IF n = h.tail[l] THEN SetNext(Ends(h.head[l], x), x, NULL)
           ELSE SetPrev(SetNext(h, x, z), z, x)
  IN IF h.locked[l] \/ n = NULL THEN h
     ELSE Verified([g EXCEPT !.size[l] = @ - 1, !.next[n] = NULL, !.prev[n] = NULL], l)

(* ListNodeAddSorted: at the tail of a list that is not sorted.            *)
AddSorted(h, l, n) ==
  LET ascending == h.sorted[l] \/ h.size[l] = 0
      lower == {m \in Range(order[l]) : m < n}
      p == IF ~ascending THEN h.tail[l] ELSE IF lower = {} THEN NULL ELSE Max(lower)
      q == IF p = NULL THEN h.head[l] ELSE h.next[p]
      g == [h EXCEPT !.size[l] = @ + 1, !.sorted[l] = ascending,
                     !.head[l] = IF p = NULL THEN n ELSE @,
                     !.tail[l] = IF q = NULL THEN n ELSE @,
                     !.next = [m \in WholeNodes |-> IF m = n THEN q ELSE IF m = p THEN n ELSE @[m]],
                     !.prev = [m \in WholeNodes |-> IF m = n THEN p ELSE IF m = q THEN n ELSE @[m]]]
  IN IF h.locked[l] THEN h ELSE Verified(g, l)

(* Where AddSorted has put the node.                                       *)
Added(s, n, ascending) ==
  LET i == IF ascending THEN Cardinality({j \in 1 .. Len(s) : s[j] < n}) ELSE Len(s)
  IN SubSeq(s, 1, i) \o <<n>> \o SubSeq(s, i + 1, Len(s))
------------------------------------------------------------------------------
KeepsPrev(h, l, x, y) ==  \* mutant: the node behind x keeps its prev_node
  LET a == h.prev[x]  b == h.next[x]  c == h.prev[y]  d == h.next[y]
      g1 == IF a # NULL THEN SetNext(h, a, y) ELSE [h EXCEPT !.head[l] = y]
      g2 == IF b # NULL THEN g1 ELSE [g1 EXCEPT !.tail[l] = y]
      g3 == SetPrev(SetNext(g2, y, b), y, a)
      g4 == IF c # NULL THEN SetNext(g3, c, x) ELSE [g3 EXCEPT !.head[l] = x]
      g5 == IF d # NULL THEN SetPrev(g4, d, x) ELSE [g4 EXCEPT !.tail[l] = x]
  IN SetPrev(SetNext(g5, x, d), x, c)

(* The neighbours of x get y, then those of y get x.                       *)
Swapped(h, l, x, y) ==
  LET a == h.prev[x]  b == h.next[x]  c == h.prev[y]  d == h.next[y]
      g1 == IF a # NULL THEN SetNext(h, a, y) ELSE [h EXCEPT !.head[l] = y]
      g2 == IF b # NULL THEN SetPrev(g1, b, y) ELSE [g1 EXCEPT !.tail[l] = y]
      g3 == SetPrev(SetNext(g2, y, b), y, a)
      g4 == IF c # NULL THEN SetNext(g3, c, x) ELSE [g3 EXCEPT !.head[l] = x]
      g5 == IF d # NULL THEN SetPrev(g4, d, x) ELSE [g4 EXCEPT !.tail[l] = x]
  IN SetPrev(SetNext(g5, x, d), x, c)

(* Neighbours end up pointing to themselves, which ListIntegrityVerify     *)
(* does not see: a walk never ends.                                        *)
ListNodeSwap(l, x, y) ==
  LET Other(n) == IF n = x THEN y ELSE IF n = y THEN x ELSE n
  IN /\ ~links.locked[l] /\ links.size[l] >= 2
     /\ links' = Verified([Swapped(links, l, x, y) EXCEPT !.sorted[l] = FALSE], l)
     /\ looped' = (links.next[x] = y \/ links.next[y] = x)
     /\ order' = [order EXCEPT ![l] = [i \in DOMAIN @ |-> Other(@[i])]]
     /\ UNCHANGED destroyed

(* A node that the other list refuses is in neither list afterwards.       *)
ListNodeMove(l, k, n) ==
  /\ ~links.locked[l]
  /\ links' = AddSorted(Unlinked(links, l, n), k, n)
  /\ order' = [order EXCEPT ![l] = SelectSeq(@, LAMBDA m : m # n),
                 ![k] = IF links.locked[k] THEN @ ELSE Added(@, n, links.sorted[k] \/ @ = <<>>)]
  /\ UNCHANGED <<looped, destroyed>>

KTcbSwap(l, x, y) == ListNodeSwap(l, x, y)

(* Refused outside of kernel-mode.                                         *)
KTcbMove(kernelMode, l, k, n) == kernelMode /\ ListNodeMove(l, k, n)

(* ListNodeDeinit removes the node from the list, which ListDestroy has    *)
(* done before.                                                            *)
Deinit(h, l, n) == Unlinked(h, l, n)

RECURSIVE DestroyFrom(_, _, _)
DestroyFrom(h, l, i) ==
  LET n == h.head[l]
      g == IF n = NULL THEN h ELSE Deinit(Unlinked(h, l, n), l, n)
  IN IF i > h.size[l] \/ ~h.ok THEN h ELSE DestroyFrom(g, l, i + 1)

(* The list is left locked: only ListInit unlocks it.                      *)
Emptied(h, l) ==
  LET g == DestroyFrom(h, l, 0)
  IN [g EXCEPT !.locked[l] = TRUE, !.head[l] = NULL, !.tail[l] = NULL, !.size[l] = 0]

ListDestroy(l) ==
  /\ ~links.locked[l]
  /\ links' = Emptied(links, l)
  /\ order' = [order EXCEPT ![l] = <<>>]
  /\ destroyed' = links.size[l]
  /\ UNCHANGED looped

(* The nodes of l are put behind those of k, and then l, which still has   *)
(* them, is destroyed.                                                     *)
ListMerge(l, k) ==
  LET joined == IF links.size[k] = 0 THEN [links EXCEPT !.head[k] = links.head[l]]
                ELSE SetPrev(SetNext(links, links.tail[k], links.head[l]),
                             links.head[l], links.tail[k])
      g == Emptied([joined EXCEPT !.tail[k] = links.tail[l], !.size[k] = @ + links.size[l]], l)
  IN /\ ~links.locked[l] /\ ~links.locked[k] /\ links.size[l] # 0
     /\ links' = Verified(g, k)
     /\ order' = [order EXCEPT ![k] = @ \o order[l], ![l] = <<>>]
     /\ destroyed' = links.size[l]
     /\ UNCHANGED looped

WholeNext ==
  /\ links.ok /\ ~looped
  /\ \E l \in WholeLists :
       \/ \E x, y \in Range(order[l]) : KTcbSwap(l, x, y)
       \/ \E k \in WholeLists \ {l}, n \in Range(order[l]), kernelMode \in BOOLEAN :
            KTcbMove(kernelMode, l, k, n)
       \/ ListDestroy(l)
       \/ \E k \in WholeLists \ {l} : ListMerge(l, k)

WholeSpec == WholeInit /\ [][WholeNext]_wholeVars
------------------------------------------------------------------------------
(* Whatever is swapped, moved, merged and destroyed in whatever order, a   *)
(* list that callers can still use is the doubly linked list of what it    *)
(* should hold.  The calls that break one, merging among them, leave it    *)
(* locked for good; only the swap of two neighbours goes unnoticed.        *)
ListsKept ==
  links.ok /\ ~looped => \A l \in WholeLists : links.locked[l] \/ Links(links, l, order[l])

(* ListDestroy frees all nodes of the list and destroys it.  It does not:  *)
(* it removes each node twice, and writes through NULL for every list but  *)
(* those of no and of two nodes.                                           *)
DestroyCompletes == destroyed # -1 => links.ok
==============================================================================
