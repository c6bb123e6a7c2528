------------------------------ MODULE LinkedList ------------------------------
(***************************************************************************)
(* The doubly linked lists of List.c, at the level of their pointers.  The *)
(* lists are used by one task at a time and by interrupts.  Every call     *)
(* that changes a list holds its lock, and a call that finds it locked     *)
(* changes nothing, so each call is one step; the exception is             *)
(* ListNodeAddSorted, which walks the list without a lock and is taken one *)
(* iteration per step.  Interrupts may come between those steps, unless    *)
(* the caller is in a critical section.                                    *)
(*                                                                         *)
(* A node stands for its ID: IDs are requested from KIdRequest and unique. *)
(* ListMerge, ListDestroy, ListNodeMove and ListNodeSwap are in ListWhole. *)
(***************************************************************************)
EXTENDS Naturals, Sequences, FiniteSets

CONSTANTS
  List,      \* the lists
  Node,      \* the nodes, named by their IDs
  Null,
  Given,     \* the lists that interrupts add nodes to
  Taken,     \* the lists that interrupts remove nodes from
  Unguarded, \* the lists that ListNodeAddSorted is called on outside a critical section
  Byte       \* the range of U8_t, 256

ASSUME ListAssumption ==
  /\ Node \subseteq Nat \ {0}
  /\ Null \notin Node
  /\ Given \subseteq List /\ Taken \subseteq List /\ Unguarded \subseteq List
  /\ Null \notin List
  /\ Byte \in Nat

VARIABLES
  head, tail, size,
  middle,   \* where ListSearch divides a sorted list
  sorted,
  held,     \* the lock that ListIntegrityVerify leaves on a corrupt list
  next, prev, \* node->next_node, node->prev_node
  freed,    \* the nodes that were de-initialised
  add,      \* the call of ListNodeAddSorted that is in progress
  contents  \* history: what each list should hold, in order

lists == <<head, tail, size, middle, sorted, held>>
listVars == <<lists, next, prev, freed, add, contents>>

NoAdd == [pc |-> "none", list |-> Null, node |-> Null, cur |-> Null, nxt |-> Null]

ListsInit ==
  /\ head = [l \in List |-> Null] /\ tail = [l \in List |-> Null]
  /\ middle = [l \in List |-> Null]
  /\ size = [l \in List |-> 0]
  /\ sorted = [l \in List |-> FALSE] /\ held = [l \in List |-> FALSE]
  /\ next = [n \in Node |-> Null] /\ prev = [n \in Node |-> Null]
  /\ freed = Node
  /\ add = NoAdd
  /\ contents = [l \in List |-> <<>>]
------------------------------------------------------------------------------
(* node->id, which ListNodeDeinit sets to 0.                               *)
Id(n) == IF n \in freed THEN 0 ELSE n

(* The nodes an iterator visits: it follows next_node from the head, or    *)
(* prev_node from the tail.                                                *)
ListIterator(start, link) ==
  LET w[i \in Nat] == IF i <= 1 THEN start
                      ELSE IF w[i - 1] = Null THEN Null ELSE link[w[i - 1]]
  IN w

(* ListSearch.  A search of a sorted list starts at the end that middle    *)
(* suggests and stops where the node would have been.                      *)
ListSearch(l, id) ==
  LET halves == sorted[l] /\ middle[l] # Null
      reverse == halves /\ id >= Id(middle[l])
      w == IF reverse THEN ListIterator(tail[l], prev) ELSE ListIterator(head[l], next)
      Past(n) == n # Null /\ (IF reverse THEN id > Id(n) ELSE id < Id(n))
      Stop(i) == w[i] = Null \/ Id(w[i]) = id \/ (halves /\ Past(w[i + 1]))
      last == CHOOSE i \in 1 .. Cardinality(Node) + 1 :
                Stop(i) /\ \A j \in 1 .. i - 1 : ~Stop(j)
  IN IF w[last] # Null /\ Id(w[last]) = id THEN w[last] ELSE Null

(* ListIntegrityVerify.  Its U8_t counters never reach a size of 256: the  *)
(* walk then runs off the end of the list.                                 *)
Corrupt(h, t, sz, nx, pv) ==
  /\ sz # 0
  /\ \/ pv[h] # Null \/ nx[t] # Null
     \/ sz > 1 /\ (nx[h] = Null \/ pv[t] = Null)
     \/ sz >= Byte
     \/ \E i \in 2 .. sz : Null \in {ListIterator(h, nx)[i], ListIterator(t, pv)[i]}

ListIntegrityVerify(l) ==
  held' = [held EXCEPT ![l] = Corrupt(head'[l], tail'[l], size'[l], next', prev')]

Holds(l) == {contents[l][i] : i \in 1 .. Len(contents[l])}

(* Callers add nodes that are in no list.                                  *)
Loose(n) == n # add.node /\ \A l \in List : n \notin Holds(l)

(* Who may call: a task that is in no call, or an interrupt.               *)
MayCall(l, L) == add.pc = "none" \/ (l \in L /\ add.list \in Unguarded)

PutAt(s, i, n) ==
  [j \in 1 .. Len(s) + 1 |-> IF j < i THEN s[j] ELSE IF j = i THEN n ELSE s[j - 1]]

DropAt(s, i) == [j \in 1 .. Len(s) - 1 |-> IF j < i THEN s[j] ELSE s[j + 1]]

IndexOf(s, n) == CHOOSE i \in 1 .. Len(s) : s[i] = n

(* The index that a node gets next to x; x may have left the list.         *)
Place(s, x, where) ==
  IF \E i \in 1 .. Len(s) : s[i] = x
  THEN IF where = "before" THEN IndexOf(s, x) ELSE IndexOf(s, x) + 1
  ELSE Len(s) + 1

KeepSorted(l) == UNCHANGED sorted \* mutant

(* A node added at a given place leaves the list unsorted.                 *)
Unsort(l) == sorted' = [sorted EXCEPT ![l] = FALSE]

LinkForward(l, n, p, q, h, t, i) == \* mutant: prev_node of the following node is not set
  /\ next' = [m \in Node |-> IF m = n THEN q ELSE IF m = p THEN n ELSE next[m]]
  /\ prev' = [prev EXCEPT ![n] = p]
  /\ head' = [head EXCEPT ![l] = h]
  /\ tail' = [tail EXCEPT ![l] = t]
  /\ size' = [size EXCEPT ![l] = @ + 1]
  /\ Unsort(l)
  /\ contents' = [contents EXCEPT ![l] = PutAt(@, i, n)]
  /\ ListIntegrityVerify(l)

(* Put n between p and q, as index i; h and t are the new head and tail.   *)
Link(l, n, p, q, h, t, i) ==
  /\ next' = [m \in Node |-> IF m = n THEN q ELSE IF m = p THEN n ELSE next[m]]
  /\ prev' = [m \in Node |-> IF m = n THEN p ELSE IF m = q THEN n ELSE prev[m]]
  /\ head' = [head EXCEPT ![l] = h]
  /\ tail' = [tail EXCEPT ![l] = t]
  /\ size' = [size EXCEPT ![l] = @ + 1]
  /\ Unsort(l)
  /\ contents' = [contents EXCEPT ![l] = PutAt(@, i, n)]
  /\ ListIntegrityVerify(l)

LinkAt(l, n, x, where) ==
  LET i == Place(contents[l], x, where)
  IN IF size[l] = 0 THEN Link(l, n, Null, Null, n, n, 1)
     ELSE IF where = "before" /\ x \in {Null, head[l]}
     THEN Link(l, n, Null, head[l], n, tail[l], 1)
     ELSE IF where = "after" /\ x = tail[l]
     THEN Link(l, n, x, Null, head[l], n, Len(contents[l]) + 1)
     ELSE IF where = "before" THEN Link(l, n, prev[x], x, head[l], tail[l], i)
     ELSE Link(l, n, x, next[x], head[l], tail[l], i)

MayAdd(l, n) == MayCall(l, Given) /\ ~held[l] /\ Loose(n)

(* ListNodeAddAtNode: x is a node of the list.                             *)
ListNodeAddAtNode(l, n, x, where) ==
  /\ MayAdd(l, n) /\ x \in Holds(l)
  /\ LinkAt(l, n, x, where)
  /\ freed' = freed \ {n}
  /\ UNCHANGED <<middle, add>>

ListNodeAddAtPosition(l, n, position) ==
  /\ MayAdd(l, n)
  /\ IF position = "head" THEN LinkAt(l, n, Null, "before") ELSE LinkAt(l, n, tail[l], "after")
  /\ freed' = freed \ {n}
  /\ UNCHANGED <<middle, add>>

(* The removal of n, which also sets next_node of the nodes N and          *)
(* prev_node of the nodes P; h and t are the new head and tail.            *)
Set(f, S, v) == [m \in Node |-> IF m \in S THEN v ELSE f[m]]

UnlinkForward(l, n, N, nx, P, pv, h, t) == \* mutant: prev_node of the following node is kept
  /\ next' = Set(Set(next, N, nx), {n}, Null)
  /\ prev' = Set(prev, {n}, Null)
  /\ head' = [head EXCEPT ![l] = h]
  /\ tail' = [tail EXCEPT ![l] = t]
  /\ size' = [size EXCEPT ![l] = @ - 1]
  /\ contents' = [contents EXCEPT ![l] = DropAt(@, IndexOf(@, n))]
  /\ ListIntegrityVerify(l)

Unlink(l, n, N, nx, P, pv, h, t) ==
  /\ next' = Set(Set(next, N, nx), {n}, Null)
  /\ prev' = Set(Set(prev, P, pv), {n}, Null)
  /\ head' = [head EXCEPT ![l] = h]
  /\ tail' = [tail EXCEPT ![l] = t]
  /\ size' = [size EXCEPT ![l] = @ - 1]
  /\ contents' = [contents EXCEPT ![l] = DropAt(@, IndexOf(@, n))]
  /\ ListIntegrityVerify(l)

(* ListNodeRemove.  The size it asks for to correct middle is read as 0,   *)
(* because it holds the lock itself: middle keeps pointing to the node.    *)
(* A node that is being added is not known to anyone else yet.             *)
ListNodeRemove(l, n) ==
  LET x == prev[n]  z == next[n]
      other == IF x # Null THEN x ELSE z
  IN /\ MayCall(l, Taken) /\ ~held[l] /\ n \in Holds(l) /\ n # add.node
     /\ IF size[l] = 2 THEN Unlink(l, n, {other}, Null, {other}, Null, other, other)
        ELSE IF size[l] = 1 THEN Unlink(l, n, {}, Null, {}, Null, Null, Null)
        ELSE IF n = head[l] THEN Unlink(l, n, {}, Null, {z}, Null, z, tail[l])
        ELSE IF n = tail[l] THEN Unlink(l, n, {x}, Null, {}, Null, head[l], x)
        ELSE Unlink(l, n, {x}, z, {z}, x, head[l], tail[l])
     /\ UNCHANGED <<middle, sorted, add>>

(* ListNodeRemove by a caller that keeps the node, and ListNodeDeinit.     *)
Take(l, n) == ListNodeRemove(l, n) /\ UNCHANGED freed

ListNodeDeinit(l, n) ==
  add.pc = "none" /\ ListNodeRemove(l, n) /\ freed' = freed \cup {n}

(* ListNodeAddSorted on a list that is not sorted adds at the tail.        *)
AddUnsorted(l, n) ==
  /\ add.pc = "none" /\ MayAdd(l, n)
  /\ ~sorted[l] /\ size[l] # 0
  /\ LinkAt(l, n, tail[l], "after")
  /\ freed' = freed \ {n}
  /\ UNCHANGED <<middle, add>>

(* ListIteratorInit at the head.                                           *)
AddBegin(l, n) ==
  /\ add.pc = "none" /\ Loose(n)
  /\ sorted[l] \/ size[l] = 0
  /\ add' = [pc |-> "walk", list |-> l, node |-> n, cur |-> head[l],
             nxt |-> IF head[l] = Null THEN Null ELSE next[head[l]]]
  /\ freed' = freed \ {n}
  /\ UNCHANGED <<lists, next, prev, contents>>

(* Where the current iteration of the walk adds the node, if it does.      *)
AfterCurrent == add.node > Id(add.cur) \* mutant

AddAfter == add.node > Id(add.cur) /\ (add.nxt # Null => add.node < Id(add.nxt))

AddHere == add.cur # Null => (AddAfter \/ add.node < Id(add.cur))

AddNext ==
  /\ add.pc = "walk" /\ ~AddHere
  /\ add' = IF add.nxt = Null THEN NoAdd
            ELSE [add EXCEPT !.cur = add.nxt, !.nxt = next[add.nxt]]
  /\ UNCHANGED <<lists, next, prev, freed, contents>>

(* AddNode fails when the list has been added to meanwhile, or is locked.  *)
AddNode ==
  LET l == add.list  n == add.node  first == add.cur = Null
  IN /\ add.pc = "walk" /\ AddHere
     /\ IF held[l] \/ (first /\ size[l] # 0)
        THEN add' = NoAdd /\ UNCHANGED <<lists, next, prev, contents>>
        ELSE /\ IF first THEN LinkAt(l, n, Null, "before")
                ELSE LinkAt(l, n, add.cur, IF AddAfter THEN "after" ELSE "before")
             /\ middle' = [middle EXCEPT ![l] = IF first THEN n ELSE @]
             /\ add' = [add EXCEPT !.pc = "done"]
     /\ UNCHANGED freed

(* The steps after the insertion: middle moves with the parity of the size.*)
AddDone ==
  LET l == add.list  m == middle[l]
      step == IF m = Null \/ size[l] % 2 = 0 \/ add.node = Id(m) THEN m
              ELSE IF add.node > Id(m) THEN next[m] ELSE prev[m]
  IN /\ add.pc = "done"
     /\ middle' = [middle EXCEPT ![l] = step]
     /\ sorted' = [sorted EXCEPT ![l] = TRUE]
     /\ add' = NoAdd
     /\ UNCHANGED <<head, tail, size, held, next, prev, freed, contents>>
------------------------------------------------------------------------------
ListsNext ==
  \/ \E l \in List, n \in Node :
       \/ \E x \in Node, where \in {"before", "after"} : ListNodeAddAtNode(l, n, x, where)
       \/ \E position \in {"head", "tail"} : ListNodeAddAtPosition(l, n, position)
       \/ Take(l, n) \/ ListNodeDeinit(l, n)
       \/ AddUnsorted(l, n) \/ AddBegin(l, n)
  \/ AddNext \/ AddNode \/ AddDone

ListsSpec == ListsInit /\ [][ListsNext]_listVars
------------------------------------------------------------------------------
(* The pointers of every list are those of the doubly linked list of what  *)
(* was added and not removed, in order: no node is lost, shared or passed  *)
(* by in one direction only, whatever the calls.                           *)
Intact ==
  \A l \in List :
    LET s == contents[l]
    IN /\ size[l] = Len(s)
       /\ head[l] = (IF s = <<>> THEN Null ELSE s[1])
       /\ tail[l] = (IF s = <<>> THEN Null ELSE s[Len(s)])
       /\ \A i \in 1 .. Len(s) :
            /\ next[s[i]] = (IF i = Len(s) THEN Null ELSE s[i + 1])
            /\ prev[s[i]] = (IF i = 1 THEN Null ELSE s[i - 1])

(* A list that says it is sorted is in ascending order of ID.              *)
SortedOrder ==
  \A l \in List : sorted[l] =>
    \A i, j \in 1 .. Len(contents[l]) : i < j => contents[l][i] < contents[l][j]

(* ListSearch finds a node if and only if the list holds it, although      *)
(* middle may point to a node that has left the list or was freed.         *)
SearchFinds ==
  \A l \in List, n \in Node :
    ListSearch(l, n) = IF n \in Holds(l) THEN n ELSE Null

(* ListIntegrityVerify, which runs at the end of every change, never finds *)
(* a list corrupt and so never leaves one locked for good.                 *)
NeverHeld == \A l \in List : ~held[l]

(* List.h on ListNodeAddSorted: it adds the node to the list, in a sorted  *)
(* manner if the list is sorted.                                           *)
AddsInOrder ==
  add.pc = "done" =>
    LET w == ListIterator(head[add.list], next)
    IN \E i \in 1 .. size[add.list] :
         /\ w[i] = add.node
         /\ i > 1 => w[i - 1] < add.node
         /\ w[i + 1] # Null => add.node < w[i + 1]
===============================================================================
