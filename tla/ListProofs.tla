------------------------------ MODULE ListProofs ------------------------------
(***************************************************************************)
(* Proof that the pointers of List.c represent sequences of nodes, and     *)
(* that lists that say so are sorted, for any number of lists and nodes:   *)
(* the invariants Intact and SortedOrder of LinkedList.                    *)
(***************************************************************************)
EXTENDS LinkedList, FiniteSetTheorems, TLAPS

(* No list that is walked without protection is used by interrupts.        *)
Guarded == Unguarded \cap (Given \cup Taken) = {}

Link0 == Node \cup {Null}

HeapTypes ==
  /\ head \in [List -> Link0] /\ tail \in [List -> Link0]
  /\ size \in [List -> Nat]
  /\ sorted \in [List -> BOOLEAN]
  /\ next \in [Node -> Link0] /\ prev \in [Node -> Link0]
  /\ freed \subseteq Node
  /\ contents \in [List -> Seq(Node)]

CallTypes ==
  /\ middle \in [List -> Link0]
  /\ add \in [pc : {"none", "walk", "done"}, list : List \cup {Null}, node : Link0,
              cur : Link0, nxt : Link0]

(* A node is in one list, once, and has not been freed.                    *)
OnePosition ==
  /\ \A l, k \in List : \A i \in 1 .. Len(contents[l]), j \in 1 .. Len(contents[k]) :
       contents[l][i] = contents[k][j] => l = k /\ i = j
  /\ \A l \in List : \A i \in 1 .. Len(contents[l]) : contents[l][i] \notin freed

Ascending(s) == \A i, j \in 1 .. Len(s) : i < j => s[i] < s[j]

(* ListNodeAddSorted, as long as nobody touches its list: the nodes it has *)
(* passed have lower IDs than the one it adds.                             *)
Walking ==
  /\ add.pc # "none" => add.list \in List /\ add.node \in Node
  /\ add.pc = "none" => add.node = Null
  /\ add.pc = "walk" =>
       LET s == contents[add.list]
       IN /\ \A l \in List : add.node \notin Holds(l)
          /\ add.node \notin freed
          /\ Ascending(s)
          /\ add.cur = Null => s = <<>>
          /\ add.cur # Null => \E i \in 1 .. Len(s) :
               /\ add.cur = s[i]
               /\ add.nxt = (IF i = Len(s) THEN Null ELSE s[i + 1])
               /\ \A j \in 1 .. i - 1 : s[j] < add.node
  /\ add.pc = "done" => Ascending(contents[add.list])

HeapInv == HeapTypes /\ OnePosition /\ Intact

ListInv == HeapInv /\ SortedOrder /\ CallTypes /\ Walking
------------------------------------------------------------------------------
LEMMA InsertIs ==
  ASSUME NEW S, NEW s \in Seq(S), NEW n \in S, NEW i \in 1 .. Len(s) + 1
  PROVE  /\ PutAt(s, i, n) \in Seq(S)
         /\ Len(PutAt(s, i, n)) = Len(s) + 1
         /\ \A j \in 1 .. Len(s) + 1 :
              PutAt(s, i, n)[j] = IF j < i THEN s[j] ELSE IF j = i THEN n ELSE s[j - 1]
BY SMT DEF PutAt

LEMMA RemoveIs ==
  ASSUME NEW S, NEW s \in Seq(S), NEW i \in 1 .. Len(s)
  PROVE  /\ DropAt(s, i) \in Seq(S)
         /\ Len(DropAt(s, i)) = Len(s) - 1
         /\ \A j \in 1 .. Len(s) - 1 :
              DropAt(s, i)[j] = IF j < i THEN s[j] ELSE s[j + 1]
BY SMT DEF DropAt

Injective(s) == \A i, j \in 1 .. Len(s) : s[i] = s[j] => i = j

(* What inserting does to the set of the elements.                         *)
LEMMA InsertElements ==
  ASSUME NEW S, NEW s \in Seq(S), NEW n \in S, NEW i \in 1 .. Len(s) + 1,
         Injective(s), \A j \in 1 .. Len(s) : s[j] # n
  PROVE  /\ Injective(PutAt(s, i, n))
         /\ \A j \in 1 .. Len(PutAt(s, i, n)) :
              PutAt(s, i, n)[j] = n \/ \E m \in 1 .. Len(s) : PutAt(s, i, n)[j] = s[m]
<1> DEFINE r == PutAt(s, i, n)
<1>1. /\ Len(s) \in Nat /\ Len(r) = Len(s) + 1
      /\ \A j \in 1 .. Len(s) + 1 : r[j] = IF j < i THEN s[j] ELSE IF j = i THEN n ELSE s[j - 1]
  BY InsertIs
<1> HIDE DEF r
<1>2. \A j \in 1 .. Len(r) : (j < i => j \in 1 .. Len(s)) /\ (j > i => j - 1 \in 1 .. Len(s))
  BY <1>1
<1>3. Injective(r)
  <2>1. ASSUME NEW j \in 1 .. Len(r), NEW m \in 1 .. Len(r), r[j] = r[m] PROVE j = m
    <3>1. CASE j = i \/ m = i
      BY <1>1, <1>2, <2>1, <3>1
    <3>2. CASE j # i /\ m # i
      BY <1>1, <1>2, <2>1, <3>2, SMTT(30) DEF Injective
    <3>3. QED BY <3>1, <3>2
  <2>2. QED BY <2>1 DEF Injective
<1>4. ASSUME NEW j \in 1 .. Len(r) PROVE r[j] = n \/ \E m \in 1 .. Len(s) : r[j] = s[m]
  BY <1>1, <1>2, <1>4
<1>5. QED BY <1>3, <1>4 DEF r

LEMMA RemoveElements ==
  ASSUME NEW S, NEW s \in Seq(S), NEW i \in 1 .. Len(s), Injective(s)
  PROVE  /\ Injective(DropAt(s, i))
         /\ \A j \in 1 .. Len(DropAt(s, i)) :
              \E m \in 1 .. Len(s) : m # i /\ DropAt(s, i)[j] = s[m]
<1> DEFINE r == DropAt(s, i)
<1>1. /\ Len(s) \in Nat /\ Len(r) = Len(s) - 1
      /\ \A j \in 1 .. Len(s) - 1 : r[j] = IF j < i THEN s[j] ELSE s[j + 1]
  BY RemoveIs
<1> HIDE DEF r
<1>2. Injective(r)
  <2>1. ASSUME NEW j \in 1 .. Len(r), NEW m \in 1 .. Len(r), r[j] = r[m] PROVE j = m
    BY <1>1, <2>1 DEF Injective
  <2>2. QED BY <2>1 DEF Injective
<1>3. ASSUME NEW j \in 1 .. Len(r) PROVE \E m \in 1 .. Len(s) : m # i /\ r[j] = s[m]
  BY <1>1, <1>3
<1>4. QED BY <1>2, <1>3 DEF r

LEMMA IndexIs ==
  ASSUME NEW s, NEW i \in 1 .. Len(s)
  PROVE  IndexOf(s, s[i]) \in 1 .. Len(s) /\ s[IndexOf(s, s[i])] = s[i]
BY DEF IndexOf

LEMMA InitListInv == ListsInit => ListInv
BY ListAssumption
DEF ListsInit, ListInv, HeapInv, HeapTypes, CallTypes, OnePosition, Intact, SortedOrder, Walking, NoAdd, Link0
------------------------------------------------------------------------------
(* The pointers of one list represent the sequence s.                      *)
Repr(h, t, sz, nx, pv, s) ==
  /\ sz = Len(s)
  /\ Len(s) = 0 => h = Null /\ t = Null
  /\ Len(s) # 0 => h = s[1] /\ t = s[Len(s)]
  /\ \A i \in 1 .. Len(s) :
       /\ nx[s[i]] = (IF i = Len(s) THEN Null ELSE s[i + 1])
       /\ pv[s[i]] = (IF i = 1 THEN Null ELSE s[i - 1])

LEMMA IntactIs ==
  ASSUME HeapTypes
  PROVE  Intact <=> \A l \in List :
           Repr(head[l], tail[l], size[l], next, prev, contents[l])
<1>1. \A l \in List : contents[l] \in Seq(Node)
  BY DEF HeapTypes
<1>2. \A l \in List : contents[l] = <<>> <=> Len(contents[l]) = 0
  BY <1>1
<1>3. QED BY <1>2 DEF Intact, Repr

LEMMA IntactIsNext ==
  ASSUME HeapTypes'
  PROVE  Intact' <=> \A l \in List :
           Repr(head'[l], tail'[l], size'[l], next', prev', contents'[l])
<1>1. \A l \in List : contents'[l] \in Seq(Node)
  BY DEF HeapTypes
<1>2. \A l \in List : contents'[l] = <<>> <=> Len(contents'[l]) = 0
  BY <1>1
<1>3. QED BY <1>2 DEF Intact, Repr

(* The arguments with which Link puts n at index i of the list that        *)
(* represents s, and what it does to the pointers.                         *)
Placed(s, h, t, n, p, q, h2, t2, i) ==
  /\ p \in Link0 /\ q \in Link0 /\ h2 \in Link0 /\ t2 \in Link0
  /\ i = 1 => p = Null /\ h2 = n
  /\ i # 1 => p = s[i - 1] /\ h2 = h
  /\ i = Len(s) + 1 => q = Null /\ t2 = n
  /\ i # Len(s) + 1 => q = s[i] /\ t2 = t

Linked(nx, pv, nx2, pv2, n, p, q) ==
  \A m \in Node : /\ nx2[m] = IF m = n THEN q ELSE IF m = p THEN n ELSE nx[m]
                  /\ pv2[m] = IF m = n THEN p ELSE IF m = q THEN n ELSE pv[m]

LEMMA InsertRepr ==
  ASSUME NEW s \in Seq(Node), Injective(s), NEW n \in Node, NEW h, NEW t, NEW sz,
         NEW nx, NEW pv, Repr(h, t, sz, nx, pv, s),
         \A j \in 1 .. Len(s) : s[j] # n,
         NEW i \in 1 .. Len(s) + 1, NEW p, NEW q, NEW h2, NEW t2,
         Placed(s, h, t, n, p, q, h2, t2, i),
         NEW nx2, NEW pv2, Linked(nx, pv, nx2, pv2, n, p, q)
  PROVE  Repr(h2, t2, sz + 1, nx2, pv2, PutAt(s, i, n))
<1> USE DEF Placed, Linked
<1> DEFINE r == PutAt(s, i, n)
<1>1. /\ Len(r) = Len(s) + 1
      /\ \A j \in 1 .. Len(s) + 1 : r[j] = IF j < i THEN s[j] ELSE IF j = i THEN n ELSE s[j - 1]
  BY InsertIs
<1>2. \A j \in 1 .. Len(s) : s[j] \in Node
  OBVIOUS
<1>3. Len(s) \in Nat
  OBVIOUS
<1> HIDE DEF r
<1>4. h2 = r[1] /\ t2 = r[Len(r)]
  BY <1>1, <1>3 DEF Repr
<1>5. ASSUME NEW j \in 1 .. Len(r)
      PROVE  /\ nx2[r[j]] = (IF j = Len(r) THEN Null ELSE r[j + 1])
             /\ pv2[r[j]] = (IF j = 1 THEN Null ELSE r[j - 1])
  <2>1. CASE j < i
    <3>1. r[j] = s[j] /\ j \in 1 .. Len(s) /\ s[j] # n
      BY <1>1, <1>3, <1>5, <2>1
    <3>2. s[j] = p <=> j = i - 1
      BY <1>2, <1>3, <3>1, <2>1, ListAssumption DEF Injective
    <3>3. s[j] # q
      BY <1>2, <1>3, <3>1, <2>1, ListAssumption DEF Injective
    <3>4. nx2[r[j]] = IF j = i - 1 THEN n ELSE nx[s[j]]
      BY <1>2, <3>1, <3>2
    <3>5. pv2[r[j]] = pv[s[j]]
      BY <1>2, <3>1, <3>3
    <3>6. nx2[r[j]] = (IF j = Len(r) THEN Null ELSE r[j + 1])
      BY <1>1, <1>3, <2>1, <3>1, <3>4 DEF Repr
    <3>7. pv2[r[j]] = (IF j = 1 THEN Null ELSE r[j - 1])
      BY <1>1, <1>3, <2>1, <3>1, <3>5 DEF Repr
    <3>8. QED BY <3>6, <3>7
  <2>2. CASE j = i
    <3>1. r[j] = n /\ nx2[n] = q /\ pv2[n] = p
      BY <1>1, <1>3, <2>2
    <3>2. q = (IF j = Len(r) THEN Null ELSE r[j + 1])
      BY <1>1, <1>3, <2>2
    <3>3. p = (IF j = 1 THEN Null ELSE r[j - 1])
      BY <1>1, <1>3, <2>2
    <3>4. QED BY <3>1, <3>2, <3>3
  <2>3. CASE j > i
    <3>1. r[j] = s[j - 1] /\ j - 1 \in 1 .. Len(s) /\ s[j - 1] # n
      BY <1>1, <1>3, <1>5, <2>3
    <3>2. s[j - 1] = q <=> j - 1 = i
      BY <1>2, <1>3, <3>1, <2>3, ListAssumption DEF Injective
    <3>3. s[j - 1] # p
      BY <1>2, <1>3, <3>1, <2>3, ListAssumption DEF Injective
    <3>4. pv2[r[j]] = IF j - 1 = i THEN n ELSE pv[s[j - 1]]
      BY <1>2, <3>1, <3>2
    <3>5. nx2[r[j]] = nx[s[j - 1]]
      BY <1>2, <3>1, <3>3
    <3>6. nx2[r[j]] = (IF j = Len(r) THEN Null ELSE r[j + 1])
      BY <1>1, <1>3, <2>3, <3>1, <3>5 DEF Repr
    <3>7. pv2[r[j]] = (IF j = 1 THEN Null ELSE r[j - 1])
      BY <1>1, <1>3, <2>3, <3>1, <3>4 DEF Repr
    <3>8. QED BY <3>6, <3>7
  <2>4. QED BY <1>1, <1>3, <1>5, <2>1, <2>2, <2>3
<1>6. QED BY <1>1, <1>3, <1>4, <1>5 DEF Repr, r

(* A list whose nodes keep their pointers still represents its sequence.   *)
LEMMA OtherRepr ==
  ASSUME NEW s \in Seq(Node), NEW h, NEW t, NEW sz, NEW nx, NEW pv, NEW nx2, NEW pv2,
         Repr(h, t, sz, nx, pv, s),
         \A i \in 1 .. Len(s) : nx2[s[i]] = nx[s[i]] /\ pv2[s[i]] = pv[s[i]]
  PROVE  Repr(h, t, sz, nx2, pv2, s)
BY DEF Repr

(* The arguments and the effect of Unlink on the node at index i of s.     *)
Ends(s, h, t, h2, t2, i) ==
  /\ h2 \in Link0 /\ t2 \in Link0
  /\ Len(s) = 1 => h2 = Null /\ t2 = Null
  /\ Len(s) # 1 => h2 = (IF i = 1 THEN s[2] ELSE h) /\ t2 = (IF i = Len(s) THEN s[i - 1] ELSE t)

Unlinked(s, nx, pv, nx2, pv2, i) ==
  \A j \in 1 .. Len(s) : j # i =>
    /\ nx2[s[j]] = IF j = i - 1 THEN (IF i = Len(s) THEN Null ELSE s[i + 1]) ELSE nx[s[j]]
    /\ pv2[s[j]] = IF j = i + 1 THEN (IF i = 1 THEN Null ELSE s[i - 1]) ELSE pv[s[j]]

LEMMA RemoveRepr ==
  ASSUME NEW s \in Seq(Node), NEW h, NEW t, NEW sz, NEW nx, NEW pv,
         Repr(h, t, sz, nx, pv, s), NEW i \in 1 .. Len(s), NEW nx2, NEW pv2,
         Unlinked(s, nx, pv, nx2, pv2, i), NEW h2, NEW t2, Ends(s, h, t, h2, t2, i)
  PROVE  Repr(h2, t2, sz - 1, nx2, pv2, DropAt(s, i))
<1> USE DEF Unlinked, Ends
<1> DEFINE r == DropAt(s, i)
<1>1. /\ Len(r) = Len(s) - 1
      /\ \A j \in 1 .. Len(s) - 1 : r[j] = IF j < i THEN s[j] ELSE s[j + 1]
  BY RemoveIs
<1>2. Len(s) \in Nat
  OBVIOUS
<1> HIDE DEF r
<1>3. Len(r) # 0 => h2 = r[1] /\ t2 = r[Len(r)]
  BY <1>1, <1>2 DEF Repr
<1>4. ASSUME NEW j \in 1 .. Len(r)
      PROVE  /\ nx2[r[j]] = (IF j = Len(r) THEN Null ELSE r[j + 1])
             /\ pv2[r[j]] = (IF j = 1 THEN Null ELSE r[j - 1])
  <2>1. CASE j < i
    <3>1. r[j] = s[j] /\ j \in 1 .. Len(s) /\ j # i
      BY <1>1, <1>2, <1>4, <2>1
    <3>2. nx2[s[j]] = (IF j = Len(r) THEN Null ELSE r[j + 1])
      <4>1. CASE j = i - 1
        BY <1>1, <1>2, <1>4, <2>1, <3>1, <4>1 DEF Repr
      <4>2. CASE j # i - 1
        <5>1. j + 1 < i /\ j # Len(s) /\ j # Len(r) /\ r[j + 1] = s[j + 1]
          BY <1>1, <1>2, <1>4, <2>1, <4>2
        <5>2. nx2[s[j]] = nx[s[j]] /\ nx[s[j]] = s[j + 1]
          BY <3>1, <4>2, <5>1 DEF Repr
        <5>3. QED BY <5>1, <5>2
      <4>3. QED BY <4>1, <4>2
    <3>3. pv2[s[j]] = (IF j = 1 THEN Null ELSE r[j - 1])
      BY <1>1, <1>2, <1>4, <2>1, <3>1 DEF Repr
    <3>4. QED BY <3>1, <3>2, <3>3
  <2>2. CASE j >= i
    <3>1. r[j] = s[j + 1] /\ j + 1 \in 1 .. Len(s) /\ j + 1 # i /\ j + 1 # i - 1
      BY <1>1, <1>2, <1>4, <2>2
    <3>2. nx2[s[j + 1]] = nx[s[j + 1]]
      BY <3>1
    <3>3. nx2[r[j]] = (IF j = Len(r) THEN Null ELSE r[j + 1])
      BY <1>1, <1>2, <1>4, <2>2, <3>1, <3>2 DEF Repr
    <3>4. pv2[r[j]] = (IF j = 1 THEN Null ELSE r[j - 1])
      <4>1. CASE j = i
        BY <1>1, <1>2, <1>4, <3>1, <4>1
      <4>2. CASE j # i
        <5>1. pv2[s[j + 1]] = pv[s[j + 1]] /\ pv[s[j + 1]] = s[j]
          BY <1>2, <2>2, <3>1, <4>2 DEF Repr
        <5>2. j # 1 /\ r[j - 1] = s[j]
          BY <1>1, <1>2, <1>4, <2>2, <4>2
        <5>3. QED BY <3>1, <5>1, <5>2
      <4>3. QED BY <4>1, <4>2
    <3>5. QED BY <3>3, <3>4
  <2>3. QED BY <1>1, <1>2, <1>4, <2>1, <2>2
<1>5. QED BY <1>1, <1>2, <1>3, <1>4 DEF Repr, r
------------------------------------------------------------------------------
LEMMA LinkHeap ==
  ASSUME HeapInv, NEW l \in List, NEW n \in Node, \A k \in List : n \notin Holds(k),
         NEW i \in 1 .. Len(contents[l]) + 1, NEW p, NEW q, NEW h, NEW t,
         Placed(contents[l], head[l], tail[l], n, p, q, h, t, i), Link(l, n, p, q, h, t, i), freed' = freed \ {n}
  PROVE  HeapInv'
<1>1. contents[l] \in Seq(Node) /\ Len(contents[l]) \in Nat
  BY DEF HeapInv, HeapTypes
<1>2. /\ contents'[l] = PutAt(contents[l], i, n)
      /\ \A k \in List : k # l => contents'[k] = contents[k]
  BY DEF Link, HeapInv, HeapTypes
<1>3. HeapTypes'
  <2>1. PutAt(contents[l], i, n) \in Seq(Node)
    BY <1>1, InsertIs
  <2>2. contents' \in [List -> Seq(Node)]
    BY <2>1 DEF Link, HeapInv, HeapTypes
  <2>3. next' \in [Node -> Link0] /\ prev' \in [Node -> Link0]
    BY DEF Link, Placed, HeapInv, HeapTypes, Link0
  <2>4. QED BY <2>2, <2>3 DEF Link, Placed, Unsort, HeapInv, HeapTypes
<1>4. /\ Injective(contents'[l])
      /\ \A j \in 1 .. Len(contents'[l]) : \/ contents'[l][j] = n
                                           \/ \E m \in 1 .. Len(contents[l]) :
                                                contents'[l][j] = contents[l][m]
  <2>1. Injective(contents[l]) /\ \A j \in 1 .. Len(contents[l]) : contents[l][j] # n
    BY DEF HeapInv, OnePosition, Injective, Holds
  <2>2. /\ Injective(PutAt(contents[l], i, n))
        /\ \A j \in 1 .. Len(PutAt(contents[l], i, n)) :
             \/ PutAt(contents[l], i, n)[j] = n
             \/ \E m \in 1 .. Len(contents[l]) : PutAt(contents[l], i, n)[j] = contents[l][m]
    BY <1>1, <2>1, InsertElements
  <2>3. QED BY <1>2, <2>2
<1>5. \A k \in List : \A j \in 1 .. Len(contents[k]) : contents[k][j] # n
  BY DEF Holds
<1>6. OnePosition'
  <2>1. ASSUME NEW a \in List, NEW b \in List, NEW j \in 1 .. Len(contents'[a]),
               NEW m \in 1 .. Len(contents'[b]), contents'[a][j] = contents'[b][m]
        PROVE  a = b /\ j = m
    <3>1. CASE a = l /\ b = l
      BY <1>4, <2>1, <3>1 DEF Injective
    <3>2. \A x, y \in List : \A u \in 1 .. Len(contents'[x]), v \in 1 .. Len(contents'[y]) :
            x = l /\ y # l => contents'[x][u] # contents'[y][v]
      <4> SUFFICES ASSUME NEW y \in List, y # l, NEW u \in 1 .. Len(contents'[l]),
                          NEW v \in 1 .. Len(contents'[y]), contents'[l][u] = contents'[y][v]
                   PROVE  FALSE
        OBVIOUS
      <4>1. contents'[y] = contents[y] /\ v \in 1 .. Len(contents[y]) /\ contents[y][v] # n
        BY <1>2, <1>5
      <4>2. PICK w \in 1 .. Len(contents[l]) : contents'[l][u] = contents[l][w]
        BY <1>4, <4>1
      <4>3. QED BY <4>1, <4>2 DEF HeapInv, OnePosition
    <3>3. CASE a = l <=> b # l
      BY <2>1, <3>2, <3>3
    <3>4. CASE a # l /\ b # l
      <4>1. contents'[a] = contents[a] /\ contents'[b] = contents[b]
        BY <1>2, <3>4
      <4>2. contents[a][j] = contents[b][m]
        BY <2>1, <4>1
      <4>3. j \in 1 .. Len(contents[a]) /\ m \in 1 .. Len(contents[b])
        BY <4>1
      <4>4. \A c, d \in List : \A u \in 1 .. Len(contents[c]), v \in 1 .. Len(contents[d]) :
              contents[c][u] = contents[d][v] => c = d /\ u = v
        BY DEF HeapInv, OnePosition
      <4>5. QED BY <4>2, <4>3, <4>4
    <3>5. QED BY <3>1, <3>2, <3>3, <3>4
  <2>2. ASSUME NEW a \in List, NEW j \in 1 .. Len(contents'[a])
        PROVE  contents'[a][j] \notin freed'
    <3>1. CASE a = l
      BY <1>4, <2>2, <3>1 DEF HeapInv, OnePosition
    <3>2. CASE a # l
      BY <1>2, <2>2, <3>2 DEF HeapInv, OnePosition
    <3>3. QED BY <3>1, <3>2
  <2>3. QED BY <2>1, <2>2 DEF OnePosition
<1>7. Intact'
  <2> SUFFICES ASSUME NEW k \in List
               PROVE  Repr(head'[k], tail'[k], size'[k], next', prev', contents'[k])
    BY <1>3, IntactIsNext
  <2>1. Repr(head[k], tail[k], size[k], next, prev, contents[k])
    BY IntactIs DEF HeapInv
  <2>2. /\ \A m \in Node : next'[m] = IF m = n THEN q ELSE IF m = p THEN n ELSE next[m]
        /\ \A m \in Node : prev'[m] = IF m = n THEN p ELSE IF m = q THEN n ELSE prev[m]
    BY DEF Link
  <2>3. CASE k = l
    <3>1. /\ next \in [Node -> Link0] /\ prev \in [Node -> Link0]
          /\ next' \in [Node -> Link0] /\ prev' \in [Node -> Link0]
      BY <1>3 DEF HeapInv, HeapTypes
    <3>2. head'[l] = h /\ tail'[l] = t /\ size'[l] = size[l] + 1
      BY DEF Link, HeapInv, HeapTypes
    <3>3. Injective(contents[l])
      BY DEF HeapInv, OnePosition, Injective
    <3>4. \A j \in 1 .. Len(contents[l]) : contents[l][j] # n
      BY <1>5
    <3>5. Linked(next, prev, next', prev', n, p, q)
      BY <2>2 DEF Linked
    <3>7. Repr(h, t, size[l] + 1, next', prev', PutAt(contents[l], i, n))
      BY <1>1, <2>1, <2>3, <3>3, <3>4, <3>5, InsertRepr
    <3>6. QED BY <1>2, <2>3, <3>2, <3>7
  <2>4. CASE k # l
    <3>1. \A j \in 1 .. Len(contents[k]) : contents[k][j] # p /\ contents[k][j] # q
      <4>1. ASSUME NEW j \in 1 .. Len(contents[k])
            PROVE  contents[k][j] # p /\ contents[k][j] # q
        <5>1. contents[k][j] \in Node
          BY DEF HeapInv, HeapTypes
        <5>2. \A m \in 1 .. Len(contents[l]) : contents[k][j] # contents[l][m]
          BY <2>4 DEF HeapInv, OnePosition
        <5>3. p = Null \/ \E m \in 1 .. Len(contents[l]) : p = contents[l][m]
          BY <1>1 DEF Placed
        <5>4. q = Null \/ \E m \in 1 .. Len(contents[l]) : q = contents[l][m]
          BY <1>1 DEF Placed
        <5>5. QED BY <5>1, <5>2, <5>3, <5>4, ListAssumption
      <4>2. QED BY <4>1
    <3>2. contents[k] \in Seq(Node) /\ \A j \in 1 .. Len(contents[k]) : contents[k][j] \in Node
      BY DEF HeapInv, HeapTypes
    <3>3. \A j \in 1 .. Len(contents[k]) :
            next'[contents[k][j]] = next[contents[k][j]] /\ prev'[contents[k][j]] = prev[contents[k][j]]
      BY <1>5, <2>2, <3>1, <3>2
    <3>4. head'[k] = head[k] /\ tail'[k] = tail[k] /\ size'[k] = size[k]
      BY <2>4 DEF Link, HeapInv, HeapTypes
    <3>5. QED BY <1>2, <2>1, <2>4, <3>2, <3>3, <3>4, OtherRepr
  <2>5. QED BY <2>3, <2>4
<1>8. QED BY <1>3, <1>6, <1>7 DEF HeapInv

(* Where LinkAt puts n: next to x, which is in the list, or first.         *)
LEMMA LinkAtHeap ==
  ASSUME HeapInv, NEW l \in List, NEW n \in Node, \A k \in List : n \notin Holds(k),
         NEW x, NEW where \in {"before", "after"}, LinkAt(l, n, x, where),
         freed' = freed \ {n}, NEW i \in 1 .. Len(contents[l]) + 1,
         \/ Len(contents[l]) = 0
         \/ x = Null /\ where = "before" /\ i = 1
         \/ \E k \in 1 .. Len(contents[l]) :
              x = contents[l][k] /\ i = (IF where = "before" THEN k ELSE k + 1)
  PROVE  /\ HeapInv'
         /\ contents' = [contents EXCEPT ![l] = PutAt(contents[l], i, n)]
         /\ sorted' = [sorted EXCEPT ![l] = FALSE]
<1> DEFINE s == contents[l]
<1>1. s \in Seq(Node) /\ Len(s) \in Nat /\ \A k \in 1 .. Len(s) : s[k] \in Node
  BY DEF HeapInv, HeapTypes
<1>2. Repr(head[l], tail[l], size[l], next, prev, s)
  BY IntactIs DEF HeapInv
<1>3. head[l] \in Link0 /\ tail[l] \in Link0 /\ Null \in Link0 /\ n \in Link0
      /\ \A k \in 1 .. Len(s) : s[k] \in Link0
  BY <1>1 DEF HeapInv, HeapTypes, Link0
<1> SUFFICES \E p, q, h, t : Placed(s, head[l], tail[l], n, p, q, h, t, i)
                             /\ Link(l, n, p, q, h, t, i)
  <2>1. PICK p, q, h, t : Placed(s, head[l], tail[l], n, p, q, h, t, i)
                          /\ Link(l, n, p, q, h, t, i)
    OBVIOUS
  <2>2. HeapInv'
    BY <2>1, LinkHeap
  <2>3. QED BY <2>1, <2>2 DEF Link, Unsort
<1>4. CASE Len(s) = 0
  <2>1. size[l] = 0 /\ i = 1
    BY <1>1, <1>2, <1>4 DEF Repr
  <2>2. Link(l, n, Null, Null, n, n, i)
    BY <2>1 DEF LinkAt
  <2>3. Placed(s, head[l], tail[l], n, Null, Null, n, n, i)
    BY <1>1, <1>3, <1>4, <2>1 DEF Placed
  <2>4. QED BY <2>2, <2>3
<1>5. CASE Len(s) # 0 /\ x = Null
  <2>1. size[l] # 0 /\ i = 1 /\ where = "before" /\ head[l] = s[1]
    BY <1>1, <1>2, <1>5, ListAssumption DEF Repr
  <2>2. Link(l, n, Null, head[l], n, tail[l], i)
    BY <1>5, <2>1 DEF LinkAt
  <2>3. Placed(s, head[l], tail[l], n, Null, head[l], n, tail[l], i)
    BY <1>1, <1>3, <1>5, <2>1 DEF Placed
  <2>4. QED BY <2>2, <2>3
<1>6. CASE Len(s) # 0 /\ x # Null
  <2>1. PICK k \in 1 .. Len(s) : x = s[k] /\ i = (IF where = "before" THEN k ELSE k + 1)
    BY <1>6
  <2>2. /\ size[l] # 0 /\ head[l] = s[1] /\ tail[l] = s[Len(s)]
        /\ next[x] = (IF k = Len(s) THEN Null ELSE s[k + 1])
        /\ prev[x] = (IF k = 1 THEN Null ELSE s[k - 1])
    BY <1>1, <1>2, <1>6, <2>1 DEF Repr
  <2>3. (x = head[l] <=> k = 1) /\ (x = tail[l] <=> k = Len(s))
    BY <1>1, <1>6, <2>1, <2>2 DEF HeapInv, OnePosition
  <2>4. Place(s, x, where) = i
    <3>1. IndexOf(s, x) \in 1 .. Len(s) /\ s[IndexOf(s, x)] = s[k]
      BY <2>1, IndexIs
    <3>2. IndexOf(s, x) = k
      BY <3>1 DEF HeapInv, OnePosition
    <3>3. QED BY <2>1, <3>2 DEF Place
  <2>5. CASE where = "before" /\ k = 1
    <3>1. Link(l, n, Null, head[l], n, tail[l], i)
      BY <2>1, <2>2, <2>3, <2>5 DEF LinkAt
    <3>2. Placed(s, head[l], tail[l], n, Null, head[l], n, tail[l], i)
      BY <1>1, <1>3, <1>6, <2>1, <2>2, <2>5 DEF Placed
    <3>3. QED BY <3>1, <3>2
  <2>6. CASE where = "after" /\ k = Len(s)
    <3>1. Link(l, n, x, Null, head[l], n, i)
      BY <2>1, <2>2, <2>3, <2>6 DEF LinkAt
    <3>2. Placed(s, head[l], tail[l], n, x, Null, head[l], n, i)
      BY <1>1, <1>3, <1>6, <2>1, <2>2, <2>6 DEF Placed
    <3>3. QED BY <3>1, <3>2
  <2>7. CASE where = "before" /\ k # 1
    <3>1. Link(l, n, prev[x], x, head[l], tail[l], i)
      BY <1>6, <2>2, <2>3, <2>4, <2>7 DEF LinkAt
    <3>2. Placed(s, head[l], tail[l], n, prev[x], x, head[l], tail[l], i)
      BY <1>1, <1>3, <1>6, <2>1, <2>2, <2>7 DEF Placed
    <3>3. QED BY <3>1, <3>2
  <2>8. CASE where = "after" /\ k # Len(s)
    <3>1. Link(l, n, x, next[x], head[l], tail[l], i)
      BY <1>6, <2>2, <2>3, <2>4, <2>8 DEF LinkAt
    <3>2. Placed(s, head[l], tail[l], n, x, next[x], head[l], tail[l], i)
      BY <1>1, <1>3, <1>6, <2>1, <2>2, <2>8 DEF Placed
    <3>3. QED BY <3>1, <3>2
  <2>9. QED BY <2>5, <2>6, <2>7, <2>8
<1>7. QED BY <1>4, <1>5, <1>6

LEMMA UnlinkHeap ==
  ASSUME HeapInv, NEW l \in List, NEW i \in 1 .. Len(contents[l]), NEW n, n = contents[l][i],
         NEW N, NEW nx, NEW P, NEW pv, NEW h, NEW t, nx \in Link0, pv \in Link0,
         Unlink(l, n, N, nx, P, pv, h, t), Ends(contents[l], head[l], tail[l], h, t, i),
         Unlinked(contents[l], next, prev, next', prev', i),
         \A k \in List : k # l => \A j \in 1 .. Len(contents[k]) :
            contents[k][j] \notin N /\ contents[k][j] \notin P,
         freed' \in SUBSET (freed \cup {n}), UNCHANGED sorted
  PROVE  HeapInv' /\ contents' = [contents EXCEPT ![l] = DropAt(contents[l], i)]
<1>1. contents[l] \in Seq(Node) /\ Len(contents[l]) \in Nat /\ n \in Node
  BY DEF HeapInv, HeapTypes
<1>2. IndexOf(contents[l], n) = i
  <2>1. /\ IndexOf(contents[l], n) \in 1 .. Len(contents[l])
        /\ contents[l][IndexOf(contents[l], n)] = contents[l][i]
    BY IndexIs
  <2>2. QED BY <2>1 DEF HeapInv, OnePosition
<1>3. contents' = [contents EXCEPT ![l] = DropAt(contents[l], i)]
  BY <1>2 DEF Unlink
<1>4. /\ contents'[l] = DropAt(contents[l], i)
      /\ \A k \in List : k # l => contents'[k] = contents[k]
  BY <1>3 DEF HeapInv, HeapTypes
<1>5. HeapTypes'
  <2>1. DropAt(contents[l], i) \in Seq(Node)
    BY <1>1, RemoveIs
  <2>2. contents' \in [List -> Seq(Node)]
    BY <1>3, <2>1 DEF HeapInv, HeapTypes
  <2>3. next' \in [Node -> Link0] /\ prev' \in [Node -> Link0]
    BY DEF Unlink, Set, HeapInv, HeapTypes, Link0
  <2>4. size' \in [List -> Nat]
    <3>1. size[l] = Len(contents[l])
      BY IntactIs DEF HeapInv, Repr
    <3>2. size[l] - 1 \in Nat
      BY <1>1, <3>1
    <3>3. QED BY <3>2 DEF Unlink, HeapInv, HeapTypes
  <2>5. head' \in [List -> Link0] /\ tail' \in [List -> Link0] /\ freed' \subseteq Node
    BY <1>1 DEF Unlink, Ends, HeapInv, HeapTypes
  <2>6. QED BY <2>2, <2>3, <2>4, <2>5 DEF HeapInv, HeapTypes
<1>6. /\ Injective(contents'[l])
      /\ \A j \in 1 .. Len(contents'[l]) :
           \E m \in 1 .. Len(contents[l]) : m # i /\ contents'[l][j] = contents[l][m]
  <2>1. Injective(contents[l])
    BY DEF HeapInv, OnePosition, Injective
  <2>2. /\ Injective(DropAt(contents[l], i))
        /\ \A j \in 1 .. Len(DropAt(contents[l], i)) :
             \E m \in 1 .. Len(contents[l]) : m # i /\ DropAt(contents[l], i)[j] = contents[l][m]
    BY <1>1, <2>1, RemoveElements
  <2>3. QED BY <1>4, <2>2
<1>7. OnePosition'
  <2>1. \A k \in List : \A j \in 1 .. Len(contents'[k]) :
          \E m \in 1 .. Len(contents[k]) : contents'[k][j] = contents[k][m] /\ contents[k][m] # n
    <3>1. ASSUME NEW k \in List, NEW j \in 1 .. Len(contents'[k])
          PROVE  \E m \in 1 .. Len(contents[k]) :
                   contents'[k][j] = contents[k][m] /\ contents[k][m] # n
      <4>1. CASE k = l
        BY <1>6, <3>1, <4>1 DEF HeapInv, OnePosition
      <4>2. CASE k # l
        BY <1>4, <3>1, <4>2 DEF HeapInv, OnePosition
      <4>3. QED BY <4>1, <4>2
    <3>2. QED BY <3>1
  <2>2. ASSUME NEW a \in List, NEW b \in List, NEW j \in 1 .. Len(contents'[a]),
               NEW m \in 1 .. Len(contents'[b]), contents'[a][j] = contents'[b][m]
        PROVE  a = b /\ j = m
    <3>1. PICK u \in 1 .. Len(contents[a]) : contents'[a][j] = contents[a][u]
      BY <2>1, <2>2
    <3>2. PICK v \in 1 .. Len(contents[b]) : contents'[b][m] = contents[b][v]
      BY <2>1, <2>2
    <3>3. a = b
      <4>1. contents[a][u] = contents[b][v]
        BY <2>2, <3>1, <3>2
      <4>2. QED BY <4>1 DEF HeapInv, OnePosition
    <3>4. CASE a = l
      BY <1>6, <2>2, <3>3, <3>4 DEF Injective
    <3>5. CASE a # l
      BY <1>4, <2>2, <3>3, <3>5 DEF HeapInv, OnePosition
    <3>6. QED BY <3>3, <3>4, <3>5
  <2>3. \A a \in List : \A j \in 1 .. Len(contents'[a]) : contents'[a][j] \notin freed'
    BY <2>1 DEF HeapInv, OnePosition
  <2>4. QED BY <2>2, <2>3 DEF OnePosition
<1>8. Intact'
  <2> SUFFICES ASSUME NEW k \in List
               PROVE  Repr(head'[k], tail'[k], size'[k], next', prev', contents'[k])
    BY <1>5, IntactIsNext
  <2>1. Repr(head[k], tail[k], size[k], next, prev, contents[k])
    BY IntactIs DEF HeapInv
  <2>2. CASE k = l
    <3>1. head'[l] = h /\ tail'[l] = t /\ size'[l] = size[l] - 1
      BY DEF Unlink, HeapInv, HeapTypes
    <3>2. Repr(h, t, size[l] - 1, next', prev', DropAt(contents[l], i))
      BY <1>1, <2>1, <2>2, RemoveRepr
    <3>3. QED BY <1>4, <2>2, <3>1, <3>2
  <2>3. CASE k # l
    <3>1. contents[k] \in Seq(Node) /\ \A j \in 1 .. Len(contents[k]) :
            contents[k][j] \in Node /\ contents[k][j] # n
      BY <2>3 DEF HeapInv, HeapTypes, OnePosition
    <3>2. \A j \in 1 .. Len(contents[k]) :
            /\ next'[contents[k][j]] = next[contents[k][j]]
            /\ prev'[contents[k][j]] = prev[contents[k][j]]
      BY <2>3, <3>1 DEF Unlink, Set
    <3>3. head'[k] = head[k] /\ tail'[k] = tail[k] /\ size'[k] = size[k]
      BY <2>3 DEF Unlink, HeapInv, HeapTypes
    <3>4. QED BY <1>4, <2>1, <2>3, <3>1, <3>2, <3>3, OtherRepr
  <2>4. QED BY <2>2, <2>3
<1>9. QED BY <1>3, <1>5, <1>7, <1>8 DEF HeapInv

LEMMA RemoveHeap ==
  ASSUME HeapInv, NEW l \in List, NEW n \in Node, ListNodeRemove(l, n),
         freed' \in SUBSET (freed \cup {n})
  PROVE  /\ HeapInv' /\ UNCHANGED <<sorted, middle, add>>
         /\ \E i \in 1 .. Len(contents[l]) :
              contents' = [contents EXCEPT ![l] = DropAt(contents[l], i)]
<1> DEFINE s == contents[l]
           x == prev[n]
           z == next[n]
<1>1. s \in Seq(Node) /\ Len(s) \in Nat /\ \A k \in 1 .. Len(s) : s[k] \in Node
  BY DEF HeapInv, HeapTypes
<1>2. PICK i \in 1 .. Len(s) : n = s[i]
  BY DEF ListNodeRemove, Holds
<1>3. Repr(head[l], tail[l], size[l], next, prev, s)
  BY IntactIs DEF HeapInv
<1>4. /\ size[l] = Len(s) /\ head[l] = s[1] /\ tail[l] = s[Len(s)] /\ Len(s) # 0
      /\ x = (IF i = 1 THEN Null ELSE s[i - 1])
      /\ z = (IF i = Len(s) THEN Null ELSE s[i + 1])
  BY <1>1, <1>2, <1>3 DEF Repr
<1>5. \A j, k \in 1 .. Len(s) : s[j] = s[k] => j = k
  BY DEF HeapInv, OnePosition
<1>6. (n = head[l] <=> i = 1) /\ (n = tail[l] <=> i = Len(s))
  BY <1>1, <1>2, <1>4, <1>5
<1>7. Null \in Link0 /\ x \in Link0 /\ z \in Link0 /\ head[l] \in Link0 /\ tail[l] \in Link0
  BY <1>1, <1>4 DEF Link0, HeapInv, HeapTypes
(* The neighbours of n are in no other list.                                *)
<1>8. \A k \in List : k # l => \A j \in 1 .. Len(contents[k]) :
        contents[k][j] # x /\ contents[k][j] # z
  <2>1. ASSUME NEW k \in List, k # l, NEW j \in 1 .. Len(contents[k])
        PROVE  contents[k][j] # x /\ contents[k][j] # z
    <3>1. contents[k][j] \in Node /\ contents[k][j] # Null
      BY ListAssumption DEF HeapInv, HeapTypes
    <3>2. \A m \in 1 .. Len(s) : contents[k][j] # s[m]
      BY <2>1 DEF HeapInv, OnePosition
    <3>3. QED BY <1>1, <1>4, <3>1, <3>2
  <2>2. QED BY <2>1
<1> SUFFICES ASSUME NEW N, NEW nx, NEW P, NEW pv, NEW h, NEW t,
                    Unlink(l, n, N, nx, P, pv, h, t), nx \in Link0, pv \in Link0,
                    N \subseteq {x, z}, P \subseteq {x, z},
                    Ends(s, head[l], tail[l], h, t, i),
                    Unlinked(s, next, prev, next', prev', i)
             PROVE  HeapInv' /\ contents' = [contents EXCEPT ![l] = DropAt(s, i)]
  <2> DEFINE Goal == HeapInv' /\ contents' = [contents EXCEPT ![l] = DropAt(s, i)]
  <2> SUFFICES Goal
    BY DEF ListNodeRemove
  <2>2. CASE size[l] = 2 /\ i = 1
    <3>1. Unlink(l, n, {z}, Null, {z}, Null, z, z)
      BY <1>4, <1>6, <2>2, Zenon DEF ListNodeRemove
    <3>2. Ends(s, head[l], tail[l], z, z, i)
      BY <1>1, <1>4, <1>6, <1>7, <2>2 DEF Ends
    <3>3. Unlinked(s, next, prev, next', prev', i)
      <4>1. ASSUME NEW j \in 1 .. Len(s), j # i
            PROVE  /\ next'[s[j]] = IF j = i - 1 THEN (IF i = Len(s) THEN Null ELSE s[i + 1])
                                    ELSE next[s[j]]
                   /\ prev'[s[j]] = IF j = i + 1 THEN (IF i = 1 THEN Null ELSE s[i - 1])
                                    ELSE prev[s[j]]
        <5>1. /\ s[j] \in Node /\ s[j] # n /\ s[j] # Null
              /\ i # 1 => (s[j] = s[i - 1] <=> j = i - 1)
              /\ i # Len(s) => (s[j] = s[i + 1] <=> j = i + 1)
          BY <1>1, <1>2, <1>5, <4>1, ListAssumption
        <5>2. /\ next'[s[j]] = IF s[j] \in {z} THEN Null ELSE next[s[j]]
              /\ prev'[s[j]] = IF s[j] \in {z} THEN Null ELSE prev[s[j]]
          BY <3>1, <5>1 DEF Unlink, Set
        <5>3. /\ next[s[j]] = (IF j = Len(s) THEN Null ELSE s[j + 1])
              /\ prev[s[j]] = (IF j = 1 THEN Null ELSE s[j - 1])
          BY <1>3, <4>1 DEF Repr
        <5>4. j = 2 /\ Len(s) = 2 /\ z = s[j] /\ s[j] \in {z}
          BY <1>1, <1>4, <2>2, <4>1
        <5>5. QED BY <2>2, <5>2, <5>3, <5>4
      <4>2. QED BY <4>1 DEF Unlinked
    <3>4. QED BY <1>7, <3>1, <3>2, <3>3
  <2>3. CASE size[l] = 2 /\ i = 2
    <3>1. Unlink(l, n, {x}, Null, {x}, Null, x, x)
      BY <1>4, <1>6, <2>3, Zenon DEF ListNodeRemove
    <3>2. Ends(s, head[l], tail[l], x, x, i)
      BY <1>1, <1>4, <1>6, <1>7, <2>3 DEF Ends
    <3>3. Unlinked(s, next, prev, next', prev', i)
      <4>1. ASSUME NEW j \in 1 .. Len(s), j # i
            PROVE  /\ next'[s[j]] = IF j = i - 1 THEN (IF i = Len(s) THEN Null ELSE s[i + 1])
                                    ELSE next[s[j]]
                   /\ prev'[s[j]] = IF j = i + 1 THEN (IF i = 1 THEN Null ELSE s[i - 1])
                                    ELSE prev[s[j]]
        <5>1. /\ s[j] \in Node /\ s[j] # n /\ s[j] # Null
              /\ i # 1 => (s[j] = s[i - 1] <=> j = i - 1)
              /\ i # Len(s) => (s[j] = s[i + 1] <=> j = i + 1)
          BY <1>1, <1>2, <1>5, <4>1, ListAssumption
        <5>2. /\ next'[s[j]] = IF s[j] \in {x} THEN Null ELSE next[s[j]]
              /\ prev'[s[j]] = IF s[j] \in {x} THEN Null ELSE prev[s[j]]
          BY <3>1, <5>1 DEF Unlink, Set
        <5>3. /\ next[s[j]] = (IF j = Len(s) THEN Null ELSE s[j + 1])
              /\ prev[s[j]] = (IF j = 1 THEN Null ELSE s[j - 1])
          BY <1>3, <4>1 DEF Repr
        <5>4. QED BY <1>1, <1>4, <1>6, <2>3, <4>1, <5>1, <5>2, <5>3
      <4>2. QED BY <4>1 DEF Unlinked
    <3>4. QED BY <1>7, <3>1, <3>2, <3>3
  <2>4. CASE size[l] = 1
    <3>1. Unlink(l, n, {}, Null, {}, Null, Null, Null)
      <4>1. size[l] # 2 /\ size[l] = 1
        BY <1>1, <1>4, <2>4
      <4>2. QED BY <2>4, <4>1, Zenon DEF ListNodeRemove
    <3>2. Ends(s, head[l], tail[l], Null, Null, i)
      BY <1>1, <1>4, <1>6, <1>7, <2>4 DEF Ends
    <3>3. Unlinked(s, next, prev, next', prev', i)
      <4>1. ASSUME NEW j \in 1 .. Len(s), j # i
            PROVE  /\ next'[s[j]] = IF j = i - 1 THEN (IF i = Len(s) THEN Null ELSE s[i + 1])
                                    ELSE next[s[j]]
                   /\ prev'[s[j]] = IF j = i + 1 THEN (IF i = 1 THEN Null ELSE s[i - 1])
                                    ELSE prev[s[j]]
        <5>1. /\ s[j] \in Node /\ s[j] # n /\ s[j] # Null
              /\ i # 1 => (s[j] = s[i - 1] <=> j = i - 1)
              /\ i # Len(s) => (s[j] = s[i + 1] <=> j = i + 1)
          BY <1>1, <1>2, <1>5, <4>1, ListAssumption
        <5>2. /\ next'[s[j]] = IF s[j] \in {} THEN Null ELSE next[s[j]]
              /\ prev'[s[j]] = IF s[j] \in {} THEN Null ELSE prev[s[j]]
          BY <3>1, <5>1 DEF Unlink, Set
        <5>3. /\ next[s[j]] = (IF j = Len(s) THEN Null ELSE s[j + 1])
              /\ prev[s[j]] = (IF j = 1 THEN Null ELSE s[j - 1])
          BY <1>3, <4>1 DEF Repr
        <5>4. QED BY <1>1, <1>4, <1>6, <2>4, <4>1, <5>1, <5>2, <5>3
      <4>2. QED BY <4>1 DEF Unlinked
    <3>4. QED BY <1>7, <3>1, <3>2, <3>3
  <2>5. CASE size[l] > 2 /\ n = head[l]
    <3>1. Unlink(l, n, {}, Null, {z}, Null, z, tail[l])
      <4>1. size[l] # 2 /\ size[l] # 1
        BY <1>1, <1>4, <2>5
      <4>2. QED BY <2>5, <4>1, Zenon DEF ListNodeRemove
    <3>2. Ends(s, head[l], tail[l], z, tail[l], i)
      BY <1>1, <1>4, <1>6, <1>7, <2>5 DEF Ends
    <3>3. Unlinked(s, next, prev, next', prev', i)
      <4>1. ASSUME NEW j \in 1 .. Len(s), j # i
            PROVE  /\ next'[s[j]] = IF j = i - 1 THEN (IF i = Len(s) THEN Null ELSE s[i + 1])
                                    ELSE next[s[j]]
                   /\ prev'[s[j]] = IF j = i + 1 THEN (IF i = 1 THEN Null ELSE s[i - 1])
                                    ELSE prev[s[j]]
        <5>1. /\ s[j] \in Node /\ s[j] # n /\ s[j] # Null
              /\ i # 1 => (s[j] = s[i - 1] <=> j = i - 1)
              /\ i # Len(s) => (s[j] = s[i + 1] <=> j = i + 1)
          BY <1>1, <1>2, <1>5, <4>1, ListAssumption
        <5>2. /\ next'[s[j]] = IF s[j] \in {} THEN Null ELSE next[s[j]]
              /\ prev'[s[j]] = IF s[j] \in {z} THEN Null ELSE prev[s[j]]
          BY <3>1, <5>1 DEF Unlink, Set
        <5>3. /\ next[s[j]] = (IF j = Len(s) THEN Null ELSE s[j + 1])
              /\ prev[s[j]] = (IF j = 1 THEN Null ELSE s[j - 1])
          BY <1>3, <4>1 DEF Repr
        <5>4. QED BY <1>1, <1>4, <1>6, <2>5, <4>1, <5>1, <5>2, <5>3
      <4>2. QED BY <4>1 DEF Unlinked
    <3>4. QED BY <1>7, <3>1, <3>2, <3>3
  <2>6. CASE size[l] > 2 /\ n # head[l] /\ n = tail[l]
    <3>1. Unlink(l, n, {x}, Null, {}, Null, head[l], x)
      <4>1. size[l] # 2 /\ size[l] # 1
        BY <1>1, <1>4, <2>6
      <4>2. QED BY <2>6, <4>1, Zenon DEF ListNodeRemove
    <3>2. Ends(s, head[l], tail[l], head[l], x, i)
      BY <1>1, <1>4, <1>6, <1>7, <2>6 DEF Ends
    <3>3. Unlinked(s, next, prev, next', prev', i)
      <4>1. ASSUME NEW j \in 1 .. Len(s), j # i
            PROVE  /\ next'[s[j]] = IF j = i - 1 THEN (IF i = Len(s) THEN Null ELSE s[i + 1])
                                    ELSE next[s[j]]
                   /\ prev'[s[j]] = IF j = i + 1 THEN (IF i = 1 THEN Null ELSE s[i - 1])
                                    ELSE prev[s[j]]
        <5>1. /\ s[j] \in Node /\ s[j] # n /\ s[j] # Null
              /\ i # 1 => (s[j] = s[i - 1] <=> j = i - 1)
              /\ i # Len(s) => (s[j] = s[i + 1] <=> j = i + 1)
          BY <1>1, <1>2, <1>5, <4>1, ListAssumption
        <5>2. /\ next'[s[j]] = IF s[j] \in {x} THEN Null ELSE next[s[j]]
              /\ prev'[s[j]] = IF s[j] \in {} THEN Null ELSE prev[s[j]]
          BY <3>1, <5>1 DEF Unlink, Set
        <5>3. /\ next[s[j]] = (IF j = Len(s) THEN Null ELSE s[j + 1])
              /\ prev[s[j]] = (IF j = 1 THEN Null ELSE s[j - 1])
          BY <1>3, <4>1 DEF Repr
        <5>4. QED BY <1>1, <1>4, <1>6, <2>6, <4>1, <5>1, <5>2, <5>3
      <4>2. QED BY <4>1 DEF Unlinked
    <3>4. QED BY <1>7, <3>1, <3>2, <3>3
  <2>7. CASE size[l] > 2 /\ n # head[l] /\ n # tail[l]
    <3>1. Unlink(l, n, {x}, z, {z}, x, head[l], tail[l])
      <4>1. size[l] # 2 /\ size[l] # 1
        BY <1>1, <1>4, <2>7
      <4>2. QED BY <2>7, <4>1, Zenon DEF ListNodeRemove
    <3>2. Ends(s, head[l], tail[l], head[l], tail[l], i)
      BY <1>1, <1>4, <1>6, <1>7, <2>7 DEF Ends
    <3>3. Unlinked(s, next, prev, next', prev', i)
      <4>1. ASSUME NEW j \in 1 .. Len(s), j # i
            PROVE  /\ next'[s[j]] = IF j = i - 1 THEN (IF i = Len(s) THEN Null ELSE s[i + 1])
                                    ELSE next[s[j]]
                   /\ prev'[s[j]] = IF j = i + 1 THEN (IF i = 1 THEN Null ELSE s[i - 1])
                                    ELSE prev[s[j]]
        <5>1. /\ s[j] \in Node /\ s[j] # n /\ s[j] # Null
              /\ i # 1 => (s[j] = s[i - 1] <=> j = i - 1)
              /\ i # Len(s) => (s[j] = s[i + 1] <=> j = i + 1)
          BY <1>1, <1>2, <1>5, <4>1, ListAssumption
        <5>2. /\ next'[s[j]] = IF s[j] \in {x} THEN z ELSE next[s[j]]
              /\ prev'[s[j]] = IF s[j] \in {z} THEN x ELSE prev[s[j]]
          BY <3>1, <5>1 DEF Unlink, Set
        <5>3. /\ next[s[j]] = (IF j = Len(s) THEN Null ELSE s[j + 1])
              /\ prev[s[j]] = (IF j = 1 THEN Null ELSE s[j - 1])
          BY <1>3, <4>1 DEF Repr
        <5>4. QED BY <1>1, <1>4, <1>6, <2>7, <4>1, <5>1, <5>2, <5>3
      <4>2. QED BY <4>1 DEF Unlinked
    <3>4. QED BY <1>7, <3>1, <3>2, <3>3
  <2>8. size[l] = 1 \/ size[l] > 2 \/ (size[l] = 2 /\ (i = 1 \/ i = 2))
    <3>1. Len(s) \in Nat /\ i \in 1 .. Len(s)
      BY <1>1
    <3>2. \A k \in Nat : \A m \in 1 .. k : k = 1 \/ k > 2 \/ (k = 2 /\ (m = 1 \/ m = 2))
      OBVIOUS
    <3>3. Len(s) = 1 \/ Len(s) > 2 \/ (Len(s) = 2 /\ (i = 1 \/ i = 2))
      BY <3>1, <3>2
    <3>4. QED BY <1>4, <3>3
  <2> HIDE DEF Goal
  <2>9. QED BY <2>2, <2>3, <2>4, <2>5, <2>6, <2>7, <2>8
<1>9. \A k \in List : k # l => \A j \in 1 .. Len(contents[k]) :
        contents[k][j] \notin N /\ contents[k][j] \notin P
  BY <1>8
<1>10. UNCHANGED sorted
  BY DEF ListNodeRemove
<1>11. QED BY <1>2, <1>9, <1>10, UnlinkHeap
------------------------------------------------------------------------------
LEMMA RemoveAscending ==
  ASSUME NEW s \in Seq(Node), NEW i \in 1 .. Len(s), Ascending(s)
  PROVE  Ascending(DropAt(s, i))
<1> DEFINE r == DropAt(s, i)
<1>1. /\ Len(s) \in Nat /\ Len(r) = Len(s) - 1
      /\ \A j \in 1 .. Len(s) - 1 : r[j] = IF j < i THEN s[j] ELSE s[j + 1]
  BY RemoveIs
<1> HIDE DEF r
<1>2. ASSUME NEW j \in 1 .. Len(r), NEW k \in 1 .. Len(r), j < k PROVE r[j] < r[k]
  BY <1>1, <1>2 DEF Ascending
<1>3. QED BY <1>2 DEF Ascending, r

LEMMA InsertAscending ==
  ASSUME NEW s \in Seq(Node), NEW n \in Node, NEW i \in 1 .. Len(s) + 1, Ascending(s),
         \A j \in 1 .. Len(s) : (j < i => s[j] < n) /\ (j >= i => n < s[j])
  PROVE  Ascending(PutAt(s, i, n))
<1> DEFINE r == PutAt(s, i, n)
<1>1. /\ Len(s) \in Nat /\ Len(r) = Len(s) + 1
      /\ \A j \in 1 .. Len(s) + 1 : r[j] = IF j < i THEN s[j] ELSE IF j = i THEN n ELSE s[j - 1]
  BY InsertIs
<1> HIDE DEF r
<1>2. ASSUME NEW j \in 1 .. Len(r), NEW k \in 1 .. Len(r), j < k PROVE r[j] < r[k]
  <2>1. CASE j = i
    BY <1>1, <1>2, <2>1
  <2>2. CASE k = i
    BY <1>1, <1>2, <2>2
  <2>3. CASE k < i
    BY <1>1, <1>2, <2>3 DEF Ascending
  <2>4. CASE j < i /\ i < k
    <3>1. r[j] = s[j] /\ j \in 1 .. Len(s) /\ r[k] = s[k - 1] /\ k - 1 \in 1 .. Len(s)
      BY <1>1, <1>2, <2>4
    <3>2. s[j] \in Node /\ s[k - 1] \in Node
      BY <3>1
    <3>3. s[j] \in Nat /\ s[k - 1] \in Nat /\ n \in Nat
      BY <3>2, ListAssumption
    <3>4. s[j] < n
      BY <2>4, <3>1
    <3>5. k - 1 >= i
      BY <2>4
    <3>6. n < s[k - 1]
      BY <3>1, <3>5
    <3>7. QED BY <3>1, <3>3, <3>4, <3>6
  <2>5. CASE i < j
    BY <1>1, <1>2, <2>5 DEF Ascending
  <2>6. QED BY <1>1, <1>2, <2>1, <2>2, <2>3, <2>4, <2>5
<1>3. QED BY <1>2 DEF Ascending, r

(* A call on one list, from a task or an interrupt, while                  *)
(* ListNodeAddSorted may be walking another.                               *)
LEMMA CallFrame ==
  ASSUME Guarded, ListInv, HeapInv', NEW l \in List, NEW n \in Node,
         NEW L, L \subseteq Given \cup Taken, MayCall(l, L), n # add.node,
         UNCHANGED <<middle, add>>, freed' \in SUBSET (freed \cup {n}),
         \A k \in List : k # l => contents'[k] = contents[k] /\ sorted'[k] = sorted[k],
         \A j \in 1 .. Len(contents'[l]) :
           contents'[l][j] = n \/ \E m \in 1 .. Len(contents[l]) : contents'[l][j] = contents[l][m],
         sorted'[l] = TRUE => Ascending(contents'[l])
  PROVE  ListInv'
<1>1. SortedOrder'
  BY DEF ListInv, SortedOrder, HeapInv, HeapTypes, Ascending
<1>2. CallTypes'
  BY DEF ListInv, CallTypes
<1>3. Walking'
  <2>1. CASE add.pc = "none"
    BY <2>1 DEF ListInv, Walking
  <2>2. CASE add.pc # "none"
    <3>1. add.list \in List /\ add.list # l /\ add.node \in Node
      BY <2>2 DEF MayCall, Guarded, ListInv, Walking
    <3>2. contents'[add.list] = contents[add.list]
      BY <3>1
    <3>3. add.pc = "walk" => /\ \A k \in List : add.node \notin Holds(k)'
                             /\ add.node \notin freed'
      <4> SUFFICES ASSUME add.pc = "walk", NEW k \in List
                   PROVE  add.node \notin Holds(k)' /\ add.node \notin freed'
        OBVIOUS
      <4>1. (\A m \in List : add.node \notin Holds(m)) /\ add.node \notin freed
        BY DEF ListInv, Walking
      <4>2. \A j \in 1 .. Len(contents'[k]) : contents'[k][j] # add.node
        <5>1. CASE k = l
          BY <4>1, <5>1 DEF Holds
        <5>2. CASE k # l
          BY <4>1, <5>2 DEF Holds
        <5>3. QED BY <5>1, <5>2
      <4>3. QED BY <4>1, <4>2 DEF Holds
    <3>4. QED BY <2>2, <3>1, <3>2, <3>3 DEF ListInv, Walking
  <2>3. QED BY <2>1, <2>2
<1>4. QED BY <1>1, <1>2, <1>3 DEF ListInv

LEMMA LinkAtInv ==
  ASSUME Guarded, ListInv, NEW l \in List, NEW n \in Node, MayAdd(l, n),
         NEW x, NEW where \in {"before", "after"}, LinkAt(l, n, x, where),
         freed' = freed \ {n}, UNCHANGED <<middle, add>>,
         NEW i \in 1 .. Len(contents[l]) + 1,
         \/ Len(contents[l]) = 0
         \/ x = Null /\ where = "before" /\ i = 1
         \/ \E k \in 1 .. Len(contents[l]) :
              x = contents[l][k] /\ i = (IF where = "before" THEN k ELSE k + 1)
  PROVE  ListInv'
<1>1. n # add.node /\ \A k \in List : n \notin Holds(k)
  BY DEF MayAdd, Loose
<1>2. /\ HeapInv'
      /\ contents' = [contents EXCEPT ![l] = PutAt(contents[l], i, n)]
      /\ sorted' = [sorted EXCEPT ![l] = FALSE]
  BY <1>1, LinkAtHeap DEF ListInv
<1>3. /\ \A k \in List : k # l => contents'[k] = contents[k] /\ sorted'[k] = sorted[k]
      /\ contents'[l] = PutAt(contents[l], i, n) /\ sorted'[l] = FALSE
  BY <1>2 DEF ListInv, HeapInv, HeapTypes
<1>4. \A j \in 1 .. Len(contents'[l]) :
        contents'[l][j] = n \/ \E m \in 1 .. Len(contents[l]) : contents'[l][j] = contents[l][m]
  <2>1. contents[l] \in Seq(Node)
    BY DEF ListInv, HeapInv, HeapTypes
  <2>2. Injective(contents[l]) /\ \A j \in 1 .. Len(contents[l]) : contents[l][j] # n
    BY <1>1 DEF ListInv, HeapInv, OnePosition, Injective, Holds
  <2>3. \A j \in 1 .. Len(PutAt(contents[l], i, n)) :
          \/ PutAt(contents[l], i, n)[j] = n
          \/ \E m \in 1 .. Len(contents[l]) : PutAt(contents[l], i, n)[j] = contents[l][m]
    BY <2>1, <2>2, InsertElements
  <2>4. QED BY <1>3, <2>3
<1>5. MayCall(l, Given) /\ Given \subseteq Given \cup Taken
  BY DEF MayAdd
<1>6. QED BY <1>1, <1>2, <1>3, <1>4, <1>5, CallFrame

LEMMA RemoveInv ==
  ASSUME Guarded, ListInv, NEW l \in List, NEW n \in Node, ListNodeRemove(l, n),
         freed' \in SUBSET (freed \cup {n})
  PROVE  ListInv'
<1>1. HeapInv' /\ UNCHANGED <<sorted, middle, add>>
  BY RemoveHeap DEF ListInv
<1>2. PICK i \in 1 .. Len(contents[l]) :
        contents' = [contents EXCEPT ![l] = DropAt(contents[l], i)]
  BY RemoveHeap DEF ListInv
<1>3. contents[l] \in Seq(Node) /\ sorted \in [List -> BOOLEAN]
  BY DEF ListInv, HeapInv, HeapTypes
<1>4. /\ \A k \in List : k # l => contents'[k] = contents[k] /\ sorted'[k] = sorted[k]
      /\ contents'[l] = DropAt(contents[l], i) /\ sorted'[l] = sorted[l]
  BY <1>1, <1>2 DEF ListInv, HeapInv, HeapTypes
<1>5. \A j \in 1 .. Len(contents'[l]) :
        contents'[l][j] = n \/ \E m \in 1 .. Len(contents[l]) : contents'[l][j] = contents[l][m]
  <2>1. Injective(contents[l])
    BY DEF ListInv, HeapInv, OnePosition, Injective
  <2>2. \A j \in 1 .. Len(DropAt(contents[l], i)) :
          \E m \in 1 .. Len(contents[l]) : m # i /\ DropAt(contents[l], i)[j] = contents[l][m]
    BY <1>3, <2>1, RemoveElements
  <2>3. QED BY <1>4, <2>2
<1>6. sorted'[l] = TRUE => Ascending(contents'[l])
  <2>1. sorted[l] = TRUE => Ascending(contents[l])
    BY DEF ListInv, SortedOrder, Ascending
  <2>2. QED BY <1>3, <1>4, <2>1, RemoveAscending
<1>7. MayCall(l, Taken) /\ n # add.node /\ Taken \subseteq Given \cup Taken
  BY DEF ListNodeRemove
<1>8. QED BY <1>1, <1>4, <1>5, <1>6, <1>7, CallFrame

LEMMA AddAtInv ==
  ASSUME Guarded, ListInv, NEW l \in List, NEW n \in Node, MayAdd(l, n),
         LinkAt(l, n, Null, "before") \/ LinkAt(l, n, tail[l], "after"),
         freed' = freed \ {n}, UNCHANGED <<middle, add>>
  PROVE  ListInv'
<1>1. contents[l] \in Seq(Node) /\ Len(contents[l]) \in Nat
  BY DEF ListInv, HeapInv, HeapTypes
<1>2. Len(contents[l]) # 0 => tail[l] = contents[l][Len(contents[l])]
  BY IntactIs DEF ListInv, HeapInv, Repr
<1>3. CASE LinkAt(l, n, Null, "before")
  <2>1. 1 \in 1 .. Len(contents[l]) + 1
    BY <1>1
  <2>2. QED BY <1>3, <2>1, LinkAtInv
<1>4. CASE LinkAt(l, n, tail[l], "after")
  <2>1. Len(contents[l]) + 1 \in 1 .. Len(contents[l]) + 1
    BY <1>1
  <2>2. \/ Len(contents[l]) = 0
        \/ \E k \in 1 .. Len(contents[l]) :
             /\ tail[l] = contents[l][k]
             /\ Len(contents[l]) + 1 = (IF "after" = "before" THEN k ELSE k + 1)
    BY <1>1, <1>2
  <2>3. QED BY <1>4, <2>1, <2>2, LinkAtInv
<1>5. QED BY <1>3, <1>4

LEMMA AddAtNodeInv ==
  ASSUME Guarded, ListInv, NEW l \in List, NEW n \in Node, NEW x \in Node,
         NEW where \in {"before", "after"}, ListNodeAddAtNode(l, n, x, where)
  PROVE  ListInv'
<1>1. PICK k \in 1 .. Len(contents[l]) : x = contents[l][k]
  BY DEF ListNodeAddAtNode, Holds
<1>2. Len(contents[l]) \in Nat
  BY DEF ListInv, HeapInv, HeapTypes
<1>3. PICK i \in 1 .. Len(contents[l]) + 1 : i = (IF where = "before" THEN k ELSE k + 1)
  BY <1>2
<1>4. QED BY <1>1, <1>3, LinkAtInv DEF ListNodeAddAtNode

LEMMA AddBeginInv ==
  ASSUME ListInv, NEW l \in List, NEW n \in Node, AddBegin(l, n)
  PROVE  ListInv'
<1> USE DEF AddBegin, lists
<1>1. HeapTypes' /\ OnePosition' /\ Intact' /\ SortedOrder'
  BY DEF ListInv, HeapInv, HeapTypes, OnePosition, Intact, SortedOrder
<1>2. Repr(head[l], tail[l], size[l], next, prev, contents[l])
  BY IntactIs DEF ListInv, HeapInv
<1>3. contents[l] \in Seq(Node) /\ Len(contents[l]) \in Nat
  BY DEF ListInv, HeapInv, HeapTypes
<1>4. head[l] \in Link0 /\ (head[l] # Null => next[head[l]] \in Link0) /\ Null \in Link0
  BY DEF ListInv, HeapInv, HeapTypes, Link0
<1>5. CallTypes'
  BY <1>4 DEF ListInv, CallTypes, Link0
<1>6. Ascending(contents[l])
  <2>1. CASE sorted[l]
    BY <2>1 DEF ListInv, SortedOrder, Ascending
  <2>2. CASE size[l] = 0
    BY <1>2, <1>3, <2>2 DEF Repr, Ascending
  <2>3. QED BY <2>1, <2>2
<1>7. Walking'
  <2>1. /\ add'.pc = "walk" /\ add'.list = l /\ add'.node = n /\ add'.cur = head[l]
        /\ add'.nxt = IF head[l] = Null THEN Null ELSE next[head[l]]
    OBVIOUS
  <2>2. \A k \in List : n \notin Holds(k)'
    BY DEF Loose, Holds
  <2>3. head[l] = Null => contents[l] = <<>>
    BY <1>2, <1>3, ListAssumption DEF Repr
  <2>4. head[l] # Null => \E i \in 1 .. Len(contents[l]) :
          /\ head[l] = contents[l][i]
          /\ next[head[l]] = (IF i = Len(contents[l]) THEN Null ELSE contents[l][i + 1])
          /\ \A j \in 1 .. i - 1 : contents[l][j] < n
    <3> SUFFICES ASSUME head[l] # Null
                 PROVE  /\ 1 \in 1 .. Len(contents[l])
                        /\ head[l] = contents[l][1]
                        /\ next[head[l]] = (IF 1 = Len(contents[l]) THEN Null
                                            ELSE contents[l][1 + 1])
                        /\ \A j \in 1 .. 1 - 1 : contents[l][j] < n
      OBVIOUS
    <3>1. Len(contents[l]) # 0 /\ 1 \in 1 .. Len(contents[l])
      BY <1>2, <1>3 DEF Repr
    <3>2. head[l] = contents[l][1]
      BY <1>2, <3>1 DEF Repr
    <3>3. next[contents[l][1]] = IF 1 = Len(contents[l]) THEN Null ELSE contents[l][1 + 1]
      BY <1>2, <3>1 DEF Repr
    <3>4. \A j \in 1 .. 1 - 1 : contents[l][j] < n
      OBVIOUS
    <3>5. QED BY <3>1, <3>2, <3>3, <3>4
  <2>5. contents' = contents /\ n \notin freed'
    OBVIOUS
  <2>6. QED BY <1>6, <2>1, <2>2, <2>3, <2>4, <2>5 DEF Walking
<1>8. QED BY <1>1, <1>5, <1>7 DEF ListInv, HeapInv

(* The position of the walk, as facts about the list's sequence.           *)
LEMMA WalkFacts ==
  ASSUME ListInv, add.pc = "walk"
  PROVE  /\ add.list \in List /\ add.node \in Node /\ add.node \in Nat
         /\ contents[add.list] \in Seq(Node)
         /\ Ascending(contents[add.list])
         /\ add.node \notin freed /\ \A l \in List : add.node \notin Holds(l)
         /\ add.cur = Null => contents[add.list] = <<>>
         /\ \A j \in 1 .. Len(contents[add.list]) :
              /\ contents[add.list][j] \in Nat /\ contents[add.list][j] # Null
              /\ contents[add.list][j] # add.node
              /\ Id(contents[add.list][j]) = contents[add.list][j]
<1>1. /\ add.list \in List /\ add.node \in Node
      /\ add.node \notin freed /\ \A l \in List : add.node \notin Holds(l)
      /\ Ascending(contents[add.list])
      /\ add.cur = Null => contents[add.list] = <<>>
  BY DEF ListInv, Walking
<1>2. contents[add.list] \in Seq(Node)
  BY <1>1 DEF ListInv, HeapInv, HeapTypes
<1>3. ASSUME NEW j \in 1 .. Len(contents[add.list])
      PROVE  /\ contents[add.list][j] \in Nat /\ contents[add.list][j] # Null
             /\ contents[add.list][j] # add.node
             /\ Id(contents[add.list][j]) = contents[add.list][j]
  <2>1. contents[add.list][j] \in Node
    BY <1>2, <1>3
  <2>2. contents[add.list][j] \notin freed
    BY <1>1, <1>3 DEF ListInv, HeapInv, OnePosition
  <2>3. contents[add.list][j] # add.node
    BY <1>1, <1>3 DEF Holds
  <2>4. QED BY <2>1, <2>2, <2>3, ListAssumption DEF Id
<1>4. QED BY <1>1, <1>2, <1>3, ListAssumption

LEMMA AddNextInv ==
  ASSUME ListInv, AddNext
  PROVE  ListInv'
<1> DEFINE s == contents[add.list]  n == add.node
<1>1. UNCHANGED <<lists, next, prev, freed, contents>> /\ add.pc = "walk" /\ ~AddHere
  BY DEF AddNext
<1>2. HeapTypes' /\ OnePosition' /\ Intact' /\ SortedOrder'
  BY <1>1 DEF ListInv, HeapInv, HeapTypes, OnePosition, Intact, SortedOrder, lists
<1>3. middle' = middle
  BY <1>1 DEF lists
<1>4. CASE add.nxt = Null
  <2>1. add' = NoAdd
    BY <1>4 DEF AddNext
  <2>2. CallTypes' /\ Walking'
    BY <1>3, <2>1 DEF NoAdd, ListInv, CallTypes, Walking, Link0
  <2>3. QED BY <1>2, <2>2 DEF ListInv, HeapInv
<1>5. CASE add.nxt # Null
  <2>1. add' = [add EXCEPT !.cur = add.nxt, !.nxt = next[add.nxt]]
    BY <1>5 DEF AddNext
  <2>2. add.nxt \in Node /\ next[add.nxt] \in Link0 /\ add.nxt \in Link0
    BY <1>5 DEF ListInv, CallTypes, HeapInv, HeapTypes, Link0
  <2>3. CallTypes'
    BY <1>3, <2>1, <2>2 DEF ListInv, CallTypes
  <2>4. /\ add'.pc = "walk" /\ add'.list = add.list /\ add'.node = n
        /\ add'.cur = add.nxt /\ add'.nxt = next[add.nxt]
    BY <1>1, <2>1 DEF ListInv, CallTypes
  <2>5. add.cur # Null /\ ~AddAfter /\ ~(n < Id(add.cur))
    BY <1>1 DEF AddHere
  <2>6. PICK i \in 1 .. Len(s) : /\ add.cur = s[i]
                               /\ add.nxt = (IF i = Len(s) THEN Null ELSE s[i + 1])
                               /\ \A j \in 1 .. i - 1 : s[j] < n
    BY <1>1, <2>5 DEF ListInv, Walking
  <2>7. /\ s \in Seq(Node) /\ Len(s) \in Nat /\ n \in Nat
        /\ \A j \in 1 .. Len(s) : s[j] \in Nat /\ s[j] # n /\ Id(s[j]) = s[j]
    BY <1>1, WalkFacts
  <2>8. i # Len(s) /\ i + 1 \in 1 .. Len(s) /\ add.nxt = s[i + 1]
    BY <1>5, <2>6, <2>7
  <2>9. s[i] < n
    <3>1. Id(add.cur) = s[i] /\ s[i] \in Nat /\ s[i] # n
      BY <2>6, <2>7
    <3>2. QED BY <2>5, <2>7, <3>1
  <2>10. \A j \in 1 .. i + 1 - 1 : s[j] < n
    <3>1. \A j \in 1 .. i + 1 - 1 : j = i \/ j \in 1 .. i - 1
      BY <2>7
    <3>2. QED BY <2>6, <2>9, <3>1
  <2>11. next[s[i + 1]] = IF i + 1 = Len(s) THEN Null ELSE s[i + 1 + 1]
    <3>1. Repr(head[add.list], tail[add.list], size[add.list], next, prev, s)
      BY <1>1, WalkFacts, IntactIs DEF ListInv, HeapInv
    <3>2. QED BY <2>8, <3>1 DEF Repr
  <2>12. \E k \in 1 .. Len(s) : /\ add.nxt = s[k]
                               /\ next[add.nxt] = (IF k = Len(s) THEN Null ELSE s[k + 1])
                               /\ \A j \in 1 .. k - 1 : s[j] < n
    BY <2>8, <2>10, <2>11
  <2>13. \A l \in List : n \notin Holds(l)'
    BY <1>1, WalkFacts DEF Holds
  <2>14. /\ contents' = contents /\ freed' = freed /\ Ascending(s) /\ n \notin freed
         /\ add.list \in List /\ n \in Node
    BY <1>1, WalkFacts
  <2>15. Walking'
    BY <1>5, <2>4, <2>12, <2>13, <2>14 DEF Walking
  <2>16. QED BY <1>2, <2>3, <2>15 DEF ListInv, HeapInv
<1>6. QED BY <1>4, <1>5

(* The walk ends at the place of the node: everything before it is lower   *)
(* and everything after it is higher.                                      *)
LEMMA WalkPlace ==
  ASSUME ListInv, add.pc = "walk", AddHere, add.cur # Null,
         NEW where \in {"before", "after"},
         where = IF AddAfter THEN "after" ELSE "before"
  PROVE  \E i \in 1 .. Len(contents[add.list]) + 1 :
           /\ \E k \in 1 .. Len(contents[add.list]) :
                add.cur = contents[add.list][k] /\ i = (IF where = "before" THEN k ELSE k + 1)
           /\ \A j \in 1 .. Len(contents[add.list]) :
                /\ j < i => contents[add.list][j] < add.node
                /\ j >= i => add.node < contents[add.list][j]
<1> DEFINE s == contents[add.list]  n == add.node
<1>1. PICK k \in 1 .. Len(s) : /\ add.cur = s[k]
                             /\ add.nxt = (IF k = Len(s) THEN Null ELSE s[k + 1])
                             /\ \A j \in 1 .. k - 1 : s[j] < n
  BY DEF ListInv, Walking
<1>2. /\ s \in Seq(Node) /\ Len(s) \in Nat /\ n \in Nat /\ Ascending(s)
      /\ \A j \in 1 .. Len(s) : s[j] \in Nat /\ s[j] # Null /\ Id(s[j]) = s[j]
  BY WalkFacts
<1>3. CASE AddAfter
  <2>1. where = "after" /\ k + 1 \in 1 .. Len(s) + 1
    BY <1>2, <1>3
  <2>2. s[k] < n
    BY <1>1, <1>2, <1>3 DEF AddAfter
  <2>3. k # Len(s) => n < s[k + 1]
    <3>1. k # Len(s) => k + 1 \in 1 .. Len(s)
      BY <1>2
    <3>2. k # Len(s) => add.nxt = s[k + 1] /\ s[k + 1] # Null /\ Id(s[k + 1]) = s[k + 1]
      BY <1>1, <1>2, <3>1
    <3>3. QED BY <1>3, <3>2 DEF AddAfter
  <2>4. ASSUME NEW j \in 1 .. Len(s) PROVE (j < k + 1 => s[j] < n) /\ (j >= k + 1 => n < s[j])
    <3>1. CASE j < k
      BY <1>1, <1>2, <3>1
    <3>2. CASE j = k
      BY <2>2, <1>2, <3>2
    <3>3. CASE j = k + 1
      BY <2>3, <1>2, <3>3
    <3>4. CASE j > k + 1
      <4>1. s[k + 1] < s[j] /\ s[k + 1] \in Nat /\ s[j] \in Nat /\ n < s[k + 1]
        BY <1>2, <2>3, <3>4 DEF Ascending
      <4>2. n < s[j]
        BY <1>2, <4>1
      <4>3. QED BY <3>4, <4>2
    <3>5. QED BY <1>2, <3>1, <3>2, <3>3, <3>4
  <2>5. add.cur = s[k] /\ k + 1 = (IF where = "before" THEN k ELSE k + 1)
    BY <1>1, <2>1
  <2>6. QED BY <2>1, <2>4, <2>5
<1>4. CASE ~AddAfter
  <2>1. where = "before" /\ k \in 1 .. Len(s) + 1
    BY <1>2, <1>4
  <2>2. n < s[k]
    BY <1>1, <1>2, <1>4 DEF AddHere
  <2>3. ASSUME NEW j \in 1 .. Len(s) PROVE (j < k => s[j] < n) /\ (j >= k => n < s[j])
    <3>1. CASE j < k
      BY <1>1, <1>2, <3>1
    <3>2. CASE j = k
      BY <2>2, <1>2, <3>2
    <3>3. CASE j > k
      <4>1. s[k] < s[j] /\ s[k] \in Nat /\ s[j] \in Nat
        BY <1>2, <3>3 DEF Ascending
      <4>2. n < s[j]
        BY <1>2, <2>2, <4>1
      <4>3. QED BY <3>3, <4>2
    <3>4. QED BY <1>2, <3>1, <3>2, <3>3
  <2>4. add.cur = s[k] /\ k = (IF where = "before" THEN k ELSE k + 1)
    BY <1>1, <2>1
  <2>5. QED BY <2>1, <2>3, <2>4
<1>5. QED BY <1>3, <1>4

LEMMA AddNodeInv ==
  ASSUME ListInv, AddNode
  PROVE  ListInv'
<1> DEFINE l == add.list  n == add.node  s == contents[l]
<1>1. add.pc = "walk" /\ AddHere /\ freed' = freed
  BY DEF AddNode
<1>2. /\ l \in List /\ n \in Node /\ s \in Seq(Node) /\ Len(s) \in Nat /\ Ascending(s)
      /\ n \notin freed /\ \A k \in List : n \notin Holds(k)
      /\ add.cur = Null => s = <<>>
  BY <1>1, WalkFacts
<1>3. CASE add' = NoAdd /\ UNCHANGED <<lists, next, prev, contents>>
  <2>1. HeapTypes' /\ OnePosition' /\ Intact' /\ SortedOrder'
    BY <1>1, <1>3 DEF ListInv, HeapInv, HeapTypes, OnePosition, Intact, SortedOrder, lists
  <2>2. CallTypes' /\ Walking'
    BY <1>3 DEF NoAdd, ListInv, CallTypes, Walking, Link0, lists
  <2>3. QED BY <2>1, <2>2 DEF ListInv, HeapInv
<1>4. CASE /\ IF add.cur = Null THEN LinkAt(l, n, Null, "before")
              ELSE LinkAt(l, n, add.cur, IF AddAfter THEN "after" ELSE "before")
           /\ middle' = [middle EXCEPT ![l] = IF add.cur = Null THEN n ELSE @]
           /\ add' = [add EXCEPT !.pc = "done"]
  <2>1. freed' = freed \ {n}
    BY <1>1, <1>2
  <2>2. PICK i \in 1 .. Len(s) + 1 :
          /\ HeapInv'
          /\ contents' = [contents EXCEPT ![l] = PutAt(s, i, n)]
          /\ sorted' = [sorted EXCEPT ![l] = FALSE]
          /\ \A j \in 1 .. Len(s) : (j < i => s[j] < n) /\ (j >= i => n < s[j])
    <3>1. CASE add.cur = Null
      <4>1. LinkAt(l, n, Null, "before") /\ Len(s) = 0 /\ 1 \in 1 .. Len(s) + 1
        BY <1>2, <1>4, <3>1
      <4>2. /\ HeapInv'
            /\ contents' = [contents EXCEPT ![l] = PutAt(s, 1, n)]
            /\ sorted' = [sorted EXCEPT ![l] = FALSE]
        BY <1>2, <2>1, <4>1, LinkAtHeap DEF ListInv
      <4>3. \A j \in 1 .. Len(s) : (j < 1 => s[j] < n) /\ (j >= 1 => n < s[j])
        BY <4>1
      <4>4. QED BY <4>1, <4>2, <4>3
    <3>2. CASE add.cur # Null
      <4>1. PICK where \in {"before", "after"} : where = IF AddAfter THEN "after" ELSE "before"
        OBVIOUS
      <4>2. LinkAt(l, n, add.cur, where)
        BY <1>4, <3>2, <4>1
      <4>3. PICK i \in 1 .. Len(s) + 1 :
              /\ \E k \in 1 .. Len(s) :
                   add.cur = s[k] /\ i = (IF where = "before" THEN k ELSE k + 1)
              /\ \A j \in 1 .. Len(s) : (j < i => s[j] < n) /\ (j >= i => n < s[j])
        BY <1>1, <3>2, <4>1, WalkPlace
      <4>4. /\ HeapInv'
            /\ contents' = [contents EXCEPT ![l] = PutAt(s, i, n)]
            /\ sorted' = [sorted EXCEPT ![l] = FALSE]
        BY <1>2, <2>1, <4>2, <4>3, LinkAtHeap DEF ListInv
      <4>5. QED BY <4>3, <4>4
    <3>3. QED BY <3>1, <3>2
  <2>3. /\ contents'[l] = PutAt(s, i, n) /\ sorted'[l] = FALSE
        /\ \A k \in List : k # l => contents'[k] = contents[k] /\ sorted'[k] = sorted[k]
    BY <1>2, <2>2 DEF ListInv, HeapInv, HeapTypes
  <2>4. Ascending(contents'[l])
    <3>1. Ascending(PutAt(s, i, n))
      BY <1>2, <2>2, InsertAscending
    <3>2. QED BY <2>3, <3>1
  <2>5. SortedOrder'
    BY <2>3 DEF ListInv, SortedOrder
  <2>6. CallTypes'
    BY <1>2, <1>4 DEF ListInv, CallTypes, Link0
  <2>7. add'.pc = "done" /\ add'.list = l /\ add'.node = n
    BY <1>4 DEF ListInv, CallTypes
  <2>8. Walking'
    BY <1>2, <2>4, <2>7 DEF Walking
  <2>9. QED BY <2>2, <2>5, <2>6, <2>8 DEF ListInv
<1>5. QED BY <1>3, <1>4 DEF AddNode

LEMMA AddDoneInv ==
  ASSUME ListInv, AddDone
  PROVE  ListInv'
<1> DEFINE l == add.list
<1>1. /\ add.pc = "done" /\ add' = NoAdd /\ sorted' = [sorted EXCEPT ![l] = TRUE]
      /\ UNCHANGED <<head, tail, size, held, next, prev, freed, contents>>
  BY DEF AddDone
<1>2. l \in List /\ Ascending(contents[l])
  BY <1>1 DEF ListInv, Walking
<1>3. HeapTypes' /\ OnePosition' /\ Intact'
  BY <1>1, <1>2 DEF ListInv, HeapInv, HeapTypes, OnePosition, Intact
<1>4. SortedOrder'
  BY <1>1, <1>2 DEF ListInv, SortedOrder, Ascending, HeapInv, HeapTypes
<1>5. middle' \in [List -> Link0]
  <2>1. middle[l] \in Link0 /\ middle \in [List -> Link0]
    BY <1>2 DEF ListInv, CallTypes
  <2>2. middle[l] # Null => next[middle[l]] \in Link0 /\ prev[middle[l]] \in Link0
    BY <2>1 DEF ListInv, HeapInv, HeapTypes, Link0
  <2>3. QED BY <2>1, <2>2 DEF AddDone
<1>6. CallTypes' /\ Walking'
  BY <1>1, <1>5 DEF CallTypes, Walking, NoAdd, Link0
<1>7. QED BY <1>3, <1>4, <1>6 DEF ListInv, HeapInv
------------------------------------------------------------------------------
LEMMA NextListInv == ASSUME Guarded PROVE ListInv /\ [ListsNext]_listVars => ListInv'
<1> SUFFICES ASSUME ListInv, [ListsNext]_listVars PROVE ListInv'
  OBVIOUS
<1>1. ASSUME NEW l \in List, NEW n \in Node, NEW x \in Node, NEW where \in {"before", "after"},
             ListNodeAddAtNode(l, n, x, where)
      PROVE  ListInv'
  BY <1>1, AddAtNodeInv
<1>2. ASSUME NEW l \in List, NEW n \in Node, NEW position \in {"head", "tail"},
             ListNodeAddAtPosition(l, n, position)
      PROVE  ListInv'
  BY <1>2, AddAtInv DEF ListNodeAddAtPosition
<1>3. ASSUME NEW l \in List, NEW n \in Node, Take(l, n) \/ ListNodeDeinit(l, n)
      PROVE  ListInv'
  <2>1. ListNodeRemove(l, n) /\ freed' \in SUBSET (freed \cup {n})
    BY <1>3 DEF Take, ListNodeDeinit
  <2>2. QED BY <2>1, RemoveInv
<1>4. ASSUME NEW l \in List, NEW n \in Node, AddUnsorted(l, n)
      PROVE  ListInv'
  BY <1>4, AddAtInv DEF AddUnsorted
<1>5. ASSUME NEW l \in List, NEW n \in Node, AddBegin(l, n)
      PROVE  ListInv'
  BY <1>5, AddBeginInv
<1>6. CASE AddNext
  BY <1>6, AddNextInv
<1>7. CASE AddNode
  BY <1>7, AddNodeInv
<1>8. CASE AddDone
  BY <1>8, AddDoneInv
<1>9. CASE UNCHANGED listVars
  <2> USE <1>9 DEF listVars, lists
  <2>1. HeapTypes' /\ OnePosition' /\ Intact' /\ SortedOrder'
    BY DEF ListInv, HeapInv, HeapTypes, OnePosition, Intact, SortedOrder
  <2>2. CallTypes' /\ Walking'
    BY DEF ListInv, CallTypes, Walking, Ascending, Holds
  <2>3. QED BY <2>1, <2>2 DEF ListInv, HeapInv
<1>10. QED BY <1>1, <1>2, <1>3, <1>4, <1>5, <1>6, <1>7, <1>8, <1>9 DEF ListsNext
-------------------------------------------------------------------------------
(* What an iterator visits.  A set of numbers has a least one.             *)
LEMMA LeastNat ==
  ASSUME NEW S, S \subseteq Nat, S # {}
  PROVE  \E x \in S : \A y \in S : x <= y
<1>1. \E x \in S : \A y \in S : ~(<<y, x>> \in OpToRel(<, Nat))
  BY NatLessThanWellFounded, WFMin
<1>2. PICK x \in S : \A y \in S : ~(<<y, x>> \in OpToRel(<, Nat)) BY <1>1
<1>3. ASSUME NEW y \in S, y < x PROVE FALSE
  <2>1. <<y, x>> \in Nat \X Nat /\ <<y, x>>[1] < <<y, x>>[2] BY <1>2, <1>3
  <2>2. <<y, x>> \in OpToRel(<, Nat) BY <2>1, Zenon DEF OpToRel
  <2>3. QED BY <1>2, <1>3, <2>2
<1>4. \A y \in S : x \in Nat /\ y \in Nat /\ ~(y < x) BY <1>3
<1>5. \A y \in S : x <= y BY <1>4
<1>6. QED BY <1>5

LEMMA IteratorIs ==
  ASSUME NEW s \in Seq(Node), NEW start, start = (IF Len(s) = 0 THEN Null ELSE s[1]), NEW link,
         \A i \in 1 .. Len(s) : link[s[i]] = (IF i = Len(s) THEN Null ELSE s[i + 1])
  PROVE  \A i \in Nat \ {0} :
           ListIterator(start, link)[i] = IF i <= Len(s) THEN s[i] ELSE Null
<1> DEFINE Visits(v) == v = [i \in Nat |-> IF i <= 1 THEN start
                                           ELSE IF v[i - 1] = Null THEN Null
                                           ELSE link[v[i - 1]]]
           f == [i \in Nat |-> IF i <= 1 THEN start ELSE IF i <= Len(s) THEN s[i] ELSE Null]
           w == ListIterator(start, link)
<1>1. w = CHOOSE v : Visits(v) BY DEF ListIterator
<1>2. Len(s) \in Nat /\ \A i \in 1 .. Len(s) : s[i] \in Node /\ s[i] # Null
  BY ListAssumption
<1>3. Visits(f)
  <2> DEFINE g == [i \in Nat |-> IF i <= 1 THEN start
                                 ELSE IF f[i - 1] = Null THEN Null ELSE link[f[i - 1]]]
  <2>1. ASSUME NEW i \in Nat PROVE g[i] = f[i]
    <3>1. CASE i <= 1 BY <3>1
    <3>2. CASE i > 1
      <4>1. i - 1 \in Nat /\ i - 1 >= 1 BY <3>2
      <4>2. f[i - 1] = IF i - 1 <= Len(s) THEN s[i - 1] ELSE Null BY <1>2, <4>1
      <4>3. CASE i - 1 <= Len(s)
        <5>1. f[i - 1] = s[i - 1] /\ f[i - 1] # Null /\ i - 1 \in 1 .. Len(s)
          BY <1>2, <4>1, <4>2, <4>3
        <5>2. link[s[i - 1]] = IF i - 1 = Len(s) THEN Null ELSE s[i - 1 + 1] BY <5>1
        <5>3. i - 1 + 1 = i BY <4>1
        <5>4. QED BY <1>2, <3>2, <4>1, <5>1, <5>2, <5>3
      <4>4. CASE ~(i - 1 <= Len(s)) BY <1>2, <3>2, <4>1, <4>2, <4>4
      <4>5. QED BY <4>3, <4>4
    <3>3. QED BY <3>1, <3>2
  <2>2. f = g BY <2>1
  <2>3. QED BY <2>2
<1>4. Visits(w)
  <2>1. \E v : Visits(v) BY <1>3
  <2> HIDE DEF Visits, f, w
  <2>2. Visits(CHOOSE v : Visits(v)) BY <2>1
  <2>3. QED BY <1>1, <2>2
<1>5. \A i \in Nat : w[i] = IF i <= 1 THEN start
                            ELSE IF w[i - 1] = Null THEN Null ELSE link[w[i - 1]]
  BY <1>4
<1>6. \A i \in Nat : f[i] = IF i <= 1 THEN start
                            ELSE IF f[i - 1] = Null THEN Null ELSE link[f[i - 1]]
  BY <1>3
<1> HIDE DEF w
<1> DEFINE D == {i \in Nat : w[i] # f[i]}
<1>7. D = {}
  <2>1. SUFFICES ASSUME D # {} PROVE FALSE
    OBVIOUS
  <2>2. PICK x \in D : \A y \in D : x <= y BY <2>1, LeastNat
  <2> HIDE DEF f
  <2>3. CASE x <= 1 BY <1>5, <1>6, <2>2, <2>3
  <2>4. CASE x > 1
    <3>1. x - 1 \in Nat /\ x - 1 \notin D BY <2>2, <2>4
    <3>2. w[x - 1] = f[x - 1] BY <3>1
    <3>3. QED BY <1>5, <1>6, <2>2, <2>4, <3>2
  <2>5. QED BY <2>3, <2>4, <2>2
<1>8. \A i \in Nat : w[i] = f[i] BY <1>7
<1>9. QED BY <1>2, <1>8 DEF w

(* The pointers of a list that holds s, as Intact has them.                *)
LinkedAs(s, h, t, nx, pv) ==
  /\ h = (IF s = <<>> THEN Null ELSE s[1])
  /\ t = (IF s = <<>> THEN Null ELSE s[Len(s)])
  /\ \A i \in 1 .. Len(s) :
       /\ nx[s[i]] = (IF i = Len(s) THEN Null ELSE s[i + 1])
       /\ pv[s[i]] = (IF i = 1 THEN Null ELSE s[i - 1])

(* The iterator of a list, from the head and from the tail.                *)
LEMMA ListIteratorIs ==
  ASSUME NEW s \in Seq(Node), NEW h, NEW t, NEW nx, NEW pv, LinkedAs(s, h, t, nx, pv)
  PROVE  \A i \in Nat \ {0} :
           /\ ListIterator(h, nx)[i] = IF i <= Len(s) THEN s[i] ELSE Null
           /\ ListIterator(t, pv)[i] = IF i <= Len(s) THEN s[Len(s) + 1 - i] ELSE Null
<1> DEFINE r == [i \in 1 .. Len(s) |-> s[Len(s) + 1 - i]]
<1>1. Len(s) \in Nat OBVIOUS
<1>2. /\ h = (IF s = <<>> THEN Null ELSE s[1])
      /\ t = (IF s = <<>> THEN Null ELSE s[Len(s)])
      /\ \A i \in 1 .. Len(s) :
           /\ nx[s[i]] = (IF i = Len(s) THEN Null ELSE s[i + 1])
           /\ pv[s[i]] = (IF i = 1 THEN Null ELSE s[i - 1])
  BY DEF LinkedAs
<1>3. s = <<>> <=> Len(s) = 0 BY <1>1
<1>4. \A i \in Nat \ {0} : ListIterator(h, nx)[i] = IF i <= Len(s) THEN s[i] ELSE Null
  <2>1. h = (IF Len(s) = 0 THEN Null ELSE s[1]) BY <1>2, <1>3
  <2>2. \A i \in 1 .. Len(s) : nx[s[i]] = (IF i = Len(s) THEN Null ELSE s[i + 1]) BY <1>2
  <2>3. QED BY <2>1, <2>2, IteratorIs
<1>5. r \in Seq(Node) /\ Len(r) = Len(s) BY <1>1
<1>6. \A i \in 1 .. Len(s) : r[i] = s[Len(s) + 1 - i] OBVIOUS
<1>7. t = (IF Len(r) = 0 THEN Null ELSE r[1])
  <2>1. CASE Len(s) = 0 BY <1>2, <1>3, <1>5, <2>1
  <2>2. CASE Len(s) # 0
    <3>1. 1 \in 1 .. Len(s) /\ Len(s) + 1 - 1 = Len(s) BY <1>1, <2>2
    <3>2. r[1] = s[Len(s)] BY <1>6, <3>1
    <3>3. QED BY <1>2, <1>3, <1>5, <2>2, <3>2
  <2>3. QED BY <2>1, <2>2
<1> HIDE DEF r
<1>8. ASSUME NEW i \in 1 .. Len(r)
      PROVE  pv[r[i]] = (IF i = Len(r) THEN Null ELSE r[i + 1])
  <2>1. /\ Len(s) + 1 - i \in 1 .. Len(s) /\ r[i] = s[Len(s) + 1 - i]
        /\ Len(s) + 1 - i = 1 <=> i = Len(r)
    BY <1>1, <1>5, <1>6, <1>8
  <2>2. CASE i = Len(r) BY <1>2, <2>1, <2>2
  <2>3. CASE i # Len(r)
    <3>1. i + 1 \in 1 .. Len(s) /\ Len(s) + 1 - i - 1 = Len(s) + 1 - (i + 1)
      BY <1>1, <1>5, <1>8, <2>3
    <3>2. r[i + 1] = s[Len(s) + 1 - (i + 1)] BY <1>6, <3>1
    <3>3. pv[r[i]] = s[Len(s) + 1 - i - 1] BY <1>2, <2>1, <2>3
    <3>4. QED BY <2>3, <3>1, <3>2, <3>3
  <2>4. QED BY <2>2, <2>3
<1>9. \A i \in Nat \ {0} : ListIterator(t, pv)[i] = IF i <= Len(r) THEN r[i] ELSE Null
  BY <1>5, <1>7, <1>8, IteratorIs
<1>10. \A i \in Nat \ {0} :
         ListIterator(t, pv)[i] = IF i <= Len(s) THEN s[Len(s) + 1 - i] ELSE Null
  BY <1>1, <1>5, <1>6, <1>9
<1>11. QED BY <1>4, <1>10

(* A list has no more nodes than there are.                                *)
LEMMA ListLength ==
  ASSUME IsFiniteSet(Node), NEW s \in Seq(Node),
         \A i, j \in 1 .. Len(s) : s[i] = s[j] => i = j
  PROVE  Cardinality(Node) \in Nat /\ Len(s) <= Cardinality(Node)
<1>1. Len(s) \in Nat OBVIOUS
<1>2. s \in Injection(1 .. Len(s), Node)
  <2>1. s \in [1 .. Len(s) -> Node] BY <1>1
  <2>2. QED BY <2>1 DEF Injection, IsInjective
<1>3. Cardinality(1 .. Len(s)) <= Cardinality(Node) BY <1>2, FS_Injection
<1>4. Cardinality(1 .. Len(s)) = Len(s)
  <2>1. 1 \in Int /\ Len(s) \in Int BY <1>1
  <2>2. Cardinality(1 .. Len(s)) = IF 1 > Len(s) THEN 0 ELSE Len(s) - 1 + 1
    BY <2>1, FS_Interval
  <2>3. QED BY <1>1, <2>2
<1>5. QED BY <1>3, <1>4, FS_CardinalityType

(* An intact list of less than Byte nodes passes ListIntegrityVerify.      *)
LEMMA NotCorrupt ==
  ASSUME NEW s \in Seq(Node), NEW h, NEW t, NEW nx, NEW pv, LinkedAs(s, h, t, nx, pv),
         Len(s) < Byte
  PROVE  ~Corrupt(h, t, Len(s), nx, pv)
<1>1. Len(s) \in Nat /\ \A i \in 1 .. Len(s) : s[i] \in Node /\ s[i] # Null
  BY ListAssumption
<1>2. SUFFICES ASSUME Corrupt(h, t, Len(s), nx, pv) PROVE FALSE
  OBVIOUS
<1>3. Len(s) # 0 /\ s # <<>> BY <1>2 DEF Corrupt
<1>4. h = s[1] /\ t = s[Len(s)] BY <1>3 DEF LinkedAs
<1>5. pv[h] = Null /\ nx[t] = Null BY <1>1, <1>3, <1>4 DEF LinkedAs
<1>6. Len(s) > 1 => nx[h] # Null /\ pv[t] # Null
  <2>1. SUFFICES ASSUME Len(s) > 1 PROVE nx[h] # Null /\ pv[t] # Null OBVIOUS
  <2>2. nx[s[1]] = s[2] /\ pv[s[Len(s)]] = s[Len(s) - 1] BY <1>1, <2>1 DEF LinkedAs
  <2>3. QED BY <1>1, <1>4, <2>1, <2>2
<1>7. \A i \in 2 .. Len(s) : /\ ListIterator(h, nx)[i] = s[i]
                             /\ ListIterator(t, pv)[i] = s[Len(s) + 1 - i]
  BY <1>1, ListIteratorIs
<1>8. \A i \in 2 .. Len(s) : ListIterator(h, nx)[i] # Null /\ ListIterator(t, pv)[i] # Null
  BY <1>1, <1>7
<1>9. QED BY <1>1, <1>2, <1>5, <1>6, <1>8, ListAssumption DEF Corrupt

(* ListIntegrityVerify runs at the end of every change.                    *)
LEMMA HeldBy ==
  ASSUME ListInv, [ListsNext]_listVars
  PROVE  UNCHANGED held \/ \E l \in List : ListIntegrityVerify(l)
<1>1. ASSUME NEW l \in List, NEW n, NEW x, NEW where, LinkAt(l, n, x, where)
      PROVE  \E k \in List : ListIntegrityVerify(k)
  BY <1>1 DEF LinkAt, Link
<1>2. ASSUME NEW l \in List, NEW n, ListNodeRemove(l, n)
      PROVE  \E k \in List : ListIntegrityVerify(k)
  BY <1>2 DEF ListNodeRemove, Unlink
<1>3. ASSUME NEW l \in List, NEW n \in Node,
             \/ \E x \in Node, where \in {"before", "after"} : ListNodeAddAtNode(l, n, x, where)
             \/ \E position \in {"head", "tail"} : ListNodeAddAtPosition(l, n, position)
             \/ AddUnsorted(l, n)
      PROVE  \E k \in List : ListIntegrityVerify(k)
  BY <1>1, <1>3 DEF ListNodeAddAtNode, ListNodeAddAtPosition, AddUnsorted
<1>4. ASSUME NEW l \in List, NEW n \in Node, Take(l, n) \/ ListNodeDeinit(l, n)
      PROVE  \E k \in List : ListIntegrityVerify(k)
  BY <1>2, <1>4 DEF Take, ListNodeDeinit
<1>5. CASE AddNode
  <2>1. add.list \in List BY <1>5 DEF AddNode, ListInv, Walking
  <2>2. QED BY <1>1, <1>5, <2>1 DEF AddNode, lists
<1>6. ASSUME \/ \E l \in List, n \in Node : AddBegin(l, n)
             \/ AddNext \/ AddDone \/ UNCHANGED listVars
      PROVE  UNCHANGED held
  BY <1>6 DEF AddBegin, AddNext, AddDone, listVars, lists
<1>7. QED BY <1>3, <1>4, <1>5, <1>6 DEF ListsNext

LEMMA NeverHeldStep ==
  ASSUME ListInv, ListInv', [ListsNext]_listVars, IsFiniteSet(Node), Cardinality(Node) < Byte,
         held = [l \in List |-> FALSE]
  PROVE  held' = [l \in List |-> FALSE]
<1>1. CASE UNCHANGED held BY <1>1
<1>2. ASSUME NEW l \in List, ListIntegrityVerify(l)
      PROVE  held' = [k \in List |-> FALSE]
  <2> DEFINE s == contents'[l]
  <2>1. /\ s \in Seq(Node) /\ size'[l] = Len(s)
        /\ LinkedAs(s, head'[l], tail'[l], next', prev')
        /\ \A i, j \in 1 .. Len(s) : s[i] = s[j] => i = j
    BY DEF ListInv, HeapInv, HeapTypes, OnePosition, Intact, LinkedAs
  <2>2. Len(s) < Byte
    <3>1. Cardinality(Node) \in Nat /\ Len(s) <= Cardinality(Node) BY <2>1, ListLength
    <3>2. Len(s) \in Nat BY <2>1
    <3>3. QED BY <3>1, <3>2, ListAssumption
  <2> HIDE DEF s
  <2>3. ~Corrupt(head'[l], tail'[l], Len(s), next', prev') BY <2>1, <2>2, NotCorrupt
  <2>4. held' = [held EXCEPT ![l] = Corrupt(head'[l], tail'[l], Len(s), next', prev')]
    BY <1>2, <2>1 DEF ListIntegrityVerify
  <2>5. Corrupt(head'[l], tail'[l], Len(s), next', prev') \in BOOLEAN BY DEF Corrupt
  <2>6. QED BY <2>3, <2>4, <2>5
<1>3. QED BY <1>1, <1>2, HeldBy
-------------------------------------------------------------------------------
(* ListSearch.  The walk ends at the first of the stops S.                 *)
LEMMA FirstStop ==
  ASSUME NEW N \in Nat, NEW S \in SUBSET Nat, NEW k \in S, k \in 1 .. N,
         NEW c, c = CHOOSE i \in 1 .. N : i \in S /\ \A j \in 1 .. i - 1 : j \notin S
  PROVE  /\ c \in 1 .. N /\ c \in S
         /\ (\A j \in 1 .. k - 1 : j \notin S) => c = k
<1> DEFINE P(i) == i \in S /\ \A j \in 1 .. i - 1 : j \notin S
<1>1. \E i \in 1 .. N : P(i)
  <2> DEFINE D == S \cap 1 .. N
  <2>1. D \subseteq Nat /\ D # {} OBVIOUS
  <2>2. PICK x \in D : \A y \in D : x <= y BY <2>1, LeastNat
  <2>3. \A j \in 1 .. x - 1 : j \notin S BY <2>2
  <2>4. QED BY <2>2, <2>3
<1>2. c = CHOOSE i \in 1 .. N : P(i) OBVIOUS
<1>3. c \in 1 .. N /\ P(c)
  <2> HIDE DEF P
  <2>1. QED BY <1>1, <1>2
<1>4. (\A j \in 1 .. k - 1 : j \notin S) => c = k BY <1>3
<1>5. QED BY <1>3, <1>4

(* A sorted list is searched from the end that middle suggests, whatever   *)
(* middle points to: the order of the IDs alone decides where to stop.     *)
LEMMA SearchIs ==
  ASSUME ListInv, IsFiniteSet(Node), NEW l \in List, NEW n \in Node
  PROVE  ListSearch(l, n) = IF n \in Holds(l) THEN n ELSE Null
<1> DEFINE s == contents[l]
           halves == sorted[l] /\ middle[l] # Null
           reverse == halves /\ n >= Id(middle[l])
           w == IF reverse THEN ListIterator(tail[l], prev) ELSE ListIterator(head[l], next)
           Past(m) == m # Null /\ (IF reverse THEN n > Id(m) ELSE n < Id(m))
           Stop(i) == w[i] = Null \/ Id(w[i]) = n \/ (halves /\ Past(w[i + 1]))
           last == CHOOSE i \in 1 .. Cardinality(Node) + 1 :
                     Stop(i) /\ \A j \in 1 .. i - 1 : ~Stop(j)
           At(i) == IF reverse THEN Len(s) + 1 - i ELSE i
<1>1. ListSearch(l, n) = IF w[last] # Null /\ Id(w[last]) = n THEN w[last] ELSE Null
  BY DEF ListSearch
<1>2. /\ s \in Seq(Node) /\ Len(s) \in Nat
      /\ LinkedAs(s, head[l], tail[l], next, prev)
      /\ \A i, j \in 1 .. Len(s) : s[i] = s[j] => i = j
      /\ \A i \in 1 .. Len(s) : s[i] \in Node /\ s[i] \in Nat /\ s[i] # Null /\ Id(s[i]) = s[i]
      /\ sorted[l] => \A i, j \in 1 .. Len(s) : i < j => s[i] < s[j]
  <2>1. s \in Seq(Node) /\ Len(s) \in Nat BY DEF ListInv, HeapInv, HeapTypes
  <2>2. LinkedAs(s, head[l], tail[l], next, prev) BY DEF ListInv, HeapInv, Intact, LinkedAs
  <2>3. \A i, j \in 1 .. Len(s) : s[i] = s[j] => i = j BY DEF ListInv, HeapInv, OnePosition
  <2>4. \A i \in 1 .. Len(s) : s[i] \in Node /\ s[i] \notin freed
    BY <2>1 DEF ListInv, HeapInv, OnePosition
  <2>5. sorted[l] => \A i, j \in 1 .. Len(s) : i < j => s[i] < s[j]
    BY DEF ListInv, SortedOrder
  <2> HIDE DEF s
  <2>6. \A i \in 1 .. Len(s) : s[i] \in Node /\ s[i] \in Nat /\ s[i] # Null /\ Id(s[i]) = s[i]
    BY <2>4, ListAssumption DEF Id
  <2>7. QED BY <2>1, <2>2, <2>3, <2>5, <2>6
<1>3. Cardinality(Node) \in Nat /\ Len(s) <= Cardinality(Node) BY <1>2, ListLength
<1>4. n \in Holds(l) <=> \E p \in 1 .. Len(s) : s[p] = n BY DEF Holds
<1>5. \A i \in Nat \ {0} : w[i] = IF i <= Len(s) THEN s[At(i)] ELSE Null
  BY <1>2, ListIteratorIs
<1>6. n \in Nat /\ n # Null BY ListAssumption
<1> HIDE DEF w, s
<1>7. \A i \in 1 .. Len(s) : At(i) \in 1 .. Len(s) /\ w[i] = s[At(i)] /\ w[i] # Null
                             /\ Id(w[i]) = w[i] /\ w[i] \in Nat
  BY <1>2, <1>5
<1>8. w[Len(s) + 1] = Null BY <1>2, <1>5
<1>9. halves => \A i, j \in 1 .. Len(s) : i < j => IF reverse THEN w[j] < w[i] ELSE w[i] < w[j]
  <2>1. SUFFICES ASSUME halves, NEW i \in 1 .. Len(s), NEW j \in 1 .. Len(s), i < j
                 PROVE  IF reverse THEN w[j] < w[i] ELSE w[i] < w[j]
    OBVIOUS
  <2>2. sorted[l] BY <2>1
  <2>3. w[i] = s[At(i)] /\ w[j] = s[At(j)] /\ At(i) \in 1 .. Len(s) /\ At(j) \in 1 .. Len(s)
    BY <1>7
  <2>4. CASE reverse
    <3>1. At(j) < At(i) BY <1>2, <2>1, <2>4
    <3>2. s[At(j)] < s[At(i)] BY <1>2, <2>2, <2>3, <3>1
    <3>3. QED BY <2>3, <2>4, <3>2
  <2>5. CASE ~reverse
    <3>1. At(i) < At(j) BY <2>1, <2>5
    <3>2. s[At(i)] < s[At(j)] BY <1>2, <2>2, <2>3, <3>1
    <3>3. QED BY <2>3, <2>5, <3>2
  <2>6. QED BY <2>4, <2>5
<1> DEFINE S == {i \in Nat : Stop(i)}
           N == Cardinality(Node) + 1
<1>10. last = CHOOSE i \in 1 .. N : i \in S /\ \A j \in 1 .. i - 1 : j \notin S
  <2>1. \A i \in 1 .. N : (i \in S /\ \A j \in 1 .. i - 1 : j \notin S)
                            <=> (Stop(i) /\ \A j \in 1 .. i - 1 : ~Stop(j))
    <3> HIDE DEF Stop
    <3>1. \A i \in Nat : i \in S <=> Stop(i) OBVIOUS
    <3>2. N \in Nat BY <1>3
    <3> HIDE DEF S, N
    <3>3. QED BY <3>1, <3>2
  <2> HIDE DEF S, Stop
  <2>2. QED BY <2>1
<1> HIDE DEF last
<1>11. CASE n \in Holds(l)
  <2>1. PICK p \in 1 .. Len(s) : s[p] = n BY <1>4, <1>11
  <2> DEFINE k == At(p)
  <2>2. k \in 1 .. Len(s) /\ At(k) = p /\ w[k] = n BY <1>2, <1>7, <2>1
  <2>3. k \in S /\ k \in 1 .. N BY <1>2, <1>3, <1>7, <2>2
  <2>4. ASSUME NEW j \in 1 .. k - 1 PROVE ~Stop(j)
    <3>1. j \in 1 .. Len(s) /\ j < k /\ j + 1 \in 1 .. Len(s) /\ j + 1 <= k
      BY <1>2, <2>2, <2>4
    <3>2. w[j] # Null /\ Id(w[j]) # n
      <4>1. At(j) # p BY <1>2, <2>2, <3>1
      <4>2. s[At(j)] # s[p] BY <1>2, <1>7, <2>1, <3>1, <4>1
      <4>3. QED BY <1>7, <2>1, <3>1, <4>2
    <3>3. halves => ~Past(w[j + 1])
      <4>1. CASE j + 1 = k BY <1>6, <1>7, <2>2, <3>1, <4>1
      <4>2. CASE j + 1 < k
        <5>1. halves => IF reverse THEN n < w[j + 1] ELSE w[j + 1] < n
          BY <1>9, <2>2, <3>1, <4>2
        <5>2. Id(w[j + 1]) = w[j + 1] /\ w[j + 1] \in Nat BY <1>7, <3>1
        <5>3. QED BY <1>6, <5>1, <5>2
      <4>3. QED BY <2>2, <3>1, <4>1, <4>2
    <3>4. QED BY <3>2, <3>3
  <2>5. \A j \in 1 .. k - 1 : j \notin S BY <2>4
  <2> HIDE DEF S, k
  <2>6. N \in Nat /\ S \in SUBSET Nat BY <1>3 DEF S
  <2> HIDE DEF N
  <2>7. last = k BY <1>10, <2>3, <2>5, <2>6, FirstStop
  <2>8. QED BY <1>1, <1>6, <1>7, <1>11, <2>2, <2>7
<1>12. CASE n \notin Holds(l)
  <2>1. Len(s) + 1 \in S /\ Len(s) + 1 \in 1 .. N BY <1>2, <1>3, <1>8
  <2> HIDE DEF S
  <2>2. N \in Nat /\ S \in SUBSET Nat BY <1>3 DEF S
  <2>3. last \in 1 .. N
    <3> HIDE DEF N
    <3>1. PICK k \in S : k \in 1 .. N BY <2>1
    <3>2. QED BY <1>10, <2>2, <3>1, FirstStop
  <2>4. last \in Nat \ {0} BY <1>3, <2>3
  <2>5. w[last] # Null => last \in 1 .. Len(s) BY <1>2, <1>5, <2>4
  <2>6. last \in 1 .. Len(s) => Id(w[last]) # n BY <1>4, <1>7, <1>12
  <2>7. QED BY <1>1, <1>12, <2>5, <2>6
<1>13. QED BY <1>11, <1>12
-------------------------------------------------------------------------------
(* Whatever the number of lists and nodes and the order of the calls, the  *)
(* pointers of List.c are those of the lists' contents: if no list that    *)
(* ListNodeAddSorted walks unprotected is used by interrupts.              *)
THEOREM ListsIntact == ASSUME Guarded PROVE ListsSpec => []Intact
<1>1. ListInv /\ [ListsNext]_listVars => ListInv'
  BY NextListInv
<1>2. ListInv => Intact
  BY DEF ListInv, HeapInv
<1>3. QED BY InitListInv, <1>1, <1>2, PTL DEF ListsSpec

(* On the same condition a list with its sorted flag set is in ascending   *)
(* order of ID, so that ListSearch may stop early.                         *)
THEOREM ListsSorted == ASSUME Guarded PROVE ListsSpec => []SortedOrder
<1>1. ListInv /\ [ListsNext]_listVars => ListInv'
  BY NextListInv
<1>2. ListInv => SortedOrder
  BY DEF ListInv
<1>3. QED BY InitListInv, <1>1, <1>2, PTL DEF ListsSpec

(* On the same condition, and with fewer nodes than a U8_t counts, the     *)
(* check at the end of every change never finds a list corrupt, so that no *)
(* list stays locked.                                                      *)
THEOREM ListsNeverHeld ==
  ASSUME Guarded, IsFiniteSet(Node), Cardinality(Node) < Byte
  PROVE  ListsSpec => []NeverHeld
<1> DEFINE Free == held = [l \in List |-> FALSE]
<1>1. ListsInit => ListInv /\ Free BY InitListInv DEF ListsInit
<1>2. ListInv /\ Free /\ [ListsNext]_listVars => ListInv' /\ Free'
  BY NextListInv, NeverHeldStep
<1>3. Free => NeverHeld BY DEF NeverHeld
<1> HIDE DEF Free
<1>4. QED BY <1>1, <1>2, <1>3, PTL DEF ListsSpec

(* On the same condition ListSearch finds a node if and only if the list   *)
(* holds it, wherever middle points.                                       *)
THEOREM ListSearchFinds ==
  ASSUME Guarded, IsFiniteSet(Node)
  PROVE  ListsSpec => []SearchFinds
<1>1. ListInv /\ [ListsNext]_listVars => ListInv'
  BY NextListInv
<1>2. ListInv => SearchFinds
  BY SearchIs DEF SearchFinds
<1>3. QED BY InitListInv, <1>1, <1>2, PTL DEF ListsSpec
===============================================================================
