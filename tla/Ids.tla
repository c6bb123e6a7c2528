--------------------------------- MODULE Ids ---------------------------------
(***************************************************************************)
(* Object IDs (IdType.c): a pool of sequence numbers for every group of    *)
(* objects, and the lists of IDs that an application fills and hands to    *)
(* MessageMulticast, which takes the IDs out one by one (Message.c).       *)
(***************************************************************************)
EXTENDS Integers, Sequences, FiniteSets

CONSTANTS
  Groups,       \* ID_GROUP_NUM
  SeqBits,      \* ID_SHIFT_AMOUNT_GROUP: bits of a sequence number
  IdListSize    \* ID_LIST_SIZE_MAX

(* The group is a byte; a group has more than one number.                  *)
ASSUME IdAssumption ==
  /\ Groups \in 1 .. 255 /\ IdListSize \in Nat
  /\ 2 ^ SeqBits \in Nat \ {0, 1}

VARIABLES
  IdPools,      \* the free ID and the roll-over mark of every group
  given,        \* history: the group and the ID of every successful request
  idList,       \* the IDs of an application's list, the last one last
  res           \* what the multicast in progress has come to: res of Message.c

idVars == <<IdPools, given, idList, res>>

SeqMask == 2 ^ SeqBits - 1

ID_INVALID == 256 * 2 ^ SeqBits - 1  \* all bits of an 8-bit group and a number

IsValid(id) == id # ID_INVALID /\ id \div 2 ^ SeqBits < Groups

IdGroupGet(id) == IF IsValid(id) THEN id \div 2 ^ SeqBits ELSE 255

IdSequenceNumberGet(id) == IF IsValid(id) THEN id % 2 ^ SeqBits ELSE ID_INVALID

(* The group is tested as if it were an ID, which any group passes.        *)
IdIsInGroup(id, g) ==
  IsValid(id) /\ g \div 2 ^ SeqBits < Groups /\ id \div 2 ^ SeqBits = g

KIdInit == [g \in 0 .. Groups - 1 |-> [free |-> g * 2 ^ SeqBits, rollover |-> FALSE]]

NoRollover(p) == [free |-> p.free + 1, rollover |-> FALSE]  \* mutant

(* The pool after a request: the last number of a group is not given out.  *)
TakeId(p) ==
  [free |-> p.free + 1, rollover |-> (p.free + 1) % 2 ^ SeqBits = SeqMask]

IdsInit ==
  /\ IdPools = KIdInit
  /\ given = <<>>
  /\ idList = <<>>
  /\ res = "none"

(* IListIdRequest: a new object gets an ID of its list's group, or none.   *)
(* One step: only tasks create the objects that ask for an ID (an event    *)
(* and a message have their hash and their queue's ID instead), and tasks  *)
(* are not pre-empted.                                                     *)
KIdRequest(g) ==
  /\ ~IdPools[g].rollover
  /\ IdPools' = [IdPools EXCEPT ![g] = TakeId(@)]
  /\ given' = Append(given, <<g, IdPools[g].free>>)
  /\ UNCHANGED <<idList, res>>

(* Multicasts apart, the application adds to its list and takes from it.   *)
IdListIdAdd(id) ==
  /\ res = "none"
  /\ Len(idList) < IdListSize
  /\ idList' = Append(idList, id)
  /\ UNCHANGED <<IdPools, given, res>>

IdListIdRemove ==
  /\ res = "none"
  /\ idList # <<>>
  /\ idList' = SubSeq(idList, 1, Len(idList) - 1)
  /\ UNCHANGED <<IdPools, given, res>>

MessageMulticast ==
  /\ res = "none"
  /\ res' = "begun"
  /\ UNCHANGED <<IdPools, given, idList>>

(* One round of the loop: the ID is out of the list whether or not the     *)
(* message was sent to it.  A full queue that the task now polls for does  *)
(* not end the loop, although nothing was sent; a failure does.            *)
MulticastRound(sent) ==
  /\ res # "none"
  /\ \/ /\ idList = <<>> \/ res = "fail"
        /\ res' = "none"
        /\ UNCHANGED idList
     \/ /\ idList # <<>> /\ res # "fail"
        /\ res' = sent
        /\ idList' = SubSeq(idList, 1, Len(idList) - 1)
  /\ UNCHANGED <<IdPools, given>>

IdsNext ==
  \/ \E g \in DOMAIN IdPools : KIdRequest(g)
  \/ \E i \in DOMAIN given : IdListIdAdd(given[i][2])
  \/ IdListIdRemove
  \/ MessageMulticast
  \/ \E sent \in {"ok", "poll", "fail"} : MulticastRound(sent)
------------------------------------------------------------------------------
(* No ID is given out twice, in one group or in two, up to and past the    *)
(* roll-over of a group's numbers, and every one is valid and of the group *)
(* that it was requested for.                                              *)
IdsUnique ==
  /\ \A i, j \in DOMAIN given : i # j => given[i][2] # given[j][2]
  /\ \A i \in DOMAIN given :
       /\ IdGroupGet(given[i][2]) = given[i][1]
       /\ \A g \in 0 .. Groups : IdIsInGroup(given[i][2], g) <=> g = given[i][1]
       /\ IdSequenceNumberGet(given[i][2]) \in 0 .. SeqMask - 1
==============================================================================
