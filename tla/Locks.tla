--------------------------------- MODULE Locks ---------------------------------
(***************************************************************************)
(* The lock byte of lists and nodes (List.c) and the recursive lock        *)
(* (RecursiveLock.c, which no module uses): a bit for the mode, the others *)
(* count.  Every call is one critical section.                             *)
(***************************************************************************)
EXTENDS Integers, FiniteSets

CONSTANTS
  Caller,         \* the tasks and interrupts that lock
  ReadCountMax,   \* LIST_LOCK_READ_COUNT_MAX
  CountMax        \* LOCK_COUNT_MAX_VALUE

ASSUME LockAssumption ==
  IsFiniteSet(Caller) /\ ReadCountMax \in Nat \ {0} /\ CountMax \in Nat \ {0}

VARIABLES
  lock,       \* the lock byte of every list and node: write is the mode bit
  holds,      \* history: the granted locks by object, caller and mode
  printed,    \* history: the locks that ListPrintToBuffer has left on the list
  recursive,  \* the recursive lock
  counted     \* history: the granted recursive locks of every caller

lockVars == <<lock, holds, printed, recursive, counted>>

Modes == {"READ", "WRITE"}

(* What has a lock byte: a list and one of its nodes.                      *)
Lockable == {"list", "node"}

(* ListInit, ListNodeInit and RecursiveLockInit.                           *)
LocksInit ==
  /\ lock = [o \in Lockable |-> [write |-> FALSE, count |-> 0]]
  /\ holds = [o \in Lockable |-> [c \in Caller |-> [m \in Modes |-> 0]]]
  /\ printed = 0
  /\ recursive = [write |-> FALSE, count |-> 0]
  /\ counted = [c \in Caller |-> 0]

(* Whether UtilLock grants the lock.                                       *)
Grants(o, mode) ==
  IF mode = "READ" THEN ~lock[o].write /\ lock[o].count # ReadCountMax
                   ELSE lock[o].count = 0

UtilLock(c, o, mode) ==
  /\ IF Grants(o, mode)
     THEN /\ lock' = [lock EXCEPT ![o] = [write |-> mode = "WRITE", count |-> @.count + 1]]
          /\ holds' = [holds EXCEPT ![o][c][mode] = @ + 1]
     ELSE UNCHANGED <<lock, holds>>
  /\ UNCHANGED <<printed, recursive, counted>>

KeepsMode(o, n) == lock[o].write  \* mutant: the last unlock keeps the mode

ModeAfterUnlock(o, n) == lock[o].write /\ n # 0

(* UtilUnlock of a lock that the caller holds.                             *)
UtilUnlock(c, o, mode) ==
  /\ holds[o][c][mode] > 0
  /\ holds' = [holds EXCEPT ![o][c][mode] = @ - 1]
  /\ LET n == IF lock[o].count > 0 THEN lock[o].count - 1 ELSE 0
     IN lock' = [lock EXCEPT ![o] = [write |-> ModeAfterUnlock(o, n), count |-> n]]
  /\ UNCHANGED <<printed, recursive, counted>>

ListLock(c, mode) == UtilLock(c, "list", mode)

ListUnlock(c, mode) == UtilUnlock(c, "list", mode)

ListNodeLock(c, mode) == UtilLock(c, "node", mode)

ListNodeUnlock(c, mode) == UtilUnlock(c, "node", mode)

(* The whole byte is compared with 0, the mode bit too.                    *)
ListIsLocked == lock["list"].write \/ lock["list"].count > 0

(* ListPrintToBuffer locks the list to read, and returns without unlocking *)
(* it.  The locks of its iterator are released step by step.               *)
ListPrintToBuffer ==
  /\ Grants("list", "READ")
  /\ lock' = [lock EXCEPT !["list"].count = @ + 1]
  /\ printed' = printed + 1
  /\ UNCHANGED <<holds, recursive, counted>>

(* RecursiveLockLock: the mode bit is never set, so that no caller gets    *)
(* the lock to read, and every one to write.                               *)
RecursiveLockLock(c, mode) ==
  /\ IF recursive.count # CountMax /\ (mode = "WRITE" \/ recursive.write)
     THEN /\ recursive' = [recursive EXCEPT !.count = @ + 1]
          /\ counted' = [counted EXCEPT ![c] = @ + 1]
     ELSE UNCHANGED <<recursive, counted>>
  /\ UNCHANGED <<lock, holds, printed>>

Decrement(n) == n - 1  \* mutant: below zero

LOCK_COUNT_DEC(n) == IF n > 0 THEN n - 1 ELSE n

(* RecursiveLockUnlock, also of a lock that nobody holds.                  *)
RecursiveLockUnlock(c) ==
  /\ recursive.count = 0 \/ counted[c] > 0
  /\ recursive' = [recursive EXCEPT !.count = LOCK_COUNT_DEC(@)]
  /\ counted' = [counted EXCEPT ![c] = IF @ > 0 THEN @ - 1 ELSE 0]
  /\ UNCHANGED <<lock, holds, printed>>

LocksNext == \E c \in Caller :
  \/ \E mode \in Modes : ListLock(c, mode) \/ ListNodeLock(c, mode)
  \/ \E mode \in Modes : ListUnlock(c, mode) \/ ListNodeUnlock(c, mode)
  \/ \E mode \in Modes : RecursiveLockLock(c, mode)
  \/ RecursiveLockUnlock(c)
  \/ ListPrintToBuffer
------------------------------------------------------------------------------
(* As many grants of every caller as h counts.                             *)
Grant(h) == UNION {{c} \X (1 .. h[c]) : c \in Caller}

Holders(o, mode) ==
  Cardinality(Grant([c \in Caller |-> holds[o][c][mode]]))
    + IF o = "list" /\ mode = "READ" THEN printed ELSE 0

(* A list or a node that is locked to write has no other holder, reader or *)
(* writer; one that is free can be locked in both modes, because nothing   *)
(* is left in the byte by a refused lock or by the last unlock; and the    *)
(* tick, which asks ListIsLocked, sees a list locked exactly while someone *)
(* holds it.  A list that was printed keeps a reader for good.             *)
WriterAlone ==
  /\ \A o \in Lockable :
       /\ Holders(o, "WRITE") > 0 => Holders(o, "WRITE") = 1 /\ Holders(o, "READ") = 0
       /\ Holders(o, "WRITE") + Holders(o, "READ") = 0 => \A mode \in Modes : Grants(o, mode)
  /\ ListIsLocked <=> \E mode \in Modes : Holders("list", mode) > 0

(* The recursive lock counts the calls that got it, up to its limit and    *)
(* back to zero.  It does no more: two callers may hold it to write.       *)
RecursiveCounts == recursive.count = Cardinality(Grant(counted))

(* The locks of lists and nodes exclude, and the recursive lock counts,    *)
(* under every sequence of calls by tasks and interrupts.                  *)
LocksKept == WriterAlone /\ RecursiveCounts
==============================================================================
