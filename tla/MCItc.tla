-------------------------------- MODULE MCItc --------------------------------
(* Message queues, mailboxes, event groups and semaphores for TLC.          *)
EXTENDS Itc

CONSTANTS e1, e2, e3, e4, f1, f2, q1, b1, b2, g1, s1

MCCategory == [t \in Task |-> IF t = Idle THEN 0 ELSE 1]

MCMinor == [t \in Task |-> IF t = Idle THEN 1 ELSE IF t = 1 THEN 4 ELSE 2]

MCHash == [k \in Key |-> IF k \in Task THEN k
                         ELSE CASE k = Mock -> 100 [] k = Sleep -> 101 [] k = e1 -> 102
                                [] k = e2 -> 103 [] k = e3 -> 104 [] OTHER -> 105]

MCMask == {{f1, f2}}

MCOwner == [o \in Obj |-> 1]

MCEvent1 == [o \in Obj |-> e1]

MCEvent2 == [o \in Obj |-> e2]

MCEvent3 == [o \in Obj |-> e3]

MCAddr1 == [o \in Obj |-> [a \in 0 .. 1 |-> IF a = 0 THEN e1 ELSE e4]]

MCAddr2 == [o \in Obj |-> [a \in 0 .. 1 |-> IF a = 0 THEN e2 ELSE e4]]

MCFlag1 == [o \in Obj |-> [m \in MCMask |-> e1]]

MCFlag2 == [o \in Obj |-> [m \in MCMask |-> e2]]
==============================================================================
