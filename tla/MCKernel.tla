------------------------------- MODULE MCKernel -------------------------------
(* Instances of PriorKernel for TLC.  Task 0 is KernelTaskIdle (CAT_LOW,   *)
(* priority 1); the others are application tasks of falling priority.      *)
EXTENDS PriorKernel

CONSTANTS e1, e2

MCCategory == [t \in Task |-> IF t = Idle THEN 0 ELSE 1]

MCMinor == [t \in Task |-> IF t = Idle THEN 1 ELSE IF t = 1 THEN 4 ELSE 2]

(* Distinct hashes.                                                        *)
HashInjective ==
  [k \in Key |-> IF k \in Task THEN k
                 ELSE IF k = Mock THEN 100
                 ELSE IF k = Sleep THEN 101
                 ELSE IF k = e1 THEN 102 ELSE 103]

(* e1 and the event of TaskSleep collide.                                  *)
HashColliding ==
  [k \in Key |-> IF k = Sleep THEN HashInjective[e1] ELSE HashInjective[k]]
===============================================================================
