------------------------------- MODULE KernelAge -------------------------------
(* PriorKernel with a history variable: age[t][k] is the run-time that has  *)
(* been reported to the broker, one delta per cycle, while task t was       *)
(* parked or queued and since its poll of k was made or its lifetime reset. *)
EXTENDS PriorKernel

VARIABLE age

ageVars == <<vars, age>>

AgeInit == Init /\ age = [t \in Task |-> [k \in Key |-> 0]]

AgeNext ==
  /\ Next
  /\ age' = [t \in Task |-> [k \in Key |->
       IF listen'[t][k] = None THEN 0
       ELSE IF listen'[t][k] # listen[t][k] /\ listen'[t][k].cnt = 0 /\ ~listen'[t][k].tout THEN 0
       ELSE IF phase = "thread" /\ phase' = "event" /\ t # running'
            THEN AddTime(age[t][k], delta') ELSE age[t][k]]]

AgeSpec == AgeInit /\ [][AgeNext]_ageVars

AgeFairSpec == AgeSpec /\ Fairness

(* A timeout is never missed: between two ticks, the run-time that a polled *)
(* event has been waited for in TcbWaitList or the ExecutionQueue is less   *)
(* than its lifetime, unless it has occurred or has timed out.              *)
NotLate ==
  phase = "thread" =>
    \A t \in Task, k \in Key :
      listen[t][k] # None /\ ~listen[t][k].occ /\ ~listen[t][k].tout
        /\ listen[t][k].life # Inf => age[t][k] < listen[t][k].life
================================================================================
