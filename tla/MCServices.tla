------------------------------ MODULE MCServices ------------------------------
(***************************************************************************)
(* One instance of the parts of the kernel that work on their own: every   *)
(* behaviour is one of one part, and the others rest.                      *)
(***************************************************************************)
EXTENDS Algorithms, Ids, CritSect, RunTime, Startup, Locks, Shell, ListWhole,
        RingBuffer, LinkedList, Memory, Timers

CONSTANT Parts

VARIABLE part  \* the part that runs

MCCrcData == {<<b>> : b \in U8} \cup [1 .. 2 -> {0, 49, 255}]

MCFletcherData == UNION {[1 .. n -> {0, 1, 100, 254, 255}] : n \in 0 .. 3}

MCBuffers == {[i \in 1 .. 10 |-> IF i \in B THEN 32 ELSE 0] : B \in {{}, {1}, {3}, {4, 10}}}

MCTicks == (1 .. 20) \cup {100, 137, 138, 250, 999, 1000, 1001, 1098, 1099, 3000, 10000, 65535}

MCCommands ==
  {[cmd |-> "cfg", min_tokens |-> 1, max_tokens |-> 4, callback |-> TRUE],
   [cmd |-> "run", min_tokens |-> 2, max_tokens |-> 2, callback |-> TRUE],
   [cmd |-> "run", min_tokens |-> 1, max_tokens |-> 3, callback |-> TRUE],
   [cmd |-> "app", min_tokens |-> 1, max_tokens |-> 1, callback |-> FALSE]}

MCLevel == [w \in {"uart", "tick"} |-> IF w = "uart" THEN 1 ELSE 2]

(* A periodic timer, and a timer of three iterations reset by hand.        *)
MCParameters ==
  {[on |-> TRUE, periodic |-> TRUE, ar |-> TRUE, itr |-> 1],
   [on |-> FALSE, periodic |-> FALSE, ar |-> FALSE, itr |-> 3]}

allVars ==
  <<input, idVars, critVars, timeVars, startVars, lockVars, shellVars,
  wholeVars, ringVars, listVars, memoryVars, timersVars, part>>

Init ==
  /\ part \in Parts
  /\ AlgorithmsInit /\ IdsInit /\ CritInit /\ TimeInit /\ StartInit /\ LocksInit
  /\ ShellInit /\ WholeInit /\ RingInit /\ ListsInit /\ MemoryInit /\ TimersInit
  /\ part = "crit" \/ masks
  /\ part = "whole" \/ \A l \in WholeLists : order[l] = <<>> \/ l = "x"
  /\ part = "ring"
     \/ /\ last = CHOOSE v \in Value : TRUE
        /\ \A i \in Index : buffer[i] = last

Next ==
  /\ UNCHANGED part
  /\ \/ /\ part = "algorithms" /\ AlgorithmsNext
        /\ UNCHANGED <<idVars, critVars, timeVars, startVars, lockVars,
                     shellVars, wholeVars, ringVars, listVars, memoryVars,
                     timersVars>>
     \/ /\ part = "ids" /\ IdsNext
        /\ UNCHANGED <<input, critVars, timeVars, startVars, lockVars,
                     shellVars, wholeVars, ringVars, listVars, memoryVars,
                     timersVars>>
     \/ /\ part = "crit" /\ CritNext
        /\ UNCHANGED <<input, idVars, timeVars, startVars, lockVars,
                     shellVars, wholeVars, ringVars, listVars, memoryVars,
                     timersVars>>
     \/ /\ part = "time" /\ TimeNext
        /\ UNCHANGED <<input, idVars, critVars, startVars, lockVars,
                     shellVars, wholeVars, ringVars, listVars, memoryVars,
                     timersVars>>
     \/ /\ part = "start" /\ StartNext
        /\ UNCHANGED <<input, idVars, critVars, timeVars, lockVars,
                     shellVars, wholeVars, ringVars, listVars, memoryVars,
                     timersVars>>
     \/ /\ part = "locks" /\ LocksNext
        /\ UNCHANGED <<input, idVars, critVars, timeVars, startVars,
                     shellVars, wholeVars, ringVars, listVars, memoryVars,
                     timersVars>>
     \/ /\ part = "shell" /\ ShellNext
        /\ UNCHANGED <<input, idVars, critVars, timeVars, startVars,
                     lockVars, wholeVars, ringVars, listVars, memoryVars,
                     timersVars>>
     \/ /\ part = "whole" /\ WholeNext
        /\ UNCHANGED <<input, idVars, critVars, timeVars, startVars,
                     lockVars, shellVars, ringVars, listVars, memoryVars,
                     timersVars>>
     \/ /\ part = "ring" /\ RingNext
        /\ UNCHANGED <<input, idVars, critVars, timeVars, startVars,
                     lockVars, shellVars, wholeVars, listVars, memoryVars,
                     timersVars>>
     \/ /\ part = "list" /\ ListsNext
        /\ UNCHANGED <<input, idVars, critVars, timeVars, startVars,
                     lockVars, shellVars, wholeVars, ringVars, memoryVars,
                     timersVars>>
     \/ /\ part = "memory" /\ MemoryNext
        /\ UNCHANGED <<input, idVars, critVars, timeVars, startVars,
                     lockVars, shellVars, wholeVars, ringVars, listVars,
                     timersVars>>
     \/ /\ part = "timers" /\ TimersNext
        /\ UNCHANGED <<input, idVars, critVars, timeVars, startVars,
                     lockVars, shellVars, wholeVars, ringVars, listVars,
                     memoryVars>>

Spec == Init /\ [][Next]_allVars
==============================================================================
