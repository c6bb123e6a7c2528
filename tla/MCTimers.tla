------------------------------- MODULE MCTimers -------------------------------
(* A periodic timer, and a timer of three iterations reset by hand.        *)
EXTENDS Timers

SomeParameters ==
  {[on |-> TRUE, periodic |-> TRUE, ar |-> TRUE, itr |-> 1],
   [on |-> FALSE, periodic |-> FALSE, ar |-> FALSE, itr |-> 3]}
===============================================================================
