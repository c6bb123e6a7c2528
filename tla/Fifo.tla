--------------------------------- MODULE Fifo ---------------------------------
(* What a ring-buffer promises: a first-in first-out store of at most       *)
(* Capacity values, that may be emptied.                                    *)
EXTENDS Naturals, Sequences

CONSTANTS Capacity, Value

VARIABLES
  q,     \* the values stored, oldest first
  last   \* the value taken out last

Put(d) == Len(q) < Capacity /\ q' = Append(q, d) /\ UNCHANGED last

Get == q # <<>> /\ last' = Head(q) /\ q' = Tail(q)

Clear == q' = <<>> /\ UNCHANGED last

FifoInit == q = <<>> /\ last \in Value

FifoNext == (\E d \in Value : Put(d)) \/ Get \/ Clear

FifoSpec == FifoInit /\ [][FifoNext]_<<q, last>>
===============================================================================
