------------------------------- MODULE MCVmLoop -------------------------------
(* Instances of the run loop for TLC: a two-byte FIFO. *)
EXTENDS VmLoop

MCTriggers == [i \in 0..3 |-> IF i = 0 THEN 1 ELSE 2]
=============================================================================
