-------------------------------- MODULE MCPic --------------------------------
(* Instances of the 8259A pair for TLC. *)
EXTENDS PicNesting

(* The guest keeps sending the EOI commands its handlers end with, and the *)
(* virtual CPU keeps acknowledging while a request is deliverable.         *)
Fairness ==
  /\ WF_vars(get_pending_vector)
  /\ WF_vars(\E v \in MasterCommands : MasterWriteCommand(v))

(* Both chips out of reset with every line open, as after the guest's own *)
(* initialisation: edge triggered, cascaded, no auto-EOI.                 *)
OpenInit ==
  /\ master = [NewChip(32) EXCEPT !.imr = {}]
  /\ slave = [NewChip(40) EXCEPT !.imr = {}]

OpenSpec == OpenInit /\ [][Next]_vars
OpenFairSpec == OpenSpec /\ Fairness
=============================================================================
