------------------------------ MODULE PicNesting ------------------------------
(***************************************************************************)
(* The properties of the 8259A pair: an 8259A has no stack, only a bitmap  *)
(* of levels in service and a rotating priority, and still its             *)
(* non-specific EOI must retire the interrupt that was started last.  This *)
(* module maps each chip to the stack of module ServiceOrder.              *)
(***************************************************************************)
EXTENDS DualPic

(* The levels in service of a chip, ordered by priority. *)
InServiceOrder(c) ==
  {p \in c.isr \X c.isr : priority_rank(c, p[1]) < priority_rank(c, p[2])}

MasterService == INSTANCE ServiceOrder
  WITH Levels <- Lines, active <- master.isr, over <- InServiceOrder(master)
SlaveService == INSTANCE ServiceOrder
  WITH Levels <- Lines, active <- slave.isr, over <- InServiceOrder(slave)

(* The command bytes of a guest that keeps to nested service: any ICW1, an *)
(* OCW3 that does not enter special mask mode, and the OCW2s that name no  *)
(* level (EOI, rotate on EOI, rotate in auto-EOI mode on and off, no-op).  *)
NestedCommands ==
  {v \in Bytes : \/ Bit(v, 4)
                 \/ Bit(v, 3) /\ ~(Bit(v, 6) /\ Bit(v, 5))
                 \/ ~Bit(v, 3) /\ Ocw2Op(v) \in {0, 1, 2, 4, 5}}

-----------------------------------------------------------------------------
(* Each chip, driven by nested commands, serves interrupts as a stack:     *)
(* every acknowledge (INTA or poll read, highest_pending and ack_irq)      *)
(* starts a service on top of the active ones, every non-specific EOI      *)
(* (clear_highest_isr) ends the last one started, and a rotation, on EOI   *)
(* or in auto-EOI mode, never reorders the ones that stay active.          *)
MasterNests == MasterService!Spec
SlaveNests == SlaveService!Spec

(* A request latched in edge mode is consumed only by an acknowledge or by *)
(* ICW1: lowering the line, masking, EOI, rotation and a refresh of the    *)
(* cascade all leave it pending (set_irq, refresh_cascade).                *)
Consumed(c, d, irq) ==
  \/ irq \in d.isr \ c.isr
  \/ c.auto_eoi
  \/ d.init_state = "WaitingICW2"

KeepsRequests(c, d, S) ==
  \A irq \in S : irq \in c.irr \ d.irr /\ ~c.level_triggered => Consumed(c, d, irq)

RequestsAreKept ==
  [][/\ KeepsRequests(master, master', Lines \ {Cascade})
     /\ KeepsRequests(slave, slave', Lines)]_vars

(* In level mode a request stands only while its line is asserted: a       *)
(* device that lowers its line has withdrawn the request (set_irq), also   *)
(* the slave as the device behind master line 2 (refresh_cascade).         *)
LevelRequestsAreBacked ==
  \A c \in {master, slave} : c.level_triggered => c.irr \subseteq c.irq_lines

(* The cascade comment of refresh_cascade: "master IRQ2 reflects whether   *)
(* the slave has a deliverable interrupt", and IRR2 is kept in sync.  So a *)
(* deliverable slave interrupt is latched on the master's line 2 unless    *)
(* line 2 is being serviced.                                               *)
CascadeInSync ==
  has_pending(slave) => Cascade \in master.irr \cup master.isr

(* Rotation on EOI serves equal-priority lines in turn: whatever the other *)
(* lines do, a latched request on an unmasked master line is eventually in *)
(* service.                                                                *)
RotationIsFair ==
  \A irq \in DeviceIrqs \cap Lines :
    (irq \in master.irr \ master.imr) ~> (irq \in master.isr)
=============================================================================
