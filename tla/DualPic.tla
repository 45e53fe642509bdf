------------------------------- MODULE DualPic -------------------------------
(***************************************************************************)
(* The two cascaded 8259As of a PC (struct DualPic of                      *)
(* src/src/devices/pic.rs): the slave's output is wired to line 2 of the   *)
(* master.  Three parties act on the pair, each under the DualPic mutex,   *)
(* so each action is one critical section: devices move IRQ lines, the     *)
(* virtual CPU acknowledges (get_pending_vector), and the guest writes and *)
(* reads the four I/O ports.                                               *)
(***************************************************************************)
EXTENDS Pic8259

CONSTANTS
  DeviceIrqs,       \* the IRQ lines (0..15, not the cascade) devices drive
  MasterCommands,   \* the bytes the guest may write to port 0x20
  MasterData,       \* ... to port 0x21
  SlaveCommands,    \* ... to port 0xA0
  SlaveData,        \* ... to port 0xA1
  ExplicitAcks      \* the lines acknowledge() may be called with

ASSUME DualPicAssumption ==
  /\ DeviceIrqs \subseteq 0..15 \ {Cascade}
  /\ MasterCommands \subseteq Bytes /\ MasterData \subseteq Bytes
  /\ SlaveCommands \subseteq Bytes /\ SlaveData \subseteq Bytes
  /\ ExplicitAcks \subseteq Lines

VARIABLES master, slave

vars == <<master, slave>>

TypeOK == master \in Chips /\ slave \in Chips

Init == master = NewChip(32) /\ slave = NewChip(40)

-----------------------------------------------------------------------------
(* The master after the cascade input is recomputed from slave chip s.  In *)
(* edge mode a latched cascade request the slave no longer backs is        *)
(* dropped, unless line 2 is in service.                                   *)
refresh_cascade(m, s) ==
  LET driven == set_irq(m, Cascade, has_pending(s))
  IN  IF ~has_pending(s) /\ ~m.level_triggered /\ Cascade \notin m.isr
      THEN [driven EXCEPT !.irr = @ \ {Cascade}]
      ELSE driven

(* The slave is replaced by s and the cascade input follows. *)
SlaveBecomes(m, s) == slave' = s /\ master' = refresh_cascade(m, s)

-----------------------------------------------------------------------------
(* Devices. *)

SetIrq(irq, level) ==
  \/ irq < 8 /\ master' = set_irq(master, irq, level) /\ UNCHANGED slave
  \/ irq >= 8 /\ SlaveBecomes(master, set_irq(slave, irq - 8, level))

(* pulse_irq: one rising and one falling edge under one lock. *)
PulseIrq(irq) ==
  \/ /\ irq < 8
     /\ master' = set_irq(set_irq(master, irq, TRUE), irq, FALSE)
     /\ UNCHANGED slave
  \/ /\ irq >= 8
     /\ LET raised == set_irq(slave, irq - 8, TRUE)
        IN  SlaveBecomes(refresh_cascade(master, raised),
                         set_irq(raised, irq - 8, FALSE))

-----------------------------------------------------------------------------
(* The interrupt acknowledge cycle. *)

ThroughCascade(irq) == irq = Cascade /\ ~master.single_mode

(* What the slave contributes to an acknowledge of the cascade line: its *)
(* highest request, or nothing (the spurious IRQ15).                     *)
SlaveAcked ==
  IF has_pending(slave) THEN ack_irq(slave, highest_pending(slave)) ELSE slave

get_pending_vector ==
  /\ has_pending(master)
  /\ LET irq == highest_pending(master)
     IN  /\ master' = ack_irq(master, irq)
         /\ slave' = IF ThroughCascade(irq) THEN SlaveAcked ELSE slave

(* acknowledge: INTA of a named line.  A master line that no longer         *)
(* requests yields the spurious vector and changes nothing.  (Only the unit *)
(* tests of pic.rs call it.)                                                *)
acknowledge(irq) ==
  \/ ThroughCascade(irq) /\ master' = ack_irq(master, Cascade) /\ slave' = SlaveAcked
  \/ ~ThroughCascade(irq) /\ irq \notin master.irr /\ UNCHANGED vars
  \/ /\ ~ThroughCascade(irq) /\ irq \in master.irr
     /\ master' = ack_irq(master, irq) /\ UNCHANGED slave

(* The vector the next acknowledge returns to the CPU. *)
PendingVector ==
  LET irq == highest_pending(master)
  IN  IF ~ThroughCascade(irq) THEN VectorOf(master, irq)
      ELSE IF has_pending(slave) THEN VectorOf(slave, highest_pending(slave))
      ELSE VectorOf(slave, SPURIOUS_IRQ)

(* has_active_irq: a request pending on the master and not masked, or one *)
(* in service there.                                                      *)
has_active_irq == (master.irr \ master.imr) \cup master.isr # {}

-----------------------------------------------------------------------------
(* The guest's port accesses.  Writing a slave port recomputes the cascade *)
(* input; writing a master port, and reading any port, does not.           *)

MasterWriteCommand(v) == master' = write_command(master, v) /\ UNCHANGED slave
MasterWriteData(v) == master' = write_data(master, v) /\ UNCHANGED slave
SlaveWriteCommand(v) == SlaveBecomes(master, write_command(slave, v))
SlaveWriteData(v) == SlaveBecomes(master, write_data(slave, v))
MasterReadCommand == master' = read_command(master) /\ UNCHANGED slave
SlaveReadCommand == slave' = read_command(slave) /\ UNCHANGED master

DeviceStep ==
  \E irq \in DeviceIrqs : PulseIrq(irq) \/ \E level \in BOOLEAN : SetIrq(irq, level)

CpuStep == get_pending_vector \/ \E irq \in ExplicitAcks : acknowledge(irq)

GuestStep ==
  \/ \E v \in MasterCommands : MasterWriteCommand(v)
  \/ \E v \in MasterData : MasterWriteData(v)
  \/ \E v \in SlaveCommands : SlaveWriteCommand(v)
  \/ \E v \in SlaveData : SlaveWriteData(v)
  \/ MasterReadCommand
  \/ SlaveReadCommand

Next == DeviceStep \/ CpuStep \/ GuestStep

Spec == Init /\ [][Next]_vars
=============================================================================
