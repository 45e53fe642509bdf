------------------------------- MODULE Pic8259 -------------------------------
(***************************************************************************)
(* One Intel 8259A interrupt controller, as src/src/devices/pic.rs         *)
(* implements it (struct Pic8259).  A chip is a record and every method of *)
(* the struct is an operator on it: the pair of chips, its wiring and its  *)
(* I/O ports are module DualPic.                                           *)
(*                                                                         *)
(* The eight-bit registers are sets of line numbers; the bytes the guest   *)
(* writes to the ports stay numbers and are decoded bit by bit, as the     *)
(* code does.  The fields the struct stores and no method reads (icw1,     *)
(* icw3, mode_8086, special_fully_nested) are left out.                    *)
(***************************************************************************)
EXTENDS Integers

Lines == 0..7
Bytes == 0..255
Cascade == 2
SPURIOUS_IRQ == 7

(* Bit i of a byte, and a byte read as a set of lines. *)
Bit(value, i) == (value \div 2^i) % 2 = 1
LinesOf(value) == {i \in Lines : Bit(value, i)}

InitStates == {"Ready", "WaitingICW2", "WaitingICW3", "WaitingICW4"}

Chips == [irq_lines : SUBSET Lines,
          irr : SUBSET Lines,
          isr : SUBSET Lines,
          imr : SUBSET Lines,
          vector_offset : Bytes,
          init_state : InitStates,
          icw4_needed : BOOLEAN,
          level_triggered : BOOLEAN,
          single_mode : BOOLEAN,
          auto_eoi : BOOLEAN,
          rotate_in_auto_eoi : BOOLEAN,
          special_mask_mode : BOOLEAN,
          poll_mode : BOOLEAN,
          read_irr : BOOLEAN,
          lowest_priority : Lines]

NewChip(offset) ==
  [irq_lines |-> {}, irr |-> {}, isr |-> {}, imr |-> Lines,
   vector_offset |-> offset, init_state |-> "Ready",
   icw4_needed |-> FALSE, level_triggered |-> FALSE, single_mode |-> FALSE,
   auto_eoi |-> FALSE, rotate_in_auto_eoi |-> FALSE,
   special_mask_mode |-> FALSE, poll_mode |-> FALSE, read_irr |-> TRUE,
   lowest_priority |-> 7]

-----------------------------------------------------------------------------
(* Requests: a line is raised or lowered. *)

WithLine(c, irq, level) ==
  [c EXCEPT !.irq_lines = IF level THEN @ \cup {irq} ELSE @ \ {irq}]

Latches(c, irq, level) == level /\ (c.level_triggered \/ irq \notin c.irq_lines)

(* Two plausible slips: a level request that outlives its line, and an edge *)
(* request that dies with it.                                               *)
set_irqSticky(c, irq, level) ==
  [WithLine(c, irq, level) EXCEPT
     !.irr = IF Latches(c, irq, level) THEN @ \cup {irq} ELSE @]
set_irqFollows(c, irq, level) ==
  [WithLine(c, irq, level) EXCEPT
     !.irr = IF Latches(c, irq, level) THEN @ \cup {irq}
             ELSE IF ~level THEN @ \ {irq}
             ELSE @]

set_irq(c, irq, level) ==
  [WithLine(c, irq, level) EXCEPT
     !.irr = IF Latches(c, irq, level) THEN @ \cup {irq}
             ELSE IF c.level_triggered THEN @ \ {irq}
             ELSE @]

-----------------------------------------------------------------------------
(* Priority resolution. *)

priority_rank(c, irq) == (irq + 7 - c.lowest_priority) % 8

(* In special mask mode a masked level in service no longer blocks. *)
BlockingIsr(c) == IF c.special_mask_mode THEN c.isr \ c.imr ELSE c.isr

(* Slip: only the same level in service blocks a request. *)
DeliverableUnnested(c) == {irq \in c.irr \ c.imr : irq \notin c.isr}

Deliverable(c) ==
  {irq \in c.irr \ c.imr :
     /\ irq \notin c.isr
     /\ \A other \in BlockingIsr(c) :
          priority_rank(c, other) > priority_rank(c, irq)}

has_pending(c) == Deliverable(c) # {}

TopOf(c, S) ==
  CHOOSE irq \in S : \A other \in S : priority_rank(c, irq) <= priority_rank(c, other)

highest_pending(c) == TopOf(c, Deliverable(c))

-----------------------------------------------------------------------------
(* Acknowledge and end of interrupt. *)

ack_irq(c, irq) ==
  [c EXCEPT !.irr = @ \ {irq},
            !.isr = IF c.auto_eoi THEN @ ELSE @ \cup {irq},
            !.lowest_priority =
               IF c.auto_eoi /\ c.rotate_in_auto_eoi THEN irq ELSE @]

VectorOf(c, irq) == (c.vector_offset + irq) % 256

(* Slip: EOI by line number instead of by rotated priority. *)
non_specific_eoiFixed(c) ==
  IF BlockingIsr(c) = {} THEN c
  ELSE [c EXCEPT !.isr =
          @ \ {CHOOSE irq \in BlockingIsr(c) : \A other \in BlockingIsr(c) : irq <= other}]

non_specific_eoi(c) ==
  IF BlockingIsr(c) = {} THEN c
  ELSE [c EXCEPT !.isr = @ \ {TopOf(c, BlockingIsr(c))}]

specific_eoi(c, irq) == [c EXCEPT !.isr = @ \ {irq}]

(* Slip: the rotate bit of the EOI command is ignored. *)
RotateOnEoiPlain(c) == non_specific_eoi(c)

(* Rotate on non-specific EOI: the level that was cleared becomes lowest. *)
RotateOnEoi(c) ==
  IF BlockingIsr(c) = {} THEN c
  ELSE [non_specific_eoi(c) EXCEPT !.lowest_priority = TopOf(c, BlockingIsr(c))]

-----------------------------------------------------------------------------
(* The command port: ICW1, OCW3 or OCW2. *)

Icw1(c, value) ==
  [c EXCEPT !.icw4_needed = Bit(value, 0),
            !.single_mode = Bit(value, 1),
            !.level_triggered = Bit(value, 3),
            !.init_state = "WaitingICW2",
            !.imr = {}, !.isr = {}, !.irr = {}, !.irq_lines = {},
            !.auto_eoi = FALSE, !.rotate_in_auto_eoi = FALSE,
            !.special_mask_mode = FALSE, !.poll_mode = FALSE,
            !.read_irr = TRUE, !.lowest_priority = 7]

Ocw3(c, value) ==
  [c EXCEPT !.poll_mode = @ \/ Bit(value, 2),
            !.read_irr = IF Bit(value, 1) THEN ~Bit(value, 0) ELSE @,
            !.special_mask_mode = IF Bit(value, 6) THEN Bit(value, 5) ELSE @]

Ocw2Op(value) == (value \div 32) % 8
(* Slip: the level field of OCW2 is not masked out of the byte. *)
Ocw2LevelRaw(value) == value
Ocw2Level(value) == value % 8

Ocw2(c, value) ==
  LET op == Ocw2Op(value)
      irq == Ocw2Level(value)
  IN  CASE op = 1 -> non_specific_eoi(c)
        [] op = 3 -> specific_eoi(c, irq)
        [] op = 5 -> RotateOnEoi(c)
        [] op = 7 -> [specific_eoi(c, irq) EXCEPT !.lowest_priority = irq]
        [] op = 6 -> [c EXCEPT !.lowest_priority = irq]
        [] op = 4 -> [c EXCEPT !.rotate_in_auto_eoi = TRUE]
        [] op = 0 -> [c EXCEPT !.rotate_in_auto_eoi = FALSE]
        [] OTHER -> c

write_command(c, value) ==
  IF Bit(value, 4) THEN Icw1(c, value)
  ELSE IF Bit(value, 3) THEN Ocw3(c, value)
  ELSE Ocw2(c, value)

-----------------------------------------------------------------------------
(* The data port: ICW2, ICW3 and ICW4 during initialisation, then OCW1. *)

AfterIcw3(c) == IF c.icw4_needed THEN "WaitingICW4" ELSE "Ready"

write_data(c, value) ==
  CASE c.init_state = "WaitingICW2" ->
         [c EXCEPT !.vector_offset = value - (value % 8),
                   !.init_state = IF c.single_mode THEN AfterIcw3(c)
                                  ELSE "WaitingICW3"]
    [] c.init_state = "WaitingICW3" -> [c EXCEPT !.init_state = AfterIcw3(c)]
    [] c.init_state = "WaitingICW4" ->
         [c EXCEPT !.auto_eoi = Bit(value, 1), !.init_state = "Ready"]
    [] OTHER -> [c EXCEPT !.imr = LinesOf(value)]

(* A read of the command port.  In poll mode it acknowledges the highest *)
(* pending request; otherwise it changes nothing.                        *)
read_command(c) ==
  LET p == [c EXCEPT !.poll_mode = FALSE]
  IN  IF c.poll_mode /\ has_pending(c) THEN ack_irq(p, highest_pending(c)) ELSE p
=============================================================================
