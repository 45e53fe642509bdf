--------------------------------- MODULE Gic3 ---------------------------------
(***************************************************************************)
(* The GICv3 interrupt controller of the AArch64 machine                   *)
(* (src/src/isa/arm/aarch64/gic.rs) with its one CPU interface.  The       *)
(* controller is a record and every operation of struct Gic an operator on *)
(* it; module GicService lets a guest apply them in any order, and module  *)
(* ArmVirt wires them to the devices and the virtual CPU.                  *)
(*                                                                         *)
(* The four states of an interrupt are two bits, pending and active.  The  *)
(* routing of an SPI is the bit "routed to this CPU".  Fields that are     *)
(* stored and never consulted (the distributor's enable, the interrupt     *)
(* groups, the binary points, GICR_WAKER) are left out, and with them the  *)
(* register writes that change nothing else.                               *)
(***************************************************************************)
EXTENDS SequenceFolds

CONSTANTS
  Sgis, Ppis, Spis,   \* the interrupt IDs in use
  Priorities          \* the priority numbers in use; a lower one is more urgent

SPURIOUS == 1023
IDLE == 255            \* 0xFF: nothing running, nothing masked
DEFAULT == 160         \* 0xA0

ASSUME GicAssumption ==
  /\ Sgis \subseteq 0..15 /\ Ppis \subseteq 16..31 /\ Spis \subseteq 32..1019
  /\ Priorities \subseteq 0..255 /\ {IDLE, DEFAULT} \subseteq Priorities

Private == Sgis \cup Ppis
Intids == Private \cup Spis

Interrupts == [pending : BOOLEAN, active : BOOLEAN, enabled : BOOLEAN,
               priority : Priorities, edge : BOOLEAN, routed : BOOLEAN]

Gics == [int : [Intids -> Interrupts],
         priority_mask : Priorities,
         grp0 : BOOLEAN, grp1 : BOOLEAN,
         eoi_mode : BOOLEAN,
         running_priority : Priorities,
         active_priorities : Seq([intid : Intids, priority : Priorities]),
         highest_pending_intid : Intids \cup {SPURIOUS},
         irq_line : BOOLEAN]

NewGic ==
  [int |-> [i \in Intids |-> [pending |-> FALSE, active |-> FALSE, enabled |-> FALSE,
                              priority |-> DEFAULT, edge |-> i \in Sgis, routed |-> TRUE]],
   priority_mask |-> IDLE, grp0 |-> FALSE, grp1 |-> FALSE, eoi_mode |-> FALSE,
   running_priority |-> IDLE, active_priorities |-> <<>>,
   highest_pending_intid |-> SPURIOUS, irq_line |-> FALSE]

-----------------------------------------------------------------------------
(* Prioritisation. *)

(* What may be presented to the CPU.  An interrupt that is already active *)
(* is not excluded.                                                       *)
Candidates(g) ==
  {i \in Intids : /\ g.int[i].enabled /\ g.int[i].pending /\ g.int[i].routed
                  /\ g.int[i].priority < g.priority_mask}

Outranks(g, i, j) ==
  \/ g.int[i].priority < g.int[j].priority
  \/ g.int[i].priority = g.int[j].priority /\ i <= j

(* The scan keeps the first interrupt of the lowest priority number.  The *)
(* number 255 is never below the scan's starting value.                   *)
update_pending(g) ==
  LET C == Candidates(g)
  IN  [g EXCEPT !.highest_pending_intid =
         IF C = {} THEN SPURIOUS ELSE CHOOSE i \in C : \A j \in C : Outranks(g, i, j)]

pending_interrupt(g) ==
  /\ g.grp0 \/ g.grp1
  /\ g.highest_pending_intid # SPURIOUS
  /\ g.int[g.highest_pending_intid].priority < g.running_priority

update_all_cpus(g) ==
  LET u == update_pending(g) IN [u EXCEPT !.irq_line = pending_interrupt(u)]

-----------------------------------------------------------------------------
(* The CPU interface: the ICC system registers. *)

(* ICC_IAR.  The running priority and the group enables are not consulted. *)
(* A level-triggered interrupt stays pending while it is active.           *)
acknowledgeFlat(g) ==   \* slip: the running priority stays as it was
  LET i == g.highest_pending_intid
  IN  IF i = SPURIOUS THEN update_all_cpus(g)
      ELSE update_all_cpus(
             [g EXCEPT !.int[i].active = TRUE,
                       !.int[i].pending = ~g.int[i].edge,
                       !.active_priorities =
                          Append(@, [intid |-> i, priority |-> g.int[i].priority])])

acknowledge(g) ==
  LET i == g.highest_pending_intid
  IN  IF i = SPURIOUS THEN update_all_cpus(g)
      ELSE update_all_cpus(
             [g EXCEPT !.int[i].active = TRUE,
                       !.int[i].pending = ~g.int[i].edge,
                       !.active_priorities =
                          Append(@, [intid |-> i, priority |-> g.int[i].priority]),
                       !.running_priority = g.int[i].priority])

Top(stack) == IF stack = <<>> THEN IDLE ELSE Last(stack).priority

(* The first entry of intid i leaves the stack, if there is one. *)
Dropped(stack, i) ==
  IF \E k \in 1..Len(stack) : stack[k].intid = i
  THEN RemoveAt(stack, Min({k \in 1..Len(stack) : stack[k].intid = i}))
  ELSE stack

(* ICC_EOIR. *)
end_of_interrupt(g, i) ==
  LET stack == Dropped(g.active_priorities, i)
  IN  update_all_cpus([g EXCEPT !.active_priorities = stack,
                                !.running_priority = Top(stack),
                                !.int[i].active = @ /\ g.eoi_mode])

(* ICC_DIR, ICC_PMR, ICC_IGRPEN0 and 1; ICC_CTLR recomputes nothing. *)
deactivate(g, i) == update_all_cpus([g EXCEPT !.int[i].active = FALSE])
set_priority_mask(g, mask) == update_all_cpus([g EXCEPT !.priority_mask = mask])
set_group_enable(g, group1, enabled) ==
  update_all_cpus(IF group1 THEN [g EXCEPT !.grp1 = enabled] ELSE [g EXCEPT !.grp0 = enabled])
write_ctlr(g, eoi_mode) == [g EXCEPT !.eoi_mode = eoi_mode]

(* ICC_SGI1R: on this machine every target list names the one CPU. *)
raise_sgi(g, i) == update_all_cpus([g EXCEPT !.int[i].pending = TRUE])

-----------------------------------------------------------------------------
(* The distributor and the redistributor.  A write names the interrupts    *)
(* whose bits or fields are in the register written: SPIs in the           *)
(* distributor, private interrupts in the redistributor.                   *)

Each(g, S, F(_)) == [g EXCEPT !.int = [i \in Intids |-> IF i \in S THEN F(@[i]) ELSE @[i]]]

write_enable(g, S, on) == update_all_cpus(Each(g, S, LAMBDA c : [c EXCEPT !.enabled = on]))
write_pending(g, S, on) == update_all_cpus(Each(g, S, LAMBDA c : [c EXCEPT !.pending = on]))
write_icactiver(g, S) == update_all_cpus(Each(g, S, LAMBDA c : [c EXCEPT !.active = FALSE]))
write_priority(g, S, p) == update_all_cpus(Each(g, S, LAMBDA c : [c EXCEPT !.priority = p]))

write_irouterUnpublished(g, i, here) == [g EXCEPT !.int[i].routed = here]   \* slip
write_irouter(g, i, here) == update_all_cpus([g EXCEPT !.int[i].routed = here])

(* GICD_ICFGR does not recompute, GICR_ICFGR1 does. *)
write_icfgr(g, S, edge) ==
  LET w == Each(g, S, LAMBDA c : [c EXCEPT !.edge = edge])
  IN  IF S \subseteq Spis THEN w ELSE update_all_cpus(w)

-----------------------------------------------------------------------------
(* The lines of the devices: an SPI by set_pending and clear_pending, a PPI *)
(* by set_ppi_level.  A line is not remembered: its level becomes the       *)
(* pending bit.                                                             *)
set_line(g, i, level) == update_all_cpus([g EXCEPT !.int[i].pending = level])
=============================================================================
