------------------------------ MODULE GicService ------------------------------
(***************************************************************************)
(* The GICv3 in use.  GicSpec lets the guest and the devices apply every   *)
(* operation in any order.  NestedSpec is a guest that keeps to nested     *)
(* service: it reads ICC_IAR only while the IRQ line is up, ends the       *)
(* service it started last, leaves EOImode 0, does not clear active bits   *)
(* by hand and does not change the priority of an active interrupt.  Under *)
(* NestedSpec the controller's stack of active priorities is the stack of  *)
(* module ServiceOrder.                                                    *)
(***************************************************************************)
EXTENDS Gic3

VARIABLE gic

GicInit == gic = NewGic

Active(g) == {i \in Intids : g.int[i].active}

-----------------------------------------------------------------------------
(* A device drives its line; the guest writes a register that starts and *)
(* ends no service.                                                      *)
DeviceLine == \E i \in Ppis \cup Spis, level \in BOOLEAN : gic' = set_line(gic, i, level)

BankWrite(S) ==
  \E on \in BOOLEAN : \/ gic' = write_enable(gic, S, on)
                      \/ gic' = write_pending(gic, S, on)
                      \/ S \cap Sgis = {} /\ gic' = write_icfgr(gic, S, on)

PriorityWrite(S) == \E p \in Priorities : gic' = write_priority(gic, S, p)

InterfaceWrite ==
  \/ \E mask \in Priorities : gic' = set_priority_mask(gic, mask)
  \/ \E group1 \in BOOLEAN, enabled \in BOOLEAN : gic' = set_group_enable(gic, group1, enabled)
  \/ \E i \in Sgis : gic' = raise_sgi(gic, i)
  \/ \E i \in Spis, here \in BOOLEAN : gic' = write_irouter(gic, i, here)

QuietStep ==
  \/ DeviceLine
  \/ \E S \in (SUBSET Private) \cup (SUBSET Spis) :
       BankWrite(S) \/ (S \cap Active(gic) = {} /\ PriorityWrite(S))
  \/ InterfaceWrite

Begin == gic.irq_line /\ gic' = acknowledge(gic)

End == gic.active_priorities # <<>>
         /\ gic' = end_of_interrupt(gic, Last(gic.active_priorities).intid)

(* Gic::reset, from a reset of the CPU. *)
Reset == gic' = update_all_cpus(NewGic)

NestedNext == QuietStep \/ Begin \/ End \/ Reset
NestedSpec == GicInit /\ [][NestedNext]_gic

-----------------------------------------------------------------------------
(* What an undisciplined guest adds: ICC_IAR at any time, EOI, deactivation *)
(* and active-bit writes of any interrupt, EOImode 1, any priority write.   *)
UnruledStep ==
  \/ gic' = acknowledge(gic)
  \/ \E i \in Intids : gic' = end_of_interrupt(gic, i) \/ gic' = deactivate(gic, i)
  \/ \E mode \in BOOLEAN : gic' = write_ctlr(gic, mode)
  \/ \E S \in SUBSET Private : gic' = write_icactiver(gic, S)
  \/ \E S \in (SUBSET Private) \cup (SUBSET Spis) : PriorityWrite(S)

GicNext == NestedNext \/ UnruledStep
GicSpec == GicInit /\ [][GicNext]_gic

-----------------------------------------------------------------------------
(* "Lets the CPU's hot path test for a pending interrupt without taking a  *)
(* lock" (Gic::irq_lines): the published line is up exactly when a group   *)
(* is enabled and some enabled, pending, unmasked interrupt routed here is *)
(* more urgent than what is running.  The line and highest_pending_intid   *)
(* are caches that every operation must keep current.                      *)
SignalDue(g) ==
  /\ g.grp0 \/ g.grp1
  /\ \E i \in Candidates(g) : g.int[i].priority < g.running_priority

IrqLineIsCurrent == gic.irq_line = SignalDue(gic)

(* The active interrupts of a guest that keeps to nested service are a     *)
(* stack: each acknowledge starts a new one on top, each EOI retires the   *)
(* one on top and gives the CPU back the priority below it (acknowledge,   *)
(* end_of_interrupt, pending_interrupt).                                   *)
StackOrder(stack) ==
  {p \in Intids \X Intids :
     \E j, k \in 1..Len(stack) : j < k /\ p = <<stack[k].intid, stack[j].intid>>}

Service == INSTANCE ServiceOrder
  WITH Levels <- Intids, active <- Active(gic), over <- StackOrder(gic.active_priorities)

ServicesNest == Service!Spec

TypeOK == gic \in Gics
=============================================================================
