-------------------------------- MODULE ArmVirt --------------------------------
(***************************************************************************)
(* The AArch64 machine with the software backend: the GICv3, the PL011     *)
(* UART on SPI 33, the virtual and the physical generic timer on PPIs 27   *)
(* and 30, the virtual CPU (Aarch64Vcpu::run,                              *)
(* src/src/backend/emulator/aarch64.rs, and AArch64Cpu::step_system) and   *)
(* the console part of the VMM's loop.                                     *)
(*                                                                         *)
(* One pass of the loop polls the console, enters run(), which mirrors the *)
(* UART's level into the GIC, and takes up to BATCH steps.  Every step     *)
(* first advances the counter and mirrors the timers' levels.              *)
(*                                                                         *)
(* Counter values are kept as distances: "left" is CVAL minus the count,   *)
(* in units of TIMER_TICKS_PER_INSN; 64-bit wrap-around is left out.       *)
(*                                                                         *)
(* The guest is not in the repository.  It is a kernel that idles with     *)
(* interrupts masked, and whose handlers may let more urgent ones in.      *)
(***************************************************************************)
EXTENDS GicService

CONSTANTS
  BATCH,       \* steps of one run()
  NUDGE,       \* counter units skipped by an idle pass with no timer armed
  Delays,      \* the distances (1 or more) the guest arms a timer with
  Urgent,      \* the interrupts the guest gives a higher priority
  Writes,      \* the register writes the guest makes besides its boot
  MaxKeys,     \* bound on the bytes typed
  MaxStarts    \* bound on what the guest starts: timers, transmissions, SGIs, writes

VIRT == 27
PHYS == 30
UART == 33
Timers == {VIRT, PHYS}

WriteNames == {"disable", "enable", "mask", "unmask", "away", "home", "clear"}

ASSUME ArmVirtAssumption ==
  /\ BATCH \in Nat \ {0} /\ NUDGE \in Nat /\ Delays \subseteq Nat \ {0}
  /\ Timers \subseteq Ppis /\ UART \in Spis /\ Urgent \subseteq Intids
  /\ 128 \in Priorities /\ Writes \subseteq WriteNames
  /\ MaxKeys \in Nat /\ MaxStarts \in Nat

VARIABLES
  uart,           \* the PL011: how many bytes wait, and UARTIMSC
  timer,          \* the two timers: control bits and distance to the deadline
  timer_levels,   \* the levels tick_system mirrored last
  cpu,            \* wfi, wfe and PSTATE.I
  frames,         \* the guest's handlers, innermost last
  guest,          \* the guest's main program
  phase, batch,   \* where the VMM's loop is
  keys, typed     \* bytes in the console channel; bytes typed so far

devices == <<uart, timer, timer_levels>>
console == <<keys, typed>>
vars == <<gic, devices, cpu, frames, guest, phase, batch, console>>

MainPcs == {"mask", "check", "wait", "unmask"}
HandlerPcs == {"iar", "open", "mis", "dr", "txm", "timer", "close", "eoi", "eret"}

(* A kernel that has booted: every interrupt enabled, group 1 on. *)
BootedGic ==
  LET on == write_enable(write_enable(NewGic, Private, TRUE), Spis, TRUE)
  IN  set_group_enable(write_priority(on, Urgent, 128), TRUE, TRUE)

Init ==
  /\ gic = BootedGic
  /\ uart = [rx |-> 0, imsc |-> {"RX"}]
  /\ timer = [t \in Timers |-> [enable |-> FALSE, imask |-> FALSE, left |-> 0]]
  /\ timer_levels = [t \in Timers |-> FALSE]
  /\ cpu = [wfi |-> FALSE, wfe |-> FALSE, masked |-> FALSE]
  /\ frames = <<>>
  /\ guest = [pc |-> "mask", work |-> FALSE, starts |-> 0]
  /\ phase = "poll" /\ batch = 0
  /\ keys = 0 /\ typed = 0

-----------------------------------------------------------------------------
(* The PL011.  The transmitter is always empty, so its interrupt is raised *)
(* whenever it is unmasked.                                                *)
ris(u) == {"TX"} \cup (IF u.rx > 0 THEN {"RX"} ELSE {})
irq_pending(u) == ris(u) \cap u.imsc # {}

(* A guest access to the UART ends by mirroring its level into the GIC. *)
sync_uart_irq(g, u) == set_line(g, UART, irq_pending(u))

-----------------------------------------------------------------------------
(* The generic timers: tick_timers, cntv_/cntp_interrupt_pending and the   *)
(* mirroring of the levels, which touches the GIC only on a change.        *)
Horizon == -NUDGE - 1   \* how far a deadline may lie in the past

Later(ts, n) == [t \in Timers |-> [ts[t] EXCEPT !.left = Max({@ - n, Horizon})]]

interrupt_pending(tm) == tm.enable /\ ~tm.imask /\ tm.left <= 0
Levels(ts) == [t \in Timers |-> interrupt_pending(ts[t])]

MirrorRising(g, old, new) ==   \* slip: a falling level is not mirrored
  LET v == IF new[VIRT] /\ ~old[VIRT] THEN set_line(g, VIRT, TRUE) ELSE g
  IN  IF new[PHYS] /\ ~old[PHYS] THEN set_line(v, PHYS, TRUE) ELSE v

MirrorEdge(g, old, new) ==   \* slip: a level is pending for one tick only
  set_line(set_line(g, VIRT, new[VIRT] /\ ~old[VIRT]), PHYS, new[PHYS] /\ ~old[PHYS])

Mirror(g, old, new) ==
  IF new = old THEN g ELSE set_line(set_line(g, VIRT, new[VIRT]), PHYS, new[PHYS])

(* tick_system(16), the beginning of every step. *)
Ticked == Later(timer, 1)
TickedGic == Mirror(gic, timer_levels, Levels(Ticked))

(* The distances to the armed deadlines that lie ahead. *)
Armed(tm) == tm.enable /\ ~tm.imask
Ahead(ts) == {ts[t].left : t \in {t \in Timers : Armed(ts[t]) /\ ts[t].left > 0}}

JumpFar(ts) == IF Ahead(ts) = {} THEN NUDGE ELSE Max(Ahead(ts))   \* slip

(* fast_forward_timers: the jump of an idle pass. *)
Jump(ts) == IF Ahead(ts) = {} THEN NUDGE ELSE Min(Ahead(ts))

-----------------------------------------------------------------------------
(* The VMM's loop. *)

Poll ==
  /\ phase = "poll" /\ phase' = "enter"
  /\ uart' = [uart EXCEPT !.rx = @ + keys] /\ keys' = 0
  /\ UNCHANGED <<gic, timer, timer_levels, cpu, frames, guest, batch, typed>>

EnterUnsynced ==   \* slip: only the guest's own accesses mirror the UART
  /\ phase = "enter" /\ phase' = "run"
  /\ UNCHANGED <<gic, devices, cpu, frames, guest, batch, console>>

(* run() picks up the input queued since the last batch. *)
Enter ==
  /\ phase = "enter" /\ phase' = "run"
  /\ gic' = sync_uart_irq(gic, uart)
  /\ UNCHANGED <<devices, cpu, frames, guest, batch, console>>

(* A step that ends with Continue, and one that ends run() with Hlt. *)
ContinueLong ==   \* slip: one step too many
  /\ batch' = IF batch = BATCH THEN 0 ELSE batch + 1
  /\ phase' = IF batch' = 0 THEN "poll" ELSE "run"

Continue ==
  /\ batch' = (batch + 1) % BATCH
  /\ phase' = IF batch' = 0 THEN "poll" ELSE "run"
Hlt == phase' = "poll" /\ batch' = 0

-----------------------------------------------------------------------------
(* step_system: the counter first, then WFE, WFI, a pending IRQ, and last  *)
(* an instruction.                                                         *)
Tick == phase = "run" /\ timer_levels' = Levels(Ticked) /\ UNCHANGED console

StepWfeSleeps ==   \* slip: WFE waits for an interrupt PSTATE.I lets through
  /\ Tick /\ cpu.wfe
  /\ cpu' = [cpu EXCEPT !.wfe = ~(TickedGic.irq_line /\ ~cpu.masked)]
  /\ gic' = TickedGic /\ timer' = Ticked
  /\ Hlt
  /\ UNCHANGED <<uart, frames, guest>>

StepWfe ==
  /\ Tick /\ cpu.wfe
  /\ cpu' = [cpu EXCEPT !.wfe = FALSE]
  /\ gic' = TickedGic /\ timer' = Ticked
  /\ Hlt
  /\ UNCHANGED <<uart, frames, guest>>

(* An idle pass: the counter jumps, the levels are mirrored once more. *)
StepIdle ==
  /\ phase = "run" /\ ~cpu.wfe /\ cpu.wfi /\ ~TickedGic.irq_line
  /\ timer' = Later(Ticked, Jump(Ticked))
  /\ timer_levels' = Levels(timer')
  /\ gic' = Mirror(TickedGic, Levels(Ticked), timer_levels')
  /\ Hlt
  /\ UNCHANGED <<uart, cpu, frames, guest, console>>

Awake == ~cpu.wfe /\ (cpu.wfi => TickedGic.irq_line)

(* take_irq saves PSTATE and masks. *)
StepTakeIrq ==
  /\ Tick /\ Awake /\ TickedGic.irq_line /\ ~cpu.masked
  /\ cpu' = [cpu EXCEPT !.wfi = FALSE, !.masked = TRUE]
  /\ frames' = Append(frames, [pc |-> "iar", intid |-> SPURIOUS])
  /\ gic' = TickedGic /\ timer' = Ticked
  /\ Continue
  /\ UNCHANGED <<uart, guest>>

-----------------------------------------------------------------------------
(* The guest's instruction.  Each is given what it leaves in the machine.  *)
(* External: how a kernel uses the machine.                                *)

Pc == IF frames = <<>> THEN guest.pc ELSE Last(frames).pc
Serving == Last(frames).intid
GoTo(pc) ==
  IF frames = <<>> THEN guest' = [guest EXCEPT !.pc = pc] /\ UNCHANGED frames
  ELSE frames' = [frames EXCEPT ![Len(frames)].pc = pc] /\ UNCHANGED guest

Masking(m) == cpu' = [cpu EXCEPT !.wfi = FALSE, !.masked = m]
Running == cpu' = [cpu EXCEPT !.wfi = FALSE]

(* An access to the GIC, the UART or a timer register. *)
AccessGic(g) == gic' = g /\ timer' = Ticked /\ UNCHANGED uart
AccessUart(u) == uart' = u /\ gic' = sync_uart_irq(TickedGic, u) /\ timer' = Ticked
AccessTimer(t, tm) ==
  timer' = [Ticked EXCEPT ![t] = tm] /\ gic' = TickedGic /\ UNCHANGED uart
NoAccess == AccessGic(TickedGic)

Written(g, name) ==
  CASE name = "disable" -> write_enable(g, {UART}, FALSE)
    [] name = "enable" -> write_enable(g, {UART}, TRUE)
    [] name = "mask" -> set_priority_mask(g, 128)
    [] name = "unmask" -> set_priority_mask(g, IDLE)
    [] name = "away" -> write_irouter(g, UART, FALSE)
    [] name = "home" -> write_irouter(g, UART, TRUE)
    [] name = "clear" -> write_pending(g, {UART}, FALSE)

(* The main program: with interrupts masked it looks for work and starts   *)
(* some, then waits and unmasks.                                           *)
Start ==
  \/ AccessUart([uart EXCEPT !.imsc = @ \cup {"TX"}])
  \/ \E i \in Sgis : AccessGic(raise_sgi(TickedGic, i))
  \/ \E t \in Timers, n \in Delays :
       AccessTimer(t, [enable |-> TRUE, imask |-> FALSE, left |-> n])
  \/ \E name \in Writes : AccessGic(Written(TickedGic, name))

Check ==
  \/ guest.work /\ guest' = [guest EXCEPT !.work = FALSE] /\ NoAccess
  \/ ~guest.work /\ guest' = [guest EXCEPT !.pc = "wait"] /\ NoAccess
  \/ guest.starts < MaxStarts /\ guest' = [guest EXCEPT !.starts = @ + 1] /\ Start

MainInstruction ==
  \/ Pc = "mask" /\ Masking(TRUE) /\ NoAccess /\ GoTo("check") /\ Continue
  \/ Pc = "check" /\ Running /\ Check /\ UNCHANGED frames /\ Continue
  \/ /\ Pc = "wait" /\ NoAccess /\ GoTo("unmask") /\ Hlt
     /\ cpu' \in {[cpu EXCEPT !.wfi = TRUE], [cpu EXCEPT !.wfi = FALSE, !.wfe = TRUE]}
  \/ Pc = "unmask" /\ Masking(FALSE) /\ NoAccess /\ GoTo("mask") /\ Continue

(* The handlers: acknowledge, perhaps let others in, serve the device until *)
(* it is quiet, mask, end of interrupt, return.                             *)
ServiceOf(i) == IF i \in Timers THEN "timer" ELSE IF i = UART THEN "mis" ELSE "close"

Iar ==
  LET i == TickedGic.highest_pending_intid
  IN  /\ AccessGic(acknowledge(TickedGic))
      /\ \E pc \in IF i = SPURIOUS THEN {"eret"} ELSE {"open", ServiceOf(i)} :
           frames' = [frames EXCEPT ![Len(frames)] = [pc |-> pc, intid |-> i]]
      /\ UNCHANGED guest

ReadMis ==
  LET mis == ris(uart) \cap uart.imsc
  IN  /\ AccessUart(uart)
      /\ GoTo(IF "RX" \in mis THEN "dr" ELSE IF "TX" \in mis THEN "txm" ELSE "close")

HandlerInstruction ==
  /\ Continue
  /\ \/ Pc = "iar" /\ Running /\ Iar
     \/ Pc = "open" /\ Masking(FALSE) /\ NoAccess /\ GoTo(ServiceOf(Serving))
     \/ Pc = "mis" /\ Running /\ ReadMis
     \/ /\ Pc = "dr" /\ Running
        /\ AccessUart([uart EXCEPT !.rx = Max({@ - 1, 0})])
        /\ guest' = [guest EXCEPT !.work = TRUE]
        /\ frames' = [frames EXCEPT ![Len(frames)].pc = "mis"]
     \/ Pc = "txm" /\ Running /\ AccessUart([uart EXCEPT !.imsc = @ \ {"TX"}]) /\ GoTo("mis")
     \/ /\ Pc = "timer" /\ Running /\ GoTo("close")
        /\ AccessTimer(Serving, [Ticked[Serving] EXCEPT !.imask = TRUE])
     \/ Pc = "close" /\ Masking(TRUE) /\ NoAccess /\ GoTo("eoi")
     \/ Pc = "eoi" /\ Running /\ AccessGic(end_of_interrupt(TickedGic, Serving)) /\ GoTo("eret")
     \/ /\ Pc = "eret" /\ Masking(FALSE) /\ NoAccess /\ UNCHANGED guest
        /\ frames' = Front(frames)

StepExecute ==
  /\ Tick /\ Awake /\ ~(TickedGic.irq_line /\ ~cpu.masked)
  /\ IF frames = <<>> THEN MainInstruction ELSE HandlerInstruction

-----------------------------------------------------------------------------
(* The console thread forwards a byte. *)
Type ==
  /\ typed < MaxKeys
  /\ keys' = keys + 1 /\ typed' = typed + 1
  /\ UNCHANGED <<gic, devices, cpu, frames, guest, phase, batch>>

VmmStep == Poll \/ Enter \/ StepWfe \/ StepIdle \/ StepTakeIrq \/ StepExecute

Next == VmmStep \/ Type

(* The loop never waits: in every phase one of its steps is possible. *)
Spec == Init /\ [][Next]_vars /\ []<><<VmmStep>>_vars

-----------------------------------------------------------------------------
(* The components keep their types; the CPU does not wait in WFI and WFE at *)
(* once (system.rs), and a handler has an interrupt once it has read IAR.   *)
MachineOK ==
  /\ gic \in Gics
  /\ uart \in [rx : 0..MaxKeys, imsc : SUBSET {"RX", "TX"}]
  /\ cpu \in [wfi : BOOLEAN, wfe : BOOLEAN, masked : BOOLEAN] /\ ~(cpu.wfi /\ cpu.wfe)
  /\ phase \in {"poll", "enter", "run"} /\ batch \in 0..BATCH - 1
  /\ \A k \in 1..Len(frames) :
       frames[k].pc \in HandlerPcs /\ frames[k].intid \in Intids \cup {SPURIOUS}

(* The devices that assert their line, by their own registers, and those   *)
(* the guest's configuration lets through.                                 *)
Asserted ==
  {t \in Timers : interrupt_pending(timer[t])} \cup (IF irq_pending(uart) THEN {UART} ELSE {})

Open(i) == gic.int[i].enabled /\ gic.int[i].routed /\ gic.int[i].priority < gic.priority_mask

(* The machine never idles past work: an idle pass of step_system happens  *)
(* only while no device asserts an interrupt the guest lets through.  The  *)
(* levels reach the GIC by two mirrors, of which the UART's runs at UART   *)
(* accesses and batch boundaries only and the timers' on a change only.    *)
IdlesOnlyWhenQuiet ==
  [][StepIdle => \A i \in Asserted : ~Open(i)]_vars

(* "Skip the counter ahead to the next timer deadline" (step_system): an   *)
(* idle pass jumps over no armed deadline that lay ahead, whichever timer  *)
(* is nearer.                                                              *)
NeverOversleeps ==
  [][StepIdle =>
       \A t \in Timers : Armed(timer[t]) /\ Ticked[t].left > 0 => timer'[t].left >= 0]_vars

(* One expiry is served once: a timer's handler runs only while its timer  *)
(* asserts the line, so the PPI a handler silenced is not pending when it  *)
(* is ended, although it stayed pending while active (acknowledge).        *)
ServesOnlyDueTimers ==
  \A k \in 1..Len(frames) : frames[k].pc = "timer" => interrupt_pending(timer[frames[k].intid])

(* An IRQ exception finds its interrupt: nothing that happens between      *)
(* take_irq and the guest's read of ICC_IAR withdraws it.                  *)
NoSpuriousIrq == \A k \in 1..Len(frames) : frames[k].intid = SPURIOUS => frames[k].pc = "iar"

(* Console input is read, and an expired timer is served, unless the guest *)
(* has closed the interrupt.                                               *)
InputIsRead == uart.rx > 0 ~> (uart.rx = 0 \/ ~Open(UART))
TimersAreServed ==
  \A t \in Timers : interrupt_pending(timer[t]) ~> (~interrupt_pending(timer[t]) \/ ~Open(t))
=============================================================================
