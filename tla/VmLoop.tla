-------------------------------- MODULE VmLoop --------------------------------
(***************************************************************************)
(* The run loop of the virtual machine (Vmm::run, src/src/vm/runtime.rs)   *)
(* with the x86-64 software backend (X86_64Vcpu::run,                      *)
(* src/src/isa/x86_64/cpu.rs), the PIC pair, the PIT's pending event, the  *)
(* UART on IRQ 4 and the LAPIC timer inside the MMU.                       *)
(*                                                                         *)
(* One pass of the loop is five phases, each an action: poll the console   *)
(* and sample the UART's interrupt line; inject what the PIC has pending;  *)
(* tick the PIT; run the virtual CPU until it exits; handle the exit.      *)
(* run() is one action per iteration of its loop.  A checkpoint is taken   *)
(* in the poll phase (console key or SIGUSR1) or between an exit and its   *)
(* handling (--snapshot-interval); the process may die at any time and be  *)
(* started again from the last checkpoint.                                 *)
(*                                                                         *)
(* The guest is not in the repository.  It is a kernel that idles with     *)
(* CLI; check for work; STI; HLT, and whose serial handler reads IIR until *)
(* nothing is pending.                                                     *)
(***************************************************************************)
EXTENDS Serial16550

CONSTANTS
  LAPIC_POLL_STRIDE,   \* iterations of run() between two housekeeping calls
  Clocks,              \* the clock devices a guest may choose to run on
  MaxKeys,             \* bound on the bytes typed at the console
  MaxTx,               \* bound on the transmissions the guest starts
  Checkpoints,         \* the kinds of checkpoint taken: "console", "periodic"
  MaxRestarts          \* bound on the restarts from a checkpoint

ASSUME VmLoopAssumption ==
  /\ LAPIC_POLL_STRIDE \in Nat \ {0}
  /\ Clocks \subseteq {"pit", "lapic"}
  /\ MaxKeys \in Nat /\ MaxTx \in Nat /\ MaxRestarts \in Nat
  /\ Checkpoints \subseteq {"console", "periodic"}

VARIABLES
  master, slave,   \* the PIC pair
  uart,
  pit,             \* irq_pending of the PIT
  clock,           \* the guest's clock: PIT channel 0 or the one-shot LAPIC timer
  vcpu,            \* registers, flags, the MMU's LAPIC timer, guest memory
  phase,           \* where Vmm::run is
  batch,           \* iterations of run() since the last housekeeping call
  exit,            \* the exit run() returned, until it is handled
  keys, typed,     \* bytes in the console channel; bytes typed so far
  disk,            \* the checkpoint file, if there is one
  image,           \* history: the machine when that file was written
  restarts

devices == <<master, slave, uart, pit>>
guest == <<vcpu, clock>>
console == <<keys, typed>>
files == <<disk, image, restarts>>
vars == <<devices, guest, phase, batch, exit, console, files>>

Pic == INSTANCE DualPic WITH
         DeviceIrqs <- {0, 4}, MasterCommands <- {32}, MasterData <- {},
         SlaveCommands <- {}, SlaveData <- {}, ExplicitAcks <- {}

Phases == {"poll", "inject", "pit", "run", "exit"}
MainPcs == {"cli", "check", "thre", "arm", "sti", "hlt"}
TimerPcs == {"t_eoi"}
SerialPcs == {"s_iir", "s_dispatch", "s_rbr", "s_store", "s_ier", "s_eoi"}
LapicPcs == {"l_eoi"}
Exits == {"none", "Hlt", "in_iir", "in_rbr", "out_thre", "out_ier", "out_eoi"}

Vcpus ==
  [iflag : BOOLEAN, interrupt_inhibit : BOOLEAN, halted : BOOLEAN,
   io_pending : BOOLEAN,
   lapic : {"off", "counting", "due", "pending"},
   al : InterruptIds \cup {"byte"},
   pc : MainPcs \cup TimerPcs \cup SerialPcs \cup LapicPcs \cup {"iret"},
   ret : MainPcs,
   work : BOOLEAN,
   tx : 0..MaxTx]

(* The guest has booted: FIFOs on, receive interrupts on, IRQs 0 and 4     *)
(* open.                                                                   *)
Init ==
  /\ master = [Pic!NewChip(32) EXCEPT !.imr = 0..7 \ {0, 4}]
  /\ slave = Pic!NewChip(40)
  /\ uart = [NewUart EXCEPT !.fifo_enabled = TRUE, !.ier = {"RDA"}, !.mcr = {"OUT2"}]
  /\ pit = FALSE /\ clock \in Clocks
  /\ vcpu = [iflag |-> TRUE, interrupt_inhibit |-> FALSE, halted |-> FALSE,
             io_pending |-> FALSE, lapic |-> "off", al |-> "none",
             pc |-> "cli", ret |-> "cli", work |-> FALSE, tx |-> 0]
  /\ phase = "poll" /\ batch = 0 /\ exit = "none"
  /\ keys = 0 /\ typed = 0
  /\ disk = {} /\ image = {} /\ restarts = 0

-----------------------------------------------------------------------------
(* Checkpoints.  The file holds the vCPU and the devices.  It does not     *)
(* hold an exit still to be handled, nor the LAPIC timer, which lives in   *)
(* the MMU (the LAPIC that is saved is the VMM's own, which the guest of   *)
(* the software backend never reaches).                                    *)

take_snapshot == [vcpu |-> vcpu, master |-> master, slave |-> slave,
                  uart |-> uart, pit |-> pit]

(* The machine a faithful checkpoint would bring back.  The levels of the  *)
(* PIC inputs are wiring state, sampled anew by the next poll phase, and a *)
(* Hlt exit asks nothing of the VMM.                                       *)
Unwired(chip) == [chip EXCEPT !.irq_lines = {}]
Machine == [vcpu |-> vcpu, master |-> Unwired(master), slave |-> Unwired(slave),
            uart |-> uart, pit |-> pit,
            owed |-> IF exit = "Hlt" THEN "none" ELSE exit]

(* A bound: the file is forgotten where the next one might be written.  A  *)
(* restart replaces the whole machine by the file, so a later one leads    *)
(* where an early one does.                                                *)
SaveTo(kind) ==
  /\ \/ kind \in Checkpoints /\ disk' = {take_snapshot} /\ image' = {Machine}
     \/ disk' = {} /\ image' = {}
  /\ UNCHANGED restarts

(* set_state, which drops the interrupt shadow, then set_emulator_state,   *)
(* which brings it back; io_pending and the MMU are those of a new vCPU.   *)
RestoredVcpuUnshadowed(v) ==   \* slip: set_state comes last
  [v EXCEPT !.io_pending = FALSE, !.lapic = "off", !.interrupt_inhibit = FALSE]

RestoredVcpu(v) == [v EXCEPT !.io_pending = FALSE, !.lapic = "off"]

(* The process dies and is started again with --checkpoint: new_resume,    *)
(* load, restore_snapshot.                                                 *)
Restart ==
  /\ restarts < MaxRestarts
  /\ \E snapshot \in disk :
       /\ vcpu' = RestoredVcpu(snapshot.vcpu)
       /\ master' = Unwired(snapshot.master) /\ slave' = Unwired(snapshot.slave)
       /\ uart' = snapshot.uart /\ pit' = snapshot.pit
  /\ phase' = "poll" /\ batch' = 0 /\ exit' = "none" /\ keys' = 0
  /\ restarts' = restarts + 1
  /\ UNCHANGED <<clock, typed, disk, image>>

-----------------------------------------------------------------------------
(* The poll phase.  A console checkpoint is written before the bytes of    *)
(* the same poll are queued.                                               *)

drive_legacy_serial_irq(u) == Pic!SetIrq(4, has_pending_interrupt(u))

Typing(n) == [i \in 1..n |-> "x"]

Poll ==
  /\ phase = "poll"
  /\ SaveTo("console")
  /\ LET u == IF keys = 0 THEN uart ELSE queue_input(uart, Typing(keys))
     IN  uart' = u /\ drive_legacy_serial_irq(u)
  /\ keys' = 0
  /\ phase' = "inject"
  /\ UNCHANGED <<pit, guest, batch, exit, typed>>

-----------------------------------------------------------------------------
(* Interrupt injection. *)

can_inject_interruptUnshadowed(v) == v.iflag   \* slip: the STI shadow is ignored

can_inject_interrupt(v) == v.iflag /\ ~v.interrupt_inhibit

(* inject_interrupt: the handler of the vector starts with IF clear. *)
HandlerOf(vector) == CASE vector = 32 -> "t_eoi" [] vector = 36 -> "s_iir" [] OTHER -> "l_eoi"
LapicVector == 239

inject_interrupt(v, vector) ==
  [v EXCEPT !.iflag = FALSE, !.interrupt_inhibit = FALSE, !.halted = FALSE,
            !.ret = v.pc, !.pc = HandlerOf(vector)]

InjectEager ==   \* slip: the PIC is acknowledged before the CPU is asked
  /\ phase = "inject"
  /\ phase' = "pit"
  /\ IF Pic!has_pending(master)
     THEN /\ Pic!get_pending_vector
          /\ vcpu' = IF can_inject_interrupt(vcpu)
                     THEN inject_interrupt(vcpu, Pic!PendingVector) ELSE vcpu
     ELSE UNCHANGED <<master, slave, vcpu>>
  /\ UNCHANGED <<uart, pit, clock, batch, exit, console, files>>

Inject ==
  /\ phase = "inject"
  /\ phase' = "pit"
  /\ IF Pic!has_pending(master) /\ can_inject_interrupt(vcpu)
     THEN Pic!get_pending_vector /\ vcpu' = inject_interrupt(vcpu, Pic!PendingVector)
     ELSE UNCHANGED <<master, slave, vcpu>>
  /\ UNCHANGED <<uart, pit, clock, batch, exit, console, files>>

(* Channel 0 fires when its period has passed.  The event is held back     *)
(* until the PIC is idle.                                                  *)
PitTickDrops ==   \* slip: an event still held back when the next one is due is dropped
  /\ phase = "pit" /\ phase' = "run" /\ batch' = 0
  /\ \E due \in {pit, pit \/ clock = "pit"} :
       IF due /\ ~Pic!has_active_irq
       THEN Pic!PulseIrq(0) /\ pit' = FALSE
       ELSE pit' = (due /\ ~pit) /\ UNCHANGED <<master, slave>>
  /\ UNCHANGED <<uart, guest, exit, console, files>>

PitTickFloods ==   \* slip: no coalescing
  /\ phase = "pit" /\ phase' = "run" /\ batch' = 0
  /\ \E due \in {pit, pit \/ clock = "pit"} :
       /\ pit' = FALSE
       /\ IF due THEN Pic!PulseIrq(0) ELSE UNCHANGED <<master, slave>>
  /\ UNCHANGED <<uart, guest, exit, console, files>>

PitTick ==
  /\ phase = "pit" /\ phase' = "run" /\ batch' = 0
  /\ \E due \in {pit, pit \/ clock = "pit"} :
       IF due /\ ~Pic!has_active_irq
       THEN Pic!PulseIrq(0) /\ pit' = FALSE
       ELSE pit' = due /\ UNCHANGED <<master, slave>>
  /\ UNCHANGED <<uart, guest, exit, console, files>>

-----------------------------------------------------------------------------
(* The virtual CPU.  Retired(v, pc, e) is v after an instruction without   *)
(* other effect that leaves RIP at pc and returns exit e.                  *)

Retired(v, pc, e) == [vcpu |-> [v EXCEPT !.pc = pc], exit |-> e]

(* IN and OUT move RIP before they exit; IN leaves io_pending for the VMM  *)
(* to complete.                                                            *)
In(v, pc, e) == Retired([v EXCEPT !.io_pending = TRUE], pc, e)

(* STI opens a one-instruction shadow when it sets IF. *)
Sti(v) == [v EXCEPT !.iflag = TRUE, !.interrupt_inhibit = ~v.iflag]

(* The guest's instruction at pc, as the set of its possible outcomes.     *)
(* External: how a kernel uses the machine.                                *)
GuestMain(v) ==
  CASE v.pc = "cli" -> {Retired([v EXCEPT !.iflag = FALSE], "check", "none")}
    [] v.pc = "check" /\ v.work -> {Retired([v EXCEPT !.work = FALSE], "check", "none")}
    [] v.pc = "check" /\ ~v.work ->
         {Retired(v, pc, "none") :
            pc \in {"sti"} \cup (IF v.tx < MaxTx THEN {"thre"} ELSE {})
                           \cup (IF clock = "lapic" /\ v.lapic = "off" THEN {"arm"} ELSE {})}
    [] v.pc = "thre" -> {Retired([v EXCEPT !.tx = @ + 1], "check", "out_thre")}
    [] v.pc = "arm" -> {Retired([v EXCEPT !.lapic = "counting"], "check", "none")}
    [] v.pc = "sti" -> {Retired(Sti(v), "hlt", "none")}
    [] v.pc = "hlt" -> {Retired([v EXCEPT !.halted = TRUE], "cli", "Hlt")}

GuestHandler(v) ==
  CASE v.pc = "t_eoi" -> {Retired(v, "iret", "out_eoi")}
    [] v.pc = "s_iir" -> {In(v, "s_dispatch", "in_iir")}
    [] v.pc = "s_dispatch" ->
         {Retired(v, IF v.al \in {"RDA", "CTI"} THEN "s_rbr"
                     ELSE IF v.al = "THRE" THEN "s_ier" ELSE "s_eoi", "none")}
    [] v.pc = "s_rbr" -> {In(v, "s_store", "in_rbr")}
    [] v.pc = "s_store" -> {Retired([v EXCEPT !.work = TRUE], "s_iir", "none")}
    [] v.pc = "s_ier" -> {Retired(v, "s_iir", "out_ier")}
    [] v.pc = "s_eoi" -> {Retired(v, "iret", "out_eoi")}
    [] v.pc = "l_eoi" -> {Retired(v, "iret", "none")}
    [] v.pc = "iret" -> {Retired([v EXCEPT !.iflag = TRUE], v.ret, "none")}

(* step ends the interrupt shadow and executes one instruction. *)
step(v) ==
  LET w == [v EXCEPT !.interrupt_inhibit = FALSE]
  IN  IF v.pc \in MainPcs THEN GuestMain(w) ELSE GuestHandler(w)

-----------------------------------------------------------------------------
(* The LAPIC timer looks at the clock only when it is ticked. *)

tick_lapic_timer(v) == IF v.lapic = "due" THEN [v EXCEPT !.lapic = "pending"] ELSE v

poll_periodic_housekeeping(v) ==
  LET t == tick_lapic_timer(v)
  IN  IF t.lapic = "pending" /\ can_inject_interrupt(t)
      THEN inject_interrupt([t EXCEPT !.lapic = "off"], LapicVector)
      ELSE t

(* run() returns e to the VMM, or goes on to the next iteration. *)
Returns(v, e) == vcpu' = v /\ exit' = e /\ phase' = "exit"
Continues(v) == vcpu' = v /\ UNCHANGED <<phase, exit>>

(* A halted vCPU gives the host its time back at once, unless the LAPIC    *)
(* has an interrupt pending, for which it keeps iterating.                 *)
HaltedIterationIdle(v) == Returns(v, "Hlt")   \* slip: always

HaltedIteration(v) ==
  IF v.lapic = "pending" THEN Continues(v) ELSE Returns(v, "Hlt")

StepIteration(v) ==
  \E out \in step(v) :
    IF out.exit = "none" THEN Continues(out.vcpu) ELSE Returns(out.vcpu, out.exit)

(* One iteration: at every LAPIC_POLL_STRIDE-th the housekeeping comes     *)
(* first and returns to the VMM when a millisecond has passed.             *)
RunIteration ==
  /\ phase = "run"
  /\ batch' = (batch + 1) % LAPIC_POLL_STRIDE
  /\ LET v == IF batch' = 0 THEN poll_periodic_housekeeping(vcpu) ELSE vcpu
     IN  \/ batch' = 0 /\ Returns(v, "Hlt")
         \/ v.halted /\ HaltedIteration(v)
         \/ ~v.halted /\ StepIteration(v)
  /\ UNCHANGED <<devices, clock, console, files>>

-----------------------------------------------------------------------------
(* Exits.  A periodic checkpoint is written before the exit is handled.    *)

complete_io_inSticky(v, data) == [v EXCEPT !.al = data]   \* slip: no take()

complete_io_in(v, data) == [v EXCEPT !.al = data, !.io_pending = FALSE]

SerialOut(u) == uart' = u /\ drive_legacy_serial_irq(u) /\ UNCHANGED vcpu

HandleExit ==
  /\ phase = "exit" /\ phase' = "poll" /\ exit' = "none"
  /\ SaveTo("periodic")
  /\ \/ exit = "Hlt" /\ UNCHANGED <<vcpu, uart, master, slave>>
     \/ /\ exit = "in_iir"
        /\ vcpu' = complete_io_in(vcpu, get_pending_interrupt(uart))
        /\ uart' = read_iir(uart) /\ UNCHANGED <<master, slave>>
     \/ /\ exit = "in_rbr"
        /\ vcpu' = complete_io_in(vcpu, "byte")
        /\ uart' = read_rbr(uart) /\ UNCHANGED <<master, slave>>
     \/ exit = "out_thre" /\ SerialOut(write_ier(uart, {"RDA", "THRE"}))
     \/ exit = "out_ier" /\ SerialOut(write_ier(uart, {"RDA"}))
     \/ exit = "out_eoi" /\ Pic!MasterWriteCommand(32) /\ UNCHANGED <<vcpu, uart>>
  /\ UNCHANGED <<pit, clock, batch, console>>

-----------------------------------------------------------------------------
(* The environment: the console thread forwards a byte, and the LAPIC      *)
(* timer's period passes.                                                  *)

Type ==
  /\ typed < MaxKeys
  /\ keys' = keys + 1 /\ typed' = typed + 1
  /\ UNCHANGED <<devices, guest, phase, batch, exit, files>>

TimePasses ==
  /\ vcpu.lapic = "counting"
  /\ vcpu' = [vcpu EXCEPT !.lapic = "due"]
  /\ UNCHANGED <<devices, clock, phase, batch, exit, console, files>>

VmmStep == Poll \/ Inject \/ PitTick \/ RunIteration \/ HandleExit

Next == VmmStep \/ Type \/ TimePasses \/ Restart

(* The loop never waits: in every phase one of its steps is possible, so   *)
(* that infinitely many are taken is weak fairness of VmmStep.  Time       *)
(* passes.                                                                 *)
Spec == Init /\ [][Next]_vars /\ []<><<VmmStep>>_vars /\ WF_vars(TimePasses)

-----------------------------------------------------------------------------
(* The components keep their types, an exit is outstanding exactly between *)
(* run() and its handling, and an IN waits for its data only then.         *)
TypeOK ==
  /\ master \in Pic!Chips /\ slave \in Pic!Chips /\ uart \in Uarts
  /\ pit \in BOOLEAN /\ vcpu \in Vcpus
  /\ phase \in Phases /\ batch \in 0..LAPIC_POLL_STRIDE - 1
  /\ exit \in Exits /\ (exit # "none") = (phase = "exit")
  /\ vcpu.io_pending = (exit \in {"in_iir", "in_rbr"})

(* The idle sequence STI; HLT loses no wake-up: the vCPU is never halted   *)
(* while a handler that ran before the HLT has left work to do.  The STI   *)
(* shadow must hold across yields to the VMM, injection at two places and  *)
(* a checkpoint (can_inject_interrupt, step, set_emulator_state).          *)
NeverSleepsOnWork == vcpu.halted => ~vcpu.work

(* Every vector the PIC was acknowledged for reaches the guest: a level is *)
(* in service only while its handler has not yet sent the EOI              *)
(* (Vmm::run checks can_inject before get_pending_vector and drops the     *)
(* result of inject_interrupt).                                            *)
AcknowledgedIsHandled ==
  /\ 0 \in master.isr => vcpu.pc \in TimerPcs \/ exit = "out_eoi"
  /\ 4 \in master.isr => vcpu.pc \in SerialPcs \/ exit = "out_eoi"

(* "Brings the machine back up exactly where it left off"                  *)
(* (src/src/vm/snapshot.rs): a restart yields the machine that was         *)
(* running when the checkpoint was written.  (For a guest on the PIT: the  *)
(* LAPIC timer of the MMU is in no checkpoint.)                            *)
ResumesExactly == [][Restart /\ clock = "pit" => Machine' \in image]_vars

(* Console input does not get stuck: bytes in the UART are read in the     *)
(* end, whatever the PIT does meanwhile and however often the line is      *)
(* sampled (comment on IRQ 4 starvation, Vmm::run).                        *)
RxWaiting == Len(uart.rx_fifo) + Len(uart.input_buffer)
SerialIsServed == RxWaiting > 0 ~> RxWaiting = 0

(* A PIT event held back while the PIC was busy is delivered (coalescing,  *)
(* Vmm::run), unless a restart goes back to before it.                     *)
TimerIsDelivered ==
  \A n \in 0..MaxRestarts : pit /\ restarts = n ~> 0 \in master.isr \/ restarts > n

(* A LAPIC timer interrupt that could not be injected when it was noticed  *)
(* is injected later, a halted vCPU included (X86_64Vcpu::run).            *)
PendingLapicIsDelivered == vcpu.lapic = "pending" ~> vcpu.lapic = "off"

(* "Timers complete in real time rather than being tied to emulator        *)
(* instruction throughput" (X86_64Vcpu::run): an expired LAPIC timer       *)
(* interrupts the guest.                                                   *)
LapicTimerFires == vcpu.lapic = "due" ~> vcpu.lapic = "off"
=============================================================================
