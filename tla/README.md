# TLA+ models of rax

rax is a virtual machine monitor whose CPUs are interpreted, or compiled at
run time, in software. This directory models the parts of it in which several
actors meet: devices and the interrupt controllers, the run loop and the guest
(on x86-64 and on AArch64), checkpoints and restarts, self-modifying code and
the JIT, and the debugger thread. Each module is written from the Rust source;
`PROJECT.json` maps every definition to the lines it stands for. TLC checks every
property on a small instance; each property of a passing run that is not a
liveness property is also proved, with TLAPS, for all instances.

## The system and its parts

The run loop (`vm/runtime.rs`, `Vmm::run`) is one thread that, pass after pass,
drains the console into the UART, injects what the PIC pair has pending, ticks
the PIT, takes a debugger command, runs the virtual CPU until it exits, and
handles the exit. Device state sits behind mutexes; a second thread reads
stdin, a third one, with `--gdb`, serves a debugger over TCP. On AArch64 the
same loop drains the console into the PL011 and runs the vCPU in batches; the
GIC is part of the vCPU, which mirrors the levels of the timers and of the UART
into it.

| Part | Source | Lines | Here |
|---|---|---|---|
| 8259A pair | `devices/pic.rs` | 1.1k | `Pic8259`, `DualPic`, `PicNesting`, `PicProofs` |
| 16550 UART | `devices/serial.rs` | 1.2k | `Serial16550`, `SerialPort`, `UartProofs`, `SerialProofs` |
| Run loop, x86-64 software vCPU around it | `vm/runtime.rs`, `isa/x86_64/cpu.rs` (`run`) | 1.6k + | `VmLoop`, `VmLoopProofs` |
| Checkpoints | `vm/snapshot.rs`, `vm/runtime.rs` | 0.5k | `VmLoop` (`SaveTo`, `Restart`) |
| Code-page journal, JIT caches | `isa/x86_64/{memory,cpu,cpu_jit_state,cpu_jit_call,cpu_invlpg}.rs` | part | `CodeCache`, `CodeCacheProofs` |
| GDB stub | `debug/gdb`, `vm/runtime.rs` | 1.1k | `GdbSession`, `GdbProofs` |
| GICv3 | `isa/arm/aarch64/gic.rs` | 1.3k | `Gic3`, `GicService`, `GicProofs` |
| AArch64 vCPU loop, generic timers, PL011 | `backend/emulator/aarch64.rs`, `isa/arm/aarch64/cpu/exec.rs`, `.../sysregs.rs`, `devices/pl011.rs` | part | `ArmVirt`, `ArmProofs` |
| PIT, LAPIC, I/O APIC, HPET, RTC, virtio | `devices/` | 8k | not modelled: see the end (the PIT's pending flag is in `VmLoop`) |
| Console mux | `host/console.rs` | 0.2k | `Console`, in `SerialPort`, `SerialProofs` |
| Other devices (IDE, AHCI, NVMe, e1000, UHCI, AC'97, FDC, i8042, VGA, SoC blocks) | `devices/` | 16k | not modelled |
| KVM and Hypervisor.framework backends | `backend/` | 4k | not modelled: the guest runs outside the repository |
| Instruction semantics (x86-64, ARM, RISC-V, Hexagon) | `isa/` | 254k | not modelled: see the end |
| SMIR (lifting, optimising, lowering) | `smir/` | 877k | not modelled: see the end |
| Machines, boot, configuration, CLI, tracing, oracle | `machine/`, `config/`, ... | 25k | not modelled: sequential set-up and output |

## Modules and how they correspond to the code

**Interrupt controller.** `Pic8259` is `struct Pic8259`: a chip is a record
(eight-bit registers are sets of lines) and each method an operator on it.
Command bytes stay numbers and are decoded bit by bit. `DualPic` is `struct
DualPic`; it has one action per critical section of its mutex: a device moves a
line, the CPU acknowledges, the guest reads or writes a port. Writing a slave
port recomputes the cascade input, writing a master port does not, as in the
code. `ServiceOrder` is the abstract specification of nested service, a stack
with `Begin` and `End`; `PicNesting` maps the in-service bitmap and the
rotating priority of a chip to it, and states the other properties.

**UART.** `Serial16550` is `struct Serial16550` with its two escape-sequence
filters; bytes are the classes the filters tell apart. `Console` is the escape
mux, with a definition of what typed bytes mean that knows nothing of polls.
`SerialPort` composes both: the stdin thread types, the loop polls through the
mux and queues input, the guest uses the registers and the terminal shows the
output, with histories of what was keyed, typed, read, sent and shown.
`disturbed` is such a history: what the guest has done to the receive path.
`SequenceFolds` has the few operators on sequences these modules share (a left
fold over the indices, and others), without the library modules that every
obligation of a proof would carry along.

**Machine.** `VmLoop` composes both with the PIT's pending flag, the timer of
the LAPIC inside the MMU, the vCPU's interrupt flag, STI shadow, halt state and
pending I/O, the console and the checkpoint file. One action is one phase of
`Vmm::run`, or one iteration of the loop in `X86_64Vcpu::run`. The guest, which
is not in the repository, is an interrupt-driven kernel: it idles with CLI,
check, STI, HLT, and its serial handler reads IIR until nothing is pending.
`SaveTo` writes what a checkpoint holds and `Restart` brings back what
`restore_snapshot` does; `image` is a history of the machine at that time.

**GICv3.** `Gic3` is `struct Gic` for one CPU: the controller is a record and
each operation, with the `update_all_cpus` it ends in, an operator on it.
`irq_line` and `highest_pending_intid` are kept as the caches they are in the
code. `GicService` puts the operations in an order: `GicSpec` any order at all,
`NestedSpec` that of a guest that reads IAR while the line is up, ends the
service it started last and leaves active priorities alone. Its abstract
specification is `ServiceOrder` again, which the PIC implements too.

**AArch64 machine.** `ArmVirt` composes the GIC with the two generic timers, the
PL011, the vCPU (WFI, WFE, PSTATE.I) and the console. One action is one phase
of the loop or one call of `step_system`, with the tick and the mirroring of
timer levels it starts with. Counter values are distances to a deadline. The
guest's handlers acknowledge, may unmask, serve their device and send EOI; its
main program arms timers, transmits, sends SGIs and rewrites GIC registers.
The guest keeps to nested service as in `NestedSpec`, though a tick and a guest's
access are one step here; `ArmProofs` proves the refinement of `ServiceOrder`
for the composition and run `arm` checks it.

**Self-modifying code.** `CodeCache` models virtual pages, frames and their
contents, the code-page bitmap, the write journal and its drain, hotness
sampling, compilation, the region cache, the memo of heads that cannot be
compiled, the region in flight and its call-outs. A region remembers the
contents it was compiled from. The decode cache has no state in the model,
because every hit is compared with the bytes. `Bypasses` names four ways to
change code without the journal noticing; the passing run and the proof are
for none of them.

**Debugger.** `GdbSession` has the debugger, the server thread, the two
channels and the run loop's debugger phases. The code pairs a command with the
next response there is, so the model numbers requests and responses, as a
history, and collects in `drift` the five events that can put the channels out
of step.

`MCPic`, `MCSerial`, `MCVmLoop`, `MCArm`, `MCCodeCache` and `MCGdb` give TLC its
instances. Definitions marked "slip" (or introduced as one) are plausible
mistakes in the code; each property is known to fail under one of them.

## Runs

| Run | Instance | What it shows |
|---|---|---|
| `pic_modes` | every kind of command, line 1 and line 9 | an edge request is only consumed by an acknowledge or ICW1; a level request never outlives its line |
| `pic_service` | lines 5, 8, 11; EOI and rotating EOI | each chip implements the stack of `ServiceOrder`; rotation starves no master line |
| `pic_cascade` | two slave lines | *violation:* a deliverable slave request is not on master IRR2 after the master's EOI |
| `serial` | FIFO of 3, bursts up to 4, 6 bytes | however typing falls between polls, host commands and text are told apart exactly; a paste larger than the FIFO arrives complete and in order while the FIFO is left on; order survives every mode switch; only complete queries are filtered from output; modem deltas are kept |
| `serial_keys` | single keys | *violation:* ESC [ digit followed by another key loses its prefix |
| `vm` | both clocks, 3 keys, FIFO of 2, stride 3, console checkpoints, one restart | no lost wake-up around STI; HLT; every acknowledged vector is handled; a restart is exact; input and timer events are served, also after a restart, although line levels are not saved |
| `vm_periodic` | checkpoints by instruction count | *violation:* the checkpoint is written with an I/O exit outstanding, which is lost |
| `vm_lapic_halt` | LAPIC clock only | *violation:* a halted guest's LAPIC timer never fires |
| `code_cache` | 2 pages of 3 addresses, 2 frames, threshold 2 | native code runs only on the bytes it was compiled from; cached code is watched; a memo not flagged dirty is right about the pages that are watched |
| `code_alias` | the same, with aliasing stores | *violation:* a store through a second mapping of the page leaves the native region in place |
| `gdb` | 2 addresses, one with an exit, 4 requests | answers pair up and "halted" is true unless one of five causes occurred; the threads never wait for each other for good; Ctrl-C is answered |
| `arm` | both timers, UART, one SGI; 2 bytes, 3 activities of the guest; batch of 3 | the IRQ line read without a lock is current; services nest; an expiry is served once and no IRQ is spurious; an idle pass skips neither work nor a deadline; input and timers are served |

The violations are disagreements between the code and its own comments;
`PROJECT.json` quotes the comment each time.

### Bounds

A chip has eight lines and the model all of them; the runs limit which lines
devices drive and which bytes the guest writes, so that each kind of command,
both chips and a nesting of two services occur. A FIFO of 3 (2 in the machine)
with bursts that exceed it shows everything 16 would: full, partly full, empty,
refilled during a read. `MCSerial` explores the mux, input, output and modem status one
at a time (`OneAspect`), since they share no state but the mode bits; the mux
gets single keys, so that every division of up to five bytes into polls occurs. A stride
of 3 puts housekeeping before, between and after STI and HLT. In `CodeCache` pages
have 3 addresses so that a loop can run entirely on the first page while its
lift window reaches the second: with 2 the interpreter would always have marked
both pages by itself. In `ArmVirt` a batch of 3 ends within the guest's idle loop
and within its handlers; delays of 2 and 5 expire in the middle of a batch and
in an idle jump, and with both timers armed one deadline is nearer; three
activities allow a register write between two interrupts; timer 27 is urgent, so
that it preempts the UART and the other timer. `SaveTo` forgets the file where
the next one might be written, which keeps the run small and loses no restart.
Four debugger requests let two answers be misplaced
and a second session follow a first.

### Fairness

`VmLoop`: the loop never blocks, and in every phase one of its steps is
enabled, so infinitely many are taken; the LAPIC timer's period passes.
`ArmVirt`: the same, infinitely many steps of the loop; nothing is assumed of
the guest's choices or of the console.
`OpenFairSpec` of the PIC: the CPU acknowledges what is deliverable and the
guest keeps sending EOIs. `GdbSession`: the server thread and the loop are
scheduled, and `vcpu.run()` returns after a millisecond (`TimeSlice`, the
housekeeping in `X86_64Vcpu::run`); nothing is assumed of the guest, which may
be halted for good, nor of the debugger. `CHECK_DEADLOCK FALSE` is used for
`gdb` only, where Kill ends the process and requests are bounded;
`SomeoneWillAnswer` is the deadlock property there.

## Theorems

33 theorems are listed in `PROJECT.json`. Between them they state, for every
value of the constants the named assumptions allow, each invariant, action
property and refinement the passing runs check. The assumptions are about sizes
and ranges (`DualPicAssumption`, `SerialAssumption`, `SerialPortAssumption`,
`VmLoopAssumption`, `SizesAssumption`, `EntriesAssumption`, `GdbAssumption`,
`GicAssumption`, `ArmVirtAssumption`); TLC evaluates them on the runs. A theorem
that needs more says so in an ASSUME of its own, named below.

*PIC* (`PicProofs`), for every set of device lines and command bytes:

* `TypeCorrect`: both chips keep the widths of their registers.
* `MasterImplementsStack`, `SlaveImplementsStack`: a chip whose guest sends
  only nested commands (no specific EOI, set-priority or special mask mode)
  implements `ServiceOrder`. The inductive invariant is `TypeOK` with `Plain`,
  that the chip is not in special mask mode. The argument: `highest_pending`
  outranks everything in service, so an acknowledge pushes; a non-specific EOI
  clears the highest rank, the top; and when the top becomes the lowest
  priority the rest keeps its order (`RankArithmetic`). The master theorem
  assumes `ExplicitAcks = {}`, since only unit tests call `acknowledge`.
* `LevelRequestsTheorem`: a level request never outlives its line. The invariant
  `Backed` says of each chip that a requested level line is up.
* `RequestsTheorem`: an edge request is consumed only by an acknowledge or ICW1.
  Each operation of a chip keeps `Backed` and every edge request it does not
  acknowledge (`Passes`), and `refresh_cascade` may withdraw the master's line 2
  only. `ExplicitAcks` may hold the cascade line.

*UART and console* (`SerialProofs`, on the lemmas of `UartProofs` about each
operation of the device), for every FIFO size, and input and output of any
length:

* `PortIsTyped`: the device stays well-formed and its FIFO holds no more than its
  mode allows. The invariant `PortTyped` types the histories too.
* `StagedBehindFullFifo`: while the guest leaves the FIFO on, a byte is staged
  only behind a full FIFO. The invariant `FifoServes` adds that input found the
  FIFO on and that nothing is in it before the first byte is typed.
* `PasteTheorem`: what was read, the FIFO and the staged bytes make up what was
  typed. The invariant `Delivers` adds that the filter is in its initial state;
  the theorem therefore assumes input without ESC. With ESC the filter withholds
  bytes, and drops some (`serial_keys`).
* `OrderTheorem`: whatever the guest does short of loopback, input arrives in
  typing order and no byte twice. "Being a subsequence" is computed by a fold,
  which is no help in a proof; the invariant `Ordered` states it by an increasing
  function into the positions of what was typed (`Embeds`), for all that is read,
  in the FIFO, staged or withheld, and `EmbedsIsSubsequence` links the two.
* `EscapeTheorem`: the mux is exact. The invariant `Exact` says that the bytes
  typed split into those polled, which mean what was asked and passed on, and
  those in the channel, and that the mux is armed if the last byte polled
  announces a command. `MuxStep` looks at one byte and a flag while the meaning
  counts the run of Ctrl-A before a byte; `Run` and `RunExists` connect them.
* `FilterTheorem`: only complete cursor-position queries are filtered. The
  invariant `Filtered` says that what was sent ends in what the filter withholds,
  and that what is shown is the rest with some queries removed; such removals
  are kept when the output grows (`ThinsPrefix`).
* `NoDeltaIsLost`: modem deltas survive until they are read. Inductive with the
  type invariant.

*Run loop* (`VmLoopProofs`), for every stride, FIFO size, amount of input and
output, and number of restarts:

* `MachineIsTyped`: `Typed` joins `Awake` (below), the types of the devices in
  the machine and in the checkpoint (`Devices`), and `Loop`: an exit is
  outstanding exactly in the phase that handles it, and an IN waits for data
  exactly then.
* `NeverSleeps`: the vCPU is never halted on work, whatever checkpoints are
  taken. `NeverSleepsOnWork` is not inductive: `Shadowed` adds that interrupts
  are on before CLI and before HLT only, that the STI shadow holds before HLT,
  that handlers therefore return to CLI, and `Awake` that the same is true of
  the vCPU in the checkpoint.
* `AcknowledgedReachesGuest`: a level in service has its handler running or its
  EOI on the way, if checkpoints come from the console only. The invariant
  `Handled` adds that at most one level is in service, that the PIC is as the
  guest left it (`Quiet`), and the same of the file. The assumption is needed: a
  periodic checkpoint drops an EOI that is outstanding (`vm_periodic`).
* `RestartTheorem`: under the same assumption, for a guest on the PIT, a restart
  is exact. The invariant `Faithful` says that the file, unwired as
  `restore_snapshot` leaves it, is the image of the machine it was written from
  (`Intact`), because what a file leaves out was not in use: no exit was
  outstanding and the MMU's LAPIC timer was never armed (`Unarmed`).

*JIT* (`CodeCacheProofs`), for all numbers of pages, frames, spaces and contents:

* `NativeCodeTheorem`, `WatchedCodeTheorem`, `CleanMemoTheorem`: if no change of
  code bypasses the journal (`Bypasses = {}`), native code only runs on the bytes
  it was compiled from, cached code is watched, and a clean memo is current.
  `NativeCodeIsCurrent` is not inductive: it speaks of the region in flight only.
  `Inv` adds that a cached or active region's pages are code pages and that each
  differs from what was compiled only if it is in the journal
  (`CachedCodeIsWatched`, `ActiveCodeIsWatched`), the same for memos, of which
  there is one per key (`OneMemoPerKey`), and that the journal is empty wherever
  native code starts (`JournalIsDrained`). A lift window is at most a page long
  (`SizesAssumption`), so a write to page p concerns heads on p and on the page
  before (`WindowIsShort`). The assumption is needed: see `code_alias`.
* `CachesAreTyped`: types and bounds, with every bypass allowed.

*GDB stub* (`GdbProofs`), for every set of addresses and exits and every number
of requests:

* `PairingByPosition`, `HaltedIsHalted`: until one of the five causes in `drift`
  occurs, the response a waiting server takes is the one to its request, and a
  debugger that believes the guest halted is right. The invariant `InStep` lists
  the phases the two threads go through: nobody connected (`Unattended`),
  `Quiet`, one request out (`Asking`), the guest resumed (`Resuming`), Ctrl-C
  sent after the resumption (`Interrupting`), a Kill or a crossed Ctrl-C next in
  the channel (`Last`), and `Over`. A Ctrl-C that crosses a stop is why `Last` is
  needed: the server may go on sending behind it before the VMM takes it.
* `NobodyWaitsForGood`: `SomeoneWillAnswer`, with no assumption on `drift`. The
  invariant `WaitInv` says that what a blocked server sent last is either the
  last command in the channel or has had its effect: a guest that runs, or a
  response.
* `SessionIsTyped`: the type invariant, for which `Asked` bounds the numbers in
  the channels by the number of requests made.

*GIC* (`GicProofs`), for every set of interrupts and priorities:

* `IrqLineStaysCurrent`: under `GicSpec`, whatever guest and devices do, the
  published line is up exactly when a signal is due. The invariant `Current`
  speaks of both caches; each operation either recomputes them or changes
  nothing they depend on (`SilentKept`).
* `GicImplementsStack`: under `NestedSpec` the active interrupts are the stack of
  `ServiceOrder`. The invariant `Nested` says that the stack holds the active
  interrupts with their priorities, strictly more urgent towards the top, and
  that the top's priority is the running one; so what an acknowledge starts is
  not active yet, and the EOI of the last one retires the top.

*AArch64 machine* (`ArmProofs`, on `GicProofs`), for every batch size, set of
delays, choice of urgent interrupts and of register writes, and amount of input:
seven theorems from one inductive invariant, `MachineInv`. Its parts: the types (`TypeInv`); the GIC
set up for nested service (`SetUp`, which contains `Nested`); the timers' pending
bits are the levels mirrored last (`Mirrored`); the handlers that run are the
services on the GIC's stack, in order (`HandlersServe`); each was interrupted
where it may be and has the interrupt its place calls for (`HandlersRun`); the
main program runs alone and masked from its check to WFI (`MainRuns`); the line
that took an IRQ still holds when the handler reads ICC_IAR (`LineHolds`); and a
CPU in WFI has seen the UART's level (`UartSeen`).

* `MachineIsTyped` and `MachineLineIsCurrent`: the type invariant, and the
  theorem about the GIC's line carried over to the machine.
* `IrqFindsItsInterrupt`, `HandlersServeDueTimers`: no IRQ is spurious and no
  timer's handler runs without cause.
* `MachineImplementsStack`: the machine implements `ServiceOrder`. Every step
  leaves the stack alone, begins the highest pending interrupt or ends the top.
* `IdlesOnlyWithoutWork`, `JumpsToTheNearest`: action properties of the idle
  pass. An asserted, open interrupt would be pending and, with nothing in
  service, keep the line up; and the jump is the minimum over the deadlines
  ahead.

Recursive functions (folds, what typed bytes mean, what a filter may leave) are
reasoned about by induction over the set of indices for which a fact holds
(`IndexInduction` in `UartProofs`, from the well-foundedness of `<` on the
naturals), because the library states induction for an operator, which the
provers cannot instantiate. The existence of each such function is proved the
same way before its equation is used.

Only model-checked: the liveness properties (`RotationIsFair`, `SerialIsServed`,
`TimerIsDelivered`, `PendingLapicIsDelivered`, `InterruptIsAnswered`,
`InputIsRead`, `TimersAreServed`). They rest on fairness, so on ENABLED, which is
beyond the prover's temporal backend. The properties of `pic_cascade`,
`serial_keys` and `vm_lapic_halt` are false; those of `vm_periodic` and
`code_alias` are proved under the assumptions these runs drop.

## Observations without a run

Checked with TLC by changing an instance, or read off the code:

* `CodeCache` with `Bypasses` set to "dma", "reload" or "callout": each lets a
  stale region run. Loading CR3 flushes the TLB only (`memory.rs:824`).
* A restart with the LAPIC as the clock is not exact: a checkpoint holds the
  VMM's LAPIC, not the one in the MMU (`runtime.rs:1324`).
* `GdbSession`: each of the five causes in `drift` alone breaks
  `AnswersArePaired` and `HaltedMeansHalted`. The plainest needs no failure:
  Ctrl-C crosses a breakpoint, and from then on each answer belongs to the
  request before it.
* A step over a port I/O instruction runs the next instruction too, past a
  breakpoint on it: `step()` returns the exit before the single-step test.
* Detach clears neither the vCPU's single-step mode nor its breakpoints, and a
  debugger that disconnects while the guest is stopped leaves it stopped.
* A clean memo says nothing of window pages that were not code pages when it was
  made: a head they now make compilable stays interpreted (`cpu.rs:6035`).
* `G` packets are decoded from hex twice (`commands.rs:144`,
  `registers.rs:60`), so writing registers answers an error.
* Bytes typed before Ctrl-A s in the same poll are queued after the checkpoint is
  written and are missing from it (`runtime.rs:804`).
* With the FIFO off, each byte of a paste overwrites the one
  before, where `serial.rs:258` promises no loss (`serial.rs:351`); a FIFO
  reset does not refill from staged input (`serial.rs:527`).
* GIC: reading ICC_IAR ignores the running priority and the group enables; a
  level interrupt that is active and pending is a candidate again, so with
  EOImode 1 it can be acknowledged twice; `NestedSpec` excludes both. GICD_CTLR
  is stored and never consulted, active-bit registers exist for PPIs and SGIs
  only, and an SGI to "all other PEs" also reaches the sender (`gic.rs:656`).
* A narrow write to GICR_ICENABLER0, ICPENDR0 or ICACTIVER0 is a read of the set
  bits, a merge and a write back, and so clears the other lanes too
  (`aarch64.rs:185`).
* A guest that clears the pending bit of an asserted timer loses the interrupt
  until the level changes, because timer levels are mirrored on a change; the
  UART's is mirrored anew by every `run()`. `Written` clears the UART's only.
* A checkpoint of the AArch64 machine holds neither the GIC, the PL011 nor the
  counter, and `set_state` resets the GIC, although `runtime.rs:1425` says that
  every device model is restored.
* PIT mode 4 fires every period (`pit.rs:278`), where `pit.rs:26` says once.

## Plan

1. PIT (modes, latches, reprogramming against a pending event); the console mux
   inside `VmLoop`, so that typing order and checkpoints meet.
2. LAPIC, I/O APIC and HPET: priorities, remote IRR, periodic re-arming.
3. virtqueues against a driver that runs between two kicks, with an abstract
   queue that the ring implements.
4. Interrupt and exception delivery on x86-64 (double fault, triple fault,
   injection that fails after the PIC was acknowledged).
5. Theorems: the exactness of a restart for a LAPIC clock, once a checkpoint
   holds the MMU's LAPIC; refinement of an abstract byte stream by `SerialPort`.

## Not modelled, and why

Instruction semantics and SMIR are functions on machine words, hundreds of
thousands of lines of them, with no interleaving; the repository tests them
against hardware and against each other, and a state machine adds nothing.
The PIT's counting modes, the RTC, the HPET, the VMM's LAPIC and I/O APIC, and
the virtio queues (which no machine instantiates) are register machines that
work inside one call, under a lock. They are worth modules of their own, in the
order of the plan; of the PIT only the pending flag and its coalescing, where
several actors meet, are in `VmLoop` today. On AArch64, PSCI, faults, the JIT's
fast path, the wrap of the 64-bit counter and checkpoints are left out. The NVIC
of Cortex-M, trap delivery on RISC-V and the ARMv6 machines are not modelled.
KVM and Hypervisor.framework run the guest outside this code. Configuration,
boot, tracing and the oracle are sequential: they run before the guest does, or
only write output. The file formats of checkpoints and the packets of the debugger
protocol are left out of `VmLoop` and `GdbSession`. Files under `isa/` other
than those named above only appear as what they may do: an instruction of
`CodeCache` stores anywhere, remaps anything and jumps anywhere.
