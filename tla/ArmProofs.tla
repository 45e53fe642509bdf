------------------------------- MODULE ArmProofs -------------------------------
(***************************************************************************)
(* Proofs about the AArch64 machine, for every set of interrupts and       *)
(* priorities, batch length, timer delay and amount of input.  The         *)
(* theorems about the GICv3 alone (GicProofs) hold for any use of it; here *)
(* the devices, the mirrors of their levels, the virtual CPU and the       *)
(* guest's handlers are in the loop.                                       *)
(***************************************************************************)
EXTENDS ArmVirt, GicProofs

TimerRecords == [enable : BOOLEAN, imask : BOOLEAN, left : Int]
Frames == [pc : HandlerPcs, intid : Intids \cup {SPURIOUS}]

(* Where a handler may be interrupted. *)
Interruptible == {"mis", "dr", "txm", "timer", "close"}

TypeInv ==
  /\ uart \in [rx : Nat, imsc : SUBSET {"RX", "TX"}]
  /\ timer \in [Timers -> TimerRecords]
  /\ timer_levels \in [Timers -> BOOLEAN]
  /\ cpu \in [wfi : BOOLEAN, wfe : BOOLEAN, masked : BOOLEAN]
  /\ frames \in Seq(Frames)
  /\ guest \in [pc : MainPcs, work : BOOLEAN, starts : Nat]
  /\ phase \in {"poll", "enter", "run"} /\ batch \in 0..BATCH - 1
  /\ keys \in Nat /\ typed \in Nat /\ uart.rx + keys <= typed /\ typed <= MaxKeys

(* The controller as the guest has set it up: nested service, group 1 on,  *)
(* the devices' interrupts level-triggered.                                *)
SetUp(g) == Nested(g) /\ g.grp1 /\ \A i \in Timers \cup {UART} : ~g.int[i].edge

(* The timers' pending bits are the levels mirrored last; the UART's lags  *)
(* behind its level, but only downwards.                                   *)
Mirrored(g, levels, u) ==
  /\ \A t \in Timers : g.int[t].pending <=> levels[t]
  /\ g.int[UART].pending => irq_pending(u)

(* The stack of active priorities is the stack of handlers: all but one    *)
(* that has yet to read ICC_IAR or has written ICC_EOIR.                   *)
TopPc == frames[Len(frames)].pc
Served == IF frames # <<>> /\ TopPc \in {"iar", "eret"} THEN Len(frames) - 1 ELSE Len(frames)

HandlersServe ==
  /\ Len(gic.active_priorities) = Served
  /\ \A k \in 1..Served : gic.active_priorities[k].intid = frames[k].intid

(* A handler's life: below the top it was interrupted where it can be, and *)
(* it is masked elsewhere; it has an interrupt once it has read ICC_IAR,   *)
(* and a timer's handler has a timer to silence.                           *)
HandlersRun ==
  /\ \A k \in 1..Len(frames) - 1 : frames[k].pc \in Interruptible
  /\ frames # <<>> /\ TopPc \notin Interruptible => cpu.masked
  /\ \A k \in 1..Len(frames) : frames[k].intid = SPURIOUS => frames[k].pc = "iar"
  /\ \A k \in 1..Len(frames) : frames[k].pc = "timer" => frames[k].intid \in Timers
  /\ \A k \in 1..Len(frames) :
       frames[k].pc \in {"open", "timer"} /\ frames[k].intid \in Timers =>
         interrupt_pending(timer[frames[k].intid])

(* The main program runs alone and masked from "mask" to "unmask". *)
MainRuns ==
  /\ guest.pc # "mask" => frames = <<>> /\ cpu.masked
  /\ cpu.wfi \/ cpu.wfe => guest.pc = "unmask"
  /\ ~(cpu.wfi /\ cpu.wfe)

(* The line that took an IRQ is still up when the handler reads ICC_IAR. *)
LineHolds ==
  frames # <<>> /\ TopPc = "iar" =>
    gic.irq_line /\ \A t \in Timers : timer_levels[t] => interrupt_pending(timer[t])

(* A CPU in WFI sees the UART's level: the batch began after the last      *)
(* access.                                                                 *)
UartSeen == cpu.wfi /\ phase = "run" => (irq_pending(uart) => gic.int[UART].pending)

MachineInv ==
  /\ TypeInv /\ SetUp(gic) /\ Mirrored(gic, timer_levels, uart)
  /\ HandlersServe /\ HandlersRun /\ MainRuns /\ LineHolds /\ UartSeen

-----------------------------------------------------------------------------
(* The controller's operations, as the machine uses them. *)

LEMMA Devices ==
  /\ Timers \subseteq Intids /\ UART \in Intids /\ UART \notin Timers
  /\ VIRT \in Timers /\ PHYS \in Timers /\ VIRT # PHYS
  /\ Timers \cap Sgis = {} /\ UART \notin Sgis
  BY ArmVirtAssumption, GicAssumption, Numbers DEF Timers, UART, VIRT, PHYS

(* The timers' levels are mirrored, and nothing else is. *)
Shows(g, levels) == \A t \in Timers : g.int[t].pending <=> levels[t]

Copied(g, d, levels) ==
  /\ Kept(d) /\ SameServices(g, d) /\ SameGate(g, d) /\ Shows(d, levels)
  /\ \A j \in Intids \ Timers : d.int[j].pending = g.int[j].pending

LEMMA MirrorCopies ==
  ASSUME NEW g, Kept(g), NEW old \in [Timers -> BOOLEAN], NEW new \in [Timers -> BOOLEAN],
         Shows(g, old), NEW d, d = Mirror(g, old, new)
  PROVE  Copied(g, d, new)
  <1> USE DEF Shows, Copied
  <1>1. CASE new = old
    <2>1. d = g BY <1>1 DEF Mirror
    <2>2. QED BY <1>1, <2>1 DEF SameServices, SameInts, SameGate
  <1>2. CASE new # old
    <2> DEFINE v == set_line(g, VIRT, new[VIRT])
    <2>1. d = set_line(v, PHYS, new[PHYS]) BY <1>2 DEF Mirror
    <2>2. new[VIRT] \in BOOLEAN /\ new[PHYS] \in BOOLEAN BY Devices
    <2>3. VIRT \in Intids /\ PHYS \in Intids /\ VIRT # PHYS BY Devices
    <2>4. /\ Kept(v) /\ SameServices(g, v) /\ SameGate(g, v)
          /\ v.int[VIRT].pending = new[VIRT]
          /\ \A j \in Intids \ {VIRT} : v.int[j].pending = g.int[j].pending
      <3>1. g \in Gics /\ v = set_line(g, VIRT, new[VIRT]) BY DEF Kept
      <3> HIDE DEF v
      <3>2. QED BY <2>2, <2>3, <3>1, LineDriven
    <2> HIDE DEF v
    <2>5. /\ Kept(d) /\ SameServices(v, d) /\ SameGate(v, d)
          /\ d.int[PHYS].pending = new[PHYS]
          /\ \A j \in Intids \ {PHYS} : d.int[j].pending = v.int[j].pending
      <3>1. v \in Gics BY <2>4 DEF Kept
      <3>2. QED BY <2>1, <2>2, <2>3, <3>1, LineDriven
    <2>6. SameServices(g, d) /\ SameGate(g, d) BY <2>4, <2>5, Chained
    <2>7. \A t \in Timers : t = VIRT \/ t = PHYS BY DEF Timers
    <2>8. d.int[VIRT].pending = new[VIRT] BY <2>3, <2>4, <2>5
    <2>9. \A j \in Intids \ Timers : j # VIRT /\ j # PHYS BY Devices
    <2>10. QED BY <2>4, <2>5, <2>6, <2>7, <2>8, <2>9
  <1>3. QED BY <1>1, <1>2

LEMMA QuietSetUp ==
  ASSUME NEW g, SetUp(g), NEW d, Kept(d), SameServices(g, d), SameGate(g, d)
  PROVE  SetUp(d) /\ Idles(g, d)
  <1>1. Nested(d) /\ Idles(g, d) BY SameIsNested DEF SetUp
  <1>2. d.grp1 /\ \A i \in Timers \cup {UART} : ~d.int[i].edge
    BY Devices DEF SetUp, SameGate
  <1>3. QED BY <1>1, <1>2 DEF SetUp

(* ICC_IAR on a raised line: the interrupt it returns is on top of the     *)
(* stack, and a device's interrupt is as pending as before.                *)
Stacked(g, d, i) ==
  /\ SetUp(d) /\ Starts(g, d, i)
  /\ i \in Intids /\ g.int[i].pending
  /\ \E e \in Entries : e.intid = i /\ d.active_priorities = Append(g.active_priorities, e)
  /\ \A j \in Timers \cup {UART} : d.int[j].pending = g.int[j].pending

LEMMA IarStarts ==
  ASSUME NEW g, SetUp(g), g.irq_line, NEW d, d = acknowledge(g),
         NEW i, i = g.highest_pending_intid
  PROVE  Stacked(g, d, i)
  <1>1. Nested(g) /\ \A j \in Timers \cup {UART} : j \in Intids /\ ~g.int[j].edge
    BY Devices DEF SetUp
  <1>2. /\ Nested(d) /\ Starts(g, d, i) /\ d.grp1 = g.grp1
        /\ i \in Intids /\ g.int[i].pending
        /\ \E e \in Entries : e.intid = i /\ d.active_priorities = Append(g.active_priorities, e)
        /\ \A j \in Intids : /\ d.int[j].edge = g.int[j].edge
                             /\ ~g.int[j].edge => d.int[j].pending = g.int[j].pending
    BY <1>1, IarStacks
  <1>3. SetUp(d) BY <1>1, <1>2 DEF SetUp
  <1>4. QED BY <1>1, <1>2, <1>3 DEF Stacked

(* ICC_EOIR of the interrupt on top of the stack. *)
LEMMA EoiEnds ==
  ASSUME NEW g, SetUp(g), g.active_priorities # <<>>,
         NEW i, i = g.active_priorities[Len(g.active_priorities)].intid,
         NEW d, d = end_of_interrupt(g, i)
  PROVE  /\ SetUp(d) /\ Ends(g, d, i) /\ i \in Intids
         /\ Len(d.active_priorities) = Len(g.active_priorities) - 1
         /\ \A k \in 1..Len(g.active_priorities) - 1 :
              d.active_priorities[k] = g.active_priorities[k]
         /\ \A j \in Timers \cup {UART} : d.int[j].pending = g.int[j].pending
  <1>1. Nested(g) BY DEF SetUp
  <1>2. /\ Nested(d) /\ Ends(g, d, i) /\ i \in Intids /\ d.grp1 = g.grp1
        /\ Len(d.active_priorities) = Len(g.active_priorities) - 1
        /\ \A k \in 1..Len(g.active_priorities) - 1 :
             d.active_priorities[k] = g.active_priorities[k]
        /\ \A j \in Intids : /\ d.int[j].edge = g.int[j].edge
                             /\ d.int[j].pending = g.int[j].pending
    BY <1>1, EoiPops
  <1>3. SetUp(d) BY <1>2, Devices, Zenon DEF SetUp
  <1>4. QED BY <1>2, <1>3, Devices, Zenon

(* The guest's register writes touch the UART's interrupt and the mask. *)
LEMMA WriteIsQuiet ==
  ASSUME NEW g, SetUp(g), NEW name \in WriteNames, NEW d, d = Written(g, name)
  PROVE  /\ SetUp(d) /\ Idles(g, d) /\ d.active_priorities = g.active_priorities
         /\ \A t \in Timers : d.int[t].pending = g.int[t].pending
         /\ d.int[UART].pending => g.int[UART].pending
  <1>1. g \in Gics /\ Nested(g) /\ g.grp1 BY DEF SetUp, Nested, Kept
  <1>2. UART \in Intids BY Devices
  <1>3. 128 \in Priorities /\ IDLE \in Priorities BY ArmVirtAssumption, Numbers
  <1>4. \/ \E on \in BOOLEAN : d \in {write_enable(g, {UART}, on), write_irouter(g, UART, on),
                                     write_pending(g, {UART}, FALSE)}
        \/ \E m \in Priorities : d = set_priority_mask(g, m)
    BY <1>3, Zenon DEF Written, WriteNames
  <1>5. QuietOn(g, d, UART)
    <2>1. ASSUME NEW m \in Priorities, d = set_priority_mask(g, m)
          PROVE  QuietOn(g, d, UART)
      <3>1. Kept(d) /\ SameServices(g, d) /\ d.grp1 = g.grp1 /\ d.int = g.int
        BY <1>1, <2>1, MaskWrite, Zenon
      <3>2. QED BY <3>1 DEF QuietOn
    <2>2. QED BY <1>1, <1>2, <1>4, <2>1, QuietWrites, Zenon
  <1>6. Nested(d) /\ Idles(g, d) BY <1>1, <1>5, SameIsNested DEF QuietOn
  <1>7. SetUp(d) BY <1>1, <1>5, <1>6, Devices DEF SetUp, QuietOn
  <1>8. QED BY <1>5, <1>6, <1>7, Devices DEF SameServices, QuietOn

(* The boot requests nothing. *)
LEMMA BootIsSetUp ==
  /\ SetUp(BootedGic) /\ BootedGic.active_priorities = <<>>
  /\ Active(BootedGic) = {} /\ Over(BootedGic) = {}
  /\ \A i \in Intids : ~BootedGic.int[i].pending
  <1>1. Fresh(NewGic)
    <2>1. Kept(NewGic) BY NewKept
    <2>2. QED BY <2>1, Zenon DEF NewGic, Fresh
  <1>2. \A g, S : Fresh(g) => Fresh(write_enable(g, S, TRUE)) /\ Fresh(write_priority(g, S, 128))
    BY ArmVirtAssumption, FreshWrites, Zenon
  <1> DEFINE on == write_enable(write_enable(NewGic, Private, TRUE), Spis, TRUE)
             w == write_priority(on, Urgent, 128)
             d == set_group_enable(w, TRUE, TRUE)
             v == [w EXCEPT !.grp1 = TRUE]
  <1>3. Fresh(w) BY <1>1, <1>2, Zenon
  <1>4. BootedGic = d BY DEF BootedGic
  <1>5. d = update_all_cpus(v) BY DEF set_group_enable
  <1> HIDE DEF w, d
  <1>6. /\ v \in Gics /\ v.grp1 /\ v.int = w.int /\ v.eoi_mode = w.eoi_mode
        /\ v.active_priorities = w.active_priorities
        /\ v.running_priority = w.running_priority
    BY <1>3, Zenon DEF Fresh, Kept, Gics
  <1> HIDE DEF v
  <1>7. Kept(d) /\ SameSettings(v, d) BY <1>5, <1>6, UpdateIsCurrent DEF Kept
  <1>8. Fresh(d) /\ d.grp1 BY <1>3, <1>6, <1>7 DEF Fresh, SameSettings
  <1>9. Len(d.active_priorities) = 0 /\ Top(d.active_priorities) = IDLE
    BY <1>8 DEF Fresh, Top
  <1>10. Nested(d) BY <1>8, <1>9 DEF Fresh, Nested
  <1>11. Active(d) = {} BY <1>8 DEF Fresh, Active
  <1>12. Over(d) = {} BY <1>9 DEF Over, StackOrder
  <1>13. SetUp(d) BY <1>8, <1>10, Devices DEF Fresh, SetUp
  <1>14. QED BY <1>4, <1>8, <1>11, <1>12, <1>13 DEF Fresh

-----------------------------------------------------------------------------
(* The timers. *)
LEMMA MaxOfTwo ==
  ASSUME NEW a \in Int, NEW b \in Int
  PROVE  /\ Max({a, b}) \in {a, b}
         /\ Max({a, b}) >= a /\ Max({a, b}) >= b
  <1>1. \E x \in {a, b} : \A y \in {a, b} : x >= y
    <2>1. CASE a >= b BY <2>1
    <2>2. CASE b >= a BY <2>2
    <2>3. QED BY <2>1, <2>2
  <1>2. Max({a, b}) \in {a, b} /\ \A y \in {a, b} : Max({a, b}) >= y BY <1>1 DEF Max
  <1>3. QED BY <1>2

(* Time only brings a deadline nearer: a timer that asserts its line goes  *)
(* on asserting it.                                                        *)
LEMMA TimePasses ==
  ASSUME NEW ts \in [Timers -> TimerRecords], NEW n \in Nat, NEW us, us = Later(ts, n)
  PROVE  /\ us \in [Timers -> TimerRecords]
         /\ \A t \in Timers : /\ us[t].enable = ts[t].enable /\ us[t].imask = ts[t].imask
                              /\ us[t].left >= ts[t].left - n
                              /\ interrupt_pending(ts[t]) => interrupt_pending(us[t])
  <1>1. Horizon \in Int /\ Horizon < 0 BY ArmVirtAssumption DEF Horizon
  <1>2. SUFFICES ASSUME NEW t \in Timers
                 PROVE  /\ us[t] \in TimerRecords
                        /\ us[t].enable = ts[t].enable /\ us[t].imask = ts[t].imask
                        /\ us[t].left >= ts[t].left - n
                        /\ interrupt_pending(ts[t]) => interrupt_pending(us[t])
    BY Zenon DEF Later
  <1> DEFINE l == ts[t].left - n
             m == Max({l, Horizon})
  <1>3. ts[t] \in TimerRecords /\ ts[t].left \in Int BY DEF TimerRecords
  <1>4. m \in {l, Horizon} /\ m >= l /\ m >= Horizon /\ l \in Int
    <2>1. l \in Int BY <1>3
    <2> HIDE DEF l
    <2>2. QED BY <1>1, <2>1, MaxOfTwo, Zenon
  <1>5. us[t] = [ts[t] EXCEPT !.left = m] BY DEF Later
  <1> HIDE DEF m
  <1>6. m \in Int BY <1>1, <1>4
  <1>7. /\ us[t] \in TimerRecords /\ us[t].enable = ts[t].enable /\ us[t].imask = ts[t].imask
        /\ us[t].left = m
    BY <1>3, <1>5, <1>6 DEF TimerRecords
  <1>8. ts[t].left <= 0 => m <= 0 BY <1>1, <1>3, <1>4
  <1>9. interrupt_pending(ts[t]) => interrupt_pending(us[t])
    BY <1>7, <1>8 DEF interrupt_pending
  <1>10. QED BY <1>4, <1>7, <1>9 DEF m

(* When the UART asserts its line. *)
LEMMA UartLine ==
  ASSUME NEW u
  PROVE  irq_pending(u) <=> "TX" \in u.imsc \/ (u.rx > 0 /\ "RX" \in u.imsc)
  <1>1. CASE u.rx > 0 BY <1>1 DEF irq_pending, ris
  <1>2. CASE ~(u.rx > 0) BY <1>2 DEF irq_pending, ris
  <1>3. QED BY <1>1, <1>2

(* What every step finds after the counter has advanced and the timers'    *)
(* levels have been mirrored.                                              *)
LEMMA TickFacts ==
  ASSUME MachineInv, NEW g, g = TickedGic, NEW ts, ts = Ticked
  PROVE  /\ ts \in [Timers -> TimerRecords] /\ Levels(ts) \in [Timers -> BOOLEAN]
         /\ \A t \in Timers : /\ ts[t].enable = timer[t].enable /\ ts[t].imask = timer[t].imask
                              /\ interrupt_pending(timer[t]) => interrupt_pending(ts[t])
         /\ SetUp(g) /\ Idles(gic, g) /\ SameServices(gic, g) /\ SameGate(gic, g)
         /\ Mirrored(g, Levels(ts), uart)
         /\ g.int[UART].pending = gic.int[UART].pending
         /\ frames # <<>> /\ TopPc = "iar" => g.irq_line
  <1>1. TypeInv /\ SetUp(gic) /\ Mirrored(gic, timer_levels, uart) /\ LineHolds
    BY DEF MachineInv
  <1>2. /\ ts \in [Timers -> TimerRecords]
        /\ \A t \in Timers : /\ ts[t].enable = timer[t].enable /\ ts[t].imask = timer[t].imask
                             /\ interrupt_pending(timer[t]) => interrupt_pending(ts[t])
    <2>1. timer \in [Timers -> TimerRecords] BY <1>1 DEF TypeInv
    <2>2. PICK n \in Nat : n = 1 OBVIOUS
    <2>3. ts = Later(timer, n) BY <2>2 DEF Ticked
    <2>4. QED BY <2>1, <2>3, TimePasses
  <1>3. Levels(ts) \in [Timers -> BOOLEAN] /\ timer_levels \in [Timers -> BOOLEAN]
    BY <1>1 DEF Levels, interrupt_pending, TypeInv
  <1>4. \A t \in Timers : Levels(ts)[t] <=> interrupt_pending(ts[t])
    BY Zenon DEF Levels, interrupt_pending
  <1>5. Kept(gic) /\ \A t \in Timers : gic.int[t].pending <=> timer_levels[t]
    BY <1>1 DEF SetUp, Nested, Mirrored
  <1>6. g = Mirror(gic, timer_levels, Levels(ts)) BY DEF TickedGic
  <1>7. /\ Kept(g) /\ SameServices(gic, g) /\ SameGate(gic, g)
        /\ \A t \in Timers : g.int[t].pending <=> Levels(ts)[t]
        /\ \A j \in Intids \ Timers : g.int[j].pending = gic.int[j].pending
    <2>1. Shows(gic, timer_levels) BY <1>5 DEF Shows
    <2>2. Copied(gic, g, Levels(ts)) BY <1>3, <1>5, <1>6, <2>1, MirrorCopies
    <2>3. QED BY <2>2 DEF Copied, Shows
  <1>8. SetUp(g) /\ Idles(gic, g) BY <1>1, <1>7, QuietSetUp
  <1>9. g.int[UART].pending = gic.int[UART].pending BY <1>7, Devices
  <1>10. Mirrored(g, Levels(ts), uart) BY <1>1, <1>7, <1>9 DEF Mirrored
  <1>11. ASSUME frames # <<>>, TopPc = "iar" PROVE g.irq_line
    <2>1. gic.irq_line /\ \A t \in Timers : timer_levels[t] => interrupt_pending(timer[t])
      BY <1>1, <1>11 DEF LineHolds
    <2>2. \A t \in Timers : gic.int[t].pending => g.int[t].pending
      BY <1>2, <1>4, <1>5, <1>7, <2>1
    <2>3. \A j \in Intids : gic.int[j].pending => g.int[j].pending BY <1>7, <2>2
    <2>4. QED BY <1>5, <1>7, <2>1, <2>3, LineStaysUp
  <1>12. QED BY <1>2, <1>3, <1>7, <1>8, <1>9, <1>10, <1>11

(* The UART's level is mirrored. *)
LEMMA UartSynced ==
  ASSUME NEW g, SetUp(g), NEW levels, NEW w, Mirrored(g, levels, w),
         NEW u, NEW d, d = sync_uart_irq(g, u)
  PROVE  /\ SetUp(d) /\ Idles(g, d) /\ SameServices(g, d) /\ SameGate(g, d)
         /\ Mirrored(d, levels, u) /\ (d.int[UART].pending <=> irq_pending(u))
         /\ g.irq_line /\ (g.int[UART].pending => irq_pending(u)) => d.irq_line
  <1>1. g \in Gics /\ Kept(g) BY DEF SetUp, Nested, Kept
  <1>2. irq_pending(u) \in BOOLEAN /\ UART \in Intids BY Devices DEF irq_pending
  <1>3. d = set_line(g, UART, irq_pending(u)) BY DEF sync_uart_irq
  <1>4. /\ Kept(d) /\ SameServices(g, d) /\ SameGate(g, d)
        /\ d.int[UART].pending = irq_pending(u)
        /\ \A j \in Intids \ {UART} : d.int[j].pending = g.int[j].pending
    BY <1>1, <1>2, <1>3, LineDriven
  <1>5. SetUp(d) /\ Idles(g, d) BY <1>4, QuietSetUp
  <1>6. \A t \in Timers : d.int[t].pending = g.int[t].pending BY <1>4, Devices
  <1>7. Mirrored(d, levels, u) BY <1>4, <1>6 DEF Mirrored
  <1>8. ASSUME g.irq_line, g.int[UART].pending => irq_pending(u) PROVE d.irq_line
    <2>1. \A j \in Intids : g.int[j].pending => d.int[j].pending BY <1>4, <1>8
    <2>2. QED BY <1>1, <1>4, <1>8, <2>1, LineStaysUp
  <1>9. QED BY <1>4, <1>5, <1>7, <1>8

LEMMA IdlesChain ==
  ASSUME NEW g, NEW d, NEW e, Idles(g, d)
  PROVE  /\ Idles(d, e) => Idles(g, e)
         /\ \A i : Starts(d, e, i) => Starts(g, e, i)
         /\ \A i : Ends(d, e, i) => Ends(g, e, i)
  <1>1. Idles(d, e) => Idles(g, e) BY DEF Idles
  <1>2. \A i : Starts(d, e, i) => Starts(g, e, i) BY DEF Idles, Starts
  <1>3. \A i : Ends(d, e, i) => Ends(g, e, i) BY DEF Idles, Ends
  <1>4. QED BY <1>1, <1>2, <1>3

-----------------------------------------------------------------------------
(* The steps.  Each keeps the invariant, and starts or ends at most one    *)
(* service.                                                                *)
Serves ==
  \/ Idles(gic, gic')
  \/ \E i \in Intids : Starts(gic, gic', i) \/ Ends(gic, gic', i)

(* Steps of the loop and of the main program: no handler before or after. *)
LEMMA NoHandler ==
  ASSUME MachineInv, frames = <<>>, frames' = <<>>,
         gic'.active_priorities = gic.active_priorities
  PROVE  (HandlersServe /\ HandlersRun /\ LineHolds)'
  <1>1. Len(gic.active_priorities) = 0
    BY DEF MachineInv, HandlersServe, Served
  <1>2. HandlersServe' BY <1>1 DEF HandlersServe, Served
  <1>3. HandlersRun' BY DEF HandlersRun
  <1>4. LineHolds' BY DEF LineHolds
  <1>5. QED BY <1>2, <1>3, <1>4

LEMMA TypeStep ==
  ASSUME MachineInv, Type
  PROVE  MachineInv' /\ Serves
  <1>1. TypeInv'
    <2>1. TypeInv /\ MaxKeys \in Nat BY ArmVirtAssumption DEF MachineInv
    <2>2. uart' = uart /\ uart.rx \in Nat /\ keys' = keys + 1 /\ typed' = typed + 1
          /\ typed < MaxKeys /\ keys \in Nat /\ typed \in Nat /\ uart.rx + keys <= typed
      BY <2>1 DEF TypeInv, Type, devices
    <2>3. keys' \in Nat /\ typed' \in Nat /\ uart'.rx + keys' <= typed' /\ typed' <= MaxKeys
      BY <2>1, <2>2
    <2>4. QED BY <2>1, <2>3 DEF TypeInv, Type, devices
  <1>2. UNCHANGED <<gic, uart, timer, timer_levels, cpu, frames, guest, phase>>
    BY DEF Type, devices
  <1>3. /\ SetUp(gic)' /\ Mirrored(gic, timer_levels, uart)' /\ HandlersServe'
        /\ HandlersRun' /\ MainRuns' /\ LineHolds' /\ UartSeen'
    BY <1>2 DEF MachineInv, SetUp, Mirrored, HandlersServe, HandlersRun, MainRuns, LineHolds,
                UartSeen, Served, TopPc
  <1>4. Serves BY <1>2 DEF Serves, Idles
  <1>5. QED BY <1>1, <1>3, <1>4 DEF MachineInv

LEMMA BatchFacts ==
  ASSUME batch \in 0..BATCH - 1, Continue \/ Hlt
  PROVE  /\ batch' \in 0..BATCH - 1 /\ phase' \in {"poll", "enter", "run"}
         /\ Hlt => phase' = "poll"
  <1>1. BATCH \in Nat \ {0} BY ArmVirtAssumption
  <1>2. (batch + 1) % BATCH \in 0..BATCH - 1 BY <1>1
  <1>3. QED BY <1>1, <1>2 DEF Continue, Hlt

LEMMA FrameFacts ==
  ASSUME TypeInv
  PROVE  /\ Len(frames) \in Nat /\ \A k \in 1..Len(frames) : frames[k] \in Frames
         /\ frames # <<>> => Len(frames) \in 1..Len(frames)
  <1>1. frames \in Seq(Frames) BY DEF TypeInv
  <1>2. QED BY <1>1, SeqLength, SeqMember, SeqEmpty

LEMMA PollStep ==
  ASSUME MachineInv, Poll
  PROVE  MachineInv' /\ Serves
  <1>1. TypeInv BY DEF MachineInv
  <1>2. /\ UNCHANGED <<gic, timer, timer_levels, cpu, frames, guest, batch, typed>>
        /\ phase' = "enter" /\ keys' = 0 /\ uart' = [uart EXCEPT !.rx = @ + keys]
    BY DEF Poll
  <1>3. /\ uart'.rx = uart.rx + keys /\ uart'.imsc = uart.imsc
        /\ uart' \in [rx : Nat, imsc : SUBSET {"RX", "TX"}]
        /\ uart.rx \in Nat /\ keys \in Nat
    BY <1>1, <1>2 DEF TypeInv
  <1>4. TypeInv' BY <1>1, <1>2, <1>3 DEF TypeInv
  <1>5. irq_pending(uart) => irq_pending(uart')
    <2>1. uart.rx > 0 => uart'.rx > 0 BY <1>3
    <2>2. QED BY <1>3, <2>1, UartLine
  <1>6. Mirrored(gic, timer_levels, uart)' BY <1>2, <1>5 DEF MachineInv, Mirrored
  <1>7. /\ SetUp(gic)' /\ HandlersServe' /\ HandlersRun' /\ MainRuns' /\ LineHolds'
    BY <1>2 DEF MachineInv, SetUp, HandlersServe, HandlersRun, MainRuns, LineHolds, Served, TopPc
  <1>8. UartSeen' BY <1>2 DEF UartSeen
  <1>9. Serves BY <1>2 DEF Serves, Idles
  <1>10. QED BY <1>4, <1>6, <1>7, <1>8, <1>9 DEF MachineInv

LEMMA EnterStep ==
  ASSUME MachineInv, Enter
  PROVE  MachineInv' /\ Serves
  <1>1. /\ TypeInv /\ SetUp(gic) /\ Mirrored(gic, timer_levels, uart) /\ HandlersServe
        /\ HandlersRun /\ MainRuns /\ LineHolds
    BY DEF MachineInv
  <1>2. /\ UNCHANGED <<uart, timer, timer_levels, cpu, frames, guest, batch, keys, typed>>
        /\ phase' = "run" /\ gic' = sync_uart_irq(gic, uart)
    BY DEF Enter, devices, console
  <1>3. /\ SetUp(gic') /\ Idles(gic, gic') /\ SameServices(gic, gic')
        /\ Mirrored(gic', timer_levels, uart) /\ (gic'.int[UART].pending <=> irq_pending(uart))
        /\ gic.irq_line /\ (gic.int[UART].pending => irq_pending(uart)) => gic'.irq_line
    BY <1>1, <1>2, UartSynced
  <1>4. TypeInv' BY <1>1, <1>2 DEF TypeInv
  <1>5. gic'.active_priorities = gic.active_priorities BY <1>3 DEF SameServices
  <1>6. HandlersServe' BY <1>1, <1>2, <1>5 DEF HandlersServe, Served, TopPc
  <1>7. HandlersRun' /\ MainRuns' BY <1>1, <1>2 DEF HandlersRun, MainRuns, TopPc
  <1>8. gic.irq_line => gic'.irq_line BY <1>1, <1>3 DEF Mirrored
  <1>9. LineHolds' BY <1>1, <1>2, <1>8 DEF LineHolds, TopPc
  <1>10. UartSeen' BY <1>2, <1>3 DEF UartSeen
  <1>11. SetUp(gic)' /\ Mirrored(gic, timer_levels, uart)' BY <1>2, <1>3
  <1>12. QED BY <1>3, <1>4, <1>6, <1>7, <1>9, <1>10, <1>11 DEF MachineInv, Serves

LEMMA WfeStep ==
  ASSUME MachineInv, StepWfe
  PROVE  MachineInv' /\ Serves
  <1> DEFINE g == TickedGic
             ts == Ticked
  <1>1. TypeInv /\ MainRuns BY DEF MachineInv
  <1>2. /\ ts \in [Timers -> TimerRecords] /\ Levels(ts) \in [Timers -> BOOLEAN]
        /\ SetUp(g) /\ Idles(gic, g) /\ SameServices(gic, g) /\ Mirrored(g, Levels(ts), uart)
    BY TickFacts
  <1>3. /\ UNCHANGED <<uart, frames, guest, keys, typed>> /\ timer_levels' = Levels(ts)
        /\ gic' = g /\ timer' = ts /\ cpu.wfe /\ cpu' = [cpu EXCEPT !.wfe = FALSE] /\ Hlt
    BY DEF StepWfe, Tick, console
  <1> HIDE DEF g, ts
  <1>4. guest.pc = "unmask" /\ frames = <<>> /\ cpu.masked /\ ~cpu.wfi
    BY <1>1, <1>3 DEF MainRuns
  <1>5. /\ cpu' \in [wfi : BOOLEAN, wfe : BOOLEAN, masked : BOOLEAN]
        /\ ~cpu'.wfe /\ cpu'.masked = cpu.masked /\ cpu'.wfi = cpu.wfi
    BY <1>1, <1>3, Zenon DEF TypeInv
  <1>6. batch' \in 0..BATCH - 1 /\ phase' \in {"poll", "enter", "run"} /\ phase' = "poll"
    BY <1>1, <1>3, BatchFacts DEF TypeInv
  <1>7. TypeInv' BY <1>1, <1>2, <1>3, <1>5, <1>6 DEF TypeInv
  <1>8. MainRuns' BY <1>1, <1>3, <1>4, <1>5 DEF MainRuns
  <1>9. (HandlersServe /\ HandlersRun /\ LineHolds)'
    BY <1>2, <1>3, <1>4, NoHandler DEF SameServices
  <1>10. UartSeen' BY <1>6 DEF UartSeen
  <1>11. SetUp(gic)' /\ Mirrored(gic, timer_levels, uart)' BY <1>2, <1>3
  <1>12. Serves BY <1>2, <1>3 DEF Serves
  <1>13. QED BY <1>7, <1>8, <1>9, <1>10, <1>11, <1>12 DEF MachineInv

(* The jump of an idle pass ends at the nearest armed deadline. *)
LEMMA JumpFacts ==
  ASSUME NEW ts \in [Timers -> TimerRecords]
  PROVE  /\ Jump(ts) \in Nat
         /\ \A t \in Timers : Armed(ts[t]) /\ ts[t].left > 0 => Jump(ts) <= ts[t].left
  <1> DEFINE A == Ahead(ts)
  <1>1. \A t \in Timers : ts[t].left \in Int BY DEF TimerRecords
  <1>2. /\ A \in SUBSET Nat
        /\ \A t \in Timers : Armed(ts[t]) /\ ts[t].left > 0 => ts[t].left \in A
    BY <1>1 DEF Ahead
  <1>3. CASE A = {} BY <1>2, <1>3, ArmVirtAssumption DEF Jump
  <1>4. CASE A # {}
    <2>1. Jump(ts) = Min(A) BY <1>4 DEF Jump
    <2> HIDE DEF A
    <2>2. \E m \in A : \A n \in A : m <= n BY <1>2, <1>4, LeastNat
    <2>3. Min(A) \in A /\ \A n \in A : Min(A) <= n BY <2>2 DEF Min
    <2>4. QED BY <1>2, <2>1, <2>3, Zenon
  <1>5. QED BY <1>3, <1>4

LEMMA IdleStep ==
  ASSUME MachineInv, StepIdle
  PROVE  MachineInv' /\ Serves
  <1> DEFINE g == TickedGic
             ts == Ticked
             n == Jump(ts)
  <1>1. TypeInv /\ MainRuns BY DEF MachineInv
  <1>2. /\ ts \in [Timers -> TimerRecords] /\ Levels(ts) \in [Timers -> BOOLEAN]
        /\ SetUp(g) /\ Idles(gic, g) /\ SameServices(gic, g) /\ SameGate(gic, g)
        /\ Mirrored(g, Levels(ts), uart)
    BY TickFacts
  <1>3. /\ UNCHANGED <<uart, cpu, frames, guest, keys, typed>> /\ timer' = Later(ts, n)
        /\ timer_levels' = Levels(timer') /\ gic' = Mirror(g, Levels(ts), timer_levels')
        /\ cpu.wfi /\ Hlt
    BY DEF StepIdle, console
  <1> HIDE DEF g, ts
  <1>4. n \in Nat BY <1>2, JumpFacts
  <1> HIDE DEF n
  <1>5. timer' \in [Timers -> TimerRecords] BY <1>2, <1>3, <1>4, TimePasses
  <1>6. timer_levels' \in [Timers -> BOOLEAN] BY <1>3 DEF Levels, interrupt_pending
  <1>7. Kept(g) /\ \A t \in Timers : g.int[t].pending <=> Levels(ts)[t]
    BY <1>2 DEF SetUp, Nested, Mirrored
  <1>8. /\ Kept(gic') /\ SameServices(g, gic') /\ SameGate(g, gic')
        /\ \A t \in Timers : gic'.int[t].pending <=> timer_levels'[t]
        /\ \A j \in Intids \ Timers : gic'.int[j].pending = g.int[j].pending
    <2>1. Shows(g, Levels(ts)) BY <1>7 DEF Shows
    <2>2. Copied(g, gic', timer_levels') BY <1>2, <1>3, <1>6, <1>7, <2>1, MirrorCopies
    <2>3. QED BY <2>2 DEF Copied, Shows
  <1>9. SetUp(gic') /\ Idles(g, gic') BY <1>2, <1>8, QuietSetUp
  <1>10. gic'.int[UART].pending = g.int[UART].pending BY <1>8, Devices
  <1>11. Mirrored(gic, timer_levels, uart)' BY <1>2, <1>3, <1>8, <1>10 DEF Mirrored
  <1>12. frames = <<>> BY <1>1, <1>3 DEF MainRuns
  <1>13. gic'.active_priorities = gic.active_priorities BY <1>2, <1>8 DEF SameServices
  <1>14. batch' \in 0..BATCH - 1 /\ phase' \in {"poll", "enter", "run"} /\ phase' = "poll"
    BY <1>1, <1>3, BatchFacts DEF TypeInv
  <1>15. TypeInv' BY <1>1, <1>3, <1>5, <1>6, <1>14 DEF TypeInv
  <1>16. MainRuns' BY <1>1, <1>3 DEF MainRuns
  <1>17. (HandlersServe /\ HandlersRun /\ LineHolds)' BY <1>3, <1>12, <1>13, NoHandler
  <1>18. UartSeen' BY <1>14 DEF UartSeen
  <1>19. Serves BY <1>2, <1>9, IdlesChain DEF Serves
  <1>20. QED BY <1>9, <1>11, <1>15, <1>16, <1>17, <1>18, <1>19 DEF MachineInv

LEMMA TakeIrqStep ==
  ASSUME MachineInv, StepTakeIrq
  PROVE  MachineInv' /\ Serves
  <1> DEFINE g == TickedGic
             ts == Ticked
             r == [pc |-> "iar", intid |-> SPURIOUS]
             n == Len(frames)
  <1>1. TypeInv /\ MainRuns /\ HandlersRun /\ HandlersServe BY DEF MachineInv
  <1>2. /\ ts \in [Timers -> TimerRecords] /\ Levels(ts) \in [Timers -> BOOLEAN]
        /\ \A t \in Timers : interrupt_pending(timer[t]) => interrupt_pending(ts[t])
        /\ SetUp(g) /\ Idles(gic, g) /\ SameServices(gic, g) /\ Mirrored(g, Levels(ts), uart)
    BY TickFacts
  <1>3. /\ UNCHANGED <<uart, guest, keys, typed>> /\ timer_levels' = Levels(ts)
        /\ gic' = g /\ timer' = ts /\ frames' = Append(frames, r) /\ Continue
        /\ cpu' = [cpu EXCEPT !.wfi = FALSE, !.masked = TRUE]
        /\ g.irq_line /\ ~cpu.masked /\ ~cpu.wfe
    BY DEF StepTakeIrq, Tick, Awake, console
  <1> HIDE DEF g, ts
  <1>4. guest.pc = "mask" BY <1>1, <1>3 DEF MainRuns
  <1>5. frames # <<>> => TopPc \in Interruptible BY <1>1, <1>3 DEF HandlersRun
  <1>6. /\ cpu' \in [wfi : BOOLEAN, wfe : BOOLEAN, masked : BOOLEAN]
        /\ ~cpu'.wfe /\ cpu'.masked /\ ~cpu'.wfi
    BY <1>1, <1>3, Zenon DEF TypeInv
  <1>7. r \in Frames BY DEF Frames, HandlerPcs
  <1>8. n \in Nat /\ frames \in Seq(Frames) /\ (frames # <<>> => n \in 1..n)
    BY <1>1, FrameFacts DEF TypeInv
  <1>9. r.pc = "iar" /\ r.intid = SPURIOUS OBVIOUS
  <1> HIDE DEF r
  <1>10. /\ frames' \in Seq(Frames) /\ frames' # <<>> /\ Len(frames') = n + 1
         /\ frames'[n + 1] = r /\ \A k \in 1..n : frames'[k] = frames[k]
    BY <1>3, <1>7, <1>8, SeqAppend
  <1>11. batch' \in 0..BATCH - 1 /\ phase' \in {"poll", "enter", "run"}
    BY <1>1, <1>3, BatchFacts DEF TypeInv
  <1>12. TypeInv' BY <1>1, <1>2, <1>3, <1>6, <1>10, <1>11 DEF TypeInv
  <1>13. MainRuns' BY <1>3, <1>4, <1>6 DEF MainRuns
  <1>14. Served = n /\ Served' = n
    <2>1. Served = n BY <1>5 DEF Served, Interruptible
    <2>2. Served' = n BY <1>8, <1>9, <1>10 DEF Served, TopPc
    <2>3. QED BY <2>1, <2>2
  <1>15. HandlersServe'
    <2>1. gic'.active_priorities = gic.active_priorities BY <1>2, <1>3 DEF SameServices
    <2>2. \A k \in 1..n : gic.active_priorities[k].intid = frames[k].intid
      BY <1>1, <1>14 DEF HandlersServe
    <2>3. \A k \in 1..n : gic'.active_priorities[k].intid = frames'[k].intid
      BY <1>10, <2>1, <2>2
    <2>4. Len(gic'.active_priorities) = n BY <1>1, <1>14, <2>1 DEF HandlersServe
    <2>5. QED BY <1>14, <2>3, <2>4 DEF HandlersServe
  <1>16. HandlersRun'
    <2>1. \A k \in 1..n + 1 : k \in 1..n \/ k = n + 1 BY <1>8
    <2>2. \A k \in 1..n : frames[k].pc \in Interruptible
      <3>1. \A k \in 1..n - 1 : frames[k].pc \in Interruptible BY <1>1 DEF HandlersRun
      <3>2. frames # <<>> => frames[n].pc \in Interruptible BY <1>5 DEF TopPc
      <3>3. \A k \in 1..n : k \in 1..n - 1 \/ k = n BY <1>8
      <3>4. frames = <<>> => n = 0 BY <1>8, SeqEmpty
      <3>5. CASE frames = <<>> BY <3>4, <3>5
      <3>6. CASE frames # <<>> BY <3>1, <3>2, <3>3, <3>6
      <3>7. QED BY <3>5, <3>6
    <2>3. \A k \in 1..Len(frames') - 1 : frames'[k].pc \in Interruptible
      BY <1>8, <1>10, <2>2
    <2>4. \A k \in 1..Len(frames') :
             /\ frames'[k].intid = SPURIOUS => frames'[k].pc = "iar"
             /\ frames'[k].pc = "timer" => frames'[k].intid \in Timers
             /\ frames'[k].pc \in {"open", "timer"} /\ frames'[k].intid \in Timers =>
                  interrupt_pending(timer'[frames'[k].intid])
      <3>1. SUFFICES ASSUME NEW k \in 1..n + 1
                     PROVE  /\ frames'[k].intid = SPURIOUS => frames'[k].pc = "iar"
                            /\ frames'[k].pc = "timer" => frames'[k].intid \in Timers
                            /\ frames'[k].pc \in {"open", "timer"} /\ frames'[k].intid \in Timers =>
                                 interrupt_pending(timer'[frames'[k].intid])
        BY <1>10
      <3>2. CASE k = n + 1 BY <1>9, <1>10, <3>2
      <3>3. CASE k \in 1..n BY <1>1, <1>2, <1>3, <1>10, <3>3 DEF HandlersRun
      <3>4. QED BY <2>1, <3>2, <3>3
    <2>5. QED BY <1>6, <2>3, <2>4 DEF HandlersRun
  <1>17. LineHolds' BY <1>3 DEF LineHolds, Levels
  <1>18. UartSeen' BY <1>6 DEF UartSeen
  <1>19. SetUp(gic)' /\ Mirrored(gic, timer_levels, uart)' BY <1>2, <1>3
  <1>20. Serves BY <1>2, <1>3 DEF Serves
  <1>21. QED BY <1>12, <1>13, <1>15, <1>16, <1>17, <1>18, <1>19, <1>20 DEF MachineInv

-----------------------------------------------------------------------------
(* The guest's instructions.  First what an access leaves in the machine,  *)
(* when it neither acknowledges nor ends an interrupt.                     *)
Accessed ==
  /\ SetUp(gic') /\ Mirrored(gic', Levels(Ticked), uart') /\ Idles(gic, gic')
  /\ gic'.active_priorities = gic.active_priorities
  /\ timer' \in [Timers -> TimerRecords]
  /\ uart' \in [rx : Nat, imsc : SUBSET {"RX", "TX"}] /\ uart'.rx <= uart.rx

LEMMA NoAccessFacts ==
  ASSUME MachineInv, NoAccess
  PROVE  Accessed /\ timer' = Ticked /\ uart' = uart
  <1> DEFINE g == TickedGic
             ts == Ticked
  <1>1. /\ ts \in [Timers -> TimerRecords]
        /\ SetUp(g) /\ Idles(gic, g) /\ SameServices(gic, g) /\ Mirrored(g, Levels(ts), uart)
    BY TickFacts
  <1>2. gic' = g /\ timer' = ts /\ uart' = uart BY DEF NoAccess, AccessGic
  <1>3. uart \in [rx : Nat, imsc : SUBSET {"RX", "TX"}] BY DEF MachineInv, TypeInv
  <1>4. uart.rx <= uart.rx BY <1>3
  <1>5. g.active_priorities = gic.active_priorities BY <1>1 DEF SameServices
  <1>6. QED BY <1>1, <1>2, <1>3, <1>4, <1>5 DEF Accessed

LEMMA UartAccessFacts ==
  ASSUME MachineInv, NEW u \in [rx : Nat, imsc : SUBSET {"RX", "TX"}], u.rx <= uart.rx,
         AccessUart(u)
  PROVE  Accessed /\ timer' = Ticked /\ uart' = u
  <1> DEFINE g == TickedGic
             ts == Ticked
  <1>1. /\ ts \in [Timers -> TimerRecords]
        /\ SetUp(g) /\ Idles(gic, g) /\ SameServices(gic, g) /\ Mirrored(g, Levels(ts), uart)
    BY TickFacts
  <1>2. gic' = sync_uart_irq(g, u) /\ timer' = ts /\ uart' = u BY DEF AccessUart
  <1> HIDE DEF g, ts
  <1>3. /\ SetUp(gic') /\ Idles(g, gic') /\ SameServices(g, gic')
        /\ Mirrored(gic', Levels(ts), u)
    BY <1>1, <1>2, UartSynced
  <1>4. gic'.active_priorities = gic.active_priorities BY <1>1, <1>3 DEF SameServices
  <1>5. Idles(gic, gic') BY <1>1, <1>3, IdlesChain
  <1>6. QED BY <1>1, <1>2, <1>3, <1>4, <1>5 DEF Accessed, ts

LEMMA TimerAccessFacts ==
  ASSUME MachineInv, NEW t \in Timers, NEW tm \in TimerRecords, AccessTimer(t, tm)
  PROVE  /\ Accessed /\ uart' = uart
         /\ \A v \in Timers \ {t} : interrupt_pending(timer[v]) => interrupt_pending(timer'[v])
  <1> DEFINE g == TickedGic
             ts == Ticked
  <1>1. /\ ts \in [Timers -> TimerRecords]
        /\ \A v \in Timers : interrupt_pending(timer[v]) => interrupt_pending(ts[v])
        /\ SetUp(g) /\ Idles(gic, g) /\ SameServices(gic, g) /\ Mirrored(g, Levels(ts), uart)
    BY TickFacts
  <1>2. gic' = g /\ timer' = [ts EXCEPT ![t] = tm] /\ uart' = uart BY DEF AccessTimer
  <1>3. uart \in [rx : Nat, imsc : SUBSET {"RX", "TX"}] BY DEF MachineInv, TypeInv
  <1>4. uart.rx <= uart.rx BY <1>3
  <1>5. g.active_priorities = gic.active_priorities BY <1>1 DEF SameServices
  <1> HIDE DEF g
  <1>6. timer' \in [Timers -> TimerRecords] /\ \A v \in Timers \ {t} : timer'[v] = ts[v]
    BY <1>1, <1>2
  <1>7. Accessed BY <1>1, <1>2, <1>3, <1>4, <1>5, <1>6 DEF Accessed
  <1>8. QED BY <1>1, <1>2, <1>6, <1>7

LEMMA SgiFacts ==
  ASSUME MachineInv, NEW i \in Sgis, AccessGic(raise_sgi(TickedGic, i))
  PROVE  Accessed
  <1> DEFINE g == TickedGic
             ts == Ticked
  <1>1. /\ ts \in [Timers -> TimerRecords]
        /\ SetUp(g) /\ Idles(gic, g) /\ SameServices(gic, g) /\ Mirrored(g, Levels(ts), uart)
    BY TickFacts, Zenon
  <1>2. timer' = ts /\ uart' = uart BY DEF AccessGic
  <1>3. uart \in [rx : Nat, imsc : SUBSET {"RX", "TX"}] BY DEF MachineInv, TypeInv
  <1>4. uart.rx <= uart.rx BY <1>3
  <1>0. PICK b \in BOOLEAN : b = TRUE BY Zenon
  <1>5. gic' = set_line(g, i, b) BY <1>0 DEF AccessGic, raise_sgi, set_line
  <1> HIDE DEF g, ts
  <1>6. g \in Gics /\ i \in Intids
    <2>1. g \in Gics BY <1>1, Zenon DEF SetUp, Nested, Kept
    <2>2. i \in Intids BY Numbers
    <2>3. QED BY <2>1, <2>2
  <1>7. /\ Kept(gic') /\ SameServices(g, gic') /\ SameGate(g, gic')
        /\ \A j \in Intids \ {i} : gic'.int[j].pending = g.int[j].pending
    BY <1>5, <1>6, LineDriven
  <1>8. SetUp(gic') /\ Idles(g, gic') BY <1>1, <1>7, QuietSetUp
  <1>9. \A j \in Timers \cup {UART} : j \in Intids \ {i} BY Devices
  <1>10. Mirrored(gic', Levels(ts), uart) BY <1>1, <1>7, <1>9, Zenon DEF Mirrored
  <1>11. gic'.active_priorities = gic.active_priorities BY <1>1, <1>7, Zenon DEF SameServices
  <1>12. Idles(gic, gic') BY <1>1, <1>8, IdlesChain
  <1>13. QED BY <1>1, <1>2, <1>3, <1>4, <1>8, <1>10, <1>11, <1>12 DEF Accessed, ts

LEMMA WriteFacts ==
  ASSUME MachineInv, NEW name \in Writes, AccessGic(Written(TickedGic, name))
  PROVE  Accessed
  <1> DEFINE g == TickedGic
             ts == Ticked
  <1>1. /\ ts \in [Timers -> TimerRecords]
        /\ SetUp(g) /\ Idles(gic, g) /\ SameServices(gic, g) /\ Mirrored(g, Levels(ts), uart)
    BY TickFacts, Zenon
  <1>2. gic' = Written(g, name) /\ timer' = ts /\ uart' = uart BY DEF AccessGic
  <1>3. uart \in [rx : Nat, imsc : SUBSET {"RX", "TX"}] BY DEF MachineInv, TypeInv
  <1>4. uart.rx <= uart.rx BY <1>3
  <1> HIDE DEF g, ts
  <1>5. name \in WriteNames BY ArmVirtAssumption
  <1>6. /\ SetUp(gic') /\ Idles(g, gic') /\ gic'.active_priorities = g.active_priorities
        /\ \A t \in Timers : gic'.int[t].pending = g.int[t].pending
        /\ gic'.int[UART].pending => g.int[UART].pending
    BY <1>1, <1>2, <1>5, WriteIsQuiet
  <1>7. Mirrored(gic', Levels(ts), uart) BY <1>1, <1>6 DEF Mirrored
  <1>8. gic'.active_priorities = gic.active_priorities BY <1>1, <1>6 DEF SameServices
  <1>9. Idles(gic, gic') BY <1>1, <1>6, IdlesChain
  <1>10. QED BY <1>1, <1>2, <1>3, <1>4, <1>6, <1>7, <1>8, <1>9 DEF Accessed, ts

LEMMA MainStep ==
  ASSUME MachineInv, Tick, Awake, frames = <<>>, MainInstruction
  PROVE  MachineInv' /\ Serves
  <1>1. TypeInv /\ MainRuns BY DEF MachineInv
  <1>2. /\ timer_levels' = Levels(Ticked) /\ keys' = keys /\ typed' = typed /\ ~cpu.wfe
    BY DEF Tick, Awake, console
  <1>3. Levels(Ticked) \in [Timers -> BOOLEAN] BY DEF Levels, interrupt_pending
  <1>4. /\ cpu.wfi \in BOOLEAN /\ cpu.masked \in BOOLEAN
        /\ cpu \in [wfi : BOOLEAN, wfe : BOOLEAN, masked : BOOLEAN]
        /\ guest \in [pc : MainPcs, work : BOOLEAN, starts : Nat]
        /\ uart \in [rx : Nat, imsc : SUBSET {"RX", "TX"}]
    BY <1>1 DEF TypeInv
  (* What is left to show of each instruction. *)
  <1>5. SUFFICES /\ Accessed /\ frames' = <<>> /\ (Continue \/ Hlt)
                 /\ guest' \in [pc : MainPcs, work : BOOLEAN, starts : Nat]
                 /\ cpu' \in [wfi : BOOLEAN, wfe : BOOLEAN, masked : BOOLEAN]
                 /\ MainRuns' /\ (cpu'.wfi => Hlt)
    <2>1. batch' \in 0..BATCH - 1 /\ phase' \in {"poll", "enter", "run"} /\ (Hlt => phase' = "poll")
      BY <1>1, <1>5, BatchFacts DEF TypeInv
    <2>2. <<>> \in Seq(Frames) BY SeqEmpty
    <2>3. uart'.rx + keys' <= typed' /\ keys' \in Nat /\ typed' \in Nat /\ typed' <= MaxKeys
      <3>1. uart.rx \in Nat /\ keys \in Nat /\ typed \in Nat /\ uart.rx + keys <= typed
              /\ typed <= MaxKeys
        BY <1>1, <1>4 DEF TypeInv
      <3>2. uart'.rx \in Nat /\ uart'.rx <= uart.rx BY <1>5 DEF Accessed
      <3>3. QED BY <1>2, <3>1, <3>2
    <2>4. TypeInv' BY <1>2, <1>3, <1>5, <2>1, <2>2, <2>3 DEF TypeInv, Accessed
    <2>5. (HandlersServe /\ HandlersRun /\ LineHolds)' BY <1>5, NoHandler DEF Accessed
    <2>6. UartSeen' BY <1>5, <2>1 DEF UartSeen
    <2>7. SetUp(gic)' /\ Mirrored(gic, timer_levels, uart)' /\ Serves
      BY <1>2, <1>5 DEF Accessed, Serves
    <2>8. QED BY <1>5, <2>4, <2>5, <2>6, <2>7 DEF MachineInv
  <1>6. CASE Pc = "mask" /\ Masking(TRUE) /\ NoAccess /\ GoTo("check") /\ Continue
    <2>1. cpu' = [cpu EXCEPT !.wfi = FALSE, !.masked = TRUE] BY <1>6 DEF Masking
    <2>2. frames' = <<>> /\ guest' = [guest EXCEPT !.pc = "check"] BY <1>6 DEF GoTo
    <2>3. /\ cpu' \in [wfi : BOOLEAN, wfe : BOOLEAN, masked : BOOLEAN]
          /\ ~cpu'.wfi /\ ~cpu'.wfe /\ cpu'.masked
      BY <1>2, <1>4, <2>1, Zenon
    <2>4. guest' \in [pc : MainPcs, work : BOOLEAN, starts : Nat] BY <1>4, <2>2 DEF MainPcs
    <2>5. MainRuns' BY <2>2, <2>3 DEF MainRuns
    <2>6. Accessed BY <1>6, NoAccessFacts
    <2>7. QED BY <1>6, <2>2, <2>3, <2>4, <2>5, <2>6
  <1>7. CASE Pc = "check" /\ Running /\ Check /\ UNCHANGED frames /\ Continue
    <2>1. cpu' = [cpu EXCEPT !.wfi = FALSE] BY <1>7 DEF Running
    <2>2. guest.pc = "check" /\ cpu.masked BY <1>1, <1>7 DEF Pc, MainRuns
    <2>3. /\ cpu' \in [wfi : BOOLEAN, wfe : BOOLEAN, masked : BOOLEAN]
          /\ ~cpu'.wfi /\ ~cpu'.wfe /\ cpu'.masked
      BY <1>2, <1>4, <2>1, <2>2, Zenon
    <2>4. frames' = <<>> BY <1>7
    <2>5. MainRuns' BY <2>3, <2>4 DEF MainRuns
    <2>6. guest' \in [pc : MainPcs, work : BOOLEAN, starts : Nat]
      <3>1. \/ guest' = [guest EXCEPT !.work = FALSE] \/ guest' = [guest EXCEPT !.pc = "wait"]
            \/ guest' = [guest EXCEPT !.starts = @ + 1]
        BY <1>7 DEF Check
      <3>2. guest.starts + 1 \in Nat BY <1>4
      <3>3. QED BY <1>4, <3>1, <3>2, Zenon DEF MainPcs
    <2>7. Accessed
      <3>1. CASE NoAccess BY <3>1, NoAccessFacts
      <3>2. CASE Start
        <4>1. CASE AccessUart([uart EXCEPT !.imsc = @ \cup {"TX"}])
          <5> DEFINE u == [uart EXCEPT !.imsc = @ \cup {"TX"}]
          <5>1. u \in [rx : Nat, imsc : SUBSET {"RX", "TX"}] /\ u.rx <= uart.rx BY <1>4
          <5> HIDE DEF u
          <5>2. AccessUart(u) BY <4>1 DEF u
          <5>3. QED BY <5>1, <5>2, UartAccessFacts
        <4>2. CASE \E i \in Sgis : AccessGic(raise_sgi(TickedGic, i)) BY <4>2, SgiFacts
        <4>3. CASE \E t \in Timers, n \in Delays :
                     AccessTimer(t, [enable |-> TRUE, imask |-> FALSE, left |-> n])
          <5>1. PICK t \in Timers, n \in Delays :
                  AccessTimer(t, [enable |-> TRUE, imask |-> FALSE, left |-> n])
            BY <4>3, Zenon
          <5> DEFINE tm == [enable |-> TRUE, imask |-> FALSE, left |-> n]
          <5>2. tm \in TimerRecords BY ArmVirtAssumption DEF TimerRecords
          <5> HIDE DEF tm
          <5>3. AccessTimer(t, tm) BY <5>1 DEF tm
          <5>4. QED BY <5>2, <5>3, TimerAccessFacts
        <4>4. CASE \E name \in Writes : AccessGic(Written(TickedGic, name)) BY <4>4, WriteFacts
        <4>5. QED BY <3>2, <4>1, <4>2, <4>3, <4>4, Zenon DEF Start
      <3>3. QED BY <1>7, <3>1, <3>2 DEF Check
    <2>8. QED BY <1>7, <2>3, <2>4, <2>5, <2>6, <2>7
  <1>8. CASE /\ Pc = "wait" /\ NoAccess /\ GoTo("unmask") /\ Hlt
             /\ cpu' \in {[cpu EXCEPT !.wfi = TRUE], [cpu EXCEPT !.wfi = FALSE, !.wfe = TRUE]}
    <2>1. guest.pc = "wait" /\ cpu.masked BY <1>1, <1>8 DEF Pc, MainRuns
    <2>2. frames' = <<>> /\ guest' = [guest EXCEPT !.pc = "unmask"] BY <1>8 DEF GoTo
    <2>3. /\ cpu' \in [wfi : BOOLEAN, wfe : BOOLEAN, masked : BOOLEAN]
          /\ ~(cpu'.wfi /\ cpu'.wfe) /\ cpu'.masked
      BY <1>2, <1>4, <1>8, <2>1, Zenon
    <2>4. guest' \in [pc : MainPcs, work : BOOLEAN, starts : Nat] /\ guest'.pc = "unmask"
      BY <1>4, <2>2 DEF MainPcs
    <2>5. MainRuns' BY <2>2, <2>3, <2>4 DEF MainRuns
    <2>6. Accessed BY <1>8, NoAccessFacts
    <2>7. QED BY <1>8, <2>2, <2>3, <2>4, <2>5, <2>6
  <1>9. CASE Pc = "unmask" /\ Masking(FALSE) /\ NoAccess /\ GoTo("mask") /\ Continue
    <2>1. cpu' = [cpu EXCEPT !.wfi = FALSE, !.masked = FALSE] BY <1>9 DEF Masking
    <2>2. frames' = <<>> /\ guest' = [guest EXCEPT !.pc = "mask"] BY <1>9 DEF GoTo
    <2>3. /\ cpu' \in [wfi : BOOLEAN, wfe : BOOLEAN, masked : BOOLEAN]
          /\ ~cpu'.wfi /\ ~cpu'.wfe
      BY <1>2, <1>4, <2>1, Zenon
    <2>4. guest' \in [pc : MainPcs, work : BOOLEAN, starts : Nat] /\ guest'.pc = "mask"
      BY <1>4, <2>2 DEF MainPcs
    <2>5. MainRuns' BY <2>3, <2>4 DEF MainRuns
    <2>6. Accessed BY <1>9, NoAccessFacts
    <2>7. QED BY <1>9, <2>2, <2>3, <2>4, <2>5, <2>6
  <1>10. QED BY <1>6, <1>7, <1>8, <1>9, Zenon DEF MainInstruction

-----------------------------------------------------------------------------
(* The handlers' instructions change the frame on top. *)

(* No interrupt has two handlers. *)
LEMMA HandlersDiffer ==
  ASSUME MachineInv, frames # <<>>, TopPc \notin {"iar", "eret"}
  PROVE  \A k \in 1..Len(frames) - 1 : frames[k].intid # frames[Len(frames)].intid
  <1> DEFINE s == gic.active_priorities
             n == Len(frames)
  <1>1. TypeInv /\ HandlersServe /\ Nested(gic) BY DEF MachineInv, SetUp
  <1>2. n \in Nat /\ n \in 1..n BY <1>1, FrameFacts
  <1>3. Served = n BY DEF Served
  <1>4. Len(s) = n /\ \A k \in 1..n : s[k].intid = frames[k].intid
    BY <1>1, <1>3 DEF HandlersServe
  <1>5. \A j, k \in 1..Len(s) : s[j].intid = s[k].intid => j = k
    <2>1. s = gic.active_priorities OBVIOUS
    <2> HIDE DEF s
    <2>2. QED BY <1>1, <2>1, StackFacts
  <1> HIDE DEF s, n
  <1>6. \A k \in 1..n - 1 : k \in 1..n /\ k # n BY <1>2
  <1>7. \A k \in 1..n - 1 : frames[k].intid # frames[n].intid BY <1>2, <1>4, <1>5, <1>6
  <1>8. QED BY <1>7 DEF n

(* The frame on top is replaced, the ones below keep their timers asserting. *)
LEMMA ReplaceTop ==
  ASSUME MachineInv, frames # <<>>, NEW r \in Frames,
         frames' = [frames EXCEPT ![Len(frames)] = r],
         r.pc # "iar", r.intid # SPURIOUS, r.pc \notin Interruptible => cpu'.masked,
         r.pc = "timer" => r.intid \in Timers,
         r.pc \in {"open", "timer"} /\ r.intid \in Timers => interrupt_pending(timer'[r.intid]),
         \A k \in 1..Len(frames) - 1 :
           frames[k].intid \in Timers /\ interrupt_pending(timer[frames[k].intid]) =>
             interrupt_pending(timer'[frames[k].intid])
  PROVE  /\ frames' \in Seq(Frames) /\ frames' # <<>> /\ Len(frames') = Len(frames)
         /\ frames'[Len(frames)] = r /\ TopPc' = r.pc
         /\ \A k \in 1..Len(frames) - 1 : frames'[k] = frames[k]
         /\ HandlersRun'
  <1> DEFINE n == Len(frames)
  <1>1. TypeInv /\ HandlersRun BY DEF MachineInv
  <1>2. n \in Nat /\ n \in 1..n /\ frames \in Seq(Frames) BY <1>1, FrameFacts DEF TypeInv
  <1>3. /\ frames' \in Seq(Frames) /\ Len(frames') = n
        /\ frames'[n] = r /\ \A k \in 1..n - 1 : frames'[k] = frames[k]
    BY <1>2
  <1>4. frames' # <<>> BY <1>2, <1>3, SeqEmpty, Zenon
  <1>5. TopPc' = r.pc BY <1>3, Zenon DEF TopPc
  <1> HIDE DEF n
  <1>6. \A k \in 1..n : k \in 1..n - 1 \/ k = n BY <1>2
  <1>7. \A k \in 1..n - 1 : frames'[k].pc \in Interruptible
    BY <1>1, <1>3, Zenon DEF HandlersRun, n
  <1>8. \A k \in 1..n : /\ frames'[k].intid = SPURIOUS => frames'[k].pc = "iar"
                        /\ frames'[k].pc = "timer" => frames'[k].intid \in Timers
                        /\ frames'[k].pc \in {"open", "timer"} /\ frames'[k].intid \in Timers =>
                             interrupt_pending(timer'[frames'[k].intid])
    <2>1. SUFFICES ASSUME NEW k \in 1..n
                   PROVE  /\ frames'[k].intid = SPURIOUS => frames'[k].pc = "iar"
                          /\ frames'[k].pc = "timer" => frames'[k].intid \in Timers
                          /\ frames'[k].pc \in {"open", "timer"} /\ frames'[k].intid \in Timers =>
                               interrupt_pending(timer'[frames'[k].intid])
      OBVIOUS
    <2>2. CASE k = n BY <1>3, <2>2
    <2>3. CASE k \in 1..n - 1
      <3>1. frames'[k] = frames[k] BY <1>3, <2>3
      <3>2. /\ frames[k].intid = SPURIOUS => frames[k].pc = "iar"
            /\ frames[k].pc = "timer" => frames[k].intid \in Timers
            /\ frames[k].pc \in {"open", "timer"} /\ frames[k].intid \in Timers =>
                 interrupt_pending(timer[frames[k].intid])
        BY <1>1 DEF HandlersRun, n
      <3>3. frames[k].intid \in Timers /\ interrupt_pending(timer[frames[k].intid]) =>
              interrupt_pending(timer'[frames[k].intid])
        BY <2>3 DEF n
      <3>4. QED BY <3>1, <3>2, <3>3
    <2>4. QED BY <1>6, <2>2, <2>3
  <1>9. HandlersRun' BY <1>3, <1>5, <1>7, <1>8 DEF HandlersRun
  <1>10. QED BY <1>3, <1>4, <1>5, <1>9, Zenon DEF n

(* A handler goes on with the interrupt it has. *)
LEMMA MoveTop ==
  ASSUME MachineInv, frames # <<>>, TopPc \notin {"iar", "eret"},
         NEW q \in HandlerPcs \ {"iar", "open", "eret"},
         frames' = [frames EXCEPT ![Len(frames)].pc = q],
         gic'.active_priorities = gic.active_priorities,
         q \notin Interruptible => cpu'.masked,
         q = "timer" => Serving \in Timers /\ interrupt_pending(timer'[Serving]),
         \A k \in 1..Len(frames) - 1 :
           frames[k].intid \in Timers /\ interrupt_pending(timer[frames[k].intid]) =>
             interrupt_pending(timer'[frames[k].intid])
  PROVE  /\ frames' \in Seq(Frames) /\ frames' # <<>> /\ TopPc' = q
         /\ HandlersServe' /\ HandlersRun'
  <1> DEFINE n == Len(frames)
             r == [frames[n] EXCEPT !.pc = q]
  <1>1. TypeInv /\ HandlersRun /\ HandlersServe BY DEF MachineInv
  <1>2. n \in Nat /\ n \in 1..n /\ frames[n] \in Frames /\ frames \in Seq(Frames)
    BY <1>1, FrameFacts DEF TypeInv
  <1>3. r \in Frames /\ r.pc = q /\ r.intid = frames[n].intid BY <1>2 DEF Frames
  <1>4. frames' = [frames EXCEPT ![n] = r] BY <1>2
  <1>5. Serving = r.intid BY <1>3 DEF Serving, Last
  <1> HIDE DEF r
  <1>6. r.intid # SPURIOUS BY <1>1, <1>2, <1>3 DEF HandlersRun, TopPc
  <1>7. /\ frames' \in Seq(Frames) /\ frames' # <<>> /\ Len(frames') = n
        /\ frames'[n] = r /\ TopPc' = r.pc
        /\ \A k \in 1..n - 1 : frames'[k] = frames[k]
        /\ HandlersRun'
    BY <1>3, <1>4, <1>5, <1>6, ReplaceTop, Zenon
  <1>8. Served = n BY DEF Served
  <1>9. Served' = n BY <1>3, <1>7, Zenon DEF Served
  <1> HIDE DEF n
  <1>10. \A k \in 1..n : frames'[k].intid = frames[k].intid
    <2>1. \A k \in 1..n : k \in 1..n - 1 \/ k = n BY <1>2
    <2>2. QED BY <1>3, <1>7, <2>1
  <1>11. HandlersServe' BY <1>1, <1>8, <1>9, <1>10 DEF HandlersServe
  <1>12. QED BY <1>3, <1>7, <1>11

(* What is left to show of each instruction of a handler. *)
HandlerDone ==
  /\ SetUp(gic') /\ Mirrored(gic', Levels(Ticked), uart') /\ Serves
  /\ timer' \in [Timers -> TimerRecords]
  /\ uart' \in [rx : Nat, imsc : SUBSET {"RX", "TX"}] /\ uart'.rx <= uart.rx
  /\ frames' \in Seq(Frames) /\ HandlersServe' /\ HandlersRun'
  /\ (frames # <<>>)' => TopPc' # "iar"
  /\ cpu' \in [wfi : BOOLEAN, wfe : BOOLEAN, masked : BOOLEAN] /\ ~cpu'.wfi /\ ~cpu'.wfe
  /\ guest' \in [pc : MainPcs, work : BOOLEAN, starts : Nat] /\ guest'.pc = "mask"

LEMMA HandlerRest ==
  ASSUME MachineInv, Tick, Continue, HandlerDone
  PROVE  MachineInv' /\ Serves
  <1>1. TypeInv BY DEF MachineInv
  <1>2. timer_levels' = Levels(Ticked) /\ keys' = keys /\ typed' = typed
    BY DEF Tick, console
  <1>3. Levels(Ticked) \in [Timers -> BOOLEAN] BY DEF Levels, interrupt_pending
  <1>4. batch' \in 0..BATCH - 1 /\ phase' \in {"poll", "enter", "run"}
    BY <1>1, BatchFacts DEF TypeInv
  <1>5. uart'.rx + keys' <= typed' /\ keys' \in Nat /\ typed' \in Nat /\ typed' <= MaxKeys
    <2>1. uart.rx \in Nat /\ keys \in Nat /\ typed \in Nat /\ uart.rx + keys <= typed
            /\ typed <= MaxKeys
      BY <1>1 DEF TypeInv
    <2>2. uart'.rx \in Nat /\ uart'.rx <= uart.rx BY DEF HandlerDone
    <2>3. QED BY <1>2, <2>1, <2>2
  <1>6. TypeInv' BY <1>2, <1>3, <1>4, <1>5 DEF HandlerDone, TypeInv
  <1>7. MainRuns' BY DEF HandlerDone, MainRuns
  <1>8. LineHolds' BY DEF HandlerDone, LineHolds
  <1>9. UartSeen' BY DEF HandlerDone, UartSeen
  <1>10. SetUp(gic)' /\ Mirrored(gic, timer_levels, uart)' BY <1>2 DEF HandlerDone
  <1>11. QED BY <1>6, <1>7, <1>8, <1>9, <1>10 DEF HandlerDone, MachineInv

(* An instruction that accesses no ICC register and moves the handler on. *)
LEMMA HandlerMoves ==
  ASSUME MachineInv, Awake, frames # <<>>, TopPc \notin {"iar", "eret"}, Accessed,
         NEW q \in HandlerPcs \ {"iar", "open", "eret"},
         frames' = [frames EXCEPT ![Len(frames)].pc = q],
         NEW m \in BOOLEAN, (Running /\ m = cpu.masked) \/ Masking(m),
         q \notin Interruptible => m,
         q = "timer" => Serving \in Timers /\ interrupt_pending(timer'[Serving]),
         \A k \in 1..Len(frames) - 1 :
           frames[k].intid \in Timers /\ interrupt_pending(timer[frames[k].intid]) =>
             interrupt_pending(timer'[frames[k].intid]),
         guest' = guest \/ guest' = [guest EXCEPT !.work = TRUE]
  PROVE  HandlerDone
  <1>1. TypeInv /\ MainRuns BY DEF MachineInv
  <1>2. cpu \in [wfi : BOOLEAN, wfe : BOOLEAN, masked : BOOLEAN] /\ ~cpu.wfe
    BY <1>1 DEF TypeInv, Awake
  <1>3. /\ cpu' \in [wfi : BOOLEAN, wfe : BOOLEAN, masked : BOOLEAN]
        /\ ~cpu'.wfi /\ ~cpu'.wfe /\ cpu'.masked = m
    BY <1>2, Zenon DEF Running, Masking
  <1>4. guest \in [pc : MainPcs, work : BOOLEAN, starts : Nat] /\ guest.pc = "mask"
    BY <1>1 DEF TypeInv, MainRuns
  <1>5. guest' \in [pc : MainPcs, work : BOOLEAN, starts : Nat] /\ guest'.pc = "mask"
    BY <1>4, Zenon
  <1>6. q \notin Interruptible => cpu'.masked BY <1>3
  <1>7. gic'.active_priorities = gic.active_priorities BY DEF Accessed
  <1>8. /\ frames' \in Seq(Frames) /\ frames' # <<>> /\ TopPc' = q
        /\ HandlersServe' /\ HandlersRun'
    BY <1>6, <1>7, MoveTop, Zenon
  <1>9. Serves BY DEF Accessed, Serves
  <1>10. QED BY <1>3, <1>5, <1>8, <1>9 DEF Accessed, HandlerDone

(* ICC_IAR: the handler gets the interrupt that raised the line. *)
LEMMA IarStep ==
  ASSUME MachineInv, Tick, Awake, frames # <<>>, TopPc = "iar", Running, Iar
  PROVE  HandlerDone
  <1> DEFINE g == TickedGic
             ts == Ticked
             n == Len(frames)
             i == g.highest_pending_intid
  <1>1. TypeInv /\ MainRuns /\ HandlersServe /\ HandlersRun BY DEF MachineInv
  <1>2. /\ ts \in [Timers -> TimerRecords]
        /\ \A t \in Timers : interrupt_pending(timer[t]) => interrupt_pending(ts[t])
        /\ SetUp(g) /\ Idles(gic, g) /\ SameServices(gic, g)
        /\ Mirrored(g, Levels(ts), uart) /\ g.irq_line
    BY TickFacts, Zenon
  <1>3. gic' = acknowledge(g) /\ timer' = ts /\ uart' = uart /\ guest' = guest
    BY DEF Iar, AccessGic
  <1>4. PICK q \in IF i = SPURIOUS THEN {"eret"} ELSE {"open", ServiceOf(i)} :
          frames' = [frames EXCEPT ![n] = [pc |-> q, intid |-> i]]
    BY Zenon DEF Iar
  <1>5. i = g.highest_pending_intid OBVIOUS
  <1> HIDE DEF g, ts, i
  <1>6. /\ SetUp(gic') /\ Starts(g, gic', i)
        /\ i \in Intids /\ g.int[i].pending
        /\ \E e \in Entries : e.intid = i /\ gic'.active_priorities = Append(g.active_priorities, e)
        /\ \A j \in Timers \cup {UART} : gic'.int[j].pending = g.int[j].pending
    <2>1. Stacked(g, gic', i) BY <1>2, <1>3, <1>5, IarStarts
    <2>2. QED BY <2>1 DEF Stacked
  <1>7. i # SPURIOUS BY <1>6, Numbers
  <1>8. q \in {"open", ServiceOf(i)} BY <1>4, <1>7
  <1>9. /\ q \in HandlerPcs \ {"iar", "eret"} /\ (q = "timer" => i \in Timers)
        /\ q \in Interruptible \cup {"open"}
    BY <1>8 DEF ServiceOf, HandlerPcs, Interruptible
  <1>10. i \in Timers => interrupt_pending(timer'[i])
    BY <1>2, <1>3, <1>6, Zenon DEF Mirrored, Levels
  <1> DEFINE r == [pc |-> q, intid |-> i]
  <1>11. r \in Frames /\ r.pc = q /\ r.intid = i BY <1>6, <1>9, Zenon DEF Frames
  <1> HIDE DEF r
  <1>12. frames' = [frames EXCEPT ![n] = r] BY <1>4 DEF r
  <1>13. cpu \in [wfi : BOOLEAN, wfe : BOOLEAN, masked : BOOLEAN] /\ ~cpu.wfe /\ cpu.masked
    BY <1>1, Zenon DEF TypeInv, Awake, HandlersRun, Interruptible
  <1>14. /\ cpu' \in [wfi : BOOLEAN, wfe : BOOLEAN, masked : BOOLEAN]
         /\ ~cpu'.wfi /\ ~cpu'.wfe /\ cpu'.masked
    BY <1>13, Zenon DEF Running
  <1>15. \A k \in 1..n - 1 :
           frames[k].intid \in Timers /\ interrupt_pending(timer[frames[k].intid]) =>
             interrupt_pending(timer'[frames[k].intid])
    BY <1>2, <1>3
  <1>16. /\ frames' \in Seq(Frames) /\ frames' # <<>> /\ Len(frames') = n
         /\ frames'[n] = r /\ TopPc' = r.pc
         /\ \A k \in 1..n - 1 : frames'[k] = frames[k]
         /\ HandlersRun'
    BY <1>7, <1>9, <1>10, <1>11, <1>12, <1>14, <1>15, ReplaceTop, Zenon
  <1>17. HandlersServe'
    <2>1. n \in Nat /\ n \in 1..n BY <1>1, FrameFacts
    <2>2. Served = n - 1 BY DEF Served
    <2>3. Served' = n BY <1>9, <1>11, <1>16 DEF Served
    <2>4. PICK e \in Entries : e.intid = i /\ gic'.active_priorities = Append(g.active_priorities, e)
      BY <1>6
    <2>5. g.active_priorities = gic.active_priorities BY <1>2 DEF SameServices
    <2>6. g.active_priorities \in Seq(Entries)
      BY <1>2, GicFields, Zenon DEF SetUp, Nested, Kept
    <2>7. Len(g.active_priorities) = n - 1 BY <1>1, <2>2, <2>5 DEF HandlersServe
    <2>8. /\ Len(gic'.active_priorities) = n
          /\ gic'.active_priorities[n] = e
          /\ \A k \in 1..n - 1 : gic'.active_priorities[k] = g.active_priorities[k]
      <3> DEFINE s == g.active_priorities
      <3>1. /\ Len(Append(s, e)) = Len(s) + 1 /\ Append(s, e)[Len(s) + 1] = e
            /\ \A k \in 1..Len(s) : Append(s, e)[k] = s[k]
        BY <2>6, SeqAppend
      <3>2. Len(s) + 1 = n BY <2>1, <2>7
      <3> HIDE DEF s
      <3>3. QED BY <2>4, <2>7, <3>1, <3>2, Zenon DEF s
    <2>9. \A k \in 1..n - 1 : gic.active_priorities[k].intid = frames[k].intid
      BY <1>1, <2>2 DEF HandlersServe
    <2>10. \A k \in 1..n : k \in 1..n - 1 \/ k = n BY <2>1
    <2> HIDE DEF n
    <2>11. \A k \in 1..n : gic'.active_priorities[k].intid = frames'[k].intid
      BY <1>11, <1>16, <2>4, <2>5, <2>8, <2>9, <2>10
    <2>12. QED BY <2>3, <2>8, <2>11 DEF HandlersServe
  <1>18. Serves
    <2>1. Starts(gic, gic', i) BY <1>2, <1>6, IdlesChain, Zenon
    <2>2. QED BY <1>6, <2>1 DEF Serves
  <1>19. Mirrored(gic', Levels(ts), uart') BY <1>2, <1>3, <1>6, Zenon DEF Mirrored
  <1>20. guest' \in [pc : MainPcs, work : BOOLEAN, starts : Nat] /\ guest'.pc = "mask"
    BY <1>1, <1>3 DEF TypeInv, MainRuns
  <1>21. uart' \in [rx : Nat, imsc : SUBSET {"RX", "TX"}] /\ uart'.rx <= uart.rx
    <2>1. uart \in [rx : Nat, imsc : SUBSET {"RX", "TX"}] BY <1>1 DEF TypeInv
    <2>2. uart.rx \in Nat BY <2>1
    <2>3. QED BY <1>3, <2>1, <2>2
  <1>22. TopPc' # "iar" BY <1>9, <1>11, <1>16
  <1>23. timer' \in [Timers -> TimerRecords] BY <1>2, <1>3
  <1>24. QED BY <1>6, <1>14, <1>16, <1>17, <1>18, <1>19, <1>20, <1>21, <1>22, <1>23, Zenon
         DEF HandlerDone, ts

(* ICC_EOIR ends the interrupt on top of the controller's stack. *)
LEMMA EoiStep ==
  ASSUME MachineInv, Tick, Awake, frames # <<>>, TopPc = "eoi", Running,
         AccessGic(end_of_interrupt(TickedGic, Serving)),
         frames' = [frames EXCEPT ![Len(frames)].pc = "eret"], guest' = guest
  PROVE  HandlerDone
  <1> DEFINE g == TickedGic
             ts == Ticked
             n == Len(frames)
             i == Serving
             r == [frames[n] EXCEPT !.pc = "eret"]
  <1>1. TypeInv /\ MainRuns /\ HandlersServe /\ HandlersRun BY DEF MachineInv
  <1>2. /\ ts \in [Timers -> TimerRecords]
        /\ \A t \in Timers : interrupt_pending(timer[t]) => interrupt_pending(ts[t])
        /\ SetUp(g) /\ Idles(gic, g) /\ SameServices(gic, g)
        /\ Mirrored(g, Levels(ts), uart)
    BY TickFacts
  <1>3. gic' = end_of_interrupt(g, i) /\ timer' = ts /\ uart' = uart
    BY DEF AccessGic
  <1> HIDE DEF g, ts
  <1>4. n \in Nat /\ n \in 1..n /\ frames[n] \in Frames /\ frames \in Seq(Frames)
    BY <1>1, FrameFacts DEF TypeInv
  <1>5. i = frames[n].intid BY DEF Serving, Last
  <1>6. Served = n BY DEF Served
  <1>7. g.active_priorities = gic.active_priorities BY <1>2 DEF SameServices
  <1>8. Len(g.active_priorities) = n /\ g.active_priorities # <<>>
    BY <1>1, <1>4, <1>6, <1>7, SeqEmpty DEF HandlersServe
  <1>9. \A k \in 1..n : g.active_priorities[k].intid = frames[k].intid
    BY <1>1, <1>6, <1>7 DEF HandlersServe
  <1>10. i = g.active_priorities[Len(g.active_priorities)].intid BY <1>4, <1>5, <1>8, <1>9
  <1> HIDE DEF i
  <1>11. /\ SetUp(gic') /\ Ends(g, gic', i) /\ i \in Intids
         /\ Len(gic'.active_priorities) = n - 1
         /\ \A k \in 1..n - 1 : gic'.active_priorities[k] = g.active_priorities[k]
         /\ \A j \in Timers \cup {UART} : gic'.int[j].pending = g.int[j].pending
    BY <1>2, <1>3, <1>8, <1>10, EoiEnds
  <1>12. r \in Frames /\ r.pc = "eret" /\ r.intid = frames[n].intid
    BY <1>4 DEF Frames, HandlerPcs
  <1>13. frames' = [frames EXCEPT ![n] = r] BY <1>4
  <1> HIDE DEF r
  <1>14. r.intid # SPURIOUS BY <1>5, <1>11, <1>12, Numbers
  <1>15. cpu \in [wfi : BOOLEAN, wfe : BOOLEAN, masked : BOOLEAN] /\ ~cpu.wfe /\ cpu.masked
    BY <1>1 DEF TypeInv, Awake, HandlersRun, Interruptible
  <1>16. /\ cpu' \in [wfi : BOOLEAN, wfe : BOOLEAN, masked : BOOLEAN]
         /\ ~cpu'.wfi /\ ~cpu'.wfe /\ cpu'.masked
    BY <1>15, Zenon DEF Running
  <1>17. \A k \in 1..n - 1 :
           frames[k].intid \in Timers /\ interrupt_pending(timer[frames[k].intid]) =>
             interrupt_pending(timer'[frames[k].intid])
    BY <1>2, <1>3
  <1>18. /\ frames' \in Seq(Frames) /\ frames' # <<>> /\ Len(frames') = n
         /\ frames'[n] = r /\ TopPc' = r.pc
         /\ \A k \in 1..n - 1 : frames'[k] = frames[k]
         /\ HandlersRun'
    BY <1>12, <1>13, <1>14, <1>16, <1>17, ReplaceTop, Zenon
  <1>19. HandlersServe'
    <2>1. Served' = n - 1 BY <1>12, <1>18 DEF Served
    <2>2. \A k \in 1..n - 1 : k \in 1..n BY <1>4
    <2> HIDE DEF n
    <2>3. \A k \in 1..n - 1 : gic'.active_priorities[k].intid = frames'[k].intid
      BY <1>9, <1>11, <1>18, <2>2
    <2>4. QED BY <1>11, <2>1, <2>3 DEF HandlersServe
  <1>20. Serves
    <2>1. Ends(gic, gic', i) BY <1>2, <1>11, IdlesChain, Zenon
    <2>2. QED BY <1>11, <2>1 DEF Serves
  <1>21. Mirrored(gic', Levels(ts), uart') BY <1>2, <1>3, <1>11 DEF Mirrored
  <1>22. guest' \in [pc : MainPcs, work : BOOLEAN, starts : Nat] /\ guest'.pc = "mask"
    BY <1>1 DEF TypeInv, MainRuns
  <1>23. uart' \in [rx : Nat, imsc : SUBSET {"RX", "TX"}] /\ uart'.rx <= uart.rx
    <2>1. uart \in [rx : Nat, imsc : SUBSET {"RX", "TX"}] BY <1>1 DEF TypeInv
    <2>2. uart.rx \in Nat BY <2>1
    <2>3. QED BY <1>3, <2>1, <2>2
  <1>24. TopPc' # "iar" BY <1>12, <1>18
  <1>25. timer' \in [Timers -> TimerRecords] BY <1>2, <1>3
  <1>26. QED BY <1>11, <1>16, <1>18, <1>19, <1>20, <1>21, <1>22, <1>23, <1>24, <1>25, Zenon
         DEF HandlerDone, ts

(* The return uncovers the handler below, which was interrupted unmasked. *)
LEMMA EretStep ==
  ASSUME MachineInv, Tick, Awake, frames # <<>>, TopPc = "eret", Masking(FALSE), NoAccess,
         guest' = guest, frames' = Front(frames)
  PROVE  HandlerDone
  <1> DEFINE n == Len(frames)
  <1>1. TypeInv /\ MainRuns /\ HandlersServe /\ HandlersRun BY DEF MachineInv
  <1>2. Accessed /\ timer' = Ticked BY NoAccessFacts
  <1>3. \A t \in Timers : interrupt_pending(timer[t]) => interrupt_pending(timer'[t])
    BY <1>2, TickFacts
  <1>4. n \in Nat /\ n \in 1..n /\ frames \in Seq(Frames)
          /\ \A k \in 1..n : frames[k] \in Frames
    BY <1>1, FrameFacts DEF TypeInv
  <1>5. /\ frames' \in Seq(Frames) /\ Len(frames') = n - 1
        /\ \A k \in 1..n - 1 : frames'[k] = frames[k]
    <2> DEFINE f == SubSeq(frames, 1, n - 1)
    <2>1. frames' = f BY DEF Front
    <2> HIDE DEF n
    <2>2. \A k \in 1..n - 1 : frames[k] \in Frames BY <1>4
    <2>3. /\ f \in Seq(Frames)
          /\ Len(f) = IF 1 <= n - 1 THEN n - 1 - 1 + 1 ELSE 0
          /\ \A k \in 1..n - 1 - 1 + 1 : f[k] = frames[1 + k - 1]
      BY <1>4, <2>2, SeqPart
    <2> HIDE DEF f
    <2>4. Len(f) = n - 1 BY <1>4, <2>3
    <2>5. \A k \in 1..n - 1 : k \in 1..n - 1 - 1 + 1 /\ 1 + k - 1 = k BY <1>4
    <2>6. \A k \in 1..n - 1 : f[k] = frames[k] BY <2>3, <2>5
    <2>7. QED BY <2>1, <2>3, <2>4, <2>6
  <1>6. Served = n - 1 BY DEF Served
  <1> HIDE DEF n
  <1>7. frames' # <<>> => n - 1 \in 1..n - 1 /\ TopPc' \in Interruptible
    <2>1. SUFFICES ASSUME frames' # <<>> PROVE n - 1 \in 1..n - 1 /\ TopPc' \in Interruptible
      OBVIOUS
    <2>2. n - 1 # 0 BY <1>5, <2>1, SeqEmpty
    <2>3. n - 1 \in 1..n - 1 BY <1>4, <2>2
    <2>4. frames'[n - 1] = frames[n - 1] /\ frames[n - 1].pc \in Interruptible
      BY <1>1, <1>5, <2>3 DEF HandlersRun, n
    <2>5. QED BY <1>5, <2>3, <2>4 DEF TopPc
  <1>8. Served' = n - 1 BY <1>5, <1>7 DEF Served, Interruptible
  <1>9. HandlersServe'
    <2>1. gic'.active_priorities = gic.active_priorities BY <1>2 DEF Accessed
    <2>2. QED BY <1>1, <1>5, <1>6, <1>8, <2>1 DEF HandlersServe
  <1>10. HandlersRun'
    <2>1. \A k \in 1..n - 1 : k \in 1..n BY <1>4
    <2>2. \A k \in 1..n - 1 :
            /\ frames[k].intid = SPURIOUS => frames[k].pc = "iar"
            /\ frames[k].pc = "timer" => frames[k].intid \in Timers
            /\ frames[k].pc \in {"open", "timer"} /\ frames[k].intid \in Timers =>
                 interrupt_pending(timer[frames[k].intid])
      BY <1>1, <2>1 DEF HandlersRun, n
    <2>3. \A k \in 1..Len(frames') :
            /\ frames'[k].intid = SPURIOUS => frames'[k].pc = "iar"
            /\ frames'[k].pc = "timer" => frames'[k].intid \in Timers
            /\ frames'[k].pc \in {"open", "timer"} /\ frames'[k].intid \in Timers =>
                 interrupt_pending(timer'[frames'[k].intid])
      BY <1>3, <1>5, <2>2
    <2>4. \A k \in 1..Len(frames') - 1 : k \in 1..n - 1 BY <1>4, <1>5
    <2>5. \A k \in 1..Len(frames') - 1 : frames'[k].pc \in Interruptible
      BY <1>1, <1>5, <2>4 DEF HandlersRun, n
    <2>6. QED BY <1>7, <2>3, <2>5 DEF HandlersRun
  <1>11. guest' \in [pc : MainPcs, work : BOOLEAN, starts : Nat] /\ guest'.pc = "mask"
    BY <1>1 DEF TypeInv, MainRuns
  <1>12. cpu \in [wfi : BOOLEAN, wfe : BOOLEAN, masked : BOOLEAN] /\ ~cpu.wfe
    BY <1>1 DEF TypeInv, Awake
  <1>13. cpu' \in [wfi : BOOLEAN, wfe : BOOLEAN, masked : BOOLEAN] /\ ~cpu'.wfi /\ ~cpu'.wfe
    BY <1>12, Zenon DEF Masking
  <1>14. (frames # <<>>)' => TopPc' # "iar" BY <1>7 DEF Interruptible
  <1>15. QED BY <1>2, <1>5, <1>9, <1>10, <1>11, <1>13, <1>14 DEF HandlerDone, Accessed, Serves

LEMMA HandlerStep ==
  ASSUME MachineInv, Tick, Awake, frames # <<>>, HandlerInstruction
  PROVE  MachineInv' /\ Serves
  <1> DEFINE n == Len(frames)
  <1>1. TypeInv /\ HandlersRun BY DEF MachineInv
  <1>2. Pc = TopPc BY DEF Pc, TopPc, Last
  <1>3. \A q : GoTo(q) => frames' = [frames EXCEPT ![n].pc = q] /\ guest' = guest BY DEF GoTo
  <1>4. SUFFICES HandlerDone BY HandlerRest DEF HandlerInstruction
  <1>5. /\ n \in Nat /\ n \in 1..n /\ frames[n] \in Frames
        /\ Serving = frames[n].intid /\ cpu.masked \in BOOLEAN
        /\ uart \in [rx : Nat, imsc : SUBSET {"RX", "TX"}]
    BY <1>1, FrameFacts DEF TypeInv, Serving, Last
  <1>6. \A t \in Timers : interrupt_pending(timer[t]) => interrupt_pending(Ticked[t])
    BY TickFacts
  <1>7. ASSUME timer' = Ticked
        PROVE  \A k \in 1..n - 1 :
                 frames[k].intid \in Timers /\ interrupt_pending(timer[frames[k].intid]) =>
                   interrupt_pending(timer'[frames[k].intid])
    BY <1>6, <1>7
  (* An access to the UART moves on to q, still unmasked or still masked. *)
  <1>8. ASSUME TopPc \in Interruptible, Running, NEW q \in {"mis", "dr", "txm", "close"},
               frames' = [frames EXCEPT ![n].pc = q],
               guest' = guest \/ guest' = [guest EXCEPT !.work = TRUE],
               NEW u \in [rx : Nat, imsc : SUBSET {"RX", "TX"}], u.rx <= uart.rx, AccessUart(u)
        PROVE  HandlerDone
    <2>1. Accessed /\ timer' = Ticked BY <1>8, UartAccessFacts
    <2>2. TopPc \notin {"iar", "eret"} BY <1>8 DEF Interruptible
    <2>3. q \in HandlerPcs \ {"iar", "open", "eret"} /\ q \in Interruptible /\ q # "timer"
      BY DEF HandlerPcs, Interruptible
    <2>4. QED BY <1>5, <1>7, <1>8, <2>1, <2>2, <2>3, HandlerMoves, Zenon
  <1>9. CASE Pc = "iar" /\ Running /\ Iar BY <1>2, <1>9, IarStep
  <1>10. CASE Pc = "open" /\ Masking(FALSE) /\ NoAccess /\ GoTo(ServiceOf(Serving))
    <2> DEFINE q == ServiceOf(Serving)
    <2>1. Accessed /\ timer' = Ticked BY <1>10, NoAccessFacts
    <2>2. /\ q \in HandlerPcs \ {"iar", "open", "eret"} /\ q \in Interruptible
          /\ (q = "timer" => Serving \in Timers)
      BY DEF ServiceOf, HandlerPcs, Interruptible
    <2>3. frames' = [frames EXCEPT ![n].pc = q] /\ guest' = guest BY <1>3, <1>10
    <2> HIDE DEF q
    <2>4. q = "timer" => interrupt_pending(timer'[Serving])
      <3>1. Serving \in Timers => interrupt_pending(timer[Serving])
        BY <1>1, <1>2, <1>5, <1>10, Zenon DEF HandlersRun, TopPc
      <3>2. QED BY <1>6, <2>1, <2>2, <3>1
    <2>5. FALSE \in BOOLEAN /\ Masking(FALSE) BY <1>10, Zenon
    <2>6. TopPc \notin {"iar", "eret"} BY <1>2, <1>10
    <2>7. PICK m \in BOOLEAN : m = FALSE BY Zenon
    <2>8. Masking(m) BY <2>5, <2>7, Zenon
    <2>9. QED BY <1>7, <2>1, <2>2, <2>3, <2>4, <2>6, <2>8, HandlerMoves, Zenon
  <1>11. CASE Pc = "mis" /\ Running /\ ReadMis
    <2> DEFINE mis == ris(uart) \cap uart.imsc
               q == IF "RX" \in mis THEN "dr" ELSE IF "TX" \in mis THEN "txm" ELSE "close"
    <2>1. AccessUart(uart) /\ GoTo(q) BY <1>11 DEF ReadMis
    <2>2. q \in {"mis", "dr", "txm", "close"} OBVIOUS
    <2>3. frames' = [frames EXCEPT ![n].pc = q] /\ guest' = guest BY <1>3, <2>1
    <2> HIDE DEF q
    <2>4. uart.rx <= uart.rx BY <1>5
    <2>5. TopPc \in Interruptible BY <1>2, <1>11 DEF Interruptible
    <2>6. QED BY <1>5, <1>8, <1>11, <2>1, <2>2, <2>3, <2>4, <2>5, Zenon
  <1>12. CASE /\ Pc = "dr" /\ Running
              /\ AccessUart([uart EXCEPT !.rx = Max({@ - 1, 0})])
              /\ guest' = [guest EXCEPT !.work = TRUE]
              /\ frames' = [frames EXCEPT ![Len(frames)].pc = "mis"]
    <2> DEFINE m == Max({uart.rx - 1, 0})
               u == [uart EXCEPT !.rx = m]
    <2>1. AccessUart(u) BY <1>12
    <2>2. m \in {uart.rx - 1, 0} /\ m >= 0
      <3>1. uart.rx - 1 \in Int /\ 0 \in Int BY <1>5
      <3>2. PICK a \in Int : a = uart.rx - 1 BY <3>1
      <3>3. PICK b \in Int : b = 0 OBVIOUS
      <3>4. Max({a, b}) \in {a, b} /\ Max({a, b}) >= b BY MaxOfTwo, Zenon
      <3>5. QED BY <3>2, <3>3, <3>4
    <2> HIDE DEF m
    <2>3. m \in Nat /\ m <= uart.rx BY <1>5, <2>2
    <2>4. u \in [rx : Nat, imsc : SUBSET {"RX", "TX"}] /\ u.rx <= uart.rx BY <1>5, <2>3
    <2> HIDE DEF u
    <2>5. TopPc \in Interruptible BY <1>2, <1>12 DEF Interruptible
    <2>6. PICK q \in {"mis", "dr", "txm", "close"} : q = "mis" OBVIOUS
    <2>7. frames' = [frames EXCEPT ![n].pc = q] BY <1>12, <2>6
    <2>8. QED BY <1>8, <1>12, <2>1, <2>4, <2>5, <2>7
  <1>13. CASE /\ Pc = "txm" /\ Running /\ AccessUart([uart EXCEPT !.imsc = @ \ {"TX"}])
              /\ GoTo("mis")
    <2> DEFINE u == [uart EXCEPT !.imsc = @ \ {"TX"}]
    <2>1. AccessUart(u) BY <1>13
    <2>2. u \in [rx : Nat, imsc : SUBSET {"RX", "TX"}] /\ u.rx <= uart.rx BY <1>5
    <2> HIDE DEF u
    <2>3. TopPc \in Interruptible BY <1>2, <1>13 DEF Interruptible
    <2>4. PICK q \in {"mis", "dr", "txm", "close"} : q = "mis" OBVIOUS
    <2>5. frames' = [frames EXCEPT ![n].pc = q] /\ guest' = guest BY <1>3, <1>13, <2>4
    <2>6. QED BY <1>8, <1>13, <2>1, <2>2, <2>3, <2>5, Zenon
  <1>14. CASE /\ Pc = "timer" /\ Running /\ GoTo("close")
              /\ AccessTimer(Serving, [Ticked[Serving] EXCEPT !.imask = TRUE])
    <2> DEFINE tm == [Ticked[Serving] EXCEPT !.imask = TRUE]
    <2>1. Serving \in Timers BY <1>1, <1>2, <1>5, <1>14, Zenon DEF HandlersRun, TopPc
    <2>2. Ticked \in [Timers -> TimerRecords] BY TickFacts, Zenon
    <2>3. Ticked[Serving] \in TimerRecords BY <2>1, <2>2
    <2>4. tm \in TimerRecords BY <2>3, Zenon DEF TimerRecords
    <2>5. AccessTimer(Serving, tm) BY <1>14
    <2> HIDE DEF tm
    <2>6. /\ Accessed
          /\ \A v \in Timers \ {Serving} :
               interrupt_pending(timer[v]) => interrupt_pending(timer'[v])
      BY <2>1, <2>4, <2>5, TimerAccessFacts
    <2>7. TopPc \notin {"iar", "eret"} BY <1>2, <1>14
    <2>8. \A k \in 1..n - 1 : frames[k].intid # Serving BY <1>5, <2>7, HandlersDiffer
    <2>9. \A k \in 1..n - 1 :
            frames[k].intid \in Timers /\ interrupt_pending(timer[frames[k].intid]) =>
              interrupt_pending(timer'[frames[k].intid])
      BY <2>6, <2>8
    <2>10. PICK q \in HandlerPcs \ {"iar", "open", "eret"} :
             q = "close" /\ q \in Interruptible /\ q # "timer"
      BY DEF HandlerPcs, Interruptible
    <2>11. frames' = [frames EXCEPT ![n].pc = q] /\ guest' = guest BY <1>3, <1>14, <2>10
    <2>12. QED BY <1>5, <1>14, <2>6, <2>7, <2>9, <2>10, <2>11, HandlerMoves, Zenon
  <1>15. CASE Pc = "close" /\ Masking(TRUE) /\ NoAccess /\ GoTo("eoi")
    <2>1. Accessed /\ timer' = Ticked BY <1>15, NoAccessFacts
    <2>2. TopPc \notin {"iar", "eret"} BY <1>2, <1>15
    <2>3. PICK q \in HandlerPcs \ {"iar", "open", "eret"} : q = "eoi" /\ q # "timer"
      BY DEF HandlerPcs
    <2>4. frames' = [frames EXCEPT ![n].pc = q] /\ guest' = guest BY <1>3, <1>15, <2>3
    <2>5. PICK m \in BOOLEAN : m = TRUE BY Zenon
    <2>6. Masking(m) /\ m BY <1>15, <2>5, Zenon
    <2>7. QED BY <1>7, <2>1, <2>2, <2>3, <2>4, <2>6, HandlerMoves, Zenon
  <1>16. CASE /\ Pc = "eoi" /\ Running /\ AccessGic(end_of_interrupt(TickedGic, Serving))
              /\ GoTo("eret")
    BY <1>2, <1>3, <1>16, EoiStep
  <1>17. CASE /\ Pc = "eret" /\ Masking(FALSE) /\ NoAccess /\ UNCHANGED guest
              /\ frames' = Front(frames)
    BY <1>2, <1>17, EretStep
  <1>18. QED BY <1>9, <1>10, <1>11, <1>12, <1>13, <1>14, <1>15, <1>16, <1>17, Zenon
         DEF HandlerInstruction

-----------------------------------------------------------------------------
LEMMA MachineStarts == Init => MachineInv
  <1> SUFFICES ASSUME Init PROVE MachineInv OBVIOUS
  <1>1. /\ gic = BootedGic /\ SetUp(gic) /\ gic.active_priorities = <<>>
        /\ \A i \in Intids : ~gic.int[i].pending
    BY BootIsSetUp, Zenon DEF Init
  <1>2. frames = <<>> /\ frames \in Seq(Frames) BY SeqEmpty DEF Init
  <1>3. TypeInv
    <2>1. 0 \in 0..BATCH - 1 /\ 0 <= MaxKeys BY ArmVirtAssumption
    <2>2. timer \in [Timers -> TimerRecords] BY DEF Init, TimerRecords
    <2>3. uart \in [rx : Nat, imsc : SUBSET {"RX", "TX"}] /\ uart.rx = 0 BY DEF Init
    <2>4. guest \in [pc : MainPcs, work : BOOLEAN, starts : Nat] BY DEF Init, MainPcs
    <2>5. cpu \in [wfi : BOOLEAN, wfe : BOOLEAN, masked : BOOLEAN] BY DEF Init
    <2>6. timer_levels \in [Timers -> BOOLEAN] BY DEF Init
    <2>7. keys = 0 /\ typed = 0 /\ phase = "poll" /\ batch = 0 BY DEF Init
    <2>8. uart.rx + keys <= typed BY <2>3, <2>7
    <2>9. QED BY <1>2, <2>1, <2>2, <2>3, <2>4, <2>5, <2>6, <2>7, <2>8 DEF TypeInv
  <1>4. Mirrored(gic, timer_levels, uart) BY <1>1, Devices, Zenon DEF Init, Mirrored
  <1>5. Len(frames) = 0 /\ Served = 0 /\ Len(gic.active_priorities) = 0
    BY <1>1, <1>2 DEF Served
  <1>6. HandlersServe /\ HandlersRun BY <1>2, <1>5 DEF HandlersServe, HandlersRun
  <1>7. MainRuns /\ LineHolds /\ UartSeen BY <1>2 DEF Init, MainRuns, LineHolds, UartSeen
  <1>8. QED BY <1>1, <1>3, <1>4, <1>6, <1>7 DEF MachineInv

LEMMA MachineSteps ==
  ASSUME MachineInv, [Next]_vars
  PROVE  MachineInv' /\ Serves
  <1>1. CASE UNCHANGED vars
    <2>1. UNCHANGED <<gic, uart, timer, timer_levels, cpu, frames, guest, phase, batch, keys, typed>>
      BY <1>1 DEF vars, devices, console
    <2>2. MachineInv'
      BY <2>1, Zenon
        DEF MachineInv, TypeInv, SetUp, Mirrored, HandlersServe, HandlersRun, MainRuns,
                  LineHolds, UartSeen, Served, TopPc
    <2>3. Serves BY <2>1 DEF Serves, Idles
    <2>4. QED BY <2>2, <2>3
  <1>2. CASE StepExecute
    <2>1. Tick /\ Awake BY <1>2 DEF StepExecute
    <2>2. CASE frames = <<>> BY <1>2, <2>1, <2>2, MainStep DEF StepExecute
    <2>3. CASE frames # <<>> BY <1>2, <2>1, <2>3, HandlerStep DEF StepExecute
    <2>4. QED BY <2>2, <2>3
  <1>3. QED BY <1>1, <1>2, TypeStep, PollStep, EnterStep, WfeStep, IdleStep, TakeIrqStep
        DEF Next, VmmStep

LEMMA MachineInvariant == Spec => []MachineInv
  <1>1. MachineInv /\ [Next]_vars => MachineInv' BY MachineSteps
  <1>2. QED BY <1>1, MachineStarts, PTL DEF Spec

(* The machine's components keep their types, the UART holds no more bytes *)
(* than the console can have typed, the CPU never waits in WFI and WFE at  *)
(* once, and every handler's interrupt is one of the controller's.         *)
THEOREM MachineIsTyped == Spec => []MachineOK
  <1>1. MachineInv => MachineOK
    <2> SUFFICES ASSUME MachineInv PROVE MachineOK OBVIOUS
    <2>1. TypeInv /\ MainRuns /\ gic \in Gics BY Zenon DEF MachineInv, SetUp, Nested, Kept
    <2>2. \A k \in 1..Len(frames) : frames[k] \in Frames BY <2>1, FrameFacts
    <2>3. \A k \in 1..Len(frames) :
            frames[k].pc \in HandlerPcs /\ frames[k].intid \in Intids \cup {SPURIOUS}
      BY <2>2 DEF Frames
    <2>4. uart \in [rx : 0..MaxKeys, imsc : SUBSET {"RX", "TX"}]
      <3>1. /\ uart \in [rx : Nat, imsc : SUBSET {"RX", "TX"}] /\ keys \in Nat /\ typed \in Nat
            /\ uart.rx + keys <= typed /\ typed <= MaxKeys /\ MaxKeys \in Nat
        BY <2>1, ArmVirtAssumption DEF TypeInv
      <3>2. uart.rx \in 0..MaxKeys BY <3>1
      <3>3. QED BY <3>1, <3>2
    <2>5. QED BY <2>1, <2>3, <2>4 DEF MachineOK, TypeInv, MainRuns
  <1>2. QED BY <1>1, MachineInvariant, PTL

(* In the whole machine too, the line the CPU tests before every           *)
(* instruction is up exactly when a signal is due, although the levels     *)
(* reach the controller from three places: the ticks, the UART's accesses  *)
(* and the beginning of a batch.                                           *)
THEOREM MachineLineIsCurrent == Spec => []IrqLineIsCurrent
  <1>1. MachineInv => IrqLineIsCurrent
    BY CurrentIsDue, Zenon DEF MachineInv, SetUp, Nested, Kept, IrqLineIsCurrent
  <1>2. QED BY <1>1, MachineInvariant, PTL

(* Whatever the devices, the console and the counter do between take_irq   *)
(* and the guest's read of ICC_IAR, the read returns an interrupt.         *)
THEOREM IrqFindsItsInterrupt == Spec => []NoSpuriousIrq
  <1>1. MachineInv => NoSpuriousIrq BY Zenon DEF MachineInv, HandlersRun, NoSpuriousIrq
  <1>2. QED BY <1>1, MachineInvariant, PTL

(* A timer's handler never runs without cause: its timer asserts its line  *)
(* until the handler masks it, however many handlers nest in between.      *)
THEOREM HandlersServeDueTimers == Spec => []ServesOnlyDueTimers
  <1>1. MachineInv => ServesOnlyDueTimers
    BY DEF MachineInv, HandlersRun, ServesOnlyDueTimers
  <1>2. QED BY <1>1, MachineInvariant, PTL

(* The machine's kernel keeps to nested service, so the controller's       *)
(* active interrupts are the stack of ServiceOrder: each ICC_IAR pushes an *)
(* interrupt that is not active yet, each ICC_EOIR pops the one on top,    *)
(* and no tick, device access, batch boundary or register write touches    *)
(* the stack.                                                              *)
THEOREM MachineImplementsStack == Spec => ServicesNest
  <1> DEFINE svc == <<Active(gic), StackOrder(gic.active_priorities)>>
  <1>1. Init => Service!Init BY BootIsSetUp, Zenon DEF Init, Service!Init, Over
  <1>2. MachineInv /\ [Next]_vars => [Service!Next]_svc
    <2> SUFFICES ASSUME MachineInv, [Next]_vars PROVE [Service!Next]_svc OBVIOUS
    <2>1. Serves BY MachineSteps
    <2>2. CASE Idles(gic, gic') BY <2>2 DEF Idles, Over
    <2>3. CASE \E i \in Intids : Starts(gic, gic', i)
      BY <2>3 DEF Starts, Over, Service!Next, Service!Begin
    <2>4. CASE \E i \in Intids : Ends(gic, gic', i)
      BY <2>4 DEF Ends, Over, Service!Next, Service!End
    <2>5. QED BY <2>1, <2>2, <2>3, <2>4 DEF Serves
  <1>3. QED BY <1>1, <1>2, MachineInvariant, PTL DEF Spec, ServicesNest, Service!Spec

(* An idle pass of step_system happens only while no device asserts an     *)
(* interrupt the guest lets through: what a device asserts is pending by   *)
(* then, nothing runs while the CPU waits, so the line would be up.        *)
THEOREM IdlesOnlyWithoutWork == Spec => IdlesOnlyWhenQuiet
  <1>1. MachineInv /\ StepIdle => \A i \in Asserted : ~Open(i)
    <2> SUFFICES ASSUME MachineInv, StepIdle, NEW i \in Asserted, Open(i) PROVE FALSE OBVIOUS
    <2> DEFINE g == TickedGic
               ts == Ticked
    <2>1. TypeInv /\ MainRuns /\ HandlersServe /\ UartSeen BY DEF MachineInv
    <2>2. /\ SetUp(g) /\ SameServices(gic, g) /\ SameGate(gic, g)
          /\ Mirrored(g, Levels(ts), uart) /\ g.int[UART].pending = gic.int[UART].pending
          /\ \A t \in Timers : interrupt_pending(timer[t]) => interrupt_pending(ts[t])
      BY TickFacts, Zenon
    <2>3. ~g.irq_line /\ cpu.wfi /\ phase = "run" BY DEF StepIdle
    <2> HIDE DEF g, ts
    <2>4. i \in Intids BY Devices DEF Asserted
    <2>5. g.int[i].pending
      <3>1. CASE i \in Timers
        <4>1. interrupt_pending(timer[i]) BY <3>1, Devices DEF Asserted
        <4>2. QED BY <2>2, <3>1, <4>1 DEF Mirrored, Levels
      <3>2. CASE i \notin Timers
        <4>1. i = UART /\ irq_pending(uart) BY <3>2 DEF Asserted
        <4>2. QED BY <2>1, <2>2, <2>3, <4>1, Zenon DEF UartSeen
      <3>3. QED BY <3>1, <3>2
    <2>6. i \in Candidates(g) BY <2>2, <2>4, <2>5, Zenon DEF Open, Candidates, SameGate
    <2>7. g.running_priority = IDLE
      <3>1. frames = <<>> BY <2>1, <2>3 DEF MainRuns
      <3>2. Len(gic.active_priorities) = 0 BY <2>1, <3>1 DEF HandlersServe, Served
      <3>3. gic.active_priorities = <<>>
        <4>1. gic.active_priorities \in Seq(Entries)
          BY GicFields, Zenon DEF MachineInv, SetUp, Nested, Kept
        <4>2. QED BY <3>2, <4>1, SeqEmpty
      <3>4. gic.running_priority = IDLE BY <3>3, Zenon DEF MachineInv, SetUp, Nested, Top
      <3>5. QED BY <2>2, <3>4, Zenon DEF SameServices
    <2>8. g.int[i].priority < g.running_priority
      <3>1. g \in Gics BY <2>2, Zenon DEF SetUp, Nested, Kept
      <3>2. g.priority_mask \in 0..255
        <4>1. g.priority_mask \in Priorities BY <3>1, GicFields
        <4>2. Priorities \subseteq 0..255 BY Numbers
        <4>3. QED BY <4>1, <4>2, Zenon
      <3>3. g.int[i].priority \in Nat BY <2>4, <3>1, PriorityRange
      <3>4. g.int[i].priority < g.priority_mask BY <2>6 DEF Candidates
      <3>5. QED BY <2>7, <3>2, <3>3, <3>4 DEF IDLE
    <2>9. SignalDue(g) BY <2>2, <2>6, <2>8, Zenon DEF SignalDue, SetUp
    <2>10. g.irq_line BY <2>2, <2>9, CurrentIsDue, Zenon DEF SetUp, Nested, Kept
    <2>11. QED BY <2>3, <2>10
  <1>2. QED BY <1>1, MachineInvariant, PTL DEF Spec, IdlesOnlyWhenQuiet

(* An idle pass jumps over no armed deadline that lay ahead, whichever     *)
(* timer is nearer (fast_forward_timers).                                  *)
THEOREM JumpsToTheNearest == Spec => NeverOversleeps
  <1>1. MachineInv /\ StepIdle =>
          \A t \in Timers : Armed(timer[t]) /\ Ticked[t].left > 0 => timer'[t].left >= 0
    <2> SUFFICES ASSUME MachineInv, StepIdle, NEW t \in Timers,
                        Armed(timer[t]), Ticked[t].left > 0
                 PROVE  timer'[t].left >= 0
      OBVIOUS
    <2> DEFINE ts == Ticked
               n == Jump(ts)
    <2>1. /\ ts \in [Timers -> TimerRecords]
          /\ ts[t].enable = timer[t].enable /\ ts[t].imask = timer[t].imask
      BY TickFacts, Zenon
    <2>2. timer' = Later(ts, n) /\ ts[t].left > 0 BY Zenon DEF StepIdle
    <2> HIDE DEF ts
    <2>3. Armed(ts[t]) BY <2>1 DEF Armed
    <2>4. n \in Nat /\ n <= ts[t].left BY <2>1, <2>2, <2>3, JumpFacts
    <2> HIDE DEF n
    <2>5. timer' \in [Timers -> TimerRecords] /\ timer'[t].left >= ts[t].left - n
      BY <2>1, <2>2, <2>4, TimePasses
    <2>6. timer'[t].left \in Int /\ ts[t].left \in Int BY <2>1, <2>5 DEF TimerRecords
    <2>7. QED BY <2>4, <2>5, <2>6
  <1>2. QED BY <1>1, MachineInvariant, PTL DEF Spec, NeverOversleeps
=============================================================================
