----------------------------- MODULE VmLoopProofs -----------------------------
(***************************************************************************)
(* Proofs about the x86-64 run loop, for every housekeeping stride, FIFO   *)
(* size, amount of console input and output, and number of restarts.       *)
(***************************************************************************)
EXTENDS VmLoop, UartProofs

AllPcs == MainPcs \cup TimerPcs \cup SerialPcs \cup LapicPcs \cup {"iret"}

-----------------------------------------------------------------------------
(* The inductive invariant of the vCPU.  Interrupts are on in two places of *)
(* the guest only: before CLI, and before HLT, where the STI shadow holds   *)
(* them off.  So a handler always returns to CLI, and nothing can leave     *)
(* work between the guest's check and its HLT.                              *)
Shadowed(v) ==
  /\ v \in Vcpus /\ v.ret = "cli"
  /\ v.iflag => v.pc \in {"cli", "hlt"}
  /\ v.pc = "thre" => v.tx < MaxTx
  /\ v.pc = "sti" => ~v.work
  /\ v.pc = "hlt" => v.interrupt_inhibit /\ ~v.work
  /\ v.halted => v.pc = "cli" /\ ~v.work

Awake == Shadowed(vcpu) /\ \A s \in disk : Shadowed(s.vcpu)

(* The inductive invariant of the PIC in this machine: at most one level is *)
(* in service, and its handler is running or its EOI is on the way.         *)
Levels == {0, 4}

Quiet(m) ==
  /\ m \in Pic!Chips /\ m.irr \subseteq Levels /\ m.isr \subseteq Levels
  /\ m.vector_offset = 32 /\ m.lowest_priority = 7
  /\ ~m.auto_eoi /\ ~m.special_mask_mode

Answered(m, v, e) ==
  /\ ~(0 \in m.isr /\ 4 \in m.isr)
  /\ 0 \in m.isr => v.pc \in TimerPcs \/ e = "out_eoi"
  /\ 4 \in m.isr => v.pc \in SerialPcs \/ e = "out_eoi"

Handled ==
  /\ Awake
  /\ phase # "exit" => exit = "none"
  /\ Quiet(master) /\ Answered(master, vcpu, exit)
  /\ \A s \in disk : Quiet(s.master) /\ Answered(s.master, s.vcpu, "none")

-----------------------------------------------------------------------------
(* The vCPU. *)

(* A handler keeps control until its EOI leaves as an exit. *)
Stays(v, w, e) ==
  /\ v.pc \in TimerPcs => w.pc \in TimerPcs \/ e = "out_eoi"
  /\ v.pc \in SerialPcs => w.pc \in SerialPcs \/ e = "out_eoi"

(* inject_interrupt, wherever it may be called, starts a handler that will *)
(* return to CLI.                                                          *)
LEMMA InjectionShadowed ==
  ASSUME NEW v, Shadowed(v), can_inject_interrupt(v), NEW vector
  PROVE  v.pc = "cli" /\ Shadowed(inject_interrupt(v, vector))
  <1>1. v.pc = "cli" BY DEF Shadowed, can_inject_interrupt, Vcpus
  <1>2. HandlerOf(vector) \in {"t_eoi", "s_iir", "l_eoi"} BY DEF HandlerOf
  <1>3. inject_interrupt(v, vector) \in Vcpus
    BY <1>1, <1>2, Zenon
      DEF Shadowed, Vcpus, inject_interrupt, MainPcs, TimerPcs, SerialPcs, LapicPcs
  <1>4. QED BY <1>1, <1>2, <1>3 DEF Shadowed, Vcpus, inject_interrupt

(* The housekeeping of run() moves no handler and respects the shadow. *)
LEMMA HousekeepingShadowed ==
  ASSUME NEW v, Shadowed(v)
  PROVE  /\ Shadowed(poll_periodic_housekeeping(v))
         /\ v.pc # "cli" => poll_periodic_housekeeping(v).pc = v.pc
  <1> DEFINE t == tick_lapic_timer(v)
             o == [t EXCEPT !.lapic = "off"]
  <1>1. Shadowed(t) /\ t.pc = v.pc BY DEF Shadowed, Vcpus, tick_lapic_timer
  <1>2. Shadowed(o) /\ o.pc = v.pc /\ (can_inject_interrupt(t) => can_inject_interrupt(o))
    BY <1>1 DEF Shadowed, Vcpus, can_inject_interrupt
  <1>3. can_inject_interrupt(o) => o.pc = "cli" /\ Shadowed(inject_interrupt(o, LapicVector))
    BY <1>2, InjectionShadowed, Zenon
  <1> HIDE DEF t, o
  <1>4. poll_periodic_housekeeping(v)
          = IF t.lapic = "pending" /\ can_inject_interrupt(t) THEN inject_interrupt(o, LapicVector) ELSE t
    BY DEF poll_periodic_housekeeping, t, o
  <1>5. QED BY <1>1, <1>2, <1>3, <1>4

(* An instruction: the idle loop and the handlers. *)
LEMMA StepShadowed ==
  ASSUME NEW v, Shadowed(v), ~v.halted, NEW out \in step(v)
  PROVE  Shadowed(out.vcpu) /\ Stays(v, out.vcpu, out.exit)
  <1> DEFINE w == [v EXCEPT !.interrupt_inhibit = FALSE]
  <1>1. /\ w \in Vcpus /\ w.pc = v.pc /\ w.ret = "cli" /\ w.iflag = v.iflag
        /\ w.work = v.work /\ ~w.halted
    BY Zenon DEF Shadowed, Vcpus
  <1>2. w.iflag => w.pc \in {"cli", "hlt"} BY <1>1 DEF Shadowed
  <1>3. w.pc \in {"sti", "hlt"} => ~w.work BY <1>1 DEF Shadowed
  <1>4. step(v) = IF w.pc \in MainPcs THEN GuestMain(w) ELSE GuestHandler(w)
    BY <1>1 DEF step
  <1>5. MaxTx \in Nat BY VmLoopAssumption
  <1> HIDE DEF w
  <1>6. CASE w.pc = "cli"
    <2>1. out = Retired([w EXCEPT !.iflag = FALSE], "check", "none")
      BY <1>4, <1>6 DEF GuestMain, MainPcs
    <2>2. QED BY <1>1, <1>6, <2>1, Zenon
      DEF Retired, Shadowed, Stays, Vcpus, MainPcs, TimerPcs, SerialPcs
  <1>7. CASE w.pc = "check" /\ w.work
    <2>1. out = Retired([w EXCEPT !.work = FALSE], "check", "none")
      BY <1>4, <1>7 DEF GuestMain, MainPcs
    <2>2. QED BY <1>1, <1>2, <1>7, <2>1, Zenon
      DEF Retired, Shadowed, Stays, Vcpus, MainPcs, TimerPcs, SerialPcs
  <1>8. CASE w.pc = "check" /\ ~w.work
    <2>1. \E pc \in {"sti", "thre", "arm"} :
             out = Retired(w, pc, "none") /\ (pc = "thre" => w.tx < MaxTx)
      BY <1>4, <1>8 DEF GuestMain, MainPcs
    <2>2. QED BY <1>1, <1>2, <1>8, <2>1
      DEF Retired, Shadowed, Stays, Vcpus, MainPcs, TimerPcs, SerialPcs
  <1>9. CASE w.pc = "sti"
    <2>1. out = Retired(Sti(w), "hlt", "none") BY <1>4, <1>9 DEF GuestMain, MainPcs
    <2>2. /\ Sti(w) \in Vcpus /\ Sti(w).interrupt_inhibit /\ ~Sti(w).halted
          /\ ~Sti(w).work /\ Sti(w).ret = "cli"
      BY <1>1, <1>2, <1>3, <1>9, Zenon DEF Sti, Vcpus
    <2>3. QED BY <1>1, <1>9, <2>1, <2>2
              DEF Retired, Shadowed, Stays, Vcpus, MainPcs, TimerPcs, SerialPcs
  <1>10. CASE w.pc = "hlt"
    <2>1. out = Retired([w EXCEPT !.halted = TRUE], "cli", "Hlt")
      BY <1>4, <1>10 DEF GuestMain, MainPcs
    <2>2. QED BY <1>1, <1>3, <1>10, <2>1, Zenon
      DEF Retired, Shadowed, Stays, Vcpus, MainPcs, TimerPcs, SerialPcs
  <1>11. CASE w.pc = "arm"
    <2>1. out = Retired([w EXCEPT !.lapic = "counting"], "check", "none")
      BY <1>4, <1>11 DEF GuestMain, MainPcs
    <2>2. QED BY <1>1, <1>2, <1>11, <2>1, Zenon
      DEF Retired, Shadowed, Stays, Vcpus, MainPcs, TimerPcs, SerialPcs
  <1>12. CASE w.pc = "thre"
    <2>1. out = Retired([w EXCEPT !.tx = @ + 1], "check", "out_thre")
      BY <1>4, <1>12 DEF GuestMain, MainPcs
    <2>2. w.tx + 1 \in 0..MaxTx BY <1>1, <1>5, <1>12 DEF Shadowed, Vcpus, w
    <2>3. QED BY <1>1, <1>2, <1>12, <2>1, <2>2, Zenon
              DEF Retired, Shadowed, Stays, Vcpus, MainPcs, TimerPcs, SerialPcs
  <1>13. CASE w.pc = "t_eoi"
    <2>1. out = Retired(w, "iret", "out_eoi")
      BY <1>4, <1>13 DEF GuestHandler, MainPcs
    <2>2. QED BY <1>1, <1>2, <1>13, <2>1
              DEF Retired, Shadowed, Stays, Vcpus, MainPcs, TimerPcs, SerialPcs, LapicPcs
  <1>14. CASE w.pc = "s_iir"
    <2>1. out = In(w, "s_dispatch", "in_iir")
      BY <1>4, <1>14 DEF GuestHandler, MainPcs
    <2>2. QED BY <1>1, <1>2, <1>14, <2>1, Zenon
              DEF Retired, In, Shadowed, Stays, Vcpus, MainPcs, TimerPcs, SerialPcs, LapicPcs
  <1>15. CASE w.pc = "s_dispatch"
    <2>1. \E pc \in {"s_rbr", "s_ier", "s_eoi"} : out = Retired(w, pc, "none")
      BY <1>4, <1>15 DEF GuestHandler, MainPcs
    <2>2. QED BY <1>1, <1>2, <1>15, <2>1
              DEF Retired, Shadowed, Stays, Vcpus, MainPcs, TimerPcs, SerialPcs, LapicPcs
  <1>16. CASE w.pc = "s_rbr"
    <2>1. out = In(w, "s_store", "in_rbr")
      BY <1>4, <1>16 DEF GuestHandler, MainPcs
    <2>2. QED BY <1>1, <1>2, <1>16, <2>1, Zenon
              DEF Retired, In, Shadowed, Stays, Vcpus, MainPcs, TimerPcs, SerialPcs, LapicPcs
  <1>17. CASE w.pc = "s_store"
    <2>1. out = Retired([w EXCEPT !.work = TRUE], "s_iir", "none")
      BY <1>4, <1>17 DEF GuestHandler, MainPcs
    <2>2. QED BY <1>1, <1>2, <1>17, <2>1, Zenon
              DEF Retired, Shadowed, Stays, Vcpus, MainPcs, TimerPcs, SerialPcs, LapicPcs
  <1>18. CASE w.pc = "s_ier"
    <2>1. out = Retired(w, "s_iir", "out_ier")
      BY <1>4, <1>18 DEF GuestHandler, MainPcs
    <2>2. QED BY <1>1, <1>2, <1>18, <2>1
              DEF Retired, Shadowed, Stays, Vcpus, MainPcs, TimerPcs, SerialPcs, LapicPcs
  <1>19. CASE w.pc = "s_eoi"
    <2>1. out = Retired(w, "iret", "out_eoi")
      BY <1>4, <1>19 DEF GuestHandler, MainPcs
    <2>2. QED BY <1>1, <1>2, <1>19, <2>1
              DEF Retired, Shadowed, Stays, Vcpus, MainPcs, TimerPcs, SerialPcs, LapicPcs
  <1>20. CASE w.pc = "l_eoi"
    <2>1. out = Retired(w, "iret", "none")
      BY <1>4, <1>20 DEF GuestHandler, MainPcs
    <2>2. QED BY <1>1, <1>2, <1>20, <2>1
              DEF Retired, Shadowed, Stays, Vcpus, MainPcs, TimerPcs, SerialPcs, LapicPcs
  <1>21. CASE w.pc = "iret"
    <2>1. out = Retired([w EXCEPT !.iflag = TRUE], "cli", "none")
      BY <1>1, <1>4, <1>21 DEF GuestHandler, MainPcs
    <2>2. QED BY <1>1, <1>2, <1>21, <2>1, Zenon
              DEF Retired, Shadowed, Stays, Vcpus, MainPcs, TimerPcs, SerialPcs, LapicPcs
  <1>22. w.pc \in AllPcs BY <1>1 DEF Vcpus, AllPcs
  <1>23. QED
    BY <1>6, <1>7, <1>8, <1>9, <1>10, <1>11, <1>12, <1>13, <1>14, <1>15, <1>16, <1>17, <1>18,
       <1>19, <1>20, <1>21, <1>22
    DEF AllPcs, MainPcs, TimerPcs, SerialPcs, LapicPcs

-----------------------------------------------------------------------------
(* The data an IN receives. *)
LEMMA IoInShadowed ==
  ASSUME NEW v, Shadowed(v), NEW data \in InterruptIds \cup {"byte"}
  PROVE  Shadowed(complete_io_in(v, data)) /\ complete_io_in(v, data).pc = v.pc
  <1>1. PICK w : w = complete_io_in(v, data) BY Zenon
  <1>2. v \in Vcpus BY DEF Shadowed
  <1>3. w = [[v EXCEPT !.al = data] EXCEPT !.io_pending = FALSE] BY <1>1, Zenon DEF complete_io_in
  <1>4. w \in Vcpus BY <1>2, <1>3, Zenon DEF Vcpus
  <1>5. /\ w.pc = v.pc /\ w.ret = v.ret /\ w.iflag = v.iflag /\ w.tx = v.tx /\ w.work = v.work
        /\ w.interrupt_inhibit = v.interrupt_inhibit /\ w.halted = v.halted
    BY <1>2, <1>3 DEF Vcpus
  <1>6. Shadowed(w) BY <1>4, <1>5 DEF Shadowed
  <1>7. QED BY <1>1, <1>5, <1>6

LEMMA IdIsId == \A u : get_pending_interrupt(u) \in InterruptIds
  BY DEF get_pending_interrupt, InterruptIds

(* A checkpoint holds the vCPU as it is. *)
LEMMA FilesShadowed ==
  ASSUME Shadowed(vcpu), NEW kind, SaveTo(kind)
  PROVE  \A s \in disk' : Shadowed(s.vcpu)
  BY DEF SaveTo, take_snapshot

(* An iteration of run(): the state it leaves, and what becomes of a *)
(* handler that was running.                                         *)
LEMMA RunShadowed ==
  ASSUME Shadowed(vcpu), exit = "none", phase = "run", RunIteration
  PROVE  /\ Shadowed(vcpu') /\ Stays(vcpu, vcpu', exit')
         /\ phase' # "exit" => exit' = "none"
  <1> DEFINE v == IF batch' = 0 THEN poll_periodic_housekeeping(vcpu) ELSE vcpu
  <1>1. Shadowed(v) /\ (vcpu.pc # "cli" => v.pc = vcpu.pc) BY HousekeepingShadowed
  <1>2. \/ Returns(v, "Hlt")
        \/ v.halted /\ HaltedIteration(v)
        \/ ~v.halted /\ StepIteration(v)
    BY DEF RunIteration
  <1> HIDE DEF v
  <1>3. CASE vcpu' = v /\ (phase' # "exit" => exit' = "none")
    BY <1>1, <1>3 DEF Stays, TimerPcs, SerialPcs
  <1>4. CASE Returns(v, "Hlt") BY <1>3, <1>4 DEF Returns
  <1>5. CASE v.halted /\ HaltedIteration(v) BY <1>3, <1>5 DEF HaltedIteration, Returns, Continues
  <1>6. CASE ~v.halted /\ StepIteration(v)
    <2>1. PICK out \in step(v) :
            IF out.exit = "none" THEN Continues(out.vcpu) ELSE Returns(out.vcpu, out.exit)
      BY <1>6 DEF StepIteration
    <2>2. Shadowed(out.vcpu) /\ Stays(v, out.vcpu, out.exit) BY <1>1, <1>6, <2>1, StepShadowed
    <2>3. vcpu' = out.vcpu /\ exit' = out.exit /\ (phase' # "exit" => exit' = "none")
      BY <2>1 DEF Continues, Returns
    <2>4. QED BY <1>1, <2>2, <2>3 DEF Stays, TimerPcs, SerialPcs
  <1>7. QED BY <1>2, <1>4, <1>5, <1>6

(* Every step keeps the vCPU's invariant, in the machine and in the file. *)
LEMMA AwakeKept ==
  ASSUME Awake, phase # "exit" => exit = "none", [Next]_vars
  PROVE  Awake' /\ (phase' # "exit" => exit' = "none")
  <1> DEFINE Same == disk' = disk /\ (phase' # "exit" => exit' = "none")
  <1>1. Shadowed(vcpu) BY DEF Awake
  <1>2. ASSUME Same, Shadowed(vcpu') PROVE Awake' /\ (phase' # "exit" => exit' = "none")
    BY <1>2 DEF Awake
  <1>3. CASE Poll
    <2>1. vcpu' = vcpu /\ phase' = "inject" /\ exit' = exit /\ phase = "poll"
      BY <1>3 DEF Poll, guest
    <2>2. \A s \in disk' : Shadowed(s.vcpu) BY <1>1, <1>3, FilesShadowed DEF Poll
    <2>3. QED BY <1>1, <2>1, <2>2 DEF Awake
  <1>4. CASE Inject
    <2>1. Same BY <1>4 DEF Inject, files
    <2>2. \/ vcpu' = vcpu
          \/ can_inject_interrupt(vcpu) /\ vcpu' = inject_interrupt(vcpu, Pic!PendingVector)
      BY <1>4 DEF Inject
    <2>3. Shadowed(vcpu') BY <1>1, <2>2, InjectionShadowed
    <2>4. QED BY <1>2, <2>1, <2>3
  <1>5. CASE PitTick
    <2>1. Same /\ vcpu' = vcpu BY <1>5 DEF PitTick, files, guest
    <2>2. QED BY <1>1, <1>2, <2>1
  <1>6. CASE RunIteration
    <2>1. disk' = disk /\ phase = "run" BY <1>6 DEF RunIteration, files
    <2>2. QED BY <1>1, <1>2, <1>6, <2>1, RunShadowed
  <1>7. CASE HandleExit
    <2>1. exit' = "none" BY <1>7 DEF HandleExit
    <2>2. \/ vcpu' = vcpu
          \/ \E data \in InterruptIds \cup {"byte"} : vcpu' = complete_io_in(vcpu, data)
      BY <1>7, IdIsId DEF HandleExit, SerialOut
    <2>3. Shadowed(vcpu') BY <1>1, <2>2, IoInShadowed
    <2>4. \A s \in disk' : Shadowed(s.vcpu) BY <1>1, <1>7, FilesShadowed DEF HandleExit
    <2>5. QED BY <2>1, <2>3, <2>4 DEF Awake
  <1>8. CASE Type
    <2>1. Same /\ vcpu' = vcpu BY <1>8 DEF Type, files, guest
    <2>2. QED BY <1>1, <1>2, <2>1
  <1>9. CASE TimePasses
    <2>1. Same /\ vcpu' = [vcpu EXCEPT !.lapic = "due"] BY <1>9 DEF TimePasses, files
    <2>2. Shadowed(vcpu') BY <1>1, <2>1 DEF Shadowed, Vcpus
    <2>3. QED BY <1>2, <2>1, <2>2
  <1>10. CASE Restart
    <2>1. Same BY <1>10 DEF Restart
    <2>2. PICK s \in disk : vcpu' = RestoredVcpu(s.vcpu) BY <1>10 DEF Restart
    <2>3. Shadowed(s.vcpu) BY <2>2 DEF Awake
    <2>4. Shadowed(vcpu') BY <2>2, <2>3, Zenon DEF Shadowed, Vcpus, RestoredVcpu
    <2>5. QED BY <1>2, <2>1, <2>4
  <1>11. CASE UNCHANGED vars
    <2>1. Same /\ vcpu' = vcpu BY <1>11 DEF vars, files, guest
    <2>2. QED BY <1>1, <1>2, <2>1
  <1>12. QED BY <1>3, <1>4, <1>5, <1>6, <1>7, <1>8, <1>9, <1>10, <1>11 DEF Next, VmmStep

LEMMA AwakeAtFirst == ASSUME Init PROVE Awake /\ exit = "none"
  <1>1. MaxTx \in Nat BY VmLoopAssumption
  <1>2. vcpu \in Vcpus
    BY <1>1 DEF Init, Vcpus, InterruptIds, MainPcs, TimerPcs, SerialPcs, LapicPcs
  <1>3. QED BY <1>2 DEF Init, Awake, Shadowed

(* The idle sequence STI; HLT loses no wake-up (can_inject_interrupt, the   *)
(* STI shadow, set_emulator_state), for every stride of the housekeeping    *)
(* and with checkpoints of both kinds and restarts from them at any time.   *)
THEOREM NeverSleeps == Spec => []NeverSleepsOnWork
  <1> DEFINE Inv == Awake /\ (phase # "exit" => exit = "none")
  <1>1. Init => Inv BY AwakeAtFirst
  <1>2. Inv /\ [Next]_vars => Inv' BY AwakeKept
  <1>3. Inv => NeverSleepsOnWork BY DEF Awake, Shadowed, NeverSleepsOnWork
  <1>4. QED BY <1>1, <1>2, <1>3, PTL DEF Spec

-----------------------------------------------------------------------------
(* The PIC: a device line leaves the in-service register alone. *)
LEMMA LineKeepsQuiet ==
  ASSUME NEW m, Quiet(m), NEW irq \in Levels, NEW level \in BOOLEAN
  PROVE  Quiet(Pic!set_irq(m, irq, level)) /\ Pic!set_irq(m, irq, level).isr = m.isr
  <1>1. m \in Pic!Chips /\ irq \in Pic!Lines BY DEF Quiet, Levels, Pic!Lines
  <1>2. PICK lines \in SUBSET Pic!Lines : Pic!WithLine(m, irq, level) = [m EXCEPT !.irq_lines = lines]
    BY <1>1, Zenon DEF Pic!Chips, Pic!WithLine
  <1>3. PICK irr \in {m.irr, m.irr \cup {irq}, m.irr \ {irq}} :
          Pic!set_irq(m, irq, level) = [[m EXCEPT !.irq_lines = lines] EXCEPT !.irr = irr]
    BY <1>1, <1>2, Zenon DEF Pic!Chips, Pic!set_irq
  <1>4. irr \subseteq Levels /\ irr \subseteq Pic!Lines BY <1>1, <1>3 DEF Quiet, Pic!Chips
  <1>5. QED BY <1>1, <1>3, <1>4, Zenon DEF Quiet, Pic!Chips

LEMMA UnwiredKeepsQuiet ==
  ASSUME NEW m, Quiet(m)
  PROVE  Quiet(Unwired(m)) /\ Unwired(m).isr = m.isr
  BY DEF Quiet, Pic!Chips, Unwired

(* The non-specific EOI command, 0x20. *)
LEMMA EoiCommand == ASSUME NEW m PROVE Pic!write_command(m, 32) = Pic!non_specific_eoi(m)
  <1>1. ~Pic!Bit(32, 4) /\ ~Pic!Bit(32, 3) BY DEF Pic!Bit
  <1>2. Pic!Ocw2Op(32) = 1 BY DEF Pic!Ocw2Op
  <1>3. Pic!Ocw2(m, 32) = Pic!non_specific_eoi(m) BY <1>2 DEF Pic!Ocw2
  <1>4. QED BY <1>1, <1>3 DEF Pic!write_command

(* EOI, when at most one level is in service. *)
LEMMA EoiEndsService ==
  ASSUME NEW m, Quiet(m), ~(0 \in m.isr /\ 4 \in m.isr)
  PROVE  Quiet(Pic!non_specific_eoi(m)) /\ Pic!non_specific_eoi(m).isr = {}
  <1>1. Pic!BlockingIsr(m) = m.isr BY DEF Quiet, Pic!BlockingIsr
  <1>2. CASE m.isr = {} BY <1>1, <1>2 DEF Pic!non_specific_eoi
  <1>3. CASE m.isr # {}
    <2>1. PICK k \in Levels : m.isr = {k} BY <1>3 DEF Quiet, Levels
    <2>2. Pic!priority_rank(m, k) \in Int BY <2>1 DEF Levels, Quiet, Pic!priority_rank
    <2>3. Pic!TopOf(m, {k}) = k BY <2>2 DEF Pic!TopOf
    <2>4. Pic!non_specific_eoi(m) = [m EXCEPT !.isr = {}]
      BY <1>1, <2>1, <2>3 DEF Pic!non_specific_eoi, Quiet, Pic!Chips
    <2>5. QED BY <2>4 DEF Quiet, Pic!Chips
  <1>4. QED BY <1>2, <1>3

LEMMA EoiQuiet ==
  ASSUME NEW m, Quiet(m)
  PROVE  Quiet(Pic!non_specific_eoi(m))
  <1>1. CASE Pic!BlockingIsr(m) = {} BY <1>1 DEF Pic!non_specific_eoi
  <1>2. CASE Pic!BlockingIsr(m) # {}
    <2>1. PICK isr : isr = m.isr \ {Pic!TopOf(m, Pic!BlockingIsr(m))} BY Zenon
    <2>2. Pic!non_specific_eoi(m) = [m EXCEPT !.isr = isr]
      BY <1>2, <2>1, Zenon DEF Pic!non_specific_eoi
    <2>3. isr \subseteq Levels /\ isr \in SUBSET Pic!Lines BY <2>1 DEF Quiet, Pic!Chips
    <2>4. QED BY <2>2, <2>3, Zenon DEF Quiet, Pic!Chips
  <1>3. QED BY <1>1, <1>2

LEMMA AckKeepsQuiet ==
  ASSUME NEW m, Quiet(m), NEW irq \in Levels
  PROVE  Quiet(Pic!ack_irq(m, irq)) /\ Pic!ack_irq(m, irq).isr = m.isr \cup {irq}
  <1>1. PICK irr : irr = m.irr \ {irq} BY Zenon
  <1>2. PICK isr : isr = m.isr \cup {irq} BY Zenon
  <1>3. Pic!ack_irq(m, irq) = [[m EXCEPT !.irr = irr] EXCEPT !.isr = isr]
    BY <1>1, <1>2, Zenon DEF Pic!ack_irq, Quiet, Pic!Chips
  <1>4. irr \subseteq Levels /\ irr \in SUBSET Pic!Lines BY <1>1 DEF Quiet, Pic!Chips
  <1>5. isr \subseteq Levels /\ isr \in SUBSET Pic!Lines
    BY <1>2 DEF Quiet, Pic!Chips, Levels, Pic!Lines
  <1>6. Quiet(Pic!ack_irq(m, irq)) /\ Pic!ack_irq(m, irq).isr = isr
    BY <1>3, <1>4, <1>5, Zenon DEF Quiet, Pic!Chips
  <1>7. QED BY <1>2, <1>6

(* The line an acknowledge is for, and that it leaves the slave alone. *)
LEMMA HighestIsLevel ==
  ASSUME Quiet(master), Pic!get_pending_vector
  PROVE  /\ Pic!highest_pending(master) \in Levels
         /\ master' = Pic!ack_irq(master, Pic!highest_pending(master)) /\ slave' = slave
  <1> DEFINE S == Pic!Deliverable(master)
             irq == Pic!highest_pending(master)
  <1>1. S \subseteq Levels /\ S # {}
    BY DEF Pic!get_pending_vector, Pic!has_pending, Pic!Deliverable, Quiet
  <1>2. Pic!priority_rank(master, 0) = 0 /\ Pic!priority_rank(master, 4) = 4
    BY DEF Pic!priority_rank, Quiet
  <1>3. \E i \in S : \A j \in S : Pic!priority_rank(master, i) <= Pic!priority_rank(master, j)
    BY <1>1, <1>2 DEF Levels
  <1>4. irq \in Levels BY <1>1, <1>3 DEF Pic!highest_pending, Pic!TopOf
  <1>5. ~Pic!ThroughCascade(irq) BY <1>4 DEF Pic!ThroughCascade, Pic!Cascade, Levels
  <1>6. master' = Pic!ack_irq(master, irq) BY DEF Pic!get_pending_vector
  <1>7. slave' = slave BY <1>5 DEF Pic!get_pending_vector
  <1>8. QED BY <1>4, <1>6, <1>7

(* An acknowledge while nothing is in service starts the service whose *)
(* handler its vector selects.                                         *)
LEMMA AcknowledgeStartsService ==
  ASSUME Quiet(master), master.isr = {}, Pic!get_pending_vector
  PROVE  /\ Quiet(master')
         /\ \/ master'.isr = {0} /\ HandlerOf(Pic!PendingVector) = "t_eoi"
            \/ master'.isr = {4} /\ HandlerOf(Pic!PendingVector) = "s_iir"
  <1> DEFINE irq == Pic!highest_pending(master)
  <1>1. irq \in Levels /\ master' = Pic!ack_irq(master, irq) BY HighestIsLevel
  <1>2. ~Pic!ThroughCascade(irq) BY <1>1 DEF Pic!ThroughCascade, Pic!Cascade, Levels
  <1>3. Pic!PendingVector = (32 + irq) % 256
    BY <1>2 DEF Pic!PendingVector, Pic!VectorOf, Quiet
  <1> HIDE DEF irq
  <1>4. Quiet(master') /\ master'.isr = {irq} BY <1>1, AckKeepsQuiet
  <1>5. irq = 0 => Pic!PendingVector = 32 BY <1>3
  <1>6. irq = 4 => Pic!PendingVector = 36 BY <1>3
  <1>7. QED BY <1>1, <1>4, <1>5, <1>6 DEF Levels, HandlerOf

(* The master chip of a booted machine has nothing in service. *)
LEMMA NewChipQuiet ==
  ASSUME NEW m, m = [Pic!NewChip(32) EXCEPT !.imr = 0..7 \ {0, 4}]
  PROVE  Quiet(m) /\ m.isr = {}
  <1>1. /\ Pic!NewChip(32) \in Pic!Chips
        /\ Pic!NewChip(32).irr = {} /\ Pic!NewChip(32).isr = {}
        /\ Pic!NewChip(32).vector_offset = 32 /\ Pic!NewChip(32).lowest_priority = 7
        /\ ~Pic!NewChip(32).auto_eoi /\ ~Pic!NewChip(32).special_mask_mode
    BY DEF Pic!NewChip, Pic!Chips, Pic!Lines, Pic!Bytes, Pic!InitStates
  <1>2. PICK c \in Pic!Chips :
          /\ c = Pic!NewChip(32) /\ c.irr = {} /\ c.isr = {} /\ c.vector_offset = 32
          /\ c.lowest_priority = 7 /\ ~c.auto_eoi /\ ~c.special_mask_mode
    BY <1>1
  <1>3. PICK mask \in SUBSET Pic!Lines : m = [c EXCEPT !.imr = mask]
    BY <1>2 DEF Pic!Lines
  <1>4. QED BY <1>2, <1>3 DEF Quiet, Pic!Chips

(* The UART's and the PIT's lines. *)
LEMMA SerialLine ==
  ASSUME Quiet(master), NEW u, drive_legacy_serial_irq(u)
  PROVE  Quiet(master') /\ master'.isr = master.isr
  <1>1. has_pending_interrupt(u) \in BOOLEAN BY DEF has_pending_interrupt
  <1>2. master' = Pic!set_irq(master, 4, has_pending_interrupt(u))
    BY DEF drive_legacy_serial_irq, Pic!SetIrq
  <1>3. QED BY <1>1, <1>2, LineKeepsQuiet DEF Levels

LEMMA TimerPulse ==
  ASSUME Quiet(master), Pic!PulseIrq(0)
  PROVE  Quiet(master') /\ master'.isr = master.isr
  <1>1. master' = Pic!set_irq(Pic!set_irq(master, 0, TRUE), 0, FALSE) BY DEF Pic!PulseIrq
  <1>2. /\ Quiet(Pic!set_irq(master, 0, TRUE))
        /\ Pic!set_irq(master, 0, TRUE).isr = master.isr
    BY LineKeepsQuiet, Zenon DEF Levels
  <1>3. QED BY <1>1, <1>2, LineKeepsQuiet, Zenon DEF Levels

-----------------------------------------------------------------------------
(* Every step keeps the level in service and its handler together, unless a *)
(* checkpoint is written between an exit and its handling.                  *)
Files == \A s \in disk : Quiet(s.master) /\ Answered(s.master, s.vcpu, "none")

LEMMA HandledKept ==
  ASSUME Handled, "periodic" \notin Checkpoints, [Next]_vars
  PROVE  Handled'
  <1>1. Awake' /\ (phase' # "exit" => exit' = "none") BY AwakeKept DEF Handled
  <1>2. /\ Quiet(master) /\ Answered(master, vcpu, exit) /\ Files /\ Shadowed(vcpu)
        /\ phase # "exit" => exit = "none"
    BY DEF Handled, Files, Awake
  <1>3. SUFFICES Quiet(master') /\ Answered(master', vcpu', exit') /\ Files'
    BY <1>1 DEF Handled, Files
  <1>4. CASE Poll
    <2>1. vcpu' = vcpu /\ exit' = exit /\ exit = "none" BY <1>2, <1>4 DEF Poll, guest
    <2>2. Quiet(master') /\ master'.isr = master.isr BY <1>2, <1>4, SerialLine DEF Poll
    <2>3. Answered(master', vcpu', exit') BY <1>2, <2>1, <2>2 DEF Answered
    <2>4. \A s \in disk' : s.master = master /\ s.vcpu = vcpu
      BY <1>4 DEF Poll, SaveTo, take_snapshot
    <2>5. Files' BY <1>2, <2>1, <2>4 DEF Files
    <2>6. QED BY <2>2, <2>3, <2>5
  <1>5. CASE Inject
    <2>1. exit' = exit /\ exit = "none" /\ disk' = disk BY <1>2, <1>5 DEF Inject, files
    <2>2. Files' BY <1>2, <2>1 DEF Files
    <2>3. CASE UNCHANGED <<master, slave, vcpu>> BY <1>2, <2>1, <2>2, <2>3
    <2>4. CASE /\ can_inject_interrupt(vcpu) /\ Pic!get_pending_vector
               /\ vcpu' = inject_interrupt(vcpu, Pic!PendingVector)
      <3>1. vcpu.pc = "cli" BY <1>2, <2>4, InjectionShadowed
      <3>2. 0 \notin master.isr /\ 4 \notin master.isr
        BY <1>2, <2>1, <3>1 DEF Answered, TimerPcs, SerialPcs
      <3>3. master.isr = {} BY <1>2, <3>2 DEF Quiet, Levels
      <3>4. vcpu'.pc = HandlerOf(Pic!PendingVector)
        BY <1>2, <2>4 DEF inject_interrupt, Shadowed, Vcpus
      <3>5. /\ Quiet(master')
            /\ \/ master'.isr = {0} /\ vcpu'.pc = "t_eoi"
               \/ master'.isr = {4} /\ vcpu'.pc = "s_iir"
        BY <1>2, <2>4, <3>3, <3>4, AcknowledgeStartsService
      <3>6. QED BY <2>2, <3>5 DEF Answered, TimerPcs, SerialPcs
    <2>5. QED BY <1>5, <2>3, <2>4 DEF Inject
  <1>6. CASE PitTick
    <2>1. vcpu' = vcpu /\ exit' = exit /\ disk' = disk BY <1>6 DEF PitTick, guest, files
    <2>2. Quiet(master') /\ master'.isr = master.isr BY <1>2, <1>6, TimerPulse DEF PitTick
    <2>3. QED BY <1>2, <2>1, <2>2 DEF Files, Answered
  <1>7. CASE RunIteration
    <2>1. master' = master /\ disk' = disk /\ phase = "run"
      BY <1>7 DEF RunIteration, devices, files
    <2>2. Stays(vcpu, vcpu', exit') /\ exit = "none" BY <1>2, <1>7, <2>1, RunShadowed
    <2>3. QED BY <1>2, <2>1, <2>2 DEF Files, Answered, Stays
  <1>8. CASE HandleExit
    <2>1. exit' = "none" /\ disk' = {} BY <1>8 DEF HandleExit, SaveTo
    <2>2. Files' BY <2>1 DEF Files
    <2>3. CASE exit = "out_eoi"
      <3>1. master' = Pic!write_command(master, 32)
        BY <1>8, <2>3 DEF HandleExit, Pic!MasterWriteCommand
      <3>2. Quiet(master') /\ master'.isr = {}
        BY <1>2, <3>1, EoiCommand, EoiEndsService DEF Answered
      <3>3. QED BY <2>2, <3>2 DEF Answered
    <2>4. CASE exit # "out_eoi"
      <3>1. \/ UNCHANGED <<master, slave>>
            \/ \E u : drive_legacy_serial_irq(u)
        BY <1>8, <2>4 DEF HandleExit, SerialOut
      <3>2. Quiet(master') /\ master'.isr = master.isr BY <1>2, <3>1, SerialLine
      <3>3. \/ vcpu' = vcpu
            \/ \E data \in InterruptIds \cup {"byte"} : vcpu' = complete_io_in(vcpu, data)
        BY <1>8, <2>4, IdIsId DEF HandleExit, SerialOut
      <3>4. vcpu'.pc = vcpu.pc BY <1>2, <3>3, IoInShadowed
      <3>5. QED BY <1>2, <2>2, <2>4, <3>2, <3>4 DEF Answered
    <2>5. QED BY <2>3, <2>4
  <1>9. CASE Type
    <2>1. UNCHANGED <<master, vcpu, exit, disk>> BY <1>9 DEF Type, devices, guest, files
    <2>2. QED BY <1>2, <2>1 DEF Files
  <1>10. CASE TimePasses
    <2>1. UNCHANGED <<master, exit, disk>> /\ vcpu' = [vcpu EXCEPT !.lapic = "due"]
      BY <1>10 DEF TimePasses, devices, files
    <2>2. vcpu'.pc = vcpu.pc BY <1>2, <2>1 DEF Shadowed, Vcpus
    <2>3. QED BY <1>2, <2>1, <2>2 DEF Files, Answered
  <1>11. CASE Restart
    <2>1. PICK s \in disk : vcpu' = RestoredVcpu(s.vcpu) /\ master' = Unwired(s.master)
      BY <1>11 DEF Restart
    <2>2. exit' = "none" /\ disk' = disk BY <1>11 DEF Restart
    <2>3. Quiet(s.master) /\ Answered(s.master, s.vcpu, "none") BY <1>2, <2>1 DEF Files
    <2>4. Shadowed(s.vcpu) BY <2>1 DEF Handled, Awake
    <2>5. vcpu'.pc = s.vcpu.pc BY <2>1, <2>4 DEF RestoredVcpu, Shadowed, Vcpus
    <2>6. Quiet(master') /\ master'.isr = s.master.isr BY <2>1, <2>3, UnwiredKeepsQuiet
    <2>7. QED BY <1>2, <2>2, <2>3, <2>5, <2>6 DEF Files, Answered
  <1>12. CASE UNCHANGED vars
    <2>1. UNCHANGED <<master, vcpu, exit, disk>> BY <1>12 DEF vars, devices, guest, files
    <2>2. QED BY <1>2, <2>1 DEF Files
  <1>13. QED BY <1>4, <1>5, <1>6, <1>7, <1>8, <1>9, <1>10, <1>11, <1>12 DEF Next, VmmStep

(* Every vector the PIC was acknowledged for reaches the guest (Vmm::run    *)
(* checks can_inject before get_pending_vector), if checkpoints are taken   *)
(* from the console only.  A periodic one is written while the EOI may be   *)
(* an exit still to be handled, and run vm_periodic shows what is then lost.*)
THEOREM AcknowledgedReachesGuest ==
  ASSUME "periodic" \notin Checkpoints
  PROVE  Spec => []AcknowledgedIsHandled
  <1>1. ASSUME Init PROVE Handled
    <2>1. master = [Pic!NewChip(32) EXCEPT !.imr = 0..7 \ {0, 4}] BY <1>1 DEF Init
    <2>2. Quiet(master) /\ master.isr = {} BY <2>1, NewChipQuiet, Zenon
    <2>3. disk = {} BY <1>1 DEF Init
    <2>4. QED BY <1>1, <2>2, <2>3, AwakeAtFirst DEF Handled, Answered
  <1>2. Handled /\ [Next]_vars => Handled' BY HandledKept
  <1>3. Handled => AcknowledgedIsHandled BY DEF Handled, Answered, AcknowledgedIsHandled
  <1>4. QED BY <1>1, <1>2, <1>3, PTL DEF Spec

-----------------------------------------------------------------------------
(* What an instruction asks of the VMM; no instruction starts the LAPIC     *)
(* timer of a guest that runs on the PIT.                                   *)
InExits == {"in_iir", "in_rbr"}

Unarmed(v) == v.lapic = "off" /\ v.pc # "arm"

Yields(v, out) ==
  /\ out.exit \in Exits /\ out.vcpu.io_pending = (out.exit \in InExits)
  /\ clock = "pit" /\ Unarmed(v) => Unarmed(out.vcpu)

LEMMA RetiredYields ==
  ASSUME NEW v, NEW x \in Vcpus, ~x.io_pending, NEW pc, NEW e \in Exits \ InExits,
         NEW out, out = Retired(x, pc, e),
         clock = "pit" /\ Unarmed(v) => x.lapic = "off" /\ pc # "arm"
  PROVE  Yields(v, out)
  <1>1. out.exit = e /\ out.vcpu = [x EXCEPT !.pc = pc] BY DEF Retired
  <1>2. out.vcpu.io_pending = x.io_pending /\ out.vcpu.lapic = x.lapic /\ out.vcpu.pc = pc
    BY <1>1 DEF Vcpus
  <1>3. x.io_pending = FALSE /\ (e \in InExits) = FALSE BY DEF Vcpus
  <1>4. out.vcpu.io_pending = (out.exit \in InExits) BY <1>1, <1>2, <1>3, Zenon
  <1>5. QED BY <1>1, <1>2, <1>4 DEF Yields, Unarmed

LEMMA InYields ==
  ASSUME NEW v, NEW x \in Vcpus, NEW pc, pc # "arm", NEW e \in InExits, NEW out, out = In(x, pc, e),
         clock = "pit" /\ Unarmed(v) => x.lapic = "off"
  PROVE  Yields(v, out)
  <1>1. out.exit = e /\ out.vcpu = [[x EXCEPT !.io_pending = TRUE] EXCEPT !.pc = pc]
    BY DEF In, Retired
  <1>2. out.vcpu.io_pending = TRUE /\ out.vcpu.lapic = x.lapic /\ out.vcpu.pc = pc
    BY <1>1 DEF Vcpus
  <1>3. QED BY <1>1, <1>2, Zenon DEF Yields, Unarmed, InExits, Exits

LEMMA StepYields ==
  ASSUME NEW v, Shadowed(v), ~v.io_pending, NEW out \in step(v)
  PROVE  Yields(v, out)
  <1> DEFINE w == [v EXCEPT !.interrupt_inhibit = FALSE]
  <1>1. /\ w \in Vcpus /\ w.pc = v.pc /\ w.ret = "cli" /\ w.lapic = v.lapic /\ ~w.io_pending
        /\ w.tx = v.tx
    BY Zenon DEF Shadowed, Vcpus
  <1>2. step(v) = IF w.pc \in MainPcs THEN GuestMain(w) ELSE GuestHandler(w)
    BY <1>1 DEF step
  <1> HIDE DEF w
  <1>3. "none" \in Exits \ InExits /\ "Hlt" \in Exits \ InExits BY DEF Exits, InExits
  <1>4. /\ "out_thre" \in Exits \ InExits /\ "out_ier" \in Exits \ InExits
        /\ "out_eoi" \in Exits \ InExits
    BY DEF Exits, InExits
  <1>5. ASSUME NEW x \in Vcpus, ~x.io_pending, x.lapic = w.lapic, NEW pc, pc # "arm",
               NEW e \in Exits \ InExits, out = Retired(x, pc, e)
        PROVE  Yields(v, out)
    BY <1>1, <1>5, RetiredYields DEF Unarmed
  <1>6. CASE w.pc = "cli"
    <2>1. out = Retired([w EXCEPT !.iflag = FALSE], "check", "none")
      BY <1>2, <1>6 DEF GuestMain, MainPcs
    <2>2. PICK x \in Vcpus : x = [w EXCEPT !.iflag = FALSE] BY <1>1, Zenon DEF Vcpus
    <2>3. ~x.io_pending /\ x.lapic = w.lapic BY <1>1, <2>2 DEF Vcpus
    <2>4. QED BY <1>3, <1>5, <2>1, <2>2, <2>3, Zenon
  <1>7. CASE w.pc = "check" /\ w.work
    <2>1. out = Retired([w EXCEPT !.work = FALSE], "check", "none")
      BY <1>2, <1>7 DEF GuestMain, MainPcs
    <2>2. PICK x \in Vcpus : x = [w EXCEPT !.work = FALSE] BY <1>1, Zenon DEF Vcpus
    <2>3. ~x.io_pending /\ x.lapic = w.lapic BY <1>1, <2>2 DEF Vcpus
    <2>4. QED BY <1>3, <1>5, <2>1, <2>2, <2>3, Zenon
  <1>8. CASE w.pc = "check" /\ ~w.work
    <2>1. PICK pc \in {"sti", "thre", "arm"} :
             out = Retired(w, pc, "none") /\ (pc = "arm" => clock = "lapic")
      BY <1>2, <1>8 DEF GuestMain, MainPcs
    <2>2. clock = "pit" /\ Unarmed(v) => w.lapic = "off" /\ pc # "arm"
      BY <1>1, <2>1 DEF Unarmed
    <2>3. QED BY <1>1, <1>3, <2>1, <2>2, RetiredYields
  <1>9. CASE w.pc = "sti"
    <2>1. out = Retired(Sti(w), "hlt", "none") BY <1>2, <1>9 DEF GuestMain, MainPcs
    <2>2. Sti(w) \in Vcpus /\ ~Sti(w).io_pending /\ Sti(w).lapic = w.lapic
      BY <1>1, Zenon DEF Sti, Vcpus
    <2>3. QED BY <1>3, <1>5, <2>1, <2>2
  <1>10. CASE w.pc = "hlt"
    <2>1. out = Retired([w EXCEPT !.halted = TRUE], "cli", "Hlt")
      BY <1>2, <1>10 DEF GuestMain, MainPcs
    <2>2. PICK x \in Vcpus : x = [w EXCEPT !.halted = TRUE] BY <1>1, Zenon DEF Vcpus
    <2>3. ~x.io_pending /\ x.lapic = w.lapic BY <1>1, <2>2 DEF Vcpus
    <2>4. QED BY <1>3, <1>5, <2>1, <2>2, <2>3, Zenon
  <1>11. CASE w.pc = "arm"
    <2>1. out = Retired([w EXCEPT !.lapic = "counting"], "check", "none")
      BY <1>2, <1>11 DEF GuestMain, MainPcs
    <2>2. PICK x \in Vcpus : x = [w EXCEPT !.lapic = "counting"] BY <1>1, Zenon DEF Vcpus
    <2>3. ~x.io_pending BY <1>1, <2>2 DEF Vcpus
    <2>4. ~Unarmed(v) BY <1>1, <1>11 DEF Unarmed
    <2>5. QED BY <1>3, <2>1, <2>2, <2>3, <2>4, RetiredYields, Zenon
  <1>12. CASE w.pc = "thre"
    <2>1. out = Retired([w EXCEPT !.tx = @ + 1], "check", "out_thre")
      BY <1>2, <1>12 DEF GuestMain, MainPcs
    <2>2. PICK x \in Vcpus : x = [w EXCEPT !.tx = @ + 1]
      <3>1. w.tx + 1 \in 0..MaxTx BY <1>1, <1>12, VmLoopAssumption DEF Shadowed, Vcpus
      <3>2. [w EXCEPT !.tx = @ + 1] \in Vcpus BY <1>1, <3>1, Zenon DEF Vcpus
      <3>3. QED BY <3>2, Zenon
    <2>3. ~x.io_pending /\ x.lapic = w.lapic BY <1>1, <2>2 DEF Vcpus
    <2>4. QED BY <1>4, <1>5, <2>1, <2>2, <2>3, Zenon
  <1>13. CASE w.pc = "t_eoi"
    <2>1. out = Retired(w, "iret", "out_eoi") BY <1>2, <1>13 DEF GuestHandler, MainPcs
    <2>2. QED BY <1>1, <1>4, <1>5, <2>1
  <1>14. CASE w.pc = "s_iir"
    <2>1. out = In(w, "s_dispatch", "in_iir") BY <1>2, <1>14 DEF GuestHandler, MainPcs
    <2>2. "in_iir" \in InExits BY DEF InExits
    <2>3. QED BY <1>1, <2>1, <2>2, InYields DEF Unarmed
  <1>15. CASE w.pc = "s_dispatch"
    <2>1. PICK pc \in {"s_rbr", "s_ier", "s_eoi"} : out = Retired(w, pc, "none")
      BY <1>2, <1>15 DEF GuestHandler, MainPcs
    <2>2. QED BY <1>1, <1>3, <1>5, <2>1
  <1>16. CASE w.pc = "s_rbr"
    <2>1. out = In(w, "s_store", "in_rbr") BY <1>2, <1>16 DEF GuestHandler, MainPcs
    <2>2. "in_rbr" \in InExits BY DEF InExits
    <2>3. QED BY <1>1, <2>1, <2>2, InYields DEF Unarmed
  <1>17. CASE w.pc = "s_store"
    <2>1. out = Retired([w EXCEPT !.work = TRUE], "s_iir", "none")
      BY <1>2, <1>17 DEF GuestHandler, MainPcs
    <2>2. PICK x \in Vcpus : x = [w EXCEPT !.work = TRUE] BY <1>1, Zenon DEF Vcpus
    <2>3. ~x.io_pending /\ x.lapic = w.lapic BY <1>1, <2>2 DEF Vcpus
    <2>4. QED BY <1>3, <1>5, <2>1, <2>2, <2>3, Zenon
  <1>18. CASE w.pc = "s_ier"
    <2>1. out = Retired(w, "s_iir", "out_ier") BY <1>2, <1>18 DEF GuestHandler, MainPcs
    <2>2. QED BY <1>1, <1>4, <1>5, <2>1
  <1>19. CASE w.pc = "s_eoi"
    <2>1. out = Retired(w, "iret", "out_eoi") BY <1>2, <1>19 DEF GuestHandler, MainPcs
    <2>2. QED BY <1>1, <1>4, <1>5, <2>1
  <1>20. CASE w.pc = "l_eoi"
    <2>1. out = Retired(w, "iret", "none") BY <1>2, <1>20 DEF GuestHandler, MainPcs
    <2>2. QED BY <1>1, <1>3, <1>5, <2>1
  <1>21. CASE w.pc = "iret"
    <2>1. out = Retired([w EXCEPT !.iflag = TRUE], "cli", "none")
      BY <1>1, <1>2, <1>21 DEF GuestHandler, MainPcs
    <2>2. PICK x \in Vcpus : x = [w EXCEPT !.iflag = TRUE] BY <1>1, Zenon DEF Vcpus
    <2>3. ~x.io_pending /\ x.lapic = w.lapic BY <1>1, <2>2 DEF Vcpus
    <2>4. QED BY <1>3, <1>5, <2>1, <2>2, <2>3, Zenon
  <1>22. w.pc \in AllPcs BY <1>1 DEF Vcpus, AllPcs
  <1>23. QED
    BY <1>6, <1>7, <1>8, <1>9, <1>10, <1>11, <1>12, <1>13, <1>14, <1>15, <1>16, <1>17, <1>18,
       <1>19, <1>20, <1>21, <1>22
    DEF AllPcs, MainPcs, TimerPcs, SerialPcs, LapicPcs

(* run() returns with an exit, or goes on without one. *)
LEMMA HousekeepingYields ==
  ASSUME NEW v, Shadowed(v)
  PROVE  /\ poll_periodic_housekeeping(v).io_pending = v.io_pending
         /\ Unarmed(v) => poll_periodic_housekeeping(v) = v
  <1>1. v \in Vcpus BY DEF Shadowed
  <1>2. PICK t \in Vcpus : t = tick_lapic_timer(v) BY <1>1, Zenon DEF tick_lapic_timer, Vcpus
  <1>3. t.io_pending = v.io_pending /\ (v.lapic = "off" => t = v)
    BY <1>1, <1>2 DEF tick_lapic_timer, Vcpus
  <1>4. CASE t.lapic = "pending" /\ can_inject_interrupt(t)
    <2>1. poll_periodic_housekeeping(v) = inject_interrupt([t EXCEPT !.lapic = "off"], LapicVector)
      BY <1>2, <1>4 DEF poll_periodic_housekeeping
    <2>2. PICK o \in Vcpus : o = [t EXCEPT !.lapic = "off"] BY Zenon DEF Vcpus
    <2>3. inject_interrupt(o, LapicVector).io_pending = o.io_pending
      BY <2>2 DEF inject_interrupt, Vcpus
    <2>4. o.io_pending = t.io_pending BY <2>2 DEF Vcpus
    <2>5. ~Unarmed(v) BY <1>3, <1>4 DEF Unarmed
    <2>6. QED BY <1>3, <2>1, <2>2, <2>3, <2>4, <2>5
  <1>5. CASE ~(t.lapic = "pending" /\ can_inject_interrupt(t))
    <2>1. poll_periodic_housekeeping(v) = t BY <1>2, <1>5 DEF poll_periodic_housekeeping
    <2>2. QED BY <1>3, <2>1 DEF Unarmed
  <1>6. QED BY <1>4, <1>5

LEMMA RunYields ==
  ASSUME Shadowed(vcpu), vcpu.io_pending = FALSE, exit = "none", phase = "run", RunIteration
  PROVE  /\ exit' \in Exits /\ (exit' # "none") = (phase' = "exit") /\ phase' \in {"run", "exit"}
         /\ vcpu'.io_pending = (exit' \in InExits)
         /\ clock = "pit" /\ Unarmed(vcpu) => Unarmed(vcpu')
  <1> DEFINE v == IF batch' = 0 THEN poll_periodic_housekeeping(vcpu) ELSE vcpu
  <1>1. Shadowed(v) BY HousekeepingShadowed
  <1>2. v.io_pending = FALSE /\ (Unarmed(vcpu) => v = vcpu) BY HousekeepingYields
  <1>3. \/ Returns(v, "Hlt")
        \/ v.halted /\ HaltedIteration(v)
        \/ ~v.halted /\ StepIteration(v)
    BY DEF RunIteration
  <1> HIDE DEF v
  <1>4. ("none" \in InExits) = FALSE /\ ("Hlt" \in InExits) = FALSE BY DEF InExits
  <1>5. ASSUME Returns(v, "Hlt") \/ Continues(v)
        PROVE  /\ exit' \in Exits /\ (exit' # "none") = (phase' = "exit")
               /\ phase' \in {"run", "exit"} /\ vcpu'.io_pending = (exit' \in InExits)
               /\ clock = "pit" /\ Unarmed(vcpu) => Unarmed(vcpu')
    <2>1. CASE Returns(v, "Hlt")
      <3>1. vcpu' = v /\ exit' = "Hlt" /\ phase' = "exit" BY <2>1 DEF Returns
      <3>2. vcpu'.io_pending = (exit' \in InExits) BY <1>2, <1>4, <3>1, Zenon
      <3>3. QED BY <1>2, <3>1, <3>2 DEF Exits
    <2>2. CASE Continues(v)
      <3>1. vcpu' = v /\ exit' = "none" /\ phase' = "run" BY <2>2 DEF Continues
      <3>2. vcpu'.io_pending = (exit' \in InExits) BY <1>2, <1>4, <3>1, Zenon
      <3>3. QED BY <1>2, <3>1, <3>2 DEF Exits
    <2>3. QED BY <1>5, <2>1, <2>2
  <1>6. CASE ~v.halted /\ StepIteration(v)
    <2>1. PICK out \in step(v) :
            IF out.exit = "none" THEN Continues(out.vcpu) ELSE Returns(out.vcpu, out.exit)
      BY <1>6 DEF StepIteration
    <2>2. Yields(v, out) BY <1>1, <1>2, <2>1, StepYields
    <2>3. vcpu' = out.vcpu /\ exit' = out.exit BY <2>1 DEF Continues, Returns
    <2>4. (exit' # "none") = (phase' = "exit") /\ phase' \in {"run", "exit"}
      BY <2>1 DEF Continues, Returns
    <2>5. exit' \in Exits /\ vcpu'.io_pending = (exit' \in InExits) BY <2>2, <2>3 DEF Yields
    <2>6. clock = "pit" /\ Unarmed(vcpu) => Unarmed(vcpu') BY <1>2, <2>2, <2>3 DEF Yields
    <2>7. QED BY <2>4, <2>5, <2>6
  <1>7. QED BY <1>3, <1>5, <1>6 DEF HaltedIteration

-----------------------------------------------------------------------------
(* The devices of the machine, or of a checkpoint of it. *)
Sound(m, s, u, p) ==
  Quiet(m) /\ s \in Pic!Chips /\ u \in Uarts /\ Fits(u) /\ p \in BOOLEAN

Devices ==
  Sound(master, slave, uart, pit) /\ \A s \in disk : Sound(s.master, s.slave, s.uart, s.pit)

Loop ==
  /\ phase \in Phases /\ batch \in 0..LAPIC_POLL_STRIDE - 1 /\ keys \in Nat
  /\ exit \in Exits /\ (exit # "none") = (phase = "exit")
  /\ vcpu.io_pending = (exit \in InExits)

Typed == Awake /\ Devices /\ Loop

LEMMA TypingTyped == ASSUME NEW n \in Nat PROVE Typing(n) \in Seq(CharClass)
  <1>1. "x" \in CharClass BY DEF CharClass
  <1>2. QED BY <1>1 DEF Typing

LEMMA SaveSound ==
  ASSUME Devices, NEW kind, SaveTo(kind)
  PROVE  \A s \in disk' : Sound(s.master, s.slave, s.uart, s.pit)
  <1>1. CASE disk' = {} BY <1>1
  <1>2. CASE disk' = {take_snapshot} BY <1>2 DEF Devices, take_snapshot
  <1>3. QED BY <1>1, <1>2 DEF SaveTo

LEMMA LineSound ==
  ASSUME Quiet(master), NEW u, drive_legacy_serial_irq(u)
  PROVE  Quiet(master') /\ slave' = slave
  <1>1. Quiet(master') BY SerialLine
  <1>2. slave' = slave BY DEF drive_legacy_serial_irq, Pic!SetIrq
  <1>3. QED BY <1>1, <1>2

LEMMA IerSound ==
  ASSUME NEW u \in Uarts, Fits(u), NEW bits \in SUBSET IerBits
  PROVE  write_ier(u, bits) \in Uarts /\ Fits(write_ier(u, bits))
  <1>1. PICK w : w = write_ier(u, bits) BY Zenon
  <1>2. w \in Uarts /\ Untouched(u, w) BY <1>1, IerFacts
  <1>3. Fits(w) BY <1>2 DEF Untouched, Fits
  <1>4. QED BY <1>1, <1>2, <1>3

LEMMA DevicesKept ==
  ASSUME Devices, keys \in Nat, [Next]_vars
  PROVE  Devices'
  <1>1. /\ Quiet(master) /\ slave \in Pic!Chips /\ uart \in Uarts /\ Fits(uart) /\ pit \in BOOLEAN
        /\ \A s \in disk : Sound(s.master, s.slave, s.uart, s.pit)
    BY DEF Devices, Sound
  <1>2. ASSUME UNCHANGED <<devices, disk>> PROVE Devices'
    BY <1>2 DEF Devices, devices
  <1>3. CASE Poll
    <2>1. PICK u : /\ u = IF keys = 0 THEN uart ELSE queue_input(uart, Typing(keys))
                   /\ uart' = u /\ drive_legacy_serial_irq(u)
      BY <1>3 DEF Poll
    <2>2. u \in Uarts /\ Fits(u)
      <3>1. Typing(keys) \in Seq(CharClass) BY TypingTyped
      <3>2. queue_input(uart, Typing(keys)) \in Uarts /\ Fits(queue_input(uart, Typing(keys)))
        BY <1>1, <3>1, QueueFacts
      <3>3. QED BY <1>1, <2>1, <3>2
    <2>3. Quiet(master') /\ slave' = slave BY <1>1, <2>1, LineSound
    <2>4. \A s \in disk' : Sound(s.master, s.slave, s.uart, s.pit) BY <1>3, SaveSound DEF Poll
    <2>5. pit' = pit BY <1>3 DEF Poll
    <2>6. Sound(master', slave', uart', pit') BY <1>1, <2>1, <2>2, <2>3, <2>5 DEF Sound
    <2>7. QED BY <2>4, <2>6 DEF Devices
  <1>4. CASE Inject
    <2>1. /\ UNCHANGED <<uart, pit, disk>>
          /\ UNCHANGED <<master, slave>> \/ Pic!get_pending_vector
      BY <1>4 DEF Inject, files
    <2>2. Quiet(master') /\ slave' = slave BY <1>1, <2>1, HighestIsLevel, AckKeepsQuiet
    <2>3. Sound(master', slave', uart', pit') BY <1>1, <2>1, <2>2 DEF Sound
    <2>4. QED BY <1>1, <2>1, <2>3 DEF Devices
  <1>5. CASE PitTick
    <2>1. /\ UNCHANGED <<uart, disk>> /\ pit' \in BOOLEAN
          /\ UNCHANGED <<master, slave>> \/ Pic!PulseIrq(0)
      BY <1>1, <1>5, Zenon DEF PitTick, files
    <2>2. Quiet(master') BY <1>1, <2>1, TimerPulse
    <2>3. slave' = slave
      <3>1. 0 < 8 /\ ~(0 >= 8) OBVIOUS
      <3>2. Pic!PulseIrq(0) => slave' = slave BY <3>1, Zenon DEF Pic!PulseIrq
      <3>3. QED BY <2>1, <3>2
    <2>4. Sound(master', slave', uart', pit') BY <1>1, <2>1, <2>2, <2>3 DEF Sound
    <2>5. QED BY <1>1, <2>1, <2>4 DEF Devices
  <1>6. CASE RunIteration BY <1>2, <1>6 DEF RunIteration, files
  <1>7. CASE HandleExit
    <2>1. pit' = pit BY <1>7 DEF HandleExit
    <2>2. \A s \in disk' : Sound(s.master, s.slave, s.uart, s.pit)
      BY <1>7, SaveSound DEF HandleExit
    <2>3. SUFFICES Quiet(master') /\ slave' = slave /\ uart' \in Uarts /\ Fits(uart')
      BY <1>1, <2>1, <2>2 DEF Devices, Sound
    <2>4. CASE UNCHANGED <<uart, master, slave>> BY <1>1, <2>4
    <2>5. CASE uart' = read_iir(uart) /\ UNCHANGED <<master, slave>>
      <3>1. uart' \in Uarts /\ Untouched(uart, uart') BY <1>1, <2>5, IirFacts
      <3>2. Fits(uart') BY <1>1, <3>1 DEF Untouched, Fits
      <3>3. QED BY <1>1, <2>5, <3>1, <3>2
    <2>6. CASE uart' = read_rbr(uart) /\ UNCHANGED <<master, slave>>
      <3>1. uart' \in Uarts /\ Fits(uart') BY <1>1, <2>6, ReadFacts
      <3>2. QED BY <1>1, <2>6, <3>1
    <2>7. ASSUME NEW bits \in SUBSET IerBits, SerialOut(write_ier(uart, bits))
          PROVE  Quiet(master') /\ slave' = slave /\ uart' \in Uarts /\ Fits(uart')
      <3>1. PICK u : u = write_ier(uart, bits) /\ uart' = u /\ drive_legacy_serial_irq(u)
        BY <2>7 DEF SerialOut
      <3>2. u \in Uarts /\ Fits(u) BY <1>1, <3>1, IerSound
      <3>3. QED BY <1>1, <3>1, <3>2, LineSound
    <2>8. CASE Pic!MasterWriteCommand(32) /\ UNCHANGED uart
      <3>1. master' = Pic!non_specific_eoi(master) /\ slave' = slave
        BY <2>8, EoiCommand DEF Pic!MasterWriteCommand
      <3>2. QED BY <1>1, <2>8, <3>1, EoiQuiet
    <2>9. {"RDA", "THRE"} \in SUBSET IerBits /\ {"RDA"} \in SUBSET IerBits BY DEF IerBits
    <2>10. QED BY <1>7, <2>4, <2>5, <2>6, <2>7, <2>8, <2>9 DEF HandleExit
  <1>8. CASE Type \/ TimePasses \/ UNCHANGED vars BY <1>2, <1>8 DEF Type, TimePasses, vars, files
  <1>9. CASE Restart
    <2>1. PICK s \in disk :
            /\ master' = Unwired(s.master) /\ slave' = Unwired(s.slave)
            /\ uart' = s.uart /\ pit' = s.pit
      BY <1>9 DEF Restart
    <2>2. disk' = disk BY <1>9 DEF Restart
    <2>3. Quiet(s.master) /\ s.slave \in Pic!Chips /\ s.uart \in Uarts /\ Fits(s.uart) /\ s.pit \in BOOLEAN
      BY <1>1, <2>1 DEF Sound
    <2>4. Quiet(Unwired(s.master)) BY <2>3, UnwiredKeepsQuiet
    <2>5. Unwired(s.slave) \in Pic!Chips BY <2>3 DEF Unwired, Pic!Chips
    <2>6. Sound(master', slave', uart', pit') BY <2>1, <2>3, <2>4, <2>5 DEF Sound
    <2>7. QED BY <1>1, <2>2, <2>6 DEF Devices
  <1>10. QED BY <1>3, <1>4, <1>5, <1>6, <1>7, <1>8, <1>9 DEF Next, VmmStep

LEMMA LoopKept ==
  ASSUME Awake, Loop, [Next]_vars
  PROVE  Loop'
  <1>1. /\ phase \in Phases /\ batch \in 0..LAPIC_POLL_STRIDE - 1 /\ keys \in Nat
        /\ exit \in Exits /\ (exit # "none") = (phase = "exit")
        /\ vcpu.io_pending = (exit \in InExits) /\ Shadowed(vcpu) /\ vcpu \in Vcpus
    BY DEF Loop, Awake, Shadowed
  <1>2. /\ 0 \in 0..LAPIC_POLL_STRIDE - 1
        /\ (batch + 1) % LAPIC_POLL_STRIDE \in 0..LAPIC_POLL_STRIDE - 1
    BY <1>1, VmLoopAssumption
  <1>3. ("none" \in InExits) = FALSE /\ "none" \in Exits BY DEF InExits, Exits
  <1>4. ASSUME phase # "exit" PROVE exit = "none" /\ vcpu.io_pending = FALSE
    <2>1. exit = "none" BY <1>1, <1>4
    <2>2. QED BY <1>1, <1>3, <2>1, Zenon
  <1>5. ASSUME phase' \in Phases \ {"exit"}, exit' = "none", vcpu'.io_pending = FALSE,
               batch' \in 0..LAPIC_POLL_STRIDE - 1, keys' \in Nat
        PROVE  Loop'
    <2>1. vcpu'.io_pending = (exit' \in InExits) BY <1>3, <1>5, Zenon
    <2>2. (exit' # "none") = (phase' = "exit") BY <1>5
    <2>3. QED BY <1>3, <1>5, <2>1, <2>2 DEF Loop
  <1>6. CASE Poll
    <2>1. /\ phase # "exit" /\ phase' = "inject" /\ exit' = exit /\ vcpu' = vcpu
          /\ batch' = batch /\ keys' = 0
      BY <1>6 DEF Poll, guest
    <2>2. QED BY <1>1, <1>4, <1>5, <2>1, Zenon DEF Phases
  <1>7. CASE Inject
    <2>1. /\ phase # "exit" /\ phase' = "pit" /\ exit' = exit /\ batch' = batch /\ keys' = keys
          /\ vcpu' = vcpu \/ vcpu' = inject_interrupt(vcpu, Pic!PendingVector)
      BY <1>7 DEF Inject, console
    <2>2. vcpu'.io_pending = vcpu.io_pending BY <1>1, <2>1, Zenon DEF inject_interrupt, Vcpus
    <2>3. QED BY <1>1, <1>4, <1>5, <2>1, <2>2 DEF Phases
  <1>8. CASE PitTick
    <2>1. /\ phase # "exit" /\ phase' = "run" /\ exit' = exit /\ vcpu' = vcpu
          /\ batch' = 0 /\ keys' = keys
      BY <1>8 DEF PitTick, guest, console
    <2>2. QED BY <1>1, <1>2, <1>4, <1>5, <2>1, Zenon DEF Phases
  <1>9. CASE RunIteration
    <2>1. /\ phase = "run" /\ batch' = (batch + 1) % LAPIC_POLL_STRIDE /\ keys' = keys
      BY <1>9 DEF RunIteration, console
    <2>2. exit = "none" /\ vcpu.io_pending = FALSE BY <1>4, <2>1, Zenon
    <2>3. /\ exit' \in Exits /\ (exit' # "none") = (phase' = "exit") /\ phase' \in {"run", "exit"}
          /\ vcpu'.io_pending = (exit' \in InExits)
      BY <1>1, <1>9, <2>1, <2>2, RunYields, Zenon
    <2>4. phase' \in Phases BY <2>3 DEF Phases
    <2>5. QED BY <1>1, <1>2, <2>1, <2>3, <2>4 DEF Loop
  <1>10. CASE HandleExit
    <2>1. phase' = "poll" /\ exit' = "none" /\ batch' = batch /\ keys' = keys
      BY <1>10 DEF HandleExit, console
    <2>2. \/ vcpu' = vcpu /\ exit \in {"Hlt", "out_thre", "out_ier", "out_eoi"}
          \/ \E data : vcpu' = complete_io_in(vcpu, data)
      BY <1>10 DEF HandleExit, SerialOut
    <2>3. vcpu'.io_pending = FALSE
      <3>1. CASE vcpu' = vcpu /\ exit \in {"Hlt", "out_thre", "out_ier", "out_eoi"}
        <4>1. (exit \in InExits) = FALSE BY <3>1 DEF InExits
        <4>2. QED BY <1>1, <3>1, <4>1, Zenon
      <3>2. CASE \E data : vcpu' = complete_io_in(vcpu, data)
        BY <1>1, <3>2 DEF complete_io_in, Vcpus
      <3>3. QED BY <2>2, <3>1, <3>2, Zenon
    <2>4. QED BY <1>1, <1>5, <2>1, <2>3, Zenon DEF Phases
  <1>11. CASE Type
    <2>1. UNCHANGED <<phase, batch, exit, vcpu>> /\ keys' = keys + 1 BY <1>11 DEF Type, guest
    <2>2. QED BY <1>1, <2>1 DEF Loop
  <1>12. CASE TimePasses
    <2>1. UNCHANGED <<phase, batch, exit, keys>> /\ vcpu' = [vcpu EXCEPT !.lapic = "due"]
      BY <1>12 DEF TimePasses, console
    <2>2. vcpu'.io_pending = vcpu.io_pending BY <1>1, <2>1 DEF Vcpus
    <2>3. QED BY <1>1, <2>1, <2>2 DEF Loop
  <1>13. CASE Restart
    <2>1. PICK s \in disk : vcpu' = RestoredVcpu(s.vcpu) BY <1>13 DEF Restart
    <2>2. s.vcpu \in Vcpus BY <2>1 DEF Awake, Shadowed
    <2>3. vcpu'.io_pending = FALSE BY <2>1, <2>2 DEF RestoredVcpu, Vcpus
    <2>4. phase' = "poll" /\ batch' = 0 /\ exit' = "none" /\ keys' = 0 BY <1>13 DEF Restart
    <2>5. QED BY <1>2, <1>5, <2>3, <2>4, Zenon DEF Phases
  <1>14. CASE UNCHANGED vars
    <2>1. UNCHANGED <<phase, batch, exit, vcpu, keys>> BY <1>14 DEF vars, guest, console
    <2>2. QED BY <1>1, <2>1 DEF Loop
  <1>15. QED BY <1>6, <1>7, <1>8, <1>9, <1>10, <1>11, <1>12, <1>13, <1>14 DEF Next, VmmStep

LEMMA TypedKept ==
  ASSUME Typed, [Next]_vars
  PROVE  Typed'
  <1>1. phase # "exit" => exit = "none" BY DEF Typed, Loop
  <1>2. keys \in Nat BY DEF Typed, Loop
  <1>3. Awake' BY <1>1, AwakeKept DEF Typed
  <1>4. Devices' BY <1>2, DevicesKept DEF Typed
  <1>5. Loop' BY LoopKept DEF Typed
  <1>6. QED BY <1>3, <1>4, <1>5 DEF Typed

LEMMA TypedAtFirst == ASSUME Init PROVE Typed
  <1>1. Awake /\ exit = "none" BY AwakeAtFirst
  <1>2. Quiet(master)
    <2>1. master = [Pic!NewChip(32) EXCEPT !.imr = 0..7 \ {0, 4}] BY DEF Init
    <2>2. QED BY <2>1, NewChipQuiet, Zenon
  <1>3. slave \in Pic!Chips
    <2>1. slave = Pic!NewChip(40) BY DEF Init
    <2>2. QED BY <2>1 DEF Pic!NewChip, Pic!Chips, Pic!Lines, Pic!Bytes, Pic!InitStates
  <1>4. uart \in Uarts /\ Fits(uart)
    <2>1. Triggers[0] \in 1..FIFO_SIZE BY SerialAssumption
    <2>2. <<>> \in Seq(CharClass) /\ Len(<<>>) = 0 OBVIOUS
    <2>3. NewUart \in Uarts BY <2>1, <2>2 DEF NewUart, Uarts, CprFilterState, CpqPrefixes
    <2>4. PICK n \in Uarts : n = NewUart /\ n.rx_fifo = <<>> /\ n.input_buffer = <<>>
      BY <2>3 DEF NewUart
    <2>5. uart = [n EXCEPT !.fifo_enabled = TRUE, !.ier = {"RDA"}, !.mcr = {"OUT2"}]
      BY <2>4 DEF Init
    <2>6. {"RDA"} \in SUBSET IerBits /\ {"OUT2"} \in SUBSET McrBits BY DEF IerBits, McrBits
    <2>7. uart \in Uarts /\ uart.rx_fifo = <<>> /\ uart.fifo_enabled
      BY <2>4, <2>5, <2>6, Zenon DEF Uarts
    <2>8. Fits(uart) BY <2>2, <2>7, SerialAssumption DEF Fits
    <2>9. QED BY <2>7, <2>8
  <1>5. Devices BY <1>2, <1>3, <1>4, Zenon DEF Init, Devices, Sound
  <1>6. Loop
    <2>1. 0 \in 0..LAPIC_POLL_STRIDE - 1 BY VmLoopAssumption
    <2>2. vcpu.io_pending = FALSE /\ ("none" \in InExits) = FALSE BY DEF Init, InExits
    <2>3. vcpu.io_pending = (exit \in InExits) BY <1>1, <2>2, Zenon
    <2>4. QED BY <2>1, <2>3, Zenon DEF Init, Loop, Phases, Exits
  <1>7. QED BY <1>1, <1>5, <1>6 DEF Typed

(* The machine keeps its types, and an exit is outstanding exactly between *)
(* run() and its handling, an IN waiting for its data only then            *)
(* (Vmm::run, complete_io_in), with checkpoints of both kinds and restarts *)
(* from them at any time.                                                  *)
THEOREM MachineIsTyped == Spec => []TypeOK
  <1>1. Init => Typed BY TypedAtFirst
  <1>2. Typed /\ [Next]_vars => Typed' BY TypedKept
  <1>3. Typed => TypeOK
    BY DEF Typed, Awake, Shadowed, Devices, Sound, Quiet, Loop, InExits, TypeOK
  <1>4. QED BY <1>1, <1>2, <1>3, PTL DEF Spec

-----------------------------------------------------------------------------
(* Checkpoints.  The machine a file brings back is the one it was written   *)
(* from: nothing that the file leaves out was in use.                       *)
AsSaved(s) == [vcpu |-> s.vcpu, master |-> Unwired(s.master), slave |-> Unwired(s.slave),
               uart |-> s.uart, pit |-> s.pit, owed |-> "none"]

Intact(s) == Unarmed(s.vcpu) /\ s.vcpu.io_pending = FALSE /\ AsSaved(s) \in image

Faithful == clock = "pit" => Unarmed(vcpu) /\ \A s \in disk : Intact(s)

LEMMA FaithfulKept ==
  ASSUME Typed, Faithful, "periodic" \notin Checkpoints, [Next]_vars
  PROVE  Faithful'
  <1>1. SUFFICES ASSUME clock = "pit" PROVE Unarmed(vcpu') /\ \A s \in disk' : Intact(s)'
    <2>1. clock' = clock
      BY DEF Next, VmmStep, Poll, Inject, PitTick, RunIteration, HandleExit, Type, TimePasses,
        Restart, vars, guest
    <2>2. QED BY <1>1, <2>1 DEF Faithful
  <1>2. /\ Unarmed(vcpu) /\ \A s \in disk : Intact(s)
        /\ Shadowed(vcpu) /\ vcpu \in Vcpus /\ exit \in Exits
        /\ (exit # "none") = (phase = "exit") /\ vcpu.io_pending = (exit \in InExits)
    BY <1>1 DEF Faithful, Typed, Awake, Shadowed, Loop
  <1>3. ASSUME UNCHANGED <<disk, image>>, Unarmed(vcpu')
        PROVE  Unarmed(vcpu') /\ \A s \in disk' : Intact(s)'
    BY <1>2, <1>3 DEF Intact
  <1>4. CASE Poll
    <2>1. vcpu' = vcpu /\ phase = "poll" /\ SaveTo("console") BY <1>4 DEF Poll, guest
    <2>2. exit = "none" /\ vcpu.io_pending = FALSE
      <3>1. exit = "none" BY <1>2, <2>1
      <3>2. ("none" \in InExits) = FALSE BY DEF InExits
      <3>3. QED BY <1>2, <3>1, <3>2, Zenon
    <2>3. CASE disk' = {} BY <1>2, <2>1, <2>3
    <2>4. CASE disk' = {take_snapshot} /\ image' = {Machine}
      <3>1. AsSaved(take_snapshot) = Machine BY <2>2 DEF AsSaved, take_snapshot, Machine
      <3>2. take_snapshot.vcpu = vcpu BY DEF take_snapshot
      <3>3. \A s \in disk' : Intact(s)' BY <1>2, <2>2, <2>4, <3>1, <3>2, Zenon DEF Intact, AsSaved
      <3>4. QED BY <1>2, <2>1, <3>3
    <2>5. QED BY <2>1, <2>3, <2>4 DEF SaveTo
  <1>5. CASE Inject
    <2>1. /\ UNCHANGED <<disk, image>>
          /\ vcpu' = vcpu \/ vcpu' = inject_interrupt(vcpu, Pic!PendingVector)
      BY <1>5 DEF Inject, files
    <2>2. Unarmed(vcpu')
      <3>1. HandlerOf(Pic!PendingVector) \in {"t_eoi", "s_iir", "l_eoi"} BY DEF HandlerOf
      <3>2. QED BY <1>2, <2>1, <3>1, Zenon DEF Unarmed, inject_interrupt, Vcpus
    <2>3. QED BY <1>3, <2>1, <2>2
  <1>6. CASE PitTick \/ Type \/ UNCHANGED vars
    <2>1. UNCHANGED <<vcpu, disk, image>> BY <1>6 DEF PitTick, Type, vars, guest, files
    <2>2. QED BY <1>2, <1>3, <2>1
  <1>7. CASE RunIteration
    <2>1. UNCHANGED <<disk, image>> /\ phase = "run" BY <1>7 DEF RunIteration, files
    <2>2. exit = "none" /\ vcpu.io_pending = FALSE
      <3>1. exit = "none" BY <1>2, <2>1
      <3>2. ("none" \in InExits) = FALSE BY DEF InExits
      <3>3. QED BY <1>2, <3>1, <3>2, Zenon
    <2>3. Unarmed(vcpu') BY <1>1, <1>2, <1>7, <2>1, <2>2, RunYields, Zenon
    <2>4. QED BY <1>3, <2>1, <2>3
  <1>8. CASE HandleExit
    <2>1. disk' = {} BY <1>8 DEF HandleExit, SaveTo
    <2>2. vcpu' = vcpu \/ \E data : vcpu' = complete_io_in(vcpu, data)
      BY <1>8 DEF HandleExit, SerialOut
    <2>3. Unarmed(vcpu') BY <1>2, <2>2, Zenon DEF Unarmed, complete_io_in, Vcpus
    <2>4. QED BY <2>1, <2>3
  <1>9. CASE TimePasses BY <1>2, <1>9 DEF TimePasses, Unarmed
  <1>10. CASE Restart
    <2>1. UNCHANGED <<disk, image>> BY <1>10 DEF Restart
    <2>2. PICK s \in disk : vcpu' = RestoredVcpu(s.vcpu) BY <1>10 DEF Restart
    <2>3. s.vcpu \in Vcpus /\ Unarmed(s.vcpu) BY <1>2, <2>2 DEF Typed, Awake, Shadowed, Intact
    <2>4. Unarmed(vcpu') BY <2>2, <2>3 DEF Unarmed, RestoredVcpu, Vcpus
    <2>5. QED BY <1>3, <2>1, <2>4
  <1>11. QED BY <1>4, <1>5, <1>6, <1>7, <1>8, <1>9, <1>10 DEF Next, VmmStep

LEMMA RestartIsExact ==
  ASSUME Typed, Faithful, Restart, clock = "pit"
  PROVE  Machine' \in image
  <1>1. PICK s \in disk :
          /\ vcpu' = RestoredVcpu(s.vcpu)
          /\ master' = Unwired(s.master) /\ slave' = Unwired(s.slave)
          /\ uart' = s.uart /\ pit' = s.pit
    BY DEF Restart
  <1>2. exit' = "none" BY DEF Restart
  <1>3. s.vcpu \in Vcpus /\ s.master \in Pic!Chips /\ s.slave \in Pic!Chips
    BY <1>1 DEF Typed, Awake, Shadowed, Devices, Sound, Quiet
  <1>4. Intact(s) BY <1>1 DEF Faithful
  <1>5. RestoredVcpu(s.vcpu) = s.vcpu
    BY <1>3, <1>4, Zenon DEF RestoredVcpu, Intact, Unarmed, Vcpus
  <1>6. \A c \in Pic!Chips : Unwired(Unwired(c)) = Unwired(c) BY Zenon DEF Unwired, Pic!Chips
  <1>7. Machine' = [vcpu |-> vcpu', master |-> Unwired(master'), slave |-> Unwired(slave'),
                    uart |-> uart', pit |-> pit',
                    owed |-> IF exit' = "Hlt" THEN "none" ELSE exit']
    BY DEF Machine, Unwired
  <1>8. Machine' = AsSaved(s) BY <1>1, <1>2, <1>3, <1>5, <1>6, <1>7, Zenon DEF AsSaved
  <1>9. QED BY <1>4, <1>8 DEF Intact

(* A restart brings back the machine that the checkpoint was written from   *)
(* (restore_snapshot), for a guest on the PIT and checkpoints from the      *)
(* console, whenever they are taken and whenever the process dies.  The     *)
(* shadow of an STI, a held-back PIT event, staged input and the PIC's      *)
(* service come back; no exit is outstanding and the MMU's LAPIC timer is   *)
(* off when such a file is written.  Run vm_periodic shows the other kind.  *)
THEOREM RestartTheorem ==
  ASSUME "periodic" \notin Checkpoints
  PROVE  Spec => ResumesExactly
  <1> DEFINE Inv == Typed /\ Faithful
  <1>1. Init => Inv
    <2>1. SUFFICES ASSUME Init PROVE Inv OBVIOUS
    <2>2. Typed BY <2>1, TypedAtFirst
    <2>3. Faithful BY <2>1 DEF Init, Faithful, Unarmed
    <2>4. QED BY <2>2, <2>3
  <1>2. Inv /\ [Next]_vars => Inv' BY TypedKept, FaithfulKept
  <1>3. Inv => [Restart /\ clock = "pit" => Machine' \in image]_vars BY RestartIsExact
  <1>4. QED BY <1>1, <1>2, <1>3, PTL DEF Spec, ResumesExactly
=============================================================================
