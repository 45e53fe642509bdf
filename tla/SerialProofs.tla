----------------------------- MODULE SerialProofs -----------------------------
(***************************************************************************)
(* Proofs about the serial port and the console mux, for every FIFO size,  *)
(* every set of bursts and register values, and any amount of input and    *)
(* output.                                                                 *)
(***************************************************************************)
EXTENDS SerialPort, UartProofs

-----------------------------------------------------------------------------
(* The console mux. *)

MuxesAll(h, S, u, s) ==
  /\ h \in [0..Len(s) -> S] /\ h[0] = u /\ FoldLeft(MuxStep, u, s) = h[Len(s)]
  /\ \A k \in 1..Len(s) : h[k] = MuxStep(h[k - 1], s[k])

LEMMA MuxFold ==
  ASSUME NEW S, NEW B, NEW u \in S, NEW s \in Seq(B),
         \A x \in S, b \in B : MuxStep(x, b) \in S
  PROVE  \E h : MuxesAll(h, S, u, s)
  <1> DEFINE n == Len(s)
             R(f) == f = [i \in 0..n |-> IF i = 0 THEN u ELSE MuxStep(f[i - 1], s[i])]
  <1>1. n \in Nat /\ \A i \in 1..n : s[i] \in B OBVIOUS
  <1>2. PICK F \in [S \X B -> S] : \A x \in S, b \in B : F[<<x, b>>] = MuxStep(x, b)
    <2> DEFINE G == [p \in S \X B |-> MuxStep(p[1], p[2])]
    <2>1. G \in [S \X B -> S] /\ \A x \in S, b \in B : G[<<x, b>>] = MuxStep(x, b)
      OBVIOUS
    <2> HIDE DEF G
    <2>2. QED BY <2>1
  <1>3. FoldLeft(MuxStep, u, s) = (CHOOSE f : R(f))[n] BY Zenon DEF FoldLeft
  <1> HIDE DEF n
  <1>4. PICK h : Steps(h, n, S, F, u, s) BY <1>1, <1>2, FoldExists, Zenon
  <1>5. /\ h \in [0..n -> S] /\ h[0] = u
        /\ \A k \in 1..n : k - 1 \in 0..n /\ k # 0 /\ h[k] = MuxStep(h[k - 1], s[k])
    <2>1. \A k \in 1..n : k - 1 \in 0..n /\ k # 0 BY <1>1
    <2>2. h \in [0..n -> S] /\ h[0] = u BY <1>4 DEF Steps
    <2>3. ASSUME NEW k \in 1..n PROVE h[k] = MuxStep(h[k - 1], s[k])
      <3>1. h[k - 1] \in S /\ s[k] \in B BY <1>1, <2>1, <2>2
      <3>2. h[k] = F[<<h[k - 1], s[k]>>] BY <1>4 DEF Steps
      <3>3. QED BY <1>2, <3>1, <3>2
    <2>4. QED BY <2>1, <2>2, <2>3
  <1>6. R(h)
    <2>1. \A i \in 0..n : i = 0 \/ i \in 1..n BY <1>1
    <2>2. QED BY <1>5, <2>1
  <1>7. PICK f : R(f) /\ FoldLeft(MuxStep, u, s) = f[n]
    <2>1. R(CHOOSE f : R(f))
      <3> HIDE DEF R
      <3>1. QED BY <1>6
    <2>2. QED BY <1>3, <2>1, Zenon
  <1> DEFINE Q == {k \in 0..n : f[k] = h[k]}
  <1>8. 0 \in Q BY <1>1, <1>5, <1>7
  <1>9. ASSUME NEW k \in 1..n, k - 1 \in Q PROVE k \in Q
    <2>1. k \in 0..n /\ k # 0 BY <1>1
    <2>2. f[k] = MuxStep(f[k - 1], s[k]) BY <1>7, <2>1, Zenon
    <2>3. f[k - 1] = h[k - 1] BY <1>9
    <2>4. QED BY <1>5, <2>1, <2>2, <2>3
  <1> HIDE DEF Q
  <1>10. n \in Q
    <2>1. n \in 0..n BY <1>1
    <2>2. QED BY <1>1, <1>8, <1>9, <2>1, IndexInduction, Zenon
  <1>11. FoldLeft(MuxStep, u, s) = h[n] BY <1>7, <1>10 DEF Q
  <1>12. QED BY <1>5, <1>11 DEF n, MuxesAll

Muxes(B) == [armed : BOOLEAN, guest : Seq(B), actions : Seq(CommandKeys)]

(* What reaches the guest is made of the bytes that arrived, and Ctrl-A. *)
LEMMA MuxStepTyped ==
  ASSUME NEW B, ESC_PREFIX \in B, NEW m \in Muxes(B), NEW b \in B
  PROVE  MuxStep(m, b) \in Muxes(B)
  <1>1. m.guest \in Seq(B) /\ m.actions \in Seq(CommandKeys) BY DEF Muxes
  <1>2. PICK one \in Seq(B) : one = Append(m.guest, b)
    <2>1. Append(m.guest, b) \in Seq(B) BY <1>1
    <2>2. QED BY <2>1, Zenon
  <1>3. PICK two \in Seq(B) : two = m.guest \o <<ESC_PREFIX, b>>
    <2>1. <<ESC_PREFIX, b>> \in Seq(B) OBVIOUS
    <2>2. m.guest \o <<ESC_PREFIX, b>> \in Seq(B) BY <1>1, <2>1
    <2>3. QED BY <2>2, Zenon
  <1>4. CASE m.armed
    <2>1. CASE b \in CommandKeys
      <3>1. PICK acts \in Seq(CommandKeys) : acts = Append(m.actions, b)
        <4>1. Append(m.actions, b) \in Seq(CommandKeys) BY <1>1, <2>1
        <4>2. QED BY <4>1, Zenon
      <3>2. MuxStep(m, b) = [[m EXCEPT !.armed = FALSE] EXCEPT !.actions = acts]
        BY <1>4, <2>1, <3>1 DEF MuxStep, Muxes
      <3>3. QED BY <3>2, Zenon DEF Muxes
    <2>2. CASE b \notin CommandKeys /\ b = ESC_PREFIX
      <3>1. MuxStep(m, b) = [[m EXCEPT !.armed = FALSE] EXCEPT !.guest = one]
        BY <1>2, <1>4, <2>2 DEF MuxStep, Muxes
      <3>2. QED BY <3>1, Zenon DEF Muxes
    <2>3. CASE b \notin CommandKeys /\ b # ESC_PREFIX
      <3>1. MuxStep(m, b) = [[m EXCEPT !.armed = FALSE] EXCEPT !.guest = two]
        BY <1>3, <1>4, <2>3 DEF MuxStep, Muxes
      <3>2. QED BY <3>1, Zenon DEF Muxes
    <2>4. QED BY <2>1, <2>2, <2>3
  <1>5. CASE ~m.armed
    <2>1. MuxStep(m, b) \in {[m EXCEPT !.armed = TRUE], [m EXCEPT !.guest = one]}
      BY <1>2, <1>5 DEF MuxStep
    <2>2. QED BY <2>1, Zenon DEF Muxes
  <1>6. QED BY <1>4, <1>5

LEMMA PollTyped ==
  ASSUME NEW B, ESC_PREFIX \in B, NEW a \in BOOLEAN, NEW raw \in Seq(B)
  PROVE  poll(a, raw) \in Muxes(B)
  <1>1. PICK m \in Muxes(B) : m = [armed |-> a, guest |-> <<>>, actions |-> <<>>]
    <2>1. [armed |-> a, guest |-> <<>>, actions |-> <<>>] \in Muxes(B) BY DEF Muxes
    <2>2. QED BY <2>1, Zenon
  <1>2. \A x \in Muxes(B), b \in B : MuxStep(x, b) \in Muxes(B) BY MuxStepTyped
  <1>3. PICK h : MuxesAll(h, Muxes(B), m, raw) BY <1>2, MuxFold
  <1>4. QED BY <1>1, <1>3 DEF MuxesAll, poll

-----------------------------------------------------------------------------
(* The device's type, and the history's. *)
PortTyped ==
  /\ uart \in Uarts /\ Fits(uart)
  /\ armed \in BOOLEAN /\ channel \in Seq(CharClass) /\ keyed \in Seq(CharClass)
  /\ asked \in Seq(CommandKeys) /\ typed \in Seq(CharClass) /\ got \in Seq(CharClass)
  /\ sent \in Seq(CharClass) /\ shown \in Seq(CharClass)
  /\ seenMsr \subseteq MsrBits /\ disturbed \in {"no", "reset", "looped"}

LEMMA NewUartTyped == NewUart \in Uarts /\ Fits(NewUart)
  <1>1. Triggers[0] \in 1..FIFO_SIZE BY SerialAssumption
  <1>2. <<>> \in Seq(CharClass) /\ Len(<<>>) = 0 OBVIOUS
  <1>3. NewUart \in Uarts BY <1>1, <1>2 DEF NewUart, Uarts, CprFilterState, CpqPrefixes
  <1>4. Fits(NewUart) BY <1>2, SerialAssumption DEF NewUart, Fits
  <1>5. QED BY <1>3, <1>4

LEMMA PortInit == Init => PortTyped
  <1>1. SUFFICES ASSUME Init PROVE PortTyped OBVIOUS
  <1>2. <<>> \in Seq(CharClass) /\ <<>> \in Seq(CommandKeys) OBVIOUS
  <1>3. QED BY <1>1, <1>2, NewUartTyped, Zenon DEF Init, PortTyped

(* What the poll hands on. *)
LEMMA PollStep ==
  ASSUME PortTyped, Poll
  PROVE  \E m \in Muxes(CharClass) :
           /\ m = poll(armed, channel)
           /\ armed' = m.armed /\ channel' = <<>> /\ asked' = asked \o m.actions
           /\ \/ UNCHANGED <<uart, typed, disturbed>>
              \/ /\ m.guest # <<>> /\ uart' = queue_input(uart, m.guest)
                 /\ typed' = typed \o m.guest /\ Disturb("reset", ~uart.fifo_enabled)
           /\ UNCHANGED <<keyed, got, sent, shown, seenMsr>>
  <1>1. ESC_PREFIX \in CharClass BY DEF ESC_PREFIX, CharClass
  <1>2. poll(armed, channel) \in Muxes(CharClass) BY <1>1, PollTyped DEF PortTyped
  <1>3. QED BY <1>2, Zenon DEF Poll

LEMMA DisturbTyped ==
  ASSUME PortTyped, NEW by \in {"reset", "looped"}, NEW when \in BOOLEAN, Disturb(by, when)
  PROVE  disturbed' \in {"no", "reset", "looped"}
  BY DEF PortTyped, Disturb

LEMMA WithheldQueryTyped ==
  ASSUME NEW c \in CpqPrefixes
  PROVE  c \in Seq(CharClass)
  <1>1. "esc" \in CharClass /\ "[" \in CharClass /\ "6" \in CharClass BY DEF CharClass
  <1>2. /\ <<>> \in Seq(CharClass) /\ <<"esc">> \in Seq(CharClass)
        /\ <<"esc", "[">> \in Seq(CharClass) /\ <<"esc", "[", "6">> \in Seq(CharClass)
    BY <1>1
  <1>3. QED BY <1>2, Zenon DEF CpqPrefixes

LEMMA TransmittedTyped ==
  ASSUME NEW u \in Uarts, NEW b \in CharClass
  PROVE  Transmitted(u, b) \in Seq(CharClass)
  <1>1. u.cpq_buffer \in CpqPrefixes BY UartFields
  <1>2. u.cpq_buffer \in Seq(CharClass) BY <1>1, WithheldQueryTyped
  <1>3. Append(u.cpq_buffer, b) \in Seq(CharClass) /\ <<>> \in Seq(CharClass) BY <1>2
  <1>4. CpqStep(u.cpq_buffer, b).out \in {<<>>, Append(u.cpq_buffer, b)}
    BY Zenon DEF CpqStep
  <1>5. QED BY <1>3, <1>4, Zenon DEF Transmitted

LEMMA PortStep == PortTyped /\ [Next]_vars => PortTyped'
  <1>1. SUFFICES ASSUME PortTyped, [Next]_vars PROVE PortTyped' OBVIOUS
  <1>2. USE DEF PortTyped
  <1>3. ASSUME NEW bytes \in Inputs, Type(bytes) PROVE PortTyped'
    <2>1. bytes \in Seq(CharClass) BY SerialPortAssumption
    <2>2. channel \o bytes \in Seq(CharClass) /\ keyed \o bytes \in Seq(CharClass) BY <1>1, <2>1
    <2>3. QED BY <1>1, <1>3, <2>2 DEF Type
  <1>4. ASSUME Poll PROVE PortTyped'
    <2>1. PICK m \in Muxes(CharClass) :
            /\ m = poll(armed, channel)
            /\ armed' = m.armed /\ channel' = <<>> /\ asked' = asked \o m.actions
            /\ \/ UNCHANGED <<uart, typed, disturbed>>
               \/ /\ m.guest # <<>> /\ uart' = queue_input(uart, m.guest)
                  /\ typed' = typed \o m.guest /\ Disturb("reset", ~uart.fifo_enabled)
            /\ UNCHANGED <<keyed, got, sent, shown, seenMsr>>
      BY <1>1, <1>4, PollStep, Zenon
    <2>2. m.guest \in Seq(CharClass) /\ m.actions \in Seq(CommandKeys) /\ m.armed \in BOOLEAN
      BY DEF Muxes
    <2>3. /\ asked \o m.actions \in Seq(CommandKeys) /\ typed \o m.guest \in Seq(CharClass)
          /\ <<>> \in Seq(CharClass)
      BY <1>1, <2>2
    <2>4. queue_input(uart, m.guest) \in Uarts /\ Fits(queue_input(uart, m.guest))
      BY <1>1, <2>2, QueueFacts, Zenon
    <2>5. Disturb("reset", ~uart.fifo_enabled) => disturbed' \in {"no", "reset", "looped"}
      BY <1>1, DisturbTyped, Zenon
    <2>6. uart' \in Uarts /\ Fits(uart)' BY <1>1, <2>1, <2>4 DEF Fits
    <2>7. QED BY <1>1, <2>1, <2>2, <2>3, <2>5, <2>6, Zenon
  <1>5. ASSUME ReadData PROVE PortTyped'
    <2>1. uart' = read_rbr(uart) BY <1>5 DEF ReadData
    <2>2. uart' \in Uarts /\ Fits(uart') BY <1>1, <2>1, ReadFacts
    <2>3. got' \in Seq(CharClass)
      <3>1. uart.rx_fifo \in Seq(CharClass) BY <1>1, UartFields
      <3>2. uart.rx_fifo # <<>> => Append(got, Head(uart.rx_fifo)) \in Seq(CharClass)
        BY <1>1, <3>1
      <3>3. QED BY <1>1, <1>5, <3>2 DEF ReadData
    <2>4. QED BY <1>1, <1>5, <2>2, <2>3 DEF ReadData, console, Fits
  <1>6. ASSUME NEW byte \in Outputs, WriteData(byte) PROVE PortTyped'
    <2>1. byte \in CharClass BY SerialPortAssumption
    <2>2. uart' = transmit_byte(uart, byte) BY <1>6 DEF WriteData
    <2>3. uart' \in Uarts /\ Fits(uart') BY <1>1, <2>1, <2>2, TransmitFacts
    <2>4. Transmitted(uart, byte) \in Seq(CharClass) BY <1>1, <2>1, TransmittedTyped
    <2>5. /\ Append(sent, byte) \in Seq(CharClass)
          /\ shown \o Transmitted(uart, byte) \in Seq(CharClass)
      BY <1>1, <2>1, <2>4
    <2>6. disturbed' \in {"no", "reset", "looped"}
      <3>1. Disturb("looped", "LOOP" \in uart.mcr) BY <1>6 DEF WriteData
      <3>2. QED BY <1>1, <3>1 DEF Disturb
    <2>7. sent' \in Seq(CharClass) /\ shown' \in Seq(CharClass)
      BY <1>1, <1>6, <2>5, Zenon DEF WriteData
    <2>8. UNCHANGED <<armed, channel, keyed, asked, typed, got, seenMsr>>
      BY <1>6 DEF WriteData, console
    <2>9. QED BY <1>1, <2>3, <2>6, <2>7, <2>8 DEF Fits
  <1>7. ASSUME NEW bits \in IerWrites, WriteIer(bits) PROVE PortTyped'
    <2>1. uart' = write_ier(uart, bits) /\ bits \in SUBSET IerBits
      BY <1>7, SerialPortAssumption DEF WriteIer, Register
    <2>2. uart' \in Uarts /\ Untouched(uart, uart') BY <1>1, <2>1, IerFacts
    <2>3. Fits(uart)' BY <1>1, <2>2 DEF Untouched, Fits
    <2>4. QED BY <1>1, <1>7, <2>2, <2>3 DEF WriteIer, Register, console
  <1>8. ASSUME NEW v \in FcrWrites, WriteFcr(v) PROVE PortTyped'
    <2>1. uart' = write_fcr(uart, v)
          /\ v \in [enable : BOOLEAN, rx_reset : BOOLEAN, trigger : 0..3]
      BY <1>8, SerialPortAssumption DEF WriteFcr, Register
    <2>2. uart' \in Uarts /\ Fits(uart') BY <1>1, <2>1, FcrFacts
    <2>3. disturbed' \in {"no", "reset", "looped"} BY <1>1, <1>8 DEF WriteFcr, Disturb
    <2>4. QED BY <1>1, <1>8, <2>2, <2>3 DEF WriteFcr, Register, console, Fits
  <1>9. ASSUME NEW dlab \in LcrWrites, WriteLcr(dlab) PROVE PortTyped'
    <2>1. uart' = [uart EXCEPT !.dlab = dlab] /\ dlab \in BOOLEAN
      BY <1>9, SerialPortAssumption DEF WriteLcr, Register
    <2>2. uart' \in Uarts /\ Fits(uart)' BY <1>1, <2>1, LcrFacts DEF Untouched, Fits
    <2>3. QED BY <1>1, <1>9, <2>2 DEF WriteLcr, Register, console
  <1>10. ASSUME NEW bits \in McrWrites, WriteMcr(bits) PROVE PortTyped'
    <2>1. uart' = write_mcr(uart, bits) /\ bits \in SUBSET McrBits
      BY <1>10, SerialPortAssumption DEF WriteMcr, Register
    <2>2. uart' \in Uarts /\ Untouched(uart, uart') BY <1>1, <2>1, McrFacts
    <2>4. Fits(uart)' BY <1>1, <2>2 DEF Untouched, Fits
    <2>3. QED BY <1>1, <1>10, <2>2, <2>4 DEF WriteMcr, Register, console
  <1>11. ASSUME ReadIir \/ ReadLsr PROVE PortTyped'
    <2>1. uart' \in {read_iir(uart), read_lsr(uart)} BY <1>11 DEF ReadIir, ReadLsr, Register
    <2>2. uart' \in Uarts /\ Fits(uart)' BY <1>1, <2>1, IirFacts, LsrFacts DEF Untouched, Fits
    <2>3. QED BY <1>1, <1>11, <2>2 DEF ReadIir, ReadLsr, Register, console
  <1>12. ASSUME ReadMsr PROVE PortTyped'
    <2>1. uart' = read_msr(uart) BY <1>12 DEF ReadMsr, Register
    <2>2. uart' \in Uarts /\ Fits(uart)' BY <1>1, <2>1, MsrFacts DEF Untouched, Fits
    <2>3. uart.msr \subseteq MsrBits BY <1>1, UartFields
    <2>4. QED BY <1>1, <1>12, <2>2, <2>3 DEF ReadMsr, Register, console
  <1>13. ASSUME UNCHANGED vars PROVE PortTyped'
    BY <1>1, <1>13 DEF vars, console, Fits
  <1>14. QED
    BY <1>1, <1>3, <1>4, <1>5, <1>6, <1>7, <1>8, <1>9, <1>10, <1>11, <1>12, <1>13, Zenon
    DEF Next, GuestStep, Stopped

(* The device stays well-formed in every mode, and the receive FIFO never  *)
(* holds more than FIFO_SIZE bytes, or one while it is off (receive_byte,  *)
(* pump_input, write_fcr).                                                 *)
THEOREM PortIsTyped == Spec => []TypeOK
  <1>1. PortTyped => TypeOK BY DEF PortTyped, TypeOK, Fits
  <1>2. QED BY <1>1, PortInit, PortStep, PTL DEF Spec

-----------------------------------------------------------------------------
(* Modem status. *)

LEMMA DeltasCompose ==
  ASSUME NEW u, NEW w, Deltas(u, w), NEW seen,
         \A b \in MsrBits \ {"RI"} : (b \in u.msr) # (b \in seen) => b \in u.msr_delta
  PROVE  \A b \in MsrBits \ {"RI"} : (b \in w.msr) # (b \in seen) => b \in w.msr_delta
  <1>1. SUFFICES ASSUME NEW b \in MsrBits \ {"RI"}, (b \in w.msr) # (b \in seen)
                 PROVE  b \in w.msr_delta
    OBVIOUS
  <1>2. CASE (b \in u.msr) # (b \in w.msr) BY <1>2 DEF Deltas
  <1>3. CASE (b \in u.msr) # (b \in seen)
    <2>1. b \in u.msr_delta BY <1>3
    <2>2. QED BY <2>1 DEF Deltas
  <1>4. QED BY <1>1, <1>2, <1>3

LEMMA DeltaStep == PortTyped /\ DeltasAreKept /\ [Next]_vars => DeltasAreKept'
  <1>1. SUFFICES ASSUME PortTyped, DeltasAreKept, [Next]_vars PROVE DeltasAreKept' OBVIOUS
  <1>2. uart \in Uarts /\ Fits(uart) BY <1>1 DEF PortTyped
  <1>3. ASSUME uart'.msr = uart.msr, uart'.msr_delta = uart.msr_delta, UNCHANGED seenMsr
        PROVE  DeltasAreKept'
    BY <1>1, <1>3 DEF DeltasAreKept
  <1>4. ASSUME NEW bytes \in Inputs, Type(bytes) PROVE DeltasAreKept'
    BY <1>3, <1>4 DEF Type
  <1>5. ASSUME Poll PROVE DeltasAreKept'
    <2>1. PICK m \in Muxes(CharClass) :
            /\ \/ UNCHANGED uart
               \/ uart' = queue_input(uart, m.guest)
            /\ UNCHANGED seenMsr
      BY <1>1, <1>5, PollStep
    <2>2. m.guest \in Seq(CharClass) BY DEF Muxes
    <2>3. SameRegisters(uart, queue_input(uart, m.guest)) BY <1>2, <2>2, QueueFacts
    <2>4. uart'.msr = uart.msr /\ uart'.msr_delta = uart.msr_delta
      BY <2>1, <2>3 DEF SameRegisters
    <2>5. QED BY <1>3, <2>1, <2>4
  <1>6. ASSUME ReadData PROVE DeltasAreKept'
    <2>1. uart' = read_rbr(uart) /\ UNCHANGED seenMsr BY <1>6 DEF ReadData
    <2>2. SameRegisters(uart, uart') BY <1>2, <2>1, ReadFacts
    <2>3. QED BY <1>3, <2>1, <2>2 DEF SameRegisters
  <1>7. ASSUME NEW byte \in Outputs, WriteData(byte) PROVE DeltasAreKept'
    <2>1. uart' = transmit_byte(uart, byte) /\ UNCHANGED seenMsr BY <1>7 DEF WriteData
    <2>2. byte \in CharClass BY SerialPortAssumption
    <2>3. uart'.msr = uart.msr /\ uart'.msr_delta = uart.msr_delta
      BY <1>2, <2>1, <2>2, TransmitFacts
    <2>4. QED BY <1>3, <2>1, <2>3
  <1>8. ASSUME NEW bits \in IerWrites, WriteIer(bits) PROVE DeltasAreKept'
    <2>1. uart' = write_ier(uart, bits) /\ UNCHANGED seenMsr BY <1>8 DEF WriteIer, Register
    <2>2. bits \in SUBSET IerBits BY SerialPortAssumption
    <2>3. uart'.msr = uart.msr /\ uart'.msr_delta = uart.msr_delta
      BY <1>2, <2>1, <2>2, IerFacts
    <2>4. QED BY <1>3, <2>1, <2>3
  <1>9. ASSUME NEW v \in FcrWrites, WriteFcr(v) PROVE DeltasAreKept'
    <2>1. uart' = write_fcr(uart, v) /\ UNCHANGED seenMsr BY <1>9 DEF WriteFcr, Register
    <2>2. v \in [enable : BOOLEAN, rx_reset : BOOLEAN, trigger : 0..3] BY SerialPortAssumption
    <2>3. uart'.msr = uart.msr /\ uart'.msr_delta = uart.msr_delta
      BY <1>2, <2>1, <2>2, FcrFacts
    <2>4. QED BY <1>3, <2>1, <2>3
  <1>10. ASSUME NEW dlab \in LcrWrites, WriteLcr(dlab) PROVE DeltasAreKept'
    <2>1. uart' = [uart EXCEPT !.dlab = dlab] /\ UNCHANGED seenMsr
      BY <1>10 DEF WriteLcr, Register
    <2>2. dlab \in BOOLEAN BY SerialPortAssumption
    <2>3. uart'.msr = uart.msr /\ uart'.msr_delta = uart.msr_delta
      BY <1>2, <2>1, <2>2, LcrFacts
    <2>4. QED BY <1>3, <2>1, <2>3
  <1>11. ASSUME NEW bits \in McrWrites, WriteMcr(bits) PROVE DeltasAreKept'
    <2>1. uart' = write_mcr(uart, bits) /\ UNCHANGED seenMsr BY <1>11 DEF WriteMcr, Register
    <2>2. bits \in SUBSET McrBits BY SerialPortAssumption
    <2>3. Deltas(uart, uart') BY <1>2, <2>1, <2>2, McrFacts
    <2>4. \A b \in MsrBits \ {"RI"} :
            (b \in uart'.msr) # (b \in seenMsr) => b \in uart'.msr_delta
      BY <1>1, <2>3, DeltasCompose DEF DeltasAreKept
    <2>5. QED BY <2>1, <2>4 DEF DeltasAreKept
  <1>12. ASSUME ReadIir \/ ReadLsr PROVE DeltasAreKept'
    <2>1. uart' \in {read_iir(uart), read_lsr(uart)} /\ UNCHANGED seenMsr
      BY <1>12 DEF ReadIir, ReadLsr, Register
    <2>2. uart'.msr = uart.msr /\ uart'.msr_delta = uart.msr_delta
      BY <1>2, <2>1, IirFacts, LsrFacts
    <2>3. QED BY <1>3, <2>1, <2>2
  <1>13. ASSUME ReadMsr PROVE DeltasAreKept'
    <2>1. uart' = read_msr(uart) /\ seenMsr' = uart.msr BY <1>13 DEF ReadMsr, Register
    <2>2. uart'.msr = seenMsr' BY <1>2, <2>1, MsrFacts
    <2>3. QED BY <2>2 DEF DeltasAreKept
  <1>14. ASSUME UNCHANGED vars PROVE DeltasAreKept'
    BY <1>3, <1>14 DEF vars
  <1>15. QED
    BY <1>1, <1>4, <1>5, <1>6, <1>7, <1>8, <1>9, <1>10, <1>11, <1>12, <1>13, <1>14
    DEF Next, GuestStep, Stopped

(* A modem input that differs from what the guest read last has its delta  *)
(* bit set, whatever the guest wrote to MCR in between and however often   *)
(* the input changed (update_modem_status, write_mcr, read_msr).           *)
THEOREM NoDeltaIsLost == Spec => []DeltasAreKept
  <1>1. Init => DeltasAreKept BY DEF Init, NewUart, DeltasAreKept
  <1>2. QED BY <1>1, PortInit, PortStep, DeltaStep, PTL DEF Spec

-----------------------------------------------------------------------------
(* The receive path.  While the guest leaves it alone, input finds the     *)
(* FIFO on, and a byte stays staged only in front of a full FIFO.          *)
FifoServes ==
  disturbed = "no" =>
    /\ typed # <<>> => uart.fifo_enabled
    /\ typed = <<>> => uart.rx_fifo = <<>> /\ uart.input_buffer = <<>>
    /\ uart.input_buffer # <<>> => Len(uart.rx_fifo) = FIFO_SIZE

(* The steps that leave the receive path alone. *)
LEMMA OtherSteps ==
  ASSUME PortTyped,
         \/ \E byte \in Outputs : WriteData(byte)
         \/ \E bits \in IerWrites : WriteIer(bits)
         \/ \E dlab \in LcrWrites : WriteLcr(dlab)
         \/ \E bits \in McrWrites : WriteMcr(bits)
         \/ ReadIir \/ ReadLsr \/ ReadMsr
  PROVE  /\ UNCHANGED <<typed, got, armed, channel, keyed, asked>>
         /\ uart'.fifo_enabled = uart.fifo_enabled
         /\ \/ disturbed' = "looped"
            \/ /\ UNCHANGED disturbed
               /\ uart'.rx_fifo = uart.rx_fifo /\ uart'.input_buffer = uart.input_buffer
               /\ uart'.cpr_state = uart.cpr_state
  <1>1. uart \in Uarts /\ Fits(uart) /\ disturbed \in {"no", "reset", "looped"}
    BY DEF PortTyped
  <1>2. UNCHANGED <<typed, got, armed, channel, keyed, asked>>
    BY DEF WriteData, WriteIer, WriteLcr, WriteMcr, ReadIir, ReadLsr, ReadMsr, Register, console
  <1>3. ASSUME NEW byte \in Outputs, WriteData(byte)
        PROVE  /\ uart'.fifo_enabled = uart.fifo_enabled
               /\ \/ disturbed' = "looped"
                  \/ /\ UNCHANGED disturbed
                     /\ uart'.rx_fifo = uart.rx_fifo /\ uart'.input_buffer = uart.input_buffer
                     /\ uart'.cpr_state = uart.cpr_state
    <2>1. byte \in CharClass BY SerialPortAssumption
    <2>2. uart' = transmit_byte(uart, byte) /\ Disturb("looped", "LOOP" \in uart.mcr)
      BY <1>3 DEF WriteData
    <2>3. /\ uart'.fifo_enabled = uart.fifo_enabled
          /\ "LOOP" \notin uart.mcr =>
               /\ uart'.rx_fifo = uart.rx_fifo /\ uart'.input_buffer = uart.input_buffer
               /\ uart'.cpr_state = uart.cpr_state
      BY <1>1, <2>1, <2>2, TransmitFacts
    <2>4. CASE "LOOP" \in uart.mcr
      <3>1. disturbed' = "looped" BY <1>1, <2>2, <2>4 DEF Disturb
      <3>2. QED BY <2>3, <3>1
    <2>5. CASE "LOOP" \notin uart.mcr
      <3>1. UNCHANGED disturbed BY <2>2, <2>5 DEF Disturb
      <3>2. QED BY <2>3, <2>5, <3>1
    <2>6. QED BY <2>4, <2>5
  <1>4. ASSUME Untouched(uart, uart'), UNCHANGED disturbed
        PROVE  /\ uart'.fifo_enabled = uart.fifo_enabled /\ UNCHANGED disturbed
               /\ uart'.rx_fifo = uart.rx_fifo /\ uart'.input_buffer = uart.input_buffer
               /\ uart'.cpr_state = uart.cpr_state
    BY <1>4 DEF Untouched
  <1>5. ASSUME NEW bits \in IerWrites, WriteIer(bits)
        PROVE  Untouched(uart, uart') /\ UNCHANGED disturbed
    BY <1>1, <1>5, SerialPortAssumption, IerFacts DEF WriteIer, Register
  <1>6. ASSUME NEW dlab \in LcrWrites, WriteLcr(dlab)
        PROVE  Untouched(uart, uart') /\ UNCHANGED disturbed
    BY <1>1, <1>6, SerialPortAssumption, LcrFacts DEF WriteLcr, Register
  <1>7. ASSUME NEW bits \in McrWrites, WriteMcr(bits)
        PROVE  Untouched(uart, uart') /\ UNCHANGED disturbed
    BY <1>1, <1>7, SerialPortAssumption, McrFacts DEF WriteMcr, Register
  <1>8. ASSUME ReadIir \/ ReadLsr \/ ReadMsr
        PROVE  Untouched(uart, uart') /\ UNCHANGED disturbed
    BY <1>1, <1>8, IirFacts, LsrFacts, MsrFacts DEF ReadIir, ReadLsr, ReadMsr, Register
  <1>9. QED BY <1>2, <1>3, <1>4, <1>5, <1>6, <1>7, <1>8

LEMMA FifoStep == PortTyped /\ FifoServes /\ [Next]_vars => FifoServes'
  <1>1. SUFFICES ASSUME PortTyped, FifoServes, [Next]_vars, disturbed' = "no"
                 PROVE  FifoServes'
    BY DEF FifoServes
  <1>2. /\ uart \in Uarts /\ Fits(uart) /\ typed \in Seq(CharClass)
        /\ uart.rx_fifo \in Seq(CharClass) /\ uart.input_buffer \in Seq(CharClass)
    BY <1>1, UartFields DEF PortTyped
  <1>3. ASSUME UNCHANGED <<uart, typed, disturbed>> PROVE FifoServes'
    BY <1>1, <1>3 DEF FifoServes
  <1>4. ASSUME NEW bytes \in Inputs, Type(bytes) PROVE FifoServes'
    BY <1>3, <1>4 DEF Type
  <1>5. ASSUME Poll PROVE FifoServes'
    <2>1. PICK m \in Muxes(CharClass) :
            \/ UNCHANGED <<uart, typed, disturbed>>
            \/ /\ m.guest # <<>> /\ uart' = queue_input(uart, m.guest)
               /\ typed' = typed \o m.guest /\ Disturb("reset", ~uart.fifo_enabled)
      BY <1>1, <1>5, PollStep
    <2>2. m.guest \in Seq(CharClass) BY DEF Muxes
    <2>3. ASSUME m.guest # <<>>, uart' = queue_input(uart, m.guest),
                 typed' = typed \o m.guest, Disturb("reset", ~uart.fifo_enabled)
          PROVE  FifoServes'
      <3>1. uart.fifo_enabled BY <1>1, <2>3 DEF Disturb
      <3>2. typed' # <<>> BY <1>2, <2>2, <2>3
      <3>3. /\ SameRegisters(uart, uart')
            /\ uart'.input_buffer # <<>> => Len(uart'.rx_fifo) = FIFO_SIZE
        BY <1>2, <2>2, <2>3, <3>1, QueueFacts
      <3>4. uart'.fifo_enabled BY <3>1, <3>3 DEF SameRegisters
      <3>5. QED BY <3>2, <3>3, <3>4 DEF FifoServes
    <2>4. QED BY <1>3, <2>1, <2>3
  <1>6. ASSUME ReadData PROVE FifoServes'
    <2>1. uart' = read_rbr(uart) /\ UNCHANGED <<typed, disturbed>>
      BY <1>6 DEF ReadData, console
    <2>2. /\ typed # <<>> => uart.fifo_enabled
          /\ typed = <<>> => uart.rx_fifo = <<>> /\ uart.input_buffer = <<>>
      BY <1>1, <2>1 DEF FifoServes
    <2>3. PICK rx \in Seq(CharClass) : rx = Rest(uart.rx_fifo)
      <3>1. Rest(uart.rx_fifo) \in Seq(CharClass) BY <1>2 DEF Rest
      <3>2. QED BY <3>1, Zenon
    <2>4. /\ uart' \in Uarts /\ SameRegisters(uart, uart')
          /\ uart.fifo_enabled =>
               /\ uart'.rx_fifo \o uart'.input_buffer = rx \o uart.input_buffer
               /\ uart'.input_buffer # <<>> => Len(uart'.rx_fifo) = FIFO_SIZE
          /\ ~uart.fifo_enabled =>
               /\ uart'.input_buffer = <<>>
               /\ uart.input_buffer = <<>> => uart'.rx_fifo = rx
      <3>1. uart' \in Uarts /\ SameRegisters(uart, uart') /\ Refills(uart, rx, uart')
        BY <1>2, <2>1, <2>3, ReadFacts
      <3>2. QED BY <3>1, Zenon DEF Refills
    <2>5. uart'.rx_fifo \in Seq(CharClass) /\ uart'.input_buffer \in Seq(CharClass)
      BY <2>4, UartFields
    <2>6. CASE typed # <<>>
      <3>1. uart'.fifo_enabled BY <2>2, <2>4, <2>6 DEF SameRegisters
      <3>2. QED BY <2>1, <2>2, <2>4, <2>6, <3>1, Zenon DEF FifoServes
    <2>7. CASE typed = <<>>
      <3>1. rx = <<>> /\ uart.input_buffer = <<>> BY <2>2, <2>3, <2>7 DEF Rest
      <3>2. uart.fifo_enabled => uart'.rx_fifo \o uart'.input_buffer = <<>> \o <<>>
        BY <2>4, <3>1, Zenon
      <3>3. uart'.rx_fifo = <<>> /\ uart'.input_buffer = <<>>
        <4>1. CASE uart.fifo_enabled BY <2>5, <3>2, <4>1
        <4>2. CASE ~uart.fifo_enabled BY <2>4, <3>1, <4>2
        <4>3. QED BY <4>1, <4>2
      <3>4. QED BY <2>1, <2>7, <3>3 DEF FifoServes
    <2>8. QED BY <2>6, <2>7
  <1>7. ASSUME NEW v \in FcrWrites, WriteFcr(v) PROVE FifoServes'
    <2>1. /\ uart' = write_fcr(uart, v) /\ UNCHANGED typed
          /\ Disturb("reset", typed # <<>> /\ (~v.enable \/ v.rx_reset))
      BY <1>7 DEF WriteFcr, Register, console
    <2>2. v \in [enable : BOOLEAN, rx_reset : BOOLEAN, trigger : 0..3] BY SerialPortAssumption
    <2>3. /\ uart'.fifo_enabled = v.enable /\ uart'.input_buffer = uart.input_buffer
          /\ uart'.rx_fifo = IF v.enable # uart.fifo_enabled \/ v.rx_reset THEN <<>>
                             ELSE uart.rx_fifo
      BY <1>2, <2>1, <2>2, FcrFacts
    <2>4. disturbed = "no" /\ (typed = <<>> \/ (v.enable /\ ~v.rx_reset))
      BY <1>1, <2>1 DEF Disturb, PortTyped
    <2>5. CASE typed = <<>>
      <3>1. uart'.rx_fifo = <<>> /\ uart'.input_buffer = <<>>
        BY <1>1, <2>3, <2>4, <2>5 DEF FifoServes
      <3>2. QED BY <2>1, <2>5, <3>1 DEF FifoServes
    <2>6. CASE typed # <<>>
      <3>1. uart.fifo_enabled /\ v.enable /\ ~v.rx_reset BY <1>1, <2>4, <2>6 DEF FifoServes
      <3>2. uart'.fifo_enabled /\ uart'.rx_fifo = uart.rx_fifo
        BY <1>2, <2>2, <2>3, <3>1
      <3>3. QED BY <1>1, <2>1, <2>3, <2>4, <2>6, <3>2, Zenon DEF FifoServes
    <2>7. QED BY <2>5, <2>6
  <1>8. ASSUME \/ \E byte \in Outputs : WriteData(byte)
               \/ \E bits \in IerWrites : WriteIer(bits)
               \/ \E dlab \in LcrWrites : WriteLcr(dlab)
               \/ \E bits \in McrWrites : WriteMcr(bits)
               \/ ReadIir \/ ReadLsr \/ ReadMsr
        PROVE  FifoServes'
    <2>1. /\ UNCHANGED <<typed, disturbed>> /\ uart'.fifo_enabled = uart.fifo_enabled
          /\ uart'.rx_fifo = uart.rx_fifo /\ uart'.input_buffer = uart.input_buffer
      BY <1>1, <1>8, OtherSteps
    <2>2. QED BY <1>1, <2>1 DEF FifoServes
  <1>9. QED BY <1>1, <1>3, <1>4, <1>5, <1>6, <1>7, <1>8
    DEF Next, GuestStep, Stopped, vars, console

(* However the guest reads and the host pastes: while the FIFO is on, a    *)
(* staged byte waits only behind a full FIFO (pump_input's loop condition, *)
(* and its calls in queue_input and read_rbr).                             *)
THEOREM StagedBehindFullFifo == Spec => []Metered
  <1>1. Init => FifoServes BY DEF Init, NewUart, FifoServes
  <1>2. FifoServes => Metered BY DEF FifoServes, Metered
  <1>3. QED BY <1>1, <1>2, PortInit, PortStep, FifoStep, PTL DEF Spec

-----------------------------------------------------------------------------
(* Input without ESC, which the cursor-position filter never withholds. *)
Plain == CharClass \ {"esc"}

Delivers ==
  /\ channel \in Seq(Plain)
  /\ disturbed = "no" => uart.cpr_state = "Normal" /\ Stream = typed

(* Sequences: what a read and a burst do to the stream. *)
Joined(x, y, f, b, s) == x \o y = f \o (b \o s)
Advanced(x, y, f, b) == f # <<>> /\ x \o y = Tail(f) \o b

Lengthens(t, s, u) == u = t \o s

LEMMA HeadMoves ==
  ASSUME NEW A, NEW g \in Seq(A), NEW f \in Seq(A), NEW b \in Seq(A),
         NEW x \in Seq(A), NEW y \in Seq(A), Advanced(x, y, f, b)
  PROVE  Path(Append(g, Head(f)), x, y) = Path(g, f, b)
  <1>1. PICK r \in Seq(A) : r = Tail(f)
    <2>1. Tail(f) \in Seq(A) BY DEF Advanced
    <2>2. QED BY <2>1, Zenon
  <1>2. PICK h \in A : h = Head(f)
    <2>1. Head(f) \in A BY DEF Advanced
    <2>2. QED BY <2>1, Zenon
  <1>3. f = <<h>> \o r BY <1>1, <1>2 DEF Advanced
  <1>4. PICK p \in Seq(A) : p = Append(g, h)
    <2>1. Append(g, h) \in Seq(A) OBVIOUS
    <2>2. QED BY <2>1, Zenon
  <1>5. Regroups(p, x, y) BY Regroup
  <1>6. Regroups(p, r, b) BY Regroup
  <1>7. p \o r = g \o f BY <1>3, <1>4
  <1>8. x \o y = r \o b BY <1>1 DEF Advanced
  <1>9. QED BY <1>1, <1>2, <1>4, <1>5, <1>6, <1>7, <1>8, Zenon DEF Path, Regroups

LEMMA BurstJoins ==
  ASSUME NEW A, NEW g \in Seq(A), NEW f \in Seq(A), NEW b \in Seq(A), NEW s \in Seq(A),
         NEW x \in Seq(A), NEW y \in Seq(A), Joined(x, y, f, b, s)
  PROVE  Lengthens(Path(g, f, b), s, Path(g, x, y))
  <1>1. Regroups(g, x, y) BY Regroup
  <1>2. PICK q \in Seq(A) : q = b \o s
    <2>1. b \o s \in Seq(A) OBVIOUS
    <2>2. QED BY <2>1, Zenon
  <1>3. Regroups(g, f, q) BY Regroup
  <1>4. PICK p \in Seq(A) : p = g \o f
    <2>1. g \o f \in Seq(A) OBVIOUS
    <2>2. QED BY <2>1, Zenon
  <1>5. Regroups(p, b, s) BY Regroup
  <1>6. QED BY <1>1, <1>2, <1>3, <1>4, <1>5, Zenon DEF Path, Joined, Regroups, Lengthens

LEMMA DeliverStep ==
  ASSUME Inputs \subseteq Seq(Plain), PortTyped, FifoServes, Delivers, [Next]_vars
  PROVE  Delivers'
  <1>1. /\ uart \in Uarts /\ Fits(uart) /\ typed \in Seq(CharClass) /\ got \in Seq(CharClass)
        /\ uart.rx_fifo \in Seq(CharClass) /\ uart.input_buffer \in Seq(CharClass)
        /\ armed \in BOOLEAN /\ disturbed \in {"no", "reset", "looped"}
    BY UartFields DEF PortTyped
  <1>2. ASSUME UNCHANGED <<uart, typed, disturbed, got>>, channel' \in Seq(Plain)
        PROVE  Delivers'
    BY <1>2, Zenon DEF Delivers, Stream
  <1>3. ASSUME NEW bytes \in Inputs, Type(bytes) PROVE Delivers'
    <2>1. channel \o bytes \in Seq(Plain) BY DEF Delivers
    <2>2. QED BY <1>2, <1>3, <2>1 DEF Type
  <1>4. ASSUME Poll PROVE Delivers'
    <2>1. PICK m \in Muxes(CharClass) :
            /\ m = poll(armed, channel) /\ channel' = <<>>
            /\ \/ UNCHANGED <<uart, typed, disturbed>>
               \/ /\ m.guest # <<>> /\ uart' = queue_input(uart, m.guest)
                  /\ typed' = typed \o m.guest /\ Disturb("reset", ~uart.fifo_enabled)
            /\ UNCHANGED got
      BY <1>4, PollStep
    <2>2. m.guest \in Seq(CharClass) /\ m.guest \in Seq(Plain) /\ <<>> \in Seq(Plain)
      <3>1. ESC_PREFIX \in Plain BY DEF ESC_PREFIX, Plain, CharClass
      <3>2. m \in Muxes(Plain) BY <1>1, <2>1, <3>1, PollTyped DEF Delivers
      <3>3. QED BY <3>2 DEF Muxes
    <2>3. ASSUME uart' = queue_input(uart, m.guest), typed' = typed \o m.guest,
                 Disturb("reset", ~uart.fifo_enabled), disturbed' = "no"
          PROVE  uart'.cpr_state = "Normal" /\ Stream' = typed'
      <3>1. uart.fifo_enabled /\ disturbed = "no" BY <1>1, <2>3 DEF Disturb
      <3>2. uart.cpr_state = "Normal" /\ Stream = typed BY <3>1 DEF Delivers
      <3>3. \A i \in 1..Len(m.guest) : m.guest[i] # "esc" BY <2>2 DEF Plain
      <3>4. uart' \in Uarts /\ Joins(uart, m.guest, uart')
        BY <1>1, <2>2, <2>3, <3>1, <3>2, <3>3, QueueFacts, Zenon
      <3>5. uart'.rx_fifo \in Seq(CharClass) /\ uart'.input_buffer \in Seq(CharClass)
        BY <3>4, UartFields
      <3>6. /\ uart'.cpr_state = "Normal"
            /\ Joined(uart'.rx_fifo, uart'.input_buffer, uart.rx_fifo, uart.input_buffer, m.guest)
        BY <3>4 DEF Joins, Joined
      <3>7. Lengthens(Path(got, uart.rx_fifo, uart.input_buffer), m.guest,
                      Path(got, uart'.rx_fifo, uart'.input_buffer))
        BY <1>1, <2>2, <3>5, <3>6, BurstJoins, Zenon
      <3>8. QED BY <2>1, <2>3, <3>2, <3>6, <3>7, Zenon DEF Stream, Path, Lengthens
    <2>4. QED BY <1>2, <2>1, <2>2, <2>3 DEF Delivers
  <1>5. ASSUME ReadData PROVE Delivers'
    <2>1. /\ uart' = read_rbr(uart) /\ UNCHANGED <<typed, disturbed, channel>>
          /\ got' = IF uart.rx_fifo = <<>> THEN got ELSE Append(got, Head(uart.rx_fifo))
      BY <1>5 DEF ReadData, console
    <2>2. PICK rx \in Seq(CharClass) : rx = Rest(uart.rx_fifo)
      <3>1. Rest(uart.rx_fifo) \in Seq(CharClass) BY <1>1 DEF Rest
      <3>2. QED BY <3>1, Zenon
    <2>3. uart' \in Uarts /\ uart'.cpr_state = uart.cpr_state /\ Refills(uart, rx, uart')
      BY <1>1, <2>1, <2>2, ReadFacts
    <2>4. uart'.rx_fifo \in Seq(CharClass) /\ uart'.input_buffer \in Seq(CharClass)
      BY <2>3, UartFields
    <2>5. ASSUME disturbed = "no" PROVE Stream' = typed
      <3>1. Stream = typed BY <2>5 DEF Delivers
      <3>2. CASE uart.fifo_enabled
        <4>1. uart'.rx_fifo \o uart'.input_buffer = rx \o uart.input_buffer
          BY <2>3, <3>2, Zenon DEF Refills
        <4>2. CASE uart.rx_fifo # <<>>
          <5>1. rx = Tail(uart.rx_fifo) /\ got' = Append(got, Head(uart.rx_fifo))
            BY <2>1, <2>2, <4>2 DEF Rest
          <5>2. Advanced(uart'.rx_fifo, uart'.input_buffer, uart.rx_fifo, uart.input_buffer)
            BY <4>1, <4>2, <5>1 DEF Advanced
          <5>3. Path(got', uart'.rx_fifo, uart'.input_buffer)
                  = Path(got, uart.rx_fifo, uart.input_buffer)
            BY <1>1, <2>4, <5>1, <5>2, HeadMoves
          <5>4. QED BY <3>1, <5>3, Zenon DEF Stream, Path
        <4>3. CASE uart.rx_fifo = <<>>
          <5>1. rx = uart.rx_fifo /\ got' = got BY <2>1, <2>2, <4>3 DEF Rest
          <5>2. Joined(uart'.rx_fifo, uart'.input_buffer, uart.rx_fifo, uart.input_buffer, <<>>)
            <6>1. uart.input_buffer \o <<>> = uart.input_buffer BY <1>1
            <6>2. QED BY <4>1, <5>1, <6>1 DEF Joined
          <5>3. Lengthens(Path(got, uart.rx_fifo, uart.input_buffer), <<>>,
                          Path(got, uart'.rx_fifo, uart'.input_buffer))
            <6>1. <<>> \in Seq(CharClass) OBVIOUS
            <6>2. QED BY <1>1, <2>4, <5>2, <6>1, BurstJoins, Zenon
          <5>4. typed \o <<>> = typed BY <1>1
          <5>5. QED BY <3>1, <5>1, <5>3, <5>4, Zenon DEF Stream, Path, Lengthens
        <4>4. QED BY <4>2, <4>3
      <3>3. CASE ~uart.fifo_enabled
        <4>1. uart.rx_fifo = <<>> /\ uart.input_buffer = <<>>
          BY <2>5, <3>3 DEF FifoServes
        <4>2. uart'.rx_fifo = <<>> /\ uart'.input_buffer = <<>> /\ got' = got
          BY <2>1, <2>2, <2>3, <3>3, <4>1 DEF Refills, Rest
        <4>3. QED BY <3>1, <4>1, <4>2, Zenon DEF Stream
      <3>4. QED BY <3>2, <3>3
    <2>6. QED BY <2>1, <2>3, <2>5 DEF Delivers
  <1>6. ASSUME NEW v \in FcrWrites, WriteFcr(v) PROVE Delivers'
    <2>1. /\ uart' = write_fcr(uart, v) /\ UNCHANGED <<typed, channel, got>>
          /\ Disturb("reset", typed # <<>> /\ (~v.enable \/ v.rx_reset))
      BY <1>6 DEF WriteFcr, Register, console
    <2>2. v \in [enable : BOOLEAN, rx_reset : BOOLEAN, trigger : 0..3] BY SerialPortAssumption
    <2>3. /\ uart'.input_buffer = uart.input_buffer /\ uart'.cpr_state = uart.cpr_state
          /\ uart'.rx_fifo = IF v.enable # uart.fifo_enabled \/ v.rx_reset THEN <<>>
                             ELSE uart.rx_fifo
      BY <1>1, <2>1, <2>2, FcrFacts
    <2>4. ASSUME disturbed' = "no" PROVE uart'.rx_fifo = uart.rx_fifo /\ disturbed = "no"
      <3>1. disturbed = "no" /\ (typed = <<>> \/ (v.enable /\ ~v.rx_reset))
        BY <1>1, <2>1, <2>4 DEF Disturb
      <3>2. CASE typed = <<>>
        BY <2>3, <3>1, <3>2 DEF FifoServes
      <3>3. CASE typed # <<>>
        <4>1. uart.fifo_enabled /\ v.enable /\ ~v.rx_reset BY <3>1, <3>3 DEF FifoServes
        <4>2. QED BY <2>2, <2>3, <3>1, <4>1
      <3>4. QED BY <3>2, <3>3
    <2>5. QED BY <2>1, <2>3, <2>4, Zenon DEF Delivers, Stream
  <1>7. ASSUME \/ \E byte \in Outputs : WriteData(byte)
               \/ \E bits \in IerWrites : WriteIer(bits)
               \/ \E dlab \in LcrWrites : WriteLcr(dlab)
               \/ \E bits \in McrWrites : WriteMcr(bits)
               \/ ReadIir \/ ReadLsr \/ ReadMsr
        PROVE  Delivers'
    <2>1. /\ UNCHANGED <<typed, got, channel>>
          /\ \/ disturbed' = "looped"
             \/ /\ UNCHANGED disturbed
                /\ uart'.rx_fifo = uart.rx_fifo /\ uart'.input_buffer = uart.input_buffer
                /\ uart'.cpr_state = uart.cpr_state
      BY <1>7, OtherSteps
    <2>2. QED BY <2>1, Zenon DEF Delivers, Stream
  <1>8. ASSUME UNCHANGED vars PROVE Delivers'
    BY <1>8, Zenon DEF vars, console, Delivers, Stream
  <1>9. QED BY <1>3, <1>4, <1>5, <1>6, <1>7, <1>8 DEF Next, GuestStep, Stopped

(* A paste of any length reaches the guest complete and in order, however  *)
(* the polls and the guest's reads divide it: while the guest leaves the   *)
(* FIFO on, what it has read, the FIFO and the staged bytes make up what   *)
(* was typed (queue_input, pump_input, read_rbr).  The assumption sets     *)
(* aside ESC, which the cursor-position filter may withhold or drop.       *)
THEOREM PasteTheorem ==
  ASSUME Inputs \subseteq Seq(Plain)
  PROVE  Spec => []PasteIsDelivered
  <1>1. Init => FifoServes BY DEF Init, NewUart, FifoServes
  <1>2. Init => Delivers
    <2>1. <<>> \in Seq(Plain) /\ <<>> \o <<>> \o <<>> = <<>> OBVIOUS
    <2>2. QED BY <2>1 DEF Init, NewUart, Delivers, Stream
  <1>3. Delivers => PasteIsDelivered BY DEF Delivers, PasteIsDelivered
  <1>4. PortTyped /\ FifoServes /\ Delivers /\ [Next]_vars => Delivers' BY DeliverStep
  <1>5. QED BY <1>1, <1>2, <1>3, <1>4, PortInit, PortStep, FifoStep, PTL DEF Spec

-----------------------------------------------------------------------------
(* Typing order: what is on its way is embedded in what was typed. *)
Ordered == disturbed # "looped" => Embeds(Held(got, uart), typed)

LEMMA EmbedsIsSubsequence ==
  ASSUME NEW A, NEW a \in Seq(A), NEW t \in Seq(A), Embeds(a, t)
  PROVE  IsSubsequence(a, t)
  <1>1. PICK f : Places(f, a, t) BY DEF Embeds
  <1>2. Len(a) \in Nat /\ Len(t) \in Nat OBVIOUS
  <1>3. \A x \in 0..Len(a), b \in A : Matched(a, x, b) \in 0..Len(a) BY <1>2 DEF Matched
  <1>4. PICK h : MatchesAll(h, 0..Len(a), a, 0, t)
    <2>1. 0 \in 0..Len(a) BY <1>2
    <2>2. QED BY <1>3, <2>1, MatchFold, Zenon
  <1>5. /\ \A k \in 0..Len(t) : h[k] \in 0..Len(a)
        /\ \A k \in 1..Len(t) : h[k] = Matched(a, h[k - 1], t[k])
        /\ h[0] = 0
    BY <1>4 DEF MatchesAll
  <1>13. FoldLeft(LAMBDA i, c : Matched(a, i, c), 0, t) = h[Len(t)] BY <1>4 DEF MatchesAll
  <1>6. PICK Q : Q = {k \in 0..Len(t) : \A i \in 1..Len(a) : f[i] <= k => i <= h[k]} BY Zenon
  <1>7. 0 \in Q
    <2>1. \A i \in 1..Len(a) : f[i] \in 1..Len(t) BY <1>1 DEF Places
    <2>2. \A i \in 1..Len(a) : ~(f[i] <= 0) BY <1>2, <2>1
    <2>3. 0 \in 0..Len(t) BY <1>2
    <2>4. QED BY <1>6, <2>2, <2>3
  <1>8. ASSUME NEW k \in 1..Len(t), k - 1 \in Q PROVE k \in Q
    <2>1. k \in 0..Len(t) /\ k - 1 \in 0..Len(t) /\ k \in Int BY <1>2
    <2>2. h[k - 1] \in 0..Len(a) /\ h[k] \in 0..Len(a) /\ h[k] = Matched(a, h[k - 1], t[k])
      BY <1>5, <2>1
    <2>3. h[k] >= h[k - 1] BY <1>2, <2>2 DEF Matched
    <2>4. \A i \in 1..Len(a) : f[i] <= k - 1 => i <= h[k - 1] BY <1>6, <1>8
    <2>5. SUFFICES ASSUME NEW i \in 1..Len(a), f[i] <= k PROVE i <= h[k]
      BY <1>6, <2>1
    <2>6. f[i] \in 1..Len(t) /\ a[i] = t[f[i]] BY <1>1 DEF Places
    <2>7. CASE f[i] <= k - 1
      <3>1. i <= h[k - 1] BY <2>4, <2>7
      <3>2. QED BY <1>2, <2>2, <2>3, <3>1
    <2>8. CASE ~(f[i] <= k - 1)
      <3>1. f[i] = k /\ a[i] = t[k] BY <2>1, <2>5, <2>6, <2>8
      <3>2. i - 1 <= h[k - 1]
        <4>1. CASE i = 1 BY <2>2, <4>1
        <4>2. CASE i # 1
          <5>1. i - 1 \in 1..Len(a) /\ i - 1 < i BY <1>2, <4>2
          <5>2. f[i - 1] < f[i] /\ f[i - 1] \in 1..Len(t) BY <1>1, <5>1, Zenon DEF Places
          <5>3. f[i - 1] <= k - 1 BY <2>1, <3>1, <5>2
          <5>4. QED BY <2>4, <5>1, <5>3
        <4>3. QED BY <4>1, <4>2
      <3>3. CASE i <= h[k - 1] BY <1>2, <2>2, <2>3, <3>3
      <3>4. CASE ~(i <= h[k - 1])
        <4>1. h[k - 1] = i - 1 /\ h[k - 1] < Len(a) BY <1>2, <2>2, <3>2, <3>4
        <4>2. a[h[k - 1] + 1] = t[k] BY <1>2, <3>1, <4>1
        <4>3. h[k] = h[k - 1] + 1 BY <2>2, <4>1, <4>2 DEF Matched
        <4>4. QED BY <1>2, <4>1, <4>3
      <3>5. QED BY <3>3, <3>4
    <2>9. QED BY <2>7, <2>8
  <1>9. Len(t) \in Q
    <2>1. \A k \in 0..Len(t) : k \in Q BY <1>2, <1>7, <1>8, IndexInduction, Zenon
    <2>2. QED BY <1>2, <2>1
  <1>10. h[Len(t)] \in 0..Len(a)
    <2>1. Len(t) \in 0..Len(t) BY <1>2
    <2>2. QED BY <1>5, <2>1
  <1>11. Len(a) <= h[Len(t)]
    <2>1. CASE Len(a) = 0 BY <1>10, <2>1
    <2>2. CASE Len(a) # 0
      <3>1. Len(a) \in 1..Len(a) BY <1>2, <2>2
      <3>2. f[Len(a)] \in 1..Len(t) BY <1>1, <3>1 DEF Places
      <3>3. f[Len(a)] <= Len(t) BY <1>2, <3>2
      <3>4. QED BY <1>6, <1>9, <3>1, <3>3
    <2>3. QED BY <2>1, <2>2
  <1>12. h[Len(t)] = Len(a) BY <1>2, <1>10, <1>11
  <1>14. Len(a) = FoldLeft(LAMBDA i, c : Matched(a, i, c), 0, t) BY <1>12, <1>13, Zenon
  <1>15. QED BY <1>14, Zenon DEF IsSubsequence, Matched


LEMMA OrderStep == PortTyped /\ Ordered /\ [Next]_vars => Ordered'
  <1>1. SUFFICES ASSUME PortTyped, Ordered, [Next]_vars, disturbed' # "looped"
                 PROVE  Embeds(Held(got', uart'), typed')
    BY DEF Ordered
  <1>2. /\ uart \in Uarts /\ Fits(uart) /\ typed \in Seq(CharClass) /\ got \in Seq(CharClass)
        /\ uart.rx_fifo \in Seq(CharClass) /\ uart.input_buffer \in Seq(CharClass)
    BY <1>1, UartFields DEF PortTyped
  <1>3. ASSUME UNCHANGED <<uart, typed, disturbed, got>> PROVE Embeds(Held(got', uart'), typed')
    BY <1>1, <1>3 DEF Ordered
  <1>4. ASSUME NEW bytes \in Inputs, Type(bytes) PROVE Embeds(Held(got', uart'), typed')
    BY <1>3, <1>4 DEF Type
  <1>5. ASSUME Poll PROVE Embeds(Held(got', uart'), typed')
    <2>1. PICK m \in Muxes(CharClass) :
            /\ \/ UNCHANGED <<uart, typed, disturbed>>
               \/ /\ m.guest # <<>> /\ uart' = queue_input(uart, m.guest)
                  /\ typed' = typed \o m.guest /\ Disturb("reset", ~uart.fifo_enabled)
            /\ UNCHANGED got
      BY <1>1, <1>5, PollStep
    <2>2. PICK s \in Seq(CharClass) : s = m.guest BY DEF Muxes
    <2>3. ASSUME uart' = queue_input(uart, s), typed' = typed \o s,
                 Disturb("reset", ~uart.fifo_enabled)
          PROVE  Embeds(Held(got', uart'), typed')
      <3>1. disturbed # "looped" BY <1>1, <2>3 DEF Disturb
      <3>2. Embeds(Held(got, uart), typed) BY <1>1, <3>1 DEF Ordered
      <3>3. PICK v : v = FoldLeft(StageByte, uart, s) OBVIOUS
      <3>4. PICK t \in Seq(CharClass) : t = typed \o s
        <4>1. typed \o s \in Seq(CharClass) BY <1>2
        <4>2. QED BY <4>1, Zenon
      <3>5. v \in Uarts /\ Fits(v)
        <4>1. v \in Uarts /\ SameRest(uart, v) BY <1>2, <3>3, BurstStaged
        <4>2. QED BY <1>2, <4>1 DEF Fits, SameRest
      <3>6. Embeds(Held(got, v), t) BY <1>2, <3>2, <3>3, <3>4, BurstEmbeds
      <3>7. uart' = pump_input(v) BY <2>3, <3>3 DEF queue_input
      <3>8. Embeds(Held(got, uart'), t) BY <1>2, <3>5, <3>6, <3>7, PumpEmbeds
      <3>9. QED BY <2>1, <2>3, <3>4, <3>8
    <2>4. QED BY <1>3, <2>1, <2>2, <2>3
  <1>6. ASSUME ReadData PROVE Embeds(Held(got', uart'), typed')
    <2>1. /\ uart' = read_rbr(uart) /\ UNCHANGED <<typed, disturbed>>
          /\ got' = IF uart.rx_fifo = <<>> THEN got ELSE Append(got, Head(uart.rx_fifo))
      BY <1>6 DEF ReadData, console
    <2>2. Embeds(Held(got, uart), typed) BY <1>1, <2>1 DEF Ordered
    <2>3. PICK rx \in Seq(CharClass) : rx = Rest(uart.rx_fifo)
      <3>1. Rest(uart.rx_fifo) \in Seq(CharClass) BY <1>2 DEF Rest
      <3>2. QED BY <3>1, Zenon
    <2>4. Len(rx) <= Len(uart.rx_fifo) BY <1>2, <2>3 DEF Rest
    <2>5. PICK v : v = [uart EXCEPT !.rx_fifo = rx] BY Zenon
    <2>6. uart' = pump_input(v) BY <2>1, <2>3, <2>5 DEF read_rbr, Rest
    <2>7. /\ v \in Uarts /\ v.rx_fifo = rx /\ v.input_buffer = uart.input_buffer
          /\ v.cpr_state = uart.cpr_state /\ v.fifo_enabled = uart.fifo_enabled
      BY <1>2, <2>5, Zenon DEF Uarts
    <2>8. Fits(v)
      <3>1. Len(uart.rx_fifo) \in Nat /\ Len(rx) \in Nat /\ FIFO_SIZE \in Nat
        BY <1>2, SerialAssumption
      <3>2. QED BY <1>2, <2>4, <2>7, <3>1 DEF Fits
    <2>9. PICK g \in Seq(CharClass) : g = got'
      <3>1. CASE uart.rx_fifo = <<>> BY <1>2, <2>1, <3>1
      <3>2. CASE uart.rx_fifo # <<>>
        <4>1. Append(got, Head(uart.rx_fifo)) \in Seq(CharClass) BY <1>2, <3>2
        <4>2. QED BY <2>1, <3>2, <4>1, Zenon
      <3>3. QED BY <3>1, <3>2
    <2>10. Path(g, v.rx_fifo, v.input_buffer) = Path(got, uart.rx_fifo, uart.input_buffer)
      <3>1. CASE uart.rx_fifo = <<>>
        <4>1. rx = uart.rx_fifo /\ g = got BY <2>1, <2>3, <2>9, <3>1 DEF Rest
        <4>2. QED BY <2>7, <4>1
      <3>2. CASE uart.rx_fifo # <<>>
        <4>1. rx = Tail(uart.rx_fifo) /\ g = Append(got, Head(uart.rx_fifo))
          BY <2>1, <2>3, <2>9, <3>2 DEF Rest
        <4>2. Advanced(rx, uart.input_buffer, uart.rx_fifo, uart.input_buffer)
          BY <3>2, <4>1 DEF Advanced
        <4>3. Path(Append(got, Head(uart.rx_fifo)), rx, uart.input_buffer)
                = Path(got, uart.rx_fifo, uart.input_buffer)
          BY <1>2, <4>2, HeadMoves
        <4>4. QED BY <2>7, <4>1, <4>3
      <3>3. QED BY <3>1, <3>2
    <2>11. Embeds(Held(g, v), typed) BY <2>2, <2>7, <2>10 DEF Held
    <2>12. Embeds(Held(g, uart'), typed) BY <1>2, <2>6, <2>7, <2>8, <2>11, PumpEmbeds
    <2>13. QED BY <2>1, <2>9, <2>12
  <1>7. ASSUME NEW v \in FcrWrites, WriteFcr(v) PROVE Embeds(Held(got', uart'), typed')
    <2>1. /\ uart' = write_fcr(uart, v) /\ UNCHANGED <<typed, got>>
          /\ Disturb("reset", typed # <<>> /\ (~v.enable \/ v.rx_reset))
      BY <1>7 DEF WriteFcr, Register, console
    <2>2. disturbed # "looped" BY <1>1, <2>1 DEF Disturb
    <2>3. Embeds(Held(got, uart), typed) BY <1>1, <2>2 DEF Ordered
    <2>4. v \in [enable : BOOLEAN, rx_reset : BOOLEAN, trigger : 0..3] BY SerialPortAssumption
    <2>5. /\ uart' \in Uarts /\ uart'.input_buffer = uart.input_buffer
          /\ uart'.cpr_state = uart.cpr_state
          /\ uart'.rx_fifo = <<>> \/ uart'.rx_fifo = uart.rx_fifo
      BY <1>2, <2>1, <2>4, FcrFacts
    <2>6. CASE uart'.rx_fifo = uart.rx_fifo
      <3>1. Held(got, uart') = Held(got, uart) BY <2>5, <2>6 DEF Held
      <3>2. QED BY <2>1, <2>3, <3>1
    <2>7. CASE uart'.rx_fifo = <<>>
      <3>1. PICK k \in Seq(CharClass) : k = Withheld(uart.cpr_state) BY WithheldTyped
      <3>2. Embeds(Path(got, <<>>, uart.input_buffer) \o k,
                   Path(got, uart.rx_fifo, uart.input_buffer) \o k)
        BY <1>2, PathClears
      <3>3. Embeds(Held(got, uart'), Held(got, uart)) BY <2>5, <2>7, <3>1, <3>2 DEF Held
      <3>4. Held(got, uart') \in Seq(CharClass) /\ Held(got, uart) \in Seq(CharClass)
        BY <1>2, <2>5, HeldTyped
      <3>5. Embeds(Held(got, uart'), typed) BY <1>2, <2>3, <3>3, <3>4, EmbedsThrough
      <3>6. QED BY <2>1, <3>5
    <2>8. QED BY <2>5, <2>6, <2>7
  <1>8. ASSUME \/ \E byte \in Outputs : WriteData(byte)
               \/ \E bits \in IerWrites : WriteIer(bits)
               \/ \E dlab \in LcrWrites : WriteLcr(dlab)
               \/ \E bits \in McrWrites : WriteMcr(bits)
               \/ ReadIir \/ ReadLsr \/ ReadMsr
        PROVE  Embeds(Held(got', uart'), typed')
    <2>1. /\ UNCHANGED <<typed, got, disturbed>>
          /\ uart'.rx_fifo = uart.rx_fifo /\ uart'.input_buffer = uart.input_buffer
          /\ uart'.cpr_state = uart.cpr_state
      BY <1>1, <1>8, OtherSteps
    <2>2. Held(got', uart') = Held(got, uart) BY <2>1 DEF Held
    <2>3. QED BY <1>1, <2>1, <2>2 DEF Ordered
  <1>9. QED BY <1>1, <1>3, <1>4, <1>5, <1>6, <1>7, <1>8
    DEF Next, GuestStep, Stopped, vars, console

(* Whatever the guest does to the FIFO, input reaches it in typing order   *)
(* and no byte of it twice: bytes may be dropped by a reset, an overrun or *)
(* the cursor-position filter, and are never moved or repeated             *)
(* (queue_input, pump_input, receive_byte, read_rbr, write_fcr).           *)
THEOREM OrderTheorem == Spec => []InTypingOrder
  <1>1. Init => Ordered
    <2>1. SUFFICES ASSUME Init PROVE Embeds(Held(got, uart), typed) BY DEF Ordered
    <2>2. <<>> \in Seq(CharClass) /\ ((<<>> \o <<>>) \o <<>>) \o <<>> = <<>> OBVIOUS
    <2>3. Held(got, uart) = <<>> /\ typed = <<>>
      BY <2>1, <2>2 DEF Init, NewUart, Held, Path, Withheld
    <2>4. QED BY <2>2, <2>3, EmbedsItself, Zenon
  <1>2. PortTyped /\ Ordered => InTypingOrder
    <2>1. SUFFICES ASSUME PortTyped, Ordered, disturbed # "looped"
                   PROVE  IsSubsequence(Stream, typed)
      BY DEF InTypingOrder
    <2>2. /\ uart \in Uarts /\ typed \in Seq(CharClass) /\ got \in Seq(CharClass)
          /\ uart.rx_fifo \in Seq(CharClass) /\ uart.input_buffer \in Seq(CharClass)
      BY <2>1, UartFields DEF PortTyped
    <2>3. PICK p \in Seq(CharClass) : p = Path(got, uart.rx_fifo, uart.input_buffer)
      BY <2>2, PathTyped
    <2>4. PICK k \in Seq(CharClass) : k = Withheld(uart.cpr_state) BY WithheldTyped
    <2>5. PICK q \in Seq(CharClass) : q = p \o k
      <3>1. p \o k \in Seq(CharClass) OBVIOUS
      <3>2. QED BY <3>1, Zenon
    <2>6. Embeds(q, typed) BY <2>1, <2>3, <2>4, <2>5 DEF Ordered, Held
    <2>7. Embeds(p, q)
      <3>1. <<>> \in Seq(CharClass) OBVIOUS
      <3>2. Embeds(p \o <<>>, (p \o k) \o <<>>) BY <3>1, EmbedsWithout, Zenon
      <3>3. p \o <<>> = p /\ q \o <<>> = q OBVIOUS
      <3>4. QED BY <2>5, <3>2, <3>3, Zenon
    <2>8. Embeds(p, typed) BY <2>2, <2>6, <2>7, EmbedsThrough
    <2>9. Stream = p BY <2>3 DEF Stream, Path
    <2>10. IsSubsequence(p, typed) BY <2>2, <2>8, EmbedsIsSubsequence
    <2>11. QED BY <2>9, <2>10, Zenon
  <1>3. QED BY <1>1, <1>2, PortInit, PortStep, OrderStep, PTL DEF Spec

-----------------------------------------------------------------------------
(* What the mux makes of a byte depends on the run of Ctrl-A before it.    *)
(* Run(s, i, k): the run that ends at i began after k.                     *)
Run(s, i, k) ==
  /\ k \in 0..i /\ (k = 0 \/ s[k] # ESC_PREFIX)
  /\ \A j \in k + 1..i : s[j] = ESC_PREFIX

LEMMA RunExists ==
  ASSUME NEW s, NEW n \in Nat
  PROVE  \A i \in 0..n : \E k : Run(s, i, k)
  <1> DEFINE Q == {i \in 0..n : \E k : Run(s, i, k)}
  <1>1. 0 \in Q
    <2>1. Run(s, 0, 0) BY DEF Run
    <2>2. QED BY <2>1
  <1>2. ASSUME NEW i \in 1..n, i - 1 \in Q PROVE i \in Q
    <2>1. PICK k : Run(s, i - 1, k) BY <1>2
    <2>2. CASE s[i] = ESC_PREFIX
      <3>1. Run(s, i, k) BY <2>1, <2>2 DEF Run
      <3>2. QED BY <3>1
    <2>3. CASE s[i] # ESC_PREFIX
      <3>1. Run(s, i, i) BY <2>3 DEF Run
      <3>2. QED BY <3>1
    <2>4. QED BY <2>2, <2>3
  <1> HIDE DEF Q
  <1>3. \A i \in 0..n : i \in Q BY <1>1, <1>2, IndexInduction
  <1>4. QED BY <1>3 DEF Q

LEMMA RunUnique ==
  ASSUME NEW s, NEW i \in Nat, NEW k, NEW l, Run(s, i, k), Run(s, i, l)
  PROVE  k = l
  <1>1. k \in 0..i /\ l \in 0..i BY DEF Run
  <1>2. ASSUME k < l PROVE FALSE
    <2>1. l \in k + 1..i /\ l # 0 BY <1>1, <1>2
    <2>2. QED BY <2>1 DEF Run
  <1>3. ASSUME l < k PROVE FALSE
    <2>1. k \in l + 1..i /\ k # 0 BY <1>1, <1>3
    <2>2. QED BY <2>1 DEF Run
  <1>4. QED BY <1>1, <1>2, <1>3

LEMMA AnnouncesRun ==
  ASSUME NEW s, NEW i \in Nat \ {0}, NEW k, Run(s, i - 1, k)
  PROVE  Announces(s, i) <=> s[i] = ESC_PREFIX /\ (i - 1 - k) % 2 = 0
  <1>1. i - 1 \in Nat OBVIOUS
  <1>2. \A l : Run(s, i - 1, l) => l = k BY <1>1, RunUnique
  <1>3. Announces(s, i) <=> s[i] = ESC_PREFIX /\ \E l : Run(s, i - 1, l) /\ (i - 1 - l) % 2 = 0
    <2>1. ASSUME Announces(s, i)
          PROVE  s[i] = ESC_PREFIX /\ \E l : Run(s, i - 1, l) /\ (i - 1 - l) % 2 = 0
      <3>1. PICK l \in 0..i - 1 : /\ l = 0 \/ s[l] # ESC_PREFIX
                                  /\ \A j \in l + 1..i - 1 : s[j] = ESC_PREFIX
                                  /\ (i - 1 - l) % 2 = 0
        BY <2>1, Zenon DEF Announces
      <3>2. Run(s, i - 1, l) BY <3>1, Zenon DEF Run
      <3>3. s[i] = ESC_PREFIX BY <2>1, Zenon DEF Announces
      <3>4. (i - 1 - l) % 2 = 0 BY <3>1, Zenon
      <3>5. QED BY <3>2, <3>3, <3>4
    <2>2. ASSUME s[i] = ESC_PREFIX, NEW l, Run(s, i - 1, l), (i - 1 - l) % 2 = 0
          PROVE  Announces(s, i)
      BY <2>2, Zenon DEF Announces, Run
    <2>3. QED BY <2>1, <2>2, Zenon
  <1>4. QED BY <1>2, <1>3

(* A byte announces a command if it is a Ctrl-A that is not the key of one. *)
Armed(s) == Len(s) # 0 /\ Announces(s, Len(s))

LEMMA AnnouncesPrefix ==
  ASSUME NEW s \in Seq(CharClass), NEW b \in CharClass, NEW t, t = Append(s, b),
         NEW i \in 1..Len(s)
  PROVE  Announces(t, i) <=> Announces(s, i)
  <1>1. Len(s) \in Nat /\ \A j \in 1..Len(s) : t[j] = s[j] OBVIOUS
  <1>2. PICK k : Run(s, i - 1, k)
    <2>1. i - 1 \in 0..Len(s) BY <1>1
    <2>2. QED BY <1>1, <2>1, RunExists, Zenon
  <1>3. Run(t, i - 1, k)
    <2>1. k \in 0..i - 1 /\ \A j \in k + 1..i - 1 : j \in 1..Len(s) BY <1>1, <1>2 DEF Run
    <2>2. k = 0 \/ k \in 1..Len(s) BY <1>1, <2>1
    <2>3. QED BY <1>1, <1>2, <2>1, <2>2 DEF Run
  <1>4. i \in Nat \ {0} BY <1>1
  <1>5. Announces(s, i) <=> s[i] = ESC_PREFIX /\ (i - 1 - k) % 2 = 0 BY <1>2, <1>4, AnnouncesRun
  <1>6. Announces(t, i) <=> t[i] = ESC_PREFIX /\ (i - 1 - k) % 2 = 0
    BY <1>3, <1>4, AnnouncesRun, Zenon
  <1>7. t[i] = s[i] BY <1>1
  <1>8. QED BY <1>5, <1>6, <1>7

LEMMA ArmedGrows ==
  ASSUME NEW s \in Seq(CharClass), NEW b \in CharClass, NEW t, t = Append(s, b)
  PROVE  Armed(t) <=> b = ESC_PREFIX /\ ~Armed(s)
  <1>1. /\ Len(s) \in Nat /\ Len(t) = Len(s) + 1 /\ t[Len(s) + 1] = b
        /\ \A j \in 1..Len(s) : t[j] = s[j]
    OBVIOUS
  <1>2. Armed(t) <=> Announces(t, Len(s) + 1) BY <1>1 DEF Armed
  <1>3. Len(s) + 1 \in Nat \ {0} /\ (Len(s) + 1) - 1 = Len(s) BY <1>1
  <1>4. ASSUME NEW k, Run(t, Len(s), k)
        PROVE  Announces(t, Len(s) + 1) <=> b = ESC_PREFIX /\ (Len(s) - k) % 2 = 0
    <2>1. Run(t, (Len(s) + 1) - 1, k) BY <1>3, <1>4
    <2>2. Announces(t, Len(s) + 1) <=> t[Len(s) + 1] = ESC_PREFIX /\ ((Len(s) + 1) - 1 - k) % 2 = 0
      BY <1>3, <2>1, AnnouncesRun, Zenon
    <2>3. QED BY <1>1, <1>3, <2>2
  <1>5. CASE Len(s) = 0
    <2>1. Run(t, Len(s), 0) BY <1>5 DEF Run
    <2>2. (Len(s) - 0) % 2 = 0 BY <1>5
    <2>3. QED BY <1>2, <1>4, <1>5, <2>1, <2>2 DEF Armed
  <1>6. CASE Len(s) # 0 /\ s[Len(s)] # ESC_PREFIX
    <2>1. Len(s) \in 1..Len(s) BY <1>1, <1>6
    <2>2. t[Len(s)] # ESC_PREFIX BY <1>1, <1>6, <2>1
    <2>3. Run(t, Len(s), Len(s)) BY <1>1, <2>2 DEF Run
    <2>4. (Len(s) - Len(s)) % 2 = 0 BY <1>1
    <2>5. ~Armed(s) BY <1>6 DEF Armed, Announces
    <2>6. QED BY <1>2, <1>4, <2>3, <2>4, <2>5
  <1>7. CASE Len(s) # 0 /\ s[Len(s)] = ESC_PREFIX
    <2>1. Len(s) \in 1..Len(s) /\ Len(s) \in Nat \ {0} /\ Len(s) - 1 \in 0..Len(s) BY <1>1, <1>7
    <2>2. PICK k : Run(s, Len(s) - 1, k) BY <1>1, <2>1, RunExists, Zenon
    <2>3. k \in 0..Len(s) - 1 BY <2>2 DEF Run
    <2>4. Run(t, Len(s), k)
      <3>1. k \in 0..Len(s) /\ (k = 0 \/ k \in 1..Len(s)) BY <1>1, <2>3
      <3>2. k = 0 \/ t[k] # ESC_PREFIX BY <1>1, <2>2, <3>1 DEF Run
      <3>3. ASSUME NEW j \in k + 1..Len(s) PROVE t[j] = ESC_PREFIX
        <4>1. j \in 1..Len(s) /\ (j = Len(s) \/ j \in k + 1..Len(s) - 1) BY <1>1, <2>3
        <4>2. s[j] = ESC_PREFIX BY <1>7, <2>2, <4>1 DEF Run
        <4>3. QED BY <1>1, <4>1, <4>2
      <3>4. QED BY <3>1, <3>2, <3>3 DEF Run
    <2>5. Announces(s, Len(s)) <=> (Len(s) - 1 - k) % 2 = 0 BY <1>7, <2>1, <2>2, AnnouncesRun
    <2>6. (Len(s) - k) % 2 = 0 <=> ~((Len(s) - 1 - k) % 2 = 0) BY <1>1, <2>3
    <2>7. Armed(s) <=> Announces(s, Len(s)) BY <1>7 DEF Armed
    <2>8. QED BY <1>2, <1>4, <2>4, <2>5, <2>6, <2>7
  <1>8. QED BY <1>5, <1>6, <1>7

(* Concatenating a sequence of sequences, part after part. *)
Concats(h, t, A) ==
  /\ h \in [0..Len(t) -> Seq(A)] /\ h[0] = <<>>
  /\ \A k \in 1..Len(t) : h[k] = h[k - 1] \o t[k]

LEMMA JoinExists ==
  ASSUME NEW A, NEW t \in Seq(Seq(A))
  PROVE  \E h : Concats(h, t, A)
  <1> DEFINE S == Seq(A)
             F == [p \in S \X S |-> p[1] \o p[2]]
             n == Len(t)
  <1>1. F \in [S \X S -> S] /\ \A x, y \in S : F[<<x, y>>] = x \o y
    <2>1. \A x, y \in S : x \o y \in S OBVIOUS
    <2> HIDE DEF S
    <2>2. QED BY <2>1, Zenon
  <1>2. n \in Nat /\ \A i \in 1..n : t[i] \in S OBVIOUS
  <1>3. <<>> \in S OBVIOUS
  <1> HIDE DEF S, F, n
  <1>4. PICK h : Steps(h, n, S, F, <<>>, t) BY <1>1, <1>2, <1>3, FoldExists, Zenon
  <1>5. h \in [0..n -> S] /\ h[0] = <<>> BY <1>4, Zenon DEF Steps
  <1>6. ASSUME NEW k \in 1..n PROVE h[k] = h[k - 1] \o t[k]
    <2>1. h[k] = F[<<h[k - 1], t[k]>>] BY <1>4, Zenon DEF Steps
    <2>2. k - 1 \in 0..n BY <1>2
    <2>3. h[k - 1] \in S /\ t[k] \in S BY <1>2, <1>5, <2>2
    <2>4. QED BY <1>1, <2>1, <2>3, Zenon
  <1>7. QED BY <1>5, <1>6, Zenon DEF Concats, S, n

(* One more part is concatenated last. *)
JoinsOne(f, y, h, x) == f[Len(y)] = h[Len(x)] \o y[Len(y)]

LEMMA JoinGrows ==
  ASSUME NEW A, NEW t \in Seq(Seq(A)), NEW v \in Seq(Seq(A)), Len(v) = Len(t) + 1,
         \A k \in 1..Len(t) : v[k] = t[k], NEW h, Concats(h, t, A), NEW f, Concats(f, v, A)
  PROVE  JoinsOne(f, v, h, t)
  <1> DEFINE Q == {k \in 0..Len(t) : f[k] = h[k]}
  <1>1. Len(t) \in Nat OBVIOUS
  <1>2. 0 \in Q BY <1>1 DEF Concats
  <1>3. ASSUME NEW k \in 1..Len(t), k - 1 \in Q PROVE k \in Q
    <2>1. k \in 1..Len(v) /\ k \in 0..Len(t) BY <1>1
    <2>2. f[k] = f[k - 1] \o v[k] /\ h[k] = h[k - 1] \o t[k] BY <2>1, Zenon DEF Concats
    <2>3. v[k] = t[k] /\ f[k - 1] = h[k - 1] BY <1>3
    <2>4. QED BY <2>1, <2>2, <2>3, Zenon
  <1> HIDE DEF Q
  <1>4. Len(t) \in Q
    <2>1. Len(t) \in 0..Len(t) BY <1>1
    <2>2. QED BY <1>1, <1>2, <1>3, <2>1, IndexInduction, Zenon
  <1>5. f[Len(t)] = h[Len(t)] BY <1>4 DEF Q
  <1>6. Len(v) \in 1..Len(v) /\ Len(v) - 1 = Len(t) BY <1>1
  <1>7. f[Len(v)] = f[Len(v) - 1] \o v[Len(v)] BY <1>6, Zenon DEF Concats
  <1>8. QED BY <1>5, <1>6, <1>7, Zenon DEF JoinsOne

(* What the bytes mean to the guest and to the host, byte by byte. *)
Guests(s) == [n \in 1..Len(s) |-> MeansToGuest(s, n)]
Hosts(s) == [n \in 1..Len(s) |-> MeansToHost(s, n)]

LEMMA MeaningTyped ==
  ASSUME NEW s \in Seq(CharClass), NEW n \in 1..Len(s)
  PROVE  MeansToGuest(s, n) \in Seq(CharClass) /\ MeansToHost(s, n) \in Seq(CommandKeys)
  <1>1. s[n] \in CharClass OBVIOUS
  <1>2. MeansToGuest(s, n) \in Seq(CharClass)
    <2>1. ESC_PREFIX \in CharClass BY DEF ESC_PREFIX, CharClass
    <2>2. /\ <<>> \in Seq(CharClass) /\ <<s[n]>> \in Seq(CharClass)
          /\ <<ESC_PREFIX, s[n]>> \in Seq(CharClass)
      BY <1>1, <2>1
    <2>3. QED BY <2>2, Zenon DEF MeansToGuest
  <1>3. MeansToHost(s, n) \in Seq(CommandKeys)
    <2>1. <<>> \in Seq(CommandKeys) OBVIOUS
    <2>2. s[n] \in CommandKeys => <<s[n]>> \in Seq(CommandKeys) OBVIOUS
    <2>3. QED BY <2>1, <2>2, Zenon DEF MeansToHost
  <1>4. QED BY <1>2, <1>3

LEMMA MeaningsTyped ==
  ASSUME NEW s \in Seq(CharClass)
  PROVE  /\ Guests(s) \in Seq(Seq(CharClass)) /\ Hosts(s) \in Seq(Seq(CommandKeys))
         /\ Len(Guests(s)) = Len(s) /\ Len(Hosts(s)) = Len(s)
         /\ \A n \in 1..Len(s) : /\ Guests(s)[n] = MeansToGuest(s, n)
                                 /\ Hosts(s)[n] = MeansToHost(s, n)
  <1>1. Len(s) \in Nat /\ \A n \in 1..Len(s) : s[n] \in CharClass OBVIOUS
  <1>2. \A n \in 1..Len(s) : /\ MeansToGuest(s, n) \in Seq(CharClass)
                             /\ MeansToHost(s, n) \in Seq(CommandKeys)
    BY MeaningTyped
  <1>4. Guests(s) \in Seq(Seq(CharClass)) BY <1>1, <1>2 DEF Guests
  <1>5. Hosts(s) \in Seq(Seq(CommandKeys)) BY <1>1, <1>2 DEF Hosts
  <1>6. Len(Guests(s)) = Len(s) BY <1>1 DEF Guests
  <1>7. Len(Hosts(s)) = Len(s) BY <1>1 DEF Hosts
  <1>8. \A n \in 1..Len(s) : /\ Guests(s)[n] = MeansToGuest(s, n)
                             /\ Hosts(s)[n] = MeansToHost(s, n)
    BY Zenon DEF Guests, Hosts
  <1>9. QED BY <1>4, <1>5, <1>6, <1>7, <1>8, Zenon

(* ForGuest and ForHost concatenate these. *)
LEMMA GuestConcats ==
  ASSUME NEW s \in Seq(CharClass)
  PROVE  \E h : Concats(h, Guests(s), CharClass) /\ ForGuest(s) = h[Len(s)]
  <1> DEFINE n == Len(s)
             R(f) == f = [k \in 0..n |-> IF k = 0 THEN <<>> ELSE f[k - 1] \o MeansToGuest(s, k)]
  <1>1. n \in Nat OBVIOUS
  <1>2. ForGuest(s) = (CHOOSE f : R(f))[n] BY Zenon DEF ForGuest
  <1>3. /\ Guests(s) \in Seq(Seq(CharClass)) /\ Len(Guests(s)) = n
        /\ \A k \in 1..n : Guests(s)[k] = MeansToGuest(s, k)
    BY MeaningsTyped, Zenon
  <1>4. PICK h : Concats(h, Guests(s), CharClass) BY <1>3, JoinExists, Zenon
  <1> HIDE DEF n
  <1>5. h \in [0..n -> Seq(CharClass)] /\ h[0] = <<>> BY <1>3, <1>4 DEF Concats
  <1>6. \A k \in 1..n : h[k] = h[k - 1] \o MeansToGuest(s, k)
    BY <1>3, <1>4, Zenon DEF Concats
  <1>7. R(h)
    <2>1. \A k \in 0..n : k = 0 \/ (k # 0 /\ k \in 1..n) BY <1>1
    <2>2. QED BY <1>5, <1>6, <2>1
  <1>8. PICK f : R(f) /\ ForGuest(s) = f[n]
    <2>1. R(CHOOSE f : R(f))
      <3> HIDE DEF R
      <3>1. QED BY <1>7
    <2>2. QED BY <1>2, <2>1, Zenon
  <1> DEFINE Q == {k \in 0..n : f[k] = h[k]}
  <1>9. 0 \in Q
    <2>1. 0 \in 0..n BY <1>1
    <2>2. f[0] = <<>> BY <1>8, <2>1, Zenon
    <2>3. QED BY <1>5, <2>1, <2>2
  <1>10. ASSUME NEW k \in 1..n, k - 1 \in Q PROVE k \in Q
    <2>1. k \in 0..n /\ k # 0 BY <1>1
    <2>2. f[k] = f[k - 1] \o MeansToGuest(s, k) BY <1>8, <2>1, Zenon
    <2>3. f[k - 1] = h[k - 1] BY <1>10
    <2>4. h[k] = h[k - 1] \o MeansToGuest(s, k) BY <1>6
    <2>5. QED BY <2>1, <2>2, <2>3, <2>4, Zenon
  <1> HIDE DEF Q
  <1>11. n \in Q
    <2>1. n \in 0..n BY <1>1
    <2>2. QED BY <1>1, <1>9, <1>10, <2>1, IndexInduction, Zenon
  <1>12. ForGuest(s) = h[n] BY <1>8, <1>11 DEF Q
  <1>13. QED BY <1>4, <1>12, Zenon DEF n

LEMMA HostConcats ==
  ASSUME NEW s \in Seq(CharClass)
  PROVE  \E h : Concats(h, Hosts(s), CommandKeys) /\ ForHost(s) = h[Len(s)]
  <1> DEFINE n == Len(s)
             R(f) == f = [k \in 0..n |-> IF k = 0 THEN <<>> ELSE f[k - 1] \o MeansToHost(s, k)]
  <1>1. n \in Nat OBVIOUS
  <1>2. ForHost(s) = (CHOOSE f : R(f))[n] BY Zenon DEF ForHost
  <1>3. /\ Hosts(s) \in Seq(Seq(CommandKeys)) /\ Len(Hosts(s)) = n
        /\ \A k \in 1..n : Hosts(s)[k] = MeansToHost(s, k)
    BY MeaningsTyped, Zenon
  <1>4. PICK h : Concats(h, Hosts(s), CommandKeys) BY <1>3, JoinExists, Zenon
  <1> HIDE DEF n
  <1>5. h \in [0..n -> Seq(CommandKeys)] /\ h[0] = <<>> BY <1>3, <1>4 DEF Concats
  <1>6. \A k \in 1..n : h[k] = h[k - 1] \o MeansToHost(s, k)
    BY <1>3, <1>4, Zenon DEF Concats
  <1>7. R(h)
    <2>1. \A k \in 0..n : k = 0 \/ (k # 0 /\ k \in 1..n) BY <1>1
    <2>2. QED BY <1>5, <1>6, <2>1
  <1>8. PICK f : R(f) /\ ForHost(s) = f[n]
    <2>1. R(CHOOSE f : R(f))
      <3> HIDE DEF R
      <3>1. QED BY <1>7
    <2>2. QED BY <1>2, <2>1, Zenon
  <1> DEFINE Q == {k \in 0..n : f[k] = h[k]}
  <1>9. 0 \in Q
    <2>1. 0 \in 0..n BY <1>1
    <2>2. f[0] = <<>> BY <1>8, <2>1, Zenon
    <2>3. QED BY <1>5, <2>1, <2>2
  <1>10. ASSUME NEW k \in 1..n, k - 1 \in Q PROVE k \in Q
    <2>1. k \in 0..n /\ k # 0 BY <1>1
    <2>2. f[k] = f[k - 1] \o MeansToHost(s, k) BY <1>8, <2>1, Zenon
    <2>3. f[k - 1] = h[k - 1] BY <1>10
    <2>4. h[k] = h[k - 1] \o MeansToHost(s, k) BY <1>6
    <2>5. QED BY <2>1, <2>2, <2>3, <2>4, Zenon
  <1> HIDE DEF Q
  <1>11. n \in Q
    <2>1. n \in 0..n BY <1>1
    <2>2. QED BY <1>1, <1>9, <1>10, <2>1, IndexInduction, Zenon
  <1>12. ForHost(s) = h[n] BY <1>8, <1>11 DEF Q
  <1>13. QED BY <1>4, <1>12, Zenon DEF n

(* Each byte adds its own meaning: later bytes do not change it. *)
LEMMA MeaningsGrow ==
  ASSUME NEW s \in Seq(CharClass), NEW b \in CharClass, NEW t \in Seq(CharClass), t = Append(s, b)
  PROVE  /\ ForGuest(t) = ForGuest(s) \o MeansToGuest(t, Len(t))
         /\ ForHost(t) = ForHost(s) \o MeansToHost(t, Len(t))
  <1>1. Len(s) \in Nat /\ Len(t) = Len(s) + 1 /\ \A j \in 1..Len(s) : t[j] = s[j] OBVIOUS
  <1>2. ASSUME NEW n \in 1..Len(s)
        PROVE  MeansToGuest(t, n) = MeansToGuest(s, n) /\ MeansToHost(t, n) = MeansToHost(s, n)
    <2>1. Announces(t, n) <=> Announces(s, n) BY AnnouncesPrefix, Zenon
    <2>2. Follows(t, n) <=> Follows(s, n)
      <3>1. CASE n > 1
        <4>1. n - 1 \in 1..Len(s) BY <1>1, <3>1
        <4>2. Announces(t, n - 1) <=> Announces(s, n - 1) BY <4>1, AnnouncesPrefix, Zenon
        <4>3. QED BY <4>2 DEF Follows
      <3>2. CASE ~(n > 1) BY <3>2 DEF Follows
      <3>3. QED BY <3>1, <3>2
    <2>3. t[n] = s[n] BY <1>1
    <2>4. MeansToGuest(t, n) = MeansToGuest(s, n) BY <2>1, <2>2, <2>3, Zenon DEF MeansToGuest
    <2>5. MeansToHost(t, n) = MeansToHost(s, n) BY <2>2, <2>3, Zenon DEF MeansToHost
    <2>6. QED BY <2>4, <2>5
  <1>3. \A n \in 1..Len(s) : n \in 1..Len(t) BY <1>1
  <1>4. Len(t) \in 1..Len(t) BY <1>1
  <1>5. ForGuest(t) = ForGuest(s) \o MeansToGuest(t, Len(t))
    <2>1. PICK h : Concats(h, Guests(s), CharClass) /\ ForGuest(s) = h[Len(s)] BY GuestConcats
    <2>2. PICK f : Concats(f, Guests(t), CharClass) /\ ForGuest(t) = f[Len(t)] BY GuestConcats, Zenon
    <2>3. PICK x \in Seq(Seq(CharClass)) : x = Guests(s) BY MeaningsTyped, Zenon
    <2>4. PICK y \in Seq(Seq(CharClass)) : y = Guests(t) BY MeaningsTyped, Zenon
    <2>5. Len(x) = Len(s) /\ Len(y) = Len(t) BY <2>3, <2>4, MeaningsTyped, Zenon
    <2>6. \A n \in 1..Len(x) : y[n] = x[n]
      <3>1. \A n \in 1..Len(s) : Guests(s)[n] = MeansToGuest(s, n) BY MeaningsTyped, Zenon
      <3>2. \A n \in 1..Len(t) : Guests(t)[n] = MeansToGuest(t, n) BY MeaningsTyped, Zenon
      <3>3. QED BY <1>2, <1>3, <2>3, <2>4, <2>5, <3>1, <3>2, Zenon
    <2>7. y[Len(y)] = MeansToGuest(t, Len(t)) BY <1>4, <2>4, <2>5, MeaningsTyped, Zenon
    <2>8. Len(y) = Len(x) + 1 BY <1>1, <2>5
    <2>9. Concats(h, x, CharClass) /\ Concats(f, y, CharClass) BY <2>1, <2>2, <2>3, <2>4, Zenon
    <2>10. JoinsOne(f, y, h, x) BY <2>6, <2>8, <2>9, JoinGrows, Zenon
    <2>11. QED BY <2>1, <2>2, <2>5, <2>7, <2>10, Zenon DEF JoinsOne
  <1>6. ForHost(t) = ForHost(s) \o MeansToHost(t, Len(t))
    <2>1. PICK h : Concats(h, Hosts(s), CommandKeys) /\ ForHost(s) = h[Len(s)] BY HostConcats
    <2>2. PICK f : Concats(f, Hosts(t), CommandKeys) /\ ForHost(t) = f[Len(t)] BY HostConcats, Zenon
    <2>3. PICK x \in Seq(Seq(CommandKeys)) : x = Hosts(s) BY MeaningsTyped, Zenon
    <2>4. PICK y \in Seq(Seq(CommandKeys)) : y = Hosts(t) BY MeaningsTyped, Zenon
    <2>5. Len(x) = Len(s) /\ Len(y) = Len(t) BY <2>3, <2>4, MeaningsTyped, Zenon
    <2>6. \A n \in 1..Len(x) : y[n] = x[n]
      <3>1. \A n \in 1..Len(s) : Hosts(s)[n] = MeansToHost(s, n) BY MeaningsTyped, Zenon
      <3>2. \A n \in 1..Len(t) : Hosts(t)[n] = MeansToHost(t, n) BY MeaningsTyped, Zenon
      <3>3. QED BY <1>2, <1>3, <2>3, <2>4, <2>5, <3>1, <3>2, Zenon
    <2>7. y[Len(y)] = MeansToHost(t, Len(t)) BY <1>4, <2>4, <2>5, MeaningsTyped, Zenon
    <2>8. Len(y) = Len(x) + 1 BY <1>1, <2>5
    <2>9. Concats(h, x, CommandKeys) /\ Concats(f, y, CommandKeys)
      BY <2>1, <2>2, <2>3, <2>4, Zenon
    <2>10. JoinsOne(f, y, h, x) BY <2>6, <2>8, <2>9, JoinGrows, Zenon
    <2>11. QED BY <2>1, <2>2, <2>5, <2>7, <2>10, Zenon DEF JoinsOne
  <1>7. QED BY <1>5, <1>6

(* The mux, fed with the bytes after p, holds what s means beyond p. *)
Heard(s, m, G, H) ==
  /\ m.armed <=> Armed(s)
  /\ Lengthens(G, m.guest, ForGuest(s)) /\ Lengthens(H, m.actions, ForHost(s))

LEMMA MuxMeans ==
  ASSUME NEW m \in Muxes(CharClass), NEW s \in Seq(CharClass), NEW b \in CharClass,
         NEW t \in Seq(CharClass), t = Append(s, b), m.armed <=> Armed(s),
         NEW n, n = MuxStep(m, b)
  PROVE  /\ n.armed <=> Armed(t)
         /\ Lengthens(m.guest, MeansToGuest(t, Len(t)), n.guest)
         /\ Lengthens(m.actions, MeansToHost(t, Len(t)), n.actions)
  <1>1. /\ Len(s) \in Nat /\ Len(t) = Len(s) + 1 /\ t[Len(t)] = b
    OBVIOUS
  <1>2. Armed(t) <=> b = ESC_PREFIX /\ ~m.armed BY ArmedGrows, Zenon
  <1>3. Announces(t, Len(t)) <=> b = ESC_PREFIX /\ ~m.armed BY <1>1, <1>2 DEF Armed
  <1>4. Follows(t, Len(t)) <=> m.armed
    <2>1. Len(t) - 1 = Len(s) /\ (Len(t) > 1 <=> Len(s) # 0) BY <1>1
    <2>2. CASE Len(s) = 0 BY <2>1, <2>2 DEF Follows, Armed
    <2>3. CASE Len(s) # 0
      <3>1. Len(s) \in 1..Len(s) BY <1>1, <2>3
      <3>2. Announces(t, Len(s)) <=> Announces(s, Len(s)) BY <3>1, AnnouncesPrefix, Zenon
      <3>3. QED BY <2>1, <2>3, <3>2 DEF Follows, Armed
    <2>4. QED BY <2>2, <2>3
  <1>5. m.guest \in Seq(CharClass) /\ m.actions \in Seq(CommandKeys) /\ m.armed \in BOOLEAN
    BY DEF Muxes
  <1>6. m.guest \o <<>> = m.guest /\ m.actions \o <<>> = m.actions BY <1>5
  <1>7. Append(m.guest, b) = m.guest \o <<b>> BY <1>5, SeqAppends
  <1>8. m = [armed |-> m.armed, guest |-> m.guest, actions |-> m.actions] BY DEF Muxes
  <1>9. ESC_PREFIX \notin CommandKeys BY DEF ESC_PREFIX, CommandKeys
  <1>10. CASE m.armed /\ b \in CommandKeys
    <2>1. n = [armed |-> FALSE, guest |-> m.guest, actions |-> Append(m.actions, b)]
      BY <1>8, <1>10, Zenon DEF MuxStep
    <2>2. n.armed = FALSE /\ n.guest = m.guest /\ n.actions = Append(m.actions, b) BY <2>1
    <2>3. MeansToGuest(t, Len(t)) = <<>> /\ MeansToHost(t, Len(t)) = <<b>>
      BY <1>1, <1>4, <1>10 DEF MeansToGuest, MeansToHost
    <2>4. Append(m.actions, b) = m.actions \o <<b>> BY <1>5, <1>10, SeqAppends
    <2>5. QED BY <1>2, <1>6, <1>9, <1>10, <2>2, <2>3, <2>4, Zenon DEF Lengthens
  <1>11. CASE m.armed /\ b \notin CommandKeys /\ b = ESC_PREFIX
    <2>1. n = [armed |-> FALSE, guest |-> Append(m.guest, b), actions |-> m.actions]
      BY <1>8, <1>11, Zenon DEF MuxStep
    <2>2. n.armed = FALSE /\ n.guest = Append(m.guest, b) /\ n.actions = m.actions BY <2>1
    <2>3. MeansToGuest(t, Len(t)) = <<b>> /\ MeansToHost(t, Len(t)) = <<>>
      BY <1>1, <1>3, <1>4, <1>11 DEF MeansToGuest, MeansToHost
    <2>4. QED BY <1>2, <1>6, <1>7, <1>11, <2>2, <2>3, Zenon DEF Lengthens
  <1>12. CASE m.armed /\ b \notin CommandKeys /\ b # ESC_PREFIX
    <2>1. n = [armed |-> FALSE, guest |-> m.guest \o <<ESC_PREFIX, b>>, actions |-> m.actions]
      BY <1>8, <1>12, Zenon DEF MuxStep
    <2>2. n.armed = FALSE /\ n.guest = m.guest \o <<ESC_PREFIX, b>> /\ n.actions = m.actions
      BY <2>1
    <2>3. MeansToGuest(t, Len(t)) = <<ESC_PREFIX, b>> /\ MeansToHost(t, Len(t)) = <<>>
      BY <1>1, <1>3, <1>4, <1>12 DEF MeansToGuest, MeansToHost
    <2>4. QED BY <1>2, <1>6, <1>12, <2>2, <2>3, Zenon DEF Lengthens
  <1>13. CASE ~m.armed /\ b = ESC_PREFIX
    <2>1. n = [armed |-> TRUE, guest |-> m.guest, actions |-> m.actions]
      BY <1>8, <1>13, Zenon DEF MuxStep
    <2>2. n.armed = TRUE /\ n.guest = m.guest /\ n.actions = m.actions BY <2>1
    <2>3. MeansToGuest(t, Len(t)) = <<>> /\ MeansToHost(t, Len(t)) = <<>>
      BY <1>3, <1>4, <1>13 DEF MeansToGuest, MeansToHost
    <2>4. QED BY <1>2, <1>6, <1>13, <2>2, <2>3, Zenon DEF Lengthens
  <1>14. CASE ~m.armed /\ b # ESC_PREFIX
    <2>0. m.armed = FALSE BY <1>5, <1>14
    <2>1. n = [armed |-> FALSE, guest |-> Append(m.guest, b), actions |-> m.actions]
      BY <1>8, <1>14, <2>0, Zenon DEF MuxStep
    <2>2. n.armed = FALSE /\ n.guest = Append(m.guest, b) /\ n.actions = m.actions BY <2>1
    <2>3. MeansToGuest(t, Len(t)) = <<b>> /\ MeansToHost(t, Len(t)) = <<>>
      BY <1>1, <1>3, <1>4, <1>14 DEF MeansToGuest, MeansToHost
    <2>4. QED BY <1>2, <1>6, <1>7, <1>14, <2>2, <2>3, Zenon DEF Lengthens
  <1>15. QED BY <1>5, <1>10, <1>11, <1>12, <1>13, <1>14, Zenon

LEMMA MuxHears ==
  ASSUME NEW m \in Muxes(CharClass), NEW s \in Seq(CharClass), NEW b \in CharClass,
         NEW t \in Seq(CharClass), t = Append(s, b),
         NEW G \in Seq(CharClass), NEW H \in Seq(CommandKeys), Heard(s, m, G, H)
  PROVE  Heard(t, MuxStep(m, b), G, H)
  <1>1. PICK n : n = MuxStep(m, b) BY Zenon
  <1>2. m.armed <=> Armed(s) BY DEF Heard
  <1>3. /\ n.armed <=> Armed(t)
        /\ Lengthens(m.guest, MeansToGuest(t, Len(t)), n.guest)
        /\ Lengthens(m.actions, MeansToHost(t, Len(t)), n.actions)
    BY <1>1, <1>2, MuxMeans, Zenon
  <1>4. m.guest \in Seq(CharClass) /\ m.actions \in Seq(CommandKeys) BY DEF Muxes
  <1>5. PICK x \in Seq(CharClass) : x = m.guest BY <1>4, Zenon
  <1>6. PICK y \in Seq(CommandKeys) : y = m.actions BY <1>4, Zenon
  <1>7. Len(t) \in 1..Len(t) OBVIOUS
  <1>8. PICK g \in Seq(CharClass) : g = MeansToGuest(t, Len(t)) BY <1>7, MeaningTyped, Zenon
  <1>9. PICK h \in Seq(CommandKeys) : h = MeansToHost(t, Len(t)) BY <1>7, MeaningTyped, Zenon
  <1>10. Regroups(G, x, g) /\ Regroups(H, y, h) BY Regroup
  <1>11. ForGuest(t) = ForGuest(s) \o g /\ ForHost(t) = ForHost(s) \o h
    BY <1>8, <1>9, MeaningsGrow, Zenon
  <1>12. n.guest = x \o g /\ n.actions = y \o h
    BY <1>3, <1>5, <1>6, <1>8, <1>9, Zenon DEF Lengthens
  <1>13. ForGuest(s) = G \o x /\ ForHost(s) = H \o y BY <1>5, <1>6, Zenon DEF Heard, Lengthens
  <1>14. ForGuest(t) = G \o n.guest /\ ForHost(t) = H \o n.actions
    BY <1>10, <1>11, <1>12, <1>13, Zenon DEF Regroups
  <1>15. QED BY <1>1, <1>3, <1>14, Zenon DEF Heard, Lengthens

(* A whole poll. *)
LEMMA ForsTyped ==
  ASSUME NEW s \in Seq(CharClass)
  PROVE  ForGuest(s) \in Seq(CharClass) /\ ForHost(s) \in Seq(CommandKeys)
  <1>1. Len(s) \in 0..Len(s) /\ Len(Guests(s)) = Len(s) /\ Len(Hosts(s)) = Len(s)
    <2>1. Len(s) \in 0..Len(s) OBVIOUS
    <2>2. QED BY <2>1, MeaningsTyped, Zenon
  <1>2. PICK g : Concats(g, Guests(s), CharClass) /\ ForGuest(s) = g[Len(s)] BY GuestConcats
  <1>3. PICK h : Concats(h, Hosts(s), CommandKeys) /\ ForHost(s) = h[Len(s)] BY HostConcats
  <1>4. g \in [0..Len(s) -> Seq(CharClass)] BY <1>1, <1>2, Zenon DEF Concats
  <1>5. h \in [0..Len(s) -> Seq(CommandKeys)] BY <1>1, <1>3, Zenon DEF Concats
  <1>6. QED BY <1>1, <1>2, <1>3, <1>4, <1>5

LEMMA PollHears ==
  ASSUME NEW p \in Seq(CharClass), NEW raw \in Seq(CharClass), NEW a \in BOOLEAN, a <=> Armed(p),
         NEW G, G = ForGuest(p), NEW H, H = ForHost(p)
  PROVE  Heard(p \o raw, poll(a, raw), G, H)
  <1> DEFINE M == Muxes(CharClass)
             n == Len(raw)
  <1>1. n \in Nat /\ \A k \in 1..n : raw[k] \in CharClass OBVIOUS
  <1>2. G \in Seq(CharClass) /\ H \in Seq(CommandKeys) BY ForsTyped
  <1>3. PICK m \in M : m = [armed |-> a, guest |-> <<>>, actions |-> <<>>]
    <2>1. [armed |-> a, guest |-> <<>>, actions |-> <<>>] \in M BY DEF Muxes
    <2>2. QED BY <2>1, Zenon
  <1>4. PICK h : MuxesAll(h, M, m, raw)
    <2>1. ESC_PREFIX \in CharClass BY DEF ESC_PREFIX, CharClass
    <2>2. \A x \in M, b \in CharClass : MuxStep(x, b) \in M BY <2>1, MuxStepTyped
    <2> HIDE DEF M
    <2>3. QED BY <2>2, MuxFold
  <1>5. /\ h \in [0..n -> M] /\ h[0] = m /\ poll(a, raw) = h[n]
        /\ \A k \in 1..n : h[k] = MuxStep(h[k - 1], raw[k])
    BY <1>3, <1>4, Zenon DEF MuxesAll, poll
  <1> DEFINE Q == {k \in 0..n : Heard(p \o SubSeq(raw, 1, k), h[k], G, H)}
  <1> HIDE DEF n, M
  <1>6. 0 \in Q
    <2>1. 0 \in 0..n /\ SubSeq(raw, 1, 0) = <<>> /\ p \o <<>> = p BY <1>1
    <2>2. G \o <<>> = G /\ H \o <<>> = H BY <1>2
    <2>3. m.armed = a /\ m.guest = <<>> /\ m.actions = <<>> BY <1>3
    <2>4. Heard(p, m, G, H) BY <2>2, <2>3, Zenon DEF Heard, Lengthens
    <2>5. QED BY <1>5, <2>1, <2>4, Zenon
  <1>7. ASSUME NEW k \in 1..n, k - 1 \in Q PROVE k \in Q
    <2>1. k \in 0..n /\ k - 1 \in 0..n /\ raw[k] \in CharClass /\ k \in 1..Len(raw) BY <1>1 DEF n
    <2>2. PICK s \in Seq(CharClass) : s = p \o SubSeq(raw, 1, k - 1)
      <3>1. SubSeq(raw, 1, k - 1) \in Seq(CharClass) BY <2>1
      <3>2. p \o SubSeq(raw, 1, k - 1) \in Seq(CharClass) BY <3>1
      <3>3. QED BY <3>2, Zenon
    <2>3. PICK t \in Seq(CharClass) : t = p \o SubSeq(raw, 1, k)
      <3>1. SubSeq(raw, 1, k) \in Seq(CharClass) BY <2>1
      <3>2. p \o SubSeq(raw, 1, k) \in Seq(CharClass) BY <3>1
      <3>3. QED BY <3>2, Zenon
    <2>4. t = Append(s, raw[k]) BY <2>1, <2>2, <2>3, MoveOne, Zenon
    <2>5. h[k - 1] \in Muxes(CharClass) BY <1>5, <2>1, Zenon DEF M
    <2>6. Heard(s, h[k - 1], G, H) BY <1>7, <2>2, Zenon
    <2>7. Heard(t, MuxStep(h[k - 1], raw[k]), G, H)
      BY <1>2, <2>1, <2>4, <2>5, <2>6, MuxHears, Zenon
    <2>8. QED BY <1>5, <2>1, <2>3, <2>7, Zenon
  <1> HIDE DEF Q
  <1>8. n \in Q
    <2>1. n \in 0..n BY <1>1
    <2>2. QED BY <1>1, <1>6, <1>7, <2>1, IndexInduction, Zenon
  <1>9. SubSeq(raw, 1, n) = raw BY SeqWhole DEF n
  <1>10. QED BY <1>5, <1>8, <1>9, Zenon DEF Q

-----------------------------------------------------------------------------
(* The mux has heard the bytes that were polled: what it asked for and what *)
(* it passed on is what they mean.                                         *)
Polled(p) ==
  /\ keyed = p \o channel /\ (armed <=> Armed(p))
  /\ asked = ForHost(p) /\ (Running => typed = ForGuest(p))

Exact == \E p \in Seq(CharClass) : Polled(p)

LEMMA ExactStep == PortTyped /\ Exact /\ [Next]_vars => Exact'
  <1>1. SUFFICES ASSUME PortTyped, Exact, [Next]_vars PROVE Exact' OBVIOUS
  <1>2. PICK p \in Seq(CharClass) : Polled(p) BY <1>1 DEF Exact
  <1>3. /\ keyed \in Seq(CharClass) /\ channel \in Seq(CharClass) /\ typed \in Seq(CharClass)
        /\ asked \in Seq(CommandKeys) /\ armed \in BOOLEAN
    BY <1>1 DEF PortTyped
  <1>4. ASSUME UNCHANGED console PROVE Exact'
    <2>1. Polled(p)' BY <1>2, <1>4 DEF Polled, console, Running, Quits
    <2>2. QED BY <2>1 DEF Exact
  <1>5. ASSUME NEW bytes \in Inputs, Type(bytes) PROVE Exact'
    <2>1. bytes \in Seq(CharClass) BY SerialPortAssumption
    <2>2. Regroups(p, channel, bytes) BY <1>3, <2>1, Regroup
    <2>3. /\ channel' = channel \o bytes /\ keyed' = keyed \o bytes
          /\ UNCHANGED <<armed, asked, typed>>
      BY <1>5 DEF Type
    <2>4. keyed' = p \o channel' BY <1>2, <2>2, <2>3, Zenon DEF Polled, Regroups
    <2>5. Polled(p)' BY <1>2, <2>3, <2>4 DEF Polled, Running, Quits
    <2>6. QED BY <2>5 DEF Exact
  <1>6. ASSUME Poll PROVE Exact'
    <2>1. PICK m \in Muxes(CharClass) : m = poll(armed, channel)
      <3>1. ESC_PREFIX \in CharClass BY DEF ESC_PREFIX, CharClass
      <3>2. poll(armed, channel) \in Muxes(CharClass) BY <1>3, <3>1, PollTyped
      <3>3. QED BY <3>2, Zenon
    <2>2. /\ Running /\ armed' = m.armed /\ channel' = <<>> /\ asked' = asked \o m.actions
          /\ keyed' = keyed
          /\ IF m.guest = <<>> \/ Quits(m.actions)
             THEN typed' = typed ELSE typed' = typed \o m.guest
      BY <1>6, <2>1, Zenon DEF Poll
    <2>3. armed <=> Armed(p) BY <1>2 DEF Polled
    <2>4. PICK G : G = ForGuest(p) BY Zenon
    <2>5. PICK H : H = ForHost(p) BY Zenon
    <2>6. Heard(p \o channel, m, G, H) BY <1>3, <2>1, <2>3, <2>4, <2>5, PollHears
    <2>7. keyed = p \o channel /\ asked = H /\ typed = G BY <1>2, <2>2, <2>4, <2>5 DEF Polled
    <2>8. /\ m.armed <=> Armed(keyed)
          /\ ForGuest(keyed) = typed \o m.guest /\ ForHost(keyed) = asked \o m.actions
      BY <2>6, <2>7, Zenon DEF Heard, Lengthens
    <2>9. keyed' = keyed \o channel'
      <3>1. keyed \o <<>> = keyed BY <1>3
      <3>2. QED BY <2>2, <3>1, Zenon
    <2>10. ASSUME Running' PROVE typed' = ForGuest(keyed)
      <3>1. m.actions \in Seq(CommandKeys) /\ m.guest \in Seq(CharClass) BY DEF Muxes
      <3>2. ~Quits(m.actions)
        <4>1. SUFFICES ASSUME NEW i \in 1..Len(m.actions), m.actions[i] = "Quit" PROVE FALSE
          BY <3>1 DEF Quits
        <4>2. Len(asked) + i \in 1..Len(asked') /\ asked'[Len(asked) + i] = "Quit"
          BY <1>3, <2>2, <3>1, <4>1
        <4>3. QED BY <2>10, <4>2 DEF Running, Quits
      <3>3. CASE m.guest = <<>>
        <4>1. typed \o <<>> = typed BY <1>3
        <4>2. QED BY <2>2, <2>8, <3>3, <4>1, Zenon
      <3>4. CASE m.guest # <<>> BY <2>2, <2>8, <3>2, <3>4, Zenon
      <3>5. QED BY <3>3, <3>4
    <2>11. Polled(keyed)'
      BY <2>2, <2>8, <2>9, <2>10, Zenon DEF Polled
    <2>12. QED BY <1>3, <2>2, <2>11 DEF Exact
  <1>7. CASE UNCHANGED vars BY <1>4, <1>7 DEF vars
  <1>8. ASSUME GuestStep PROVE Exact'
    <2>1. UNCHANGED console
      BY <1>8 DEF GuestStep, ReadData, WriteData, WriteIer, WriteFcr, WriteLcr, WriteMcr,
        ReadIir, ReadLsr, ReadMsr, Register
    <2>2. QED BY <1>4, <2>1
  <1>9. QED BY <1>1, <1>5, <1>6, <1>7, <1>8 DEF Next, Stopped

(* However the typing falls between the polls, the mux passes on what the  *)
(* bytes mean: every host command, in order, and every other byte to the   *)
(* guest, a Ctrl-A and its key in different polls included (Console::poll  *)
(* and the poll phase of Vmm::run).                                        *)
THEOREM EscapeTheorem == Spec => []EscapesAreExact
  <1>1. Init => Exact
    <2>1. SUFFICES ASSUME Init PROVE Polled(<<>>)
      <3>1. <<>> \in Seq(CharClass) OBVIOUS
      <3>2. QED BY <2>1, <3>1, Zenon DEF Exact
    <2>2. <<>> \in Seq(CharClass) /\ Len(<<>>) = 0 /\ <<>> \o <<>> = <<>> OBVIOUS
    <2>3. ForGuest(<<>>) = <<>>
      <3>1. PICK g : Concats(g, Guests(<<>>), CharClass) /\ ForGuest(<<>>) = g[Len(<<>>)]
        BY <2>2, GuestConcats, Zenon
      <3>2. QED BY <2>2, <3>1 DEF Concats
    <2>4. ForHost(<<>>) = <<>>
      <3>1. PICK h : Concats(h, Hosts(<<>>), CommandKeys) /\ ForHost(<<>>) = h[Len(<<>>)]
        BY <2>2, HostConcats, Zenon
      <3>2. QED BY <2>2, <3>1 DEF Concats
    <2>5. ~Armed(<<>>) BY <2>2 DEF Armed
    <2>6. QED BY <2>1, <2>2, <2>3, <2>4, <2>5 DEF Init, Polled
  <1>2. PortTyped /\ Exact => EscapesAreExact
    <2>1. SUFFICES ASSUME PortTyped, NEW p \in Seq(CharClass), Polled(p) PROVE EscapesAreExact
      BY DEF Exact
    <2>2. channel \in Seq(CharClass) BY <2>1 DEF PortTyped
    <2>3. keyed = p \o channel BY <2>1 DEF Polled
    <2>4. SubSeq(keyed, 1, Len(keyed) - Len(channel)) = p
      <3>1. Len(keyed) - Len(channel) = Len(p) BY <2>2, <2>3
      <3>2. SubSeq(p \o channel, 1, Len(p)) = p BY <2>2
      <3>3. QED BY <2>3, <3>1, <3>2, Zenon
    <2>5. QED BY <2>1, <2>4, Zenon DEF Polled, EscapesAreExact
  <1>3. QED BY <1>1, <1>2, PortInit, PortStep, ExactStep, PTL DEF Spec

-----------------------------------------------------------------------------
(* The output filter.  Thins(f, s, n): f[k] holds what may be left of the  *)
(* first k bytes of s, for k up to n.                                      *)
Ends(s, k) == {i \in 1..k : CursorQuery(SubSeq(s, i, k))}

Left(s, f, k) ==
  IF k = 0 THEN {<<>>}
  ELSE {Append(r, s[k]) : r \in f[k - 1]} \cup UNION {f[i - 1] : i \in Ends(s, k)}

Thins(f, s, n) == f = [k \in 0..n |-> Left(s, f, k)]

Thinned(s) == WithSomeRemoved(s, CursorQuery)

(* What is left of k bytes depends on what is left of fewer. *)
Agree(s, f, t, g, k) ==
  (k # 0 => s[k] = t[k]) /\ Ends(s, k) = Ends(t, k) /\ \A j \in 0..k - 1 : f[j] = g[j]

SameLeft(s, f, t, g, k) == Left(s, f, k) = Left(t, g, k)

LEMMA LeftAgrees ==
  ASSUME NEW s, NEW t, NEW f, NEW g, NEW k \in Nat, Agree(s, f, t, g, k)
  PROVE  SameLeft(s, f, t, g, k)
  <1>0. /\ k # 0 => s[k] = t[k]
        /\ Ends(s, k) = Ends(t, k) /\ \A j \in 0..k - 1 : f[j] = g[j]
    BY DEF Agree
  <1>1. CASE k = 0 BY <1>1 DEF Left, SameLeft
  <1>2. CASE k # 0
    <2>1. k - 1 \in 0..k - 1 BY <1>2
    <2>2. {Append(r, s[k]) : r \in f[k - 1]} = {Append(r, t[k]) : r \in g[k - 1]}
      BY <1>0, <1>2, <2>1, Zenon
    <2>3. ASSUME NEW i \in Ends(s, k) PROVE f[i - 1] = g[i - 1]
      <3>1. i \in 1..k BY DEF Ends
      <3>2. i - 1 \in 0..k - 1 BY <3>1
      <3>3. QED BY <1>0, <3>2
    <2>4. {f[i - 1] : i \in Ends(s, k)} = {g[i - 1] : i \in Ends(t, k)} BY <1>0, <2>3, Zenon
    <2>5. QED BY <1>2, <2>2, <2>4, Zenon DEF Left, SameLeft
  <1>3. QED BY <1>1, <1>2

LEMMA ThinsExists ==
  ASSUME NEW s, NEW n \in Nat
  PROVE  \E f : Thins(f, s, n)
  <1> DEFINE Q == {k \in 0..n : \E f : Thins(f, s, k)}
  <1>1. 0 \in Q
    <2>1. PICK f : f = [k \in 0..0 |-> {<<>>}] BY Zenon
    <2>2. \A k \in 0..0 : Left(s, f, k) = {<<>>} BY DEF Left
    <2>3. Thins(f, s, 0) BY <2>1, <2>2, Zenon DEF Thins
    <2>4. QED BY <2>3
  <1>2. ASSUME NEW k \in 1..n, k - 1 \in Q PROVE k \in Q
    <2>1. PICK f : Thins(f, s, k - 1) BY <1>2
    <2>2. PICK g : g = [j \in 0..k |-> IF j = k THEN Left(s, f, k) ELSE f[j]] BY Zenon
    <2>3. \A j \in 0..k - 1 : j \in 0..k /\ j # k OBVIOUS
    <2>4. \A j \in 0..k - 1 : g[j] = f[j] BY <2>2, <2>3, Zenon
    <2>5. ASSUME NEW j \in 0..k PROVE g[j] = Left(s, g, j)
      <3>1. j \in Nat /\ \A i \in 0..j - 1 : i \in 0..k - 1 OBVIOUS
      <3>2. \A i \in 0..j - 1 : f[i] = g[i] BY <2>4, <3>1, Zenon
      <3>3. Left(s, f, j) = Left(s, g, j)
        <4>1. Agree(s, f, s, g, j) BY <3>2, Zenon DEF Agree
        <4>2. SameLeft(s, f, s, g, j) BY <3>1, <4>1, LeftAgrees, Zenon
        <4>3. QED BY <4>2, Zenon DEF SameLeft
      <3>4. CASE j = k BY <2>2, <3>3, <3>4, Zenon
      <3>5. CASE j # k
        <4>1. j \in 0..k - 1 BY <3>5
        <4>2. f[j] = Left(s, f, j) BY <2>1, <4>1, Zenon DEF Thins
        <4>3. QED BY <2>4, <3>3, <4>1, <4>2, Zenon
      <3>6. QED BY <3>4, <3>5, Zenon
    <2>6. g = [j \in 0..k |-> g[j]] BY <2>2, Zenon
    <2>7. Thins(g, s, k) BY <2>5, <2>6, Zenon DEF Thins
    <2>8. k \in 0..n OBVIOUS
    <2>9. QED BY <2>7, <2>8, Zenon
  <1> HIDE DEF Q
  <1>3. n \in Q
    <2>1. n \in 0..n OBVIOUS
    <2>2. QED BY <1>1, <1>2, <2>1, IndexInduction, Zenon
  <1>4. QED BY <1>3 DEF Q

LEMMA ThinnedThins ==
  ASSUME NEW s \in Seq(CharClass)
  PROVE  \E f : Thins(f, s, Len(s)) /\ Thinned(s) = f[Len(s)]
  <1> DEFINE R(f) == f = [k \in 0..Len(s) |->
               IF k = 0 THEN {<<>>}
               ELSE {Append(r, s[k]) : r \in f[k - 1]}
                      \cup UNION {f[i - 1] : i \in {i \in 1..k : CursorQuery(SubSeq(s, i, k))}}]
  <1>1. Thinned(s) = (CHOOSE f : R(f))[Len(s)] BY Zenon DEF Thinned, WithSomeRemoved
  <1>2. ASSUME NEW f PROVE Thins(f, s, Len(s)) <=> R(f)
    BY Zenon DEF Thins, Left, Ends
  <1>3. Len(s) \in Nat OBVIOUS
  <1>4. PICK h : R(h) BY <1>2, <1>3, ThinsExists, Zenon
  <1>5. R(CHOOSE f : R(f))
    <2> HIDE DEF R
    <2>1. QED BY <1>4
  <1>6. QED BY <1>1, <1>2, <1>5, Zenon

SameAt(f, g, k) == f[k] = g[k]

(* What is left of a prefix does not depend on what follows it. *)
LEMMA ThinsPrefix ==
  ASSUME NEW s \in Seq(CharClass), NEW x \in Seq(CharClass), NEW t, t = s \o x,
         NEW f, Thins(f, s, Len(s)), NEW g, Thins(g, t, Len(t))
  PROVE  SameAt(f, g, Len(s))
  <1> DEFINE n == Len(s)
             Q == {k \in 0..n : \A j \in 0..k : f[j] = g[j]}
  <1>1. n \in Nat /\ Len(t) \in Nat /\ n <= Len(t) OBVIOUS
  <1>2. ASSUME NEW k \in 0..n, \A j \in 0..k - 1 : f[j] = g[j] PROVE f[k] = g[k]
    <2>1. k \in Nat /\ k \in 0..Len(t) BY <1>1
    <2>2. k # 0 => s[k] = t[k] OBVIOUS
    <2>3. \A i \in 1..k : SubSeq(s, i, k) = SubSeq(t, i, k) OBVIOUS
    <2>4. Ends(s, k) = Ends(t, k) BY <2>3, Zenon DEF Ends
    <2>5. Left(s, f, k) = Left(t, g, k)
      <3>1. Agree(s, f, t, g, k) BY <1>2, <2>2, <2>4, Zenon DEF Agree
      <3>2. SameLeft(s, f, t, g, k) BY <2>1, <3>1, LeftAgrees, Zenon
      <3>3. QED BY <3>2, Zenon DEF SameLeft
    <2>6. f[k] = Left(s, f, k) /\ g[k] = Left(t, g, k) BY <2>1, Zenon DEF Thins
    <2>7. QED BY <2>5, <2>6, Zenon
  <1> HIDE DEF n
  <1>3. 0 \in Q
    <2>1. 0 \in 0..n BY <1>1
    <2>2. f[0] = g[0]
      <3>1. \A j \in 0..0 - 1 : f[j] = g[j] OBVIOUS
      <3>2. QED BY <1>2, <2>1, <3>1, Zenon
    <2>3. QED BY <2>1, <2>2
  <1>4. ASSUME NEW k \in 1..n, k - 1 \in Q PROVE k \in Q
    <2>1. \A j \in 0..k - 1 : f[j] = g[j] BY <1>4
    <2>2. k \in 0..n BY <1>1
    <2>3. f[k] = g[k] BY <1>2, <2>1, <2>2, Zenon
    <2>4. \A j \in 0..k : j = k \/ j \in 0..k - 1 OBVIOUS
    <2>5. QED BY <2>1, <2>2, <2>3, <2>4, Zenon
  <1> HIDE DEF Q
  <1>5. n \in Q
    <2>1. n \in 0..n BY <1>1
    <2>2. QED BY <1>1, <1>3, <1>4, <2>1, IndexInduction, Zenon
  <1>6. n \in 0..n BY <1>1
  <1>7. QED BY <1>5, <1>6 DEF Q, n, SameAt

(* A byte may stay, and a query that was just completed may go. *)
LEMMA ByteStays ==
  ASSUME NEW s \in Seq(CharClass), NEW b \in CharClass, NEW r \in Thinned(s)
  PROVE  Append(r, b) \in Thinned(Append(s, b))
  <1>1. PICK t \in Seq(CharClass) : t = Append(s, b)
    <2>1. Append(s, b) \in Seq(CharClass) OBVIOUS
    <2>2. QED BY <2>1, Zenon
  <1>2. t = s \o <<b>> /\ <<b>> \in Seq(CharClass) BY <1>1
  <1>3. Len(t) = Len(s) + 1 /\ t[Len(t)] = b /\ Len(s) \in Nat BY <1>1
  <1>4. PICK f : Thins(f, s, Len(s)) /\ Thinned(s) = f[Len(s)] BY ThinnedThins
  <1>5. PICK g : Thins(g, t, Len(t)) /\ Thinned(t) = g[Len(t)] BY ThinnedThins
  <1>6. f[Len(s)] = g[Len(s)]
    <2>1. SameAt(f, g, Len(s)) BY <1>2, <1>4, <1>5, ThinsPrefix, Zenon
    <2>2. QED BY <2>1, Zenon DEF SameAt
  <1>7. Len(t) \in 0..Len(t) /\ Len(t) # 0 /\ Len(t) - 1 = Len(s) BY <1>3
  <1>8. g[Len(t)] = Left(t, g, Len(t)) BY <1>5, <1>7, Zenon DEF Thins
  <1>9. r \in g[Len(t) - 1] BY <1>4, <1>6, <1>7, Zenon
  <1>10. Append(r, t[Len(t)]) \in Left(t, g, Len(t)) BY <1>7, <1>9, Zenon DEF Left
  <1>11. QED BY <1>1, <1>3, <1>5, <1>8, <1>10, Zenon

LEMMA QueryGoes ==
  ASSUME NEW s \in Seq(CharClass), NEW q \in Seq(CharClass), q = <<"esc", "[", "6", "n">>,
         NEW r \in Thinned(s)
  PROVE  r \in Thinned(s \o q)
  <1>1. PICK t \in Seq(CharClass) : t = s \o q
    <2>1. s \o q \in Seq(CharClass) OBVIOUS
    <2>2. QED BY <2>1, Zenon
  <1>2. Len(q) = 4 OBVIOUS
  <1>3. Len(t) = Len(s) + 4 /\ Len(s) \in Nat BY <1>1, <1>2
  <1>4. PICK f : Thins(f, s, Len(s)) /\ Thinned(s) = f[Len(s)] BY ThinnedThins
  <1>5. PICK g : Thins(g, t, Len(t)) /\ Thinned(t) = g[Len(t)] BY ThinnedThins
  <1>6. f[Len(s)] = g[Len(s)]
    <2>1. SameAt(f, g, Len(s)) BY <1>1, <1>4, <1>5, ThinsPrefix, Zenon
    <2>2. QED BY <2>1, Zenon DEF SameAt
  <1>7. SubSeq(t, Len(s) + 1, Len(t)) = q
    <2>1. PICK z \in Seq(CharClass) : z = SubSeq(t, Len(s) + 1, Len(t))
      <3>1. SubSeq(t, Len(s) + 1, Len(t)) \in Seq(CharClass) BY <1>3
      <3>2. QED BY <3>1, Zenon
    <2>2. Len(z) = 4 BY <1>3, <2>1
    <2>3. \A k \in 1..4 : z[k] = q[k] BY <1>1, <1>2, <1>3, <2>1
    <2>4. z = q BY <1>2, <2>2, <2>3, SeqEqual
    <2>5. QED BY <2>1, <2>4, Zenon
  <1>8. Len(s) + 1 \in 1..Len(t) /\ Len(t) \in 0..Len(t) /\ Len(t) # 0 /\ (Len(s) + 1) - 1 = Len(s)
    BY <1>3
  <1>9. Len(s) + 1 \in Ends(t, Len(t)) BY <1>7, <1>8, Zenon DEF Ends, CursorQuery
  <1>10. g[Len(t)] = Left(t, g, Len(t)) BY <1>5, <1>8, Zenon DEF Thins
  <1>11. r \in g[(Len(s) + 1) - 1] BY <1>4, <1>6, <1>8, Zenon
  <1>12. r \in Left(t, g, Len(t)) BY <1>8, <1>9, <1>11, Zenon DEF Left
  <1>13. QED BY <1>1, <1>5, <1>10, <1>12, Zenon

LEMMA BytesStay ==
  ASSUME NEW s \in Seq(CharClass), NEW x \in Seq(CharClass), NEW r \in Seq(CharClass),
         r \in Thinned(s)
  PROVE  r \o x \in Thinned(s \o x)
  <1> DEFINE n == Len(x)
             Q == {k \in 0..n : r \o SubSeq(x, 1, k) \in Thinned(s \o SubSeq(x, 1, k))}
  <1>1. n \in Nat /\ \A k \in 1..n : x[k] \in CharClass OBVIOUS
  <1>2. 0 \in Q
    <2>1. 0 \in 0..n /\ SubSeq(x, 1, 0) = <<>> BY <1>1
    <2>2. r \o <<>> = r /\ s \o <<>> = s OBVIOUS
    <2>3. QED BY <2>1, <2>2, Zenon
  <1>3. ASSUME NEW k \in 1..n, k - 1 \in Q PROVE k \in Q
    <2>1. k \in 0..n /\ k \in 1..Len(x) /\ x[k] \in CharClass BY <1>1
    <2>2. PICK u : u = r \o SubSeq(x, 1, k - 1) BY Zenon
    <2>3. PICK p \in Seq(CharClass) : p = s \o SubSeq(x, 1, k - 1)
      <3>1. SubSeq(x, 1, k - 1) \in Seq(CharClass) BY <2>1
      <3>2. s \o SubSeq(x, 1, k - 1) \in Seq(CharClass) BY <3>1
      <3>3. QED BY <3>2, Zenon
    <2>4. u \in Thinned(p) BY <1>3, <2>2, <2>3, Zenon
    <2>5. Append(u, x[k]) \in Thinned(Append(p, x[k])) BY <2>1, <2>3, <2>4, ByteStays, Zenon
    <2>6. Append(u, x[k]) = r \o SubSeq(x, 1, k) BY <2>1, <2>2, MoveOne, Zenon
    <2>7. Append(p, x[k]) = s \o SubSeq(x, 1, k) BY <2>1, <2>3, MoveOne, Zenon
    <2>8. QED BY <2>1, <2>5, <2>6, <2>7, Zenon
  <1> HIDE DEF Q
  <1>4. n \in Q
    <2>1. n \in 0..n BY <1>1
    <2>2. QED BY <1>1, <1>2, <1>3, <2>1, IndexInduction, Zenon
  <1>5. SubSeq(x, 1, n) = x BY SeqWhole
  <1>6. QED BY <1>4, <1>5, Zenon DEF Q

(* The bytes that went through the output filter, those it withholds last. *)
Through(p) == sent = p \o uart.cpq_buffer /\ shown \in Thinned(p)

Filtered == \E p \in Seq(CharClass) : Through(p)

(* Only a transmission moves the output filter. *)
LEMMA OutputRests ==
  ASSUME PortTyped, [Next]_vars, \A byte \in Outputs : ~WriteData(byte)
  PROVE  uart'.cpq_buffer = uart.cpq_buffer /\ UNCHANGED <<sent, shown>>
  <1>1. uart \in Uarts /\ Fits(uart) BY DEF PortTyped
  <1>2. ASSUME UNCHANGED <<uart, sent, shown>>
        PROVE  uart'.cpq_buffer = uart.cpq_buffer /\ UNCHANGED <<sent, shown>>
    BY <1>2
  <1>3. CASE Poll
    <2>1. PICK m \in Muxes(CharClass) :
            /\ \/ UNCHANGED uart
               \/ uart' = queue_input(uart, m.guest)
            /\ UNCHANGED <<sent, shown>>
      BY <1>3, PollStep, Zenon
    <2>2. m.guest \in Seq(CharClass) BY DEF Muxes
    <2>3. CASE uart' = queue_input(uart, m.guest)
      <3>1. SameRegisters(uart, uart') BY <1>1, <2>2, <2>3, QueueFacts
      <3>2. QED BY <2>1, <3>1 DEF SameRegisters
    <2>4. QED BY <2>1, <2>3
  <1>4. CASE ReadData
    <2>1. uart' = read_rbr(uart) /\ UNCHANGED <<sent, shown>> BY <1>4 DEF ReadData
    <2>2. SameRegisters(uart, uart') BY <1>1, <2>1, ReadFacts
    <2>3. QED BY <2>1, <2>2 DEF SameRegisters
  <1>5. CASE \E v \in FcrWrites : WriteFcr(v)
    <2>1. PICK v \in FcrWrites : uart' = write_fcr(uart, v) /\ UNCHANGED <<sent, shown>>
      BY <1>5 DEF WriteFcr, Register
    <2>2. v \in [enable : BOOLEAN, rx_reset : BOOLEAN, trigger : 0..3] BY SerialPortAssumption
    <2>3. uart'.cpq_buffer = uart.cpq_buffer BY <1>1, <2>1, <2>2, FcrFacts
    <2>4. QED BY <2>1, <2>3
  <1>6. ASSUME Untouched(uart, uart'), UNCHANGED <<sent, shown>>
        PROVE  uart'.cpq_buffer = uart.cpq_buffer /\ UNCHANGED <<sent, shown>>
    BY <1>6 DEF Untouched
  <1>7. CASE \E bits \in IerWrites : WriteIer(bits)
    BY <1>1, <1>6, <1>7, SerialPortAssumption, IerFacts DEF WriteIer, Register
  <1>8. CASE \E dlab \in LcrWrites : WriteLcr(dlab)
    BY <1>1, <1>6, <1>8, SerialPortAssumption, LcrFacts DEF WriteLcr, Register
  <1>9. CASE \E bits \in McrWrites : WriteMcr(bits)
    BY <1>1, <1>6, <1>9, SerialPortAssumption, McrFacts DEF WriteMcr, Register
  <1>10. CASE ReadIir \/ ReadLsr \/ ReadMsr
    BY <1>1, <1>6, <1>10, IirFacts, LsrFacts, MsrFacts DEF ReadIir, ReadLsr, ReadMsr, Register
  <1>11. CASE (\E bytes \in Inputs : Type(bytes)) \/ UNCHANGED vars
    BY <1>2, <1>11 DEF Type, vars
  <1>12. QED
    BY <1>3, <1>4, <1>5, <1>7, <1>8, <1>9, <1>10, <1>11 DEF Next, GuestStep, Stopped

LEMMA FilterStep == PortTyped /\ Filtered /\ [Next]_vars => Filtered'
  <1>1. SUFFICES ASSUME PortTyped, Filtered, [Next]_vars PROVE Filtered' OBVIOUS
  <1>2. PICK p \in Seq(CharClass) : Through(p) BY <1>1 DEF Filtered
  <1>3. /\ uart \in Uarts /\ Fits(uart) /\ sent \in Seq(CharClass) /\ shown \in Seq(CharClass)
        /\ uart.cpq_buffer \in CpqPrefixes
    BY <1>1, UartFields DEF PortTyped
  <1>4. CASE \A byte \in Outputs : ~WriteData(byte)
    <2>1. uart'.cpq_buffer = uart.cpq_buffer /\ UNCHANGED <<sent, shown>>
      BY <1>1, <1>4, OutputRests
    <2>2. Through(p)' BY <1>2, <2>1, Zenon DEF Through
    <2>3. QED BY <2>2 DEF Filtered
  <1>5. ASSUME NEW b \in Outputs, WriteData(b) PROVE Filtered'
    <2>1. b \in CharClass BY SerialPortAssumption
    <2>2. /\ uart' = transmit_byte(uart, b) /\ shown' = shown \o Transmitted(uart, b)
          /\ sent' = IF "LOOP" \in uart.mcr THEN sent ELSE Append(sent, b)
      BY <1>5 DEF WriteData
    <2>3. shown \o <<>> = shown BY <1>3
    <2>4. CASE "LOOP" \in uart.mcr
      <3>1. uart'.cpq_buffer = uart.cpq_buffer BY <1>3, <2>1, <2>2, <2>4, TransmitFacts
      <3>2. sent' = sent /\ shown' = shown BY <2>2, <2>3, <2>4, Zenon DEF Transmitted
      <3>3. Through(p)' BY <1>2, <3>1, <3>2, Zenon DEF Through
      <3>4. QED BY <3>3 DEF Filtered
    <2>5. CASE "LOOP" \notin uart.mcr
      <3>1. PICK c : c = CpqStep(uart.cpq_buffer, b) BY Zenon
      <3>2. uart'.cpq_buffer = c.buffer BY <1>3, <2>1, <2>2, <2>5, <3>1, TransmitFacts
      <3>3. shown' = shown \o c.out /\ sent' = Append(sent, b)
        BY <2>2, <2>5, <3>1, Zenon DEF Transmitted
      <3>4. PICK x \in Seq(CharClass) : x = uart.cpq_buffer BY <1>3, WithheldQueryTyped
      <3>5. PICK seen \in Seq(CharClass) : seen = Append(x, b)
        <4>1. Append(x, b) \in Seq(CharClass) BY <2>1
        <4>2. QED BY <4>1, Zenon
      <3>6. sent' = p \o seen
        <4>1. sent = p \o x BY <1>2, <3>4 DEF Through
        <4>2. Append(p \o x, b) = p \o Append(x, b)
          <5>1. <<b>> \in Seq(CharClass) /\ p \o x \in Seq(CharClass) BY <2>1
          <5>2. Regroups(p, x, <<b>>) BY <5>1, Regroup, Zenon
          <5>3. Append(p \o x, b) = (p \o x) \o <<b>> BY <2>1, <5>1, SeqAppends, Zenon
          <5>4. Append(x, b) = x \o <<b>> BY <2>1, SeqAppends, Zenon
          <5>5. QED BY <5>2, <5>3, <5>4, Zenon DEF Regroups
        <4>3. QED BY <3>3, <3>5, <4>1, <4>2, Zenon
      <3>7. sent' \in Seq(CharClass) BY <1>3, <2>1, <3>3
      <3>8. sent' \o <<>> = sent' BY <3>7
      <3>9. shown \in Thinned(p) BY <1>2 DEF Through
      <3>10. \/ c = [buffer |-> seen, out |-> <<>>]
             \/ c = [buffer |-> <<>>, out |-> seen]
             \/ seen = <<"esc", "[", "6", "n">> /\ c = [buffer |-> <<>>, out |-> <<>>]
        BY <1>3, <2>1, <3>1, <3>4, <3>5, CpqFacts, Zenon
      <3>11. CASE c = [buffer |-> seen, out |-> <<>>]
        <4>1. c.buffer = seen /\ c.out = <<>> BY <3>11
        <4>2. Through(p)' BY <2>3, <3>2, <3>3, <3>6, <3>9, <4>1, Zenon DEF Through
        <4>3. QED BY <4>2 DEF Filtered
      <3>12. CASE c = [buffer |-> <<>>, out |-> seen]
        <4>1. c.buffer = <<>> /\ c.out = seen BY <3>12
        <4>2. shown \o seen \in Thinned(p \o seen) BY <1>3, <3>9, BytesStay
        <4>3. Through(sent)' BY <3>2, <3>3, <3>6, <3>8, <4>1, <4>2, Zenon DEF Through
        <4>4. QED BY <3>7, <4>3 DEF Filtered
      <3>13. CASE seen = <<"esc", "[", "6", "n">> /\ c = [buffer |-> <<>>, out |-> <<>>]
        <4>1. c.buffer = <<>> /\ c.out = <<>> BY <3>13
        <4>2. shown \in Thinned(p \o seen) BY <3>9, <3>13, QueryGoes, Zenon
        <4>3. Through(sent)' BY <2>3, <3>2, <3>3, <3>6, <3>8, <4>1, <4>2, Zenon DEF Through
        <4>4. QED BY <3>7, <4>3 DEF Filtered
      <3>14. QED BY <3>10, <3>11, <3>12, <3>13
    <2>6. QED BY <2>4, <2>5
  <1>6. QED BY <1>4, <1>5

(* The output filter takes nothing from what the guest prints but complete *)
(* cursor-position queries, however the bytes of one arrive and whatever   *)
(* register accesses come in between (Serial16550::filter_cpq).            *)
THEOREM FilterTheorem == Spec => []OnlyQueriesFiltered
  <1>1. Init => Filtered
    <2>1. SUFFICES ASSUME Init PROVE Through(<<>>)
      <3>1. <<>> \in Seq(CharClass) OBVIOUS
      <3>2. QED BY <2>1, <3>1, Zenon DEF Filtered
    <2>2. sent = <<>> /\ shown = <<>> /\ uart.cpq_buffer = <<>> BY <2>1 DEF Init, NewUart
    <2>3. <<>> \in Seq(CharClass) /\ Len(<<>>) = 0 /\ <<>> \o <<>> = <<>> OBVIOUS
    <2>4. PICK f : Thins(f, <<>>, 0) /\ Thinned(<<>>) = f[0] BY <2>3, ThinnedThins, Zenon
    <2>5. f[0] = {<<>>} BY <2>4 DEF Thins, Left
    <2>6. QED BY <2>2, <2>3, <2>4, <2>5, Zenon DEF Through
  <1>2. PortTyped /\ Filtered => OnlyQueriesFiltered
    <2>1. SUFFICES ASSUME PortTyped, NEW p \in Seq(CharClass), Through(p)
                   PROVE  OnlyQueriesFiltered
      BY DEF Filtered
    <2>2. shown \in Seq(CharClass) /\ uart.cpq_buffer \in Seq(CharClass)
      BY <2>1, UartFields, WithheldQueryTyped DEF PortTyped
    <2>3. sent = p \o uart.cpq_buffer /\ shown \in Thinned(p) BY <2>1 DEF Through
    <2>4. shown \o uart.cpq_buffer \in Thinned(p \o uart.cpq_buffer)
      BY <2>2, <2>3, BytesStay
    <2>5. QED BY <2>3, <2>4, Zenon DEF OnlyQueriesFiltered, Thinned
  <1>3. QED BY <1>1, <1>2, PortInit, PortStep, FilterStep, PTL DEF Spec
=============================================================================
