------------------------------ MODULE SerialPort ------------------------------
(***************************************************************************)
(* The 16550 UART driven by its users: a thread forwards the keyboard, the *)
(* run loop polls it through the console mux and queues what is for the    *)
(* guest, the guest reads and writes the registers, and the terminal shows *)
(* what is transmitted.  History variables record what went in and out, so *)
(* that the properties can relate the two ends.                            *)
(***************************************************************************)
EXTENDS Serial16550, Console

CONSTANTS
  Inputs,      \* the bursts the keyboard may send (sequences)
  MaxTyped,    \* bound on the bytes typed at the host
  Outputs,     \* the bytes the guest may transmit
  MaxSent,     \* bound on the bytes transmitted and, in loopback, read back
  IerWrites, McrWrites, FcrWrites,   \* the values the guest may write
  LcrWrites    \* the values it may give DLAB

ASSUME SerialPortAssumption ==
  /\ Inputs \subseteq Seq(CharClass) /\ Outputs \subseteq CharClass
  /\ MaxTyped \in Nat /\ MaxSent \in Nat
  /\ IerWrites \subseteq SUBSET IerBits /\ McrWrites \subseteq SUBSET McrBits
  /\ FcrWrites \subseteq [enable : BOOLEAN, rx_reset : BOOLEAN, trigger : 0..3]
  /\ LcrWrites \subseteq BOOLEAN

VARIABLES
  uart,
  armed,     \* the mux has seen Ctrl-A and waits for the key
  channel,   \* bytes of the stdin thread the loop has not polled yet
  keyed,     \* every byte sent by the stdin thread
  asked,     \* every host command the mux recognised
  typed,     \* every byte queued by the host
  got,       \* every byte the guest read from RBR
  sent,      \* every byte the guest transmitted outside loopback
  shown,     \* every byte that reached the host terminal
  seenMsr,   \* the modem status the guest read last
  disturbed  \* what the guest has done to the receive path: "no", "reset", "looped"

console == <<armed, channel, keyed, asked, typed>>
vars == <<uart, console, got, sent, shown, seenMsr, disturbed>>

TypeOK ==
  /\ uart \in Uarts
  /\ Len(uart.rx_fifo) <= IF uart.fifo_enabled THEN FIFO_SIZE ELSE 1

Init ==
  /\ uart = NewUart
  /\ armed = FALSE /\ channel = <<>> /\ keyed = <<>> /\ asked = <<>>
  /\ typed = <<>> /\ got = <<>> /\ sent = <<>> /\ shown = <<>> /\ seenMsr = {}
  /\ disturbed = "no"

-----------------------------------------------------------------------------
(* Input that finds the FIFO off, or is in the UART when the FIFO is       *)
(* switched or reset, may be lost; bytes looped back join the receive FIFO *)
(* ahead of staged input.                                                  *)
Disturb(by, when) == disturbed' = IF when /\ disturbed # "looped" THEN by ELSE disturbed

(* The stdin thread sends byte after byte; a burst is sent between two     *)
(* polls.                                                                  *)
Type(bytes) ==
  /\ Len(keyed) + Len(bytes) <= MaxTyped
  /\ channel' = channel \o bytes /\ keyed' = keyed \o bytes
  /\ UNCHANGED <<uart, armed, asked, typed, got, sent, shown, seenMsr, disturbed>>

(* Ctrl-A x ends the loop, and with it the machine. *)
Quits(actions) == \E i \in 1..Len(actions) : actions[i] = "Quit"
Running == ~Quits(asked)

(* The poll phase of Vmm::run.  A poll that quits queues nothing. *)
Poll ==
  /\ Running
  /\ LET m == poll(armed, channel)
     IN  /\ armed' = m.armed /\ channel' = <<>> /\ asked' = asked \o m.actions
         /\ IF m.guest = <<>> \/ Quits(m.actions)
            THEN UNCHANGED <<uart, typed, disturbed>>
            ELSE /\ uart' = queue_input(uart, m.guest)
                 /\ typed' = typed \o m.guest
                 /\ Disturb("reset", ~uart.fifo_enabled)
  /\ UNCHANGED <<keyed, got, sent, shown, seenMsr>>

(* With DLAB set the data and IER offsets address the divisor latch. *)
ReadData ==
  /\ ~uart.dlab
  /\ uart' = read_rbr(uart)
  /\ got' = IF uart.rx_fifo = <<>> THEN got ELSE Append(got, Head(uart.rx_fifo))
  /\ UNCHANGED <<console, sent, shown, seenMsr, disturbed>>

WriteData(byte) ==
  /\ ~uart.dlab
  /\ Len(sent) + Len(got) < MaxSent
  /\ uart' = transmit_byte(uart, byte)
  /\ sent' = IF "LOOP" \in uart.mcr THEN sent ELSE Append(sent, byte)
  /\ shown' = shown \o Transmitted(uart, byte)
  /\ Disturb("looped", "LOOP" \in uart.mcr)
  /\ UNCHANGED <<console, got, seenMsr>>

(* Register accesses that move no data. *)
Register(u) == uart' = u /\ UNCHANGED <<console, got, sent, shown>>

WriteFcr(v) ==
  /\ Register(write_fcr(uart, v))
  /\ Disturb("reset", typed # <<>> /\ (~v.enable \/ v.rx_reset))
  /\ UNCHANGED seenMsr

WriteIer(bits) == ~uart.dlab /\ Register(write_ier(uart, bits)) /\ UNCHANGED <<seenMsr, disturbed>>
WriteLcr(dlab) == Register([uart EXCEPT !.dlab = dlab]) /\ UNCHANGED <<seenMsr, disturbed>>
WriteMcr(bits) == Register(write_mcr(uart, bits)) /\ UNCHANGED <<seenMsr, disturbed>>
ReadIir == Register(read_iir(uart)) /\ UNCHANGED <<seenMsr, disturbed>>
ReadLsr == Register(read_lsr(uart)) /\ UNCHANGED <<seenMsr, disturbed>>
ReadMsr == Register(read_msr(uart)) /\ seenMsr' = uart.msr /\ UNCHANGED disturbed

GuestStep ==
  \/ ReadData
  \/ \E byte \in Outputs : WriteData(byte)
  \/ \E bits \in IerWrites : WriteIer(bits)
  \/ \E v \in FcrWrites : WriteFcr(v)
  \/ \E dlab \in LcrWrites : WriteLcr(dlab)
  \/ \E bits \in McrWrites : WriteMcr(bits)
  \/ ReadIir \/ ReadLsr \/ ReadMsr

Stopped == ~Running /\ UNCHANGED vars

Next ==
  \/ \E bytes \in Inputs : Type(bytes)
  \/ Poll
  \/ Running /\ GuestStep
  \/ Stopped

Spec == Init /\ [][Next]_vars

-----------------------------------------------------------------------------
(* However typing falls between the polls, the mux passes on what the      *)
(* bytes mean: host commands in order, and everything else to the guest,   *)
(* "so nothing is silently lost" (Console::poll).  Only the poll that      *)
(* quits drops the bytes that came with it.                                *)
EscapesAreExact ==
  LET polled == SubSeq(keyed, 1, Len(keyed) - Len(channel))
  IN  asked = ForHost(polled) /\ (Running => typed = ForGuest(polled))

(* Everything on its way to the guest, oldest first. *)
Stream == got \o uart.rx_fifo \o uart.input_buffer

(* "A burst/paste larger than the FIFO is delivered without loss as the    *)
(* guest drains it" (queue_input): while the guest leaves the FIFO on,     *)
(* what it has read, then the receive FIFO, then the staged input, is what *)
(* was typed, in order.                                                    *)
PasteIsDelivered == disturbed = "no" => Stream = typed

(* pump_input meters staged input into the FIFO "up to its capacity": a    *)
(* byte stays staged only while the FIFO is full, so whenever input waits  *)
(* the receiver has data ready and can interrupt for it.                   *)
Metered ==
  disturbed = "no" /\ uart.input_buffer # <<>> => Len(uart.rx_fifo) = FIFO_SIZE

(* Matching the elements of s one after the other along t uses up s. *)
IsSubsequence(s, t) ==
  Len(s) = FoldLeft(LAMBDA n, c : IF n < Len(s) /\ s[n + 1] = c THEN n + 1 ELSE n, 0, t)

(* In every mode, FIFO on or off, reset or not: input may be dropped by an *)
(* overrun or a reset, but what remains is in typing order and nothing is  *)
(* delivered twice.                                                        *)
InTypingOrder ==
  disturbed # "looped" => IsSubsequence(Stream, typed)

-----------------------------------------------------------------------------
(* The sequences that result from removing some complete matches from s:   *)
(* the k-th byte stays, or it ends a match that began at i.                *)
WithSomeRemoved(s, Match(_)) ==
  LET upTo[k \in 0..Len(s)] ==
        IF k = 0 THEN {<<>>}
        ELSE {Append(r, s[k]) : r \in upTo[k - 1]}
               \cup UNION {upTo[i - 1] : i \in {i \in 1..k : Match(SubSeq(s, i, k))}}
  IN  upTo[Len(s)]

(* ESC [ n ; n R, and ESC [ 6 n. *)
CursorResponse(s) ==
  /\ Len(s) >= 4
  /\ SubSeq(s, 1, 3) = <<"esc", "[", "6">>
  /\ \A i \in 4..Len(s) - 1 : s[i] \in {"6", ";"}
  /\ s[Len(s)] = "R"
CursorQuery(s) == s = <<"esc", "[", "6", "n">>


(* The output filter takes only cursor-position queries out of what the    *)
(* guest transmits: the terminal's text and the withheld bytes are the     *)
(* transmitted ones, less some complete queries (filter_cpq).              *)
OnlyQueriesFiltered ==
  shown \o uart.cpq_buffer \in WithSomeRemoved(sent, CursorQuery)

(* Modem status deltas are never lost: an input that differs from the      *)
(* status the guest read last has its delta bit set, however many loopback *)
(* changes and mode switches came in between (update_modem_status).        *)
DeltasAreKept ==
  \A b \in MsrBits \ {"RI"} : (b \in uart.msr) # (b \in seenMsr) => b \in uart.msr_delta
=============================================================================
