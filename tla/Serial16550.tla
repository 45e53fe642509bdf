----------------------------- MODULE Serial16550 -----------------------------
(***************************************************************************)
(* The 16550 UART of src/src/devices/serial.rs (struct Serial16550).  The  *)
(* device is a record and every method an operator on it; SerialPort is    *)
(* the state machine, VmLoop the UART inside the machine.                  *)
(*                                                                         *)
(* Host input passes a filter for terminal cursor-position responses       *)
(* (ESC [ n ; n R), is staged without bound, and is metered into the       *)
(* receive FIFO; the transmitter sends at once.                            *)
(*                                                                         *)
(* Bytes are abstracted to the classes the two filters tell apart.  The    *)
(* registers that are sets of enable or status bits are sets of bit names. *)
(* Left out: the scratch and divisor registers, the line parameters, the   *)
(* timeout counter (nothing reads it), and the transmit FIFO and receive   *)
(* error flags (no code fills the one or raises the others, so THRE and    *)
(* TEMT always read as set and PE, FE, BI as clear).                       *)
(***************************************************************************)
EXTENDS SequenceFolds

CONSTANTS
  FIFO_SIZE,   \* 16 in the code
  Triggers     \* receive trigger level for FCR bits 7:6; 1, 4, 8, 14 in the code

ASSUME SerialAssumption ==
  /\ FIFO_SIZE \in Nat \ {0, 1}
  /\ Triggers \in [0..3 -> 1..FIFO_SIZE]

(* The bytes the filters tell apart ('6' stands for every digit) and those *)
(* the console's escapes do (module Console).                              *)
CharClass == {"esc", "[", "6", ";", "R", "n", "x", "^A", "Snapshot", "Quit", "Help"}

IerBits == {"RDA", "THRE", "RLS", "MS"}
McrBits == {"DTR", "RTS", "OUT1", "OUT2", "LOOP"}
MsrBits == {"CTS", "DSR", "RI", "DCD"}
CprFilterState == {"Normal", "GotEsc", "GotBracket", "InNumber"}
CpqPrefixes == {<<>>, <<"esc">>, <<"esc", "[">>, <<"esc", "[", "6">>}

Uarts == [ier : SUBSET IerBits,
          dlab : BOOLEAN,
          mcr : SUBSET McrBits,
          fifo_enabled : BOOLEAN,
          rx_fifo : Seq(CharClass),
          rx_trigger : 1..FIFO_SIZE,
          overrun_error : BOOLEAN,
          msr : SUBSET MsrBits,
          msr_delta : SUBSET MsrBits,
          thre_interrupt : BOOLEAN,
          input_buffer : Seq(CharClass),
          cpr_state : CprFilterState,
          cpq_buffer : CpqPrefixes]

NewUart ==
  [ier |-> {}, dlab |-> FALSE, mcr |-> {}, fifo_enabled |-> FALSE,
   rx_fifo |-> <<>>, rx_trigger |-> Triggers[0], overrun_error |-> FALSE,
   msr |-> {}, msr_delta |-> {}, thre_interrupt |-> FALSE,
   input_buffer |-> <<>>, cpr_state |-> "Normal", cpq_buffer |-> <<>>]

-----------------------------------------------------------------------------
(* Receiving. *)

(* Slip: without FIFO the unread byte is kept in front of the new one. *)
receive_byteQueued(u, byte) ==
  IF Len(u.rx_fifo) >= FIFO_SIZE THEN [u EXCEPT !.overrun_error = TRUE]
  ELSE [u EXCEPT !.rx_fifo = Append(@, byte)]

receive_byte(u, byte) ==
  IF u.fifo_enabled
  THEN IF Len(u.rx_fifo) >= FIFO_SIZE
       THEN [u EXCEPT !.overrun_error = TRUE]
       ELSE [u EXCEPT !.rx_fifo = Append(@, byte)]
  ELSE [u EXCEPT !.overrun_error = @ \/ u.rx_fifo # <<>>,
                 !.rx_fifo = <<byte>>]

(* pump_input moves staged bytes one by one while the FIFO has room.  Each *)
(* of the n bytes it moves goes through receive_byte: with the FIFO on     *)
(* they are appended, with it off each replaces the one before.            *)
PumpCountOverfull(u) ==   \* slip: one byte more than there is room for
  IF u.fifo_enabled
  THEN LET room == FIFO_SIZE + 1 - Len(u.rx_fifo)
       IN  IF Len(u.input_buffer) < room THEN Len(u.input_buffer) ELSE room
  ELSE Len(u.input_buffer)

PumpCount(u) ==
  IF u.fifo_enabled
  THEN LET room == FIFO_SIZE - Len(u.rx_fifo)
       IN  IF Len(u.input_buffer) < room THEN Len(u.input_buffer) ELSE room
  ELSE Len(u.input_buffer)

pump_inputNewest(u) ==   \* slip: the newest staged bytes are moved first
  LET keep == Len(u.input_buffer) - PumpCount(u)
  IN  [FoldLeft(receive_byte, u, SubSeq(u.input_buffer, keep + 1, Len(u.input_buffer)))
         EXCEPT !.input_buffer = SubSeq(@, 1, keep)]

pump_input(u) ==
  [FoldLeft(receive_byte, u, SubSeq(u.input_buffer, 1, PumpCount(u)))
     EXCEPT !.input_buffer = SubSeq(@, PumpCount(u) + 1, Len(@))]

(* The cursor-position-response filter: the next state, and the bytes that *)
(* are staged for the guest.                                               *)
CprStep(state, byte) ==
  CASE state = "Normal" ->
         IF byte = "esc" THEN [state |-> "GotEsc", out |-> <<>>]
         ELSE [state |-> "Normal", out |-> <<byte>>]
    [] state = "GotEsc" ->
         IF byte = "[" THEN [state |-> "GotBracket", out |-> <<>>]
         ELSE [state |-> "Normal", out |-> <<"esc", byte>>]
    [] state = "GotBracket" ->
         IF byte = "6" THEN [state |-> "InNumber", out |-> <<>>]
         ELSE [state |-> "Normal", out |-> <<"esc", "[", byte>>]
    [] state = "InNumber" ->
         IF byte \in {"6", ";"} THEN [state |-> "InNumber", out |-> <<>>]
         ELSE IF byte = "R" THEN [state |-> "Normal", out |-> <<>>]
         ELSE [state |-> "Normal", out |-> <<byte>>]

StageByte(u, byte) ==
  LET next == CprStep(u.cpr_state, byte)
  IN  [u EXCEPT !.cpr_state = next.state, !.input_buffer = @ \o next.out]

queue_input(u, bytes) == pump_input(FoldLeft(StageByte, u, bytes))

-----------------------------------------------------------------------------
(* Interrupts, highest priority first. *)

RxPending(u) == "RDA" \in u.ier /\ u.rx_fifo # <<>>

InterruptIds == {"RLS", "RDA", "CTI", "THRE", "MS", "none"}

get_pending_interrupt(u) ==
  IF "RLS" \in u.ier /\ u.overrun_error THEN "RLS"
  ELSE IF RxPending(u) /\ u.fifo_enabled /\ Len(u.rx_fifo) < u.rx_trigger THEN "CTI"
  ELSE IF RxPending(u) THEN "RDA"
  ELSE IF "THRE" \in u.ier /\ u.thre_interrupt THEN "THRE"
  ELSE IF "MS" \in u.ier /\ u.msr_delta # {} THEN "MS"
  ELSE "none"

has_pending_interrupt(u) ==
  "OUT2" \in u.mcr /\ get_pending_interrupt(u) # "none"

-----------------------------------------------------------------------------
(* Modem status: the inputs change only through loopback. *)

update_modem_statusFresh(u, status) ==   \* slip: deltas replace earlier ones
  [u EXCEPT
     !.msr = status,
     !.msr_delta = {b \in MsrBits \ {"RI"} : (b \in u.msr) # (b \in status)}]

update_modem_status(u, status) ==
  [u EXCEPT
     !.msr = status,
     !.msr_delta = @ \cup {b \in MsrBits \ {"RI"} : (b \in u.msr) # (b \in status)}
                     \cup ((u.msr \cap {"RI"}) \ status)]

(* In loopback each modem output drives one modem input. *)
LoopedStatus(mcr) ==
  LET wire == [CTS |-> "RTS", DSR |-> "DTR", RI |-> "OUT1", DCD |-> "OUT2"]
  IN  {b \in MsrBits : wire[b] \in mcr}

write_mcr(u, bits) ==
  LET w == [u EXCEPT !.mcr = bits]
  IN  IF "LOOP" \in bits THEN update_modem_status(w, LoopedStatus(bits))
      ELSE IF "LOOP" \in u.mcr THEN update_modem_status(w, {})
      ELSE w

-----------------------------------------------------------------------------
(* The FIFO control register: [enable, rx_reset, trigger].  Staged input is *)
(* not pumped into the emptied FIFO.                                        *)
write_fcr(u, v) ==
  [u EXCEPT !.fifo_enabled = v.enable,
            !.rx_fifo = IF v.enable # u.fifo_enabled \/ v.rx_reset THEN <<>> ELSE @,
            !.overrun_error = @ /\ ~v.rx_reset,
            !.rx_trigger = Triggers[v.trigger]]

(* The cursor-position-query filter on output: the bytes that reach the    *)
(* host terminal and what is still withheld.                               *)
CpqStepForgetful(buffer, byte) ==   \* slip: a mismatch drops what was withheld
  LET seen == Append(buffer, byte)
  IN  IF seen \in CpqPrefixes THEN [buffer |-> seen, out |-> <<>>]
      ELSE [buffer |-> <<>>, out |-> IF byte = "n" THEN <<>> ELSE <<byte>>]

CpqStep(buffer, byte) ==
  LET seen == Append(buffer, byte)
  IN  IF seen \in CpqPrefixes THEN [buffer |-> seen, out |-> <<>>]
      ELSE IF seen = <<"esc", "[", "6", "n">> THEN [buffer |-> <<>>, out |-> <<>>]
      ELSE [buffer |-> <<>>, out |-> seen]

(* A write to the transmit holding register, in loopback mode or not. *)
transmit_byte(u, byte) ==
  [(IF "LOOP" \in u.mcr THEN receive_byte(u, byte)
    ELSE [u EXCEPT !.cpq_buffer = CpqStep(u.cpq_buffer, byte).buffer])
     EXCEPT !.thre_interrupt = TRUE]

Transmitted(u, byte) ==
  IF "LOOP" \in u.mcr THEN <<>> ELSE CpqStep(u.cpq_buffer, byte).out

write_ier(u, bits) ==
  [u EXCEPT !.ier = bits, !.thre_interrupt = @ \/ "THRE" \in bits]

-----------------------------------------------------------------------------
(* Reads with side effects: RBR, IIR, LSR and MSR. *)

read_rbrOnly(u) ==   \* slip: no refill after the read
  [u EXCEPT !.rx_fifo = IF @ = <<>> THEN @ ELSE Tail(@)]

read_rbr(u) ==
  pump_input([u EXCEPT !.rx_fifo = IF @ = <<>> THEN @ ELSE Tail(@)])

(* Reading IIR clears a THRE interrupt only when that is what it reports. *)
read_iir(u) ==
  [u EXCEPT !.thre_interrupt = @ /\ get_pending_interrupt(u) # "THRE"]

read_lsr(u) == [u EXCEPT !.overrun_error = FALSE]

read_msr(u) == [u EXCEPT !.msr_delta = {}]
=============================================================================
