------------------------------- MODULE MCSerial -------------------------------
(* Instances of the UART for TLC: a three-byte FIFO. *)
EXTENDS SerialPort

MCTriggers == [i \in 0..3 |-> IF i = 0 THEN 1 ELSE IF i = 3 THEN 3 ELSE 2]

Bursts == {<<"x">>, <<"n", "R">>, <<"x", "n", "x", "R">>}
Escapes == {<<ESC_PREFIX>>} \cup {<<key>> : key \in CommandKeys}
AllInputs == Bursts \cup Escapes
Keys == {<<c>> : c \in {"esc", "[", "6", ";", "R", "x"}}

Fcr(enable, rx_reset, trigger) ==
  [enable |-> enable, rx_reset |-> rx_reset, trigger |-> trigger]
AllFcr == {Fcr(e, r, t) : e \in BOOLEAN, r \in BOOLEAN, t \in {0, 3}}
FifoOn == {Fcr(TRUE, FALSE, 0)}

DriverIer == {{"RDA", "THRE", "RLS", "MS"}}
SomeMcr == SUBSET {"RTS", "OUT1", "LOOP"}

(* The independent parts of the port, the mux, input, output and modem     *)
(* status, are explored one at a time: while one is in use the others stay *)
(* as after reset, which keeps their state spaces from multiplying.        *)
InputIdle == keyed = <<>>
MuxIdle == \A i \in 1..Len(keyed) : <<keyed[i]>> \notin Escapes
OutputIdle == sent = <<>>
ModemIdle == uart.mcr \subseteq {"LOOP"} /\ uart.msr = {} /\ uart.msr_delta = {} /\ seenMsr = {}
Plain == uart.ier = {} /\ ~uart.fifo_enabled /\ ~uart.dlab /\ uart.rx_trigger = Triggers[0]

OneAspect ==
  /\ IF MuxIdle THEN Len(channel) = 0 \/ channel \in Inputs
     ELSE OutputIdle /\ ModemIdle /\ Plain /\ got = <<>> /\ Len(keyed) <= 5
  /\ disturbed = "looped" => InputIdle /\ OutputIdle /\ Plain
  /\ ~OutputIdle => InputIdle /\ ModemIdle /\ Plain
  /\ ~ModemIdle => InputIdle /\ OutputIdle /\ Plain /\ got = <<>> /\ uart.rx_fifo = <<>>
=============================================================================
