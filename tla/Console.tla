-------------------------------- MODULE Console --------------------------------
(***************************************************************************)
(* The escape-key mux of the host console (Console::poll,                  *)
(* src/src/host/console.rs).  Ctrl-A announces a host command; every other *)
(* byte goes to the guest.  The mux works on what has arrived since the    *)
(* last poll, so a Ctrl-A and its key may come in different polls.         *)
(***************************************************************************)
EXTENDS SequenceFolds

ESC_PREFIX == "^A"

(* The key of each host command: s, x and h in the code. *)
CommandKeys == {"Snapshot", "Quit", "Help"}

MuxStep(m, byte) ==
  IF m.armed
  THEN LET n == [m EXCEPT !.armed = FALSE]
       IN  IF byte \in CommandKeys THEN [n EXCEPT !.actions = Append(@, byte)]
           ELSE IF byte = ESC_PREFIX THEN [n EXCEPT !.guest = Append(@, byte)]
           ELSE [n EXCEPT !.guest = @ \o <<ESC_PREFIX, byte>>]
  ELSE IF byte = ESC_PREFIX THEN [m EXCEPT !.armed = TRUE]
  ELSE [m EXCEPT !.guest = Append(@, byte)]

pollFresh(armed, raw) ==   \* slip: a prefix is forgotten at the end of a poll
  FoldLeft(MuxStep, [armed |-> FALSE, guest |-> <<>>, actions |-> <<>>], raw)

poll(armed, raw) ==
  FoldLeft(MuxStep, [armed |-> armed, guest |-> <<>>, actions |-> <<>>], raw)

-----------------------------------------------------------------------------
(* What the bytes s mean, however they are divided into polls.  A Ctrl-A   *)
(* is a prefix if an even number of them stands directly before it.        *)
Announces(s, i) ==
  /\ s[i] = ESC_PREFIX
  /\ \E k \in 0..i - 1 : /\ k = 0 \/ s[k] # ESC_PREFIX
                         /\ \A j \in k + 1..i - 1 : s[j] = ESC_PREFIX
                         /\ (i - 1 - k) % 2 = 0

Follows(s, i) == i > 1 /\ Announces(s, i - 1)

MeansToGuest(s, i) ==
  IF Announces(s, i) \/ (Follows(s, i) /\ s[i] \in CommandKeys) THEN <<>>
  ELSE IF Follows(s, i) /\ s[i] # ESC_PREFIX THEN <<ESC_PREFIX, s[i]>>
  ELSE <<s[i]>>

(* What is left of the first n bytes, for the guest and for the host. *)
ForGuest(s) ==
  LET first[n \in 0..Len(s)] == IF n = 0 THEN <<>> ELSE first[n - 1] \o MeansToGuest(s, n)
  IN  first[Len(s)]

MeansToHost(s, i) == IF Follows(s, i) /\ s[i] \in CommandKeys THEN <<s[i]>> ELSE <<>>

ForHost(s) ==
  LET first[n \in 0..Len(s)] == IF n = 0 THEN <<>> ELSE first[n - 1] \o MeansToHost(s, n)
  IN  first[Len(s)]
================================================================================
