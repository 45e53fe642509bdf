----------------------------- MODULE GdbSession -----------------------------
(***************************************************************************)
(* The GDB stub: a debugger at the other end of a TCP connection, the      *)
(* server thread (debug/gdb/mod.rs, commands.rs), the VMM's run loop       *)
(* (runtime.rs) and the two channels between these threads.  The server    *)
(* pairs a command with an answer by position only: it sends a command and *)
(* takes the next response there is, whatever it answers.                  *)
(*                                                                         *)
(* A command is its kind and the number of the request it was sent for.  A *)
(* response is that number: the server acts on its arrival, and its        *)
(* contents only decide the text of the reply.  Both numbers, and          *)
(* `drift', are history: the code has no such fields.                      *)
(*                                                                         *)
(* `drift' collects the causes that can leave a response nobody waits for: *)
(*   "attach"   the debugger connected while the guest was running, which  *)
(*              does not stop the guest;                                   *)
(*   "timeout"  the server gave up on an answer after 5 seconds;           *)
(*   "crossing" Ctrl-C was handled when the guest had stopped already;     *)
(*   "closed"   the connection was closed while the guest was running;     *)
(*   "detach"   the session ended with a Detach.                           *)
(***************************************************************************)
EXTENDS Naturals, Sequences

CONSTANTS Addrs,         \* addresses of the guest's instructions
          Exits,         \* the ones that leave the vCPU with an exit, port I/O say
          MaxRequests    \* bound: requests of all sessions together

ASSUME GdbAssumption == MaxRequests \in Nat

VARIABLES client,              \* what the debugger believes
          ctrl_c,              \* an 0x03 byte is on its way to the server
          server,              \* where the server thread is
          asked,               \* number of the server's last request
          cmds, resps,         \* the channels
          vmm,                 \* where the VMM's thread is
          gdb_stopped,
          single_step,         \* of the vCPU
          debug_breakpoints,   \* of the vCPU, gdb_breakpoints alike
          rip,
          resumed,             \* the request that last set the guest running
          drift

debugger == <<client, ctrl_c>>
channels == <<cmds, resps>>
machine == <<vmm, gdb_stopped, single_step, debug_breakpoints, rip, resumed>>
vars == <<debugger, server, asked, channels, machine, drift>>

(* Requests the server waits 5 seconds for.  "Access" stands for the       *)
(* register and memory packets, which change nothing that is modelled.     *)
Requests == {"Access"} \X {{}} \cup {"SetBreakpoint", "RemoveBreakpoint"} \X {{a} : a \in Addrs}

(* A command, the address it names if it names one, and its request. *)
Command(kind, addr, of) == [kind |-> kind, addr |-> addr, of |-> of]

Blocked == {"poll", "step", "interrupt"}

Init ==
  /\ client = "none" /\ ctrl_c = FALSE /\ server = "accept" /\ asked = 0
  /\ cmds = <<>> /\ resps = <<>>
  /\ vmm \in {"wait_gdb", "top"}
  /\ gdb_stopped = FALSE /\ single_step = FALSE /\ debug_breakpoints = {}
  /\ rip \in Addrs /\ resumed = 0 /\ drift = {}

Alive == vmm # "ended"

-----------------------------------------------------------------------------
(* The debugger and the server's side of each packet. *)

(* A new client asks `?' and is told S05 by the server itself. *)
Connect ==
  /\ Alive /\ server = "accept" /\ client = "none"
  /\ client' = "halted" /\ server' = "idle"
  /\ drift' = IF gdb_stopped \/ vmm = "wait_gdb" THEN drift ELSE drift \cup {"attach"}
  /\ UNCHANGED <<ctrl_c, asked, channels, machine>>

Disconnect ==
  /\ Alive /\ client \in {"halted", "running"}
  /\ client' = "closed"
  /\ UNCHANGED <<ctrl_c, server, asked, channels, machine, drift>>

(* parse_packet skips whatever comes before the packet, an 0x03 included. *)
Send(kind, addr, next) ==
  /\ Alive /\ server = "idle" /\ client = "halted" /\ asked < MaxRequests
  /\ asked' = asked + 1
  /\ cmds' = Append(cmds, Command(kind, addr, asked'))
  /\ server' = next /\ ctrl_c' = FALSE
  /\ UNCHANGED <<resps, machine>>

SendRequest ==
  \E r \in Requests : Send(r[1], r[2], "answer") /\ UNCHANGED <<client, drift>>

SendContinue == Send("Continue", {}, "poll") /\ client' = "running" /\ UNCHANGED drift

SendStep == Send("Step", {}, "step") /\ client' = "running" /\ UNCHANGED drift

(* Detach and Kill end the connection; no response is waited for. *)
SendDetach ==
  Send("Detach", {}, "accept") /\ client' = "none" /\ drift' = drift \cup {"detach"}

SendKill == Send("Kill", {}, "accept") /\ client' = "none" /\ UNCHANGED drift

PressCtrlC ==
  /\ Alive /\ client = "running" /\ ~ctrl_c
  /\ ctrl_c' = TRUE
  /\ UNCHANGED <<client, server, asked, channels, machine, drift>>

(* What the debugger learns when the server replies to its request. *)
Replied == IF client = "running" THEN "halted" ELSE client

RecvAnswer ==
  /\ Alive /\ server \in {"answer", "step", "interrupt"} /\ resps # <<>>
  /\ resps' = Tail(resps) /\ server' = "idle" /\ client' = Replied
  /\ UNCHANGED <<ctrl_c, asked, cmds, machine, drift>>

RecvTimeout ==
  /\ Alive /\ server = "answer" /\ resps = <<>>
  /\ server' = "idle" /\ drift' = drift \cup {"timeout"}
  /\ UNCHANGED <<debugger, asked, channels, machine>>

(* wait_for_stop_or_interrupt: a response comes first, then the socket. *)
PollResponse ==
  /\ Alive /\ server = "poll" /\ resps # <<>>
  /\ resps' = Tail(resps) /\ server' = "idle" /\ client' = Replied
  /\ UNCHANGED <<ctrl_c, asked, cmds, machine, drift>>

PollInterrupt ==
  /\ Alive /\ server = "poll" /\ resps = <<>> /\ ctrl_c
  /\ cmds' = Append(cmds, Command("Interrupt", {}, asked))
  /\ server' = "interrupt" /\ ctrl_c' = FALSE
  /\ UNCHANGED <<client, asked, resps, machine, drift>>

PollClosed ==
  /\ Alive /\ server = "poll" /\ resps = <<>> /\ ~ctrl_c /\ client = "closed"
  /\ server' = "idle" /\ drift' = drift \cup {"closed"}
  /\ UNCHANGED <<debugger, asked, channels, machine>>

(* handle_client answers an 0x03 that comes too late by itself. *)
IdleInterrupt ==
  /\ Alive /\ server = "idle" /\ ctrl_c
  /\ ctrl_c' = FALSE
  /\ UNCHANGED <<client, server, asked, channels, machine, drift>>

IdleClosed ==
  /\ Alive /\ server = "idle" /\ client = "closed" /\ ~ctrl_c
  /\ client' = "none" /\ server' = "accept"
  /\ UNCHANGED <<ctrl_c, asked, channels, machine, drift>>

ServerStep == RecvAnswer \/ PollResponse \/ PollInterrupt

-----------------------------------------------------------------------------
(* The VMM. *)

Respond(c) == resps' = Append(resps, c.of)

DoContinue(c) ==
  /\ gdb_stopped' = FALSE /\ single_step' = FALSE /\ vmm' = "guest"
  /\ resumed' = c.of /\ UNCHANGED <<resps, debug_breakpoints, drift>>

DoStep(c) ==
  /\ gdb_stopped' = FALSE /\ single_step' = TRUE /\ vmm' = "guest"
  /\ resumed' = c.of /\ UNCHANGED <<resps, debug_breakpoints, drift>>

DoInterruptResumes(c) ==   \* slip: returns None, as Continue does
  /\ gdb_stopped' = TRUE /\ single_step' = FALSE /\ vmm' = "guest"
  /\ Respond(c)
  /\ drift' = IF gdb_stopped THEN drift \cup {"crossing"} ELSE drift
  /\ UNCHANGED <<debug_breakpoints, resumed>>

DoInterruptSilent(c) ==   \* slip: no stop reply
  /\ gdb_stopped' = TRUE /\ single_step' = FALSE /\ vmm' = "top"
  /\ UNCHANGED <<resps, debug_breakpoints, resumed, drift>>

DoInterrupt(c) ==
  /\ gdb_stopped' = TRUE /\ single_step' = FALSE /\ vmm' = "top"
  /\ Respond(c)
  /\ drift' = IF gdb_stopped THEN drift \cup {"crossing"} ELSE drift
  /\ UNCHANGED <<debug_breakpoints, resumed>>

DoRequestTwice(c) ==   \* slip: an unknown breakpoint is answered Error and Ok
  /\ gdb_stopped' = (gdb_stopped \/ vmm = "wait_gdb")
  /\ debug_breakpoints' = CASE c.kind = "SetBreakpoint" -> debug_breakpoints \cup c.addr
                            [] c.kind = "RemoveBreakpoint" -> debug_breakpoints \ c.addr
                            [] OTHER -> debug_breakpoints
  /\ vmm' = "top"
  /\ resps' = IF c.kind = "RemoveBreakpoint" /\ ~(c.addr \subseteq debug_breakpoints)
              THEN resps \o <<c.of, c.of>> ELSE Append(resps, c.of)
  /\ UNCHANGED <<single_step, resumed, drift>>

(* With --wait-gdb the first command finds the guest stopped. *)
DoRequest(c) ==
  /\ gdb_stopped' = (gdb_stopped \/ vmm = "wait_gdb")
  /\ debug_breakpoints' = CASE c.kind = "SetBreakpoint" -> debug_breakpoints \cup c.addr
                            [] c.kind = "RemoveBreakpoint" -> debug_breakpoints \ c.addr
                            [] OTHER -> debug_breakpoints
  /\ vmm' = "top"
  /\ Respond(c) /\ UNCHANGED <<single_step, resumed, drift>>

(* The vCPU keeps its single-step mode, and its breakpoints. *)
DoDetach(c) ==
  /\ gdb_stopped' = FALSE /\ vmm' = "top" /\ resumed' = c.of
  /\ Respond(c) /\ UNCHANGED <<single_step, debug_breakpoints, drift>>

DoKill ==
  vmm' = "ended" /\ UNCHANGED <<resps, gdb_stopped, single_step, debug_breakpoints, resumed, drift>>

handle_gdb_command(c) ==
  CASE c.kind = "Continue"  -> DoContinue(c)
    [] c.kind = "Step"      -> DoStep(c)
    [] c.kind = "Interrupt" -> DoInterrupt(c)
    [] c.kind = "Detach"    -> DoDetach(c)
    [] c.kind = "Kill"      -> DoKill
    [] OTHER                -> DoRequest(c)

(* The blocking recv of --wait-gdb, the try_recv at the top of the loop and *)
(* the blocking recv of a stopped guest take the command alike.            *)
TakeCommand ==
  /\ vmm \in {"wait_gdb", "top"} /\ cmds # <<>>
  /\ handle_gdb_command(Head(cmds))
  /\ cmds' = Tail(cmds)
  /\ UNCHANGED <<debugger, server, asked, rip>>

EnterGuest ==
  /\ vmm = "top" /\ cmds = <<>> /\ ~gdb_stopped
  /\ vmm' = "guest"
  /\ UNCHANGED <<debugger, server, asked, channels, gdb_stopped, single_step,
                 debug_breakpoints, rip, resumed, drift>>

StopUnmarked ==   \* slip: gdb_stopped is not set
  /\ vmm' = "top" /\ resps' = Append(resps, resumed) /\ UNCHANGED gdb_stopped

(* The guest stops, and the response goes to whoever waits. *)
Stop ==
  /\ gdb_stopped' = TRUE /\ vmm' = "top"
  /\ resps' = Append(resps, resumed)

AtBreakpoint == ~single_step /\ rip \in debug_breakpoints

Breakpoint ==
  /\ vmm = "guest" /\ AtBreakpoint
  /\ Stop
  /\ UNCHANGED <<debugger, server, asked, cmds, single_step, debug_breakpoints, rip,
                 resumed, drift>>

(* One instruction: an exit goes through the VMM's loop before the next,   *)
(* and a completed instruction ends the step.                              *)
Execute ==
  /\ vmm = "guest" /\ ~AtBreakpoint
  /\ rip' \in Addrs
  /\ \/ rip \in Exits /\ vmm' = "top" /\ UNCHANGED <<gdb_stopped, resps>>
     \/ rip \notin Exits /\ single_step /\ Stop
     \/ rip \notin Exits /\ ~single_step /\ UNCHANGED <<vmm, gdb_stopped, resps>>
  /\ UNCHANGED <<debugger, server, asked, cmds, single_step, debug_breakpoints, resumed, drift>>

TimeSliceOnExit ==   \* slip: no housekeeping, only exits return
  /\ vmm = "guest" /\ rip \in Exits
  /\ vmm' = "top"
  /\ UNCHANGED <<debugger, server, asked, channels, gdb_stopped, single_step,
                 debug_breakpoints, rip, resumed, drift>>

(* vcpu.run() returns after about a millisecond, whatever the guest does. *)
TimeSlice ==
  /\ vmm = "guest"
  /\ vmm' = "top"
  /\ UNCHANGED <<debugger, server, asked, channels, gdb_stopped, single_step,
                 debug_breakpoints, rip, resumed, drift>>

-----------------------------------------------------------------------------
Next ==
  \/ Connect \/ Disconnect \/ SendRequest \/ SendContinue \/ SendStep \/ SendDetach
  \/ SendKill \/ PressCtrlC \/ RecvAnswer \/ RecvTimeout \/ PollResponse \/ PollInterrupt
  \/ PollClosed \/ IdleInterrupt \/ IdleClosed
  \/ TakeCommand \/ EnterGuest \/ Breakpoint \/ Execute \/ TimeSlice

(* Both threads are scheduled; the guest owes nobody an instruction. *)
Spec ==
  /\ Init /\ [][Next]_vars
  /\ WF_vars(ServerStep) /\ WF_vars(TakeCommand) /\ WF_vars(EnterGuest) /\ WF_vars(TimeSlice)

-----------------------------------------------------------------------------
(* Types; and a guest that counts as stopped is not executing. *)
TypeOK ==
  /\ client \in {"none", "halted", "running", "closed"} /\ ctrl_c \in BOOLEAN
  /\ server \in {"accept", "idle", "answer"} \cup Blocked
  /\ asked \in 0..MaxRequests /\ resumed \in 0..asked
  /\ \A i \in DOMAIN cmds : cmds[i].of \in 1..asked /\ cmds[i].addr \subseteq Addrs
  /\ \A i \in DOMAIN resps : resps[i] \in 0..asked
  /\ vmm \in {"wait_gdb", "top", "guest", "ended"}
  /\ gdb_stopped \in BOOLEAN /\ single_step \in BOOLEAN
  /\ gdb_stopped => vmm # "guest"
  /\ debug_breakpoints \subseteq Addrs /\ rip \in Addrs
  /\ drift \subseteq {"attach", "timeout", "crossing", "closed", "detach"}

(* The response a waiting server takes next answers the request it waits   *)
(* for, unless one of the five causes has put the channels out of step.    *)
AnswersArePaired ==
  drift = {} /\ server \in {"answer"} \cup Blocked /\ resps # <<>> => resps[1] = asked

(* A debugger that believes the guest halted is right: nothing it reads or *)
(* writes moves under its hands, unless one of the five causes occurred.   *)
HaltedMeansHalted ==
  drift = {} /\ client = "halted" => gdb_stopped \/ vmm \in {"wait_gdb", "ended"}

(* Neither thread waits for the other for good, whatever has happened to   *)
(* the pairing: a server in an unbounded recv has a response in the        *)
(* channel, a command the VMM will take, or a guest that is running, and   *)
(* one that will stop after an instruction if the server waits for a step. *)
SomeoneWillAnswer ==
  server \in Blocked /\ resps = <<>> /\ cmds = <<>> =>
    ~gdb_stopped /\ (server = "step" => single_step)

(* Ctrl-C during Continue is answered, however busy the guest.             *)
InterruptIsAnswered == server = "interrupt" ~> server # "interrupt" \/ vmm = "ended"
=============================================================================
