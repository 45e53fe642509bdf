----------------------------- MODULE GdbProofs -----------------------------
(***************************************************************************)
(* Proofs about GdbSession for every set of addresses and every number of  *)
(* requests.  Pairing by position is right as long as the two threads go   *)
(* through the phases below one after another; each cause that drift       *)
(* records is a way out of them.                                           *)
(***************************************************************************)
EXTENDS GdbSession, SequenceTheorems, TLAPS

RequestKinds == {"Access", "SetBreakpoint", "RemoveBreakpoint"}
Kinds == RequestKinds \cup {"Continue", "Step", "Interrupt", "Detach", "Kill"}

Commands == [kind : Kinds, addr : SUBSET Addrs, of : Nat]

ChannelsOK ==
  /\ cmds \in Seq(Commands) /\ resps \in Seq(Nat)
  /\ asked \in Nat /\ resumed \in Nat

(* The guest stands still, before its first instruction or stopped. *)
Halted ==
  \/ vmm = "top" /\ gdb_stopped
  \/ vmm = "wait_gdb" /\ ~gdb_stopped

(* The guest runs for the server's last request. *)
Running == vmm \in {"top", "guest"} /\ ~gdb_stopped /\ resumed = asked

(* cmds holds one command, for the server's last request. *)
Sent(kinds) ==
  cmds # <<>> /\ Tail(cmds) = <<>> /\ Head(cmds).kind \in kinds /\ Head(cmds).of = asked

Answered == cmds = <<>> /\ resps = <<asked>> /\ Halted

(* No debugger has come yet and the guest runs on its own. *)
Unattended ==
  /\ server = "accept" /\ client = "none" /\ cmds = <<>> /\ resps = <<>>
  /\ ~gdb_stopped /\ ~single_step /\ debug_breakpoints = {} /\ vmm \in {"top", "guest"}

Quiet == server \in {"accept", "idle"} /\ cmds = <<>> /\ resps = <<>> /\ Halted

Asking ==
  server = "answer" /\ (Answered \/ (resps = <<>> /\ Halted /\ Sent(RequestKinds)))

Resuming ==
  /\ server \in {"poll", "step"} /\ client # "halted"
  /\ \/ resps = <<>> /\ Halted /\ Sent({"Continue", "Step"})
     \/ resps = <<>> /\ cmds = <<>> /\ Running
     \/ Answered

(* Ctrl-C follows the resumption it is to end, which the VMM may not have  *)
(* taken yet.                                                              *)
Interrupting ==
  /\ server = "interrupt" /\ client # "halted"
  /\ \/ /\ resps = <<>> /\ Halted
        /\ cmds # <<>> /\ Head(cmds).kind \in {"Continue", "Step"} /\ Head(cmds).of = asked
        /\ Tail(cmds) # <<>> /\ Tail(Tail(cmds)) = <<>>
        /\ Head(Tail(cmds)).kind = "Interrupt" /\ Head(Tail(cmds)).of = asked
     \/ resps = <<>> /\ Running /\ Sent({"Interrupt"})
     \/ Answered

(* The next command the VMM takes ends it, or is a Ctrl-C that crossed a   *)
(* stop; what the server sends after that command changes nothing.         *)
Last ==
  /\ cmds # <<>> /\ Halted
  /\ \/ Head(cmds).kind = "Kill" /\ resps = <<>>
     \/ Head(cmds).kind = "Interrupt" /\ gdb_stopped /\ resps = <<>>
     \/ Head(cmds).kind = "Interrupt" /\ gdb_stopped /\ resps = <<asked>> /\ server = "interrupt"

Over == vmm = "ended" /\ resps = <<>>

InStep == Unattended \/ Quiet \/ Asking \/ Resuming \/ Interrupting \/ Last \/ Over

PairInv == drift = {} => InStep

(* Whatever drift says, the last command a blocked server sent leaves the  *)
(* guest running, or an answer, when it is its turn.                       *)
LastIs(kind) == cmds # <<>> /\ cmds[Len(cmds)].kind = kind

WaitInv ==
  /\ server = "poll" => resps # <<>> \/ LastIs("Continue") \/ (cmds = <<>> /\ ~gdb_stopped)
  /\ server = "step" =>
       resps # <<>> \/ LastIs("Step") \/ (cmds = <<>> /\ ~gdb_stopped /\ single_step)
  /\ server = "interrupt" => resps # <<>> \/ LastIs("Interrupt")

-----------------------------------------------------------------------------
(* The shape of the channels. *)

LEMMA SequenceFacts ==
  ASSUME NEW S
  PROVE  /\ <<>> \in Seq(S)
         /\ \A s \in Seq(S) : s # <<>> => Head(s) \in S /\ Tail(s) \in Seq(S)
         /\ \A s \in Seq(S), x \in S : Append(s, x) \in Seq(S)
  BY EmptySeq, HeadTailProperties, AppendProperties

LEMMA ChannelsInit == Init => ChannelsOK
  BY SequenceFacts DEF Init, ChannelsOK

(* What handle_gdb_command does with each kind of command. *)
LEMMA HandlerCases ==
  ASSUME ChannelsOK, cmds # <<>>, handle_gdb_command(Head(cmds))
  PROVE  /\ Head(cmds) \in Commands
         /\ \/ Head(cmds).kind = "Continue" /\ DoContinue(Head(cmds))
            \/ Head(cmds).kind = "Step" /\ DoStep(Head(cmds))
            \/ Head(cmds).kind = "Interrupt" /\ DoInterrupt(Head(cmds))
            \/ Head(cmds).kind = "Detach" /\ DoDetach(Head(cmds))
            \/ Head(cmds).kind = "Kill" /\ DoKill
            \/ Head(cmds).kind \in RequestKinds /\ DoRequest(Head(cmds))
  <1> DEFINE c == Head(cmds)
  <1>1. c \in Commands
    BY SequenceFacts DEF ChannelsOK
  <1>2. c.kind \in Kinds
    BY <1>1 DEF Commands
  <1> HIDE DEF c
  <1>3. handle_gdb_command(c)
    BY DEF c
  <1>4. CASE c.kind = "Continue"  BY <1>1, <1>3, <1>4 DEF handle_gdb_command, c
  <1>5. CASE c.kind = "Step"      BY <1>1, <1>3, <1>5 DEF handle_gdb_command, c
  <1>6. CASE c.kind = "Interrupt" BY <1>1, <1>3, <1>6 DEF handle_gdb_command, c
  <1>7. CASE c.kind = "Detach"    BY <1>1, <1>3, <1>7 DEF handle_gdb_command, c
  <1>8. CASE c.kind = "Kill"      BY <1>1, <1>3, <1>8 DEF handle_gdb_command, c
  <1>9. CASE c.kind \in RequestKinds
    BY <1>1, <1>3, <1>9 DEF handle_gdb_command, RequestKinds, c
  <1> QED BY <1>2, <1>4, <1>5, <1>6, <1>7, <1>8, <1>9 DEF Kinds

LEMMA SendChannels ==
  ASSUME ChannelsOK, NEW kind \in Kinds, NEW addr \in SUBSET Addrs, NEW next,
         Send(kind, addr, next)
  PROVE  ChannelsOK'
  <1>1. Command(kind, addr, asked') \in Commands
    BY DEF ChannelsOK, Send, Command, Commands
  <1> QED BY <1>1, SequenceFacts DEF ChannelsOK, Send, machine

LEMMA ChannelsStep == ChannelsOK /\ [Next]_vars => ChannelsOK'
  <1> SUFFICES ASSUME ChannelsOK, [Next]_vars PROVE ChannelsOK'
    OBVIOUS
  <1>1. CASE SendRequest
    <2>1. PICK r \in Requests : Send(r[1], r[2], "answer")
      BY <1>1 DEF SendRequest
    <2>2. r[1] \in Kinds /\ r[2] \in SUBSET Addrs
      BY DEF Requests, Kinds, RequestKinds
    <2> QED BY <2>1, <2>2, SendChannels
  <1>2. CASE SendContinue \/ SendStep \/ SendDetach \/ SendKill
    BY <1>2, SendChannels DEF SendContinue, SendStep, SendDetach, SendKill, Kinds
  <1>3. CASE Connect \/ Disconnect \/ PressCtrlC \/ RecvTimeout \/ PollClosed
             \/ IdleInterrupt \/ IdleClosed \/ UNCHANGED vars
    BY <1>3 DEF Connect, Disconnect, PressCtrlC, RecvTimeout, PollClosed, IdleInterrupt,
                IdleClosed, ChannelsOK, vars, channels, machine
  <1>4. CASE RecvAnswer \/ PollResponse
    BY <1>4, SequenceFacts, Zenon DEF RecvAnswer, PollResponse, ChannelsOK, machine
  <1>5. CASE PollInterrupt
    <2>1. Command("Interrupt", {}, asked) \in Commands
      BY DEF Command, Commands, ChannelsOK, Kinds
    <2> QED BY <1>5, <2>1, SequenceFacts DEF PollInterrupt, ChannelsOK, machine
  <1>6. CASE TakeCommand
    <2>1. cmds' = Tail(cmds) /\ asked' = asked /\ cmds # <<>> /\ handle_gdb_command(Head(cmds))
      BY <1>6 DEF TakeCommand
    <2>2. Head(cmds).of \in Nat
      BY <2>1, HandlerCases DEF Commands
    <2>3. resps' \in Seq(Nat) /\ resumed' \in Nat
      <3>1. CASE DoContinue(Head(cmds)) \/ DoStep(Head(cmds))
        BY <3>1, <2>2 DEF DoContinue, DoStep, ChannelsOK
      <3>2. CASE DoInterrupt(Head(cmds)) \/ DoDetach(Head(cmds)) \/ DoRequest(Head(cmds))
        BY <3>2, <2>2, SequenceFacts, Zenon
          DEF DoInterrupt, DoDetach, DoRequest, Respond, ChannelsOK
      <3>3. CASE DoKill
        BY <3>3 DEF DoKill, ChannelsOK
      <3> QED BY <2>1, HandlerCases, <3>1, <3>2, <3>3
    <2> QED BY <2>1, <2>3, SequenceFacts DEF ChannelsOK
  <1>7. CASE EnterGuest \/ TimeSlice
    BY <1>7 DEF EnterGuest, TimeSlice, ChannelsOK, channels
  <1>8. CASE Breakpoint \/ Execute
    BY <1>8, SequenceFacts, Zenon DEF Breakpoint, Execute, Stop, ChannelsOK
  <1> QED BY <1>1, <1>2, <1>3, <1>4, <1>5, <1>6, <1>7, <1>8 DEF Next

-----------------------------------------------------------------------------
(* Nobody waits for nobody. *)

LEMMA LastOfAppend ==
  ASSUME NEW S, NEW s \in Seq(S), NEW x \in S
  PROVE  Append(s, x) # <<>> /\ Append(s, x)[Len(Append(s, x))] = x
  BY AppendProperties

LEMMA LastOfTail ==
  ASSUME NEW S, NEW s \in Seq(S), s # <<>>
  PROVE  IF Tail(s) = <<>> THEN s[Len(s)] = Head(s) ELSE Tail(s)[Len(Tail(s))] = s[Len(s)]
  <1>1. Len(s) \in Nat \ {0} /\ Len(Tail(s)) = Len(s) - 1 /\ Tail(s) \in Seq(S)
    BY EmptySeq, HeadTailProperties
  <1>2. CASE Tail(s) = <<>>
    <2>1. Len(Tail(s)) = 0
      BY <1>2, EmptySeq, Zenon
    <2>2. \A n \in Nat \ {0} : n - 1 = 0 => n = 1
      OBVIOUS
    <2>3. Len(s) = 1
      BY <1>1, <2>1, <2>2, Zenon
    <2> QED BY <1>2, <2>3
  <1>3. CASE Tail(s) # <<>>
    <2>1. Len(Tail(s)) \in 1 .. Len(Tail(s))
      BY <1>1, <1>3, EmptySeq
    <2>2. Tail(s)[Len(Tail(s))] = s[Len(Tail(s)) + 1]
      BY <2>1, HeadTailProperties
    <2> QED BY <1>1, <1>3, <2>2
  <1> QED BY <1>2, <1>3

LEMMA SendWait ==
  ASSUME ChannelsOK, NEW kind \in Kinds, NEW addr \in SUBSET Addrs, NEW next,
         Send(kind, addr, next)
  PROVE  LastIs(kind)' /\ server' = next
  <1>1. Command(kind, addr, asked') \in Commands /\ Command(kind, addr, asked').kind = kind
    BY DEF ChannelsOK, Send, Command, Commands
  <1> QED BY <1>1, LastOfAppend DEF ChannelsOK, Send, LastIs

LEMMA WaitStep == ChannelsOK /\ WaitInv /\ [Next]_vars => WaitInv'
  <1> SUFFICES ASSUME ChannelsOK, WaitInv, [Next]_vars PROVE WaitInv'
    OBVIOUS
  <1>1. CASE SendRequest
    BY <1>1 DEF SendRequest, Send, WaitInv
  <1>2. CASE SendContinue \/ SendStep \/ SendDetach \/ SendKill
    <2>1. SendContinue => server' = "poll" /\ LastIs("Continue")'
      BY SendWait DEF SendContinue, Kinds
    <2>2. SendStep => server' = "step" /\ LastIs("Step")'
      BY SendWait DEF SendStep, Kinds
    <2>3. SendDetach \/ SendKill => server' = "accept"
      BY DEF SendDetach, SendKill, Send
    <2> QED BY <1>2, <2>1, <2>2, <2>3 DEF WaitInv
  <1>3. CASE Connect \/ RecvTimeout \/ PollClosed \/ IdleClosed \/ RecvAnswer \/ PollResponse
    BY <1>3 DEF Connect, RecvTimeout, PollClosed, IdleClosed, RecvAnswer, PollResponse, WaitInv
  <1>4. CASE Disconnect \/ PressCtrlC \/ IdleInterrupt \/ UNCHANGED vars
    BY <1>4 DEF Disconnect, PressCtrlC, IdleInterrupt, vars, channels, machine, WaitInv, LastIs
  <1>5. CASE PollInterrupt
    <2>1. Command("Interrupt", {}, asked) \in Commands
      BY DEF Command, Commands, ChannelsOK, Kinds
    <2>2. Command("Interrupt", {}, asked).kind = "Interrupt"
      BY DEF Command
    <2>3. LastIs("Interrupt")' /\ server' = "interrupt"
      BY <1>5, <2>1, <2>2, LastOfAppend DEF PollInterrupt, ChannelsOK, LastIs
    <2> QED BY <2>3 DEF WaitInv
  <1>6. CASE TakeCommand
    <2>1. cmds' = Tail(cmds) /\ server' = server /\ cmds # <<>> /\ handle_gdb_command(Head(cmds))
      BY <1>6 DEF TakeCommand
    <2>2. resps # <<>> => resps' # <<>>
      <3>1. CASE DoContinue(Head(cmds)) \/ DoStep(Head(cmds)) \/ DoKill
        BY <3>1 DEF DoContinue, DoStep, DoKill
      <3>2. CASE DoInterrupt(Head(cmds)) \/ DoDetach(Head(cmds)) \/ DoRequest(Head(cmds))
        <4>1. Head(cmds).of \in Nat
          BY <2>1, HandlerCases DEF Commands
        <4> QED BY <3>2, <4>1, AppendProperties
              DEF DoInterrupt, DoDetach, DoRequest, Respond, ChannelsOK
      <3> QED BY <2>1, HandlerCases, <3>1, <3>2
    <2>3. CASE Tail(cmds) # <<>>
      <3>1. cmds'[Len(cmds')] = cmds[Len(cmds)]
        BY <2>1, <2>3, LastOfTail DEF ChannelsOK
      <3>2. \A kind : LastIs(kind) => LastIs(kind)'
        BY <2>1, <2>3, <3>1 DEF LastIs
      <3> QED BY <2>1, <2>2, <3>2 DEF WaitInv
    <2>4. CASE Tail(cmds) = <<>>
      <3>1. \A kind : LastIs(kind) => Head(cmds).kind = kind
        BY <2>1, <2>4, LastOfTail, Zenon DEF LastIs, ChannelsOK
      <3>2. Head(cmds).kind = "Continue" => ~gdb_stopped'
        BY <2>1, HandlerCases, Zenon DEF DoContinue, RequestKinds
      <3>3. Head(cmds).kind = "Step" => ~gdb_stopped' /\ single_step'
        BY <2>1, HandlerCases, Zenon DEF DoStep, RequestKinds
      <3>4. Head(cmds).kind = "Interrupt" => resps' # <<>>
        <4>1. Head(cmds).of \in Nat
          BY <2>1, HandlerCases DEF Commands
        <4>2. Head(cmds).kind = "Interrupt" => DoInterrupt(Head(cmds))
          BY <2>1, HandlerCases DEF RequestKinds
        <4> QED BY <4>1, <4>2, AppendProperties DEF DoInterrupt, Respond, ChannelsOK
      <3> QED BY <2>1, <2>2, <2>4, <3>1, <3>2, <3>3, <3>4 DEF WaitInv
    <2> QED BY <2>3, <2>4
  <1>7. CASE EnterGuest \/ TimeSlice
    BY <1>7 DEF EnterGuest, TimeSlice, WaitInv, LastIs, channels
  <1>8. CASE Breakpoint \/ Execute
    <2>1. server' = server /\ cmds' = cmds /\ single_step' = single_step
      BY <1>8 DEF Breakpoint, Execute
    <2>2. resps' # <<>> \/ (resps' = resps /\ gdb_stopped' = gdb_stopped)
      BY <1>8, AppendProperties DEF Breakpoint, Execute, Stop, ChannelsOK
    <2> QED BY <2>1, <2>2 DEF WaitInv, LastIs
  <1> QED BY <1>1, <1>2, <1>3, <1>4, <1>5, <1>6, <1>7, <1>8 DEF Next

(* For every debugger, guest and number of requests, and whatever has      *)
(* happened to the pairing: a server in an unbounded recv (handle_command  *)
(* after `s', wait_for_stop_or_interrupt after `c') has a response or a    *)
(* command in the channels, or a guest that runs, for one instruction if   *)
(* the server waits for a step.                                            *)
THEOREM NobodyWaitsForGood == Spec => []SomeoneWillAnswer
  <1>1. Init => ChannelsOK /\ WaitInv
    BY ChannelsInit DEF Init, WaitInv
  <1>2. ChannelsOK /\ WaitInv /\ [Next]_vars => ChannelsOK' /\ WaitInv'
    BY ChannelsStep, WaitStep
  <1>3. ChannelsOK /\ WaitInv => SomeoneWillAnswer
    BY DEF WaitInv, LastIs, SomeoneWillAnswer, Blocked
  <1> QED BY <1>1, <1>2, <1>3, PTL DEF Spec

-----------------------------------------------------------------------------
(* The phases. *)

LEMMA DriftGrows == ChannelsOK /\ [Next]_vars => drift \subseteq drift'
  <1> SUFFICES ASSUME ChannelsOK, [Next]_vars PROVE drift \subseteq drift'
    OBVIOUS
  <1>1. CASE SendRequest \/ SendContinue \/ SendStep \/ SendDetach \/ SendKill
    BY <1>1 DEF SendRequest, SendContinue, SendStep, SendDetach, SendKill
  <1>2. CASE Connect \/ Disconnect \/ PressCtrlC \/ RecvTimeout \/ PollClosed \/ IdleInterrupt
             \/ IdleClosed \/ RecvAnswer \/ PollResponse \/ PollInterrupt \/ UNCHANGED vars
    BY <1>2 DEF Connect, Disconnect, PressCtrlC, RecvTimeout, PollClosed, IdleInterrupt,
                IdleClosed, RecvAnswer, PollResponse, PollInterrupt, vars
  <1>3. CASE TakeCommand
    BY <1>3, HandlerCases, Zenon
       DEF TakeCommand, DoContinue, DoStep, DoInterrupt, DoDetach, DoKill, DoRequest
  <1>4. CASE EnterGuest \/ TimeSlice \/ Breakpoint \/ Execute
    BY <1>4 DEF EnterGuest, TimeSlice, Breakpoint, Execute
  <1> QED BY <1>1, <1>2, <1>3, <1>4 DEF Next

(* A packet with a request of its own leaves an idle server. *)
LEMMA SendInStep ==
  ASSUME ChannelsOK, InStep, NEW kind \in Kinds, NEW addr \in SUBSET Addrs, NEW next,
         Send(kind, addr, next)
  PROVE  \/ Last'
         \/ server' = next /\ resps' = <<>> /\ Halted' /\ Sent({kind})'
  <1> DEFINE c == Command(kind, addr, asked')
  <1>1. c \in Commands /\ c.kind = kind /\ c.of = asked'
    BY DEF ChannelsOK, Send, Command, Commands
  <1>2. /\ cmds' = Append(cmds, c) /\ resps' = resps /\ server' = next /\ server = "idle"
        /\ vmm # "ended" /\ Halted' = Halted /\ (gdb_stopped <=> gdb_stopped')
    BY DEF Send, machine, Alive, Halted
  <1> HIDE DEF c
  <1>3. cmds' # <<>>
    BY <1>1, <1>2, AppendProperties DEF ChannelsOK
  <1>4. Head(cmds') = IF cmds = <<>> THEN c ELSE Head(cmds)
    BY <1>2, HeadTailAppend DEF ChannelsOK
  <1>5. cmds = <<>> => Tail(cmds') = <<>>
    BY <1>2, HeadTailAppend DEF ChannelsOK
  <1>6. CASE Quiet
    BY <1>1, <1>2, <1>3, <1>4, <1>5, <1>6 DEF Quiet, Sent
  <1>7. CASE Last
    BY <1>2, <1>3, <1>4, <1>7 DEF Last
  <1> QED BY <1>2, <1>6, <1>7
        DEF InStep, Unattended, Asking, Resuming, Interrupting, Over

LEMMA InterruptInStep ==
  ASSUME ChannelsOK, InStep, PollInterrupt
  PROVE  InStep'
  <1> DEFINE c == Command("Interrupt", {}, asked)
  <1>1. c \in Commands /\ c.kind = "Interrupt" /\ c.of = asked
    BY DEF ChannelsOK, Command, Commands, Kinds
  <1>2. /\ cmds' = Append(cmds, c) /\ resps' = resps /\ resps = <<>> /\ server = "poll"
        /\ server' = "interrupt" /\ client' = client /\ asked' = asked
        /\ vmm # "ended" /\ UNCHANGED machine
    BY DEF PollInterrupt, Alive
  <1> HIDE DEF c
  <1>3. cmds' # <<>>
    BY <1>1, <1>2, AppendProperties DEF ChannelsOK
  <1>4. /\ Head(cmds') = IF cmds = <<>> THEN c ELSE Head(cmds)
        /\ Tail(cmds') = IF cmds = <<>> THEN <<>> ELSE Append(Tail(cmds), c)
    BY <1>2, HeadTailAppend DEF ChannelsOK
  <1>5. CASE Resuming /\ Halted /\ Sent({"Continue", "Step"})
    <2>1. cmds # <<>> /\ Tail(cmds') = Append(<<>>, c)
      BY <1>4, <1>5, Zenon DEF Sent
    <2>2. Append(<<>>, c) # <<>> /\ Head(Append(<<>>, c)) = c /\ Tail(Append(<<>>, c)) = <<>>
      BY <1>1, EmptySeq, HeadTailAppend, AppendProperties
    <2> QED BY <1>1, <1>2, <1>3, <1>4, <1>5, <2>1, <2>2
          DEF InStep, Interrupting, Resuming, Sent, Halted, machine
  <1>6. CASE Resuming /\ cmds = <<>> /\ Running
    BY <1>1, <1>2, <1>3, <1>4, <1>6 DEF InStep, Interrupting, Resuming, Running, Sent, machine
  <1>7. CASE Last
    BY <1>2, <1>3, <1>4, <1>7 DEF InStep, Last, Halted, machine
  <1>8. resps # <<asked>>
    BY <1>2
  <1> QED BY <1>2, <1>5, <1>6, <1>7, <1>8, Zenon
        DEF InStep, Unattended, Quiet, Asking, Resuming, Interrupting, Over, Answered

(* The server takes the response it waited for, or the connection changes. *)
LEMMA ReceiveInStep ==
  ASSUME ChannelsOK, InStep, RecvAnswer \/ PollResponse
  PROVE  InStep'
  <1>1. /\ resps # <<>> /\ resps' = Tail(resps) /\ server' = "idle" /\ cmds' = cmds
        /\ vmm # "ended" /\ UNCHANGED machine /\ server \in {"answer", "poll", "step", "interrupt"}
    BY DEF RecvAnswer, PollResponse, Alive
  <1>2. resps = <<asked>> => resps' = <<>>
    BY <1>1
  <1>3. CASE Answered
    BY <1>1, <1>2, <1>3 DEF Answered, InStep, Quiet, Halted, machine
  <1>4. CASE Last
    BY <1>1, <1>2, <1>4 DEF Last, InStep, Halted, machine
  <1> QED BY <1>1, <1>3, <1>4
        DEF InStep, Unattended, Quiet, Asking, Resuming, Interrupting, Over

LEMMA ConnectionInStep ==
  ASSUME ChannelsOK, InStep, drift = {}, drift' = {},
         Connect \/ Disconnect \/ PressCtrlC \/ RecvTimeout \/ PollClosed \/ IdleInterrupt
         \/ IdleClosed \/ UNCHANGED vars
  PROVE  InStep'
  <1>1. UNCHANGED <<asked, cmds, resps, vmm, gdb_stopped, single_step, debug_breakpoints, resumed>>
    BY DEF Connect, Disconnect, PressCtrlC, RecvTimeout, PollClosed, IdleInterrupt, IdleClosed,
           vars, channels, machine
  <1>2. (Halted' <=> Halted) /\ (Running' <=> Running) /\ (Answered' <=> Answered)
        /\ \A kinds : Sent(kinds)' <=> Sent(kinds)
    BY <1>1 DEF Halted, Running, Answered, Sent
  <1>3. CASE Connect
    <2>1. gdb_stopped \/ vmm = "wait_gdb"
      BY <1>3 DEF Connect
    <2>2. server = "accept" /\ server' = "idle"
      BY <1>3 DEF Connect
    <2> QED BY <1>1, <1>2, <2>1, <2>2
          DEF InStep, Unattended, Quiet, Asking, Resuming, Interrupting, Last, Over
  <1>4. CASE Disconnect \/ PressCtrlC \/ IdleInterrupt \/ UNCHANGED vars
    <2>1. server' = server /\ (client' = client \/ (client' = "closed" /\ client # "none"))
      BY <1>4 DEF Disconnect, PressCtrlC, IdleInterrupt, vars, debugger
    <2> QED BY <1>1, <1>2, <2>1
          DEF InStep, Unattended, Quiet, Asking, Resuming, Interrupting, Last, Over
  <1>5. CASE IdleClosed
    <2>1. server = "idle" /\ server' = "accept"
      BY <1>5 DEF IdleClosed
    <2> QED BY <1>1, <1>2, <2>1
          DEF InStep, Unattended, Quiet, Asking, Resuming, Interrupting, Last, Over
  <1>6. ~RecvTimeout /\ ~PollClosed
    BY DEF RecvTimeout, PollClosed
  <1> QED BY <1>3, <1>4, <1>5, <1>6

(* The VMM takes a command. *)
LEMMA TakeInStep ==
  ASSUME ChannelsOK, InStep, drift = {}, drift' = {}, TakeCommand
  PROVE  InStep'
  <1> DEFINE c == Head(cmds)
  <1>1. /\ cmds # <<>> /\ cmds' = Tail(cmds) /\ UNCHANGED <<server, client, asked>>
        /\ vmm \in {"wait_gdb", "top"} /\ handle_gdb_command(c)
    BY DEF TakeCommand, debugger
  <1>2. c \in Commands /\ c.of \in Nat
    BY <1>1, HandlerCases DEF Commands
  <1> HIDE DEF c
  <1>3. resps = <<>> /\ c.of = asked => Append(resps, c.of) = <<asked>>
    OBVIOUS
  <1>4. CASE Asking
    <2>1. c.kind \in RequestKinds /\ c.of = asked /\ resps = <<>> /\ Halted /\ Tail(cmds) = <<>>
      BY <1>1, <1>4 DEF Asking, Answered, Sent, c
    <2>2. DoRequest(c)
      BY <1>1, <2>1, HandlerCases DEF RequestKinds, c
    <2>3. Answered'
      BY <1>1, <1>3, <2>1, <2>2, Zenon DEF DoRequest, Respond, Answered, Halted
    <2> QED BY <1>1, <1>4, <2>3 DEF InStep, Asking
  <1>5. CASE (Resuming \/ Interrupting) /\ c.kind \in {"Continue", "Step"}
    <2>1. c.of = asked /\ resps = <<>>
      BY <1>1, <1>5 DEF Resuming, Interrupting, Answered, Sent, c
    <2>2. DoContinue(c) \/ DoStep(c)
      BY <1>1, <1>5, HandlerCases DEF RequestKinds, c
    <2>3. Running' /\ resps' = <<>>
      BY <1>1, <2>1, <2>2 DEF DoContinue, DoStep, Running
    <2>4. CASE Resuming
      BY <1>1, <1>5, <2>3, <2>4 DEF InStep, Resuming, Answered, Sent
    <2>5. CASE Interrupting
      <3>1. cmds' # <<>> /\ Tail(cmds') = <<>> /\ Head(cmds').kind = "Interrupt"
            /\ Head(cmds').of = asked
        BY <1>1, <1>5, <2>5 DEF Interrupting, Answered, Sent, c
      <3> QED BY <1>1, <2>3, <2>5, <3>1 DEF InStep, Interrupting, Sent
    <2> QED BY <1>5, <2>4, <2>5
  <1>6. CASE Interrupting /\ c.kind = "Interrupt"
    <2>1. c.of = asked /\ resps = <<>> /\ Tail(cmds) = <<>>
      BY <1>1, <1>6 DEF Interrupting, Answered, Sent, c
    <2>2. DoInterrupt(c)
      BY <1>1, <1>6, HandlerCases DEF RequestKinds, c
    <2>3. Answered'
      BY <1>1, <1>3, <2>1, <2>2 DEF DoInterrupt, Respond, Answered, Halted
    <2> QED BY <1>1, <1>6, <2>3 DEF InStep, Interrupting
  <1>7. CASE Last /\ c.kind = "Kill"
    <2>1. DoKill
      BY <1>1, <1>7, HandlerCases DEF RequestKinds, c
    <2> QED BY <1>7, <2>1 DEF Last, DoKill, InStep, Over, c
  <1>8. ~(Last /\ c.kind = "Interrupt")
    <2> SUFFICES ASSUME Last, c.kind = "Interrupt" PROVE FALSE
      OBVIOUS
    <2>1. DoInterrupt(c) /\ gdb_stopped
      BY <1>1, HandlerCases DEF RequestKinds, Last, c
    <2> QED BY <2>1 DEF DoInterrupt
  <1> QED BY <1>1, <1>4, <1>5, <1>6, <1>7, <1>8, Zenon
        DEF InStep, Unattended, Quiet, Resuming, Interrupting, Last, Over, Answered, Sent, c

(* The guest runs. *)
LEMMA GuestInStep ==
  ASSUME ChannelsOK, InStep, EnterGuest \/ TimeSlice \/ Breakpoint \/ Execute
  PROVE  InStep'
  <1>1. UNCHANGED <<client, server, asked, cmds, single_step, debug_breakpoints, resumed>>
    BY DEF EnterGuest, TimeSlice, Breakpoint, Execute, debugger, channels
  <1>2. ~Halted /\ vmm \in {"top", "guest"}
    <2>1. CASE EnterGuest
      BY <2>1 DEF EnterGuest, Halted
    <2>2. CASE TimeSlice \/ Breakpoint \/ Execute
      BY <2>2 DEF TimeSlice, Breakpoint, Execute, Halted
    <2> QED BY <2>1, <2>2
  <1>3. \/ vmm' \in {"top", "guest"} /\ resps' = resps /\ gdb_stopped' = gdb_stopped
        \/ Stop /\ (single_step \/ rip \in debug_breakpoints)
    BY <1>2 DEF EnterGuest, TimeSlice, Breakpoint, Execute, AtBreakpoint, channels
  <1>4. Unattended \/ (Resuming /\ Running /\ cmds = <<>> /\ resps = <<>>)
        \/ (Interrupting /\ Running /\ Sent({"Interrupt"}) /\ resps = <<>>)
    BY <1>2 DEF InStep, Quiet, Asking, Resuming, Interrupting, Last, Over, Answered
  <1>5. CASE vmm' \in {"top", "guest"} /\ resps' = resps /\ gdb_stopped' = gdb_stopped
    <2>1. CASE Unattended
      BY <1>1, <1>5, <2>1 DEF Unattended, InStep
    <2>2. CASE Resuming /\ Running /\ cmds = <<>> /\ resps = <<>>
      BY <1>1, <1>5, <2>2 DEF Resuming, Running, InStep
    <2>3. CASE Interrupting /\ Running /\ Sent({"Interrupt"}) /\ resps = <<>>
      BY <1>1, <1>5, <2>3 DEF Interrupting, Running, Sent, InStep
    <2> QED BY <1>4, <2>1, <2>2, <2>3
  <1>6. CASE Stop /\ (single_step \/ rip \in debug_breakpoints)
    <2>1. ~Unattended
      BY <1>6 DEF Unattended
    <2>2. Halted' /\ gdb_stopped'
      BY <1>6 DEF Stop, Halted
    <2>3. resps' = <<asked'>>
      <3>1. resps = <<>> /\ resumed = asked
        BY <1>4, <2>1 DEF Running
      <3>2. resps' = Append(<<>>, asked)
        BY <1>6, <3>1 DEF Stop
      <3>3. Append(<<>>, asked) = <<asked>>
        OBVIOUS
      <3> QED BY <1>1, <3>2, <3>3
    <2>4. CASE Resuming /\ cmds = <<>>
      BY <1>1, <2>2, <2>3, <2>4 DEF Resuming, Answered, InStep
    <2>5. CASE Interrupting /\ Sent({"Interrupt"})
      BY <1>1, <2>2, <2>3, <2>5 DEF Interrupting, Sent, Last, InStep
    <2> QED BY <1>4, <2>1, <2>4, <2>5
  <1> QED BY <1>3, <1>5, <1>6

LEMMA PairStep == ChannelsOK /\ PairInv /\ [Next]_vars => PairInv'
  <1> SUFFICES ASSUME ChannelsOK, PairInv, [Next]_vars, drift' = {} PROVE InStep'
    BY DEF PairInv
  <1>1. drift = {} /\ InStep
    BY DriftGrows DEF PairInv
  <1>2. CASE SendRequest
    <2>1. PICK r \in Requests : Send(r[1], r[2], "answer")
      BY <1>2 DEF SendRequest
    <2>2. r[1] \in RequestKinds /\ r[1] \in Kinds /\ r[2] \in SUBSET Addrs
      BY DEF Requests, Kinds, RequestKinds
    <2>3. Last' \/ (server' = "answer" /\ resps' = <<>> /\ Halted' /\ Sent({r[1]})')
      BY <1>1, <2>1, <2>2, SendInStep, Zenon
    <2>4. Sent({r[1]})' => Sent(RequestKinds)'
      BY <2>2 DEF Sent
    <2> QED BY <2>3, <2>4 DEF InStep, Asking
  <1>3. CASE SendContinue
    <2>1. Last' \/ (server' = "poll" /\ resps' = <<>> /\ Halted' /\ Sent({"Continue"})')
      BY <1>1, <1>3, SendInStep DEF SendContinue, Kinds
    <2> QED BY <1>3, <2>1 DEF SendContinue, InStep, Resuming, Sent
  <1>4. CASE SendStep
    <2>1. Last' \/ (server' = "step" /\ resps' = <<>> /\ Halted' /\ Sent({"Step"})')
      BY <1>1, <1>4, SendInStep, Zenon DEF SendStep, Kinds
    <2> QED BY <1>4, <2>1 DEF SendStep, InStep, Resuming, Sent
  <1>5. CASE SendKill
    <2>1. Last' \/ (server' = "accept" /\ resps' = <<>> /\ Halted' /\ Sent({"Kill"})')
      BY <1>1, <1>5, SendInStep, Zenon DEF SendKill, Kinds
    <2> QED BY <2>1 DEF InStep, Last, Sent
  <1>6. ~SendDetach
    BY DEF SendDetach
  <1> QED BY <1>1, <1>2, <1>3, <1>4, <1>5, <1>6, ConnectionInStep, ReceiveInStep, InterruptInStep,
             TakeInStep, GuestInStep DEF Next

LEMMA PhasesFollow == Spec => [](ChannelsOK /\ PairInv)
  <1>1. Init => ChannelsOK /\ PairInv
    BY ChannelsInit DEF Init, PairInv, InStep, Unattended, Quiet, Halted
  <1>2. ChannelsOK /\ PairInv /\ [Next]_vars => ChannelsOK' /\ PairInv'
    BY ChannelsStep, PairStep
  <1> QED BY <1>1, <1>2, PTL DEF Spec

(* For every debugger, guest and number of requests: until one of the five *)
(* causes occurs, the response a waiting server takes (recv, recv_timeout  *)
(* or try_recv on the channel) answers the request it waits for.           *)
THEOREM PairingByPosition == Spec => []AnswersArePaired
  <1>1. ChannelsOK /\ PairInv => AnswersArePaired
    <2> SUFFICES ASSUME InStep, server \in {"answer"} \cup Blocked, resps # <<>>
                 PROVE  resps[1] = asked
      BY DEF PairInv, AnswersArePaired
    <2>1. resps = <<asked>>
      BY DEF InStep, Unattended, Quiet, Asking, Resuming, Interrupting, Last, Over, Answered,
             Blocked
    <2> QED BY <2>1
  <1> QED BY <1>1, PhasesFollow, PTL

(* For every debugger, guest and number of requests: until one of the five *)
(* causes occurs, a debugger that was told of a stop, or attached to a     *)
(* stopped guest, reads and writes a guest that stands still.              *)
THEOREM HaltedIsHalted == Spec => []HaltedMeansHalted
  <1>1. ChannelsOK /\ PairInv => HaltedMeansHalted
    BY DEF PairInv, HaltedMeansHalted, InStep, Unattended, Quiet, Asking, Resuming, Interrupting,
           Last, Over, Answered, Halted
  <1> QED BY <1>1, PhasesFollow, PTL

-----------------------------------------------------------------------------
(* Types, whatever drift says.  A server that waits has asked. *)
Asked == server \in {"answer"} \cup Blocked => asked > 0

LEMMA Positions ==
  ASSUME NEW S, NEW s \in Seq(S)
  PROVE  /\ \A x \in S : \A i \in DOMAIN Append(s, x) :
              \/ i \in DOMAIN s /\ Append(s, x)[i] = s[i]
              \/ Append(s, x)[i] = x
         /\ s # <<>> => \A i \in DOMAIN Tail(s) : i + 1 \in DOMAIN s /\ Tail(s)[i] = s[i + 1]
         /\ s # <<>> => 1 \in DOMAIN s /\ Head(s) = s[1]
  <1>1. \A x \in S : \A i \in DOMAIN Append(s, x) :
          (i \in DOMAIN s /\ Append(s, x)[i] = s[i]) \/ Append(s, x)[i] = x
    BY AppendProperties
  <1>2. ASSUME s # <<>>
        PROVE  \A i \in DOMAIN Tail(s) : i + 1 \in DOMAIN s /\ Tail(s)[i] = s[i + 1]
    <2>1. /\ Len(s) \in Nat /\ Len(Tail(s)) = Len(s) - 1 /\ Tail(s) \in Seq(S)
          /\ \A i \in 1..Len(Tail(s)) : Tail(s)[i] = s[i + 1]
      BY <1>2, HeadTailProperties
    <2>2. DOMAIN s = 1..Len(s) /\ DOMAIN Tail(s) = 1..Len(Tail(s)) BY <2>1
    <2> QED BY <2>1, <2>2
  <1>3. ASSUME s # <<>> PROVE 1 \in DOMAIN s /\ Head(s) = s[1]
    BY <1>3, EmptySeq, HeadTailProperties
  <1> QED BY <1>1, <1>2, <1>3

LEMMA SendTyped ==
  ASSUME ChannelsOK, TypeOK, NEW kind \in Kinds, NEW addr \in SUBSET Addrs,
         NEW next \in {"accept", "idle", "answer"} \cup Blocked, Send(kind, addr, next),
         client' \in {"none", "halted", "running", "closed"},
         drift' \subseteq {"attach", "timeout", "crossing", "closed", "detach"}
  PROVE  TypeOK' /\ Asked'
  <1> DEFINE c == Command(kind, addr, asked')
  <1>1. /\ asked \in Nat /\ asked' = asked + 1 /\ asked' \in 0..MaxRequests
        /\ UNCHANGED <<resps, vmm, gdb_stopped, single_step, debug_breakpoints, rip, resumed>>
        /\ server' = next /\ ctrl_c' = FALSE /\ cmds' = Append(cmds, c)
    BY GdbAssumption DEF TypeOK, Send, machine
  <1>2. c \in Commands /\ c.of \in 1..asked' /\ c.addr \subseteq Addrs
    BY <1>1 DEF Command, Commands
  <1> HIDE DEF c
  <1>3. \A i \in DOMAIN cmds' : cmds'[i].of \in 1..asked' /\ cmds'[i].addr \subseteq Addrs
    <2> SUFFICES ASSUME NEW i \in DOMAIN cmds'
                 PROVE  cmds'[i].of \in 1..asked' /\ cmds'[i].addr \subseteq Addrs
      OBVIOUS
    <2>1. (i \in DOMAIN cmds /\ cmds'[i] = cmds[i]) \/ cmds'[i] = c
      BY <1>1, <1>2, Positions DEF ChannelsOK
    <2>2. CASE i \in DOMAIN cmds /\ cmds'[i] = cmds[i] BY <1>1, <2>2 DEF TypeOK
    <2> QED BY <1>2, <2>1, <2>2
  <1>4. \A i \in DOMAIN resps' : resps'[i] \in 0..asked' BY <1>1 DEF TypeOK
  <1>5. resumed' \in 0..asked' BY <1>1 DEF TypeOK
  <1>6. /\ ctrl_c' \in BOOLEAN /\ server' \in {"accept", "idle", "answer"} \cup Blocked
        /\ vmm' \in {"wait_gdb", "top", "guest", "ended"}
        /\ gdb_stopped' \in BOOLEAN /\ single_step' \in BOOLEAN
        /\ (gdb_stopped' => vmm' # "guest")
        /\ debug_breakpoints' \subseteq Addrs /\ rip' \in Addrs
    BY <1>1, Zenon DEF TypeOK
  <1>7. asked' > 0 BY <1>1
  <1> QED BY <1>1, <1>3, <1>4, <1>5, <1>6, <1>7 DEF TypeOK, Asked

LEMMA QueuesTyped ==
  ASSUME ChannelsOK, TypeOK
  PROVE  /\ \A n \in 0..asked : \A i \in DOMAIN Append(resps, n) : Append(resps, n)[i] \in 0..asked
         /\ resps # <<>> => \A i \in DOMAIN Tail(resps) : Tail(resps)[i] \in 0..asked
         /\ cmds # <<>> =>
              /\ Head(cmds).of \in 1..asked /\ Head(cmds).addr \subseteq Addrs
              /\ \A i \in DOMAIN Tail(cmds) :
                   Tail(cmds)[i].of \in 1..asked /\ Tail(cmds)[i].addr \subseteq Addrs
  <1>1. asked \in Nat BY DEF ChannelsOK
  <1>2. ASSUME NEW n \in 0..asked, NEW i \in DOMAIN Append(resps, n)
        PROVE  Append(resps, n)[i] \in 0..asked
    <2>1. n \in Nat BY <1>1
    <2>2. (i \in DOMAIN resps /\ Append(resps, n)[i] = resps[i]) \/ Append(resps, n)[i] = n
      BY <2>1, <1>2, Positions DEF ChannelsOK
    <2> QED BY <2>2 DEF TypeOK
  <1>3. ASSUME resps # <<>>, NEW i \in DOMAIN Tail(resps) PROVE Tail(resps)[i] \in 0..asked
    <2>1. i + 1 \in DOMAIN resps /\ Tail(resps)[i] = resps[i + 1]
      BY <1>3, Positions DEF ChannelsOK
    <2> QED BY <2>1 DEF TypeOK
  <1>4. ASSUME cmds # <<>> PROVE Head(cmds).of \in 1..asked /\ Head(cmds).addr \subseteq Addrs
    <2>1. 1 \in DOMAIN cmds /\ Head(cmds) = cmds[1] BY <1>4, Positions DEF ChannelsOK
    <2> QED BY <2>1 DEF TypeOK
  <1>5. ASSUME cmds # <<>>, NEW i \in DOMAIN Tail(cmds)
        PROVE  Tail(cmds)[i].of \in 1..asked /\ Tail(cmds)[i].addr \subseteq Addrs
    <2>1. i + 1 \in DOMAIN cmds /\ Tail(cmds)[i] = cmds[i + 1]
      BY <1>5, Positions DEF ChannelsOK
    <2> QED BY <2>1 DEF TypeOK
  <1> QED BY <1>2, <1>3, <1>4, <1>5

LEMMA TakeTyped ==
  ASSUME ChannelsOK, TypeOK, Asked, TakeCommand
  PROVE  TypeOK' /\ Asked'
  <1> DEFINE c == Head(cmds)
  <1>1. /\ cmds # <<>> /\ handle_gdb_command(c) /\ cmds' = Tail(cmds)
        /\ UNCHANGED <<client, ctrl_c, server, asked, rip>>
    BY DEF TakeCommand, debugger
  <1>2. /\ c.of \in 1..asked /\ c.addr \subseteq Addrs
        /\ \A i \in DOMAIN cmds' : cmds'[i].of \in 1..asked' /\ cmds'[i].addr \subseteq Addrs
    BY <1>1, QueuesTyped
  <1>3. asked \in Nat /\ c.of \in 0..asked
    <2>1. asked \in Nat BY DEF ChannelsOK
    <2> QED BY <1>2, <2>1
  <1> HIDE DEF c
  <1>4. /\ \A i \in DOMAIN resps' : resps'[i] \in 0..asked'
        /\ resumed' \in 0..asked'
        /\ drift' \subseteq {"attach", "timeout", "crossing", "closed", "detach"}
        /\ vmm' \in {"wait_gdb", "top", "guest", "ended"}
        /\ gdb_stopped' \in BOOLEAN /\ single_step' \in BOOLEAN
        /\ (gdb_stopped' => vmm' # "guest") /\ debug_breakpoints' \subseteq Addrs
    <2>1. CASE DoContinue(c) \/ DoStep(c)
      BY <1>1, <1>3, <2>1, Zenon DEF DoContinue, DoStep, TypeOK
    <2>2. CASE DoInterrupt(c)
      <3>1. resps' = Append(resps, c.of) BY <2>2 DEF DoInterrupt, Respond
      <3>2. \A i \in DOMAIN resps' : resps'[i] \in 0..asked'
        BY <1>1, <1>3, <3>1, QueuesTyped, Zenon
      <3> QED BY <1>1, <2>2, <3>2, Zenon DEF DoInterrupt, TypeOK
    <2>3. CASE DoDetach(c)
      <3>1. resps' = Append(resps, c.of) BY <2>3 DEF DoDetach, Respond
      <3>2. \A i \in DOMAIN resps' : resps'[i] \in 0..asked'
        BY <1>1, <1>3, <3>1, QueuesTyped, Zenon
      <3> QED BY <1>1, <1>3, <2>3, <3>2, Zenon DEF DoDetach, TypeOK
    <2>4. CASE DoKill BY <1>1, <2>4 DEF DoKill, TypeOK
    <2>5. CASE DoRequest(c)
      <3>1. resps' = Append(resps, c.of) BY <2>5 DEF DoRequest, Respond
      <3>2. \A i \in DOMAIN resps' : resps'[i] \in 0..asked'
        BY <1>1, <1>3, <3>1, QueuesTyped, Zenon
      <3>3. debug_breakpoints' \in {debug_breakpoints \cup c.addr, debug_breakpoints \ c.addr,
                                    debug_breakpoints}
        <4>1. CASE c.kind = "SetBreakpoint" BY <2>5, <4>1 DEF DoRequest
        <4>2. CASE c.kind = "RemoveBreakpoint" BY <2>5, <4>2 DEF DoRequest
        <4>3. CASE c.kind \notin {"SetBreakpoint", "RemoveBreakpoint"} BY <2>5, <4>3 DEF DoRequest
        <4> QED BY <4>1, <4>2, <4>3
      <3>4. debug_breakpoints' \subseteq Addrs BY <1>2, <3>3 DEF TypeOK
      <3>5. /\ gdb_stopped' = (gdb_stopped \/ vmm = "wait_gdb") /\ vmm' = "top"
            /\ UNCHANGED <<single_step, resumed, drift>>
        BY <2>5 DEF DoRequest
      <3> QED BY <1>1, <3>2, <3>4, <3>5 DEF TypeOK
    <2> QED BY <1>1, HandlerCases, <2>1, <2>2, <2>3, <2>4, <2>5 DEF c
  <1> QED BY <1>1, <1>2, <1>4 DEF TypeOK, Asked

LEMMA TypedStep == ChannelsOK /\ TypeOK /\ Asked /\ [Next]_vars => TypeOK' /\ Asked'
  <1> SUFFICES ASSUME ChannelsOK, TypeOK, Asked, [Next]_vars PROVE TypeOK' /\ Asked'
    OBVIOUS
  <1>1. CASE SendRequest
    <2>1. PICK r \in Requests : Send(r[1], r[2], "answer")
      BY <1>1 DEF SendRequest
    <2>2. r[1] \in Kinds /\ r[2] \in SUBSET Addrs
      BY DEF Requests, Kinds, RequestKinds
    <2>3. client' \in {"none", "halted", "running", "closed"}
          /\ drift' \subseteq {"attach", "timeout", "crossing", "closed", "detach"}
      BY <1>1 DEF SendRequest, TypeOK
    <2> QED BY <2>1, <2>2, <2>3, SendTyped
  <1>2. CASE SendContinue \/ SendStep \/ SendDetach \/ SendKill
    <2>1. client' \in {"none", "halted", "running", "closed"}
          /\ drift' \subseteq {"attach", "timeout", "crossing", "closed", "detach"}
      BY <1>2 DEF SendContinue, SendStep, SendDetach, SendKill, TypeOK
    <2>2. {"Continue", "Step", "Detach", "Kill"} \subseteq Kinds BY DEF Kinds
    <2>3. PICK kind \in Kinds, addr \in SUBSET Addrs,
               next \in {"accept", "idle", "answer"} \cup Blocked : Send(kind, addr, next)
      BY <1>2, <2>2 DEF SendContinue, SendStep, SendDetach, SendKill, Blocked
    <2> QED BY <2>1, <2>3, SendTyped
  <1>3. CASE Connect \/ Disconnect \/ PressCtrlC \/ RecvTimeout \/ PollClosed
             \/ IdleInterrupt \/ IdleClosed \/ UNCHANGED vars
    <2>1. UNCHANGED <<asked, cmds, resps, vmm, gdb_stopped, single_step, debug_breakpoints, rip,
                      resumed>>
      BY <1>3 DEF Connect, Disconnect, PressCtrlC, RecvTimeout, PollClosed, IdleInterrupt,
                  IdleClosed, vars, channels, machine
    <2>2. client' \in {client, "none", "halted", "closed"} /\ server' \in {server, "accept", "idle"}
      BY <1>3 DEF Connect, Disconnect, PressCtrlC, RecvTimeout, PollClosed, IdleInterrupt,
                  IdleClosed, vars, debugger
    <2>3. ctrl_c' \in {ctrl_c, TRUE, FALSE}
      BY <1>3, Zenon DEF Connect, Disconnect, PressCtrlC, RecvTimeout, PollClosed, IdleInterrupt,
                  IdleClosed, vars, debugger
    <2>4. drift' \subseteq drift \cup {"attach", "timeout", "closed"}
      BY <1>3 DEF Connect, Disconnect, PressCtrlC, RecvTimeout, PollClosed, IdleInterrupt,
                  IdleClosed, vars
    <2>5. Asked' BY <2>1, <2>2 DEF Asked, Blocked
    <2>6. ctrl_c' \in BOOLEAN BY <2>3, Zenon DEF TypeOK
    <2> QED BY <2>1, <2>2, <2>4, <2>5, <2>6 DEF TypeOK
  <1>4. CASE RecvAnswer \/ PollResponse
    <2>1. /\ resps # <<>> /\ resps' = Tail(resps) /\ server' = "idle" /\ client' = Replied
          /\ UNCHANGED <<ctrl_c, asked, cmds, vmm, gdb_stopped, single_step, debug_breakpoints,
                         rip, resumed, drift>>
      BY <1>4 DEF RecvAnswer, PollResponse, machine
    <2>2. \A i \in DOMAIN resps' : resps'[i] \in 0..asked' BY <2>1, QueuesTyped
    <2>3. client' \in {"none", "halted", "running", "closed"} BY <2>1 DEF Replied, TypeOK
    <2> QED BY <2>1, <2>2, <2>3 DEF TypeOK, Asked, Blocked
  <1>5. CASE PollInterrupt
    <2> DEFINE c == Command("Interrupt", {}, asked)
    <2>1. /\ cmds' = Append(cmds, c) /\ server = "poll" /\ server' = "interrupt" /\ ~ctrl_c'
          /\ ctrl_c' = FALSE
          /\ UNCHANGED <<client, asked, resps, vmm, gdb_stopped, single_step, debug_breakpoints,
                         rip, resumed, drift>>
      BY <1>5 DEF PollInterrupt, machine
    <2>2. asked \in Nat /\ asked > 0 BY <2>1 DEF Asked, Blocked, ChannelsOK
    <2>3. c \in Commands /\ c.of \in 1..asked /\ c.addr \subseteq Addrs
      BY <2>2 DEF Command, Commands, Kinds
    <2> HIDE DEF c
    <2>4. \A i \in DOMAIN cmds' : cmds'[i].of \in 1..asked' /\ cmds'[i].addr \subseteq Addrs
      <3> SUFFICES ASSUME NEW i \in DOMAIN cmds'
                   PROVE  cmds'[i].of \in 1..asked' /\ cmds'[i].addr \subseteq Addrs
        OBVIOUS
      <3>1. (i \in DOMAIN cmds /\ cmds'[i] = cmds[i]) \/ cmds'[i] = c
        BY <2>1, <2>3, Positions DEF ChannelsOK
      <3> QED BY <2>1, <2>3, <3>1 DEF TypeOK
    <2> QED BY <2>1, <2>2, <2>4, Zenon DEF TypeOK, Asked, Blocked
  <1>6. CASE TakeCommand BY <1>6, TakeTyped
  <1>7. CASE EnterGuest \/ TimeSlice
    <2>1. /\ UNCHANGED <<client, ctrl_c, server, asked, cmds, resps, gdb_stopped, single_step,
                         debug_breakpoints, rip, resumed, drift>>
          /\ (vmm' = "guest" /\ ~gdb_stopped) \/ vmm' = "top"
      BY <1>7 DEF EnterGuest, TimeSlice, channels, debugger
    <2> QED BY <2>1 DEF TypeOK, Asked
  <1>8. CASE Breakpoint \/ Execute
    <2>1. /\ UNCHANGED <<client, ctrl_c, server, asked, cmds, single_step, debug_breakpoints,
                         resumed, drift>>
          /\ rip' \in Addrs
          /\ \/ Stop
             \/ UNCHANGED <<gdb_stopped, resps>> /\ vmm' \in {vmm, "top"}
      BY <1>8 DEF Breakpoint, Execute, debugger, TypeOK
    <2>2. \A i \in DOMAIN resps' : resps'[i] \in 0..asked'
      <3>1. resumed \in 0..asked BY DEF TypeOK
      <3>2. CASE Stop BY <2>1, <3>1, <3>2, QueuesTyped DEF Stop
      <3>3. CASE UNCHANGED resps BY <2>1, <3>3 DEF TypeOK
      <3> QED BY <2>1, <3>2, <3>3
    <2>3. CASE Stop BY <2>1, <2>2, <2>3 DEF Stop, TypeOK, Asked
    <2>4. CASE UNCHANGED gdb_stopped /\ vmm' \in {vmm, "top"}
      BY <2>1, <2>2, <2>4 DEF TypeOK, Asked
    <2> QED BY <2>1, <2>3, <2>4
  <1> QED BY <1>1, <1>2, <1>3, <1>4, <1>5, <1>6, <1>7, <1>8 DEF Next

(* Both threads, the channels and the guest keep their types, every        *)
(* command and response carries the number of a request made, and a guest  *)
(* that counts as stopped is not executing (handle_gdb_command), for every *)
(* set of addresses and number of requests.                                *)
THEOREM SessionIsTyped == Spec => []TypeOK
  <1>1. Init => ChannelsOK /\ TypeOK /\ Asked
    <2>1. ASSUME Init PROVE TypeOK /\ Asked
      <3>1. DOMAIN cmds = {} /\ DOMAIN resps = {} BY <2>1 DEF Init
      <3>2. asked \in 0..MaxRequests /\ resumed \in 0..asked
        BY <2>1, GdbAssumption DEF Init
      <3> QED BY <2>1, <3>1, <3>2, Zenon DEF Init, TypeOK, Asked, Blocked
    <2> QED BY <2>1, ChannelsInit
  <1>2. ChannelsOK /\ TypeOK /\ Asked /\ [Next]_vars => (ChannelsOK /\ TypeOK /\ Asked)'
    BY ChannelsStep, TypedStep
  <1> QED BY <1>1, <1>2, PTL DEF Spec
=============================================================================
