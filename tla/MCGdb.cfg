SPECIFICATION Spec
CONSTANTS
  Addrs <- MCAddrs
  Exits <- MCExits
  MaxRequests = 4
INVARIANTS TypeOK AnswersArePaired HaltedMeansHalted SomeoneWillAnswer
PROPERTY InterruptIsAnswered
CHECK_DEADLOCK FALSE
