\* Each clock with serial input and output, more input than the FIFO holds,
\* checkpoints from the console and a restart at any later time.
CONSTANTS
  FIFO_SIZE = 2
  Triggers <- MCTriggers
  LAPIC_POLL_STRIDE = 3
  Clocks = {"pit", "lapic"}
  MaxKeys = 3
  MaxTx = 1
  Checkpoints = {"console"}
  MaxRestarts = 1
SPECIFICATION Spec
INVARIANTS TypeOK NeverSleepsOnWork AcknowledgedIsHandled
PROPERTIES ResumesExactly SerialIsServed TimerIsDelivered PendingLapicIsDelivered
