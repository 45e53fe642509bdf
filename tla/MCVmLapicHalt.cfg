\* The guest halts with the LAPIC timer as its only clock.
CONSTANTS
  FIFO_SIZE = 2
  Triggers <- MCTriggers
  LAPIC_POLL_STRIDE = 3
  Clocks = {"lapic"}
  MaxKeys = 0
  MaxTx = 0
  Checkpoints = {}
  MaxRestarts = 0
SPECIFICATION Spec
PROPERTY LapicTimerFires
