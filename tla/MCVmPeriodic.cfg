\* Checkpoints by instruction count.
CONSTANTS
  FIFO_SIZE = 2
  Triggers <- MCTriggers
  LAPIC_POLL_STRIDE = 3
  Clocks = {"pit"}
  MaxKeys = 0
  MaxTx = 0
  Checkpoints = {"periodic"}
  MaxRestarts = 1
SPECIFICATION Spec
PROPERTY ResumesExactly
