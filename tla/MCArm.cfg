\* Both timers, the UART below them in priority and a software interrupt.
CONSTANTS
  Sgis = {1}
  Ppis = {27, 30}
  Spis = {33}
  Priorities = {128, 160, 255}
  BATCH = 3
  NUDGE = 2
  Delays = {2, 5}
  Urgent = {27}
  Writes = {"disable", "enable", "mask", "unmask", "away", "home", "clear"}
  MaxKeys = 2
  MaxStarts = 3
SPECIFICATION Spec
INVARIANTS MachineOK IrqLineIsCurrent ServesOnlyDueTimers NoSpuriousIrq
PROPERTIES ServicesNest IdlesOnlyWhenQuiet NeverOversleeps InputIsRead TimersAreServed
