\* Every register, with input larger than the FIFO.
SPECIFICATION Spec
CONSTANTS
  FIFO_SIZE = 3
  Triggers <- MCTriggers
  Inputs <- AllInputs
  MaxTyped = 6
  Outputs = {"esc", "[", "6", "n", "x"}
  MaxSent = 4
  IerWrites <- DriverIer
  McrWrites <- SomeMcr
  FcrWrites <- AllFcr
  LcrWrites = {TRUE, FALSE}
CONSTRAINT OneAspect
INVARIANTS TypeOK EscapesAreExact PasteIsDelivered Metered InTypingOrder OnlyQueriesFiltered DeltasAreKept
