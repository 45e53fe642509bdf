\* Every kind of command: ICW1 edge and level, specific EOI, rotation, set
\* priority, poll, special mask mode.  Line 1 on the master, 9 on the slave.
CONSTANTS
  DeviceIrqs = {1, 9}
  MasterCommands = {17, 26, 97, 12, 104, 231}
  MasterData = {0, 2}
  SlaveCommands = {25, 32, 12}
  SlaveData = {0, 3}
  ExplicitAcks = {2}
SPECIFICATION Spec
INVARIANTS TypeOK LevelRequestsAreBacked
PROPERTY RequestsAreKept
