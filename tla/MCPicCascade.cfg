\* Two slave lines and a guest that sends each chip its EOI.
CONSTANTS
  DeviceIrqs = {8, 9}
  MasterCommands = {32}
  MasterData = {}
  SlaveCommands = {32}
  SlaveData = {}
  ExplicitAcks = {}
SPECIFICATION OpenSpec
INVARIANT CascadeInSync
