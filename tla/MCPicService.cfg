\* Nested service: EOI and rotate on EOI on both chips, with two
\* slave lines and a master line of lower priority, so that services nest.
CONSTANTS
  DeviceIrqs = {5, 8, 11}
  MasterCommands = {160}
  MasterData = {}
  SlaveCommands = {32, 160}
  SlaveData = {}
  ExplicitAcks = {}
SPECIFICATION OpenFairSpec
PROPERTIES MasterNests SlaveNests RotationIsFair
