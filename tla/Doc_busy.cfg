SPECIFICATION Spec
CONSTANTS
  c1 = c1
  c2 = c2
  kodak = kodak
  agfa = agfa
  Clients = {c1, c2}
  Tables = {kodak}
  Blank = {}
  None = None
  SCRATCH_SLOT = 1
  Faults = {}
  MaxCalls = 2
  MaxPowerCycles = 0
PROPERTY BusyIsTurnedAway
