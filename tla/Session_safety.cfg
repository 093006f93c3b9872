SPECIFICATION Spec
CONSTANTS
  c1 = c1
  c2 = c2
  kodak = kodak
  agfa = agfa
  Clients = {c1}
  Tables = {kodak, agfa}
  Blank = {}
  None = None
  SCRATCH_SLOT = 2
  Faults = {"scsi", "os", "other"}
  MaxCalls = 4
  MaxPowerCycles = 2
INVARIANTS TypeOK OneCallPerFrame FrameHasItsTable RecorderRecovers
PROPERTIES ListingIsTrue NoSilentOverwrite
