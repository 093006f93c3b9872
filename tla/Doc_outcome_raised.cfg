SPECIFICATION Spec
CONSTANTS
  BufferKB = 4
  LineKB = 1
  Height = 3
  BURST_SIZE = 2
  MIN_FREE_KB = 2
  DrainMarginKB = 1
  PassFreeKB = 3
  PassPolls = 2
  CALIBRATION_WAIT_S = 3
  CALIBRATION_MIN_S = 1
  CommandFaults = {"scsi"}
  CallbackFaults = {}
  MaxPowerCycles = 0
INVARIANT OutcomeReachesCaller
