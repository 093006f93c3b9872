SPECIFICATION RunningSpec
CONSTANTS
  BufferKB = 5
  LineKB = 2
  Height = 3
  BURST_SIZE = 2
  MIN_FREE_KB = 4
  DrainMarginKB = 1
  PassFreeKB = 4
  PassPolls = 2
  CALIBRATION_WAIT_S = 3
  CALIBRATION_MIN_S = 1
  CommandFaults = {"scsi", "os", "other"}
  CallbackFaults = {"scsi", "os", "other", "aborted"}
  MaxPowerCycles = 2
PROPERTIES ContractSpec AbortEnds Termination
