\* Frames of up to six lines on a buffer for six, with all kinds of images.
SPECIFICATION Spec
CONSTANTS
  HARDWARE_BUFFER_KB = 24
  TicksPerKB = 3
  Slots = {4, 7, 19}
  HresValues = {3, 4}
  Aspects <- MCAspects
  Images <- MCImages
  Height = 6
  BURST_SIZE = 2
  MIN_FREE_KB = 12
  DrainMarginKB = 3
  PassFreeKB = 20
  PassPolls = 2
  CalPolls = 1
  PrintTicks = 3
  SecondTicks = 7
  Late = 1
  MaxAsked = 20
INVARIANTS ImagePlaced NothingOverflows MockIsFaithful
PROPERTY RunEnds
