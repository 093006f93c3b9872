\* Two callers at once through the kernel, one at a time through s2pexec.
SPECIFICATION FairSpec
CONSTANTS
  Callers = {u1, u2}
  SharedLinks = {"sg_io"}
  Timeout = 1000
  SlackMs = 2000
  SenseLimit = 1
  SenseKill = 2
INVARIANTS TypeOK CallIsBounded
PROPERTIES SenseIsOwn PowerLossIsTold OwnLimitFirst CallSpec CallEnds
