\* Two callers at once, also through s2pexec.
SPECIFICATION Spec
CONSTANTS
  Callers = {u1, u2}
  SharedLinks = {"sg_io", "s2pexec"}
  Timeout = 1000
  SlackMs = 2000
  SenseLimit = 1
  SenseKill = 2
PROPERTY SenseIsOwn
