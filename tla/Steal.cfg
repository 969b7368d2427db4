SPECIFICATION FairSpec
CONSTANTS
  Fds = {0, 1, 2, 3}
  Name = 2
  Minors = {0, 255, 256, 524287}
INVARIANTS TypeOK InspectsRight MasterHeld OneReader LeaderSurvives FailureLeavesEmulator NothingHeld
PROPERTIES StealEnds HandoverKept
CHECK_DEADLOCK FALSE
