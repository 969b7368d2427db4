SPECIFICATION FairSpec
CONSTANTS
  Tokens = {"--", "-V", "-s", "-T", "-l", "-L", "-x", "-", "pid", "streams"}
  MaxArgs = 2
  MaxIn = 1
  MaxOut = 1
  Gain = 1
  InCap = 1
  OutCap = 2
  BufCap = 2
  MaxSize = 2
  MaxOpens = 2
PROPERTY CommandEndsProxy
CHECK_DEADLOCK FALSE
