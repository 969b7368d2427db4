SPECIFICATION FairSpec
CONSTANTS
  Tokens = {"--", "-V", "-s", "-T", "-l", "-L", "-x", "-", "pid", "streams"}
  MaxArgs = 3
  MaxIn = 3
  MaxOut = 1
  Gain = 1
  InCap = 1
  OutCap = 2
  BufCap = 2
  MaxSize = 2
  MaxOpens = 2
INVARIANTS TypeOK BytesInOrder NothingLeftUnread TerminalRestored
PROPERTIES Relayed WinsizeForwarded ReptyrLeaves
CHECK_DEADLOCK FALSE
