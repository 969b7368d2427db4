SPECIFICATION WakingSpec
CONSTANTS
  Main = m
  Threads = {m, a, b}
  Signalled = {a}
  NoThread = NoThread
  MaxCalls = 1
INVARIANTS TypeOK SiblingsStandStill NobodyLeftTraced SignalsKeptApart
PROPERTIES StoppedThreadsRunAgain SeizeEnds
