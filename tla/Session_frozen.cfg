SPECIFICATION Spec
CONSTANTS
  Main = m
  Threads = {m, a}
  Signalled = {}
  NoThread = NoThread
  MaxCalls = 1
INVARIANT NobodyLeftStopped
