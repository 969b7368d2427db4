SPECIFICATION FairSpec
CONSTANTS
  ISAs = {"x86_64", "aarch64"}
  MaxFd = 3
  Forces = {FALSE, TRUE}
  StreamSets = {{1, 2}}
  Companions = {"kid"}
  Kinds = {"old", "closed"}
  DummyStops = {"event", "signal"}
INVARIANTS
  TypeOK
  MoveDoesNotKill
  ScratchReleased
  TargetMoved
  NothingRedirectedWithoutTerminal
PROPERTIES SessionLeaderMoves MoveImplemented
