SPECIFICATION FairSpec
CONSTANTS
  ISAs = {"x86_64"}
  MaxFd = 3
  Forces = {FALSE}
  StreamSets = {{0, 1, 2}}
  Companions = {}
  Kinds = {"old", "closed"}
  DummyStops = {"event"}
PROPERTY GroupLeaderMoves
