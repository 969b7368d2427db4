SPECIFICATION Spec
CONSTANTS
  ISAs = {"x86_64"}
  MaxFd = 3
  Forces = {TRUE}
  StreamSets = {{0, 1, 2}}
  Companions = {}
  Kinds = {"old", "closed"}
  DummyStops = {"event"}
INVARIANT StdioRedirected
