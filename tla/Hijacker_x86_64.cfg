SPECIFICATION FairSpec
CONSTANTS
  ISA = "x86_64"
  SyscallInfo = TRUE
  Signals = {s1, s2, stop}
  Internal = {stop}
  NoSig = NoSig
  Results = {"res", "enosys"}
  MaxCalls = 4
INVARIANTS
  TypeOK
  OnlyInjectedCallsRun
  DisplacedCallRunsOnce
  FirstSignalGivenBack
PROPERTIES
  EveryCallReturns
  SeizeEnds
