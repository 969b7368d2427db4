SPECIFICATION Spec
CONSTANTS
  ISA = "aarch64"
  SyscallInfo = TRUE
  Signals = {s1, s2, stop}
  Internal = {stop}
  NoSig = NoSig
  Results = {"res", "enosys"}
  MaxCalls = 4
INVARIANTS
  OnlyInjectedCallsRun
  DisplacedCallRunsOnce
PROPERTY LoanKept
