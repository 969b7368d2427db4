SPECIFICATION Spec
CONSTANTS
  ISA = "x86_64"
  SyscallInfo = TRUE
  Signals = {s1, s2, stop}
  Internal = {stop}
  NoSig = NoSig
  Results = {"res"}
  MaxCalls = 3
INVARIANT ReentersAtOnce
