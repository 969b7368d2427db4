--------------------------- MODULE HijackerProofs ---------------------------
(***************************************************************************)
(* What holds of the engine for every set of signals, every set of results *)
(* and every number of injected calls, on both architectures.              *)
(***************************************************************************)
EXTENDS Hijacker, TLAPS

(***************************************************************************)
(* The kernel tells entry stops from exit stops, or the x86_64 fallback    *)
(* can: no call answers -ENOSYS.  On aarch64 without                       *)
(* PTRACE_GET_SYSCALL_INFO no thread is ever captured.                     *)
(***************************************************************************)
Distinguishable == SyscallInfo \/ ~X86 \/ "enosys" \notin Results

-----------------------------------------------------------------------------
(* The inductive invariant.                                                *)

Raw == EnterKernel(Blocked)

Uncaptured == pc \in {"seize", "seizing", "interrupted", "none"}
Freed      == pc \in {"released", "dropped"}

(* What the register file says of the stop the thread is in.  This is what *)
(* makes the fallback right.                                               *)
StopInv ==
  /\ at = "entry" /\ X86 => regs.num = "enosys"
  /\ at = "exit" /\ X86 => regs.num \in Results \cup {"restart"}

(* Before the capture the thread only ever enters the call the engine will *)
(* displace, with its own number and arguments.                            *)
UncapturedInv ==
  Uncaptured =>
    /\ at \notin {"fork", "leaving", "freeUser", "freeKernel"}
    /\ at \in {"entry", "kernel"} => regs = Raw
    /\ regs.ip = "insn" => regs.num = "orig" /\ regs.arg = "orig"
    /\ MustRestart(regs) =>
         /\ regs.ip = "next"
         /\ IF X86 THEN regs.sysno = "orig" /\ regs.arg = "orig"
                   ELSE regs.num = "orig"
    /\ ~derailed /\ origRuns = 0 /\ ~junk /\ ~strayed

(* The thread is borrowed: both copies of the displaced call are intact,   *)
(* and at_entry tells the truth.                                           *)
HeldInv ==
  Held /\ ~derailed =>
    /\ SyscallInfo \/ X86
    /\ saved = Blocked /\ raw_saved = Raw
    /\ origRuns = 0 /\ ~junk /\ ~strayed
    /\ ~MustRestart(regs)
    /\ pc = "ready" => \/ at_entry /\ at = "entry" /\ regs = Raw
                       \/ ~at_entry /\ at \in {"exit", "fork"}
                       \/ at = "dead"
    /\ pc = "rewind" => /\ ~at_entry
                        /\ at \in {"leaving", "user", "signal", "trap", "exit",
                                   "entry", "dead"}
                        /\ at \notin {"entry", "dead"} => regs.ip = "insn"
    /\ pc \in {"wait_exit", "wait_fork"} => at_entry
    /\ pc = "wait_exit" => at \in {"kernel", "exit", "dead"}
    /\ pc = "wait_fork" => at \in {"kernel", "fork", "exit", "dead"}
    /\ at = "kernel" => /\ regs.sysno = IF pc = "wait_fork" THEN "clone" ELSE "inj"
                        /\ regs.arg = "inj"

(* The thread is free: it is at, or inside, the displaced call, or has run *)
(* it.                                                                     *)
FreedInv ==
  Freed /\ ~derailed =>
    /\ ~junk /\ ~strayed
    /\ at \in {"freeUser", "freeKernel", "gone"}
    /\ at = "freeUser" => regs.ip = "insn" /\ regs.num = "orig" /\ regs.arg = "orig"
    /\ at = "freeKernel" => regs.sysno = "orig" /\ regs.arg = "orig"
    /\ origRuns = IF at = "gone" THEN 1 ELSE 0

(* The signal kept is the first one noted, until finish hands it over.     *)
SignalInv ==
  LET first == IF noted = << >> THEN NoSig ELSE noted[1]
  IN  IF pc = "released" THEN handed = first ELSE pending_signal = first

IInv == TypeOK /\ StopInv /\ UncapturedInv /\ HeldInv /\ FreedInv /\ SignalInv

-----------------------------------------------------------------------------
(* Type correctness.                                                       *)

(* Every operation of the Arch trait, and every step of the processor and  *)
(* the kernel, maps register files to register files.                      *)
LEMMA FixupType == ASSUME NEW r \in Regs PROVE save_fixup(r) \in Regs
  BY DEF Regs, Ips, save_fixup

LEMMA RestoreIpType ==
  ASSUME NEW r \in Regs, NEW s \in Regs PROVE restore_ip(r, s) \in Regs
  BY DEF Regs, restore_ip

LEMMA SetregsType ==
  ASSUME NEW r \in Regs, NEW s \in Regs PROVE setregs(r, s) \in Regs
  BY DEF Regs, setregs

LEMMA RestoreNrType ==
  ASSUME NEW r \in Regs, NEW v \in Vals PROVE restore_syscall_nr(r, v) \in Regs
  BY DEF Regs, restore_syscall_nr

LEMMA EnterType == ASSUME NEW r \in Regs PROVE EnterKernel(r) \in Regs
  BY DEF Regs, Ips, Vals, EnterKernel

LEMMA LeaveType ==
  ASSUME NEW r \in Regs, NEW v \in Vals PROVE LeaveKernel(r, v) \in Regs
  BY DEF Regs, LeaveKernel

LEMMA RestartType == ASSUME NEW r \in Regs PROVE RestartCall(r) \in Regs
  BY DEF Regs, Ips, Vals, RestartCall, BackUp

LEMMA ResultsAreVals == Results \cup {"restart"} \subseteq Vals
  BY ResultsAssumption DEF Vals

LEMMA ResumedType == ASSUME at \in Ats PROVE Resumed(at) \in Ats \ {"signal"}
  BY DEF Ats, Stops, Runs, Resumed

LEMMA ResumeType ==
  ASSUME TypeOK, Resume
  PROVE  /\ at' \in Ats \ {"signal"} /\ sig' = NoSig
  BY ResumedType DEF TypeOK, Resume

LEMMA RecordType ==
  ASSUME TypeOK, NEW s \in Signals, record_signal(s)
  PROVE  /\ pending_signal' \in Signals \cup {NoSig}
         /\ noted' \in Seq(Signals)
  BY DEF TypeOK, record_signal

LEMMA LoadedType ==
  ASSUME NEW r \in Regs, NEW o PROVE Loaded(o, r) \in Regs
  BY DEF Loaded, Regs, Vals, set_syscall_nr, set_syscall_args

LEMMA RewindType ==
  ASSUME regs \in Regs, saved \in Regs, Rewind PROVE regs' \in Regs
  BY RestoreIpType, SetregsType DEF Rewind

LEMMA RestoredType ==
  ASSUME regs \in Regs, saved \in Regs, raw_saved \in Regs
  PROVE  Restored \in Regs
<1> DEFINE state == IF at_entry THEN raw_saved ELSE saved
<1>1. setregs(regs, state) \in Regs
  BY SetregsType
<1>2. saved.sysno \in Vals
  BY DEF Regs
<1> QED
  BY <1>1, <1>2, RestoreNrType DEF Restored

LEMMA BeginType ==
  ASSUME TypeOK, NEW o \in Ops, Begin(o)
  PROVE  calls' \in 0 .. MaxCalls /\ op' \in Ops
  BY MaxCallsAssumption DEF TypeOK, Begin

LEMMA DispatchType ==
  ASSUME origRuns \in 0 .. 2, junk \in BOOLEAN, NEW nr, NEW a, Dispatch(nr, a)
  PROVE  origRuns' \in 0 .. 2 /\ junk' \in BOOLEAN
<1>1. Saturate(origRuns) \in 0 .. 2
  BY DEF Saturate
<1>2. origRuns' \in 0 .. 2
  BY <1>1 DEF Dispatch
<1>3. junk' \in BOOLEAN
  BY DEF Dispatch
<1> QED
  BY <1>2, <1>3

LEMMA ProgramType ==
  ASSUME NEW r \in Regs, NEW v \in Vals
  PROVE  [r EXCEPT !.ip = "insn", !.num = v, !.arg = v] \in Regs
  BY DEF Regs, Ips

LEMMA TypeInit == Init => TypeOK
<1> SUFFICES ASSUME Init PROVE TypeOK
  OBVIOUS
<1>1. Blocked \in Regs /\ Busy \in Regs
  BY DEF Blocked, Busy, Regs, Vals, Ips
<1>2. at \in Ats /\ pc \in Pcs /\ op \in Ops /\ calls \in 0 .. MaxCalls
  BY MaxCallsAssumption DEF Init, Ats, Stops, Pcs, Ops
<1>3. sig \in Signals \cup {NoSig} /\ (at = "signal" => sig \in Signals)
  BY DEF Init
<1>4. noted \in Seq(Signals)
  BY DEF Init
<1>5. sent \in SUBSET Signals
  BY <1>3 DEF Init
<1>6. regs \in Regs /\ saved \in Regs /\ raw_saved \in Regs
  BY <1>1 DEF Init
<1>7. /\ queue \in SUBSET Signals
      /\ pending_signal \in Signals \cup {NoSig} /\ handed \in Signals \cup {NoSig}
      /\ origRuns \in 0 .. 2
  BY DEF Init
<1>8. /\ trapPending \in BOOLEAN /\ tracefork \in BOOLEAN /\ at_entry \in BOOLEAN
      /\ derailed \in BOOLEAN /\ junk \in BOOLEAN /\ strayed \in BOOLEAN
  BY DEF Init
<1> QED
  BY <1>2, <1>3, <1>4, <1>5, <1>6, <1>7, <1>8 DEF TypeOK

LEMMA TypeStep == TypeOK /\ [Next]_vars => TypeOK'
<1> SUFFICES ASSUME TypeOK, [Next]_vars PROVE TypeOK'
  OBVIOUS
<1> USE SignalsAssumption DEF TypeOK, engine, control, signalHistory, callHistory, tracee
<1>1. CASE TryTid
  BY <1>1, ResumeType DEF TryTid, Pcs
<1>2. CASE SeizeCapture
  BY <1>2, FixupType DEF SeizeCapture, Pcs
<1>3. CASE SeizeSkip
  BY <1>3, ResumeType DEF SeizeSkip
<1>4. CASE SeizeSignal
  BY <1>4, ResumeType, RecordType DEF SeizeSignal
<1>5. CASE SeizeTimeout
  BY <1>5 DEF SeizeTimeout, Pcs
<1>6. CASE SeizeGiveUp
  BY <1>6, ResumedType DEF SeizeGiveUp, Pcs
<1>7. CASE Abandon
  BY <1>7 DEF Abandon, Ats
<1>8. CASE SyscallAtEntry
  BY <1>8, BeginType, ResumeType, LoadedType DEF SyscallAtEntry, Begin, Launch, Awaited, Pcs, Ops
<1>9. CASE SyscallAfterExit
  BY <1>9, BeginType, ResumeType, RewindType DEF SyscallAfterExit, Begin, Rewind, Pcs, Ops
<1>10. CASE ForkChild
  BY <1>10, BeginType, ResumeType, RewindType DEF ForkChild, Begin, Rewind, Pcs, Ops
<1>11. CASE RewindDone
  BY <1>11, ResumeType, LoadedType DEF RewindDone, Launch, Awaited, Pcs, Ops
<1>12. CASE SyscallReturns
  BY <1>12 DEF SyscallReturns, Pcs
<1>13. CASE ForkEvent
  BY <1>13 DEF ForkEvent, Pcs
<1>14. CASE ForkRefused
  BY <1>14 DEF ForkRefused, Pcs
<1>15. CASE AwaitSkip
  BY <1>15, ResumeType DEF AwaitSkip
<1>16. CASE AwaitSignal
  BY <1>16, ResumeType, RecordType DEF AwaitSignal
<1>17. CASE TraceeExited
  BY <1>17 DEF TraceeExited, Pcs
<1>18. CASE Finish
  BY <1>18, RestoredType DEF Finish, Detached, Ats, Pcs
<1>19. CASE DropEarly
  BY <1>19, RestoredType DEF DropEarly, Detached, Ats, Pcs
<1>20. CASE KSignal
  BY <1>20 DEF KSignal, Ats, Stops
<1>21. CASE KTrap
  BY <1>21 DEF KTrap, Ats, Stops
<1>22. CASE KEnter
  BY <1>22, EnterType DEF KEnter, Ats, Stops
<1>23. CASE KCall
  BY <1>23, LeaveType, ResultsAreVals, DispatchType DEF KCall, Ats, Stops
<1>24. CASE KInterrupted
  BY <1>24, LeaveType, ResultsAreVals DEF KInterrupted, Ats, Stops
<1>25. CASE KRestart
  BY <1>25, RestartType DEF KRestart
<1>26. CASE KFork
  BY <1>26 DEF KFork, Ats, Stops
<1>27. CASE KForkFails
  BY <1>27, LeaveType DEF KForkFails, Ats, Stops, Vals
<1>28. CASE KLeave
  BY <1>28, LeaveType DEF KLeave, Ats, Stops, Vals
<1>29. CASE KFree
  BY <1>29, DispatchType DEF KFree, Ats
<1>30. CASE KProgram
  BY <1>30, ProgramType DEF KProgram, Vals
<1>31. CASE KKill
  BY <1>31 DEF KKill, Ats
<1>32. ASSUME NEW s \in Signals, KSend(s) PROVE TypeOK'
  BY <1>32 DEF KSend
<1>33. CASE UNCHANGED vars
  BY <1>33 DEF vars
<1> QED
  BY <1>1, <1>2, <1>3, <1>4, <1>5, <1>6, <1>7, <1>8, <1>9, <1>10, <1>11,
     <1>12, <1>13, <1>14, <1>15, <1>16, <1>17, <1>18, <1>19, <1>20, <1>21,
     <1>22, <1>23, <1>24, <1>25, <1>26, <1>27, <1>28, <1>29, <1>30, <1>31,
     <1>32, <1>33
  DEF Next, Seize, Inject, Await, GiveBack, KernelStep, Terminated

(* Every variable keeps its type (hijack.rs, whole file).                  *)
THEOREM TypeCorrect == Spec => []TypeOK
<1> QED
  BY TypeInit, TypeStep, PTL DEF Spec

-----------------------------------------------------------------------------
(* The inductive invariant is preserved, conjunct by conjunct.             *)

(* Where a resumed thread goes.                                            *)
LEMMA ResumeMoves ==
  ASSUME Resume
  PROVE  /\ at' \in {"kernel", "leaving", "dead", "user"}
         /\ at' = "kernel" <=> at = "entry"
         /\ at' = "leaving" <=> at = "fork"
         /\ at' = "dead" <=> at = "dead"
  BY DEF Resume, Resumed

(* The displaced call, raw and fixed up.                                   *)
LEMMA RawFields ==
  /\ Raw.ip = "next" /\ Raw.arg = "orig" /\ Raw.sysno = "orig"
  /\ Raw.num = IF X86 THEN "enosys" ELSE "orig"
  BY DEF Raw, EnterKernel, Blocked

LEMMA FixupOfRaw == save_fixup(Raw) = Blocked
<1>1. CASE X86
  BY <1>1 DEF Raw, EnterKernel, Blocked, save_fixup
<1>2. CASE ~X86
  BY <1>2 DEF Raw, EnterKernel, Blocked, save_fixup
<1> QED
  BY <1>1, <1>2

(* Register files are equal when their fields are.                         *)
LEMMA SameRegs ==
  ASSUME NEW r \in Regs, NEW s \in Regs,
         r.ip = s.ip, r.num = s.num, r.sysno = s.sysno, r.arg = s.arg
  PROVE  r = s
  BY DEF Regs

LEMMA EnterFields ==
  ASSUME NEW r \in Regs
  PROVE  /\ EnterKernel(r).ip = "next" /\ EnterKernel(r).sysno = r.num
         /\ EnterKernel(r).num = IF X86 THEN "enosys" ELSE r.num
         /\ EnterKernel(r).arg = r.arg
  BY DEF Regs, EnterKernel

(* Entering the displaced call makes the raw state.                        *)
LEMMA EnterOwnCall ==
  ASSUME NEW r \in Regs, r.num = "orig", r.arg = "orig"
  PROVE  EnterKernel(r) = Raw
<1>1. Blocked \in Regs
  BY DEF Blocked, Regs, Vals, Ips
<1>2. Raw \in Regs
  BY <1>1, EnterType DEF Raw
<1> QED
  BY <1>2, EnterType, EnterFields, RawFields, SameRegs

LEMMA RawNeedsNoRestart == ~MustRestart(Raw)
  BY RawFields DEF MustRestart

(* The engine is never mistaken about the kind of a syscall stop, as far   *)
(* as it can be told at all.                                               *)
LEMMA KindIsRight ==
  ASSUME Distinguishable, StopInv, AtSyscallStop
  PROVE  /\ Kind = "entry" => at = "entry" /\ (SyscallInfo \/ X86)
         /\ SyscallInfo \/ X86 => Kind = at
<1>1. CASE SyscallInfo
  BY <1>1 DEF Kind, syscall_stop_kind
<1>2. CASE ~SyscallInfo /\ X86
  <2>1. Kind = IF regs.num = "enosys" THEN "entry" ELSE "exit"
    BY <1>2 DEF Kind, syscall_stop_kind, fallback_syscall_stop
  <2>2. at = "exit" => regs.num # "enosys"
    BY <1>2 DEF StopInv, Distinguishable
  <2> QED
    BY <1>2, <2>1, <2>2 DEF StopInv, AtSyscallStop
<1>3. CASE ~SyscallInfo /\ ~X86
  BY <1>3 DEF Kind, syscall_stop_kind, fallback_syscall_stop
<1> QED
  BY <1>1, <1>2, <1>3

(* The stops say which side of the call the thread is on.                  *)
LEMMA StopStep ==
  ASSUME TypeOK, StopInv, [Next]_vars
  PROVE  StopInv'
<1> USE DEF StopInv, engine, control, signalHistory, callHistory, tracee
<1>1. CASE TryTid
  BY <1>1, ResumeMoves DEF TryTid
<1>2. CASE SeizeCapture
  BY <1>2 DEF SeizeCapture
<1>3. CASE SeizeSkip
  BY <1>3, ResumeMoves DEF SeizeSkip
<1>4. CASE SeizeSignal
  BY <1>4, ResumeMoves DEF SeizeSignal
<1>5. CASE SeizeTimeout
  BY <1>5 DEF SeizeTimeout
<1>6. CASE SeizeGiveUp
  BY <1>6 DEF SeizeGiveUp, Resumed, Stops
<1>7. CASE Abandon
  BY <1>7 DEF Abandon
<1>8. CASE SyscallAtEntry
  BY <1>8, ResumeMoves DEF SyscallAtEntry, Begin
<1>9. CASE SyscallAfterExit
  BY <1>9, ResumeMoves DEF SyscallAfterExit, Begin
<1>10. CASE ForkChild
  BY <1>10, ResumeMoves DEF ForkChild, Begin
<1>11. CASE RewindDone
  BY <1>11, ResumeMoves DEF RewindDone
<1>12. CASE SyscallReturns
  BY <1>12 DEF SyscallReturns
<1>13. CASE ForkEvent
  BY <1>13 DEF ForkEvent
<1>14. CASE ForkRefused
  BY <1>14 DEF ForkRefused
<1>15. CASE AwaitSkip
  BY <1>15, ResumeMoves DEF AwaitSkip
<1>16. CASE AwaitSignal
  BY <1>16, ResumeMoves DEF AwaitSignal
<1>17. CASE TraceeExited
  BY <1>17 DEF TraceeExited
<1>18. CASE Finish
  BY <1>18 DEF Finish, Detached
<1>19. CASE DropEarly
  BY <1>19 DEF DropEarly, Detached
<1>20. CASE KSignal
  BY <1>20 DEF KSignal
<1>21. CASE KTrap
  BY <1>21 DEF KTrap
<1>22. CASE KEnter
  BY <1>22 DEF KEnter, EnterKernel
<1>23. CASE KCall
  BY <1>23 DEF KCall, LeaveKernel, TypeOK, Regs
<1>24. CASE KInterrupted
  BY <1>24 DEF KInterrupted, LeaveKernel, TypeOK, Regs
<1>25. CASE KRestart
  BY <1>25 DEF KRestart
<1>26. CASE KFork
  BY <1>26 DEF KFork
<1>27. CASE KForkFails
  BY <1>27, ResultsAssumption DEF KForkFails, LeaveKernel, TypeOK, Regs
<1>28. CASE KLeave
  BY <1>28, ResultsAssumption DEF KLeave, LeaveKernel, TypeOK, Regs
<1>29. CASE KFree
  BY <1>29 DEF KFree
<1>30. CASE KProgram
  BY <1>30 DEF KProgram
<1>31. CASE KKill
  BY <1>31 DEF KKill
<1>32. ASSUME NEW s \in Signals, KSend(s) PROVE StopInv'
  BY <1>32 DEF KSend
<1>33. CASE UNCHANGED vars
  BY <1>33 DEF vars
<1> QED
  BY <1>1, <1>2, <1>3, <1>4, <1>5, <1>6, <1>7, <1>8, <1>9, <1>10, <1>11,
     <1>12, <1>13, <1>14, <1>15, <1>16, <1>17, <1>18, <1>19, <1>20, <1>21,
     <1>22, <1>23, <1>24, <1>25, <1>26, <1>27, <1>28, <1>29, <1>30, <1>31,
     <1>32, <1>33
  DEF Next, Seize, Inject, Await, GiveBack, KernelStep, Terminated

(* Nothing but the displaced call is entered before the capture.           *)
LEMMA UncapturedStep ==
  ASSUME TypeOK, UncapturedInv, [Next]_vars
  PROVE  UncapturedInv'
<1> USE DEF UncapturedInv, Uncaptured, engine, control, signalHistory, callHistory, tracee
<1>1. CASE TryTid
  BY <1>1, ResumeMoves DEF TryTid
<1>2. CASE SeizeCapture
  BY <1>2 DEF SeizeCapture
<1>3. CASE SeizeSkip
  BY <1>3, ResumeMoves DEF SeizeSkip
<1>4. CASE SeizeSignal
  BY <1>4, ResumeMoves DEF SeizeSignal
<1>5. CASE SeizeTimeout
  BY <1>5 DEF SeizeTimeout
<1>6. CASE SeizeGiveUp
  BY <1>6 DEF SeizeGiveUp, Resumed, Stops
<1>7. CASE Abandon
  BY <1>7 DEF Abandon
<1>8. CASE SyscallAtEntry
  BY <1>8 DEF SyscallAtEntry, Launch, Awaited
<1>9. CASE SyscallAfterExit
  BY <1>9 DEF SyscallAfterExit, Rewind
<1>10. CASE ForkChild
  BY <1>10 DEF ForkChild, Rewind
<1>11. CASE RewindDone
  BY <1>11 DEF RewindDone, Launch, Awaited
<1>12. CASE SyscallReturns
  BY <1>12 DEF SyscallReturns
<1>13. CASE ForkEvent
  BY <1>13 DEF ForkEvent
<1>14. CASE ForkRefused
  BY <1>14 DEF ForkRefused
<1>15. CASE AwaitSkip
  BY <1>15 DEF AwaitSkip
<1>16. CASE AwaitSignal
  BY <1>16 DEF AwaitSignal
<1>17. CASE TraceeExited
  BY <1>17 DEF TraceeExited
<1>18. CASE Finish
  BY <1>18 DEF Finish
<1>19. CASE DropEarly
  BY <1>19 DEF DropEarly
<1>20. CASE KSignal
  BY <1>20 DEF KSignal
<1>21. CASE KTrap
  BY <1>21 DEF KTrap
<1>22. CASE KEnter
  BY <1>22, EnterOwnCall, RawFields, RawNeedsNoRestart DEF KEnter, TypeOK
<1>23. CASE KCall
  BY <1>23, ResultsAssumption, RawFields DEF KCall, LeaveKernel, TypeOK,
     Regs, MustRestart, Held
<1>24. CASE KInterrupted
  BY <1>24, RawFields DEF KInterrupted, LeaveKernel, TypeOK, Regs,
     MustRestart, Held
<1>25. CASE KRestart
  BY <1>25 DEF KRestart, RestartCall, BackUp, MustRestart, TypeOK, Regs
<1>26. CASE KFork
  BY <1>26, RawFields DEF KFork
<1>27. CASE KForkFails
  BY <1>27, RawFields DEF KForkFails
<1>28. CASE KLeave
  BY <1>28 DEF KLeave
<1>29. CASE KFree
  BY <1>29 DEF KFree
<1>30. CASE KProgram
  BY <1>30 DEF KProgram, TypeOK, Regs, Held, MustRestart
<1>31. CASE KKill
  BY <1>31 DEF KKill
<1>32. ASSUME NEW s \in Signals, KSend(s) PROVE UncapturedInv'
  BY <1>32 DEF KSend
<1>33. CASE UNCHANGED vars
  BY <1>33 DEF vars
<1> QED
  BY <1>1, <1>2, <1>3, <1>4, <1>5, <1>6, <1>7, <1>8, <1>9, <1>10, <1>11,
     <1>12, <1>13, <1>14, <1>15, <1>16, <1>17, <1>18, <1>19, <1>20, <1>21,
     <1>22, <1>23, <1>24, <1>25, <1>26, <1>27, <1>28, <1>29, <1>30, <1>31,
     <1>32, <1>33
  DEF Next, Seize, Inject, Await, GiveBack, KernelStep, Terminated

(* What the engine loads at an entry stop, and what rewinding keeps.       *)
LEMMA LoadedFields ==
  ASSUME NEW r \in Regs, NEW o
  PROVE  /\ Loaded(o, r).sysno = IF o = "fork" THEN "clone" ELSE "inj"
         /\ Loaded(o, r).arg = "inj"
         /\ Loaded(o, r).num = r.num
  BY DEF Regs, Loaded, set_syscall_nr, set_syscall_args

LEMMA RewoundFields ==
  ASSUME NEW r \in Regs, NEW s \in Regs
  PROVE  /\ setregs(r, restore_ip(r, s)).ip = s.ip
         /\ setregs(r, restore_ip(r, s)).num = r.num
         /\ setregs(r, restore_ip(r, s)).arg = r.arg
  BY DEF Regs, setregs, restore_ip

LEMMA LeaveFields ==
  ASSUME NEW r \in Regs, NEW v
  PROVE  /\ LeaveKernel(r, v).ip = r.ip
         /\ v # "restart" => ~MustRestart(LeaveKernel(r, v))
  BY DEF Regs, LeaveKernel, MustRestart

(* While the thread is borrowed the engine's books stay right.             *)
LEMMA HeldStep ==
  ASSUME Distinguishable, TypeOK, StopInv, UncapturedInv, HeldInv, [Next]_vars
  PROVE  HeldInv'
<1> USE DEF HeldInv, Held, engine, control, signalHistory, callHistory, tracee
<1>1. CASE TryTid
  BY <1>1 DEF TryTid
<1>2. CASE SeizeCapture
  BY <1>2, KindIsRight, RawFields, RawNeedsNoRestart, FixupOfRaw DEF
     SeizeCapture, UncapturedInv, Uncaptured, AtSyscallStop
<1>3. CASE SeizeSkip
  BY <1>3 DEF SeizeSkip
<1>4. CASE SeizeSignal
  BY <1>4 DEF SeizeSignal
<1>5. CASE SeizeTimeout
  BY <1>5 DEF SeizeTimeout
<1>6. CASE SeizeGiveUp
  BY <1>6 DEF SeizeGiveUp
<1>7. CASE Abandon
  BY <1>7 DEF Abandon
<1>8. CASE SyscallAtEntry
  BY <1>8, ResumeMoves, LoadedFields, RawFields DEF SyscallAtEntry, Begin,
     Launch, Awaited, MustRestart, TypeOK
<1>9. CASE SyscallAfterExit
  BY <1>9, ResumeMoves, RewoundFields DEF SyscallAfterExit, Begin, Rewind,
     MustRestart, TypeOK, Blocked
<1>10. CASE ForkChild
  BY <1>10, ResumeMoves, RewoundFields DEF ForkChild, Begin, Rewind,
     MustRestart, TypeOK, Blocked
<1>11. CASE RewindDone
  BY <1>11, KindIsRight, ResumeMoves, LoadedFields DEF RewindDone, Launch,
     Awaited, MustRestart, TypeOK, AtSyscallStop
<1>12. CASE SyscallReturns
  BY <1>12, KindIsRight DEF SyscallReturns, AtSyscallStop
<1>13. CASE ForkEvent
  BY <1>13 DEF ForkEvent
<1>14. CASE ForkRefused
  BY <1>14 DEF ForkRefused
<1>15. CASE AwaitSkip
  BY <1>15, KindIsRight, ResumeMoves DEF AwaitSkip, AtSyscallStop
<1>16. CASE AwaitSignal
  BY <1>16, ResumeMoves DEF AwaitSignal
<1>17. CASE TraceeExited
  BY <1>17 DEF TraceeExited
<1>18. CASE Finish
  BY <1>18 DEF Finish
<1>19. CASE DropEarly
  BY <1>19 DEF DropEarly
<1>20. CASE KSignal
  BY <1>20 DEF KSignal
<1>21. CASE KTrap
  BY <1>21 DEF KTrap
<1>22. CASE KEnter
  BY <1>22, EnterFields DEF KEnter, TypeOK, MustRestart
<1>23. CASE KCall
  BY <1>23, LeaveFields, ResultsAssumption DEF KCall, TypeOK, Dispatch
<1>24. CASE KInterrupted
  BY <1>24 DEF KInterrupted
<1>25. CASE KRestart
  BY <1>25 DEF KRestart
<1>26. CASE KFork
  BY <1>26 DEF KFork
<1>27. CASE KForkFails
  BY <1>27, LeaveFields DEF KForkFails, TypeOK
<1>28. CASE KLeave
  BY <1>28, LeaveFields DEF KLeave, TypeOK
<1>29. CASE KFree
  BY <1>29 DEF KFree
<1>30. CASE KProgram
  BY <1>30 DEF KProgram
<1>31. CASE KKill
  BY <1>31 DEF KKill
<1>32. ASSUME NEW s \in Signals, KSend(s) PROVE HeldInv'
  BY <1>32 DEF KSend
<1>33. CASE UNCHANGED vars
  BY <1>33 DEF vars
<1> QED
  BY <1>1, <1>2, <1>3, <1>4, <1>5, <1>6, <1>7, <1>8, <1>9, <1>10, <1>11,
     <1>12, <1>13, <1>14, <1>15, <1>16, <1>17, <1>18, <1>19, <1>20, <1>21,
     <1>22, <1>23, <1>24, <1>25, <1>26, <1>27, <1>28, <1>29, <1>30, <1>31,
     <1>32, <1>33
  DEF Next, Seize, Inject, Await, GiveBack, KernelStep, Terminated

LEMMA RestoredAtExit ==
  ASSUME TypeOK, ~at_entry, saved = Blocked
  PROVE  Restored.ip = "insn" /\ Restored.num = "orig" /\ Restored.arg = "orig"
  BY DEF TypeOK, Regs, Restored, Blocked, restore_syscall_nr, setregs

LEMMA RestoredAtEntry ==
  ASSUME TypeOK, at_entry, saved = Blocked, raw_saved = Raw
  PROVE  Restored.sysno = "orig" /\ Restored.arg = "orig"
  BY RawFields DEF TypeOK, Regs, Restored, Blocked, restore_syscall_nr, setregs

(* A freed thread runs the displaced call, once.                           *)
LEMMA FreedStep ==
  ASSUME TypeOK, HeldInv, FreedInv, [Next]_vars
  PROVE  FreedInv'
<1> USE DEF FreedInv, Freed, Held, engine, control, signalHistory, callHistory, tracee
<1>1. CASE TryTid
  BY <1>1 DEF TryTid
<1>2. CASE SeizeCapture
  BY <1>2 DEF SeizeCapture
<1>3. CASE SeizeSkip
  BY <1>3 DEF SeizeSkip
<1>4. CASE SeizeSignal
  BY <1>4 DEF SeizeSignal
<1>5. CASE SeizeTimeout
  BY <1>5 DEF SeizeTimeout
<1>6. CASE SeizeGiveUp
  BY <1>6 DEF SeizeGiveUp
<1>7. CASE Abandon
  BY <1>7 DEF Abandon
<1>8. CASE SyscallAtEntry
  BY <1>8 DEF SyscallAtEntry, Launch, Awaited
<1>9. CASE SyscallAfterExit
  BY <1>9 DEF SyscallAfterExit, Rewind
<1>10. CASE ForkChild
  BY <1>10 DEF ForkChild, Rewind
<1>11. CASE RewindDone
  BY <1>11 DEF RewindDone, Launch, Awaited
<1>12. CASE SyscallReturns
  BY <1>12 DEF SyscallReturns
<1>13. CASE ForkEvent
  BY <1>13 DEF ForkEvent
<1>14. CASE ForkRefused
  BY <1>14 DEF ForkRefused
<1>15. CASE AwaitSkip
  BY <1>15 DEF AwaitSkip
<1>16. CASE AwaitSignal
  BY <1>16 DEF AwaitSignal
<1>17. CASE TraceeExited
  BY <1>17 DEF TraceeExited
<1>18. CASE Finish
  BY <1>18, RestoredAtExit, RestoredAtEntry DEF Finish, HeldInv, Detached,
     Alive, Stops, Runs
<1>19. CASE DropEarly
  BY <1>19, RestoredAtExit, RestoredAtEntry DEF DropEarly, HeldInv,
     Detached, Alive, Stops, Runs
<1>20. CASE KSignal
  BY <1>20 DEF KSignal
<1>21. CASE KTrap
  BY <1>21 DEF KTrap
<1>22. CASE KEnter
  BY <1>22 DEF KEnter
<1>23. CASE KCall
  BY <1>23 DEF KCall
<1>24. CASE KInterrupted
  BY <1>24 DEF KInterrupted
<1>25. CASE KRestart
  BY <1>25 DEF KRestart
<1>26. CASE KFork
  BY <1>26 DEF KFork
<1>27. CASE KForkFails
  BY <1>27 DEF KForkFails
<1>28. CASE KLeave
  BY <1>28 DEF KLeave
<1>29. CASE KFree
  <2> SUFFICES ASSUME Freed, ~derailed PROVE FreedInv'
    BY <1>29 DEF KFree
  <2>1. ~(at = "freeUser" /\ regs.ip # "insn")
    BY <1>29 DEF KFree
  <2>2. Dispatch("orig", "orig") /\ UNCHANGED strayed
    BY <1>29, <2>1 DEF KFree
  <2>3. origRuns = 0 /\ ~junk
    BY <1>29 DEF KFree
  <2>4. origRuns' = 1
    BY <2>2, <2>3 DEF Dispatch, Saturate
  <2>5. ~junk'
    BY <2>2, <2>3 DEF Dispatch
  <2> QED
    BY <1>29, <2>2, <2>4, <2>5 DEF KFree
<1>30. CASE KProgram
  BY <1>30 DEF KProgram
<1>31. CASE KKill
  BY <1>31 DEF KKill, Alive, Stops, Runs
<1>32. ASSUME NEW s \in Signals, KSend(s) PROVE FreedInv'
  BY <1>32 DEF KSend
<1>33. CASE UNCHANGED vars
  BY <1>33 DEF vars
<1> QED
  BY <1>1, <1>2, <1>3, <1>4, <1>5, <1>6, <1>7, <1>8, <1>9, <1>10, <1>11,
     <1>12, <1>13, <1>14, <1>15, <1>16, <1>17, <1>18, <1>19, <1>20, <1>21,
     <1>22, <1>23, <1>24, <1>25, <1>26, <1>27, <1>28, <1>29, <1>30, <1>31,
     <1>32, <1>33
  DEF Next, Seize, Inject, Await, GiveBack, KernelStep, Terminated

LEMMA FirstSignal ==
  ASSUME TypeOK, NEW s \in Signals, record_signal(s),
         pending_signal = IF noted = << >> THEN NoSig ELSE noted[1]
  PROVE  pending_signal' = IF noted' = << >> THEN NoSig ELSE noted'[1]
<1>1. CASE s \in Internal
  BY <1>1 DEF record_signal
<1>2. CASE s \notin Internal
  <2>1. noted' = Append(noted, s) /\ noted' # << >>
    BY <1>2 DEF record_signal, TypeOK
  <2>2. CASE noted = << >>
    BY <1>2, <2>1, <2>2 DEF record_signal
  <2>3. CASE noted # << >>
    <3>1. noted[1] \in Signals /\ noted'[1] = noted[1]
      BY <2>1, <2>3 DEF TypeOK
    <3> QED
      BY <1>2, <2>1, <2>3, <3>1, SignalsAssumption DEF record_signal
  <2> QED
    BY <2>2, <2>3
<1> QED
  BY <1>1, <1>2

(* The first signal noted is the one kept.                                 *)
LEMMA SignalStep ==
  ASSUME TypeOK, SignalInv, [Next]_vars
  PROVE  SignalInv'
<1> USE DEF SignalInv, engine, control, signalHistory, callHistory, tracee
<1>1. CASE TryTid
  BY <1>1 DEF TryTid
<1>2. CASE SeizeCapture
  BY <1>2 DEF SeizeCapture
<1>3. CASE SeizeSkip
  BY <1>3 DEF SeizeSkip
<1>4. CASE SeizeSignal
  <2>1. sig \in Signals
    BY <1>4 DEF SeizeSignal, TypeOK
  <2> QED
    BY <1>4, <2>1, FirstSignal DEF SeizeSignal
<1>5. CASE SeizeTimeout
  BY <1>5 DEF SeizeTimeout
<1>6. CASE SeizeGiveUp
  BY <1>6 DEF SeizeGiveUp
<1>7. CASE Abandon
  BY <1>7 DEF Abandon
<1>8. CASE SyscallAtEntry
  BY <1>8 DEF SyscallAtEntry, Begin, Launch, Awaited
<1>9. CASE SyscallAfterExit
  BY <1>9 DEF SyscallAfterExit, Begin, Rewind
<1>10. CASE ForkChild
  BY <1>10 DEF ForkChild, Begin, Rewind
<1>11. CASE RewindDone
  BY <1>11 DEF RewindDone, Launch, Awaited
<1>12. CASE SyscallReturns
  BY <1>12 DEF SyscallReturns
<1>13. CASE ForkEvent
  BY <1>13 DEF ForkEvent
<1>14. CASE ForkRefused
  BY <1>14 DEF ForkRefused
<1>15. CASE AwaitSkip
  BY <1>15 DEF AwaitSkip
<1>16. CASE AwaitSignal
  <2>1. sig \in Signals
    BY <1>16 DEF AwaitSignal, TypeOK
  <2> QED
    BY <1>16, <2>1, FirstSignal DEF AwaitSignal
<1>17. CASE TraceeExited
  BY <1>17 DEF TraceeExited
<1>18. CASE Finish
  BY <1>18 DEF Finish
<1>19. CASE DropEarly
  BY <1>19 DEF DropEarly
<1>20. CASE KSignal
  BY <1>20 DEF KSignal
<1>21. CASE KTrap
  BY <1>21 DEF KTrap
<1>22. CASE KEnter
  BY <1>22 DEF KEnter
<1>23. CASE KCall
  BY <1>23 DEF KCall
<1>24. CASE KInterrupted
  BY <1>24 DEF KInterrupted
<1>25. CASE KRestart
  BY <1>25 DEF KRestart
<1>26. CASE KFork
  BY <1>26 DEF KFork
<1>27. CASE KForkFails
  BY <1>27 DEF KForkFails
<1>28. CASE KLeave
  BY <1>28 DEF KLeave
<1>29. CASE KFree
  BY <1>29 DEF KFree
<1>30. CASE KProgram
  BY <1>30 DEF KProgram
<1>31. CASE KKill
  BY <1>31 DEF KKill
<1>32. ASSUME NEW s \in Signals, KSend(s) PROVE SignalInv'
  BY <1>32 DEF KSend
<1>33. CASE UNCHANGED vars
  BY <1>33 DEF vars
<1> QED
  BY <1>1, <1>2, <1>3, <1>4, <1>5, <1>6, <1>7, <1>8, <1>9, <1>10, <1>11,
     <1>12, <1>13, <1>14, <1>15, <1>16, <1>17, <1>18, <1>19, <1>20, <1>21,
     <1>22, <1>23, <1>24, <1>25, <1>26, <1>27, <1>28, <1>29, <1>30, <1>31,
     <1>32, <1>33
  DEF Next, Seize, Inject, Await, GiveBack, KernelStep, Terminated

-----------------------------------------------------------------------------
(* The theorems.                                                           *)

LEMMA InvInit == Init => StopInv /\ UncapturedInv /\ HeldInv /\ FreedInv /\ SignalInv
<1> SUFFICES ASSUME Init PROVE StopInv /\ UncapturedInv /\ HeldInv /\ FreedInv /\ SignalInv
  OBVIOUS
<1>1. pc = "seize" /\ at \in {"trap", "signal"} /\ noted = << >> /\ pending_signal = NoSig
  BY DEF Init
<1>2. (regs.ip = "insn" => regs.num = "orig" /\ regs.arg = "orig") /\ ~MustRestart(regs)
  BY DEF Init, Blocked, Busy, MustRestart
<1>3. UncapturedInv
  BY <1>1, <1>2 DEF UncapturedInv, Init
<1> QED
  BY <1>1, <1>3 DEF StopInv, HeldInv, Held, FreedInv, Freed, SignalInv

(* The inductive invariant holds in every reachable state, when syscall    *)
(* stops can be told apart (hijack.rs:69-320).                             *)
THEOREM InvariantHolds == ASSUME Distinguishable PROVE Spec => []IInv
<1>1. Init => IInv
  BY TypeInit, InvInit DEF IInv
<1>2. IInv /\ [Next]_vars => IInv'
  BY TypeStep, StopStep, UncapturedStep, HeldStep, FreedStep, SignalStep DEF IInv
<1> QED
  BY <1>1, <1>2, PTL DEF Spec

(* While the thread is borrowed it runs injected calls only                *)
(* (hijack.rs:5-9, 141-176).                                               *)
THEOREM BorrowedThreadIsQuiet ==
  ASSUME Distinguishable PROVE Spec => []OnlyInjectedCallsRun
<1>1. IInv => OnlyInjectedCallsRun
  BY DEF IInv, HeldInv, OnlyInjectedCallsRun
<1> QED
  BY <1>1, InvariantHolds, PTL

(* The displaced call runs exactly once after the thread is freed, on the  *)
(* finish path and on the Drop path (hijack.rs:254-268, 311-319).          *)
THEOREM DisplacedCallIsKept ==
  ASSUME Distinguishable PROVE Spec => []DisplacedCallRunsOnce
<1>1. IInv => DisplacedCallRunsOnce
  BY DEF IInv, FreedInv, Freed, DisplacedCallRunsOnce
<1> QED
  BY <1>1, InvariantHolds, PTL

(* The first signal noted is given back by finish, whether or not syscall  *)
(* stops can be told apart (hijack.rs:137-139, 300-308).                   *)
THEOREM FirstSignalIsKept == Spec => []FirstSignalGivenBack
<1>1. Init => TypeOK /\ SignalInv
  BY TypeInit, InvInit
<1>2. TypeOK /\ SignalInv /\ [Next]_vars => (TypeOK /\ SignalInv)'
  BY TypeStep, SignalStep
<1>3. SignalInv => FirstSignalGivenBack
  BY DEF SignalInv, FirstSignalGivenBack
<1> QED
  BY <1>1, <1>2, <1>3, PTL DEF Spec
-----------------------------------------------------------------------------
(* The engine implements the loan.                                         *)

(* No signal is given before the thread is let go, and an exit is noticed  *)
(* only of a dead thread.                                                  *)
GivenInv ==
  /\ handed # NoSig => pc \in {"released", "none"}
  /\ pc = "exited" => at = "dead"

LEMMA GivenStep ==
  ASSUME GivenInv, [Next]_vars
  PROVE  GivenInv'
<1> USE DEF GivenInv, engine, control, signalHistory, callHistory, tracee
<1>1. CASE TryTid
  BY <1>1 DEF TryTid, Alive, Stops, Runs
<1>2. CASE SeizeCapture
  BY <1>2 DEF SeizeCapture, AtSyscallStop
<1>3. CASE SeizeSkip
  BY <1>3 DEF SeizeSkip, AtSyscallStop
<1>4. CASE SeizeSignal
  BY <1>4 DEF SeizeSignal
<1>5. CASE SeizeTimeout
  BY <1>5 DEF SeizeTimeout
<1>6. CASE SeizeGiveUp
  BY <1>6 DEF SeizeGiveUp, Resumed
<1>7. CASE Abandon
  BY <1>7 DEF Abandon, Alive, Stops, Runs
<1>8. CASE SyscallAtEntry
  BY <1>8 DEF SyscallAtEntry, Begin, Launch, Awaited
<1>9. CASE SyscallAfterExit
  BY <1>9 DEF SyscallAfterExit, Begin, Rewind
<1>10. CASE ForkChild
  BY <1>10 DEF ForkChild, Begin, Rewind
<1>11. CASE RewindDone
  BY <1>11 DEF RewindDone, Launch, Awaited, AtSyscallStop
<1>12. CASE SyscallReturns
  BY <1>12 DEF SyscallReturns, AtSyscallStop
<1>13. CASE ForkEvent
  BY <1>13 DEF ForkEvent
<1>14. CASE ForkRefused
  BY <1>14 DEF ForkRefused
<1>15. CASE AwaitSkip
  BY <1>15 DEF AwaitSkip, AtSyscallStop
<1>16. CASE AwaitSignal
  BY <1>16 DEF AwaitSignal
<1>17. CASE TraceeExited
  BY <1>17 DEF TraceeExited
<1>18. CASE Finish
  BY <1>18 DEF Finish, Alive, Stops, Runs
<1>19. CASE DropEarly
  BY <1>19 DEF DropEarly, Alive, Stops, Runs
<1>20. CASE KSignal
  BY <1>20 DEF KSignal
<1>21. CASE KTrap
  BY <1>21 DEF KTrap
<1>22. CASE KEnter
  BY <1>22 DEF KEnter
<1>23. CASE KCall
  BY <1>23 DEF KCall
<1>24. CASE KInterrupted
  BY <1>24 DEF KInterrupted
<1>25. CASE KRestart
  BY <1>25 DEF KRestart
<1>26. CASE KFork
  BY <1>26 DEF KFork
<1>27. CASE KForkFails
  BY <1>27 DEF KForkFails
<1>28. CASE KLeave
  BY <1>28 DEF KLeave
<1>29. CASE KFree
  BY <1>29 DEF KFree
<1>30. CASE KProgram
  BY <1>30 DEF KProgram
<1>31. CASE KKill
  BY <1>31 DEF KKill, Alive, Stops, Runs
<1>32. ASSUME NEW s \in Signals, KSend(s) PROVE GivenInv'
  BY <1>32 DEF KSend
<1>33. CASE UNCHANGED vars
  BY <1>33 DEF vars
<1> QED
  BY <1>1, <1>2, <1>3, <1>4, <1>5, <1>6, <1>7, <1>8, <1>9, <1>10, <1>11,
     <1>12, <1>13, <1>14, <1>15, <1>16, <1>17, <1>18, <1>19, <1>20, <1>21,
     <1>22, <1>23, <1>24, <1>25, <1>26, <1>27, <1>28, <1>29, <1>30, <1>31,
     <1>32, <1>33
  DEF Next, Seize, Inject, Await, GiveBack, KernelStep, Terminated

(* Every stop, every request and every run of the kernel is a step of the  *)
(* loan, or none.                                                          *)
LEMMA LoanStep ==
  ASSUME Distinguishable, IInv, IInv', GivenInv, [Next]_vars
  PROVE  Abs!Next \/ UNCHANGED Abs!vars
<1> USE DEF IInv, StopInv, UncapturedInv, Uncaptured, HeldInv, FreedInv, Freed, GivenInv, Loan, Call,
            Ran, Held, Abs!vars, engine, control, signalHistory, callHistory, tracee
<1>1. CASE TryTid
  BY <1>1, ResumeMoves DEF TryTid, Alive, Stops, Runs
<1>2. CASE SeizeCapture
  BY <1>2, KindIsRight DEF SeizeCapture, AtSyscallStop, Abs!Lend, Abs!Next
<1>3. CASE SeizeSkip
  BY <1>3, ResumeMoves DEF SeizeSkip, AtSyscallStop
<1>4. CASE SeizeSignal
  BY <1>4, ResumeMoves DEF SeizeSignal, record_signal, TypeOK, Abs!Keep, Abs!Next
<1>5. CASE SeizeTimeout
  BY <1>5 DEF SeizeTimeout
<1>6. CASE SeizeGiveUp
  BY <1>6 DEF SeizeGiveUp, Resumed, Abs!Decline, Abs!Next
<1>7. CASE Abandon
  BY <1>7 DEF Abandon, Alive, Stops, Runs
<1>8. CASE SyscallAtEntry
  BY <1>8, ResumeMoves DEF SyscallAtEntry, Begin, Launch, Awaited, Abs!Ask, Abs!Next
<1>9. CASE SyscallAfterExit
  BY <1>9, ResumeMoves DEF SyscallAfterExit, Begin, Rewind, Abs!Ask, Abs!Next
<1>10. CASE ForkChild
  BY <1>10, ResumeMoves DEF ForkChild, Begin, Rewind, Abs!Ask, Abs!Next
<1>11. CASE RewindDone
  BY <1>11, KindIsRight, ResumeMoves DEF RewindDone, Launch, Awaited, AtSyscallStop
<1>12. CASE SyscallReturns
  BY <1>12, KindIsRight DEF SyscallReturns, AtSyscallStop, Abs!TakeAnswer, Abs!Next
<1>13. CASE ForkEvent
  BY <1>13 DEF ForkEvent, Abs!TakeAnswer, Abs!Next
<1>14. CASE ForkRefused
  BY <1>14 DEF ForkRefused, Abs!Break, Abs!Next
<1>15. CASE AwaitSkip
  BY <1>15, KindIsRight, ResumeMoves DEF AwaitSkip, AtSyscallStop
<1>16. CASE AwaitSignal
  BY <1>16, ResumeMoves DEF AwaitSignal, record_signal, TypeOK, Abs!Keep, Abs!Next
<1>17. CASE TraceeExited
  BY <1>17 DEF TraceeExited
<1>18. CASE Finish
  BY <1>18 DEF Finish, Alive, Stops, Runs, Abs!GiveBack, Abs!Next
<1>19. CASE DropEarly
  BY <1>19 DEF DropEarly, Alive, Stops, Runs, Abs!GiveBack, Abs!Next
<1>20. CASE KSignal
  BY <1>20 DEF KSignal
<1>21. CASE KTrap
  BY <1>21 DEF KTrap
<1>22. CASE KEnter
  BY <1>22 DEF KEnter
<1>23. CASE KCall
  BY <1>23 DEF KCall, Dispatch, Abs!Answer, Abs!Next
<1>24. CASE KInterrupted
  BY <1>24 DEF KInterrupted, Abs!Break, Abs!Next
<1>25. CASE KRestart
  BY <1>25 DEF KRestart
<1>26. CASE KFork
  BY <1>26 DEF KFork, Abs!Answer, Abs!Next
<1>27. CASE KForkFails
  BY <1>27 DEF KForkFails, Abs!Answer, Abs!Next
<1>28. CASE KLeave
  BY <1>28 DEF KLeave
<1>29. CASE KFree
  <2>1. at \in {"freeUser", "freeKernel"} /\ at' = "gone" /\ UNCHANGED <<pc, derailed>>
        /\ UNCHANGED <<pending_signal, handed>>
    BY <1>29 DEF KFree
  <2>2. pc \notin {"seize", "seizing", "interrupted", "none", "exited"}
    BY <2>1
  <2>3. CASE derailed
    BY <2>1, <2>3
  <2>4. CASE ~derailed
    <3>1. pc \in {"released", "dropped"}
      BY <2>1, <2>2, <2>4 DEF TypeOK, Pcs
    <3>2. /\ IF at = "freeUser" THEN regs.num = "orig" ELSE regs.sysno = "orig"
          /\ regs.arg = "orig" /\ (at = "freeUser" => regs.ip = "insn")
          /\ origRuns = 0 /\ ~junk /\ ~strayed
      BY <2>1, <2>4, <3>1
    <3>3. origRuns' = 1 /\ ~junk' /\ ~strayed'
      BY <2>1, <2>4, <3>1
    <3>4. Loan = "returned" /\ Loan' = "returned" /\ Call = "none" /\ Call' = "none"
          /\ Ran = "nothing" /\ Ran' = "displaced"
      BY <2>1, <2>4, <3>1, <3>2, <3>3
    <3>. QED BY <2>1, <3>4 DEF Abs!Continue, Abs!Next
  <2>. QED BY <2>3, <2>4
<1>30. CASE KProgram
  BY <1>30 DEF KProgram
<1>31. CASE KKill
  <2>1. at \in Stops \cup Runs /\ at' = "dead" /\ UNCHANGED <<pc, derailed, origRuns, junk, strayed>>
        /\ UNCHANGED <<pending_signal, handed>>
    BY <1>31 DEF KKill, Alive
  <2>2. CASE derailed
    BY <2>1, <2>2
  <2>3. CASE ~derailed
    <3>1. Uncaptured \/ Held
      BY <2>1, <2>3 DEF TypeOK, Pcs, Stops, Runs
    <3>2. Loan \in {"own", "lent", "left"} /\ Loan' = "dead" /\ Call' = "none"
      BY <2>1, <2>3, <3>1 DEF Stops, Runs
    <3>3. Ran = "nothing" /\ Ran' = "nothing"
      BY <2>1, <2>3, <3>1
    <3>. QED BY <2>1, <3>2, <3>3 DEF Abs!Die, Abs!Next
  <2>. QED BY <2>2, <2>3
<1>32. ASSUME NEW s \in Signals, KSend(s) PROVE Abs!Next \/ UNCHANGED Abs!vars
  BY <1>32 DEF KSend
<1>33. CASE UNCHANGED vars
  BY <1>33 DEF vars
<1> QED
  BY <1>1, <1>2, <1>3, <1>4, <1>5, <1>6, <1>7, <1>8, <1>9, <1>10, <1>11,
     <1>12, <1>13, <1>14, <1>15, <1>16, <1>17, <1>18, <1>19, <1>20, <1>21,
     <1>22, <1>23, <1>24, <1>25, <1>26, <1>27, <1>28, <1>29, <1>30, <1>31,
     <1>32, <1>33
  DEF Next, Seize, Inject, Await, GiveBack, KernelStep, Terminated

(* Call by call and signal by signal the engine implements the loan        *)
(* (hijack.rs:69-320).                                                     *)
THEOREM LoanIsKept == ASSUME Distinguishable PROVE Spec => LoanKept
<1>1. Init => Abs!Init /\ GivenInv
  BY DEF Init, Abs!Init, GivenInv, Loan, Call, Ran
<1>2. GivenInv /\ [Next]_vars => GivenInv'
  BY GivenStep
<1>3. IInv /\ IInv' /\ GivenInv /\ [Next]_vars => [Abs!Next]_(Abs!vars)
  BY LoanStep
<1> QED
  BY <1>1, <1>2, <1>3, InvariantHolds, PTL DEF Spec, LoanKept, Abs!Spec
=============================================================================
