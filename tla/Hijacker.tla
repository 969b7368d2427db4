------------------------------ MODULE Hijacker ------------------------------
(***************************************************************************)
(* The syscall-hijack engine (src/hijack.rs) on one thread of the target.  *)
(*                                                                         *)
(* The tracer drives the thread to a syscall-entry stop, keeps the         *)
(* displaced call in `saved` and borrows the thread for injected calls.    *)
(* A tracer action is what the code does between two waits: the tracee is  *)
(* stopped meanwhile.  What the thread does while it runs is up to the     *)
(* kernel actions: they take signals, traps and system calls in any order  *)
(* the kernel may, and the thread may be killed at any time.               *)
(***************************************************************************)
EXTENDS Arch, Naturals, Sequences

CONSTANTS
  Signals,    \* the signals somebody may send to the thread, each once
  Internal,   \* those the engine takes for its own: SIGTRAP and SIGSTOP
  NoSig,      \* no signal
  Results,    \* what an injected call can return: "res", perhaps "enosys"
  MaxCalls    \* bound: injected calls between seize and finish

ASSUME SignalsAssumption ==
  /\ Internal \subseteq Signals
  /\ NoSig \notin Signals
ASSUME ResultsAssumption ==
  /\ Results \subseteq {"res", "enosys"}
  /\ "res" \in Results
ASSUME MaxCallsAssumption == MaxCalls \in Nat

VARIABLES
  \* The thread, as the kernel has it.
  at,              \* where it is: a ptrace stop, or running
  regs,            \* its register file
  sig,             \* the signal of a signal-delivery stop
  queue,           \* signals pending
  trapPending,     \* a PTRACE_INTERRUPT not answered yet
  tracefork,       \* PTRACE_O_TRACEFORK is armed
  \* The Hijacker, and the tracer's control.
  pc,              \* what the tracer waits for
  op,              \* the operation in progress or last done
  saved,           \* the displaced call, fixed up
  raw_saved,       \* the same without the fixup
  at_entry,        \* the engine's belief: the thread is at an entry stop
  pending_signal,  \* the signal to re-deliver on detach
  calls,           \* operations started
  \* History, read by the properties only.
  sent,            \* signals sent so far
  noted,           \* signals given to record_signal, in order
  handed,          \* the signal given back to the thread
  derailed,        \* an injected call came back as the engine does not expect
  origRuns,        \* dispatches of the displaced call since the capture
  junk,            \* a call neither injected nor the displaced one ran
  strayed          \* the thread ran program code while it was borrowed

tracee  == <<at, regs, sig, queue, trapPending, tracefork>>
engine  == <<saved, raw_saved, at_entry, pending_signal>>
control == <<pc, op, calls>>
signalHistory == <<sent, noted, handed>>
callHistory   == <<derailed, origRuns, junk, strayed>>
vars == <<tracee, engine, control, signalHistory, callHistory>>

Stops == {"trap", "entry", "exit", "signal", "fork"}
Runs  == {"user", "kernel", "leaving"}
Ats   == Stops \cup Runs \cup {"dead", "freeUser", "freeKernel", "gone"}
Pcs   == {"seize", "seizing", "interrupted", "none", "ready", "rewind",
          "wait_exit", "wait_fork", "released", "dropped", "exited"}
Ops   == {"none", "syscall", "fork"}

\* The thread is borrowed: captured and not handed back.
Held == pc \in {"ready", "rewind", "wait_exit", "wait_fork"}

Alive == at \in Stops \cup Runs

-----------------------------------------------------------------------------
(* Initially the thread is in the stop that attach_all took for the answer *)
(* to its PTRACE_INTERRUPT: the trap itself, with the thread either about  *)
(* to restart a blocked call or busy in program code, or the delivery stop *)
(* of a signal that came first, with the trap still to come.               *)
Blocked == [ip |-> "insn", num |-> "orig", sysno |-> "orig", arg |-> "orig"]
Busy    == [ip |-> "away", num |-> "other", sysno |-> "other", arg |-> "other"]

Init ==
  /\ regs \in {Blocked, Busy}
  /\ \/ at = "trap"   /\ sig = NoSig      /\ trapPending = FALSE
     \/ at = "signal" /\ sig \in Signals  /\ trapPending = TRUE
  /\ queue = {} /\ tracefork = FALSE
  /\ pc = "seize" /\ op = "none" /\ calls = 0
  /\ saved = regs /\ raw_saved = regs
  /\ at_entry = FALSE /\ pending_signal = NoSig
  /\ sent = {sig} \ {NoSig} /\ noted = << >>
  /\ handed = NoSig
  /\ derailed = FALSE /\ origRuns = 0 /\ junk = FALSE /\ strayed = FALSE

-----------------------------------------------------------------------------
(* ptrace::resume_syscall: run to the next stop.                           *)
Resumed(p) == CASE p = "entry" -> "kernel"
                [] p = "fork"  -> "leaving"
                [] p = "dead"  -> "dead"
                [] OTHER       -> "user"

\* Resume without delivering anything.
Resume ==
  /\ at' = Resumed(at)
  /\ sig' = NoSig

\* Mutant: the last signal is kept.
record_signal_last(s) ==
  IF s \in Internal
  THEN UNCHANGED <<pending_signal, noted>>
  ELSE pending_signal' = s /\ noted' = Append(noted, s)

\* Only the first signal is kept, and none that looks like ptrace's own.
record_signal(s) ==
  IF s \in Internal
  THEN UNCHANGED <<pending_signal, noted>>
  ELSE /\ pending_signal' = IF pending_signal = NoSig THEN s ELSE pending_signal
       /\ noted' = Append(noted, s)

Kind == syscall_stop_kind(at, regs)
AtSyscallStop == at \in {"entry", "exit"}

-----------------------------------------------------------------------------
(* Hijacker::try_tid.                                                      *)

TryTid ==
  /\ pc = "seize" /\ Alive
  /\ Resume
  /\ pc' = "seizing"
  /\ UNCHANGED <<regs, queue, trapPending, tracefork, engine, op, calls,
                 sent, noted, handed, callHistory>>

\* A syscall stop taken for an entry: save the call, the thread is ours.
SeizeCapture ==
  /\ pc = "seizing" /\ AtSyscallStop /\ Kind = "entry"
  /\ raw_saved' = regs
  /\ saved' = save_fixup(regs)
  /\ at_entry' = TRUE
  /\ pc' = "ready"
  /\ UNCHANGED <<tracee, pending_signal, op, calls, signalHistory, callHistory>>

\* An exit stop or a ptrace event: let it run on.
SeizeSkip ==
  /\ pc = "seizing"
  /\ at \in {"trap", "fork"} \/ (AtSyscallStop /\ Kind # "entry")
  /\ Resume
  /\ UNCHANGED <<regs, queue, trapPending, tracefork, engine, control,
                 sent, noted, handed, callHistory>>

SeizeSignal ==
  /\ pc = "seizing" /\ at = "signal"
  /\ record_signal(sig)
  /\ Resume
  /\ UNCHANGED <<regs, queue, trapPending, tracefork, saved, raw_saved,
                 at_entry, control, sent, handed, callHistory>>

\* Mutant: waits for a stop nobody asked for.
SeizeTimeout_noInterrupt ==
  /\ pc = "seizing" /\ Alive
  /\ pc' = "interrupted"
  /\ UNCHANGED <<tracee, engine, op, calls, signalHistory, callHistory>>

\* The deadline passed: interrupt the thread, whatever it is doing now.
SeizeTimeout ==
  /\ pc = "seizing" /\ Alive
  /\ trapPending' = TRUE
  /\ pc' = "interrupted"
  /\ UNCHANGED <<at, regs, sig, queue, tracefork, engine, op, calls,
                 signalHistory, callHistory>>

(* The wait takes whichever stop comes, and the thread is resumed with the *)
(* swallowed signal.  The kernel delivers it in place of a stopping        *)
(* signal, queues it at a syscall stop, and ignores it at an event stop.   *)
SeizeGiveUp ==
  /\ pc = "interrupted" /\ at \in Stops \cup {"dead"}
  /\ at' = Resumed(at) /\ sig' = NoSig
  /\ handed' = IF at \in {"signal", "entry", "exit"} THEN pending_signal ELSE NoSig
  /\ queue' = IF AtSyscallStop THEN queue \cup ({pending_signal} \ {NoSig}) ELSE queue
  /\ pc' = "none"
  /\ UNCHANGED <<regs, trapPending, tracefork, engine, op, calls, sent, noted,
                 callHistory>>

\* No other thread to try: the tracer exits and the kernel lets go.
Abandon ==
  /\ pc = "none" /\ Alive
  /\ at' = "gone"
  /\ UNCHANGED <<regs, sig, queue, trapPending, tracefork, engine, control,
                 signalHistory, callHistory>>

-----------------------------------------------------------------------------
(* Injected calls: Hijacker::syscall and Hijacker::fork_child.             *)

Loaded(o, r) ==
  set_syscall_args(set_syscall_nr(r, IF o = "fork" THEN "clone" ELSE "inj"), "inj")

Awaited(o) == IF o = "fork" THEN "wait_fork" ELSE "wait_exit"

\* Load the call at the entry stop and let the kernel run it.
Launch(o) ==
  /\ regs' = Loaded(o, regs)
  /\ pc' = Awaited(o)

\* Mutant: the instruction pointer stays behind the syscall instruction.
Rewind_omitted == regs' = regs /\ pc' = "rewind"

\* ensure_entry when the thread is not at an entry stop.
Rewind ==
  /\ regs' = setregs(regs, restore_ip(regs, saved))
  /\ pc' = "rewind"

Begin(o) ==
  /\ pc = "ready" /\ Alive
  /\ calls < MaxCalls
  /\ calls' = calls + 1
  /\ op' = o
  /\ Resume
  /\ UNCHANGED <<queue, trapPending, engine, sent, noted, handed, callHistory>>

SyscallAtEntry ==
  /\ at_entry
  /\ Begin("syscall")
  /\ Launch("syscall")
  /\ UNCHANGED tracefork

SyscallAfterExit ==
  /\ ~at_entry
  /\ Begin("syscall")
  /\ Rewind
  /\ UNCHANGED tracefork

\* Only after the scratch page is mapped, and once; not after an error.
ForkChild ==
  /\ ~at_entry
  /\ op = "syscall" /\ ~derailed
  /\ Begin("fork")
  /\ Rewind
  /\ tracefork' = TRUE

\* Mutant: any syscall stop is taken for the fresh entry.
RewindDone_anyStop ==
  /\ pc = "rewind" /\ AtSyscallStop
  /\ at_entry' = TRUE
  /\ Launch(op)
  /\ Resume
  /\ UNCHANGED <<queue, trapPending, tracefork, saved, raw_saved,
                 pending_signal, op, calls, sent, noted, handed, callHistory>>

\* The fresh entry stop: its call is overwritten before it is dispatched.
RewindDone ==
  /\ pc = "rewind" /\ AtSyscallStop /\ Kind \in {"entry", "unknown"}
  /\ at_entry' = TRUE
  /\ Launch(op)
  /\ Resume
  /\ UNCHANGED <<queue, trapPending, tracefork, saved, raw_saved,
                 pending_signal, op, calls, sent, noted, handed, callHistory>>

SyscallReturns ==
  /\ pc = "wait_exit" /\ AtSyscallStop /\ Kind \in {"exit", "unknown"}
  /\ at_entry' = FALSE
  /\ pc' = "ready"
  /\ UNCHANGED <<tracee, saved, raw_saved, pending_signal, op, calls,
                 signalHistory, callHistory>>

\* PTRACE_EVENT_FORK stands in for the exit stop of the clone.
ForkEvent ==
  /\ pc = "wait_fork" /\ at = "fork"
  /\ tracefork' = FALSE
  /\ at_entry' = FALSE
  /\ pc' = "ready"
  /\ UNCHANGED <<at, regs, sig, queue, trapPending, saved, raw_saved,
                 pending_signal, op, calls, signalHistory, callHistory>>

(* Any other stop is an error for fork_child: it returns with at_entry and *)
(* the ptrace options as they are, and the caller cleans up.               *)
ForkRefused ==
  /\ pc = "wait_fork" /\ at \in {"entry", "exit", "trap"}
  /\ derailed' = TRUE
  /\ pc' = "ready"
  /\ UNCHANGED <<tracee, engine, op, calls, signalHistory, origRuns, junk, strayed>>

\* Mutant: a syscall stop of the other kind is not resumed.
AwaitSkip_eventsOnly ==
  /\ pc \in {"rewind", "wait_exit"} /\ at \in {"trap", "fork"}
  /\ Resume
  /\ UNCHANGED <<regs, queue, trapPending, tracefork, engine, control,
                 sent, noted, handed, callHistory>>

\* resume_and_expect: a stop that is not the one awaited.
AwaitSkip ==
  /\ \/ pc \in {"rewind", "wait_exit"} /\ at \in {"trap", "fork"}
     \/ pc = "rewind" /\ AtSyscallStop /\ Kind = "exit"
     \/ pc = "wait_exit" /\ AtSyscallStop /\ Kind = "entry"
  /\ Resume
  /\ UNCHANGED <<regs, queue, trapPending, tracefork, engine, control,
                 sent, noted, handed, callHistory>>

AwaitSignal ==
  /\ pc \in {"rewind", "wait_exit", "wait_fork"} /\ at = "signal"
  /\ record_signal(sig)
  /\ Resume
  /\ UNCHANGED <<regs, queue, trapPending, tracefork, saved, raw_saved,
                 at_entry, control, sent, handed, callHistory>>

\* Stop::Exited at a wait, or ESRCH from the next request.
TraceeExited ==
  /\ at = "dead" /\ pc \notin {"interrupted", "exited", "released", "dropped", "none"}
  /\ pc' = "exited"
  /\ UNCHANGED <<tracee, engine, op, calls, signalHistory, callHistory>>

-----------------------------------------------------------------------------
(* Giving the thread back.                                                 *)

\* Mutants: the state without the fixup; the instruction pointer only.
Restored_raw == setregs(regs, raw_saved)
Restored_ipOnly == setregs(regs, restore_ip(regs, saved))

(* The state that finish, and then Drop, leave behind.                     *)
Restored ==
  LET state == IF at_entry THEN raw_saved ELSE saved
  IN  restore_syscall_nr(setregs(regs, state), saved.sysno)

\* PTRACE_DETACH of a stopped thread.
Detached(p) == IF p = "entry" THEN "freeKernel" ELSE "freeUser"

(* take_signal, finish (whose self is dropped), then detach_all with the   *)
(* signal: the order of main.rs and steal.rs.  The operation before it is  *)
(* always munmap_scratch.                                                  *)
Finish ==
  /\ pc = "ready" /\ Alive /\ op = "syscall"
  /\ regs' = Restored
  /\ at' = Detached(at)
  /\ handed' = pending_signal
  /\ pending_signal' = NoSig
  /\ pc' = "released"
  /\ UNCHANGED <<sig, queue, trapPending, tracefork, saved, raw_saved, at_entry,
                 op, calls, sent, noted, callHistory>>

(* steal.rs returns early when the remote mmap fails: only Drop runs, and  *)
(* the session detaches with no signal.                                    *)
DropEarly ==
  /\ pc = "ready" /\ Alive /\ op = "syscall" /\ calls = 1
  /\ regs' = Restored
  /\ at' = Detached(at)
  /\ pc' = "dropped"
  /\ UNCHANGED <<sig, queue, trapPending, tracefork, engine, op, calls,
                 signalHistory, callHistory>>

-----------------------------------------------------------------------------
(* The kernel and the thread (external).                                   *)

Saturate(n) == IF n < 2 THEN n + 1 ELSE n

\* What history keeps of the dispatch of call nr with argument a.
Dispatch(nr, a) ==
  /\ origRuns' = IF <<nr, a>> = <<"orig", "orig">> THEN Saturate(origRuns) ELSE origRuns
  /\ junk' = (junk \/ <<nr, a>> \notin {<<"orig", "orig">>, <<"inj", "inj">>,
                                        <<"clone", "inj">>})

KSend(s) ==
  /\ Alive /\ s \notin sent
  /\ sent' = sent \cup {s}
  /\ queue' = queue \cup {s}
  /\ UNCHANGED <<at, regs, sig, trapPending, tracefork, engine, control, noted,
                 handed, callHistory>>

KSignal ==
  /\ at = "user"
  /\ \E s \in queue : sig' = s /\ queue' = queue \ {s}
  /\ at' = "signal"
  /\ UNCHANGED <<regs, trapPending, tracefork, engine, control, signalHistory,
                 callHistory>>

KTrap ==
  /\ at = "user" /\ trapPending
  /\ at' = "trap" /\ trapPending' = FALSE
  /\ UNCHANGED <<regs, sig, queue, tracefork, engine, control, signalHistory,
                 callHistory>>

KEnter ==
  /\ at = "user" /\ regs.ip = "insn" /\ ~MustRestart(regs)
  /\ at' = "entry"
  /\ regs' = EnterKernel(regs)
  /\ UNCHANGED <<sig, queue, trapPending, tracefork, engine, control,
                 signalHistory, callHistory>>

\* Program code runs up to its next call.
KProgram ==
  /\ at = "user" /\ regs.ip # "insn" /\ ~MustRestart(regs)
  /\ regs' = LET v == IF Held THEN "other" ELSE "orig"
             IN  [regs EXCEPT !.ip = "insn", !.num = v, !.arg = v]
  /\ strayed' = (strayed \/ Held)
  /\ UNCHANGED <<at, sig, queue, trapPending, tracefork, engine, control,
                 signalHistory, derailed, origRuns, junk>>

\* The kernel runs the call and stops the thread on its way out.
KCall ==
  /\ at = "kernel" /\ regs.sysno # "clone"
  /\ at' = "exit"
  /\ \E r \in Results : regs' = LeaveKernel(regs, r)
  /\ IF Held THEN Dispatch(regs.sysno, regs.arg) ELSE UNCHANGED <<origRuns, junk>>
  /\ UNCHANGED <<sig, queue, trapPending, tracefork, engine, control,
                 signalHistory, derailed, strayed>>

\* A signal cuts the call short.  The first injected call is mmap, which
\* no signal interrupts; openat, connect and sendmsg can be.
KInterrupted ==
  /\ at = "kernel" /\ (queue # {} \/ trapPending)
  /\ Held => calls > 1
  /\ at' = "exit"
  /\ regs' = LeaveKernel(regs, "restart")
  /\ derailed' = (derailed \/ Held)
  /\ UNCHANGED <<sig, queue, trapPending, tracefork, engine, control,
                 signalHistory, origRuns, junk, strayed>>

KRestart ==
  /\ at = "user" /\ MustRestart(regs)
  /\ regs' = RestartCall(regs)
  /\ UNCHANGED <<at, sig, queue, trapPending, tracefork, engine, control,
                 signalHistory, callHistory>>

KFork ==
  /\ at = "kernel" /\ regs.sysno = "clone" /\ tracefork
  /\ at' = "fork"
  /\ UNCHANGED <<regs, sig, queue, trapPending, tracefork, engine, control,
                 signalHistory, callHistory>>

\* EAGAIN, or a seccomp filter.
KForkFails ==
  /\ at = "kernel" /\ regs.sysno = "clone"
  /\ at' = "exit"
  /\ regs' = LeaveKernel(regs, "res")
  /\ UNCHANGED <<sig, queue, trapPending, tracefork, engine, control,
                 signalHistory, callHistory>>

\* From the fork event to the exit stop of the clone.
KLeave ==
  /\ at = "leaving"
  /\ at' = "exit"
  /\ regs' = LeaveKernel(regs, "res")
  /\ UNCHANGED <<sig, queue, trapPending, tracefork, engine, control,
                 signalHistory, callHistory>>

\* The first thing the thread does once it is free.
KFree ==
  /\ at \in {"freeUser", "freeKernel"}
  /\ at' = "gone"
  /\ IF at = "freeUser" /\ regs.ip # "insn"
     THEN /\ strayed' = TRUE
          /\ UNCHANGED <<origRuns, junk>>
     ELSE /\ Dispatch(IF at = "freeUser" THEN regs.num ELSE regs.sysno, regs.arg)
          /\ UNCHANGED strayed
  /\ UNCHANGED <<regs, sig, queue, trapPending, tracefork, engine, control,
                 signalHistory, derailed>>

KKill ==
  /\ Alive
  /\ at' = "dead"
  /\ UNCHANGED <<regs, sig, queue, trapPending, tracefork, engine, control,
                 signalHistory, callHistory>>

-----------------------------------------------------------------------------
Seize == TryTid \/ SeizeCapture \/ SeizeSkip \/ SeizeSignal \/ SeizeTimeout
           \/ SeizeGiveUp \/ Abandon

Inject == SyscallAtEntry \/ SyscallAfterExit \/ ForkChild

Await == RewindDone \/ SyscallReturns \/ ForkEvent \/ ForkRefused
           \/ AwaitSkip \/ AwaitSignal \/ TraceeExited

GiveBack == Finish \/ DropEarly

KernelStep == KSignal \/ KTrap \/ KEnter \/ KCall \/ KInterrupted \/ KRestart
                \/ KFork \/ KForkFails \/ KLeave \/ KFree

Terminated ==
  /\ at \in {"dead", "gone"} /\ pc \in {"exited", "released", "dropped", "none"}
  /\ UNCHANGED vars

Next ==
  \/ Seize \/ Inject \/ Await \/ GiveBack
  \/ KernelStep \/ KProgram \/ KKill \/ \E s \in Signals : KSend(s)
  \/ Terminated

Spec == Init /\ [][Next]_vars

(* The tracer is a process that keeps running, and a system call of the    *)
(* engine's choice does not block: only the program may compute forever.   *)
Fairness ==
  /\ WF_vars(Seize) /\ WF_vars(SeizeTimeout)
  /\ WF_vars(Await)
  /\ WF_vars(KernelStep)

FairSpec == Spec /\ Fairness

-----------------------------------------------------------------------------
(* Properties.                                                             *)

TypeOK ==
  /\ at \in Ats
  /\ regs \in Regs
  /\ sig \in Signals \cup {NoSig} /\ (at = "signal" => sig \in Signals)
  /\ queue \in SUBSET Signals
  /\ trapPending \in BOOLEAN /\ tracefork \in BOOLEAN
  /\ pc \in Pcs /\ op \in Ops /\ calls \in 0 .. MaxCalls
  /\ saved \in Regs /\ raw_saved \in Regs
  /\ at_entry \in BOOLEAN
  /\ pending_signal \in Signals \cup {NoSig}
  /\ sent \in SUBSET Signals /\ noted \in Seq(Signals)
  /\ handed \in Signals \cup {NoSig}
  /\ derailed \in BOOLEAN /\ origRuns \in 0 .. 2
  /\ junk \in BOOLEAN /\ strayed \in BOOLEAN

(* While the thread is borrowed it runs injected calls only: neither the   *)
(* displaced call, nor the re-entry with a stale number that ensure_entry  *)
(* provokes, nor a single instruction of the program.  (hijack.rs:5-9)     *)
OnlyInjectedCallsRun ==
  Held /\ ~derailed => origRuns = 0 /\ ~junk /\ ~strayed

(* Once the thread is free again it has run the displaced call, with its   *)
(* own number and arguments, exactly once, on the finish path and on the   *)
(* Drop path, on both architectures.  (hijack.rs:254-268, 311-319)         *)
DisplacedCallRunsOnce ==
  pc \in {"released", "dropped"} /\ at = "gone" /\ ~derailed
    => origRuns = 1 /\ ~junk /\ ~strayed

(* A signal the engine noted is given back on the finish path, and it is   *)
(* the first one.  (hijack.rs:137-139, 300-308; main.rs:112-114)           *)
FirstSignalGivenBack ==
  pc = "released" /\ noted # << >> => handed = noted[1]

(* Every wait of an injected call ends, in control or with the thread      *)
(* dead, unless the clone failed.  (hijack.rs:270-298)                     *)
EveryCallReturns ==
  pc \in {"rewind", "wait_exit", "wait_fork"} /\ ~derailed
    ~> pc \in {"ready", "exited"}

(* try_tid returns: with the thread, without it after the deadline, or     *)
(* with an error.  (hijack.rs:69-120)                                      *)
SeizeEnds == pc = "seize" ~> pc \in {"ready", "none", "exited"}

-----------------------------------------------------------------------------
(* The loan as it looks from outside.                                      *)

Loan ==
  IF derailed THEN "broken"
  ELSE IF at = "dead" THEN "dead"
  ELSE IF pc = "none" THEN "left"
  ELSE IF pc \in {"seize", "seizing", "interrupted"} THEN "own"
  ELSE IF Held THEN "lent" ELSE "returned"

\* An injected call has been answered when the kernel is done with it.
Call ==
  IF Loan # "lent" \/ pc = "ready" THEN "none"
  ELSE IF pc = "rewind" \/ at = "kernel" THEN "asked"
  ELSE IF at \in {"exit", "fork"} THEN "answered" ELSE "astray"

Ran ==
  IF derailed \/ (origRuns = 0 /\ ~junk /\ ~strayed) THEN "nothing"
  ELSE IF origRuns = 1 /\ ~junk /\ ~strayed THEN "displaced" ELSE "else"

Abs == INSTANCE Loan WITH
  Signals <- Signals \ Internal, loan <- Loan, call <- Call, ran <- Ran,
  keeps <- pending_signal, given <- handed

(* Stop by stop the engine implements the loan: each call it is asked for  *)
(* runs once before its result is taken, whatever signals, rewinds and     *)
(* other stops come in between, and nothing else runs until the thread has *)
(* been given back.  (hijack.rs:69-320)                                    *)
LoanKept == Abs!Spec

-----------------------------------------------------------------------------
(* What the documentation says, and the code does not do.                  *)

(* hijack.rs:6-9: "After each injected syscall only the instruction        *)
(* pointer is rewound, so the next resume re-enters at the same syscall    *)
(* instruction; that re-entry is immediately overwritten by the next       *)
(* injection and never dispatches."  So a borrowed thread executes nothing *)
(* of the program and dispatches no call but injected ones.                *)
ReentersAtOnce == Held => ~strayed /\ ~junk
=============================================================================
