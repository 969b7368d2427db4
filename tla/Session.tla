------------------------------ MODULE Session -------------------------------
(***************************************************************************)
(* ptrace::Session and the thread loop of Hijacker::seize: every thread of *)
(* the target is seized, interrupted and waited for; one of them is        *)
(* borrowed; all are detached.  The threads go on living meanwhile: they   *)
(* start new threads, enter system calls, block, get signals and exit.     *)
(*                                                                         *)
(* Registers are the business of module Hijacker; here a borrowed thread   *)
(* only alternates between a syscall stop and running an injected call.    *)
(***************************************************************************)
EXTENDS Naturals, FiniteSets

CONSTANTS
  Threads,     \* thread ids; each may come into being once
  Main,        \* the thread whose id is the pid
  Signalled,   \* the threads somebody sends a signal to, each once
  NoThread,    \* no thread; as a signal, no signal
  MaxCalls     \* bound: injected calls

ASSUME ThreadsAssumption ==
  /\ Main \in Threads /\ Signalled \subseteq Threads
  /\ NoThread \notin Threads
ASSUME MaxCallsAssumption == MaxCalls \in Nat

VARIABLES
  \* The threads, as the kernel has them.
  at,            \* where each is
  traced,        \* the tracees of reptyr
  tracing,       \* those resumed with PTRACE_SYSCALL: they stop at syscalls
  trapPending,   \* those with a PTRACE_INTERRUPT to answer
  pending,       \* those with their own signal pending
  got,           \* the signals delivered to each, named for their addressee
  \* The tracer.
  pc,
  todo,          \* threads the loop in progress has not handled
  attached,      \* Session::attached
  cur,           \* the thread being tried, then the borrowed one
  kept,          \* its swallowed signal
  calls,         \* injected calls so far
  failed,        \* an error is on its way up
  \* History, read by the properties only.
  gaveUp,        \* threads whose try ended with the deadline
  unsent         \* threads that have not been sent their signal

kernel == <<at, traced, tracing, trapPending, pending, got, unsent>>
tracer == <<pc, todo, attached, cur, kept, calls, failed, gaveUp>>
vars   == <<kernel, tracer>>

Stops == {"trap", "signal", "syscall"}
Live  == Stops \cup {"run", "blocked"}
Pcs   == {"list", "seize", "interrupt", "ack", "options", "try", "wait",
          "giveup", "inject", "injecting", "detach", "proxy", "exit", "gone"}

alive == {t \in Threads : at[t] \in Live}

\* waitpid reports a thread leader only when all other threads have been
\* reaped: an untraced one by the kernel, a tracee by its tracer.
Reapable(t) ==
  at[t] = "dead" /\ (t = Main => \A u \in Threads \ {Main} : at[u] \in {"unborn", "gone"})

Init ==
  /\ \E born \in SUBSET Threads :
       /\ Main \in born
       /\ at \in [Threads -> {"unborn", "run", "blocked"}]
       /\ \A t \in Threads : at[t] = "unborn" <=> t \notin born
  /\ traced = {} /\ tracing = {} /\ trapPending = {} /\ pending = {}
  /\ got = [t \in Threads |-> {}]
  /\ pc = "list" /\ todo = {} /\ attached = {}
  /\ cur = NoThread /\ kept = NoThread /\ calls = 0 /\ failed = FALSE
  /\ gaveUp = {} /\ unsent = Signalled

-----------------------------------------------------------------------------
(* Helpers.                                                                *)

\* The order of attach_all: the main thread first.
Turn(t) == t \in todo /\ (Main \in todo => t = Main)

\* Mutant: resumes every thread of the session.
Resume_all(t) ==
  /\ at' = [u \in Threads |-> IF u \in attached /\ at[u] \in Stops THEN "run" ELSE at[u]]
  /\ tracing' = tracing \cup {t}

\* PTRACE_SYSCALL without a signal.
Resume(t) == at' = [at EXCEPT ![t] = "run"] /\ tracing' = tracing \cup {t}

\* Mutant: signal 0 counts as a signal.
Delivers_zero(t, s) == at[t] \in {"signal", "syscall"}

\* PTRACE_SYSCALL or PTRACE_DETACH with a signal, which counts only at a
\* stop that can deliver it.
Delivers(t, s) == at[t] \in {"signal", "syscall"} /\ s # NoThread

Deliver(t, s) ==
  got' = IF Delivers(t, s) THEN [got EXCEPT ![t] = @ \cup {s}] ELSE got

\* An error: the guard of attach_all, or Drop, detaches with no signal.
Fail ==
  /\ failed' = TRUE /\ kept' = NoThread
  /\ pc' = "detach" /\ todo' = attached

Move(next, work) == pc' = next /\ todo' = work

-----------------------------------------------------------------------------
(* Session::attach_all.                                                    *)

\* One reading of /proc/<pid>/task.
List ==
  /\ pc = "list"
  /\ IF alive = {} THEN Move("exit", {}) ELSE Move("seize", alive \cup {Main})
  /\ UNCHANGED <<kernel, attached, cur, kept, calls, failed, gaveUp>>

SeizeThread(t) ==
  /\ pc = "seize" /\ Turn(t) /\ at[t] \in Live
  /\ traced' = traced \cup {t}
  /\ attached' = attached \cup {t}
  /\ todo' = todo \ {t}
  /\ UNCHANGED <<at, tracing, trapPending, pending, got, unsent, pc, cur, kept,
                 calls, failed, gaveUp>>

\* A thread that is gone is skipped, unless it is the main one.
SeizeVanished(t) ==
  /\ pc = "seize" /\ Turn(t) /\ at[t] \notin Live
  /\ IF t = Main THEN Fail
     ELSE todo' = todo \ {t} /\ UNCHANGED <<pc, kept, failed>>
  /\ UNCHANGED <<kernel, attached, cur, calls, gaveUp>>

SeizeDone ==
  /\ pc = "seize" /\ todo = {}
  /\ Move("interrupt", attached)
  /\ UNCHANGED <<kernel, attached, cur, kept, calls, failed, gaveUp>>

InterruptThread(t) ==
  /\ pc = "interrupt" /\ Turn(t)
  /\ trapPending' = trapPending \cup ({t} \cap alive)
  /\ IF todo = {t} THEN Move("ack", attached) ELSE Move("interrupt", todo \ {t})
  /\ UNCHANGED <<at, traced, tracing, pending, got, unsent, attached, cur, kept,
                 calls, failed, gaveUp>>

\* Whatever stop comes first is taken for the answer.
AckStop(t) ==
  /\ pc = "ack" /\ Turn(t) /\ at[t] \in Stops
  /\ todo' = todo \ {t}
  /\ UNCHANGED <<kernel, pc, attached, cur, kept, calls, failed, gaveUp>>

AckExited(t) ==
  /\ pc = "ack" /\ Turn(t) /\ Reapable(t)
  /\ at' = [at EXCEPT ![t] = "gone"] /\ traced' = traced \ {t}
  /\ attached' = attached \ {t}
  /\ todo' = todo \ {t}
  /\ UNCHANGED <<tracing, trapPending, pending, got, unsent, pc, cur, kept,
                 calls, failed, gaveUp>>

\* INTERRUPT_TIMEOUT: only a thread that cannot answer takes that long.
AckTimeout(t) ==
  /\ pc = "ack" /\ Turn(t)
  /\ at[t] = "blocked" \/ (at[t] = "dead" /\ ~Reapable(t))
  /\ Fail
  /\ UNCHANGED <<kernel, attached, cur, calls, gaveUp>>

AckDone ==
  /\ pc = "ack" /\ todo = {}
  /\ IF attached = {} THEN Fail
     ELSE Move("options", attached) /\ UNCHANGED <<kept, failed>>
  /\ UNCHANGED <<kernel, attached, cur, calls, gaveUp>>

\* SETOPTIONS on every stopped tracee; ESRCH when one was killed.
Options(t) ==
  /\ pc = "options" /\ Turn(t)
  /\ IF at[t] \notin Stops THEN Fail
     ELSE /\ IF todo = {t} THEN Move("try", attached)
                           ELSE Move("options", todo \ {t})
          /\ UNCHANGED <<kept, failed>>
  /\ UNCHANGED <<kernel, attached, cur, calls, gaveUp>>

-----------------------------------------------------------------------------
(* Hijacker::seize and try_tid.                                            *)

\* Mutant: the signal swallowed from the thread tried before is not dropped.
Try_keepsSignal(t) ==
  /\ pc = "try" /\ Turn(t)
  /\ IF at[t] \in Stops
     THEN /\ Resume(t)
          /\ cur' = t /\ kept' = kept
          /\ Move("wait", todo \ {t})
          /\ UNCHANGED failed
     ELSE Fail /\ UNCHANGED <<at, tracing, cur>>
  /\ UNCHANGED <<traced, trapPending, pending, got, unsent, attached, calls, gaveUp>>

Try(t) ==
  /\ pc = "try" /\ Turn(t)
  /\ IF at[t] \in Stops
     THEN /\ Resume(t)
          /\ cur' = t /\ kept' = NoThread
          /\ Move("wait", todo \ {t})
          /\ UNCHANGED failed
     ELSE Fail /\ UNCHANGED <<at, tracing, cur>>
  /\ UNCHANGED <<traced, trapPending, pending, got, unsent, attached, calls, gaveUp>>

\* A signal is swallowed, the first one kept.
TakeSignal(from) ==
  /\ pc = from /\ at[cur] = "signal"
  /\ kept' = IF kept = NoThread THEN cur ELSE kept
  /\ Resume(cur)
  /\ UNCHANGED <<traced, trapPending, pending, got, unsent, pc, todo, attached,
                 cur, calls, failed, gaveUp>>

TakeTrap(from) ==
  /\ pc = from /\ at[cur] = "trap"
  /\ Resume(cur)
  /\ UNCHANGED <<traced, trapPending, pending, got, unsent, tracer>>

Capture ==
  /\ pc = "wait" /\ at[cur] = "syscall"
  /\ Move("inject", {})
  /\ UNCHANGED <<kernel, attached, cur, kept, calls, failed, gaveUp>>

\* Stop::Exited: the error drops the hijacker, if any, and the session.
WaitExited ==
  /\ pc = "wait" /\ Reapable(cur)
  /\ at' = [at EXCEPT ![cur] = "gone"] /\ traced' = traced \ {cur}
  /\ Fail
  /\ UNCHANGED <<tracing, trapPending, pending, got, unsent, attached, cur, calls, gaveUp>>

\* Mutant: waits for a stop nobody asked for.
Timeout_noInterrupt ==
  /\ pc = "wait"
  /\ pc' = "giveup"
  /\ UNCHANGED <<kernel, todo, attached, cur, kept, calls, failed, gaveUp>>

\* ENTRY_TIMEOUT.
Timeout ==
  /\ pc = "wait"
  /\ trapPending' = trapPending \cup ({cur} \cap alive)
  /\ pc' = "giveup"
  /\ UNCHANGED <<at, traced, tracing, pending, got, unsent, todo, attached, cur,
                 kept, calls, failed, gaveUp>>

\* A wait without a timeout, and the thread is resumed.
GiveUp ==
  /\ pc = "giveup" /\ (at[cur] \in Stops \/ Reapable(cur))
  /\ IF at[cur] \in Stops
     THEN Resume(cur) /\ Deliver(cur, kept) /\ UNCHANGED traced
     ELSE /\ at' = [at EXCEPT ![cur] = "gone"] /\ traced' = traced \ {cur}
          /\ UNCHANGED <<tracing, got>>
  /\ gaveUp' = gaveUp \cup {cur}
  /\ pc' = "try"
  /\ UNCHANGED <<trapPending, pending, unsent, todo, attached, cur, kept, calls, failed>>

\* No thread is left, or TOTAL_TIMEOUT has passed before the next.
NoneFound ==
  /\ pc = "try"
  /\ Fail
  /\ UNCHANGED <<kernel, attached, cur, calls, gaveUp>>

-----------------------------------------------------------------------------
(* The injected calls, and the way out: take_signal, finish, detach_all.   *)

InjectCall ==
  /\ pc = "inject" /\ calls < MaxCalls /\ at[cur] = "syscall"
  /\ Resume(cur)
  /\ calls' = calls + 1
  /\ pc' = "injecting"
  /\ UNCHANGED <<traced, trapPending, pending, got, unsent, todo, attached, cur,
                 kept, failed, gaveUp>>

InjectDone ==
  /\ pc = "injecting" /\ at[cur] = "syscall"
  /\ pc' = "inject"
  /\ UNCHANGED <<kernel, todo, attached, cur, kept, calls, failed, gaveUp>>

InjectExited ==
  /\ \/ pc = "inject" /\ at[cur] = "dead"
     \/ pc = "injecting" /\ Reapable(cur)
  /\ failed' = TRUE
  /\ Move("detach", attached)
  /\ UNCHANGED <<kernel, attached, cur, kept, calls, gaveUp>>

Finish ==
  /\ pc = "inject" /\ at[cur] = "syscall"
  /\ Move("detach", attached)
  /\ UNCHANGED <<kernel, attached, cur, kept, calls, failed, gaveUp>>

\* Mutant: stops at the first thread that cannot be detached.
DetachThread_firstError(t) ==
  /\ pc = "detach" /\ Turn(t)
  /\ IF at[t] \in Stops
     THEN /\ at' = [at EXCEPT ![t] = "run"]
          /\ traced' = traced \ {t} /\ tracing' = tracing \ {t}
          /\ Deliver(t, kept)
          /\ todo' = todo \ {t}
     ELSE todo' = {} /\ UNCHANGED <<at, traced, tracing, got>>
  /\ UNCHANGED <<trapPending, pending, unsent, pc, attached, cur, kept, calls,
                 failed, gaveUp>>

\* Mutant: detaches the borrowed thread and forgets the others.
DetachThread_borrowedOnly(t) ==
  /\ pc = "detach" /\ Turn(t)
  /\ IF at[t] \in Stops /\ t = cur
     THEN /\ at' = [at EXCEPT ![t] = "run"]
          /\ traced' = traced \ {t} /\ tracing' = tracing \ {t}
          /\ Deliver(t, kept)
     ELSE UNCHANGED <<at, traced, tracing, got>>
  /\ todo' = todo \ {t}
  /\ UNCHANGED <<trapPending, pending, unsent, pc, attached, cur, kept, calls,
                 failed, gaveUp>>

\* Every thread is sent the one signal kept.  A thread that is not stopped
\* cannot be detached, and the error is ignored.
DetachThread(t) ==
  /\ pc = "detach" /\ Turn(t)
  /\ IF at[t] \in Stops
     THEN /\ at' = [at EXCEPT ![t] = "run"]
          /\ traced' = traced \ {t} /\ tracing' = tracing \ {t}
          /\ Deliver(t, kept)
     ELSE UNCHANGED <<at, traced, tracing, got>>
  /\ todo' = todo \ {t}
  /\ UNCHANGED <<trapPending, pending, unsent, pc, attached, cur, kept, calls,
                 failed, gaveUp>>

DetachDone ==
  /\ pc = "detach" /\ todo = {}
  /\ attached' = {}
  /\ pc' = IF failed THEN "exit" ELSE "proxy"
  /\ UNCHANGED <<kernel, todo, cur, kept, calls, failed, gaveUp>>

ProxyEnds ==
  /\ pc = "proxy"
  /\ pc' = "exit"
  /\ UNCHANGED <<kernel, todo, attached, cur, kept, calls, failed, gaveUp>>

\* reptyr exits and the kernel lets every tracee go.
Exit ==
  /\ pc = "exit"
  /\ at' = [t \in Threads |->
              IF t \in traced /\ at[t] \in Stops THEN "run"
              ELSE IF at[t] = "dead" THEN "gone" ELSE at[t]]
  /\ traced' = {} /\ tracing' = {}
  /\ got' = [t \in Threads |->
               IF t \in traced /\ at[t] = "signal" THEN got[t] \cup {t} ELSE got[t]]
  /\ pc' = "gone"
  /\ UNCHANGED <<trapPending, pending, unsent, todo, attached, cur, kept, calls,
                 failed, gaveUp>>

-----------------------------------------------------------------------------
(* The threads and the kernel (external).                                  *)

KTrap(t) ==
  /\ at[t] = "run" /\ t \in trapPending
  /\ trapPending' = trapPending \ {t}
  /\ at' = [at EXCEPT ![t] = IF t \in traced THEN "trap" ELSE "run"]
  /\ UNCHANGED <<traced, tracing, pending, got, unsent, tracer>>

KSend(t) ==
  /\ t \in unsent /\ at[t] \in Live
  /\ pending' = pending \cup {t} /\ unsent' = unsent \ {t}
  /\ UNCHANGED <<at, traced, tracing, trapPending, got, tracer>>

KSignal(t) ==
  /\ at[t] = "run" /\ t \in pending
  /\ pending' = pending \ {t}
  /\ IF t \in traced
     THEN at' = [at EXCEPT ![t] = "signal"] /\ UNCHANGED got
     ELSE got' = [got EXCEPT ![t] = @ \cup {t}] /\ UNCHANGED at
  /\ UNCHANGED <<traced, tracing, trapPending, unsent, tracer>>

KSyscall(t) ==
  /\ at[t] = "run" /\ t \in traced \cap tracing
  /\ at' = [at EXCEPT ![t] = "syscall"]
  /\ UNCHANGED <<traced, tracing, trapPending, pending, got, unsent, tracer>>

\* Uninterruptible sleep; work that is pending is done before the next one.
KBlock(t) ==
  /\ at[t] = "run" /\ t \notin trapPending \cup pending
  /\ at' = [at EXCEPT ![t] = "blocked"]
  /\ UNCHANGED <<traced, tracing, trapPending, pending, got, unsent, tracer>>

KWake(t) ==
  /\ at[t] = "blocked"
  /\ at' = [at EXCEPT ![t] = "run"]
  /\ UNCHANGED <<traced, tracing, trapPending, pending, got, unsent, tracer>>

\* A running thread starts another, which nobody traces.
KCreate(t) ==
  /\ at[t] = "unborn" /\ \E p \in Threads : at[p] = "run"
  /\ at' = [at EXCEPT ![t] = "run"]
  /\ UNCHANGED <<traced, tracing, trapPending, pending, got, unsent, tracer>>

\* The thread exits, or is killed where it stands.
KExit(t) ==
  /\ at[t] \in Live
  /\ at' = [at EXCEPT ![t] = IF t \in traced \cup {Main} THEN "dead" ELSE "gone"]
  /\ trapPending' = trapPending \ {t}
  /\ pending' = pending \ {t}
  /\ UNCHANGED <<traced, tracing, got, unsent, tracer>>

-----------------------------------------------------------------------------
AttachAll ==
  \/ List \/ SeizeDone \/ AckDone
  \/ \E t \in Threads : \/ SeizeThread(t) \/ SeizeVanished(t) \/ InterruptThread(t)
                        \/ AckStop(t) \/ AckExited(t) \/ AckTimeout(t) \/ Options(t)

SeizeOne ==
  \/ \E t \in Threads : Try(t)
  \/ TakeSignal("wait") \/ TakeTrap("wait")
  \/ Capture \/ WaitExited \/ GiveUp \/ NoneFound

Inject ==
  \/ InjectCall \/ InjectDone \/ InjectExited
  \/ TakeSignal("injecting") \/ TakeTrap("injecting")

Release == Finish \/ (\E t \in Threads : DetachThread(t)) \/ DetachDone \/ Exit

Tracer == AttachAll \/ SeizeOne \/ Timeout \/ Inject \/ Release \/ ProxyEnds

Answer(t) == KTrap(t) \/ KSignal(t)

Kernel(t) == \/ Answer(t) \/ KSend(t) \/ KSyscall(t) \/ KBlock(t) \/ KWake(t)
             \/ KCreate(t) \/ KExit(t)

CallReturns == pc = "injecting" /\ \E t \in {cur} : KSyscall(t)

\* reptyr waits, with no timeout, for a leader that is not reported.
AwaitsZombie ==
  pc \in {"giveup", "injecting"} /\ at[cur] = "dead" /\ ~Reapable(cur)

Terminated == (pc = "gone" \/ AwaitsZombie) /\ alive = {} /\ UNCHANGED vars

Next == Tracer \/ (\E t \in Threads : Kernel(t)) \/ Terminated

Spec == Init /\ [][Next]_vars

(* The tracer keeps running and a running thread answers a trap or takes a *)
(* signal; an injected call comes back, whatever it waits for.  Programs   *)
(* need not make system calls of their own.                                *)
Fairness ==
  /\ WF_vars(AttachAll) /\ WF_vars(SeizeOne) /\ WF_vars(Timeout)
  /\ WF_vars(Inject) /\ WF_vars(Release)
  /\ \A t \in Threads : WF_vars(Answer(t))
  /\ SF_vars(CallReturns)

FairSpec == Spec /\ Fairness

\* And every uninterruptible sleep ends.
WakingSpec == FairSpec /\ \A t \in Threads : WF_vars(KWake(t))

-----------------------------------------------------------------------------
(* Properties.                                                             *)

TypeOK ==
  /\ at \in [Threads -> Live \cup {"unborn", "dead", "gone"}]
  /\ traced \subseteq Threads /\ tracing \subseteq Threads
  /\ trapPending \subseteq Threads /\ pending \subseteq Threads
  /\ got \in [Threads -> SUBSET Threads]
  /\ pc \in Pcs /\ todo \subseteq Threads /\ attached \subseteq Threads
  /\ cur \in Threads \cup {NoThread} /\ kept \in Threads \cup {NoThread}
  /\ calls \in 0 .. MaxCalls /\ failed \in BOOLEAN
  /\ gaveUp \subseteq Threads /\ unsent \subseteq Threads

(* While calls are injected the other threads of the session stand still,  *)
(* except those the engine gave up on.  (ptrace.rs:227-293)                *)
SiblingsStandStill ==
  pc \in {"inject", "injecting"} =>
    \A t \in attached \ (gaveUp \cup {cur}) : at[t] \in Stops \cup {"dead", "gone"}

(* Once reptyr proxies, no live thread is its tracee any more, except those *)
(* the engine gave up on.  (ptrace.rs:299-311)                              *)
NobodyLeftTraced ==
  pc = "proxy" => traced \cap alive \subseteq gaveUp

(* A signal swallowed from one thread never reaches another while the      *)
(* threads are tried and borrowed; what detach_all passes on to all is the *)
(* signal of the borrowed thread, no other.  (hijack.rs:69-82;             *)
(* ptrace.rs:299-302; main.rs:112-114)                                     *)
SignalsKeptApart ==
  \A t \in Threads :
    got[t] \subseteq {t} \cup (IF pc \in {"detach", "proxy", "exit", "gone"}
                              THEN {kept} \cap {cur} ELSE {})

(* Again and again each thread of the session runs, sleeps or is dead,     *)
(* though reptyr may go on proxying for ever; except a thread the engine   *)
(* gave up on, and except when reptyr waits for ever for a leader whose    *)
(* siblings nobody reaps.  (ptrace.rs:227-229, 299-311)                    *)
StoppedThreadsRunAgain ==
  \/ \A t \in Threads : []<>(at[t] \notin Stops \/ t \in gaveUp)
  \/ <>[]AwaitsZombie

(* When no thread sleeps uninterruptibly for ever, attach_all and seize    *)
(* end, in control of a thread or with an error, but for one case: the     *)
(* leader died as it was tried, and the wait after the interrupt, which    *)
(* has no timeout, is for ever.  (hijack.rs:52-82)                         *)
SeizeEnds ==
  \/ <>(pc \in {"inject", "exit", "gone"})
  \/ <>[](pc = "giveup" /\ AwaitsZombie)

-----------------------------------------------------------------------------
(* What the documentation says, and the code does not do.                  *)

(* ptrace.rs:228-229: "whatever happens during the hijack, threads never   *)
(* stay ptrace-stopped".                                                   *)
NobodyLeftStopped == pc = "proxy" => \A t \in traced : at[t] \notin Stops

=============================================================================
