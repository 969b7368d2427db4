# A verification development for reptyr-rs

`reptyr-rs PID` moves a running process to the current terminal. It seizes
every thread of the target with ptrace, borrows one of them at a system-call
entry, makes it run system calls the target never wrote (mmap, sigaction,
setsid, openat, ioctl, dup2, ...), gives it back with the displaced call
restored, and proxies the new pty. What can go wrong lies between two programs
that share a set of registers, a signal queue and a process group. This
directory models that in TLA+, checks the models with TLC, and proves with
TLAPS what matters most about the engine for every value of the constants.

Source references below are relative to the repository root; `hijack.rs` is
`src/hijack.rs` and so on.

## 1. Inventory

| Component | Source | State it keeps | Operations |
|---|---|---|---|
| Architecture backends | `arch/mod.rs`, `arch/x86_64.rs`, `arch/aarch64.rs` | none; they edit register files | `save_fixup`, `set_syscall_nr`, `set_syscall_args`, `restore_ip`, `restore_syscall_nr`, `fallback_syscall_stop` |
| Hijack engine | `hijack.rs` | `saved`, `raw_saved`, `saved_nr`, `pending_signal`, `at_entry` | `seize`/`try_tid`, `syscall`, `fork_child`, `for_dummy`, `take_signal`, `finish`, `Drop` |
| Ptrace layer | `ptrace.rs` | `Session::attached` | `attach_all`, `detach_all`, `Drop`, and thin wrappers of the ptrace requests and waits |
| Redirection plan | `inject.rs` | `Plan`, the scratch page, `tty_fd`, the dummy | `execute`, `do_setsid`, `mmap_scratch`, `munmap_scratch`, `ignore_sighup` |
| Target inspection | `target.rs` | none; reads `/proc` | `threads`, `controlling_tty`, `is_session_leader`, `procs_in_pgrp`, `fds_to_redirect`, `termios_of`, ... |
| Entry points | `main.rs` | the order of all of this | `attach`, `proxy_mode`, `spawn_with_pty` |
| TTY stealing (`-T`) | `steal.rs` | a socket, the copies of the master, two sessions | `steal_tty`, `steal_inner`, `find_master_fds`, `remote_socket_connect`, `send_fd`, `recv_fd` |
| Proxy loop | `proxy.rs` | raw-mode guard, `WINCH`, a buffer | `run`, `on_winch`, `read_once`, `write_all`, `forward_winsize` |
| TTY helpers | `tty.rs` | none | termios and winsize ioctls, `open_pty_master` |
| Command line | `cli.rs` | none | `parse` |
| Errors | `error.rs` | none | formatting |

How they interact. `main::attach` reads a plan from `/proc` while the target
runs, then calls `Session::attach_all` (all threads stop), `Hijacker::seize`
(one of them is let go up to its next system-call entry), `inject::execute`
(each step a `Hijacker::syscall`), `take_signal`, `finish`, `detach_all`, and at
last `proxy::run`. `steal.rs` does the same to the terminal emulator and, nested
in it, to the session leader. There are no threads in reptyr; the concurrency
is that of reptyr, the target's threads, the processes around it and the kernel.

What is hard:

- *Interleaving.* A seized thread may stop for a signal, for the interrupt, for
  a system call or for a fork event, in any order, or die at any wait.
- *Belief against fact.* `at_entry` says where the thread is; registers mean
  different things at an entry and at an exit stop, and after a rewind.
- *Stale data.* Thread lists, group members and descriptors are read before
  they are used.
- *Partial failure.* Each of some fifteen injected calls may be refused; the
  cleanup runs on the same thread.
- *Timeouts.* Two deadlines race the stops they wait for.

What makes each part correct:

- backends and engine: the borrowed thread runs nothing but injected calls; the
  displaced call runs exactly once afterwards; signals are not lost;
- ptrace layer: the other threads stand still meanwhile, and every thread runs
  again, on every path;
- redirection plan: on success the target leads a session on the new terminal
  with its planned descriptors there; on failure nothing is half redirected, no
  page stays, and no step kills the target;
- stealing: exactly one copy of the master remains, both targets run again;
- proxy: bytes keep order, nothing waits for ever, the terminal is restored.

`PROJECT.json` lists the hazards line by line with the properties aimed at each.

## 2. Modules

| Module | Models | Uses |
|---|---|---|
| `Arch` | register files, both backends, the kernel's entry, exit and restart | |
| `Hijacker` | the engine on one thread, every stop the kernel can make | `Arch`; implements `Loan` |
| `Loan` | the abstract specification of a borrowed thread | |
| `Session` | `attach_all`, the seize loop, `detach_all` on many threads | |
| `Inject` | the plan, call by call, and what it does to the target | implements `Move` |
| `Move` | the abstract specification of a move | |
| `Target` | what is read of `/proc/<pid>/stat`, against what the kernel writes | |
| `Steal` | `-T`: emulator, session leader, socket and copies of the master | `Target`; implements `Handover` |
| `Handover` | the abstract specification of a theft | |
| `Cli` | the parse of the command line, and the same said without its loop | |
| `Proxy` | reptyr from its command line to its end: dispatch, `-l`/`-L`, the relay | `Cli` |
| `HijackerProofs`, `SessionProofs`, `InjectProofs`, `StealProofs`, `CliProofs`, `ProxyProofs` | theorems about the module of the name | |
| `HandoverProofs` | that `Steal` implements `Handover`, and what follows | `StealProofs` |
| `LeastElement` | least and greatest elements of sets of naturals, and induction through them | |

The modules are views of one program, each with the detail the others leave
out: `Hijacker` has registers and one thread, `Session` has threads and no
registers, `Inject` has processes, groups, terminals and descriptors and takes
each injected call as one step (which is what `Hijacker` and `Session`
establish: one call runs at a time, and nothing else of the target runs
between), `Steal` does so for two processes at once, and `Proxy` begins where a
move or a theft has succeeded. `Target` and `Cli` are pure definitions; the runs
of `Steal` and `Proxy` start from all their inputs, so that what the later steps
work on is what was read.

### Arch

A register file keeps four registers: where the thread resumes (`ip`), the
number register (`num`: `rax`, `x8`), the number the kernel dispatches
(`sysno`: `orig_rax`, or the regset of aarch64) and the arguments (`arg`). Their
values are abstract: the target's own (`"orig"`), injected (`"inj"`,
`"clone"`), a result, `-ENOSYS`, an `-ERESTART` code, something later of the
program (`"other"`). This is exactly what the injection contract of
`arch/mod.rs:8-20` is about. `setregs` differs by architecture: on x86_64 it
carries `orig_rax`, on aarch64 `NT_PRSTATUS` does not carry the call number. The
kernel operators (`EnterKernel`, `LeaveKernel`, `RestartCall`) are external;
their behaviour, like that of every kernel action in the other modules, is that
of the Linux sources and was compared with a running Linux 6.18 on x86_64: the
kinds of stop, the effect of a signal argument at each kind, the restart after a
rewind, the first stop of an auto-attached child.

### Hijacker

`at` is where the kernel has the thread (five kinds of stop, three ways of
running, dead, freed), `pc` which wait of the code the tracer is in. A tracer
action is the code between two waits, so `Rewind` is `ensure_entry` up to its
wait and `RewindDone` is what follows that wait: `at_entry = true`, load number
and arguments, resume. `SeizeCapture`/`SeizeSkip`/`SeizeSignal`/`SeizeTimeout`/
`SeizeGiveUp` are the arms of `try_tid`; `AwaitSkip`, `AwaitSignal`,
`TraceeExited` the arms of `resume_and_expect`; `ForkEvent`, `ForkRefused` those
of `fork_child`. `Finish` is `take_signal`, `finish`, the `Drop` that follows it
(finish consumes the engine) and `detach_all`; `Restored` composes what finish
and Drop write. `DropEarly` is the early return of `steal.rs:55`.

The kernel actions (`K...`) deliver signals, answer the interrupt, enter, run,
interrupt and restart calls, fork, and kill. `KProgram` is program code up to
its next call. Ghosts (`sent`, `noted`, `handed`, `derailed`,
`origRuns`, `junk`, `strayed`) are read by properties only. `derailed` records
that an injected call was refused a fork or interrupted by a signal, the two
ways out of the engine's own assumptions; the main properties are stated for
runs where that has not happened, and `ReentersAtOnce`, which says without the
condition what hijack.rs:6-9 says, is refuted (section 4).

### Loan

What an engine that borrows a thread owes it: the thread is lent in the middle of
a call of its own (or left alone), is asked calls one at a time, answers each
before the answer is taken, runs nothing of its own while it is lent, is given
back when no call is in progress, and then makes the displaced call. The first
signal that finds it is kept, and is the one it is sent away with. `Hijacker`
maps its control state and the stop to `Loan`, `Call` and `Ran`, and
`pending_signal` and `handed` to `keeps` and `given` (`Abs`); a rewind, a stop that
is skipped, a trap or a restart is a stutter. A derailed run is `"broken"`: then
only the signal is promised. `LoanKept` says more than the two invariants about
the displaced call: no answer is taken that the kernel has not given, and none is
given to a call nobody asked.

### Session

Threads are created, block, are signalled and exit throughout. The actions
follow `attach_all` loop by loop (list, seize, interrupt, acknowledge, options),
then `Hijacker::seize` over the threads in order, the injected calls and
`detach_all`. A stop taken as the answer to an interrupt may be any stop
(`AckStop`), so the trap surfaces later. `Reapable` is the rule of `waitpid`
that the main thread's exit is reported only when every other thread has been
reaped: it is not enough that they are dead, since a dead tracee stays a zombie
until its tracer waits for it, and reptyr waits for one thread at a time. `NoneFound`
may come with threads untried (`TOTAL_TIMEOUT`). `AwaitsZombie` is the state in which
reptyr waits without a timeout for a main thread that is not reported: the
system may end there, and section 4 says what it shows.
The order `attach_all` sorts for, main thread first, is `Turn`; among the other
threads any order is taken, which covers the order by id.

### Inject

One action per injected call of `execute` and `do_setsid`, plus the reading of
the plan in `Init` (`main.rs:84-99`) and what the target may do between that and
the seize (`TargetCloses`, `TargetSetsid`). `Refused`, `MmapFails` and
`DanceFails` are the error returns; an error goes to `munmap` and out. The calls
whose result the code does not look at may be refused as well, and then it goes on:
`NottyRefused`, `MoveRefused`, `KillRefused` and
`RetireRefused` (the dummy is detached alive, `"loose"`), `ReapRefused` (its zombie
stays). Only `close` and `munmap`, which give back what the plan has taken, are never
refused: `munmap_scratch` ignores a refusal, and the page would stay. Kernel
rules are operators of their own: who may `setpgid` whom (`MaySetpgid`), when
`setsid` is refused (`MaySetsid`), who may take a terminal (`MaySctty`), `dup2`
and `dup3` of a descriptor onto itself, the hangup that `TIOCNOTTY` causes.
`mainThread` says whether the borrowed thread is the main one: `do_setsid` uses
`h.tid()` as the pid. A kill of the target ends the plan with an error (`Killed`);
that the call under way returns one is the engine's business (`EveryCallReturns`),
with the exception of section 4 (`AwaitsZombie`).

`DummyStops` holds the kinds the forked child's first stop may be of. The code
(`hijack.rs:226`) expects a `SIGSTOP` or `SIGTRAP`, as under `PTRACE_ATTACH`
(`"signal"`); after `PTRACE_SEIZE`, which reptyr-rs uses, Linux reports
`PTRACE_EVENT_STOP` (`"event"`), and the dance never gets past `for_dummy`. The run
`inject` allows both at each fork: its safety properties, and the refinement, hold
whatever the first stop is. What must happen is stated for session leaders only
(`SessionLeaderMoves`), which need no dummy; a target that leads no session is not
moved on a real kernel (`GroupLeaderMoves`, refuted).

### Move

The move as a user sees it: a target may lose its old terminal at any time,
takes the new one only when it has none, its streams go over only to a terminal
that is its own, and the move is done when all of them have. `Inject` maps
`fds`, `ctty` and `tty_fd` directly, the streams to the descriptors on the new
terminal without the one it was opened as (`tty_fd`: while that is open it is no
stream, and where it is itself planned, `dup2` onto itself redirects nothing),
and the outcome to how the plan ended (`Abs`). A refused call, a hangup or a kill
is a step of `Move` or a stutter; half a redirection with the terminal not taken
is neither.

### Target

A stat line is a sequence of words; the program's name may hold any of them, a
parenthesis and numbers too. `stat_line` and `encode_dev` are the kernel's
(external), `after_comm`, `stat_ids`, `decode_dev` and the accessors are the
code's. `rsplit(')')` is the choice of the last closing parenthesis; masks and
shifts are division and remainder by powers of two. The kernel prints the device
number as a signed 32-bit number, which a minor above 2^19 - 1 would make
negative (`FdsAssumption`); the kernel gives ptys no such minor.

### Steal

`pc` is the next call; `emu` and `leader` are the two processes, with their scratch
page, their disposition of SIGHUP and, for the emulator, its descriptors
(`"mine"` are masters of the target's pty, `"other"` of another). Each injected
call is an action whose disjuncts are its effect, its refusal, and the failure
of everything in a dead process; `Bail` is the way out of `steal_inner` and
drops the socket (`StealSocket`'s `Drop`, a file). `find_master_fds` passes over a
descriptor whose `TIOCGPTN` fails, which `local.missed` remembers; so does a
`dup2` that fails, whose result the code does not look at (`Neutralize`). As in
`Inject`, `close` and `munmap` are never refused. The
emulator's own part is `EmulatorGivesUp`: it reads the end of its terminal from
`/dev/null`, closes it, and sends its session SIGHUP. Both processes may die at
any time, held or not.

### Handover

The theft seen from outside: the emulator is held, its master comes to reptyr
while it stands still and has all its copies, the leader is made immune when the
master is here, copies go one by one only then, and a theft fails only while no copy
has gone (or the emulator is dead). `Steal` maps the state of the emulator, the
descriptors that are and were masters, the socket and `master` together (`Ours`), the
leader's disposition and death, and how it ended (`Result`); opening, connecting and
closing of helper descriptors, mapping and unmapping are stutters. `HandoverKept`
fixes the order of steps 3, 4 and 5 of `steal_inner` against each other and
against every early return, which no single invariant of the run does.

### Cli and Proxy

`ParseArg` is one turn of the loop of `parse`, folded over the arguments;
`Meaning` says without a loop what that makes of a command line, by the positions of
its words: the options before the first `--` count wherever they stand, the last of
`-l` and `-L` decides, and what is left keeps its order. That is the code's reading,
which is not the usage text's (section 4). `Noted` is what one
option does to the options read so far. An argument is a token: each option, an
unknown one, a lone dash, a word that is a pid, a choice of streams. `Proxy`
starts from every command line (`Parse` is `run` of `main.rs`), then either
starts the relay over a slave somebody has open (attach, steal) or spawns the
command of `-l`/`-L`.

The relay's `pc` names the system call it is about to make: `poll`, the swap of
`WINCH`, `get_winsize`, the ioctl that sets it, the read of the master and its
write, the read of stdin and its write, and, after the relay, the `wait` of
`-l`/`-L`. Everything else of the world may move between any two of them: a key
is typed, the window is resized (`ResizeTerminal` runs the handler), the terminal
is hung up, the command exits, the slave is opened, closed and opened again, the
program at the slave reads, writes and stops at full queues. A byte is its number in
its stream, so order, loss and repetition are visible as they are
(`Counting`). `Written(n)` is one turn of `write_all`, of any length the kernel
likes. `End` is every return of `run`: the guard restores the terminal.

Kernel facts used, compared with a running Linux: `poll` reports nothing on the
master of a slave that was never opened, and a read of it blocks; a closed slave
reports a hangup, and a read gives what was written first and `EIO` then; a write
to the master is accepted while there is room, whoever holds the slave, and
blocks after.

## 3. Runs

| Run | Checks | Bounds |
|---|---|---|
| `hijacker_x86_64` | `TypeOK`, `OnlyInjectedCallsRun`, `DisplacedCallRunsOnce`, `FirstSignalGivenBack`; `EveryCallReturns`, `SeizeEnds` under `FairSpec` | 4 injected calls, two signals and one internal |
| `hijacker_aarch64` | `OnlyInjectedCallsRun`, `DisplacedCallRunsOnce`; `LoanKept` (refinement) | the same |
| `session` | `TypeOK`, `SiblingsStandStill`, `NobodyLeftTraced`, `SignalsKeptApart`; `StoppedThreadsRunAgain`, `SeizeEnds` under `WakingSpec` | 3 threads, 1 injected call, 1 signal |
| `inject` | `TypeOK`, `MoveDoesNotKill`, `ScratchReleased`, `TargetMoved`, `NothingRedirectedWithoutTerminal`; `SessionLeaderMoves` under `FairSpec`; `MoveImplemented` (refinement) | descriptors 0-3 each on the terminal or closed, -s or not, stdin never selected, both architectures, both first stops of the dummy, a child in the group or not |
| `steal` | `TypeOK`, `InspectsRight`, `MasterHeld`, `OneReader`, `LeaderSurvives`, `FailureLeavesEmulator`, `NothingHeld`; `StealEnds` under `FairSpec`; `HandoverKept` (refinement) | every assignment of 4 descriptors, names of up to 2 words, 4 minor numbers |
| `proxy` | `TypeOK`, `BytesInOrder`, `NothingLeftUnread`, `TerminalRestored`; `Relayed`, `WinsizeForwarded`, `ReptyrLeaves` under `FairSpec` | every command line of up to 3 of 10 tokens; 3 bytes typed, 1 written unasked and 1 to each byte read; queues and buffer of 1 or 2 bytes; 2 window sizes; the slave opened twice |

Why the bounds are enough. `MaxCalls = 4` covers each succession of engine
steps: at an entry stop, after an exit, a fork in between, after a fork, after an
error; the engine's state depends on no more of the past (`at_entry`, the two
saved states), and the proofs below drop the bound altogether. Two ordinary
signals are needed to tell the first from the last, one internal one to see it
ignored. In `Session` three threads give a main thread, a sibling that stands
stopped and one that comes or goes at the wrong time. In `Inject` the three
standard descriptors and one more suffice for the lowest free descriptor to lie
inside or outside the plan; stdin is left out of the selection, so that a terminal
descriptor stays outside the plan, and one beyond the three is in it. A child is both
kinds of group member `setpgid` distinguishes, one that may be moved and, after
`execve`, one that may not, as a pipeline mate never may. In
`Steal` four descriptors allow two copies of the master, another master and a free slot, or no free slot; the minors lie on both
sides of the 8-bit boundary and at the end of the range, the names hold none, one
and two parentheses. Three bytes in a buffer of two and a queue of one are the
least that makes a read leave something, a write come back short and the next
write block; a second size and a second opening are the least that change anything after
the first. Three words reach each mode, with and without a command, and its
errors. In
`Steal`, `Inject`, `Session` and, for what is safety, `Proxy` the theorems drop the bounds.

What they show. On x86_64 and aarch64 alike the borrowed thread runs nothing of
its own between capture and release, and then runs the displaced call exactly
once, on the finish and on the Drop path, whatever signals and interrupts fall
in between, as long as no injected call is itself interrupted and no clone
refused. The first swallowed signal is always given back. Threads of the
session stand still while calls are injected, and all that were stopped run
again, apart from those the seize gave up on and from a wait for a main thread that is
never reported. A session leader is moved when nothing gets in the way. A successful attach is what it
claims as far as the planned descriptors were open; a failed one redirects
nothing before the terminal is the target's and leaves no scratch page; seen
from outside it is a move, never half of one. A theft never leaves the pty without a
holder while reptyr and the emulator live, never lets the emulator's end reach
the session's leader, and lets both go on every path; seen from outside it is a handover,
in which nothing is given up before it is safe, and nothing when it fails. The relay loses, repeats
and swaps no byte, shows the last output before it believes the hangup, hands the
terminal back on every exit, and forwards the last window size.

Each property has a mutant (`PROJECT.json`, "mutants"): a definition of the
model changed the way a plausible bug would change the code. The mutated forms
stand before the definitions they replace.

### Fairness

`Hijacker`: weak fairness of the tracer's steps (reptyr is a process that keeps
running and no other part of it blocks), of its timeout (the clock advances),
and of the kernel's steps (a runnable thread is scheduled; the injected calls of
the engine's own choice do not block). No fairness of `KProgram`: a program may
compute for ever. No fairness of signals or kills.

`Session`: weak fairness of the tracer's groups of steps, of each thread's
answer to a trap or a signal, and strong fairness of the return of an injected
call (signals may interpose between, but only finitely many exist). No fairness
of a target's own system calls, and none that a sleep ends, except in
`WakingSpec`, under which the liveness of `session` is checked.

`Inject`: weak fairness of `Execute`, the tracer's own steps. `SessionLeaderMoves`
is about behaviours in which nothing else happens for good (`disturbed`).

`Steal`: weak fairness of `Reptyr`: each of its calls returns, the read of the
socket only when the message is there. None of the emulator or the leader, which
need not do anything for the theft to end.

`Proxy`: weak fairness of `Reptyr`, and of the program's reads and writes, which
the kernel completes when it can. The user need not type, nobody need open or
close the slave, the command need not exit.

What `Relayed`, `WinsizeForwarded` and `ReptyrLeaves` leave out. Each assumes
`GetsThrough`: again and again reptyr is not `Blocked`. It is blocked in two
places, and both are real. The write to the master (proxy.rs:84) blocks while the
pty is full towards the slave; nobody drains the slave's output meanwhile, so a program
that blocks on its own output and reptyr can wait for each other for ever, and a
slave closed with its queue full leaves reptyr there. And the read of the master
(proxy.rs:66) follows a hangup that poll reported before; when the slave is
opened again in between, it waits for output, with stdin and SIGWINCH unserved.

Deadlock is checked in every run but those of `Proxy` and `Steal`, where the
system may really stop: reptyr is gone, or waits in `poll` for a user who does not type. In
the others `Terminated` says where it may.

## 4. Where the code and its documentation disagree

Each is a run TLC must find violated.

| Run | Statement of the documentation | What happens |
|---|---|---|
| `hijacker_strays` | hijack.rs:6-9, after each injected call the next resume re-enters at the same instruction, and the re-entry never dispatches | a refused clone leaves `at_entry` true at an exit stop, so nothing is rewound: the munmap of the cleanup is loaded there, the thread runs program code with foreign registers, and the call that code enters dispatches; or an injected call is interrupted by a signal, and the kernel's restart backs up the rewound instruction pointer once more. On x86_64 the displaced call itself is still made once after the release |
| `session_frozen` | ptrace.rs:228-229, threads never stay ptrace-stopped | a thread given up on runs on as a tracee, cannot be detached while it runs, and freezes at its next stop while reptyr proxies |
| `session_hang` | hijack.rs:22, the whole seize is given up after 15 seconds | the target is killed while its main thread is tried: a sibling is a zombie nobody waits for, the main thread is therefore never reported, and the wait after the interrupt (hijack.rs:79) has no timeout |
| `inject_leader` | README.md:20-22, the process-group-leader case | `for_dummy` refuses the first stop an auto-attached child has after `PTRACE_SEIZE` |
| `inject_stdio` | README.md:27-28, -s redirects 0-2 unconditionally | a closed one of them becomes `tty_fd`, dup2 onto itself does nothing, and it is closed again |
| `proxy_fresh` | proxy.rs:31-32, with -l reptyr waits unless the spawned command has exited | the exit is looked for only after a read has answered EIO; while the slave was never opened there is nothing to read, and reptyr waits for ever |

The conditions in the other properties mark further limits, each a behaviour of
the code that the property without its condition would meet:

- `SiblingsStandStill` speaks of attached threads: one started after `attach_all`
  has listed the threads (ptrace.rs:236) is not among them and keeps running.
- `SignalsKeptApart` allows the signal of the borrowed thread to reach all of them
  at the end: `detach_all` passes it to each (ptrace.rs:301).
- `DisplacedCallRunsOnce` and `OnlyInjectedCallsRun` exclude runs that `derailed`;
  `EveryCallReturns` likewise.
- `SeizeGiveUp` gives the swallowed signal to a resume from the interrupt's own
  stop, where Linux ignores it (hijack.rs:80).
- `ReadyLeader` is a session leader whose first planned descriptor is its terminal,
  if it has one: on anything else TIOCNOTTY fails unnoticed and TIOCSCTTY is
  refused (inject.rs:111, 151). It has a descriptor to spare.
- Of targets that lead no session nothing is promised but safety. Apart from the
  first stop of the dummy, a pipeline mate, or a child that has called execve,
  cannot be moved by the target, and setsid is then refused for a group leader
  (inject.rs:198-208); and a thread other than the main one has an id that names no
  group (inject.rs:179, 198).
- A signal swallowed after the first, or by `attach_all` for the answer to its
  interrupt, is not given back at all, against README.md:41
  (`FirstSignalGivenBack` is about the first the engine notes; hijack.rs:283).
- `SeizeEnds` and `StoppedThreadsRunAgain` except a wait for a main thread that is
  never reported (`AwaitsZombie`): it has exited alone, or been killed together with
  siblings that are tracees nobody waits for. Both untimed waits are exposed, the
  one after the interrupt (hijack.rs:79, `session_hang`) and that of an injected call
  (hijack.rs:273); so are the same waits of `Inject` and `Steal`, which take a killed
  process to answer with an error. A thread that sleeps uninterruptibly for ever
  holds such a wait too, hence `WakingSpec`.
- `FailureLeavesEmulator` excepts a connected socket: a theft that fails after
  `remote_socket_connect` leaves it open in the emulator (steal.rs:90). And a
  leader that was made immune stays so.
- `NothingLeftUnread` is about a slave opened once. When it is opened, written and
  closed again between the read that answers EIO and the look at the command
  (proxy.rs:66-79), and the command has exited, that output is lost.
- Against inject.rs:175, "The dummy is killed and reaped afterwards": the results of
  the kill and of the wait4 are not looked at (inject.rs:213, 216), so a dummy may
  stay as a second copy of the target, or as a zombie, of an attach that succeeded
  (`KillRefused`, `ReapRefused`); the error path of setsid leaves a zombie; and the
  error of `for_dummy` a stopped copy, which runs on when reptyr exits (`DummyRuns`).
- The usage text (cli.rs:148, README.md:49) makes what follows COMMAND its ARGS. The
  loop of `parse` takes options wherever they stand before `--`: `-L cmd -V` is
  `cmd` with reptyr's own `-V`, `-L ls -la` an unknown option; `-L -- ls -la` is
  needed (cli.rs:53-87).

## 5. Proofs

`HijackerProofs` proves, with no bound on the number of calls and for any set of
signals:

- `TypeCorrect`: `Spec => []TypeOK`;
- `InvariantHolds`: `Distinguishable => (Spec => []IInv)`;
- `BorrowedThreadIsQuiet`, `DisplacedCallIsKept`, `FirstSignalIsKept`:
  `OnlyInjectedCallsRun`, `DisplacedCallRunsOnce` and `FirstSignalGivenBack` are
  invariants, the first two under the same assumption;
- `LoanIsKept`: `Distinguishable => (Spec => LoanKept)`, the refinement of `Loan`.

Assumptions: those named in `Arch` and `Hijacker` on the constants (the
architecture is one of two, the internal signals are signals, `NoSig` is none,
`MaxCalls` is a natural number), and `Distinguishable`: the kernel tells entry
from exit, or the architecture has no fallback that guesses, or no injected call
returns `-ENOSYS`. Some such assumption is needed: where the fallback of
`arch/x86_64.rs:145-153` has to tell, a call that returns `-ENOSYS` looks like an
entry, `resume_and_expect` lets the thread run on, and program code runs. TLC
checks kernels with `PTRACE_GET_SYSCALL_INFO`; the theorems cover both.

The argument. `OnlyInjectedCallsRun` is not inductive: whether the next dispatch
is an injected call depends on the registers. `IInv` adds

- `StopInv`: what `rax` reads at a stop, so that the fallback judges rightly
  (lemma `KindIsRight`);
- `UncapturedInv`: before the capture the thread enters only calls that carry its
  own number and arguments, so `saved` is the displaced call;
- `HeldInv`: for each `pc` of a borrowed thread and each place the kernel may
  have it, what its registers hold: the displaced call untouched (before the
  first injection), an injected call on its way in or out, or the rewound
  instruction with a stale number, which is at most at its entry stop when the
  next call overwrites it;
- `FreedInv`: what the freed thread is about to dispatch, and that it has done so
  once when it is gone;
- `SignalInv`: the engine's signal is the first noted.

The proof goes action by action, with one lemma per conjunct of the invariant;
lemmas about `Arch` say what each operator does to each field. The refinement needs
one part more, `GivenInv`: no signal is handed over before the thread is let go, and
an exit is noticed only of a dead thread. `LoanStep` maps each action to an action
of `Loan` or a stutter.

`SessionProofs` proves for any set of threads `TypeCorrect`, `BorrowedAlone`
(`SiblingsStandStill`), `EverybodyDetached` (`NobodyLeftTraced`) and
`NoSignalAstray` (`SignalsKeptApart`). `SiblingsStandStill` speaks only of the
injection; it holds there because of what held in each loop of `attach_all`
before. The invariant adds which threads stand at each `pc` (`Still`: those
acknowledged, less the one being tried), that every tracee is one the session
knows of and will detach (`Known`), that the thread tried is one of the threads
(`Chosen`), and whose signal each place holds (`Apart`).

`InjectProofs` proves for any number of descriptors, any set of companions and
kinds: the type, `SuccessMeansMoved` (`TargetMoved`), `NoForeignTerminal`,
`MoveIsHarmless`, `PageReleased`, and `PlanImplementsMove`:
`Spec => MoveImplemented`, the refinement of `Move`. The invariant has a conjunct
for each resource, saying by `pc` in which state it can be: the page (`Page`),
a pending hangup and the disposition (`Hangups`: once the
plan has passed its first call SIGHUP is ignored, and what is pending before was
sent by a hangup from outside), the session and the terminal (`Terminal`), and
the descriptors (`Streams`: those of the plan still to do, and those on the new
terminal, make the plan). `MoveStep` maps each action to an action of `Move` or a
stutter.

`StealProofs` proves for any finite set of descriptors all seven invariants of the
run: `TypeCorrect`, `ReadsWhatTheKernelWrote`, `MasterNeverLost`, `SoleReader`,
`LeaderNeverHungUp`, `FailureHarmless`, `EverythingReleased`. The lemmas about
`Target` come first: `AfterComm` (what stands after the last closing parenthesis of
the kernel's line does not depend on the name), `EncodeDecode` (the arithmetic of
the device number) and `StatRead`, which joins them. The invariant says which
process is held at which `pc` (`Threads`), what `why` tells (`Outcome`), that the
leader is immune from step 4 on and that no copy is overwritten before
(`Immune`), where the master is in flight (`Sent`), what the emulator's table
holds at each `pc` against what it held at first (`Tables`), and that every copy
is gone, still to do or missed (`Copies`).

`HandoverProofs` proves `HandoverHolds`: `Spec => HandoverKept`, the refinement of
`Handover`. It adds two parts to the invariant: `Route` (at which `pc` the master is
with reptyr or in the socket, and that a theft that went well left the leader immune)
and `Slots` (a copy of the master was one from the start, there is one to send, and
the descriptors closed at the end were free at first, so closing them takes no
copy away). `Fails` treats all the early returns at once: before the first copy is
overwritten each is a failure of the handover. `TheftLosesNothing` is what a
handover is worth, derived from `Handover` alone; `TheftIsShort` bounds the
theft: every step of reptyr goes to a later `pc`, or to the next copy in the loop of
step 5. It is the part of `StealEnds` that a proof can reach; what it leaves is that
reptyr is scheduled and that no step blocks.

`CliProofs` proves `ParseMeans`: for every sequence of arguments over any set of
words, `parse(args) = Meaning(args)`. The fold of the code is the recursive function
of `FoldLeft`; its value after each argument is compared with the meaning of
the arguments so far (the options seen, the words kept, the last of `-l` and `-L`,
whether the first `--` has come), one argument at a time. The library's induction
takes an operator as parameter, which the provers cannot instantiate; the proof goes
through the set of lengths for which the claim holds, which by `EveryNumber` of
`LeastElement` is all of them.

`ProxyProofs` proves for every length of the streams, room of the pty and of the
buffer, number of sizes and of openings of the slave the type of each variable
(`TypeCorrect`), `NoByteLost` (`BytesInOrder`), `LastOutputShown`
(`NothingLeftUnread`) and `TerminalGivenBack` (`TerminalRestored`). A queue is a run
of consecutive bytes (`Run`); lemmas say how a read and a short write cut one and
how two are joined. The invariant places every byte of either stream (`Inward`:
program, pty, buffer, terminal; `Outward`: shown, buffer, pty, as long as the relay
goes on), says that the first hangup is met with an empty queue (`Met`), that the
terminal is raw only inside the relay (`Guarded`), and bounds what the program
writes by what it was asked for (`Owed`, which the range of the buffer needs).

The assumptions are those named in the modules (`FdsAssumption` and the like). The
least free descriptor (`Min` of a nonempty set of naturals) is an element by
`LeastElement`, from the well-foundedness of the naturals.

Only model-checked: liveness (`EveryCallReturns`, `SeizeEnds`,
`StoppedThreadsRunAgain`, `SessionLeaderMoves`, `StealEnds`, `Relayed`,
`WinsizeForwarded`, `ReptyrLeaves`), and of course the refutations. Liveness under
fairness and ENABLED are out of the prover's reach. Every safety property of every
passing run, action properties and refinements included, is a theorem.

## 6. Not modelled

- Memory transfer (`write_bytes`, `read_word`): the scratch page holds what was
  staged; the tail of the last word is zeroed inside the page.
- `seccomp` stops (op 3 of the syscall info), group stops and job control of the
  target: a `SIGSTOP` is one of the engine's internal signals.
- A thread calling `execve`, which replaces all others.
- What `TIOCNOTTY`'s hangup does to the target's children.
- The layout of `msghdr`, `cmsghdr`, `sockaddr` (steal.rs): what they carry is.
- termios values (tty.rs), usage text, exit status and error texts; which texts
  are a pid or a choice of streams (cli.rs) is one word each.
- The listing of `/proc/<pid>/fd` (target.rs): the models take what it returns.
- aarch64 as it stands lacks `nr_socket`, `nr_connect`, `nr_sendmsg`
  (arch/mod.rs:92-94) and does not build; `Arch` models its register operations,
  `Steal` the theft where it can be built.

Observations that no property is about, since no part of the code claims
otherwise:

- Whether stdin is a terminal is looked at only when the move or the theft is done
  (proxy.rs:39; main.rs:117, steal.rs:68): on an error the new pty goes with reptyr
  (`NoTerminal`, `proxy_run`).
- `-T` ignores words after the pid (cli.rs:95-101).
- `-L` waits for a command whose output nobody reads any more (main.rs:136).
- In raw mode ctrl-d is a byte for the slave, not the detach main.rs:116 speaks of.
- A signal that kills reptyr leaves the terminal raw: the guard is a `Drop`.

## 7. Plan

Done: `Arch` and `Hijacker` with `Loan` and `HijackerProofs`; `Session` with
`SessionProofs`; `Inject` with `Move` and `InjectProofs`; `Target` and `Steal` with
`Handover`, `StealProofs` and `HandoverProofs`; `Cli` and `Proxy` with `CliProofs` and
`ProxyProofs`. Left, in this order:

1. An abstract relay (two bounded queues) implemented by `Proxy`, and an abstract
   freeze and thaw of a set of threads implemented by `Session`.
2. Bounds like `TheftIsShort` for the plan of `Inject` and the loops of
   `attach_all`: how far each step of reptyr brings it, as far as that does
   not rest on fairness.
3. A run of `Hijacker` for a kernel without `PTRACE_GET_SYSCALL_INFO`.
