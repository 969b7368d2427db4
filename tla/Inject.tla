------------------------------- MODULE Inject -------------------------------
(***************************************************************************)
(* The redirection plan (src/inject.rs), with what main.rs and target.rs   *)
(* read to make it: the calls injected into the target and what they do to *)
(* its session, process groups, controlling terminal, descriptors, signal  *)
(* disposition and address space.  One action per injected call; a call    *)
(* answers with the kernel's result, or is refused (a limit, a filter),    *)
(* but for close and munmap, which give back what the plan has taken.      *)
(* That the calls run one by one with nothing in between is module         *)
(* Hijacker's business, that the other threads stand still module          *)
(* Session's.                                                              *)
(***************************************************************************)
EXTENDS Integers, FiniteSets, FiniteSetsExt

CONSTANTS
  ISAs,        \* the architectures of the build: "x86_64", "aarch64"
  MaxFd,       \* bound: the target may have descriptors 0 .. MaxFd
  Forces,      \* the values of -s that are tried
  StreamSets,  \* the sets of standard streams that are selected
  Companions,  \* who may be in the target's group: "kid", "mate"
  Kinds,       \* what its descriptors may be at first
  DummyStops   \* what the first stop of an auto-attached child may be: "event",
               \* as after PTRACE_SEIZE, or "signal", as the code expects

ASSUME MaxFdAssumption == MaxFd \in Nat /\ MaxFd >= 2
ASSUME ISAsAssumption == ISAs \subseteq {"x86_64", "aarch64"}
ASSUME CompanionsAssumption == Companions \subseteq {"kid", "mate"}
ASSUME KindsAssumption == Kinds \subseteq {"closed", "old", "file"}
ASSUME ForcesAssumption == Forces \subseteq BOOLEAN
ASSUME StreamSetsAssumption == StreamSets \subseteq SUBSET (0 .. 2)
ASSUME DummyStopsAssumption == DummyStops \subseteq {"event", "signal"}

VARIABLES
  \* The target, and the processes that share its group.
  procs,         \* those alive
  pgrp, sess,    \* their process group and session
  ctty,          \* the target's controlling terminal: "old", "new" or "none"
  fd,            \* what its descriptors are: "closed", "old", "new" or "file"
  sighup,        \* its disposition for SIGHUP
  hupPending,    \* a SIGHUP waits for it
  scratch,       \* the scratch page is mapped
  dummy,         \* the forked child
  fate,          \* the target: "running", "hungup" or "killed"
  \* reptyr.
  isa,           \* its architecture
  pc,
  force,         \* -s
  fds,           \* Plan::fds
  is_session_leader,
  mainThread,    \* the hijacked thread is the main one: h.tid() is the pid
  tty_fd,
  toMove,        \* processes the setpgid loop has not handled
  toDup,         \* descriptors the dup loop has not handled
  failed,
  \* History, read by the properties only.
  disturbed,     \* somebody else acted, or a call was refused without need
  hangup,        \* the old terminal went away
  fd0            \* the descriptors when the plan was made

target == <<procs, pgrp, sess, ctty, fd, sighup, hupPending, scratch, dummy, fate>>
plan   == <<isa, force, fds, is_session_leader, mainThread>>
engine == <<pc, tty_fd, toMove, toDup, failed>>
vars   == <<target, plan, engine, disturbed, hangup, fd0>>

Procs  == {"target", "kid", "mate", "dummy"}
Groups == Procs \cup {"shell", "none"}
Fds    == 0 .. MaxFd
NoFd   == -1
Pcs    == {"plan", "mmap", "sigaction", "notty", "clone", "dummy", "setpgid", "move",
           "setsid", "kill", "reap", "retire", "openat", "sctty", "dup", "close",
           "munmap", "done"}

SessionLeader == sess["target"] = "target"

-----------------------------------------------------------------------------
(* The descriptors on the controlling terminal, and 0-2 with -s; of 0-2    *)
(* only the streams selected.                                              *)
fds_to_redirect(streams, force_stdio) ==
  LET on_tty == IF ctty = "old" THEN {n \in Fds : fd[n] = "old"} ELSE {}
      forced == IF force_stdio THEN 0 .. 2 ELSE {}
  IN  {n \in on_tty \cup forced : n > 2 \/ n \in streams}

\* termios_of: some standard stream is a terminal.
HasTermios == \E n \in 0 .. 2 : fd[n] = "old"

(* The target leads its session, leads a group of the shell's session, or  *)
(* is in the group of a pipeline mate, who may have exited.  A kid is its  *)
(* child, a mate is not.                                                   *)
Init ==
  /\ procs \in {{"target"} \cup s : s \in SUBSET Companions}
  /\ \E leads \in {"session", "group", "nothing"} :
       LET g == IF leads = "nothing" THEN "mate" ELSE "target"
           s == IF leads = "session" THEN "target" ELSE "shell"
       IN  /\ pgrp = [p \in Procs |-> IF p \in procs THEN g ELSE "none"]
           /\ sess = [p \in Procs |-> IF p \in procs THEN s ELSE "none"]
  /\ ctty \in {"old", "none"}
  /\ fd \in [Fds -> Kinds]
  /\ sighup = "default" /\ hupPending = FALSE /\ scratch = FALSE
  /\ dummy = "none" /\ fate = "running"
  /\ isa \in ISAs /\ force \in Forces
  /\ fds \in {fds_to_redirect(streams, force) : streams \in StreamSets} \ {{}}
  /\ force \/ HasTermios
  /\ is_session_leader = SessionLeader
  /\ mainThread \in BOOLEAN
  /\ pc = "plan" /\ tty_fd = NoFd /\ failed = FALSE
  /\ toMove = {} /\ toDup = {}
  /\ disturbed = FALSE /\ hangup = FALSE /\ fd0 = fd

-----------------------------------------------------------------------------
(* The injected calls.                                                     *)

Idle == UNCHANGED <<tty_fd, toMove, toDup, failed>>
Kept == UNCHANGED <<plan, hangup, fd0>>

\* The call pc stands for, on a target that is alive.
Call(here) == pc = here /\ fate = "running"

\* Mutant: the error skips munmap_scratch.
Bail_leaky ==
  /\ pc' = "done" /\ failed' = TRUE
  /\ UNCHANGED <<tty_fd, toMove, toDup>>

\* An error: execute still releases the scratch page.
Bail ==
  /\ pc' = "munmap" /\ failed' = TRUE
  /\ UNCHANGED <<tty_fd, toMove, toDup>>

\* The call is refused and the code returns the error.
Refused ==
  /\ \/ Call("sigaction") \/ Call("clone") \/ Call("openat") \/ Call("sctty")
     \/ Call("dup")
  /\ Bail /\ Kept
  /\ UNCHANGED target

\* Session::attach_all and Hijacker::seize: the target stands still from now on.
Seize ==
  /\ Call("plan")
  /\ pc' = "mmap"
  /\ Idle /\ Kept /\ UNCHANGED target

Mmap ==
  /\ Call("mmap")
  /\ scratch' = TRUE
  /\ pc' = "sigaction"
  /\ Idle /\ Kept
  /\ UNCHANGED <<procs, pgrp, sess, ctty, fd, sighup, hupPending, dummy, fate>>

MmapFails ==
  /\ Call("mmap")
  /\ pc' = "done" /\ failed' = TRUE
  /\ Kept /\ UNCHANGED <<target, tty_fd, toMove, toDup>>

AfterSigaction == IF is_session_leader THEN "notty" ELSE "clone"

\* Mutant: SIGHUP keeps its default action.
IgnoreSighup_omitted ==
  /\ Call("sigaction")
  /\ pc' = AfterSigaction
  /\ Idle /\ Kept /\ UNCHANGED target

\* Ignoring a signal discards one that is pending.
IgnoreSighup ==
  /\ Call("sigaction")
  /\ sighup' = "ignored" /\ hupPending' = FALSE
  /\ pc' = AfterSigaction
  /\ Idle /\ Kept
  /\ UNCHANGED <<procs, pgrp, sess, ctty, fd, scratch, dummy, fate>>

\* Mutant: TIOCNOTTY on stdin, whether or not it is one of the plan.
Notty_stdin ==
  /\ Call("notty")
  /\ IF fd[0] = "old" /\ ctty = "old"
     THEN ctty' = "none" /\ hupPending' = (sighup = "default")
     ELSE UNCHANGED <<ctty, hupPending>>
  /\ pc' = "openat"
  /\ Idle /\ Kept
  /\ UNCHANGED <<procs, pgrp, sess, fd, sighup, scratch, dummy, fate>>

(* TIOCNOTTY on the first descriptor of the plan, whatever it is; the      *)
(* result is ignored.  The kernel hangs up the foreground group.           *)
Notty ==
  /\ Call("notty")
  /\ IF fd[Min(fds)] = "old" /\ ctty = "old"
     THEN ctty' = "none" /\ hupPending' = (sighup = "default")
     ELSE UNCHANGED <<ctty, hupPending>>
  /\ pc' = "openat"
  /\ Idle /\ Kept
  /\ UNCHANGED <<procs, pgrp, sess, fd, sighup, scratch, dummy, fate>>

NottyRefused ==
  /\ Call("notty")
  /\ pc' = "openat"
  /\ Idle /\ Kept /\ UNCHANGED target

-----------------------------------------------------------------------------
(* do_setsid.                                                              *)

ForkChild ==
  /\ Call("clone")
  /\ procs' = procs \cup {"dummy"}
  /\ pgrp' = [pgrp EXCEPT !["dummy"] = pgrp["target"]]
  /\ sess' = [sess EXCEPT !["dummy"] = sess["target"]]
  /\ dummy' = "stopped"
  /\ pc' = "dummy"
  /\ Idle /\ Kept
  /\ UNCHANGED <<ctty, fd, sighup, hupPending, scratch, fate>>

\* for_dummy accepts a stop by SIGSTOP or SIGTRAP only.
ForDummy ==
  /\ Call("dummy")
  /\ \E stop \in DummyStops : IF stop = "signal" THEN pc' = "setpgid" /\ Idle ELSE Bail
  /\ Kept /\ UNCHANGED target

\* The target's group as its id, and the thread's id taken for the pid.
procs_in_pgrp == IF mainThread THEN {p \in procs : pgrp[p] = "target"} ELSE {}

DummySetpgid ==
  /\ Call("setpgid")
  /\ pgrp' = [pgrp EXCEPT !["dummy"] = "dummy"]
  /\ toMove' = procs_in_pgrp \ {"dummy"}
  /\ pc' = "move"
  /\ Kept
  /\ UNCHANGED <<procs, sess, ctty, fd, sighup, hupPending, scratch, dummy, fate,
                 tty_fd, toDup, failed>>

\* setpgid: oneself or a child, never a session leader.
MaySetpgid(p) == p \in {"target", "kid"} /\ sess[p] # p /\ sess[p] = sess["dummy"]

\* An error is ignored; a kid that has called execve may not be moved.
MoveProc(p) ==
  /\ Call("move") /\ p \in toMove
  /\ \/ MaySetpgid(p) /\ pgrp' = [pgrp EXCEPT ![p] = "dummy"]
     \/ (~MaySetpgid(p) \/ p = "kid") /\ UNCHANGED pgrp
  /\ toMove' = toMove \ {p}
  /\ Kept
  /\ UNCHANGED <<procs, sess, ctty, fd, sighup, hupPending, scratch, dummy, fate,
                 pc, tty_fd, toDup, failed>>

MoveRefused(p) ==
  /\ Call("move") /\ p \in toMove
  /\ toMove' = toMove \ {p}
  /\ Kept
  /\ UNCHANGED <<target, pc, tty_fd, toDup, failed>>

MoveDone ==
  /\ Call("move") /\ toMove = {}
  /\ pc' = "setsid"
  /\ Idle /\ Kept /\ UNCHANGED target

\* setsid: no process group may have the id of the new session.
MaySetsid == \A p \in procs : pgrp[p] # "target"

Setsid ==
  /\ Call("setsid") /\ MaySetsid
  /\ sess' = [sess EXCEPT !["target"] = "target"]
  /\ pgrp' = [pgrp EXCEPT !["target"] = "target"]
  /\ ctty' = "none"
  /\ pc' = "kill"
  /\ Idle /\ Kept
  /\ UNCHANGED <<procs, fd, sighup, hupPending, scratch, dummy, fate>>

\* setpgid on the dummy, or setsid, is refused: the dummy is retired.
DanceFails(here) ==
  /\ Call(here)
  /\ pc' = "retire"
  /\ Idle /\ Kept /\ UNCHANGED target

SetpgidFails == DanceFails("setpgid")
SetsidFails  == DanceFails("setsid")

(* Killed by the target, then detached and waited for by its tracer.  The  *)
(* result of the kill is not looked at: a dummy that lives is let loose,   *)
(* as a copy of the target.                                                *)
RetireDummy(end, next) ==
  /\ dummy' = end
  /\ pc' = next
  /\ Kept
  /\ UNCHANGED <<procs, pgrp, sess, ctty, fd, sighup, hupPending, scratch, fate,
                 tty_fd, toMove, toDup>>

Kill        == Call("kill") /\ RetireDummy("zombie", "reap") /\ UNCHANGED failed
KillRefused == Call("kill") /\ RetireDummy("loose", "reap") /\ UNCHANGED failed

\* The error path of setpgid and setsid: the target does not reap the dummy.
Retire        == Call("retire") /\ RetireDummy("zombie", "munmap") /\ failed' = TRUE
RetireRefused == Call("retire") /\ RetireDummy("loose", "munmap") /\ failed' = TRUE

\* wait4 with WNOHANG, in the target.
Reap ==
  /\ Call("reap")
  /\ IF dummy = "zombie"
     THEN dummy' = "reaped" /\ procs' = procs \ {"dummy"}
     ELSE UNCHANGED <<dummy, procs>>
  /\ pc' = "openat"
  /\ Idle /\ Kept
  /\ UNCHANGED <<pgrp, sess, ctty, fd, sighup, hupPending, scratch, fate>>

\* Its result is not looked at either: the zombie stays.
ReapRefused ==
  /\ Call("reap")
  /\ pc' = "openat"
  /\ Idle /\ Kept /\ UNCHANGED target

-----------------------------------------------------------------------------
(* The new terminal.                                                       *)

FreeFds == {n \in Fds : fd[n] = "closed"}

\* Mutant: an error number is taken for a descriptor.
Openat_unchecked ==
  /\ Call("openat")
  /\ tty_fd' = IF FreeFds = {} THEN -24 ELSE Min(FreeFds)
  /\ fd' = [n \in Fds |-> IF n = tty_fd' THEN "new" ELSE fd[n]]
  /\ pc' = "sctty"
  /\ Kept
  /\ UNCHANGED <<procs, pgrp, sess, ctty, sighup, hupPending, scratch, dummy, fate,
                 toMove, toDup, failed>>

Openat ==
  /\ Call("openat") /\ FreeFds # {}
  /\ tty_fd' = Min(FreeFds)
  /\ fd' = [fd EXCEPT ![Min(FreeFds)] = "new"]
  /\ pc' = "sctty"
  /\ Kept
  /\ UNCHANGED <<procs, pgrp, sess, ctty, sighup, hupPending, scratch, dummy, fate,
                 toMove, toDup, failed>>

\* Only a session leader without a controlling terminal may take one.
MaySctty == SessionLeader /\ ctty = "none"

\* Mutant: the result of TIOCSCTTY is not looked at.
Sctty_unchecked ==
  /\ Call("sctty")
  /\ ctty' = IF MaySctty THEN "new" ELSE ctty
  /\ pc' = "dup" /\ toDup' = fds
  /\ Kept
  /\ UNCHANGED <<procs, pgrp, sess, fd, sighup, hupPending, scratch, dummy, fate,
                 tty_fd, toMove, failed>>

Sctty ==
  /\ Call("sctty")
  /\ IF MaySctty
     THEN /\ ctty' = "new"
          /\ pc' = "dup" /\ toDup' = fds
          /\ UNCHANGED <<tty_fd, toMove, failed>>
     ELSE Bail /\ UNCHANGED ctty
  /\ Kept
  /\ UNCHANGED <<procs, pgrp, sess, fd, sighup, hupPending, scratch, dummy, fate>>

\* dup2 of a descriptor onto itself does nothing; dup3 refuses it.
Dup(n) ==
  /\ Call("dup") /\ toDup # {} /\ n = Min(toDup)
  /\ IF n = tty_fd /\ isa = "aarch64"
     THEN Bail /\ UNCHANGED fd
     ELSE /\ fd' = [fd EXCEPT ![n] = "new"]
          /\ toDup' = toDup \ {n}
          /\ UNCHANGED <<pc, tty_fd, toMove, failed>>
  /\ Kept
  /\ UNCHANGED <<procs, pgrp, sess, ctty, sighup, hupPending, scratch, dummy, fate>>

\* Mutant: the loop stops at the first error, and the error is forgotten.
DupDone_early ==
  /\ Call("dup")
  /\ pc' = "close"
  /\ Idle /\ Kept /\ UNCHANGED target

DupDone ==
  /\ Call("dup") /\ toDup = {}
  /\ pc' = "close"
  /\ Idle /\ Kept /\ UNCHANGED target

\* Mutant: the extra descriptor stays open.
Close_omitted ==
  /\ Call("close")
  /\ pc' = "munmap"
  /\ Idle /\ Kept /\ UNCHANGED target

Close ==
  /\ Call("close")
  /\ fd' = [fd EXCEPT ![tty_fd] = "closed"]
  /\ pc' = "munmap"
  /\ Idle /\ Kept
  /\ UNCHANGED <<procs, pgrp, sess, ctty, sighup, hupPending, scratch, dummy, fate>>

Munmap ==
  /\ Call("munmap")
  /\ scratch' = FALSE
  /\ pc' = "done"
  /\ Idle /\ Kept
  /\ UNCHANGED <<procs, pgrp, sess, ctty, fd, sighup, hupPending, dummy, fate>>

-----------------------------------------------------------------------------
(* What happens around it (external), until reptyr is done.                *)

Environment == UNCHANGED <<scratch, dummy, plan, engine, fd0>>

\* Between the reading of /proc and the seize the target runs.
TargetCloses(n) ==
  /\ Call("plan") /\ fd[n] # "closed"
  /\ fd' = [fd EXCEPT ![n] = "closed"]
  /\ Environment
  /\ UNCHANGED <<procs, pgrp, sess, ctty, sighup, hupPending, fate, hangup>>

TargetSetsid ==
  /\ Call("plan") /\ MaySetsid
  /\ sess' = [sess EXCEPT !["target"] = "target"]
  /\ pgrp' = [pgrp EXCEPT !["target"] = "target"]
  /\ ctty' = "none"
  /\ Environment
  /\ UNCHANGED <<procs, fd, sighup, hupPending, fate, hangup>>

ProcExits(p) ==
  /\ pc # "done" /\ p \in procs \cap {"kid", "mate"}
  /\ procs' = procs \ {p} /\ toMove' = toMove \ {p}
  /\ UNCHANGED <<pgrp, sess, ctty, fd, sighup, hupPending, scratch, dummy, fate, plan,
                 pc, tty_fd, toDup, failed, hangup, fd0>>

\* The old terminal goes away: it is nobody's any more, and its session is
\* hung up.
Hangup ==
  /\ pc # "done" /\ ~hangup /\ fate = "running"
  /\ hangup' = TRUE
  /\ hupPending' = (hupPending \/ (ctty = "old" /\ sighup = "default"))
  /\ ctty' = IF ctty = "old" THEN "none" ELSE ctty
  /\ Environment
  /\ UNCHANGED <<procs, pgrp, sess, fd, sighup, fate>>

\* A SIGHUP takes effect when the target runs: before the seize, after it,
\* or when reptyr hands it back on detach.
HangupKills ==
  /\ pc \in {"plan", "done"} /\ fate = "running" /\ hupPending
  /\ fate' = "hungup" /\ hupPending' = FALSE
  /\ pc' = "done"
  /\ UNCHANGED <<procs, pgrp, sess, ctty, fd, sighup, scratch, dummy, plan, tty_fd,
                 toMove, toDup, failed, hangup, fd0>>

\* SIGKILL: every further call is an error.
Killed ==
  /\ pc # "done" /\ fate = "running"
  /\ fate' = "killed"
  /\ pc' = "done" /\ failed' = TRUE
  /\ UNCHANGED <<procs, pgrp, sess, ctty, fd, sighup, hupPending, scratch, dummy,
                 plan, tty_fd, toMove, toDup, hangup, fd0>>

\* reptyr exits after an error, and a dummy it left stopped runs the
\* target's program as a copy of it.
DummyRuns ==
  /\ pc = "done" /\ failed /\ dummy = "stopped"
  /\ dummy' = "loose"
  /\ UNCHANGED <<procs, pgrp, sess, ctty, fd, sighup, hupPending, scratch, fate, plan,
                 engine, hangup, fd0>>

-----------------------------------------------------------------------------
DoSetsid ==
  \/ ForkChild \/ ForDummy \/ DummySetpgid \/ (\E p \in Procs : MoveProc(p))
  \/ MoveDone \/ Setsid \/ (SetsidFails /\ ~MaySetsid) \/ Kill \/ Retire \/ Reap

\* The plan as far as nobody interferes and no call is refused without need.
Execute ==
  /\ \/ Seize \/ Mmap \/ IgnoreSighup \/ Notty \/ DoSetsid
     \/ Openat \/ Sctty \/ (\E n \in Fds : Dup(n)) \/ DupDone \/ Close \/ Munmap
  /\ UNCHANGED disturbed

Disturbance ==
  /\ \/ MmapFails \/ Refused \/ SetpgidFails \/ (SetsidFails /\ MaySetsid)
     \/ (\E n \in Fds : TargetCloses(n)) \/ (\E p \in Procs : ProcExits(p))
     \/ (\E p \in Procs : MoveRefused(p))
     \/ NottyRefused \/ KillRefused \/ RetireRefused \/ ReapRefused
     \/ TargetSetsid \/ Hangup \/ HangupKills \/ Killed \/ DummyRuns
  /\ disturbed' = TRUE

Terminated == pc = "done" /\ UNCHANGED vars

Next == Execute \/ Disturbance \/ Terminated

Spec == Init /\ [][Next]_vars

(* The tracer goes on: it is never scheduled out for ever, and no call of  *)
(* the plan blocks.                                                        *)
FairSpec == Spec /\ WF_vars(Execute)

-----------------------------------------------------------------------------
(* Properties.                                                             *)

TypeOK ==
  /\ procs \subseteq Procs
  /\ pgrp \in [Procs -> Groups] /\ sess \in [Procs -> Groups]
  /\ ctty \in {"old", "new", "none"}
  /\ fd \in [Fds -> {"closed", "old", "new", "file"}]
  /\ sighup \in {"default", "ignored"} /\ hupPending \in BOOLEAN
  /\ scratch \in BOOLEAN /\ fate \in {"running", "hungup", "killed"}
  /\ dummy \in {"none", "stopped", "zombie", "reaped", "loose"}
  /\ pc \in Pcs /\ force \in BOOLEAN /\ fds \subseteq Fds
  /\ is_session_leader \in BOOLEAN /\ mainThread \in BOOLEAN /\ isa \in ISAs
  /\ tty_fd \in Fds \cup {NoFd}
  /\ toMove \subseteq Procs /\ toDup \subseteq Fds
  /\ failed \in BOOLEAN /\ disturbed \in BOOLEAN /\ hangup \in BOOLEAN
  /\ fd0 \in [Fds -> {"closed", "old", "file"}]

Succeeded == pc = "done" /\ fate = "running" /\ ~failed

(* A successful attach leaves the target the leader of a session whose     *)
(* terminal is the new pty, with every planned descriptor on it and no     *)
(* descriptor more than it had.  One case is left out: where dup2 accepts  *)
(* a descriptor onto itself, the new one must not be a planned one.        *)
(* (inject.rs:88-169; arch/x86_64.rs:85-87, arch/aarch64.rs:98-100)        *)
TargetMoved ==
  Succeeded =>
    /\ SessionLeader /\ ctty = "new"
    /\ isa = "aarch64" \/ tty_fd \notin fds => \A n \in fds : fd[n] = "new"
    /\ \A n \in Fds \ fds : fd[n] \in {fd0[n], "closed"}

(* A failed attach redirects nothing unless the terminal is already the    *)
(* target's: it never ends up reading a terminal that is not its own.      *)
(* (inject.rs:145-165)                                                     *)
NothingRedirectedWithoutTerminal ==
  ctty # "new" => \A n \in Fds \ {tty_fd} : fd[n] # "new"

(* Losing the old terminal by the plan's own steps never kills the target: *)
(* only a hangup from outside does.  (inject.rs:103-117)                   *)
MoveDoesNotKill == fate = "hungup" => hangup

(* The scratch page is gone once reptyr is done, on every path.            *)
(* (inject.rs:88-94)                                                       *)
ScratchReleased == pc = "done" /\ fate = "running" => ~scratch

\* A session leader with a descriptor to spare (on aarch64 not one of the
\* plan) whose terminal, if it has one, is on the first descriptor of the plan.
ReadyLeader ==
  /\ pc = "plan" /\ SessionLeader /\ FreeFds # {}
  /\ isa = "x86_64" \/ Min(FreeFds) \notin fds
  /\ ctty = "old" => fd[Min(fds)] = "old"

(* Such a leader is moved, whoever is in its group and whichever thread is *)
(* hijacked, when nothing gets in the way.  (inject.rs:97-169)             *)
SessionLeaderMoves == ReadyLeader ~> Succeeded \/ disturbed

-----------------------------------------------------------------------------
(* The move as it looks from outside.                                      *)

Outcome ==
  CASE pc # "done" -> "open"
    [] pc = "done" /\ failed -> "failed"
    [] pc = "done" /\ ~failed /\ fate = "running" -> "moved"
    [] OTHER -> "dead"

Abs == INSTANCE Move WITH
  planned <- fds, spare <- tty_fd, outcome <- Outcome,
  streams <- {n \in Fds : fd[n] = "new"} \ {tty_fd}

(* Call by call the plan implements the move: every injected call, every   *)
(* refusal, hangup and kill is a step of Move, or none.                    *)
(* (inject.rs:88-169, main.rs:103-117)                                     *)
MoveImplemented == Abs!Spec

-----------------------------------------------------------------------------
(* What the documentation says, and the code does not do.                  *)

\* A target that leads no session, alone in its group, hijacked through its
\* main thread, with a descriptor to spare.
LoneTarget ==
  /\ pc = "plan" /\ ~SessionLeader /\ procs = {"target"}
  /\ mainThread /\ FreeFds # {}

(* README.md:20-22: "Controlling-terminal move [...], including the        *)
(* process-group-leader case that plain `setsid` can't handle."            *)
GroupLeaderMoves == LoneTarget ~> Succeeded \/ disturbed

(* README.md:27-28: "-s: unconditionally redirect fds 0-2".                *)
StdioRedirected == Succeeded /\ force => \A n \in fds \cap 0 .. 2 : fd[n] = "new"
=============================================================================
