-------------------------------- MODULE Steal --------------------------------
(***************************************************************************)
(* reptyr -T (src/steal.rs): the terminal emulator is found through /proc  *)
(* and held with ptrace, its master of the target's pty is sent to reptyr  *)
(* over a socket, the session leader is made immune to SIGHUP, and the     *)
(* emulator's copies are overwritten with /dev/null.  A system call of the *)
(* emulator or of the leader can be refused, and both can die at any time: *)
(* then every further call in them fails.  How a call is injected is       *)
(* Hijacker's matter, how threads are stopped Session's.                   *)
(***************************************************************************)
EXTENDS Target, FiniteSets, FiniteSetsExt

CONSTANTS
  Fds,    \* descriptors the emulator can have
  Name,   \* words the name of the session leader's program has at most
  Minors  \* minor numbers of terminals

\* The kernel prints the device number as a signed 32-bit number.
ASSUME FdsAssumption ==
  /\ Fds \subseteq Nat /\ IsFiniteSet(Fds) /\ Name \in Nat
  /\ \A m \in Minors : m \in Nat /\ m < 256 * 2048

VARIABLES
  pc,       \* where reptyr is
  stat,     \* the session leader for the kernel, until it is read
  leader,   \* the session leader: its state, its scratch page, SIGHUP
  emu,      \* the emulator: its state, its scratch page, its descriptors
  local,    \* the variables of steal_inner
  sock,     \* our socket: "none", "bound", or the master's "mail" is in it
  master,   \* we have the master
  why       \* the reason the theft failed

vars == <<pc, stat, leader, emu, local, sock, master, why>>

None == -1

Procs ==
  [pid : {7}, comm : BoundedSeq({Close, State, 9}, Name), ppid : {3}, pgrp : {8}, session : {7},
   tty : {NoTty} \cup {<<136, m>> : m \in Minors}]

Points ==
  {"inspect", "attach", "mmap", "find", "bind", "socket", "connect", "unconnect", "send", "recv",
   "lattach", "lmmap", "lsig", "lmunmap", "lrelease", "null", "dup", "closenull", "closesock",
   "munmap", "release", "proxy", "gone"}

Leaders ==
  [state : {"runs", "held", "dead", "hungup"}, scratch : BOOLEAN, sighup : {"default", "ignored"}]

Emulators ==
  [state : {"runs", "held", "dead"}, scratch : BOOLEAN,
   fd  : [Fds -> {"free", "file", "mine", "other", "sock", "null"}],
   was : [Fds -> {"free", "file", "mine", "other"}]]

Locals ==
  [masters : SUBSET Fds, todo : SUBSET Fds, missed : SUBSET Fds,
   child_fd : Fds \cup {None}, nullfd : Fds \cup {None}]

TypeOK ==
  /\ pc \in Points /\ stat \in {<< >>} \cup {<<p>> : p \in Procs}
  /\ leader \in Leaders /\ emu \in Emulators /\ local \in Locals
  /\ sock \in {"none", "bound", "mail"} /\ master \in BOOLEAN
  /\ why \in {"", "inspect", "seize", "mmap", "find", "connect", "send", "recv", "leader",
              "null", "terminal"}

Init ==
  /\ pc = "inspect" /\ sock = "none" /\ master = FALSE /\ why = ""
  /\ stat \in {<<p>> : p \in Procs}
  /\ leader \in [state : {"runs"}, scratch : {FALSE},
                 sighup : {"default", "ignored"}]
  /\ \E fd \in [Fds -> {"free", "file", "mine", "other"}] :
       emu = [state |-> "runs", scratch |-> FALSE, fd |-> fd, was |-> fd]
  /\ local = [masters |-> {}, todo |-> {}, missed |-> {}, child_fd |-> None, nullfd |-> None]

Step(from, to) == pc = from /\ pc' = to

\* Mutant: nothing is unmapped on the way out.
Bail_leaky(from, reason) == Step(from, "release") /\ why' = reason /\ sock' = "none"

\* steal_inner returns an error.
Bail(from, reason) == Step(from, "munmap") /\ why' = reason /\ sock' = "none"

Free == {fd \in Fds : emu.fd[fd] = "free"}

\* An injected call changes a descriptor of the emulator; it has no effect,
\* and fails, when the emulator is dead.
Sets(fd, what) == emu' = IF emu.state = "held" THEN [emu EXCEPT !.fd[fd] = what] ELSE emu

Opens(what) == emu.state = "held" /\ Free # {} /\ Sets(Min(Free), what)

-----------------------------------------------------------------------------
(* In the emulator, up to the master in our hands.                         *)

\* The terminal, its session and the parent of the session's leader; the
\* terminal must be a pty.
Inspect ==
  /\ pc = "inspect" /\ stat' = << >>
  /\ \/ controlling_tty(stat_line(stat[1])) # NoTty /\ Step("inspect", "attach") /\ UNCHANGED why
     \/ Step("inspect", "gone") /\ why' = "inspect"
  /\ UNCHANGED <<leader, emu, local, sock, master>>

Attach ==
  \/ /\ Step("attach", "mmap") /\ emu.state = "runs"
     /\ emu' = [emu EXCEPT !.state = "held"]
     /\ UNCHANGED <<stat, leader, local, sock, master, why>>
  \/ /\ Step("attach", "gone") /\ why' = "seize"
     /\ UNCHANGED <<stat, leader, emu, local, sock, master>>

\* Without a page the engine and the session are dropped at once.
Mmap ==
  \/ /\ Step("mmap", "find") /\ emu.state = "held"
     /\ emu' = [emu EXCEPT !.scratch = TRUE]
     /\ UNCHANGED <<stat, leader, local, sock, master, why>>
  \/ /\ Step("mmap", "release") /\ why' = "mmap"
     /\ UNCHANGED <<stat, leader, emu, local, sock, master>>

\* TIOCGPTN on every ptmx descriptor; one where it is refused is passed over.
find_master_fds ==
  \/ /\ pc = "find" /\ emu.state = "held"
     /\ \E refused \in SUBSET {fd \in Fds : emu.fd[fd] \in {"mine", "other"}} :
          LET mine == {fd \in Fds : emu.fd[fd] = "mine"}
          IN  /\ mine \ refused # {}
              /\ local' = [local EXCEPT !.masters = mine \ refused, !.missed = mine \cap refused]
     /\ pc' = "bind"
     /\ UNCHANGED <<stat, leader, emu, sock, master, why>>
  \/ /\ Bail("find", "find") /\ UNCHANGED <<stat, leader, emu, local, master>>

Bind ==
  \/ /\ Step("bind", "socket") /\ sock' = "bound"
     /\ UNCHANGED <<stat, leader, emu, local, master, why>>
  \/ /\ Bail("bind", "find") /\ UNCHANGED <<stat, leader, emu, local, master>>

\* Mutant: an errno is taken for the descriptor.
RemoteSocket_unchecked ==
  /\ Step("socket", "connect")
  /\ \/ Opens("sock") /\ local' = [local EXCEPT !.child_fd = Min(Free)]
     \/ UNCHANGED emu /\ local' = [local EXCEPT !.child_fd = -24]
  /\ UNCHANGED <<stat, leader, sock, master, why>>

RemoteSocket ==
  \/ /\ Step("socket", "connect") /\ Opens("sock")
     /\ local' = [local EXCEPT !.child_fd = Min(Free)]
     /\ UNCHANGED <<stat, leader, sock, master, why>>
  \/ /\ Bail("socket", "connect") /\ UNCHANGED <<stat, leader, emu, local, master>>

\* Mutant: the socket stays open when it cannot be connected.
RemoteConnect_leaks ==
  \/ /\ Step("connect", "send") /\ emu.state = "held"
     /\ UNCHANGED <<stat, leader, emu, local, sock, master, why>>
  \/ /\ Bail("connect", "connect") /\ UNCHANGED <<stat, leader, emu, local, master>>

\* An error of the engine itself leaves at once, a refusal closes the socket.
RemoteConnect ==
  \/ /\ emu.state = "held" /\ (Step("connect", "send") \/ Step("connect", "unconnect"))
     /\ UNCHANGED <<stat, leader, emu, local, sock, master, why>>
  \/ /\ emu.state = "dead" /\ Bail("connect", "connect")
     /\ UNCHANGED <<stat, leader, emu, local, master>>

CloseUnconnected ==
  /\ Bail("unconnect", "connect") /\ Sets(local.child_fd, "free")
  /\ UNCHANGED <<stat, leader, local, master>>

\* Mutant: the result of sendmsg is not looked at.
send_fd_unchecked ==
  /\ Step("send", "recv")
  /\ (emu.state = "held" /\ sock' = "mail") \/ UNCHANGED sock
  /\ UNCHANGED <<stat, leader, emu, local, master, why>>

\* The first of the masters travels in the message.
send_fd ==
  \/ /\ Step("send", "recv") /\ emu.state = "held" /\ sock' = "mail"
     /\ UNCHANGED <<stat, leader, emu, local, master, why>>
  \/ /\ Bail("send", "send") /\ UNCHANGED <<stat, leader, emu, local, master>>

\* Mutant: a message that brings no descriptor is taken for one that does.
recv_fd_unchecked ==
  /\ Step("recv", "lattach") /\ sock = "mail"
  /\ sock' = "bound" /\ \E got \in BOOLEAN : master' = got
  /\ UNCHANGED <<stat, leader, emu, local, why>>

\* The wait for the message has no timeout; the descriptor is lost when we
\* have no room for it.
recv_fd ==
  /\ sock = "mail"
  /\ \/ /\ Step("recv", "lattach") /\ sock' = "bound" /\ master' = TRUE
        /\ UNCHANGED <<stat, leader, emu, local, why>>
     \/ /\ Bail("recv", "recv") /\ UNCHANGED <<stat, leader, emu, local, master>>

-----------------------------------------------------------------------------
(* In the session leader, while the emulator stands still.                 *)

LeaderAttach ==
  \/ /\ Step("lattach", "lmmap") /\ leader.state = "runs"
     /\ leader' = [leader EXCEPT !.state = "held"]
     /\ UNCHANGED <<stat, emu, local, sock, master, why>>
  \/ /\ Bail("lattach", "leader") /\ UNCHANGED <<stat, leader, emu, local, master>>

Released(p) == [p EXCEPT !.state = IF @ = "held" THEN "runs" ELSE @]

LeaderMmap ==
  \/ /\ Step("lmmap", "lsig") /\ leader.state = "held"
     /\ leader' = [leader EXCEPT !.scratch = TRUE]
     /\ UNCHANGED <<stat, emu, local, sock, master, why>>
  \/ /\ Bail("lmmap", "leader") /\ leader' = Released(leader)
     /\ UNCHANGED <<stat, emu, local, master>>

\* Mutant: a refused rt_sigaction is passed over.
LeaderSighup_passed ==
  /\ Step("lsig", "lmunmap")
  /\ \/ leader.state = "held" /\ leader' = [leader EXCEPT !.sighup = "ignored"]
     \/ UNCHANGED leader
  /\ UNCHANGED <<stat, emu, local, sock, master, why>>

\* The result is kept until the leader is free again.
LeaderSighup ==
  /\ Step("lsig", "lmunmap")
  /\ \/ /\ leader.state = "held" /\ leader' = [leader EXCEPT !.sighup = "ignored"]
        /\ UNCHANGED why
     \/ why' = "leader" /\ UNCHANGED leader
  /\ UNCHANGED <<stat, emu, local, sock, master>>

LeaderMunmap ==
  /\ Step("lmunmap", "lrelease")
  /\ leader' = [leader EXCEPT !.scratch = FALSE]
  /\ UNCHANGED <<stat, emu, local, sock, master, why>>

\* Mutant: the theft goes on whatever came of it.
LeaderRelease_goesOn ==
  /\ Step("lrelease", "null") /\ leader' = Released(leader)
  /\ UNCHANGED <<stat, emu, local, sock, master, why>>

LeaderRelease ==
  /\ \/ Step("lrelease", "null") /\ why = "" /\ UNCHANGED <<stat, sock, why>>
     \/ Bail("lrelease", "leader") /\ (why # "" \/ leader.state # "held")
  /\ leader' = Released(leader)
  /\ UNCHANGED <<stat, emu, local, master>>

-----------------------------------------------------------------------------
(* Back in the emulator: its copies go.                                    *)

OpenNull ==
  \/ /\ Step("null", "dup") /\ Opens("null")
     /\ local' = [local EXCEPT !.nullfd = Min(Free), !.todo = local.masters]
     /\ UNCHANGED <<stat, leader, sock, master, why>>
  \/ /\ Step("null", "closesock") /\ emu.state = "held"
     /\ local' = [local EXCEPT !.missed = @ \cup local.masters]
     /\ UNCHANGED <<stat, leader, emu, sock, master, why>>
  \/ /\ emu.state = "dead" /\ Bail("null", "null") /\ UNCHANGED <<stat, leader, emu, local, master>>

\* Mutant: only the descriptor that was sent is overwritten.
Neutralize_first ==
  /\ Step("dup", "closenull") /\ Sets(Min(local.todo), "null")
  /\ local' = [local EXCEPT !.todo = {}]
  /\ UNCHANGED <<stat, leader, sock, master, why>>

\* Results are not looked at.
Neutralize ==
  /\ local.todo # {}
  /\ Step("dup", IF Cardinality(local.todo) = 1 THEN "closenull" ELSE "dup")
  /\ \/ /\ Sets(Min(local.todo), "null")
        /\ local' = [local EXCEPT !.todo = @ \ {Min(local.todo)}]
     \/ /\ local' = [local EXCEPT !.todo = @ \ {Min(local.todo)},
                                  !.missed = @ \cup {Min(local.todo)}]
        /\ UNCHANGED emu
  /\ UNCHANGED <<stat, leader, sock, master, why>>

CloseNull ==
  /\ Step("closenull", "closesock") /\ Sets(local.nullfd, "free")
  /\ UNCHANGED <<stat, leader, local, sock, master, why>>

\* steal_inner returns: the socket is dropped.
CloseSocket ==
  /\ Step("closesock", "munmap") /\ Sets(local.child_fd, "free")
  /\ sock' = "none"
  /\ UNCHANGED <<stat, leader, local, master, why>>

Munmap ==
  /\ Step("munmap", "release")
  /\ emu' = [emu EXCEPT !.scratch = FALSE]
  /\ UNCHANGED <<stat, leader, local, sock, master, why>>

\* finish can fail when the emulator is dead.
Release ==
  /\ \/ Step("release", "proxy") /\ why = "" /\ UNCHANGED <<master, why>>
     \/ Step("release", "gone") /\ why # "" /\ master' = FALSE /\ UNCHANGED why
     \/ Step("release", "gone") /\ why = "" /\ emu.state = "dead"
          /\ master' = FALSE /\ why' = "seize"
  /\ emu' = Released(emu)
  /\ UNCHANGED <<stat, leader, local, sock>>

\* The relay is Proxy's matter; it refuses to start without a terminal.
proxy_run ==
  /\ Step("proxy", "gone")
  /\ master' = FALSE /\ (why' = why \/ why' = "terminal")
  /\ UNCHANGED <<stat, leader, emu, local, sock>>

Reptyr ==
  \/ Inspect \/ Attach \/ Mmap \/ find_master_fds \/ Bind
  \/ RemoteSocket \/ RemoteConnect \/ CloseUnconnected \/ send_fd \/ recv_fd
  \/ LeaderAttach \/ LeaderMmap \/ LeaderSighup \/ LeaderMunmap \/ LeaderRelease
  \/ OpenNull \/ Neutralize \/ CloseNull \/ CloseSocket \/ Munmap \/ Release \/ proxy_run

-----------------------------------------------------------------------------
(* The emulator and the leader.                                            *)

\* Whoever keeps the pty alive.
Held == master \/ sock = "mail" \/ \E fd \in Fds : emu.fd[fd] = "mine"

\* When nobody holds the pty any more the kernel hangs it up, which can be
\* the leader's death (LeaderDies).
EmulatorDies ==
  /\ pc \notin {"inspect", "gone"} /\ emu.state # "dead"
  /\ emu' = [emu EXCEPT !.state = "dead", !.scratch = FALSE, !.fd = [fd \in Fds |-> "free"]]
  /\ UNCHANGED <<stat, pc, leader, local, sock, master, why>>

\* It reads the end of its terminal from /dev/null, closes it and sends the
\* session a SIGHUP.
EmulatorGivesUp ==
  /\ emu.state = "runs"
  /\ \E fd \in Fds :
       /\ emu.was[fd] = "mine" /\ emu.fd[fd] = "null"
       /\ emu' = [emu EXCEPT !.fd[fd] = "free"]
  /\ leader' = IF leader.state = "runs" /\ leader.sighup = "default"
               THEN [leader EXCEPT !.state = "hungup"] ELSE leader
  /\ UNCHANGED <<stat, pc, local, sock, master, why>>

LeaderDies ==
  /\ pc \notin {"inspect", "gone"} /\ leader.state \in {"runs", "held"}
  /\ leader' = [leader EXCEPT !.state = "dead", !.scratch = FALSE]
  /\ UNCHANGED <<stat, pc, emu, local, sock, master, why>>

Next == Reptyr \/ EmulatorDies \/ EmulatorGivesUp \/ LeaderDies

Spec == Init /\ [][Next]_vars

\* reptyr is scheduled; neither the emulator nor the leader has to do a thing.
FairSpec == Spec /\ WF_vars(Reptyr)

-----------------------------------------------------------------------------
(* Properties.                                                             *)

\* Whatever the program is called and whichever terminal it has, what is read
\* of its stat line is what the kernel put there (stat_ids, controlling_tty,
\* ppid_of).
InspectsRight ==
  \A p \in ToSet(stat) :
    /\ controlling_tty(stat_line(p)) = p.tty
    /\ session_id(stat_line(p)) = p.session /\ ppid_of(stat_line(p)) = p.ppid

\* While reptyr is at work and the emulator lives, somebody holds the target's
\* master: it is never overwritten before ours has arrived (send_fd, recv_fd).
MasterHeld ==
  pc # "gone" /\ emu.state # "dead" /\ (\E fd \in Fds : emu.was[fd] = "mine") => Held

\* When the theft succeeds the emulator competes for the pty only with copies
\* it refused to name or to give up (step 5 of steal_inner).
OneReader == pc = "proxy" => {fd \in Fds : emu.fd[fd] = "mine"} \subseteq local.missed

\* An emulator whose terminal ends in /dev/null cannot kill the session: the
\* leader is immune before the emulator runs again (step 4 of steal_inner).
LeaderSurvives == leader.state # "hungup"

\* A theft that fails leaves the emulator its descriptors as they were; only a
\* socket that was connected is forgotten in it.
FailureLeavesEmulator ==
  pc = "gone" /\ why \notin {"", "terminal"} /\ emu.state # "dead" =>
    \A fd \in Fds :
      \/ emu.fd[fd] = emu.was[fd]
      \/ emu.fd[fd] = "sock" /\ why \in {"send", "recv", "leader"}

\* However the theft ends, emulator and leader run again and have no scratch
\* page left (munmap_scratch, detach_all, Drop).
NothingHeld ==
  pc \in {"proxy", "gone"} =>
    /\ emu.state # "held" /\ leader.state # "held"
    /\ ~emu.scratch /\ ~leader.scratch

\* The theft ends: the one blocking read is made only when the message is
\* there (send_fd, recv_fd).
StealEnds == <>(pc = "gone")

-----------------------------------------------------------------------------
(* The theft as it looks from outside.                                     *)

Emulator == IF emu.state = "held" THEN "still" ELSE emu.state

Mine == {fd \in Fds : emu.fd[fd] = "mine"}

MineAtFirst == {fd \in Fds : emu.was[fd] = "mine"}

Ours == IF master THEN "here" ELSE IF sock = "mail" THEN "coming" ELSE "none"

Result ==
  IF why \notin {"", "terminal"} THEN "failed"
  ELSE IF pc \in {"proxy", "gone"} THEN "stolen" ELSE "open"

Abs == INSTANCE Handover WITH
  emulator <- Emulator, all <- MineAtFirst, copies <- Mine, ours <- Ours,
  immune <- (leader.sighup = "ignored"), hungup <- (leader.state = "hungup"),
  outcome <- Result

\* Call by call the theft implements the handover: nothing is given up early,
\* and nothing at all when the theft fails (steal_inner).
HandoverKept == Abs!Spec
=============================================================================
