---------------------------- MODULE HandoverProofs ----------------------------
(***************************************************************************)
(* Steal implements Handover, for every set of descriptors: each call of   *)
(* reptyr -T is a step of the handover or leaves it where it is.           *)
(***************************************************************************)
EXTENDS StealProofs

\* The master in our hands and the message it travels in, and SIGHUP after a
\* theft that went well.
Route ==
  /\ master => pc \in {"lattach", "lmmap", "lsig", "lmunmap", "lrelease", "null", "dup",
                       "closenull", "closesock", "munmap", "release", "proxy"}
  /\ sock = "mail" => pc = "recv"
  /\ pc \in {"munmap", "release", "proxy"} /\ why = "" => leader.sighup = "ignored"

\* A copy of the master was one from the start, something is sent, and what is
\* closed in the emulator was free before.
Slots ==
  /\ \A fd \in Fds : emu.fd[fd] = "mine" => emu.was[fd] = "mine"
  /\ pc \in {"bind", "socket", "connect", "unconnect", "send"} =>
       local.masters # {} /\ \A fd \in local.masters : emu.was[fd] = "mine"
  /\ pc \in {"dup", "closenull", "closesock"} =>
       local.child_fd \in Fds /\ emu.was[local.child_fd] = "free"
  /\ pc \in {"dup", "closenull"} => local.nullfd \in Fds /\ emu.was[local.nullfd] = "free"

Ahead == {"attach", "mmap", "find", "bind", "socket", "connect", "send"}

\* Nobody is given a copy of the master, in the emulator or by it.
LEMMA RouteStep == IInv /\ Route /\ [Next]_vars => Route'
<1>. SUFFICES ASSUME IInv, Route, [Next]_vars PROVE Route'
  OBVIOUS
<1>0. Outcome /\ Immune /\ leader \in Leaders
  BY DEF IInv, TypeOK
<1>a. pc \in Ahead => ~master /\ sock # "mail"
  BY DEF IInv, TypeOK, Route, Ahead
<1>b. ASSUME ~master', sock' = "mail" => pc' = "recv",
             pc' \in {"munmap", "release", "proxy"} => why' # ""
      PROVE  Route'
  BY <1>b DEF Route
<1>. USE DEF Step, Bail
<1>1. CASE UNCHANGED vars
  BY <1>1 DEF Route, vars
<1>2. CASE Inspect
  BY <1>0, <1>2 DEF Route, Inspect
<1>3. CASE Attach
  BY <1>a, <1>b, <1>3 DEF Ahead, Attach
<1>4. CASE Mmap
  BY <1>a, <1>b, <1>4 DEF Ahead, Mmap
<1>5. CASE find_master_fds
  BY <1>a, <1>b, <1>5 DEF Ahead, find_master_fds
<1>6. CASE Bind
  BY <1>a, <1>b, <1>6 DEF Ahead, Bind
<1>7. CASE RemoteSocket
  BY <1>a, <1>b, <1>7 DEF Ahead, RemoteSocket
<1>8. CASE RemoteConnect
  BY <1>a, <1>b, <1>8 DEF Ahead, RemoteConnect
<1>9. CASE CloseUnconnected
  BY <1>0, <1>9 DEF Route, CloseUnconnected
<1>10. CASE send_fd
  BY <1>a, <1>b, <1>10 DEF Ahead, send_fd
<1>11. CASE recv_fd
  BY <1>0, <1>11 DEF Route, recv_fd
<1>12. CASE LeaderAttach
  BY <1>0, <1>12 DEF Route, LeaderAttach
<1>13. CASE LeaderMmap
  BY <1>0, <1>13 DEF Route, LeaderMmap
<1>14. CASE LeaderSighup
  BY <1>0, <1>14 DEF Route, LeaderSighup
<1>15. CASE LeaderMunmap
  BY <1>0, <1>15 DEF Route, LeaderMunmap
<1>16. CASE LeaderRelease
  BY <1>0, <1>16 DEF Route, LeaderRelease
<1>17. CASE OpenNull
  BY <1>0, <1>17 DEF Route, OpenNull
<1>18. CASE Neutralize
  BY <1>0, <1>18 DEF Route, Neutralize
<1>19. CASE CloseNull
  BY <1>0, <1>19 DEF Route, CloseNull
<1>20. CASE CloseSocket
  BY <1>0, <1>20 DEF Route, CloseSocket, Immune
<1>21. CASE Munmap
  BY <1>0, <1>21 DEF Route, Munmap
<1>22. CASE Release
  BY <1>0, <1>22 DEF Route, Release
<1>23. CASE proxy_run
  BY <1>0, <1>23 DEF Route, proxy_run
<1>24. CASE EmulatorDies
  BY <1>0, <1>24 DEF Route, EmulatorDies
<1>25. CASE EmulatorGivesUp
  BY <1>0, <1>25 DEF Route, EmulatorGivesUp, Leaders
<1>26. CASE LeaderDies
  BY <1>0, <1>26 DEF Route, LeaderDies, Leaders
<1>. QED BY <1>1, <1>2, <1>3, <1>4, <1>5, <1>6, <1>7, <1>8, <1>9, <1>10, <1>11, <1>12, <1>13, <1>14, <1>15, <1>16, <1>17, <1>18, <1>19, <1>20, <1>21, <1>22, <1>23, <1>24, <1>25, <1>26 DEF Next, Reptyr

\* A call that can only take a copy of the master away.
LEMMA SlotsKept ==
  ASSUME Slots, emu'.was = emu.was,
         \A fd \in Fds : emu'.fd[fd] = "mine" => emu.fd[fd] = "mine",
         pc' \in {"bind", "socket", "connect", "unconnect", "send"} =>
           pc \in {"bind", "socket", "connect", "unconnect", "send"} /\ local'.masters = local.masters,
         pc' \in {"dup", "closenull", "closesock"} =>
           local'.child_fd = local.child_fd
             /\ local.child_fd \in Fds /\ emu.was[local.child_fd] = "free",
         pc' \in {"dup", "closenull"} =>
           local'.nullfd \in Fds /\ emu.was[local'.nullfd] = "free"
  PROVE  Slots'
BY DEF Slots

LEMMA SlotsStep == IInv /\ Slots /\ [Next]_vars => Slots'
<1>. SUFFICES ASSUME IInv, Slots, [Next]_vars PROVE Slots'
  OBVIOUS
<1>0. emu \in Emulators /\ local \in Locals
  BY DEF IInv, TypeOK
<1>1. CASE UNCHANGED vars
  BY <1>1 DEF vars, Slots
<1>2. CASE Inspect
  BY <1>2, SlotsKept DEF Inspect, Step
<1>3. CASE Attach
  BY <1>0, <1>3, SlotsKept DEF Attach, Step, Emulators
<1>4. CASE Mmap
  BY <1>0, <1>4, SlotsKept DEF Mmap, Step, Emulators
<1>5. CASE find_master_fds
  <2>1. CASE Bail("find", "find") /\ UNCHANGED <<emu, local>>
    BY <2>1, SlotsKept DEF Bail, Step
  <2>2. CASE pc' = "bind" /\ UNCHANGED emu
    <3>1. PICK refused \in SUBSET {fd \in Fds : emu.fd[fd] \in {"mine", "other"}} :
            /\ {fd \in Fds : emu.fd[fd] = "mine"} \ refused # {}
            /\ local' = [local EXCEPT !.masters = {fd \in Fds : emu.fd[fd] = "mine"} \ refused,
                                      !.missed = {fd \in Fds : emu.fd[fd] = "mine"} \cap refused]
      BY <1>5, <2>2 DEF find_master_fds, Bail, Step
    <3>2. local'.masters = {fd \in Fds : emu.fd[fd] = "mine"} \ refused
      BY <1>0, <3>1 DEF Locals
    <3>3. local'.masters # {} /\ \A fd \in local'.masters : emu.was[fd] = "mine"
      BY <3>1, <3>2 DEF Slots
    <3>. QED BY <2>2, <3>3 DEF Slots
  <2>. QED BY <1>5, <2>1, <2>2 DEF find_master_fds
<1>6. CASE Bind
  BY <1>6, SlotsKept DEF Bind, Bail, Step
<1>7. CASE RemoteSocket
  <2>1. CASE Bail("socket", "connect") /\ UNCHANGED <<emu, local>>
    BY <2>1, SlotsKept DEF Bail, Step
  <2>2. CASE Step("socket", "connect") /\ Opens("sock")
              /\ local' = [local EXCEPT !.child_fd = Min(Free)]
    <3>1. Sets(Min(Free), "sock")
      BY <2>2 DEF Opens
    <3>2. emu'.was = emu.was /\ \A fd \in Fds : emu'.fd[fd] = "mine" => emu.fd[fd] = "mine"
      BY <1>0, <3>1, SetsOne, SetsPoint
    <3>3. local'.masters = local.masters
      BY <1>0, <2>2 DEF Locals
    <3>. QED BY <2>2, <3>2, <3>3, SlotsKept DEF Step
  <2>. QED BY <1>7, <2>1, <2>2 DEF RemoteSocket
<1>8. CASE RemoteConnect
  BY <1>8, SlotsKept DEF RemoteConnect, Bail, Step
<1>9. CASE CloseUnconnected
  <2>1. emu'.was = emu.was /\ \A fd \in Fds : emu'.fd[fd] = "mine" => emu.fd[fd] = "mine"
    BY <1>0, <1>9, SetsOne, SetsPoint DEF CloseUnconnected
  <2>. QED BY <1>9, <2>1, SlotsKept DEF CloseUnconnected, Bail, Step
<1>10. CASE send_fd
  BY <1>10, SlotsKept DEF send_fd, Bail, Step
<1>11. CASE recv_fd
  BY <1>11, SlotsKept DEF recv_fd, Bail, Step
<1>12. CASE LeaderAttach
  BY <1>12, SlotsKept DEF LeaderAttach, Bail, Step
<1>13. CASE LeaderMmap
  BY <1>13, SlotsKept DEF LeaderMmap, Bail, Step
<1>14. CASE LeaderSighup
  BY <1>14, SlotsKept DEF LeaderSighup, Step
<1>15. CASE LeaderMunmap
  BY <1>15, SlotsKept DEF LeaderMunmap, Step
<1>16. CASE LeaderRelease
  BY <1>16, SlotsKept DEF LeaderRelease, Bail, Step
<1>17. CASE OpenNull
  <2>1. CASE Bail("null", "null") /\ UNCHANGED <<emu, local>>
    BY <2>1, SlotsKept DEF Bail, Step
  <2>. DEFINE child == local.child_fd
  <2>2. ASSUME pc = "null", emu.state = "held"
        PROVE  /\ child \in Fds /\ emu.was[child] = "free" /\ emu.fd[child] = "sock"
               /\ \A fd \in Fds \ {child} : emu.fd[fd] = emu.was[fd]
    BY <2>2 DEF IInv, Tables, WithSocket
  <2>3. CASE Step("null", "dup") /\ Opens("null")
              /\ local' = [local EXCEPT !.nullfd = Min(Free), !.todo = local.masters]
    <3>1. Sets(Min(Free), "null") /\ emu.state = "held" /\ Free # {}
      BY <2>3 DEF Opens
    <3>2. emu'.was = emu.was /\ \A fd \in Fds : emu'.fd[fd] = "mine" => emu.fd[fd] = "mine"
      BY <1>0, <3>1, SetsOne, SetsPoint
    <3>3. local'.nullfd = Min(Free) /\ local'.child_fd = child
      BY <1>0, <2>3 DEF Locals
    <3>4. Min(Free) \in Fds /\ emu.was[Min(Free)] = "free"
      BY <2>2, <2>3, <3>1, FreeFd DEF Step
    <3>. QED BY <2>2, <2>3, <3>1, <3>2, <3>3, <3>4, SlotsKept DEF Step
  <2>4. CASE Step("null", "closesock") /\ emu.state = "held" /\ UNCHANGED emu
              /\ local' = [local EXCEPT !.missed = @ \cup local.masters]
    <3>1. local'.child_fd = child
      BY <1>0, <2>4 DEF Locals
    <3>. QED BY <2>2, <2>4, <3>1, SlotsKept DEF Step
  <2>. QED BY <1>17, <2>1, <2>3, <2>4 DEF OpenNull
<1>18. CASE Neutralize
  <2>1. Sets(Min(local.todo), "null") \/ UNCHANGED emu
    BY <1>18 DEF Neutralize
  <2>2. emu'.was = emu.was /\ \A fd \in Fds : emu'.fd[fd] = "mine" => emu.fd[fd] = "mine"
    BY <1>0, <2>1, SetsOne, SetsPoint
  <2>3. local'.child_fd = local.child_fd /\ local'.nullfd = local.nullfd
    BY <1>0, <1>18 DEF Neutralize, Locals
  <2>4. pc = "dup" /\ pc' \in {"dup", "closenull"}
    BY <1>18 DEF Neutralize, Step
  <2>. QED BY <2>2, <2>3, <2>4, SlotsKept DEF Slots
<1>19. CASE CloseNull
  <2>1. emu'.was = emu.was /\ \A fd \in Fds : emu'.fd[fd] = "mine" => emu.fd[fd] = "mine"
    BY <1>0, <1>19, SetsOne, SetsPoint DEF CloseNull
  <2>. QED BY <1>19, <2>1, SlotsKept DEF CloseNull, Step, Slots
<1>20. CASE CloseSocket
  <2>1. emu'.was = emu.was /\ \A fd \in Fds : emu'.fd[fd] = "mine" => emu.fd[fd] = "mine"
    BY <1>0, <1>20, SetsOne, SetsPoint DEF CloseSocket
  <2>. QED BY <1>20, <2>1, SlotsKept DEF CloseSocket, Step
<1>21. CASE Munmap
  BY <1>0, <1>21, SlotsKept DEF Munmap, Step, Emulators
<1>22. CASE Release
  BY <1>0, <1>22, SlotsKept DEF Release, Released, Step, Emulators
<1>23. CASE proxy_run
  BY <1>23, SlotsKept DEF proxy_run, Step
<1>24. CASE EmulatorDies
  <2>1. emu'.was = emu.was /\ \A fd \in Fds : emu'.fd[fd] = "free"
    BY <1>0, <1>24 DEF EmulatorDies, Emulators
  <2>. QED BY <1>24, <2>1 DEF EmulatorDies, Slots
<1>25. CASE EmulatorGivesUp
  <2>1. PICK f \in Fds : emu' = [emu EXCEPT !.fd[f] = "free"]
    BY <1>25 DEF EmulatorGivesUp
  <2>2. emu'.was = emu.was /\ \A fd \in Fds : emu'.fd[fd] = "mine" => emu.fd[fd] = "mine"
    <3>1. emu'.fd = [emu.fd EXCEPT ![f] = "free"] /\ emu'.was = emu.was /\ DOMAIN emu.fd = Fds
      BY <1>0, <2>1 DEF Emulators
    <3>. QED BY <3>1
  <2>. QED BY <1>25, <2>2 DEF EmulatorGivesUp, Slots
<1>26. CASE LeaderDies
  BY <1>26 DEF LeaderDies, Slots
<1>. QED BY <1>1, <1>2, <1>3, <1>4, <1>5, <1>6, <1>7, <1>8, <1>9, <1>10, <1>11, <1>12, <1>13, <1>14, <1>15, <1>16, <1>17, <1>18, <1>19, <1>20, <1>21, <1>22, <1>23, <1>24, <1>25, <1>26 DEF Next, Reptyr

-----------------------------------------------------------------------------
(***************************************************************************)
(* The steps of the handover.                                              *)
(***************************************************************************)

\* What is seen of the descriptors depends on the descriptors alone.
LEMMA SameCopies ==
  ASSUME emu'.fd = emu.fd, emu'.was = emu.was
  PROVE  Mine' = Mine /\ MineAtFirst' = MineAtFirst
BY DEF Mine, MineAtFirst

\* Overwriting or closing one descriptor takes that copy away, if it was one.
LEMMA OneGone ==
  ASSUME IInv, NEW fd, NEW what \in {"free", "sock", "null"}, Sets(fd, what)
  PROVE  /\ MineAtFirst' = MineAtFirst /\ emu'.state = emu.state
         /\ Mine' = IF emu.state = "held" THEN Mine \ {fd} ELSE Mine
<1>. emu \in Emulators
  BY DEF IInv, TypeOK
<1>1. emu'.was = emu.was /\ emu'.state = emu.state
  BY SetsOne
<1>2. \A g \in Fds : emu'.fd[g] = IF emu.state = "held" /\ g = fd THEN what ELSE emu.fd[g]
  BY SetsPoint
<1>3. Mine' = IF emu.state = "held" THEN Mine \ {fd} ELSE Mine
  BY <1>2 DEF Mine
<1>. QED BY <1>1, <1>3 DEF MineAtFirst

\* Until the first copy is overwritten the emulator has all it had, or is dead.
LEMMA NothingGivenUp ==
  ASSUME IInv, Slots, pc \in Untouched \cup WithSocket
  PROVE  Mine = MineAtFirst \/ Emulator = "dead"
<1>. emu \in Emulators
  BY DEF IInv, TypeOK
<1>1. CASE emu.state = "dead"
  BY <1>1 DEF Emulator
<1>2. CASE emu.state # "dead" /\ pc \in Untouched
  BY <1>2 DEF IInv, Tables, Mine, MineAtFirst
<1>3. CASE emu.state # "dead" /\ pc \in WithSocket
  BY <1>3 DEF IInv, Tables, Mine, MineAtFirst
<1>. QED BY <1>1, <1>2, <1>3

\* What the handover sees of the leader, of the master and of the emulator.
LEMMA Unseen ==
  ASSUME UNCHANGED <<leader, sock, master, why>>, UNCHANGED emu,
         (pc \notin {"proxy", "gone"} /\ pc' \notin {"proxy", "gone"}) \/ pc' = pc
  PROVE  UNCHANGED Abs!vars
BY DEF Abs!vars, Emulator, Mine, MineAtFirst, Ours, Result

\* An error before the first copy is overwritten fails the handover.
LEMMA Fails ==
  ASSUME IInv, Slots, pc \in Untouched \cup WithSocket, why = "", why' \notin {"", "terminal"},
         sock' \in {sock, "none"}, UNCHANGED master,
         Mine' = Mine, MineAtFirst' = MineAtFirst, Emulator' = Emulator,
         leader'.sighup = leader.sighup, leader'.state = "hungup" <=> leader.state = "hungup"
  PROVE  Abs!Next
<1>1. Ours' \in {Ours, "none"}
  BY DEF Ours
<1>2. Result = "open" /\ Result' = "failed"
  BY DEF Result, Untouched, WithSocket
<1>3. Mine = MineAtFirst \/ Emulator = "dead"
  BY NothingGivenUp
<1>. QED BY <1>1, <1>2, <1>3 DEF Abs!Fail, Abs!Next

\* Every step of the theft is a step of the handover, or none of it.
LEMMA HandoverStep ==
  ASSUME IInv, Route, Slots, [Next]_vars
  PROVE  Abs!Next \/ UNCHANGED Abs!vars
<1>. USE DEF Step, Bail
<1>0. emu \in Emulators /\ leader \in Leaders /\ local \in Locals /\ master \in BOOLEAN
  BY DEF IInv, TypeOK
<1>a. pc \in (Untouched \cup WithSocket) \ {"lmunmap", "lrelease"} => why = ""
  BY DEF IInv, Outcome, Untouched, WithSocket
<1>b. ASSUME UNCHANGED emu PROVE Mine' = Mine /\ MineAtFirst' = MineAtFirst /\ Emulator' = Emulator
  BY <1>b DEF Mine, MineAtFirst, Emulator
<1>1. CASE UNCHANGED vars
  BY <1>1, Unseen DEF vars
<1>2. CASE Inspect
  <2>1. CASE pc' = "attach"
    BY <1>2, <2>1, Unseen DEF Inspect
  <2>2. CASE pc' = "gone"
    <3>. HIDE DEF Step
    <3>1. pc \in Untouched /\ why = "" /\ why' = "inspect"
      BY <1>2, <1>a, <2>2 DEF Inspect, Step, Untouched
    <3>. QED BY <1>2, <1>b, <3>1, Fails DEF Inspect
  <2>. QED BY <1>2, <2>1, <2>2 DEF Inspect
<1>3. CASE Attach
  <2>1. CASE pc' = "mmap"
    <3>1. /\ emu.state = "runs" /\ emu' = [emu EXCEPT !.state = "held"]
          /\ pc = "attach" /\ UNCHANGED <<leader, sock, master, why>>
      BY <1>3, <2>1 DEF Attach
    <3>2. Mine' = Mine /\ MineAtFirst' = MineAtFirst
      BY <1>0, <3>1, SameCopies DEF Emulators
    <3>3. Emulator = "runs" /\ Emulator' = "still"
      BY <1>0, <3>1 DEF Emulator, Emulators
    <3>4. why = "" /\ Result = "open" /\ Result' = "open" /\ Ours' = Ours
      BY <1>a, <2>1, <3>1 DEF Result, Ours, Untouched
    <3>. QED BY <3>1, <3>2, <3>3, <3>4 DEF Abs!Hold, Abs!Next
  <2>2. CASE pc' = "gone"
    <3>1. pc \in Untouched /\ why = "" /\ why' = "seize" /\ UNCHANGED <<leader, emu, sock, master>>
      BY <1>3, <1>a, <2>2 DEF Attach, Untouched
    <3>. QED BY <1>b, <3>1, Fails
  <2>. QED BY <1>3, <2>1, <2>2 DEF Attach
<1>4. CASE Mmap
  <2>1. CASE pc' = "find"
    <3>1. /\ emu' = [emu EXCEPT !.scratch = TRUE]
          /\ pc = "mmap" /\ UNCHANGED <<leader, sock, master, why>>
      BY <1>4, <2>1 DEF Mmap
    <3>2. Mine' = Mine /\ MineAtFirst' = MineAtFirst
      BY <1>0, <3>1, SameCopies DEF Emulators
    <3>3. Emulator' = Emulator
      BY <1>0, <3>1 DEF Emulator, Emulators
    <3>. QED BY <2>1, <3>1, <3>2, <3>3 DEF Abs!vars, Ours, Result
  <2>2. CASE pc' = "release"
    <3>1. pc \in Untouched /\ why = "" /\ why' = "mmap" /\ UNCHANGED <<leader, emu, sock, master>>
      BY <1>4, <1>a, <2>2 DEF Mmap, Untouched
    <3>. QED BY <1>b, <3>1, Fails
  <2>. QED BY <1>4, <2>1, <2>2 DEF Mmap
<1>5. CASE find_master_fds
  <2>1. CASE pc' = "bind"
    BY <1>5, <2>1, Unseen DEF find_master_fds
  <2>2. CASE pc' = "munmap"
    <3>1. /\ pc \in Untouched /\ why = "" /\ why' = "find" /\ sock' = "none"
          /\ UNCHANGED <<leader, emu, master>>
      BY <1>5, <1>a, <2>2 DEF find_master_fds, Untouched
    <3>. QED BY <1>b, <3>1, Fails
  <2>. QED BY <1>5, <2>1, <2>2 DEF find_master_fds
<1>6. CASE Bind
  <2>1. CASE pc' = "socket"
    <3>1. /\ pc = "bind" /\ sock' = "bound" /\ sock # "mail"
          /\ UNCHANGED <<leader, emu, master, why>>
      BY <1>6, <2>1 DEF Bind, Route
    <3>2. Ours' = Ours /\ Result' = Result
      BY <2>1, <3>1 DEF Ours, Result
    <3>. QED BY <1>b, <3>1, <3>2 DEF Abs!vars
  <2>2. CASE pc' = "munmap"
    <3>1. /\ pc \in Untouched /\ why = "" /\ why' = "find" /\ sock' = "none"
          /\ UNCHANGED <<leader, emu, master>>
      BY <1>6, <1>a, <2>2 DEF Bind, Untouched
    <3>. QED BY <1>b, <3>1, Fails
  <2>. QED BY <1>6, <2>1, <2>2 DEF Bind
<1>7. CASE RemoteSocket
  <2>1. CASE pc' = "connect"
    <3>1. /\ pc = "socket" /\ Free # {} /\ Sets(Min(Free), "sock")
          /\ UNCHANGED <<leader, sock, master, why>>
      BY <1>7, <2>1 DEF RemoteSocket, Opens
    <3>2. Min(Free) \notin Mine
      BY <3>1, FreeFd DEF Mine
    <3>3. MineAtFirst' = MineAtFirst /\ emu'.state = emu.state /\ Mine' = Mine
      BY <3>1, <3>2, OneGone
    <3>. QED BY <2>1, <3>1, <3>3 DEF Abs!vars, Emulator, Ours, Result
  <2>2. CASE pc' = "munmap"
    <3>1. /\ pc \in Untouched /\ why = "" /\ why' = "connect" /\ sock' = "none"
          /\ UNCHANGED <<leader, emu, master>>
      BY <1>7, <1>a, <2>2 DEF RemoteSocket, Untouched
    <3>. QED BY <1>b, <3>1, Fails
  <2>. QED BY <1>7, <2>1, <2>2 DEF RemoteSocket
<1>8. CASE RemoteConnect
  <2>1. CASE pc' \in {"send", "unconnect"}
    BY <1>8, <2>1, Unseen DEF RemoteConnect
  <2>2. CASE pc' = "munmap"
    <3>1. /\ pc \in WithSocket \ {"lmunmap", "lrelease"} /\ why = "" /\ why' = "connect"
          /\ sock' = "none" /\ UNCHANGED <<leader, emu, master>>
      BY <1>8, <1>a, <2>2 DEF RemoteConnect, WithSocket
    <3>. QED BY <1>b, <3>1, Fails
  <2>. QED BY <1>8, <2>1, <2>2 DEF RemoteConnect
<1>9. CASE CloseUnconnected
  <2>1. /\ pc = "unconnect" /\ pc \in WithSocket \ {"lmunmap", "lrelease"} /\ why = ""
        /\ why' = "connect" /\ sock' = "none" /\ UNCHANGED <<leader, master>>
        /\ Sets(local.child_fd, "free")
    BY <1>9, <1>a DEF CloseUnconnected, WithSocket
  <2>2. emu.state = "held" => local.child_fd \notin Mine
    BY <2>1 DEF IInv, Tables, Mine
  <2>3. MineAtFirst' = MineAtFirst /\ emu'.state = emu.state /\ Mine' = Mine
    <3>1. /\ MineAtFirst' = MineAtFirst /\ emu'.state = emu.state
          /\ Mine' = IF emu.state = "held" THEN Mine \ {local.child_fd} ELSE Mine
      BY <2>1, OneGone
    <3>. QED BY <2>2, <3>1
  <2>4. Emulator' = Emulator
    BY <2>3 DEF Emulator
  <2>. QED BY <2>1, <2>3, <2>4, Fails
<1>10. CASE send_fd
  <2>1. CASE pc' = "recv"
    <3>1. /\ pc = "send" /\ emu.state = "held" /\ sock' = "mail" /\ sock # "mail" /\ ~master
          /\ UNCHANGED <<leader, emu, master, why>>
      BY <1>0, <1>10, <2>1 DEF send_fd, Route
    <3>2. Mine = MineAtFirst /\ Emulator = "still"
      BY <3>1, NothingGivenUp DEF Emulator, WithSocket
    <3>3. Mine # {}
      <4>1. local.masters # {} /\ local.masters \subseteq Fds /\ \A fd \in local.masters : emu.was[fd] = "mine"
        BY <1>0, <3>1 DEF Slots, Locals
      <4>. QED BY <3>2, <4>1 DEF MineAtFirst
    <3>4. why = "" /\ Result = "open" /\ Result' = "open" /\ Ours = "none" /\ Ours' = "coming"
      BY <1>a, <2>1, <3>1 DEF Result, Ours, WithSocket
    <3>. QED BY <1>b, <3>1, <3>2, <3>3, <3>4 DEF Abs!Send, Abs!Next
  <2>2. CASE pc' = "munmap"
    <3>1. /\ pc \in WithSocket \ {"lmunmap", "lrelease"} /\ why = "" /\ why' = "send"
          /\ sock' = "none" /\ UNCHANGED <<leader, emu, master>>
      BY <1>10, <1>a, <2>2 DEF send_fd, WithSocket
    <3>. QED BY <1>b, <3>1, Fails
  <2>. QED BY <1>10, <2>1, <2>2 DEF send_fd
<1>11. CASE recv_fd
  <2>1. CASE pc' = "lattach"
    <3>1. /\ pc = "recv" /\ sock = "mail" /\ ~master /\ master' = TRUE
          /\ UNCHANGED <<leader, emu, why>>
      BY <1>0, <1>11, <2>1 DEF recv_fd, Route
    <3>2. why = "" /\ Result = "open" /\ Result' = "open" /\ Ours = "coming" /\ Ours' = "here"
      BY <1>a, <2>1, <3>1 DEF Result, Ours, WithSocket
    <3>. QED BY <1>b, <3>1, <3>2 DEF Abs!Arrive, Abs!Next
  <2>2. CASE pc' = "munmap"
    <3>1. /\ pc \in WithSocket \ {"lmunmap", "lrelease"} /\ why = "" /\ why' = "recv"
          /\ sock' = "none" /\ UNCHANGED <<leader, emu, master>>
      BY <1>11, <1>a, <2>2 DEF recv_fd, WithSocket
    <3>. QED BY <1>b, <3>1, Fails
  <2>. QED BY <1>11, <2>1, <2>2 DEF recv_fd
<1>12. CASE LeaderAttach
  <2>1. CASE pc' = "lmmap"
    <3>1. /\ pc = "lattach" /\ leader.state = "runs" /\ leader' = [leader EXCEPT !.state = "held"]
          /\ UNCHANGED <<emu, sock, master, why>>
      BY <1>12, <2>1 DEF LeaderAttach
    <3>2. leader'.sighup = leader.sighup /\ leader'.state # "hungup" /\ leader.state # "hungup"
      BY <1>0, <3>1 DEF Leaders
    <3>. QED BY <1>b, <2>1, <3>1, <3>2 DEF Abs!vars, Ours, Result
  <2>2. CASE pc' = "munmap"
    <3>1. /\ pc \in WithSocket \ {"lmunmap", "lrelease"} /\ why = "" /\ why' = "leader"
          /\ sock' = "none" /\ UNCHANGED <<leader, emu, master>>
      BY <1>12, <1>a, <2>2 DEF LeaderAttach, WithSocket
    <3>. QED BY <1>b, <3>1, Fails
  <2>. QED BY <1>12, <2>1, <2>2 DEF LeaderAttach
<1>13. CASE LeaderMmap
  <2>1. CASE pc' = "lsig"
    <3>1. /\ pc = "lmmap" /\ leader' = [leader EXCEPT !.scratch = TRUE]
          /\ UNCHANGED <<emu, sock, master, why>>
      BY <1>13, <2>1 DEF LeaderMmap
    <3>2. leader'.sighup = leader.sighup /\ leader'.state = leader.state
      BY <1>0, <3>1 DEF Leaders
    <3>. QED BY <1>b, <2>1, <3>1, <3>2 DEF Abs!vars, Ours, Result
  <2>2. CASE pc' = "munmap"
    <3>1. /\ pc \in WithSocket \ {"lmunmap", "lrelease"} /\ why = "" /\ why' = "leader"
          /\ sock' = "none" /\ leader' = Released(leader) /\ UNCHANGED <<emu, master>>
      BY <1>13, <1>a, <2>2 DEF LeaderMmap, WithSocket
    <3>2. leader'.sighup = leader.sighup /\ (leader'.state = "hungup" <=> leader.state = "hungup")
      BY <1>0, <3>1 DEF Released, Leaders
    <3>. QED BY <1>b, <3>1, <3>2, Fails
  <2>. QED BY <1>13, <2>1, <2>2 DEF LeaderMmap
<1>14. CASE LeaderSighup
  <2>1. pc = "lsig" /\ pc' = "lmunmap" /\ UNCHANGED <<emu, sock, master>> /\ why = ""
    BY <1>14, <1>a DEF LeaderSighup, WithSocket
  <2>2. CASE leader' = [leader EXCEPT !.sighup = "ignored"] /\ UNCHANGED why
    <3>1. master
      BY <2>1 DEF IInv, Sent
    <3>2. Result = "open" /\ Result' = "open" /\ Ours = "here" /\ Ours' = "here"
      BY <2>1, <2>2, <3>1 DEF Result, Ours
    <3>3. leader'.sighup = "ignored" /\ leader'.state = leader.state
      BY <1>0, <2>2 DEF Leaders
    <3>. QED BY <1>b, <2>1, <3>2, <3>3 DEF Abs!Immunise, Abs!Next
  <2>3. CASE why' = "leader" /\ UNCHANGED leader
    BY <1>b, <2>1, <2>3, Fails DEF WithSocket
  <2>. QED BY <1>14, <2>2, <2>3 DEF LeaderSighup
<1>15. CASE LeaderMunmap
  <2>1. /\ pc = "lmunmap" /\ pc' = "lrelease" /\ leader' = [leader EXCEPT !.scratch = FALSE]
        /\ UNCHANGED <<emu, sock, master, why>>
    BY <1>15 DEF LeaderMunmap
  <2>2. leader'.sighup = leader.sighup /\ leader'.state = leader.state
    BY <1>0, <2>1 DEF Leaders
  <2>. QED BY <1>b, <2>1, <2>2 DEF Abs!vars, Ours, Result
<1>16. CASE LeaderRelease
  <2>0. pc = "lrelease" /\ leader' = Released(leader) /\ UNCHANGED <<emu, master>>
    BY <1>16 DEF LeaderRelease
  <2>1. leader'.sighup = leader.sighup /\ (leader'.state = "hungup" <=> leader.state = "hungup")
    BY <1>0, <2>0 DEF Released, Leaders
  <2>2. CASE pc' = "null" /\ UNCHANGED <<sock, why>>
    BY <1>b, <2>0, <2>1, <2>2 DEF Abs!vars, Ours, Result
  <2>3. CASE pc' = "munmap" /\ why' = "leader" /\ sock' = "none" /\ why = ""
    BY <1>b, <2>0, <2>1, <2>3, Fails DEF WithSocket
  <2>4. CASE pc' = "munmap" /\ why' = "leader" /\ sock' = "none" /\ why # ""
    <3>1. why = "leader" /\ master
      BY <2>0, <2>4 DEF IInv, Outcome, Sent
    <3>. QED BY <1>b, <2>0, <2>1, <2>4, <3>1 DEF Abs!vars, Ours, Result
  <2>. QED BY <1>16, <2>2, <2>3, <2>4 DEF LeaderRelease
<1>17. CASE OpenNull
  <2>1. CASE pc' = "dup"
    <3>1. /\ pc = "null" /\ Free # {} /\ Sets(Min(Free), "null")
          /\ UNCHANGED <<leader, sock, master, why>>
      BY <1>17, <2>1 DEF OpenNull, Opens
    <3>2. Min(Free) \notin Mine
      BY <3>1, FreeFd DEF Mine
    <3>3. MineAtFirst' = MineAtFirst /\ emu'.state = emu.state /\ Mine' = Mine
      BY <3>1, <3>2, OneGone
    <3>. QED BY <2>1, <3>1, <3>3 DEF Abs!vars, Emulator, Ours, Result
  <2>2. CASE pc' = "closesock"
    BY <1>17, <2>2, Unseen DEF OpenNull
  <2>3. CASE pc' = "munmap"
    <3>1. /\ pc \in WithSocket \ {"lmunmap", "lrelease"} /\ why = "" /\ why' = "null"
          /\ sock' = "none" /\ UNCHANGED <<leader, emu, master>>
      BY <1>17, <1>a, <2>3 DEF OpenNull, WithSocket
    <3>. QED BY <1>b, <3>1, Fails
  <2>. QED BY <1>17, <2>1, <2>2, <2>3 DEF OpenNull
<1>18. CASE Neutralize
  <2>1. /\ pc = "dup" /\ pc' \in {"dup", "closenull"} /\ local.todo # {}
        /\ Sets(Min(local.todo), "null") \/ UNCHANGED emu
        /\ UNCHANGED <<leader, sock, master, why>>
    BY <1>18 DEF Neutralize
  <2>2. CASE UNCHANGED emu
    BY <2>1, <2>2, Unseen
  <2>3. CASE Sets(Min(local.todo), "null") /\ emu.state # "held"
    BY <2>1, <2>3, Unseen DEF Sets
  <2>4. CASE Sets(Min(local.todo), "null") /\ emu.state = "held"
    <3>1. Min(local.todo) \in Fds
      <4>1. local.todo \subseteq Fds
        BY <1>0 DEF Locals
      <4>2. Fds \subseteq Nat
        BY FdsAssumption
      <4>3. local.todo \subseteq Nat /\ local.todo # {}
        BY <2>1, <4>1, <4>2
      <4>. QED BY <4>1, <4>3, MinIsElement
    <3>2. Mine' = Mine \ {Min(local.todo)} /\ MineAtFirst' = MineAtFirst /\ emu'.state = emu.state
      BY <2>4, OneGone
    <3>3. why = "" /\ master /\ leader.sighup = "ignored"
      BY <2>1 DEF IInv, Outcome, Sent, Immune
    <3>4. /\ Result = "open" /\ Result' = "open" /\ Ours = "here" /\ Ours' = "here"
          /\ Emulator = "still" /\ Emulator' = "still"
      BY <2>1, <2>4, <3>2, <3>3 DEF Result, Ours, Emulator
    <3>5. Abs!GiveUp(Min(local.todo))
      BY <2>1, <3>2, <3>3, <3>4 DEF Abs!GiveUp
    <3>. QED BY <3>1, <3>5 DEF Abs!Next
  <2>. QED BY <2>1, <2>2, <2>3, <2>4
<1>19. CASE CloseNull
  <2>1. /\ pc = "closenull" /\ pc' = "closesock" /\ Sets(local.nullfd, "free")
        /\ UNCHANGED <<leader, sock, master, why>>
    BY <1>19 DEF CloseNull
  <2>2. local.nullfd \notin Mine
    BY <2>1 DEF Slots, Mine
  <2>3. MineAtFirst' = MineAtFirst /\ emu'.state = emu.state /\ Mine' = Mine
    BY <2>1, <2>2, OneGone
  <2>. QED BY <2>1, <2>3 DEF Abs!vars, Emulator, Ours, Result
<1>20. CASE CloseSocket
  <2>1. /\ pc = "closesock" /\ pc' = "munmap" /\ Sets(local.child_fd, "free")
        /\ UNCHANGED <<leader, master, why>>
    BY <1>20 DEF CloseSocket
  <2>2. local.child_fd \notin Mine
    BY <2>1 DEF Slots, Mine
  <2>3. MineAtFirst' = MineAtFirst /\ emu'.state = emu.state /\ Mine' = Mine
    BY <2>1, <2>2, OneGone
  <2>4. master
    BY <2>1 DEF IInv, Sent
  <2>. QED BY <2>1, <2>3, <2>4 DEF Abs!vars, Emulator, Ours, Result
<1>21. CASE Munmap
  <2>1. /\ pc = "munmap" /\ pc' = "release" /\ emu' = [emu EXCEPT !.scratch = FALSE]
        /\ UNCHANGED <<leader, sock, master, why>>
    BY <1>21 DEF Munmap
  <2>2. Mine' = Mine /\ MineAtFirst' = MineAtFirst
    BY <1>0, <2>1, SameCopies DEF Emulators
  <2>3. Emulator' = Emulator
    BY <1>0, <2>1 DEF Emulator, Emulators
  <2>. QED BY <2>1, <2>2, <2>3 DEF Abs!vars, Ours, Result
<1>22. CASE Release
  <2>0. pc = "release" /\ emu' = Released(emu) /\ UNCHANGED <<leader, sock>> /\ sock # "mail"
    BY <1>22 DEF Release, Route
  <2>1. Mine' = Mine /\ MineAtFirst' = MineAtFirst
    BY <1>0, <2>0, SameCopies DEF Released, Emulators
  <2>2. Emulator' = IF Emulator = "still" THEN "runs" ELSE Emulator
    BY <1>0, <2>0 DEF Released, Emulator, Emulators
  <2>3. CASE pc' = "proxy" /\ why = "" /\ UNCHANGED <<master, why>>
    <3>1. master /\ leader.sighup = "ignored"
      BY <2>0, <2>3 DEF IInv, Sent, Route
    <3>2. Result = "open" /\ Result' = "stolen" /\ Ours = "here" /\ Ours' = "here"
      BY <2>0, <2>3, <3>1 DEF Result, Ours
    <3>. QED BY <2>0, <2>1, <2>2, <3>1, <3>2 DEF Abs!Succeed, Abs!Released, Abs!Next
  <2>4. CASE pc' = "gone" /\ why # "" /\ master' = FALSE /\ UNCHANGED why
    <3>1. why # "terminal"
      BY <2>0 DEF IInv, Outcome
    <3>2. Result = "failed" /\ Result' = "failed" /\ Ours' = "none"
      BY <2>0, <2>4, <3>1 DEF Result, Ours
    <3>. QED BY <2>0, <2>1, <2>2, <3>2 DEF Abs!LetGo, Abs!Released, Abs!Next
  <2>5. CASE pc' = "gone" /\ why = "" /\ emu.state = "dead" /\ master' = FALSE /\ why' = "seize"
    <3>1. Result = "open" /\ Result' = "failed" /\ Ours' = "none"
      BY <2>0, <2>5 DEF Result, Ours
    <3>2. Emulator = "dead" /\ Emulator' = "dead"
      BY <2>2, <2>5 DEF Emulator
    <3>. QED BY <2>0, <2>1, <3>1, <3>2 DEF Abs!Fail, Abs!Next
  <2>. QED BY <1>22, <2>3, <2>4, <2>5 DEF Release
<1>23. CASE proxy_run
  <2>1. /\ pc = "proxy" /\ pc' = "gone" /\ master' = FALSE /\ (why' = why \/ why' = "terminal")
        /\ UNCHANGED <<leader, emu, sock>>
    BY <1>23 DEF proxy_run
  <2>2. why = "" /\ sock # "mail"
    BY <2>1 DEF IInv, Outcome, Route
  <2>3. Result = "stolen" /\ Result' = "stolen" /\ Ours' = "none"
    BY <2>1, <2>2 DEF Result, Ours
  <2>. QED BY <1>b, <2>1, <2>3 DEF Abs!Leave, Abs!Next
<1>24. CASE EmulatorDies
  <2>1. /\ emu.state # "dead" /\ UNCHANGED <<pc, leader, sock, master, why>>
        /\ emu' = [emu EXCEPT !.state = "dead", !.scratch = FALSE, !.fd = [fd \in Fds |-> "free"]]
    BY <1>24 DEF EmulatorDies
  <2>2. emu'.was = emu.was /\ emu'.state = "dead" /\ \A fd \in Fds : emu'.fd[fd] = "free"
    BY <1>0, <2>1 DEF Emulators
  <2>3. MineAtFirst' = MineAtFirst /\ Mine' = {}
    BY <2>2 DEF MineAtFirst, Mine
  <2>4. Emulator # "dead" /\ Emulator' = "dead" /\ Ours' = Ours /\ Result' = Result
    BY <2>1, <2>2 DEF Emulator, Ours, Result
  <2>. QED BY <2>1, <2>3, <2>4 DEF Abs!Die, Abs!Next
<1>25. CASE EmulatorGivesUp
  <2>1. PICK f \in Fds : /\ emu.was[f] = "mine" /\ emu.fd[f] = "null"
                         /\ emu' = [emu EXCEPT !.fd[f] = "free"]
    BY <1>25 DEF EmulatorGivesUp
  <2>2. leader.sighup = "ignored" /\ UNCHANGED <<pc, leader, sock, master, why>>
    BY <1>25, <2>1 DEF EmulatorGivesUp, IInv, Immune
  <2>3. emu'.was = emu.was /\ emu'.state = emu.state /\ emu'.fd = [emu.fd EXCEPT ![f] = "free"]
        /\ DOMAIN emu.fd = Fds
    BY <1>0, <2>1 DEF Emulators
  <2>4. MineAtFirst' = MineAtFirst /\ Mine' = Mine
    BY <2>1, <2>3 DEF MineAtFirst, Mine
  <2>. QED BY <2>2, <2>3, <2>4 DEF Abs!vars, Emulator, Ours, Result
<1>26. CASE LeaderDies
  <2>1. /\ leader.state \in {"runs", "held"} /\ UNCHANGED <<pc, emu, sock, master, why>>
        /\ leader' = [leader EXCEPT !.state = "dead", !.scratch = FALSE]
    BY <1>26 DEF LeaderDies
  <2>2. leader'.sighup = leader.sighup /\ leader'.state # "hungup" /\ leader.state # "hungup"
    BY <1>0, <2>1 DEF Leaders
  <2>. QED BY <1>b, <2>1, <2>2 DEF Abs!vars, Ours, Result
<1>. QED BY <1>1, <1>2, <1>3, <1>4, <1>5, <1>6, <1>7, <1>8, <1>9, <1>10, <1>11, <1>12, <1>13, <1>14, <1>15, <1>16, <1>17, <1>18, <1>19, <1>20, <1>21, <1>22, <1>23, <1>24, <1>25, <1>26 DEF Next, Reptyr

\* Call by call the theft is a handover: the emulator's copies are given up
\* only when the master is here and the leader immune, and none of them when
\* the theft fails (steal_inner).
THEOREM HandoverHolds == Spec => HandoverKept
<1>1. Init => Abs!Init /\ Route /\ Slots
  <2>. SUFFICES ASSUME Init PROVE Abs!Init /\ Route /\ Slots
    OBVIOUS
  <2>1. PICK fd \in [Fds -> {"free", "file", "mine", "other"}] :
          emu = [state |-> "runs", scratch |-> FALSE, fd |-> fd, was |-> fd]
    BY DEF Init
  <2>2. Mine = MineAtFirst /\ MineAtFirst \in SUBSET Fds /\ Emulator = "runs"
    BY <2>1 DEF Mine, MineAtFirst, Emulator
  <2>3. leader.state = "runs" /\ Ours = "none" /\ Result = "open"
    BY DEF Init, Ours, Result
  <2>4. Abs!Init
    BY <2>2, <2>3 DEF Abs!Init
  <2>5. Route /\ Slots
    BY <2>1 DEF Init, Route, Slots
  <2>. QED BY <2>4, <2>5
<1>2. IInv /\ Route /\ Slots /\ [Next]_vars => Route' /\ Slots'
  BY RouteStep, SlotsStep
<1>3. IInv /\ Route /\ Slots /\ [Next]_vars => [Abs!Next]_(Abs!vars)
  BY HandoverStep
<1>. QED BY <1>1, <1>2, <1>3, Inductive, PTL DEF Spec, HandoverKept, Abs!Spec

-----------------------------------------------------------------------------
(***************************************************************************)
(* What a handover is worth, and that a theft is short.                    *)
(***************************************************************************)

\* A living emulator misses a copy of the master only when the session cannot
\* be hung up any more, and the theft has not failed; until it has succeeded the
\* master is here (step 4 and step 5 of steal_inner).
NothingLost ==
  /\ Mine # MineAtFirst /\ emu.state # "dead" =>
       leader.sighup = "ignored" /\ (Result = "stolen" \/ (Result = "open" /\ master))
  /\ leader.state # "hungup"

\* The handover alone promises it, whichever calls implement it.
LEMMA Promised == HandoverKept => []NothingLost
<1>. DEFINE copies == Mine
            all == MineAtFirst
            P == /\ copies # all /\ Emulator # "dead" =>
                      leader.sighup = "ignored"
                        /\ (Result = "stolen" \/ (Result = "open" /\ Ours = "here"))
                 /\ ~(leader.state = "hungup")
<1>1. Abs!Init => P
  BY DEF Abs!Init
<1>2. P /\ [Abs!Next]_(Abs!vars) => P'
  <2>. SUFFICES ASSUME P, [Abs!Next]_(Abs!vars) PROVE P'
    OBVIOUS
  <2>1. CASE Abs!Hold BY <2>1 DEF Abs!Hold
  <2>2. CASE Abs!Send BY <2>2 DEF Abs!Send
  <2>3. CASE Abs!Arrive BY <2>3 DEF Abs!Arrive
  <2>4. CASE Abs!Immunise BY <2>4 DEF Abs!Immunise
  <2>5. CASE Abs!Succeed BY <2>5 DEF Abs!Succeed, Abs!Released
  <2>6. CASE Abs!Fail BY <2>6 DEF Abs!Fail
  <2>7. CASE Abs!LetGo BY <2>7 DEF Abs!LetGo, Abs!Released
  <2>8. CASE Abs!Leave BY <2>8 DEF Abs!Leave
  <2>9. CASE Abs!Die BY <2>9 DEF Abs!Die
  <2>10. ASSUME NEW fd \in Fds, Abs!GiveUp(fd) PROVE P'
    BY <2>10 DEF Abs!GiveUp
  <2>11. CASE UNCHANGED Abs!vars BY <2>11 DEF Abs!vars
  <2>. QED BY <2>1, <2>2, <2>3, <2>4, <2>5, <2>6, <2>7, <2>8, <2>9, <2>10, <2>11 DEF Abs!Next
<1>3. P => NothingLost
  BY DEF NothingLost, Emulator, Ours
<1>. QED BY <1>1, <1>2, <1>3, PTL DEF HandoverKept, Abs!Spec

\* The theft never gives up a copy before the session is safe.
THEOREM TheftLosesNothing == Spec => []NothingLost
BY HandoverHolds, Promised, PTL

Left ==
  [inspect |-> 22, attach |-> 21, mmap |-> 20, find |-> 19, bind |-> 18, socket |-> 17,
   connect |-> 16, unconnect |-> 15, send |-> 14, recv |-> 13, lattach |-> 12, lmmap |-> 11,
   lsig |-> 10, lmunmap |-> 9, lrelease |-> 8, null |-> 7, dup |-> 6, closenull |-> 5,
   closesock |-> 4, munmap |-> 3, release |-> 2, proxy |-> 1, gone |-> 0]

\* A step of reptyr goes on to a later point of steal_inner, or, in the loop of
\* step 5, to the next of finitely many copies.
Onward ==
  \/ Left[pc'] < Left[pc]
  \/ pc = "dup" /\ pc' = "dup" /\ Cardinality(local'.todo) < Cardinality(local.todo)

\* A theft makes a bounded number of steps, whatever the emulator and the leader
\* do: what StealEnds leaves to fairness is that reptyr is scheduled.
THEOREM TheftIsShort == Spec => [][Reptyr => Onward]_vars
<1>1. ASSUME IInv, Reptyr PROVE Onward
  <2>. USE <1>1 DEF Step, Bail, Onward, Left
  <2>1. Inspect => Onward BY DEF Inspect
  <2>2. Attach => Onward BY DEF Attach
  <2>3. Mmap => Onward BY DEF Mmap
  <2>4. find_master_fds => Onward
    <3>1. find_master_fds => pc = "find" /\ pc' \in {"bind", "munmap"}
      BY DEF find_master_fds
    <3>. QED BY <3>1
  <2>5. Bind => Onward BY DEF Bind
  <2>6. RemoteSocket => Onward BY DEF RemoteSocket
  <2>7. RemoteConnect => Onward BY DEF RemoteConnect
  <2>8. CloseUnconnected => Onward BY DEF CloseUnconnected
  <2>9. send_fd => Onward BY DEF send_fd
  <2>10. recv_fd => Onward BY DEF recv_fd
  <2>11. LeaderAttach => Onward BY DEF LeaderAttach
  <2>12. LeaderMmap => Onward BY DEF LeaderMmap
  <2>13. LeaderSighup => Onward BY DEF LeaderSighup
  <2>14. LeaderMunmap => Onward BY DEF LeaderMunmap
  <2>15. LeaderRelease => Onward
    <3>1. LeaderRelease => pc = "lrelease" /\ pc' \in {"null", "munmap"}
      BY DEF LeaderRelease
    <3>. QED BY <3>1
  <2>16. OpenNull => Onward BY DEF OpenNull
  <2>17. Neutralize => Onward
    <3>. SUFFICES ASSUME Neutralize PROVE Onward
      OBVIOUS
    <3>. DEFINE fd == Min(local.todo)
    <3>0. local \in Locals
      BY DEF IInv, TypeOK
    <3>1. local.todo \subseteq Fds /\ local.todo # {}
      BY <3>0 DEF Neutralize, Locals
    <3>2. Fds \subseteq Nat /\ IsFiniteSet(Fds)
      BY FdsAssumption
    <3>3. fd \in local.todo
      <4>1. local.todo \subseteq Nat
        BY <3>1, <3>2
      <4>. QED BY <3>1, <4>1, MinIsElement
    <3>4. IsFiniteSet(local.todo)
      BY <3>1, <3>2, FS_Subset
    <3>5. /\ Cardinality(local.todo) \in Nat /\ Cardinality(local.todo \ {fd}) \in Nat
          /\ Cardinality(local.todo \ {fd}) = Cardinality(local.todo) - 1
      BY <3>3, <3>4, FS_RemoveElement, FS_CardinalityType
    <3>6. local'.todo = local.todo \ {fd}
      BY <3>0 DEF Neutralize, Locals
    <3>. HIDE DEF fd
    <3>7. Cardinality(local'.todo) < Cardinality(local.todo)
      BY <3>5, <3>6
    <3>8. pc = "dup" /\ pc' \in {"dup", "closenull"}
      BY DEF Neutralize
    <3>. QED BY <3>7, <3>8
  <2>18. CloseNull => Onward BY DEF CloseNull
  <2>19. CloseSocket => Onward BY DEF CloseSocket
  <2>20. Munmap => Onward BY DEF Munmap
  <2>21. Release => Onward
    <3>1. Release => pc = "release" /\ pc' \in {"proxy", "gone"}
      BY DEF Release
    <3>. QED BY <3>1
  <2>22. proxy_run => Onward BY DEF proxy_run
  <2>. QED BY <2>1, <2>2, <2>3, <2>4, <2>5, <2>6, <2>7, <2>8, <2>9, <2>10, <2>11, <2>12, <2>13, <2>14, <2>15, <2>16, <2>17, <2>18, <2>19, <2>20, <2>21, <2>22 DEF Reptyr
<1>. QED BY <1>1, Inductive, PTL
=============================================================================
