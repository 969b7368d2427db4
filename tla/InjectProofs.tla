---------------------------- MODULE InjectProofs ----------------------------
(***************************************************************************)
(* Theorems about Inject, for every table of descriptors, set of streams   *)
(* and company in the process group: the safety properties of a move, and  *)
(* that the plan implements module Move.                                   *)
(***************************************************************************)
EXTENDS Inject, LeastElement, TLAPS

-----------------------------------------------------------------------------
(***************************************************************************)
(* The inductive invariant, in parts.                                      *)
(***************************************************************************)

\* The last call of a plan that went well is made, or the plan is done.
Through == pc \in {"munmap", "done"} /\ ~failed /\ fate = "running"

\* The scratch page is only there between mmap and munmap.
Page ==
  /\ fate # "running" => pc = "done"
  /\ pc \in {"plan", "mmap"} => ~scratch
  /\ pc = "done" /\ fate = "running" => ~scratch

\* A SIGHUP comes from outside, and is ignored before the plan can cause one.
Hangups ==
  /\ hupPending \/ fate = "hungup" => hangup
  /\ sighup = "ignored" => ~hupPending
  /\ pc \in {"notty", "clone", "dummy", "setpgid", "move", "setsid", "kill", "reap", "openat",
             "sctty", "dup", "close"} \/ Through => sighup = "ignored"

\* The new terminal is opened, taken and only then used.
Terminal ==
  /\ tty_fd = NoFd => \A n \in Fds : fd[n] # "new"
  /\ pc \notin {"sctty", "dup", "close", "munmap", "done"} => tty_fd = NoFd
  /\ pc \in {"sctty", "dup", "close"} => tty_fd \in Fds
  /\ ctty = "new" => pc \in {"dup", "close", "munmap", "done"}
  /\ ctty # "new" => \A n \in Fds \ {tty_fd} : fd[n] # "new"
  /\ pc \in {"dup", "close"} \/ Through => ctty = "new" /\ tty_fd \in Fds /\ SessionLeader

\* What the dup loop has done, and that nothing else was touched.
Streams ==
  /\ fds \subseteq Fds /\ fds # {}
  /\ \A n \in Fds \ (fds \cup {tty_fd}) : fd[n] \in {fd0[n], "closed"}
  /\ pc = "dup" => toDup \subseteq fds
  /\ pc = "dup" => \A n \in fds \ toDup : fd[n] = "new" /\ (isa = "aarch64" => n # tty_fd)
  /\ pc = "close" => \A n \in fds : fd[n] = "new" /\ (isa = "aarch64" => n # tty_fd)
  /\ Through =>
       /\ \A n \in fds \ {tty_fd} : fd[n] = "new"
       /\ isa = "aarch64" => tty_fd \notin fds
       /\ fd[tty_fd] = "closed"

IInv == TypeOK /\ Page /\ Hangups /\ Terminal /\ Streams

-----------------------------------------------------------------------------
(***************************************************************************)
(* The steps, and type correctness.                                        *)
(***************************************************************************)

LEMMA StepCases ==
  ASSUME [Next]_vars
  PROVE  \/ UNCHANGED vars
         \/ Seize
         \/ Mmap
         \/ MmapFails
         \/ Refused
         \/ IgnoreSighup
         \/ Notty
         \/ ForkChild
         \/ ForDummy
         \/ DummySetpgid
         \/ \E p \in Procs : MoveProc(p)
         \/ MoveDone
         \/ Setsid
         \/ SetpgidFails
         \/ SetsidFails
         \/ Kill
         \/ Retire
         \/ Reap
         \/ Openat
         \/ Sctty
         \/ \E n \in Fds : Dup(n)
         \/ DupDone
         \/ Close
         \/ Munmap
         \/ \E n \in Fds : TargetCloses(n)
         \/ TargetSetsid
         \/ \E p \in Procs : ProcExits(p)
         \/ Hangup
         \/ HangupKills
         \/ Killed
         \/ DummyRuns
         \/ NottyRefused
         \/ KillRefused
         \/ RetireRefused
         \/ ReapRefused
         \/ \E p \in Procs : MoveRefused(p)
<1>1. CASE Execute
  BY <1>1 DEF Execute, DoSetsid
<1>2. CASE Disturbance
  BY <1>2 DEF Disturbance
<1>3. CASE Terminated
  BY <1>3 DEF Terminated
<1>. QED BY <1>1, <1>2, <1>3 DEF Next

\* openat answers with a descriptor that was closed.
LEMMA FreeFd ==
  ASSUME FreeFds # {}
  PROVE  Min(FreeFds) \in Fds /\ fd[Min(FreeFds)] = "closed"
<1>1. FreeFds \subseteq Nat
  BY MaxFdAssumption DEF FreeFds, Fds
<1>2. Min(FreeFds) \in FreeFds
  BY <1>1, MinIsElement
<1>. QED BY <1>2 DEF FreeFds

\* The dup loop takes a descriptor it still has to do.
LEMMA NextDup ==
  ASSUME TypeOK, NEW n, Dup(n)
  PROVE  n \in toDup /\ n \in Fds
<1>1. toDup \subseteq Nat /\ toDup # {} /\ n = Min(toDup)
  BY MaxFdAssumption DEF TypeOK, Fds, Dup
<1>2. n \in toDup
  BY <1>1, MinIsElement
<1>. QED BY <1>2 DEF TypeOK

GroupTypes ==
  /\ procs \subseteq Procs /\ toMove \subseteq Procs
  /\ pgrp \in [Procs -> Groups] /\ sess \in [Procs -> Groups]

TableTypes ==
  /\ fd \in [Fds -> {"closed", "old", "new", "file"}] /\ fd0 \in [Fds -> {"closed", "old", "file"}]
  /\ fds \subseteq Fds /\ toDup \subseteq Fds /\ tty_fd \in Fds \cup {NoFd}

StateTypes ==
  /\ ctty \in {"old", "new", "none"} /\ sighup \in {"default", "ignored"}
  /\ dummy \in {"none", "stopped", "zombie", "reaped", "loose"}
  /\ fate \in {"running", "hungup", "killed"} /\ pc \in Pcs /\ isa \in ISAs

FlagTypes ==
  /\ hupPending \in BOOLEAN /\ scratch \in BOOLEAN /\ force \in BOOLEAN
  /\ is_session_leader \in BOOLEAN /\ mainThread \in BOOLEAN
  /\ failed \in BOOLEAN /\ hangup \in BOOLEAN

LEMMA TypeParts ==
  TypeOK <=> GroupTypes /\ TableTypes /\ StateTypes /\ FlagTypes /\ disturbed \in BOOLEAN
BY DEF TypeOK, GroupTypes, TableTypes, StateTypes, FlagTypes

LEMMA TypeInit == Init => TypeOK
<1>. SUFFICES ASSUME Init PROVE TypeOK
  OBVIOUS
<1>1. procs \subseteq Procs
  <2>1. PICK others \in SUBSET Companions : procs = {"target"} \cup others
    BY DEF Init
  <2>. QED BY <2>1, CompanionsAssumption DEF Procs
<1>2. pgrp \in [Procs -> Groups] /\ sess \in [Procs -> Groups]
  BY DEF Init, Procs, Groups
<1>3. fd \in [Fds -> {"closed", "old", "new", "file"}] /\ fd0 \in [Fds -> {"closed", "old", "file"}]
  BY KindsAssumption DEF Init
<1>4. fds \subseteq Fds
  <2>1. PICK streams \in StreamSets : fds = fds_to_redirect(streams, force)
    BY DEF Init
  <2>2. 0 .. 2 \subseteq Fds
    BY MaxFdAssumption DEF Fds
  <2>. QED BY <2>1, <2>2, Zenon DEF fds_to_redirect
<1>5. is_session_leader \in BOOLEAN
  BY DEF Init, SessionLeader
<1>6. force \in BOOLEAN
  BY ForcesAssumption DEF Init
<1>. QED BY <1>1, <1>2, <1>3, <1>4, <1>5, <1>6 DEF Init, TypeOK, Pcs

\* Every step keeps the types: of the processes and their groups,
LEMMA GroupTypeStep == TypeOK /\ [Next]_vars => GroupTypes'
<1>. SUFFICES ASSUME TypeOK, [Next]_vars PROVE GroupTypes'
  OBVIOUS
<1>0. GroupTypes
  BY TypeParts
<1>1. CASE UNCHANGED vars
  BY <1>1, <1>0 DEF GroupTypes, Procs, Groups, vars, target, plan, engine
<1>2. CASE Seize
  BY <1>2, <1>0 DEF Seize, Call, Idle, Kept, target, plan, engine, GroupTypes, Procs, Groups
<1>3. CASE Mmap
  BY <1>3, <1>0 DEF Mmap, Call, Idle, Kept, target, plan, engine, GroupTypes, Procs, Groups
<1>4. CASE MmapFails
  BY <1>4, <1>0 DEF MmapFails, Call, Kept, target, plan, engine, GroupTypes, Procs, Groups
<1>5. CASE Refused
  BY <1>5, <1>0 DEF Refused, Bail, Call, Kept, target, plan, engine, GroupTypes, Procs, Groups
<1>6. CASE IgnoreSighup
  BY <1>6, <1>0 DEF IgnoreSighup, Call, Idle, Kept, AfterSigaction, target, plan, engine, GroupTypes, Procs, Groups
<1>7. CASE Notty
  BY <1>7, <1>0 DEF Notty, Call, Idle, Kept, target, plan, engine, GroupTypes, Procs, Groups
<1>8. CASE ForkChild
  BY <1>8, <1>0 DEF ForkChild, Call, Idle, Kept, target, plan, engine, GroupTypes, Procs, Groups
<1>9. CASE ForDummy
  BY <1>9, <1>0 DEF ForDummy, Bail, Call, Idle, Kept, target, plan, engine, GroupTypes, Procs, Groups
<1>10. CASE DummySetpgid
  BY <1>10, <1>0 DEF DummySetpgid, Call, Kept, procs_in_pgrp, target, plan, engine, GroupTypes, Procs, Groups
<1>11. CASE \E p \in Procs : MoveProc(p)
  BY <1>11, <1>0 DEF MoveProc, Call, Kept, target, plan, engine, GroupTypes, Procs, Groups
<1>12. CASE MoveDone
  BY <1>12, <1>0 DEF MoveDone, Call, Idle, Kept, target, plan, engine, GroupTypes, Procs, Groups
<1>13. CASE Setsid
  BY <1>13, <1>0 DEF Setsid, Call, Idle, Kept, target, plan, engine, GroupTypes, Procs, Groups
<1>14. CASE SetpgidFails
  BY <1>14, <1>0 DEF SetpgidFails, Call, DanceFails, Idle, Kept, target, plan, engine, GroupTypes, Procs, Groups
<1>15. CASE SetsidFails
  BY <1>15, <1>0 DEF SetsidFails, Call, DanceFails, Idle, Kept, target, plan, engine, GroupTypes, Procs, Groups
<1>16. CASE Kill
  BY <1>16, <1>0 DEF Kill, Call, RetireDummy, Kept, target, plan, engine, GroupTypes, Procs, Groups
<1>17. CASE Retire
  BY <1>17, <1>0 DEF Retire, Call, RetireDummy, Kept, target, plan, engine, GroupTypes, Procs, Groups
<1>18. CASE Reap
  BY <1>18, <1>0 DEF Reap, Call, Idle, Kept, target, plan, engine, GroupTypes, Procs, Groups
<1>19. CASE Openat
  BY <1>19, <1>0, FreeFd DEF Openat, Call, Kept, target, plan, engine, GroupTypes, Procs, Groups
<1>20. CASE Sctty
  BY <1>20, <1>0 DEF Sctty, Bail, Call, Kept, target, plan, engine, GroupTypes, Procs, Groups
<1>21. CASE \E n \in Fds : Dup(n)
  BY <1>21, <1>0, NextDup DEF Dup, Bail, Call, Kept, target, plan, engine, GroupTypes, Procs, Groups
<1>22. CASE DupDone
  BY <1>22, <1>0 DEF DupDone, Call, Idle, Kept, target, plan, engine, GroupTypes, Procs, Groups
<1>23. CASE Close
  BY <1>23, <1>0 DEF Close, Call, Idle, Kept, target, plan, engine, GroupTypes, Procs, Groups
<1>24. CASE Munmap
  BY <1>24, <1>0 DEF Munmap, Call, Idle, Kept, target, plan, engine, GroupTypes, Procs, Groups
<1>25. CASE \E n \in Fds : TargetCloses(n)
  BY <1>25, <1>0 DEF TargetCloses, Call, Environment, target, plan, engine, GroupTypes, Procs, Groups
<1>26. CASE TargetSetsid
  BY <1>26, <1>0 DEF TargetSetsid, Call, Environment, target, plan, engine, GroupTypes, Procs, Groups
<1>27. CASE \E p \in Procs : ProcExits(p)
  BY <1>27, <1>0 DEF ProcExits, target, plan, engine, GroupTypes, Procs, Groups
<1>28. CASE Hangup
  BY <1>28, <1>0 DEF Hangup, Environment, target, plan, engine, GroupTypes, Procs, Groups
<1>29. CASE HangupKills
  BY <1>29, <1>0 DEF HangupKills, target, plan, engine, GroupTypes, Procs, Groups
<1>30. CASE Killed
  BY <1>30, <1>0 DEF Killed, target, plan, engine, GroupTypes, Procs, Groups
<1>31. CASE DummyRuns
  BY <1>31, <1>0 DEF DummyRuns, target, plan, engine, GroupTypes, Procs, Groups
<1>32. CASE NottyRefused
  BY <1>32, <1>0 DEF NottyRefused, Call, Idle, Kept, target, plan, engine, GroupTypes, Procs, Groups
<1>33. CASE KillRefused
  BY <1>33, <1>0 DEF KillRefused, Call, RetireDummy, Kept, target, plan, engine, GroupTypes, Procs, Groups
<1>34. CASE RetireRefused
  BY <1>34, <1>0 DEF RetireRefused, Call, RetireDummy, Kept, target, plan, engine, GroupTypes, Procs, Groups
<1>35. CASE ReapRefused
  BY <1>35, <1>0 DEF ReapRefused, Call, Idle, Kept, target, plan, engine, GroupTypes, Procs, Groups
<1>36. CASE \E p \in Procs : MoveRefused(p)
  BY <1>36, <1>0 DEF MoveRefused, Call, Kept, target, plan, engine, GroupTypes, Procs, Groups
<1>. QED BY StepCases, <1>1, <1>2, <1>3, <1>4, <1>5, <1>6, <1>7, <1>8, <1>9, <1>10, <1>11, <1>12, <1>13, <1>14, <1>15, <1>16, <1>17, <1>18, <1>19, <1>20, <1>21, <1>22, <1>23, <1>24, <1>25, <1>26, <1>27, <1>28, <1>29, <1>30, <1>31, <1>32, <1>33, <1>34, <1>35, <1>36

\* of the descriptors,
LEMMA TableTypeStep == TypeOK /\ [Next]_vars => TableTypes'
<1>. SUFFICES ASSUME TypeOK, [Next]_vars PROVE TableTypes'
  OBVIOUS
<1>0. TableTypes
  BY TypeParts
<1>1. CASE UNCHANGED vars
  BY <1>1, <1>0 DEF TableTypes, NoFd, vars, target, plan, engine
<1>2. CASE Seize
  BY <1>2, <1>0 DEF Seize, Call, Idle, Kept, target, plan, engine, TableTypes, NoFd
<1>3. CASE Mmap
  BY <1>3, <1>0 DEF Mmap, Call, Idle, Kept, target, plan, engine, TableTypes, NoFd
<1>4. CASE MmapFails
  BY <1>4, <1>0 DEF MmapFails, Call, Kept, target, plan, engine, TableTypes, NoFd
<1>5. CASE Refused
  BY <1>5, <1>0 DEF Refused, Bail, Call, Kept, target, plan, engine, TableTypes, NoFd
<1>6. CASE IgnoreSighup
  BY <1>6, <1>0 DEF IgnoreSighup, Call, Idle, Kept, AfterSigaction, target, plan, engine, TableTypes, NoFd
<1>7. CASE Notty
  BY <1>7, <1>0 DEF Notty, Call, Idle, Kept, target, plan, engine, TableTypes, NoFd
<1>8. CASE ForkChild
  BY <1>8, <1>0 DEF ForkChild, Call, Idle, Kept, target, plan, engine, TableTypes, NoFd
<1>9. CASE ForDummy
  BY <1>9, <1>0 DEF ForDummy, Bail, Call, Idle, Kept, target, plan, engine, TableTypes, NoFd
<1>10. CASE DummySetpgid
  BY <1>10, <1>0 DEF DummySetpgid, Call, Kept, procs_in_pgrp, target, plan, engine, TableTypes, NoFd
<1>11. CASE \E p \in Procs : MoveProc(p)
  BY <1>11, <1>0 DEF MoveProc, Call, Kept, target, plan, engine, TableTypes, NoFd
<1>12. CASE MoveDone
  BY <1>12, <1>0 DEF MoveDone, Call, Idle, Kept, target, plan, engine, TableTypes, NoFd
<1>13. CASE Setsid
  BY <1>13, <1>0 DEF Setsid, Call, Idle, Kept, target, plan, engine, TableTypes, NoFd
<1>14. CASE SetpgidFails
  BY <1>14, <1>0 DEF SetpgidFails, Call, DanceFails, Idle, Kept, target, plan, engine, TableTypes, NoFd
<1>15. CASE SetsidFails
  BY <1>15, <1>0 DEF SetsidFails, Call, DanceFails, Idle, Kept, target, plan, engine, TableTypes, NoFd
<1>16. CASE Kill
  BY <1>16, <1>0 DEF Kill, Call, RetireDummy, Kept, target, plan, engine, TableTypes, NoFd
<1>17. CASE Retire
  BY <1>17, <1>0 DEF Retire, Call, RetireDummy, Kept, target, plan, engine, TableTypes, NoFd
<1>18. CASE Reap
  BY <1>18, <1>0 DEF Reap, Call, Idle, Kept, target, plan, engine, TableTypes, NoFd
<1>19. CASE Openat
  BY <1>19, <1>0, FreeFd DEF Openat, Call, Kept, target, plan, engine, TableTypes, NoFd
<1>20. CASE Sctty
  BY <1>20, <1>0 DEF Sctty, Bail, Call, Kept, target, plan, engine, TableTypes, NoFd
<1>21. CASE \E n \in Fds : Dup(n)
  BY <1>21, <1>0, NextDup DEF Dup, Bail, Call, Kept, target, plan, engine, TableTypes, NoFd
<1>22. CASE DupDone
  BY <1>22, <1>0 DEF DupDone, Call, Idle, Kept, target, plan, engine, TableTypes, NoFd
<1>23. CASE Close
  BY <1>23, <1>0 DEF Close, Call, Idle, Kept, target, plan, engine, TableTypes, NoFd
<1>24. CASE Munmap
  BY <1>24, <1>0 DEF Munmap, Call, Idle, Kept, target, plan, engine, TableTypes, NoFd
<1>25. CASE \E n \in Fds : TargetCloses(n)
  BY <1>25, <1>0 DEF TargetCloses, Call, Environment, target, plan, engine, TableTypes, NoFd
<1>26. CASE TargetSetsid
  BY <1>26, <1>0 DEF TargetSetsid, Call, Environment, target, plan, engine, TableTypes, NoFd
<1>27. CASE \E p \in Procs : ProcExits(p)
  BY <1>27, <1>0 DEF ProcExits, target, plan, engine, TableTypes, NoFd
<1>28. CASE Hangup
  BY <1>28, <1>0 DEF Hangup, Environment, target, plan, engine, TableTypes, NoFd
<1>29. CASE HangupKills
  BY <1>29, <1>0 DEF HangupKills, target, plan, engine, TableTypes, NoFd
<1>30. CASE Killed
  BY <1>30, <1>0 DEF Killed, target, plan, engine, TableTypes, NoFd
<1>31. CASE DummyRuns
  BY <1>31, <1>0 DEF DummyRuns, target, plan, engine, TableTypes, NoFd
<1>32. CASE NottyRefused
  BY <1>32, <1>0 DEF NottyRefused, Call, Idle, Kept, target, plan, engine, TableTypes, NoFd
<1>33. CASE KillRefused
  BY <1>33, <1>0 DEF KillRefused, Call, RetireDummy, Kept, target, plan, engine, TableTypes, NoFd
<1>34. CASE RetireRefused
  BY <1>34, <1>0 DEF RetireRefused, Call, RetireDummy, Kept, target, plan, engine, TableTypes, NoFd
<1>35. CASE ReapRefused
  BY <1>35, <1>0 DEF ReapRefused, Call, Idle, Kept, target, plan, engine, TableTypes, NoFd
<1>36. CASE \E p \in Procs : MoveRefused(p)
  BY <1>36, <1>0 DEF MoveRefused, Call, Kept, target, plan, engine, TableTypes, NoFd
<1>. QED BY StepCases, <1>1, <1>2, <1>3, <1>4, <1>5, <1>6, <1>7, <1>8, <1>9, <1>10, <1>11, <1>12, <1>13, <1>14, <1>15, <1>16, <1>17, <1>18, <1>19, <1>20, <1>21, <1>22, <1>23, <1>24, <1>25, <1>26, <1>27, <1>28, <1>29, <1>30, <1>31, <1>32, <1>33, <1>34, <1>35, <1>36

\* of the states,
LEMMA StateTypeStep == TypeOK /\ [Next]_vars => StateTypes'
<1>. SUFFICES ASSUME TypeOK, [Next]_vars PROVE StateTypes'
  OBVIOUS
<1>0. StateTypes
  BY TypeParts
<1>1. CASE UNCHANGED vars
  BY <1>1, <1>0 DEF StateTypes, Pcs, vars, target, plan, engine
<1>2. CASE Seize
  BY <1>2, <1>0 DEF Seize, Call, Idle, Kept, target, plan, engine, StateTypes, Pcs
<1>3. CASE Mmap
  BY <1>3, <1>0 DEF Mmap, Call, Idle, Kept, target, plan, engine, StateTypes, Pcs
<1>4. CASE MmapFails
  BY <1>4, <1>0 DEF MmapFails, Call, Kept, target, plan, engine, StateTypes, Pcs
<1>5. CASE Refused
  BY <1>5, <1>0 DEF Refused, Bail, Call, Kept, target, plan, engine, StateTypes, Pcs
<1>6. CASE IgnoreSighup
  BY <1>6, <1>0 DEF IgnoreSighup, Call, Idle, Kept, AfterSigaction, target, plan, engine, StateTypes, Pcs
<1>7. CASE Notty
  BY <1>7, <1>0 DEF Notty, Call, Idle, Kept, target, plan, engine, StateTypes, Pcs
<1>8. CASE ForkChild
  BY <1>8, <1>0 DEF ForkChild, Call, Idle, Kept, target, plan, engine, StateTypes, Pcs
<1>9. CASE ForDummy
  BY <1>9, <1>0 DEF ForDummy, Bail, Call, Idle, Kept, target, plan, engine, StateTypes, Pcs
<1>10. CASE DummySetpgid
  BY <1>10, <1>0 DEF DummySetpgid, Call, Kept, procs_in_pgrp, target, plan, engine, StateTypes, Pcs
<1>11. CASE \E p \in Procs : MoveProc(p)
  BY <1>11, <1>0 DEF MoveProc, Call, Kept, target, plan, engine, StateTypes, Pcs
<1>12. CASE MoveDone
  BY <1>12, <1>0 DEF MoveDone, Call, Idle, Kept, target, plan, engine, StateTypes, Pcs
<1>13. CASE Setsid
  BY <1>13, <1>0 DEF Setsid, Call, Idle, Kept, target, plan, engine, StateTypes, Pcs
<1>14. CASE SetpgidFails
  BY <1>14, <1>0 DEF SetpgidFails, Call, DanceFails, Idle, Kept, target, plan, engine, StateTypes, Pcs
<1>15. CASE SetsidFails
  BY <1>15, <1>0 DEF SetsidFails, Call, DanceFails, Idle, Kept, target, plan, engine, StateTypes, Pcs
<1>16. CASE Kill
  BY <1>16, <1>0 DEF Kill, Call, RetireDummy, Kept, target, plan, engine, StateTypes, Pcs
<1>17. CASE Retire
  BY <1>17, <1>0 DEF Retire, Call, RetireDummy, Kept, target, plan, engine, StateTypes, Pcs
<1>18. CASE Reap
  BY <1>18, <1>0 DEF Reap, Call, Idle, Kept, target, plan, engine, StateTypes, Pcs
<1>19. CASE Openat
  BY <1>19, <1>0, FreeFd DEF Openat, Call, Kept, target, plan, engine, StateTypes, Pcs
<1>20. CASE Sctty
  BY <1>20, <1>0 DEF Sctty, Bail, Call, Kept, target, plan, engine, StateTypes, Pcs
<1>21. CASE \E n \in Fds : Dup(n)
  BY <1>21, <1>0, NextDup DEF Dup, Bail, Call, Kept, target, plan, engine, StateTypes, Pcs
<1>22. CASE DupDone
  BY <1>22, <1>0 DEF DupDone, Call, Idle, Kept, target, plan, engine, StateTypes, Pcs
<1>23. CASE Close
  BY <1>23, <1>0 DEF Close, Call, Idle, Kept, target, plan, engine, StateTypes, Pcs
<1>24. CASE Munmap
  BY <1>24, <1>0 DEF Munmap, Call, Idle, Kept, target, plan, engine, StateTypes, Pcs
<1>25. CASE \E n \in Fds : TargetCloses(n)
  BY <1>25, <1>0 DEF TargetCloses, Call, Environment, target, plan, engine, StateTypes, Pcs
<1>26. CASE TargetSetsid
  BY <1>26, <1>0 DEF TargetSetsid, Call, Environment, target, plan, engine, StateTypes, Pcs
<1>27. CASE \E p \in Procs : ProcExits(p)
  BY <1>27, <1>0 DEF ProcExits, target, plan, engine, StateTypes, Pcs
<1>28. CASE Hangup
  BY <1>28, <1>0 DEF Hangup, Environment, target, plan, engine, StateTypes, Pcs
<1>29. CASE HangupKills
  BY <1>29, <1>0 DEF HangupKills, target, plan, engine, StateTypes, Pcs
<1>30. CASE Killed
  BY <1>30, <1>0 DEF Killed, target, plan, engine, StateTypes, Pcs
<1>31. CASE DummyRuns
  BY <1>31, <1>0 DEF DummyRuns, target, plan, engine, StateTypes, Pcs
<1>32. CASE NottyRefused
  BY <1>32, <1>0 DEF NottyRefused, Call, Idle, Kept, target, plan, engine, StateTypes, Pcs
<1>33. CASE KillRefused
  BY <1>33, <1>0 DEF KillRefused, Call, RetireDummy, Kept, target, plan, engine, StateTypes, Pcs
<1>34. CASE RetireRefused
  BY <1>34, <1>0 DEF RetireRefused, Call, RetireDummy, Kept, target, plan, engine, StateTypes, Pcs
<1>35. CASE ReapRefused
  BY <1>35, <1>0 DEF ReapRefused, Call, Idle, Kept, target, plan, engine, StateTypes, Pcs
<1>36. CASE \E p \in Procs : MoveRefused(p)
  BY <1>36, <1>0 DEF MoveRefused, Call, Kept, target, plan, engine, StateTypes, Pcs
<1>. QED BY StepCases, <1>1, <1>2, <1>3, <1>4, <1>5, <1>6, <1>7, <1>8, <1>9, <1>10, <1>11, <1>12, <1>13, <1>14, <1>15, <1>16, <1>17, <1>18, <1>19, <1>20, <1>21, <1>22, <1>23, <1>24, <1>25, <1>26, <1>27, <1>28, <1>29, <1>30, <1>31, <1>32, <1>33, <1>34, <1>35, <1>36

\* and of the flags.
LEMMA FlagTypeStep == TypeOK /\ [Next]_vars => FlagTypes'
<1>. SUFFICES ASSUME TypeOK, [Next]_vars PROVE FlagTypes'
  OBVIOUS
<1>0. FlagTypes
  BY TypeParts
<1>1. CASE UNCHANGED vars
  BY <1>1, <1>0 DEF FlagTypes, vars, target, plan, engine
<1>2. CASE Seize
  BY <1>2, <1>0 DEF Seize, Call, Idle, Kept, target, plan, engine, FlagTypes
<1>3. CASE Mmap
  BY <1>3, <1>0 DEF Mmap, Call, Idle, Kept, target, plan, engine, FlagTypes
<1>4. CASE MmapFails
  BY <1>4, <1>0 DEF MmapFails, Call, Kept, target, plan, engine, FlagTypes
<1>5. CASE Refused
  BY <1>5, <1>0 DEF Refused, Bail, Call, Kept, target, plan, engine, FlagTypes
<1>6. CASE IgnoreSighup
  BY <1>6, <1>0 DEF IgnoreSighup, Call, Idle, Kept, AfterSigaction, target, plan, engine, FlagTypes
<1>7. CASE Notty
  BY <1>7, <1>0 DEF Notty, Call, Idle, Kept, target, plan, engine, FlagTypes
<1>8. CASE ForkChild
  BY <1>8, <1>0 DEF ForkChild, Call, Idle, Kept, target, plan, engine, FlagTypes
<1>9. CASE ForDummy
  BY <1>9, <1>0 DEF ForDummy, Bail, Call, Idle, Kept, target, plan, engine, FlagTypes
<1>10. CASE DummySetpgid
  BY <1>10, <1>0 DEF DummySetpgid, Call, Kept, procs_in_pgrp, target, plan, engine, FlagTypes
<1>11. CASE \E p \in Procs : MoveProc(p)
  BY <1>11, <1>0 DEF MoveProc, Call, Kept, target, plan, engine, FlagTypes
<1>12. CASE MoveDone
  BY <1>12, <1>0 DEF MoveDone, Call, Idle, Kept, target, plan, engine, FlagTypes
<1>13. CASE Setsid
  BY <1>13, <1>0 DEF Setsid, Call, Idle, Kept, target, plan, engine, FlagTypes
<1>14. CASE SetpgidFails
  BY <1>14, <1>0 DEF SetpgidFails, Call, DanceFails, Idle, Kept, target, plan, engine, FlagTypes
<1>15. CASE SetsidFails
  BY <1>15, <1>0 DEF SetsidFails, Call, DanceFails, Idle, Kept, target, plan, engine, FlagTypes
<1>16. CASE Kill
  BY <1>16, <1>0 DEF Kill, Call, RetireDummy, Kept, target, plan, engine, FlagTypes
<1>17. CASE Retire
  BY <1>17, <1>0 DEF Retire, Call, RetireDummy, Kept, target, plan, engine, FlagTypes
<1>18. CASE Reap
  BY <1>18, <1>0 DEF Reap, Call, Idle, Kept, target, plan, engine, FlagTypes
<1>19. CASE Openat
  BY <1>19, <1>0, FreeFd DEF Openat, Call, Kept, target, plan, engine, FlagTypes
<1>20. CASE Sctty
  BY <1>20, <1>0 DEF Sctty, Bail, Call, Kept, target, plan, engine, FlagTypes
<1>21. CASE \E n \in Fds : Dup(n)
  BY <1>21, <1>0, NextDup DEF Dup, Bail, Call, Kept, target, plan, engine, FlagTypes
<1>22. CASE DupDone
  BY <1>22, <1>0 DEF DupDone, Call, Idle, Kept, target, plan, engine, FlagTypes
<1>23. CASE Close
  BY <1>23, <1>0 DEF Close, Call, Idle, Kept, target, plan, engine, FlagTypes
<1>24. CASE Munmap
  BY <1>24, <1>0 DEF Munmap, Call, Idle, Kept, target, plan, engine, FlagTypes
<1>25. CASE \E n \in Fds : TargetCloses(n)
  BY <1>25, <1>0 DEF TargetCloses, Call, Environment, target, plan, engine, FlagTypes
<1>26. CASE TargetSetsid
  BY <1>26, <1>0 DEF TargetSetsid, Call, Environment, target, plan, engine, FlagTypes
<1>27. CASE \E p \in Procs : ProcExits(p)
  BY <1>27, <1>0 DEF ProcExits, target, plan, engine, FlagTypes
<1>28. CASE Hangup
  BY <1>28, <1>0 DEF Hangup, Environment, target, plan, engine, FlagTypes
<1>29. CASE HangupKills
  BY <1>29, <1>0 DEF HangupKills, target, plan, engine, FlagTypes
<1>30. CASE Killed
  BY <1>30, <1>0 DEF Killed, target, plan, engine, FlagTypes
<1>31. CASE DummyRuns
  BY <1>31, <1>0 DEF DummyRuns, target, plan, engine, FlagTypes
<1>32. CASE NottyRefused
  BY <1>32, <1>0 DEF NottyRefused, Call, Idle, Kept, target, plan, engine, FlagTypes
<1>33. CASE KillRefused
  BY <1>33, <1>0 DEF KillRefused, Call, RetireDummy, Kept, target, plan, engine, FlagTypes
<1>34. CASE RetireRefused
  BY <1>34, <1>0 DEF RetireRefused, Call, RetireDummy, Kept, target, plan, engine, FlagTypes
<1>35. CASE ReapRefused
  BY <1>35, <1>0 DEF ReapRefused, Call, Idle, Kept, target, plan, engine, FlagTypes
<1>36. CASE \E p \in Procs : MoveRefused(p)
  BY <1>36, <1>0 DEF MoveRefused, Call, Kept, target, plan, engine, FlagTypes
<1>. QED BY StepCases, <1>1, <1>2, <1>3, <1>4, <1>5, <1>6, <1>7, <1>8, <1>9, <1>10, <1>11, <1>12, <1>13, <1>14, <1>15, <1>16, <1>17, <1>18, <1>19, <1>20, <1>21, <1>22, <1>23, <1>24, <1>25, <1>26, <1>27, <1>28, <1>29, <1>30, <1>31, <1>32, <1>33, <1>34, <1>35, <1>36

LEMMA TypeStep == TypeOK /\ [Next]_vars => TypeOK'
<1>. SUFFICES ASSUME TypeOK, [Next]_vars PROVE TypeOK'
  OBVIOUS
<1>1. disturbed' \in BOOLEAN
  BY DEF TypeOK, Next, Execute, Disturbance, Terminated, vars
<1>2. GroupTypes' /\ TableTypes' /\ StateTypes' /\ FlagTypes'
  BY GroupTypeStep, TableTypeStep, StateTypeStep, FlagTypeStep
<1>. QED BY <1>1, <1>2 DEF TypeOK, GroupTypes, TableTypes, StateTypes, FlagTypes

-----------------------------------------------------------------------------
(***************************************************************************)
(* The invariant is inductive.                                             *)
(***************************************************************************)

\* The scratch page is mapped and released.
LEMMA PageStep == IInv /\ [Next]_vars => Page'
<1>. SUFFICES ASSUME IInv, [Next]_vars PROVE Page'
  OBVIOUS
<1>1. CASE UNCHANGED vars
  BY <1>1 DEF IInv, Page, Through, vars, target, plan, engine
<1>2. CASE Seize
  BY <1>2 DEF Seize, Call, Idle, Kept, target, plan, engine, IInv, Page, Through
<1>3. CASE Mmap
  BY <1>3 DEF Mmap, Call, Idle, Kept, target, plan, engine, IInv, Page, Through
<1>4. CASE MmapFails
  BY <1>4 DEF MmapFails, Call, Kept, target, plan, engine, IInv, Page, Through
<1>5. CASE Refused
  BY <1>5 DEF Refused, Bail, Call, Kept, target, plan, engine, IInv, Page, Through
<1>6. CASE IgnoreSighup
  BY <1>6 DEF IgnoreSighup, Call, Idle, Kept, AfterSigaction, target, plan, engine, IInv, Page, Through
<1>7. CASE Notty
  BY <1>7 DEF Notty, Call, Idle, Kept, target, plan, engine, IInv, Page, Through
<1>8. CASE ForkChild
  BY <1>8 DEF ForkChild, Call, Idle, Kept, target, plan, engine, IInv, Page, Through
<1>9. CASE ForDummy
  BY <1>9 DEF ForDummy, Bail, Call, Idle, Kept, target, plan, engine, IInv, Page, Through
<1>10. CASE DummySetpgid
  BY <1>10 DEF DummySetpgid, Call, Kept, procs_in_pgrp, target, plan, engine, IInv, Page, Through
<1>11. CASE \E p \in Procs : MoveProc(p)
  BY <1>11 DEF MoveProc, Call, Kept, target, plan, engine, IInv, Page, Through
<1>12. CASE MoveDone
  BY <1>12 DEF MoveDone, Call, Idle, Kept, target, plan, engine, IInv, Page, Through
<1>13. CASE Setsid
  BY <1>13 DEF Setsid, Call, Idle, Kept, target, plan, engine, IInv, Page, Through
<1>14. CASE SetpgidFails
  BY <1>14 DEF SetpgidFails, Call, DanceFails, Idle, Kept, target, plan, engine, IInv, Page, Through
<1>15. CASE SetsidFails
  BY <1>15 DEF SetsidFails, Call, DanceFails, Idle, Kept, target, plan, engine, IInv, Page, Through
<1>16. CASE Kill
  BY <1>16 DEF Kill, Call, RetireDummy, Kept, target, plan, engine, IInv, Page, Through
<1>17. CASE Retire
  BY <1>17 DEF Retire, Call, RetireDummy, Kept, target, plan, engine, IInv, Page, Through
<1>18. CASE Reap
  BY <1>18 DEF Reap, Call, Idle, Kept, target, plan, engine, IInv, Page, Through
<1>19. CASE Openat
  BY <1>19 DEF Openat, Call, Kept, target, plan, engine, IInv, Page, Through
<1>20. CASE Sctty
  BY <1>20 DEF Sctty, Bail, Call, Kept, target, plan, engine, IInv, Page, Through
<1>21. CASE \E n \in Fds : Dup(n)
  BY <1>21 DEF Dup, Bail, Call, Kept, target, plan, engine, IInv, Page, Through
<1>22. CASE DupDone
  BY <1>22 DEF DupDone, Call, Idle, Kept, target, plan, engine, IInv, Page, Through
<1>23. CASE Close
  BY <1>23 DEF Close, Call, Idle, Kept, target, plan, engine, IInv, Page, Through
<1>24. CASE Munmap
  BY <1>24 DEF Munmap, Call, Idle, Kept, target, plan, engine, IInv, Page, Through
<1>25. CASE \E n \in Fds : TargetCloses(n)
  BY <1>25 DEF TargetCloses, Call, Environment, target, plan, engine, IInv, Page, Through
<1>26. CASE TargetSetsid
  BY <1>26 DEF TargetSetsid, Call, Environment, target, plan, engine, IInv, Page, Through
<1>27. CASE \E p \in Procs : ProcExits(p)
  BY <1>27 DEF ProcExits, target, plan, engine, IInv, Page, Through
<1>28. CASE Hangup
  BY <1>28 DEF Hangup, Environment, target, plan, engine, IInv, Page, Through
<1>29. CASE HangupKills
  BY <1>29 DEF HangupKills, target, plan, engine, IInv, Page, Through
<1>30. CASE Killed
  BY <1>30 DEF Killed, target, plan, engine, IInv, Page, Through
<1>31. CASE DummyRuns
  BY <1>31 DEF DummyRuns, target, plan, engine, IInv, Page, Through
<1>32. CASE NottyRefused
  BY <1>32 DEF NottyRefused, Call, Idle, Kept, target, plan, engine, IInv, Page, Through
<1>33. CASE KillRefused
  BY <1>33 DEF KillRefused, Call, RetireDummy, Kept, target, plan, engine, IInv, Page, Through
<1>34. CASE RetireRefused
  BY <1>34 DEF RetireRefused, Call, RetireDummy, Kept, target, plan, engine, IInv, Page, Through
<1>35. CASE ReapRefused
  BY <1>35 DEF ReapRefused, Call, Idle, Kept, target, plan, engine, IInv, Page, Through
<1>36. CASE \E p \in Procs : MoveRefused(p)
  BY <1>36 DEF MoveRefused, Call, Kept, target, plan, engine, IInv, Page, Through
<1>. QED BY StepCases, <1>1, <1>2, <1>3, <1>4, <1>5, <1>6, <1>7, <1>8, <1>9, <1>10, <1>11, <1>12, <1>13, <1>14, <1>15, <1>16, <1>17, <1>18, <1>19, <1>20, <1>21, <1>22, <1>23, <1>24, <1>25, <1>26, <1>27, <1>28, <1>29, <1>30, <1>31, <1>32, <1>33, <1>34, <1>35, <1>36

\* SIGHUP is ignored in time.
LEMMA HangupsStep == IInv /\ [Next]_vars => Hangups'
<1>. SUFFICES ASSUME IInv, [Next]_vars PROVE Hangups'
  OBVIOUS
<1>1. CASE UNCHANGED vars
  BY <1>1 DEF IInv, Hangups, Page, Through, vars, target, plan, engine
<1>2. CASE Seize
  BY <1>2 DEF Seize, Call, Idle, Kept, target, plan, engine, IInv, Hangups, Page, Through
<1>3. CASE Mmap
  BY <1>3 DEF Mmap, Call, Idle, Kept, target, plan, engine, IInv, Hangups, Page, Through
<1>4. CASE MmapFails
  BY <1>4 DEF MmapFails, Call, Kept, target, plan, engine, IInv, Hangups, Page, Through
<1>5. CASE Refused
  BY <1>5 DEF Refused, Bail, Call, Kept, target, plan, engine, IInv, Hangups, Page, Through
<1>6. CASE IgnoreSighup
  BY <1>6 DEF IgnoreSighup, Call, Idle, Kept, AfterSigaction, target, plan, engine, IInv, Hangups, Page, Through
<1>7. CASE Notty
  BY <1>7 DEF Notty, Call, Idle, Kept, target, plan, engine, IInv, Hangups, Page, Through
<1>8. CASE ForkChild
  BY <1>8 DEF ForkChild, Call, Idle, Kept, target, plan, engine, IInv, Hangups, Page, Through
<1>9. CASE ForDummy
  BY <1>9 DEF ForDummy, Bail, Call, Idle, Kept, target, plan, engine, IInv, Hangups, Page, Through
<1>10. CASE DummySetpgid
  BY <1>10 DEF DummySetpgid, Call, Kept, procs_in_pgrp, target, plan, engine, IInv, Hangups, Page, Through
<1>11. CASE \E p \in Procs : MoveProc(p)
  BY <1>11 DEF MoveProc, Call, Kept, target, plan, engine, IInv, Hangups, Page, Through
<1>12. CASE MoveDone
  BY <1>12 DEF MoveDone, Call, Idle, Kept, target, plan, engine, IInv, Hangups, Page, Through
<1>13. CASE Setsid
  BY <1>13 DEF Setsid, Call, Idle, Kept, target, plan, engine, IInv, Hangups, Page, Through
<1>14. CASE SetpgidFails
  BY <1>14 DEF SetpgidFails, Call, DanceFails, Idle, Kept, target, plan, engine, IInv, Hangups, Page, Through
<1>15. CASE SetsidFails
  BY <1>15 DEF SetsidFails, Call, DanceFails, Idle, Kept, target, plan, engine, IInv, Hangups, Page, Through
<1>16. CASE Kill
  BY <1>16 DEF Kill, Call, RetireDummy, Kept, target, plan, engine, IInv, Hangups, Page, Through
<1>17. CASE Retire
  BY <1>17 DEF Retire, Call, RetireDummy, Kept, target, plan, engine, IInv, Hangups, Page, Through
<1>18. CASE Reap
  BY <1>18 DEF Reap, Call, Idle, Kept, target, plan, engine, IInv, Hangups, Page, Through
<1>19. CASE Openat
  BY <1>19 DEF Openat, Call, Kept, target, plan, engine, IInv, Hangups, Page, Through
<1>20. CASE Sctty
  BY <1>20 DEF Sctty, Bail, Call, Kept, target, plan, engine, IInv, Hangups, Page, Through
<1>21. CASE \E n \in Fds : Dup(n)
  BY <1>21 DEF Dup, Bail, Call, Kept, target, plan, engine, IInv, Hangups, Page, Through
<1>22. CASE DupDone
  BY <1>22 DEF DupDone, Call, Idle, Kept, target, plan, engine, IInv, Hangups, Page, Through
<1>23. CASE Close
  BY <1>23 DEF Close, Call, Idle, Kept, target, plan, engine, IInv, Hangups, Page, Through
<1>24. CASE Munmap
  BY <1>24 DEF Munmap, Call, Idle, Kept, target, plan, engine, IInv, Hangups, Page, Through
<1>25. CASE \E n \in Fds : TargetCloses(n)
  BY <1>25 DEF TargetCloses, Call, Environment, target, plan, engine, IInv, Hangups, Page, Through
<1>26. CASE TargetSetsid
  BY <1>26 DEF TargetSetsid, Call, Environment, target, plan, engine, IInv, Hangups, Page, Through
<1>27. CASE \E p \in Procs : ProcExits(p)
  BY <1>27 DEF ProcExits, target, plan, engine, IInv, Hangups, Page, Through
<1>28. CASE Hangup
  BY <1>28 DEF Hangup, Environment, target, plan, engine, IInv, Hangups, Page, Through
<1>29. CASE HangupKills
  BY <1>29 DEF HangupKills, target, plan, engine, IInv, Hangups, Page, Through
<1>30. CASE Killed
  BY <1>30 DEF Killed, target, plan, engine, IInv, Hangups, Page, Through
<1>31. CASE DummyRuns
  BY <1>31 DEF DummyRuns, target, plan, engine, IInv, Hangups, Page, Through
<1>32. CASE NottyRefused
  BY <1>32 DEF NottyRefused, Call, Idle, Kept, target, plan, engine, IInv, Hangups, Page, Through
<1>33. CASE KillRefused
  BY <1>33 DEF KillRefused, Call, RetireDummy, Kept, target, plan, engine, IInv, Hangups, Page, Through
<1>34. CASE RetireRefused
  BY <1>34 DEF RetireRefused, Call, RetireDummy, Kept, target, plan, engine, IInv, Hangups, Page, Through
<1>35. CASE ReapRefused
  BY <1>35 DEF ReapRefused, Call, Idle, Kept, target, plan, engine, IInv, Hangups, Page, Through
<1>36. CASE \E p \in Procs : MoveRefused(p)
  BY <1>36 DEF MoveRefused, Call, Kept, target, plan, engine, IInv, Hangups, Page, Through
<1>. QED BY StepCases, <1>1, <1>2, <1>3, <1>4, <1>5, <1>6, <1>7, <1>8, <1>9, <1>10, <1>11, <1>12, <1>13, <1>14, <1>15, <1>16, <1>17, <1>18, <1>19, <1>20, <1>21, <1>22, <1>23, <1>24, <1>25, <1>26, <1>27, <1>28, <1>29, <1>30, <1>31, <1>32, <1>33, <1>34, <1>35, <1>36

\* The terminal is opened, taken, used.
LEMMA TerminalStep == IInv /\ [Next]_vars => Terminal'
<1>. SUFFICES ASSUME IInv, [Next]_vars PROVE Terminal'
  OBVIOUS
<1>1. CASE UNCHANGED vars
  BY <1>1 DEF IInv, Terminal, TypeOK, Page, Through, SessionLeader, NoFd, vars, target, plan, engine
<1>2. CASE Seize
  BY <1>2 DEF Seize, Call, Idle, Kept, target, plan, engine, IInv, Terminal, TypeOK, Page, Through, SessionLeader, NoFd
<1>3. CASE Mmap
  BY <1>3 DEF Mmap, Call, Idle, Kept, target, plan, engine, IInv, Terminal, TypeOK, Page, Through, SessionLeader, NoFd
<1>4. CASE MmapFails
  BY <1>4 DEF MmapFails, Call, Kept, target, plan, engine, IInv, Terminal, TypeOK, Page, Through, SessionLeader, NoFd
<1>5. CASE Refused
  BY <1>5 DEF Refused, Bail, Call, Kept, target, plan, engine, IInv, Terminal, TypeOK, Page, Through, SessionLeader, NoFd
<1>6. CASE IgnoreSighup
  BY <1>6 DEF IgnoreSighup, Call, Idle, Kept, AfterSigaction, target, plan, engine, IInv, Terminal, TypeOK, Page, Through, SessionLeader, NoFd
<1>7. CASE Notty
  BY <1>7 DEF Notty, Call, Idle, Kept, target, plan, engine, IInv, Terminal, TypeOK, Page, Through, SessionLeader, NoFd
<1>8. CASE ForkChild
  BY <1>8 DEF ForkChild, Call, Idle, Kept, target, plan, engine, IInv, Terminal, TypeOK, Page, Through, SessionLeader, NoFd
<1>9. CASE ForDummy
  BY <1>9 DEF ForDummy, Bail, Call, Idle, Kept, target, plan, engine, IInv, Terminal, TypeOK, Page, Through, SessionLeader, NoFd
<1>10. CASE DummySetpgid
  BY <1>10 DEF DummySetpgid, Call, Kept, procs_in_pgrp, target, plan, engine, IInv, Terminal, TypeOK, Page, Through, SessionLeader, NoFd
<1>11. CASE \E p \in Procs : MoveProc(p)
  BY <1>11 DEF MoveProc, Call, Kept, target, plan, engine, IInv, Terminal, TypeOK, Page, Through, SessionLeader, NoFd
<1>12. CASE MoveDone
  BY <1>12 DEF MoveDone, Call, Idle, Kept, target, plan, engine, IInv, Terminal, TypeOK, Page, Through, SessionLeader, NoFd
<1>13. CASE Setsid
  BY <1>13 DEF Setsid, Call, Idle, Kept, target, plan, engine, IInv, Terminal, TypeOK, Page, Through, SessionLeader, NoFd
<1>14. CASE SetpgidFails
  BY <1>14 DEF SetpgidFails, Call, DanceFails, Idle, Kept, target, plan, engine, IInv, Terminal, TypeOK, Page, Through, SessionLeader, NoFd
<1>15. CASE SetsidFails
  BY <1>15 DEF SetsidFails, Call, DanceFails, Idle, Kept, target, plan, engine, IInv, Terminal, TypeOK, Page, Through, SessionLeader, NoFd
<1>16. CASE Kill
  BY <1>16 DEF Kill, Call, RetireDummy, Kept, target, plan, engine, IInv, Terminal, TypeOK, Page, Through, SessionLeader, NoFd
<1>17. CASE Retire
  BY <1>17 DEF Retire, Call, RetireDummy, Kept, target, plan, engine, IInv, Terminal, TypeOK, Page, Through, SessionLeader, NoFd
<1>18. CASE Reap
  BY <1>18 DEF Reap, Call, Idle, Kept, target, plan, engine, IInv, Terminal, TypeOK, Page, Through, SessionLeader, NoFd
<1>19. CASE Openat
  <2>. DEFINE m == Min(FreeFds)
  <2>1. m \in Fds /\ fd[m] = "closed"
    BY <1>19, FreeFd DEF Openat
  <2>2. /\ pc = "openat" /\ pc' = "sctty" /\ tty_fd' = m /\ fd' = [fd EXCEPT ![m] = "new"]
        /\ UNCHANGED <<fds, fd0, isa, ctty, sess, failed, fate, toDup>>
    BY <1>19 DEF Openat, Call, Kept, plan
  <2>. HIDE DEF m
  <2>3. \A n \in Fds : fd'[n] = IF n = m THEN "new" ELSE fd[n]
    BY <2>1, <2>2 DEF IInv, TypeOK
  <2>4. tty_fd = NoFd /\ NoFd \notin Fds
    BY <2>2, MaxFdAssumption DEF IInv, Terminal, NoFd, Fds
  <2>. QED BY <2>1, <2>2, <2>3, <2>4 DEF IInv, Terminal, Through
<1>20. CASE Sctty
  <2>1. /\ pc = "sctty" /\ tty_fd \in Fds /\ fate = "running"
        /\ UNCHANGED <<fd, tty_fd, sess, fate>>
    BY <1>20 DEF Sctty, Call, Bail, IInv, Terminal
  <2>2. tty_fd # NoFd
    BY <2>1, MaxFdAssumption DEF NoFd, Fds
  <2>3. CASE MaySctty
    BY <1>20, <2>1, <2>2, <2>3 DEF Sctty, MaySctty, Terminal, Through, SessionLeader
  <2>4. CASE ~MaySctty
    BY <1>20, <2>1, <2>2, <2>4 DEF Sctty, Bail, IInv, Terminal, Through
  <2>. QED BY <2>3, <2>4
<1>21. CASE \E n \in Fds : Dup(n)
  <2>1. PICK n \in Fds : Dup(n)
    BY <1>21
  <2>2. n \in toDup
    BY <2>1, NextDup DEF IInv
  <2>3. CASE n = tty_fd /\ isa = "aarch64"
    BY <2>1, <2>3 DEF Dup, Bail, Call, Kept, plan, IInv, Terminal, Streams, Through, SessionLeader
  <2>4. CASE ~(n = tty_fd /\ isa = "aarch64")
    <3>1. /\ pc = "dup" /\ toDup' = toDup \ {n} /\ fd' = [fd EXCEPT ![n] = "new"]
          /\ UNCHANGED <<pc, tty_fd, failed, fate, ctty, sess, fds, isa, fd0>>
      BY <2>1, <2>4 DEF Dup, Call, Kept, plan
    <3>2. \A k \in Fds : fd'[k] = IF k = n THEN "new" ELSE fd[k]
      BY <3>1 DEF IInv, TypeOK
    <3>3. ctty = "new" /\ tty_fd \in Fds /\ tty_fd # NoFd
      BY <3>1, MaxFdAssumption DEF IInv, Terminal, NoFd, Fds
    <3>. QED BY <2>2, <2>4, <3>1, <3>2, <3>3 DEF IInv, Terminal, Through, SessionLeader
  <2>. QED BY <2>3, <2>4
<1>22. CASE DupDone
  BY <1>22 DEF DupDone, Call, Idle, Kept, target, plan, engine, IInv, Terminal, TypeOK, Page, Through, SessionLeader, NoFd
<1>23. CASE Close
  BY <1>23 DEF Close, Call, Idle, Kept, target, plan, engine, IInv, Terminal, TypeOK, Page, Through, SessionLeader, NoFd
<1>24. CASE Munmap
  BY <1>24 DEF Munmap, Call, Idle, Kept, target, plan, engine, IInv, Terminal, TypeOK, Page, Through, SessionLeader, NoFd
<1>25. CASE \E n \in Fds : TargetCloses(n)
  BY <1>25 DEF TargetCloses, Call, Environment, target, plan, engine, IInv, Terminal, TypeOK, Page, Through, SessionLeader, NoFd
<1>26. CASE TargetSetsid
  BY <1>26 DEF TargetSetsid, Call, Environment, target, plan, engine, IInv, Terminal, TypeOK, Page, Through, SessionLeader, NoFd
<1>27. CASE \E p \in Procs : ProcExits(p)
  BY <1>27 DEF ProcExits, target, plan, engine, IInv, Terminal, TypeOK, Page, Through, SessionLeader, NoFd
<1>28. CASE Hangup
  BY <1>28 DEF Hangup, Environment, target, plan, engine, IInv, Terminal, TypeOK, Page, Through, SessionLeader, NoFd
<1>29. CASE HangupKills
  BY <1>29 DEF HangupKills, target, plan, engine, IInv, Terminal, TypeOK, Page, Through, SessionLeader, NoFd
<1>30. CASE Killed
  BY <1>30 DEF Killed, target, plan, engine, IInv, Terminal, TypeOK, Page, Through, SessionLeader, NoFd
<1>31. CASE DummyRuns
  BY <1>31 DEF DummyRuns, target, plan, engine, IInv, Terminal, TypeOK, Page, Through, SessionLeader, NoFd
<1>32. CASE NottyRefused
  BY <1>32 DEF NottyRefused, Call, Idle, Kept, target, plan, engine, IInv, Terminal, TypeOK, Page, Through, SessionLeader, NoFd
<1>33. CASE KillRefused
  BY <1>33 DEF KillRefused, Call, RetireDummy, Kept, target, plan, engine, IInv, Terminal, TypeOK, Page, Through, SessionLeader, NoFd
<1>34. CASE RetireRefused
  BY <1>34 DEF RetireRefused, Call, RetireDummy, Kept, target, plan, engine, IInv, Terminal, TypeOK, Page, Through, SessionLeader, NoFd
<1>35. CASE ReapRefused
  BY <1>35 DEF ReapRefused, Call, Idle, Kept, target, plan, engine, IInv, Terminal, TypeOK, Page, Through, SessionLeader, NoFd
<1>36. CASE \E p \in Procs : MoveRefused(p)
  BY <1>36 DEF MoveRefused, Call, Kept, target, plan, engine, IInv, Terminal, TypeOK, Page, Through, SessionLeader, NoFd
<1>. QED BY StepCases, <1>1, <1>2, <1>3, <1>4, <1>5, <1>6, <1>7, <1>8, <1>9, <1>10, <1>11, <1>12, <1>13, <1>14, <1>15, <1>16, <1>17, <1>18, <1>19, <1>20, <1>21, <1>22, <1>23, <1>24, <1>25, <1>26, <1>27, <1>28, <1>29, <1>30, <1>31, <1>32, <1>33, <1>34, <1>35, <1>36

\* The descriptors go over one by one.
LEMMA StreamsStep == IInv /\ [Next]_vars => Streams'
<1>. SUFFICES ASSUME IInv, [Next]_vars PROVE Streams'
  OBVIOUS
<1>1. CASE UNCHANGED vars
  BY <1>1 DEF IInv, Streams, TypeOK, Page, Terminal, Through, NoFd, vars, target, plan, engine
<1>2. CASE Seize
  BY <1>2 DEF Seize, Call, Idle, Kept, target, plan, engine, IInv, Streams, TypeOK, Page, Terminal, Through, NoFd
<1>3. CASE Mmap
  BY <1>3 DEF Mmap, Call, Idle, Kept, target, plan, engine, IInv, Streams, TypeOK, Page, Terminal, Through, NoFd
<1>4. CASE MmapFails
  BY <1>4 DEF MmapFails, Call, Kept, target, plan, engine, IInv, Streams, TypeOK, Page, Terminal, Through, NoFd
<1>5. CASE Refused
  BY <1>5 DEF Refused, Bail, Call, Kept, target, plan, engine, IInv, Streams, TypeOK, Page, Terminal, Through, NoFd
<1>6. CASE IgnoreSighup
  BY <1>6 DEF IgnoreSighup, Call, Idle, Kept, AfterSigaction, target, plan, engine, IInv, Streams, TypeOK, Page, Terminal, Through, NoFd
<1>7. CASE Notty
  BY <1>7 DEF Notty, Call, Idle, Kept, target, plan, engine, IInv, Streams, TypeOK, Page, Terminal, Through, NoFd
<1>8. CASE ForkChild
  BY <1>8 DEF ForkChild, Call, Idle, Kept, target, plan, engine, IInv, Streams, TypeOK, Page, Terminal, Through, NoFd
<1>9. CASE ForDummy
  BY <1>9 DEF ForDummy, Bail, Call, Idle, Kept, target, plan, engine, IInv, Streams, TypeOK, Page, Terminal, Through, NoFd
<1>10. CASE DummySetpgid
  BY <1>10 DEF DummySetpgid, Call, Kept, procs_in_pgrp, target, plan, engine, IInv, Streams, TypeOK, Page, Terminal, Through, NoFd
<1>11. CASE \E p \in Procs : MoveProc(p)
  BY <1>11 DEF MoveProc, Call, Kept, target, plan, engine, IInv, Streams, TypeOK, Page, Terminal, Through, NoFd
<1>12. CASE MoveDone
  BY <1>12 DEF MoveDone, Call, Idle, Kept, target, plan, engine, IInv, Streams, TypeOK, Page, Terminal, Through, NoFd
<1>13. CASE Setsid
  BY <1>13 DEF Setsid, Call, Idle, Kept, target, plan, engine, IInv, Streams, TypeOK, Page, Terminal, Through, NoFd
<1>14. CASE SetpgidFails
  BY <1>14 DEF SetpgidFails, Call, DanceFails, Idle, Kept, target, plan, engine, IInv, Streams, TypeOK, Page, Terminal, Through, NoFd
<1>15. CASE SetsidFails
  BY <1>15 DEF SetsidFails, Call, DanceFails, Idle, Kept, target, plan, engine, IInv, Streams, TypeOK, Page, Terminal, Through, NoFd
<1>16. CASE Kill
  BY <1>16 DEF Kill, Call, RetireDummy, Kept, target, plan, engine, IInv, Streams, TypeOK, Page, Terminal, Through, NoFd
<1>17. CASE Retire
  BY <1>17 DEF Retire, Call, RetireDummy, Kept, target, plan, engine, IInv, Streams, TypeOK, Page, Terminal, Through, NoFd
<1>18. CASE Reap
  BY <1>18 DEF Reap, Call, Idle, Kept, target, plan, engine, IInv, Streams, TypeOK, Page, Terminal, Through, NoFd
<1>19. CASE Openat
  <2>. DEFINE m == Min(FreeFds)
  <2>1. m \in Fds /\ fd[m] = "closed"
    BY <1>19, FreeFd DEF Openat
  <2>2. /\ pc = "openat" /\ pc' = "sctty" /\ tty_fd' = m /\ fd' = [fd EXCEPT ![m] = "new"]
        /\ UNCHANGED <<fds, fd0, isa, ctty, sess, failed, fate, toDup>>
    BY <1>19 DEF Openat, Call, Kept, plan
  <2>. HIDE DEF m
  <2>3. \A n \in Fds : fd'[n] = IF n = m THEN "new" ELSE fd[n]
    BY <2>1, <2>2 DEF IInv, TypeOK
  <2>4. tty_fd = NoFd /\ NoFd \notin Fds
    BY <2>2, MaxFdAssumption DEF IInv, Terminal, NoFd, Fds
  <2>. QED BY <2>1, <2>2, <2>3, <2>4 DEF IInv, Streams, Through
<1>20. CASE Sctty
  BY <1>20 DEF Sctty, Bail, Call, Kept, target, plan, engine, IInv, Streams, TypeOK, Page, Terminal, Through, NoFd
<1>21. CASE \E n \in Fds : Dup(n)
  <2>1. PICK n \in Fds : Dup(n)
    BY <1>21
  <2>2. n \in toDup
    BY <2>1, NextDup DEF IInv
  <2>3. CASE n = tty_fd /\ isa = "aarch64"
    BY <2>1, <2>3 DEF Dup, Bail, Call, Kept, plan, IInv, Terminal, Streams, Through, SessionLeader
  <2>4. CASE ~(n = tty_fd /\ isa = "aarch64")
    <3>1. /\ pc = "dup" /\ toDup' = toDup \ {n} /\ fd' = [fd EXCEPT ![n] = "new"]
          /\ UNCHANGED <<pc, tty_fd, failed, fate, ctty, sess, fds, isa, fd0>>
      BY <2>1, <2>4 DEF Dup, Call, Kept, plan
    <3>2. \A k \in Fds : fd'[k] = IF k = n THEN "new" ELSE fd[k]
      BY <3>1 DEF IInv, TypeOK
    <3>3. ctty = "new" /\ tty_fd \in Fds /\ tty_fd # NoFd
      BY <3>1, MaxFdAssumption DEF IInv, Terminal, NoFd, Fds
    <3>. QED BY <2>2, <2>4, <3>1, <3>2, <3>3 DEF IInv, Streams, Through, SessionLeader
  <2>. QED BY <2>3, <2>4
<1>22. CASE DupDone
  BY <1>22 DEF DupDone, Call, Idle, Kept, target, plan, engine, IInv, Streams, TypeOK, Page, Terminal, Through, NoFd
<1>23. CASE Close
  BY <1>23 DEF Close, Call, Idle, Kept, target, plan, engine, IInv, Streams, TypeOK, Page, Terminal, Through, NoFd
<1>24. CASE Munmap
  BY <1>24 DEF Munmap, Call, Idle, Kept, target, plan, engine, IInv, Streams, TypeOK, Page, Terminal, Through, NoFd
<1>25. CASE \E n \in Fds : TargetCloses(n)
  BY <1>25 DEF TargetCloses, Call, Environment, target, plan, engine, IInv, Streams, TypeOK, Page, Terminal, Through, NoFd
<1>26. CASE TargetSetsid
  BY <1>26 DEF TargetSetsid, Call, Environment, target, plan, engine, IInv, Streams, TypeOK, Page, Terminal, Through, NoFd
<1>27. CASE \E p \in Procs : ProcExits(p)
  BY <1>27 DEF ProcExits, target, plan, engine, IInv, Streams, TypeOK, Page, Terminal, Through, NoFd
<1>28. CASE Hangup
  BY <1>28 DEF Hangup, Environment, target, plan, engine, IInv, Streams, TypeOK, Page, Terminal, Through, NoFd
<1>29. CASE HangupKills
  BY <1>29 DEF HangupKills, target, plan, engine, IInv, Streams, TypeOK, Page, Terminal, Through, NoFd
<1>30. CASE Killed
  BY <1>30 DEF Killed, target, plan, engine, IInv, Streams, TypeOK, Page, Terminal, Through, NoFd
<1>31. CASE DummyRuns
  BY <1>31 DEF DummyRuns, target, plan, engine, IInv, Streams, TypeOK, Page, Terminal, Through, NoFd
<1>32. CASE NottyRefused
  BY <1>32 DEF NottyRefused, Call, Idle, Kept, target, plan, engine, IInv, Streams, TypeOK, Page, Terminal, Through, NoFd
<1>33. CASE KillRefused
  BY <1>33 DEF KillRefused, Call, RetireDummy, Kept, target, plan, engine, IInv, Streams, TypeOK, Page, Terminal, Through, NoFd
<1>34. CASE RetireRefused
  BY <1>34 DEF RetireRefused, Call, RetireDummy, Kept, target, plan, engine, IInv, Streams, TypeOK, Page, Terminal, Through, NoFd
<1>35. CASE ReapRefused
  BY <1>35 DEF ReapRefused, Call, Idle, Kept, target, plan, engine, IInv, Streams, TypeOK, Page, Terminal, Through, NoFd
<1>36. CASE \E p \in Procs : MoveRefused(p)
  BY <1>36 DEF MoveRefused, Call, Kept, target, plan, engine, IInv, Streams, TypeOK, Page, Terminal, Through, NoFd
<1>. QED BY StepCases, <1>1, <1>2, <1>3, <1>4, <1>5, <1>6, <1>7, <1>8, <1>9, <1>10, <1>11, <1>12, <1>13, <1>14, <1>15, <1>16, <1>17, <1>18, <1>19, <1>20, <1>21, <1>22, <1>23, <1>24, <1>25, <1>26, <1>27, <1>28, <1>29, <1>30, <1>31, <1>32, <1>33, <1>34, <1>35, <1>36

LEMMA Inductive == Spec => []IInv
<1>1. Init => IInv
  <2>. SUFFICES ASSUME Init PROVE IInv
    OBVIOUS
  <2>1. TypeOK
    BY TypeInit
  <2>2. Page /\ Hangups
    BY DEF Init, Page, Hangups, Through
  <2>3. \A n \in Fds : fd[n] # "new"
    BY KindsAssumption DEF Init
  <2>4. Terminal
    BY <2>3 DEF Init, Terminal, Through
  <2>5. fds \subseteq Fds /\ fds # {} /\ fd0 = fd
    BY <2>1 DEF Init, TypeOK
  <2>6. Streams
    BY <2>5 DEF Init, Streams, Through
  <2>. QED BY <2>1, <2>2, <2>4, <2>6 DEF IInv
<1>2. IInv /\ [Next]_vars => IInv'
  <2>. SUFFICES ASSUME IInv, [Next]_vars PROVE IInv'
    OBVIOUS
  <2>1. TypeOK'
    BY TypeStep DEF IInv
  <2>2. Page' /\ Hangups' /\ Terminal' /\ Streams'
    BY PageStep, HangupsStep, TerminalStep, StreamsStep
  <2>. QED BY <2>1, <2>2 DEF IInv
<1>. QED BY <1>1, <1>2, PTL DEF Spec

-----------------------------------------------------------------------------
(***************************************************************************)
(* The theorems.                                                           *)
(***************************************************************************)

\* Every variable keeps its type, for every number of descriptors.
THEOREM TypeCorrect == Spec => []TypeOK
<1>1. IInv => TypeOK
  BY DEF IInv
<1>. QED BY <1>1, Inductive, PTL

\* A successful attach leaves the target the leader of a session whose
\* terminal is the new pty, with every planned descriptor on it and no other
\* touched (execute).
THEOREM SuccessMeansMoved == Spec => []TargetMoved
<1>1. IInv => TargetMoved
  <2>. SUFFICES ASSUME IInv, Succeeded
                PROVE  /\ SessionLeader /\ ctty = "new"
                       /\ isa = "aarch64" \/ tty_fd \notin fds => \A n \in fds : fd[n] = "new"
                       /\ \A n \in Fds \ fds : fd[n] \in {fd0[n], "closed"}
    BY DEF TargetMoved
  <2>1. Through
    BY DEF Succeeded, Through
  <2>. QED BY <2>1 DEF IInv, Terminal, Streams
<1>. QED BY <1>1, Inductive, PTL

\* However it ends, no stream of the target is on a terminal that is not its
\* own (execute_inner).
THEOREM NoForeignTerminal == Spec => []NothingRedirectedWithoutTerminal
<1>1. IInv => NothingRedirectedWithoutTerminal
  BY DEF IInv, Terminal, NothingRedirectedWithoutTerminal
<1>. QED BY <1>1, Inductive, PTL

\* The plan itself never has the target hung up.
THEOREM MoveIsHarmless == Spec => []MoveDoesNotKill
<1>1. IInv => MoveDoesNotKill
  BY DEF IInv, Hangups, MoveDoesNotKill
<1>. QED BY <1>1, Inductive, PTL

\* The scratch page is gone on every path out of execute.
THEOREM PageReleased == Spec => []ScratchReleased
<1>1. IInv => ScratchReleased
  BY DEF IInv, Page, ScratchReleased
<1>. QED BY <1>1, Inductive, PTL

-----------------------------------------------------------------------------
(***************************************************************************)
(* The refinement.                                                         *)
(***************************************************************************)

\* The streams on the new terminal, as Move counts them.
OnNew == {n \in Fds : fd[n] = "new"} \ {tty_fd}

LEMMA OutcomeIs ==
  Outcome = IF pc # "done" THEN "open" ELSE IF failed THEN "failed"
            ELSE IF fate = "running" THEN "moved" ELSE "dead"
<1>1. CASE pc # "done"
  BY <1>1 DEF Outcome
<1>2. CASE pc = "done" /\ failed
  BY <1>2 DEF Outcome
<1>3. CASE pc = "done" /\ ~failed /\ fate = "running"
  BY <1>3 DEF Outcome
<1>4. CASE pc = "done" /\ ~failed /\ fate # "running"
  BY <1>4 DEF Outcome
<1>. QED BY <1>1, <1>2, <1>3, <1>4

\* Every call is a step of Move, or none.
LEMMA MoveStep == IInv /\ [Next]_vars => Abs!Next \/ UNCHANGED Abs!vars
<1>. SUFFICES ASSUME IInv, [Next]_vars PROVE Abs!Next \/ UNCHANGED Abs!vars
  OBVIOUS
<1>a. Outcome = IF pc # "done" THEN "open" ELSE IF failed THEN "failed"
                  ELSE IF fate = "running" THEN "moved" ELSE "dead"
  BY OutcomeIs
<1>b. Outcome' = IF pc' # "done" THEN "open" ELSE IF failed' THEN "failed"
                   ELSE IF fate' = "running" THEN "moved" ELSE "dead"
  <2>1. CASE pc' # "done"
    BY <2>1 DEF Outcome
  <2>2. CASE pc' = "done" /\ failed'
    BY <2>2 DEF Outcome
  <2>3. CASE pc' = "done" /\ ~failed' /\ fate' = "running"
    BY <2>3 DEF Outcome
  <2>4. CASE pc' = "done" /\ ~failed' /\ fate' # "running"
    BY <2>4 DEF Outcome
  <2>. QED BY <2>1, <2>2, <2>3, <2>4
<1>c. ctty \in {"old", "new", "none"}
  BY DEF IInv, TypeOK
<1>1. CASE UNCHANGED vars
  BY <1>1, <1>a, <1>b DEF OnNew, Abs!vars, vars, target, plan, engine
<1>2. CASE Seize
  BY <1>2, <1>a, <1>b DEF Seize, Call, Idle, Kept, target, plan, engine, Page, IInv, OnNew, Abs!vars
<1>3. CASE Mmap
  BY <1>3, <1>a, <1>b DEF Mmap, Call, Idle, Kept, target, plan, engine, Page, IInv, OnNew, Abs!vars
<1>4. CASE MmapFails
  <2>1. Abs!Finish \/ UNCHANGED Abs!vars
    BY <1>4, <1>a, <1>b, <1>c DEF MmapFails, Call, Kept, target, plan, engine, IInv, Page, OnNew, Abs!Finish, Abs!vars
  <2>. QED BY <2>1 DEF Abs!Next
<1>5. CASE Refused
  BY <1>5, <1>a, <1>b DEF Refused, Bail, Call, Kept, target, plan, engine, Page, IInv, OnNew, Abs!vars
<1>6. CASE IgnoreSighup
  BY <1>6, <1>a, <1>b DEF IgnoreSighup, Call, Idle, Kept, AfterSigaction, target, plan, engine, Page, IInv, OnNew, Abs!vars
<1>7. CASE Notty
  <2>1. Abs!LoseTerminal \/ UNCHANGED Abs!vars
    BY <1>7, <1>a, <1>b, <1>c DEF Notty, Call, Idle, Kept, target, plan, engine, IInv, Page, Terminal, TypeOK, OnNew, Abs!LoseTerminal, Abs!vars
  <2>. QED BY <2>1 DEF Abs!Next
<1>8. CASE ForkChild
  BY <1>8, <1>a, <1>b DEF ForkChild, Call, Idle, Kept, target, plan, engine, Page, IInv, OnNew, Abs!vars
<1>9. CASE ForDummy
  BY <1>9, <1>a, <1>b DEF ForDummy, Bail, Call, Idle, Kept, target, plan, engine, Page, IInv, OnNew, Abs!vars
<1>10. CASE DummySetpgid
  BY <1>10, <1>a, <1>b DEF DummySetpgid, Call, Kept, procs_in_pgrp, target, plan, engine, Page, IInv, OnNew, Abs!vars
<1>11. CASE \E p \in Procs : MoveProc(p)
  BY <1>11, <1>a, <1>b DEF MoveProc, Call, Kept, target, plan, engine, Page, IInv, OnNew, Abs!vars
<1>12. CASE MoveDone
  BY <1>12, <1>a, <1>b DEF MoveDone, Call, Idle, Kept, target, plan, engine, Page, IInv, OnNew, Abs!vars
<1>13. CASE Setsid
  <2>1. Abs!LoseTerminal \/ UNCHANGED Abs!vars
    BY <1>13, <1>a, <1>b, <1>c DEF Setsid, Call, Idle, Kept, target, plan, engine, IInv, Page, Terminal, TypeOK, OnNew, Abs!LoseTerminal, Abs!vars
  <2>. QED BY <2>1 DEF Abs!Next
<1>14. CASE SetpgidFails
  BY <1>14, <1>a, <1>b DEF SetpgidFails, Call, DanceFails, Idle, Kept, target, plan, engine, Page, IInv, OnNew, Abs!vars
<1>15. CASE SetsidFails
  BY <1>15, <1>a, <1>b DEF SetsidFails, Call, DanceFails, Idle, Kept, target, plan, engine, Page, IInv, OnNew, Abs!vars
<1>16. CASE Kill
  BY <1>16, <1>a, <1>b DEF Kill, Call, RetireDummy, Kept, target, plan, engine, Page, IInv, OnNew, Abs!vars
<1>17. CASE Retire
  BY <1>17, <1>a, <1>b DEF Retire, Call, RetireDummy, Kept, target, plan, engine, Page, IInv, OnNew, Abs!vars
<1>18. CASE Reap
  BY <1>18, <1>a, <1>b DEF Reap, Call, Idle, Kept, target, plan, engine, Page, IInv, OnNew, Abs!vars
<1>19. CASE Openat
  <2>. DEFINE m == Min(FreeFds)
  <2>1. m \in Fds /\ fd[m] = "closed"
    BY <1>19, FreeFd DEF Openat
  <2>2. /\ pc = "openat" /\ pc' = "sctty" /\ tty_fd' = m /\ fd' = [fd EXCEPT ![m] = "new"]
        /\ UNCHANGED <<fds, ctty>>
    BY <1>19 DEF Openat, Call, Kept, plan
  <2>. HIDE DEF m
  <2>3. \A n \in Fds : fd'[n] = IF n = m THEN "new" ELSE fd[n]
    BY <2>1, <2>2 DEF IInv, TypeOK
  <2>4. tty_fd = NoFd /\ \A n \in Fds : fd[n] # "new"
    BY <2>2 DEF IInv, Terminal
  <2>5. OnNew = {} /\ OnNew' = {}
    BY <2>2, <2>3, <2>4 DEF OnNew
  <2>6. Abs!OpenTerminal(m)
    BY <2>2, <2>4, <2>5, <1>a, <1>b DEF Abs!OpenTerminal, Abs!NoFd, NoFd, OnNew
  <2>. QED BY <2>1, <2>6 DEF Abs!Next
<1>20. CASE Sctty
  <2>1. /\ pc = "sctty" /\ tty_fd \in Fds /\ tty_fd # NoFd
        /\ UNCHANGED <<fds, tty_fd, fd, fate>> /\ pc' # "done"
    BY <1>20, MaxFdAssumption DEF Sctty, Call, Bail, Kept, plan, IInv, Terminal, NoFd, Fds
  <2>2. (ctty = "none" /\ ctty' = "new") \/ UNCHANGED ctty
    BY <1>20 DEF Sctty, MaySctty
  <2>3. Abs!TakeTerminal \/ UNCHANGED Abs!vars
    BY <2>1, <2>2, <1>a, <1>b DEF Abs!TakeTerminal, Abs!NoFd, NoFd, OnNew, Abs!vars
  <2>. QED BY <2>3 DEF Abs!Next
<1>21. CASE \E n \in Fds : Dup(n)
  <2>1. PICK n \in Fds : Dup(n)
    BY <1>21
  <2>2. n \in fds /\ ctty = "new" /\ pc = "dup"
    BY <2>1, NextDup DEF Dup, Call, IInv, Terminal, Streams
  <2>3. pc' # "done" /\ UNCHANGED <<fds, tty_fd, ctty>>
    BY <2>1, <2>2 DEF Dup, Bail, Kept, plan
  <2>4. CASE UNCHANGED fd
    BY <2>2, <2>3, <2>4, <1>a, <1>b DEF OnNew, Abs!vars
  <2>5. CASE fd' = [fd EXCEPT ![n] = "new"]
    <3>1. \A k \in Fds : fd'[k] = IF k = n THEN "new" ELSE fd[k]
      BY <2>5 DEF IInv, TypeOK
    <3>2. OnNew' = OnNew \cup ({n} \ {tty_fd})
      BY <2>3, <3>1 DEF OnNew
    <3>3. CASE n \in OnNew \cup {tty_fd}
      <4>1. OnNew' = OnNew
        BY <3>2, <3>3
      <4>. QED BY <4>1, <2>2, <2>3, <1>a, <1>b DEF OnNew, Abs!vars
    <3>4. CASE n \notin OnNew \cup {tty_fd}
      <4>1. OnNew' = OnNew \cup {n}
        BY <3>2, <3>4
      <4>2. Abs!Redirect(n)
        BY <4>1, <3>4, <2>2, <2>3, <1>a, <1>b DEF OnNew, Abs!Redirect
      <4>. QED BY <4>2, <2>2 DEF Abs!Next
    <3>. QED BY <3>3, <3>4
  <2>. QED BY <2>1, <2>4, <2>5 DEF Dup
<1>22. CASE DupDone
  BY <1>22, <1>a, <1>b DEF DupDone, Call, Idle, Kept, target, plan, engine, Page, IInv, OnNew, Abs!vars
<1>23. CASE Close
  <2>1. /\ pc = "close" /\ pc' = "munmap" /\ UNCHANGED <<fds, tty_fd, ctty>>
        /\ fd' = [fd EXCEPT ![tty_fd] = "closed"]
    BY <1>23 DEF Close, Call, Idle, Kept, plan
  <2>2. \A k \in Fds \ {tty_fd} : fd'[k] = fd[k]
    BY <2>1 DEF IInv, TypeOK
  <2>3. OnNew' = OnNew
    BY <2>1, <2>2 DEF OnNew
  <2>. QED BY <2>1, <2>3, <1>a, <1>b DEF OnNew, Abs!vars
<1>24. CASE Munmap
  <2>1. pc = "munmap" /\ pc' = "done" /\ UNCHANGED <<fds, tty_fd, ctty, fd, failed, fate>>
        /\ fate = "running"
    BY <1>24 DEF Munmap, Call, Idle, Kept, plan
  <2>2. ~failed => ctty = "new" /\ OnNew = fds \ {tty_fd}
    <3>. SUFFICES ASSUME ~failed PROVE ctty = "new" /\ OnNew = fds \ {tty_fd}
      OBVIOUS
    <3>1. Through
      BY <2>1 DEF Through
    <3>2. ctty = "new" /\ fds \subseteq Fds /\ \A n \in fds \ {tty_fd} : fd[n] = "new"
      BY <3>1 DEF IInv, Terminal, Streams
    <3>3. \A n \in Fds \ (fds \cup {tty_fd}) : fd[n] # "new"
      BY DEF IInv, Streams, TypeOK
    <3>. QED BY <3>2, <3>3 DEF OnNew
  <2>3. Abs!Finish
    BY <2>1, <2>2, <1>a, <1>b DEF Abs!Finish, OnNew
  <2>. QED BY <2>3 DEF Abs!Next
<1>25. CASE \E n \in Fds : TargetCloses(n)
  <2>1. PICK n \in Fds : TargetCloses(n)
    BY <1>25
  <2>2. /\ pc = "plan" /\ fd' = [fd EXCEPT ![n] = "closed"]
        /\ UNCHANGED <<pc, fds, tty_fd, ctty>>
    BY <2>1 DEF TargetCloses, Call, Environment, plan, engine
  <2>3. \A k \in Fds : fd[k] # "new"
    BY <2>2 DEF IInv, Terminal
  <2>4. \A k \in Fds : fd'[k] # "new"
    BY <2>2, <2>3 DEF IInv, TypeOK
  <2>5. OnNew' = OnNew
    BY <2>3, <2>4 DEF OnNew
  <2>. QED BY <2>2, <2>5, <1>a, <1>b DEF OnNew, Abs!vars
<1>26. CASE TargetSetsid
  <2>1. Abs!LoseTerminal \/ UNCHANGED Abs!vars
    BY <1>26, <1>a, <1>b, <1>c DEF TargetSetsid, Call, Environment, target, plan, engine, IInv, Page, Terminal, TypeOK, OnNew, Abs!LoseTerminal, Abs!vars
  <2>. QED BY <2>1 DEF Abs!Next
<1>27. CASE \E p \in Procs : ProcExits(p)
  BY <1>27, <1>a, <1>b DEF ProcExits, target, plan, engine, Page, IInv, OnNew, Abs!vars
<1>28. CASE Hangup
  <2>1. Abs!LoseTerminal \/ UNCHANGED Abs!vars
    BY <1>28, <1>a, <1>b, <1>c DEF Hangup, Environment, target, plan, engine, IInv, Page, Terminal, TypeOK, OnNew, Abs!LoseTerminal, Abs!vars
  <2>. QED BY <2>1 DEF Abs!Next
<1>29. CASE HangupKills
  <2>1. pc = "plan" \/ failed
    BY <1>29 DEF HangupKills, IInv, Hangups, Through
  <2>2. Abs!Finish \/ UNCHANGED Abs!vars
    BY <1>29, <2>1, <1>a, <1>b, <1>c DEF HangupKills, plan, OnNew, Abs!Finish, Abs!vars
  <2>. QED BY <2>2 DEF Abs!Next
<1>30. CASE Killed
  <2>1. Abs!Finish \/ UNCHANGED Abs!vars
    BY <1>30, <1>a, <1>b, <1>c DEF Killed, target, plan, engine, IInv, Page, OnNew, Abs!Finish, Abs!vars
  <2>. QED BY <2>1 DEF Abs!Next
<1>31. CASE DummyRuns
  BY <1>31, <1>a, <1>b DEF DummyRuns, target, plan, engine, Page, IInv, OnNew, Abs!vars
<1>32. CASE NottyRefused
  BY <1>32, <1>a, <1>b DEF NottyRefused, Call, Idle, Kept, target, plan, engine, Page, IInv, OnNew, Abs!vars
<1>33. CASE KillRefused
  BY <1>33, <1>a, <1>b DEF KillRefused, Call, RetireDummy, Kept, target, plan, engine, Page, IInv, OnNew, Abs!vars
<1>34. CASE RetireRefused
  BY <1>34, <1>a, <1>b DEF RetireRefused, Call, RetireDummy, Kept, target, plan, engine, Page, IInv, OnNew, Abs!vars
<1>35. CASE ReapRefused
  BY <1>35, <1>a, <1>b DEF ReapRefused, Call, Idle, Kept, target, plan, engine, Page, IInv, OnNew, Abs!vars
<1>36. CASE \E p \in Procs : MoveRefused(p)
  BY <1>36, <1>a, <1>b DEF MoveRefused, Call, Kept, target, plan, engine, Page, IInv, OnNew, Abs!vars
<1>. QED BY StepCases, <1>1, <1>2, <1>3, <1>4, <1>5, <1>6, <1>7, <1>8, <1>9, <1>10, <1>11, <1>12, <1>13, <1>14, <1>15, <1>16, <1>17, <1>18, <1>19, <1>20, <1>21, <1>22, <1>23, <1>24, <1>25, <1>26, <1>27, <1>28, <1>29, <1>30, <1>31, <1>32, <1>33, <1>34, <1>35, <1>36

\* Every run of the plan is a run of Move, for every table of descriptors,
\* choice of streams and company (execute_inner, main.rs attach).
THEOREM PlanImplementsMove == Spec => MoveImplemented
<1>1. Init => Abs!Init
  <2>. SUFFICES ASSUME Init PROVE Abs!Init
    OBVIOUS
  <2>1. TypeOK
    BY TypeInit
  <2>2. \A n \in Fds : fd[n] # "new"
    BY KindsAssumption DEF Init
  <2>3. {n \in Fds : fd[n] = "new"} \ {tty_fd} = {}
    BY <2>2
  <2>4. Outcome = "open"
    BY OutcomeIs DEF Init
  <2>5. fds \in (SUBSET Fds) \ {{}}
    <3>1. fds \subseteq Fds
      BY <2>1 DEF TypeOK
    <3>2. fds # {}
      BY DEF Init
    <3>. QED BY <3>1, <3>2
  <2>. QED BY <2>3, <2>4, <2>5 DEF Init, Abs!Init, Abs!NoFd, NoFd
<1>2. IInv /\ [Next]_vars => [Abs!Next]_(Abs!vars)
  BY MoveStep
<1>. QED BY <1>1, <1>2, Inductive, PTL DEF Spec, MoveImplemented, Abs!Spec
=============================================================================
