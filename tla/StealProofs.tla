----------------------------- MODULE StealProofs -----------------------------
(***************************************************************************)
(* Theorems about Steal and Target, for every set of descriptors, length   *)
(* of names and set of minor numbers: what is read of /proc is what the    *)
(* kernel wrote, and the safety properties of a theft.                     *)
(***************************************************************************)
EXTENDS Steal, LeastElement, SequenceTheorems, FiniteSetTheorems, TLAPS

(***************************************************************************)
(* Reading /proc.                                                          *)
(***************************************************************************)

\* Whatever words the name of the program is made of, what follows the last
\* parenthesis are the fields the kernel wrote after the name (after_comm).
LEMMA AfterComm ==
  ASSUME NEW pid \in Nat, NEW comm \in Seq(Int), NEW ppid \in Nat, NEW pgrp \in Nat,
         NEW session \in Nat, NEW nr \in Nat
  PROVE  after_comm(<<pid, Open>> \o comm \o <<Close, State, ppid, pgrp, session, nr>>)
           = <<State, ppid, pgrp, session, nr>>
<1>. DEFINE n    == Len(comm)
            head == <<pid, Open>> \o comm
            tail == <<Close, State, ppid, pgrp, session, nr>>
            words == head \o tail
            I    == {i \in 1 .. Len(words) : words[i] = Close}
<1>1. n \in Nat /\ head \in Seq(Int) /\ Len(head) = n + 2
  BY DEF Open
<1>2. tail \in Seq(Int) /\ Len(tail) = 6
  BY DEF Close, State
<1>3. words \in Seq(Int) /\ Len(words) = n + 8
  BY <1>1, <1>2, SMTT(30)
<1>4. \A i \in 1 .. 6 : words[n + 2 + i] = tail[i]
  BY <1>1, <1>2
<1>5. words[n + 3] = Close
  BY <1>4, <1>1
<1>6. \A i \in I : i =< n + 3
  <2>. SUFFICES ASSUME NEW i \in 1 .. n + 8, i > n + 3
                PROVE  words[i] # Close
    BY <1>1, <1>3, SMTT(30)
  <2>. DEFINE j == i - (n + 2)
  <2>1. j \in 2 .. 6 /\ i = n + 2 + j
    BY <1>1, SMTT(30)
  <2>2. words[i] = tail[j]
    BY <2>1, <1>4
  <2>3. tail[2] = State /\ tail[3] = ppid /\ tail[4] = pgrp /\ tail[5] = session /\ tail[6] = nr
    OBVIOUS
  <2>. HIDE DEF words, tail, j
  <2>4. CASE j = 2 BY <2>2, <2>3, <2>4 DEF Close, State
  <2>5. CASE j \in 3 .. 6 BY <2>2, <2>3, <2>5, SMTT(30) DEF Close
  <2>. QED BY <2>1, <2>4, <2>5
<1>7. n + 3 \in I
  BY <1>1, <1>3, <1>5
<1>8. I \subseteq Int
  BY <1>1, <1>3
<1>9. Max(Closing(words)) = n + 3
  <2>1. Closing(words) = I
    BY DEF Closing
  <2>. HIDE DEF I, words
  <2>2. \E m \in I : \A i \in I : m >= i
    BY <1>1, <1>6, <1>7, <1>8
  <2>3. Max(I) \in I /\ \A i \in I : Max(I) >= i
    BY <2>2 DEF Max
  <2>4. Max(I) \in Int /\ Max(I) =< n + 3
    BY <2>3, <1>6, <1>8
  <2>5. Max(I) >= n + 3
    BY <2>3, <1>7
  <2>. QED BY <2>1, <2>4, <2>5, <1>1
<1>. HIDE DEF words
<1>10. SubSeq(words, n + 4, n + 8) = <<State, ppid, pgrp, session, nr>>
  <2>1. /\ SubSeq(words, n + 4, n + 8) \in Seq(Int)
        /\ Len(SubSeq(words, n + 4, n + 8)) = 5
        /\ \A i \in 1 .. 5 : SubSeq(words, n + 4, n + 8)[i] = words[n + 3 + i]
    BY <1>1, <1>3, SMTT(30)
  <2>2. \A i \in 1 .. 5 : words[n + 3 + i] = tail[i + 1]
    BY <1>1, <1>4, SMTT(30)
  <2>3. tail[2] = State /\ tail[3] = ppid /\ tail[4] = pgrp /\ tail[5] = session /\ tail[6] = nr
    OBVIOUS
  <2>. DEFINE sub == SubSeq(words, n + 4, n + 8)
              known == <<State, ppid, pgrp, session, nr>>
  <2>4. known \in Seq(Int) /\ Len(known) = 5
    BY DEF State
  <2>5. \A i \in 1 .. 5 : sub[i] = tail[i + 1] /\ known[i] = tail[i + 1]
    BY <2>1, <2>2, <2>3, SMTT(30)
  <2>6. sub \in Seq(Int) /\ Len(sub) = 5
    BY <2>1
  <2>. HIDE DEF sub, known
  <2>7. \A i \in 1 .. Len(sub) : sub[i] = known[i]
    BY <2>5, <2>6
  <2>8. sub = known
    BY <2>4, <2>6, <2>7, SeqEqual, Zenon
  <2>. QED BY <2>8 DEF sub, known
<1>11. after_comm(words) = SubSeq(words, n + 4, n + 8)
  <2>1. after_comm(words) = SubSeq(words, (n + 3) + 1, n + 8)
    BY <1>3, <1>9 DEF after_comm
  <2>. QED BY <2>1, <1>1, SMTT(30)
<1>. QED BY <1>10, <1>11 DEF words

\* The decoding of the device number inverts the kernel's encoding on its
\* whole range, 12 bits of major and 20 bits of minor (decode_dev).
LEMMA EncodeDecode ==
  ASSUME NEW maj \in Nat, maj < 4096, NEW mnr \in Nat, mnr < Upper
  PROVE  /\ encode_dev(<<maj, mnr>>) \in Nat
         /\ maj > 0 => encode_dev(<<maj, mnr>>) > 0
         /\ decode_dev(encode_dev(<<maj, mnr>>)) = <<maj, mnr>>
<1>. DEFINE q == mnr \div 256
            r == mnr % 256
            N == r + maj * 256 + q * Upper
<1>1. Upper = 256 * 4096
  BY SMT DEF Upper
<1>2. q \in Nat /\ q < 4096 /\ r \in Nat /\ r < 256 /\ mnr = 256 * q + r
  BY <1>1, SMT
<1>3. encode_dev(<<maj, mnr>>) = N
  BY SMT DEF encode_dev
<1>. HIDE DEF q, r
<1>4. N = r + 256 * (maj + 4096 * q)
  BY <1>1, <1>2, SMT
<1>5. N \div 256 = maj + 4096 * q /\ N % 256 = r
  BY <1>2, <1>4, SMT
<1>6. (maj + 4096 * q) % 4096 = maj
  BY <1>2, SMT
<1>7. N \div Upper = q /\ q % 4096 = q
  BY <1>1, <1>2, <1>4, SMT
<1>8. decode_dev(N) = <<maj, mnr>>
  BY <1>2, <1>5, <1>6, <1>7, SMT DEF decode_dev
<1>9. N \in Nat /\ (maj > 0 => N > 0)
  BY <1>2, <1>4, SMT
<1>. QED BY <1>3, <1>8, <1>9

\* A theft reads the terminal, the session and the parent the kernel wrote.
LEMMA StatRead ==
  ASSUME NEW p \in Procs
  PROVE  /\ controlling_tty(stat_line(p)) = p.tty
         /\ session_id(stat_line(p)) = p.session /\ ppid_of(stat_line(p)) = p.ppid
<1>. DEFINE nr == encode_dev(p.tty)
            words == <<p.pid, Open>> \o p.comm
                       \o <<Close, State, p.ppid, p.pgrp, p.session, nr>>
<1>1. /\ p.pid \in Nat /\ p.ppid \in Nat /\ p.pgrp \in Nat /\ p.session \in Nat
      /\ p.comm \in BoundedSeq({Close, State, 9}, Name)
  BY SMT DEF Procs
<1>2. p.tty = NoTty \/ \E m \in Minors : p.tty = <<136, m>>
  BY SMT DEF Procs
<1>3. p.comm \in Seq(Int)
  <2>1. PICK k \in 0 .. Name : p.comm \in [1 .. k -> {Close, State, 9}]
    BY <1>1, Zenon DEF BoundedSeq, SeqOf
  <2>2. p.comm \in [1 .. k -> Int]
    BY <2>1, SMT DEF Close, State
  <2>3. k \in Nat
    BY <2>1, FdsAssumption, SMT
  <2>. QED BY <2>2, <2>3, SMT
<1>4. nr \in Nat /\ (IF nr = 0 THEN NoTty ELSE decode_dev(nr)) = p.tty
  <2>1. CASE p.tty = NoTty
    <3>1. Upper \in Nat
      BY SMT DEF Upper
    <3>2. 0 % 256 = 0 /\ 0 \div 256 = 0 /\ 0 * Upper = 0
      BY <3>1, SMT
    <3>3. nr = 0
      BY <2>1, <3>2, SMT DEF encode_dev, NoTty
    <3>. QED BY <2>1, <3>3, SMT
  <2>2. CASE p.tty # NoTty
    <3>1. PICK m \in Minors : p.tty = <<136, m>>
      BY <1>2, <2>2, SMT
    <3>2. m \in Nat /\ m < Upper
      BY FdsAssumption, SMT DEF Upper
    <3>3. nr \in Nat /\ nr > 0 /\ decode_dev(nr) = p.tty
      BY <3>1, <3>2, EncodeDecode, SMT
    <3>. QED BY <3>3, SMT
  <2>. QED BY <2>1, <2>2, SMT
<1>. HIDE DEF nr
<1>5. after_comm(words) = <<State, p.ppid, p.pgrp, p.session, nr>>
  <2>1. ASSUME NEW pid \in Nat, NEW comm \in Seq(Int), NEW ppid \in Nat, NEW pgrp \in Nat,
               NEW session \in Nat
        PROVE  after_comm(<<pid, Open>> \o comm \o <<Close, State, ppid, pgrp, session, nr>>)
                 = <<State, ppid, pgrp, session, nr>>
    BY <1>4, AfterComm
  <2>. QED BY <1>1, <1>3, <2>1, SMTT(40)
<1>6. stat_line(p) = words
  BY DEF stat_line, nr
<1>. HIDE DEF words
<1>7. /\ stat_ids(words)[2] = p.session /\ stat_ids(words)[3] = nr
      /\ after_comm(words)[2] = p.ppid
  <2>. DEFINE known == <<State, p.ppid, p.pgrp, p.session, nr>>
  <2>1. /\ known \in Seq(Int) /\ Len(known) = 5
        /\ known[2] = p.ppid /\ known[4] = p.session /\ known[5] = nr
    BY <1>1, <1>4, SMT DEF State
  <2>. HIDE DEF known
  <2>2. SubSeq(known, 3, 5)[2] = known[4] /\ SubSeq(known, 3, 5)[3] = known[5]
    BY <2>1, SMT
  <2>3. after_comm(words) = known
    BY <1>5 DEF known
  <2>. QED BY <2>1, <2>2, <2>3 DEF stat_ids
<1>8. controlling_tty(words) = p.tty
  BY <1>4, <1>7 DEF controlling_tty
<1>. QED BY <1>6, <1>7, <1>8 DEF session_id, ppid_of

-----------------------------------------------------------------------------
(***************************************************************************)
(* The inductive invariant, in parts.                                      *)
(***************************************************************************)

\* Both processes are held, and have a scratch page, exactly where they must.
Threads ==
  /\ pc = "inspect" => emu.state = "runs"
  /\ emu.state = "held" => pc \notin {"inspect", "attach", "proxy", "gone"}
  /\ emu.state = "runs" => pc \in {"inspect", "attach", "proxy", "gone"}
  /\ emu.scratch => pc \notin {"inspect", "attach", "mmap", "release", "proxy", "gone"}
  /\ leader.state = "held" => pc \in {"lmmap", "lsig", "lmunmap", "lrelease"}
  /\ leader.scratch => pc \in {"lsig", "lmunmap"}

\* A failure is only on record on the way out, or while the leader is let go.
Outcome ==
  /\ why # "" => pc \in {"lmunmap", "lrelease", "munmap", "release", "gone"}
  /\ why # "" /\ pc \in {"lmunmap", "lrelease"} => why = "leader"
  /\ why = "terminal" => pc = "gone"

\* SIGHUP is ignored before a descriptor is overwritten.
Immune ==
  /\ leader.state # "hungup"
  /\ pc \in {"lmunmap", "lrelease"} /\ why = "" => leader.sighup = "ignored"
  /\ pc \in {"null", "dup", "closenull", "closesock"} => leader.sighup = "ignored"
  /\ (\E fd \in Fds : emu.was[fd] = "mine" /\ emu.fd[fd] = "null") => leader.sighup = "ignored"

\* The master is on its way before the leader is touched.
Sent ==
  /\ pc = "recv" => sock = "mail"
  /\ pc \in {"lattach", "lmmap", "lsig", "lmunmap", "lrelease", "null", "dup", "closenull",
             "closesock"} => master
  /\ pc \in {"munmap", "release", "proxy"} /\ why = "" => master

Untouched == {"inspect", "attach", "mmap", "find", "bind", "socket"}

WithSocket == {"connect", "unconnect", "send", "recv", "lattach", "lmmap", "lsig", "lmunmap",
               "lrelease", "null"}

\* The emulator's descriptors, before the first of them is overwritten.
Tables ==
  /\ emu.state = "dead" => \A fd \in Fds : emu.fd[fd] = "free"
  /\ emu.state # "dead" /\ pc \in Untouched => emu.fd = emu.was
  /\ emu.state # "dead" /\ pc \in WithSocket =>
       /\ local.child_fd \in Fds /\ emu.was[local.child_fd] = "free"
       /\ emu.fd[local.child_fd] = "sock"
       /\ \A fd \in Fds \ {local.child_fd} : emu.fd[fd] = emu.was[fd]
  /\ emu.state # "dead" /\ pc \in {"munmap", "release", "gone"} /\ why \notin {"", "terminal"} =>
       \A fd \in Fds :
         \/ emu.fd[fd] = emu.was[fd]
         \/ emu.fd[fd] = "sock" /\ emu.was[fd] = "free" /\ why \in {"send", "recv", "leader"}

\* Every copy of the master is on a list, or given up.
Copies ==
  LET mine == {fd \in Fds : emu.fd[fd] = "mine"}
  IN  /\ pc \in {"bind", "socket"} \cup WithSocket => mine \subseteq local.masters \cup local.missed
      /\ pc = "dup" => mine \subseteq local.todo \cup local.missed
      /\ pc \in {"closenull", "closesock"} => mine \subseteq local.missed
      /\ pc \in {"munmap", "release", "proxy"} /\ why = "" => mine \subseteq local.missed

IInv == TypeOK /\ Threads /\ Outcome /\ Immune /\ Sent /\ Tables /\ Copies

-----------------------------------------------------------------------------
(***************************************************************************)
(* Choosing descriptors, and type correctness.                             *)
(***************************************************************************)

\* The kernel hands out a descriptor that was free.
LEMMA FreeFd ==
  ASSUME Free # {}
  PROVE  Min(Free) \in Fds /\ emu.fd[Min(Free)] = "free"
<1>1. Fds \subseteq Nat
  BY FdsAssumption
<1>2. Free \subseteq Nat
  BY <1>1, Zenon DEF Free
<1>3. Min(Free) \in Free
  BY <1>2, MinIsElement
<1>. QED BY <1>3 DEF Free

\* What an injected call on a descriptor leaves as it was.
LEMMA SetsOne ==
  ASSUME emu \in Emulators, NEW fd, NEW what \in {"free", "sock", "null"}, Sets(fd, what)
  PROVE  /\ emu' \in Emulators /\ emu'.state = emu.state /\ emu'.scratch = emu.scratch
         /\ emu'.was = emu.was
         /\ emu'.fd = IF emu.state = "held" THEN [emu.fd EXCEPT ![fd] = what] ELSE emu.fd
<1>1. emu'.fd \in [Fds -> {"free", "file", "mine", "other", "sock", "null"}]
  BY DEF Sets, Emulators
<1>2. /\ emu'.state = emu.state /\ emu'.scratch = emu.scratch /\ emu'.was = emu.was
      /\ emu'.fd = IF emu.state = "held" THEN [emu.fd EXCEPT ![fd] = what] ELSE emu.fd
  BY DEF Sets, Emulators
<1>. QED BY <1>1, <1>2 DEF Sets, Emulators

\* The same, one descriptor at a time.
LEMMA SetsPoint ==
  ASSUME emu \in Emulators, NEW fd, NEW what \in {"free", "sock", "null"}, Sets(fd, what)
  PROVE  \A g \in Fds :
           emu'.fd[g] = IF emu.state = "held" /\ g = fd THEN what ELSE emu.fd[g]
<1>1. emu'.fd = IF emu.state = "held" THEN [emu.fd EXCEPT ![fd] = what] ELSE emu.fd
  BY SetsOne
<1>2. DOMAIN emu.fd = Fds /\ emu.fd \in [Fds -> {"free", "file", "mine", "other", "sock", "null"}]
  BY DEF Emulators
<1>. QED BY <1>1, <1>2

LEMMA TypeInit == Init => TypeOK
<1>. SUFFICES ASSUME Init PROVE TypeOK
  OBVIOUS
<1>1. emu \in Emulators
  <2>1. PICK fd \in [Fds -> {"free", "file", "mine", "other"}] :
          emu = [state |-> "runs", scratch |-> FALSE, fd |-> fd, was |-> fd]
    BY DEF Init
  <2>. QED BY <2>1 DEF Emulators
<1>. QED BY <1>1 DEF Init, TypeOK, Points, Leaders, Locals, None

\* Every step keeps the types.
LEMMA TypeStep == TypeOK /\ [Next]_vars => TypeOK'
<1>. SUFFICES ASSUME TypeOK, [Next]_vars PROVE TypeOK'
  OBVIOUS
<1>1. CASE UNCHANGED vars
  BY <1>1 DEF TypeOK, vars
<1>2. CASE Inspect
  BY <1>2 DEF Inspect, Step, TypeOK, Points
<1>3. CASE Attach
  <2>1. emu' \in Emulators
    BY <1>3 DEF Attach, Step, TypeOK, Emulators
  <2>. QED BY <1>3, <2>1 DEF Attach, Step, TypeOK, Points
<1>4. CASE Mmap
  <2>1. emu' \in Emulators
    BY <1>4 DEF Mmap, Step, TypeOK, Emulators
  <2>. QED BY <1>4, <2>1 DEF Mmap, Step, TypeOK, Points
<1>5. CASE find_master_fds
  <2>1. ASSUME NEW M \in SUBSET Fds, NEW m \in SUBSET Fds,
               local' = [local EXCEPT !.masters = M, !.missed = m]
        PROVE  local' \in Locals
    BY <2>1 DEF TypeOK, Locals
  <2>2. ASSUME UNCHANGED local PROVE local' \in Locals
    BY <2>2 DEF TypeOK
  <2>3. ASSUME NEW refused, NEW mine \in SUBSET Fds,
               local' = [local EXCEPT !.masters = mine \ refused, !.missed = mine \cap refused]
        PROVE  local' \in Locals
    <3>1. mine \ refused \in SUBSET Fds /\ mine \cap refused \in SUBSET Fds
      OBVIOUS
    <3>. QED BY <3>1, <2>1, <2>3
  <2>4. {fd \in Fds : emu.fd[fd] = "mine"} \in SUBSET Fds
    OBVIOUS
  <2>5. local' \in Locals
    BY <1>5, <2>2, <2>3, <2>4 DEF find_master_fds, Bail
  <2>. QED BY <1>5, <2>5, ZenonT(60) DEF find_master_fds, Bail, Step, TypeOK, Points
<1>6. CASE Bind
  BY <1>6 DEF Bind, Bail, Step, TypeOK, Points
<1>7. CASE RemoteSocket
  <2>1. ASSUME Opens("sock") PROVE emu' \in Emulators /\ Min(Free) \in Fds
    BY <2>1, FreeFd, SetsOne DEF Opens, TypeOK
  <2>2. local' \in Locals
    BY <1>7, <2>1 DEF RemoteSocket, Bail, Step, TypeOK, Locals
  <2>. QED BY <1>7, <2>1, <2>2 DEF RemoteSocket, Bail, Step, TypeOK, Points
<1>8. CASE RemoteConnect
  BY <1>8 DEF RemoteConnect, Bail, Step, TypeOK, Points
<1>9. CASE CloseUnconnected
  <2>1. emu' \in Emulators
    BY <1>9, SetsOne DEF CloseUnconnected, TypeOK
  <2>. QED BY <1>9, <2>1 DEF CloseUnconnected, Bail, Step, TypeOK, Points
<1>10. CASE send_fd
  BY <1>10 DEF send_fd, Bail, Step, TypeOK, Points
<1>11. CASE recv_fd
  BY <1>11 DEF recv_fd, Bail, Step, TypeOK, Points
<1>12. CASE LeaderAttach
  <2>1. leader' \in Leaders
    BY <1>12 DEF LeaderAttach, Bail, Step, TypeOK, Leaders
  <2>. QED BY <1>12, <2>1 DEF LeaderAttach, Bail, Step, TypeOK, Points
<1>13. CASE LeaderMmap
  <2>1. leader' \in Leaders
    BY <1>13 DEF LeaderMmap, Bail, Step, Released, TypeOK, Leaders
  <2>. QED BY <1>13, <2>1 DEF LeaderMmap, Bail, Step, Released, TypeOK, Points
<1>14. CASE LeaderSighup
  <2>1. leader' \in Leaders
    BY <1>14 DEF LeaderSighup, Step, TypeOK, Leaders
  <2>. QED BY <1>14, <2>1 DEF LeaderSighup, Step, TypeOK, Points
<1>15. CASE LeaderMunmap
  <2>1. leader' \in Leaders
    BY <1>15 DEF LeaderMunmap, Step, TypeOK, Leaders
  <2>. QED BY <1>15, <2>1 DEF LeaderMunmap, Step, TypeOK, Points
<1>16. CASE LeaderRelease
  <2>1. leader' \in Leaders
    BY <1>16 DEF LeaderRelease, Bail, Step, Released, TypeOK, Leaders
  <2>. QED BY <1>16, <2>1 DEF LeaderRelease, Bail, Step, Released, TypeOK, Points
<1>17. CASE OpenNull
  <2>1. ASSUME Opens("null") PROVE emu' \in Emulators /\ Min(Free) \in Fds
    BY <2>1, FreeFd, SetsOne DEF Opens, TypeOK
  <2>2. local' \in Locals
    BY <1>17, <2>1, ZenonT(60) DEF OpenNull, Bail, Step, TypeOK, Locals
  <2>. QED BY <1>17, <2>1, <2>2, ZenonT(60) DEF OpenNull, Bail, Step, TypeOK, Points
<1>18. CASE Neutralize
  <2>1. Min(local.todo) \in local.todo
    <3>1. Fds \subseteq Nat
      BY FdsAssumption
    <3>2. local.todo \subseteq Nat /\ local.todo # {}
      BY <1>18, <3>1 DEF Neutralize, TypeOK, Locals
    <3>. QED BY <3>2, MinIsElement
  <2>2. ASSUME Sets(Min(local.todo), "null") PROVE emu' \in Emulators
    BY <2>2, SetsOne DEF TypeOK
  <2>3. local' \in Locals
    <3>1. local.todo \ {Min(local.todo)} \in SUBSET Fds
          /\ local.missed \cup {Min(local.todo)} \in SUBSET Fds
      BY <2>1, Zenon DEF TypeOK, Locals
    <3>. QED BY <1>18, <3>1 DEF Neutralize, TypeOK, Locals
  <2>. QED BY <1>18, <2>1, <2>2, <2>3 DEF Neutralize, Step, TypeOK, Points
<1>19. CASE CloseNull
  <2>1. emu' \in Emulators
    BY <1>19, SetsOne DEF CloseNull, TypeOK
  <2>. QED BY <1>19, <2>1 DEF CloseNull, Step, TypeOK, Points
<1>20. CASE CloseSocket
  <2>1. emu' \in Emulators
    BY <1>20, SetsOne DEF CloseSocket, TypeOK
  <2>. QED BY <1>20, <2>1 DEF CloseSocket, Step, TypeOK, Points
<1>21. CASE Munmap
  <2>1. emu' \in Emulators
    BY <1>21 DEF Munmap, Step, TypeOK, Emulators
  <2>. QED BY <1>21, <2>1 DEF Munmap, Step, TypeOK, Points
<1>22. CASE Release
  <2>1. emu' \in Emulators
    BY <1>22 DEF Release, Step, Released, TypeOK, Emulators
  <2>. QED BY <1>22, <2>1 DEF Release, Step, Released, TypeOK, Points
<1>23. CASE proxy_run
  BY <1>23 DEF proxy_run, Step, TypeOK, Points
<1>24. CASE EmulatorDies
  <2>1. emu' \in Emulators
    BY <1>24 DEF EmulatorDies, TypeOK, Emulators
  <2>. QED BY <1>24, <2>1, ZenonT(60) DEF EmulatorDies, TypeOK, Points
<1>25. CASE EmulatorGivesUp
  <2>1. ASSUME NEW fd \in Fds, emu' = [emu EXCEPT !.fd[fd] = "free"]
        PROVE  emu' \in Emulators
    <3>1. emu'.fd \in [Fds -> {"free", "file", "mine", "other", "sock", "null"}]
      BY <2>1 DEF TypeOK, Emulators
    <3>. QED BY <2>1, <3>1 DEF TypeOK, Emulators
  <2>2. emu' \in Emulators
    BY <1>25, <2>1 DEF EmulatorGivesUp
  <2>3. leader' \in Leaders
    BY <1>25 DEF EmulatorGivesUp, TypeOK, Leaders
  <2>. QED BY <1>25, <2>2, <2>3, ZenonT(60) DEF EmulatorGivesUp, TypeOK, Points
<1>26. CASE LeaderDies
  <2>1. leader' \in Leaders
    BY <1>26 DEF LeaderDies, TypeOK, Leaders
  <2>. QED BY <1>26, <2>1, ZenonT(60) DEF LeaderDies, TypeOK, Points
<1>. QED BY <1>1, <1>2, <1>3, <1>4, <1>5, <1>6, <1>7, <1>8, <1>9, <1>10, <1>11, <1>12, <1>13, <1>14, <1>15, <1>16, <1>17, <1>18, <1>19, <1>20, <1>21, <1>22, <1>23, <1>24, <1>25, <1>26 DEF Next, Reptyr

\* Why a theft fails, and where that is known.
LEMMA OutcomeStep == IInv /\ [Next]_vars => Outcome'
<1>. SUFFICES ASSUME IInv, [Next]_vars PROVE Outcome'
  OBVIOUS
<1>1. CASE UNCHANGED vars
  BY <1>1 DEF IInv, Outcome, vars
<1>2. CASE Inspect
  BY <1>2 DEF Inspect, Step, IInv, Outcome, TypeOK
<1>3. CASE Attach
  BY <1>3 DEF Attach, Step, IInv, Outcome, TypeOK
<1>4. CASE Mmap
  BY <1>4 DEF Mmap, Step, IInv, Outcome, TypeOK
<1>5. CASE find_master_fds
  BY <1>5 DEF find_master_fds, Bail, Step, IInv, Outcome, TypeOK
<1>6. CASE Bind
  BY <1>6 DEF Bind, Bail, Step, IInv, Outcome, TypeOK
<1>7. CASE RemoteSocket
  BY <1>7 DEF RemoteSocket, Bail, Step, IInv, Outcome, TypeOK
<1>8. CASE RemoteConnect
  BY <1>8 DEF RemoteConnect, Bail, Step, IInv, Outcome, TypeOK
<1>9. CASE CloseUnconnected
  BY <1>9 DEF CloseUnconnected, Bail, Step, IInv, Outcome, TypeOK
<1>10. CASE send_fd
  BY <1>10 DEF send_fd, Bail, Step, IInv, Outcome, TypeOK
<1>11. CASE recv_fd
  BY <1>11 DEF recv_fd, Bail, Step, IInv, Outcome, TypeOK
<1>12. CASE LeaderAttach
  BY <1>12 DEF LeaderAttach, Bail, Step, IInv, Outcome, TypeOK
<1>13. CASE LeaderMmap
  BY <1>13 DEF LeaderMmap, Bail, Step, Released, IInv, Outcome, TypeOK
<1>14. CASE LeaderSighup
  BY <1>14 DEF LeaderSighup, Step, IInv, Outcome, TypeOK
<1>15. CASE LeaderMunmap
  BY <1>15 DEF LeaderMunmap, Step, IInv, Outcome, TypeOK
<1>16. CASE LeaderRelease
  BY <1>16 DEF LeaderRelease, Bail, Step, Released, IInv, Outcome, TypeOK
<1>17. CASE OpenNull
  BY <1>17 DEF OpenNull, Bail, Step, IInv, Outcome, TypeOK
<1>18. CASE Neutralize
  BY <1>18 DEF Neutralize, Step, IInv, Outcome, TypeOK
<1>19. CASE CloseNull
  BY <1>19 DEF CloseNull, Step, IInv, Outcome, TypeOK
<1>20. CASE CloseSocket
  BY <1>20 DEF CloseSocket, Step, IInv, Outcome, TypeOK
<1>21. CASE Munmap
  BY <1>21 DEF Munmap, Step, IInv, Outcome, TypeOK
<1>22. CASE Release
  BY <1>22 DEF Release, Step, Released, IInv, Outcome, TypeOK
<1>23. CASE proxy_run
  BY <1>23 DEF proxy_run, Step, IInv, Outcome, TypeOK
<1>24. CASE EmulatorDies
  BY <1>24 DEF EmulatorDies, IInv, Outcome, TypeOK
<1>25. CASE EmulatorGivesUp
  BY <1>25 DEF EmulatorGivesUp, IInv, Outcome, TypeOK
<1>26. CASE LeaderDies
  BY <1>26 DEF LeaderDies, IInv, Outcome, TypeOK
<1>. QED BY <1>1, <1>2, <1>3, <1>4, <1>5, <1>6, <1>7, <1>8, <1>9, <1>10, <1>11, <1>12, <1>13, <1>14, <1>15, <1>16, <1>17, <1>18, <1>19, <1>20, <1>21, <1>22, <1>23, <1>24, <1>25, <1>26 DEF Next, Reptyr

\* Who is held, and who has a scratch page.
LEMMA ThreadsStep == IInv /\ [Next]_vars => Threads'
<1>. SUFFICES ASSUME IInv, [Next]_vars PROVE Threads'
  OBVIOUS
<1>0. Threads /\ emu \in Emulators /\ leader \in Leaders
  BY DEF IInv, TypeOK
<1>1. CASE UNCHANGED vars
  BY <1>0, <1>1 DEF Threads, vars
<1>2. CASE Inspect
  BY <1>0, <1>2 DEF Inspect, Step, Threads, Emulators, Leaders
<1>3. CASE Attach
  BY <1>0, <1>3 DEF Attach, Step, Threads, Emulators, Leaders
<1>4. CASE Mmap
  BY <1>0, <1>4 DEF Mmap, Step, Threads, Emulators, Leaders
<1>5. CASE find_master_fds
  BY <1>0, <1>5 DEF find_master_fds, Bail, Step, Threads, Emulators, Leaders
<1>6. CASE Bind
  BY <1>0, <1>6 DEF Bind, Bail, Step, Threads, Emulators, Leaders
<1>7. CASE RemoteSocket
  BY <1>0, <1>7, SetsOne DEF RemoteSocket, Bail, Step, Threads, Emulators, Leaders, Opens
<1>8. CASE RemoteConnect
  BY <1>0, <1>8 DEF RemoteConnect, Bail, Step, Threads, Emulators, Leaders
<1>9. CASE CloseUnconnected
  BY <1>0, <1>9, SetsOne DEF CloseUnconnected, Bail, Step, Threads, Emulators, Leaders
<1>10. CASE send_fd
  BY <1>0, <1>10 DEF send_fd, Bail, Step, Threads, Emulators, Leaders
<1>11. CASE recv_fd
  BY <1>0, <1>11 DEF recv_fd, Bail, Step, Threads, Emulators, Leaders
<1>12. CASE LeaderAttach
  BY <1>0, <1>12 DEF LeaderAttach, Bail, Step, Threads, Emulators, Leaders
<1>13. CASE LeaderMmap
  BY <1>0, <1>13 DEF LeaderMmap, Bail, Step, Released, Threads, Emulators, Leaders
<1>14. CASE LeaderSighup
  BY <1>0, <1>14 DEF LeaderSighup, Step, Threads, Emulators, Leaders
<1>15. CASE LeaderMunmap
  BY <1>0, <1>15 DEF LeaderMunmap, Step, Threads, Emulators, Leaders
<1>16. CASE LeaderRelease
  BY <1>0, <1>16 DEF LeaderRelease, Bail, Step, Released, Threads, Emulators, Leaders
<1>17. CASE OpenNull
  BY <1>0, <1>17, SetsOne DEF OpenNull, Bail, Step, Threads, Emulators, Leaders, Opens
<1>18. CASE Neutralize
  BY <1>0, <1>18, SetsOne DEF Neutralize, Step, Threads, Emulators, Leaders
<1>19. CASE CloseNull
  BY <1>0, <1>19, SetsOne DEF CloseNull, Step, Threads, Emulators, Leaders
<1>20. CASE CloseSocket
  BY <1>0, <1>20, SetsOne DEF CloseSocket, Step, Threads, Emulators, Leaders
<1>21. CASE Munmap
  BY <1>0, <1>21 DEF Munmap, Step, Threads, Emulators, Leaders
<1>22. CASE Release
  BY <1>0, <1>22 DEF Release, Step, Released, Threads, Emulators, Leaders
<1>23. CASE proxy_run
  BY <1>0, <1>23 DEF proxy_run, Step, Threads, Emulators, Leaders
<1>24. CASE EmulatorDies
  BY <1>0, <1>24 DEF EmulatorDies, Threads, Emulators, Leaders
<1>25. CASE EmulatorGivesUp
  BY <1>0, <1>25 DEF EmulatorGivesUp, Threads, Emulators, Leaders
<1>26. CASE LeaderDies
  BY <1>0, <1>26 DEF LeaderDies, Threads, Emulators, Leaders
<1>. QED BY <1>1, <1>2, <1>3, <1>4, <1>5, <1>6, <1>7, <1>8, <1>9, <1>10, <1>11, <1>12, <1>13, <1>14, <1>15, <1>16, <1>17, <1>18, <1>19, <1>20, <1>21, <1>22, <1>23, <1>24, <1>25, <1>26 DEF Next, Reptyr

\* The master is ours before the leader is touched.
LEMMA SentStep == IInv /\ [Next]_vars => Sent'
<1>. SUFFICES ASSUME IInv, [Next]_vars PROVE Sent'
  OBVIOUS
<1>1. CASE UNCHANGED vars
  BY <1>1 DEF IInv, Sent, vars
<1>2. CASE Inspect
  BY <1>2 DEF Inspect, Step, IInv, Sent, TypeOK, Outcome
<1>3. CASE Attach
  BY <1>3 DEF Attach, Step, IInv, Sent, TypeOK, Outcome
<1>4. CASE Mmap
  BY <1>4 DEF Mmap, Step, IInv, Sent, TypeOK, Outcome
<1>5. CASE find_master_fds
  BY <1>5 DEF find_master_fds, Bail, Step, IInv, Sent, TypeOK, Outcome
<1>6. CASE Bind
  BY <1>6 DEF Bind, Bail, Step, IInv, Sent, TypeOK, Outcome
<1>7. CASE RemoteSocket
  BY <1>7 DEF RemoteSocket, Bail, Step, IInv, Sent, TypeOK, Outcome
<1>8. CASE RemoteConnect
  BY <1>8 DEF RemoteConnect, Bail, Step, IInv, Sent, TypeOK, Outcome
<1>9. CASE CloseUnconnected
  BY <1>9 DEF CloseUnconnected, Bail, Step, IInv, Sent, TypeOK, Outcome
<1>10. CASE send_fd
  BY <1>10 DEF send_fd, Bail, Step, IInv, Sent, TypeOK, Outcome
<1>11. CASE recv_fd
  BY <1>11 DEF recv_fd, Bail, Step, IInv, Sent, TypeOK, Outcome
<1>12. CASE LeaderAttach
  BY <1>12 DEF LeaderAttach, Bail, Step, IInv, Sent, TypeOK, Outcome
<1>13. CASE LeaderMmap
  BY <1>13 DEF LeaderMmap, Bail, Step, Released, IInv, Sent, TypeOK, Outcome
<1>14. CASE LeaderSighup
  BY <1>14 DEF LeaderSighup, Step, IInv, Sent, TypeOK, Outcome
<1>15. CASE LeaderMunmap
  BY <1>15 DEF LeaderMunmap, Step, IInv, Sent, TypeOK, Outcome
<1>16. CASE LeaderRelease
  BY <1>16 DEF LeaderRelease, Bail, Step, Released, IInv, Sent, TypeOK, Outcome
<1>17. CASE OpenNull
  BY <1>17 DEF OpenNull, Bail, Step, IInv, Sent, TypeOK, Outcome
<1>18. CASE Neutralize
  BY <1>18 DEF Neutralize, Step, IInv, Sent, TypeOK, Outcome
<1>19. CASE CloseNull
  BY <1>19 DEF CloseNull, Step, IInv, Sent, TypeOK, Outcome
<1>20. CASE CloseSocket
  BY <1>20 DEF CloseSocket, Step, IInv, Sent, TypeOK, Outcome
<1>21. CASE Munmap
  BY <1>21 DEF Munmap, Step, IInv, Sent, TypeOK, Outcome
<1>22. CASE Release
  BY <1>22 DEF Release, Step, Released, IInv, Sent, TypeOK, Outcome
<1>23. CASE proxy_run
  BY <1>23 DEF proxy_run, Step, IInv, Sent, TypeOK, Outcome
<1>24. CASE EmulatorDies
  BY <1>24 DEF EmulatorDies, IInv, Sent, TypeOK, Outcome
<1>25. CASE EmulatorGivesUp
  BY <1>25 DEF EmulatorGivesUp, IInv, Sent, TypeOK, Outcome
<1>26. CASE LeaderDies
  BY <1>26 DEF LeaderDies, IInv, Sent, TypeOK, Outcome
<1>. QED BY <1>1, <1>2, <1>3, <1>4, <1>5, <1>6, <1>7, <1>8, <1>9, <1>10, <1>11, <1>12, <1>13, <1>14, <1>15, <1>16, <1>17, <1>18, <1>19, <1>20, <1>21, <1>22, <1>23, <1>24, <1>25, <1>26 DEF Next, Reptyr

\* SIGHUP is ignored before anything is overwritten, and for good.
LEMMA ImmuneStep == IInv /\ [Next]_vars => Immune'
<1>. SUFFICES ASSUME IInv, [Next]_vars PROVE Immune'
  OBVIOUS
<1>0. Immune /\ Outcome /\ emu \in Emulators /\ leader \in Leaders
  BY DEF IInv, TypeOK
<1>1. CASE UNCHANGED vars
  BY <1>1 DEF IInv, Immune, vars, TypeOK
<1>2. CASE Inspect
  BY <1>0, <1>2 DEF Inspect, Step, Immune, Outcome, Emulators, Leaders
<1>3. CASE Attach
  <2>1. emu'.fd = emu.fd /\ emu'.was = emu.was
    BY <1>3 DEF Attach, IInv, TypeOK, Emulators
  <2>. QED BY <1>3, <2>1 DEF Attach, Step, IInv, Immune, Outcome
<1>4. CASE Mmap
  <2>1. emu'.fd = emu.fd /\ emu'.was = emu.was
    BY <1>4 DEF Mmap, IInv, TypeOK, Emulators
  <2>. QED BY <1>4, <2>1 DEF Mmap, Step, IInv, Immune, Outcome
<1>5. CASE find_master_fds
  BY <1>0, <1>5 DEF find_master_fds, Bail, Step, Immune, Outcome, Emulators, Leaders
<1>6. CASE Bind
  BY <1>0, <1>6 DEF Bind, Bail, Step, Immune, Outcome, Emulators, Leaders
<1>7. CASE RemoteSocket
  BY <1>0, <1>7, SetsOne, ZenonT(60) DEF RemoteSocket, Bail, Step, Immune, Outcome, Emulators, Leaders, Opens
<1>8. CASE RemoteConnect
  BY <1>0, <1>8 DEF RemoteConnect, Bail, Step, Immune, Outcome, Emulators, Leaders
<1>9. CASE CloseUnconnected
  <2>1. Sets(local.child_fd, "free") /\ emu \in Emulators
    BY <1>9 DEF CloseUnconnected, IInv, TypeOK
  <2>2. emu'.was = emu.was /\ \A fd \in Fds : emu'.fd[fd] = "null" => emu.fd[fd] = "null"
    BY <2>1, SetsOne, SetsPoint
  <2>. QED BY <1>9, <2>2 DEF CloseUnconnected, Bail, Step, IInv, Immune
<1>10. CASE send_fd
  BY <1>0, <1>10 DEF send_fd, Bail, Step, Immune, Outcome, Emulators, Leaders
<1>11. CASE recv_fd
  BY <1>0, <1>11 DEF recv_fd, Bail, Step, Immune, Outcome, Emulators, Leaders
<1>12. CASE LeaderAttach
  BY <1>0, <1>12 DEF LeaderAttach, Bail, Step, Immune, Outcome, Emulators, Leaders
<1>13. CASE LeaderMmap
  BY <1>0, <1>13, ZenonT(60) DEF LeaderMmap, Bail, Step, Released, Immune, Outcome, Emulators, Leaders
<1>14. CASE LeaderSighup
  BY <1>0, <1>14 DEF LeaderSighup, Step, Immune, Outcome, Emulators, Leaders
<1>15. CASE LeaderMunmap
  BY <1>0, <1>15 DEF LeaderMunmap, Step, Immune, Outcome, Emulators, Leaders
<1>16. CASE LeaderRelease
  BY <1>0, <1>16 DEF LeaderRelease, Bail, Step, Released, Immune, Outcome, Emulators, Leaders
<1>17. CASE OpenNull
  BY <1>0, <1>17, SetsOne DEF OpenNull, Bail, Step, Immune, Outcome, Emulators, Leaders, Opens
<1>18. CASE Neutralize
  BY <1>0, <1>18, SetsOne DEF Neutralize, Step, Immune, Outcome, Emulators, Leaders
<1>19. CASE CloseNull
  BY <1>0, <1>19, SetsOne DEF CloseNull, Step, Immune, Outcome, Emulators, Leaders
<1>20. CASE CloseSocket
  BY <1>0, <1>20, SetsOne DEF CloseSocket, Step, Immune, Outcome, Emulators, Leaders
<1>21. CASE Munmap
  BY <1>0, <1>21 DEF Munmap, Step, Immune, Outcome, Emulators, Leaders
<1>22. CASE Release
  BY <1>0, <1>22 DEF Release, Step, Released, Immune, Outcome, Emulators, Leaders
<1>23. CASE proxy_run
  BY <1>0, <1>23 DEF proxy_run, Step, Immune, Outcome, Emulators, Leaders
<1>24. CASE EmulatorDies
  BY <1>0, <1>24 DEF EmulatorDies, Immune, Outcome, Emulators, Leaders
<1>25. CASE EmulatorGivesUp
  BY <1>0, <1>25 DEF EmulatorGivesUp, Immune, Outcome, Emulators, Leaders
<1>26. CASE LeaderDies
  BY <1>0, <1>26 DEF LeaderDies, Immune, Outcome, Emulators, Leaders
<1>. QED BY <1>1, <1>2, <1>3, <1>4, <1>5, <1>6, <1>7, <1>8, <1>9, <1>10, <1>11, <1>12, <1>13, <1>14, <1>15, <1>16, <1>17, <1>18, <1>19, <1>20, <1>21, <1>22, <1>23, <1>24, <1>25, <1>26 DEF Next, Reptyr

\* The emulator's descriptors.
LEMMA TablesStep == IInv /\ [Next]_vars => Tables'
<1>. SUFFICES ASSUME IInv, [Next]_vars PROVE Tables'
  OBVIOUS
<1>0. Tables /\ Threads /\ Outcome /\ emu \in Emulators /\ local \in Locals
  BY DEF IInv, TypeOK
<1>1. CASE UNCHANGED vars
  BY <1>1 DEF IInv, Tables, vars, Untouched, WithSocket
<1>2. CASE Inspect
  BY <1>0, <1>2 DEF Inspect, Step, Tables, Threads, Outcome, Untouched, WithSocket, Emulators
<1>3. CASE Attach
  BY <1>0, <1>3, ZenonT(60) DEF Attach, Step, Tables, Threads, Outcome, Untouched, WithSocket, Emulators
<1>4. CASE Mmap
  BY <1>0, <1>4 DEF Mmap, Step, Tables, Threads, Outcome, Untouched, WithSocket, Emulators
<1>5. CASE find_master_fds
  BY <1>0, <1>5 DEF find_master_fds, Bail, Step, Tables, Threads, Outcome, Untouched, WithSocket, Emulators
<1>6. CASE Bind
  BY <1>0, <1>6 DEF Bind, Bail, Step, Tables, Threads, Outcome, Untouched, WithSocket, Emulators
<1>7. CASE RemoteSocket
  <2>1. CASE Bail("socket", "connect") /\ UNCHANGED emu
    BY <2>1 DEF Bail, Step, IInv, Tables, Untouched, WithSocket
  <2>2. CASE Step("socket", "connect") /\ Opens("sock")
              /\ local' = [local EXCEPT !.child_fd = Min(Free)] /\ UNCHANGED why
    <3>1. Min(Free) \in Fds /\ emu.fd[Min(Free)] = "free" /\ Sets(Min(Free), "sock")
          /\ emu.state = "held" /\ emu \in Emulators
      BY <2>2, FreeFd DEF Opens, IInv, TypeOK
    <3>2. emu.fd = emu.was
      BY <2>2, <3>1 DEF Step, IInv, Tables, Untouched
    <3>3. emu'.was = emu.was /\ emu'.state = "held"
          /\ \A fd \in Fds : emu'.fd[fd] = IF fd = Min(Free) THEN "sock" ELSE emu.fd[fd]
      BY <3>1, SetsOne, SetsPoint, ZenonT(60)
    <3>4. local'.child_fd = Min(Free)
      BY <2>2 DEF IInv, TypeOK, Locals
    <3>. HIDE DEF Opens
    <3>. QED BY <2>2, <3>1, <3>2, <3>3, <3>4 DEF Step, IInv, Tables, Untouched, WithSocket
  <2>. QED BY <1>7, <2>1, <2>2 DEF RemoteSocket
<1>8. CASE RemoteConnect
  BY <1>0, <1>8, ZenonT(60) DEF RemoteConnect, Bail, Step, Tables, Threads, Outcome, Untouched, WithSocket, Emulators
<1>9. CASE CloseUnconnected
  <2>1. Sets(local.child_fd, "free") /\ emu \in Emulators
    BY <1>9 DEF CloseUnconnected, IInv, TypeOK
  <2>2. /\ emu'.was = emu.was /\ emu'.state = emu.state
        /\ \A fd \in Fds : emu'.fd[fd] = IF emu.state = "held" /\ fd = local.child_fd
                                         THEN "free" ELSE emu.fd[fd]
    BY <2>1, SetsOne, SetsPoint
  <2>3. emu.state \in {"held", "dead"}
    BY <1>9, <2>1 DEF CloseUnconnected, Bail, Step, IInv, Threads, Emulators
  <2>. QED BY <1>9, <2>2, <2>3 DEF CloseUnconnected, Bail, Step, IInv, Tables, Untouched, WithSocket
<1>10. CASE send_fd
  BY <1>0, <1>10, ZenonT(60) DEF send_fd, Bail, Step, Tables, Threads, Outcome, Untouched, WithSocket, Emulators
<1>11. CASE recv_fd
  BY <1>0, <1>11, ZenonT(60) DEF recv_fd, Bail, Step, Tables, Threads, Outcome, Untouched, WithSocket, Emulators
<1>12. CASE LeaderAttach
  BY <1>0, <1>12, ZenonT(60) DEF LeaderAttach, Bail, Step, Tables, Threads, Outcome, Untouched, WithSocket, Emulators
<1>13. CASE LeaderMmap
  BY <1>0, <1>13, ZenonT(60) DEF LeaderMmap, Bail, Step, Released, Tables, Threads, Outcome, Untouched, WithSocket, Emulators
<1>14. CASE LeaderSighup
  BY <1>0, <1>14 DEF LeaderSighup, Step, Tables, Threads, Outcome, Untouched, WithSocket, Emulators
<1>15. CASE LeaderMunmap
  BY <1>0, <1>15 DEF LeaderMunmap, Step, Tables, Threads, Outcome, Untouched, WithSocket, Emulators
<1>16. CASE LeaderRelease
  BY <1>0, <1>16 DEF LeaderRelease, Bail, Step, Released, Tables, Threads, Outcome, Untouched, WithSocket, Emulators
<1>17. CASE OpenNull
  BY <1>0, <1>17, SetsOne, FreeFd, ZenonT(60) DEF OpenNull, Bail, Step, Tables, Threads, Outcome, Untouched, WithSocket, Emulators, Opens
<1>18. CASE Neutralize
  BY <1>0, <1>18, SetsOne, FreeFd, ZenonT(60) DEF Neutralize, Step, Tables, Threads, Outcome, Untouched, WithSocket, Emulators
<1>19. CASE CloseNull
  BY <1>0, <1>19, SetsOne, FreeFd DEF CloseNull, Step, Tables, Threads, Outcome, Untouched, WithSocket, Emulators
<1>20. CASE CloseSocket
  BY <1>0, <1>20, SetsOne, FreeFd DEF CloseSocket, Step, Tables, Threads, Outcome, Untouched, WithSocket, Emulators
<1>21. CASE Munmap
  BY <1>0, <1>21 DEF Munmap, Step, Tables, Threads, Outcome, Untouched, WithSocket, Emulators
<1>22. CASE Release
  BY <1>0, <1>22 DEF Release, Step, Released, Tables, Threads, Outcome, Untouched, WithSocket, Emulators
<1>23. CASE proxy_run
  BY <1>0, <1>23 DEF proxy_run, Step, Tables, Threads, Outcome, Untouched, WithSocket, Emulators
<1>24. CASE EmulatorDies
  BY <1>0, <1>24 DEF EmulatorDies, Tables, Threads, Outcome, Untouched, WithSocket, Emulators
<1>25. CASE EmulatorGivesUp
  BY <1>0, <1>25 DEF EmulatorGivesUp, Tables, Threads, Outcome, Untouched, WithSocket, Emulators
<1>26. CASE LeaderDies
  BY <1>0, <1>26 DEF LeaderDies, Tables, Threads, Outcome, Untouched, WithSocket, Emulators
<1>. QED BY <1>1, <1>2, <1>3, <1>4, <1>5, <1>6, <1>7, <1>8, <1>9, <1>10, <1>11, <1>12, <1>13, <1>14, <1>15, <1>16, <1>17, <1>18, <1>19, <1>20, <1>21, <1>22, <1>23, <1>24, <1>25, <1>26 DEF Next, Reptyr

\* The copies of the master.
LEMMA CopiesStep == IInv /\ [Next]_vars => Copies'
<1>. SUFFICES ASSUME IInv, [Next]_vars PROVE Copies'
  OBVIOUS
<1>1. CASE UNCHANGED vars
  BY <1>1 DEF IInv, Copies, vars, WithSocket
<1>2. CASE Inspect
  BY <1>2 DEF Inspect, Step, IInv, Copies, TypeOK, Tables, Outcome, Untouched, WithSocket, Emulators, Locals
<1>3. CASE Attach
  BY <1>3 DEF Attach, Step, IInv, Copies, TypeOK, Tables, Outcome, Untouched, WithSocket, Emulators, Locals
<1>4. CASE Mmap
  BY <1>4 DEF Mmap, Step, IInv, Copies, TypeOK, Tables, Outcome, Untouched, WithSocket, Emulators, Locals
<1>5. CASE find_master_fds
  <2>1. CASE Bail("find", "find")
    BY <2>1 DEF Bail, Step, Copies, WithSocket
  <2>2. CASE pc' = "bind" /\ UNCHANGED emu
    <3>1. PICK refused \in SUBSET {fd \in Fds : emu.fd[fd] \in {"mine", "other"}} :
            local' = [local EXCEPT !.masters = {fd \in Fds : emu.fd[fd] = "mine"} \ refused,
                                   !.missed = {fd \in Fds : emu.fd[fd] = "mine"} \cap refused]
      BY <1>5, <2>2 DEF find_master_fds, Bail, Step
    <3>2. /\ local'.masters = {fd \in Fds : emu.fd[fd] = "mine"} \ refused
          /\ local'.missed = {fd \in Fds : emu.fd[fd] = "mine"} \cap refused
      BY <3>1 DEF IInv, TypeOK, Locals
    <3>. QED BY <2>2, <3>2 DEF Copies, WithSocket
  <2>. QED BY <1>5, <2>1, <2>2 DEF find_master_fds
<1>6. CASE Bind
  BY <1>6 DEF Bind, Bail, Step, IInv, Copies, TypeOK, Tables, Outcome, Untouched, WithSocket, Emulators, Locals
<1>7. CASE RemoteSocket
  <2>1. CASE Bail("socket", "connect")
    BY <2>1 DEF Bail, Step, Copies, WithSocket
  <2>2. CASE Step("socket", "connect") /\ Opens("sock")
              /\ local' = [local EXCEPT !.child_fd = Min(Free)]
    <3>1. Sets(Min(Free), "sock") /\ emu \in Emulators
      BY <2>2 DEF Opens, IInv, TypeOK
    <3>2. \A fd \in Fds : emu'.fd[fd] = "mine" => emu.fd[fd] = "mine"
      BY <3>1, SetsPoint
    <3>3. local'.masters = local.masters /\ local'.missed = local.missed
      BY <2>2 DEF IInv, TypeOK, Locals
    <3>. QED BY <2>2, <3>2, <3>3 DEF Step, IInv, Copies, WithSocket
  <2>. QED BY <1>7, <2>1, <2>2 DEF RemoteSocket
<1>8. CASE RemoteConnect
  BY <1>8 DEF RemoteConnect, Bail, Step, IInv, Copies, TypeOK, Tables, Outcome, Untouched, WithSocket, Emulators, Locals
<1>9. CASE CloseUnconnected
  BY <1>9, SetsOne, FreeFd DEF CloseUnconnected, Bail, Step, IInv, Copies, TypeOK, Tables, Outcome, Untouched, WithSocket, Emulators, Locals
<1>10. CASE send_fd
  BY <1>10 DEF send_fd, Bail, Step, IInv, Copies, TypeOK, Tables, Outcome, Untouched, WithSocket, Emulators, Locals
<1>11. CASE recv_fd
  BY <1>11 DEF recv_fd, Bail, Step, IInv, Copies, TypeOK, Tables, Outcome, Untouched, WithSocket, Emulators, Locals
<1>12. CASE LeaderAttach
  BY <1>12 DEF LeaderAttach, Bail, Step, IInv, Copies, TypeOK, Tables, Outcome, Untouched, WithSocket, Emulators, Locals
<1>13. CASE LeaderMmap
  BY <1>13 DEF LeaderMmap, Bail, Step, Released, IInv, Copies, TypeOK, Tables, Outcome, Untouched, WithSocket, Emulators, Locals
<1>14. CASE LeaderSighup
  BY <1>14 DEF LeaderSighup, Step, IInv, Copies, TypeOK, Tables, Outcome, Untouched, WithSocket, Emulators, Locals
<1>15. CASE LeaderMunmap
  BY <1>15 DEF LeaderMunmap, Step, IInv, Copies, TypeOK, Tables, Outcome, Untouched, WithSocket, Emulators, Locals
<1>16. CASE LeaderRelease
  BY <1>16 DEF LeaderRelease, Bail, Step, Released, IInv, Copies, TypeOK, Tables, Outcome, Untouched, WithSocket, Emulators, Locals
<1>17. CASE OpenNull
  <2>1. CASE Bail("null", "null")
    BY <2>1 DEF Bail, Step, Copies, WithSocket
  <2>2. CASE Step("null", "dup") /\ Opens("null")
              /\ local' = [local EXCEPT !.nullfd = Min(Free), !.todo = local.masters]
    <3>1. Sets(Min(Free), "null") /\ emu \in Emulators
      BY <2>2 DEF Opens, IInv, TypeOK
    <3>2. \A fd \in Fds : emu'.fd[fd] = "mine" => emu.fd[fd] = "mine"
      BY <3>1, SetsPoint
    <3>3. local'.todo = local.masters /\ local'.missed = local.missed
      BY <2>2 DEF IInv, TypeOK, Locals
    <3>. QED BY <2>2, <3>2, <3>3 DEF Step, IInv, Copies, WithSocket
  <2>3. CASE Step("null", "closesock") /\ UNCHANGED emu
              /\ local' = [local EXCEPT !.missed = @ \cup local.masters]
    <3>1. local'.missed = local.missed \cup local.masters
      BY <2>3 DEF IInv, TypeOK, Locals
    <3>. QED BY <2>3, <3>1 DEF Step, IInv, Copies, WithSocket
  <2>. QED BY <1>17, <2>1, <2>2, <2>3 DEF OpenNull
<1>18. CASE Neutralize
  <2>. DEFINE last == Min(local.todo)
  <2>1. last \in local.todo
    <3>1. Fds \subseteq Nat
      BY FdsAssumption
    <3>2. local.todo \subseteq Nat /\ local.todo # {}
      BY <1>18, <3>1 DEF Neutralize, IInv, TypeOK, Locals
    <3>. QED BY <3>2, MinIsElement
  <2>2. Cardinality(local.todo) = 1 => local.todo = {last}
    <3>1. IsFiniteSet(Fds) /\ local.todo \in SUBSET Fds
      BY FdsAssumption DEF IInv, TypeOK, Locals
    <3>2. IsFiniteSet(local.todo)
      BY <3>1, FS_Subset
    <3>3. Cardinality(local.todo) = 1 => \E x : local.todo = {x}
      BY <3>2, FS_Singleton
    <3>. QED BY <2>1, <3>3
  <2>. HIDE DEF last
  <2>3. \A fd \in Fds : emu'.fd[fd] = "mine" =>
          fd \in local'.todo \cup local'.missed
    <3>1. \A fd \in Fds : emu.fd[fd] = "mine" => fd \in local.todo \cup local.missed
      BY <1>18 DEF Neutralize, Step, IInv, Copies
    <3>2. CASE /\ Sets(last, "null")
               /\ local' = [local EXCEPT !.todo = @ \ {last}]
      <4>1. emu \in Emulators
        BY DEF IInv, TypeOK
      <4>2. \A fd \in Fds : emu'.fd[fd] = IF emu.state = "held" /\ fd = last
                                          THEN "null" ELSE emu.fd[fd]
        BY <3>2, <4>1, SetsPoint
      <4>3. emu.state # "held" => \A fd \in Fds : emu.fd[fd] = "free"
        BY <1>18, <4>1 DEF Neutralize, Step, IInv, Threads, Tables, Emulators
      <4>4. local'.todo = local.todo \ {last} /\ local'.missed = local.missed
        BY <3>2 DEF IInv, TypeOK, Locals
      <4>. QED BY <3>1, <4>2, <4>3, <4>4
    <3>3. CASE /\ UNCHANGED emu
               /\ local' = [local EXCEPT !.todo = @ \ {last}, !.missed = @ \cup {last}]
      <4>1. local'.todo = local.todo \ {last} /\ local'.missed = local.missed \cup {last}
        BY <3>3 DEF IInv, TypeOK, Locals
      <4>. QED BY <3>1, <3>3, <4>1
    <3>. QED BY <1>18, <3>2, <3>3 DEF Neutralize, last
  <2>4. local'.todo = local.todo \ {last}
    BY <1>18 DEF Neutralize, IInv, TypeOK, Locals, last
  <2>5. pc' = "closenull" => local'.todo = {}
    BY <1>18, <2>2, <2>4 DEF Neutralize, Step
  <2>6. pc' \in {"closenull", "dup"}
    BY <1>18 DEF Neutralize, Step
  <2>. QED BY <2>3, <2>5, <2>6 DEF Copies, WithSocket
<1>19. CASE CloseNull
  <2>1. Sets(local.nullfd, "free") /\ emu \in Emulators
    BY <1>19 DEF CloseNull, IInv, TypeOK
  <2>2. \A fd \in Fds : emu'.fd[fd] = "mine" => emu.fd[fd] = "mine"
    BY <2>1, SetsPoint
  <2>. QED BY <1>19, <2>2 DEF CloseNull, Step, IInv, Copies, WithSocket
<1>20. CASE CloseSocket
  <2>1. Sets(local.child_fd, "free") /\ emu \in Emulators
    BY <1>20 DEF CloseSocket, IInv, TypeOK
  <2>2. \A fd \in Fds : emu'.fd[fd] = "mine" => emu.fd[fd] = "mine"
    BY <2>1, SetsPoint
  <2>. QED BY <1>20, <2>2 DEF CloseSocket, Step, IInv, Copies, WithSocket
<1>21. CASE Munmap
  BY <1>21 DEF Munmap, Step, IInv, Copies, TypeOK, Tables, Outcome, Untouched, WithSocket, Emulators, Locals
<1>22. CASE Release
  BY <1>22 DEF Release, Step, Released, IInv, Copies, TypeOK, Tables, Outcome, Untouched, WithSocket, Emulators, Locals
<1>23. CASE proxy_run
  BY <1>23 DEF proxy_run, Step, IInv, Copies, TypeOK, Tables, Outcome, Untouched, WithSocket, Emulators, Locals
<1>24. CASE EmulatorDies
  BY <1>24 DEF EmulatorDies, IInv, Copies, TypeOK, Tables, Outcome, Untouched, WithSocket, Emulators, Locals
<1>25. CASE EmulatorGivesUp
  <2>1. PICK f \in Fds : emu' = [emu EXCEPT !.fd[f] = "free"]
    BY <1>25 DEF EmulatorGivesUp
  <2>2. \A fd \in Fds : emu'.fd[fd] = "mine" => emu.fd[fd] = "mine"
    <3>1. emu'.fd = [emu.fd EXCEPT ![f] = "free"] /\ DOMAIN emu.fd = Fds
      BY <2>1 DEF IInv, TypeOK, Emulators
    <3>. QED BY <3>1
  <2>. QED BY <1>25, <2>2 DEF EmulatorGivesUp, IInv, Copies, WithSocket
<1>26. CASE LeaderDies
  BY <1>26 DEF LeaderDies, IInv, Copies, TypeOK, Tables, Outcome, Untouched, WithSocket, Emulators, Locals
<1>. QED BY <1>1, <1>2, <1>3, <1>4, <1>5, <1>6, <1>7, <1>8, <1>9, <1>10, <1>11, <1>12, <1>13, <1>14, <1>15, <1>16, <1>17, <1>18, <1>19, <1>20, <1>21, <1>22, <1>23, <1>24, <1>25, <1>26 DEF Next, Reptyr

-----------------------------------------------------------------------------
(***************************************************************************)
(* The theorems.                                                           *)
(***************************************************************************)

LEMMA Inductive == Spec => []IInv
<1>1. Init => IInv
  <2>. SUFFICES ASSUME Init PROVE IInv
    OBVIOUS
  <2>1. TypeOK
    BY TypeInit
  <2>2. PICK fd \in [Fds -> {"free", "file", "mine", "other"}] :
          emu = [state |-> "runs", scratch |-> FALSE, fd |-> fd, was |-> fd]
    BY DEF Init
  <2>3. Threads /\ Outcome /\ Sent
    BY <2>2 DEF Init, Threads, Outcome, Sent
  <2>4. Tables
    BY <2>2 DEF Init, Tables, Untouched, WithSocket
  <2>5. Immune
    BY <2>2 DEF Init, Immune
  <2>6. Copies
    BY DEF Init, Copies, WithSocket
  <2>. QED BY <2>1, <2>3, <2>4, <2>5, <2>6 DEF IInv
<1>2. IInv /\ [Next]_vars => IInv'
  <2>. SUFFICES ASSUME IInv, [Next]_vars PROVE IInv'
    OBVIOUS
  <2>1. TypeOK'
    BY TypeStep DEF IInv
  <2>2. Threads' /\ Outcome' /\ Immune' /\ Sent' /\ Tables' /\ Copies'
    BY ThreadsStep, OutcomeStep, ImmuneStep, SentStep, TablesStep, CopiesStep
  <2>. QED BY <2>1, <2>2 DEF IInv
<1>. QED BY <1>1, <1>2, PTL DEF Spec

\* Every variable keeps its type, for every number of descriptors.
THEOREM TypeCorrect == Spec => []TypeOK
<1>1. IInv => TypeOK
  BY DEF IInv
<1>. QED BY <1>1, Inductive, PTL

\* Whatever the name of the leader's program and whichever terminal it has,
\* the terminal, the session and the parent read are the kernel's (stat_ids).
THEOREM ReadsWhatTheKernelWrote == Spec => []InspectsRight
<1>1. IInv => InspectsRight
  <2>. SUFFICES ASSUME IInv, NEW p \in ToSet(stat)
                PROVE  /\ controlling_tty(stat_line(p)) = p.tty
                       /\ session_id(stat_line(p)) = p.session /\ ppid_of(stat_line(p)) = p.ppid
    BY DEF InspectsRight
  <2>1. PICK i \in DOMAIN stat : p = stat[i]
    BY DEF ToSet
  <2>2. stat = << >> \/ \E q \in Procs : stat = <<q>>
    BY DEF IInv, TypeOK
  <2>3. PICK q \in Procs : stat = <<q>>
    BY <2>1, <2>2
  <2>4. p \in Procs
    BY <2>1, <2>3
  <2>. QED BY <2>4, StatRead
<1>. QED BY <1>1, Inductive, PTL

\* Until reptyr is done somebody holds the target's master: the emulator's is
\* overwritten only when ours, or the message it travels in, is there.
THEOREM MasterNeverLost == Spec => []MasterHeld
<1>1. IInv => MasterHeld
  <2>. SUFFICES ASSUME IInv, pc # "gone", emu.state # "dead",
                       NEW fd \in Fds, emu.was[fd] = "mine", ~master
                PROVE  \E g \in Fds : emu.fd[g] = "mine"
    BY DEF MasterHeld, Held
  <2>1. CASE pc \in Untouched
    BY <2>1 DEF IInv, Tables
  <2>2. CASE pc \in WithSocket
    <3>1. fd # local.child_fd
      BY <2>2 DEF IInv, Tables
    <3>. QED BY <2>2, <3>1 DEF IInv, Tables
  <2>3. CASE pc \in {"munmap", "release", "proxy"}
    <3>1. why # "" /\ why # "terminal" /\ pc # "proxy"
      BY <2>3 DEF IInv, Sent, Outcome
    <3>2. emu.fd[fd] = emu.was[fd]
      BY <2>3, <3>1 DEF IInv, Tables
    <3>. QED BY <3>2
  <2>4. pc \in Untouched \cup WithSocket \cup {"munmap", "release", "proxy"}
    BY DEF IInv, TypeOK, Points, Sent, Untouched, WithSocket
  <2>. QED BY <2>1, <2>2, <2>3, <2>4
<1>. QED BY <1>1, Inductive, PTL

\* After a theft the emulator reads the pty only through copies it refused to
\* name or to give up (find_master_fds, step 5 of steal_inner).
THEOREM SoleReader == Spec => []OneReader
<1>1. IInv => OneReader
  BY DEF IInv, Copies, Outcome, OneReader
<1>. QED BY <1>1, Inductive, PTL

\* The session leader is never hung up by an emulator that gives its terminal up.
THEOREM LeaderNeverHungUp == Spec => []LeaderSurvives
<1>1. IInv => LeaderSurvives
  BY DEF IInv, Immune, LeaderSurvives
<1>. QED BY <1>1, Inductive, PTL

\* A theft that fails has changed no descriptor the emulator had.
THEOREM FailureHarmless == Spec => []FailureLeavesEmulator
<1>1. IInv => FailureLeavesEmulator
  BY DEF IInv, Tables, FailureLeavesEmulator
<1>. QED BY <1>1, Inductive, PTL

\* When reptyr has let go nobody is held and no scratch page is left.
THEOREM EverythingReleased == Spec => []NothingHeld
<1>1. IInv => NothingHeld
  BY DEF IInv, Threads, NothingHeld
<1>. QED BY <1>1, Inductive, PTL
=============================================================================
