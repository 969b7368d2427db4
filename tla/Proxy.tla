-------------------------------- MODULE Proxy --------------------------------
(***************************************************************************)
(* reptyr from its command line to its end, once the target stands moved   *)
(* or stolen: the dispatch of main.rs, the relay of src/proxy.rs between   *)
(* the user's terminal and the pty master, the wait of -l/-L for its       *)
(* command, and the program at the slave.  A byte is its number in its     *)
(* stream; short reads and writes, a terminal that is resized or hung up,  *)
(* and a slave that is opened, closed and opened again are left to chance. *)
(***************************************************************************)
EXTENDS Cli, Integers, FiniteSets

CONSTANTS
  Tokens,   \* the words of a command line
  MaxArgs,  \* its length at most
  MaxIn,    \* bytes the user types
  MaxOut,   \* bytes the program writes unasked
  Gain,     \* bytes the program answers to each byte it reads
  InCap,    \* room of the pty towards the slave
  OutCap,   \* room of the pty towards the master
  BufCap,   \* the 8192 bytes of buf
  MaxSize,  \* sizes the terminal goes through
  MaxOpens  \* times the slave is opened

ASSUME Bounds ==
  /\ {MaxArgs, MaxIn, MaxOut, Gain} \subseteq Nat
  /\ {InCap, OutCap, BufCap, MaxSize, MaxOpens} \subseteq Nat \ {0}

VARIABLES
  args,      \* the command line, until it is parsed
  opts,      \* what it asks for, until that is under way
  pc,        \* where reptyr is
  exit_on_eio,  \* the slave's end is the relay's
  buf,       \* what it has read and not yet written
  revents,   \* what the last poll reported
  winch,     \* WINCH
  ws,        \* the size forward_winsize has read
  why,       \* why the relay ended
  child,     \* the command of -l/-L
  typed, tin, shown, raw, size, hungup,   \* the user's terminal
  slave, opens, sin, sout, wsize,         \* the pty
  took, wrote, asked, owes                \* the program at the slave

proxy    == <<args, opts, pc, exit_on_eio, buf, revents, winch, ws, why>>
terminal == <<typed, tin, shown, raw, size, hungup>>
pty      == <<slave, opens, sin, sout, wsize>>
program  == <<took, wrote, asked, owes>>
vars     == <<proxy, child, terminal, pty, program>>

TypeOK ==
  /\ args \in BoundedSeq(Tokens, MaxArgs)
  /\ opts.mode \in {"none", "proxy"}
  /\ pc \in {"parse", "spawn", "start", "get", "set", "poll", "swap", "master",
             "toStdout", "noslave", "stdin", "toMaster", "wait", "gone"}
  /\ buf \in BoundedSeq(1 .. MaxOut + MaxIn * (1 + Gain), BufCap)
  /\ revents \subseteq {"stdin", "master"}
  /\ {winch, raw, hungup, exit_on_eio} \subseteq BOOLEAN
  /\ {ws, wsize} \subseteq 0 .. MaxSize /\ size \in 1 .. MaxSize
  /\ why \in {"", "error", "eio", "eof"}
  /\ child \in {"none", "running", "exited"}
  /\ typed \in 0 .. MaxIn /\ Len(tin) <= MaxIn
  /\ slave \in {"none", "fresh", "open", "closed"} /\ opens \in 0 .. MaxOpens
  /\ Len(sin) <= InCap /\ Len(sout) <= OutCap
  /\ asked \in 0 .. MaxOut /\ owes \in 0 .. Gain + 1

Init ==
  /\ args \in BoundedSeq(Tokens, MaxArgs)
  /\ opts = [mode |-> "none"] /\ exit_on_eio = FALSE
  /\ pc = "parse" /\ why = "" /\ child = "none" /\ slave = "none" /\ opens = 0
  /\ buf = << >> /\ revents = {} /\ winch = FALSE /\ ws = 0 /\ wsize = 0
  /\ typed = 0 /\ tin = << >> /\ shown = << >> /\ raw = FALSE /\ size = 1 /\ hungup = FALSE
  /\ sin = << >> /\ sout = << >> /\ took = << >> /\ wrote = 0 /\ asked = 0 /\ owes = 0

At(label) == pc = label
Goto(label) == pc' = label

\* The relay returns: its guard restores the terminal, and -l/-L waits for
\* the command.
End_keepsRaw(reason) ==
  /\ why' = reason /\ raw' = (raw /\ reason = "error")
  /\ Goto(IF child = "none" THEN "gone" ELSE "wait")

End(reason) ==
  /\ why' = reason /\ raw' = FALSE
  /\ Goto(IF child = "none" THEN "gone" ELSE "wait")

-----------------------------------------------------------------------------
(* From the command line to the relay.                                     *)

Unset == [mode |-> "none"]

Parse ==
  /\ At("parse")
  /\ args' = << >>
  /\ LET o == parse(args)
     IN  \/ /\ o.mode = "error"
            /\ Goto("gone") /\ UNCHANGED <<opts, exit_on_eio, slave, opens>>
         \/ /\ o.mode = "proxy"
            /\ opts' = o /\ slave' = "fresh"
            /\ Goto("spawn") /\ UNCHANGED <<exit_on_eio, opens>>
         \/ /\ o.mode \in {"attach", "steal"}
            /\ exit_on_eio' = TRUE /\ slave' = "open" /\ opens' = 1
            /\ Goto("start") /\ UNCHANGED opts
  /\ UNCHANGED <<buf, revents, winch, ws, why, child, terminal, sin, sout, wsize, program>>

\* proxy_mode: -L gives the command the slave for its terminal.
Spawn ==
  /\ At("spawn")
  /\ IF opts.command = << >>
     THEN UNCHANGED <<child, slave, opens>>
     ELSE /\ child' = "running"
          /\ IF opts.login THEN slave' = "open" /\ opens' = 1 ELSE UNCHANGED <<slave, opens>>
  /\ opts' = Unset /\ Goto("start")
  /\ UNCHANGED <<args, exit_on_eio, buf, revents, winch, ws, why, terminal, sin, sout, wsize,
                 program>>

SpawnFails ==
  /\ At("spawn") /\ opts.command # << >>
  /\ opts' = Unset /\ why' = "error" /\ Goto("gone")
  /\ UNCHANGED <<args, exit_on_eio, buf, revents, winch, ws, child, terminal, pty, program>>

\* Raw mode and the handler come before the first size is read.
Start ==
  /\ At("start") /\ ~hungup
  /\ raw' = TRUE /\ Goto("get")
  /\ UNCHANGED <<args, opts, exit_on_eio, buf, revents, winch, ws, why, child, typed, tin, shown, size,
                 hungup, pty, program>>

NoTerminal ==
  /\ At("start") /\ End("error")
  /\ UNCHANGED <<args, opts, exit_on_eio, buf, revents, winch, ws, child, typed, tin, shown, size,
                 hungup, pty, program>>

-----------------------------------------------------------------------------
(* The relay.                                                              *)

Ready == (IF tin # << >> \/ hungup THEN {"stdin"} ELSE {})
           \cup (IF sout # << >> \/ slave = "closed" THEN {"master"} ELSE {})

\* A poll that is interrupted starts again; one that times out has nothing.
Poll ==
  /\ At("poll")
  /\ revents' = Ready /\ Goto("swap")
  /\ UNCHANGED <<args, opts, exit_on_eio, buf, winch, ws, why, child, terminal, pty, program>>

Swap ==
  /\ At("swap")
  /\ winch' = FALSE /\ Goto(IF winch THEN "get" ELSE "master")
  /\ UNCHANGED <<args, opts, exit_on_eio, buf, revents, ws, why, child, terminal, pty, program>>

GetWinsize ==
  /\ At("get")
  /\ \/ ~hungup /\ ws' = size /\ Goto("set")
     \/ hungup /\ Goto("master") /\ UNCHANGED ws
  /\ UNCHANGED <<args, opts, exit_on_eio, buf, revents, winch, why, child, terminal, pty, program>>

SetWinsize_clears ==
  /\ At("set")
  /\ wsize' = ws /\ ws' = 0 /\ winch' = FALSE /\ Goto("master")
  /\ UNCHANGED <<args, opts, exit_on_eio, buf, revents, why, child, terminal,
                 slave, opens, sin, sout, program>>

SetWinsize ==
  /\ At("set")
  /\ wsize' = ws /\ ws' = 0 /\ Goto("master")
  /\ UNCHANGED <<args, opts, exit_on_eio, buf, revents, winch, why, child, terminal,
                 slave, opens, sin, sout, program>>

\* What one read returns of a queue, and what it leaves.
Chunk_whole(queue) == queue
Chunk(queue) == SubSeq(queue, 1, IF Len(queue) < BufCap THEN Len(queue) ELSE BufCap)
Rest(queue) == SubSeq(queue, Len(Chunk(queue)) + 1, Len(queue))

\* Mutant: a master that reports a hangup is not read any more.
ReadMaster_hup ==
  /\ At("master")
  /\ IF "master" \in revents /\ slave # "closed"
     THEN /\ sout # << >>
          /\ buf' = Chunk(sout) /\ sout' = Rest(sout) /\ Goto("toStdout")
     ELSE /\ Goto(IF "master" \in revents THEN "noslave" ELSE "stdin")
          /\ UNCHANGED <<buf, sout>>
  /\ UNCHANGED <<args, opts, exit_on_eio, revents, winch, ws, why, child, terminal,
                 slave, opens, sin, wsize, program>>

\* The read of the master waits when the slave has been opened again and
\* nothing is written to it.
ReadMaster ==
  /\ At("master")
  /\ IF "master" \in revents /\ ~(sout = << >> /\ slave = "closed")
     THEN /\ sout # << >>
          /\ buf' = Chunk(sout) /\ sout' = Rest(sout) /\ Goto("toStdout")
     ELSE /\ Goto(IF "master" \in revents THEN "noslave" ELSE "stdin")
          /\ UNCHANGED <<buf, sout>>
  /\ UNCHANGED <<args, opts, exit_on_eio, revents, winch, ws, why, child, terminal,
                 slave, opens, sin, wsize, program>>

NoSlave_ends ==
  /\ At("noslave")
  /\ IF exit_on_eio THEN End("eio") ELSE Goto("stdin") /\ UNCHANGED <<why, raw>>
  /\ UNCHANGED <<args, opts, exit_on_eio, buf, revents, winch, ws, child, typed, tin, shown, size,
                 hungup, pty, program>>

NoSlave ==
  /\ At("noslave")
  /\ IF (IF child # "none" THEN child = "exited" ELSE exit_on_eio)
     THEN End("eio")
     ELSE Goto("stdin") /\ UNCHANGED <<why, raw>>
  /\ UNCHANGED <<args, opts, exit_on_eio, buf, revents, winch, ws, child, typed, tin, shown, size,
                 hungup, pty, program>>

\* One write of write_all takes the first n bytes.
Written_again(n) == buf' = IF n < Len(buf) THEN buf ELSE << >>

Written(n) == buf' = SubSeq(buf, n + 1, Len(buf))

WriteStdout_once ==
  /\ At("toStdout") /\ ~hungup
  /\ \E n \in 1 .. Len(buf) : shown' = shown \o SubSeq(buf, 1, n)
  /\ buf' = << >> /\ Goto("stdin")
  /\ UNCHANGED <<args, opts, exit_on_eio, revents, winch, ws, why, child, typed, tin, raw, size, hungup,
                 pty, program>>

WriteStdout ==
  /\ At("toStdout") /\ ~hungup
  /\ \E n \in 1 .. Len(buf) :
       /\ shown' = shown \o SubSeq(buf, 1, n)
       /\ Written(n)
  /\ Goto(IF buf' = << >> THEN "stdin" ELSE "toStdout")
  /\ UNCHANGED <<args, opts, exit_on_eio, revents, winch, ws, why, child, typed, tin, raw, size, hungup,
                 pty, program>>

WriteFails ==
  /\ At("toStdout") /\ hungup
  /\ End("error")
  /\ UNCHANGED <<args, opts, exit_on_eio, buf, revents, winch, ws, child, typed, tin, shown, size,
                 hungup, pty, program>>

ReadStdin ==
  /\ At("stdin")
  /\ \/ /\ "stdin" \notin revents
        /\ Goto("poll") /\ UNCHANGED <<buf, tin, why, raw>>
     \/ /\ "stdin" \in revents /\ ~hungup
        /\ buf' = Chunk(tin) /\ tin' = Rest(tin) /\ Goto("toMaster")
        /\ UNCHANGED <<why, raw>>
     \/ /\ "stdin" \in revents /\ hungup
        /\ End("eof") /\ UNCHANGED <<buf, tin>>
  /\ UNCHANGED <<args, opts, exit_on_eio, revents, winch, ws, child, typed, shown, size, hungup, pty, program>>

\* The write waits while the pty is full, whoever holds the slave.
WriteMaster ==
  /\ At("toMaster")
  /\ \E n \in 1 .. Len(buf) :
       /\ Len(sin) + n <= InCap
       /\ sin' = sin \o SubSeq(buf, 1, n)
       /\ Written(n)
  /\ Goto(IF buf' = << >> THEN "poll" ELSE "toMaster")
  /\ UNCHANGED <<args, opts, exit_on_eio, revents, winch, ws, why, child, terminal,
                 slave, opens, sout, wsize, program>>

WaitChild ==
  /\ At("wait") /\ child = "exited"
  /\ Goto("gone")
  /\ UNCHANGED <<args, opts, exit_on_eio, buf, revents, winch, ws, why, child, terminal, pty, program>>

Reptyr ==
  \/ Parse \/ Spawn \/ SpawnFails \/ Start \/ NoTerminal
  \/ Poll \/ Swap \/ GetWinsize \/ SetWinsize
  \/ ReadMaster \/ NoSlave \/ WriteStdout \/ WriteFails
  \/ ReadStdin \/ WriteMaster \/ WaitChild

-----------------------------------------------------------------------------
(* The user, the command, and the program at the slave.                    *)

Running == pc \notin {"parse", "spawn", "gone"}

Type ==
  /\ Running /\ raw /\ ~hungup /\ typed < MaxIn
  /\ typed' = typed + 1 /\ tin' = Append(tin, typed + 1)
  /\ UNCHANGED <<proxy, child, shown, raw, size, hungup, pty, program>>

\* SIGWINCH finds the handler once the terminal is raw.
ResizeTerminal ==
  /\ Running /\ raw /\ ~hungup /\ size < MaxSize
  /\ size' = size + 1 /\ winch' = TRUE
  /\ UNCHANGED <<args, opts, pc, exit_on_eio, buf, revents, ws, why, child, typed, tin, shown, raw, hungup,
                 pty, program>>

HangupTerminal ==
  /\ Running /\ ~hungup
  /\ hungup' = TRUE
  /\ UNCHANGED <<proxy, child, typed, tin, shown, raw, size, pty, program>>

ChildExits ==
  /\ child = "running"
  /\ child' = "exited"
  /\ UNCHANGED <<proxy, terminal, pty, program>>

OpenSlave ==
  /\ Running /\ slave \in {"fresh", "closed"} /\ opens < MaxOpens
  /\ slave' = "open" /\ opens' = opens + 1
  /\ UNCHANGED <<proxy, child, terminal, sin, sout, wsize, program>>

CloseSlave ==
  /\ Running /\ slave = "open"
  /\ slave' = "closed" /\ owes' = 0
  /\ UNCHANGED <<proxy, child, terminal, opens, sin, sout, wsize, took, wrote, asked>>

ProgReads ==
  /\ Running /\ slave = "open" /\ owes = 0 /\ sin # << >>
  /\ took' = Append(took, Head(sin)) /\ sin' = Tail(sin) /\ owes' = Gain
  /\ UNCHANGED <<proxy, child, terminal, slave, opens, sout, wsize, wrote, asked>>

ProgSpeaks ==
  /\ Running /\ slave = "open" /\ owes = 0 /\ asked < MaxOut
  /\ asked' = asked + 1 /\ owes' = 1
  /\ UNCHANGED <<proxy, child, terminal, pty, took, wrote>>

ProgWrites ==
  /\ Running /\ slave = "open" /\ owes > 0 /\ Len(sout) < OutCap
  /\ wrote' = wrote + 1 /\ sout' = Append(sout, wrote + 1) /\ owes' = owes - 1
  /\ UNCHANGED <<proxy, child, terminal, slave, opens, sin, wsize, took, asked>>

World ==
  \/ Type \/ ResizeTerminal \/ HangupTerminal
  \/ ChildExits \/ OpenSlave \/ CloseSlave \/ ProgReads \/ ProgSpeaks \/ ProgWrites

Next == Reptyr \/ World

Spec == Init /\ [][Next]_vars

\* reptyr is scheduled, and the program goes on with what it can read and
\* write.  The user need not type, nor the command exit.
FairSpec == Spec /\ WF_vars(Reptyr) /\ WF_vars(ProgReads) /\ WF_vars(ProgWrites)

-----------------------------------------------------------------------------
(* Properties.                                                             *)

Counting(stream) == \A i \in DOMAIN stream : stream[i] = i

\* Through short reads, short writes and a shared buffer, neither direction
\* loses, repeats or reorders a byte (run, read_once, write_all).
BytesInOrder ==
  /\ Counting(shown) /\ Counting(took)
  /\ pc # "gone" => Counting(took \o sin \o (IF pc = "toMaster" THEN buf ELSE << >>) \o tin)

\* When the relay ends because the slave is gone, all that was written to it
\* has been shown: the hangup is met only after the last byte (read_once).
NothingLeftUnread == why = "eio" /\ opens <= 1 => Len(shown) = wrote

\* Once the relay has returned, with or without an error, the user's terminal
\* is as it was, also while -l/-L still waits (RawModeGuard).
TerminalRestored == pc \in {"wait", "gone"} => ~raw

\* reptyr cannot go on: the pty is full towards the slave, or the slave was
\* opened again before the read that a hangup had announced.
Blocked ==
  \/ pc = "toMaster" /\ Len(sin) = InCap
  \/ pc = "master" /\ "master" \in revents /\ slave = "open" /\ sout = << >>

GetsThrough == []<>(~Blocked)

\* As long as the relay goes on it catches up with both ends again and again:
\* all that was written to the slave is shown, and all that was typed is there
\* for the program (run).
Relayed ==
  GetsThrough =>
    /\ raw ~> (Len(shown) = wrote \/ ~raw)
    /\ raw ~> (Len(took) + Len(sin) = typed \/ ~raw)

\* The pty gets the size of the terminal, whenever the window changes: also
\* between the swap of the flag, the two ioctls and the poll (on_winch).
WinsizeForwarded == GetsThrough => (raw ~> (wsize = size \/ ~raw \/ hungup))

SessionOver == slave = "closed" /\ (IF child = "none" THEN exit_on_eio ELSE child = "exited")

\* Once every slave is closed for good, and with -l/-L the command is gone,
\* reptyr leaves (exit_on_eio, try_wait, wait).
ReptyrLeaves == GetsThrough /\ <>[]SessionOver => <>(pc = "gone")

-----------------------------------------------------------------------------
(* What the documentation says and the code does not do.                   *)

\* proxy.rs: in -l mode a slave that is not open makes the relay wait, "unless
\* the spawned command has exited".
CommandEndsProxy == <>[](slave # "open" /\ child = "exited") => <>(pc = "gone")
=============================================================================
