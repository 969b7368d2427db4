------------------------------- MODULE Target -------------------------------
(***************************************************************************)
(* What reptyr reads of a process in /proc/<pid>/stat (src/target.rs), and *)
(* what the kernel writes there.  A line is the sequence of its words: a   *)
(* natural number stands for itself, a negative one for what is no number. *)
(* The name of the program may hold any of them, a parenthesis too.        *)
(***************************************************************************)
EXTENDS Integers, Sequences, SequencesExt, FiniteSetsExt

Open  == -1
Close == -2
State == -3   \* and any other word
NoTty == <<0, 0>>

\* The kernel's new_encode_dev: 8 bits of minor, 12 of major, 12 of minor.
Upper == 256 * 4096
encode_dev(dev) == (dev[2] % 256) + dev[1] * 256 + (dev[2] \div 256) * Upper

\* The line of a process.
stat_line(p) ==
  <<p.pid, Open>> \o p.comm \o <<Close, State, p.ppid, p.pgrp, p.session, encode_dev(p.tty)>>

-----------------------------------------------------------------------------

Closing(line) == {i \in 1 .. Len(line) : line[i] = Close}

\* Mutant: the fields are taken to resume after the first parenthesis.
after_comm_first(line) == SubSeq(line, Min(Closing(line)) + 1, Len(line))

\* The words after the last closing parenthesis.
after_comm(line) == SubSeq(line, Max(Closing(line)) + 1, Len(line))

\* The words are numbered from 1: state, ppid, pgrp, session, tty_nr.
stat_ids(line) == SubSeq(after_comm(line), 3, 5)

decode_dev(tty_nr) ==
  <<(tty_nr \div 256) % 4096, (tty_nr % 256) + ((tty_nr \div Upper) % 4096) * 256>>

controlling_tty(line) ==
  IF stat_ids(line)[3] = 0 THEN NoTty ELSE decode_dev(stat_ids(line)[3])

session_id(line) == stat_ids(line)[2]

ppid_of(line) == after_comm(line)[2]
=============================================================================
