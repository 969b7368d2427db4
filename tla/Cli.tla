--------------------------------- MODULE Cli ---------------------------------
(***************************************************************************)
(* The command line (src/cli.rs): the loop of parse over the arguments,    *)
(* and what it makes of them.  An argument is one of the options, an       *)
(* unknown option "-x", the lone dash "-", a number that may be a pid      *)
(* ("pid"), a choice of streams ("streams"), or any other word.            *)
(***************************************************************************)
EXTENDS Integers, FiniteSets, Sequences, SequencesExt

Known  == {"--", "-V", "-s", "-T", "-l", "-L"}
Dashed == Known \cup {"-x", "-h", "-v"}
Err    == [mode |-> "error"]

-----------------------------------------------------------------------------
(* The loop: one argument after the other.                                 *)

Begin == [verbose |-> FALSE, force_stdio |-> FALSE, steal_tty |-> FALSE,
          pty_mode |-> "none", positional |-> << >>, no_more_flags |-> FALSE,
          unknown |-> FALSE]

\* What an option adds to what is known of the command line.
Noted(acc, arg) ==
  [verbose       |-> acc.verbose \/ arg = "-V",
   force_stdio   |-> acc.force_stdio \/ arg = "-s",
   steal_tty     |-> acc.steal_tty \/ arg = "-T",
   pty_mode      |-> IF arg \in {"-l", "-L"} THEN arg ELSE acc.pty_mode,
   positional    |-> acc.positional,
   no_more_flags |-> acc.no_more_flags \/ arg = "--",
   unknown       |-> arg \notin Known]

ParseArg(acc, arg) ==
  IF acc.unknown THEN acc
  ELSE IF acc.no_more_flags \/ arg \notin Dashed
       THEN [acc EXCEPT !.positional = Append(@, arg)]
       ELSE Noted(acc, arg)

\* parse_pid and parse_streams, by what they accept.
HasPid(words) == words # << >> /\ words[1] = "pid"

Streams(words) == IF Len(words) = 1 THEN "all" ELSE words[2]

Attach(o) ==
  IF \/ ~HasPid(o.positional) \/ Len(o.positional) > 2
     \/ Len(o.positional) = 2 /\ o.positional[2] # "streams"
  THEN Err
  ELSE [mode |-> "attach", streams |-> Streams(o.positional),
        force_stdio |-> o.force_stdio, verbose |-> o.verbose]

\* More words than the pid are not looked at.
StealTty(o) ==
  IF o.force_stdio \/ ~HasPid(o.positional) THEN Err
  ELSE [mode |-> "steal", verbose |-> o.verbose]

Pty(o) ==
  IF o.steal_tty \/ o.force_stdio THEN Err
  ELSE [mode |-> "proxy", login |-> (o.pty_mode = "-L"),
        command |-> o.positional, verbose |-> o.verbose]

parse(args) ==
  LET o == FoldLeft(ParseArg, Begin, args)
  IN  IF o.unknown THEN Err
      ELSE IF o.pty_mode # "none" THEN Pty(o)
      ELSE IF o.steal_tty THEN StealTty(o)
      ELSE Attach(o)

-----------------------------------------------------------------------------
(* What the loop makes of a command line, said without it, by the          *)
(* positions of the words: the options before the first "--" count         *)
(* wherever they stand, the last of -l and -L decides, and the other words *)
(* keep their order.  This is the reading of the code, not that of the     *)
(* usage text: there what follows COMMAND is its ARGS (cli.rs:148).        *)

Cut(args) == Min({i \in DOMAIN args : args[i] = "--"} \cup {Len(args) + 1})

Flags(args) == {i \in DOMAIN args : i < Cut(args) /\ args[i] \in Dashed}

Others(args) ==
  {i \in DOMAIN args : i > Cut(args) \/ (i < Cut(args) /\ args[i] \notin Dashed)}

Options(args) == {args[i] : i \in Flags(args)}

\* The k-th of some positions, and what stands at them.
Nth(at, k) == Min({i \in at : Cardinality(at \cap 1 .. i) = k})

Words(args, at) == [k \in 1 .. Cardinality(at) |-> args[Nth(at, k)]]

PtyFlags(args) == {i \in Flags(args) : args[i] \in {"-l", "-L"}}

Meaning(args) ==
  LET opts  == Options(args)
      words == Words(args, Others(args))
      pty   == opts \cap {"-l", "-L"} # {}
      bad   == \/ opts \ Known # {}
               \/ (IF pty THEN {"-T", "-s"} \cap opts # {} ELSE {"-T", "-s"} \subseteq opts)
               \/ ~pty /\ ~HasPid(words)
               \/ ~pty /\ "-T" \notin opts
                    /\ (Len(words) > 2 \/ (Len(words) = 2 /\ words[2] # "streams"))
  IN  CASE bad -> Err
        [] ~bad /\ pty ->
             [mode |-> "proxy", login |-> (args[Max(PtyFlags(args))] = "-L"), command |-> words,
              verbose |-> ("-V" \in opts)]
        [] ~bad /\ ~pty /\ "-T" \in opts -> [mode |-> "steal", verbose |-> ("-V" \in opts)]
        [] OTHER ->
             [mode |-> "attach", streams |-> Streams(words),
              force_stdio |-> ("-s" \in opts), verbose |-> ("-V" \in opts)]
=============================================================================
