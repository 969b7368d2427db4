----------------------------- MODULE ProxyProofs -----------------------------
(***************************************************************************)
(* Theorems about Proxy, for every length of the streams, room of the pty  *)
(* and of the buffer, and number of sizes and openings.                    *)
(***************************************************************************)
EXTENDS Proxy, SequenceTheorems, TLAPS

(***************************************************************************)
(* The inductive invariant, in parts.                                      *)
(***************************************************************************)

\* A piece of a stream: the bytes that follow the k-th.
Run(piece, k) == piece \in Seq(Nat) /\ \A i \in 1 .. Len(piece) : piece[i] = k + i

\* The buffer belongs to the direction whose write is under way.
ToMaster == IF pc = "toMaster" THEN buf ELSE << >>
ToStdout == IF pc = "toStdout" THEN buf ELSE << >>

\* What was typed is with the program, in the pty, in the buffer and in the
\* terminal, in this order.
Inward ==
  /\ Run(took, 0)
  /\ Run(sin, Len(took))
  /\ Run(ToMaster, Len(took) + Len(sin))
  /\ Run(tin, Len(took) + Len(sin) + Len(ToMaster))
  /\ typed = Len(took) + Len(sin) + Len(ToMaster) + Len(tin)

\* What was written is shown, in the buffer and in the pty, while the relay
\* goes on.
Outward ==
  /\ Run(shown, 0) /\ sout \in Seq(Nat) /\ wrote \in Nat
  /\ pc \notin {"wait", "gone"} =>
       /\ Run(ToStdout, Len(shown))
       /\ Run(sout, Len(shown) + Len(ToStdout))
       /\ wrote = Len(shown) + Len(ToStdout) + Len(sout)

\* The first hangup is met with nothing left to read.
Met ==
  /\ opens \in Nat /\ (slave \in {"open", "closed"} => opens >= 1)
  /\ pc = "noslave" /\ opens <= 1 => slave = "closed" /\ sout = << >>
  /\ why = "eio" => pc \in {"wait", "gone"}
  /\ why = "eio" /\ opens <= 1 => slave = "closed" /\ Len(shown) = wrote

\* The terminal is raw only while the relay runs.
Guarded == pc \in {"parse", "spawn", "start", "wait", "gone"} => ~raw

\* A byte is written for each that was asked for, and Gain for each read.
Owed == wrote + owes <= asked + Gain * Len(took)

IInv == TypeOK /\ Inward /\ Outward /\ Met /\ Guarded /\ Owed

-----------------------------------------------------------------------------
(***************************************************************************)
(* Pieces of streams.                                                      *)
(***************************************************************************)

LEMMA RunEmpty == ASSUME NEW k \in Nat PROVE Run(<< >>, k) /\ Len(<< >>) = 0
  BY DEF Run

LEMMA RunLen == ASSUME NEW s, NEW k \in Nat, Run(s, k) PROVE Len(s) \in Nat /\ s \in Seq(Nat)
  BY DEF Run

\* A write that comes back short cuts a piece in two.
LEMMA RunSplit ==
  ASSUME NEW s, NEW k \in Nat, Run(s, k), NEW n \in 0 .. Len(s)
  PROVE  /\ Run(SubSeq(s, 1, n), k) /\ Len(SubSeq(s, 1, n)) = n
         /\ Run(SubSeq(s, n + 1, Len(s)), k + n)
         /\ Len(SubSeq(s, n + 1, Len(s))) = Len(s) - n
<1>1. s \in Seq(Nat) /\ Len(s) \in Nat /\ \A i \in 1 .. Len(s) : s[i] = k + i
  BY DEF Run
<1>2. /\ SubSeq(s, 1, n) \in Seq(Nat) /\ Len(SubSeq(s, 1, n)) = n
      /\ \A i \in 1 .. n : SubSeq(s, 1, n)[i] = s[i]
  BY <1>1
<1>3. /\ SubSeq(s, n + 1, Len(s)) \in Seq(Nat) /\ Len(SubSeq(s, n + 1, Len(s))) = Len(s) - n
      /\ \A i \in 1 .. Len(s) - n : SubSeq(s, n + 1, Len(s))[i] = s[n + i]
  BY <1>1
<1>. QED BY <1>1, <1>2, <1>3 DEF Run

LEMMA RunJoin ==
  ASSUME NEW s, NEW t, NEW k \in Nat, Run(s, k), Run(t, k + Len(s))
  PROVE  Run(s \o t, k) /\ Len(s \o t) = Len(s) + Len(t)
<1>1. /\ s \in Seq(Nat) /\ Len(s) \in Nat /\ \A i \in 1 .. Len(s) : s[i] = k + i
      /\ t \in Seq(Nat) /\ Len(t) \in Nat /\ \A i \in 1 .. Len(t) : t[i] = k + Len(s) + i
  BY DEF Run
<1>2. /\ s \o t \in Seq(Nat) /\ Len(s \o t) = Len(s) + Len(t)
      /\ \A i \in 1 .. Len(s) + Len(t) :
           (s \o t)[i] = IF i <= Len(s) THEN s[i] ELSE t[i - Len(s)]
  BY <1>1, ConcatProperties
<1>3. ASSUME NEW i \in 1 .. Len(s) + Len(t) PROVE (s \o t)[i] = k + i
  <2>1. CASE i <= Len(s) BY <1>1, <1>2, <2>1
  <2>2. CASE i > Len(s)
    <3>1. i - Len(s) \in 1 .. Len(t) BY <1>1, <2>2
    <3>. QED BY <1>1, <1>2, <2>2, <3>1
  <2>. QED BY <1>1, <2>1, <2>2
<1>. QED BY <1>2, <1>3 DEF Run

LEMMA RunAppend ==
  ASSUME NEW s, NEW k \in Nat, Run(s, k)
  PROVE  /\ Run(Append(s, k + Len(s) + 1), k)
         /\ Len(Append(s, k + Len(s) + 1)) = Len(s) + 1
<1>1. s \in Seq(Nat) /\ Len(s) \in Nat /\ \A i \in 1 .. Len(s) : s[i] = k + i
  BY DEF Run
<1>. QED BY <1>1 DEF Run

LEMMA RunTail ==
  ASSUME NEW s, NEW k \in Nat, Run(s, k), s # << >>
  PROVE  /\ Head(s) = k + 1 /\ Len(s) >= 1
         /\ Run(Tail(s), k + 1) /\ Len(Tail(s)) = Len(s) - 1
<1>1. s \in Seq(Nat) /\ Len(s) \in Nat /\ Len(s) >= 1 /\ \A i \in 1 .. Len(s) : s[i] = k + i
  BY DEF Run
<1>2. /\ Tail(s) \in Seq(Nat) /\ Len(Tail(s)) = Len(s) - 1
      /\ \A i \in 1 .. Len(Tail(s)) : Tail(s)[i] = s[i + 1]
  BY <1>1, HeadTailProperties
<1>. QED BY <1>1, <1>2 DEF Run

\* A read takes what fits into the buffer and leaves the rest (read_once).
LEMMA ReadSplits ==
  ASSUME NEW s, NEW k \in Nat, Run(s, k)
  PROVE  /\ Run(Chunk(s), k) /\ Run(Rest(s), k + Len(Chunk(s)))
         /\ Len(Chunk(s)) + Len(Rest(s)) = Len(s) /\ Len(Chunk(s)) <= BufCap
<1>. DEFINE n == IF Len(s) < BufCap THEN Len(s) ELSE BufCap
<1>1. Len(s) \in Nat /\ BufCap \in Nat
  BY Bounds, RunLen
<1>2. n \in 0 .. Len(s) /\ n <= BufCap
  BY <1>1
<1>3. Chunk(s) = SubSeq(s, 1, n)
  BY DEF Chunk
<1>. HIDE DEF n
<1>4. Len(Chunk(s)) = n /\ Run(Chunk(s), k)
  BY <1>2, <1>3, RunSplit
<1>5. Rest(s) = SubSeq(s, n + 1, Len(s))
  BY <1>4 DEF Rest
<1>. QED BY <1>1, <1>2, <1>4, <1>5, RunSplit

\* A piece is a value of the buffer when it is short and ends in time.
LEMMA RunBounded ==
  ASSUME NEW s, NEW k \in Nat, Run(s, k), NEW max \in Nat, NEW cap \in Nat,
         Len(s) <= cap, k + Len(s) <= max
  PROVE  s \in BoundedSeq(1 .. max, cap)
<1>1. s \in Seq(Nat) /\ Len(s) \in 0 .. cap /\ \A i \in 1 .. Len(s) : s[i] = k + i
  BY DEF Run
<1>2. s \in [1 .. Len(s) -> 1 .. max]
  <2>1. s \in [1 .. Len(s) -> Nat]
    BY <1>1, LenProperties
  <2>2. \A i \in 1 .. Len(s) : s[i] \in 1 .. max
    BY <1>1
  <2>. QED BY <2>1, <2>2
<1>. QED BY <1>1, <1>2 DEF BoundedSeq, SeqOf

-----------------------------------------------------------------------------
(***************************************************************************)
(* The steps.                                                              *)
(***************************************************************************)

LEMMA InvInit == Init => IInv
<1>. SUFFICES ASSUME Init PROVE IInv
  OBVIOUS
<1>1. Run(<< >>, 0) /\ Len(<< >>) = 0 /\ << >> \in Seq(Nat)
  BY RunEmpty
<1>2. Inward /\ Outward
  <2>1. /\ took = << >> /\ sin = << >> /\ tin = << >> /\ typed = 0 /\ ToMaster = << >>
        /\ shown = << >> /\ sout = << >> /\ wrote = 0 /\ ToStdout = << >>
    BY DEF Init, ToMaster, ToStdout
  <2>2. Inward
    BY <1>1, <2>1 DEF Inward
  <2>3. Outward
    BY <1>1, <2>1 DEF Outward
  <2>. QED BY <2>2, <2>3
<1>3. Met /\ Guarded
  BY DEF Init, Met, Guarded
<1>4. TypeOK
  <2>1. << >> \in BoundedSeq(1 .. MaxOut + MaxIn * (1 + Gain), BufCap)
    <3>1. MaxOut + MaxIn * (1 + Gain) \in Nat /\ BufCap \in Nat
      BY Bounds
    <3>. QED BY <1>1, <3>1, RunBounded
  <2>2. /\ {MaxArgs, MaxIn, MaxOut, Gain, InCap, OutCap, MaxSize, MaxOpens} \subseteq Nat
        /\ MaxSize >= 1 /\ MaxOpens >= 1
    BY Bounds
  <2>3. /\ winch \in BOOLEAN /\ raw \in BOOLEAN /\ hungup \in BOOLEAN /\ exit_on_eio \in BOOLEAN
        /\ args \in BoundedSeq(Tokens, MaxArgs) /\ opts.mode = "none" /\ pc = "parse"
        /\ buf = << >> /\ revents = {} /\ why = "" /\ child = "none" /\ slave = "none"
    BY DEF Init
  <2>4. /\ ws = 0 /\ wsize = 0 /\ size = 1 /\ typed = 0 /\ Len(tin) = 0 /\ opens = 0
        /\ Len(sin) = 0 /\ Len(sout) = 0 /\ asked = 0 /\ owes = 0
    BY <1>1 DEF Init
  <2>5. {winch, raw, hungup, exit_on_eio} \subseteq BOOLEAN
    BY <2>3
  <2>6. {ws, wsize} \subseteq 0 .. MaxSize /\ size \in 1 .. MaxSize
    BY <2>2, <2>4
  <2>7. typed \in 0 .. MaxIn /\ Len(tin) <= MaxIn /\ opens \in 0 .. MaxOpens
    BY <2>2, <2>4
  <2>8. Len(sin) <= InCap /\ Len(sout) <= OutCap /\ asked \in 0 .. MaxOut /\ owes \in 0 .. Gain + 1
    BY <2>2, <2>4
  <2>. QED BY <2>1, <2>3, <2>5, <2>6, <2>7, <2>8, Zenon DEF TypeOK
<1>5. Owed
  <2>1. wrote = 0 /\ owes = 0 /\ asked = 0 /\ Len(took) = 0 /\ Gain \in Nat
    BY <1>1, Bounds DEF Init
  <2>. QED BY <2>1 DEF Owed
<1>. QED BY <1>2, <1>3, <1>4, <1>5 DEF IInv

LEMMA GuardedStep == Guarded /\ [Next]_vars => Guarded'
<1>0. SUFFICES ASSUME Guarded, [Next]_vars PROVE Guarded'
  OBVIOUS
<1>. USE DEF Guarded
<1>1. CASE Parse
  BY <1>0, <1>1 DEF Parse, At, Goto, terminal, program
<1>2. CASE Spawn
  BY <1>0, <1>2 DEF Spawn, At, Goto, Unset, terminal, program
<1>3. CASE SpawnFails
  BY <1>0, <1>3 DEF SpawnFails, At, Goto, Unset, terminal, pty, program
<1>4. CASE Start
  BY <1>0, <1>4 DEF Start, At, Goto, pty, program
<1>5. CASE NoTerminal
  BY <1>0, <1>5 DEF NoTerminal, At, End, Goto, pty, program
<1>6. CASE Poll
  BY <1>0, <1>6 DEF Poll, At, Goto, terminal, pty, program
<1>7. CASE Swap
  BY <1>0, <1>7 DEF Swap, At, Goto, terminal, pty, program
<1>8. CASE GetWinsize
  BY <1>0, <1>8 DEF GetWinsize, At, Goto, terminal, pty, program
<1>9. CASE SetWinsize
  BY <1>0, <1>9 DEF SetWinsize, At, Goto, terminal, program
<1>10. CASE ReadMaster
  BY <1>0, <1>10 DEF ReadMaster, At, Goto, terminal, program
<1>11. CASE NoSlave
  BY <1>0, <1>11 DEF NoSlave, At, Goto, End, pty, program
<1>12. CASE WriteStdout
  BY <1>0, <1>12 DEF WriteStdout, At, Goto, pty, program
<1>13. CASE WriteFails
  BY <1>0, <1>13 DEF WriteFails, At, End, Goto, pty, program
<1>14. CASE ReadStdin
  BY <1>0, <1>14 DEF ReadStdin, At, Goto, End, pty, program
<1>15. CASE WriteMaster
  BY <1>0, <1>15 DEF WriteMaster, At, Goto, terminal, program
<1>16. CASE WaitChild
  BY <1>0, <1>16 DEF WaitChild, At, Goto, terminal, pty, program
<1>17. CASE Type
  BY <1>0, <1>17 DEF Type, Running, proxy, pty, program
<1>18. CASE ResizeTerminal
  BY <1>0, <1>18 DEF ResizeTerminal, Running, pty, program
<1>19. CASE HangupTerminal
  BY <1>0, <1>19 DEF HangupTerminal, Running, proxy, pty, program
<1>20. CASE ChildExits
  BY <1>0, <1>20 DEF ChildExits, proxy, terminal, pty, program
<1>21. CASE OpenSlave
  BY <1>0, <1>21 DEF OpenSlave, Running, proxy, terminal, program
<1>22. CASE CloseSlave
  BY <1>0, <1>22 DEF CloseSlave, Running, proxy, terminal
<1>23. CASE ProgReads
  BY <1>0, <1>23 DEF ProgReads, Running, proxy, terminal
<1>24. CASE ProgSpeaks
  BY <1>0, <1>24 DEF ProgSpeaks, Running, proxy, terminal, pty
<1>25. CASE ProgWrites
  BY <1>0, <1>25 DEF ProgWrites, Running, proxy, terminal
<1>26. CASE UNCHANGED vars
  BY <1>0, <1>26 DEF vars, proxy, terminal
<1>. QED BY <1>0, <1>1, <1>2, <1>3, <1>4, <1>5, <1>6, <1>7, <1>8, <1>9, <1>10, <1>11, <1>12, <1>13, <1>14,
    <1>15, <1>16, <1>17, <1>18, <1>19, <1>20, <1>21, <1>22, <1>23, <1>24, <1>25, <1>26 DEF Next, Reptyr, World

\* An action that leaves the way of the typed bytes alone.
LEMMA InwardKept ==
  ASSUME Inward, UNCHANGED <<took, sin, tin, typed>>, UNCHANGED ToMaster
  PROVE  Inward'
  BY DEF Inward

LEMMA InwardLens ==
  ASSUME Inward
  PROVE  /\ {Len(took), Len(sin), Len(ToMaster), Len(tin)} \subseteq Nat
         /\ {took, sin, ToMaster, tin} \subseteq Seq(Nat)
<1>1. Len(took) \in Nat /\ took \in Seq(Nat)
  BY RunLen DEF Inward
<1>2. Len(sin) \in Nat /\ sin \in Seq(Nat)
  BY <1>1, RunLen DEF Inward
<1>3. Len(ToMaster) \in Nat /\ ToMaster \in Seq(Nat)
  BY <1>1, <1>2, RunLen DEF Inward
<1>4. Len(tin) \in Nat /\ tin \in Seq(Nat)
  BY <1>1, <1>2, <1>3, RunLen DEF Inward
<1>. QED BY <1>1, <1>2, <1>3, <1>4

LEMMA InwardStep == Inward /\ [Next]_vars => Inward'
<1>0. SUFFICES ASSUME Inward, [Next]_vars PROVE Inward'
  OBVIOUS
<1>b. /\ {Len(took), Len(sin), Len(ToMaster), Len(tin)} \subseteq Nat
      /\ {took, sin, ToMaster, tin} \subseteq Seq(Nat)
  BY <1>0, InwardLens
<1>1. CASE Parse
  BY <1>0, <1>1, InwardKept
  DEF Parse, At, Goto, terminal, program, ToMaster
<1>2. CASE Spawn
  BY <1>0, <1>2, InwardKept
  DEF Spawn, At, Goto, Unset, terminal, program, ToMaster
<1>3. CASE SpawnFails
  BY <1>0, <1>3, InwardKept
  DEF SpawnFails, At, Goto, Unset, terminal, pty, program, ToMaster
<1>4. CASE Start
  BY <1>0, <1>4, InwardKept
  DEF Start, At, Goto, pty, program, ToMaster
<1>5. CASE NoTerminal
  BY <1>0, <1>5, InwardKept
  DEF NoTerminal, At, End, Goto, pty, program, ToMaster
<1>6. CASE Poll
  BY <1>0, <1>6, InwardKept
  DEF Poll, At, Goto, terminal, pty, program, ToMaster
<1>7. CASE Swap
  BY <1>0, <1>7, InwardKept
  DEF Swap, At, Goto, terminal, pty, program, ToMaster
<1>8. CASE GetWinsize
  BY <1>0, <1>8, InwardKept
  DEF GetWinsize, At, Goto, terminal, pty, program, ToMaster
<1>9. CASE SetWinsize
  BY <1>0, <1>9, InwardKept
  DEF SetWinsize, At, Goto, terminal, program, ToMaster
<1>10. CASE ReadMaster
  BY <1>0, <1>10, InwardKept
  DEF ReadMaster, At, Goto, terminal, program, ToMaster
<1>11. CASE NoSlave
  BY <1>0, <1>11, InwardKept
  DEF NoSlave, At, Goto, End, pty, program, ToMaster
<1>12. CASE WriteStdout
  BY <1>0, <1>12, InwardKept
  DEF WriteStdout, At, Goto, pty, program, ToMaster
<1>13. CASE WriteFails
  BY <1>0, <1>13, InwardKept
  DEF WriteFails, At, End, Goto, pty, program, ToMaster
<1>14. CASE ReadStdin
  <2>1. pc = "stdin" /\ ToMaster = << >> /\ UNCHANGED <<took, sin, typed>>
    BY <1>14 DEF ReadStdin, At, pty, program, ToMaster
  <2>2. CASE pc' = "toMaster"
    <3>1. buf' = Chunk(tin) /\ tin' = Rest(tin) /\ ToMaster' = buf'
      BY <1>14, <2>2 DEF ReadStdin, Goto, End, ToMaster
    <3>2. Run(tin, Len(took) + Len(sin)) /\ typed = Len(took) + Len(sin) + Len(tin)
      BY <1>0, <1>b, <2>1, RunEmpty DEF Inward
    <3>3. /\ Run(Chunk(tin), Len(took) + Len(sin))
          /\ Run(Rest(tin), Len(took) + Len(sin) + Len(Chunk(tin)))
          /\ Len(Chunk(tin)) + Len(Rest(tin)) = Len(tin)
          /\ Len(Chunk(tin)) \in Nat /\ Len(Rest(tin)) \in Nat
      <4>1. Len(took) + Len(sin) \in Nat
        BY <1>b
      <4>2. /\ Run(Chunk(tin), Len(took) + Len(sin))
            /\ Run(Rest(tin), Len(took) + Len(sin) + Len(Chunk(tin)))
            /\ Len(Chunk(tin)) + Len(Rest(tin)) = Len(tin)
        BY <3>2, <4>1, ReadSplits
      <4>3. Len(Chunk(tin)) \in Nat
        BY <4>1, <4>2, RunLen
      <4>4. Len(Rest(tin)) \in Nat
        BY <4>1, <4>2, <4>3, RunLen
      <4>. QED BY <4>2, <4>3, <4>4
    <3>4. /\ took' = took /\ sin' = sin /\ typed' = typed /\ Run(took, 0) /\ Run(sin, Len(took))
          /\ Run(ToMaster', Len(took) + Len(sin))
          /\ Run(tin', Len(took) + Len(sin) + Len(ToMaster'))
      BY <1>0, <2>1, <3>1, <3>3 DEF Inward
    <3>5. typed = Len(took) + Len(sin) + Len(ToMaster') + Len(tin')
      BY <1>b, <3>1, <3>2, <3>3
    <3>. QED BY <3>4, <3>5 DEF Inward
  <2>3. CASE pc' # "toMaster"
    <3>1. UNCHANGED tin /\ ToMaster' = << >>
      BY <1>14, <2>3 DEF ReadStdin, Goto, End, ToMaster
    <3>. QED BY <1>0, <2>1, <3>1, InwardKept
  <2>. QED BY <2>2, <2>3
<1>15. CASE WriteMaster
  <2>1. PICK n \in 1 .. Len(buf) : sin' = sin \o SubSeq(buf, 1, n) /\ Written(n)
    BY <1>15 DEF WriteMaster
  <2>2. ToMaster = buf /\ buf' = SubSeq(buf, n + 1, Len(buf)) /\ ToMaster' = buf'
    BY <1>15, <2>1 DEF WriteMaster, At, Goto, Written, ToMaster
  <2>3. UNCHANGED <<took, tin, typed>>
    BY <1>15 DEF WriteMaster, terminal, program
  <2>4. Len(buf) \in Nat /\ n \in 0 .. Len(buf) /\ Len(took) + Len(sin) \in Nat
    BY <1>b, <2>2
  <2>5. /\ Run(SubSeq(buf, 1, n), Len(took) + Len(sin)) /\ Len(SubSeq(buf, 1, n)) = n
        /\ Run(buf', Len(took) + Len(sin) + n) /\ Len(buf') = Len(buf) - n
    BY <1>0, <2>2, <2>4, RunSplit DEF Inward
  <2>6. Run(sin', Len(took)) /\ Len(sin') = Len(sin) + n
    BY <1>0, <1>b, <2>1, <2>5, RunJoin DEF Inward
  <2>7. /\ took' = took /\ tin' = tin /\ typed' = typed /\ Run(took, 0)
        /\ Run(tin, Len(took) + Len(sin) + Len(buf))
        /\ typed = Len(took) + Len(sin) + Len(buf) + Len(tin)
    BY <1>0, <2>2, <2>3 DEF Inward
  <2>8. /\ Len(took) + Len(sin) + n = Len(took) + Len(sin')
        /\ Len(took) + Len(sin) + Len(buf) = Len(took) + Len(sin') + Len(buf')
        /\ typed = Len(took) + Len(sin') + Len(buf') + Len(tin)
    BY <1>b, <2>4, <2>5, <2>6, <2>7
  <2>9. /\ Run(ToMaster', Len(took) + Len(sin'))
        /\ Run(tin, Len(took) + Len(sin') + Len(ToMaster'))
    BY <2>2, <2>5, <2>7, <2>8
  <2>. QED BY <2>2, <2>6, <2>7, <2>8, <2>9 DEF Inward
<1>16. CASE WaitChild
  BY <1>0, <1>16, InwardKept
  DEF WaitChild, At, Goto, terminal, pty, program, ToMaster
<1>17. CASE Type
  <2>1. /\ typed' = typed + 1 /\ tin' = Append(tin, typed + 1)
        /\ UNCHANGED <<took, sin>> /\ UNCHANGED ToMaster
    BY <1>17 DEF Type, proxy, pty, program, ToMaster
  <2>2. Len(took) + Len(sin) + Len(ToMaster) \in Nat
    BY <1>b
  <2>3. /\ Run(tin', Len(took) + Len(sin) + Len(ToMaster)) /\ Len(tin') = Len(tin) + 1
    BY <1>0, <2>1, <2>2, RunAppend DEF Inward
  <2>. QED BY <1>0, <1>b, <2>1, <2>3 DEF Inward
<1>18. CASE ResizeTerminal
  BY <1>0, <1>18, InwardKept
  DEF ResizeTerminal, Running, pty, program, ToMaster
<1>19. CASE HangupTerminal
  BY <1>0, <1>19, InwardKept
  DEF HangupTerminal, Running, proxy, pty, program, ToMaster
<1>20. CASE ChildExits
  BY <1>0, <1>20, InwardKept
  DEF ChildExits, proxy, terminal, pty, program, ToMaster
<1>21. CASE OpenSlave
  BY <1>0, <1>21, InwardKept
  DEF OpenSlave, Running, proxy, terminal, program, ToMaster
<1>22. CASE CloseSlave
  BY <1>0, <1>22, InwardKept
  DEF CloseSlave, Running, proxy, terminal, ToMaster
<1>23. CASE ProgReads
  <2>1. /\ sin # << >> /\ took' = Append(took, Head(sin)) /\ sin' = Tail(sin)
        /\ UNCHANGED <<tin, typed>> /\ UNCHANGED ToMaster
    BY <1>23 DEF ProgReads, proxy, terminal, ToMaster
  <2>2. /\ Head(sin) = Len(took) + 1
        /\ Run(sin', Len(took) + 1) /\ Len(sin') = Len(sin) - 1
    BY <1>0, <1>b, <2>1, RunTail DEF Inward
  <2>3. Run(took', 0) /\ Len(took') = Len(took) + 1
    <3>1. took' = Append(took, 0 + Len(took) + 1)
      BY <1>b, <2>1, <2>2
    <3>. QED BY <1>0, <1>b, <3>1, RunAppend DEF Inward
  <2>. QED BY <1>0, <1>b, <2>1, <2>2, <2>3 DEF Inward
<1>24. CASE ProgSpeaks
  BY <1>0, <1>24, InwardKept
  DEF ProgSpeaks, Running, proxy, terminal, pty, ToMaster
<1>25. CASE ProgWrites
  BY <1>0, <1>25, InwardKept
  DEF ProgWrites, Running, proxy, terminal, ToMaster
<1>26. CASE UNCHANGED vars
  BY <1>0, <1>26, InwardKept
  DEF vars, proxy, terminal, pty, program, ToMaster
<1>. QED BY <1>0, <1>1, <1>2, <1>3, <1>4, <1>5, <1>6, <1>7, <1>8, <1>9, <1>10, <1>11, <1>12, <1>13, <1>14,
    <1>15, <1>16, <1>17, <1>18, <1>19, <1>20, <1>21, <1>22, <1>23, <1>24, <1>25, <1>26 DEF Next, Reptyr, World

\* An action that leaves the way of the written bytes alone, and one with
\* which the relay ends.
LEMMA OutwardKept ==
  ASSUME Outward, UNCHANGED <<shown, sout, wrote>>, UNCHANGED ToStdout,
         pc \in {"wait", "gone"} => pc' \in {"wait", "gone"}
  PROVE  Outward'
  BY DEF Outward

LEMMA OutwardEnds ==
  ASSUME Outward, UNCHANGED <<shown, sout, wrote>>, pc' \in {"wait", "gone"}
  PROVE  Outward'
  BY DEF Outward

LEMMA OutwardLens ==
  ASSUME Outward
  PROVE  /\ Len(shown) \in Nat /\ Len(sout) \in Nat /\ {shown, sout} \subseteq Seq(Nat)
         /\ pc \notin {"wait", "gone"} => ToStdout \in Seq(Nat) /\ Len(ToStdout) \in Nat
<1>1. Len(shown) \in Nat /\ shown \in Seq(Nat)
  BY RunLen DEF Outward
<1>2. Len(sout) \in Nat /\ sout \in Seq(Nat)
  BY DEF Outward
<1>3. pc \notin {"wait", "gone"} => ToStdout \in Seq(Nat) /\ Len(ToStdout) \in Nat
  BY <1>1, RunLen DEF Outward
<1>. QED BY <1>1, <1>2, <1>3

LEMMA OutwardStep == Outward /\ [Next]_vars => Outward'
<1>0. SUFFICES ASSUME Outward, [Next]_vars PROVE Outward'
  OBVIOUS
<1>b. /\ Len(shown) \in Nat /\ Len(sout) \in Nat /\ {shown, sout} \subseteq Seq(Nat)
      /\ pc \notin {"wait", "gone"} => ToStdout \in Seq(Nat) /\ Len(ToStdout) \in Nat
  BY <1>0, OutwardLens
<1>1. CASE Parse
  BY <1>0, <1>1, OutwardKept
  DEF Parse, At, Goto, terminal, program, ToStdout
<1>2. CASE Spawn
  BY <1>0, <1>2, OutwardKept
  DEF Spawn, At, Goto, Unset, terminal, program, ToStdout
<1>3. CASE SpawnFails
  BY <1>0, <1>3, OutwardKept
  DEF SpawnFails, At, Goto, Unset, terminal, pty, program, ToStdout
<1>4. CASE Start
  BY <1>0, <1>4, OutwardKept
  DEF Start, At, Goto, pty, program, ToStdout
<1>5. CASE NoTerminal
  BY <1>0, <1>5, OutwardKept, OutwardEnds
  DEF NoTerminal, At, End, Goto, pty, program, ToStdout
<1>6. CASE Poll
  BY <1>0, <1>6, OutwardKept
  DEF Poll, At, Goto, terminal, pty, program, ToStdout
<1>7. CASE Swap
  BY <1>0, <1>7, OutwardKept
  DEF Swap, At, Goto, terminal, pty, program, ToStdout
<1>8. CASE GetWinsize
  BY <1>0, <1>8, OutwardKept
  DEF GetWinsize, At, Goto, terminal, pty, program, ToStdout
<1>9. CASE SetWinsize
  BY <1>0, <1>9, OutwardKept
  DEF SetWinsize, At, Goto, terminal, program, ToStdout
<1>10. CASE ReadMaster
  <2>1. pc = "master" /\ ToStdout = << >> /\ UNCHANGED <<shown, wrote>>
    BY <1>10 DEF ReadMaster, At, terminal, program, ToStdout
  <2>2. CASE pc' = "toStdout"
    <3>1. buf' = Chunk(sout) /\ sout' = Rest(sout) /\ ToStdout' = buf'
      BY <1>10, <2>2 DEF ReadMaster, Goto, ToStdout
    <3>2. Run(sout, Len(shown)) /\ wrote = Len(shown) + Len(sout)
      BY <1>0, <1>b, <2>1, RunEmpty DEF Outward
    <3>3. /\ Run(Chunk(sout), Len(shown)) /\ Run(Rest(sout), Len(shown) + Len(Chunk(sout)))
          /\ Len(Chunk(sout)) + Len(Rest(sout)) = Len(sout)
      BY <1>b, <3>2, ReadSplits
    <3>4. Len(Chunk(sout)) \in Nat
      BY <1>b, <3>3, RunLen
    <3>5. Len(Rest(sout)) \in Nat /\ Rest(sout) \in Seq(Nat)
      BY <1>b, <3>3, <3>4, RunLen
    <3>6. /\ shown' = shown /\ wrote' = wrote /\ wrote \in Nat /\ Run(shown, 0)
          /\ sout' \in Seq(Nat) /\ Run(ToStdout', Len(shown))
          /\ Run(sout', Len(shown) + Len(ToStdout'))
      BY <1>0, <2>1, <3>1, <3>3, <3>5 DEF Outward
    <3>7. wrote = Len(shown) + Len(ToStdout') + Len(sout')
      <4>1. Len(ToStdout') = Len(Chunk(sout)) /\ Len(sout') = Len(Rest(sout))
        BY <3>1
      <4>2. /\ {Len(shown), Len(Chunk(sout)), Len(Rest(sout)), Len(sout)} \subseteq Nat
            /\ wrote = Len(shown) + Len(sout)
            /\ Len(Chunk(sout)) + Len(Rest(sout)) = Len(sout)
        BY <1>b, <3>2, <3>3, <3>4, <3>5
      <4>3. wrote = Len(shown) + Len(Chunk(sout)) + Len(Rest(sout))
        BY <4>2
      <4>. QED BY <4>1, <4>3
    <3>. QED BY <3>6, <3>7 DEF Outward
  <2>3. CASE pc' # "toStdout"
    <3>1. UNCHANGED <<sout, ToStdout>>
      BY <1>10, <2>1, <2>3 DEF ReadMaster, Goto, ToStdout
    <3>. QED BY <1>0, <2>1, <3>1, OutwardKept
  <2>. QED BY <2>2, <2>3
<1>11. CASE NoSlave
  BY <1>0, <1>11, OutwardKept, OutwardEnds
  DEF NoSlave, At, Goto, End, pty, program, ToStdout
<1>12. CASE WriteStdout
  <2>1. PICK n \in 1 .. Len(buf) : shown' = shown \o SubSeq(buf, 1, n) /\ Written(n)
    BY <1>12 DEF WriteStdout
  <2>2. /\ ToStdout = buf /\ buf' = SubSeq(buf, n + 1, Len(buf)) /\ ToStdout' = buf'
        /\ pc = "toStdout" /\ pc' \in {"toStdout", "stdin"}
    BY <1>12, <2>1 DEF WriteStdout, At, Goto, Written, ToStdout
  <2>3. UNCHANGED <<sout, wrote>>
    BY <1>12 DEF WriteStdout, pty, program
  <2>4. Len(buf) \in Nat /\ n \in 0 .. Len(buf)
    BY <1>b, <2>2
  <2>5. /\ Run(SubSeq(buf, 1, n), Len(shown)) /\ Len(SubSeq(buf, 1, n)) = n
        /\ Run(buf', Len(shown) + n) /\ Len(buf') = Len(buf) - n
    BY <1>0, <1>b, <2>2, <2>4, RunSplit DEF Outward
  <2>6. Run(shown', 0) /\ Len(shown') = Len(shown) + n
    BY <1>0, <1>b, <2>1, <2>5, RunJoin DEF Outward
  <2>7. /\ sout' = sout /\ sout \in Seq(Nat) /\ wrote' = wrote /\ wrote \in Nat
        /\ Run(sout, Len(shown) + Len(buf)) /\ wrote = Len(shown) + Len(buf) + Len(sout)
    BY <1>0, <2>2, <2>3 DEF Outward
  <2>8. /\ Len(shown) + n = Len(shown') /\ Len(shown) + Len(buf) = Len(shown') + Len(buf')
        /\ wrote = Len(shown') + Len(buf') + Len(sout)
    BY <1>b, <2>4, <2>5, <2>6, <2>7
  <2>9. Run(ToStdout', Len(shown')) /\ Run(sout, Len(shown') + Len(ToStdout'))
    BY <2>2, <2>5, <2>7, <2>8
  <2>. QED BY <2>2, <2>6, <2>7, <2>8, <2>9 DEF Outward
<1>13. CASE WriteFails
  BY <1>0, <1>13, OutwardKept, OutwardEnds
  DEF WriteFails, At, End, Goto, pty, program, ToStdout
<1>14. CASE ReadStdin
  BY <1>0, <1>14, OutwardKept, OutwardEnds
  DEF ReadStdin, At, Goto, End, pty, program, ToStdout
<1>15. CASE WriteMaster
  BY <1>0, <1>15, OutwardKept
  DEF WriteMaster, At, Goto, terminal, program, ToStdout
<1>16. CASE WaitChild
  BY <1>0, <1>16, OutwardKept
  DEF WaitChild, At, Goto, terminal, pty, program, ToStdout
<1>17. CASE Type
  BY <1>0, <1>17, OutwardKept
  DEF Type, Running, proxy, pty, program, ToStdout
<1>18. CASE ResizeTerminal
  BY <1>0, <1>18, OutwardKept
  DEF ResizeTerminal, Running, pty, program, ToStdout
<1>19. CASE HangupTerminal
  BY <1>0, <1>19, OutwardKept
  DEF HangupTerminal, Running, proxy, pty, program, ToStdout
<1>20. CASE ChildExits
  BY <1>0, <1>20, OutwardKept
  DEF ChildExits, proxy, terminal, pty, program, ToStdout
<1>21. CASE OpenSlave
  BY <1>0, <1>21, OutwardKept
  DEF OpenSlave, Running, proxy, terminal, program, ToStdout
<1>22. CASE CloseSlave
  BY <1>0, <1>22, OutwardKept
  DEF CloseSlave, Running, proxy, terminal, ToStdout
<1>23. CASE ProgReads
  BY <1>0, <1>23, OutwardKept
  DEF ProgReads, Running, proxy, terminal, ToStdout
<1>24. CASE ProgSpeaks
  BY <1>0, <1>24, OutwardKept
  DEF ProgSpeaks, Running, proxy, terminal, pty, ToStdout
<1>25. CASE ProgWrites
  <2>1. /\ wrote' = wrote + 1 /\ sout' = Append(sout, wrote + 1)
        /\ UNCHANGED <<shown, pc>> /\ UNCHANGED ToStdout
    BY <1>25 DEF ProgWrites, proxy, terminal, ToStdout
  <2>2. sout' \in Seq(Nat) /\ wrote' \in Nat
    BY <1>0, <1>b, <2>1 DEF Outward
  <2>3. CASE pc \in {"wait", "gone"}
    BY <1>0, <2>1, <2>2, <2>3 DEF Outward
  <2>4. CASE pc \notin {"wait", "gone"}
    <3>1. /\ Run(sout', Len(shown) + Len(ToStdout)) /\ Len(sout') = Len(sout) + 1
      <4>1. Len(shown) + Len(ToStdout) \in Nat
        BY <1>b, <2>4
      <4>2. sout' = Append(sout, Len(shown) + Len(ToStdout) + Len(sout) + 1)
        BY <1>0, <2>1, <2>4 DEF Outward
      <4>. QED BY <1>0, <2>4, <4>1, <4>2, RunAppend DEF Outward
    <3>. QED BY <1>0, <1>b, <2>1, <2>2, <2>4, <3>1 DEF Outward
  <2>. QED BY <2>3, <2>4
<1>26. CASE UNCHANGED vars
  BY <1>0, <1>26, OutwardKept
  DEF vars, proxy, terminal, pty, program, ToStdout
<1>. QED BY <1>0, <1>1, <1>2, <1>3, <1>4, <1>5, <1>6, <1>7, <1>8, <1>9, <1>10, <1>11, <1>12, <1>13, <1>14,
    <1>15, <1>16, <1>17, <1>18, <1>19, <1>20, <1>21, <1>22, <1>23, <1>24, <1>25, <1>26 DEF Next, Reptyr, World

LEMMA MetStep == Met /\ Outward /\ [Next]_vars => Met'
<1>0. SUFFICES ASSUME Met, Outward, [Next]_vars PROVE Met'
  OBVIOUS
<1>. USE DEF Met
<1>1. CASE Parse
  BY <1>0, <1>1 DEF Parse, At, Goto, terminal, program
<1>2. CASE Spawn
  BY <1>0, <1>2 DEF Spawn, At, Goto, Unset, terminal, program
<1>3. CASE SpawnFails
  BY <1>0, <1>3 DEF SpawnFails, At, Goto, Unset, terminal, pty, program
<1>4. CASE Start
  BY <1>0, <1>4 DEF Start, At, Goto, pty, program
<1>5. CASE NoTerminal
  BY <1>0, <1>5 DEF NoTerminal, At, End, Goto, pty, program
<1>6. CASE Poll
  BY <1>0, <1>6 DEF Poll, At, Goto, terminal, pty, program
<1>7. CASE Swap
  BY <1>0, <1>7 DEF Swap, At, Goto, terminal, pty, program
<1>8. CASE GetWinsize
  BY <1>0, <1>8 DEF GetWinsize, At, Goto, terminal, pty, program
<1>9. CASE SetWinsize
  BY <1>0, <1>9 DEF SetWinsize, At, Goto, terminal, program
<1>10. CASE ReadMaster
  BY <1>0, <1>10 DEF ReadMaster, At, Goto, terminal, program
<1>11. CASE NoSlave
  <2>1. opens <= 1 => sout = << >> /\ slave = "closed" /\ Len(shown) = wrote
    <3>1. pc = "noslave" /\ ToStdout = << >>
      BY <1>11 DEF NoSlave, At, ToStdout
    <3>2. Len(shown) \in Nat /\ wrote = Len(shown) + 0 + Len(sout)
      BY <1>0, <3>1, OutwardLens, RunEmpty DEF Outward
    <3>. QED BY <1>0, <3>1, <3>2, RunEmpty
  <2>. QED BY <1>0, <1>11, <2>1 DEF NoSlave, At, Goto, End, pty, program
<1>12. CASE WriteStdout
  BY <1>0, <1>12 DEF WriteStdout, At, Goto, pty, program
<1>13. CASE WriteFails
  BY <1>0, <1>13 DEF WriteFails, At, End, Goto, pty, program
<1>14. CASE ReadStdin
  BY <1>0, <1>14 DEF ReadStdin, At, Goto, End, pty, program
<1>15. CASE WriteMaster
  BY <1>0, <1>15 DEF WriteMaster, At, Goto, terminal, program
<1>16. CASE WaitChild
  BY <1>0, <1>16 DEF WaitChild, At, Goto, terminal, pty, program
<1>17. CASE Type
  BY <1>0, <1>17 DEF Type, Running, proxy, pty, program
<1>18. CASE ResizeTerminal
  BY <1>0, <1>18 DEF ResizeTerminal, Running, pty, program
<1>19. CASE HangupTerminal
  BY <1>0, <1>19 DEF HangupTerminal, Running, proxy, pty, program
<1>20. CASE ChildExits
  BY <1>0, <1>20 DEF ChildExits, proxy, terminal, pty, program
<1>21. CASE OpenSlave
  BY <1>0, <1>21 DEF OpenSlave, Running, proxy, terminal, program
<1>22. CASE CloseSlave
  BY <1>0, <1>22 DEF CloseSlave, Running, proxy, terminal
<1>23. CASE ProgReads
  BY <1>0, <1>23 DEF ProgReads, Running, proxy, terminal
<1>24. CASE ProgSpeaks
  BY <1>0, <1>24 DEF ProgSpeaks, Running, proxy, terminal, pty
<1>25. CASE ProgWrites
  BY <1>0, <1>25 DEF ProgWrites, Running, proxy, terminal
<1>26. CASE UNCHANGED vars
  BY <1>0, <1>26 DEF vars, proxy, terminal, pty, program
<1>. QED BY <1>0, <1>1, <1>2, <1>3, <1>4, <1>5, <1>6, <1>7, <1>8, <1>9, <1>10, <1>11, <1>12, <1>13, <1>14,
    <1>15, <1>16, <1>17, <1>18, <1>19, <1>20, <1>21, <1>22, <1>23, <1>24, <1>25, <1>26 DEF Next, Reptyr, World

LEMMA OwedStep == TypeOK /\ Inward /\ Outward /\ Owed /\ [Next]_vars => Owed'
<1>0. SUFFICES ASSUME TypeOK, Inward, Outward, Owed, [Next]_vars PROVE Owed'
  OBVIOUS
<1>a. Gain \in Nat /\ {wrote, owes, asked, Len(took)} \subseteq Nat
  <2>1. Len(took) \in Nat
    BY <1>0, InwardLens
  <2>2. wrote \in Nat
    BY <1>0 DEF Outward
  <2>3. Gain \in Nat /\ owes \in Nat /\ asked \in Nat
    <3>1. asked \in 0 .. MaxOut /\ owes \in 0 .. Gain + 1
      BY <1>0, Zenon DEF TypeOK
    <3>2. Gain \in Nat /\ MaxOut \in Nat
      BY Bounds
    <3>. QED BY <3>1, <3>2
  <2>. QED BY <2>1, <2>2, <2>3
<1>b. ASSUME UNCHANGED program PROVE Owed'
  BY <1>0, <1>b DEF program, Owed
<1>1. CASE CloseSlave
  <2>1. owes' = 0 /\ UNCHANGED <<took, wrote, asked>>
    BY <1>1 DEF CloseSlave
  <2>. QED BY <1>0, <1>a, <2>1 DEF Owed
<1>2. CASE ProgReads
  <2>1. owes = 0 /\ owes' = Gain /\ UNCHANGED <<wrote, asked>>
    BY <1>2 DEF ProgReads
  <2>2. Len(took') = Len(took) + 1
    BY <1>0, <1>2, InwardLens DEF ProgReads
  <2>3. Gain * (Len(took) + 1) = Gain * Len(took) + Gain
    BY <1>a
  <2>4. wrote <= asked + Gain * Len(took)
    BY <1>0, <1>a, <2>1 DEF Owed
  <2>5. wrote + Gain <= asked + Gain * (Len(took) + 1)
    BY <1>a, <2>3, <2>4
  <2>. QED BY <2>1, <2>2, <2>5 DEF Owed
<1>3. CASE ProgSpeaks
  <2>1. owes = 0 /\ owes' = 1 /\ asked' = asked + 1 /\ UNCHANGED <<took, wrote>>
    BY <1>3 DEF ProgSpeaks
  <2>. QED BY <1>0, <1>a, <2>1 DEF Owed
<1>4. CASE ProgWrites
  <2>1. owes' = owes - 1 /\ wrote' = wrote + 1 /\ UNCHANGED <<took, asked>>
    BY <1>4 DEF ProgWrites
  <2>. QED BY <1>0, <1>a, <2>1 DEF Owed
<1>5. CASE Reptyr
  <2>1. UNCHANGED program
    BY <1>5 DEF Reptyr, Parse, Spawn, SpawnFails, Start, NoTerminal, Poll, Swap, GetWinsize, SetWinsize,
      ReadMaster, NoSlave, WriteStdout, WriteFails, ReadStdin, WriteMaster, WaitChild
  <2>. QED BY <1>b, <2>1
<1>6. CASE Type \/ ResizeTerminal \/ HangupTerminal \/ ChildExits \/ OpenSlave \/ UNCHANGED vars
  <2>1. UNCHANGED program
    BY <1>6 DEF Type, ResizeTerminal, HangupTerminal, ChildExits, OpenSlave, vars
  <2>. QED BY <1>b, <2>1
<1>. QED BY <1>0, <1>1, <1>2, <1>3, <1>4, <1>5, <1>6 DEF Next, World

-----------------------------------------------------------------------------
(***************************************************************************)
(* Type correctness.                                                       *)
(***************************************************************************)

MaxByte == MaxOut + MaxIn * (1 + Gain)

ControlTypes ==
  /\ args \in BoundedSeq(Tokens, MaxArgs) /\ opts.mode \in {"none", "proxy"}
  /\ pc \in {"parse", "spawn", "start", "get", "set", "poll", "swap", "master",
             "toStdout", "noslave", "stdin", "toMaster", "wait", "gone"}
  /\ revents \subseteq {"stdin", "master"} /\ why \in {"", "error", "eio", "eof"}
  /\ child \in {"none", "running", "exited"} /\ slave \in {"none", "fresh", "open", "closed"}

FlagTypes ==
  winch \in BOOLEAN /\ raw \in BOOLEAN /\ hungup \in BOOLEAN /\ exit_on_eio \in BOOLEAN

NumberTypes ==
  /\ ws \in 0 .. MaxSize /\ wsize \in 0 .. MaxSize /\ size \in 1 .. MaxSize
  /\ typed \in 0 .. MaxIn /\ opens \in 0 .. MaxOpens
  /\ asked \in 0 .. MaxOut /\ owes \in 0 .. Gain + 1

StreamTypes ==
  /\ buf \in BoundedSeq(1 .. MaxByte, BufCap)
  /\ Len(tin) <= MaxIn /\ Len(sin) <= InCap /\ Len(sout) <= OutCap

LEMMA TypeParts ==
  TypeOK <=> ControlTypes /\ FlagTypes /\ NumberTypes /\ StreamTypes
<1>1. {winch, raw, hungup, exit_on_eio} \subseteq BOOLEAN <=> FlagTypes
  BY DEF FlagTypes
<1>2. {ws, wsize} \subseteq 0 .. MaxSize <=> ws \in 0 .. MaxSize /\ wsize \in 0 .. MaxSize
  OBVIOUS
<1>. QED BY <1>1, <1>2, Zenon DEF TypeOK, ControlTypes, NumberTypes, StreamTypes, MaxByte

\* No word is left of a command line that is parsed.
LEMMA EmptyLine == << >> \in BoundedSeq(Tokens, MaxArgs)
<1>1. MaxArgs \in Nat /\ << >> \in [1 .. 0 -> Tokens]
  BY Bounds
<1>. QED BY <1>1 DEF BoundedSeq, SeqOf

LEMMA ControlStep == ControlTypes /\ [Next]_vars => ControlTypes'
<1>0. SUFFICES ASSUME ControlTypes, [Next]_vars PROVE ControlTypes'
  OBVIOUS
<1>. USE DEF ControlTypes
<1>1. CASE Parse
  BY <1>0, <1>1, EmptyLine DEF Parse, At, Goto, terminal, program
<1>2. CASE Spawn
  BY <1>0, <1>2 DEF Spawn, At, Goto, Unset, terminal, program
<1>3. CASE SpawnFails
  BY <1>0, <1>3 DEF SpawnFails, At, Goto, Unset, terminal, pty, program
<1>4. CASE Start
  BY <1>0, <1>4 DEF Start, At, Goto, pty, program
<1>5. CASE NoTerminal
  BY <1>0, <1>5 DEF NoTerminal, At, End, Goto, pty, program
<1>6. CASE Poll
  BY <1>0, <1>6 DEF Poll, At, Goto, terminal, pty, program, Ready
<1>7. CASE Swap
  BY <1>0, <1>7 DEF Swap, At, Goto, terminal, pty, program
<1>8. CASE GetWinsize
  BY <1>0, <1>8 DEF GetWinsize, At, Goto, terminal, pty, program
<1>9. CASE SetWinsize
  BY <1>0, <1>9 DEF SetWinsize, At, Goto, terminal, program
<1>10. CASE ReadMaster
  BY <1>0, <1>10 DEF ReadMaster, At, Goto, terminal, program
<1>11. CASE NoSlave
  BY <1>0, <1>11 DEF NoSlave, At, Goto, End, pty, program
<1>12. CASE WriteStdout
  BY <1>0, <1>12 DEF WriteStdout, At, Goto, pty, program
<1>13. CASE WriteFails
  BY <1>0, <1>13 DEF WriteFails, At, End, Goto, pty, program
<1>14. CASE ReadStdin
  BY <1>0, <1>14 DEF ReadStdin, At, Goto, End, pty, program
<1>15. CASE WriteMaster
  BY <1>0, <1>15 DEF WriteMaster, At, Goto, terminal, program
<1>16. CASE WaitChild
  BY <1>0, <1>16 DEF WaitChild, At, Goto, terminal, pty, program
<1>17. CASE Type
  BY <1>0, <1>17 DEF Type, Running, proxy, pty, program
<1>18. CASE ResizeTerminal
  BY <1>0, <1>18 DEF ResizeTerminal, Running, pty, program
<1>19. CASE HangupTerminal
  BY <1>0, <1>19 DEF HangupTerminal, Running, proxy, pty, program
<1>20. CASE ChildExits
  BY <1>0, <1>20 DEF ChildExits, proxy, terminal, pty, program
<1>21. CASE OpenSlave
  BY <1>0, <1>21 DEF OpenSlave, Running, proxy, terminal, program
<1>22. CASE CloseSlave
  BY <1>0, <1>22 DEF CloseSlave, Running, proxy, terminal
<1>23. CASE ProgReads
  BY <1>0, <1>23 DEF ProgReads, Running, proxy, terminal
<1>24. CASE ProgSpeaks
  BY <1>0, <1>24 DEF ProgSpeaks, Running, proxy, terminal, pty
<1>25. CASE ProgWrites
  BY <1>0, <1>25 DEF ProgWrites, Running, proxy, terminal
<1>26. CASE UNCHANGED vars
  BY <1>0, <1>26 DEF vars, proxy, terminal, pty, program
<1>. QED BY <1>0, <1>1, <1>2, <1>3, <1>4, <1>5, <1>6, <1>7, <1>8, <1>9, <1>10, <1>11, <1>12, <1>13, <1>14,
    <1>15, <1>16, <1>17, <1>18, <1>19, <1>20, <1>21, <1>22, <1>23, <1>24, <1>25, <1>26 DEF Next, Reptyr, World

LEMMA FlagStep == FlagTypes /\ [Next]_vars => FlagTypes'
<1>0. SUFFICES ASSUME FlagTypes, [Next]_vars PROVE FlagTypes'
  OBVIOUS
<1>. USE DEF FlagTypes
<1>1. CASE Parse
  BY <1>0, <1>1 DEF Parse, At, Goto, terminal, program
<1>2. CASE Spawn
  BY <1>0, <1>2 DEF Spawn, At, Goto, Unset, terminal, program
<1>3. CASE SpawnFails
  BY <1>0, <1>3 DEF SpawnFails, At, Goto, Unset, terminal, pty, program
<1>4. CASE Start
  BY <1>0, <1>4 DEF Start, At, Goto, pty, program
<1>5. CASE NoTerminal
  BY <1>0, <1>5 DEF NoTerminal, At, End, Goto, pty, program
<1>6. CASE Poll
  BY <1>0, <1>6 DEF Poll, At, Goto, terminal, pty, program
<1>7. CASE Swap
  BY <1>0, <1>7 DEF Swap, At, Goto, terminal, pty, program
<1>8. CASE GetWinsize
  BY <1>0, <1>8 DEF GetWinsize, At, Goto, terminal, pty, program
<1>9. CASE SetWinsize
  BY <1>0, <1>9 DEF SetWinsize, At, Goto, terminal, program
<1>10. CASE ReadMaster
  BY <1>0, <1>10 DEF ReadMaster, At, Goto, terminal, program
<1>11. CASE NoSlave
  BY <1>0, <1>11 DEF NoSlave, At, Goto, End, pty, program
<1>12. CASE WriteStdout
  BY <1>0, <1>12 DEF WriteStdout, At, Goto, pty, program
<1>13. CASE WriteFails
  BY <1>0, <1>13 DEF WriteFails, At, End, Goto, pty, program
<1>14. CASE ReadStdin
  BY <1>0, <1>14 DEF ReadStdin, At, Goto, End, pty, program
<1>15. CASE WriteMaster
  BY <1>0, <1>15 DEF WriteMaster, At, Goto, terminal, program
<1>16. CASE WaitChild
  BY <1>0, <1>16 DEF WaitChild, At, Goto, terminal, pty, program
<1>17. CASE Type
  BY <1>0, <1>17 DEF Type, Running, proxy, pty, program
<1>18. CASE ResizeTerminal
  BY <1>0, <1>18 DEF ResizeTerminal, Running, pty, program
<1>19. CASE HangupTerminal
  BY <1>0, <1>19 DEF HangupTerminal, Running, proxy, pty, program
<1>20. CASE ChildExits
  BY <1>0, <1>20 DEF ChildExits, proxy, terminal, pty, program
<1>21. CASE OpenSlave
  BY <1>0, <1>21 DEF OpenSlave, Running, proxy, terminal, program
<1>22. CASE CloseSlave
  BY <1>0, <1>22 DEF CloseSlave, Running, proxy, terminal
<1>23. CASE ProgReads
  BY <1>0, <1>23 DEF ProgReads, Running, proxy, terminal
<1>24. CASE ProgSpeaks
  BY <1>0, <1>24 DEF ProgSpeaks, Running, proxy, terminal, pty
<1>25. CASE ProgWrites
  BY <1>0, <1>25 DEF ProgWrites, Running, proxy, terminal
<1>26. CASE UNCHANGED vars
  BY <1>0, <1>26 DEF vars, proxy, terminal, pty, program
<1>. QED BY <1>0, <1>1, <1>2, <1>3, <1>4, <1>5, <1>6, <1>7, <1>8, <1>9, <1>10, <1>11, <1>12, <1>13, <1>14,
    <1>15, <1>16, <1>17, <1>18, <1>19, <1>20, <1>21, <1>22, <1>23, <1>24, <1>25, <1>26 DEF Next, Reptyr, World

LEMMA NumberStep == NumberTypes /\ [Next]_vars => NumberTypes'
<1>0. SUFFICES ASSUME NumberTypes, [Next]_vars PROVE NumberTypes'
  OBVIOUS
<1>b. /\ {MaxIn, MaxOut, Gain, MaxSize, MaxOpens} \subseteq Nat /\ MaxSize >= 1 /\ MaxOpens >= 1
  BY Bounds
<1>. USE DEF NumberTypes
<1>1. CASE Parse
  BY <1>0, <1>b, <1>1 DEF Parse, At, Goto, terminal, program
<1>2. CASE Spawn
  BY <1>0, <1>b, <1>2 DEF Spawn, At, Goto, Unset, terminal, program
<1>3. CASE SpawnFails
  BY <1>0, <1>b, <1>3 DEF SpawnFails, At, Goto, Unset, terminal, pty, program
<1>4. CASE Start
  BY <1>0, <1>b, <1>4 DEF Start, At, Goto, pty, program
<1>5. CASE NoTerminal
  BY <1>0, <1>b, <1>5 DEF NoTerminal, At, End, Goto, pty, program
<1>6. CASE Poll
  BY <1>0, <1>b, <1>6 DEF Poll, At, Goto, terminal, pty, program
<1>7. CASE Swap
  BY <1>0, <1>b, <1>7 DEF Swap, At, Goto, terminal, pty, program
<1>8. CASE GetWinsize
  BY <1>0, <1>b, <1>8 DEF GetWinsize, At, Goto, terminal, pty, program
<1>9. CASE SetWinsize
  BY <1>0, <1>b, <1>9 DEF SetWinsize, At, Goto, terminal, program
<1>10. CASE ReadMaster
  BY <1>0, <1>b, <1>10 DEF ReadMaster, At, Goto, terminal, program
<1>11. CASE NoSlave
  BY <1>0, <1>b, <1>11 DEF NoSlave, At, Goto, End, pty, program
<1>12. CASE WriteStdout
  BY <1>0, <1>b, <1>12 DEF WriteStdout, At, Goto, pty, program
<1>13. CASE WriteFails
  BY <1>0, <1>b, <1>13 DEF WriteFails, At, End, Goto, pty, program
<1>14. CASE ReadStdin
  BY <1>0, <1>b, <1>14 DEF ReadStdin, At, Goto, End, pty, program
<1>15. CASE WriteMaster
  BY <1>0, <1>b, <1>15 DEF WriteMaster, At, Goto, terminal, program
<1>16. CASE WaitChild
  BY <1>0, <1>b, <1>16 DEF WaitChild, At, Goto, terminal, pty, program
<1>17. CASE Type
  BY <1>0, <1>b, <1>17 DEF Type, Running, proxy, pty, program
<1>18. CASE ResizeTerminal
  BY <1>0, <1>b, <1>18 DEF ResizeTerminal, Running, pty, program
<1>19. CASE HangupTerminal
  BY <1>0, <1>b, <1>19 DEF HangupTerminal, Running, proxy, pty, program
<1>20. CASE ChildExits
  BY <1>0, <1>b, <1>20 DEF ChildExits, proxy, terminal, pty, program
<1>21. CASE OpenSlave
  BY <1>0, <1>b, <1>21 DEF OpenSlave, Running, proxy, terminal, program
<1>22. CASE CloseSlave
  BY <1>0, <1>b, <1>22 DEF CloseSlave, Running, proxy, terminal
<1>23. CASE ProgReads
  BY <1>0, <1>b, <1>23 DEF ProgReads, Running, proxy, terminal
<1>24. CASE ProgSpeaks
  BY <1>0, <1>b, <1>24 DEF ProgSpeaks, Running, proxy, terminal, pty
<1>25. CASE ProgWrites
  BY <1>0, <1>b, <1>25 DEF ProgWrites, Running, proxy, terminal
<1>26. CASE UNCHANGED vars
  BY <1>0, <1>26 DEF vars, proxy, terminal, pty, program
<1>. QED BY <1>0, <1>1, <1>2, <1>3, <1>4, <1>5, <1>6, <1>7, <1>8, <1>9, <1>10, <1>11, <1>12, <1>13, <1>14,
    <1>15, <1>16, <1>17, <1>18, <1>19, <1>20, <1>21, <1>22, <1>23, <1>24, <1>25, <1>26 DEF Next, Reptyr, World

\* No byte has a larger number than the bounds allow.
LEMMA Monotonic ==
  ASSUME NEW g \in Nat, NEW a \in Nat, NEW b \in Nat, a <= b
  PROVE  g * a <= g * b /\ g * b \in Nat
<1>1. g * (b - a) \in Nat
  OBVIOUS
<1>2. g * b = g * a + g * (b - a) /\ g * a \in Nat
  OBVIOUS
<1>. QED BY <1>1, <1>2

LEMMA BoundedLen ==
  ASSUME NEW S, NEW n \in Nat, NEW s \in BoundedSeq(S, n)
  PROVE  Len(s) \in Nat /\ Len(s) <= n /\ s \in Seq(S)
<1>1. PICK m \in 0 .. n : s \in [1 .. m -> S]
  BY DEF BoundedSeq, SeqOf
<1>2. s \in Seq(S)
  BY <1>1, SeqDef
<1>. QED BY <1>1, <1>2, LenProperties

LEMMA ReadLens ==
  ASSUME NEW s \in Seq(Nat)
  PROVE  Len(Chunk(s)) <= BufCap /\ Len(Rest(s)) <= Len(s)
<1>. DEFINE n == IF Len(s) < BufCap THEN Len(s) ELSE BufCap
<1>1. n \in 0 .. Len(s) /\ n <= BufCap /\ Len(s) \in Nat
  BY Bounds
<1>. HIDE DEF n
<1>2. \A i \in 1 .. Len(s) : s[i] \in Nat
  OBVIOUS
<1>3. Len(SubSeq(s, 1, n)) = n
  BY <1>1, <1>2
<1>4. Len(SubSeq(s, n + 1, Len(s))) = Len(s) - n
  BY <1>1, <1>2
<1>5. Chunk(s) = SubSeq(s, 1, n)
  BY DEF Chunk, n
<1>6. Rest(s) = SubSeq(s, n + 1, Len(s))
  BY <1>3, <1>5 DEF Rest
<1>. QED BY <1>1, <1>3, <1>4, <1>5, <1>6

\* What one write_all turn takes of the buffer.
LEMMA WrittenLens ==
  ASSUME NEW s \in Seq(Nat), NEW n \in 1 .. Len(s)
  PROVE  /\ SubSeq(s, 1, n) \in Seq(Nat) /\ Len(SubSeq(s, 1, n)) = n
         /\ Len(SubSeq(s, n + 1, Len(s))) = Len(s) - n
<1>1. \A i \in 1 .. Len(s) : s[i] \in Nat
  OBVIOUS
<1>. QED BY <1>1

LEMMA StreamStep ==
  ASSUME IInv, [Next]_vars, Inward', Outward', Owed', NumberTypes'
  PROVE  StreamTypes'
<1>1. /\ {MaxIn, MaxOut, Gain, InCap, OutCap, BufCap} \subseteq Nat /\ MaxByte \in Nat
      /\ MaxByte = MaxOut + MaxIn + Gain * MaxIn
  BY Bounds DEF MaxByte
<1>2. StreamTypes /\ Inward /\ Outward
  BY TypeParts DEF IInv
<1>3. /\ {Len(took), Len(sin), Len(ToMaster), Len(tin)} \subseteq Nat
      /\ {took, sin, ToMaster, tin} \subseteq Seq(Nat)
      /\ sout \in Seq(Nat) /\ Len(sout) \in Nat
  BY <1>2, InwardLens, OutwardLens
<1>4. /\ Len(took') \in Nat /\ Len(sin') \in Nat /\ Len(ToMaster') \in Nat /\ Len(tin') \in Nat
      /\ Len(took') + Len(sin') + Len(ToMaster') + Len(tin') <= MaxIn
  <2>1. Len(took') \in Nat
    BY RunLen DEF Inward
  <2>2. Len(sin') \in Nat
    BY <2>1, RunLen DEF Inward
  <2>3. Len(ToMaster') \in Nat
    BY <2>1, <2>2, RunLen DEF Inward
  <2>4. Len(tin') \in Nat
    BY <2>1, <2>2, <2>3, RunLen DEF Inward
  <2>5. typed' <= MaxIn /\ typed' = Len(took') + Len(sin') + Len(ToMaster') + Len(tin')
    BY DEF Inward, NumberTypes
  <2>. QED BY <2>1, <2>2, <2>3, <2>4, <2>5
<1>5. Len(tin') <= MaxIn
  BY <1>1, <1>4
<1>6. wrote' \in Nat /\ wrote' <= MaxByte
  <2>1. wrote' \in Nat /\ wrote' + owes' <= asked' + Gain * Len(took')
    BY DEF Outward, Owed
  <2>2. owes' \in Nat /\ asked' \in Nat /\ asked' <= MaxOut
    BY <1>1 DEF NumberTypes
  <2>3. Gain * Len(took') <= Gain * MaxIn /\ Gain * Len(took') \in Nat /\ Gain * MaxIn \in Nat
    <3>1. Len(took') <= MaxIn
      BY <1>1, <1>4
    <3>. QED BY <1>1, <1>4, <3>1, Monotonic
  <2>4. Gain * Len(took') + asked' <= MaxByte
    <3>1. \A p, q, a, m, i \in Nat : p <= q /\ a <= m => p + a <= m + i + q
      OBVIOUS
    <3>2. MaxIn \in Nat /\ MaxOut \in Nat /\ MaxByte = MaxOut + MaxIn + Gain * MaxIn
      BY <1>1
    <3>. QED BY <2>2, <2>3, <3>1, <3>2
  <2>5. \A w, o, a, p, m \in Nat : w + o <= a + p /\ p + a <= m => w <= m
    OBVIOUS
  <2>6. MaxByte \in Nat
    BY <1>1
  <2>. QED BY <2>1, <2>2, <2>3, <2>4, <2>5, <2>6
<1>7. Len(sin') <= InCap
  <2>1. CASE WriteMaster
    <3>1. PICK n \in 1 .. Len(buf) : Len(sin) + n <= InCap /\ sin' = sin \o SubSeq(buf, 1, n)
      BY <2>1 DEF WriteMaster
    <3>2. buf \in Seq(Nat)
      BY <1>3, <2>1 DEF WriteMaster, At, ToMaster
    <3>3. Len(sin') = Len(sin) + n
      BY <1>3, <3>1, <3>2, WrittenLens
    <3>. QED BY <3>1, <3>3
  <2>2. CASE ProgReads
    <3>1. sin # << >> /\ sin' = Tail(sin)
      BY <2>2 DEF ProgReads
    <3>2. Len(sin') <= Len(sin)
      BY <1>3, <3>1
    <3>3. Len(sin) <= InCap
      BY <1>2 DEF StreamTypes
    <3>4. Len(sin) \in Nat /\ Len(sin') \in Nat /\ InCap \in Nat
      BY <1>1, <1>3, <1>4
    <3>. QED BY <3>2, <3>3, <3>4
  <2>3. CASE ~(WriteMaster \/ ProgReads)
    <3>1. UNCHANGED sin
      BY <2>3 DEF Next, Reptyr, World, vars, pty, Parse, Spawn, SpawnFails, Start, NoTerminal, Poll, Swap, GetWinsize, SetWinsize,
        ReadMaster, NoSlave, WriteStdout, WriteFails, ReadStdin, WaitChild, Type,
        ResizeTerminal, HangupTerminal, ChildExits, OpenSlave, CloseSlave, ProgSpeaks,
        ProgWrites
    <3>. QED BY <1>2, <3>1 DEF StreamTypes
  <2>. QED BY <2>1, <2>2, <2>3
<1>8. Len(sout') <= OutCap
  <2>1. CASE ReadMaster
    <3>1. sout' = Rest(sout) \/ sout' = sout
      BY <2>1 DEF ReadMaster
    <3>2. Len(Rest(sout)) <= Len(sout) /\ Len(sout) <= OutCap
      BY <1>2, <1>3, ReadLens DEF StreamTypes
    <3>3. Len(Rest(sout)) \in Nat \/ sout' = sout
      <4>1. sout' \in Seq(Nat)
        BY DEF Outward
      <4>. QED BY <3>1, <4>1
    <3>. QED BY <1>1, <1>3, <3>1, <3>2, <3>3
  <2>2. CASE ProgWrites
    <3>1. Len(sout) < OutCap /\ sout' = Append(sout, wrote + 1)
      BY <2>2 DEF ProgWrites
    <3>2. Len(sout') = Len(sout) + 1
      BY <1>3, <3>1
    <3>. QED BY <1>1, <1>3, <3>1, <3>2
  <2>3. CASE ~(ReadMaster \/ ProgWrites)
    <3>1. UNCHANGED sout
      BY <2>3 DEF Next, Reptyr, World, vars, pty, Parse, Spawn, SpawnFails, Start, NoTerminal, Poll, Swap, GetWinsize, SetWinsize,
        NoSlave, WriteStdout, WriteFails, ReadStdin, WriteMaster, WaitChild, Type,
        ResizeTerminal, HangupTerminal, ChildExits, OpenSlave, CloseSlave, ProgReads,
        ProgSpeaks
    <3>. QED BY <1>2, <3>1 DEF StreamTypes
  <2>. QED BY <2>1, <2>2, <2>3
<1>9. buf' \in BoundedSeq(1 .. MaxByte, BufCap)
  <2>1. buf \in BoundedSeq(1 .. MaxByte, BufCap) /\ Len(buf) \in Nat /\ Len(buf) <= BufCap
    BY <1>1, <1>2, BoundedLen DEF StreamTypes
  <2>2. ASSUME pc' = "toMaster", Len(buf') <= BufCap
        PROVE  buf' \in BoundedSeq(1 .. MaxByte, BufCap)
    <3>1. ToMaster' = buf'
      BY <2>2 DEF ToMaster
    <3>2. Run(buf', Len(took') + Len(sin'))
      BY <3>1 DEF Inward
    <3>3. Len(took') + Len(sin') + Len(buf') <= MaxByte
      <4>1. Len(took') + Len(sin') + Len(buf') <= MaxIn /\ Gain * MaxIn \in Nat
        BY <1>1, <1>4, <3>1
      <4>. QED BY <1>1, <1>4, <3>1, <4>1
    <3>4. Len(took') + Len(sin') \in Nat /\ BufCap \in Nat /\ MaxByte \in Nat
      BY <1>1, <1>4
    <3>. QED BY <2>2, <3>2, <3>3, <3>4, RunBounded
  <2>3. ASSUME pc' = "toStdout", Len(buf') <= BufCap
        PROVE  buf' \in BoundedSeq(1 .. MaxByte, BufCap)
    <3>1. ToStdout' = buf'
      BY <2>3 DEF ToStdout
    <3>2. /\ Run(shown', 0) /\ Run(buf', Len(shown')) /\ sout' \in Seq(Nat)
          /\ wrote' = Len(shown') + Len(buf') + Len(sout')
      BY <2>3, <3>1 DEF Outward
    <3>3. Len(shown') \in Nat
      BY <3>2, RunLen
    <3>4. Len(buf') \in Nat /\ Len(sout') \in Nat
      BY <3>2, <3>3, RunLen
    <3>5. Len(shown') + Len(buf') <= MaxByte
      BY <1>1, <1>6, <3>2, <3>3, <3>4
    <3>6. BufCap \in Nat /\ MaxByte \in Nat
      BY <1>1
    <3>. QED BY <2>3, <3>2, <3>3, <3>5, <3>6, RunBounded
  <2>4. << >> \in BoundedSeq(1 .. MaxByte, BufCap)
    <3>1. Run(<< >>, 0) /\ Len(<< >>) = 0
      BY RunEmpty
    <3>. QED BY <1>1, <3>1, RunBounded
  <2>5. CASE ReadMaster
    <3>1. \/ UNCHANGED buf
          \/ pc' = "toStdout" /\ buf' = Chunk(sout)
      <4>1. CASE "master" \in revents /\ ~(sout = << >> /\ slave = "closed")
        BY <2>5, <4>1, Zenon DEF ReadMaster, Goto
      <4>2. CASE ~("master" \in revents /\ ~(sout = << >> /\ slave = "closed"))
        BY <2>5, <4>2, Zenon DEF ReadMaster
      <4>. QED BY <4>1, <4>2
    <3>. QED BY <1>3, <2>1, <2>3, <3>1, ReadLens
  <2>6. CASE ReadStdin
    <3>1. \/ UNCHANGED buf
          \/ pc' = "toMaster" /\ buf' = Chunk(tin)
      BY <2>6, Zenon DEF ReadStdin, Goto
    <3>. QED BY <1>3, <2>1, <2>2, <3>1, ReadLens
  <2>7. CASE WriteStdout
    <3>1. PICK n \in 1 .. Len(buf) : buf' = SubSeq(buf, n + 1, Len(buf))
      BY <2>7 DEF WriteStdout, Written
    <3>2. buf' = << >> \/ pc' = "toStdout"
      BY <2>7 DEF WriteStdout, Goto
    <3>3. buf \in Seq(Nat)
      BY <1>2, <2>7, OutwardLens DEF WriteStdout, At, ToStdout
    <3>4. Len(buf') <= BufCap
      BY <1>1, <2>1, <3>1, <3>3, WrittenLens
    <3>. QED BY <2>3, <2>4, <3>2, <3>4
  <2>8. CASE WriteMaster
    <3>1. PICK n \in 1 .. Len(buf) : buf' = SubSeq(buf, n + 1, Len(buf))
      BY <2>8 DEF WriteMaster, Written
    <3>2. buf' = << >> \/ pc' = "toMaster"
      BY <2>8 DEF WriteMaster, Goto
    <3>3. buf \in Seq(Nat)
      BY <1>3, <2>8 DEF WriteMaster, At, ToMaster
    <3>4. Len(buf') <= BufCap
      BY <1>1, <2>1, <3>1, <3>3, WrittenLens
    <3>. QED BY <2>2, <2>4, <3>2, <3>4
  <2>9. CASE ~(ReadMaster \/ ReadStdin \/ WriteStdout \/ WriteMaster)
    <3>1. UNCHANGED buf
      BY <2>9 DEF Next, Reptyr, World, vars, proxy, Parse, Spawn, SpawnFails, Start, NoTerminal, Poll, Swap, GetWinsize, SetWinsize,
        NoSlave, WriteFails, WaitChild, Type, ResizeTerminal, HangupTerminal, ChildExits,
        OpenSlave, CloseSlave, ProgReads, ProgSpeaks, ProgWrites
    <3>. QED BY <2>1, <3>1
  <2>. QED BY <2>5, <2>6, <2>7, <2>8, <2>9
<1>. QED BY <1>5, <1>7, <1>8, <1>9 DEF StreamTypes

-----------------------------------------------------------------------------
(***************************************************************************)
(* The theorems.                                                           *)
(***************************************************************************)

LEMMA Inductive == Spec => []IInv
<1>1. Init => IInv
  BY InvInit
<1>2. IInv /\ [Next]_vars => IInv'
  <2>. SUFFICES ASSUME IInv, [Next]_vars PROVE IInv'
    OBVIOUS
  <2>1. Inward' /\ Outward' /\ Met' /\ Guarded' /\ Owed'
    BY InwardStep, OutwardStep, MetStep, GuardedStep, OwedStep DEF IInv
  <2>2. ControlTypes' /\ FlagTypes' /\ NumberTypes'
    BY TypeParts, ControlStep, FlagStep, NumberStep DEF IInv
  <2>3. StreamTypes'
    BY <2>1, <2>2, StreamStep
  <2>4. TypeOK'
    <3>1. {winch', raw', hungup', exit_on_eio'} \subseteq BOOLEAN
      BY <2>2 DEF FlagTypes
    <3>2. {ws', wsize'} \subseteq 0 .. MaxSize
      BY <2>2 DEF NumberTypes
    <3>. QED BY <2>2, <2>3, <3>1, <3>2, Zenon
         DEF TypeOK, ControlTypes, NumberTypes, StreamTypes, MaxByte
  <2>. QED BY <2>1, <2>4 DEF IInv
<1>. QED BY <1>1, <1>2, PTL DEF Spec

\* Every variable has its type, for all values of the constants: no queue and
\* no buffer holds more than it has room for.
THEOREM TypeCorrect == Spec => []TypeOK
<1>1. IInv => TypeOK
  BY DEF IInv
<1>. QED BY <1>1, Inductive, PTL

\* Neither direction of the relay loses, repeats or reorders a byte, whatever
\* the sizes of reads, writes and queues (run, read_once, write_all).
THEOREM NoByteLost == Spec => []BytesInOrder
<1>1. IInv => BytesInOrder
  <2>. SUFFICES ASSUME IInv PROVE BytesInOrder
    OBVIOUS
  <2>1. Inward /\ Outward
    BY DEF IInv
  <2>2. ASSUME NEW s, Run(s, 0) PROVE Counting(s)
    <3>1. s \in Seq(Nat) /\ DOMAIN s = 1 .. Len(s) /\ \A i \in 1 .. Len(s) : s[i] = 0 + i
      BY <2>2 DEF Run
    <3>. QED BY <3>1 DEF Counting
  <2>3. /\ Run(took, 0) /\ Run(sin, Len(took)) /\ Run(ToMaster, Len(took) + Len(sin))
        /\ Run(tin, Len(took) + Len(sin) + Len(ToMaster)) /\ Run(shown, 0)
        /\ {Len(took), Len(sin), Len(ToMaster)} \subseteq Nat
    BY <2>1, InwardLens DEF Inward, Outward
  <2>4. Run(took \o sin, 0) /\ Len(took \o sin) = Len(took) + Len(sin)
    BY <2>3, RunJoin
  <2>5. /\ Run((took \o sin) \o ToMaster, 0)
        /\ Len((took \o sin) \o ToMaster) = Len(took) + Len(sin) + Len(ToMaster)
    <3>1. 0 + Len(took \o sin) = Len(took) + Len(sin)
      BY <2>3, <2>4
    <3>2. Run(ToMaster, 0 + Len(took \o sin))
      BY <2>3, <3>1
    <3>3. /\ Run((took \o sin) \o ToMaster, 0)
          /\ Len((took \o sin) \o ToMaster) = Len(took \o sin) + Len(ToMaster)
      BY <2>4, <3>2, RunJoin
    <3>. QED BY <2>4, <3>3
  <2>6. Run(((took \o sin) \o ToMaster) \o tin, 0)
    <3>1. 0 + Len((took \o sin) \o ToMaster) = Len(took) + Len(sin) + Len(ToMaster)
      BY <2>3, <2>5
    <3>2. Run(tin, 0 + Len((took \o sin) \o ToMaster))
      BY <2>3, <3>1
    <3>. QED BY <2>5, <3>2, RunJoin
  <2>. QED BY <2>2, <2>3, <2>6 DEF BytesInOrder, ToMaster
<1>. QED BY <1>1, Inductive, PTL

\* When the relay ends because the slave is gone for the first time, nothing
\* that was written to it is left unshown (read_once).
THEOREM LastOutputShown == Spec => []NothingLeftUnread
<1>1. IInv => NothingLeftUnread
  BY DEF IInv, Met, NothingLeftUnread
<1>. QED BY <1>1, Inductive, PTL

\* The user's terminal leaves raw mode with the relay, on every path
\* (RawModeGuard).
THEOREM TerminalGivenBack == Spec => []TerminalRestored
<1>1. IInv => TerminalRestored
  BY DEF IInv, Guarded, TerminalRestored
<1>. QED BY <1>1, Inductive, PTL
=============================================================================
