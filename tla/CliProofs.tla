------------------------------ MODULE CliProofs ------------------------------
(***************************************************************************)
(* The loop of parse (src/cli.rs) makes of every command line, of any      *)
(* length and any words, what Meaning states by positions.                 *)
(***************************************************************************)
EXTENDS Cli, LeastElement, FiniteSetTheorems, SequenceTheorems

(***************************************************************************)
(* The fold, position by position.                                         *)
(***************************************************************************)

\* g maps every set of the first n positions to what the loop has after them.
IsLoop(g, args, n) ==
  g = [s \in SUBSET (1 .. n) |->
         IF s = {} THEN Begin ELSE ParseArg(g[s \ {Max(s)}], args[Max(s)])]

LEMMA LoopExists == ASSUME NEW args, NEW n \in Nat PROVE \E g : IsLoop(g, args, n)
<1>. DEFINE S == {k \in Nat : \E g : IsLoop(g, args, k)}
<1>1. 0 \in S
  <2>. DEFINE g == [s \in SUBSET (1 .. 0) |-> Begin]
  <2>1. \A s \in SUBSET (1 .. 0) : s = {}
    OBVIOUS
  <2>2. IsLoop(g, args, 0)
    BY <2>1 DEF IsLoop
  <2>. QED BY <2>2
<1>2. ASSUME NEW k \in Nat, k \in S PROVE k + 1 \in S
  <2>1. PICK g : IsLoop(g, args, k)
    BY <1>2
  <2>. DEFINE h == [s \in SUBSET (1 .. k + 1) |->
                      IF k + 1 \in s THEN ParseArg(g[s \ {k + 1}], args[k + 1]) ELSE g[s]]
  <2>2. ASSUME NEW s \in SUBSET (1 .. k + 1)
        PROVE  h[s] = IF s = {} THEN Begin ELSE ParseArg(h[s \ {Max(s)}], args[Max(s)])
    <3>1. CASE k + 1 \in s
      <4>1. Max(s) = k + 1
        <5>1. s \subseteq Nat /\ \A y \in s : y <= k + 1
          OBVIOUS
        <5>. QED BY <3>1, <5>1, MaxIs, Zenon
      <4>2. s \ {k + 1} \in SUBSET (1 .. k + 1) /\ k + 1 \notin s \ {k + 1} /\ s # {}
        BY <3>1
      <4>3. h[s \ {k + 1}] = g[s \ {k + 1}]
        BY <4>2
      <4>. QED BY <3>1, <4>1, <4>2, <4>3, Zenon
    <3>2. CASE k + 1 \notin s
      <4>1. s \in SUBSET (1 .. k) /\ s \ {Max(s)} \in SUBSET (1 .. k + 1)
        <5>1. \A y \in s : y \in 1 .. k
          BY <3>2
        <5>. QED BY <5>1
      <4>2. h[s] = g[s] /\ h[s \ {Max(s)}] = g[s \ {Max(s)}]
        BY <3>2, <4>1
      <4>3. g[s] = IF s = {} THEN Begin ELSE ParseArg(g[s \ {Max(s)}], args[Max(s)])
        BY <2>1, <4>1, Zenon DEF IsLoop
      <4>. QED BY <4>2, <4>3, Zenon
    <3>. QED BY <3>1, <3>2
  <2>3. IsLoop(h, args, k + 1)
    BY <2>2, Zenon DEF IsLoop
  <2>. QED BY <2>3
<1>3. n \in S
  <2>. HIDE DEF S
  <2>. QED BY <1>1, <1>2, EveryNumber
<1>. QED BY <1>3

Loop(args) ==
  CHOOSE g : g = [s \in SUBSET (DOMAIN args) |->
                    IF s = {} THEN Begin ELSE ParseArg(g[s \ {Max(s)}], args[Max(s)])]

\* What the loop has after the first i arguments.
State(args, i) == Loop(args)[1 .. i]

LEMMA FoldIsLoop == ASSUME NEW args PROVE FoldLeft(ParseArg, Begin, args) = Loop(args)[DOMAIN args]
  BY Zenon DEF FoldLeft, MapThenFoldSet, Loop

LEMMA LoopSteps ==
  ASSUME NEW T, NEW args \in Seq(T)
  PROVE  /\ State(args, 0) = Begin
         /\ \A i \in 1 .. Len(args) : State(args, i) = ParseArg(State(args, i - 1), args[i])
         /\ FoldLeft(ParseArg, Begin, args) = State(args, Len(args))
<1>1. DOMAIN args = 1 .. Len(args) /\ Len(args) \in Nat
  OBVIOUS
<1>2. IsLoop(Loop(args), args, Len(args))
  <2>1. \E g : IsLoop(g, args, Len(args))
    BY <1>1, LoopExists
  <2>. QED BY <1>1, <2>1, Zenon DEF Loop, IsLoop
<1>3. ASSUME NEW s \in SUBSET (1 .. Len(args))
      PROVE  Loop(args)[s] = IF s = {} THEN Begin
                             ELSE ParseArg(Loop(args)[s \ {Max(s)}], args[Max(s)])
  BY <1>2, Zenon DEF IsLoop
<1>4. State(args, 0) = Begin
  <2>1. 1 .. 0 = {} /\ {} \in SUBSET (1 .. Len(args))
    OBVIOUS
  <2>. QED BY <1>3, <2>1, Zenon DEF State
<1>5. ASSUME NEW i \in 1 .. Len(args)
      PROVE  State(args, i) = ParseArg(State(args, i - 1), args[i])
  <2>1. 1 .. i \in SUBSET (1 .. Len(args)) /\ i \in 1 .. i
    BY <1>1
  <2>2. Max(1 .. i) = i
    <3>1. 1 .. i \subseteq Nat /\ \A y \in 1 .. i : y <= i
      BY <1>1
    <3>. QED BY <2>1, <3>1, MaxIs, Zenon
  <2>3. (1 .. i) \ {i} = 1 .. i - 1
    OBVIOUS
  <2>. QED BY <1>3, <2>1, <2>2, <2>3, Zenon DEF State
<1>6. FoldLeft(ParseArg, Begin, args) = State(args, Len(args))
  BY <1>1, FoldIsLoop, Zenon DEF State
<1>. QED BY <1>4, <1>5, <1>6

-----------------------------------------------------------------------------
(***************************************************************************)
(* What stands at given positions.                                         *)
(***************************************************************************)

LEMMA NoWords == ASSUME NEW args PROVE Words(args, {}) = << >>
<1>1. Cardinality({}) = 0
  BY FS_EmptySet
<1>. QED BY <1>1 DEF Words

LEMMA RankOf ==
  ASSUME NEW n \in Nat, NEW at, at \subseteq 1 .. n
  PROVE  /\ Cardinality(at) \in Nat /\ Cardinality(at \cup {n + 1}) = Cardinality(at) + 1
         /\ \A i \in at : Cardinality(at \cap 1 .. i) \in Nat
                          /\ Cardinality(at \cap 1 .. i) <= Cardinality(at)
<1>1. IsFiniteSet(at)
  <2>1. IsFiniteSet(1 .. n)
    BY FS_Interval
  <2>. QED BY <2>1, FS_Subset
<1>2. Cardinality(at) \in Nat
  BY <1>1, FS_CardinalityType
<1>3. Cardinality(at \cup {n + 1}) = Cardinality(at) + 1
  <2>1. n + 1 \notin at
    OBVIOUS
  <2>. QED BY <1>1, <2>1, FS_AddElement
<1>4. ASSUME NEW i \in at
      PROVE  Cardinality(at \cap 1 .. i) \in Nat /\ Cardinality(at \cap 1 .. i) <= Cardinality(at)
  <2>1. at \cap 1 .. i \subseteq at
    OBVIOUS
  <2>2. IsFiniteSet(at \cap 1 .. i) /\ Cardinality(at \cap 1 .. i) <= Cardinality(at)
    BY <1>1, <2>1, FS_Subset
  <2>. QED BY <2>2, FS_CardinalityType
<1>. QED BY <1>2, <1>3, <1>4

\* A position behind the others adds its word at the end.
LEMMA WordsGrow ==
  ASSUME NEW args, NEW n \in Nat, NEW at, at \subseteq 1 .. n
  PROVE  Words(args, at \cup {n + 1}) = Append(Words(args, at), args[n + 1])
<1>. DEFINE c == Cardinality(at)
            more == at \cup {n + 1}
            ranked(S, k) == {i \in S : Cardinality(S \cap 1 .. i) = k}
<1>1. c \in Nat /\ Cardinality(more) = c + 1
  BY RankOf
<1>2. ASSUME NEW i \in at
      PROVE  /\ more \cap 1 .. i = at \cap 1 .. i
             /\ Cardinality(more \cap 1 .. i) \in Nat /\ Cardinality(more \cap 1 .. i) <= c
  <2>1. more \cap 1 .. i = at \cap 1 .. i
    OBVIOUS
  <2>. QED BY <2>1, RankOf
<1>3. more \cap 1 .. (n + 1) = more
  <2>1. \A i \in more : i \in 1 .. (n + 1)
    OBVIOUS
  <2>. QED BY <2>1, Zenon
<1>4. ASSUME NEW k \in 1 .. c PROVE Nth(more, k) = Nth(at, k)
  <2>1. \A i \in more : Cardinality(more \cap 1 .. i) = k <=> i \in at /\ Cardinality(at \cap 1 .. i) = k
    <3>1. \A i \in at : more \cap 1 .. i = at \cap 1 .. i
      BY <1>2
    <3>2. n + 1 \notin at /\ Cardinality(more \cap 1 .. (n + 1)) # k
      <4>1. c + 1 # k
        <5>. HIDE DEF c
        <5>. QED BY <1>1
      <4>2. n + 1 \notin at
        OBVIOUS
      <4>. QED BY <1>1, <1>3, <4>1, <4>2, Zenon
    <3>. QED BY <3>1, <3>2, Zenon
  <2>2. ranked(more, k) = ranked(at, k)
    BY <2>1, Zenon
  <2>. QED BY <2>2, Zenon DEF Nth
<1>5. Nth(more, c + 1) = n + 1
  <2>1. \A i \in at : Cardinality(more \cap 1 .. i) # c + 1
    BY <1>1, <1>2
  <2>2. ranked(more, c + 1) = {n + 1}
    BY <1>1, <1>3, <2>1, Zenon
  <2>3. Min({n + 1}) = n + 1
    BY MinIsElement
  <2>. QED BY <2>2, <2>3, Zenon DEF Nth
<1>6. Words(args, at) = [k \in 1 .. c |-> args[Nth(at, k)]]
  BY DEF Words
<1>7. Words(args, more) = [k \in 1 .. c + 1 |-> args[Nth(more, k)]]
  BY <1>1 DEF Words
<1>8. /\ Words(args, at) \in Seq({args[Nth(at, k)] : k \in 1 .. c})
      /\ Len(Words(args, at)) = c
  <2>. HIDE DEF c
  <2>. QED BY <1>1, <1>6
<1>9. ASSUME NEW k \in 1 .. c + 1
      PROVE  Append(Words(args, at), args[n + 1])[k] = args[Nth(more, k)]
  <2>1. CASE k \in 1 .. c
    <3>1. Append(Words(args, at), args[n + 1])[k] = Words(args, at)[k]
      BY <1>1, <1>8, <2>1, AppendProperties
    <3>. QED BY <1>4, <1>6, <2>1, <3>1, Zenon
  <2>2. CASE k = c + 1
    <3>1. Append(Words(args, at), args[n + 1])[k] = args[n + 1]
      BY <1>1, <1>8, <2>2, AppendProperties
    <3>. QED BY <1>5, <2>2, <3>1, Zenon
  <2>3. k \in 1 .. c \/ k = c + 1
    <3>. HIDE DEF c
    <3>. QED BY <1>1
  <2>. QED BY <2>1, <2>2, <2>3
<1>10. Append(Words(args, at), args[n + 1]) = [k \in 1 .. c + 1 |-> args[Nth(more, k)]]
  <2>1. /\ DOMAIN Append(Words(args, at), args[n + 1]) = 1 .. c + 1
        /\ Append(Words(args, at), args[n + 1]) =
             [k \in DOMAIN Append(Words(args, at), args[n + 1]) |-> Append(Words(args, at), args[n + 1])[k]]
    BY <1>1, <1>8, AppendProperties
  <2>. QED BY <1>9, <2>1, Zenon
<1>. QED BY <1>7, <1>10

-----------------------------------------------------------------------------
(***************************************************************************)
(* The loop invariant: what is known after the first i arguments is what   *)
(* the positions up to i say, until an unknown option ends it all.         *)
(***************************************************************************)

Unknown(args, i) == \E j \in Flags(args) : j <= i /\ args[j] \notin Known

Seen(args, i, option) == \E j \in Flags(args) : j <= i /\ args[j] = option

PtyMode(args, i) ==
  LET at == PtyFlags(args) \cap 1 .. i IN IF at = {} THEN "none" ELSE args[Max(at)]

After(args, i) ==
  [verbose |-> Seen(args, i, "-V"), force_stdio |-> Seen(args, i, "-s"),
   steal_tty |-> Seen(args, i, "-T"), pty_mode |-> PtyMode(args, i),
   positional |-> Words(args, Others(args) \cap 1 .. i),
   no_more_flags |-> (Cut(args) <= i), unknown |-> FALSE]

LoopInv(args, i) ==
  IF Unknown(args, i) THEN State(args, i).unknown ELSE State(args, i) = After(args, i)

LEMMA CutIsFirst ==
  ASSUME NEW T, NEW args \in Seq(T)
  PROVE  /\ Cut(args) \in 1 .. Len(args) + 1
         /\ Cut(args) <= Len(args) => args[Cut(args)] = "--"
         /\ \A i \in 1 .. Len(args) : args[i] = "--" => Cut(args) <= i
<1>. DEFINE at == {i \in DOMAIN args : args[i] = "--"} \cup {Len(args) + 1}
<1>1. DOMAIN args = 1 .. Len(args) /\ Len(args) \in Nat
  OBVIOUS
<1>2. at \subseteq 1 .. Len(args) + 1 /\ at \subseteq Nat /\ Len(args) + 1 \in at
  BY <1>1
<1>3. Cut(args) = Min(at)
  BY DEF Cut
<1>4. Cut(args) \in at
  <2>. HIDE DEF at
  <2>. QED BY <1>2, <1>3, MinIsElement
<1>5. \A i \in at : Cut(args) <= i
  <2>. HIDE DEF at
  <2>. QED BY <1>2, <1>3, MinIsLeast
<1>. QED BY <1>1, <1>2, <1>4, <1>5

\* Which of the sets of positions the i-th belongs to.
LEMMA Sorts ==
  ASSUME NEW T, NEW args \in Seq(T), NEW i \in 1 .. Len(args)
  PROVE  /\ i \in Flags(args) <=> ~(Cut(args) <= i - 1) /\ args[i] \in Dashed \ {"--"}
         /\ i \in Others(args) <=> Cut(args) <= i - 1 \/ args[i] \notin Dashed
         /\ Cut(args) <= i <=> Cut(args) <= i - 1 \/ args[i] = "--"
<1>1. DOMAIN args = 1 .. Len(args) /\ Len(args) \in Nat /\ Cut(args) \in Nat /\ i \in Nat
  BY CutIsFirst
<1>2. Cut(args) = i => args[i] = "--"
  BY <1>1, CutIsFirst
<1>3. args[i] = "--" => Cut(args) <= i
  BY CutIsFirst
<1>4. "--" \in Dashed
  BY DEF Dashed, Known
<1>5. Cut(args) <= i <=> Cut(args) <= i - 1 \/ Cut(args) = i
  BY <1>1
<1>6. i < Cut(args) <=> ~(Cut(args) <= i)
  BY <1>1
<1>7. i > Cut(args) <=> Cut(args) <= i - 1
  BY <1>1
<1>8. i \in Flags(args) <=> i < Cut(args) /\ args[i] \in Dashed
  BY <1>1 DEF Flags
<1>9. i \in Others(args) <=> i > Cut(args) \/ (i < Cut(args) /\ args[i] \notin Dashed)
  BY <1>1 DEF Others
<1>. QED BY <1>2, <1>3, <1>4, <1>5, <1>6, <1>7, <1>8, <1>9, Zenon

LEMMA LoopStart == ASSUME NEW T, NEW args \in Seq(T) PROVE LoopInv(args, 0)
<1>1. Cut(args) \in Nat /\ Cut(args) >= 1
  BY CutIsFirst
<1>2. Flags(args) \subseteq 1 .. Len(args) /\ Others(args) \subseteq 1 .. Len(args)
      /\ PtyFlags(args) \subseteq 1 .. Len(args)
  BY DEF Flags, Others, PtyFlags
<1>3. \A j \in Flags(args) : ~(j <= 0)
  BY <1>2
<1>4. PtyFlags(args) \cap 1 .. 0 = {} /\ Others(args) \cap 1 .. 0 = {} /\ ~(Cut(args) <= 0)
  BY <1>1
<1>5. After(args, 0) = Begin
  <2>1. \A o : Seen(args, 0, o) = FALSE
    BY <1>3, Zenon DEF Seen
  <2>2. PtyMode(args, 0) = "none"
    BY <1>4, Zenon DEF PtyMode
  <2>3. Words(args, Others(args) \cap 1 .. 0) = << >>
    BY <1>4, NoWords, Zenon
  <2>4. (Cut(args) <= 0) = FALSE
    BY <1>4
  <2>. QED BY <2>1, <2>2, <2>3, <2>4, Zenon DEF After, Begin
<1>6. ~Unknown(args, 0)
  BY <1>3, Zenon DEF Unknown
<1>. QED BY <1>5, <1>6, LoopSteps, Zenon DEF LoopInv

\* A word that is no option.
LEMMA PushFields ==
  ASSUME NEW v, NEW f, NEW t, NEW m, NEW p, NEW n, NEW u, NEW arg
  PROVE  [[verbose |-> v, force_stdio |-> f, steal_tty |-> t, pty_mode |-> m,
           positional |-> p, no_more_flags |-> n, unknown |-> u]
            EXCEPT !.positional = Append(@, arg)]
         = [verbose |-> v, force_stdio |-> f, steal_tty |-> t, pty_mode |-> m,
            positional |-> Append(p, arg), no_more_flags |-> n, unknown |-> u]
  OBVIOUS

LEMMA LoopStep ==
  ASSUME NEW T, NEW args \in Seq(T), NEW i \in 1 .. Len(args), LoopInv(args, i - 1)
  PROVE  LoopInv(args, i)
<1>. DEFINE arg == args[i]
<1>1. /\ State(args, i) = ParseArg(State(args, i - 1), arg)
      /\ i \in Nat /\ i - 1 \in Nat /\ (i - 1) + 1 = i
  <2>1. State(args, i) = ParseArg(State(args, i - 1), arg)
    BY LoopSteps, Zenon
  <2>2. i \in Nat /\ i - 1 \in Nat /\ (i - 1) + 1 = i
    OBVIOUS
  <2>. QED BY <2>1, <2>2
<1>2. Flags(args) \subseteq 1 .. Len(args) /\ Others(args) \subseteq 1 .. Len(args)
      /\ PtyFlags(args) \subseteq 1 .. Len(args)
  BY DEF Flags, Others, PtyFlags
<1>3. \A j \in 1 .. Len(args) : j <= i <=> j <= i - 1 \/ j = i
  BY <1>1
<1>4. Unknown(args, i) <=> Unknown(args, i - 1) \/ (i \in Flags(args) /\ arg \notin Known)
  BY <1>2, <1>3, Zenon DEF Unknown
<1>5. \A o : Seen(args, i, o) = (Seen(args, i - 1, o) \/ (i \in Flags(args) /\ arg = o))
  BY <1>2, <1>3, Zenon DEF Seen
<1>6. Words(args, Others(args) \cap 1 .. i) =
        IF i \in Others(args) THEN Append(Words(args, Others(args) \cap 1 .. i - 1), arg)
        ELSE Words(args, Others(args) \cap 1 .. i - 1)
  <2>. DEFINE before == Others(args) \cap 1 .. i - 1
  <2>1. \A j \in Others(args) : j \in 1 .. i <=> j \in 1 .. i - 1 \/ j = i
    BY <1>2
  <2>2. CASE i \in Others(args)
    <3>1. Others(args) \cap 1 .. i = before \cup {(i - 1) + 1}
      BY <1>1, <2>1, <2>2, Zenon
    <3>2. before \subseteq 1 .. i - 1
      OBVIOUS
    <3>3. Words(args, before \cup {(i - 1) + 1}) = Append(Words(args, before), args[(i - 1) + 1])
      BY <1>1, <3>2, WordsGrow, Zenon
    <3>. QED BY <1>1, <2>2, <3>1, <3>3, Zenon
  <2>3. CASE i \notin Others(args)
    <3>1. Others(args) \cap 1 .. i = before
      BY <2>1, <2>3, Zenon
    <3>. QED BY <2>3, <3>1, Zenon
  <2>. QED BY <2>2, <2>3
<1>7. PtyMode(args, i) =
        IF i \in Flags(args) /\ arg \in {"-l", "-L"} THEN arg ELSE PtyMode(args, i - 1)
  <2>. DEFINE at == PtyFlags(args) \cap 1 .. i
  <2>1. i \in PtyFlags(args) <=> i \in Flags(args) /\ arg \in {"-l", "-L"}
    BY DEF PtyFlags
  <2>2. \A j \in PtyFlags(args) : j \in 1 .. i <=> j \in 1 .. i - 1 \/ j = i
    BY <1>2
  <2>3. CASE i \in PtyFlags(args)
    <3>1. at \subseteq Nat /\ i \in at /\ \A j \in at : j <= i
      BY <1>1, <2>3
    <3>2. Max(at) = i
      BY <3>1, MaxIs, Zenon
    <3>. QED BY <2>1, <2>3, <3>1, <3>2, Zenon DEF PtyMode
  <2>4. CASE i \notin PtyFlags(args)
    <3>1. at = PtyFlags(args) \cap 1 .. i - 1
      BY <2>2, <2>4, Zenon
    <3>. QED BY <2>1, <2>4, <3>1, Zenon DEF PtyMode
  <2>. QED BY <2>3, <2>4
<1>8. (Cut(args) <= i) = (Cut(args) <= i - 1 \/ arg = "--")
  BY Sorts, CutIsFirst
<1>9. CASE Unknown(args, i - 1)
  <2>1. State(args, i - 1).unknown
    BY <1>9 DEF LoopInv
  <2>2. State(args, i) = State(args, i - 1)
    BY <1>1, <2>1, Zenon DEF ParseArg
  <2>. QED BY <1>4, <1>9, <2>1, <2>2, Zenon DEF LoopInv
<1>10. CASE ~Unknown(args, i - 1)
  <2>1. State(args, i - 1) = After(args, i - 1)
    BY <1>10, Zenon DEF LoopInv
  <2>2. ~After(args, i - 1).unknown /\ After(args, i - 1).no_more_flags = (Cut(args) <= i - 1)
    BY DEF After
  <2>3. CASE i \in Others(args)
    <3>1. Cut(args) <= i - 1 \/ arg \notin Dashed
      BY <2>3, Sorts, Zenon
    <3>2. i \notin Flags(args)
      BY <3>1, Sorts, Zenon
    <3>3. State(args, i) = [After(args, i - 1) EXCEPT !.positional = Append(@, arg)]
      BY <1>1, <2>1, <2>2, <3>1, Zenon DEF ParseArg
    <3>4. arg = "--" => Cut(args) <= i - 1
      BY <3>1 DEF Dashed, Known
    <3>5. /\ \A o : Seen(args, i, o) = Seen(args, i - 1, o)
          /\ PtyMode(args, i) = PtyMode(args, i - 1)
          /\ (Cut(args) <= i) = (Cut(args) <= i - 1)
          /\ Words(args, Others(args) \cap 1 .. i) = Append(Words(args, Others(args) \cap 1 .. i - 1), arg)
      <4>1. \A o : Seen(args, i, o) = Seen(args, i - 1, o)
        BY <1>5, <3>2, Zenon DEF Seen
      <4>2. PtyMode(args, i) = PtyMode(args, i - 1)
        BY <1>7, <3>2, Zenon
      <4>3. (Cut(args) <= i) = (Cut(args) <= i - 1)
        BY <1>8, <3>4
      <4>4. Words(args, Others(args) \cap 1 .. i) = Append(Words(args, Others(args) \cap 1 .. i - 1), arg)
        BY <1>6, <2>3, Zenon
      <4>. QED BY <4>1, <4>2, <4>3, <4>4
    <3>6. State(args, i) = After(args, i)
      BY <3>3, <3>5, PushFields, Zenon DEF After
    <3>. QED BY <1>4, <1>10, <3>2, <3>6, Zenon DEF LoopInv
  <2>4. CASE i \notin Others(args)
    <3>1. ~(Cut(args) <= i - 1) /\ arg \in Dashed
      BY <2>4, Sorts, Zenon
    <3>2. State(args, i) = Noted(After(args, i - 1), arg)
      BY <1>1, <2>1, <2>2, <3>1, Zenon DEF ParseArg
    <3>3. i \in Flags(args) <=> arg # "--"
      <4>1. i \in Flags(args) <=> ~(Cut(args) <= i - 1) /\ arg \in Dashed \ {"--"}
        BY Sorts, Zenon
      <4>. QED BY <3>1, <4>1, Zenon
    <3>4. Noted(After(args, i - 1), arg)
          = [verbose |-> (Seen(args, i - 1, "-V") \/ arg = "-V"),
             force_stdio |-> (Seen(args, i - 1, "-s") \/ arg = "-s"),
             steal_tty |-> (Seen(args, i - 1, "-T") \/ arg = "-T"),
             pty_mode |-> IF arg \in {"-l", "-L"} THEN arg ELSE PtyMode(args, i - 1),
             positional |-> Words(args, Others(args) \cap 1 .. i - 1),
             no_more_flags |-> (Cut(args) <= i - 1 \/ arg = "--"),
             unknown |-> (arg \notin Known)]
      BY Zenon DEF Noted, After
    <3>5. CASE arg \notin Known
      <4>1. State(args, i).unknown
        <5>1. Noted(After(args, i - 1), arg).unknown = (arg \notin Known)
          BY Zenon DEF Noted
        <5>. QED BY <3>2, <3>5, <5>1, Zenon
      <4>2. Unknown(args, i)
        BY <1>4, <3>3, <3>5 DEF Known
      <4>. QED BY <4>1, <4>2, Zenon DEF LoopInv
    <3>6. CASE arg \in Known
      <4>1. \A o : o # "--" => Seen(args, i, o) = (Seen(args, i - 1, o) \/ arg = o)
        BY <1>5, <3>3, Zenon
      <4>2. /\ Seen(args, i, "-V") = (Seen(args, i - 1, "-V") \/ arg = "-V")
            /\ Seen(args, i, "-s") = (Seen(args, i - 1, "-s") \/ arg = "-s")
            /\ Seen(args, i, "-T") = (Seen(args, i - 1, "-T") \/ arg = "-T")
        <5>1. "-V" # "--" /\ "-s" # "--" /\ "-T" # "--"
          OBVIOUS
        <5>. QED BY <4>1, <5>1, Zenon
      <4>3. PtyMode(args, i) = IF arg \in {"-l", "-L"} THEN arg ELSE PtyMode(args, i - 1)
        <5>1. arg \in {"-l", "-L"} => arg # "--"
          OBVIOUS
        <5>. QED BY <1>7, <3>3, <5>1, Zenon
      <4>4. Words(args, Others(args) \cap 1 .. i) = Words(args, Others(args) \cap 1 .. i - 1)
        BY <1>6, <2>4, Zenon
      <4>5. (arg \notin Known) = FALSE
        BY <3>6
      <4>6. State(args, i) = After(args, i)
        BY <1>8, <3>2, <3>4, <4>2, <4>3, <4>4, <4>5, Zenon DEF After
      <4>. QED BY <1>4, <1>10, <3>6, <4>6, Zenon DEF LoopInv
    <3>. QED BY <3>5, <3>6
  <2>. QED BY <2>3, <2>4
<1>. QED BY <1>9, <1>10

LEMMA LoopEnd ==
  ASSUME NEW T, NEW args \in Seq(T)
  PROVE  LoopInv(args, Len(args))
<1>. DEFINE S == {k \in Nat : k <= Len(args) => LoopInv(args, k)}
<1>1. 0 \in S
  BY LoopStart
<1>2. ASSUME NEW k \in Nat, k \in S PROVE k + 1 \in S
  <2>1. CASE k + 1 <= Len(args)
    <3>1. k + 1 \in 1 .. Len(args) /\ (k + 1) - 1 = k /\ k <= Len(args)
      BY <2>1
    <3>2. LoopInv(args, (k + 1) - 1)
      BY <1>2, <3>1
    <3>. QED BY <3>1, <3>2, LoopStep
  <2>2. CASE ~(k + 1 <= Len(args))
    BY <2>2
  <2>. QED BY <2>1, <2>2
<1>3. Len(args) \in S
  <2>1. Len(args) \in Nat
    OBVIOUS
  <2>. HIDE DEF S
  <2>. QED BY <1>1, <1>2, <2>1, EveryNumber
<1>. QED BY <1>3

-----------------------------------------------------------------------------
(* Reading the arguments one after the other, whatever their number and    *)
(* the words, is the same as reading their positions: nothing but the      *)
(* first "--", the flags before it and the last of -l and -L matters, and  *)
(* no other word is dropped or moved (parse).                              *)
THEOREM ParseMeans ==
  ASSUME NEW T, NEW args \in Seq(T)
  PROVE  parse(args) = Meaning(args)
<1>. DEFINE n     == Len(args)
            o     == FoldLeft(ParseArg, Begin, args)
            opts  == Options(args)
            words == Words(args, Others(args))
            pty   == opts \cap {"-l", "-L"} # {}
<1>1. /\ n \in Nat /\ Flags(args) \subseteq 1 .. n /\ Others(args) \subseteq 1 .. n
      /\ PtyFlags(args) \subseteq 1 .. n /\ PtyFlags(args) \subseteq 0 .. n
  BY DEF Flags, Others, PtyFlags
<1>2. \A j \in Flags(args) : j <= n
  BY <1>1
<1>3. \A x : Seen(args, n, x) = (x \in opts)
  <2>1. \A x : Seen(args, n, x) <=> x \in opts
    BY <1>2, Zenon DEF Seen, Options
  <2>2. \A x : Seen(args, n, x) \in BOOLEAN
    BY Zenon DEF Seen
  <2>. QED BY <2>1, <2>2
<1>4. Unknown(args, n) <=> opts \ Known # {}
  BY <1>2, Zenon DEF Unknown, Options
<1>5. Others(args) \cap 1 .. n = Others(args) /\ PtyFlags(args) \cap 1 .. n = PtyFlags(args)
  BY <1>1, Zenon
<1>6. pty <=> PtyFlags(args) # {}
  BY Zenon DEF PtyFlags, Options
<1>7. pty => args[Max(PtyFlags(args))] \in {"-l", "-L"}
  <2>1. pty => Max(PtyFlags(args)) \in PtyFlags(args)
    BY <1>1, <1>6, MaxIsElement, Zenon
  <2>. QED BY <2>1, Zenon DEF PtyFlags
<1>8. o = State(args, n) /\ LoopInv(args, n)
  BY LoopSteps, LoopEnd, Zenon
<1>9. CASE Unknown(args, n)
  <2>1. o.unknown
    BY <1>8, <1>9, Zenon DEF LoopInv
  <2>2. parse(args) = Err
    BY <2>1, Zenon DEF parse
  <2>3. Meaning(args) = Err
    BY <1>4, <1>9, Zenon DEF Meaning
  <2>. QED BY <2>2, <2>3
<1>10. CASE ~Unknown(args, n)
  <2>1. o = After(args, n)
    BY <1>8, <1>10, Zenon DEF LoopInv
  <2>2. /\ o.verbose = ("-V" \in opts) /\ o.force_stdio = ("-s" \in opts)
        /\ o.steal_tty = ("-T" \in opts) /\ ~o.unknown
        /\ o.positional = words
        /\ o.pty_mode = IF pty THEN args[Max(PtyFlags(args))] ELSE "none"
    <3>1. /\ o.verbose = Seen(args, n, "-V") /\ o.force_stdio = Seen(args, n, "-s")
          /\ o.steal_tty = Seen(args, n, "-T") /\ ~o.unknown
          /\ o.positional = Words(args, Others(args) \cap 1 .. n)
          /\ o.pty_mode = PtyMode(args, n)
      BY <2>1 DEF After
    <3>2. PtyMode(args, n) = IF pty THEN args[Max(PtyFlags(args))] ELSE "none"
      BY <1>5, <1>6, Zenon DEF PtyMode
    <3>. QED BY <1>3, <1>5, <3>1, <3>2, Zenon
  <2>3. opts \ Known = {}
    BY <1>4, <1>10
  <2>4. CASE pty
    <3>1. o.pty_mode # "none" /\ o.pty_mode = args[Max(PtyFlags(args))]
      BY <1>7, <2>2, <2>4
    <3>2. parse(args) = Pty(o)
      BY <2>2, <3>1, Zenon DEF parse
    <3>3. CASE {"-T", "-s"} \cap opts # {}
      <4>1. Pty(o) = Err
        BY <2>2, <3>3, Zenon DEF Pty
      <4>2. Meaning(args) = Err
        BY <2>4, <3>3, Zenon DEF Meaning
      <4>. QED BY <3>2, <4>1, <4>2
    <3>4. CASE {"-T", "-s"} \cap opts = {}
      <4>1. Pty(o) = [mode |-> "proxy", login |-> (args[Max(PtyFlags(args))] = "-L"),
                      command |-> words, verbose |-> ("-V" \in opts)]
        BY <2>2, <3>1, <3>4, Zenon DEF Pty
      <4>2. Meaning(args) = [mode |-> "proxy", login |-> (args[Max(PtyFlags(args))] = "-L"),
                             command |-> words, verbose |-> ("-V" \in opts)]
        BY <2>3, <2>4, <3>4, Zenon DEF Meaning
      <4>. QED BY <3>2, <4>1, <4>2
    <3>. QED BY <3>3, <3>4
  <2>5. CASE ~pty /\ "-T" \in opts
    <3>1. parse(args) = StealTty(o)
      BY <2>2, <2>5, Zenon DEF parse
    <3>2. CASE "-s" \in opts \/ ~HasPid(words)
      <4>1. StealTty(o) = Err
        BY <2>2, <3>2, Zenon DEF StealTty
      <4>2. Meaning(args) = Err
        BY <2>5, <3>2, Zenon DEF Meaning
      <4>. QED BY <3>1, <4>1, <4>2
    <3>3. CASE ~("-s" \in opts \/ ~HasPid(words))
      <4>1. StealTty(o) = [mode |-> "steal", verbose |-> ("-V" \in opts)]
        BY <2>2, <3>3, Zenon DEF StealTty
      <4>2. Meaning(args) = [mode |-> "steal", verbose |-> ("-V" \in opts)]
        BY <2>3, <2>5, <3>3, Zenon DEF Meaning
      <4>. QED BY <3>1, <4>1, <4>2
    <3>. QED BY <3>2, <3>3
  <2>6. CASE ~pty /\ "-T" \notin opts
    <3>1. parse(args) = Attach(o)
      BY <2>2, <2>6, Zenon DEF parse
    <3>. DEFINE long == Len(words) > 2 \/ (Len(words) = 2 /\ words[2] # "streams")
    <3>2. CASE ~HasPid(words) \/ long
      <4>1. Attach(o) = Err
        BY <2>2, <3>2, Zenon DEF Attach
      <4>2. Meaning(args) = Err
        BY <2>6, <3>2, Zenon DEF Meaning
      <4>. QED BY <3>1, <4>1, <4>2
    <3>3. CASE ~(~HasPid(words) \/ long)
      <4>1. Attach(o) = [mode |-> "attach", streams |-> Streams(words),
                         force_stdio |-> ("-s" \in opts), verbose |-> ("-V" \in opts)]
        BY <2>2, <3>3, Zenon DEF Attach
      <4>2. Meaning(args) = [mode |-> "attach", streams |-> Streams(words),
                             force_stdio |-> ("-s" \in opts), verbose |-> ("-V" \in opts)]
        BY <2>3, <2>6, <3>3, Zenon DEF Meaning
      <4>. QED BY <3>1, <4>1, <4>2
    <3>. QED BY <3>2, <3>3
  <2>. QED BY <2>4, <2>5, <2>6
<1>. QED BY <1>9, <1>10
=============================================================================
