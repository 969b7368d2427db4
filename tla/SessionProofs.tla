---------------------------- MODULE SessionProofs ----------------------------
(***************************************************************************)
(* Theorems about Session, for every number of threads, whichever of them  *)
(* get signals: the borrowed thread is alone, nobody stays traced, and no  *)
(* signal goes astray.                                                     *)
(***************************************************************************)
EXTENDS Session, TLAPS

-----------------------------------------------------------------------------
(***************************************************************************)
(* The inductive invariant, in parts.                                      *)
(***************************************************************************)

\* A thread is in hand.
Chosen == pc \in {"wait", "giveup", "inject", "injecting"} => cur \in Threads

Quiet == Stops \cup {"dead", "gone"}

\* The threads that have answered the interrupt stand still, but for the one
\* that is tried or borrowed and those that were given up.
Still ==
  /\ pc = "ack" => \A t \in attached \ todo : at[t] \in Quiet
  /\ pc \in {"options", "try"} => \A t \in attached \ gaveUp : at[t] \in Quiet
  /\ pc \in {"wait", "giveup", "inject", "injecting"} =>
       \A t \in attached \ (gaveUp \cup {cur}) : at[t] \in Quiet
  /\ pc = "inject" => at[cur] \in {"syscall", "dead", "gone"}

\* The session knows its tracees, and detaches those that live.
Known ==
  /\ \A t \in traced : at[t] # "unborn"
  /\ pc \notin {"detach", "proxy", "exit", "gone"} => traced \subseteq attached
  /\ pc = "detach" /\ ~failed =>
       \A t \in (traced \cap alive) \ gaveUp : t \in todo /\ at[t] \in Stops
  /\ pc = "proxy" => traced \cap alive \subseteq gaveUp

\* The signal that is kept was swallowed from the thread in hand.
Apart ==
  /\ kept \in {NoThread, cur}
  /\ \A t \in Threads :
       got[t] \subseteq {t} \cup (IF pc \in {"detach", "proxy", "exit", "gone"}
                                 THEN {kept} \cap {cur} ELSE {})

IInv == TypeOK /\ Chosen /\ Still /\ Known /\ Apart

-----------------------------------------------------------------------------
(***************************************************************************)
(* The steps, and type correctness.                                        *)
(***************************************************************************)

LEMMA StepCases ==
  ASSUME [Next]_vars
  PROVE  \/ UNCHANGED vars
         \/ List
         \/ \E t \in Threads : SeizeThread(t)
         \/ \E t \in Threads : SeizeVanished(t)
         \/ SeizeDone
         \/ \E t \in Threads : InterruptThread(t)
         \/ \E t \in Threads : AckStop(t)
         \/ \E t \in Threads : AckExited(t)
         \/ \E t \in Threads : AckTimeout(t)
         \/ AckDone
         \/ \E t \in Threads : Options(t)
         \/ \E t \in Threads : Try(t)
         \/ TakeSignal("wait")
         \/ TakeTrap("wait")
         \/ Capture
         \/ WaitExited
         \/ Timeout
         \/ GiveUp
         \/ NoneFound
         \/ InjectCall
         \/ InjectDone
         \/ InjectExited
         \/ TakeSignal("injecting")
         \/ TakeTrap("injecting")
         \/ Finish
         \/ \E t \in Threads : DetachThread(t)
         \/ DetachDone
         \/ ProxyEnds
         \/ Exit
         \/ \E t \in Threads : KTrap(t)
         \/ \E t \in Threads : KSend(t)
         \/ \E t \in Threads : KSignal(t)
         \/ \E t \in Threads : KSyscall(t)
         \/ \E t \in Threads : KBlock(t)
         \/ \E t \in Threads : KWake(t)
         \/ \E t \in Threads : KCreate(t)
         \/ \E t \in Threads : KExit(t)
<1>1. CASE Tracer
  BY <1>1 DEF Tracer, AttachAll, SeizeOne, Inject, Release
<1>2. CASE \E t \in Threads : Kernel(t)
  BY <1>2 DEF Kernel, Answer
<1>3. CASE Terminated
  BY <1>3 DEF Terminated
<1>. QED BY <1>1, <1>2, <1>3 DEF Next

LEMMA TypeInit == Init => TypeOK
<1>. SUFFICES ASSUME Init PROVE TypeOK
  OBVIOUS
<1>1. at \in [Threads -> Live \cup {"unborn", "dead", "gone"}]
  BY DEF Init, Live
<1>2. calls \in 0 .. MaxCalls
  BY MaxCallsAssumption DEF Init
<1>. QED BY <1>1, <1>2, ThreadsAssumption DEF Init, TypeOK, Pcs

\* Every step keeps the types,
LEMMA TypeStep == TypeOK /\ Chosen /\ [Next]_vars => TypeOK'
<1>. SUFFICES ASSUME TypeOK /\ Chosen, [Next]_vars PROVE TypeOK'
  OBVIOUS
<1>1. CASE UNCHANGED vars
  BY <1>1 DEF TypeOK, Chosen, Pcs, vars, kernel, tracer
<1>2. CASE List
  BY <1>2, ThreadsAssumption DEF List, Move, kernel, tracer, Stops, Live, TypeOK, Chosen, Pcs, alive
<1>3. CASE \E t \in Threads : SeizeThread(t)
  BY <1>3, ThreadsAssumption DEF SeizeThread, Turn, kernel, tracer, Stops, Live, TypeOK, Chosen, Pcs
<1>4. CASE \E t \in Threads : SeizeVanished(t)
  BY <1>4, ThreadsAssumption DEF SeizeVanished, Turn, Fail, kernel, tracer, Stops, Live, TypeOK, Chosen, Pcs
<1>5. CASE SeizeDone
  BY <1>5, ThreadsAssumption DEF SeizeDone, Move, kernel, tracer, Stops, Live, TypeOK, Chosen, Pcs
<1>6. CASE \E t \in Threads : InterruptThread(t)
  BY <1>6, ThreadsAssumption DEF InterruptThread, Turn, Move, kernel, tracer, Stops, Live, TypeOK, Chosen, Pcs, alive
<1>7. CASE \E t \in Threads : AckStop(t)
  BY <1>7, ThreadsAssumption DEF AckStop, Turn, kernel, tracer, Stops, Live, TypeOK, Chosen, Pcs
<1>8. CASE \E t \in Threads : AckExited(t)
  BY <1>8, ThreadsAssumption DEF AckExited, Turn, Reapable, kernel, tracer, Stops, Live, TypeOK, Chosen, Pcs
<1>9. CASE \E t \in Threads : AckTimeout(t)
  BY <1>9, ThreadsAssumption DEF AckTimeout, Turn, Fail, Reapable, kernel, tracer, Stops, Live, TypeOK, Chosen, Pcs
<1>10. CASE AckDone
  BY <1>10, ThreadsAssumption DEF AckDone, Fail, Move, kernel, tracer, Stops, Live, TypeOK, Chosen, Pcs
<1>11. CASE \E t \in Threads : Options(t)
  BY <1>11, ThreadsAssumption DEF Options, Turn, Fail, Move, kernel, tracer, Stops, Live, TypeOK, Chosen, Pcs
<1>12. CASE \E t \in Threads : Try(t)
  BY <1>12, ThreadsAssumption DEF Try, Turn, Fail, Move, Resume, kernel, tracer, Stops, Live, TypeOK, Chosen, Pcs
<1>13. CASE TakeSignal("wait")
  BY <1>13, ThreadsAssumption DEF TakeSignal, Resume, kernel, tracer, Stops, Live, TypeOK, Chosen, Pcs
<1>14. CASE TakeTrap("wait")
  BY <1>14, ThreadsAssumption DEF TakeTrap, Resume, kernel, tracer, Stops, Live, TypeOK, Chosen, Pcs
<1>15. CASE Capture
  BY <1>15, ThreadsAssumption DEF Capture, Move, kernel, tracer, Stops, Live, TypeOK, Chosen, Pcs
<1>16. CASE WaitExited
  BY <1>16, ThreadsAssumption DEF WaitExited, Fail, Reapable, kernel, tracer, Stops, Live, TypeOK, Chosen, Pcs
<1>17. CASE Timeout
  BY <1>17, ThreadsAssumption DEF Timeout, kernel, tracer, Stops, Live, TypeOK, Chosen, Pcs, alive
<1>18. CASE GiveUp
  <2>1. cur \in Threads /\ pc' = "try" /\ gaveUp' = gaveUp \cup {cur}
        /\ UNCHANGED <<trapPending, pending, unsent, todo, attached, cur, kept, calls, failed>>
    BY <1>18 DEF GiveUp, Chosen
  <2>2. at' \in [Threads -> Live \cup {"unborn", "dead", "gone"}]
    BY <1>18, <2>1 DEF GiveUp, Resume, TypeOK, Live, Stops
  <2>3. traced' \subseteq Threads /\ tracing' \subseteq Threads
    BY <1>18, <2>1 DEF GiveUp, Resume, TypeOK
  <2>4. got' \in [Threads -> SUBSET Threads]
    <3>1. Delivers(cur, kept) => kept \in Threads
      BY DEF Delivers, TypeOK
    <3>. QED BY <1>18, <2>1, <3>1 DEF GiveUp, Deliver, TypeOK
  <2>. QED BY <2>1, <2>2, <2>3, <2>4 DEF TypeOK, Pcs
<1>19. CASE NoneFound
  BY <1>19, ThreadsAssumption DEF NoneFound, Fail, kernel, tracer, Stops, Live, TypeOK, Chosen, Pcs
<1>20. CASE InjectCall
  <2>1. calls' = calls + 1 /\ calls < MaxCalls
    BY <1>20 DEF InjectCall
  <2>2. calls' \in 0 .. MaxCalls
    BY <2>1, MaxCallsAssumption DEF TypeOK
  <2>3. cur \in Threads /\ at' = [at EXCEPT ![cur] = "run"] /\ tracing' = tracing \cup {cur}
        /\ pc' = "injecting"
        /\ UNCHANGED <<traced, trapPending, pending, got, unsent, todo, attached, cur,
                       kept, failed, gaveUp>>
    BY <1>20 DEF InjectCall, Resume, Chosen
  <2>. QED BY <2>2, <2>3 DEF TypeOK, Pcs, Live, Stops
<1>21. CASE InjectDone
  BY <1>21, ThreadsAssumption DEF InjectDone, kernel, tracer, Stops, Live, TypeOK, Chosen, Pcs
<1>22. CASE InjectExited
  BY <1>22, ThreadsAssumption DEF InjectExited, Move, Reapable, kernel, tracer, Stops, Live, TypeOK, Chosen, Pcs
<1>23. CASE TakeSignal("injecting")
  BY <1>23, ThreadsAssumption DEF TakeSignal, Resume, kernel, tracer, Stops, Live, TypeOK, Chosen, Pcs
<1>24. CASE TakeTrap("injecting")
  BY <1>24, ThreadsAssumption DEF TakeTrap, Resume, kernel, tracer, Stops, Live, TypeOK, Chosen, Pcs
<1>25. CASE Finish
  BY <1>25, ThreadsAssumption DEF Finish, Move, kernel, tracer, Stops, Live, TypeOK, Chosen, Pcs
<1>26. CASE \E t \in Threads : DetachThread(t)
  BY <1>26, ThreadsAssumption DEF DetachThread, Turn, Deliver, Delivers, kernel, tracer, Stops, Live, TypeOK, Chosen, Pcs
<1>27. CASE DetachDone
  BY <1>27, ThreadsAssumption DEF DetachDone, kernel, tracer, Stops, Live, TypeOK, Chosen, Pcs
<1>28. CASE ProxyEnds
  BY <1>28, ThreadsAssumption DEF ProxyEnds, kernel, tracer, Stops, Live, TypeOK, Chosen, Pcs
<1>29. CASE Exit
  BY <1>29, ThreadsAssumption DEF Exit, kernel, tracer, Stops, Live, TypeOK, Chosen, Pcs
<1>30. CASE \E t \in Threads : KTrap(t)
  BY <1>30, ThreadsAssumption DEF KTrap, kernel, tracer, Stops, Live, TypeOK, Chosen, Pcs
<1>31. CASE \E t \in Threads : KSend(t)
  BY <1>31, ThreadsAssumption DEF KSend, kernel, tracer, Stops, Live, TypeOK, Chosen, Pcs
<1>32. CASE \E t \in Threads : KSignal(t)
  BY <1>32, ThreadsAssumption DEF KSignal, kernel, tracer, Stops, Live, TypeOK, Chosen, Pcs
<1>33. CASE \E t \in Threads : KSyscall(t)
  BY <1>33, ThreadsAssumption DEF KSyscall, kernel, tracer, Stops, Live, TypeOK, Chosen, Pcs
<1>34. CASE \E t \in Threads : KBlock(t)
  BY <1>34, ThreadsAssumption DEF KBlock, kernel, tracer, Stops, Live, TypeOK, Chosen, Pcs
<1>35. CASE \E t \in Threads : KWake(t)
  BY <1>35, ThreadsAssumption DEF KWake, kernel, tracer, Stops, Live, TypeOK, Chosen, Pcs
<1>36. CASE \E t \in Threads : KCreate(t)
  BY <1>36, ThreadsAssumption DEF KCreate, kernel, tracer, Stops, Live, TypeOK, Chosen, Pcs
<1>37. CASE \E t \in Threads : KExit(t)
  BY <1>37, ThreadsAssumption DEF KExit, kernel, tracer, Stops, Live, TypeOK, Chosen, Pcs
<1>. QED BY StepCases, <1>1, <1>2, <1>3, <1>4, <1>5, <1>6, <1>7, <1>8, <1>9, <1>10, <1>11, <1>12, <1>13, <1>14, <1>15, <1>16, <1>17, <1>18, <1>19, <1>20, <1>21, <1>22, <1>23, <1>24, <1>25, <1>26, <1>27, <1>28, <1>29, <1>30, <1>31, <1>32, <1>33, <1>34, <1>35, <1>36, <1>37

\* and a thread that was chosen stays so.
LEMMA ChosenStep == TypeOK /\ Chosen /\ [Next]_vars => Chosen'
<1>. SUFFICES ASSUME TypeOK /\ Chosen, [Next]_vars PROVE Chosen'
  OBVIOUS
<1>1. CASE UNCHANGED vars
  BY <1>1 DEF TypeOK, Chosen, vars, kernel, tracer
<1>2. CASE List
  BY <1>2, ThreadsAssumption DEF List, Move, kernel, tracer, Stops, Live, TypeOK, Chosen
<1>3. CASE \E t \in Threads : SeizeThread(t)
  BY <1>3, ThreadsAssumption DEF SeizeThread, Turn, kernel, tracer, Stops, Live, TypeOK, Chosen
<1>4. CASE \E t \in Threads : SeizeVanished(t)
  BY <1>4, ThreadsAssumption DEF SeizeVanished, Turn, Fail, kernel, tracer, Stops, Live, TypeOK, Chosen
<1>5. CASE SeizeDone
  BY <1>5, ThreadsAssumption DEF SeizeDone, Move, kernel, tracer, Stops, Live, TypeOK, Chosen
<1>6. CASE \E t \in Threads : InterruptThread(t)
  BY <1>6, ThreadsAssumption DEF InterruptThread, Turn, Move, kernel, tracer, Stops, Live, TypeOK, Chosen
<1>7. CASE \E t \in Threads : AckStop(t)
  BY <1>7, ThreadsAssumption DEF AckStop, Turn, kernel, tracer, Stops, Live, TypeOK, Chosen
<1>8. CASE \E t \in Threads : AckExited(t)
  BY <1>8, ThreadsAssumption DEF AckExited, Turn, Reapable, kernel, tracer, Stops, Live, TypeOK, Chosen
<1>9. CASE \E t \in Threads : AckTimeout(t)
  BY <1>9, ThreadsAssumption DEF AckTimeout, Turn, Fail, Reapable, kernel, tracer, Stops, Live, TypeOK, Chosen
<1>10. CASE AckDone
  BY <1>10, ThreadsAssumption DEF AckDone, Fail, Move, kernel, tracer, Stops, Live, TypeOK, Chosen
<1>11. CASE \E t \in Threads : Options(t)
  BY <1>11, ThreadsAssumption DEF Options, Turn, Fail, Move, kernel, tracer, Stops, Live, TypeOK, Chosen
<1>12. CASE \E t \in Threads : Try(t)
  BY <1>12, ThreadsAssumption DEF Try, Turn, Fail, Move, Resume, kernel, tracer, Stops, Live, TypeOK, Chosen
<1>13. CASE TakeSignal("wait")
  BY <1>13, ThreadsAssumption DEF TakeSignal, Resume, kernel, tracer, Stops, Live, TypeOK, Chosen
<1>14. CASE TakeTrap("wait")
  BY <1>14, ThreadsAssumption DEF TakeTrap, Resume, kernel, tracer, Stops, Live, TypeOK, Chosen
<1>15. CASE Capture
  BY <1>15, ThreadsAssumption DEF Capture, Move, kernel, tracer, Stops, Live, TypeOK, Chosen
<1>16. CASE WaitExited
  BY <1>16, ThreadsAssumption DEF WaitExited, Fail, Reapable, kernel, tracer, Stops, Live, TypeOK, Chosen
<1>17. CASE Timeout
  BY <1>17, ThreadsAssumption DEF Timeout, kernel, tracer, Stops, Live, TypeOK, Chosen
<1>18. CASE GiveUp
  BY <1>18, ThreadsAssumption DEF GiveUp, Resume, Deliver, Delivers, Reapable, kernel, tracer, Stops, Live, TypeOK, Chosen
<1>19. CASE NoneFound
  BY <1>19, ThreadsAssumption DEF NoneFound, Fail, kernel, tracer, Stops, Live, TypeOK, Chosen
<1>20. CASE InjectCall
  BY <1>20, ThreadsAssumption DEF InjectCall, Resume, kernel, tracer, Stops, Live, TypeOK, Chosen
<1>21. CASE InjectDone
  BY <1>21, ThreadsAssumption DEF InjectDone, kernel, tracer, Stops, Live, TypeOK, Chosen
<1>22. CASE InjectExited
  BY <1>22, ThreadsAssumption DEF InjectExited, Move, Reapable, kernel, tracer, Stops, Live, TypeOK, Chosen
<1>23. CASE TakeSignal("injecting")
  BY <1>23, ThreadsAssumption DEF TakeSignal, Resume, kernel, tracer, Stops, Live, TypeOK, Chosen
<1>24. CASE TakeTrap("injecting")
  BY <1>24, ThreadsAssumption DEF TakeTrap, Resume, kernel, tracer, Stops, Live, TypeOK, Chosen
<1>25. CASE Finish
  BY <1>25, ThreadsAssumption DEF Finish, Move, kernel, tracer, Stops, Live, TypeOK, Chosen
<1>26. CASE \E t \in Threads : DetachThread(t)
  BY <1>26, ThreadsAssumption DEF DetachThread, Turn, Deliver, Delivers, kernel, tracer, Stops, Live, TypeOK, Chosen
<1>27. CASE DetachDone
  BY <1>27, ThreadsAssumption DEF DetachDone, kernel, tracer, Stops, Live, TypeOK, Chosen
<1>28. CASE ProxyEnds
  BY <1>28, ThreadsAssumption DEF ProxyEnds, kernel, tracer, Stops, Live, TypeOK, Chosen
<1>29. CASE Exit
  BY <1>29, ThreadsAssumption DEF Exit, kernel, tracer, Stops, Live, TypeOK, Chosen
<1>30. CASE \E t \in Threads : KTrap(t)
  BY <1>30, ThreadsAssumption DEF KTrap, kernel, tracer, Stops, Live, TypeOK, Chosen
<1>31. CASE \E t \in Threads : KSend(t)
  BY <1>31, ThreadsAssumption DEF KSend, kernel, tracer, Stops, Live, TypeOK, Chosen
<1>32. CASE \E t \in Threads : KSignal(t)
  BY <1>32, ThreadsAssumption DEF KSignal, kernel, tracer, Stops, Live, TypeOK, Chosen
<1>33. CASE \E t \in Threads : KSyscall(t)
  BY <1>33, ThreadsAssumption DEF KSyscall, kernel, tracer, Stops, Live, TypeOK, Chosen
<1>34. CASE \E t \in Threads : KBlock(t)
  BY <1>34, ThreadsAssumption DEF KBlock, kernel, tracer, Stops, Live, TypeOK, Chosen
<1>35. CASE \E t \in Threads : KWake(t)
  BY <1>35, ThreadsAssumption DEF KWake, kernel, tracer, Stops, Live, TypeOK, Chosen
<1>36. CASE \E t \in Threads : KCreate(t)
  BY <1>36, ThreadsAssumption DEF KCreate, kernel, tracer, Stops, Live, TypeOK, Chosen
<1>37. CASE \E t \in Threads : KExit(t)
  BY <1>37, ThreadsAssumption DEF KExit, kernel, tracer, Stops, Live, TypeOK, Chosen
<1>. QED BY StepCases, <1>1, <1>2, <1>3, <1>4, <1>5, <1>6, <1>7, <1>8, <1>9, <1>10, <1>11, <1>12, <1>13, <1>14, <1>15, <1>16, <1>17, <1>18, <1>19, <1>20, <1>21, <1>22, <1>23, <1>24, <1>25, <1>26, <1>27, <1>28, <1>29, <1>30, <1>31, <1>32, <1>33, <1>34, <1>35, <1>36, <1>37

-----------------------------------------------------------------------------
(***************************************************************************)
(* The invariant is inductive.                                             *)
(***************************************************************************)

\* Who stands still, stays so.
LEMMA StillStep == IInv /\ [Next]_vars => Still'
<1>. SUFFICES ASSUME IInv, [Next]_vars PROVE Still'
  OBVIOUS
<1>1. CASE UNCHANGED vars
  BY <1>1 DEF IInv, TypeOK, Still, Quiet, vars, kernel, tracer
<1>2. CASE List
  BY <1>2 DEF List, Move, kernel, tracer, Stops, Live, IInv, TypeOK, Still, Quiet
<1>3. CASE \E t \in Threads : SeizeThread(t)
  BY <1>3 DEF SeizeThread, Turn, kernel, tracer, Stops, Live, IInv, TypeOK, Still, Quiet
<1>4. CASE \E t \in Threads : SeizeVanished(t)
  BY <1>4 DEF SeizeVanished, Turn, Fail, kernel, tracer, Stops, Live, IInv, TypeOK, Still, Quiet
<1>5. CASE SeizeDone
  BY <1>5 DEF SeizeDone, Move, kernel, tracer, Stops, Live, IInv, TypeOK, Still, Quiet
<1>6. CASE \E t \in Threads : InterruptThread(t)
  BY <1>6 DEF InterruptThread, Turn, Move, kernel, tracer, Stops, Live, IInv, TypeOK, Still, Quiet
<1>7. CASE \E t \in Threads : AckStop(t)
  BY <1>7 DEF AckStop, Turn, kernel, tracer, Stops, Live, IInv, TypeOK, Still, Quiet
<1>8. CASE \E t \in Threads : AckExited(t)
  BY <1>8 DEF AckExited, Turn, Reapable, kernel, tracer, Stops, Live, IInv, TypeOK, Still, Quiet
<1>9. CASE \E t \in Threads : AckTimeout(t)
  BY <1>9 DEF AckTimeout, Turn, Fail, Reapable, kernel, tracer, Stops, Live, IInv, TypeOK, Still, Quiet
<1>10. CASE AckDone
  BY <1>10 DEF AckDone, Fail, Move, kernel, tracer, Stops, Live, IInv, TypeOK, Still, Quiet
<1>11. CASE \E t \in Threads : Options(t)
  BY <1>11 DEF Options, Turn, Fail, Move, kernel, tracer, Stops, Live, IInv, TypeOK, Still, Quiet
<1>12. CASE \E t \in Threads : Try(t)
  BY <1>12 DEF Try, Turn, Fail, Move, Resume, kernel, tracer, Stops, Live, IInv, TypeOK, Still, Quiet
<1>13. CASE TakeSignal("wait")
  BY <1>13 DEF TakeSignal, Resume, kernel, tracer, Stops, Live, IInv, TypeOK, Still, Quiet
<1>14. CASE TakeTrap("wait")
  BY <1>14 DEF TakeTrap, Resume, kernel, tracer, Stops, Live, IInv, TypeOK, Still, Quiet
<1>15. CASE Capture
  BY <1>15 DEF Capture, Move, kernel, tracer, Stops, Live, IInv, TypeOK, Still, Quiet
<1>16. CASE WaitExited
  BY <1>16 DEF WaitExited, Fail, Reapable, kernel, tracer, Stops, Live, IInv, TypeOK, Still, Quiet
<1>17. CASE Timeout
  BY <1>17 DEF Timeout, kernel, tracer, Stops, Live, IInv, TypeOK, Still, Quiet
<1>18. CASE GiveUp
  BY <1>18 DEF GiveUp, Resume, Deliver, Delivers, Reapable, kernel, tracer, Stops, Live, IInv, TypeOK, Still, Quiet
<1>19. CASE NoneFound
  BY <1>19 DEF NoneFound, Fail, kernel, tracer, Stops, Live, IInv, TypeOK, Still, Quiet
<1>20. CASE InjectCall
  BY <1>20 DEF InjectCall, Resume, kernel, tracer, Stops, Live, IInv, TypeOK, Still, Quiet
<1>21. CASE InjectDone
  BY <1>21 DEF InjectDone, kernel, tracer, Stops, Live, IInv, TypeOK, Still, Quiet
<1>22. CASE InjectExited
  BY <1>22 DEF InjectExited, Move, Reapable, kernel, tracer, Stops, Live, IInv, TypeOK, Still, Quiet
<1>23. CASE TakeSignal("injecting")
  BY <1>23 DEF TakeSignal, Resume, kernel, tracer, Stops, Live, IInv, TypeOK, Still, Quiet
<1>24. CASE TakeTrap("injecting")
  BY <1>24 DEF TakeTrap, Resume, kernel, tracer, Stops, Live, IInv, TypeOK, Still, Quiet
<1>25. CASE Finish
  BY <1>25 DEF Finish, Move, kernel, tracer, Stops, Live, IInv, TypeOK, Still, Quiet
<1>26. CASE \E t \in Threads : DetachThread(t)
  BY <1>26 DEF DetachThread, Turn, Deliver, Delivers, kernel, tracer, Stops, Live, IInv, TypeOK, Still, Quiet
<1>27. CASE DetachDone
  BY <1>27 DEF DetachDone, kernel, tracer, Stops, Live, IInv, TypeOK, Still, Quiet
<1>28. CASE ProxyEnds
  BY <1>28 DEF ProxyEnds, kernel, tracer, Stops, Live, IInv, TypeOK, Still, Quiet
<1>29. CASE Exit
  BY <1>29 DEF Exit, kernel, tracer, Stops, Live, IInv, TypeOK, Still, Quiet
<1>30. CASE \E t \in Threads : KTrap(t)
  BY <1>30 DEF KTrap, kernel, tracer, Stops, Live, IInv, TypeOK, Still, Quiet
<1>31. CASE \E t \in Threads : KSend(t)
  BY <1>31 DEF KSend, kernel, tracer, Stops, Live, IInv, TypeOK, Still, Quiet
<1>32. CASE \E t \in Threads : KSignal(t)
  <2>1. PICK t \in Threads : KSignal(t)
    BY <1>32
  <2>2. /\ at[t] = "run" /\ \A u \in Threads \ {t} : at'[u] = at[u]
        /\ at'[t] \in {"run", "signal"}
    BY <2>1 DEF KSignal, IInv, TypeOK
  <2>3. UNCHANGED <<pc, attached, gaveUp, cur, todo>>
    BY <2>1 DEF KSignal, tracer
  <2>4. attached \subseteq Threads /\ (pc = "inject" => cur \in Threads \ {t})
    BY <2>2 DEF IInv, TypeOK, Chosen, Still
  <2>. QED BY <2>2, <2>3, <2>4 DEF IInv, Still, Quiet, Stops
<1>33. CASE \E t \in Threads : KSyscall(t)
  BY <1>33 DEF KSyscall, kernel, tracer, Stops, Live, IInv, TypeOK, Still, Quiet
<1>34. CASE \E t \in Threads : KBlock(t)
  BY <1>34 DEF KBlock, kernel, tracer, Stops, Live, IInv, TypeOK, Still, Quiet
<1>35. CASE \E t \in Threads : KWake(t)
  BY <1>35 DEF KWake, kernel, tracer, Stops, Live, IInv, TypeOK, Still, Quiet
<1>36. CASE \E t \in Threads : KCreate(t)
  BY <1>36 DEF KCreate, kernel, tracer, Stops, Live, IInv, TypeOK, Still, Quiet
<1>37. CASE \E t \in Threads : KExit(t)
  BY <1>37 DEF KExit, kernel, tracer, Stops, Live, IInv, TypeOK, Still, Quiet
<1>. QED BY StepCases, <1>1, <1>2, <1>3, <1>4, <1>5, <1>6, <1>7, <1>8, <1>9, <1>10, <1>11, <1>12, <1>13, <1>14, <1>15, <1>16, <1>17, <1>18, <1>19, <1>20, <1>21, <1>22, <1>23, <1>24, <1>25, <1>26, <1>27, <1>28, <1>29, <1>30, <1>31, <1>32, <1>33, <1>34, <1>35, <1>36, <1>37

\* Tracees are known to the session, and let go.
LEMMA KnownStep == IInv /\ [Next]_vars => Known'
<1>. SUFFICES ASSUME IInv, [Next]_vars PROVE Known'
  OBVIOUS
<1>1. CASE UNCHANGED vars
  BY <1>1 DEF IInv, TypeOK, Still, Known, Quiet, alive, vars, kernel, tracer
<1>2. CASE List
  BY <1>2 DEF List, Move, kernel, tracer, Stops, Live, IInv, TypeOK, Still, Known, Quiet, alive
<1>3. CASE \E t \in Threads : SeizeThread(t)
  BY <1>3 DEF SeizeThread, Turn, kernel, tracer, Stops, Live, IInv, TypeOK, Still, Known, Quiet, alive
<1>4. CASE \E t \in Threads : SeizeVanished(t)
  BY <1>4 DEF SeizeVanished, Turn, Fail, kernel, tracer, Stops, Live, IInv, TypeOK, Still, Known, Quiet, alive
<1>5. CASE SeizeDone
  BY <1>5 DEF SeizeDone, Move, kernel, tracer, Stops, Live, IInv, TypeOK, Still, Known, Quiet, alive
<1>6. CASE \E t \in Threads : InterruptThread(t)
  BY <1>6 DEF InterruptThread, Turn, Move, kernel, tracer, Stops, Live, IInv, TypeOK, Still, Known, Quiet, alive
<1>7. CASE \E t \in Threads : AckStop(t)
  BY <1>7 DEF AckStop, Turn, kernel, tracer, Stops, Live, IInv, TypeOK, Still, Known, Quiet, alive
<1>8. CASE \E t \in Threads : AckExited(t)
  BY <1>8 DEF AckExited, Turn, Reapable, kernel, tracer, Stops, Live, IInv, TypeOK, Still, Known, Quiet, alive
<1>9. CASE \E t \in Threads : AckTimeout(t)
  BY <1>9 DEF AckTimeout, Turn, Fail, Reapable, kernel, tracer, Stops, Live, IInv, TypeOK, Still, Known, Quiet, alive
<1>10. CASE AckDone
  BY <1>10 DEF AckDone, Fail, Move, kernel, tracer, Stops, Live, IInv, TypeOK, Still, Known, Quiet, alive
<1>11. CASE \E t \in Threads : Options(t)
  BY <1>11 DEF Options, Turn, Fail, Move, kernel, tracer, Stops, Live, IInv, TypeOK, Still, Known, Quiet, alive
<1>12. CASE \E t \in Threads : Try(t)
  BY <1>12 DEF Try, Turn, Fail, Move, Resume, kernel, tracer, Stops, Live, IInv, TypeOK, Still, Known, Quiet, alive
<1>13. CASE TakeSignal("wait")
  BY <1>13 DEF TakeSignal, Resume, kernel, tracer, Stops, Live, IInv, TypeOK, Still, Known, Quiet, alive
<1>14. CASE TakeTrap("wait")
  BY <1>14 DEF TakeTrap, Resume, kernel, tracer, Stops, Live, IInv, TypeOK, Still, Known, Quiet, alive
<1>15. CASE Capture
  BY <1>15 DEF Capture, Move, kernel, tracer, Stops, Live, IInv, TypeOK, Still, Known, Quiet, alive
<1>16. CASE WaitExited
  BY <1>16 DEF WaitExited, Fail, Reapable, kernel, tracer, Stops, Live, IInv, TypeOK, Still, Known, Quiet, alive
<1>17. CASE Timeout
  BY <1>17 DEF Timeout, kernel, tracer, Stops, Live, IInv, TypeOK, Still, Known, Quiet, alive
<1>18. CASE GiveUp
  BY <1>18 DEF GiveUp, Resume, Deliver, Delivers, Reapable, kernel, tracer, Stops, Live, IInv, TypeOK, Still, Known, Quiet, alive
<1>19. CASE NoneFound
  BY <1>19 DEF NoneFound, Fail, kernel, tracer, Stops, Live, IInv, TypeOK, Still, Known, Quiet, alive
<1>20. CASE InjectCall
  BY <1>20 DEF InjectCall, Resume, kernel, tracer, Stops, Live, IInv, TypeOK, Still, Known, Quiet, alive
<1>21. CASE InjectDone
  BY <1>21 DEF InjectDone, kernel, tracer, Stops, Live, IInv, TypeOK, Still, Known, Quiet, alive
<1>22. CASE InjectExited
  BY <1>22 DEF InjectExited, Move, Reapable, kernel, tracer, Stops, Live, IInv, TypeOK, Still, Known, Quiet, alive
<1>23. CASE TakeSignal("injecting")
  BY <1>23 DEF TakeSignal, Resume, kernel, tracer, Stops, Live, IInv, TypeOK, Still, Known, Quiet, alive
<1>24. CASE TakeTrap("injecting")
  BY <1>24 DEF TakeTrap, Resume, kernel, tracer, Stops, Live, IInv, TypeOK, Still, Known, Quiet, alive
<1>25. CASE Finish
  BY <1>25 DEF Finish, Move, kernel, tracer, Stops, Live, IInv, TypeOK, Still, Known, Quiet, alive
<1>26. CASE \E t \in Threads : DetachThread(t)
  BY <1>26 DEF DetachThread, Turn, Deliver, Delivers, kernel, tracer, Stops, Live, IInv, TypeOK, Still, Known, Quiet, alive
<1>27. CASE DetachDone
  BY <1>27 DEF DetachDone, kernel, tracer, Stops, Live, IInv, TypeOK, Still, Known, Quiet, alive
<1>28. CASE ProxyEnds
  BY <1>28 DEF ProxyEnds, kernel, tracer, Stops, Live, IInv, TypeOK, Still, Known, Quiet, alive
<1>29. CASE Exit
  BY <1>29 DEF Exit, kernel, tracer, Stops, Live, IInv, TypeOK, Still, Known, Quiet, alive
<1>30. CASE \E t \in Threads : KTrap(t)
  BY <1>30 DEF KTrap, kernel, tracer, Stops, Live, IInv, TypeOK, Still, Known, Quiet, alive
<1>31. CASE \E t \in Threads : KSend(t)
  BY <1>31 DEF KSend, kernel, tracer, Stops, Live, IInv, TypeOK, Still, Known, Quiet, alive
<1>32. CASE \E t \in Threads : KSignal(t)
  BY <1>32 DEF KSignal, kernel, tracer, Stops, Live, IInv, TypeOK, Still, Known, Quiet, alive
<1>33. CASE \E t \in Threads : KSyscall(t)
  BY <1>33 DEF KSyscall, kernel, tracer, Stops, Live, IInv, TypeOK, Still, Known, Quiet, alive
<1>34. CASE \E t \in Threads : KBlock(t)
  BY <1>34 DEF KBlock, kernel, tracer, Stops, Live, IInv, TypeOK, Still, Known, Quiet, alive
<1>35. CASE \E t \in Threads : KWake(t)
  BY <1>35 DEF KWake, kernel, tracer, Stops, Live, IInv, TypeOK, Still, Known, Quiet, alive
<1>36. CASE \E t \in Threads : KCreate(t)
  BY <1>36 DEF KCreate, kernel, tracer, Stops, Live, IInv, TypeOK, Still, Known, Quiet, alive
<1>37. CASE \E t \in Threads : KExit(t)
  BY <1>37 DEF KExit, kernel, tracer, Stops, Live, IInv, TypeOK, Still, Known, Quiet, alive
<1>. QED BY StepCases, <1>1, <1>2, <1>3, <1>4, <1>5, <1>6, <1>7, <1>8, <1>9, <1>10, <1>11, <1>12, <1>13, <1>14, <1>15, <1>16, <1>17, <1>18, <1>19, <1>20, <1>21, <1>22, <1>23, <1>24, <1>25, <1>26, <1>27, <1>28, <1>29, <1>30, <1>31, <1>32, <1>33, <1>34, <1>35, <1>36, <1>37

\* A signal goes to its addressee.
LEMMA ApartStep == IInv /\ [Next]_vars => Apart'
<1>. SUFFICES ASSUME IInv, [Next]_vars PROVE Apart'
  OBVIOUS
<1>1. CASE UNCHANGED vars
  BY <1>1 DEF IInv, TypeOK, Apart, vars, kernel, tracer
<1>2. CASE List
  BY <1>2, ThreadsAssumption DEF List, Move, kernel, tracer, Stops, Live, IInv, TypeOK, Apart
<1>3. CASE \E t \in Threads : SeizeThread(t)
  BY <1>3, ThreadsAssumption DEF SeizeThread, Turn, kernel, tracer, Stops, Live, IInv, TypeOK, Apart
<1>4. CASE \E t \in Threads : SeizeVanished(t)
  BY <1>4, ThreadsAssumption DEF SeizeVanished, Turn, Fail, kernel, tracer, Stops, Live, IInv, TypeOK, Apart
<1>5. CASE SeizeDone
  BY <1>5, ThreadsAssumption DEF SeizeDone, Move, kernel, tracer, Stops, Live, IInv, TypeOK, Apart
<1>6. CASE \E t \in Threads : InterruptThread(t)
  BY <1>6, ThreadsAssumption DEF InterruptThread, Turn, Move, kernel, tracer, Stops, Live, IInv, TypeOK, Apart
<1>7. CASE \E t \in Threads : AckStop(t)
  BY <1>7, ThreadsAssumption DEF AckStop, Turn, kernel, tracer, Stops, Live, IInv, TypeOK, Apart
<1>8. CASE \E t \in Threads : AckExited(t)
  BY <1>8, ThreadsAssumption DEF AckExited, Turn, Reapable, kernel, tracer, Stops, Live, IInv, TypeOK, Apart
<1>9. CASE \E t \in Threads : AckTimeout(t)
  BY <1>9, ThreadsAssumption DEF AckTimeout, Turn, Fail, Reapable, kernel, tracer, Stops, Live, IInv, TypeOK, Apart
<1>10. CASE AckDone
  BY <1>10, ThreadsAssumption DEF AckDone, Fail, Move, kernel, tracer, Stops, Live, IInv, TypeOK, Apart
<1>11. CASE \E t \in Threads : Options(t)
  BY <1>11, ThreadsAssumption DEF Options, Turn, Fail, Move, kernel, tracer, Stops, Live, IInv, TypeOK, Apart
<1>12. CASE \E t \in Threads : Try(t)
  BY <1>12, ThreadsAssumption DEF Try, Turn, Fail, Move, Resume, kernel, tracer, Stops, Live, IInv, TypeOK, Apart
<1>13. CASE TakeSignal("wait")
  BY <1>13, ThreadsAssumption DEF TakeSignal, Resume, kernel, tracer, Stops, Live, IInv, TypeOK, Apart
<1>14. CASE TakeTrap("wait")
  BY <1>14, ThreadsAssumption DEF TakeTrap, Resume, kernel, tracer, Stops, Live, IInv, TypeOK, Apart
<1>15. CASE Capture
  BY <1>15, ThreadsAssumption DEF Capture, Move, kernel, tracer, Stops, Live, IInv, TypeOK, Apart
<1>16. CASE WaitExited
  BY <1>16, ThreadsAssumption DEF WaitExited, Fail, Reapable, kernel, tracer, Stops, Live, IInv, TypeOK, Apart
<1>17. CASE Timeout
  BY <1>17, ThreadsAssumption DEF Timeout, kernel, tracer, Stops, Live, IInv, TypeOK, Apart
<1>18. CASE GiveUp
  BY <1>18, ThreadsAssumption DEF GiveUp, Resume, Deliver, Delivers, Reapable, kernel, tracer, Stops, Live, IInv, TypeOK, Apart
<1>19. CASE NoneFound
  BY <1>19, ThreadsAssumption DEF NoneFound, Fail, kernel, tracer, Stops, Live, IInv, TypeOK, Apart
<1>20. CASE InjectCall
  BY <1>20, ThreadsAssumption DEF InjectCall, Resume, kernel, tracer, Stops, Live, IInv, TypeOK, Apart
<1>21. CASE InjectDone
  BY <1>21, ThreadsAssumption DEF InjectDone, kernel, tracer, Stops, Live, IInv, TypeOK, Apart
<1>22. CASE InjectExited
  BY <1>22, ThreadsAssumption DEF InjectExited, Move, Reapable, kernel, tracer, Stops, Live, IInv, TypeOK, Apart
<1>23. CASE TakeSignal("injecting")
  BY <1>23, ThreadsAssumption DEF TakeSignal, Resume, kernel, tracer, Stops, Live, IInv, TypeOK, Apart
<1>24. CASE TakeTrap("injecting")
  BY <1>24, ThreadsAssumption DEF TakeTrap, Resume, kernel, tracer, Stops, Live, IInv, TypeOK, Apart
<1>25. CASE Finish
  BY <1>25, ThreadsAssumption DEF Finish, Move, kernel, tracer, Stops, Live, IInv, TypeOK, Apart
<1>26. CASE \E t \in Threads : DetachThread(t)
  <2>1. PICK t \in Threads : DetachThread(t)
    BY <1>26
  <2>2. pc = "detach" /\ UNCHANGED <<pc, kept, cur>>
    BY <2>1 DEF DetachThread
  <2>3. CASE UNCHANGED got
    BY <2>2, <2>3 DEF IInv, Apart
  <2>4. CASE Delivers(t, kept) /\ got' = [got EXCEPT ![t] = @ \cup {kept}]
    <3>1. kept = cur
      BY <2>4 DEF Delivers, IInv, Apart
    <3>2. \A u \in Threads : got'[u] \subseteq got[u] \cup {kept}
      BY <2>4 DEF IInv, TypeOK
    <3>. QED BY <2>2, <3>1, <3>2 DEF IInv, Apart
  <2>. QED BY <2>1, <2>3, <2>4 DEF DetachThread, Deliver
<1>27. CASE DetachDone
  BY <1>27, ThreadsAssumption DEF DetachDone, kernel, tracer, Stops, Live, IInv, TypeOK, Apart
<1>28. CASE ProxyEnds
  BY <1>28, ThreadsAssumption DEF ProxyEnds, kernel, tracer, Stops, Live, IInv, TypeOK, Apart
<1>29. CASE Exit
  BY <1>29, ThreadsAssumption DEF Exit, kernel, tracer, Stops, Live, IInv, TypeOK, Apart
<1>30. CASE \E t \in Threads : KTrap(t)
  BY <1>30, ThreadsAssumption DEF KTrap, kernel, tracer, Stops, Live, IInv, TypeOK, Apart
<1>31. CASE \E t \in Threads : KSend(t)
  BY <1>31, ThreadsAssumption DEF KSend, kernel, tracer, Stops, Live, IInv, TypeOK, Apart
<1>32. CASE \E t \in Threads : KSignal(t)
  BY <1>32, ThreadsAssumption DEF KSignal, kernel, tracer, Stops, Live, IInv, TypeOK, Apart
<1>33. CASE \E t \in Threads : KSyscall(t)
  BY <1>33, ThreadsAssumption DEF KSyscall, kernel, tracer, Stops, Live, IInv, TypeOK, Apart
<1>34. CASE \E t \in Threads : KBlock(t)
  BY <1>34, ThreadsAssumption DEF KBlock, kernel, tracer, Stops, Live, IInv, TypeOK, Apart
<1>35. CASE \E t \in Threads : KWake(t)
  BY <1>35, ThreadsAssumption DEF KWake, kernel, tracer, Stops, Live, IInv, TypeOK, Apart
<1>36. CASE \E t \in Threads : KCreate(t)
  BY <1>36, ThreadsAssumption DEF KCreate, kernel, tracer, Stops, Live, IInv, TypeOK, Apart
<1>37. CASE \E t \in Threads : KExit(t)
  BY <1>37, ThreadsAssumption DEF KExit, kernel, tracer, Stops, Live, IInv, TypeOK, Apart
<1>. QED BY StepCases, <1>1, <1>2, <1>3, <1>4, <1>5, <1>6, <1>7, <1>8, <1>9, <1>10, <1>11, <1>12, <1>13, <1>14, <1>15, <1>16, <1>17, <1>18, <1>19, <1>20, <1>21, <1>22, <1>23, <1>24, <1>25, <1>26, <1>27, <1>28, <1>29, <1>30, <1>31, <1>32, <1>33, <1>34, <1>35, <1>36, <1>37

LEMMA Inductive == Spec => []IInv
<1>1. Init => IInv
  <2>. SUFFICES ASSUME Init PROVE IInv
    OBVIOUS
  <2>1. TypeOK
    BY TypeInit
  <2>2. Chosen /\ Still /\ Known /\ Apart
    BY DEF Init, Chosen, Still, Known, Apart
  <2>. QED BY <2>1, <2>2 DEF IInv
<1>2. IInv /\ [Next]_vars => IInv'
  <2>. SUFFICES ASSUME IInv, [Next]_vars PROVE IInv'
    OBVIOUS
  <2>1. TypeOK' /\ Chosen'
    BY TypeStep, ChosenStep DEF IInv
  <2>2. Still' /\ Known' /\ Apart'
    BY StillStep, KnownStep, ApartStep
  <2>. QED BY <2>1, <2>2 DEF IInv
<1>. QED BY <1>1, <1>2, PTL DEF Spec

-----------------------------------------------------------------------------
(***************************************************************************)
(* The theorems.                                                           *)
(***************************************************************************)

\* Every variable keeps its type, for every number of threads.
THEOREM TypeCorrect == Spec => []TypeOK
<1>1. IInv => TypeOK
  BY DEF IInv
<1>. QED BY <1>1, Inductive, PTL

\* While calls are injected no other thread of the session moves, except
\* those that were given up (attach_all, Hijacker::seize).
THEOREM BorrowedAlone == Spec => []SiblingsStandStill
<1>1. IInv => SiblingsStandStill
  BY DEF IInv, Still, Quiet, SiblingsStandStill
<1>. QED BY <1>1, Inductive, PTL

\* Once reptyr proxies it traces no live thread, except those that were given
\* up (detach_all).
THEOREM EverybodyDetached == Spec => []NobodyLeftTraced
<1>1. IInv => NobodyLeftTraced
  BY DEF IInv, Known, NobodyLeftTraced
<1>. QED BY <1>1, Inductive, PTL

\* What was swallowed from one thread reaches no other, but for the borrowed
\* thread's own signal on detach (try_tid, detach_all).
THEOREM NoSignalAstray == Spec => []SignalsKeptApart
<1>1. IInv => SignalsKeptApart
  BY DEF IInv, Apart, SignalsKeptApart
<1>. QED BY <1>1, Inductive, PTL
=============================================================================
