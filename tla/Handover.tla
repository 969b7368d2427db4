------------------------------ MODULE Handover ------------------------------
(***************************************************************************)
(* What reptyr -T (src/steal.rs) promises, seen from outside: the master   *)
(* of a terminal changes hands while the emulator that has it stands       *)
(* still.  It is given up only when it is here and the session cannot be   *)
(* hung up any more, and when the theft fails it has not been given up.    *)
(* Module Steal implements it, call by call.                               *)
(***************************************************************************)
EXTENDS Naturals

CONSTANT Fds

VARIABLES
  emulator,  \* "runs", "still" or "dead"
  all,       \* the descriptors through which it has the master
  copies,    \* those it still has
  ours,      \* the master in our hands: "none", "coming" or "here"
  immune,    \* the session leader ignores SIGHUP
  hungup,    \* it died of one
  outcome    \* "open", then "stolen" or "failed"

vars == <<emulator, all, copies, ours, immune, hungup, outcome>>

Init ==
  /\ emulator = "runs" /\ all \in SUBSET Fds /\ copies = all
  /\ ours = "none" /\ immune \in BOOLEAN /\ hungup = FALSE /\ outcome = "open"

Hold ==
  /\ outcome = "open" /\ emulator = "runs"
  /\ emulator' = "still"
  /\ UNCHANGED <<all, copies, ours, immune, hungup, outcome>>

Send ==
  /\ outcome = "open" /\ emulator = "still" /\ copies = all /\ copies # {} /\ ours = "none"
  /\ ours' = "coming"
  /\ UNCHANGED <<emulator, all, copies, immune, hungup, outcome>>

Arrive ==
  /\ outcome = "open" /\ ours = "coming"
  /\ ours' = "here"
  /\ UNCHANGED <<emulator, all, copies, immune, hungup, outcome>>

Immunise ==
  /\ outcome = "open" /\ ours = "here"
  /\ immune' = TRUE
  /\ UNCHANGED <<emulator, all, copies, ours, hungup, outcome>>

GiveUp(fd) ==
  /\ outcome = "open" /\ emulator = "still" /\ ours = "here" /\ immune
  /\ copies' = copies \ {fd}
  /\ UNCHANGED <<emulator, all, ours, immune, hungup, outcome>>

Released == IF emulator = "still" THEN "runs" ELSE emulator

Succeed ==
  /\ outcome = "open" /\ ours = "here" /\ immune
  /\ outcome' = "stolen" /\ emulator' = Released
  /\ UNCHANGED <<all, copies, ours, immune, hungup>>

Fail ==
  /\ outcome = "open" /\ (copies = all \/ emulator = "dead")
  /\ outcome' = "failed" /\ ours' \in {ours, "none"}
  /\ UNCHANGED <<emulator, all, copies, immune, hungup>>

LetGo ==
  /\ outcome = "failed"
  /\ emulator' = Released /\ ours' = "none"
  /\ UNCHANGED <<all, copies, immune, hungup, outcome>>

Leave ==
  /\ outcome = "stolen"
  /\ ours' = "none"
  /\ UNCHANGED <<emulator, all, copies, immune, hungup, outcome>>

Die ==
  /\ emulator # "dead"
  /\ emulator' = "dead" /\ copies' = {}
  /\ UNCHANGED <<all, ours, immune, hungup, outcome>>

Next ==
  \/ Hold \/ Send \/ Arrive \/ Immunise \/ Succeed \/ Fail \/ LetGo \/ Leave \/ Die
  \/ \E fd \in Fds : GiveUp(fd)

Spec == Init /\ [][Next]_vars
=============================================================================
