-------------------------------- MODULE Move --------------------------------
(***************************************************************************)
(* What attach (src/main.rs) promises, seen from outside: a process comes  *)
(* from one terminal to another.  It may lose the old one at any time, it  *)
(* takes the new one only when it has none, its streams go over only to a  *)
(* terminal that is its own, and the move is done when all of them have.   *)
(* Module Inject implements it, call by call.                              *)
(***************************************************************************)
EXTENDS Integers

CONSTANT Fds

VARIABLES
  planned,  \* the descriptors that have to move
  ctty,     \* the controlling terminal: "old", "none" or "new"
  spare,    \* the descriptor through which the new one was opened
  streams,  \* the other descriptors that are on the new terminal
  outcome   \* "open", then "moved", "failed" or "dead"

vars == <<planned, ctty, spare, streams, outcome>>

NoFd == -1

Init ==
  /\ planned \in (SUBSET Fds) \ {{}}
  /\ ctty \in {"old", "none"}
  /\ spare = NoFd /\ streams = {} /\ outcome = "open"

LoseTerminal ==
  /\ outcome = "open" /\ ctty = "old"
  /\ ctty' = "none"
  /\ UNCHANGED <<planned, spare, streams, outcome>>

OpenTerminal(n) ==
  /\ outcome = "open" /\ spare = NoFd
  /\ spare' = n
  /\ UNCHANGED <<planned, ctty, streams, outcome>>

TakeTerminal ==
  /\ outcome = "open" /\ spare # NoFd /\ ctty = "none"
  /\ ctty' = "new"
  /\ UNCHANGED <<planned, spare, streams, outcome>>

Redirect(n) ==
  /\ outcome = "open" /\ ctty = "new" /\ n \notin streams \cup {spare}
  /\ streams' = streams \cup {n}
  /\ UNCHANGED <<planned, ctty, spare, outcome>>

Finish ==
  /\ outcome = "open"
  /\ \/ outcome' \in {"failed", "dead"}
     \/ outcome' = "moved" /\ ctty = "new" /\ streams = planned \ {spare}
  /\ UNCHANGED <<planned, ctty, spare, streams>>

Next ==
  \/ LoseTerminal \/ TakeTerminal \/ Finish
  \/ \E n \in Fds : OpenTerminal(n)
  \/ \E n \in planned : Redirect(n)

Spec == Init /\ [][Next]_vars
=============================================================================
