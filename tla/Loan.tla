-------------------------------- MODULE Loan --------------------------------
(***************************************************************************)
(* What the hijack engine (src/hijack.rs) promises, seen from outside: a   *)
(* thread is lent in the middle of a call of its own, answers what it is   *)
(* asked, one call at a time, and is given back to make its own call.  The *)
(* first signal that finds it on loan is kept for it.  Module Hijacker     *)
(* implements it, stop by stop.                                            *)
(***************************************************************************)

CONSTANTS
  Signals,  \* the signals worth keeping
  NoSig

VARIABLES
  loan,   \* "own", "lent", "returned", "left" (never lent), "broken" or "dead"
  call,   \* the call in progress: "none", "asked" or "answered"
  ran,    \* what the thread ran of its own since it was lent
  keeps,  \* the signal kept for it
  given   \* the one it was sent away with

vars == <<loan, call, ran, keeps, given>>

Init ==
  /\ loan = "own" /\ call = "none" /\ ran = "nothing"
  /\ keeps = NoSig /\ given = NoSig

Keep(s) ==
  /\ loan \in {"own", "lent", "broken"} /\ keeps = NoSig
  /\ keeps' = s
  /\ UNCHANGED <<loan, call, ran, given>>

Lend ==
  /\ loan = "own"
  /\ loan' = "lent"
  /\ UNCHANGED <<call, ran, keeps, given>>

\* Not this thread: what it is sent away with may get lost.
Decline ==
  /\ loan = "own"
  /\ loan' = "left" /\ given' \in {keeps, NoSig}
  /\ UNCHANGED <<call, ran, keeps>>

Ask ==
  /\ loan = "lent" /\ call = "none"
  /\ call' = "asked"
  /\ UNCHANGED <<loan, ran, keeps, given>>

Answer ==
  /\ loan = "lent" /\ call = "asked"
  /\ call' = "answered"
  /\ UNCHANGED <<loan, ran, keeps, given>>

TakeAnswer ==
  /\ loan = "lent" /\ call = "answered"
  /\ call' = "none"
  /\ UNCHANGED <<loan, ran, keeps, given>>

\* Nothing is in progress; the signal is handed over, or lost with the error.
GiveBack ==
  /\ loan \in {"lent", "broken"} /\ call = "none" /\ given = NoSig
  /\ loan' = IF loan = "lent" THEN "returned" ELSE "broken"
  /\ \/ given' = keeps /\ keeps' = NoSig
     \/ UNCHANGED <<given, keeps>>
  /\ UNCHANGED <<call, ran>>

\* The thread makes its own call, and then is on its way.
Continue ==
  /\ loan = "returned" /\ ran = "nothing"
  /\ ran' = "displaced"
  /\ UNCHANGED <<loan, call, keeps, given>>

\* A call cut short, or with an answer nobody expects: from then on only the
\* signal is promised.
Break ==
  /\ loan = "lent" /\ call # "none"
  /\ loan' = "broken" /\ call' = "none"
  /\ UNCHANGED <<ran, keeps, given>>

Die ==
  /\ loan \in {"own", "lent", "left"}
  /\ loan' = "dead" /\ call' = "none"
  /\ UNCHANGED <<ran, keeps, given>>

Next ==
  \/ Lend \/ Decline \/ Ask \/ Answer \/ TakeAnswer \/ GiveBack \/ Continue
  \/ Break \/ Die
  \/ \E s \in Signals : Keep(s)

Spec == Init /\ [][Next]_vars
=============================================================================
