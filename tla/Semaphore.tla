------------------------------ MODULE Semaphore ------------------------------
(***************************************************************************)
(* What the cap on NRK requests promises: at most MaxConcurrent callers    *)
(* hold a slot, at most MaxQueued wait, they are served in the order they  *)
(* came, and no slot is free while one waits.                              *)
(***************************************************************************)
EXTENDS Integers, Sequences, FiniteSets

CONSTANTS Callers, MaxConcurrent, MaxQueued

VARIABLES holders, waiting

Waiting == {waiting[i] : i \in 1 .. Len(waiting)}

Init == holders = {} /\ waiting = <<>>

Enter(p) ==
  /\ p \notin holders /\ waiting = <<>>
  /\ Cardinality(holders) < MaxConcurrent
  /\ holders' = holders \cup {p}
  /\ UNCHANGED waiting

Wait(p) ==
  /\ p \notin holders \cup Waiting
  /\ Cardinality(holders) = MaxConcurrent /\ Len(waiting) < MaxQueued
  /\ waiting' = Append(waiting, p)
  /\ UNCHANGED holders

\* A slot that is given back goes to the first in line.
Leave(p) ==
  /\ p \in holders
  /\ IF waiting = <<>>
     THEN holders' = holders \ {p} /\ UNCHANGED waiting
     ELSE /\ holders' = (holders \ {p}) \cup {Head(waiting)}
          /\ waiting' = Tail(waiting)

Next == \E p \in Callers : Enter(p) \/ Wait(p) \/ Leave(p)

Spec == Init /\ [][Next]_<<holders, waiting>>
=============================================================================
