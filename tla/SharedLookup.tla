---------------------------- MODULE SharedLookup ----------------------------
(***************************************************************************)
(* What requests for the same chapters promise one another: at most one of *)
(* them looks the chapters up at a time. Whoever needs them meanwhile      *)
(* shares that lookup and gets what it found, all at the same moment, and  *)
(* nobody is left waiting when the lookup is over.                         *)
(***************************************************************************)
CONSTANTS Requests, Results, NoResult

VARIABLES
  leader,   \* the request that looks the chapters up, if any
  sharing,  \* the requests that wait for its result, the leader included
  found,    \* what the lookup came to, NoResult while it goes on
  answer    \* what each request is answered

vars == <<leader, sharing, found, answer>>

Init ==
  /\ leader = {} /\ sharing = {} /\ found = NoResult
  /\ answer = [r \in Requests |-> NoResult]

Unanswered(r) == r \notin sharing /\ answer[r] = NoResult

Lead(r) ==
  /\ Unanswered(r) /\ leader = {}
  /\ leader' = {r} /\ sharing' = {r}
  /\ UNCHANGED <<found, answer>>

Follow(r) ==
  /\ Unanswered(r) /\ leader # {}
  /\ sharing' = sharing \cup {r}
  /\ UNCHANGED <<leader, found, answer>>

Find ==
  /\ leader # {} /\ found = NoResult
  /\ found' \in Results
  /\ UNCHANGED <<leader, sharing, answer>>

\* Everyone who shares the lookup is answered what it found, and nobody else.
HandOver ==
  /\ found # NoResult
  /\ answer' = [r \in Requests |-> IF r \in sharing THEN found ELSE answer[r]]
  /\ leader' = {} /\ sharing' = {} /\ found' = NoResult

\* A request that needs no lookup, or may not make one.
AnswerDirectly(r) ==
  /\ Unanswered(r)
  /\ \E a \in Results : answer' = [answer EXCEPT ![r] = a]
  /\ UNCHANGED <<leader, sharing, found>>

Leave(r) ==
  /\ answer[r] # NoResult
  /\ answer' = [answer EXCEPT ![r] = NoResult]
  /\ UNCHANGED <<leader, sharing, found>>

\* A crash takes the requests and their lookup with it.
Crash ==
  /\ leader' = {} /\ sharing' = {} /\ found' = NoResult
  /\ answer' = [r \in Requests |-> NoResult]

Next ==
  \/ \E r \in Requests : Lead(r) \/ Follow(r) \/ AnswerDirectly(r) \/ Leave(r)
  \/ Find \/ HandOver \/ Crash

Spec == Init /\ [][Next]_vars
=============================================================================
