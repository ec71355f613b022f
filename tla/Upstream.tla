------------------------------ MODULE Upstream ------------------------------
(***************************************************************************)
(* The HTTP layer of every NRK request (nrk/http.go): the global cap with  *)
(* its bounded first-in-first-out queue, the retry deadline of the origin  *)
(* checked before queueing and again before sending, and the cancellation  *)
(* on shutdown. A caller is one goroutine, with one request at a time.     *)
(***************************************************************************)
EXTENDS Integers, Sequences, FiniteSets

CONSTANTS
  Callers,
  MaxConcurrent,   \* maxConcurrentUpstream (12)
  MaxQueued,       \* maxQueuedUpstream (64)
  MaxPauses        \* bound: deadlines NRK sets

ASSUME CallersAssumption == IsFiniteSet(Callers)
ASSUME LimitsAssumption ==
  MaxConcurrent \in Nat \ {0} /\ MaxQueued \in Nat /\ MaxPauses \in Nat

VARIABLES
  pc,              \* what each caller is doing
  inFlight,        \* u.inFlight
  waiters,         \* u.waiters: the callers behind the ready channels
  paused,          \* the origin's retry deadline is pending
  pauses,          \* how much of MaxPauses is used
  early,           \* history: callers past the second check when it was set
  stopped          \* u.ctx is cancelled

vars == <<pc, inFlight, waiters, paused, pauses, early, stopped>>

Goes(p, state) == pc' = [pc EXCEPT ![p] = state]

-----------------------------------------------------------------------------
(* One request, getJSON or head.                                           *)

\* A pending deadline answers 503 without queueing.
Call(p) ==
  /\ pc[p] = "idle" /\ ~paused
  /\ Goes(p, "acquire")
  /\ UNCHANGED <<inFlight, waiters, paused, pauses, early, stopped>>

\* acquire, one critical section: a free slot, a full queue, or the queue.
HasFreeSlotOffByOne == inFlight <= MaxConcurrent
HasFreeSlot == inFlight < MaxConcurrent
QueueIsFull == Len(waiters) >= MaxQueued

AcquireSlot(p) ==
  /\ pc[p] = "acquire" /\ HasFreeSlot
  /\ inFlight' = inFlight + 1
  /\ Goes(p, "slot")
  /\ UNCHANGED <<waiters, paused, pauses, early, stopped>>

\* A refused request never had a slot to give back.
RefusedReleases == "release"
AfterRefusal == "idle"

Saturated(p) ==
  /\ pc[p] = "acquire" /\ ~HasFreeSlot /\ QueueIsFull
  /\ Goes(p, AfterRefusal)
  /\ UNCHANGED <<inFlight, waiters, paused, pauses, early, stopped>>

InFrontOfAll(p) == <<p>> \o waiters
BehindAll(p) == Append(waiters, p)

AcquireWaits(p) ==
  /\ pc[p] = "acquire" /\ ~HasFreeSlot /\ ~QueueIsFull
  /\ waiters' = BehindAll(p)
  /\ Goes(p, "queued")
  /\ UNCHANGED <<inFlight, paused, pauses, early, stopped>>

\* A request that was in flight meanwhile may have set a deadline.
AlwaysAllowed == TRUE
Allowed == ~paused

Recheck(p) ==
  /\ pc[p] = "slot"
  /\ Goes(p, IF Allowed THEN "send" ELSE "release")
  /\ UNCHANGED <<inFlight, waiters, paused, pauses, early, stopped>>

\* With a cancelled context the request fails at once.
Send(p) ==
  /\ pc[p] = "send"
  /\ Goes(p, IF stopped THEN "release" ELSE "sent")
  /\ UNCHANGED <<inFlight, waiters, paused, pauses, early, stopped>>

\* An answer, a failure, the timeout or the cancellation ends the request.
Finish(p) ==
  /\ pc[p] = "sent"
  /\ Goes(p, "release")
  /\ UNCHANGED <<inFlight, waiters, paused, pauses, early, stopped>>

\* A 429 or 5xx with a Retry-After pauses the origin (recordOutcome).
FinishPausing(p) ==
  /\ pc[p] = "sent" /\ pauses < MaxPauses
  /\ Goes(p, "release")
  /\ paused' = TRUE /\ pauses' = pauses + 1
  /\ early' = {q \in Callers : pc[q] \in {"send", "sent"}}
  /\ UNCHANGED <<inFlight, waiters, stopped>>

DeadlinePasses ==
  /\ paused
  /\ paused' = FALSE /\ early' = {}
  /\ UNCHANGED <<pc, inFlight, waiters, pauses, stopped>>

\* release: the slot goes directly to the next waiter, or is given back.
ForgetsWaiters == TRUE
NobodyWaits == waiters = <<>>

ReleaseSlot(p) ==
  /\ pc[p] = "release" /\ NobodyWaits
  /\ inFlight' = inFlight - 1
  /\ Goes(p, "idle")
  /\ UNCHANGED <<waiters, paused, pauses, early, stopped>>

HandOver(p) ==
  /\ pc[p] = "release" /\ ~NobodyWaits
  /\ pc' = [pc EXCEPT ![p] = "idle", ![Head(waiters)] = "slot"]
  /\ waiters' = Tail(waiters)
  /\ UNCHANGED <<inFlight, paused, pauses, early, stopped>>

Stop ==
  /\ ~stopped
  /\ stopped' = TRUE
  /\ UNCHANGED <<pc, inFlight, waiters, paused, pauses, early>>

-----------------------------------------------------------------------------
Init ==
  /\ pc = [p \in Callers |-> "idle"]
  /\ inFlight = 0 /\ waiters = <<>>
  /\ paused = FALSE /\ pauses = 0 /\ early = {}
  /\ stopped = FALSE

Request(p) ==
  \/ AcquireSlot(p) \/ Saturated(p) \/ AcquireWaits(p) \/ Recheck(p) \/ Send(p)
  \/ Finish(p) \/ FinishPausing(p) \/ ReleaseSlot(p) \/ HandOver(p)

Next ==
  \/ \E p \in Callers : Call(p) \/ Request(p)
  \/ DeadlinePasses \/ Stop

Spec == Init /\ [][Next]_vars

\* A request that is running goes on: every one ends by its timeout.
FairSpec == Spec /\ \A p \in Callers : WF_vars(Request(p))

-----------------------------------------------------------------------------
(* Properties.                                                             *)

States == {"idle", "acquire", "queued", "slot", "send", "sent", "release"}
Holding == {"slot", "send", "sent", "release"}
Holders == {p \in Callers : pc[p] \in Holding}

TypeOK ==
  /\ pc \in [Callers -> States]
  /\ inFlight \in Nat /\ waiters \in Seq(Callers)
  /\ paused \in BOOLEAN /\ pauses \in 0 .. MaxPauses
  /\ early \in SUBSET Callers
  /\ stopped \in BOOLEAN

\* "Caps concurrent NRK requests across ALL operations": the counter counts
\* the callers that hold a slot, through every hand-over, and stays in the cap.
CapHolds == inFlight = Cardinality(Holders) /\ inFlight <= MaxConcurrent

\* No caller waits beside a free slot, every waiting caller is in the queue
\* exactly once, and the queue is bounded: none is woken twice or never.
QueueIsSound ==
  /\ waiters # <<>> => inFlight = MaxConcurrent
  /\ Len(waiters) <= MaxQueued
  /\ \A i, j \in 1 .. Len(waiters) : waiters[i] = waiters[j] => i = j
  /\ \A p \in Callers :
       pc[p] = "queued" <=> \E i \in 1 .. Len(waiters) : waiters[i] = p

\* nrk-api-usage.md: "requests already in flight may finish ... Queued
\* requests recheck them before starting". While the origin is paused, only
\* requests that had passed their second check when the pause began are sent.
PauseHoldsRequestsBack ==
  paused => \A p \in Callers : pc[p] \in {"send", "sent"} => p \in early

\* The cap is a first-in-first-out semaphore of the callers that hold a slot.
Slots == INSTANCE Semaphore WITH holders <- Holders, waiting <- waiters
ImplementsSemaphore == Slots!Spec

\* A request that has to wait for a slot, or for its answer, ends: nobody is
\* left in the queue, before a shutdown, during one or after it.
RequestsEnd == \A p \in Callers : pc[p] # "idle" ~> pc[p] = "idle"
=============================================================================
