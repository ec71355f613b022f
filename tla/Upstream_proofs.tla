--------------------------- MODULE Upstream_proofs ---------------------------
(***************************************************************************)
(* The cap on NRK requests, proved for any number of callers, any cap, any *)
(* queue length and any number of deadlines. The invariants of Upstream    *)
(* are inductive together; the refinement of the semaphore follows.        *)
(***************************************************************************)
EXTENDS Upstream, FiniteSetTheorems, SequenceTheorems, TLAPS

\* Types hold from the start and through every step of every request.
LEMMA TypeInit == Init => TypeOK
<1> SUFFICES ASSUME Init PROVE TypeOK
  OBVIOUS
<1>1. waiters \in Seq(Callers)
  BY EmptySeq DEF Init
<1>2. pc \in [Callers -> States]
  BY DEF Init, States
<1>3. inFlight \in Nat /\ pauses \in 0 .. MaxPauses /\ early \in SUBSET Callers
  BY LimitsAssumption DEF Init
<1>4. paused \in BOOLEAN /\ stopped \in BOOLEAN
  BY DEF Init
<1> QED
  BY <1>1, <1>2, <1>3, <1>4 DEF TypeOK

\* Every step keeps the types; giving a slot back needs the count to be right.
LEMMA TypeStep == TypeOK /\ CapHolds /\ [Next]_vars => TypeOK'
<1> SUFFICES ASSUME TypeOK, CapHolds, [Next]_vars PROVE TypeOK'
  OBVIOUS
<1> USE DEF TypeOK, States, Goes
<1>1. ASSUME NEW p \in Callers, Call(p) PROVE TypeOK'
  BY <1>1 DEF Call
<1>2. ASSUME NEW p \in Callers, AcquireSlot(p) PROVE TypeOK'
  BY <1>2 DEF AcquireSlot
<1>3. ASSUME NEW p \in Callers, Saturated(p) PROVE TypeOK'
  BY <1>3 DEF Saturated, AfterRefusal
<1>4. ASSUME NEW p \in Callers, AcquireWaits(p) PROVE TypeOK'
  BY <1>4, AppendProperties DEF AcquireWaits, BehindAll
<1>5. ASSUME NEW p \in Callers, Recheck(p) PROVE TypeOK'
  BY <1>5 DEF Recheck
<1>6. ASSUME NEW p \in Callers, Send(p) PROVE TypeOK'
  BY <1>6 DEF Send
<1>7. ASSUME NEW p \in Callers, Finish(p) PROVE TypeOK'
  BY <1>7 DEF Finish
<1>8. ASSUME NEW p \in Callers, FinishPausing(p) PROVE TypeOK'
  BY <1>8, LimitsAssumption DEF FinishPausing
<1>9. ASSUME NEW p \in Callers, ReleaseSlot(p) PROVE TypeOK'
  <2>1. Holders # {} /\ IsFiniteSet(Holders)
    BY <1>9, CallersAssumption, FS_Subset DEF ReleaseSlot, Holders, Holding
  <2>2. inFlight # 0
    BY <2>1, FS_EmptySet DEF CapHolds
  <2> QED
    BY <1>9, <2>2 DEF ReleaseSlot
<1>10. ASSUME NEW p \in Callers, HandOver(p) PROVE TypeOK'
  BY <1>10, HeadTailProperties DEF HandOver, NobodyWaits
<1>11. CASE DeadlinePasses
  BY <1>11 DEF DeadlinePasses
<1>12. CASE Stop
  BY <1>12 DEF Stop
<1>13. CASE UNCHANGED vars
  BY <1>13 DEF vars
<1> QED
  BY <1>1, <1>2, <1>3, <1>4, <1>5, <1>6, <1>7, <1>8, <1>9, <1>10, <1>11, <1>12,
     <1>13 DEF Next, Request

-----------------------------------------------------------------------------
(* The cap and the queue.                                                  *)

\* Only finitely many callers hold a slot.
LEMMA HoldersFinite == IsFiniteSet(Holders)
  BY CallersAssumption, FS_Subset DEF Holders

\* Nobody holds a slot or waits at the start.
LEMMA CapInit == Init => CapHolds /\ QueueIsSound
<1> SUFFICES ASSUME Init PROVE CapHolds /\ QueueIsSound
  OBVIOUS
<1>1. Holders = {}
  BY DEF Init, Holders, Holding
<1>2. CapHolds
  BY <1>1, FS_EmptySet, LimitsAssumption DEF Init, CapHolds
<1>3. Len(waiters) = 0 /\ waiters = <<>>
  BY EmptySeq DEF Init
<1>4. QueueIsSound
  BY <1>3, LimitsAssumption DEF Init, QueueIsSound
<1> QED
  BY <1>2, <1>4

\* What a step does to the callers that hold a slot: most leave them alone.
LEMMA SameHolders ==
  ASSUME Holders' = Holders, inFlight' = inFlight, CapHolds
  PROVE  CapHolds'
  BY DEF CapHolds

\* A step that touches neither the queue nor who waits keeps it sound.
LEMMA SameQueue ==
  ASSUME waiters' = waiters, inFlight' = inFlight, QueueIsSound,
         \A p \in Callers : pc'[p] = "queued" <=> pc[p] = "queued"
  PROVE  QueueIsSound'
  BY DEF QueueIsSound

\* The first in line is one of the callers that wait.
LEMMA HeadIsQueued ==
  ASSUME TypeOK, QueueIsSound, waiters # <<>>
  PROVE  Head(waiters) \in Callers /\ Head(waiters) = waiters[1]
         /\ pc[Head(waiters)] = "queued"
<1>1. Len(waiters) \in Nat \ {0} /\ Head(waiters) \in Callers
  BY EmptySeq, HeadTailProperties DEF TypeOK
<1>2. Head(waiters) = waiters[1] /\ 1 \in 1 .. Len(waiters)
  BY <1>1 DEF TypeOK
<1> QED
  BY <1>1, <1>2 DEF QueueIsSound

\* The counter counts the callers that hold a slot, and stays in the cap.
LEMMA CapStep == TypeOK /\ CapHolds /\ QueueIsSound /\ [Next]_vars => CapHolds'
<1> SUFFICES ASSUME TypeOK, CapHolds, QueueIsSound, [Next]_vars PROVE CapHolds'
  OBVIOUS
<1> USE DEF Goes, Holders, Holding, TypeOK
<1>1. ASSUME NEW p \in Callers, Call(p) PROVE CapHolds'
  <2>1. Holders' = Holders /\ inFlight' = inFlight
    BY <1>1 DEF Call
  <2> QED
    BY <2>1, SameHolders
<1>2. ASSUME NEW p \in Callers, AcquireSlot(p) PROVE CapHolds'
  <2>1. Holders' = Holders \cup {p} /\ p \notin Holders
    BY <1>2 DEF AcquireSlot
  <2>2. Cardinality(Holders') = Cardinality(Holders) + 1
    BY <2>1, HoldersFinite, FS_AddElement
  <2> QED
    BY <1>2, <2>2, LimitsAssumption DEF AcquireSlot, CapHolds, HasFreeSlot
<1>3. ASSUME NEW p \in Callers, Saturated(p) \/ AcquireWaits(p) PROVE CapHolds'
  <2>1. Holders' = Holders /\ inFlight' = inFlight
    BY <1>3 DEF Saturated, AfterRefusal, AcquireWaits
  <2> QED
    BY <2>1, SameHolders
<1>4. ASSUME NEW p \in Callers,
             Recheck(p) \/ Send(p) \/ Finish(p) \/ FinishPausing(p)
      PROVE  CapHolds'
  <2>1. Holders' = Holders /\ inFlight' = inFlight
    BY <1>4 DEF Recheck, Send, Finish, FinishPausing
  <2> QED
    BY <2>1, SameHolders
<1>5. ASSUME NEW p \in Callers, ReleaseSlot(p) PROVE CapHolds'
  <2>1. Holders' = Holders \ {p} /\ p \in Holders
    BY <1>5 DEF ReleaseSlot
  <2>2. Cardinality(Holders') = Cardinality(Holders) - 1
    <3> HIDE DEF Holders
    <3> QED
      BY <2>1, HoldersFinite, FS_RemoveElement
  <2> QED
    BY <1>5, <2>2, LimitsAssumption DEF ReleaseSlot, CapHolds
<1>6. ASSUME NEW p \in Callers, HandOver(p) PROVE CapHolds'
  <2> DEFINE next == Head(waiters)
  <2>1. next \in Callers /\ pc[next] = "queued"
    BY <1>6, HeadIsQueued DEF HandOver, NobodyWaits
  <2>2. pc[p] = "release" /\ p # next
    BY <1>6, <2>1 DEF HandOver
  <2>3. Holders' = (Holders \ {p}) \cup {next}
    BY <1>6, <2>1, <2>2 DEF HandOver
  <2>4. p \in Holders /\ next \notin Holders \ {p}
    BY <2>1, <2>2
  <2>5. /\ IsFiniteSet(Holders \ {p})
        /\ Cardinality(Holders \ {p}) = Cardinality(Holders) - 1
    <3> HIDE DEF Holders, next
    <3> QED
      BY <2>4, HoldersFinite, FS_RemoveElement
  <2>6. Cardinality(Holders') = Cardinality(Holders)
    <3> HIDE DEF Holders, next
    <3>1. Cardinality((Holders \ {p}) \cup {next}) = Cardinality(Holders) - 1 + 1
      BY <2>4, <2>5, FS_AddElement
    <3>2. Cardinality(Holders) \in Nat
      BY HoldersFinite, FS_CardinalityType
    <3> QED
      BY <2>3, <3>1, <3>2
  <2> QED
    BY <1>6, <2>6 DEF HandOver, CapHolds
<1>7. CASE DeadlinePasses \/ Stop \/ UNCHANGED vars
  <2>1. Holders' = Holders /\ inFlight' = inFlight
    BY <1>7 DEF DeadlinePasses, Stop, vars
  <2> QED
    BY <2>1, SameHolders
<1> QED
  BY <1>1, <1>2, <1>3, <1>4, <1>5, <1>6, <1>7 DEF Next, Request

\* Nobody waits beside a free slot; the queue is who waits, once each.
LEMMA QueueStep == TypeOK /\ CapHolds /\ QueueIsSound /\ [Next]_vars => QueueIsSound'
<1> SUFFICES ASSUME TypeOK, CapHolds, QueueIsSound, [Next]_vars PROVE QueueIsSound'
  OBVIOUS
<1> USE DEF Goes, TypeOK
<1>1. ASSUME NEW p \in Callers, Call(p) \/ Saturated(p) PROVE QueueIsSound'
  BY <1>1, SameQueue DEF Call, Saturated, AfterRefusal
<1>2. ASSUME NEW p \in Callers, AcquireSlot(p) PROVE QueueIsSound'
  <2>1. waiters = <<>>
    BY <1>2, LimitsAssumption DEF AcquireSlot, HasFreeSlot, QueueIsSound
  <2>2. waiters' = <<>> /\ Len(waiters') = 0
    BY <1>2, <2>1, EmptySeq DEF AcquireSlot
  <2>3. \A q \in Callers : pc[q] # "queued"
    BY <2>1, EmptySeq DEF QueueIsSound
  <2>4. \A q \in Callers : pc'[q] # "queued"
    BY <1>2, <2>3 DEF AcquireSlot
  <2> QED
    BY <2>2, <2>4, LimitsAssumption DEF QueueIsSound
<1>3. ASSUME NEW p \in Callers, AcquireWaits(p) PROVE QueueIsSound'
  <2>1. /\ pc[p] = "acquire" /\ pc' = [pc EXCEPT ![p] = "queued"]
        /\ waiters' = Append(waiters, p) /\ inFlight' = inFlight
        /\ Len(waiters) < MaxQueued /\ inFlight >= MaxConcurrent
    BY <1>3, LenProperties, LimitsAssumption
    DEF AcquireWaits, BehindAll, HasFreeSlot, QueueIsFull
  <2>2. /\ Len(waiters) \in Nat /\ Len(waiters') = Len(waiters) + 1
        /\ \A i \in 1 .. Len(waiters) : waiters'[i] = waiters[i]
        /\ waiters'[Len(waiters) + 1] = p
    BY <2>1, AppendProperties, LenProperties
  <2>3. \A i \in 1 .. Len(waiters) : waiters[i] # p
    BY <2>1 DEF QueueIsSound
  <2>4. waiters' # <<>> => inFlight' = MaxConcurrent
    BY <2>1, LimitsAssumption DEF CapHolds
  <2>5. Len(waiters') <= MaxQueued
    BY <2>1, <2>2, LimitsAssumption
  <2>6. \A i, j \in 1 .. Len(waiters') : waiters'[i] = waiters'[j] => i = j
    BY <2>2, <2>3 DEF QueueIsSound
  <2>7. \A q \in Callers :
          pc'[q] = "queued" <=> \E i \in 1 .. Len(waiters') : waiters'[i] = q
    <3> SUFFICES ASSUME NEW q \in Callers
                 PROVE  pc'[q] = "queued" <=>
                        \E i \in 1 .. Len(waiters') : waiters'[i] = q
      OBVIOUS
    <3>1. CASE q = p
      BY <3>1, <2>1, <2>2
    <3>2. CASE q # p
      <4>1. pc'[q] = pc[q]
        BY <3>2, <2>1
      <4>2. (\E i \in 1 .. Len(waiters') : waiters'[i] = q)
              <=> (\E i \in 1 .. Len(waiters) : waiters[i] = q)
        BY <3>2, <2>2
      <4> QED
        BY <4>1, <4>2 DEF QueueIsSound
    <3> QED
      BY <3>1, <3>2
  <2> QED
    BY <2>4, <2>5, <2>6, <2>7 DEF QueueIsSound
<1>4. ASSUME NEW p \in Callers,
             Recheck(p) \/ Send(p) \/ Finish(p) \/ FinishPausing(p)
      PROVE  QueueIsSound'
  BY <1>4, SameQueue DEF Recheck, Send, Finish, FinishPausing
<1>5. ASSUME NEW p \in Callers, ReleaseSlot(p) PROVE QueueIsSound'
  <2>1. waiters = <<>> /\ waiters' = <<>> /\ Len(waiters) = 0
    BY <1>5, EmptySeq DEF ReleaseSlot, NobodyWaits
  <2>2. \A q \in Callers : pc'[q] # "queued"
    BY <1>5, <2>1 DEF ReleaseSlot, QueueIsSound
  <2> QED
    BY <2>1, <2>2, LimitsAssumption DEF QueueIsSound
<1>6. ASSUME NEW p \in Callers, HandOver(p) PROVE QueueIsSound'
  <2> DEFINE next == Head(waiters)
  <2>1. /\ next \in Callers /\ pc[next] = "queued" /\ next = waiters[1]
        /\ Len(waiters) \in Nat \ {0} /\ Len(waiters') = Len(waiters) - 1
        /\ \A i \in 1 .. Len(waiters') : waiters'[i] = waiters[i + 1]
    BY <1>6, HeadIsQueued, HeadTailProperties, EmptySeq DEF HandOver, NobodyWaits
  <2>2. pc[p] = "release" /\ pc' = [pc EXCEPT ![p] = "idle", ![next] = "slot"]
    BY <1>6 DEF HandOver
  <2>3. waiters # <<>> /\ inFlight' = inFlight
    BY <1>6 DEF HandOver, NobodyWaits
  <2>4. inFlight' = MaxConcurrent /\ Len(waiters') <= MaxQueued
    BY <2>1, <2>3, LimitsAssumption DEF QueueIsSound
  <2> HIDE DEF next
  <2>5. \A i, j \in 1 .. Len(waiters') : waiters'[i] = waiters'[j] => i = j
    BY <2>1 DEF QueueIsSound
  <2>6. \A q \in Callers :
          pc'[q] = "queued" <=> \E i \in 1 .. Len(waiters') : waiters'[i] = q
    <3> SUFFICES ASSUME NEW q \in Callers
                 PROVE  pc'[q] = "queued" <=>
                        \E i \in 1 .. Len(waiters') : waiters'[i] = q
      OBVIOUS
    <3>1. CASE q = next
      <4>1. \A i \in 1 .. Len(waiters') : waiters[i + 1] # next
        BY <2>1 DEF QueueIsSound
      <4>2. pc'[q] # "queued"
        BY <3>1, <2>1, <2>2
      <4> QED
        BY <3>1, <4>1, <4>2, <2>1
    <3>2. CASE q # next
      <4>1. pc'[q] = "queued" <=> pc[q] = "queued"
        BY <3>2, <2>2
      <4>2. ASSUME NEW i \in 1 .. Len(waiters), waiters[i] = q
            PROVE  \E j \in 1 .. Len(waiters') : waiters'[j] = q
        <5>1. i # 1
          BY <4>2, <3>2, <2>1
        <5>2. i - 1 \in 1 .. Len(waiters') /\ waiters'[i - 1] = q
          BY <4>2, <5>1, <2>1
        <5> QED
          BY <5>2
      <4>3. ASSUME NEW j \in 1 .. Len(waiters'), waiters'[j] = q
            PROVE  \E i \in 1 .. Len(waiters) : waiters[i] = q
        <5>1. j + 1 \in 1 .. Len(waiters) /\ waiters[j + 1] = q
          BY <4>3, <2>1
        <5> QED
          BY <5>1
      <4> QED
        BY <4>1, <4>2, <4>3 DEF QueueIsSound
    <3> QED
      BY <3>1, <3>2
  <2> QED
    BY <2>4, <2>5, <2>6 DEF QueueIsSound
<1>7. CASE DeadlinePasses \/ Stop \/ UNCHANGED vars
  BY <1>7, SameQueue DEF DeadlinePasses, Stop, vars
<1> QED
  BY <1>1, <1>2, <1>3, <1>4, <1>5, <1>6, <1>7 DEF Next, Request

-----------------------------------------------------------------------------
(* The theorems.                                                           *)

\* The cap's invariants are inductive together.
THEOREM CapIsInductive == Spec => [](TypeOK /\ CapHolds /\ QueueIsSound)
<1>1. Init => TypeOK /\ CapHolds /\ QueueIsSound
  BY TypeInit, CapInit
<1>2. TypeOK /\ CapHolds /\ QueueIsSound /\ [Next]_vars
        => (TypeOK /\ CapHolds /\ QueueIsSound)'
  BY TypeStep, CapStep, QueueStep
<1> QED
  BY <1>1, <1>2, PTL DEF Spec

\* The state of http.go keeps its types for every number of callers: above
\* all, inFlight is never decremented below zero.
THEOREM TypeCorrect == Spec => []TypeOK
  BY CapIsInductive, PTL

\* acquire and release keep at most maxConcurrentUpstream requests going, and
\* inFlight counts exactly the callers that hold a slot.
THEOREM CapAlwaysHolds == Spec => []CapHolds
  BY CapIsInductive, PTL

\* The waiter list of acquire and release loses nobody, wakes nobody twice,
\* is bounded, and is empty whenever a slot is free.
THEOREM QueueAlwaysSound == Spec => []QueueIsSound
  BY CapIsInductive, PTL

\* While a retry deadline is pending, only requests that had passed their
\* second check before it was set are sent.
THEOREM PauseAlwaysHolds == Spec => []PauseHoldsRequestsBack
<1>1. Init => PauseHoldsRequestsBack
  BY DEF Init, PauseHoldsRequestsBack
<1>2. ASSUME TypeOK, PauseHoldsRequestsBack, [Next]_vars
      PROVE  PauseHoldsRequestsBack'
  <2> USE <1>2 DEF PauseHoldsRequestsBack, Goes, TypeOK
  <2>1. ASSUME NEW p \in Callers, Recheck(p) PROVE PauseHoldsRequestsBack'
    BY <2>1 DEF Recheck, Allowed
  <2>2. ASSUME NEW p \in Callers, FinishPausing(p) PROVE PauseHoldsRequestsBack'
    BY <2>2 DEF FinishPausing
  <2>3. ASSUME NEW p \in Callers, HandOver(p) PROVE PauseHoldsRequestsBack'
    BY <2>3 DEF HandOver
  <2>4. ASSUME NEW p \in Callers,
               \/ Call(p) \/ AcquireSlot(p) \/ Saturated(p) \/ AcquireWaits(p)
               \/ Send(p) \/ Finish(p) \/ ReleaseSlot(p)
        PROVE  PauseHoldsRequestsBack'
    BY <2>4 DEF Call, AcquireSlot, Saturated, AfterRefusal, AcquireWaits, Send,
       Finish, ReleaseSlot
  <2>5. CASE DeadlinePasses \/ Stop \/ UNCHANGED vars
    BY <2>5 DEF DeadlinePasses, Stop, vars
  <2> QED
    BY <2>1, <2>2, <2>3, <2>4, <2>5 DEF Next, Request
<1> QED
  BY <1>1, <1>2, TypeCorrect, PTL DEF Spec

-----------------------------------------------------------------------------
(* The cap implements the first-in-first-out semaphore.                    *)

\* The instance's copy of Cardinality is the one the invariants speak of.
LEMMA SameCardinality == \A S : Slots!Cardinality(S) = Cardinality(S)
  BY DEF Cardinality, Slots!Cardinality

\* The semaphore starts free.
LEMMA SlotsInit == Init => Slots!Init
  BY DEF Init, Slots!Init, Holders, Holding

\* Every step of a caller is a step of the semaphore or leaves it alone.
LEMMA SlotsStep ==
  TypeOK /\ CapHolds /\ QueueIsSound /\ [Next]_vars
    => [Slots!Next]_<<Holders, waiters>>
<1> SUFFICES ASSUME TypeOK, CapHolds, QueueIsSound, [Next]_vars
             PROVE  Slots!Next \/ UNCHANGED <<Holders, waiters>>
  OBVIOUS
<1> USE DEF Goes, Holders, Holding, TypeOK
<1>1. ASSUME NEW p \in Callers, AcquireSlot(p) PROVE Slots!Next
  <2>1. Holders' = Holders \cup {p} /\ p \notin Holders /\ waiters' = waiters
    BY <1>1 DEF AcquireSlot
  <2>2. Cardinality(Holders) < MaxConcurrent
    BY <1>1 DEF AcquireSlot, HasFreeSlot, CapHolds
  <2>3. waiters = <<>>
    BY <1>1, LimitsAssumption DEF AcquireSlot, HasFreeSlot, QueueIsSound
  <2> QED
    BY <2>1, <2>2, <2>3, SameCardinality DEF Slots!Next, Slots!Enter
<1>2. ASSUME NEW p \in Callers, AcquireWaits(p) PROVE Slots!Next
  <2>1. Holders' = Holders /\ p \notin Holders /\ waiters' = Append(waiters, p)
    BY <1>2 DEF AcquireWaits, BehindAll
  <2>2. Cardinality(Holders) = MaxConcurrent /\ Len(waiters) < MaxQueued
    BY <1>2, LenProperties, LimitsAssumption
    DEF AcquireWaits, HasFreeSlot, QueueIsFull, CapHolds
  <2>3. p \notin Slots!Waiting
    BY <1>2 DEF AcquireWaits, QueueIsSound, Slots!Waiting
  <2> QED
    BY <2>1, <2>2, <2>3, SameCardinality DEF Slots!Next, Slots!Wait
<1>3. ASSUME NEW p \in Callers, ReleaseSlot(p) PROVE Slots!Next
  <2>1. Holders' = Holders \ {p} /\ p \in Holders /\ waiters' = waiters /\ waiters = <<>>
    BY <1>3 DEF ReleaseSlot, NobodyWaits
  <2> QED
    BY <2>1 DEF Slots!Next, Slots!Leave
<1>4. ASSUME NEW p \in Callers, HandOver(p) PROVE Slots!Next
  <2> DEFINE next == Head(waiters)
  <2>1. next \in Callers /\ pc[next] = "queued"
    BY <1>4, HeadIsQueued DEF HandOver, NobodyWaits
  <2>2. Holders' = (Holders \ {p}) \cup {next} /\ p \in Holders
    BY <1>4, <2>1 DEF HandOver
  <2>3. waiters # <<>> /\ waiters' = Tail(waiters)
    BY <1>4 DEF HandOver, NobodyWaits
  <2> QED
    BY <2>2, <2>3 DEF Slots!Next, Slots!Leave
<1>5. ASSUME NEW p \in Callers,
             \/ Call(p) \/ Saturated(p) \/ Recheck(p) \/ Send(p)
             \/ Finish(p) \/ FinishPausing(p)
      PROVE  UNCHANGED <<Holders, waiters>>
  BY <1>5 DEF Call, Saturated, AfterRefusal, Recheck, Send, Finish, FinishPausing
<1>6. CASE DeadlinePasses \/ Stop \/ UNCHANGED vars
  BY <1>6 DEF DeadlinePasses, Stop, vars
<1> QED
  BY <1>1, <1>2, <1>3, <1>4, <1>5, <1>6 DEF Next, Request

\* The counter, the waiter list and the hand-over of http.go implement the
\* semaphore: every step enters, waits, leaves or changes nothing.
THEOREM UpstreamImplementsSemaphore == Spec => ImplementsSemaphore
<1>1. Init => Slots!Init
  BY SlotsInit
<1>2. TypeOK /\ CapHolds /\ QueueIsSound /\ [Next]_vars
        => [Slots!Next]_<<Holders, waiters>>
  BY SlotsStep
<1> QED
  BY <1>1, <1>2, CapIsInductive, PTL DEF Spec, ImplementsSemaphore, Slots!Spec
=============================================================================
