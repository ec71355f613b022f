---------------------------- MODULE Activity_proofs ----------------------------
(***************************************************************************)
(* Proofs about Activity, for any feeds, apps and requests, any number of   *)
(* days, and failures and restarts without bound: the types, the counters   *)
(* that add up through flushes, failed writes and restarts, the dashboard's *)
(* number for today, and the cleanup that spares the feeds in use.          *)
(***************************************************************************)
EXTENDS Activity, TLAPS

USE ActivityAssumption

LEMMA LaterType ==
  ASSUME NEW a \in Times, NEW b \in Times
  PROVE  /\ Later(a, b) \in Times /\ Later(a, b) \in {a, b}
         /\ a <= Later(a, b) /\ b <= Later(a, b)
BY DEF Later, Times, Days, Never

-----------------------------------------------------------------------------
(* Types.                                                                  *)

LEMMA EmptyTypes ==
  /\ NoFeeds \in [Feeds -> Times] /\ NoSightings \in Sightings
  /\ NoCounts \in [Days -> Nat] /\ EmptyBatch \in Batches
BY DEF NoFeeds, NoSightings, NoCounts, EmptyBatch, Batches, Sightings, Times, Never,
       Subscribers

LEMMA SightedType ==
  ASSUME now \in Days, NEW p \in [at : Times, subs : Subscribers], NEW s \in Subscribers
  PROVE  Sighted(p, s) \in [at : Times, subs : Subscribers]
BY DEF Sighted, Times

LEMMA WithRequestType ==
  ASSUME now \in Days, batch \in Batches, NEW f \in Feeds, NEW a \in Apps,
         NEW s \in Subscribers
  PROVE  WithRequest(f, a, s) \in Batches
<1>1. batch.clients \in Sightings
  BY DEF Batches
<1>2. batch.clients[f] \in [Apps -> [at : Times, subs : Subscribers]]
  BY <1>1 DEF Sightings
<1>3. Sighted(batch.clients[f][a], s) \in [at : Times, subs : Subscribers]
  BY <1>2, SightedType
<1>4. [batch.clients EXCEPT ![f][a] = Sighted(@, s)] \in Sightings
  BY <1>1, <1>2, <1>3 DEF Sightings
<1>5. [batch.feeds EXCEPT ![f] = now] \in [Feeds -> Times]
  BY DEF Batches, Times
<1>6. [batch.daily EXCEPT ![now] = @ + 1] \in [Days -> Nat]
  BY DEF Batches
<1> QED
  BY <1>4, <1>5, <1>6 DEF WithRequest, Batches

LEMMA ReturnedType ==
  ASSUME batch \in Batches, NEW b \in Batches
  PROVE  Returned(b) \in Batches
<1>1. /\ batch.feeds \in [Feeds -> Times] /\ b.feeds \in [Feeds -> Times]
      /\ batch.clients \in Sightings /\ b.clients \in Sightings
      /\ batch.daily \in [Days -> Nat] /\ b.daily \in [Days -> Nat]
  BY DEF Batches
<1>2. [f \in Feeds |-> Later(b.feeds[f], batch.feeds[f])] \in [Feeds -> Times]
  BY <1>1, LaterType
<1>3. [d \in Days |-> batch.daily[d] + b.daily[d]] \in [Days -> Nat]
  BY <1>1
<1>4. ASSUME NEW f \in Feeds, NEW a \in Apps
      PROVE  (LET newer == batch.clients[f][a] IN
              IF newer.at = Never THEN b.clients[f][a]
              ELSE IF newer.subs = 0 THEN [newer EXCEPT !.subs = b.clients[f][a].subs]
              ELSE newer) \in [at : Times, subs : Subscribers]
  <2>1. /\ batch.clients[f][a] \in [at : Times, subs : Subscribers]
        /\ b.clients[f][a] \in [at : Times, subs : Subscribers]
    BY <1>1 DEF Sightings
  <2> QED
    BY <2>1
<1> DEFINE C == [f \in Feeds |-> [a \in Apps |->
                  LET newer == batch.clients[f][a] IN
                  IF newer.at = Never THEN b.clients[f][a]
                  ELSE IF newer.subs = 0 THEN [newer EXCEPT !.subs = b.clients[f][a].subs]
                  ELSE newer]]
<1>5. C \in Sightings
  BY <1>4 DEF Sightings
<1>6. Returned(b) = [feeds |-> [f \in Feeds |-> Later(b.feeds[f], batch.feeds[f])],
                     clients |-> C,
                     daily |-> [d \in Days |-> batch.daily[d] + b.daily[d]]]
  BY DEF Returned
<1> HIDE DEF C
<1> QED
  BY <1>2, <1>3, <1>5, <1>6 DEF Batches

LEMMA MergedType ==
  ASSUME clients \in Sightings, NEW b \in Batches
  PROVE  MergedClients(b) \in Sightings
<1>1. b.clients \in Sightings
  BY DEF Batches
<1>2. ASSUME NEW f \in Feeds, NEW a \in Apps
      PROVE  /\ Later(clients[f][a].at, b.clients[f][a].at) \in Times
             /\ (IF b.clients[f][a].subs # 0 THEN b.clients[f][a].subs
                 ELSE clients[f][a].subs) \in Subscribers
  <2>1. /\ clients[f][a] \in [at : Times, subs : Subscribers]
        /\ b.clients[f][a] \in [at : Times, subs : Subscribers]
    BY <1>1 DEF Sightings
  <2> QED
    BY <2>1, LaterType
<1> QED
  BY <1>2 DEF MergedClients, Sightings

LEMMA PrunedType ==
  ASSUME NEW counts \in [Days -> Nat], now \in Days
  PROVE  /\ Pruned(counts) \in [Days -> Nat]
         /\ \A d \in Days : Pruned(counts)[d] <= counts[d]
         /\ \A d \in Days : d >= now - HistoryDays => Pruned(counts)[d] = counts[d]
BY DEF Pruned, Days

\* What a turn of the flush loop leaves of the day's counters.
LEMMA TurnKeeps ==
  ASSUME NEW w, NEW counts \in [Days -> Nat], now \in Days, pruned \in Days,
         LoopTurns(w, counts)
  PROVE  /\ daily' \in [Days -> Nat] /\ pruned' \in Days
         /\ \A d \in Days : d >= now - HistoryDays => daily'[d] = counts[d]
BY PrunedType DEF LoopTurns

LEMMA InitType == Init => TypeOK
<1> SUFFICES ASSUME Init PROVE TypeOK
  OBVIOUS
<1>1. now \in Days /\ pruned \in Days /\ phase = "up"
  BY DEF Init, Days
<1>2. flush \in [Flushers -> [pc : {"wait", "taken", "ended", "done", "failed"},
                              taken : Batches]]
  BY EmptyTypes DEF Init, NothingTaken
<1>3. page \in [pc : {"none", "reading", "shown"}, ids : SUBSET Feeds, offered : BOOLEAN,
               day : Days, count : Nat]
  BY DEF Init, NoPage, Days
<1>4. reported \in [Feeds -> [Apps -> Subscribers]]
  BY DEF Init, Subscribers
<1> QED
  BY <1>1, <1>2, <1>3, <1>4, EmptyTypes DEF Init, TypeOK, Times

\* The parts of the type invariant, by the variables they are about.
ProcessType ==
  /\ now \in Days /\ pruned \in Days
  /\ phase \in {"up", "draining", "closing", "closed"}
  /\ handlers \in [Handlers -> Feeds \cup {Idle}]
  /\ requests \in 0 .. MaxRequests /\ trouble \in 0 .. MaxTrouble
BatchType ==
  /\ batch \in Batches
  /\ flush \in [Flushers -> [pc : {"wait", "taken", "ended", "done", "failed"},
                             taken : Batches]]
TableType ==
  /\ series \in SUBSET Feeds /\ activity \in [Feeds -> Times] /\ clients \in Sightings
  /\ daily \in [Days -> Nat] /\ since \in Times
AdminType ==
  /\ page \in [pc : {"none", "reading", "shown"}, ids : SUBSET Feeds, offered : BOOLEAN,
               day : Days, count : Nat]
  /\ cleanup \in SUBSET Feeds
HistoryType ==
  /\ recorded \in [Days -> Nat] /\ requested \in [Feeds -> Times]
  /\ reported \in [Feeds -> [Apps -> Subscribers]]

LEMMA Parts ==
  TypeOK <=> ProcessType /\ BatchType /\ TableType /\ AdminType /\ HistoryType
BY DEF TypeOK, ProcessType, BatchType, TableType, AdminType, HistoryType

LEMMA PartsNext ==
  ProcessType' /\ BatchType' /\ TableType' /\ AdminType' /\ HistoryType' => TypeOK'
BY DEF TypeOK, ProcessType, BatchType, TableType, AdminType, HistoryType

LEMMA NextType == TypeOK /\ [Next]_vars => TypeOK'
<1> SUFFICES ASSUME TypeOK, [Next]_vars PROVE TypeOK'
  OBVIOUS
<1>0. ProcessType /\ BatchType /\ TableType /\ AdminType /\ HistoryType
  BY Parts
<1> USE DEF memory, tables, admin, history
<1>1. CASE Tick
  <2>1. now' \in Days /\ UNCHANGED <<phase, memory, tables, admin, history, requests, trouble>>
    BY <1>0, <1>1 DEF Tick, ProcessType, Days
  <2>2. ProcessType' /\ BatchType'
    BY <1>0, <2>1 DEF ProcessType, BatchType
  <2>3. TableType' /\ AdminType' /\ HistoryType'
    BY <1>0, <2>1 DEF TableType, AdminType, HistoryType
  <2> QED
    BY <2>2, <2>3, PartsNext
<1>2. ASSUME NEW h \in Handlers, NEW f \in Feeds, Accept(h, f)
      PROVE  TypeOK'
  <2>1. ProcessType'
    BY <1>0, <1>2 DEF Accept, ProcessType
  <2>2. BatchType' /\ TableType' /\ AdminType' /\ HistoryType'
    BY <1>0, <1>2 DEF Accept, BatchType, TableType, AdminType, HistoryType
  <2> QED
    BY <2>1, <2>2, PartsNext
<1>3. ASSUME NEW h \in Handlers, NEW a \in Apps, NEW s \in Subscribers, Record(h, a, s)
      PROVE  TypeOK'
  <2>1. handlers[h] \in Feeds
    BY <1>0, <1>3 DEF Record, ProcessType
  <2>2. BatchType'
    BY <1>0, <1>3, <2>1, WithRequestType DEF Record, ProcessType, BatchType
  <2>3. ProcessType' /\ TableType' /\ AdminType'
    BY <1>0, <1>3 DEF Record, ProcessType, TableType, AdminType
  <2>4. recorded' \in [Days -> Nat] /\ requested' \in [Feeds -> Times]
    BY <1>0, <1>3, <2>1 DEF Record, ProcessType, HistoryType, Times
  <2>5. reported' \in [Feeds -> [Apps -> Subscribers]]
    <3>1. reported[handlers[h]] \in [Apps -> Subscribers]
      BY <1>0, <2>1 DEF HistoryType
    <3>2. (IF s = 0 THEN reported[handlers[h]][a] ELSE s) \in Subscribers
      BY <3>1
    <3> QED
      BY <1>0, <1>3, <2>1, <3>1, <3>2 DEF Record, HistoryType
  <2> QED
    BY <2>2, <2>3, <2>4, <2>5, PartsNext DEF HistoryType
<1>4. ASSUME NEW w \in Flushers, TakeBatch(w)
      PROVE  TypeOK'
  <2>1. BatchType'
    BY <1>0, <1>4, EmptyTypes DEF TakeBatch, BatchType, AfterTake
  <2>2. ProcessType' /\ TableType' /\ AdminType' /\ HistoryType'
    BY <1>0, <1>4 DEF TakeBatch, ProcessType, TableType, AdminType, HistoryType
  <2> QED
    BY <2>1, <2>2, PartsNext
<1>5. ASSUME NEW w \in Flushers, FlushActivity(w)
      PROVE  TypeOK'
  <2> DEFINE b == flush[w].taken
  <2>1. b \in Batches
    BY <1>0 DEF BatchType
  <2>2. b.feeds \in [Feeds -> Times] /\ b.daily \in [Days -> Nat]
    BY <2>1 DEF Batches
  <2>3. activity' \in [Feeds -> Times]
    BY <1>0, <1>5, <2>2, LaterType DEF FlushActivity, TableType
  <2>4. clients' \in Sightings
    BY <1>0, <1>5, <2>1, MergedType DEF FlushActivity, TableType
  <2>5. [d \in Days |-> daily[d] + b.daily[d]] \in [Days -> Nat]
    BY <1>0, <2>2 DEF TableType
  <2>6. daily' \in [Days -> Nat] /\ pruned' \in Days
    BY <1>0, <1>5, <2>5, TurnKeeps DEF FlushActivity, ProcessType
  <2>7. ProcessType' /\ AdminType' /\ HistoryType'
    BY <1>0, <1>5, <2>6 DEF FlushActivity, ProcessType, AdminType, HistoryType
  <2>8. TableType'
    BY <1>0, <1>5, <2>3, <2>4, <2>6 DEF FlushActivity, TableType, ProcessType, Times
  <2>9. BatchType'
    BY <1>0, <1>5, EmptyTypes DEF FlushActivity, BatchType, Written
  <2> QED
    BY <2>7, <2>8, <2>9, PartsNext
<1>6. ASSUME NEW w \in Flushers, FlushFails(w)
      PROVE  TypeOK'
  <2>1. flush[w].taken \in Batches
    BY <1>0 DEF BatchType
  <2>2. BatchType'
    BY <1>0, <1>6, <2>1, EmptyTypes, ReturnedType DEF FlushFails, BatchType, Written
  <2>3. daily' \in [Days -> Nat] /\ pruned' \in Days
    BY <1>0, <1>6, TurnKeeps DEF FlushFails, ProcessType, TableType
  <2>4. trouble' \in 0 .. MaxTrouble
    BY <1>0, <1>6 DEF FlushFails, Trouble, ProcessType
  <2>5. ProcessType' /\ TableType' /\ AdminType' /\ HistoryType'
    BY <1>0, <1>6, <2>3, <2>4
       DEF FlushFails, ProcessType, TableType, AdminType, HistoryType
  <2> QED
    BY <2>2, <2>5, PartsNext
<1>7. CASE LoopEnds
  <2>1. BatchType'
    BY <1>0, <1>7 DEF LoopEnds, BatchType, Flushers
  <2>2. ProcessType' /\ TableType' /\ AdminType' /\ HistoryType'
    BY <1>0, <1>7 DEF LoopEnds, ProcessType, TableType, AdminType, HistoryType
  <2> QED
    BY <2>1, <2>2, PartsNext
<1>8. CASE Signal \/ ShutdownReturns \/ CloseStore
  BY <1>0, <1>8, PartsNext DEF Signal, ShutdownReturns, CloseStore, ProcessType, BatchType,
     TableType, AdminType, HistoryType
<1>9. CASE Crash \/ Restart
  <2>1. StartAgain /\ trouble' \in 0 .. MaxTrouble
    BY <1>0, <1>9 DEF Crash, Restart, Trouble, ProcessType
  <2>2. daily' \in [Days -> Nat]
    BY <1>0, <2>1, PrunedType DEF StartAgain, ProcessType, TableType
  <2>3. ProcessType'
    BY <1>0, <2>1 DEF StartAgain, ProcessType
  <2>4. BatchType'
    BY <1>0, <2>1, EmptyTypes DEF StartAgain, BatchType, NothingTaken
  <2>5. TableType'
    BY <1>0, <2>1, <2>2 DEF StartAgain, TableType
  <2>6. AdminType'
    <3>1. NoPage \in [pc : {"none", "reading", "shown"}, ids : SUBSET Feeds,
                      offered : BOOLEAN, day : Days, count : Nat]
      BY DEF NoPage, Days
    <3> QED
      BY <1>0, <2>1, <3>1 DEF StartAgain, AdminType
  <2>7. HistoryType'
    <3>1. ASSUME NEW f \in Feeds, NEW a \in Apps
          PROVE  clients[f][a].subs \in Subscribers
      <4>1. clients[f][a] \in [at : Times, subs : Subscribers]
        BY <1>0 DEF TableType, Sightings
      <4> QED
        BY <4>1
    <3> QED
      BY <1>0, <2>1, <2>2, <3>1 DEF StartAgain, HistoryType, TableType
  <2> QED
    BY <2>3, <2>4, <2>5, <2>6, <2>7, PartsNext
<1>10. CASE LoadPage \/ AddPending \/ Cleanup
  <2>1. AdminType'
    <3>1. Unused \in SUBSET Feeds
      BY <1>0 DEF Unused, TableType
    <3>2. Measured \in BOOLEAN
      BY DEF Measured
    <3>3. daily[now] \in Nat /\ now \in Days /\ 0 \in Days
      BY <1>0 DEF TableType, ProcessType, Days
    <3>4. CASE LoadPage
      BY <1>0, <3>1, <3>2, <3>3, <3>4 DEF LoadPage, AdminType
    <3>5. CASE AddPending
      BY <1>0, <3>3, <3>5 DEF AddPending, AdminType, NoPage
    <3>6. CASE Cleanup
      BY <1>0, <3>1, <3>6 DEF Cleanup, AdminType
    <3> QED
      BY <1>10, <3>4, <3>5, <3>6
  <2>2. ProcessType' /\ BatchType' /\ TableType' /\ HistoryType'
    BY <1>0, <1>10 DEF LoadPage, AddPending, Cleanup, ProcessType, BatchType, TableType,
       HistoryType
  <2> QED
    BY <2>1, <2>2, PartsNext
<1>11. ASSUME NEW f \in Feeds, CleanupDeletes(f) \/ AdminDeletes(f)
       PROVE  TypeOK'
  <2>1. Delete(f) /\ cleanup' \in SUBSET Feeds
    BY <1>0, <1>11 DEF CleanupDeletes, AdminDeletes, AdminType
  <2>2. NoSightings[f] \in [Apps -> [at : Times, subs : Subscribers]]
    BY EmptyTypes DEF Sightings
  <2>3. TableType'
    BY <1>0, <2>1, <2>2 DEF Delete, TableType, Times, Sightings
  <2>4. HistoryType'
    BY <1>0, <2>1 DEF Delete, HistoryType, Times, Subscribers
  <2>5. ProcessType' /\ BatchType' /\ AdminType'
    BY <1>0, <2>1 DEF Delete, ProcessType, BatchType, AdminType
  <2> QED
    BY <2>3, <2>4, <2>5, PartsNext
<1>12. CASE UNCHANGED vars
  BY <1>0, <1>12, PartsNext DEF vars, ProcessType, BatchType, TableType, AdminType,
     HistoryType, Sightings, Batches, Times, Days
<1> QED
  BY <1>1, <1>2, <1>3, <1>4, <1>5, <1>6, <1>7, <1>8, <1>9, <1>10, <1>11, <1>12
     DEF Next, Serving, Flushing, Process, Admin

\* Every variable keeps its type, whatever is flushed, returned or deleted.
THEOREM ActivityTypes == Spec => []TypeOK
<1>1. Init => TypeOK
  BY InitType
<1>2. TypeOK /\ [Next]_vars => TypeOK'
  BY NextType
<1> QED
  BY <1>1, <1>2, PTL DEF Spec

-----------------------------------------------------------------------------
(* The counters add up.                                                    *)

\* Only a flusher that is writing holds anything: what it took is given back
\* or written, never forgotten.
Drained == \A w \in Flushers : flush[w].pc # "taken" => flush[w].taken = EmptyBatch

\* What the two flushers hold of a day's count.
Held(d) == flush["loop"].taken.daily[d] + flush["close"].taken.daily[d]

Counts ==
  \A d \in Days : d >= now - HistoryDays =>
    recorded[d] = daily[d] + batch.daily[d] + Held(d)

CountsInv == TypeOK /\ Drained /\ Counts

LEMMA DailyTypes ==
  ASSUME TypeOK, NEW d \in Days
  PROVE  /\ batch.daily[d] \in Nat /\ daily[d] \in Nat /\ recorded[d] \in Nat
         /\ \A w \in Flushers : flush[w].taken.daily[d] \in Nat
         /\ Held(d) \in Nat /\ now \in Int
<1>1. \A w \in Flushers : flush[w].taken \in Batches
  BY DEF TypeOK
<1>2. \A w \in Flushers : flush[w].taken.daily[d] \in Nat
  BY <1>1 DEF Batches
<1>3. batch.daily[d] \in Nat /\ daily[d] \in Nat /\ recorded[d] \in Nat
  BY DEF TypeOK, Batches
<1>4. now \in Int
  BY DEF TypeOK, Days
<1>5. Held(d) \in Nat
  BY <1>2 DEF Held, Flushers
<1> QED
  BY <1>2, <1>3, <1>4, <1>5

LEMMA DrainedNext == TypeOK /\ Drained /\ [Next]_vars => Drained'
<1> SUFFICES ASSUME TypeOK, Drained, [Next]_vars PROVE Drained'
  OBVIOUS
<1> USE DEF Drained
<1>0. DOMAIN flush = Flushers
  BY DEF TypeOK
<1>1. CASE UNCHANGED flush
  BY <1>1
<1>2. ASSUME NEW w \in Flushers, TakeBatch(w) PROVE Drained'
  BY <1>0, <1>2 DEF TakeBatch
<1>3. ASSUME NEW w \in Flushers, FlushActivity(w) \/ FlushFails(w) PROVE Drained'
  BY <1>0, <1>3 DEF FlushActivity, FlushFails, Written
<1>4. CASE LoopEnds
  BY <1>0, <1>4 DEF LoopEnds
<1>5. CASE Crash \/ Restart
  BY <1>5 DEF Crash, Restart, StartAgain, NothingTaken
<1> QED
  BY <1>1, <1>2, <1>3, <1>4, <1>5 DEF Next, Tick, Serving, Accept, Record, Flushing,
     Process, Signal, ShutdownReturns, CloseStore, Admin, LoadPage, AddPending, Cleanup,
     CleanupDeletes, AdminDeletes, Delete, vars, memory

\* The batch moves to the flusher that takes it.
LEMMA TakeMoves ==
  ASSUME TypeOK, Drained, NEW w \in Flushers, TakeBatch(w), NEW d \in Days
  PROVE  /\ batch'.daily[d] = 0 /\ Held(d)' = Held(d) + batch.daily[d]
         /\ UNCHANGED <<daily, recorded, page, now>>
<1>1. flush[w].taken.daily[d] = 0 /\ batch'.daily[d] = 0
  BY DEF TakeBatch, MayFlush, Drained, AfterTake, EmptyBatch, NoCounts
<1>2. /\ flush'[w].taken = batch
      /\ \A v \in Flushers \ {w} : flush'[v] = flush[v]
  BY DEF TakeBatch, TypeOK
<1>3. Held(d)' = Held(d) + batch.daily[d]
  BY <1>1, <1>2, DailyTypes DEF Held, Flushers
<1> QED
  BY <1>1, <1>3 DEF TakeBatch, tables, admin, history

\* A flusher that ends its write holds nothing.
LEMMA WriteEmpties ==
  ASSUME TypeOK, NEW w \in Flushers, FlushActivity(w) \/ FlushFails(w), NEW d \in Days
  PROVE  Held(d)' = Held(d) - flush[w].taken.daily[d]
<1>1. /\ flush'[w].taken.daily[d] = 0
      /\ \A v \in Flushers \ {w} : flush'[v] = flush[v]
  BY DEF FlushActivity, FlushFails, TypeOK, Written, EmptyBatch, NoCounts
<1> QED
  BY <1>1, DailyTypes DEF Held, Flushers

\* A written batch is in the table; one that could not be written is back.
LEMMA WriteKeeps ==
  ASSUME TypeOK, NEW w \in Flushers, FlushActivity(w) \/ FlushFails(w), NEW d \in Days
  PROVE  /\ batch'.daily[d] >= batch.daily[d]
         /\ batch'.daily[d] + Held(d)' <= batch.daily[d] + Held(d)
         /\ d >= now - HistoryDays =>
              daily'[d] + batch'.daily[d] + Held(d)' = daily[d] + batch.daily[d] + Held(d)
         /\ UNCHANGED <<recorded, page, now>>
<1> DEFINE b == flush[w].taken
<1>1. b.daily[d] \in Nat /\ Held(d)' = Held(d) - b.daily[d]
  BY DailyTypes, WriteEmpties
<1>2. b \in Batches /\ daily \in [Days -> Nat] /\ now \in Days /\ pruned \in Days
  BY DEF TypeOK
<1>3. UNCHANGED <<recorded, page, now>>
  BY DEF FlushActivity, FlushFails, admin, history
<1>4. CASE FlushActivity(w)
  <2> DEFINE counts == [c \in Days |-> daily[c] + b.daily[c]]
  <2>1. counts \in [Days -> Nat] /\ counts[d] = daily[d] + b.daily[d]
    BY <1>2 DEF Batches
  <2>2. LoopTurns(w, counts) /\ UNCHANGED batch
    BY <1>4 DEF FlushActivity
  <2> HIDE DEF counts
  <2>3. d >= now - HistoryDays => daily'[d] = daily[d] + b.daily[d]
    BY <1>2, <2>1, <2>2, TurnKeeps
  <2> QED
    BY <1>1, <1>3, <2>2, <2>3, DailyTypes
<1>5. CASE FlushFails(w)
  <2>1. batch'.daily[d] = batch.daily[d] + b.daily[d]
    BY <1>5 DEF FlushFails, Returned
  <2>2. LoopTurns(w, daily)
    BY <1>5 DEF FlushFails
  <2>3. d >= now - HistoryDays => daily'[d] = daily[d]
    BY <1>2, <2>2, TurnKeeps
  <2> QED
    BY <1>1, <1>3, <2>1, <2>3, DailyTypes
<1> QED
  BY <1>4, <1>5

\* A request counts once, on its day.
LEMMA RecordCounts ==
  ASSUME TypeOK, NEW h \in Handlers, NEW a \in Apps, NEW s \in Subscribers,
         Record(h, a, s), NEW d \in Days
  PROVE  /\ \/ batch'.daily[d] = batch.daily[d] /\ recorded'[d] = recorded[d]
            \/ batch'.daily[d] = batch.daily[d] + 1 /\ recorded'[d] = recorded[d] + 1
         /\ UNCHANGED <<daily, flush, page, now>>
<1>1. batch.daily \in [Days -> Nat] /\ recorded \in [Days -> Nat] /\ now \in Days
  BY DEF TypeOK, Batches
<1>2. /\ batch'.daily = [batch.daily EXCEPT ![now] = @ + 1]
      /\ recorded' = [recorded EXCEPT ![now] = @ + 1]
  BY DEF Record, WithRequest
<1>3. UNCHANGED <<daily, flush, page, now>>
  BY DEF Record, tables, admin
<1> QED
  BY <1>1, <1>2, <1>3

\* A new process starts with what the table has.
LEMMA StartKeeps ==
  ASSUME TypeOK, Crash \/ Restart, NEW d \in Days
  PROVE  /\ recorded'[d] = daily'[d] /\ batch'.daily[d] = 0 /\ Held(d)' = 0
         /\ daily'[d] \in Nat /\ page'.pc # "reading"
<1>1. StartAgain
  BY DEF Crash, Restart
<1>2. daily'[d] \in Nat
  BY <1>1, PrunedType DEF StartAgain, TypeOK
<1>3. page'.pc # "reading"
  BY <1>1 DEF StartAgain, NoPage
<1> QED
  BY <1>1, <1>2, <1>3 DEF StartAgain, NothingTaken, EmptyBatch, NoCounts, Held, Flushers

LEMMA CountsNext == CountsInv /\ [Next]_vars => Counts'
<1> SUFFICES ASSUME CountsInv, [Next]_vars, NEW d \in Days, (d >= now - HistoryDays)'
             PROVE  recorded'[d] = daily'[d] + batch'.daily[d] + Held(d)'
  BY DEF Counts
<1> USE DEF CountsInv
<1>0. now \in Int /\ now' \in Int /\ d \in Int
  <2>1. TypeOK /\ TypeOK'
    BY NextType
  <2> QED
    BY <2>1 DEF TypeOK, Days
<1>a. d >= now - HistoryDays => recorded[d] = daily[d] + batch.daily[d] + Held(d)
  BY DEF Counts
<1>1. CASE UNCHANGED <<batch, flush, daily, recorded>> /\ now' >= now
  BY <1>0, <1>1, <1>a DEF Held
<1>2. ASSUME NEW w \in Flushers, TakeBatch(w)
      PROVE  recorded'[d] = daily'[d] + batch'.daily[d] + Held(d)'
  BY <1>a, <1>2, TakeMoves, DailyTypes
<1>3. ASSUME NEW w \in Flushers, FlushActivity(w) \/ FlushFails(w)
      PROVE  recorded'[d] = daily'[d] + batch'.daily[d] + Held(d)'
  BY <1>a, <1>3, WriteKeeps
<1>4. ASSUME NEW h \in Handlers, NEW a \in Apps, NEW s \in Subscribers, Record(h, a, s)
      PROVE  recorded'[d] = daily'[d] + batch'.daily[d] + Held(d)'
  <2>1. Held(d)' = Held(d)
    BY <1>4, RecordCounts DEF Held
  <2> QED
    BY <1>a, <1>4, <2>1, RecordCounts, DailyTypes
<1>5. CASE Crash \/ Restart
  BY <1>5, StartKeeps
<1>6. CASE LoopEnds
  <2>1. Held(d)' = Held(d)
    BY <1>6 DEF LoopEnds, Held, TypeOK, Flushers
  <2> QED
    BY <1>6, <2>1, <1>a DEF LoopEnds, tables, history
<1> QED
  BY <1>0, <1>1, <1>2, <1>3, <1>4, <1>5, <1>6 DEF Next, Tick, Serving, Accept, Flushing,
     Process, Signal, ShutdownReturns, CloseStore, Admin, LoadPage, AddPending, Cleanup,
     CleanupDeletes, AdminDeletes, Delete, vars, memory, tables, admin, history

LEMMA InitCounts == Init => Drained /\ Counts
BY DEF Init, Drained, Counts, Held, NothingTaken, EmptyBatch, NoCounts, Flushers

\* Each day's count is, once each, in the batch, with a flusher or in the
\* database, whatever fails, restarts or is recorded meanwhile (app.go, stats).
THEOREM CountsAreKept == Spec => []CountsAddUp
<1>1. Init => CountsInv
  BY InitType, InitCounts DEF CountsInv
<1>2. CountsInv /\ [Next]_vars => CountsInv'
  BY NextType, DrainedNext, CountsNext DEF CountsInv
<1>3. CountsInv => CountsAddUp
  <2> SUFFICES ASSUME CountsInv, NEW d \in Days, d >= now - HistoryDays
               PROVE  recorded[d] = daily[d] + batch.daily[d]
                        + flush["loop"].taken.daily[d] + flush["close"].taken.daily[d]
    BY DEF CountsAddUp
  <2>1. recorded[d] = daily[d] + batch.daily[d] + Held(d)
    BY DEF CountsInv, Counts
  <2> QED
    BY <2>1, DailyTypes DEF CountsInv, Held, Flushers
<1> QED
  BY <1>1, <1>2, <1>3, PTL DEF Spec

-----------------------------------------------------------------------------
(* The dashboard's number for today.                                       *)

\* A page being read has counted nothing that is still outside the table.
ReadingInv ==
  page.pc = "reading" =>
    page.count + batch.daily[page.day] + Held(page.day) <= recorded[page.day]

TodayInv == CountsInv /\ ReadingInv

LEMMA ReadingNext == TodayInv /\ [Next]_vars => ReadingInv'
<1> USE DEF TodayInv, CountsInv
<1> SUFFICES ASSUME TodayInv, [Next]_vars, NEW d \in Days, page'.day = d,
                    page'.pc = "reading"
             PROVE  page'.count + batch'.daily[d] + Held(d)' <= recorded'[d]
  <2>1. TodayInv /\ [Next]_vars => page'.day \in Days
    BY NextType DEF TypeOK
  <2> QED
    BY <2>1 DEF ReadingInv, Held
<1>0. /\ page'.count \in Nat
      /\ batch.daily[d] \in Nat /\ daily[d] \in Nat /\ recorded[d] \in Nat
      /\ Held(d) \in Nat
      /\ batch'.daily[d] \in Nat /\ recorded'[d] \in Nat
  <2>1. TypeOK /\ TypeOK'
    BY NextType
  <2>2. page'.count \in Nat
    BY <2>1 DEF TypeOK
  <2>3. batch'.daily[d] \in Nat /\ recorded'[d] \in Nat
    BY <2>1, <2>2 DEF TypeOK, Batches
  <2> QED
    BY <2>1, <2>2, <2>3, DailyTypes
<1>a. UNCHANGED page => page.count + batch.daily[d] + Held(d) <= recorded[d]
  BY DEF ReadingInv
<1>1. CASE UNCHANGED <<batch, flush, recorded, page>>
  BY <1>a, <1>1 DEF Held
<1>2. ASSUME NEW w \in Flushers, TakeBatch(w)
      PROVE  page'.count + batch'.daily[d] + Held(d)' <= recorded'[d]
  BY <1>0, <1>a, <1>2, TakeMoves
<1>3. ASSUME NEW w \in Flushers, FlushActivity(w) \/ FlushFails(w)
      PROVE  page'.count + batch'.daily[d] + Held(d)' <= recorded'[d]
  <2>1. Held(d)' \in Int
    BY <1>0, <1>3, WriteEmpties, DailyTypes
  <2> QED
    BY <1>0, <1>a, <1>3, <2>1, WriteKeeps
<1>4. ASSUME NEW h \in Handlers, NEW a \in Apps, NEW s \in Subscribers, Record(h, a, s)
      PROVE  page'.count + batch'.daily[d] + Held(d)' <= recorded'[d]
  <2>1. Held(d)' = Held(d)
    BY <1>0, <1>4, RecordCounts DEF Held
  <2> QED
    BY <1>0, <1>a, <1>4, <2>1, RecordCounts
<1>5. CASE Crash \/ Restart
  BY <1>0, <1>5, StartKeeps
<1>6. CASE LoopEnds
  <2>1. Held(d)' = Held(d)
    BY <1>6 DEF LoopEnds, Held, TypeOK, Flushers
  <2> QED
    BY <1>6, <1>a, <2>1 DEF LoopEnds, admin, history
<1>7. CASE LoadPage
  <2>1. d = now /\ page'.count = daily[d] /\ UNCHANGED <<batch, flush, recorded>>
    BY <1>7 DEF LoadPage, memory, history
  <2>2. d >= now - HistoryDays
    BY <2>1 DEF TypeOK, Days
  <2>3. recorded[d] = daily[d] + batch.daily[d] + Held(d)
    BY <1>0, <2>2 DEF Counts
  <2>4. Held(d)' = Held(d)
    BY <2>1 DEF Held
  <2> QED
    BY <1>0, <2>1, <2>3, <2>4
<1>8. CASE AddPending
  BY <1>8 DEF AddPending, NoPage
<1> QED
  BY <1>1, <1>2, <1>3, <1>4, <1>5, <1>6, <1>7, <1>8 DEF Next, Tick, Serving, Accept,
     Flushing, Process, Signal, ShutdownReturns, CloseStore, Admin, Cleanup,
     CleanupDeletes, AdminDeletes, Delete, vars, memory, tables, admin, history

\* Whatever is flushed, returned or recorded between the page's two reads,
\* today's number counts no request twice (admin_dashboard.go).
THEOREM TodayIsNeverOvercounted == Spec => []TodayNeverOvercounts
<1>1. Init => TodayInv
  BY InitType, InitCounts DEF TodayInv, CountsInv, ReadingInv, Init, NoPage
<1>2. TodayInv /\ [Next]_vars => TodayInv'
  BY NextType, DrainedNext, CountsNext, ReadingNext DEF TodayInv, CountsInv
<1>3. TodayInv => TodayNeverOvercounts
  <2> SUFFICES ASSUME TodayInv, page.pc = "reading"
               PROVE  page.count + batch.daily[page.day] <= recorded[page.day]
    BY DEF TodayNeverOvercounts, PendingDay
  <2>1. page.day \in Days /\ page.count \in Nat
    BY DEF TodayInv, CountsInv, TypeOK
  <2> QED
    BY <2>1, DailyTypes DEF TodayInv, CountsInv, ReadingInv
<1> QED
  BY <1>1, <1>2, <1>3, PTL DEF Spec

-----------------------------------------------------------------------------
(* The cleanup.                                                            *)

\* The times a feed's last request may be found at.
Places(f) == {activity[f], batch.feeds[f]} \cup {flush[w].taken.feeds[f] : w \in Flushers}

NothingLater == \A f \in Feeds : \A t \in Places(f) : t <= now

\* A feed's last request is in the table, in the batch or with a flusher, and
\* nothing there is later: the table can not be overtaken by something older.
RequestKept ==
  \A f \in Feeds : requested[f] # Never =>
    requested[f] \in Places(f) /\ \A t \in Places(f) : t <= requested[f]

CleanupInv == TypeOK /\ Drained /\ NothingLater /\ RequestKept

LEMMA PlacesTypes ==
  ASSUME TypeOK, NEW f \in Feeds
  PROVE  /\ activity[f] \in Times /\ batch.feeds[f] \in Times /\ requested[f] \in Times
         /\ \A w \in Flushers : flush[w].taken.feeds[f] \in Times
         /\ now \in Days
<1>1. \A w \in Flushers : flush[w].taken \in Batches
  BY DEF TypeOK
<1>2. batch \in Batches
  BY DEF TypeOK
<1> QED
  BY <1>1, <1>2 DEF TypeOK, Batches

LEMMA TimeOrder ==
  /\ \A t \in Times : t \in Int /\ t >= Never
  /\ Never \in Times /\ \A t \in Days : t \in Times /\ t # Never
BY DEF Times, Days, Never

\* Where a feed's times are after a flusher took the batch or ended its write.
LEMMA FlushPlaces ==
  ASSUME TypeOK, Drained, NEW w \in Flushers, NEW f \in Feeds,
         TakeBatch(w) \/ FlushActivity(w) \/ FlushFails(w)
  PROVE  /\ \A t \in Places(f)' : t \in Places(f) \cup {Never}
         /\ \A t \in Places(f) : \E u \in Places(f)' : t <= u
<1> DEFINE b == flush[w].taken
<1>1. /\ flush' \in [Flushers -> [pc : {"wait", "taken", "ended", "done", "failed"},
                                 taken : Batches]]
      /\ \A v \in Flushers \ {w} : flush'[v] = flush[v]
  BY DrainedNext, NextType DEF TypeOK, TakeBatch, FlushActivity, FlushFails, Next, Flushing
<1>2. EmptyBatch.feeds[f] = Never
  BY DEF EmptyBatch, NoFeeds
<1>3. \A v \in Flushers \ {w} : flush'[v].taken.feeds[f] = flush[v].taken.feeds[f]
  BY <1>1
<1>4. /\ b.feeds[f] \in Times /\ batch.feeds[f] \in Times /\ activity[f] \in Times
  BY PlacesTypes
<1>5. CASE TakeBatch(w)
  <2>1. b.feeds[f] = Never
    BY <1>2, <1>5 DEF TakeBatch, MayFlush, Drained
  <2>2. /\ activity'[f] = activity[f] /\ batch'.feeds[f] = Never
        /\ flush'[w].taken.feeds[f] = batch.feeds[f]
    BY <1>2, <1>5 DEF TakeBatch, AfterTake, tables, TypeOK
  <2> QED
    BY <1>3, <1>4, <2>1, <2>2, TimeOrder, PlacesTypes DEF Places
<1>6. CASE FlushActivity(w) \/ FlushFails(w)
  <2>1. flush'[w].taken.feeds[f] = Never
    BY <1>2, <1>6 DEF FlushActivity, FlushFails, Written, TypeOK
  <2>2. \/ /\ activity'[f] = Later(activity[f], b.feeds[f])
           /\ batch'.feeds[f] = batch.feeds[f]
        \/ /\ batch'.feeds[f] = Later(b.feeds[f], batch.feeds[f])
           /\ activity'[f] = activity[f]
    <3>1. CASE FlushActivity(w)
      BY <3>1 DEF FlushActivity
    <3>2. CASE FlushFails(w)
      <4>1. batch' = Returned(b) /\ activity' = activity
        BY <3>2 DEF FlushFails
      <4> QED
        BY <4>1 DEF Returned
    <3> QED
      BY <1>6, <3>1, <3>2
  <2>3. /\ Later(activity[f], b.feeds[f]) \in {activity[f], b.feeds[f]}
        /\ activity[f] <= Later(activity[f], b.feeds[f])
        /\ b.feeds[f] <= Later(activity[f], b.feeds[f])
        /\ Later(b.feeds[f], batch.feeds[f]) \in {b.feeds[f], batch.feeds[f]}
        /\ b.feeds[f] <= Later(b.feeds[f], batch.feeds[f])
        /\ batch.feeds[f] <= Later(b.feeds[f], batch.feeds[f])
    BY <1>4, LaterType
  <2>4. \A t \in Places(f) \cup {Never} : t <= t
    BY PlacesTypes, TimeOrder DEF Places
  <2> QED
    BY <1>3, <2>1, <2>2, <2>3, <2>4 DEF Places
<1> QED
  BY <1>5, <1>6

\* In every other step but Record, Delete and a new start no place changes.
PlacesStay == UNCHANGED <<activity, batch, requested>> /\
              \A w \in Flushers : flush'[w].taken = flush[w].taken

LEMMA OtherSteps ==
  ASSUME TypeOK, [Next]_vars
  PROVE  \/ PlacesStay /\ now' >= now
         \/ \E w \in Flushers :
              (TakeBatch(w) \/ FlushActivity(w) \/ FlushFails(w)) /\ UNCHANGED <<now, requested>>
         \/ \E h \in Handlers, a \in Apps, s \in Subscribers : Record(h, a, s)
         \/ \E f \in Feeds : Delete(f)
         \/ StartAgain
<1>0. now \in Int
  BY DEF TypeOK, Days
<1>1. CASE LoopEnds
  BY <1>0, <1>1 DEF LoopEnds, PlacesStay, TypeOK, tables, history
<1>2. CASE Tick
  BY <1>0, <1>2 DEF Tick, PlacesStay, memory, tables, history
<1>3. ASSUME NEW h \in Handlers, NEW f \in Feeds, Accept(h, f)
      PROVE  PlacesStay /\ now' >= now
  BY <1>0, <1>3 DEF Accept, PlacesStay, history
<1>4. CASE Signal \/ ShutdownReturns \/ CloseStore
  BY <1>0, <1>4 DEF Signal, ShutdownReturns, CloseStore, PlacesStay, memory, tables, history
<1>5. CASE LoadPage \/ AddPending \/ Cleanup
  BY <1>0, <1>5 DEF LoadPage, AddPending, Cleanup, PlacesStay, memory, tables, history
<1>6. CASE UNCHANGED vars
  BY <1>0, <1>6 DEF vars, PlacesStay, memory, tables, history
<1>7. ASSUME NEW w \in Flushers, TakeBatch(w) \/ FlushActivity(w) \/ FlushFails(w)
      PROVE  UNCHANGED <<now, requested>>
  BY <1>7 DEF TakeBatch, FlushActivity, FlushFails, history
<1> QED
  BY <1>1, <1>2, <1>3, <1>4, <1>5, <1>6, <1>7 DEF Next, Serving, Flushing, Process,
     Crash, Restart, Admin, CleanupDeletes, AdminDeletes

LEMMA PlacesNext ==
  TypeOK /\ Drained /\ NothingLater /\ RequestKept /\ [Next]_vars
    => NothingLater' /\ RequestKept'
<1> SUFFICES ASSUME TypeOK, Drained, NothingLater, RequestKept, [Next]_vars, NEW f \in Feeds
             PROVE  /\ \A t \in Places(f)' : t <= now'
                    /\ requested'[f] # Never =>
                         /\ requested'[f] \in Places(f)'
                         /\ \A t \in Places(f)' : t <= requested'[f]
  BY DEF NothingLater, RequestKept
<1>a. /\ now \in Int /\ now >= 0 /\ requested[f] \in Int /\ Never = -1
      /\ now' \in Int /\ now' >= 0
      /\ \A t \in Places(f) : t \in Int /\ t >= Never /\ t <= now
  <2>1. /\ now \in Days /\ requested[f] \in Times
        /\ \A t \in Places(f) : t \in Times /\ t <= now
    BY PlacesTypes DEF NothingLater, Places
  <2>2. now' \in Days
    BY NextType DEF TypeOK
  <2> QED
    BY <2>1, <2>2 DEF Times, Days, Never
<1>b. requested[f] # Never =>
        requested[f] \in Places(f) /\ \A t \in Places(f) : t <= requested[f]
  BY DEF RequestKept
<1>1. CASE PlacesStay /\ now' >= now
  <2>1. Places(f)' = Places(f) /\ requested'[f] = requested[f]
    BY <1>1 DEF PlacesStay, Places
  <2> QED
    BY <1>1, <1>a, <1>b, <2>1
<1>2. ASSUME NEW w \in Flushers, TakeBatch(w) \/ FlushActivity(w) \/ FlushFails(w),
             UNCHANGED <<now, requested>>
      PROVE  /\ \A t \in Places(f)' : t <= now'
             /\ requested'[f] # Never =>
                  /\ requested'[f] \in Places(f)'
                  /\ \A t \in Places(f)' : t <= requested'[f]
  <2>1. /\ \A t \in Places(f)' : t \in Places(f) \cup {Never}
        /\ \A t \in Places(f) : \E u \in Places(f)' : t <= u
    BY <1>2, FlushPlaces
  <2>2. requested[f] # Never => requested[f] >= Never
    BY <1>a, <1>b
  <2>3. ASSUME requested[f] # Never
        PROVE  requested[f] \in Places(f)'
    <3>1. PICK u \in Places(f)' : requested[f] <= u
      BY <1>b, <2>1, <2>3
    <3>2. u \in Places(f) \cup {Never} /\ u <= requested[f]
      BY <1>b, <2>1, <2>2, <2>3
    <3>3. u \in Int
      BY <1>a, <3>2
    <3> QED
      BY <1>a, <3>1, <3>2, <3>3
  <2> QED
    BY <1>2, <1>a, <1>b, <2>1, <2>2, <2>3
<1>3. ASSUME NEW h \in Handlers, NEW a \in Apps, NEW s \in Subscribers, Record(h, a, s)
      PROVE  /\ \A t \in Places(f)' : t <= now'
             /\ requested'[f] # Never =>
                  /\ requested'[f] \in Places(f)'
                  /\ \A t \in Places(f)' : t <= requested'[f]
  <2>1. UNCHANGED <<now, activity, flush>>
    BY <1>3 DEF Record, tables
  <2>2. /\ batch'.feeds = [batch.feeds EXCEPT ![handlers[h]] = now]
        /\ requested' = [requested EXCEPT ![handlers[h]] = now]
    BY <1>3 DEF Record, WithRequest
  <2>3. CASE f = handlers[h]
    <3>1. batch'.feeds[f] = now /\ requested'[f] = now
      BY <2>2, <2>3 DEF TypeOK, Batches
    <3>2. \A t \in Places(f)' : t \in Places(f) \cup {now}
      BY <2>1, <3>1 DEF Places
    <3>3. now \in Places(f)'
      BY <3>1 DEF Places
    <3> QED
      BY <1>a, <2>1, <3>1, <3>2, <3>3
  <2>4. CASE f # handlers[h]
    <3>1. batch'.feeds[f] = batch.feeds[f] /\ requested'[f] = requested[f]
      BY <2>2, <2>4 DEF TypeOK, Batches
    <3>2. Places(f)' = Places(f)
      BY <2>1, <3>1 DEF Places
    <3> QED
      BY <1>a, <1>b, <2>1, <3>1, <3>2
  <2> QED
    BY <2>3, <2>4
<1>4. ASSUME NEW g \in Feeds, Delete(g)
      PROVE  /\ \A t \in Places(f)' : t <= now'
             /\ requested'[f] # Never =>
                  /\ requested'[f] \in Places(f)'
                  /\ \A t \in Places(f)' : t <= requested'[f]
  <2>1. UNCHANGED <<now, batch, flush>>
    BY <1>4 DEF Delete, memory
  <2>2. CASE f = g
    <3>1. activity'[f] = Never /\ requested'[f] = Never
      BY <1>4, <2>2 DEF Delete, TypeOK
    <3>2. \A t \in Places(f)' : t \in Places(f) \cup {Never}
      BY <2>1, <3>1 DEF Places
    <3> QED
      BY <1>a, <2>1, <3>1, <3>2
  <2>3. CASE f # g
    <3>1. activity'[f] = activity[f] /\ requested'[f] = requested[f]
      BY <1>4, <2>3 DEF Delete, TypeOK
    <3>2. Places(f)' = Places(f)
      BY <2>1, <3>1 DEF Places
    <3> QED
      BY <1>a, <1>b, <2>1, <3>1, <3>2
  <2> QED
    BY <2>2, <2>3
<1>5. CASE StartAgain
  <2>1. /\ UNCHANGED <<now, activity>> /\ requested' = activity /\ batch'.feeds[f] = Never
        /\ \A w \in Flushers : flush'[w].taken.feeds[f] = Never
    BY <1>5 DEF StartAgain, NothingTaken, EmptyBatch, NoFeeds
  <2>2. /\ \A t \in Places(f)' : t \in {activity[f], Never}
        /\ activity[f] \in Places(f)' /\ activity[f] \in Places(f)
    BY <2>1 DEF Places
  <2> QED
    BY <1>a, <2>1, <2>2
<1> QED
  BY OtherSteps, <1>1, <1>2, <1>3, <1>4, <1>5

\* What a cleanup takes has waited CleanupAfter in the table, so a later
\* request can only be where the table has not got it from yet.
LEMMA CleanupStep ==
  ASSUME CleanupInv, [Next]_vars, NEW f \in cleanup' \ cleanup
  PROVE  f \in page.ids /\ (Recent(f) => Unflushed(f))
<1>1. CASE Cleanup
  <2>1. f \in Unused /\ Unused = page.ids
    BY <1>1 DEF Cleanup, Confirmed
  <2>2. f \in Feeds /\ (activity[f] = Never \/ now - activity[f] > CleanupAfter)
    BY <2>1 DEF Unused, CleanupInv, TypeOK
  <2>3. Recent(f) => requested[f] # activity[f]
    <3>1. activity[f] \in Int /\ now \in Int
      BY <2>2, PlacesTypes, TimeOrder DEF CleanupInv, Days
    <3> QED
      BY <2>2, <3>1 DEF Recent
  <2>4. requested[f] # Never => requested[f] \in Places(f)
    BY <2>2 DEF CleanupInv, RequestKept
  <2> QED
    BY <2>1, <2>3, <2>4 DEF Recent, Unflushed, Places
<1>2. CASE ~Cleanup
  <2>1. cleanup' \subseteq cleanup
    BY <1>2 DEF Next, Tick, Serving, Accept, Record, Flushing, TakeBatch, FlushActivity,
       FlushFails, LoopEnds, Process, Signal, ShutdownReturns, CloseStore, Crash, Restart,
       StartAgain, Admin, LoadPage, AddPending, CleanupDeletes, AdminDeletes, vars, admin
  <2> QED
    BY <2>1
<1> QED
  BY <1>1, <1>2

\* A cleanup takes no feed requested within CleanupAfter whose request has
\* reached the database, and none the admin was not shown (admin_dashboard.go).
THEOREM CleanupsSpareTheUsed == Spec => CleanupSparesTheUsed
<1>1. Init => CleanupInv
  <2> SUFFICES ASSUME Init, NEW f \in Feeds
               PROVE  (\A t \in Places(f) : t <= now) /\ requested[f] = Never
    BY InitType, InitCounts DEF CleanupInv, NothingLater, RequestKept
  <2> QED
    BY DEF Init, Places, NothingTaken, EmptyBatch, NoFeeds, Never, Flushers
<1>2. CleanupInv /\ [Next]_vars => CleanupInv'
  BY NextType, DrainedNext, PlacesNext DEF CleanupInv
<1>3. CleanupInv /\ [Next]_vars
        => [\A f \in cleanup' \ cleanup : f \in page.ids /\ (Recent(f) => Unflushed(f))]_vars
  BY CleanupStep
<1> QED
  BY <1>1, <1>2, <1>3, PTL DEF Spec, CleanupSparesTheUsed

-----------------------------------------------------------------------------
(* The last flush.                                                         *)

Writing(w) == flush[w].pc = "taken"

\* One flusher writes at a time; the last flush is the shutdown's, and once it
\* has taken the batch, nobody is left to record anything.
LastFlushInv ==
  /\ ~(Writing("loop") /\ Writing("close"))
  /\ flush["close"].pc # "wait" => phase \in {"closing", "closed"}
  /\ phase \in {"closing", "closed"} => \A h \in Handlers : handlers[h] = Idle
  /\ Writing("close") \/ flush["close"].pc = "done"
       => batch = EmptyBatch /\ flush["loop"].taken = EmptyBatch

CloseInv == TypeOK /\ Drained /\ LastFlushInv

\* Giving nothing back to an empty batch leaves it empty.
LEMMA NothingReturned == ASSUME batch = EmptyBatch PROVE Returned(EmptyBatch) = EmptyBatch
<1>1. \A f \in Feeds : NoFeeds[f] = Never /\ Later(NoFeeds[f], NoFeeds[f]) = Never
  BY DEF NoFeeds, Later
<1>2. \A f \in Feeds, a \in Apps : NoSightings[f][a].at = Never
  BY DEF NoSightings
<1>3. [f \in Feeds |-> Later(NoFeeds[f], NoFeeds[f])] = NoFeeds
  BY <1>1 DEF NoFeeds
<1>4. [d \in Days |-> NoCounts[d] + NoCounts[d]] = NoCounts
  BY DEF NoCounts
<1>5. NoSightings = [f \in Feeds |-> [a \in Apps |-> NoSightings[f][a]]]
  BY DEF NoSightings
<1> DEFINE C == [f \in Feeds |-> [a \in Apps |->
                  LET newer == batch.clients[f][a] IN
                  IF newer.at = Never THEN EmptyBatch.clients[f][a]
                  ELSE IF newer.subs = 0
                       THEN [newer EXCEPT !.subs = EmptyBatch.clients[f][a].subs]
                  ELSE newer]]
<1>6. C = [f \in Feeds |-> [a \in Apps |-> NoSightings[f][a]]]
  BY <1>2 DEF EmptyBatch
<1>7. Returned(EmptyBatch)
        = [feeds |-> [f \in Feeds |-> Later(NoFeeds[f], NoFeeds[f])],
           clients |-> C, daily |-> [d \in Days |-> NoCounts[d] + NoCounts[d]]]
  BY DEF Returned, EmptyBatch
<1> HIDE DEF C
<1> QED
  BY <1>3, <1>4, <1>5, <1>6, <1>7 DEF EmptyBatch

LEMMA LastFlushNext ==
  ASSUME HandlersOutliveGrace = FALSE, CloseInv, [Next]_vars
  PROVE  LastFlushInv'
<1> USE DEF LastFlushInv, Writing, CloseInv
<1>0. "loop" \in Flushers /\ "close" \in Flushers /\ DOMAIN flush = Flushers
      /\ \A w \in Flushers : w = "loop" \/ w = "close"
  BY DEF Flushers, TypeOK
<1>1. CASE UNCHANGED <<batch, flush, phase, handlers>>
  BY <1>1
<1>2. ASSUME NEW h \in Handlers, NEW f \in Feeds, Accept(h, f) PROVE LastFlushInv'
  BY <1>2 DEF Accept
<1>3. ASSUME NEW h \in Handlers, NEW a \in Apps, NEW s \in Subscribers, Record(h, a, s)
      PROVE  LastFlushInv'
  <2>1. phase \notin {"closing", "closed"} /\ flush["close"].pc = "wait"
    BY <1>3 DEF Record
  <2>2. UNCHANGED <<flush, phase>>
    BY <1>3 DEF Record
  <2> QED
    BY <2>1, <2>2
<1>4. ASSUME NEW w \in Flushers, TakeBatch(w) PROVE LastFlushInv'
  <2>1. /\ \A v \in Flushers : flush[v].pc # "taken"
        /\ flush[w].pc = "wait" /\ (w = "close" => phase = "closing")
        /\ flush' = [flush EXCEPT ![w] = [pc |-> "taken", taken |-> batch]]
        /\ batch' = EmptyBatch /\ UNCHANGED <<phase, handlers>>
    BY <1>4 DEF TakeBatch, MayFlush, FlushUnlocked, AfterTake
  <2>2. flush["loop"].taken = EmptyBatch
    BY <1>0, <2>1 DEF Drained
  <2> QED
    BY <1>0, <2>1, <2>2
<1>5. ASSUME NEW w \in Flushers, FlushActivity(w) PROVE LastFlushInv'
  <2>1. /\ flush[w].pc = "taken"
        /\ flush' = [flush EXCEPT ![w] = Written(w, TRUE)]
        /\ UNCHANGED <<batch, phase, handlers>>
    BY <1>5 DEF FlushActivity
  <2>2. /\ Written(w, TRUE).pc = IF w = "loop" THEN "wait" ELSE "done"
        /\ Written(w, TRUE).taken = EmptyBatch
    BY DEF Written
  <2> QED
    BY <1>0, <2>1, <2>2
<1>6. ASSUME NEW w \in Flushers, FlushFails(w) PROVE LastFlushInv'
  <2>1. /\ flush[w].pc = "taken"
        /\ flush' = [flush EXCEPT ![w] = Written(w, FALSE)]
        /\ batch' = Returned(flush[w].taken) /\ UNCHANGED <<phase, handlers>>
    BY <1>6 DEF FlushFails
  <2>2. /\ Written(w, FALSE).pc = IF w = "loop" THEN "wait" ELSE "failed"
        /\ Written(w, FALSE).taken = EmptyBatch
    BY DEF Written
  <2>3. CASE w = "close"
    BY <1>0, <2>1, <2>2, <2>3
  <2>4. CASE w = "loop"
    <3>1. flush["close"].pc = "done" => batch' = EmptyBatch
      BY <2>1, <2>4, NothingReturned
    <3> QED
      BY <1>0, <2>1, <2>2, <2>4, <3>1
  <2> QED
    BY <1>0, <2>3, <2>4
<1>7. CASE LoopEnds
  BY <1>0, <1>7 DEF LoopEnds
<1>8. CASE Signal \/ ShutdownReturns \/ CloseStore
  BY <1>0, <1>8 DEF Signal, ShutdownReturns, CloseStore, memory
<1>9. CASE StartAgain
  BY <1>0, <1>9 DEF StartAgain, NothingTaken
<1> QED
  BY <1>1, <1>2, <1>3, <1>4, <1>5, <1>6, <1>7, <1>8, <1>9 DEF Next, Tick, Serving,
     Flushing, Process, Crash, Restart, Admin, LoadPage, AddPending, Cleanup,
     CleanupDeletes, AdminDeletes, Delete, vars, memory

\* "the last counters: a deploy loses nothing" (app.go), as long as the
\* requests end within the shutdown's grace and the last write succeeds.
THEOREM ClosingLosesNothing ==
  ASSUME HandlersOutliveGrace = FALSE PROVE Spec => []CloseLosesNothing
<1>1. Init => CloseInv
  BY InitType, InitCounts
     DEF Init, CloseInv, LastFlushInv, Writing, NothingTaken, Flushers
<1>2. CloseInv /\ [Next]_vars => CloseInv'
  BY NextType, DrainedNext, LastFlushNext DEF CloseInv
<1>3. CloseInv => CloseLosesNothing
  BY DEF CloseInv, LastFlushInv, CloseLosesNothing, Drained, Flushers
<1> QED
  BY <1>1, <1>2, <1>3, PTL DEF Spec

-----------------------------------------------------------------------------
(* The subscribers.                                                        *)

OneWriter == ~(Writing("loop") /\ Writing("close"))

InBatch(f, a) == batch.clients[f][a].subs
Taken(w, f, a) == flush[w].taken.clients[f][a].subs

\* Known, place by place.
Newest(f, a) ==
  IF InBatch(f, a) # 0 THEN InBatch(f, a)
  ELSE IF Taken("loop", f, a) # 0 THEN Taken("loop", f, a)
  ELSE IF Taken("close", f, a) # 0 THEN Taken("close", f, a)
  ELSE clients[f][a].subs

\* Only an app that was seen has reported a count.
SeenInv ==
  \A f \in Feeds, a \in Apps :
    /\ batch.clients[f][a].at = Never => InBatch(f, a) = 0
    /\ \A w \in Flushers : flush[w].taken.clients[f][a].at = Never => Taken(w, f, a) = 0

ReportedInv ==
  \A f \in Feeds, a \in Apps : reported[f][a] # 0 => Newest(f, a) = reported[f][a]

SubscribersInv == TypeOK /\ Drained /\ OneWriter /\ SeenInv /\ ReportedInv

LEMMA KnownIsNewest == ASSUME NEW f, NEW a PROVE Known(f, a) = Newest(f, a)
<1> DEFINE places == <<InBatch(f, a), Taken("loop", f, a), Taken("close", f, a),
                       clients[f][a].subs>>
           some == {i \in 1 .. 4 : places[i] # 0}
           least == CHOOSE i \in some : \A j \in some : i <= j
<1>1. Known(f, a) = IF some = {} THEN 0 ELSE places[least]
  BY DEF Known, InBatch, Taken
<1>2. ASSUME NEW k \in some, \A j \in some : k <= j
      PROVE  least = k
  <2>1. least \in some /\ \A j \in some : least <= j
    BY <1>2
  <2> HIDE DEF least
  <2>2. least <= k /\ k <= least /\ least \in Int /\ k \in Int
    BY <1>2, <2>1
  <2> QED
    BY <2>2
<1>3. \A i \in 1 .. 4 : i = 1 \/ i = 2 \/ i = 3 \/ i = 4
  OBVIOUS
<1>4. CASE places[1] # 0
  <2>1. 1 \in some /\ \A j \in some : 1 <= j
    BY <1>4
  <2> QED
    BY <1>1, <1>2, <1>4, <2>1 DEF Newest
<1>5. CASE places[1] = 0 /\ places[2] # 0
  <2>1. 2 \in some /\ \A j \in some : 2 <= j
    BY <1>3, <1>5
  <2> QED
    BY <1>1, <1>2, <1>5, <2>1 DEF Newest
<1>6. CASE places[1] = 0 /\ places[2] = 0 /\ places[3] # 0
  <2>1. 3 \in some /\ \A j \in some : 3 <= j
    BY <1>3, <1>6
  <2> QED
    BY <1>1, <1>2, <1>6, <2>1 DEF Newest
<1>7. CASE places[1] = 0 /\ places[2] = 0 /\ places[3] = 0 /\ places[4] # 0
  <2>1. 4 \in some /\ \A j \in some : 4 <= j
    BY <1>3, <1>7
  <2> QED
    BY <1>1, <1>2, <1>7, <2>1 DEF Newest
<1>8. CASE places[1] = 0 /\ places[2] = 0 /\ places[3] = 0 /\ places[4] = 0
  <2>1. some = {}
    BY <1>3, <1>8
  <2> QED
    BY <1>1, <1>8, <2>1 DEF Newest
<1> QED
  BY <1>4, <1>5, <1>6, <1>7, <1>8

LEMMA OneWriterNext == TypeOK /\ OneWriter /\ [Next]_vars => OneWriter'
<1> SUFFICES ASSUME TypeOK, OneWriter, [Next]_vars PROVE OneWriter'
  OBVIOUS
<1> USE DEF OneWriter, Writing
<1>0. DOMAIN flush = Flushers /\ "loop" \in Flushers /\ "close" \in Flushers
  BY DEF Flushers, TypeOK
<1>1. CASE UNCHANGED flush
  BY <1>1
<1>2. ASSUME NEW w \in Flushers, TakeBatch(w) PROVE OneWriter'
  BY <1>0, <1>2 DEF TakeBatch, FlushUnlocked
<1>3. ASSUME NEW w \in Flushers, FlushActivity(w) \/ FlushFails(w) PROVE OneWriter'
  BY <1>0, <1>3 DEF FlushActivity, FlushFails, Written
<1>4. CASE LoopEnds
  BY <1>0, <1>4 DEF LoopEnds
<1>5. CASE StartAgain
  BY <1>0, <1>5 DEF StartAgain, NothingTaken
<1> QED
  BY <1>1, <1>2, <1>3, <1>4, <1>5 DEF Next, Tick, Serving, Accept, Record, Flushing,
     Process, Crash, Restart, Signal, ShutdownReturns, CloseStore, Admin, LoadPage,
     AddPending, Cleanup, CleanupDeletes, AdminDeletes, Delete, vars, memory

LEMMA ClientTypes ==
  ASSUME TypeOK, NEW f \in Feeds, NEW a \in Apps
  PROVE  /\ batch.clients[f][a] \in [at : Times, subs : Subscribers]
         /\ clients[f][a] \in [at : Times, subs : Subscribers]
         /\ \A w \in Flushers :
              flush[w].taken.clients[f][a] \in [at : Times, subs : Subscribers]
         /\ reported[f][a] \in Subscribers
         /\ EmptyBatch.clients[f][a] = [at |-> Never, subs |-> 0]
<1>1. \A w \in Flushers : flush[w].taken \in Batches
  BY DEF TypeOK
<1>2. batch.clients \in Sightings /\ clients \in Sightings
      /\ \A w \in Flushers : flush[w].taken.clients \in Sightings
  BY <1>1 DEF TypeOK, Batches
<1>3. reported[f][a] \in Subscribers
  BY DEF TypeOK
<1> QED
  BY <1>2, <1>3 DEF Sightings, EmptyBatch, NoSightings

\* What taking a batch and ending its write do to one app's sightings.
LEMMA FlushSightings ==
  ASSUME TypeOK, Drained, OneWriter, SeenInv, NEW w \in Flushers,
         TakeBatch(w) \/ FlushActivity(w) \/ FlushFails(w), NEW f \in Feeds, NEW a \in Apps
  PROVE  /\ Newest(f, a)' = Newest(f, a)
         /\ batch'.clients[f][a].at = Never => InBatch(f, a)' = 0
         /\ \A v \in Flushers :
              flush'[v].taken.clients[f][a].at = Never => Taken(v, f, a)' = 0
<1> USE DEF InBatch, Taken
<1> DEFINE b == flush[w].taken
<1>0. /\ "loop" \in Flushers /\ "close" \in Flushers /\ DOMAIN flush = Flushers
      /\ \A v \in Flushers : v = "loop" \/ v = "close"
  BY DEF Flushers, TypeOK
<1>a. /\ batch.clients[f][a].at = Never => batch.clients[f][a].subs = 0
      /\ \A v \in Flushers : flush[v].taken.clients[f][a].at = Never
                               => flush[v].taken.clients[f][a].subs = 0
  BY DEF SeenInv
<1>b. EmptyBatch.clients[f][a].subs = 0
  BY ClientTypes
<1>c. \A v \in Flushers \ {w} : flush[v].pc # "taken"
                               => flush[v].taken.clients[f][a].subs = 0
  BY <1>b DEF Drained
<1>1. CASE TakeBatch(w)
  <2>1. /\ \A v \in Flushers : flush[v].taken.clients[f][a].subs = 0
        /\ flush' = [flush EXCEPT ![w] = [pc |-> "taken", taken |-> batch]]
        /\ batch' = EmptyBatch /\ clients' = clients
    BY <1>1, <1>b DEF TakeBatch, FlushUnlocked, AfterTake, Drained, tables
  <2>2. /\ flush'[w].taken = batch
        /\ \A v \in Flushers \ {w} : flush'[v] = flush[v]
    BY <1>0, <2>1
  <2>3. Newest(f, a)' = Newest(f, a)
    BY <1>0, <1>b, <2>1, <2>2 DEF Newest
  <2> QED
    BY <1>0, <1>a, <1>b, <2>1, <2>2, <2>3
<1>2. CASE FlushActivity(w) \/ FlushFails(w)
  <2>1. /\ flush'[w].taken = EmptyBatch
        /\ \A v \in Flushers \ {w} : flush'[v] = flush[v]
    BY <1>0, <1>2 DEF FlushActivity, FlushFails, Written
  <2>2. \A v \in Flushers \ {w} : flush[v].taken.clients[f][a].subs = 0
    BY <1>0, <1>2, <1>c DEF FlushActivity, FlushFails, OneWriter, Writing
  <2>3. \A v \in Flushers : flush'[v].taken.clients[f][a].subs = 0
    BY <1>b, <2>1, <2>2
  <2>4. CASE FlushActivity(w)
    <3>1. batch' = batch /\ clients' = MergedClients(b)
      BY <2>4 DEF FlushActivity
    <3>2. clients'[f][a].subs = IF b.clients[f][a].subs # 0 THEN b.clients[f][a].subs
                                ELSE clients[f][a].subs
      BY <3>1 DEF MergedClients
    <3> QED
      BY <1>0, <1>a, <2>2, <2>3, <3>1, <3>2 DEF Newest
  <2>5. CASE FlushFails(w)
    <3>1. batch' = Returned(b) /\ clients' = clients
      BY <2>5 DEF FlushFails
    <3>2. batch'.clients[f][a]
            = IF batch.clients[f][a].at = Never THEN b.clients[f][a]
              ELSE IF batch.clients[f][a].subs = 0
                   THEN [batch.clients[f][a] EXCEPT !.subs = b.clients[f][a].subs]
              ELSE batch.clients[f][a]
      BY <3>1 DEF Returned
    <3>3. batch'.clients[f][a].subs
            = IF batch.clients[f][a].subs # 0 THEN batch.clients[f][a].subs
              ELSE b.clients[f][a].subs
      BY <1>a, <3>2, ClientTypes
    <3>4. batch'.clients[f][a].at = Never => batch'.clients[f][a].subs = 0
      BY <1>a, <3>2, ClientTypes
    <3> QED
      BY <1>0, <1>a, <2>2, <2>3, <3>1, <3>3, <3>4 DEF Newest
  <2> QED
    BY <1>2, <2>4, <2>5
<1> QED
  BY <1>1, <1>2

\* The steps that touch no sighting, no row of one and no reported count.
SightingsStay == UNCHANGED <<clients, batch, reported>> /\
                 \A w \in Flushers : flush'[w].taken = flush[w].taken

LEMMA SightingSteps ==
  ASSUME TypeOK, [Next]_vars
  PROVE  \/ SightingsStay
         \/ \E w \in Flushers :
              (TakeBatch(w) \/ FlushActivity(w) \/ FlushFails(w)) /\ UNCHANGED reported
         \/ \E h \in Handlers, a \in Apps, s \in Subscribers : Record(h, a, s)
         \/ \E f \in Feeds : Delete(f)
         \/ StartAgain
<1>1. CASE LoopEnds
  BY <1>1 DEF LoopEnds, SightingsStay, TypeOK, tables, history
<1>2. ASSUME NEW h \in Handlers, NEW f \in Feeds, Accept(h, f)
      PROVE  SightingsStay
  BY <1>2 DEF Accept, SightingsStay, history
<1>3. CASE Tick \/ Signal \/ ShutdownReturns \/ CloseStore
  BY <1>3 DEF Tick, Signal, ShutdownReturns, CloseStore, SightingsStay, memory, tables,
     history
<1>4. CASE LoadPage \/ AddPending \/ Cleanup
  BY <1>4 DEF LoadPage, AddPending, Cleanup, SightingsStay, memory, tables, history
<1>5. CASE UNCHANGED vars
  BY <1>5 DEF vars, SightingsStay, memory, tables, history
<1>6. ASSUME NEW w \in Flushers, TakeBatch(w) \/ FlushActivity(w) \/ FlushFails(w)
      PROVE  UNCHANGED reported
  BY <1>6 DEF TakeBatch, FlushActivity, FlushFails, history
<1> QED
  BY <1>1, <1>2, <1>3, <1>4, <1>5, <1>6 DEF Next, Serving, Flushing, Process, Crash,
     Restart, Admin, CleanupDeletes, AdminDeletes

LEMMA SubscribersNext == SubscribersInv /\ [Next]_vars => SeenInv' /\ ReportedInv'
<1> USE DEF SubscribersInv
<1> SUFFICES ASSUME SubscribersInv, [Next]_vars, NEW f \in Feeds, NEW a \in Apps
             PROVE  /\ batch'.clients[f][a].at = Never => InBatch(f, a)' = 0
                    /\ \A w \in Flushers :
                         flush'[w].taken.clients[f][a].at = Never => Taken(w, f, a)' = 0
                    /\ reported'[f][a] # 0 => Newest(f, a)' = reported'[f][a]
  BY DEF SeenInv, ReportedInv
<1>a. /\ batch.clients[f][a].at = Never => InBatch(f, a) = 0
      /\ \A w \in Flushers : flush[w].taken.clients[f][a].at = Never => Taken(w, f, a) = 0
      /\ reported[f][a] # 0 => Newest(f, a) = reported[f][a]
  BY DEF SeenInv, ReportedInv
<1>0. "loop" \in Flushers /\ "close" \in Flushers
  BY DEF Flushers
<1>1. CASE SightingsStay
  BY <1>0, <1>1, <1>a DEF SightingsStay, InBatch, Taken, Newest
<1>2. ASSUME NEW w \in Flushers, TakeBatch(w) \/ FlushActivity(w) \/ FlushFails(w),
             UNCHANGED reported
      PROVE  /\ batch'.clients[f][a].at = Never => InBatch(f, a)' = 0
             /\ \A v \in Flushers :
                  flush'[v].taken.clients[f][a].at = Never => Taken(v, f, a)' = 0
             /\ reported'[f][a] # 0 => Newest(f, a)' = reported'[f][a]
  BY <1>2, <1>a, FlushSightings
<1>3. ASSUME NEW h \in Handlers, NEW app \in Apps, NEW s \in Subscribers, Record(h, app, s)
      PROVE  /\ batch'.clients[f][a].at = Never => InBatch(f, a)' = 0
             /\ \A v \in Flushers :
                  flush'[v].taken.clients[f][a].at = Never => Taken(v, f, a)' = 0
             /\ reported'[f][a] # 0 => Newest(f, a)' = reported'[f][a]
  <2>1. /\ batch'.clients = [batch.clients EXCEPT ![handlers[h]][app] = Sighted(@, s)]
        /\ reported' = [reported EXCEPT ![handlers[h]][app] = IF s = 0 THEN @ ELSE s]
        /\ UNCHANGED <<flush, clients>>
    BY <1>3 DEF Record, WithRequest, tables
  <2>2. /\ batch.clients \in [Feeds -> [Apps -> [at : Times, subs : Subscribers]]]
        /\ reported \in [Feeds -> [Apps -> Subscribers]]
    BY DEF TypeOK, Batches, Sightings
  <2>3. now # Never
    BY DEF TypeOK, Days, Never
  <2>4. CASE f = handlers[h] /\ a = app
    <3>1. /\ batch'.clients[f][a]
                = [at |-> now,
                   subs |-> IF s = 0 THEN batch.clients[f][a].subs ELSE s]
          /\ reported'[f][a] = IF s = 0 THEN reported[f][a] ELSE s
      BY <2>1, <2>2, <2>4 DEF Sighted
    <3>2. batch'.clients[f][a].at # Never /\ UNCHANGED <<flush, clients>>
      BY <2>1, <2>3, <3>1
    <3>3. \A v \in Flushers :
            flush'[v].taken.clients[f][a].at = Never => Taken(v, f, a)' = 0
      BY <1>a, <3>2 DEF Taken
    <3>4. InBatch(f, a)' = IF s = 0 THEN InBatch(f, a) ELSE s
      BY <3>1 DEF InBatch
    <3>5. \A v : Taken(v, f, a)' = Taken(v, f, a)
      BY <3>2 DEF Taken
    <3>6. ASSUME s = 0, reported'[f][a] # 0 PROVE Newest(f, a)' = reported'[f][a]
      BY <1>a, <3>1, <3>2, <3>4, <3>5, <3>6 DEF Newest
    <3>7. ASSUME s # 0 PROVE Newest(f, a)' = reported'[f][a]
      BY <3>1, <3>4, <3>7 DEF Newest
    <3> QED
      BY <3>2, <3>3, <3>6, <3>7
  <2>5. CASE ~(f = handlers[h] /\ a = app)
    <3>1. batch'.clients[f][a] = batch.clients[f][a] /\ reported'[f][a] = reported[f][a]
      BY <2>1, <2>2, <2>5
    <3> QED
      BY <1>a, <2>1, <3>1 DEF InBatch, Taken, Newest
  <2> QED
    BY <2>4, <2>5
<1>4. ASSUME NEW g \in Feeds, Delete(g)
      PROVE  /\ batch'.clients[f][a].at = Never => InBatch(f, a)' = 0
             /\ \A v \in Flushers :
                  flush'[v].taken.clients[f][a].at = Never => Taken(v, f, a)' = 0
             /\ reported'[f][a] # 0 => Newest(f, a)' = reported'[f][a]
  <2>1. UNCHANGED <<batch, flush>>
    BY <1>4 DEF Delete, memory
  <2>2. CASE f = g
    <3>1. reported'[f][a] = 0
      BY <1>4, <2>2 DEF Delete, TypeOK
    <3> QED
      BY <1>a, <2>1, <3>1 DEF InBatch, Taken
  <2>3. CASE f # g
    <3>1. clients'[f] = clients[f] /\ reported'[f] = reported[f]
      BY <1>4, <2>3 DEF Delete, TypeOK, Sightings
    <3> QED
      BY <1>a, <2>1, <3>1 DEF InBatch, Taken, Newest
  <2> QED
    BY <2>2, <2>3
<1>5. CASE StartAgain
  <2>1. /\ batch' = EmptyBatch /\ UNCHANGED clients
        /\ \A w \in Flushers : flush'[w].taken = EmptyBatch
        /\ reported'[f][a] = clients[f][a].subs
    BY <1>5 DEF StartAgain, NothingTaken
  <2>2. EmptyBatch.clients[f][a].subs = 0
    BY ClientTypes
  <2> QED
    BY <1>0, <2>1, <2>2 DEF InBatch, Taken, Newest
<1> QED
  BY SightingSteps, <1>1, <1>2, <1>3, <1>4, <1>5

\* The latest count an app reported survives sightings without a count, failed
\* writes and the order batches are written in (stats.go, store/activity.go).
THEOREM SubscribersAreKept == Spec => []SubscribersKept
<1>1. Init => SubscribersInv
  <2> SUFFICES ASSUME Init, NEW f \in Feeds, NEW a \in Apps
               PROVE  /\ batch.clients[f][a].subs = 0 /\ reported[f][a] = 0
                      /\ \A w \in Flushers : flush[w].taken.clients[f][a].subs = 0
    BY InitType, InitCounts DEF SubscribersInv, OneWriter, Writing, Init, NothingTaken,
       Flushers, SeenInv, ReportedInv, InBatch, Taken
  <2>1. TypeOK
    BY InitType
  <2>2. EmptyBatch.clients[f][a].subs = 0
    BY <2>1, ClientTypes
  <2> QED
    BY <2>2 DEF Init, NothingTaken
<1>2. SubscribersInv /\ [Next]_vars => SubscribersInv'
  BY NextType, DrainedNext, OneWriterNext, SubscribersNext DEF SubscribersInv
<1>3. SubscribersInv => SubscribersKept
  BY KnownIsNewest DEF SubscribersInv, ReportedInv, SubscribersKept
<1> QED
  BY <1>1, <1>2, <1>3, PTL DEF Spec
=============================================================================
