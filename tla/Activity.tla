------------------------------- MODULE Activity -------------------------------
(***************************************************************************)
(* The dashboard's counters: what requests record in memory (stats), the   *)
(* batch the flush loop and the shutdown write to the database (app,       *)
(* store/activity.go), the dashboard page that adds the two up, and the    *)
(* cleanup that deletes the feeds nobody asked for.                        *)
(*                                                                         *)
(* Time is a day number: the counters are per day, and the cleanup counts  *)
(* in days. A clock read and the lock taken right after it are one step.   *)
(***************************************************************************)
EXTENDS Integers, FiniteSets

CONSTANTS
  Feeds, Apps,         \* feed ids, and the names ClientName reduces apps to
  Handlers,            \* requests that may be in flight together
  MaxSubscribers,      \* the counts an app may report (1 000 000)
  CleanupAfter,        \* days without a request before a cleanup (180)
  HistoryDays,         \* days of totals kept (400)
  MaxTime,             \* bound: the clock
  MaxRequests,         \* bound: requests recorded
  MaxTrouble,          \* bound: failed writes and crashes
  HandlersOutliveGrace \* requests may run on after the shutdown's grace

ASSUME ActivityAssumption ==
  /\ CleanupAfter \in Nat /\ HistoryDays \in Nat /\ MaxTime \in Nat
  /\ MaxSubscribers \in Nat
  /\ MaxRequests \in Nat /\ MaxTrouble \in Nat /\ HandlersOutliveGrace \in BOOLEAN

VARIABLES
  now, phase, pruned,  \* clock; the process; flushLoop's day of the last prune
  handlers,            \* requests being answered
  batch, flush,        \* Stats' batch; the two flushers with what they took
  series,              \* rows of series
  activity, clients,   \* rows of feed_activity and feed_clients
  daily, since,        \* rows of daily_stats; app_state "activity-since"
  page, cleanup,       \* the admin's loaded page; ids a cleanup has to delete
  recorded, requested, \* history: counts, last request and last reported
  reported,            \*   subscribers that were recorded and not crashed away
  requests, trouble    \* how much of the two bounds is used

memory   == <<pruned, handlers, batch, flush>>
tables   == <<series, activity, clients, daily, since>>
admin    == <<page, cleanup>>
history  == <<recorded, requested, reported>>
vars == <<now, phase, memory, tables, admin, history, requests, trouble>>

Days == 0 .. MaxTime
Never == -1                                    \* the zero time
Times == Days \cup {Never}
Subscribers == 0 .. MaxSubscribers             \* 0: none reported
Later(a, b) == IF a > b THEN a ELSE b

NoFeeds == [f \in Feeds |-> Never]
NoSightings == [f \in Feeds |-> [a \in Apps |-> [at |-> Never, subs |-> 0]]]
NoCounts == [d \in Days |-> 0]
EmptyBatch == [feeds |-> NoFeeds, clients |-> NoSightings, daily |-> NoCounts]

\* The flush loop, and Close's last flush.
Flushers == {"loop", "close"}
NothingTaken == [w \in Flushers |-> [pc |-> "wait", taken |-> EmptyBatch]]
Idle == "idle"
NoPage == [pc |-> "none", ids |-> {}, offered |-> FALSE, day |-> 0, count |-> 0]

Trouble == trouble < MaxTrouble /\ trouble' = trouble + 1

Tick ==
  /\ now < MaxTime
  /\ now' = now + 1
  /\ UNCHANGED <<phase, memory, tables, admin, history, requests, trouble>>

-----------------------------------------------------------------------------
(* A feed request, answered and then recorded (respondFeed).               *)

\* The feed is fetched first if it is new; a server that shuts down accepts
\* nothing more.
Accept(h, f) ==
  /\ phase = "up" /\ handlers[h] = Idle /\ requests < MaxRequests
  /\ handlers' = [handlers EXCEPT ![h] = f]
  /\ series' = series \cup {f}
  /\ requests' = requests + 1
  /\ UNCHANGED <<now, phase, pruned, batch, flush, activity, clients, daily, since,
                 admin, history, trouble>>

SightedAdds(previous, subs) == [at |-> now, subs |-> previous.subs + subs]
SightedForgets(previous, subs) == [at |-> now, subs |-> subs]

\* A sighting without a count keeps the count seen earlier in the batch.
Sighted(previous, subs) ==
  [at |-> now, subs |-> IF subs = 0 THEN previous.subs ELSE subs]

\* RecordFeedServed, which counts the day as searches, refusals and requests
\* to NRK do, and RecordFeedRequest: no property tells the two locks apart.
WithRequest(f, app, subs) ==
  [feeds   |-> [batch.feeds EXCEPT ![f] = now],
   clients |-> [batch.clients EXCEPT ![f][app] = Sighted(@, subs)],
   daily   |-> [batch.daily EXCEPT ![now] = @ + 1]]

Record(h, app, subs) ==
  LET f == handlers[h] IN
  /\ handlers[h] # Idle
  /\ batch' = WithRequest(f, app, subs)
  /\ recorded' = [recorded EXCEPT ![now] = @ + 1]
  /\ requested' = [requested EXCEPT ![f] = now]
  /\ reported' = [reported EXCEPT ![f][app] = IF subs = 0 THEN @ ELSE subs]
  /\ handlers' = [handlers EXCEPT ![h] = Idle]
  /\ UNCHANGED <<now, phase, pruned, flush, tables, admin, requests, trouble>>

-----------------------------------------------------------------------------
(* Flushing (app.go), by the loop each minute and by the shutdown.         *)

\* The minute ticks, also once more when the shutdown signal has come; the
\* shutdown does its own flush when the loop has ended or its grace is over.
MayFlush(w) ==
  flush[w].pc = "wait" /\ (w = "close" => phase = "closing")

\* flushMu is held from TakeBatch to the end of the write.
NoLock == TRUE
FlushUnlocked == \A w \in Flushers : flush[w].pc # "taken"

LeftBehind == batch
AfterTake == EmptyBatch

TakeBatch(w) ==
  /\ MayFlush(w) /\ FlushUnlocked
  /\ flush' = [flush EXCEPT ![w] = [pc |-> "taken", taken |-> batch]]
  /\ batch' = AfterTake
  /\ UNCHANGED <<now, phase, pruned, handlers, tables, admin, history, requests, trouble>>

Written(w, ok) ==
  [pc |-> IF w = "loop" THEN "wait" ELSE IF ok THEN "done" ELSE "failed",
   taken |-> EmptyBatch]

\* flushLoop prunes at its start and, after its flush, once a day.
Pruned(counts) == [d \in Days |-> IF d < now - HistoryDays THEN 0 ELSE counts[d]]
LoopTurns(w, counts) ==
  IF w = "loop" /\ now # pruned /\ phase # "closed"
  THEN pruned' = now /\ daily' = Pruned(counts)
  ELSE daily' = counts /\ UNCHANGED pruned

\* One transaction: later times win, a count that was reported replaces the
\* stored one, the day's counters are added, and the first batch with a
\* request starts the measuring.
MergedClients(b) ==
  [f \in Feeds |-> [a \in Apps |->
    [at   |-> Later(clients[f][a].at, b.clients[f][a].at),
     subs |-> IF b.clients[f][a].subs # 0 THEN b.clients[f][a].subs
              ELSE clients[f][a].subs]]]

FlushActivity(w) ==
  LET b == flush[w].taken IN
  /\ flush[w].pc = "taken"
  /\ phase # "closed" \/ b = EmptyBatch
  /\ activity' = [f \in Feeds |-> Later(activity[f], b.feeds[f])]
  /\ clients' = MergedClients(b)
  /\ LoopTurns(w, [d \in Days |-> daily[d] + b.daily[d]])
  /\ since' = IF since = Never /\ b.feeds # NoFeeds THEN now ELSE since
  /\ flush' = [flush EXCEPT ![w] = Written(w, TRUE)]
  /\ UNCHANGED <<now, phase, handlers, batch, series, admin, history,
                 requests, trouble>>

OverwritesNewer(b) == b

\* ReturnBatch: what was recorded meanwhile is newer and wins, but a sighting
\* without a count takes the returned one's; counters add up.
Returned(b) ==
  [feeds |-> [f \in Feeds |-> Later(b.feeds[f], batch.feeds[f])],
   clients |-> [f \in Feeds |-> [a \in Apps |->
     LET newer == batch.clients[f][a] IN
     IF newer.at = Never THEN b.clients[f][a]
     ELSE IF newer.subs = 0 THEN [newer EXCEPT !.subs = b.clients[f][a].subs]
     ELSE newer]],
   daily |-> [d \in Days |-> batch.daily[d] + b.daily[d]]]

FlushFails(w) ==
  /\ flush[w].pc = "taken"
  /\ IF phase = "closed" THEN UNCHANGED trouble ELSE Trouble
  /\ batch' = Returned(flush[w].taken)
  /\ flush' = [flush EXCEPT ![w] = Written(w, FALSE)]
  /\ LoopTurns(w, daily)
  /\ UNCHANGED <<now, phase, handlers, series, activity, clients, since, admin,
                 history, requests>>

LoopEnds ==
  /\ phase # "up" /\ flush["loop"].pc = "wait"
  /\ flush' = [flush EXCEPT !["loop"].pc = "ended"]
  /\ UNCHANGED <<now, phase, pruned, handlers, batch, tables, admin, history,
                 requests, trouble>>

-----------------------------------------------------------------------------
(* The process: signal, server.Shutdown with its grace, Close, crash.      *)

Signal ==
  /\ phase = "up"
  /\ phase' = "draining"
  /\ UNCHANGED <<now, memory, tables, admin, history, requests, trouble>>

\* Shutdown returns when the requests are answered, or at the end of its grace.
ShutdownReturns ==
  /\ phase = "draining"
  /\ HandlersOutliveGrace \/ \A h \in Handlers : handlers[h] = Idle
  /\ phase' = "closing"
  /\ UNCHANGED <<now, memory, tables, admin, history, requests, trouble>>

CloseStore ==
  /\ phase = "closing" /\ flush["close"].pc \in {"done", "failed"}
  /\ phase' = "closed"
  /\ UNCHANGED <<now, memory, tables, admin, history, requests, trouble>>

\* The memory is lost; the next process starts with the rows.
StartAgain ==
  /\ phase' = "up"
  /\ handlers' = [h \in Handlers |-> Idle]
  /\ batch' = EmptyBatch /\ flush' = NothingTaken
  /\ pruned' = now /\ daily' = Pruned(daily)
  /\ page' = IF page.pc = "reading" THEN NoPage ELSE page
  /\ cleanup' = {}
  /\ recorded' = daily' /\ requested' = activity
  /\ reported' = [f \in Feeds |-> [a \in Apps |-> clients[f][a].subs]]
  /\ UNCHANGED <<now, series, activity, clients, since, requests>>

Crash == phase # "closed" /\ Trouble /\ StartAgain
Restart == phase = "closed" /\ StartAgain /\ UNCHANGED trouble

-----------------------------------------------------------------------------
(* The admin: the dashboard page, the cleanup form, and deletions.         *)

Measured == since # Never /\ now - since >= CleanupAfter
Unused == {f \in series : activity[f] = Never \/ now - activity[f] > CleanupAfter}

\* dashboard: the rows first, today's counters among them; then the pending
\* counters, which a flush may have taken meanwhile. Only the offer to clean
\* up is kept of the page.
LoadPage ==
  /\ phase = "up" /\ page.pc # "reading"
  /\ page' = [pc |-> "reading", ids |-> IF Measured THEN Unused ELSE {},
              offered |-> Measured, day |-> now, count |-> daily[now]]
  /\ UNCHANGED <<now, phase, memory, tables, cleanup, history, requests, trouble>>

PendingDay == batch.daily[page.day]
AddPending ==
  /\ page.pc = "reading"
  /\ page' = IF page.offered THEN [NoPage EXCEPT !.pc = "shown", !.ids = page.ids]
              ELSE NoPage
  /\ UNCHANGED <<now, phase, memory, tables, cleanup, history, requests, trouble>>

\* The form carries the number and a hash of the ids the page showed.
SameCount(ids) == Cardinality(ids) = Cardinality(page.ids)
Confirmed(ids) == ids = page.ids

Cleanup ==
  /\ phase = "up" /\ page.pc = "shown" /\ cleanup = {}
  /\ Measured /\ Confirmed(Unused)
  /\ cleanup' = Unused
  /\ UNCHANGED <<now, phase, memory, tables, page, history, requests, trouble>>

\* DeleteSeriesByID: the rows go, what is in the batch stays.
Delete(f) ==
  /\ series' = series \ {f}
  /\ activity' = [activity EXCEPT ![f] = Never]
  /\ clients' = [clients EXCEPT ![f] = NoSightings[f]]
  /\ requested' = [requested EXCEPT ![f] = Never]
  /\ reported' = [reported EXCEPT ![f] = [a \in Apps |-> 0]]
  /\ UNCHANGED <<now, phase, memory, daily, since, page, recorded, requests, trouble>>

CleanupDeletes(f) == f \in cleanup /\ cleanup' = cleanup \ {f} /\ Delete(f)
AdminDeletes(f) ==
  phase = "up" /\ f \in series /\ Delete(f) /\ UNCHANGED cleanup

-----------------------------------------------------------------------------
\* The database may be older than the activity tables.
Init ==
  /\ now = 0 /\ phase = "up" /\ pruned = 0
  /\ handlers = [h \in Handlers |-> Idle]
  /\ batch = EmptyBatch /\ flush = NothingTaken
  /\ series \in SUBSET Feeds /\ activity = NoFeeds /\ clients = NoSightings
  /\ daily = NoCounts /\ since = Never
  /\ page = NoPage /\ cleanup = {}
  /\ recorded = NoCounts /\ requested = NoFeeds
  /\ reported = [f \in Feeds |-> [a \in Apps |-> 0]]
  /\ requests = 0 /\ trouble = 0

Serving(h) ==
  \/ \E f \in Feeds : Accept(h, f)
  \/ \E app \in Apps, subs \in Subscribers : Record(h, app, subs)
Flushing == LoopEnds \/
  \E w \in Flushers : TakeBatch(w) \/ FlushActivity(w) \/ FlushFails(w)
Process == Signal \/ ShutdownReturns \/ CloseStore \/ Crash \/ Restart
Admin ==
  \/ LoadPage \/ AddPending \/ Cleanup
  \/ \E f \in Feeds : CleanupDeletes(f) \/ AdminDeletes(f)

Next == Tick \/ (\E h \in Handlers : Serving(h)) \/ Flushing \/ Process \/ Admin

Spec == Init /\ [][Next]_vars

-----------------------------------------------------------------------------
(* Properties.                                                             *)

Sightings == [Feeds -> [Apps -> [at : Times, subs : Subscribers]]]
Batches == [feeds : [Feeds -> Times], clients : Sightings, daily : [Days -> Nat]]

TypeOK ==
  /\ now \in Days /\ pruned \in Days
  /\ phase \in {"up", "draining", "closing", "closed"}
  /\ handlers \in [Handlers -> Feeds \cup {Idle}]
  /\ batch \in Batches
  /\ flush \in [Flushers -> [pc : {"wait", "taken", "ended", "done", "failed"},
                             taken : Batches]]
  /\ series \in SUBSET Feeds /\ activity \in [Feeds -> Times] /\ clients \in Sightings
  /\ daily \in [Days -> Nat] /\ since \in Times
  /\ page \in [pc : {"none", "reading", "shown"}, ids : SUBSET Feeds, offered : BOOLEAN,
               day : Days, count : Nat]
  /\ cleanup \in SUBSET Feeds
  /\ recorded \in [Days -> Nat] /\ requested \in [Feeds -> Times]
  /\ reported \in [Feeds -> [Apps -> Subscribers]]
  /\ requests \in 0 .. MaxRequests /\ trouble \in 0 .. MaxTrouble

\* Through failed writes, concurrent recording, midnight and two flushers:
\* each day's count is, once each, in the batch, in a batch being written or
\* in the database.
CountsAddUp ==
  \A d \in Days : d >= now - HistoryDays =>
    recorded[d] = daily[d] + batch.daily[d] + flush["loop"].taken.daily[d]
                           + flush["close"].taken.daily[d]

\* What is known of an app's subscribers, newest place first.
Known(f, a) ==
  LET places == <<batch.clients[f][a].subs, flush["loop"].taken.clients[f][a].subs,
                  flush["close"].taken.clients[f][a].subs, clients[f][a].subs>>
      some == {i \in 1 .. 4 : places[i] # 0}
  IN IF some = {} THEN 0 ELSE places[CHOOSE i \in some : \A j \in some : i <= j]

\* The latest subscriber count an app reported survives sightings without a
\* count, failed writes and the order batches are written in.
SubscribersKept ==
  \A f \in Feeds, a \in Apps : reported[f][a] # 0 => Known(f, a) = reported[f][a]

\* app.go: "the last counters: a deploy loses nothing". When the last write
\* succeeded, nothing that was recorded is still in memory as the process ends.
CloseLosesNothing ==
  phase = "closed" /\ flush["close"].pc = "done"
    => batch = EmptyBatch /\ \A w \in Flushers : flush[w].taken = EmptyBatch

\* The number for today never counts a request twice, whatever is flushed or
\* returned between the two reads.
TodayNeverOvercounts ==
  page.pc = "reading" => page.count + PendingDay <= recorded[page.day]

Recent(f) == requested[f] # Never /\ now - requested[f] <= CleanupAfter
Unflushed(f) ==
  requested[f] \in {batch.feeds[f]} \cup {flush[w].taken.feeds[f] : w \in Flushers}

\* A cleanup takes no feed that was requested within CleanupAfter, unless the
\* request is still on its way to the database, and none that was not shown.
CleanupSparesTheUsed ==
  [][\A f \in cleanup' \ cleanup :
       f \in page.ids /\ (Recent(f) => Unflushed(f))]_vars
=============================================================================
