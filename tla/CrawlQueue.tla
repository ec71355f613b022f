----------------------------- MODULE CrawlQueue -----------------------------
(***************************************************************************)
(* The crawler's queue (crawl/backlog.go): feeds admitted by requests, the *)
(* goroutine that drains the queue one feed at a time, the checkpoint it   *)
(* keeps per page, the durable retry deadline that gates it, and the way   *)
(* the process stops it (app.Close). What a page stores is in Archive; a   *)
(* page here is only its number.                                           *)
(***************************************************************************)
EXTENDS Integers, Sequences, FiniteSets

CONSTANTS
  Feeds, NoFeed,
  LastPage,       \* archive pages are 0 .. LastPage
  PagesPerRun,    \* maxPagesPerRun (200)
  MaxTrouble,     \* bound: failures, recrawls, restarts
  RecrawlRaces    \* the admin may recrawl a feed while it is being crawled

ASSUME QueueAssumption ==
  /\ LastPage \in Nat /\ PagesPerRun \in Nat \ {0} /\ MaxTrouble \in Nat
  /\ RecrawlRaces \in BOOLEAN /\ NoFeed \notin Feeds

VARIABLES
  complete, cursor,  \* series rows: backlog_complete, backlog_cursor (0: NULL)
  deferred,          \* feeds whose "retry:backlog:" deadline is pending
  queue, queued, running,
  admitting,         \* Enqueue calls between the retry check and the lock
  workers,           \* the processQueue goroutines
  idle,              \* the goroutine that will close c.idle, NoWorker: closed
  closing, awaited,  \* main and app.Close; the idle channel WaitIdle got
  owed,              \* history: pages not fetched since the last recrawl
  trouble            \* how much of MaxTrouble is used

rows    == <<complete, cursor, deferred>>
memory  == <<queue, queued, running, idle>>
ending  == <<closing, awaited>>
vars == <<rows, memory, admitting, workers, ending, owed, trouble>>

Pages == 0 .. LastPage
Workers == {1, 2}
NoWorker == 0
Gone == [pc |-> "gone", feed |-> NoFeed, page |-> 0, left |-> 0]
Live == {w \in Workers : workers[w].pc # "gone"}
Cancelled == closing # "serving"

DatabaseOpen == closing # "late"

Trouble == trouble < MaxTrouble /\ trouble' = trouble + 1

-----------------------------------------------------------------------------
(* Admission.                                                              *)

\* A request for a feed with an unfinished archive calls Enqueue, which first
\* checks the retry deadline, outside the lock.
Poll(f) ==
  /\ DatabaseOpen
  /\ ~complete[f] /\ f \notin deferred /\ f \notin admitting
  /\ admitting' = admitting \cup {f}
  /\ UNCHANGED <<rows, memory, workers, ending, owed, trouble>>

\* Then, under the lock: known feeds and a cancelled context are ignored, and
\* the goroutine is started when none runs.
AdmitsAfterStop(f) == f \in queued
Ignored(f) == f \in queued \/ Cancelled

StartsAnyway == TRUE
NoGoroutine == ~running

Start(w) ==
  /\ running' = TRUE /\ idle' = w
  /\ workers' = [workers EXCEPT ![w] = [Gone EXCEPT !.pc = "take"]]

Admit(f) ==
  /\ f \in admitting
  /\ admitting' = admitting \ {f}
  /\ IF Ignored(f)
     THEN UNCHANGED <<memory, workers>>
     ELSE /\ queued' = queued \cup {f}
          /\ queue' = Append(queue, f)
          /\ IF NoGoroutine THEN \E w \in Workers \ Live : Start(w)
             ELSE UNCHANGED <<running, idle, workers>>
  /\ UNCHANGED <<rows, ending, owed, trouble>>

\* The admin's "recrawl": the row first, then Enqueue.
Recrawl(f) ==
  /\ DatabaseOpen
  /\ RecrawlRaces \/ \A w \in Live : workers[w].feed # f
  /\ Trouble
  /\ complete' = [complete EXCEPT ![f] = FALSE]
  /\ cursor' = [cursor EXCEPT ![f] = 0]
  /\ owed' = [owed EXCEPT ![f] = Pages]
  /\ admitting' = IF f \in deferred THEN admitting ELSE admitting \cup {f}
  /\ UNCHANGED <<deferred, memory, workers, ending>>

\* Time passes a deadline.
DeadlinePasses(f) ==
  /\ f \in deferred
  /\ deferred' = deferred \ {f}
  /\ UNCHANGED <<complete, cursor, memory, admitting, workers, ending, owed, trouble>>

-----------------------------------------------------------------------------
(* The goroutine.                                                          *)

Becomes(w, state) == workers' = [workers EXCEPT ![w] = state]

\* An empty queue or a cancelled context ends it: queue, flags and the idle
\* channel change under the one lock that admission takes.
Drained == queue = <<>> \/ Cancelled

\* close(idle): whoever holds the goroutine's channel stops waiting.
LeftOpen(channel, w) == channel
Closed(channel, w) == IF channel = w THEN NoWorker ELSE channel

Take(w) ==
  /\ workers[w].pc = "take"
  /\ IF Drained
     THEN /\ queue' = <<>> /\ queued' = {} /\ running' = FALSE
          /\ idle' = Closed(idle, w) /\ awaited' = Closed(awaited, w)
          /\ Becomes(w, Gone)
     ELSE /\ queue' = Tail(queue)
          /\ Becomes(w, [Gone EXCEPT !.pc = "read", !.feed = Head(queue)])
          /\ UNCHANGED <<queued, running, idle, awaited>>
  /\ UNCHANGED <<rows, admitting, closing, owed, trouble>>

\* crawl re-reads the series and the deadline, and resumes at the checkpoint.
CrawlRead(w) ==
  LET f == workers[w].feed IN
  /\ workers[w].pc = "read" /\ DatabaseOpen
  /\ Becomes(w, IF complete[f] \/ f \in deferred
                THEN [workers[w] EXCEPT !.pc = "done"]
                ELSE [workers[w] EXCEPT !.pc = "crawl", !.page = cursor[f],
                                        !.left = PagesPerRun])
  /\ UNCHANGED <<rows, memory, admitting, ending, owed, trouble>>

\* The saved checkpoint is the page just fetched, which the next run fetches
\* again: what NRK withdraws meanwhile cannot push an episode out of sight.
StepsBack(page) == page - 1
StartsOver(page) == 0
SkipsAhead(page) == page + 2
Checkpoint(page) == page

\* One page is fetched and stored; the last one completes the archive.
CrawlPage(w) ==
  LET f == workers[w].feed
      page == workers[w].page
  IN
  /\ workers[w].pc = "crawl" /\ workers[w].left > 0 /\ DatabaseOpen
  /\ owed' = [owed EXCEPT ![f] = @ \ {page}]
  /\ IF page >= LastPage
     THEN /\ complete' = [complete EXCEPT ![f] = TRUE]
          /\ cursor' = [cursor EXCEPT ![f] = 0]
          /\ deferred' = deferred \ {f}
          /\ Becomes(w, [workers[w] EXCEPT !.pc = "done"])
     ELSE /\ cursor' = [cursor EXCEPT ![f] = Checkpoint(page)]
          /\ complete' = [complete EXCEPT ![f] = FALSE]
          /\ UNCHANGED deferred
          /\ Becomes(w, [workers[w] EXCEPT !.pc = "pause", !.page = page + 1,
                                           !.left = @ - 1])
  /\ UNCHANGED <<memory, admitting, ending, trouble>>

\* The pause between pages ends with the delay, or with the context.
CrawlPause(w) ==
  /\ workers[w].pc = "pause"
  /\ \/ Becomes(w, [workers[w] EXCEPT !.pc = "crawl"])
     \/ Cancelled /\ Becomes(w, [workers[w] EXCEPT !.pc = "done"])
  /\ UNCHANGED <<rows, memory, admitting, ending, owed, trouble>>

\* At the page limit the feed gets a fixed deadline.
CrawlPageLimit(w) ==
  /\ workers[w].pc = "crawl" /\ workers[w].left = 0 /\ DatabaseOpen
  /\ deferred' = deferred \cup {workers[w].feed}
  /\ Becomes(w, [workers[w] EXCEPT !.pc = "done"])
  /\ UNCHANGED <<complete, cursor, memory, admitting, ending, owed, trouble>>

\* A page or a write fails, or the crawl panics: the feed backs off. App.Close
\* cancels the requests that are under way, which fail like any other.
CrawlFails(w) ==
  /\ workers[w].pc = "crawl" /\ workers[w].left > 0 /\ DatabaseOpen
  /\ IF closing = "waiting" THEN UNCHANGED trouble ELSE Trouble
  /\ deferred' = deferred \cup {workers[w].feed}
  /\ Becomes(w, [workers[w] EXCEPT !.pc = "done"])
  /\ UNCHANGED <<complete, cursor, memory, admitting, ending, owed>>

\* With the database closed, the next read fails, and so does the write of
\* the backoff.
CrawlLosesDatabase(w) ==
  /\ workers[w].pc \in {"read", "crawl"} /\ ~DatabaseOpen
  /\ Becomes(w, [workers[w] EXCEPT !.pc = "done"])
  /\ UNCHANGED <<rows, memory, admitting, ending, owed, trouble>>

\* The feed leaves the queued set only after its crawl.
Forgets(w) == {}
Finished(w) == {workers[w].feed}

CrawlDone(w) ==
  /\ workers[w].pc = "done"
  /\ queued' = queued \ Finished(w)
  /\ Becomes(w, [Gone EXCEPT !.pc = "take"])
  /\ UNCHANGED <<rows, queue, running, idle, admitting, ending, owed, trouble>>

-----------------------------------------------------------------------------
(* Stopping (main.run, app.Close) and starting again.                      *)

Cancel ==
  /\ closing = "serving"
  /\ closing' = "cancelled"
  /\ UNCHANGED <<rows, memory, admitting, workers, awaited, owed, trouble>>

\* WaitIdle takes the channel under the lock and waits for it outside.
WaitIdle ==
  /\ closing = "cancelled"
  /\ closing' = "waiting" /\ awaited' = idle
  /\ UNCHANGED <<rows, memory, admitting, workers, owed, trouble>>

CloseStore ==
  /\ closing = "waiting" /\ awaited = NoWorker
  /\ closing' = "closed"
  /\ UNCHANGED <<rows, memory, admitting, workers, awaited, owed, trouble>>

\* The grace period runs out: the database is closed under the crawl.
GraceEnds ==
  /\ closing = "waiting" /\ awaited # NoWorker
  /\ closing' = "late"
  /\ UNCHANGED <<rows, memory, admitting, workers, awaited, owed, trouble>>

\* A crash at any point, or a start after a close: the memory is lost.
Restart ==
  /\ Trouble
  /\ queue' = <<>> /\ queued' = {} /\ running' = FALSE /\ idle' = NoWorker
  /\ admitting' = {} /\ workers' = [w \in Workers |-> Gone]
  /\ closing' = "serving" /\ awaited' = NoWorker
  /\ UNCHANGED <<rows, owed>>

Init ==
  /\ complete = [f \in Feeds |-> FALSE] /\ cursor = [f \in Feeds |-> 0]
  /\ deferred = {}
  /\ queue = <<>> /\ queued = {} /\ running = FALSE /\ idle = NoWorker
  /\ admitting = {} /\ workers = [w \in Workers |-> Gone]
  /\ closing = "serving" /\ awaited = NoWorker
  /\ owed = [f \in Feeds |-> Pages]
  /\ trouble = 0

Request(f) == Poll(f) \/ Admit(f)
Work(w) ==
  \/ Take(w) \/ CrawlRead(w) \/ CrawlPage(w) \/ CrawlPause(w)
  \/ CrawlPageLimit(w) \/ CrawlLosesDatabase(w) \/ CrawlDone(w)
Closing == Cancel \/ WaitIdle \/ CloseStore \/ GraceEnds

Next ==
  \/ \E f \in Feeds : Request(f) \/ Recrawl(f) \/ DeadlinePasses(f)
  \/ \E w \in Workers : Work(w) \/ CrawlFails(w)
  \/ Closing \/ Restart

Spec == Init /\ [][Next]_vars

\* Feeds keep being requested, deadlines pass, goroutines run. The grace
\* period need not run out.
Fairness ==
  /\ \A f \in Feeds : WF_vars(Poll(f)) /\ WF_vars(Admit(f)) /\ WF_vars(DeadlinePasses(f))
  /\ \A w \in Workers : WF_vars(Work(w))
  /\ WF_vars(WaitIdle) /\ WF_vars(CloseStore)
FairSpec == Spec /\ Fairness

-----------------------------------------------------------------------------
(* Properties.                                                             *)

WorkerState == [pc : {"gone", "take", "read", "crawl", "pause", "done"},
                feed : Feeds \cup {NoFeed}, page : Nat, left : Nat]

TypeOK ==
  /\ complete \in [Feeds -> BOOLEAN] /\ cursor \in [Feeds -> Nat]
  /\ deferred \subseteq Feeds
  /\ queue \in Seq(Feeds) /\ queued \subseteq Feeds /\ running \in BOOLEAN
  /\ idle \in Workers \cup {NoWorker} /\ awaited \in Workers \cup {NoWorker}
  /\ admitting \subseteq Feeds
  /\ workers \in [Workers -> WorkerState]
  /\ closing \in {"serving", "cancelled", "waiting", "closed", "late"}
  /\ owed \in [Feeds -> SUBSET Pages]
  /\ trouble \in 0 .. MaxTrouble

\* "One feed at a time": whatever order admissions, drains and restarts come
\* in, running says exactly whether the one goroutine lives, and its idle
\* channel is the open one.
OneCrawlAtATime ==
  /\ Cardinality(Live) <= 1
  /\ running = (Live # {})
  /\ \A w \in Live : idle = w

\* The feeds that goroutines have taken and not finished.
Crawled == {workers[w].feed : w \in {v \in Live : workers[v].pc # "take"}}

\* No lost wake-up and no stuck admission: a queued feed is in the queue once
\* or being crawled, and a goroutine is there to take it.
QueuedIsServed ==
  /\ \A i, j \in 1 .. Len(queue) : queue[i] = queue[j] => i = j
  /\ queued = {queue[i] : i \in 1 .. Len(queue)} \cup Crawled
  /\ queue # <<>> => running

\* Unless the grace period ran out, the database is closed only after the last
\* crawl has stopped, and none starts afterwards, whatever requests are still
\* being served.
QuietWhenClosed == closing = "closed" => Live = {}

\* Flags, set, goroutine and idle channel implement one line of feeds, crawled
\* one at a time in the order they were admitted: none is admitted or taken up
\* once the context is cancelled, and the database is closed only after the
\* last crawl and an empty queue, unless the grace period ran out.
Phase == CASE closing = "serving" -> "open"
           [] closing \in {"cancelled", "waiting"} -> "stopping"
           [] closing = "closed" -> "closed"
           [] closing = "late" -> "abandoned"
Line == INSTANCE CrawlLine WITH line <- queue, crawled <- Crawled, phase <- Phase
ImplementsCrawlLine == Line!Spec

\* models.go: backlog_complete "is true once the full archive has been
\* crawled". Every page has been fetched since the archive was last set back.
CompleteMeansEveryPage == \A f \in Feeds : complete[f] => owed[f] = {}

\* A feed that keeps being requested gets its whole archive, over pauses,
\* page limits, failures and restarts, unless the process is being stopped.
RequestedFeedCompletes ==
  \A f \in Feeds : <>[](closing = "serving") => <>(complete[f])

\* Once the context is cancelled the crawl stops at its page and the close
\* goes through by itself, without waiting for the grace period to run out.
CloseFinishes == closing = "cancelled" ~> closing \in {"closed", "late", "serving"}
=============================================================================
