-------------------------- MODULE CrawlQueue_proofs --------------------------
(***************************************************************************)
(* Proofs about the crawler's queue, for every set of feeds, archive and   *)
(* run length, and for any number of failures, recrawls and restarts.      *)
(***************************************************************************)
EXTENDS CrawlQueue, FiniteSetTheorems, SequenceTheorems, TLAPS

-----------------------------------------------------------------------------
(* The inductive invariant.                                                *)

\* A goroutine that has taken a feed from the queue and not finished it.
Busy == {w \in Live : workers[w].pc # "take"}

\* One goroutine, running and idle say which: after the last has gone the
\* idle channel is closed, and a shutdown waits for the one it found open.
Alone ==
  /\ \A v, w \in Live : v = w
  /\ running = (Live # {})
  /\ \A w \in Live : idle = w
  /\ Live = {} => idle = NoWorker
  /\ closing = "waiting" => awaited = idle
  /\ closing = "closed" => Live = {}

\* Queued feeds are in the queue, once, or being crawled, and never both.
Served ==
  /\ \A i, j \in 1 .. Len(queue) : queue[i] = queue[j] => i = j
  /\ \A f : f \in queued <=> \/ \E i \in 1 .. Len(queue) : queue[i] = f
                             \/ \E w \in Busy : workers[w].feed = f
  /\ \A w \in Busy : /\ workers[w].feed \in Feeds
                     /\ \A i \in 1 .. Len(queue) : queue[i] # workers[w].feed
  /\ queue # <<>> => running

IInv == TypeOK /\ Alone /\ Served

\* What the properties need, and nothing else, follows from it.
LEMMA AloneIsOne == Alone => Cardinality(Live) <= 1
<1> SUFFICES ASSUME Alone PROVE Cardinality(Live) <= 1
  OBVIOUS
<1>1. CASE Live = {}
  <2>1. Cardinality({}) = 0
    BY FS_EmptySet
  <2> QED
    BY <1>1, <2>1
<1>2. CASE Live # {}
  <2>1. PICK w \in Live : TRUE
    BY <1>2
  <2>2. Live = {w}
    BY <2>1 DEF Alone
  <2>3. Cardinality({w}) = 1
    BY FS_Singleton
  <2> QED
    BY <2>2, <2>3
<1> QED
  BY <1>1, <1>2

\* The first three properties follow from the invariant.
LEMMA IInvImplies == IInv => OneCrawlAtATime /\ QueuedIsServed /\ QuietWhenClosed
<1> SUFFICES ASSUME IInv PROVE OneCrawlAtATime /\ QueuedIsServed /\ QuietWhenClosed
  OBVIOUS
<1>1. OneCrawlAtATime
  BY AloneIsOne DEF IInv, Alone, OneCrawlAtATime
<1>2. queued = {queue[i] : i \in 1 .. Len(queue)} \cup Crawled
  BY DEF IInv, Served, Busy, Crawled
<1>3. QueuedIsServed
  BY <1>2 DEF IInv, Served, QueuedIsServed
<1> QED
  BY <1>1, <1>3 DEF IInv, Alone, QuietWhenClosed

-----------------------------------------------------------------------------
(* It holds at the start, and when everything starts again.                *)

\* An empty queue with no goroutine satisfies both parts.
LEMMA Fresh ==
  ASSUME queue = <<>>, queued = {}, running = FALSE, idle = NoWorker,
         workers = [w \in Workers |-> Gone], closing = "serving"
  PROVE  Live = {} /\ Busy = {} /\ Alone /\ Served
<1>1. Live = {} /\ Busy = {}
  BY DEF Live, Busy, Gone
<1>2. Alone
  BY <1>1 DEF Alone
<1>3. 1 .. Len(queue) = {}
  OBVIOUS
<1>4. Served
  BY <1>1, <1>3 DEF Served
<1> QED
  BY <1>1, <1>2, <1>4

\* The record of no goroutine has the right type.
LEMMA GoneType == Gone \in WorkerState
  BY DEF Gone, WorkerState

\* The invariant holds when the process first starts.
LEMMA InvInit == Init => IInv
<1> SUFFICES ASSUME Init PROVE IInv
  OBVIOUS
<1>1. Alone /\ Served
  BY Fresh DEF Init
<1>2. queue \in Seq(Feeds) /\ idle \in Workers \cup {NoWorker} /\ awaited \in Workers \cup {NoWorker}
  BY DEF Init
<1>3. workers \in [Workers -> WorkerState]
  BY GoneType DEF Init
<1>4. /\ complete \in [Feeds -> BOOLEAN] /\ cursor \in [Feeds -> Nat]
      /\ owed \in [Feeds -> SUBSET Pages] /\ trouble \in 0 .. MaxTrouble
  BY QueueAssumption DEF Init, Pages
<1>5. TypeOK
  BY <1>2, <1>3, <1>4 DEF Init, TypeOK
<1> QED
  BY <1>1, <1>5 DEF IInv

-----------------------------------------------------------------------------
(* Steps of the goroutine inside a crawl.                                  *)

\* While a goroutine stays with its feed, who lives and who is busy stand.
LEMMA SameWorkers ==
  ASSUME TypeOK, NEW w \in Busy, NEW s, s.pc \notin {"gone", "take"},
         s.feed = workers[w].feed, Becomes(w, s)
  PROVE  /\ Live' = Live /\ Busy' = Busy
         /\ \A v \in Busy : workers'[v].feed = workers[v].feed
  BY DEF TypeOK, Busy, Live, Becomes

\* Then both parts of the invariant stand as well.
LEMMA SameInvariants ==
  ASSUME Alone, Served, Live' = Live, Busy' = Busy,
         \A v \in Busy : workers'[v].feed = workers[v].feed,
         UNCHANGED <<memory, ending>>
  PROVE  Alone' /\ Served'
<1>1. Alone'
  BY DEF Alone, memory, ending
<1>2. Served'
  BY DEF Served, memory, ending
<1> QED
  BY <1>1, <1>2

\* The record of a goroutine that goes on with its crawl.
LEMMA CrawlingState ==
  ASSUME TypeOK, Served, NEW w \in Busy
  PROVE  /\ w \in Workers /\ workers[w] \in WorkerState
         /\ workers[w].feed \in Feeds
         /\ workers[w].page \in Nat /\ workers[w].left \in Nat
  BY DEF TypeOK, Served, Busy, Live, WorkerState

\* A goroutine that goes on with its feed keeps the queue's invariants.
LEMMA Onward ==
  ASSUME IInv, NEW w \in Workers, workers[w].pc \notin {"gone", "take"},
         NEW s \in WorkerState, s.feed = workers[w].feed,
         s.pc \notin {"gone", "take"}, Becomes(w, s), UNCHANGED <<memory, ending>>
  PROVE  Alone' /\ Served' /\ workers' \in [Workers -> WorkerState]
<1>1. w \in Busy
  BY DEF Busy, Live
<1>2. Alone' /\ Served'
  BY <1>1, SameWorkers, SameInvariants DEF IInv
<1>3. workers' \in [Workers -> WorkerState]
  BY DEF IInv, TypeOK, Becomes
<1> QED
  BY <1>2, <1>3

\* Reading the series and the deadline goes on or ends the crawl.
LEMMA CrawlReadStep ==
  ASSUME IInv, NEW w \in Workers, CrawlRead(w) PROVE IInv'
<1> DEFINE f == workers[w].feed
           s == IF complete[f] \/ f \in deferred
                THEN [workers[w] EXCEPT !.pc = "done"]
                ELSE [workers[w] EXCEPT !.pc = "crawl", !.page = cursor[f],
                                        !.left = PagesPerRun]
<1>1. w \in Busy
  BY DEF CrawlRead, Busy, Live
<1>2. f \in Feeds /\ workers[w] \in WorkerState
  BY <1>1, CrawlingState DEF IInv
<1>3. cursor[f] \in Nat
  BY <1>2 DEF IInv, TypeOK
<1>4. s \in WorkerState /\ s.feed = f /\ s.pc \notin {"gone", "take"}
  BY <1>2, <1>3, QueueAssumption DEF WorkerState
<1>5. Alone' /\ Served' /\ workers' \in [Workers -> WorkerState]
  BY <1>4, Onward DEF CrawlRead
<1>6. TypeOK'
  BY <1>5 DEF CrawlRead, IInv, TypeOK, rows, memory, ending
<1> QED
  BY <1>5, <1>6 DEF IInv

\* A fetched page writes the series' row and goes on or ends the crawl.
LEMMA CrawlPageStep ==
  ASSUME IInv, NEW w \in Workers, CrawlPage(w) PROVE IInv'
<1> DEFINE f == workers[w].feed
           page == workers[w].page
           done == [workers[w] EXCEPT !.pc = "done"]
           onward == [workers[w] EXCEPT !.pc = "pause", !.page = page + 1,
                                        !.left = @ - 1]
<1>1. w \in Busy
  BY DEF CrawlPage, Busy, Live
<1>2. /\ f \in Feeds /\ workers[w] \in WorkerState
      /\ page \in Nat /\ workers[w].left \in Nat
  BY <1>1, CrawlingState DEF IInv
<1>3. workers[w].left - 1 \in Nat
  BY <1>2 DEF CrawlPage
<1>4. owed' \in [Feeds -> SUBSET Pages]
  BY <1>2 DEF CrawlPage, IInv, TypeOK
<1>5. /\ complete' \in [Feeds -> BOOLEAN] /\ cursor' \in [Feeds -> Nat]
      /\ deferred' \subseteq Feeds
  <2>1. CASE page >= LastPage
    <3>1. /\ complete' = [complete EXCEPT ![f] = TRUE]
          /\ cursor' = [cursor EXCEPT ![f] = 0]
          /\ deferred' = deferred \ {f}
      BY <2>1 DEF CrawlPage
    <3> QED
      BY <1>2, <3>1 DEF IInv, TypeOK
  <2>2. CASE ~(page >= LastPage)
    BY <1>2, <2>2 DEF CrawlPage, IInv, TypeOK, Checkpoint
  <2> QED
    BY <2>1, <2>2
<1>6. /\ done \in WorkerState /\ done.feed = f /\ done.pc \notin {"gone", "take"}
      /\ onward \in WorkerState /\ onward.feed = f /\ onward.pc \notin {"gone", "take"}
  <2>1. done \in WorkerState /\ done.feed = f /\ done.pc \notin {"gone", "take"}
    BY <1>2 DEF WorkerState
  <2>2. page + 1 \in Nat
    BY <1>2
  <2>3. onward \in WorkerState /\ onward.feed = f /\ onward.pc \notin {"gone", "take"}
    BY <1>2, <1>3, <2>2 DEF WorkerState
  <2> QED
    BY <2>1, <2>3
<1>7. Becomes(w, done) \/ Becomes(w, onward)
  BY DEF CrawlPage
<1>8. Alone' /\ Served' /\ workers' \in [Workers -> WorkerState]
  BY <1>6, <1>7, Onward DEF CrawlPage
<1>9. TypeOK'
  BY <1>4, <1>5, <1>8 DEF CrawlPage, IInv, TypeOK, memory, ending
<1> QED
  BY <1>8, <1>9 DEF IInv

\* The pause, the page limit, the failures: the record only changes its place.
LEMMA CrawlEndsStep ==
  ASSUME IInv, NEW w \in Workers,
         CrawlPause(w) \/ CrawlPageLimit(w) \/ CrawlFails(w) \/ CrawlLosesDatabase(w)
  PROVE  IInv'
<1> DEFINE goes(place) == [workers[w] EXCEPT !.pc = place]
<1>1. w \in Busy
  BY DEF CrawlPause, CrawlPageLimit, CrawlFails, CrawlLosesDatabase, Busy, Live
<1>2. workers[w].feed \in Feeds /\ workers[w] \in WorkerState
  BY <1>1, CrawlingState DEF IInv
<1>3. \A place \in {"crawl", "done"} :
        /\ goes(place) \in WorkerState /\ goes(place).feed = workers[w].feed
        /\ goes(place).pc \notin {"gone", "take"}
  BY <1>2 DEF WorkerState
<1>4. \E place \in {"crawl", "done"} : Becomes(w, goes(place))
  BY DEF CrawlPause, CrawlPageLimit, CrawlFails, CrawlLosesDatabase
<1>5. UNCHANGED <<memory, ending, admitting, owed, complete, cursor>>
  BY DEF CrawlPause, CrawlPageLimit, CrawlFails, CrawlLosesDatabase, rows
<1>6. workers[w].pc \notin {"gone", "take"}
  BY DEF CrawlPause, CrawlPageLimit, CrawlFails, CrawlLosesDatabase
<1>7. Alone' /\ Served' /\ workers' \in [Workers -> WorkerState]
  <2>1. PICK place \in {"crawl", "done"} : Becomes(w, goes(place))
    BY <1>4
  <2> QED
    BY <1>3, <1>5, <1>6, <2>1, Onward
<1>8. deferred' \subseteq Feeds
  BY <1>2 DEF CrawlPause, CrawlPageLimit, CrawlFails, CrawlLosesDatabase, rows, IInv, TypeOK
<1>9. trouble' \in 0 .. MaxTrouble
  BY QueueAssumption
     DEF CrawlPause, CrawlPageLimit, CrawlFails, CrawlLosesDatabase, Trouble, IInv, TypeOK
<1>10. TypeOK'
  BY <1>5, <1>7, <1>8, <1>9 DEF IInv, TypeOK, memory, ending
<1> QED
  BY <1>7, <1>10 DEF IInv

-----------------------------------------------------------------------------
(* Admission, taking and finishing.                                        *)

\* A feed that was not queued goes to the end of the queue.
LEMMA AppendKeepsServed ==
  ASSUME TypeOK, Served, NEW f \in Feeds, f \notin queued,
         queue' = Append(queue, f), queued' = queued \cup {f}, running',
         Busy' = Busy, \A v \in Busy : workers'[v].feed = workers[v].feed
  PROVE  Served'
<1>1. /\ Len(queue') = Len(queue) + 1 /\ Len(queue) \in Nat
      /\ \A i \in 1 .. Len(queue) : queue'[i] = queue[i]
      /\ queue'[Len(queue) + 1] = f
  BY AppendProperties DEF TypeOK
<1>2. \A i \in 1 .. Len(queue') : i \in 1 .. Len(queue) \/ i = Len(queue) + 1
  BY <1>1
<1>3. \A i \in 1 .. Len(queue) : queue[i] # f
  BY DEF Served
<1>4. \A v \in Busy : workers[v].feed # f
  BY DEF Served
<1>5. \A i, j \in 1 .. Len(queue') : queue'[i] = queue'[j] => i = j
  BY <1>1, <1>2, <1>3 DEF Served
<1>6. \A g : g \in queued' <=> \/ \E i \in 1 .. Len(queue') : queue'[i] = g
                               \/ \E v \in Busy' : workers'[v].feed = g
  <2>1. \A g : (\E i \in 1 .. Len(queue') : queue'[i] = g)
                <=> (g = f \/ \E i \in 1 .. Len(queue) : queue[i] = g)
    <3>1. Len(queue) + 1 \in 1 .. Len(queue')
      BY <1>1
    <3>2. \A i \in 1 .. Len(queue) : i \in 1 .. Len(queue')
      BY <1>1
    <3> QED
      BY <1>1, <1>2, <3>1, <3>2
  <2> QED
    BY <2>1 DEF Served
<1>7. \A v \in Busy' : /\ workers'[v].feed \in Feeds
                       /\ \A i \in 1 .. Len(queue') : queue'[i] # workers'[v].feed
  BY <1>1, <1>2, <1>4 DEF Served
<1> QED
  BY <1>5, <1>6, <1>7 DEF Served

\* The goroutine that is started is the only one.
LEMMA StartIsAlone ==
  ASSUME TypeOK, Alone, ~running, NEW w \in Workers, Start(w), ~Cancelled,
         UNCHANGED <<closing, awaited>>
  PROVE  Alone' /\ Busy' = {} /\ Busy = {} /\ workers' \in [Workers -> WorkerState]
<1>1. Live = {}
  BY DEF Alone
<1>2. workers' \in [Workers -> WorkerState] /\ workers'[w].pc = "take"
  BY GoneType DEF Start, TypeOK, Gone, WorkerState
<1>3. \A v \in Workers \ {w} : workers'[v] = workers[v]
  BY DEF Start, TypeOK
<1>4. Live' = {w}
  BY <1>1, <1>2, <1>3 DEF Live
<1>5. Busy' = {} /\ Busy = {}
  BY <1>1, <1>2, <1>4 DEF Busy
<1>6. Alone'
  BY <1>4 DEF Alone, Start, Cancelled
<1> QED
  BY <1>2, <1>5, <1>6

\* An admission ignores the feed, or queues it and sees that somebody runs.
LEMMA AdmitStep ==
  ASSUME IInv, NEW f \in Feeds, Admit(f) PROVE IInv'
<1>1. CASE Ignored(f)
  <2>1. UNCHANGED <<memory, workers, rows, ending, owed, trouble>> /\ admitting' = admitting \ {f}
    BY <1>1 DEF Admit
  <2>2. Live' = Live /\ Busy' = Busy
    BY <2>1 DEF Live, Busy
  <2>3. Alone' /\ Served'
    BY <2>1, <2>2, SameInvariants DEF IInv
  <2>4. TypeOK'
    BY <2>1 DEF IInv, TypeOK, memory, rows, ending
  <2> QED
    BY <2>3, <2>4 DEF IInv
<1>2. CASE ~Ignored(f)
  <2>1. /\ f \notin queued /\ ~Cancelled
        /\ queued' = queued \cup {f} /\ queue' = Append(queue, f)
        /\ IF ~running THEN \E w \in Workers \ Live : Start(w)
           ELSE UNCHANGED <<running, idle, workers>>
        /\ admitting' = admitting \ {f}
        /\ UNCHANGED <<rows, ending, owed, trouble>>
    BY <1>2 DEF Admit, Ignored, NoGoroutine
  <2>2. queue' \in Seq(Feeds)
    BY <2>1, AppendProperties DEF IInv, TypeOK
  <2>3. CASE ~running
    <3>1. PICK w \in Workers \ Live : Start(w)
      BY <2>1, <2>3
    <3>2. Alone' /\ Busy' = {} /\ Busy = {} /\ workers' \in [Workers -> WorkerState]
      BY <2>1, <2>3, <3>1, StartIsAlone DEF IInv, ending
    <3>3. running' /\ running' \in BOOLEAN /\ idle' \in Workers \cup {NoWorker}
      BY <3>1 DEF Start
    <3>4. Served'
      BY <2>1, <3>2, <3>3, AppendKeepsServed DEF IInv
    <3>5. TypeOK'
      BY <2>1, <2>2, <3>2, <3>3 DEF IInv, TypeOK, rows, ending
    <3> QED
      BY <3>2, <3>4, <3>5 DEF IInv
  <2>4. CASE running
    <3>1. UNCHANGED <<running, idle, workers>>
      BY <2>1, <2>4
    <3>2. Live' = Live /\ Busy' = Busy
      BY <3>1 DEF Live, Busy
    <3>3. Served'
      BY <2>1, <2>4, <3>1, <3>2, AppendKeepsServed DEF IInv
    <3>4. Alone'
      BY <2>1, <3>1, <3>2 DEF IInv, Alone, ending
    <3>5. TypeOK'
      BY <2>1, <2>2, <3>1 DEF IInv, TypeOK, rows, ending
    <3> QED
      BY <3>3, <3>4, <3>5 DEF IInv
  <2> QED
    BY <2>3, <2>4 DEF IInv, TypeOK
<1> QED
  BY <1>1, <1>2

\* The goroutine takes the head, or ends with everything reset.
LEMMA TakeStep ==
  ASSUME IInv, NEW w \in Workers, Take(w) PROVE IInv'
<1>1. w \in Live /\ Live = {w} /\ Busy = {} /\ idle = w /\ running
  BY DEF Take, Live, Busy, IInv, Alone
<1>2. CASE Drained
  <2>1. /\ queue' = <<>> /\ queued' = {} /\ running' = FALSE
        /\ idle' = Closed(idle, w) /\ awaited' = Closed(awaited, w)
        /\ Becomes(w, Gone)
    BY <1>2 DEF Take
  <2>2. UNCHANGED <<rows, admitting, closing, owed, trouble>>
    BY DEF Take
  <2>3. workers' \in [Workers -> WorkerState] /\ Live' = {} /\ Busy' = {}
    BY <1>1, <2>1, GoneType DEF Becomes, IInv, TypeOK, Live, Busy, Gone
  <2>4. idle' = NoWorker /\ awaited' \in {NoWorker, awaited}
    BY <1>1, <2>1 DEF Closed
  <2>5. closing = "waiting" => awaited' = idle'
    BY <1>1, <2>1 DEF IInv, Alone
  <2>6. Alone'
    BY <2>1, <2>2, <2>3, <2>4, <2>5 DEF Alone
  <2>7. 1 .. Len(queue') = {} /\ queue' \in Seq(Feeds)
    BY <2>1
  <2>8. Served'
    BY <2>1, <2>3, <2>7 DEF Served
  <2>9. TypeOK'
    BY <2>1, <2>2, <2>3, <2>4, <2>7 DEF IInv, TypeOK, rows
  <2> QED
    BY <2>6, <2>8, <2>9 DEF IInv
<1>3. CASE ~Drained
  <2> DEFINE s == [Gone EXCEPT !.pc = "read", !.feed = Head(queue)]
  <2>1. /\ queue # <<>> /\ ~Cancelled
        /\ queue' = Tail(queue) /\ Becomes(w, s)
        /\ UNCHANGED <<queued, running, idle, awaited, rows, admitting, closing, owed, trouble>>
    BY <1>3 DEF Take, Drained
  <2>2. /\ Head(queue) \in Feeds /\ queue' \in Seq(Feeds)
        /\ Len(queue') = Len(queue) - 1 /\ Len(queue) \in Nat \ {0}
        /\ \A i \in 1 .. Len(queue') : queue'[i] = queue[i + 1]
        /\ Head(queue) = queue[1]
    BY <2>1, HeadTailProperties, EmptySeq DEF IInv, TypeOK
  <2>3. s \in WorkerState /\ s.pc = "read" /\ s.feed = Head(queue)
    BY <2>2 DEF WorkerState, Gone
  <2>4. /\ workers' \in [Workers -> WorkerState] /\ workers'[w] = s
        /\ \A v \in Workers \ {w} : workers'[v] = workers[v]
    BY <2>1, <2>3 DEF Becomes, IInv, TypeOK
  <2>5. Live' = {w} /\ Busy' = {w}
    BY <1>1, <2>3, <2>4 DEF Live, Busy
  <2>6. Alone'
    BY <1>1, <2>1, <2>5 DEF IInv, Alone
  <2>7. \A i, j \in 1 .. Len(queue') : queue'[i] = queue'[j] => i = j
    <3> SUFFICES ASSUME NEW i \in 1 .. Len(queue'), NEW j \in 1 .. Len(queue'),
                        queue'[i] = queue'[j]
                 PROVE  i = j
      OBVIOUS
    <3>1. i + 1 \in 1 .. Len(queue) /\ j + 1 \in 1 .. Len(queue)
      BY <2>2
    <3>2. i + 1 = j + 1
      BY <2>2, <3>1 DEF IInv, Served
    <3> QED
      BY <3>2
  <2>8. \A f : (\E i \in 1 .. Len(queue) : queue[i] = f)
               <=> f = Head(queue) \/ \E i \in 1 .. Len(queue') : queue'[i] = f
    <3>1. \A i \in 1 .. Len(queue) : i = 1 \/ i - 1 \in 1 .. Len(queue')
      BY <2>2
    <3>2. \A i \in 1 .. Len(queue') : i + 1 \in 1 .. Len(queue)
      BY <2>2
    <3>3. \A i \in 1 .. Len(queue) : i # 1 => queue'[i - 1] = queue[i]
      BY <2>2, <3>1
    <3>4. 1 \in 1 .. Len(queue)
      BY <2>2
    <3> QED
      BY <2>2, <3>1, <3>2, <3>3, <3>4
  <2>9. \A i \in 1 .. Len(queue') : queue'[i] # Head(queue)
    <3> SUFFICES ASSUME NEW i \in 1 .. Len(queue'), queue'[i] = Head(queue) PROVE FALSE
      OBVIOUS
    <3>1. i + 1 \in 1 .. Len(queue) /\ 1 \in 1 .. Len(queue) /\ i + 1 # 1
      BY <2>2
    <3>2. i + 1 = 1
      BY <2>2, <3>1 DEF IInv, Served
    <3> QED
      BY <3>1, <3>2
  <2>10. \A f : f \in queued <=> \E i \in 1 .. Len(queue) : queue[i] = f
    BY <1>1 DEF IInv, Served
  <2>11. \A f : f \in queued' <=> \/ \E i \in 1 .. Len(queue') : queue'[i] = f
                                \/ \E v \in Busy' : workers'[v].feed = f
    <3>1. queued' = queued
      BY <2>1
    <3>2. w \in Busy' /\ \A v \in Busy' : workers'[v].feed = Head(queue)
      BY <2>3, <2>4, <2>5
    <3> QED
      BY <2>8, <2>10, <3>1, <3>2, Zenon
  <2>12. \A v \in Busy' : /\ workers'[v].feed \in Feeds
                          /\ \A i \in 1 .. Len(queue') : queue'[i] # workers'[v].feed
    BY <2>2, <2>3, <2>4, <2>5, <2>9
  <2>13. running'
    BY <2>1 DEF IInv, Served
  <2>14. Served'
    BY <2>7, <2>11, <2>12, <2>13, Zenon DEF Served
  <2>15. TypeOK'
    BY <2>1, <2>2, <2>4 DEF IInv, TypeOK, rows
  <2> QED
    BY <2>6, <2>14, <2>15 DEF IInv
<1> QED
  BY <1>2, <1>3

\* The finished feed leaves the queued set with the goroutine's interest in it.
LEMMA CrawlDoneStep ==
  ASSUME IInv, NEW w \in Workers, CrawlDone(w) PROVE IInv'
<1> DEFINE s == [Gone EXCEPT !.pc = "take"]
<1>1. Live = {w} /\ Busy = {w}
  BY DEF CrawlDone, Live, Busy, IInv, Alone
<1>2. /\ queued' = queued \ {workers[w].feed} /\ Becomes(w, s)
      /\ UNCHANGED <<rows, queue, running, idle, admitting, ending, owed, trouble>>
  BY DEF CrawlDone, Finished
<1>3. s \in WorkerState /\ s.pc = "take"
  BY DEF Gone, WorkerState
<1>4. /\ workers' \in [Workers -> WorkerState] /\ workers'[w] = s
      /\ \A v \in Workers \ {w} : workers'[v] = workers[v]
  BY <1>2, <1>3 DEF Becomes, IInv, TypeOK
<1> HIDE DEF s
<1>5. Live' = {w} /\ Busy' = {}
  <2>1. \A v \in Workers : v \in Live' <=> v = w
    BY <1>1, <1>3, <1>4 DEF Live
  <2>2. Live' = {w}
    BY <2>1 DEF Live
  <2> QED
    BY <1>3, <1>4, <2>2 DEF Busy
<1>6. Alone'
  BY <1>1, <1>2, <1>5 DEF IInv, Alone, ending
<1>7. \A f : f \in queued' <=> \E i \in 1 .. Len(queue') : queue'[i] = f
  BY <1>1, <1>2 DEF IInv, Served
<1>8. Served'
  BY <1>2, <1>5, <1>7 DEF IInv, Served
<1>9. TypeOK'
  BY <1>2, <1>4 DEF IInv, TypeOK, rows, ending
<1> QED
  BY <1>6, <1>8, <1>9 DEF IInv

\* Requests before the lock, the admin and time leave the queue alone.
LEMMA RequestStep ==
  ASSUME IInv, NEW f \in Feeds, Poll(f) \/ Recrawl(f) \/ DeadlinePasses(f)
  PROVE  IInv'
<1>1. UNCHANGED <<memory, workers, ending>>
  BY DEF Poll, Recrawl, DeadlinePasses
<1>2. Live' = Live /\ Busy' = Busy
  BY <1>1 DEF Live, Busy
<1>3. Alone' /\ Served'
  BY <1>1, <1>2, SameInvariants DEF IInv
<1>4. /\ complete' \in [Feeds -> BOOLEAN] /\ cursor' \in [Feeds -> Nat]
      /\ deferred' \subseteq Feeds /\ admitting' \subseteq Feeds
      /\ owed' \in [Feeds -> SUBSET Pages] /\ trouble' \in 0 .. MaxTrouble
  <2>1. CASE Poll(f)
    BY <2>1 DEF Poll, rows, IInv, TypeOK
  <2>2. CASE Recrawl(f)
    <3>1. /\ complete' = [complete EXCEPT ![f] = FALSE]
          /\ cursor' = [cursor EXCEPT ![f] = 0]
          /\ owed' = [owed EXCEPT ![f] = Pages]
          /\ Trouble /\ UNCHANGED deferred
          /\ admitting' \in {admitting, admitting \cup {f}}
      BY <2>2 DEF Recrawl
    <3>2. trouble' \in 0 .. MaxTrouble
      BY <3>1, QueueAssumption DEF Trouble, IInv, TypeOK
    <3> QED
      BY <3>1, <3>2 DEF IInv, TypeOK
  <2>3. CASE DeadlinePasses(f)
    BY <2>3 DEF DeadlinePasses, IInv, TypeOK
  <2> QED
    BY <2>1, <2>2, <2>3
<1>5. TypeOK'
  BY <1>1, <1>4 DEF IInv, TypeOK, memory, ending
<1> QED
  BY <1>3, <1>5 DEF IInv

\* A shutdown takes the idle channel that is open, and closes the database
\* when it is closed.
LEMMA ClosingStep ==
  ASSUME IInv, Closing PROVE IInv'
<1>1. UNCHANGED <<rows, memory, admitting, workers, owed, trouble>>
  BY DEF Closing, Cancel, WaitIdle, CloseStore, GraceEnds
<1>2. Live' = Live /\ Busy' = Busy
  BY <1>1 DEF Live, Busy
<1>3. Served'
  BY <1>1, <1>2 DEF IInv, Served, memory
<1>4. \/ closing' = "cancelled" /\ UNCHANGED awaited
      \/ closing' = "waiting" /\ awaited' = idle
      \/ closing' = "closed" /\ closing = "waiting" /\ awaited = NoWorker /\ UNCHANGED awaited
      \/ closing' = "late" /\ UNCHANGED awaited
  BY DEF Closing, Cancel, WaitIdle, CloseStore, GraceEnds
<1>5. idle = NoWorker => Live = {}
  BY DEF IInv, Alone, Live, Workers, NoWorker
<1>6. Alone'
  BY <1>1, <1>2, <1>4, <1>5 DEF IInv, Alone, memory
<1>7. TypeOK'
  BY <1>1, <1>4 DEF IInv, TypeOK, memory, rows
<1> QED
  BY <1>3, <1>6, <1>7 DEF IInv

\* A crash forgets queue, flags and goroutine together.
LEMMA RestartStep ==
  ASSUME IInv, Restart PROVE IInv'
<1>1. Alone' /\ Served'
  <2>1. /\ queue' = <<>> /\ queued' = {} /\ running' = FALSE /\ idle' = NoWorker
        /\ workers' = [w \in Workers |-> Gone] /\ closing' = "serving"
    BY DEF Restart
  <2>2. Live' = {} /\ Busy' = {}
    BY <2>1 DEF Live, Busy, Gone
  <2>3. Alone'
    BY <2>1, <2>2 DEF Alone
  <2>4. 1 .. Len(queue') = {}
    BY <2>1
  <2> QED
    BY <2>1, <2>2, <2>3, <2>4 DEF Served
<1>2. workers' \in [Workers -> WorkerState] /\ queue' \in Seq(Feeds)
  BY GoneType DEF Restart
<1>3. trouble' \in 0 .. MaxTrouble
  BY QueueAssumption DEF Restart, Trouble, IInv, TypeOK
<1>4. TypeOK'
  BY <1>2, <1>3 DEF Restart, IInv, TypeOK, rows
<1> QED
  BY <1>1, <1>4 DEF IInv

\* Every step keeps the invariant.
LEMMA InvStep == IInv /\ [Next]_vars => IInv'
<1> SUFFICES ASSUME IInv, [Next]_vars PROVE IInv'
  OBVIOUS
<1>1. ASSUME NEW f \in Feeds, Request(f) \/ Recrawl(f) \/ DeadlinePasses(f) PROVE IInv'
  BY <1>1, RequestStep, AdmitStep DEF Request
<1>2. ASSUME NEW w \in Workers, Work(w) \/ CrawlFails(w) PROVE IInv'
  BY <1>2, TakeStep, CrawlReadStep, CrawlPageStep, CrawlEndsStep, CrawlDoneStep DEF Work
<1>3. CASE Closing \/ Restart
  BY <1>3, ClosingStep, RestartStep
<1>4. CASE UNCHANGED vars
  <2>1. UNCHANGED <<memory, ending, workers>> /\ Live' = Live /\ Busy' = Busy
    BY <1>4 DEF vars, Live, Busy
  <2>2. Alone' /\ Served'
    BY <2>1, SameInvariants DEF IInv
  <2> QED
    BY <1>4, <2>2 DEF vars, IInv, TypeOK, rows, memory, ending
<1> QED
  BY <1>1, <1>2, <1>3, <1>4 DEF Next

-----------------------------------------------------------------------------
(* The archive, when no recrawl meets a running crawl.                     *)

Fetching(w) == workers[w].pc \in {"crawl", "pause"}

\* The pages a feed is still owed lie at or after its checkpoint, and at or
\* after the page of the goroutine that crawls it.
Owing ==
  /\ \A f \in Feeds : /\ complete[f] => owed[f] = {}
                      /\ \A p \in owed[f] : p >= cursor[f]
  /\ \A w \in Workers : Fetching(w) => \A p \in owed[workers[w].feed] : p >= workers[w].page

\* A step that writes no row and starts no page keeps that.
LEMMA NothingFetched ==
  ASSUME Owing, UNCHANGED <<complete, cursor, owed>>,
         \A w \in Workers : Fetching(w)' => /\ Fetching(w)
                                            /\ workers'[w].feed = workers[w].feed
                                            /\ workers'[w].page = workers[w].page
  PROVE  Owing'
  BY DEF Owing

\* Only one goroutine changes, and it leaves its crawl or stays on its page.
LEMMA NoPageStarted ==
  ASSUME IInv, Owing, UNCHANGED <<complete, cursor, owed>>, NEW w \in Workers, NEW s,
         Becomes(w, s),
         \/ s.pc \notin {"crawl", "pause"}
         \/ Fetching(w) /\ s.feed = workers[w].feed /\ s.page = workers[w].page
  PROVE  Owing'
<1>1. workers'[w] = s /\ \A v \in Workers \ {w} : workers'[v] = workers[v]
  BY DEF Becomes, IInv, TypeOK
<1>2. \A v \in Workers : Fetching(v)' => /\ Fetching(v)
                                         /\ workers'[v].feed = workers[v].feed
                                         /\ workers'[v].page = workers[v].page
  BY <1>1 DEF Fetching
<1> QED
  BY <1>2, NothingFetched

\* A crawl resumes at the checkpoint, before which nothing is owed.
LEMMA ReadKeepsOwing ==
  ASSUME IInv, Owing, NEW w \in Workers, CrawlRead(w) PROVE Owing'
<1> DEFINE f == workers[w].feed
           s == [workers[w] EXCEPT !.pc = "crawl", !.page = cursor[f],
                                   !.left = PagesPerRun]
<1>1. w \in Busy
  BY DEF CrawlRead, Busy, Live
<1>2. f \in Feeds /\ workers[w] \in WorkerState
  BY <1>1, CrawlingState DEF IInv
<1>3. UNCHANGED <<complete, cursor, owed>>
  BY DEF CrawlRead, rows
<1>4. CASE complete[f] \/ f \in deferred
  <2>1. Becomes(w, [workers[w] EXCEPT !.pc = "done"])
    BY <1>4 DEF CrawlRead
  <2>2. [workers[w] EXCEPT !.pc = "done"].pc = "done"
    BY <1>2 DEF WorkerState
  <2> QED
    BY <1>3, <2>1, <2>2, NoPageStarted
<1>5. CASE ~(complete[f] \/ f \in deferred)
  <2>1. Becomes(w, s)
    BY <1>5 DEF CrawlRead
  <2>2. s.feed = f /\ s.page = cursor[f]
    BY <1>2 DEF WorkerState
  <2>3. workers'[w] = s /\ \A v \in Workers \ {w} : workers'[v] = workers[v]
    BY <2>1 DEF Becomes, IInv, TypeOK
  <2>4. \A p \in owed[f] : p >= cursor[f]
    BY <1>2 DEF Owing
  <2> HIDE DEF s
  <2> QED
    BY <1>3, <2>2, <2>3, <2>4 DEF Owing, Fetching
<1> QED
  BY <1>4, <1>5

\* A fetched page is the first that was owed, if any was; the last one leaves
\* nothing owed. Nobody else is crawling.
LEMMA PageKeepsOwing ==
  ASSUME IInv, Owing, NEW w \in Workers, CrawlPage(w) PROVE Owing'
<1> DEFINE f == workers[w].feed
           page == workers[w].page
<1>1. w \in Busy
  BY DEF CrawlPage, Busy, Live
<1>2. f \in Feeds /\ workers[w] \in WorkerState /\ page \in Nat
  BY <1>1, CrawlingState DEF IInv
<1>3. /\ owed'[f] = owed[f] \ {page}
      /\ \A g \in Feeds \ {f} : owed'[g] = owed[g]
      /\ owed[f] \subseteq 0 .. LastPage
  BY <1>2 DEF CrawlPage, IInv, TypeOK, Pages
<1>4. \A p \in owed'[f] : p \in Nat /\ p >= page + 1 /\ p <= LastPage
  <2>1. \A p \in owed[f] : p >= page
    BY DEF Owing, CrawlPage, Fetching
  <2> QED
    BY <1>2, <1>3, <2>1, QueueAssumption
<1>5. \A v \in Workers : v # w => ~Fetching(v)' /\ workers'[v] = workers[v]
  <2>1. \A v \in Workers : v # w => v \notin Live
    BY <1>1 DEF IInv, Alone, Busy
  <2>2. \A v \in Workers : v # w => workers'[v] = workers[v]
    BY DEF CrawlPage, Becomes, IInv, TypeOK
  <2> QED
    BY <2>1, <2>2 DEF Live, Fetching
<1>6. CASE page >= LastPage
  <2>1. complete'[f] /\ cursor'[f] = 0
    BY <1>2, <1>6 DEF CrawlPage, IInv, TypeOK
  <2>2. \A g \in Feeds \ {f} : complete'[g] = complete[g] /\ cursor'[g] = cursor[g]
    BY <1>6 DEF CrawlPage, IInv, TypeOK
  <2>3. owed'[f] = {}
    BY <1>2, <1>4, <1>6, QueueAssumption
  <2>4. ~Fetching(w)'
    <3>1. workers' = [workers EXCEPT ![w] = [workers[w] EXCEPT !.pc = "done"]]
      BY <1>6 DEF CrawlPage, Becomes
    <3>2. [workers[w] EXCEPT !.pc = "done"].pc = "done"
      BY <1>2 DEF WorkerState
    <3>3. workers'[w].pc = "done"
      BY <3>1, <3>2 DEF IInv, TypeOK
    <3> QED
      BY <3>3 DEF Fetching
  <2> QED
    BY <1>3, <1>5, <2>1, <2>2, <2>3, <2>4 DEF Owing
<1>7. CASE ~(page >= LastPage)
  <2>1. ~complete'[f] /\ cursor'[f] = page
    BY <1>2, <1>7 DEF CrawlPage, IInv, TypeOK, Checkpoint
  <2>2. \A g \in Feeds \ {f} : complete'[g] = complete[g] /\ cursor'[g] = cursor[g]
    BY <1>7 DEF CrawlPage, IInv, TypeOK
  <2>3. workers'[w].feed = f /\ workers'[w].page = page + 1
    <3> DEFINE s == [workers[w] EXCEPT !.pc = "pause", !.page = page + 1, !.left = @ - 1]
    <3>1. workers' = [workers EXCEPT ![w] = s]
      BY <1>7 DEF CrawlPage, Becomes
    <3>2. s.feed = f /\ s.page = page + 1
      BY <1>2 DEF WorkerState
    <3>3. workers'[w] = s
      BY <3>1 DEF IInv, TypeOK
    <3> QED
      BY <3>2, <3>3
  <2>4. \A p \in owed'[f] : p >= page
    BY <1>2, <1>3, <1>4, QueueAssumption
  <2> QED
    BY <1>2, <1>3, <1>4, <1>5, <2>1, <2>2, <2>3, <2>4 DEF Owing
<1> QED
  BY <1>6, <1>7

\* The admin sets a feed back that no goroutine is crawling.
LEMMA RecrawlKeepsOwing ==
  ASSUME IInv, Owing, NEW f \in Feeds, Recrawl(f), ~RecrawlRaces PROVE Owing'
<1>1. /\ complete' = [complete EXCEPT ![f] = FALSE]
      /\ cursor' = [cursor EXCEPT ![f] = 0]
      /\ owed' = [owed EXCEPT ![f] = Pages]
      /\ UNCHANGED workers
      /\ \A w \in Live : workers[w].feed # f
  BY DEF Recrawl
<1>2. /\ ~complete'[f] /\ cursor'[f] = 0 /\ owed'[f] = Pages
      /\ \A g \in Feeds \ {f} : /\ complete'[g] = complete[g] /\ cursor'[g] = cursor[g]
                                /\ owed'[g] = owed[g]
  BY <1>1 DEF IInv, TypeOK
<1>3. \A p \in Pages : p >= 0
  BY QueueAssumption DEF Pages
<1>4. \A w \in Workers : Fetching(w) => workers[w].feed \in Feeds \ {f}
  BY <1>1 DEF Fetching, Live, Busy, IInv, Served
<1> QED
  BY <1>1, <1>2, <1>3, <1>4 DEF Owing, Fetching

\* The other steps of a goroutine leave the rows and the pages alone.
LEMMA OtherWorkKeepsOwing ==
  ASSUME IInv, Owing, NEW w \in Workers,
         \/ Take(w) \/ CrawlPause(w) \/ CrawlPageLimit(w)
         \/ CrawlFails(w) \/ CrawlLosesDatabase(w) \/ CrawlDone(w)
  PROVE  Owing'
<1>1. UNCHANGED <<complete, cursor, owed>>
  BY DEF Take, CrawlPause, CrawlPageLimit, CrawlFails, CrawlLosesDatabase, CrawlDone, rows
<1>2. workers[w] \in WorkerState
  BY DEF IInv, TypeOK
<1>3. \A place \in {"crawl", "done"} :
        LET s == [workers[w] EXCEPT !.pc = place]
        IN  s.pc = place /\ s.feed = workers[w].feed /\ s.page = workers[w].page
  BY <1>2 DEF WorkerState
<1>4. CASE Take(w)
  <2> DEFINE taken == [Gone EXCEPT !.pc = "read", !.feed = Head(queue)]
  <2>1. Becomes(w, Gone) \/ Becomes(w, taken)
    BY <1>4 DEF Take
  <2>2. Gone.pc = "gone" /\ taken.pc = "read"
    BY DEF Gone
  <2> QED
    BY <1>1, <2>1, <2>2, NoPageStarted
<1>5. CASE CrawlPause(w)
  <2>1. Fetching(w) /\ \E place \in {"crawl", "done"} :
                          Becomes(w, [workers[w] EXCEPT !.pc = place])
    BY <1>5 DEF CrawlPause, Fetching
  <2> QED
    BY <1>1, <1>3, <2>1, NoPageStarted
<1>6. CASE CrawlPageLimit(w) \/ CrawlFails(w) \/ CrawlLosesDatabase(w)
  <2>1. Becomes(w, [workers[w] EXCEPT !.pc = "done"])
    BY <1>6 DEF CrawlPageLimit, CrawlFails, CrawlLosesDatabase
  <2> QED
    BY <1>1, <1>3, <2>1, NoPageStarted
<1>7. CASE CrawlDone(w)
  <2>1. Becomes(w, [Gone EXCEPT !.pc = "take"])
    BY <1>7 DEF CrawlDone
  <2>2. [Gone EXCEPT !.pc = "take"].pc = "take"
    BY DEF Gone
  <2> QED
    BY <1>1, <2>1, <2>2, NoPageStarted
<1> QED
  BY <1>4, <1>5, <1>6, <1>7

\* Admission starts a goroutine that crawls nothing yet; requests, deadlines
\* and the shutdown touch neither pages nor rows; a restart crawls nothing.
LEMMA RestKeepsOwing ==
  ASSUME IInv, Owing,
         \/ \E f \in Feeds : Request(f) \/ DeadlinePasses(f)
         \/ Closing \/ Restart
  PROVE  Owing'
<1>1. CASE \E f \in Feeds : Poll(f) \/ DeadlinePasses(f)
  <2>1. UNCHANGED <<complete, cursor, owed, workers>>
    BY <1>1 DEF Poll, DeadlinePasses, rows
  <2> QED
    BY <2>1 DEF Owing, Fetching
<1>2. ASSUME NEW f \in Feeds, Admit(f) PROVE Owing'
  <2>1. UNCHANGED <<complete, cursor, owed>>
    BY <1>2 DEF Admit, rows
  <2>2. CASE UNCHANGED workers
    BY <2>1, <2>2 DEF Owing, Fetching
  <2>3. CASE \E w \in Workers \ Live : Start(w)
    <3>1. PICK w \in Workers \ Live : Start(w)
      BY <2>3
    <3>2. Becomes(w, [Gone EXCEPT !.pc = "take"])
      BY <3>1 DEF Start, Becomes
    <3>3. [Gone EXCEPT !.pc = "take"].pc = "take"
      BY DEF Gone
    <3> QED
      BY <2>1, <3>2, <3>3, NoPageStarted
  <2> QED
    BY <1>2, <2>2, <2>3 DEF Admit, memory
<1>3. CASE Closing
  <2>1. UNCHANGED <<complete, cursor, owed, workers>>
    BY <1>3 DEF Closing, Cancel, WaitIdle, CloseStore, GraceEnds, rows
  <2> QED
    BY <2>1 DEF Owing, Fetching
<1>4. CASE Restart
  <2>1. UNCHANGED <<complete, cursor, owed>> /\ \A w \in Workers : workers'[w].pc = "gone"
    BY <1>4 DEF Restart, rows, Gone
  <2> QED
    BY <2>1 DEF Owing, Fetching
<1> QED
  BY <1>1, <1>2, <1>3, <1>4 DEF Request

\* At the start every page is owed, from the first.
LEMMA OwingInit == Init => Owing
  BY QueueAssumption DEF Init, Owing, Fetching, Pages, Gone

-----------------------------------------------------------------------------
(* The theorems.                                                           *)

\* The queue's invariant is inductive.
THEOREM QueueIsInductive == Spec => []IInv
<1>1. Init => IInv
  BY InvInit
<1>2. IInv /\ [Next]_vars => IInv'
  BY InvStep
<1> QED
  BY <1>1, <1>2, PTL DEF Spec

\* The crawler's fields and the rows it writes keep their types.
THEOREM TypeCorrect == Spec => []TypeOK
<1>1. IInv => TypeOK
  BY DEF IInv
<1> QED
  BY <1>1, QueueIsInductive, PTL

\* Enqueue and processQueue never run two crawls: running says exactly whether
\* the one goroutine lives, and its idle channel is the open one.
THEOREM AlwaysOneCrawl == Spec => []OneCrawlAtATime
  BY IInvImplies, QueueIsInductive, PTL

\* A feed in the queued set is in the queue once or being crawled, and a
\* goroutine is there to take it: no admission is lost or stuck.
THEOREM QueuedAlwaysServed == Spec => []QueuedIsServed
  BY IInvImplies, QueueIsInductive, PTL

\* App.Close closes the database after the last crawl, if it does not run out
\* of time, and Enqueue starts none afterwards.
THEOREM AlwaysQuietWhenClosed == Spec => []QuietWhenClosed
  BY IInvImplies, QueueIsInductive, PTL

\* models.go promises that backlog_complete "is true once the full archive has
\* been crawled": over pauses, page limits, failures, shutdowns and crashes at
\* any point, unless an admin's recrawl meets a running crawl of the feed.
THEOREM CompleteIsEveryPage ==
  ASSUME ~RecrawlRaces PROVE Spec => []CompleteMeansEveryPage
<1>1. Init => IInv /\ Owing
  BY InvInit, OwingInit
<1>2. IInv /\ Owing /\ [Next]_vars => (IInv /\ Owing)'
  <2> SUFFICES ASSUME IInv, Owing, [Next]_vars PROVE Owing'
    BY InvStep
  <2>1. CASE \E f \in Feeds : Recrawl(f)
    BY <2>1, RecrawlKeepsOwing
  <2>2. ASSUME NEW w \in Workers, Work(w) \/ CrawlFails(w) PROVE Owing'
    BY <2>2, ReadKeepsOwing, PageKeepsOwing, OtherWorkKeepsOwing DEF Work
  <2>3. CASE (\E f \in Feeds : Request(f) \/ DeadlinePasses(f)) \/ Closing \/ Restart
    BY <2>3, RestKeepsOwing
  <2>4. CASE UNCHANGED vars
    BY <2>4 DEF vars, rows, Owing, Fetching
  <2> QED
    BY <2>1, <2>2, <2>3, <2>4 DEF Next
<1>3. Owing => CompleteMeansEveryPage
  BY DEF Owing, CompleteMeansEveryPage
<1> QED
  BY <1>1, <1>2, <1>3, PTL DEF Spec

-----------------------------------------------------------------------------
(* The crawler implements the line of CrawlLine.                           *)

\* The feeds being crawled are those of the busy goroutines.
LEMMA CrawledByBusy == Crawled = {workers[w].feed : w \in Busy}
  BY DEF Crawled, Busy

\* The line starts open and empty.
LEMMA LineInit == Init => Line!Init
<1> SUFFICES ASSUME Init PROVE Line!Init
  OBVIOUS
<1>1. Busy = {} /\ queue = <<>> /\ closing = "serving"
  BY Fresh DEF Init
<1>2. Crawled = {} /\ Phase = "open"
  BY <1>1, CrawledByBusy DEF Phase
<1> QED
  BY <1>1, <1>2 DEF Line!Init

\* With the same queue, feeds and stage of the shutdown the line stands still.
LEMMA LineStands ==
  ASSUME Crawled' = Crawled, UNCHANGED <<queue, closing>>
  PROVE  UNCHANGED <<queue, Crawled, Phase>>
  BY DEF Phase

\* While nobody takes a feed or finishes one, the feeds being crawled stay.
LEMMA CrawledStays ==
  ASSUME Busy' = Busy, \A v \in Busy : workers'[v].feed = workers[v].feed
  PROVE  Crawled' = Crawled
<1>1. Crawled' = {workers'[w].feed : w \in Busy'}
  BY DEF Crawled, Busy
<1> QED
  BY <1>1, CrawledByBusy

\* An admission that is not ignored joins the line at its end.
LEMMA AdmitJoins ==
  ASSUME IInv, NEW f \in Feeds, Admit(f)
  PROVE  Line!Join(f) \/ UNCHANGED <<queue, Crawled, Phase>>
<1>1. CASE Ignored(f)
  <2>1. UNCHANGED <<queue, workers, closing>>
    BY <1>1 DEF Admit, memory, ending
  <2>2. Crawled' = Crawled
    BY <2>1 DEF Crawled, Live
  <2> QED
    BY <2>1, <2>2, LineStands
<1>2. CASE ~Ignored(f)
  <2>1. /\ f \notin queued /\ closing = "serving"
        /\ queue' = Append(queue, f) /\ closing' = closing
        /\ IF ~running THEN \E w \in Workers \ Live : Start(w)
           ELSE UNCHANGED <<running, idle, workers>>
        /\ UNCHANGED ending
    BY <1>2 DEF Admit, Ignored, NoGoroutine, Cancelled, ending
  <2>2. Phase = "open" /\ Phase' = "open"
    BY <2>1 DEF Phase
  <2>3. f \notin Line!Standing \cup Crawled
    <3>1. f \notin Line!Standing
      BY <2>1 DEF Line!Standing, IInv, Served
    <3>2. f \notin Crawled
      BY <2>1, CrawledByBusy DEF IInv, Served
    <3> QED
      BY <3>1, <3>2
  <2>4. Crawled' = Crawled
    <3>1. CASE ~running
      <4>1. PICK w \in Workers \ Live : Start(w)
        BY <2>1, <3>1
      <4>2. Busy' = {} /\ Busy = {}
        BY <2>1, <3>1, <4>1, StartIsAlone DEF IInv, Cancelled, ending
      <4> QED
        BY <4>2, CrawledStays
    <3>2. CASE running
      BY <2>1, <3>2 DEF Crawled, Live
    <3> QED
      BY <3>1, <3>2 DEF IInv, TypeOK
  <2> QED
    BY <2>1, <2>2, <2>3, <2>4 DEF Line!Join
<1> QED
  BY <1>1, <1>2

\* The goroutine takes the first in line, or ends and sends the rest away.
LEMMA TakeBegins ==
  ASSUME IInv, NEW w \in Workers, Take(w)
  PROVE  Line!Begin \/ Line!Disperse \/ UNCHANGED <<queue, Crawled, Phase>>
<1>1. Live = {w} /\ Busy = {}
  BY DEF Take, Live, Busy, IInv, Alone
<1>2. Crawled = {} /\ closing' = closing /\ Phase' = Phase
  BY <1>1, CrawledByBusy DEF Take, Phase
<1>3. CASE Drained
  <2>1. queue' = <<>> /\ Becomes(w, Gone)
    BY <1>3 DEF Take
  <2>2. Busy' = {}
    BY <1>1, <2>1 DEF Becomes, IInv, TypeOK, Live, Busy, Gone
  <2>3. Crawled' = {}
    BY <2>2 DEF Crawled, Busy
  <2>4. CASE queue = <<>>
    BY <1>2, <2>1, <2>3, <2>4
  <2>5. CASE Cancelled
    <3>1. Phase # "open"
      BY <2>5 DEF Cancelled, Phase, IInv, TypeOK
    <3> QED
      BY <1>2, <2>1, <2>3, <3>1 DEF Line!Disperse
  <2> QED
    BY <1>3, <2>4, <2>5 DEF Drained
<1>4. CASE ~Drained
  <2> DEFINE s == [Gone EXCEPT !.pc = "read", !.feed = Head(queue)]
  <2>1. /\ queue # <<>> /\ closing = "serving"
        /\ queue' = Tail(queue) /\ Becomes(w, s)
    BY <1>4 DEF Take, Drained, Cancelled
  <2>2. s.pc = "read" /\ s.feed = Head(queue)
    BY DEF Gone
  <2>3. workers'[w] = s /\ \A v \in Workers \ {w} : workers'[v] = workers[v]
    BY <2>1 DEF Becomes, IInv, TypeOK
  <2> HIDE DEF s
  <2>4. Busy' = {w}
    <3>1. \A v \in Workers : workers'[v].pc \notin {"gone", "take"} <=> v = w
      BY <1>1, <2>2, <2>3 DEF Live
    <3> QED
      BY <3>1 DEF Busy, Live
  <2>5. Crawled' = {Head(queue)}
    BY <2>2, <2>3, <2>4 DEF Crawled, Busy
  <2>6. Phase = "open"
    BY <2>1 DEF Phase
  <2> QED
    BY <1>2, <2>1, <2>5, <2>6 DEF Line!Begin
<1> QED
  BY <1>3, <1>4

\* A crawl that goes on or fails stays what is being crawled.
LEMMA CrawlGoesOn ==
  ASSUME IInv, NEW w \in Workers,
         \/ CrawlRead(w) \/ CrawlPage(w) \/ CrawlPause(w) \/ CrawlPageLimit(w)
         \/ CrawlFails(w) \/ CrawlLosesDatabase(w)
  PROVE  UNCHANGED <<queue, Crawled, Phase>>
<1>1. w \in Busy
  BY DEF CrawlRead, CrawlPage, CrawlPause, CrawlPageLimit, CrawlFails, CrawlLosesDatabase,
     Busy, Live
<1>2. workers[w] \in WorkerState
  BY <1>1, CrawlingState DEF IInv
<1>3. UNCHANGED <<queue, closing>>
  BY DEF CrawlRead, CrawlPage, CrawlPause, CrawlPageLimit, CrawlFails, CrawlLosesDatabase,
     memory, ending
<1>4. \E s : /\ Becomes(w, s) /\ s.feed = workers[w].feed
             /\ s.pc \notin {"gone", "take"}
  <2>1. CASE CrawlRead(w)
    <3> DEFINE f == workers[w].feed
               done == [workers[w] EXCEPT !.pc = "done"]
               onward == [workers[w] EXCEPT !.pc = "crawl", !.page = cursor[f],
                                            !.left = PagesPerRun]
    <3>1. Becomes(w, done) \/ Becomes(w, onward)
      BY <2>1 DEF CrawlRead
    <3>2. done.feed = f /\ done.pc = "done" /\ onward.feed = f /\ onward.pc = "crawl"
      BY <1>2 DEF WorkerState
    <3> HIDE DEF done, onward
    <3> QED
      BY <3>1, <3>2
  <2>2. CASE CrawlPage(w)
    <3> DEFINE done == [workers[w] EXCEPT !.pc = "done"]
               onward == [workers[w] EXCEPT !.pc = "pause", !.page = workers[w].page + 1,
                                            !.left = @ - 1]
    <3>1. Becomes(w, done) \/ Becomes(w, onward)
      BY <2>2 DEF CrawlPage
    <3>2. /\ done.feed = workers[w].feed /\ done.pc = "done"
          /\ onward.feed = workers[w].feed /\ onward.pc = "pause"
      BY <1>2 DEF WorkerState
    <3> HIDE DEF done, onward
    <3> QED
      BY <3>1, <3>2
  <2>3. CASE CrawlPause(w) \/ CrawlPageLimit(w) \/ CrawlFails(w) \/ CrawlLosesDatabase(w)
    <3> DEFINE goes(place) == [workers[w] EXCEPT !.pc = place]
    <3>1. \E place \in {"crawl", "done"} : Becomes(w, goes(place))
      BY <2>3 DEF CrawlPause, CrawlPageLimit, CrawlFails, CrawlLosesDatabase
    <3>2. \A place \in {"crawl", "done"} :
            goes(place).feed = workers[w].feed /\ goes(place).pc = place
      BY <1>2 DEF WorkerState
    <3> HIDE DEF goes
    <3> QED
      BY <3>1, <3>2
  <2> QED
    BY <2>1, <2>2, <2>3
<1>5. Busy' = Busy /\ \A v \in Busy : workers'[v].feed = workers[v].feed
  BY <1>1, <1>4, SameWorkers DEF IInv
<1> QED
  BY <1>3, <1>5, CrawledStays, LineStands

\* A finished crawl leaves nothing being crawled.
LEMMA DoneEnds ==
  ASSUME IInv, NEW w \in Workers, CrawlDone(w) PROVE Line!End
<1> DEFINE s == [Gone EXCEPT !.pc = "take"]
<1>1. Live = {w} /\ Busy = {w}
  BY DEF CrawlDone, Live, Busy, IInv, Alone
<1>2. Becomes(w, s) /\ UNCHANGED <<queue, closing>>
  BY DEF CrawlDone, ending
<1>3. s.pc = "take"
  BY DEF Gone
<1>4. workers'[w] = s /\ \A v \in Workers \ {w} : workers'[v] = workers[v]
  BY <1>2 DEF Becomes, IInv, TypeOK
<1> HIDE DEF s
<1>5. Busy' = {}
  <2>1. \A v \in Workers : workers'[v].pc \in {"gone", "take"}
    BY <1>1, <1>3, <1>4 DEF Live
  <2> QED
    BY <2>1 DEF Busy, Live
<1>6. Crawled # {} /\ Crawled' = {}
  <2>1. workers[w].feed \in Crawled
    BY <1>1, CrawledByBusy
  <2>2. Crawled' = {}
    BY <1>5 DEF Crawled, Busy
  <2> QED
    BY <2>1, <2>2
<1>7. Phase' = Phase
  BY <1>2 DEF Phase
<1> QED
  BY <1>2, <1>6, <1>7 DEF Line!End

\* A shutdown stops the line, and closes it or gives up waiting for it.
LEMMA ClosingStops ==
  ASSUME IInv, Closing
  PROVE  Line!Stop \/ Line!Close \/ Line!Abandon \/ UNCHANGED <<queue, Crawled, Phase>>
<1>1. UNCHANGED <<queue, workers>>
  BY DEF Closing, Cancel, WaitIdle, CloseStore, GraceEnds, memory
<1>2. Crawled' = Crawled
  BY <1>1 DEF Crawled, Live
<1>3. CASE Cancel
  <2>1. Phase = "open" /\ Phase' = "stopping"
    BY <1>3 DEF Cancel, Phase
  <2> QED
    BY <1>1, <1>2, <2>1 DEF Line!Stop
<1>4. CASE WaitIdle
  <2>1. Phase = "stopping" /\ Phase' = "stopping"
    BY <1>4 DEF WaitIdle, Phase
  <2> QED
    BY <1>1, <1>2, <2>1
<1>5. CASE CloseStore
  <2>1. Phase = "stopping" /\ Phase' = "closed"
    BY <1>5 DEF CloseStore, Phase
  <2>2. idle = NoWorker
    BY <1>5 DEF CloseStore, IInv, Alone
  <2>3. Live = {}
    BY <2>2 DEF IInv, Alone, Live, Workers, NoWorker
  <2>4. Crawled = {} /\ queue = <<>>
    BY <2>3 DEF Crawled, IInv, Alone, Served
  <2> QED
    BY <1>1, <1>2, <2>1, <2>4 DEF Line!Close
<1>6. CASE GraceEnds
  <2>1. Phase = "stopping" /\ Phase' = "abandoned"
    BY <1>6 DEF GraceEnds, Phase
  <2> QED
    BY <1>1, <1>2, <2>1 DEF Line!Abandon
<1> QED
  BY <1>3, <1>4, <1>5, <1>6 DEF Closing

\* A crash, or a start after a stop, starts the line afresh.
LEMMA RestartRestarts == ASSUME Restart PROVE Line!Restart
<1>1. queue' = <<>> /\ workers' = [w \in Workers |-> Gone] /\ closing' = "serving"
  BY DEF Restart
<1>2. Crawled' = {}
  BY <1>1 DEF Crawled, Live, Gone
<1>3. Phase' = "open"
  BY <1>1 DEF Phase
<1> QED
  BY <1>1, <1>2, <1>3 DEF Line!Restart

\* Every step of the crawler is a step of the line or leaves it alone.
LEMMA LineStep == IInv /\ [Next]_vars => [Line!Next]_<<queue, Crawled, Phase>>
<1> SUFFICES ASSUME IInv, [Next]_vars
             PROVE  Line!Next \/ UNCHANGED <<queue, Crawled, Phase>>
  OBVIOUS
<1>1. ASSUME NEW f \in Feeds, Admit(f)
      PROVE  Line!Next \/ UNCHANGED <<queue, Crawled, Phase>>
  BY <1>1, AdmitJoins DEF Line!Next
<1>2. ASSUME NEW w \in Workers, Work(w) \/ CrawlFails(w)
      PROVE  Line!Next \/ UNCHANGED <<queue, Crawled, Phase>>
  BY <1>2, TakeBegins, CrawlGoesOn, DoneEnds DEF Work, Line!Next
<1>3. CASE Closing \/ Restart
  BY <1>3, ClosingStops, RestartRestarts DEF Line!Next
<1>4. CASE (\E f \in Feeds : Poll(f) \/ Recrawl(f) \/ DeadlinePasses(f)) \/ UNCHANGED vars
  <2>1. UNCHANGED <<queue, workers, closing>>
    BY <1>4 DEF Poll, Recrawl, DeadlinePasses, vars, memory, ending
  <2>2. Crawled' = Crawled
    BY <2>1 DEF Crawled, Live
  <2> QED
    BY <2>1, <2>2, LineStands
<1> QED
  BY <1>1, <1>2, <1>3, <1>4 DEF Next, Request

\* Enqueue, processQueue, WaitIdle and app.Close together keep the promise of
\* CrawlLine, over cancellations at any point, late admissions and crashes.
THEOREM CrawlerImplementsLine == Spec => ImplementsCrawlLine
<1>1. Init => Line!Init
  BY LineInit
<1>2. IInv /\ [Next]_vars => [Line!Next]_<<queue, Crawled, Phase>>
  BY LineStep
<1> QED
  BY <1>1, <1>2, QueueIsInductive, PTL DEF Spec, ImplementsCrawlLine, Line!Spec
=============================================================================
