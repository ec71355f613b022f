------------------------------ MODULE FeedCache ------------------------------
(***************************************************************************)
(* Serving one feed: the store's in-memory data version (store/queries.go), *)
(* the shared fetch of Feeds.GetSeries (feed/refresh.go), and the rendered  *)
(* XML with its validators (feed/cache.go), under concurrent requests       *)
(* (web/feeds.go) and concurrent writers (refreshes, the crawl, video       *)
(* rounds). Content is two counters, one per query of ReadSeries: the       *)
(* commit that last changed the series row, and the episodes.               *)
(***************************************************************************)
EXTENDS Integers, FiniteSets

CONSTANTS
  Requests,        \* request handlers
  Origins,         \* request origins a feed is rendered for
  MaxCommits,      \* bound: content writes
  MaxSecond,       \* bound: the clock, in whole seconds
  MaxDate          \* bound: Last-Modified, which changes push past the clock

ASSUME CacheAssumption ==
  MaxCommits \in Nat /\ MaxSecond \in Nat /\ MaxDate \in Nat

VARIABLES
  second,             \* the clock
  commits, row, eps,  \* the database: commits so far, the two queries' answers
  bumps,              \* versions.bump calls so far
  entry, validator,   \* the feed's cache entry, and its validator
  flight,             \* the inFlight call of GetSeries
  handlers,           \* what each request is doing
  seen                \* history: newest version in a finished response

database == <<commits, row, eps>>
cache    == <<entry, validator>>
vars == <<second, database, bumps, cache, flight, handlers, seen>>

\* Versions start at 1: 0 never matches a current version.
DataVersion == bumps + 1

NoEntry == [version |-> -1, origin |-> "none", row |-> 0, eps |-> 0, lm |-> 0]
NoValidator == [etag |-> <<>>, lm |-> -1]
NoSeries == [version |-> -1, row |-> 0, eps |-> 0]
NoFlight == [pc |-> "none", series |-> NoSeries]
Idle == [pc |-> "idle", origin |-> "none", version |-> 0, series |-> NoSeries,
         previous |-> NoValidator, lm |-> 0, floor |-> 0, served |-> -1]

\* The XML, and so its hash, is a function of the content and the origin.
ETag(origin, content) == <<origin, content.row, content.eps>>

-----------------------------------------------------------------------------
(* Writers: commit on the one write connection, then bump.                 *)

Commit ==
  /\ commits < MaxCommits
  /\ commits' = commits + 1
  /\ \/ row' = commits + 1 /\ eps' = eps
     \/ row' = row /\ eps' = commits + 1
     \/ row' = commits + 1 /\ eps' = commits + 1
  /\ UNCHANGED <<second, bumps, cache, flight, handlers, seen>>

BumpedTwice == bumps + 2
Bumped == bumps + 1

Bump ==
  /\ bumps < commits
  /\ bumps' = Bumped
  /\ UNCHANGED <<second, database, cache, flight, handlers, seen>>

Tick ==
  /\ second < MaxSecond
  /\ second' = second + 1
  /\ UNCHANGED <<database, bumps, cache, flight, handlers, seen>>

-----------------------------------------------------------------------------
(* A request.                                                              *)

Goes(r, state) == handlers' = [handlers EXCEPT ![r] = state]

Serve(r, rendered) ==
  /\ Goes(r, [Idle EXCEPT !.pc = "served", !.served = rendered.version])
  /\ seen' = IF rendered.version > seen THEN rendered.version ELSE seen

Begin(r) ==
  /\ handlers[r].pc \in {"idle", "served"}
  /\ \E origin \in Origins :
       Goes(r, [Idle EXCEPT !.pc = "peek", !.origin = origin,
                            !.version = DataVersion, !.floor = seen])
  /\ UNCHANGED <<second, database, bumps, cache, flight, seen>>

\* The fast path: a memoized render of the snapshot's version, if the feed is
\* also fresh (MetaIsFresh, either answer); else the feed is fetched.
MatchesAnyVersion(e, origin, version) == e.origin = origin
PeekMatches(e, origin, version) == e.origin = origin /\ e.version = version

Peek(r) ==
  /\ handlers[r].pc = "peek"
  /\ \/ /\ PeekMatches(entry, handlers[r].origin, handlers[r].version)
        /\ Serve(r, entry)
     \/ /\ Goes(r, [handlers[r] EXCEPT !.pc = "fetch", !.version = 0])
        /\ UNCHANGED seen
  /\ UNCHANGED <<second, database, bumps, cache, flight>>

\* GetSeries: the first caller fetches, those that come meanwhile wait for it.
Join(r) ==
  /\ handlers[r].pc = "fetch"
  /\ IF flight.pc = "none"
     THEN flight' = [flight EXCEPT !.pc = "snapshot"]
     ELSE UNCHANGED flight
  /\ Goes(r, [handlers[r] EXCEPT !.pc = "wait"])
  /\ UNCHANGED <<second, database, bumps, cache, seen>>

\* ReadSeries: the version first, then two queries; a refresh, if one is due,
\* writes before or between as any writer does.
ReadVersion ==
  /\ flight.pc = "snapshot" /\ commits > 0
  /\ flight' = [flight EXCEPT !.pc = "row", !.series = [@ EXCEPT !.version = DataVersion]]
  /\ UNCHANGED <<second, database, bumps, cache, handlers, seen>>

ReadRow ==
  /\ flight.pc = "row"
  /\ flight' = [flight EXCEPT !.pc = "episodes", !.series = [@ EXCEPT !.row = row]]
  /\ UNCHANGED <<second, database, bumps, cache, handlers, seen>>

\* The version of the read is the snapshot taken before it.
LateVersion == DataVersion
SnapshotVersion == flight.series.version

ReadEpisodes ==
  /\ flight.pc = "episodes"
  /\ flight' = [flight EXCEPT !.pc = "done",
                  !.series = [@ EXCEPT !.eps = eps, !.version = SnapshotVersion]]
  /\ UNCHANGED <<second, database, bumps, cache, handlers, seen>>

\* A first fetch whose write failed is served as it is, without a version.
FetchUnstored ==
  /\ flight.pc = "snapshot" /\ commits = 0
  /\ flight' = [pc |-> "done", series |-> [NoSeries EXCEPT !.version = 0]]
  /\ UNCHANGED <<second, database, bumps, cache, handlers, seen>>

\* The call's channel is closed, which wakes every waiter: each gets the series
\* of the fetch it joined, with the version of that series.
Woken(r) == handlers[r].pc = "wait"

Land ==
  /\ flight.pc = "done"
  /\ flight' = NoFlight
  /\ handlers' = [r \in Requests |->
       IF ~Woken(r) THEN handlers[r]
       ELSE [handlers[r] EXCEPT !.pc = "lookup", !.series = flight.series]]
  /\ UNCHANGED <<second, database, bumps, cache, seen>>

\* Render, first lock: an equal or newer render is reused; else the feed's
\* validator is copied.
Lookup(r) ==
  LET h == handlers[r] IN
  /\ h.pc = "lookup"
  /\ IF entry.origin = h.origin /\ entry.version >= h.series.version
     THEN Serve(r, entry)
     ELSE /\ Goes(r, [h EXCEPT !.pc = "assemble", !.previous = validator])
          /\ UNCHANGED seen
  /\ UNCHANGED <<second, database, bumps, cache, flight>>

\* Last-Modified: now, or the previous one when the XML is the same, or a
\* second after it when it changed within that second.
WallClock(previous, etag) == second
LastModified(previous, etag) ==
  IF previous = NoValidator THEN second
  ELSE IF previous.etag = etag THEN previous.lm
  ELSE IF second > previous.lm THEN second
  ELSE previous.lm + 1

\* Without the lock: the XML, its hash and its date.
Assemble(r) ==
  LET h == handlers[r] IN
  /\ h.pc = "assemble"
  /\ LastModified(h.previous, ETag(h.origin, h.series)) <= MaxDate
  /\ Goes(r, [h EXCEPT !.pc = "store",
                !.lm = LastModified(h.previous, ETag(h.origin, h.series))])
  /\ UNCHANGED <<second, database, bumps, cache, flight, seen>>

\* A newer render that landed meanwhile is not replaced.
NewerLanded(h) == entry.origin = h.origin /\ entry.version > h.series.version

\* Render, second lock: the entry and the validator are replaced together.
Store(r) ==
  LET h == handlers[r]
      rendered == [version |-> h.series.version, origin |-> h.origin,
                   row |-> h.series.row, eps |-> h.series.eps, lm |-> h.lm]
  IN
  /\ h.pc = "store"
  /\ IF h.series.version = 0 THEN Serve(r, rendered) /\ UNCHANGED cache
     ELSE IF NewerLanded(h) THEN Serve(r, entry) /\ UNCHANGED cache
     ELSE /\ Serve(r, rendered)
          /\ entry' = rendered
          /\ validator' = [etag |-> ETag(h.origin, h.series), lm |-> h.lm]
  /\ UNCHANGED <<second, database, bumps, flight>>

\* Other feeds push this one out of the cache; its validator stays, until the
\* validators overflow and all of them are dropped.
Evict ==
  /\ entry # NoEntry
  /\ entry' = NoEntry
  /\ UNCHANGED <<second, database, bumps, validator, flight, handlers, seen>>

DropValidators ==
  /\ validator # NoValidator
  /\ validator' = NoValidator
  /\ UNCHANGED <<second, database, bumps, entry, flight, handlers, seen>>

-----------------------------------------------------------------------------
Init ==
  /\ second = 0
  /\ commits = 0 /\ row = 0 /\ eps = 0 /\ bumps = 0
  /\ entry = NoEntry /\ validator = NoValidator
  /\ flight = NoFlight
  /\ handlers = [r \in Requests |-> Idle]
  /\ seen = 0

Fetching == ReadVersion \/ ReadRow \/ ReadEpisodes \/ FetchUnstored \/ Land
Handle(r) == Peek(r) \/ Join(r) \/ Lookup(r) \/ Assemble(r) \/ Store(r)

Next ==
  \/ Commit \/ Bump \/ Tick \/ Fetching \/ Evict \/ DropValidators
  \/ \E r \in Requests : Begin(r) \/ Handle(r)

Spec == Init /\ [][Next]_vars

-----------------------------------------------------------------------------
(* Properties.                                                             *)

Versions == -1 .. MaxCommits + 1
Series == [version : Versions, row : 0 .. MaxCommits, eps : 0 .. MaxCommits]
Entry == [version : Versions, origin : Origins \cup {"none"}, row : 0 .. MaxCommits,
          eps : 0 .. MaxCommits, lm : Nat]
Validator ==
  {NoValidator} \cup
  [etag : Origins \X (0 .. MaxCommits) \X (0 .. MaxCommits), lm : Nat]

TypeOK ==
  /\ second \in 0 .. MaxSecond
  /\ commits \in 0 .. MaxCommits /\ row \in 0 .. commits /\ eps \in 0 .. commits
  /\ bumps \in 0 .. commits
  /\ entry \in Entry /\ validator \in Validator
  /\ flight \in [pc : {"none", "snapshot", "row", "episodes", "done"}, series : Series]
  /\ handlers \in [Requests ->
       [pc : {"idle", "peek", "fetch", "wait", "lookup", "assemble", "store", "served"},
        origin : Origins \cup {"none"}, version : Versions, series : Series,
        previous : Validator, lm : Nat, floor : Nat, served : Versions]]
  /\ seen \in Nat

\* "Stale XML is never cached under the newest version": once every commit has
\* been bumped, an entry that Peek takes for current has the database's content.
NewestIsFresh ==
  entry.version = DataVersion /\ bumps = commits
    => entry.row = row /\ entry.eps = eps

\* Polls never go back: a response to a request made after another response
\* was finished is never of an older version, through joins of somebody else's
\* fetch, late renders and evictions. (Version 0 was never stored.)
PollsNeverGoBack ==
  [][\A r \in Requests :
       handlers[r].pc # "served" /\ handlers'[r].pc = "served"
         => handlers'[r].served = 0 \/ handlers'[r].served >= handlers[r].floor]_vars

\* "Last-Modified must move whenever the XML changes": a render that replaces
\* the feed's validator with another ETag moves its date forward, so that an
\* If-Modified-Since poll cannot be told 304 about a changed feed.
ChangesMoveLastModified ==
  [][validator # NoValidator /\ validator' # NoValidator
       /\ validator'.etag # validator.etag => validator'.lm > validator.lm]_vars

\* "... and only then": when no other render took the validator meanwhile, a
\* render moves the date forward exactly when it changes the ETag.
LastModifiedMoves ==
  [][\A r \in Requests :
       /\ handlers[r].pc = "store" /\ handlers'[r].pc = "served"
       /\ handlers[r].previous = validator /\ validator # NoValidator
       => \/ validator' = validator
          \/ validator'.etag # validator.etag /\ validator'.lm > validator.lm]_vars
=============================================================================
