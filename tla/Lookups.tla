-------------------------------- MODULE Lookups --------------------------------
(***************************************************************************)
(* Two lookups at NRK behind durable retry deadlines (retry/retry.go) and   *)
(* a durable cache (app_state, store/queries.go): an episode's chapters     *)
(* (feed/chapters.go), where requests that arrive together share one        *)
(* lookup, and the catalogue of all shows (catalog/catalog.go), loaded in   *)
(* the background by whoever finds it missing or stale.                     *)
(*                                                                         *)
(* Expiries and deadlines are kept as the ticks that are left of them: a    *)
(* tick is minutes of the code's.                                           *)
(***************************************************************************)
EXTENDS Integers

CONSTANTS
  Requests,               \* requests for the chapters of one episode
  BaseDelay, MaxDelay,    \* the first backoff (5 min), the longest (a day)
  MaxAttempts,            \* attempts counted (10)
  ChaptersTTL,            \* ticks chapters stay fresh
  CatalogTTL,             \* ticks the catalogue stays fresh (7 days)
  Pages,                  \* pages of NRK's catalogue, at most maxPages
  MaxTrouble              \* bound: failed catalogue loads and writes, restarts

ASSUME LookupsAssumption ==
  /\ BaseDelay \in Nat \ {0} /\ MaxDelay \in Nat \ {0} /\ MaxAttempts \in Nat \ {0}
  /\ ChaptersTTL \in Nat \ {0} /\ CatalogTTL \in Nat \ {0} /\ Pages \in Nat \ {0}
  /\ MaxTrouble \in Nat

VARIABLES
  retry,     \* app_state "retry:{key}": attempts, and what is left to wait
  quiet,     \* history: ticks since a lookup of chapters failed, to MaxDelay
  chapters,  \* app_state "chapters:{series}:{episode}"
  requests,  \* what each request is doing
  call,      \* Chapters.inFlight: the shared call (memory)
  saved,     \* app_state "catalog"
  catalog,   \* Catalog.cache and Catalog.restored (memory)
  loader,    \* Catalog.loading, and what the load is doing (memory)
  trouble    \* how much of MaxTrouble is used

chapterState == <<chapters, requests, call>>
catalogState == <<saved, catalog, loader>>
vars == <<retry, quiet, chapterState, catalogState, trouble>>

Keys == {"chapters", "catalog"}
NoRetry == [attempts |-> 0, left |-> 0]
NotStored == [status |-> "none", left |-> 0]
Idle == [pc |-> "idle", had |-> FALSE, answer |-> "none"]
NoCall == [pc |-> "none", answer |-> "none"]
NotRestored == [restored |-> FALSE, known |-> FALSE, left |-> 0]
NoLoad == [loading |-> FALSE, pc |-> "idle", page |-> 0]

Lesser(a, b) == IF a < b THEN a ELSE b
Less(left) == IF left = 0 THEN 0 ELSE left - 1
Trouble == trouble < MaxTrouble /\ trouble' = trouble + 1
\* ReadState finds the key; WriteState only logs that it failed.
Found(entry) == entry # NotStored
WriteLost == Trouble
Goes(r, pc) == requests' = [requests EXCEPT ![r].pc = pc]
Answers(r, answer) == requests' = [requests EXCEPT ![r].pc = "answered", ![r].answer = answer]

-----------------------------------------------------------------------------
(* Retry deadlines.                                                        *)

Can(key) == retry[key].left = 0

\* Five minutes, ten minutes, ... up to a day.
Doubled(attempts) == BaseDelay * 2 ^ (attempts - 1)
Backoff(attempts) == Lesser(MaxDelay, BaseDelay * 2 ^ (attempts - 1))
AttemptsUncapped(previous) == previous + 1
Attempts(previous) == Lesser(previous + 1, MaxAttempts)

\* A lookup of the key has failed; the deadline is written, or the write lost.
Defer(key, written) ==
  /\ quiet' = IF key = "chapters" THEN 0 ELSE quiet
  /\ retry' = IF written
              THEN [retry EXCEPT ![key] = [attempts |-> Attempts(@.attempts),
                                           left |-> Backoff(Attempts(@.attempts))]]
              ELSE retry

Clear(key) == retry' = [retry EXCEPT ![key] = NoRetry] /\ UNCHANGED quiet

-----------------------------------------------------------------------------
(* Chapters.                                                               *)

Fallback(r) == IF requests[r].had THEN "stale" ELSE "unavailable"

\* Get: fresh chapters are answered from the cache; else the request goes on
\* with what it has read.
Get(r) ==
  /\ requests[r] = Idle
  /\ requests' = [requests EXCEPT ![r] =
       IF chapters.left > 0 THEN [Idle EXCEPT !.pc = "answered", !.answer = "fresh"]
       ELSE [Idle EXCEPT !.pc = "read", !.had = Found(chapters)]]
  /\ UNCHANGED <<retry, quiet, chapters, call, catalogState, trouble>>

MayLookUp(r) ==
  /\ requests[r].pc = "read"
  /\ IF Can("chapters") THEN Goes(r, "may") ELSE Answers(r, Fallback(r))
  /\ UNCHANGED <<retry, quiet, chapters, call, catalogState, trouble>>

\* Under the lock: join the call that is in flight, or start one.
EachItsOwn == FALSE
InFlight == call # NoCall
Join(r) ==
  /\ requests[r].pc = "may"
  /\ IF InFlight
     THEN UNCHANGED call /\ Goes(r, "waiting")
     ELSE call' = [NoCall EXCEPT !.pc = "asking"] /\ Goes(r, "owner")
  /\ UNCHANGED <<retry, quiet, chapters, catalogState, trouble>>

\* GetEpisodeResult, over NRK's answers from its two catalogues.
EpisodeResult(answers) ==
  IF \E i \in 1 .. 2 : answers[i] = "found" THEN "found"
  ELSE IF \E i \in 1 .. 2 : answers[i] = "failed" THEN "failed" ELSE "missing"
Outcomes == {EpisodeResult(a) : a \in [1 .. 2 -> {"found", "missing", "failed"}]}

Owner(r) == requests[r].pc = "owner" /\ call.pc = "asking"
Lands(answer) == call' = [pc |-> "landed", answer |-> answer]

\* fetch succeeds, also with "missing"; the result is returned whether or not
\* it could be written.
FetchAnswers(r) ==
  /\ Owner(r)
  /\ \E status \in Outcomes \ {"failed"} :
       \/ chapters' = [status |-> status, left |-> ChaptersTTL] /\ UNCHANGED trouble
       \/ WriteLost /\ UNCHANGED chapters
  /\ Clear("chapters")
  /\ Lands("fresh")
  /\ UNCHANGED <<requests, catalogState>>

\* NRK failed, or its chapters cannot be read.
FetchFails(r) ==
  /\ Owner(r)
  /\ \/ Defer("chapters", TRUE) /\ UNCHANGED trouble
     \/ WriteLost /\ Defer("chapters", FALSE)
  /\ Lands(Fallback(r))
  /\ UNCHANGED <<chapters, requests, catalogState>>

\* The recovered panic defers nothing; it counts as a failed lookup.
FetchPanics(r) ==
  /\ Owner(r) /\ Trouble
  /\ Defer("chapters", FALSE)
  /\ Lands("unavailable")
  /\ UNCHANGED <<chapters, requests, catalogState>>

\* The entry goes and the channel is closed: everyone gets the call's result.
Owners == {r \in Requests : requests[r].pc = "owner"}
Waiters == {r \in Requests : requests[r].pc \in {"owner", "waiting"}}
CallEnds ==
  /\ call.pc = "landed"
  /\ requests' = [r \in Requests |->
       IF r \in Waiters THEN [requests[r] EXCEPT !.pc = "answered", !.answer = call.answer]
       ELSE requests[r]]
  /\ call' = NoCall
  /\ UNCHANGED <<retry, quiet, chapters, catalogState, trouble>>

Respond(r) ==
  /\ requests[r].pc = "answered"
  /\ requests' = [requests EXCEPT ![r] = Idle]
  /\ UNCHANGED <<retry, quiet, chapters, call, catalogState, trouble>>

\* Another episode turns out missing, and expired results like it are deleted.
ExpiredMissing == chapters.status = "missing" /\ chapters.left = 0
PruneNotFound ==
  /\ ExpiredMissing
  /\ chapters' = NotStored
  /\ UNCHANGED <<retry, quiet, requests, call, catalogState, trouble>>

-----------------------------------------------------------------------------
(* The catalogue.                                                          *)

Restored == IF catalog.restored THEN catalog
            ELSE [restored |-> TRUE, known |-> Found(saved), left |-> saved.left]

\* ensureFresh, as a page or the dashboard is shown.
EnsureFresh ==
  /\ catalog' = Restored
  /\ IF Restored.left = 0 /\ ~loader.loading /\ Can("catalog")
     THEN loader' = [loading |-> TRUE, pc |-> "page", page |-> 1]
     ELSE UNCHANGED loader
  /\ UNCHANGED <<retry, quiet, chapterState, saved, trouble>>

LoadPage ==
  /\ loader.pc = "page"
  /\ loader' = IF loader.page < Pages THEN [loader EXCEPT !.page = @ + 1]
               ELSE [loader EXCEPT !.pc = "loaded"]
  /\ UNCHANGED <<retry, quiet, chapterState, saved, catalog, trouble>>

\* A page fails, or the listing turns out empty or longer than maxPages; a
\* recovered panic does the same. The previous catalogue is kept.
LoadFails ==
  /\ loader.pc = "page" /\ Trouble
  /\ \E written \in BOOLEAN : Defer("catalog", written)
  /\ loader' = [loader EXCEPT !.pc = "ending"]
  /\ UNCHANGED <<chapterState, saved, catalog>>

SaveCatalog ==
  /\ loader.pc = "loaded"
  /\ \/ saved' = [status |-> "found", left |-> CatalogTTL] /\ UNCHANGED trouble
     \/ WriteLost /\ UNCHANGED saved
  /\ Clear("catalog")
  /\ loader' = [loader EXCEPT !.pc = "publish"]
  /\ UNCHANGED <<chapterState, catalog>>

Publish ==
  /\ loader.pc = "publish"
  /\ catalog' = [restored |-> TRUE, known |-> TRUE, left |-> CatalogTTL]
  /\ loader' = [loader EXCEPT !.pc = "ending"]
  /\ UNCHANGED <<retry, quiet, chapterState, saved, trouble>>

\* The deferred reset, whatever came of the load.
StillLoading == [NoLoad EXCEPT !.loading = TRUE]
NotLoading == NoLoad
LoadEnds ==
  /\ loader.pc = "ending"
  /\ loader' = NotLoading
  /\ UNCHANGED <<retry, quiet, chapterState, saved, catalog, trouble>>

-----------------------------------------------------------------------------
\* A call that has landed hands its result over at once.
Tick ==
  /\ call.pc # "landed"
  /\ retry' = [k \in Keys |-> [retry[k] EXCEPT !.left = Less(@)]]
  /\ quiet' = Lesser(quiet + 1, MaxDelay)
  /\ chapters' = [chapters EXCEPT !.left = Less(@)]
  /\ saved' = [saved EXCEPT !.left = Less(@)]
  /\ catalog' = [catalog EXCEPT !.left = Less(@)]
  /\ UNCHANGED <<requests, call, loader, trouble>>

Restart ==
  /\ Trouble
  /\ requests' = [r \in Requests |-> Idle] /\ call' = NoCall
  /\ catalog' = NotRestored /\ loader' = NoLoad
  /\ UNCHANGED <<retry, quiet, chapters, saved>>

Init ==
  /\ retry = [k \in Keys |-> NoRetry] /\ quiet = MaxDelay
  /\ chapters = NotStored /\ requests = [r \in Requests |-> Idle] /\ call = NoCall
  /\ saved = NotStored /\ catalog = NotRestored /\ loader = NoLoad
  /\ trouble = 0

Fetch(r) == FetchAnswers(r) \/ FetchFails(r)
Handle(r) == MayLookUp(r) \/ Join(r) \/ Fetch(r) \/ Respond(r)
Load == LoadPage \/ LoadFails \/ SaveCatalog \/ Publish \/ LoadEnds

Next ==
  \/ \E r \in Requests : Get(r) \/ Handle(r) \/ FetchPanics(r)
  \/ CallEnds \/ PruneNotFound
  \/ EnsureFresh \/ Load
  \/ Tick \/ Restart

Spec == Init /\ [][Next]_vars

\* Goroutines run and NRK answers or times out; time passes, whatever requests
\* do in between; pages that show the catalogue are opened again and again.
Fairness ==
  /\ \A r \in Requests : WF_vars(Handle(r))
  /\ WF_vars(CallEnds) /\ WF_vars(Load)
  /\ SF_vars(Tick) /\ WF_vars(EnsureFresh)
FairSpec == Spec /\ Fairness

-----------------------------------------------------------------------------
(* Properties.                                                             *)

TypeOK ==
  /\ retry \in [Keys -> [attempts : 0 .. MaxAttempts, left : Nat]]
  /\ quiet \in 0 .. MaxDelay
  /\ chapters \in [status : {"none", "found", "missing"}, left : 0 .. ChaptersTTL]
  /\ requests \in [Requests ->
       [pc : {"idle", "read", "may", "owner", "waiting", "answered"}, had : BOOLEAN,
        answer : {"none", "fresh", "stale", "unavailable"}]]
  /\ call \in [pc : {"none", "asking", "landed"},
               answer : {"none", "fresh", "stale", "unavailable"}]
  /\ saved \in [status : {"none", "found"}, left : 0 .. CatalogTTL]
  /\ catalog \in [restored : BOOLEAN, known : BOOLEAN, left : 0 .. CatalogTTL]
  /\ loader \in [loading : BOOLEAN, page : 0 .. Pages,
                 pc : {"idle", "page", "loaded", "publish", "ending"}]
  /\ trouble \in 0 .. MaxTrouble

\* Expired or missing chapters are answered only while NRK fails: once the
\* longest backoff has passed since the last failure, no request falls back,
\* whatever it shared, however many attempts failed, and across restarts.
StaleOnlyWhenFailing ==
  [][\A r \in Requests :
       requests[r].answer # requests'[r].answer /\ requests'[r].answer \in {"stale", "unavailable"}
         => quiet < MaxDelay]_vars

\* inFlight and its channels implement a shared lookup: one request at a time
\* asks NRK, and those that came meanwhile get its answer, with it, whether it
\* fetched, failed or panicked.
Given == [r \in Requests |-> requests[r].answer]
Shared == INSTANCE SharedLookup
            WITH Results <- {"fresh", "stale", "unavailable"}, NoResult <- "none",
                 leader <- Owners, sharing <- Waiters, found <- call.answer, answer <- Given
ImplementsSharedLookup == Shared!Spec

\* Every request for chapters is answered, those that wait for another
\* request's lookup included, also when that lookup panics.
Answered == \A r \in Requests : requests[r].pc # "idle" ~> requests[r] = Idle

\* After failed loads, lost writes and restarts the catalogue is fresh again,
\* again and again, as long as pages that show it are opened.
CatalogRecovers == []<>(catalog.known /\ catalog.left > 0)
=============================================================================
