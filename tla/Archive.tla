------------------------------- MODULE Archive -------------------------------
(***************************************************************************)
(* One feed's episode archive: NRK's paged listing, the rows the database  *)
(* keeps for the feed, the incremental refresh (feed/refresh.go on top of  *)
(* nrk.GetNewEpisodes) and the background crawl (crawl/backlog.go on top   *)
(* of nrk.GetEpisodePage), which run concurrently on the same rows.        *)
(*                                                                         *)
(* Episodes are numbered in publishing order, so the newest-first listing  *)
(* is a set, an episode's place in it is the number of listed episodes     *)
(* that are newer, and a page href is the offset of its first place.       *)
(***************************************************************************)
EXTENDS Integers, FiniteSets

CONSTANTS
  PageSize,         \* episodes on a listing page (50)
  StopBoundary,     \* stored episodes that bound a refresh (50)
  RefreshPages,     \* pages of one refresh batch (10)
  CrawlPages,       \* pages of one crawl run (200)
  MaxEpisode,       \* bound: NRK publishes episodes 1 .. MaxEpisode
  MaxDisturbances,  \* bound: failures, crashes, withdrawals, admin actions
  ListingMayVanish, \* NRK may answer 404 or 410 for a listing it had
  AdminRacesCrawl,  \* the admin may recrawl or delete during a crawl run
  WithdrawsPastOverlap \* NRK may withdraw more than a resume's overlap covers

ASSUME SizesAssumption ==
  /\ PageSize \in Nat \ {0} /\ StopBoundary \in Nat \ {0}
  /\ RefreshPages \in Nat \ {0} /\ CrawlPages \in Nat \ {0}
ASSUME BoundsAssumption == MaxEpisode \in Nat \ {0} /\ MaxDisturbances \in Nat
ASSUME SwitchesAssumption ==
  /\ ListingMayVanish \in BOOLEAN /\ AdminRacesCrawl \in BOOLEAN
  /\ WithdrawsPastOverlap \in BOOLEAN

VARIABLES
  top, listed,            \* NRK: newest episode so far, episodes in the listing
  exists, stored, failed, \* rows: series, episodes, failed_episodes
  complete, backlogCursor,\* series.backlog_complete and backlog_cursor (0: NULL)
  progress,               \* app_state "refresh-progress:{id}"
  refresh,                \* the one refresh or fetch in flight (memory)
  crawl,                  \* the crawl run (memory)
  history,                \* for the checking only, see History
  disturbances            \* how much of MaxDisturbances is used

nrk  == <<top, listed>>
rows == <<exists, stored, failed>>
backlog == <<complete, backlogCursor>>
vars == <<nrk, rows, backlog, progress, refresh, crawl, history, disturbances>>

Episodes == 1 .. MaxEpisode
NoProgress == [cursor |-> -1, stop |-> {}]
IdleRefresh == [pc |-> "idle", cursor |-> 0, previous |-> 0, pages |-> 0,
                stop |-> {}, skip |-> {}, got |-> {}, sawAll |-> FALSE]
IdleCrawl == [pc |-> "idle", cursor |-> 0, pages |-> 0, got |-> {},
              flaky |-> FALSE, next |-> 0]

-----------------------------------------------------------------------------
(* The listing.                                                            *)

Newer(e) == Cardinality({x \in listed : x > e})
Page(offset) ==
  {e \in listed : offset <= Newer(e) /\ Newer(e) < offset + PageSize}
HasNext(offset) == offset + PageSize < Cardinality(listed)

\* The newest StopBoundary episodes of a set: the boundary of a refresh.
Newest(S) == {e \in S : Cardinality({x \in S : x > e}) < StopBoundary}

\* collect: each fresh episode is playable, definitively gone (its failure is
\* recorded) or failed transiently.
Manifests(fresh) ==
  {m \in [ok : SUBSET fresh, gone : SUBSET fresh, flaky : SUBSET fresh] :
     /\ m.ok \cup m.gone \cup m.flaky = fresh
     /\ m.ok \cap m.gone = {} /\ m.ok \cap m.flaky = {}
     /\ m.gone \cap m.flaky = {}}

\* Everything that is not plain success uses the budget.
Disturb == disturbances < MaxDisturbances /\ disturbances' = disturbances + 1
DisturbIf(bad) == IF bad THEN Disturb ELSE UNCHANGED disturbances
Troubled(m) == m.gone \cup m.flaky # {}

-----------------------------------------------------------------------------
(* NRK.                                                                    *)

Publish ==
  /\ top < MaxEpisode
  /\ top' = top + 1
  /\ listed' = listed \cup {top + 1}
  /\ UNCHANGED <<rows, backlog, progress, refresh, crawl, history, disturbances>>

\* The code's remedy for a shifting listing is one page of overlap on resume.
\* It covers a page of withdrawals between two moves of a checkpoint, none
\* while a walk is between two of its pages, and none before the retry of a
\* page of new episodes at the checkpoint that was stored in part (UsedUp).
WithinOverlap ==
  /\ refresh.pc = "idle" /\ crawl.pc = "idle"
  /\ backlogCursor > 0 => history.crawl < PageSize
  /\ progress.cursor > 0 => history.refresh < PageSize

\* NRK takes an episode out of the listing, which shifts every older one a
\* place towards the front, at any time. What the overlap does not cover
\* may push an episode past a checkpoint: it tears the archive.
Withdraw(e) ==
  /\ WithdrawsPastOverlap \/ WithinOverlap
  /\ Disturb
  /\ listed' = listed \ {e}
  /\ history' =
       IF WithinOverlap
       THEN [history EXCEPT
               !.crawl   = IF backlogCursor > 0 THEN @ + 1 ELSE 0,
               !.refresh = IF progress.cursor > 0 THEN @ + 1 ELSE 0]
       ELSE [history EXCEPT !.torn = TRUE]
  /\ UNCHANGED <<top, rows, backlog, progress, refresh, crawl>>

\* The overlap covers the episodes behind a checkpoint's page. One on that
\* page that is newer than the archive is not covered once others of the page
\* are stored and it is not: the walk's first page, left for a retry.
UsedUp(walk, retried) == walk.pages = 0 /\ retried /\ walk.got # {}

-----------------------------------------------------------------------------
(* First fetch, and the full fetch a refresh falls back to. GetSeries reads *)
(* the first page; transient manifest failures are not counted.             *)

FetchFirstPage(skip) ==
  \E m \in Manifests(Page(0) \ skip) :
    /\ Page(0) # {}
    /\ DisturbIf(Troubled(m))
    /\ failed' = failed \cup m.gone
    /\ refresh' = [refresh EXCEPT !.pc = "write", !.got = m.ok]

InitialFetch ==
  /\ refresh.pc = "idle" /\ ~exists
  /\ FetchFirstPage({})
  /\ UNCHANGED <<nrk, exists, stored, backlog, progress, crawl, history>>

FullFetch ==
  /\ refresh.pc = "full"
  /\ FetchFirstPage(refresh.skip)
  /\ UNCHANGED <<nrk, exists, stored, backlog, progress, crawl, history>>

\* It comes after RefreshGone, which has used the budget for both.
FullFetchFails ==
  /\ refresh.pc = "full"
  /\ refresh' = IdleRefresh
  /\ UNCHANGED <<nrk, rows, backlog, progress, crawl, history, disturbances>>

\* WriteSeries upserts: it creates the row again when it is gone, and leaves
\* the backlog columns alone (a new row starts incomplete). It may fail.
WriteSeries ==
  /\ refresh.pc = "write"
  /\ \/ /\ exists' = TRUE
        /\ stored' = stored \cup refresh.got
        /\ UNCHANGED disturbances
     \/ /\ Disturb
        /\ UNCHANGED <<exists, stored>>
  /\ refresh' = IdleRefresh
  /\ UNCHANGED <<nrk, failed, backlog, progress, crawl, history>>

-----------------------------------------------------------------------------
(* The incremental refresh (updateFetch).                                  *)

\* A resumed refresh keeps the boundary from before its first batch.
StopIDs == IF progress = NoProgress THEN Newest(stored) ELSE progress.stop
StartCursor == IF progress = NoProgress THEN 0 ELSE progress.cursor

\* Reads the series, the episodes under backoff and the saved progress.
\* Blocked is any part of the recorded failures: their backoff may be over.
RefreshBegin ==
  /\ refresh.pc = "idle" /\ exists
  /\ \E blocked \in SUBSET failed, metadata \in {FALSE, progress = NoProgress} :
       refresh' = [IdleRefresh EXCEPT
         !.pc = IF metadata THEN "metadata" ELSE "boundary",
         !.cursor = StartCursor, !.previous = StartCursor,
         !.stop = StopIDs, !.skip = stored \cup blocked]
  /\ UNCHANGED <<nrk, rows, backlog, progress, crawl, history, disturbances>>

\* Metadata older than a week is fetched first, and upserted without episodes.
RefreshMetadata ==
  /\ refresh.pc = "metadata"
  /\ \/ /\ exists' = TRUE
        /\ refresh' = [refresh EXCEPT !.pc = "boundary"]
        /\ UNCHANGED disturbances
     \/ /\ Disturb
        /\ refresh' = IdleRefresh
        /\ UNCHANGED exists
  /\ UNCHANGED <<nrk, stored, failed, backlog, progress, crawl, history>>

\* The original boundary is durable before any episode of the batch is.
SaveBoundary ==
  /\ refresh.pc = "boundary"
  /\ progress' = [cursor |-> refresh.cursor, stop |-> refresh.stop]
  /\ refresh' = [refresh EXCEPT !.pc = "walk"]
  /\ UNCHANGED <<nrk, rows, backlog, crawl, history, disturbances>>

\* One page of GetNewEpisodes: a transient manifest failure ends the batch
\* before the page counts; a page with a boundary episode, or the last page,
\* ends it with everything seen; so does the page cap, with a page to resume.
RefreshPage ==
  /\ refresh.pc = "walk"
  /\ LET page == Page(refresh.cursor)
         last == page \cap refresh.stop # {} \/ ~HasNext(refresh.cursor)
     IN \E m \in Manifests(page \ refresh.skip) :
          /\ DisturbIf(Troubled(m))
          /\ failed' = failed \cup m.gone
          /\ refresh' =
               LET r == [refresh EXCEPT !.got = @ \cup m.ok]
               IN IF m.flaky # {} THEN [r EXCEPT !.pc = "add"]
                  ELSE IF last \/ refresh.pages + 1 = RefreshPages
                  THEN [r EXCEPT !.pc = "add", !.sawAll = last, !.previous = refresh.cursor]
                  ELSE [r EXCEPT !.previous = refresh.cursor, !.pages = @ + 1,
                                 !.cursor = @ + PageSize]
  /\ UNCHANGED <<nrk, exists, stored, backlog, progress, crawl, history>>

\* The listing request fails: on the first page nothing happened yet, on a
\* later one the batch so far is kept.
RefreshPageFails ==
  /\ refresh.pc = "walk"
  /\ Disturb
  /\ refresh' = IF refresh.pages = 0 THEN IdleRefresh
                ELSE [refresh EXCEPT !.pc = "add"]
  /\ UNCHANGED <<nrk, rows, backlog, progress, crawl, history>>

\* 404 or 410 on the first page drops the checkpoint for a full fetch.
RefreshGone ==
  /\ ListingMayVanish
  /\ refresh.pc = "walk" /\ refresh.pages = 0
  /\ Disturb
  /\ progress' = NoProgress
  /\ refresh' = [refresh EXCEPT !.pc = "full"]
  /\ history' = [history EXCEPT !.torn = TRUE]
  /\ UNCHANGED <<nrk, rows, backlog, crawl>>

\* The transaction of AddEpisodes finds the series row, and commits.
AddsUnchecked == TRUE
Adds == exists

\* A failed write stops the batch before its checkpoint moves.
RefreshAdd ==
  /\ refresh.pc = "add"
  /\ \/ /\ refresh.got = {} \/ Adds
        /\ stored' = stored \cup refresh.got
        /\ refresh' = [refresh EXCEPT !.pc = "advance"]
        /\ history' = IF UsedUp(refresh, ~refresh.sawAll)
                      THEN [history EXCEPT !.refresh = PageSize] ELSE history
        /\ UNCHANGED disturbances
     \/ /\ refresh.got # {}
        /\ DisturbIf(Adds)
        /\ refresh' = IdleRefresh
        /\ UNCHANGED <<stored, history>>
  /\ UNCHANGED <<nrk, exists, failed, backlog, progress, crawl>>

\* ResumeHref: the page before the one that broke the batch off.
ResumesTooEarly == refresh.previous - PageSize
ResumeHref == refresh.previous

RefreshAdvance ==
  /\ refresh.pc = "advance"
  /\ progress' = IF refresh.sawAll THEN NoProgress
                 ELSE [cursor |-> ResumeHref, stop |-> refresh.stop]
  /\ history' = IF progress'.cursor = progress.cursor THEN history
                  ELSE [history EXCEPT !.refresh = 0]
  /\ refresh' = IdleRefresh
  /\ UNCHANGED <<nrk, rows, backlog, crawl, disturbances>>

-----------------------------------------------------------------------------
(* The crawl (crawl).                                                      *)

CrawlBegin ==
  /\ crawl.pc = "idle" /\ exists /\ ~complete
  /\ crawl' = [IdleCrawl EXCEPT !.pc = "fetch", !.cursor = backlogCursor]
  /\ UNCHANGED <<nrk, rows, backlog, progress, refresh, history, disturbances>>

\* Reads the stored and blocked episodes, then one archive page. A later
\* page that is empty and last counts as a failure (CrawlPageFails).
CrawlPage ==
  /\ crawl.pc = "fetch"
  /\ crawl.cursor > 0 => Page(crawl.cursor) # {}
  /\ \E blocked \in SUBSET failed :
     \E m \in Manifests(Page(crawl.cursor) \ (stored \cup blocked)) :
       /\ DisturbIf(Troubled(m))
       /\ failed' = failed \cup m.gone
       /\ crawl' = [crawl EXCEPT !.pc = "add", !.got = m.ok, !.flaky = m.flaky # {},
            !.next = IF HasNext(crawl.cursor) THEN crawl.cursor + PageSize ELSE 0]
  /\ UNCHANGED <<nrk, exists, stored, backlog, progress, refresh, history>>

CrawlPageFails ==
  /\ crawl.pc = "fetch"
  /\ DisturbIf(crawl.cursor = 0 \/ Page(crawl.cursor) # {})
  /\ crawl' = IdleCrawl
  /\ UNCHANGED <<nrk, rows, backlog, progress, refresh, history>>

\* A page with a transient manifest failure is retried before advancing.
AdvancesAnyway == TRUE
PageCounts == ~crawl.flaky

\* HasSeries, then AddEpisodes, which may fail and then pauses the crawl.
CrawlAdd ==
  /\ crawl.pc = "add"
  /\ \/ /\ exists
        /\ stored' = stored \cup crawl.got
        /\ crawl' = IF PageCounts THEN [crawl EXCEPT !.pc = "checkpoint"] ELSE IdleCrawl
        /\ history' = IF UsedUp(crawl, crawl.flaky)
                      THEN [history EXCEPT !.crawl = PageSize] ELSE history
        /\ UNCHANGED disturbances
     \/ /\ ~exists \/ crawl.got # {}
        /\ DisturbIf(exists)
        /\ crawl' = IdleCrawl
        /\ UNCHANGED <<stored, history>>
  /\ UNCHANGED <<nrk, exists, failed, backlog, progress, refresh>>

\* The page just completed, to be revisited by the next run.
ForgottenCheckpoint == 0
Checkpoint == crawl.cursor

\* SetBacklogState updates the row if it is still there: complete after the
\* last page, else the page just completed. The run ends at its page limit.
CrawlCheckpoint ==
  /\ crawl.pc = "checkpoint"
  /\ IF exists THEN /\ complete' = (crawl.next = 0)
                    /\ backlogCursor' = IF crawl.next = 0 THEN 0 ELSE Checkpoint
                    /\ history' = [history EXCEPT !.crawl = 0]
               ELSE UNCHANGED <<backlog, history>>
  /\ crawl' = IF crawl.next = 0 \/ crawl.pages + 1 = CrawlPages THEN IdleCrawl
              ELSE [IdleCrawl EXCEPT !.pc = "fetch", !.cursor = crawl.next,
                                     !.pages = crawl.pages + 1]
  /\ UNCHANGED <<nrk, rows, progress, refresh, disturbances>>

-----------------------------------------------------------------------------
(* Admin actions, restarts and the specification.                          *)

TornBy(race) == history' = [history EXCEPT !.torn = @ \/ race]

Recrawl ==
  /\ AdminRacesCrawl \/ crawl.pc = "idle"
  /\ exists
  /\ Disturb
  /\ complete' = FALSE /\ backlogCursor' = 0
  /\ TornBy(crawl.pc # "idle")
  /\ UNCHANGED <<nrk, rows, progress, refresh, crawl>>

DeleteSeries ==
  /\ AdminRacesCrawl \/ crawl.pc = "idle"
  /\ exists
  /\ Disturb
  /\ exists' = FALSE /\ stored' = {} /\ failed' = {}
  /\ complete' = FALSE /\ backlogCursor' = 0
  /\ progress' = NoProgress
  /\ TornBy(crawl.pc # "idle")
  /\ UNCHANGED <<nrk, refresh, crawl>>

\* A crash or a shutdown loses the memory and keeps the rows.
Restart ==
  /\ refresh.pc # "idle" \/ crawl.pc # "idle"
  /\ Disturb
  /\ refresh' = IdleRefresh /\ crawl' = IdleCrawl
  /\ UNCHANGED <<nrk, rows, backlog, progress, history>>

Init ==
  /\ top \in 1 .. MaxEpisode /\ listed = 1 .. top
  /\ exists = FALSE /\ stored = {} /\ failed = {}
  /\ complete = FALSE /\ backlogCursor = 0 /\ progress = NoProgress
  /\ refresh = IdleRefresh /\ crawl = IdleCrawl
  /\ history = [crawl |-> 0, refresh |-> 0, torn |-> FALSE]
  /\ disturbances = 0

Refreshing ==
  \/ InitialFetch \/ FullFetch \/ WriteSeries
  \/ RefreshBegin \/ RefreshMetadata \/ SaveBoundary \/ RefreshPage
  \/ RefreshAdd \/ RefreshAdvance
Crawling == CrawlBegin \/ CrawlPage \/ CrawlAdd \/ CrawlCheckpoint
Trouble ==
  \/ \E e \in listed : Withdraw(e)
  \/ FullFetchFails \/ RefreshPageFails \/ RefreshGone \/ CrawlPageFails
  \/ Recrawl \/ DeleteSeries \/ Restart

Next == Publish \/ Refreshing \/ Crawling \/ Trouble

Spec == Init /\ [][Next]_vars

\* The feed keeps being polled after its retry deadlines, so refreshes and
\* crawls are started again and their steps are taken. Nothing is assumed of
\* NRK's publishing, of failures or of the admin.
Fairness == WF_vars(Refreshing) /\ WF_vars(Crawling)
FairSpec == Spec /\ Fairness

-----------------------------------------------------------------------------
(* Properties.                                                             *)

RefreshState ==
  [pc : {"idle", "metadata", "boundary", "walk", "add", "advance", "full", "write"},
   cursor : Nat, previous : Nat, pages : Nat, stop : SUBSET Episodes,
   skip : SUBSET Episodes, got : SUBSET Episodes, sawAll : BOOLEAN]
CrawlState ==
  [pc : {"idle", "fetch", "add", "checkpoint"}, cursor : Nat, pages : Nat,
   got : SUBSET Episodes, flaky : BOOLEAN, next : Nat]

\* How much of each checkpoint's overlap withdrawals and a retried page have
\* used up since it moved, and whether a vanished listing, an admin's action
\* during a crawl or a withdrawal past the overlap has torn the archive. The
\* runs that expect a violation show what the first two lose.
History == [crawl : Nat, refresh : Nat, torn : BOOLEAN]

TypeOK ==
  /\ top \in Episodes /\ listed \in SUBSET Episodes
  /\ exists \in BOOLEAN /\ stored \in SUBSET Episodes /\ failed \in SUBSET Episodes
  /\ complete \in BOOLEAN /\ backlogCursor \in Nat
  /\ progress \in [cursor : Nat \cup {-1}, stop : SUBSET Episodes]
  /\ progress.cursor = -1 => progress = NoProgress
  /\ refresh \in RefreshState /\ crawl \in CrawlState
  /\ history \in History
  /\ disturbances \in 0 .. MaxDisturbances

\* AddEpisodes re-reads the series in its transaction: whatever a crawl or a
\* refresh was doing when the feed was deleted, no episode rows are left
\* without their series row.
NoOrphanEpisodes == stored # {} => exists

Missing == listed \ (stored \cup failed)

\* What still brings a missing episode in: it is newer than everything stored
\* (the next refresh starts there), or the crawl has not come to its place,
\* or it lies between the saved refresh checkpoint and the original boundary.
Ahead(e) ==
  \/ \A s \in stored : s < e
  \/ ~complete /\ backlogCursor <= Newer(e)
  \/ /\ progress # NoProgress /\ progress.cursor <= Newer(e)
     /\ \A s \in progress.stop : s < e

\* In every state, the ones a crash can leave included, each hole in the
\* archive is ahead of a checkpoint that is still saved, unless it is torn: no
\* refresh, crawl, resume, cap, failure, restart or withdrawal that the overlap
\* covers moves past an episode that is not stored.
GapsAreAhead == exists /\ ~history.torn => \A e \in Missing : Ahead(e)

\* models.go: backlog_complete "is true once the full archive has been
\* crawled". With no refresh to resume, everything the listing has up to the
\* newest stored episode is stored, or recorded as definitively unavailable.
CompleteMeansCrawled ==
  exists /\ complete /\ progress = NoProgress
    => \A e \in Missing : \A s \in stored : s < e

\* While the feed is polled, the archive is filled and stays so: with an end
\* to publishing and disturbances, everything listed is stored or recorded,
\* unless the archive is torn.
ArchiveFills ==
  <>[](history.torn \/ listed = {} \/ (exists /\ complete /\ Missing = {}))
=============================================================================
