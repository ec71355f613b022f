---------------------------- MODULE Archive_proofs ----------------------------
(***************************************************************************)
(* Proofs about one feed's archive, for every page size, stop boundary,    *)
(* batch and run length, for any number of episodes and disturbances, and  *)
(* with the listing vanishing and the admin racing the crawl or not.       *)
(***************************************************************************)
EXTENDS Archive, FiniteSetTheorems, TLAPS

-----------------------------------------------------------------------------
(* Types.                                                                  *)

\* The walkers at rest, and no saved progress, are of their types.
LEMMA IdleTypes ==
  /\ IdleRefresh \in RefreshState /\ IdleCrawl \in CrawlState
  /\ NoProgress \in [cursor : Nat \cup {-1}, stop : SUBSET Episodes]
  BY DEF IdleRefresh, IdleCrawl, RefreshState, CrawlState, NoProgress

\* A failure, or none, stays in the budget.
LEMMA DisturbType ==
  ASSUME disturbances \in 0 .. MaxDisturbances, NEW bad \in BOOLEAN,
         Disturb \/ DisturbIf(bad) \/ UNCHANGED disturbances
  PROVE  disturbances' \in 0 .. MaxDisturbances
  BY BoundsAssumption DEF Disturb, DisturbIf

\* What an admin action tears is one fact of the history.
LEMMA TornType ==
  ASSUME history \in History, NEW race \in BOOLEAN, TornBy(race)
  PROVE  history' \in History
<1> DEFINE torn == history.torn \/ race
<1>1. torn \in BOOLEAN
  BY DEF History
<1>2. history' = [history EXCEPT !.torn = torn]
  BY DEF TornBy
<1> HIDE DEF torn
<1> QED
  BY <1>1, <1>2 DEF History

\* What a withdrawal uses of the overlaps, or else that it tears the archive.
LEMMA WithdrawHistory ==
  ASSUME history \in History, NEW e, Withdraw(e)
  PROVE  /\ history' \in History
         /\ IF WithinOverlap
            THEN /\ history'.torn = history.torn
                 /\ history'.crawl = IF backlogCursor > 0 THEN history.crawl + 1 ELSE 0
                 /\ history'.refresh = IF progress.cursor > 0 THEN history.refresh + 1 ELSE 0
            ELSE /\ history'.torn
                 /\ history'.crawl = history.crawl /\ history'.refresh = history.refresh
<1> DEFINE atCrawl == IF backlogCursor > 0 THEN history.crawl + 1 ELSE 0
           atRefresh == IF progress.cursor > 0 THEN history.refresh + 1 ELSE 0
<1>1. atCrawl \in Nat /\ atRefresh \in Nat
  BY DEF History
<1>2. history' = IF WithinOverlap
                 THEN [history EXCEPT !.crawl = atCrawl, !.refresh = atRefresh]
                 ELSE [history EXCEPT !.torn = TRUE]
  BY DEF Withdraw, History
<1>3. history' \in History
  <2> HIDE DEF atCrawl, atRefresh
  <2> QED
    BY <1>1, <1>2 DEF History
<1>4. CASE WithinOverlap
  <2> HIDE DEF atCrawl, atRefresh
  <2>1. history'.torn = history.torn /\ history'.crawl = atCrawl /\ history'.refresh = atRefresh
    BY <1>2, <1>4 DEF History
  <2> QED
    BY <1>3, <1>4, <2>1 DEF atCrawl, atRefresh
<1>5. CASE ~WithinOverlap
  BY <1>2, <1>3, <1>5 DEF History
<1> QED
  BY <1>4, <1>5

\* A listing page holds episodes.
LEMMA PageType ==
  ASSUME TypeOK, NEW offset
  PROVE  Page(offset) \in SUBSET Episodes
  BY DEF Page, TypeOK

\* So does each part of what the manifests of a page say.
LEMMA ManifestType ==
  ASSUME NEW fresh \in SUBSET Episodes, NEW m \in Manifests(fresh)
  PROVE  /\ m.ok \in SUBSET Episodes /\ m.gone \in SUBSET Episodes
         /\ m.flaky \in SUBSET Episodes
  BY DEF Manifests

\* The first page, fetched in full, keeps the types it changes.
LEMMA FetchType ==
  ASSUME TypeOK, NEW skip, FetchFirstPage(skip)
  PROVE  /\ failed' \in SUBSET Episodes /\ refresh' \in RefreshState
         /\ disturbances' \in 0 .. MaxDisturbances
<1>1. PICK m \in Manifests(Page(0) \ skip) :
        /\ DisturbIf(Troubled(m))
        /\ failed' = failed \cup m.gone
        /\ refresh' = [refresh EXCEPT !.pc = "write", !.got = m.ok]
  BY DEF FetchFirstPage
<1>2. m.ok \in SUBSET Episodes /\ m.gone \in SUBSET Episodes
  BY PageType, ManifestType
<1>3. disturbances' \in 0 .. MaxDisturbances
  BY <1>1, DisturbType DEF TypeOK, Troubled
<1>4. refresh' \in RefreshState
  BY <1>1, <1>2 DEF TypeOK, RefreshState
<1> QED
  BY <1>1, <1>2, <1>3, <1>4 DEF TypeOK

\* Types hold at the start.
LEMMA TypeInit == Init => TypeOK
<1> SUFFICES ASSUME Init PROVE TypeOK
  OBVIOUS
<1>1. top \in Episodes /\ listed \in SUBSET Episodes
  BY BoundsAssumption DEF Init, Episodes
<1>2. exists \in BOOLEAN /\ complete \in BOOLEAN
  BY DEF Init
<1>3. history \in History
  BY DEF Init, History
<1>4. disturbances \in 0 .. MaxDisturbances /\ backlogCursor \in Nat
  BY BoundsAssumption DEF Init
<1> QED
  BY <1>1, <1>2, <1>3, <1>4, IdleTypes DEF Init, TypeOK

\* Every step of NRK, the refresh, the crawl and the admin keeps the types.
LEMMA TypeStep == TypeOK /\ [Next]_vars => TypeOK'
<1> SUFFICES ASSUME TypeOK, [Next]_vars PROVE TypeOK'
  OBVIOUS
<1> USE IdleTypes DEF nrk, rows, backlog
<1>1. CASE Publish
  <2>1. top + 1 \in Episodes
    BY <1>1, BoundsAssumption DEF Publish, TypeOK, Episodes
  <2> QED
    BY <1>1, <2>1 DEF Publish, TypeOK
<1>2. ASSUME NEW e \in listed, Withdraw(e) PROVE TypeOK'
  <2>1. history' \in History
    BY <1>2, WithdrawHistory DEF TypeOK
  <2> QED
    BY <1>2, <2>1, DisturbType DEF Withdraw, TypeOK
<1>3. CASE InitialFetch
  BY <1>3, FetchType DEF InitialFetch, TypeOK
<1>4. CASE FullFetch
  BY <1>4, FetchType DEF FullFetch, TypeOK
<1>5. CASE FullFetchFails
  BY <1>5 DEF FullFetchFails, TypeOK
<1>6. CASE WriteSeries
  <2>1. refresh.got \in SUBSET Episodes
    BY DEF TypeOK, RefreshState
  <2> QED
    BY <1>6, <2>1, DisturbType DEF WriteSeries, TypeOK
<1>7. CASE RefreshBegin
  <2>1. StopIDs \in SUBSET Episodes /\ StartCursor \in Nat
    BY DEF StopIDs, StartCursor, Newest, NoProgress, TypeOK
  <2>2. PICK blocked \in SUBSET failed, metadata \in {FALSE, progress = NoProgress} :
          refresh' = [IdleRefresh EXCEPT
            !.pc = IF metadata THEN "metadata" ELSE "boundary",
            !.cursor = StartCursor, !.previous = StartCursor,
            !.stop = StopIDs, !.skip = stored \cup blocked]
    BY <1>7 DEF RefreshBegin
  <2> DEFINE pc == IF metadata THEN "metadata" ELSE "boundary"
             skip == stored \cup blocked
  <2>3. pc \in {"metadata", "boundary"} /\ skip \in SUBSET Episodes
    BY DEF TypeOK
  <2>4. refresh' = [IdleRefresh EXCEPT !.pc = pc, !.cursor = StartCursor,
                      !.previous = StartCursor, !.stop = StopIDs, !.skip = skip]
    BY <2>2
  <2> HIDE DEF pc, skip
  <2>5. refresh' \in RefreshState
    BY <2>1, <2>3, <2>4 DEF RefreshState, IdleRefresh
  <2> QED
    BY <1>7, <2>5 DEF RefreshBegin, TypeOK
<1>8. CASE RefreshMetadata
  <2>1. refresh' \in RefreshState
    BY <1>8 DEF RefreshMetadata, TypeOK, RefreshState
  <2> QED
    BY <1>8, <2>1, DisturbType DEF RefreshMetadata, TypeOK
<1>9. CASE SaveBoundary
  <2>1. /\ refresh' \in RefreshState
        /\ progress' \in [cursor : Nat \cup {-1}, stop : SUBSET Episodes]
        /\ progress'.cursor # -1
    BY <1>9 DEF SaveBoundary, TypeOK, RefreshState
  <2> QED
    BY <1>9, <2>1 DEF SaveBoundary, TypeOK
<1>10. CASE RefreshPage
  <2> DEFINE page == Page(refresh.cursor)
             last == page \cap refresh.stop # {} \/ ~HasNext(refresh.cursor)
  <2>1. PICK m \in Manifests(page \ refresh.skip) :
          /\ DisturbIf(Troubled(m))
          /\ failed' = failed \cup m.gone
          /\ refresh' =
               LET r == [refresh EXCEPT !.got = @ \cup m.ok]
               IN IF m.flaky # {} THEN [r EXCEPT !.pc = "add"]
                  ELSE IF last \/ refresh.pages + 1 = RefreshPages
                  THEN [r EXCEPT !.pc = "add", !.sawAll = last, !.previous = refresh.cursor]
                  ELSE [r EXCEPT !.previous = refresh.cursor, !.pages = @ + 1,
                                 !.cursor = @ + PageSize]
    BY <1>10 DEF RefreshPage
  <2>2. m.ok \in SUBSET Episodes /\ m.gone \in SUBSET Episodes
    BY PageType, ManifestType
  <2>3. last \in BOOLEAN
    OBVIOUS
  <2> HIDE DEF page, last
  <2>4. refresh' \in RefreshState
    <3>1. refresh.cursor + PageSize \in Nat /\ refresh.pages + 1 \in Nat
      BY SizesAssumption DEF TypeOK, RefreshState
    <3>2. [refresh EXCEPT !.got = @ \cup m.ok] \in RefreshState
      BY <2>2 DEF TypeOK, RefreshState
    <3> DEFINE r == [refresh EXCEPT !.got = @ \cup m.ok]
    <3>3. r.cursor = refresh.cursor /\ r.pages = refresh.pages
      BY DEF TypeOK, RefreshState
    <3> HIDE DEF r
    <3>4. [r EXCEPT !.pc = "add"] \in RefreshState
      BY <3>2 DEF r, RefreshState
    <3>5. [r EXCEPT !.pc = "add", !.sawAll = last, !.previous = refresh.cursor]
            \in RefreshState
      BY <2>3, <3>2 DEF r, TypeOK, RefreshState
    <3>6. [r EXCEPT !.previous = refresh.cursor, !.pages = @ + 1,
                    !.cursor = @ + PageSize] \in RefreshState
      BY <3>1, <3>2, <3>3 DEF r, TypeOK, RefreshState
    <3> QED
      BY <2>1, <3>4, <3>5, <3>6 DEF r
  <2>5. disturbances' \in 0 .. MaxDisturbances
    BY <2>1, DisturbType DEF TypeOK, Troubled
  <2> QED
    BY <1>10, <2>1, <2>2, <2>4, <2>5 DEF RefreshPage, TypeOK
<1>11. CASE RefreshPageFails
  <2>1. refresh' \in RefreshState
    BY <1>11 DEF RefreshPageFails, TypeOK, RefreshState
  <2> QED
    BY <1>11, <2>1, DisturbType DEF RefreshPageFails, TypeOK
<1>12. CASE RefreshGone
  <2>1. refresh' \in RefreshState
    BY <1>12 DEF RefreshGone, TypeOK, RefreshState
  <2>2. history' \in History
    BY <1>12 DEF RefreshGone, TypeOK, History
  <2> QED
    BY <1>12, <2>1, <2>2, DisturbType DEF RefreshGone, TypeOK
<1>13. CASE RefreshAdd
  <2>1. refresh' \in RefreshState /\ refresh.got \in SUBSET Episodes
    BY <1>13 DEF RefreshAdd, TypeOK, RefreshState
  <2>2. disturbances' \in 0 .. MaxDisturbances
    BY <1>13, DisturbType DEF RefreshAdd, Adds, TypeOK
  <2>3. history' \in History
    BY <1>13, SizesAssumption DEF RefreshAdd, TypeOK, History
  <2> QED
    BY <1>13, <2>1, <2>2, <2>3 DEF RefreshAdd, TypeOK
<1>14. CASE RefreshAdvance
  <2>1. /\ progress' \in [cursor : Nat \cup {-1}, stop : SUBSET Episodes]
        /\ progress'.cursor = -1 => progress' = NoProgress
    BY <1>14 DEF RefreshAdvance, ResumeHref, TypeOK, RefreshState
  <2>2. history' \in History
    BY <1>14 DEF RefreshAdvance, TypeOK, History
  <2> QED
    BY <1>14, <2>1, <2>2 DEF RefreshAdvance, TypeOK
<1>15. CASE CrawlBegin
  <2>1. crawl' \in CrawlState
    BY <1>15 DEF CrawlBegin, TypeOK, CrawlState, IdleCrawl
  <2> QED
    BY <1>15, <2>1 DEF CrawlBegin, TypeOK
<1>16. CASE CrawlPage
  <2>1. PICK blocked \in SUBSET failed :
        \E m \in Manifests(Page(crawl.cursor) \ (stored \cup blocked)) :
          /\ DisturbIf(Troubled(m))
          /\ failed' = failed \cup m.gone
          /\ crawl' = [crawl EXCEPT !.pc = "add", !.got = m.ok, !.flaky = m.flaky # {},
               !.next = IF HasNext(crawl.cursor) THEN crawl.cursor + PageSize ELSE 0]
    BY <1>16 DEF CrawlPage
  <2>2. PICK m \in Manifests(Page(crawl.cursor) \ (stored \cup blocked)) :
          /\ DisturbIf(Troubled(m))
          /\ failed' = failed \cup m.gone
          /\ crawl' = [crawl EXCEPT !.pc = "add", !.got = m.ok, !.flaky = m.flaky # {},
               !.next = IF HasNext(crawl.cursor) THEN crawl.cursor + PageSize ELSE 0]
    BY <2>1
  <2>3. m.ok \in SUBSET Episodes /\ m.gone \in SUBSET Episodes
    BY PageType, ManifestType
  <2>4. crawl' \in CrawlState
    <3> DEFINE flaky == m.flaky # {}
               next == IF HasNext(crawl.cursor) THEN crawl.cursor + PageSize ELSE 0
    <3>1. flaky \in BOOLEAN
      OBVIOUS
    <3>2. next \in Nat
      BY SizesAssumption DEF TypeOK, CrawlState
    <3>3. crawl' = [crawl EXCEPT !.pc = "add", !.got = m.ok, !.flaky = flaky,
                                 !.next = next]
      BY <2>2
    <3> HIDE DEF flaky, next
    <3> QED
      BY <2>3, <3>1, <3>2, <3>3 DEF TypeOK, CrawlState
  <2>5. disturbances' \in 0 .. MaxDisturbances
    BY <2>2, DisturbType DEF TypeOK, Troubled
  <2> QED
    BY <1>16, <2>2, <2>3, <2>4, <2>5 DEF CrawlPage, TypeOK
<1>17. CASE CrawlPageFails
  <2>1. disturbances' \in 0 .. MaxDisturbances
    BY <1>17, DisturbType DEF CrawlPageFails, TypeOK
  <2> QED
    BY <1>17, <2>1 DEF CrawlPageFails, TypeOK
<1>18. CASE CrawlAdd
  <2>1. crawl' \in CrawlState /\ crawl.got \in SUBSET Episodes
    BY <1>18 DEF CrawlAdd, TypeOK, CrawlState
  <2>2. disturbances' \in 0 .. MaxDisturbances
    BY <1>18, DisturbType DEF CrawlAdd, TypeOK
  <2>3. history' \in History
    BY <1>18, SizesAssumption DEF CrawlAdd, TypeOK, History
  <2> QED
    BY <1>18, <2>1, <2>2, <2>3 DEF CrawlAdd, TypeOK
<1>19. CASE CrawlCheckpoint
  <2>1. crawl' \in CrawlState
    <3>1. crawl.next \in Nat /\ crawl.pages + 1 \in Nat
      BY DEF TypeOK, CrawlState
    <3>2. [IdleCrawl EXCEPT !.pc = "fetch", !.cursor = crawl.next,
                            !.pages = crawl.pages + 1] \in CrawlState
      BY <3>1 DEF CrawlState, IdleCrawl
    <3> QED
      BY <1>19, <3>2 DEF CrawlCheckpoint
  <2>2. complete' \in BOOLEAN /\ backlogCursor' \in Nat
    <3>1. complete' = complete \/ complete' = (crawl.next = 0)
      BY <1>19 DEF CrawlCheckpoint
    <3>2. complete' \in BOOLEAN
      BY <3>1 DEF TypeOK
    <3>3. backlogCursor' \in {0, crawl.cursor, backlogCursor}
      BY <1>19 DEF CrawlCheckpoint, Checkpoint
    <3> QED
      BY <3>2, <3>3 DEF TypeOK, CrawlState
  <2>3. history' \in History
    BY <1>19 DEF CrawlCheckpoint, TypeOK, History
  <2> QED
    BY <1>19, <2>1, <2>2, <2>3 DEF CrawlCheckpoint, TypeOK
<1>20. CASE Recrawl
  <2>1. history' \in History
    BY <1>20, TornType DEF Recrawl, TypeOK
  <2> QED
    BY <1>20, <2>1, DisturbType DEF Recrawl, TypeOK
<1>21. CASE DeleteSeries
  <2>1. history' \in History
    BY <1>21, TornType DEF DeleteSeries, TypeOK
  <2> QED
    BY <1>21, <2>1, DisturbType DEF DeleteSeries, TypeOK
<1>22. CASE Restart
  BY <1>22, DisturbType DEF Restart, TypeOK
<1>23. CASE UNCHANGED vars
  BY <1>23 DEF vars, TypeOK
<1> QED
  BY <1>1, <1>2, <1>3, <1>4, <1>5, <1>6, <1>7, <1>8, <1>9, <1>10, <1>11, <1>12,
     <1>13, <1>14, <1>15, <1>16, <1>17, <1>18, <1>19, <1>20, <1>21, <1>22, <1>23
  DEF Next, Refreshing, Crawling, Trouble

\* The rows, the checkpoints and both walkers keep their types: no cursor is
\* negative, and a progress without a cursor has no boundary either.
THEOREM TypeCorrect == Spec => []TypeOK
<1>1. Init => TypeOK
  BY TypeInit
<1>2. TypeOK /\ [Next]_vars => TypeOK'
  BY TypeStep
<1> QED
  BY <1>1, <1>2, PTL DEF Spec

-----------------------------------------------------------------------------
(* No episode row without its series row.                                  *)

\* Every step keeps it: the deletion empties both, the writers check the row.
LEMMA OrphansStep == NoOrphanEpisodes /\ [Next]_vars => NoOrphanEpisodes'
<1> SUFFICES ASSUME NoOrphanEpisodes, [Next]_vars PROVE NoOrphanEpisodes'
  OBVIOUS
<1> USE DEF NoOrphanEpisodes, rows
<1>1. CASE WriteSeries \/ RefreshMetadata
  BY <1>1 DEF WriteSeries, RefreshMetadata
<1>2. CASE RefreshAdd
  BY <1>2 DEF RefreshAdd, Adds
<1>3. CASE CrawlAdd
  BY <1>3 DEF CrawlAdd
<1>4. CASE DeleteSeries
  BY <1>4 DEF DeleteSeries
<1>5. CASE \/ InitialFetch \/ FullFetch \/ FullFetchFails \/ RefreshBegin
           \/ SaveBoundary \/ RefreshPage \/ RefreshPageFails \/ RefreshGone
           \/ RefreshAdvance
  BY <1>5 DEF InitialFetch, FullFetch, FullFetchFails, RefreshBegin, SaveBoundary,
     RefreshPage, RefreshPageFails, RefreshGone, RefreshAdvance
<1>6. CASE CrawlBegin \/ CrawlPage \/ CrawlPageFails \/ CrawlCheckpoint
  BY <1>6 DEF CrawlBegin, CrawlPage, CrawlPageFails, CrawlCheckpoint
<1>7. CASE Publish \/ (\E e \in listed : Withdraw(e)) \/ Recrawl \/ Restart
  BY <1>7 DEF Publish, Withdraw, Recrawl, Restart
<1>8. CASE UNCHANGED vars
  BY <1>8 DEF vars
<1> QED
  BY <1>1, <1>2, <1>3, <1>4, <1>5, <1>6, <1>7, <1>8
  DEF Next, Refreshing, Crawling, Trouble

\* AddEpisodes checks the series row inside its transaction, and a deletion
\* takes the episodes with it: whatever a refresh or a crawl was doing when an
\* admin deleted the feed, its episodes never come back without it.
THEOREM NeverOrphaned == Spec => []NoOrphanEpisodes
<1>1. Init => NoOrphanEpisodes
  BY DEF Init, NoOrphanEpisodes
<1>2. NoOrphanEpisodes /\ [Next]_vars => NoOrphanEpisodes'
  BY OrphansStep
<1> QED
  BY <1>1, <1>2, PTL DEF Spec

-----------------------------------------------------------------------------
(* Places in the listing.                                                  *)

\* The episodes in front of a place are finitely many.
LEMMA ListingFinite ==
  ASSUME TypeOK
  PROVE  /\ IsFiniteSet(listed) /\ Cardinality(listed) \in Nat
         /\ \A S \in SUBSET listed : /\ IsFiniteSet(S) /\ Cardinality(S) \in Nat
                                     /\ Cardinality(S) <= Cardinality(listed)
                                     /\ Cardinality(S) = Cardinality(listed) => S = listed
<1>1. IsFiniteSet(1 .. MaxEpisode)
  BY FS_Interval, BoundsAssumption
<1>2. IsFiniteSet(listed)
  BY <1>1, FS_Subset DEF TypeOK, Episodes
<1> QED
  BY <1>2, FS_Subset, FS_CardinalityType

\* A place is a number, below the length of the listing.
LEMMA PlaceType == ASSUME TypeOK, NEW e PROVE Newer(e) \in Nat
  BY ListingFinite DEF Newer
LEMMA PlaceInListing == ASSUME TypeOK, NEW e \in listed PROVE Newer(e) < Cardinality(listed)
<1> DEFINE front == {x \in listed : x > e}
<1>1. e \notin front
  BY DEF TypeOK, Episodes
<1>2. front \in SUBSET listed /\ front # listed
  BY <1>1
<1>3. Newer(e) = Cardinality(front)
  BY DEF Newer
<1> HIDE DEF front
<1> QED
  BY <1>2, <1>3, ListingFinite

\* A newer episode has no later place.
LEMMA NewerOrder ==
  ASSUME TypeOK, NEW e \in Episodes, NEW s \in Episodes, s < e
  PROVE  Newer(e) <= Newer(s)
<1> DEFINE front == {x \in listed : x > e}
           back == {x \in listed : x > s}
<1>1. \A x \in listed : x > e => x > s
  BY DEF TypeOK, Episodes
<1>2. front \in SUBSET back /\ back \in SUBSET listed
  BY <1>1
<1>3. Newer(e) = Cardinality(front) /\ Newer(s) = Cardinality(back)
  BY DEF Newer
<1> HIDE DEF front, back
<1> QED
  BY <1>2, <1>3, ListingFinite, FS_Subset

\* What is before a page is newer than what is on it; what is newer than
\* something on it is not behind it; nothing is behind the last one.
LEMMA AroundPage ==
  ASSUME TypeOK, NEW offset \in Nat, NEW e \in listed
  PROVE  /\ Newer(e) < offset => \A s \in Page(offset) : s < e
         /\ \A s \in Page(offset) : s < e => Newer(e) < offset + PageSize
         /\ ~HasNext(offset) => Newer(e) < offset + PageSize
         /\ e \in Page(offset) <=> offset <= Newer(e) /\ Newer(e) < offset + PageSize
<1>1. \A s \in Page(offset) :
        s \in Episodes /\ offset <= Newer(s) /\ Newer(s) < offset + PageSize
  BY DEF Page, TypeOK
<1>2. e \in Episodes /\ Newer(e) \in Nat /\ \A s \in Episodes : s \in Int /\ Newer(s) \in Nat
  BY PlaceType DEF TypeOK, Episodes
<1>3. ASSUME Newer(e) < offset, NEW s \in Page(offset) PROVE s < e
  <2>1. CASE e < s
    <3>1. Newer(s) <= Newer(e)
      BY <1>1, <1>2, <2>1, NewerOrder
    <3> QED
      BY <1>1, <1>2, <1>3, <3>1
  <2>2. CASE e = s
    BY <1>1, <1>2, <1>3, <2>2
  <2> QED
    BY <1>1, <1>2, <2>1, <2>2
<1>4. ASSUME NEW s \in Page(offset), s < e PROVE Newer(e) < offset + PageSize
  <2>1. Newer(e) <= Newer(s)
    BY <1>1, <1>2, <1>4, NewerOrder
  <2> QED
    BY <1>1, <1>2, <2>1, SizesAssumption
<1>5. ~HasNext(offset) => Newer(e) < offset + PageSize
  <2>1. Newer(e) < Cardinality(listed) /\ Cardinality(listed) \in Nat
    BY PlaceInListing, ListingFinite
  <2> QED
    BY <1>2, <2>1, SizesAssumption DEF HasNext
<1>6. e \in Page(offset) <=> offset <= Newer(e) /\ Newer(e) < offset + PageSize
  BY DEF Page
<1> QED
  BY <1>3, <1>4, <1>5, <1>6

\* Publishing moves nothing towards the front, a withdrawal at most one place.
LEMMA NewerMoves ==
  ASSUME TypeOK, TypeOK', NEW e,
         listed \subseteq listed' \/ (\E x \in listed : listed' = listed \ {x})
  PROVE  /\ Newer(e) \in Nat /\ Newer(e)' \in Nat /\ Newer(e)' >= Newer(e) - 1
         /\ listed \subseteq listed' => Newer(e)' >= Newer(e)
<1> DEFINE before == {x \in listed : x > e}
           after == {x \in listed' : x > e}
<1>1. IsFiniteSet(before) /\ Cardinality(before) \in Nat
  BY ListingFinite
<1>2. IsFiniteSet(after) /\ Cardinality(after) \in Nat
  <2>1. IsFiniteSet(1 .. MaxEpisode)
    BY FS_Interval, BoundsAssumption
  <2>2. after \subseteq 1 .. MaxEpisode
    BY DEF TypeOK, Episodes
  <2> QED
    BY <2>1, <2>2, FS_Subset, FS_CardinalityType
<1>3. Newer(e) = Cardinality(before) /\ Newer(e)' = Cardinality(after)
  BY DEF Newer
<1>4. ASSUME listed \subseteq listed' PROVE Cardinality(after) >= Cardinality(before)
  <2>1. before \subseteq after
    BY <1>4
  <2> QED
    BY <1>1, <1>2, <2>1, FS_Subset
<1>5. ASSUME NEW x \in listed, listed' = listed \ {x}
      PROVE  Cardinality(after) >= Cardinality(before) - 1
  <2>1. after = before \ {x}
    BY <1>5
  <2> HIDE DEF before, after
  <2>2. CASE x \in before
    <3>1. Cardinality(before \ {x}) = Cardinality(before) - 1
      BY <1>1, <2>2, FS_RemoveElement
    <3> QED
      BY <1>1, <2>1, <3>1
  <2>3. CASE x \notin before
    <3>1. after = before
      BY <2>1, <2>3
    <3> QED
      BY <1>1, <3>1
  <2> QED
    BY <2>2, <2>3
<1> HIDE DEF before, after
<1> QED
  BY <1>1, <1>2, <1>3, <1>4, <1>5

-----------------------------------------------------------------------------
(* The inductive invariant of the gaps: what each walker still brings in.  *)

\* A crash or a failure takes a walker's memory, of one or of both, and leaves
\* what is saved: each hole is covered in every view, whatever is lost.
Views == {"saved", "memory"}

CrawlGot(v) == IF v = "memory" /\ crawl.pc = "add" THEN crawl.got ELSE {}
RefreshGot(w) == IF w = "memory" /\ refresh.pc \in {"walk", "add"} THEN refresh.got ELSE {}
Known(v, w) ==
  stored \cup progress.stop \cup refresh.stop \cup CrawlGot(v) \cup RefreshGot(w)
Fresh(v, w, e) == \A s \in Known(v, w) : s < e

\* The saved crawl cursor is that of a finished page: what it has not stored
\* is behind that page, but for as much as the overlap has been used up.
CrawlSaved(e) ==
  ~complete /\ (backlogCursor = 0 \/ Newer(e) + history.crawl >= backlogCursor + PageSize)
PageHas(e) ==
  \/ e \in crawl.got
  \/ Newer(e) >= crawl.cursor /\ (crawl.flaky \/ (crawl.next > 0 /\ Newer(e) >= crawl.next))
CrawlHolds(e) ==
  \/ crawl.pc = "idle" /\ CrawlSaved(e)
  \/ crawl.pc = "fetch" /\ Newer(e) >= crawl.cursor
  \/ crawl.pc = "add" /\ PageHas(e)
  \/ crawl.pc = "checkpoint" /\ crawl.next > 0 /\ Newer(e) >= crawl.next
CrawlHas(v, e) == IF v = "saved" THEN CrawlSaved(e) ELSE CrawlHolds(e)

\* The same for the refresh and the episodes newer than its boundary.
Bounded(e) == progress # NoProgress /\ \A s \in progress.stop : s < e
RefreshSaved(e) ==
  Bounded(e) /\ (progress.cursor = 0 \/ Newer(e) + history.refresh >= progress.cursor + PageSize)
Resumed(e) ==
  ~refresh.sawAll
    /\ Newer(e) >= IF refresh.pages = 0 THEN refresh.previous ELSE refresh.previous + PageSize
RefreshHolds(e) ==
  \/ refresh.pc \notin {"walk", "add", "advance"} /\ RefreshSaved(e)
  \/ refresh.pc = "walk" /\ Bounded(e) /\ (e \in refresh.got \/ Newer(e) >= refresh.cursor)
  \/ refresh.pc = "add" /\ Bounded(e) /\ (e \in refresh.got \/ Resumed(e))
  \/ refresh.pc = "advance" /\ Bounded(e) /\ Resumed(e)
RefreshHas(w, e) == IF w = "saved" THEN RefreshSaved(e) ELSE RefreshHolds(e)

\* An episode the refresh skips is not its to bring in: only a deletion makes
\* one of those a hole.
Covered(v, w, e) ==
  \/ CrawlHas(v, e)
  \/ e \notin refresh.skip /\ (Fresh(v, w, e) \/ RefreshHas(w, e))
Gaps == \A e \in Missing, v \in Views, w \in Views : Covered(v, w, e)

\* Nobody knows of an episode that NRK has not published.
Past ==
  /\ listed \subseteq 1 .. top /\ stored \subseteq 1 .. top /\ failed \subseteq 1 .. top
  /\ progress.stop \subseteq 1 .. top /\ crawl.got \subseteq 1 .. top
  /\ refresh.stop \subseteq 1 .. top /\ refresh.skip \subseteq 1 .. top
  /\ refresh.got \subseteq 1 .. top

Overlaps == history.crawl <= PageSize /\ history.refresh <= PageSize

\* A crawl is at its saved cursor or a page further, of an archive that is not
\* complete; there is none of a feed that does not exist.
CrawlPlace ==
  /\ ~exists => crawl.pc = "idle" /\ ~complete /\ backlogCursor = 0
  /\ crawl.pc # "idle" =>
       /\ ~complete
       /\ crawl.cursor = IF crawl.pages = 0 THEN backlogCursor ELSE backlogCursor + PageSize
  /\ crawl.pc \in {"add", "checkpoint"} => crawl.next \in {0, crawl.cursor + PageSize}

\* A refresh walks from its saved cursor, under its saved boundary, and resumes
\* no earlier than it began. A first fetch writes to a feed that is not there.
RefreshPlace ==
  /\ refresh.pc = "idle" => refresh = IdleRefresh
  /\ refresh.pc \in {"metadata", "boundary"} =>
       /\ refresh.pages = 0 /\ refresh.previous = refresh.cursor
       /\ refresh.got = {} /\ ~refresh.sawAll
       /\ progress # NoProgress =>
            progress.cursor = refresh.cursor /\ progress.stop = refresh.stop
  /\ refresh.pc \in {"walk", "add", "advance"} /\ exists =>
       /\ progress # NoProgress /\ progress.stop = refresh.stop
       /\ progress.cursor <= refresh.previous
       /\ refresh.pages = 0 => refresh.previous = progress.cursor
  /\ refresh.pc = "walk" =>
       /\ ~refresh.sawAll
       /\ refresh.cursor = IF refresh.pages = 0 THEN refresh.previous
                           ELSE refresh.previous + PageSize
  /\ refresh.pc = "write" => ~exists
  /\ refresh.pc # "full"

GapsInv ==
  /\ TypeOK /\ Past /\ Overlaps
  /\ ~history.torn => CrawlPlace /\ RefreshPlace /\ Gaps

\* The invariant is stronger than the property: in the view of what is saved,
\* whatever covers an episode is one of the ways that are ahead.
LEMMA GapsInvAhead == GapsInv => GapsAreAhead
<1> SUFFICES ASSUME GapsInv, exists, ~history.torn, NEW e \in Missing PROVE Ahead(e)
  BY DEF GapsAreAhead
<1>1. /\ TypeOK /\ Overlaps /\ Covered("saved", "saved", e)
      /\ Newer(e) \in Nat /\ history \in History
  BY PlaceType DEF GapsInv, Gaps, Views, TypeOK
<1>2. CASE CrawlSaved(e)
  <2>1. backlogCursor <= Newer(e)
    BY <1>1, <1>2, SizesAssumption DEF CrawlSaved, TypeOK, Overlaps, History
  <2> QED
    BY <1>2, <2>1 DEF CrawlSaved, Ahead
<1>3. CASE Fresh("saved", "saved", e)
  BY <1>3 DEF Fresh, Known, Ahead
<1>4. CASE RefreshSaved(e)
  <2>1. progress.cursor <= Newer(e)
    <3>1. progress.cursor \in Nat \cup {-1} /\ history.refresh \in Nat
          /\ history.refresh <= PageSize
      BY <1>1 DEF TypeOK, Overlaps, History
    <3> QED
      BY <1>1, <1>4, <3>1, SizesAssumption DEF RefreshSaved
  <2> QED
    BY <1>4, <2>1 DEF RefreshSaved, Bounded, Ahead
<1> QED
  BY <1>1, <1>2, <1>3, <1>4 DEF Covered, CrawlHas, RefreshHas

-----------------------------------------------------------------------------
(* The parts of the invariant that are not about the gaps.                 *)

\* What a manifest says is about the page it is of.
LEMMA ManifestParts ==
  ASSUME NEW fresh, NEW m \in Manifests(fresh)
  PROVE  /\ m.ok \subseteq fresh /\ m.gone \subseteq fresh /\ m.flaky \subseteq fresh
         /\ fresh \subseteq m.ok \cup m.gone \cup m.flaky
  BY DEF Manifests

\* What one page of a refresh does to it: it fails in part, is the last one of
\* the batch, or goes on to the next.
LEMMA RefreshPageParts ==
  ASSUME TypeOK, RefreshPage
  PROVE  \E m \in Manifests(Page(refresh.cursor) \ refresh.skip) :
           LET page == Page(refresh.cursor)
               last == page \cap refresh.stop # {} \/ ~HasNext(refresh.cursor)
           IN /\ failed' = failed \cup m.gone
              /\ refresh'.got = refresh.got \cup m.ok
              /\ refresh'.stop = refresh.stop /\ refresh'.skip = refresh.skip
              /\ \/ /\ m.flaky # {} /\ refresh'.pc = "add"
                    /\ refresh'.sawAll = refresh.sawAll /\ refresh'.pages = refresh.pages
                    /\ refresh'.previous = refresh.previous
                 \/ /\ m.flaky = {} /\ refresh'.pc = "add"
                    /\ refresh'.sawAll = last /\ refresh'.pages = refresh.pages
                    /\ refresh'.previous = refresh.cursor
                 \/ /\ m.flaky = {} /\ ~last /\ refresh'.pc = "walk"
                    /\ refresh'.sawAll = refresh.sawAll /\ refresh'.pages = refresh.pages + 1
                    /\ refresh'.previous = refresh.cursor
                    /\ refresh'.cursor = refresh.cursor + PageSize
<1> DEFINE page == Page(refresh.cursor)
           last == page \cap refresh.stop # {} \/ ~HasNext(refresh.cursor)
<1>1. PICK m \in Manifests(page \ refresh.skip) :
        /\ failed' = failed \cup m.gone
        /\ refresh' =
             LET r == [refresh EXCEPT !.got = @ \cup m.ok]
             IN IF m.flaky # {} THEN [r EXCEPT !.pc = "add"]
                ELSE IF last \/ refresh.pages + 1 = RefreshPages
                THEN [r EXCEPT !.pc = "add", !.sawAll = last, !.previous = refresh.cursor]
                ELSE [r EXCEPT !.previous = refresh.cursor, !.pages = @ + 1,
                               !.cursor = @ + PageSize]
  BY DEF RefreshPage
<1>2. refresh \in RefreshState
  BY DEF TypeOK
<1> DEFINE r == [refresh EXCEPT !.got = @ \cup m.ok]
<1>3. /\ r.got = refresh.got \cup m.ok /\ r.stop = refresh.stop /\ r.skip = refresh.skip
      /\ r.sawAll = refresh.sawAll /\ r.pages = refresh.pages /\ r.previous = refresh.previous
      /\ r.cursor = refresh.cursor
      /\ DOMAIN r = {"pc", "cursor", "previous", "pages", "stop", "skip", "got", "sawAll"}
      /\ r = [x \in DOMAIN r |-> r[x]]
  BY <1>2 DEF RefreshState
<1> HIDE DEF r, page, last
<1>4. CASE m.flaky # {}
  <2>1. refresh' = [r EXCEPT !.pc = "add"]
    BY <1>1, <1>4 DEF r
  <2>2. /\ failed' = failed \cup m.gone /\ refresh'.got = refresh.got \cup m.ok
        /\ refresh'.stop = refresh.stop /\ refresh'.skip = refresh.skip
        /\ refresh'.pc = "add" /\ refresh'.sawAll = refresh.sawAll
        /\ refresh'.pages = refresh.pages /\ refresh'.previous = refresh.previous
    BY <1>1, <1>3, <2>1
  <2> QED
    BY <1>4, <2>2 DEF page, last
<1>5. CASE m.flaky = {} /\ (last \/ refresh.pages + 1 = RefreshPages)
  <2>1. refresh' = [r EXCEPT !.pc = "add", !.sawAll = last, !.previous = refresh.cursor]
    BY <1>1, <1>5 DEF r
  <2>2. /\ failed' = failed \cup m.gone /\ refresh'.got = refresh.got \cup m.ok
        /\ refresh'.stop = refresh.stop /\ refresh'.skip = refresh.skip
        /\ refresh'.pc = "add" /\ refresh'.sawAll = last
        /\ refresh'.pages = refresh.pages /\ refresh'.previous = refresh.cursor
    BY <1>1, <1>3, <2>1
  <2> QED
    BY <1>5, <2>2 DEF page, last
<1>6. CASE m.flaky = {} /\ ~(last \/ refresh.pages + 1 = RefreshPages)
  <2>1. refresh' = [r EXCEPT !.previous = refresh.cursor, !.pages = @ + 1,
                             !.cursor = @ + PageSize]
    BY <1>1, <1>6 DEF r
  <2>2. /\ failed' = failed \cup m.gone /\ refresh'.got = refresh.got \cup m.ok
        /\ refresh'.stop = refresh.stop /\ refresh'.skip = refresh.skip
        /\ refresh'.sawAll = refresh.sawAll /\ refresh'.pages = refresh.pages + 1
        /\ refresh'.previous = refresh.cursor /\ refresh'.cursor = refresh.cursor + PageSize
    <3>1. failed' = failed \cup m.gone
      BY <1>1
    <3>2. /\ refresh'.got = r.got /\ refresh'.stop = r.stop /\ refresh'.skip = r.skip
          /\ refresh'.sawAll = r.sawAll
      BY <1>3, <2>1
    <3>3. /\ refresh'.pages = r.pages + 1 /\ refresh'.cursor = r.cursor + PageSize
          /\ refresh'.previous = refresh.cursor
      BY <1>3, <2>1
    <3> QED
      BY <1>3, <3>1, <3>2, <3>3
  <2>3. r.pc = "walk" /\ refresh'.pc = r.pc
    BY <1>2, <1>3, <2>1 DEF r, RefreshPage, RefreshState
  <2> QED
    BY <1>6, <2>2, <2>3 DEF page, last
<1> QED
  BY <1>4, <1>5, <1>6

LEMMA PastStep ==
  ASSUME TypeOK, Past, [Next]_vars
  PROVE  Past'
<1> USE DEF rows, backlog
<1> DEFINE old == 1 .. top
<1>1. /\ listed \subseteq old /\ stored \subseteq old /\ failed \subseteq old
      /\ progress.stop \subseteq old /\ crawl.got \subseteq old
      /\ refresh.stop \subseteq old /\ refresh.skip \subseteq old /\ refresh.got \subseteq old
      /\ top \in Nat
  BY DEF Past, TypeOK, Episodes
<1>2. \A offset : Page(offset) \subseteq old
  BY <1>1 DEF Page
<1> HIDE DEF old
<1>3. /\ NoProgress.stop = {} /\ IdleRefresh.stop = {} /\ IdleRefresh.skip = {}
      /\ IdleRefresh.got = {} /\ IdleCrawl.got = {}
  BY DEF NoProgress, IdleRefresh, IdleCrawl
<1>4. ASSUME UNCHANGED top,
             listed' \subseteq old, stored' \subseteq old, failed' \subseteq old,
             progress'.stop \subseteq old, crawl'.got \subseteq old,
             refresh'.stop \subseteq old, refresh'.skip \subseteq old, refresh'.got \subseteq old
      PROVE  Past'
  BY <1>4 DEF Past, old
<1>5. refresh \in RefreshState /\ crawl \in CrawlState
  BY DEF TypeOK
<1>6. CASE Publish
  <2>1. top' = top + 1 /\ listed' = listed \cup {top + 1}
        /\ UNCHANGED <<stored, failed, progress, crawl, refresh>>
    BY <1>6 DEF Publish
  <2>2. old \cup {top + 1} \subseteq 1 .. top'
    BY <1>1, <2>1 DEF old
  <2> QED
    BY <1>1, <2>1, <2>2 DEF Past
<1>7. ASSUME NEW e \in listed, Withdraw(e) PROVE Past'
  BY <1>1, <1>4, <1>7 DEF Withdraw
<1>8. ASSUME NEW skip, FetchFirstPage(skip),
             UNCHANGED <<nrk, exists, stored, backlog, progress, crawl, history>>
      PROVE  Past'
  <2>1. PICK m \in Manifests(Page(0) \ skip) :
          /\ failed' = failed \cup m.gone
          /\ refresh' = [refresh EXCEPT !.pc = "write", !.got = m.ok]
    BY <1>8 DEF FetchFirstPage
  <2>2. m.gone \subseteq old /\ m.ok \subseteq old
    BY <1>2, ManifestParts
  <2>3. refresh'.stop = refresh.stop /\ refresh'.skip = refresh.skip /\ refresh'.got = m.ok
    BY <1>5, <2>1 DEF RefreshState
  <2> QED
    BY <1>1, <1>4, <1>8, <2>1, <2>2, <2>3 DEF nrk
<1>9. CASE WriteSeries \/ FullFetchFails
  BY <1>1, <1>3, <1>4, <1>9 DEF WriteSeries, FullFetchFails, nrk
<1>10. CASE RefreshBegin
  <2>1. PICK blocked \in SUBSET failed, metadata \in {FALSE, progress = NoProgress} :
          refresh' = [IdleRefresh EXCEPT
            !.pc = IF metadata THEN "metadata" ELSE "boundary",
            !.cursor = StartCursor, !.previous = StartCursor,
            !.stop = StopIDs, !.skip = stored \cup blocked]
    BY <1>10 DEF RefreshBegin
  <2>2. refresh'.stop = StopIDs /\ refresh'.skip = stored \cup blocked /\ refresh'.got = {}
    BY <2>1 DEF IdleRefresh
  <2>3. StopIDs \subseteq old
    BY <1>1 DEF StopIDs, Newest
  <2> QED
    BY <1>1, <1>4, <1>10, <2>2, <2>3 DEF RefreshBegin, nrk
<1>11. CASE RefreshMetadata
  <2>1. refresh' = [refresh EXCEPT !.pc = "boundary"] \/ refresh' = IdleRefresh
    BY <1>11 DEF RefreshMetadata
  <2>2. /\ refresh'.stop \subseteq old /\ refresh'.skip \subseteq old
        /\ refresh'.got \subseteq old
    BY <1>1, <1>3, <1>5, <2>1 DEF RefreshState
  <2> QED
    BY <1>1, <1>4, <1>11, <2>2 DEF RefreshMetadata, nrk
<1>12. CASE SaveBoundary
  <2>1. progress'.stop = refresh.stop /\ refresh' = [refresh EXCEPT !.pc = "walk"]
    BY <1>12 DEF SaveBoundary
  <2>2. refresh'.stop = refresh.stop /\ refresh'.skip = refresh.skip /\ refresh'.got = refresh.got
    BY <1>5, <2>1 DEF RefreshState
  <2> QED
    BY <1>1, <1>4, <1>12, <2>1, <2>2 DEF SaveBoundary, nrk
<1>13. CASE RefreshPage
  <2>1. PICK m \in Manifests(Page(refresh.cursor) \ refresh.skip) :
          /\ failed' = failed \cup m.gone /\ refresh'.got = refresh.got \cup m.ok
          /\ refresh'.stop = refresh.stop /\ refresh'.skip = refresh.skip
    BY <1>13, RefreshPageParts
  <2>2. m.gone \subseteq old /\ m.ok \subseteq old
    BY <1>2, ManifestParts
  <2> QED
    BY <1>1, <1>4, <1>13, <2>1, <2>2 DEF RefreshPage, nrk
<1>14. CASE RefreshPageFails \/ RefreshGone \/ RefreshAdd \/ RefreshAdvance
  <2>1. \/ refresh' = IdleRefresh
        \/ \E pc \in {"add", "full", "advance"} : refresh' = [refresh EXCEPT !.pc = pc]
    BY <1>14 DEF RefreshPageFails, RefreshGone, RefreshAdd, RefreshAdvance
  <2>2. /\ refresh'.stop \subseteq old /\ refresh'.skip \subseteq old
        /\ refresh'.got \subseteq old
    BY <1>1, <1>3, <1>5, <2>1 DEF RefreshState
  <2>3. progress'.stop \subseteq old /\ stored' \subseteq old
    BY <1>1, <1>3, <1>14 DEF RefreshPageFails, RefreshGone, RefreshAdd, RefreshAdvance
  <2> QED
    BY <1>1, <1>4, <1>14, <2>2, <2>3
       DEF RefreshPageFails, RefreshGone, RefreshAdd, RefreshAdvance, nrk
<1>15. CASE CrawlPage
  <2>1. PICK blocked \in SUBSET failed :
          \E m \in Manifests(Page(crawl.cursor) \ (stored \cup blocked)) :
            /\ failed' = failed \cup m.gone
            /\ crawl' = [crawl EXCEPT !.pc = "add", !.got = m.ok, !.flaky = m.flaky # {},
                 !.next = IF HasNext(crawl.cursor) THEN crawl.cursor + PageSize ELSE 0]
    BY <1>15 DEF CrawlPage
  <2>2. PICK m \in Manifests(Page(crawl.cursor) \ (stored \cup blocked)) :
          /\ failed' = failed \cup m.gone
          /\ crawl' = [crawl EXCEPT !.pc = "add", !.got = m.ok, !.flaky = m.flaky # {},
               !.next = IF HasNext(crawl.cursor) THEN crawl.cursor + PageSize ELSE 0]
    BY <2>1
  <2>3. m.gone \subseteq old /\ m.ok \subseteq old
    BY <1>2, ManifestParts
  <2>4. crawl'.got = m.ok
    BY <1>5, <2>2 DEF CrawlState
  <2> QED
    BY <1>1, <1>4, <1>15, <2>2, <2>3, <2>4 DEF CrawlPage, nrk
<1>16. CASE CrawlBegin \/ CrawlPageFails \/ CrawlAdd \/ CrawlCheckpoint
  <2>1. crawl'.got \subseteq old
    BY <1>1, <1>3, <1>5, <1>16
       DEF CrawlBegin, CrawlPageFails, CrawlAdd, CrawlCheckpoint, CrawlState, IdleCrawl
  <2> QED
    BY <1>1, <1>4, <1>16, <2>1 DEF CrawlBegin, CrawlPageFails, CrawlAdd, CrawlCheckpoint, nrk
<1>17. CASE Recrawl \/ DeleteSeries \/ Restart
  BY <1>1, <1>3, <1>4, <1>17 DEF Recrawl, DeleteSeries, Restart, nrk
<1>18. CASE UNCHANGED vars
  BY <1>1, <1>4, <1>18 DEF vars, nrk
<1> QED
  BY <1>6, <1>7, <1>8, <1>9, <1>10, <1>11, <1>12, <1>13, <1>14, <1>15, <1>16, <1>17, <1>18
  DEF Next, Refreshing, Crawling, Trouble, InitialFetch, FullFetch

LEMMA OverlapsStep ==
  ASSUME TypeOK, Overlaps, [Next]_vars
  PROVE  Overlaps'
<1>1. history \in History /\ history.crawl <= PageSize /\ history.refresh <= PageSize
      /\ history.crawl \in Nat /\ history.refresh \in Nat
  BY DEF TypeOK, History, Overlaps
<1>2. ASSUME NEW e \in listed, Withdraw(e) PROVE Overlaps'
  <2>1. /\ history'.crawl \in Nat /\ history'.refresh \in Nat
        /\ history'.crawl <= IF WithinOverlap /\ backlogCursor > 0
                             THEN history.crawl + 1 ELSE history.crawl
        /\ history'.refresh <= IF WithinOverlap /\ progress.cursor > 0
                               THEN history.refresh + 1 ELSE history.refresh
    BY <1>1, <1>2, WithdrawHistory DEF History
  <2>2. WithinOverlap =>
          /\ backlogCursor > 0 => history.crawl + 1 <= PageSize
          /\ progress.cursor > 0 => history.refresh + 1 <= PageSize
    BY <1>1, SizesAssumption DEF WithinOverlap
  <2> QED
    BY <1>1, <2>1, <2>2, SizesAssumption DEF Overlaps
<1>3. CASE RefreshAdd \/ CrawlAdd \/ RefreshAdvance \/ CrawlCheckpoint
  BY <1>1, <1>3, SizesAssumption
     DEF RefreshAdd, CrawlAdd, RefreshAdvance, CrawlCheckpoint, Overlaps, History
<1>4. CASE RefreshGone \/ Recrawl \/ DeleteSeries
  BY <1>1, <1>4 DEF RefreshGone, Recrawl, DeleteSeries, TornBy, Overlaps, History
<1>5. CASE UNCHANGED history
  BY <1>1, <1>5 DEF Overlaps
<1> QED
  BY <1>2, <1>3, <1>4, <1>5
  DEF Next, Refreshing, Crawling, Trouble, vars, Publish, InitialFetch, FullFetch, FullFetchFails,
      WriteSeries, RefreshBegin, RefreshMetadata, SaveBoundary, RefreshPage, RefreshPageFails,
      CrawlBegin, CrawlPage, CrawlPageFails, Restart

\* A torn archive stays torn; a step that does not tear it is none of an admin's
\* during a crawl, no vanished listing and no withdrawal past the overlap.
LEMMA TornStays ==
  ASSUME TypeOK, [Next]_vars, ~history'.torn
  PROVE  /\ ~history.torn /\ ~RefreshGone
         /\ Recrawl \/ DeleteSeries => crawl.pc = "idle"
         /\ (\E e \in listed : Withdraw(e)) => WithinOverlap
<1>1. history \in History
  BY DEF TypeOK
<1>2. ~RefreshGone
  BY <1>1 DEF RefreshGone, History
<1>3. ASSUME Recrawl \/ DeleteSeries PROVE ~history.torn /\ crawl.pc = "idle"
  <2>1. TornBy(crawl.pc # "idle")
    BY <1>3 DEF Recrawl, DeleteSeries
  <2> DEFINE torn == history.torn \/ crawl.pc # "idle"
  <2>2. history' = [history EXCEPT !.torn = torn]
    BY <2>1 DEF TornBy
  <2> HIDE DEF torn
  <2>3. history'.torn = torn
    BY <1>1, <2>2 DEF History
  <2> QED
    BY <2>3 DEF torn
<1>4. ASSUME NEW e \in listed, Withdraw(e)
      PROVE  WithinOverlap /\ history'.torn = history.torn
  BY <1>1, <1>4, WithdrawHistory
<1>5. ASSUME RefreshAdd \/ CrawlAdd \/ RefreshAdvance \/ CrawlCheckpoint
      PROVE  history'.torn = history.torn
  BY <1>1, <1>5 DEF RefreshAdd, CrawlAdd, RefreshAdvance, CrawlCheckpoint, History
<1>6. \/ UNCHANGED history \/ RefreshAdd \/ CrawlAdd \/ RefreshAdvance \/ CrawlCheckpoint
      \/ Recrawl \/ DeleteSeries \/ \E e \in listed : Withdraw(e)
  BY <1>2
  DEF Next, Refreshing, Crawling, Trouble, vars, Publish, InitialFetch, FullFetch, FullFetchFails,
      WriteSeries, RefreshBegin, RefreshMetadata, SaveBoundary, RefreshPage, RefreshPageFails,
      CrawlBegin, CrawlPage, CrawlPageFails, Restart
<1>7. ~history.torn
  BY <1>3, <1>4, <1>5, <1>6
<1> QED
  BY <1>2, <1>3, <1>4, <1>7

LEMMA CrawlPlaceStep ==
  ASSUME TypeOK, CrawlPlace, [Next]_vars, ~history'.torn
  PROVE  CrawlPlace'
<1> USE DEF rows, backlog
<1>1. crawl \in CrawlState /\ IdleCrawl.pc = "idle" /\ (Recrawl \/ DeleteSeries => crawl.pc = "idle")
  BY TornStays DEF TypeOK, IdleCrawl
<1>2. CASE CrawlBegin
  <2>1. /\ crawl'.pc = "fetch" /\ crawl'.cursor = backlogCursor /\ crawl'.pages = 0
        /\ exists /\ ~complete /\ UNCHANGED <<exists, complete, backlogCursor>>
    BY <1>2 DEF CrawlBegin, IdleCrawl
  <2> QED
    BY <2>1 DEF CrawlPlace
<1>3. CASE CrawlPage
  <2>1. PICK next \in {0, crawl.cursor + PageSize} :
          /\ crawl'.pc = "add" /\ crawl'.next = next
          /\ crawl'.cursor = crawl.cursor /\ crawl'.pages = crawl.pages
    BY <1>1, <1>3 DEF CrawlPage, CrawlState
  <2> QED
    BY <1>3, <2>1 DEF CrawlPage, CrawlPlace
<1>4. CASE CrawlAdd
  <2>1. crawl' = [crawl EXCEPT !.pc = "checkpoint"] \/ crawl' = IdleCrawl
    BY <1>4 DEF CrawlAdd
  <2>2. CASE crawl' = [crawl EXCEPT !.pc = "checkpoint"]
    <3>1. /\ crawl'.pc = "checkpoint" /\ crawl'.next = crawl.next
          /\ crawl'.cursor = crawl.cursor /\ crawl'.pages = crawl.pages
      BY <1>1, <2>2 DEF CrawlState
    <3> QED
      BY <1>4, <3>1 DEF CrawlAdd, CrawlPlace
  <2>3. CASE crawl' = IdleCrawl
    BY <1>1, <1>4, <2>3 DEF CrawlAdd, CrawlPlace
  <2> QED
    BY <2>1, <2>2, <2>3
<1>5. CASE CrawlCheckpoint
  <2>1. exists /\ crawl.pc = "checkpoint" /\ UNCHANGED exists
    BY <1>5 DEF CrawlCheckpoint, CrawlPlace
  <2>2. /\ complete' = (crawl.next = 0)
        /\ backlogCursor' = IF crawl.next = 0 THEN 0 ELSE crawl.cursor
    BY <1>5, <2>1 DEF CrawlCheckpoint, Checkpoint
  <2>3. CASE crawl' = IdleCrawl
    BY <1>1, <2>1, <2>3 DEF CrawlPlace
  <2>4. CASE crawl' # IdleCrawl
    <3>1. crawl.next # 0 /\ crawl' = [IdleCrawl EXCEPT !.pc = "fetch", !.cursor = crawl.next,
                                                      !.pages = crawl.pages + 1]
      BY <1>5, <2>4 DEF CrawlCheckpoint
    <3>2. crawl'.pc = "fetch" /\ crawl'.cursor = crawl.next /\ crawl'.pages = crawl.pages + 1
      BY <3>1 DEF IdleCrawl
    <3>3. crawl.next = crawl.cursor + PageSize /\ crawl.pages + 1 # 0
      BY <1>1, <2>1, <3>1 DEF CrawlPlace, CrawlState
    <3> QED
      BY <2>1, <2>2, <3>1, <3>2, <3>3 DEF CrawlPlace
  <2> QED
    BY <2>3, <2>4
<1>6. CASE CrawlPageFails \/ Recrawl \/ DeleteSeries \/ Restart
  BY <1>1, <1>6 DEF CrawlPageFails, Recrawl, DeleteSeries, Restart, CrawlPlace
<1>7. CASE WriteSeries \/ RefreshMetadata
  BY <1>7 DEF WriteSeries, RefreshMetadata, CrawlPlace
<1>8. CASE UNCHANGED <<exists, complete, backlogCursor, crawl>>
  BY <1>8 DEF CrawlPlace
<1> QED
  BY <1>2, <1>3, <1>4, <1>5, <1>6, <1>7, <1>8
  DEF Next, Refreshing, Crawling, Trouble, vars, Publish, Withdraw, InitialFetch, FullFetch,
      FullFetchFails, RefreshBegin, SaveBoundary, RefreshPage, RefreshPageFails, RefreshGone,
      RefreshAdd, RefreshAdvance

LEMMA RefreshPlaceStep ==
  ASSUME TypeOK, RefreshPlace, [Next]_vars, ~history'.torn
  PROVE  RefreshPlace'
<1> USE DEF rows, backlog
<1>1. /\ refresh \in RefreshState /\ ~RefreshGone /\ refresh.pc # "full"
      /\ progress.cursor \in Nat \cup {-1}
  BY TornStays DEF TypeOK, RefreshPlace
<1>2. ASSUME refresh' = IdleRefresh PROVE RefreshPlace'
  BY <1>2 DEF RefreshPlace, IdleRefresh
<1>3. CASE InitialFetch
  <2>1. refresh'.pc = "write" /\ ~exists'
    BY <1>1, <1>3 DEF InitialFetch, FetchFirstPage, RefreshState
  <2> QED
    BY <2>1 DEF RefreshPlace
<1>4. CASE WriteSeries
  BY <1>2, <1>4 DEF WriteSeries
<1>5. CASE RefreshBegin
  <2>1. PICK blocked \in SUBSET failed, metadata \in {FALSE, progress = NoProgress} :
          refresh' = [IdleRefresh EXCEPT
            !.pc = IF metadata THEN "metadata" ELSE "boundary",
            !.cursor = StartCursor, !.previous = StartCursor,
            !.stop = StopIDs, !.skip = stored \cup blocked]
    BY <1>5 DEF RefreshBegin
  <2>2. /\ refresh'.pc \in {"metadata", "boundary"} /\ refresh'.pages = 0
        /\ refresh'.previous = refresh'.cursor /\ refresh'.got = {} /\ ~refresh'.sawAll
        /\ refresh'.cursor = StartCursor /\ refresh'.stop = StopIDs
    BY <2>1 DEF IdleRefresh
  <2>3. UNCHANGED progress
    BY <1>5 DEF RefreshBegin
  <2> QED
    BY <2>2, <2>3 DEF RefreshPlace, StartCursor, StopIDs
<1>6. CASE RefreshMetadata
  <2>1. CASE refresh' = [refresh EXCEPT !.pc = "boundary"]
    <3>1. /\ refresh'.pc = "boundary" /\ refresh'.cursor = refresh.cursor
          /\ refresh'.previous = refresh.previous /\ refresh'.pages = refresh.pages
          /\ refresh'.stop = refresh.stop /\ refresh'.got = refresh.got
          /\ refresh'.sawAll = refresh.sawAll /\ refresh.pc = "metadata" /\ UNCHANGED progress
      BY <1>1, <1>6, <2>1 DEF RefreshMetadata, RefreshState
    <3> QED
      BY <3>1 DEF RefreshPlace
  <2> QED
    BY <1>2, <1>6, <2>1 DEF RefreshMetadata
<1>7. CASE SaveBoundary
  <2>1. /\ refresh'.pc = "walk" /\ refresh'.cursor = refresh.cursor
        /\ refresh'.previous = refresh.previous /\ refresh'.pages = refresh.pages
        /\ refresh'.stop = refresh.stop /\ refresh'.sawAll = refresh.sawAll
        /\ progress'.cursor = refresh.cursor /\ progress'.stop = refresh.stop
        /\ refresh.pc = "boundary" /\ refresh.cursor \in Nat
    BY <1>1, <1>7 DEF SaveBoundary, RefreshState
  <2>2. progress' # NoProgress
    BY <2>1 DEF NoProgress
  <2> QED
    BY <2>1, <2>2 DEF RefreshPlace
<1>8. CASE RefreshPage
  <2> DEFINE page == Page(refresh.cursor)
             last == page \cap refresh.stop # {} \/ ~HasNext(refresh.cursor)
  <2>1. PICK m \in Manifests(page \ refresh.skip) :
          /\ refresh'.stop = refresh.stop
          /\ \/ /\ refresh'.pc = "add" /\ refresh'.pages = refresh.pages
                /\ refresh'.previous \in {refresh.previous, refresh.cursor}
             \/ /\ refresh'.pc = "walk"
                /\ refresh'.sawAll = refresh.sawAll /\ refresh'.pages = refresh.pages + 1
                /\ refresh'.previous = refresh.cursor
                /\ refresh'.cursor = refresh.cursor + PageSize
    BY <1>8, RefreshPageParts
  <2>2. refresh.pc = "walk" /\ UNCHANGED <<exists, progress>>
    BY <1>8 DEF RefreshPage
  <2>3. /\ refresh.cursor \in Nat /\ refresh.previous \in Nat /\ refresh.pages \in Nat
        /\ PageSize \in Nat
    BY <1>1, SizesAssumption DEF RefreshState
  <2>4. /\ refresh.cursor = IF refresh.pages = 0 THEN refresh.previous
                            ELSE refresh.previous + PageSize
        /\ ~refresh.sawAll
        /\ exists => /\ progress # NoProgress /\ progress.stop = refresh.stop
                     /\ progress.cursor <= refresh.previous
                     /\ refresh.pages = 0 => refresh.previous = progress.cursor
    BY <2>2 DEF RefreshPlace
  <2>5. exists => /\ progress.cursor <= refresh.cursor
                  /\ refresh.pages = 0 => refresh.cursor = progress.cursor
    BY <1>1, <2>3, <2>4
  <2> QED
    BY <1>1, <2>1, <2>2, <2>3, <2>4, <2>5 DEF RefreshPlace
<1>9. CASE RefreshPageFails \/ RefreshAdd
  <2>1. CASE \E pc \in {"add", "advance"} : refresh' = [refresh EXCEPT !.pc = pc]
    <3>1. PICK pc \in {"add", "advance"} : refresh' = [refresh EXCEPT !.pc = pc]
      BY <2>1
    <3>2. /\ refresh'.pc = pc /\ refresh'.previous = refresh.previous
          /\ refresh'.pages = refresh.pages /\ refresh'.stop = refresh.stop
          /\ refresh.pc \in {"walk", "add"} /\ UNCHANGED <<exists, progress>>
      BY <1>1, <1>9, <3>1 DEF RefreshPageFails, RefreshAdd, RefreshState
    <3> QED
      BY <3>2 DEF RefreshPlace
  <2> QED
    BY <1>2, <1>9, <2>1 DEF RefreshPageFails, RefreshAdd
<1>10. CASE RefreshAdvance \/ Restart \/ FullFetchFails
  BY <1>2, <1>10 DEF RefreshAdvance, Restart, FullFetchFails
<1>11. CASE DeleteSeries
  <2>1. ~exists' /\ progress' = NoProgress /\ UNCHANGED refresh
    BY <1>11 DEF DeleteSeries
  <2> QED
    BY <1>1, <2>1 DEF RefreshPlace
<1>12. CASE UNCHANGED <<exists, progress, refresh>>
  BY <1>12 DEF RefreshPlace
<1>13. ~FullFetch
  BY <1>1 DEF FullFetch
<1> QED
  BY <1>1, <1>3, <1>4, <1>5, <1>6, <1>7, <1>8, <1>9, <1>10, <1>11, <1>12, <1>13
  DEF Next, Refreshing, Crawling, Trouble, vars, Publish, Withdraw, CrawlBegin, CrawlPage,
      CrawlPageFails, CrawlAdd, CrawlCheckpoint, Recrawl

-----------------------------------------------------------------------------
(* The gaps: what a step of one walker leaves of the other's.              *)

\* What a step that leaves a walker and its checkpoint alone keeps of it.
LEMMA CrawlKept ==
  ASSUME UNCHANGED <<listed, complete, backlogCursor, crawl>>, history'.crawl = history.crawl,
         NEW v, NEW e
  PROVE  (CrawlHas(v, e)' <=> CrawlHas(v, e)) /\ CrawlGot(v)' = CrawlGot(v)
  BY DEF CrawlHas, CrawlSaved, CrawlHolds, PageHas, CrawlGot, Newer
LEMMA RefreshKept ==
  ASSUME UNCHANGED <<listed, progress, refresh>>, history'.refresh = history.refresh,
         NEW w, NEW e
  PROVE  (RefreshHas(w, e)' <=> RefreshHas(w, e)) /\ RefreshGot(w)' = RefreshGot(w)
  BY DEF RefreshHas, RefreshSaved, RefreshHolds, Bounded, Resumed, RefreshGot, Newer

\* A walker that stops has what is saved.
LEMMA CrawlForgets ==
  ASSUME UNCHANGED <<listed, complete, backlogCursor, history>>, crawl' = IdleCrawl, NEW v, NEW e
  PROVE  (CrawlHas(v, e)' <=> CrawlHas("saved", e)) /\ CrawlGot(v)' = CrawlGot("saved")
  BY DEF CrawlHas, CrawlSaved, CrawlHolds, CrawlGot, Newer, IdleCrawl
LEMMA RefreshForgets ==
  ASSUME UNCHANGED <<listed, progress, history>>, refresh' = IdleRefresh, NEW w, NEW e
  PROVE  /\ RefreshHas(w, e)' <=> RefreshHas("saved", e)
         /\ RefreshGot(w)' = RefreshGot("saved") /\ refresh'.skip = {} /\ refresh'.stop = {}
  BY DEF RefreshHas, RefreshSaved, RefreshHolds, Bounded, RefreshGot, Newer, IdleRefresh

\* A crawl that has to begin from the front brings everything in.
LEMMA CrawlFromFront ==
  ASSUME crawl.pc = "idle", ~complete, backlogCursor = 0, NEW v, NEW e
  PROVE  CrawlHas(v, e)
  BY DEF CrawlHas, CrawlSaved, CrawlHolds

\* Steps that leave both walkers alone, but for holes that close.
LEMMA GapsKept ==
  ASSUME Gaps, UNCHANGED <<listed, complete, backlogCursor, progress, crawl, refresh, history>>,
         stored' = stored, failed \subseteq failed'
  PROVE  Gaps'
<1> SUFFICES ASSUME NEW e \in Missing', NEW v \in Views, NEW w \in Views
             PROVE  Covered(v, w, e)'
  BY DEF Gaps
<1>1. e \in Missing
  BY DEF Missing
<1>2. Covered(v, w, e)
  BY <1>1 DEF Gaps
<1> QED
  BY <1>2, CrawlKept, RefreshKept DEF Covered, Fresh, Known

\* A step after which a crawl has to begin from the front leaves no hole open.
LEMMA GapsFromFront ==
  ASSUME crawl'.pc = "idle", ~complete', backlogCursor' = 0
  PROVE  Gaps'
<1> SUFFICES ASSUME NEW e \in Missing', NEW v \in Views, NEW w \in Views
             PROVE  CrawlHas(v, e)'
  BY DEF Gaps, Covered
<1> QED
  BY DEF CrawlHas, CrawlSaved, CrawlHolds

\* What NRK publishes is newer than everything known, and moves nothing to the
\* front.
LEMMA PublishGaps ==
  ASSUME GapsInv, Gaps, TypeOK', Publish
  PROVE  Gaps'
<1> SUFFICES ASSUME NEW e \in Missing', NEW v \in Views, NEW w \in Views
             PROVE  Covered(v, w, e)'
  BY DEF Gaps
<1>1. /\ listed' = listed \cup {top + 1} /\ top \in Nat
      /\ UNCHANGED <<stored, failed, complete, backlogCursor, progress, refresh, crawl, history>>
  BY DEF Publish, rows, backlog, GapsInv, TypeOK, Episodes
<1>2. CASE e = top + 1
  <2>1. Known(v, w)' \subseteq 1 .. top /\ refresh'.skip \subseteq 1 .. top
    BY <1>1 DEF GapsInv, Past, Known, CrawlGot, RefreshGot
  <2>2. e \notin refresh'.skip /\ \A s \in 1 .. top : s < e
    BY <1>1, <1>2, <2>1
  <2> QED
    BY <2>1, <2>2 DEF Covered, Fresh
<1>3. CASE e # top + 1
  <2>1. e \in Missing
    BY <1>1, <1>3 DEF Missing
  <2>2. Newer(e) \in Nat /\ Newer(e)' \in Nat /\ Newer(e)' >= Newer(e)
    BY <1>1, NewerMoves DEF GapsInv
  <2>3. /\ history \in History /\ crawl \in CrawlState /\ refresh \in RefreshState
        /\ backlogCursor \in Nat /\ progress.cursor \in Nat \cup {-1}
    BY DEF GapsInv, TypeOK
  <2>4. CrawlHas(v, e) => CrawlHas(v, e)'
    BY <1>1, <2>2, <2>3, SizesAssumption
       DEF CrawlHas, CrawlSaved, CrawlHolds, PageHas, History, CrawlState
  <2>5. RefreshHas(w, e) => RefreshHas(w, e)'
    BY <1>1, <2>2, <2>3, SizesAssumption
       DEF RefreshHas, RefreshSaved, RefreshHolds, Bounded, Resumed, History, RefreshState
  <2>6. Known(v, w)' = Known(v, w)
    BY <1>1 DEF Known, CrawlGot, RefreshGot
  <2> QED
    BY <1>1, <2>1, <2>4, <2>5, <2>6 DEF Gaps, Covered, Fresh
<1> QED
  BY <1>2, <1>3

\* A withdrawal moves a place by no more than it uses of the overlaps.
LEMMA WithdrawGaps ==
  ASSUME GapsInv, Gaps, TypeOK', NEW x \in listed, Withdraw(x), WithinOverlap
  PROVE  Gaps'
<1> SUFFICES ASSUME NEW e \in Missing', NEW v \in Views, NEW w \in Views
             PROVE  Covered(v, w, e)'
  BY DEF Gaps
<1>1. /\ listed' = listed \ {x} /\ refresh.pc = "idle" /\ crawl.pc = "idle"
      /\ UNCHANGED <<stored, failed, complete, backlogCursor, progress, refresh, crawl>>
  BY DEF Withdraw, WithinOverlap, rows, backlog
<1>2. /\ history \in History /\ history.crawl \in Nat /\ history.refresh \in Nat
      /\ backlogCursor \in Nat /\ progress.cursor \in Nat \cup {-1}
      /\ progress.cursor = -1 => progress = NoProgress
  BY DEF GapsInv, TypeOK, History
<1>3. /\ history'.crawl = IF backlogCursor > 0 THEN history.crawl + 1 ELSE 0
      /\ history'.refresh = IF progress.cursor > 0 THEN history.refresh + 1 ELSE 0
  BY <1>2, WithdrawHistory
<1>4. e \in Missing
  BY <1>1 DEF Missing
<1>5. Newer(e) \in Nat /\ Newer(e)' \in Nat /\ Newer(e)' >= Newer(e) - 1
  BY <1>1, NewerMoves DEF GapsInv
<1>6. CrawlSaved(e) => CrawlSaved(e)'
  BY <1>1, <1>2, <1>3, <1>5, SizesAssumption DEF CrawlSaved
<1>7. RefreshSaved(e) => RefreshSaved(e)'
  BY <1>1, <1>2, <1>3, <1>5, SizesAssumption DEF RefreshSaved, Bounded
<1>8. CrawlHas(v, e) => CrawlHas(v, e)'
  BY <1>1, <1>6 DEF CrawlHas, CrawlHolds
<1>9. RefreshHas(w, e) => RefreshHas(w, e)'
  BY <1>1, <1>7 DEF RefreshHas, RefreshHolds
<1>10. Known(v, w)' = Known(v, w)
  BY <1>1 DEF Known, CrawlGot, RefreshGot
<1> QED
  BY <1>1, <1>4, <1>8, <1>9, <1>10 DEF Gaps, Covered, Fresh

\* A walker that stops leaves each hole to what is saved and to the other one.
LEMMA CrawlStops ==
  ASSUME Gaps, UNCHANGED <<listed, stored, complete, backlogCursor, progress, refresh, history>>,
         failed \subseteq failed', crawl' = IdleCrawl
  PROVE  Gaps'
<1> SUFFICES ASSUME NEW e \in Missing', NEW v \in Views, NEW w \in Views
             PROVE  Covered(v, w, e)'
  BY DEF Gaps
<1>1. Covered("saved", w, e)
  BY DEF Gaps, Missing, Views
<1>2. CrawlHas(v, e)' <=> CrawlHas("saved", e)
  BY CrawlForgets
<1>3. RefreshHas(w, e)' <=> RefreshHas(w, e)
  BY RefreshKept
<1>4. Known(v, w)' = Known("saved", w)
  BY CrawlForgets, RefreshKept DEF Known
<1> QED
  BY <1>1, <1>2, <1>3, <1>4 DEF Covered, Fresh

LEMMA RefreshStops ==
  ASSUME Gaps, UNCHANGED <<listed, stored, complete, backlogCursor, progress, crawl, history>>,
         failed \subseteq failed', refresh' = IdleRefresh
  PROVE  Gaps'
<1> SUFFICES ASSUME NEW e \in Missing', NEW v \in Views, NEW w \in Views
             PROVE  Covered(v, w, e)'
  BY DEF Gaps
<1>1. Covered(v, "saved", e)
  BY DEF Gaps, Missing, Views
<1>2. CrawlHas(v, e)' <=> CrawlHas(v, e)
  BY CrawlKept
<1>3. (RefreshHas(w, e)' <=> RefreshHas("saved", e)) /\ refresh'.skip = {}
  BY RefreshForgets
<1>4. Known(v, w)' \subseteq Known(v, "saved")
  BY CrawlKept, RefreshForgets DEF Known
<1> QED
  BY <1>1, <1>2, <1>3, <1>4 DEF Covered, Fresh

LEMMA RestartGaps ==
  ASSUME Gaps, Restart
  PROVE  Gaps'
<1> SUFFICES ASSUME NEW e \in Missing', NEW v \in Views, NEW w \in Views
             PROVE  Covered(v, w, e)'
  BY DEF Gaps
<1> USE DEF Restart, rows, backlog, nrk
<1>1. Covered("saved", "saved", e)
  BY DEF Gaps, Missing, Views
<1>2. CrawlHas(v, e)' <=> CrawlHas("saved", e)
  BY CrawlForgets
<1>3. (RefreshHas(w, e)' <=> RefreshHas("saved", e)) /\ refresh'.skip = {}
  BY RefreshForgets
<1>4. Known(v, w)' \subseteq Known("saved", "saved")
  BY CrawlForgets, RefreshForgets DEF Known
<1> QED
  BY <1>1, <1>2, <1>3, <1>4 DEF Covered, Fresh

-----------------------------------------------------------------------------
(* The gaps: the steps of the crawl.                                       *)

\* A crawl that begins goes to the saved cursor, which is before whatever the
\* saved cursor covers.
LEMMA CrawlBeginGaps ==
  ASSUME GapsInv, Gaps, CrawlBegin
  PROVE  Gaps'
<1> SUFFICES ASSUME NEW e \in Missing', NEW v \in Views, NEW w \in Views
             PROVE  Covered(v, w, e)'
  BY DEF Gaps
<1>1. /\ crawl.pc = "idle" /\ crawl'.pc = "fetch" /\ crawl'.cursor = backlogCursor
      /\ UNCHANGED <<listed, stored, failed, complete, backlogCursor, progress, refresh, history>>
  BY DEF CrawlBegin, IdleCrawl, nrk, rows, backlog
<1>2. Covered(v, w, e)
  BY <1>1 DEF Gaps, Missing
<1>3. Newer(e) \in Nat /\ Newer(e)' = Newer(e)
  BY <1>1, PlaceType DEF GapsInv, Newer
<1>4. CrawlHas(v, e) => CrawlHas(v, e)'
  <2>1. history.crawl <= PageSize /\ history.crawl \in Nat /\ backlogCursor \in Nat
    BY DEF GapsInv, Overlaps, TypeOK, History
  <2>2. CrawlSaved(e) => CrawlSaved(e)' /\ Newer(e) >= backlogCursor
    BY <1>1, <1>3, <2>1, SizesAssumption DEF CrawlSaved
  <2> QED
    BY <1>1, <1>3, <2>2 DEF CrawlHas, CrawlHolds
<1>5. RefreshHas(w, e)' <=> RefreshHas(w, e)
  BY <1>1, RefreshKept
<1>6. Known(v, w)' = Known(v, w)
  BY <1>1, RefreshKept DEF Known, CrawlGot
<1> QED
  BY <1>1, <1>2, <1>4, <1>5, <1>6 DEF Covered, Fresh

\* A hole at or behind the page that was read is one of its new episodes, one
\* whose manifest failed, or on a later page; one before the page is newer than
\* all it brings.
LEMMA CrawlPageGaps ==
  ASSUME GapsInv, Gaps, CrawlPage
  PROVE  Gaps'
<1> SUFFICES ASSUME NEW e \in Missing', NEW v \in Views, NEW w \in Views
             PROVE  Covered(v, w, e)'
  BY DEF Gaps
<1>1. /\ crawl.pc = "fetch"
      /\ UNCHANGED <<listed, stored, complete, backlogCursor, progress, refresh, history>>
  BY DEF CrawlPage, nrk, backlog
<1>2. TypeOK /\ crawl \in CrawlState /\ crawl.cursor \in Nat
  BY DEF GapsInv, TypeOK, CrawlState
<1> DEFINE Reads(m) ==
      /\ failed' = failed \cup m.gone
      /\ crawl' = [crawl EXCEPT !.pc = "add", !.got = m.ok, !.flaky = m.flaky # {},
           !.next = IF HasNext(crawl.cursor) THEN crawl.cursor + PageSize ELSE 0]
<1>0. PICK blocked \in SUBSET failed :
        \E m \in Manifests(Page(crawl.cursor) \ (stored \cup blocked)) : Reads(m)
  BY DEF CrawlPage
<1>3. PICK m \in Manifests(Page(crawl.cursor) \ (stored \cup blocked)) : Reads(m)
  BY <1>0
<1>4. /\ crawl'.pc = "add" /\ crawl'.got = m.ok /\ crawl'.flaky = (m.flaky # {})
      /\ crawl'.next = IF HasNext(crawl.cursor) THEN crawl.cursor + PageSize ELSE 0
      /\ crawl'.cursor = crawl.cursor
  BY <1>2, <1>3 DEF CrawlState
<1>5. /\ e \in listed /\ e \in Missing /\ e \notin stored /\ e \notin blocked /\ e \notin m.gone
      /\ Covered(v, w, e)
  BY <1>1, <1>3 DEF Gaps, Missing
<1>6. Newer(e) \in Nat /\ Newer(e)' = Newer(e)
  BY <1>1, <1>2, PlaceType DEF Newer
<1>7. (RefreshHas(w, e)' <=> RefreshHas(w, e)) /\ RefreshGot(w)' = RefreshGot(w)
  BY <1>1, RefreshKept
<1>8. CASE v = "saved"
  <2>1. (CrawlHas(v, e)' <=> CrawlHas(v, e)) /\ Known(v, w)' = Known(v, w)
    BY <1>1, <1>6, <1>7, <1>8 DEF CrawlHas, CrawlSaved, Known, CrawlGot
  <2> QED
    BY <1>1, <1>5, <1>7, <2>1 DEF Covered, Fresh
<1>9. CASE v = "memory" /\ Newer(e) >= crawl.cursor
  <2>1. CASE Newer(e) < crawl.cursor + PageSize
    <3>1. e \in Page(crawl.cursor) \ (stored \cup blocked)
      BY <1>2, <1>5, <1>9, <2>1, AroundPage
    <3>2. e \in m.ok \/ m.flaky # {}
      BY <1>5, <3>1, ManifestParts
    <3> QED
      BY <1>4, <1>6, <1>9, <3>2 DEF Covered, CrawlHas, CrawlHolds, PageHas
  <2>2. CASE Newer(e) >= crawl.cursor + PageSize
    <3>1. HasNext(crawl.cursor)
      BY <1>2, <1>5, <1>6, <2>2, SizesAssumption, AroundPage
    <3>2. crawl'.next > 0 /\ Newer(e) >= crawl'.next
      BY <1>2, <1>4, <2>2, <3>1, SizesAssumption
    <3> QED
      BY <1>4, <1>6, <1>9, <3>2 DEF Covered, CrawlHas, CrawlHolds, PageHas
  <2> QED
    BY <1>2, <1>6, <2>1, <2>2, SizesAssumption
<1>10. CASE v = "memory" /\ Newer(e) < crawl.cursor
  <2>1. ~CrawlHas(v, e)
    BY <1>1, <1>2, <1>6, <1>10 DEF CrawlHas, CrawlHolds
  <2>2. \A s \in m.ok : s < e
    BY <1>2, <1>5, <1>10, AroundPage, ManifestParts
  <2>3. Known(v, w)' = Known(v, w) \cup m.ok
    BY <1>1, <1>4, <1>7, <1>10 DEF Known, CrawlGot
  <2> QED
    BY <1>1, <1>5, <1>7, <2>1, <2>2, <2>3 DEF Covered, Fresh
<1> QED
  BY <1>2, <1>6, <1>8, <1>9, <1>10 DEF Views

\* What a page stores is in the archive; a hole it leaves is on a later page, or
\* on this one, which is retried, within what is left of the overlap.
LEMMA CrawlAddGaps ==
  ASSUME GapsInv, CrawlPlace, Gaps, CrawlAdd
  PROVE  Gaps'
<1>1. /\ crawl.pc = "add" /\ ~complete
      /\ UNCHANGED <<listed, failed, complete, backlogCursor, progress, refresh>>
  BY DEF CrawlAdd, CrawlPlace, nrk, backlog
<1>2. /\ TypeOK /\ crawl \in CrawlState /\ crawl.cursor \in Nat /\ crawl.next \in Nat
      /\ backlogCursor \in Nat /\ history \in History /\ history.crawl \in Nat
      /\ PageSize \in Nat \ {0}
  BY SizesAssumption DEF GapsInv, TypeOK, CrawlState, History
<1>3. CASE crawl' = IdleCrawl /\ UNCHANGED <<stored, history>>
  BY <1>1, <1>3, CrawlStops
<1>4. CASE /\ stored' = stored \cup crawl.got
           /\ crawl' = IF PageCounts THEN [crawl EXCEPT !.pc = "checkpoint"] ELSE IdleCrawl
           /\ history' = IF UsedUp(crawl, crawl.flaky)
                         THEN [history EXCEPT !.crawl = PageSize] ELSE history
  <2> SUFFICES ASSUME NEW e \in Missing', NEW v \in Views, NEW w \in Views
               PROVE  Covered(v, w, e)'
    BY DEF Gaps
  <2>1. /\ e \in Missing /\ e \notin crawl.got
        /\ Covered("saved", w, e) /\ Covered("memory", w, e)
    BY <1>1, <1>4 DEF Gaps, Missing, Views
  <2>2. Newer(e) \in Nat /\ Newer(e)' = Newer(e)
    BY <1>1, <1>2, PlaceType DEF Newer
  <2>3. /\ history'.refresh = history.refresh /\ history'.crawl \in Nat
        /\ history'.crawl = IF UsedUp(crawl, crawl.flaky) THEN PageSize ELSE history.crawl
    BY <1>2, <1>4 DEF History
  <2>4. (RefreshHas(w, e)' <=> RefreshHas(w, e)) /\ RefreshGot(w)' = RefreshGot(w)
    BY <1>1, <2>3, RefreshKept
  <2>5. crawl'.pc \in {"idle", "checkpoint"} /\ CrawlGot(v)' = {}
    BY <1>2, <1>4 DEF CrawlGot, IdleCrawl, CrawlState
  <2>6. Known(v, w)' = Known("memory", w)
    BY <1>1, <1>4, <2>4, <2>5 DEF Known, CrawlGot
  <2>7. crawl.got = {} => Known(v, w)' = Known("saved", w)
    BY <2>6 DEF Known, CrawlGot
  <2>8. CASE CrawlHas("memory", e)
    <3>1. /\ Newer(e) >= crawl.cursor
          /\ crawl.flaky \/ (crawl.next > 0 /\ Newer(e) >= crawl.next)
      BY <1>1, <2>1, <2>8 DEF CrawlHas, CrawlHolds, PageHas
    <3>2. CASE crawl' = [crawl EXCEPT !.pc = "checkpoint"] /\ v = "memory"
      <4>1. crawl'.pc = "checkpoint" /\ crawl'.next = crawl.next /\ ~crawl.flaky
        BY <1>2, <1>4, <3>2 DEF CrawlState, PageCounts, IdleCrawl
      <4> QED
        BY <2>2, <3>1, <3>2, <4>1 DEF Covered, CrawlHas, CrawlHolds
    <3>3. CASE crawl.got # {} /\ (CrawlHas(v, e)' <=> CrawlSaved(e)')
      <4>1. crawl.flaky /\ crawl.pages = 0 => history'.crawl = PageSize
        BY <2>3, <3>3 DEF UsedUp
      <4>2. CASE crawl.pages = 0
        <5>1. crawl.cursor = backlogCursor /\ crawl.next \in {0, backlogCursor + PageSize}
          BY <1>1, <4>2 DEF CrawlPlace
        <5>2. Newer(e) + history'.crawl >= backlogCursor + PageSize
          BY <1>2, <2>2, <2>3, <3>1, <4>1, <4>2, <5>1
        <5> QED
          BY <1>1, <2>2, <3>3, <5>2 DEF Covered, CrawlSaved
      <4>3. CASE crawl.pages # 0
        <5>1. crawl.cursor = backlogCursor + PageSize
          BY <1>1, <4>3 DEF CrawlPlace
        <5>2. Newer(e) + history'.crawl >= backlogCursor + PageSize
          BY <1>2, <2>2, <2>3, <3>1, <5>1
        <5> QED
          BY <1>1, <2>2, <3>3, <5>2 DEF Covered, CrawlSaved
      <4> QED
        BY <4>2, <4>3
    <3>4. CASE crawl.got = {} /\ (CrawlHas(v, e)' <=> CrawlSaved(e)')
      <4>1. history'.crawl = history.crawl
        BY <2>3, <3>4 DEF UsedUp
      <4>2. CrawlSaved(e)' <=> CrawlSaved(e)
        BY <1>1, <2>2, <4>1 DEF CrawlSaved
      <4> QED
        BY <1>1, <2>1, <2>4, <2>7, <3>4, <4>2 DEF Covered, Fresh, CrawlHas
    <3>5. \/ crawl' = [crawl EXCEPT !.pc = "checkpoint"] /\ v = "memory"
          \/ (CrawlHas(v, e)' <=> CrawlSaved(e)')
      BY <1>4 DEF CrawlHas, CrawlHolds, IdleCrawl, Views
    <3> QED
      BY <3>2, <3>3, <3>4, <3>5
  <2>9. CASE ~CrawlHas("memory", e)
    BY <1>1, <2>1, <2>4, <2>6, <2>9 DEF Covered, Fresh
  <2> QED
    BY <2>8, <2>9
<1> QED
  BY <1>3, <1>4 DEF CrawlAdd

\* The checkpoint is the page just done, of which nothing is left to store.
LEMMA CrawlCheckpointGaps ==
  ASSUME GapsInv, CrawlPlace, Gaps, CrawlCheckpoint
  PROVE  Gaps'
<1> SUFFICES ASSUME NEW e \in Missing', NEW v \in Views, NEW w \in Views
             PROVE  Covered(v, w, e)'
  BY DEF Gaps
<1>1. /\ crawl.pc = "checkpoint" /\ exists /\ crawl.next \in {0, crawl.cursor + PageSize}
      /\ UNCHANGED <<listed, stored, failed, progress, refresh>>
  BY DEF CrawlCheckpoint, CrawlPlace, nrk, rows
<1>2. /\ TypeOK /\ history \in History /\ crawl.cursor \in Nat /\ crawl.next \in Nat
      /\ PageSize \in Nat \ {0}
  BY SizesAssumption DEF GapsInv, TypeOK, CrawlState
<1>3. /\ complete' = (crawl.next = 0) /\ history'.crawl = 0 /\ history'.refresh = history.refresh
      /\ backlogCursor' = IF crawl.next = 0 THEN 0 ELSE crawl.cursor
      /\ crawl' = IF crawl.next = 0 \/ crawl.pages + 1 = CrawlPages THEN IdleCrawl
                  ELSE [IdleCrawl EXCEPT !.pc = "fetch", !.cursor = crawl.next,
                                         !.pages = crawl.pages + 1]
  BY <1>1, <1>2 DEF CrawlCheckpoint, Checkpoint, History
<1>4. crawl'.pc = "idle" \/ (crawl'.pc = "fetch" /\ crawl'.cursor = crawl.next)
  BY <1>3 DEF IdleCrawl
<1>5. Covered("memory", w, e) /\ Newer(e) \in Nat /\ Newer(e)' = Newer(e)
  BY <1>1, <1>2, PlaceType DEF Gaps, Missing, Views, Newer
<1>6. CrawlHas("memory", e) => CrawlHas(v, e)'
  <2> SUFFICES ASSUME CrawlHas("memory", e) PROVE CrawlHas(v, e)'
    OBVIOUS
  <2>1. crawl.next > 0 /\ Newer(e) >= crawl.next /\ crawl.next = crawl.cursor + PageSize
    BY <1>1, <1>2 DEF CrawlHas, CrawlHolds
  <2>2. ~complete' /\ backlogCursor' = crawl.cursor
    <3>1. crawl.next # 0
      BY <2>1
    <3>2. ~complete'
      BY <1>3, <3>1, Zenon
    <3> QED
      BY <1>3, <3>1, <3>2
  <2>3. Newer(e)' + history'.crawl >= backlogCursor' + PageSize
    BY <1>2, <1>3, <1>5, <2>1, <2>2
  <2>4. CrawlSaved(e)'
    BY <2>2, <2>3 DEF CrawlSaved
  <2> QED
    BY <1>4, <1>5, <2>1, <2>4 DEF CrawlHas, CrawlHolds
<1>7. (RefreshHas(w, e)' <=> RefreshHas(w, e)) /\ RefreshGot(w)' = RefreshGot(w)
  BY <1>1, <1>3, RefreshKept
<1>8. Known(v, w)' = Known("memory", w)
  BY <1>1, <1>4, <1>7 DEF Known, CrawlGot
<1> QED
  BY <1>1, <1>5, <1>6, <1>7, <1>8 DEF Covered, Fresh

-----------------------------------------------------------------------------
(* The gaps: the steps of the refresh.                                     *)

\* The crawl of a feed that does not exist has to begin from the front.
LEMMA NotThere ==
  ASSUME CrawlPlace, ~exists, NEW v, NEW e
  PROVE  CrawlHas(v, e)
  BY CrawlFromFront DEF CrawlPlace

\* A refresh that does not walk has what is saved.
LEMMA RefreshWaits ==
  ASSUME UNCHANGED <<listed, progress>>, history'.refresh = history.refresh,
         refresh.pc \notin {"walk", "add", "advance"},
         refresh'.pc \notin {"walk", "add", "advance"}, NEW w, NEW e
  PROVE  /\ RefreshHas(w, e)' <=> RefreshHas(w, e)
         /\ RefreshGot(w) = {} /\ RefreshGot(w)' = {}
  BY DEF RefreshHas, RefreshSaved, RefreshHolds, Bounded, RefreshGot, Newer

\* A refresh that begins skips no hole, and its boundary is known.
LEMMA RefreshBeginGaps ==
  ASSUME RefreshPlace, Gaps, RefreshBegin
  PROVE  Gaps'
<1> SUFFICES ASSUME NEW e \in Missing', NEW v \in Views, NEW w \in Views
             PROVE  Covered(v, w, e)'
  BY DEF Gaps
<1>1. /\ refresh.pc = "idle"
      /\ UNCHANGED <<listed, stored, failed, complete, backlogCursor, progress, crawl, history>>
  BY DEF RefreshBegin, nrk, rows, backlog
<1>2. PICK blocked \in SUBSET failed, metadata \in {FALSE, progress = NoProgress} :
        refresh' = [IdleRefresh EXCEPT
          !.pc = IF metadata THEN "metadata" ELSE "boundary",
          !.cursor = StartCursor, !.previous = StartCursor,
          !.stop = StopIDs, !.skip = stored \cup blocked]
  BY DEF RefreshBegin
<1>3. /\ refresh'.pc \in {"metadata", "boundary"}
      /\ refresh'.stop = StopIDs /\ refresh'.skip = stored \cup blocked
  BY <1>2 DEF IdleRefresh
<1>4. StopIDs \subseteq stored \cup progress.stop
  BY DEF StopIDs, Newest
<1>5. e \notin refresh'.skip /\ Covered(v, w, e)
  BY <1>1, <1>3 DEF Gaps, Missing
<1>6. (CrawlHas(v, e)' <=> CrawlHas(v, e)) /\ CrawlGot(v)' = CrawlGot(v)
  BY <1>1, CrawlKept
<1>7. /\ RefreshHas(w, e)' <=> RefreshHas(w, e)
      /\ RefreshGot(w) = {} /\ RefreshGot(w)' = {}
  BY <1>1, <1>3, RefreshWaits
<1>8. Known(v, w)' \subseteq Known(v, w)
  BY <1>1, <1>3, <1>4, <1>6, <1>7 DEF Known
<1> QED
  BY <1>5, <1>6, <1>7, <1>8 DEF Covered, Fresh

LEMMA RefreshMetadataGaps ==
  ASSUME GapsInv, Gaps, RefreshMetadata
  PROVE  Gaps'
<1>1. /\ refresh.pc = "metadata" /\ refresh \in RefreshState
      /\ UNCHANGED <<listed, stored, failed, complete, backlogCursor, progress, crawl, history>>
  BY DEF RefreshMetadata, nrk, backlog, GapsInv, TypeOK
<1>2. CASE refresh' = [refresh EXCEPT !.pc = "boundary"]
  <2> SUFFICES ASSUME NEW e \in Missing', NEW v \in Views, NEW w \in Views
               PROVE  Covered(v, w, e)'
    BY DEF Gaps
  <2>1. refresh'.pc = "boundary" /\ refresh'.stop = refresh.stop /\ refresh'.skip = refresh.skip
    BY <1>1, <1>2 DEF RefreshState
  <2>2. Covered(v, w, e)
    BY <1>1 DEF Gaps, Missing
  <2>3. (CrawlHas(v, e)' <=> CrawlHas(v, e)) /\ CrawlGot(v)' = CrawlGot(v)
    BY <1>1, CrawlKept
  <2>4. (RefreshHas(w, e)' <=> RefreshHas(w, e)) /\ RefreshGot(w) = RefreshGot(w)'
    BY <1>1, <2>1, RefreshWaits
  <2>5. Known(v, w)' = Known(v, w)
    BY <1>1, <2>1, <2>3, <2>4 DEF Known
  <2> QED
    BY <2>1, <2>2, <2>3, <2>4, <2>5 DEF Covered, Fresh
<1>3. CASE refresh' = IdleRefresh
  BY <1>1, <1>3, RefreshStops
<1> QED
  BY <1>2, <1>3 DEF RefreshMetadata

\* The boundary that is saved is the one already saved, or one of a refresh
\* that starts at the front.
LEMMA SaveBoundaryGaps ==
  ASSUME GapsInv, RefreshPlace, Gaps, SaveBoundary
  PROVE  Gaps'
<1> SUFFICES ASSUME NEW e \in Missing', NEW v \in Views, NEW w \in Views
             PROVE  Covered(v, w, e)'
  BY DEF Gaps
<1>1. /\ refresh.pc = "boundary" /\ refresh.got = {}
      /\ progress # NoProgress =>
           progress.cursor = refresh.cursor /\ progress.stop = refresh.stop
      /\ progress' = [cursor |-> refresh.cursor, stop |-> refresh.stop]
      /\ UNCHANGED <<listed, stored, failed, complete, backlogCursor, crawl, history>>
  BY DEF SaveBoundary, RefreshPlace, nrk, rows, backlog
<1>2. /\ TypeOK /\ refresh \in RefreshState /\ refresh.cursor \in Nat
      /\ progress \in [cursor : Nat \cup {-1}, stop : SUBSET Episodes]
      /\ history.refresh \in Nat /\ history.refresh <= PageSize /\ PageSize \in Nat \ {0}
  BY SizesAssumption DEF GapsInv, TypeOK, Overlaps, RefreshState, History
<1>3. /\ refresh'.pc = "walk" /\ refresh'.cursor = refresh.cursor
      /\ refresh'.stop = refresh.stop /\ refresh'.skip = refresh.skip /\ refresh'.got = {}
  BY <1>1, <1>2 DEF SaveBoundary, RefreshState
<1>4. Covered(v, w, e) /\ Newer(e) \in Nat /\ Newer(e)' = Newer(e)
  BY <1>1, <1>2, PlaceType DEF Gaps, Missing, Newer
<1>5. (CrawlHas(v, e)' <=> CrawlHas(v, e)) /\ CrawlGot(v)' = CrawlGot(v)
  BY <1>1, CrawlKept
<1>6. ASSUME RefreshHas(w, e) PROVE RefreshHas(w, e)'
  <2>1. RefreshSaved(e)
    BY <1>1, <1>6 DEF RefreshHas, RefreshHolds
  <2>2. progress' = progress
    BY <1>1, <1>2, <2>1 DEF RefreshSaved, Bounded
  <2>3. RefreshSaved(e)' /\ Bounded(e)'
    BY <1>1, <1>4, <2>1, <2>2 DEF RefreshSaved, Bounded
  <2>4. progress.cursor = refresh.cursor
    BY <1>1, <2>1 DEF RefreshSaved, Bounded
  <2>5. Newer(e) >= refresh.cursor
    BY <1>2, <1>4, <2>1, <2>4 DEF RefreshSaved
  <2> QED
    BY <1>3, <1>4, <2>3, <2>5 DEF RefreshHas, RefreshHolds
<1>7. Known(v, w)' \subseteq Known(v, w)
  BY <1>1, <1>3, <1>5 DEF Known, RefreshGot
<1> QED
  BY <1>3, <1>4, <1>5, <1>6, <1>7 DEF Covered, Fresh

\* A hole under the boundary, at or behind the page that was read, is one of its
\* new episodes, or where the refresh goes on or resumes.
LEMMA RefreshPageGaps ==
  ASSUME GapsInv, CrawlPlace, RefreshPlace, Gaps, RefreshPage
  PROVE  Gaps'
<1> SUFFICES ASSUME NEW e \in Missing', NEW v \in Views, NEW w \in Views
             PROVE  Covered(v, w, e)'
  BY DEF Gaps
<1> DEFINE page == Page(refresh.cursor)
           last == page \cap refresh.stop # {} \/ ~HasNext(refresh.cursor)
<1>1. /\ refresh.pc = "walk"
      /\ UNCHANGED <<listed, stored, complete, backlogCursor, progress, crawl, history>>
  BY DEF RefreshPage, nrk, backlog
<1>2. /\ TypeOK /\ refresh \in RefreshState /\ refresh.cursor \in Nat
      /\ refresh.previous \in Nat /\ refresh.pages \in Nat /\ PageSize \in Nat \ {0}
  BY SizesAssumption DEF GapsInv, TypeOK, RefreshState
<1>3. PICK m \in Manifests(page \ refresh.skip) :
        /\ failed' = failed \cup m.gone
        /\ refresh'.got = refresh.got \cup m.ok
        /\ refresh'.stop = refresh.stop /\ refresh'.skip = refresh.skip
        /\ \/ /\ m.flaky # {} /\ refresh'.pc = "add"
              /\ refresh'.sawAll = refresh.sawAll /\ refresh'.pages = refresh.pages
              /\ refresh'.previous = refresh.previous
           \/ /\ m.flaky = {} /\ refresh'.pc = "add"
              /\ refresh'.sawAll = last /\ refresh'.pages = refresh.pages
              /\ refresh'.previous = refresh.cursor
           \/ /\ m.flaky = {} /\ ~last /\ refresh'.pc = "walk"
              /\ refresh'.sawAll = refresh.sawAll /\ refresh'.pages = refresh.pages + 1
              /\ refresh'.previous = refresh.cursor
              /\ refresh'.cursor = refresh.cursor + PageSize
  BY <1>2, RefreshPageParts
<1>4. /\ e \in listed /\ e \in Missing /\ e \notin m.gone
      /\ Covered(v, "saved", e) /\ Covered(v, "memory", e)
  BY <1>1, <1>3 DEF Gaps, Missing, Views
<1>5. Newer(e) \in Nat /\ Newer(e)' = Newer(e)
  BY <1>1, <1>2, PlaceType DEF Newer
<1>6. (CrawlHas(v, e)' <=> CrawlHas(v, e)) /\ CrawlGot(v)' = CrawlGot(v)
  BY <1>1, CrawlKept
<1>7. CASE w = "saved"
  <2>1. (RefreshHas(w, e)' <=> RefreshHas(w, e)) /\ Known(v, w)' = Known(v, w)
    BY <1>1, <1>3, <1>5, <1>6, <1>7
    DEF RefreshHas, RefreshSaved, Bounded, Known, RefreshGot
  <2> QED
    BY <1>3, <1>4, <1>6, <1>7, <2>1 DEF Covered, Fresh
<1>8. CASE CrawlHas(v, e)
  BY <1>6, <1>8 DEF Covered
<1>9. CASE w = "memory" /\ ~CrawlHas(v, e)
  <2>1. /\ e \notin refresh.skip /\ e \notin refresh'.skip
        /\ Fresh(v, w, e) \/ RefreshHolds(e)
    BY <1>3, <1>4, <1>9 DEF Covered, RefreshHas
  <2>2. exists
    BY <1>9, NotThere
  <2>3. /\ progress # NoProgress /\ progress.stop = refresh.stop /\ ~refresh.sawAll
        /\ refresh.cursor = IF refresh.pages = 0 THEN refresh.previous
                            ELSE refresh.previous + PageSize
    BY <1>1, <2>2 DEF RefreshPlace
  <2>4. refresh'.pc \in {"walk", "add"}
    BY <1>3
  <2>5. CASE Bounded(e) /\ Newer(e) >= refresh.cursor
    <3>1. Bounded(e)'
      BY <1>1, <2>5 DEF Bounded
    <3>2. Newer(e) < refresh.cursor + PageSize =>
            e \in refresh'.got \/ m.flaky # {}
      BY <1>2, <1>3, <1>4, <2>1, <2>5, AroundPage, ManifestParts
    <3>3. last => Newer(e) < refresh.cursor + PageSize
      BY <1>2, <1>4, <2>3, <2>5, AroundPage DEF Bounded
    <3> HIDE DEF last
    <3>4. CASE m.flaky # {}
      <4>1. refresh'.pc = "add" /\ Resumed(e)'
        BY <1>2, <1>3, <1>5, <2>3, <2>5, <3>4 DEF Resumed
      <4> QED
        BY <1>9, <2>1, <3>1, <4>1 DEF Covered, RefreshHas, RefreshHolds
    <3>5. CASE m.flaky = {} /\ Newer(e) < refresh.cursor + PageSize
      BY <1>9, <2>1, <2>4, <3>1, <3>2, <3>5 DEF Covered, RefreshHas, RefreshHolds
    <3>6. CASE m.flaky = {} /\ Newer(e) >= refresh.cursor + PageSize
      <4>1. ~last
        BY <1>2, <1>5, <3>3, <3>6
      <4>2. CASE refresh'.pc = "walk"
        BY <1>3, <1>5, <1>9, <2>1, <3>1, <3>6, <4>2 DEF Covered, RefreshHas, RefreshHolds
      <4>3. CASE refresh'.pc = "add"
        <5>1. ~refresh'.sawAll /\ refresh'.previous = refresh.cursor
          BY <1>3, <3>6, <4>1, <4>3
        <5>2. Resumed(e)'
          BY <1>2, <1>5, <2>5, <3>6, <5>1 DEF Resumed
        <5> QED
          BY <1>9, <2>1, <3>1, <4>3, <5>2 DEF Covered, RefreshHas, RefreshHolds
      <4> QED
        BY <2>4, <4>2, <4>3
    <3> QED
      BY <1>2, <1>5, <3>4, <3>5, <3>6
  <2>6. CASE e \in refresh.got /\ Bounded(e)
    <3>1. Bounded(e)' /\ e \in refresh'.got
      BY <1>1, <1>3, <2>6 DEF Bounded
    <3> QED
      BY <1>9, <2>1, <2>4, <3>1 DEF Covered, RefreshHas, RefreshHolds
  <2>7. CASE Fresh(v, w, e) /\ Newer(e) < refresh.cursor
    <3>1. \A s \in m.ok : s < e
      BY <1>2, <1>4, <2>7, AroundPage, ManifestParts
    <3>2. Known(v, w)' = Known(v, w) \cup m.ok
      BY <1>1, <1>3, <1>6, <1>9, <2>4 DEF Known, RefreshGot
    <3> QED
      BY <2>1, <2>7, <3>1, <3>2 DEF Covered, Fresh
  <2>8. Fresh(v, w, e) => Bounded(e)
    BY <2>3 DEF Fresh, Known, Bounded
  <2>9. RefreshHolds(e) => Bounded(e) /\ (e \in refresh.got \/ Newer(e) >= refresh.cursor)
    BY <1>1 DEF RefreshHolds
  <2> QED
    BY <1>2, <1>5, <2>1, <2>5, <2>6, <2>7, <2>8, <2>9
<1> QED
  BY <1>7, <1>8, <1>9 DEF Views

LEMMA RefreshPageFailsGaps ==
  ASSUME GapsInv, CrawlPlace, RefreshPlace, Gaps, RefreshPageFails
  PROVE  Gaps'
<1>1. /\ refresh.pc = "walk" /\ refresh \in RefreshState
      /\ UNCHANGED <<listed, stored, failed, complete, backlogCursor, progress, crawl, history>>
  BY DEF RefreshPageFails, nrk, rows, backlog, GapsInv, TypeOK
<1>2. CASE refresh' = IdleRefresh
  BY <1>1, <1>2, RefreshStops
<1>3. CASE refresh.pages # 0 /\ refresh' = [refresh EXCEPT !.pc = "add"]
  <2> SUFFICES ASSUME NEW e \in Missing', NEW v \in Views, NEW w \in Views
               PROVE  Covered(v, w, e)'
    BY DEF Gaps
  <2>1. /\ refresh'.pc = "add" /\ refresh'.got = refresh.got /\ refresh'.stop = refresh.stop
        /\ refresh'.skip = refresh.skip /\ refresh'.sawAll = refresh.sawAll
        /\ refresh'.pages = refresh.pages /\ refresh'.previous = refresh.previous
    BY <1>1, <1>3 DEF RefreshState
  <2>2. ~refresh.sawAll /\ refresh.cursor = refresh.previous + PageSize
    BY <1>1, <1>3 DEF RefreshPlace
  <2>3. Covered(v, w, e) /\ Newer(e)' = Newer(e)
    BY <1>1 DEF Gaps, Missing, Newer
  <2>4. (CrawlHas(v, e)' <=> CrawlHas(v, e)) /\ CrawlGot(v)' = CrawlGot(v)
    BY <1>1, CrawlKept
  <2>5. RefreshHas(w, e) => RefreshHas(w, e)'
    BY <1>1, <1>3, <2>1, <2>2, <2>3
    DEF RefreshHas, RefreshSaved, RefreshHolds, Resumed, Bounded
  <2>6. Known(v, w)' = Known(v, w)
    BY <1>1, <2>1, <2>4 DEF Known, RefreshGot
  <2> QED
    BY <2>1, <2>3, <2>4, <2>5, <2>6 DEF Covered, Fresh
<1> QED
  BY <1>2, <1>3 DEF RefreshPageFails

\* What a batch stores is in the archive; a hole it leaves is behind the page
\* it resumes from, or on the first one, within what is left of the overlap.
LEMMA RefreshAddGaps ==
  ASSUME GapsInv, CrawlPlace, RefreshPlace, Gaps, RefreshAdd
  PROVE  Gaps'
<1>1. /\ refresh.pc = "add"
      /\ UNCHANGED <<listed, failed, complete, backlogCursor, progress, crawl>>
  BY DEF RefreshAdd, nrk, backlog
<1>2. /\ TypeOK /\ refresh \in RefreshState /\ refresh.previous \in Nat /\ refresh.pages \in Nat
      /\ progress.cursor \in Nat \cup {-1} /\ history \in History /\ history.refresh \in Nat
      /\ PageSize \in Nat \ {0}
  BY SizesAssumption DEF GapsInv, TypeOK, RefreshState, History
<1>3. CASE refresh' = IdleRefresh /\ UNCHANGED <<stored, history>>
  BY <1>1, <1>3, RefreshStops
<1>4. CASE /\ stored' = stored \cup refresh.got
           /\ refresh' = [refresh EXCEPT !.pc = "advance"]
           /\ history' = IF UsedUp(refresh, ~refresh.sawAll)
                         THEN [history EXCEPT !.refresh = PageSize] ELSE history
  <2> SUFFICES ASSUME NEW e \in Missing', NEW v \in Views, NEW w \in Views
               PROVE  Covered(v, w, e)'
    BY DEF Gaps
  <2>1. /\ e \in Missing /\ e \notin refresh.got
        /\ Covered(v, "saved", e) /\ Covered(v, "memory", e)
    BY <1>1, <1>4 DEF Gaps, Missing, Views
  <2>2. Newer(e) \in Nat /\ Newer(e)' = Newer(e)
    BY <1>1, <1>2, PlaceType DEF Newer
  <2>3. /\ history'.crawl = history.crawl /\ history'.refresh \in Nat
        /\ history'.refresh = IF UsedUp(refresh, ~refresh.sawAll)
                              THEN PageSize ELSE history.refresh
    BY <1>2, <1>4 DEF History
  <2>4. (CrawlHas(v, e)' <=> CrawlHas(v, e)) /\ CrawlGot(v)' = CrawlGot(v)
    BY <1>1, <2>3, CrawlKept
  <2>5. /\ refresh'.pc = "advance" /\ refresh'.stop = refresh.stop /\ refresh'.skip = refresh.skip
        /\ refresh'.sawAll = refresh.sawAll /\ refresh'.pages = refresh.pages
        /\ refresh'.previous = refresh.previous
    BY <1>2, <1>4 DEF RefreshState
  <2>6. Known(v, w)' = Known(v, "memory")
    BY <1>1, <1>4, <2>4, <2>5 DEF Known, RefreshGot
  <2>7. refresh.got = {} => Known(v, w)' = Known(v, "saved")
    BY <2>6 DEF Known, RefreshGot
  <2>8. CASE CrawlHas(v, e)
    BY <2>4, <2>8 DEF Covered
  <2>9. CASE ~CrawlHas(v, e) /\ ~RefreshHas("memory", e)
    BY <2>1, <2>5, <2>6, <2>9 DEF Covered, Fresh
  <2>10. CASE ~CrawlHas(v, e) /\ RefreshHas("memory", e)
    <3>1. e \notin refresh'.skip /\ Bounded(e)' /\ Bounded(e) /\ Resumed(e) /\ Resumed(e)'
      BY <1>1, <2>1, <2>2, <2>5, <2>10 DEF Covered, RefreshHas, RefreshHolds, Bounded, Resumed
    <3>2. /\ progress.cursor <= refresh.previous
          /\ refresh.pages = 0 => refresh.previous = progress.cursor
      BY <1>1, <2>10, NotThere DEF RefreshPlace
    <3>3. CASE w = "memory"
      BY <2>5, <3>1, <3>3 DEF Covered, RefreshHas, RefreshHolds
    <3>4. CASE w = "saved" /\ refresh.got = {}
      <4>1. history'.refresh = history.refresh
        BY <2>3, <3>4 DEF UsedUp
      <4>2. RefreshSaved(e)' <=> RefreshSaved(e)
        BY <1>1, <2>2, <4>1 DEF RefreshSaved, Bounded
      <4> QED
        BY <2>1, <2>5, <2>7, <2>10, <3>4, <4>2 DEF Covered, Fresh, RefreshHas
    <3>5. CASE w = "saved" /\ refresh.got # {}
      <4>1. ~refresh.sawAll
        BY <3>1 DEF Resumed
      <4>2. CASE refresh.pages = 0
        <5>1. history'.refresh = PageSize
          BY <2>3, <3>5, <4>1, <4>2 DEF UsedUp
        <5>2. Newer(e) >= progress.cursor
          BY <3>1, <3>2, <4>2 DEF Resumed
        <5>3. Newer(e) + history'.refresh >= progress.cursor + PageSize
          BY <1>2, <2>2, <5>1, <5>2
        <5> QED
          BY <1>1, <2>2, <3>1, <3>5, <5>3 DEF Covered, RefreshHas, RefreshSaved
      <4>3. CASE refresh.pages # 0
        <5>1. Newer(e) >= refresh.previous + PageSize
          BY <3>1, <4>3 DEF Resumed
        <5>2. Newer(e) + history'.refresh >= progress.cursor + PageSize
          BY <1>2, <2>2, <2>3, <3>2, <5>1
        <5> QED
          BY <1>1, <2>2, <3>1, <3>5, <5>2 DEF Covered, RefreshHas, RefreshSaved
      <4> QED
        BY <4>2, <4>3
    <3> QED
      BY <3>3, <3>4, <3>5 DEF Views
  <2> QED
    BY <2>8, <2>9, <2>10
<1> QED
  BY <1>3, <1>4 DEF RefreshAdd

\* The checkpoint of a batch is the page before what it left; when it has not
\* moved, nothing of its overlap comes back.
LEMMA RefreshAdvanceGaps ==
  ASSUME GapsInv, CrawlPlace, RefreshPlace, Gaps, RefreshAdvance
  PROVE  Gaps'
<1> SUFFICES ASSUME NEW e \in Missing', NEW v \in Views, NEW w \in Views
             PROVE  Covered(v, w, e)'
  BY DEF Gaps
<1>1. /\ refresh.pc = "advance" /\ refresh' = IdleRefresh
      /\ UNCHANGED <<listed, stored, failed, complete, backlogCursor, crawl>>
      /\ progress' = IF refresh.sawAll THEN NoProgress
                     ELSE [cursor |-> refresh.previous, stop |-> refresh.stop]
      /\ history' = IF progress'.cursor = progress.cursor THEN history
                    ELSE [history EXCEPT !.refresh = 0]
  BY DEF RefreshAdvance, ResumeHref, nrk, rows, backlog
<1>2. /\ TypeOK /\ refresh \in RefreshState /\ refresh.previous \in Nat /\ refresh.pages \in Nat
      /\ progress.cursor \in Nat \cup {-1} /\ history \in History /\ history.refresh \in Nat
      /\ PageSize \in Nat \ {0}
  BY SizesAssumption DEF GapsInv, TypeOK, RefreshState, History
<1>3. /\ history'.crawl = history.crawl /\ history'.refresh \in Nat
      /\ progress'.cursor = progress.cursor => history' = history
  BY <1>1, <1>2 DEF History
<1>4. /\ Covered(v, "saved", e) /\ Covered(v, "memory", e)
      /\ Newer(e) \in Nat /\ Newer(e)' = Newer(e)
  BY <1>1, <1>2, PlaceType DEF Gaps, Missing, Newer, Views
<1>5. (CrawlHas(v, e)' <=> CrawlHas(v, e)) /\ CrawlGot(v)' = CrawlGot(v)
  BY <1>1, <1>3, CrawlKept
<1>6. refresh'.skip = {} /\ refresh'.stop = {} /\ refresh'.pc = "idle"
  BY <1>1 DEF IdleRefresh
<1>7. progress'.stop \subseteq refresh.stop
  BY <1>1 DEF NoProgress
<1>8. Known(v, w)' \subseteq Known(v, "saved") /\ Known(v, "saved") \subseteq Known(v, "memory")
  BY <1>1, <1>5, <1>6, <1>7 DEF Known, RefreshGot
<1>9. CASE CrawlHas(v, e)
  BY <1>5, <1>9 DEF Covered
<1>10. CASE Fresh(v, "saved", e) \/ Fresh(v, "memory", e)
  BY <1>6, <1>8, <1>10 DEF Covered, Fresh
<1>11. CASE ~CrawlHas(v, e) /\ RefreshHas("saved", e) /\ RefreshHas("memory", e)
  <2>1. Bounded(e) /\ Resumed(e) /\ RefreshSaved(e)
    BY <1>1, <1>11 DEF RefreshHas, RefreshHolds
  <2>2. /\ progress.stop = refresh.stop
        /\ refresh.pages = 0 => refresh.previous = progress.cursor
    BY <1>1, <1>11, NotThere DEF RefreshPlace
  <2>3. progress'.cursor = refresh.previous /\ progress'.stop = refresh.stop
    BY <1>1, <2>1 DEF Resumed
  <2>4. Bounded(e)'
    BY <1>2, <2>1, <2>2, <2>3 DEF Bounded, NoProgress
  <2>5. RefreshSaved(e)'
    <3>1. CASE refresh.pages = 0
      <4>1. progress'.cursor = progress.cursor /\ history' = history
        BY <1>3, <2>2, <2>3, <3>1
      <4> QED
        BY <1>4, <2>1, <2>4, <4>1 DEF RefreshSaved
    <3>2. CASE refresh.pages # 0
      <4>1. Newer(e) >= refresh.previous + PageSize
        BY <2>1, <3>2 DEF Resumed
      <4>2. Newer(e) + history'.refresh >= progress'.cursor + PageSize
        BY <1>2, <1>3, <1>4, <2>3, <4>1
      <4> QED
        BY <1>4, <2>4, <4>2 DEF RefreshSaved
    <3> QED
      BY <3>1, <3>2
  <2> QED
    BY <1>6, <2>5 DEF Covered, RefreshHas, RefreshHolds
<1> QED
  BY <1>4, <1>9, <1>10, <1>11 DEF Covered

-----------------------------------------------------------------------------
(* The invariant and the theorem.                                          *)

LEMMA GapsStep ==
  ASSUME GapsInv, [Next]_vars, TypeOK', ~history'.torn
  PROVE  CrawlPlace' /\ RefreshPlace' /\ Gaps'
<1>1. /\ TypeOK /\ CrawlPlace /\ RefreshPlace /\ Gaps /\ ~RefreshGone
      /\ Recrawl \/ DeleteSeries => crawl.pc = "idle"
      /\ (\E e \in listed : Withdraw(e)) => WithinOverlap
  BY TornStays DEF GapsInv
<1>2. CrawlPlace' /\ RefreshPlace'
  BY <1>1, CrawlPlaceStep, RefreshPlaceStep
<1> SUFFICES Gaps'
  BY <1>2
<1> USE DEF nrk, rows, backlog
<1>3. CASE Publish
  BY <1>1, <1>3, PublishGaps
<1>4. ASSUME NEW x \in listed, Withdraw(x) PROVE Gaps'
  BY <1>1, <1>4, WithdrawGaps
<1>5. CASE InitialFetch \/ WriteSeries \/ Recrawl \/ DeleteSeries
  <2>1. crawl'.pc = "idle" /\ ~complete' /\ backlogCursor' = 0
    BY <1>1, <1>5
    DEF InitialFetch, WriteSeries, Recrawl, DeleteSeries, CrawlPlace, RefreshPlace
  <2> QED
    BY <2>1, GapsFromFront
<1>6. CASE FullFetch \/ FullFetchFails
  BY <1>1, <1>6 DEF FullFetch, FullFetchFails, RefreshPlace
<1>7. CASE RefreshBegin
  BY <1>1, <1>7, RefreshBeginGaps
<1>8. CASE RefreshMetadata
  BY <1>1, <1>8, RefreshMetadataGaps
<1>9. CASE SaveBoundary
  BY <1>1, <1>9, SaveBoundaryGaps
<1>10. CASE RefreshPage
  BY <1>1, <1>10, RefreshPageGaps
<1>11. CASE RefreshPageFails
  BY <1>1, <1>11, RefreshPageFailsGaps
<1>12. CASE RefreshAdd
  BY <1>1, <1>12, RefreshAddGaps
<1>13. CASE RefreshAdvance
  BY <1>1, <1>13, RefreshAdvanceGaps
<1>14. CASE CrawlBegin
  BY <1>1, <1>14, CrawlBeginGaps
<1>15. CASE CrawlPage
  BY <1>1, <1>15, CrawlPageGaps
<1>16. CASE CrawlPageFails
  <2>1. /\ UNCHANGED <<listed, stored, failed, complete, backlogCursor, progress, refresh, history>>
        /\ crawl' = IdleCrawl
    BY <1>16 DEF CrawlPageFails
  <2> QED
    BY <1>1, <2>1, CrawlStops
<1>17. CASE CrawlAdd
  BY <1>1, <1>17, CrawlAddGaps
<1>18. CASE CrawlCheckpoint
  BY <1>1, <1>18, CrawlCheckpointGaps
<1>19. CASE Restart
  BY <1>1, <1>19, RestartGaps
<1>20. CASE UNCHANGED vars
  <2>1. /\ UNCHANGED <<listed, complete, backlogCursor, progress, crawl, refresh, history>>
        /\ UNCHANGED <<stored, failed>>
    BY <1>20 DEF vars
  <2> QED
    BY <1>1, <2>1, GapsKept
<1> QED
  BY <1>1, <1>3, <1>4, <1>5, <1>6, <1>7, <1>8, <1>9, <1>10, <1>11, <1>12, <1>13, <1>14, <1>15,
     <1>16, <1>17, <1>18, <1>19, <1>20
  DEF Next, Refreshing, Crawling, Trouble

\* A feed that is not there has nothing, and its crawl will begin from the front.
LEMMA GapsInit == Init => GapsInv
<1> SUFFICES ASSUME Init PROVE GapsInv
  OBVIOUS
<1>1. TypeOK
  BY TypeInit
<1>2. Past
  BY DEF Init, Past, NoProgress, IdleRefresh, IdleCrawl
<1>3. Overlaps
  BY SizesAssumption DEF Init, Overlaps
<1>4. CrawlPlace /\ RefreshPlace
  BY DEF Init, CrawlPlace, RefreshPlace, IdleCrawl, IdleRefresh
<1>5. Gaps
  BY CrawlFromFront DEF Init, IdleCrawl, Gaps, Covered
<1> QED
  BY <1>1, <1>2, <1>3, <1>4, <1>5 DEF GapsInv

\* For every listing, page size, cap and budget: while NRK does not drop a
\* listing, no admin acts during a crawl and nothing is withdrawn that the
\* overlap of a resume does not cover, no interleaving of refresh, crawl,
\* publishing, withdrawals, failures, crashes and restarts leaves a hole in the
\* archive behind every saved checkpoint.
THEOREM GapsStayAhead == Spec => []GapsAreAhead
<1>1. GapsInv /\ [Next]_vars => GapsInv'
  <2> SUFFICES ASSUME GapsInv, [Next]_vars PROVE GapsInv'
    OBVIOUS
  <2>1. TypeOK /\ Past /\ Overlaps
    BY DEF GapsInv
  <2>2. TypeOK' /\ Past' /\ Overlaps'
    BY <2>1, TypeStep, PastStep, OverlapsStep
  <2>3. ~history'.torn => CrawlPlace' /\ RefreshPlace' /\ Gaps'
    BY <2>2, GapsStep
  <2> QED
    BY <2>2, <2>3 DEF GapsInv
<1> QED
  BY <1>1, GapsInit, GapsInvAhead, PTL DEF Spec

\* Only a vanished listing, an admin during a crawl and a withdrawal past the
\* overlap tear an archive.
LEMMA UntornStep ==
  ASSUME ~ListingMayVanish, ~AdminRacesCrawl, ~WithdrawsPastOverlap, TypeOK, ~history.torn, [Next]_vars
  PROVE  ~history'.torn
<1>1. history \in History
  BY DEF TypeOK
<1>2. ~RefreshGone
  BY DEF RefreshGone
<1>3. CASE Recrawl \/ DeleteSeries
  <2>1. crawl.pc = "idle" /\ TornBy(FALSE)
    BY <1>3 DEF Recrawl, DeleteSeries, TornBy
  <2> QED
    BY <1>1, <2>1 DEF TornBy, History
<1>4. ASSUME NEW e \in listed, Withdraw(e) PROVE history'.torn = history.torn
  <2>1. WithinOverlap
    BY <1>4 DEF Withdraw
  <2> QED
    BY <1>1, <1>4, <2>1, WithdrawHistory
<1>5. CASE RefreshAdd \/ CrawlAdd \/ RefreshAdvance \/ CrawlCheckpoint
  BY <1>1, <1>5 DEF RefreshAdd, CrawlAdd, RefreshAdvance, CrawlCheckpoint, History
<1>6. \/ UNCHANGED history \/ RefreshAdd \/ CrawlAdd \/ RefreshAdvance \/ CrawlCheckpoint
      \/ Recrawl \/ DeleteSeries \/ \E e \in listed : Withdraw(e)
  BY <1>2
  DEF Next, Refreshing, Crawling, Trouble, vars, Publish, InitialFetch, FullFetch, FullFetchFails,
      WriteSeries, RefreshBegin, RefreshMetadata, SaveBoundary, RefreshPage, RefreshPageFails,
      CrawlBegin, CrawlPage, CrawlPageFails, Restart
<1> QED
  BY <1>3, <1>4, <1>5, <1>6

\* models.go: backlog_complete "is true once the full archive has been crawled".
\* It holds where NRK never drops a listing, no admin acts during a crawl and
\* every withdrawal is one that the overlap of a resume covers. Each of the three
\* is needed: without it a feed can be marked complete with a hole in it.
THEOREM CompleteUnlessTorn ==
  ASSUME ~ListingMayVanish, ~AdminRacesCrawl, ~WithdrawsPastOverlap
  PROVE  Spec => []CompleteMeansCrawled
<1> DEFINE Untorn == TypeOK /\ ~history.torn
<1>1. Init => Untorn
  BY TypeInit DEF Init
<1>2. Untorn /\ [Next]_vars => Untorn'
  BY TypeStep, UntornStep
<1>3. Untorn /\ GapsAreAhead => CompleteMeansCrawled
  BY DEF GapsAreAhead, Ahead, CompleteMeansCrawled
<1> HIDE DEF Untorn
<1> QED
  BY <1>1, <1>2, <1>3, GapsStayAhead, PTL DEF Spec
=============================================================================
