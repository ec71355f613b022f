-------------------------- MODULE VideoRounds_proofs --------------------------
(***************************************************************************)
(* Proofs about the video worker, for all feeds, archives, page sizes and   *)
(* clips, any number of goroutines in a round, and any number of failures,  *)
(* deletions, withdrawals and restarts.                                     *)
(***************************************************************************)
EXTENDS VideoRounds, FiniteSetTheorems, SequenceTheorems, TLAPS

-----------------------------------------------------------------------------
(* The inductive invariant, by the state it is about.                      *)

\* A stored row's reference and video are its own episode's.
RowsInv ==
  /\ rows \in [Feeds -> [EpisodeIds -> Row]]
  /\ \A f \in Feeds, e \in EpisodeIds :
       rows[f][e].clip # NoClip => rows[f][e].clip[1] = e
  /\ VideoOfTheEpisode

\* So are the candidates of a round and what its goroutines found of them.
Candidate == {w \in [episode : EpisodeIds, clip : Clips] : w.clip[1] = w.episode}
Check ==
  [pc : {"none", "reuse", "lookup", "set"}, episode : EpisodeIds \cup {0},
   clip : Clips \cup {NoClip}, url : Clips \cup {NoClip}]
OwnCheck(k) ==
  /\ k \in Check
  /\ k.pc # "none" => [episode |-> k.episode, clip |-> k.clip] \in Candidate
  /\ k.url # NoClip => k.url[1] = k.episode /\ k.url \notin Trailers
Progress == [cursor : 0 .. Episodes - 1, done : BOOLEAN]
OwnClips == {g \in [EpisodeIds -> Clips \cup {NoClip}] :
               \A e \in EpisodeIds : g[e] # NoClip => g[e][1] = e}
RoundType ==
  [pc : {"none", "read", "check", "list", "set", "advance"},
   feed : Feeds \cup {"none"}, work : SUBSET Candidate, page : 0 .. Episodes - 1,
   found : OwnClips, next : Progress, missed : SUBSET EpisodeIds]
RoundInv ==
  /\ round \in RoundType
  /\ round.pc # "none" => round.feed \in Feeds
  /\ checks \in [Checkers -> Check]
  /\ \A c \in Checkers : /\ OwnCheck(checks[c])
                         /\ checks[c].pc # "none" => round.pc = "check"

\* The queued set is what is in the queue, once.
QueueInv ==
  /\ queue \in Seq(Feeds) /\ queued \subseteq Feeds /\ asked \subseteq Feeds
  /\ \A i, j \in 1 .. Len(queue) : queue[i] = queue[j] => i = j
  /\ \A f \in Feeds : f \in queued <=> \E i \in 1 .. Len(queue) : queue[i] = f
  /\ NoRequestIsLost

\* The types of the rest.
RestInv ==
  /\ top \in 0 .. Episodes /\ listed \subseteq 1 .. top
  /\ refs \in [EpisodeIds -> 1 .. Versions]
  /\ complete \in [Feeds -> BOOLEAN] /\ pausedBackfill \in [Feeds -> BOOLEAN]
  /\ progress \in [Feeds -> Progress]
  /\ deferred \subseteq Clips /\ attempts \in [Clips -> 0 .. LongAfter]
  /\ outlasts \in [Clips -> SUBSET Feeds]
  /\ missed \in [Feeds -> SUBSET EpisodeIds]
  /\ trouble \in 0 .. MaxTrouble

\* A listed row that lacks a reference is ahead of the walk or is known to be
\* missed. The same holds of where a round is about to move the cursor, but for
\* what it has found and not yet recorded. No row is of an episode to come.
Lacking(f) == listed \cap Unrecorded(f)
Passed(e, p) == p.done \/ Newer(e) < p.cursor * PageSize
SavedWalk == \A f \in Feeds : \A e \in Lacking(f) : Passed(e, progress[f]) => e \in missed[f]
Expected(e) == Passed(e, round.next) => e \in missed[round.feed] \cup round.missed \/ Found(e)
WalkInv ==
  /\ SavedWalk
  /\ round.pc = "list" => round.page = progress[round.feed].cursor
  /\ round.pc \in {"set", "advance"} => \A e \in Lacking(round.feed) : Expected(e)
  /\ round.pc = "advance" => round.found = NothingFound
  /\ \A f \in Feeds, e \in EpisodeIds : rows[f][e].stored => e <= top

IInv == RowsInv /\ RoundInv /\ QueueInv /\ RestInv /\ WalkInv

-----------------------------------------------------------------------------
(* Clips and pages.                                                        *)

\* The reference NRK has of an episode is a clip of that episode.
LEMMA ClipOfType ==
  ASSUME RestInv, NEW e \in EpisodeIds
  PROVE  ClipOf(e) \in Clips /\ ClipOf(e)[1] = e /\ ClipOf(e) # NoClip
  BY RoundsAssumption DEF RestInv, ClipOf, Clips, EpisodeIds, NoClip

\* The mark of no clip is no clip.
LEMMA NoClipIsNone == NoClip \notin Clips
  BY RoundsAssumption DEF NoClip, Clips, EpisodeIds

\* The episodes in front of a place are finitely many.
LEMMA ListingFinite ==
  ASSUME RestInv
  PROVE  /\ IsFiniteSet(listed) /\ Cardinality(listed) \in 0 .. Episodes
         /\ \A S \in SUBSET listed : /\ IsFiniteSet(S) /\ Cardinality(S) \in Nat
                                     /\ Cardinality(S) <= Cardinality(listed)
                                     /\ Cardinality(S) = Cardinality(listed) => S = listed
<1>1. IsFiniteSet(EpisodeIds) /\ Cardinality(EpisodeIds) = Episodes
  BY FS_Interval, RoundsAssumption DEF EpisodeIds
<1>2. listed \subseteq EpisodeIds
  BY RoundsAssumption DEF RestInv, EpisodeIds
<1>3. /\ IsFiniteSet(listed) /\ Cardinality(listed) \in Nat
      /\ Cardinality(listed) <= Cardinality(EpisodeIds)
  BY <1>1, <1>2, FS_Subset, FS_CardinalityType
<1>4. Cardinality(listed) \in 0 .. Episodes
  BY <1>1, <1>3, RoundsAssumption
<1> QED
  BY <1>3, <1>4, FS_Subset, FS_CardinalityType

\* A place is a number, below the length of the listing.
LEMMA PlaceInListing ==
  ASSUME RestInv, NEW e \in listed
  PROVE  Newer(e) \in Nat /\ Newer(e) < Cardinality(listed)
<1> DEFINE front == {x \in listed : x > e}
<1>1. e \notin front
  BY DEF RestInv
<1>2. front \in SUBSET listed /\ front # listed
  BY <1>1
<1>3. Newer(e) = Cardinality(front)
  BY DEF Newer
<1> HIDE DEF front
<1> QED
  BY <1>2, <1>3, ListingFinite

\* Publishing moves nothing towards the front; a withdrawal moves what is older
\* by one place and nothing else.
LEMMA PublishMoves ==
  ASSUME RestInv, RestInv', NEW e \in listed, listed' = listed \cup {top + 1}
  PROVE  Newer(e)' >= Newer(e) /\ Newer(e) \in Nat /\ Newer(e)' \in Nat
<1>1. {x \in listed : x > e} \subseteq {x \in listed' : x > e}
  OBVIOUS
<1>2. IsFiniteSet({x \in listed' : x > e})
  <2>1. IsFiniteSet(1 .. Episodes)
    BY FS_Interval, RoundsAssumption
  <2>2. listed' \subseteq 1 .. top' /\ top' \in 0 .. Episodes
    BY DEF RestInv
  <2>3. {x \in listed' : x > e} \subseteq 1 .. Episodes
    BY <2>2, RoundsAssumption
  <2> QED
    BY <2>1, <2>3, FS_Subset
<1> QED
  BY <1>1, <1>2, FS_Subset, FS_CardinalityType DEF Newer

LEMMA WithdrawMoves ==
  ASSUME RestInv, NEW w \in listed, NEW e \in listed, listed' = listed \ {w}
  PROVE  Newer(e)' = IF e < w THEN Newer(e) - 1 ELSE Newer(e)
<1> DEFINE before == {x \in listed : x > e}
<1>1. {x \in listed' : x > e} = before \ {w}
  OBVIOUS
<1>2. before \in SUBSET listed /\ IsFiniteSet(before)
  BY ListingFinite
<1>3. w \in before <=> e < w
  BY DEF RestInv
<1>4. Newer(e) = Cardinality(before) /\ Newer(e)' = Cardinality(before \ {w})
  BY <1>1 DEF Newer
<1> HIDE DEF before
<1>5. CASE w \in before
  BY <1>2, <1>3, <1>4, <1>5, FS_RemoveElement
<1>6. CASE w \notin before
  <2>1. before \ {w} = before
    BY <1>6
  <2> QED
    BY <1>3, <1>4, <1>6, <2>1
<1> QED
  BY <1>5, <1>6

\* What a page holds lies before the start of the next.
LEMMA PageBounds ==
  ASSUME NEW k \in Nat, NEW e \in Page(k)
  PROVE  e \in listed /\ Newer(e) < (k + 1) * PageSize
  BY DEF Page

\* An episode before the start of the next page is on this one or before its
\* start; so is all of the listing, if this page is the last.
LEMMA OnPageOrBefore ==
  ASSUME RestInv, NEW k \in Nat, NEW e \in listed, IsLast(k) \/ Newer(e) < (k + 1) * PageSize
  PROVE  e \in Page(k) \/ Newer(e) < k * PageSize
<1>1. k * PageSize \in Nat /\ (k + 1) * PageSize \in Nat
  BY RoundsAssumption
<1>2. Newer(e) \in Nat /\ Newer(e) < Cardinality(listed) /\ Cardinality(listed) \in Nat
  BY PlaceInListing, ListingFinite
<1>3. Newer(e) < (k + 1) * PageSize
  <2>1. CASE IsLast(k)
    <3>1. (k + 1) * PageSize >= Cardinality(listed)
      BY <2>1 DEF IsLast
    <3> QED
      BY <1>1, <1>2, <3>1
  <2> QED
    BY <2>1
<1>4. e \notin Page(k) => ~(k * PageSize <= Newer(e))
  BY <1>3 DEF Page
<1> QED
  BY <1>1, <1>2, <1>4

\* Later pages start later.
LEMMA PagesAscend ==
  ASSUME NEW j \in Nat, NEW k \in Nat, j <= k
  PROVE  j * PageSize <= k * PageSize
<1>1. PICK d \in Nat : k = j + d
  <2> k - j \in Nat /\ k = j + (k - j)
    OBVIOUS
  <2> QED
    OBVIOUS
<1>2. k * PageSize = j * PageSize + d * PageSize /\ d * PageSize \in Nat
  BY <1>1, RoundsAssumption
<1> QED
  BY <1>2, RoundsAssumption

\* The page after one that is not the last is a page of the archive.
LEMMA NextPage ==
  ASSUME RestInv, NEW k \in Nat, ~IsLast(k)
  PROVE  k + 1 \in 0 .. Episodes - 1
<1>1. (k + 1) * PageSize < Episodes
  <2>1. (k + 1) * PageSize \in Nat /\ Cardinality(listed) \in 0 .. Episodes
    BY RoundsAssumption, ListingFinite
  <2>2. ~((k + 1) * PageSize >= Cardinality(listed))
    BY DEF IsLast
  <2> QED
    BY <2>1, <2>2, RoundsAssumption
<1>2. PICK p \in Nat : PageSize = p + 1
  <2> PageSize - 1 \in Nat /\ PageSize = (PageSize - 1) + 1
    BY RoundsAssumption
  <2> QED
    OBVIOUS
<1>3. (k + 1) * PageSize = (k + 1) * p + (k + 1) /\ (k + 1) * p \in Nat
  BY <1>2
<1> QED
  BY <1>1, <1>3, RoundsAssumption

-----------------------------------------------------------------------------
(* The rows.                                                               *)

\* What a row may become: it keeps its reference or gets its episode's, and is
\* new only if the episode is listed.
Becomes(e, r, s) ==
  /\ s \in Row
  /\ s.stored => r.stored \/ e \in listed
  /\ s.stored => s.clip # NoClip \/ (r.stored /\ s.clip = r.clip)
  /\ s.clip # NoClip => s.clip[1] = e
  /\ s.url # NoClip => s.url[1] = e /\ s.url \notin Trailers
RowsStep ==
  /\ rows' \in [Feeds -> [EpisodeIds -> Row]]
  /\ \A f \in Feeds, e \in EpisodeIds : Becomes(e, rows[f][e], rows'[f][e])

\* Rows that all become what they may satisfy the invariant.
LEMMA RowsStepKeeps == RowsStep => RowsInv'
  BY DEF RowsStep, Becomes, RowsInv, VideoOfTheEpisode

\* A row may stay as it is.
LEMMA RowStays ==
  ASSUME RowsInv, NEW f \in Feeds, NEW e \in EpisodeIds
  PROVE  rows[f][e] \in Row /\ Becomes(e, rows[f][e], rows[f][e])
  BY DEF RowsInv, Becomes, VideoOfTheEpisode, Row

\* A row keeps its reference when its check comes due or is done.
LEMMA RowChecked ==
  ASSUME NEW e \in EpisodeIds, NEW r \in Row, Becomes(e, r, r),
         NEW url \in Clips \cup {NoClip},
         url # NoClip => url[1] = e /\ url \notin Trailers
  PROVE  /\ Becomes(e, r, [r EXCEPT !.due = TRUE])
         /\ Becomes(e, r, [r EXCEPT !.url = url, !.due = FALSE])
  BY DEF Becomes, Row

\* A row of a listed episode gets that episode's reference.
LEMMA RowListed ==
  ASSUME RowsInv, RestInv, NEW f \in Feeds, NEW e \in EpisodeIds, e \in listed
  PROVE  /\ Becomes(e, rows[f][e], Stored(ClipOf(e)))
         /\ Becomes(e, rows[f][e], [rows[f][e] EXCEPT !.clip = ClipOf(e)])
<1>1. Becomes(e, rows[f][e], rows[f][e]) /\ rows[f][e] \in Row
  BY RowStays
<1>2. ClipOf(e) \in Clips /\ ClipOf(e)[1] = e /\ ClipOf(e) # NoClip
  BY ClipOfType
<1> HIDE DEF ClipOf
<1>3. Becomes(e, rows[f][e], Stored(ClipOf(e)))
  BY <1>1, <1>2 DEF Becomes, Stored, Row
<1>4. Becomes(e, rows[f][e], [rows[f][e] EXCEPT !.clip = ClipOf(e)])
  BY <1>1, <1>2 DEF Becomes, Row
<1> QED
  BY <1>3, <1>4

\* One feed's rows change, each to what it may become.
LEMMA FeedRows ==
  ASSUME RowsInv, NEW f \in Feeds, NEW G \in [EpisodeIds -> Row],
         \A e \in EpisodeIds : Becomes(e, rows[f][e], G[e]),
         rows' = [rows EXCEPT ![f] = G]
  PROVE  RowsStep
<1>1. rows' \in [Feeds -> [EpisodeIds -> Row]]
  BY DEF RowsInv
<1>2. ASSUME NEW g \in Feeds, NEW e \in EpisodeIds
      PROVE  Becomes(e, rows[g][e], rows'[g][e])
  <2>1. CASE g = f
    <3>1. rows'[g][e] = G[e]
      BY <2>1 DEF RowsInv
    <3> QED
      BY <2>1, <3>1
  <2>2. CASE g # f
    <3>1. rows'[g][e] = rows[g][e]
      BY <2>2 DEF RowsInv
    <3> QED
      BY <3>1, RowStays
  <2> QED
    BY <2>1, <2>2
<1> QED
  BY <1>1, <1>2 DEF RowsStep

\* Nothing changes in the rows.
LEMMA SameRows == ASSUME RowsInv, UNCHANGED rows PROVE RowsStep
<1>1. rows' \in [Feeds -> [EpisodeIds -> Row]]
  BY DEF RowsInv
<1> QED
  BY <1>1, RowStays DEF RowsStep

\* A refresh or the crawl lists some episodes of a feed.
LEMMA ListedRows ==
  ASSUME RowsInv, RestInv, NEW f \in Feeds, NEW S \in SUBSET listed, Listed(f, S)
  PROVE  RowsStep
<1> DEFINE G == [e \in EpisodeIds |->
                   IF e \notin S THEN rows[f][e]
                   ELSE IF rows[f][e].stored THEN [rows[f][e] EXCEPT !.clip = ClipOf(e)]
                   ELSE Stored(ClipOf(e))]
<1>1. \A e \in EpisodeIds : Becomes(e, rows[f][e], G[e])
  BY RowStays, RowListed
<1>2. G \in [EpisodeIds -> Row]
  BY <1>1 DEF Becomes
<1>3. rows' = [rows EXCEPT ![f] = G]
  BY DEF Listed
<1> QED
  BY <1>1, <1>2, <1>3, FeedRows

\* A round records the references of the page it listed.
LEMMA BackfilledRows ==
  ASSUME RowsInv, RestInv, RoundInv, SetClipIDs
  PROVE  RowsStep
<1> DEFINE f == round.feed
           g == round.found
           G == [e \in EpisodeIds |->
                   IF rows[f][e].stored /\ g[e] # NoClip
                   THEN [rows[f][e] EXCEPT !.clip = g[e]] ELSE rows[f][e]]
<1>1. f \in Feeds /\ g \in OwnClips
  BY DEF RoundInv, RoundType, SetClipIDs
<1>2. rows' = [rows EXCEPT ![f] = G]
  BY DEF SetClipIDs, Found
<1> HIDE DEF f, g
<1>3. ASSUME NEW e \in EpisodeIds PROVE Becomes(e, rows[f][e], G[e])
  <2>1. rows[f][e] \in Row /\ Becomes(e, rows[f][e], rows[f][e])
    BY <1>1, RowStays
  <2>2. g[e] \in Clips \cup {NoClip} /\ (g[e] # NoClip => g[e][1] = e)
    BY <1>1 DEF OwnClips
  <2> QED
    BY <2>1, <2>2 DEF Becomes, Row
<1>4. G \in [EpisodeIds -> Row]
  BY <1>3 DEF Becomes
<1> HIDE DEF G
<1> QED
  BY <1>1, <1>2, <1>3, <1>4, FeedRows

\* The admin deletes a feed.
LEMMA DeletedRows ==
  ASSUME RowsInv, NEW f \in Feeds, DeleteFeed(f)
  PROVE  RowsStep
<1> DEFINE G == [e \in EpisodeIds |-> Gone]
<1>1. \A e \in EpisodeIds : Becomes(e, rows[f][e], G[e])
  BY DEF Becomes, Gone, Row
<1>2. G \in [EpisodeIds -> Row]
  BY <1>1 DEF Becomes
<1>3. rows' = [rows EXCEPT ![f] = G]
  BY DEF DeleteFeed
<1> HIDE DEF G
<1> QED
  BY <1>1, <1>2, <1>3, FeedRows

\* One row's check comes due, or is done with what a goroutine found.
LEMMA CheckedRows ==
  ASSUME RowsInv, RoundInv,
         \/ \E f \in Feeds, e \in EpisodeIds : CheckPasses(f, e)
         \/ \E c \in Checkers : SetVideo(c)
  PROVE  RowsStep
<1>1. ASSUME NEW f \in Feeds, NEW e \in EpisodeIds, NEW s,
             Becomes(e, rows[f][e], s), rows' = [rows EXCEPT ![f][e] = s]
      PROVE  RowsStep
  <2> DEFINE G == [rows[f] EXCEPT ![e] = s]
  <2>1. \A x \in EpisodeIds : Becomes(x, rows[f][x], G[x])
    BY <1>1, RowStays DEF RowsInv
  <2>2. G \in [EpisodeIds -> Row]
    BY <1>1 DEF RowsInv, Becomes
  <2>3. rows' = [rows EXCEPT ![f] = G]
    BY <1>1
  <2> HIDE DEF G
  <2> QED
    BY <2>1, <2>2, <2>3, FeedRows
<1>2. ASSUME NEW f \in Feeds, NEW e \in EpisodeIds, CheckPasses(f, e) PROVE RowsStep
  <2> DEFINE s == [rows[f][e] EXCEPT !.due = TRUE]
  <2>1. Becomes(e, rows[f][e], s)
    <3>1. rows[f][e] \in Row /\ Becomes(e, rows[f][e], rows[f][e])
      BY RowStays
    <3> QED
      BY <3>1, RowChecked
  <2>2. rows' = [rows EXCEPT ![f][e] = s]
    BY <1>2 DEF CheckPasses
  <2> HIDE DEF s
  <2> QED
    BY <1>1, <2>1, <2>2
<1>3. ASSUME NEW c \in Checkers, SetVideo(c) PROVE RowsStep
  <2> DEFINE f == round.feed
             e == checks[c].episode
             s == [rows[f][e] EXCEPT !.url = checks[c].url, !.due = FALSE]
  <2>1. f \in Feeds /\ e \in EpisodeIds
    BY <1>3 DEF SetVideo, RoundInv, OwnCheck, Candidate
  <2>2. OwnCheck(checks[c])
    BY DEF RoundInv
  <2>3. Becomes(e, rows[f][e], s)
    <3>1. rows[f][e] \in Row /\ Becomes(e, rows[f][e], rows[f][e])
      BY <2>1, RowStays
    <3>2. /\ checks[c].url \in Clips \cup {NoClip}
          /\ checks[c].url # NoClip => checks[c].url[1] = e /\ checks[c].url \notin Trailers
      BY <2>2 DEF OwnCheck, Check
    <3> QED
      BY <2>1, <3>1, <3>2, RowChecked
  <2>4. CASE rows[f][e].stored
    <3>1. rows' = [rows EXCEPT ![f][e] = s]
      BY <1>3, <2>4 DEF SetVideo
    <3> HIDE DEF s, f, e
    <3> QED
      BY <1>1, <2>1, <2>3, <3>1
  <2>5. CASE ~rows[f][e].stored
    BY <1>3, <2>5, SameRows DEF SetVideo
  <2> QED
    BY <2>4, <2>5
<1> QED
  BY <1>2, <1>3

\* Every step changes rows only to what they may become.
LEMMA EveryRowsStep ==
  ASSUME RowsInv, RestInv, RoundInv, [Next]_vars
  PROVE  RowsStep
<1>1. ASSUME NEW f \in Feeds, Refresh(f) \/ CrawlCompletes(f) PROVE RowsStep
  <2>1. Page(0) \in SUBSET listed
    BY DEF Page
  <2> QED
    BY <1>1, <2>1, ListedRows DEF Refresh, CrawlCompletes
<1>2. ASSUME NEW f \in Feeds, DeleteFeed(f) PROVE RowsStep
  BY <1>2, DeletedRows
<1>3. CASE SetClipIDs
  BY <1>3, BackfilledRows
<1>4. CASE \/ \E f \in Feeds, e \in EpisodeIds : CheckPasses(f, e)
           \/ \E c \in Checkers : SetVideo(c)
  BY <1>4, CheckedRows
<1>5. CASE UNCHANGED rows
  BY <1>5, SameRows
<1> HIDE DEF RowsStep
<1> QED
  BY <1>1, <1>2, <1>3, <1>4, <1>5 DEF Next, Polled, Round, Environment, Dequeue,
     ReadCandidates, ChecksEnd, ListClipIDs, SaveProgress, Take, Answer,
     BackfillDeadlinePasses, ReplaceClip, Publish, Withdraw, DeadlinePasses, Fail,
     ListClipIDsFails, SetClipIDsFails, Restart, database, vars

-----------------------------------------------------------------------------
(* The round and its goroutines.                                           *)

\* A goroutine that does nothing has found nothing.
LEMMA NoCheckType == OwnCheck(NoCheck)
<1>1. NoCheck \in Check
  BY DEF NoCheck, Check
<1> QED
  BY <1>1 DEF OwnCheck, NoCheck

\* One goroutine goes on with what it may have found, in the checks of a round.
LEMMA OneCheck ==
  ASSUME RoundInv, NEW c \in Checkers, NEW k, OwnCheck(k), Gets(c, k),
         round.pc = "check", NEW work \in SUBSET Candidate,
         round' = round \/ round' = [round EXCEPT !.work = work]
  PROVE  RoundInv'
<1>1. k \in Check
  BY DEF OwnCheck
<1>2. checks' \in [Checkers -> Check]
  BY <1>1 DEF RoundInv, Gets
<1>3. \A d \in Checkers : OwnCheck(checks'[d])
  BY DEF RoundInv, Gets
<1>4. round'.pc = "check" /\ round'.feed = round.feed
  BY DEF RoundInv, RoundType
<1>5. round' \in RoundType
  BY DEF RoundInv, RoundType
<1> HIDE DEF OwnCheck
<1>6. \A d \in Checkers : OwnCheck(checks[d])'
  BY <1>3 DEF OwnCheck
<1> QED
  BY <1>2, <1>4, <1>5, <1>6 DEF RoundInv

\* A goroutine takes a candidate: a known result is the same episode's.
LEMMA TakeKeeps ==
  ASSUME RowsInv, RoundInv, NEW c \in Checkers, Take(c)
  PROVE  RoundInv'
<1>1. PICK w \in round.work :
        /\ round' = [round EXCEPT !.work = @ \ {w}]
        /\ \/ \E url \in Known(w.clip) :
                Gets(c, [pc |-> "reuse", episode |-> w.episode, clip |-> w.clip, url |-> url])
           \/ Gets(c, IF w.clip \notin deferred
                      THEN [NoCheck EXCEPT !.pc = "lookup", !.episode = w.episode, !.clip = w.clip]
                      ELSE NoCheck)
  BY DEF Take
<1>2. w \in Candidate /\ round.pc = "check"
  BY DEF RoundInv, RoundType, Take
<1>3. w = [episode |-> w.episode, clip |-> w.clip] /\ w.episode \in EpisodeIds
      /\ w.clip \in Clips /\ w.clip[1] = w.episode
  BY <1>2 DEF Candidate
<1>4. round.work \ {w} \in SUBSET Candidate
  BY DEF RoundInv, RoundType
<1>5. ASSUME NEW url \in Known(w.clip)
      PROVE  OwnCheck([pc |-> "reuse", episode |-> w.episode, clip |-> w.clip, url |-> url])
  <2>1. url \in Clips \cup {NoClip}
    BY DEF Known
  <2>2. PICK f \in Feeds, e \in EpisodeIds : rows[f][e].clip = w.clip /\ rows[f][e].url = url
    BY DEF Known
  <2>3. w.clip # NoClip
    BY <1>3, NoClipIsNone
  <2>4. e = w.episode
    BY <1>3, <2>2, <2>3 DEF RowsInv
  <2>5. url # NoClip => url[1] = w.episode /\ url \notin Trailers
    BY <2>2, <2>4 DEF RowsInv, VideoOfTheEpisode
  <2> QED
    BY <1>2, <1>3, <2>1, <2>5 DEF OwnCheck, Check
<1>6. OwnCheck([NoCheck EXCEPT !.pc = "lookup", !.episode = w.episode, !.clip = w.clip])
  BY <1>2, <1>3 DEF OwnCheck, Check, NoCheck
<1> HIDE DEF OwnCheck
<1>7. PICK k : OwnCheck(k) /\ Gets(c, k)
  BY <1>1, <1>5, <1>6, NoCheckType
<1> QED
  BY <1>1, <1>2, <1>4, <1>7, OneCheck

\* NRK answers a lookup, the lookup fails, or its result is stored.
LEMMA CheckGoesOn ==
  ASSUME RoundInv, NEW c \in Checkers, Answer(c) \/ Fail(c) \/ SetVideo(c)
  PROVE  RoundInv'
<1> DEFINE k == checks[c]
<1>1. OwnCheck(k) /\ k.pc # "none" /\ round.pc = "check" /\ round' = round
  BY DEF RoundInv, Answer, Fail, SetVideo
<1>2. ASSUME NEW usable \in BOOLEAN
      PROVE  OwnCheck([k EXCEPT !.pc = "set",
                                !.url = IF usable /\ Matches(k.clip) THEN k.clip ELSE NoClip])
  BY <1>1 DEF OwnCheck, Check, Candidate, Matches
<1>3. PICK s : OwnCheck(s) /\ Gets(c, s)
  BY <1>1, <1>2, NoCheckType DEF Answer, Fail, SetVideo
<1>4. {} \in SUBSET Candidate
  OBVIOUS
<1> HIDE DEF OwnCheck
<1> QED
  BY <1>1, <1>3, <1>4, OneCheck

\* The round itself goes on, while no goroutine is at work.
LEMMA RoundGoesOn ==
  ASSUME RoundInv, \A c \in Checkers : checks[c].pc = "none", UNCHANGED checks,
         round' \in RoundType, round'.pc # "none" => round'.feed \in Feeds
  PROVE  RoundInv'
<1>1. \A c \in Checkers : OwnCheck(checks[c])'
  BY DEF RoundInv, OwnCheck
<1> QED
  BY <1>1 DEF RoundInv, RoundType

LEMMA NoRoundType == NoRound \in RoundType
<1>1. NothingFound \in OwnClips
  BY DEF NothingFound, OwnClips
<1>2. NoProgress \in Progress
  BY RoundsAssumption DEF NoProgress, Progress
<1> QED
  BY <1>1, <1>2, RoundsAssumption DEF NoRound, RoundType

\* A restart leaves no round and nobody at work.
LEMMA NoRoundLeft ==
  ASSUME round' = NoRound, checks' = [c \in Checkers |-> NoCheck]
  PROVE  RoundInv'
<1>1. \A c \in Checkers : OwnCheck(checks[c])'
  BY NoCheckType DEF OwnCheck
<1>2. checks' \in [Checkers -> Check]
  BY NoCheckType DEF OwnCheck
<1>3. NoRound \in RoundType /\ NoRound.pc = "none"
  BY NoRoundType DEF NoRound
<1>4. \A c \in Checkers : checks'[c].pc = "none"
  BY DEF NoCheck
<1> HIDE DEF NoRound
<1> QED
  BY <1>1, <1>2, <1>3, <1>4 DEF RoundInv

\* What a round reads are clips of their episodes.
LEMMA CandidatesRead ==
  ASSUME RowsInv, NEW f \in Feeds, NEW e \in VideosDue(f)
  PROVE  [episode |-> e, clip |-> rows[f][e].clip] \in Candidate
<1>1. e \in EpisodeIds /\ rows[f][e].clip # NoClip
  BY DEF VideosDue, Due, DueNow
<1>2. rows[f][e].clip \in Clips
  BY <1>1, RowStays DEF Row
<1> QED
  BY <1>1, <1>2 DEF RowsInv, Candidate

\* Every step keeps the round and its goroutines sound.
LEMMA RoundStep ==
  ASSUME RowsInv, RoundInv, QueueInv, RestInv, [Next]_vars
  PROVE  RoundInv'
<1> DEFINE Still == round.pc # "check" \/ \A c \in Checkers : checks[c] = NoCheck
<1>1. Still => \A c \in Checkers : checks[c].pc = "none"
  BY DEF RoundInv, NoCheck
<1>2. round \in RoundType /\ NoRound \in RoundType /\ NoRound.pc = "none"
  BY NoRoundType DEF RoundInv, NoRound
<1>3. CASE Dequeue
  <2>1. Head(queue) \in Feeds
    BY <1>3 DEF QueueInv, Dequeue
  <2>2. round' = [NoRound EXCEPT !.pc = "read", !.feed = Head(queue)]
    BY <1>3 DEF Dequeue
  <2> HIDE DEF NoRound
  <2>3. round' \in RoundType /\ round'.feed \in Feeds
    BY <1>2, <2>1, <2>2 DEF RoundType
  <2> QED
    BY <1>1, <1>3, <2>3, RoundGoesOn DEF Dequeue
<1>4. CASE ReadCandidates
  <2> DEFINE work == {[episode |-> e, clip |-> rows[round.feed][e].clip] : e \in VideosDue(round.feed)}
  <2>1. round.feed \in Feeds
    BY <1>4 DEF RoundInv, ReadCandidates
  <2>2. work \in SUBSET Candidate
    BY <2>1, CandidatesRead
  <2>3. round' = [round EXCEPT !.pc = "check", !.work = work]
    BY <1>4 DEF ReadCandidates
  <2> HIDE DEF work
  <2>4. round' \in RoundType /\ round'.feed \in Feeds
    BY <1>2, <2>1, <2>2, <2>3 DEF RoundType
  <2> QED
    BY <1>1, <1>4, <2>4, RoundGoesOn DEF ReadCandidates
<1>5. CASE ChecksEnd
  <2>1. round.feed \in Feeds /\ progress[round.feed].cursor \in 0 .. Episodes - 1
    BY <1>5 DEF RoundInv, RestInv, Progress, ChecksEnd
  <2>2. \/ round' = NoRound
        \/ round' = [round EXCEPT !.pc = "list", !.page = progress[round.feed].cursor]
    BY <1>5 DEF ChecksEnd
  <2> HIDE DEF NoRound
  <2>3. round' \in RoundType /\ (round'.pc # "none" => round'.feed \in Feeds)
    BY <1>2, <2>1, <2>2 DEF RoundType
  <2> QED
    BY <1>1, <1>5, <2>3, RoundGoesOn DEF ChecksEnd
<1>6. CASE ListClipIDs
  <2> DEFINE k == round.page
             g == [e \in EpisodeIds |-> IF e \in Page(k) THEN ClipOf(e) ELSE NoClip]
             n == [cursor |-> IF IsLast(k) THEN 0 ELSE k + 1, done |-> IsLast(k)]
  <2>1. round.pc = "list" /\ round.feed \in Feeds /\ k \in Nat
    BY <1>2, <1>6 DEF RoundInv, RoundType, ListClipIDs
  <2>2. g \in OwnClips
    BY ClipOfType DEF OwnClips
  <2>3. IsLast(k) \in BOOLEAN
    BY DEF IsLast
  <2>4. n \in Progress
    BY <2>1, <2>3, NextPage, RoundsAssumption DEF Progress
  <2>5. round' = [round EXCEPT !.pc = "set", !.found = g, !.next = n]
    BY <1>6 DEF ListClipIDs
  <2> HIDE DEF g, n
  <2>6. round' \in RoundType /\ round'.feed \in Feeds
    BY <1>2, <2>1, <2>2, <2>4, <2>5 DEF RoundType
  <2> QED
    BY <1>1, <1>6, <2>1, <2>6, RoundGoesOn DEF ListClipIDs
<1>7. CASE ListClipIDsFails \/ SetClipIDs \/ SetClipIDsFails \/ SaveProgress
  <2>1. round.pc \in {"list", "set", "advance"} /\ round.feed \in Feeds
    BY <1>7 DEF RoundInv, ListClipIDsFails, SetClipIDs, SetClipIDsFails, SaveProgress, CursorMoves
  <2>2. /\ NothingFound \in OwnClips
        /\ round.missed \cup {e \in Unrecorded(round.feed) : Found(e)} \subseteq EpisodeIds
    BY <1>2 DEF NothingFound, OwnClips, Unrecorded, RoundType
  <2>3. \/ round' = NoRound
        \/ round' = [round EXCEPT !.pc = "advance", !.found = NothingFound]
        \/ round' = [round EXCEPT !.pc = "advance"]
        \/ round' = [round EXCEPT !.pc = "advance", !.found = NothingFound,
                       !.missed = @ \cup {e \in Unrecorded(round.feed) : Found(e)}]
    BY <1>7 DEF ListClipIDsFails, SetClipIDs, SetClipIDsFails, SaveProgress
  <2> HIDE DEF NoRound
  <2>4. round' \in RoundType /\ (round'.pc # "none" => round'.feed \in Feeds)
    BY <1>2, <2>1, <2>2, <2>3 DEF RoundType
  <2> QED
    BY <1>1, <1>7, <2>1, <2>4, RoundGoesOn DEF ListClipIDsFails, SetClipIDs, SetClipIDsFails,
       SaveProgress
<1>8. ASSUME NEW w \in listed, Withdraw(w) PROVE RoundInv'
  <2>1. ASSUME NEW f, NEW k PROVE Slips(f, w, k) \subseteq EpisodeIds
    BY DEF Slips, Unrecorded
  <2>2. PICK S \in SUBSET EpisodeIds : round' = round \/ round' = [round EXCEPT !.missed = @ \cup S]
    BY <1>8, <2>1 DEF Withdraw
  <2>3. round' \in RoundType /\ round'.pc = round.pc /\ round'.feed = round.feed
    BY <1>2, <2>2 DEF RoundType
  <2>4. checks' = checks
    BY <1>8 DEF Withdraw
  <2> QED
    BY <2>3, <2>4 DEF RoundInv, OwnCheck
<1>9. ASSUME NEW c \in Checkers, Take(c) PROVE RoundInv'
  BY <1>9, TakeKeeps
<1>10. ASSUME NEW c \in Checkers, Answer(c) \/ Fail(c) \/ SetVideo(c) PROVE RoundInv'
  BY <1>10, CheckGoesOn
<1>11. CASE Restart
  BY <1>11, NoRoundLeft DEF Restart
<1>12. CASE UNCHANGED <<round, checks>>
  BY <1>12 DEF RoundInv, OwnCheck
<1> HIDE DEF Still
<1> QED
  BY <1>3, <1>4, <1>5, <1>6, <1>7, <1>8, <1>9, <1>10, <1>11, <1>12 DEF Next, Polled, Round,
     Environment, Refresh, CrawlCompletes, DeleteFeed, CheckPasses, BackfillDeadlinePasses,
     ReplaceClip, Publish, DeadlinePasses, worker, vars

-----------------------------------------------------------------------------
(* The rest.                                                               *)

\* Every step keeps the types of what is left.
LEMMA RestStep ==
  ASSUME RoundInv, RestInv, [Next]_vars
  PROVE  RestInv'
<1>1. Trouble => trouble' \in 0 .. MaxTrouble
  BY RoundsAssumption DEF RestInv, Trouble
<1>2. CASE ReadCandidates
  BY <1>2 DEF ReadCandidates, RestInv, nrk
<1>3. ASSUME NEW c \in Checkers, Fail(c) \/ SetVideo(c) PROVE RestInv'
  <2>1. checks[c].pc # "none" /\ checks[c].clip \in Clips
    BY <1>3 DEF RoundInv, OwnCheck, Candidate, Fail, SetVideo
  <2>2. attempts' \in [Clips -> 0 .. LongAfter]
    BY <1>3, <2>1, RoundsAssumption DEF Fail, SetVideo, RestInv, deadlines
  <2>3. deferred' \subseteq Clips /\ outlasts' \in [Clips -> SUBSET Feeds]
    BY <1>3, <2>1 DEF Fail, SetVideo, RestInv, deadlines
  <2>4. UNCHANGED <<nrk, complete, progress, pausedBackfill, missed>> /\ trouble' \in 0 .. MaxTrouble
    BY <1>1, <1>3 DEF Fail, SetVideo, RestInv, history
  <2> QED
    BY <2>2, <2>3, <2>4 DEF RestInv, nrk
<1>4. CASE SaveProgress
  <2>1. round.feed \in Feeds /\ round.next \in Progress /\ round.missed \subseteq EpisodeIds
    BY <1>4 DEF RoundInv, RoundType, SaveProgress, CursorMoves
  <2>2. /\ progress' = [progress EXCEPT ![round.feed] = round.next]
        /\ missed' = [missed EXCEPT ![round.feed] = @ \cup round.missed]
    BY <1>4 DEF SaveProgress
  <2>3. progress' \in [Feeds -> Progress] /\ missed' \in [Feeds -> SUBSET EpisodeIds]
    BY <2>1, <2>2 DEF RestInv
  <2>4. pausedBackfill' \in [Feeds -> BOOLEAN]
    BY <1>4 DEF SaveProgress, RestInv
  <2>5. UNCHANGED <<nrk, complete, deadlines, trouble>>
    BY <1>4 DEF SaveProgress
  <2> QED
    BY <2>3, <2>4, <2>5 DEF RestInv, deadlines, nrk
<1>5. CASE ListClipIDsFails \/ SetClipIDsFails \/ Restart
  BY <1>1, <1>5 DEF ListClipIDsFails, SetClipIDsFails, Restart, RestInv, database, deadlines,
     nrk, history
<1>6. ASSUME NEW f \in Feeds,
             CrawlCompletes(f) \/ DeleteFeed(f) \/ BackfillDeadlinePasses(f) \/ Refresh(f)
      PROVE  RestInv'
  BY <1>1, <1>6 DEF CrawlCompletes, DeleteFeed, BackfillDeadlinePasses, Refresh, RestInv,
     deadlines, nrk, history
<1>7. ASSUME NEW f \in Feeds, NEW e \in EpisodeIds, CheckPasses(f, e) PROVE RestInv'
  BY <1>1, <1>7 DEF CheckPasses, RestInv, deadlines, nrk, history
<1>8. ASSUME NEW e \in EpisodeIds, ReplaceClip(e) PROVE RestInv'
  BY <1>1, <1>8, RoundsAssumption DEF ReplaceClip, RestInv, database, deadlines, history
<1>9. ASSUME NEW v \in 1 .. Versions, Publish(v) PROVE RestInv'
  <2>1. top' = top + 1 /\ top' \in 0 .. Episodes /\ listed' = listed \cup {top + 1}
    BY <1>9, RoundsAssumption DEF Publish, RestInv
  <2>2. listed' \subseteq 1 .. top'
    BY <2>1 DEF RestInv
  <2>3. refs' \in [EpisodeIds -> 1 .. Versions]
    BY <1>9 DEF Publish, RestInv
  <2> QED
    BY <1>9, <2>1, <2>2, <2>3 DEF Publish, RestInv, database, deadlines, history
<1>10. ASSUME NEW w \in listed, Withdraw(w) PROVE RestInv'
  <2>1. ASSUME NEW f \in Feeds, NEW k PROVE Slips(f, w, k) \subseteq EpisodeIds
    BY DEF Slips, Unrecorded
  <2>2. missed' \in [Feeds -> SUBSET EpisodeIds]
    BY <1>10, <2>1 DEF Withdraw, RestInv
  <2> QED
    BY <1>1, <1>10, <2>2 DEF Withdraw, RestInv, database, deadlines
<1>11. ASSUME NEW clip \in Clips, DeadlinePasses(clip) PROVE RestInv'
  BY <1>11 DEF DeadlinePasses, RestInv, nrk, history
<1>12. CASE UNCHANGED <<nrk, complete, progress, deadlines, pausedBackfill, missed, trouble>>
  BY <1>12 DEF RestInv, nrk, deadlines
<1> QED
  BY <1>2, <1>3, <1>4, <1>5, <1>6, <1>7, <1>8, <1>9, <1>10, <1>11, <1>12 DEF Next, Polled,
     Round, Environment, Dequeue, Take, Answer, ChecksEnd, ListClipIDs, SetClipIDs, database,
     history, vars

-----------------------------------------------------------------------------
(* The queue and what was asked for.                                       *)

InQueue(f) == \E i \in 1 .. Len(queue) : queue[i] = f

\* A feed that is not queued goes to the end of the queue; a queued one is in it.
LEMMA EnqueueKeeps ==
  ASSUME QueueInv, NEW f \in Feeds, Enqueued(f), UNCHANGED round
  PROVE  QueueInv'
<1>1. CASE f \in queued
  <2>1. UNCHANGED <<queue, queued>> /\ asked' = asked \cup {f}
    BY <1>1 DEF Enqueued
  <2>2. \E i \in 1 .. Len(queue) : queue[i] = f
    BY <1>1 DEF QueueInv
  <2> QED
    BY <2>1, <2>2 DEF QueueInv, NoRequestIsLost
<1>2. CASE f \notin queued
  <2>1. queue' = Append(queue, f) /\ queued' = queued \cup {f} /\ asked' = asked \cup {f}
    BY <1>2 DEF Enqueued
  <2>2. /\ Len(queue') = Len(queue) + 1 /\ Len(queue) \in Nat /\ queue' \in Seq(Feeds)
        /\ \A i \in 1 .. Len(queue) : queue'[i] = queue[i]
        /\ queue'[Len(queue) + 1] = f
    BY <2>1, AppendProperties DEF QueueInv
  <2>3. \A i \in 1 .. Len(queue') : i \in 1 .. Len(queue) \/ i = Len(queue) + 1
    BY <2>2
  <2>4. \A i \in 1 .. Len(queue) : i \in 1 .. Len(queue') /\ queue[i] # f
    BY <1>2, <2>2 DEF QueueInv
  <2>5. \A i, j \in 1 .. Len(queue') : queue'[i] = queue'[j] => i = j
    BY <2>2, <2>3, <2>4 DEF QueueInv
  <2>6. Len(queue) + 1 \in 1 .. Len(queue')
    BY <2>2
  <2>7. \A g : InQueue(g)' <=> g = f \/ InQueue(g)
    BY <2>2, <2>3, <2>4, <2>6 DEF InQueue
  <2>8. \A g \in Feeds : g \in queued' <=> \E i \in 1 .. Len(queue') : queue'[i] = g
    BY <2>1, <2>7 DEF QueueInv, InQueue
  <2>9. NoRequestIsLost'
    BY <2>1, <2>7 DEF QueueInv, NoRequestIsLost, InQueue
  <2> QED
    BY <2>1, <2>2, <2>5, <2>8, <2>9 DEF QueueInv
<1> QED
  BY <1>1, <1>2

\* The head of the queue leaves it, and its round will read.
LEMMA DequeueKeeps ==
  ASSUME QueueInv, Dequeue
  PROVE  QueueInv'
<1>1. /\ queue # <<>> /\ queue' = Tail(queue) /\ queued' = queued \ {Head(queue)}
      /\ asked' = asked /\ round.pc = "none"
      /\ round' = [NoRound EXCEPT !.pc = "read", !.feed = Head(queue)]
  BY DEF Dequeue, Unqueued, history
<1>2. /\ queue' \in Seq(Feeds)
      /\ Len(queue') = Len(queue) - 1 /\ Len(queue) \in Nat \ {0}
      /\ \A i \in 1 .. Len(queue') : queue'[i] = queue[i + 1]
      /\ Head(queue) = queue[1]
  BY <1>1, HeadTailProperties, EmptySeq DEF QueueInv
<1>3. \A i \in 1 .. Len(queue') : i + 1 \in 1 .. Len(queue) /\ i + 1 # 1
  BY <1>2
<1>4. 1 \in 1 .. Len(queue)
  BY <1>2
<1>5. \A i, j \in 1 .. Len(queue') : queue'[i] = queue'[j] => i = j
  <2> SUFFICES ASSUME NEW i \in 1 .. Len(queue'), NEW j \in 1 .. Len(queue'),
                      queue'[i] = queue'[j]
               PROVE  i = j
    OBVIOUS
  <2>1. \A k, l \in 1 .. Len(queue) : queue[k] = queue[l] => k = l
    BY DEF QueueInv
  <2>2. i + 1 \in 1 .. Len(queue) /\ j + 1 \in 1 .. Len(queue)
    BY <1>3
  <2>3. queue[i + 1] = queue[j + 1]
    BY <1>2
  <2>4. i + 1 = j + 1
    BY <2>1, <2>2, <2>3
  <2> QED
    BY <2>4
<1>6. \A i \in 1 .. Len(queue) : i # 1 => /\ i - 1 \in 1 .. Len(queue')
                                         /\ queue'[i - 1] = queue[i]
  BY <1>2
<1>7. \A i \in 1 .. Len(queue') : queue'[i] # Head(queue)
  <2> SUFFICES ASSUME NEW i \in 1 .. Len(queue'), queue'[i] = Head(queue) PROVE FALSE
    OBVIOUS
  <2>1. queue[i + 1] = queue[1]
    BY <1>2
  <2>2. i + 1 = 1
    BY <1>3, <1>4, <2>1 DEF QueueInv
  <2> QED
    BY <1>3, <2>2
<1>8. \A g : g # Head(queue) => (InQueue(g)' <=> InQueue(g))
  BY <1>2, <1>3, <1>6 DEF InQueue
<1>9. \A g \in Feeds : g \in queued' <=> \E i \in 1 .. Len(queue') : queue'[i] = g
  BY <1>1, <1>7, <1>8 DEF QueueInv, InQueue
<1>10. round'.pc = "read" /\ round'.feed = Head(queue)
  BY <1>1 DEF NoRound
<1>11. NoRequestIsLost'
  BY <1>1, <1>8, <1>10 DEF QueueInv, NoRequestIsLost, InQueue
<1> QED
  BY <1>1, <1>2, <1>5, <1>9, <1>11 DEF QueueInv

\* Every step keeps the queue sound and loses no request.
LEMMA QueueStep ==
  ASSUME RoundInv, QueueInv, [Next]_vars
  PROVE  QueueInv'
<1>1. ASSUME NEW f \in Feeds, Refresh(f) \/ CrawlCompletes(f) PROVE QueueInv'
  BY <1>1, EnqueueKeeps DEF Refresh, CrawlCompletes
<1>2. CASE Dequeue
  BY <1>2, DequeueKeeps
<1>3. CASE ReadCandidates
  BY <1>3 DEF ReadCandidates, QueueInv, NoRequestIsLost
<1>4. CASE Restart
  <2>1. queue' = <<>> /\ queued' = {} /\ asked' = {}
    BY <1>4 DEF Restart
  <2>2. queue' \in Seq(Feeds) /\ 1 .. Len(queue') = {}
    BY <2>1
  <2> QED
    BY <2>1, <2>2 DEF QueueInv, NoRequestIsLost
<1>5. ASSUME UNCHANGED <<queue, queued, asked>>,
             UNCHANGED round \/ round.pc # "read"
      PROVE  QueueInv'
  BY <1>5 DEF QueueInv, NoRequestIsLost
<1>6. ASSUME NEW c \in Checkers, Take(c) PROVE QueueInv'
  BY <1>5, <1>6 DEF Take, history
<1>7. CASE ChecksEnd \/ ListClipIDs \/ ListClipIDsFails \/ SetClipIDs \/ SetClipIDsFails \/ SaveProgress
  BY <1>5, <1>7 DEF ChecksEnd, ListClipIDs, ListClipIDsFails, SetClipIDs, SetClipIDsFails,
     SaveProgress, CursorMoves, history
<1>8. ASSUME NEW w \in listed, Withdraw(w) PROVE QueueInv'
  BY <1>5, <1>8 DEF Withdraw
<1>9. CASE UNCHANGED <<queue, queued, asked, round>>
  BY <1>5, <1>9
<1> QED
  BY <1>1, <1>2, <1>3, <1>4, <1>6, <1>7, <1>8, <1>9 DEF Next, Polled, Round, Environment,
     DeleteFeed, CheckPasses, ReplaceClip, Publish, DeadlinePasses, BackfillDeadlinePasses,
     Answer, Fail, SetVideo, worker, history, vars

-----------------------------------------------------------------------------
(* The walk.                                                               *)

\* A row that lacks a reference lacked one before; the others never lose theirs.
LEMMA LackingShrinks ==
  ASSUME RowsStep, NEW f \in Feeds
  PROVE  Unrecorded(f)' \subseteq Unrecorded(f)
  BY DEF RowsStep, Becomes, Unrecorded

\* No row is of an episode to come.
LEMMA NoneToCome ==
  ASSUME RestInv, WalkInv, RowsStep, RestInv', top' >= top
  PROVE  \A f \in Feeds, e \in EpisodeIds : rows'[f][e].stored => e <= top'
<1> SUFFICES ASSUME NEW f \in Feeds, NEW e \in EpisodeIds, rows'[f][e].stored
             PROVE  e <= top'
  OBVIOUS
<1>1. rows[f][e].stored \/ e \in listed
  BY DEF RowsStep, Becomes
<1>2. top \in Nat /\ top' \in Nat /\ e \in Nat
  BY RoundsAssumption DEF RestInv, EpisodeIds
<1>3. e <= top
  <2>1. CASE rows[f][e].stored
    BY <2>1 DEF WalkInv
  <2>2. CASE e \in listed
    <3>1. listed \subseteq 1 .. top
      BY DEF RestInv
    <3> QED
      BY <1>2, <2>2, <3>1
  <2> QED
    BY <1>1, <2>1, <2>2
<1> QED
  BY <1>2, <1>3

\* While the listing stands still, what is behind the saved cursors stays
\* recorded or known to be missed, and what a round expects stays so.
LEMMA SavedStays ==
  ASSUME WalkInv, RowsStep, UNCHANGED <<listed, progress>>,
         \A f \in Feeds : missed[f] \subseteq missed'[f] \/ Unrecorded(f)' = {}
  PROVE  SavedWalk'
<1>1. ASSUME NEW f \in Feeds, NEW e \in Lacking(f)', Passed(e, progress[f])'
      PROVE  e \in missed'[f]
  <2>1. e \in Lacking(f) /\ missed[f] \subseteq missed'[f]
    BY <1>1, LackingShrinks DEF Lacking
  <2>2. Passed(e, progress[f])
    BY <1>1 DEF Passed, Newer
  <2> QED
    BY <2>1, <2>2 DEF WalkInv, SavedWalk
<1> QED
  BY <1>1 DEF SavedWalk

LEMMA WalkStays ==
  ASSUME RoundInv, RestInv, RestInv', WalkInv, RowsStep, UNCHANGED <<top, listed, progress>>,
         \A f \in Feeds : missed[f] \subseteq missed'[f] \/ Unrecorded(f)' = {},
         \/ round'.pc \notin {"list", "set", "advance"}
         \/ UNCHANGED round
         \/ round'.pc = "list" /\ round'.page = progress[round'.feed].cursor
  PROVE  WalkInv'
<1>1. SavedWalk'
  BY SavedStays
<1>2. round'.pc = "list" => round'.page = progress'[round'.feed].cursor
  BY DEF WalkInv
<1>3. ASSUME round'.pc \in {"set", "advance"}, NEW e \in Lacking(round.feed)'
      PROVE  Expected(e)'
  <2>1. UNCHANGED round /\ round.feed \in Feeds
    BY <1>3 DEF RoundInv
  <2>2. /\ e \in Lacking(round.feed)
        /\ missed[round.feed] \subseteq missed'[round.feed]
    BY <1>3, <2>1, LackingShrinks DEF Lacking
  <2>3. Expected(e)
    BY <1>3, <2>1, <2>2 DEF WalkInv
  <2> QED
    BY <2>1, <2>2, <2>3 DEF Expected, Passed, Newer, Found
<1>4. \A f \in Feeds, e \in EpisodeIds : rows'[f][e].stored => e <= top'
  <2>1. top' >= top
    BY DEF RestInv
  <2> QED
    BY <2>1, NoneToCome
<1>5. round'.pc = "advance" => round'.found = NothingFound'
  BY DEF WalkInv, NothingFound
<1> QED
  BY <1>1, <1>2, <1>3, <1>4, <1>5 DEF WalkInv

\* The round lists its page: what it will have passed is on it, or was passed.
LEMMA ListKeepsWalk ==
  ASSUME RoundInv, RestInv, RestInv', WalkInv, RowsStep, ListClipIDs
  PROVE  WalkInv'
<1> DEFINE k == round.page
           g == [e \in EpisodeIds |-> IF e \in Page(k) THEN ClipOf(e) ELSE NoClip]
           n == [cursor |-> IF IsLast(k) THEN 0 ELSE k + 1, done |-> IsLast(k)]
<1>0. PICK f \in Feeds : round.feed = f
  BY DEF ListClipIDs, RoundInv
<1>1. /\ round.pc = "list" /\ k \in Nat /\ k = progress[f].cursor
      /\ UNCHANGED <<top, listed, rows, progress, missed>>
      /\ round' = [round EXCEPT !.pc = "set", !.found = g, !.next = n]
  BY <1>0 DEF ListClipIDs, RoundInv, RoundType, WalkInv, nrk, database, history
<1>2. /\ round'.pc = "set" /\ round'.feed = f /\ round'.found = g /\ round'.next = n
      /\ round'.missed = round.missed
  BY <1>0, <1>1 DEF RoundInv, RoundType
<1>3. ASSUME NEW e \in Lacking(f), Passed(e, n) PROVE e \in missed[f] \/ g[e] # NoClip
  <2>1. e \in listed /\ e \in EpisodeIds
    BY DEF Lacking, Unrecorded
  <2>2. IsLast(k) \/ Newer(e) < (k + 1) * PageSize
    BY <1>3 DEF Passed
  <2>3. e \in Page(k) \/ Newer(e) < k * PageSize
    BY <1>1, <2>1, <2>2, OnPageOrBefore
  <2>4. CASE e \in Page(k)
    BY <2>1, <2>4, ClipOfType
  <2>5. CASE Newer(e) < k * PageSize
    BY <1>1, <2>5 DEF WalkInv, SavedWalk, Passed
  <2> QED
    BY <2>3, <2>4, <2>5
<1> HIDE DEF k, g, n
<1>4. SavedWalk'
  BY <1>1, SavedStays
<1>5. ASSUME NEW e \in Lacking(f)' PROVE Expected(e)'
  <2>1. e \in Lacking(f)
    BY <1>1, <1>5 DEF Lacking, Unrecorded
  <2>2. Passed(e, round.next)' => Passed(e, n)
    BY <1>1, <1>2 DEF Passed, Newer
  <2>3. Passed(e, n) => e \in missed[f] \/ g[e] # NoClip
    BY <1>3, <2>1
  <2> QED
    BY <1>1, <1>2, <2>2, <2>3 DEF Expected, Found
<1>6. \A e \in Lacking(round.feed)' : Expected(e)'
  BY <1>2, <1>5 DEF Lacking, Unrecorded
<1>7. \A x \in Feeds, e \in EpisodeIds : rows'[x][e].stored => e <= top'
  BY <1>1 DEF WalkInv
<1> QED
  BY <1>2, <1>4, <1>6, <1>7 DEF WalkInv

\* The round records its page's references, or fails to and knows what it missed.
LEMMA RecordKeepsWalk ==
  ASSUME RowsInv, RoundInv, RestInv, RestInv', WalkInv, RowsStep, SetClipIDs \/ SetClipIDsFails
  PROVE  WalkInv'
<1>0. PICK f \in Feeds : round.feed = f
  BY DEF SetClipIDs, SetClipIDsFails, RoundInv
<1>1. /\ round.pc = "set" /\ round.found \in OwnClips
      /\ UNCHANGED <<top, listed, progress, missed>>
  BY <1>0 DEF SetClipIDs, SetClipIDsFails, RoundInv, RoundType, CursorMoves, nrk, database, history
<1>2. PICK m : /\ round' = [round EXCEPT !.pc = "advance", !.found = NothingFound, !.missed = m]
               /\ round.missed \subseteq m
               /\ SetClipIDsFails => m = round.missed \cup {e \in Unrecorded(f) : Found(e)}
  <2>1. CASE SetClipIDs
    <3>1. round' = [round EXCEPT !.pc = "advance", !.found = NothingFound]
      BY <1>1, <2>1 DEF SetClipIDs
    <3>2. round' = [round EXCEPT !.pc = "advance", !.found = NothingFound, !.missed = round.missed]
      BY <3>1 DEF RoundInv, RoundType
    <3>3. ~SetClipIDsFails
      BY <1>1, <2>1 DEF SetClipIDs, SetClipIDsFails, Trouble, RestInv
    <3> QED
      BY <3>2, <3>3
  <2>2. CASE SetClipIDsFails
    BY <1>0, <2>2 DEF SetClipIDsFails
  <2> QED
    BY <2>1, <2>2
<1>3. /\ round'.pc = "advance" /\ round'.feed = f /\ round'.found = NothingFound
      /\ round'.next = round.next /\ round'.missed = m
  BY <1>0, <1>2 DEF RoundInv, RoundType
<1>4. ASSUME NEW e \in Lacking(f)', Found(e) PROVE e \in m
  <2>1. e \in Lacking(f) /\ e \in EpisodeIds
    BY <1>1, <1>4, LackingShrinks DEF Lacking, Unrecorded
  <2>2. CASE SetClipIDs
    <3>1. rows'[f][e] = IF rows[f][e].stored THEN [rows[f][e] EXCEPT !.clip = round.found[e]]
                        ELSE rows[f][e]
      BY <1>0, <1>1, <1>4, <2>1, <2>2 DEF SetClipIDs, RowsInv
    <3>2. rows[f][e] \in Row /\ rows[f][e].stored
      BY <1>1, <2>1, RowStays DEF Lacking, Unrecorded
    <3>3. rows'[f][e].clip = round.found[e]
      BY <3>1, <3>2 DEF Row
    <3> QED
      BY <1>4, <3>3 DEF Lacking, Unrecorded, Found
  <2>3. CASE SetClipIDsFails
    BY <1>2, <1>4, <2>1, <2>3 DEF Lacking
  <2> QED
    BY <2>2, <2>3
<1>5. ASSUME NEW e \in Lacking(f)' PROVE Expected(e)'
  <2>1. e \in Lacking(f)
    BY <1>1, <1>5, LackingShrinks DEF Lacking
  <2>2. Passed(e, round.next) => e \in missed[f] \cup round.missed \/ Found(e)
    BY <1>0, <1>1, <2>1 DEF WalkInv, Expected
  <2>3. Passed(e, round.next) => e \in missed[f] \cup m
    BY <1>2, <1>4, <1>5, <2>2
  <2>4. Passed(e, round.next)' => Passed(e, round.next)
    BY <1>1, <1>3 DEF Passed, Newer
  <2> QED
    BY <1>1, <1>3, <2>3, <2>4 DEF Expected
<1>6. SavedWalk'
  BY <1>1, SavedStays
<1>7. \A x \in Feeds, e \in EpisodeIds : rows'[x][e].stored => e <= top'
  <2>1. top' >= top
    BY <1>1 DEF RestInv
  <2> QED
    BY <2>1, NoneToCome
<1>8. NothingFound' = NothingFound
  BY DEF NothingFound
<1>9. \A e \in Lacking(round.feed)' : Expected(e)'
  BY <1>3, <1>5 DEF Lacking, Unrecorded
<1> QED
  BY <1>3, <1>6, <1>7, <1>8, <1>9 DEF WalkInv

\* Moving the cursor to where the round expects everything passed.
LEMMA CursorKeepsWalk ==
  ASSUME RowsInv, RoundInv, RestInv, WalkInv, SaveProgress
  PROVE  WalkInv'
<1> DEFINE f == round.feed
<1>1. /\ f \in Feeds /\ round.pc = "advance" /\ round'.pc = "none"
      /\ UNCHANGED <<top, listed, rows>>
      /\ progress' = [progress EXCEPT ![f] = round.next]
      /\ missed' = [missed EXCEPT ![f] = @ \cup round.missed]
  BY DEF SaveProgress, RoundInv, CursorMoves, NoRound, nrk
<1>2. \A e : ~Found(e) \/ e \notin EpisodeIds
  BY <1>1 DEF WalkInv, NothingFound, Found
<1>3. ASSUME NEW e \in Lacking(f), Passed(e, round.next) PROVE e \in missed[f] \cup round.missed
  BY <1>1, <1>2, <1>3 DEF WalkInv, Expected, Lacking, Unrecorded
<1>4. /\ progress'[f] = round.next /\ missed'[f] = missed[f] \cup round.missed
      /\ \A g \in Feeds \ {f} : progress'[g] = progress[g] /\ missed'[g] = missed[g]
  BY <1>1 DEF RestInv
<1> HIDE DEF f
<1>5. ASSUME NEW g \in Feeds, NEW e \in Lacking(g)', Passed(e, progress[g])'
      PROVE  e \in missed'[g]
  <2>1. e \in Lacking(g) /\ Passed(e, progress'[g])
    BY <1>1, <1>5 DEF Lacking, Unrecorded, Passed, Newer
  <2>2. CASE g = f
    BY <1>3, <1>4, <2>1, <2>2
  <2>3. CASE g # f
    BY <1>4, <2>1, <2>3 DEF WalkInv, SavedWalk
  <2> QED
    BY <2>2, <2>3
<1>6. \A g \in Feeds, e \in EpisodeIds : rows'[g][e].stored => e <= top'
  BY <1>1 DEF WalkInv
<1> QED
  BY <1>1, <1>5, <1>6 DEF WalkInv, SavedWalk

\* A new episode is not stored yet, and brings no other before a cursor.
LEMMA PublishKeepsWalk ==
  ASSUME RowsInv, RoundInv, RestInv, RestInv', WalkInv, RowsStep,
         NEW v \in 1 .. Versions, Publish(v)
  PROVE  WalkInv'
<1>1. /\ top' = top + 1 /\ listed' = listed \cup {top + 1} /\ top \in Nat
      /\ UNCHANGED <<rows, progress, missed, round>>
  BY DEF Publish, database, worker, history, RestInv
<1>2. ASSUME NEW g \in Feeds, NEW e \in Lacking(g)' PROVE e \in Lacking(g)
  <2>1. e \in EpisodeIds /\ rows[g][e].stored /\ rows[g][e].clip = NoClip
    BY <1>1, <1>2 DEF Lacking, Unrecorded
  <2>2. e # top + 1
    BY <1>1, <2>1, RoundsAssumption DEF WalkInv, EpisodeIds
  <2> QED
    BY <1>1, <1>2, <2>1, <2>2 DEF Lacking, Unrecorded
<1>3. ASSUME NEW g \in Feeds, NEW e \in Lacking(g), NEW p \in Progress,
             p.done \/ Newer(e)' < p.cursor * PageSize
      PROVE  Passed(e, p)
  <2>1. Newer(e)' >= Newer(e) /\ Newer(e) \in Nat /\ Newer(e)' \in Nat
    BY <1>1, PublishMoves DEF Lacking
  <2>2. p.cursor * PageSize \in Nat
    BY RoundsAssumption DEF Progress
  <2> QED
    BY <1>3, <2>1, <2>2 DEF Passed
<1>4. SavedWalk'
  <2> SUFFICES ASSUME NEW g \in Feeds, NEW e \in Lacking(g)', Passed(e, progress[g])'
               PROVE  e \in missed'[g]
    BY DEF SavedWalk
  <2>1. progress[g] \in Progress
    BY DEF RestInv
  <2>2. progress[g].done \/ Newer(e)' < progress[g].cursor * PageSize
    BY <1>1 DEF Passed
  <2>3. e \in Lacking(g) /\ Passed(e, progress[g])
    BY <1>2, <1>3, <2>1, <2>2
  <2> QED
    BY <1>1, <2>3 DEF WalkInv, SavedWalk
<1>5. ASSUME round.pc \in {"set", "advance"}, NEW e \in Lacking(round.feed)'
      PROVE  Expected(e)'
  <2>1. round.feed \in Feeds /\ round.next \in Progress
    BY <1>5 DEF RoundInv, RoundType
  <2>2. e \in Lacking(round.feed)
    <3>1. PICK f \in Feeds : round.feed = f
      BY <2>1
    <3>2. e \in Lacking(f)'
      BY <1>1, <1>5, <3>1 DEF Lacking, Unrecorded
    <3> QED
      BY <1>2, <3>1, <3>2
  <2>3. Passed(e, round.next)' => Passed(e, round.next)
    <3>1. Passed(e, round.next)' => round.next.done \/ Newer(e)' < round.next.cursor * PageSize
      BY <1>1 DEF Passed
    <3> QED
      BY <1>3, <2>1, <2>2, <3>1
  <2> QED
    BY <1>1, <1>5, <2>2, <2>3 DEF WalkInv, Expected, Found
<1>6. \A f \in Feeds, e \in EpisodeIds : rows'[f][e].stored => e <= top'
  <2>1. top' >= top
    BY <1>1
  <2> QED
    BY <2>1, NoneToCome
<1>7. NothingFound' = NothingFound
  BY DEF NothingFound
<1> QED
  BY <1>1, <1>4, <1>5, <1>6, <1>7 DEF WalkInv

\* A withdrawal brings what is older one place to the front: the one that slips
\* before a cursor is known to be missed.
LEMMA WithdrawKeepsWalk ==
  ASSUME RowsInv, RoundInv, RestInv, RestInv', WalkInv, RowsStep,
         NEW w \in listed, Withdraw(w)
  PROVE  WalkInv'
<1>1. /\ listed' = listed \ {w} /\ UNCHANGED <<top, rows, progress>>
      /\ missed' = [f \in Feeds |-> missed[f] \cup
                      IF progress[f].done THEN {} ELSE Slips(f, w, progress[f].cursor)]
      /\ round' = IF round.pc \in {"set", "advance"} /\ ~round.next.done
                  THEN [round EXCEPT !.missed = @ \cup Slips(round.feed, w, round.next.cursor)]
                  ELSE round
  BY DEF Withdraw, database
<1>2. /\ round'.pc = round.pc /\ round'.feed = round.feed /\ round'.page = round.page
      /\ round'.next = round.next /\ round'.found = round.found
      /\ round.missed \subseteq round'.missed
      /\ round.pc \in {"set", "advance"} /\ ~round.next.done =>
           Slips(round.feed, w, round.next.cursor) \subseteq round'.missed
  BY <1>1 DEF RoundInv, RoundType
<1>3. ASSUME NEW g \in Feeds PROVE Lacking(g)' \subseteq Lacking(g)
  BY <1>1 DEF Lacking, Unrecorded
<1>4. ASSUME NEW g \in Feeds, NEW e \in Lacking(g), NEW p \in Progress,
             p.done \/ Newer(e)' < p.cursor * PageSize
      PROVE  Passed(e, p) \/ (~p.done /\ e \in Slips(g, w, p.cursor))
  <2>1. CASE p.done
    BY <2>1 DEF Passed
  <2>2. CASE ~p.done
    <3>1. Newer(e)' = IF e < w THEN Newer(e) - 1 ELSE Newer(e)
      BY <1>1, WithdrawMoves DEF Lacking
    <3>2. Newer(e) \in Nat
      BY PlaceInListing DEF Lacking
    <3>3. p.cursor * PageSize \in Nat
      BY RoundsAssumption DEF Progress
    <3>4. Newer(e) < p.cursor * PageSize \/ (e < w /\ Newer(e) = p.cursor * PageSize)
      BY <1>4, <2>2, <3>1, <3>2, <3>3
    <3> QED
      BY <2>2, <3>4 DEF Passed, Slips, Lacking
  <2> QED
    BY <2>1, <2>2
<1>5. SavedWalk'
  <2> SUFFICES ASSUME NEW g \in Feeds, NEW e \in Lacking(g)', Passed(e, progress[g])'
               PROVE  e \in missed'[g]
    BY DEF SavedWalk
  <2>1. progress[g] \in Progress /\ e \in Lacking(g)
    BY <1>3 DEF RestInv
  <2>2. progress[g].done \/ Newer(e)' < progress[g].cursor * PageSize
    BY <1>1 DEF Passed
  <2>3. Passed(e, progress[g]) \/ (~progress[g].done /\ e \in Slips(g, w, progress[g].cursor))
    BY <1>4, <2>1, <2>2
  <2>4. Passed(e, progress[g]) => e \in missed[g]
    BY <2>1 DEF WalkInv, SavedWalk
  <2>5. missed'[g] = missed[g] \cup
                       IF progress[g].done THEN {} ELSE Slips(g, w, progress[g].cursor)
    BY <1>1
  <2> QED
    BY <2>3, <2>4, <2>5
<1>6. ASSUME round.pc \in {"set", "advance"}, NEW e \in Lacking(round.feed)'
      PROVE  Expected(e)'
  <2>1. round.feed \in Feeds /\ round.next \in Progress
    BY <1>6 DEF RoundInv, RoundType
  <2>2. e \in Lacking(round.feed)
    <3>1. PICK f \in Feeds : round.feed = f
      BY <2>1
    <3>2. e \in Lacking(f)'
      BY <1>2, <1>6, <3>1 DEF Lacking, Unrecorded
    <3> QED
      BY <1>3, <3>1, <3>2
  <2>3. Passed(e, round.next)' => round.next.done \/ Newer(e)' < round.next.cursor * PageSize
    BY <1>2 DEF Passed
  <2>4. Passed(e, round.next)' =>
          \/ Passed(e, round.next)
          \/ ~round.next.done /\ e \in Slips(round.feed, w, round.next.cursor)
    BY <1>4, <2>1, <2>2, <2>3
  <2>5. missed[round.feed] \subseteq missed'[round.feed]
    BY <1>1, <2>1
  <2>6. Passed(e, round.next) => e \in missed[round.feed] \cup round.missed \/ Found(e)
    BY <1>6, <2>2 DEF WalkInv, Expected
  <2>7. Found(e)' <=> Found(e)
    BY <1>2 DEF Found
  <2> QED
    BY <1>2, <1>6, <2>4, <2>5, <2>6, <2>7 DEF Expected
<1>7. \A f \in Feeds, e \in EpisodeIds : rows'[f][e].stored => e <= top'
  BY <1>1 DEF WalkInv
<1>8. NothingFound' = NothingFound
  BY DEF NothingFound
<1> QED
  BY <1>1, <1>2, <1>5, <1>6, <1>7, <1>8 DEF WalkInv

\* Every step keeps references behind the cursor.
LEMMA WalkStep ==
  ASSUME RowsInv, RoundInv, RestInv, RestInv', WalkInv, [Next]_vars
  PROVE  WalkInv'
<1>1. RowsStep
  BY EveryRowsStep
<1>2. CASE ListClipIDs
  BY <1>1, <1>2, ListKeepsWalk
<1>3. CASE SetClipIDs \/ SetClipIDsFails
  BY <1>1, <1>3, RecordKeepsWalk
<1>4. CASE SaveProgress
  BY <1>4, CursorKeepsWalk
<1>5. ASSUME NEW v \in 1 .. Versions, Publish(v) PROVE WalkInv'
  BY <1>1, <1>5, PublishKeepsWalk
<1>6. ASSUME NEW w \in listed, Withdraw(w) PROVE WalkInv'
  BY <1>1, <1>6, WithdrawKeepsWalk
<1>7. ASSUME UNCHANGED <<top, listed, progress>>,
             \A f \in Feeds : missed[f] \subseteq missed'[f] \/ Unrecorded(f)' = {},
             \/ round'.pc \notin {"list", "set", "advance"}
             \/ UNCHANGED round
             \/ round'.pc = "list" /\ round'.page = progress[round'.feed].cursor
      PROVE  WalkInv'
  BY <1>1, <1>7, WalkStays
<1>8. ASSUME NEW f \in Feeds, DeleteFeed(f) PROVE WalkInv'
  <2>1. \A g \in Feeds : missed[g] \subseteq missed'[g] \/ Unrecorded(g)' = {}
    BY <1>8 DEF DeleteFeed, RestInv, RowsInv, Unrecorded, Gone
  <2> QED
    BY <1>7, <1>8, <2>1 DEF DeleteFeed, nrk, worker
<1>9. CASE ChecksEnd
  <2>1. \/ round' = NoRound
        \/ round' = [round EXCEPT !.pc = "list", !.page = progress[round.feed].cursor]
    BY <1>9 DEF ChecksEnd
  <2>2. \/ round'.pc \notin {"list", "set", "advance"}
        \/ round'.pc = "list" /\ round'.page = progress[round'.feed].cursor
    <3>1. round \in RoundType
      BY DEF RoundInv
    <3>2. CASE round' = NoRound
      BY <3>2 DEF NoRound
    <3>3. CASE round' = [round EXCEPT !.pc = "list", !.page = progress[round.feed].cursor]
      <4>1. round'.pc = "list" /\ round'.feed = round.feed
            /\ round'.page = progress[round.feed].cursor
        BY <3>1, <3>3 DEF RoundType
      <4> QED
        BY <4>1
    <3> QED
      BY <2>1, <3>2, <3>3
  <2> QED
    BY <1>7, <1>9, <2>2 DEF ChecksEnd, database, nrk, history
<1>10. CASE Dequeue \/ ReadCandidates \/ ListClipIDsFails \/ Restart
  <2>1. round'.pc \notin {"list", "set", "advance"}
    <3>1. CASE ReadCandidates
      <4>1. round \in RoundType
        BY DEF RoundInv
      <4>2. PICK work : round' = [round EXCEPT !.pc = "check", !.work = work]
        BY <3>1 DEF ReadCandidates
      <4>3. round'.pc = "check"
        BY <4>1, <4>2 DEF RoundType
      <4> QED
        BY <4>3
    <3>2. CASE Dequeue \/ ListClipIDsFails \/ Restart
      <4>1. round' = NoRound \/ round' = [NoRound EXCEPT !.pc = "read", !.feed = Head(queue)]
        BY <3>2 DEF Dequeue, ListClipIDsFails, Restart
      <4>2. NoRound.pc = "none" /\ [NoRound EXCEPT !.pc = "read", !.feed = Head(queue)].pc = "read"
        BY DEF NoRound
      <4> HIDE DEF NoRound
      <4>3. round'.pc = "none" \/ round'.pc = "read"
        BY <4>1, <4>2
      <4> QED
        BY <4>3
    <3> QED
      BY <1>10, <3>1, <3>2
  <2> QED
    BY <1>7, <1>10, <2>1 DEF Dequeue, ReadCandidates, ListClipIDsFails, Restart, database,
       nrk, history
<1>11. ASSUME NEW c \in Checkers, Take(c) PROVE WalkInv'
  <2>1. round'.pc = "check"
    BY <1>11 DEF Take, RoundInv, RoundType
  <2> QED
    BY <1>7, <1>11, <2>1 DEF Take, database, nrk, history
<1>12. CASE UNCHANGED <<top, listed, progress, round, missed>>
  BY <1>7, <1>12
<1> QED
  BY <1>2, <1>3, <1>4, <1>5, <1>6, <1>8, <1>9, <1>10, <1>11, <1>12 DEF Next, Polled, Round,
     Environment, Refresh, CrawlCompletes, CheckPasses, ReplaceClip, DeadlinePasses,
     BackfillDeadlinePasses, Answer, Fail, SetVideo, worker, database, nrk, history, vars

-----------------------------------------------------------------------------
(* The invariant.                                                          *)

\* The feeds whose archive was crawled before references were kept.
LEMMA InvInit == Init => IInv
<1> SUFFICES ASSUME Init PROVE IInv
  OBVIOUS
<1> DEFINE first(e) == IF e \in listed THEN Stored(NoClip) ELSE Gone
<1>1. \A e \in EpisodeIds : /\ first(e) \in Row /\ first(e).url = NoClip
                            /\ first(e).clip = NoClip
                            /\ first(e).stored => e <= top
  BY RoundsAssumption DEF Init, Stored, Gone, Row, EpisodeIds, NoClip
<1>2. \A f \in Feeds, e \in EpisodeIds : rows[f][e] = first(e)
  BY DEF Init
<1>3. rows = [f \in Feeds |-> [e \in EpisodeIds |-> first(e)]]
  BY DEF Init
<1> HIDE DEF first
<1>4. RowsInv
  BY <1>1, <1>2, <1>3 DEF RowsInv, VideoOfTheEpisode
<1>5. RoundInv
  <2>1. OwnCheck(NoCheck) /\ NoCheck \in Check
    BY NoCheckType DEF OwnCheck
  <2>2. NoRound \in RoundType
    BY NoRoundType
  <2>3. round = NoRound /\ checks = [c \in Checkers |-> NoCheck]
    BY DEF Init
  <2> HIDE DEF OwnCheck
  <2> QED
    BY <2>1, <2>2, <2>3 DEF RoundInv, NoRound, NoCheck
<1>6. QueueInv
  <2>1. queue = <<>> /\ queue \in Seq(Feeds) /\ 1 .. Len(queue) = {}
    BY DEF Init
  <2> QED
    BY <2>1 DEF Init, QueueInv, NoRequestIsLost
<1>7. RestInv
  BY RoundsAssumption DEF Init, RestInv, NoProgress, Progress, EpisodeIds
<1>8. WalkInv
  <2>1. ASSUME NEW f \in Feeds, NEW e \in listed PROVE ~Passed(e, progress[f])
    <3>1. Newer(e) \in Nat
      BY <1>7, PlaceInListing
    <3>2. progress[f].cursor = 0 /\ ~progress[f].done
      BY DEF Init, NoProgress
    <3> QED
      BY <3>1, <3>2, RoundsAssumption DEF Passed
  <2>2. round.pc = "none"
    BY DEF Init, NoRound
  <2> QED
    BY <1>1, <1>2, <2>1, <2>2 DEF WalkInv, SavedWalk, Lacking
<1> QED
  BY <1>4, <1>5, <1>6, <1>7, <1>8 DEF IInv

\* Every step keeps it.
LEMMA InvStep == IInv /\ [Next]_vars => IInv'
<1> SUFFICES ASSUME IInv, [Next]_vars PROVE IInv'
  OBVIOUS
<1> USE DEF IInv
<1>1. RowsInv'
  BY EveryRowsStep, RowsStepKeeps
<1>2. RoundInv'
  BY RoundStep
<1>3. QueueInv'
  BY QueueStep
<1>4. RestInv'
  BY RestStep
<1>5. WalkInv'
  BY <1>4, WalkStep
<1> QED
  BY <1>1, <1>2, <1>3, <1>4, <1>5

\* The invariant holds throughout.
LEMMA Invariance == Spec => []IInv
  BY InvInit, InvStep, PTL DEF Spec

\* A queue that holds each feed once is not longer than there are feeds.
LEMMA QueueIsBounded ==
  ASSUME QueueInv
  PROVE  Len(queue) <= Cardinality(Feeds)
<1>1. Len(queue) \in Nat /\ queue \in [1 .. Len(queue) -> Feeds]
  BY LenProperties DEF QueueInv
<1>2. queue \in Injection(1 .. Len(queue), Feeds)
  BY <1>1 DEF QueueInv, Injection, IsInjective
<1>3. Cardinality(1 .. Len(queue)) <= Cardinality(Feeds)
  BY <1>2, FeedsAssumption, FS_Injection
<1>4. Cardinality(1 .. Len(queue)) = Len(queue)
  BY <1>1, FS_Interval
<1> QED
  BY <1>3, <1>4

\* What is behind the cursor has references, page by page.
LEMMA WalkedPages ==
  ASSUME RestInv, WalkInv
  PROVE  WalkedPagesHaveClips
<1> SUFFICES ASSUME NEW f \in Feeds, NEW e \in listed \ missed[f], rows[f][e].stored,
                    progress[f].done \/ \E k \in 0 .. progress[f].cursor - 1 : e \in Page(k),
                    rows[f][e].clip = NoClip
             PROVE  FALSE
  BY DEF WalkedPagesHaveClips
<1>1. progress[f].cursor \in Nat
  BY DEF RestInv, Progress
<1>2. ASSUME NEW k \in 0 .. progress[f].cursor - 1, e \in Page(k)
      PROVE  Newer(e) < progress[f].cursor * PageSize
  <2>1. k \in Nat /\ k + 1 \in Nat /\ k + 1 <= progress[f].cursor
    BY <1>1
  <2>2. Newer(e) < (k + 1) * PageSize
    BY <1>2, <2>1, PageBounds
  <2>3. (k + 1) * PageSize <= progress[f].cursor * PageSize
    BY <1>1, <2>1, PagesAscend
  <2>4. (k + 1) * PageSize \in Int /\ progress[f].cursor * PageSize \in Int /\ Newer(e) \in Int
    BY <1>1, <2>1, RoundsAssumption, PlaceInListing
  <2> QED
    BY <2>2, <2>3, <2>4
<1>3. Passed(e, progress[f])
  BY <1>2 DEF Passed
<1>4. e \in Lacking(f)
  BY RoundsAssumption DEF Lacking, Unrecorded, RestInv, EpisodeIds
<1> QED
  BY <1>3, <1>4 DEF WalkInv, SavedWalk

-----------------------------------------------------------------------------
(* The theorems.                                                           *)

\* Rows, round, queue and progress keep their types, and the queue never holds
\* more than the feeds there are (store/video.go, video/worker.go).
THEOREM TypeCorrect == Spec => []TypeOK
<1>1. IInv => TypeOK
  BY QueueIsBounded DEF IInv, RowsInv, RoundInv, RoundType, QueueInv, RestInv, Progress,
     Check, TypeOK
<1> QED
  BY <1>1, Invariance, PTL

\* A feed shows an episode with that episode's own video, of the length of its
\* audio: reused results, replaced clips and deleted rows do not mix them up.
THEOREM OwnVideo == Spec => []VideoOfTheEpisode
<1>1. IInv => VideoOfTheEpisode
  BY DEF IInv, RowsInv
<1> QED
  BY <1>1, Invariance, PTL

\* A feed that was asked for waits for a round that has still to read what is
\* due (Worker.Enqueue, Worker.process).
THEOREM RequestsKept == Spec => []NoRequestIsLost
<1>1. IInv => NoRequestIsLost
  BY DEF IInv, QueueInv
<1> QED
  BY <1>1, Invariance, PTL

\* Whatever is published, withdrawn, deleted, listed, failed or restarted between
\* its reads and its writes, the backfill (Worker.backfillClipIDs) moves its cursor
\* past no stored row without a reference, but for those it has no way to record:
\* the one row each withdrawal slips in front of a cursor, and the page whose
\* write failed.
THEOREM NothingSkipped == Spec => []WalkedPagesHaveClips
<1>1. IInv => WalkedPagesHaveClips
  BY WalkedPages DEF IInv
<1> QED
  BY <1>1, Invariance, PTL
=============================================================================
