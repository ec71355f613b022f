------------------------------ MODULE VideoRounds ------------------------------
(***************************************************************************)
(* The video worker (video/worker.go) on the episodes table                *)
(* (store/video.go): one round at a time, each looking up some due clips    *)
(* at NRK (nrk/video.go) and walking one page of the feed's archive for     *)
(* clip references that older rows lack, while refreshes and the crawl      *)
(* write references, an admin deletes feeds and the process restarts.       *)
(*                                                                         *)
(* Episodes are numbered in publishing order and the feeds share them, as a *)
(* podcast and its season feed do. NRK publishes and withdraws them at any  *)
(* time, so that the listing shifts under the walk. NRK's clips for episode *)
(* e are <<e, v>>: it may replace a reference by the next version.          *)
(***************************************************************************)
EXTENDS Integers, FiniteSets, Sequences

CONSTANTS
  Feeds, Checkers,      \* feeds; the goroutines of a round (2)
  Episodes,             \* episodes 1 .. Episodes
  OldEpisodes,          \* the first ones, stored before references were kept
  PageSize,             \* episodes on a listing page
  PerRound,             \* lookups of a round (20)
  Dormant,              \* feeds refreshed less often than a day's deadline lasts
  LongAfter,            \* failures after which a deadline outlasts a refresh interval (9)
  Versions,             \* bound: clips NRK has for one episode
  Trailers,             \* clips whose video has another length than the audio
  Unreachable,          \* clips whose lookup always fails transiently
  MaxTrouble            \* bound: failures, restarts, deletions, withdrawals, replaced
                        \* clips, checks due again

ASSUME RoundsAssumption ==
  /\ Episodes \in Nat \ {0} /\ OldEpisodes \in 0 .. Episodes /\ PageSize \in Nat \ {0}
  /\ PerRound \in Nat \ {0} /\ Versions \in Nat \ {0} /\ MaxTrouble \in Nat
  /\ LongAfter \in Nat \ {0}
ASSUME FeedsAssumption == IsFiniteSet(Feeds) /\ Dormant \subseteq Feeds

VARIABLES
  top, listed,      \* NRK: newest episode so far, episodes in the listing
  refs,             \* NRK: each episode's clip version now
  rows,             \* the episodes table, per feed and episode
  complete,         \* series.backlog_complete
  progress,         \* app_state "video-backfill:{feed}"
  deferred,         \* clips with a "retry:video:{clip}" deadline ahead
  attempts,         \* the failures it counts, up to LongAfter
  outlasts,         \* the feeds whose next round the deadline outlasts
  pausedBackfill,   \* "retry:video-backfill:{feed}"
  queue, queued,    \* the worker's queue (memory)
  round,            \* the round that runs (memory)
  checks,           \* what its goroutines do (memory)
  asked,            \* history: rounds asked for since the feed's last began
  missed,           \* history: rows that the walk could not record, see Withdraw
  trouble           \* how much of MaxTrouble is used

nrk == <<top, listed, refs>>
deadlines == <<deferred, attempts, outlasts>>
database == <<rows, complete, progress, deadlines, pausedBackfill>>
worker   == <<queue, queued, round, checks>>
history == <<asked, missed>>
vars == <<nrk, database, worker, history, trouble>>

EpisodeIds == 1 .. Episodes
Clips == EpisodeIds \X (1 .. Versions)
NoClip == <<0, 0>>

\* due: video_next_check_at is NULL, or has passed.
Gone == [stored |-> FALSE, clip |-> NoClip, url |-> NoClip, due |-> TRUE]
Stored(clip) == [stored |-> TRUE, clip |-> clip, url |-> NoClip, due |-> TRUE]
NoProgress == [cursor |-> 0, done |-> FALSE]
NothingFound == [e \in EpisodeIds |-> NoClip]
NoRound == [pc |-> "none", feed |-> "none", work |-> {}, page |-> 0,
            found |-> NothingFound, next |-> NoProgress, missed |-> {}]
NoCheck == [pc |-> "none", episode |-> 0, clip |-> NoClip, url |-> NoClip]
Gets(c, state) == checks' = [checks EXCEPT ![c] = state]

Trouble == trouble < MaxTrouble /\ trouble' = trouble + 1

\* The listing, newest first.
Newer(e) == Cardinality({x \in listed : x > e})
Page(k) == {e \in listed : k * PageSize <= Newer(e) /\ Newer(e) < (k + 1) * PageSize}
IsLastOffByOne(k) == k * PageSize >= Cardinality(listed)
IsLast(k) == (k + 1) * PageSize >= Cardinality(listed)
ClipOf(e) == <<e, refs[e]>>

-----------------------------------------------------------------------------
(* Other writers.                                                          *)

\* A refresh has read the first page, or the crawl any page of an archive
\* that is not complete: new rows get their clip, and SetClipIDs records the
\* references of rows stored earlier. What the row knows of a video stays.
Listed(f, S) ==
  rows' = [rows EXCEPT ![f] = [e \in EpisodeIds |->
             IF e \notin S THEN rows[f][e]
             ELSE IF rows[f][e].stored THEN [rows[f][e] EXCEPT !.clip = ClipOf(e)]
             ELSE Stored(ClipOf(e))]]

\* Enqueue: a no-op for a feed that is queued, not for one in its round.
Enqueued(f) ==
  /\ asked' = asked \cup {f}
  /\ IF f \in queued THEN UNCHANGED <<queue, queued>>
     ELSE queue' = Append(queue, f) /\ queued' = queued \cup {f}

Refresh(f) ==
  /\ Listed(f, Page(0))
  /\ Enqueued(f)
  /\ UNCHANGED <<nrk, complete, progress, deadlines, pausedBackfill, round, checks, missed, trouble>>

\* The crawl's pages, taken together.
CrawlCompletes(f) ==
  /\ ~complete[f] /\ \E e \in EpisodeIds : rows[f][e].stored
  /\ Listed(f, listed)
  /\ complete' = [complete EXCEPT ![f] = TRUE]
  /\ Enqueued(f)
  /\ UNCHANGED <<nrk, progress, deadlines, pausedBackfill, round, checks, missed, trouble>>

\* The feed's video-backfill progress is left behind.
DeleteFeed(f) ==
  /\ \E e \in EpisodeIds : rows[f][e].stored
  /\ Trouble
  /\ rows' = [rows EXCEPT ![f] = [e \in EpisodeIds |-> Gone]]
  /\ complete' = [complete EXCEPT ![f] = FALSE]
  /\ missed' = [missed EXCEPT ![f] = {}]
  /\ UNCHANGED <<nrk, progress, deadlines, pausedBackfill, worker, asked>>

\* NRK replaces the video of an episode.
ReplaceClip(e) ==
  /\ refs[e] < Versions
  /\ Trouble
  /\ refs' = [refs EXCEPT ![e] = @ + 1]
  /\ UNCHANGED <<top, listed, database, worker, history>>

Publish(v) ==
  /\ top < Episodes
  /\ top' = top + 1 /\ listed' = listed \cup {top + 1}
  /\ refs' = [refs EXCEPT ![top + 1] = v]
  /\ UNCHANGED <<database, worker, history, trouble>>

\* The rows of f that still lack a reference.
Unrecorded(f) == {x \in EpisodeIds : rows[f][x].stored /\ rows[f][x].clip = NoClip}

\* The one of them that is first behind the pages before k, and moves onto these
\* when e goes.
Slips(f, e, k) == {x \in listed \cap Unrecorded(f) : x < e /\ Newer(x) = k * PageSize}

\* NRK withdraws an episode. The walk has no page of overlap: a row that slips
\* onto a page that it has passed, or that it has read and is about to pass, is
\* not seen again.
Withdraw(e) ==
  /\ Trouble
  /\ listed' = listed \ {e}
  /\ missed' = [f \in Feeds |-> missed[f] \cup
                  IF progress[f].done THEN {} ELSE Slips(f, e, progress[f].cursor)]
  /\ round' = IF round.pc \in {"set", "advance"} /\ ~round.next.done
              THEN [round EXCEPT !.missed = @ \cup Slips(round.feed, e, round.next.cursor)] ELSE round
  /\ UNCHANGED <<top, refs, database, queue, queued, checks, asked>>

\* A row's next check comes due.
CheckPasses(f, e) ==
  /\ ~rows[f][e].due
  /\ Trouble
  /\ rows' = [rows EXCEPT ![f][e] = [@ EXCEPT !.due = TRUE]]
  /\ UNCHANGED <<nrk, complete, progress, deadlines, pausedBackfill, worker, history>>

\* Retry deadlines double from five minutes up to a day. The first ones end
\* before the next round; those after LongAfter failures outlast the next round
\* of a feed that is refreshed every few hours, but not of a dormant one.
DeadlinePasses(clip) ==
  /\ clip \in deferred /\ outlasts[clip] = {}
  /\ deferred' = deferred \ {clip}
  /\ UNCHANGED <<nrk, rows, complete, progress, attempts, outlasts, pausedBackfill, worker,
                 history, trouble>>

BackfillDeadlinePasses(f) ==
  /\ pausedBackfill[f]
  /\ pausedBackfill' = [pausedBackfill EXCEPT ![f] = FALSE]
  /\ UNCHANGED <<nrk, rows, complete, progress, deadlines, worker, history, trouble>>

-----------------------------------------------------------------------------
(* A round (process, checkDue, check).                                     *)

DueNow(f) ==
  {e \in EpisodeIds : rows[f][e].stored /\ rows[f][e].clip # NoClip /\ rows[f][e].due}
Due(f) == {e \in DueNow(f) : rows[f][e].clip \notin deferred}

\* VideosDue: the newest PerRound of them.
VideosDue(f) == {e \in Due(f) : Cardinality({x \in Due(f) : x > e}) < PerRound}

\* The feed leaves the queued set before its round, which then reads the
\* candidates and their clips.
StaysQueued(f) == queued
Unqueued(f) == queued \ {f}

Dequeue ==
  /\ round.pc = "none" /\ queue # <<>>
  /\ queue' = Tail(queue) /\ queued' = Unqueued(Head(queue))
  /\ round' = [NoRound EXCEPT !.pc = "read", !.feed = Head(queue)]
  /\ UNCHANGED <<nrk, database, checks, history, trouble>>

ReadCandidates ==
  /\ round.pc = "read"
  /\ round' = [round EXCEPT !.pc = "check",
                 !.work = {[episode |-> e, clip |-> rows[round.feed][e].clip] :
                             e \in VideosDue(round.feed)}]
  /\ outlasts' = [clip \in Clips |-> outlasts[clip] \ {round.feed}]
  /\ asked' = asked \ {round.feed}
  /\ UNCHANGED <<nrk, rows, complete, progress, deferred, attempts, pausedBackfill, queue,
                 queued, checks, missed, trouble>>

\* KnownVideo: what a check of the same clip found, in this feed or another,
\* until that check is due again.
Checked(r) == r.stored /\ ~r.due
KnownOfAny(clip) == {url \in Clips \cup {NoClip} :
  \E f \in Feeds, e \in EpisodeIds : Checked(rows[f][e]) /\ rows[f][e].url = url}
Known(clip) == {url \in Clips \cup {NoClip} :
  \E f \in Feeds, e \in EpisodeIds :
    Checked(rows[f][e]) /\ rows[f][e].clip = clip /\ rows[f][e].url = url}

\* A goroutine takes a candidate: a known result is used, a clip under a
\* deadline is left, else NRK is asked.
Take(c) ==
  /\ round.pc = "check" /\ checks[c].pc = "none"
  /\ \E w \in round.work :
       /\ \A v \in round.work : v.episode <= w.episode
       /\ round' = [round EXCEPT !.work = @ \ {w}]
       /\ \/ \E url \in Known(w.clip) :
               Gets(c, [pc |-> "reuse", episode |-> w.episode, clip |-> w.clip, url |-> url])
          \/ /\ Known(w.clip) = {}
             /\ Gets(c, IF w.clip \notin deferred
                        THEN [NoCheck EXCEPT !.pc = "lookup", !.episode = w.episode, !.clip = w.clip]
                        ELSE NoCheck)
  /\ UNCHANGED <<nrk, database, queue, queued, history, trouble>>

\* Matches: the video is as long as the audio.
Matches(clip) == clip \notin Trailers

\* NRK has the clip's video, or none that is usable (its URL is the clip's).
Answer(c) ==
  LET k == checks[c] IN
  /\ k.pc = "lookup" /\ k.clip \notin Unreachable
  /\ \E usable \in BOOLEAN :
       Gets(c, [k EXCEPT !.pc = "set", !.url = IF usable /\ Matches(k.clip) THEN k.clip ELSE NoClip])
  /\ UNCHANGED <<nrk, database, queue, queued, round, history, trouble>>

\* A transient failure keeps what the row has.
Fail(c) ==
  LET k == checks[c] IN
  /\ k.pc = "lookup"
  /\ IF k.clip \in Unreachable THEN UNCHANGED trouble ELSE Trouble
  /\ deferred' = deferred \cup {k.clip}
  /\ attempts' = [attempts EXCEPT ![k.clip] = IF @ < LongAfter THEN @ + 1 ELSE @]
  /\ outlasts' = [outlasts EXCEPT ![k.clip] =
                    IF attempts'[k.clip] = LongAfter THEN Feeds \ Dormant ELSE {}]
  /\ Gets(c, NoCheck)
  /\ UNCHANGED <<nrk, rows, complete, progress, pausedBackfill, queue, queued, round, history>>

\* SetVideo, on the row as it is by now; after a lookup also Clear.
SetVideo(c) ==
  LET k == checks[c] IN
  /\ k.pc \in {"reuse", "set"}
  /\ rows' = IF rows[round.feed][k.episode].stored
             THEN [rows EXCEPT ![round.feed][k.episode] = [@ EXCEPT !.url = k.url, !.due = FALSE]]
             ELSE rows
  /\ IF k.pc = "reuse" THEN UNCHANGED deadlines
     ELSE /\ deferred' = deferred \ {k.clip}
          /\ attempts' = [attempts EXCEPT ![k.clip] = 0]
          /\ outlasts' = [outlasts EXCEPT ![k.clip] = {}]
  /\ Gets(c, NoCheck)
  /\ UNCHANGED <<nrk, complete, progress, pausedBackfill, queue, queued, round, history, trouble>>

-----------------------------------------------------------------------------
(* The end of a round: one page of the backfill (backfillClipIDs).         *)

HasVideo(f) == \E e \in EpisodeIds : rows[f][e].stored /\ rows[f][e].url # NoClip

\* The goroutines have ended. Only shows with a video, whose archive is
\* complete, are walked, until the walk is done.
ChecksEnd ==
  LET f == round.feed IN
  /\ round.pc = "check" /\ round.work = {} /\ \A c \in Checkers : checks[c] = NoCheck
  /\ round' = IF HasVideo(f) /\ complete[f] /\ ~progress[f].done /\ ~pausedBackfill[f]
              THEN [round EXCEPT !.pc = "list", !.page = progress[f].cursor]
              ELSE NoRound
  /\ UNCHANGED <<nrk, database, queue, queued, checks, history, trouble>>

\* NRK's page and its link to the next, as they are now. A page that the
\* listing no longer reaches comes empty, and ends the walk, or fails.
ListClipIDs ==
  LET k == round.page IN
  /\ round.pc = "list"
  /\ round' = [round EXCEPT !.pc = "set",
                 !.found = [e \in EpisodeIds |-> IF e \in Page(k) THEN ClipOf(e) ELSE NoClip],
                 !.next = [cursor |-> IF IsLast(k) THEN 0 ELSE k + 1, done |-> IsLast(k)]]
  /\ UNCHANGED <<nrk, database, queue, queued, checks, history, trouble>>

ListClipIDsFails ==
  /\ round.pc = "list"
  /\ IF Page(round.page) = {} THEN UNCHANGED trouble ELSE Trouble
  /\ pausedBackfill' = [pausedBackfill EXCEPT ![round.feed] = TRUE]
  /\ round' = NoRound
  /\ UNCHANGED <<nrk, rows, complete, progress, deadlines, queue, queued, checks, history>>

\* The references are recorded before the cursor moves past their page.
CursorMovesFirst == round.pc = "set"
CursorMoves == round.pc = "advance"
Found(e) == round.found[e] # NoClip

SetClipIDs ==
  LET f == round.feed IN
  /\ round.pc \in {"set", "advance"} /\ ~CursorMoves
  /\ rows' = [rows EXCEPT ![f] = [e \in EpisodeIds |->
                IF rows[f][e].stored /\ Found(e)
                THEN [rows[f][e] EXCEPT !.clip = round.found[e]] ELSE rows[f][e]]]
  /\ round' = IF round.pc = "set" THEN [round EXCEPT !.pc = "advance", !.found = NothingFound]
              ELSE NoRound
  /\ UNCHANGED <<nrk, complete, progress, deadlines, pausedBackfill, queue, queued, checks,
                 history, trouble>>

\* A write that fails is only logged, and the walk goes on.
SetClipIDsFails ==
  /\ round.pc = "set"
  /\ Trouble
  /\ round' = [round EXCEPT !.pc = "advance", !.found = NothingFound,
                 !.missed = @ \cup {e \in Unrecorded(round.feed) : Found(e)}]
  /\ UNCHANGED <<nrk, database, queue, queued, checks, history>>

SaveProgress ==
  LET f == round.feed IN
  /\ CursorMoves
  /\ pausedBackfill' = [pausedBackfill EXCEPT ![f] = FALSE]
  /\ progress' = [progress EXCEPT ![f] = round.next]
  /\ missed' = [missed EXCEPT ![f] = @ \cup round.missed]
  /\ round' = IF round.pc = "advance" THEN NoRound ELSE [round EXCEPT !.pc = "advance"]
  /\ UNCHANGED <<nrk, rows, complete, deadlines, queue, queued, checks, asked, trouble>>

\* A restart, or a shutdown, drops the queue and the round.
Restart ==
  /\ round.pc # "none" \/ queue # <<>>
  /\ Trouble
  /\ queue' = <<>> /\ queued' = {} /\ round' = NoRound
  /\ checks' = [c \in Checkers |-> NoCheck] /\ asked' = {}
  /\ UNCHANGED <<nrk, database, missed>>

-----------------------------------------------------------------------------
\* Feeds whose archive was crawled before references were kept.
Init ==
  /\ top = OldEpisodes /\ listed = 1 .. top
  /\ refs = [e \in EpisodeIds |-> 1]
  /\ rows = [f \in Feeds |-> [e \in EpisodeIds |->
               IF e \in listed THEN Stored(NoClip) ELSE Gone]]
  /\ complete = [f \in Feeds |-> TRUE]
  /\ progress = [f \in Feeds |-> NoProgress]
  /\ deferred = {} /\ attempts = [clip \in Clips |-> 0]
  /\ outlasts = [clip \in Clips |-> {}]
  /\ pausedBackfill = [f \in Feeds |-> FALSE]
  /\ queue = <<>> /\ queued = {} /\ round = NoRound
  /\ checks = [c \in Checkers |-> NoCheck]
  /\ asked = {} /\ missed = [f \in Feeds |-> {}] /\ trouble = 0

Polled == \E f \in Feeds : Refresh(f) \/ CrawlCompletes(f)
Round ==
  \/ Dequeue \/ ReadCandidates \/ ChecksEnd \/ ListClipIDs \/ SetClipIDs \/ SaveProgress
  \/ \E c \in Checkers : Take(c) \/ Answer(c) \/ SetVideo(c)
Environment ==
  \/ \E f \in Feeds : DeleteFeed(f) \/ BackfillDeadlinePasses(f)
  \/ \E f \in Feeds, e \in EpisodeIds : CheckPasses(f, e)
  \/ \E e \in EpisodeIds : ReplaceClip(e)
  \/ \E v \in 1 .. Versions : Publish(v)
  \/ \E e \in listed : Withdraw(e)
  \/ \E clip \in Clips : DeadlinePasses(clip)
  \/ \E c \in Checkers : Fail(c)
  \/ ListClipIDsFails \/ SetClipIDsFails \/ Restart

Next == Polled \/ Round \/ Environment

Spec == Init /\ [][Next]_vars

\* The feeds stay in use, so that each is refreshed again and again; the
\* rounds run; a lookup that fails does so in a bounded time; deadlines pass.
Fairness ==
  /\ \A f \in Feeds : WF_vars(Refresh(f))
  /\ WF_vars(Round)
  /\ \A c \in Checkers : WF_vars(Fail(c) /\ checks[c].clip \in Unreachable)
  /\ \A clip \in Clips : WF_vars(DeadlinePasses(clip))
FairSpec == Spec /\ Fairness

-----------------------------------------------------------------------------
(* Properties.                                                             *)

Row == [stored : BOOLEAN, clip : Clips \cup {NoClip}, url : Clips \cup {NoClip}, due : BOOLEAN]

TypeOK ==
  /\ top \in 0 .. Episodes /\ listed \subseteq 1 .. top
  /\ refs \in [EpisodeIds -> 1 .. Versions]
  /\ rows \in [Feeds -> [EpisodeIds -> Row]]
  /\ complete \in [Feeds -> BOOLEAN] /\ pausedBackfill \in [Feeds -> BOOLEAN]
  /\ progress \in [Feeds -> [cursor : 0 .. Episodes - 1, done : BOOLEAN]]
  /\ deferred \subseteq Clips /\ attempts \in [Clips -> 0 .. LongAfter]
  /\ outlasts \in [Clips -> SUBSET Feeds]
  /\ queue \in Seq(Feeds) /\ Len(queue) <= Cardinality(Feeds) /\ queued \subseteq Feeds
  /\ round.pc \in {"none", "read", "check", "list", "set", "advance"}
  /\ checks \in [Checkers ->
       [pc : {"none", "reuse", "lookup", "set"}, episode : EpisodeIds \cup {0},
        clip : Clips \cup {NoClip}, url : Clips \cup {NoClip}]]
  /\ asked \subseteq Feeds /\ missed \in [Feeds -> SUBSET EpisodeIds]
  /\ trouble \in 0 .. MaxTrouble

\* "a request during this round (which may make more work due) schedules
\* another round": what asked for a round is waiting for one that has not yet
\* read its candidates.
NoRequestIsLost ==
  \A f \in asked : \/ \E i \in 1 .. Len(queue) : queue[i] = f
                   \/ round.pc = "read" /\ round.feed = f

\* A feed shows an episode with that episode's own video, of the length of its
\* audio: through reused results, clips replaced during a lookup, deletions
\* and rounds of both feeds.
VideoOfTheEpisode ==
  \A f \in Feeds, e \in EpisodeIds :
    rows[f][e].url # NoClip => rows[f][e].url[1] = e /\ rows[f][e].url \notin Trailers

\* The walk for older references is durable page by page: over restarts, failed
\* pages, deletions, replaced clips and a listing that shifts between its reads
\* and its writes, every listed row behind the cursor has a reference, but for
\* what the walk cannot record: the one episode that each withdrawal slips onto
\* a page it has passed, and the page whose write failed.
WalkedPagesHaveClips ==
  \A f \in Feeds : \A e \in listed \ missed[f] :
    /\ rows[f][e].stored
    /\ progress[f].done \/ (\E k \in 0 .. progress[f].cursor - 1 : e \in Page(k))
    => rows[f][e].clip # NoClip

\* The newer rows of a feed whose clips keep failing. A round of a dormant feed
\* finds them all due again; of another feed's rounds one does and the next
\* leaves out those that failed in it.
Failing(f, e) == {x \in EpisodeIds : x > e /\ rows[f][x].stored /\ rows[f][x].clip \in Unreachable}
Crowded(f, e) == Cardinality(Failing(f, e)) >= IF f \in Dormant THEN PerRound ELSE 2 * PerRound

=============================================================================
