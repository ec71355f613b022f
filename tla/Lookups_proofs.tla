----------------------------- MODULE Lookups_proofs -----------------------------
(***************************************************************************)
(* Proofs about the lookups, for any number of requests, delays and pages. *)
(***************************************************************************)
EXTENDS Lookups, FiniteSetTheorems, TLAPS

-----------------------------------------------------------------------------
(* Backoff.                                                                *)

\* A power of two is the number of subsets of a finite set.
LEMMA PowerOfTwo == ASSUME NEW n \in Nat PROVE 2 ^ n \in Nat
<1>1. IsFiniteSet(1 .. n) /\ Cardinality(1 .. n) = n
  BY FS_Interval
<1>2. IsFiniteSet(SUBSET (1 .. n)) /\ Cardinality(SUBSET (1 .. n)) = 2 ^ n
  BY <1>1, FS_SUBSET
<1> QED
  BY <1>2, FS_CardinalityType

\* After a failure at least one attempt is counted, and however many are, the
\* next is at most the longest backoff away.
LEMMA Deferral ==
  ASSUME NEW previous \in 0 .. MaxAttempts
  PROVE  /\ Attempts(previous) \in 1 .. MaxAttempts
         /\ Backoff(Attempts(previous)) \in 0 .. MaxDelay
<1>1. Attempts(previous) \in 1 .. MaxAttempts
  BY LookupsAssumption DEF Attempts, Lesser
<1>2. 2 ^ (Attempts(previous) - 1) \in Nat
  BY <1>1, PowerOfTwo, LookupsAssumption
<1>3. BaseDelay * 2 ^ (Attempts(previous) - 1) \in Nat
  BY <1>2, LookupsAssumption
<1> QED
  BY <1>1, <1>3, LookupsAssumption DEF Backoff, Lesser

-----------------------------------------------------------------------------
(* The inductive invariant.                                                *)

RequestState ==
  [pc : {"idle", "read", "may", "owner", "waiting", "answered"}, had : BOOLEAN,
   answer : {"none", "fresh", "stale", "unavailable"}]
CallState ==
  [pc : {"none", "asking", "landed"}, answer : {"none", "fresh", "stale", "unavailable"}]
LoadState ==
  [loading : BOOLEAN, page : 0 .. Pages, pc : {"idle", "page", "loaded", "publish", "ending"}]

\* The types, by what a step changes of them.
Deadlines ==
  /\ retry \in [Keys -> [attempts : 0 .. MaxAttempts, left : 0 .. MaxDelay]]
  /\ quiet \in 0 .. MaxDelay
ChapterTypes ==
  /\ chapters \in [status : {"none", "found", "missing"}, left : 0 .. ChaptersTTL]
  /\ requests \in [Requests -> RequestState] /\ call \in CallState
CatalogTypes ==
  /\ saved \in [status : {"none", "found"}, left : 0 .. CatalogTTL]
  /\ catalog \in [restored : BOOLEAN, known : BOOLEAN, left : 0 .. CatalogTTL]
  /\ loader \in LoadState

\* What is left of a backoff, and what has passed since the last failure, are
\* together no longer than the longest backoff.
Recent == retry["chapters"].left > 0 => retry["chapters"].left + quiet <= MaxDelay

\* A call that is about to hand out a fallback has failed just now.
Fallbacks == {"stale", "unavailable"}
LandsRecent == call.pc = "landed" /\ call.answer \in Fallbacks => quiet < MaxDelay

LookupsInv ==
  /\ Deadlines /\ ChapterTypes /\ CatalogTypes /\ trouble \in 0 .. MaxTrouble
  /\ Recent /\ LandsRecent

LEMMA InvTypes == LookupsInv => TypeOK
  BY DEF LookupsInv, Deadlines, ChapterTypes, CatalogTypes, TypeOK, RequestState, CallState,
         LoadState

LEMMA TroubleType ==
  ASSUME trouble \in 0 .. MaxTrouble, Trouble \/ UNCHANGED trouble
  PROVE  trouble' \in 0 .. MaxTrouble
  BY LookupsAssumption DEF Trouble

\* What a process starts with.
LEMMA StartTypes ==
  /\ NoRetry \in [attempts : 0 .. MaxAttempts, left : 0 .. MaxDelay] /\ NoRetry.left = 0
  /\ Idle \in RequestState /\ Idle.answer = "none"
  /\ NoCall \in CallState /\ NoCall.pc # "landed"
  /\ NotStored \in [status : {"none"}, left : {0}]
  /\ NotRestored \in [restored : BOOLEAN, known : BOOLEAN, left : 0 .. CatalogTTL]
  /\ NoLoad \in LoadState
<1>1. 0 \in 0 .. MaxAttempts /\ 0 \in 0 .. MaxDelay /\ 0 \in 0 .. CatalogTTL /\ 0 \in 0 .. Pages
  BY LookupsAssumption
<1>2. Idle \in RequestState /\ Idle.answer = "none"
  BY DEF Idle, RequestState
<1>3. NotRestored \in [restored : BOOLEAN, known : BOOLEAN, left : 0 .. CatalogTTL]
  BY <1>1 DEF NotRestored
<1>4. NoLoad \in LoadState
  BY <1>1 DEF NoLoad, LoadState
<1> QED
  BY <1>1, <1>2, <1>3, <1>4 DEF NoRetry, NoCall, NotStored, CallState

LEMMA InvInit == Init => LookupsInv
<1> SUFFICES ASSUME Init PROVE LookupsInv
  OBVIOUS
<1>1. Deadlines /\ Recent
  BY StartTypes, LookupsAssumption DEF Init, Deadlines, Recent, Keys
<1>2. ChapterTypes /\ LandsRecent
  BY StartTypes, LookupsAssumption DEF Init, ChapterTypes, LandsRecent
<1>3. CatalogTypes
  BY StartTypes, LookupsAssumption DEF Init, CatalogTypes
<1> QED
  BY <1>1, <1>2, <1>3, LookupsAssumption DEF Init, LookupsInv

-----------------------------------------------------------------------------
(* Deadlines.                                                              *)

\* A failure of either key keeps what is left within its bounds; one of
\* chapters is the last one.
LEMMA DeferKeeps ==
  ASSUME Deadlines, Recent, NEW key \in Keys, NEW written \in BOOLEAN, Defer(key, written)
  PROVE  Deadlines' /\ Recent' /\ (IF key = "chapters" THEN quiet' = 0 ELSE UNCHANGED quiet)
<1> DEFINE next == [attempts |-> Attempts(retry[key].attempts),
                    left |-> Backoff(Attempts(retry[key].attempts))]
<1>1. next \in [attempts : 0 .. MaxAttempts, left : 0 .. MaxDelay]
  <2>1. retry[key].attempts \in 0 .. MaxAttempts
    BY DEF Deadlines
  <2> QED
    BY <2>1, Deferral
<1>2. retry' = IF written THEN [retry EXCEPT ![key] = next] ELSE retry
  BY DEF Defer
<1> HIDE DEF next
<1>3. quiet' = IF key = "chapters" THEN 0 ELSE quiet
  BY DEF Defer
<1>4. Deadlines'
  BY <1>1, <1>2, <1>3, LookupsAssumption DEF Deadlines
<1>5. Recent'
  <2>1. CASE key = "chapters"
    BY <1>3, <1>4, <2>1 DEF Recent, Deadlines, Keys
  <2>2. CASE key # "chapters"
    BY <1>2, <1>3, <2>2 DEF Recent, Deadlines, Keys
  <2> QED
    BY <2>1, <2>2
<1> QED
  BY <1>3, <1>4, <1>5

\* An answer leaves nothing to wait for.
LEMMA ClearKeeps ==
  ASSUME Deadlines, Recent, NEW key \in Keys, Clear(key)
  PROVE  Deadlines' /\ Recent' /\ UNCHANGED quiet
<1>1. retry' = [retry EXCEPT ![key] = NoRetry] /\ UNCHANGED quiet
  BY DEF Clear
<1>2. NoRetry \in [attempts : 0 .. MaxAttempts, left : 0 .. MaxDelay] /\ NoRetry.left = 0
  BY LookupsAssumption DEF NoRetry
<1>3. Deadlines'
  BY <1>1, <1>2 DEF Deadlines
<1>4. Recent'
  BY <1>1, <1>2 DEF Recent, Deadlines, Keys
<1> QED
  BY <1>1, <1>3, <1>4

\* Time shortens what is left as fast as it lengthens the quiet.
LEMMA TickKeeps ==
  ASSUME LookupsInv, Tick
  PROVE  LookupsInv'
<1>1. Deadlines /\ Recent /\ ChapterTypes /\ CatalogTypes
  BY DEF LookupsInv
<1>2. \A n, m \in Nat : n \in 0 .. m => Less(n) \in 0 .. m /\ Less(n) <= n
                                        /\ (Less(n) > 0 => Less(n) = n - 1)
  BY DEF Less
<1>3. /\ retry' = [k \in Keys |-> [retry[k] EXCEPT !.left = Less(@)]]
      /\ quiet' = Lesser(quiet + 1, MaxDelay)
      /\ chapters' = [chapters EXCEPT !.left = Less(@)]
      /\ saved' = [saved EXCEPT !.left = Less(@)]
      /\ catalog' = [catalog EXCEPT !.left = Less(@)]
      /\ UNCHANGED <<requests, call, loader, trouble>>
      /\ call.pc # "landed"
  BY DEF Tick
<1>4. quiet' \in 0 .. MaxDelay /\ quiet' <= quiet + 1
  BY <1>1, <1>3, LookupsAssumption DEF Lesser, Deadlines
<1>5. retry' \in [Keys -> [attempts : 0 .. MaxAttempts, left : 0 .. MaxDelay]]
      /\ retry'["chapters"].left = Less(retry["chapters"].left)
  BY <1>1, <1>2, <1>3, LookupsAssumption DEF Deadlines, Keys
<1>6. Recent'
  <2>1. retry["chapters"].left \in 0 .. MaxDelay
    BY <1>1 DEF Deadlines, Keys
  <2> QED
    BY <1>1, <1>2, <1>4, <1>5, <2>1, LookupsAssumption DEF Recent, Deadlines
<1>7. ChapterTypes'
  BY <1>1, <1>2, <1>3, LookupsAssumption DEF ChapterTypes
<1>8. CatalogTypes'
  BY <1>1, <1>2, <1>3, LookupsAssumption DEF CatalogTypes
<1>9. LandsRecent'
  BY <1>3 DEF LandsRecent
<1> QED
  BY <1>3, <1>4, <1>5, <1>6, <1>7, <1>8, <1>9 DEF LookupsInv, Deadlines

-----------------------------------------------------------------------------
(* Requests for chapters.                                                  *)

LEMMA FallbackType == ASSUME NEW r PROVE Fallback(r) \in Fallbacks
  BY DEF Fallback, Fallbacks
LEMMA OutcomesType == Outcomes \subseteq {"found", "missing", "failed"}
  BY DEF Outcomes, EpisodeResult

\* Reading, joining, handing out and answering change no deadline.
LEMMA HandleKeeps ==
  ASSUME LookupsInv, NEW r \in Requests, Get(r) \/ MayLookUp(r) \/ Join(r) \/ Respond(r)
  PROVE  LookupsInv'
<1>1. ChapterTypes /\ requests[r] \in RequestState
  BY DEF LookupsInv, ChapterTypes
<1>2. /\ UNCHANGED <<retry, quiet, chapters, catalogState, trouble>>
      /\ call' \in CallState /\ (call'.pc = "landed" => call' = call)
  BY <1>1 DEF Get, MayLookUp, Join, Respond, ChapterTypes, NoCall, CallState
<1>3. requests' \in [Requests -> RequestState]
  <2>1. \A pc \in {"may", "owner", "waiting"} : [requests[r] EXCEPT !.pc = pc] \in RequestState
    BY <1>1 DEF RequestState
  <2>2. \A answer \in {"fresh", "stale", "unavailable"} :
          [requests[r] EXCEPT !.pc = "answered", !.answer = answer] \in RequestState
    BY <1>1 DEF RequestState
  <2>3. CASE Get(r)
    <3>1. [Idle EXCEPT !.pc = "answered", !.answer = "fresh"] \in RequestState
          /\ [Idle EXCEPT !.pc = "read", !.had = Found(chapters)] \in RequestState
      BY StartTypes DEF RequestState, Found
    <3> QED
      BY <1>1, <2>3, <3>1 DEF Get, ChapterTypes
  <2>4. CASE MayLookUp(r)
    <3>1. Fallback(r) \in {"fresh", "stale", "unavailable"}
      BY FallbackType DEF Fallbacks
    <3>2. requests' \in {[requests EXCEPT ![r] = [requests[r] EXCEPT !.pc = "may"]],
                         [requests EXCEPT ![r] = [requests[r] EXCEPT !.pc = "answered",
                                                                     !.answer = Fallback(r)]]}
      BY <2>4, Zenon DEF MayLookUp, Goes, Answers
    <3> QED
      BY <1>1, <2>1, <2>2, <3>1, <3>2 DEF ChapterTypes
  <2>5. CASE Join(r)
    BY <1>1, <2>1, <2>5 DEF Join, Goes, ChapterTypes
  <2>6. CASE Respond(r)
    BY <1>1, <2>6, StartTypes DEF Respond, ChapterTypes
  <2> QED
    BY <2>3, <2>4, <2>5, <2>6
<1> QED
  BY <1>2, <1>3
     DEF LookupsInv, Deadlines, ChapterTypes, CatalogTypes, Recent, LandsRecent, catalogState

\* A lookup lands with the fallback only when it has just failed.
LEMMA FetchKeeps ==
  ASSUME LookupsInv, NEW r \in Requests, FetchAnswers(r) \/ FetchFails(r) \/ FetchPanics(r)
  PROVE  LookupsInv'
<1>1. Deadlines /\ Recent /\ ChapterTypes /\ "chapters" \in Keys /\ trouble \in 0 .. MaxTrouble
  BY DEF LookupsInv, Keys
<1>2. CASE FetchAnswers(r)
  <2>1. Deadlines' /\ Recent'
    BY <1>1, <1>2, ClearKeeps DEF FetchAnswers
  <2>2. chapters' \in [status : {"none", "found", "missing"}, left : 0 .. ChaptersTTL]
    BY <1>1, <1>2, OutcomesType, LookupsAssumption DEF FetchAnswers, ChapterTypes
  <2>3. call' = [pc |-> "landed", answer |-> "fresh"] /\ UNCHANGED <<requests, catalogState>>
    BY <1>2 DEF FetchAnswers, Lands
  <2>4. trouble' \in 0 .. MaxTrouble
    BY <1>1, <1>2, TroubleType DEF FetchAnswers, WriteLost
  <2> QED
    BY <1>1, <2>1, <2>2, <2>3, <2>4
       DEF LookupsInv, ChapterTypes, CatalogTypes, LandsRecent, catalogState, CallState, Fallbacks
<1>3. CASE FetchFails(r) \/ FetchPanics(r)
  <2>1. PICK written \in BOOLEAN : Defer("chapters", written)
    BY <1>3 DEF FetchFails, FetchPanics
  <2>2. Deadlines' /\ Recent' /\ quiet' = 0
    BY <1>1, <2>1, DeferKeeps
  <2>3. PICK answer \in Fallbacks : call' = [pc |-> "landed", answer |-> answer]
    BY <1>3, FallbackType DEF FetchFails, FetchPanics, Lands, Fallbacks
  <2>4. UNCHANGED <<chapters, requests, catalogState>>
    BY <1>3 DEF FetchFails, FetchPanics
  <2>5. trouble' \in 0 .. MaxTrouble
    BY <1>1, <1>3, TroubleType DEF FetchFails, FetchPanics, WriteLost
  <2> QED
    BY <1>1, <2>2, <2>3, <2>4, <2>5, LookupsAssumption
       DEF LookupsInv, ChapterTypes, CatalogTypes, LandsRecent, catalogState, CallState, Fallbacks
<1> QED
  BY <1>2, <1>3

LEMMA SharedKeeps ==
  ASSUME LookupsInv, CallEnds \/ PruneNotFound
  PROVE  LookupsInv'
<1>1. ChapterTypes
  BY DEF LookupsInv
<1>2. /\ UNCHANGED <<retry, quiet, catalogState, trouble>>
      /\ chapters' \in {chapters, NotStored} /\ call' \in {call, NoCall}
  BY DEF CallEnds, PruneNotFound
<1>3. requests' \in [Requests -> RequestState]
  <2>1. CASE CallEnds
    BY <1>1, <2>1 DEF CallEnds, ChapterTypes, CallState, RequestState
  <2>2. CASE PruneNotFound
    BY <1>1, <2>2 DEF PruneNotFound, ChapterTypes
  <2> QED
    BY <2>1, <2>2
<1>4. ChapterTypes'
  BY <1>1, <1>2, <1>3, LookupsAssumption DEF ChapterTypes, NotStored, NoCall, CallState
<1>5. LandsRecent'
  BY <1>2 DEF LookupsInv, LandsRecent, NoCall
<1> QED
  BY <1>2, <1>4, <1>5 DEF LookupsInv, Deadlines, CatalogTypes, Recent, catalogState

-----------------------------------------------------------------------------
(* The catalogue, and restarts.                                            *)

\* The catalogue's lookups defer and clear a key of their own.
LEMMA CatalogKeeps ==
  ASSUME LookupsInv, EnsureFresh \/ Load
  PROVE  LookupsInv'
<1>1. Deadlines /\ Recent /\ CatalogTypes /\ "catalog" \in Keys /\ trouble \in 0 .. MaxTrouble
  BY DEF LookupsInv, Keys
<1>2. UNCHANGED chapterState
  BY DEF EnsureFresh, Load, LoadPage, LoadFails, SaveCatalog, Publish, LoadEnds
<1>3. Deadlines' /\ Recent' /\ UNCHANGED quiet
  <2>1. CASE LoadFails
    <3>1. PICK written \in BOOLEAN : Defer("catalog", written)
      BY <2>1 DEF LoadFails
    <3> QED
      BY <1>1, <3>1, DeferKeeps
  <2>2. CASE SaveCatalog
    BY <1>1, <2>2, ClearKeeps DEF SaveCatalog
  <2>3. CASE EnsureFresh \/ LoadPage \/ Publish \/ LoadEnds
    BY <1>1, <2>3 DEF EnsureFresh, LoadPage, Publish, LoadEnds, Deadlines, Recent
  <2> QED
    BY <2>1, <2>2, <2>3 DEF Load
<1>4. trouble' \in 0 .. MaxTrouble
  BY <1>1, TroubleType
     DEF EnsureFresh, Load, LoadPage, LoadFails, SaveCatalog, Publish, LoadEnds, WriteLost
<1>5. saved' \in [status : {"none", "found"}, left : 0 .. CatalogTTL]
  BY <1>1, LookupsAssumption
     DEF EnsureFresh, Load, LoadPage, LoadFails, SaveCatalog, Publish, LoadEnds, CatalogTypes
<1>6. catalog' \in [restored : BOOLEAN, known : BOOLEAN, left : 0 .. CatalogTTL]
  <2>1. Restored \in [restored : BOOLEAN, known : BOOLEAN, left : 0 .. CatalogTTL]
    <3>1. [restored |-> TRUE, known |-> Found(saved), left |-> saved.left]
            \in [restored : BOOLEAN, known : BOOLEAN, left : 0 .. CatalogTTL]
      BY <1>1 DEF CatalogTypes, Found
    <3> QED
      BY <1>1, <3>1 DEF CatalogTypes, Restored
  <2>2. [restored |-> TRUE, known |-> TRUE, left |-> CatalogTTL]
          \in [restored : BOOLEAN, known : BOOLEAN, left : 0 .. CatalogTTL]
    BY LookupsAssumption
  <2> QED
    BY <1>1, <2>1, <2>2
       DEF EnsureFresh, Load, LoadPage, LoadFails, SaveCatalog, Publish, LoadEnds, CatalogTypes
<1>7. loader' \in LoadState
  <2>1. loader \in LoadState
    BY <1>1 DEF CatalogTypes
  <2>2. \A pc \in {"loaded", "publish", "ending"} : [loader EXCEPT !.pc = pc] \in LoadState
    BY <2>1 DEF LoadState
  <2>3. CASE EnsureFresh
    <3>1. [loading |-> TRUE, pc |-> "page", page |-> 1] \in LoadState
      BY LookupsAssumption DEF LoadState
    <3> QED
      BY <2>1, <2>3, <3>1 DEF EnsureFresh
  <2>4. CASE LoadPage
    <3>1. loader.page < Pages => [loader EXCEPT !.page = @ + 1] \in LoadState
      BY <2>1, LookupsAssumption DEF LoadState
    <3> QED
      BY <2>2, <2>4, <3>1 DEF LoadPage
  <2>5. CASE LoadFails \/ SaveCatalog \/ Publish
    BY <2>2, <2>5 DEF LoadFails, SaveCatalog, Publish
  <2>6. CASE LoadEnds
    BY <2>6, StartTypes DEF LoadEnds, NotLoading
  <2> QED
    BY <2>3, <2>4, <2>5, <2>6 DEF Load
<1> QED
  BY <1>2, <1>3, <1>4, <1>5, <1>6, <1>7
     DEF LookupsInv, ChapterTypes, CatalogTypes, LandsRecent, chapterState

LEMMA RestartKeeps ==
  ASSUME LookupsInv, Restart
  PROVE  LookupsInv'
<1>1. trouble' \in 0 .. MaxTrouble
  BY TroubleType DEF LookupsInv, Restart
<1>2. /\ requests' = [r \in Requests |-> Idle] /\ call' = NoCall
      /\ catalog' = NotRestored /\ loader' = NoLoad
      /\ UNCHANGED <<retry, quiet, chapters, saved>>
  BY DEF Restart
<1> QED
  BY <1>1, <1>2, LookupsAssumption
     DEF LookupsInv, Deadlines, ChapterTypes, CatalogTypes, Recent, LandsRecent, Idle, NoCall,
         NotRestored, NoLoad, RequestState, CallState, LoadState

LEMMA InvStep == LookupsInv /\ [Next]_vars => LookupsInv'
<1> SUFFICES ASSUME LookupsInv, [Next]_vars PROVE LookupsInv'
  OBVIOUS
<1>1. CASE \E r \in Requests : Get(r) \/ Handle(r) \/ FetchPanics(r)
  BY <1>1, HandleKeeps, FetchKeeps DEF Handle, Fetch
<1>2. CASE CallEnds \/ PruneNotFound
  BY <1>2, SharedKeeps
<1>3. CASE EnsureFresh \/ Load
  BY <1>3, CatalogKeeps
<1>4. CASE Tick
  BY <1>4, TickKeeps
<1>5. CASE Restart
  BY <1>5, RestartKeeps
<1>6. CASE UNCHANGED vars
  BY <1>6 DEF vars, chapterState, catalogState, LookupsInv, Deadlines, ChapterTypes, CatalogTypes,
              Recent, LandsRecent
<1> QED
  BY <1>1, <1>2, <1>3, <1>4, <1>5, <1>6 DEF Next

\* Deadlines, cached results, requests, the shared call and the catalogue's
\* load keep their types: no backoff is negative or longer than the longest.
THEOREM TypeCorrect == Spec => []TypeOK
  BY InvInit, InvStep, InvTypes, PTL DEF Spec

-----------------------------------------------------------------------------
(* Fallbacks only while NRK fails.                                         *)

\* A step that gives a request a fallback finds a deadline that has not passed,
\* or a call that has just failed.
LEMMA FallbackIsRecent ==
  ASSUME LookupsInv, [Next]_vars, NEW r \in Requests,
         requests[r].answer # requests'[r].answer, requests'[r].answer \in Fallbacks
  PROVE  quiet < MaxDelay
<1>1. ChapterTypes /\ Deadlines /\ Recent /\ LandsRecent
  BY DEF LookupsInv
<1>2. ASSUME NEW s \in Requests, MayLookUp(s)
      PROVE  quiet < MaxDelay
  <2>1. ~Can("chapters")
    BY <1>1, <1>2 DEF MayLookUp, Goes, ChapterTypes, RequestState
  <2>2. retry["chapters"].left \in 0 .. MaxDelay /\ retry["chapters"].left # 0
    BY <1>1, <2>1 DEF Can, Deadlines, Keys
  <2> QED
    BY <1>1, <2>2, LookupsAssumption DEF Recent, Deadlines
<1>3. CASE CallEnds
  <2>1. requests'[r].answer = call.answer /\ call.pc = "landed"
    BY <1>1, <1>3 DEF CallEnds, ChapterTypes, RequestState
  <2> QED
    BY <1>1, <2>1 DEF LandsRecent
<1>4. ASSUME NEW s \in Requests, Get(s) \/ Join(s) \/ Respond(s)
      PROVE  FALSE
  <2>1. CASE Get(s)
    <3>1. /\ [Idle EXCEPT !.pc = "answered", !.answer = "fresh"].answer = "fresh"
          /\ [Idle EXCEPT !.pc = "read", !.had = Found(chapters)].answer = "none"
      BY StartTypes DEF RequestState
    <3>2. \/ requests' = [requests EXCEPT ![s] =
                            [Idle EXCEPT !.pc = "answered", !.answer = "fresh"]]
          \/ requests' = [requests EXCEPT ![s] = [Idle EXCEPT !.pc = "read", !.had = Found(chapters)]]
      BY <2>1 DEF Get
    <3> QED
      BY <1>1, <3>1, <3>2 DEF ChapterTypes, Fallbacks
  <2>2. CASE Join(s)
    BY <1>1, <2>2 DEF Join, Goes, ChapterTypes, RequestState
  <2>3. CASE Respond(s)
    BY <1>1, <2>3, StartTypes DEF Respond, ChapterTypes, Fallbacks
  <2> QED
    BY <1>4, <2>1, <2>2, <2>3
<1>5. requests' # requests
  OBVIOUS
<1>6. ~Restart
  BY DEF Restart, Idle, Fallbacks
<1>7. ASSUME NEW s \in Requests PROVE ~(Fetch(s) \/ FetchPanics(s))
  BY <1>5 DEF Fetch, FetchAnswers, FetchFails, FetchPanics
<1>8. ~(PruneNotFound \/ EnsureFresh \/ Load \/ Tick \/ UNCHANGED vars)
  BY <1>5 DEF PruneNotFound, EnsureFresh, Load, LoadPage, LoadFails, SaveCatalog, Publish,
              LoadEnds, Tick, vars, chapterState
<1> QED
  BY <1>2, <1>3, <1>4, <1>6, <1>7, <1>8 DEF Next, Handle

\* "Expired or missing chapters are answered only while NRK fails"
\* (feed/chapters.go): a request falls back only when a lookup has failed less
\* than the longest backoff ago, whoever made it.
THEOREM StaleIsRecent == Spec => StaleOnlyWhenFailing
<1>1. LookupsInv /\ [Next]_vars =>
        [\A r \in Requests :
           requests[r].answer # requests'[r].answer
             /\ requests'[r].answer \in {"stale", "unavailable"} => quiet < MaxDelay]_vars
  BY FallbackIsRecent DEF Fallbacks
<1> QED
  BY <1>1, InvInit, InvStep, PTL DEF Spec, StaleOnlyWhenFailing

-----------------------------------------------------------------------------
(* Requests for the same chapters share their lookup.                      *)

\* A call is in flight exactly while one request owns it and others may wait
\* for it; it has a result once it has landed, and requests have theirs once
\* they are answered.
SharedInv ==
  /\ \A r, s \in Owners : r = s
  /\ call.pc = "none" => Waiters = {}
  /\ call.pc # "none" => Owners # {}
  /\ call.pc = "landed" <=> call.answer # "none"
  /\ \A r \in Requests : requests[r].answer # "none" <=> requests[r].pc = "answered"

view == <<Owners, Waiters, call.answer, Given>>

\* What changes when one request changes.
LEMMA OneChanges ==
  ASSUME ChapterTypes, NEW r \in Requests, NEW s \in RequestState,
         requests' = [requests EXCEPT ![r] = s]
  PROVE  /\ requests'[r] = s /\ \A q \in Requests \ {r} : requests'[q] = requests[q]
         /\ Owners' = IF s.pc = "owner" THEN Owners \cup {r} ELSE Owners \ {r}
         /\ Waiters' = IF s.pc \in {"owner", "waiting"} THEN Waiters \cup {r} ELSE Waiters \ {r}
         /\ Given' = [Given EXCEPT ![r] = s.answer]
<1>1. requests'[r] = s /\ \A q \in Requests \ {r} : requests'[q] = requests[q]
  BY DEF ChapterTypes
<1>2. Owners' = IF s.pc = "owner" THEN Owners \cup {r} ELSE Owners \ {r}
  BY <1>1 DEF Owners
<1>3. Waiters' = IF s.pc \in {"owner", "waiting"} THEN Waiters \cup {r} ELSE Waiters \ {r}
  BY <1>1 DEF Waiters
<1>4. Given' = [Given EXCEPT ![r] = s.answer]
  <2> DEFINE changed == [Given EXCEPT ![r] = s.answer]
  <2>1. changed = [q \in Requests |-> IF q = r THEN s.answer ELSE requests[q].answer]
    BY DEF Given
  <2>2. Given' = [q \in Requests |-> requests'[q].answer]
    BY DEF Given
  <2>3. \A q \in Requests :
          requests'[q].answer = IF q = r THEN s.answer ELSE requests[q].answer
    BY <1>1
  <2> HIDE DEF changed
  <2>4. changed = Given'
    BY <2>1, <2>2, <2>3
  <2> QED
    BY <2>4 DEF changed
<1> QED
  BY <1>1, <1>2, <1>3, <1>4

\* A request that shares no lookup, before and after, may get or lose its answer.
LEMMA OutsideMoves ==
  ASSUME ChapterTypes, SharedInv, NEW r \in Requests, r \notin Waiters, UNCHANGED call,
         NEW s \in RequestState, s.pc \notin {"owner", "waiting"},
         s.answer # "none" <=> s.pc = "answered",
         requests' = [requests EXCEPT ![r] = s]
  PROVE  SharedInv' /\ Given' = [Given EXCEPT ![r] = s.answer]
         /\ UNCHANGED <<Owners, Waiters, call.answer>>
<1>1. r \notin Owners
  BY DEF Owners, Waiters
<1>2. Owners' = Owners /\ Waiters' = Waiters /\ Given' = [Given EXCEPT ![r] = s.answer]
  <2>1. Owners' = Owners \ {r} /\ Waiters' = Waiters \ {r}
    BY OneChanges
  <2>2. Given' = [Given EXCEPT ![r] = s.answer]
    BY OneChanges
  <2> QED
    BY <1>1, <2>1, <2>2
<1>3. \A q \in Requests : requests'[q].answer # "none" <=> requests'[q].pc = "answered"
  BY OneChanges DEF SharedInv
<1> QED
  BY <1>2, <1>3 DEF SharedInv

\* Fresh chapters answer a request; otherwise it goes on without an answer.
LEMMA GetShares ==
  ASSUME ChapterTypes, SharedInv, NEW r \in Requests, Get(r)
  PROVE  SharedInv' /\ (Shared!AnswerDirectly(r) \/ UNCHANGED view)
<1> DEFINE fresh == [Idle EXCEPT !.pc = "answered", !.answer = "fresh"]
           read == [Idle EXCEPT !.pc = "read", !.had = Found(chapters)]
<1>1. requests[r] = Idle /\ UNCHANGED call
  BY DEF Get
<1>2. r \notin Waiters /\ Given[r] = "none"
  BY <1>1 DEF Waiters, Given, Idle
<1>3. /\ fresh \in RequestState /\ fresh.pc = "answered" /\ fresh.answer = "fresh"
      /\ read \in RequestState /\ read.pc = "read" /\ read.answer = "none"
  BY DEF RequestState, Idle, Found
<1>4. \/ requests' = [requests EXCEPT ![r] = fresh]
      \/ requests' = [requests EXCEPT ![r] = read]
  BY DEF Get
<1> HIDE DEF fresh, read
<1>5. CASE requests' = [requests EXCEPT ![r] = fresh]
  <2>1. /\ SharedInv' /\ Given' = [Given EXCEPT ![r] = "fresh"]
        /\ UNCHANGED <<Owners, Waiters, call.answer>>
    BY <1>1, <1>2, <1>3, <1>5, OutsideMoves
  <2> QED
    BY <1>2, <2>1 DEF Shared!AnswerDirectly, Shared!Unanswered
<1>6. CASE requests' = [requests EXCEPT ![r] = read]
  <2>1. /\ SharedInv' /\ Given' = [Given EXCEPT ![r] = "none"]
        /\ UNCHANGED <<Owners, Waiters, call.answer>>
    BY <1>1, <1>2, <1>3, <1>6, OutsideMoves
  <2>2. Given' = Given
    BY <1>2, <2>1 DEF Given
  <2> QED
    BY <2>1, <2>2 DEF view
<1> QED
  BY <1>4, <1>5, <1>6

\* A deadline that is pending answers a request what it has.
LEMMA MayLookUpShares ==
  ASSUME ChapterTypes, SharedInv, NEW r \in Requests, MayLookUp(r)
  PROVE  SharedInv' /\ (Shared!AnswerDirectly(r) \/ UNCHANGED view)
<1> DEFINE may == [requests[r] EXCEPT !.pc = "may"]
           falls == [requests[r] EXCEPT !.pc = "answered", !.answer = Fallback(r)]
<1>1. requests[r].pc = "read" /\ UNCHANGED call /\ requests[r] \in RequestState
  BY DEF MayLookUp, ChapterTypes
<1>2. r \notin Waiters /\ Given[r] = "none" /\ requests[r].answer = "none"
  BY <1>1 DEF Waiters, Given, SharedInv
<1>3. Fallback(r) \in {"stale", "unavailable"}
  BY FallbackType DEF Fallbacks
<1>4. /\ may \in RequestState /\ may.pc = "may" /\ may.answer = "none"
      /\ falls \in RequestState /\ falls.pc = "answered" /\ falls.answer = Fallback(r)
  BY <1>1, <1>2, <1>3 DEF RequestState
<1>5. \/ requests' = [requests EXCEPT ![r] = may]
      \/ requests' = [requests EXCEPT ![r] = falls]
  BY Zenon DEF MayLookUp, Goes, Answers
<1> HIDE DEF may, falls
<1>6. CASE requests' = [requests EXCEPT ![r] = falls]
  <2>1. /\ SharedInv' /\ Given' = [Given EXCEPT ![r] = Fallback(r)]
        /\ UNCHANGED <<Owners, Waiters, call.answer>>
    BY <1>1, <1>2, <1>3, <1>4, <1>6, OutsideMoves
  <2> QED
    BY <1>2, <1>3, <2>1 DEF Shared!AnswerDirectly, Shared!Unanswered
<1>7. CASE requests' = [requests EXCEPT ![r] = may]
  <2>1. /\ SharedInv' /\ Given' = [Given EXCEPT ![r] = "none"]
        /\ UNCHANGED <<Owners, Waiters, call.answer>>
    BY <1>1, <1>2, <1>4, <1>7, OutsideMoves
  <2>2. Given' = Given
    BY <1>2, <2>1 DEF Given
  <2> QED
    BY <2>1, <2>2 DEF view
<1> QED
  BY <1>5, <1>6, <1>7

\* A request joins the call that is in flight, or is the only one to start one.
LEMMA JoinShares ==
  ASSUME ChapterTypes, SharedInv, NEW r \in Requests, Join(r)
  PROVE  SharedInv' /\ (Shared!Lead(r) \/ Shared!Follow(r))
<1> DEFINE goes(pc) == [requests[r] EXCEPT !.pc = pc]
<1>1. requests[r].pc = "may" /\ requests[r] \in RequestState /\ call \in CallState
  BY DEF Join, ChapterTypes
<1>2. r \notin Waiters /\ r \notin Owners /\ Given[r] = "none" /\ requests[r].answer = "none"
  BY <1>1 DEF Waiters, Owners, Given, SharedInv
<1>3. \A pc \in {"owner", "waiting"} :
        goes(pc) \in RequestState /\ goes(pc).pc = pc /\ goes(pc).answer = "none"
  BY <1>1, <1>2 DEF RequestState
<1>4. InFlight <=> call.pc # "none"
  BY <1>1 DEF InFlight, NoCall, CallState, SharedInv
<1>5. Given = [Given EXCEPT ![r] = "none"]
  BY <1>2 DEF Given
<1>6. CASE InFlight
  <2>1. requests' = [requests EXCEPT ![r] = goes("waiting")] /\ call' = call
    BY <1>6 DEF Join, Goes
  <2> HIDE DEF goes
  <2>2. /\ Owners' = Owners /\ Waiters' = Waiters \cup {r} /\ Given' = Given
        /\ \A q \in Requests : requests'[q].answer # "none" <=> requests'[q].pc = "answered"
    <3>1. Owners' = Owners \ {r} /\ Waiters' = Waiters \cup {r}
      BY <1>3, <2>1, OneChanges
    <3>2. Given' = [Given EXCEPT ![r] = "none"]
      <4>1. Given' = [Given EXCEPT ![r] = goes("waiting").answer]
        BY <1>3, <2>1, OneChanges
      <4>2. goes("waiting").answer = "none"
        BY <1>3
      <4> QED
        BY <4>1, <4>2
    <3>3. requests'[r] = goes("waiting") /\ \A q \in Requests \ {r} : requests'[q] = requests[q]
      BY <1>3, <2>1, OneChanges
    <3> QED
      BY <1>2, <1>3, <1>5, <3>1, <3>2, <3>3 DEF SharedInv
  <2>3. SharedInv'
    BY <1>4, <1>6, <2>1, <2>2 DEF SharedInv
  <2>4. Owners # {}
    BY <1>4, <1>6 DEF SharedInv
  <2> QED
    BY <1>2, <2>1, <2>2, <2>3, <2>4 DEF Shared!Follow, Shared!Unanswered
<1>7. CASE ~InFlight
  <2>1. /\ requests' = [requests EXCEPT ![r] = goes("owner")]
        /\ call' = [NoCall EXCEPT !.pc = "asking"]
    BY <1>7 DEF Join, Goes
  <2> HIDE DEF goes
  <2>2. Waiters = {} /\ Owners = {} /\ call.answer = "none"
    BY <1>1, <1>4, <1>7 DEF SharedInv, Waiters, Owners
  <2>3. /\ Owners' = {r} /\ Waiters' = {r} /\ Given' = Given
        /\ \A q \in Requests : requests'[q].answer # "none" <=> requests'[q].pc = "answered"
    <3>1. Owners' = Owners \cup {r} /\ Waiters' = Waiters \cup {r}
      BY <1>3, <2>1, OneChanges
    <3>2. Given' = [Given EXCEPT ![r] = "none"]
      <4>1. Given' = [Given EXCEPT ![r] = goes("owner").answer]
        BY <1>3, <2>1, OneChanges
      <4>2. goes("owner").answer = "none"
        BY <1>3
      <4> QED
        BY <4>1, <4>2
    <3>3. requests'[r] = goes("owner") /\ \A q \in Requests \ {r} : requests'[q] = requests[q]
      BY <1>3, <2>1, OneChanges
    <3> QED
      BY <1>3, <1>5, <2>2, <3>1, <3>2, <3>3 DEF SharedInv
  <2>4. call'.pc = "asking" /\ call'.answer = "none"
    BY <2>1 DEF NoCall
  <2>5. SharedInv'
    BY <2>3, <2>4 DEF SharedInv
  <2> QED
    BY <1>2, <2>2, <2>3, <2>4, <2>5 DEF Shared!Lead, Shared!Unanswered
<1> QED
  BY <1>6, <1>7

\* The request that answered is idle again.
LEMMA RespondShares ==
  ASSUME ChapterTypes, SharedInv, NEW r \in Requests, Respond(r)
  PROVE  SharedInv' /\ Shared!Leave(r)
<1>1. /\ requests[r].pc = "answered" /\ requests' = [requests EXCEPT ![r] = Idle]
      /\ UNCHANGED call
  BY DEF Respond
<1>2. r \notin Waiters /\ Given[r] # "none"
  BY <1>1 DEF Waiters, Given, SharedInv
<1>3. Idle \in RequestState /\ Idle.pc = "idle" /\ Idle.answer = "none"
  BY DEF Idle, RequestState
<1>4. /\ SharedInv' /\ Given' = [Given EXCEPT ![r] = "none"]
      /\ UNCHANGED <<Owners, Waiters, call.answer>>
  BY <1>1, <1>2, <1>3, OutsideMoves
<1> QED
  BY <1>2, <1>4 DEF Shared!Leave

\* However the lookup comes out, it has one result from then on.
LEMMA FetchShares ==
  ASSUME ChapterTypes, SharedInv, NEW r \in Requests,
         FetchAnswers(r) \/ FetchFails(r) \/ FetchPanics(r)
  PROVE  SharedInv' /\ Shared!Find
<1>1. requests[r].pc = "owner" /\ call.pc = "asking" /\ UNCHANGED requests
  BY DEF FetchAnswers, FetchFails, FetchPanics, Owner
<1>2. PICK a \in {"fresh", "stale", "unavailable"} : call' = [pc |-> "landed", answer |-> a]
  BY FallbackType DEF FetchAnswers, FetchFails, FetchPanics, Lands, Fallbacks
<1>3. UNCHANGED <<Owners, Waiters, Given>>
  BY <1>1 DEF Owners, Waiters, Given
<1>4. call'.pc = "landed" /\ call'.answer = a
  BY <1>2
<1>5. Owners # {} /\ call.answer = "none"
  BY <1>1 DEF Owners, SharedInv
<1>6. SharedInv'
  BY <1>1, <1>3, <1>4, <1>5 DEF SharedInv
<1> QED
  BY <1>3, <1>4, <1>5, <1>6 DEF Shared!Find

\* The end of the call answers everybody who shares it, and nobody else.
LEMMA CallEndShares ==
  ASSUME ChapterTypes, SharedInv, CallEnds PROVE SharedInv' /\ Shared!HandOver
<1> DEFINE given(r) == [requests[r] EXCEPT !.pc = "answered", !.answer = call.answer]
<1>1. /\ call.pc = "landed" /\ call' = NoCall
      /\ requests' = [r \in Requests |-> IF r \in Waiters THEN given(r) ELSE requests[r]]
  BY DEF CallEnds
<1>2. call.answer # "none"
  BY <1>1 DEF SharedInv
<1>3. \A r \in Requests : given(r).pc = "answered" /\ given(r).answer = call.answer
  BY DEF ChapterTypes, RequestState
<1> HIDE DEF given
<1>4. \A r \in Requests : requests'[r] = IF r \in Waiters THEN given(r) ELSE requests[r]
  BY <1>1
<1>5. Waiters' = {} /\ Owners' = {}
  <2>1. \A r \in Requests : requests'[r].pc \notin {"owner", "waiting"}
    BY <1>3, <1>4 DEF Waiters
  <2> QED
    BY <2>1 DEF Waiters, Owners
<1>6. Given' = [r \in Requests |-> IF r \in Waiters THEN call.answer ELSE Given[r]]
  BY <1>3, <1>4 DEF Given
<1>7. call'.pc = "none" /\ call'.answer = "none"
  BY <1>1 DEF NoCall
<1>8. \A r \in Requests : requests'[r].answer # "none" <=> requests'[r].pc = "answered"
  BY <1>2, <1>3, <1>4 DEF SharedInv
<1>9. SharedInv'
  BY <1>5, <1>7, <1>8 DEF SharedInv
<1> QED
  BY <1>2, <1>5, <1>6, <1>7, <1>9 DEF Shared!HandOver

\* A crash takes requests and call together.
LEMMA RestartShares == ASSUME Restart PROVE SharedInv' /\ Shared!Crash
<1>1. requests' = [r \in Requests |-> Idle] /\ call' = NoCall
  BY DEF Restart
<1>2. Owners' = {} /\ Waiters' = {} /\ Given' = [r \in Requests |-> "none"]
  BY <1>1 DEF Owners, Waiters, Given, Idle
<1>3. call'.pc = "none" /\ call'.answer = "none"
  BY <1>1 DEF NoCall
<1>4. \A r \in Requests : requests'[r].answer # "none" <=> requests'[r].pc = "answered"
  BY <1>1 DEF Idle
<1> QED
  BY <1>2, <1>3, <1>4 DEF SharedInv, Shared!Crash

\* Nothing is shared, and nobody is answered, at the start.
LEMMA SharedInit == Init => SharedInv /\ Shared!Init
<1> SUFFICES ASSUME Init PROVE SharedInv /\ Shared!Init
  OBVIOUS
<1>1. requests = [r \in Requests |-> Idle] /\ call = NoCall
  BY DEF Init
<1>2. Owners = {} /\ Waiters = {} /\ Given = [r \in Requests |-> "none"]
  BY <1>1 DEF Owners, Waiters, Given, Idle
<1>3. call.pc = "none" /\ call.answer = "none"
  BY <1>1 DEF NoCall
<1>4. \A r \in Requests : requests[r].answer # "none" <=> requests[r].pc = "answered"
  BY <1>1 DEF Idle
<1> QED
  BY <1>2, <1>3, <1>4 DEF SharedInv, Shared!Init

\* Every step is a step of the shared lookup or leaves it alone.
LEMMA SharedStep ==
  LookupsInv /\ SharedInv /\ [Next]_vars => SharedInv' /\ [Shared!Next]_view
<1> SUFFICES ASSUME LookupsInv, SharedInv, [Next]_vars
             PROVE  SharedInv' /\ (Shared!Next \/ UNCHANGED view)
  OBVIOUS
<1> ChapterTypes
  BY DEF LookupsInv
<1>1. ASSUME NEW r \in Requests, Get(r) \/ Handle(r) \/ FetchPanics(r)
      PROVE  SharedInv' /\ (Shared!Next \/ UNCHANGED view)
  <2>1. CASE Get(r) \/ MayLookUp(r)
    BY <2>1, GetShares, MayLookUpShares DEF Shared!Next
  <2>2. CASE Join(r)
    BY <2>2, JoinShares DEF Shared!Next
  <2>3. CASE Respond(r)
    BY <2>3, RespondShares DEF Shared!Next
  <2>4. CASE Fetch(r) \/ FetchPanics(r)
    BY <2>4, FetchShares DEF Fetch, Shared!Next
  <2> QED
    BY <1>1, <2>1, <2>2, <2>3, <2>4 DEF Handle
<1>2. CASE CallEnds
  BY <1>2, CallEndShares DEF Shared!Next
<1>3. CASE Restart
  BY <1>3, RestartShares DEF Shared!Next
<1>4. CASE PruneNotFound \/ EnsureFresh \/ Load \/ Tick \/ UNCHANGED vars
  <2>1. UNCHANGED <<requests, call>>
    BY <1>4 DEF PruneNotFound, EnsureFresh, Load, LoadPage, LoadFails, SaveCatalog, Publish,
                LoadEnds, Tick, vars, chapterState
  <2>2. UNCHANGED view
    BY <2>1 DEF view, Owners, Waiters, Given
  <2>3. SharedInv'
    BY <2>1, <2>2 DEF SharedInv, view
  <2> QED
    BY <2>2, <2>3
<1> QED
  BY <1>1, <1>2, <1>3, <1>4 DEF Next

\* Chapters.Get and its inFlight map keep the promise of SharedLookup, when the
\* lookup succeeds, fails or panics, and over crashes.
THEOREM LookupsAreShared == Spec => ImplementsSharedLookup
<1>1. Init => LookupsInv /\ SharedInv /\ Shared!Init
  BY InvInit, SharedInit
<1>2. LookupsInv /\ SharedInv /\ [Next]_vars => (LookupsInv /\ SharedInv)' /\ [Shared!Next]_view
  BY InvStep, SharedStep
<1>3. [Shared!Next]_view => [Shared!Next]_Shared!vars
  BY DEF view, Shared!vars
<1> QED
  BY <1>1, <1>2, <1>3, PTL DEF Spec, ImplementsSharedLookup, Shared!Spec
=============================================================================
