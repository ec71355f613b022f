--------------------------- MODULE FeedCache_proofs ---------------------------
(***************************************************************************)
(* Proofs about the feed cache, for any requests, origins, number of        *)
(* commits and clock.                                                       *)
(***************************************************************************)
EXTENDS FeedCache, TLAPS

-----------------------------------------------------------------------------
(* The inductive invariant.                                                *)

\* What was read or rendered under the newest version is what is stored.
Faithful(x) == x.version = DataVersion /\ bumps = commits => x.row = row /\ x.eps = eps

\* The newest version any read can have, and the newest any read that has
\* ended can have: while one reads, no other has begun.
NewestRead == IF commits = 0 THEN 0 ELSE DataVersion
Newest == IF flight.pc \in {"row", "episodes", "done"} THEN flight.series.version ELSE NewestRead

FlightInv ==
  /\ flight.series.version <= NewestRead
  /\ flight.pc \in {"row", "episodes", "done"} => flight.series.version >= 0
  /\ flight.pc = "episodes" /\ flight.series.version = DataVersion /\ bumps = commits
       => flight.series.row = row
  /\ flight.pc = "done" => Faithful(flight.series)

EntryInv == entry.version <= Newest /\ seen <= Newest /\ Faithful(entry)

\* The date a render was given: its validator's, or a later one.
Dated(h) ==
  h.previous # NoValidator =>
    IF h.previous.etag = ETag(h.origin, h.series) THEN h.lm = h.previous.lm
    ELSE h.lm > h.previous.lm

HandlerState ==
  [pc : {"idle", "peek", "fetch", "wait", "lookup", "assemble", "store", "served"},
   origin : Origins \cup {"none"}, version : Versions, series : Series,
   previous : Validator, lm : Nat, floor : Nat, served : Versions]

\* What a request carries is no older than what was served before it began.
HandlerInv(h) ==
  /\ h \in HandlerState
  /\ h.floor <= Newest /\ h.series.version <= Newest /\ Faithful(h.series)
  /\ h.pc \notin {"idle", "served"} => h.origin \in Origins
  /\ h.pc = "peek" => h.floor <= h.version
  /\ h.pc \in {"lookup", "assemble", "store"} => h.floor <= h.series.version
  /\ h.pc = "store" => Dated(h)

Handlers == \A r \in Requests : HandlerInv(handlers[r])

IInv ==
  /\ TypeOK
  /\ FlightInv
  /\ EntryInv
  /\ Handlers

-----------------------------------------------------------------------------
(* Versions.                                                               *)

\* The versions a state can have are integers.
LEMMA VersionTypes ==
  ASSUME TypeOK
  PROVE  /\ commits \in Nat /\ bumps \in Nat /\ row \in Nat /\ eps \in Nat /\ second \in Nat
         /\ DataVersion \in Versions /\ DataVersion \in Nat /\ NewestRead \in Nat
         /\ NewestRead <= DataVersion
         /\ flight.series \in Series /\ flight.series.version \in Int
         /\ entry.version \in Int /\ Versions \subseteq Int
<1>1. commits \in Nat /\ bumps \in Nat /\ bumps <= commits /\ commits <= MaxCommits
  BY CacheAssumption DEF TypeOK
<1>2. row \in Nat /\ eps \in Nat /\ second \in Nat
  BY CacheAssumption DEF TypeOK
<1>3. DataVersion \in Versions /\ DataVersion \in Nat /\ NewestRead \in Nat /\ NewestRead <= DataVersion
  BY <1>1, CacheAssumption DEF DataVersion, Versions, NewestRead
<1>4. Versions \subseteq Int
  BY CacheAssumption DEF Versions
<1>5. flight.series \in Series /\ entry.version \in Versions
  BY DEF TypeOK, Entry
<1>6. flight.series.version \in Versions
  BY <1>5 DEF Series
<1> QED
  BY <1>1, <1>2, <1>3, <1>4, <1>5, <1>6

\* No read ends with a version newer than the newest there is.
LEMMA NewestIsRead ==
  ASSUME TypeOK, FlightInv
  PROVE  Newest \in Nat /\ Newest <= NewestRead /\ Newest <= DataVersion
  BY VersionTypes DEF Newest, FlightInv

\* Time passes for what is held: nothing held becomes newer than the newest
\* read, or current with other content.
Later ==
  /\ Newest <= Newest' /\ Newest' \in Int
  /\ \/ UNCHANGED <<bumps, commits, row, eps>>
     \/ bumps' = bumps /\ commits' # bumps
     \/ bumps' = bumps + 1

\* Then what is held stays faithful.
LEMMA LaterHolds ==
  ASSUME TypeOK, FlightInv, Later, NEW x, x.version \in Int, x.version <= Newest, Faithful(x)
  PROVE  /\ x.version <= Newest'
         /\ x.version = DataVersion' /\ bumps' = commits' => x.row = row' /\ x.eps = eps'
<1>1. /\ Newest \in Int /\ Newest <= DataVersion /\ bumps \in Nat
      /\ Newest' \in Int /\ Newest <= Newest'
  BY NewestIsRead, VersionTypes DEF Later
<1> HIDE DEF Newest
<1>2. x.version <= Newest'
  BY <1>1
<1>3. CASE UNCHANGED <<bumps, commits, row, eps>>
  BY <1>2, <1>3 DEF Faithful, DataVersion
<1>4. CASE bumps' = bumps /\ commits' # bumps
  BY <1>2, <1>4
<1>5. CASE bumps' = bumps + 1
  <2>1. x.version < DataVersion'
    BY <1>1, <1>5 DEF DataVersion
  <2> QED
    BY <1>1, <1>2, <1>5, <2>1 DEF DataVersion
<1> QED
  BY <1>3, <1>4, <1>5 DEF Later

\* So does what a request that takes no step carries.
LEMMA HandlerHolds ==
  ASSUME TypeOK, FlightInv, Later, NEW h, HandlerInv(h)
  PROVE  /\ h.floor <= Newest' /\ h.series.version <= Newest'
         /\ h.series.version = DataVersion' /\ bumps' = commits'
              => h.series.row = row' /\ h.series.eps = eps'
<1>1. h.series.version \in Int /\ h.floor \in Nat
  <2>1. h.series \in Series /\ h.floor \in Nat
    BY DEF HandlerInv, HandlerState
  <2> QED
    BY <2>1, VersionTypes DEF Series
<1>2. Newest \in Int /\ h.floor <= Newest /\ h.series.version <= Newest /\ Faithful(h.series)
  BY NewestIsRead DEF HandlerInv
<1>3. h.floor <= Newest'
  BY <1>1, <1>2 DEF Later
<1> QED
  BY <1>1, <1>2, <1>3, LaterHolds

\* So everything a request carries stays sound.
LEMMA OthersHold ==
  ASSUME TypeOK, FlightInv, Later, NEW h, HandlerInv(h)
  PROVE  HandlerInv(h)'
<1>1. /\ h \in HandlerState
      /\ h.pc \notin {"idle", "served"} => h.origin \in Origins
      /\ h.pc = "peek" => h.floor <= h.version
      /\ h.pc \in {"lookup", "assemble", "store"} => h.floor <= h.series.version
      /\ h.pc = "store" => Dated(h)
  BY DEF HandlerInv
<1> QED
  BY <1>1, HandlerHolds DEF HandlerInv, Faithful, HandlerState, Series, Versions, Validator,
     Dated, ETag

\* A step of the writers or of the fetch changes no request.
LEMMA SameHandlers ==
  ASSUME TypeOK, FlightInv, Later, Handlers, UNCHANGED handlers
  PROVE  Handlers'
<1> SUFFICES ASSUME NEW r \in Requests PROVE HandlerInv(handlers[r])'
  BY DEF Handlers
<1>1. HandlerInv(handlers[r])
  BY DEF Handlers
<1> QED
  BY <1>1, OthersHold DEF HandlerInv, HandlerState, Faithful, Dated

\* Nothing changes of what is stored and read.
Steady == UNCHANGED <<row, eps, commits, bumps>> /\ Newest' = Newest
LEMMA SteadyIsLater == ASSUME TypeOK, FlightInv, Steady PROVE Later
  BY NewestIsRead DEF Steady, Later

\* Then one request may take a step to a sound state.
LEMMA OneHandler ==
  ASSUME TypeOK, FlightInv, Steady, Handlers, NEW r \in Requests, NEW s,
         HandlerInv(s), Goes(r, s)
  PROVE  Handlers' /\ handlers' \in [Requests -> HandlerState]
<1>1. s \in HandlerState
  BY DEF HandlerInv
<1>2. handlers \in [Requests -> HandlerState]
  BY DEF TypeOK, HandlerState
<1>3. handlers' \in [Requests -> HandlerState]
  BY <1>1, <1>2 DEF Goes
<1>4. ASSUME NEW q \in Requests PROVE HandlerInv(handlers[q])'
  <2>1. handlers'[q] = s \/ handlers'[q] = handlers[q]
    BY <1>2 DEF Goes
  <2>2. HandlerInv(handlers[q]) /\ HandlerInv(s)
    BY DEF Handlers
  <2>3. PICK h : HandlerInv(h) /\ handlers'[q] = h
    BY <2>1, <2>2
  <2>4. DataVersion' = DataVersion
    BY DEF Steady, DataVersion
  <2> QED
    BY <2>3, <2>4 DEF HandlerInv, HandlerState, Faithful, Steady, Dated, ETag, Series,
       Versions, Validator
<1> QED
  BY <1>3, <1>4 DEF Handlers

\* A request that does nothing carries nothing.
LEMMA IdleType ==
  /\ NoSeries \in Series /\ NoSeries.version = -1 /\ Idle.series = NoSeries
  /\ Idle \in HandlerState
<1>1. NoSeries \in Series /\ NoSeries.version = -1
  BY CacheAssumption DEF NoSeries, Series, Versions
<1>2. NoValidator \in Validator /\ 0 \in Versions /\ -1 \in Versions
  BY CacheAssumption DEF Validator, Versions
<1>3. Idle \in HandlerState
  BY <1>1, <1>2 DEF Idle, HandlerState
<1> QED
  BY <1>1, <1>3 DEF Idle

\* A request that is answered with a version it may know of.
LEMMA Served ==
  ASSUME TypeOK, FlightInv, seen <= Newest, Handlers, Steady, NEW r \in Requests,
         NEW e, e.version \in Versions, e.version <= Newest, Serve(r, e)
  PROVE  /\ Handlers' /\ handlers' \in [Requests -> HandlerState]
         /\ seen' \in Nat /\ seen' <= Newest'
<1> DEFINE s == [Idle EXCEPT !.pc = "served", !.served = e.version]
<1>1. Newest \in Nat /\ Newest' = Newest
  BY NewestIsRead DEF Steady
<1>2. NoSeries \in Series /\ NoSeries.version = -1
  BY IdleType
<1>3. s \in HandlerState
  <2> HIDE DEF Idle
  <2> QED
    BY IdleType DEF HandlerState
<1>4. s.pc = "served" /\ s.floor = 0 /\ s.series = NoSeries
  BY DEF Idle
<1>5. Faithful(NoSeries)
  BY <1>2, VersionTypes DEF Faithful
<1> HIDE DEF s, Newest
<1>6. HandlerInv(s)
  BY <1>1, <1>2, <1>3, <1>4, <1>5 DEF HandlerInv
<1>7. Goes(r, s)
  BY DEF Serve, s
<1>8. Handlers' /\ handlers' \in [Requests -> HandlerState]
  BY <1>6, <1>7, OneHandler
<1>9. seen' \in Nat /\ seen' <= Newest'
  <2>1. e.version \in Int /\ seen \in Nat
    BY VersionTypes DEF TypeOK
  <2>2. seen' = IF e.version > seen THEN e.version ELSE seen
    BY DEF Serve
  <2> QED
    BY <1>1, <2>1, <2>2
<1> QED
  BY <1>8, <1>9

-----------------------------------------------------------------------------
(* The steps of a request.                                                 *)

\* Nothing but the requests changes, and what is the newest answer.
LEMMA OnlyRequests ==
  ASSUME IInv, Handlers', handlers' \in [Requests -> HandlerState],
         seen' \in Nat, seen' <= Newest', Steady,
         UNCHANGED <<second, database, bumps, cache>>,
         flight' = flight \/ (flight.pc = "none" /\ flight' = [flight EXCEPT !.pc = "snapshot"])
  PROVE  IInv'
<1>1. /\ flight' \in [pc : {"none", "snapshot", "row", "episodes", "done"}, series : Series]
      /\ flight'.series = flight.series
      /\ flight' = flight \/ flight'.pc = "snapshot"
  BY DEF IInv, TypeOK
<1>2. TypeOK'
  BY <1>1 DEF IInv, TypeOK, database, cache, HandlerState, Series, Versions, Entry, Validator
<1>3. FlightInv'
  BY <1>1 DEF IInv, FlightInv, Faithful, NewestRead, DataVersion, database
<1>4. EntryInv'
  BY DEF IInv, EntryInv, Faithful, DataVersion, Steady, cache, database
<1> QED
  BY <1>2, <1>3, <1>4 DEF IInv

\* A flight that is unchanged leaves the newest read as it was.
LEMMA SameFlight ==
  ASSUME UNCHANGED <<database, bumps, flight>>
  PROVE  Steady
  BY DEF Steady, Newest, NewestRead, DataVersion, database

\* A request begins knowing what has been served.
LEMMA BeginKeeps == ASSUME IInv, NEW r \in Requests, Begin(r) PROVE IInv'
<1>1. PICK origin \in Origins :
        Goes(r, [Idle EXCEPT !.pc = "peek", !.origin = origin,
                             !.version = DataVersion, !.floor = seen])
  BY DEF Begin
<1> DEFINE s == [Idle EXCEPT !.pc = "peek", !.origin = origin,
                            !.version = DataVersion, !.floor = seen]
<1>2. Goes(r, s)
  BY <1>1
<1>3. NoSeries.version = -1 /\ Idle \in HandlerState /\ Idle.series = NoSeries
  BY IdleType
<1>4. DataVersion \in Versions /\ DataVersion \in Nat /\ seen \in Nat
  BY VersionTypes DEF IInv, TypeOK
<1>5. Newest \in Nat /\ seen <= Newest /\ Newest <= DataVersion
  BY NewestIsRead DEF IInv, EntryInv
<1> HIDE DEF Newest, DataVersion, Idle
<1>6. /\ s \in HandlerState /\ s.pc = "peek" /\ s.origin = origin /\ s.series = NoSeries
      /\ s.version = DataVersion /\ s.floor = seen
  BY <1>3, <1>4 DEF HandlerState
<1> HIDE DEF s
<1>7. HandlerInv(s)
  BY <1>3, <1>4, <1>5, <1>6 DEF HandlerInv, Faithful
<1>8. Steady
  BY SameFlight DEF Begin
<1> HIDE DEF s
<1>9. Handlers' /\ handlers' \in [Requests -> HandlerState]
  BY <1>2, <1>7, <1>8, OneHandler DEF IInv, s
<1>10. UNCHANGED <<second, database, bumps, cache, flight, seen>>
  BY DEF Begin
<1>11. seen' \in Nat /\ seen' <= Newest'
  BY <1>4, <1>5, <1>8, <1>10 DEF Steady
<1> QED
  BY <1>8, <1>9, <1>10, <1>11, OnlyRequests

\* What a sound request carries, by name.
LEMMA Carried ==
  ASSUME IInv, NEW r \in Requests
  PROVE  /\ handlers[r] \in HandlerState /\ HandlerInv(handlers[r])
         /\ handlers[r].series \in Series /\ handlers[r].series.version \in Versions
         /\ handlers[r].series.version \in Int /\ handlers[r].floor \in Nat
         /\ handlers[r].version \in Versions
         /\ entry.version \in Versions /\ entry.version \in Int /\ entry.version <= Newest
         /\ seen \in Nat /\ seen <= Newest /\ Newest \in Nat
<1>1. HandlerInv(handlers[r])
  BY DEF IInv, Handlers
<1>2. handlers[r] \in HandlerState
  BY <1>1 DEF HandlerInv
<1>3. handlers[r].series \in Series /\ handlers[r].floor \in Nat /\ handlers[r].version \in Versions
  BY <1>2 DEF HandlerState
<1>4. handlers[r].series.version \in Versions
  BY <1>3 DEF Series
<1>5. entry.version \in Versions /\ seen \in Nat
  BY DEF IInv, TypeOK, Entry
<1>6. entry.version <= Newest /\ seen <= Newest /\ Newest \in Nat
  BY NewestIsRead DEF IInv, EntryInv
<1> QED
  BY <1>1, <1>2, <1>3, <1>4, <1>5, <1>6, VersionTypes DEF IInv

\* The fast path answers with the memoized render, or gives it up.
LEMMA PeekKeeps == ASSUME IInv, NEW r \in Requests, Peek(r) PROVE IInv'
<1>1. Steady /\ UNCHANGED <<second, database, bumps, cache, flight>>
  BY SameFlight DEF Peek
<1>2. CASE Serve(r, entry)
  <2>1. /\ Handlers' /\ handlers' \in [Requests -> HandlerState]
        /\ seen' \in Nat /\ seen' <= Newest'
    BY <1>1, <1>2, Carried, Served DEF IInv
  <2> QED
    BY <1>1, <2>1, OnlyRequests
<1>3. CASE /\ Goes(r, [handlers[r] EXCEPT !.pc = "fetch", !.version = 0])
           /\ UNCHANGED seen
  <2> DEFINE s == [handlers[r] EXCEPT !.pc = "fetch", !.version = 0]
  <2>1. 0 \in Versions
    BY CacheAssumption DEF Versions
  <2>2. s \in HandlerState /\ s.pc = "fetch" /\ s.floor = handlers[r].floor
        /\ s.series = handlers[r].series /\ s.origin = handlers[r].origin
    BY <2>1, Carried DEF HandlerState
  <2>3. handlers[r].pc = "peek"
    BY DEF Peek
  <2> HIDE DEF s
  <2>4. HandlerInv(s)
    BY <2>2, <2>3, Carried DEF HandlerInv
  <2>5. Handlers' /\ handlers' \in [Requests -> HandlerState]
    BY <1>1, <1>3, <2>4, OneHandler DEF IInv, s
  <2>6. seen' \in Nat /\ seen' <= Newest'
    BY <1>1, <1>3, Carried DEF Steady
  <2> QED
    BY <1>1, <2>5, <2>6, OnlyRequests
<1> QED
  BY <1>2, <1>3 DEF Peek

\* A request joins the fetch, or begins one.
LEMMA JoinKeeps == ASSUME IInv, NEW r \in Requests, Join(r) PROVE IInv'
<1> DEFINE s == [handlers[r] EXCEPT !.pc = "wait"]
<1>1. UNCHANGED <<second, database, bumps, cache, seen>> /\ Goes(r, s)
      /\ handlers[r].pc = "fetch"
  BY DEF Join
<1>2. flight' = flight \/ (flight.pc = "none" /\ flight' = [flight EXCEPT !.pc = "snapshot"])
  BY DEF Join
<1>3. flight' = flight \/ (flight.pc = "none" /\ flight'.pc = "snapshot")
  BY <1>2 DEF IInv, TypeOK
<1>4. Steady
  BY <1>1, <1>3 DEF Steady, Newest, NewestRead, DataVersion, database
<1>5. s \in HandlerState /\ s.pc = "wait" /\ s.floor = handlers[r].floor
      /\ s.series = handlers[r].series /\ s.origin = handlers[r].origin
  BY Carried DEF HandlerState
<1> HIDE DEF s
<1>6. HandlerInv(s)
  BY <1>1, <1>5, Carried DEF HandlerInv
<1>7. Handlers' /\ handlers' \in [Requests -> HandlerState]
  BY <1>1, <1>4, <1>6, OneHandler DEF IInv
<1>8. seen' \in Nat /\ seen' <= Newest'
  BY <1>1, <1>4, Carried DEF Steady
<1> QED
  BY <1>1, <1>2, <1>4, <1>7, <1>8, OnlyRequests

\* Render reuses an equal or newer answer, or copies the validator.
LEMMA LookupKeeps == ASSUME IInv, NEW r \in Requests, Lookup(r) PROVE IInv'
<1>1. Steady /\ UNCHANGED <<second, database, bumps, cache, flight>> /\ handlers[r].pc = "lookup"
  BY SameFlight DEF Lookup
<1>2. CASE Serve(r, entry)
  <2>1. /\ Handlers' /\ handlers' \in [Requests -> HandlerState]
        /\ seen' \in Nat /\ seen' <= Newest'
    BY <1>1, <1>2, Carried, Served DEF IInv
  <2> QED
    BY <1>1, <2>1, OnlyRequests
<1>3. CASE /\ Goes(r, [handlers[r] EXCEPT !.pc = "assemble", !.previous = validator])
           /\ UNCHANGED seen
  <2> DEFINE s == [handlers[r] EXCEPT !.pc = "assemble", !.previous = validator]
  <2>1. validator \in Validator
    BY DEF IInv, TypeOK
  <2>2. s \in HandlerState /\ s.pc = "assemble" /\ s.floor = handlers[r].floor
        /\ s.series = handlers[r].series /\ s.origin = handlers[r].origin
    BY <2>1, Carried DEF HandlerState
  <2> HIDE DEF s
  <2>4. HandlerInv(s)
    BY <1>1, <2>2, Carried DEF HandlerInv
  <2>5. Handlers' /\ handlers' \in [Requests -> HandlerState]
    BY <1>1, <1>3, <2>4, OneHandler DEF IInv, s
  <2>6. seen' \in Nat /\ seen' <= Newest'
    BY <1>1, <1>3, Carried DEF Steady
  <2> QED
    BY <1>1, <2>5, <2>6, OnlyRequests
<1> QED
  BY <1>2, <1>3 DEF Lookup

\* The date given to a render moves exactly when its XML changes.
LEMMA DateMoves ==
  ASSUME TypeOK, NEW v \in Validator, NEW etag
  PROVE  /\ LastModified(v, etag) \in Nat
         /\ v # NoValidator => IF v.etag = etag THEN LastModified(v, etag) = v.lm
                               ELSE LastModified(v, etag) > v.lm
<1>1. second \in Nat
  BY VersionTypes
<1>2. CASE v = NoValidator
  BY <1>1, <1>2 DEF LastModified
<1>3. CASE v # NoValidator
  <2>1. v.lm \in Nat
    BY <1>3 DEF Validator
  <2>2. CASE v.etag = etag
    BY <1>3, <2>1, <2>2 DEF LastModified
  <2>3. CASE v.etag # etag /\ second > v.lm
    BY <1>1, <1>3, <2>1, <2>3 DEF LastModified
  <2>4. CASE v.etag # etag /\ ~(second > v.lm)
    BY <1>1, <1>3, <2>1, <2>4 DEF LastModified
  <2> QED
    BY <2>2, <2>3, <2>4
<1> QED
  BY <1>2, <1>3

\* The XML, its hash and its date are made outside the lock.
LEMMA AssembleKeeps == ASSUME IInv, NEW r \in Requests, Assemble(r) PROVE IInv'
<1> DEFINE h == handlers[r]
           lm == LastModified(h.previous, ETag(h.origin, h.series))
           s == [h EXCEPT !.pc = "store", !.lm = lm]
<1>1. /\ Steady /\ UNCHANGED <<second, database, bumps, cache, flight, seen>>
      /\ h.pc = "assemble" /\ Goes(r, s)
  BY SameFlight DEF Assemble
<1>2. h.previous \in Validator /\ h \in HandlerState
  BY Carried DEF HandlerState
<1>3. lm \in Nat /\ (h.previous # NoValidator =>
        IF h.previous.etag = ETag(h.origin, h.series) THEN lm = h.previous.lm
        ELSE lm > h.previous.lm)
  BY <1>2, DateMoves DEF IInv
<1> HIDE DEF lm
<1>4. s \in HandlerState /\ s.pc = "store" /\ s.floor = h.floor /\ s.lm = lm
      /\ s.series = h.series /\ s.origin = h.origin /\ s.previous = h.previous
  BY <1>2, <1>3 DEF HandlerState
<1>5. HandlerInv(h)
  BY Carried
<1> HIDE DEF s, h
<1>6. Dated(s)
  BY <1>3, <1>4 DEF Dated, ETag
<1>7. HandlerInv(s)
  BY <1>1, <1>4, <1>5, <1>6 DEF HandlerInv
<1>8. Handlers' /\ handlers' \in [Requests -> HandlerState]
  BY <1>1, <1>7, OneHandler DEF IInv
<1>9. seen' \in Nat /\ seen' <= Newest'
  BY <1>1, Carried DEF Steady
<1> QED
  BY <1>1, <1>8, <1>9, OnlyRequests

\* A render replaces the entry and the validator, or a newer one is served.
LEMMA StoreKeeps == ASSUME IInv, NEW r \in Requests, Store(r) PROVE IInv'
<1> DEFINE h == handlers[r]
           rendered == [version |-> h.series.version, origin |-> h.origin,
                        row |-> h.series.row, eps |-> h.series.eps, lm |-> h.lm]
           made == [etag |-> ETag(h.origin, h.series), lm |-> h.lm]
<1>1. /\ Steady /\ UNCHANGED <<second, database, bumps, flight>> /\ h.pc = "store"
      /\ \/ Serve(r, rendered) /\ UNCHANGED cache
         \/ Serve(r, entry) /\ UNCHANGED cache
         \/ Serve(r, rendered) /\ entry' = rendered /\ validator' = made
  BY SameFlight DEF Store
<1>2. HandlerInv(h) /\ h.series.version \in Versions /\ h.series.version <= Newest
  BY Carried DEF HandlerInv
<1>3. /\ h.origin \in Origins /\ h.lm \in Nat /\ Faithful(h.series)
      /\ h.series.row \in 0 .. MaxCommits /\ h.series.eps \in 0 .. MaxCommits
  BY <1>1, <1>2, Carried DEF HandlerInv, HandlerState, Series
<1>4. rendered.version = h.series.version /\ Faithful(rendered) /\ rendered \in Entry
  BY <1>2, <1>3 DEF Faithful, Entry
<1>5. made \in Validator
  BY <1>3 DEF ETag, Validator
<1> HIDE DEF h, rendered, made
<1>6. ASSUME NEW e, e.version \in Versions, e.version <= Newest, Serve(r, e)
      PROVE  /\ Handlers' /\ handlers' \in [Requests -> HandlerState]
             /\ seen' \in Nat /\ seen' <= Newest'
  BY <1>1, <1>6, Carried, Served DEF IInv
<1>7. /\ Handlers' /\ handlers' \in [Requests -> HandlerState]
      /\ seen' \in Nat /\ seen' <= Newest'
  BY <1>1, <1>2, <1>4, <1>6, Carried
<1>8. CASE UNCHANGED cache
  BY <1>1, <1>7, <1>8, OnlyRequests
<1>9. CASE entry' = rendered /\ validator' = made
  <2>1. TypeOK'
    BY <1>1, <1>4, <1>5, <1>7, <1>9 DEF IInv, TypeOK, database, HandlerState, Series, Versions,
       Entry, Validator
  <2>2. FlightInv'
    BY <1>1 DEF IInv, FlightInv, Faithful, NewestRead, DataVersion, database
  <2>3. EntryInv'
    BY <1>1, <1>2, <1>4, <1>7, <1>9 DEF EntryInv, Faithful, DataVersion, Steady
  <2> QED
    BY <1>7, <2>1, <2>2, <2>3 DEF IInv
<1> QED
  BY <1>1, <1>8, <1>9

-----------------------------------------------------------------------------
(* The writers, the fetch and the caches.                                  *)

\* What is held outlasts a step of the writers or of the fetch.
LEMMA HeldKeeps ==
  ASSUME IInv, Later, UNCHANGED <<entry, seen>>
  PROVE  EntryInv'
<1>1. entry.version \in Int /\ entry.version <= Newest /\ Faithful(entry)
  BY VersionTypes DEF IInv, EntryInv
<1>2. /\ entry.version <= Newest'
      /\ entry.version = DataVersion' /\ bumps' = commits' => entry.row = row' /\ entry.eps = eps'
  BY <1>1, LaterHolds DEF IInv
<1>3. seen <= Newest /\ seen \in Nat /\ Newest \in Nat
  BY NewestIsRead DEF IInv, EntryInv, TypeOK
<1>4. seen <= Newest'
  BY <1>3 DEF Later
<1> QED
  BY <1>2, <1>4 DEF EntryInv, Faithful

\* A write makes everything read before it out of date.
LEMMA CommitKeeps == ASSUME IInv, Commit PROVE IInv'
<1>1. /\ commits' = commits + 1 /\ commits < MaxCommits
      /\ UNCHANGED <<second, bumps, cache, flight, handlers, seen>>
      /\ row' \in {row, commits + 1} /\ eps' \in {eps, commits + 1}
  BY DEF Commit
<1>2. /\ commits \in Nat /\ bumps \in Nat /\ bumps <= commits /\ row \in 0 .. commits
      /\ eps \in 0 .. commits /\ MaxCommits \in Nat
  BY CacheAssumption DEF IInv, TypeOK
<1>3. NewestRead' = DataVersion /\ DataVersion' = DataVersion /\ bumps' = bumps /\ commits' # bumps
  BY <1>1, <1>2 DEF NewestRead, DataVersion
<1>4. NewestRead <= NewestRead' /\ NewestRead \in Nat /\ NewestRead' \in Nat
  BY <1>3, VersionTypes DEF IInv
<1>5. flight.series.version \in Int /\ Newest \in Nat
  BY VersionTypes, NewestIsRead DEF IInv
<1>6. Later
  BY <1>1, <1>3, <1>4, <1>5 DEF Later, Newest
<1>7. TypeOK'
  BY <1>1, <1>2 DEF IInv, TypeOK, cache, Series, Versions, Entry, Validator
<1>8. FlightInv'
  BY <1>1, <1>3, <1>4, <1>5 DEF IInv, FlightInv, Faithful
<1>9. EntryInv' /\ Handlers'
  BY <1>1, <1>6, HeldKeeps, SameHandlers DEF IInv, cache
<1> QED
  BY <1>7, <1>8, <1>9 DEF IInv

\* A bump gives the data a version that nothing read so far has.
LEMMA BumpKeeps == ASSUME IInv, Bump PROVE IInv'
<1>1. /\ bumps' = bumps + 1 /\ bumps < commits
      /\ UNCHANGED <<second, database, cache, flight, handlers, seen>>
  BY DEF Bump, Bumped
<1>2. commits \in Nat /\ bumps \in Nat
  BY VersionTypes DEF IInv
<1>3. DataVersion' = DataVersion + 1 /\ NewestRead = DataVersion /\ NewestRead' = DataVersion + 1
  BY <1>1, <1>2 DEF NewestRead, DataVersion, database
<1>4. /\ flight.series.version \in Int /\ Newest \in Nat /\ DataVersion \in Nat
      /\ flight.series.version <= DataVersion
  BY <1>3, VersionTypes, NewestIsRead DEF IInv, FlightInv
<1>5. Later
  BY <1>1, <1>3, <1>4 DEF Later, Newest
<1>6. TypeOK'
  BY <1>1, <1>2 DEF IInv, TypeOK, cache, database, Series, Versions, Entry, Validator
<1>7. FlightInv'
  BY <1>1, <1>3, <1>4 DEF IInv, FlightInv, Faithful
<1>8. EntryInv' /\ Handlers'
  BY <1>1, <1>5, HeldKeeps, SameHandlers DEF IInv, cache
<1> QED
  BY <1>6, <1>7, <1>8 DEF IInv

\* The fetch takes a step, with what it has read so far.
LEMMA FlightStep ==
  ASSUME IInv, UNCHANGED <<second, database, bumps, cache, handlers, seen>>,
         flight' \in [pc : {"none", "snapshot", "row", "episodes", "done"}, series : Series],
         flight'.pc \in {"row", "episodes", "done"},
         flight'.series.version = Newest,
         flight'.pc = "episodes" => flight'.series.row = row,
         flight'.pc = "done" => Faithful(flight'.series)
  PROVE  IInv'
<1>1. UNCHANGED <<DataVersion, NewestRead, row, eps, bumps, commits>>
  BY DEF DataVersion, NewestRead, database
<1>2. Newest \in Nat /\ Newest <= NewestRead
  BY NewestIsRead DEF IInv
<1>3. Newest' = Newest
  BY DEF Newest
<1>4. Steady
  BY <1>1, <1>3 DEF Steady
<1> HIDE DEF Newest
<1>5. TypeOK'
  BY DEF IInv, TypeOK, database, cache, Series, Versions, Entry, Validator
<1>6. FlightInv'
  BY <1>1, <1>2 DEF FlightInv, Faithful
<1>7. Later
  BY <1>4, SteadyIsLater DEF IInv
<1>8. EntryInv' /\ Handlers'
  BY <1>7, HeldKeeps, SameHandlers DEF IInv, cache
<1> QED
  BY <1>5, <1>6, <1>8 DEF IInv

\* It reads the version, the row and the episodes, in this order; a first
\* fetch that could not be stored has none.
LEMMA FetchKeeps ==
  ASSUME IInv, ReadVersion \/ ReadRow \/ ReadEpisodes \/ FetchUnstored
  PROVE  IInv'
<1>1. UNCHANGED <<second, database, bumps, cache, handlers, seen>>
  BY DEF ReadVersion, ReadRow, ReadEpisodes, FetchUnstored
<1> DEFINE FlightTypes == [pc : {"none", "snapshot", "row", "episodes", "done"}, series : Series]
<1>2. /\ flight \in FlightTypes /\ DataVersion \in Versions /\ DataVersion \in Nat
      /\ commits \in Nat /\ 0 \in Versions
  BY VersionTypes, CacheAssumption DEF IInv, TypeOK, Versions
<1>3. row \in 0 .. MaxCommits /\ eps \in 0 .. MaxCommits /\ 0 \in 0 .. MaxCommits
  BY CacheAssumption DEF IInv, TypeOK
<1>4. CASE ReadVersion
  <2>1. flight.pc = "snapshot" /\ commits > 0
        /\ flight' = [flight EXCEPT !.pc = "row", !.series = [@ EXCEPT !.version = DataVersion]]
    BY <1>4 DEF ReadVersion
  <2>2. /\ flight' \in FlightTypes /\ flight'.pc = "row"
        /\ flight'.series.version = DataVersion
    BY <1>2, <2>1 DEF Series
  <2>3. Newest = DataVersion
    BY <1>2, <2>1 DEF Newest, NewestRead
  <2> QED
    BY <1>1, <2>2, <2>3, FlightStep
<1>5. CASE ReadRow
  <2>1. flight.pc = "row"
        /\ flight' = [flight EXCEPT !.pc = "episodes", !.series = [@ EXCEPT !.row = row]]
    BY <1>5 DEF ReadRow
  <2>2. /\ flight' \in FlightTypes /\ flight'.pc = "episodes"
        /\ flight'.series.version = flight.series.version /\ flight'.series.row = row
    BY <1>2, <1>3, <2>1 DEF Series
  <2> QED
    BY <1>1, <2>1, <2>2, FlightStep DEF Newest
<1>6. CASE ReadEpisodes
  <2> DEFINE s == [flight.series EXCEPT !.eps = eps, !.version = flight.series.version]
  <2>1. flight.pc = "episodes" /\ flight' = [flight EXCEPT !.pc = "done", !.series = s]
    BY <1>6 DEF ReadEpisodes, SnapshotVersion
  <2>2. /\ s \in Series /\ s.version = flight.series.version
        /\ s.row = flight.series.row /\ s.eps = eps
    BY <1>2, <1>3 DEF Series
  <2> HIDE DEF s
  <2>3. flight' \in FlightTypes /\ flight'.pc = "done" /\ flight'.series = s
    BY <1>2, <2>1, <2>2
  <2>4. Faithful(s)
    BY <2>1, <2>2 DEF IInv, FlightInv, Faithful
  <2> QED
    BY <1>1, <2>1, <2>2, <2>3, <2>4, FlightStep DEF Newest
<1>7. CASE FetchUnstored
  <2> DEFINE s == [NoSeries EXCEPT !.version = 0]
  <2>1. commits = 0 /\ flight.pc = "snapshot" /\ flight' = [pc |-> "done", series |-> s]
    BY <1>7 DEF FetchUnstored
  <2>2. s \in Series /\ s.version = 0
    BY <1>2, <1>3 DEF NoSeries, Series
  <2> HIDE DEF s
  <2>3. Newest = 0 /\ Faithful(s)
    BY <2>1, <2>2, VersionTypes DEF IInv, Newest, NewestRead, Faithful, DataVersion
  <2> QED
    BY <1>1, <2>1, <2>2, <2>3, FlightStep
<1> QED
  BY <1>4, <1>5, <1>6, <1>7

\* Everyone who waits gets the series of the fetch that lands.
LEMMA LandKeeps == ASSUME IInv, Land PROVE IInv'
<1>1. /\ flight.pc = "done" /\ flight' = NoFlight
      /\ UNCHANGED <<second, database, bumps, cache, seen>>
      /\ handlers' = [r \in Requests |->
           IF ~Woken(r) THEN handlers[r]
           ELSE [handlers[r] EXCEPT !.pc = "lookup", !.series = flight.series]]
  BY DEF Land
<1>2. flight'.pc = "none" /\ flight'.series = NoSeries
  BY <1>1 DEF NoFlight
<1>3. Newest = flight.series.version /\ Newest' = NewestRead /\ Newest \in Nat
      /\ NewestRead \in Nat /\ Newest <= NewestRead
  BY <1>1, <1>2, NewestIsRead, VersionTypes DEF IInv, Newest, NewestRead, DataVersion, database
<1>4. Later
  <2>1. UNCHANGED <<bumps, commits, row, eps>>
    BY <1>1 DEF database
  <2> HIDE DEF Newest, NewestRead
  <2> QED
    BY <1>3, <2>1 DEF Later
<1>5. ASSUME NEW r \in Requests PROVE HandlerInv(handlers'[r])
  <2> DEFINE h == handlers[r]
  <2>1. HandlerInv(h) /\ h \in HandlerState /\ flight.series \in Series
    BY Carried, VersionTypes DEF IInv
  <2>2. CASE ~Woken(r)
    BY <1>1, <2>1, <2>2
  <2>3. CASE Woken(r)
    <3>1. handlers'[r] = [h EXCEPT !.pc = "lookup", !.series = flight.series] /\ h.pc = "wait"
      BY <1>1, <2>3 DEF Woken
    <3>2. /\ handlers'[r] \in HandlerState /\ handlers'[r].pc = "lookup"
          /\ handlers'[r].series = flight.series /\ handlers'[r].floor = h.floor
          /\ handlers'[r].origin = h.origin
      BY <2>1, <3>1 DEF HandlerState
    <3>3. Faithful(flight.series)
      BY <1>1 DEF IInv, FlightInv
    <3> HIDE DEF h
    <3> QED
      BY <1>3, <2>1, <3>1, <3>2, <3>3 DEF HandlerInv
  <2> QED
    BY <2>2, <2>3
<1>6. handlers' \in [Requests -> HandlerState]
  BY <1>1, <1>5 DEF HandlerInv
<1>7. Handlers'
  <2> SUFFICES ASSUME NEW r \in Requests PROVE HandlerInv(handlers[r])'
    BY DEF Handlers
  <2>1. PICK h : h = handlers'[r] /\ HandlerInv(h)
    BY <1>5
  <2>2. HandlerInv(h)'
    BY <1>4, <2>1, OthersHold DEF IInv
  <2> QED
    BY <2>1, <2>2 DEF HandlerInv, HandlerState, Faithful, Dated, ETag, Series, Versions, Validator
<1>8. TypeOK'
  BY <1>1, <1>2, <1>6, IdleType DEF IInv, TypeOK, NoFlight, database, cache, HandlerState, Series,
     Versions, Entry, Validator
<1>9. FlightInv'
  <2>1. NoSeries.version = -1
    BY IdleType
  <2>2. NewestRead' = NewestRead
    BY <1>1 DEF NewestRead, DataVersion, database
  <2> HIDE DEF NewestRead
  <2>3. flight'.series.version <= NewestRead'
    BY <1>2, <1>3, <2>1, <2>2
  <2> QED
    BY <1>2, <2>3 DEF FlightInv
<1>10. EntryInv'
  BY <1>1, <1>4, HeldKeeps DEF cache
<1> QED
  BY <1>7, <1>8, <1>9, <1>10 DEF IInv

\* The clock, and what the caches drop.
LEMMA DropsKeep == ASSUME IInv, Tick \/ Evict \/ DropValidators PROVE IInv'
<1>1. UNCHANGED <<database, bumps, flight, handlers, seen>>
  BY DEF Tick, Evict, DropValidators
<1>2. Steady
  BY <1>1, SameFlight
<1>3. Later
  BY <1>2, SteadyIsLater DEF IInv
<1>4. NoEntry \in Entry /\ NoEntry.version = -1 /\ NoValidator \in Validator
  BY CacheAssumption DEF NoEntry, Entry, Versions, Validator
<1>5. /\ entry' \in Entry /\ validator' \in Validator /\ second' \in 0 .. MaxSecond
      /\ entry' \in {entry, NoEntry}
  BY <1>4, CacheAssumption DEF Tick, Evict, DropValidators, IInv, TypeOK, cache
<1>6. TypeOK'
  BY <1>1, <1>5 DEF IInv, TypeOK, database, Series, Versions, Entry, Validator
<1>7. FlightInv'
  BY <1>1 DEF IInv, FlightInv, Faithful, NewestRead, DataVersion, database
<1>8. EntryInv'
  <2>1. CASE entry' = entry
    BY <1>1, <1>3, <2>1, HeldKeeps
  <2>2. CASE entry' = NoEntry
    <3>1. Newest' = Newest /\ Newest \in Nat /\ DataVersion' = DataVersion /\ DataVersion \in Nat
      BY <1>2, NewestIsRead, VersionTypes DEF IInv, Steady, DataVersion
    <3> QED
      BY <1>1, <1>4, <2>2, <3>1 DEF IInv, EntryInv, Faithful
  <2> QED
    BY <1>5, <2>1, <2>2
<1>9. Handlers'
  BY <1>1, <1>3, SameHandlers DEF IInv
<1> QED
  BY <1>6, <1>7, <1>8, <1>9 DEF IInv

-----------------------------------------------------------------------------
(* The invariant.                                                          *)

\* It holds when nothing was fetched yet.
LEMMA InvInit == Init => IInv
<1> SUFFICES ASSUME Init PROVE IInv
  OBVIOUS
<1>1. NoEntry \in Entry /\ NoEntry.version = -1 /\ NoValidator \in Validator
  BY CacheAssumption DEF NoEntry, Entry, Versions, Validator
<1>2. NoSeries \in Series /\ NoSeries.version = -1 /\ Idle \in HandlerState /\ Idle.series = NoSeries
  BY IdleType
<1>3. /\ commits = 0 /\ bumps = 0 /\ row = 0 /\ eps = 0 /\ second = 0 /\ seen = 0
      /\ entry = NoEntry /\ validator = NoValidator /\ handlers = [r \in Requests |-> Idle]
      /\ flight.pc = "none" /\ flight.series = NoSeries /\ flight = NoFlight
  BY DEF Init, NoFlight
<1>4. DataVersion = 1 /\ NewestRead = 0 /\ Newest = 0
  BY <1>3 DEF DataVersion, NewestRead, Newest
<1>5. TypeOK
  BY <1>1, <1>2, <1>3, CacheAssumption DEF TypeOK, NoFlight, HandlerState
<1>6. FlightInv
  BY <1>2, <1>3, <1>4 DEF FlightInv
<1>7. EntryInv
  BY <1>1, <1>3, <1>4 DEF EntryInv, Faithful
<1>8. Idle.pc = "idle" /\ Idle.floor = 0
  BY DEF Idle
<1>9. HandlerInv(Idle)
  BY <1>2, <1>4, <1>8 DEF HandlerInv, Faithful
<1> HIDE DEF Idle
<1>10. Handlers
  BY <1>3, <1>9 DEF Handlers
<1> QED
  BY <1>5, <1>6, <1>7, <1>10 DEF IInv

\* Every step keeps it.
LEMMA InvStep == IInv /\ [Next]_vars => IInv'
<1> SUFFICES ASSUME IInv, [Next]_vars PROVE IInv'
  OBVIOUS
<1>1. ASSUME NEW r \in Requests, Begin(r) \/ Handle(r) PROVE IInv'
  BY <1>1, BeginKeeps, PeekKeeps, JoinKeeps, LookupKeeps, AssembleKeeps, StoreKeeps DEF Handle
<1>2. CASE Fetching
  BY <1>2, FetchKeeps, LandKeeps DEF Fetching
<1>3. CASE Commit \/ Bump \/ Tick \/ Evict \/ DropValidators
  BY <1>3, CommitKeeps, BumpKeeps, DropsKeep
<1>4. CASE UNCHANGED vars
  <2>1. UNCHANGED <<second, database, bumps, cache, flight, handlers, seen>>
    BY <1>4 DEF vars
  <2>2. Steady
    BY <2>1, SameFlight
  <2>3. Handlers'
    BY <2>1, <2>2, SteadyIsLater, SameHandlers DEF IInv
  <2>4. seen' \in Nat /\ seen' <= Newest' /\ handlers' \in [Requests -> HandlerState]
    BY <2>1, <2>2 DEF IInv, EntryInv, TypeOK, Steady, HandlerState
  <2> QED
    BY <2>1, <2>2, <2>3, <2>4, OnlyRequests
<1> QED
  BY <1>1, <1>2, <1>3, <1>4 DEF Next

\* The invariant holds throughout.
LEMMA Invariance == Spec => []IInv
  BY InvInit, InvStep, PTL DEF Spec

-----------------------------------------------------------------------------
(* The theorems.                                                           *)

\* Database, caches, fetch and requests keep their types (store/queries.go,
\* feed/cache.go, feed/refresh.go).
THEOREM TypeCorrect == Spec => []TypeOK
<1>1. IInv => TypeOK
  BY DEF IInv
<1> QED
  BY <1>1, Invariance, PTL

\* Stale XML is never cached under the newest version, whatever is written
\* between the two queries of a read (Store.ReadSeries, Render).
THEOREM NewestStaysFresh == Spec => []NewestIsFresh
<1>1. IInv => NewestIsFresh
  BY DEF IInv, EntryInv, Faithful, NewestIsFresh
<1> QED
  BY <1>1, Invariance, PTL

\* A step that leaves the other requests alone answers at most the one it is of.
LEMMA OnlyOne ==
  ASSUME IInv, NEW r \in Requests, NEW q \in Requests, Begin(r) \/ Handle(r),
         handlers[q].pc # "served", handlers'[q].pc = "served"
  PROVE  q = r /\ (Peek(r) \/ Lookup(r) \/ Store(r))
<1>1. handlers \in [Requests -> HandlerState]
  BY DEF IInv, TypeOK, HandlerState
<1>2. PICK s : Goes(r, s)
  BY DEF Begin, Handle, Peek, Join, Lookup, Assemble, Store, Serve
<1>3. q = r
  BY <1>1, <1>2 DEF Goes
<1>4. handlers[r] \in HandlerState
  BY <1>1
<1>5. ~Begin(r)
  <2>1. SUFFICES ASSUME Begin(r) PROVE FALSE
    OBVIOUS
  <2>2. PICK o \in Origins : Goes(r, [Idle EXCEPT !.pc = "peek", !.origin = o,
                                      !.version = DataVersion, !.floor = seen])
    BY <2>1 DEF Begin
  <2>3. handlers'[r].pc = "peek"
    BY <1>1, <2>2 DEF Goes, Idle
  <2> QED
    BY <1>3, <2>3
<1>6. ~Join(r)
  BY <1>1, <1>3, <1>4 DEF Join, Goes, HandlerState
<1>7. ~Assemble(r)
  BY <1>1, <1>3, <1>4 DEF Assemble, Goes, HandlerState
<1> QED
  BY <1>3, <1>5, <1>6, <1>7 DEF Handle

\* Only a request's own steps answer it: writers, the fetch and the caches do not.
LEMMA Answered ==
  ASSUME IInv, [Next]_vars, NEW q \in Requests,
         handlers[q].pc # "served", handlers'[q].pc = "served"
  PROVE  Peek(q) \/ Lookup(q) \/ Store(q)
<1>1. ASSUME NEW r \in Requests, Begin(r) \/ Handle(r)
      PROVE  Peek(q) \/ Lookup(q) \/ Store(q)
  BY <1>1, OnlyOne
<1>2. handlers' # handlers
  OBVIOUS
<1>3. ~Land
  <2>1. handlers[q] \in HandlerState
    BY Carried
  <2>2. ASSUME Land PROVE handlers'[q] \in {handlers[q], [handlers[q] EXCEPT !.pc = "lookup", !.series = flight.series]}
    BY <2>2 DEF Land
  <2>3. [handlers[q] EXCEPT !.pc = "lookup", !.series = flight.series].pc = "lookup"
    BY <2>1 DEF HandlerState
  <2> QED
    BY <2>2, <2>3
<1>4. \E r \in Requests : Begin(r) \/ Handle(r)
  BY <1>2, <1>3 DEF Next, vars, Fetching, ReadVersion, ReadRow, ReadEpisodes, FetchUnstored,
     Commit, Bump, Tick, Evict, DropValidators
<1> QED
  BY <1>1, <1>4

\* The version that answers a request.
LEMMA ServedVersion ==
  ASSUME IInv, NEW r \in Requests, NEW e, Serve(r, e)
  PROVE  handlers'[r].served = e.version
<1>1. handlers \in [Requests -> HandlerState]
  BY DEF IInv, TypeOK, HandlerState
<1> QED
  BY <1>1 DEF Serve, Goes, Idle

\* No answer is older than one that was finished before its request began.
LEMMA AnswerIsNew ==
  ASSUME IInv, [Next]_vars, NEW r \in Requests,
         handlers[r].pc # "served", handlers'[r].pc = "served"
  PROVE  handlers'[r].served = 0 \/ handlers'[r].served >= handlers[r].floor
<1> DEFINE h == handlers[r]
<1>1. /\ HandlerInv(h) /\ h.series.version \in Int /\ h.floor \in Nat
      /\ entry.version \in Int
  BY Carried
<1>2. CASE Peek(r)
  <2>1. h.pc = "peek" /\ h.version = entry.version /\ Serve(r, entry)
    <3>1. h \in HandlerState /\ handlers \in [Requests -> HandlerState]
      BY Carried DEF IInv, TypeOK, HandlerState
    <3>2. ~Goes(r, [h EXCEPT !.pc = "fetch", !.version = 0])
      BY <3>1 DEF Goes, HandlerState
    <3> QED
      BY <1>2, <3>2 DEF Peek, PeekMatches
  <2>2. handlers'[r].served = entry.version
    BY <2>1, ServedVersion
  <2> QED
    BY <1>1, <2>1, <2>2 DEF HandlerInv
<1>3. CASE Lookup(r)
  <2>1. h.pc = "lookup" /\ entry.version >= h.series.version /\ Serve(r, entry)
    <3>1. h \in HandlerState /\ handlers \in [Requests -> HandlerState]
      BY Carried DEF IInv, TypeOK, HandlerState
    <3>2. ~Goes(r, [h EXCEPT !.pc = "assemble", !.previous = validator])
      BY <3>1 DEF Goes, HandlerState
    <3> QED
      BY <1>3, <3>2 DEF Lookup
  <2>2. handlers'[r].served = entry.version
    BY <2>1, ServedVersion
  <2> QED
    BY <1>1, <2>1, <2>2 DEF HandlerInv
<1>4. CASE Store(r)
  <2> DEFINE rendered == [version |-> h.series.version, origin |-> h.origin,
                          row |-> h.series.row, eps |-> h.series.eps, lm |-> h.lm]
  <2>1. /\ h.pc = "store"
        /\ \/ Serve(r, rendered)
           \/ Serve(r, entry) /\ entry.version > h.series.version
    BY <1>4 DEF Store, NewerLanded
  <2>2. \/ handlers'[r].served = h.series.version
        \/ handlers'[r].served = entry.version /\ entry.version > h.series.version
    BY <2>1, ServedVersion
  <2> QED
    BY <1>1, <2>1, <2>2 DEF HandlerInv
<1> QED
  BY <1>2, <1>3, <1>4, Answered

\* Polls never go back, through a fetch of somebody else's, late renders and
\* evictions (Cache.Peek, Cache.Render, Feeds.GetSeries).
THEOREM PollsStayForward == Spec => PollsNeverGoBack
<1>1. IInv /\ [Next]_vars =>
        [\A r \in Requests :
           handlers[r].pc # "served" /\ handlers'[r].pc = "served"
             => handlers'[r].served = 0 \/ handlers'[r].served >= handlers[r].floor]_vars
  BY AnswerIsNew
<1> QED
  BY <1>1, Invariance, PTL DEF Spec, PollsNeverGoBack

\* A render that knows the feed's validator moves its date exactly when the
\* XML changes (Cache.lastModified, Cache.Render).
THEOREM DatesMove == Spec => LastModifiedMoves
<1>1. ASSUME IInv, [Next]_vars, NEW r \in Requests,
             handlers[r].pc = "store", handlers'[r].pc = "served",
             handlers[r].previous = validator, validator # NoValidator
      PROVE  \/ validator' = validator
             \/ validator'.etag # validator.etag /\ validator'.lm > validator.lm
  <2> DEFINE h == handlers[r]
             etag == ETag(h.origin, h.series)
  <2>1. Store(r)
    BY <1>1, Answered DEF Peek, Lookup
  <2>2. CASE UNCHANGED cache
    BY <2>2 DEF cache
  <2>3. CASE validator' = [etag |-> etag, lm |-> h.lm]
    <3>1. Dated(h)
      BY <1>1, Carried DEF HandlerInv
    <3>2. IF validator.etag = etag THEN h.lm = validator.lm ELSE h.lm > validator.lm
      BY <1>1, <3>1 DEF Dated
    <3>3. validator = [etag |-> validator.etag, lm |-> validator.lm]
      BY <1>1 DEF IInv, TypeOK, Validator
    <3> HIDE DEF h, etag
    <3> QED
      BY <2>3, <3>2, <3>3
  <2> QED
    BY <2>1, <2>2, <2>3 DEF Store
<1>2. IInv /\ [Next]_vars =>
        [\A r \in Requests :
           /\ handlers[r].pc = "store" /\ handlers'[r].pc = "served"
           /\ handlers[r].previous = validator /\ validator # NoValidator
           => \/ validator' = validator
              \/ validator'.etag # validator.etag /\ validator'.lm > validator.lm]_vars
  BY <1>1
<1> QED
  BY <1>2, Invariance, PTL DEF Spec, LastModifiedMoves

-----------------------------------------------------------------------------
(* One request at a time.                                                  *)

\* A render has copied the validator that its own will replace, unless the
\* validators were dropped meanwhile.
Undisturbed(h) ==
  h.pc \in {"assemble", "store"} => validator = NoValidator \/ h.previous = validator

LEMMA UndisturbedStep ==
  ASSUME IInv, NEW r, Requests = {r}, Undisturbed(handlers[r]), [Next]_vars
  PROVE  Undisturbed(handlers[r])'
<1> DEFINE h == handlers[r]
<1>1. /\ handlers \in [Requests -> HandlerState] /\ h \in HandlerState /\ r \in Requests
      /\ \A s : Goes(r, s) => handlers'[r] = s
  BY DEF IInv, TypeOK, HandlerState, Goes
<1>2. CASE Begin(r) \/ Peek(r) \/ Join(r)
  <2>1. handlers'[r].pc \in {"peek", "served", "fetch", "wait"}
    <3>1. CASE Begin(r)
      BY <1>1, <3>1 DEF Begin, Idle
    <3>2. CASE Peek(r)
      BY <1>1, <3>2 DEF Peek, Serve, Idle, HandlerState
    <3>3. CASE Join(r)
      BY <1>1, <3>3 DEF Join, HandlerState
    <3> QED
      BY <1>2, <3>1, <3>2, <3>3
  <2> QED
    BY <2>1 DEF Undisturbed
<1>3. CASE Lookup(r)
  <2>1. UNCHANGED validator
    BY <1>3 DEF Lookup, cache
  <2>2. CASE Serve(r, entry)
    <3>1. handlers'[r].pc = "served"
      BY <1>1, <2>2 DEF Serve, Idle
    <3> QED
      BY <3>1 DEF Undisturbed
  <2>3. CASE Goes(r, [h EXCEPT !.pc = "assemble", !.previous = validator])
    <3>1. handlers'[r].previous = validator
      BY <1>1, <2>3 DEF HandlerState
    <3> QED
      BY <2>1, <3>1 DEF Undisturbed
  <2> QED
    BY <1>3, <2>2, <2>3 DEF Lookup
<1>4. CASE Assemble(r)
  <2>1. /\ handlers'[r].pc = "store" /\ handlers'[r].previous = h.previous
        /\ h.pc = "assemble" /\ UNCHANGED validator
    BY <1>1, <1>4 DEF Assemble, HandlerState, cache
  <2> QED
    BY <2>1 DEF Undisturbed
<1>5. CASE Store(r)
  <2>1. handlers'[r].pc = "served"
    BY <1>1, <1>5 DEF Store, Serve, Idle
  <2> QED
    BY <2>1 DEF Undisturbed
<1>6. CASE Land
  <2>1. \/ handlers'[r] = h
        \/ handlers'[r] = [h EXCEPT !.pc = "lookup", !.series = flight.series]
    BY <1>1, <1>6 DEF Land
  <2>2. handlers'[r] = h \/ handlers'[r].pc = "lookup"
    BY <1>1, <2>1 DEF HandlerState
  <2> QED
    BY <1>6, <2>2 DEF Land, cache, Undisturbed
<1>7. CASE DropValidators
  BY <1>7 DEF DropValidators, Undisturbed
<1>8. CASE UNCHANGED <<validator, handlers>>
  BY <1>8 DEF Undisturbed
<1> QED
  BY <1>2, <1>3, <1>4, <1>5, <1>6, <1>7, <1>8
  DEF Next, Fetching, Handle, Commit, Bump, Tick, ReadVersion, ReadRow, ReadEpisodes,
      FetchUnstored, Evict, vars, cache

\* "Last-Modified must move whenever the XML changes" (feed/cache.go) holds
\* where requests for a feed come one at a time: what makes it fail is renders
\* that overlap.
THEOREM LoneRendersMoveDates ==
  ASSUME NEW r, Requests = {r}
  PROVE  Spec => ChangesMoveLastModified
<1>1. Init => Undisturbed(handlers[r])
  BY DEF Init, Undisturbed, Idle
<1>2. IInv /\ Undisturbed(handlers[r]) /\ [Next]_vars => Undisturbed(handlers[r])'
  BY UndisturbedStep
<1>3. ASSUME IInv, Undisturbed(handlers[r]), [Next]_vars,
             validator # NoValidator, validator' # NoValidator,
             validator'.etag # validator.etag
      PROVE  validator'.lm > validator.lm
  <2> DEFINE h == handlers[r]
             etag == ETag(h.origin, h.series)
  <2>1. Store(r) /\ ~UNCHANGED cache
    BY <1>3
    DEF Next, Fetching, Handle, Begin, Peek, Join, Lookup, Assemble, Land, Commit, Bump, Tick,
        ReadVersion, ReadRow, ReadEpisodes, FetchUnstored, Evict, DropValidators, vars, cache
  <2>2. h.pc = "store" /\ validator' = [etag |-> etag, lm |-> h.lm]
    BY <2>1 DEF Store
  <2>3. Dated(h) /\ h.previous = validator
    BY <1>3, <2>2 DEF IInv, Handlers, HandlerInv, Undisturbed
  <2>4. IF validator.etag = etag THEN h.lm = validator.lm ELSE h.lm > validator.lm
    BY <1>3, <2>3 DEF Dated
  <2> HIDE DEF h, etag
  <2> QED
    BY <1>3, <2>2, <2>4
<1>4. IInv /\ Undisturbed(handlers[r]) /\ [Next]_vars =>
        [validator # NoValidator /\ validator' # NoValidator
           /\ validator'.etag # validator.etag => validator'.lm > validator.lm]_vars
  BY <1>3
<1> HIDE DEF Undisturbed
<1> QED
  BY <1>1, <1>2, <1>4, Invariance, PTL DEF Spec, ChangesMoveLastModified
=============================================================================
