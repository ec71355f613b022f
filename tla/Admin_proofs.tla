------------------------------ MODULE Admin_proofs ------------------------------
(***************************************************************************)
(* Proofs about Admin: the limiter's global bound on login attempts, and    *)
(* sessions that do not outlive the token they were started under, for any *)
(* number of clients, requests, passkeys and ceremonies, any limits, and a  *)
(* clock and restarts without bound.                                       *)
(***************************************************************************)
EXTENDS Admin, FiniteSetTheorems, TLAPS

USE LimiterAssumption, AdminAssumption

-----------------------------------------------------------------------------
(* The limiter.                                                            *)

\* What the global bucket holds and what has been spent from it are together
\* never more than the burst and the refill up to the bucket's last use.
GlobalBucketOK ==
  /\ global \in [tokens : Nat, at : Nat] \cup {NoBucket}
  /\ global.at <= now
Accounted ==
  IF global = NoBucket THEN spent <= 0
  ELSE global.tokens + spent <= GlobalCapacity + GlobalRefill * global.at
BoundInv ==
  /\ now \in Nat /\ spent \in Int
  /\ GlobalBucketOK
  /\ Accounted

\* A record with the tokens of a bucket that exists is not the missing bucket.
LEMMA RealBucket ==
  ASSUME NEW t \in Nat, NEW a \in Nat
  PROVE  /\ [tokens |-> t, at |-> a] # NoBucket
         /\ [tokens |-> t, at |-> a] \in [tokens : Nat, at : Nat]
BY DEF NoBucket

\* Refilling never decreases, and adds what the time since the last use is worth.
LEMMA RefillGrows ==
  ASSUME NEW a \in Nat, NEW b \in Nat, a <= b, NEW r \in Nat
  PROVE  /\ r * a \in Nat /\ r * b \in Nat /\ (b - a) * r \in Nat
         /\ r * a + (b - a) * r = r * b /\ r * a <= r * b
<1>1. b - a \in Nat
  OBVIOUS
<1>2. PICK d \in Nat : d = b - a
  BY <1>1
<1>3. b = a + d
  BY <1>2
<1>4. r * a \in Nat /\ d * r \in Nat /\ r * (a + d) = r * a + d * r
  OBVIOUS
<1> QED
  BY <1>2, <1>3, <1>4

LEMMA InitBound == Init => BoundInv
BY DEF Init, EmptyLimiter, BoundInv, GlobalBucketOK, Accounted, NoBucket

\* An attempt, allowed or not: what it takes it has refilled or found.
LEMMA AllowBound ==
  ASSUME BoundInv, NEW c \in Clients, NEW allowed \in BOOLEAN, Allow(c, allowed),
         now' = now
  PROVE  BoundInv'
<1> DEFINE mine == Tokens(Room(c)[c], ClientCapacity, ClientRefill)
           shared == Tokens(global, GlobalCapacity, GlobalRefill)
<1>1. /\ allowed => mine >= 1 /\ shared >= 1
      /\ global' = IF mine >= 1
                   THEN [tokens |-> IF allowed THEN shared - 1 ELSE shared, at |-> now]
                   ELSE global
      /\ spent' = IF allowed THEN spent + 1 ELSE spent
  BY Zenon DEF Allow, GlobalBucket
<1>2. /\ now \in Nat /\ spent \in Int
  BY DEF BoundInv
<1>3. shared \in Nat /\ shared + spent <= GlobalCapacity + GlobalRefill * now
  <2>1. CASE global = NoBucket
    <3>1. shared = GlobalCapacity /\ spent <= 0
      BY <2>1 DEF Tokens, BoundInv, Accounted
    <3>2. GlobalRefill * now \in Nat
      BY <1>2, RefillGrows
    <3> QED
      BY <1>2, <3>1, <3>2
  <2>2. CASE global # NoBucket
    <3>1. /\ global.tokens \in Nat /\ global.at \in Nat /\ global.at <= now
          /\ global.tokens + spent <= GlobalCapacity + GlobalRefill * global.at
      BY <2>2 DEF BoundInv, GlobalBucketOK, Accounted
    <3>2. /\ (now - global.at) * GlobalRefill \in Nat
          /\ GlobalRefill * global.at + (now - global.at) * GlobalRefill = GlobalRefill * now
          /\ GlobalRefill * global.at \in Nat /\ GlobalRefill * now \in Nat
      BY <1>2, <3>1, RefillGrows
    <3>3. shared = Lesser(GlobalCapacity, global.tokens + (now - global.at) * GlobalRefill)
      BY <2>2 DEF Tokens
    <3>4. /\ shared \in Nat
          /\ shared <= global.tokens + (now - global.at) * GlobalRefill
      BY <3>1, <3>2, <3>3 DEF Lesser
    <3> QED
      BY <1>2, <3>1, <3>2, <3>4
  <2> QED
    BY <2>1, <2>2
<1> HIDE DEF mine, shared
<1>4. CASE ~(mine >= 1)
  <2>1. ~allowed
    BY <1>1, <1>4, Zenon
  <2> QED
    BY <1>1, <1>4, <2>1 DEF BoundInv, GlobalBucketOK, Accounted
<1>5. CASE mine >= 1
  <2>1. CASE allowed
    <3>0. shared >= 1
      BY <1>1, <2>1, Zenon
    <3>1. shared - 1 \in Nat
      BY <1>3, <3>0
    <3>2. global' = [tokens |-> shared - 1, at |-> now] /\ spent' = spent + 1
      BY <1>1, <1>5, <2>1
    <3>3. global' # NoBucket /\ global' \in [tokens : Nat, at : Nat]
      BY <1>2, <3>1, <3>2, RealBucket
    <3>4. global'.tokens = shared - 1 /\ global'.at = now
      BY <3>2
    <3>5. GlobalBucketOK'
      BY <1>2, <3>3, <3>4 DEF GlobalBucketOK
    <3>6. Accounted'
      BY <1>2, <1>3, <3>2, <3>3, <3>4, RefillGrows DEF Accounted, NoBucket
    <3> QED
      BY <1>2, <3>2, <3>5, <3>6 DEF BoundInv
  <2>2. CASE ~allowed
    <3>1. global' = [tokens |-> shared, at |-> now] /\ spent' = spent
      BY <1>1, <1>5, <2>2
    <3>2. global' # NoBucket /\ global' \in [tokens : Nat, at : Nat]
      BY <1>2, <1>3, <3>1, RealBucket
    <3>3. global'.tokens = shared /\ global'.at = now
      BY <3>1
    <3>4. GlobalBucketOK'
      BY <1>2, <3>2, <3>3 DEF GlobalBucketOK
    <3>5. Accounted'
      BY <1>2, <1>3, <3>1, <3>2, <3>3, RefillGrows DEF Accounted, NoBucket
    <3> QED
      BY <1>2, <3>1, <3>4, <3>5 DEF BoundInv
  <2> QED
    BY <2>1, <2>2
<1> QED
  BY <1>4, <1>5

\* A refund puts back what it takes off the account.
LEMMA RefundBound ==
  ASSUME BoundInv, NEW c, Refund(c), now' = now
  PROVE  BoundInv'
<1>1. /\ now \in Nat /\ spent \in Int /\ spent' = spent - 1
      /\ global' = Refilled(global)
  BY DEF BoundInv, Refund
<1>2. CASE global = NoBucket
  BY <1>1, <1>2 DEF BoundInv, GlobalBucketOK, Accounted, Refilled, NoBucket
<1>3. CASE global # NoBucket
  <2>1. /\ global \in [tokens : Nat, at : Nat] /\ global.at <= now
        /\ global.tokens + spent <= GlobalCapacity + GlobalRefill * global.at
    BY <1>3 DEF BoundInv, GlobalBucketOK, Accounted
  <2>2. global' = [tokens |-> global.tokens + 1, at |-> global.at]
    BY <1>1, <1>3, <2>1 DEF Refilled
  <2>3. global' # NoBucket /\ global' \in [tokens : Nat, at : Nat]
    BY <2>1, <2>2, RealBucket
  <2>4. global'.tokens = global.tokens + 1 /\ global'.at = global.at
    BY <2>2
  <2>5. GlobalBucketOK'
    BY <2>1, <2>3, <2>4 DEF GlobalBucketOK
  <2>6. GlobalRefill * global.at \in Nat
    BY <2>1, RefillGrows
  <2>7. Accounted'
    BY <1>1, <2>1, <2>3, <2>4, <2>6 DEF Accounted
  <2> QED
    BY <1>1, <2>5, <2>7 DEF BoundInv
<1> QED
  BY <1>2, <1>3

LEMMA KeptBound == ASSUME BoundInv, UNCHANGED <<now, limiter>> PROVE BoundInv'
BY DEF BoundInv, GlobalBucketOK, Accounted, limiter

LEMMA NextBound == BoundInv /\ [Next]_vars => BoundInv'
<1> SUFFICES ASSUME BoundInv, [Next]_vars PROVE BoundInv'
  OBVIOUS
<1>1. CASE Tick
  BY <1>1 DEF Tick, BoundInv, GlobalBucketOK, Accounted, limiter, NoBucket
<1>2. CASE Restart
  BY <1>2 DEF Restart, BoundInv, GlobalBucketOK, Accounted, NoBucket
<1>3. ASSUME NEW q \in Requests, NEW c \in Clients, Attempt(q, c) PROVE BoundInv'
  <2>1. PICK allowed \in BOOLEAN : Allow(c, allowed)
    BY <1>3 DEF Attempt
  <2> QED
    BY <1>3, <2>1, AllowBound DEF Attempt
<1>4. ASSUME NEW q \in Requests, TokenMatches(q) \/ PasskeyMatches(q) PROVE BoundInv'
  BY <1>4, RefundBound DEF TokenMatches, PasskeyMatches, GivesBack
<1>5. ASSUME NEW q \in Requests,
             \/ Refused(q) \/ TokenLoginOff(q) \/ StartSession(q)
             \/ LoginFinish(q) \/ SavePasskey(q)
      PROVE  BoundInv'
  BY <1>5, KeptBound DEF Refused, TokenLoginOff, StartSession, LoginFinish, SavePasskey
<1>6. ASSUME NEW q \in Requests, NEW c \in Clients, RegisterFinish(q, c) PROVE BoundInv'
  BY <1>6, KeptBound DEF RegisterFinish
<1>7. ASSUME NEW c \in Clients,
             \/ RegisterBegin(c) \/ LoginBegin(c) \/ DeletePasskey(c)
             \/ EndSession(c) \/ LogoutAll(c)
      PROVE  BoundInv'
  BY <1>7, KeptBound DEF RegisterBegin, LoginBegin, DeletePasskey, EndSession, LogoutAll
<1>8. CASE UNCHANGED vars
  BY <1>8, KeptBound DEF vars
<1> QED
  BY <1>1, <1>2, <1>3, <1>4, <1>5, <1>6, <1>7, <1>8 DEF Next, LoggingIn

LEMMA BoundImplies == BoundInv => TotalBounded
<1> SUFFICES ASSUME BoundInv PROVE TotalBounded
  OBVIOUS
<1>1. now \in Nat /\ spent \in Int /\ GlobalRefill * now \in Nat
  BY RefillGrows DEF BoundInv
<1>2. CASE global = NoBucket
  BY <1>1, <1>2 DEF BoundInv, Accounted, TotalBounded
<1>3. CASE global # NoBucket
  <2>1. /\ global.tokens \in Nat /\ global.at \in Nat /\ global.at <= now
        /\ global.tokens + spent <= GlobalCapacity + GlobalRefill * global.at
    BY <1>3 DEF BoundInv, GlobalBucketOK, Accounted
  <2>2. GlobalRefill * global.at \in Nat /\ GlobalRefill * global.at <= GlobalRefill * now
    BY <1>1, <2>1, RefillGrows
  <2> QED
    BY <1>1, <2>1, <2>2 DEF TotalBounded
<1> QED
  BY <1>2, <1>3

\* ratelimit.go: "the global buckets keep bounding the total". However often
\* the client map is swept or dropped, and whatever is refunded, the logins
\* that count are at most the scope's burst and refill.
THEOREM LoginsBounded == Spec => []TotalBounded
<1>1. Init => BoundInv
  BY InitBound
<1>2. BoundInv /\ [Next]_vars => BoundInv'
  BY NextBound
<1>3. BoundInv => TotalBounded
  BY BoundImplies
<1> QED
  BY <1>1, <1>2, <1>3, PTL DEF Spec

-----------------------------------------------------------------------------
(* Sessions and the token.                                                 *)

\* The fingerprint is of the token the last complete sign-out was for. While
\* none has broken off since, it is the running token's, or not written yet: a
\* restart with another token notices.
FingerprintInv ==
  /\ token \in AdminTokens /\ endedFor = fingerprint
  /\ ~broken => (\A s \in sessions : s.token = token) /\ fingerprint \in {0, token}

LEMMA KeptFingerprint ==
  ASSUME FingerprintInv, UNCHANGED <<token, fingerprint, signOut>>,
         \A s \in sessions' : s \in sessions \/ s.token = token
  PROVE  FingerprintInv'
BY DEF FingerprintInv, signOut

LEMMA RestartFingerprint == ASSUME FingerprintInv, Restart PROVE FingerprintInv'
<1>1. token' \in AdminTokens /\ token' # 0
  BY DEF Restart, AdminTokens
<1>2. CASE /\ Unchanged(token') /\ broken' = (broken /\ token' = endedFor)
           /\ UNCHANGED <<sessions, fingerprint, endedFor>>
  <2>1. fingerprint = token' /\ endedFor = token' /\ (broken' <=> broken)
    BY <1>2 DEF Unchanged, FingerprintInv
  <2> QED
    BY <1>1, <1>2, <2>1 DEF FingerprintInv
<1>3. CASE /\ sessions' = {} /\ fingerprint' = token' /\ endedFor' = token'
  BY <1>1, <1>3 DEF FingerprintInv
<1>4. CASE /\ BrokenOff(token') /\ UNCHANGED endedFor
           /\ broken' = (sessions' # {} \/ endedFor \notin {0, token'})
  BY <1>1, <1>4 DEF BrokenOff, FingerprintInv
<1> QED
  BY <1>2, <1>3, <1>4 DEF Restart

LEMMA NextFingerprint == FingerprintInv /\ [Next]_vars => FingerprintInv'
<1> SUFFICES ASSUME FingerprintInv, [Next]_vars PROVE FingerprintInv'
  OBVIOUS
<1>1. CASE Tick
  BY <1>1, KeptFingerprint DEF Tick, tables
<1>2. CASE Restart
  BY <1>2, RestartFingerprint
<1>3. ASSUME NEW q \in Requests, StartSession(q) PROVE FingerprintInv'
  <2>1. UNCHANGED <<token, fingerprint, signOut>>
    BY <1>3 DEF StartSession
  <2>2. \/ sessions' = sessions
        \/ \E i \in Ids :
             sessions' = Unexpired \cup {[id |-> i, started |-> now, token |-> token]}
    BY <1>3, Zenon DEF StartSession
  <2>3. \A s \in sessions' : s \in sessions \/ s.token = token
    BY <2>2 DEF Unexpired
  <2> QED
    BY <2>1, <2>3, KeptFingerprint
<1>4. ASSUME NEW q \in Requests,
             \/ TokenMatches(q) \/ Refused(q) \/ TokenLoginOff(q) \/ LoginFinish(q)
             \/ PasskeyMatches(q) \/ SavePasskey(q)
      PROVE  FingerprintInv'
  BY <1>4, KeptFingerprint
     DEF TokenMatches, Refused, TokenLoginOff, LoginFinish, PasskeyMatches, SavePasskey, tables
<1>5. ASSUME NEW q \in Requests, NEW c \in Clients, Attempt(q, c) \/ RegisterFinish(q, c)
      PROVE  FingerprintInv'
  BY <1>5, KeptFingerprint DEF Attempt, RegisterFinish, tables
<1>6. ASSUME NEW c \in Clients, RegisterBegin(c) \/ LoginBegin(c) \/ DeletePasskey(c)
      PROVE  FingerprintInv'
  BY <1>6, KeptFingerprint DEF RegisterBegin, LoginBegin, DeletePasskey, tables
<1>7. ASSUME NEW c \in Clients, EndSession(c) \/ LogoutAll(c) PROVE FingerprintInv'
  <2>1. UNCHANGED <<token, fingerprint, signOut>>
    BY <1>7 DEF EndSession, LogoutAll
  <2>2. \A s \in sessions' : s \in sessions
    BY <1>7 DEF EndSession, LogoutAll, SessionsWithout
  <2> QED
    BY <2>1, <2>2, KeptFingerprint
<1>8. CASE UNCHANGED vars
  BY <1>8, KeptFingerprint DEF vars, tables, signOut
<1> QED
  BY <1>1, <1>2, <1>3, <1>4, <1>5, <1>6, <1>7, <1>8 DEF Next, LoggingIn

\* docs/self-hosting.md: changing ADMIN_TOKEN ends the sessions too. No session
\* outlives the token it was started under, but from a start whose sign-out broke
\* off to the next one that does not have the earlier token again.
THEOREM SessionsEndWithToken == Spec => []SessionsFollowToken
<1>1. Init => FingerprintInv
  BY DEF Init, FingerprintInv, AdminTokens
<1>2. FingerprintInv /\ [Next]_vars => FingerprintInv'
  BY NextFingerprint
<1>3. FingerprintInv => SessionsFollowToken
  BY DEF FingerprintInv, SessionsFollowToken
<1> QED
  BY <1>1, <1>2, <1>3, PTL DEF Spec

-----------------------------------------------------------------------------
(* Types.                                                                  *)

\* A bucket that is kept was used no later than now, so that what it refills
\* with is never negative.
Past(b) == b \in Bucket /\ b.at <= now
LimiterInv ==
  /\ now \in 0 .. MaxTime
  /\ buckets \in [Clients -> Bucket] /\ \A c \in Clients : Past(buckets[c])
  /\ Past(global)
  /\ prunedAt \in Int /\ prunedAt <= now /\ spent \in Int
TypeInv == LimiterInv /\ TypeOK

\* Buckets with tokens, and the missing one.
LEMMA BucketType ==
  ASSUME now \in 0 .. MaxTime
  PROVE  /\ Past(NoBucket)
         /\ \A t \in Nat, a \in 0 .. now :
              /\ [tokens |-> t, at |-> a] # NoBucket
              /\ Past([tokens |-> t, at |-> a])
  BY DEF NoBucket, Bucket, Past

\* What a bucket is refilled to is a number of tokens up to its capacity, and
\* no fewer than it held.
LEMMA TokensType ==
  ASSUME now \in 0 .. MaxTime, NEW b, Past(b), NEW capacity \in Nat, NEW refill \in Nat
  PROVE  /\ Tokens(b, capacity, refill) \in 0 .. capacity
         /\ b = NoBucket => Tokens(b, capacity, refill) = capacity
         /\ b # NoBucket /\ b.tokens <= capacity => Tokens(b, capacity, refill) >= b.tokens
         /\ b # NoBucket /\ b.tokens > capacity => Tokens(b, capacity, refill) = capacity
<1>1. CASE b = NoBucket
  BY <1>1 DEF Tokens
<1>2. CASE b # NoBucket
  <2>1. b.tokens \in Nat /\ b.at \in 0 .. MaxTime /\ b.at <= now
    BY <1>2 DEF Past, Bucket
  <2>2. (now - b.at) * refill \in Nat
    BY <2>1, RefillGrows
  <2>3. Tokens(b, capacity, refill) = Lesser(capacity, b.tokens + (now - b.at) * refill)
    BY <1>2 DEF Tokens
  <2> HIDE DEF Tokens
  <2> QED
    BY <1>2, <2>1, <2>2, <2>3 DEF Lesser
<1> QED
  BY <1>1, <1>2

\* Making room drops buckets and changes none.
LEMMA RoomDrops ==
  ASSUME LimiterInv, NEW c \in Clients
  PROVE  /\ Room(c) \in [Clients -> Bucket]
         /\ \A d \in Clients : Room(c)[d] \in {buckets[d], NoBucket} /\ Past(Room(c)[d])
<1>1. /\ buckets \in [Clients -> Bucket] /\ \A d \in Clients : Past(buckets[d])
      /\ Past(NoBucket) /\ NoBucket \in Bucket
  BY BucketType DEF LimiterInv, Past
<1>2. /\ Swept(c) \in [Clients -> Bucket]
      /\ \A d \in Clients : Swept(c)[d] \in {buckets[d], NoBucket}
  BY <1>1 DEF Swept
<1>3. Room(c) \in {Swept(c), [d \in Clients |-> NoBucket]}
  BY DEF Room
<1> HIDE DEF Swept, Room
<1> QED
  BY <1>1, <1>2, <1>3

\* An attempt leaves its client's bucket with what it was refilled to, less
\* the token of an attempt that is allowed, and drops or keeps the others'.
LEMMA AllowClients ==
  ASSUME LimiterInv, now' = now, NEW c \in Clients, NEW allowed \in BOOLEAN, Allow(c, allowed)
  PROVE  /\ LimiterInv'
         /\ \A d \in Clients : d # c => buckets'[d] \in {buckets[d], NoBucket}
         /\ \E b \in {buckets[c], NoBucket}, mine \in Nat :
              /\ Past(b) /\ mine = Tokens(b, ClientCapacity, ClientRefill)
              /\ buckets'[c] = [tokens |-> IF allowed THEN mine - 1 ELSE mine, at |-> now]
<1> DEFINE b == Room(c)[c]
           mine == Tokens(b, ClientCapacity, ClientRefill)
           shared == Tokens(global, GlobalCapacity, GlobalRefill)
           left == TokensLeft(mine, shared)
<1>1. /\ now \in 0 .. MaxTime /\ Past(b) /\ b \in {buckets[c], NoBucket} /\ Past(global)
      /\ Room(c) \in [Clients -> Bucket] /\ \A d \in Clients : Past(Room(c)[d])
      /\ \A d \in Clients : Room(c)[d] \in {buckets[d], NoBucket}
  BY RoomDrops DEF LimiterInv
<1>2. mine \in Nat /\ shared \in Nat
  <2>1. mine \in 0 .. ClientCapacity
    BY <1>1, TokensType
  <2>2. shared \in 0 .. GlobalCapacity
    BY <1>1, TokensType
  <2> QED
    BY <2>1, <2>2
<1>3. /\ allowed = (mine >= 1 /\ shared >= 1)
      /\ buckets' = [Room(c) EXCEPT ![c] = [tokens |-> left, at |-> now]]
      /\ global' = IF mine >= 1
                   THEN [tokens |-> IF allowed THEN shared - 1 ELSE shared, at |-> now]
                   ELSE global
      /\ prunedAt' = IF Sweeps(c) THEN now ELSE prunedAt
      /\ spent' = IF allowed THEN spent + 1 ELSE spent
  BY Zenon DEF Allow, GlobalBucket
<1> HIDE DEF b, mine, shared
<1>4. left = (IF allowed THEN mine - 1 ELSE mine) /\ left \in Nat
  <2>1. CASE allowed
    <3>1. mine >= 1 /\ shared >= 1
      BY <1>3, <2>1, Zenon
    <3> QED
      BY <1>2, <2>1, <3>1 DEF TokensLeft
  <2>2. CASE ~allowed
    <3>1. ~(mine >= 1 /\ shared >= 1)
      BY <1>3, <2>2, Zenon
    <3> QED
      BY <1>2, <2>2, <3>1 DEF TokensLeft
  <2> QED
    BY <2>1, <2>2
<1> HIDE DEF left
<1>5. Past([tokens |-> left, at |-> now])
  BY <1>1, <1>4, BucketType
<1>6. /\ buckets' \in [Clients -> Bucket]
      /\ \A d \in Clients : d # c => buckets'[d] = Room(c)[d]
      /\ buckets'[c] = [tokens |-> left, at |-> now]
  BY <1>1, <1>3, <1>5 DEF Past
<1>7. \A d \in Clients : Past(buckets'[d])
  BY <1>1, <1>5, <1>6
<1>8. Past(global')
  <2>1. ASSUME allowed PROVE shared - 1 \in Nat
    <3>1. shared >= 1
      BY <1>3, <2>1, Zenon
    <3> QED
      BY <1>2, <3>1
  <2> DEFINE rest == IF allowed THEN shared - 1 ELSE shared
  <2>2. rest \in Nat
    BY <1>2, <2>1
  <2>3. global' = [tokens |-> rest, at |-> now] \/ global' = global
    BY <1>3
  <2> HIDE DEF rest
  <2> QED
    BY <1>1, <2>2, <2>3, BucketType
<1>9. prunedAt' \in Int /\ prunedAt' <= now /\ spent' \in Int
  BY <1>1, <1>3 DEF LimiterInv
<1>10. LimiterInv'
  BY <1>1, <1>6, <1>7, <1>8, <1>9 DEF LimiterInv, Past
<1> QED
  BY <1>1, <1>2, <1>4, <1>6, <1>10 DEF mine

\* A refund gives a token to the client's bucket, if it is still there.
LEMMA RefundClients ==
  ASSUME LimiterInv, now' = now, NEW c, Refund(c)
  PROVE  /\ LimiterInv'
         /\ \A d \in Clients :
              buckets'[d] = IF d = c THEN Refilled(buckets[d]) ELSE buckets[d]
<1>1. ASSUME NEW b, Past(b) PROVE Past(Refilled(b))
  <2>1. CASE b = NoBucket
    BY <1>1, <2>1 DEF Refilled
  <2>2. CASE b # NoBucket
    BY <1>1, <2>2 DEF Refilled, Past, Bucket
  <2> QED
    BY <2>1, <2>2
<1>2. \A d \in Clients : buckets'[d] = IF d = c THEN Refilled(buckets[d]) ELSE buckets[d]
  BY DEF Refund, LimiterInv
<1>3. \A d \in Clients : Past(buckets'[d])
  BY <1>1, <1>2 DEF LimiterInv
<1>4. buckets' \in [Clients -> Bucket]
  BY <1>3 DEF Refund, LimiterInv, Past
<1>5. Past(global')
  BY <1>1 DEF Refund, LimiterInv
<1>6. LimiterInv'
  BY <1>3, <1>4, <1>5 DEF Refund, LimiterInv, Past
<1> QED
  BY <1>2, <1>6

\* The limiter of a process that has just started.
LEMMA EmptyType ==
  ASSUME now \in 0 .. MaxTime
  PROVE  /\ NeverSwept \in Int /\ NeverSwept <= now /\ 0 \in Int
         /\ [c \in Clients |-> NoBucket] \in [Clients -> Bucket]
         /\ Past(NoBucket)
  BY BucketType DEF NeverSwept, Past

\* An idle clock or limiter keeps the limiter's types.
LEMMA LimiterTypes == ASSUME LimiterInv PROVE LimiterTypeOK
  BY DEF LimiterInv, LimiterTypeOK, Past
LEMMA KeptLimiter == ASSUME LimiterInv, UNCHANGED <<now, limiter>> PROVE LimiterInv'
  BY DEF LimiterInv, limiter, Past

\* Every step of the clock, the requests and the restarts keeps them too.
LEMMA LimiterStep == LimiterInv /\ [Next]_vars => LimiterInv'
<1> SUFFICES ASSUME LimiterInv, [Next]_vars PROVE LimiterInv'
  OBVIOUS
<1>1. CASE Tick
  <2>1. now' = now + 1 /\ now' \in 0 .. MaxTime /\ UNCHANGED limiter
    BY <1>1 DEF Tick, LimiterInv
  <2>2. \A b : Past(b) => b \in Bucket /\ b.at <= now'
    BY <2>1 DEF Past, Bucket, NoBucket, LimiterInv
  <2> QED
    BY <2>1, <2>2 DEF LimiterInv, limiter, Past
<1>2. CASE Restart
  <2>1. UNCHANGED now /\ buckets' = [c \in Clients |-> NoBucket] /\ global' = NoBucket
        /\ prunedAt' = NeverSwept /\ spent' = 0
    BY <1>2 DEF Restart
  <2>2. now \in 0 .. MaxTime
    BY DEF LimiterInv
  <2> QED
    BY <2>1, <2>2, EmptyType DEF LimiterInv, Past
<1>3. ASSUME NEW q \in Requests, NEW c \in Clients, Attempt(q, c) PROVE LimiterInv'
  <2>1. PICK allowed \in BOOLEAN : Allow(c, allowed)
    BY <1>3 DEF Attempt
  <2> QED
    BY <1>3, <2>1, AllowClients DEF Attempt
<1>4. ASSUME NEW q \in Requests, TokenMatches(q) \/ PasskeyMatches(q) PROVE LimiterInv'
  BY <1>4, RefundClients DEF TokenMatches, PasskeyMatches, GivesBack
<1>5. ASSUME NEW q \in Requests,
             \/ Refused(q) \/ TokenLoginOff(q) \/ StartSession(q)
             \/ LoginFinish(q) \/ SavePasskey(q)
      PROVE  LimiterInv'
  BY <1>5, KeptLimiter DEF Refused, TokenLoginOff, StartSession, LoginFinish, SavePasskey
<1>6. ASSUME NEW q \in Requests, NEW c \in Clients, RegisterFinish(q, c) PROVE LimiterInv'
  BY <1>6, KeptLimiter DEF RegisterFinish
<1>7. ASSUME NEW c \in Clients,
             \/ RegisterBegin(c) \/ LoginBegin(c) \/ DeletePasskey(c)
             \/ EndSession(c) \/ LogoutAll(c)
      PROVE  LimiterInv'
  BY <1>7, KeptLimiter DEF RegisterBegin, LoginBegin, DeletePasskey, EndSession, LogoutAll
<1>8. CASE UNCHANGED vars
  BY <1>8, KeptLimiter DEF vars
<1> QED
  BY <1>1, <1>2, <1>3, <1>4, <1>5, <1>6, <1>7, <1>8 DEF Next, LoggingIn

\* The types of everything but the limiter, by what a step changes of it.
Handlers == requests \in [Requests -> Request] /\ failures \in [Clients -> Nat]
Browsers == cookies \in [Clients -> [session : Ids \cup {0}, ceremony : Ids \cup {0}]]
Stored ==
  /\ sessions \subseteq Session /\ passkeys \in Nat
  /\ fingerprint \in AdminTokens \cup {0}
Memory ==
  /\ ceremonies \subseteq Ceremony /\ token \in AdminTokens
  /\ endedFor \in AdminTokens \cup {0} /\ broken \in BOOLEAN /\ trouble \in 0 .. MaxTrouble
LEMMA TypeParts == TypeOK <=> LimiterTypeOK /\ Handlers /\ Browsers /\ Stored /\ Memory
  BY DEF TypeOK, Handlers, Browsers, Stored, Memory

LEMMA RequestTypes ==
  /\ Idle \in Request
  /\ \A c \in Clients, pc \in {"token", "passkey", "save"} : [pc |-> pc, client |-> c] \in Request
  /\ \A c \in Clients, pc \in {"token", "passkey"} :
       LET r == [Idle EXCEPT !.pc = pc, !.client = c]
       IN  r \in Request /\ r.pc = pc /\ r.client = c
  /\ \A r \in Request, pc \in {"tokenLoginOff", "start", "verify"} :
       [r EXCEPT !.pc = pc] \in Request /\ [r EXCEPT !.pc = pc].client = r.client
       /\ [r EXCEPT !.pc = pc].pc = pc
<1>1. Idle \in Request
  BY DEF Idle, Request
<1>2. ASSUME NEW c \in Clients, NEW pc \in {"token", "passkey", "save"}
      PROVE  [pc |-> pc, client |-> c] \in Request
  BY DEF Request
<1>3. ASSUME NEW c \in Clients, NEW pc \in {"token", "passkey"}
      PROVE  LET r == [Idle EXCEPT !.pc = pc, !.client = c]
             IN  r \in Request /\ r.pc = pc /\ r.client = c
  <2> HIDE DEF Idle
  <2> QED
    BY <1>1 DEF Request
<1>4. ASSUME NEW r \in Request, NEW pc \in {"tokenLoginOff", "start", "verify"}
      PROVE  /\ [r EXCEPT !.pc = pc] \in Request /\ [r EXCEPT !.pc = pc].client = r.client
             /\ [r EXCEPT !.pc = pc].pc = pc
  BY DEF Request
<1> QED
  BY <1>1, <1>2, <1>3, <1>4

\* A request goes on, and a failure of it may be counted.
LEMMA GoesType ==
  ASSUME Handlers, NEW q \in Requests, NEW state \in Request, Goes(q, state),
         Counted(q) \/ UNCHANGED failures
  PROVE  Handlers'
  BY DEF Handlers, Goes, Counted

LEMMA TroubleType ==
  ASSUME trouble \in 0 .. MaxTrouble, Trouble \/ UNCHANGED trouble
  PROVE  trouble' \in 0 .. MaxTrouble
  BY DEF Trouble

\* Each step of a request keeps the types of what it changes.
LEMMA LoginTypes ==
  ASSUME TypeInv, NEW q \in Requests, LoggingIn(q)
  PROVE  Handlers' /\ Browsers' /\ Stored' /\ Memory'
<1>1. Handlers /\ Browsers /\ Stored /\ Memory
  BY TypeParts DEF TypeInv
<1>2. requests[q] \in Request
  BY <1>1 DEF Handlers
<1>3. CASE TokenMatches(q)
  BY <1>1, <1>2, <1>3, RequestTypes, GoesType
     DEF TokenMatches, tables, signOut, Handlers, Browsers, Stored, Memory
<1>4. CASE Refused(q)
  BY <1>1, <1>4, RequestTypes, GoesType DEF Refused, tables, signOut, Browsers, Stored, Memory
<1>5. CASE TokenLoginOff(q)
  <2>1. (IF PasskeyOnly /\ passkeys > 0 THEN Idle ELSE [requests[q] EXCEPT !.pc = "start"])
          \in Request
    BY <1>2, RequestTypes
  <2>2. Handlers'
    BY <1>1, <1>5, <2>1, GoesType DEF TokenLoginOff
  <2> QED
    BY <1>1, <1>5, <2>2 DEF TokenLoginOff, tables, signOut, Browsers, Stored, Memory
<1>6. CASE StartSession(q)
  <2> DEFINE c == requests[q].client
  <2>1. Handlers'
    BY <1>1, <1>6, RequestTypes, GoesType DEF StartSession
  <2>2. UNCHANGED <<passkeys, fingerprint, ceremonies, token, signOut>>
        /\ (Trouble \/ UNCHANGED trouble)
    BY <1>6 DEF StartSession
  <2>3. Memory'
    BY <1>1, <2>2, TroubleType DEF signOut, Memory
  <2>4. \/ UNCHANGED <<sessions, cookies>>
        \/ \E i \in Ids :
             /\ sessions' = Unexpired \cup {[id |-> i, started |-> now, token |-> token]}
             /\ cookies' = [cookies EXCEPT ![c].session = i]
    BY <1>6, Zenon DEF StartSession
  <2>5. CASE UNCHANGED <<sessions, cookies>>
    BY <1>1, <2>1, <2>2, <2>3, <2>5 DEF Browsers, Stored
  <2>6. ASSUME NEW i \in Ids,
               sessions' = Unexpired \cup {[id |-> i, started |-> now, token |-> token]},
               cookies' = [cookies EXCEPT ![c].session = i]
        PROVE  Browsers' /\ Stored'
    <3>1. [id |-> i, started |-> now, token |-> token] \in Session
      BY <1>1 DEF Session, Memory, TypeInv, LimiterInv
    <3>2. sessions' \subseteq Session
      BY <1>1, <2>6, <3>1 DEF Unexpired, Stored
    <3>3. Browsers'
      BY <1>1, <2>6 DEF Browsers
    <3> QED
      BY <1>1, <2>2, <3>2, <3>3 DEF Stored
  <2> QED
    BY <2>1, <2>3, <2>4, <2>5, <2>6
<1>7. CASE LoginFinish(q)
  <2>1. /\ ceremonies' = TakenOut(cookies[requests[q].client].ceremony)
        /\ \/ Goes(q, [requests[q] EXCEPT !.pc = "verify"]) /\ UNCHANGED failures
           \/ Goes(q, Idle) /\ Counted(q)
        /\ UNCHANGED <<cookies, tables, token, signOut, trouble>>
    BY <1>7 DEF LoginFinish
  <2>2. Handlers'
    BY <1>1, <1>2, <2>1, RequestTypes, GoesType
  <2> QED
    BY <1>1, <2>1, <2>2 DEF TakenOut, tables, signOut, Browsers, Stored, Memory
<1>8. CASE PasskeyMatches(q)
  BY <1>1, <1>2, <1>8, RequestTypes, GoesType
     DEF PasskeyMatches, tables, signOut, Handlers, Browsers, Stored, Memory
<1>9. CASE SavePasskey(q)
  <2>1. Handlers'
    BY <1>1, <1>9, RequestTypes, GoesType DEF SavePasskey
  <2>2. Memory'
    BY <1>1, <1>9, TroubleType DEF SavePasskey, signOut, Memory
  <2> QED
    BY <1>1, <1>9, <2>1, <2>2 DEF SavePasskey, Browsers, Stored
<1> QED
  BY <1>3, <1>4, <1>5, <1>6, <1>7, <1>8, <1>9 DEF LoggingIn

\* So does each step of a browser.
LEMMA BrowserTypes ==
  ASSUME TypeInv, NEW c \in Clients,
         \/ RegisterBegin(c) \/ LoginBegin(c) \/ DeletePasskey(c)
         \/ EndSession(c) \/ LogoutAll(c)
  PROVE  Handlers' /\ Browsers' /\ Stored' /\ Memory'
<1>1. Handlers /\ Browsers /\ Stored /\ Memory /\ now \in Nat
  BY TypeParts DEF TypeInv, LimiterInv
<1>2. ASSUME NEW register \in BOOLEAN, Begin(c, register)
      PROVE  Browsers' /\ ceremonies' \subseteq Ceremony
  <2>1. PICK i \in Ids :
          /\ ceremonies' = Waiting \cup
               {[id |-> i, register |-> register, expires |-> now + CeremonyTTL]}
          /\ cookies' = [cookies EXCEPT ![c].ceremony = i]
    BY <1>2 DEF Begin
  <2>2. Browsers'
    BY <1>1, <2>1 DEF Browsers
  <2>3. Waiting \subseteq Ceremony
    BY <1>1 DEF Waiting, Memory
  <2>4. [id |-> i, register |-> register, expires |-> now + CeremonyTTL] \in Ceremony
    BY <1>1 DEF Ceremony
  <2> QED
    BY <2>1, <2>2, <2>3, <2>4
<1>3. CASE RegisterBegin(c)
  BY <1>1, <1>2, <1>3 DEF RegisterBegin, tables, signOut, Handlers, Stored, Memory
<1>4. CASE LoginBegin(c)
  BY <1>1, <1>2, <1>4 DEF LoginBegin, tables, signOut, Handlers, Stored, Memory
<1>5. CASE DeletePasskey(c)
  BY <1>1, <1>5 DEF DeletePasskey, signOut, Handlers, Browsers, Stored, Memory
<1>6. CASE EndSession(c) \/ LogoutAll(c)
  <2>1. /\ UNCHANGED <<requests, failures, passkeys, fingerprint, ceremonies, token, signOut>>
        /\ cookies' = [cookies EXCEPT ![c].session = 0]
        /\ sessions' \subseteq sessions
        /\ Trouble \/ UNCHANGED trouble
    BY <1>6 DEF EndSession, LogoutAll, SessionsWithout
  <2>2. Memory'
    BY <1>1, <2>1, TroubleType DEF signOut, Memory
  <2>3. Browsers'
    BY <1>1, <2>1 DEF Browsers
  <2> QED
    BY <1>1, <2>1, <2>2, <2>3 DEF Handlers, Stored
<1> QED
  BY <1>3, <1>4, <1>5, <1>6

LEMMA TypeInit == Init => TypeInv
<1> SUFFICES ASSUME Init PROVE TypeInv
  OBVIOUS
<1>1. LimiterInv
  <2>1. now \in 0 .. MaxTime
    BY DEF Init
  <2> QED
    BY <2>1, EmptyType DEF Init, EmptyLimiter, LimiterInv, Past
<1>2. Handlers
  BY RequestTypes DEF Init, Handlers
<1>3. Browsers
  BY DEF Init, Browsers, NoCookies
<1>4. Stored
  BY DEF Init, Stored, AdminTokens
<1>5. broken \in BOOLEAN
  BY Zenon DEF Init
<1>6. Memory
  BY <1>5 DEF Init, Memory, AdminTokens
<1> QED
  BY <1>1, <1>2, <1>3, <1>4, <1>6, LimiterTypes, TypeParts DEF TypeInv

\* Every step keeps the types of what is not the limiter's.
LEMMA PartsStep ==
  ASSUME TypeInv, [Next]_vars
  PROVE  Handlers' /\ Browsers' /\ Stored' /\ Memory'
<1>1. Handlers /\ Browsers /\ Stored /\ Memory
  BY TypeParts DEF TypeInv
<1>3. ASSUME NEW q \in Requests, LoggingIn(q)
      PROVE  Handlers' /\ Browsers' /\ Stored' /\ Memory'
  BY <1>3, LoginTypes
<1>4. ASSUME NEW c \in Clients,
             \/ RegisterBegin(c) \/ LoginBegin(c) \/ DeletePasskey(c)
             \/ EndSession(c) \/ LogoutAll(c)
      PROVE  Handlers' /\ Browsers' /\ Stored' /\ Memory'
  BY <1>4, BrowserTypes
<1>5. ASSUME NEW q \in Requests, NEW c \in Clients, Attempt(q, c)
      PROVE  Handlers' /\ Browsers' /\ Stored' /\ Memory'
  <2>1. PICK via \in {"token", "passkey"}, allowed \in BOOLEAN :
          Goes(q, IF allowed THEN [Idle EXCEPT !.pc = via, !.client = c] ELSE Idle)
    BY <1>5 DEF Attempt
  <2>2. (IF allowed THEN [Idle EXCEPT !.pc = via, !.client = c] ELSE Idle) \in Request
    BY RequestTypes
  <2>3. Handlers'
    BY <1>1, <1>5, <2>1, <2>2, GoesType DEF Attempt
  <2> QED
    BY <1>1, <1>5, <2>3 DEF Attempt, tables, signOut, Browsers, Stored, Memory
<1>6. ASSUME NEW q \in Requests, NEW c \in Clients, RegisterFinish(q, c)
      PROVE  Handlers' /\ Browsers' /\ Stored' /\ Memory'
  <2>1. (IF Finishes(c, TRUE) THEN [pc |-> "save", client |-> c] ELSE Idle) \in Request
    BY RequestTypes
  <2>2. Handlers'
    BY <1>1, <1>6, <2>1, GoesType DEF RegisterFinish
  <2> QED
    BY <1>1, <1>6, <2>2 DEF RegisterFinish, TakenOut, tables, signOut, Browsers, Stored, Memory
<1>7. CASE Tick
  BY <1>1, <1>7 DEF Tick, tables, signOut, Handlers, Browsers, Stored, Memory
<1>8. CASE Restart
  <2>1. Handlers'
    BY <1>8, RequestTypes DEF Restart, Handlers
  <2>2. trouble' \in 0 .. MaxTrouble /\ token' \in AdminTokens
    BY <1>1, <1>8, TroubleType DEF Restart, Memory
  <2>3. /\ sessions' \subseteq sessions /\ fingerprint' \in {fingerprint, token'}
        /\ endedFor' \in {endedFor, token'}
    BY <1>8 DEF Restart, BrokenOff
  <2>4. broken' \in BOOLEAN
    BY <1>8, Zenon DEF Restart
  <2>5. Memory'
    BY <1>1, <1>8, <2>2, <2>3, <2>4 DEF Restart, Memory
  <2>6. Browsers' /\ Stored'
    BY <1>1, <1>8, <2>2, <2>3 DEF Restart, Browsers, Stored
  <2> QED
    BY <2>1, <2>5, <2>6
<1>9. CASE UNCHANGED vars
  BY <1>1, <1>9 DEF vars, tables, signOut, Handlers, Browsers, Stored, Memory
<1> QED
  BY <1>3, <1>4, <1>5, <1>6, <1>7, <1>8, <1>9 DEF Next

LEMMA TypeStep == TypeInv /\ [Next]_vars => TypeInv'
<1> SUFFICES ASSUME TypeInv, [Next]_vars PROVE TypeInv'
  OBVIOUS
<1>1. LimiterInv'
  BY LimiterStep DEF TypeInv
<1>2. LimiterTypeOK'
  BY <1>1 DEF LimiterInv, LimiterTypeOK, Past, Bucket
<1>3. Handlers' /\ Browsers' /\ Stored' /\ Memory'
  BY PartsStep
<1> QED
  BY <1>1, <1>2, <1>3 DEF TypeInv, TypeOK, Handlers, Browsers, Stored, Memory

\* Buckets, requests, cookies, tables and ceremonies keep their types: no
\* bucket is ever taken below zero, however it is refilled, dropped and given
\* back to.
THEOREM TypeCorrect == Spec => []TypeOK
<1>1. TypeInv => TypeOK
  BY DEF TypeInv
<1> QED
  BY <1>1, TypeInit, TypeStep, PTL DEF Spec

-----------------------------------------------------------------------------
(* Only failures count.                                                    *)

\* What a client's bucket may lack: a token for each failure, and one for each
\* attempt that is not decided.
Cost(c) == failures[c] + Cardinality(Undecided(c))
Charged(c) == buckets[c] # NoBucket => buckets[c].tokens >= ClientCapacity - Cost(c)
Deciding(q) == requests[q].pc \in {"token", "passkey", "verify"}

\* The states a request goes to, by whether it is being decided there.
LEMMA IdleRequest ==
  Idle \in Request /\ Idle.pc \notin {"token", "passkey", "verify"}
  BY DEF Idle, Request
LEMMA LetInRequest ==
  ASSUME NEW c \in Clients, NEW via \in {"token", "passkey"}
  PROVE  /\ [Idle EXCEPT !.pc = via, !.client = c] \in Request
         /\ [Idle EXCEPT !.pc = via, !.client = c].pc = via
         /\ [Idle EXCEPT !.pc = via, !.client = c].client = c
  BY IdleRequest DEF Request
LEMMA MovedRequest ==
  ASSUME NEW r \in Request, NEW pc \in {"tokenLoginOff", "start", "verify"}
  PROVE  /\ [r EXCEPT !.pc = pc] \in Request /\ [r EXCEPT !.pc = pc].pc = pc
         /\ [r EXCEPT !.pc = pc].client = r.client
  BY DEF Request

\* The attempts that are being decided are finitely many.
LEMMA UndecidedFinite ==
  ASSUME Handlers, NEW c \in Clients
  PROVE  /\ IsFiniteSet(Undecided(c)) /\ Cardinality(Undecided(c)) \in Nat
         /\ failures[c] \in Nat /\ Cost(c) \in Nat
<1>1. IsFiniteSet(Undecided(c))
  BY FS_Subset DEF Undecided
<1>2. Cardinality(Undecided(c)) \in Nat
  BY <1>1, FS_CardinalityType
<1>3. failures[c] \in Nat
  BY DEF Handlers
<1> QED
  BY <1>1, <1>2, <1>3 DEF Cost

\* What is undecided after a step of one request is what was, with or without it.
LEMMA UndecidedMoves ==
  ASSUME Handlers, NEW q \in Requests, NEW state \in Request, Goes(q, state), NEW c \in Clients
  PROVE  Undecided(c)' =
           IF state.client = c /\ state.pc \in {"token", "passkey", "verify"}
           THEN Undecided(c) \cup {q} ELSE Undecided(c) \ {q}
<1>1. \A p \in Requests : requests'[p] = IF p = q THEN state ELSE requests[p]
  BY DEF Goes, Handlers
<1> QED
  BY <1>1 DEF Undecided

\* An attempt that begins adds one.
LEMMA UndecidedJoins ==
  ASSUME Handlers, NEW q \in Requests, ~Deciding(q), NEW state \in Request, Goes(q, state),
         state.pc \in {"token", "passkey", "verify"}, NEW c \in Clients
  PROVE  Cardinality(Undecided(c))' =
           Cardinality(Undecided(c)) + IF state.client = c THEN 1 ELSE 0
<1>1. q \notin Undecided(c) /\ IsFiniteSet(Undecided(c)) /\ Cardinality(Undecided(c)) \in Nat
  BY UndecidedFinite DEF Undecided, Deciding
<1>2. CASE state.client = c
  <2>1. Undecided(c)' = Undecided(c) \cup {q}
    BY <1>2, UndecidedMoves
  <2>2. Cardinality(Undecided(c) \cup {q}) = Cardinality(Undecided(c)) + 1
    BY <1>1, FS_AddElement
  <2> QED
    BY <1>2, <2>1, <2>2
<1>3. CASE state.client # c
  <2>1. Undecided(c)' = Undecided(c)
    BY <1>1, <1>3, UndecidedMoves
  <2> QED
    BY <1>1, <1>3, <2>1
<1> QED
  BY <1>2, <1>3

\* One that is decided takes one off.
LEMMA UndecidedLeaves ==
  ASSUME Handlers, NEW q \in Requests, Deciding(q), NEW state \in Request, Goes(q, state),
         state.pc \notin {"token", "passkey", "verify"}, NEW c \in Clients
  PROVE  Cardinality(Undecided(c))' =
           Cardinality(Undecided(c)) - IF requests[q].client = c THEN 1 ELSE 0
<1>1. IsFiniteSet(Undecided(c)) /\ Cardinality(Undecided(c)) \in Nat
  BY UndecidedFinite
<1>2. Undecided(c)' = Undecided(c) \ {q}
  BY UndecidedMoves
<1>3. CASE requests[q].client = c
  <2>1. q \in Undecided(c)
    BY <1>3 DEF Undecided, Deciding
  <2>2. Cardinality(Undecided(c) \ {q}) = Cardinality(Undecided(c)) - 1
    BY <1>1, <2>1, FS_RemoveElement
  <2> HIDE DEF Undecided
  <2> QED
    BY <1>2, <1>3, <2>2
<1>4. CASE requests[q].client # c
  <2>1. q \notin Undecided(c)
    BY <1>4 DEF Undecided
  <2> QED
    BY <1>1, <1>2, <1>4, <2>1
<1> QED
  BY <1>3, <1>4

\* One that goes on, decided or not as before, changes nothing.
LEMMA UndecidedStays ==
  ASSUME Handlers, NEW q \in Requests, NEW state \in Request, Goes(q, state),
         state.client = requests[q].client \/ ~Deciding(q),
         Deciding(q) <=> state.pc \in {"token", "passkey", "verify"}, NEW c \in Clients
  PROVE  Undecided(c)' = Undecided(c)
<1>1. Undecided(c)' = IF state.client = c /\ state.pc \in {"token", "passkey", "verify"}
                      THEN Undecided(c) \cup {q} ELSE Undecided(c) \ {q}
  BY UndecidedMoves
<1> QED
  BY <1>1 DEF Undecided, Deciding

\* A step that leaves the limiter alone, and a client's cost no lower.
LEMMA KeptCharged ==
  ASSUME TypeInv, NEW c \in Clients, Charged(c), UNCHANGED limiter,
         NEW k \in Nat, Cost(c)' = Cost(c) + k
  PROVE  Charged(c)'
<1>1. Cost(c) \in Nat
  BY UndecidedFinite, TypeParts DEF TypeInv
<1>2. buckets[c] # NoBucket => buckets[c].tokens \in Nat
  BY DEF TypeInv, LimiterInv, Bucket
<1> QED
  BY <1>1, <1>2 DEF Charged, limiter

\* A failure counts for its client.
LEMMA CountedAdds ==
  ASSUME Handlers, NEW q \in Requests, Counted(q), NEW c \in Clients
  PROVE  failures'[c] = failures[c] + IF requests[q].client = c THEN 1 ELSE 0
  BY DEF Handlers, Counted

\* What the limiter takes for an attempt is charged to the client that makes it.
LEMMA AttemptCharges ==
  ASSUME TypeInv, NEW q \in Requests, NEW d \in Clients, Attempt(q, d),
         NEW c \in Clients, Charged(c)
  PROVE  Charged(c)'
<1>1. PICK via \in {"token", "passkey"}, allowed \in BOOLEAN :
        /\ Allow(d, allowed)
        /\ Goes(q, IF allowed THEN [Idle EXCEPT !.pc = via, !.client = d] ELSE Idle)
  BY DEF Attempt
<1>2. /\ LimiterInv /\ Handlers /\ UNCHANGED <<now, failures>> /\ requests[q] = Idle
      /\ ~Deciding(q) /\ now \in 0 .. MaxTime
  BY TypeParts DEF Attempt, TypeInv, LimiterInv, Deciding, Idle
<1>3. failures[c] \in Nat /\ Cost(c) \in Nat /\ Cardinality(Undecided(c)) \in Nat
  BY <1>2, UndecidedFinite
<1>4. Cost(c)' = Cost(c) + IF allowed /\ c = d THEN 1 ELSE 0
  <2>1. CASE allowed
    <3> DEFINE state == [Idle EXCEPT !.pc = via, !.client = d]
    <3>1. state \in Request /\ state.pc = via /\ state.client = d
      BY LetInRequest
    <3>3. Goes(q, state)
      BY <1>1, <2>1
    <3> HIDE DEF state
    <3>2. Cardinality(Undecided(c))' =
            Cardinality(Undecided(c)) + IF state.client = c THEN 1 ELSE 0
      BY <1>2, <3>1, <3>3, UndecidedJoins
    <3> QED
      BY <1>2, <1>3, <2>1, <3>1, <3>2 DEF Cost
  <2>2. CASE ~allowed
    <3>1. Undecided(c)' = Undecided(c)
      BY <1>1, <1>2, <2>2, IdleRequest, UndecidedStays
    <3> QED
      BY <1>2, <1>3, <2>2, <3>1 DEF Cost
  <2> QED
    BY <2>1, <2>2
<1>5. CASE c # d
  <2>1. buckets'[c] \in {buckets[c], NoBucket}
    BY <1>1, <1>2, <1>5, AllowClients
  <2> QED
    BY <1>3, <1>4, <1>5, <2>1 DEF Charged
<1>6. CASE c = d
  <2>1. PICK b \in {buckets[c], NoBucket}, mine \in Nat :
          /\ Past(b) /\ mine = Tokens(b, ClientCapacity, ClientRefill)
          /\ buckets'[c] = [tokens |-> IF allowed THEN mine - 1 ELSE mine, at |-> now]
    BY <1>1, <1>2, <1>6, AllowClients
  <2>2. mine >= ClientCapacity - Cost(c)
    <3>1. b = NoBucket => mine = ClientCapacity
      BY <1>2, <2>1, TokensType
    <3>2. ASSUME b # NoBucket
          PROVE  b = buckets[c] /\ b.tokens \in Nat /\ (mine >= b.tokens \/ mine = ClientCapacity)
      <4>1. b = buckets[c] /\ b.tokens \in Nat
        BY <2>1, <3>2 DEF Past, Bucket
      <4>2. CASE b.tokens <= ClientCapacity
        BY <1>2, <2>1, <3>2, <4>1, <4>2, TokensType
      <4>3. CASE b.tokens > ClientCapacity
        BY <1>2, <2>1, <3>2, <4>1, <4>3, TokensType
      <4> QED
        BY <4>1, <4>2, <4>3
    <3> QED
      BY <1>3, <2>1, <3>1, <3>2 DEF Charged
  <2>3. buckets'[c].tokens = IF allowed THEN mine - 1 ELSE mine
    BY <2>1
  <2> QED
    BY <1>3, <1>4, <1>6, <2>1, <2>2, <2>3 DEF Charged
<1> QED
  BY <1>5, <1>6

\* A login that succeeds gives its token back with its charge.
LEMMA RefundSettles ==
  ASSUME TypeInv, NEW q \in Requests, TokenMatches(q) \/ PasskeyMatches(q),
         NEW c \in Clients, Charged(c)
  PROVE  Charged(c)'
<1>1. PICK pc \in {"tokenLoginOff", "start"} : Goes(q, [requests[q] EXCEPT !.pc = pc])
  BY DEF TokenMatches, PasskeyMatches
<1>2. /\ LimiterInv /\ Handlers /\ UNCHANGED <<now, failures>> /\ Deciding(q)
      /\ Refund(requests[q].client) /\ requests[q] \in Request
  BY TypeParts DEF TokenMatches, PasskeyMatches, GivesBack, TypeInv, Deciding, Handlers
<1> DEFINE state == [requests[q] EXCEPT !.pc = pc]
<1>3. state \in Request /\ state.pc = pc
  BY <1>2, MovedRequest
<1>8. Goes(q, state)
  BY <1>1
<1> HIDE DEF state
<1>4. Cardinality(Undecided(c))' =
        Cardinality(Undecided(c)) - IF requests[q].client = c THEN 1 ELSE 0
  BY <1>2, <1>3, <1>8, UndecidedLeaves
<1>5. failures[c] \in Nat /\ Cost(c) \in Nat /\ Cardinality(Undecided(c)) \in Nat
  BY <1>2, UndecidedFinite
<1>6. buckets'[c] = IF c = requests[q].client THEN Refilled(buckets[c]) ELSE buckets[c]
  BY <1>2, RefundClients
<1>7. buckets[c] = NoBucket \/ buckets[c] \in [tokens : Nat, at : 0 .. MaxTime]
  BY <1>2 DEF LimiterInv, Bucket
<1> QED
  BY <1>2, <1>4, <1>5, <1>6, <1>7 DEF Charged, Cost, Refilled

\* A failed one keeps its charge, as a failure.
LEMMA FailureCharges ==
  ASSUME TypeInv, NEW q \in Requests, Deciding(q), Goes(q, Idle), Counted(q),
         UNCHANGED limiter, NEW c \in Clients, Charged(c)
  PROVE  Charged(c)'
<1>1. Handlers
  BY TypeParts DEF TypeInv
<1>2. Cardinality(Undecided(c))' =
        Cardinality(Undecided(c)) - IF requests[q].client = c THEN 1 ELSE 0
  BY <1>1, IdleRequest, UndecidedLeaves
<1>3. failures'[c] = failures[c] + IF requests[q].client = c THEN 1 ELSE 0
  BY <1>1, CountedAdds
<1>4. failures[c] \in Nat /\ Cardinality(Undecided(c)) \in Nat
  BY <1>1, UndecidedFinite
<1>5. Cost(c)' = Cost(c) + 0
  BY <1>2, <1>3, <1>4 DEF Cost
<1> QED
  BY <1>5, KeptCharged

\* Other steps of a request cost nothing.
LEMMA StepIsFree ==
  ASSUME TypeInv, NEW q \in Requests, NEW state \in Request, Goes(q, state),
         state.client = requests[q].client \/ ~Deciding(q),
         Deciding(q) <=> state.pc \in {"token", "passkey", "verify"},
         UNCHANGED <<limiter, failures>>, NEW c \in Clients, Charged(c)
  PROVE  Charged(c)'
<1>1. Handlers
  BY TypeParts DEF TypeInv
<1>2. Undecided(c)' = Undecided(c)
  BY <1>1, UndecidedStays
<1>3. Cost(c) \in Nat
  BY <1>1, UndecidedFinite
<1>4. Cost(c)' = Cost(c) + 0
  BY <1>2, <1>3 DEF Cost
<1> QED
  BY <1>4, KeptCharged

LEMMA ChargedStep == TypeInv /\ OnlyFailuresCount /\ [Next]_vars => OnlyFailuresCount'
<1> SUFFICES ASSUME TypeInv, OnlyFailuresCount, [Next]_vars, NEW c \in Clients PROVE Charged(c)'
  <2>1. ASSUME TypeInv, OnlyFailuresCount, [Next]_vars PROVE OnlyFailuresCount'
    <3>1. \A c \in Clients : Charged(c)'
      BY <2>1
    <3>2. \A c \in Clients : /\ failures'[c] \in Nat /\ Cardinality(Undecided(c))' \in Nat
      <4>1. Handlers'
        BY <2>1, PartsStep
      <4> QED
        BY <4>1, FS_Subset, FS_CardinalityType DEF Undecided, Handlers
    <3> QED
      BY <3>1, <3>2 DEF OnlyFailuresCount, Charged, Cost
  <2> QED
    BY <2>1
<1>1. /\ Charged(c) /\ Handlers /\ now \in 0 .. MaxTime /\ Cost(c) \in Nat
  BY TypeParts, UndecidedFinite DEF OnlyFailuresCount, Charged, Cost, TypeInv, LimiterInv
<1>2. ASSUME NEW q \in Requests, LoggingIn(q) PROVE Charged(c)'
  <2>1. requests[q] \in Request
    BY <1>1 DEF Handlers
  <2>2. CASE TokenMatches(q) \/ PasskeyMatches(q)
    BY <1>1, <2>2, RefundSettles
  <2>3. CASE Refused(q)
    BY <1>1, <2>3, FailureCharges DEF Refused, Deciding
  <2>4. CASE TokenLoginOff(q)
    <3>1. PICK state \in {Idle, [requests[q] EXCEPT !.pc = "start"]} : Goes(q, state)
      BY <2>4 DEF TokenLoginOff
    <3>2. state \in Request /\ state.pc \notin {"token", "passkey", "verify"}
      <4>1. CASE state = Idle
        BY <4>1, IdleRequest
      <4>2. CASE state = [requests[q] EXCEPT !.pc = "start"]
        BY <2>1, <4>2, MovedRequest
      <4> QED
        BY <4>1, <4>2
    <3>3. ~Deciding(q) /\ UNCHANGED <<limiter, failures>>
      BY <2>4 DEF TokenLoginOff, Deciding
    <3> QED
      BY <1>1, <3>1, <3>2, <3>3, StepIsFree
  <2>5. CASE StartSession(q) \/ SavePasskey(q)
    BY <1>1, <2>5, RequestTypes, StepIsFree DEF StartSession, SavePasskey, Deciding, Idle
  <2>6. CASE LoginFinish(q)
    <3>1. requests[q].pc = "passkey" /\ Deciding(q) /\ UNCHANGED limiter
      BY <2>6 DEF LoginFinish, Deciding
    <3>2. CASE Goes(q, [requests[q] EXCEPT !.pc = "verify"]) /\ UNCHANGED failures
      <4> DEFINE state == [requests[q] EXCEPT !.pc = "verify"]
      <4>1. state \in Request /\ state.pc = "verify" /\ state.client = requests[q].client
        BY <2>1, RequestTypes
      <4> HIDE DEF state
      <4>2. Goes(q, state)
        BY <3>2 DEF state
      <4> QED
        BY <1>1, <3>1, <3>2, <4>1, <4>2, StepIsFree
    <3>3. CASE Goes(q, Idle) /\ Counted(q)
      BY <1>1, <3>1, <3>3, FailureCharges
    <3> QED
      BY <2>6, <3>2, <3>3 DEF LoginFinish
  <2> QED
    BY <1>2, <2>2, <2>3, <2>4, <2>5, <2>6 DEF LoggingIn
<1>3. ASSUME NEW q \in Requests, NEW d \in Clients, Attempt(q, d) PROVE Charged(c)'
  BY <1>1, <1>3, AttemptCharges
<1>4. ASSUME NEW q \in Requests, NEW d \in Clients, RegisterFinish(q, d) PROVE Charged(c)'
  <2>1. PICK state \in {Idle, [pc |-> "save", client |-> d]} : Goes(q, state)
    BY <1>4 DEF RegisterFinish
  <2>2. state \in Request /\ state.pc \notin {"token", "passkey", "verify"}
    <3>1. CASE state = Idle
      BY <3>1, IdleRequest
    <3>2. CASE state = [pc |-> "save", client |-> d]
      BY <3>2, RequestTypes
    <3> QED
      BY <3>1, <3>2
  <2>3. ~Deciding(q) /\ UNCHANGED <<limiter, failures>>
    BY <1>4 DEF RegisterFinish, Deciding, Idle
  <2> QED
    BY <1>1, <2>1, <2>2, <2>3, StepIsFree
<1>5. CASE UNCHANGED <<limiter, requests, failures>>
  <2>1. Cost(c)' = Cost(c) + 0
    BY <1>1, <1>5 DEF Cost, Undecided
  <2> QED
    BY <1>1, <1>5, <2>1, KeptCharged
<1>6. ASSUME NEW d \in Clients,
             \/ RegisterBegin(d) \/ LoginBegin(d) \/ DeletePasskey(d)
             \/ EndSession(d) \/ LogoutAll(d)
      PROVE  Charged(c)'
  BY <1>5, <1>6 DEF RegisterBegin, LoginBegin, DeletePasskey, EndSession, LogoutAll
<1>7. CASE Tick \/ UNCHANGED vars
  BY <1>5, <1>7 DEF Tick, vars
<1>8. CASE Restart
  BY <1>8 DEF Restart, Charged
<1> QED
  BY <1>2, <1>3, <1>4, <1>6, <1>7, <1>8 DEF Next

\* "Only failures count" (web/ratelimit.go, web/admin.go): a client's bucket
\* lacks no more than its own failures and its attempts in progress, whatever
\* other clients do and however the map is swept.
THEOREM OnlyFailuresCost == Spec => []OnlyFailuresCount
<1>1. Init => OnlyFailuresCount
  BY DEF Init, EmptyLimiter, OnlyFailuresCount
<1> QED
  BY <1>1, TypeInit, TypeStep, ChargedStep, PTL DEF Spec
=============================================================================
