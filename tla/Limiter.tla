-------------------------------- MODULE Limiter --------------------------------
(***************************************************************************)
(* The rate limiter (web/ratelimit.go), for one scope: a token bucket per   *)
(* client in a bounded map, and the scope's global bucket behind them. A    *)
(* token is a whole one and a refill is per tick of the clock; the code's   *)
(* fractions of a token are left out.                                       *)
(***************************************************************************)
EXTENDS Integers, FiniteSets

CONSTANTS
  Clients,                       \* client addresses, as clientKey gives them
  ClientCapacity, ClientRefill,  \* a client's burst, and its tokens per tick
  GlobalCapacity, GlobalRefill,  \* the same for the scope
  MaxBuckets,                    \* clients the map holds (5000)
  BucketIdle, SweepEvery,        \* ticks until idle (10 min), between sweeps (1 min)
  MaxTime                        \* bound: the clock

ASSUME LimiterAssumption ==
  /\ ClientCapacity \in Nat \ {0} /\ GlobalCapacity \in Nat \ {0}
  /\ ClientRefill \in Nat /\ GlobalRefill \in Nat
  /\ MaxBuckets \in Nat \ {0} /\ BucketIdle \in Nat /\ SweepEvery \in Nat
  /\ MaxTime \in Nat

\* "idle buckets have refilled anyway; dropping them loses nothing"
ASSUME IdleAssumption == (BucketIdle + 1) * ClientRefill >= ClientCapacity

VARIABLES
  now,      \* the clock
  buckets,  \* the client map: one bucket per client, or NoBucket
  global,   \* the scope's bucket
  prunedAt, \* when the map was last swept
  spent     \* history: tokens taken and not given back since the start

limiter == <<buckets, global, prunedAt, spent>>

NoBucket == [tokens |-> -1, at |-> 0]
NeverSwept == -SweepEvery
Lesser(a, b) == IF a < b THEN a ELSE b

\* take, up to its decision: what is in a bucket now.
Tokens(b, capacity, refill) ==
  IF b = NoBucket THEN capacity
  ELSE Lesser(capacity, b.tokens + (now - b.at) * refill)

Present(map) == {c \in Clients : map[c] # NoBucket}

\* makeRoom, for a client that has no bucket: idle buckets go, at most one
\* sweep in a while; if the map stays full, every bucket goes.
Sweeps(c) ==
  /\ buckets[c] = NoBucket /\ Cardinality(Present(buckets)) >= MaxBuckets
  /\ now - prunedAt >= SweepEvery
Swept(c) ==
  IF Sweeps(c)
  THEN [d \in Clients |-> IF now - buckets[d].at > BucketIdle THEN NoBucket ELSE buckets[d]]
  ELSE buckets
Room(c) ==
  IF buckets[c] = NoBucket /\ Cardinality(Present(Swept(c))) >= MaxBuckets
  THEN [d \in Clients |-> NoBucket]
  ELSE Swept(c)

\* allowScoped: the client's bucket first, so that a client over its own limit
\* takes nothing from the others; its token is given back when the scope's
\* bucket is empty.
TakesAnyway(mine, shared) == IF shared >= 1 THEN mine - 1 ELSE mine
TokensLeft(mine, shared) == IF mine >= 1 /\ shared >= 1 THEN mine - 1 ELSE mine

\* The global bucket is not in the map that makeRoom empties.
DroppedToo(c) == IF Present(Room(c)) = {} THEN NoBucket ELSE global
GlobalBucket(c) == global

Allow(c, allowed) ==
  LET mine   == Tokens(Room(c)[c], ClientCapacity, ClientRefill)
      shared == Tokens(GlobalBucket(c), GlobalCapacity, GlobalRefill)
  IN /\ allowed = (mine >= 1 /\ shared >= 1)
     /\ buckets' = [Room(c) EXCEPT ![c] = [tokens |-> TokensLeft(mine, shared), at |-> now]]
     /\ global' = IF mine >= 1
                  THEN [tokens |-> IF allowed THEN shared - 1 ELSE shared, at |-> now]
                  ELSE global
     /\ prunedAt' = IF Sweeps(c) THEN now ELSE prunedAt
     /\ spent' = IF allowed THEN spent + 1 ELSE spent

\* refundScoped, after an allowed attempt that is not to count. The client's
\* bucket may have been dropped since.
Refilled(b) == IF b = NoBucket THEN b ELSE [b EXCEPT !.tokens = @ + 1]
Refund(c) ==
  /\ buckets' = [buckets EXCEPT ![c] = Refilled(@)]
  /\ global' = Refilled(global)
  /\ spent' = spent - 1
  /\ UNCHANGED prunedAt

EmptyLimiter ==
  /\ buckets = [c \in Clients |-> NoBucket]
  /\ global = NoBucket /\ prunedAt = NeverSwept /\ spent = 0

-----------------------------------------------------------------------------
(* Properties.                                                             *)

Bucket == [tokens : Nat, at : 0 .. MaxTime] \cup {NoBucket}
LimiterTypeOK ==
  /\ now \in 0 .. MaxTime
  /\ buckets \in [Clients -> Bucket] /\ global \in Bucket
  /\ prunedAt \in Int /\ prunedAt <= now /\ spent \in Int

\* "That only resets per-client allowances; the global buckets keep bounding
\* the total": however often the client map is swept or dropped, and whatever
\* is refunded, no more attempts count than the scope's burst and its refill
\* allow.
TotalBounded == spent <= GlobalCapacity + GlobalRefill * now
=============================================================================
