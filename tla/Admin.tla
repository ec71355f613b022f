--------------------------------- MODULE Admin ---------------------------------
(***************************************************************************)
(* Signing in to the dashboard: the login form and the admin actions on    *)
(* sessions and passkeys (web/admin.go), sessions (web/session.go), the    *)
(* passkey ceremonies (web/passkey.go) and their tables (store/admin.go),  *)
(* with the limiter that counts the failed attempts.                       *)
(*                                                                         *)
(* A browser is one address and one cookie jar. Its requests may overlap.  *)
(* What a login proves, a token or a passkey, is right or wrong.           *)
(***************************************************************************)
EXTENDS Limiter

CONSTANTS
  Requests,        \* request handlers
  PasskeyOnly,     \* ADMIN_PASSKEY_ONLY
  SessionTTL,      \* ticks a session lasts (30 days)
  CeremonyTTL,     \* ticks a passkey ceremony may take (3 min)
  MaxCeremonies,   \* ceremonies kept (100)
  MaxPasskeys,     \* passkeys before no ceremony is begun for another (20)
  MaxIds,          \* bound: sessions and ceremonies that exist together
  MaxTrouble       \* bound: failed writes and restarts

ASSUME AdminAssumption ==
  /\ PasskeyOnly \in BOOLEAN /\ SessionTTL \in Nat \ {0} /\ CeremonyTTL \in Nat \ {0}
  /\ MaxCeremonies \in Nat \ {0} /\ MaxPasskeys \in Nat /\ MaxIds \in Nat
  /\ MaxTrouble \in Nat /\ IsFiniteSet(Requests)

VARIABLES
  requests,    \* what each handler is doing
  cookies,     \* each browser's session and ceremony cookies
  sessions,    \* rows of admin_sessions
  passkeys,    \* rows of admin_passkeys: how many
  ceremonies,  \* passkeys.ceremonies (memory)
  token,       \* ADMIN_TOKEN of the running process
  fingerprint, \* app_state "admin-token-fingerprint" (0: none)
  failures,    \* history: each client's failed attempts since the start
  endedFor,    \* history: the token the last complete sign-out was for (0: none)
  broken,      \* history: a sign-out since then was not completed
  trouble      \* how much of MaxTrouble is used

tables == <<sessions, passkeys, fingerprint>>
signOut == <<endedFor, broken>>
vars == <<now, limiter, requests, cookies, tables, ceremonies, token, failures,
          signOut, trouble>>

Ids == 1 .. MaxIds
AdminTokens == {1, 2}
Idle == [pc |-> "idle", client |-> "none"]
NoCookies == [session |-> 0, ceremony |-> 0]

Trouble == trouble < MaxTrouble /\ trouble' = trouble + 1
Goes(q, state) == requests' = [requests EXCEPT ![q] = state]
Counted(q) == failures' = [failures EXCEPT ![requests[q].client] = @ + 1]

Valid(s) == now < s.started + SessionTTL
SessionOf(c) == {s \in sessions : s.id = cookies[c].session /\ Valid(s)}
Authenticated(c) == SessionOf(c) # {}

\* Random ids never meet an earlier one: one that nobody holds.
Held == {s.id : s \in sessions} \cup {w.id : w \in ceremonies}
        \cup {cookies[c].session : c \in Clients} \cup {cookies[c].ceremony : c \in Clients}
NewId(i) == i \in Ids \ Held /\ \A j \in Ids \ Held : i <= j

Tick ==
  /\ now < MaxTime
  /\ now' = now + 1
  /\ UNCHANGED <<limiter, requests, cookies, tables, ceremonies, token, failures,
                 signOut, trouble>>

-----------------------------------------------------------------------------
(* Login, with the token or with a passkey.                                *)

\* Both are limited together: the attempt is let in, or ends here.
Attempt(q, c) ==
  /\ requests[q] = Idle
  /\ \E via \in {"token", "passkey"}, allowed \in BOOLEAN :
       /\ Allow(c, allowed)
       /\ Goes(q, IF allowed THEN [Idle EXCEPT !.pc = via, !.client = c] ELSE Idle)
  /\ UNCHANGED <<now, cookies, tables, ceremonies, token, failures, signOut, trouble>>

\* tokenMatches, and the refund: only failures count.
RefundsNothing(q) == UNCHANGED limiter
GivesBack(q) == Refund(requests[q].client)

TokenMatches(q) ==
  /\ requests[q].pc = "token"
  /\ GivesBack(q)
  /\ Goes(q, [requests[q] EXCEPT !.pc = "tokenLoginOff"])
  /\ UNCHANGED <<now, cookies, tables, ceremonies, token, failures, signOut, trouble>>

\* A wrong token, or a passkey that is not accepted, counts.
Refused(q) ==
  /\ requests[q].pc \in {"token", "verify"}
  /\ Counted(q)
  /\ Goes(q, Idle)
  /\ UNCHANGED <<now, limiter, cookies, tables, ceremonies, token, signOut, trouble>>

TokenLoginOff(q) ==
  /\ requests[q].pc = "tokenLoginOff"
  /\ Goes(q, IF PasskeyOnly /\ passkeys > 0 THEN Idle
             ELSE [requests[q] EXCEPT !.pc = "start"])
  /\ UNCHANGED <<now, limiter, cookies, tables, ceremonies, token, failures,
                 signOut, trouble>>

\* CreateAdminSession: expired sessions go whenever a new one starts.
Unexpired == {s \in sessions : Valid(s)}

StartSession(q) ==
  LET c == requests[q].client IN
  /\ requests[q].pc = "start"
  /\ \/ \E i \in Ids :
          /\ NewId(i)
          /\ sessions' = Unexpired \cup {[id |-> i, started |-> now, token |-> token]}
          /\ cookies' = [cookies EXCEPT ![c].session = i]
          /\ UNCHANGED trouble
     \/ Trouble /\ UNCHANGED <<sessions, cookies>>
  /\ Goes(q, Idle)
  /\ UNCHANGED <<now, limiter, passkeys, fingerprint, ceremonies, token, failures, signOut>>

-----------------------------------------------------------------------------
(* Passkey ceremonies. Their session data waits in memory, under the id in *)
(* the browser's ceremony cookie.                                          *)

\* start: expired ceremonies go, and if it is full, all of them.
Waiting ==
  LET live == {w \in ceremonies : w.expires >= now}
  IN IF Cardinality(live) >= MaxCeremonies THEN {} ELSE live

Begin(c, register) ==
  \E i \in Ids :
    /\ NewId(i)
    /\ ceremonies' = Waiting \cup
         {[id |-> i, register |-> register, expires |-> now + CeremonyTTL]}
    /\ cookies' = [cookies EXCEPT ![c].ceremony = i]

RegisterBegin(c) ==
  /\ Authenticated(c) /\ passkeys < MaxPasskeys
  /\ Begin(c, TRUE)
  /\ UNCHANGED <<now, limiter, requests, tables, token, failures, signOut, trouble>>

LoginBegin(c) ==
  /\ passkeys > 0
  /\ Begin(c, FALSE)
  /\ UNCHANGED <<now, limiter, requests, tables, token, failures, signOut, trouble>>

\* finish takes the ceremony out, whatever comes of it.
TakenOut(id) == {w \in ceremonies : w.id # id}
Finishes(c, register) ==
  \E w \in ceremonies :
    w.id = cookies[c].ceremony /\ w.register = register /\ w.expires > now

LoginFinish(q) ==
  LET c == requests[q].client IN
  /\ requests[q].pc = "passkey"
  /\ ceremonies' = TakenOut(cookies[c].ceremony)
  /\ IF Finishes(c, FALSE)
     THEN /\ Goes(q, [requests[q] EXCEPT !.pc = "verify"])
          /\ UNCHANGED failures
     ELSE Goes(q, Idle) /\ Counted(q)
  /\ UNCHANGED <<now, limiter, cookies, tables, token, signOut, trouble>>

\* FinishLogin with a passkey that is listed; it is not counted either, and
\* its sign count and time of use are updated.
PasskeyMatches(q) ==
  /\ requests[q].pc = "verify" /\ passkeys > 0
  /\ GivesBack(q)
  /\ Goes(q, [requests[q] EXCEPT !.pc = "start"])
  /\ UNCHANGED <<now, cookies, tables, ceremonies, token, failures, signOut, trouble>>

RegisterFinish(q, c) ==
  /\ requests[q] = Idle /\ Authenticated(c)
  /\ ceremonies' = TakenOut(cookies[c].ceremony)
  /\ Goes(q, IF Finishes(c, TRUE) THEN [pc |-> "save", client |-> c] ELSE Idle)
  /\ UNCHANGED <<now, limiter, cookies, tables, token, failures, signOut, trouble>>

\* FinishRegistration accepts the passkey, or not. The limit is not looked at
\* again: ceremonies begun below it may finish above it.
SavePasskey(q) ==
  /\ requests[q].pc = "save"
  /\ \/ passkeys' = passkeys + 1 /\ UNCHANGED trouble
     \/ Trouble /\ UNCHANGED passkeys
  /\ Goes(q, Idle)
  /\ UNCHANGED <<now, limiter, cookies, sessions, fingerprint, ceremonies, token,
                 failures, signOut>>

DeletePasskey(c) ==
  /\ Authenticated(c) /\ passkeys > 0
  /\ passkeys' = passkeys - 1
  /\ UNCHANGED <<now, limiter, requests, cookies, sessions, fingerprint, ceremonies,
                 token, failures, signOut, trouble>>

-----------------------------------------------------------------------------
(* Logging out, and restarts.                                              *)

SessionsWithout(id) == {s \in sessions : s.id # id}

\* Also "reauth". The cookie is cleared even if the row could not be deleted.
EndSession(c) ==
  /\ cookies[c].session # 0
  /\ \/ sessions' = SessionsWithout(cookies[c].session) /\ UNCHANGED trouble
     \/ Trouble /\ UNCHANGED sessions
  /\ cookies' = [cookies EXCEPT ![c].session = 0]
  /\ UNCHANGED <<now, limiter, requests, passkeys, fingerprint, ceremonies, token,
                 failures, signOut>>

LogoutAll(c) ==
  /\ Authenticated(c)
  /\ \/ sessions' = {} /\ UNCHANGED trouble
     \/ Trouble /\ UNCHANGED sessions
  /\ cookies' = [cookies EXCEPT ![c].session = 0]
  /\ UNCHANGED <<now, limiter, requests, passkeys, fingerprint, ceremonies, token,
                 failures, signOut>>

\* endSessionsIfTokenChanged: the sessions go, then the new fingerprint is
\* written. A write that fails, or a crash, breaks it off before or between.
Unchanged(new) == fingerprint = new
RecordsFirst(new) ==
  UNCHANGED sessions /\ fingerprint' \in {fingerprint, new}
BrokenOff(new) ==
  UNCHANGED fingerprint /\ sessions' \in {sessions, {}}

\* The memory is lost, perhaps with a new token set in the environment. A
\* broken sign-out is made up for by the next start with another token than
\* the one the last complete one was for.
Restart ==
  /\ Trouble
  /\ token' \in AdminTokens
  /\ \/ /\ Unchanged(token')
        /\ broken' = (broken /\ token' = endedFor)
        /\ UNCHANGED <<sessions, fingerprint, endedFor>>
     \/ /\ ~Unchanged(token')
        /\ sessions' = {} /\ fingerprint' = token'
        /\ endedFor' = token' /\ broken' = FALSE
     \/ /\ ~Unchanged(token')
        /\ BrokenOff(token')
        /\ broken' = (sessions' # {} \/ endedFor \notin {0, token'})
        /\ UNCHANGED endedFor
  /\ requests' = [q \in Requests |-> Idle]
  /\ buckets' = [c \in Clients |-> NoBucket] /\ global' = NoBucket
  /\ prunedAt' = NeverSwept /\ spent' = 0
  /\ ceremonies' = {} /\ failures' = [c \in Clients |-> 0]
  /\ UNCHANGED <<now, cookies, passkeys>>

\* The first start: no session yet, and the fingerprint written or not.
Init ==
  /\ now = 0 /\ EmptyLimiter
  /\ requests = [q \in Requests |-> Idle]
  /\ cookies = [c \in Clients |-> NoCookies]
  /\ sessions = {} /\ passkeys = 0 /\ ceremonies = {}
  /\ token = 1 /\ fingerprint \in {0, 1}
  /\ endedFor = fingerprint /\ broken = FALSE
  /\ failures = [c \in Clients |-> 0] /\ trouble = 0

LoggingIn(q) ==
  \/ TokenMatches(q) \/ Refused(q) \/ TokenLoginOff(q) \/ StartSession(q)
  \/ LoginFinish(q) \/ PasskeyMatches(q) \/ SavePasskey(q)

Next ==
  \/ Tick \/ Restart
  \/ \E q \in Requests : LoggingIn(q)
  \/ \E q \in Requests, c \in Clients : Attempt(q, c) \/ RegisterFinish(q, c)
  \/ \E c \in Clients :
       RegisterBegin(c) \/ LoginBegin(c) \/ DeletePasskey(c) \/ EndSession(c) \/ LogoutAll(c)

Spec == Init /\ [][Next]_vars

-----------------------------------------------------------------------------
(* Properties.                                                             *)

Session == [id : Ids, started : 0 .. MaxTime, token : AdminTokens]
Ceremony == [id : Ids, register : BOOLEAN, expires : Nat]
Request ==
  [pc : {"idle", "token", "passkey", "tokenLoginOff", "start", "verify", "save"},
   client : Clients \cup {"none"}]

TypeOK ==
  /\ LimiterTypeOK
  /\ requests \in [Requests -> Request]
  /\ cookies \in [Clients -> [session : Ids \cup {0}, ceremony : Ids \cup {0}]]
  /\ sessions \subseteq Session /\ ceremonies \subseteq Ceremony
  /\ passkeys \in Nat
  /\ token \in AdminTokens /\ fingerprint \in AdminTokens \cup {0}
  /\ endedFor \in AdminTokens \cup {0} /\ broken \in BOOLEAN
  /\ failures \in [Clients -> Nat] /\ trouble \in 0 .. MaxTrouble

\* Attempts that were let in, and have not failed or been refunded yet.
Undecided(c) ==
  {q \in Requests : requests[q].client = c /\ requests[q].pc \in {"token", "passkey", "verify"}}

\* "Only failures count": nothing but its own failures and its attempts still
\* being decided has been taken from a client's bucket, so that logins that
\* succeed, other clients' attempts and an empty global bucket cost it nothing.
OnlyFailuresCount ==
  \A c \in Clients : buckets[c] # NoBucket =>
    buckets[c].tokens >= ClientCapacity - failures[c] - Cardinality(Undecided(c))

\* Sessions last 30 days, logging out everywhere ends them all, "and so does
\* changing ADMIN_TOKEN": no session outlives the token it was started under,
\* over crashes and failed writes during the sign-out, before or after the
\* sessions are gone. What stays open is the time from a start whose sign-out
\* broke off to the next start that does not have the earlier token again.
SessionsFollowToken == broken \/ \A s \in sessions : s.token = token
=============================================================================
