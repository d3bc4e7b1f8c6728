----------------------------- MODULE DeviceSessions -----------------------------
(* Device sessions of the operator (operator-device-auth.js): sign-in with a    *)
(* password, bounded attempts per client, sessions that outlive the server, and *)
(* revocation. Changes run one at a time and are written before they are kept   *)
(* in memory; a request's session is looked up in memory, beside them. The      *)
(* credential file is valid, and the clock does not step back.                  *)
(*                                                                              *)
(* Tokens are numbered as they are drawn, so a list of sessions, to which the   *)
(* code only appends, is a function on its tokens; attempts are numbered too,   *)
(* since two may fall on one reading of the clock.                              *)
EXTENDS Integers, FiniteSets

CONSTANTS
  Clients,     \* addresses that sign in
  MaxSessions, \* DEVICE_AUTH_MAX_SESSIONS
  MaxAttempts, \* DEVICE_AUTH_MAX_ATTEMPTS
  Lifetime,    \* DEVICE_SESSION_TTL_SECONDS
  Window,      \* DEVICE_AUTH_FAILURE_WINDOW_MS
  Block,       \* DEVICE_AUTH_RETRY_SECONDS
  MaxTime,     \* bound: the clock
  MaxTokens,   \* bound: sessions created
  MaxFaults    \* bound: writes that fail and restarts

\* The limits are numbers, and a lockout lasts a window at least.
Limits ==
  /\ "none" \notin Clients
  /\ MaxSessions \in Nat \ {0} /\ MaxAttempts \in Nat \ {0} /\ Lifetime \in Nat
  /\ Window \in Nat /\ Block \in Nat /\ Window <= Block
  /\ MaxTime \in Nat /\ MaxTokens \in Nat /\ MaxFaults \in Nat

VARIABLES
  store,    \* sessions in memory: token -> expiry
  file,     \* sessions on disk
  failures, \* loginFailures: [attempts, blockedUntil] of each client
  login,    \* the sign-in whose password is being compared
  now,      \* the clock
  created,  \* sessions created so far; their tokens are 1..created
  left,     \* what the bounds still allow
  given,    \* history: sessions that a client was given
  asked,    \* history: tokens whose revocation was tried
  revoked,  \* history: those of them whose revocation was confirmed
  tried     \* history: the wrong passwords compared, since the last restart or success
            \* of that client

auth == <<store, file, failures, login, created>>
vars == <<store, file, failures, login, now, created, left, given, asked, revoked, tried>>

None == [client |-> "none", at |-> 0]
NoSessions == [t \in {} |-> 0]
NoFailures == [attempts |-> {}, blockedUntil |-> 0]

\* Some of the sessions: those not expired, all but one, the newest.
Kept(sessions, tokens) == [t \in tokens |-> sessions[t]]
Active(sessions, at) == Kept(sessions, {t \in DOMAIN sessions : sessions[t] > at})
Without(sessions, token) == Kept(sessions, DOMAIN sessions \ {token})
Newer(sessions, token) == {t \in DOMAIN sessions : t > token}
Newest(sessions) ==
  Kept(sessions, {t \in DOMAIN sessions : Cardinality(Newer(sessions, t)) < MaxSessions})
With(sessions, s) ==
  [t \in DOMAIN sessions \union {s.token} |->
     IF t = s.token THEN s.expires ELSE sessions[t]]

\* An attempt: its number and its time.
Recent(attempts, at) == {a \in attempts : a.at > at - Window}

HasSession(token) == token \in DOMAIN store /\ store[token] > now

-----------------------------------------------------------------------------

\* A write fails before the new file is in place, or after it; only a write that
\* returns changes what the server goes by.
Written(sessions, fails, replaced) ==
  /\ file' = IF fails => replaced THEN sessions ELSE file
  /\ store' = IF fails THEN store ELSE sessions
  /\ left' = IF fails THEN left - 1 ELSE left
  /\ fails => left > 0

\* login: a client that is blocked is turned away before its password is looked at.
Limited(c) == failures[c].blockedUntil > now

LoginBegins(c) ==
  /\ login = None /\ ~Limited(c)
  /\ failures' = [failures EXCEPT ![c] = [attempts |-> Recent(@.attempts, now), blockedUntil |-> 0]]
  /\ login' = [client |-> c, at |-> now]
  /\ UNCHANGED <<store, file, now, created, left, given, asked, revoked, tried>>

\* recordFailure
LoginFails ==
  LET c == login.client
      attempt == [nr |-> Cardinality(tried[c]) + 1, at |-> login.at]
      attempts == Recent(failures[c].attempts, login.at) \union {attempt}
  IN  /\ login # None
      /\ failures' = [failures EXCEPT ![c] =
           IF Cardinality(attempts) >= MaxAttempts
           THEN [attempts |-> {}, blockedUntil |-> login.at + Block]
           ELSE [attempts |-> attempts, blockedUntil |-> 0]]
      /\ tried' = [tried EXCEPT ![c] = @ \union {attempt}]
      /\ login' = None
      /\ UNCHANGED <<store, file, now, created, left, given, asked, revoked>>

\* The oldest sessions make room. A session that could not be written is not given out.
LoginSucceeds(fails, replaced) ==
  LET session == [token |-> created + 1, expires |-> login.at + Lifetime]
  IN  /\ login # None /\ created < MaxTokens
      /\ Written(Newest(With(Active(store, login.at), session)), fails, replaced)
      /\ created' = created + 1
      /\ given' = IF fails THEN given ELSE given \union {session}
      /\ failures' = [failures EXCEPT ![login.client] = NoFailures]
      /\ tried' = [tried EXCEPT ![login.client] = {}]
      /\ login' = None
      /\ UNCHANGED <<now, asked, revoked>>

Revoke(token, fails, replaced) ==
  /\ login = None
  /\ token \in DOMAIN store
  /\ Written(Without(store, token), fails, replaced)
  /\ asked' = asked \union {token}
  /\ revoked' = IF fails THEN revoked ELSE revoked \union {token}
  /\ UNCHANGED <<failures, login, now, created, given, tried>>

\* createOperatorDeviceAuth: what has expired is pruned, the attempts are forgotten.
Restart ==
  /\ left > 0 /\ left' = left - 1
  /\ store' = Active(file, now) /\ file' = Active(file, now)
  /\ failures' = [c \in Clients |-> NoFailures] /\ login' = None
  /\ tried' = [c \in Clients |-> {}]
  /\ UNCHANGED <<now, created, given, asked, revoked>>

TimePasses ==
  /\ now < MaxTime /\ now' = now + 1
  /\ UNCHANGED <<auth, left, given, asked, revoked, tried>>

Init ==
  /\ store = NoSessions /\ file = NoSessions /\ now = 0 /\ created = 0 /\ login = None
  /\ failures = [c \in Clients |-> NoFailures] /\ left = MaxFaults
  /\ given = {} /\ asked = {} /\ revoked = {} /\ tried = [c \in Clients |-> {}]

Next ==
  \/ \E c \in Clients : LoginBegins(c)
  \/ LoginFails
  \/ \E fails, replaced \in BOOLEAN : LoginSucceeds(fails, replaced)
  \/ \E token \in 1..created, fails, replaced \in BOOLEAN : Revoke(token, fails, replaced)
  \/ Restart
  \/ TimePasses

Spec == Init /\ [][Next]_vars

-----------------------------------------------------------------------------

\* The server can start from its file, which holds no more sessions than its validator
\* takes, also after a write that failed (validateSessionStore).
FileIsTaken == Cardinality(DOMAIN file) <= MaxSessions

\* A session whose revocation was confirmed does not come back, not with a restart
\* either (test/operator-device-auth.test.js:89).
RevokedStaysOut ==
  \A token \in revoked : ~HasSession(token) /\ token \notin DOMAIN file

\* A device that was given a session keeps it until it expires, its revocation is tried,
\* or MaxSessions newer ones were created.
GivenStays ==
  \A s \in given :
    \/ HasSession(s.token)
    \/ s.expires <= now \/ s.token \in asked \/ created - s.token >= MaxSessions

\* Wrong passwords of one client are compared at most MaxAttempts times within any
\* window, the lockout included (docs/safety-model.md:43).
AttemptsBounded ==
  \A c \in Clients, from \in 0..MaxTime :
    Cardinality({a \in tried[c] : from <= a.at /\ a.at < from + Window}) <= MaxAttempts

\* What sign-in promises of its sessions and of its attempts.
SessionsSafe == FileIsTaken /\ RevokedStaysOut /\ GivenStays /\ AttemptsBounded
=============================================================================
