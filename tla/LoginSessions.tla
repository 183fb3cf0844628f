----------------------------- MODULE LoginSessions -----------------------------
(***************************************************************************)
(* The single owner, the login throttle and the login sessions             *)
(* (core/auth.py, api/v1/auth.py).  The handlers are threads of one        *)
(* process: each looks, takes its time over the password, and only then    *)
(* writes.  The throttle lives in memory, owners and sessions in the       *)
(* database.                                                               *)
(***************************************************************************)
EXTENDS Integers, Sequences, SequencesExt, FiniteSets

CONSTANTS
  Clients,        \* where logins come from
  Handlers,       \* handlers that may run at the same time
  Tokens,         \* session cookies
  LoginWindow,    \* LOGIN_WINDOW_SECONDS, in ticks
  MaxTries,       \* LOGIN_MAX_ATTEMPTS
  SweepAt,        \* ATTEMPTS_SWEEP_THRESHOLD
  Life            \* SESSION_MAX_AGE, in ticks

ASSUME LoginAssumption ==
  /\ LoginWindow \in Nat \ {0} /\ MaxTries \in Nat \ {0} /\ Life \in Nat \ {0}
  /\ SweepAt \in Nat /\ IsFiniteSet(Clients) /\ IsFiniteSet(Handlers)

VARIABLES
  owners,         \* how many rows users has with is_owner
  attempts,       \* _attempts: per client the ages of the failures on record, oldest first
  handler,        \* per request, where its handler stands
  sessions,       \* user_sessions: token |-> time to expires_at
  failures,       \* ghost: per client, ages of its failures since its last success
  cookie          \* ghost: the time the cookies handed out and not logged out have left

loginVars == <<owners, attempts, handler, sessions, failures, cookie>>

Free == [step |-> "free"]

\* The deque is trimmed from its old end, up to the first failure still in the window.
InWindow(ages) ==
  LET stops == {k \in 0 .. Len(ages) : k < Len(ages) => ages[k + 1] < LoginWindow}
  IN  SubSeq(ages, Min(stops) + 1, Len(ages))

\* Mutant: judges a client by its oldest failure.
SweepByOldest(table) ==
  [c \in Clients |-> IF table[c] # <<>> /\ Head(table[c]) >= LoginWindow THEN <<>> ELSE table[c]]

\* _sweep_expired_attempts: a client goes when its newest failure has expired.
Sweep(table) ==
  [c \in Clients |-> IF table[c] # <<>> /\ Last(table[c]) >= LoginWindow THEN <<>> ELSE table[c]]

\* record_failed_login; an empty deque is never kept, so <<>> is an absent key.
Recorded(c) ==
  LET table == [attempts EXCEPT ![c] = Append(@, 0)] IN
  IF Cardinality({d \in Clients : table[d] # <<>>}) > SweepAt THEN Sweep(table) ELSE table

\* login_retry_after: whether it asks the client to come back later.
Throttled(c) == Len(InWindow(attempts[c])) >= MaxTries

Authenticates(t) == t \in DOMAIN sessions /\ sessions[t] > 0

\* _set_session: a token nobody holds.
Fresh == {t \in Tokens : t \notin DOMAIN sessions /\ cookie[t] = 0}

Grant(t) ==
  /\ sessions' = [u \in DOMAIN sessions \cup {t} |-> IF u = t THEN Life ELSE sessions[u]]
  /\ cookie' = [cookie EXCEPT ![t] = Life]

\* register finds no user and goes on to hash the password.
RegisterLook(r) ==
  /\ handler[r] = Free /\ owners = 0
  /\ handler' = [handler EXCEPT ![r] = [step |-> "register"]]
  /\ UNCHANGED <<owners, attempts, sessions, failures, cookie>>

\* uq_users_single_owner.
RoomForOwner == owners = 0

\* register inserts the owner with its first session, or is told of the conflict.
RegisterStore(r) ==
  /\ handler[r].step = "register"
  /\ handler' = [handler EXCEPT ![r] = Free]
  /\ \/ RoomForOwner /\ owners' = owners + 1 /\ \E t \in Fresh : Grant(t)
     \/ ~RoomForOwner /\ UNCHANGED <<owners, sessions, cookie>>
  /\ UNCHANGED <<attempts, failures>>

\* login asks the throttle, which drops what has expired; a throttled client is sent away.
LoginLook(r) ==
  /\ handler[r] = Free
  /\ \E c \in Clients :
       /\ attempts' = [attempts EXCEPT ![c] = InWindow(@)]
       /\ handler' = [handler EXCEPT
            ![r] = IF Throttled(c) THEN Free ELSE [step |-> "verify", client |-> c]]
  /\ UNCHANGED <<owners, sessions, failures, cookie>>

\* An unknown name or a wrong password.
LoginFails(r) ==
  /\ handler[r].step = "verify"
  /\ attempts' = Recorded(handler[r].client)
  /\ failures' = [failures EXCEPT ![handler[r].client] = Append(@, 0)]
  /\ handler' = [handler EXCEPT ![r] = Free]
  /\ UNCHANGED <<owners, sessions, cookie>>

\* The owner's password: clear_failed_logins, then the session.
LoginSucceeds(r) ==
  /\ handler[r].step = "verify" /\ owners > 0
  /\ attempts' = [attempts EXCEPT ![handler[r].client] = <<>>]
  /\ failures' = [failures EXCEPT ![handler[r].client] = <<>>]
  /\ handler' = [handler EXCEPT ![r] = [step |-> "grant"]]
  /\ UNCHANGED <<owners, sessions, cookie>>

LoginGrant(r) ==
  /\ handler[r].step = "grant"
  /\ \E t \in Fresh : Grant(t)
  /\ handler' = [handler EXCEPT ![r] = Free]
  /\ UNCHANGED <<owners, attempts, failures>>

\* logout deletes the row of the cookie it came with, if there still is one.
Logout(t) ==
  /\ Authenticates(t)
  /\ sessions' = [u \in DOMAIN sessions \ {t} |-> sessions[u]]
  /\ cookie' = [cookie EXCEPT ![t] = 0]
  /\ UNCHANGED <<owners, attempts, handler, failures>>

Ended(t) == sessions[t] < 0

\* cleanup_expired_records.
DropSessions ==
  /\ sessions' = [t \in {u \in DOMAIN sessions : ~Ended(u)} |-> sessions[t]]
  /\ UNCHANGED <<owners, attempts, handler, failures, cookie>>

\* Memory goes with the process, and with it the throttle.
LoginRestart ==
  /\ attempts' = [c \in Clients |-> <<>>]
  /\ failures' = [c \in Clients |-> <<>>]
  /\ handler' = [r \in Handlers |-> Free]
  /\ UNCHANGED <<owners, sessions, cookie>>

\* Time; ages stop at LoginWindow and ends at one tick ago, where nothing changes any more.
LoginTick ==
  /\ attempts' = [c \in Clients |->
       [i \in DOMAIN attempts[c] |-> Min({LoginWindow, attempts[c][i] + 1})]]
  /\ failures' = [c \in Clients |->
       InWindow([i \in DOMAIN failures[c] |-> failures[c][i] + 1])]
  /\ sessions' = [t \in DOMAIN sessions |-> Max({-1, sessions[t] - 1})]
  /\ cookie' = [t \in Tokens |-> Max({0, cookie[t] - 1})]
  /\ UNCHANGED <<owners, handler>>

LoginInit ==
  /\ owners = 0
  /\ attempts = [c \in Clients |-> <<>>] /\ failures = [c \in Clients |-> <<>>]
  /\ handler = [r \in Handlers |-> Free]
  /\ sessions = [t \in {} |-> 0] /\ cookie = [t \in Tokens |-> 0]

LoginNext ==
  \/ \E r \in Handlers :
       \/ RegisterLook(r) \/ RegisterStore(r)
       \/ LoginLook(r) \/ LoginFails(r) \/ LoginSucceeds(r) \/ LoginGrant(r)
  \/ \E t \in Tokens : Logout(t)
  \/ DropSessions \/ LoginRestart \/ LoginTick

LoginSpec == LoginInit /\ [][LoginNext]_loginVars

-----------------------------------------------------------------------------
LoginTypeOK ==
  /\ owners \in Nat
  /\ attempts \in [Clients -> Seq(0 .. LoginWindow)]
  /\ failures \in [Clients -> Seq(0 .. LoginWindow - 1)]
  /\ handler \in [Handlers ->
       {Free} \cup [step : {"register", "grant"}] \cup [step : {"verify"}, client : Clients]]
  /\ DOMAIN sessions \subseteq Tokens /\ \A t \in DOMAIN sessions : sessions[t] \in -1 .. Life
  /\ cookie \in [Tokens -> 0 .. Life]

(* However many registrations are under way at once (api/v1/auth.py:56), one *)
(* of them makes the owner and the others are refused.                       *)
OneOwner == owners <= 1

(* The table the throttle reads is trimmed by whoever looks and swept by      *)
(* whoever fails, over all clients: for every client it still counts exactly  *)
(* the failures of the window since its last success, none forgotten (the     *)
(* sweep of another client's failure) and none held against it for longer.    *)
ThrottleExact == \A c \in Clients : InWindow(attempts[c]) = failures[c]

(* The look and the record are apart (api/v1/auth.py:71 and :86): in one      *)
(* window a client gets at most one failure past the limit for every handler  *)
(* that was already past its look.                                            *)
TriesBounded == \A c \in Clients : Len(failures[c]) <= MaxTries - 1 + Cardinality(Handlers)

(* A cookie that was handed out authenticates until it is logged out or its   *)
(* end comes, and never again after: the daily cleanup, logins and logouts of *)
(* others and restarts neither cut it short nor bring it back.                *)
SessionExact == \A t \in Tokens : Authenticates(t) <=> cookie[t] > 0

(* Whatever handlers overlap and whatever is swept or deleted meanwhile: one   *)
(* owner, a throttle that is exact and bounds the tries, and cookies that work *)
(* as long as they should.                                                     *)
LoginsHold == OneOwner /\ ThrottleExact /\ TriesBounded /\ SessionExact
=============================================================================
