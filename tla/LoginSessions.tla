--------------------------- MODULE LoginSessions ---------------------------
(***************************************************************************)
(* Browser sessions of a local user: login, the check of every request,       *)
(* rotation and logout (AuthSessionService, SqliteAuthSessionStore) and the   *)
(* limiter of login attempts (InMemoryLoginAttemptLimiter).  Tabs that share  *)
(* a cookie present the same token; each store call is a transaction of its   *)
(* own, and a tab reads the clock before it waits for the write guard.  A tab *)
(* that goes away takes no further step.                                      *)
(***************************************************************************)
EXTENDS Integers, FiniteSets, Sequences

CONSTANTS
  Tabs,          \* callers, of login or with a session token
  Sources,       \* addresses that logins come from
  MaxTokens,     \* bound on the tokens drawn
  SessionTTL,    \* session_ttl_minutes, in ticks
  AttemptLimit, AttemptWindow, MaxKeys,    \* the limiter's
  MaxLoginTime   \* bound on the clock

ASSUME LoginAssumption ==
  /\ MaxTokens \in Nat \ {0} /\ SessionTTL \in Nat \ {0} /\ MaxLoginTime \in Nat
  /\ AttemptLimit \in Nat \ {0} /\ AttemptWindow \in Nat \ {0} /\ MaxKeys \in Nat \ {0}

Tokens == 1..MaxTokens

VARIABLES
  loginClock,
  tab,        \* a caller: its await, what it asks, its token and clock, the tokens it knew spent
  session,    \* auth_sessions, by the token it was created with
  drawn,      \* tokens drawn so far
  held,       \* tokens that were answered to some tab
  spent,      \* successful rotations and logouts: token, session, what
  attempts,   \* the limiter: times by key, a function whose domain grows and shrinks
  userStatus, \* users.status
  hashed      \* whether the password hash has the current parameters

loginVars == <<loginClock, tab, session, drawn, held, spent, attempts, userStatus, hashed>>

Resting == [at |-> "rest", op |-> "none", token |-> 0, session |-> 0, now |-> 0,
            rehash |-> FALSE, before |-> {}, source |-> 0]
NoSession == [state |-> "none", token |-> 0, created |-> 0, expires |-> 0]
SpentTokens == {spent[i].token : i \in DOMAIN spent}

LoginInit ==
  /\ loginClock = 0
  /\ tab = [t \in Tabs |-> Resting]
  /\ session = [s \in Tokens |-> NoSession]
  /\ drawn = 0
  /\ held = {}
  /\ spent = <<>>
  /\ attempts = <<>>
  /\ userStatus = "active"
  /\ hashed = FALSE

-----------------------------------------------------------------------------
(* The limiter *)

KeysOf(source) == {<<"source", source>>, <<"identity", source>>}

(* _active_attempts: a key whose attempts all lie outside the window is gone. *)
Recent(times, now) == SelectSeq(times, LAMBDA t : t > now - AttemptWindow)
Pruned(table, key, now) ==
  LET kept == IF key \in DOMAIN table THEN Recent(table[key], now) ELSE <<>> IN
  IF kept = <<>> THEN [k \in DOMAIN table \ {key} |-> table[k]]
  ELSE [table EXCEPT ![key] = kept]

Attempted(table, key) == IF key \in DOMAIN table THEN table[key] ELSE <<>>
Latest(table, key) == table[key][Len(table[key])]

(* reserve: a full table loses the key whose last attempt is the oldest.      *)
Admits(table, key, now) == Len(Attempted(Pruned(table, key, now), key)) < AttemptLimit
Reserved(table, key, now) ==
  LET pruned == Pruned(table, key, now)
      full == key \notin DOMAIN pruned /\ Cardinality(DOMAIN pruned) >= MaxKeys
      oldest == CHOOSE k \in DOMAIN pruned :
                  \A j \in DOMAIN pruned : Latest(pruned, k) <= Latest(pruned, j)
      left == IF full THEN DOMAIN pruned \ {oldest} ELSE DOMAIN pruned
  IN [k \in left \union {key} |->
        IF k = key THEN Append(Attempted(pruned, key), now) ELSE pruned[k]]

-----------------------------------------------------------------------------
(* login *)

Rests(t) == tab' = [tab EXCEPT ![t] = Resting]

(* The source is counted before the identity, also when the identity refuses. *)
SignIn(t, source) ==
  LET bySource == Reserved(attempts, <<"source", source>>, loginClock) IN
  /\ tab[t].at = "rest"
  /\ \/ /\ Admits(attempts, <<"source", source>>, loginClock)
        /\ Admits(bySource, <<"identity", source>>, loginClock)
        /\ attempts' = Reserved(bySource, <<"identity", source>>, loginClock)
        /\ tab' = [tab EXCEPT ![t] = [Resting EXCEPT !.at = "find", !.op = "login",
                                      !.now = loginClock, !.source = source]]
     \/ /\ Admits(attempts, <<"source", source>>, loginClock)
        /\ ~Admits(bySource, <<"identity", source>>, loginClock)
        /\ attempts' = Pruned(bySource, <<"identity", source>>, loginClock)
        /\ UNCHANGED tab
     \/ /\ ~Admits(attempts, <<"source", source>>, loginClock)
        /\ attempts' = Pruned(attempts, <<"source", source>>, loginClock)
        /\ UNCHANGED tab
  /\ UNCHANGED <<loginClock, session, drawn, held, spent, userStatus, hashed>>

(* find_local_identity and the verification, which may refuse; what the       *)
(* limiter knew of both keys goes before the session exists.                  *)
FindIdentity(t, right) ==
  /\ tab[t].at = "find"
  /\ \/ /\ right /\ userStatus = "active"
        /\ drawn < MaxTokens
        /\ drawn' = drawn + 1
        /\ attempts' = [k \in DOMAIN attempts \ KeysOf(tab[t].source) |-> attempts[k]]
        /\ tab' = [tab EXCEPT ![t].at = "insert", ![t].token = drawn + 1, ![t].rehash = ~hashed]
     \/ /\ ~right \/ userStatus # "active"
        /\ Rests(t)
        /\ UNCHANGED <<drawn, attempts>>
  /\ UNCHANGED <<loginClock, session, held, spent, userStatus, hashed>>

(* create_session: the user's sessions that ran out are closed, the hash is   *)
(* replaced if nobody did, the session is inserted.                           *)
CreateSession(t) ==
  LET now == tab[t].now IN
  /\ tab[t].at = "insert"
  /\ session' = [s \in Tokens |->
       IF s = tab[t].token
         THEN [state |-> "active", token |-> s, created |-> now, expires |-> now + SessionTTL]
       ELSE IF session[s].state = "active" /\ session[s].expires <= now
         THEN [session[s] EXCEPT !.state = "expired"]
       ELSE session[s]]
  /\ hashed' = (hashed \/ tab[t].rehash)
  /\ held' = held \union {tab[t].token}
  /\ Rests(t)
  /\ UNCHANGED <<loginClock, drawn, spent, attempts, userStatus>>

-----------------------------------------------------------------------------
(* Requests that carry a session token *)

Ask(t, op, token) ==
  /\ tab[t].at = "rest"
  /\ token \in held
  /\ tab' = [tab EXCEPT ![t] = [Resting EXCEPT !.at = "authenticate", !.op = op, !.token = token,
                                !.now = loginClock, !.before = SpentTokens]]
  /\ UNCHANGED <<loginClock, session, drawn, held, spent, attempts, userStatus, hashed>>

(* _authenticate and get_session, which closes a session that ran out; an     *)
(* operation that writes also shows its CSRF token.                           *)
Authenticate(t, csrf) ==
  LET found == {s \in Tokens : session[s].state = "active" /\ session[s].token = tab[t].token}
      live == {s \in found : session[s].expires > tab[t].now}
  IN
  /\ tab[t].at = "authenticate"
  /\ session' = [s \in Tokens |-> IF s \in found \ live THEN [session[s] EXCEPT !.state = "expired"]
                                  ELSE session[s]]
  /\ \/ \E s \in live :
          /\ userStatus = "active" /\ (csrf \/ tab[t].op = "view")
          /\ tab' = [tab EXCEPT ![t].session = s, ![t].at =
               IF tab[t].op = "view" THEN "viewed" ELSE tab[t].op]
     \/ /\ live = {} \/ userStatus # "active" \/ (~csrf /\ tab[t].op # "view")
        /\ Rests(t)
  /\ UNCHANGED <<loginClock, drawn, held, spent, attempts, userStatus, hashed>>

(* current_session returned.                                                  *)
Viewed(t) ==
  /\ tab[t].at = "viewed"
  /\ Rests(t)
  /\ UNCHANGED <<loginClock, session, drawn, held, spent, attempts, userStatus, hashed>>

(* The row is still the one that was authenticated.                           *)
StillMine(t) ==
  /\ session[tab[t].session].state = "active"
  /\ session[tab[t].session].token = tab[t].token

(* Mutant: the update finds the session by its id alone.                      *)
RotatesAny(t) ==
  /\ session[tab[t].session].state = "active"
  /\ session[tab[t].session].expires > tab[t].now

Rotates(t) == StillMine(t) /\ session[tab[t].session].expires > tab[t].now

(* rotate_session: compare and swap of the token; its time does not grow.     *)
RotateSession(t) ==
  /\ tab[t].at = "rotate"
  /\ \/ /\ Rotates(t)
        /\ drawn < MaxTokens
        /\ drawn' = drawn + 1
        /\ session' = [session EXCEPT ![tab[t].session].token = drawn + 1]
        /\ spent' = Append(spent, [token |-> tab[t].token, session |-> tab[t].session, op |-> "rotate"])
        /\ held' = held \union {drawn + 1}
     \/ ~Rotates(t) /\ UNCHANGED <<session, drawn, spent, held>>
  /\ Rests(t)
  /\ UNCHANGED <<loginClock, attempts, userStatus, hashed>>

(* revoke_session.                                                            *)
RevokeSession(t) ==
  /\ tab[t].at = "logout"
  /\ \/ /\ StillMine(t)
        /\ session' = [session EXCEPT ![tab[t].session].state = "revoked"]
        /\ spent' = Append(spent, [token |-> tab[t].token, session |-> tab[t].session, op |-> "logout"])
     \/ ~StillMine(t) /\ UNCHANGED <<session, spent>>
  /\ Rests(t)
  /\ UNCHANGED <<loginClock, drawn, held, attempts, userStatus, hashed>>

(* users.status is written outside this code.                                 *)
Disable ==
  /\ userStatus = "active"
  /\ userStatus' = "disabled"
  /\ UNCHANGED <<loginClock, tab, session, drawn, held, spent, attempts, hashed>>

LoginTick ==
  /\ loginClock < MaxLoginTime
  /\ loginClock' = loginClock + 1
  /\ UNCHANGED <<tab, session, drawn, held, spent, attempts, userStatus, hashed>>

LoginNext ==
  \/ \E t \in Tabs :
       \/ \E source \in Sources : SignIn(t, source)
       \/ \E right \in BOOLEAN : FindIdentity(t, right)
       \/ CreateSession(t)
       \/ \E op \in {"view", "rotate", "logout"}, token \in Tokens : Ask(t, op, token)
       \/ \E csrf \in BOOLEAN : Authenticate(t, csrf)
       \/ Viewed(t) \/ RotateSession(t) \/ RevokeSession(t)
  \/ Disable \/ LoginTick

LoginSpec == LoginInit /\ [][LoginNext]_loginVars

-----------------------------------------------------------------------------
(* Properties *)

LoginTypeOK ==
  /\ loginClock \in 0..MaxLoginTime
  /\ drawn \in 0..MaxTokens /\ held \subseteq 1..drawn
  /\ \A s \in Tokens : session[s].state \in {"none", "active", "revoked", "expired"}
  /\ Cardinality(DOMAIN attempts) <= MaxKeys
  /\ \A key \in DOMAIN attempts : Len(attempts[key]) \in 1..AttemptLimit
  /\ userStatus \in {"active", "disabled"} /\ hashed \in BOOLEAN

(* A token is good once (rotate_session, revoke_session): of the tabs that    *)
(* rotate or log out with the same token one wins; a token rotated away or    *)
(* logged out before a request began is never let in by it; a session that    *)
(* was logged out, by whatever token, stays so; no two active sessions share  *)
(* a token; and no rotation lengthens a session.                              *)
TokenGoodOnce ==
  /\ \A i, j \in DOMAIN spent : spent[i].token = spent[j].token => i = j
  /\ \A i \in DOMAIN spent : spent[i].op = "logout" => session[spent[i].session].state = "revoked"
  /\ \A t \in Tabs : tab[t].at \in {"viewed", "rotate", "logout"} =>
       /\ tab[t].token \notin tab[t].before
       /\ tab[t].now < session[tab[t].session].expires
  /\ \A s, r \in Tokens :
       session[s].state = "active" /\ session[r].state = "active" /\ session[s].token = session[r].token => s = r
  /\ \A s \in Tokens : session[s].state # "none" => session[s].expires = session[s].created + SessionTTL
=============================================================================
