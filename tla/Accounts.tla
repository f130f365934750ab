------------------------------ MODULE Accounts ------------------------------
(* Who may call the API, how often, and with whose Google: the request budget,
   our own session tokens, signing in, the Google connection, and the access
   token every Google call of the API's workers uses, kept in the cache between
   two refreshes.

   Every request goes through the rate limiter, and every one but a login shows
   a session.  Calls are the Google calls of the jobs: they ask for an access
   token and pass no limiter.  Each await is a step of its own; the code holds
   no lock between two of them.

   Time is counted in ticks; Margin, TokenLife, SessionLife and Window are in
   ticks.  Google itself, and the users who revoke there, are external.  *)
EXTENDS Naturals, FiniteSets

CONSTANTS Requests,     \* requests to the API; one that creates a user names it
          Calls,        \* Google calls of the workers
          Subs,         \* Google accounts; KnownSub is one
          Known,        \* the user who is there at the start
          KnownSub,     \* and the Google account of that user
          Limit,        \* rate_limit_per_minute
          Window,       \* window_seconds
          TokenLife,    \* expires_in of a Google access token
          Margin,       \* EXPIRY_MARGIN_SECONDS
          Lag,          \* how long a call may hold a token it has not cached yet
          SessionLife,  \* jwt_ttl_seconds
          MaxTime,      \* bound on the clock
          MaxGrants,    \* bound on the consents given at Google
          Faults,       \* which of "refused", "die", "bare" may happen
          None          \* no row, no session, nothing yet

VARIABLES clock,
          rl,           \* the limiter's newest key of each caller
          users,        \* table users
          zones,        \* users with a row in table profiles
          sessions,     \* the JWTs issued
          connection,   \* table oauth_connections, by user
          alive,        \* the refresh tokens Google still honours
          grants,       \* how many it has given
          cache,        \* gtok:<user>
          req, call,    \* the requests and the calls under way
          admitted,     \* history: requests let through, by caller and window
          dropped       \* history: disconnected, and nobody has reconnected since

ids   == <<users, zones, sessions>>
links == <<connection, alive, grants>>
vars  == <<clock, rl, ids, links, cache, req, call, admitted, dropped>>

User   == Requests \cup {Known}
Caller == User \cup {"ip"}
Clock  == 0 .. MaxTime
Grant  == 1 .. MaxGrants
Kinds  == {"login", "me", "connect", "disconnect", "list"}

Connections == [grant : Grant, revoked : BOOLEAN]
Sessions == [user : User, exp : Nat]
Tokens  == [grant : Grant, expires : Nat]
Entries == [token : Tokens, until : Nat, late : BOOLEAN]
Replies == {"served", "refused", "new_user", "signed_in"}

ASSUME LifeAssumption ==
    /\ {Window, TokenLife, SessionLife} \subseteq Nat \ {0}
    /\ {Limit, Margin, Lag, MaxTime, MaxGrants} \subseteq Nat
    /\ Lag <= Margin
    /\ KnownSub \in Subs /\ Known \notin Requests
    /\ IsFiniteSet(Requests)
    /\ None \notin Connections /\ None \notin Replies

NoRequest == [at |-> "idle", kind |-> None, user |-> None, saw |-> None, answer |-> None]
NoCall    == [at |-> "idle", user |-> None, token |-> None, ttl |-> 0, late |-> FALSE]

Init ==
    /\ clock = 0
    /\ rl = [c \in Caller |-> [window |-> 0, used |-> 0, until |-> 0]]
    /\ users = {[sub |-> KnownSub, id |-> Known]}
    /\ zones = {Known}
    /\ sessions = {[user |-> Known, exp |-> SessionLife]}
    /\ connection = [u \in User |-> None]
    /\ alive = {}
    /\ grants = 0
    /\ cache = [u \in User |-> None]
    /\ req = [q \in Requests |-> NoRequest]
    /\ call = [c \in Calls |-> NoCall]
    /\ admitted = [c \in Caller |-> [window |-> 0, count |-> 0]]
    /\ dropped = [u \in User |-> FALSE]

-----------------------------------------------------------------------------
(* The clock and Google. *)

\* Between Google's answer and the write to the cache there is only our own
\* code and one round trip to Redis: less than the margin.
Held(c)    == call[c].at \in {"refreshed", "caching"}
Patient(c) == Held(c) => (clock + TokenLife) - call[c].token.expires < Lag

Tick ==
    /\ clock < MaxTime
    /\ \A c \in Calls : Patient(c)
    /\ clock' = clock + 1
    /\ UNCHANGED <<rl, ids, links, cache, req, call, admitted, dropped>>

\* The user withdraws a grant in the settings of the Google account.
UserRevokes(g) ==
    /\ g \in alive
    /\ alive' = alive \ {g}
    /\ UNCHANGED <<clock, rl, ids, connection, grants, cache, req, call, admitted, dropped>>

-----------------------------------------------------------------------------
(* A request: the limiter, then the session. *)

Expired(s) == clock >= s.exp

\* verify: the user of a session that is still good.
Verified(s) == IF s = None THEN None ELSE IF Expired(s) THEN None ELSE s.user

\* A valid session counts for its user; anything else for the address.
_caller(s) == IF Verified(s) = None THEN "ip" ELSE Verified(s)

\* Mutant: the key is forgotten before its window is over.
IncrementedBriefly(entry, window) ==
    IF entry.window = window /\ entry.used > 0 /\ clock < entry.until
    THEN [entry EXCEPT !.used = @ + 1]
    ELSE [window |-> window, used |-> 1, until |-> clock + (Window \div 2)]

\* CachePort.incr: the time to live is set when the key is made, and kept.
Incremented(entry, window) ==
    IF entry.window = window /\ entry.used > 0 /\ clock < entry.until
    THEN [entry EXCEPT !.used = @ + 1]
    ELSE [window |-> window, used |-> 1, until |-> clock + Window]

Counted(c, window) ==
    IF admitted[c].window = window
    THEN [admitted[c] EXCEPT !.count = @ + 1]
    ELSE [window |-> window, count |-> 1]

\* The answers are told apart as far as a property does: who signed in as
\* whom, and whether a request was served or refused.
Refuse(q) == req' = [req EXCEPT ![q] = [NoRequest EXCEPT !.at = "done", !.answer = "refused"]]
Serve(q)  == req' = [req EXCEPT ![q] = [NoRequest EXCEPT !.at = "done", !.answer = "served"]]
SignIn(q, as) == req' = [req EXCEPT ![q] = [@ EXCEPT !.at = "done", !.answer = as]]

\* RateLimitMiddleware.dispatch, and current_user_id where the route wants it.
Arrives(q, kind, s) ==
    /\ req[q].at = "idle"
    /\ LET c == _caller(s)
           window == clock \div Window
           entry == Incremented(rl[c], window)
           user == Verified(s)
       IN /\ rl' = [rl EXCEPT ![c] = entry]
          /\ IF entry.used > Limit
             THEN /\ Refuse(q)
                  /\ UNCHANGED admitted
             ELSE /\ admitted' = [admitted EXCEPT ![c] = Counted(c, window)]
                  /\ IF user = None /\ kind # "login"
                     THEN Refuse(q)
                     ELSE req' = [req EXCEPT ![q] = [NoRequest EXCEPT
                                     !.at = "begun", !.kind = kind, !.user = user]]
    /\ UNCHANGED <<clock, ids, links, cache, call, dropped>>

Moves(q, at) == req' = [req EXCEPT ![q] = [@ EXCEPT !.at = at]]

\* The process that serves a request ends in the middle of it.
Dies(q) ==
    /\ "die" \in Faults
    /\ req[q].at \notin {"idle", "done"}
    /\ Refuse(q)
    /\ UNCHANGED <<clock, rl, ids, links, cache, call, admitted, dropped>>

-----------------------------------------------------------------------------
(* POST /v1/auth/google and GET /v1/me *)

\* exchange_code, then get_by_google_sub: refused, an account we know, or not.
LoginLooks(q, sub) ==
    /\ req[q].at = "begun" /\ req[q].kind = "login"
    /\ \/ "refused" \in Faults /\ Refuse(q)
       \/ LET found == {u \in users : u.sub = sub}
          IN req' = [req EXCEPT ![q] = [@ EXCEPT
                        !.at = IF found = {} THEN "unknown" ELSE "found",
                        !.saw = sub,
                        !.user = IF found = {} THEN q ELSE (CHOOSE u \in found : TRUE).id]]
    /\ UNCHANGED <<clock, rl, ids, links, cache, call, admitted, dropped>>

\* Mutant: the table lets one Google account in twice.
NeverTaken(sub) == FALSE

\* users.google_sub is unique.
SubTaken(sub) == \E u \in users : u.sub = sub

LoginCreates(q) ==
    /\ req[q].at = "unknown"
    /\ IF SubTaken(req[q].saw)
       THEN Refuse(q) /\ UNCHANGED users
       ELSE /\ users' = users \cup {[sub |-> req[q].saw, id |-> q]}
            /\ Moves(q, "created")
    /\ UNCHANGED <<clock, rl, zones, sessions, links, cache, call, admitted, dropped>>

\* A transaction of its own; the session is issued at once after it.
LoginSetsZone(q) ==
    /\ req[q].at = "created"
    /\ zones' = zones \cup {q}
    /\ sessions' = sessions \cup {[user |-> q, exp |-> clock + SessionLife]}
    /\ SignIn(q, "new_user")
    /\ UNCHANGED <<clock, rl, users, links, cache, call, admitted, dropped>>

LoginKnown(q) ==
    /\ req[q].at = "found"
    /\ sessions' = sessions \cup {[user |-> req[q].user, exp |-> clock + SessionLife]}
    /\ SignIn(q, "signed_in")
    /\ UNCHANGED <<clock, rl, users, zones, links, cache, call, admitted, dropped>>

Me(q) ==
    /\ req[q].at = "begun" /\ req[q].kind = "me"
    /\ IF \E u \in users : u.id = req[q].user THEN Serve(q) ELSE Refuse(q)
    /\ UNCHANGED <<clock, rl, ids, links, cache, call, admitted, dropped>>

-----------------------------------------------------------------------------
(* The Google connection. *)

Connected(u) == connection[u] # None /\ ~connection[u].revoked

\* ListIntegrations changes nothing, and lists the revoked connections too.
Lists(q) ==
    /\ req[q].at = "begun" /\ req[q].kind = "list"
    /\ Serve(q)
    /\ UNCHANGED <<clock, rl, ids, links, cache, call, admitted, dropped>>

\* CompleteIntegration: the code is redeemed; a consent that comes without a
\* refresh token is turned away.
ConnectExchanges(q) ==
    /\ req[q].at = "begun" /\ req[q].kind = "connect"
    /\ \/ /\ "refused" \in Faults
          /\ Refuse(q)
          /\ UNCHANGED <<alive, grants>>
       \/ /\ "bare" \in Faults
          /\ Refuse(q)
          /\ UNCHANGED <<alive, grants>>
       \/ /\ grants < MaxGrants
          /\ grants' = grants + 1
          /\ alive' = alive \cup {grants + 1}
          /\ req' = [req EXCEPT ![q] = [@ EXCEPT !.at = "exchanged", !.saw = grants + 1]]
    /\ UNCHANGED <<clock, rl, ids, connection, cache, call, admitted, dropped>>

\* upsert reads the row and then inserts or overwrites it; the pair
\* (user, provider) is unique.  The cached access token is left alone.
ConnectSelects(q) ==
    /\ req[q].at = "exchanged"
    /\ Moves(q, IF connection[req[q].user] = None THEN "inserting" ELSE "updating")
    /\ UNCHANGED <<clock, rl, ids, links, cache, call, admitted, dropped>>

ConnectStores(q) ==
    /\ req[q].at \in {"inserting", "updating"}
    /\ LET u == req[q].user
       IN IF req[q].at = "inserting" /\ connection[u] # None
          THEN Refuse(q) /\ UNCHANGED <<connection, dropped>>
          ELSE /\ connection' = [connection EXCEPT ![u] =
                                    [grant |-> req[q].saw, revoked |-> FALSE]]
               /\ dropped' = [dropped EXCEPT ![u] = FALSE]
               /\ Serve(q)
    /\ UNCHANGED <<clock, rl, ids, alive, grants, cache, call, admitted>>

\* DisconnectIntegration: the row as it was read decides whether there is
\* anything to revoke; the cache is cleared in any case.
DisconnectReads(q) ==
    /\ req[q].at = "begun" /\ req[q].kind = "disconnect"
    /\ LET row == connection[req[q].user]
       IN IF row = None THEN Refuse(q)
          ELSE IF row.revoked THEN Moves(q, "clearing")
          ELSE req' = [req EXCEPT ![q] = [@ EXCEPT !.at = "revoking", !.saw = row.grant]]
    /\ UNCHANGED <<clock, rl, ids, links, cache, call, admitted, dropped>>

\* Best effort: a network failure is swallowed.
DisconnectRevokes(q) ==
    /\ req[q].at = "revoking"
    /\ \/ alive' = alive \ {req[q].saw}
       \/ "refused" \in Faults /\ UNCHANGED alive
    /\ Moves(q, "marking")
    /\ UNCHANGED <<clock, rl, ids, connection, grants, cache, call, admitted, dropped>>

\* mark_revoked: by user and provider, whatever refresh token is there by now.
Revoked(u) == [connection EXCEPT ![u] = IF @ = None THEN None ELSE [@ EXCEPT !.revoked = TRUE]]

DisconnectMarks(q) ==
    /\ req[q].at = "marking"
    /\ connection' = Revoked(req[q].user)
    /\ Moves(q, "clearing")
    /\ UNCHANGED <<clock, rl, ids, alive, grants, cache, call, admitted, dropped>>

Underway(c) == call[c].at \in {"read", "refreshed", "caching"}

DisconnectClears(q) ==
    /\ req[q].at = "clearing"
    /\ LET u == req[q].user
       IN /\ cache' = [cache EXCEPT ![u] = None]
          /\ dropped' = [dropped EXCEPT ![u] = connection[u].revoked]
          /\ call' = [c \in Calls |->
                        [call[c] EXCEPT !.late = @ \/ (Underway(c) /\ call[c].user = u)]]
    /\ Serve(q)
    /\ UNCHANGED <<clock, rl, ids, links, admitted>>

-----------------------------------------------------------------------------
(* GoogleAccessTokenProvider.get *)

Live(u) == cache[u] # None /\ clock < cache[u].until

\* With a token or without one.
Answered(c) == call' = [call EXCEPT ![c] = [NoCall EXCEPT !.at = "done"]]
Ends(c, what) == call' = [call EXCEPT ![c] = [@ EXCEPT !.at = what]]

GetLooks(c, u) ==
    /\ call[c].at = "idle"
    /\ \E row \in users : row.id = u
    /\ IF Live(u) THEN Answered(c)
       ELSE call' = [call EXCEPT ![c] = [@ EXCEPT !.user = u, !.at = "missed"]]
    /\ UNCHANGED <<clock, rl, ids, links, cache, req, admitted, dropped>>

\* Mutant: any row will do, a revoked one too.
ReadsRevokedToo(c) ==
    /\ call[c].at = "missed"
    /\ LET u == call[c].user
       IN IF connection[u] # None
          THEN call' = [call EXCEPT ![c] = [@ EXCEPT !.at = "read",
                            !.token = [grant |-> connection[u].grant, expires |-> 0]]]
          ELSE Answered(c)
    /\ UNCHANGED <<clock, rl, ids, links, cache, req, admitted, dropped>>

GetReads(c) ==
    /\ call[c].at = "missed"
    /\ LET u == call[c].user
       IN IF Connected(u)
          THEN call' = [call EXCEPT ![c] = [@ EXCEPT !.at = "read",
                            !.token = [grant |-> connection[u].grant, expires |-> 0]]]
          ELSE Answered(c)
    /\ UNCHANGED <<clock, rl, ids, links, cache, req, admitted, dropped>>

\* refresh: a token, with its lifetime or without one; invalid_grant; or
\* another failure.
GetRefreshes(c) ==
    /\ call[c].at = "read"
    /\ \/ /\ call[c].token.grant \in alive
          /\ call' = [call EXCEPT ![c] = [@ EXCEPT !.at = "refreshed",
                          !.token = [grant |-> call[c].token.grant, expires |-> clock + TokenLife]]]
       \/ call[c].token.grant \in alive /\ "bare" \in Faults /\ Answered(c)
       \/ call[c].token.grant \notin alive /\ Ends(c, "rejected")
       \/ "refused" \in Faults /\ Answered(c)
    /\ UNCHANGED <<clock, rl, ids, links, cache, req, admitted, dropped>>

\* Mutant: no margin.
TtlToTheEnd(token) == IF token.expires > clock THEN token.expires - clock ELSE 0

\* How long a token may stay in the cache: the margin less than it is good for.
Ttl(token) == IF token.expires > clock + Margin THEN token.expires - (clock + Margin) ELSE 0

GetReckons(c) ==
    /\ call[c].at = "refreshed"
    /\ LET ttl == Ttl(call[c].token)
       IN IF ttl > 0
          THEN call' = [call EXCEPT ![c] = [@ EXCEPT !.at = "caching", !.ttl = ttl]]
          ELSE Answered(c)
    /\ UNCHANGED <<clock, rl, ids, links, cache, req, admitted, dropped>>

GetCaches(c) ==
    /\ call[c].at = "caching"
    /\ cache' = [cache EXCEPT ![call[c].user] =
                    [token |-> call[c].token, until |-> clock + call[c].ttl, late |-> call[c].late]]
    /\ Answered(c)
    /\ UNCHANGED <<clock, rl, ids, links, req, admitted, dropped>>

GetRevokes(c) ==
    /\ call[c].at = "rejected"
    /\ connection' = Revoked(call[c].user)
    /\ Answered(c)
    /\ UNCHANGED <<clock, rl, ids, alive, grants, cache, req, admitted, dropped>>

-----------------------------------------------------------------------------

Login(q) == (\E sub \in Subs : LoginLooks(q, sub)) \/ LoginCreates(q) \/ LoginSetsZone(q) \/ LoginKnown(q)
Connect(q) == ConnectExchanges(q) \/ ConnectSelects(q) \/ ConnectStores(q)
Disconnect(q) == DisconnectReads(q) \/ DisconnectRevokes(q) \/ DisconnectMarks(q) \/ DisconnectClears(q)
Get(c) ==
    \/ \E u \in User : GetLooks(c, u)
    \/ GetReads(c) \/ GetRefreshes(c) \/ GetReckons(c) \/ GetCaches(c) \/ GetRevokes(c)

Next ==
    \/ Tick
    \/ \E g \in Grant : UserRevokes(g)
    \/ \E q \in Requests :
          \/ \E kind \in Kinds, s \in sessions \cup {None} : Arrives(q, kind, s)
          \/ Dies(q) \/ Login(q) \/ Me(q) \/ Lists(q) \/ Connect(q) \/ Disconnect(q)
    \/ \E c \in Calls : Get(c)

Spec == Init /\ [][Next]_vars

-----------------------------------------------------------------------------
(* Properties *)

RequestSteps ==
    {"idle", "begun", "unknown", "created", "found", "exchanged", "inserting", "updating",
     "revoking", "marking", "clearing", "done"}
CallSteps == {"idle", "missed", "read", "rejected", "refreshed", "caching", "done"}
RequestState ==
    [at : RequestSteps, kind : Kinds \cup {None}, user : User \cup {None},
     saw : Subs \cup Grant \cup {None}, answer : Replies \cup {None}]
CallState ==
    [at : CallSteps, user : User \cup {None}, token : Tokens \cup {None},
     ttl : 0 .. TokenLife, late : BOOLEAN]

\* The shape of the state.
TypeOK ==
    /\ clock \in Clock
    /\ rl \in [Caller -> [window : Clock, used : 0 .. Cardinality(Requests), until : Nat]]
    /\ admitted \in [Caller -> [window : Clock, count : Nat]]
    /\ users \subseteq [sub : Subs, id : User]
    /\ zones \subseteq User
    /\ sessions \subseteq Sessions
    /\ connection \in [User -> Connections \cup {None}]
    /\ alive \subseteq Grant /\ grants \in 0 .. MaxGrants
    /\ cache \in [User -> Entries \cup {None}]
    /\ dropped \in [User -> BOOLEAN]
    /\ req \in [Requests -> RequestState]
    /\ call \in [Calls -> CallState]

\* A token the cache still answers with has not expired at Google, however the
\* awaits between its issue and the write to the cache were spread out
\* (google_access_token.py:59, "Stop using a cached token a minute before
\* Google would reject it").
CachedTokenIsGood == \A u \in User : Live(u) => clock < cache[u].token.expires

\* Once a disconnect is over and nobody has connected again, the cache answers
\* no Google call of that user, save with a token of a call that had read the
\* connection before the disconnect cleared the cache
\* (disconnect_integration.py:40, google_access_token.py:63).
DisconnectedIsForgotten ==
    \A u \in User : dropped[u] /\ Live(u) => cache[u].late

SignIns(sub) == {q \in Requests : req[q].saw = sub /\ req[q].answer \in {"new_user", "signed_in"}}

\* Of all the logins of one Google account, interleaved or cut off as they may
\* be, all get the same user, at most one is told it is new, and the account
\* that was there is never new (login_with_google.py:39).
OneUserEach ==
    \A sub \in Subs : \A p, q \in SignIns(sub) :
        /\ req[p].user = req[q].user
        /\ req[p].answer = "new_user" /\ req[q].answer = "new_user" => p = q
        /\ req[p].user = Known <=> sub = KnownSub

\* In no window does a caller get more requests through than the limit, though
\* the counter lives in a cache that forgets (middleware.py:57).
BudgetHolds == \A c \in Caller : admitted[c].count <= Limit

-----------------------------------------------------------------------------
(* The inductive invariant *)

\* A Google account is one user, and the first one is the user that was there.
UsersFit ==
    /\ \A u, v \in users : u.sub = v.sub => u = v
    /\ \A u \in users : u.id = Known <=> u.sub = KnownSub
    /\ [sub |-> KnownSub, id |-> Known] \in users

SignedIn(q) == req[q].answer \in {"new_user", "signed_in"}

\* What a request carries across its awaits, step by step; a request that has its
\* answer is over.
RequestFits(q) ==
    LET r == req[q] IN
    /\ r.at = "done" <=> r.answer # None
    /\ r.at = "begun" /\ r.kind # "login" => r.user \in User
    /\ r.at \in {"unknown", "created"} => r.saw \in Subs /\ r.user = q
    /\ r.at \in {"found", "created"} \/ SignedIn(q) => [sub |-> r.saw, id |-> r.user] \in users
    /\ r.answer = "new_user" => r.user = q
    /\ r.at \in {"exchanged", "inserting", "updating"} => r.user \in User /\ r.saw \in Grant
    /\ r.at \in {"revoking", "marking", "clearing"} =>
          r.user \in User /\ connection[r.user] # None

\* What a Google call carries across its awaits: no longer than Lag a token that
\* was good for TokenLife when it came, and then a time to live that leaves a
\* margin of it.
CallFits(c) ==
    /\ call[c].at \in {"missed", "read", "rejected", "refreshed", "caching"} =>
          call[c].user \in User
    /\ Underway(c) => call[c].token \in Tokens
    /\ Held(c) =>
          /\ call[c].token.expires <= clock + TokenLife
          /\ clock + TokenLife <= call[c].token.expires + Lag
    /\ call[c].at = "caching" => call[c].ttl + Margin <= TokenLife

\* What is cached is dropped before it expires; what is still cached of a user who
\* has disconnected, or on its way to the cache, had been read before.
CacheFits(u) ==
    /\ cache[u] # None => cache[u].until <= cache[u].token.expires
    /\ dropped[u] =>
          /\ connection[u] # None /\ connection[u].revoked
          /\ cache[u] # None => cache[u].late
          /\ \A c \in Calls : Underway(c) /\ call[c].user = u => call[c].late

\* The counter has counted at least what was let through in its window, and lives
\* as long as the window does; it counts no more than the requests there were.
Begun == {q \in Requests : req[q].at # "idle"}
CounterFits(c) ==
    /\ rl[c].used <= Cardinality(Begun)
    /\ Window * rl[c].window <= clock
    /\ rl[c].used > 0 => Window * (rl[c].window + 1) <= rl[c].until
    /\ admitted[c].count > 0 =>
          /\ admitted[c].window <= rl[c].window
          /\ admitted[c].window = rl[c].window => admitted[c].count <= rl[c].used

\* What the theorems of AccountsProofs rest on: the state is well formed, and
\* accounts, requests, Google calls, the cache and the counters fit each other.
AccountsInv ==
    /\ TypeOK
    /\ UsersFit
    /\ \A q \in Requests : RequestFits(q)
    /\ \A c \in Calls : CallFits(c)
    /\ \A u \in User : CacheFits(u)
    /\ \A c \in Caller : CounterFits(c)
    /\ OneUserEach
    /\ BudgetHolds
=============================================================================
