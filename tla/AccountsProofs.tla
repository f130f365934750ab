--------------------------- MODULE AccountsProofs ---------------------------
(***************************************************************************)
(* Theorems about Accounts, for any number of requests, Google calls and   *)
(* Google accounts, every limit, lifetime and margin that LifeAssumption   *)
(* allows, and every set of faults.                                        *)
(***************************************************************************)
EXTENDS Accounts, TLAPS, FiniteSetTheorems

\* A request once it is let in, and the two steps of the outside world.
Proceeds(q) == Dies(q) \/ Login(q) \/ Me(q) \/ Lists(q) \/ Connect(q) \/ Disconnect(q)
Admits(q) == \E kind \in Kinds, s \in sessions \cup {None} : Arrives(q, kind, s)
Outside == Tick \/ \E g \in Grant : UserRevokes(g)

\* What Next is made of, actor by actor.
LEMMA NextCases ==
  ASSUME [Next]_vars
  PROVE  \/ \E q \in Requests : Admits(q)
         \/ \E q \in Requests : Proceeds(q)
         \/ \E c \in Calls : Get(c)
         \/ Outside
         \/ UNCHANGED vars
  BY DEF Next, Admits, Proceeds, Outside

\* The limiter's windows: what a quotient is.
LEMMA Quotient ==
  ASSUME NEW n \in Nat, NEW d \in Nat \ {0}
  PROVE  n \div d \in Nat /\ d * (n \div d) <= n /\ n < d * ((n \div d) + 1)
  BY SMT

\* A window that has begun is not after the one the clock is in.
LEMMA WindowsInOrder ==
  ASSUME NEW n \in Nat, NEW d \in Nat \ {0}, NEW k \in Nat, d * k <= n
  PROVE  k <= n \div d
<1>1. n \div d \in Nat /\ d * k < d * ((n \div d) + 1)
  BY Quotient
<1>2. \A w \in Nat : d * k < d * (w + 1) => k <= w
  BY SMT
<1>3. QED
  BY <1>1, <1>2

\* A window's number does not pass the clock.
LEMMA WindowBound ==
  ASSUME NEW n \in Nat, NEW d \in Nat \ {0}
  PROVE  n \div d <= n
<1>1. \A k \in Nat : k <= d * k
  BY SMT
<1>2. QED
  BY <1>1, Quotient

\* One more request has begun than before, and no more than there are.
LEMMA OneMore ==
  ASSUME NEW q \in Requests, req[q].at = "idle"
  PROVE  /\ Cardinality(Begun) \in Nat /\ Cardinality(Begun) < Cardinality(Requests)
         /\ Cardinality(Begun \cup {q}) = Cardinality(Begun) + 1
<1>1. Begun \subseteq Requests /\ q \notin Begun /\ IsFiniteSet(Requests)
  BY LifeAssumption DEF Begun
<1>2. IsFiniteSet(Begun) /\ Cardinality(Begun) \in Nat
  BY <1>1, FS_Subset, FS_CardinalityType
<1>3. Cardinality(Begun \cup {q}) = Cardinality(Begun) + 1
  BY <1>1, <1>2, FS_AddElement
<1>4. Cardinality(Begun \cup {q}) <= Cardinality(Requests)
  BY <1>1, FS_Subset
<1>5. QED
  BY <1>1, <1>2, <1>3, <1>4, FS_CardinalityType

\* The fields of requests and calls, and of what they carry.
LEMMA Fields ==
  ASSUME TypeOK
  PROVE  /\ \A q \in Requests :
               /\ req[q].at \in RequestSteps /\ req[q].kind \in Kinds \cup {None}
               /\ req[q].user \in User \cup {None} /\ req[q].saw \in Subs \cup Grant \cup {None}
               /\ req[q].answer \in Replies \cup {None}
         /\ \A c \in Calls :
               /\ call[c].at \in CallSteps /\ call[c].user \in User \cup {None}
               /\ call[c].token \in Tokens \cup {None} /\ call[c].ttl \in 0..TokenLife
               /\ call[c].late \in BOOLEAN
         /\ \A u \in User :
               /\ connection[u] # None =>
                     connection[u].grant \in Grant /\ connection[u].revoked \in BOOLEAN
               /\ cache[u] # None =>
                     /\ cache[u].token \in Tokens /\ cache[u].until \in Nat
                     /\ cache[u].late \in BOOLEAN
         /\ \A u \in users :
               u.sub \in Subs /\ u.id \in User /\ u = [sub |-> u.sub, id |-> u.id]
<1>1. \A q \in Requests : req[q] \in RequestState
  BY DEF TypeOK
<1>2. \A c \in Calls : call[c] \in CallState
  BY DEF TypeOK
<1>3. \A u \in User : /\ connection[u] # None => connection[u] \in Connections
                      /\ cache[u] # None => cache[u] \in Entries
  BY DEF TypeOK
<1>4. \A x \in Connections : x.grant \in Grant /\ x.revoked \in BOOLEAN
  BY DEF Connections
<1>5. \A x \in Entries : x.token \in Tokens /\ x.until \in Nat /\ x.late \in BOOLEAN
  BY DEF Entries
<1>6. \A u \in users : u \in [sub : Subs, id : User]
  BY DEF TypeOK
<1>7. \A u \in [sub : Subs, id : User] :
         u.sub \in Subs /\ u.id \in User /\ u = [sub |-> u.sub, id |-> u.id]
  OBVIOUS
<1>8. \A q \in Requests :
         /\ req[q].at \in RequestSteps /\ req[q].kind \in Kinds \cup {None}
         /\ req[q].user \in User \cup {None} /\ req[q].saw \in Subs \cup Grant \cup {None}
         /\ req[q].answer \in Replies \cup {None}
  BY <1>1 DEF RequestState
<1>9. \A c \in Calls :
         /\ call[c].at \in CallSteps /\ call[c].user \in User \cup {None}
         /\ call[c].token \in Tokens \cup {None} /\ call[c].ttl \in 0..TokenLife
         /\ call[c].late \in BOOLEAN
  BY <1>2 DEF CallState
<1>10. QED
  BY <1>3, <1>4, <1>5, <1>6, <1>7, <1>8, <1>9

\* A request that moves on, one that begins, and one that ends.
LEMMA RequestField ==
  ASSUME NEW r \in RequestState
  PROVE  /\ \A at \in RequestSteps : [r EXCEPT !.at = at] \in RequestState
         /\ \A kind \in Kinds : [r EXCEPT !.kind = kind] \in RequestState
         /\ \A user \in User \cup {None} : [r EXCEPT !.user = user] \in RequestState
         /\ \A saw \in Subs \cup Grant : [r EXCEPT !.saw = saw] \in RequestState
         /\ \A answer \in Replies : [r EXCEPT !.answer = answer] \in RequestState
  BY DEF RequestState

LEMMA RequestMoves ==
  ASSUME NEW r \in RequestState, NEW at \in RequestSteps
  PROVE  /\ \A saw \in Subs \cup Grant :
               /\ [r EXCEPT !.at = at, !.saw = saw] \in RequestState
               /\ \A user \in User \cup {None} :
                     [r EXCEPT !.at = at, !.saw = saw, !.user = user] \in RequestState
         /\ \A answer \in Replies : [r EXCEPT !.at = at, !.answer = answer] \in RequestState
         /\ \A kind \in Kinds, user \in User \cup {None} :
               [r EXCEPT !.at = at, !.kind = kind, !.user = user] \in RequestState
<1> DEFINE moved == [r EXCEPT !.at = at]
<1>1. moved \in RequestState
  BY RequestField
<1>2. ASSUME NEW saw \in Subs \cup Grant
      PROVE  /\ [r EXCEPT !.at = at, !.saw = saw] \in RequestState
             /\ \A user \in User \cup {None} :
                   [r EXCEPT !.at = at, !.saw = saw, !.user = user] \in RequestState
  <2> DEFINE looked == [moved EXCEPT !.saw = saw]
  <2>1. looked \in RequestState
    BY ONLY <1>1, RequestField, saw \in Subs \cup Grant
  <2>2. \A user \in User \cup {None} : [looked EXCEPT !.user = user] \in RequestState
    BY ONLY <2>1, RequestField
  <2>3. [r EXCEPT !.at = at, !.saw = saw] = looked
    OBVIOUS
  <2>4. \A user : [r EXCEPT !.at = at, !.saw = saw, !.user = user] = [looked EXCEPT !.user = user]
    OBVIOUS
  <2>5. QED
    BY <2>1, <2>2, <2>3, <2>4
<1>3. ASSUME NEW answer \in Replies PROVE [r EXCEPT !.at = at, !.answer = answer] \in RequestState
  <2>1. [moved EXCEPT !.answer = answer] \in RequestState
    BY ONLY <1>1, RequestField, answer \in Replies
  <2>2. [r EXCEPT !.at = at, !.answer = answer] = [moved EXCEPT !.answer = answer]
    OBVIOUS
  <2>3. QED
    BY <2>1, <2>2
<1>4. ASSUME NEW kind \in Kinds, NEW user \in User \cup {None}
      PROVE  [r EXCEPT !.at = at, !.kind = kind, !.user = user] \in RequestState
  <2> DEFINE begun == [moved EXCEPT !.kind = kind]
  <2>1. begun \in RequestState
    BY ONLY <1>1, RequestField, kind \in Kinds
  <2>2. [begun EXCEPT !.user = user] \in RequestState
    BY ONLY <2>1, RequestField, user \in User \cup {None}
  <2>3. [r EXCEPT !.at = at, !.kind = kind, !.user = user] = [begun EXCEPT !.user = user]
    OBVIOUS
  <2>4. QED
    BY <2>2, <2>3
<1>5. QED
  BY <1>2, <1>3, <1>4

LEMMA NoRequestShape == NoRequest \in RequestState
  BY DEF RequestState, NoRequest, RequestSteps

\* A call that takes a step, gets a token, or ends.
LEMMA CallField ==
  ASSUME NEW x \in CallState
  PROVE  /\ \A at \in CallSteps : [x EXCEPT !.at = at] \in CallState
         /\ \A user \in User : [x EXCEPT !.user = user] \in CallState
         /\ \A token \in Tokens : [x EXCEPT !.token = token] \in CallState
         /\ \A ttl \in 0..TokenLife : [x EXCEPT !.ttl = ttl] \in CallState
         /\ \A late \in BOOLEAN : [x EXCEPT !.late = late] \in CallState
  BY DEF CallState

LEMMA CallMoves ==
  ASSUME NEW x \in CallState, NEW at \in CallSteps
  PROVE  /\ \A user \in User : [x EXCEPT !.user = user, !.at = at] \in CallState
         /\ \A token \in Tokens : [x EXCEPT !.at = at, !.token = token] \in CallState
         /\ \A ttl \in 0..TokenLife : [x EXCEPT !.at = at, !.ttl = ttl] \in CallState
<1> DEFINE moved == [x EXCEPT !.at = at]
<1>1. moved \in CallState
  BY CallField
<1>2. ASSUME NEW user \in User PROVE [x EXCEPT !.user = user, !.at = at] \in CallState
  <2> DEFINE named == [x EXCEPT !.user = user]
  <2>1. named \in CallState
    BY CallField
  <2>2. [named EXCEPT !.at = at] \in CallState
    BY ONLY <2>1, CallField, at \in CallSteps
  <2>3. [x EXCEPT !.user = user, !.at = at] = [named EXCEPT !.at = at]
    OBVIOUS
  <2>4. QED
    BY <2>2, <2>3
<1>3. ASSUME NEW token \in Tokens PROVE [x EXCEPT !.at = at, !.token = token] \in CallState
  <2>1. [moved EXCEPT !.token = token] \in CallState
    BY ONLY <1>1, CallField, token \in Tokens
  <2>2. [x EXCEPT !.at = at, !.token = token] = [moved EXCEPT !.token = token]
    OBVIOUS
  <2>3. QED
    BY <2>1, <2>2
<1>4. ASSUME NEW ttl \in 0..TokenLife PROVE [x EXCEPT !.at = at, !.ttl = ttl] \in CallState
  <2>1. [moved EXCEPT !.ttl = ttl] \in CallState
    BY ONLY <1>1, CallField, ttl \in 0..TokenLife
  <2>2. [x EXCEPT !.at = at, !.ttl = ttl] = [moved EXCEPT !.ttl = ttl]
    OBVIOUS
  <2>3. QED
    BY <2>1, <2>2
<1>5. QED
  BY <1>2, <1>3, <1>4

LEMMA CallEnds ==
  /\ NoCall \in CallState
  /\ [NoCall EXCEPT !.at = "done"] \in CallState
  /\ [NoCall EXCEPT !.at = "done"].at = "done"
<1>1. 0 \in 0..TokenLife
  BY LifeAssumption
<1>2. QED
  BY <1>1 DEF CallState, NoCall, CallSteps

\* Connections, tokens and cached entries.
LEMMA ConnectionShapes ==
  /\ \A g \in Grant : [grant |-> g, revoked |-> FALSE] \in Connections
  /\ \A x \in Connections :
        /\ x.grant \in Grant /\ x.revoked \in BOOLEAN
        /\ [x EXCEPT !.revoked = TRUE] \in Connections
        /\ [x EXCEPT !.revoked = TRUE].revoked
<1>1. \A x \in Connections, b \in BOOLEAN :
         [x EXCEPT !.revoked = b] \in Connections /\ [x EXCEPT !.revoked = b].revoked = b
  BY DEF Connections
<1>2. \A x \in Connections :
         [x EXCEPT !.revoked = TRUE] \in Connections /\ [x EXCEPT !.revoked = TRUE].revoked
  BY <1>1, Zenon
<1>3. QED
  BY <1>2 DEF Connections

LEMMA TokenShapes ==
  /\ \A g \in Grant, n \in Nat : [grant |-> g, expires |-> n] \in Tokens
  /\ \A x \in Tokens :
        /\ x.grant \in Grant /\ x.expires \in Nat
        /\ \A n \in Nat : [x EXCEPT !.expires = n] = [grant |-> x.grant, expires |-> n]
  BY DEF Tokens

LEMMA EntryShapes ==
  /\ \A t \in Tokens, n \in Nat, late \in BOOLEAN :
        [token |-> t, until |-> n, late |-> late] \in Entries
  /\ \A x \in Entries : x.token \in Tokens /\ x.until \in Nat /\ x.late \in BOOLEAN
  BY DEF Entries

-----------------------------------------------------------------------------
\* What becomes of request q: where it is, what it carries, what it is told.
Becomes(q, at, user, saw, answer) ==
    /\ req' \in [Requests -> RequestState]
    /\ \A p \in Requests : p # q => req'[p] = req[p]
    /\ req'[q].at = at /\ req'[q].user = user /\ req'[q].saw = saw /\ req'[q].answer = answer

\* The four ways a request is answered or moves on.
LEMMA RequestEffects ==
  ASSUME TypeOK, NEW q \in Requests
  PROVE  /\ Refuse(q) => Becomes(q, "done", None, None, "refused")
         /\ Serve(q) => Becomes(q, "done", None, None, "served")
         /\ \A as \in {"new_user", "signed_in"} :
               SignIn(q, as) => Becomes(q, "done", req[q].user, req[q].saw, as)
         /\ \A at \in RequestSteps :
               Moves(q, at) => Becomes(q, at, req[q].user, req[q].saw, req[q].answer)
<1> PICK r \in RequestState : r = req[q]
  BY DEF TypeOK
<1>t. req \in [Requests -> RequestState]
  BY DEF TypeOK
<1>1. ASSUME NEW answer \in {"refused", "served"},
             req' = [req EXCEPT ![q] = [NoRequest EXCEPT !.at = "done", !.answer = answer]]
      PROVE  Becomes(q, "done", None, None, answer)
  <2> DEFINE x == [NoRequest EXCEPT !.at = "done", !.answer = answer]
  <2>1. x \in RequestState
    BY NoRequestShape, RequestMoves DEF RequestSteps, Replies
  <2>2. x.at = "done" /\ x.user = None /\ x.saw = None /\ x.answer = answer
    BY DEF NoRequest
  <2>3. QED
    BY <1>1, <1>t, <2>1, <2>2 DEF Becomes
<1>2. ASSUME NEW as \in {"new_user", "signed_in"}, SignIn(q, as)
      PROVE  Becomes(q, "done", req[q].user, req[q].saw, as)
  <2> DEFINE x == [r EXCEPT !.at = "done", !.answer = as]
  <2>1. x \in RequestState
    BY RequestMoves DEF RequestSteps, Replies
  <2>2. x.at = "done" /\ x.user = r.user /\ x.saw = r.saw /\ x.answer = as
    BY DEF RequestState
  <2>3. req' = [req EXCEPT ![q] = x]
    BY <1>2, <1>t DEF SignIn
  <2>4. QED
    BY <1>t, <2>1, <2>2, <2>3 DEF Becomes
<1>3. ASSUME NEW at \in RequestSteps, Moves(q, at)
      PROVE  Becomes(q, at, req[q].user, req[q].saw, req[q].answer)
  <2> DEFINE x == [r EXCEPT !.at = at]
  <2>1. x \in RequestState
    BY RequestField
  <2>2. x.at = at /\ x.user = r.user /\ x.saw = r.saw /\ x.answer = r.answer
    BY DEF RequestState
  <2>3. req' = [req EXCEPT ![q] = x]
    BY <1>3, <1>t DEF Moves
  <2>4. QED
    BY <1>t, <2>1, <2>2, <2>3 DEF Becomes
<1>4. QED
  BY <1>1, <1>2, <1>3 DEF Refuse, Serve

\* The two ways it learns something.
LEMMA RequestLearns ==
  ASSUME TypeOK, NEW q \in Requests, NEW at \in RequestSteps, NEW saw \in Subs \cup Grant
  PROVE  /\ req' = [req EXCEPT ![q] = [@ EXCEPT !.at = at, !.saw = saw]]
               => Becomes(q, at, req[q].user, saw, req[q].answer)
         /\ \A user \in User :
               req' = [req EXCEPT ![q] = [@ EXCEPT !.at = at, !.saw = saw, !.user = user]]
                  => Becomes(q, at, user, saw, req[q].answer)
<1> PICK r \in RequestState : r = req[q]
  BY DEF TypeOK
<1>t. req \in [Requests -> RequestState]
  BY DEF TypeOK
<1>1. ASSUME req' = [req EXCEPT ![q] = [@ EXCEPT !.at = at, !.saw = saw]]
      PROVE  Becomes(q, at, req[q].user, saw, req[q].answer)
  <2> DEFINE x == [r EXCEPT !.at = at, !.saw = saw]
  <2>1. x \in RequestState
    BY RequestMoves
  <2>2. x.at = at /\ x.user = r.user /\ x.saw = saw /\ x.answer = r.answer
    BY DEF RequestState
  <2>3. req' = [req EXCEPT ![q] = x]
    BY <1>1, <1>t
  <2>4. QED
    BY <1>t, <2>1, <2>2, <2>3 DEF Becomes
<1>2. ASSUME NEW user \in User,
             req' = [req EXCEPT ![q] = [@ EXCEPT !.at = at, !.saw = saw, !.user = user]]
      PROVE  Becomes(q, at, user, saw, req[q].answer)
  <2> DEFINE x == [r EXCEPT !.at = at, !.saw = saw, !.user = user]
  <2>1. x \in RequestState
    BY RequestMoves
  <2>2. x.at = at /\ x.user = user /\ x.saw = saw /\ x.answer = r.answer
    BY DEF RequestState
  <2>3. req' = [req EXCEPT ![q] = x]
    BY <1>2, <1>t
  <2>4. QED
    BY <1>t, <2>1, <2>2, <2>3 DEF Becomes
<1>3. QED
  BY <1>1, <1>2

\* Marking a connection revoked makes none and loses none.
LEMMA MarkedRevoked ==
  ASSUME TypeOK, NEW u \in User
  PROVE  /\ Revoked(u) \in [User -> Connections \cup {None}]
         /\ \A v \in User : Revoked(u)[v] = None <=> connection[v] = None
         /\ \A v \in User : v # u => Revoked(u)[v] = connection[v]
         /\ connection[u] # None => Revoked(u)[u].revoked
<1>1. CASE connection[u] = None
  BY <1>1 DEF TypeOK, Revoked
<1>2. CASE connection[u] # None
  <2>1. PICK x \in Connections : x = connection[u]
    BY <1>2 DEF TypeOK
  <2>2. PICK y \in Connections : y = [x EXCEPT !.revoked = TRUE] /\ y.revoked
    BY ConnectionShapes
  <2>3. Revoked(u) = [connection EXCEPT ![u] = y]
    BY <1>2, <2>1, <2>2 DEF TypeOK, Revoked
  <2>4. QED
    BY <1>2, <2>2, <2>3, LifeAssumption DEF TypeOK
<1>3. QED
  BY <1>1, <1>2

\* What the steps of a request do, in those terms.  Signing in: it is refused; it
\* finds the user of the Google account, or finds none; it creates one; it is over.
LEMMA LoginEffect ==
  ASSUME TypeOK, NEW q \in Requests, Login(q)
  PROVE  /\ UNCHANGED <<clock, rl, links, cache, call, admitted, dropped>>
         /\ \/ /\ Becomes(q, "done", None, None, "refused")
               /\ req[q].at \in {"begun", "unknown"} /\ UNCHANGED ids
            \/ /\ req[q].at = "begun" /\ UNCHANGED ids
               /\ \E sub \in Subs :
                     \/ Becomes(q, "unknown", q, sub, req[q].answer)
                     \/ \E u \in users : u.sub = sub /\ Becomes(q, "found", u.id, sub, req[q].answer)
            \/ /\ req[q].at = "unknown" /\ UNCHANGED <<zones, sessions>>
               /\ ~SubTaken(req[q].saw)
               /\ users' = users \cup {[sub |-> req[q].saw, id |-> q]}
               /\ Becomes(q, "created", req[q].user, req[q].saw, req[q].answer)
            \/ /\ req[q].at = "created" /\ users' = users /\ zones' = zones \cup {q}
               /\ sessions' = sessions \cup {[user |-> q, exp |-> clock + SessionLife]}
               /\ Becomes(q, "done", req[q].user, req[q].saw, "new_user")
            \/ /\ req[q].at = "found" /\ UNCHANGED <<users, zones>>
               /\ sessions' = sessions \cup {[user |-> req[q].user, exp |-> clock + SessionLife]}
               /\ Becomes(q, "done", req[q].user, req[q].saw, "signed_in")
<1>s. \A at \in {"unknown", "found", "created"} : at \in RequestSteps
  BY DEF RequestSteps
<1>1. ASSUME NEW sub \in Subs, LoginLooks(q, sub), ~Refuse(q)
      PROVE  \/ Becomes(q, "unknown", q, sub, req[q].answer)
             \/ \E u \in users : u.sub = sub /\ Becomes(q, "found", u.id, sub, req[q].answer)
  <2> DEFINE found == {u \in users : u.sub = sub}
             first == CHOOSE u \in found : TRUE
  <2>1. CASE found = {}
    <3>1. req' = [req EXCEPT ![q] = [@ EXCEPT !.at = "unknown", !.saw = sub, !.user = q]]
      BY <1>1, <2>1 DEF LoginLooks
    <3>2. QED
      BY <1>s, <3>1, RequestLearns DEF User
  <2>2. CASE found # {}
    <3>1. PICK u \in users : u = first /\ u.sub = sub
      BY <2>2
    <3>2. req' = [req EXCEPT ![q] = [@ EXCEPT !.at = "found", !.saw = sub, !.user = u.id]]
      BY <1>1, <2>2, <3>1 DEF LoginLooks
    <3>3. QED
      BY <1>s, <3>1, <3>2, RequestLearns, Fields
  <2>3. QED
    BY <2>1, <2>2
<1>2. CASE \E sub \in Subs : LoginLooks(q, sub)
  BY <1>1, <1>2, RequestEffects DEF LoginLooks, links
<1>3. CASE LoginCreates(q)
  BY <1>s, <1>3, RequestEffects DEF LoginCreates, ids
<1>4. CASE LoginSetsZone(q)
  BY <1>4, RequestEffects DEF LoginSetsZone
<1>5. CASE LoginKnown(q)
  BY <1>5, RequestEffects DEF LoginKnown
<1>6. QED
  BY <1>2, <1>3, <1>4, <1>5 DEF Login

\* Connecting: it is refused, with or without a grant in hand; it gets a grant; it
\* looks for the row; it stores the grant.
LEMMA ConnectEffect ==
  ASSUME TypeOK, NEW q \in Requests, Connect(q)
  PROVE  /\ UNCHANGED <<clock, rl, ids, cache, call, admitted>>
         /\ \/ /\ Becomes(q, "done", None, None, "refused")
               /\ req[q].at \in {"begun", "inserting"} /\ UNCHANGED <<links, dropped>>
            \/ /\ req[q].at = "begun" /\ req[q].kind = "connect"
               /\ UNCHANGED <<connection, dropped>>
               /\ grants < MaxGrants /\ grants' = grants + 1 /\ alive' = alive \cup {grants + 1}
               /\ Becomes(q, "exchanged", req[q].user, grants + 1, req[q].answer)
            \/ /\ req[q].at = "exchanged" /\ UNCHANGED <<links, dropped>>
               /\ \E at \in {"inserting", "updating"} :
                     Becomes(q, at, req[q].user, req[q].saw, req[q].answer)
            \/ /\ req[q].at \in {"inserting", "updating"} /\ UNCHANGED <<alive, grants>>
               /\ connection' = [connection EXCEPT ![req[q].user] =
                                    [grant |-> req[q].saw, revoked |-> FALSE]]
               /\ dropped' = [dropped EXCEPT ![req[q].user] = FALSE]
               /\ Becomes(q, "done", None, None, "served")
<1>s. \A at \in {"exchanged", "inserting", "updating"} : at \in RequestSteps
  BY DEF RequestSteps
<1>1. CASE ConnectExchanges(q)
  <2>1. grants < MaxGrants => grants + 1 \in Grant
    BY LifeAssumption DEF TypeOK, Grant
  <2>2. QED
    BY <1>s, <1>1, <2>1, RequestEffects, RequestLearns DEF ConnectExchanges, links
<1>2. CASE ConnectSelects(q)
  BY <1>s, <1>2, RequestEffects DEF ConnectSelects
<1>3. CASE ConnectStores(q)
  BY <1>3, RequestEffects DEF ConnectStores, links
<1>4. QED
  BY <1>1, <1>2, <1>3 DEF Connect

\* Disconnecting: there is no row; there is one to revoke, or one revoked before;
\* it is revoked at Google, if Google can be reached; it is marked; it is forgotten.
LEMMA DisconnectEffect ==
  ASSUME TypeOK, NEW q \in Requests, RequestFits(q), Disconnect(q)
  PROVE  /\ UNCHANGED <<clock, rl, ids, grants, admitted>>
         /\ \/ /\ req[q].at = "begun" /\ req[q].kind = "disconnect"
               /\ UNCHANGED <<links, cache, call, dropped>>
               /\ \/ Becomes(q, "done", None, None, "refused")
                  \/ /\ connection[req[q].user] # None
                     /\ \E at \in {"clearing", "revoking"} : \E saw :
                           Becomes(q, at, req[q].user, saw, req[q].answer)
            \/ /\ req[q].at = "revoking" /\ alive' \subseteq alive
               /\ UNCHANGED <<connection, cache, call, dropped>>
               /\ Becomes(q, "marking", req[q].user, req[q].saw, req[q].answer)
            \/ /\ req[q].at = "marking" /\ connection' = Revoked(req[q].user)
               /\ UNCHANGED <<alive, cache, call, dropped>>
               /\ Becomes(q, "clearing", req[q].user, req[q].saw, req[q].answer)
            \/ /\ DisconnectClears(q)
               /\ Becomes(q, "done", None, None, "served")
<1>s. \A at \in {"clearing", "revoking", "marking"} : at \in RequestSteps
  BY DEF RequestSteps
<1>1. CASE DisconnectReads(q)
  <2>1. CASE connection[req[q].user] = None
    BY <1>1, <2>1, RequestEffects DEF DisconnectReads, links
  <2>2. CASE connection[req[q].user] # None /\ connection[req[q].user].revoked
    BY <1>s, <1>1, <2>2, RequestEffects DEF DisconnectReads, links
  <2>3. CASE connection[req[q].user] # None /\ ~connection[req[q].user].revoked
    <3>1. PICK g \in Grant : g = connection[req[q].user].grant
      BY <1>1, <2>3, Fields DEF DisconnectReads, RequestFits
    <3>2. QED
      BY <1>s, <1>1, <2>3, <3>1, RequestLearns DEF DisconnectReads, links
  <2>4. QED
    BY <2>1, <2>2, <2>3
<1>2. CASE DisconnectRevokes(q)
  BY <1>s, <1>2, RequestEffects DEF DisconnectRevokes
<1>3. CASE DisconnectMarks(q)
  BY <1>s, <1>3, RequestEffects DEF DisconnectMarks
<1>4. CASE DisconnectClears(q)
  BY <1>4, RequestEffects DEF DisconnectClears, links
<1>5. QED
  BY <1>1, <1>2, <1>3, <1>4 DEF Disconnect

\* The rest only answers.
LEMMA AnswerEffect ==
  ASSUME TypeOK, NEW q \in Requests, Dies(q) \/ Me(q) \/ Lists(q)
  PROVE  /\ UNCHANGED <<clock, rl, ids, links, cache, call, admitted, dropped>>
         /\ req[q].at \notin {"idle", "done"}
         /\ \E answer \in {"refused", "served"} : Becomes(q, "done", None, None, answer)
  BY RequestEffects DEF Dies, Me, Lists

\* A step of a request that was let in: what it may be, and what it leaves alone.
LEMMA ProceedsFrame ==
  ASSUME TypeOK, NEW q \in Requests, RequestFits(q), Proceeds(q)
  PROVE  /\ UNCHANGED <<clock, rl, admitted>>
         /\ users \subseteq users'
         /\ \A u \in User : connection[u] # None => connection'[u] # None
         /\ req[q].at \notin {"idle", "done"} /\ req'[q].at # "idle"
         /\ req' \in [Requests -> RequestState]
         /\ \A p \in Requests : p # q => req'[p] = req[p]
<1>1. CASE Login(q)
  BY <1>1, LoginEffect DEF Becomes, ids, links
<1>2. CASE Connect(q)
  <2>1. \A g \in Grant : [grant |-> g, revoked |-> FALSE] # None
    BY ConnectionShapes, LifeAssumption
  <2>2. \A u \in User : connection[u] # None => connection'[u] # None
    BY <1>2, <2>1, ConnectEffect DEF TypeOK, links, RequestFits
  <2>3. QED
    BY <1>2, <2>2, ConnectEffect DEF Becomes, ids, links
<1>3. CASE Disconnect(q)
  <2>1. \A u \in User : connection[u] # None => connection'[u] # None
    <3>1. CASE req[q].at = "marking"
      <4>1. connection' = Revoked(req[q].user) /\ req[q].user \in User
        BY <1>3, <3>1, DisconnectEffect DEF DisconnectClears, RequestFits
      <4>2. QED
        BY <4>1, MarkedRevoked
    <3>2. CASE req[q].at # "marking"
      BY <1>3, <3>2, DisconnectEffect DEF links, DisconnectClears
    <3>3. QED
      BY <3>1, <3>2
  <2>2. QED
    BY <1>3, <2>1, DisconnectEffect DEF Becomes, ids, links, DisconnectClears
<1>4. CASE Dies(q) \/ Me(q) \/ Lists(q)
  BY <1>4, AnswerEffect DEF Becomes, ids, links
<1>5. QED
  BY <1>1, <1>2, <1>3, <1>4 DEF Proceeds

\* The limiter counts, and lets a request through or not; one that is let through
\* and needs a session has one.
LEMMA AdmitsEffect ==
  ASSUME TypeOK, NEW q \in Requests, Admits(q)
  PROVE  /\ UNCHANGED <<clock, ids, links, cache, call, dropped>>
         /\ req[q].at = "idle"
         /\ \E c \in Caller :
               /\ rl' = [rl EXCEPT ![c] = Incremented(rl[c], clock \div Window)]
               /\ \/ /\ ~(Incremented(rl[c], clock \div Window).used <= Limit)
                     /\ admitted' = admitted
                     /\ Becomes(q, "done", None, None, "refused")
                  \/ /\ Incremented(rl[c], clock \div Window).used <= Limit
                     /\ admitted' = [admitted EXCEPT ![c] = Counted(c, clock \div Window)]
                     /\ \/ Becomes(q, "done", None, None, "refused")
                        \/ \E user \in User \cup {None} :
                              /\ Becomes(q, "begun", user, None, None)
                              /\ req'[q].kind # "login" => user \in User
<1>1. PICK kind \in Kinds, s \in sessions \cup {None} : Arrives(q, kind, s)
  BY DEF Admits
<1>2. Verified(s) \in User \cup {None}
  BY DEF TypeOK, Sessions, Verified
<1>3. _caller(s) \in Caller
  BY <1>2 DEF _caller, Caller
<1>4. ASSUME req' = [req EXCEPT ![q] = [NoRequest EXCEPT
                        !.at = "begun", !.kind = kind, !.user = Verified(s)]]
      PROVE  Becomes(q, "begun", Verified(s), None, None) /\ req'[q].kind = kind
  <2> DEFINE x == [NoRequest EXCEPT !.at = "begun", !.kind = kind, !.user = Verified(s)]
  <2>1. x \in RequestState
    BY <1>2, NoRequestShape, RequestMoves DEF RequestSteps
  <2>2. /\ x.at = "begun" /\ x.user = Verified(s) /\ x.saw = None /\ x.answer = None
        /\ x.kind = kind
    BY DEF NoRequest
  <2>3. QED
    BY <1>4, <2>1, <2>2 DEF Becomes, TypeOK
<1>5. PICK c \in Caller : c = _caller(s)
  BY <1>3
<1> DEFINE window == clock \div Window
           entry == Incremented(rl[c], window)
<1>6. rl[c] \in [window : Clock, used : 0..Cardinality(Requests), until : Nat]
  BY <1>3 DEF TypeOK
<1>7. entry.used \in Int /\ Limit \in Int
  BY <1>6, FS_CardinalityType, LifeAssumption DEF Incremented
<1>8. /\ UNCHANGED <<clock, ids, links, cache, call, dropped>>
      /\ req[q].at = "idle" /\ rl' = [rl EXCEPT ![c] = entry]
      /\ entry.used > Limit => Refuse(q) /\ admitted' = admitted
      /\ ~(entry.used > Limit) =>
            /\ admitted' = [admitted EXCEPT ![c] = Counted(c, window)]
            /\ \/ Refuse(q)
               \/ /\ req' = [req EXCEPT ![q] = [NoRequest EXCEPT
                               !.at = "begun", !.kind = kind, !.user = Verified(s)]]
                  /\ kind # "login" => Verified(s) # None
  BY <1>1, <1>5 DEF Arrives
<1> HIDE DEF entry
<1>9. CASE entry.used > Limit
  <2>1. ~(entry.used <= Limit)
    BY <1>7, <1>9
  <2>2. Becomes(q, "done", None, None, "refused") /\ admitted' = admitted
    BY <1>8, <1>9, RequestEffects
  <2>3. QED
    BY <1>8, <2>1, <2>2 DEF entry
<1>10. CASE ~(entry.used > Limit)
  <2>1. entry.used <= Limit
    BY <1>7, <1>10
  <2>2. /\ admitted' = [admitted EXCEPT ![c] = Counted(c, window)]
        /\ \/ Becomes(q, "done", None, None, "refused")
           \/ \E user \in User \cup {None} :
                 /\ Becomes(q, "begun", user, None, None)
                 /\ req'[q].kind # "login" => user \in User
    BY <1>2, <1>4, <1>8, <1>10, RequestEffects
  <2>3. QED
    BY <1>8, <2>1, <2>2 DEF entry
<1>11. QED
  BY <1>9, <1>10

-----------------------------------------------------------------------------
\* What becomes of call c: where it is, for whom, and what it carries.
Goes(c, at, user, token, ttl, late) ==
    /\ call' \in [Calls -> CallState]
    /\ \A d \in Calls : d # c => call'[d] = call[d]
    /\ call'[c].at = at /\ call'[c].user = user /\ call'[c].token = token
    /\ call'[c].ttl = ttl /\ call'[c].late = late

Over(c) ==
    /\ call' \in [Calls -> CallState]
    /\ \A d \in Calls : d # c => call'[d] = call[d]
    /\ call'[c].at = "done"

\* The steps of a Google call: it is over, without a token or with one from the
\* cache or from Google; it misses the cache; it reads the connection; it gets a
\* token, or Google rejects the grant; it reckons how long to keep the token;
\* it caches it; it marks the connection.
LEMMA GetEffect ==
  ASSUME TypeOK, NEW c \in Calls, CallFits(c), Get(c)
  PROVE  /\ UNCHANGED <<clock, rl, ids, alive, grants, req, admitted, dropped>>
         /\ \/ UNCHANGED <<connection, cache>> /\ Over(c)
            \/ /\ UNCHANGED <<connection, cache>> /\ call[c].at = "idle"
               /\ \E u \in User :
                     Goes(c, "missed", u, call[c].token, call[c].ttl, call[c].late)
            \/ /\ UNCHANGED <<connection, cache>> /\ call[c].at = "missed"
               /\ Connected(call[c].user)
               /\ \E t \in Tokens : Goes(c, "read", call[c].user, t, call[c].ttl, call[c].late)
            \/ /\ UNCHANGED <<connection, cache>> /\ call[c].at = "read"
               /\ \/ \E t \in Tokens :
                        /\ t.expires = clock + TokenLife
                        /\ Goes(c, "refreshed", call[c].user, t, call[c].ttl, call[c].late)
                  \/ Goes(c, "rejected", call[c].user, call[c].token, call[c].ttl, call[c].late)
            \/ /\ UNCHANGED <<connection, cache>> /\ call[c].at = "refreshed"
               /\ Ttl(call[c].token) > 0 /\ Ttl(call[c].token) + Margin <= TokenLife
               /\ Goes(c, "caching", call[c].user, call[c].token, Ttl(call[c].token), call[c].late)
            \/ /\ connection' = connection /\ call[c].at = "caching"
               /\ cache' = [cache EXCEPT ![call[c].user] =
                     [token |-> call[c].token, until |-> clock + call[c].ttl,
                      late |-> call[c].late]]
               /\ Over(c)
            \/ /\ cache' = cache /\ call[c].at = "rejected"
               /\ connection' = Revoked(call[c].user)
               /\ Over(c)
<1>t. call \in [Calls -> CallState]
  BY DEF TypeOK
<1> PICK x \in CallState : x = call[c]
  BY <1>t
<1>n. /\ clock \in Nat /\ TokenLife \in Nat /\ Margin \in Nat
      /\ \A at \in {"missed", "read", "refreshed", "rejected", "caching"} : at \in CallSteps
  BY LifeAssumption DEF TypeOK, Clock, CallSteps
<1>1. Answered(c) => Over(c)
  BY <1>t, CallEnds DEF Answered, Over
<1>2. CASE \E u \in User : GetLooks(c, u)
  <2>1. PICK u \in User : GetLooks(c, u)
    BY <1>2
  <2>2. CASE Answered(c)
    BY <1>1, <2>1, <2>2 DEF GetLooks, links
  <2>3. CASE ~Answered(c)
    <3> DEFINE y == [x EXCEPT !.user = u, !.at = "missed"]
    <3>1. y \in CallState
      BY <1>n, CallMoves
    <3>2. /\ y.at = "missed" /\ y.user = u /\ y.token = x.token
          /\ y.ttl = x.ttl /\ y.late = x.late
      BY DEF CallState
    <3>3. call' = [call EXCEPT ![c] = y]
      BY <1>t, <2>1, <2>3 DEF GetLooks
    <3>4. Goes(c, "missed", u, x.token, x.ttl, x.late)
      BY <1>t, <3>1, <3>2, <3>3 DEF Goes
    <3>5. QED
      BY <2>1, <3>4 DEF GetLooks, links
  <2>4. QED
    BY <2>2, <2>3
<1>3. CASE GetReads(c)
  <2>1. CASE Answered(c)
    BY <1>1, <1>3, <2>1 DEF GetReads, links
  <2>2. CASE ~Answered(c)
    <3>1. Connected(x.user) /\ x.user \in User
      BY <1>3, <2>2 DEF GetReads, CallFits
    <3>2. PICK t \in Tokens : t = [grant |-> connection[x.user].grant, expires |-> 0]
      BY <3>1, Fields, TokenShapes DEF Connected
    <3> DEFINE y == [x EXCEPT !.at = "read", !.token = t]
    <3>3. y \in CallState
      BY <1>n, CallMoves
    <3>4. /\ y.at = "read" /\ y.user = x.user /\ y.token = t
          /\ y.ttl = x.ttl /\ y.late = x.late
      BY DEF CallState
    <3>5. call' = [call EXCEPT ![c] = y]
      BY <1>3, <1>t, <2>2, <3>2 DEF GetReads
    <3>6. Goes(c, "read", x.user, t, x.ttl, x.late)
      BY <1>t, <3>3, <3>4, <3>5 DEF Goes
    <3>7. QED
      BY <1>3, <3>1, <3>6 DEF GetReads, links
  <2>3. QED
    BY <2>1, <2>2
<1>4. CASE GetRefreshes(c)
  <2>1. CASE Answered(c)
    BY <1>1, <1>4, <2>1 DEF GetRefreshes, links
  <2>2. CASE Ends(c, "rejected")
    <3> DEFINE y == [x EXCEPT !.at = "rejected"]
    <3>1. y \in CallState
      BY <1>n, CallField
    <3>2. /\ y.at = "rejected" /\ y.user = x.user /\ y.token = x.token
          /\ y.ttl = x.ttl /\ y.late = x.late
      BY DEF CallState
    <3>3. call' = [call EXCEPT ![c] = y]
      BY <1>t, <2>2 DEF Ends
    <3>4. Goes(c, "rejected", x.user, x.token, x.ttl, x.late)
      BY <1>t, <3>1, <3>2, <3>3 DEF Goes
    <3>5. QED
      BY <1>4, <3>4 DEF GetRefreshes, links
  <2>3. CASE call' = [call EXCEPT ![c] = [@ EXCEPT !.at = "refreshed",
                          !.token = [grant |-> call[c].token.grant, expires |-> clock + TokenLife]]]
    <3>1. x.token \in Tokens
      BY <1>4 DEF GetRefreshes, CallFits, Underway
    <3>2. PICK t \in Tokens : /\ t = [grant |-> x.token.grant, expires |-> clock + TokenLife]
                              /\ t.expires = clock + TokenLife
      <4>1. clock + TokenLife \in Nat /\ x.token.grant \in Grant
        BY <1>n, <3>1, TokenShapes
      <4>2. QED
        BY <4>1, TokenShapes
    <3> DEFINE y == [x EXCEPT !.at = "refreshed", !.token = t]
    <3>3. y \in CallState
      BY <1>n, CallMoves
    <3>4. /\ y.at = "refreshed" /\ y.user = x.user /\ y.token = t
          /\ y.ttl = x.ttl /\ y.late = x.late
      BY DEF CallState
    <3>5. call' = [call EXCEPT ![c] = y]
      BY <1>t, <2>3, <3>2
    <3>6. Goes(c, "refreshed", x.user, t, x.ttl, x.late)
      BY <1>t, <3>3, <3>4, <3>5 DEF Goes
    <3>7. QED
      BY <1>4, <3>2, <3>6 DEF GetRefreshes, links
  <2>4. QED
    BY <1>4, <2>1, <2>2, <2>3 DEF GetRefreshes
<1>5. CASE GetReckons(c)
  <2>1. CASE Answered(c)
    BY <1>1, <1>5, <2>1 DEF GetReckons, links
  <2>2. CASE ~Answered(c)
    <3>1. x.token \in Tokens /\ x.token.expires <= clock + TokenLife
      BY <1>5 DEF GetReckons, CallFits, Underway, Held
    <3>2. /\ Ttl(x.token) > 0 /\ Ttl(x.token) + Margin <= TokenLife
          /\ Ttl(x.token) \in 0..TokenLife
      BY <1>5, <1>n, <2>2, <3>1, TokenShapes DEF GetReckons, Ttl
    <3> DEFINE y == [x EXCEPT !.at = "caching", !.ttl = Ttl(x.token)]
    <3>3. y \in CallState
      BY <1>n, <3>2, CallMoves
    <3>4. /\ y.at = "caching" /\ y.user = x.user /\ y.token = x.token
          /\ y.ttl = Ttl(x.token) /\ y.late = x.late
      BY DEF CallState
    <3>5. call' = [call EXCEPT ![c] = y]
      BY <1>5, <1>t, <2>2 DEF GetReckons
    <3>6. Goes(c, "caching", x.user, x.token, Ttl(x.token), x.late)
      BY <1>t, <3>3, <3>4, <3>5 DEF Goes
    <3>7. QED
      BY <1>5, <3>2, <3>6 DEF GetReckons, links
  <2>3. QED
    BY <2>1, <2>2
<1>6. CASE GetCaches(c)
  BY <1>1, <1>6 DEF GetCaches, links
<1>7. CASE GetRevokes(c)
  BY <1>1, <1>7 DEF GetRevokes
<1>8. QED
  BY <1>2, <1>3, <1>4, <1>5, <1>6, <1>7 DEF Get

\* Clearing the cache only marks the calls that are under way.
LEMMA Cleared ==
  ASSUME TypeOK, NEW q \in Requests, DisconnectClears(q)
  PROVE  /\ call' \in [Calls -> CallState]
         /\ \A c \in Calls :
               /\ call'[c].at = call[c].at /\ call'[c].user = call[c].user
               /\ call'[c].token = call[c].token /\ call'[c].ttl = call[c].ttl
               /\ call'[c].late <=>
                     call[c].late \/ (Underway(c) /\ call[c].user = req[q].user)
<1>1. ASSUME NEW c \in Calls
      PROVE  /\ call'[c] \in CallState
             /\ call'[c].at = call[c].at /\ call'[c].user = call[c].user
             /\ call'[c].token = call[c].token /\ call'[c].ttl = call[c].ttl
             /\ call'[c].late <=>
                   call[c].late \/ (Underway(c) /\ call[c].user = req[q].user)
  <2>1. PICK x \in CallState : x = call[c]
    BY DEF TypeOK
  <2>2. PICK late \in BOOLEAN :
           late = (x.late \/ (Underway(c) /\ x.user = req[q].user))
    BY <2>1
  <2>3. call'[c] = [x EXCEPT !.late = late]
    BY <2>1, <2>2 DEF DisconnectClears
  <2>4. [x EXCEPT !.late = late] \in CallState
    BY CallField
  <2>5. /\ call'[c].at = x.at /\ call'[c].user = x.user
        /\ call'[c].token = x.token /\ call'[c].ttl = x.ttl /\ call'[c].late = late
    BY <2>3 DEF CallState
  <2>6. QED
    BY <2>1, <2>2, <2>3, <2>4, <2>5
<1>2. call' = [c \in Calls |-> call'[c]]
  BY DEF DisconnectClears
<1>3. QED
  BY <1>1, <1>2

-----------------------------------------------------------------------------
\* What AccountsInv adds to it follows from it.
Core ==
    /\ TypeOK
    /\ UsersFit
    /\ \A q \in Requests : RequestFits(q)
    /\ \A c \in Calls : CallFits(c)
    /\ \A u \in User : CacheFits(u)
    /\ \A c \in Caller : CounterFits(c)
    /\ BudgetHolds

LEMMA OneUser == Core => OneUserEach
<1> SUFFICES ASSUME Core, NEW sub \in Subs, NEW p \in SignIns(sub), NEW q \in SignIns(sub)
             PROVE  /\ req[p].user = req[q].user
                    /\ req[p].answer = "new_user" /\ req[q].answer = "new_user" => p = q
                    /\ req[p].user = Known <=> sub = KnownSub
  BY DEF OneUserEach
<1>1. /\ \E u \in users : u.sub = sub /\ u.id = req[p].user
      /\ \E u \in users : u.sub = sub /\ u.id = req[q].user
      /\ req[p].answer = "new_user" => req[p].user = p
      /\ req[q].answer = "new_user" => req[q].user = q
  BY DEF Core, RequestFits, SignedIn, SignIns
<1>2. QED
  BY <1>1 DEF Core, UsersFit

\* The initial state satisfies the invariant.
LEMMA InitInv == Init => Core
<1> SUFFICES ASSUME Init PROVE Core
  OBVIOUS
<1>l. LifeAssumption
  BY LifeAssumption
<1>c. Cardinality(Requests) \in Nat /\ Cardinality({}) = 0
  BY FS_CardinalityType, FS_EmptySet, LifeAssumption
<1>1. TypeOK
  <2>1. connection \in [User -> Connections \cup {None}] /\ cache \in [User -> Entries \cup {None}]
    BY DEF Init
  <2>2. req \in [Requests -> RequestState] /\ call \in [Calls -> CallState]
    BY NoRequestShape, CallEnds DEF Init
  <2>3. /\ users \subseteq [sub : Subs, id : User] /\ zones \subseteq User
        /\ sessions \subseteq Sessions
    BY LifeAssumption DEF Init, User, Sessions
  <2>4. /\ rl \in [Caller -> [window : Clock, used : 0 .. Cardinality(Requests), until : Nat]]
        /\ admitted \in [Caller -> [window : Clock, count : Nat]]
        /\ clock \in Clock /\ alive \subseteq Grant /\ grants \in 0..MaxGrants
        /\ dropped \in [User -> BOOLEAN]
    BY <1>c, LifeAssumption DEF Init, Clock
  <2>5. QED
    BY <2>1, <2>2, <2>3, <2>4 DEF TypeOK
<1>2. UsersFit
  BY DEF Init, UsersFit
<1>3. \A q \in Requests : RequestFits(q)
  BY LifeAssumption DEF Init, RequestFits, SignedIn, NoRequest, Replies
<1>4. \A c \in Calls : CallFits(c)
  BY DEF Init, CallFits, Underway, Held, NoCall
<1>5. \A u \in User : CacheFits(u)
  BY DEF Init, CacheFits
<1>6. \A c \in Caller : CounterFits(c)
  <2>1. Begun = {}
    BY DEF Begun, Init, NoRequest
  <2>2. QED
    BY <1>c, <2>1, LifeAssumption DEF Init, CounterFits
<1>7. BudgetHolds
  BY LifeAssumption DEF Init, BudgetHolds
<1>8. QED
  BY <1>1, <1>2, <1>3, <1>4, <1>5, <1>6, <1>7 DEF Core

\* Every step keeps the types.
LEMMA TypesKept ==
  ASSUME Core, [Next]_vars
  PROVE  TypeOK'
<1>1. /\ TypeOK /\ \A q \in Requests : RequestFits(q)
      /\ \A c \in Calls : CallFits(c)
      /\ \A c \in Caller : CounterFits(c)
  BY DEF Core
<1>2. /\ MaxTime \in Nat /\ MaxGrants \in Nat /\ clock \in Nat /\ Window \in Nat \ {0}
      /\ SessionLife \in Nat /\ Cardinality(Requests) \in Nat
  BY <1>1, LifeAssumption, FS_CardinalityType DEF TypeOK, Clock
<1>3. ASSUME NEW q \in Requests, Admits(q) PROVE TypeOK'
  <2>1. PICK c \in Caller :
           /\ rl' = [rl EXCEPT ![c] = Incremented(rl[c], clock \div Window)]
           /\ \/ admitted' = admitted
              \/ admitted' = [admitted EXCEPT ![c] = Counted(c, clock \div Window)]
           /\ req' \in [Requests -> RequestState]
    BY <1>1, <1>3, AdmitsEffect DEF Becomes
  <2>2. clock \div Window \in Clock
    <3>1. PICK w \in Nat : w = clock \div Window /\ w <= clock
      BY <1>2, Quotient, WindowBound
    <3>2. QED
      BY <1>1, <1>2, <3>1 DEF TypeOK, Clock
  <2>3. rl[c].used < Cardinality(Requests)
    <3>1. Cardinality(Begun) \in Nat /\ Cardinality(Begun) < Cardinality(Requests)
      BY <1>1, <1>3, AdmitsEffect, OneMore
    <3>2. rl[c].used \in Nat /\ rl[c].used <= Cardinality(Begun)
      BY <1>1, <1>2 DEF CounterFits, TypeOK
    <3>3. QED
      BY <1>2, <3>1, <3>2
  <2>4. Incremented(rl[c], clock \div Window)
           \in [window : Clock, used : 0..Cardinality(Requests), until : Nat]
    BY <1>1, <1>2, <2>2, <2>3 DEF Incremented, TypeOK
  <2>5. Counted(c, clock \div Window) \in [window : Clock, count : Nat]
    BY <1>1, <2>2 DEF Counted, TypeOK
  <2>6. QED
    BY <1>1, <1>3, <2>1, <2>4, <2>5, AdmitsEffect DEF TypeOK, ids, links
<1>4. ASSUME NEW q \in Requests, Proceeds(q) PROVE TypeOK'
  <2>1. UNCHANGED <<clock, rl, admitted>> /\ req' \in [Requests -> RequestState]
    BY <1>1, <1>4, ProceedsFrame
  <2>2. CASE Login(q)
    <3>1. /\ users' \subseteq [sub : Subs, id : User] /\ zones' \subseteq User
          /\ sessions' \subseteq Sessions
      <4>1. /\ req[q].at = "unknown" => req[q].saw \in Subs
            /\ req[q].at = "found" => req[q].user \in User
            /\ q \in User
        BY <1>1, Fields DEF RequestFits, User
      <4>2. /\ [sub |-> req[q].saw, id |-> q] \in [sub : Subs, id : User] \/ req[q].at # "unknown"
            /\ [user |-> q, exp |-> clock + SessionLife] \in Sessions
            /\ \/ [user |-> req[q].user, exp |-> clock + SessionLife] \in Sessions
               \/ req[q].at # "found"
        BY <1>2, <4>1 DEF Sessions
      <4>3. QED
        BY <1>1, <2>2, <4>1, <4>2, LoginEffect DEF TypeOK, ids
    <3>2. QED
      BY <1>1, <2>1, <2>2, <3>1, LoginEffect DEF TypeOK, links
  <2>3. CASE Connect(q)
    <3>1. /\ connection' \in [User -> Connections \cup {None}] /\ dropped' \in [User -> BOOLEAN]
          /\ alive' \subseteq Grant /\ grants' \in 0..MaxGrants
      <4>1. CASE req[q].at \in {"inserting", "updating"}
        <5>1. req[q].user \in User /\ [grant |-> req[q].saw, revoked |-> FALSE] \in Connections
          BY <1>1, <4>1, ConnectionShapes DEF RequestFits
        <5>2. QED
          BY <1>1, <2>3, <4>1, <5>1, ConnectEffect DEF TypeOK, links
      <4>2. CASE req[q].at \notin {"inserting", "updating"}
        <5>1. UNCHANGED <<connection, dropped>>
          BY <1>1, <2>3, <4>2, ConnectEffect DEF links
        <5>2. \/ UNCHANGED <<alive, grants>>
              \/ grants < MaxGrants /\ grants' = grants + 1 /\ alive' = alive \cup {grants + 1}
          BY <1>1, <2>3, <4>2, ConnectEffect DEF links
        <5>3. QED
          <6>1. connection \in [User -> Connections \cup {None}] /\ dropped \in [User -> BOOLEAN]
            BY <1>1 DEF TypeOK
          <6>2. alive \subseteq Grant /\ grants \in 0..MaxGrants
            BY <1>1 DEF TypeOK
          <6>3. alive' \subseteq Grant /\ grants' \in 0..MaxGrants
            <7>1. grants < MaxGrants => grants + 1 \in Grant /\ grants + 1 \in 0..MaxGrants
              BY <1>2, <6>2 DEF Grant
            <7>2. QED
              BY <5>2, <6>2, <7>1
          <6>4. QED
            BY <5>1, <6>1, <6>3
      <4>3. QED
        BY <4>1, <4>2
    <3>2. QED
      BY <1>1, <2>1, <2>3, <3>1, ConnectEffect DEF TypeOK, ids
  <2>4. CASE Disconnect(q)
    <3>1. CASE req[q].at = "marking"
      <4>1. connection' \in [User -> Connections \cup {None}]
        <5>1. connection' = Revoked(req[q].user)
          BY <1>1, <2>4, <3>1, DisconnectEffect DEF DisconnectClears
        <5>2. req[q].user \in User
          BY <1>1, <3>1 DEF RequestFits
        <5>3. QED
          BY <1>1, <5>1, <5>2, MarkedRevoked
      <4>2. QED
        BY <1>1, <2>1, <2>4, <3>1, <4>1, DisconnectEffect DEF TypeOK, ids, DisconnectClears
    <3>2. CASE DisconnectClears(q)
      <4>1. /\ call' \in [Calls -> CallState] /\ cache' \in [User -> Entries \cup {None}]
            /\ dropped' \in [User -> BOOLEAN]
        <5>1. connection[req[q].user].revoked \in BOOLEAN /\ req[q].user \in User
          BY <1>1, <3>2, Fields DEF RequestFits, DisconnectClears
        <5>2. QED
          BY <1>1, <3>2, <5>1, Cleared DEF TypeOK, DisconnectClears
      <4>2. QED
        BY <1>1, <2>1, <2>4, <3>2, <4>1 DEF TypeOK, ids, links, DisconnectClears
    <3>3. CASE req[q].at # "marking" /\ ~DisconnectClears(q)
      BY <1>1, <2>1, <2>4, <3>3, DisconnectEffect DEF TypeOK, ids, links
    <3>4. QED
      BY <3>1, <3>2, <3>3
  <2>5. CASE Dies(q) \/ Me(q) \/ Lists(q)
    BY <1>1, <2>1, <2>5, AnswerEffect DEF TypeOK, ids, links
  <2>6. QED
    BY <1>4, <2>2, <2>3, <2>4, <2>5 DEF Proceeds
<1>5. ASSUME NEW c \in Calls, Get(c) PROVE TypeOK'
  <2>1. CASE call[c].at = "caching"
    <3>1. /\ call[c].user \in User /\ call[c].token \in Tokens
          /\ clock + call[c].ttl \in Nat /\ call[c].late \in BOOLEAN
      BY <1>1, <1>2, <2>1, Fields DEF CallFits, Underway
    <3>2. [token |-> call[c].token, until |-> clock + call[c].ttl, late |-> call[c].late] \in Entries
      BY <3>1, EntryShapes
    <3>3. QED
      BY <1>1, <1>5, <2>1, <3>1, <3>2, GetEffect DEF TypeOK, ids, Over
  <2>2. CASE call[c].at = "rejected"
    <3>1. Revoked(call[c].user) \in [User -> Connections \cup {None}]
      BY <1>1, <2>2, MarkedRevoked DEF CallFits
    <3>2. QED
      BY <1>1, <1>5, <2>2, <3>1, GetEffect DEF TypeOK, ids, Over
  <2>3. CASE call[c].at \notin {"caching", "rejected"}
    BY <1>1, <1>5, <2>3, GetEffect DEF TypeOK, ids, Goes, Over
  <2>4. QED
    BY <2>1, <2>2, <2>3
<1>6. CASE Outside
  BY <1>1, <1>2, <1>6 DEF Outside, Tick, UserRevokes, TypeOK, Clock, ids, links
<1>7. CASE UNCHANGED vars
  BY <1>1, <1>7 DEF vars, ids, links, TypeOK
<1>8. QED
  BY <1>3, <1>4, <1>5, <1>6, <1>7, NextCases

\* A Google account never gets a second user.
LEMMA UsersKept ==
  ASSUME Core, [Next]_vars
  PROVE  UsersFit'
<1>1. /\ TypeOK /\ UsersFit /\ Known \notin Requests
      /\ \A q \in Requests : RequestFits(q)
  BY LifeAssumption DEF Core
<1>2. CASE users' = users
  BY <1>1, <1>2 DEF UsersFit
<1>3. ASSUME NEW q \in Requests, Login(q), users' # users PROVE UsersFit'
  <2>1. /\ users' = users \cup {[sub |-> req[q].saw, id |-> q]}
        /\ \A u \in users : u.sub # req[q].saw
    BY <1>1, <1>3, LoginEffect DEF ids, SubTaken
  <2>2. req[q].saw # KnownSub /\ q # Known
    BY <1>1, <2>1 DEF UsersFit
  <2>3. QED
    BY <1>1, <2>1, <2>2 DEF UsersFit
<1>4. ASSUME NEW q \in Requests, Proceeds(q), ~Login(q) PROVE users' = users
  BY <1>1, <1>4, ConnectEffect, DisconnectEffect, AnswerEffect DEF Proceeds, ids
<1>5. \/ users' = users
      \/ \E q \in Requests : Proceeds(q)
  BY <1>1, NextCases, AdmitsEffect, GetEffect DEF Core, Outside, Tick, UserRevokes, ids, vars
<1>6. QED
  BY <1>2, <1>3, <1>4, <1>5

\* A request carries what its next step needs.
LEMMA RequestsKept ==
  ASSUME Core, [Next]_vars, NEW p \in Requests
  PROVE  RequestFits(p)'
<1>1. /\ TypeOK /\ UsersFit /\ p \in User
      /\ \A q \in Requests : RequestFits(q)
      /\ None \notin Replies
  BY LifeAssumption DEF Core, User
<1>2. ASSUME req'[p] = req[p], users \subseteq users',
             \A u \in User : connection[u] # None => connection'[u] # None
      PROVE  RequestFits(p)'
  <2>1. RequestFits(p)
    BY <1>1
  <2>2. QED
    BY <1>2, <2>1 DEF RequestFits, SignedIn
<1>3. ASSUME NEW q \in Requests, Admits(q) PROVE RequestFits(p)'
  <2>1. CASE p = q
    BY <1>1, <1>3, <2>1, AdmitsEffect DEF Becomes, RequestFits, SignedIn, Replies
  <2>2. CASE p # q
    BY <1>1, <1>2, <1>3, <2>2, AdmitsEffect DEF Becomes, ids, links
  <2>3. QED
    BY <2>1, <2>2
<1>4. ASSUME Login(p) PROVE RequestFits(p)'
  <2>0. req[p].at \in {"begun", "unknown"} => req[p].answer = None
    BY <1>1 DEF RequestFits
  <2>1. CASE req[p].at \in {"begun", "unknown"}
    <3>1. CASE \E sub \in Subs : Becomes(p, "unknown", p, sub, req[p].answer)
      BY <1>1, <2>0, <2>1, <3>1 DEF Becomes, RequestFits, SignedIn, Replies
    <3>2. CASE \E u \in users : Becomes(p, "found", u.id, u.sub, req[p].answer) /\ users' = users
      <4>1. PICK u \in users : Becomes(p, "found", u.id, u.sub, req[p].answer)
        BY <3>2
      <4>2. [sub |-> u.sub, id |-> u.id] \in users'
        BY <1>1, <3>2, Fields
      <4>3. QED
        BY <1>1, <2>0, <2>1, <4>1, <4>2 DEF Becomes, RequestFits, SignedIn, Replies
    <3>3. CASE Becomes(p, "done", None, None, "refused")
      BY <1>1, <3>3 DEF Becomes, RequestFits, SignedIn, Replies
    <3>4. CASE /\ req[p].at = "unknown" /\ users' = users \cup {[sub |-> req[p].saw, id |-> p]}
               /\ Becomes(p, "created", req[p].user, req[p].saw, req[p].answer)
      BY <1>1, <2>0, <2>1, <3>4 DEF Becomes, RequestFits, SignedIn, Replies
    <3>5. QED
      BY <1>1, <1>4, <2>1, <3>1, <3>2, <3>3, <3>4, LoginEffect DEF ids
  <2>2. CASE req[p].at \in {"created", "found"}
    BY <1>1, <1>4, <2>2, LoginEffect DEF Becomes, RequestFits, SignedIn, Replies, ids
  <2>3. QED
    BY <1>1, <1>4, <2>1, <2>2, LoginEffect
<1>5. ASSUME Connect(p) PROVE RequestFits(p)'
  <2>1. grants < MaxGrants => grants + 1 \in Grant
    BY <1>1, LifeAssumption DEF TypeOK, Grant
  <2>2. QED
    BY <1>1, <1>5, <2>1, ConnectEffect DEF Becomes, RequestFits, SignedIn, Replies, ids, links
<1>6. ASSUME Disconnect(p) PROVE RequestFits(p)'
  <2>1. req[p].at \in {"begun", "revoking", "marking"} => req[p].user \in User
    BY <1>1, <1>6, DisconnectEffect DEF RequestFits, DisconnectClears
  <2>2. \A u \in User : connection[u] # None => connection'[u] # None
    BY <1>1, <1>6, ProceedsFrame DEF Proceeds
  <2>3. req[p].at # "done" => req[p].answer = None
    BY <1>1 DEF RequestFits
  <2>4. CASE req[p].at = "begun"
    BY <1>1, <1>6, <2>1, <2>2, <2>3, <2>4, DisconnectEffect
       DEF Becomes, RequestFits, SignedIn, Replies, links, DisconnectClears
  <2>5. CASE req[p].at \in {"revoking", "marking"}
    <3>1. connection[req[p].user] # None
      BY <1>1, <2>5 DEF RequestFits
    <3>2. \E at \in {"marking", "clearing"} :
             Becomes(p, at, req[p].user, req[p].saw, req[p].answer)
      BY <1>1, <1>6, <2>5, DisconnectEffect DEF DisconnectClears
    <3>3. QED
      BY <1>1, <2>1, <2>2, <2>3, <2>5, <3>1, <3>2 DEF Becomes, RequestFits, SignedIn, Replies
  <2>6. CASE Becomes(p, "done", None, None, "served")
    BY <1>1, <2>6 DEF Becomes, RequestFits, SignedIn, Replies
  <2>7. QED
    BY <1>1, <1>6, <2>4, <2>5, <2>6, DisconnectEffect
<1>7. ASSUME NEW q \in Requests, Proceeds(q) PROVE RequestFits(p)'
  <2>1. CASE p = q
    <3>1. CASE Dies(p) \/ Me(p) \/ Lists(p)
      BY <1>1, <3>1, AnswerEffect DEF Becomes, RequestFits, SignedIn, Replies
    <3>2. QED
      BY <1>4, <1>5, <1>6, <1>7, <2>1, <3>1 DEF Proceeds
  <2>2. CASE p # q
    BY <1>1, <1>2, <1>7, <2>2, ProceedsFrame
  <2>3. QED
    BY <2>1, <2>2
<1>8. ASSUME NEW c \in Calls, Get(c) PROVE RequestFits(p)'
  <2>1. CallFits(c)
    BY DEF Core
  <2>2. \A u \in User : connection[u] # None => connection'[u] # None
    BY <1>1, <1>8, <2>1, GetEffect, MarkedRevoked DEF CallFits
  <2>3. QED
    BY <1>1, <1>2, <1>8, <2>1, <2>2, GetEffect DEF ids
<1>9. CASE Outside \/ UNCHANGED vars
  BY <1>2, <1>9 DEF Outside, Tick, UserRevokes, vars, ids, links
<1>10. QED
  BY <1>3, <1>7, <1>8, <1>9, NextCases

\* A call carries a token that is at most Lag old, and leaves a margin of its life.
LEMMA CallsKept ==
  ASSUME Core, [Next]_vars, NEW d \in Calls
  PROVE  CallFits(d)'
<1>1. /\ TypeOK /\ CallFits(d)
      /\ \A q \in Requests : RequestFits(q)
  BY DEF Core
<1>2. /\ clock \in Nat /\ TokenLife \in Nat /\ Margin \in Nat /\ Lag \in Nat
      /\ \A t \in Tokens : t.expires \in Nat
  BY <1>1, LifeAssumption, TokenShapes DEF TypeOK, Clock
<1>3. ASSUME clock' = clock, call'[d].at = call[d].at, call'[d].user = call[d].user,
             call'[d].token = call[d].token, call'[d].ttl = call[d].ttl
      PROVE  CallFits(d)'
  BY <1>1, <1>3 DEF CallFits, Underway, Held
<1>4. ASSUME NEW q \in Requests, Admits(q) PROVE CallFits(d)'
  BY <1>1, <1>3, <1>4, AdmitsEffect
<1>5. ASSUME NEW q \in Requests, Proceeds(q) PROVE CallFits(d)'
  <2>1. CASE DisconnectClears(q)
    BY <1>1, <1>3, <2>1, Cleared DEF DisconnectClears
  <2>2. CASE ~DisconnectClears(q)
    BY <1>1, <1>3, <1>5, <2>2, LoginEffect, ConnectEffect, DisconnectEffect, AnswerEffect
       DEF Proceeds
  <2>3. QED
    BY <2>1, <2>2
<1>6. ASSUME NEW c \in Calls, Get(c) PROVE CallFits(d)'
  <2>0. CallFits(c)
    BY DEF Core
  <2>1. CASE c # d
    BY <1>1, <1>3, <1>6, <2>0, <2>1, GetEffect DEF Goes, Over
  <2>2. CASE c = d
    <3>1. CASE call'[d].at = "done"
      BY <3>1 DEF CallFits, Underway, Held
    <3>2. CASE call'[d].at # "done" /\ call[d].at \in {"idle", "missed"}
      BY <1>1, <1>6, <2>0, <2>2, <3>2, GetEffect DEF Goes, Over, CallFits, Underway, Held
    <3>3. CASE call'[d].at # "done" /\ call[d].at = "read"
      <4>1. CASE call'[d].at = "rejected"
        <5>1. call'[d].user = call[d].user /\ call[d].user \in User
          BY <1>1, <1>6, <2>0, <2>2, <3>3, <3>3, GetEffect DEF Goes, Over, CallFits
        <5>2. QED
          BY <4>1, <5>1 DEF CallFits, Underway, Held
      <4>2. CASE call'[d].at # "rejected"
        <5>1. PICK t \in Tokens :
                 /\ t.expires = clock + TokenLife
                 /\ Goes(d, "refreshed", call[d].user, t, call[d].ttl, call[d].late)
          BY <1>1, <1>6, <2>0, <2>2, <3>3, <4>2, GetEffect DEF Goes, Over
        <5>2. clock' = clock /\ call[d].user \in User
          BY <1>1, <1>6, <2>0, <2>2, <3>3, GetEffect DEF CallFits
        <5>3. QED
          BY <1>2, <5>1, <5>2 DEF Goes, CallFits, Underway, Held
      <4>3. QED
        BY <4>1, <4>2
    <3>4. CASE call'[d].at # "done" /\ call[d].at = "refreshed"
      BY <1>1, <1>2, <1>6, <2>0, <2>2, <3>4, GetEffect DEF Goes, Over, CallFits, Underway, Held
    <3>5. QED
      BY <1>1, <1>6, <2>0, <2>2, <3>1, <3>2, <3>3, <3>4, GetEffect DEF Goes, Over
  <2>3. QED
    BY <2>1, <2>2
<1>7. CASE Tick
  <2>1. clock' = clock + 1 /\ call' = call /\ Patient(d)
    BY <1>7 DEF Tick
  <2>2. QED
    BY <1>1, <1>2, <2>1 DEF Patient, CallFits, Underway, Held
<1>8. CASE (\E g \in Grant : UserRevokes(g)) \/ UNCHANGED vars
  BY <1>3, <1>8 DEF UserRevokes, vars
<1>9. QED
  BY <1>4, <1>5, <1>6, <1>7, <1>8, NextCases DEF Outside

\* What is cached goes before it expires; what is cached of a user who has
\* disconnected, or may yet be, had been read before.
LEMMA CachesKept ==
  ASSUME Core, [Next]_vars, NEW u \in User
  PROVE  CacheFits(u)'
<1>1. /\ TypeOK /\ CacheFits(u)
      /\ \A q \in Requests : RequestFits(q)
      /\ \A c \in Calls : CallFits(c)
  BY DEF Core
<1>2. /\ clock \in Nat /\ TokenLife \in Nat /\ Margin \in Nat /\ Lag \in Nat /\ Lag <= Margin
      /\ \A t \in Tokens : t.expires \in Nat
  BY <1>1, LifeAssumption, TokenShapes DEF TypeOK, Clock
<1>3. ASSUME cache' = cache, UNCHANGED <<connection, dropped, call>> PROVE CacheFits(u)'
  BY <1>1, <1>3 DEF CacheFits, Underway
<1>4. ASSUME NEW q \in Requests, Admits(q) PROVE CacheFits(u)'
  BY <1>1, <1>3, <1>4, AdmitsEffect DEF links
<1>5. ASSUME NEW q \in Requests, Connect(q) PROVE CacheFits(u)'
  <2>1. CASE req[q].at \in {"inserting", "updating"} /\ u = req[q].user /\ dropped' # dropped
    <3>1. dropped'[u] = FALSE /\ cache' = cache
      BY <1>1, <1>5, <2>1, ConnectEffect DEF TypeOK
    <3>2. QED
      BY <1>1, <3>1 DEF CacheFits
  <2>2. CASE u # req[q].user \/ UNCHANGED <<connection, dropped>>
    <3>1. /\ connection'[u] = connection[u] /\ dropped'[u] = dropped[u]
          /\ UNCHANGED <<cache, call>>
      BY <1>1, <1>5, <2>2, ConnectEffect DEF TypeOK, links
    <3>2. QED
      BY <1>1, <3>1 DEF CacheFits, Underway
  <2>3. CASE u = req[q].user /\ ~UNCHANGED <<connection, dropped>>
    <3>1. dropped'[u] = FALSE /\ cache' = cache
      BY <1>1, <1>5, <2>3, ConnectEffect DEF TypeOK, links
    <3>2. QED
      BY <1>1, <3>1 DEF CacheFits
  <2>4. QED
    BY <2>2, <2>3
<1>6. ASSUME NEW q \in Requests, Disconnect(q) PROVE CacheFits(u)'
  <2>1. CASE DisconnectClears(q)
    <3>1. connection[req[q].user] # None /\ req[q].user \in User
      BY <1>1, <2>1 DEF RequestFits, DisconnectClears
    <3>2. /\ connection' = connection
          /\ cache' = [cache EXCEPT ![req[q].user] = None]
          /\ dropped' = [dropped EXCEPT ![req[q].user] = connection[req[q].user].revoked]
      BY <2>1 DEF DisconnectClears, links
    <3>3. CASE u = req[q].user
      <4>1. cache'[u] = None /\ (dropped'[u] => connection[u].revoked)
        BY <1>1, <3>1, <3>2, <3>3 DEF TypeOK
      <4>2. \A c \in Calls : Underway(c)' /\ call'[c].user = u => call'[c].late
        BY <1>1, <2>1, <3>3, Cleared DEF Underway
      <4>3. QED
        BY <3>1, <3>2, <3>3, <4>1, <4>2 DEF CacheFits
    <3>4. CASE u # req[q].user
      <4>1. cache'[u] = cache[u] /\ dropped'[u] = dropped[u]
        BY <1>1, <3>1, <3>2, <3>4 DEF TypeOK
      <4>2. QED
        BY <1>1, <2>1, <3>2, <3>4, <4>1, Cleared DEF CacheFits, Underway
    <3>5. QED
      BY <3>3, <3>4
  <2>2. CASE req[q].at = "marking"
    <3>1. /\ connection' = Revoked(req[q].user) /\ UNCHANGED <<cache, call, dropped>>
          /\ req[q].user \in User
      BY <1>1, <1>6, <2>2, DisconnectEffect DEF DisconnectClears, RequestFits
    <3>2. connection[u] # None /\ connection[u].revoked =>
             connection'[u] # None /\ connection'[u].revoked
      BY <1>1, <3>1, MarkedRevoked
    <3>3. QED
      BY <1>1, <3>1, <3>2 DEF CacheFits, Underway
  <2>3. CASE ~DisconnectClears(q) /\ req[q].at # "marking"
    BY <1>1, <1>3, <1>6, <2>3, DisconnectEffect DEF links
  <2>4. QED
    BY <2>1, <2>2, <2>3
<1>7. ASSUME NEW q \in Requests, Login(q) \/ Dies(q) \/ Me(q) \/ Lists(q) PROVE CacheFits(u)'
  BY <1>1, <1>3, <1>7, LoginEffect, AnswerEffect DEF links
<1>8. ASSUME NEW c \in Calls, Get(c) PROVE CacheFits(u)'
  <2>0. CallFits(c) /\ dropped' = dropped
    BY <1>1, <1>8, GetEffect
  <2>1. CASE call[c].at = "caching" /\ cache' # cache
    <3>1. /\ connection' = connection /\ Over(c)
          /\ cache' = [cache EXCEPT ![call[c].user] =
                [token |-> call[c].token, until |-> clock + call[c].ttl, late |-> call[c].late]]
      BY <1>1, <1>8, <2>0, <2>1, GetEffect
    <3>2. /\ call[c].user \in User /\ call[c].token \in Tokens /\ call[c].ttl \in Nat
          /\ clock + TokenLife <= call[c].token.expires + Lag
          /\ call[c].ttl + Margin <= TokenLife
      BY <1>1, <1>2, <2>0, <2>1, Fields DEF CallFits, Underway, Held
    <3>3. clock + call[c].ttl <= call[c].token.expires
      BY <1>2, <3>2
    <3>4. CASE u = call[c].user
      <4>1. /\ cache'[u].token = call[c].token /\ cache'[u].late = call[c].late
            /\ cache'[u].until = clock + call[c].ttl
        BY <1>1, <3>1, <3>4 DEF TypeOK
      <4>2. dropped[u] => call[c].late
        BY <1>1, <2>1, <3>4 DEF CacheFits, Underway
      <4>3. QED
        BY <1>1, <2>0, <3>1, <3>3, <4>1, <4>2 DEF CacheFits, Underway, Over
    <3>5. CASE u # call[c].user
      <4>1. cache'[u] = cache[u]
        BY <1>1, <3>1, <3>5 DEF TypeOK
      <4>2. QED
        BY <1>1, <2>0, <3>1, <4>1 DEF CacheFits, Underway, Over
    <3>6. QED
      BY <3>4, <3>5
  <2>2. CASE call[c].at = "rejected" /\ connection' # connection
    <3>1. /\ connection' = Revoked(call[c].user) /\ cache' = cache /\ Over(c)
          /\ call[c].user \in User
      BY <1>1, <1>8, <2>0, <2>2, GetEffect DEF CallFits
    <3>2. connection[u] # None /\ connection[u].revoked =>
             connection'[u] # None /\ connection'[u].revoked
      BY <1>1, <3>1, MarkedRevoked
    <3>3. QED
      BY <1>1, <2>0, <3>1, <3>2 DEF CacheFits, Underway, Over
  <2>3. CASE UNCHANGED <<connection, cache>>
    <3>1. \A d \in Calls : d # c => call'[d] = call[d]
      BY <1>1, <1>8, <2>0, GetEffect DEF Goes, Over
    <3>2. dropped[u] /\ Underway(c)' /\ call'[c].user = u => call'[c].late
      <4>1. CASE call[c].at = "missed"
        <5>1. dropped[u] => ~Connected(u)
          BY <1>1 DEF CacheFits, Connected
        <5>2. QED
          BY <1>1, <1>8, <2>0, <4>1, <5>1, GetEffect DEF Goes, Over, Underway
      <4>2. CASE Underway(c)
        <5>1. dropped[u] /\ call[c].user = u => call[c].late
          BY <1>1, <4>2 DEF CacheFits
        <5>2. QED
          BY <1>1, <1>8, <2>0, <4>2, <5>1, GetEffect DEF Goes, Over, Underway
      <4>3. CASE call[c].at # "missed" /\ ~Underway(c)
        BY <1>1, <1>8, <2>0, <4>3, GetEffect DEF Goes, Over, Underway
      <4>4. QED
        BY <4>1, <4>2, <4>3
    <3>3. \A d \in Calls : dropped[u] /\ Underway(d)' /\ call'[d].user = u => call'[d].late
      BY <1>1, <3>1, <3>2 DEF CacheFits, Underway
    <3>4. QED
      BY <1>1, <2>0, <2>3, <3>3 DEF CacheFits
  <2>4. QED
    BY <1>1, <1>8, <2>0, <2>1, <2>2, <2>3, GetEffect
<1>9. CASE Outside \/ UNCHANGED vars
  BY <1>3, <1>9 DEF Outside, Tick, UserRevokes, vars, links
<1>10. QED
  BY <1>4, <1>5, <1>6, <1>7, <1>8, <1>9, NextCases DEF Proceeds

\* The counter keeps up with what was let through, for as long as the window lasts.
LEMMA CountersKept ==
  ASSUME Core, [Next]_vars, NEW x \in Caller
  PROVE  CounterFits(x)' /\ (admitted[x].count <= Limit)'
<1>1. TypeOK /\ CounterFits(x) /\ admitted[x].count <= Limit
  BY DEF Core, BudgetHolds
<1>2. /\ clock \in Nat /\ Window \in Nat \ {0} /\ Limit \in Nat
      /\ Cardinality(Begun) \in Nat
      /\ rl[x].window \in Nat /\ rl[x].used \in Nat /\ rl[x].until \in Nat
      /\ admitted[x].window \in Nat /\ admitted[x].count \in Nat
  <2>1. IsFiniteSet(Begun) /\ Cardinality(Requests) \in Nat
    BY FS_Subset, FS_CardinalityType, LifeAssumption DEF Begun
  <2>2. Cardinality(Begun) \in Nat
    BY <2>1, FS_CardinalityType
  <2>3. QED
    BY <1>1, <2>1, <2>2, LifeAssumption DEF TypeOK, Clock
<1>3. ASSUME rl'[x] = rl[x], admitted'[x] = admitted[x], clock' \in Nat, clock <= clock',
             Cardinality(Begun)' \in Nat, Cardinality(Begun) <= Cardinality(Begun)'
      PROVE  CounterFits(x)' /\ (admitted[x].count <= Limit)'
  <2>1. Window * rl[x].window \in Nat
    BY <1>2
  <2>2. QED
    BY <1>1, <1>2, <1>3, <2>1 DEF CounterFits
<1>4. ASSUME NEW q \in Requests, Admits(q) PROVE CounterFits(x)' /\ (admitted[x].count <= Limit)'
  <2>1. Begun' = Begun \cup {q} /\ req[q].at = "idle" /\ clock' = clock
    BY <1>1, <1>4, AdmitsEffect DEF Becomes, Begun
  <2>2. Cardinality(Begun)' = Cardinality(Begun) + 1
    BY <2>1, OneMore
  <2>3. PICK c \in Caller :
           /\ rl' = [rl EXCEPT ![c] = Incremented(rl[c], clock \div Window)]
           /\ \/ admitted' = admitted
              \/ /\ Incremented(rl[c], clock \div Window).used <= Limit
                 /\ admitted' = [admitted EXCEPT ![c] = Counted(c, clock \div Window)]
    BY <1>1, <1>4, AdmitsEffect
  <2>4. CASE x # c
    BY <1>1, <1>2, <1>3, <2>1, <2>2, <2>3, <2>4 DEF TypeOK
  <2>5. CASE x = c
    <3>1. PICK w \in Nat : w = clock \div Window
      BY <1>2, Quotient
    <3>2. /\ rl'[x] = Incremented(rl[x], w)
          /\ \/ admitted'[x] = admitted[x]
             \/ Incremented(rl[x], w).used <= Limit /\ admitted'[x] = Counted(x, w)
      BY <1>1, <2>3, <2>5, <3>1 DEF TypeOK
    <3>3. Window * w <= clock /\ clock < Window * (w + 1) /\ Window * (w + 1) = Window * w + Window
      BY <1>2, <3>1, Quotient
    <3>4. rl[x].window <= w
      BY <1>1, <1>2, <3>1, WindowsInOrder DEF CounterFits
    <3>5. CASE rl[x].window = w /\ rl[x].used > 0 /\ clock < rl[x].until
      <4>1. rl'[x] = [rl[x] EXCEPT !.used = @ + 1]
        BY <3>2, <3>5 DEF Incremented
      <4>2. rl'[x].window = w /\ rl'[x].used = rl[x].used + 1 /\ rl'[x].until = rl[x].until
        BY <1>1, <3>5, <4>1 DEF TypeOK
      <4>3. Window * (w + 1) <= rl[x].until /\ rl[x].used <= Cardinality(Begun)
        BY <1>1, <3>5 DEF CounterFits
      <4>4. \/ admitted'[x] = admitted[x]
            \/ /\ admitted'[x].window = w /\ admitted'[x].count <= rl[x].used + 1
               /\ rl[x].used + 1 <= Limit
        <5>1. CASE admitted[x].window = w
          <6>1. Counted(x, w).window = w /\ Counted(x, w).count = admitted[x].count + 1
            BY <1>1, <5>1 DEF Counted, TypeOK
          <6>2. admitted[x].count <= rl[x].used
            BY <1>1, <1>2, <3>5, <5>1 DEF CounterFits
          <6>3. QED
            BY <1>2, <3>2, <4>1, <4>2, <6>1, <6>2
        <5>2. CASE admitted[x].window # w
          BY <1>2, <3>2, <3>5, <4>1, <4>2, <5>2 DEF Counted
        <5>3. QED
          BY <5>1, <5>2
      <4>5. CASE admitted'[x] = admitted[x]
        BY <1>1, <1>2, <2>1, <2>2, <3>3, <3>5, <4>2, <4>3, <4>5 DEF CounterFits
      <4>6. CASE /\ admitted'[x].window = w /\ admitted'[x].count <= rl[x].used + 1
                 /\ rl[x].used + 1 <= Limit
        <5>1. (admitted[x].count <= Limit)'
          <6>1. admitted'[x].count \in Nat
            BY <1>1, <1>2, <3>2 DEF Counted, TypeOK
          <6>2. QED
            BY <1>2, <4>6, <6>1
        <5>2. QED
          BY <1>1, <1>2, <2>1, <2>2, <3>3, <4>2, <4>3, <4>6, <5>1 DEF CounterFits
      <4>7. QED
        BY <4>4, <4>5, <4>6
    <3>6. CASE ~(rl[x].window = w /\ rl[x].used > 0 /\ clock < rl[x].until)
      <4>1. rl'[x].window = w /\ rl'[x].used = 1 /\ rl'[x].until = clock + Window
        BY <3>2, <3>6 DEF Incremented
      <4>2. ~(admitted[x].count > 0 /\ admitted[x].window = w)
        <5> SUFFICES ASSUME admitted[x].count > 0, admitted[x].window = w PROVE FALSE
          OBVIOUS
        <5>1. rl[x].window = w /\ admitted[x].count <= rl[x].used
          BY <1>1, <1>2, <3>4 DEF CounterFits
        <5>2. rl[x].used > 0 /\ Window * (w + 1) <= rl[x].until
          BY <1>1, <1>2, <5>1 DEF CounterFits
        <5>3. Window * (w + 1) \in Nat
          BY <1>2
        <5>4. QED
          BY <1>2, <3>3, <3>6, <5>1, <5>2, <5>3
      <4>3. CASE admitted'[x] = admitted[x]
        <5>1. admitted[x].count > 0 => admitted[x].window <= w /\ admitted[x].window # w
          BY <1>1, <1>2, <3>4, <4>2 DEF CounterFits
        <5>2. QED
          BY <1>1, <1>2, <2>1, <2>2, <3>3, <4>1, <4>3, <5>1 DEF CounterFits
      <4>4. CASE admitted'[x] # admitted[x]
        <5>1. admitted'[x] = Counted(x, w) /\ 1 <= Limit
          BY <1>2, <3>2, <4>1, <4>4
        <5>2. admitted'[x].window = w /\ admitted'[x].count = 1
          BY <1>1, <1>2, <4>2, <5>1 DEF Counted, TypeOK
        <5>3. QED
          BY <1>1, <1>2, <2>1, <2>2, <3>3, <4>1, <5>1, <5>2 DEF CounterFits
      <4>5. QED
        BY <4>3, <4>4
    <3>7. QED
      BY <3>5, <3>6
  <2>6. QED
    BY <2>4, <2>5
<1>5. CASE UNCHANGED <<clock, rl, admitted, req>>
  BY <1>2, <1>3, <1>5 DEF Begun
<1>6. ASSUME NEW q \in Requests, Proceeds(q) PROVE CounterFits(x)' /\ (admitted[x].count <= Limit)'
  <2>1. /\ UNCHANGED <<clock, rl, admitted>> /\ req[q].at # "idle" /\ req'[q].at # "idle"
        /\ \A p \in Requests : p # q => req'[p] = req[p]
    BY <1>1, <1>6, ProceedsFrame DEF Core
  <2>2. Begun' = Begun
    BY <2>1 DEF Begun
  <2>3. QED
    BY <1>2, <1>3, <2>1, <2>2
<1>7. CASE Tick
  <2>1. clock' = clock + 1 /\ UNCHANGED <<rl, admitted>> /\ Begun' = Begun
    BY <1>7 DEF Tick, Begun
  <2>2. QED
    BY <1>2, <1>3, <2>1
<1>8. QED
  BY <1>1, <1>4, <1>5, <1>6, <1>7, NextCases, GetEffect DEF Core, Outside, UserRevokes, vars

-----------------------------------------------------------------------------
(***************************************************************************)
(* The theorems.                                                           *)
(***************************************************************************)
\* The invariant holds of every behaviour, for any number of requests, Google
\* calls and Google accounts, any limit and any lifetimes.
THEOREM AccountsInvariant == Spec => []AccountsInv
<1>1. Core /\ [Next]_vars => Core'
  <2> SUFFICES ASSUME Core, [Next]_vars PROVE Core'
    OBVIOUS
  <2>1. BudgetHolds'
    BY CountersKept DEF BudgetHolds
  <2>2. QED
    BY <2>1, TypesKept, UsersKept, RequestsKept, CallsKept, CachesKept, CountersKept DEF Core
<1>2. Core => AccountsInv
  BY OneUser DEF Core, AccountsInv
<1>3. QED
  BY InitInv, <1>1, <1>2, PTL DEF Spec

\* A token the cache answers with has not expired at Google
\* (google_access_token.py:59).
THEOREM CachedTokensAreGood == Spec => []CachedTokenIsGood
<1>1. AccountsInv => CachedTokenIsGood
  <2> SUFFICES ASSUME AccountsInv, NEW u \in User, Live(u) PROVE clock < cache[u].token.expires
    BY DEF CachedTokenIsGood
  <2>1. TypeOK /\ CacheFits(u)
    BY DEF AccountsInv
  <2>2. /\ cache[u].until \in Nat /\ cache[u].token.expires \in Nat
        /\ cache[u].until <= cache[u].token.expires
    BY <2>1, Fields, TokenShapes DEF CacheFits, Live
  <2>3. QED
    BY <2>1, <2>2 DEF Live, TypeOK, Clock
<1>2. QED
  BY <1>1, AccountsInvariant, PTL

\* After a disconnect the cache answers with no token that was read after it
\* (disconnect_integration.py:40).
THEOREM DisconnectsAreForgotten == Spec => []DisconnectedIsForgotten
<1>1. AccountsInv => DisconnectedIsForgotten
  BY DEF AccountsInv, DisconnectedIsForgotten, CacheFits, Live
<1>2. QED
  BY <1>1, AccountsInvariant, PTL

\* All logins of one Google account sign in the same user, and one of them at most
\* is told it is new (login_with_google.py:39).
THEOREM LoginsAgree == Spec => []OneUserEach
<1>1. AccountsInv => OneUserEach
  BY DEF AccountsInv
<1>2. QED
  BY <1>1, AccountsInvariant, PTL

\* No caller gets more requests through in a window than the limit
\* (middleware.py:57).
THEOREM BudgetsHold == Spec => []BudgetHolds
<1>1. AccountsInv => BudgetHolds
  BY DEF AccountsInv
<1>2. QED
  BY <1>1, AccountsInvariant, PTL
=============================================================================
