------------------------------ MODULE Accounts ------------------------------
(* User accounts, their sessions and linked wallets: the auth module of the *)
(* backend.  The users are rows of a database, the sessions and the OAuth   *)
(* states keys of Redis.  A request runs in steps, one for each command that *)
(* it awaits, and the steps of all requests interleave.  A save of a row     *)
(* that was read before writes back every column as it was read.             *)
EXTENDS Naturals

CONSTANTS
    Users,          \* Twitter ids, of the users that may log in
    Addresses,      \* Ethereum addresses
    Spellings,      \* ways to spell an address: upper and lower case
    SessionIds,     \* random session ids, used once
    OAuthStates,    \* random OAuth states
    Requests,       \* slots for the requests in progress
    SESSION_TTL,    \* life of a session, in ticks of the clock
    NoRow, NoWallet, NoSession, Unborn

ASSUME AccountsAssumption ==
    /\ SESSION_TTL \in Nat
    /\ Unborn \notin Nat
    /\ NoRow \notin [walletAddress : [address : Addresses, spelling : Spellings] \union {NoWallet}]
    /\ NoSession \notin [user : Users,
                         walletAddress : [address : Addresses, spelling : Spellings] \union {NoWallet},
                         expiresAt : Nat, evictAt : Nat]

VARIABLES
    now,            \* the clock
    users,          \* row of each user
    sessions,       \* session stored under each id
    oauthStates,    \* the states stored in Redis
    request,        \* what each request is doing
    birth,          \* history: when each session was created
    linked,         \* history: the wallets each user has linked
    loggedOut,      \* history: sessions deleted while no request held a copy
    overlapped      \* history: some requests overlapped or were cut short

vars == <<now, users, sessions, oauthStates, request,
          birth, linked, loggedOut, overlapped>>
redis == <<sessions, oauthStates>>
history == <<birth, linked, loggedOut, overlapped>>

(* The database compares spellings.                                          *)
Wallet == [address : Addresses, spelling : Spellings]
Row == [walletAddress : Wallet \union {NoWallet}]
Session == [user : Users, walletAddress : Wallet \union {NoWallet},
            expiresAt : Nat, evictAt : Nat]
Kinds == {"me", "logout", "link", "own"}

Idle == [pc |-> "idle"]
Request ==
         [pc : {"idle", "exchange", "failed"}]
  \union [pc : {"verify"}, state : OAuthStates]
  \union [pc : {"save"}, user : Users, row : Row \union {NoRow}]
  \union [pc : {"create"}, user : Users, row : Row]
  \union [pc : {"refresh"}, sid : SessionIds, session : Session]
  \union [pc : {"expired", "logout"}, sid : SessionIds]
  \union [pc : {"find"}, user : Users]
  \union [pc : {"check", "store"}, user : Users, wallet : Wallet, row : Row]
  \union [pc : {"keys"}, user : Users, wallet : Wallet]
  \union [pc : {"visit"}, user : Users, wallet : Wallet, todo : SUBSET SessionIds]
  \union [pc : {"update"}, user : Users, wallet : Wallet, todo : SUBSET SessionIds,
          sid : SessionIds, session : Session]

-----------------------------------------------------------------------------
Init ==
    /\ now = 0
    /\ users = [u \in Users |-> NoRow]
    /\ sessions = [s \in SessionIds |-> NoSession]
    /\ oauthStates = {}
    /\ request = [r \in Requests |-> Idle]
    /\ birth = [s \in SessionIds |-> Unborn]
    /\ linked = [u \in Users |-> {}]
    /\ loggedOut = {}
    /\ overlapped = FALSE

(* Request r goes on with what it does next.                                 *)
Continue(r, next) == request' = [request EXCEPT ![r] = next]

Begin(r, next) ==
    /\ request[r].pc \in {"idle", "failed"}
    /\ Continue(r, next)
    /\ overlapped' = (overlapped \/ \E q \in Requests \ {r} : request[q] # Idle)

Stored(sid) == sessions[sid] # NoSession

(* SETEX: the key lives for SESSION_TTL from now.                            *)
SetEx(sid, session) ==
    sessions' = [sessions EXCEPT ![sid] = [session EXCEPT !.evictAt = now + SESSION_TTL]]

Del(sid) == sessions' = [sessions EXCEPT ![sid] = NoSession]

Expired(session) == session.expiresAt < now

(* Request r holds a copy of session sid that it may write back.             *)
Holds(r, sid) == request[r].pc \in {"refresh", "update"} /\ request[r].sid = sid

-----------------------------------------------------------------------------
(* The log in.  generateOAuthState stores a random state, here one that is   *)
(* not in use any more.  That it lives for ten minutes only is the case of a *)
(* user who never returns.                                                   *)
GenerateOAuthState(s) ==
    /\ s \notin oauthStates
    /\ ~ \E r \in Requests : request[r] = [pc |-> "verify", state |-> s]
    /\ oauthStates' = oauthStates \union {s}
    /\ UNCHANGED <<now, users, sessions, request, history>>

(* verifyOAuthState looks the state up, and deletes it in a second command.  *)
VerifyOAuthState(r, s) ==
    /\ s \in oauthStates
    /\ Begin(r, [pc |-> "verify", state |-> s])
    /\ UNCHANGED <<now, users, redis, birth, linked, loggedOut>>

DeleteOAuthState(r) ==
    /\ request[r].pc = "verify"
    /\ oauthStates' = oauthStates \ {request[r].state}
    /\ Continue(r, [pc |-> "exchange"])
    /\ UNCHANGED <<now, users, sessions, history>>

(* Twitter answers with the profile of u, whose row is read.                 *)
FindTwitterUser(r, u) ==
    /\ request[r].pc = "exchange"
    /\ Continue(r, [pc |-> "save", user |-> u, row |-> users[u]])
    /\ UNCHANGED <<now, users, redis, history>>

(* Twitter ids and wallets are unique columns: a save fails that would       *)
(* insert a user again, or give a wallet to two.                             *)
TakenByOther(u, wallet) ==
    \E v \in Users \ {u} : users[v] # NoRow /\ users[v].walletAddress = wallet

Rejected(u, row) ==
    IF row = NoRow THEN users[u] # NoRow
    ELSE row.walletAddress # NoWallet /\ TakenByOther(u, row.walletAddress)

(* createOrUpdateUser: a row that was not found is inserted, one that was    *)
(* found is written back.                                                    *)
SaveUser(r) ==
    LET u == request[r].user
        row == request[r].row
        new == IF row = NoRow THEN [walletAddress |-> NoWallet] ELSE row
    IN  /\ request[r].pc = "save"
        /\ IF Rejected(u, row)
           THEN /\ Continue(r, Idle)
                /\ UNCHANGED users
           ELSE /\ Continue(r, [pc |-> "create", user |-> u, row |-> new])
                /\ users' = [users EXCEPT ![u] = new]
        /\ UNCHANGED <<now, redis, history>>

(* Mistaken form: the wallet is left to a later linkWallet.                  *)
NewSessionWithoutWallet(u, row) ==
    [user |-> u, walletAddress |-> NoWallet,
     expiresAt |-> now + SESSION_TTL, evictAt |-> now + SESSION_TTL]

(* createSession, from the row this request has in hand.                     *)
NewSession(u, row) ==
    [user |-> u, walletAddress |-> row.walletAddress,
     expiresAt |-> now + SESSION_TTL, evictAt |-> now + SESSION_TTL]

CreateSession(r, sid) ==
    /\ request[r].pc = "create"
    /\ birth[sid] = Unborn
    /\ SetEx(sid, NewSession(request[r].user, request[r].row))
    /\ birth' = [birth EXCEPT ![sid] = now]
    /\ Continue(r, Idle)
    /\ UNCHANGED <<now, users, oauthStates, linked, loggedOut, overlapped>>

-----------------------------------------------------------------------------
(* AuthGuard.  getSession reads the session; a request without one is        *)
(* answered with 401 and changes nothing.                                    *)
Authenticate(r, sid) ==
    /\ Stored(sid)
    /\ Begin(r, IF Expired(sessions[sid])
                THEN [pc |-> "expired", sid |-> sid]
                ELSE [pc |-> "refresh", sid |-> sid, session |-> sessions[sid]])
    /\ UNCHANGED <<now, users, redis, birth, linked, loggedOut>>

(* The clock is looked at when the answer of Redis arrives, which may be     *)
(* later than the read.                                                      *)
DeleteExpired(r) ==
    /\ \/ request[r].pc = "expired"
       \/ request[r].pc = "refresh" /\ Expired(request[r].session)
    /\ Del(request[r].sid)
    /\ Continue(r, Idle)
    /\ UNCHANGED <<now, users, oauthStates, history>>

(* What follows the guard.  The handlers of kind "own" take the user from    *)
(* req.session, which nothing sets: they throw before they call a service.   *)
Handler(kind, sid, session) ==
    CASE kind = "me" -> Idle
      [] kind = "logout" -> [pc |-> "logout", sid |-> sid]
      [] kind = "link" -> [pc |-> "find", user |-> session.user]
      [] kind = "own" -> [pc |-> "failed"]

(* getSession writes the session back with a new life in Redis, and with the *)
(* expiresAt it was created with.                                            *)
RefreshSession(r, kind) ==
    LET q == request[r]
    IN  /\ q.pc = "refresh"
        /\ SetEx(q.sid, q.session)
        /\ Continue(r, Handler(kind, q.sid, q.session))
        /\ UNCHANGED <<now, users, oauthStates, history>>

(* Mistaken form: the guard writes the session back after the handler.       *)
LogoutBeforeRefresh(r) ==
    LET sid == request[r].sid
    IN  /\ request[r].pc = "logout"
        /\ Del(sid)
        /\ loggedOut' = IF \E q \in Requests : Holds(q, sid)
                        THEN loggedOut ELSE loggedOut \union {sid}
        /\ Continue(r, IF Stored(sid)
                       THEN [pc |-> "refresh", sid |-> sid, session |-> sessions[sid]]
                       ELSE Idle)
        /\ UNCHANGED <<now, users, oauthStates, birth, linked, overlapped>>

(* POST /auth/logout deletes the session after the guard has passed.         *)
Logout(r) ==
    LET sid == request[r].sid
    IN  /\ request[r].pc = "logout"
        /\ Del(sid)
        /\ loggedOut' = IF \E q \in Requests : Holds(q, sid)
                        THEN loggedOut ELSE loggedOut \union {sid}
        /\ Continue(r, Idle)
        /\ UNCHANGED <<now, users, oauthStates, birth, linked, overlapped>>

-----------------------------------------------------------------------------
(* linkWallet.  The row of the user is read, then the row that has the       *)
(* wallet, if there is one, then the first is saved.                         *)
FindUser(r, wallet) ==
    LET u == request[r].user
    IN  /\ request[r].pc = "find"
        /\ users[u] # NoRow
        /\ Continue(r, [pc |-> "check", user |-> u, wallet |-> wallet, row |-> users[u]])
        /\ UNCHANGED <<now, users, redis, history>>

FindWallet(r) ==
    LET q == request[r]
    IN  /\ q.pc = "check"
        /\ Continue(r, IF TakenByOther(q.user, q.wallet)
                       THEN Idle ELSE [q EXCEPT !.pc = "store"])
        /\ UNCHANGED <<now, users, redis, history>>

SaveWallet(r) ==
    LET q == request[r]
    IN  /\ q.pc = "store"
        /\ IF TakenByOther(q.user, q.wallet)
           THEN /\ Continue(r, Idle)
                /\ UNCHANGED <<users, linked>>
           ELSE /\ users' = [users EXCEPT ![q.user] =
                               [q.row EXCEPT !.walletAddress = q.wallet]]
                /\ linked' = [linked EXCEPT ![q.user] = @ \union {q.wallet}]
                /\ Continue(r, [pc |-> "keys", user |-> q.user, wallet |-> q.wallet])
        /\ UNCHANGED <<now, redis, birth, loggedOut, overlapped>>

Visit(q, todo) ==
    IF todo = {} THEN Idle
    ELSE [pc |-> "visit", user |-> q.user, wallet |-> q.wallet, todo |-> todo]

ListSessions(r) ==
    LET q == request[r]
    IN  /\ q.pc = "keys"
        /\ Continue(r, Visit(q, {sid \in SessionIds : Stored(sid)}))
        /\ UNCHANGED <<now, users, redis, history>>

(* Mistaken form: the sessions of everybody are updated.                     *)
IsAnybodys(session, u) == session.user \in Users

(* The sessions are visited one by one: read, and written if they are of     *)
(* this user.                                                                *)
IsOwn(session, u) == session.user = u

(* Mistaken form: a session that was listed and is gone is made anew.        *)
ReadSessionOrNew(r, sid) ==
    LET q == request[r]
        renewed == [user |-> q.user, walletAddress |-> q.wallet,
                    expiresAt |-> now + SESSION_TTL, evictAt |-> now + SESSION_TTL]
    IN  /\ q.pc = "visit"
        /\ sid \in q.todo
        /\ Continue(r, IF Stored(sid) /\ ~IsOwn(sessions[sid], q.user)
                       THEN Visit(q, q.todo \ {sid})
                       ELSE [pc |-> "update", user |-> q.user, wallet |-> q.wallet,
                             todo |-> q.todo \ {sid}, sid |-> sid,
                             session |-> IF Stored(sid) THEN sessions[sid] ELSE renewed])
        /\ UNCHANGED <<now, users, redis, history>>

ReadSession(r, sid) ==
    LET q == request[r]
    IN  /\ q.pc = "visit"
        /\ sid \in q.todo
        /\ Continue(r, IF Stored(sid) /\ IsOwn(sessions[sid], q.user)
                       THEN [pc |-> "update", user |-> q.user, wallet |-> q.wallet,
                             todo |-> q.todo \ {sid}, sid |-> sid,
                             session |-> sessions[sid]]
                       ELSE Visit(q, q.todo \ {sid}))
        /\ UNCHANGED <<now, users, redis, history>>

WriteSession(r) ==
    LET q == request[r]
    IN  /\ q.pc = "update"
        /\ SetEx(q.sid, [q.session EXCEPT !.walletAddress = q.wallet])
        /\ Continue(r, Visit(q, q.todo))
        /\ UNCHANGED <<now, users, oauthStates, history>>

-----------------------------------------------------------------------------
(* A request ends early: Twitter, Redis or the database fails, a cookie is   *)
(* missing, or the server stops.  What it has written stays.                 *)
Abort(r) ==
    /\ request[r] # Idle
    /\ Continue(r, Idle)
    /\ overlapped' = (overlapped \/ request[r].pc # "failed")
    /\ UNCHANGED <<now, users, redis, birth, linked, loggedOut>>

(* Time passes, and Redis drops the keys whose life is over.                 *)
Tick ==
    /\ now' = now + 1
    /\ sessions' = [s \in SessionIds |->
                      IF Stored(s) /\ sessions[s].evictAt < now + 1
                      THEN NoSession ELSE sessions[s]]
    /\ UNCHANGED <<users, oauthStates, request, history>>

Next ==
    \/ \E s \in OAuthStates : GenerateOAuthState(s)
    \/ \E r \in Requests :
         \/ \E s \in OAuthStates : VerifyOAuthState(r, s)
         \/ DeleteOAuthState(r)
         \/ \E u \in Users : FindTwitterUser(r, u)
         \/ SaveUser(r)
         \/ \E sid \in SessionIds : CreateSession(r, sid)
         \/ \E sid \in SessionIds : Authenticate(r, sid)
         \/ DeleteExpired(r)
         \/ \E kind \in Kinds : RefreshSession(r, kind)
         \/ Logout(r)
         \/ \E wallet \in Wallet : FindUser(r, wallet)
         \/ FindWallet(r)
         \/ SaveWallet(r)
         \/ ListSessions(r)
         \/ \E sid \in SessionIds : ReadSession(r, sid)
         \/ WriteSession(r)
         \/ Abort(r)
    \/ Tick

Spec == Init /\ [][Next]_vars

-----------------------------------------------------------------------------
(* Types of the state.                                                       *)
TypeOK ==
    /\ now \in Nat
    /\ users \in [Users -> Row \union {NoRow}]
    /\ sessions \in [SessionIds -> Session \union {NoSession}]
    /\ oauthStates \in SUBSET OAuthStates
    /\ request \in [Requests -> Request]
    /\ birth \in [SessionIds -> Nat \union {Unborn}]
    /\ linked \in [Users -> SUBSET Wallet]
    /\ loggedOut \in SUBSET SessionIds
    /\ overlapped \in BOOLEAN

(* A session acts with a wallet that its own user has linked, or with none:  *)
(* linkWallet, which walks over the sessions of everybody while other        *)
(* requests write theirs back, never gives one the wallet of another.        *)
SessionsCarryOwnWallet ==
    \A sid \in SessionIds : Stored(sid) =>
        sessions[sid].walletAddress \in linked[sessions[sid].user] \union {NoWallet}

(* A session of which Redis has no key and no request a copy is gone for     *)
(* good.  getSession and linkWallet write copies back, so that a log out may *)
(* be undone by requests that overlap with it, but by no request after them. *)
Gone(sid) ==
    /\ birth[sid] # Unborn
    /\ ~Stored(sid)
    /\ ~ \E r \in Requests : Holds(r, sid)

GoneForGood == [][\A sid \in SessionIds : Gone(sid) => Gone(sid)']_vars

(* A log out that no other request overlaps with a copy of the session is    *)
(* final: linkWallet, which lists keys before it reads them, does not revive *)
(* the session.  With an overlap getSession may write it back.               *)
LogoutIsFinalWhenAlone ==
    \A sid \in loggedOut : sessions[sid] = NoSession

(* As long as requests neither overlap nor fail half way, every session has  *)
(* the wallet of the row of its user: createSession copies it, linkWallet    *)
(* updates all copies.                                                       *)
SessionsFollowRows ==
    (~overlapped /\ \A r \in Requests : request[r].pc \in {"idle", "failed"}) =>
        \A sid \in SessionIds : Stored(sid) =>
            /\ users[sessions[sid].user] # NoRow
            /\ sessions[sid].walletAddress = users[sessions[sid].user].walletAddress

-----------------------------------------------------------------------------
(* "Extend session on activity" (auth.service.ts, line 234): a session lives *)
(* as long as its key, which every access prolongs.                          *)
ExtendedOnActivity ==
    \A sid \in SessionIds : Stored(sid) => sessions[sid].evictAt <= sessions[sid].expiresAt

(* What getSession does instead: only the key is prolonged, and the session  *)
(* ends SESSION_TTL after the log in, however active it is.                  *)
LifeEndsOnTime ==
    \A sid \in SessionIds : Stored(sid) =>
        birth[sid] # Unborn /\ sessions[sid].expiresAt = birth[sid] + SESSION_TTL

(* "Wallet address is already linked to another account"                     *)
(* (auth.service.ts): no two accounts have the same address.                 *)
OneAccountPerAddress ==
    \A u, v \in Users : \A w \in Wallet, x \in Wallet :
        (/\ users[u] = [walletAddress |-> w]
         /\ users[v] = [walletAddress |-> x]
         /\ w.address = x.address) => u = v
=============================================================================
