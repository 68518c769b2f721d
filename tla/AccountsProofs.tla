---------------------------- MODULE AccountsProofs ----------------------------
(* Proofs about Accounts for any sets of users, sessions and requests.       *)
EXTENDS Accounts, TLAPS

-----------------------------------------------------------------------------
(* The inductive invariant: what is known of a stored session, of a row, and *)
(* of the copies of both that requests carry.                                *)
Proper(sid, session) ==
    /\ birth[sid] # Unborn
    /\ session.expiresAt = birth[sid] + SESSION_TTL
    /\ session.walletAddress \in linked[session.user] \union {NoWallet}

OwnRow(u, row) ==
    row # NoRow => row.walletAddress \in linked[u] \union {NoWallet}

RequestOK(q) ==
    /\ q \in Request
    /\ q.pc \in {"refresh", "update"} => Proper(q.sid, q.session)
    /\ q.pc \in {"save", "create", "check", "store"} => OwnRow(q.user, q.row)
    /\ q.pc \in {"keys", "visit", "update"} => q.wallet \in linked[q.user]
    /\ q.pc = "update" => q.session.user = q.user
    /\ q.pc \in {"logout", "expired"} => birth[q.sid] # Unborn

SessionsProper == \A sid \in SessionIds : Stored(sid) => Proper(sid, sessions[sid])
RowsOwn == \A u \in Users : OwnRow(u, users[u])
RequestsOK == \A r \in Requests : RequestOK(request[r])
LoggedOutGone ==
    \A sid \in loggedOut :
        /\ sessions[sid] = NoSession
        /\ birth[sid] # Unborn
        /\ \A r \in Requests : ~Holds(r, sid)

IInv == TypeOK /\ SessionsProper /\ RowsOwn /\ RequestsOK /\ LoggedOutGone

(* The histories only grow.                                                  *)
Grows ==
    /\ \A sid \in SessionIds : birth[sid] # Unborn => birth'[sid] = birth[sid]
    /\ \A u \in Users : linked[u] \subseteq linked'[u]

-----------------------------------------------------------------------------
(* The fields of a request, by what it is doing.                             *)
LEMMA RefreshType ==
    ASSUME NEW q \in Request, q.pc = "refresh"
    PROVE  q.sid \in SessionIds /\ q.session \in Session
  BY DEF Request

LEMMA UpdateType ==
    ASSUME NEW q \in Request, q.pc = "update"
    PROVE  /\ q.user \in Users /\ q.wallet \in Wallet /\ q.todo \in SUBSET SessionIds
           /\ q.sid \in SessionIds /\ q.session \in Session
  BY DEF Request

LEMMA VisitType ==
    ASSUME NEW q \in Request, q.pc = "visit"
    PROVE  q.user \in Users /\ q.wallet \in Wallet /\ q.todo \in SUBSET SessionIds
  BY DEF Request

LEMMA KeysType ==
    ASSUME NEW q \in Request, q.pc = "keys"
    PROVE  q.user \in Users /\ q.wallet \in Wallet
  BY DEF Request

LEMMA CheckType ==
    ASSUME NEW q \in Request, q.pc \in {"check", "store"}
    PROVE  q.user \in Users /\ q.wallet \in Wallet /\ q.row \in Row
  BY DEF Request

LEMMA SaveType ==
    ASSUME NEW q \in Request, q.pc = "save"
    PROVE  q.user \in Users /\ q.row \in Row \union {NoRow}
  BY DEF Request

LEMMA CreateType ==
    ASSUME NEW q \in Request, q.pc = "create"
    PROVE  q.user \in Users /\ q.row \in Row
  BY DEF Request

LEMMA FindType ==
    ASSUME NEW q \in Request, q.pc = "find"
    PROVE  q.user \in Users
  BY DEF Request

LEMMA SidType ==
    ASSUME NEW q \in Request, q.pc \in {"logout", "expired"}
    PROVE  q.sid \in SessionIds
  BY DEF Request

LEMMA VerifyType ==
    ASSUME NEW q \in Request, q.pc = "verify"
    PROVE  q.state \in OAuthStates
  BY DEF Request

(* What is known of a session, a row or a request stays known.               *)
LEMMA ProperStays ==
    ASSUME Grows, TypeOK, NEW sid \in SessionIds, NEW session \in Session, Proper(sid, session)
    PROVE  Proper(sid, session)'
  <1>1. session.user \in Users
    BY DEF Session
  <1> QED
    BY <1>1 DEF Grows, Proper

LEMMA OwnRowStays ==
    ASSUME Grows, NEW u \in Users, NEW row, OwnRow(u, row)
    PROVE  OwnRow(u, row)'
  BY DEF Grows, OwnRow

LEMMA RequestStays ==
    ASSUME Grows, TypeOK, NEW q, RequestOK(q)
    PROVE  RequestOK(q)'
  <1>0. q \in Request
    BY DEF RequestOK
  <1>1. ASSUME q.pc \in {"refresh", "update"} PROVE Proper(q.sid, q.session)'
    BY <1>0, <1>1, RefreshType, UpdateType, ProperStays DEF RequestOK
  <1>2. ASSUME q.pc \in {"save", "create", "check", "store"} PROVE OwnRow(q.user, q.row)'
    BY <1>0, <1>2, SaveType, CreateType, CheckType, OwnRowStays DEF RequestOK
  <1>3. ASSUME q.pc \in {"keys", "visit", "update"} PROVE q.wallet \in linked'[q.user]
    BY <1>0, <1>3, KeysType, VisitType, UpdateType DEF RequestOK, Grows
  <1>4. ASSUME q.pc \in {"logout", "expired"} PROVE birth'[q.sid] # Unborn
    BY <1>0, <1>4, SidType DEF RequestOK, Grows
  <1> QED
    BY <1>0, <1>1, <1>2, <1>3, <1>4 DEF RequestOK

(* A step of request r whose new state is as it should be.                   *)
LEMMA RequestStep ==
    ASSUME IInv, Grows, NEW r \in Requests, NEW next, Continue(r, next), RequestOK(next)'
    PROVE  RequestsOK' /\ request' \in [Requests -> Request]
  <1>1. request \in [Requests -> Request]
    BY DEF IInv, TypeOK
  <1>2. next \in Request
    BY DEF RequestOK
  <1>3. request' \in [Requests -> Request]
    BY <1>1, <1>2 DEF Continue
  <1>4. ASSUME NEW q \in Requests PROVE RequestOK(request[q])'
    <2>1. PICK p : p = request'[q]
      OBVIOUS
    <2>2. CASE q = r
      <3>1. p = next
        BY <1>1, <2>1, <2>2 DEF Continue
      <3>2. RequestOK(p)'
        BY <3>1
      <3> QED
        BY <2>1, <3>2 DEF RequestOK, Proper, OwnRow
    <2>3. CASE q # r
      <3>1. p = request[q]
        BY <1>1, <2>1, <2>3 DEF Continue
      <3>2. RequestOK(p) /\ TypeOK
        BY <3>1 DEF IInv, RequestsOK
      <3>3. RequestOK(p)'
        BY <3>2, RequestStays
      <3> QED
        BY <2>1, <3>3 DEF RequestOK, Proper, OwnRow
    <2> QED
      BY <2>2, <2>3
  <1> QED
    BY <1>3, <1>4 DEF RequestsOK

(* Types of everything but the requests.                                     *)
OtherTypes ==
    /\ now \in Nat
    /\ users \in [Users -> Row \union {NoRow}]
    /\ sessions \in [SessionIds -> Session \union {NoSession}]
    /\ oauthStates \in SUBSET OAuthStates
    /\ birth \in [SessionIds -> Nat \union {Unborn}]
    /\ linked \in [Users -> SUBSET Wallet]
    /\ loggedOut \in SUBSET SessionIds
    /\ overlapped \in BOOLEAN

(* A step of a request that logs nobody out and writes no session that was.  *)
LEMMA LoggedOutStep ==
    ASSUME IInv, Grows, NEW r \in Requests, NEW next, Continue(r, next),
           UNCHANGED loggedOut,
           \A sid \in loggedOut : sessions'[sid] = NoSession,
           next.pc \in {"refresh", "update"} => next.sid \notin loggedOut
    PROVE  LoggedOutGone'
  <1>1. request \in [Requests -> Request] /\ loggedOut \in SUBSET SessionIds
    BY DEF IInv, TypeOK
  <1>2. ASSUME NEW sid \in loggedOut, NEW q \in Requests PROVE ~Holds(q, sid)'
    <2>1. CASE q = r
      BY <1>1, <1>2, <2>1 DEF Continue, Holds
    <2>2. CASE q # r
      BY <1>1, <1>2, <2>2 DEF Continue, Holds, IInv, LoggedOutGone
    <2> QED
      BY <2>1, <2>2
  <1>3. ASSUME NEW sid \in loggedOut PROVE birth'[sid] # Unborn
    BY <1>1, <1>3 DEF IInv, LoggedOutGone, Grows, TypeOK
  <1> QED
    BY <1>2, <1>3 DEF LoggedOutGone

(* A step of a request that leaves rows, sessions and histories alone.       *)
LEMMA RequestOnly ==
    ASSUME IInv, NEW r \in Requests, NEW next, Continue(r, next), RequestOK(next),
           UNCHANGED <<now, users, sessions, birth, linked, loggedOut>>,
           oauthStates' \in SUBSET OAuthStates, overlapped' \in BOOLEAN,
           next.pc \in {"refresh", "update"} => next.sid \notin loggedOut
    PROVE  IInv'
  <1>1. Grows
    BY DEF Grows
  <1>2. RequestOK(next)'
    BY <1>1, RequestStays DEF IInv
  <1>3. RequestsOK' /\ request' \in [Requests -> Request]
    BY <1>1, <1>2, RequestStep
  <1>4. LoggedOutGone'
    <2>1. \A sid \in loggedOut : sessions'[sid] = NoSession
      BY DEF IInv, LoggedOutGone
    <2> QED
      BY <1>1, <2>1, LoggedOutStep
  <1>5. TypeOK'
    BY <1>3 DEF IInv, TypeOK
  <1>6. SessionsProper'
    BY DEF IInv, SessionsProper, Stored, Proper
  <1>7. RowsOwn'
    BY DEF IInv, RowsOwn, OwnRow
  <1> QED
    BY <1>3, <1>4, <1>5, <1>6, <1>7 DEF IInv

(* SETEX of a proper session.                                                *)
LEMMA SetExStep ==
    ASSUME IInv, Grows, NEW sid \in SessionIds, NEW session \in Session,
           SetEx(sid, session), Proper(sid, session)', sid \notin loggedOut
    PROVE  /\ sessions' \in [SessionIds -> Session \union {NoSession}]
           /\ SessionsProper'
           /\ \A s \in loggedOut : sessions'[s] = NoSession
  <1> DEFINE new == [session EXCEPT !.evictAt = now + SESSION_TTL]
  <1>1. now + SESSION_TTL \in Nat
    BY AccountsAssumption DEF IInv, TypeOK
  <1>2. new \in Session
    BY <1>1 DEF Session
  <1>3. sessions \in [SessionIds -> Session \union {NoSession}]
        /\ loggedOut \in SUBSET SessionIds
    BY DEF IInv, TypeOK
  <1>4. /\ new.user = session.user
        /\ new.walletAddress = session.walletAddress
        /\ new.expiresAt = session.expiresAt
    BY DEF Session
  <1>5. sessions' = [sessions EXCEPT ![sid] = new]
    BY DEF SetEx
  <1> HIDE DEF new
  <1>6. sessions' \in [SessionIds -> Session \union {NoSession}]
    BY <1>2, <1>3, <1>5
  <1>7. ASSUME NEW s \in SessionIds, Stored(s)' PROVE Proper(s, sessions[s])'
    <2>1. CASE s = sid
      BY <1>3, <1>4, <1>5, <2>1 DEF Proper
    <2>2. CASE s # sid
      <3>1. PICK c : c = sessions[s]
        OBVIOUS
      <3>2. sessions'[s] = c /\ c \in Session
        BY <1>3, <1>5, <1>7, <2>2, <3>1 DEF Stored
      <3>3. Proper(s, c)
        BY <1>7, <3>1, <3>2 DEF IInv, SessionsProper, Stored
      <3>4. Proper(s, c)'
        BY <3>2, <3>3, ProperStays DEF IInv
      <3> QED
        BY <3>2, <3>4 DEF Proper
    <2> QED
      BY <2>1, <2>2
  <1>8. \A s \in loggedOut : sessions'[s] = NoSession
    BY <1>3, <1>5 DEF IInv, LoggedOutGone
  <1> QED
    BY <1>6, <1>7, <1>8 DEF SessionsProper

(* DEL of a session.                                                         *)
LEMMA DelStep ==
    ASSUME IInv, NEW sid \in SessionIds, Del(sid), UNCHANGED <<birth, linked>>
    PROVE  /\ sessions' \in [SessionIds -> Session \union {NoSession}]
           /\ SessionsProper'
           /\ \A s \in loggedOut \union {sid} : sessions'[s] = NoSession
  <1>1. sessions \in [SessionIds -> Session \union {NoSession}]
        /\ loggedOut \in SUBSET SessionIds
    BY DEF IInv, TypeOK
  <1>2. sessions' \in [SessionIds -> Session \union {NoSession}]
    BY <1>1 DEF Del
  <1>3. SessionsProper'
    BY <1>1 DEF IInv, SessionsProper, Stored, Proper, Del
  <1>4. \A s \in loggedOut \union {sid} : sessions'[s] = NoSession
    BY <1>1 DEF IInv, LoggedOutGone, Del
  <1> QED
    BY <1>2, <1>3, <1>4

-----------------------------------------------------------------------------
(* Every action preserves the invariant.  First the actions that only read.  *)
LEMMA RequestFacts ==
    ASSUME IInv, NEW r \in Requests
    PROVE  /\ request[r] \in Request
           /\ RequestOK(request[r])
  BY DEF IInv, TypeOK, RequestsOK

LEMMA OverlapType ==
    ASSUME IInv, NEW P \in BOOLEAN
    PROVE  (overlapped \/ P) \in BOOLEAN
  BY DEF IInv, TypeOK

LEMMA StoredFacts ==
    ASSUME IInv, NEW sid \in SessionIds, Stored(sid)
    PROVE  /\ sessions[sid] \in Session
           /\ Proper(sid, sessions[sid])
           /\ sid \notin loggedOut
  BY DEF IInv, TypeOK, SessionsProper, Stored, LoggedOutGone

LEMMA GenerateInv ==
    ASSUME IInv, NEW s \in OAuthStates, GenerateOAuthState(s)
    PROVE  IInv'
  <1>1. TypeOK'
    BY DEF IInv, TypeOK, GenerateOAuthState, history
  <1>2. SessionsProper' /\ RowsOwn'
    BY DEF IInv, SessionsProper, Stored, Proper, RowsOwn, OwnRow, GenerateOAuthState, history
  <1>3. RequestsOK'
    BY DEF IInv, RequestsOK, RequestOK, Proper, OwnRow, GenerateOAuthState, history
  <1>4. LoggedOutGone'
    BY DEF IInv, LoggedOutGone, Holds, GenerateOAuthState, history
  <1> QED
    BY <1>1, <1>2, <1>3, <1>4 DEF IInv

LEMMA VerifyInv ==
    ASSUME IInv, NEW r \in Requests, NEW s \in OAuthStates, VerifyOAuthState(r, s)
    PROVE  IInv'
  <1>1. PICK next : next = [pc |-> "verify", state |-> s]
    OBVIOUS
  <1>2. RequestOK(next)
    BY <1>1 DEF RequestOK, Request
  <1>3. Continue(r, next)
    BY <1>1 DEF VerifyOAuthState, Begin
  <1>4. overlapped' \in BOOLEAN /\ oauthStates' \in SUBSET OAuthStates
    BY DEF IInv, TypeOK, VerifyOAuthState, Begin, redis
  <1>5. next.pc = "verify"
    BY <1>1
  <1> QED
    BY <1>2, <1>3, <1>4, <1>5, RequestOnly DEF VerifyOAuthState, redis

LEMMA DeleteStateInv ==
    ASSUME IInv, NEW r \in Requests, DeleteOAuthState(r)
    PROVE  IInv'
  <1>1. PICK next : next = [pc |-> "exchange"]
    OBVIOUS
  <1>2. RequestOK(next)
    BY <1>1 DEF RequestOK, Request
  <1>3. Continue(r, next)
    BY <1>1 DEF DeleteOAuthState
  <1>4. overlapped' \in BOOLEAN /\ oauthStates' \in SUBSET OAuthStates
    BY DEF IInv, TypeOK, DeleteOAuthState, history
  <1>5. next.pc = "exchange"
    BY <1>1
  <1> QED
    BY <1>2, <1>3, <1>4, <1>5, RequestOnly DEF DeleteOAuthState, history

LEMMA FindTwitterInv ==
    ASSUME IInv, NEW r \in Requests, NEW u \in Users, FindTwitterUser(r, u)
    PROVE  IInv'
  <1>1. PICK next : next = [pc |-> "save", user |-> u, row |-> users[u]]
    OBVIOUS
  <1>2. users[u] \in Row \union {NoRow} /\ OwnRow(u, users[u])
    BY DEF IInv, TypeOK, RowsOwn
  <1>3. RequestOK(next)
    BY <1>1, <1>2 DEF RequestOK, Request
  <1>4. Continue(r, next)
    BY <1>1 DEF FindTwitterUser
  <1>5. overlapped' \in BOOLEAN /\ oauthStates' \in SUBSET OAuthStates
    BY DEF IInv, TypeOK, FindTwitterUser, redis, history
  <1>6. next.pc = "save"
    BY <1>1
  <1> QED
    BY <1>3, <1>4, <1>5, <1>6, RequestOnly DEF FindTwitterUser, redis, history

LEMMA AuthenticateInv ==
    ASSUME IInv, NEW r \in Requests, NEW sid \in SessionIds, Authenticate(r, sid)
    PROVE  IInv'
  <1>1. PICK next : next = IF Expired(sessions[sid])
                           THEN [pc |-> "expired", sid |-> sid]
                           ELSE [pc |-> "refresh", sid |-> sid, session |-> sessions[sid]]
    OBVIOUS
  <1>2. /\ sessions[sid] \in Session
        /\ Proper(sid, sessions[sid])
        /\ sid \notin loggedOut
    BY StoredFacts DEF Authenticate
  <1>3. Continue(r, next)
    BY <1>1 DEF Authenticate, Begin
  <1>4. overlapped' \in BOOLEAN /\ oauthStates' \in SUBSET OAuthStates
    BY DEF IInv, TypeOK, Authenticate, Begin, redis
  <1>5. UNCHANGED <<now, users, sessions, birth, linked, loggedOut>>
    BY DEF Authenticate, redis
  <1>6. CASE next = [pc |-> "expired", sid |-> sid]
    <2>1. RequestOK(next)
      BY <1>2, <1>6 DEF RequestOK, Request, Proper
    <2>2. next.pc = "expired"
      BY <1>6
    <2> QED
      BY <1>3, <1>4, <1>5, <2>1, <2>2, RequestOnly
  <1>7. CASE next = [pc |-> "refresh", sid |-> sid, session |-> sessions[sid]]
    <2>1. next \in Request
      BY <1>2, <1>7 DEF Request
    <2>2. next.pc = "refresh" /\ next.sid = sid /\ next.session = sessions[sid]
      BY <1>7
    <2>3. RequestOK(next)
      BY <1>2, <2>1, <2>2 DEF RequestOK
    <2> QED
      BY <1>2, <1>3, <1>4, <1>5, <2>2, <2>3, RequestOnly
  <1> QED
    BY <1>1, <1>6, <1>7

LEMMA FindUserInv ==
    ASSUME IInv, NEW r \in Requests, NEW wallet \in Wallet, FindUser(r, wallet)
    PROVE  IInv'
  <1> DEFINE u == request[r].user
  <1>1. PICK next : next = [pc |-> "check", user |-> u, wallet |-> wallet, row |-> users[u]]
    OBVIOUS
  <1>2. u \in Users
    BY RequestFacts, FindType DEF FindUser
  <1>3. users[u] \in Row /\ OwnRow(u, users[u])
    BY <1>2 DEF IInv, TypeOK, RowsOwn, FindUser
  <1>4. RequestOK(next)
    BY <1>1, <1>2, <1>3 DEF RequestOK, Request
  <1>5. Continue(r, next)
    BY <1>1 DEF FindUser
  <1>6. overlapped' \in BOOLEAN /\ oauthStates' \in SUBSET OAuthStates
    BY DEF IInv, TypeOK, FindUser, redis, history
  <1>7. next.pc = "check"
    BY <1>1
  <1> QED
    BY <1>4, <1>5, <1>6, <1>7, RequestOnly DEF FindUser, redis, history

LEMMA IdleOK == RequestOK(Idle) /\ Idle.pc = "idle"
  BY DEF Idle, RequestOK, Request

(* A request that ends leaves the rest alone.                                *)
LEMMA EndOnly ==
    ASSUME IInv, NEW r \in Requests, Continue(r, Idle),
           UNCHANGED <<now, users, sessions, oauthStates, birth, linked, loggedOut>>,
           overlapped' \in BOOLEAN
    PROVE  IInv'
  <1>1. PICK next : next = Idle
    OBVIOUS
  <1>2. RequestOK(next) /\ next.pc = "idle" /\ Continue(r, next)
    BY <1>1, IdleOK
  <1>3. oauthStates' \in SUBSET OAuthStates
    BY DEF IInv, TypeOK
  <1> QED
    BY <1>2, <1>3, RequestOnly

LEMMA FindWalletInv ==
    ASSUME IInv, NEW r \in Requests, FindWallet(r)
    PROVE  IInv'
  <1>1. PICK q : q = request[r]
    OBVIOUS
  <1>2. q \in Request /\ RequestOK(q) /\ q.pc = "check"
    BY <1>1, RequestFacts DEF FindWallet
  <1>3. q.user \in Users /\ q.wallet \in Wallet /\ q.row \in Row
    BY <1>2, CheckType
  <1>4. /\ overlapped' \in BOOLEAN /\ oauthStates' \in SUBSET OAuthStates
        /\ UNCHANGED <<now, users, sessions, oauthStates, birth, linked, loggedOut>>
    BY DEF IInv, TypeOK, FindWallet, redis, history
  <1>5. CASE Continue(r, Idle)
    BY <1>4, <1>5, EndOnly
  <1>6. CASE Continue(r, [q EXCEPT !.pc = "store"])
    <2>1. PICK next : next = [q EXCEPT !.pc = "store"]
      OBVIOUS
    <2>2. q = [pc |-> "check", user |-> q.user, wallet |-> q.wallet, row |-> q.row]
      BY <1>2 DEF Request
    <2>3. next = [pc |-> "store", user |-> q.user, wallet |-> q.wallet, row |-> q.row]
      BY <2>1, <2>2
    <2>4. next \in Request
      BY <1>3, <2>3 DEF Request
    <2>5. OwnRow(q.user, q.row)
      BY <1>2 DEF RequestOK
    <2>6. RequestOK(next) /\ next.pc = "store"
      BY <2>3, <2>4, <2>5 DEF RequestOK
    <2> QED
      BY <1>4, <1>6, <2>1, <2>6, RequestOnly
  <1> QED
    BY <1>1, <1>5, <1>6 DEF FindWallet

(* What linkWallet goes on with: the next session, or nothing.               *)
LEMMA VisitOK ==
    ASSUME NEW q, q.user \in Users, q.wallet \in Wallet, q.wallet \in linked[q.user],
           NEW todo \in SUBSET SessionIds
    PROVE  /\ RequestOK(Visit(q, todo))
           /\ Visit(q, todo).pc \in {"idle", "visit"}
  <1>1. CASE todo = {}
    BY <1>1, IdleOK DEF Visit
  <1>2. CASE todo # {}
    <2>1. Visit(q, todo) = [pc |-> "visit", user |-> q.user, wallet |-> q.wallet, todo |-> todo]
      BY <1>2 DEF Visit
    <2>2. Visit(q, todo) \in Request
      BY <2>1 DEF Request
    <2> QED
      BY <2>1, <2>2 DEF RequestOK
  <1> QED
    BY <1>1, <1>2

LEMMA ListSessionsInv ==
    ASSUME IInv, NEW r \in Requests, ListSessions(r)
    PROVE  IInv'
  <1>1. PICK q : q = request[r]
    OBVIOUS
  <1>2. q \in Request /\ RequestOK(q) /\ q.pc = "keys"
    BY <1>1, RequestFacts DEF ListSessions
  <1>3. q.user \in Users /\ q.wallet \in Wallet /\ q.wallet \in linked[q.user]
    BY <1>2, KeysType DEF RequestOK
  <1>4. PICK todo : todo = {sid \in SessionIds : Stored(sid)}
    OBVIOUS
  <1>5. PICK next : next = Visit(q, todo)
    OBVIOUS
  <1>6. RequestOK(next) /\ next.pc \in {"idle", "visit"}
    BY <1>3, <1>4, <1>5, VisitOK
  <1>7. Continue(r, next)
    BY <1>1, <1>4, <1>5 DEF ListSessions
  <1>8. overlapped' \in BOOLEAN /\ oauthStates' \in SUBSET OAuthStates
    BY DEF IInv, TypeOK, ListSessions, redis, history
  <1> QED
    BY <1>6, <1>7, <1>8, RequestOnly DEF ListSessions, redis, history

LEMMA ReadSessionInv ==
    ASSUME IInv, NEW r \in Requests, NEW sid \in SessionIds, ReadSession(r, sid)
    PROVE  IInv'
  <1>1. PICK q : q = request[r]
    OBVIOUS
  <1>2. q \in Request /\ RequestOK(q) /\ q.pc = "visit"
    BY <1>1, RequestFacts DEF ReadSession
  <1>3. /\ q.user \in Users /\ q.wallet \in Wallet /\ q.wallet \in linked[q.user]
        /\ q.todo \in SUBSET SessionIds
    BY <1>2, VisitType DEF RequestOK
  <1>4. /\ overlapped' \in BOOLEAN /\ oauthStates' \in SUBSET OAuthStates
        /\ UNCHANGED <<now, users, sessions, birth, linked, loggedOut>>
    BY DEF IInv, TypeOK, ReadSession, redis, history
  <1>5. CASE Stored(sid) /\ IsOwn(sessions[sid], q.user)
    <2>1. PICK next : next = [pc |-> "update", user |-> q.user, wallet |-> q.wallet,
                              todo |-> q.todo \ {sid}, sid |-> sid,
                              session |-> sessions[sid]]
      OBVIOUS
    <2>2. /\ sessions[sid] \in Session
          /\ Proper(sid, sessions[sid])
          /\ sid \notin loggedOut
      BY <1>5, StoredFacts
    <2>3. next \in Request
      BY <1>3, <2>1, <2>2 DEF Request
    <2>4. /\ next.pc = "update" /\ next.user = q.user /\ next.wallet = q.wallet
          /\ next.sid = sid /\ next.session = sessions[sid]
      BY <2>1
    <2>5. RequestOK(next)
      BY <1>3, <1>5, <2>2, <2>3, <2>4 DEF RequestOK, IsOwn
    <2>6. Continue(r, next)
      BY <1>1, <1>5, <2>1 DEF ReadSession
    <2> QED
      BY <1>4, <2>2, <2>4, <2>5, <2>6, RequestOnly
  <1>6. CASE ~(Stored(sid) /\ IsOwn(sessions[sid], q.user))
    <2>1. PICK next : next = Visit(q, q.todo \ {sid})
      OBVIOUS
    <2>2. RequestOK(next) /\ next.pc \in {"idle", "visit"}
      BY <1>3, <2>1, VisitOK
    <2>3. Continue(r, next)
      BY <1>1, <1>6, <2>1 DEF ReadSession
    <2> QED
      BY <1>4, <2>2, <2>3, RequestOnly
  <1> QED
    BY <1>5, <1>6

LEMMA AbortInv ==
    ASSUME IInv, NEW r \in Requests, Abort(r)
    PROVE  IInv'
  <1>1. overlapped' \in BOOLEAN
    BY DEF IInv, TypeOK, Abort
  <1> QED
    BY <1>1, EndOnly DEF Abort, redis

-----------------------------------------------------------------------------
(* The actions that write a row.                                             *)
LEMMA SaveUserInv ==
    ASSUME IInv, NEW r \in Requests, SaveUser(r)
    PROVE  IInv'
  <1>1. PICK u, row : u = request[r].user /\ row = request[r].row
    OBVIOUS
  <1>2. RequestOK(request[r]) /\ request[r].pc = "save"
    BY RequestFacts DEF SaveUser
  <1>3. u \in Users /\ row \in Row \union {NoRow} /\ OwnRow(u, row)
    BY <1>1, <1>2, SaveType DEF RequestOK
  <1>4. UNCHANGED <<now, sessions, oauthStates, birth, linked, loggedOut, overlapped>>
    BY DEF SaveUser, redis, history
  <1>5. CASE Rejected(u, row)
    <2>1. Continue(r, Idle) /\ UNCHANGED users
      BY <1>1, <1>5 DEF SaveUser
    <2>2. overlapped' \in BOOLEAN
      BY <1>4 DEF IInv, TypeOK
    <2> QED
      BY <1>4, <2>1, <2>2, EndOnly
  <1>6. CASE ~Rejected(u, row)
    <2>1. PICK new : new = IF row = NoRow THEN [walletAddress |-> NoWallet] ELSE row
      OBVIOUS
    <2>2. PICK next : next = [pc |-> "create", user |-> u, row |-> new]
      OBVIOUS
    <2>3. Continue(r, next) /\ users' = [users EXCEPT ![u] = new]
      BY <1>1, <1>6, <2>1, <2>2 DEF SaveUser
    <2>4. new \in Row /\ new.walletAddress \in linked[u] \union {NoWallet}
      BY <1>3, <2>1 DEF OwnRow, Row
    <2>5. RequestOK(next)
      BY <1>3, <2>2, <2>4 DEF RequestOK, Request, OwnRow
    <2>6. Grows
      BY <1>4 DEF Grows
    <2>7. RequestOK(next)'
      BY <2>5, <2>6, RequestStays DEF IInv
    <2>8. RequestsOK' /\ request' \in [Requests -> Request]
      BY <2>3, <2>6, <2>7, RequestStep
    <2>9. LoggedOutGone'
      <3>1. \A sid \in loggedOut : sessions'[sid] = NoSession
        BY <1>4 DEF IInv, LoggedOutGone
      <3>2. next.pc = "create"
        BY <2>2
      <3> QED
        BY <1>4, <2>3, <2>6, <3>1, <3>2, LoggedOutStep
    <2>10. TypeOK'
      BY <1>3, <1>4, <2>3, <2>4, <2>8 DEF IInv, TypeOK
    <2>11. SessionsProper'
      BY <1>4 DEF IInv, SessionsProper, Stored, Proper
    <2>12. RowsOwn'
      BY <1>3, <1>4, <2>3, <2>4 DEF IInv, TypeOK, RowsOwn, OwnRow
    <2> QED
      BY <2>8, <2>9, <2>10, <2>11, <2>12 DEF IInv
  <1> QED
    BY <1>5, <1>6

LEMMA SaveWalletInv ==
    ASSUME IInv, NEW r \in Requests, SaveWallet(r)
    PROVE  IInv'
  <1>1. PICK q : q = request[r]
    OBVIOUS
  <1>2. q \in Request /\ RequestOK(q) /\ q.pc = "store"
    BY <1>1, RequestFacts DEF SaveWallet
  <1>3. q.user \in Users /\ q.wallet \in Wallet /\ q.row \in Row
    BY <1>2, CheckType
  <1>4. UNCHANGED <<now, sessions, oauthStates, birth, loggedOut, overlapped>>
    BY DEF SaveWallet, redis
  <1>5. CASE TakenByOther(q.user, q.wallet)
    <2>1. Continue(r, Idle) /\ UNCHANGED <<users, linked>>
      BY <1>1, <1>5 DEF SaveWallet
    <2>2. overlapped' \in BOOLEAN
      BY <1>4 DEF IInv, TypeOK
    <2> QED
      BY <1>4, <2>1, <2>2, EndOnly
  <1>6. CASE ~TakenByOther(q.user, q.wallet)
    <2>1. PICK next : next = [pc |-> "keys", user |-> q.user, wallet |-> q.wallet]
      OBVIOUS
    <2>2. PICK new : new = [q.row EXCEPT !.walletAddress = q.wallet]
      OBVIOUS
    <2>3. /\ Continue(r, next)
          /\ users' = [users EXCEPT ![q.user] = new]
          /\ linked' = [linked EXCEPT ![q.user] = @ \union {q.wallet}]
      BY <1>1, <1>6, <2>1, <2>2 DEF SaveWallet
    <2>4. new \in Row /\ new.walletAddress = q.wallet
      BY <1>3, <2>2 DEF Row
    <2>5. linked \in [Users -> SUBSET Wallet] /\ users \in [Users -> Row \union {NoRow}]
      BY DEF IInv, TypeOK
    <2>6. /\ q.wallet \in linked'[q.user]
          /\ \A u \in Users : linked[u] \subseteq linked'[u]
          /\ linked' \in [Users -> SUBSET Wallet]
      BY <1>3, <2>3, <2>5
    <2>7. Grows
      BY <1>4, <2>6 DEF Grows
    <2>8. RequestOK(next)'
      BY <1>3, <2>1, <2>6 DEF RequestOK, Request
    <2>9. RequestsOK' /\ request' \in [Requests -> Request]
      BY <2>3, <2>7, <2>8, RequestStep
    <2>10. LoggedOutGone'
      <3>1. \A sid \in loggedOut : sessions'[sid] = NoSession
        BY <1>4 DEF IInv, LoggedOutGone
      <3>2. next.pc = "keys"
        BY <2>1
      <3> QED
        BY <1>4, <2>3, <2>7, <3>1, <3>2, LoggedOutStep
    <2>11. TypeOK'
      BY <1>3, <1>4, <2>3, <2>4, <2>5, <2>6, <2>9 DEF IInv, TypeOK
    <2>12. SessionsProper'
      <3>1. ASSUME NEW sid \in SessionIds, Stored(sid)' PROVE Proper(sid, sessions[sid])'
        <4>1. PICK c : c = sessions[sid]
          OBVIOUS
        <4>2. Stored(sid)
          BY <1>4, <3>1 DEF Stored
        <4>3. c \in Session /\ Proper(sid, c)
          BY <4>1, <4>2, StoredFacts
        <4>4. Proper(sid, c)'
          BY <2>7, <4>3, ProperStays DEF IInv
        <4> QED
          BY <1>4, <4>1, <4>4 DEF Proper
      <3> QED
        BY <3>1 DEF SessionsProper
    <2>13. RowsOwn'
      <3>1. ASSUME NEW u \in Users PROVE OwnRow(u, users[u])'
        <4>1. CASE u = q.user
          BY <1>3, <2>3, <2>4, <2>5, <2>6, <4>1 DEF OwnRow
        <4>2. CASE u # q.user
          BY <2>3, <2>5, <2>6, <4>2 DEF IInv, RowsOwn, OwnRow
        <4> QED
          BY <4>1, <4>2
      <3> QED
        BY <3>1 DEF RowsOwn
    <2> QED
      BY <2>9, <2>10, <2>11, <2>12, <2>13 DEF IInv
  <1> QED
    BY <1>5, <1>6

-----------------------------------------------------------------------------
(* The actions that write a session.                                         *)
LEMMA CreateSessionInv ==
    ASSUME IInv, NEW r \in Requests, NEW sid \in SessionIds, CreateSession(r, sid)
    PROVE  IInv'
  <1>1. PICK u, row : u = request[r].user /\ row = request[r].row
    OBVIOUS
  <1>2. u \in Users /\ row \in Row /\ OwnRow(u, row)
    BY <1>1, RequestFacts, CreateType DEF CreateSession, RequestOK
  <1>3. PICK session : session = NewSession(u, row)
    OBVIOUS
  <1>4. now + SESSION_TTL \in Nat /\ now \in Nat /\ now # Unborn
    BY AccountsAssumption DEF IInv, TypeOK
  <1>5. /\ session \in Session
        /\ session.user = u
        /\ session.walletAddress = row.walletAddress
        /\ session.expiresAt = now + SESSION_TTL
    BY <1>2, <1>3, <1>4 DEF NewSession, Session, Row
  <1>6. /\ UNCHANGED <<now, users, oauthStates, linked, loggedOut, overlapped>>
        /\ Continue(r, Idle)
        /\ birth[sid] = Unborn
        /\ birth' = [birth EXCEPT ![sid] = now]
        /\ SetEx(sid, session)
    BY <1>1, <1>3 DEF CreateSession
  <1>7. birth \in [SessionIds -> Nat \union {Unborn}]
    BY DEF IInv, TypeOK
  <1>8. Grows
    BY <1>6, <1>7 DEF Grows
  <1>9. sid \notin loggedOut
    BY <1>6 DEF IInv, LoggedOutGone
  <1>10. row.walletAddress \in linked[u] \union {NoWallet}
    BY <1>2, AccountsAssumption DEF OwnRow, Row, Wallet
  <1>11. Proper(sid, session)'
    BY <1>4, <1>5, <1>6, <1>7, <1>10 DEF Proper
  <1>12. /\ sessions' \in [SessionIds -> Session \union {NoSession}]
         /\ SessionsProper'
         /\ \A s \in loggedOut : sessions'[s] = NoSession
    BY <1>5, <1>6, <1>8, <1>9, <1>11, SetExStep
  <1>13. PICK next : next = Idle
    OBVIOUS
  <1>14. RequestOK(next) /\ next.pc = "idle" /\ Continue(r, next)
    BY <1>6, <1>13, IdleOK
  <1>15. RequestOK(next)'
    BY <1>8, <1>14, RequestStays DEF IInv
  <1>16. RequestsOK' /\ request' \in [Requests -> Request]
    BY <1>8, <1>14, <1>15, RequestStep
  <1>17. LoggedOutGone'
    BY <1>6, <1>8, <1>12, <1>14, LoggedOutStep
  <1>18. TypeOK'
    BY <1>4, <1>6, <1>7, <1>12, <1>16 DEF IInv, TypeOK
  <1>19. RowsOwn'
    BY <1>6 DEF IInv, RowsOwn, OwnRow
  <1> QED
    BY <1>12, <1>16, <1>17, <1>18, <1>19 DEF IInv

(* A request writes back the copy of a session that it holds.                *)
LEMMA WriteBackInv ==
    ASSUME IInv, NEW r \in Requests, NEW sid \in SessionIds, Holds(r, sid),
           NEW session \in Session, SetEx(sid, session), Proper(sid, session),
           NEW next, Continue(r, next), RequestOK(next),
           next.pc \notin {"refresh", "update"},
           UNCHANGED <<now, users, oauthStates, birth, linked, loggedOut, overlapped>>
    PROVE  IInv'
  <1>1. Grows
    BY DEF Grows
  <1>2. sid \notin loggedOut
    BY DEF IInv, LoggedOutGone
  <1>3. Proper(sid, session)'
    BY <1>1, ProperStays DEF IInv
  <1>4. /\ sessions' \in [SessionIds -> Session \union {NoSession}]
        /\ SessionsProper'
        /\ \A s \in loggedOut : sessions'[s] = NoSession
    BY <1>1, <1>2, <1>3, SetExStep
  <1>5. RequestOK(next)'
    BY <1>1, RequestStays DEF IInv
  <1>6. RequestsOK' /\ request' \in [Requests -> Request]
    BY <1>1, <1>5, RequestStep
  <1>7. LoggedOutGone'
    BY <1>1, <1>4, LoggedOutStep
  <1>8. TypeOK'
    BY <1>4, <1>6 DEF IInv, TypeOK
  <1>9. RowsOwn'
    BY DEF IInv, RowsOwn, OwnRow
  <1> QED
    BY <1>4, <1>6, <1>7, <1>8, <1>9 DEF IInv

LEMMA HandlerOK ==
    ASSUME IInv, NEW kind \in Kinds, NEW sid \in SessionIds, birth[sid] # Unborn,
           NEW session \in Session
    PROVE  /\ RequestOK(Handler(kind, sid, session))
           /\ Handler(kind, sid, session).pc \notin {"refresh", "update"}
  <1>1. CASE kind = "me"
    BY <1>1, IdleOK DEF Handler
  <1>2. CASE kind = "logout"
    BY <1>2 DEF Handler, RequestOK, Request
  <1>3. CASE kind = "link"
    BY <1>3 DEF Handler, RequestOK, Request, Session
  <1>4. CASE kind = "own"
    BY <1>4 DEF Handler, RequestOK, Request
  <1> QED
    BY <1>1, <1>2, <1>3, <1>4 DEF Kinds

LEMMA RefreshInv ==
    ASSUME IInv, NEW r \in Requests, NEW kind \in Kinds, RefreshSession(r, kind)
    PROVE  IInv'
  <1>1. PICK q : q = request[r]
    OBVIOUS
  <1>2. q \in Request /\ RequestOK(q) /\ q.pc = "refresh"
    BY <1>1, RequestFacts DEF RefreshSession
  <1>3. q.sid \in SessionIds /\ q.session \in Session /\ Proper(q.sid, q.session)
    BY <1>2, RefreshType DEF RequestOK
  <1>4. PICK next : next = Handler(kind, q.sid, q.session)
    OBVIOUS
  <1>5. RequestOK(next) /\ next.pc \notin {"refresh", "update"}
    BY <1>3, <1>4, HandlerOK DEF Proper
  <1>6. /\ SetEx(q.sid, q.session)
        /\ Continue(r, next)
        /\ UNCHANGED <<now, users, oauthStates, birth, linked, loggedOut, overlapped>>
    BY <1>1, <1>4 DEF RefreshSession, history
  <1>7. Holds(r, q.sid)
    BY <1>1, <1>2 DEF Holds
  <1> QED
    BY <1>3, <1>5, <1>6, <1>7, WriteBackInv

LEMMA WriteSessionInv ==
    ASSUME IInv, NEW r \in Requests, WriteSession(r)
    PROVE  IInv'
  <1>1. PICK q : q = request[r]
    OBVIOUS
  <1>2. q \in Request /\ RequestOK(q) /\ q.pc = "update"
    BY <1>1, RequestFacts DEF WriteSession
  <1>3. /\ q.user \in Users /\ q.wallet \in Wallet /\ q.todo \in SUBSET SessionIds
        /\ q.sid \in SessionIds /\ q.session \in Session
    BY <1>2, UpdateType
  <1>4. /\ Proper(q.sid, q.session)
        /\ q.wallet \in linked[q.user]
        /\ q.session.user = q.user
    BY <1>2 DEF RequestOK
  <1>5. PICK session : session = [q.session EXCEPT !.walletAddress = q.wallet]
    OBVIOUS
  <1>6. /\ session \in Session
        /\ session.user = q.user
        /\ session.walletAddress = q.wallet
        /\ session.expiresAt = q.session.expiresAt
    BY <1>3, <1>4, <1>5 DEF Session
  <1>7. Proper(q.sid, session)
    BY <1>4, <1>6 DEF Proper
  <1>8. PICK next : next = Visit(q, q.todo)
    OBVIOUS
  <1>9. RequestOK(next) /\ next.pc \in {"idle", "visit"}
    BY <1>3, <1>4, <1>8, VisitOK
  <1>10. /\ SetEx(q.sid, session)
         /\ Continue(r, next)
         /\ UNCHANGED <<now, users, oauthStates, birth, linked, loggedOut, overlapped>>
    BY <1>1, <1>5, <1>8 DEF WriteSession, history
  <1>11. Holds(r, q.sid)
    BY <1>1, <1>2 DEF Holds
  <1> QED
    BY <1>3, <1>6, <1>7, <1>9, <1>10, <1>11, WriteBackInv

LEMMA DeleteExpiredInv ==
    ASSUME IInv, NEW r \in Requests, DeleteExpired(r)
    PROVE  IInv'
  <1>1. PICK sid : sid = request[r].sid
    OBVIOUS
  <1>2. sid \in SessionIds
    BY <1>1, RequestFacts, SidType, RefreshType DEF DeleteExpired
  <1>3. /\ Del(sid) /\ Continue(r, Idle)
        /\ UNCHANGED <<now, users, oauthStates, birth, linked, loggedOut, overlapped>>
    BY <1>1 DEF DeleteExpired, history
  <1>4. /\ sessions' \in [SessionIds -> Session \union {NoSession}]
        /\ SessionsProper'
        /\ \A s \in loggedOut : sessions'[s] = NoSession
    BY <1>2, <1>3, DelStep
  <1>5. Grows
    BY <1>3 DEF Grows
  <1>6. PICK next : next = Idle
    OBVIOUS
  <1>7. RequestOK(next) /\ next.pc = "idle" /\ Continue(r, next)
    BY <1>3, <1>6, IdleOK
  <1>8. RequestOK(next)'
    BY <1>5, <1>7, RequestStays DEF IInv
  <1>9. RequestsOK' /\ request' \in [Requests -> Request]
    BY <1>5, <1>7, <1>8, RequestStep
  <1>10. LoggedOutGone'
    BY <1>3, <1>4, <1>5, <1>7, LoggedOutStep
  <1>11. TypeOK'
    BY <1>3, <1>4, <1>9 DEF IInv, TypeOK
  <1>12. RowsOwn'
    BY <1>3 DEF IInv, RowsOwn, OwnRow
  <1> QED
    BY <1>4, <1>9, <1>10, <1>11, <1>12 DEF IInv

LEMMA LogoutInv ==
    ASSUME IInv, NEW r \in Requests, Logout(r)
    PROVE  IInv'
  <1>1. PICK sid : sid = request[r].sid
    OBVIOUS
  <1>2. request[r].pc = "logout" /\ sid \in SessionIds /\ birth[sid] # Unborn
    BY <1>1, RequestFacts, SidType DEF Logout, RequestOK
  <1>3. /\ Del(sid) /\ Continue(r, Idle)
        /\ UNCHANGED <<now, users, oauthStates, birth, linked, overlapped>>
        /\ loggedOut' = IF \E q \in Requests : Holds(q, sid)
                        THEN loggedOut ELSE loggedOut \union {sid}
    BY <1>1 DEF Logout
  <1>4. /\ sessions' \in [SessionIds -> Session \union {NoSession}]
        /\ SessionsProper'
        /\ \A s \in loggedOut \union {sid} : sessions'[s] = NoSession
    BY <1>2, <1>3, DelStep
  <1>5. Grows
    BY <1>3 DEF Grows
  <1>6. PICK next : next = Idle
    OBVIOUS
  <1>7. RequestOK(next) /\ next.pc = "idle" /\ Continue(r, next)
    BY <1>3, <1>6, IdleOK
  <1>8. RequestOK(next)'
    BY <1>5, <1>7, RequestStays DEF IInv
  <1>9. RequestsOK' /\ request' \in [Requests -> Request]
    BY <1>5, <1>7, <1>8, RequestStep
  <1>10. LoggedOutGone'
    <2>1. request \in [Requests -> Request]
      BY DEF IInv, TypeOK
    <2>2. ASSUME NEW s \in loggedOut', NEW q \in Requests PROVE ~Holds(q, s)
      BY <1>3, <2>2 DEF IInv, LoggedOutGone
    <2>3. ASSUME NEW s \in loggedOut', NEW q \in Requests PROVE ~Holds(q, s)'
      <3>1. CASE q = r
        BY <1>7, <2>1, <3>1 DEF Continue, Holds
      <3>2. CASE q # r
        BY <1>7, <2>1, <2>2, <3>2 DEF Continue, Holds
      <3> QED
        BY <3>1, <3>2
    <2>4. ASSUME NEW s \in loggedOut' PROVE sessions'[s] = NoSession /\ birth'[s] # Unborn
      BY <1>2, <1>3, <1>4 DEF IInv, LoggedOutGone
    <2> QED
      BY <2>3, <2>4 DEF LoggedOutGone
  <1>11. TypeOK'
    BY <1>2, <1>3, <1>4, <1>9 DEF IInv, TypeOK
  <1>12. RowsOwn'
    BY <1>3 DEF IInv, RowsOwn, OwnRow
  <1> QED
    BY <1>4, <1>9, <1>10, <1>11, <1>12 DEF IInv

LEMMA TickInv ==
    ASSUME IInv, Tick
    PROVE  IInv'
  <1>1. /\ now' = now + 1 /\ now \in Nat
        /\ UNCHANGED <<users, oauthStates, request, birth, linked, loggedOut, overlapped>>
    BY DEF IInv, TypeOK, Tick, history
  <1>2. sessions \in [SessionIds -> Session \union {NoSession}]
        /\ loggedOut \in SUBSET SessionIds
    BY DEF IInv, TypeOK
  <1>3. \A s \in SessionIds : sessions'[s] \in {sessions[s], NoSession}
    BY <1>2 DEF Tick
  <1>4. sessions' \in [SessionIds -> Session \union {NoSession}]
    BY <1>2 DEF Tick
  <1>5. TypeOK'
    BY <1>1, <1>4 DEF IInv, TypeOK
  <1>6. SessionsProper'
    BY <1>1, <1>3 DEF IInv, SessionsProper, Stored, Proper
  <1>7. RowsOwn'
    BY <1>1 DEF IInv, RowsOwn, OwnRow
  <1>8. RequestsOK'
    BY <1>1 DEF IInv, RequestsOK, RequestOK, Proper, OwnRow
  <1>9. LoggedOutGone'
    BY <1>1, <1>2, <1>3 DEF IInv, LoggedOutGone, Holds
  <1> QED
    BY <1>5, <1>6, <1>7, <1>8, <1>9 DEF IInv

-----------------------------------------------------------------------------
LEMMA InitInv == Init => IInv
  <1> SUFFICES ASSUME Init PROVE IInv
    OBVIOUS
  <1>1. TypeOK
    BY DEF Init, TypeOK, Idle, Request
  <1>2. SessionsProper /\ RowsOwn /\ LoggedOutGone
    BY DEF Init, SessionsProper, Stored, RowsOwn, OwnRow, LoggedOutGone
  <1>3. RequestsOK
    BY IdleOK DEF Init, RequestsOK
  <1> QED
    BY <1>1, <1>2, <1>3 DEF IInv

LEMMA StepInv == IInv /\ [Next]_vars => IInv'
  <1> SUFFICES ASSUME IInv, [Next]_vars PROVE IInv'
    OBVIOUS
  <1>1. CASE \E s \in OAuthStates : GenerateOAuthState(s)
    BY <1>1, GenerateInv
  <1>2. CASE \E r \in Requests, s \in OAuthStates : VerifyOAuthState(r, s)
    BY <1>2, VerifyInv
  <1>3. CASE \E r \in Requests : DeleteOAuthState(r)
    BY <1>3, DeleteStateInv
  <1>4. CASE \E r \in Requests, u \in Users : FindTwitterUser(r, u)
    BY <1>4, FindTwitterInv
  <1>5. CASE \E r \in Requests : SaveUser(r)
    BY <1>5, SaveUserInv
  <1>6. CASE \E r \in Requests, sid \in SessionIds : CreateSession(r, sid)
    BY <1>6, CreateSessionInv
  <1>7. CASE \E r \in Requests, sid \in SessionIds : Authenticate(r, sid)
    BY <1>7, AuthenticateInv
  <1>8. CASE \E r \in Requests : DeleteExpired(r)
    BY <1>8, DeleteExpiredInv
  <1>9. CASE \E r \in Requests, kind \in Kinds : RefreshSession(r, kind)
    BY <1>9, RefreshInv
  <1>10. CASE \E r \in Requests : Logout(r)
    BY <1>10, LogoutInv
  <1>11. CASE \E r \in Requests, wallet \in Wallet : FindUser(r, wallet)
    BY <1>11, FindUserInv
  <1>12. CASE \E r \in Requests : FindWallet(r)
    BY <1>12, FindWalletInv
  <1>13. CASE \E r \in Requests : SaveWallet(r)
    BY <1>13, SaveWalletInv
  <1>14. CASE \E r \in Requests : ListSessions(r)
    BY <1>14, ListSessionsInv
  <1>15. CASE \E r \in Requests, sid \in SessionIds : ReadSession(r, sid)
    BY <1>15, ReadSessionInv
  <1>16. CASE \E r \in Requests : WriteSession(r)
    BY <1>16, WriteSessionInv
  <1>17. CASE \E r \in Requests : Abort(r)
    BY <1>17, AbortInv
  <1>18. CASE Tick
    BY <1>18, TickInv
  <1>19. CASE UNCHANGED vars
    <2>1. TypeOK'
      BY <1>19 DEF vars, IInv, TypeOK
    <2>2. SessionsProper' /\ RowsOwn'
      BY <1>19 DEF vars, IInv, SessionsProper, Stored, Proper, RowsOwn, OwnRow
    <2>3. RequestsOK'
      BY <1>19 DEF vars, IInv, RequestsOK, RequestOK, Proper, OwnRow
    <2>4. LoggedOutGone'
      BY <1>19 DEF vars, IInv, LoggedOutGone, Holds
    <2> QED
      BY <2>1, <2>2, <2>3, <2>4 DEF IInv
  <1> QED
    BY <1>1, <1>2, <1>3, <1>4, <1>5, <1>6, <1>7, <1>8, <1>9, <1>10, <1>11, <1>12,
       <1>13, <1>14, <1>15, <1>16, <1>17, <1>18, <1>19 DEF Next

LEMMA Inductive == Spec => []IInv
  BY InitInv, StepInv, PTL DEF Spec

-----------------------------------------------------------------------------
(* The invariant behind SessionsFollowRows.  As long as requests neither     *)
(* overlap nor are cut short, at most one is in progress; the row or session *)
(* it has in hand is still the stored one, and sessions that lag behind the  *)
(* rows are among those that it is yet to visit.                             *)
FollowsRow(session) ==
    /\ users[session.user] # NoRow
    /\ session.walletAddress = users[session.user].walletAddress

Pending(q, sid) ==
    /\ \/ q.pc = "keys"
       \/ q.pc = "visit" /\ sid \in q.todo
       \/ q.pc = "update" /\ sid \in q.todo \union {q.sid}
    /\ sessions[sid].user = q.user

UpToDate(q) ==
    /\ q.pc \in {"save", "create"} => q.row = users[q.user]
    /\ q.pc = "refresh" => FollowsRow(q.session)
    /\ q.pc \in {"keys", "visit", "update"} =>
         users[q.user] # NoRow /\ users[q.user].walletAddress = q.wallet

OneByOne ==
    ~overlapped =>
        /\ \A p, q \in Requests : request[p] # Idle /\ request[q] # Idle => p = q
        /\ \A q \in Requests : UpToDate(request[q])
        /\ \A sid \in SessionIds : Stored(sid) =>
             /\ users[sessions[sid].user] # NoRow
             /\ FollowsRow(sessions[sid]) \/ \E q \in Requests : Pending(request[q], sid)

(* The same seen from the one request r that may be in progress.             *)
Only(r) == \A q \in Requests \ {r} : request[q] = Idle

FollowedBut(q) ==
    \A sid \in SessionIds : Stored(sid) =>
        /\ users[sessions[sid].user] # NoRow
        /\ FollowsRow(sessions[sid]) \/ Pending(q, sid)

LEMMA OneByOneBefore ==
    ASSUME IInv, OneByOne, ~overlapped, NEW r \in Requests, Only(r)
    PROVE  UpToDate(request[r]) /\ FollowedBut(request[r])
  <1>1. ASSUME NEW sid \in SessionIds, NEW q \in Requests, Pending(request[q], sid)
        PROVE  q = r
    BY <1>1 DEF Only, Idle, Pending
  <1> QED
    BY <1>1 DEF OneByOne, FollowedBut

LEMMA BusyAlone ==
    ASSUME OneByOne, ~overlapped, NEW r \in Requests, request[r].pc # "idle"
    PROVE  Only(r)
  BY DEF OneByOne, Only, Idle

LEMMA OneByOneAfter ==
    ASSUME IInv, NEW r \in Requests, Only(r), NEW next, Continue(r, next),
           UpToDate(next)', FollowedBut(next)'
    PROVE  OneByOne'
  <1>1. /\ request' \in [Requests -> {request'[q] : q \in Requests}]
        /\ request'[r] = next
        /\ \A q \in Requests \ {r} : request'[q] = Idle
    BY DEF IInv, TypeOK, Continue, Only
  <1>2. ASSUME NEW q \in Requests PROVE UpToDate(request[q])'
    <2>1. CASE q = r
      BY <1>1, <2>1 DEF UpToDate, FollowsRow
    <2>2. CASE q # r
      BY <1>1, <2>2 DEF UpToDate, Idle
    <2> QED
      BY <2>1, <2>2
  <1>3. ASSUME NEW sid \in SessionIds, Stored(sid)'
        PROVE  /\ users'[sessions'[sid].user] # NoRow
               /\ FollowsRow(sessions[sid])' \/ Pending(request[r], sid)'
    BY <1>1, <1>3 DEF FollowedBut, FollowsRow, Pending, Stored
  <1> QED
    BY <1>1, <1>2, <1>3 DEF OneByOne

(* A step of a request that writes neither rows nor sessions.                *)
LEMMA OneByOneRead ==
    ASSUME IInv, OneByOne, ~overlapped, NEW r \in Requests, Only(r),
           NEW next, Continue(r, next), UNCHANGED <<users, sessions>>, UpToDate(next),
           \A sid \in SessionIds : Stored(sid) /\ Pending(request[r], sid) => Pending(next, sid)
    PROVE  OneByOne'
  <1>1. FollowedBut(next)
    BY OneByOneBefore DEF FollowedBut
  <1>2. FollowedBut(next)' /\ UpToDate(next)'
    BY <1>1 DEF FollowedBut, UpToDate, FollowsRow, Pending, Stored
  <1> QED
    BY <1>2, OneByOneAfter

LEMMA IdleUpToDate ==
    UpToDate(Idle) /\ \A sid : ~Pending(Idle, sid)
  BY DEF UpToDate, Idle, Pending

(* A request that ends without a write, and was not to visit a session.      *)
LEMMA OneByOneEnd ==
    ASSUME IInv, OneByOne, ~overlapped, NEW r \in Requests, Only(r),
           Continue(r, Idle), UNCHANGED <<users, sessions>>,
           request[r].pc \notin {"keys", "visit", "update"}
    PROVE  OneByOne'
  <1>1. PICK next : next = Idle
    OBVIOUS
  <1>2. UpToDate(next) /\ Continue(r, next)
    BY <1>1, IdleUpToDate
  <1>3. \A sid \in SessionIds : ~Pending(request[r], sid)
    BY DEF Pending
  <1> QED
    BY <1>2, <1>3, OneByOneRead

(* A step after which requests have overlapped says nothing.                 *)
LEMMA Overlapped == overlapped' => OneByOne'
  BY DEF OneByOne

LEMMA GenerateAlone ==
    ASSUME IInv, OneByOne, NEW s \in OAuthStates, GenerateOAuthState(s)
    PROVE  OneByOne'
  BY DEF OneByOne, UpToDate, FollowsRow, Pending, Stored, GenerateOAuthState, history

LEMMA BeginAlone ==
    ASSUME NEW r \in Requests, NEW next, Begin(r, next), ~overlapped', IInv
    PROVE  /\ ~overlapped /\ Only(r) /\ Continue(r, next)
           /\ request[r].pc \in {"idle", "failed"}
  <1>1. overlapped \in BOOLEAN
    BY DEF IInv, TypeOK
  <1> QED
    BY <1>1 DEF Begin, Only

LEMMA VerifyAlone ==
    ASSUME IInv, OneByOne, NEW r \in Requests, NEW s \in OAuthStates, VerifyOAuthState(r, s)
    PROVE  OneByOne'
  <1>1. PICK next : next = [pc |-> "verify", state |-> s]
    OBVIOUS
  <1>2. Begin(r, next) /\ UNCHANGED <<users, sessions>>
    BY <1>1 DEF VerifyOAuthState, redis
  <1>3. UpToDate(next)
    BY <1>1 DEF UpToDate
  <1>4. CASE ~overlapped'
    <2>1. /\ ~overlapped /\ Only(r) /\ Continue(r, next)
          /\ request[r].pc \in {"idle", "failed"}
      BY <1>2, <1>4, BeginAlone
    <2>2. \A sid \in SessionIds : ~Pending(request[r], sid)
      BY <2>1 DEF Pending
    <2> QED
      BY <1>2, <1>3, <2>1, <2>2, OneByOneRead
  <1> QED
    BY <1>4, Overlapped

LEMMA AuthenticateAlone ==
    ASSUME IInv, OneByOne, NEW r \in Requests, NEW sid \in SessionIds, Authenticate(r, sid)
    PROVE  OneByOne'
  <1>1. PICK next : next = IF Expired(sessions[sid])
                           THEN [pc |-> "expired", sid |-> sid]
                           ELSE [pc |-> "refresh", sid |-> sid, session |-> sessions[sid]]
    OBVIOUS
  <1>2. Begin(r, next) /\ UNCHANGED <<users, sessions>> /\ Stored(sid)
    BY <1>1 DEF Authenticate, redis
  <1>3. CASE ~overlapped'
    <2>1. /\ ~overlapped /\ Only(r) /\ Continue(r, next)
          /\ request[r].pc \in {"idle", "failed"}
      BY <1>2, <1>3, BeginAlone
    <2>2. \A s \in SessionIds : ~Pending(request[r], s)
      BY <2>1 DEF Pending
    <2>3. FollowsRow(sessions[sid])
      BY <1>2, <2>1, <2>2, OneByOneBefore DEF FollowedBut
    <2>4. UpToDate(next)
      <3>1. CASE next = [pc |-> "expired", sid |-> sid]
        BY <3>1 DEF UpToDate
      <3>2. CASE next = [pc |-> "refresh", sid |-> sid, session |-> sessions[sid]]
        BY <2>3, <3>2 DEF UpToDate
      <3> QED
        BY <1>1, <3>1, <3>2
    <2> QED
      BY <1>2, <2>1, <2>2, <2>4, OneByOneRead
  <1> QED
    BY <1>3, Overlapped

(* The state of a request in progress while it is the only one.              *)
LEMMA InProgress ==
    ASSUME IInv, OneByOne, ~overlapped, NEW r \in Requests, request[r].pc # "idle"
    PROVE  Only(r) /\ UpToDate(request[r]) /\ FollowedBut(request[r])
  BY BusyAlone, OneByOneBefore

LEMMA DeleteStateAlone ==
    ASSUME IInv, OneByOne, NEW r \in Requests, DeleteOAuthState(r)
    PROVE  OneByOne'
  <1>1. PICK next : next = [pc |-> "exchange"]
    OBVIOUS
  <1>2. /\ request[r].pc = "verify" /\ Continue(r, next)
        /\ UNCHANGED <<users, sessions, overlapped>>
    BY <1>1 DEF DeleteOAuthState, history
  <1>3. UpToDate(next)
    BY <1>1 DEF UpToDate
  <1>4. \A sid \in SessionIds : ~Pending(request[r], sid)
    BY <1>2 DEF Pending
  <1>5. CASE ~overlapped
    BY <1>2, <1>3, <1>4, <1>5, BusyAlone, OneByOneRead
  <1> QED
    BY <1>2, <1>5, Overlapped

LEMMA FindTwitterAlone ==
    ASSUME IInv, OneByOne, NEW r \in Requests, NEW u \in Users, FindTwitterUser(r, u)
    PROVE  OneByOne'
  <1>1. PICK next : next = [pc |-> "save", user |-> u, row |-> users[u]]
    OBVIOUS
  <1>2. /\ request[r].pc = "exchange" /\ Continue(r, next)
        /\ UNCHANGED <<users, sessions, overlapped>>
    BY <1>1 DEF FindTwitterUser, redis, history
  <1>3. UpToDate(next)
    BY <1>1 DEF UpToDate
  <1>4. \A sid \in SessionIds : ~Pending(request[r], sid)
    BY <1>2 DEF Pending
  <1>5. CASE ~overlapped
    BY <1>2, <1>3, <1>4, <1>5, BusyAlone, OneByOneRead
  <1> QED
    BY <1>2, <1>5, Overlapped

LEMMA FindUserAlone ==
    ASSUME IInv, OneByOne, NEW r \in Requests, NEW wallet \in Wallet, FindUser(r, wallet)
    PROVE  OneByOne'
  <1>1. PICK u : u = request[r].user
    OBVIOUS
  <1>2. PICK next : next = [pc |-> "check", user |-> u, wallet |-> wallet, row |-> users[u]]
    OBVIOUS
  <1>3. /\ request[r].pc = "find" /\ Continue(r, next)
        /\ UNCHANGED <<users, sessions, overlapped>>
    BY <1>1, <1>2 DEF FindUser, redis, history
  <1>4. UpToDate(next)
    BY <1>2 DEF UpToDate
  <1>5. \A sid \in SessionIds : ~Pending(request[r], sid)
    BY <1>3 DEF Pending
  <1>6. CASE ~overlapped
    BY <1>3, <1>4, <1>5, <1>6, BusyAlone, OneByOneRead
  <1> QED
    BY <1>3, <1>6, Overlapped

LEMMA FindWalletAlone ==
    ASSUME IInv, OneByOne, NEW r \in Requests, FindWallet(r)
    PROVE  OneByOne'
  <1>1. PICK q : q = request[r]
    OBVIOUS
  <1>2. PICK next : next = IF TakenByOther(q.user, q.wallet) THEN Idle
                           ELSE [q EXCEPT !.pc = "store"]
    OBVIOUS
  <1>3. /\ q.pc = "check" /\ Continue(r, next)
        /\ UNCHANGED <<users, sessions, overlapped>>
    BY <1>1, <1>2 DEF FindWallet, redis, history
  <1>4. UpToDate(next)
    <2>1. q = [pc |-> "check", user |-> q.user, wallet |-> q.wallet, row |-> q.row]
      BY <1>1, <1>3, RequestFacts DEF Request
    <2>2. [q EXCEPT !.pc = "store"].pc = "store"
      BY <2>1
    <2> QED
      BY <1>2, <2>2, IdleUpToDate DEF UpToDate
  <1>5. \A sid \in SessionIds : ~Pending(request[r], sid)
    BY <1>1, <1>3 DEF Pending
  <1>6. CASE ~overlapped
    BY <1>1, <1>3, <1>4, <1>5, <1>6, BusyAlone, OneByOneRead
  <1> QED
    BY <1>3, <1>6, Overlapped

LEMMA AbortAlone ==
    ASSUME IInv, OneByOne, NEW r \in Requests, Abort(r)
    PROVE  OneByOne'
  <1>1. /\ Continue(r, Idle) /\ UNCHANGED <<users, sessions>>
        /\ overlapped' = (overlapped \/ request[r].pc # "failed")
        /\ overlapped \in BOOLEAN
    BY DEF Abort, redis, IInv, TypeOK
  <1>2. CASE ~overlapped /\ request[r].pc = "failed"
    BY <1>1, <1>2, BusyAlone, OneByOneEnd
  <1> QED
    BY <1>1, <1>2, Overlapped

(* The walk of linkWallet over the sessions.                                 *)
LEMMA VisitUpToDate ==
    ASSUME NEW q, NEW todo, users[q.user] # NoRow, users[q.user].walletAddress = q.wallet
    PROVE  /\ UpToDate(Visit(q, todo))
           /\ \A sid \in todo : sessions[sid].user = q.user => Pending(Visit(q, todo), sid)
  <1>1. CASE todo = {}
    BY <1>1, IdleUpToDate DEF Visit
  <1>2. CASE todo # {}
    BY <1>2 DEF Visit, UpToDate, Pending
  <1> QED
    BY <1>1, <1>2

LEMMA ListSessionsAlone ==
    ASSUME IInv, OneByOne, NEW r \in Requests, ListSessions(r)
    PROVE  OneByOne'
  <1>1. PICK q : q = request[r]
    OBVIOUS
  <1>2. PICK todo : todo = {sid \in SessionIds : Stored(sid)}
    OBVIOUS
  <1>3. PICK next : next = Visit(q, todo)
    OBVIOUS
  <1>4. /\ q.pc = "keys" /\ Continue(r, next)
        /\ UNCHANGED <<users, sessions, overlapped>>
    BY <1>1, <1>2, <1>3 DEF ListSessions, redis, history
  <1>5. CASE ~overlapped
    <2>1. Only(r) /\ UpToDate(q)
      BY <1>1, <1>4, <1>5, InProgress
    <2>2. /\ UpToDate(next)
          /\ \A sid \in todo : sessions[sid].user = q.user => Pending(next, sid)
      BY <1>3, <1>4, <2>1, VisitUpToDate DEF UpToDate
    <2>3. \A sid \in SessionIds : Stored(sid) /\ Pending(q, sid) => Pending(next, sid)
      BY <1>2, <2>2 DEF Pending
    <2> QED
      BY <1>1, <1>4, <1>5, <2>1, <2>2, <2>3, OneByOneRead
  <1> QED
    BY <1>4, <1>5, Overlapped

LEMMA ReadSessionAlone ==
    ASSUME IInv, OneByOne, NEW r \in Requests, NEW sid \in SessionIds, ReadSession(r, sid)
    PROVE  OneByOne'
  <1>1. PICK q : q = request[r]
    OBVIOUS
  <1>2. PICK next :
          next = IF Stored(sid) /\ IsOwn(sessions[sid], q.user)
                 THEN [pc |-> "update", user |-> q.user, wallet |-> q.wallet,
                       todo |-> q.todo \ {sid}, sid |-> sid, session |-> sessions[sid]]
                 ELSE Visit(q, q.todo \ {sid})
    OBVIOUS
  <1>3. /\ q.pc = "visit" /\ Continue(r, next)
        /\ UNCHANGED <<users, sessions, overlapped>>
    BY <1>1, <1>2 DEF ReadSession, redis, history
  <1>4. CASE ~overlapped
    <2>1. Only(r) /\ UpToDate(q)
      BY <1>1, <1>3, <1>4, InProgress
    <2>2. users[q.user] # NoRow /\ users[q.user].walletAddress = q.wallet
      BY <1>3, <2>1 DEF UpToDate
    <2>3. CASE Stored(sid) /\ IsOwn(sessions[sid], q.user)
      <3>1. /\ next.pc = "update" /\ next.user = q.user /\ next.wallet = q.wallet
            /\ next.todo = q.todo \ {sid} /\ next.sid = sid
        BY <1>2, <2>3
      <3>2. UpToDate(next)
        BY <2>2, <3>1 DEF UpToDate
      <3>3. \A s \in SessionIds : Stored(s) /\ Pending(q, s) => Pending(next, s)
        BY <1>3, <3>1 DEF Pending
      <3> QED
        BY <1>1, <1>3, <1>4, <2>1, <3>2, <3>3, OneByOneRead
    <2>4. CASE ~(Stored(sid) /\ IsOwn(sessions[sid], q.user))
      <3>1. /\ UpToDate(next)
            /\ \A s \in q.todo \ {sid} : sessions[s].user = q.user => Pending(next, s)
        BY <1>2, <2>2, <2>4, VisitUpToDate
      <3>2. \A s \in SessionIds : Stored(s) /\ Pending(q, s) => Pending(next, s)
        BY <1>3, <2>4, <3>1 DEF Pending, IsOwn
      <3> QED
        BY <1>1, <1>3, <1>4, <2>1, <3>1, <3>2, OneByOneRead
    <2> QED
      BY <2>3, <2>4
  <1> QED
    BY <1>3, <1>4, Overlapped

(* Writes of rows.                                                           *)
LEMMA SaveUserAlone ==
    ASSUME IInv, OneByOne, NEW r \in Requests, SaveUser(r)
    PROVE  OneByOne'
  <1>1. PICK u, row : u = request[r].user /\ row = request[r].row
    OBVIOUS
  <1>2. /\ request[r].pc = "save" /\ UNCHANGED <<sessions, overlapped>>
        /\ u \in Users /\ row \in Row \union {NoRow}
    BY <1>1, RequestFacts, SaveType DEF SaveUser, redis, history
  <1>3. ASSUME ~overlapped, ~Rejected(u, row) PROVE OneByOne'
    <2>1. PICK new : new = IF row = NoRow THEN [walletAddress |-> NoWallet] ELSE row
      OBVIOUS
    <2>2. PICK next : next = [pc |-> "create", user |-> u, row |-> new]
      OBVIOUS
    <2>3. Continue(r, next) /\ users' = [users EXCEPT ![u] = new]
      BY <1>1, <1>3, <2>1, <2>2 DEF SaveUser
    <2>4. /\ Only(r) /\ FollowedBut(request[r]) /\ row = users[u]
          /\ \A sid : ~Pending(request[r], sid)
      BY <1>1, <1>2, <1>3, InProgress DEF UpToDate, Pending
    <2>5. users \in [Users -> Row \union {NoRow}]
      BY DEF IInv, TypeOK
    <2>6. \A v \in Users : users[v] # NoRow => users'[v] = users[v]
      BY <1>2, <2>1, <2>3, <2>4, <2>5
    <2>7. UpToDate(next)'
      BY <1>2, <2>2, <2>3, <2>5 DEF UpToDate
    <2>8. ASSUME NEW sid \in SessionIds, Stored(sid)'
          PROVE  users'[sessions'[sid].user] # NoRow /\ FollowsRow(sessions[sid])'
      <3>1. Stored(sid) /\ sessions'[sid] = sessions[sid]
        BY <1>2, <2>8 DEF Stored
      <3>2. sessions[sid].user \in Users
        BY <3>1, StoredFacts DEF Session
      <3>3. users[sessions[sid].user] # NoRow /\ FollowsRow(sessions[sid])
        BY <2>4, <3>1 DEF FollowedBut
      <3> QED
        BY <2>6, <3>1, <3>2, <3>3 DEF FollowsRow
    <2>9. FollowedBut(next)'
      BY <2>8 DEF FollowedBut, FollowsRow
    <2> QED
      BY <2>3, <2>4, <2>7, <2>9, OneByOneAfter
  <1>4. ASSUME ~overlapped, Rejected(u, row) PROVE OneByOne'
    <2>1. Continue(r, Idle) /\ UNCHANGED users
      BY <1>1, <1>4 DEF SaveUser
    <2> QED
      BY <1>2, <1>4, <2>1, BusyAlone, OneByOneEnd
  <1> QED
    BY <1>2, <1>3, <1>4, Overlapped

LEMMA SaveWalletAlone ==
    ASSUME IInv, OneByOne, NEW r \in Requests, SaveWallet(r)
    PROVE  OneByOne'
  <1>1. PICK q : q = request[r]
    OBVIOUS
  <1>2. /\ q.pc = "store" /\ UNCHANGED <<sessions, overlapped>>
        /\ q.user \in Users /\ q.wallet \in Wallet /\ q.row \in Row
    BY <1>1, RequestFacts, CheckType DEF SaveWallet, redis
  <1>3. ASSUME ~overlapped, ~TakenByOther(q.user, q.wallet) PROVE OneByOne'
    <2>1. PICK next : next = [pc |-> "keys", user |-> q.user, wallet |-> q.wallet]
      OBVIOUS
    <2>2. PICK new : new = [q.row EXCEPT !.walletAddress = q.wallet]
      OBVIOUS
    <2>3. Continue(r, next) /\ users' = [users EXCEPT ![q.user] = new]
      BY <1>1, <1>3, <2>1, <2>2 DEF SaveWallet
    <2>4. /\ Only(r) /\ FollowedBut(q) /\ \A sid : ~Pending(q, sid)
      BY <1>1, <1>2, <1>3, InProgress DEF Pending
    <2>5. users \in [Users -> Row \union {NoRow}]
      BY DEF IInv, TypeOK
    <2>6. new \in Row /\ new.walletAddress = q.wallet
      BY <1>2, <2>2 DEF Row
    <2>7. new # NoRow
      BY <2>6, AccountsAssumption DEF Row, Wallet
    <2>8. UpToDate(next)'
      BY <1>2, <2>1, <2>3, <2>5, <2>6, <2>7 DEF UpToDate
    <2>9. ASSUME NEW sid \in SessionIds, Stored(sid)'
          PROVE  /\ users'[sessions'[sid].user] # NoRow
                 /\ FollowsRow(sessions[sid])' \/ sessions'[sid].user = q.user
      <3>1. Stored(sid) /\ sessions'[sid] = sessions[sid]
        BY <1>2, <2>9 DEF Stored
      <3>2. sessions[sid].user \in Users
        BY <3>1, StoredFacts DEF Session
      <3>3. users[sessions[sid].user] # NoRow /\ FollowsRow(sessions[sid])
        BY <2>4, <3>1 DEF FollowedBut
      <3> QED
        BY <2>3, <2>5, <2>7, <3>1, <3>2, <3>3 DEF FollowsRow
    <2>10. FollowedBut(next)'
      BY <2>1, <2>9 DEF FollowedBut, FollowsRow, Pending
    <2> QED
      BY <2>3, <2>4, <2>8, <2>10, OneByOneAfter
  <1>4. ASSUME ~overlapped, TakenByOther(q.user, q.wallet) PROVE OneByOne'
    <2>1. Continue(r, Idle) /\ UNCHANGED users
      BY <1>1, <1>4 DEF SaveWallet
    <2> QED
      BY <1>1, <1>2, <1>4, <2>1, BusyAlone, OneByOneEnd
  <1> QED
    BY <1>2, <1>3, <1>4, Overlapped

(* Writes of sessions.  The sessions that a request does not write follow    *)
(* their rows, or are pending, as before.                                    *)
LEMMA SetExAlone ==
    ASSUME IInv, OneByOne, ~overlapped, NEW r \in Requests, Only(r),
           NEW sid \in SessionIds, NEW session \in Session, SetEx(sid, session),
           FollowsRow(session), UNCHANGED users,
           NEW next, Continue(r, next), UpToDate(next),
           \A s \in SessionIds \ {sid} :
             Stored(s) /\ Pending(request[r], s) => Pending(next, s)
    PROVE  OneByOne'
  <1>1. PICK new : new = [session EXCEPT !.evictAt = now + SESSION_TTL]
    OBVIOUS
  <1>2. /\ sessions \in [SessionIds -> Session \union {NoSession}]
        /\ sessions' = [sessions EXCEPT ![sid] = new]
    BY <1>1 DEF IInv, TypeOK, SetEx
  <1>3. new.user = session.user /\ new.walletAddress = session.walletAddress
    BY <1>1 DEF Session
  <1>4. FollowedBut(request[r])
    BY OneByOneBefore
  <1>5. ASSUME NEW s \in SessionIds, Stored(s)'
        PROVE  /\ users'[sessions'[s].user] # NoRow
               /\ FollowsRow(sessions[s])' \/ Pending(next, s)'
    <2>1. CASE s = sid
      BY <1>2, <1>3, <2>1 DEF FollowsRow
    <2>2. CASE s # sid
      <3>1. sessions'[s] = sessions[s] /\ Stored(s)
        BY <1>2, <1>5, <2>2 DEF Stored
      <3>2. /\ users[sessions[s].user] # NoRow
            /\ FollowsRow(sessions[s]) \/ Pending(next, s)
        BY <1>4, <2>2, <3>1 DEF FollowedBut
      <3> QED
        BY <3>1, <3>2 DEF FollowsRow, Pending
    <2> QED
      BY <2>1, <2>2
  <1>6. FollowedBut(next)' /\ UpToDate(next)'
    BY <1>5 DEF FollowedBut, UpToDate, FollowsRow, Pending
  <1> QED
    BY <1>6, OneByOneAfter

LEMMA DelAlone ==
    ASSUME IInv, OneByOne, ~overlapped, NEW r \in Requests, Only(r),
           NEW sid \in SessionIds, Del(sid), UNCHANGED users, Continue(r, Idle),
           request[r].pc \notin {"keys", "visit", "update"}
    PROVE  OneByOne'
  <1>1. PICK next : next = Idle
    OBVIOUS
  <1>2. UpToDate(next)' /\ Continue(r, next)
    BY <1>1 DEF UpToDate, Idle
  <1>3. sessions \in [SessionIds -> Session \union {NoSession}]
    BY DEF IInv, TypeOK
  <1>4. FollowedBut(request[r])
    BY OneByOneBefore
  <1>5. ASSUME NEW s \in SessionIds, Stored(s)'
        PROVE  users'[sessions'[s].user] # NoRow /\ FollowsRow(sessions[s])'
    <2>1. sessions'[s] = sessions[s] /\ Stored(s)
      BY <1>3, <1>5 DEF Del, Stored
    <2> QED
      BY <1>4, <2>1 DEF FollowedBut, FollowsRow, Pending
  <1>6. FollowedBut(next)'
    BY <1>5 DEF FollowedBut, FollowsRow
  <1> QED
    BY <1>2, <1>6, OneByOneAfter

LEMMA CreateSessionAlone ==
    ASSUME IInv, OneByOne, NEW r \in Requests, NEW sid \in SessionIds, CreateSession(r, sid)
    PROVE  OneByOne'
  <1>1. PICK u, row : u = request[r].user /\ row = request[r].row
    OBVIOUS
  <1>2. PICK session : session = NewSession(u, row)
    OBVIOUS
  <1>3. u \in Users /\ row \in Row /\ request[r].pc = "create"
    BY <1>1, RequestFacts, CreateType DEF CreateSession
  <1>4. now + SESSION_TTL \in Nat
    BY AccountsAssumption DEF IInv, TypeOK
  <1>5. /\ session \in Session /\ session.user = u
        /\ session.walletAddress = row.walletAddress
    BY <1>2, <1>3, <1>4 DEF NewSession, Session, Row
  <1>6. /\ SetEx(sid, session) /\ Continue(r, Idle)
        /\ UNCHANGED <<users, overlapped>>
    BY <1>1, <1>2 DEF CreateSession
  <1>7. CASE ~overlapped
    <2>1. Only(r) /\ row = users[u] /\ \A s : ~Pending(request[r], s)
      BY <1>1, <1>3, <1>7, InProgress DEF UpToDate, Pending
    <2>2. row # NoRow
      BY <1>3, AccountsAssumption DEF Row, Wallet
    <2>3. FollowsRow(session)
      BY <1>5, <2>1, <2>2 DEF FollowsRow
    <2>4. PICK next : next = Idle
      OBVIOUS
    <2>5. UpToDate(next) /\ Continue(r, next)
      BY <1>6, <2>4, IdleUpToDate
    <2> QED
      BY <1>5, <1>6, <1>7, <2>1, <2>3, <2>5, SetExAlone
  <1> QED
    BY <1>6, <1>7, Overlapped

LEMMA HandlerUpToDate ==
    ASSUME NEW kind \in Kinds, NEW sid, NEW session
    PROVE  UpToDate(Handler(kind, sid, session))
  BY IdleUpToDate DEF Kinds, Handler, UpToDate

LEMMA RefreshAlone ==
    ASSUME IInv, OneByOne, NEW r \in Requests, NEW kind \in Kinds, RefreshSession(r, kind)
    PROVE  OneByOne'
  <1>1. PICK q : q = request[r]
    OBVIOUS
  <1>2. PICK next : next = Handler(kind, q.sid, q.session)
    OBVIOUS
  <1>3. /\ q.pc = "refresh" /\ SetEx(q.sid, q.session) /\ Continue(r, next)
        /\ UNCHANGED <<users, overlapped>>
    BY <1>1, <1>2 DEF RefreshSession, history
  <1>4. q.sid \in SessionIds /\ q.session \in Session
    BY <1>1, <1>3, RequestFacts, RefreshType
  <1>5. UpToDate(next)
    BY <1>2, HandlerUpToDate
  <1>6. CASE ~overlapped
    <2>1. Only(r) /\ FollowsRow(q.session) /\ \A s : ~Pending(q, s)
      BY <1>1, <1>3, <1>6, InProgress DEF UpToDate, Pending
    <2> QED
      BY <1>1, <1>3, <1>4, <1>5, <1>6, <2>1, SetExAlone
  <1> QED
    BY <1>3, <1>6, Overlapped

LEMMA WriteSessionAlone ==
    ASSUME IInv, OneByOne, NEW r \in Requests, WriteSession(r)
    PROVE  OneByOne'
  <1>1. PICK q : q = request[r]
    OBVIOUS
  <1>2. PICK session : session = [q.session EXCEPT !.walletAddress = q.wallet]
    OBVIOUS
  <1>3. PICK next : next = Visit(q, q.todo)
    OBVIOUS
  <1>4. /\ q.pc = "update" /\ SetEx(q.sid, session) /\ Continue(r, next)
        /\ UNCHANGED <<users, overlapped>>
    BY <1>1, <1>2, <1>3 DEF WriteSession, history
  <1>5. /\ q.user \in Users /\ q.wallet \in Wallet
        /\ q.sid \in SessionIds /\ q.session \in Session /\ q.session.user = q.user
    BY <1>1, <1>4, RequestFacts, UpdateType DEF RequestOK
  <1>6. session \in Session /\ session.user = q.user /\ session.walletAddress = q.wallet
    BY <1>2, <1>5 DEF Session
  <1>7. CASE ~overlapped
    <2>1. Only(r) /\ users[q.user] # NoRow /\ users[q.user].walletAddress = q.wallet
      BY <1>1, <1>4, <1>7, InProgress DEF UpToDate
    <2>2. FollowsRow(session)
      BY <1>6, <2>1 DEF FollowsRow
    <2>3. /\ UpToDate(next)
          /\ \A s \in q.todo : sessions[s].user = q.user => Pending(next, s)
      BY <1>3, <2>1, VisitUpToDate
    <2>4. \A s \in SessionIds \ {q.sid} : Stored(s) /\ Pending(q, s) => Pending(next, s)
      BY <1>4, <2>3 DEF Pending
    <2> QED
      BY <1>1, <1>4, <1>5, <1>6, <1>7, <2>1, <2>2, <2>3, <2>4, SetExAlone
  <1> QED
    BY <1>4, <1>7, Overlapped

LEMMA DeleteExpiredAlone ==
    ASSUME IInv, OneByOne, NEW r \in Requests, DeleteExpired(r)
    PROVE  OneByOne'
  <1>1. PICK sid : sid = request[r].sid
    OBVIOUS
  <1>2. /\ sid \in SessionIds /\ Del(sid) /\ Continue(r, Idle)
        /\ request[r].pc \in {"expired", "refresh"}
        /\ UNCHANGED <<users, overlapped>>
    BY <1>1, RequestFacts, SidType, RefreshType DEF DeleteExpired, history
  <1>3. CASE ~overlapped
    BY <1>2, <1>3, BusyAlone, DelAlone
  <1> QED
    BY <1>2, <1>3, Overlapped

LEMMA LogoutAlone ==
    ASSUME IInv, OneByOne, NEW r \in Requests, Logout(r)
    PROVE  OneByOne'
  <1>1. PICK sid : sid = request[r].sid
    OBVIOUS
  <1>2. /\ sid \in SessionIds /\ Del(sid) /\ Continue(r, Idle)
        /\ request[r].pc = "logout"
        /\ UNCHANGED <<users, overlapped>>
    BY <1>1, RequestFacts, SidType DEF Logout
  <1>3. CASE ~overlapped
    BY <1>2, <1>3, BusyAlone, DelAlone
  <1> QED
    BY <1>2, <1>3, Overlapped

LEMMA TickAlone ==
    ASSUME IInv, OneByOne, Tick
    PROVE  OneByOne'
  <1>1. /\ UNCHANGED <<users, request, overlapped>>
        /\ \A s \in SessionIds : sessions'[s] \in {sessions[s], NoSession}
    BY DEF IInv, TypeOK, Tick, history
  <1>2. ASSUME NEW sid \in SessionIds, Stored(sid)'
        PROVE  Stored(sid) /\ sessions'[sid] = sessions[sid]
    BY <1>1, <1>2 DEF Stored
  <1> QED
    BY <1>1, <1>2 DEF OneByOne, UpToDate, FollowsRow, Pending

LEMMA InitAlone == Init => OneByOne
  BY IdleUpToDate DEF Init, OneByOne, Stored

LEMMA StepAlone == IInv /\ OneByOne /\ [Next]_vars => OneByOne'
  <1> SUFFICES ASSUME IInv, OneByOne, [Next]_vars PROVE OneByOne'
    OBVIOUS
  <1>1. CASE \E s \in OAuthStates : GenerateOAuthState(s)
    BY <1>1, GenerateAlone
  <1>2. CASE \E r \in Requests, s \in OAuthStates : VerifyOAuthState(r, s)
    BY <1>2, VerifyAlone
  <1>3. CASE \E r \in Requests : DeleteOAuthState(r)
    BY <1>3, DeleteStateAlone
  <1>4. CASE \E r \in Requests, u \in Users : FindTwitterUser(r, u)
    BY <1>4, FindTwitterAlone
  <1>5. CASE \E r \in Requests : SaveUser(r)
    BY <1>5, SaveUserAlone
  <1>6. CASE \E r \in Requests, sid \in SessionIds : CreateSession(r, sid)
    BY <1>6, CreateSessionAlone
  <1>7. CASE \E r \in Requests, sid \in SessionIds : Authenticate(r, sid)
    BY <1>7, AuthenticateAlone
  <1>8. CASE \E r \in Requests : DeleteExpired(r)
    BY <1>8, DeleteExpiredAlone
  <1>9. CASE \E r \in Requests, kind \in Kinds : RefreshSession(r, kind)
    BY <1>9, RefreshAlone
  <1>10. CASE \E r \in Requests : Logout(r)
    BY <1>10, LogoutAlone
  <1>11. CASE \E r \in Requests, wallet \in Wallet : FindUser(r, wallet)
    BY <1>11, FindUserAlone
  <1>12. CASE \E r \in Requests : FindWallet(r)
    BY <1>12, FindWalletAlone
  <1>13. CASE \E r \in Requests : SaveWallet(r)
    BY <1>13, SaveWalletAlone
  <1>14. CASE \E r \in Requests : ListSessions(r)
    BY <1>14, ListSessionsAlone
  <1>15. CASE \E r \in Requests, sid \in SessionIds : ReadSession(r, sid)
    BY <1>15, ReadSessionAlone
  <1>16. CASE \E r \in Requests : WriteSession(r)
    BY <1>16, WriteSessionAlone
  <1>17. CASE \E r \in Requests : Abort(r)
    BY <1>17, AbortAlone
  <1>18. CASE Tick
    BY <1>18, TickAlone
  <1>19. CASE UNCHANGED vars
    BY <1>19 DEF vars, OneByOne, UpToDate, FollowsRow, Pending, Stored
  <1> QED
    BY <1>1, <1>2, <1>3, <1>4, <1>5, <1>6, <1>7, <1>8, <1>9, <1>10, <1>11, <1>12,
       <1>13, <1>14, <1>15, <1>16, <1>17, <1>18, <1>19 DEF Next

-----------------------------------------------------------------------------
(* Sessions that are gone.  A step of request r leaves one gone unless it    *)
(* writes its key or ends with a copy of it.                                 *)
LEMMA GoneStep ==
    ASSUME IInv, NEW sid \in SessionIds, Gone(sid),
           NEW r \in Requests, NEW next, Continue(r, next),
           next.pc \in {"refresh", "update"} => next.sid # sid,
           sessions'[sid] = NoSession, birth'[sid] # Unborn
    PROVE  Gone(sid)'
  <1>1. request \in [Requests -> Request]
    BY DEF IInv, TypeOK
  <1>2. ASSUME NEW q \in Requests PROVE ~Holds(q, sid)'
    <2>1. CASE q = r
      BY <1>1, <2>1 DEF Continue, Holds
    <2>2. CASE q # r
      BY <1>1, <2>2 DEF Continue, Holds, Gone
    <2> QED
      BY <2>1, <2>2
  <1> QED
    BY <1>2 DEF Gone, Stored

(* The same for a step that leaves the sessions alone.                       *)
LEMMA GoneStays ==
    ASSUME IInv, NEW sid \in SessionIds, Gone(sid),
           NEW r \in Requests, NEW next, Continue(r, next),
           next.pc \in {"refresh", "update"} => next.sid # sid,
           UNCHANGED <<sessions, birth>>
    PROVE  Gone(sid)'
  <1>1. sessions'[sid] = NoSession /\ birth'[sid] # Unborn
    BY DEF Gone, Stored
  <1> QED
    BY <1>1, GoneStep

(* A key that is written is that of a copy, or of a new session.             *)
LEMMA WrittenIsAnother ==
    ASSUME IInv, NEW sid \in SessionIds, Gone(sid), NEW s \in SessionIds, s # sid,
           NEW session, SetEx(s, session)
    PROVE  sessions'[sid] = NoSession
  BY DEF IInv, TypeOK, Gone, Stored, SetEx

LEMMA DeletedStaysGone ==
    ASSUME IInv, NEW sid \in SessionIds, Gone(sid), NEW s, Del(s)
    PROVE  sessions'[sid] = NoSession
  BY DEF IInv, TypeOK, Gone, Stored, Del

LEMMA VisitIsNoCopy ==
    ASSUME NEW q, NEW todo
    PROVE  Visit(q, todo).pc \notin {"refresh", "update"}
  BY DEF Visit, Idle

LEMMA HandlerIsNoCopy ==
    ASSUME NEW kind \in Kinds, NEW s, NEW session
    PROVE  Handler(kind, s, session).pc \notin {"refresh", "update"}
  BY DEF Handler, Kinds, Idle

LEMMA StepLeavesGone ==
    ASSUME IInv, [Next]_vars, NEW sid \in SessionIds, Gone(sid)
    PROVE  Gone(sid)'
  <1>0. Idle.pc \notin {"refresh", "update"}
    BY DEF Idle
  <1>1. ASSUME NEW s \in OAuthStates, GenerateOAuthState(s) PROVE Gone(sid)'
    BY <1>1 DEF GenerateOAuthState, history, Gone, Stored, Holds
  <1>2. ASSUME NEW r \in Requests, NEW s \in OAuthStates, VerifyOAuthState(r, s) PROVE Gone(sid)'
    <2> DEFINE next == [pc |-> "verify", state |-> s]
    <2>1. Continue(r, next) /\ UNCHANGED <<sessions, birth>> /\ next.pc \notin {"refresh", "update"}
      BY <1>2 DEF VerifyOAuthState, Begin, redis
    <2> QED
      BY <2>1, GoneStays
  <1>3. ASSUME NEW r \in Requests, DeleteOAuthState(r) PROVE Gone(sid)'
    <2> DEFINE next == [pc |-> "exchange"]
    <2>1. Continue(r, next) /\ UNCHANGED <<sessions, birth>> /\ next.pc \notin {"refresh", "update"}
      BY <1>3 DEF DeleteOAuthState, history
    <2> QED
      BY <2>1, GoneStays
  <1>4. ASSUME NEW r \in Requests, NEW u \in Users, FindTwitterUser(r, u) PROVE Gone(sid)'
    <2> DEFINE next == [pc |-> "save", user |-> u, row |-> users[u]]
    <2>1. Continue(r, next) /\ UNCHANGED <<sessions, birth>> /\ next.pc \notin {"refresh", "update"}
      BY <1>4 DEF FindTwitterUser, redis, history
    <2> QED
      BY <2>1, GoneStays
  <1>5. ASSUME NEW r \in Requests, SaveUser(r) PROVE Gone(sid)'
    <2>1. PICK next : Continue(r, next) /\ next.pc \notin {"refresh", "update"}
      BY <1>0, <1>5 DEF SaveUser
    <2>2. UNCHANGED <<sessions, birth>>
      BY <1>5 DEF SaveUser, redis, history
    <2> QED
      BY <2>1, <2>2, GoneStays
  <1>6. ASSUME NEW r \in Requests, NEW s \in SessionIds, CreateSession(r, s) PROVE Gone(sid)'
    <2>1. Continue(r, Idle) /\ birth[s] = Unborn /\ birth' = [birth EXCEPT ![s] = now]
          /\ SetEx(s, NewSession(request[r].user, request[r].row))
      BY <1>6 DEF CreateSession
    <2>2. s # sid
      BY <2>1 DEF Gone
    <2>3. sessions'[sid] = NoSession
      BY <2>1, <2>2, WrittenIsAnother
    <2>4. birth'[sid] # Unborn
      BY <2>1, <2>2 DEF Gone, IInv, TypeOK
    <2> QED
      BY <1>0, <2>1, <2>3, <2>4, GoneStep
  <1>7. ASSUME NEW r \in Requests, NEW s \in SessionIds, Authenticate(r, s) PROVE Gone(sid)'
    <2>1. s # sid
      BY <1>7 DEF Authenticate, Gone
    <2>2. PICK next : Continue(r, next) /\ (next.pc \in {"refresh", "update"} => next.sid = s)
      BY <1>7 DEF Authenticate, Begin
    <2>3. UNCHANGED <<sessions, birth>>
      BY <1>7 DEF Authenticate, redis
    <2> QED
      BY <2>1, <2>2, <2>3, GoneStays
  <1>8. ASSUME NEW r \in Requests, DeleteExpired(r) PROVE Gone(sid)'
    <2>1. Continue(r, Idle) /\ Del(request[r].sid) /\ UNCHANGED birth
      BY <1>8 DEF DeleteExpired, history
    <2>2. sessions'[sid] = NoSession /\ birth'[sid] # Unborn
      BY <2>1, DeletedStaysGone DEF Gone
    <2> QED
      BY <1>0, <2>1, <2>2, GoneStep
  <1>9. ASSUME NEW r \in Requests, NEW kind \in Kinds, RefreshSession(r, kind) PROVE Gone(sid)'
    <2> DEFINE q == request[r]
               next == Handler(kind, q.sid, q.session)
    <2>1. Continue(r, next) /\ SetEx(q.sid, q.session) /\ UNCHANGED birth /\ q.pc = "refresh"
      BY <1>9 DEF RefreshSession, history
    <2>2. q.sid \in SessionIds /\ q.sid # sid
      BY <2>1, RequestFacts, RefreshType DEF Gone, Holds
    <2>3. sessions'[sid] = NoSession /\ birth'[sid] # Unborn
      BY <2>1, <2>2, WrittenIsAnother DEF Gone
    <2>4. next.pc \notin {"refresh", "update"}
      BY HandlerIsNoCopy
    <2> HIDE DEF next
    <2> QED
      BY <2>1, <2>3, <2>4, GoneStep
  <1>10. ASSUME NEW r \in Requests, Logout(r) PROVE Gone(sid)'
    <2>1. Continue(r, Idle) /\ Del(request[r].sid) /\ UNCHANGED birth
      BY <1>10 DEF Logout
    <2>2. sessions'[sid] = NoSession /\ birth'[sid] # Unborn
      BY <2>1, DeletedStaysGone DEF Gone
    <2> QED
      BY <1>0, <2>1, <2>2, GoneStep
  <1>11. ASSUME NEW r \in Requests, NEW wallet \in Wallet, FindUser(r, wallet) PROVE Gone(sid)'
    <2> DEFINE u == request[r].user
               next == [pc |-> "check", user |-> u, wallet |-> wallet, row |-> users[u]]
    <2>1. Continue(r, next) /\ UNCHANGED <<sessions, birth>> /\ next.pc \notin {"refresh", "update"}
      BY <1>11 DEF FindUser, redis, history
    <2> QED
      BY <2>1, GoneStays
  <1>12. ASSUME NEW r \in Requests, FindWallet(r) PROVE Gone(sid)'
    <2>1. request[r].pc = "check" /\ request[r] \in Request
      BY <1>12, RequestFacts DEF FindWallet
    <2>2. [request[r] EXCEPT !.pc = "store"].pc = "store"
      BY <2>1 DEF Request
    <2>3. PICK next : Continue(r, next) /\ next.pc \notin {"refresh", "update"}
      BY <1>0, <1>12, <2>2 DEF FindWallet
    <2>4. UNCHANGED <<sessions, birth>>
      BY <1>12 DEF FindWallet, redis, history
    <2> QED
      BY <2>3, <2>4, GoneStays
  <1>13. ASSUME NEW r \in Requests, SaveWallet(r) PROVE Gone(sid)'
    <2>1. PICK next : Continue(r, next) /\ next.pc \notin {"refresh", "update"}
      BY <1>0, <1>13 DEF SaveWallet
    <2>2. UNCHANGED <<sessions, birth>>
      BY <1>13 DEF SaveWallet, redis
    <2> QED
      BY <2>1, <2>2, GoneStays
  <1>14. ASSUME NEW r \in Requests, ListSessions(r) PROVE Gone(sid)'
    <2>1. PICK next : Continue(r, next) /\ next.pc \notin {"refresh", "update"}
      BY <1>14, VisitIsNoCopy DEF ListSessions
    <2>2. UNCHANGED <<sessions, birth>>
      BY <1>14 DEF ListSessions, redis, history
    <2> QED
      BY <2>1, <2>2, GoneStays
  <1>15. ASSUME NEW r \in Requests, NEW s \in SessionIds, ReadSession(r, s) PROVE Gone(sid)'
    <2>1. UNCHANGED <<sessions, birth>>
      BY <1>15 DEF ReadSession, redis, history
    <2>2. CASE Stored(s) /\ IsOwn(sessions[s], request[r].user)
      <3> DEFINE q == request[r]
                 next == [pc |-> "update", user |-> q.user, wallet |-> q.wallet,
                          todo |-> q.todo \ {s}, sid |-> s, session |-> sessions[s]]
      <3>1. Continue(r, next) /\ next.sid = s
        BY <1>15, <2>2 DEF ReadSession
      <3>2. s # sid
        BY <2>2 DEF Gone
      <3> HIDE DEF next
      <3> QED
        BY <2>1, <3>1, <3>2, GoneStays
    <2>3. CASE ~(Stored(s) /\ IsOwn(sessions[s], request[r].user))
      <3>1. PICK next : Continue(r, next) /\ next.pc \notin {"refresh", "update"}
        BY <1>15, <2>3, VisitIsNoCopy DEF ReadSession
      <3> QED
        BY <2>1, <3>1, GoneStays
    <2> QED
      BY <2>2, <2>3
  <1>16. ASSUME NEW r \in Requests, WriteSession(r) PROVE Gone(sid)'
    <2>1. PICK next : Continue(r, next) /\ next.pc \notin {"refresh", "update"}
      BY <1>16, VisitIsNoCopy DEF WriteSession
    <2>2. PICK session : SetEx(request[r].sid, session)
      BY <1>16 DEF WriteSession
    <2>3. request[r].pc = "update" /\ UNCHANGED birth
      BY <1>16 DEF WriteSession, history
    <2>4. request[r].sid \in SessionIds /\ request[r].sid # sid
      BY <2>3, RequestFacts, UpdateType DEF Gone, Holds
    <2>5. sessions'[sid] = NoSession /\ birth'[sid] # Unborn
      BY <2>2, <2>3, <2>4, WrittenIsAnother DEF Gone
    <2> QED
      BY <2>1, <2>5, GoneStep
  <1>17. ASSUME NEW r \in Requests, Abort(r) PROVE Gone(sid)'
    BY <1>0, <1>17, GoneStays DEF Abort, redis
  <1>18. CASE Tick
    BY <1>18 DEF Tick, history, IInv, TypeOK, Gone, Stored, Holds
  <1>19. CASE UNCHANGED vars
    BY <1>19 DEF vars, Gone, Stored, Holds
  <1> QED
    BY <1>1, <1>2, <1>3, <1>4, <1>5, <1>6, <1>7, <1>8, <1>9, <1>10, <1>11, <1>12,
       <1>13, <1>14, <1>15, <1>16, <1>17, <1>18, <1>19, Zenon DEF Next

-----------------------------------------------------------------------------
(* Every reachable state has the types of the Redis values, the rows and the *)
(* requests of the auth module.                                              *)
THEOREM TypeCorrect == Spec => []TypeOK
  <1>1. IInv => TypeOK
    BY DEF IInv
  <1> QED
    BY <1>1, Inductive, PTL

(* However requests interleave, linkWallet (auth.service.ts) and getSession  *)
(* never give a session a wallet that its user did not link.                 *)
THEOREM WalletsAreOwn == Spec => []SessionsCarryOwnWallet
  <1>1. IInv => SessionsCarryOwnWallet
    BY DEF IInv, SessionsCarryOwnWallet, SessionsProper, Proper
  <1> QED
    BY <1>1, Inductive, PTL

(* Contrary to the comment of getSession (auth.service.ts), no activity      *)
(* extends a session: no write back moves the end of its life.               *)
THEOREM LifeEnds == Spec => []LifeEndsOnTime
  <1>1. IInv => LifeEndsOnTime
    BY DEF IInv, LifeEndsOnTime, SessionsProper, Proper
  <1> QED
    BY <1>1, Inductive, PTL

(* A session that is deleted while no request holds a copy of it never comes *)
(* back: ids are used once, and every write back starts from a read.         *)
THEOREM LogoutFinal == Spec => []LogoutIsFinalWhenAlone
  <1>1. IInv => LogoutIsFinalWhenAlone
    BY DEF IInv, LogoutIsFinalWhenAlone, LoggedOutGone
  <1> QED
    BY <1>1, Inductive, PTL

(* Once the requests that had a copy of a deleted session (auth.service.ts)  *)
(* are over and it is not stored, nothing brings it back, whatever overlaps, *)
(* failures and evictions there were before.                                 *)
THEOREM GoneStaysGone == Spec => GoneForGood
  <1>1. IInv /\ [Next]_vars => [\A sid \in SessionIds : Gone(sid) => Gone(sid)']_vars
    BY StepLeavesGone
  <1> QED
    BY <1>1, Inductive, PTL DEF Spec, GoneForGood

(* While requests neither overlap nor are cut short, the wallets of all      *)
(* sessions are those of the rows of their users, whatever sequence of log   *)
(* ins, links, refreshes, log outs and evictions there was.                  *)
THEOREM RowsAreFollowed == Spec => []SessionsFollowRows
  <1>1. OneByOne => SessionsFollowRows
    BY DEF OneByOne, SessionsFollowRows, FollowsRow, Pending
  <1> QED
    BY <1>1, Inductive, InitAlone, StepAlone, PTL DEF Spec

=============================================================================
