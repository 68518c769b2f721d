---------------------------- MODULE AccessProofs ----------------------------
(***************************************************************************)
(* Whatever is done with rows, sessions and configuration, only who was    *)
(* configured as the admin judges creators: for every number of users,     *)
(* sessions and requests.                                                  *)
(***************************************************************************)
EXTENDS Access, TLAPS

Judging == {"approveCreator", "rejectCreator", "suspendCreator", "banUser"}

(* A session of an admin is that of somebody who was configured as one.      *)
AdminsOwn(session) == session.isAdmin => session.user \in configured

SessionsOwn == \A sid \in SessionIds : sessions[sid] # NoSession => AdminsOwn(sessions[sid])

(* And so is what a log in is about to write into a session, and what the    *)
(* guard of an administrator's route has handed to the handler.              *)
RequestOwn(q) ==
    /\ q.pc = "create" => AdminsOwn(q)
    /\ (q.pc = "handler" /\ RouteOf(q.route).guard = "admin") =>
         /\ q.session # NoSession
         /\ q.session.user \in configured

RequestsOwn == \A r \in Requests : RequestOwn(request[r])

IInv == TypeOK /\ admin \in configured /\ SessionsOwn /\ RequestsOwn

-----------------------------------------------------------------------------
(* The routes that judge creators are those of administrators.               *)
LEMMA JudgesAreGuarded ==
  \A name \in Judging : RouteOf(name).guard = "admin"
<1> SUFFICES ASSUME NEW name \in Judging PROVE RouteOf(name).guard = "admin"
  OBVIOUS
<1> DEFINE Has(c) == c \in Controllers /\ name \in DOMAIN c
<1>1. \E c : Has(c)
  <2>1. name \in {"approveCreator", "rejectCreator"} => name \in DOMAIN CreatorsController
    BY DEF CreatorsController
  <2>2. name = "suspendCreator" => name \in DOMAIN AdminController
    BY DEF AdminController
  <2>3. name = "banUser" => name \in DOMAIN AdminControllerMore
    BY DEF AdminControllerMore
  <2> QED BY <2>1, <2>2, <2>3 DEF Judging, Controllers
<1>2. ASSUME NEW c \in Controllers, name \in DOMAIN c PROVE c[name].guard = "admin"
  <2>1. CASE c \in {AdminController, AdminControllerMore, CreatorsController}
    <3>1. c = AdminController => c[name].guard = "admin"
      BY <1>2 DEF AdminController, AsAdmin, Route
    <3>2. c = AdminControllerMore => c[name].guard = "admin"
      BY <1>2 DEF AdminControllerMore, AsAdmin, Route
    <3>3. c = CreatorsController => c[name].guard = "admin"
      <4>1. name \in {"approveCreator", "rejectCreator"} => CreatorsController[name].guard = "admin"
        BY DEF CreatorsController, Route
      <4>2. name \notin {"suspendCreator", "banUser"} \/ name \notin DOMAIN CreatorsController
        BY DEF CreatorsController
      <4> QED BY <4>1, <4>2, <1>2 DEF Judging
    <3> QED BY <3>1, <3>2, <3>3, <2>1
  <2>2. CASE c \in {AdminControllerSystem, CreatorsControllerMetrics, MarketsController,
                    MarketsControllerActivity, SharesController}
    <3>1. /\ name \notin DOMAIN AdminControllerSystem
          /\ name \notin DOMAIN CreatorsControllerMetrics
      BY DEF Judging, AdminControllerSystem, CreatorsControllerMetrics
    <3>2. /\ name \notin DOMAIN MarketsController
          /\ name \notin DOMAIN MarketsControllerActivity
          /\ name \notin DOMAIN SharesController
      BY DEF Judging, MarketsController, MarketsControllerActivity, SharesController
    <3> QED BY <3>1, <3>2, <2>2, <1>2
  <2>3. CASE c \in {SharesControllerHistory, DividendsController, UsersController,
                    NotificationsController, AnalyticsController, HealthController, AuthController}
    <3>1. /\ name \notin DOMAIN SharesControllerHistory
          /\ name \notin DOMAIN DividendsController
          /\ name \notin DOMAIN UsersController
      BY DEF Judging, SharesControllerHistory, DividendsController, UsersController
    <3>2. /\ name \notin DOMAIN NotificationsController
          /\ name \notin DOMAIN AnalyticsController
          /\ name \notin DOMAIN HealthController
          /\ name \notin DOMAIN AuthController
      BY DEF Judging, NotificationsController, AnalyticsController, HealthController, AuthController
    <3> QED BY <3>1, <3>2, <2>3, <1>2
  <2> QED BY <2>1, <2>2, <2>3 DEF Controllers
<1>3. Has(CHOOSE c \in Controllers : name \in DOMAIN c)
  BY <1>1
<1> QED BY <1>2, <1>3 DEF RouteOf

-----------------------------------------------------------------------------
(* What a request has in hand, by what it is doing.                          *)
LEMMA InHand ==
  ASSUME NEW q \in Request
  PROVE  /\ q.pc = "create" => q.user \in Users /\ q.isAdmin \in BOOLEAN
         /\ q.pc = "guard" => q.route \in Served /\ q.sid \in SessionIds \union {NoSession}
         /\ q.pc = "handler" => /\ q.route \in Served
                                /\ q.sid \in SessionIds \union {NoSession}
                                /\ q.session \in Session \union {NoSession}
BY DEF Request, Idle

(* What is known of a request stays known: nobody is ever taken off          *)
(* configured.                                                               *)
LEMMA RequestStays ==
  ASSUME NEW q, RequestOwn(q), configured \subseteq configured'
  PROVE  RequestOwn(q)'
BY DEF RequestOwn, AdminsOwn

(* A step of one request keeps the types and what is known of all.           *)
LEMMA RequestStep ==
  ASSUME TypeOK, RequestsOwn, NEW r \in Requests, NEW next \in Request,
         Continue(r, next), RequestOwn(next), configured' = configured
  PROVE  request' \in [Requests -> Request] /\ RequestsOwn'
<1>1. request' \in [Requests -> Request]
  BY DEF TypeOK, Continue
<1>2. ASSUME NEW o \in Requests PROVE RequestOwn(request[o])'
  <2> PICK q : q = (request[o])'
    OBVIOUS
  <2>1. RequestOwn(q)
    BY DEF TypeOK, RequestsOwn, Continue
  <2>2. RequestOwn(q)'
    BY <2>1, RequestStays
  <2> QED BY <2>2
<1> QED BY <1>1, <1>2 DEF RequestsOwn

(* An answer is of the right type, whatever gives it.                        *)
LEMMA AnswerStep ==
  ASSUME TypeOK, RequestsOwn, NEW r \in Requests, request[r].route \in Served,
         NEW by \in {"guard", "service", "handler", "error"},
         NEW status \in {200, 201, 400, 401, 403, 404, 500},
         Answer(r, by, status), configured' = configured
  PROVE  request' \in [Requests -> Request] /\ RequestsOwn'
<1> PICK route : route = request[r].route
  OBVIOUS
<1> DEFINE next == [pc |-> "answered", route |-> route, by |-> by, status |-> status]
<1>1. next \in Request
  BY DEF Request
<1>2. RequestOwn(next)
  BY DEF RequestOwn
<1>3. Continue(r, next)
  BY DEF Answer
<1> QED BY <1>1, <1>2, <1>3, RequestStep

(* The answer of a handler that returns.                                     *)
LEMMA SucceedStep ==
  ASSUME TypeOK, RequestsOwn, NEW r \in Requests, Returns(r), Succeed(r),
         configured' = configured
  PROVE  request' \in [Requests -> Request] /\ RequestsOwn'
<1> PICK status : status = SuccessOf(request[r].route)
  OBVIOUS
<1>1. status \in {200, 201}
  BY DEF SuccessOf
<1>2. request[r].route \in Served
  BY InHand DEF Returns, TypeOK
<1>3. Answer(r, "handler", status)
  BY DEF Succeed
<1> QED BY <1>1, <1>2, <1>3, AnswerStep

(* A request of an administrator's route runs for one who was configured.    *)
LEMMA JudgesAreOwn ==
  ASSUME IInv, NEW r \in Requests, Returns(r), request[r].route \in Judging
  PROVE  request[r].session # NoSession /\ request[r].session.user \in configured
<1>1. RouteOf(request[r].route).guard = "admin"
  BY JudgesAreGuarded
<1>2. RequestOwn(request[r])
  BY DEF IInv, RequestsOwn
<1> QED BY <1>1, <1>2 DEF RequestOwn, Returns

-----------------------------------------------------------------------------
LEMMA InitIInv == Init => IInv
<1> SUFFICES ASSUME Init PROVE IInv
  OBVIOUS
<1>1. TypeOK
  BY DEF Init, TypeOK, Request, Idle
<1>2. SessionsOwn
  BY DEF Init, SessionsOwn
<1>3. RequestsOwn
  BY DEF Init, RequestsOwn, RequestOwn, Idle
<1> QED BY <1>1, <1>2, <1>3 DEF IInv, Init

(* A log in takes the right from the configuration of the moment.            *)
LEMMA LogInIInv ==
  ASSUME IInv, NEW r \in Requests, NEW u \in Users, LogIn(r, u) PROVE IInv'
<1> PICK next : next = [pc |-> "create", user |-> u, isAdmin |-> IsConfigured(u)]
  OBVIOUS
<1>1. IsConfigured(u) \in BOOLEAN
  BY DEF IsConfigured
<1>2. next \in Request
  BY <1>1 DEF Request
<1>3. RequestOwn(next)
  <2>1. next.pc # "handler"
    OBVIOUS
  <2>2. next.isAdmin = IsConfigured(u) /\ next.user = u
    OBVIOUS
  <2>3. IsConfigured(u) => u \in configured
    BY DEF IsConfigured, IInv
  <2>4. AdminsOwn(next)
    BY <2>2, <2>3, Zenon DEF AdminsOwn
  <2> QED BY <2>1, <2>4 DEF RequestOwn
<1>4. request' \in [Requests -> Request] /\ RequestsOwn'
  BY <1>2, <1>3, RequestStep DEF LogIn, IInv
<1>5. isAdmin' \in [Users -> BOOLEAN \union {NoRow}]
  BY <1>1 DEF LogIn, IInv, TypeOK
<1> QED BY <1>4, <1>5 DEF LogIn, IInv, TypeOK, SessionsOwn, AdminsOwn

LEMMA createSessionIInv ==
  ASSUME IInv, NEW r \in Requests, NEW sid \in SessionIds, createSession(r, sid)
  PROVE  IInv'
<1> PICK q : q = request[r]
  OBVIOUS
<1> PICK s : s = [user |-> q.user, isAdmin |-> q.isAdmin, isCreator |-> HasCreator(q.user)]
  OBVIOUS
<1>1. q \in Request /\ q.pc = "create"
  BY DEF createSession, IInv, TypeOK
<1>2. s \in Session
  <2>1. HasCreator(q.user) \in BOOLEAN
    BY DEF HasCreator
  <2> QED BY <1>1, <2>1, InHand DEF Session
<1>3. AdminsOwn(s)
  <2>1. RequestOwn(q)
    BY DEF IInv, RequestsOwn
  <2>2. AdminsOwn(q)
    BY <1>1, <2>1 DEF RequestOwn
  <2>3. s.isAdmin = q.isAdmin /\ s.user = q.user
    OBVIOUS
  <2> QED BY <2>2, <2>3, Zenon DEF AdminsOwn
<1>4. sessions' = [sessions EXCEPT ![sid] = s] /\ Continue(r, Idle) /\ configured' = configured
  BY DEF createSession
<1>5. request' \in [Requests -> Request] /\ RequestsOwn'
  BY <1>4, RequestStep DEF IInv, Request, Idle, RequestOwn
<1>6. sessions' \in [SessionIds -> Session \union {NoSession}]
  BY <1>2, <1>4 DEF IInv, TypeOK
<1>7. SessionsOwn'
  <2> SUFFICES ASSUME NEW o \in SessionIds, (sessions[o])' # NoSession
               PROVE  AdminsOwn(sessions[o])'
    BY DEF SessionsOwn
  <2> PICK t : t = (sessions[o])'
    OBVIOUS
  <2>1. AdminsOwn(t)
    BY <1>3, <1>4 DEF IInv, TypeOK, SessionsOwn
  <2> QED BY <2>1, <1>4 DEF AdminsOwn
<1> QED BY <1>4, <1>5, <1>6, <1>7 DEF createSession, rows, IInv, TypeOK

LEMMA setupAdminIInv ==
  ASSUME IInv, NEW u \in Users, setupAdmin(u) PROVE IInv'
<1>1. isAdmin' \in [Users -> BOOLEAN \union {NoRow}]
  BY DEF setupAdmin, IInv, TypeOK
<1>2. RequestsOwn'
  BY DEF setupAdmin, IInv, RequestsOwn, RequestOwn, AdminsOwn
<1> QED BY <1>1, <1>2 DEF setupAdmin, IInv, TypeOK, SessionsOwn, AdminsOwn

LEMMA RestartIInv ==
  ASSUME IInv, NEW next \in Users \union {NoUser}, Restart(next) PROVE IInv'
<1>1. request' \in [Requests -> Request] /\ RequestsOwn'
  BY DEF Restart, RequestsOwn, RequestOwn, Request, Idle
<1>2. SessionsOwn'
  BY DEF Restart, IInv, SessionsOwn, AdminsOwn
<1> QED BY <1>1, <1>2 DEF Restart, rows, IInv, TypeOK

(* A session removed claims no right.                                        *)
LEMMA RemovedIsOwn ==
  ASSUME IInv, NEW sid, sessions' = [sessions EXCEPT ![sid] = NoSession],
         configured' = configured
  PROVE  sessions' \in [SessionIds -> Session \union {NoSession}] /\ SessionsOwn'
<1>1. sessions' \in [SessionIds -> Session \union {NoSession}]
  BY DEF IInv, TypeOK
<1> QED BY <1>1 DEF IInv, TypeOK, SessionsOwn, AdminsOwn

LEMMA EvictIInv ==
  ASSUME IInv, NEW sid \in SessionIds, Evict(sid) PROVE IInv'
<1>1. sessions' \in [SessionIds -> Session \union {NoSession}] /\ SessionsOwn'
  BY RemovedIsOwn DEF Evict
<1>2. RequestsOwn'
  BY DEF Evict, IInv, RequestsOwn, RequestOwn, AdminsOwn
<1> QED BY <1>1, <1>2 DEF Evict, rows, IInv, TypeOK

-----------------------------------------------------------------------------
(* The steps that leave rows, sessions and configuration alone.              *)
LEMMA OnlyRequests ==
  ASSUME IInv, UNCHANGED <<admin, rows, sessions, configured>>,
         request' \in [Requests -> Request], RequestsOwn'
  PROVE  IInv'
BY DEF rows, IInv, TypeOK, SessionsOwn, AdminsOwn

LEMMA CallIInv ==
  ASSUME IInv, NEW r \in Requests, NEW name \in Served,
         NEW sid \in SessionIds \union {NoSession}, Call(r, name, sid)
  PROVE  IInv'
<1> PICK next : next = [pc |-> "guard", route |-> name, sid |-> sid]
  OBVIOUS
<1>1. next \in Request /\ RequestOwn(next)
  BY DEF Request, RequestOwn
<1>2. request' \in [Requests -> Request] /\ RequestsOwn'
  BY <1>1, RequestStep DEF Call, IInv
<1> QED BY <1>2, OnlyRequests DEF Call

(* The guard lets to an administrator's route only a session that is one's.  *)
LEMMA GuardIInv ==
  ASSUME IInv, NEW r \in Requests, Guard(r) PROVE IInv'
<1> PICK q : q = request[r]
  OBVIOUS
<1> PICK session : session = SessionOf(q.sid)
  OBVIOUS
<1> DEFINE guard == RouteOf(q.route).guard
           next == [pc |-> "handler", route |-> q.route, sid |-> q.sid,
                    session |-> IF guard = "none" THEN NoSession ELSE session]
<1>1. q \in Request /\ q.pc = "guard"
  BY DEF Guard, IInv, TypeOK
<1>2. q.route \in Served /\ q.sid \in SessionIds \union {NoSession}
  BY <1>1, InHand
<1>3. session \in Session \union {NoSession} /\ (session # NoSession => AdminsOwn(session))
  BY <1>2 DEF SessionOf, IInv, TypeOK, SessionsOwn
<1>4. \/ Answer(r, "guard", 401)
      \/ Answer(r, "guard", 403)
      \/ /\ Continue(r, next)
         /\ guard = "none" \/ LetsIn(session)
         /\ guard = "admin" => IsAdminSession(session)
  BY DEF Guard
<1>5. configured' = configured /\ UNCHANGED <<admin, rows, sessions, configured>>
  BY DEF Guard
<1>6. CASE Answer(r, "guard", 401) \/ Answer(r, "guard", 403)
  <2>1. request' \in [Requests -> Request] /\ RequestsOwn'
    BY <1>2, <1>5, <1>6, AnswerStep DEF IInv
  <2> QED BY <2>1, <1>5, OnlyRequests
<1>7. CASE /\ Continue(r, next)
           /\ guard = "none" \/ LetsIn(session)
           /\ guard = "admin" => IsAdminSession(session)
  <2> PICK n : n = next
    OBVIOUS
  <2>1. n \in Request
    BY <1>2, <1>3 DEF Request
  <2>2. RequestOwn(n)
    <3>1. n.pc = "handler" /\ n.route = q.route
      OBVIOUS
    <3>2. ASSUME guard = "admin"
          PROVE  n.session = session /\ session # NoSession /\ session.user \in configured
      <4>1. n.session = session /\ session # NoSession
        BY <3>2, <1>7 DEF LetsIn
      <4>2. session.isAdmin
        BY <3>2, <1>7, Zenon DEF IsAdminSession
      <4>3. AdminsOwn(session)
        BY <1>3, <4>1
      <4>4. session.user \in configured
        BY <4>2, <4>3, Zenon DEF AdminsOwn
      <4> QED BY <4>1, <4>4
    <3> QED BY <3>1, <3>2 DEF RequestOwn
  <2>3. request' \in [Requests -> Request] /\ RequestsOwn'
    BY <2>1, <2>2, <1>5, <1>7, RequestStep DEF IInv
  <2> QED BY <2>3, <1>5, OnlyRequests
<1> QED BY <1>4, <1>6, <1>7

LEMMA ThrowIInv ==
  ASSUME IInv, NEW r \in Requests, Throw(r) PROVE IInv'
<1>1. request[r].route \in Served
  BY InHand DEF Throw, IInv, TypeOK
<1>2. request' \in [Requests -> Request] /\ RequestsOwn'
  BY <1>1, AnswerStep DEF Throw, IInv
<1> QED BY <1>2, OnlyRequests DEF Throw

LEMMA FailIInv ==
  ASSUME IInv, NEW r \in Requests, NEW status \in {400, 404, 500}, Fail(r, status)
  PROVE  IInv'
<1>1. request[r].route \in Served
  BY InHand DEF Fail, Returns, IInv, TypeOK
<1>2. request' \in [Requests -> Request] /\ RequestsOwn'
  BY <1>1, AnswerStep DEF Fail, IInv
<1> QED BY <1>2, OnlyRequests DEF Fail

LEMMA JudgeIInv ==
  ASSUME IInv, NEW r \in Requests, NEW u \in Users, Judge(r, u) PROVE IInv'
<1>1. request' \in [Requests -> Request] /\ RequestsOwn'
  BY SucceedStep DEF Judge, IInv
<1>2. creators' \in [Users -> {NoRow, "PENDING", "ACTIVE", "SUSPENDED"}]
  BY DEF Judge, approveCreator, rejectCreator, suspendCreator, banUser, IInv, TypeOK
<1> QED BY <1>1, <1>2 DEF Judge, IInv, TypeOK, SessionsOwn, AdminsOwn

LEMMA logoutIInv ==
  ASSUME IInv, NEW r \in Requests, logout(r) PROVE IInv'
<1>1. request' \in [Requests -> Request] /\ RequestsOwn'
  BY SucceedStep DEF logout, IInv
<1> PICK sid : sid = request[r].sid
  OBVIOUS
<1>2. sessions' \in [SessionIds -> Session \union {NoSession}] /\ SessionsOwn'
  BY RemovedIsOwn DEF logout
<1> QED BY <1>1, <1>2 DEF logout, rows, IInv, TypeOK

LEMMA ServeIInv ==
  ASSUME IInv, NEW r \in Requests, Serve(r) PROVE IInv'
<1>1. request' \in [Requests -> Request] /\ RequestsOwn'
  BY SucceedStep DEF Serve, IInv
<1> QED BY <1>1, OnlyRequests DEF Serve

LEMMA LeaveIInv ==
  ASSUME IInv, NEW r \in Requests, Leave(r) PROVE IInv'
<1>1. request' \in [Requests -> Request] /\ RequestsOwn'
  BY RequestStep DEF Leave, IInv, Request, Idle, RequestOwn
<1> QED BY <1>1, OnlyRequests DEF Leave

LEMMA NextIInv == IInv /\ [Next]_vars => IInv'
<1> SUFFICES ASSUME IInv, [Next]_vars PROVE IInv'
  OBVIOUS
<1>1. CASE UNCHANGED vars
  BY <1>1 DEF vars, IInv, TypeOK, SessionsOwn, RequestsOwn, RequestOwn, AdminsOwn
<1>2. ASSUME NEW r \in Requests,
             \/ \E u \in Users : LogIn(r, u) \/ Judge(r, u)
             \/ \E sid \in SessionIds : createSession(r, sid)
             \/ \E name \in Served, sid \in SessionIds \union {NoSession} : Call(r, name, sid)
      PROVE  IInv'
  BY <1>2, LogInIInv, JudgeIInv, createSessionIInv, CallIInv
<1>3. ASSUME NEW r \in Requests,
             \/ Guard(r) \/ Throw(r) \/ logout(r) \/ Serve(r) \/ Leave(r)
             \/ \E status \in {400, 404, 500} : Fail(r, status)
      PROVE  IInv'
  BY <1>3, GuardIInv, ThrowIInv, logoutIInv, ServeIInv, LeaveIInv, FailIInv
<1>4. CASE \/ \E u \in Users : setupAdmin(u)
           \/ \E next \in Users \union {NoUser} : Restart(next)
           \/ \E sid \in SessionIds : Evict(sid)
  BY <1>4, setupAdminIInv, RestartIInv, EvictIInv
<1> QED BY <1>1, <1>2, <1>3, <1>4 DEF Next

(* In every state sessions and requests claim the rights of an admin only    *)
(* for one who was configured.                                               *)
THEOREM Invariance == Spec => []IInv
<1> QED BY InitIInv, NextIInv, PTL DEF Spec

(* TypeOK of every state, for any number of users, sessions and requests:    *)
(* what a guard reads of a session is a truth value.                         *)
THEOREM TypeCorrect == Spec => []TypeOK
<1>1. IInv => TypeOK
  BY DEF IInv
<1> QED BY <1>1, Invariance, PTL

(* AdminsDecide for any number of users, sessions and requests: whatever     *)
(* setup-admin.ts, log ins and restarts do, approveCreator, rejectCreator,   *)
(* suspendCreator and banUser run only for one who was configured as the     *)
(* admin.                                                                    *)
THEOREM OnlyAdminsDecide == Spec => AdminsDecide
<1>1. ASSUME IInv, [Next]_vars, creators' # creators
      PROVE  \E r \in Requests : /\ request[r].pc = "handler"
                                 /\ request'[r].pc = "answered"
                                 /\ request[r].session # NoSession
                                 /\ request[r].session.user \in configured
  <2>1. \E r \in Requests, u \in Users : Judge(r, u)
    BY <1>1 DEF Next, vars, rows, LogIn, createSession, setupAdmin, Restart, Evict, Call, Guard,
                Throw, Fail, logout, Serve, Leave
  <2> PICK r \in Requests, u \in Users : Judge(r, u)
    BY <2>1
  <2>2. Returns(r) /\ request[r].route \in Judging
    BY DEF Judge, Judging, approveCreator, rejectCreator, suspendCreator, banUser
  <2>3. request'[r].pc = "answered"
    BY <1>1 DEF Judge, Succeed, Answer, Continue, IInv, TypeOK
  <2>4. request[r].pc = "handler"
    BY <2>2 DEF Returns
  <2> QED BY <1>1, <2>2, <2>3, <2>4, JudgesAreOwn
<1>2. IInv /\ [Next]_vars =>
        [creators' # creators =>
            \E r \in Requests : /\ request[r].pc = "handler"
                                /\ request'[r].pc = "answered"
                                /\ request[r].session # NoSession
                                /\ request[r].session.user \in configured]_vars
  BY <1>1
<1> QED BY <1>2, Invariance, PTL DEF Spec, AdminsDecide

=============================================================================
