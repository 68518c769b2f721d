------------------------------- MODULE Access -------------------------------
(***************************************************************************)
(* Who may call which route of the backend, and what the answer is: the    *)
(* controllers, their guards, and where the rights in a session come from. *)
(*                                                                         *)
(* A guard reads the session once, before the handler; the session was     *)
(* made at a log in and keeps the rights of then.  What becomes of a       *)
(* session in the meantime is the matter of module Accounts.               *)
(***************************************************************************)
EXTENDS Naturals, FiniteSets, Functions

CONSTANTS
    Users,       \* Twitter ids
    SessionIds,  \* random session ids, used once
    Requests,    \* slots for the requests in progress
    Served,      \* the routes that are called
    NoUser, NoRow, NoSession

ASSUME AccessAssumption == NoUser \notin Users

VARIABLES
    admin,     \* ADMIN_TWITTER_ID of the server that runs
    isAdmin,   \* the column of each user's row, or NoRow
    creators,  \* the status of each user's row among the creators, or NoRow
    sessions,  \* what each session says
    request,   \* what each request is doing
    configured \* history: who was configured as the admin, now or before

vars == <<admin, isAdmin, creators, sessions, request, configured>>
rows == <<isAdmin, creators>>

-----------------------------------------------------------------------------
(* A route: its method, its guard, whether its handler reads req.session,    *)
(* and the code of the success that its decorators or, where it has none,    *)
(* API_DOCUMENTATION.md documents.                                           *)
Route(method, guard, readsSession, documented) ==
    [method |-> method, guard |-> guard, readsSession |-> readsSession,
     documented |-> documented]

Open == Route("GET", "none", FALSE, 200)

(* The class has AdminAuthGuard.                                             *)
AsAdmin(method) == Route(method, "admin", FALSE, 200)

AdminController ==
    [getPendingMarkets |-> AsAdmin("GET"),
     resolveMarket |-> AsAdmin("POST"),
     disputeMarket |-> AsAdmin("POST"),
     extendMarket |-> AsAdmin("PUT"),
     cancelMarket |-> AsAdmin("DELETE"),
     getPendingCreators |-> AsAdmin("GET"),
     suspendCreator |-> AsAdmin("POST")]

AdminControllerMore ==
    [overrideShareUnlock |-> AsAdmin("PUT"),
     refundCreatorStake |-> AsAdmin("POST"),
     searchUsersAsAdmin |-> AsAdmin("GET"),
     banUser |-> AsAdmin("POST"),
     processUserRefund |-> AsAdmin("POST"),
     getSystemHealth |-> AsAdmin("GET"),
     getPlatformStats |-> AsAdmin("GET"),
     triggerJob |-> AsAdmin("POST")]

AdminControllerSystem ==
    [getErrorLogs |-> AsAdmin("GET"),
     pauseContracts |-> AsAdmin("POST"),
     getPlatformAnalytics |-> AsAdmin("GET"),
     getRevenueMetrics |-> AsAdmin("GET")]

CreatorsController ==
    [applyCreator |-> Route("POST", "auth", TRUE, 201),
     listCreators |-> Open,
     getMyCreatorProfile |-> Route("GET", "auth", TRUE, 200),
     getCreatorByAddress |-> Open,
     approveCreator |-> Route("POST", "admin", FALSE, 200),
     rejectCreator |-> Route("POST", "admin", FALSE, 200),
     checkEligibility |-> Route("POST", "auth", TRUE, 200)]

CreatorsControllerMetrics ==
    [getVolumeProgress |-> Open,
     getShareholders |-> Open,
     getPerformance |-> Open]

MarketsController ==
    [createMarket |-> Route("POST", "creator", TRUE, 201),
     listMarkets |-> Open,
     getMarket |-> Open,
     getUserPosition |-> Open,
     prepareTrade |-> Route("POST", "auth", TRUE, 200),
     prepareClaim |-> Route("POST", "auth", TRUE, 200)]

MarketsControllerActivity ==
    [getMarketTrades |-> Open,
     getMarketActivity |-> Open,
     getMarketChart |-> Open,
     getMarketComments |-> Open]

SharesController ==
    [getSharePrice |-> Open,
     buyShares |-> Route("POST", "auth", TRUE, 200),
     sellShares |-> Route("POST", "auth", TRUE, 200),
     getSharePortfolio |-> Open]

SharesControllerHistory ==
    [getTransactionHistory |-> Open,
     getChartData |-> Open]

DividendsController ==
    [getClaimableDividends |-> Open,
     initiateClaim |-> Route("POST", "auth", TRUE, 200),
     completeClaim |-> Route("POST", "auth", TRUE, 200),
     getClaimHistory |-> Open]

UsersController ==
    [getCurrentUser |-> Route("GET", "auth", TRUE, 200),
     updateCurrentUser |-> Route("PATCH", "auth", TRUE, 200),
     getUserById |-> Open,
     getUserByHandle |-> Open,
     getUserByWallet |-> Open,
     getUserPortfolio |-> Open,
     getUserActivity |-> Open,
     searchUsers |-> Open]

NotificationsController ==
    [getNotifications |-> Route("GET", "auth", TRUE, 200),
     markAsRead |-> Route("PATCH", "auth", TRUE, 200),
     markAllAsRead |-> Route("POST", "auth", TRUE, 200),
     deleteNotification |-> Route("DELETE", "auth", TRUE, 200)]

AnalyticsController ==
    [getLeaderboard |-> Open, getTrending |-> Open, getMetrics |-> Open,
     getCategoryStats |-> Open, getVolumeHistory |-> Open, getUserStats |-> Open]

HealthController ==
    [check |-> Open, getVersion |-> Open, getStats |-> Open, getGasPrices |-> Open]

(* These have no decorators.                                                 *)
AuthController ==
    [logout |-> Route("POST", "auth", FALSE, 201),
     me |-> Route("GET", "auth", FALSE, 200),
     linkWallet |-> Route("POST", "auth", FALSE, 201)]

Controllers ==
    {AdminController, AdminControllerMore, AdminControllerSystem, CreatorsController,
     CreatorsControllerMetrics, MarketsController, MarketsControllerActivity, SharesController,
     SharesControllerHistory, DividendsController, UsersController, NotificationsController,
     AnalyticsController, HealthController, AuthController}

RouteNames == UNION {DOMAIN controller : controller \in Controllers}

RouteOf(name) == LET c == CHOOSE c \in Controllers : name \in DOMAIN c IN c[name]

-----------------------------------------------------------------------------
Idle == [pc |-> "idle"]

Session == [user : Users, isAdmin : BOOLEAN, isCreator : BOOLEAN]

Request ==
    {Idle}
    \union [pc : {"create"}, user : Users, isAdmin : BOOLEAN]
    \union [pc : {"guard"}, route : Served, sid : SessionIds \union {NoSession}]
    \union [pc : {"handler"}, route : Served, sid : SessionIds \union {NoSession},
            session : Session \union {NoSession}]
    \union [pc : {"answered"}, route : Served, by : {"guard", "service", "handler", "error"},
            status : {200, 201, 400, 401, 403, 404, 500}]

(* The rows are those of the seeds, the script and the services.             *)
Init ==
    /\ admin \in Users \union {NoUser}
    /\ isAdmin \in [Users -> BOOLEAN \union {NoRow}]
    /\ creators \in [Users -> {NoRow, "PENDING", "ACTIVE"}]
    /\ \A u \in Users : isAdmin[u] = NoRow => creators[u] = NoRow
    /\ sessions = [sid \in SessionIds |-> NoSession]
    /\ request = [r \in Requests |-> Idle]
    /\ configured = {admin}

Continue(r, next) == request' = [request EXCEPT ![r] = next]

-----------------------------------------------------------------------------
(* Mistaken form: an admin stays one.                                        *)
IsOrWasAdmin(u) == u = admin \/ isAdmin[u] = TRUE

IsConfigured(u) == u = admin

(* createOrUpdateUser writes the column anew at every log in.                *)
LogIn(r, u) ==
    /\ request[r] = Idle
    /\ isAdmin' = [isAdmin EXCEPT ![u] = IsConfigured(u)]
    /\ Continue(r, [pc |-> "create", user |-> u, isAdmin |-> IsConfigured(u)])
    /\ UNCHANGED <<admin, creators, sessions, configured>>

(* createSession asks whether there is a creator, of whatever status.        *)
HasCreator(u) == creators[u] # NoRow

(* An id is random: it is new, and no request in progress carries it.        *)
createSession(r, sid) ==
    LET u == request[r].user
    IN  /\ request[r].pc = "create"
        /\ sessions[sid] = NoSession
        /\ \A q \in Requests : request[q].pc \in {"guard", "handler"} => request[q].sid # sid
        /\ sessions' = [sessions EXCEPT ![sid] = [user |-> u, isAdmin |-> request[r].isAdmin,
                                                  isCreator |-> HasCreator(u)]]
        /\ Continue(r, Idle)
        /\ UNCHANGED <<admin, rows, configured>>

(* The script setup-admin.ts writes the column in the database.              *)
setupAdmin(u) ==
    /\ isAdmin[u] # NoRow
    /\ isAdmin' = [isAdmin EXCEPT ![u] = TRUE]
    /\ UNCHANGED <<admin, creators, sessions, request, configured>>

(* The server is started again, with another id configured or the same:      *)
(* requests are lost, rows and sessions stay.                                *)
Restart(next) ==
    /\ admin' = next
    /\ configured' = configured \union {next}
    /\ request' = [r \in Requests |-> Idle]
    /\ UNCHANGED <<rows, sessions>>

(* A session nobody used for its time is gone.                               *)
Evict(sid) ==
    /\ sessions[sid] # NoSession
    /\ sessions' = [sessions EXCEPT ![sid] = NoSession]
    /\ UNCHANGED <<admin, rows, request, configured>>

-----------------------------------------------------------------------------
Call(r, name, sid) ==
    /\ request[r] = Idle
    /\ Continue(r, [pc |-> "guard", route |-> name, sid |-> sid])
    /\ UNCHANGED <<admin, rows, sessions, configured>>

(* by says who gives the answer: the guard, the service or the validation,   *)
(* the handler when it returns, or the filter for an error of the handler.   *)
Answer(r, by, status) ==
    Continue(r, [pc |-> "answered", route |-> request[r].route, by |-> by, status |-> status])

SessionOf(sid) == IF sid = NoSession THEN NoSession ELSE sessions[sid]

(* AdminAuthGuard.                                                           *)
IsAdminSession(session) == session.isAdmin

(* AuthGuard.                                                                *)
LetsIn(session) == session # NoSession

(* CreatorAuthGuard.                                                         *)
IsCreatorSession(session) == session.isAdmin \/ session.isCreator

Guard(r) ==
    LET guard == RouteOf(request[r].route).guard
        session == SessionOf(request[r].sid)
    IN  /\ request[r].pc = "guard"
        /\ IF guard # "none" /\ ~LetsIn(session) THEN Answer(r, "guard", 401)
           ELSE IF \/ guard = "admin" /\ ~IsAdminSession(session)
                   \/ guard = "creator" /\ ~IsCreatorSession(session)
           THEN Answer(r, "guard", 403)
           ELSE Continue(r, [pc |-> "handler", route |-> request[r].route,
                             sid |-> request[r].sid,
                             session |-> IF guard = "none" THEN NoSession ELSE session])
        /\ UNCHANGED <<admin, rows, sessions, configured>>

(* Nest's code of a handler that returns; logout sets 200.                   *)
SuccessOf(name) ==
    IF RouteOf(name).method = "POST" /\ name # "logout" THEN 201 ELSE 200

(* req.session is undefined, so a handler that reads userId from it throws a *)
(* TypeError, which the filter answers with 500.                             *)
Throw(r) ==
    /\ request[r].pc = "handler"
    /\ RouteOf(request[r].route).readsSession
    /\ Answer(r, "error", 500)
    /\ UNCHANGED <<admin, rows, sessions, configured>>

Returns(r) ==
    /\ request[r].pc = "handler"
    /\ ~RouteOf(request[r].route).readsSession

(* The validation, which comes before the handler, or the service refuses,   *)
(* or the database or the chain fails.                                       *)
Fail(r, status) ==
    /\ request[r].pc = "handler"
    /\ status = 400 \/ Returns(r)
    /\ Answer(r, "service", status)
    /\ UNCHANGED <<admin, rows, sessions, configured>>

Succeed(r) == Answer(r, "handler", SuccessOf(request[r].route))

(* The handlers that change the status of a creator u.                       *)
approveCreator(r, u) ==
    /\ request[r].route = "approveCreator"
    /\ creators[u] = "PENDING"
    /\ creators' = [creators EXCEPT ![u] = "ACTIVE"]

rejectCreator(r, u) ==
    /\ request[r].route = "rejectCreator"
    /\ creators[u] = "PENDING"
    /\ creators' = [creators EXCEPT ![u] = "SUSPENDED"]

suspendCreator(r, u) ==
    /\ request[r].route = "suspendCreator"
    /\ creators[u] # NoRow
    /\ creators' = [creators EXCEPT ![u] = "SUSPENDED"]

banUser(r, u) ==
    /\ request[r].route = "banUser"
    /\ isAdmin[u] # NoRow
    /\ creators' = IF creators[u] = NoRow THEN creators
                   ELSE [creators EXCEPT ![u] = "SUSPENDED"]

Judge(r, u) ==
    /\ Returns(r)
    /\ approveCreator(r, u) \/ rejectCreator(r, u) \/ suspendCreator(r, u) \/ banUser(r, u)
    /\ Succeed(r)
    /\ UNCHANGED <<admin, isAdmin, sessions, configured>>

logout(r) ==
    /\ Returns(r)
    /\ request[r].route = "logout"
    /\ sessions' = [sessions EXCEPT ![request[r].sid] = NoSession]
    /\ Succeed(r)
    /\ UNCHANGED <<admin, rows, configured>>

(* Any other handler: what it does is the matter of the other modules.       *)
Serve(r) ==
    /\ Returns(r)
    /\ request[r].route \notin {"approveCreator", "rejectCreator", "suspendCreator", "banUser",
                               "logout"}
    /\ Succeed(r)
    /\ UNCHANGED <<admin, rows, sessions, configured>>

Leave(r) ==
    /\ request[r].pc = "answered"
    /\ Continue(r, Idle)
    /\ UNCHANGED <<admin, rows, sessions, configured>>

Next ==
    \/ \E r \in Requests :
         \/ \E u \in Users : LogIn(r, u) \/ Judge(r, u)
         \/ \E sid \in SessionIds : createSession(r, sid)
         \/ \E name \in Served, sid \in SessionIds \union {NoSession} : Call(r, name, sid)
         \/ Guard(r)
         \/ Throw(r)
         \/ \E status \in {400, 404, 500} : Fail(r, status)
         \/ logout(r)
         \/ Serve(r)
         \/ Leave(r)
    \/ \E u \in Users : setupAdmin(u)
    \/ \E next \in Users \union {NoUser} : Restart(next)
    \/ \E sid \in SessionIds : Evict(sid)

Spec == Init /\ [][Next]_vars

-----------------------------------------------------------------------------
(* Types of the state: what the guards read of a session is a truth value.   *)
TypeOK ==
    /\ admin \in Users \union {NoUser}
    /\ isAdmin \in [Users -> BOOLEAN \union {NoRow}]
    /\ creators \in [Users -> {NoRow, "PENDING", "ACTIVE", "SUSPENDED"}]
    /\ sessions \in [SessionIds -> Session \union {NoSession}]
    /\ request \in [Requests -> Request]
    /\ configured \subseteq Users \union {NoUser}

(* The status of a creator changes only in a handler that runs for somebody  *)
(* who was configured as the admin: neither the column of the row, which     *)
(* setup-admin.ts and the seeds write, nor being a creator is enough, from   *)
(* the log in over the session and the guard to the handler.                 *)
AdminsDecide ==
    [][creators' # creators =>
         \E r \in Requests : /\ request[r].pc = "handler"
                             /\ request'[r].pc = "answered"
                             /\ request[r].session # NoSession
                             /\ request[r].session.user \in configured]_vars

(* "status: 201, description: 'Creator application submitted'" is documented *)
(* of a request that the guard and the validation let in, and the like of    *)
(* every other handler; no request is documented to be answered by an error  *)
(* of its own handler (creators.controller.ts:28).                           *)
HandlersDoNotThrow ==
    \A r \in Requests : request[r].pc = "answered" => request[r].by # "error"

(* The codes of success are those documented, as "status: 200" of the        *)
(* resolution of a market (admin.controller.ts) and "Response Codes: 201" of *)
(* the log out (API_DOCUMENTATION.md:526).                                   *)
SuccessAsDocumented ==
    \A r \in Requests :
        (request[r].pc = "answered" /\ request[r].by = "handler")
            => request[r].status = RouteOf(request[r].route).documented
=============================================================================
