--------------------------- MODULE Administration ---------------------------
(***************************************************************************)
(* The operations of administrators and creators on the rows of creators   *)
(* and markets: admin.service.ts, the applications and verdicts of         *)
(* creators.service.ts, createMarket of markets.service.ts.                *)
(*                                                                         *)
(* Each is a request that reads a row (findOne), checks and changes its    *)
(* copy, and saves the copy.  save is two commands: it reads the row again *)
(* and then updates the columns in which the copy differs from what it     *)
(* read.  Requests of one or several servers run between each other's      *)
(* commands.  Nothing here calls a contract.                               *)
(***************************************************************************)
EXTENDS Naturals

CONSTANTS
    Users,        \* the users; a creator is the row of one of them
    Markets,      \* ids of markets
    Requests,     \* requests that are served at one time
    MAX_OUTCOMES, \* outcomes of a market
    NoRow,        \* no such row in the table
    NoOutcome,    \* winningOutcomeIndex is null
    MaxTime,      \* bound: the end of a market
    MaxRefunds    \* bound: refunds of one stake

VARIABLES
    creators,     \* the table of creators
    markets,      \* the table of markets
    outcomes,     \* how many outcomes are stored of each market
    request,      \* what each request has in hand
    refunds,      \* history: stakes reported as returned, by creator
    contended     \* history: rows that two requests had in hand at once

vars == <<creators, markets, outcomes, request, refunds, contended>>
tables == <<creators, markets, outcomes>>

CreatorRow ==
    [status : {"PENDING", "ACTIVE", "SUSPENDED"}, stakePaid : BOOLEAN,
     stakeReturned : BOOLEAN, sharesUnlocked : BOOLEAN]

MarketRow ==
    [status : {"ACTIVE", "PENDING_RESOLUTION", "RESOLVED", "DISPUTED", "CANCELLED"},
     endTime : Nat, winningOutcomeIndex : Nat \union {NoOutcome}]

ASSUME AdministrationAssumption ==
    /\ MAX_OUTCOMES \in Nat
    /\ NoRow \notin CreatorRow \union MarketRow
    /\ NoOutcome \notin Nat
    /\ Users \intersect Markets = {}
    /\ MaxTime \in Nat
    /\ MaxRefunds \in Nat

Idle == [pc |-> "idle"]

(* before is the row as findOne read it, row the copy with the changes, seen *)
(* the row as save read it; refund says that the answer reports a refund.    *)
Request ==
  {Idle}
  \union [pc : {"insertCreator"}, id : Users]
  \union [pc : {"saveCreator"}, id : Users, before : CreatorRow, row : CreatorRow,
          refund : BOOLEAN]
  \union [pc : {"updateCreator"}, id : Users, before : CreatorRow, row : CreatorRow,
          refund : BOOLEAN, seen : CreatorRow]
  \union [pc : {"insertMarket"}, row : MarketRow, size : 2 .. MAX_OUTCOMES]
  \union [pc : {"insertOutcomes"}, id : Markets, size : 2 .. MAX_OUTCOMES]
  \union [pc : {"saveMarket"}, id : Markets, before : MarketRow, row : MarketRow]
  \union [pc : {"updateMarket"}, id : Markets, before : MarketRow, row : MarketRow,
          seen : MarketRow]

(* What the seeds insert, and what an application.                           *)
SeededCreator ==
    [status |-> "ACTIVE", stakePaid |-> TRUE,
     stakeReturned |-> FALSE, sharesUnlocked |-> TRUE]

Application ==
    [status |-> "PENDING", stakePaid |-> FALSE,
     stakeReturned |-> FALSE, sharesUnlocked |-> FALSE]

Init ==
    /\ creators \in [Users -> {NoRow, SeededCreator}]
    /\ markets = [m \in Markets |-> NoRow]
    /\ outcomes = [m \in Markets |-> 0]
    /\ request = [r \in Requests |-> Idle]
    /\ refunds = [u \in Users |-> 0]
    /\ contended = {}

-----------------------------------------------------------------------------
Continue(r, next) == request' = [request EXCEPT ![r] = next]

(* Request r has a copy of row x in hand, or a row to insert as x.           *)
Holds(r, x) ==
    /\ request[r].pc \in {"insertCreator", "saveCreator", "updateCreator",
                          "saveMarket", "updateMarket"}
    /\ request[r].id = x

Touch(x) ==
    contended' = IF \E r \in Requests : Holds(r, x) THEN contended \union {x} ELSE contended

(* A request that reads row x begins.                                        *)
Begin(r, next) ==
    /\ request[r] = Idle
    /\ Continue(r, next)
    /\ Touch(next.id)

EditCreator(r, u, row, refund) ==
    /\ Begin(r, [pc |-> "saveCreator", id |-> u, before |-> creators[u], row |-> row,
                 refund |-> refund])
    /\ UNCHANGED <<tables, refunds>>

EditMarket(r, m, row) ==
    /\ Begin(r, [pc |-> "saveMarket", id |-> m, before |-> markets[m], row |-> row])
    /\ UNCHANGED <<tables, refunds>>

(* save reads the row again, and updates what differs: the columns it leaves *)
(* alone are those in which the copy agrees with this second reading.        *)
Column(current, seen, copy) == IF copy = seen THEN current ELSE copy

LoadCreator(r) ==
    LET q == request[r]
    IN  /\ q.pc = "saveCreator"
        /\ Continue(r, [pc |-> "updateCreator", id |-> q.id, before |-> q.before,
                        row |-> q.row, refund |-> q.refund, seen |-> creators[q.id]])
        /\ UNCHANGED <<tables, refunds, contended>>

UpdatedCreator(current, seen, copy) ==
    [status |-> Column(current.status, seen.status, copy.status),
     stakePaid |-> Column(current.stakePaid, seen.stakePaid, copy.stakePaid),
     stakeReturned |-> Column(current.stakeReturned, seen.stakeReturned, copy.stakeReturned),
     sharesUnlocked |-> Column(current.sharesUnlocked, seen.sharesUnlocked, copy.sharesUnlocked)]

UpdateCreator(r) ==
    LET q == request[r]
    IN  /\ q.pc = "updateCreator"
        /\ creators' = [creators EXCEPT ![q.id] = UpdatedCreator(@, q.seen, q.row)]
        /\ refunds' = [refunds EXCEPT ![q.id] = IF q.refund THEN @ + 1 ELSE @]
        /\ Continue(r, Idle)
        /\ UNCHANGED <<markets, outcomes, contended>>

LoadMarket(r) ==
    LET q == request[r]
    IN  /\ q.pc = "saveMarket"
        /\ Continue(r, [pc |-> "updateMarket", id |-> q.id, before |-> q.before,
                        row |-> q.row, seen |-> markets[q.id]])
        /\ UNCHANGED <<tables, refunds, contended>>

UpdatedMarket(current, seen, copy) ==
    [status |-> Column(current.status, seen.status, copy.status),
     endTime |-> Column(current.endTime, seen.endTime, copy.endTime),
     winningOutcomeIndex |-> Column(current.winningOutcomeIndex,
                                    seen.winningOutcomeIndex, copy.winningOutcomeIndex)]

UpdateMarket(r) ==
    LET q == request[r]
    IN  /\ q.pc = "updateMarket"
        /\ markets' = [markets EXCEPT ![q.id] = UpdatedMarket(@, q.seen, q.row)]
        /\ Continue(r, Idle)
        /\ UNCHANGED <<creators, outcomes, refunds, contended>>

-----------------------------------------------------------------------------
(* Creators.  Users and twitter ids are unique columns: an insertion fails   *)
(* when another application of the user came first.                          *)
applyCreator(r, u) ==
    /\ creators[u] = NoRow
    /\ Begin(r, [pc |-> "insertCreator", id |-> u])
    /\ UNCHANGED <<tables, refunds>>

InsertCreator(r) ==
    LET u == request[r].id
    IN  /\ request[r].pc = "insertCreator"
        /\ creators' = [creators EXCEPT ![u] = IF @ = NoRow THEN Application ELSE @]
        /\ Continue(r, Idle)
        /\ UNCHANGED <<markets, outcomes, refunds, contended>>

(* Mistaken form: a creator who was suspended can be judged again.           *)
IsNotActive(creator) == creator.status # "ACTIVE"

IsPending(creator) == creator.status = "PENDING"

approveCreator(r, u) ==
    /\ creators[u] # NoRow
    /\ IsPending(creators[u])
    /\ EditCreator(r, u, [creators[u] EXCEPT !.status = "ACTIVE"], FALSE)

rejectCreator(r, u) ==
    /\ creators[u] # NoRow
    /\ IsPending(creators[u])
    /\ EditCreator(r, u, [creators[u] EXCEPT !.status = "SUSPENDED"], FALSE)

suspendCreator(r, u) ==
    /\ creators[u] # NoRow
    /\ EditCreator(r, u, [creators[u] EXCEPT !.status = "SUSPENDED"], FALSE)

(* The creator of a banned user is suspended; the user's row stays as it is. *)
banUser(r, u) ==
    /\ creators[u] # NoRow
    /\ EditCreator(r, u, [creators[u] EXCEPT !.status = "SUSPENDED"], FALSE)

overrideShareUnlock(r, u) ==
    /\ creators[u] # NoRow
    /\ ~creators[u].sharesUnlocked
    /\ EditCreator(r, u, [creators[u] EXCEPT !.sharesUnlocked = TRUE], FALSE)

(* Mistaken form: whether the stake was returned is not looked at.           *)
HasPaid(creator) == creator.stakePaid

HasStake(creator) == creator.stakePaid /\ ~creator.stakeReturned

refundCreatorStake(r, u) ==
    /\ creators[u] # NoRow
    /\ HasStake(creators[u])
    /\ refunds[u] < MaxRefunds
    /\ EditCreator(r, u, [creators[u] EXCEPT !.stakeReturned = TRUE], TRUE)

-----------------------------------------------------------------------------
(* Markets.  The row is saved first, its outcomes by another command.        *)
createMarket(r, u, end, size) ==
    /\ creators[u] # NoRow
    /\ request[r] = Idle
    /\ Continue(r, [pc |-> "insertMarket", size |-> size,
                    row |-> [status |-> "ACTIVE", endTime |-> end,
                             winningOutcomeIndex |-> NoOutcome]])
    /\ UNCHANGED <<tables, refunds, contended>>

InsertMarket(r, m) ==
    LET q == request[r]
    IN  /\ q.pc = "insertMarket"
        /\ markets[m] = NoRow
        /\ markets' = [markets EXCEPT ![m] = q.row]
        /\ Continue(r, [pc |-> "insertOutcomes", id |-> m, size |-> q.size])
        /\ UNCHANGED <<creators, outcomes, refunds, contended>>

InsertOutcomes(r) ==
    LET q == request[r]
    IN  /\ q.pc = "insertOutcomes"
        /\ outcomes' = [outcomes EXCEPT ![q.id] = q.size]
        /\ Continue(r, Idle)
        /\ UNCHANGED <<creators, markets, refunds, contended>>

(* Mistaken form: the index may be one past the last outcome.                *)
IsOutcomeOrNext(m, winningOutcome) == winningOutcome <= outcomes[m]

IsOutcome(m, winningOutcome) == winningOutcome < outcomes[m]

resolveMarket(r, m, winningOutcome) ==
    /\ markets[m] # NoRow
    /\ markets[m].status = "PENDING_RESOLUTION"
    /\ IsOutcome(m, winningOutcome)
    /\ EditMarket(r, m, [markets[m] EXCEPT !.status = "RESOLVED",
                                           !.winningOutcomeIndex = winningOutcome])

(* Mistaken form: any market can be stopped.                                 *)
IsAnything(market) == market \in MarketRow

IsNotResolved(market) == market.status # "RESOLVED"

disputeMarket(r, m) ==
    /\ markets[m] # NoRow
    /\ IsNotResolved(markets[m])
    /\ EditMarket(r, m, [markets[m] EXCEPT !.status = "DISPUTED"])

cancelMarket(r, m) ==
    /\ markets[m] # NoRow
    /\ IsNotResolved(markets[m])
    /\ EditMarket(r, m, [markets[m] EXCEPT !.status = "CANCELLED"])

extendMarket(r, m, additionalHours) ==
    /\ markets[m] # NoRow
    /\ markets[m].status = "ACTIVE"
    /\ markets[m].endTime + additionalHours <= MaxTime
    /\ EditMarket(r, m, [markets[m] EXCEPT !.endTime = @ + additionalHours])

(* resolveMarket and getPendingMarkets expect the status PENDING_RESOLUTION, *)
(* which no code sets: it is set in the database from outside.               *)
CloseMarket(m) ==
    /\ markets[m] # NoRow
    /\ markets[m].status = "ACTIVE"
    /\ markets' = [markets EXCEPT ![m].status = "PENDING_RESOLUTION"]
    /\ Touch(m)
    /\ UNCHANGED <<creators, outcomes, request, refunds>>

(* The database fails, or the server stops, before the next command.         *)
Abort(r) ==
    /\ request[r] # Idle
    /\ Continue(r, Idle)
    /\ UNCHANGED <<tables, refunds, contended>>

(* What the bodies of the requests may hold: create-market.dto.ts,           *)
(* resolve-market.dto.ts and extend-market.dto.ts.  Time is counted in       *)
(* units of an hour; a market lasts six hours to seven days.                 *)
EndTimes == 1 .. MaxTime

Sizes == 2 .. MAX_OUTCOMES

WinningOutcomes == 0 .. MAX_OUTCOMES

AdditionalHours == 1 .. MaxTime

Next ==
    \/ \E r \in Requests :
         \/ \E u \in Users :
              \/ applyCreator(r, u)
              \/ approveCreator(r, u)
              \/ rejectCreator(r, u)
              \/ suspendCreator(r, u)
              \/ banUser(r, u)
              \/ overrideShareUnlock(r, u)
              \/ refundCreatorStake(r, u)
              \/ \E end \in EndTimes, size \in Sizes : createMarket(r, u, end, size)
         \/ \E m \in Markets :
              \/ InsertMarket(r, m)
              \/ \E i \in WinningOutcomes : resolveMarket(r, m, i)
              \/ disputeMarket(r, m)
              \/ cancelMarket(r, m)
              \/ \E hours \in AdditionalHours : extendMarket(r, m, hours)
         \/ InsertCreator(r)
         \/ LoadCreator(r)
         \/ UpdateCreator(r)
         \/ InsertOutcomes(r)
         \/ LoadMarket(r)
         \/ UpdateMarket(r)
         \/ Abort(r)
    \/ \E m \in Markets : CloseMarket(m)

Spec == Init /\ [][Next]_vars

-----------------------------------------------------------------------------
(* Types of the state.                                                       *)
TypeOK ==
    /\ creators \in [Users -> CreatorRow \union {NoRow}]
    /\ markets \in [Markets -> MarketRow \union {NoRow}]
    /\ outcomes \in [Markets -> {0} \union 2 .. MAX_OUTCOMES]
    /\ request \in [Requests -> Request]
    /\ refunds \in [Users -> Nat]
    /\ contended \in SUBSET (Users \union Markets)

Alone(x) == x \notin contended

(* As long as no two requests had the row of a creator in hand at once, the  *)
(* stake reported as returned, at most once, is what the row says: neither a *)
(* repeated refund nor a save of another column gets by the flag.            *)
StakeRefundedOnce ==
    \A u \in Users : Alone(u) =>
        refunds[u] = IF creators[u] # NoRow /\ creators[u].stakeReturned THEN 1 ELSE 0

(* A market has a winner if and only if it is resolved, unless requests      *)
(* overlapped: then a dispute may save its status over the winner.           *)
WinnerIffResolved ==
    \A m \in Markets : (Alone(m) /\ markets[m] # NoRow) =>
        (markets[m].winningOutcomeIndex # NoOutcome <=> markets[m].status = "RESOLVED")

(* The winner is one of the stored outcomes, although the index was checked  *)
(* against outcomes read long before the save, although the outcomes are     *)
(* saved after their market, and however requests overlap or fail.           *)
WinnerIsStored ==
    \A m \in Markets : markets[m] # NoRow =>
        (markets[m].winningOutcomeIndex # NoOutcome =>
            markets[m].winningOutcomeIndex < outcomes[m])

(* The rows nobody worked on at the same time go through their life in the   *)
(* single steps of the operations: a suspended creator and a resolved market *)
(* stay so, no extension and no verdict is lost or taken twice.              *)
Lifecycle == INSTANCE RowLifecycle

LivesInSteps == Lifecycle!Spec

(* "Stake already refunded" (admin.service.ts): no stake is returned twice,  *)
(* whoever works on the row meanwhile.                                       *)
NoSecondRefund == \A u \in Users : refunds[u] <= 1
=============================================================================
