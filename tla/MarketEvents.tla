---------------------------- MODULE MarketEvents ----------------------------
(***************************************************************************)
(* market-events.service.ts: how the events of a market contract change    *)
(* the rows of the market, its outcomes, positions and trades.             *)
(*                                                                         *)
(* startEventListeners returns before the block that registers the         *)
(* handlers; they are modelled as that block would register them.  The     *)
(* emitter does not wait for a handler, so the handlers of several events  *)
(* run between each other's commands to the database, and between those of *)
(* the requests of admins that set the status of the market's row.  An     *)
(* error ends a handler where it is; nothing is undone.                    *)
(*                                                                         *)
(* One contract holds many markets under one address.  The handlers find   *)
(* the row by the address of the contract and do not read the id of the    *)
(* market: what happens to all markets of the contract is recorded in one  *)
(* row, its outcomes and positions.                                        *)
(***************************************************************************)
EXTENDS Naturals, FiniteSets, FiniteSetsExt

CONSTANTS
    Users,      \* addresses that bet
    Registered, \* the addresses that are linked to a user
    Markets,    \* ids of the markets of the contract
    Outcomes,   \* outcomes of these markets
    Stored,     \* the outcomes that have a row
    Amounts,    \* amounts of bets and winnings
    Events,     \* ids of events and of requests of admins
    NoRow, NoOutcome

VARIABLES
    market,    \* the row with the address of the contract
    staked,    \* totalStaked of the rows of the outcomes
    positions, \* the table of positions, by user and outcome
    trades,    \* the table of trades, by the event they record
    handler,   \* how far the handler of each event is
    overlaps   \* history: pairs of events whose handlers ran at once

vars == <<market, staked, positions, trades, handler, overlaps>>

(* Shares and averagePrice follow from costBasis, totalShares of an outcome  *)
(* from totalStaked: a share costs one unit.                                 *)
Market == [status : {"ACTIVE", "RESOLVED", "DISPUTED", "CANCELLED"},
           winningOutcomeIndex : Outcomes \union {NoOutcome}, totalVolume : Nat,
           tradeCount : Nat, participantCount : Nat]

Position == [costBasis : Nat, claimed : BOOLEAN, claimedAmount : Nat]

(* An admin extends, disputes or cancels the market.                         *)
Event == [name : {"BetPlaced"}, market : Markets, user : Users, outcome : Outcomes,
          amount : Amounts]
         \union [name : {"MarketResolved"}, market : Markets, outcome : Outcomes]
         \union [name : {"WinningsClaimed"}, market : Markets, user : Users, amount : Amounts]
         \union [name : {"AdminRequest"}, status : {"ACTIVE", "DISPUTED", "CANCELLED"}]

Trade == [user : Registered, outcome : Stored, amount : Amounts]

ASSUME MarketEventsAssumption ==
    /\ Registered \subseteq Users
    /\ Stored \subseteq Outcomes
    /\ Amounts \subseteq Nat \ {0}
    /\ NoOutcome \notin Outcomes
    /\ NoRow \notin Position \union Trade
    /\ IsFiniteSet(Events) /\ IsFiniteSet(Outcomes)

(* The copy of the market and of totalStaked of its outcomes.                *)
Read == [market : Market, staked : [Outcomes -> Nat]]

Handler ==
  [pc : {"waiting"}]
  \union [pc : {"done", "failed", "find"}, event : Event]
  \union [pc : {"findPosition"}, event : Event, copy : Read]
  \union [pc : {"insertPosition", "loadPosition", "insertTrade"}, event : Event,
          copy : Read, position : Position]
  \union [pc : {"updatePosition"}, event : Event, copy : Read,
          position : Position, seen : Position]
  \union [pc : {"loadMarket", "loadOutcome"}, event : Event, copy : Read]
  \union [pc : {"updateMarket", "updateOutcome"}, event : Event, copy : Read, seen : Read]
  \union [pc : {"findPositions"}, event : Event]
  \union [pc : {"claim"}, event : Event, rows : [Outcomes -> Position \union {NoRow}]]
  \union [pc : {"updateClaim"}, event : Event, rows : [Outcomes -> Position \union {NoRow}],
          outcome : Outcomes, seen : Position]

Init ==
    /\ market = [status |-> "ACTIVE", winningOutcomeIndex |-> NoOutcome, totalVolume |-> 0,
                 tradeCount |-> 0, participantCount |-> 0]
    /\ staked = [o \in Outcomes |-> 0]
    /\ positions = [u \in Users |-> [o \in Outcomes |-> NoRow]]
    /\ trades = [e \in Events |-> NoRow]
    /\ handler = [e \in Events |-> [pc |-> "waiting"]]
    /\ overlaps = {}

-----------------------------------------------------------------------------
Continue(e, next) == handler' = [handler EXCEPT ![e] = next]

Ended == {"waiting", "done", "failed"}

Runs(e) == handler[e].pc \notin Ended

Emitted == {e \in Events : handler[e].pc # "waiting"}

(* The contract takes bets on a market until it is resolved, once, and then  *)
(* pays every user once.  The server may miss events, and the events of      *)
(* several markets and the requests of admins come in any order.             *)
CanEmit(event) ==
    LET Heard(name) == {other \in {handler[e].event : e \in Emitted} :
                          other.name = name /\ other.market = event.market}
    IN  \/ event.name = "AdminRequest"
        \/ /\ event.name \in {"BetPlaced", "MarketResolved"}
           /\ Heard("MarketResolved") \union Heard("WinningsClaimed") = {}
        \/ /\ event.name = "WinningsClaimed"
           /\ \A other \in Heard("WinningsClaimed") : other.user # event.user

Emit(e, event) ==
    /\ handler[e].pc = "waiting"
    /\ CanEmit(event)
    /\ Continue(e, [pc |-> "find", event |-> event])
    /\ overlaps' = overlaps \union {{e, other} : other \in {i \in Events : Runs(i)}}
    /\ UNCHANGED <<market, staked, positions, trades>>

Tables == [market |-> market, staked |-> staked]

Done(e) == Continue(e, [pc |-> "done", event |-> handler[e].event])

Fail(e) ==
    /\ Runs(e)
    /\ Continue(e, [pc |-> "failed", event |-> handler[e].event])
    /\ UNCHANGED <<market, staked, positions, trades, overlaps>>

IsKnown(event) == event.user \in Registered /\ event.outcome \in Stored

(* The market is read with its outcomes, then the user, whose row nothing    *)
(* here changes.                                                             *)
handleBetPlaced(e) ==
    LET event == handler[e].event
    IN  /\ handler[e].pc = "find"
        /\ event.name = "BetPlaced"
        /\ IF IsKnown(event)
           THEN Continue(e, [pc |-> "findPosition", event |-> event, copy |-> Tables])
           ELSE Done(e)
        /\ UNCHANGED <<market, staked, positions, trades, overlaps>>

WithBet(position, amount) == [position EXCEPT !.costBasis = @ + amount]

FindPosition(e) ==
    LET h == handler[e]
        row == positions[h.event.user][h.event.outcome]
        new == [costBasis |-> h.event.amount, claimed |-> FALSE, claimedAmount |-> 0]
    IN  /\ h.pc = "findPosition"
        /\ Continue(e, [pc |-> IF row = NoRow THEN "insertPosition" ELSE "loadPosition",
                        event |-> h.event, copy |-> h.copy,
                        position |-> IF row = NoRow THEN new ELSE WithBet(row, h.event.amount)])
        /\ UNCHANGED <<market, staked, positions, trades, overlaps>>

SetPosition(u, o, row) == positions' = [positions EXCEPT ![u][o] = row]

(* Another position of the user on the outcome breaks the unique constraint. *)
InsertPosition(e) ==
    LET h == handler[e]
    IN  /\ h.pc = "insertPosition"
        /\ IF positions[h.event.user][h.event.outcome] = NoRow
           THEN /\ SetPosition(h.event.user, h.event.outcome, h.position)
                /\ Continue(e, [h EXCEPT !.pc = "insertTrade"])
           ELSE /\ Continue(e, [pc |-> "failed", event |-> h.event])
                /\ UNCHANGED positions
        /\ UNCHANGED <<market, staked, trades, overlaps>>

LoadPosition(e) ==
    LET h == handler[e]
    IN  /\ h.pc = "loadPosition"
        /\ Continue(e, [pc |-> "updatePosition", event |-> h.event, copy |-> h.copy,
                        position |-> h.position,
                        seen |-> positions[h.event.user][h.event.outcome]])
        /\ UNCHANGED <<market, staked, positions, trades, overlaps>>

(* save reads the row again, and updates what differs in the copy.           *)
Column(current, seen, copy) == IF copy = seen THEN current ELSE copy

Updated(current, seen, copy) ==
    [column \in DOMAIN current |-> Column(current[column], seen[column], copy[column])]

UpdatePosition(e) ==
    LET h == handler[e]
        u == h.event.user
        o == h.event.outcome
    IN  /\ h.pc = "updatePosition"
        /\ SetPosition(u, o, Updated(positions[u][o], h.seen, h.position))
        /\ Continue(e, [pc |-> "insertTrade", event |-> h.event, copy |-> h.copy,
                        position |-> h.position])
        /\ UNCHANGED <<market, staked, trades, overlaps>>

(* Mistaken form: the cost of the whole position is taken for the bet.       *)
WithPosition(row, amount, position) ==
    [row EXCEPT !.totalVolume = @ + position.costBasis, !.tradeCount = @ + 1]

(* The copy of the market is changed.  The position was saved and has an id, *)
(* so that the test for a new participant fails.                             *)
WithTrade(row, amount, position) ==
    [row EXCEPT !.totalVolume = @ + amount, !.tradeCount = @ + 1]

InsertTrade(e) ==
    LET h == handler[e]
        trade == [user |-> h.event.user, outcome |-> h.event.outcome, amount |-> h.event.amount]
    IN  /\ h.pc = "insertTrade"
        /\ trades' = [trades EXCEPT ![e] = trade]
        /\ Continue(e, [pc |-> "loadMarket", event |-> h.event,
                        copy |-> [h.copy EXCEPT !.market = WithTrade(@, h.event.amount, h.position)]])
        /\ UNCHANGED <<market, staked, positions, overlaps>>

(* A resolution looks neither at the status nor at whether the outcome has a *)
(* row.                                                                      *)
handleMarketResolved(e) ==
    LET event == handler[e].event
    IN  /\ handler[e].pc = "find"
        /\ event.name = "MarketResolved"
        /\ Continue(e, [pc |-> "loadMarket", event |-> event,
                        copy |-> [Tables EXCEPT !.market.status = "RESOLVED",
                                                !.market.winningOutcomeIndex = event.outcome]])
        /\ UNCHANGED <<market, staked, positions, trades, overlaps>>

(* A request reads the row before it changes the status.  A resolution by an *)
(* admin asks for a status that nothing sets.                                *)
CanChange(status) ==
    IF status = "ACTIVE" THEN market.status = "ACTIVE" ELSE market.status # "RESOLVED"

adminRequest(e) ==
    LET event == handler[e].event
    IN  /\ handler[e].pc = "find"
        /\ event.name = "AdminRequest"
        /\ IF CanChange(event.status)
           THEN Continue(e, [pc |-> "loadMarket", event |-> event,
                             copy |-> [Tables EXCEPT !.market.status = event.status]])
           ELSE Done(e)
        /\ UNCHANGED <<market, staked, positions, trades, overlaps>>

LoadMarket(e) ==
    LET h == handler[e]
    IN  /\ h.pc = "loadMarket"
        /\ Continue(e, [pc |-> "updateMarket", event |-> h.event, copy |-> h.copy, seen |-> Tables])
        /\ UNCHANGED <<market, staked, positions, trades, overlaps>>

(* The save of a market saves the copies of its outcomes with it, which only *)
(* a bet has read.                                                           *)
UpdateMarket(e) ==
    LET h == handler[e]
        amount == h.event.amount
    IN  /\ h.pc = "updateMarket"
        /\ market' = Updated(market, h.seen.market, h.copy.market)
        /\ IF h.event.name = "BetPlaced"
           THEN /\ staked' = Updated(staked, h.seen.staked, h.copy.staked)
                /\ Continue(e, [pc |-> "loadOutcome", event |-> h.event,
                                copy |-> [h.copy EXCEPT !.staked[h.event.outcome] = @ + amount]])
           ELSE /\ Done(e)
                /\ UNCHANGED staked
        /\ UNCHANGED <<positions, trades, overlaps>>

LoadOutcome(e) ==
    LET h == handler[e]
    IN  /\ h.pc = "loadOutcome"
        /\ Continue(e, [pc |-> "updateOutcome", event |-> h.event, copy |-> h.copy, seen |-> Tables])
        /\ UNCHANGED <<market, staked, positions, trades, overlaps>>

UpdateOutcome(e) ==
    LET h == handler[e]
        o == h.event.outcome
    IN  /\ h.pc = "updateOutcome"
        /\ staked' = [staked EXCEPT ![o] = Column(@, h.seen.staked[o], h.copy.staked[o])]
        /\ Done(e)
        /\ UNCHANGED <<market, positions, trades, overlaps>>

-----------------------------------------------------------------------------
(* Every position of the user is marked, winning or not, and each with the   *)
(* whole amount that was paid.                                               *)
handleWinningsClaimed(e) ==
    LET event == handler[e].event
    IN  /\ handler[e].pc = "find"
        /\ event.name = "WinningsClaimed"
        /\ IF event.user \in Registered
           THEN Continue(e, [pc |-> "findPositions", event |-> event])
           ELSE Done(e)
        /\ UNCHANGED <<market, staked, positions, trades, overlaps>>

(* Mistaken form: the positions that are marked already are looked for.      *)
IsClaimed(row) == row # NoRow /\ row.claimed

IsUnclaimed(row) == row # NoRow /\ ~row.claimed

FindPositions(e) ==
    LET h == handler[e]
        Marked(row) == [row EXCEPT !.claimed = TRUE, !.claimedAmount = h.event.amount]
        found == positions[h.event.user]
    IN  /\ h.pc = "findPositions"
        /\ Continue(e, [pc |-> "claim", event |-> h.event,
                        rows |-> [o \in Outcomes |-> IF IsUnclaimed(found[o])
                                                   THEN Marked(found[o]) ELSE NoRow]])
        /\ UNCHANGED <<market, staked, positions, trades, overlaps>>

(* The positions come in any order.                                          *)
LoadClaim(e, o) ==
    LET h == handler[e]
    IN  /\ h.pc = "claim"
        /\ h.rows[o] # NoRow
        /\ Continue(e, [pc |-> "updateClaim", event |-> h.event, rows |-> h.rows, outcome |-> o,
                        seen |-> positions[h.event.user][o]])
        /\ UNCHANGED <<market, staked, positions, trades, overlaps>>

UpdateClaim(e) ==
    LET h == handler[e]
        u == h.event.user
        o == h.outcome
    IN  /\ h.pc = "updateClaim"
        /\ SetPosition(u, o, Updated(positions[u][o], h.seen, h.rows[o]))
        /\ Continue(e, [pc |-> "claim", event |-> h.event, rows |-> [h.rows EXCEPT ![o] = NoRow]])
        /\ UNCHANGED <<market, staked, trades, overlaps>>

EndClaim(e) ==
    LET h == handler[e]
    IN  /\ h.pc = "claim"
        /\ \A o \in Outcomes : h.rows[o] = NoRow
        /\ Done(e)
        /\ UNCHANGED <<market, staked, positions, trades, overlaps>>

Handle(e) ==
    \/ handleBetPlaced(e)
    \/ FindPosition(e)
    \/ InsertPosition(e)
    \/ LoadPosition(e)
    \/ UpdatePosition(e)
    \/ InsertTrade(e)
    \/ handleMarketResolved(e)
    \/ adminRequest(e)
    \/ LoadMarket(e)
    \/ UpdateMarket(e)
    \/ LoadOutcome(e)
    \/ UpdateOutcome(e)
    \/ handleWinningsClaimed(e)
    \/ FindPositions(e)
    \/ \E o \in Outcomes : LoadClaim(e, o)
    \/ UpdateClaim(e)
    \/ EndClaim(e)

Next ==
    \E e \in Events :
      \/ \E event \in Event : Emit(e, event)
      \/ Handle(e)
      \/ Fail(e)

Spec == Init /\ [][Next]_vars

-----------------------------------------------------------------------------
(* What markets.service.ts tells a user of these rows.  The cost of all      *)
(* positions on the market:                                                  *)
CostBasis(u, o) == IF positions[u][o] = NoRow THEN 0 ELSE positions[u][o].costBasis

getUserPosition(u) == MapThenSumSet(LAMBDA o : CostBasis(u, o), Outcomes)

(* Mistaken form: positions that were paid are not left out.                 *)
prepareClaimAgain(u) ==
    /\ market.status = "RESOLVED"
    /\ \E o \in Outcomes : o = market.winningOutcomeIndex /\ positions[u][o] # NoRow

(* And whether a transaction that claims winnings is prepared.               *)
prepareClaim(u) ==
    /\ market.status = "RESOLVED"
    /\ \E o \in Outcomes : o = market.winningOutcomeIndex /\ IsUnclaimed(positions[u][o])

-----------------------------------------------------------------------------
(* Types of the state.                                                       *)
TypeOK ==
    /\ market \in Market
    /\ staked \in [Outcomes -> Nat]
    /\ positions \in [Users -> [Outcomes -> Position \union {NoRow}]]
    /\ trades \in [Events -> Trade \union {NoRow}]
    /\ handler \in [Events -> Handler]
    /\ overlaps \in SUBSET SUBSET Events

Recorded == {e \in Events : trades[e] # NoRow}

TradesOn(o) == {e \in Recorded : trades[e].outcome = o}

TradesOf(u, o) == {e \in TradesOn(o) : trades[e].user = u}

Volume(events) == MapThenSumSet(LAMBDA e : trades[e].amount, events)

(* The events whose handlers change the position of a user on an outcome.    *)
Touching(u, o) ==
    {e \in Emitted :
       \/ handler[e].event.name = "BetPlaced" /\ handler[e].event.user = u
                                              /\ handler[e].event.outcome = o
       \/ handler[e].event.name = "WinningsClaimed" /\ handler[e].event.user = u}

WentWell(events) ==
    /\ \A e \in events : handler[e].pc \in {"waiting", "done"}
    /\ \A e, other \in events : e # other => {e, other} \notin overlaps

(* When the handlers ran one after the other and to their end, every bet of  *)
(* a known user on a known outcome has its trade, and volume and number of   *)
(* trades of the market, stakes of the outcomes and costs of the positions   *)
(* are those of the trades.  However handlers overlap or fail, and although  *)
(* saves of stale copies undo each other, the market and its outcomes never  *)
(* show more than was traded.                                                *)
StatsAgree ==
    /\ market.totalVolume <= Volume(Recorded)
    /\ market.tradeCount <= Cardinality(Recorded)
    /\ \A o \in Outcomes : staked[o] <= Volume(TradesOn(o))
    /\ WentWell(Events) =>
        /\ \A e \in Emitted :
             (handler[e].event.name = "BetPlaced" /\ IsKnown(handler[e].event)) <=> e \in Recorded
        /\ market.totalVolume = Volume(Recorded)
        /\ market.tradeCount = Cardinality(Recorded)
        /\ \A o \in Outcomes : staked[o] = Volume(TradesOn(o))
        /\ \A u \in Users :
             getUserPosition(u) = Volume({e \in Recorded : trades[e].user = u})

(* The events are those of one market of the contract.                       *)
FromOneMarket(events) ==
    \E m \in Markets : \A e \in events :
        handler[e].event.name = "AdminRequest" \/ handler[e].event.market = m

Payments == {e \in Emitted : handler[e].event.name = "WinningsClaimed"}

(* The position of a user on an outcome is that of the trades, and marked as *)
(* paid only if the user was, if its own handlers ran one after the other    *)
(* and to their end: those of other users and outcomes, of resolutions and   *)
(* of admins do not disturb it.  It is marked whenever the user was paid if  *)
(* besides all of them are of one market.                                    *)
PositionsAgree ==
    \A u \in Users, o \in Outcomes :
        WentWell(Touching(u, o)) =>
            /\ CostBasis(u, o) = Volume(TradesOf(u, o))
            /\ positions[u][o] # NoRow =>
                 /\ positions[u][o].claimed => Touching(u, o) \cap Payments # {}
                 /\ FromOneMarket(Touching(u, o)) /\ Touching(u, o) \cap Payments # {} =>
                      positions[u][o].claimed

(* However handlers overlap or fail, a claim is prepared only for a known    *)
(* user who bet on an outcome that won.  When they ran one after the other   *)
(* and to their end, and all events are of one market, it is prepared for    *)
(* exactly those of them who were not paid yet, whatever admins did.         *)
ClaimsFollowEvents ==
    LET Named(name) == {e \in Emitted : handler[e].event.name = name}
        BetOnWinner(u) == \E e \in Named("BetPlaced"), r \in Named("MarketResolved") :
                            /\ handler[e].event.user = u
                            /\ handler[e].event.outcome \in Stored
                            /\ handler[e].event.outcome = handler[r].event.outcome
    IN  /\ \A u \in Users : prepareClaim(u) => u \in Registered /\ BetOnWinner(u)
        /\ WentWell(Events) /\ FromOneMarket(Emitted) =>
             \A u \in Registered :
               prepareClaim(u) <=>
                 BetOnWinner(u) /\ \A e \in Payments : handler[e].event.user # u

(* "Update participant count if new participant" (market-events.service.ts): *)
(* a market in which somebody holds a position has a participant.            *)
ParticipantsCounted ==
    (WentWell(Events) /\ \E u \in Users, o \in Outcomes : positions[u][o] # NoRow) =>
        market.participantCount > 0

(* "Mark position as claimed" (market-events.service.ts): a user who was     *)
(* paid has no position left to claim.                                       *)
PaidMeansMarked ==
    WentWell(Events) =>
        \A e \in Payments, o \in Outcomes : ~IsUnclaimed(positions[handler[e].event.user][o])
=============================================================================
