------------------------ MODULE AdministrationProofs ------------------------
(***************************************************************************)
(* The rows of creators and markets for every number of users, markets     *)
(* and requests: what holds however requests overlap, and what holds of a  *)
(* row that no two requests had in hand at once.                           *)
(***************************************************************************)
EXTENDS Administration, TLAPS

HasWinner(row) == row.winningOutcomeIndex # NoOutcome

(* What a request that edits a creator knows of its row.                     *)
CreatorCopyOK(q) ==
    q.pc \in {"saveCreator", "updateCreator"} =>
        /\ creators[q.id] # NoRow
        /\ q.row.stakeReturned = (q.refund \/ q.before.stakeReturned)
        /\ q.refund => ~q.before.stakeReturned
        /\ Alone(q.id) => q.before = creators[q.id]
        /\ (Alone(q.id) /\ q.pc = "updateCreator") => q.seen = creators[q.id]

(* And one that edits a market.                                              *)
MarketCopyOK(q) ==
    q.pc \in {"saveMarket", "updateMarket"} =>
        /\ markets[q.id] # NoRow
        /\ HasWinner(q.row) => q.row.winningOutcomeIndex < outcomes[q.id]
        /\ Alone(q.id) => (HasWinner(q.row) <=> q.row.status = "RESOLVED")
        /\ (Alone(q.id) /\ q.pc = "updateMarket") => q.seen = markets[q.id]

(* And one that creates a market.                                            *)
NewMarketOK(q) ==
    /\ q.pc = "insertMarket" => ~HasWinner(q.row) /\ q.row.status = "ACTIVE"
    /\ q.pc = "insertOutcomes" => markets[q.id] # NoRow /\ outcomes[q.id] = 0

RequestOK(q) == CreatorCopyOK(q) /\ MarketCopyOK(q) /\ NewMarketOK(q)

RequestsOK == \A r \in Requests : RequestOK(request[r])

(* Two requests with one row in hand are noted.                              *)
OverlapsNoted ==
    \A r, s \in Requests : \A x \in Users \union Markets :
        (r # s /\ Holds(r, x) /\ Holds(s, x)) => x \in contended

(* Only one request inserts the outcomes of a market.                        *)
OneInserts ==
    \A r, s \in Requests :
        (/\ request[r].pc = "insertOutcomes"
         /\ request[s].pc = "insertOutcomes"
         /\ request[r].id = request[s].id) => r = s

NoneWithoutMarket == \A m \in Markets : markets[m] = NoRow => outcomes[m] = 0

IInv ==
    /\ TypeOK
    /\ StakeRefundedOnce
    /\ WinnerIffResolved
    /\ WinnerIsStored
    /\ NoneWithoutMarket
    /\ OneInserts
    /\ OverlapsNoted
    /\ RequestsOK

RowsOK == StakeRefundedOnce /\ WinnerIffResolved /\ WinnerIsStored /\ NoneWithoutMarket

-----------------------------------------------------------------------------
(* What a request has in hand, by the command that comes next.               *)
LEMMA CreatorInHand ==
  ASSUME NEW q \in Request
  PROVE  /\ q.pc \in {"insertCreator", "saveCreator", "updateCreator"} => q.id \in Users
         /\ q.pc \in {"saveCreator", "updateCreator"} =>
              q.before \in CreatorRow /\ q.row \in CreatorRow /\ q.refund \in BOOLEAN
         /\ q.pc = "updateCreator" => q.seen \in CreatorRow
<1>1. q.pc = "insertCreator" => q.id \in Users
  BY DEF Request, Idle
<1>2. q.pc = "saveCreator" =>
         q.id \in Users /\ q.before \in CreatorRow /\ q.row \in CreatorRow /\ q.refund \in BOOLEAN
  BY DEF Request, Idle
<1>3. q.pc = "updateCreator" =>
         /\ q.id \in Users /\ q.before \in CreatorRow /\ q.row \in CreatorRow
         /\ q.refund \in BOOLEAN /\ q.seen \in CreatorRow
  BY DEF Request, Idle
<1> QED BY <1>1, <1>2, <1>3

LEMMA MarketInHand ==
  ASSUME NEW q \in Request
  PROVE  /\ q.pc \in {"insertOutcomes", "saveMarket", "updateMarket"} => q.id \in Markets
         /\ q.pc \in {"insertMarket", "saveMarket", "updateMarket"} => q.row \in MarketRow
         /\ q.pc \in {"insertMarket", "insertOutcomes"} => q.size \in 2 .. MAX_OUTCOMES
         /\ q.pc \in {"saveMarket", "updateMarket"} => q.before \in MarketRow
         /\ q.pc = "updateMarket" => q.seen \in MarketRow
<1>1. q.pc = "insertMarket" => q.row \in MarketRow /\ q.size \in 2 .. MAX_OUTCOMES
  BY DEF Request, Idle
<1>2. q.pc = "insertOutcomes" => q.id \in Markets /\ q.size \in 2 .. MAX_OUTCOMES
  BY DEF Request, Idle
<1>3. q.pc = "saveMarket" => q.id \in Markets /\ q.before \in MarketRow /\ q.row \in MarketRow
  BY DEF Request, Idle
<1>4. q.pc = "updateMarket" =>
        q.id \in Markets /\ q.before \in MarketRow /\ q.row \in MarketRow /\ q.seen \in MarketRow
  BY DEF Request, Idle
<1> QED BY <1>1, <1>2, <1>3, <1>4

(* A save of a row nobody else touched writes the copy as it is.             *)
LEMMA SavedAlone ==
  \A current, copy : Column(current, current, copy) = copy
BY DEF Column

LEMMA SavedIsOneOfTwo ==
  \A current, seen, copy : Column(current, seen, copy) \in {current, copy}
BY DEF Column

LEMMA SavedCreator ==
  ASSUME NEW current \in CreatorRow, NEW seen \in CreatorRow, NEW copy \in CreatorRow
  PROVE  UpdatedCreator(current, seen, copy) \in CreatorRow
BY SavedIsOneOfTwo DEF UpdatedCreator, CreatorRow

LEMMA SavedMarket ==
  ASSUME NEW current \in MarketRow, NEW seen \in MarketRow, NEW copy \in MarketRow
  PROVE  UpdatedMarket(current, seen, copy) \in MarketRow
BY SavedIsOneOfTwo DEF UpdatedMarket, MarketRow

-----------------------------------------------------------------------------
(* What is known of a request stays known when its row is left alone, or     *)
(* when the change is noted.                                                 *)
LEMMA CreatorCopyStays ==
  ASSUME NEW q, CreatorCopyOK(q), contended \subseteq contended',
         q.pc \in {"saveCreator", "updateCreator"} =>
            \/ creators'[q.id] = creators[q.id]
            \/ q.id \in contended' /\ creators'[q.id] # NoRow
  PROVE  CreatorCopyOK(q)'
BY DEF CreatorCopyOK, Alone

LEMMA MarketCopyStays ==
  ASSUME NEW q, MarketCopyOK(q), contended \subseteq contended',
         q.pc \in {"saveMarket", "updateMarket"} =>
            /\ \/ markets'[q.id] = markets[q.id]
               \/ q.id \in contended' /\ markets'[q.id] # NoRow
            /\ outcomes'[q.id] = outcomes[q.id] \/ ~HasWinner(q.row)
  PROVE  MarketCopyOK(q)'
BY DEF MarketCopyOK, Alone, HasWinner

LEMMA NewMarketStays ==
  ASSUME NEW q, NewMarketOK(q),
         q.pc = "insertOutcomes" => markets'[q.id] # NoRow /\ outcomes'[q.id] = outcomes[q.id]
  PROVE  NewMarketOK(q)'
BY DEF NewMarketOK, HasWinner

LEMMA UntouchedStays ==
  ASSUME NEW q, RequestOK(q), contended \subseteq contended', UNCHANGED tables
  PROVE  RequestOK(q)'
<1>1. UNCHANGED <<creators, markets, outcomes>>
  BY DEF tables
<1> QED BY <1>1, CreatorCopyStays, MarketCopyStays, NewMarketStays DEF RequestOK, NewMarketOK

(* A request with nothing in hand.                                           *)
LEMMA IdleOK == Idle \in Request /\ RequestOK(Idle) /\ RequestOK(Idle)'
BY DEF Request, Idle, RequestOK, CreatorCopyOK, MarketCopyOK, NewMarketOK

(* A step of request r to next, by what it leaves of each part of IInv.      *)
LEMMA RequestsStep ==
  ASSUME TypeOK, NEW r \in Requests, NEW next \in Request, Continue(r, next),
         RequestOK(next)',
         \A q \in Request : (\E s \in Requests : s # r /\ q = request[s]) => RequestOK(q)'
  PROVE  request' \in [Requests -> Request] /\ RequestsOK'
<1>1. request' \in [Requests -> Request]
  BY DEF TypeOK, Continue
<1>2. ASSUME NEW o \in Requests PROVE RequestOK(request[o])'
  <2> PICK q : q = (request[o])'
    OBVIOUS
  <2>1. o = r => q = next
    BY DEF TypeOK, Continue
  <2>2. o # r => q = request[o] /\ q \in Request
    BY DEF TypeOK, Continue
  <2>3. RequestOK(q)'
    BY <2>1, <2>2
  <2> QED BY <2>3
<1> QED BY <1>1, <1>2 DEF RequestsOK

HeldBy(q, x) ==
    /\ q.pc \in {"insertCreator", "saveCreator", "updateCreator", "saveMarket", "updateMarket"}
    /\ q.id = x

LEMMA OverlapsStep ==
  ASSUME TypeOK, OverlapsNoted, NEW r \in Requests, NEW next, Continue(r, next),
         contended \subseteq contended',
         \A x \in Users \union Markets : HeldBy(next, x) =>
            Holds(r, x) \/ \A s \in Requests : (s # r /\ Holds(s, x)) => x \in contended'
  PROVE  OverlapsNoted'
<1> SUFFICES ASSUME NEW o \in Requests, NEW s \in Requests, NEW x \in Users \union Markets,
                    o # s, Holds(o, x)', Holds(s, x)'
             PROVE  x \in contended'
  BY DEF OverlapsNoted
<1>1. \A i \in Requests : i # r => (Holds(i, x)' <=> Holds(i, x))
  BY DEF Holds, Continue, TypeOK
<1>2. Holds(r, x)' <=> HeldBy(next, x)
  BY DEF Holds, HeldBy, Continue, TypeOK
<1>3. CASE o # r /\ s # r
  BY <1>1, <1>3 DEF OverlapsNoted
<1>4. CASE o = r
  BY <1>1, <1>2, <1>4 DEF OverlapsNoted
<1>5. CASE s = r
  BY <1>1, <1>2, <1>5 DEF OverlapsNoted
<1> QED BY <1>3, <1>4, <1>5

LEMMA OneInsertsStep ==
  ASSUME TypeOK, OneInserts, NEW r \in Requests, NEW next, Continue(r, next),
         next.pc = "insertOutcomes" =>
            \A s \in Requests : request[s].pc = "insertOutcomes" => request[s].id # next.id
  PROVE  OneInserts'
BY DEF OneInserts, Continue, TypeOK

(* Rows and requests stay as they are, but for request r.                    *)
LEMMA OnlyRequest ==
  ASSUME IInv, NEW r \in Requests, NEW next \in Request, Continue(r, next),
         UNCHANGED <<tables, refunds>>, contended \subseteq contended',
         contended' \in SUBSET (Users \union Markets),
         RequestOK(next)', OverlapsNoted', OneInserts'
  PROVE  IInv'
<1>1. \A q \in Request : (\E s \in Requests : s # r /\ q = request[s]) => RequestOK(q)'
  BY UntouchedStays DEF IInv, RequestsOK
<1>2. request' \in [Requests -> Request] /\ RequestsOK'
  BY <1>1, RequestsStep DEF IInv
<1>3. UNCHANGED <<creators, markets, outcomes>>
  BY DEF tables
<1>4. TypeOK'
  BY <1>2, <1>3 DEF IInv, TypeOK
<1>5. StakeRefundedOnce'
  BY <1>3 DEF IInv, StakeRefundedOnce, Alone
<1>6. WinnerIffResolved'
  BY <1>3 DEF IInv, WinnerIffResolved, Alone
<1>7. WinnerIsStored' /\ NoneWithoutMarket'
  BY <1>3 DEF IInv, WinnerIsStored, NoneWithoutMarket
<1> QED BY <1>2, <1>4, <1>5, <1>6, <1>7 DEF IInv

-----------------------------------------------------------------------------
(* A request that begins to work on a row.                                   *)
LEMMA BeginStep ==
  ASSUME IInv, NEW r \in Requests, NEW next \in Request, Begin(r, next),
         UNCHANGED <<tables, refunds>>, next.id \in Users \union Markets,
         next.pc # "insertOutcomes", RequestOK(next)
  PROVE  IInv'
<1>1. contended \subseteq contended' /\ contended' \in SUBSET (Users \union Markets)
  BY DEF Begin, Touch, IInv, TypeOK
<1>2. Continue(r, next)
  BY DEF Begin
<1>3. RequestOK(next)'
  BY <1>1, UntouchedStays
<1>4. \A s \in Requests : Holds(s, next.id) => next.id \in contended'
  BY DEF Begin, Touch
<1>5. OverlapsNoted'
  BY <1>1, <1>2, <1>4, OverlapsStep DEF IInv, HeldBy
<1>6. OneInserts'
  BY <1>2, OneInsertsStep DEF IInv
<1> QED BY <1>1, <1>2, <1>3, <1>5, <1>6, OnlyRequest

LEMMA EditCreatorStep ==
  ASSUME IInv, NEW r \in Requests, NEW u \in Users, NEW row \in CreatorRow, NEW refund \in BOOLEAN,
         creators[u] # NoRow,
         row.stakeReturned = (refund \/ creators[u].stakeReturned),
         refund => ~creators[u].stakeReturned,
         EditCreator(r, u, row, refund)
  PROVE  IInv'
<1> PICK before : before = creators[u]
  OBVIOUS
<1> DEFINE next == [pc |-> "saveCreator", id |-> u, before |-> before, row |-> row,
                    refund |-> refund]
<1>1. before \in CreatorRow
  BY DEF IInv, TypeOK
<1>2. next \in Request
  BY <1>1 DEF Request
<1>3. CreatorCopyOK(next)
  BY DEF CreatorCopyOK
<1>4. MarketCopyOK(next) /\ NewMarketOK(next)
  BY DEF MarketCopyOK, NewMarketOK
<1>5. Begin(r, next) /\ UNCHANGED <<tables, refunds>>
  BY DEF EditCreator
<1>6. next.id \in Users \union Markets /\ next.pc # "insertOutcomes"
  OBVIOUS
<1> HIDE DEF next
<1> QED BY <1>2, <1>3, <1>4, <1>5, <1>6, BeginStep DEF RequestOK

LEMMA EditMarketStep ==
  ASSUME IInv, NEW r \in Requests, NEW m \in Markets, NEW row \in MarketRow,
         markets[m] # NoRow,
         HasWinner(row) => row.winningOutcomeIndex < outcomes[m],
         Alone(m) => (HasWinner(row) <=> row.status = "RESOLVED"),
         EditMarket(r, m, row)
  PROVE  IInv'
<1> PICK before : before = markets[m]
  OBVIOUS
<1> DEFINE next == [pc |-> "saveMarket", id |-> m, before |-> before, row |-> row]
<1>1. before \in MarketRow
  BY DEF IInv, TypeOK
<1>2. next \in Request
  BY <1>1 DEF Request
<1>3. CreatorCopyOK(next) /\ NewMarketOK(next)
  BY DEF CreatorCopyOK, NewMarketOK
<1>4. MarketCopyOK(next)
  BY DEF MarketCopyOK
<1>5. Begin(r, next) /\ UNCHANGED <<tables, refunds>>
  BY DEF EditMarket
<1>6. next.id \in Users \union Markets /\ next.pc # "insertOutcomes"
  OBVIOUS
<1> HIDE DEF next
<1> QED BY <1>2, <1>3, <1>4, <1>5, <1>6, BeginStep DEF RequestOK

-----------------------------------------------------------------------------
LEMMA InitIInv == Init => IInv
<1> SUFFICES ASSUME Init PROVE IInv
  OBVIOUS
<1>1. SeededCreator \in CreatorRow
  BY DEF SeededCreator, CreatorRow
<1>2. TypeOK
  BY <1>1 DEF Init, TypeOK, Request, Idle
<1>3. StakeRefundedOnce
  BY DEF Init, StakeRefundedOnce, SeededCreator
<1>4. WinnerIffResolved /\ WinnerIsStored /\ NoneWithoutMarket
  BY DEF Init, WinnerIffResolved, WinnerIsStored, NoneWithoutMarket
<1>5. OneInserts /\ OverlapsNoted
  BY DEF Init, OneInserts, OverlapsNoted, Holds, Idle
<1>6. RequestsOK
  BY IdleOK DEF Init, RequestsOK
<1> QED BY <1>2, <1>3, <1>4, <1>5, <1>6 DEF IInv

LEMMA applyCreatorIInv ==
  ASSUME IInv, NEW r \in Requests, NEW u \in Users, applyCreator(r, u) PROVE IInv'
<1> DEFINE next == [pc |-> "insertCreator", id |-> u]
<1>1. next \in Request /\ next.id \in Users \union Markets /\ next.pc # "insertOutcomes"
  BY DEF Request
<1>2. RequestOK(next)
  BY DEF RequestOK, CreatorCopyOK, MarketCopyOK, NewMarketOK
<1>3. Begin(r, next) /\ UNCHANGED <<tables, refunds>>
  BY DEF applyCreator
<1> HIDE DEF next
<1> QED BY <1>1, <1>2, <1>3, BeginStep

(* Verdicts, suspensions and the override leave the flag of the stake alone. *)
LEMMA StatusIInv ==
  ASSUME IInv, NEW r \in Requests, NEW u \in Users,
         \/ approveCreator(r, u) \/ rejectCreator(r, u) \/ suspendCreator(r, u)
         \/ banUser(r, u) \/ overrideShareUnlock(r, u)
  PROVE  IInv'
<1> PICK row : /\ EditCreator(r, u, row, FALSE)
               /\ \/ \E status \in {"ACTIVE", "SUSPENDED"} :
                       row = [creators[u] EXCEPT !.status = status]
                  \/ row = [creators[u] EXCEPT !.sharesUnlocked = TRUE]
  BY DEF approveCreator, rejectCreator, suspendCreator, banUser, overrideShareUnlock
<1>1. creators[u] # NoRow /\ creators[u] \in CreatorRow
  BY DEF approveCreator, rejectCreator, suspendCreator, banUser, overrideShareUnlock, IInv, TypeOK
<1>2. row \in CreatorRow /\ row.stakeReturned = creators[u].stakeReturned
  BY <1>1 DEF CreatorRow
<1>3. row.stakeReturned = (FALSE \/ creators[u].stakeReturned)
  <2>1. creators[u].stakeReturned \in BOOLEAN
    BY <1>1 DEF CreatorRow
  <2> QED BY <1>2, <2>1
<1>4. EditCreator(r, u, row, FALSE)
  OBVIOUS
<1> QED BY <1>1, <1>2, <1>3, <1>4, EditCreatorStep

LEMMA refundIInv ==
  ASSUME IInv, NEW r \in Requests, NEW u \in Users, refundCreatorStake(r, u) PROVE IInv'
<1> PICK row : row = [creators[u] EXCEPT !.stakeReturned = TRUE]
  OBVIOUS
<1>1. creators[u] # NoRow /\ creators[u] \in CreatorRow /\ ~creators[u].stakeReturned
  BY DEF refundCreatorStake, HasStake, IInv, TypeOK
<1>2. row \in CreatorRow /\ row.stakeReturned = TRUE
  BY <1>1 DEF CreatorRow
<1>3. EditCreator(r, u, row, TRUE)
  BY DEF refundCreatorStake
<1> QED BY <1>1, <1>2, <1>3, EditCreatorStep

LEMMA resolveMarketIInv ==
  ASSUME IInv, NEW r \in Requests, NEW m \in Markets, NEW winningOutcome \in WinningOutcomes,
         resolveMarket(r, m, winningOutcome)
  PROVE  IInv'
<1> PICK row : row = [markets[m] EXCEPT !.status = "RESOLVED",
                                        !.winningOutcomeIndex = winningOutcome]
  OBVIOUS
<1>1. markets[m] # NoRow /\ markets[m] \in MarketRow /\ winningOutcome < outcomes[m]
  BY DEF resolveMarket, IsOutcome, IInv, TypeOK
<1>2. winningOutcome \in Nat /\ winningOutcome # NoOutcome
  BY AdministrationAssumption DEF WinningOutcomes
<1>3. row \in MarketRow /\ row.status = "RESOLVED" /\ row.winningOutcomeIndex = winningOutcome
  BY <1>1, <1>2 DEF MarketRow
<1>4. EditMarket(r, m, row)
  BY DEF resolveMarket
<1> QED BY <1>1, <1>2, <1>3, <1>4, EditMarketStep DEF HasWinner

(* Only a market without a winner is stopped or extended, if nobody else     *)
(* works on it.                                                              *)
LEMMA StopIInv ==
  ASSUME IInv, NEW r \in Requests, NEW m \in Markets,
         disputeMarket(r, m) \/ cancelMarket(r, m)
  PROVE  IInv'
<1> PICK row : /\ EditMarket(r, m, row)
               /\ \E status \in {"DISPUTED", "CANCELLED"} :
                    row = [markets[m] EXCEPT !.status = status]
  BY DEF disputeMarket, cancelMarket
<1>1. markets[m] # NoRow /\ markets[m] \in MarketRow /\ markets[m].status # "RESOLVED"
  BY DEF disputeMarket, cancelMarket, IsNotResolved, IInv, TypeOK
<1>2. /\ row \in MarketRow /\ row.status # "RESOLVED"
      /\ row.winningOutcomeIndex = markets[m].winningOutcomeIndex
  BY <1>1 DEF MarketRow
<1>3. HasWinner(row) => row.winningOutcomeIndex < outcomes[m]
  BY <1>1, <1>2 DEF IInv, WinnerIsStored, HasWinner
<1>4. Alone(m) => ~HasWinner(row)
  BY <1>1, <1>2 DEF IInv, WinnerIffResolved, HasWinner
<1> QED BY <1>1, <1>2, <1>3, <1>4, EditMarketStep

LEMMA extendMarketIInv ==
  ASSUME IInv, NEW r \in Requests, NEW m \in Markets, NEW additionalHours \in AdditionalHours,
         extendMarket(r, m, additionalHours)
  PROVE  IInv'
<1> PICK row : row = [markets[m] EXCEPT !.endTime = @ + additionalHours]
  OBVIOUS
<1>1. markets[m] # NoRow /\ markets[m] \in MarketRow /\ markets[m].status = "ACTIVE"
  BY DEF extendMarket, IInv, TypeOK
<1>2. markets[m].endTime + additionalHours \in Nat
  BY <1>1, AdministrationAssumption DEF AdditionalHours, MarketRow
<1>3. /\ row \in MarketRow /\ row.status = "ACTIVE"
      /\ row.winningOutcomeIndex = markets[m].winningOutcomeIndex
  BY <1>1, <1>2 DEF MarketRow
<1>4. HasWinner(row) => row.winningOutcomeIndex < outcomes[m]
  BY <1>1, <1>3 DEF IInv, WinnerIsStored, HasWinner
<1>5. Alone(m) => ~HasWinner(row)
  BY <1>1, <1>3 DEF IInv, WinnerIffResolved, HasWinner
<1>6. EditMarket(r, m, row)
  BY DEF extendMarket
<1> QED BY <1>1, <1>3, <1>4, <1>5, <1>6, EditMarketStep

-----------------------------------------------------------------------------
(* A request that goes on with the row it has, or with none.                 *)
LEMMA MoveStep ==
  ASSUME IInv, NEW r \in Requests, NEW next \in Request, Continue(r, next),
         UNCHANGED <<tables, refunds, contended>>, next.pc # "insertOutcomes",
         \A x \in Users \union Markets : HeldBy(next, x) => Holds(r, x),
         RequestOK(next)
  PROVE  IInv'
<1>1. contended \subseteq contended' /\ contended' \in SUBSET (Users \union Markets)
  BY DEF IInv, TypeOK
<1>2. RequestOK(next)'
  BY <1>1, UntouchedStays
<1>3. OverlapsNoted'
  BY <1>1, OverlapsStep DEF IInv
<1>4. OneInserts'
  BY OneInsertsStep DEF IInv
<1> QED BY <1>1, <1>2, <1>3, <1>4, OnlyRequest

LEMMA AbortIInv ==
  ASSUME IInv, NEW r \in Requests, Abort(r) PROVE IInv'
<1>1. Idle.pc = "idle"
  BY DEF Idle
<1> QED BY <1>1, IdleOK, MoveStep DEF Abort, HeldBy

LEMMA createMarketIInv ==
  ASSUME IInv, NEW r \in Requests, NEW u \in Users, NEW end \in EndTimes, NEW size \in Sizes,
         createMarket(r, u, end, size)
  PROVE  IInv'
<1> DEFINE next == [pc |-> "insertMarket", size |-> size,
                    row |-> [status |-> "ACTIVE", endTime |-> end,
                             winningOutcomeIndex |-> NoOutcome]]
<1>1. next.row \in MarketRow
  BY AdministrationAssumption DEF MarketRow, EndTimes
<1>2. next \in Request /\ next.pc = "insertMarket"
  BY <1>1 DEF Request, Sizes
<1>3. RequestOK(next)
  BY DEF RequestOK, CreatorCopyOK, MarketCopyOK, NewMarketOK, HasWinner
<1>4. Continue(r, next) /\ UNCHANGED <<tables, refunds, contended>>
  BY DEF createMarket
<1> HIDE DEF next
<1> QED BY <1>2, <1>3, <1>4, MoveStep DEF HeldBy

LEMMA LoadCreatorIInv ==
  ASSUME IInv, NEW r \in Requests, LoadCreator(r) PROVE IInv'
<1> PICK q : q = request[r]
  OBVIOUS
<1> PICK seen : seen = creators[q.id]
  OBVIOUS
<1> DEFINE next == [pc |-> "updateCreator", id |-> q.id, before |-> q.before, row |-> q.row,
                    refund |-> q.refund, seen |-> seen]
<1>1. q \in Request /\ q.pc = "saveCreator" /\ RequestOK(q)
  BY DEF LoadCreator, IInv, TypeOK, RequestsOK
<1>2. q.id \in Users /\ seen \in CreatorRow
  BY <1>1, CreatorInHand DEF IInv, TypeOK, RequestOK, CreatorCopyOK
<1>3. next \in Request /\ next.pc = "updateCreator" /\ next.id = q.id
  BY <1>1, <1>2, CreatorInHand DEF Request
<1>4. RequestOK(next)
  BY <1>1 DEF RequestOK, CreatorCopyOK, MarketCopyOK, NewMarketOK
<1>5. Continue(r, next) /\ UNCHANGED <<tables, refunds, contended>>
  BY DEF LoadCreator
<1>6. \A x \in Users \union Markets : HeldBy(next, x) => Holds(r, x)
  BY <1>1, <1>3 DEF HeldBy, Holds
<1> HIDE DEF next
<1> QED BY <1>3, <1>4, <1>5, <1>6, MoveStep

LEMMA LoadMarketIInv ==
  ASSUME IInv, NEW r \in Requests, LoadMarket(r) PROVE IInv'
<1> PICK q : q = request[r]
  OBVIOUS
<1> PICK seen : seen = markets[q.id]
  OBVIOUS
<1> DEFINE next == [pc |-> "updateMarket", id |-> q.id, before |-> q.before, row |-> q.row,
                    seen |-> seen]
<1>1. q \in Request /\ q.pc = "saveMarket" /\ RequestOK(q)
  BY DEF LoadMarket, IInv, TypeOK, RequestsOK
<1>2. q.id \in Markets /\ seen \in MarketRow
  BY <1>1, MarketInHand DEF IInv, TypeOK, RequestOK, MarketCopyOK
<1>3. next \in Request /\ next.pc = "updateMarket" /\ next.id = q.id
  BY <1>1, <1>2, MarketInHand DEF Request
<1>4. RequestOK(next)
  BY <1>1 DEF RequestOK, CreatorCopyOK, MarketCopyOK, NewMarketOK
<1>5. Continue(r, next) /\ UNCHANGED <<tables, refunds, contended>>
  BY DEF LoadMarket
<1>6. \A x \in Users \union Markets : HeldBy(next, x) => Holds(r, x)
  BY <1>1, <1>3 DEF HeldBy, Holds
<1> HIDE DEF next
<1> QED BY <1>3, <1>4, <1>5, <1>6, MoveStep

-----------------------------------------------------------------------------
(* An application that comes second inserts nothing.                         *)
LEMMA InsertCreatorIInv ==
  ASSUME IInv, NEW r \in Requests, InsertCreator(r) PROVE IInv'
<1> PICK u : u = request[r].id
  OBVIOUS
<1>1. u \in Users
  BY CreatorInHand DEF InsertCreator, IInv, TypeOK
<1>2. /\ creators' = [creators EXCEPT ![u] = IF @ = NoRow THEN Application ELSE @]
      /\ Continue(r, Idle)
      /\ UNCHANGED <<markets, outcomes, refunds, contended>>
  BY DEF InsertCreator
<1>3. Application \in CreatorRow /\ Application.stakeReturned = FALSE /\ Application # NoRow
  <2>1. Application \in CreatorRow /\ Application.stakeReturned = FALSE
    BY DEF Application, CreatorRow
  <2> QED BY <2>1, AdministrationAssumption
<1>4. \A v \in Users : creators[v] # NoRow => creators'[v] = creators[v]
  BY <1>2 DEF IInv, TypeOK
<1>5. ASSUME NEW q \in Request, RequestOK(q) PROVE RequestOK(q)'
  <2>1. CreatorCopyOK(q)'
    BY <1>2, <1>4, <1>5, CreatorInHand, CreatorCopyStays DEF RequestOK, CreatorCopyOK
  <2>2. MarketCopyOK(q)' /\ NewMarketOK(q)'
    BY <1>2, <1>5, MarketCopyStays, NewMarketStays DEF RequestOK, NewMarketOK
  <2> QED BY <2>1, <2>2 DEF RequestOK
<1>6. request' \in [Requests -> Request] /\ RequestsOK'
  BY <1>2, <1>5, IdleOK, RequestsStep DEF IInv, RequestsOK
<1>7. TypeOK'
  <2>1. creators' \in [Users -> CreatorRow \union {NoRow}]
    BY <1>2, <1>3 DEF IInv, TypeOK
  <2> QED BY <1>2, <1>6, <2>1 DEF IInv, TypeOK
<1>8. StakeRefundedOnce'
  <2> SUFFICES ASSUME NEW v \in Users, Alone(v)'
               PROVE  refunds'[v] = IF creators'[v] # NoRow /\ creators'[v].stakeReturned
                                    THEN 1 ELSE 0
    BY DEF StakeRefundedOnce
  <2>1. refunds'[v] = IF creators[v] # NoRow /\ creators[v].stakeReturned THEN 1 ELSE 0
    BY <1>2 DEF IInv, StakeRefundedOnce, Alone
  <2>2. CASE creators'[v] = creators[v]
    BY <2>1, <2>2
  <2>3. CASE creators[v] = NoRow /\ creators'[v] = Application
    BY <1>3, <2>1, <2>3
  <2> QED BY <1>1, <1>2, <2>2, <2>3 DEF IInv, TypeOK
<1>9. WinnerIffResolved' /\ WinnerIsStored' /\ NoneWithoutMarket'
  BY <1>2 DEF IInv, WinnerIffResolved, WinnerIsStored, NoneWithoutMarket, Alone
<1>10. OverlapsNoted' /\ OneInserts'
  BY <1>2, OverlapsStep, OneInsertsStep DEF IInv, HeldBy, Idle
<1> QED BY <1>6, <1>7, <1>8, <1>9, <1>10 DEF IInv

(* A save of a creator: who else has the row in hand has been noted.         *)
LEMMA UpdateCreatorIInv ==
  ASSUME IInv, NEW r \in Requests, UpdateCreator(r) PROVE IInv'
<1> PICK q : q = request[r]
  OBVIOUS
<1> PICK row : row = UpdatedCreator(creators[q.id], q.seen, q.row)
  OBVIOUS
<1>1. q \in Request /\ q.pc = "updateCreator" /\ CreatorCopyOK(q)
  BY DEF UpdateCreator, IInv, TypeOK, RequestsOK, RequestOK
<1>2. /\ q.id \in Users /\ q.before \in CreatorRow /\ q.row \in CreatorRow
      /\ q.refund \in BOOLEAN /\ q.seen \in CreatorRow
  BY <1>1, CreatorInHand
<1>3. /\ creators' = [creators EXCEPT ![q.id] = row]
      /\ refunds' = [refunds EXCEPT ![q.id] = IF q.refund THEN @ + 1 ELSE @]
      /\ Continue(r, Idle)
      /\ UNCHANGED <<markets, outcomes, contended>>
  BY DEF UpdateCreator
<1>4. creators[q.id] \in CreatorRow
  BY <1>1, <1>2 DEF IInv, TypeOK, CreatorCopyOK
<1>5. row \in CreatorRow /\ row # NoRow
  BY <1>2, <1>4, SavedCreator, AdministrationAssumption
<1>6. Holds(r, q.id)
  BY <1>1 DEF Holds
<1>7. ASSUME NEW p \in Request, NEW s \in Requests, s # r, p = request[s] PROVE RequestOK(p)'
  <2>1. RequestOK(p)
    BY <1>7 DEF IInv, RequestsOK
  <2>2. ASSUME p.pc \in {"saveCreator", "updateCreator"}, p.id = q.id PROVE p.id \in contended
    <3>1. Holds(s, q.id)
      BY <1>7, <2>2 DEF Holds
    <3> QED BY <1>2, <1>6, <1>7, <2>2, <3>1 DEF IInv, OverlapsNoted
  <2>3. CreatorCopyOK(p)'
    <3>1. p.pc \in {"saveCreator", "updateCreator"} => p.id \in Users
      BY CreatorInHand
    <3>2. ASSUME p.pc \in {"saveCreator", "updateCreator"}
          PROVE  \/ creators'[p.id] = creators[p.id]
                 \/ p.id \in contended' /\ creators'[p.id] # NoRow
      BY <1>2, <1>3, <1>5, <2>2, <3>1, <3>2 DEF IInv, TypeOK
    <3> QED BY <1>3, <2>1, <3>2, CreatorCopyStays DEF RequestOK
  <2>4. MarketCopyOK(p)' /\ NewMarketOK(p)'
    BY <1>3, <2>1, MarketCopyStays, NewMarketStays DEF RequestOK, NewMarketOK
  <2> QED BY <2>3, <2>4 DEF RequestOK
<1>8. request' \in [Requests -> Request] /\ RequestsOK'
  BY <1>3, <1>7, IdleOK, RequestsStep DEF IInv
<1>9. TypeOK'
  <2>1. creators' \in [Users -> CreatorRow \union {NoRow}]
    BY <1>3, <1>5 DEF IInv, TypeOK
  <2>2. refunds' \in [Users -> Nat]
    <3>1. refunds \in [Users -> Nat]
      BY DEF IInv, TypeOK
    <3>2. refunds[q.id] + 1 \in Nat /\ refunds[q.id] \in Nat
      BY <1>2, <3>1
    <3> QED BY <1>3, <3>1, <3>2
  <2> QED BY <1>3, <1>8, <2>1, <2>2 DEF IInv, TypeOK
<1>10. StakeRefundedOnce'
  <2> SUFFICES ASSUME NEW v \in Users, Alone(v)'
               PROVE  refunds'[v] = IF creators'[v] # NoRow /\ creators'[v].stakeReturned
                                    THEN 1 ELSE 0
    BY DEF StakeRefundedOnce
  <2>1. refunds[v] = IF creators[v] # NoRow /\ creators[v].stakeReturned THEN 1 ELSE 0
    BY <1>3 DEF IInv, StakeRefundedOnce, Alone
  <2>2. CASE v # q.id
    BY <1>2, <1>3, <2>1, <2>2 DEF IInv, TypeOK
  <2>3. CASE v = q.id
    <3>1. q.before = creators[q.id] /\ q.seen = creators[q.id]
      BY <1>1, <1>3, <2>3 DEF CreatorCopyOK, Alone
    <3>2. row.stakeReturned = q.row.stakeReturned
      BY <3>1, SavedAlone DEF UpdatedCreator
    <3>3. /\ q.row.stakeReturned = (q.refund \/ q.before.stakeReturned)
          /\ q.refund => ~q.before.stakeReturned
      BY <1>1 DEF CreatorCopyOK
    <3>4. creators'[v] = row /\ creators[v] # NoRow
      BY <1>1, <1>2, <1>3, <2>3 DEF IInv, TypeOK, CreatorCopyOK
    <3>5. refunds'[v] = IF q.refund THEN refunds[v] + 1 ELSE refunds[v]
      BY <1>2, <1>3, <2>3 DEF IInv, TypeOK
    <3>6. row.stakeReturned \in BOOLEAN /\ q.before.stakeReturned \in BOOLEAN
      BY <1>2, <1>5 DEF CreatorRow
    <3>7. CASE q.refund
      <4>1. ~creators[v].stakeReturned
        BY <2>3, <3>1, <3>3, <3>7, Zenon
      <4>2. row.stakeReturned = TRUE
        BY <3>2, <3>3, <3>7, Zenon
      <4>3. refunds[v] = 0
        BY <2>1, <4>1
      <4> QED BY <1>5, <3>4, <3>5, <3>7, <4>2, <4>3
    <3>8. CASE ~q.refund
      <4>1. row.stakeReturned = creators[v].stakeReturned
        BY <2>3, <3>1, <3>2, <3>3, <3>6, <3>8, Zenon
      <4> QED BY <1>5, <2>1, <3>4, <3>5, <3>8, <4>1
    <3> QED BY <1>2, <3>7, <3>8
  <2> QED BY <2>2, <2>3
<1>11. WinnerIffResolved' /\ WinnerIsStored' /\ NoneWithoutMarket'
  BY <1>3 DEF IInv, WinnerIffResolved, WinnerIsStored, NoneWithoutMarket, Alone
<1>12. OverlapsNoted' /\ OneInserts'
  BY <1>3, OverlapsStep, OneInsertsStep DEF IInv, HeldBy, Idle
<1> QED BY <1>8, <1>9, <1>10, <1>11, <1>12 DEF IInv

-----------------------------------------------------------------------------
(* A new market: no request has it in hand, and no outcome is stored.        *)
LEMMA InsertMarketIInv ==
  ASSUME IInv, NEW r \in Requests, NEW m \in Markets, InsertMarket(r, m) PROVE IInv'
<1> PICK q : q = request[r]
  OBVIOUS
<1> DEFINE next == [pc |-> "insertOutcomes", id |-> m, size |-> q.size]
<1>1. q \in Request /\ q.pc = "insertMarket" /\ NewMarketOK(q)
  BY DEF InsertMarket, IInv, TypeOK, RequestsOK, RequestOK
<1>2. q.row \in MarketRow /\ q.size \in 2 .. MAX_OUTCOMES /\ q.row # NoRow
  BY <1>1, MarketInHand, AdministrationAssumption
<1>3. ~HasWinner(q.row) /\ q.row.status = "ACTIVE"
  BY <1>1 DEF NewMarketOK
<1>4. /\ markets[m] = NoRow
      /\ markets' = [markets EXCEPT ![m] = q.row]
      /\ Continue(r, next)
      /\ UNCHANGED <<creators, outcomes, refunds, contended>>
  BY DEF InsertMarket
<1>5. outcomes[m] = 0
  BY <1>4 DEF IInv, NoneWithoutMarket
<1>6. \A k \in Markets : markets[k] # NoRow => markets'[k] = markets[k]
  BY <1>4 DEF IInv, TypeOK
<1>7. ASSUME NEW p \in Request, RequestOK(p) PROVE RequestOK(p)'
  <2>1. CreatorCopyOK(p)'
    BY <1>4, <1>7, CreatorCopyStays DEF RequestOK
  <2>2. MarketCopyOK(p)'
    BY <1>4, <1>6, <1>7, MarketInHand, MarketCopyStays DEF RequestOK, MarketCopyOK
  <2>3. NewMarketOK(p)'
    BY <1>4, <1>6, <1>7, MarketInHand, NewMarketStays DEF RequestOK, NewMarketOK
  <2> QED BY <2>1, <2>2, <2>3 DEF RequestOK
<1>8. next \in Request
  BY <1>2 DEF Request
<1>9. RequestOK(next)'
  <2>1. CreatorCopyOK(next)' /\ MarketCopyOK(next)'
    BY DEF CreatorCopyOK, MarketCopyOK
  <2>2. markets'[m] # NoRow /\ outcomes'[m] = 0
    BY <1>2, <1>4, <1>5 DEF IInv, TypeOK
  <2>3. NewMarketOK(next)'
    BY <2>2 DEF NewMarketOK
  <2> QED BY <2>1, <2>3 DEF RequestOK
<1>10. \A s \in Requests : request[s].pc = "insertOutcomes" => request[s].id # m
  BY <1>4 DEF IInv, RequestsOK, RequestOK, NewMarketOK
<1>11. next.pc = "insertOutcomes" /\ next.id = m
  OBVIOUS
<1> HIDE DEF next
<1>12. request' \in [Requests -> Request] /\ RequestsOK'
  BY <1>4, <1>7, <1>8, <1>9, RequestsStep DEF IInv, RequestsOK
<1>13. TypeOK'
  <2>1. markets' \in [Markets -> MarketRow \union {NoRow}]
    BY <1>2, <1>4 DEF IInv, TypeOK
  <2> QED BY <1>4, <1>12, <2>1 DEF IInv, TypeOK
<1>14. StakeRefundedOnce'
  BY <1>4 DEF IInv, StakeRefundedOnce, Alone
<1>15. \A k \in Markets : markets'[k] = IF k = m THEN q.row ELSE markets[k]
  BY <1>4 DEF IInv, TypeOK
<1>16. WinnerIffResolved'
  BY <1>3, <1>4, <1>15 DEF IInv, WinnerIffResolved, HasWinner, Alone
<1>17. WinnerIsStored'
  BY <1>3, <1>4, <1>15 DEF IInv, WinnerIsStored, HasWinner
<1>18. NoneWithoutMarket'
  BY <1>2, <1>4, <1>15 DEF IInv, NoneWithoutMarket
<1>19. OverlapsNoted'
  BY <1>4, <1>11, OverlapsStep DEF IInv, HeldBy
<1>20. OneInserts'
  BY <1>4, <1>10, <1>11, OneInsertsStep DEF IInv
<1> QED BY <1>12, <1>13, <1>14, <1>16, <1>17, <1>18, <1>19, <1>20 DEF IInv

(* While its outcomes are missing a market has no winner, nor has a copy.    *)
LEMMA InsertOutcomesIInv ==
  ASSUME IInv, NEW r \in Requests, InsertOutcomes(r) PROVE IInv'
<1> PICK q : q = request[r]
  OBVIOUS
<1>1. q \in Request /\ q.pc = "insertOutcomes" /\ NewMarketOK(q)
  BY DEF InsertOutcomes, IInv, TypeOK, RequestsOK, RequestOK
<1>2. q.id \in Markets /\ q.size \in 2 .. MAX_OUTCOMES
  BY <1>1, MarketInHand
<1>3. markets[q.id] # NoRow /\ outcomes[q.id] = 0
  BY <1>1 DEF NewMarketOK
<1>4. /\ outcomes' = [outcomes EXCEPT ![q.id] = q.size]
      /\ Continue(r, Idle)
      /\ UNCHANGED <<creators, markets, refunds, contended>>
  BY DEF InsertOutcomes
<1>5. ASSUME NEW row \in MarketRow, HasWinner(row) PROVE ~(row.winningOutcomeIndex < 0)
  BY <1>5 DEF HasWinner, MarketRow
<1>6. \A k \in Markets : k # q.id => outcomes'[k] = outcomes[k]
  BY <1>4 DEF IInv, TypeOK
<1>7. ASSUME NEW p \in Request, NEW s \in Requests, s # r, p = request[s] PROVE RequestOK(p)'
  <2>1. RequestOK(p)
    BY <1>7 DEF IInv, RequestsOK
  <2>2. CreatorCopyOK(p)'
    BY <1>4, <2>1, CreatorCopyStays DEF RequestOK
  <2>3. MarketCopyOK(p)'
    <3>1. ASSUME p.pc \in {"saveMarket", "updateMarket"}
          PROVE  outcomes'[p.id] = outcomes[p.id] \/ ~HasWinner(p.row)
      <4>1. p.id \in Markets /\ p.row \in MarketRow
        BY <3>1, MarketInHand
      <4>2. HasWinner(p.row) => p.row.winningOutcomeIndex < outcomes[p.id]
        BY <2>1, <3>1 DEF RequestOK, MarketCopyOK
      <4> QED BY <1>3, <1>5, <1>6, <4>1, <4>2
    <3> QED BY <1>4, <2>1, <3>1, MarketCopyStays DEF RequestOK
  <2>4. NewMarketOK(p)'
    <3>1. p.pc = "insertOutcomes" => p.id \in Markets /\ p.id # q.id
      BY <1>1, <1>7, MarketInHand DEF IInv, OneInserts
    <3> QED BY <1>4, <1>6, <2>1, <3>1, NewMarketStays DEF RequestOK, NewMarketOK
  <2> QED BY <2>2, <2>3, <2>4 DEF RequestOK
<1>8. request' \in [Requests -> Request] /\ RequestsOK'
  BY <1>4, <1>7, IdleOK, RequestsStep DEF IInv
<1>9. TypeOK'
  <2>1. outcomes' \in [Markets -> {0} \union 2 .. MAX_OUTCOMES]
    BY <1>2, <1>4 DEF IInv, TypeOK
  <2> QED BY <1>4, <1>8, <2>1 DEF IInv, TypeOK
<1>10. StakeRefundedOnce' /\ WinnerIffResolved'
  BY <1>4 DEF IInv, StakeRefundedOnce, WinnerIffResolved, Alone
<1>11. WinnerIsStored'
  <2> SUFFICES ASSUME NEW k \in Markets, markets[k] # NoRow,
                      markets[k].winningOutcomeIndex # NoOutcome
               PROVE  markets[k].winningOutcomeIndex < outcomes'[k]
    BY <1>4 DEF WinnerIsStored
  <2>1. markets[k] \in MarketRow /\ markets[k].winningOutcomeIndex < outcomes[k]
    BY DEF IInv, TypeOK, WinnerIsStored
  <2>2. k # q.id
    BY <1>3, <1>5, <2>1 DEF HasWinner
  <2> QED BY <1>6, <2>1, <2>2
<1>12. NoneWithoutMarket'
  BY <1>3, <1>4, <1>6 DEF IInv, NoneWithoutMarket
<1>13. OverlapsNoted' /\ OneInserts'
  BY <1>4, OverlapsStep, OneInsertsStep DEF IInv, HeldBy, Idle
<1> QED BY <1>8, <1>9, <1>10, <1>11, <1>12, <1>13 DEF IInv

(* A market changes to a row that keeps what is known of it; who else has    *)
(* the row in hand has been noted.                                           *)
LEMMA MarketRowStep ==
  ASSUME IInv, NEW m \in Markets, NEW row \in MarketRow, markets[m] # NoRow,
         markets' = [markets EXCEPT ![m] = row], UNCHANGED <<creators, outcomes, refunds>>,
         contended \subseteq contended',
         HasWinner(row) => row.winningOutcomeIndex < outcomes[m],
         m \notin contended' => (HasWinner(row) <=> row.status = "RESOLVED")
  PROVE  /\ markets' \in [Markets -> MarketRow \union {NoRow}]
         /\ RowsOK'
<1>1. \A k \in Markets : markets'[k] = IF k = m THEN row ELSE markets[k]
  BY DEF IInv, TypeOK
<1>2. markets' \in [Markets -> MarketRow \union {NoRow}]
  BY DEF IInv, TypeOK
<1>3. StakeRefundedOnce'
  BY DEF IInv, StakeRefundedOnce, Alone
<1>4. WinnerIffResolved'
  BY <1>1 DEF IInv, WinnerIffResolved, HasWinner, Alone
<1>5. WinnerIsStored'
  BY <1>1 DEF IInv, WinnerIsStored, HasWinner
<1>6. row # NoRow
  BY AdministrationAssumption
<1>7. NoneWithoutMarket'
  BY <1>1, <1>6 DEF IInv, NoneWithoutMarket
<1> QED BY <1>2, <1>3, <1>4, <1>5, <1>7 DEF RowsOK

(* And so do the copies of it.                                               *)
LEMMA MarketCopiesStay ==
  ASSUME IInv, NEW m \in Markets, NEW row \in MarketRow,
         markets' = [markets EXCEPT ![m] = row], UNCHANGED <<creators, outcomes>>,
         contended \subseteq contended',
         NEW p \in Request, RequestOK(p),
         p.pc \in {"saveMarket", "updateMarket"} /\ p.id = m => m \in contended'
  PROVE  RequestOK(p)'
<1>1. row # NoRow
  BY AdministrationAssumption
<1>2. \A k \in Markets : markets'[k] = IF k = m THEN row ELSE markets[k]
  BY DEF IInv, TypeOK
<1>3. CreatorCopyOK(p)'
  BY CreatorCopyStays DEF RequestOK
<1>4. MarketCopyOK(p)'
  BY <1>1, <1>2, MarketInHand, MarketCopyStays DEF RequestOK
<1>5. NewMarketOK(p)'
  BY <1>1, <1>2, MarketInHand, NewMarketStays DEF RequestOK, NewMarketOK
<1> QED BY <1>3, <1>4, <1>5 DEF RequestOK

LEMMA UpdateMarketIInv ==
  ASSUME IInv, NEW r \in Requests, UpdateMarket(r) PROVE IInv'
<1> PICK q : q = request[r]
  OBVIOUS
<1> PICK m : m = q.id
  OBVIOUS
<1> PICK row : row = UpdatedMarket(markets[m], q.seen, q.row)
  OBVIOUS
<1>1. q \in Request /\ q.pc = "updateMarket" /\ MarketCopyOK(q)
  BY DEF UpdateMarket, IInv, TypeOK, RequestsOK, RequestOK
<1>2. m \in Markets /\ q.row \in MarketRow /\ q.seen \in MarketRow
  BY <1>1, MarketInHand
<1>3. /\ markets' = [markets EXCEPT ![m] = row]
      /\ Continue(r, Idle)
      /\ UNCHANGED <<creators, outcomes, refunds, contended>>
  BY DEF UpdateMarket
<1>4. markets[m] \in MarketRow /\ markets[m] # NoRow
  BY <1>1, <1>2 DEF IInv, TypeOK, MarketCopyOK
<1>5. row \in MarketRow
  BY <1>2, <1>4, SavedMarket
<1>6. HasWinner(row) => row.winningOutcomeIndex < outcomes[m]
  <2>1. row.winningOutcomeIndex \in {markets[m].winningOutcomeIndex, q.row.winningOutcomeIndex}
    BY SavedIsOneOfTwo DEF UpdatedMarket
  <2>2. HasWinner(markets[m]) => markets[m].winningOutcomeIndex < outcomes[m]
    BY <1>2, <1>4 DEF IInv, WinnerIsStored, HasWinner
  <2>3. HasWinner(q.row) => q.row.winningOutcomeIndex < outcomes[m]
    BY <1>1 DEF MarketCopyOK
  <2> QED BY <2>1, <2>2, <2>3 DEF HasWinner
<1>7. m \notin contended' => (HasWinner(row) <=> row.status = "RESOLVED")
  <2> SUFFICES ASSUME m \notin contended' PROVE HasWinner(row) <=> row.status = "RESOLVED"
    OBVIOUS
  <2>1. q.seen = markets[m] /\ (HasWinner(q.row) <=> q.row.status = "RESOLVED")
    BY <1>1, <1>3 DEF MarketCopyOK, Alone
  <2>2. /\ row.status = q.row.status
        /\ row.winningOutcomeIndex = q.row.winningOutcomeIndex
    BY <2>1, SavedAlone DEF UpdatedMarket
  <2> QED BY <2>1, <2>2 DEF HasWinner
<1>8. markets' \in [Markets -> MarketRow \union {NoRow}] /\ RowsOK'
  BY <1>2, <1>3, <1>4, <1>5, <1>6, <1>7, MarketRowStep
<1>9. ASSUME NEW p \in Request, NEW s \in Requests, s # r, p = request[s] PROVE RequestOK(p)'
  <2>1. ASSUME p.pc \in {"saveMarket", "updateMarket"}, p.id = m PROVE m \in contended'
    <3>1. Holds(s, m) /\ Holds(r, m)
      BY <1>1, <1>9, <2>1 DEF Holds
    <3> QED BY <1>2, <1>3, <1>9, <3>1 DEF IInv, OverlapsNoted
  <2>2. RequestOK(p)
    BY <1>9 DEF IInv, RequestsOK
  <2> QED BY <1>2, <1>3, <1>5, <2>1, <2>2, MarketCopiesStay
<1>10. request' \in [Requests -> Request] /\ RequestsOK'
  BY <1>3, <1>9, IdleOK, RequestsStep DEF IInv
<1>11. TypeOK'
  BY <1>3, <1>8, <1>10 DEF IInv, TypeOK
<1>12. OverlapsNoted' /\ OneInserts'
  BY <1>3, OverlapsStep, OneInsertsStep DEF IInv, HeldBy, Idle
<1> QED BY <1>8, <1>10, <1>11, <1>12 DEF IInv, RowsOK

LEMMA CloseMarketIInv ==
  ASSUME IInv, NEW m \in Markets, CloseMarket(m) PROVE IInv'
<1> PICK row : row = [markets[m] EXCEPT !.status = "PENDING_RESOLUTION"]
  OBVIOUS
<1>1. markets[m] # NoRow /\ markets[m] \in MarketRow /\ markets[m].status = "ACTIVE"
  BY DEF CloseMarket, IInv, TypeOK
<1>2. /\ row \in MarketRow /\ row.status = "PENDING_RESOLUTION"
      /\ row.winningOutcomeIndex = markets[m].winningOutcomeIndex
  BY <1>1 DEF MarketRow
<1>3. /\ markets' = [markets EXCEPT ![m] = row]
      /\ UNCHANGED <<creators, outcomes, request, refunds>>
  BY DEF CloseMarket
<1>4. contended \subseteq contended' /\ contended' \in SUBSET (Users \union Markets)
  BY DEF CloseMarket, Touch, IInv, TypeOK
<1>5. HasWinner(row) => row.winningOutcomeIndex < outcomes[m]
  BY <1>1, <1>2 DEF IInv, WinnerIsStored, HasWinner
<1>6. m \notin contended' => (HasWinner(row) <=> row.status = "RESOLVED")
  BY <1>1, <1>2, <1>4 DEF IInv, WinnerIffResolved, HasWinner, Alone
<1>7. markets' \in [Markets -> MarketRow \union {NoRow}] /\ RowsOK'
  BY <1>1, <1>2, <1>3, <1>4, <1>5, <1>6, MarketRowStep
<1>8. ASSUME NEW s \in Requests PROVE RequestOK(request[s])'
  <2> PICK p : p = request[s]
    OBVIOUS
  <2>1. p \in Request /\ RequestOK(p)
    BY DEF IInv, TypeOK, RequestsOK
  <2>2. ASSUME p.pc \in {"saveMarket", "updateMarket"}, p.id = m PROVE m \in contended'
    BY <2>2 DEF CloseMarket, Touch, Holds
  <2>3. RequestOK(p)'
    BY <1>2, <1>3, <1>4, <2>1, <2>2, MarketCopiesStay
  <2> QED BY <1>3, <2>3
<1>9. TypeOK'
  BY <1>3, <1>4, <1>7 DEF IInv, TypeOK
<1>10. OverlapsNoted' /\ OneInserts'
  BY <1>3, <1>4 DEF IInv, OverlapsNoted, OneInserts, Holds
<1> QED BY <1>7, <1>8, <1>9, <1>10 DEF IInv, RowsOK, RequestsOK

-----------------------------------------------------------------------------
LEMMA StutterIInv == IInv /\ UNCHANGED vars => IInv'
<1> SUFFICES ASSUME IInv, UNCHANGED vars PROVE IInv'
  OBVIOUS
<1>1. UNCHANGED <<creators, markets, outcomes, request, refunds, contended>>
  BY DEF vars
<1>2. TypeOK' /\ OverlapsNoted' /\ OneInserts'
  BY <1>1 DEF IInv, TypeOK, OverlapsNoted, OneInserts, Holds
<1>3. RowsOK'
  BY <1>1 DEF IInv, RowsOK, StakeRefundedOnce, WinnerIffResolved, WinnerIsStored,
              NoneWithoutMarket, Alone
<1>4. ASSUME NEW s \in Requests PROVE RequestOK(request[s])'
  <2> PICK p : p = request[s]
    OBVIOUS
  <2>1. RequestOK(p)'
    BY <1>1, UntouchedStays DEF IInv, RequestsOK, tables
  <2> QED BY <1>1, <2>1
<1> QED BY <1>2, <1>3, <1>4 DEF IInv, RowsOK, RequestsOK

LEMMA NextIInv == IInv /\ [Next]_vars => IInv'
<1> SUFFICES ASSUME IInv, [Next]_vars PROVE IInv'
  OBVIOUS
<1>1. CASE UNCHANGED vars
  BY <1>1, StutterIInv
<1>2. ASSUME NEW r \in Requests, NEW u \in Users,
             \/ applyCreator(r, u) \/ approveCreator(r, u) \/ rejectCreator(r, u)
             \/ suspendCreator(r, u) \/ banUser(r, u) \/ overrideShareUnlock(r, u)
             \/ refundCreatorStake(r, u)
             \/ \E end \in EndTimes, size \in Sizes : createMarket(r, u, end, size)
      PROVE  IInv'
  BY <1>2, applyCreatorIInv, StatusIInv, refundIInv, createMarketIInv
<1>3. ASSUME NEW r \in Requests, NEW m \in Markets,
             \/ InsertMarket(r, m)
             \/ \E i \in WinningOutcomes : resolveMarket(r, m, i)
             \/ disputeMarket(r, m) \/ cancelMarket(r, m)
             \/ \E hours \in AdditionalHours : extendMarket(r, m, hours)
      PROVE  IInv'
  BY <1>3, InsertMarketIInv, resolveMarketIInv, StopIInv, extendMarketIInv
<1>4. ASSUME NEW r \in Requests,
             \/ InsertCreator(r) \/ LoadCreator(r) \/ UpdateCreator(r) \/ InsertOutcomes(r)
             \/ LoadMarket(r) \/ UpdateMarket(r) \/ Abort(r)
      PROVE  IInv'
  BY <1>4, InsertCreatorIInv, LoadCreatorIInv, UpdateCreatorIInv, InsertOutcomesIInv,
     LoadMarketIInv, UpdateMarketIInv, AbortIInv
<1>5. CASE \E m \in Markets : CloseMarket(m)
  BY <1>5, CloseMarketIInv
<1> QED BY <1>1, <1>2, <1>3, <1>4, <1>5 DEF Next

(* Rows, and the copies of them that requests have in hand, agree as IInv    *)
(* says.                                                                     *)
THEOREM Invariance == Spec => []IInv
<1> QED BY InitIInv, NextIInv, PTL DEF Spec

(* TypeOK of every state, for any number of users, markets and requests.     *)
THEOREM TypeCorrect == Spec => []TypeOK
<1>1. IInv => TypeOK
  BY DEF IInv
<1> QED BY <1>1, Invariance, PTL

(* StakeRefundedOnce for any number of creators and requests: as long as no  *)
(* two requests had a creator's row in hand at once, refundCreatorStake      *)
(* returns the stake at most once, and the row says whether it did.          *)
THEOREM StakesRefundedOnce == Spec => []StakeRefundedOnce
<1>1. IInv => StakeRefundedOnce
  BY DEF IInv
<1> QED BY <1>1, Invariance, PTL

(* WinnerIffResolved for any number of markets and requests: without such an *)
(* overlap a market has a winner exactly if resolveMarket ended it.          *)
THEOREM WinnersAreResolved == Spec => []WinnerIffResolved
<1>1. IInv => WinnerIffResolved
  BY DEF IInv
<1> QED BY <1>1, Invariance, PTL

(* WinnerIsStored for any number of markets, outcomes and requests: however  *)
(* requests overlap or fail, the winner is one of the outcomes stored.       *)
THEOREM WinnersAreStored == Spec => []WinnerIsStored
<1>1. IInv => WinnerIsStored
  BY DEF IInv
<1> QED BY <1>1, Invariance, PTL

-----------------------------------------------------------------------------
(* The change that a request makes is one operation on the row that it read. *)
CreatorEdit(before, row, refund) ==
    \/ /\ ~refund
       /\ before.status = "PENDING"
       /\ \E verdict \in {"ACTIVE", "SUSPENDED"} : row = [before EXCEPT !.status = verdict]
    \/ /\ ~refund
       /\ row = [before EXCEPT !.status = "SUSPENDED"]
    \/ /\ ~refund
       /\ ~before.sharesUnlocked
       /\ row = [before EXCEPT !.sharesUnlocked = TRUE]
    \/ /\ refund
       /\ HasStake(before)
       /\ row = [before EXCEPT !.stakeReturned = TRUE]

MarketEdit(before, row) ==
    \/ /\ before.status = "PENDING_RESOLUTION"
       /\ HasWinner(row)
       /\ row = [before EXCEPT !.status = "RESOLVED",
                               !.winningOutcomeIndex = row.winningOutcomeIndex]
    \/ /\ before.status # "RESOLVED"
       /\ \E status \in {"DISPUTED", "CANCELLED"} : row = [before EXCEPT !.status = status]
    \/ /\ before.status = "ACTIVE"
       /\ row.endTime > before.endTime
       /\ row = [before EXCEPT !.endTime = row.endTime]

EditOK(q) ==
    /\ q.pc \in {"saveCreator", "updateCreator"} => CreatorEdit(q.before, q.row, q.refund)
    /\ q.pc \in {"saveMarket", "updateMarket"} =>
         /\ MarketEdit(q.before, q.row)
         /\ Alone(q.id) => q.before = markets[q.id]
    /\ q.pc = "insertMarket" =>
         q.row.endTime > 0 /\ q.row = [status |-> "ACTIVE", endTime |-> q.row.endTime,
                                       winningOutcomeIndex |-> NoOutcome]

EditsOK == \A r \in Requests : EditOK(request[r])

LEMMA EditStays ==
  ASSUME NEW q, EditOK(q), contended \subseteq contended',
         q.pc \in {"saveMarket", "updateMarket"} =>
            markets'[q.id] = markets[q.id] \/ q.id \in contended'
  PROVE  EditOK(q)'
BY DEF EditOK, Alone, CreatorEdit, MarketEdit, HasStake, HasWinner

LEMMA EditsStep ==
  ASSUME IInv, EditsOK, NEW r \in Requests, NEW next, Continue(r, next),
         EditOK(next), contended \subseteq contended', UNCHANGED markets
  PROVE  EditsOK'
<1> SUFFICES ASSUME NEW s \in Requests PROVE EditOK(request[s])'
  BY DEF EditsOK
<1> PICK q : q = (request[s])'
  OBVIOUS
<1>1. EditOK(q)
  BY DEF Continue, EditsOK, IInv, TypeOK
<1> QED BY <1>1, EditStays

LEMMA EditIdle == EditOK(Idle) /\ EditOK(Idle)'
BY DEF EditOK, Idle

LEMMA EditCreatorEdits ==
  ASSUME IInv, EditsOK, NEW r \in Requests, NEW u \in Users, NEW row, NEW refund,
         EditCreator(r, u, row, refund), CreatorEdit(creators[u], row, refund)
  PROVE  EditsOK'
<1> PICK before : before = creators[u]
  OBVIOUS
<1> DEFINE next == [pc |-> "saveCreator", id |-> u, before |-> before, row |-> row,
                    refund |-> refund]
<1>1. EditOK(next)
  BY DEF EditOK
<1>2. Continue(r, next) /\ contended \subseteq contended' /\ UNCHANGED markets
  BY DEF EditCreator, Begin, Touch, tables
<1> HIDE DEF next
<1> QED BY <1>1, <1>2, EditsStep

LEMMA EditMarketEdits ==
  ASSUME IInv, EditsOK, NEW r \in Requests, NEW m \in Markets, NEW row,
         EditMarket(r, m, row), MarketEdit(markets[m], row)
  PROVE  EditsOK'
<1> PICK before : before = markets[m]
  OBVIOUS
<1> DEFINE next == [pc |-> "saveMarket", id |-> m, before |-> before, row |-> row]
<1>1. EditOK(next)
  BY DEF EditOK
<1>2. Continue(r, next) /\ contended \subseteq contended' /\ UNCHANGED markets
  BY DEF EditMarket, Begin, Touch, tables
<1> HIDE DEF next
<1> QED BY <1>1, <1>2, EditsStep

(* The operations on creators.                                               *)
LEMMA CreatorEdits ==
  ASSUME IInv, EditsOK, NEW r \in Requests, NEW u \in Users,
         \/ approveCreator(r, u) \/ rejectCreator(r, u) \/ suspendCreator(r, u)
         \/ banUser(r, u) \/ overrideShareUnlock(r, u) \/ refundCreatorStake(r, u)
  PROVE  EditsOK'
<1>1. CASE approveCreator(r, u)
  BY <1>1, EditCreatorEdits DEF approveCreator, IsPending, CreatorEdit
<1>2. CASE rejectCreator(r, u)
  BY <1>2, EditCreatorEdits DEF rejectCreator, IsPending, CreatorEdit
<1>3. CASE suspendCreator(r, u) \/ banUser(r, u)
  BY <1>3, EditCreatorEdits DEF suspendCreator, banUser, CreatorEdit
<1>4. CASE overrideShareUnlock(r, u)
  BY <1>4, EditCreatorEdits DEF overrideShareUnlock, CreatorEdit
<1>5. CASE refundCreatorStake(r, u)
  BY <1>5, EditCreatorEdits DEF refundCreatorStake, CreatorEdit
<1> QED BY <1>1, <1>2, <1>3, <1>4, <1>5

(* The operations on markets.                                                *)
LEMMA MarketEdits ==
  ASSUME IInv, EditsOK, NEW r \in Requests, NEW m \in Markets,
         \/ \E i \in WinningOutcomes : resolveMarket(r, m, i)
         \/ disputeMarket(r, m) \/ cancelMarket(r, m)
         \/ \E hours \in AdditionalHours : extendMarket(r, m, hours)
  PROVE  EditsOK'
<1>1. markets[m] # NoRow => markets[m] \in MarketRow
  BY DEF IInv, TypeOK
<1>2. ASSUME NEW i \in WinningOutcomes, resolveMarket(r, m, i) PROVE EditsOK'
  <2> PICK row : row = [markets[m] EXCEPT !.status = "RESOLVED", !.winningOutcomeIndex = i]
    OBVIOUS
  <2>1. i # NoOutcome
    BY AdministrationAssumption DEF WinningOutcomes
  <2>2. row.winningOutcomeIndex = i
    BY <1>1, <1>2 DEF resolveMarket, MarketRow
  <2>3. MarketEdit(markets[m], row)
    BY <1>2, <2>1, <2>2 DEF resolveMarket, MarketEdit, HasWinner
  <2> QED BY <1>2, <2>3, EditMarketEdits DEF resolveMarket
<1>3. ASSUME disputeMarket(r, m) \/ cancelMarket(r, m) PROVE EditsOK'
  <2> PICK row : /\ EditMarket(r, m, row)
                 /\ \E status \in {"DISPUTED", "CANCELLED"} :
                      row = [markets[m] EXCEPT !.status = status]
    BY <1>3 DEF disputeMarket, cancelMarket
  <2>1. MarketEdit(markets[m], row)
    BY <1>3 DEF disputeMarket, cancelMarket, IsNotResolved, MarketEdit
  <2> QED BY <2>1, EditMarketEdits
<1>4. ASSUME NEW hours \in AdditionalHours, extendMarket(r, m, hours) PROVE EditsOK'
  <2> PICK row : row = [markets[m] EXCEPT !.endTime = @ + hours]
    OBVIOUS
  <2>1. row.endTime = markets[m].endTime + hours /\ markets[m].endTime \in Nat
    BY <1>1, <1>4 DEF extendMarket, MarketRow
  <2>2. row.endTime > markets[m].endTime
    BY <2>1, AdministrationAssumption DEF AdditionalHours
  <2>3. row = [markets[m] EXCEPT !.endTime = row.endTime]
    BY <2>1
  <2>4. MarketEdit(markets[m], row)
    BY <1>4, <2>2, <2>3 DEF extendMarket, MarketEdit
  <2> QED BY <1>4, <2>4, EditMarketEdits DEF extendMarket
<1> QED BY <1>2, <1>3, <1>4

(* The commands that follow.                                                 *)
LEMMA CommandEdits ==
  ASSUME IInv, EditsOK, NEW r \in Requests,
         \/ InsertCreator(r) \/ LoadCreator(r) \/ UpdateCreator(r) \/ InsertOutcomes(r)
         \/ LoadMarket(r) \/ Abort(r)
         \/ \E u \in Users : applyCreator(r, u)
  PROVE  EditsOK'
<1> PICK q : q = request[r]
  OBVIOUS
<1>1. EditOK(q)
  BY DEF EditsOK
<1>2. CASE InsertCreator(r) \/ UpdateCreator(r) \/ InsertOutcomes(r) \/ Abort(r)
  <2>1. Continue(r, Idle) /\ contended \subseteq contended' /\ UNCHANGED markets
    BY <1>2 DEF InsertCreator, UpdateCreator, InsertOutcomes, Abort, tables
  <2> QED BY <2>1, EditIdle, EditsStep
<1>3. CASE LoadCreator(r)
  <2> PICK next : /\ Continue(r, next) /\ next.pc = "updateCreator"
                  /\ next.before = q.before /\ next.row = q.row /\ next.refund = q.refund
    BY <1>3 DEF LoadCreator
  <2>1. EditOK(next)
    BY <1>1, <1>3 DEF LoadCreator, EditOK
  <2> QED BY <1>3, <2>1, EditsStep DEF LoadCreator, tables
<1>4. CASE LoadMarket(r)
  <2> PICK next : /\ Continue(r, next) /\ next.pc = "updateMarket"
                  /\ next.id = q.id /\ next.before = q.before /\ next.row = q.row
    BY <1>4 DEF LoadMarket
  <2>1. EditOK(next)
    BY <1>1, <1>4 DEF LoadMarket, EditOK
  <2> QED BY <1>4, <2>1, EditsStep DEF LoadMarket, tables
<1>5. CASE \E u \in Users : applyCreator(r, u)
  <2> PICK u \in Users : applyCreator(r, u)
    BY <1>5
  <2> DEFINE next == [pc |-> "insertCreator", id |-> u]
  <2>1. EditOK(next)
    BY DEF EditOK
  <2>2. Continue(r, next) /\ contended \subseteq contended' /\ UNCHANGED markets
    BY DEF applyCreator, Begin, Touch, tables
  <2> HIDE DEF next
  <2> QED BY <2>1, <2>2, EditsStep
<1> QED BY <1>2, <1>3, <1>4, <1>5

LEMMA createMarketEdits ==
  ASSUME IInv, EditsOK, NEW r \in Requests, NEW u \in Users, NEW end \in EndTimes, NEW size \in Sizes,
         createMarket(r, u, end, size)
  PROVE  EditsOK'
<1> DEFINE next == [pc |-> "insertMarket", size |-> size,
                    row |-> [status |-> "ACTIVE", endTime |-> end,
                             winningOutcomeIndex |-> NoOutcome]]
<1>1. EditOK(next)
  BY AdministrationAssumption DEF EditOK, EndTimes
<1>2. Continue(r, next) /\ contended \subseteq contended' /\ UNCHANGED markets
  BY DEF createMarket, tables
<1> HIDE DEF next
<1> QED BY <1>1, <1>2, EditsStep

(* The steps that change a market: other copies of its row were noted.       *)
LEMMA MarketChangeEdits ==
  ASSUME IInv, EditsOK,
         \/ \E r \in Requests : UpdateMarket(r)
         \/ \E r \in Requests, m \in Markets : InsertMarket(r, m)
         \/ \E m \in Markets : CloseMarket(m)
  PROVE  EditsOK'
<1>1. CASE \E r \in Requests : UpdateMarket(r)
  <2> PICK r \in Requests : UpdateMarket(r)
    BY <1>1
  <2> PICK m : m = request[r].id
    OBVIOUS
  <2>1. m \in Markets /\ Holds(r, m)
    BY MarketInHand DEF UpdateMarket, Holds, IInv, TypeOK
  <2>2. \A k \in Markets : k # m => markets'[k] = markets[k]
    BY DEF UpdateMarket, IInv, TypeOK
  <2>3. Continue(r, Idle) /\ contended' = contended
    BY DEF UpdateMarket
  <2>4. ASSUME NEW s \in Requests PROVE EditOK(request[s])'
    <3> PICK q : q = (request[s])'
      OBVIOUS
    <3>1. CASE s = r
      BY <2>3, <3>1, EditIdle DEF Continue, IInv, TypeOK
    <3>2. CASE s # r
      <4>1. q = request[s] /\ q \in Request /\ EditOK(q)
        BY <2>3, <3>2 DEF Continue, IInv, TypeOK, EditsOK
      <4>2. ASSUME q.pc \in {"saveMarket", "updateMarket"}
            PROVE  markets'[q.id] = markets[q.id] \/ q.id \in contended'
        <5>1. q.id \in Markets /\ Holds(s, q.id)
          BY <4>1, <4>2, MarketInHand DEF Holds
        <5> QED BY <2>1, <2>2, <2>3, <3>2, <5>1 DEF IInv, OverlapsNoted
      <4>3. EditOK(q)'
        BY <2>3, <4>1, <4>2, EditStays
      <4> QED BY <4>3
    <3> QED BY <3>1, <3>2
  <2> QED BY <2>4 DEF EditsOK
<1>2. CASE \E r \in Requests, m \in Markets : InsertMarket(r, m)
  <2> PICK r \in Requests, m \in Markets : InsertMarket(r, m)
    BY <1>2
  <2>1. markets[m] = NoRow /\ contended' = contended
    BY DEF InsertMarket
  <2>2. \A k \in Markets : markets[k] # NoRow => markets'[k] = markets[k]
    BY DEF InsertMarket, IInv, TypeOK
  <2>3. ASSUME NEW s \in Requests PROVE EditOK(request[s])'
    <3> PICK q : q = (request[s])'
      OBVIOUS
    <3>1. CASE s = r
      <4>1. q.pc = "insertOutcomes"
        BY <3>1 DEF InsertMarket, Continue, IInv, TypeOK
      <4>2. EditOK(q)'
        BY <4>1 DEF EditOK
      <4> QED BY <4>2
    <3>2. CASE s # r
      <4>1. q = request[s] /\ q \in Request /\ EditOK(q) /\ MarketCopyOK(q)
        BY <3>2 DEF InsertMarket, Continue, IInv, TypeOK, EditsOK, RequestsOK, RequestOK
      <4>2. EditOK(q)'
        BY <2>1, <2>2, <4>1, MarketInHand, EditStays DEF MarketCopyOK
      <4> QED BY <4>2
    <3> QED BY <3>1, <3>2
  <2> QED BY <2>3 DEF EditsOK
<1>3. CASE \E m \in Markets : CloseMarket(m)
  <2> PICK m \in Markets : CloseMarket(m)
    BY <1>3
  <2>1. contended \subseteq contended' /\ request' = request
    BY DEF CloseMarket, Touch
  <2>2. \A k \in Markets : k # m => markets'[k] = markets[k]
    BY DEF CloseMarket, IInv, TypeOK
  <2>3. ASSUME NEW s \in Requests PROVE EditOK(request[s])'
    <3> PICK q : q = request[s]
      OBVIOUS
    <3>1. q \in Request /\ EditOK(q)
      BY DEF IInv, TypeOK, EditsOK
    <3>2. ASSUME q.pc \in {"saveMarket", "updateMarket"}, q.id = m PROVE m \in contended'
      BY <3>2 DEF CloseMarket, Touch, Holds
    <3>3. EditOK(q)'
      BY <2>1, <2>2, <3>1, <3>2, MarketInHand, EditStays
    <3> QED BY <2>1, <3>3
  <2> QED BY <2>3 DEF EditsOK
<1> QED BY <1>1, <1>2, <1>3

LEMMA InitEdits == Init => EditsOK
BY EditIdle DEF Init, EditsOK

LEMMA NextEdits == IInv /\ EditsOK /\ [Next]_vars => EditsOK'
<1> SUFFICES ASSUME IInv, EditsOK, [Next]_vars PROVE EditsOK'
  OBVIOUS
<1>1. CASE UNCHANGED vars
  <2>1. UNCHANGED <<markets, request, contended>>
    BY <1>1 DEF vars
  <2>2. ASSUME NEW s \in Requests PROVE EditOK(request[s])'
    <3> PICK q : q = request[s]
      OBVIOUS
    <3>1. EditOK(q)'
      BY <2>1, EditStays DEF EditsOK
    <3> QED BY <2>1, <3>1
  <2> QED BY <2>2 DEF EditsOK
<1>2. CASE \E r \in Requests, u \in Users :
             \/ approveCreator(r, u) \/ rejectCreator(r, u) \/ suspendCreator(r, u)
             \/ banUser(r, u) \/ overrideShareUnlock(r, u) \/ refundCreatorStake(r, u)
             \/ \E end \in EndTimes, size \in Sizes : createMarket(r, u, end, size)
  BY <1>2, CreatorEdits, createMarketEdits
<1>3. CASE \E r \in Requests, m \in Markets :
             \/ \E i \in WinningOutcomes : resolveMarket(r, m, i)
             \/ disputeMarket(r, m) \/ cancelMarket(r, m)
             \/ \E hours \in AdditionalHours : extendMarket(r, m, hours)
  BY <1>3, MarketEdits
<1>4. CASE \E r \in Requests :
             \/ InsertCreator(r) \/ LoadCreator(r) \/ UpdateCreator(r) \/ InsertOutcomes(r)
             \/ LoadMarket(r) \/ Abort(r)
             \/ \E u \in Users : applyCreator(r, u)
  BY <1>4, CommandEdits
<1>5. CASE \/ \E r \in Requests : UpdateMarket(r)
           \/ \E r \in Requests, m \in Markets : InsertMarket(r, m)
           \/ \E m \in Markets : CloseMarket(m)
  BY <1>5, MarketChangeEdits
<1> QED BY <1>1, <1>2, <1>3, <1>4, <1>5 DEF Next

-----------------------------------------------------------------------------
(* Each step of a request is a step of the life of one row, or changes none. *)
LEMMA InitLife == Init => Lifecycle!Init
BY DEF Init, Lifecycle!Init, SeededCreator

(* A save of a row that was never shared writes the copy.                    *)
LEMMA SavedCreatorAlone ==
  ASSUME NEW current \in CreatorRow, NEW copy \in CreatorRow
  PROVE  UpdatedCreator(current, current, copy) = copy
BY SavedAlone DEF UpdatedCreator, CreatorRow

LEMMA SavedMarketAlone ==
  ASSUME NEW current \in MarketRow, NEW copy \in MarketRow
  PROVE  UpdatedMarket(current, current, copy) = copy
BY SavedAlone DEF UpdatedMarket, MarketRow

LEMMA UpdateCreatorLives ==
  ASSUME IInv, EditsOK, NEW r \in Requests, UpdateCreator(r) PROVE Lifecycle!Next
<1> PICK q : q = request[r]
  OBVIOUS
<1> PICK u : u = q.id
  OBVIOUS
<1> PICK row : row = UpdatedCreator(creators[u], q.seen, q.row)
  OBVIOUS
<1>1. q \in Request /\ q.pc = "updateCreator" /\ CreatorCopyOK(q) /\ EditOK(q)
  BY DEF UpdateCreator, IInv, TypeOK, RequestsOK, RequestOK, EditsOK
<1>2. /\ u \in Users /\ q.row \in CreatorRow /\ q.refund \in BOOLEAN /\ q.seen \in CreatorRow
  BY <1>1, CreatorInHand
<1>3. creators[u] # NoRow /\ creators[u] \in CreatorRow
  BY <1>1, <1>2 DEF CreatorCopyOK, IInv, TypeOK
<1>4. /\ creators' = [creators EXCEPT ![u] = row]
      /\ refunds' = [refunds EXCEPT ![u] = IF q.refund THEN @ + 1 ELSE @]
      /\ UNCHANGED <<markets, outcomes, contended>>
  BY DEF UpdateCreator
<1>5. row \in CreatorRow /\ row # NoRow
  BY <1>2, <1>3, SavedCreator, AdministrationAssumption
<1>6. creators \in [Users -> CreatorRow \union {NoRow}] /\ refunds \in [Users -> Nat]
  BY DEF IInv, TypeOK
<1>7. CASE u \in contended
  <2>1. Lifecycle!CreatorScrambled(u)
    BY <1>2, <1>4, <1>5, <1>6 DEF Lifecycle!CreatorScrambled
  <2> QED BY <1>2, <1>4, <1>7, <2>1 DEF Lifecycle!Next, Lifecycle!CreatorStep
<1>8. CASE u \notin contended
  <2>1. row = q.row /\ q.before = creators[u]
    BY <1>1, <1>2, <1>3, <1>8, SavedCreatorAlone DEF CreatorCopyOK, Alone
  <2>2. CreatorEdit(creators[u], row, q.refund)
    BY <1>1, <2>1 DEF EditOK
  <2>3. ~q.refund => refunds' = refunds
    BY <1>4, <1>6
  <2>4. q.refund => refunds' = [refunds EXCEPT ![u] = @ + 1]
    BY <1>4
  <2>5. Lifecycle!CreatorLife(u)
    <3>1. ASSUME ~q.refund, creators[u].status = "PENDING",
                 NEW verdict \in {"ACTIVE", "SUSPENDED"},
                 row = [creators[u] EXCEPT !.status = verdict]
          PROVE  Lifecycle!CreatorLife(u)
      <4>1. Lifecycle!Judged(u, verdict)
        BY <1>4, <2>3, <3>1 DEF Lifecycle!Judged
      <4> QED BY <1>3, <4>1 DEF Lifecycle!CreatorLife
    <3>2. ASSUME ~q.refund, row = [creators[u] EXCEPT !.status = "SUSPENDED"]
          PROVE  Lifecycle!CreatorLife(u)
      <4>1. Lifecycle!Suspended(u)
        BY <1>4, <2>3, <3>2 DEF Lifecycle!Suspended
      <4> QED BY <1>3, <4>1 DEF Lifecycle!CreatorLife
    <3>3. ASSUME ~q.refund, ~creators[u].sharesUnlocked,
                 row = [creators[u] EXCEPT !.sharesUnlocked = TRUE]
          PROVE  Lifecycle!CreatorLife(u)
      <4>1. Lifecycle!Unlocked(u)
        BY <1>4, <2>3, <3>3 DEF Lifecycle!Unlocked
      <4> QED BY <1>3, <4>1 DEF Lifecycle!CreatorLife
    <3>4. ASSUME q.refund, HasStake(creators[u]),
                 row = [creators[u] EXCEPT !.stakeReturned = TRUE]
          PROVE  Lifecycle!CreatorLife(u)
      <4>1. Lifecycle!Refunded(u)
        BY <1>4, <2>4, <3>4 DEF Lifecycle!Refunded, HasStake
      <4> QED BY <1>3, <4>1 DEF Lifecycle!CreatorLife
    <3> QED BY <2>2, <3>1, <3>2, <3>3, <3>4 DEF CreatorEdit
  <2> QED BY <1>2, <1>4, <2>5 DEF Lifecycle!Next, Lifecycle!CreatorStep
<1> QED BY <1>7, <1>8

LEMMA InsertCreatorLives ==
  ASSUME IInv, NEW r \in Requests, InsertCreator(r) PROVE Lifecycle!Next
<1> PICK u : u = request[r].id
  OBVIOUS
<1>1. u \in Users
  BY CreatorInHand DEF InsertCreator, IInv, TypeOK
<1>2. /\ creators' = [creators EXCEPT ![u] = IF @ = NoRow THEN Application ELSE @]
      /\ UNCHANGED <<markets, outcomes, refunds, contended>>
  BY DEF InsertCreator
<1>3. CASE creators[u] = NoRow
  <2>1. Lifecycle!Applied(u)
    BY <1>2, <1>3 DEF Lifecycle!Applied, Application
  <2> QED BY <1>1, <1>2, <2>1 DEF Lifecycle!Next, Lifecycle!CreatorStep, Lifecycle!CreatorLife
<1>4. CASE creators[u] # NoRow
  <2>1. creators' = creators
    BY <1>2, <1>4 DEF IInv, TypeOK
  <2> QED BY <1>2, <2>1 DEF Lifecycle!Next
<1> QED BY <1>3, <1>4

LEMMA UpdateMarketLives ==
  ASSUME IInv, EditsOK, NEW r \in Requests, UpdateMarket(r) PROVE Lifecycle!Next
<1> PICK q : q = request[r]
  OBVIOUS
<1> PICK m : m = q.id
  OBVIOUS
<1> PICK row : row = UpdatedMarket(markets[m], q.seen, q.row)
  OBVIOUS
<1>1. q \in Request /\ q.pc = "updateMarket" /\ MarketCopyOK(q) /\ EditOK(q)
  BY DEF UpdateMarket, IInv, TypeOK, RequestsOK, RequestOK, EditsOK
<1>2. m \in Markets /\ q.row \in MarketRow /\ q.seen \in MarketRow
  BY <1>1, MarketInHand
<1>3. markets[m] # NoRow /\ markets[m] \in MarketRow
  BY <1>1, <1>2 DEF MarketCopyOK, IInv, TypeOK
<1>4. /\ markets' = [markets EXCEPT ![m] = row]
      /\ UNCHANGED <<creators, outcomes, refunds, contended>>
  BY DEF UpdateMarket
<1>5. row \in MarketRow /\ row # NoRow
  BY <1>2, <1>3, SavedMarket, AdministrationAssumption
<1>6. markets \in [Markets -> MarketRow \union {NoRow}]
  BY DEF IInv, TypeOK
<1>7. CASE m \in contended
  <2>1. Lifecycle!MarketScrambled(m)
    BY <1>2, <1>4, <1>5, <1>6 DEF Lifecycle!MarketScrambled
  <2> QED BY <1>2, <1>4, <1>7, <2>1 DEF Lifecycle!Next, Lifecycle!MarketStep
<1>8. CASE m \notin contended
  <2>1. row = q.row
    BY <1>1, <1>2, <1>3, <1>8, SavedMarketAlone DEF MarketCopyOK, Alone
  <2>2. MarketEdit(markets[m], row) /\ (HasWinner(row) => row.winningOutcomeIndex < outcomes[m])
    BY <1>1, <1>8, <2>1 DEF EditOK, MarketCopyOK, Alone
  <2>3. markets'[m] = row
    BY <1>2, <1>4, <1>6
  <2>4. Lifecycle!MarketLife(m)
    <3>1. ASSUME markets[m].status = "PENDING_RESOLUTION", HasWinner(row),
                 row = [markets[m] EXCEPT !.status = "RESOLVED",
                                          !.winningOutcomeIndex = row.winningOutcomeIndex]
          PROVE  Lifecycle!MarketLife(m)
      <4>1. row.winningOutcomeIndex \in Nat /\ outcomes[m] \in Nat
        BY <1>2, <1>5, <3>1, AdministrationAssumption DEF HasWinner, MarketRow, IInv, TypeOK
      <4>2. row.winningOutcomeIndex \in 0 .. outcomes[m] - 1
        BY <2>2, <3>1, <4>1
      <4> PICK outcome : outcome = row.winningOutcomeIndex
        OBVIOUS
      <4> PICK once : once = [markets EXCEPT ![m].status = "RESOLVED"]
        OBVIOUS
      <4>3. once[m] = [markets[m] EXCEPT !.status = "RESOLVED"]
        BY <1>2, <1>6
      <4>4. [once[m] EXCEPT !.winningOutcomeIndex = outcome] = row
        BY <3>1, <4>3, <1>3 DEF MarketRow
      <4>5. [once EXCEPT ![m].winningOutcomeIndex = outcome] = [once EXCEPT ![m] = row]
        BY <4>4
      <4>6. [once EXCEPT ![m] = row] = [markets EXCEPT ![m] = row]
        BY <1>6
      <4>7. markets' = [markets EXCEPT ![m].status = "RESOLVED",
                                       ![m].winningOutcomeIndex = outcome]
        BY <1>4, <4>5, <4>6
      <4>8. Lifecycle!Resolved(m)
        BY <3>1, <4>2, <4>7 DEF Lifecycle!Resolved
      <4> QED BY <1>3, <1>4, <4>8 DEF Lifecycle!MarketLife
    <3>2. ASSUME markets[m].status # "RESOLVED",
                 NEW status \in {"DISPUTED", "CANCELLED"},
                 row = [markets[m] EXCEPT !.status = status]
          PROVE  Lifecycle!MarketLife(m)
      <4>1. Lifecycle!Stopped(m)
        BY <1>4, <3>2 DEF Lifecycle!Stopped
      <4> QED BY <1>3, <1>4, <4>1 DEF Lifecycle!MarketLife
    <3>3. ASSUME markets[m].status = "ACTIVE", row.endTime > markets[m].endTime,
                 row = [markets[m] EXCEPT !.endTime = row.endTime]
          PROVE  Lifecycle!MarketLife(m)
      <4>1. Lifecycle!Extended(m)
        BY <1>4, <2>3, <3>3 DEF Lifecycle!Extended
      <4> QED BY <1>3, <1>4, <4>1 DEF Lifecycle!MarketLife
    <3> QED BY <2>2, <3>1, <3>2, <3>3 DEF MarketEdit
  <2> QED BY <1>2, <1>4, <2>4 DEF Lifecycle!Next, Lifecycle!MarketStep
<1> QED BY <1>7, <1>8

LEMMA InsertMarketLives ==
  ASSUME IInv, EditsOK, NEW r \in Requests, NEW m \in Markets, InsertMarket(r, m) PROVE Lifecycle!Next
<1> PICK row : row = request[r].row
  OBVIOUS
<1>1. /\ row \in MarketRow /\ row.endTime > 0
      /\ row = [status |-> "ACTIVE", endTime |-> row.endTime, winningOutcomeIndex |-> NoOutcome]
  BY MarketInHand DEF InsertMarket, IInv, TypeOK, EditsOK, EditOK
<1>2. /\ markets[m] = NoRow
      /\ markets' = [markets EXCEPT ![m] = row]
      /\ UNCHANGED <<creators, outcomes, refunds, contended>>
  BY DEF InsertMarket
<1>3. markets'[m] = row /\ row # NoRow
  BY <1>1, <1>2, AdministrationAssumption DEF IInv, TypeOK
<1>4. Lifecycle!Opened(m)
  BY <1>1, <1>2, <1>3 DEF Lifecycle!Opened
<1> QED BY <1>2, <1>4 DEF Lifecycle!Next, Lifecycle!MarketStep, Lifecycle!MarketLife

LEMMA InsertOutcomesLives ==
  ASSUME IInv, NEW r \in Requests, InsertOutcomes(r) PROVE Lifecycle!Next
<1> PICK q : q = request[r]
  OBVIOUS
<1>1. q \in Request /\ q.pc = "insertOutcomes" /\ NewMarketOK(q)
  BY DEF InsertOutcomes, IInv, TypeOK, RequestsOK, RequestOK
<1>2. q.id \in Markets /\ q.size \in 2 .. MAX_OUTCOMES /\ outcomes[q.id] = 0
  BY <1>1, MarketInHand DEF NewMarketOK
<1>3. /\ outcomes' = [outcomes EXCEPT ![q.id] = q.size]
      /\ UNCHANGED <<creators, markets, refunds, contended>>
  BY DEF InsertOutcomes
<1>4. outcomes'[q.id] = q.size /\ q.size > 1
  BY <1>2, <1>3, AdministrationAssumption DEF IInv, TypeOK
<1>5. Lifecycle!Described(q.id)
  BY <1>2, <1>3, <1>4 DEF Lifecycle!Described
<1> QED BY <1>2, <1>3, <1>5 DEF Lifecycle!Next, Lifecycle!MarketStep, Lifecycle!MarketLife

LEMMA CloseMarketLives ==
  ASSUME IInv, NEW m \in Markets, CloseMarket(m) PROVE Lifecycle!Next
<1>1. Lifecycle!Closed(m) /\ markets[m] # NoRow
  BY DEF CloseMarket, Lifecycle!Closed
<1>2. contended \subseteq contended' /\ UNCHANGED <<creators, outcomes, refunds>>
  BY DEF CloseMarket, Touch
<1> QED BY <1>1, <1>2 DEF Lifecycle!Next, Lifecycle!MarketStep, Lifecycle!MarketLife

(* The steps that change no row.                                             *)
LEMMA OtherStepsLive ==
  ASSUME [Next]_vars,
         ~\E r \in Requests : \/ InsertCreator(r) \/ UpdateCreator(r) \/ InsertOutcomes(r)
                              \/ UpdateMarket(r) \/ \E m \in Markets : InsertMarket(r, m),
         ~\E m \in Markets : CloseMarket(m)
  PROVE  Lifecycle!Next
<1> DEFINE Same == /\ UNCHANGED <<creators, markets, outcomes, refunds>>
                   /\ contended \subseteq contended'
<1>1. ASSUME NEW r \in Requests, NEW next, Begin(r, next), UNCHANGED <<tables, refunds>> PROVE Same
  BY <1>1 DEF Begin, Touch, tables
<1>2. ASSUME NEW r \in Requests, NEW u \in Users,
             \/ applyCreator(r, u) \/ approveCreator(r, u) \/ rejectCreator(r, u)
             \/ suspendCreator(r, u) \/ banUser(r, u) \/ overrideShareUnlock(r, u)
             \/ refundCreatorStake(r, u)
      PROVE  Same
  <2>1. \E next : Begin(r, next) /\ UNCHANGED <<tables, refunds>>
    BY <1>2 DEF applyCreator, approveCreator, rejectCreator, suspendCreator, banUser,
                overrideShareUnlock, refundCreatorStake, EditCreator
  <2> QED BY <1>1, <2>1
<1>3. ASSUME NEW r \in Requests, NEW m \in Markets,
             \/ \E i \in WinningOutcomes : resolveMarket(r, m, i)
             \/ disputeMarket(r, m) \/ cancelMarket(r, m)
             \/ \E hours \in AdditionalHours : extendMarket(r, m, hours)
      PROVE  Same
  <2>1. \E next : Begin(r, next) /\ UNCHANGED <<tables, refunds>>
    BY <1>3 DEF resolveMarket, disputeMarket, cancelMarket, extendMarket, EditMarket
  <2> QED BY <1>1, <2>1
<1>4. ASSUME NEW r \in Requests,
             \/ LoadCreator(r) \/ LoadMarket(r) \/ Abort(r)
             \/ \E u \in Users, end \in EndTimes, size \in Sizes : createMarket(r, u, end, size)
      PROVE  Same
  BY <1>4 DEF LoadCreator, LoadMarket, Abort, createMarket, tables
<1>5. Same
  <2>1. CASE UNCHANGED vars
    BY <2>1 DEF vars
  <2> QED BY <1>2, <1>3, <1>4, <2>1 DEF Next
<1> QED BY <1>5 DEF Lifecycle!Next

(* LivesInSteps for any number of rows and requests: the interleaved         *)
(* commands of the administrators' operations implement the life of          *)
(* RowLifecycle, in which every operation on a row is one step, for every    *)
(* row that no two requests had in hand at once.                             *)
THEOREM ImplementsRowLifecycle == Spec => LivesInSteps
<1>1. IInv /\ EditsOK /\ [Next]_vars => [Lifecycle!Next]_Lifecycle!vars
  <2> SUFFICES ASSUME IInv, EditsOK, [Next]_vars PROVE Lifecycle!Next
    OBVIOUS
  <2> QED BY UpdateCreatorLives, InsertCreatorLives, UpdateMarketLives, InsertMarketLives,
             InsertOutcomesLives, CloseMarketLives, OtherStepsLive
<1>2. Spec => [](IInv /\ EditsOK)
  BY InitIInv, InitEdits, NextIInv, NextEdits, PTL DEF Spec
<1> QED BY InitLife, <1>1, <1>2, PTL DEF Spec, LivesInSteps, Lifecycle!Spec

=============================================================================
