---------------------------- MODULE OpinionMarket ----------------------------
(***************************************************************************)
(* contracts/OpinionMarket.sol with the CreatorShareFactory it reports     *)
(* volume to: all markets of the platform live in one contract, and the    *)
(* stakes of all of them in its one USDC balance.                          *)
(*                                                                         *)
(* A transaction is one action, a revert anywhere in it, the factory's     *)
(* included, is a guard of it.  Time is block.timestamp in a coarse unit.  *)
(*                                                                         *)
(* External: the USDC token, reduced to the contract's own balance (what   *)
(* the contract pays leaves the model, except in module Platform, where    *)
(* the fee collector receives it) and Ownable.  Outcome i of the model is  *)
(* the index i - 1 of the source, so that sums start at 1.                 *)
(***************************************************************************)
EXTENDS Integers, Sequences, Sums

CONSTANTS
  NumUsers,                    \* accounts are the numbers 1..NumUsers
  MaxMarkets,                  \* bound: markets created in a behaviour
  MIN_DURATION, MAX_DURATION,
  VOLUME_THRESHOLD,            \* of the factory
  Collectors                   \* possible platform fee collectors

ASSUME MarketAssumption ==
  /\ NumUsers \in Nat \ {0}
  /\ MaxMarkets \in Nat
  /\ MIN_DURATION \in Nat \ {0}
  /\ MAX_DURATION \in Nat
  /\ VOLUME_THRESHOLD \in Nat \ {0}

Users     == 1 .. NumUsers
MarketIds == 1 .. MaxMarkets
NoMarket  == 0     \* the id of an entry of markets never written

MIN_OUTCOMES == 2
MAX_OUTCOMES == 4
OutcomeIds   == 1 .. MAX_OUTCOMES

BPS_DENOMINATOR     == 10000
TOTAL_FEE_BPS       == 150
PLATFORM_FEE_BPS    == 75
CREATOR_FEE_BPS     == 60
SHAREHOLDER_FEE_BPS == 15

VARIABLES
  markets, nextMarketId,
  outcomeReserves,        \* per market and outcome
  userOutcomeShares,      \* per market, outcome and account
  totalOutcomeShares,     \* per market and outcome
  hasClaimed,             \* per market and account
  platformFeeCollector,
  creatorTotalVolume, sharesUnlocked, creatorShareContract,
  whitelistedMarkets, allCreatorShares,   \* the factory's
  usdcBalance,            \* USDC held by this contract
  now,                    \* block.timestamp
  feesKept                \* history: fee USDC that stayed in the contract

factoryVars  == <<creatorTotalVolume, sharesUnlocked, creatorShareContract,
                  whitelistedMarkets, allCreatorShares>>
stakeVars    == <<outcomeReserves, userOutcomeShares, totalOutcomeShares>>
marketVars   == <<markets, nextMarketId>>
moneyVars    == <<usdcBalance, feesKept>>
vars == <<marketVars, stakeVars, hasClaimed, platformFeeCollector, factoryVars,
          moneyVars, now>>

self == "OpinionMarket"     \* address(this)

factory == INSTANCE CreatorShareFactory
             WITH Creators <- Users, MarketContracts <- {self}

Status == {"Active", "Resolved"}   \* nothing sets Disputed or Cancelled

Market ==
  [id : Nat, creator : Nat, outcomes : Nat, endTime : Nat,
   status : Status, totalVolume : Nat, winningOutcome : OutcomeIds, paused : BOOLEAN]

Unwritten ==
  [id |-> NoMarket, creator |-> 0, outcomes |-> 0, endTime |-> 0,
   status |-> "Active", totalVolume |-> 0, winningOutcome |-> 1, paused |-> FALSE]

TypeOK ==
  /\ markets \in [MarketIds -> Market]
  /\ nextMarketId \in 1 .. MaxMarkets + 1
  /\ \A m \in MarketIds :
       IF m < nextMarketId
       THEN /\ markets[m].id = m
            /\ markets[m].creator \in Users
            /\ markets[m].outcomes \in MIN_OUTCOMES .. MAX_OUTCOMES
            /\ markets[m].winningOutcome <= markets[m].outcomes
       ELSE markets[m] = Unwritten
  /\ outcomeReserves \in [MarketIds -> [OutcomeIds -> Nat]]
  /\ userOutcomeShares \in [MarketIds -> [OutcomeIds -> [Users -> Nat]]]
  /\ totalOutcomeShares \in [MarketIds -> [OutcomeIds -> Nat]]
  /\ hasClaimed \in [MarketIds -> [Users -> BOOLEAN]]
  /\ platformFeeCollector \in Collectors
  /\ factory!FactoryTypeOK
  /\ usdcBalance \in Nat
  /\ feesKept \in Nat
  /\ now \in Nat

Init ==
  /\ markets = [m \in MarketIds |-> Unwritten]
  /\ nextMarketId = 1
  /\ outcomeReserves = [m \in MarketIds |-> [o \in OutcomeIds |-> 0]]
  /\ userOutcomeShares =
       [m \in MarketIds |-> [o \in OutcomeIds |-> [u \in Users |-> 0]]]
  /\ totalOutcomeShares = [m \in MarketIds |-> [o \in OutcomeIds |-> 0]]
  /\ hasClaimed = [m \in MarketIds |-> [u \in Users |-> FALSE]]
  /\ platformFeeCollector \in Collectors
  /\ factory!FactoryInit
  /\ usdcBalance = 0
  /\ feesKept = 0
  /\ now = 0
-----------------------------------------------------------------------------
(* Fees and payouts.  Each fee is floored by itself, so the three parts    *)
(* can add up to less than the total that is withheld from the bet.        *)

Bps(amount, bps) == (amount * bps) \div BPS_DENOMINATOR

TotalFee(amount)       == Bps(amount, TOTAL_FEE_BPS)
\* Mistaken form: the platform is paid the whole fee, not its half.
PlatformFeeWhole(amount) == Bps(amount, TOTAL_FEE_BPS)
PlatformFee(amount)    == Bps(amount, PLATFORM_FEE_BPS)
CreatorFee(amount)     == Bps(amount, CREATOR_FEE_BPS)
ShareholderFee(amount) == Bps(amount, SHAREHOLDER_FEE_BPS)
AmountAfterFee(amount) == amount - TotalFee(amount)

\* Mistaken form: shares are handed out for the fee as well.
SharesOfBet(amount) == amount + TotalFee(amount)

calculateShares(amount) == amount

\* Mistaken form: an id never handed out is accepted.
ExistsAlways(m) == TRUE

Exists(m) == markets[m].id # NoMarket

\* _calculateTotalPayout: the reserves of all outcomes of the market.
TotalPayout(m) == SumTo(outcomeReserves[m], markets[m].outcomes)

\* What the account staked on the winning outcome.
WinningShares(m, u) == userOutcomeShares[m][markets[m].winningOutcome][u]

TotalWinningShares(m) == totalOutcomeShares[m][markets[m].winningOutcome]

\* Mistaken form: the account's part of the winning shares is taken in basis
\* points first, as getOutcomeProbability does, and rounded twice.
PayoutOfBps(m, u) ==
  (((WinningShares(m, u) * BPS_DENOMINATOR) \div TotalWinningShares(m)) * TotalPayout(m))
    \div BPS_DENOMINATOR

\* What claimWinnings pays an account with winning shares.
Payout(m, u) == (TotalPayout(m) * WinningShares(m, u)) \div TotalWinningShares(m)

\* Mistaken form: measured against all that was bet, fees included.
ProbabilityOfVolume(m, o) ==
  IF TotalPayout(m) = 0 THEN 0
  ELSE (outcomeReserves[m][o] * BPS_DENOMINATOR) \div markets[m].totalVolume

getOutcomeProbability(m, o) ==
  IF TotalPayout(m) = 0 THEN 0
  ELSE (outcomeReserves[m][o] * BPS_DENOMINATOR) \div TotalPayout(m)

-----------------------------------------------------------------------------
(* The external functions. *)

\* The id is nextMarketId; the sender is the creator.
createMarket(sender, outcomes, duration) ==
  /\ nextMarketId <= MaxMarkets
  /\ outcomes \in MIN_OUTCOMES .. MAX_OUTCOMES
  /\ duration \in MIN_DURATION .. MAX_DURATION
  /\ markets' = [markets EXCEPT ![nextMarketId] =
       [Unwritten EXCEPT !.id = nextMarketId, !.creator = sender,
                         !.outcomes = outcomes, !.endTime = now + duration]]
  /\ nextMarketId' = nextMarketId + 1
  /\ UNCHANGED <<stakeVars, hasClaimed, platformFeeCollector, factoryVars, moneyVars, now>>

\* Mistaken form: the end of the market is not looked at.
AcceptsLateBets(m) ==
  Exists(m) /\ markets[m].status = "Active" /\ ~markets[m].paused

AcceptsBets(m) ==
  /\ Exists(m)
  /\ markets[m].status = "Active"
  /\ now < markets[m].endTime
  /\ ~markets[m].paused

placeBet(m, u, o, amount) ==
  LET stake  == AmountAfterFee(amount)
      shares == calculateShares(stake)
  IN
  /\ AcceptsBets(m)
  /\ o <= markets[m].outcomes
  /\ amount > 0
  /\ userOutcomeShares' = [userOutcomeShares EXCEPT ![m][o][u] = @ + shares]
  /\ totalOutcomeShares' = [totalOutcomeShares EXCEPT ![m][o] = @ + shares]
  /\ outcomeReserves' = [outcomeReserves EXCEPT ![m][o] = @ + stake]
  /\ markets' = [markets EXCEPT ![m].totalVolume = @ + amount]
  /\ usdcBalance' = usdcBalance + amount - PlatformFee(amount) - CreatorFee(amount)
  /\ feesKept' = feesKept + TotalFee(amount) - PlatformFee(amount) - CreatorFee(amount)
  /\ factory!updateCreatorVolume(self, markets[m].creator, amount)
  /\ UNCHANGED <<nextMarketId, hasClaimed, platformFeeCollector, now>>

\* Mistaken form: a market resolved already is resolved again.
CanResolveAgain(m) == Exists(m) /\ now >= markets[m].endTime

CanResolve(m) ==
  Exists(m) /\ now >= markets[m].endTime /\ markets[m].status # "Resolved"

\* onlyOwner; a paused market too.
resolveMarket(m, winningOutcome) ==
  /\ CanResolve(m)
  /\ winningOutcome <= markets[m].outcomes
  /\ markets' = [markets EXCEPT ![m].status = "Resolved",
                                ![m].winningOutcome = winningOutcome]
  /\ UNCHANGED <<nextMarketId, stakeVars, hasClaimed, platformFeeCollector,
                 factoryVars, moneyVars, now>>

\* Mistaken form: the claim is not looked up.
IsWinner(m, u) ==
  Exists(m) /\ markets[m].status = "Resolved" /\ WinningShares(m, u) > 0

\* The winner of a market the account has not been paid for.
IsUnpaidWinner(m, u) ==
  /\ Exists(m)
  /\ markets[m].status = "Resolved"
  /\ ~hasClaimed[m][u]
  /\ WinningShares(m, u) > 0

claimWinnings(m, u) ==
  /\ IsUnpaidWinner(m, u)
  /\ Payout(m, u) <= usdcBalance
  /\ hasClaimed' = [hasClaimed EXCEPT ![m][u] = TRUE]
  /\ usdcBalance' = usdcBalance - Payout(m, u)
  /\ UNCHANGED <<marketVars, stakeVars, platformFeeCollector, factoryVars, feesKept, now>>

\* onlyOwner.
pauseMarket(m) ==
  /\ Exists(m)
  /\ markets' = [markets EXCEPT ![m].paused = TRUE]
  /\ UNCHANGED <<nextMarketId, stakeVars, hasClaimed, platformFeeCollector,
                 factoryVars, moneyVars, now>>

\* onlyOwner.
unpauseMarket(m) ==
  /\ Exists(m)
  /\ markets' = [markets EXCEPT ![m].paused = FALSE]
  /\ UNCHANGED <<nextMarketId, stakeVars, hasClaimed, platformFeeCollector,
                 factoryVars, moneyVars, now>>

\* onlyOwner.
updatePlatformFeeCollector(newCollector) ==
  /\ platformFeeCollector' = newCollector
  /\ UNCHANGED <<marketVars, stakeVars, hasClaimed, factoryVars, moneyVars, now>>

\* A transaction sent to the factory itself.
AdministerFactory ==
  /\ factory!Administer
  /\ UNCHANGED <<marketVars, stakeVars, hasClaimed, platformFeeCollector, moneyVars, now>>

\* A later block.
Tick ==
  /\ now' = now + 1
  /\ UNCHANGED <<marketVars, stakeVars, hasClaimed, platformFeeCollector,
                 factoryVars, moneyVars>>

\* Every step but a bet and the passing of time, which take unbounded values.
Step ==
  \/ \E u \in Users, n \in MIN_OUTCOMES .. MAX_OUTCOMES,
        d \in MIN_DURATION .. MAX_DURATION : createMarket(u, n, d)
  \/ \E m \in MarketIds, o \in OutcomeIds : resolveMarket(m, o)
  \/ \E m \in MarketIds, u \in Users : claimWinnings(m, u)
  \/ \E m \in MarketIds : pauseMarket(m)
  \/ \E m \in MarketIds : unpauseMarket(m)
  \/ \E c \in Collectors : updatePlatformFeeCollector(c)
  \/ AdministerFactory

Next ==
  \/ Step
  \/ \E m \in MarketIds, u \in Users, o \in OutcomeIds, amount \in Nat :
       placeBet(m, u, o, amount)
  \/ Tick

Spec == Init /\ [][Next]_vars

-----------------------------------------------------------------------------
(* Properties. *)

OutcomeShares(m) == [o \in OutcomeIds |-> SumTo(userOutcomeShares[m][o], NumUsers)]

\* The three records of a stake agree: for every outcome of every market the
\* reserve, the total of shares and the sum of the shares of all accounts are
\* equal, so that a payout divides the reserves among all who staked.
StakesAgree ==
  /\ totalOutcomeShares = outcomeReserves
  /\ \A m \in MarketIds : OutcomeShares(m) = outcomeReserves[m]

IsOwed(m, u) ==
  markets[m].status = "Resolved" /\ ~hasClaimed[m][u] /\ WinningShares(m, u) > 0

\* What an account has won in a market and not been paid.
Winnings(m, u) == IF IsOwed(m, u) THEN Payout(m, u) ELSE 0

UnpaidWinnings(m) == SumTo([u \in Users |-> Winnings(m, u)], NumUsers)

\* The part of the balance that belongs to the bettors of a market: all
\* stakes until it is resolved, the winnings not paid yet from then on.
OwedBy(m) == IF markets[m].status = "Resolved" THEN UnpaidWinnings(m) ELSE TotalPayout(m)

\* All markets share one balance.  It always covers the open stakes and the
\* unpaid winnings of every market together, besides the fees that stayed:
\* no claim in one market is paid from the stakes of another.
Solvent ==
  SumTo([m \in MarketIds |-> OwedBy(m)], MaxMarkets) + feesKept <= usdcBalance

\* A winner is never paid less than the stake, though a payout that does not
\* come out even is floored (claimWinnings multiplies before it divides).
WinnersKeepStake ==
  \A m \in MarketIds, u \in Users :
    IsOwed(m, u) => Payout(m, u) >= WinningShares(m, u)

\* The stakes of a market are fixed from its end on, before anybody can
\* know the winner; only the resolution comes later.
StakesFixedAtEnd ==
  [][\A m \in MarketIds :
       Exists(m) /\ now >= markets[m].endTime =>
         /\ outcomeReserves'[m] = outcomeReserves[m]
         /\ userOutcomeShares'[m] = userOutcomeShares[m]
         /\ totalOutcomeShares'[m] = totalOutcomeShares[m]]_vars

\* The winnings of an account never change, whatever others claim and the
\* owner does, except by being paid to it in full.
WinningsKeptUntilPaid ==
  [][\A m \in MarketIds, u \in Users :
       Winnings(m, u) > 0 =>
         \/ Winnings(m, u)' = Winnings(m, u)
         \/ /\ Winnings(m, u)' = 0
            /\ usdcBalance' = usdcBalance - Winnings(m, u)]_vars

\* The factory's volume of a creator is the volume of all the creator's
\* markets: two contracts add up the same bets independently.
VolumeReported ==
  \A c \in Users :
    creatorTotalVolume[c] =
      SumTo([m \in MarketIds |-> IF markets[m].creator = c
                                 THEN markets[m].totalVolume ELSE 0], MaxMarkets)

\* The probabilities shown for the outcomes of a market with stakes add up to
\* one, less than a basis point short for each outcome.
ProbabilitiesAddUp ==
  \A m \in MarketIds :
    LET total == SumTo([o \in OutcomeIds |-> getOutcomeProbability(m, o)],
                       markets[m].outcomes)
    IN  TotalPayout(m) > 0 =>
          /\ total <= BPS_DENOMINATOR
          /\ total > BPS_DENOMINATOR - markets[m].outcomes

=============================================================================
