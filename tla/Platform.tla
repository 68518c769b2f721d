------------------------------ MODULE Platform ------------------------------
(***************************************************************************)
(* The deployment of scripts/deploy-mainnet.ts: the OpinionMarket contract *)
(* with its factory, and the FeeCollector as its platform fee collector,   *)
(* until the owner names another address.  placeBet pays the platform fee  *)
(* by a plain USDC transfer to the collector, and so do others: a          *)
(* CreatorShare contract whose withdrawPlatformFees names the collector,   *)
(* or anybody.                                                             *)
(***************************************************************************)
EXTENDS OpinionMarket

CONSTANTS
  Operators,   \* accounts that may deposit fees by hand and be paid fees
  BetAmounts,  \* amounts of a bet
  MaxVolume,   \* bound: the sum of all bets
  MaxDeposits, \* bound: fees deposited by hand
  MaxReceived, \* bound: USDC sent to the collector by others than the market
  MaxTime      \* bound: the last block

ASSUME PlatformAssumption ==
  /\ BetAmounts \subseteq Nat
  /\ MaxDeposits \in Nat
  /\ MaxReceived \in Nat

VARIABLES
  totalShareFees, totalMarketFees, whitelistedDepositors,
  collectorBalance, withdrawn,           \* the collector's
  platformFeesSent,                      \* history: fees sent to it by bets
  received                               \* history: USDC sent to it by others

collectorVars == <<totalShareFees, totalMarketFees, whitelistedDepositors,
                   collectorBalance, withdrawn>>
platformVars  == <<vars, collectorVars, platformFeesSent, received>>

FeeCollectorAddress == "FeeCollector"

collector == INSTANCE FeeCollector
               WITH Depositors <- Operators \union {self},
                    Recipients <- Operators \union {FeeCollectorAddress}

AllVolume == SumTo([m \in MarketIds |-> markets[m].totalVolume], MaxMarkets)

PlatformInit ==
  /\ Init
  /\ platformFeeCollector = FeeCollectorAddress
  /\ collector!Init
  /\ platformFeesSent = 0
  /\ received = 0

\* A bet together with the transfer of the platform fee it makes.
Bet(m, u, o, amount) ==
  /\ placeBet(m, u, o, amount)
  /\ IF platformFeeCollector = FeeCollectorAddress
     THEN /\ collector!receive(PlatformFee(amount))
          /\ platformFeesSent' = platformFeesSent + PlatformFee(amount)
     ELSE UNCHANGED <<collectorVars, platformFeesSent>>
  /\ UNCHANGED received

\* A transaction sent to the collector.  OpinionMarket, though the deployment
\* whitelists it, has no code that calls a deposit function.
CollectorStep ==
  /\ \/ \E d \in Operators, amount \in 1 .. MaxDeposits - collector!getTotalFees :
          collector!depositShareFees(d, amount)
     \/ \E d \in Operators, amount \in 1 .. MaxDeposits - collector!getTotalFees :
          collector!depositMarketFees(d, amount)
     \/ \E r \in Operators \union {FeeCollectorAddress}, amount \in 1 .. collectorBalance :
          collector!withdraw(r, amount)
     \/ \E d \in Operators \union {self} : collector!addDepositor(d)
     \/ \E d \in Operators \union {self} : collector!removeDepositor(d)
  /\ UNCHANGED <<vars, platformFeesSent, received>>

\* USDC sent to the collector by anybody but the market.
Transfer ==
  /\ \E amount \in 1 .. MaxReceived - received :
       collector!receive(amount) /\ received' = received + amount
  /\ UNCHANGED <<vars, platformFeesSent>>

MarketStep == Step /\ UNCHANGED <<collectorVars, platformFeesSent, received>>

PlatformNext ==
  \/ MarketStep
  \/ \E m \in MarketIds, u \in Users, o \in OutcomeIds, amount \in BetAmounts :
       AllVolume + amount <= MaxVolume /\ Bet(m, u, o, amount)
  \/ now < MaxTime /\ Tick /\ UNCHANGED <<collectorVars, platformFeesSent, received>>
  \/ CollectorStep
  \/ Transfer

PlatformSpec == PlatformInit /\ [][PlatformNext]_platformVars

\* Transactions keep being sent as long as any has an effect.
FairPlatformSpec == PlatformSpec /\ WF_platformVars(PlatformNext)

-----------------------------------------------------------------------------

\* Every unit of USDC the collector holds or has paid out to others is a
\* deposit it counted, the fee of a bet that named it at the time, or was sent
\* to it; no withdrawal, one to itself included, loses or invents any.
FeesAccountedFor ==
  collectorBalance + withdrawn = collector!getTotalFees + platformFeesSent + received

\* The totals are histories (docs/FeeCollector.md): they never decrease, and
\* deposits are the only way they grow.
TotalsAreHistories ==
  [][/\ totalShareFees' >= totalShareFees
     /\ totalMarketFees' >= totalMarketFees
     /\ collector!getTotalFees' - collector!getTotalFees
          <= collectorBalance' - collectorBalance + (withdrawn' - withdrawn)]_platformVars

\* contracts/FeeCollector.sol lines 23-24: totalMarketFees is the "total fees
\* collected from OpinionMarket contracts".
MarketFeesCounted == totalMarketFees >= platformFeesSent

\* contracts/OpinionMarket.sol line 492: the shareholder fee "stays in
\* contract, will be distributed via CreatorShare dividends".  Then USDC held
\* beyond the bettors' money does not stay for ever.
FeesHeld == usdcBalance - SumTo([m \in MarketIds |-> OwedBy(m)], MaxMarkets)

ShareholderFeesDistributed == (FeesHeld > 0) ~> (FeesHeld = 0)
=============================================================================
