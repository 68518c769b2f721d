------------------------ MODULE OpinionMarketProofs -------------------------
(***************************************************************************)
(* The safety of the betting contract, for every number of accounts and of *)
(* markets, all durations and amounts and every threshold of the factory.  *)
(***************************************************************************)
EXTENDS Platform, SumsProofs

\* Nothing was staked in a market that does not exist yet.
UnwrittenIsEmpty ==
  \A m \in MarketIds : m >= nextMarketId =>
    \A o \in OutcomeIds : outcomeReserves[m][o] = 0

\* The inductive invariant.
IInv ==
  /\ TypeOK
  /\ UnwrittenIsEmpty
  /\ StakesAgree
  /\ Solvent
  /\ VolumeReported

Owed == [m \in MarketIds |-> OwedBy(m)]

-----------------------------------------------------------------------------
(* Numbers. *)

LEMMA Floor ==
  ASSUME NEW a \in Nat, NEW d \in Nat \ {0}
  PROVE  /\ a \div d \in Nat
         /\ d * (a \div d) <= a
         /\ a < d * (a \div d) + d
OBVIOUS

\* The two parts that are paid out never exceed the fee withheld, nor the
\* fee the amount.
LEMMA FeeParts ==
  ASSUME NEW amount \in Nat
  PROVE  /\ TotalFee(amount) \in Nat /\ PlatformFee(amount) \in Nat
         /\ CreatorFee(amount) \in Nat
         /\ AmountAfterFee(amount) \in Nat
         /\ PlatformFee(amount) + CreatorFee(amount) <= TotalFee(amount)
         /\ amount = AmountAfterFee(amount) + TotalFee(amount)
BY DEF TotalFee, PlatformFee, CreatorFee, AmountAfterFee, Bps, BPS_DENOMINATOR,
       TOTAL_FEE_BPS, PLATFORM_FEE_BPS, CREATOR_FEE_BPS

LEMMA Ranges ==
  /\ NumUsers \in Nat /\ Users = 1 .. NumUsers
  /\ MaxMarkets \in Nat /\ MarketIds = 1 .. MaxMarkets
  /\ OutcomeIds = 1 .. 4
BY MarketAssumption DEF Users, MarketIds, OutcomeIds, MAX_OUTCOMES

LEMMA UnwrittenType == Unwritten \in Market
BY Ranges DEF Unwritten, Market, Status, NoMarket

LEMMA MarketType ==
  ASSUME TypeOK, NEW m \in MarketIds
  PROVE  /\ markets[m] \in Market
         /\ markets[m].outcomes \in Nat
         /\ 1 .. markets[m].outcomes \subseteq OutcomeIds
         /\ markets[m].winningOutcome \in OutcomeIds
         /\ \A o \in OutcomeIds : outcomeReserves[m][o] \in Nat /\ totalOutcomeShares[m][o] \in Nat
         /\ \A o \in OutcomeIds, u \in Users : userOutcomeShares[m][o][u] \in Nat
<1>1. markets[m] \in Market
  BY DEF TypeOK
<1>2. markets[m].outcomes \in Nat /\ markets[m].outcomes <= 4
  <2>1. CASE m < nextMarketId
    <3>1. markets[m].outcomes \in MIN_OUTCOMES .. MAX_OUTCOMES
      BY <2>1 DEF TypeOK
    <3> QED BY <3>1 DEF MIN_OUTCOMES, MAX_OUTCOMES
  <2>2. CASE ~(m < nextMarketId)
    BY <2>2 DEF TypeOK, Unwritten
  <2> QED BY <2>1, <2>2
<1>5. 1 .. markets[m].outcomes \subseteq OutcomeIds
  <2> DEFINE n == markets[m].outcomes
  <2> HIDE DEF n
  <2>1. n \in Nat /\ n <= 4
    BY <1>2 DEF n
  <2> QED BY <2>1, Ranges DEF n
<1>3. markets[m].winningOutcome \in OutcomeIds
  BY <1>1 DEF Market
<1>4. /\ \A o \in OutcomeIds : outcomeReserves[m][o] \in Nat /\ totalOutcomeShares[m][o] \in Nat
      /\ \A o \in OutcomeIds, u \in Users : userOutcomeShares[m][o][u] \in Nat
  BY DEF TypeOK
<1> QED BY <1>1, <1>2, <1>3, <1>4, <1>5

LEMMA TotalPayoutNat ==
  ASSUME TypeOK, NEW m \in MarketIds
  PROVE  TotalPayout(m) \in Nat
<1>1. /\ markets[m].outcomes \in Nat
      /\ \A o \in 1 .. markets[m].outcomes : outcomeReserves[m][o] \in Nat
  BY MarketType
<1> QED BY <1>1, SumToNat DEF TotalPayout

\* The stakes on an outcome are the shares in it, and each account's is a
\* part of them.
LEMMA SharesOfOutcome ==
  ASSUME TypeOK, StakesAgree, NEW m \in MarketIds, NEW o \in OutcomeIds
  PROVE  /\ outcomeReserves[m][o] = totalOutcomeShares[m][o]
         /\ totalOutcomeShares[m][o] = SumTo(userOutcomeShares[m][o], NumUsers)
         /\ \A u \in Users : userOutcomeShares[m][o][u] <= totalOutcomeShares[m][o]
<1>1. outcomeReserves[m][o] = totalOutcomeShares[m][o]
  BY DEF StakesAgree
<1>2. totalOutcomeShares[m][o] = SumTo(userOutcomeShares[m][o], NumUsers)
  BY <1>1 DEF StakesAgree, OutcomeShares
<1>3. ASSUME NEW u \in Users
      PROVE  userOutcomeShares[m][o][u] <= totalOutcomeShares[m][o]
  <2> DEFINE f == userOutcomeShares[m][o]
  <2>1. NumUsers \in Nat /\ u \in 1 .. NumUsers /\ \A v \in 1 .. NumUsers : f[v] \in Nat
    BY Ranges, MarketType
  <2> HIDE DEF f
  <2>2. f[u] <= SumTo(f, NumUsers)
    BY <2>1, SumToTerm
  <2> QED BY <1>2, <2>2 DEF f
<1> QED BY <1>1, <1>2, <1>3

\* Every outcome's reserve is a part of the pot.
LEMMA ReserveInPot ==
  ASSUME TypeOK, NEW m \in MarketIds, NEW o \in 1 .. markets[m].outcomes
  PROVE  outcomeReserves[m][o] <= TotalPayout(m)
<1>1. /\ markets[m].outcomes \in Nat
      /\ \A p \in 1 .. markets[m].outcomes : outcomeReserves[m][p] \in Nat
  BY MarketType
<1> QED BY <1>1, SumToTerm DEF TotalPayout

\* Winnings divide the pot in proportion to the shares, rounded down.
LEMMA WinningsBounds ==
  ASSUME TypeOK, StakesAgree, NEW m \in MarketIds, NEW u \in Users
  PROVE  /\ Winnings(m, u) \in Nat
         /\ WinningShares(m, u) \in Nat
         /\ WinningShares(m, u) = 0 => Winnings(m, u) = 0
         /\ TotalWinningShares(m) * Winnings(m, u) <= TotalPayout(m) * WinningShares(m, u)
<1> DEFINE T == TotalPayout(m)
           s == WinningShares(m, u)
           W == TotalWinningShares(m)
<1>1. T \in Nat
  BY TotalPayoutNat
<1>2. s \in Nat /\ W \in Nat /\ s <= W
  BY MarketType, SharesOfOutcome DEF WinningShares, TotalWinningShares
<1>3. Payout(m, u) = (T * s) \div W
  BY DEF Payout
<1>4. IsOwed(m, u) => s > 0
  BY DEF IsOwed
<1> HIDE DEF T, s, W
<1>5. T * s \in Nat
  BY <1>1, <1>2
<1>6. CASE IsOwed(m, u)
  <2>1. Winnings(m, u) = (T * s) \div W
    BY <1>3, <1>6 DEF Winnings
  <2>2. W \in Nat \ {0} /\ s # 0
    BY <1>2, <1>4, <1>6
  <2>3. (T * s) \div W \in Nat /\ W * ((T * s) \div W) <= T * s
    BY <1>5, <2>2, Floor
  <2> QED BY <1>2, <2>1, <2>2, <2>3 DEF T, s, W
<1>7. CASE ~IsOwed(m, u)
  <2>1. Winnings(m, u) = 0
    BY <1>7 DEF Winnings
  <2>2. W * 0 <= T * s
    BY <1>2, <1>5
  <2> QED BY <1>2, <2>1, <2>2 DEF T, s, W
<1> QED BY <1>6, <1>7

\* So the winnings of all accounts together are at most the pot.
LEMMA UnpaidWithinPot ==
  ASSUME TypeOK, StakesAgree, NEW m \in MarketIds
  PROVE  UnpaidWinnings(m) \in Nat /\ UnpaidWinnings(m) <= TotalPayout(m)
<1> DEFINE w == markets[m].winningOutcome
           share == userOutcomeShares[m][w]
           part == [u \in Users |-> Winnings(m, u)]
           pot == TotalPayout(m)
<1>1. NumUsers \in Nat /\ Users = 1 .. NumUsers /\ pot \in Nat /\ w \in OutcomeIds
  BY Ranges, TotalPayoutNat, MarketType
<1>2. TotalWinningShares(m) = SumTo(share, NumUsers)
  BY <1>1, SharesOfOutcome DEF TotalWinningShares
<1>3. \A u \in Users : WinningShares(m, u) = share[u] /\ part[u] = Winnings(m, u)
  BY DEF WinningShares
<1>4. UnpaidWinnings(m) = SumTo(part, NumUsers)
  BY DEF UnpaidWinnings
<1>5. ASSUME NEW u \in Users
      PROVE  /\ share[u] \in Nat /\ part[u] \in Nat
             /\ SumTo(share, NumUsers) * part[u] <= pot * share[u]
             /\ share[u] = 0 => part[u] = 0
  BY <1>2, <1>3, WinningsBounds
<1> HIDE DEF w, share, part, pot
<1>6. SumTo(part, NumUsers) <= pot
  BY <1>1, <1>5, SumToParts
<1>7. SumTo(part, NumUsers) \in Nat
  BY <1>1, <1>5, SumToNat
<1> QED BY <1>4, <1>6, <1>7 DEF pot

PotCoversWinnings ==
  \A m \in MarketIds : UnpaidWinnings(m) \in Nat /\ UnpaidWinnings(m) <= TotalPayout(m)

LEMMA PotSuffices == TypeOK /\ StakesAgree => PotCoversWinnings
BY UnpaidWithinPot DEF PotCoversWinnings

LEMMA OwedNat ==
  ASSUME TypeOK, StakesAgree
  PROVE  /\ \A m \in MarketIds : OwedBy(m) \in Nat
         /\ SumTo(Owed, MaxMarkets) \in Nat
<1>1. \A m \in MarketIds : OwedBy(m) \in Nat
  BY UnpaidWithinPot, TotalPayoutNat DEF OwedBy
<1>2. MaxMarkets \in Nat /\ \A m \in 1 .. MaxMarkets : Owed[m] \in Nat
  BY <1>1, Ranges DEF Owed
<1> QED BY <1>1, <1>2, SumToNat

\* A winner is never paid less than the stake.
LEMMA KeepStake == TypeOK /\ StakesAgree => WinnersKeepStake
<1> SUFFICES ASSUME TypeOK, StakesAgree, NEW m \in MarketIds, NEW u \in Users, IsOwed(m, u)
             PROVE  Payout(m, u) >= WinningShares(m, u)
  BY DEF WinnersKeepStake
<1> DEFINE T == TotalPayout(m)
           s == WinningShares(m, u)
           W == TotalWinningShares(m)
<1>1. T \in Nat
  BY TotalPayoutNat
<1>2. s \in Nat \ {0} /\ W \in Nat \ {0}
  <2>1. s \in Nat /\ W \in Nat /\ s <= W
    BY MarketType, SharesOfOutcome DEF WinningShares, TotalWinningShares
  <2>2. s > 0
    BY DEF IsOwed
  <2> HIDE DEF s, W
  <2> QED BY <2>1, <2>2
<1>3. W <= T
  <2>1. m < nextMarketId
    BY DEF IsOwed, TypeOK, Unwritten
  <2>2. markets[m].winningOutcome \in 1 .. markets[m].outcomes
    <3>1. markets[m].winningOutcome <= markets[m].outcomes
      BY <2>1 DEF TypeOK
    <3>2. markets[m].winningOutcome \in 1 .. 4 /\ markets[m].outcomes \in Nat
      BY MarketType, Ranges
    <3> QED BY <3>1, <3>2
  <2>3. W = outcomeReserves[m][markets[m].winningOutcome]
    BY DEF StakesAgree, TotalWinningShares
  <2> QED BY <2>2, <2>3, ReserveInPot
<1>4. Payout(m, u) = (T * s) \div W
  BY DEF Payout
<1> HIDE DEF T, s, W
<1>5. (T * s) \div W >= s
  <2> DEFINE q == (T * s) \div W
  <2>1. T * s \in Nat /\ W * s <= T * s
    BY <1>1, <1>2, <1>3
  <2>2. q \in Nat /\ T * s < W * q + W
    BY <1>2, <2>1, Floor
  <2> HIDE DEF q
  <2>3. W * s < W * (q + 1)
    BY <1>1, <1>2, <2>1, <2>2
  <2>4. \A x, y \in Nat : x >= y => W * x >= W * y
    BY <1>2
  <2>5. s < q + 1
    BY <1>2, <2>2, <2>3, <2>4
  <2> QED BY <1>2, <2>2, <2>5 DEF q
<1> QED BY <1>4, <1>5 DEF s

-----------------------------------------------------------------------------
(* Frames: what a step leaves alone. *)

\* The money owed in a market depends on its stakes, claims and outcome alone.
LEMMA MarketKept ==
  ASSUME NEW m \in MarketIds,
         markets'[m].status = markets[m].status,
         markets'[m].outcomes = markets[m].outcomes,
         markets'[m].winningOutcome = markets[m].winningOutcome,
         outcomeReserves'[m] = outcomeReserves[m],
         userOutcomeShares'[m] = userOutcomeShares[m],
         totalOutcomeShares'[m] = totalOutcomeShares[m],
         hasClaimed'[m] = hasClaimed[m]
  PROVE  /\ \A u \in Users : Winnings(m, u)' = Winnings(m, u)
         /\ OwedBy(m)' = OwedBy(m)
<1>1. TotalPayout(m)' = TotalPayout(m)
  BY DEF TotalPayout
<1>2. ASSUME NEW u \in Users PROVE Winnings(m, u)' = Winnings(m, u)
  <2>1. /\ WinningShares(m, u)' = WinningShares(m, u)
        /\ TotalWinningShares(m)' = TotalWinningShares(m)
    BY DEF WinningShares, TotalWinningShares
  <2>2. IsOwed(m, u)' <=> IsOwed(m, u)
    BY <2>1 DEF IsOwed
  <2>3. Payout(m, u)' = Payout(m, u)
    BY <1>1, <2>1 DEF Payout
  <2> QED BY <2>2, <2>3 DEF Winnings
<1>3. UnpaidWinnings(m)' = UnpaidWinnings(m)
  BY <1>2 DEF UnpaidWinnings
<1> QED BY <1>1, <1>2, <1>3 DEF OwedBy

\* When one market changes, the sum of all debts changes by its own.
LEMMA OneDebtChanges ==
  ASSUME TypeOK, StakesAgree, NEW k \in MarketIds, OwedBy(k)' \in Int,
         \A m \in MarketIds : m # k => OwedBy(m)' = OwedBy(m)
  PROVE  SumTo(Owed, MaxMarkets)' = SumTo(Owed, MaxMarkets) + (OwedBy(k)' - OwedBy(k))
<1> DEFINE f == Owed
           g == Owed'
<1>1. MaxMarkets \in Nat /\ k \in 1 .. MaxMarkets /\ MarketIds = 1 .. MaxMarkets
  BY Ranges
<1>2. \A m \in 1 .. MaxMarkets : f[m] \in Int
  BY <1>1, OwedNat DEF Owed
<1>3. f[k] = OwedBy(k) /\ g[k] = OwedBy(k)' /\ g[k] \in Int
  BY DEF Owed
<1>4. \A m \in 1 .. MaxMarkets : m # k => g[m] = f[m]
  BY <1>1 DEF Owed
<1> HIDE DEF f, g
<1>5. SumTo(g, MaxMarkets) = SumTo(f, MaxMarkets) + (g[k] - f[k])
  <2>1. MaxMarkets \in Nat /\ k \in 1 .. MaxMarkets /\ g[k] \in Int
    BY <1>1, <1>3
  <2> QED BY ONLY <2>1, <1>2, <1>4, SumToUpdate, SMTT(30)
<1> QED BY <1>3, <1>5 DEF f, g

LEMMA AllDebtsKept ==
  ASSUME \A m \in MarketIds : OwedBy(m)' = OwedBy(m)
  PROVE  SumTo(Owed, MaxMarkets)' = SumTo(Owed, MaxMarkets)
<1> DEFINE f == Owed
           g == Owed'
<1>1. MaxMarkets \in Nat /\ \A m \in 1 .. MaxMarkets : g[m] = f[m]
  BY Ranges DEF Owed
<1> HIDE DEF f, g
<1>2. SumTo(g, MaxMarkets) = SumTo(f, MaxMarkets)
  BY <1>1, SumToSame
<1> QED BY <1>2 DEF f, g

\* Writing one market keeps the markets well-formed.
LEMMA MarketWritten ==
  ASSUME TypeOK, NEW k \in MarketIds, NEW r \in Market,
         markets' = [markets EXCEPT ![k] = r],
         nextMarketId' \in 1 .. MaxMarkets + 1,
         k < nextMarketId',
         \A m \in MarketIds : m # k => (m < nextMarketId' <=> m < nextMarketId),
         r.id = k, r.creator \in Users,
         r.outcomes \in MIN_OUTCOMES .. MAX_OUTCOMES,
         r.winningOutcome <= r.outcomes
  PROVE  /\ markets' \in [MarketIds -> Market]
         /\ \A m \in MarketIds :
              IF m < nextMarketId'
              THEN /\ markets'[m].id = m
                   /\ markets'[m].creator \in Users
                   /\ markets'[m].outcomes \in MIN_OUTCOMES .. MAX_OUTCOMES
                   /\ markets'[m].winningOutcome <= markets'[m].outcomes
              ELSE markets'[m] = Unwritten
<1>1. /\ markets' \in [MarketIds -> Market]
      /\ markets'[k] = r
      /\ \A m \in MarketIds : m # k => markets'[m] = markets[m]
  BY DEF TypeOK
<1>2. SUFFICES ASSUME NEW m \in MarketIds
               PROVE  IF m < nextMarketId'
                      THEN /\ markets'[m].id = m
                           /\ markets'[m].creator \in Users
                           /\ markets'[m].outcomes \in MIN_OUTCOMES .. MAX_OUTCOMES
                           /\ markets'[m].winningOutcome <= markets'[m].outcomes
                      ELSE markets'[m] = Unwritten
  BY <1>1
<1>3. CASE m = k
  BY <1>1, <1>3
<1>4. CASE m # k
  <2>1. markets'[m] = markets[m] /\ (m < nextMarketId' <=> m < nextMarketId)
    BY <1>1, <1>4
  <2>2. IF m < nextMarketId
        THEN /\ markets[m].id = m
             /\ markets[m].creator \in Users
             /\ markets[m].outcomes \in MIN_OUTCOMES .. MAX_OUTCOMES
             /\ markets[m].winningOutcome <= markets[m].outcomes
        ELSE markets[m] = Unwritten
    BY DEF TypeOK
  <2> QED BY ONLY <2>1, <2>2
<1> QED BY <1>3, <1>4

\* An id below nextMarketId is the id of a market, and only such an id.
LEMMA ExistsBelowNext ==
  ASSUME TypeOK, NEW m \in MarketIds
  PROVE  Exists(m) <=> m < nextMarketId
<1>1. m \in Nat /\ m # 0 /\ nextMarketId \in Nat
  BY Ranges DEF TypeOK
<1>2. CASE m < nextMarketId
  BY <1>1, <1>2 DEF TypeOK, Exists, NoMarket
<1>3. CASE ~(m < nextMarketId)
  BY <1>1, <1>3 DEF TypeOK, Exists, NoMarket, Unwritten
<1> QED BY <1>2, <1>3

\* The volumes of the creators' markets.
LEMMA VolumesKept ==
  ASSUME VolumeReported, UNCHANGED creatorTotalVolume,
         \A m \in MarketIds, c \in Users :
           (IF markets'[m].creator = c THEN markets'[m].totalVolume ELSE 0)
             = (IF markets[m].creator = c THEN markets[m].totalVolume ELSE 0)
  PROVE  VolumeReported'
<1> SUFFICES ASSUME NEW c \in Users
             PROVE  creatorTotalVolume'[c]
                      = SumTo([m \in MarketIds |-> IF markets'[m].creator = c
                                                   THEN markets'[m].totalVolume ELSE 0],
                              MaxMarkets)
  BY DEF VolumeReported
<1> DEFINE f == [m \in MarketIds |-> IF markets[m].creator = c
                                     THEN markets[m].totalVolume ELSE 0]
           g == [m \in MarketIds |-> IF markets'[m].creator = c
                                     THEN markets'[m].totalVolume ELSE 0]
<1>1. MaxMarkets \in Nat /\ \A m \in 1 .. MaxMarkets : g[m] = f[m]
  BY Ranges
<1>2. creatorTotalVolume[c] = SumTo(f, MaxMarkets)
  BY DEF VolumeReported
<1> HIDE DEF f, g
<1>3. SumTo(g, MaxMarkets) = SumTo(f, MaxMarkets)
  BY <1>1, SumToSame
<1>4. creatorTotalVolume'[c] = SumTo(g, MaxMarkets)
  BY <1>2, <1>3
<1> QED BY <1>4 DEF g

-----------------------------------------------------------------------------
(* Every step keeps the invariant. *)

LEMMA InitIInv == Init => IInv
<1> SUFFICES ASSUME Init PROVE IInv
  OBVIOUS
<1>1. TypeOK
  <2>1. Unwritten \in Market
    BY UnwrittenType
  <2>2. markets = [m \in MarketIds |-> Unwritten] /\ nextMarketId = 1
    BY DEF Init
  <2>3. /\ markets \in [MarketIds -> Market]
        /\ nextMarketId \in 1 .. MaxMarkets + 1
        /\ \A m \in MarketIds : ~(m < nextMarketId) /\ markets[m] = Unwritten
    BY <2>1, <2>2, Ranges
  <2>4. /\ outcomeReserves \in [MarketIds -> [OutcomeIds -> Nat]]
        /\ totalOutcomeShares \in [MarketIds -> [OutcomeIds -> Nat]]
    BY DEF Init
  <2>5. userOutcomeShares \in [MarketIds -> [OutcomeIds -> [Users -> Nat]]]
    BY DEF Init
  <2>6. hasClaimed \in [MarketIds -> [Users -> BOOLEAN]]
    BY DEF Init
  <2>7. factory!FactoryTypeOK
    BY DEF Init, factory!FactoryInit, factory!FactoryTypeOK, factory!NoContract
  <2>8. /\ platformFeeCollector \in Collectors
        /\ usdcBalance \in Nat /\ feesKept \in Nat /\ now \in Nat
    BY DEF Init
  <2> QED BY <2>3, <2>4, <2>5, <2>6, <2>7, <2>8 DEF TypeOK
<1>2. UnwrittenIsEmpty
  BY DEF Init, UnwrittenIsEmpty
<1>3. StakesAgree
  <2> SUFFICES ASSUME NEW m \in MarketIds PROVE OutcomeShares(m) = outcomeReserves[m]
    BY DEF StakesAgree, Init
  <2>1. ASSUME NEW o \in OutcomeIds PROVE SumTo(userOutcomeShares[m][o], NumUsers) = 0
    <3>1. NumUsers \in Nat /\ \A u \in 1 .. NumUsers : userOutcomeShares[m][o][u] = 0
      BY Ranges DEF Init
    <3> QED BY <3>1, SumToZero
  <2> QED BY <2>1 DEF OutcomeShares, Init
<1>4. Solvent
  <2>1. ASSUME NEW m \in MarketIds PROVE OwedBy(m) = 0
    <3>1. markets[m].status # "Resolved" /\ markets[m].outcomes = 0
      BY DEF Init, Unwritten
    <3>2. SumTo(outcomeReserves[m], 0) = 0
      BY SumToEquations
    <3> QED BY <3>1, <3>2 DEF OwedBy, TotalPayout
  <2>2. MaxMarkets \in Nat /\ \A m \in 1 .. MaxMarkets : Owed[m] = 0
    BY <2>1, Ranges DEF Owed
  <2>3. SumTo(Owed, MaxMarkets) = 0
    BY <2>2, SumToZero
  <2> QED BY <2>3 DEF Solvent, Owed, Init
<1>5. VolumeReported
  <2> SUFFICES ASSUME NEW c \in Users
               PROVE  SumTo([m \in MarketIds |-> IF markets[m].creator = c
                                                 THEN markets[m].totalVolume ELSE 0],
                            MaxMarkets) = 0
    BY DEF VolumeReported, Init, factory!FactoryInit
  <2> DEFINE f == [m \in MarketIds |-> IF markets[m].creator = c
                                       THEN markets[m].totalVolume ELSE 0]
  <2>1. MaxMarkets \in Nat /\ \A m \in 1 .. MaxMarkets : f[m] = 0
    BY Ranges DEF Init, Unwritten
  <2> HIDE DEF f
  <2>2. SumTo(f, MaxMarkets) = 0
    BY <2>1, SumToZero
  <2> QED BY <2>2 DEF f
<1> QED BY <1>1, <1>2, <1>3, <1>4, <1>5 DEF IInv

LEMMA FactoryTypeKept ==
  ASSUME TypeOK, UNCHANGED factoryVars
  PROVE  factory!FactoryTypeOK'
BY DEF TypeOK, factory!FactoryTypeOK, factoryVars

\* Steps that touch neither stakes nor money.
LEMMA QuietStepKeepsIInv ==
  ASSUME IInv,
         UNCHANGED <<marketVars, stakeVars, hasClaimed, moneyVars, creatorTotalVolume>>,
         factory!FactoryTypeOK', platformFeeCollector' \in Collectors, now' \in Nat
  PROVE  IInv'
<1> USE DEF IInv
<1>1. UNCHANGED <<markets, nextMarketId, outcomeReserves, userOutcomeShares,
                  totalOutcomeShares, hasClaimed, usdcBalance, feesKept>>
  BY DEF marketVars, stakeVars, moneyVars
<1>2. TypeOK'
  BY <1>1 DEF TypeOK
<1>3. UnwrittenIsEmpty' /\ StakesAgree'
  BY <1>1 DEF UnwrittenIsEmpty, StakesAgree, OutcomeShares
<1>4. SumTo(Owed, MaxMarkets)' = SumTo(Owed, MaxMarkets)
  <2>1. \A m \in MarketIds : OwedBy(m)' = OwedBy(m)
    BY <1>1, MarketKept
  <2> QED BY <2>1, AllDebtsKept
<1>5. Solvent'
  BY <1>1, <1>4 DEF Solvent, Owed
<1>6. VolumeReported'
  BY <1>1, VolumesKept
<1> QED BY <1>2, <1>3, <1>5, <1>6

LEMMA PauseKeepsIInv ==
  ASSUME IInv, NEW m \in MarketIds, pauseMarket(m) \/ unpauseMarket(m)
  PROVE  IInv'
<1> USE DEF IInv
<1>1. /\ UNCHANGED <<nextMarketId, outcomeReserves, userOutcomeShares, totalOutcomeShares,
                     hasClaimed, platformFeeCollector, factoryVars, usdcBalance, feesKept, now>>
      /\ Exists(m)
  BY DEF pauseMarket, unpauseMarket, stakeVars, moneyVars
<1>2. PICK b \in BOOLEAN : markets' = [markets EXCEPT ![m] = [markets[m] EXCEPT !.paused = b]]
  BY DEF pauseMarket, unpauseMarket
<1> DEFINE r == [markets[m] EXCEPT !.paused = b]
<1>3. /\ markets[m] \in Market /\ r \in Market
      /\ r.id = markets[m].id /\ r.creator = markets[m].creator
      /\ r.outcomes = markets[m].outcomes /\ r.status = markets[m].status
      /\ r.winningOutcome = markets[m].winningOutcome
      /\ r.totalVolume = markets[m].totalVolume
  BY MarketType DEF Market
<1> HIDE DEF r
<1>4. m < nextMarketId
  BY <1>1, ExistsBelowNext
<1>5. \A k \in MarketIds : markets'[k] = IF k = m THEN r ELSE markets[k]
  BY <1>2 DEF TypeOK, r
<1>6. TypeOK'
  <2>1. markets' = [markets EXCEPT ![m] = r]
    BY <1>2 DEF r
  <2>2. /\ nextMarketId' \in 1 .. MaxMarkets + 1
        /\ r.id = m /\ r.creator \in Users
        /\ r.outcomes \in MIN_OUTCOMES .. MAX_OUTCOMES
        /\ r.winningOutcome <= r.outcomes
    BY <1>1, <1>3, <1>4 DEF TypeOK
  <2>3. /\ markets' \in [MarketIds -> Market]
        /\ \A k \in MarketIds :
             IF k < nextMarketId'
             THEN /\ markets'[k].id = k
                  /\ markets'[k].creator \in Users
                  /\ markets'[k].outcomes \in MIN_OUTCOMES .. MAX_OUTCOMES
                  /\ markets'[k].winningOutcome <= markets'[k].outcomes
             ELSE markets'[k] = Unwritten
    BY <1>1, <1>3, <1>4, <2>1, <2>2, MarketWritten
  <2> QED BY <1>1, <2>2, <2>3, FactoryTypeKept DEF TypeOK
<1>7. UnwrittenIsEmpty' /\ StakesAgree'
  BY <1>1 DEF UnwrittenIsEmpty, StakesAgree, OutcomeShares
<1>8. SumTo(Owed, MaxMarkets)' = SumTo(Owed, MaxMarkets)
  <2>1. ASSUME NEW k \in MarketIds PROVE OwedBy(k)' = OwedBy(k)
    BY <1>1, <1>3, <1>5, MarketKept
  <2> QED BY <2>1, AllDebtsKept
<1>9. Solvent'
  BY <1>1, <1>8 DEF Solvent, Owed
<1>10. VolumeReported'
  BY <1>1, <1>3, <1>5, VolumesKept DEF factoryVars
<1> QED BY <1>6, <1>7, <1>9, <1>10

LEMMA CreateKeepsIInv ==
  ASSUME IInv, NEW s \in Users, NEW n \in MIN_OUTCOMES .. MAX_OUTCOMES,
         NEW d \in MIN_DURATION .. MAX_DURATION, createMarket(s, n, d)
  PROVE  IInv'
<1> USE DEF IInv
<1>0. PICK k \in Nat : k = nextMarketId
  BY Ranges DEF TypeOK
<1> DEFINE r == [Unwritten EXCEPT !.id = k, !.creator = s, !.outcomes = n,
                                  !.endTime = now + d]
<1>1. /\ k = nextMarketId
      /\ k <= MaxMarkets
      /\ markets' = [markets EXCEPT ![k] = r]
      /\ nextMarketId' = k + 1
      /\ UNCHANGED <<outcomeReserves, userOutcomeShares, totalOutcomeShares, hasClaimed,
                     platformFeeCollector, factoryVars, usdcBalance, feesKept, now>>
  BY <1>0 DEF createMarket, stakeVars, moneyVars
<1>2. k \in MarketIds /\ s \in Nat /\ now + d \in Nat /\ n \in 2 .. 4
  <2>1. MIN_DURATION \in Nat /\ MAX_DURATION \in Nat
    BY MarketAssumption
  <2>2. now \in Nat /\ nextMarketId \in 1 .. MaxMarkets + 1
    BY DEF TypeOK
  <2>3. k \in MarketIds
    BY <1>1, <2>2, Ranges
  <2>4. s \in Nat /\ now + d \in Nat
    BY <2>1, <2>2, Ranges
  <2> QED BY <2>3, <2>4 DEF MIN_OUTCOMES, MAX_OUTCOMES
<1>3. /\ r \in Market
      /\ r.id = k /\ r.creator = s /\ r.outcomes = n
      /\ r.winningOutcome = 1 /\ r.status = "Active" /\ r.totalVolume = 0
  <2>1. n \in Nat /\ Unwritten \in Market
    BY <1>2, UnwrittenType
  <2>2. /\ Unwritten.winningOutcome = 1 /\ Unwritten.status = "Active"
        /\ Unwritten.totalVolume = 0
    BY DEF Unwritten
  <2> QED BY <1>2, <2>1, <2>2 DEF Market
<1>4. markets[k] = Unwritten
  BY <1>1, <1>2 DEF TypeOK
<1> HIDE DEF r
<1>5. \A m \in MarketIds : markets'[m] = IF m = k THEN r ELSE markets[m]
  BY <1>1 DEF TypeOK
<1>6. TypeOK'
  <2>1. nextMarketId' \in 1 .. MaxMarkets + 1
    BY <1>1, <1>2, Ranges
  <2>2. /\ k < nextMarketId'
        /\ \A m \in MarketIds : m # k => (m < nextMarketId' <=> m < nextMarketId)
    BY <1>1, <1>2, Ranges
  <2>3. /\ r.id = k /\ r.creator \in Users
        /\ r.outcomes \in MIN_OUTCOMES .. MAX_OUTCOMES
        /\ r.winningOutcome <= r.outcomes
    BY <1>2, <1>3
  <2>4. /\ markets' \in [MarketIds -> Market]
        /\ \A m \in MarketIds :
             IF m < nextMarketId'
             THEN /\ markets'[m].id = m
                  /\ markets'[m].creator \in Users
                  /\ markets'[m].outcomes \in MIN_OUTCOMES .. MAX_OUTCOMES
                  /\ markets'[m].winningOutcome <= markets'[m].outcomes
             ELSE markets'[m] = Unwritten
    <3> QED BY <1>1, <1>2, <1>3, <2>1, <2>2, <2>3, MarketWritten
  <2> QED BY <1>1, <2>1, <2>4, FactoryTypeKept DEF TypeOK
<1>7. UnwrittenIsEmpty'
  <2> SUFFICES ASSUME NEW m \in MarketIds, m >= k + 1, NEW o \in OutcomeIds
               PROVE  outcomeReserves[m][o] = 0
    BY <1>1 DEF UnwrittenIsEmpty
  <2>1. m >= nextMarketId
    BY <1>1, Ranges
  <2> QED BY <2>1 DEF UnwrittenIsEmpty
<1>8. StakesAgree'
  BY <1>1 DEF StakesAgree, OutcomeShares
<1>9. SumTo(Owed, MaxMarkets)' = SumTo(Owed, MaxMarkets)
  <2>1. OwedBy(k) = 0
    <3>1. markets[k].status # "Resolved" /\ markets[k].outcomes = 0
      BY <1>4 DEF Unwritten
    <3>2. SumTo(outcomeReserves[k], 0) = 0
      BY SumToEquations
    <3> QED BY <3>1, <3>2 DEF OwedBy, TotalPayout
  <2>2. OwedBy(k)' = 0
    <3>1. markets'[k].status # "Resolved" /\ markets'[k].outcomes = n
      BY <1>2, <1>3, <1>5
    <3>2. SumTo(outcomeReserves[k], n) = 0
      <4>1. n \in Nat /\ 1 .. n \subseteq OutcomeIds
        BY <1>2, Ranges
      <4>2. \A o \in 1 .. n : outcomeReserves[k][o] = 0
        BY <1>1, <1>2, <4>1 DEF UnwrittenIsEmpty
      <4> QED BY <4>1, <4>2, SumToZero
    <3>3. TotalPayout(k)' = SumTo(outcomeReserves'[k], markets'[k].outcomes)
      BY <1>1 DEF TotalPayout
    <3>4. TotalPayout(k)' = 0
      BY <1>1, <3>1, <3>2, <3>3
    <3> QED BY <3>1, <3>4 DEF OwedBy
  <2>3. ASSUME NEW m \in MarketIds PROVE OwedBy(m)' = OwedBy(m)
    <3>1. CASE m = k
      BY <2>1, <2>2, <3>1
    <3>2. CASE m # k
      BY <1>1, <1>5, <3>2, MarketKept
    <3> QED BY <3>1, <3>2
  <2> QED BY <2>3, AllDebtsKept
<1>10. Solvent'
  BY <1>1, <1>9 DEF Solvent, Owed
<1>11. VolumeReported'
  <2>1. ASSUME NEW m \in MarketIds, NEW c \in Users
        PROVE  (IF markets'[m].creator = c THEN markets'[m].totalVolume ELSE 0)
                 = (IF markets[m].creator = c THEN markets[m].totalVolume ELSE 0)
    BY <1>3, <1>4, <1>5 DEF Unwritten
  <2> QED BY <1>1, <2>1, VolumesKept DEF factoryVars
<1> QED BY <1>6, <1>7, <1>8, <1>10, <1>11

LEMMA ResolveKeepsIInv ==
  ASSUME IInv, NEW m \in MarketIds, NEW w \in OutcomeIds, resolveMarket(m, w)
  PROVE  IInv'
<1> USE DEF IInv
<1> DEFINE r == [markets[m] EXCEPT !.status = "Resolved", !.winningOutcome = w]
<1>1. /\ Exists(m) /\ markets[m].status # "Resolved" /\ w <= markets[m].outcomes
      /\ UNCHANGED <<nextMarketId, outcomeReserves, userOutcomeShares, totalOutcomeShares,
                     hasClaimed, platformFeeCollector, factoryVars, usdcBalance, feesKept, now>>
  BY DEF resolveMarket, CanResolve, stakeVars, moneyVars
<1>2. markets' = [markets EXCEPT ![m] = r]
  BY DEF resolveMarket
<1>3. /\ markets[m] \in Market /\ r \in Market
      /\ r.id = markets[m].id /\ r.creator = markets[m].creator
      /\ r.outcomes = markets[m].outcomes /\ r.status = "Resolved"
      /\ r.winningOutcome = w
      /\ r.totalVolume = markets[m].totalVolume
  BY MarketType DEF Market, Status
<1> HIDE DEF r
<1>4. m < nextMarketId
  BY <1>1, ExistsBelowNext
<1>5. \A k \in MarketIds : markets'[k] = IF k = m THEN r ELSE markets[k]
  BY <1>2 DEF TypeOK
<1>6. TypeOK'
  <2>1. /\ nextMarketId' \in 1 .. MaxMarkets + 1
        /\ r.id = m /\ r.creator \in Users
        /\ r.outcomes \in MIN_OUTCOMES .. MAX_OUTCOMES
        /\ r.winningOutcome <= r.outcomes
    BY <1>1, <1>3, <1>4 DEF TypeOK
  <2>2. /\ markets' \in [MarketIds -> Market]
        /\ \A k \in MarketIds :
             IF k < nextMarketId'
             THEN /\ markets'[k].id = k
                  /\ markets'[k].creator \in Users
                  /\ markets'[k].outcomes \in MIN_OUTCOMES .. MAX_OUTCOMES
                  /\ markets'[k].winningOutcome <= markets'[k].outcomes
             ELSE markets'[k] = Unwritten
    BY <1>1, <1>2, <1>3, <1>4, <2>1, MarketWritten
  <2> QED BY <1>1, <2>1, <2>2, FactoryTypeKept DEF TypeOK
<1>7. UnwrittenIsEmpty' /\ StakesAgree'
  BY <1>1 DEF UnwrittenIsEmpty, StakesAgree, OutcomeShares
<1>8. OwedBy(m)' \in Nat /\ OwedBy(m)' <= OwedBy(m)
  <2>1. UnpaidWinnings(m)' \in Nat /\ UnpaidWinnings(m)' <= TotalPayout(m)'
    <3>1. PotCoversWinnings'
      BY <1>6, <1>7, PotSuffices, PTL
    <3> QED BY <3>1 DEF PotCoversWinnings
  <2>2. OwedBy(m)' = UnpaidWinnings(m)'
    BY <1>3, <1>5 DEF OwedBy
  <2>3. OwedBy(m) = TotalPayout(m) /\ TotalPayout(m)' = TotalPayout(m)
    BY <1>1, <1>3, <1>5 DEF OwedBy, TotalPayout
  <2> QED BY <2>1, <2>2, <2>3
<1>9. \A k \in MarketIds : k # m => OwedBy(k)' = OwedBy(k)
  BY <1>1, <1>5, MarketKept
<1>10. SumTo(Owed, MaxMarkets)' = SumTo(Owed, MaxMarkets) + (OwedBy(m)' - OwedBy(m))
  BY <1>8, <1>9, OneDebtChanges
<1>11. Solvent'
  <2>1. SumTo(Owed, MaxMarkets) + feesKept <= usdcBalance
    BY DEF Solvent, Owed
  <2>2. SumTo(Owed, MaxMarkets) \in Nat /\ OwedBy(m) \in Nat
    BY OwedNat
  <2>3. SumTo(Owed, MaxMarkets)' + feesKept' <= usdcBalance'
    BY <1>1, <1>8, <1>10, <2>1, <2>2 DEF TypeOK
  <2> QED BY <2>3 DEF Solvent, Owed
<1>12. VolumeReported'
  BY <1>1, <1>3, <1>5, VolumesKept DEF factoryVars
<1> QED BY <1>6, <1>7, <1>11, <1>12

\* A claim takes from the debt of its market exactly what it pays, and leaves
\* the winnings of everybody else alone.
LEMMA ClaimPays ==
  ASSUME IInv, NEW m \in MarketIds, NEW u \in Users, claimWinnings(m, u)
  PROVE  /\ Payout(m, u) \in Nat
         /\ Winnings(m, u) = Payout(m, u) /\ Winnings(m, u)' = 0
         /\ \A v \in Users : v # u => Winnings(m, v)' = Winnings(m, v)
         /\ OwedBy(m)' = OwedBy(m) - Payout(m, u)
         /\ OwedBy(m)' \in Int
         /\ \A k \in MarketIds : k # m =>
              /\ \A v \in Users : Winnings(k, v)' = Winnings(k, v)
              /\ OwedBy(k)' = OwedBy(k)
<1> USE DEF IInv
<1>1. /\ UNCHANGED <<markets, nextMarketId, outcomeReserves, userOutcomeShares,
                     totalOutcomeShares>>
      /\ IsUnpaidWinner(m, u)
      /\ hasClaimed' = [hasClaimed EXCEPT ![m][u] = TRUE]
  BY DEF claimWinnings, marketVars, stakeVars
<1>2. /\ hasClaimed'[m][u] = TRUE
      /\ \A v \in Users : v # u => hasClaimed'[m][v] = hasClaimed[m][v]
      /\ \A k \in MarketIds : k # m => hasClaimed'[k] = hasClaimed[k]
  BY <1>1 DEF TypeOK
<1>3. \A v \in Users : /\ WinningShares(m, v)' = WinningShares(m, v)
                       /\ Payout(m, v)' = Payout(m, v)
  BY <1>1 DEF WinningShares, Payout, TotalPayout, TotalWinningShares
<1>4. IsOwed(m, u) /\ ~IsOwed(m, u)'
  BY <1>1, <1>2, Zenon DEF IsOwed, IsUnpaidWinner
<1>5. Winnings(m, u) = Payout(m, u) /\ Winnings(m, u)' = 0
  BY <1>4 DEF Winnings
<1>6. ASSUME NEW v \in Users, v # u PROVE Winnings(m, v)' = Winnings(m, v)
  <2>1. IsOwed(m, v)' <=> IsOwed(m, v)
    BY <1>1, <1>2, <1>3, <1>6, Zenon DEF IsOwed
  <2> QED BY <1>3, <2>1 DEF Winnings
<1>7. \A v \in Users : Winnings(m, v) \in Nat
  BY WinningsBounds
<1>8. \A k \in MarketIds : k # m =>
        /\ \A v \in Users : Winnings(k, v)' = Winnings(k, v)
        /\ OwedBy(k)' = OwedBy(k)
  BY <1>1, <1>2, MarketKept
<1>9. UnpaidWinnings(m)' = UnpaidWinnings(m) - Payout(m, u) /\ UnpaidWinnings(m) \in Nat
  <2> DEFINE f == [v \in Users |-> Winnings(m, v)]
             g == f'
  <2>1. NumUsers \in Nat /\ u \in 1 .. NumUsers /\ Users = 1 .. NumUsers
    BY Ranges
  <2>2. (\A v \in 1 .. NumUsers : f[v] \in Int) /\ f[u] = Payout(m, u)
    BY <1>5, <1>7, <2>1
  <2>3. \A v \in 1 .. NumUsers : v # u => g[v] = f[v]
    BY <1>6, <2>1
  <2>4. g[u] = 0
    BY <1>5
  <2>5. UnpaidWinnings(m) = SumTo(f, NumUsers) /\ UnpaidWinnings(m)' = SumTo(g, NumUsers)
    BY DEF UnpaidWinnings
  <2> HIDE DEF f, g
  <2>6. SumTo(g, NumUsers) = SumTo(f, NumUsers) + (g[u] - f[u])
    <3>1. NumUsers \in Nat /\ u \in 1 .. NumUsers /\ g[u] \in Int
      BY <2>1, <2>4
    <3>2. \A v \in 1 .. NumUsers : f[v] \in Int
      BY <2>2
    <3> QED BY ONLY <3>1, <3>2, <2>3, SumToUpdate, SMTT(30)
  <2>7. UnpaidWinnings(m) \in Nat /\ Payout(m, u) \in Nat
    BY <1>5, <1>7, UnpaidWithinPot
  <2> QED BY <2>2, <2>4, <2>5, <2>6, <2>7
<1>10. OwedBy(m) = UnpaidWinnings(m) /\ OwedBy(m)' = UnpaidWinnings(m)'
  BY <1>1 DEF OwedBy, IsUnpaidWinner
<1>11. Payout(m, u) \in Nat
  BY <1>5, <1>7
<1> QED BY <1>5, <1>6, <1>8, <1>9, <1>10, <1>11

LEMMA ClaimKeepsIInv ==
  ASSUME IInv, NEW m \in MarketIds, NEW u \in Users, claimWinnings(m, u)
  PROVE  IInv'
<1> USE DEF IInv
<1>1. /\ UNCHANGED <<markets, nextMarketId, outcomeReserves, userOutcomeShares,
                     totalOutcomeShares, platformFeeCollector, factoryVars, feesKept, now>>
      /\ hasClaimed' = [hasClaimed EXCEPT ![m][u] = TRUE]
      /\ Payout(m, u) <= usdcBalance
      /\ usdcBalance' = usdcBalance - Payout(m, u)
  BY DEF claimWinnings, marketVars, stakeVars
<1>2. TypeOK'
  <2>1. usdcBalance' \in Nat
    <3>1. PICK p \in Nat : p = Payout(m, u)
      BY ClaimPays
    <3> QED BY <1>1, <3>1 DEF TypeOK
  <2>2. hasClaimed' \in [MarketIds -> [Users -> BOOLEAN]]
    BY <1>1 DEF TypeOK
  <2> QED BY <1>1, <2>1, <2>2, FactoryTypeKept DEF TypeOK
<1>3. UnwrittenIsEmpty' /\ StakesAgree'
  BY <1>1 DEF UnwrittenIsEmpty, StakesAgree, OutcomeShares
<1>4. Solvent'
  <2>1. SumTo(Owed, MaxMarkets)' = SumTo(Owed, MaxMarkets) + (OwedBy(m)' - OwedBy(m))
    BY ClaimPays, OneDebtChanges
  <2>2. PICK p \in Nat : /\ p = Payout(m, u)
                         /\ OwedBy(m)' = OwedBy(m) - p
                         /\ usdcBalance' = usdcBalance - p
    BY <1>1, ClaimPays
  <2>3. /\ SumTo(Owed, MaxMarkets) \in Nat /\ OwedBy(m) \in Nat
        /\ usdcBalance \in Nat /\ feesKept \in Nat /\ feesKept' = feesKept
    BY <1>1, OwedNat DEF TypeOK
  <2>4. SumTo(Owed, MaxMarkets) + feesKept <= usdcBalance
    BY DEF Solvent, Owed
  <2>5. SumTo(Owed, MaxMarkets)' + feesKept' <= usdcBalance'
    BY <2>1, <2>2, <2>3, <2>4
  <2> QED BY <2>5 DEF Solvent, Owed
<1>5. VolumeReported'
  BY <1>1, VolumesKept DEF factoryVars
<1> QED BY <1>2, <1>3, <1>4, <1>5

\* A bet adds the same stake to the three records of its outcome.
LEMMA BetStakes ==
  ASSUME IInv, NEW m \in MarketIds, NEW u \in Users, NEW o \in OutcomeIds,
         NEW amount \in Nat, placeBet(m, u, o, amount)
  PROVE  /\ userOutcomeShares' \in [MarketIds -> [OutcomeIds -> [Users -> Nat]]]
         /\ totalOutcomeShares' \in [MarketIds -> [OutcomeIds -> Nat]]
         /\ outcomeReserves' \in [MarketIds -> [OutcomeIds -> Nat]]
         /\ outcomeReserves'[m][o] = outcomeReserves[m][o] + AmountAfterFee(amount)
         /\ \A p \in OutcomeIds : p # o => outcomeReserves'[m][p] = outcomeReserves[m][p]
         /\ \A k \in MarketIds : k # m =>
              /\ outcomeReserves'[k] = outcomeReserves[k]
              /\ userOutcomeShares'[k] = userOutcomeShares[k]
              /\ totalOutcomeShares'[k] = totalOutcomeShares[k]
         /\ StakesAgree'
<1> USE DEF IInv
<1> DEFINE stake == AmountAfterFee(amount)
<1>1. stake \in Nat
  BY FeeParts
<1> HIDE DEF stake
<1>2. /\ userOutcomeShares' = [userOutcomeShares EXCEPT ![m][o][u] = @ + stake]
      /\ totalOutcomeShares' = [totalOutcomeShares EXCEPT ![m][o] = @ + stake]
      /\ outcomeReserves' = [outcomeReserves EXCEPT ![m][o] = @ + stake]
  BY DEF placeBet, calculateShares, stake
<1>3. /\ userOutcomeShares' \in [MarketIds -> [OutcomeIds -> [Users -> Nat]]]
      /\ userOutcomeShares'[m][o][u] = userOutcomeShares[m][o][u] + stake
      /\ \A v \in Users : v # u => userOutcomeShares'[m][o][v] = userOutcomeShares[m][o][v]
      /\ \A p \in OutcomeIds : p # o => userOutcomeShares'[m][p] = userOutcomeShares[m][p]
      /\ \A k \in MarketIds : k # m => userOutcomeShares'[k] = userOutcomeShares[k]
  BY <1>1, <1>2 DEF TypeOK
<1>4. /\ outcomeReserves' \in [MarketIds -> [OutcomeIds -> Nat]]
      /\ outcomeReserves'[m][o] = outcomeReserves[m][o] + stake
      /\ \A p \in OutcomeIds : p # o => outcomeReserves'[m][p] = outcomeReserves[m][p]
      /\ \A k \in MarketIds : k # m => outcomeReserves'[k] = outcomeReserves[k]
  BY <1>1, <1>2 DEF TypeOK
<1>5. totalOutcomeShares' = outcomeReserves'
  BY <1>2 DEF StakesAgree
<1>6. ASSUME NEW p \in OutcomeIds
      PROVE  SumTo(userOutcomeShares'[m][p], NumUsers) = outcomeReserves'[m][p]
  <2>1. SumTo(userOutcomeShares[m][p], NumUsers) = outcomeReserves[m][p]
    BY DEF StakesAgree, OutcomeShares
  <2>2. CASE p # o
    BY <1>3, <1>4, <2>1, <2>2
  <2>3. CASE p = o
    <3> DEFINE f == userOutcomeShares[m][o]
               g == userOutcomeShares'[m][o]
    <3>1. NumUsers \in Nat /\ u \in 1 .. NumUsers /\ Users = 1 .. NumUsers
      BY Ranges
    <3>2. \A v \in 1 .. NumUsers : f[v] \in Int
      BY <3>1, MarketType
    <3>3. g[u] = f[u] + stake /\ f[u] \in Nat /\ g[u] \in Int
      BY <1>1, <1>3, MarketType
    <3>4. \A v \in 1 .. NumUsers : v # u => g[v] = f[v]
      BY <1>3, <3>1
    <3> HIDE DEF f, g
    <3>5. SumTo(g, NumUsers) = SumTo(f, NumUsers) + (g[u] - f[u])
      <4>1. NumUsers \in Nat /\ u \in 1 .. NumUsers /\ g[u] \in Int
        BY <3>1, <3>3
      <4> QED BY ONLY <4>1, <3>2, <3>4, SumToUpdate, SMTT(30)
    <3>6. SumTo(f, NumUsers) = outcomeReserves[m][o] /\ outcomeReserves[m][o] \in Nat
      BY <2>1, <2>3, MarketType DEF f
    <3>7. SumTo(g, NumUsers) = outcomeReserves[m][o] + stake
      BY <1>1, <3>3, <3>5, <3>6
    <3> QED BY <1>4, <2>3, <3>7 DEF g
  <2> QED BY <2>2, <2>3
<1>7. StakesAgree'
  <2> SUFFICES ASSUME NEW k \in MarketIds PROVE OutcomeShares(k)' = outcomeReserves'[k]
    BY <1>5 DEF StakesAgree
  <2>1. CASE k # m
    <3>1. OutcomeShares(k) = outcomeReserves[k]
      BY DEF StakesAgree
    <3>2. OutcomeShares(k)' = OutcomeShares(k)
      BY <1>3, <2>1 DEF OutcomeShares
    <3> QED BY <1>4, <2>1, <3>1, <3>2
  <2>2. CASE k = m
    <3>1. OutcomeShares(m)' = [p \in OutcomeIds |-> SumTo(userOutcomeShares'[m][p], NumUsers)]
      BY DEF OutcomeShares
    <3>2. outcomeReserves'[m] = [p \in OutcomeIds |-> outcomeReserves'[m][p]]
      BY <1>4
    <3> QED BY <1>6, <2>2, <3>1, <3>2
  <2> QED BY <2>1, <2>2
<1>8. /\ totalOutcomeShares' \in [MarketIds -> [OutcomeIds -> Nat]]
      /\ \A k \in MarketIds : k # m => totalOutcomeShares'[k] = totalOutcomeShares[k]
  BY <1>4, <1>5 DEF StakesAgree
<1> QED BY <1>3, <1>4, <1>7, <1>8 DEF stake

\* The factory is told the amount of the bet, which is what its market adds to
\* its own volume.
LEMMA BetVolume ==
  ASSUME IInv, NEW m \in MarketIds, NEW amount \in Nat,
         markets[m].creator \in Users,
         factory!updateCreatorVolume(self, markets[m].creator, amount),
         \A k \in MarketIds :
           /\ markets'[k].creator = markets[k].creator
           /\ markets'[k].totalVolume = markets[k].totalVolume + (IF k = m THEN amount ELSE 0)
  PROVE  factory!FactoryTypeOK' /\ VolumeReported'
<1> USE DEF IInv
<1>0. PICK c0 \in Users : c0 = markets[m].creator
  OBVIOUS
<1>1. /\ creatorTotalVolume' = [creatorTotalVolume EXCEPT ![c0] = creatorTotalVolume[c0] + amount]
      /\ sharesUnlocked' = [sharesUnlocked EXCEPT
            ![c0] = sharesUnlocked[c0]
                      \/ factory!ReachesThreshold(creatorTotalVolume[c0] + amount)]
      /\ UNCHANGED <<creatorShareContract, whitelistedMarkets, allCreatorShares>>
  BY <1>0 DEF factory!updateCreatorVolume, factory!NewVolume
<1>2. factory!FactoryTypeOK
  BY DEF TypeOK
<1>3. creatorTotalVolume' \in [Users -> Nat]
  BY <1>1, <1>2 DEF factory!FactoryTypeOK
<1>4. sharesUnlocked' \in [Users -> BOOLEAN]
  <2>1. factory!ReachesThreshold(creatorTotalVolume[c0] + amount) \in BOOLEAN
    BY DEF factory!ReachesThreshold
  <2> QED BY <1>1, <1>2, <2>1, Zenon DEF factory!FactoryTypeOK
<1>5. factory!FactoryTypeOK'
  BY <1>1, <1>2, <1>3, <1>4 DEF factory!FactoryTypeOK
<1>6. VolumeReported'
  <2> SUFFICES ASSUME NEW c \in Users
               PROVE  creatorTotalVolume'[c]
                        = SumTo([k \in MarketIds |-> IF markets'[k].creator = c
                                                     THEN markets'[k].totalVolume ELSE 0],
                                MaxMarkets)
    BY DEF VolumeReported
  <2> DEFINE f == [k \in MarketIds |-> IF markets[k].creator = c
                                       THEN markets[k].totalVolume ELSE 0]
             g == [k \in MarketIds |-> IF markets'[k].creator = c
                                       THEN markets'[k].totalVolume ELSE 0]
  <2>1. MaxMarkets \in Nat /\ m \in 1 .. MaxMarkets /\ MarketIds = 1 .. MaxMarkets
    BY Ranges
  <2>2. \A k \in MarketIds : markets[k].totalVolume \in Nat
    BY MarketType DEF Market
  <2>3. \A k \in 1 .. MaxMarkets : f[k] \in Int
    BY <2>1, <2>2
  <2>4. \A k \in 1 .. MaxMarkets : k # m => g[k] = f[k]
    BY <2>1, <2>2
  <2>5. g[m] = f[m] + (IF c = c0 THEN amount ELSE 0) /\ g[m] \in Int /\ f[m] \in Int
    BY <1>0, <2>2
  <2>6. creatorTotalVolume[c] = SumTo(f, MaxMarkets) /\ creatorTotalVolume[c] \in Nat
    BY <1>2 DEF VolumeReported, factory!FactoryTypeOK
  <2>7. creatorTotalVolume'[c] = creatorTotalVolume[c] + (IF c = c0 THEN amount ELSE 0)
    BY <1>1, <1>2, <2>6 DEF factory!FactoryTypeOK
  <2> HIDE DEF f, g
  <2>8. SumTo(g, MaxMarkets) = SumTo(f, MaxMarkets) + (g[m] - f[m])
    <3>1. MaxMarkets \in Nat /\ m \in 1 .. MaxMarkets /\ g[m] \in Int
      BY <2>1, <2>5
    <3> QED BY ONLY <3>1, <2>3, <2>4, SumToUpdate, SMTT(30)
  <2>9. creatorTotalVolume'[c] = SumTo(g, MaxMarkets)
    BY <2>5, <2>6, <2>7, <2>8
  <2> QED BY <2>9 DEF g
<1> QED BY <1>5, <1>6

LEMMA BetKeepsIInv ==
  ASSUME IInv, NEW m \in MarketIds, NEW u \in Users, NEW o \in OutcomeIds,
         NEW amount \in Nat, placeBet(m, u, o, amount)
  PROVE  IInv'
<1> USE DEF IInv
<1> DEFINE r == [markets[m] EXCEPT !.totalVolume = @ + amount]
<1>1. /\ Exists(m) /\ markets[m].status = "Active" /\ o <= markets[m].outcomes
      /\ UNCHANGED <<nextMarketId, hasClaimed, platformFeeCollector, now>>
      /\ factory!updateCreatorVolume(self, markets[m].creator, amount)
      /\ usdcBalance' = usdcBalance + amount - PlatformFee(amount) - CreatorFee(amount)
      /\ feesKept' = feesKept + TotalFee(amount) - PlatformFee(amount) - CreatorFee(amount)
  BY DEF placeBet, AcceptsBets
<1>2. markets' = [markets EXCEPT ![m] = r]
  BY DEF placeBet
<1>3. /\ markets[m] \in Market /\ r \in Market
      /\ r.id = markets[m].id /\ r.creator = markets[m].creator
      /\ r.outcomes = markets[m].outcomes /\ r.status = markets[m].status
      /\ r.winningOutcome = markets[m].winningOutcome
      /\ r.totalVolume = markets[m].totalVolume + amount
  BY MarketType DEF Market
<1> HIDE DEF r
<1>4. m < nextMarketId
  BY <1>1, ExistsBelowNext
<1>5. \A k \in MarketIds : markets'[k] = IF k = m THEN r ELSE markets[k]
  BY <1>2 DEF TypeOK
<1>6. /\ userOutcomeShares' \in [MarketIds -> [OutcomeIds -> [Users -> Nat]]]
      /\ totalOutcomeShares' \in [MarketIds -> [OutcomeIds -> Nat]]
      /\ outcomeReserves' \in [MarketIds -> [OutcomeIds -> Nat]]
      /\ outcomeReserves'[m][o] = outcomeReserves[m][o] + AmountAfterFee(amount)
      /\ \A p \in OutcomeIds : p # o => outcomeReserves'[m][p] = outcomeReserves[m][p]
      /\ \A k \in MarketIds : k # m =>
           /\ outcomeReserves'[k] = outcomeReserves[k]
           /\ userOutcomeShares'[k] = userOutcomeShares[k]
           /\ totalOutcomeShares'[k] = totalOutcomeShares[k]
      /\ StakesAgree'
  BY BetStakes
<1>7. factory!FactoryTypeOK' /\ VolumeReported'
  <2>1. markets[m].creator \in Users
    BY <1>4 DEF TypeOK
  <2>2. \A k \in MarketIds :
          /\ markets'[k].creator = markets[k].creator
          /\ markets'[k].totalVolume = markets[k].totalVolume + (IF k = m THEN amount ELSE 0)
    BY <1>3, <1>5, MarketType DEF Market
  <2> QED BY <1>1, <2>1, <2>2, BetVolume
<1>8. PICK stake \in Nat, fee \in Nat, paid \in Nat :
        /\ stake = AmountAfterFee(amount) /\ amount = stake + fee /\ paid <= fee
        /\ usdcBalance' = usdcBalance + amount - paid
        /\ feesKept' = feesKept + fee - paid
  <2> DEFINE p == PlatformFee(amount)
             c == CreatorFee(amount)
             f == TotalFee(amount)
             s == AmountAfterFee(amount)
  <2>1. /\ p \in Nat /\ c \in Nat /\ f \in Nat /\ s \in Nat
        /\ p + c <= f /\ amount = s + f
    BY FeeParts
  <2>2. /\ usdcBalance' = usdcBalance + amount - p - c
        /\ feesKept' = feesKept + f - p - c
        /\ usdcBalance \in Nat /\ feesKept \in Nat
    BY <1>1 DEF TypeOK
  <2> HIDE DEF p, c, f
  <2>3. /\ p + c \in Nat
        /\ usdcBalance' = usdcBalance + amount - (p + c)
        /\ feesKept' = feesKept + f - (p + c)
    BY <2>1, <2>2
  <2> QED BY <2>1, <2>3
<1>9. TypeOK'
  <2>1. /\ nextMarketId' \in 1 .. MaxMarkets + 1
        /\ r.id = m /\ r.creator \in Users
        /\ r.outcomes \in MIN_OUTCOMES .. MAX_OUTCOMES
        /\ r.winningOutcome <= r.outcomes
    BY <1>1, <1>3, <1>4 DEF TypeOK
  <2>2. /\ markets' \in [MarketIds -> Market]
        /\ \A k \in MarketIds :
             IF k < nextMarketId'
             THEN /\ markets'[k].id = k
                  /\ markets'[k].creator \in Users
                  /\ markets'[k].outcomes \in MIN_OUTCOMES .. MAX_OUTCOMES
                  /\ markets'[k].winningOutcome <= markets'[k].outcomes
             ELSE markets'[k] = Unwritten
    BY <1>1, <1>2, <1>3, <1>4, <2>1, MarketWritten
  <2>3. usdcBalance' \in Nat /\ feesKept' \in Nat
    BY <1>8 DEF TypeOK
  <2> QED BY <1>1, <1>6, <1>7, <2>1, <2>2, <2>3 DEF TypeOK
<1>10. UnwrittenIsEmpty'
  <2> SUFFICES ASSUME NEW k \in MarketIds, k >= nextMarketId, NEW p \in OutcomeIds
               PROVE  outcomeReserves'[k][p] = 0
    BY <1>1 DEF UnwrittenIsEmpty
  <2>1. k # m
    BY <1>4, Ranges DEF TypeOK
  <2> QED BY <1>6, <2>1 DEF UnwrittenIsEmpty
<1>11. OwedBy(m)' = OwedBy(m) + stake /\ OwedBy(m) \in Nat
  <2> DEFINE n == markets[m].outcomes
             f == outcomeReserves[m]
             g == outcomeReserves'[m]
  <2>1. n \in Nat /\ 1 .. n \subseteq OutcomeIds /\ o \in 1 .. n
    BY <1>1, MarketType, Ranges
  <2>2. \A p \in 1 .. n : f[p] \in Int
    BY <2>1, MarketType
  <2>3. g[o] = f[o] + stake /\ f[o] \in Nat /\ g[o] \in Int
    BY <1>6, <1>8, MarketType
  <2>4. \A p \in 1 .. n : p # o => g[p] = f[p]
    BY <1>6, <2>1
  <2>5. /\ OwedBy(m) = SumTo(f, n) /\ OwedBy(m)' = SumTo(g, n)
        /\ OwedBy(m) \in Nat
    <3>1. OwedBy(m) = TotalPayout(m) /\ OwedBy(m)' = TotalPayout(m)'
      BY <1>1, <1>3, <1>5 DEF OwedBy
    <3>2. TotalPayout(m)' = SumTo(outcomeReserves'[m], markets'[m].outcomes)
      BY DEF TotalPayout
    <3>3. markets'[m].outcomes = n
      BY <1>3, <1>5
    <3> QED BY <3>1, <3>2, <3>3, TotalPayoutNat DEF TotalPayout
  <2> HIDE DEF n, f, g
  <2>6. SumTo(g, n) = SumTo(f, n) + (g[o] - f[o])
    <3>1. n \in Nat /\ o \in 1 .. n /\ g[o] \in Int
      BY <2>1, <2>3
    <3> QED BY ONLY <3>1, <2>2, <2>4, SumToUpdate, SMTT(30)
  <2> QED BY <2>3, <2>5, <2>6
<1>12. SumTo(Owed, MaxMarkets)' = SumTo(Owed, MaxMarkets) + (OwedBy(m)' - OwedBy(m))
  <2>1. \A k \in MarketIds : k # m => OwedBy(k)' = OwedBy(k)
    BY <1>1, <1>5, <1>6, MarketKept
  <2> QED BY <1>11, <2>1, OneDebtChanges
<1>13. Solvent'
  <2>1. SumTo(Owed, MaxMarkets) + feesKept <= usdcBalance
    BY DEF Solvent, Owed
  <2>2. SumTo(Owed, MaxMarkets) \in Nat /\ usdcBalance \in Nat /\ feesKept \in Nat
    BY OwedNat DEF TypeOK
  <2>3. SumTo(Owed, MaxMarkets)' = SumTo(Owed, MaxMarkets) + stake
    BY <1>11, <1>12, <2>2
  <2>4. /\ feesKept' = feesKept + (fee - paid)
        /\ usdcBalance' = usdcBalance + stake + (fee - paid)
    BY <1>8, <2>2
  <2>5. PICK d \in Nat, b \in Nat, k \in Nat :
          d = SumTo(Owed, MaxMarkets) /\ b = usdcBalance /\ k = feesKept
    BY <2>2
  <2>6. (d + stake) + (k + (fee - paid)) <= b + stake + (fee - paid)
    BY <2>1, <2>5
  <2>7. SumTo(Owed, MaxMarkets)' + feesKept' <= usdcBalance'
    BY <2>3, <2>4, <2>5, <2>6
  <2> QED BY <2>7 DEF Solvent, Owed
<1> QED BY <1>6, <1>7, <1>9, <1>10, <1>13

\* The factory can be sent transactions of its own.
LEMMA AdministerKeepsIInv ==
  ASSUME IInv, AdministerFactory
  PROVE  IInv'
<1> USE DEF IInv
<1>1. /\ factory!FactoryTypeOK /\ factory!Administer
      /\ UNCHANGED <<marketVars, stakeVars, hasClaimed, platformFeeCollector, moneyVars, now>>
  BY DEF AdministerFactory, TypeOK
<1>2. factory!FactoryTypeOK' /\ UNCHANGED creatorTotalVolume
  <2>1. ASSUME NEW c \in Users, factory!createCreatorShares(c)
        PROVE  factory!FactoryTypeOK' /\ UNCHANGED creatorTotalVolume
    <3> DEFINE n == Len(allCreatorShares)
    <3>1. n \in Nat /\ allCreatorShares \in Seq(Nat)
      BY <1>1 DEF factory!FactoryTypeOK
    <3>2. /\ creatorShareContract' = [creatorShareContract EXCEPT ![c] = n + 1]
          /\ allCreatorShares' = Append(allCreatorShares, n + 1)
          /\ UNCHANGED <<creatorTotalVolume, sharesUnlocked, whitelistedMarkets>>
      BY <2>1 DEF factory!createCreatorShares
    <3>3. allCreatorShares' \in Seq(Nat)
      BY <3>1, <3>2
    <3>4. creatorShareContract' \in [Users -> Nat]
      BY <1>1, <3>1, <3>2 DEF factory!FactoryTypeOK
    <3> QED BY <1>1, <3>2, <3>3, <3>4 DEF factory!FactoryTypeOK
  <2>2. ASSUME NEW k \in {self}, factory!addMarketContract(k) \/ factory!removeMarketContract(k)
        PROVE  factory!FactoryTypeOK' /\ UNCHANGED creatorTotalVolume
    <3>1. UNCHANGED <<creatorTotalVolume, sharesUnlocked, creatorShareContract, allCreatorShares>>
      BY <2>2 DEF factory!addMarketContract, factory!removeMarketContract
    <3>2. whitelistedMarkets' \in SUBSET {self}
      BY <1>1, <2>2 DEF factory!addMarketContract, factory!removeMarketContract, factory!FactoryTypeOK
    <3> QED BY <1>1, <3>1, <3>2 DEF factory!FactoryTypeOK
  <2> QED BY <1>1, <2>1, <2>2 DEF factory!Administer
<1>3. platformFeeCollector' \in Collectors /\ now' \in Nat
  BY <1>1 DEF TypeOK
<1> QED BY <1>1, <1>2, <1>3, QuietStepKeepsIInv

LEMMA NextKeepsIInv == IInv /\ [Next]_vars => IInv'
<1> SUFFICES ASSUME IInv, [Next]_vars PROVE IInv'
  OBVIOUS
<1>1. ASSUME NEW s \in Users, NEW n \in MIN_OUTCOMES .. MAX_OUTCOMES,
             NEW d \in MIN_DURATION .. MAX_DURATION, createMarket(s, n, d)
      PROVE  IInv'
  BY <1>1, CreateKeepsIInv
<1>2. ASSUME NEW m \in MarketIds, NEW w \in OutcomeIds, resolveMarket(m, w) PROVE IInv'
  BY <1>2, ResolveKeepsIInv
<1>3. ASSUME NEW m \in MarketIds, NEW u \in Users, claimWinnings(m, u) PROVE IInv'
  BY <1>3, ClaimKeepsIInv
<1>4. ASSUME NEW m \in MarketIds, pauseMarket(m) \/ unpauseMarket(m) PROVE IInv'
  BY <1>4, PauseKeepsIInv
<1>5. ASSUME NEW c \in Collectors, updatePlatformFeeCollector(c) PROVE IInv'
  <2>1. /\ UNCHANGED <<marketVars, stakeVars, hasClaimed, factoryVars, moneyVars, now>>
        /\ platformFeeCollector' = c
    BY <1>5 DEF updatePlatformFeeCollector
  <2>2. factory!FactoryTypeOK' /\ UNCHANGED creatorTotalVolume /\ now' \in Nat
    BY <2>1, FactoryTypeKept DEF IInv, TypeOK, factoryVars
  <2> QED BY <2>1, <2>2, QuietStepKeepsIInv
<1>6. CASE AdministerFactory
  BY <1>6, AdministerKeepsIInv
<1>7. ASSUME NEW m \in MarketIds, NEW u \in Users, NEW o \in OutcomeIds, NEW amount \in Nat,
             placeBet(m, u, o, amount)
      PROVE  IInv'
  BY <1>7, BetKeepsIInv
<1>8. CASE Tick
  <2>1. /\ UNCHANGED <<marketVars, stakeVars, hasClaimed, platformFeeCollector,
                       factoryVars, moneyVars>>
        /\ now' = now + 1
    BY <1>8 DEF Tick
  <2>2. /\ factory!FactoryTypeOK' /\ UNCHANGED creatorTotalVolume /\ now' \in Nat
        /\ platformFeeCollector' \in Collectors
    BY <2>1, FactoryTypeKept DEF IInv, TypeOK, factoryVars
  <2> QED BY <2>1, <2>2, QuietStepKeepsIInv
<1>9. CASE UNCHANGED vars
  <2>1. UNCHANGED <<marketVars, stakeVars, hasClaimed, platformFeeCollector,
                    factoryVars, moneyVars, now>>
    BY <1>9 DEF vars
  <2>2. /\ factory!FactoryTypeOK' /\ UNCHANGED creatorTotalVolume /\ now' \in Nat
        /\ platformFeeCollector' \in Collectors
    BY <2>1, FactoryTypeKept DEF IInv, TypeOK, factoryVars
  <2> QED BY <2>1, <2>2, QuietStepKeepsIInv
<1> QED BY <1>1, <1>2, <1>3, <1>4, <1>5, <1>6, <1>7, <1>8, <1>9 DEF Next, Step

\* The inductive invariant holds in every reachable state.
THEOREM Invariance == Spec => []IInv
BY InitIInv, NextKeepsIInv, PTL DEF Spec

\* Every variable keeps its type, and the markets are the ids handed out.
THEOREM TypeCorrect == Spec => []TypeOK
<1>1. IInv => TypeOK
  BY DEF IInv
<1> QED BY <1>1, Invariance, PTL

\* The reserves, the totals and the accounts' shares always agree.
THEOREM StakesAlwaysAgree == Spec => []StakesAgree
<1>1. IInv => StakesAgree
  BY DEF IInv
<1> QED BY <1>1, Invariance, PTL

\* The one balance covers the open stakes and unpaid winnings of all markets.
THEOREM MarketsAreSolvent == Spec => []Solvent
<1>1. IInv => Solvent
  BY DEF IInv
<1> QED BY <1>1, Invariance, PTL

\* The factory and the markets agree on the volume of each creator.
THEOREM VolumeIsReported == Spec => []VolumeReported
<1>1. IInv => VolumeReported
  BY DEF IInv
<1> QED BY <1>1, Invariance, PTL

\* No winner is paid less than the stake.
THEOREM WinnersAlwaysKeepStake == Spec => []WinnersKeepStake
<1>1. IInv => WinnersKeepStake
  BY KeepStake DEF IInv
<1> QED BY <1>1, Invariance, PTL

\* The probabilities of the outcomes divide one in proportion to the reserves.
LEMMA ProbabilitiesDivideOne == TypeOK => ProbabilitiesAddUp
<1> SUFFICES ASSUME TypeOK, NEW m \in MarketIds, TotalPayout(m) > 0
             PROVE  LET total == SumTo([o \in OutcomeIds |-> getOutcomeProbability(m, o)],
                                       markets[m].outcomes)
                    IN  total <= BPS_DENOMINATOR /\ total > BPS_DENOMINATOR - markets[m].outcomes
  BY DEF ProbabilitiesAddUp
<1> DEFINE T == TotalPayout(m)
           n == markets[m].outcomes
           r == outcomeReserves[m]
           p == [o \in OutcomeIds |-> getOutcomeProbability(m, o)]
           up == [o \in 1 .. n |-> p[o] + 1]
           one == [o \in 1 .. n |-> 1]
           scaled == [o \in 1 .. n |-> 10000 * r[o]]
           above == [o \in 1 .. n |-> scaled[o] + 1]
<1>1. T \in Nat \ {0} /\ T = SumTo(r, n)
  BY TotalPayoutNat DEF TotalPayout
<1>2. n \in Nat /\ 1 .. n \subseteq OutcomeIds /\ \A o \in 1 .. n : r[o] \in Nat
  BY MarketType
<1>3. ASSUME NEW o \in 1 .. n
      PROVE  p[o] \in Nat /\ T * p[o] <= 10000 * r[o] /\ 10000 * r[o] < T * p[o] + T
  <2>1. p[o] = (r[o] * 10000) \div T
    BY <1>1, <1>2 DEF getOutcomeProbability, BPS_DENOMINATOR
  <2>2. r[o] * 10000 \in Nat /\ r[o] * 10000 = 10000 * r[o]
    BY <1>2
  <2> HIDE DEF T, r, p, n
  <2> QED BY <1>1, <2>1, <2>2, Floor
<1> HIDE DEF T, r, p, n
<1>4. SumTo(p, n) \in Nat
  BY <1>2, <1>3, SumToNat
<1>5. SumTo(p, n) <= 10000
  <2>1. \A o \in 1 .. n : T * p[o] <= 10000 * r[o] /\ p[o] \in Int /\ r[o] \in Int
    BY <1>2, <1>3
  <2>2. T * SumTo(p, n) <= 10000 * SumTo(r, n)
    <3>1. T \in Int /\ 10000 \in Int /\ n \in Nat
      BY <1>1, <1>2
    <3> QED BY ONLY <2>1, <3>1, SumToScaled, SMTT(30)
  <2>3. \A x \in Nat : x > 10000 => T * x > T * 10000
    BY <1>1
  <2> QED BY <1>1, <1>4, <2>2, <2>3
<1>6. SumTo(above, n) = 10000 * T + n
  <2>1. SumTo(scaled, n) = 10000 * SumTo(r, n)
    <3>1. \A o \in 1 .. n : scaled[o] \in Int /\ r[o] \in Int /\ scaled[o] = 10000 * r[o]
      BY <1>2
    <3> HIDE DEF scaled
    <3>2. \A o \in 1 .. n : /\ 1 * scaled[o] <= 10000 * r[o]
                            /\ 10000 * r[o] <= 1 * scaled[o]
      BY <3>1
    <3>3. 1 * SumTo(scaled, n) <= 10000 * SumTo(r, n)
      BY ONLY <1>2, <3>1, <3>2, SumToScaled, SMTT(30)
    <3>4. 10000 * SumTo(r, n) <= 1 * SumTo(scaled, n)
      BY ONLY <1>2, <3>1, <3>2, SumToScaled, SMTT(30)
    <3>5. SumTo(scaled, n) \in Int
      BY <1>2, <3>1, SumToInt
    <3> QED BY <1>1, <3>3, <3>4, <3>5
  <2>2. \A o \in 1 .. n : one[o] = 1
    OBVIOUS
  <2>3. \A o \in 1 .. n : scaled[o] \in Int /\ one[o] \in Int /\ above[o] = scaled[o] + one[o]
    BY <1>2
  <2> HIDE DEF scaled, one, above
  <2>4. SumTo(one, n) = n * 1
    BY <1>2, <2>2, SumToConstant
  <2>5. SumTo(above, n) = SumTo(scaled, n) + SumTo(one, n)
    BY <1>2, <2>3, SumToAdd
  <2> QED BY <1>1, <1>2, <2>1, <2>4, <2>5
<1>7. SumTo(up, n) = SumTo(p, n) + n
  <2>1. \A o \in 1 .. n : one[o] = 1
    OBVIOUS
  <2>2. \A o \in 1 .. n : p[o] \in Int /\ one[o] \in Int /\ up[o] = p[o] + one[o]
    BY <1>3
  <2> HIDE DEF one, up
  <2>3. SumTo(one, n) = n * 1
    BY <1>2, <2>1, SumToConstant
  <2>4. SumTo(up, n) = SumTo(p, n) + SumTo(one, n)
    BY <1>2, <2>2, SumToAdd
  <2> QED BY <1>2, <2>3, <2>4
<1>8. 1 * SumTo(above, n) <= T * SumTo(up, n)
  <2>1. ASSUME NEW o \in 1 .. n
        PROVE  above[o] \in Int /\ up[o] \in Int /\ 1 * above[o] <= T * up[o]
    <3>1. above[o] = 10000 * r[o] + 1 /\ up[o] = p[o] + 1
      OBVIOUS
    <3>2. r[o] \in Nat /\ p[o] \in Nat /\ 10000 * r[o] < T * p[o] + T /\ T \in Nat
      BY <1>1, <1>2, <1>3
    <3>3. T * (p[o] + 1) = T * p[o] + T /\ T * p[o] \in Nat
      BY <3>2
    <3> HIDE DEF above, up
    <3> QED BY <3>1, <3>2, <3>3
  <2> HIDE DEF above, up
  <2>2. T \in Int /\ 1 \in Int /\ n \in Nat
    BY <1>1, <1>2
  <2> QED BY ONLY <2>1, <2>2, SumToScaled, SMTT(30)
<1>9. SumTo(p, n) > 10000 - n
  <2> DEFINE q == SumTo(p, n)
  <2>1. q \in Nat
    BY <1>4
  <2>2. 10000 * T + n <= T * (q + n)
    BY <1>1, <1>2, <1>6, <1>7, <1>8
  <2>3. n # 0
    BY <1>1, SumToEquations
  <2> HIDE DEF q
  <2>4. T * 10000 < T * (q + n)
    BY <1>1, <1>2, <2>1, <2>2, <2>3
  <2>5. \A x, y \in Nat : x >= y => T * x >= T * y
    BY <1>1
  <2>6. 10000 < q + n
    <3>1. PICK w \in Nat : w = q + n
      BY <1>2, <2>1
    <3>2. T * 10000 < T * w
      BY <2>4, <3>1
    <3>3. 10000 >= w => T * 10000 >= T * w
      BY <2>5
    <3>4. T * 10000 \in Nat /\ T * w \in Nat
      BY <1>1
    <3> QED BY <3>1, <3>2, <3>3, <3>4
  <2> QED BY <1>2, <2>1, <2>6 DEF q
<1> QED BY <1>5, <1>9 DEF p, n, BPS_DENOMINATOR

\* The probabilities shown never exceed one, nor miss it by a basis point
\* for each outcome.
THEOREM ProbabilitiesAlwaysAddUp == Spec => []ProbabilitiesAddUp
<1>1. IInv => ProbabilitiesAddUp
  BY ProbabilitiesDivideOne DEF IInv
<1> QED BY <1>1, Invariance, PTL

-----------------------------------------------------------------------------
(* What a step may never do. *)

StakesUnchanged(m) ==
  /\ outcomeReserves'[m] = outcomeReserves[m]
  /\ userOutcomeShares'[m] = userOutcomeShares[m]
  /\ totalOutcomeShares'[m] = totalOutcomeShares[m]

LEMMA OnlyBetsStake ==
  ASSUME [Next]_vars
  PROVE  \/ \A m \in MarketIds : StakesUnchanged(m)
         \/ \E m \in MarketIds, u \in Users, o \in OutcomeIds, amount \in Nat :
              placeBet(m, u, o, amount)
<1>1. CASE UNCHANGED stakeVars
  BY <1>1 DEF stakeVars, StakesUnchanged
<1>2. Step \/ Tick \/ UNCHANGED vars => UNCHANGED stakeVars
  BY DEF Step, Tick, vars, createMarket, resolveMarket, claimWinnings, pauseMarket,
         unpauseMarket, updatePlatformFeeCollector, AdministerFactory
<1> QED BY <1>1, <1>2 DEF Next

\* From its end on the stakes of a market are fixed.
THEOREM StakesAreFixedAtEnd == Spec => StakesFixedAtEnd
<1>1. ASSUME IInv, [Next]_vars, NEW m \in MarketIds, now >= markets[m].endTime
      PROVE  StakesUnchanged(m)
  <2>1. now \in Nat /\ markets[m].endTime \in Nat
    BY <1>1, MarketType DEF IInv, TypeOK, Market
  <2>2. ASSUME NEW k \in MarketIds, NEW u \in Users, NEW o \in OutcomeIds, NEW amount \in Nat,
               placeBet(k, u, o, amount)
        PROVE  StakesUnchanged(m)
    <3>1. now < markets[k].endTime
      BY <2>2 DEF placeBet, AcceptsBets
    <3>2. m # k
      BY <1>1, <2>1, <3>1
    <3>3. \A j \in MarketIds : j # k =>
            /\ outcomeReserves'[j] = outcomeReserves[j]
            /\ userOutcomeShares'[j] = userOutcomeShares[j]
            /\ totalOutcomeShares'[j] = totalOutcomeShares[j]
      BY <1>1, <2>2, BetStakes
    <3> QED BY <3>2, <3>3 DEF StakesUnchanged
  <2> QED BY <1>1, <2>2, OnlyBetsStake
<1>2. IInv /\ [Next]_vars =>
        [\A m \in MarketIds :
           Exists(m) /\ now >= markets[m].endTime =>
             /\ outcomeReserves'[m] = outcomeReserves[m]
             /\ userOutcomeShares'[m] = userOutcomeShares[m]
             /\ totalOutcomeShares'[m] = totalOutcomeShares[m]]_vars
  BY <1>1 DEF StakesUnchanged
<1> QED BY <1>2, Invariance, PTL DEF Spec, StakesFixedAtEnd

\* Winnings are of resolved markets, which are never resolved again.
LEMMA WinningsKeptByNonClaims ==
  ASSUME IInv, [Next]_vars, NEW m \in MarketIds, NEW u \in Users, Winnings(m, u) > 0,
         ~ \E k \in MarketIds, v \in Users : claimWinnings(k, v)
  PROVE  Winnings(m, u)' = Winnings(m, u)
<1>1. markets[m].status = "Resolved"
  BY DEF Winnings, IsOwed
<1>2. Exists(m)
  BY <1>1, ExistsBelowNext DEF IInv, TypeOK, Unwritten
<1>3. m # nextMarketId /\ TypeOK
  BY <1>2, ExistsBelowNext DEF IInv, TypeOK
<1>4. markets \in [MarketIds -> Market] /\ markets[m] \in Market
  BY <1>3 DEF TypeOK
<1>5. StakesUnchanged(m)
  <2>1. ASSUME NEW k \in MarketIds, NEW v \in Users, NEW o \in OutcomeIds, NEW amount \in Nat,
               placeBet(k, v, o, amount)
        PROVE  StakesUnchanged(m)
    <3>1. markets[k].status = "Active"
      BY <2>1 DEF placeBet, AcceptsBets
    <3>2. m # k
      BY <1>1, <3>1
    <3> QED BY <2>1, <3>2, BetStakes DEF StakesUnchanged
  <2> QED BY <2>1, OnlyBetsStake
<1>6. /\ markets'[m].status = markets[m].status
      /\ markets'[m].outcomes = markets[m].outcomes
      /\ markets'[m].winningOutcome = markets[m].winningOutcome
      /\ hasClaimed' = hasClaimed
  <2>1. ASSUME NEW s \in Users, NEW n \in MIN_OUTCOMES .. MAX_OUTCOMES,
               NEW d \in MIN_DURATION .. MAX_DURATION, createMarket(s, n, d)
        PROVE  markets'[m] = markets[m] /\ hasClaimed' = hasClaimed
    BY <1>3, <1>4, <2>1 DEF createMarket
  <2>2. ASSUME NEW k \in MarketIds, NEW w \in OutcomeIds, resolveMarket(k, w)
        PROVE  markets'[m] = markets[m] /\ hasClaimed' = hasClaimed
    <3>1. k # m
      BY <1>1, <2>2 DEF resolveMarket, CanResolve
    <3> QED BY <1>4, <2>2, <3>1 DEF resolveMarket
  <2>3. ASSUME NEW k \in MarketIds, NEW b \in BOOLEAN,
               markets' = [markets EXCEPT ![k].paused = b]
        PROVE  /\ markets'[m].status = markets[m].status
               /\ markets'[m].outcomes = markets[m].outcomes
               /\ markets'[m].winningOutcome = markets[m].winningOutcome
    BY <1>4, <2>3 DEF Market
  <2>4. ASSUME NEW k \in MarketIds, NEW v \in Users, NEW o \in OutcomeIds, NEW amount \in Nat,
               placeBet(k, v, o, amount)
        PROVE  /\ markets'[m].status = markets[m].status
               /\ markets'[m].outcomes = markets[m].outcomes
               /\ markets'[m].winningOutcome = markets[m].winningOutcome
               /\ hasClaimed' = hasClaimed
    BY <1>4, <2>4 DEF placeBet, Market
  <2>5. ASSUME NEW k \in MarketIds, pauseMarket(k) \/ unpauseMarket(k)
        PROVE  /\ \E b \in BOOLEAN : markets' = [markets EXCEPT ![k].paused = b]
               /\ hasClaimed' = hasClaimed
    BY <2>5 DEF pauseMarket, unpauseMarket
  <2>6. ASSUME \/ \E c \in Collectors : updatePlatformFeeCollector(c)
               \/ AdministerFactory
               \/ Tick
               \/ UNCHANGED vars
        PROVE  markets' = markets /\ hasClaimed' = hasClaimed
    BY <2>6 DEF updatePlatformFeeCollector, AdministerFactory, Tick, vars, marketVars
  <2> QED BY <2>1, <2>2, <2>3, <2>4, <2>5, <2>6 DEF Next, Step
<1> QED BY <1>5, <1>6, MarketKept DEF StakesUnchanged

\* Winnings stay as they are until they are paid in full.
THEOREM WinningsAreKeptUntilPaid == Spec => WinningsKeptUntilPaid
<1>1. ASSUME IInv, [Next]_vars, NEW m \in MarketIds, NEW u \in Users, Winnings(m, u) > 0
      PROVE  \/ Winnings(m, u)' = Winnings(m, u)
             \/ /\ Winnings(m, u)' = 0
                /\ usdcBalance' = usdcBalance - Winnings(m, u)
  <2>1. ASSUME NEW k \in MarketIds, NEW v \in Users, claimWinnings(k, v)
        PROVE  \/ Winnings(m, u)' = Winnings(m, u)
               \/ /\ Winnings(m, u)' = 0
                  /\ usdcBalance' = usdcBalance - Winnings(m, u)
    <3>1. CASE k = m /\ v = u
      <4>1. Winnings(m, u)' = 0 /\ Winnings(m, u) = Payout(m, u)
        BY <1>1, <2>1, <3>1, ClaimPays
      <4>2. usdcBalance' = usdcBalance - Payout(m, u)
        BY <2>1, <3>1 DEF claimWinnings
      <4> QED BY <4>1, <4>2
    <3>2. CASE ~(k = m /\ v = u)
      BY <1>1, <2>1, <3>2, ClaimPays
    <3> QED BY <3>1, <3>2
  <2> QED BY <1>1, <2>1, WinningsKeptByNonClaims
<1>2. IInv /\ [Next]_vars =>
        [\A m \in MarketIds, u \in Users :
           Winnings(m, u) > 0 =>
             \/ Winnings(m, u)' = Winnings(m, u)
             \/ /\ Winnings(m, u)' = 0
                /\ usdcBalance' = usdcBalance - Winnings(m, u)]_vars
  BY <1>1
<1> QED BY <1>2, Invariance, PTL DEF Spec, WinningsKeptUntilPaid

-----------------------------------------------------------------------------
(* The factory inside. *)

\* Every behaviour of the betting contract is one of the factory's own
\* specification: what is proved of the factory holds here too.
THEOREM ImplementsFactory == Spec => factory!FactorySpec
<1>1. Init => factory!FactoryInit
  BY DEF Init
<1>2. ASSUME IInv, [Next]_vars PROVE [factory!FactoryNext]_(factory!factoryVars)
  <2>1. CASE UNCHANGED factoryVars
    BY <2>1 DEF factoryVars, factory!factoryVars
  <2>2. CASE AdministerFactory
    BY <2>2 DEF AdministerFactory, factory!FactoryNext
  <2>3. ASSUME NEW m \in MarketIds, NEW u \in Users, NEW o \in OutcomeIds, NEW amount \in Nat,
               placeBet(m, u, o, amount)
        PROVE  factory!FactoryNext
    <3>1. factory!updateCreatorVolume(self, markets[m].creator, amount) /\ Exists(m)
      BY <2>3 DEF placeBet, AcceptsBets
    <3>2. markets[m].creator \in Users
      BY <1>2, <3>1, ExistsBelowNext DEF IInv, TypeOK
    <3> QED BY <3>1, <3>2 DEF factory!FactoryNext
  <2>4. ASSUME Step \/ Tick \/ UNCHANGED vars, ~AdministerFactory
        PROVE  UNCHANGED factoryVars
    BY <2>4 DEF Step, Tick, vars, createMarket, resolveMarket, claimWinnings, pauseMarket,
                unpauseMarket, updatePlatformFeeCollector
  <2> QED BY <1>2, <2>1, <2>2, <2>3, <2>4 DEF Next
<1> QED BY <1>1, <1>2, Invariance, PTL DEF Spec, factory!FactorySpec

-----------------------------------------------------------------------------
(* The deployment: the contract with the fee collector.                      *)

\* A transaction with the betting contract in the deployment is one of the
\* contract alone, whatever the collector does: all of the above holds of it.
THEOREM PlatformImplementsMarket == PlatformSpec => Spec
<1>1. PlatformInit => Init
  BY DEF PlatformInit
<1>2. [PlatformNext]_platformVars => [Next]_vars
  BY PlatformAssumption
     DEF PlatformNext, platformVars, MarketStep, Bet, CollectorStep, Transfer, Next
<1> QED BY <1>1, <1>2, PTL DEF PlatformSpec, Spec

\* The inductive invariant: the collector counts in USDC, and every unit it
\* has or had came from a counted deposit, from a bet or from a transfer.
FeesInv ==
  /\ totalShareFees \in Nat
  /\ totalMarketFees \in Nat
  /\ collectorBalance \in Nat
  /\ withdrawn \in Nat
  /\ platformFeesSent \in Nat
  /\ received \in Nat
  /\ FeesAccountedFor

LEMMA PlatformFeeNat == \A amount \in Nat : PlatformFee(amount) \in Nat
BY FeeParts DEF PlatformFee

\* What a step of the deployment does to the collector.
CollectorQuiet == UNCHANGED <<collectorVars, platformFeesSent, received>>

LEMMA CollectorSteps ==
  ASSUME FeesInv, [PlatformNext]_platformVars
  PROVE  \/ CollectorQuiet
         \/ \E amount \in Nat :
              /\ collector!receive(amount)
              /\ \/ platformFeesSent' = platformFeesSent + amount /\ UNCHANGED received
                 \/ received' = received + amount /\ UNCHANGED platformFeesSent
         \/ \E d \in Operators, amount \in Nat :
              /\ collector!depositShareFees(d, amount) \/ collector!depositMarketFees(d, amount)
              /\ UNCHANGED <<platformFeesSent, received>>
         \/ \E r \in Operators \union {FeeCollectorAddress}, amount \in Nat :
              collector!withdraw(r, amount) /\ UNCHANGED <<platformFeesSent, received>>
         \/ \E d \in Operators \union {self} :
              /\ collector!addDepositor(d) \/ collector!removeDepositor(d)
              /\ UNCHANGED <<platformFeesSent, received>>
<1>1. CASE MarketStep \/ (Tick /\ CollectorQuiet) \/ UNCHANGED platformVars
  BY <1>1 DEF MarketStep, CollectorQuiet, platformVars
<1>2. ASSUME NEW m \in MarketIds, NEW u \in Users, NEW o \in OutcomeIds,
             NEW amount \in BetAmounts, Bet(m, u, o, amount)
      PROVE  \/ CollectorQuiet
             \/ \E fee \in Nat : /\ collector!receive(fee)
                                 /\ platformFeesSent' = platformFeesSent + fee
                                 /\ UNCHANGED received
  <2>1. PlatformFee(amount) \in Nat
    BY PlatformAssumption, PlatformFeeNat
  <2> QED BY <1>2, <2>1 DEF Bet, CollectorQuiet
<1>3. CASE CollectorStep
  <2>1. MaxDeposits - collector!getTotalFees \in Int /\ collectorBalance \in Nat
    BY PlatformAssumption DEF FeesInv, collector!getTotalFees
  <2>2. \A amount \in 1 .. MaxDeposits - collector!getTotalFees : amount \in Nat
    BY <2>1
  <2>3. \A amount \in 1 .. collectorBalance : amount \in Nat
    BY <2>1
  <2> QED BY <1>3, <2>2, <2>3, Zenon DEF CollectorStep
<1>4. CASE Transfer
  <2>1. MaxReceived - received \in Int
    BY PlatformAssumption DEF FeesInv
  <2>2. \A amount \in 1 .. MaxReceived - received : amount \in Nat
    BY <2>1
  <2> QED BY <1>4, <2>2, Zenon DEF Transfer
<1> QED BY <1>1, <1>2, <1>3, <1>4, Zenon DEF PlatformNext, CollectorQuiet

\* Deposits are the only way the totals grow.
TotalsGrowByDeposits ==
  /\ totalShareFees' >= totalShareFees
  /\ totalMarketFees' >= totalMarketFees
  /\ collector!getTotalFees' - collector!getTotalFees
       <= collectorBalance' - collectorBalance + (withdrawn' - withdrawn)

LEMMA FeesStep ==
  ASSUME FeesInv, [PlatformNext]_platformVars
  PROVE  FeesInv' /\ TotalsGrowByDeposits
<1> USE DEF FeesInv, FeesAccountedFor, TotalsGrowByDeposits, collector!getTotalFees
<1>1. CASE CollectorQuiet
  BY <1>1 DEF CollectorQuiet, collectorVars
<1>2. ASSUME NEW amount \in Nat, collector!receive(amount),
             \/ platformFeesSent' = platformFeesSent + amount /\ UNCHANGED received
             \/ received' = received + amount /\ UNCHANGED platformFeesSent
      PROVE  FeesInv' /\ TotalsGrowByDeposits
  BY <1>2 DEF collector!receive
<1>3. ASSUME NEW d, NEW amount \in Nat, UNCHANGED <<platformFeesSent, received>>,
             collector!depositShareFees(d, amount) \/ collector!depositMarketFees(d, amount)
      PROVE  FeesInv' /\ TotalsGrowByDeposits
  BY <1>3 DEF collector!depositShareFees, collector!depositMarketFees
<1>4. ASSUME NEW r, NEW amount \in Nat, collector!withdraw(r, amount),
             UNCHANGED <<platformFeesSent, received>>
      PROVE  FeesInv' /\ TotalsGrowByDeposits
  BY <1>4 DEF collector!withdraw, collector!CanWithdraw, collector!Outflow
<1>5. ASSUME NEW d, UNCHANGED <<platformFeesSent, received>>,
             collector!addDepositor(d) \/ collector!removeDepositor(d)
      PROVE  FeesInv' /\ TotalsGrowByDeposits
  <2>1. UNCHANGED <<totalShareFees, totalMarketFees, collectorBalance, withdrawn,
                    platformFeesSent, received>>
    BY <1>5, Zenon DEF collector!addDepositor, collector!removeDepositor
  <2> QED BY <2>1
<1> HIDE DEF FeesInv, FeesAccountedFor, TotalsGrowByDeposits, collector!getTotalFees
<1> QED BY <1>1, <1>2, <1>3, <1>4, <1>5, CollectorSteps, Zenon

LEMMA FeesInvariance == PlatformSpec => []FeesInv
<1>1. PlatformInit => FeesInv
  BY DEF PlatformInit, collector!Init, FeesInv, FeesAccountedFor, collector!getTotalFees
<1>2. FeesInv /\ [PlatformNext]_platformVars => FeesInv'
  BY FeesStep
<1> QED BY <1>1, <1>2, PTL DEF PlatformSpec

\* No USDC of the collector (contracts/FeeCollector.sol) is unaccounted for,
\* whatever bets, deposits, withdrawals (to itself too) and plain transfers are
\* made, and however often the owner of the market names another collector.
THEOREM FeesAlwaysAccountedFor == PlatformSpec => []FeesAccountedFor
<1>1. FeesInv => FeesAccountedFor
  BY DEF FeesInv
<1> QED BY <1>1, FeesInvariance, PTL

\* withdraw and plain transfers leave the totals as they are; a deposit adds
\* to them no more than it brings.
THEOREM TotalsRemainHistories == PlatformSpec => TotalsAreHistories
<1>1. FeesInv /\ [PlatformNext]_platformVars =>
        [/\ totalShareFees' >= totalShareFees
         /\ totalMarketFees' >= totalMarketFees
         /\ collector!getTotalFees' - collector!getTotalFees
              <= collectorBalance' - collectorBalance + (withdrawn' - withdrawn)]_platformVars
  BY FeesStep DEF TotalsGrowByDeposits
<1> QED BY <1>1, FeesInvariance, PTL DEF PlatformSpec, TotalsAreHistories

\* In the deployment the collector takes no step that FeeCollector does not
\* describe: nothing the betting contract does reaches into it but a transfer.
THEOREM PlatformImplementsCollector == PlatformSpec => collector!Spec
<1>1. PlatformInit => collector!Init
  BY DEF PlatformInit
<1>2. FeesInv /\ [PlatformNext]_platformVars => [collector!Next]_(collector!collectorVars)
  <2> SUFFICES ASSUME FeesInv, [PlatformNext]_platformVars
               PROVE  [collector!Next]_(collector!collectorVars)
    OBVIOUS
  <2>1. CASE CollectorQuiet
    BY <2>1 DEF CollectorQuiet, collectorVars, collector!collectorVars
  <2> QED BY <2>1, CollectorSteps, Zenon DEF collector!Next
<1> QED BY <1>1, <1>2, FeesInvariance, PTL DEF PlatformSpec, collector!Spec

=============================================================================
