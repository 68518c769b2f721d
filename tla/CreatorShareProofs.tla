------------------------- MODULE CreatorShareProofs -------------------------
(***************************************************************************)
(* What the integer arithmetic of the curve does to its exact integral,    *)
(* for every supply and amount; the safety of the share token, and that it *)
(* implements the ledger of its fees, for every number of accounts,        *)
(* maximal supply, number of epochs and of purchases; and the safety of    *)
(* the factory that deploys share tokens, for every set of creators and of *)
(* market contracts, every threshold and every sequence of reported        *)
(* volumes.                                                                *)
(***************************************************************************)
EXTENDS CreatorShare, CreatorShareFactory, SumsProofs

-----------------------------------------------------------------------------
(* The curve. *)

\* Floor division, for use where a divisor is not a numeral.
LEMMA FloorBounds ==
  ASSUME NEW a \in Nat, NEW d \in Nat \ {0}
  PROVE  /\ a \div d \in Nat
         /\ d * (a \div d) <= a
         /\ a < d * (a \div d) + d
OBVIOUS

LEMMA CubeNat == \A n \in Nat : Cube(n) \in Nat
BY DEF Cube

\* The integral between two supplies is a natural number, and positive when
\* shares change hands.
LEMMA CubeDifference ==
  ASSUME NEW s \in Nat, NEW a \in Nat
  PROVE  Cube(s + a) - Cube(s) \in Nat
<1>1. Cube(s + a) - Cube(s) = a * (3 * (s * s) + 3 * (s * a) + a * a)
  BY DEF Cube
<1>2. s * s \in Nat /\ s * a \in Nat /\ a * a \in Nat
  OBVIOUS
<1>3. 3 * (s * s) + 3 * (s * a) + a * a \in Nat
  BY <1>2
<1>4. \A x \in Nat : a * x \in Nat
  OBVIOUS
<1> QED BY <1>1, <1>3, <1>4

\* The branch for the first share, and the one for the last, agree with the
\* general formula.
LEMMA BuyPriceFormula ==
  ASSUME NEW s \in Nat, NEW a \in Nat \ {0}
  PROVE  calculateBuyPrice(s, a)
           = ((Cube(s + a) - Cube(s)) * PRECISION) \div INTEGRATION_DIVISOR
<1>1. PRECISION \in Nat
  BY CurveAssumption DEF PRECISION, USDC_UNIT
<1>2. CASE s = 0 /\ a = 1
  <2>1. Cube(s + a) - Cube(s) = 1
    BY <1>2 DEF Cube
  <2>2. 1 * PRECISION = PRECISION
    BY <1>1
  <2> QED BY <1>2, <2>1, <2>2, Zenon DEF calculateBuyPrice
<1>3. CASE ~ (s = 0 /\ a = 1)
  BY <1>3, Zenon DEF calculateBuyPrice
<1> QED BY <1>2, <1>3

LEMMA SellPriceFormula ==
  ASSUME NEW s \in Nat, NEW a \in 1 .. s
  PROVE  calculateSellPrice(s, a)
           = ((Cube(s) - Cube(s - a)) * PRECISION) \div INTEGRATION_DIVISOR
<1>1. CASE s = a
  <2>1. Cube(s - a) = 0
    BY <1>1 DEF Cube
  <2>2. Cube(s) - 0 = Cube(s)
    BY CubeNat
  <2>3. Cube(s) - Cube(s - a) = Cube(s)
    BY <2>1, <2>2
  <2> QED BY <1>1, <2>3, Zenon DEF calculateSellPrice
<1>2. CASE s # a
  BY <1>2, Zenon DEF calculateSellPrice
<1> QED BY <1>1, <1>2

\* The reversibility stated in docs/BondingCurve.md: what n shares cost is
\* what they sell for, before the fee, if nothing happens in between.
THEOREM Reversibility ==
  ASSUME NEW s \in Nat, NEW a \in Nat \ {0}
  PROVE  calculateBuyPrice(s, a) = calculateSellPrice(s + a, a)
<1>1. s + a \in Nat /\ a \in 1 .. (s + a) /\ (s + a) - a = s
  OBVIOUS
<1>2. calculateSellPrice(s + a, a)
        = ((Cube(s + a) - Cube(s)) * PRECISION) \div INTEGRATION_DIVISOR
  BY <1>1, SellPriceFormula
<1> QED BY <1>2, BuyPriceFormula

\* Two floors in a row: an integral x, priced with 18 decimals and cut to 6,
\* is off its exact value by less than one unit.
LEMMA UsdcFloor ==
  ASSUME NEW x \in Nat
  PROVE  LET c == ((x * PRECISION) \div INTEGRATION_DIVISOR) \div TO_USDC
         IN  /\ c \in Nat
             /\ INTEGRATION_DIVISOR * c <= x * USDC_UNIT
             /\ x * USDC_UNIT < INTEGRATION_DIVISOR * c + INTEGRATION_DIVISOR
<1> DEFINE T == TO_USDC
           y == x * USDC_UNIT
           q == (x * PRECISION) \div INTEGRATION_DIVISOR
           c == q \div T
<1>1. T \in Nat \ {0}
  BY CurveAssumption
<1>2. y \in Nat
  BY DEF USDC_UNIT
<1>3. x * PRECISION = y * T /\ y * T \in Nat
  BY <1>1 DEF PRECISION, USDC_UNIT
<1>4. q \in Nat /\ 4200 * q <= y * T /\ y * T < 4200 * q + 4200
  BY <1>3 DEF INTEGRATION_DIVISOR
<1> HIDE DEF q, y, T
<1>5. c \in Nat /\ T * c <= q /\ q < T * c + T
  BY <1>1, <1>4, FloorBounds
<1> HIDE DEF c
<1>6. T * c \in Nat
  BY <1>1, <1>5
<1>7. 4200 * c <= y
  <2>1. 4200 * (T * c) <= y * T
    BY <1>1, <1>2, <1>3, <1>4, <1>5, <1>6
  <2>2. 4200 * (T * c) = (4200 * c) * T
    BY <1>1, <1>5
  <2>3. \A u, v \in Nat : u * T <= v * T => u <= v
    BY <1>1
  <2> QED BY <1>2, <1>5, <2>1, <2>2, <2>3
<1>8. y < 4200 * c + 4200
  <2>1. q + 1 <= T * c + T
    BY <1>4, <1>5, <1>6, <1>1
  <2>2. y * T < 4200 * (T * c + T)
    BY <1>1, <1>3, <1>4, <1>6, <2>1
  <2>3. 4200 * (T * c + T) = (4200 * c + 4200) * T
    BY <1>1, <1>5
  <2>4. \A u, v \in Nat : u * T < v * T => u < v
    BY <1>1
  <2>5. 4200 * c + 4200 \in Nat
    BY <1>5
  <2> QED BY <1>2, <2>2, <2>3, <2>4, <2>5
<1> QED BY <1>5, <1>7, <1>8 DEF c, q, y, T, INTEGRATION_DIVISOR

\* A trade costs at least the spot price before it for every share, and less
\* than a unit per share above the spot price after it: the marginal price of
\* calculatePrice and the integral that is charged never disagree.
THEOREM SpotPricesBracketCost ==
  ASSUME NEW s \in Nat, NEW a \in Nat \ {0}
  PROVE  /\ a * calculatePrice(s) <= calculateBuyPrice(s, a)
         /\ calculateBuyPrice(s, a) < a * (calculatePrice(s + a) + 1)
<1> DEFINE P == PRECISION
           D == Cube(s + a) - Cube(s)
           p == calculatePrice(s)
           r == calculatePrice(s + a)
           c == calculateBuyPrice(s, a)
           ss == s * s
           ee == (s + a) * (s + a)
           low == a * ss
           high == a * ee
<1>1. P \in Nat /\ D \in Nat /\ ss \in Nat /\ ee \in Nat /\ low \in Nat /\ high \in Nat
  <2>1. P \in Nat
    BY CurveAssumption DEF PRECISION, USDC_UNIT
  <2>2. D \in Nat
    BY CubeDifference
  <2>3. ss \in Nat /\ ee \in Nat
    OBVIOUS
  <2> QED BY <2>1, <2>2, <2>3
<1>2. 3 * low <= D /\ D <= 3 * high
  <2>1. D = 3 * (a * (s * s)) + 3 * (s * (a * a)) + a * (a * a)
    BY DEF Cube
  <2>2. high = a * (s * s) + 2 * (s * (a * a)) + a * (a * a)
    OBVIOUS
  <2>3. a * (s * s) \in Nat /\ s * (a * a) \in Nat /\ a * (a * a) \in Nat
    <3>1. s * s \in Nat /\ a * a \in Nat
      OBVIOUS
    <3>2. \A x \in Nat : a * x \in Nat /\ s * x \in Nat
      OBVIOUS
    <3> QED BY <3>1, <3>2
  <2> QED BY <2>1, <2>2, <2>3
<1>3. ss * P \in Nat /\ ee * P \in Nat /\ D * P \in Nat
  BY <1>1
<1>4. p \in Nat /\ 1400 * p <= ss * P
  BY <1>3 DEF calculatePrice, CURVE_DIVISOR
<1>5. r \in Nat /\ ee * P < 1400 * r + 1400
  BY <1>3 DEF calculatePrice, CURVE_DIVISOR
<1>6. c \in Nat /\ 4200 * c <= D * P /\ D * P < 4200 * c + 4200
  <2>1. c = (D * P) \div 4200
    BY BuyPriceFormula DEF INTEGRATION_DIVISOR
  <2> HIDE DEF c, D, P
  <2> QED BY <1>3, <2>1
<1> HIDE DEF P, D, p, r, c, ss, ee
<1>7. a * p <= c
  <2>1. a * (1400 * p) <= a * (ss * P)
    BY <1>3, <1>4
  <2>2. a * (ss * P) = low * P
    BY <1>1
  <2>3. (3 * low) * P <= D * P
    BY <1>1, <1>2
  <2>4. a * p \in Nat /\ low * P \in Nat /\ (3 * low) * P = 3 * (low * P)
    BY <1>1, <1>4
  <2>5. a * (1400 * p) = 1400 * (a * p)
    BY <1>4
  <2> QED BY <1>3, <1>6, <2>1, <2>2, <2>3, <2>4, <2>5
<1>8. c < a * (r + 1)
  <2>1. a * (ee * P) < a * (1400 * r + 1400)
    BY <1>3, <1>5
  <2>2. a * (ee * P) = high * P
    BY <1>1
  <2>3. D * P <= (3 * high) * P
    BY <1>1, <1>2
  <2>4. a * (r + 1) \in Nat /\ high * P \in Nat /\ (3 * high) * P = 3 * (high * P)
    BY <1>1, <1>5
  <2>5. a * (1400 * r + 1400) = 1400 * (a * (r + 1))
    BY <1>5
  <2> QED BY <1>3, <1>6, <2>1, <2>2, <2>3, <2>4, <2>5
<1> QED BY <1>7, <1>8 DEF p, r, c

-----------------------------------------------------------------------------
(* The inductive invariant of the token. *)

\* The entry of an account for the current epoch is its balance, or still 0
\* when nothing touched the account since the epoch began; the entries of
\* later epochs are 0.
EntriesCurrent ==
  \A u \in Users :
    /\ userEpochShares[u][epochNumber] \in {0, balanceOf[u]}
    /\ \A e \in Epochs : epochNumber < e => userEpochShares[u][e] = 0

\* Nobody has claimed the current epoch.
ClaimsPast == \A u \in Users : lastClaimedEpoch[u] < epochNumber

\* The inductive invariant.
IInv ==
  /\ TypeOK
  /\ SupplyConserved
  /\ EntriesCurrent
  /\ ClaimsPast
  /\ EpochSharesBounded
  /\ SolventUpToRounding

-----------------------------------------------------------------------------
(* Prices. *)

\* A purchase brings the exact integral, less than one unit short.
LEMMA BuyCostBounds ==
  ASSUME NEW s \in Nat, NEW a \in Nat \ {0}
  PROVE  /\ BuyCost(s, a) \in Nat
         /\ (Cube(s + a) - Cube(s)) * USDC_UNIT
              <= INTEGRATION_DIVISOR * (BuyCost(s, a) + 1)
<1> DEFINE x == Cube(s + a) - Cube(s)
<1>1. x \in Nat
  BY CubeDifference
<1>2. BuyCost(s, a) = ((x * PRECISION) \div INTEGRATION_DIVISOR) \div TO_USDC
  BY BuyPriceFormula DEF BuyCost
<1> HIDE DEF x
<1>3. BuyCost(s, a) \in Nat /\ x * USDC_UNIT < INTEGRATION_DIVISOR * BuyCost(s, a) + INTEGRATION_DIVISOR
  BY <1>1, <1>2, UsdcFloor
<1> QED BY <1>1, <1>3 DEF x, USDC_UNIT, INTEGRATION_DIVISOR

\* A sale is paid the exact integral at most, and its parts add up to it.
LEMMA SellProceedsBounds ==
  ASSUME NEW s \in Nat, NEW a \in 1 .. s
  PROVE  /\ SellProceeds(s, a) \in Nat
         /\ INTEGRATION_DIVISOR * SellProceeds(s, a)
              <= (Cube(s) - Cube(s - a)) * USDC_UNIT
<1> DEFINE x == Cube(s) - Cube(s - a)
<1>1. x \in Nat
  <2>1. PICK t \in Nat : t = s - a /\ t + a = s
    OBVIOUS
  <2>2. Cube(t + a) - Cube(t) \in Nat
    BY CubeDifference
  <2> QED BY <2>1, <2>2, Zenon
<1>2. SellProceeds(s, a) = ((x * PRECISION) \div INTEGRATION_DIVISOR) \div TO_USDC
  BY SellPriceFormula DEF SellProceeds
<1> HIDE DEF x
<1>3. SellProceeds(s, a) \in Nat /\ INTEGRATION_DIVISOR * SellProceeds(s, a) <= x * USDC_UNIT
  BY <1>1, <1>2, UsdcFloor
<1> QED BY <1>3 DEF x

LEMMA FeeSplit ==
  ASSUME NEW p \in Nat
  PROVE  /\ RewardShare(p) \in Nat
         /\ PlatformShare(p) \in Nat
         /\ NetProceeds(p) \in Nat
         /\ NetProceeds(p) + RewardShare(p) + PlatformShare(p) = p
<1>1. SellFee(p) \in Nat /\ SellFee(p) <= p
  BY DEF SellFee, SELL_FEE_PERCENT, FEE_DENOMINATOR
<1>2. RewardShare(p) \in Nat /\ RewardShare(p) <= SellFee(p)
  BY <1>1 DEF RewardShare
<1> QED BY <1>1, <1>2 DEF PlatformShare, NetProceeds

\* Buying in two steps costs at most as much as buying at once, and at most
\* one unit of 1e-6 USDC less.
THEOREM SplitPurchase ==
  ASSUME NEW s \in Nat, NEW a \in Nat \ {0}, NEW b \in Nat \ {0}
  PROVE  /\ BuyCost(s, a) + BuyCost(s + a, b) <= BuyCost(s, a + b)
         /\ BuyCost(s, a + b) <= BuyCost(s, a) + BuyCost(s + a, b) + 1
<1> DEFINE x == Cube(s + a) - Cube(s)
           y == Cube(s + (a + b)) - Cube(s + a)
           z == Cube(s + (a + b)) - Cube(s)
           Usdc(w) == ((w * PRECISION) \div INTEGRATION_DIVISOR) \div TO_USDC
<1>1. s + a \in Nat /\ a + b \in Nat \ {0} /\ (s + a) + b = s + (a + b)
  OBVIOUS
<1>2. x \in Nat /\ y \in Nat /\ z \in Nat
  BY <1>1, CubeDifference
<1>3. z = x + y
  <2>1. \A u, v, w \in Nat : w - u = (v - u) + (w - v)
    OBVIOUS
  <2>2. Cube(s) \in Nat /\ Cube(s + a) \in Nat /\ Cube(s + (a + b)) \in Nat
    BY <1>1, CubeNat
  <2> QED BY <2>1, <2>2
<1>4. /\ BuyCost(s, a) = Usdc(x)
      /\ BuyCost(s + a, b) = Usdc(y)
      /\ BuyCost(s, a + b) = Usdc(z)
  BY <1>1, BuyPriceFormula DEF BuyCost
<1> HIDE DEF x, y, z
<1>5. /\ Usdc(x) \in Nat /\ 4200 * Usdc(x) <= x * 1000000 /\ x * 1000000 < 4200 * Usdc(x) + 4200
      /\ Usdc(y) \in Nat /\ 4200 * Usdc(y) <= y * 1000000 /\ y * 1000000 < 4200 * Usdc(y) + 4200
      /\ Usdc(z) \in Nat /\ 4200 * Usdc(z) <= z * 1000000 /\ z * 1000000 < 4200 * Usdc(z) + 4200
  BY <1>2, UsdcFloor DEF INTEGRATION_DIVISOR, USDC_UNIT
<1> HIDE DEF Usdc
<1> QED BY <1>2, <1>3, <1>4, <1>5

-----------------------------------------------------------------------------
(* Shares. *)

LEMMA MovedType ==
  ASSUME TypeOK, NEW from, NEW to, NEW value \in Nat,
         from \in Users => value <= balanceOf[from]
  PROVE  Moved(from, to, value) \in [Users -> Nat]
BY DEF TypeOK, Moved

\* The total of the balances moves with the mints and burns alone.
LEMMA MovedTotal ==
  ASSUME TypeOK, NEW value \in Nat,
         NEW from \in Users \cup {NoUser}, NEW to \in Users \cup {NoUser},
         from \in Users => value <= balanceOf[from]
  PROVE  SumTo(Moved(from, to, value), NumUsers)
           = SumTo(balanceOf, NumUsers) + (IF from = NoUser THEN value ELSE 0)
                                        - (IF to = NoUser THEN value ELSE 0)
<1> DEFINE mid == [u \in Users |-> IF u = from THEN balanceOf[u] - value ELSE balanceOf[u]]
           mvd == Moved(from, to, value)
<1>1. NumUsers \in Nat /\ Users = 1 .. NumUsers /\ NoUser \notin Users
  BY ShareAssumption DEF Users, NoUser
<1>2. /\ \A u \in 1 .. NumUsers : balanceOf[u] \in Int
      /\ \A u \in 1 .. NumUsers : mid[u] \in Int
      /\ \A u \in 1 .. NumUsers : mvd[u] = IF u = to THEN mid[u] + value ELSE mid[u]
  <2>1. \A u \in 1 .. NumUsers : balanceOf[u] \in Int
    BY <1>1 DEF TypeOK
  <2>2. \A u \in 1 .. NumUsers : mid[u] \in Int
    BY <1>1, <2>1
  <2>3. \A u \in 1 .. NumUsers : mvd[u] = IF u = to THEN mid[u] + value ELSE mid[u]
    BY <1>1, <2>1 DEF Moved
  <2> QED BY <2>1, <2>2, <2>3
<1>3. SumTo(balanceOf, NumUsers) \in Int
  BY <1>1, <1>2, SumToInt
<1>4. SumTo(mid, NumUsers)
        = SumTo(balanceOf, NumUsers) - (IF from = NoUser THEN 0 ELSE value)
  <2>1. CASE from = NoUser
    <3>1. \A u \in 1 .. NumUsers : mid[u] = balanceOf[u]
      BY <1>1, <2>1
    <3> HIDE DEF mid
    <3>2. SumTo(mid, NumUsers) = SumTo(balanceOf, NumUsers)
      BY <1>1, <3>1, SumToSame
    <3> QED BY <1>3, <2>1, <3>2
  <2>2. CASE from # NoUser
    <3>1. /\ from \in 1 .. NumUsers
          /\ mid[from] = balanceOf[from] - value
          /\ \A u \in 1 .. NumUsers : u # from => mid[u] = balanceOf[u]
      BY <1>1, <2>2
    <3> HIDE DEF mid
    <3>2. SumTo(mid, NumUsers)
            = SumTo(balanceOf, NumUsers) + (mid[from] - balanceOf[from])
      BY <1>1, <1>2, <3>1, SumToUpdate
    <3> QED BY <1>2, <1>3, <2>2, <3>1, <3>2
  <2> QED BY <2>1, <2>2
<1> HIDE DEF mid, mvd
<1>5. SumTo(mid, NumUsers) \in Int
  BY <1>1, <1>2, SumToInt
<1>6. SumTo(mvd, NumUsers) = SumTo(mid, NumUsers) + (IF to = NoUser THEN 0 ELSE value)
  <2>1. CASE to = NoUser
    <3>1. \A u \in 1 .. NumUsers : mvd[u] = mid[u]
      BY <1>1, <1>2, <2>1
    <3>2. SumTo(mvd, NumUsers) = SumTo(mid, NumUsers)
      BY <1>1, <3>1, SumToSame
    <3> QED BY <1>5, <2>1, <3>2
  <2>2. CASE to # NoUser
    <3>1. /\ to \in 1 .. NumUsers
          /\ mvd[to] = mid[to] + value
          /\ mvd[to] \in Int
          /\ \A u \in 1 .. NumUsers : u # to => mvd[u] = mid[u]
      BY <1>1, <1>2, <2>2
    <3>2. \A u \in 1 .. NumUsers : mid[u] \in Int
      BY <1>2
    <3>3. SumTo(mvd, NumUsers) = SumTo(mid, NumUsers) + (mvd[to] - mid[to])
      <4>1. NumUsers \in Nat
        BY <1>1
      <4> QED BY <4>1, <3>1, <3>2, SumToUpdate, SMTT(30)
    <3> QED BY <1>2, <1>5, <2>2, <3>1, <3>3
  <2> QED BY <2>1, <2>2
<1>7. SumTo(mvd, NumUsers)
        = SumTo(balanceOf, NumUsers) + (IF from = NoUser THEN value ELSE 0)
                                     - (IF to = NoUser THEN value ELSE 0)
  BY <1>3, <1>4, <1>5, <1>6
<1> QED BY <1>7 DEF mvd

\* The hook keeps the entries of the accounts in step with their balances,
\* and touches no finalised epoch.
LEMMA UpdateEntries ==
  ASSUME TypeOK, EntriesCurrent, NEW value \in Nat, NEW from, NEW to,
         from \in Users => value <= balanceOf[from],
         Update(from, to, value), UNCHANGED epochNumber
  PROVE  /\ userEpochShares' \in [Users -> [Epochs -> Nat]]
         /\ recordedInEpoch' \in [Users -> BOOLEAN]
         /\ EntriesCurrent'
         /\ \A u \in Users, e \in Epochs :
              e < epochNumber => userEpochShares'[u][e] = userEpochShares[u][e]
<1> DEFINE bal == Moved(from, to, value)
           row(u) == IF u \in {from, to}
                     THEN [userEpochShares[u] EXCEPT ![epochNumber] = bal[u]]
                     ELSE userEpochShares[u]
<1>1. bal \in [Users -> Nat]
  BY MovedType
<1> HIDE DEF bal
<1>2. /\ userEpochShares' = [u \in Users |-> row(u)]
      /\ balanceOf' = bal
      /\ epochNumber' = epochNumber /\ epochNumber \in Epochs
  BY DEF Update, Recorded, TypeOK, bal
<1>3. ASSUME NEW u \in Users
      PROVE  /\ row(u) \in [Epochs -> Nat]
             /\ row(u)[epochNumber] \in {0, bal[u]}
             /\ \A e \in Epochs : epochNumber < e => row(u)[e] = 0
             /\ \A e \in Epochs : e < epochNumber => row(u)[e] = userEpochShares[u][e]
  <2>1. userEpochShares[u] \in [Epochs -> Nat] /\ bal[u] \in Nat
    BY <1>1 DEF TypeOK
  <2>2. /\ userEpochShares[u][epochNumber] \in {0, balanceOf[u]}
        /\ \A e \in Epochs : epochNumber < e => userEpochShares[u][e] = 0
    BY DEF EntriesCurrent
  <2>3. \A e \in Epochs : e \in Int
    BY DEF Epochs
  <2>4. CASE u \in {from, to}
    BY <1>2, <2>1, <2>2, <2>3, <2>4
  <2>5. CASE u \notin {from, to}
    <3>1. bal[u] = balanceOf[u]
      <4>1. balanceOf[u] \in Nat
        BY DEF TypeOK
      <4> QED BY <2>5, <4>1 DEF bal, Moved
    <3> QED BY <2>1, <2>2, <2>5, <3>1
  <2> QED BY <2>4, <2>5
<1> HIDE DEF row
<1>4. userEpochShares' \in [Users -> [Epochs -> Nat]]
  BY <1>2, <1>3
<1>5. EntriesCurrent'
  BY <1>2, <1>3 DEF EntriesCurrent
<1>6. recordedInEpoch' \in [Users -> BOOLEAN]
  BY DEF Update, TypeOK
<1>7. \A u \in Users, e \in Epochs :
        e < epochNumber => userEpochShares'[u][e] = userEpochShares[u][e]
  BY <1>2, <1>3
<1> QED BY <1>4, <1>5, <1>6, <1>7

-----------------------------------------------------------------------------
(* Dividends. *)

LEMMA DividendNat ==
  ASSUME TypeOK, NEW u \in Users, NEW e \in Epochs
  PROVE  Dividend(u, e) \in Nat
<1>1. /\ userEpochShares[u][e] \in Nat
      /\ epochTotalShares[e] \in Nat
      /\ epochRewardPool[e] \in Nat
  BY DEF TypeOK
<1>2. epochRewardPool[e] * userEpochShares[u][e] \in Nat
  BY <1>1
<1>3. CASE epochTotalShares[e] > 0
  <2>1. (epochRewardPool[e] * userEpochShares[u][e]) \div epochTotalShares[e] \in Nat
    BY <1>1, <1>2, <1>3, FloorBounds
  <2> QED BY <2>1 DEF Dividend
<1>4. CASE ~ (epochTotalShares[e] > 0)
  BY <1>4 DEF Dividend
<1> QED BY <1>3, <1>4

LEMMA PendingNat ==
  ASSUME TypeOK
  PROVE  /\ \A u \in Users : getPendingDividends(u) \in Nat
         /\ SumTo(Pending, NumUsers) \in Nat
<1>1. MaxEpochs \in Nat /\ Epochs = 1 .. MaxEpochs
  BY ShareAssumption DEF Epochs
<1>2. ASSUME NEW u \in Users PROVE getPendingDividends(u) \in Nat
  <2>1. \A e \in Epochs : Claimable(u)[e] \in Nat
    BY DividendNat DEF Claimable
  <2> QED BY <1>1, <2>1, SumToNat DEF getPendingDividends
<1>3. NumUsers \in Nat /\ Users = 1 .. NumUsers
  BY ShareAssumption DEF Users
<1>4. \A u \in 1 .. NumUsers : Pending[u] \in Nat
  BY <1>2, <1>3 DEF Pending
<1>5. SumTo(Pending, NumUsers) \in Nat
  BY <1>3, <1>4, SumToNat
<1> QED BY <1>2, <1>5

\* What an account can claim depends on the finalised epochs alone.
LEMMA PendingKept ==
  ASSUME TypeOK, UNCHANGED epochVars, NEW u \in Users,
         lastClaimedEpoch'[u] = lastClaimedEpoch[u],
         \A e \in Epochs : e < epochNumber => userEpochShares'[u][e] = userEpochShares[u][e]
  PROVE  getPendingDividends(u)' = getPendingDividends(u)
<1>1. MaxEpochs \in Nat /\ Epochs = 1 .. MaxEpochs
  BY ShareAssumption DEF Epochs
<1> DEFINE f == Claimable(u)
           g == Claimable(u)'
<1>2. \A e \in 1 .. MaxEpochs : g[e] = f[e]
  BY <1>1 DEF Claimable, Unclaimed, Dividend, epochVars
<1>3. getPendingDividends(u) = SumTo(f, MaxEpochs)
  BY DEF getPendingDividends
<1>4. getPendingDividends(u)' = SumTo(g, MaxEpochs)
  BY DEF getPendingDividends
<1> HIDE DEF f, g
<1>5. SumTo(g, MaxEpochs) = SumTo(f, MaxEpochs)
  BY <1>1, <1>2, SumToSame
<1> QED BY <1>3, <1>4, <1>5

\* So a step that leaves the finalised epochs and the claims alone leaves
\* the whole debt in dividends, and the bound on the recorded shares.
LEMMA DebtKept ==
  ASSUME TypeOK, UNCHANGED <<epochVars, lastClaimedEpoch>>,
         \A u \in Users, e \in Epochs :
           e < epochNumber => userEpochShares'[u][e] = userEpochShares[u][e]
  PROVE  /\ SumTo(Pending, NumUsers)' = SumTo(Pending, NumUsers)
         /\ EpochSharesBounded => EpochSharesBounded'
<1>1. NumUsers \in Nat /\ Users = 1 .. NumUsers
  BY ShareAssumption DEF Users
<1>2. SumTo(Pending, NumUsers)' = SumTo(Pending, NumUsers)
  <2> DEFINE f == Pending
             g == Pending'
  <2>1. \A u \in Users : getPendingDividends(u)' = getPendingDividends(u)
    BY PendingKept
  <2>2. \A u \in 1 .. NumUsers : g[u] = f[u]
    BY <1>1, <2>1 DEF Pending
  <2> HIDE DEF f, g
  <2>3. SumTo(g, NumUsers) = SumTo(f, NumUsers)
    BY <1>1, <2>2, SumToSame
  <2> QED BY <2>3 DEF f, g
<1>3. ASSUME EpochSharesBounded PROVE EpochSharesBounded'
  <2>1. SUFFICES ASSUME NEW e \in Epochs, e < epochNumber
                 PROVE  SumTo(EpochShares(e)', NumUsers) <= epochTotalShares[e]
    BY DEF EpochSharesBounded, epochVars
  <2> DEFINE f == EpochShares(e)
             g == EpochShares(e)'
  <2>2. \A u \in 1 .. NumUsers : g[u] = f[u]
    BY <1>1, <2>1 DEF EpochShares
  <2>3. SumTo(f, NumUsers) <= epochTotalShares[e]
    BY <1>3, <2>1 DEF EpochSharesBounded
  <2> HIDE DEF f, g
  <2>4. SumTo(g, NumUsers) = SumTo(f, NumUsers)
    BY <1>1, <2>2, SumToSame
  <2>5. SumTo(g, NumUsers) <= epochTotalShares[e]
    BY <2>3, <2>4
  <2> QED BY <2>5 DEF g
<1> QED BY <1>2, <1>3

-----------------------------------------------------------------------------
(* Every step keeps the invariant. *)

LEMMA InitIInv == Init => IInv
<1> SUFFICES ASSUME Init PROVE IInv
  OBVIOUS
<1>1. TypeOK
  <2>1. /\ 0 \in Nat /\ 0 \in 0 .. MAX_SUPPLY /\ 0 \in 0 .. MaxEpochs
        /\ 0 \in 0 .. MaxBuys /\ 1 \in Epochs
    BY CurveAssumption, ShareAssumption DEF Epochs
  <2>2. [e \in Epochs |-> 0] \in [Epochs -> Nat]
    OBVIOUS
  <2>3. userEpochShares \in [Users -> [Epochs -> Nat]]
    BY <2>2 DEF Init
  <2> QED BY <2>1, <2>3 DEF Init, TypeOK
<1>2. NumUsers \in Nat /\ Users = 1 .. NumUsers
  BY ShareAssumption DEF Users
<1>3. SupplyConserved
  <2>1. SumTo(balanceOf, NumUsers) = 0
    BY <1>2, SumToZero DEF Init
  <2> QED BY <2>1 DEF SupplyConserved, Init
<1>4. EntriesCurrent /\ ClaimsPast
  BY ShareAssumption DEF Init, EntriesCurrent, ClaimsPast, Epochs
<1>5. EpochSharesBounded
  BY DEF Init, EpochSharesBounded, Epochs
<1>6. SolventUpToRounding
  <2>1. \A u \in 1 .. NumUsers : Pending[u] = 0
    <3> SUFFICES ASSUME NEW u \in Users PROVE getPendingDividends(u) = 0
      BY <1>2 DEF Pending
    <3>1. MaxEpochs \in Nat /\ Epochs = 1 .. MaxEpochs
      BY ShareAssumption DEF Epochs
    <3>2. \A e \in 1 .. MaxEpochs : Claimable(u)[e] = 0
      BY <3>1 DEF Claimable, Dividend, Init
    <3> QED BY <3>1, <3>2, SumToZero DEF getPendingDividends
  <2>2. SumTo(Pending, NumUsers) = 0
    BY <1>2, <2>1, SumToZero
  <2> QED BY <2>2 DEF SolventUpToRounding, Owed, Init, Cube, USDC_UNIT, INTEGRATION_DIVISOR
<1> QED BY <1>1, <1>3, <1>4, <1>5, <1>6 DEF IInv

\* Solvency in the form the steps use it: plain integers, the debt split.
LEMMA SolvencyUnfolded ==
  SolventUpToRounding <=>
    4200 * (usdcBalance + buys - (platformFees + rewardPool + SumTo(Pending, NumUsers)))
      >= Cube(currentSupply) * 1000000
BY DEF SolventUpToRounding, Owed, INTEGRATION_DIVISOR, USDC_UNIT

LEMMA BuyKeepsIInv ==
  ASSUME IInv, NEW u \in Users, NEW amount \in 1 .. MAX_SUPPLY, buyShares(u, amount)
  PROVE  IInv'
<1> USE DEF IInv
<1>1. /\ amount \in Nat \ {0}
      /\ u # NoUser /\ NoUser \notin Users
      /\ currentSupply + amount <= MAX_SUPPLY
      /\ MAX_SUPPLY \in Nat
  BY CurveAssumption DEF buyShares, CanBuy, Users, NoUser
<1>2. Update(NoUser, u, amount) /\ UNCHANGED <<epochVars, lastClaimedEpoch>>
  BY DEF buyShares
<1>3. /\ userEpochShares' \in [Users -> [Epochs -> Nat]]
      /\ recordedInEpoch' \in [Users -> BOOLEAN]
      /\ EntriesCurrent'
      /\ \A v \in Users, e \in Epochs :
           e < epochNumber => userEpochShares'[v][e] = userEpochShares[v][e]
  BY <1>1, <1>2, UpdateEntries DEF epochVars
<1>4. balanceOf' \in [Users -> Nat]
  BY <1>1, <1>2, MovedType DEF Update
<1>5. /\ SumTo(balanceOf, NumUsers)' = SumTo(balanceOf, NumUsers) + amount
      /\ totalSupply' = totalSupply + amount
  <2>1. SumTo(Moved(NoUser, u, amount), NumUsers)
          = SumTo(balanceOf, NumUsers) + (IF NoUser = NoUser THEN amount ELSE 0)
                                       - (IF u = NoUser THEN amount ELSE 0)
    BY <1>1, MovedTotal
  <2>2. SumTo(balanceOf, NumUsers) = totalSupply /\ totalSupply \in Nat
    BY DEF SupplyConserved, TypeOK
  <2>3. balanceOf' = Moved(NoUser, u, amount)
    BY <1>2 DEF Update
  <2>4. totalSupply' = totalSupply + (IF NoUser = NoUser THEN amount ELSE 0)
                                   - (IF u = NoUser THEN amount ELSE 0)
    BY <1>2 DEF Update
  <2> QED BY <1>1, <2>1, <2>2, <2>3, <2>4
<1>6. SupplyConserved' /\ currentSupply' = currentSupply + amount
  BY <1>5 DEF SupplyConserved, buyShares
<1>7. /\ BuyCost(currentSupply, amount) \in Nat
      /\ (Cube(currentSupply + amount) - Cube(currentSupply)) * USDC_UNIT
           <= INTEGRATION_DIVISOR * (BuyCost(currentSupply, amount) + 1)
  <2>1. currentSupply \in Nat
    BY <1>1 DEF TypeOK
  <2> QED BY <1>1, <2>1, BuyCostBounds
<1>8. TypeOK'
  <2>1. totalSupply' \in 0 .. MAX_SUPPLY /\ currentSupply' \in 0 .. MAX_SUPPLY
    BY <1>1, <1>5, <1>6 DEF TypeOK, SupplyConserved
  <2>2. usdcBalance' \in Nat /\ buys' \in 0 .. MaxBuys
    BY <1>7, ShareAssumption DEF TypeOK, buyShares
  <2> QED BY <1>3, <1>4, <2>1, <2>2 DEF TypeOK, buyShares, feeVars, epochVars
<1>9. ClaimsPast'
  BY <1>2 DEF ClaimsPast, epochVars
<1>10. EpochSharesBounded' /\ SumTo(Pending, NumUsers)' = SumTo(Pending, NumUsers)
  BY <1>2, <1>3, DebtKept
<1>11. SolventUpToRounding'
  <2> DEFINE pd == SumTo(Pending, NumUsers)
             c == BuyCost(currentSupply, amount)
             k == Cube(currentSupply)
             l == Cube(currentSupply + amount)
  <2>1. pd \in Nat /\ c \in Nat /\ k \in Nat /\ l \in Nat
    BY <1>1, <1>7, PendingNat, CubeNat DEF TypeOK
  <2>2. 4200 * (usdcBalance + buys - (platformFees + rewardPool + pd)) >= k * 1000000
    BY SolvencyUnfolded
  <2>3. (l - k) * 1000000 <= 4200 * (c + 1)
    BY <1>7 DEF USDC_UNIT, INTEGRATION_DIVISOR
  <2>4. /\ usdcBalance \in Nat /\ buys \in Nat /\ platformFees \in Nat /\ rewardPool \in Nat
        /\ usdcBalance' = usdcBalance + c /\ buys' = buys + 1
        /\ platformFees' = platformFees /\ rewardPool' = rewardPool
    BY ShareAssumption DEF TypeOK, buyShares, feeVars
  <2>5. Cube(currentSupply)' = l
    BY <1>6 DEF Cube
  <2>6. SumTo(Pending, NumUsers)' = pd
    BY <1>10
  <2> HIDE DEF pd, c, k, l
  <2>7. 4200 * (usdcBalance' + buys' - (platformFees' + rewardPool' + pd)) >= l * 1000000
    BY <2>1, <2>2, <2>3, <2>4
  <2> QED BY <2>5, <2>6, <2>7 DEF SolventUpToRounding, Owed, INTEGRATION_DIVISOR, USDC_UNIT
<1> QED BY <1>3, <1>6, <1>8, <1>9, <1>10, <1>11

LEMMA SellKeepsIInv ==
  ASSUME IInv, NEW u \in Users, NEW amount \in 1 .. MAX_SUPPLY, sellShares(u, amount)
  PROVE  IInv'
<1> USE DEF IInv
<1> DEFINE p == SellProceeds(currentSupply, amount)
<1>1. /\ amount \in 1 .. currentSupply
      /\ amount \in Nat
      /\ amount <= balanceOf[u]
      /\ u # NoUser /\ NoUser \notin Users
      /\ currentSupply \in Nat
  BY DEF sellShares, CanSell, Users, NoUser, TypeOK
<1>2. /\ Update(u, NoUser, amount)
      /\ UNCHANGED <<epochVars, lastClaimedEpoch, paused, buys>>
      /\ currentSupply' = currentSupply - amount
      /\ NetProceeds(p) <= usdcBalance
      /\ usdcBalance' = usdcBalance - NetProceeds(p)
      /\ rewardPool' = rewardPool + RewardShare(p)
      /\ platformFees' = platformFees + PlatformShare(p)
  BY DEF sellShares
<1>3. /\ userEpochShares' \in [Users -> [Epochs -> Nat]]
      /\ recordedInEpoch' \in [Users -> BOOLEAN]
      /\ EntriesCurrent'
      /\ \A v \in Users, e \in Epochs :
           e < epochNumber => userEpochShares'[v][e] = userEpochShares[v][e]
  BY <1>1, <1>2, UpdateEntries DEF epochVars
<1>4. balanceOf' \in [Users -> Nat]
  BY <1>1, <1>2, MovedType DEF Update
<1>5. /\ SumTo(balanceOf, NumUsers)' = SumTo(balanceOf, NumUsers) - amount
      /\ totalSupply' = totalSupply - amount
  <2>1. SumTo(Moved(u, NoUser, amount), NumUsers)
          = SumTo(balanceOf, NumUsers) + (IF u = NoUser THEN amount ELSE 0)
                                       - (IF NoUser = NoUser THEN amount ELSE 0)
    BY <1>1, MovedTotal
  <2>2. SumTo(balanceOf, NumUsers) = totalSupply /\ totalSupply \in Nat
    BY DEF SupplyConserved, TypeOK
  <2>3. balanceOf' = Moved(u, NoUser, amount)
    BY <1>2 DEF Update
  <2>4. totalSupply' = totalSupply + (IF u = NoUser THEN amount ELSE 0)
                                   - (IF NoUser = NoUser THEN amount ELSE 0)
    BY <1>2 DEF Update
  <2> QED BY <1>1, <2>1, <2>2, <2>3, <2>4
<1>6. SupplyConserved'
  BY <1>2, <1>5 DEF SupplyConserved
<1>7. /\ p \in Nat
      /\ INTEGRATION_DIVISOR * p
           <= (Cube(currentSupply) - Cube(currentSupply - amount)) * USDC_UNIT
      /\ RewardShare(p) \in Nat /\ PlatformShare(p) \in Nat /\ NetProceeds(p) \in Nat
      /\ NetProceeds(p) + RewardShare(p) + PlatformShare(p) = p
  <2>1. /\ p \in Nat
        /\ INTEGRATION_DIVISOR * p
             <= (Cube(currentSupply) - Cube(currentSupply - amount)) * USDC_UNIT
    BY <1>1, SellProceedsBounds
  <2> HIDE DEF p
  <2> QED BY <2>1, FeeSplit
<1> HIDE DEF p
<1>8. TypeOK'
  <2>1. totalSupply' \in 0 .. MAX_SUPPLY /\ currentSupply' \in 0 .. MAX_SUPPLY
    <3>1. MAX_SUPPLY \in Nat /\ currentSupply <= MAX_SUPPLY /\ totalSupply = currentSupply
      BY CurveAssumption DEF TypeOK, SupplyConserved
    <3> QED BY <1>1, <1>2, <1>5, <3>1
  <2>2. usdcBalance' \in Nat /\ rewardPool' \in Nat /\ platformFees' \in Nat
    BY <1>2, <1>7 DEF TypeOK
  <2> QED BY <1>2, <1>3, <1>4, <2>1, <2>2 DEF TypeOK, epochVars
<1>9. ClaimsPast'
  BY <1>2 DEF ClaimsPast, epochVars
<1>10. EpochSharesBounded' /\ SumTo(Pending, NumUsers)' = SumTo(Pending, NumUsers)
  BY <1>2, <1>3, DebtKept
<1>11. SolventUpToRounding'
  <2> DEFINE pd == SumTo(Pending, NumUsers)
             k == Cube(currentSupply)
             l == Cube(currentSupply - amount)
             r == RewardShare(p)
             f == PlatformShare(p)
             w == NetProceeds(p)
  <2>1. pd \in Nat /\ k \in Nat /\ l \in Nat
    <3>1. currentSupply - amount \in Nat
      BY <1>1
    <3> QED BY <1>1, <3>1, PendingNat, CubeNat
  <2>2. 4200 * (usdcBalance + buys - (platformFees + rewardPool + pd)) >= k * 1000000
    BY SolvencyUnfolded
  <2>3. 4200 * p <= (k - l) * 1000000
    BY <1>7 DEF USDC_UNIT, INTEGRATION_DIVISOR
  <2>4. /\ usdcBalance \in Nat /\ buys \in Nat /\ platformFees \in Nat /\ rewardPool \in Nat
        /\ usdcBalance' = usdcBalance - w /\ buys' = buys
        /\ platformFees' = platformFees + f /\ rewardPool' = rewardPool + r
        /\ r \in Nat /\ f \in Nat /\ w \in Nat /\ w + r + f = p
    BY <1>2, <1>7, ShareAssumption DEF TypeOK
  <2>5. Cube(currentSupply)' = l
    BY <1>2 DEF Cube
  <2>6. SumTo(Pending, NumUsers)' = pd
    BY <1>10
  <2> HIDE DEF pd, k, l, r, f, w
  <2>7. 4200 * (usdcBalance' + buys' - (platformFees' + rewardPool' + pd)) >= l * 1000000
    BY <2>1, <2>2, <2>3, <2>4, <1>7
  <2> QED BY <2>5, <2>6, <2>7 DEF SolventUpToRounding, Owed, INTEGRATION_DIVISOR, USDC_UNIT
<1> QED BY <1>3, <1>6, <1>8, <1>9, <1>10, <1>11

LEMMA TransferKeepsIInv ==
  ASSUME IInv, NEW from \in Users, NEW to \in Users, NEW value \in 0 .. MAX_SUPPLY,
         transfer(from, to, value)
  PROVE  IInv'
<1> USE DEF IInv
<1>1. /\ value \in Nat /\ value <= balanceOf[from]
      /\ from # NoUser /\ to # NoUser
  BY CurveAssumption DEF transfer, Users, NoUser
<1>2. /\ Update(from, to, value)
      /\ UNCHANGED <<currentSupply, feeVars, epochVars, lastClaimedEpoch,
                     paused, usdcBalance, buys>>
  BY DEF transfer
<1>3. /\ userEpochShares' \in [Users -> [Epochs -> Nat]]
      /\ recordedInEpoch' \in [Users -> BOOLEAN]
      /\ EntriesCurrent'
      /\ \A v \in Users, e \in Epochs :
           e < epochNumber => userEpochShares'[v][e] = userEpochShares[v][e]
  BY <1>1, <1>2, UpdateEntries DEF epochVars
<1>4. balanceOf' \in [Users -> Nat]
  BY <1>1, <1>2, MovedType DEF Update
<1>5. SumTo(balanceOf, NumUsers)' = SumTo(balanceOf, NumUsers) /\ totalSupply' = totalSupply
  <2>1. SumTo(Moved(from, to, value), NumUsers)
          = SumTo(balanceOf, NumUsers) + (IF from = NoUser THEN value ELSE 0)
                                       - (IF to = NoUser THEN value ELSE 0)
    BY <1>1, MovedTotal
  <2>2. SumTo(balanceOf, NumUsers) = totalSupply /\ totalSupply \in Nat
    BY DEF SupplyConserved, TypeOK
  <2>3. balanceOf' = Moved(from, to, value)
    BY <1>2 DEF Update
  <2>4. totalSupply' = totalSupply + (IF from = NoUser THEN value ELSE 0)
                                   - (IF to = NoUser THEN value ELSE 0)
    BY <1>2 DEF Update
  <2> QED BY <1>1, <2>1, <2>2, <2>3, <2>4
<1>6. SupplyConserved'
  BY <1>2, <1>5 DEF SupplyConserved
<1>7. TypeOK'
  BY <1>2, <1>3, <1>4, <1>5 DEF TypeOK, feeVars, epochVars
<1>8. ClaimsPast'
  BY <1>2 DEF ClaimsPast, epochVars
<1>9. EpochSharesBounded' /\ SumTo(Pending, NumUsers)' = SumTo(Pending, NumUsers)
  BY <1>2, <1>3, DebtKept
<1>10. SolventUpToRounding'
  BY <1>2, <1>9 DEF SolventUpToRounding, Owed, feeVars
<1> QED BY <1>3, <1>6, <1>7, <1>8, <1>9, <1>10

\* Steps that touch no share and no epoch.
LEMMA FeeStepKeepsIInv ==
  ASSUME IInv, withdrawPlatformFees \/ pause \/ unpause
  PROVE  IInv'
<1> USE DEF IInv
<1>1. UNCHANGED <<shareVars, rewardPool, epochVars, lastClaimedEpoch, buys>>
  BY DEF withdrawPlatformFees, pause, unpause, feeVars
<1>2. PICK w \in Nat : /\ w <= usdcBalance /\ w <= platformFees
                       /\ usdcBalance' = usdcBalance - w
                       /\ platformFees' = platformFees - w
  <2>1. usdcBalance \in Nat /\ platformFees \in Nat
    BY DEF TypeOK
  <2>2. CASE withdrawPlatformFees
    BY <2>1, <2>2 DEF withdrawPlatformFees
  <2>3. CASE pause \/ unpause
    <3>1. usdcBalance' = usdcBalance - 0 /\ platformFees' = platformFees - 0
      BY <2>1, <2>3 DEF pause, unpause, feeVars
    <3> QED BY <2>1, <3>1
  <2> QED BY <2>2, <2>3
<1>3. TypeOK'
  <2>1. paused' \in BOOLEAN
    BY Zenon DEF withdrawPlatformFees, pause, unpause, TypeOK
  <2>2. usdcBalance' \in Nat /\ platformFees' \in Nat
    BY <1>2 DEF TypeOK
  <2> QED BY <1>1, <2>1, <2>2 DEF TypeOK, shareVars, epochVars
<1>4. SupplyConserved' /\ EntriesCurrent' /\ ClaimsPast'
  BY <1>1 DEF SupplyConserved, EntriesCurrent, ClaimsPast, shareVars, epochVars
<1>5. EpochSharesBounded' /\ SumTo(Pending, NumUsers)' = SumTo(Pending, NumUsers)
  BY <1>1, DebtKept DEF shareVars
<1>6. SolventUpToRounding'
  <2> DEFINE pd == SumTo(Pending, NumUsers)
  <2>1. pd \in Nat
    BY PendingNat
  <2>2. SumTo(Pending, NumUsers)' = pd
    BY <1>5
  <2>3. /\ usdcBalance \in Nat /\ buys \in Nat /\ platformFees \in Nat /\ rewardPool \in Nat
        /\ buys' = buys /\ rewardPool' = rewardPool /\ currentSupply' = currentSupply
    BY <1>1, ShareAssumption DEF TypeOK, shareVars
  <2> HIDE DEF pd
  <2>4. usdcBalance' + buys' - (platformFees' + rewardPool' + pd)
          = usdcBalance + buys - (platformFees + rewardPool + pd)
    BY <1>2, <2>1, <2>3
  <2>5. INTEGRATION_DIVISOR * (usdcBalance + buys - (platformFees + rewardPool + pd))
          >= Cube(currentSupply) * USDC_UNIT
    BY DEF SolventUpToRounding, Owed, pd
  <2> QED BY <2>2, <2>3, <2>4, <2>5 DEF SolventUpToRounding, Owed
<1> QED BY <1>3, <1>4, <1>5, <1>6

\* A claim pays exactly the part of the debt it removes.
LEMMA ClaimPays ==
  ASSUME IInv, NEW u \in Users, claimDividends(u)
  PROVE  /\ getPendingDividends(u)' = 0
         /\ \A v \in Users : v # u => getPendingDividends(v)' = getPendingDividends(v)
         /\ SumTo(Pending, NumUsers)' = SumTo(Pending, NumUsers) - getPendingDividends(u)
<1> USE DEF IInv
<1>1. /\ UNCHANGED <<shareVars, feeVars, epochVars, paused, buys>>
      /\ lastClaimedEpoch' = [lastClaimedEpoch EXCEPT ![u] = epochNumber - 1]
  BY DEF claimDividends
<1>2. getPendingDividends(u)' = 0
  <2> DEFINE g == Claimable(u)'
  <2>1. MaxEpochs \in Nat /\ Epochs = 1 .. MaxEpochs
    BY ShareAssumption DEF Epochs
  <2>2. \A e \in Epochs : ~ Unclaimed(u, e)'
    <3>1. lastClaimedEpoch'[u] = epochNumber - 1 /\ epochNumber' = epochNumber
      BY <1>1 DEF epochVars, TypeOK
    <3>2. epochNumber \in Nat
      BY <2>1 DEF TypeOK
    <3> QED BY <2>1, <3>1, <3>2 DEF Unclaimed
  <2>3. \A e \in 1 .. MaxEpochs : g[e] = 0
    BY <2>1, <2>2 DEF Claimable
  <2> HIDE DEF g
  <2>4. SumTo(g, MaxEpochs) = 0
    BY <2>1, <2>3, SumToZero
  <2> QED BY <2>4 DEF getPendingDividends, g
<1>3. \A v \in Users : v # u => getPendingDividends(v)' = getPendingDividends(v)
  <2> SUFFICES ASSUME NEW v \in Users, v # u
               PROVE  getPendingDividends(v)' = getPendingDividends(v)
    OBVIOUS
  <2>1. lastClaimedEpoch'[v] = lastClaimedEpoch[v]
    BY <1>1 DEF TypeOK
  <2> QED BY <1>1, <2>1, PendingKept DEF shareVars
<1>4. SumTo(Pending, NumUsers)' = SumTo(Pending, NumUsers) - getPendingDividends(u)
  <2> DEFINE f == Pending
             g == Pending'
  <2>1. NumUsers \in Nat /\ Users = 1 .. NumUsers
    BY ShareAssumption DEF Users
  <2>2. /\ \A v \in 1 .. NumUsers : f[v] \in Int
        /\ f[u] = getPendingDividends(u)
    BY <2>1, PendingNat DEF Pending
  <2>3. /\ g[u] = 0
        /\ \A v \in 1 .. NumUsers : v # u => g[v] = f[v]
    BY <1>2, <1>3, <2>1 DEF Pending
  <2> HIDE DEF f, g
  <2>4. SumTo(g, NumUsers) = SumTo(f, NumUsers) + (g[u] - f[u])
    <3>1. NumUsers \in Nat /\ u \in 1 .. NumUsers /\ g[u] \in Int
      BY <2>1, <2>3
    <3> QED BY <2>2, <2>3, <3>1, SumToUpdate, SMTT(30)
  <2>5. SumTo(f, NumUsers) \in Int /\ f[u] \in Int
    <3>1. SumTo(f, NumUsers) \in Int
      BY <2>1, <2>2, SumToInt
    <3> QED BY <2>1, <2>2, <3>1
  <2>6. SumTo(g, NumUsers) = SumTo(f, NumUsers) - f[u]
    BY <2>3, <2>4, <2>5
  <2> QED BY <2>2, <2>6 DEF f, g
<1> QED BY <1>2, <1>3, <1>4

LEMMA ClaimKeepsIInv ==
  ASSUME IInv, NEW u \in Users, claimDividends(u)
  PROVE  IInv'
<1> USE DEF IInv
<1>1. /\ UNCHANGED <<shareVars, feeVars, epochVars, paused, buys>>
      /\ lastClaimedEpoch' = [lastClaimedEpoch EXCEPT ![u] = epochNumber - 1]
      /\ getPendingDividends(u) <= usdcBalance
      /\ usdcBalance' = usdcBalance - getPendingDividends(u)
      /\ getPendingDividends(u) \in Nat
  BY PendingNat DEF claimDividends
<1>2. epochNumber \in Nat /\ epochNumber - 1 \in 0 .. MaxEpochs
  BY ShareAssumption DEF TypeOK, Epochs
<1>3. TypeOK'
  <2>1. usdcBalance' \in Nat
    BY <1>1 DEF TypeOK
  <2>2. lastClaimedEpoch' \in [Users -> 0 .. MaxEpochs]
    BY <1>1, <1>2 DEF TypeOK
  <2> QED BY <1>1, <2>1, <2>2 DEF TypeOK, shareVars, feeVars, epochVars
<1>4. SupplyConserved' /\ EntriesCurrent'
  BY <1>1 DEF SupplyConserved, EntriesCurrent, shareVars, epochVars
<1>5. ClaimsPast'
  BY <1>1, <1>2 DEF ClaimsPast, epochVars, TypeOK
<1>6. EpochSharesBounded'
  BY <1>1 DEF EpochSharesBounded, EpochShares, shareVars, epochVars
<1>7. SolventUpToRounding'
  <2> DEFINE pd == SumTo(Pending, NumUsers)
             d == getPendingDividends(u)
  <2>1. pd \in Nat /\ d \in Nat
    BY PendingNat
  <2>2. SumTo(Pending, NumUsers)' = pd - d
    BY ClaimPays
  <2>3. /\ usdcBalance \in Nat /\ buys \in Nat /\ platformFees \in Nat /\ rewardPool \in Nat
        /\ buys' = buys /\ rewardPool' = rewardPool /\ currentSupply' = currentSupply
        /\ platformFees' = platformFees /\ usdcBalance' = usdcBalance - d
    BY <1>1, ShareAssumption DEF TypeOK, shareVars, feeVars
  <2> HIDE DEF pd, d
  <2>4. usdcBalance' + buys' - (platformFees' + rewardPool' + (pd - d))
          = usdcBalance + buys - (platformFees + rewardPool + pd)
    BY <2>1, <2>3
  <2>5. INTEGRATION_DIVISOR * (usdcBalance + buys - (platformFees + rewardPool + pd))
          >= Cube(currentSupply) * USDC_UNIT
    BY DEF SolventUpToRounding, Owed, pd
  <2> QED BY <2>2, <2>3, <2>4, <2>5 DEF SolventUpToRounding, Owed
<1> QED BY <1>3, <1>4, <1>5, <1>6, <1>7

\* What finalising the current epoch gives to an account.
NewDividend(u) ==
  IF userEpochShares[u][epochNumber] > 0 /\ totalSupply > 0
  THEN (rewardPool * userEpochShares[u][epochNumber]) \div totalSupply
  ELSE 0

\* The recorded entries of the current epoch never exceed the supply.
LEMMA CurrentSharesBounded ==
  ASSUME TypeOK, SupplyConserved, EntriesCurrent
  PROVE  SumTo(EpochShares(epochNumber), NumUsers) <= totalSupply
<1> DEFINE f == EpochShares(epochNumber)
<1>1. NumUsers \in Nat /\ Users = 1 .. NumUsers
  BY ShareAssumption DEF Users
<1>2. \A u \in 1 .. NumUsers : f[u] \in Int /\ balanceOf[u] \in Int /\ 1 * f[u] <= 1 * balanceOf[u]
  <2> SUFFICES ASSUME NEW u \in Users
               PROVE  f[u] \in Int /\ balanceOf[u] \in Int /\ 1 * f[u] <= 1 * balanceOf[u]
    BY <1>1
  <2>1. balanceOf[u] \in Nat /\ f[u] \in {0, balanceOf[u]}
    BY DEF TypeOK, EntriesCurrent, EpochShares
  <2> HIDE DEF f
  <2> QED BY <2>1
<1>3. SumTo(f, NumUsers) \in Int /\ SumTo(balanceOf, NumUsers) \in Int
  <2> HIDE DEF f
  <2> QED BY <1>1, <1>2, SumToInt
<1>4. 1 * SumTo(f, NumUsers) <= 1 * SumTo(balanceOf, NumUsers)
  <2> HIDE DEF f
  <2> QED BY <1>1, <1>2, SumToScaled
<1>5. SumTo(balanceOf, NumUsers) = totalSupply
  BY DEF SupplyConserved
<1> HIDE DEF f
<1>6. SumTo(f, NumUsers) <= totalSupply
  BY <1>3, <1>4, <1>5
<1> QED BY <1>6 DEF f

\* The floors of the shares of a pool add up to the pool at most.
LEMMA NewDividendsBounded ==
  ASSUME TypeOK, SupplyConserved, EntriesCurrent
  PROVE  /\ \A u \in Users : NewDividend(u) \in Nat
         /\ SumTo([u \in Users |-> NewDividend(u)], NumUsers) \in Nat
         /\ SumTo([u \in Users |-> NewDividend(u)], NumUsers) <= rewardPool
<1> DEFINE d == [u \in Users |-> NewDividend(u)]
           f == EpochShares(epochNumber)
<1>1. NumUsers \in Nat /\ Users = 1 .. NumUsers
  BY ShareAssumption DEF Users
<1>2. totalSupply \in Nat /\ rewardPool \in Nat
  BY DEF TypeOK
<1>3. ASSUME NEW u \in Users
      PROVE  /\ NewDividend(u) \in Nat
             /\ f[u] \in Nat
             /\ totalSupply * NewDividend(u) <= rewardPool * f[u]
  <2> DEFINE s == userEpochShares[u][epochNumber]
  <2>1. s \in Nat /\ f[u] = s
    BY DEF TypeOK, EpochShares
  <2>2. rewardPool * s \in Nat
    BY <1>2, <2>1
  <2>3. CASE s > 0 /\ totalSupply > 0
    <3>1. NewDividend(u) = (rewardPool * s) \div totalSupply
      BY <2>3 DEF NewDividend
    <3> HIDE DEF s, f
    <3>2. /\ (rewardPool * s) \div totalSupply \in Nat
          /\ totalSupply * ((rewardPool * s) \div totalSupply) <= rewardPool * s
      BY <1>2, <2>2, <2>3, FloorBounds
    <3> QED BY <2>1, <3>1, <3>2
  <2>4. CASE ~ (s > 0 /\ totalSupply > 0)
    <3>1. NewDividend(u) = 0
      BY <2>4 DEF NewDividend
    <3> HIDE DEF s, f
    <3> QED BY <1>2, <2>1, <2>2, <3>1
  <2> QED BY <2>3, <2>4
<1>4. \A u \in 1 .. NumUsers : d[u] = NewDividend(u) /\ d[u] \in Nat
  BY <1>1, <1>3
<1>5. SumTo(d, NumUsers) \in Nat
  <2> HIDE DEF d
  <2> QED BY <1>1, <1>4, SumToNat
<1>6. \A u \in 1 .. NumUsers :
        d[u] \in Int /\ f[u] \in Int /\ totalSupply * d[u] <= rewardPool * f[u]
  BY <1>1, <1>3, <1>4
<1>7. SumTo(f, NumUsers) <= totalSupply
  BY CurrentSharesBounded
<1> HIDE DEF d, f
<1>8. SumTo(f, NumUsers) \in Int
  <2>1. \A u \in 1 .. NumUsers : f[u] \in Int
    BY <1>6
  <2> QED BY <1>1, <2>1, SumToInt
<1>9. totalSupply * SumTo(d, NumUsers) <= rewardPool * SumTo(f, NumUsers)
  <2>1. totalSupply \in Int /\ rewardPool \in Int /\ NumUsers \in Nat
    BY <1>1, <1>2
  <2> QED BY <1>6, <2>1, SumToScaled
<1>10. SumTo(d, NumUsers) <= rewardPool
  <2>1. CASE totalSupply = 0
    <3>1. \A u \in 1 .. NumUsers : d[u] = 0
      BY <1>4, <2>1 DEF NewDividend
    <3>2. SumTo(d, NumUsers) = 0
      BY <1>1, <3>1, SumToZero
    <3> QED BY <1>2, <3>2
  <2>2. CASE totalSupply # 0
    <3>1. \A a \in Nat : \A x, y \in Int : x <= y => a * x <= a * y
      OBVIOUS
    <3>2. rewardPool * SumTo(f, NumUsers) <= rewardPool * totalSupply
      BY <1>2, <1>7, <1>8, <3>1
    <3>3. \A a \in Nat \ {0} : \A x, y \in Nat : a * x <= y * a => x <= y
      OBVIOUS
    <3>4. totalSupply * SumTo(d, NumUsers) <= rewardPool * totalSupply
      <4>1. /\ totalSupply * SumTo(d, NumUsers) \in Int
            /\ rewardPool * SumTo(f, NumUsers) \in Int
            /\ rewardPool * totalSupply \in Int
        BY <1>2, <1>5, <1>8
      <4> QED BY <1>9, <3>2, <4>1
    <3> QED BY <1>2, <1>5, <2>2, <3>3, <3>4
  <2> QED BY <2>1, <2>2
<1> QED BY <1>3, <1>5, <1>10 DEF d

\* Finalising adds each account's new dividend to what it can claim.
LEMMA FinalizePays ==
  ASSUME IInv, finalizeEpoch
  PROVE  /\ \A u \in Users :
              getPendingDividends(u)' = getPendingDividends(u) + NewDividend(u)
         /\ SumTo(Pending, NumUsers)'
              = SumTo(Pending, NumUsers) + SumTo([u \in Users |-> NewDividend(u)], NumUsers)
<1> USE DEF IInv
<1>1. /\ UNCHANGED <<shareVars, lastClaimedEpoch>>
      /\ epochNumber' = epochNumber + 1
      /\ epochRewardPool' = [epochRewardPool EXCEPT ![epochNumber] = rewardPool]
      /\ epochTotalShares' = [epochTotalShares EXCEPT ![epochNumber] = totalSupply]
  BY DEF finalizeEpoch
<1>2. /\ MaxEpochs \in Nat /\ Epochs = 1 .. MaxEpochs
      /\ epochNumber \in 1 .. MaxEpochs
  BY ShareAssumption DEF Epochs, TypeOK
<1>3. ASSUME NEW u \in Users
      PROVE  getPendingDividends(u)' = getPendingDividends(u) + NewDividend(u)
  <2> DEFINE f == Claimable(u)
             g == Claimable(u)'
  <2>1. lastClaimedEpoch[u] \in Nat /\ lastClaimedEpoch[u] < epochNumber
    BY DEF ClaimsPast, TypeOK
  <2>2. \A e \in 1 .. MaxEpochs : f[e] \in Int
    BY <1>2, DividendNat DEF Claimable
  <2>3. f[epochNumber] = 0
    BY <1>2 DEF Claimable, Unclaimed
  <2>4. g[epochNumber] = NewDividend(u)
    <3>1. PICK E \in 1 .. MaxEpochs : E = epochNumber
      BY <1>2
    <3>2. /\ epochRewardPool'[E] = rewardPool
          /\ epochTotalShares'[E] = totalSupply
          /\ userEpochShares' = userEpochShares
      BY <1>1, <3>1 DEF TypeOK, shareVars
    <3>3. lastClaimedEpoch'[u] < E /\ E < epochNumber'
      BY <1>1, <1>2, <2>1, <3>1
    <3>4. g[E] = Dividend(u, E)'
      BY <1>2, <3>3 DEF Claimable, Unclaimed
    <3> HIDE DEF g
    <3>5. Dividend(u, E)' = NewDividend(u)
      BY <3>1, <3>2 DEF Dividend, NewDividend
    <3> QED BY <3>1, <3>4, <3>5
  <2>5. \A e \in 1 .. MaxEpochs : e # epochNumber => g[e] = f[e]
    <3> SUFFICES ASSUME NEW e \in 1 .. MaxEpochs, e # epochNumber PROVE g[e] = f[e]
      OBVIOUS
    <3>1. /\ epochRewardPool'[e] = epochRewardPool[e]
          /\ epochTotalShares'[e] = epochTotalShares[e]
          /\ userEpochShares' = userEpochShares /\ lastClaimedEpoch' = lastClaimedEpoch
      BY <1>1, <1>2 DEF TypeOK, shareVars
    <3>2. e < epochNumber + 1 <=> e < epochNumber
      BY <1>2
    <3> QED BY <1>1, <1>2, <3>1, <3>2 DEF Claimable, Unclaimed, Dividend
  <2>6. NewDividend(u) \in Nat
    BY NewDividendsBounded
  <2>7. getPendingDividends(u) = SumTo(f, MaxEpochs)
    BY DEF getPendingDividends
  <2>8. getPendingDividends(u)' = SumTo(g, MaxEpochs)
    BY DEF getPendingDividends
  <2>9. SumTo(f, MaxEpochs) \in Int
    <3> HIDE DEF f
    <3> QED BY <1>2, <2>2, SumToInt
  <2> HIDE DEF f, g
  <2>10. SumTo(g, MaxEpochs) = SumTo(f, MaxEpochs) + (g[epochNumber] - f[epochNumber])
    <3>1. g[epochNumber] \in Int
      BY <2>4, <2>6
    <3> QED BY <1>2, <2>2, <2>5, <3>1, SumToUpdate, SMTT(30)
  <2> QED BY <2>3, <2>4, <2>6, <2>7, <2>8, <2>9, <2>10
<1>4. SumTo(Pending, NumUsers)'
        = SumTo(Pending, NumUsers) + SumTo([u \in Users |-> NewDividend(u)], NumUsers)
  <2> DEFINE f == Pending
             d == [u \in Users |-> NewDividend(u)]
             g == Pending'
  <2>1. NumUsers \in Nat /\ Users = 1 .. NumUsers
    BY ShareAssumption DEF Users
  <2>2. \A u \in 1 .. NumUsers : f[u] \in Int /\ d[u] \in Int /\ g[u] = f[u] + d[u]
    <3>1. \A u \in Users : getPendingDividends(u) \in Nat /\ NewDividend(u) \in Nat
      BY PendingNat, NewDividendsBounded
    <3> QED BY <1>3, <2>1, <3>1 DEF Pending
  <2> HIDE DEF f, d, g
  <2>3. SumTo(g, NumUsers) = SumTo(f, NumUsers) + SumTo(d, NumUsers)
    BY <2>1, <2>2, SumToAdd
  <2> QED BY <2>3 DEF f, d, g
<1> QED BY <1>3, <1>4

LEMMA FinalizeKeepsIInv ==
  ASSUME IInv, finalizeEpoch
  PROVE  IInv'
<1> USE DEF IInv
<1>1. /\ UNCHANGED <<shareVars, platformFees, lastClaimedEpoch, paused, usdcBalance, buys>>
      /\ epochNumber < MaxEpochs
      /\ epochNumber' = epochNumber + 1
      /\ rewardPool' = 0
      /\ epochRewardPool' = [epochRewardPool EXCEPT ![epochNumber] = rewardPool]
      /\ epochTotalShares' = [epochTotalShares EXCEPT ![epochNumber] = totalSupply]
  BY DEF finalizeEpoch
<1>2. /\ MaxEpochs \in Nat /\ Epochs = 1 .. MaxEpochs
      /\ epochNumber \in 1 .. MaxEpochs /\ epochNumber + 1 \in 1 .. MaxEpochs
  BY <1>1, ShareAssumption DEF Epochs, TypeOK
<1>3. TypeOK'
  <2>1. /\ epochRewardPool' \in [Epochs -> Nat]
        /\ epochTotalShares' \in [Epochs -> 0 .. MAX_SUPPLY]
    BY <1>1 DEF TypeOK
  <2> QED BY <1>1, <1>2, <2>1 DEF TypeOK, shareVars
<1>4. SupplyConserved'
  BY <1>1 DEF SupplyConserved, shareVars
<1>5. EntriesCurrent'
  <2> SUFFICES ASSUME NEW u \in Users
               PROVE  /\ userEpochShares'[u][epochNumber'] \in {0, balanceOf'[u]}
                      /\ \A e \in Epochs : epochNumber' < e => userEpochShares'[u][e] = 0
    BY DEF EntriesCurrent
  <2>1. \A e \in Epochs : epochNumber < e => userEpochShares[u][e] = 0
    BY DEF EntriesCurrent
  <2> QED BY <1>1, <1>2, <2>1 DEF shareVars
<1>6. ClaimsPast'
  <2> SUFFICES ASSUME NEW u \in Users PROVE lastClaimedEpoch'[u] < epochNumber'
    BY DEF ClaimsPast
  <2>1. lastClaimedEpoch[u] \in Nat /\ lastClaimedEpoch[u] < epochNumber
    BY DEF ClaimsPast, TypeOK
  <2> QED BY <1>1, <1>2, <2>1
<1>7. EpochSharesBounded'
  <2> SUFFICES ASSUME NEW e \in Epochs, e < epochNumber'
               PROVE  SumTo(EpochShares(e), NumUsers)' <= epochTotalShares'[e]
    BY DEF EpochSharesBounded
  <2>1. SumTo(EpochShares(e), NumUsers)' = SumTo(EpochShares(e), NumUsers)
    BY <1>1 DEF EpochShares, shareVars
  <2>2. CASE e = epochNumber
    <3>1. epochTotalShares'[e] = totalSupply
      BY <1>1, <2>2 DEF TypeOK
    <3> QED BY <2>1, <2>2, <3>1, CurrentSharesBounded
  <2>3. CASE e # epochNumber
    <3>1. e < epochNumber
      BY <1>1, <1>2, <2>3
    <3>2. epochTotalShares'[e] = epochTotalShares[e]
      BY <1>1, <2>3 DEF TypeOK
    <3> QED BY <2>1, <3>1, <3>2 DEF EpochSharesBounded
  <2> QED BY <2>2, <2>3
<1>8. SolventUpToRounding'
  <2> DEFINE pd == SumTo(Pending, NumUsers)
             n == SumTo([u \in Users |-> NewDividend(u)], NumUsers)
  <2>1. pd \in Nat /\ n \in Nat /\ n <= rewardPool
    BY PendingNat, NewDividendsBounded
  <2>2. SumTo(Pending, NumUsers)' = pd + n
    BY FinalizePays
  <2>3. /\ usdcBalance \in Nat /\ buys \in Nat /\ platformFees \in Nat /\ rewardPool \in Nat
        /\ usdcBalance' = usdcBalance /\ buys' = buys /\ platformFees' = platformFees
        /\ currentSupply' = currentSupply /\ rewardPool' = 0
        /\ Cube(currentSupply) \in Nat
    BY <1>1, ShareAssumption, CubeNat DEF TypeOK, shareVars
  <2>4. 4200 * (usdcBalance + buys - (platformFees + rewardPool + pd))
          >= Cube(currentSupply) * 1000000
    BY SolvencyUnfolded
  <2> HIDE DEF pd, n
  <2>5. 4200 * (usdcBalance + buys - (platformFees + 0 + (pd + n)))
          >= Cube(currentSupply) * 1000000
    BY <2>1, <2>3, <2>4
  <2>6. 4200 * (usdcBalance' + buys' - (platformFees' + rewardPool' + (pd + n)))
          >= Cube(currentSupply') * 1000000
    BY <2>3, <2>5
  <2> QED BY <2>2, <2>6 DEF SolventUpToRounding, Owed, INTEGRATION_DIVISOR, USDC_UNIT
<1> QED BY <1>3, <1>4, <1>5, <1>6, <1>7, <1>8

LEMMA NextKeepsIInv == IInv /\ [Next]_vars => IInv'
<1> SUFFICES ASSUME IInv, [Next]_vars PROVE IInv'
  OBVIOUS
<1>1. CASE \E u \in Users, amount \in 1 .. MAX_SUPPLY : buyShares(u, amount)
  BY <1>1, BuyKeepsIInv
<1>2. CASE \E u \in Users, amount \in 1 .. MAX_SUPPLY : sellShares(u, amount)
  BY <1>2, SellKeepsIInv
<1>3. CASE \E from, to \in Users, value \in 0 .. MAX_SUPPLY : transfer(from, to, value)
  BY <1>3, TransferKeepsIInv
<1>4. CASE finalizeEpoch
  BY <1>4, FinalizeKeepsIInv
<1>5. CASE \E u \in Users : claimDividends(u)
  BY <1>5, ClaimKeepsIInv
<1>6. CASE withdrawPlatformFees \/ pause \/ unpause
  BY <1>6, FeeStepKeepsIInv
<1>7. CASE UNCHANGED vars
  <2>1. UNCHANGED <<shareVars, feeVars, epochVars, lastClaimedEpoch, paused, usdcBalance, buys>>
    BY <1>7 DEF vars
  <2> QED BY <2>1 DEF IInv, TypeOK, SupplyConserved, EntriesCurrent, ClaimsPast,
                      EpochSharesBounded, EpochShares, SolventUpToRounding, Owed, Pending,
                      getPendingDividends, Claimable, Unclaimed, Dividend,
                      shareVars, feeVars, epochVars
<1> QED BY <1>1, <1>2, <1>3, <1>4, <1>5, <1>6, <1>7 DEF Next

\* The invariant holds in every state of every behaviour.
THEOREM Invariance == Spec => []IInv
BY InitIInv, NextKeepsIInv, PTL DEF Spec

-----------------------------------------------------------------------------
(* The properties. *)

\* Every state variable keeps its type: no counter goes negative, the supply
\* never passes MAX_SUPPLY.
THEOREM TypeCorrect == Spec => []TypeOK
<1>1. IInv => TypeOK
  BY DEF IInv
<1> QED BY Invariance, <1>1, PTL

\* totalSupply, currentSupply and the sum of the balances always agree.
THEOREM SupplyIsConserved == Spec => []SupplyConserved
<1>1. IInv => SupplyConserved
  BY DEF IInv
<1> QED BY Invariance, <1>1, PTL

\* No finalised epoch counts more shares for its accounts than its total.
THEOREM EpochSharesAreBounded == Spec => []EpochSharesBounded
<1>1. IInv => EpochSharesBounded
  BY DEF IInv
<1> QED BY Invariance, <1>1, PTL

\* The contract can pay all shares, fees and dividends, up to one unit of
\* 1e-6 USDC for each purchase.
THEOREM SolvencyUpToRounding == Spec => []SolventUpToRounding
<1>1. IInv => SolventUpToRounding
  BY DEF IInv
<1> QED BY Invariance, <1>1, PTL

\* Every step leaves the entries of finalised epochs alone.
LEMMA StepKeepsFinalized ==
  ASSUME IInv, [Next]_vars, NEW e \in Epochs, e < epochNumber
  PROVE  /\ epochRewardPool'[e] = epochRewardPool[e]
         /\ epochTotalShares'[e] = epochTotalShares[e]
         /\ \A u \in Users : userEpochShares'[u][e] = userEpochShares[u][e]
<1> USE DEF IInv
<1>1. CASE \E u \in Users, amount \in 1 .. MAX_SUPPLY : buyShares(u, amount)
  <2>1. PICK u \in Users, amount \in 1 .. MAX_SUPPLY : buyShares(u, amount)
    BY <1>1
  <2>2. NoUser \notin Users /\ amount \in Nat
    BY CurveAssumption DEF Users, NoUser
  <2>3. Update(NoUser, u, amount) /\ UNCHANGED epochVars
    BY <2>1 DEF buyShares
  <2> QED BY <2>2, <2>3, UpdateEntries DEF epochVars
<1>2. CASE \E u \in Users, amount \in 1 .. MAX_SUPPLY : sellShares(u, amount)
  <2>1. PICK u \in Users, amount \in 1 .. MAX_SUPPLY : sellShares(u, amount)
    BY <1>2
  <2>2. amount \in Nat /\ amount <= balanceOf[u]
    BY <2>1, CurveAssumption DEF sellShares
  <2>3. Update(u, NoUser, amount) /\ UNCHANGED epochVars
    BY <2>1 DEF sellShares
  <2> QED BY <2>2, <2>3, UpdateEntries DEF epochVars
<1>3. CASE \E from, to \in Users, value \in 0 .. MAX_SUPPLY : transfer(from, to, value)
  <2>1. PICK from \in Users, to \in Users, value \in 0 .. MAX_SUPPLY :
             transfer(from, to, value)
    BY <1>3
  <2>2. value \in Nat /\ value <= balanceOf[from]
    BY <2>1, CurveAssumption DEF transfer
  <2>3. Update(from, to, value) /\ UNCHANGED epochVars
    BY <2>1 DEF transfer
  <2> QED BY <2>2, <2>3, UpdateEntries DEF epochVars
<1>4. CASE finalizeEpoch
  <2>1. e # epochNumber /\ e \in Epochs
    BY ShareAssumption DEF Epochs, TypeOK
  <2>2. /\ UNCHANGED shareVars
        /\ epochRewardPool' = [epochRewardPool EXCEPT ![epochNumber] = rewardPool]
        /\ epochTotalShares' = [epochTotalShares EXCEPT ![epochNumber] = totalSupply]
    BY <1>4 DEF finalizeEpoch
  <2> QED BY <2>1, <2>2 DEF TypeOK, shareVars
<1>5. CASE \E u \in Users : claimDividends(u)
  BY <1>5 DEF claimDividends, shareVars, epochVars
<1>6. CASE withdrawPlatformFees \/ pause \/ unpause
  BY <1>6 DEF withdrawPlatformFees, pause, unpause, shareVars, epochVars
<1>7. CASE UNCHANGED vars
  BY <1>7 DEF vars, shareVars, epochVars
<1> QED BY <1>1, <1>2, <1>3, <1>4, <1>5, <1>6, <1>7 DEF Next

\* No later transaction changes a finalised epoch.
THEOREM FinalizedStaysFrozen == Spec => FinalizedFrozen
<1>1. IInv /\ [Next]_vars =>
        [\A e \in Epochs : e < epochNumber =>
           /\ epochRewardPool'[e] = epochRewardPool[e]
           /\ epochTotalShares'[e] = epochTotalShares[e]
           /\ \A u \in Users : userEpochShares'[u][e] = userEpochShares[u][e]]_vars
  BY StepKeepsFinalized
<1> QED BY Invariance, <1>1, PTL DEF Spec, FinalizedFrozen

\* Only the account's own claim, which pays it in full, takes a pending
\* dividend away.
THEOREM DividendsAreKeptUntilPaid == Spec => DividendsKeptUntilPaid
<1> DEFINE Kept(u) ==
             \/ getPendingDividends(u)' >= getPendingDividends(u)
             \/ /\ getPendingDividends(u)' = 0
                /\ usdcBalance' = usdcBalance - getPendingDividends(u)
<1>1. ASSUME IInv, [Next]_vars, NEW u \in Users PROVE Kept(u)
  <2>1. getPendingDividends(u) \in Nat
    BY <1>1, PendingNat DEF IInv
  <2>2. CASE finalizeEpoch
    <3>1. NewDividend(u) \in Nat
      BY <1>1, NewDividendsBounded DEF IInv
    <3>2. getPendingDividends(u)' = getPendingDividends(u) + NewDividend(u)
      BY <1>1, <2>2, FinalizePays
    <3> QED BY <2>1, <3>1, <3>2
  <2>3. CASE \E v \in Users : claimDividends(v)
    <3>1. PICK v \in Users : claimDividends(v)
      BY <2>3
    <3>2. CASE v = u
      <4>1. getPendingDividends(u)' = 0
        BY <1>1, <3>1, <3>2, ClaimPays
      <4> QED BY <3>1, <3>2, <4>1 DEF claimDividends
    <3>3. CASE v # u
      <4>1. getPendingDividends(u)' = getPendingDividends(u)
        BY <1>1, <3>1, <3>3, ClaimPays
      <4> QED BY <2>1, <4>1
    <3> QED BY <3>2, <3>3
  <2>4. CASE UNCHANGED <<epochVars, lastClaimedEpoch>>
    <3>1. \A e \in Epochs : e < epochNumber => userEpochShares'[u][e] = userEpochShares[u][e]
      BY <1>1, StepKeepsFinalized
    <3>2. getPendingDividends(u)' = getPendingDividends(u)
      BY <1>1, <2>4, <3>1, PendingKept DEF IInv
    <3> QED BY <2>1, <3>2
  <2>5. \/ finalizeEpoch
        \/ \E v \in Users : claimDividends(v)
        \/ UNCHANGED <<epochVars, lastClaimedEpoch>>
    BY <1>1 DEF Next, buyShares, sellShares, transfer, withdrawPlatformFees, pause, unpause, vars
  <2> HIDE DEF Kept
  <2> QED BY <2>2, <2>3, <2>4, <2>5
<1>2. IInv /\ [Next]_vars => [\A u \in Users : Kept(u)]_vars
  <2> HIDE DEF Kept
  <2> QED BY <1>1
<1>3. Spec => [][\A u \in Users : Kept(u)]_vars
  BY Invariance, <1>2, PTL DEF Spec
<1> QED BY <1>3, Zenon DEF DividendsKeptUntilPaid

-----------------------------------------------------------------------------
(* The ledger. *)

LEMMA LedgerSums == \A f, n : Ledger!SumTo(f, n) = SumTo(f, n)
BY DEF Ledger!SumTo, SumTo

\* The fee is a twentieth of the proceeds, rounded down, in two halves.
LEMMA FeeIsSplit ==
  ASSUME NEW p \in Nat
  PROVE  Ledger!IsSplit(NetProceeds(p), RewardShare(p), PlatformShare(p))
<1>1. PICK fee : fee = SellFee(p)
  OBVIOUS
<1>2. fee \in Nat /\ 20 * fee <= p /\ p < 20 * fee + 20
  BY <1>1 DEF SellFee, SELL_FEE_PERCENT, FEE_DENOMINATOR
<1>3. PICK half : half = fee \div 2
  OBVIOUS
<1>4. half \in Nat /\ fee - half \in {half, half + 1}
  BY <1>2, <1>3
<1>5. RewardShare(p) = half /\ PlatformShare(p) = fee - half /\ NetProceeds(p) = p - fee
  BY <1>1, <1>3 DEF RewardShare, PlatformShare, NetProceeds
<1>6. 19 * (half + (fee - half)) <= p - fee /\ p - fee < 19 * (half + (fee - half)) + 20
  BY <1>2, <1>4
<1> QED BY <1>4, <1>5, <1>6 DEF Ledger!IsSplit

\* Where epochs and claims are left alone, so are dividends.
LEMMA PendingStays ==
  ASSUME IInv, [Next]_vars, UNCHANGED <<epochVars, lastClaimedEpoch>>
  PROVE  Pending' = Pending
<1>1. \A u \in Users, e \in Epochs : e < epochNumber => userEpochShares'[u][e] = userEpochShares[u][e]
  BY StepKeepsFinalized
<1>2. \A u \in Users : getPendingDividends(u)' = getPendingDividends(u)
  BY <1>1, PendingKept DEF IInv
<1> QED BY <1>2 DEF Pending

LEMMA InitLedger == Init => Ledger!Init
<1> SUFFICES ASSUME Init PROVE Ledger!Init
  OBVIOUS
<1>1. MaxEpochs \in Nat /\ Epochs = 1 .. MaxEpochs
  BY ShareAssumption DEF Epochs
<1>2. ASSUME NEW u \in Users PROVE getPendingDividends(u) = 0
  <2>1. \A e \in 1 .. MaxEpochs : Claimable(u)[e] = 0
    BY <1>1, <1>2 DEF Claimable, Dividend, Init
  <2> QED BY <1>1, <2>1, SumToZero DEF getPendingDividends
<1>3. Pending = [u \in 1 .. NumUsers |-> 0]
  BY <1>2 DEF Pending, Users
<1> QED BY <1>3 DEF Init, Ledger!Init

LEMMA BuyIsBought ==
  ASSUME IInv, [Next]_vars, NEW u \in Users, NEW amount \in 1 .. MAX_SUPPLY, buyShares(u, amount)
  PROVE  Ledger!Bought
<1>1. Pending' = Pending /\ UNCHANGED <<rewardPool, platformFees>>
  BY PendingStays DEF buyShares, feeVars
<1>2. currentSupply \in Nat /\ amount \in Nat \ {0} /\ usdcBalance \in Nat
  BY CurveAssumption DEF IInv, TypeOK
<1>3. BuyCost(currentSupply, amount) \in Nat
  BY <1>2, BuyCostBounds
<1>4. usdcBalance' = usdcBalance + BuyCost(currentSupply, amount)
  BY DEF buyShares
<1>5. usdcBalance' >= usdcBalance
  BY <1>2, <1>3, <1>4
<1> QED BY <1>1, <1>5 DEF Ledger!Bought

LEMMA SaleIsSold ==
  ASSUME IInv, [Next]_vars, NEW u \in Users, NEW amount \in 1 .. MAX_SUPPLY, sellShares(u, amount)
  PROVE  Ledger!Sold
<1>1. Pending' = Pending
  BY PendingStays DEF sellShares
<1>2. PICK p : p = SellProceeds(currentSupply, amount)
  OBVIOUS
<1>3. p \in Nat
  <2>1. currentSupply \in Nat /\ amount \in 1 .. currentSupply
    BY CurveAssumption DEF IInv, TypeOK, sellShares, CanSell
  <2> QED BY <1>2, <2>1, SellProceedsBounds
<1>4. /\ usdcBalance' = usdcBalance - NetProceeds(p)
      /\ rewardPool' = rewardPool + RewardShare(p)
      /\ platformFees' = platformFees + PlatformShare(p)
  BY <1>2 DEF sellShares
<1>5. /\ usdcBalance \in Nat /\ rewardPool \in Nat /\ platformFees \in Nat
      /\ NetProceeds(p) \in Nat /\ RewardShare(p) \in Nat /\ PlatformShare(p) \in Nat
  BY <1>3, FeeSplit DEF IInv, TypeOK
<1>6. /\ usdcBalance - usdcBalance' = NetProceeds(p)
      /\ rewardPool' - rewardPool = RewardShare(p)
      /\ platformFees' - platformFees = PlatformShare(p)
  BY <1>4, <1>5
<1> QED BY <1>1, <1>3, <1>6, FeeIsSplit DEF Ledger!Sold

LEMMA FinalizeIsDistributed ==
  ASSUME IInv, finalizeEpoch
  PROVE  Ledger!Distributed
<1>1. /\ \A u \in Users : getPendingDividends(u) \in Nat /\ NewDividend(u) \in Nat
      /\ SumTo(Pending, NumUsers) \in Nat
      /\ SumTo([u \in Users |-> NewDividend(u)], NumUsers) \in Nat
      /\ SumTo([u \in Users |-> NewDividend(u)], NumUsers) <= rewardPool
  BY PendingNat, NewDividendsBounded DEF IInv
<1>2. \A u \in 1 .. NumUsers : Pending'[u] >= Pending[u]
  <2> SUFFICES ASSUME NEW u \in Users PROVE getPendingDividends(u)' >= getPendingDividends(u)
    BY DEF Pending, Users
  <2>1. getPendingDividends(u)' = getPendingDividends(u) + NewDividend(u)
    BY FinalizePays
  <2> QED BY <1>1, <2>1
<1>3. rewardPool \in Nat
  BY DEF IInv, TypeOK
<1>4. SumTo(Pending, NumUsers)' - SumTo(Pending, NumUsers) <= rewardPool
  BY <1>1, <1>3, FinalizePays
<1>5. SumTo(Pending, NumUsers)' = SumTo(Pending', NumUsers)
  OBVIOUS
<1>6. rewardPool' = 0 /\ UNCHANGED <<usdcBalance, platformFees>>
  BY DEF finalizeEpoch
<1> QED BY <1>2, <1>4, <1>5, <1>6, LedgerSums DEF Ledger!Distributed

LEMMA ClaimIsClaimed ==
  ASSUME IInv, NEW u \in Users, claimDividends(u)
  PROVE  Ledger!Claimed(u)
<1>1. /\ getPendingDividends(u)' = 0
      /\ \A v \in Users : v # u => getPendingDividends(v)' = getPendingDividends(v)
  BY ClaimPays
<1>2. Pending' = [Pending EXCEPT ![u] = 0]
  BY <1>1 DEF Pending
<1>3. /\ getPendingDividends(u) > 0
      /\ usdcBalance' = usdcBalance - getPendingDividends(u)
      /\ UNCHANGED <<rewardPool, platformFees>>
  BY DEF claimDividends, feeVars
<1>4. Pending[u] = getPendingDividends(u)
  BY DEF Pending
<1> QED BY <1>2, <1>3, <1>4 DEF Ledger!Claimed

\* The token implements the ledger of its fees: each step is one of the
\* ledger, or changes nothing that the ledger has.
THEOREM ImplementsLedger == Spec => KeepsLedger
<1>1. IInv /\ [Next]_vars => [Ledger!Next]_(Ledger!vars)
  <2> SUFFICES ASSUME IInv, [Next]_vars PROVE Ledger!Next \/ UNCHANGED Ledger!vars
    OBVIOUS
  <2>1. CASE \E u \in Users, amount \in 1 .. MAX_SUPPLY : buyShares(u, amount)
    BY <2>1, BuyIsBought DEF Ledger!Next
  <2>2. CASE \E u \in Users, amount \in 1 .. MAX_SUPPLY : sellShares(u, amount)
    BY <2>2, SaleIsSold DEF Ledger!Next
  <2>3. CASE finalizeEpoch
    BY <2>3, FinalizeIsDistributed DEF Ledger!Next
  <2>4. CASE \E u \in Users : claimDividends(u)
    BY <2>4, ClaimIsClaimed DEF Ledger!Next, Users
  <2>5. CASE withdrawPlatformFees
    <3>1. Pending' = Pending
      BY <2>5, PendingStays DEF withdrawPlatformFees
    <3> QED BY <2>5, <3>1 DEF withdrawPlatformFees, Ledger!Next, Ledger!Withdrawn
  <2>6. CASE \/ \E from, to \in Users, value \in 0 .. MAX_SUPPLY : transfer(from, to, value)
             \/ pause \/ unpause \/ UNCHANGED vars
    <3>1. UNCHANGED <<usdcBalance, feeVars, epochVars, lastClaimedEpoch>>
      BY <2>6 DEF transfer, pause, unpause, vars
    <3>2. Pending' = Pending
      BY <3>1, PendingStays
    <3> QED BY <3>1, <3>2 DEF feeVars, Ledger!vars
  <2> QED BY <2>1, <2>2, <2>3, <2>4, <2>5, <2>6 DEF Next
<1> QED BY InitLedger, Invariance, <1>1, PTL DEF Spec, KeepsLedger, Ledger!Spec

-----------------------------------------------------------------------------
(* The factory. *)

\* Contracts are listed in the order of deployment, that is by address.
ListedByAddress ==
  \A i \in 1 .. Len(allCreatorShares) : allCreatorShares[i] = i

\* The inductive invariant.
FactoryInv ==
  /\ FactoryTypeOK
  /\ UnlockedByVolume
  /\ ListedByAddress
  /\ OneContractPerCreator

LEMMA InitFactoryInv == FactoryInit => FactoryInv
<1> SUFFICES ASSUME FactoryInit PROVE FactoryInv
  OBVIOUS
<1>1. VOLUME_THRESHOLD \in Nat \ {0}
  BY FactoryAssumption
<1>2. FactoryTypeOK
  BY DEF FactoryInit, FactoryTypeOK, NoContract
<1>3. UnlockedByVolume
  <2>1. ~(0 >= VOLUME_THRESHOLD)
    BY <1>1
  <2>2. \A c \in Creators : ~sharesUnlocked[c] /\ creatorTotalVolume[c] = 0
    BY Zenon DEF FactoryInit
  <2> QED BY <2>1, <2>2, Zenon DEF UnlockedByVolume
<1>4. ListedByAddress /\ OneContractPerCreator
  BY DEF FactoryInit, ListedByAddress, OneContractPerCreator
<1> QED BY <1>2, <1>3, <1>4 DEF FactoryInv

LEMMA CreateKeepsFactoryInv ==
  ASSUME FactoryInv, NEW c \in Creators, createCreatorShares(c)
  PROVE  FactoryInv'
<1> DEFINE n == Len(allCreatorShares)
<1>1. n \in Nat /\ allCreatorShares \in Seq(Nat)
  BY DEF FactoryInv, FactoryTypeOK
<1>2. /\ sharesUnlocked[c]
      /\ creatorShareContract[c] = NoContract
      /\ creatorShareContract' = [creatorShareContract EXCEPT ![c] = n + 1]
      /\ allCreatorShares' = Append(allCreatorShares, n + 1)
      /\ UNCHANGED <<creatorTotalVolume, sharesUnlocked, whitelistedMarkets>>
  BY DEF createCreatorShares, canCreateShares
<1>3. /\ Len(allCreatorShares') = n + 1
      /\ allCreatorShares' \in Seq(Nat)
      /\ allCreatorShares'[n + 1] = n + 1
      /\ \A i \in 1 .. n : allCreatorShares'[i] = allCreatorShares[i]
  BY <1>1, <1>2
<1>4. /\ creatorShareContract \in [Creators -> Nat]
      /\ creatorShareContract' \in [Creators -> Nat]
      /\ creatorShareContract'[c] = n + 1
      /\ \A d \in Creators : d # c => creatorShareContract'[d] = creatorShareContract[d]
  BY <1>1, <1>2 DEF FactoryInv, FactoryTypeOK
<1>5. FactoryTypeOK'
  BY <1>2, <1>3, <1>4 DEF FactoryInv, FactoryTypeOK
<1>6. UnlockedByVolume'
  BY <1>2 DEF FactoryInv, UnlockedByVolume
<1>7. ListedByAddress'
  <2> SUFFICES ASSUME NEW i \in 1 .. n + 1 PROVE allCreatorShares'[i] = i
    BY <1>3 DEF ListedByAddress
  <2>1. CASE i = n + 1
    BY <1>3, <2>1
  <2>2. CASE i # n + 1
    <3>1. i \in 1 .. n
      BY <1>1, <2>2
    <3> QED BY <1>3, <3>1 DEF FactoryInv, ListedByAddress
  <2> QED BY <2>1, <2>2
<1>8. OneContractPerCreator'
  <2>1. ASSUME NEW d \in Creators, creatorShareContract'[d] # NoContract
        PROVE  /\ sharesUnlocked'[d]
               /\ creatorShareContract'[d] \in 1 .. n + 1
    <3>1. CASE d = c
      BY <1>1, <1>2, <1>4, <3>1
    <3>2. CASE d # c
      <4>1. creatorShareContract[d] # NoContract
        BY <1>4, <2>1, <3>2
      <4>2. sharesUnlocked[d] /\ creatorShareContract[d] \in 1 .. n
        BY <4>1 DEF FactoryInv, OneContractPerCreator
      <4>3. 1 .. n \subseteq 1 .. n + 1
        BY <1>1
      <4> QED BY <1>2, <1>4, <3>2, <4>2, <4>3
    <3> QED BY <3>1, <3>2
  <2>2. ASSUME NEW i \in 1 .. n + 1
        PROVE  \E d \in Creators : creatorShareContract'[d] = allCreatorShares'[i]
    <3>1. CASE i = n + 1
      BY <1>3, <1>4, <3>1
    <3>2. CASE i # n + 1
      <4>1. i \in 1 .. n
        BY <1>1, <3>2
      <4>2. PICK d \in Creators : creatorShareContract[d] = allCreatorShares[i]
        BY <4>1 DEF FactoryInv, OneContractPerCreator
      <4>3. allCreatorShares[i] # NoContract
        BY <4>1 DEF FactoryInv, ListedByAddress, NoContract
      <4>4. d # c
        BY <1>2, <4>2, <4>3
      <4> QED BY <1>3, <1>4, <4>1, <4>2, <4>4
    <3> QED BY <3>1, <3>2
  <2>3. ASSUME NEW d \in Creators, NEW e \in Creators, d # e,
               creatorShareContract'[d] = creatorShareContract'[e]
        PROVE  creatorShareContract'[d] = NoContract
    <3>1. \A x \in Creators : creatorShareContract[x] # n + 1
      <4> SUFFICES ASSUME NEW x \in Creators, creatorShareContract[x] = n + 1 PROVE FALSE
        OBVIOUS
      <4>1. creatorShareContract[x] # NoContract
        BY <1>1 DEF NoContract
      <4>2. creatorShareContract[x] \in 1 .. n
        BY <4>1 DEF FactoryInv, OneContractPerCreator
      <4> QED BY <1>1, <4>2
    <3>2. d # c /\ e # c
      BY <1>4, <2>3, <3>1
    <3> QED BY <1>4, <2>3, <3>2 DEF FactoryInv, OneContractPerCreator
  <2> QED BY <1>3, <2>1, <2>2, <2>3 DEF OneContractPerCreator
<1> QED BY <1>5, <1>6, <1>7, <1>8 DEF FactoryInv

LEMMA UpdateKeepsFactoryInv ==
  ASSUME FactoryInv, NEW m, NEW c \in Creators, NEW v \in Nat, updateCreatorVolume(m, c, v)
  PROVE  FactoryInv'
<1> DEFINE w == creatorTotalVolume[c] + v
<1>1. VOLUME_THRESHOLD \in Nat \ {0} /\ creatorTotalVolume[c] \in Nat /\ w \in Nat
  BY FactoryAssumption DEF FactoryInv, FactoryTypeOK
<1>2. /\ creatorTotalVolume' = [creatorTotalVolume EXCEPT ![c] = w]
      /\ sharesUnlocked' = [sharesUnlocked EXCEPT
                              ![c] = sharesUnlocked[c] \/ w >= VOLUME_THRESHOLD]
      /\ UNCHANGED <<creatorShareContract, whitelistedMarkets, allCreatorShares>>
  BY DEF updateCreatorVolume, NewVolume, ReachesThreshold
<1>3. /\ creatorTotalVolume' \in [Creators -> Nat]
      /\ creatorTotalVolume'[c] = w
      /\ \A d \in Creators : d # c => creatorTotalVolume'[d] = creatorTotalVolume[d]
  BY <1>1, <1>2 DEF FactoryInv, FactoryTypeOK
<1>4. /\ sharesUnlocked' \in [Creators -> BOOLEAN]
      /\ sharesUnlocked'[c] <=> (sharesUnlocked[c] \/ w >= VOLUME_THRESHOLD)
      /\ \A d \in Creators : d # c => (sharesUnlocked'[d] <=> sharesUnlocked[d])
  BY <1>2, Zenon DEF FactoryInv, FactoryTypeOK
<1>5. FactoryTypeOK'
  BY <1>2, <1>3, <1>4, Zenon DEF FactoryInv, FactoryTypeOK
<1>6. UnlockedByVolume'
  <2> SUFFICES ASSUME NEW d \in Creators
               PROVE  sharesUnlocked'[d] <=> creatorTotalVolume'[d] >= VOLUME_THRESHOLD
    BY Zenon DEF UnlockedByVolume
  <2>1. sharesUnlocked[d] <=> creatorTotalVolume[d] >= VOLUME_THRESHOLD
    BY DEF FactoryInv, UnlockedByVolume
  <2>2. CASE d # c
    BY <1>3, <1>4, <2>1, <2>2, Zenon
  <2>3. CASE d = c
    <3>1. creatorTotalVolume[c] >= VOLUME_THRESHOLD => w >= VOLUME_THRESHOLD
      BY <1>1
    <3> QED BY <1>3, <1>4, <2>1, <2>3, <3>1, Zenon
  <2> QED BY <2>2, <2>3
<1>7. \A d \in Creators : sharesUnlocked[d] => sharesUnlocked'[d]
  BY <1>4, Zenon
<1>8. ListedByAddress' /\ OneContractPerCreator'
  BY <1>2, <1>7, Zenon DEF FactoryInv, ListedByAddress, OneContractPerCreator
<1> QED BY <1>5, <1>6, <1>8 DEF FactoryInv

LEMMA WhitelistKeepsFactoryInv ==
  ASSUME FactoryInv, whitelistedMarkets' \in SUBSET MarketContracts,
         UNCHANGED <<creatorTotalVolume, sharesUnlocked, creatorShareContract, allCreatorShares>>
  PROVE  FactoryInv'
BY DEF FactoryInv, FactoryTypeOK, UnlockedByVolume, ListedByAddress, OneContractPerCreator

LEMMA NextKeepsFactoryInv == FactoryInv /\ [FactoryNext]_factoryVars => FactoryInv'
<1> SUFFICES ASSUME FactoryInv, [FactoryNext]_factoryVars PROVE FactoryInv'
  OBVIOUS
<1>1. ASSUME NEW c \in Creators, createCreatorShares(c) PROVE FactoryInv'
  BY <1>1, CreateKeepsFactoryInv
<1>2. ASSUME NEW m \in MarketContracts, addMarketContract(m) PROVE FactoryInv'
  <2>1. whitelistedMarkets' \in SUBSET MarketContracts
    BY <1>2 DEF addMarketContract, FactoryInv, FactoryTypeOK
  <2> QED BY <1>2, <2>1, WhitelistKeepsFactoryInv DEF addMarketContract
<1>3. ASSUME NEW m \in MarketContracts, removeMarketContract(m) PROVE FactoryInv'
  <2>1. whitelistedMarkets' \in SUBSET MarketContracts
    BY <1>3 DEF removeMarketContract, FactoryInv, FactoryTypeOK
  <2> QED BY <1>3, <2>1, WhitelistKeepsFactoryInv DEF removeMarketContract
<1>4. ASSUME NEW m \in MarketContracts, NEW c \in Creators, NEW v \in Nat,
             updateCreatorVolume(m, c, v)
      PROVE  FactoryInv'
  BY <1>4, UpdateKeepsFactoryInv
<1>5. CASE UNCHANGED factoryVars
  <2>1. UNCHANGED <<creatorTotalVolume, sharesUnlocked, creatorShareContract,
                    whitelistedMarkets, allCreatorShares>>
    BY <1>5 DEF factoryVars
  <2> QED BY <2>1, WhitelistKeepsFactoryInv DEF FactoryInv, FactoryTypeOK
<1> QED BY <1>1, <1>2, <1>3, <1>4, <1>5 DEF FactoryNext, Administer

\* The inductive invariant holds in every state the factory can reach.
THEOREM FactoryInvariance == FactorySpec => []FactoryInv
BY InitFactoryInv, NextKeepsFactoryInv, PTL DEF FactorySpec

\* Unlocked means a volume at or above the threshold, and nothing else does.
THEOREM UnlockedExactlyByVolume == FactorySpec => []UnlockedByVolume
<1>1. FactoryInv => UnlockedByVolume
  BY DEF FactoryInv
<1> QED BY <1>1, FactoryInvariance, PTL

\* No creator ever has two share contracts, and none is shared or lost.
THEOREM OneShareContractPerCreator == FactorySpec => []OneContractPerCreator
<1>1. FactoryInv => OneContractPerCreator
  BY DEF FactoryInv
<1> QED BY <1>1, FactoryInvariance, PTL

=============================================================================
