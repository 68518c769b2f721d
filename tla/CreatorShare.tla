---------------------------- MODULE CreatorShare ----------------------------
(***************************************************************************)
(* One creator's share token, contracts/CreatorShare.sol: an ERC20 bought  *)
(* from and sold to the contract on a bonding curve, whose holders earn a  *)
(* part of the sell fees, epoch by epoch.                                  *)
(*                                                                         *)
(* A transaction is atomic on the chain and the functions that move USDC   *)
(* are nonReentrant, so every external function is one action; a revert    *)
(* leaves no trace, so it is a guard.  What is concurrent is the order of  *)
(* transactions of different accounts, and the owner's between them.       *)
(*                                                                         *)
(* External to the contract: the USDC token, reduced to the contract's own *)
(* balance usdcBalance (the accounts are never short of USDC: a transfer   *)
(* from them that fails is the same as a transaction not sent), and        *)
(* OpenZeppelin's Ownable, Pausable and ERC20 storage.                     *)
(***************************************************************************)
EXTENDS BondingCurve, Sums

CONSTANTS
  NumUsers,   \* accounts are the numbers 1..NumUsers
  MaxBuys,    \* bound: purchases in a behaviour
  MaxEpochs   \* bound: epochs in a behaviour

ASSUME ShareAssumption ==
  /\ NumUsers \in Nat \ {0}
  /\ MaxBuys \in Nat
  /\ MaxEpochs \in Nat \ {0}

Users  == 1 .. NumUsers
Epochs == 1 .. MaxEpochs
NoUser == 0              \* address(0): mints come from it, burns go to it

SELL_FEE_PERCENT == 5
FEE_DENOMINATOR  == 100

VARIABLES
  balanceOf, totalSupply,              \* the ERC20's storage
  currentSupply, rewardPool, platformFees, epochNumber,
  epochTotalShares, epochRewardPool,   \* snapshots, per finalised epoch
  userEpochShares,                     \* per account and epoch
  lastClaimedEpoch, recordedInEpoch,
  paused,
  usdcBalance,                         \* USDC held by the contract
  buys                                 \* history: how many purchases so far

shareVars  == <<balanceOf, totalSupply, currentSupply, userEpochShares, recordedInEpoch>>
feeVars    == <<rewardPool, platformFees>>
epochVars  == <<epochNumber, epochTotalShares, epochRewardPool>>
vars == <<shareVars, feeVars, epochVars, lastClaimedEpoch, paused, usdcBalance, buys>>

TypeOK ==
  /\ balanceOf \in [Users -> Nat]
  /\ totalSupply \in 0 .. MAX_SUPPLY
  /\ currentSupply \in 0 .. MAX_SUPPLY
  /\ rewardPool \in Nat
  /\ platformFees \in Nat
  /\ epochNumber \in Epochs
  /\ epochTotalShares \in [Epochs -> 0 .. MAX_SUPPLY]
  /\ epochRewardPool \in [Epochs -> Nat]
  /\ userEpochShares \in [Users -> [Epochs -> Nat]]
  /\ lastClaimedEpoch \in [Users -> 0 .. MaxEpochs]
  /\ recordedInEpoch \in [Users -> BOOLEAN]
  /\ paused \in BOOLEAN
  /\ usdcBalance \in Nat
  /\ buys \in 0 .. MaxBuys

Init ==
  /\ balanceOf = [u \in Users |-> 0]
  /\ totalSupply = 0
  /\ currentSupply = 0
  /\ rewardPool = 0
  /\ platformFees = 0
  /\ epochNumber = 1
  /\ epochTotalShares = [e \in Epochs |-> 0]
  /\ epochRewardPool = [e \in Epochs |-> 0]
  /\ userEpochShares = [u \in Users |-> [e \in Epochs |-> 0]]
  /\ lastClaimedEpoch = [u \in Users |-> 0]
  /\ recordedInEpoch = [u \in Users |-> FALSE]
  /\ paused = FALSE
  /\ usdcBalance = 0
  /\ buys = 0

-----------------------------------------------------------------------------
(* Prices in USDC. *)

BuyCost(supply, amount) == calculateBuyPrice(supply, amount) \div TO_USDC

SellProceeds(supply, amount) == calculateSellPrice(supply, amount) \div TO_USDC

SellFee(proceeds)       == (proceeds * SELL_FEE_PERCENT) \div FEE_DENOMINATOR
RewardShare(proceeds)   == SellFee(proceeds) \div 2
PlatformShare(proceeds) == SellFee(proceeds) - RewardShare(proceeds)

\* Mistaken form: the seller is paid the proceeds without the fee withheld.
NetProceedsUncharged(proceeds) == proceeds

NetProceeds(proceeds)   == proceeds - SellFee(proceeds)

-----------------------------------------------------------------------------
(* The ERC20 hook.  Every path through it ends by writing the balance of   *)
(* each party, address(0) aside, into its entry for the current epoch: an  *)
(* earlier write of the same entry by _recordUserShares is overwritten     *)
(* within the transaction, and what is left of it is the flag.  A sender   *)
(* may be its own receiver, and the value of a transfer may be 0.          *)

\* Mistaken form: the receiver's old balance is read before the sender's is
\* written, so that a transfer to oneself creates shares.
MovedFromCache(from, to, value) ==
  [u \in Users |-> IF u = to THEN balanceOf[u] + value
                   ELSE IF u = from THEN balanceOf[u] - value
                   ELSE balanceOf[u]]

Moved(from, to, value) ==
  [u \in Users |-> balanceOf[u] - (IF u = from THEN value ELSE 0)
                                + (IF u = to THEN value ELSE 0)]

\* Mistaken form: only the first movement of an account in the lifetime of
\* the contract is recorded, as the flag that is never reset suggests.
RecordedOnce(parties, bal) ==
  [u \in Users |-> IF u \in parties /\ ~recordedInEpoch[u]
                   THEN [userEpochShares[u] EXCEPT ![epochNumber] = bal[u]]
                   ELSE userEpochShares[u]]

\* Mistaken form: the epoch just closed is written instead of the open one.
RecordedInLastEpoch(parties, bal) ==
  [u \in Users |-> IF u \in parties
                   THEN [userEpochShares[u] EXCEPT ![IF epochNumber = 1 THEN 1 ELSE epochNumber - 1] = bal[u]]
                   ELSE userEpochShares[u]]

\* userEpochShares once the parties hold the balances bal.
Recorded(parties, bal) ==
  [u \in Users |-> IF u \in parties
                   THEN [userEpochShares[u] EXCEPT ![epochNumber] = bal[u]]
                   ELSE userEpochShares[u]]

Update(from, to, value) ==
  /\ balanceOf' = Moved(from, to, value)
  /\ totalSupply' = totalSupply + (IF from = NoUser THEN value ELSE 0)
                                - (IF to = NoUser THEN value ELSE 0)
  /\ userEpochShares' = Recorded({from, to}, Moved(from, to, value))
  /\ recordedInEpoch' = [u \in Users |-> recordedInEpoch[u] \/ u \in {from, to}]

-----------------------------------------------------------------------------
(* What an account has earned in a finalised epoch, and what it can claim. *)

\* Mistaken form: the pool is divided by the supply of today.
DividendOfToday(u, e) ==
  IF userEpochShares[u][e] > 0 /\ totalSupply > 0
  THEN (epochRewardPool[e] * userEpochShares[u][e]) \div totalSupply
  ELSE 0

Dividend(u, e) ==
  IF userEpochShares[u][e] > 0 /\ epochTotalShares[e] > 0
  THEN (epochRewardPool[e] * userEpochShares[u][e]) \div epochTotalShares[e]
  ELSE 0

\* Mistaken form: the epoch claimed last can be claimed again.
UnclaimedFromLast(u, e) == lastClaimedEpoch[u] <= e /\ e < epochNumber

Unclaimed(u, e) == lastClaimedEpoch[u] < e /\ e < epochNumber

Claimable(u) == [e \in Epochs |-> IF Unclaimed(u, e) THEN Dividend(u, e) ELSE 0]

getPendingDividends(u) == SumTo(Claimable(u), MaxEpochs)

-----------------------------------------------------------------------------
(* The external functions. *)

buyShares(u, amount) ==
  /\ ~paused
  /\ CanBuy(currentSupply, amount)
  /\ buys < MaxBuys
  /\ Update(NoUser, u, amount)
  /\ currentSupply' = currentSupply + amount
  /\ usdcBalance' = usdcBalance + BuyCost(currentSupply, amount)
  /\ buys' = buys + 1
  /\ UNCHANGED <<feeVars, epochVars, lastClaimedEpoch, paused>>

sellShares(u, amount) ==
  LET proceeds == SellProceeds(currentSupply, amount) IN
  /\ ~paused
  /\ amount > 0 /\ amount <= balanceOf[u]
  /\ CanSell(currentSupply, amount)
  /\ NetProceeds(proceeds) <= usdcBalance
  /\ rewardPool' = rewardPool + RewardShare(proceeds)
  /\ platformFees' = platformFees + PlatformShare(proceeds)
  /\ Update(u, NoUser, amount)
  /\ currentSupply' = currentSupply - amount
  /\ usdcBalance' = usdcBalance - NetProceeds(proceeds)
  /\ UNCHANGED <<epochVars, lastClaimedEpoch, paused, buys>>

\* ERC20 transfer, and transferFrom by a spender the allowance of which
\* is left out: neither looks at the pause.
transfer(from, to, value) ==
  /\ value <= balanceOf[from]
  /\ Update(from, to, value)
  /\ UNCHANGED <<currentSupply, feeVars, epochVars, lastClaimedEpoch,
                 paused, usdcBalance, buys>>

\* onlyOwner.  The flags recordedInEpoch stay as they are.
finalizeEpoch ==
  /\ epochNumber < MaxEpochs
  /\ epochRewardPool' = [epochRewardPool EXCEPT ![epochNumber] = rewardPool]
  /\ epochTotalShares' = [epochTotalShares EXCEPT ![epochNumber] = totalSupply]
  /\ rewardPool' = 0
  /\ epochNumber' = epochNumber + 1
  /\ UNCHANGED <<shareVars, platformFees, lastClaimedEpoch, paused, usdcBalance, buys>>

\* Reverts when there is nothing to pay; then the epochs stay unclaimed.
claimDividends(u) ==
  /\ lastClaimedEpoch[u] + 1 <= epochNumber - 1
  /\ getPendingDividends(u) > 0
  /\ getPendingDividends(u) <= usdcBalance
  /\ lastClaimedEpoch' = [lastClaimedEpoch EXCEPT ![u] = epochNumber - 1]
  /\ usdcBalance' = usdcBalance - getPendingDividends(u)
  /\ UNCHANGED <<shareVars, feeVars, epochVars, paused, buys>>

\* onlyOwner.
withdrawPlatformFees ==
  /\ platformFees > 0
  /\ platformFees <= usdcBalance
  /\ platformFees' = 0
  /\ usdcBalance' = usdcBalance - platformFees
  /\ UNCHANGED <<shareVars, rewardPool, epochVars, lastClaimedEpoch, paused, buys>>

\* onlyOwner; OpenZeppelin's _pause and _unpause revert when nothing changes.
pause ==
  /\ ~paused
  /\ paused' = TRUE
  /\ UNCHANGED <<shareVars, feeVars, epochVars, lastClaimedEpoch, usdcBalance, buys>>

unpause ==
  /\ paused
  /\ paused' = FALSE
  /\ UNCHANGED <<shareVars, feeVars, epochVars, lastClaimedEpoch, usdcBalance, buys>>

Next ==
  \/ \E u \in Users, amount \in 1 .. MAX_SUPPLY : buyShares(u, amount)
  \/ \E u \in Users, amount \in 1 .. MAX_SUPPLY : sellShares(u, amount)
  \/ \E from, to \in Users, value \in 0 .. MAX_SUPPLY : transfer(from, to, value)
  \/ finalizeEpoch
  \/ \E u \in Users : claimDividends(u)
  \/ withdrawPlatformFees
  \/ pause
  \/ unpause

Spec == Init /\ [][Next]_vars

-----------------------------------------------------------------------------
(* Properties. *)

\* The three records of the supply agree: the ERC20's totalSupply, the
\* contract's own counter currentSupply, which alone sets the price, and the
\* sum of all balances.  Three separate updates keep them together.
SupplyConserved ==
  /\ currentSupply = totalSupply
  /\ SumTo(balanceOf, NumUsers) = totalSupply

EpochShares(e) == [u \in Users |-> userEpochShares[u][e]]

\* In a finalised epoch the shares recorded for the accounts never exceed
\* the total the epoch was finalised with: no account was recorded with more
\* than it held, and none twice under different holders.
EpochSharesBounded ==
  \A e \in Epochs :
    e < epochNumber => SumTo(EpochShares(e), NumUsers) <= epochTotalShares[e]

\* What the contract owes besides the shares themselves.
Pending == [u \in Users |-> getPendingDividends(u)]

Owed == platformFees + rewardPool + SumTo(Pending, NumUsers)

\* The USDC held pays for every share at the curve's exact price, all fees
\* and all pending dividends, short of less than one unit of 1e-6 USDC for
\* each purchase made: only buyShares rounds against the contract.
SolventUpToRounding ==
  INTEGRATION_DIVISOR * (usdcBalance + buys - Owed)
    >= Cube(currentSupply) * USDC_UNIT

\* A finalised epoch is closed: no later transaction changes what it paid
\* into the pool, the shares it counted, or what was recorded for an account.
FinalizedFrozen ==
  [][\A e \in Epochs : e < epochNumber =>
       /\ epochRewardPool'[e] = epochRewardPool[e]
       /\ epochTotalShares'[e] = epochTotalShares[e]
       /\ \A u \in Users : userEpochShares'[u][e] = userEpochShares[u][e]]_vars

\* What an account can claim only ever drops by being paid to it in full:
\* no trade, transfer, withdrawal or new epoch takes earned dividends away.
DividendsKeptUntilPaid ==
  [][\A u \in Users :
       \/ getPendingDividends(u)' >= getPendingDividends(u)
       \/ /\ getPendingDividends(u)' = 0
          /\ usdcBalance' = usdcBalance - getPendingDividends(u)]_vars

\* Every behaviour of the contract is, of its money and of what it owes, one
\* of a plain ledger: no fee is distributed or withdrawn twice, no claim is
\* paid twice or to another account, and trades, transfers and pauses touch
\* neither pool nor dividends but for the fee of a sale.
Ledger == INSTANCE FeeLedger
  WITH held <- usdcBalance, pool <- rewardPool, fees <- platformFees, due <- Pending

KeepsLedger == Ledger!Spec

\* docs/CreatorShare.md line 322: dividends are "based on shares held at epoch
\* finalization".  Then whoever holds shares when an epoch is finalised has
\* them recorded for it.  The code records only accounts that moved shares
\* during the epoch.
HoldersRecorded ==
  [][epochNumber' = epochNumber + 1 =>
       \A u \in Users : userEpochShares[u][epochNumber] = balanceOf[u]]_vars

=============================================================================
