---------------------------- MODULE FeeCollector ----------------------------
(***************************************************************************)
(* contracts/FeeCollector.sol: holds the platform's fees in USDC.          *)
(*                                                                         *)
(* External: the USDC token, reduced to the collector's balance, which a   *)
(* plain transfer raises without any function of the collector running.    *)
(***************************************************************************)
EXTENDS Integers

CONSTANTS
  Depositors,     \* addresses the owner may whitelist
  Recipients      \* addresses the owner may pay fees out to

self == "FeeCollector"     \* address(this), a recipient like any other

VARIABLES
  totalShareFees, totalMarketFees,  \* all fees ever deposited, by source
  whitelistedDepositors,
  collectorBalance,                 \* usdc.balanceOf(address(this))
  withdrawn                         \* history: USDC that left by withdraw

collectorVars ==
  <<totalShareFees, totalMarketFees, whitelistedDepositors, collectorBalance, withdrawn>>

Init ==
  /\ totalShareFees = 0
  /\ totalMarketFees = 0
  /\ whitelistedDepositors = {}
  /\ collectorBalance = 0
  /\ withdrawn = 0

getTotalFees == totalShareFees + totalMarketFees

depositShareFees(sender, amount) ==
  /\ sender \in whitelistedDepositors
  /\ amount > 0
  /\ collectorBalance' = collectorBalance + amount
  /\ totalShareFees' = totalShareFees + amount
  /\ UNCHANGED <<totalMarketFees, whitelistedDepositors, withdrawn>>

depositMarketFees(sender, amount) ==
  /\ sender \in whitelistedDepositors
  /\ amount > 0
  /\ collectorBalance' = collectorBalance + amount
  /\ totalMarketFees' = totalMarketFees + amount
  /\ UNCHANGED <<totalShareFees, whitelistedDepositors, withdrawn>>

\* A USDC transfer to the collector's address: a bet's platform fee, what
\* CreatorShare.withdrawPlatformFees sends there, or anybody's.
receive(amount) ==
  /\ collectorBalance' = collectorBalance + amount
  /\ UNCHANGED <<totalShareFees, totalMarketFees, whitelistedDepositors, withdrawn>>

CanWithdraw(amount) == amount > 0 /\ amount <= collectorBalance

\* What leaves: a transfer to the collector itself moves nothing.
Outflow(recipient, amount) == IF recipient = self THEN 0 ELSE amount

\* Mistaken form: the whole balance leaves, whatever amount is recorded.
withdrawAll(recipient, amount) ==
  /\ CanWithdraw(amount)
  /\ collectorBalance' = collectorBalance - Outflow(recipient, collectorBalance)
  /\ withdrawn' = withdrawn + Outflow(recipient, amount)
  /\ UNCHANGED <<totalShareFees, totalMarketFees, whitelistedDepositors>>

\* Mistaken form: what is withdrawn is taken off the totals.
withdrawFromTotals(recipient, amount) ==
  /\ CanWithdraw(amount)
  /\ collectorBalance' = collectorBalance - Outflow(recipient, amount)
  /\ withdrawn' = withdrawn + Outflow(recipient, amount)
  /\ totalMarketFees' = IF amount <= totalMarketFees THEN totalMarketFees - amount ELSE 0
  /\ UNCHANGED <<totalShareFees, whitelistedDepositors>>

\* onlyOwner.
withdraw(recipient, amount) ==
  /\ CanWithdraw(amount)
  /\ collectorBalance' = collectorBalance - Outflow(recipient, amount)
  /\ withdrawn' = withdrawn + Outflow(recipient, amount)
  /\ UNCHANGED <<totalShareFees, totalMarketFees, whitelistedDepositors>>

\* onlyOwner.
addDepositor(depositor) ==
  /\ whitelistedDepositors' = whitelistedDepositors \union {depositor}
  /\ UNCHANGED <<totalShareFees, totalMarketFees, collectorBalance, withdrawn>>

\* onlyOwner.
removeDepositor(depositor) ==
  /\ whitelistedDepositors' = whitelistedDepositors \ {depositor}
  /\ UNCHANGED <<totalShareFees, totalMarketFees, collectorBalance, withdrawn>>

Next ==
  \/ \E d \in Depositors, amount \in Nat : depositShareFees(d, amount)
  \/ \E d \in Depositors, amount \in Nat : depositMarketFees(d, amount)
  \/ \E amount \in Nat : receive(amount)
  \/ \E r \in Recipients, amount \in Nat : withdraw(r, amount)
  \/ \E d \in Depositors : addDepositor(d)
  \/ \E d \in Depositors : removeDepositor(d)

Spec == Init /\ [][Next]_collectorVars

=============================================================================
