------------------------------ MODULE FeeLedger ------------------------------
(***************************************************************************)
(* What the contract of a creator's shares promises about the fees it      *)
(* takes: each unit of a fee goes to the platform or to the holders, and   *)
(* is paid out once.  The ledger knows nothing of prices, shares, epochs   *)
(* or records of claims.                                                   *)
(***************************************************************************)
EXTENDS Sums

CONSTANT NumUsers

VARIABLES
  held,   \* USDC of the contract
  pool,   \* fees of the holders that were not distributed yet
  fees,   \* fees of the platform
  due     \* dividends, by account

vars == <<held, pool, fees, due>>

Init ==
  /\ held = 0
  /\ pool = 0
  /\ fees = 0
  /\ due = [u \in 1 .. NumUsers |-> 0]

-----------------------------------------------------------------------------
Bought ==
  /\ held' >= held
  /\ UNCHANGED <<pool, fees, due>>

\* The fee of a sale is one twentieth of the price, rounded down, so that what
\* the seller gets is nineteen times the fee, or less than twenty units more.
\* It is halved; an odd unit is the platform's.
IsSplit(paid, reward, platform) ==
  /\ reward >= 0
  /\ platform \in {reward, reward + 1}
  /\ 19 * (reward + platform) <= paid
  /\ paid < 19 * (reward + platform) + 20

Sold ==
  /\ IsSplit(held - held', pool' - pool, fees' - fees)
  /\ UNCHANGED due

\* Distributing takes no dividend away and gives the pool at most.
Distributed ==
  /\ \A u \in 1 .. NumUsers : due'[u] >= due[u]
  /\ SumTo(due', NumUsers) - SumTo(due, NumUsers) <= pool
  /\ pool' = 0
  /\ UNCHANGED <<held, fees>>

\* An account is paid all that is due to it, and nobody else is.
Claimed(u) ==
  /\ due[u] > 0
  /\ held' = held - due[u]
  /\ due' = [due EXCEPT ![u] = 0]
  /\ UNCHANGED <<pool, fees>>

Withdrawn ==
  /\ fees > 0
  /\ held' = held - fees
  /\ fees' = 0
  /\ UNCHANGED <<pool, due>>

Next ==
  \/ Bought
  \/ Sold
  \/ Distributed
  \/ \E u \in 1 .. NumUsers : Claimed(u)
  \/ Withdrawn

Spec == Init /\ [][Next]_vars
=============================================================================
