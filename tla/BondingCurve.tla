---------------------------- MODULE BondingCurve ----------------------------
(***************************************************************************)
(* The library contracts/BondingCurve.sol: the price of creator shares.    *)
(*                                                                         *)
(* A share costs supply^2 / 1400, a trade the integral of that price,      *)
(* (end^3 - start^3) / 4200, in fixed point with 18 decimals.  Amounts of  *)
(* USDC have 6 decimals: CreatorShare divides every result by 1e12         *)
(* (TO_USDC).  PRECISION = 1e18 is 1e6 * TO_USDC; TO_USDC stays a constant *)
(* so that TLC, whose integers have 32 bits, can take a small one: two     *)
(* floors in a row are one, so the USDC amounts are the contract's own     *)
(* whatever TO_USDC is.  No product of the contract reaches 2^256:         *)
(* 1000^3 * 1e18 = 1e27.                                                   *)
(***************************************************************************)
EXTENDS Integers

CONSTANTS MAX_SUPPLY, TO_USDC

ASSUME CurveAssumption ==
  /\ MAX_SUPPLY \in Nat \ {0}
  /\ TO_USDC \in Nat \ {0}

USDC_UNIT           == 1000000
PRECISION           == USDC_UNIT * TO_USDC
CURVE_DIVISOR       == 1400
INTEGRATION_DIVISOR == 4200

Cube(n) == n * n * n

\* Spot price of one share.
calculatePrice(supply) == (supply * supply * PRECISION) \div CURVE_DIVISOR

\* Mistaken form: the cap is compared before the last share is counted.
CanBuyPastCap(currentSupply, amount) ==
  amount > 0 /\ currentSupply + amount <= MAX_SUPPLY + 1

\* The revert conditions of the two functions.
CanBuy(currentSupply, amount)  == amount > 0 /\ currentSupply + amount <= MAX_SUPPLY
CanSell(currentSupply, amount) == amount > 0 /\ amount <= currentSupply

\* The first share is priced by a branch of its own.
calculateBuyPrice(currentSupply, amount) ==
  IF currentSupply = 0 /\ amount = 1
  THEN PRECISION \div INTEGRATION_DIVISOR
  ELSE ((Cube(currentSupply + amount) - Cube(currentSupply)) * PRECISION)
         \div INTEGRATION_DIVISOR

\* So is the sale of the whole supply.
calculateSellPrice(currentSupply, amount) ==
  IF currentSupply = amount
  THEN (Cube(currentSupply) * PRECISION) \div INTEGRATION_DIVISOR
  ELSE ((Cube(currentSupply) - Cube(currentSupply - amount)) * PRECISION)
         \div INTEGRATION_DIVISOR

=============================================================================
