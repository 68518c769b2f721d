-------------------------------- MODULE Sums --------------------------------
(***************************************************************************)
(* Totals over an initial segment 1..n of the naturals.                    *)
(*                                                                         *)
(* The contracts never compute these totals (Solidity cannot iterate a     *)
(* mapping): they are what the accounting properties speak of, the sum of  *)
(* all balances, of all snapshots of an epoch, of all pending dividends.   *)
(* Accounts are numbered, so a total is a recursive function of the number *)
(* of accounts; this form, unlike the folds over arbitrary sets, is one    *)
(* whose laws SumsProofs can establish.                                    *)
(***************************************************************************)
EXTENDS Integers

\* f[1] + f[2] + ... + f[n]; 0 when n = 0.
SumTo(f, n) ==
  LET s[i \in Nat] == IF i = 0 THEN 0 ELSE s[i - 1] + f[i]
  IN  s[n]

=============================================================================
