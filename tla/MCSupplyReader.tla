---------------------------- MODULE MCSupplyReader ----------------------------
(* Genesis, the landing and faucet accounts and the burning account; the  *)
(* accounts_balances request lists all four.                               *)
EXTENDS SupplyReader

MCListed == <<1, 2, 3, 4>>
=============================================================================
