-------------------------- MODULE MCPaymentPool --------------------------
(* PaymentPool for TLC: three account keys, one of them in the wallet.     *)
EXTENDS PaymentPool
==========================================================================
