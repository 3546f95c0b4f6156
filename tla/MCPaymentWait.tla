-------------------------- MODULE MCPaymentWait --------------------------
(* PaymentWait for TLC: two wait requests, two blocks applied.             *)
EXTENDS PaymentWait

MCWaits == {"w1", "w2"}
==========================================================================
