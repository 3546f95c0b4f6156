---------------------------- MODULE MCWalletAsync ----------------------------
EXTENDS WalletAsync

MCRequests == {"q1", "q2"}

(* One pending entry of 1; sends of 1 or 2 from a balance of 2, so two     *)
(* sends can each see enough funds and only one can have them.             *)
MCPendings == {"p1"}

MCPendAmount == [p \in MCPendings |-> 1]
=============================================================================
