--------------------------- MODULE MCLedgerQueries ---------------------------
(* Three accounts, genesis holding the supply; the wallet holds the two    *)
(* others, so wallet_pending meets an account with entries and one        *)
(* without.                                                                 *)
EXTENDS LedgerQueries
=============================================================================
