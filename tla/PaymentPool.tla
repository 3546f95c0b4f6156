---------------------------- MODULE PaymentPool ----------------------------
(***************************************************************************)
(* The pool of transaction accounts of src/nano/node/rpc.cpp: payment_init,*)
(* payment_begin and payment_end over wallet->free_accounts, with the      *)
(* wallet RPCs that change what the pool's accounts are (account_create,   *)
(* account_remove, wallet_lock, password_enter) and the ledger blocks that *)
(* change their balances.  Each RPC is one step: it holds the wallets'     *)
(* write transaction, or (payment_end) read transactions only.             *)
(***************************************************************************)
EXTENDS Naturals, Sequences, SequencesExt

CONSTANTS
    Accounts,      \* account keys the wallet may hold
    InitWallet,    \* accounts in the wallet store at start
    MaxBalance,    \* bound on an account's balance in the ledger
    MaxBegins      \* bound on the payment_begin calls

ASSUME InitWallet \subseteq Accounts

VARIABLES
    balance,    \* ledger: node.ledger.account_balance (account)
    wallet,     \* wallet store: the accounts it holds
    created,    \* accounts deterministic_insert has ever produced
    locked,     \* wallet store: !valid_password
    free,       \* wallet->free_accounts
    issued,     \* history: accounts returned by payment_begin, in order
    inuse       \* history: accounts handed out and not ended since the
                \* last payment_init

vars == <<balance, wallet, created, locked, free, issued, inuse>>

TypeOK ==
    /\ balance \in [Accounts -> 0..MaxBalance]
    /\ wallet \subseteq created /\ created \subseteq Accounts
    /\ locked \in BOOLEAN
    /\ free \subseteq Accounts
    /\ issued \in Seq(Accounts) /\ Len(issued) <= MaxBegins
    /\ inuse \subseteq Accounts

Init ==
    /\ balance = [a \in Accounts |-> 0]
    /\ wallet = InitWallet /\ created = InitWallet
    /\ locked = FALSE
    /\ free = {}
    /\ issued = << >>
    /\ inuse = {}

-----------------------------------------------------------------------------
(* The ledger applies a block paying a created account, or a send from a   *)
(* wallet account.                                                         *)
Receive(a) ==
    /\ a \in created
    /\ balance[a] < MaxBalance
    /\ balance' = [balance EXCEPT ![a] = @ + 1]
    /\ UNCHANGED <<wallet, created, locked, free, issued, inuse>>

Spend(a) ==
    /\ a \in wallet
    /\ balance[a] > 0
    /\ balance' = [balance EXCEPT ![a] = @ - 1]
    /\ UNCHANGED <<wallet, created, locked, free, issued, inuse>>

(* The pool of transaction accounts.  All of these hold the wallets' write *)
(* transaction except payment_end, which holds read transactions only.     *)
(* A request that fails a check (wallet locked, account not in the wallet, *)
(* non-zero balance) changes nothing and is not a step of the model.       *)

deterministic_insert_untracked(v) ==
    /\ v \in Accounts \ created
    /\ wallet' = wallet \cup {v}
    /\ created' = created

(* wallet::deterministic_insert: a new key from the seed's next index.     *)
deterministic_insert(v) ==
    /\ v \in Accounts \ created
    /\ wallet' = wallet \cup {v}
    /\ created' = created \cup {v}

(* A free account payment_begin may hand out: still in the wallet store    *)
(* (store.find) and with a zero balance.                                   *)
Usable(v) == v \in wallet /\ balance[v] = 0

Take(v, dropped) == free \ (dropped \cup {v})

(* payment_init: wallet::init_free_accounts puts every wallet account in   *)
(* free_accounts, those handed out and not ended included: a payment_init *)
(* ends every payment in progress.                                         *)
payment_init ==
    /\ ~locked
    /\ free' = wallet
    /\ inuse' = {}
    /\ UNCHANGED <<balance, wallet, created, locked, issued>>

(* payment_begin: take accounts from free_accounts in the set's order,     *)
(* dropping each one that is no longer in the wallet or has a balance,     *)
(* until one is usable; with none left, deterministic_insert.              *)
payment_begin ==
    /\ ~locked
    /\ Len(issued) < MaxBegins
    /\ LET usable == {v \in free : Usable(v)} IN
       \/ \E v \in usable, dropped \in SUBSET (free \ usable) :
            /\ free' = Take(v, dropped)
            /\ issued' = Append(issued, v)
            /\ UNCHANGED <<wallet, created>>
       \/ /\ usable = {}
          /\ free' = {}
          /\ \E v \in Accounts :
                /\ deterministic_insert(v)
                /\ issued' = Append(issued, v)
    /\ inuse' = inuse \cup {Last(issued')}
    /\ UNCHANGED <<balance, locked>>

(* payment_end: a wallet account with a zero balance goes back to          *)
(* free_accounts.                                                          *)
payment_end(a) ==
    /\ a \in wallet
    /\ balance[a] = 0
    /\ free' = free \cup {a}
    /\ inuse' = inuse \ {a}
    /\ UNCHANGED <<balance, wallet, created, locked, issued>>

(* account_remove: erase the account from the wallet store; free_accounts  *)
(* is left as it is.                                                       *)
account_remove(a) ==
    /\ ~locked
    /\ a \in wallet
    /\ wallet' = wallet \ {a}
    /\ UNCHANGED <<balance, created, locked, free, issued, inuse>>

(* account_create: deterministic_insert, which fails on a locked wallet.   *)
account_create ==
    /\ ~locked
    /\ \E v \in Accounts : deterministic_insert(v)
    /\ UNCHANGED <<balance, locked, free, issued, inuse>>

(* wallet_lock clears the password; password_enter sets it to what was     *)
(* typed, which unlocks the wallet only if it is the right one.            *)
wallet_lock ==
    /\ locked' = TRUE
    /\ UNCHANGED <<balance, wallet, created, free, issued, inuse>>

password_enter ==
    /\ \E right \in BOOLEAN : locked' = ~right
    /\ UNCHANGED <<balance, wallet, created, free, issued, inuse>>

-----------------------------------------------------------------------------
Next ==
    \/ \E a \in Accounts : Receive(a) \/ Spend(a)
    \/ payment_init \/ payment_begin \/ account_create
    \/ \E a \in Accounts : payment_end(a) \/ account_remove(a)
    \/ wallet_lock \/ password_enter

Spec == Init /\ [][Next]_vars

-----------------------------------------------------------------------------
=============================================================================
