----------------------------- MODULE BlockCreate -----------------------------
(***************************************************************************)
(* block_create (rpc.cpp): builds and signs a block from a request's      *)
(* optional fields, reading previous and balance from the ledger when it  *)
(* is asked to.  It is a read-only handler, so it is an operator over the *)
(* ledger of LedgerQueries, and the properties quantify over requests in  *)
(* every ledger state that ledger can reach.                               *)
(*                                                                         *)
(* A request is a record; None marks an optional field the request omits. *)
(* The decoders are taken to succeed on every field (their failures set   *)
(* one error and skip the rest); work is left out (work_generate only     *)
(* fills the work field).  The private key of account k is k, so          *)
(* pub_key maps it back to k; 0 is the cleared key.  A block hash is the  *)
(* pair <<account, index>> of the chain it heads; Unknown is a well-formed *)
(* hash of no stored block.  Amounts and balances are uint128_union       *)
(* values, kept here at Width bits.                                        *)
(***************************************************************************)
EXTENDS LedgerQueries

CONSTANTS
    None,       \* an omitted optional field
    Width,      \* bits of a uint128_union in the model
    Types,      \* values of "type"
    WalletIds   \* values of "wallet": "open", "locked" or "missing"

Mod == 2 ^ Width

(* The zero hash, and a well-formed hash of no stored block.              *)
Zero == <<0, 0>>

Unknown == <<0, 1>>

(* ledger.latest: the head of an account's chain, 0 if it is unopened.     *)
Latest(a) == IF Opened(a) THEN <<a, Len(chain[a])>> ELSE Zero

(* store.block_exists and store.block_balance for a hash.                  *)
Exists(h) == h[1] \in Accounts /\ 1 <= h[2] /\ h[2] <= Len(chain[h[1]])

BlockBalance(h) == chain[h[1]][h[2]].balance

Given(x) == x # None

(* An omitted number decodes to the union's zero.                          *)
Value(x) == IF Given(x) THEN x ELSE 0

(* The wallet path: with a wallet and an account, the key, previous and   *)
(* balance come from the wallet and the ledger, after wallet_locked_impl  *)
(* and wallet_account_impl, each of which only runs while ec is clear.    *)
WalletError(r) ==
    CASE r.wallet = "missing"      -> "wallet_not_found"
      [] r.wallet = "locked"       -> "wallet_locked"
      [] r.account \notin Wallet   -> "account_not_found_wallet"
      [] OTHER                     -> None

WalletPath(r) == Given(r.wallet) /\ Given(r.account)

Fetch(r) ==
    IF WalletPath(r) /\ WalletError(r) = None
    THEN [ec |-> None, prv |-> r.account, previous |-> Latest(r.account),
          balance |-> AccountBalance(r.account)]
    ELSE [ec |-> IF WalletPath(r) THEN WalletError(r) ELSE None, prv |-> 0,
          previous |-> Zero, balance |-> 0]

(* The block of each type, and the requirement that guards it.  A send    *)
(* subtracts in uint128 after checking balance >= amount.                 *)
Requirements(t, r, previous, balance, link) ==
    CASE t = "state"   -> Given(r.previous) /\ r.representative # 0 /\ (link # 0 \/ Given(r.link))
      [] t = "open"    -> r.representative # 0 /\ r.source # 0
      [] t = "receive" -> r.source # 0 /\ previous # Zero
      [] t = "change"  -> r.representative # 0 /\ previous # Zero
      [] t = "send"    -> r.destination # 0 /\ previous # Zero /\ balance # 0 /\ Value(r.amount) # 0

SendGuardDropped(balance, amount) == TRUE

SendGuard(balance, amount) == balance >= amount

MakeBlock(t, r, pub, previous, balance, link) ==
    [type |-> t, account |-> pub, rep |-> r.representative,
     previous |-> IF t = "open" THEN Zero ELSE previous,
     balance |-> IF t = "send" THEN (balance - Value(r.amount)) % Mod ELSE balance,
     link |-> link, source |-> r.source, destination |-> r.destination]

(* The type branch: it runs whatever ec holds, and its errors overwrite   *)
(* ec; response_errors then answers ec if it is set, else the block.      *)
Build(r, ec, pub, previous, balance, link) ==
    LET t == r.type
        err == CASE t \notin {"state", "open", "receive", "change", "send"} -> "invalid_type"
                 [] ~Requirements(t, r, previous, balance, link) -> "block_create_requirements_" \o t
                 [] t = "send" /\ ~SendGuard(balance, Value(r.amount)) -> "insufficient_balance"
                 [] OTHER -> None
    IN  IF err # None THEN [error |-> err]
        ELSE IF ec # None THEN [error |-> ec]
        ELSE [block |-> MakeBlock(t, r, pub, previous, balance, link)]

(* The double check of a send's stated balance against its stated         *)
(* previous block, skipped when that block is not in the store.           *)
DoubleCheckMissing(r, previous) == FALSE

DoubleCheck(r, previous) ==
    /\ Given(r.previous) /\ Given(r.balance) /\ r.type = "send"
    /\ Exists(previous) /\ BlockBalance(previous) # r.balance

(* Check for incorrect account key: a given account must be the key's.    *)
PubMismatchIgnored(r, pub) == FALSE

PubMismatch(r, pub) == Given(r.account) /\ r.account # pub

BlockCreate(r) ==
    LET f == Fetch(r)
        prv == IF f.ec = None /\ Given(r.key) THEN r.key ELSE f.prv
        previous == IF f.ec = None /\ Given(r.previous) THEN r.previous ELSE f.previous
        balance == IF f.ec = None /\ Given(r.balance) THEN r.balance ELSE f.balance
        link == IF f.ec = None /\ Given(r.link) THEN r.link
                ELSE IF r.source = 0 THEN r.destination ELSE r.source
        pub == prv
        \* With neither previous nor balance given, both are read for pub.
        refetch == ~Given(r.previous) /\ ~Given(r.balance)
        previous2 == IF refetch THEN Latest(pub) ELSE previous
        balance2 == IF refetch THEN AccountBalance(pub) ELSE balance
        ec == CASE f.ec # None -> f.ec
                [] ~refetch /\ DoubleCheck(r, previous) -> "block_create_balance_mismatch"
                [] PubMismatch(r, pub) -> "block_create_public_key_mismatch"
                [] OTHER -> None
    IN  IF prv = 0 THEN [error |-> "block_create_key_required"]
        ELSE Build(r, ec, pub, previous2, balance2, link)
-----------------------------------------------------------------------------
(* Requests.  The hashes a request may name as previous: none, the zero   *)
(* hash, an unknown one and every stored block.                           *)
Stored == {h \in Accounts \X (1..MaxBlocks + 1) : Exists(h)}

Numbers == 0..(Mod - 1)

Requests(types, previous, balance) ==
    [type: types, wallet: {None} \cup WalletIds, account: {None} \cup Accounts,
     key: {None} \cup Accounts, representative: Reps, destination: {NumAccounts},
     source: {0}, amount: {None} \cup Numbers, previous: previous, balance: balance,
     link: {None}]

SendRequests == Requests({"send"}, {None, Zero, Unknown} \cup Stored, {None} \cup Numbers)

ChainRequests == Requests({"receive", "change", "send"} \cap Types, {None}, {None, 1})

Created(res) == "block" \in DOMAIN res

(* The amount a created send moves out of the stored block it follows.    *)
Moved(b) == BlockBalance(b.previous) - b.balance

(* A send block_create signs either from previous and balance it read     *)
(* from the ledger itself, or from a stated previous and balance it has   *)
(* double-checked against the store, moves exactly "amount" out of the    *)
(* block it follows: the double check and the balance >= amount guard     *)
(* before the uint128 subtraction are what keep it so.                    *)
CheckedSendTransfersAmount ==
    \A r \in SendRequests :
        LET res == BlockCreate(r) IN
        (Given(r.previous) <=> Given(r.balance)) /\ Created(res) /\ Exists(res.block.previous)
            => Moved(res.block) = Value(r.amount)

(* A receive, change or send block that block_create builds without a     *)
(* stated previous is chained on the current head of the account that    *)
(* signs it: the wallet path reads the head of "account", the key path   *)
(* that of the key's account, and the public key check ties the two.     *)
CreatedOnSignersHead ==
    \A r \in ChainRequests :
        LET res == BlockCreate(r) IN
        Created(res) => res.block.previous = Latest(res.block.account)
=============================================================================
