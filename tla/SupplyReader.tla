----------------------------- MODULE SupplyReader -----------------------------
(***************************************************************************)
(* available_supply and accounts_balances (rpc.cpp) against a ledger that *)
(* keeps processing blocks.  Neither handler opens a transaction of its   *)
(* own: each node.balance or node.balance_pending call reads the ledger   *)
(* under a read transaction of its own, so block processing (the ledger   *)
(* actions of LedgerQueries, one write transaction per block) interleaves *)
(* with the calls.  Each call is one step of a reader here.               *)
(*                                                                         *)
(* The burning account 0 has no key: nothing it is sent is ever received, *)
(* so the ledger here never receives into Burn.  Amounts are uint128 at   *)
(* Width bits.  block_create, which reads only the ledger, is checked in *)
(* the same run, at the states where no reader has started.              *)
(***************************************************************************)
EXTENDS BlockCreate

CONSTANTS
    Landing,   \* the "active unavailable" account
    Faucet,    \* the faucet account
    Burn,      \* the burning account 0
    Listed     \* the "accounts" list of accounts_balances, a sequence

ASSUME {Landing, Faucet, Burn} \subseteq Accounts \ {1}

(* genesis_amount, the supply, is the largest uint128.                     *)
ASSUME Supply = Mod - 1

VARIABLES
    apc,        \* available_supply: 0 idle, k the next of its four reads
    subtotal,   \* the amounts read so far
    astart,     \* blocks applied when the request started
    available,  \* the answer, None before it is sent
    bpc,        \* accounts_balances: 0 idle, k the next listed account
    entries,    \* the entries built so far: [balance, pending]
    bstart,     \* blocks applied when the request started
    balances,   \* the answer
    circs       \* history: the circulation of each ledger state since
                \* available_supply started

readers == <<apc, subtotal, astart, available, bpc, entries, bstart, balances>>

allvars == <<vars, readers, circs>>

(* node.balance and node.balance_pending, each under one read transaction. *)
BalancePending(a) == [balance |-> AccountBalance(a), pending |-> AccountPending(a)]

(* The four reads of available_supply, in the order of the code:           *)
(* genesis, landing and faucet balances, then the burning account's       *)
(* pending.                                                                *)
BurnedAsBalance(k) == <<AccountBalance(1), AccountBalance(Landing), AccountBalance(Faucet),
                        BalancePending(Burn).balance>>[k]

SupplyRead(k) == <<AccountBalance(1), AccountBalance(Landing), AccountBalance(Faucet),
                   BalancePending(Burn).pending>>[k]

(* genesis_amount - genesis - landing - faucet - burned, in uint128.       *)
Available(total) == (Supply - total) % Mod

Sum(s) == SumFunction([k \in DOMAIN s |-> s[k]])

(* The circulation of a ledger state: the units outside the genesis,       *)
(* landing and faucet balances and the burning account's pending, counted *)
(* from the other balances and pending amounts.                            *)
Circulation ==
    Sum([a \in Accounts \ {1, Landing, Faucet} |-> AccountBalance(a)])
        + Sum([a \in Accounts \ {Burn} |-> AccountPending(a)])

(* One request of each handler, at any point of the ledger's run.        *)
AvailableStart ==
    /\ apc = 0 /\ available = None
    /\ apc' = 1 /\ subtotal' = 0 /\ astart' = now
    /\ circs' = {Circulation}
    /\ UNCHANGED <<available, bpc, entries, bstart, balances, vars>>

AvailableRead ==
    /\ apc \in 1..4
    /\ subtotal' = subtotal + SupplyRead(apc)
    /\ IF apc = 4 THEN apc' = 0 /\ available' = Available(subtotal') ELSE apc' = apc + 1 /\ UNCHANGED available
    /\ UNCHANGED <<astart, bpc, entries, bstart, balances, vars, circs>>

BalancesStart ==
    /\ bpc = 0 /\ balances = None
    /\ bpc' = 1 /\ entries' = << >> /\ bstart' = now
    /\ UNCHANGED <<apc, subtotal, astart, available, balances, vars, circs>>

(* One listed account: account_impl, then balance_pending for it.           *)
BalancesReadStopsEarly ==
    /\ bpc \in 1..Len(Listed)
    /\ entries' = Append(entries, BalancePending(Listed[bpc]))
    /\ IF bpc >= Len(Listed) - 1 THEN bpc' = 0 /\ balances' = entries' ELSE bpc' = bpc + 1 /\ UNCHANGED balances
    /\ UNCHANGED <<apc, subtotal, astart, available, bstart, vars, circs>>

BalancesRead ==
    /\ bpc \in 1..Len(Listed)
    /\ entries' = Append(entries, BalancePending(Listed[bpc]))
    /\ IF bpc = Len(Listed) THEN bpc' = 0 /\ balances' = entries' ELSE bpc' = bpc + 1 /\ UNCHANGED balances
    /\ UNCHANGED <<apc, subtotal, astart, available, bstart, vars, circs>>

(* The ledger of LedgerQueries, with no receive into the burning account.  *)
LedgerNext ==
    \E a \in Accounts : \/ \E b \in Accounts : send(a, b)
                        \/ a # Burn /\ receive(a)
                        \/ change(a)
                        \/ confirm(a)

ReaderInit ==
    /\ Init
    /\ apc = 0 /\ subtotal = 0 /\ astart = 0 /\ available = None
    /\ bpc = 0 /\ entries = << >> /\ bstart = 0 /\ balances = None
    /\ circs = {}

ReaderNext ==
    \/ /\ LedgerNext
       /\ circs' = IF apc # 0 THEN circs \cup {Circulation'} ELSE circs
       /\ UNCHANGED readers
    \/ AvailableStart \/ AvailableRead
    \/ BalancesStart \/ BalancesRead

ReaderSpec == ReaderInit /\ [][ReaderNext]_allvars
-----------------------------------------------------------------------------

(* An available_supply answer taken while no block was processed is the   *)
(* circulation of that ledger state: genesis_amount less the four reads   *)
(* is, by the ledger's conservation of the supply, every other balance    *)
(* and every pending amount not sent to the burning account.              *)
AvailableIsCirculation ==
    apc = 0 /\ available # None /\ astart = now => available = Circulation

(* Every available_supply answer is the circulation of some ledger state  *)
(* the request lived through: the four reads, each under a read           *)
(* transaction of its own, add up to the balances of one moment.          *)
AvailableFromOneState ==
    apc = 0 /\ available # None => available \in circs

(* An accounts_balances answer over every account, taken while no block   *)
(* was processed, counts each unit of the supply once: as a balance or as *)
(* a pending amount.                                                       *)
BalancesQuietConserve ==
    bpc = 0 /\ balances # None /\ bstart = now =>
        Sum([k \in DOMAIN balances |-> balances[k].balance + balances[k].pending]) = Supply

(* block_create's properties, at every ledger state the run reaches: the *)
(* states where no reader has started cover them all.                     *)
ReadersIdle == apc = 0 /\ bpc = 0 /\ available = None /\ balances = None

(* See CheckedSendTransfersAmount: a checked or ledger-read send moves     *)
(* exactly "amount" out of the block it follows.                           *)
IdleCheckedSendTransfersAmount == ReadersIdle => CheckedSendTransfersAmount

(* See CreatedOnSignersHead: a block built without a stated previous       *)
(* follows the head of the account that signs it.                          *)
IdleCreatedOnSignersHead == ReadersIdle => CreatedOnSignersHead
=============================================================================
