----------------------------- MODULE WalletAsync -----------------------------
(***************************************************************************)
(* The RPC actions that build blocks through the wallet's action queue:    *)
(* send (rpc_handler::send), receive (rpc_handler::receive) and            *)
(* account_representative_set, for one wallet account.                     *)
(*                                                                         *)
(* Each handler checks the request under read transactions, then hands a  *)
(* closure to wallet->send_async / receive_async / change_async and        *)
(* returns; the wallet's action thread runs the action later and the      *)
(* closure writes the response.  What the wallet action does (lock check, *)
(* balance check, the "id" table, consuming a pending entry) is modelled  *)
(* from the wallet contract of the specification.                          *)
(***************************************************************************)
EXTENDS Naturals, FiniteSets

CONSTANTS
    Requests,     \* RPC requests
    Amounts,      \* amounts a send may ask for (non-zero)
    Pendings,     \* pending entries (receivable sends) to the account
    PendAmount,   \* Pendings -> amount
    Ids,          \* values of the optional "id" of a send
    NoId,         \* a send without "id"
    None,
    InitBalance,
    MaxBalance

ASSUME /\ 0 \notin Amounts /\ InitBalance \in 0..MaxBalance
       /\ NoId \notin Ids

VARIABLES
    balance,   \* the account's ledger balance
    pending,   \* pending entries still receivable
    locked,    \* the wallet has no valid password
    idblock,   \* wallet: the send request whose block an "id" names
    queue,     \* wallet actions queued, not yet run (an unordered multimap)
    pc,        \* per request: "idle", "queued", "done"
    kind,      \* per request: "send", "receive", "change"
    amt,       \* per request: send amount
    cid,       \* per request: the "id" of the send request
    sid,       \* per request: the "id" passed to send_async
    pend,      \* per request: the pending entry a receive names
    cbal,      \* per request: the balance the send handler captured
    resp,      \* per request: the response written
    why,       \* history: why the wallet's send returned no block
    spent      \* history: the send made a block and spent its amount

vars == <<balance, pending, locked, idblock, queue,
          pc, kind, amt, cid, sid, pend, cbal, resp, why, spent>>

Responses == {"none", "block", "block_zero", "wallet_locked", "unreceivable",
              "insufficient_balance", "error_generating"}

TypeOK ==
    /\ balance \in 0..MaxBalance /\ pending \subseteq Pendings
    /\ locked \in BOOLEAN /\ queue \subseteq Requests
    /\ idblock \in [Ids -> Requests \cup {None}]
    /\ pc \in [Requests -> {"idle", "queued", "done"}]
    /\ resp \in [Requests -> Responses]
    /\ why \in [Requests -> {"none", "locked", "funds"}]
    /\ spent \in [Requests -> BOOLEAN]

Init ==
    /\ balance = InitBalance /\ pending = Pendings /\ locked = FALSE
    /\ idblock = [i \in Ids |-> None] /\ queue = {}
    /\ pc = [r \in Requests |-> "idle"]
    /\ kind = [r \in Requests |-> "send"]
    /\ amt = [r \in Requests |-> CHOOSE a \in Amounts : TRUE]
    /\ cid = [r \in Requests |-> NoId]
    /\ sid = [r \in Requests |-> NoId]
    /\ pend = [r \in Requests |-> None]
    /\ cbal = [r \in Requests |-> 0]
    /\ resp = [r \in Requests |-> "none"]
    /\ why = [r \in Requests |-> "none"]
    /\ spent = [r \in Requests |-> FALSE]

Answer(r, v) ==
    /\ pc' = [pc EXCEPT ![r] = "done"]
    /\ resp' = [resp EXCEPT ![r] = v]

(* The handler left the request without an answer: it is neither queued  *)
(* nor answered.                                                          *)
RejectUnanswered(r, v) ==
    /\ pc' = [pc EXCEPT ![r] = "queued"]
    /\ UNCHANGED <<resp, queue>>

(* "if (ec) response_errors ()" after the async call: a request rejected  *)
(* by the handler is answered with its error there.                       *)
Reject(r, v) == Answer(r, v) /\ UNCHANGED queue

Enqueue(r) ==
    /\ pc' = [pc EXCEPT ![r] = "queued"]
    /\ queue' = queue \cup {r}
    /\ UNCHANGED resp

-----------------------------------------------------------------------------
(* The handlers.  A request rejected before the wallet is called (bad      *)
(* wallet, account, amount, work) answers an error and changes nothing;   *)
(* the wallet lock is the check that races the wallet's own state.         *)

RequestIdDropped(i) == NoId

(* request.get_optional ("id"), handed on to send_async.                   *)
RequestId(i) == i

(* send: check the password and read the source balance, then send_async  *)
(* with a closure that captures that balance.                              *)
send(r) ==
    /\ pc[r] = "idle"
    /\ \E a \in Amounts, i \in Ids \cup {NoId} :
         /\ kind' = [kind EXCEPT ![r] = "send"]
         /\ amt' = [amt EXCEPT ![r] = a]
         /\ cid' = [cid EXCEPT ![r] = i]
         /\ sid' = [sid EXCEPT ![r] = RequestId(i)]
    /\ cbal' = [cbal EXCEPT ![r] = balance]
    /\ IF locked THEN Reject(r, "wallet_locked")
                 ELSE Enqueue(r)
    /\ UNCHANGED <<balance, pending, locked, idblock, pend, why, spent>>

(* receive: check the password and that the pending entry exists, then     *)
(* receive_async.                                                          *)
receive(r) ==
    /\ pc[r] = "idle"
    /\ \E p \in Pendings :
         /\ pend' = [pend EXCEPT ![r] = p]
         /\ CASE locked           -> Reject(r, "wallet_locked")
              [] p \notin pending -> Reject(r, "unreceivable")
              [] OTHER            -> Enqueue(r)
    /\ kind' = [kind EXCEPT ![r] = "receive"]
    /\ UNCHANGED <<balance, pending, locked, idblock, amt, cid, sid, cbal, why, spent>>

(* account_representative_set: the password is checked only when the      *)
(* request carries "work"; then change_async.                              *)
account_representative_set(r) ==
    /\ pc[r] = "idle"
    /\ \E work \in BOOLEAN :
         IF work /\ locked THEN Reject(r, "wallet_locked")
                           ELSE Enqueue(r)
    /\ kind' = [kind EXCEPT ![r] = "change"]
    /\ UNCHANGED <<balance, pending, locked, idblock, amt, cid, sid, pend, cbal, why, spent>>

(* The closures.  send's answers the block, or on failure picks its error *)
(* from the balance it captured; receive's and change's answer the block  *)
(* hash, which is zero when the wallet made no block.                      *)
SendCallback(r, ok) ==
    IF ok THEN "block"
    ELSE IF cbal[r] >= amt[r] THEN "error_generating" ELSE "insufficient_balance"

BlockCallback(ok) == IF ok THEN "block" ELSE "block_zero"

-----------------------------------------------------------------------------
(* The wallet's action thread runs one queued action (specification:       *)
(* wallet send/receive/change actions).                                    *)
FundedUnchecked(r) == TRUE

(* The wallet builds a send only from a balance that covers the amount.    *)
Funded(r) == balance >= amt[r]

send_action(r) ==
    /\ r \in queue /\ kind[r] = "send"
    /\ queue' = queue \ {r}
    /\ LET known == sid[r] # NoId /\ idblock[sid[r]] # None
           ok == known \/ (~locked /\ Funded(r))
       IN /\ balance' = IF ok /\ ~known THEN balance - amt[r] ELSE balance
          /\ idblock' = IF ok /\ ~known /\ sid[r] # NoId
                          THEN [idblock EXCEPT ![sid[r]] = r] ELSE idblock
          /\ why' = [why EXCEPT ![r] = CASE ok     -> "none"
                                         [] locked -> "locked"
                                         [] OTHER  -> "funds"]
          /\ spent' = [spent EXCEPT ![r] = ok /\ ~known]
          /\ Answer(r, SendCallback(r, ok))
    /\ UNCHANGED <<pending, locked, kind, amt, cid, sid, pend, cbal>>

receive_action(r) ==
    /\ r \in queue /\ kind[r] = "receive"
    /\ queue' = queue \ {r}
    /\ LET ok == ~locked /\ pend[r] \in pending
                 /\ balance + PendAmount[pend[r]] <= MaxBalance
       IN /\ balance' = IF ok THEN balance + PendAmount[pend[r]] ELSE balance
          /\ pending' = IF ok THEN pending \ {pend[r]} ELSE pending
          /\ Answer(r, BlockCallback(ok))
    /\ UNCHANGED <<locked, idblock, kind, amt, cid, sid, pend, cbal, why, spent>>

change_action(r) ==
    /\ r \in queue /\ kind[r] = "change"
    /\ queue' = queue \ {r}
    /\ Answer(r, BlockCallback(~locked))
    /\ UNCHANGED <<balance, pending, locked, idblock, kind, amt, cid, sid, pend, cbal, why, spent>>

(* The wallet receives a pending entry by itself (search_pending or the    *)
(* wallet's observer of incoming blocks).                                  *)
auto_receive(p) ==
    /\ ~locked /\ p \in pending
    /\ balance + PendAmount[p] <= MaxBalance
    /\ balance' = balance + PendAmount[p]
    /\ pending' = pending \ {p}
    /\ UNCHANGED <<locked, idblock, queue, pc, kind, amt, cid, sid, pend, cbal, resp, why, spent>>

(* wallet_lock and password_enter on the same wallet.                      *)
wallet_lock ==
    /\ locked' = TRUE
    /\ UNCHANGED <<balance, pending, idblock, queue, pc, kind, amt, cid, sid, pend, cbal,
                   resp, why, spent>>

password_enter ==
    /\ locked' = FALSE
    /\ UNCHANGED <<balance, pending, idblock, queue, pc, kind, amt, cid, sid, pend, cbal,
                   resp, why, spent>>

-----------------------------------------------------------------------------
Next ==
    \/ \E r \in Requests :
          \/ send(r) \/ receive(r) \/ account_representative_set(r)
          \/ send_action(r) \/ receive_action(r) \/ change_action(r)
    \/ \E p \in Pendings : auto_receive(p)
    \/ wallet_lock \/ password_enter

(* The wallet's action thread runs every queued action.                    *)
Fairness ==
    \A r \in Requests : WF_vars(send_action(r) \/ receive_action(r) \/ change_action(r))

Spec == Init /\ [][Next]_vars /\ Fairness

-----------------------------------------------------------------------------
(* Funds move once per "id": of the send requests that carry the same     *)
(* "id", at most one spends its amount; the others answer its block.  The *)
(* handler must pass the request's "id" to send_async, and the wallet     *)
(* must consult it when the action runs, not when it was queued.          *)
SendOncePerId ==
    \A r1, r2 \in Requests :
        (r1 # r2 /\ cid[r1] = cid[r2] /\ cid[r1] # NoId)
            => ~(spent[r1] /\ spent[r2])

(* Every request the handler took is answered: an error found by the      *)
(* handler by response_errors, and a request handed to the wallet by its  *)
(* closure, which is called whether or not the wallet made a block.        *)
AsyncAnswered == \A r \in Requests : pc[r] # "idle" ~> pc[r] = "done"

(* A send that fails because the account's balance is below the amount    *)
(* answers "Insufficient balance", as rpc.send_idempotent expects; the     *)
(* closure decides from the balance read before send_async was called.    *)
InsufficientReported ==
    \A r \in Requests : why[r] = "funds" => resp[r] = "insufficient_balance"
=============================================================================
