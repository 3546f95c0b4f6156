---------------------------- MODULE ProcessBlock ----------------------------
(***************************************************************************)
(* The RPC action "process" (rpc_handler::process) submitting state blocks *)
(* of one account, racing the node's block processor and elections.       *)
(*                                                                         *)
(* The handler checks an optional "subtype" under a read transaction, then *)
(* validates work and calls block_processor.process_one under a separate  *)
(* write transaction.  Meanwhile the block processor applies blocks from  *)
(* the network and elections roll back the account's frontier (spec 4.4,  *)
(* 4.5).  The ledger's own rules (spec 4.2, step 5) are modelled from the  *)
(* specification.                                                          *)
(***************************************************************************)
EXTENDS Naturals, Sequences, SequencesExt

CONSTANTS
    Hashes,          \* the blocks that exist anywhere (network or clients)
    Block,           \* Hashes -> [prev, bal, link, work]
    None,            \* previous of an open block
    Requests,        \* RPC "process" requests
    Subtypes,        \* the "subtype" texts a client may send ("" = none)
    EnableControl,   \* rpc.config.enable_control
    ElectionRollback \* whether elections may roll back the frontier

ASSUME /\ \A h \in Hashes : Block[h].prev \in Hashes \cup {None}
       /\ \A h \in Hashes : Block[h].link \in {"none", "src", "epoch"}
       /\ "" \in Subtypes
       /\ EnableControl \in BOOLEAN /\ ElectionRollback \in BOOLEAN

VARIABLES
    chain,    \* the account's blocks in the ledger, open block first
    forced,   \* blocks handed to block_processor.force, not yet processed
    pc,       \* per request: "idle", "write" or "done"
    blk,      \* per request: the submitted block
    sub,      \* per request: its "subtype" text
    force,    \* per request: its "force" flag
    status,   \* per request: "none", an error, or "progress" or "forced"
              \* (both answered with the block's hash)
    checked,  \* history: no block applied or rolled back since the check
    quiet     \* history: process_one saw the chain the check read

vars == <<chain, forced, pc, blk, sub, force, status, checked, quiet>>

Init ==
    /\ chain = << >> /\ forced = {}
    /\ pc = [r \in Requests |-> "idle"]
    /\ blk = [r \in Requests |-> None]
    /\ sub = [r \in Requests |-> ""]
    /\ force = [r \in Requests |-> FALSE]
    /\ status = [r \in Requests |-> "none"]
    /\ checked = [r \in Requests |-> FALSE]
    /\ quiet = [r \in Requests |-> FALSE]

-----------------------------------------------------------------------------
(* The ledger (spec 4.2).  Balance of the previous block, and the subtype  *)
(* the ledger derives for a state block from (previous, balance, link).    *)
PrevBal(h) == IF Block[h].prev = None THEN 0 ELSE Block[Block[h].prev].bal

ActualSubtype(h) ==
    CASE Block[h].prev = None            -> "open"
      [] Block[h].bal < PrevBal(h)       -> "send"
      [] Block[h].bal > PrevBal(h)       -> "receive"
      [] Block[h].link = "epoch"         -> "epoch"
      [] OTHER                           -> "change"

(* ledger.process on the current chain: old, gap, fork, or the subtype's   *)
(* own check (a receive or open needs a source link; a change no link).    *)
LedgerProcess(c, h) ==
    LET b == Block[h] IN
    CASE ~b.work                                   -> "work_low"
      [] h \in Range(c)                            -> "old"
      [] b.prev # None /\ b.prev \notin Range(c)   -> "gap_previous"
      [] b.prev = None /\ c # << >>                -> "fork"
      [] b.prev # None /\ b.prev # Last(c)         -> "fork"
      [] ActualSubtype(h) \in {"open", "receive"} /\ b.link # "src" -> "gap_source"
      [] ActualSubtype(h) = "change" /\ b.link = "src"             -> "balance_mismatch"
      [] OTHER                                     -> "progress"

(* ledger.account_balance: the balance of the account's frontier.          *)
AccountBalance == IF chain = << >> THEN 0 ELSE Block[Last(chain)].bal

-----------------------------------------------------------------------------
SubtypeErrorSendEqual(h, s) ==
    LET b == Block[h]
        balance == AccountBalance
    IN
    CASE s = ""                                          -> ""
      [] b.prev # None /\ b.prev \notin Range(chain)     -> "gap_previous"
      [] s = "send"    /\ balance < b.bal                -> "invalid_subtype_balance"
      [] s = "receive" /\ balance > b.bal                -> "invalid_subtype_balance"
      [] s = "open"    /\ b.prev # None                  -> "invalid_subtype_previous"
      [] s = "change"  /\ balance # b.bal                -> "invalid_subtype_balance"
      [] s = "change"  /\ b.prev = None                  -> "invalid_subtype_previous"
      [] s = "epoch"   /\ balance # b.bal                -> "invalid_subtype_balance"
      [] s = "epoch"   /\ b.link # "epoch"               -> "invalid_subtype_epoch_link"
      [] s \notin {"send", "receive", "open", "change", "epoch"} -> "invalid_subtype"
      [] OTHER                                           -> ""

(* The subtype check of rpc_handler::process, under a read transaction:   *)
(* the error it sets, or "" when the block passes.                         *)
SubtypeError(h, s) ==
    LET b == Block[h]
        balance == AccountBalance
    IN
    CASE s = ""                                          -> ""
      [] b.prev # None /\ b.prev \notin Range(chain)     -> "gap_previous"
      [] s = "send"    /\ balance <= b.bal               -> "invalid_subtype_balance"
      [] s = "receive" /\ balance > b.bal                -> "invalid_subtype_balance"
      [] s = "open"    /\ b.prev # None                  -> "invalid_subtype_previous"
      [] s = "change"  /\ balance # b.bal                -> "invalid_subtype_balance"
      [] s = "change"  /\ b.prev = None                  -> "invalid_subtype_previous"
      [] s = "epoch"   /\ balance # b.bal                -> "invalid_subtype_balance"
      [] s = "epoch"   /\ b.link # "epoch"               -> "invalid_subtype_epoch_link"
      [] s \notin {"send", "receive", "open", "change", "epoch"} -> "invalid_subtype"
      [] OTHER                                           -> ""

(* The history of checked: a step that changes the chain clears it.       *)
Untouched == checked' = [q \in Requests |-> checked[q] /\ chain' = chain]

(* A client submits a block; block_impl parses it and the subtype check    *)
(* runs.  A failed check answers the error at once (response_errors).      *)
process_check(r) ==
    /\ pc[r] = "idle"
    /\ \E h \in Hashes, s \in Subtypes, f \in BOOLEAN :
         /\ blk' = [blk EXCEPT ![r] = h]
         /\ sub' = [sub EXCEPT ![r] = s]
         /\ force' = [force EXCEPT ![r] = f]
         /\ IF SubtypeError(h, s) = ""
              THEN /\ pc' = [pc EXCEPT ![r] = "write"]
                   /\ UNCHANGED status
              ELSE /\ pc' = [pc EXCEPT ![r] = "done"]
                   /\ status' = [status EXCEPT ![r] = SubtypeError(h, s)]
    /\ checked' = [checked EXCEPT ![r] = TRUE]
    /\ UNCHANGED <<chain, forced, quiet>>

(* work_validate, then process_one under the write transaction and the     *)
(* mapping of its result to the response; a fork with "force" on a node    *)
(* with enable_control is handed to block_processor.force and answered as  *)
(* accepted.                                                               *)
process_write(r) ==
    /\ pc[r] = "write"
    /\ LET h == blk[r]
           res == IF ~Block[h].work THEN "work_low" ELSE LedgerProcess(chain, h)
           forcing == res = "fork" /\ force[r] /\ EnableControl
       IN /\ chain' = IF res = "progress" THEN Append(chain, h) ELSE chain
          /\ forced' = IF forcing THEN forced \cup {h} ELSE forced
          /\ status' = [status EXCEPT ![r] =
                          IF forcing THEN "forced" ELSE res]
    /\ pc' = [pc EXCEPT ![r] = "done"]
    /\ quiet' = [quiet EXCEPT ![r] = checked[r]]
    /\ Untouched
    /\ UNCHANGED <<blk, sub, force>>

-----------------------------------------------------------------------------
(* The node around the RPC (spec 4.4, 4.5): the block processor applies a  *)
(* block from the network, processes a forced block by rolling back the    *)
(* competing blocks from its previous on, and elections roll back the      *)
(* frontier.                                                               *)
network_block(h) ==
    /\ LedgerProcess(chain, h) = "progress"
    /\ chain' = Append(chain, h)
    /\ Untouched
    /\ UNCHANGED <<forced, pc, blk, sub, force, status, quiet>>

RollbackTo(c, h) ==
    IF Block[h].prev = None THEN << >>
    ELSE SubSeq(c, 1, SelectInSeq(c, LAMBDA x : x = Block[h].prev))

block_processor_force(h) ==
    /\ h \in forced
    /\ forced' = forced \ {h}
    /\ LET c == RollbackTo(chain, h) IN
         chain' = IF (Block[h].prev = None \/ Block[h].prev \in Range(chain))
                     /\ LedgerProcess(c, h) = "progress"
                  THEN Append(c, h) ELSE chain
    /\ Untouched
    /\ UNCHANGED <<pc, blk, sub, force, status, quiet>>

election_rollback ==
    /\ ElectionRollback
    /\ chain # << >>
    /\ chain' = Front(chain)
    /\ Untouched
    /\ UNCHANGED <<forced, pc, blk, sub, force, status, quiet>>

-----------------------------------------------------------------------------
Next ==
    \/ \E r \in Requests : process_check(r) \/ process_write(r)
    \/ \E h \in Hashes : network_block(h) \/ block_processor_force(h)
    \/ election_rollback

(* The handler runs to its end on the worker thread (node.background):    *)
(* once checked, the write step is taken.                                  *)
Fairness == \A r \in Requests : WF_vars(process_write(r))

Spec == Init /\ [][Next]_vars /\ Fairness

-----------------------------------------------------------------------------
(* A block the RPC itself applied (answered with its hash, not forced)    *)
(* after a "subtype" check spends funds exactly when the client said      *)
(* "send": a block sent as "receive", "open", "change" or "epoch" never    *)
(* lowers the balance, and a "send" always does.  The check runs in an     *)
(* earlier read transaction than process_one, and against the account's   *)
(* frontier rather than the block's previous.                              *)
CheckedSendHonoured ==
    \A r \in Requests :
        (status[r] = "progress" /\ sub[r] # "")
            => ((sub[r] = "send") <=> (ActualSubtype(blk[r]) = "send"))

(* When process_one sees the very chain the subtype check read (no block *)
(* was applied or rolled back in between), a block the RPC applies after *)
(* a "subtype" check spends funds exactly when the client said "send":    *)
(* the check against the account's balance agrees with the ledger's       *)
(* derivation against the block's previous.  With CheckedSendHonoured      *)
(* violated, this places the fault in the interleaving, not in the check. *)
QuietCheckHonoured ==
    \A r \in Requests :
        (status[r] = "progress" /\ sub[r] # "" /\ quiet[r])
            => ((sub[r] = "send") <=> (ActualSubtype(blk[r]) = "send"))
=============================================================================
