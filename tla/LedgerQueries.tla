---------------------------- MODULE LedgerQueries ----------------------------
(***************************************************************************)
(* The read-only RPC queries that walk the block store under one read     *)
(* transaction: chain / successors, account_history with its              *)
(* history_visitor, pending, accounts_pending, wallet_pending, frontiers, *)
(* ledger (simple and sorting) and delegators / delegators_count.  Each   *)
(* walks a store iterator; it is modelled as a RECURSIVE operator that    *)
(* translates the loop, and checked against a reference definition of    *)
(* what the query returns, for every input, in every ledger the node can  *)
(* reach.                                                                  *)
(*                                                                         *)
(* Accounts are 1..NumAccounts, their key order in the latest table.  An  *)
(* account's chain is a sequence of blocks, index 1 its open block; a     *)
(* block is named by its index (0 is the zero hash).  Each block records  *)
(* the account_info the ledger writes with it: balance, representative    *)
(* and modified time.  The pending entries of an account are a sequence  *)
(* in key (hash) order.                                                    *)
(***************************************************************************)
EXTENDS Integers, Sequences, SequencesExt, TLC

CONSTANTS
    NumAccounts,   \* accounts 1..NumAccounts; account 1 is genesis
    Supply,        \* the genesis balance
    Reps,          \* representatives an open or change block may name
    Wallet,        \* the accounts of the wallet the wallet_* queries walk
    Adhoc,         \* those of its keys that are adhoc, not deterministic
    MaxBlocks,     \* bound on the blocks applied after genesis
    Counts,        \* values of "count" (count_impl rejects 0)
    Offsets,       \* values of "offset"
    Thresholds     \* values of "threshold"

Accounts == 1..NumAccounts

ASSUME /\ 0 \notin Counts /\ Reps \subseteq Accounts /\ Wallet \subseteq Accounts /\ Adhoc \subseteq Wallet

VARIABLES
    chain,     \* chain[a]: the account's blocks, open block first
    pend,      \* pend[a]: its pending entries [amount, active], key order
    now,       \* blocks applied so far
    clock,     \* the node's clock in seconds, the blocks' timestamps
    weight     \* the representation table: representative -> weight

vars == <<chain, pend, now, clock, weight>>

(* count_optional_impl's default, the largest uint64: no limit.           *)
Unbounded == MaxBlocks + NumAccounts + 2

Opened(a) == chain[a] # << >>

(* The account_info of an opened account: that of its head block.         *)
Info(a) == chain[a][Len(chain[a])]

(* A block the non-raw history shows: change blocks, and state blocks that *)
(* change the representative or upgrade the epoch, put nothing in the      *)
(* entry (history_visitor); every block shows in raw mode.                 *)
Hidden == {"change", "state_change", "state_epoch"}

Visible(kind, raw) == raw \/ kind \notin Hidden

-----------------------------------------------------------------------------
(* chain: from "block", follow previous (or the successor for successors  *)
(* and reverse), skip "offset" blocks, collect until "count" hashes.        *)
(* block_get returns no block for the zero hash or an unknown one.         *)
Step(c, i, successors) == IF successors THEN (IF i < Len(c) THEN i + 1 ELSE 0) ELSE i - 1

RECURSIVE ChainLoopCountsSkipped(_, _, _, _, _, _)
ChainLoopCountsSkipped(c, i, count, offset, successors, blocks) ==
    IF i = 0 \/ i > Len(c) \/ Len(blocks) + offset >= count THEN blocks
    ELSE IF offset > 0
         THEN ChainLoopCountsSkipped(c, Step(c, i, successors), count, offset - 1, successors, blocks)
         ELSE ChainLoopCountsSkipped(c, Step(c, i, successors), count, offset, successors, Append(blocks, i))

RECURSIVE ChainLoop(_, _, _, _, _, _)
ChainLoop(c, i, count, offset, successors, blocks) ==
    IF i = 0 \/ i > Len(c) \/ Len(blocks) >= count THEN blocks
    ELSE IF offset > 0
         THEN ChainLoop(c, Step(c, i, successors), count, offset - 1, successors, blocks)
         ELSE ChainLoop(c, Step(c, i, successors), count, offset, successors, Append(blocks, i))

ChainQuery(c, start, count, offset, successors) ==
    ChainLoop(c, start, count, offset, successors, << >>)

-----------------------------------------------------------------------------
(* account_history: from "head", visit blocks backwards.  "offset" skips   *)
(* blocks; "count" counts the entries the visitor filled.  The response's *)
(* "previous" is the next block the walk would have visited.               *)
RECURSIVE HistoryLoopCountsBlocks(_, _, _, _, _, _)
HistoryLoopCountsBlocks(c, i, count, offset, raw, history) ==
    IF i = 0 \/ count = 0 THEN [history |-> history, previous |-> i]
    ELSE IF offset > 0
         THEN HistoryLoopCountsBlocks(c, i - 1, count, offset - 1, raw, history)
    ELSE IF Visible(c[i].kind, raw)
         THEN HistoryLoopCountsBlocks(c, i - 1, count - 1, offset, raw, Append(history, i))
    ELSE HistoryLoopCountsBlocks(c, i - 1, count - 1, offset, raw, history)

RECURSIVE HistoryLoop(_, _, _, _, _, _)
HistoryLoop(c, i, count, offset, raw, history) ==
    IF i = 0 \/ count = 0 THEN [history |-> history, previous |-> i]
    ELSE IF offset > 0
         THEN HistoryLoop(c, i - 1, count, offset - 1, raw, history)
    ELSE IF Visible(c[i].kind, raw)
         THEN HistoryLoop(c, i - 1, count - 1, offset, raw, Append(history, i))
    ELSE HistoryLoop(c, i - 1, count, offset, raw, history)

AccountHistory(c, head, count, offset, raw) ==
    HistoryLoop(c, head, count, offset, raw, << >>)

-----------------------------------------------------------------------------
(* pending: iterate the account's pending entries in key order while fewer *)
(* than "count" are collected; a send still in an election is left out    *)
(* unless include_active; with a threshold (or source / min_version) the  *)
(* amount must reach it.                                                   *)
PendingEligibleWithActive(e, threshold, includeActive, detailed) ==
    ~detailed \/ e.amount >= threshold

PendingEligible(e, threshold, includeActive, detailed) ==
    /\ includeActive \/ ~e.active
    /\ ~detailed \/ e.amount >= threshold

RECURSIVE PendingLoop(_, _, _, _, _, _, _)
PendingLoop(p, i, count, threshold, includeActive, detailed, blocks) ==
    IF i > Len(p) \/ Len(blocks) >= count THEN blocks
    ELSE PendingLoop(p, i + 1, count, threshold, includeActive, detailed,
                     IF PendingEligible(p[i], threshold, includeActive, detailed)
                     THEN Append(blocks, i) ELSE blocks)

Pending(p, count, threshold, includeActive, source, minVersion) ==
    PendingLoop(p, 1, count, threshold, includeActive,
                threshold # 0 \/ source \/ minVersion, << >>)

(* accounts_pending runs the same loop for every account of the request.  *)
AccountsPending(accts, count, threshold, includeActive, source) ==
    [a \in accts |-> PendingLoop(pend[a], 1, count, threshold, includeActive,
                                 threshold # 0 \/ source, << >>)]

(* wallet_pending runs it for every account of the wallet, and leaves out *)
(* an account whose list came out empty.  Its min_version only changes   *)
(* the form of an entry (and, unlike pending, not which form is chosen),  *)
(* never which entries are listed.                                        *)
WalletPending(count, threshold, includeActive, source) ==
    LET peers(a) == PendingLoop(pend[a], 1, count, threshold, includeActive,
                                threshold # 0 \/ source, << >>)
    IN [a \in {w \in Wallet : peers(w) # << >>} |-> peers(a)]

-----------------------------------------------------------------------------
(* frontiers: walk the latest table from "start" while fewer than "count" *)
(* frontiers are collected; the table holds the opened accounts only.     *)
RECURSIVE FrontiersLoop(_, _, _)
FrontiersLoop(i, count, frontiers) ==
    IF i > NumAccounts \/ Len(frontiers) >= count THEN frontiers
    ELSE FrontiersLoop(i + 1, count,
                       IF Opened(i) THEN Append(frontiers, <<i, Len(chain[i])>>) ELSE frontiers)

(* ledger, simple: the same walk, listing an account only if it was       *)
(* modified at or after "modified_since"; "count" bounds the listed ones. *)
RECURSIVE LedgerLoopModifiedAfter(_, _, _, _)
LedgerLoopModifiedAfter(i, count, since, accounts) ==
    IF i > NumAccounts \/ Len(accounts) >= count THEN accounts
    ELSE LedgerLoopModifiedAfter(i + 1, count, since,
                    IF Opened(i) /\ Info(i).time > since THEN Append(accounts, i) ELSE accounts)

RECURSIVE LedgerLoop(_, _, _, _)
LedgerLoop(i, count, since, accounts) ==
    IF i > NumAccounts \/ Len(accounts) >= count THEN accounts
    ELSE LedgerLoop(i + 1, count, since,
                    IF Opened(i) /\ Info(i).time >= since THEN Append(accounts, i) ELSE accounts)

(* ledger, sorting: collect (balance, account) of every account from      *)
(* "start" modified since, std::sort ascending, std::reverse, and list    *)
(* the first "count".                                                     *)
RECURSIVE LedgerCollect(_, _, _)
LedgerCollect(i, since, pairs) ==
    IF i > NumAccounts THEN pairs
    ELSE LedgerCollect(i + 1, since,
                       IF Opened(i) /\ Info(i).time >= since
                       THEN Append(pairs, <<Info(i).balance, i>>) ELSE pairs)

PairLess(x, y) == x[1] < y[1] \/ (x[1] = y[1] /\ x[2] < y[2])

LedgerSortedNoReverse(start, count, since) ==
    LET sorted == SortSeq(LedgerCollect(start, since, << >>), PairLess)
    IN [k \in 1..(IF count < Len(sorted) THEN count ELSE Len(sorted)) |-> sorted[k][2]]

LedgerSorted(start, count, since) ==
    LET sorted == Reverse(SortSeq(LedgerCollect(start, since, << >>), PairLess))
    IN [k \in 1..(IF count < Len(sorted) THEN count ELSE Len(sorted)) |-> sorted[k][2]]

Ledger(start, count, since, sorting) ==
    IF sorting THEN LedgerSorted(start, count, since)
    ELSE LedgerLoop(start, count, since, << >>)

(* delegators / delegators_count: walk the whole latest table and take    *)
(* the accounts whose rep_block names the representative.                 *)
RECURSIVE DelegatorsLoop(_, _, _)
DelegatorsLoop(i, rep, delegators) ==
    IF i > NumAccounts THEN delegators
    ELSE DelegatorsLoop(i + 1, rep,
                        IF Opened(i) /\ Info(i).rep = rep
                        THEN Append(delegators, <<i, Info(i).balance>>) ELSE delegators)

RECURSIVE DelegatorsCount(_, _, _)
DelegatorsCount(i, rep, count) ==
    IF i > NumAccounts THEN count
    ELSE DelegatorsCount(i + 1, rep, IF Opened(i) /\ Info(i).rep = rep THEN count + 1 ELSE count)

(* representatives: walk the representation table in key order, listing *)
(* at most "count"; or, sorting, collect (weight, account) pairs,         *)
(* std::sort, std::reverse and list the first "count".                    *)
RECURSIVE RepresentativesLoop(_, _, _)
RepresentativesLoop(i, count, representatives) ==
    IF i > NumAccounts \/ Len(representatives) >= count THEN representatives
    ELSE RepresentativesLoop(i + 1, count,
                             IF i \in DOMAIN weight
                             THEN Append(representatives, <<i, weight[i]>>) ELSE representatives)

RepresentativesSorted(count) ==
    LET sorted == Reverse(SortSeq([k \in 1..Len(RepresentativesLoop(1, Unbounded, << >>)) |->
                                     <<RepresentativesLoop(1, Unbounded, << >>)[k][2],
                                       RepresentativesLoop(1, Unbounded, << >>)[k][1]>>],
                                  PairLess))
    IN [k \in 1..(IF count < Len(sorted) THEN count ELSE Len(sorted)) |-> <<sorted[k][2], sorted[k][1]>>]

-----------------------------------------------------------------------------
(* The wallet queries walk the wallet store, in key order, under a wallet *)
(* read transaction, and read the ledger under a block read transaction. *)
WalletSeq == SetToSortSeq(Wallet, LAMBDA x, y : x < y)

(* ledger.account_balance and ledger.account_pending (spec 4.2): the head *)
(* balance, 0 for an unopened account; the sum of all pending amounts.    *)
AccountBalance(a) == IF Opened(a) THEN Info(a).balance ELSE 0

AccountPending(a) == SumFunction([k \in DOMAIN pend[a] |-> pend[a][k].amount])

(* wallet_info: totals over every wallet account.                         *)
RECURSIVE WalletInfoLoop(_, _)
WalletInfoLoop(i, info) ==
    IF i > Len(WalletSeq) THEN info
    ELSE LET a == WalletSeq[i] IN
         WalletInfoLoop(i + 1, [balance       |-> info.balance + AccountBalance(a),
                                pending       |-> info.pending + AccountPending(a),
                                count         |-> info.count + 1,
                                deterministic |-> info.deterministic + (IF a \in Adhoc THEN 0 ELSE 1),
                                adhoc         |-> info.adhoc + (IF a \in Adhoc THEN 1 ELSE 0)])

WalletInfo == WalletInfoLoop(1, [balance |-> 0, pending |-> 0, count |-> 0,
                                 deterministic |-> 0, adhoc |-> 0])

(* wallet_balances: the accounts whose balance reaches "threshold".       *)
RECURSIVE WalletBalancesLoop(_, _, _)
WalletBalancesLoop(i, threshold, balances) ==
    IF i > Len(WalletSeq) THEN balances
    ELSE LET a == WalletSeq[i] IN
         WalletBalancesLoop(i + 1, threshold,
             IF AccountBalance(a) >= threshold
             THEN Append(balances, <<a, AccountBalance(a), AccountPending(a)>>) ELSE balances)

(* wallet_frontiers: the head of every opened wallet account.             *)
RECURSIVE WalletFrontiersLoop(_, _)
WalletFrontiersLoop(i, frontiers) ==
    IF i > Len(WalletSeq) THEN frontiers
    ELSE WalletFrontiersLoop(i + 1,
             IF Opened(WalletSeq[i])
             THEN Append(frontiers, <<WalletSeq[i], Len(chain[WalletSeq[i]])>>) ELSE frontiers)

(* wallet_ledger: the opened wallet accounts modified since.              *)
RECURSIVE WalletLedgerLoop(_, _, _)
WalletLedgerLoop(i, since, accounts) ==
    IF i > Len(WalletSeq) THEN accounts
    ELSE WalletLedgerLoop(i + 1, since,
             IF Opened(WalletSeq[i]) /\ Info(WalletSeq[i]).time >= since
             THEN Append(accounts, WalletSeq[i]) ELSE accounts)

(* wallet_history collects entries in a std::multimap keyed by timestamp  *)
(* with std::greater; insert puts an entry after those of equal key.      *)
MultimapInsertBeforeEqual(entries, e) ==
    InsertAt(entries, Len(SelectSeq(entries, LAMBDA x : x.time > e.time)) + 1, e)

MultimapInsert(entries, e) ==
    InsertAt(entries, Len(SelectSeq(entries, LAMBDA x : x.time >= e.time)) + 1, e)

(* For one account: from the head, while the timestamp is at least        *)
(* modified_since and the hash is not zero, read the block's sideband     *)
(* timestamp; a block stamped since then adds the visitor's entry, if it  *)
(* filled one, and the walk moves to previous; an older block ends it.    *)
RECURSIVE HistoryWalk(_, _, _, _, _)
HistoryWalk(a, hash, timestamp, since, entries) ==
    IF ~(timestamp >= since /\ hash # 0) THEN entries
    ELSE LET t == chain[a][hash].time IN
         IF t >= since
         THEN HistoryWalk(a, hash - 1, t, since,
                          IF Visible(chain[a][hash].kind, FALSE)
                          THEN MultimapInsert(entries, [time |-> t, account |-> a, hash |-> hash])
                          ELSE entries)
         ELSE HistoryWalk(a, 0, t, since, entries)

RECURSIVE WalletHistoryLoop(_, _, _)
WalletHistoryLoop(i, since, entries) ==
    IF i > Len(WalletSeq) THEN entries
    ELSE LET a == WalletSeq[i] IN
         WalletHistoryLoop(i + 1, since,
             IF Opened(a) THEN HistoryWalk(a, Len(chain[a]), Info(a).time, since, entries)
             ELSE entries)

WalletHistory(since) == WalletHistoryLoop(1, since, << >>)

-----------------------------------------------------------------------------
(* The ledger (spec 4.2): genesis is opened with the supply; a send moves *)
(* an amount out of an account into a pending entry of the destination,   *)
(* keyed by the send's hash; a receive (an open for a new account) takes  *)
(* one; a change names a new representative; an election on a send ends. *)
(* representation_add: an entry, once written, stays (at weight 0 too).   *)
AddWeight(w, r, d) ==
    [x \in DOMAIN w \cup {r} |-> (IF x \in DOMAIN w THEN w[x] ELSE 0) + (IF x = r THEN d ELSE 0)]

Block(kind, balance, rep) == [kind |-> kind, balance |-> balance, rep |-> rep, time |-> clock']

(* A block is stamped in the second it is processed: the next may share it. *)
Tick == clock' \in {clock, clock + 1}

Init ==
    /\ chain = [a \in Accounts |->
                  IF a = 1 THEN <<[kind |-> "open", balance |-> Supply, rep |-> 1, time |-> 0]>>
                  ELSE << >>]
    /\ pend = [a \in Accounts |-> << >>]
    /\ now = 0
    /\ clock = 0
    /\ weight = (1 :> Supply)

send(a, b) ==
    /\ Opened(a) /\ now < MaxBlocks
    /\ Tick
    /\ \E m \in 1..Info(a).balance, pos \in 1..(Len(pend[b]) + 1) :
         /\ chain' = [chain EXCEPT ![a] = Append(@, Block("send", Info(a).balance - m, Info(a).rep))]
         /\ pend' = [pend EXCEPT ![b] = InsertAt(@, pos, [amount |-> m, active |-> TRUE])]
         /\ weight' = AddWeight(weight, Info(a).rep, -m)
    /\ now' = now + 1

receive(b) ==
    /\ now < MaxBlocks
    /\ Tick
    /\ \E k \in DOMAIN pend[b] :
         /\ \/ /\ Opened(b)
               /\ chain' = [chain EXCEPT ![b] =
                     Append(@, Block("receive", Info(b).balance + pend[b][k].amount, Info(b).rep))]
               /\ weight' = AddWeight(weight, Info(b).rep, pend[b][k].amount)
            \/ /\ ~Opened(b)
               /\ \E r \in Reps :
                    /\ chain' = [chain EXCEPT ![b] = <<Block("open", pend[b][k].amount, r)>>]
                    /\ weight' = AddWeight(weight, r, pend[b][k].amount)
         /\ pend' = [pend EXCEPT ![b] = RemoveAt(@, k)]
    /\ now' = now + 1

changeKeepsWeight(a) ==
    /\ Opened(a) /\ now < MaxBlocks
    /\ Tick
    /\ \E r \in Reps \ {Info(a).rep} :
         /\ chain' = [chain EXCEPT ![a] = Append(@, Block("change", Info(a).balance, r))]
         /\ weight' = AddWeight(weight, r, 0)
    /\ UNCHANGED pend
    /\ now' = now + 1

change(a) ==
    /\ Opened(a) /\ now < MaxBlocks
    /\ Tick
    /\ \E r \in Reps \ {Info(a).rep} :
         /\ chain' = [chain EXCEPT ![a] = Append(@, Block("change", Info(a).balance, r))]
         /\ weight' = AddWeight(AddWeight(weight, Info(a).rep, -Info(a).balance), r, Info(a).balance)
    /\ UNCHANGED pend
    /\ now' = now + 1

confirm(b) ==
    /\ \E k \in DOMAIN pend[b] :
         /\ pend[b][k].active
         /\ pend' = [pend EXCEPT ![b][k].active = FALSE]
    /\ UNCHANGED <<chain, now, clock, weight>>

Next == \E a \in Accounts : \/ \E b \in Accounts : send(a, b)
                           \/ receive(a) \/ change(a) \/ confirm(a)

Spec == Init /\ [][Next]_vars
-----------------------------------------------------------------------------
(* References.  The blocks met walking from "start": back to the open      *)
(* block, or forward to the frontier; the first n of a sequence, and what *)
(* is left after dropping n.                                               *)
Walk(c, start, forward) ==
    IF start > Len(c) THEN << >>
    ELSE IF forward THEN [k \in 1..(Len(c) - start + 1) |-> start + k - 1]
    ELSE [k \in 1..start |-> start - k + 1]

Prefix(s, n) == IF n >= Len(s) THEN s ELSE SubSeq(s, 1, n)

Drop(s, n) == IF n >= Len(s) THEN << >> ELSE SubSeq(s, n + 1, Len(s))

(* The blocks of the walk that carry an entry: sends, receives and opens   *)
(* (an open is reported as a receive), or every block in raw mode.         *)
Entries(c, head, raw) ==
    SelectSeq(Walk(c, head, FALSE),
              LAMBDA i : raw \/ c[i].kind \in {"open", "send", "receive",
                                                "state_send", "state_receive"})

(* The opened accounts from "start" on, in key order.                      *)
LatestFrom(start) == SelectSeq([k \in 1..(NumAccounts - start + 1) |-> start + k - 1], Opened)

(* The order the sorting ledger promises: larger balance first.           *)
Richer(x, y) == Info(x).balance > Info(y).balance \/ (Info(x).balance = Info(y).balance /\ x > y)

(* chain / successors answer "count" hashes of the walk after the first    *)
(* "offset": the client pages with offset := offset + count.               *)
ChainMatchesWalk ==
    \A a \in Accounts, count \in Counts, offset \in Offsets, forward \in BOOLEAN :
      \A start \in 1..(Len(chain[a]) + 1) :
        ChainQuery(chain[a], start, count, offset, forward)
          = Prefix(Drop(Walk(chain[a], start, forward), offset), count)

(* account_history skips "offset" blocks and then answers the first       *)
(* "count" entries, and its "previous" is where the next page starts: the  *)
(* entries of the walk are this page followed by the history from         *)
(* "previous", so paging by "head" := previous loses and repeats nothing.  *)
HistoryPagesByPrevious ==
    \A a \in Accounts, count \in Counts, offset \in Offsets, raw \in BOOLEAN :
      \A head \in 1..Len(chain[a]) :
        LET r    == AccountHistory(chain[a], head, count, offset, raw)
            page == SelectSeq(Entries(chain[a], head, raw), LAMBDA i : i <= head - offset)
        IN /\ r.history = Prefix(page, count)
           /\ page = r.history \o (IF r.previous = 0 THEN << >>
                                   ELSE Entries(chain[a], r.previous, raw))

(* pending answers the first "count" entries, in key order, that are not  *)
(* in an active election (unless include_active) and reach the threshold. *)
PendingMatchesFilter ==
    \A a \in Accounts, count \in Counts \cup {Unbounded}, threshold \in Thresholds,
       includeActive, source, minVersion \in BOOLEAN :
        Pending(pend[a], count, threshold, includeActive, source, minVersion)
          = Prefix(SelectSeq([k \in 1..Len(pend[a]) |-> k],
                             LAMBDA k : /\ includeActive \/ ~pend[a][k].active
                                        /\ pend[a][k].amount >= threshold),
                   count)

(* The simple ledger lists, in key order from "start", the first "count"  *)
(* accounts modified at or after "modified_since", and frontiers lists   *)
(* the first "count" accounts from "start" with their head blocks: a      *)
(* client paging either by the last account listed misses none.           *)
LedgerPagesMatchTable ==
    \A start \in Accounts, count \in Counts \cup {Unbounded} :
        /\ \A since \in 0..MaxBlocks :
             Ledger(start, count, since, FALSE)
               = Prefix(SelectSeq(LatestFrom(start), LAMBDA a : Info(a).time >= since), count)
        /\ FrontiersLoop(start, count, << >>)
             = [k \in 1..Len(Prefix(LatestFrom(start), count)) |->
                  <<LatestFrom(start)[k], Len(chain[LatestFrom(start)[k]])>>]

(* The sorting ledger lists the "count" richest accounts from "start"      *)
(* modified since "modified_since", richest first, ties broken by the     *)
(* larger account: no account it leaves out is richer than one it lists. *)
LedgerSortedRichest ==
    \A start \in Accounts, count \in Counts \cup {Unbounded}, since \in 0..MaxBlocks :
        LET e == {a \in start..NumAccounts : Opened(a) /\ Info(a).time >= since}
            r == Ledger(start, count, since, TRUE)
        IN /\ Len(r) = IF count < Cardinality(e) THEN count ELSE Cardinality(e)
           /\ \A i \in 1..Len(r) : r[i] \in e
           /\ \A i \in 1..(Len(r) - 1) : Richer(r[i], r[i + 1])
           /\ \A a \in e \ Range(r), i \in 1..Len(r) : Richer(r[i], a)

(* representatives lists each representative with the weight the ledger  *)
(* keeps for it incrementally, and that weight is the sum of the balances *)
(* delegators lists for it; sorting, it lists the "count" heaviest first *)
(* and leaves out none heavier than one it lists.                         *)
RepresentativesAgree ==
    LET table == RepresentativesLoop(1, Unbounded, << >>)
        Heavier(x, y) == weight[x] > weight[y] \/ (weight[x] = weight[y] /\ x > y)
    IN /\ {e[1] : e \in Range(table)} = DOMAIN weight
       /\ \A e \in Range(table) :
            LET d == DelegatorsLoop(1, e[1], << >>)
            IN e[2] = SumFunction([k \in DOMAIN d |-> d[k][2]])
       /\ \A count \in Counts \cup {Unbounded} :
            LET r == [k \in DOMAIN RepresentativesSorted(count) |-> RepresentativesSorted(count)[k][1]]
            IN /\ Len(r) = IF count < Cardinality(DOMAIN weight) THEN count
                                                                  ELSE Cardinality(DOMAIN weight)
               /\ \A i \in 1..(Len(r) - 1) : Heavier(r[i], r[i + 1])
               /\ \A x \in DOMAIN weight \ Range(r), i \in 1..Len(r) : Heavier(r[i], x)

(* wallet_history lists the entries of the wallet's accounts stamped at or *)
(* after modified_since, newest first; for each account they are exactly  *)
(* what account_history lists for it, in the same order, even when blocks *)
(* share a second.                                                        *)
WalletHistoryMerges ==
    \A since \in 0..MaxBlocks :
        LET h == WalletHistory(since) IN
        /\ \A i \in 1..(Len(h) - 1) : h[i].time >= h[i + 1].time
        /\ \A i \in 1..Len(h) : h[i].account \in Wallet
        /\ \A a \in Wallet :
             LET mine == SelectSeq(h, LAMBDA e : e.account = a) IN
             [k \in 1..Len(mine) |-> mine[k].hash]
               = SelectSeq(AccountHistory(chain[a], Len(chain[a]), Unbounded, 0, FALSE).history,
                           LAMBDA i : chain[a][i].time >= since)
=============================================================================
