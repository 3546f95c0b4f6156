\* Three accounts and a supply of 2: sends of 1 and 2, two entries pending
\* on one account in either key order, accounts of equal balance (ties in the
\* sorting ledger), a change of representative after the open block.  Counts
\* and offsets end a page inside a chain, at its end and past it; thresholds
\* let every amount through or filter one out.
CONSTANTS
    NumAccounts = 3
    Supply = 2
    Reps = {1, 2}
    Wallet = {2, 3}
    Adhoc = {3}
    MaxBlocks = 4
    Counts = {1, 2}
    Offsets = {0, 1, 2}
    Thresholds = {0, 2}
SPECIFICATION Spec
INVARIANT ChainMatchesWalk HistoryPagesByPrevious PendingMatchesFilter
INVARIANT LedgerPagesMatchTable LedgerSortedRichest
INVARIANT RepresentativesAgree WalletHistoryMerges
\* The ledger stops once MaxBlocks blocks are applied and every election has
\* ended: the node then idles, which is not a deadlock of the RPC queries.
CHECK_DEADLOCK FALSE
