\* Four accounts: genesis (1), landing (2), faucet (3) and the burning
\* account (4).  A supply of 3, genesis_amount = 2^Width - 1 as in the code
\* at two bits, sent to the faucet and the landing account, received, or
\* burned; two blocks let a send and its receive, or a burn, fall between
\* two reads of one request.  After a send, block_create's amounts exceed
\* what the sender holds.
\* Genesis and landing are wallet accounts for block_create.
CONSTANTS
    NumAccounts = 4
    Supply = 3
    Reps = {1, 2}
    Wallet = {1, 2}
    Adhoc = {2}
    MaxBlocks = 2
    Counts = {1}
    Offsets = {0}
    Thresholds = {0}
    Landing = 2
    Faucet = 3
    Burn = 4
    Listed <- MCListed
    Width = 2
    None = None
    Types = {"state", "open", "receive", "change", "send", "epoch"}
    WalletIds = {"open", "locked", "missing"}
INIT ReaderInit
NEXT ReaderNext
INVARIANT AvailableIsCirculation BalancesQuietConserve
INVARIANT IdleCheckedSendTransfersAmount IdleCreatedOnSignersHead
\* The ledger stops after MaxBlocks blocks and each handler answers one
\* request; the node then idles, which is not a deadlock of the handlers.
CHECK_DEADLOCK FALSE
