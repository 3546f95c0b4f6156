\* One account: waits on different accounts never touch the same map entry,
\* so every race lies between waits, alarms and blocks of one account.
CONSTANTS
    Accounts = {a1}
    Waits <- MCWaits
    Amounts = {1, 2}
    MaxBalance = 2
    MaxBlocks = 2
    None = None
SPECIFICATION Spec
INVARIANT PendingWaitReachable
CHECK_DEADLOCK FALSE
