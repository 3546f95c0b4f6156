\* One account: waits on different accounts never touch the same map entry,
\* so every race lies between waits, alarms and blocks of one account.
CONSTANTS
    Accounts = {a1}
    Waits <- MCWaits
    Amounts = {2}
    MaxBalance = 2
    MaxBlocks = 2
    None = None
SPECIFICATION Spec
INVARIANT TypeOK
INVARIANT RespondOnce
PROPERTY WaitAnswered PaymentRefined
\* Once both waits have answered and the block bound is used up, nothing is
\* left to do: the RPC server idles waiting for requests, which is not a deadlock.
CHECK_DEADLOCK FALSE
