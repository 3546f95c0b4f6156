\* Two concurrent requests on one account: two sends sharing an id, a send
\* racing a receive or a change, the wallet lock toggled between handler and
\* action, and the wallet receiving the pending entry by itself.
CONSTANTS
    Requests <- MCRequests
    Amounts = {1, 2}
    Pendings <- MCPendings
    PendAmount <- MCPendAmount
    Ids = {i1}
    NoId = NoId
    None = None
    InitBalance = 2
    MaxBalance = 3
SPECIFICATION Spec
INVARIANT TypeOK
INVARIANT SendOncePerId
PROPERTY AsyncAnswered
\* Once both requests are answered the RPC idles; not a deadlock.
CHECK_DEADLOCK FALSE
