\* Elections may roll back the frontier; forcing is off (no enable_control).
CONSTANTS
    o = o  s1 = s1  r1 = r1  y = y  c1 = c1  w = w
    None = None
    Hashes <- MCHashes
    Block <- MCBlock
    Requests <- MCRequests
    Subtypes <- MCSubtypes
    EnableControl = FALSE
    ElectionRollback = TRUE
SPECIFICATION Spec
INVARIANT CheckedSendHonoured
\* When both requests are answered and the ledger has no further block to
\* apply, the node idles; that is not a deadlock.
CHECK_DEADLOCK FALSE
