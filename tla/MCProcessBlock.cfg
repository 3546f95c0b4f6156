\* Elections roll the frontier back and forcing is enabled: the check and
\* process_one see the same chain only in some of the interleavings.
CONSTANTS
    o = o  s1 = s1  r1 = r1  y = y  c1 = c1  w = w
    None = None
    Hashes <- MCHashes
    Block <- MCBlock
    Requests <- MCRequests
    Subtypes <- MCSubtypes
    EnableControl = TRUE
    ElectionRollback = TRUE
SPECIFICATION Spec
INVARIANT QuietCheckHonoured
\* When both requests are answered the node may idle; that is not a deadlock.
CHECK_DEADLOCK FALSE
