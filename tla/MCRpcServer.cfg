\* Two connections, bodies of up to six brackets with max_json_depth 2, so
\* bodies of depth 1, 2 and 3 and of 1 to 6 brackets all occur.
CONSTANTS
    Conns = {c1, c2}
    Bodies <- MCBodies
    MaxJsonDepth = 2
    EnableControl = TRUE
SPECIFICATION Spec
INVARIANT TypeOK
INVARIANT DepthGuard
\* Once the connections are used up (or the server stopped) the node idles.
CHECK_DEADLOCK FALSE
