------------------------------ MODULE RpcServer ------------------------------
(***************************************************************************)
(* The RPC server's connection lifecycle: rpc::start/accept/stop,          *)
(* rpc_connection::read and write_result, and the front of               *)
(* rpc_handler::process_request (the JSON depth guard and the dispatch),  *)
(* with the "stop" action, which closes the acceptor and stops the node.  *)
(*                                                                         *)
(* A request body is abstracted to its brackets: "o" opens and "c" closes  *)
(* an object or array, "q" is a bracket character inside a string         *)
(* literal.  Every other character is left out.                            *)
(***************************************************************************)
EXTENDS Naturals, Sequences, SequencesExt

CONSTANTS
    Conns,          \* connection objects, in the order accept creates them
    Bodies,         \* request bodies (bracket sequences)
    MaxJsonDepth,   \* rpc_config::max_json_depth
    EnableControl   \* rpc_config::enable_control

ASSUME MaxJsonDepth \in Nat /\ EnableControl \in BOOLEAN

Methods == {"post", "options", "get"}
Actions == {"stop", "other", "unknown"}

VARIABLES
    acceptorOpen,  \* acceptor is open
    listening,     \* an async_accept is outstanding
    nodeRunning,   \* node.stop () has not been called
    conn,          \* per connection: "unused", "reading", "queued", "done", "dropped"
    method,        \* per connection: the HTTP verb read
    body,          \* per connection: the request body read
    action,        \* per connection: the "action" of the JSON request
    answers,       \* per connection: responses written
    parsed         \* history: the body reached read_json

vars == <<acceptorOpen, listening, nodeRunning, conn, method, body, action,
          answers, parsed>>

TypeOK ==
    /\ acceptorOpen \in BOOLEAN /\ listening \in BOOLEAN /\ nodeRunning \in BOOLEAN
    /\ conn \in [Conns -> {"unused", "reading", "queued", "done", "dropped"}]
    /\ method \in [Conns -> Methods] /\ body \in [Conns -> Bodies]
    /\ action \in [Conns -> Actions] /\ answers \in [Conns -> 0..1]
    /\ parsed \in [Conns -> BOOLEAN]

(* rpc::start (true): bind, listen, register the block observer, accept.   *)
Init ==
    /\ acceptorOpen = TRUE /\ listening = TRUE /\ nodeRunning = TRUE
    /\ conn = [c \in Conns |-> "unused"]
    /\ method = [c \in Conns |-> "post"]
    /\ body = [c \in Conns |-> CHOOSE b \in Bodies : TRUE]
    /\ action = [c \in Conns |-> "other"]
    /\ answers = [c \in Conns |-> 0]
    /\ parsed = [c \in Conns |-> FALSE]

-----------------------------------------------------------------------------
(* The depth guard of process_request: count every '[' or '{' of the body  *)
(* in order, and stop with "exceeded" at the first one met when the count  *)
(* has already reached max_json_depth.                                     *)
RECURSIVE CountFrom(_, _, _)
CountFrom(b, i, possible) ==
    CASE i > Len(b)                      -> FALSE
      [] b[i] \in {"o", "q"} /\ possible >= MaxJsonDepth -> TRUE
      [] b[i] \in {"o", "q"}             -> CountFrom(b, i + 1, possible + 1)
      [] OTHER                           -> CountFrom(b, i + 1, possible)

MaxDepthExceededOffByOne(b) == CountFrom(b, 2, 0)

MaxDepthExceeded(b) == CountFrom(b, 1, 0)

(* Reference: the nesting depth of a body, the most brackets open at once. *)
Depth(b) ==
    LET open(k) == Len(SelectSeq(SubSeq(b, 1, k), LAMBDA x : x = "o"))
                   - Len(SelectSeq(SubSeq(b, 1, k), LAMBDA x : x = "c"))
    IN IF b = << >> THEN 0
       ELSE CHOOSE d \in {open(k) : k \in 1..Len(b)} :
              \A k \in 1..Len(b) : open(k) <= d

-----------------------------------------------------------------------------
(* The accept handler: a connection is taken (or the accept fails); unless *)
(* the accept was aborted or the acceptor closed, the next accept is      *)
(* started first; an accepted connection starts reading.                   *)
Rearm(ok) == acceptorOpen

accept(c, ok) ==
    /\ listening /\ acceptorOpen /\ conn[c] = "unused"
    /\ listening' = Rearm(ok)
    /\ conn' = [conn EXCEPT ![c] = IF ok THEN "reading" ELSE "dropped"]
    /\ UNCHANGED <<acceptorOpen, nodeRunning, method, body, action, answers, parsed>>

(* After acceptor.close the outstanding accept completes with              *)
(* operation_aborted and is not restarted.                                 *)
accept_aborted ==
    /\ listening /\ ~acceptorOpen
    /\ listening' = FALSE
    /\ UNCHANGED <<acceptorOpen, nodeRunning, conn, method, body, action, answers, parsed>>

(* async_read completes: the request goes to node->background, or a read   *)
(* error is logged and the connection is released without an answer.      *)
ReadableAgain(c) == conn[c] \in {"reading", "done"}

(* A connection reads one request: the response carries                  *)
(* "Connection: close" and the connection is never read again.             *)
Readable(c) == conn[c] = "reading"

read(c) ==
    /\ Readable(c)
    /\ \/ /\ \E m \in Methods, b \in Bodies, a \in Actions :
                /\ method' = [method EXCEPT ![c] = m]
                /\ body' = [body EXCEPT ![c] = b]
                /\ action' = [action EXCEPT ![c] = a]
          /\ conn' = [conn EXCEPT ![c] = "queued"]
       \/ /\ conn' = [conn EXCEPT ![c] = "dropped"]
          /\ UNCHANGED <<method, body, action>>
    /\ UNCHANGED <<acceptorOpen, listening, nodeRunning, answers, parsed>>

(* write_result: each branch of the background task answers once         *)
(* (process_request by its handler or error_response, OPTIONS by the       *)
(* headers, any other verb by error_response); the responded flag keeps a *)
(* second one out (and asserts).                                           *)
Respond(c) == answers' = [answers EXCEPT ![c] = @ + 1]

(* The background task: POST goes to process_request; OPTIONS writes the  *)
(* headers; any other verb is refused.  process_request refuses a body    *)
(* over the depth guard, otherwise parses it and dispatches on "action";  *)
(* "stop" answers, then closes the acceptor and stops the node when       *)
(* control is enabled.                                                     *)
handle(c) ==
    /\ conn[c] = "queued"
    /\ conn' = [conn EXCEPT ![c] = "done"]
    /\ Respond(c)
    /\ LET dispatch == method[c] = "post" /\ ~MaxDepthExceeded(body[c])
           stopping == dispatch /\ action[c] = "stop" /\ EnableControl
       IN /\ parsed' = [parsed EXCEPT ![c] = dispatch]
          /\ acceptorOpen' = (acceptorOpen /\ ~stopping)
          /\ nodeRunning' = (nodeRunning /\ ~stopping)
    /\ UNCHANGED <<listening, method, body, action>>

-----------------------------------------------------------------------------
Next ==
    \/ \E c \in Conns, ok \in BOOLEAN : accept(c, ok)
    \/ accept_aborted
    \/ \E c \in Conns : read(c) \/ handle(c)

(* The io_context threads complete outstanding operations and the         *)
(* background worker runs every queued task.                               *)
Fairness ==
    /\ WF_vars(accept_aborted)
    /\ \A c \in Conns : WF_vars(handle(c))

Spec == Init /\ [][Next]_vars /\ Fairness

-----------------------------------------------------------------------------
(* No body nested deeper than max_json_depth reaches read_json: the depth *)
(* guard of process_request over-counts, never under-counts.               *)
DepthGuard == \A c \in Conns : parsed[c] => Depth(body[c]) <= MaxJsonDepth

(* A request is refused as too deep exactly when its nesting depth        *)
(* exceeds max_json_depth, as the option's name says.                      *)
DepthLimitExact ==
    \A c \in Conns :
        (conn[c] = "done" /\ method[c] = "post")
            => (MaxDepthExceeded(body[c]) <=> Depth(body[c]) > MaxJsonDepth)
=============================================================================
