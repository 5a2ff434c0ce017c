--------------------------- MODULE MCTaskHandler ---------------------------
(***************************************************************************)
(* An instance of TaskHandler for TLC: two requests with the same task id, *)
(* a cancel message for it, and an mcp.call message.  The operation of the *)
(* second request is deaf.                                                 *)
(***************************************************************************)
EXTENDS TaskHandler

CONSTANTS t1, t2

\* The second request repeats the task id of the first.
SameId == [m \in Requests \cup Cancels |-> t1]

=============================================================================
