---------------------------- MODULE MCMcpManager ----------------------------
(***************************************************************************)
(* An instance of McpManager for TLC: call b is for a server of its own,   *)
(* all other calls are for one and the same server.                        *)
(***************************************************************************)
EXTENDS McpManager

CONSTANTS b, n1, n2

TwoServers == [c \in Calls |-> IF c = b THEN n2 ELSE n1]

=============================================================================
