----------------------------- MODULE MCMcpClient -----------------------------
(***************************************************************************)
(* Instances of McpClient for TLC: two threads that call tools of a server. *)
(***************************************************************************)
EXTENDS McpClient

CONSTANTS c1, c2

TwoCallers == {c1, c2}
==============================================================================
