----------------------------- MODULE MCAgentLoop -----------------------------
(***************************************************************************)
(* A small agent loop for TLC: enough iterations for four failing steps in  *)
(* a row after a deferred answer, one use of the advisor and of the critic. *)
(***************************************************************************)
EXTENDS AgentLoop

CONSTANTS c1, c2   \* two contents of a session's last message
===============================================================================
