----------------------------- MODULE MCInference -----------------------------
(***************************************************************************)
(* Instances of Inference for TLC: the REPL, whose token Ctrl-C sets, and   *)
(* the background reflection, whose token nothing sets.                     *)
(***************************************************************************)
EXTENDS Inference

CONSTANTS repl, dmn, p1, p2

TwoClients == {repl, dmn}
ReplOnly == {repl}
TwoProcesses == {p1, p2}

\* A supervised MLX server, with a llama-server to fall back on that always answers.
TwoEntries == <<"MlxLm", "LlamaServer">>
LastEntry == {2}
==============================================================================
