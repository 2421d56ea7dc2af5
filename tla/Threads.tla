------------------------------- MODULE Threads -------------------------------
(***************************************************************************)
(* The threads that share one inference backend, and the CancellationToken  *)
(* (cancel.rs) each passes to it: Ctrl-C sets the token of the REPL, once   *)
(* and for good (ctrlc_handler, main.rs); the background reflection makes a *)
(* token of its own, which nothing sets (dmn/generator.rs).                 *)
(***************************************************************************)
EXTENDS Integers, FiniteSets

CONSTANTS
    Clients,       \* the threads
    Cancellable    \* those that hold the token of the process

ASSUME ThreadConstants == IsFiniteSet(Clients) /\ Cancellable \subseteq Clients

VARIABLE cancelled    \* the token of each thread

TokensInit == cancelled = [c \in Clients |-> FALSE]

Cancel ==
    /\ \E c \in Cancellable : ~cancelled[c]
    /\ cancelled' = [c \in Clients |-> c \in Cancellable]
==============================================================================
