---------------------------- MODULE RpcConnection ----------------------------
(***************************************************************************)
(* What the connection to an MCP server promises the tools that share it    *)
(* (tools/mcp_client.rs), whatever becomes of the processes and pipes       *)
(* behind it: they take turns; every request of a turn, the handshakes with *)
(* new processes included, has a number nobody had before; and the turn     *)
(* ends with the answer to its last request, or with a failure.             *)
(*                                                                         *)
(* McpClient implements this specification when no process sends lines of   *)
(* its own (ToolProofs!ConnectionTakesTurns).                               *)
(***************************************************************************)
EXTENDS Integers

CONSTANTS
    Callers,   \* threads that call tools of the server
    none

VARIABLES
    turn,      \* whose turn it is
    stage,     \* "free", "taken", "asked" (a call is with the server)
    number,    \* the last request of each caller
    outcome,   \* the answer its last turn ended with, -1 for a failure
    next       \* REQUEST_ID

vars == <<turn, stage, number, outcome, next>>

Init ==
    /\ turn = none
    /\ stage = "free"
    /\ number = [c \in Callers |-> 0]
    /\ outcome = [c \in Callers |-> -1]
    /\ next = 1

\* McpToolWrapper::call gets the lock.
Take(c) ==
    /\ stage = "free"
    /\ turn' = c
    /\ stage' = "taken"
    /\ UNCHANGED <<number, outcome, next>>

\* send_request numbers a request.
Number(c) ==
    /\ number' = [number EXCEPT ![c] = next]
    /\ next' = next + 1

\* A handshake with a new process, or the call itself.
Request(c) ==
    /\ stage = "taken" /\ turn = c
    /\ stage' \in {"taken", "asked"}
    /\ Number(c)
    /\ UNCHANGED <<turn, outcome>>

\* The lock is dropped.
End(c, result) ==
    /\ turn = c
    /\ turn' = none
    /\ stage' = "free"
    /\ outcome' = [outcome EXCEPT ![c] = result]

Succeed(c) ==
    /\ stage = "asked"
    /\ End(c, number[c])
    /\ UNCHANGED <<number, next>>

\* No process could be started, or the one there was has died.
Fail(c) ==
    /\ stage # "free"
    /\ End(c, -1)
    /\ \/ UNCHANGED <<number, next>>
       \/ stage = "taken" /\ Number(c)

Next == \E c \in Callers : Take(c) \/ Request(c) \/ Succeed(c) \/ Fail(c)

Spec == Init /\ [][Next]_vars
==============================================================================
