------------------------------ MODULE McpClient ------------------------------
(***************************************************************************)
(* The connection to an MCP server that runs as a child process             *)
(* (tools/mcp_client.rs).  The tools of one server share the connection     *)
(* under a lock; a call that finds the server dead starts a new one.  A     *)
(* request is one line, its answer is the next line that comes out of the   *)
(* pipe.  The server takes the requests in turn and answers each with one   *)
(* line, as mcp_server.rs does; it may die at any moment, or stop answering.*)
(***************************************************************************)
EXTENDS Integers, Sequences, FiniteSets

CONSTANTS
    Callers,        \* threads that call tools of this server
    MaxRequests,    \* bound: requests sent in all
    MaxServers,     \* bound: server processes started in all
    Chatty,         \* the processes that also send a line that answers nothing, one each
    Silent,         \* the processes that may stop answering without dying
    none

ASSUME McpAssumption ==
    /\ MaxRequests \in Nat /\ MaxServers \in Nat \ {0}
    /\ Chatty \subseteq 1..MaxServers /\ Silent \subseteq 1..MaxServers
    /\ none \notin Callers

Servers == 1..MaxServers
NoteLine == 0       \* a line that is no JsonRpcResponse; an answer is the number of its request

VARIABLES
    holder,     \* who has locked the connection
    at,         \* where each caller is
    server,     \* the process of the connection
    fresh,      \* the process of the connection that is being set up, or 0
    started,    \* bound: processes started so far
    live,       \* the processes that run
    requests,   \* the pipe to each process: numbers of requests, 0 for a notification
    answers,    \* the pipe from each process
    nextId,     \* REQUEST_ID
    asked,      \* the number of the request a caller waits for
    got,        \* history: the number of the answer its last call took, -1 when it failed
    by,         \* history: the process that answered
    noted       \* the chatty processes that have sent their line

mcpVars == <<holder, at, server, fresh, started, live, requests, answers, nextId, asked, got, by, noted>>
pipes == <<requests, answers>>

\* setup_mcp_server has connected to the first process when the program starts.
McpInit ==
    /\ holder = none
    /\ at = [c \in Callers |-> "idle"]
    /\ server = 1
    /\ fresh = 0
    /\ started = 1
    /\ live = {1}
    /\ requests = [s \in Servers |-> <<>>]
    /\ answers = [s \in Servers |-> <<>>]
    /\ nextId = 1
    /\ asked = [c \in Callers |-> 0]
    /\ got = [c \in Callers |-> -1]
    /\ by = [c \in Callers |-> 0]
    /\ noted = {}

-----------------------------------------------------------------------------
(***************************************************************************)
(* McpToolWrapper::call.                                                    *)
(***************************************************************************)
Call(c) ==
    /\ at[c] = "idle"
    /\ nextId + 1 <= MaxRequests
    /\ at' = [at EXCEPT ![c] = "lock"]
    /\ UNCHANGED <<holder, server, fresh, started, live, pipes, nextId, asked, got, by, noted>>

\* Mutant: the tools of a server do not share a lock.
Lock_NotShared(c) ==
    /\ at[c] = "lock"
    /\ holder' = c
    /\ at' = [at EXCEPT ![c] = "check"]
    /\ UNCHANGED <<server, fresh, started, live, pipes, nextId, asked, got, by, noted>>

Lock(c) ==
    /\ at[c] = "lock"
    /\ holder = none
    /\ holder' = c
    /\ at' = [at EXCEPT ![c] = "check"]
    /\ UNCHANGED <<server, fresh, started, live, pipes, nextId, asked, got, by, noted>>

\* is_alive: a process that has exited is replaced, whoever noticed first.
CheckAlive(c) ==
    /\ at[c] = "check"
    /\ at' = [at EXCEPT ![c] = IF server \in live THEN "call" ELSE "spawn"]
    /\ UNCHANGED <<holder, server, fresh, started, live, pipes, nextId, asked, got, by, noted>>

\* Mutant: a connection that is dropped leaves its process.
Return_NoKill(c, outcome) ==
    /\ holder' = none
    /\ at' = [at EXCEPT ![c] = "idle"]
    /\ got' = [got EXCEPT ![c] = outcome]
    /\ fresh' = 0
    /\ live' = live

\* A call returns its outcome and drops the lock; a connection that was not set up is dropped,
\* and its process killed with it.
Return(c, outcome) ==
    /\ holder' = none
    /\ at' = [at EXCEPT ![c] = "idle"]
    /\ got' = [got EXCEPT ![c] = outcome]
    /\ fresh' = 0
    /\ live' = live \ {fresh}

Spawn(c) ==
    /\ at[c] = "spawn"
    /\ \/ /\ started < MaxServers
          /\ started' = started + 1
          /\ fresh' = started'
          /\ live' = live \union {started'}
          /\ at' = [at EXCEPT ![c] = "init"]
          /\ UNCHANGED <<holder, got>>
       \/ /\ Return(c, -1)
          /\ UNCHANGED started
    /\ UNCHANGED <<server, pipes, nextId, asked, by, noted>>

\* send_request: one line into the pipe, which fails when nobody holds its other end.
Send(c, s, then) ==
    /\ nextId' = nextId + 1
    /\ asked' = [asked EXCEPT ![c] = nextId]
    /\ \/ /\ s \in live
          /\ requests' = [requests EXCEPT ![s] = Append(@, nextId)]
          /\ at' = [at EXCEPT ![c] = then]
          /\ UNCHANGED <<holder, got, fresh, live>>
       \/ /\ s \notin live
          /\ Return(c, -1)
          /\ UNCHANGED requests

SendInitialize(c) ==
    /\ at[c] = "init"
    /\ Send(c, fresh, "initialized")
    /\ UNCHANGED <<server, started, answers, by, noted>>

SendCall(c) ==
    /\ at[c] = "call"
    /\ Send(c, server, "answer")
    /\ UNCHANGED <<server, started, answers, by, noted>>

\* Mutant: the end of the pipe is taken for a line that has not come yet.
HasLine_NoEof(s) == answers[s] # <<>>

\* The next line is taken for the answer, its number is not looked at.  A line that is none
\* fails the call; so does the end of the pipe.
Line(s) == IF answers[s] # <<>> THEN Head(answers[s]) ELSE NoteLine
HasLine(s) == answers[s] # <<>> \/ s \notin live
TakeLine(s) ==
    answers' = IF answers[s] # <<>> THEN [answers EXCEPT ![s] = Tail(@)] ELSE answers

\* The rest of spawn: the answer to `initialize`, then the notification, which is not answered.
\* The new connection replaces the old one, whose process is dead.
Initialized(c) ==
    /\ at[c] = "initialized"
    /\ HasLine(fresh)
    /\ TakeLine(fresh)
    /\ \/ /\ Line(fresh) # NoteLine /\ fresh \in live
          /\ requests' = [requests EXCEPT ![fresh] = Append(@, NoteLine)]
          /\ server' = fresh
          /\ fresh' = 0
          /\ live' = live \ {server}
          /\ at' = [at EXCEPT ![c] = "call"]
          /\ UNCHANGED <<holder, got>>
       \/ /\ Line(fresh) = NoteLine \/ fresh \notin live
          /\ Return(c, -1)
          /\ UNCHANGED <<requests, server>>
    /\ UNCHANGED <<started, nextId, asked, by, noted>>

TakeAnswer(c) ==
    /\ at[c] = "answer"
    /\ HasLine(server)
    /\ TakeLine(server)
    /\ Return(c, IF Line(server) = NoteLine THEN -1 ELSE Line(server))
    /\ by' = [by EXCEPT ![c] = server]
    /\ UNCHANGED <<server, started, requests, nextId, asked, noted>>

CallerStep(c) ==
    Lock(c) \/ CheckAlive(c) \/ Spawn(c) \/ SendInitialize(c) \/ Initialized(c) \/ SendCall(c)
        \/ TakeAnswer(c)

-----------------------------------------------------------------------------
(***************************************************************************)
(* The server: run_mcp_server_with_guard, when it is the program itself.    *)
(***************************************************************************)

\* handle_mcp_request: a line with the number of the request; none for `initialized`.
Serve(s) ==
    /\ s \in live
    /\ requests[s] # <<>>
    /\ requests' = [requests EXCEPT ![s] = Tail(@)]
    /\ answers' = IF Head(requests[s]) = NoteLine
                  THEN answers
                  ELSE [answers EXCEPT ![s] = Append(@, Head(requests[s]))]
    /\ UNCHANGED <<holder, at, server, fresh, started, live, nextId, asked, got, by, noted>>

\* Other servers also send notifications of their own (progress, a log line).
Notify(s) ==
    /\ s \in live
    /\ s \in Chatty \ noted
    /\ noted' = noted \union {s}
    /\ answers' = [answers EXCEPT ![s] = Append(@, NoteLine)]
    /\ UNCHANGED <<holder, at, server, fresh, started, live, requests, nextId, asked, got, by>>

Die(s) ==
    /\ s \in live
    /\ live' = live \ {s}
    /\ UNCHANGED <<holder, at, server, fresh, started, pipes, nextId, asked, got, by, noted>>

McpNext ==
    \/ \E c \in Callers : Call(c) \/ CallerStep(c)
    \/ \E s \in Servers : Serve(s) \/ Notify(s) \/ Die(s)

(***************************************************************************)
(* Callers run on, and a server that is not silent answers what it was      *)
(* asked unless it dies.  A mutex promises no turn to anybody, and the      *)
(* client has no deadline of its own on a pipe.                             *)
(***************************************************************************)
McpFairness ==
    /\ \A c \in Callers : WF_mcpVars(CallerStep(c))
    /\ \A s \in Servers \ Silent : WF_mcpVars(Serve(s))

McpSpec == McpInit /\ [][McpNext]_mcpVars /\ McpFairness

-----------------------------------------------------------------------------
(* The state is of the right shape. *)
McpTypeOK ==
    /\ holder \in Callers \union {none}
    /\ at \in [Callers -> {"idle", "lock", "check", "spawn", "init", "initialized", "call", "answer"}]
    /\ server \in Servers /\ fresh \in Servers \union {0} /\ started \in Servers
    /\ live \subseteq Servers
    /\ requests \in [Servers -> Seq(Nat)] /\ answers \in [Servers -> Seq(Nat)]
    /\ nextId \in Nat \ {0}
    /\ asked \in [Callers -> Nat] /\ got \in [Callers -> Nat \union {-1}]
    /\ by \in [Callers -> 0..MaxServers]
    /\ noted \subseteq Chatty

-----------------------------------------------------------------------------
(* Safety. *)

\* A call that succeeds returns the answer to its own request, though answers are taken in the
\* order they come: whoever else called before, and whichever process died in between.  A line
\* that answers nothing spoils its process only: the calls to the next one are right again.
AnswersBelong ==
    \A c \in Callers :
        at[c] = "idle" /\ got[c] # -1 /\ by[c] \notin noted => got[c] = asked[c]

\* However calls, failed restarts and deaths of the server interleave, no server process runs
\* that nobody holds (Drop for McpConnection).
NoOrphanServer ==
    /\ live \subseteq {server, fresh}
    /\ fresh \in live => server \notin live

(* Liveness. *)

\* A caller waits for the line of a process that lives and has stopped answering.
Stuck(c) ==
    \E s \in Silent \intersect live :
        /\ answers[s] = <<>>
        /\ <<at[c], s>> \in {<<"answer", server>>, <<"initialized", fresh>>}

\* Whoever has locked the connection gives it back, also when its process dies in the middle of
\* the call, of a restart or of its handshake.  The one exception has no end: a process that lives
\* and does not answer, for which the caller waits with the lock (read_line has no deadline).
LockComesBack == \A c \in Callers : []<>(holder # c) \/ <>[]Stuck(c)

-----------------------------------------------------------------------------
(* What the code says of itself. *)

\* mcp_client.rs says that send_request sends a request and receives its response.
ReceivesTheResponse == \A c \in Callers : at[c] = "idle" /\ got[c] # -1 => got[c] = asked[c]
-----------------------------------------------------------------------------
(* What the connection promises those who share it. *)
Stage == IF holder = none THEN "free" ELSE IF at[holder] = "answer" THEN "asked" ELSE "taken"
Rpc == INSTANCE RpcConnection WITH
          turn <- holder, stage <- Stage, number <- asked, outcome <- got, next <- nextId

\* Calls take turns on the connection, and each turn ends with the answer to its own request or
\* fails, as long as no process sends a line of its own (McpToolWrapper::call, send_request).
TakesTurns == Rpc!Spec
==============================================================================
