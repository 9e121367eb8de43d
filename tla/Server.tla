------------------------------- MODULE Server -------------------------------
(***************************************************************************)
(* The process around the connection tasks (main of src/src/main.rs): the  *)
(* accept loop with its connection limit, the way it waits for a shutdown  *)
(* signal, the shutdown broadcast, and the accounts of every task: a       *)
(* permit of the semaphore and a place in the connected_clients gauge.     *)
(* What the shutdown does to the log is module Aof.  Metrics that nothing  *)
(* but the dashboard reads and that only grow (total_connections,          *)
(* peak_clients, connection_errors) are left out.                          *)
(***************************************************************************)
EXTENDS Connection

CONSTANTS
    MAX_CONNECTIONS,    \* permits of conn_limiter, 10000 by default
    MaxSignals          \* bound: shutdown signals sent

NoClient == "none"

ASSUME ServerAssumption ==
    /\ MAX_CONNECTIONS \in Nat
    /\ IsFiniteSet(Clients)
    /\ NoClient \notin Clients

VARIABLES
    main,               \* where the main task is
    permits,            \* available permits of conn_limiter
    connected_clients,  \* Metrics::connected_clients
    signals             \* shutdown signals sent so far

vars == <<conns, main, permits, connected_clients, signals>>

Init ==
    /\ conns = [c \in Clients |-> Socket]
    /\ main = [pc        |-> "select",
               socket    |-> NoClient,  \* accepted, its task not yet spawned
               installed |-> FALSE,     \* the process has a signal handler
               listening |-> FALSE,     \* wait_for_shutdown_signal has been polled
               heard     |-> FALSE]     \* and a signal has woken it
    /\ permits = MAX_CONNECTIONS
    /\ connected_clients = 0
    /\ signals = 0

Accounts == <<permits, connected_clients>>

-----------------------------------------------------------------------------
(* Outside the process *)

Knock(c, stream) ==
    /\ conns[c].pc = "out"
    /\ main.pc # "exited"
    /\ Become(c, [Socket EXCEPT !.pc = "knocking", !.stream = stream,
                                !.input = SentBytes(stream)])
    /\ UNCHANGED <<main, Accounts, signals>>

\* Only a future that is polled and not yet dropped hears a signal.  Before the handler is
\* installed a signal ends the process at once.
Signal ==
    /\ signals < MaxSignals
    /\ main.pc \in {"select", "spawn"}
    /\ signals' = signals + 1
    /\ main' = IF main.installed THEN [main EXCEPT !.heard = main.listening \/ main.heard]
               ELSE [main EXCEPT !.pc = "exited"]
    /\ UNCHANGED <<conns, Accounts>>

-----------------------------------------------------------------------------
(* The accept loop *)

\* The first poll of select!, if it reaches wait_for_shutdown_signal.
Listen ==
    /\ main.pc = "select"
    /\ ~main.listening
    /\ main' = [main EXCEPT !.installed = TRUE, !.listening = TRUE]
    /\ UNCHANGED <<conns, Accounts, signals>>

\* The accept branch is taken: the other future is dropped, with what it has heard.
Select(next, socket) ==
    /\ main.pc = "select"
    /\ main' = [main EXCEPT !.pc = next, !.socket = socket, !.listening = FALSE, !.heard = FALSE]

Accept(c) ==
    /\ conns[c].pc = "knocking"
    /\ permits > 0
    /\ Select("spawn", c)
    /\ permits' = permits - 1
    /\ UNCHANGED <<conns, connected_clients, signals>>

\* try_acquire_owned fails: the socket is dropped.
Reject(c) ==
    /\ conns[c].pc = "knocking"
    /\ permits = 0
    /\ Select("select", NoClient)
    /\ Become(c, [Socket EXCEPT !.pc = "rejected"])
    /\ UNCHANGED <<Accounts, signals>>

AcceptFails ==
    /\ Select("select", NoClient)
    /\ UNCHANGED <<conns, Accounts, signals>>

\* client_connected, subscribe to the shutdown and spawn.
Spawn ==
    LET c == main.socket
    IN  /\ main.pc = "spawn"
        /\ Become(c, [conns[c] EXCEPT !.pc = "read"])
        /\ main' = [main EXCEPT !.pc = "select", !.socket = NoClient]
        /\ connected_clients' = connected_clients + 1
        /\ UNCHANGED <<permits, signals>>

\* The signal branch is taken, and the shutdown broadcast.
Shutdown ==
    /\ main.pc = "select"
    /\ main.heard
    /\ main' = [main EXCEPT !.pc = "stopping", !.listening = FALSE, !.heard = FALSE]
    /\ UNCHANGED <<conns, Accounts, signals>>

\* main returns, and the runtime drops every task where it stands.
Exit ==
    /\ main.pc = "stopping"
    /\ main' = [main EXCEPT !.pc = "exited"]
    /\ UNCHANGED <<conns, Accounts, signals>>

-----------------------------------------------------------------------------
(* A connection task *)

\* The shutdown branch of the task's select!, at an await of process_connection.
Cancel(c) ==
    /\ main.pc = "stopping"
    /\ Running(c)
    /\ Become(c, Ended(conns[c], "cancelled"))
    /\ UNCHANGED <<main, Accounts, signals>>

Serve(c) ==
    /\ main.pc # "exited"
    /\ ConnNext(c)
    /\ UNCHANGED <<main, Accounts, signals>>

\* Mutant of Uncount: the task returns without client_disconnected.
UncountForgotten(c) ==
    /\ main.pc # "exited"
    /\ conns[c].pc = "uncount"
    /\ Become(c, [conns[c] EXCEPT !.pc = "release"])
    /\ UNCHANGED <<main, Accounts, signals>>

Uncount(c) ==
    /\ main.pc # "exited"
    /\ conns[c].pc = "uncount"
    /\ connected_clients' = connected_clients - 1
    /\ Become(c, [conns[c] EXCEPT !.pc = "release"])
    /\ UNCHANGED <<main, permits, signals>>

\* drop(permit), or the unwinding of a task that panicked.
Release(c) ==
    /\ main.pc # "exited"
    /\ conns[c].pc = "release"
    /\ permits' = permits + 1
    /\ Become(c, [conns[c] EXCEPT !.pc = "gone"])
    /\ UNCHANGED <<main, connected_clients, signals>>

-----------------------------------------------------------------------------
MainNext ==
    \/ Listen
    \/ \E c \in Clients : Accept(c) \/ Reject(c)
    \/ Spawn
    \/ Shutdown
    \/ Exit

TaskNext(c) ==
    \/ Cancel(c)
    \/ Serve(c)
    \/ Uncount(c)
    \/ Release(c)

Next ==
    \/ \E c \in Clients : \E stream \in Streams[c] : Knock(c, stream)
    \/ Signal
    \/ MainNext
    \/ AcceptFails
    \/ \E c \in Clients : TaskNext(c)

Spec == Init /\ [][Next]_vars

\* tokio keeps polling a task that can make progress.
FairSpec ==
    /\ Spec
    /\ WF_vars(MainNext)
    /\ \A c \in Clients : WF_vars(TaskNext(c))

-----------------------------------------------------------------------------
(* Properties *)

Holders ==
    {c \in Clients : \/ conns[c].pc \in {"read", "command", "uncount", "release"}
                     \/ main.socket = c}

Counted == {c \in Clients : conns[c].pc \in {"read", "command", "uncount"}}

\* Every way out of a connection task (end of stream, a stream cut or refused, a socket
\* error, a panic, the shutdown) returns its permit, once, so the limit neither leaks away
\* nor grows; connected_clients shows the tasks that are served and, since a panic skips
\* client_disconnected, one more for ever for each task that panicked.
AccountsBalance ==
    /\ permits = MAX_CONNECTIONS - Cardinality(Holders)
    /\ connected_clients =
         Cardinality(Counted) + Cardinality({c \in Clients : conns[c].end = "panic"})

\* A shutdown signal stops the server ("**Graceful Shutdown:** Catches `SIGINT` (Ctrl+C)
\* and `SIGTERM`", src/README.md:50).
SignalStops == signals > 0 ~> main.pc \in {"stopping", "exited"}
=============================================================================
