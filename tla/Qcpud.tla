------------------------------- MODULE Qcpud --------------------------------
(***************************************************************************)
(* The device daemon, src/device/qcpud.c: how it takes over the socket     *)
(* path, its accept loop, stop signals and crashes, with clients such as   *)
(* src/tools/qnova_device_client.c at the other end.                       *)
(*                                                                         *)
(* A daemon is one process, started at most once; a restart is the next    *)
(* one.  A step is a system call with the code up to the next.  A signal   *)
(* handler runs between two steps.  A request is answered or not: what     *)
(* process_request() computes is numeric and is left out.                  *)
(***************************************************************************)
EXTENDS Naturals, Sequences

CONSTANTS
    Daemons,     \* processes that are started on the same socket path
    Clients,     \* connections at a time
    Backlog,     \* connections that wait for accept(); listen() asks for 4
    Exclusive,   \* daemons run one after the other, as the lifecycle lock has it
    Nobody       \* no daemon, no client

ASSUME DaemonAssumption ==
    /\ Backlog \in Nat \ {0}
    /\ Exclusive \in BOOLEAN
    /\ Nobody \notin Daemons \cup Clients

VARIABLES
    at,                     \* Daemons -> the step main() is at
    once,                   \* Daemons -> --once was given
    stop_requested,         \* Daemons -> the flag the handler sets
    server_fd_for_signal,   \* Daemons -> the handler knows the descriptor
    listener,               \* Daemons -> state of the server socket
    queue,                  \* Daemons -> connections that wait for accept()
    client_fd,              \* Daemons -> the connection being served
    path,                   \* the daemon whose socket has the path, dead or alive
    connection,             \* Clients -> state of its connection
    sent                    \* Clients -> a whole request was sent

signalVars == <<stop_requested, server_fd_for_signal>>
socketVars == <<listener, queue, client_fd, connection>>
vars == <<at, once, signalVars, socketVars, path, sent>>

Init ==
    /\ at = [d \in Daemons |-> "new"]
    /\ once \in [Daemons -> BOOLEAN]
    /\ stop_requested = [d \in Daemons |-> FALSE]
    /\ server_fd_for_signal = [d \in Daemons |-> FALSE]
    /\ listener = [d \in Daemons |-> "none"]
    /\ queue = [d \in Daemons |-> <<>>]
    /\ client_fd = [d \in Daemons |-> Nobody]
    /\ path = Nobody
    /\ connection = [c \in Clients |-> "idle"]
    /\ sent = [c \in Clients |-> FALSE]

Ended(d) == at[d] \in {"success", "failure", "killed"}
Alive(d) == at[d] # "new" /\ ~Ended(d)

Goto(d, label) == at' = [at EXCEPT ![d] = label]

-----------------------------------------------------------------------------
(* Taking over the socket path.                                            *)

Start(d) ==
    /\ at[d] = "new"
    /\ Exclusive => \A e \in Daemons : ~Alive(e)
    /\ Goto(d, "handlers")
    /\ UNCHANGED <<once, signalVars, socketVars, path, sent>>

install_signal_handlers(d) ==
    /\ at[d] = "handlers"
    /\ Goto(d, "lstat")
    /\ UNCHANGED <<once, signalVars, socketVars, path, sent>>

\* Mutant: a socket that is already there is taken for a running daemon's.
LstatKeepsSocket(d) ==
    /\ at[d] = "lstat"
    /\ Goto(d, "bind")
    /\ UNCHANGED <<once, signalVars, socketVars, path, sent>>

\* prepare_socket_path(): only this owner's sockets are ever at the path.
Lstat(d) ==
    /\ at[d] = "lstat"
    /\ Goto(d, IF path = Nobody THEN "bind" ELSE "unlink_stale")
    /\ UNCHANGED <<once, signalVars, socketVars, path, sent>>

UnlinkStale(d) ==
    /\ at[d] = "unlink_stale"
    /\ Goto(d, IF path = Nobody THEN "failure" ELSE "bind")
    /\ path' = Nobody
    /\ UNCHANGED <<once, signalVars, socketVars, sent>>

Bind(d) ==
    /\ at[d] = "bind"
    /\ IF path = Nobody
       THEN /\ path' = d
            /\ listener' = [listener EXCEPT ![d] = "bound"]
            /\ Goto(d, "chmod")
       ELSE Goto(d, "failure") /\ UNCHANGED <<path, listener>>
    /\ UNCHANGED <<once, signalVars, queue, client_fd, connection, sent>>

\* chmod() goes by the path, which another daemon may have removed meanwhile.
Chmod(d) ==
    /\ at[d] = "chmod"
    /\ path # Nobody
    /\ Goto(d, "listen")
    /\ UNCHANGED <<once, signalVars, socketVars, path, sent>>

Listen(d) ==
    /\ at[d] = "listen"
    /\ listener' = [listener EXCEPT ![d] = "listening"]
    /\ Goto(d, "ready")
    /\ UNCHANGED <<once, signalVars, queue, client_fd, connection, path, sent>>

\* chmod() or listen() fails.
SetupFails(d) ==
    /\ at[d] \in {"chmod", "listen"}
    /\ listener' = [listener EXCEPT ![d] = "closed"]
    /\ path' = Nobody
    /\ Goto(d, "failure")
    /\ UNCHANGED <<once, signalVars, queue, client_fd, connection, sent>>

\* sigaction(), lstat(), unlink(), socket() or bind() fails: nothing to undo.
StartFails(d) ==
    /\ at[d] \in {"handlers", "lstat", "unlink_stale", "bind"}
    /\ Goto(d, "failure")
    /\ UNCHANGED <<once, signalVars, socketVars, path, sent>>

\* From here on a stop signal closes the server socket; READY is announced.
Ready(d) ==
    /\ at[d] = "ready"
    /\ server_fd_for_signal' = [server_fd_for_signal EXCEPT ![d] = TRUE]
    /\ Goto(d, "accept")
    /\ UNCHANGED <<once, stop_requested, socketVars, path, sent>>

-----------------------------------------------------------------------------
(* The accept loop.                                                        *)

Waiting(d) == {queue[d][i] : i \in DOMAIN queue[d]}

\* Closing the server socket resets the connections nobody has accepted.
CloseListener(d) ==
    /\ listener' = [listener EXCEPT ![d] = "closed"]
    /\ queue' = [queue EXCEPT ![d] = <<>>]
    /\ connection' = [c \in Clients |->
         IF c \in Waiting(d) /\ connection[c] = "open" THEN "dropped" ELSE connection[c]]

accept(d) ==
    /\ at[d] = "accept"
    /\ listener[d] = "listening"
    /\ queue[d] # <<>>
    /\ client_fd' = [client_fd EXCEPT ![d] = Head(queue[d])]
    /\ queue' = [queue EXCEPT ![d] = Tail(@)]
    /\ Goto(d, "read")
    /\ UNCHANGED <<once, signalVars, listener, connection, path, sent>>

\* Mutant: a failed accept() is always tried again.
AcceptRetries(d) ==
    /\ at[d] = "accept"
    /\ listener[d] = "closed"
    /\ Goto(d, "accept")
    /\ UNCHANGED <<once, signalVars, socketVars, path, sent>>

\* accept() was interrupted by the handler, or finds the descriptor closed.
AcceptStopped(d) ==
    /\ at[d] = "accept"
    /\ listener[d] = "closed"
    /\ Goto(d, "close")
    /\ UNCHANGED <<once, signalVars, socketVars, path, sent>>

\* accept() fails for another reason, such as a full descriptor table.
AcceptFails(d) ==
    /\ at[d] = "accept"
    /\ IF stop_requested[d]
       THEN /\ Goto(d, "close")
            /\ UNCHANGED <<server_fd_for_signal, listener, queue, connection, path>>
       ELSE /\ server_fd_for_signal' = [server_fd_for_signal EXCEPT ![d] = FALSE]
            /\ CloseListener(d)
            /\ path' = Nobody
            /\ Goto(d, "failure")
    /\ UNCHANGED <<once, stop_requested, client_fd, sent>>

\* serve_connection() up to the decoded request.  The stop flag is looked at
\* before every read() and poll().
ReadRequest(d) ==
    /\ at[d] = "read"
    /\ sent[client_fd[d]] /\ ~stop_requested[d]
    /\ Goto(d, "write")
    /\ UNCHANGED <<once, signalVars, socketVars, path, sent>>

\* Mutant: the read of a request has no timeout.
ReadWithoutTimeout(d) ==
    /\ at[d] = "read"
    /\ stop_requested[d] \/ (~sent[client_fd[d]] /\ connection[client_fd[d]] = "left")
    /\ Goto(d, "failed")
    /\ UNCHANGED <<once, signalVars, socketVars, path, sent>>

\* A stop, a client that left, or QCPU_DEVICE_IO_TIMEOUT_MS without a request.
ReadFails(d) ==
    /\ at[d] = "read"
    /\ stop_requested[d] \/ ~sent[client_fd[d]]
    /\ Goto(d, "failed")
    /\ UNCHANGED <<once, signalVars, socketVars, path, sent>>

\* The 56 bytes of a response fit the socket buffer, so the write never waits.
WriteResponse(d) ==
    /\ at[d] = "write"
    /\ IF stop_requested[d] \/ connection[client_fd[d]] # "open"
       THEN Goto(d, "failed") /\ UNCHANGED connection
       ELSE /\ Goto(d, "served")
            /\ connection' = [connection EXCEPT ![client_fd[d]] = "answered"]
    /\ UNCHANGED <<once, signalVars, listener, queue, client_fd, path, sent>>

\* Mutant: the descriptor is forgotten and stays open.
CloseClientLeaks(d) ==
    /\ client_fd' = [client_fd EXCEPT ![d] = Nobody]
    /\ UNCHANGED connection

CloseClient(d) ==
    /\ client_fd' = [client_fd EXCEPT ![d] = Nobody]
    /\ connection' =
         [connection EXCEPT ![client_fd[d]] = IF @ = "open" THEN "dropped" ELSE @]

\* A served connection is closed, and the loop goes on without a look at
\* stop_requested.
AfterServed(d) ==
    /\ at[d] = "served"
    /\ CloseClient(d)
    /\ Goto(d, IF once[d] THEN "close" ELSE "accept")
    /\ UNCHANGED <<once, signalVars, listener, queue, path, sent>>

\* A failed one ends the daemon only with --once or after a stop.
AfterFailed(d) ==
    /\ at[d] = "failed"
    /\ CloseClient(d)
    /\ Goto(d, IF once[d] THEN "once_failed" ELSE IF stop_requested[d] THEN "close" ELSE "accept")
    /\ UNCHANGED <<once, signalVars, listener, queue, path, sent>>

OnceFailed(d) ==
    /\ at[d] = "once_failed"
    /\ server_fd_for_signal' = [server_fd_for_signal EXCEPT ![d] = FALSE]
    /\ CloseListener(d)
    /\ path' = Nobody
    /\ Goto(d, "failure")
    /\ UNCHANGED <<once, stop_requested, client_fd, sent>>

\* The end of main(): the server socket, then its name.
CloseServer(d) ==
    /\ at[d] = "close"
    /\ server_fd_for_signal' = [server_fd_for_signal EXCEPT ![d] = FALSE]
    /\ CloseListener(d)
    /\ Goto(d, "unlink")
    /\ UNCHANGED <<once, stop_requested, client_fd, path, sent>>

\* close() reports an error, having released the socket all the same.
CloseFails(d) ==
    /\ at[d] = "close"
    /\ server_fd_for_signal' = [server_fd_for_signal EXCEPT ![d] = FALSE]
    /\ CloseListener(d)
    /\ path' = Nobody
    /\ Goto(d, "failure")
    /\ UNCHANGED <<once, stop_requested, client_fd, sent>>

Unlink(d) ==
    /\ at[d] = "unlink"
    /\ Goto(d, IF path = Nobody THEN "failure" ELSE "success")
    /\ path' = Nobody
    /\ UNCHANGED <<once, signalVars, socketVars, sent>>

-----------------------------------------------------------------------------
(* Signals, crashes and clients.                                           *)

\* Every connection of a process that is gone is closed; its name stays.
Die(d) ==
    /\ Goto(d, "killed")
    /\ listener' = [listener EXCEPT ![d] = "closed"]
    /\ queue' = [queue EXCEPT ![d] = <<>>]
    /\ client_fd' = [client_fd EXCEPT ![d] = Nobody]
    /\ connection' = [c \in Clients |->
         IF c \in Waiting(d) \cup {client_fd[d]} /\ connection[c] = "open"
         THEN "dropped" ELSE connection[c]]
    /\ UNCHANGED <<once, signalVars, path, sent>>

\* SIGTERM or SIGINT; without a handler it ends the process.
handle_stop_signal(d) ==
    /\ Alive(d)
    /\ IF at[d] = "handlers"
       THEN Die(d)
       ELSE /\ stop_requested' = [stop_requested EXCEPT ![d] = TRUE]
            /\ IF server_fd_for_signal[d]
               THEN CloseListener(d)
               ELSE UNCHANGED <<listener, queue, connection>>
            /\ UNCHANGED <<at, once, server_fd_for_signal, client_fd, path, sent>>

Crash(d) == Alive(d) /\ Die(d)

Unused(c) == \A d \in Daemons : c \notin Waiting(d) \cup {client_fd[d]}

\* ENOENT, ECONNREFUSED or a full backlog, or a connection that waits.
Connect(c) ==
    /\ connection[c] \in {"idle", "answered", "dropped", "left"}
    /\ Unused(c)
    /\ IF path # Nobody /\ listener[path] = "listening" /\ Len(queue[path]) < Backlog
       THEN /\ connection' = [connection EXCEPT ![c] = "open"]
            /\ queue' = [queue EXCEPT ![path] = Append(@, c)]
       ELSE connection' = [connection EXCEPT ![c] = "idle"] /\ UNCHANGED queue
    /\ sent' = [sent EXCEPT ![c] = FALSE]
    /\ UNCHANGED <<at, once, signalVars, listener, client_fd, path>>

Send(c) ==
    /\ connection[c] = "open" /\ ~sent[c]
    /\ sent' = [sent EXCEPT ![c] = TRUE]
    /\ UNCHANGED <<at, once, signalVars, socketVars, path>>

\* The client runs into its own timeout, or is killed.
Leave(c) ==
    /\ connection[c] = "open"
    /\ connection' = [connection EXCEPT ![c] = "left"]
    /\ UNCHANGED <<at, once, signalVars, listener, queue, client_fd, path, sent>>

DaemonStep(d) ==
    \/ install_signal_handlers(d) \/ Lstat(d) \/ UnlinkStale(d) \/ StartFails(d)
    \/ Bind(d) \/ Chmod(d) \/ Listen(d) \/ SetupFails(d) \/ Ready(d)
    \/ accept(d) \/ AcceptStopped(d)
    \/ ReadRequest(d) \/ ReadFails(d) \/ WriteResponse(d)
    \/ AfterServed(d) \/ AfterFailed(d) \/ OnceFailed(d)
    \/ CloseServer(d) \/ CloseFails(d) \/ Unlink(d)

Next ==
    \/ \E d \in Daemons :
         \/ Start(d) \/ DaemonStep(d) \/ AcceptFails(d)
         \/ handle_stop_signal(d) \/ Crash(d)
    \/ \E c \in Clients : Connect(c) \/ Send(c) \/ Leave(c)

Spec == Init /\ [][Next]_vars

\* A daemon runs; clients, signals and failures may come or not.
FairSpec == Spec /\ \A d \in Daemons : WF_vars(DaemonStep(d))

-----------------------------------------------------------------------------
(* Properties.                                                             *)

Labels ==
    {"new", "handlers", "lstat", "unlink_stale", "bind", "chmod", "listen", "ready",
     "accept", "read", "write", "served", "failed", "once_failed", "close", "unlink",
     "success", "failure", "killed"}

\* Processes, sockets and connections have their types.
TypeOK ==
    /\ at \in [Daemons -> Labels]
    /\ once \in [Daemons -> BOOLEAN]
    /\ stop_requested \in [Daemons -> BOOLEAN]
    /\ server_fd_for_signal \in [Daemons -> BOOLEAN]
    /\ listener \in [Daemons -> {"none", "bound", "listening", "closed"}]
    /\ queue \in [Daemons -> Seq(Clients)]
    /\ \A d \in Daemons : Len(queue[d]) <= Backlog
    /\ client_fd \in [Daemons -> Clients \cup {Nobody}]
    /\ path \in Daemons \cup {Nobody}
    /\ connection \in [Clients -> {"idle", "open", "answered", "dropped", "left"}]
    /\ sent \in [Clients -> BOOLEAN]

\* A daemon that has announced READY is the one clients reach at the path, for
\* as long as it serves, whatever its predecessors left behind; no request that
\* fails takes it off the path.
ReachableWhileReady ==
    \A d \in Daemons :
      at[d] \in {"accept", "read", "write", "served", "failed"} => path = d

\* The socket of a predecessor that crashed never keeps a daemon from starting.
StaleSocketReplaced == \A d \in Daemons : at[d] = "bind" => path = Nobody

\* A daemon that ends by itself leaves no socket of its own behind, on any of
\* its exits.
ExitUnlinks == \A d \in Daemons : at[d] \in {"success", "failure"} => path # d

\* A connection has one server: it is in one queue, or being served, at most
\* once, and when it is in neither it has been answered or closed.
OneServer ==
    /\ \A d \in Daemons : \A i, j \in DOMAIN queue[d] : queue[d][i] = queue[d][j] => i = j
    /\ \A d, e \in Daemons : d # e => /\ Waiting(d) \cap Waiting(e) = {}
                                      /\ client_fd[d] = client_fd[e] => client_fd[d] = Nobody
    /\ \A d, e \in Daemons : client_fd[d] \notin Waiting(e)
    /\ \A c \in Clients : connection[c] = "open" => ~Unused(c)

\* main() from bind() to its last unlink().
HasPath == {"chmod", "listen", "ready", "accept", "read", "write", "served", "failed",
            "once_failed", "close", "unlink"}

\* Daemons that run one after the other share the path: it names the daemon that
\* is between bind() and unlink(), and otherwise nothing or one that was killed.
PathInv ==
    /\ \A d, e \in Daemons : Alive(d) /\ Alive(e) => d = e
    /\ \A d \in Daemons :
         /\ at[d] = "bind" => path = Nobody
         /\ at[d] \in HasPath => path = d
         /\ at[d] \notin HasPath \cup {"killed"} => path # d

\* A daemon holds a connection exactly from accept() to close(), and the
\* connections are shared out as OneServer says.
ServerInv ==
    /\ \A d \in Daemons :
         client_fd[d] # Nobody <=> at[d] \in {"read", "write", "served", "failed"}
    /\ OneServer

\* A connected client is answered or disconnected in the end, though it be
\* silent itself, and though the clients before it be.
ClientsReleased == \A c \in Clients : connection[c] = "open" ~> connection[c] # "open"

\* A stop signal ends the daemon once the handler could close the server socket,
\* although the loop does not look at stop_requested after a request that it
\* served; and one that came before READY, when the handler has nothing to
\* close, ends it with the first client.
StopEnds ==
    \A d \in Daemons :
      stop_requested[d] /\ (listener[d] = "closed" \/ client_fd[d] # Nobody) ~> Ended(d)
=============================================================================
