---------------------------- MODULE QcpudAdapter ----------------------------
(***************************************************************************)
(* The backend that forwards an exchange to the qcpud daemon over a Unix   *)
(* socket: src/device/qcpu_qcpud_adapter.c, with the connect, write and    *)
(* read loops of src/device/qcpu_device_io.c that it runs.                 *)
(*                                                                         *)
(* A call is one activation of the exchange callback, on a thread of its   *)
(* own.  A step is a stretch under adapter->mutex or one system call.  The *)
(* cancel callback holds the mutex throughout and is a single step.  The   *)
(* descriptor table belongs to the process: other parts of it open and     *)
(* close descriptors too, and a closed number is free to be used again.    *)
(* A retry after EINTR, a spurious poll() or a short transfer is a stutter.*)
(***************************************************************************)
EXTENDS DeviceProtocol

CONSTANTS
    Calls,      \* exchange callbacks that may run at the same time
    Fds,        \* descriptor numbers
    Requests,   \* requests the frontend passes down
    Frames      \* what the bytes of an answer may decode to

ASSUME AdapterAssumption ==
    /\ "nobody" \notin Calls /\ "other" \notin Calls
    /\ Fds \subseteq Nat
    /\ Requests \subseteq Request
    /\ Frames \subseteq Frame

VARIABLES
    active, active_fd, cancel_requested,   \* struct qcpu_qcpud_adapter
    at,          \* Calls -> the step the call is at
    request,     \* Calls -> its argument
    fd,          \* Calls -> file_descriptor
    expired,     \* Calls -> CLOCK_MONOTONIC has reached absolute_deadline_ns
    io_status,   \* Calls -> what the last I/O function returned
    outcome,     \* Calls -> result and *response
    file,        \* Fds -> the open file behind the number
    canceled     \* history: Calls -> a cancel callback found the call active

structVars == <<active, active_fd, cancel_requested>>
vars == <<structVars, at, request, fd, expired, io_status, outcome, file, canceled>>

NoFd == -1

Results ==
    {"0", "-EBUSY", "-EPROTO", "-EPROTONOSUPPORT", "-EOPNOTSUPP", "-ERANGE", "-EIO",
     "-ENODEV", "-ETIMEDOUT", "-ECANCELED"}

\* The daemon's end of a connection: none, waiting in the backlog or being
\* served, a whole answer written, or closed without one.
PeerStates == {"none", "serving", "answered", "gone"}

File(owner, peer) == [owner |-> owner, peer |-> peer, shut |-> FALSE]

Closed == File("nobody", "none")

Init ==
    /\ active = FALSE /\ active_fd = NoFd /\ cancel_requested = FALSE
    /\ at = [c \in Calls |-> "idle"]
    /\ request = [c \in Calls |-> ZeroRequest]
    /\ fd = [c \in Calls |-> NoFd]
    /\ expired = [c \in Calls |-> FALSE]
    /\ io_status = [c \in Calls |-> "OK"]
    /\ outcome = [c \in Calls |-> ZeroOutcome]
    /\ file = [f \in Fds |-> Closed]
    /\ canceled = [c \in Calls |-> FALSE]

-----------------------------------------------------------------------------
(* The exchange callback.                                                  *)

Goto(c, label) == at' = [at EXCEPT ![c] = label]

Store(c, o) == outcome' = [outcome EXCEPT ![c] = o]

\* The call leaves with an error: the response stays zeroed.
Fail(c, result) ==
    /\ Goto(c, "finish")
    /\ Store(c, [ZeroOutcome EXCEPT !.result = result])

\* The frontend hands over a request with its absolute deadline; the thread
\* has not entered the callback yet.
Arrive(c, r) ==
    /\ at[c] = "idle"
    /\ Goto(c, "begin")
    /\ request' = [request EXCEPT ![c] = r]
    /\ expired' = [expired EXCEPT ![c] = FALSE]
    /\ UNCHANGED <<structVars, fd, io_status, outcome, file, canceled>>

\* Mutant: a second call starts although one is active.
BeginUnchecked(c) ==
    /\ at[c] = "begin"
    /\ active' = TRUE /\ cancel_requested' = FALSE /\ active_fd' = NoFd
    /\ Goto(c, "connect")
    /\ UNCHANGED <<request, fd, expired, io_status, outcome, file, canceled>>

\* qcpu_adapter_begin() and qcpu_adapter_translate_request().
qcpu_adapter_begin(c) ==
    /\ at[c] = "begin"
    /\ IF active
       THEN /\ Goto(c, "returned")
            /\ Store(c, [ZeroOutcome EXCEPT !.result = "-EBUSY"])
            /\ UNCHANGED structVars
       ELSE /\ active' = TRUE
            /\ cancel_requested' = FALSE
            /\ active_fd' = NoFd
            /\ IF request[c].command = "UNSUPPORTED"
               THEN Fail(c, "-EOPNOTSUPP")
               ELSE Goto(c, "connect") /\ UNCHANGED outcome
    /\ UNCHANGED <<request, fd, expired, io_status, file, canceled>>

\* qcpu_adapter_remaining_ms() is 0 once the deadline has passed.
OutOfTime(c) ==
    /\ at[c] \in {"connect", "write", "read"}
    /\ expired[c]
    /\ Fail(c, "-ETIMEDOUT")
    /\ UNCHANGED <<structVars, request, fd, expired, io_status, file, canceled>>

\* qcpu_device_connect_unix() gets a descriptor and connect() succeeds at once,
\* or the daemon's backlog is full (EAGAIN): poll() then reports a socket that
\* is not connected as writable, SO_ERROR is 0, and the descriptor is returned.
ConnectGetsFd(c) ==
    /\ at[c] = "connect"
    /\ ~expired[c]
    /\ \E f \in Fds, peer \in {"serving", "none"} :
         /\ file[f].owner = "nobody"
         /\ file' = [file EXCEPT ![f] = File(c, peer)]
         /\ fd' = [fd EXCEPT ![c] = f]
    /\ Goto(c, "register")
    /\ UNCHANGED <<structVars, request, expired, io_status, outcome, canceled>>

\* No socket file or no listener, or socket(), fcntl() or connect() fails
\* otherwise; the descriptor, if there was one, is closed before returning.
ConnectFails(c) ==
    /\ at[c] = "connect"
    /\ ~expired[c]
    /\ \E result \in {"-ENODEV", "-EIO"} : Fail(c, result)
    /\ UNCHANGED <<structVars, request, fd, expired, io_status, file, canceled>>

\* shutdown(SHUT_RDWR) acts on whatever file the number stands for now.
Shutdown(f) == file' = [file EXCEPT ![f].shut = TRUE]

\* Mutant: a cancellation that came before the descriptor is not looked at.
RegisterIgnoresCancel(c) ==
    /\ at[c] = "register"
    /\ active_fd' = fd[c]
    /\ Goto(c, "write")
    /\ UNCHANGED <<active, cancel_requested, request, fd, expired, io_status, outcome, file,
                   canceled>>

qcpu_adapter_register_fd(c) ==
    /\ at[c] = "register"
    /\ active_fd' = fd[c]
    /\ IF cancel_requested
       THEN Shutdown(fd[c]) /\ Fail(c, "-ECANCELED")
       ELSE Goto(c, "write") /\ UNCHANGED <<file, outcome>>
    /\ UNCHANGED <<active, cancel_requested, request, fd, expired, io_status, canceled>>

Connection(c) == file[fd[c]]

\* Neither this side nor the daemon has closed the stream.
Flows(c) == ~Connection(c).shut /\ Connection(c).peer \in {"serving", "answered"}

\* The remaining time is positive: it becomes the deadline of the next loop.
StartIo(c) ==
    /\ at[c] \in {"write", "read"}
    /\ ~expired[c]
    /\ Goto(c, IF at[c] = "write" THEN "writing" ELSE "reading")
    /\ UNCHANGED <<structVars, request, fd, expired, io_status, outcome, file, canceled>>

\* The 24 bytes go out, and SHUT_WR marks the end of the request.
qcpu_device_write_all(c) ==
    /\ at[c] = "writing"
    /\ Flows(c)
    /\ Goto(c, "shutdown")
    /\ UNCHANGED <<structVars, request, fd, expired, io_status, outcome, file, canceled>>

ShutdownWrite(c) ==
    /\ at[c] = "shutdown"
    /\ Goto(c, "read")
    /\ UNCHANGED <<structVars, request, fd, expired, io_status, outcome, file, canceled>>

\* The whole answer is there; it is read even after a shutdown of this side.
qcpu_device_read_all(c) ==
    /\ at[c] = "reading"
    /\ Connection(c).peer = "answered"
    /\ \E frame \in Frames : Store(c, Answer(frame))
    /\ Goto(c, "finish")
    /\ UNCHANGED <<structVars, request, fd, expired, io_status, file, canceled>>

\* send(), shutdown() or read() fails, or read() meets the end of the stream.
IoError(c) ==
    /\ \/ at[c] = "writing" /\ ~Flows(c)
       \/ at[c] = "shutdown"
       \/ at[c] = "reading" /\ (Connection(c).shut \/ Connection(c).peer = "gone")
    /\ io_status' = [io_status EXCEPT ![c] = "ERROR"]
    /\ Goto(c, "io_failed")
    /\ UNCHANGED <<structVars, request, fd, expired, outcome, file, canceled>>

\* Mutant: the read waits without a deadline.
ReadWaitsForever(c) ==
    /\ at[c] = "writing"
    /\ expired[c]
    /\ io_status' = [io_status EXCEPT ![c] = "TIMEOUT"]
    /\ Goto(c, "io_failed")
    /\ UNCHANGED <<structVars, request, fd, expired, outcome, file, canceled>>

\* wait_until_ready() runs out of time inside the write or the read.
IoTimeout(c) ==
    /\ at[c] \in {"writing", "reading"}
    /\ expired[c]
    /\ io_status' = [io_status EXCEPT ![c] = "TIMEOUT"]
    /\ Goto(c, "io_failed")
    /\ UNCHANGED <<structVars, request, fd, expired, outcome, file, canceled>>

qcpu_adapter_io_result(c) ==
    /\ at[c] = "io_failed"
    /\ Fail(c, IF cancel_requested THEN "-ECANCELED"
               ELSE IF io_status[c] = "TIMEOUT" THEN "-ETIMEDOUT" ELSE "-EIO")
    /\ UNCHANGED <<structVars, request, fd, expired, io_status, file, canceled>>

\* Mutant: the descriptor is closed before active_fd is cleared.
FinishClosesFirst(c) ==
    /\ at[c] = "finish"
    /\ IF fd[c] # NoFd
       THEN /\ file' = [file EXCEPT ![fd[c]] = Closed]
            /\ fd' = [fd EXCEPT ![c] = NoFd]
            /\ UNCHANGED <<structVars, at, outcome>>
       ELSE /\ active' = FALSE /\ active_fd' = NoFd /\ cancel_requested' = FALSE
            /\ Store(c, [outcome[c] EXCEPT !.result = IF cancel_requested THEN "-ECANCELED" ELSE @])
            /\ Goto(c, "returned")
            /\ UNCHANGED <<fd, file>>
    /\ UNCHANGED <<request, expired, io_status, canceled>>

\* qcpu_adapter_finish() up to its unlock; the close comes after.
qcpu_adapter_finish(c) ==
    /\ at[c] = "finish"
    /\ active' = FALSE
    /\ active_fd' = NoFd
    /\ cancel_requested' = FALSE
    /\ Store(c, [outcome[c] EXCEPT !.result = IF cancel_requested THEN "-ECANCELED" ELSE @])
    /\ Goto(c, IF fd[c] = NoFd THEN "returned" ELSE "close")
    /\ UNCHANGED <<request, fd, expired, io_status, file, canceled>>

\* Mutant: the descriptor is not closed.
FinishLeaks(c) ==
    /\ at[c] = "close"
    /\ fd' = [fd EXCEPT ![c] = NoFd]
    /\ Goto(c, "returned")
    /\ UNCHANGED <<structVars, request, expired, io_status, outcome, file, canceled>>

FinishClose(c) ==
    /\ at[c] = "close"
    /\ file' = [file EXCEPT ![fd[c]] = Closed]
    /\ fd' = [fd EXCEPT ![c] = NoFd]
    /\ Goto(c, "returned")
    /\ UNCHANGED <<structVars, request, expired, io_status, outcome, canceled>>

\* The caller takes the result; the locals of the call are gone.
Return(c) ==
    /\ at[c] = "returned"
    /\ Goto(c, "idle")
    /\ request' = [request EXCEPT ![c] = ZeroRequest]
    /\ io_status' = [io_status EXCEPT ![c] = "OK"]
    /\ Store(c, ZeroOutcome)
    /\ canceled' = [canceled EXCEPT ![c] = FALSE]
    /\ UNCHANGED <<structVars, fd, expired, file>>

-----------------------------------------------------------------------------
(* The cancel callback, the daemon, the clock and the rest of the process. *)

\* The call that holds adapter->active.
IsActive(c) == at[c] \notin {"idle", "begin", "close", "returned"}

qcpu_qcpud_cancel ==
    /\ IF active
       THEN /\ cancel_requested' = TRUE
            /\ canceled' = [c \in Calls |-> canceled[c] \/ IsActive(c)]
            /\ IF active_fd # NoFd THEN Shutdown(active_fd) ELSE UNCHANGED file
       ELSE UNCHANGED <<cancel_requested, canceled, file>>
    /\ UNCHANGED <<active, active_fd, at, request, fd, expired, io_status, outcome>>

\* The daemon answers a request it has received, or drops the connection: its
\* own timeouts, a stop signal, a crash.
DaemonAnswers(c) ==
    /\ at[c] \in {"shutdown", "read", "reading"}
    /\ Connection(c).peer = "serving" /\ ~Connection(c).shut
    /\ file' = [file EXCEPT ![fd[c]].peer = "answered"]
    /\ UNCHANGED <<structVars, at, request, fd, expired, io_status, outcome, canceled>>

DaemonDrops(c) ==
    /\ fd[c] # NoFd
    /\ Connection(c).peer = "serving"
    /\ file' = [file EXCEPT ![fd[c]].peer = "gone"]
    /\ UNCHANGED <<structVars, at, request, fd, expired, io_status, outcome, canceled>>

Expire(c) ==
    /\ ~expired[c]
    /\ expired' = [expired EXCEPT ![c] = TRUE]
    /\ UNCHANGED <<structVars, at, request, fd, io_status, outcome, file, canceled>>

OtherUse(f) ==
    /\ \/ file[f].owner = "nobody" /\ file' = [file EXCEPT ![f] = File("other", "none")]
       \/ file[f].owner = "other" /\ file' = [file EXCEPT ![f] = Closed]
    /\ UNCHANGED <<structVars, at, request, fd, expired, io_status, outcome, canceled>>

CallStep(c) ==
    \/ qcpu_adapter_begin(c)
    \/ OutOfTime(c)
    \/ ConnectGetsFd(c)
    \/ ConnectFails(c)
    \/ qcpu_adapter_register_fd(c)
    \/ StartIo(c)
    \/ qcpu_device_write_all(c)
    \/ ShutdownWrite(c)
    \/ qcpu_device_read_all(c)
    \/ IoError(c)
    \/ IoTimeout(c)
    \/ qcpu_adapter_io_result(c)
    \/ qcpu_adapter_finish(c)
    \/ FinishClose(c)

DaemonStep(c) == DaemonAnswers(c) \/ DaemonDrops(c)

Next ==
    \/ \E c \in Calls :
         \/ \E r \in Requests : Arrive(c, r)
         \/ CallStep(c)
         \/ Return(c)
         \/ DaemonStep(c)
         \/ at[c] # "idle" /\ Expire(c)
    \/ qcpu_qcpud_cancel
    \/ \E f \in Fds : OtherUse(f)

Spec == Init /\ [][Next]_vars

\* A thread inside the callback keeps running.  Neither the daemon nor the
\* clock is assumed to do anything.
FairSpec == Spec /\ \A c \in Calls : WF_vars(CallStep(c))

-----------------------------------------------------------------------------
(* Properties.                                                             *)

Labels ==
    {"idle", "begin", "connect", "register", "write", "writing", "shutdown", "read",
     "reading", "io_failed", "finish", "close", "returned"}

\* The struct, the calls and the descriptor table have their types.
TypeOK ==
    /\ active \in BOOLEAN /\ cancel_requested \in BOOLEAN
    /\ active_fd \in Fds \cup {NoFd}
    /\ at \in [Calls -> Labels]
    /\ request \in [Calls -> Request]
    /\ fd \in [Calls -> Fds \cup {NoFd}]
    /\ expired \in [Calls -> BOOLEAN] /\ canceled \in [Calls -> BOOLEAN]
    /\ io_status \in [Calls -> {"OK", "ERROR", "TIMEOUT"}]
    /\ outcome \in [Calls -> [result : Results, response : Response]]
    /\ file \in [Fds -> [owner : {"nobody", "other"} \cup Calls, peer : PeerStates,
                         shut : BOOLEAN]]

\* active means what it says: it is set exactly while a call runs between begin
\* and finish, and there is never a second one, so a cancel has one addressee.
ActiveCall ==
    /\ active <=> \E c \in Calls : IsActive(c)
    /\ \A c, d \in Calls : IsActive(c) /\ IsActive(d) => c = d

\* A cancellation shuts down only the adapter's own socket, even when it races
\* with the end of the call and the number is in use again elsewhere.
OnlyOwnSocketShut == \A f \in Fds : file[f].owner = "other" => ~file[f].shut

\* Every descriptor of the adapter belongs to a call that will close it: no
\* error path leaks one, and none is closed twice.
DescriptorsOwned ==
    \A c \in Calls, f \in Fds : file[f].owner = c <=> fd[c] = f

\* A call reports -ECANCELED exactly when a cancel callback found it active,
\* whatever the socket did meanwhile; the flag of one call never reaches the
\* next.
CanceledIffAsked ==
    \A c \in Calls :
      at[c] \in {"close", "returned"} =>
        (outcome[c].result = "-ECANCELED" <=> canceled[c])

\* The steps at which a call holds a descriptor; at "finish" it may.
HoldsFd ==
    {"register", "write", "writing", "shutdown", "read", "reading", "io_failed", "close"}

\* A call holds a descriptor where it should, cancel_requested says of the active
\* call whether it was canceled, and no call reports it before.
CallInv(c) ==
    /\ at[c] \in HoldsFd => fd[c] # NoFd
    /\ fd[c] # NoFd => at[c] \in HoldsFd \cup {"finish"}
    /\ at[c] \in {"idle", "begin"} => ~canceled[c]
    /\ IsActive(c) => (cancel_requested <=> canceled[c])
    /\ at[c] = "finish" /\ outcome[c].result = "-ECANCELED" => canceled[c]

\* The struct speaks for the active call: active_fd is its descriptor, or not set.
StructInv ==
    /\ active_fd # NoFd => \E c \in Calls : IsActive(c) /\ fd[c] = active_fd
    /\ \A c \in Calls : CallInv(c)

\* The inductive invariant of the adapter.
AdapterInv ==
    /\ TypeOK
    /\ ActiveCall
    /\ OnlyOwnSocketShut
    /\ DescriptorsOwned
    /\ CanceledIffAsked
    /\ StructInv

\* A canceled call returns without waiting for the daemon or for the deadline.
CancelUnblocks == \A c \in Calls : canceled[c] /\ IsActive(c) ~> at[c] = "returned"

=============================================================================
