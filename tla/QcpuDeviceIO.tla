---------------------------- MODULE QcpuDeviceIO ----------------------------
(***************************************************************************)
(* qcpu_device_io.c: qcpu_device_write_all, qcpu_device_read_all and the   *)
(* wait_until_ready loop under them, byte by byte.  A client writes a      *)
(* request and reads the response, the daemon reads the request and writes *)
(* the response; a party closes its end after its last call and after a    *)
(* call that failed.  The socket may take or give any part of what is      *)
(* asked for, signals arrive at any point, another thread may shut the     *)
(* client's socket down, and a deadline runs over the whole packet.        *)
(*                                                                         *)
(* CLOCK_MONOTONIC is read in whole milliseconds (line 26) while poll      *)
(* sleeps in real time, so the model ticks TicksPerMs times in a           *)
(* millisecond.  Time passes while parties sleep in poll or have not begun *)
(* their call; the code between two system calls takes no model time.      *)
(***************************************************************************)
EXTENDS Integers, Sequences

CONSTANTS
    Size,        \* bytes of a packet
    Capacity,    \* bytes the socket holds in one direction
    Timeout,     \* timeout_ms of every call
    TicksPerMs,  \* clock ticks in a millisecond
    MaxSignals,  \* signals a party receives at most
    Stoppable    \* the parties that pass a stop_flag: qcpud does

ASSUME DeviceIOAssumption ==
    /\ {Size, Capacity, Timeout, TicksPerMs} \subseteq Nat \ {0}
    /\ MaxSignals \in Nat
    /\ Stoppable \subseteq {"client", "daemon"}

VARIABLES
    phase,      \* ticks since the last whole millisecond
    at,         \* where each party is in its call
    call,       \* which call it is in
    completed,  \* completed[p][c]: the variable completed of p's call c
    remaining,  \* deadline_ms - now_ms, 0 once the deadline has passed
    sleep,      \* ticks until the poll a party sleeps in expires
    elapsed,    \* ticks since the call began
    stop_flag,  \* *stop_flag, set by the signal handler
    late,       \* system calls a party made after its flag was set
    signals,    \* signals a party has received
    stream,     \* stream[p]: bytes in the socket on their way to p
    buffer,     \* buffer[p]: the buffer of p's read_all
    up,         \* neither end of the connection is closed or shut down
    result      \* what each call returned

clockVars == <<phase, remaining, sleep, elapsed>>
signalVars == <<stop_flag, late, signals>>
dataVars == <<completed, stream, buffer>>
callVars == <<call, result, up>>
vars == <<clockVars, at, signalVars, dataVars, callVars>>

Party == {"client", "daemon"}
Calls == {"write", "read"}
Peer(p) == IF p = "client" THEN "daemon" ELSE "client"
First(p) == IF p = "client" THEN "write" ELSE "read"
After(p, c) == IF c # First(p) THEN "done" ELSE IF c = "write" THEN "read" ELSE "write"

\* The bytes of a packet are told apart by their place in it; 0 is a byte of
\* the buffer that read_all has not filled.
Packet == [i \in 1..Size |-> i]
Smaller(a, b) == IF a < b THEN a ELSE b

Init ==
    /\ phase \in 0..(TicksPerMs - 1)
    /\ at = [p \in Party |-> "begin"]
    /\ call = [p \in Party |-> First(p)]
    /\ completed = [p \in Party |-> [c \in Calls |-> 0]]
    /\ remaining = [p \in Party |-> 0]
    /\ sleep = [p \in Party |-> 0]
    /\ elapsed = [p \in Party |-> 0]
    /\ stop_flag = [p \in Party |-> FALSE]
    /\ late = [p \in Party |-> 0]
    /\ signals = [p \in Party |-> 0]
    /\ stream = [p \in Party |-> <<>>]
    /\ buffer = [p \in Party |-> [i \in 1..Size |-> 0]]
    /\ up = TRUE
    /\ result = [p \in Party |-> [c \in Calls |-> "none"]]
-----------------------------------------------------------------------------
To(p, label) == at' = [at EXCEPT ![p] = label]
\* Mutant: the last byte is not waited for.
LeftWithoutLast(p) == LET n == Size - completed[p][call[p]] IN IF n = 0 THEN 0 ELSE n - 1
Left(p) == Size - completed[p][call[p]]
Room(p) == Capacity - Len(stream[Peer(p)])

\* A system call that starts when the flag is already set.
Entered(p) == late' = [late EXCEPT ![p] = IF stop_flag[p] THEN @ + 1 ELSE @]

\* The call returns.  serve_connection and the clients go on to their next
\* call only after QCPU_DEVICE_IO_OK, and close the descriptor otherwise.
Return(p, status) ==
    LET next == IF status = "OK" THEN After(p, call[p]) ELSE "done"
    IN  /\ result' = [result EXCEPT ![p][call[p]] = status]
        /\ call' = [call EXCEPT ![p] = next]
        /\ To(p, IF next = "done" THEN "done" ELSE "begin")
        /\ up' = (up /\ next # "done")
        /\ elapsed' = [elapsed EXCEPT ![p] = 0]
        /\ remaining' = [remaining EXCEPT ![p] = 0]
        /\ sleep' = [sleep EXCEPT ![p] = 0]
        /\ UNCHANGED phase

Continue(p, label) == To(p, label) /\ UNCHANGED callVars

DeadlineIn == Timeout

\* prepare_deadline and set_nonblocking.
Begin(p) ==
    /\ at[p] = "begin"
    /\ \/ /\ remaining' = [remaining EXCEPT ![p] = DeadlineIn]
          /\ Continue(p, "loop")
          /\ UNCHANGED <<phase, sleep, elapsed>>
       \/ Return(p, "ERROR")
    /\ UNCHANGED <<signalVars, dataVars>>

\* The head of the transfer loop: it ends with the last byte, and a stop
\* request is looked at before every system call.
Loop(p) ==
    /\ at[p] = "loop"
    /\ \/ Left(p) = 0 /\ Return(p, "OK")
       \/ Left(p) > 0 /\ stop_flag[p] /\ Return(p, "STOPPED")
       \/ Left(p) > 0 /\ ~stop_flag[p] /\ Continue(p, "transfer") /\ UNCHANGED clockVars
    /\ UNCHANGED <<signalVars, dataVars>>

\* Mutant: every read goes to the start of the buffer.
TakeAtStart(p, n) ==
    /\ buffer' = [buffer EXCEPT ![p] =
                    [i \in 1..Size |-> IF i \in 1..n THEN stream[p][i] ELSE @[i]]]
    /\ stream' = [stream EXCEPT ![p] = SubSeq(@, n + 1, Len(@))]
    /\ completed' = [completed EXCEPT ![p].read = @ + n]

\* n bytes arrive: result > 0.
Take(p, n) ==
    LET done == completed[p].read
    IN  /\ buffer' = [buffer EXCEPT ![p] =
                        [i \in 1..Size |-> IF i \in (done + 1)..(done + n)
                                           THEN stream[p][i - done] ELSE @[i]]]
        /\ stream' = [stream EXCEPT ![p] = SubSeq(@, n + 1, Len(@))]
        /\ completed' = [completed EXCEPT ![p].read = @ + n]

\* Mutant: the end of the stream is taken for an interruption.
EndOfStreamRetried(p) == Continue(p, "loop") /\ UNCHANGED clockVars
\* read() returned 0.
EndOfStream(p) == Return(p, "ERROR")

\* read() on the non-blocking descriptor: some bytes, the end of the stream,
\* or EAGAIN.
Read(p) ==
    /\ at[p] = "transfer" /\ call[p] = "read"
    /\ Entered(p)
    /\ \/ /\ \E n \in 1..Smaller(Left(p), Len(stream[p])) : Take(p, n)
          /\ Continue(p, "loop")
          /\ UNCHANGED clockVars
       \/ /\ stream[p] = <<>> /\ ~up
          /\ EndOfStream(p)
          /\ UNCHANGED dataVars
       \/ /\ stream[p] = <<>> /\ up
          /\ Continue(p, "wait")
          /\ UNCHANGED <<clockVars, dataVars>>
    /\ UNCHANGED <<stop_flag, signals>>

\* send() with MSG_NOSIGNAL: some bytes, EPIPE, or EAGAIN.
Write(p) ==
    /\ at[p] = "transfer" /\ call[p] = "write"
    /\ Entered(p)
    /\ \/ /\ up
          /\ \E n \in 1..Smaller(Left(p), Room(p)) :
                LET done == completed[p].write
                IN  /\ stream' = [stream EXCEPT ![Peer(p)] =
                                    @ \o SubSeq(Packet, done + 1, done + n)]
                    /\ completed' = [completed EXCEPT ![p].write = @ + n]
          /\ Continue(p, "loop")
          /\ UNCHANGED <<clockVars, buffer>>
       \/ /\ ~up
          /\ Return(p, "ERROR")
          /\ UNCHANGED dataVars
       \/ /\ up /\ Room(p) = 0
          /\ Continue(p, "wait")
          /\ UNCHANGED <<clockVars, dataVars>>
    /\ UNCHANGED <<stop_flag, signals>>
-----------------------------------------------------------------------------
(* wait_until_ready.  The flag is looked at and the clock read in Wait;    *)
(* poll begins in Sleep, and a signal that arrives between the two sets    *)
(* the flag but interrupts nothing.                                        *)

Ready(p) ==
    \/ ~up
    \/ call[p] = "read" /\ stream[p] # <<>>
    \/ call[p] = "write" /\ Room(p) > 0

\* Mutant: the flag is not looked at before poll.
WaitWithoutStop(p) ==
    /\ at[p] = "wait"
    /\ \/ remaining[p] = 0 /\ Return(p, "TIMEOUT")
       \/ remaining[p] > 0 /\ Continue(p, "armed") /\ UNCHANGED clockVars
    /\ UNCHANGED <<signalVars, dataVars>>

Wait(p) ==
    /\ at[p] = "wait"
    /\ \/ stop_flag[p] /\ Return(p, "STOPPED")
       \/ ~stop_flag[p] /\ remaining[p] = 0 /\ Return(p, "TIMEOUT")
       \/ ~stop_flag[p] /\ remaining[p] > 0 /\ Continue(p, "armed") /\ UNCHANGED clockVars
    /\ UNCHANGED <<signalVars, dataVars>>

\* Mutant: poll is given the whole timeout each time.
PollWholeTimeout(p) == Timeout * TicksPerMs
PollTimeout(p) == remaining[p] * TicksPerMs

Sleep(p) ==
    /\ at[p] = "armed"
    /\ sleep' = [sleep EXCEPT ![p] = PollTimeout(p)]
    /\ Entered(p)
    /\ Continue(p, "poll")
    /\ UNCHANGED <<phase, remaining, elapsed, stop_flag, signals, dataVars>>

\* poll returns: an event of the connection, POLLHUP or POLLERR alone, or the
\* end of the time it was given.
Wake(p) ==
    /\ at[p] = "poll"
    /\ \/ Ready(p) /\ Continue(p, "loop") /\ sleep' = [sleep EXCEPT ![p] = 0]
          /\ UNCHANGED <<phase, remaining, elapsed>>
       \/ ~up /\ Return(p, "ERROR")
       \/ ~Ready(p) /\ sleep[p] = 0 /\ Return(p, "TIMEOUT")
    /\ UNCHANGED <<signalVars, dataVars>>

\* A signal handler runs in p: qcpud's sets stop_requested.  A poll in
\* progress ends with EINTR and the loop computes the time again; the
\* non-blocking read or send it hits may end with EINTR too.
Signal(p) ==
    /\ at[p] # "done" /\ signals[p] < MaxSignals
    /\ signals' = [signals EXCEPT ![p] = @ + 1]
    /\ stop_flag' = [stop_flag EXCEPT ![p] = @ \/ p \in Stoppable]
    /\ \/ at[p] = "poll" /\ To(p, "wait") /\ sleep' = [sleep EXCEPT ![p] = 0]
       \/ at[p] = "transfer" /\ To(p, "loop") /\ UNCHANGED sleep
       \/ at[p] # "poll" /\ UNCHANGED <<at, sleep>>
    /\ UNCHANGED <<phase, remaining, elapsed, late, dataVars, callVars>>

\* Another thread of the client shuts the socket down (a cancel).
Shutdown ==
    /\ up /\ call["client"] # "done"
    /\ up' = FALSE
    /\ UNCHANGED <<clockVars, at, signalVars, dataVars, call, result>>

\* Time passes: no party has system calls to make and no poll is overdue.
Tick ==
    /\ \A p \in Party :
         \/ at[p] \in {"begin", "done"}
         \/ at[p] = "poll" /\ sleep[p] > 0
    /\ \E p \in Party : at[p] # "done"
    /\ phase' = (phase + 1) % TicksPerMs
    /\ remaining' = [p \in Party |->
                       IF phase' = 0 /\ remaining[p] > 0 THEN remaining[p] - 1 ELSE remaining[p]]
    /\ sleep' = [p \in Party |-> IF at[p] = "poll" THEN sleep[p] - 1 ELSE sleep[p]]
    /\ elapsed' = [p \in Party |-> IF at[p] = "poll" THEN elapsed[p] + 1 ELSE elapsed[p]]
    /\ UNCHANGED <<at, signalVars, dataVars, callVars>>

\* Both conversations are over.
Terminated == (\A p \in Party : at[p] = "done") /\ UNCHANGED vars

Step(p) == Begin(p) \/ Loop(p) \/ Read(p) \/ Write(p) \/ Wait(p) \/ Sleep(p) \/ Wake(p)

Next == (\E p \in Party : Step(p) \/ Signal(p)) \/ Shutdown \/ Tick \/ Terminated

Spec == Init /\ [][Next]_vars

\* A runnable process runs, and the clock advances while everyone sleeps.
FairSpec == Spec /\ (\A p \in Party : WF_vars(Step(p))) /\ WF_vars(Tick)
-----------------------------------------------------------------------------
\* However reads and writes are cut short, interrupted and resumed, the bytes
\* a reader has stored and the bytes still in the socket are the bytes the
\* writer's completed counter covers, each once and in order.
NothingLostOrReordered ==
    \A p \in Party :
        /\ SubSeq(buffer[p], 1, completed[p].read) \o stream[p]
             = SubSeq(Packet, 1, completed[Peer(p)].write)
        /\ Len(stream[p]) <= Capacity

\* One deadline covers the whole packet, up to the part of a millisecond that
\* the clock does not show: interruptions and partial transfers do not extend
\* it, so a party never sleeps in poll for longer than its timeout, and no call
\* reports a timeout before that time has run.
DeadlineKept ==
    /\ [](\A p \in Party : at[p] = "poll" => elapsed[p] + sleep[p] < (Timeout + 1) * TicksPerMs)
    /\ [][\A p \in Party : \A c \in Calls :
            result[p][c] = "none" /\ result'[p][c] = "TIMEOUT"
              => elapsed[p] > (Timeout - 1) * TicksPerMs]_vars

\* Once the stop flag is set a call makes at most one more system call: the
\* read or send it was about to make, or the poll it had already prepared for.
StopEndsCall == \A p \in Party : late[p] <= 1

\* What the callers rely on: packets are whole, and results say so.
Exchange == INSTANCE PacketExchange WITH
    sent <- [p \in Party |-> completed[p].write = Size]
PacketsWhole == Exchange!Spec

\* Every call returns, whatever the peer does, signals and shutdowns included.
EveryCallReturns == \A p \in Party : <>(at[p] = "done")
=============================================================================
