# Verification of qbit-nova-c

TLA+ models of the QCPU device stack of qbit-nova-c (the userspace frontend, the adapter that
forwards its exchanges to the `qcpud` daemon, the byte-level I/O, the daemon, the script that starts
and stops it), of the quantum kernel behind it, and of the circuit and language tools. TLC checks
each of them on small instances. TLAPS proves, for every value of the constants, every safety property
of the device stack below the kernel: frontend, adapter, both together, byte-level I/O, daemon and
script, and that the frontend and the I/O implement their abstract specifications.

## 1. The system

| Part | Source | State | Operations |
|---|---|---|---|
| Frontend | `src/device/qcpu_mock_frontend.c` | `struct qcpu_mock` under one mutex, one heap task per exchange, a lock file | create, set_backend, open, exchange ioctl, status/caps ioctls, close, destroy |
| Worker | same file | its task | calls the backend, reports, drops its reference |
| UAPI | `include/uapi/qcpu_device_uapi.h` | none | limits, statuses, validation order |
| Adapter | `src/device/qcpu_qcpud_adapter.c` | `active`, `active_fd`, `cancel_requested` under one mutex | exchange callback, cancel callback, create, destroy |
| Device I/O | `src/device/qcpu_device_io.c` | none | connect, write_all, read_all with deadline and stop flag |
| Wire format | `src/device/qcpu_device_wire.c` | none | encode and decode the two packets |
| Daemon | `src/device/qcpud.c` | listening socket, socket path, stop flag | take over the path, accept loop, run a request, stop, exit |
| Kernel | `src/quantum/qcpu_kernel.c` | amplitudes, measured state, generator | init, gates, measure, shots, free |
| Clients | `src/tools/qnova_device_client.c`, `qnova_kernel_cli.c` | one connection, one kernel | status, run-ghz; a GHZ run without a daemon |
| Lifecycle script | `scripts/qcpu_device_lifecycle.sh` | PID file, lock file, log, socket | start, status, run-ghz, stop |
| Circuits | `src/quantum/qcircuit.c`, `stateN.c` | gate list, amplitudes | read a file, simulate, print OpenQASM |
| Language | `src/lexer`, `src/parser`, `src/compiler`, `src/vm`, `src/qnova.c` | tokens, tree, byte code, machine | lex, parse, compile, run, export |
| Reports | `scripts/qcpu_*.sh` | text files | admission, policy, evidence |

A client thread calls the exchange ioctl. The frontend validates the request, allocates a task with
two references, starts a detached worker and waits for it with a deadline. The worker calls the
backend's exchange callback without the mutex. On a timeout the caller asks the backend to cancel,
waits a little longer (the grace period), and then either takes the result or abandons the task to
the worker, which keeps the device BUSY until the callback returns. Close asks for a cancellation
and waits for BUSY to end. The adapter is such a backend: it connects to the daemon, writes 24
bytes, shuts its writing side down, reads 56 bytes; its cancel callback shuts the socket down. The
daemon serves one connection at a time and runs a GHZ request on a fresh kernel. The script owns the
daemon's PID file and serialises starts and stops with `flock`.

What makes this code hard: the mutex is dropped around every callback and every wait, so each
decision taken before may be stale afterwards; two threads own a task and either may be the last;
a deadline, a cancellation, a disconnect and an answer can come together; descriptor numbers and
process identifiers are reused; a transfer may stop after any byte; the daemon may stall, crash or be
stopped at any step, and so may the script that watches it; gates rewrite a vector in place.
`PROJECT.json` lists these hazards one by one with the properties that watch over them.

## 2. Modules

| Module | Models | Shape |
|---|---|---|
| `QcpuUapi` | records, limits, `qcpu_prevalidate_exchange_locked`, `qcpu_validate_backend_response`, the final classification | operators |
| `QcpuMockFrontend` | the frontend and its workers | state machine, properties, the INSTANCE of `QcpuDevice` |
| `QcpuDevice` | what GET_STATUS lets a client see | abstract state machine |
| `QcpudAdapter` | the adapter with connect, write and read | state machine |
| `QcpuStack` | frontend and adapter together | composition |
| `QcpuDeviceIO` | read_all, write_all, wait_until_ready, byte by byte | state machine |
| `PacketExchange` | a conversation of whole packets | abstract state machine |
| `Qcpud` | the daemon, its clients, signals and crashes | state machine |
| `DeviceLifecycle` | start, stop and status of the script, over `Qcpud` | composition |
| `DeviceProtocol`, `DeviceWire` | statuses, translation, norm; packets as bytes | operators |
| `QcpuKernel` | every function of the kernel | state machine |
| `QuantumRegister` | qubits and gates as a textbook has them | abstract state machine |
| `DeviceService` | a request from client to kernel and back, and the kernel's command line | composition |
| `QCircuit` | circuit files, `stateN` | state machine |
| `BasisStates`, `PowersOfTwo` | bit vectors, their indices, gates on vectors of amplitudes; `1 << n` | operators |
| `OpenQasm`, `Amplitudes` | what an OpenQASM program means; exact amplitudes | operators |
| `Bytecode`, `NovaLanguage` | instructions and qbits; lexer, parser, compiler, tree interpreter | operators |
| `ByteMachine` | the byte VM, the two-qbit VM, the exporter, on any byte code | state machine |
| `ByteVM` | a program from its tokens to its output | composition |
| `FrontendExchangeProofs`, `FrontendSessionProofs`, `QcpuMockFrontendProofs` | the frontend | proofs |
| `QcpudAdapterProofs`, `QcpuStackProofs` | the adapter, alone and behind the frontend | proofs |
| `QcpuDeviceIOProofs`, `QcpudProofs`, `DeviceLifecycleProofs` | the byte-level I/O, the daemon, the script | proofs |
| `MCFrontend`, `MCAdapter`, `MCStack`, `MCNova` | requests, responses, answers and programs for TLC | definitions |

### QcpuMockFrontend

The variables are the fields of `struct qcpu_mock` under their C names, plus `allocated` (the struct
exists), `flock_owner` (the lock file), `task` (heap cells), `worker` (where each worker is), and
`pc` and `local` (where each call is, and its C locals). `admitted` and the `cancels` field of a
task are history. One step is a stretch of code under the mutex, one callback, or one atomic
reference-count update; the model interleaves exactly where the code releases the mutex.

| Action | Code |
|---|---|
| `qcpu_mock_create`, `qcpu_mock_set_backend`, `qcpu_mock_open` | the functions of that name |
| `ExchangeNull`, `ExchangeReject`, `ExchangeNoWorker`, `ExchangeDispatch` | the ways through validation and dispatch |
| `ExchangeWake`, `ExchangeTimeout`, `ExchangeCancel` | the timed wait and the cancel callback after it |
| `ExchangeGrace`, `ExchangeAbandon`, `ExchangeFinish`, `ExchangeRelease` | the grace period, the two ends, the dropped reference |
| `WorkerCall`, `WorkerReturn`, `WorkerDone`, `WorkerRelease` | `qcpu_exchange_worker` |
| `CloseIdle`, `CloseBusy`, `CloseCancel`, `CloseFinish` | `qcpu_mock_close` |
| `DestroyCheck`, `DestroyFree` | `qcpu_mock_destroy`, split where it unlocks |
| `OtherProcess` | another process takes or drops the lock file |

Calls that change nothing (GET_STATUS, GET_CAPS, an EBUSY or EINVAL return) are stuttering steps.
Assumptions on callers: nobody starts a call on a freed struct, or on one a destroy has already
found quiescent (`MayCall`); a struct is created only when no call is running. A timed wait may
return ETIMEDOUT in any state, since a deadline may expire between the signal and the wake-up.
A callback's errors other than -ENODEV, -ETIMEDOUT and -ECANCELED are one case, -EIO, because the
code does not tell them apart.

### QcpudAdapter and QcpuStack

A call is one activation of the exchange callback on its own thread; `at` is where it is. The
descriptor table `file` belongs to the whole process: `OtherUse` opens and closes numbers as other
parts of it would. `expired` says that the call's absolute deadline has passed; the remaining-time
arithmetic is reduced to that. `DaemonAnswers` and `DaemonDrops` are the other end of the socket.
The norm, a double in the code, is an integer in units of 2^-41; rounding, clamping and the
tolerance of 2^-40 are modelled on those units. A connect that finds the backlog full is modelled
by what Linux does: EAGAIN, a socket that polls as writable, `SO_ERROR` 0, a descriptor that is
not connected. A transfer is one step here; `QcpuDeviceIO` justifies that.

In `QcpuStack` the worker's callback is the adapter's call, both cancel sites of the frontend run the
adapter's cancel, and the caller's wait times out only once the deadline that was handed down has
passed.

### QcpuDeviceIO

A client writes a request and reads a response, a daemon reads and writes. `stream` is the socket,
shorter than a packet, `buffer` what a reader has stored, `completed` the counter of each call. A read
or send moves any number of bytes from one up, or none (EAGAIN, EINTR). The monotonic clock has
`TicksPerMs` ticks for each millisecond that the code can see, so that a deadline may fall inside one.
`Signal` interrupts a system call and, for a party with a stop flag, sets it; `Shutdown` is the
adapter's cancel. Code between two system calls takes no time. `PacketsWhole` says that the machine
implements `PacketExchange`, whose steps are those that `QcpudAdapter` and `Qcpud` take.

### Qcpud and DeviceLifecycle

A daemon is one process. `path` is the daemon, dead or alive, whose socket has the name. The
handler runs between two system calls. `Exclusive` states what the lifecycle lock is for: daemons
on one path run one after the other. Without it a second daemon unlinks the socket of the first.

`DeviceLifecycle` EXTENDS the daemon and does without `Exclusive`: the script's commands are what
should bring it about. A command is one process; each of its steps is one look at, or one change of,
the PID file, the socket, the log or a process. The lock is taken by start and stop and not by status
and run-ghz, as in the code. In the code a start or stop is two processes, since `with_lifecycle_lock`
executes `flock -o`, which runs the script again below it; the model has them die together. A kill of
`flock` alone, which frees the lock while the script below it goes on, is outside the model. Any command
may be killed at any step, any daemon may crash, and the
identifier of a daemon that was waited for may be used again by a foreign process, which
`process_matches_qcpud` recognises and `kill -0` does not. `orphaned` is history: the daemons that
one of the two steps named in `RunningIsRecorded` has lost. Commands go on after a loss (see Bounds), and so do the
claims that every daemon is recorded or known to be lost and that commands end; that reports are true and
that a serving daemon keeps its path is claimed until the first loss only. A start that finds a daemon
running (`ALREADY_RUNNING=YES`) reports success for it although it may have been told to stop. The 200 and 100 polling attempts are a
choice: the loop may end at any time.

### QcpuKernel and DeviceService

Amplitudes are integers over a power of the square root of two, which the kernel's gates (H, X, CX)
never leave; so norms and probabilities are exact. The generator is a choice of the draw, at a
resolution that separates all sums. The code multiplies by a rounded 1/sqrt(2) and does not normalise:
`rounded` says that an H was applied since the state was last set, from when on the sum of the squares
may fall short of a draw, which is a second choice. Allocation may fail. `ImplementsRegister` says that
the loops over the array are the gates of `QuantumRegister` with qubit 0 as the most significant bit and
that a measurement finds a state whose amplitude is not 0, with one exception by name:
`MeasuredPastTheSum`, where a draw lies past the rounded sum and the last state is taken.

`DeviceService` sends the requests of the device client, of the frontend's adapter and of programs of
another version as bytes through `DeviceWire`, runs `process_run_ghz` call by call on the kernel, and reads the
response with both readers. A failed initialization returns without freeing (`RunNoKernel`), every later
failure frees first (`RunFailed`). The module also runs `qnova_kernel_cli` and
free sequences of kernel calls.

### QCircuit

A line is a keyword and the integers after it. `ReadLine` is one turn of the loop of `load_circuit`,
`simulate` the whole simulation, with the gates as folds over the vector in the order of the C loops,
`Emit` the OpenQASM output; `StateN` is the program of that name. `shrunk` is history: a later
`qubits` line lowered the count when gates were already recorded. `OpenQasm` defines what the printed program
means, gate by gate on bit vectors, without reference to the loops.

### NovaLanguage, ByteMachine and ByteVM

A program is a syntax tree of the set `Programs`; `Source` writes it as tokens, `parse` and `compile`
are the recursive functions of the code, `execute` is the tree interpreter as a function of the
measured results. The opcodes of the byte VM and of the two-qbit VM are actions. A qbit of the byte VM
is in one of four states, which Hadamard permutes; `rounded` says that its amplitudes are inexact.
`out` is the sequence of things printed. Where the two machines differ by design or a table is full
(links, messages, redeclared or undefined names), `execute` sets `same` to FALSE and the program is
left out of the comparison. So is a check against a number that is not an int: `compile` takes it
through `atoi`, which the model computes at the widths `INT_BITS` and `LONG_BITS` (strtol stops at the
largest long, the rest is cut off), and the tree interpreter through `atof`. A repeat count goes through
`atoi` in both. The array of tokens and the arguments of an instruction (`ARG_CHARS`, 64 in the code) are
written without a look at their end: a program that has more tokens, a longer name or string
(`LongTexts`), or a longer message goes to the stage `overrun`, and what it does there is left open. A
message that fits an argument is shorter than `QMSG_MAX_CHARS`, so its truncation is not reached from a
program. A number has at most 63 digits.

## 3. Runs

| Run | Instance | Shows |
|---|---|---|
| `frontend_safety` | 2 threads, both owners; 2 tasks; 1 backend; counters modulo 2 | one request in flight, session covers callbacks, an abandoned exchange was asked to cancel, the inductive invariant (types, reference counts, BUSY, counting), refinement of `QcpuDevice` |
| `frontend_progress` | 2 threads, 1 owner, 1 task; 4 requests and 7 backend outcomes that take every kind of verdict | no thread inside a freed struct; exchanges return; close returns once admissions end; the reported pairs are those of the documented error map, with the documented state; only a valid, timely, uncanceled answer is completed |
| `frontend_double_close` | 2 owners | **violated**: a waiting close outlives a destroy |
| `frontend_disconnect` | 1 thread | **violated**: a disconnect that comes with a deadline or a cancellation leaves the device IDLE |
| `adapter` | 2 calls, 2 descriptors | own socket only; the inductive invariant (one active call, no leaks, cancellation reported exactly when asked); a cancellation ends every wait |
| `stack` | 2 threads, 1 owner, 1 task, 1 descriptor | not BUSY implies the adapter is unused; BUSY ends whatever the daemon does |
| `device_io` | packets of 3 bytes, socket of 2, timeout of 2 ms, 2 ticks per ms, 2 signals per party | bytes whole and in order, deadline kept from both sides, stop ends a call, refinement of `PacketExchange`, every call returns |
| `daemon` | 2 daemons in turn, 2 clients, backlog 1 | path, queue and connection consistency, clients released, a stop of a ready daemon ends it |
| `lifecycle` | 2 commands at once, 2 daemons | running daemons are recorded, a serving daemon keeps its path, reports of success are true until a daemon is lost, commands end before and after that |
| `service` | widths 0 to 3 and 21, 0 to 2 and 101 shots, 2 seeds | packets arrive as sent, runs in range succeed, both clients agree, memory is released, the kernel implements `QuantumRegister` but for `MeasuredPastTheSum` |
| `circuit` | 3 qubits, 4 gates, 4 lines, operands inside and outside | the simulation is what the printed OpenQASM means; GHZ states |
| `language` | 27,492 sources: nested, quantum, two-qbit and message programs, numbers and texts at and beyond every limit, whole and one token short | byte VM against tree interpreter, linked pairs, fresh messages, two-qbit VM against exported OpenQASM, programs end |

The violated properties quote documents of the repository; the findings in `PROJECT.json` give the
quotation, the line of code and the explanation.

Bounds. Two threads are enough for every pair of calls to overlap, and with two owners for two
closes or a close and a destroy to race; two tasks let an abandoned one linger beside a running
one. Counters modulo 2 wrap constantly. One backend is enough because attaching is only compared
with "none". Two calls and two descriptors let a number be reused, by the other call or by the rest
of the process. A packet of three bytes over a socket of two cannot pass in one piece, and has a
first, a middle and a last byte; a timeout of two milliseconds leaves one whole one after an
interruption. Two daemons give one crash and one restart; a backlog of 1 with two clients is
full, empty and shared. Two commands let any two overlap; once a daemon has been
lost TLC begins only stop and status, one at a time (`FewAfterLoss`; without it the run has 1,064,012
states and passes too, and the theorems hold either way). Width 3 has a first, a middle and a last
qubit; 21 and 101 are the first values out of range. Programs that call the kernel freely measure
registers of at most two qubits (`MaxSampled`), the daemon and the tool those of every width. Four
lines hold a declaration, two gates and a redeclaration. Program limits (2 variables, 3 qbits, 2 repeats, 60 tokens, 4 characters to an
argument, an int of 3 bits and a long of 5) are small enough for programs to exceed them. The four
requests and seven outcomes of `frontend_progress` are one of each kind of verdict; the two properties
about verdicts are proved for all of them. `Symmetry` permutes tasks in the safety run only, where no liveness is
checked. Deadlock is checked except in `circuit` and `language`, whose programs end.

Fairness. A thread inside a call is scheduled and its timed waits expire (`ThreadFairness`); this
includes the cancel callback, which in the adapter only takes a mutex and calls `shutdown`.
Clients are not assumed to call, nor backends to answer: `CloseReturns` has "the callbacks return" as
a premise, which the `stack` run discharges for the adapter from its deadline.
Nothing is assumed about who gets the mutex. The wait of close has no deadline and does not
stop new exchanges from being admitted, so a client that exchanges again and again can overtake it for
ever; that is why the other premise of `CloseReturns` is that admissions come to an end
(`AdmissionsEnd`). In the adapter only the calling thread is fair, in the stack also the clock, in the
daemon only its own steps (a read without a request ends after two seconds). In `QcpuDeviceIO` a
runnable process runs and time passes while everyone sleeps; in `DeviceLifecycle` commands and daemons
run, and nothing makes a command begin, a client connect or a process identifier be reused. The
virtual machine takes its next step.

## 4. Proofs

All theorems hold for arbitrary sets of threads, owners, tasks, backends, calls, descriptors, daemons,
clients and commands, and for packets, sockets, backlogs and timeouts of any size, under the named
assumptions of the modules: constants of the right type; a null that is no task, daemon or command; a
counter modulus above 1; packet, socket, timeout and tick sizes and backlog above 0. The properties are
not inductive by themselves; each part below says what had to be added.

**Frontend.** `ReferencesCounted`, for instance, survives the caller's release only if a thread about
to release is the only one with that task and if the task, when it is still active, was abandoned to a
live worker. `IInv` joins the safety properties and adds three conjuncts:

* `CallerOwnsTask`: a waiting caller owns the active task; a releasing one has settled or abandoned
  it; no two callers use one task.
* `WorkerOwnsTask`: a worker in its callback owns the active task, and the active task always has
  somebody who will settle it, its caller or (once abandoned) its worker.
* `SessionOwnsLock`: BUSY needs a session, a session holds the lock and a live struct; only owners
  are inside close and destroy; at most one destroy is past its check, with no session open.

`FrontendExchangeProofs` (with the frame lemmas for the conjuncts an action does not touch) and
`FrontendSessionProofs` have one lemma for each action with one step for each conjunct.
`QcpuMockFrontendProofs` concludes

* `Invariance`, `TypeCorrect`, `OneInFlightHolds`, `SessionCoversCallbackHolds`,
  `ReferencesCountedHolds`, `BusyIsActiveTaskHolds`, `CountedOnceHolds`;
* `NoUseAfterFreeHolds`, which assumes that at most one thread opens, closes and destroys
  (`SingleOwner`). The run `frontend_double_close` shows that the assumption is needed;
* `FrontendImplementsDevice`: each step is a step of `QcpuDevice` or a stutter;
* `AbandonedWasAskedHolds`. Two threads may be the one that asks, the caller and a close, and the flag
  `cancel_sent` is set before the mutex is dropped and the callback made. `AskedInv` says that once
  it is set the backend has been called or somebody is about to call it, and that a caller past its
  deadline finds it set;
* `CompletedIsValidHolds` and `ResultAgreesHolds`, the two action properties, from what the
  validation and the classification return (`ClassifyAccepts`, `ClassifyMapped`,
  `PrevalidateMapped`) and from `IInv`, by which the task that is classified is the caller's own.

**Adapter.** `AdapterInv` joins `ActiveCall`, `OnlyOwnSocketShut`, `DescriptorsOwned` and
`CanceledIffAsked` with `StructInv`: `active_fd` is the descriptor of the active call from
register to finish and none otherwise, and `cancel_requested` says whether that call was canceled.
That is what a cancel needs in order to shut down the right socket, and it holds because finish clears
`active_fd` under the mutex before the descriptor is closed. `QcpudAdapterProofs` proves
`AdapterInvariance` and the four properties from it.

**Stack.** `QcpuStackProofs` uses both invariants as they are: `StackInv` is `IInv`, the `AdapterInv`
of an instance of `QcpudAdapterProofs` with tasks as calls, and `Coupled`, by which a task's call is
inside the adapter exactly while its worker is to make it or is making it. Every step of the stack is
a step or a stutter of each component (the worker returns what the adapter produced, a well-formed
outcome), so the components' step lemmas are cited and only `Coupled` is proved anew
(`StackInvariance`). One active task then means one call, which gives
`AdapterQuiescentHolds` and `NeverRefusedHolds`: the adapter's -EBUSY is dead code behind this frontend.
`StackImplementsDevice` carries the refinement over, since the worker's callback is hidden from clients.

**Device I/O.** `IOInv` says where each call may be (`CallInv`), which byte is where (`DataInv`, the
property index by index instead of as an equation of sequences), that no system call was made since the
stop flag unless the flag is looked at next (`StopInv`), and what time is left (`TimeInv`). The last
is the delicate one: the ticks slept and the milliseconds left add up to the timeout to within the part
of a millisecond that the clock hides, and it is kept by a tick, by `poll` rounding and by the
recomputation after an interruption. `QcpuDeviceIOProofs` proves `IOInvariance`,
`NothingLostOrReorderedHolds`, `StopEndsCallHolds`, `DeadlineKeptHolds` and, each transfer mapped to a
step or a stutter of `PacketExchange`, `PacketsWholeHolds`. This is what justifies transfers of one step
in `QcpudAdapter` and `Qcpud`.

**Daemon.** `PathInv` says at each step of `main()` whether the path is the daemon's own, nobody's or
a dead predecessor's; it needs `Exclusive`. `ServerInv` says that a daemon holds a connection exactly
from accept to close and adds it to `OneServer`, which alone does not say which daemon closes it.
`QcpudProofs` proves `DaemonTypeCorrect`, `PathInvariance`, `ReachableWhileReadyHolds`,
`StaleSocketReplacedHolds`, `ExitUnlinksHolds` (these four from `Exclusive`), `ServerInvariance` and
`OneServerHolds`.

**Script.** `LifecycleInv` has the lock held by the one start or stop under way (`LockInv`), identifiers
given away only after their daemon ended (`ProcessInv`), what the holder of the lock knows of the PID
file, which only a status can have removed since (`FileInv`), every running daemon recorded, being
started or lost (`KnownInv`), what the log says of a daemon being started (`ReadyInv`), and, while none is
lost, the daemon's own `PathInv`. So what `QcpudProofs` takes as the assumption `Exclusive` follows here
from the script. `DeviceLifecycleProofs` proves `LifecycleInvariance`, `RunningIsRecordedHolds`,
`ServedPathKeptHolds` and `VerdictsTrueHold`.

Only model-checked: all liveness (the prover has no support for fairness), and everything about the
service with its kernel, circuits and the language. Those modules compute with recursive definitions
over data (amplitudes, syntax trees), for which the prover has no induction and whose RECURSIVE
operators it does not accept.

## 5. Observations without a run

Device stack:

* `qcpu_mock_close` drops the mutex between deciding to cancel and calling cancel. The exchange it
  meant may end and another begin in the gap; that one is then canceled, and may receive its own cancel
  as well (`docs/QCPU_V47_STAGE2_USERSPACE_MOCK_TEST_PLAN.md:328`: "at most once").
* An exchange whose backend ignores the cancellation returns ETIMEDOUT with BUSY still set; the
  design document (`docs/QCPU_V47_STAGE2_USERSPACE_MOCK_DESIGN.md:293`) says that a timeout releases BUSY.
* A close that waits for BUSY can be overtaken for ever by exchanges of other threads, also after it has
  canceled one (line 297 there: "cancellation releases BUSY; close then releases the session").
* A close that waited may release a session that another thread has opened since.
* After a disconnect the backend stays registered, so the next exchange takes the device from
  OFFLINE straight to BUSY; the design document's state diagram has no such edge.
* An exchange for which no task or worker could be created is counted as failed although it was
  never dispatched; the design document counts dispatched requests only.
* A cancellation that arrives after the worker has started and before `qcpu_adapter_begin` is
  cleared by it and lost. The deadline then ends the exchange (`StackBusyEnds`).
* A daemon that stalls until its backlog is full makes the next call fail with -EIO at once instead of
  timing out (`docs/QCPU_V47_STAGE2B_QCPUD_ADAPTER.md:46`: "Backend stalls return a bounded
  `ETIMEDOUT`").
* A SIGTERM between the installation of the handlers and READY sets the flag and closes nothing: the
  daemon waits in accept() until a client connects (`docs/QCPU_VIRTUAL_DEVICE_LAYER.md:120`: "graceful
  `SIGTERM` shutdown"). A start command that gave up on it waits too, with
  the lifecycle lock held; `CommandsEnd` has to except this case.
* The UAPI header says that a timeout must be clamped; the frontend rejects a long one, as its own
  comment and the design document say it should.
* A command taken as one process, the script loses a daemon in two ways only: status removes, without the
  lock, a PID file that a start has just replaced; or a start is killed between the launch and the renaming
  of the PID file. A kill of `flock` alone, outside the model, would be a third. Once a daemon is lost a
  start can run a second one, take the path from the first and read the first one's READY in the log.

Kernel: H leaves the squares of the amplitudes adding up to slightly more or less than 1 (two H on one
qubit give 0.9999999999999998 as the amplitude), and a draw past the sum measures the last state whatever
its amplitude. A GHZ state has its last amplitude nonzero, so the daemon and the command line never
see this; other programs over the kernel may.

Circuits: a second, smaller `qubits` line leaves gates outside the register, whose shift is then
negative; `cx a a` is accepted, refused by the simulation and printed by `--qasm`; `swap a a` does
nothing in the simulation and is printed as a gate on one qubit twice, which the meaning takes as nothing; the measurement
takes place at the end wherever `measure` stands; a draw of exactly 0 picks index 0 even if its
amplitude is 0.

Language: an unclosed block or a truncated statement makes the parser step over EOF and read unused
tokens; `otherwise` and the block of `action` are in `docs/NOVA_GRAMMAR_v0.1.ebnf` but not in the
parser; the tables of the tree interpreter, the arrays of tokens and instructions and the arguments of
an instruction are not checked for their limits; a check against a number beyond int compares with
another number in the byte VM than in the tree interpreter; undefined names and redeclared qbits behave differently in the two machines; linking a qbit
that already has a partner leaves the old partner pointing at it (`PairsAgree` excepts this); the
two-qbit VM ignores declared initial states, prints the old bit after a measurement and a further
gate, and the exporter ignores initial states, check and repeat.

## 6. Not modelled

The path, ownership and permission checks of create, of the daemon and of the script, text fields,
logging and printing; create and destroy of the adapter; parsing of command-line numbers; the lexer's
loop over characters and the saving and loading of byte code; `drag.c`, which prints lines; the report
scripts, which share no state. Floating point appears only where the code depends on it: the norm's
conversion and the rounding of cumulative sums. The generator's sequence of draws is any sequence.
`PROJECT.json` has a line for each part.

## 7. Plan

1. `NothingHeld` and `InRangeSucceeds` of `DeviceService` as theorems, which needs the kernel's control
   in a module apart from its amplitudes.
2. The pipeline of `qcircuit.c` composed with the device client, if the device learns to run circuits.
