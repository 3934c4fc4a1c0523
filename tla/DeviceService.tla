--------------------------- MODULE DeviceService ----------------------------
(***************************************************************************)
(* What is computed for one request, from end to end: the bytes a client   *)
(* writes, process_request() of src/device/qcpud.c on the kernel of        *)
(* QcpuKernel, the bytes of the answer, and what the two kinds of client   *)
(* make of them: src/tools/qnova_device_client.c, and the adapter with the *)
(* validation of the frontend.  src/tools/qnova_kernel_cli.c runs the same *)
(* kernel calls in its own process.  A step is a call that can fail.       *)
(***************************************************************************)
EXTENDS QcpuKernel, DeviceWire

CONSTANTS
    RequestedShots,   \* values of shots in requests to the daemon
    Seeds             \* values of seed that callers pass

\* The types of the fields: uint32_t, and uint64_t for the seed and the norm.
ASSUME ServiceAssumption ==
    /\ \A n \in Widths \cup RequestedShots : Fits(n, 4)
    /\ \A seed \in Seeds : Fits(seed, 8)
    /\ Fits(NormOne * NormUnits, 8)

VARIABLES
    user,       \* whose calls these are: "library" for any other program
    at,         \* where the daemon, or the command line tool, is
    request,    \* what the client asked for
    wire,       \* the bytes on the connection
    served,     \* what the daemon decoded
    response,   \* what the daemon answers
    invalid_results,
    exit        \* the exit status of the command line tool

exchangeVars == <<request, wire, served, response>>
serviceVars == <<user, at, exchangeVars, invalid_results, exit>>

NoRequest == [magic |-> 0, version |-> 0, command |-> 0, qubits |-> 0, shots |-> 0, seed |-> 0]

\* response_init: every flag is set.
response_init ==
    [magic |-> QCPU_DEVICE_RESPONSE_MAGIC, version |-> QCPU_DEVICE_PROTOCOL_VERSION,
     status |-> 0, flags |-> 15, qubits |-> 0, basis_states |-> 0, shots |-> 0,
     measured_state |-> 0, invalid_results |-> 0, norm |-> 0]

QCPU_DEVICE_MAX_QUBITS == 20
QCPU_DEVICE_MAX_SHOTS == 100

AtRest ==
    /\ at = "rest" /\ request = NoRequest /\ wire = << >> /\ served = NoRequest
    /\ response = response_init /\ invalid_results = 0 /\ exit = "none" /\ status = "OK"

ServiceInit ==
    /\ KernelInit /\ AtRest
    /\ user \in {"library", "device_client", "frontend", "anybody", "kernel_cli"}

-----------------------------------------------------------------------------
(* The clients.                                                            *)

Asks(command, qubits, shots, seed) ==
    [magic |-> QCPU_DEVICE_REQUEST_MAGIC, version |-> QCPU_DEVICE_PROTOCOL_VERSION,
     command |-> command, qubits |-> qubits, shots |-> shots, seed |-> seed]

\* parse_unsigned refuses what is above the maximum, but not zero.
ClientRequests ==
    {Asks(1, 0, 0, 0)} \cup
    {Asks(2, n, s, seed) : n \in {w \in Widths : w <= QCPU_DEVICE_MAX_QUBITS},
                           s \in {x \in RequestedShots : x <= QCPU_DEVICE_MAX_SHOTS}, seed \in Seeds}

\* What qcpu_prevalidate_exchange admits.
AdmittedRequests ==
    {r \in [magic : {TRUE}, version : {TRUE}, command : {"STATUS", "RUN_GHZ"},
            qubits : Widths, shots : RequestedShots] : RequestInRange(r)}

qcpu_adapter_translate_request(r, seed) ==
    Asks(IF r.command = "STATUS" THEN 1 ELSE 2, r.qubits, r.shots, seed)

\* A program of some other version: packets the daemon must refuse.
ForeignRequests ==
    {[Asks(2, 1, 1, 0) EXCEPT !.magic = 0], [Asks(2, 1, 1, 0) EXCEPT !.version = 256],
     Asks(3, 1, 1, 0)} \cup {Asks(2, n, s, 0) : n \in Widths, s \in RequestedShots}

RequestsOf(u) ==
    CASE u = "device_client" -> ClientRequests
      [] u = "frontend" -> {qcpu_adapter_translate_request(r, seed) :
                              r \in AdmittedRequests, seed \in Seeds}
      [] u = "anybody" -> ForeignRequests
      [] OTHER -> {}

Send(r) ==
    /\ at = "rest" /\ r \in RequestsOf(user)
    /\ request' = r
    /\ wire' = qcpu_device_encode_request(r)
    /\ at' = "decode"
    /\ UNCHANGED <<kernelVars, user, served, response, invalid_results, exit>>

-----------------------------------------------------------------------------
(* The daemon: serve_connection, process_request and process_run_ghz.      *)

Answered(code) == [response_init EXCEPT !.status = StatusCode(code)]

InRange(r) == r.qubits \in 1..QCPU_DEVICE_MAX_QUBITS /\ r.shots \in 1..QCPU_DEVICE_MAX_SHOTS

process_request ==
    /\ at = "decode"
    /\ LET decoded == qcpu_device_decode_request(wire)
           r == decoded.request
           code == IF decoded.status # "OK" THEN decoded.status
                   ELSE IF r.command \notin {1, 2} THEN "BAD_COMMAND"
                   ELSE IF r.command = 2 /\ ~InRange(r) THEN "RANGE" ELSE "OK"
       IN  /\ served' = r
           /\ response' = Answered(code)
           /\ at' = IF code = "OK" /\ r.command = 2 THEN "init" ELSE "reply"
    /\ UNCHANGED <<kernelVars, user, request, wire, invalid_results, exit>>

\* A kernel call whose status decides how process_run_ghz goes on.
Then(from, Call, to, otherwise) ==
    /\ at = from
    /\ Call
    /\ at' = IF status' = "OK" THEN to ELSE otherwise
    /\ UNCHANGED <<user, exchangeVars, exit>>

RunInit ==
    /\ Then("init", qcpu_kernel_init(served.qubits), "ghz", "no_kernel")
    /\ UNCHANGED invalid_results

RunGhz ==
    /\ Then("ghz", qcpu_kernel_apply_ghz, "validate", "failed")
    /\ UNCHANGED invalid_results

RunValidate ==
    /\ Then("validate", qcpu_kernel_validate, "shots", "failed")
    /\ UNCHANGED invalid_results

RunShots ==
    /\ Then("shots", qcpu_kernel_run_shots(served.shots), "measure", "failed")
    /\ UNCHANGED invalid_results

\* Mutant: the state of all ones counts as invalid.
InvalidBeyondZero ==
    Sums([i \in DOMAIN result.counts |-> IF i = 0 THEN 0 ELSE result.counts[i]],
         state_count(kernel))[state_count(kernel)]

\* The shots that are neither of the two states of a GHZ register.
Invalid ==
    Sums([i \in DOMAIN result.counts |->
            IF i \in {0, state_count(kernel) - 1} THEN 0 ELSE result.counts[i]],
         state_count(kernel))[state_count(kernel)]

RunMeasure ==
    /\ user # "kernel_cli"
    /\ Then("measure", qcpu_kernel_measure, "done", "failed")
    /\ invalid_results' = Invalid

\* A failed init is answered at once: nothing is freed on this path.
RunNoKernel ==
    /\ at = "no_kernel" /\ user # "kernel_cli"
    /\ response' = Answered("KERNEL")
    /\ at' = "reply"
    /\ UNCHANGED <<kernelVars, user, request, wire, served, invalid_results, exit>>

FreeAll == kernel' = Zeroed /\ result' = NoResult /\ UNCHANGED status

\* Mutant: the error path returns without freeing.
RunFailedLeaks ==
    /\ at = "failed" /\ user # "kernel_cli"
    /\ response' = Answered("KERNEL")
    /\ at' = "reply"
    /\ UNCHANGED <<kernelVars, user, request, wire, served, invalid_results, exit>>

RunFailed ==
    /\ at = "failed" /\ user # "kernel_cli"
    /\ FreeAll
    /\ response' = Answered("KERNEL")
    /\ at' = "reply"
    /\ UNCHANGED <<user, request, wire, served, invalid_results, exit>>

\* The norm is taken after the measurement.
RunDone ==
    /\ at = "done" /\ user # "kernel_cli"
    /\ response' = [response_init EXCEPT
                      !.qubits = served.qubits, !.basis_states = state_count(kernel),
                      !.shots = served.shots, !.measured_state = kernel.measured_state,
                      !.invalid_results = invalid_results,
                      !.norm = (Cumulative(kernel)[state_count(kernel)] * NormOne * NormUnits)
                                 \div Pow2[kernel.half]]
    /\ FreeAll
    /\ at' = "reply"
    /\ UNCHANGED <<user, request, wire, served, invalid_results, exit>>

Reply ==
    /\ at = "reply"
    /\ wire' = qcpu_device_encode_response(response)
    /\ at' = "answered"
    /\ UNCHANGED <<kernelVars, user, request, served, response, invalid_results, exit>>

-----------------------------------------------------------------------------
(* What the clients make of the answer.                                    *)

\* The exit status of qnova_device_client.
DeviceClientPasses ==
    LET decoded == qcpu_device_decode_response(wire)
    IN  decoded.status = "OK" /\ decoded.response.status = StatusCode("OK")

ReceivedFrame ==
    LET r == qcpu_device_decode_response(wire).response
    IN  [magic |-> r.magic = QCPU_DEVICE_RESPONSE_MAGIC,
         version |-> r.version = QCPU_DEVICE_PROTOCOL_VERSION,
         status |-> StatusName(r.status), flags |-> r.flags = 15, qubits |-> r.qubits,
         shots |-> r.shots, basis_states |-> r.basis_states,
         measured_state |-> r.measured_state, invalid_results |-> r.invalid_results,
         norm |-> r.norm]

\* The adapter's translation, and the frontend's classification of it.
FrontendVerdict ==
    Classify(FALSE, FALSE,
             [ZeroRequest EXCEPT !.command = IF request.command = 1 THEN "STATUS" ELSE "RUN_GHZ",
                                 !.qubits = request.qubits, !.shots = request.shots],
             Answer(ReceivedFrame))

Receive ==
    /\ at = "answered"
    /\ at' = "rest" /\ request' = NoRequest /\ wire' = << >> /\ served' = NoRequest
    /\ response' = response_init /\ invalid_results' = 0 /\ status' = "OK"
    /\ UNCHANGED <<kernel, result, user, exit>>

-----------------------------------------------------------------------------
(* qnova_kernel_cli: any numbers, which the kernel itself must refuse.     *)

CliArguments(n, shots) ==
    /\ at = "rest" /\ user = "kernel_cli" /\ exit = "none"
    /\ served' = Asks(2, n, shots, 0)
    /\ at' = "init"
    /\ UNCHANGED <<kernelVars, user, request, wire, response, invalid_results, exit>>

CliCount ==
    /\ at = "measure" /\ user = "kernel_cli" /\ result # NoResult
    /\ invalid_results' = Invalid
    /\ qcpu_shot_result_free
    /\ UNCHANGED <<user, at, exchangeVars, exit>>

CliMeasure ==
    /\ user = "kernel_cli" /\ result = NoResult
    /\ Then("measure", qcpu_kernel_measure, "done", "failed")
    /\ UNCHANGED invalid_results

CliNoKernel ==
    /\ at = "no_kernel" /\ user = "kernel_cli"
    /\ exit' = "failure"
    /\ at' = "rest"
    /\ UNCHANGED <<kernelVars, user, exchangeVars, invalid_results>>

CliExit ==
    /\ at \in {"failed", "done"} /\ user = "kernel_cli"
    /\ exit' = IF /\ at = "done" /\ invalid_results = 0
                  /\ kernel.measured_state \in {0, state_count(kernel) - 1}
               THEN "success" ELSE "failure"
    /\ at' = "rest"
    /\ qcpu_kernel_free
    /\ UNCHANGED <<user, exchangeVars, invalid_results>>

\* The process is over.
CliOver == exit # "none" /\ UNCHANGED <<kernelVars, serviceVars>>

-----------------------------------------------------------------------------
LibraryCall == user = "library" /\ KernelNext /\ UNCHANGED serviceVars

ServiceNext ==
    \/ LibraryCall
    \/ \E r \in RequestsOf(user) : Send(r)
    \/ process_request \/ RunInit \/ RunGhz \/ RunValidate \/ RunShots \/ RunMeasure
    \/ RunNoKernel \/ RunFailed \/ RunDone \/ Reply \/ Receive
    \/ \E n \in Widths, shots \in Shots : CliArguments(n, shots)
    \/ CliNoKernel \/ CliCount \/ CliMeasure \/ CliExit \/ CliOver

ServiceSpec == ServiceInit /\ [][ServiceNext]_<<kernelVars, serviceVars>>

-----------------------------------------------------------------------------
(* Properties.                                                             *)

\* Packets arrive as they were sent: the daemon serves the request the client
\* composed, and the client reads the response the daemon composed.
PacketsAgree ==
    /\ at \notin {"rest", "decode"} /\ user # "kernel_cli" => served = request
    /\ at = "answered" => qcpu_device_decode_response(wire).response = response

\* A run in range succeeds for every measurement, unless memory runs out, although
\* each party tests the ranges for itself: the frontend accepts the answer to every
\* request that it admits, and the command line tool sees only states of a GHZ
\* register, in spite of rounding.
InRangeSucceeds ==
    /\ at = "answered" /\ user = "frontend" =>
         FrontendVerdict = IF status = "ALLOC" THEN V("EIO", "KERNEL") ELSE Accepted
    /\ exit = "failure" => status \in {"RANGE", "ARGUMENT", "ALLOC"}

\* The command line client, which looks at the status alone, passes exactly
\* the answers that the frontend, which validates every field, accepts.
ClientsAgree ==
    at = "answered" /\ request.command \in {1, 2} =>
        (DeviceClientPasses <=> FrontendVerdict = Accepted)

\* Between two requests the daemon holds no memory of the kernel, whichever
\* call failed, and neither does the command line tool when it exits.
NothingHeld ==
    user # "library" /\ at \in {"rest", "reply", "answered"} =>
        kernel = Zeroed /\ result = NoResult

=============================================================================
