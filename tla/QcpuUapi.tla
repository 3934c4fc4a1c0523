------------------------------ MODULE QcpuUapi ------------------------------
(***************************************************************************)
(* The UAPI records of include/uapi/qcpu_device_uapi.h and the pure        *)
(* validation code of src/device/qcpu_mock_frontend.c: which requests are  *)
(* admitted, which backend responses are accepted, and the (errno, status) *)
(* pair every other case is reported with.                                 *)
(*                                                                         *)
(* A magic, version or flags word is the BOOLEAN "it has the value the     *)
(* protocol requires".  Times and the Q32.32 norm are natural numbers in   *)
(* units chosen by the model: their limits are constants here because the  *)
(* C values (5 * 10^9 ns, 2^32) do not fit TLC's integers.                 *)
(***************************************************************************)
EXTENDS Naturals, PowersOfTwo

CONSTANTS
    DefaultTimeout,  \* QCPU_MOCK_DEFAULT_TIMEOUT_NS
    MaxTimeout,      \* QCPU_MOCK_MAX_TIMEOUT_NS
    NormOne          \* UINT64_C(1) << 32, the Q32.32 encoding of 1.0

ASSUME UapiAssumption ==
    /\ DefaultTimeout \in Nat
    /\ MaxTimeout \in Nat
    /\ DefaultTimeout <= MaxTimeout
    /\ NormOne \in Nat

MaxQubits == 20
MaxShots == 100

Statuses ==
    {"OK", "BAD_MAGIC", "BAD_VERSION", "BAD_COMMAND", "RANGE", "KERNEL", "IO",
     "BACKEND_ABSENT", "BUSY", "TIMEOUT", "CANCELED"}

DeviceStates == {"OFFLINE", "IDLE", "BUSY"}

Errnos ==
    {"0", "EPROTO", "EPROTONOSUPPORT", "EOPNOTSUPP", "ERANGE", "EINVAL", "EIO",
     "ENODEV", "EBUSY", "ETIMEDOUT", "ECANCELED", "ENOMEM", "EAGAIN"}

Request ==
    [magic : BOOLEAN, version : BOOLEAN,
     command : {"STATUS", "RUN_GHZ", "UNSUPPORTED"}, qubits : Nat, shots : Nat]

Response ==
    [magic : BOOLEAN, version : BOOLEAN, status : Statuses \cup {"UNKNOWN"},
     flags : BOOLEAN, qubits : Nat, shots : Nat, basis_states : Nat,
     measured_state : Nat, invalid_results : Nat, norm_q32_32 : Nat]

Exchange == [request : Request, timeout : Nat]

\* What clock_gettime() and the deadline addition can do: succeed, fail, or
\* leave less than the timeout below UINT64_MAX.
ClockReadings == {"ok", "failed", "near_max"}

\* A verdict is what qcpu_record_result_locked() is given.
Verdict == [errno : Errnos, status : Statuses]

V(e, s) == [errno |-> e, status |-> s]

Accepted == V("0", "OK")

qcpu_status_to_errno(status) ==
    CASE status = "OK"             -> "0"
      [] status = "BAD_MAGIC"      -> "EPROTO"
      [] status = "BAD_VERSION"    -> "EPROTONOSUPPORT"
      [] status = "BAD_COMMAND"    -> "EOPNOTSUPP"
      [] status = "RANGE"          -> "ERANGE"
      [] status = "BACKEND_ABSENT" -> "ENODEV"
      [] status = "BUSY"           -> "EBUSY"
      [] status = "TIMEOUT"        -> "ETIMEDOUT"
      [] status = "CANCELED"       -> "ECANCELED"
      [] OTHER                     -> "EIO"

qcpu_status_known(status) == status \in Statuses

RequestInRange(r) ==
    IF r.command = "STATUS"
    THEN r.qubits = 0 /\ r.shots = 0
    ELSE r.qubits \in 1..MaxQubits /\ r.shots \in 1..MaxShots

EffectiveTimeout(x) == IF x.timeout = 0 THEN DefaultTimeout ELSE x.timeout

\* qcpu_prevalidate_exchange_locked(): the first failing check decides.
qcpu_prevalidate_exchange(x, clock, session_open, busy, attached) ==
    IF ~session_open THEN V("EBUSY", "BUSY")
    ELSE IF ~x.request.magic THEN V("EPROTO", "BAD_MAGIC")
    ELSE IF ~x.request.version THEN V("EPROTONOSUPPORT", "BAD_VERSION")
    ELSE IF x.request.command = "UNSUPPORTED" THEN V("EOPNOTSUPP", "BAD_COMMAND")
    ELSE IF ~RequestInRange(x.request) THEN V("ERANGE", "RANGE")
    ELSE IF EffectiveTimeout(x) > MaxTimeout THEN V("ERANGE", "RANGE")
    ELSE IF clock = "failed" THEN V("EIO", "IO")
    ELSE IF clock = "near_max" THEN V("ERANGE", "RANGE")
    ELSE IF busy THEN V("EBUSY", "BUSY")
    ELSE IF ~attached THEN V("ENODEV", "BACKEND_ABSENT")
    ELSE Accepted

\* Mutant: the echo of qubits and shots is not compared with the request.
ValidateWithoutEcho(request, response) ==
    IF ~response.magic \/ ~response.version \/ ~qcpu_status_known(response.status)
    THEN V("EIO", "IO")
    ELSE IF response.status # "OK"
    THEN V(qcpu_status_to_errno(response.status), response.status)
    ELSE IF ~response.flags THEN V("EIO", "IO")
    ELSE IF \/ response.norm_q32_32 > NormOne
            \/ /\ request.command = "RUN_GHZ"
               /\ \/ response.basis_states # Pow2[request.qubits]
                  \/ response.measured_state \notin {0, Pow2[request.qubits] - 1}
                  \/ response.invalid_results # 0
    THEN V("EIO", "KERNEL")
    ELSE Accepted

\* qcpu_validate_backend_response(): *offline is set by BACKEND_ABSENT alone,
\* so a verdict says it too.
qcpu_validate_backend_response(request, response) ==
    IF \/ ~response.magic
       \/ ~response.version
       \/ ~qcpu_status_known(response.status)
    THEN V("EIO", "IO")
    ELSE IF response.status # "OK"
    THEN V(qcpu_status_to_errno(response.status), response.status)
    ELSE IF \/ ~response.flags
            \/ response.qubits # request.qubits
            \/ response.shots # request.shots
    THEN V("EIO", "IO")
    ELSE IF \/ response.norm_q32_32 > NormOne
            \/ /\ request.command = "RUN_GHZ"
               /\ \/ response.basis_states # Pow2[request.qubits]
                  \/ response.measured_state \notin {0, Pow2[request.qubits] - 1}
                  \/ response.invalid_results # 0
    THEN V("EIO", "KERNEL")
    ELSE Accepted

\* What the exchange callback returned, with the response it filled in.
BackendOutcome ==
    [result : {"0", "-ENODEV", "-ETIMEDOUT", "-ECANCELED", "-EIO"},
     response : Response]

\* The calloc()ed contents of a task that has not run.
ZeroRequest ==
    [magic |-> FALSE, version |-> FALSE, command |-> "UNSUPPORTED", qubits |-> 0, shots |-> 0]

ZeroOutcome ==
    [result |-> "0",
     response |-> [magic |-> FALSE, version |-> FALSE, status |-> "OK", flags |-> FALSE,
                   qubits |-> 0, shots |-> 0, basis_states |-> 0, measured_state |-> 0,
                   invalid_results |-> 0, norm_q32_32 |-> 0]]

\* Mutant: a callback error is reported as EIO whatever status came with it.
ClassifyAlwaysEio(timed_out, canceled, request, outcome) ==
    IF timed_out THEN V("ETIMEDOUT", "TIMEOUT")
    ELSE IF canceled \/ outcome.result = "-ECANCELED" THEN V("ECANCELED", "CANCELED")
    ELSE IF outcome.result = "-ENODEV" THEN V("ENODEV", "BACKEND_ABSENT")
    ELSE IF outcome.result = "-ETIMEDOUT" THEN V("ETIMEDOUT", "TIMEOUT")
    ELSE IF outcome.result = "0"
    THEN qcpu_validate_backend_response(request, outcome.response)
    ELSE IF qcpu_status_known(outcome.response.status) /\ outcome.response.status # "OK"
    THEN V("EIO", outcome.response.status)
    ELSE V("EIO", "IO")

\* The classification at the end of qcpu_exchange_ioctl(), in its order: the
\* deadline, then a cancellation, then what the backend returned.
Classify(timed_out, canceled, request, outcome) ==
    IF timed_out THEN V("ETIMEDOUT", "TIMEOUT")
    ELSE IF canceled \/ outcome.result = "-ECANCELED" THEN V("ECANCELED", "CANCELED")
    ELSE IF outcome.result = "-ENODEV" THEN V("ENODEV", "BACKEND_ABSENT")
    ELSE IF outcome.result = "-ETIMEDOUT" THEN V("ETIMEDOUT", "TIMEOUT")
    ELSE IF outcome.result = "0"
    THEN qcpu_validate_backend_response(request, outcome.response)
    ELSE IF qcpu_status_known(outcome.response.status) /\ outcome.response.status # "OK"
    THEN V(qcpu_status_to_errno(outcome.response.status), outcome.response.status)
    ELSE V("EIO", "IO")
=============================================================================
