--------------------------- MODULE DeviceProtocol ---------------------------
(***************************************************************************)
(* The daemon's protocol (src/device/qcpu_device_protocol.h) and its       *)
(* translation to and from the UAPI in src/device/qcpu_qcpud_adapter.c.    *)
(***************************************************************************)
EXTENDS Integers, QcpuUapi

DeviceStatuses == {"OK", "BAD_MAGIC", "BAD_VERSION", "BAD_COMMAND", "RANGE", "KERNEL", "IO"}

\* An answer of the daemon, decoded.  The norm is a double, counted in units
\* of 2^-41 when NormOne stands for 2^32; negative also stands for not finite.
Frame ==
    [magic : BOOLEAN, version : BOOLEAN, status : DeviceStatuses \cup {"UNKNOWN"},
     flags : BOOLEAN, qubits : Nat, shots : Nat, basis_states : Nat,
     measured_state : Nat, invalid_results : Nat, norm : Int]

qcpu_adapter_status(status) == IF status \in DeviceStatuses THEN status ELSE "IO"

qcpu_adapter_status_result(status) ==
    CASE status = "OK"          -> "0"
      [] status = "BAD_MAGIC"   -> "-EPROTO"
      [] status = "BAD_VERSION" -> "-EPROTONOSUPPORT"
      [] status = "BAD_COMMAND" -> "-EOPNOTSUPP"
      [] status = "RANGE"       -> "-ERANGE"
      [] OTHER                  -> "-EIO"

\* The tolerance of 2^-40 is two units.
NormUnits == 512
NormTolerance == 2
NormRejected(norm) == norm < 0 \/ norm > NormOne * NormUnits + NormTolerance

qcpu_mock_norm_to_q32_32(norm) ==
    LET clamped == IF norm > NormOne * NormUnits THEN NormOne * NormUnits ELSE norm
    IN  (clamped + NormUnits \div 2) \div NormUnits

qcpu_adapter_translate_response(frame) ==
    LET rejected == NormRejected(frame.norm)
        status == IF rejected THEN "KERNEL" ELSE qcpu_adapter_status(frame.status)
    IN  [result |-> qcpu_adapter_status_result(status),
         response |->
            [magic |-> TRUE, version |-> TRUE, status |-> status, flags |-> frame.flags,
             qubits |-> frame.qubits, shots |-> frame.shots,
             basis_states |-> frame.basis_states, measured_state |-> frame.measured_state,
             invalid_results |-> frame.invalid_results,
             norm_q32_32 |-> IF rejected THEN 0 ELSE qcpu_mock_norm_to_q32_32(frame.norm)]]

\* qcpu_device_decode_response(), then the translation.
Answer(frame) ==
    IF frame.magic /\ frame.version
    THEN qcpu_adapter_translate_response(frame)
    ELSE [ZeroOutcome EXCEPT !.result = "-EIO"]
=============================================================================
