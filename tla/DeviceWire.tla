----------------------------- MODULE DeviceWire -----------------------------
(***************************************************************************)
(* src/device/qcpu_device_wire.c: the packets of the daemon's protocol as  *)
(* bytes.  A field has an offset and a width, and its number is stored     *)
(* least significant byte first.                                           *)
(***************************************************************************)
EXTENDS DeviceProtocol, Sequences

QCPU_DEVICE_REQUEST_MAGIC == 1363433009    \* 0x51445631
QCPU_DEVICE_RESPONSE_MAGIC == 1364350513   \* 0x51525631
QCPU_DEVICE_PROTOCOL_VERSION == 1

\* The values of the enumeration, in its order from 0.
StatusOrder == <<"OK", "BAD_MAGIC", "BAD_VERSION", "BAD_COMMAND", "RANGE", "KERNEL", "IO">>
StatusCode(name) == (CHOOSE i \in DOMAIN StatusOrder : StatusOrder[i] = name) - 1
StatusName(code) == IF code < Len(StatusOrder) THEN StatusOrder[code + 1] ELSE "UNKNOWN"

\* value >> (8 * n)
Shifted(value, n) ==
    LET f[i \in 0..n] == IF i = 0 THEN value ELSE f[i - 1] \div 256
    IN  f[n]

\* The values of an unsigned integer type of width bytes.
Fits(value, width) == value \in Nat /\ Shifted(value, width) = 0

\* Mutant: only the lowest byte is stored.
PutLowByte(value, width) == [i \in 1..width |-> IF i = 1 THEN value % 256 ELSE 0]

put_le(value, width) == [i \in 1..width |-> Shifted(value, i - 1) % 256]

get_le(bytes) ==
    LET value[n \in 0..Len(bytes)] ==
            IF n = 0 THEN 0 ELSE bytes[Len(bytes) + 1 - n] + 256 * value[n - 1]
    IN  value[Len(bytes)]

At(offset, width) == [offset |-> offset, width |-> width]

RequestLayout ==
    [magic |-> At(0, 4), version |-> At(4, 2), command |-> At(6, 2), qubits |-> At(8, 4),
     shots |-> At(12, 4), seed |-> At(16, 8)]

ResponseLayout ==
    [magic |-> At(0, 4), version |-> At(4, 2), status |-> At(6, 2), flags |-> At(8, 4),
     qubits |-> At(12, 4), basis_states |-> At(16, 8), shots |-> At(24, 8),
     measured_state |-> At(32, 8), invalid_results |-> At(40, 8), norm |-> At(48, 8)]

QCPU_DEVICE_REQUEST_WIRE_SIZE == 24
QCPU_DEVICE_RESPONSE_WIRE_SIZE == 56

Covers(field, i) == i \in field.offset + 1..field.offset + field.width

Encode(layout, size, record) ==
    [i \in 1..size |->
        LET name == CHOOSE n \in DOMAIN layout : Covers(layout[n], i)
        IN  put_le(record[name], layout[name].width)[i - layout[name].offset]]

Decode(layout, bytes) ==
    [n \in DOMAIN layout |->
        get_le(SubSeq(bytes, layout[n].offset + 1, layout[n].offset + layout[n].width))]

qcpu_device_encode_request(request) ==
    Encode(RequestLayout, QCPU_DEVICE_REQUEST_WIRE_SIZE, request)

qcpu_device_encode_response(response) ==
    Encode(ResponseLayout, QCPU_DEVICE_RESPONSE_WIRE_SIZE, response)

\* The status of decoding, magic before version.
Protocol(record, magic) ==
    IF record.magic # magic THEN "BAD_MAGIC"
    ELSE IF record.version # QCPU_DEVICE_PROTOCOL_VERSION THEN "BAD_VERSION"
    ELSE "OK"

qcpu_device_decode_request(bytes) ==
    LET request == Decode(RequestLayout, bytes)
    IN  [status |-> Protocol(request, QCPU_DEVICE_REQUEST_MAGIC), request |-> request]

qcpu_device_decode_response(bytes) ==
    LET response == Decode(ResponseLayout, bytes)
    IN  [status |-> Protocol(response, QCPU_DEVICE_RESPONSE_MAGIC), response |-> response]
=============================================================================
