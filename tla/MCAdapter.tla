----------------------------- MODULE MCAdapter ------------------------------
(* Small instances of QcpudAdapter for TLC.                                *)
EXTENDS QcpudAdapter, TLC

CONSTANTS c1, c2

StatusRequest ==
    [magic |-> TRUE, version |-> TRUE, command |-> "STATUS", qubits |-> 0, shots |-> 0]

SomeRequests == {StatusRequest, [StatusRequest EXCEPT !.command = "UNSUPPORTED"]}

StatusFrame ==
    [magic |-> TRUE, version |-> TRUE, status |-> "OK", flags |-> TRUE, qubits |-> 0,
     shots |-> 0, basis_states |-> 0, measured_state |-> 0, invalid_results |-> 0, norm |-> 0]

\* A good answer, a malformed one, and an error of the daemon.
SomeFrames ==
    {StatusFrame, [StatusFrame EXCEPT !.magic = FALSE], [StatusFrame EXCEPT !.status = "RANGE"]}

Symmetry == Permutations(Calls)
=============================================================================
