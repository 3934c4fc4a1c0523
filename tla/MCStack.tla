------------------------------ MODULE MCStack -------------------------------
(* A small instance of QcpuStack for TLC.                                  *)
EXTENDS QcpuStack

StatusRequest ==
    [magic |-> TRUE, version |-> TRUE, command |-> "STATUS", qubits |-> 0, shots |-> 0]

OneExchange == {[request |-> StatusRequest, timeout |-> 0]}

StatusFrame ==
    [magic |-> TRUE, version |-> TRUE, status |-> "OK", flags |-> TRUE, qubits |-> 0,
     shots |-> 0, basis_states |-> 0, measured_state |-> 0, invalid_results |-> 0, norm |-> 0]

OneFrame == {StatusFrame}

NoOutcomes == {}
=============================================================================
