----------------------------- MODULE MCFrontend -----------------------------
(* Small instances of QcpuMockFrontend for TLC.                            *)
EXTENDS QcpuMockFrontend, TLC

StatusRequest ==
    [magic |-> TRUE, version |-> TRUE, command |-> "STATUS", qubits |-> 0, shots |-> 0]

GoodResponse ==
    [magic |-> TRUE, version |-> TRUE, status |-> "OK", flags |-> TRUE, qubits |-> 0,
     shots |-> 0, basis_states |-> 0, measured_state |-> 0, invalid_results |-> 0,
     norm_q32_32 |-> 1]

\* One valid exchange, with the default timeout.
OneExchange == {[request |-> StatusRequest, timeout |-> 0]}

\* The backend succeeds or disconnects.
FewOutcomes ==
    {[result |-> "0", response |-> GoodResponse],
     [result |-> "-ENODEV", response |-> GoodResponse]}

GhzRequest == [StatusRequest EXCEPT !.command = "RUN_GHZ", !.qubits = 2, !.shots = 3]

GhzResponse ==
    [GoodResponse EXCEPT !.qubits = 2, !.shots = 3, !.basis_states = 4, !.measured_state = 3]

\* The two commands, and a request that each kind of test refuses.
SomeExchanges ==
    [request : {StatusRequest, GhzRequest, [StatusRequest EXCEPT !.magic = FALSE]},
     timeout : {0}]
      \cup [request : {GhzRequest}, timeout : {MaxTimeout + 1}]

\* Answers that are right for one command or wrong in one field, and the errors a
\* callback returns.
SomeOutcomes ==
    [result : {"0"},
     response : {GoodResponse, GhzResponse,
                 [GhzResponse EXCEPT !.measured_state = 2],
                 [GhzResponse EXCEPT !.status = "BACKEND_ABSENT"]}]
      \cup [result : {"-ENODEV", "-ECANCELED"}, response : {GhzResponse}]
      \cup [result : {"-EIO"}, response : {[GhzResponse EXCEPT !.status = "TIMEOUT"]}]

Symmetry == Permutations(Tasks)
=============================================================================
