-------------------------- MODULE QuantumRegister ---------------------------
(***************************************************************************)
(* What a simulator of qubits promises: a register of width qubits whose   *)
(* basis states are bit vectors, and the gates as a textbook defines them  *)
(* on a vector of amplitudes.  The amplitude of v is psi[v] / sqrt(2)^half *)
(* with the smallest half for which every psi[v] is an integer.            *)
(***************************************************************************)
EXTENDS BasisStates

VARIABLES width, psi, half

registerVars == <<width, psi, half>>

Becomes(a, h) ==
    LET r == Reduced(a, h)
    IN  psi' = r.a /\ half' = r.half

Off == width = 0 /\ psi = [v \in Vectors(0) |-> 0] /\ half = 0

Prepare == width' \in Nat \ {0} /\ Becomes(OnlyOf(width', Zeros(width')), 0)

Release == Off'

Hadamard(q) == Becomes(HadamardOf(psi, width, q), half + 1) /\ UNCHANGED width

Not(q) == Becomes(NotOf(psi, width, q), half) /\ UNCHANGED width

ControlledNot(c, t) == Becomes(ControlledNotOf(psi, width, c, t), half) /\ UNCHANGED width

Ghz == Becomes(GhzOf(width), 1) /\ UNCHANGED width

\* A measurement finds a state whose amplitude is not zero.
Measure(v) ==
    /\ psi[v] # 0
    /\ Becomes(OnlyOf(width, v), 0)
    /\ UNCHANGED width

Next ==
    \/ Prepare
    \/ Release
    \/ Ghz
    \/ \E q \in 0..width - 1 :
         \/ Hadamard(q) \/ Not(q)
         \/ \E t \in (0..width - 1) \ {q} : ControlledNot(q, t)
    \/ \E v \in Vectors(width) : Measure(v)

Spec == Off /\ [][Next]_registerVars
=============================================================================
