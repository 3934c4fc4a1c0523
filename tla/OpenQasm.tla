------------------------------ MODULE OpenQasm ------------------------------
(***************************************************************************)
(* What OpenQASM 3 says that a printed program does, on vectors of bits:   *)
(* the reference for qnova-circuit and for the state2 machine.  A program  *)
(* is [qubits |-> n, gates |-> <<gate, operand, ...>>, ...].               *)
(***************************************************************************)
EXTENDS Amplitudes, BasisStates, Sequences

\* x and y exchange the basis states; all but h turn |b> by this power of w.
Exponent(g, b) ==
    CASE g = "x" -> 0 [] g = "y" -> 2 + 4 * b [] g = "z" -> 4 * b
      [] g = "s" -> 2 * b [] g = "t" -> b

QasmGate(s, n, g) ==
    LET Old(v) == s.a[v]
        q == g[2]
    IN  CASE g[1] = "h" ->
               [a |-> [v \in Vectors(n) |-> Plus(Old([v EXCEPT ![q] = 0]),
                                                Turn(4 * v[q], Old([v EXCEPT ![q] = 1])))],
                half |-> s.half + 1]
          [] g[1] = "cx" ->
               [s EXCEPT !.a = [v \in Vectors(n) |-> Old([v EXCEPT ![g[3]] = (@ + v[q]) % 2])]]
          [] g[1] = "swap" ->
               [s EXCEPT !.a = [v \in Vectors(n) |-> Old([v EXCEPT ![q] = v[g[3]], ![g[3]] = v[q]])]]
          [] OTHER ->
               [s EXCEPT !.a = [v \in Vectors(n) |->
                  LET b == IF g[1] \in {"x", "y"} THEN 1 - v[q] ELSE v[q]
                  IN  Turn(Exponent(g[1], b), Old([v EXCEPT ![q] = b]))]]

\* The state |0...0> of n qubits.
Ground(n) == [a |-> [v \in Vectors(n) |-> Constant(IF v = Zeros(n) THEN 1 ELSE 0)], half |-> 0]

Meaning(program) ==
    LET n == program.qubits
        after[k \in 0..Len(program.gates)] ==
            IF k = 0 THEN Ground(n) ELSE QasmGate(after[k - 1], n, program.gates[k])
    IN  after[Len(program.gates)]
=============================================================================
