------------------------------ MODULE QCircuit ------------------------------
(***************************************************************************)
(* qnova-circuit (quantum/qcircuit.c): the loader of circuit files, the    *)
(* simulator and the OpenQASM printer, and the GHZ tool of                 *)
(* quantum/stateN.c beside it.  Basis states are the indexes 0..2^n - 1    *)
(* with qubit 0 the most significant bit, and the loops that rewrite amp   *)
(* in place go over the indexes in their order.                            *)
(***************************************************************************)
EXTENDS OpenQasm

CONSTANTS
    MAX_QUBITS,
    MAX_OPS,
    Operands,   \* the integers circuit lines carry, beside -1
    Numbers,    \* the numeric arguments of the command line
    MaxLines    \* bound: lines of a circuit file

ASSUME CircuitAssumption ==
    /\ MAX_QUBITS \in Nat \ {0, 1} /\ MAX_OPS \in Nat /\ MAX_OPS >= MAX_QUBITS
    /\ Operands \subseteq Int /\ Numbers \subseteq Int /\ MaxLines \in Nat

VARIABLES
    stage,        \* what main is doing, or how it ended
    NQ, HAS_MEASURE, OPS,
    lines,        \* lines read so far
    shrunk,       \* history: a qubits line lowered NQ under recorded gates
    argument,     \* the numeric argument, -1 when a file is named
    amp,          \* the amplitudes simulate ended with
    picked,       \* what measure_all returned, -1 before
    text          \* what emit_qasm printed

vars == <<stage, NQ, HAS_MEASURE, OPS, lines, shrunk, argument, amp, picked, text>>

Singles == {"h", "x", "y", "z", "s", "t"}
Doubles == {"cx", "swap"}

\* What sscanf finds in a line: a keyword and the integers after it.  "skip" is
\* a comment or an empty line.
Lines ==
    [kw : Singles \cup Doubles \cup {"qubits", "ghz", "measure", "skip", "other"},
     args : LET Values == Operands \cup {-1}
            IN  {<<>>} \cup {<<q>> : q \in Values} \cup {<<q, r>> : q, r \in Values}]

NoVector == [a |-> <<>>, half |-> 0]
NoText == [qubits |-> 0, gates |-> <<>>, measures |-> <<>>]

Init ==
    /\ stage = "start"
    /\ NQ = 0 /\ HAS_MEASURE = FALSE /\ OPS = <<>>
    /\ lines = 0 /\ shrunk = FALSE /\ argument = -1
    /\ amp = NoVector /\ picked = -1 /\ text = NoText

\* exit(1): nothing of the process is left.
fail ==
    /\ stage' = "failed"
    /\ NQ' = 0 /\ HAS_MEASURE' = FALSE /\ OPS' = <<>>
    /\ lines' = 0 /\ shrunk' = FALSE /\ argument' = -1
    /\ amp' = NoVector /\ picked' = -1 /\ text' = NoText

----------------------------------------------------------------------------
(* Loading *)

Op(op, a, b) == [op |-> op, a |-> a, b |-> b]

\* Mutant: the chain stops one qubit short.
ShortChain(n) == <<Op("h", 0, 0)>> \o [q \in 1..n - 2 |-> Op("cx", q - 1, q)]
\* The operations add_ghz appends for a register of n qubits.
add_ghz(n) == <<Op("h", 0, 0)>> \o [q \in 1..n - 1 |-> Op("cx", q - 1, q)]

require_qubit(q) == q >= 0 /\ q < NQ

\* n calls of add_op find room.
add_op(n) == Len(OPS) + n <= MAX_OPS

\* The number of operands each keyword wants, and what it wants of them.
Accepted(line) ==
    \/ /\ line.kw = "qubits"
       /\ Len(line.args) = 1 /\ line.args[1] \in 1..MAX_QUBITS
    \/ line.kw = "ghz" /\ line.args = <<>> /\ NQ >= 2 /\ add_op(NQ)
    \/ /\ line.kw \in Singles
       /\ Len(line.args) = 1 /\ require_qubit(line.args[1]) /\ add_op(1)
    \/ /\ line.kw \in Doubles
       /\ Len(line.args) = 2 /\ require_qubit(line.args[1]) /\ require_qubit(line.args[2])
       /\ add_op(1)
    \/ line.kw = "measure" /\ line.args = <<>>
    \/ line.kw = "skip"

ReadLine(line) ==
    /\ stage = "loading" /\ lines < MaxLines
    /\ \/ ~Accepted(line) /\ fail
       \/ /\ Accepted(line)
          /\ lines' = lines + 1
          /\ NQ' = IF line.kw = "qubits" THEN line.args[1] ELSE NQ
          /\ HAS_MEASURE' = (HAS_MEASURE \/ line.kw = "measure")
          /\ OPS' = CASE line.kw = "ghz" -> OPS \o add_ghz(NQ)
                      [] line.kw \in Singles -> Append(OPS, Op(line.kw, line.args[1], 0))
                      [] line.kw \in Doubles ->
                           Append(OPS, Op(line.kw, line.args[1], line.args[2]))
                      [] OTHER -> OPS
          /\ shrunk' = (shrunk \/ (NQ' < NQ /\ OPS # <<>>))
          /\ UNCHANGED <<stage, argument, amp, picked, text>>

\* main with a file, its opening and its end.
OpenFile ==
    /\ stage = "start"
    /\ \/ fail
       \/ stage' = "loading" /\ UNCHANGED <<NQ, HAS_MEASURE, OPS, lines, shrunk, argument,
                                            amp, picked, text>>

EndOfFile ==
    /\ stage = "loading"
    /\ \/ NQ < 1 /\ fail
       \/ /\ NQ >= 1
          /\ stage' = "loaded"
          /\ UNCHANGED <<NQ, HAS_MEASURE, OPS, lines, shrunk, argument, amp, picked, text>>

\* main and stateN's main clamp a numeric argument to 2..16.
Clamped(n) == IF n < 2 THEN 2 ELSE IF n > MAX_QUBITS THEN MAX_QUBITS ELSE n

NumericArgument(n) ==
    /\ stage = "start"
    /\ NQ' = Clamped(n) /\ argument' = n
    /\ HAS_MEASURE' = TRUE
    /\ OPS' = add_ghz(NQ')
    /\ stage' = "loaded"
    /\ UNCHANGED <<lines, shrunk, amp, picked, text>>

----------------------------------------------------------------------------
(* Simulation *)

\* (i & (1 << p)) != 0
Bit(i, p) == (i \div Pow2[p]) % 2

\* for (i = 0; i < (1 << n); i++) on the array in place
Loop(a, n, Step(_, _)) ==
    LET after[i \in 0..Pow2[n]] == IF i = 0 THEN a ELSE Step(after[i - 1], i - 1)
    IN  after[Pow2[n]]

g_single(s, n, q, m00, m01, m10, m11, half) ==
    LET p == n - 1 - q
        Step(a, i) ==
            LET j == i + Pow2[p]
            IN  IF Bit(i, p) = 1 THEN a
                ELSE [a EXCEPT ![i] = Plus(Times(m00, a[i]), Times(m01, a[j])),
                               ![j] = Plus(Times(m10, a[i]), Times(m11, a[j]))]
    IN  [a |-> Loop(s.a, n, Step), half |-> s.half + half]

\* The matrices g_h .. g_t hand to g_single, h's over sqrt(2).
Gate(s, n, op, q) ==
    LET zero == Constant(0)
        one == Constant(1)
        i == Turn(2, one)
    IN  CASE op = "h" -> g_single(s, n, q, one, one, one, Constant(-1), 1)
          [] op = "x" -> g_single(s, n, q, zero, one, one, zero, 0)
          [] op = "y" -> g_single(s, n, q, zero, Turn(4, i), i, zero, 0)
          [] op = "z" -> g_single(s, n, q, one, zero, zero, Constant(-1), 0)
          [] op = "s" -> g_single(s, n, q, one, zero, zero, i, 0)
          [] op = "t" -> g_single(s, n, q, one, zero, zero, Turn(1, one), 0)

CxLoop(a, n, c, t) ==
    LET pc == n - 1 - c
        pt == n - 1 - t
        Step(b, i) ==
            LET j == i + Pow2[pt]
            IN  IF Bit(i, pc) = 0 \/ Bit(i, pt) = 1 THEN b
                ELSE [b EXCEPT ![i] = b[j], ![j] = b[i]]
    IN  Loop(a, n, Step)

g_cx(s, n, c, t) == [s EXCEPT !.a = CxLoop(s.a, n, c, t)]

\* Mutant: the third exchange is missing.
SwapTwice(s, n, a, b) == IF a = b THEN s ELSE g_cx(g_cx(s, n, a, b), n, b, a)
g_swap(s, n, a, b) ==
    IF a = b THEN s ELSE g_cx(g_cx(g_cx(s, n, a, b), n, b, a), n, a, b)

\* The vector calloc and amp[0] = 1 make.
Start(n) == [a |-> [i \in 0..Pow2[n] - 1 |-> Constant(IF i = 0 THEN 1 ELSE 0)], half |-> 0]

Apply(n, s, o) ==
    CASE o.op = "cx" -> g_cx(s, n, o.a, o.b)
      [] o.op = "swap" -> g_swap(s, n, o.a, o.b)
      [] OTHER -> Gate(s, n, o.op, o.a)

Run(n, ops) ==
    LET after[k \in 0..Len(ops)] == IF k = 0 THEN Start(n) ELSE Apply(n, after[k - 1], ops[k])
    IN  after[Len(ops)]

\* What a draw r of rand() / RAND_MAX in [0, 1] may pick: r <= acc takes index 0
\* when r is 0, and a sum rounded below 1 leaves the last index to r = 1.
Picks(s, n, ops) ==
    {i \in 0..Pow2[n] - 1 : ~IsZero(s.a[i])} \cup {0}
      \cup {Pow2[n] - 1 : k \in {k \in DOMAIN ops : ops[k].op \in {"h", "t"}}}

\* g_cx compares its operands before it shifts; g_swap returns early.
Refused(o) == o.op = "cx" /\ o.a = o.b
Outside(o) ==
    /\ ~Refused(o) /\ ~(o.op = "swap" /\ o.a = o.b)
    /\ o.a >= NQ \/ o.b >= NQ

\* The operations where the loop of simulate stops.
Stops == {k \in DOMAIN OPS : Refused(OPS[k]) \/ Outside(OPS[k])}

simulate ==
    /\ stage = "loaded"
    /\ \/ fail                                             \* calloc fails
       \/ /\ Stops = {}
          /\ stage' = "printed"
          /\ amp' = Run(NQ, OPS)
          /\ picked' \in IF HAS_MEASURE THEN Picks(amp', NQ, OPS) ELSE {picked}
          /\ UNCHANGED <<NQ, HAS_MEASURE, OPS, lines, shrunk, argument, text>>
       \/ \E k \in Stops :
            /\ \A j \in Stops : k <= j
            /\ \/ Refused(OPS[k]) /\ fail
               \/ /\ Outside(OPS[k])                       \* a shift by n - 1 - q < 0
                  /\ stage' = "undefined"
                  /\ UNCHANGED <<NQ, HAS_MEASURE, OPS, lines, shrunk, argument, amp, picked, text>>

----------------------------------------------------------------------------
(* Printing OpenQASM *)

\* The line for an operation.
Printed(o) == IF o.op \in Doubles THEN <<o.op, o.a, o.b>> ELSE <<o.op, o.a>>

emit_qasm(n, ops, measured) ==
    [qubits |-> n,
     gates |-> [k \in DOMAIN ops |-> Printed(ops[k])],
     measures |-> IF measured THEN [q \in 1..n |-> <<q - 1, q - 1>>] ELSE <<>>]

Emit ==
    /\ stage = "loaded"
    /\ stage' = "emitted"
    /\ text' = emit_qasm(NQ, OPS, HAS_MEASURE)
    /\ UNCHANGED <<NQ, HAS_MEASURE, OPS, lines, shrunk, argument, amp, picked>>

----------------------------------------------------------------------------
(* stateN.c, with amplitudes that are real *)

h_gate(a, n, q) ==
    LET p == n - 1 - q
        Step(b, i) ==
            LET j == i + Pow2[p]
            IN  IF Bit(i, p) = 1 THEN b
                ELSE [b EXCEPT ![i] = b[i] + b[j], ![j] = b[i] - b[j]]
    IN  Loop(a, n, Step)

cnot(a, n, c, t) == CxLoop(a, n, c, t)

\* h_gate on qubit 0 and the chain of cnots.
GhzOfStateN(n) ==
    LET zero == [i \in 0..Pow2[n] - 1 |-> IF i = 0 THEN 1 ELSE 0]
        after[q \in 0..n - 1] ==
            IF q = 0 THEN h_gate(zero, n, 0) ELSE cnot(after[q - 1], n, q - 1, q)
    IN  after[n - 1]

StateN(n) ==
    /\ stage = "start"
    /\ \/ fail                                            \* calloc fails
       \/ LET m == Clamped(n)
              real == GhzOfStateN(m)
          IN  /\ stage' = "measured"
              /\ NQ' = m /\ argument' = n
              /\ amp' = [a |-> [i \in DOMAIN real |-> Constant(real[i])], half |-> 1]
              /\ picked' \in {i \in DOMAIN real : real[i] # 0} \cup {0, Pow2[m] - 1}
              /\ UNCHANGED <<HAS_MEASURE, OPS, lines, shrunk, text>>

Next ==
    \/ OpenFile
    \/ \E line \in Lines : ReadLine(line)
    \/ EndOfFile
    \/ \E n \in Numbers : NumericArgument(n) \/ StateN(n)
    \/ simulate
    \/ Emit

Spec == Init /\ [][Next]_vars

----------------------------------------------------------------------------
(* Properties *)

\* Unless a qubits line lowers the count after a gate was recorded, the list of
\* gates stays within its array, no gate shifts by a negative amount, and the state
\* simulate prints, reached by loops that rewrite amp in place, is the state the
\* program printed by --qasm has by OpenQASM's definition of its gates.
EmittedMeansSimulated ==
    ~shrunk =>
      /\ Len(OPS) <= MAX_OPS
      /\ stage # "undefined"
      /\ stage = "printed" =>
           LET meaning == Meaning(emit_qasm(NQ, OPS, HAS_MEASURE))
           IN  /\ amp.half = meaning.half
               /\ \A v \in Vectors(NQ) : amp.a[Index(v, NQ)] = meaning.a[v]

\* For a numeric argument qnova-circuit and stateN both prepare the textbook state
\* (|0...0> + |1...1>) / sqrt(2) of the clamped width, and whatever the draw they
\* measure all zeros or all ones, which proof_qcircuit.sh and proof_ghz.sh test.
GhzMeasured ==
    stage \in {"printed", "measured"} /\ argument # -1 =>
      /\ NQ = Clamped(argument)
      /\ amp = [a |-> [i \in 0..Pow2[NQ] - 1 |-> Constant(IF i \in {0, Pow2[NQ] - 1} THEN 1 ELSE 0)],
                half |-> 1]
      /\ picked \in {0, Pow2[NQ] - 1}
=============================================================================
