---------------------------- MODULE ByteMachine ----------------------------
(***************************************************************************)
(* The machines that run bytecode: vm/byte_vm.c and the two-qubit machine  *)
(* of vm/state2_vm.c over quantum/state2.c.  qnova-qasm                    *)
(* (tools/qasm_export.c) prints the same bytecode as OpenQASM.             *)
(***************************************************************************)
EXTENDS Bytecode, OpenQasm

CONSTANTS
    MAX_REPEATS,      \* size of the stack of repeats
    QMSG_MAX_CHARS

ASSUME MachineAssumption ==
    /\ {MAX_VARS, MAX_QBITS, MAX_REPEATS} \subseteq Nat \ {0}
    /\ QMSG_MAX_CHARS \in Nat \ {0}

VARIABLES
    stage,            \* "compiled", the machine that runs, or how it ended
    code,             \* what the compiler made
    pc,
    vars, qbits,      \* the machine's tables, functions from names
    loops,            \* repeat_start, repeat_end and repeat_left, innermost last
    out,              \* lines printed
    draws,            \* history: the results measure found
    qmsg,             \* qmsg_text, _bits, _loaded, _encoded and _measured
    chained,          \* history: a qbit was linked anew while it had another partner
    state2            \* what run_state2_bytecode holds

machine == <<vars, qbits, loops, draws, qmsg, chained>>
machinevars == <<stage, code, pc, machine, out, state2>>

\* What both machines start from.
Cleared ==
    /\ pc = 1
    /\ vars = <<>> /\ qbits = <<>> /\ loops = <<>> /\ out = <<>> /\ draws = <<>>
    /\ qmsg = [text |-> <<>>, bits |-> <<>>, loaded |-> FALSE, encoded |-> FALSE,
               measured |-> FALSE]
    /\ chained = FALSE
    /\ state2 = [amp |-> [i \in 0..3 |-> IF i = 0 THEN 1 ELSE 0], half |-> 0,
                 names |-> <<>>, collapsed |-> FALSE, measured |-> FALSE, bits |-> <<0, 0>>]

\* The bytecode of a program: its numbers are integers, its qbits have names and its
\* messages are characters.
Compiled(c) ==
    /\ c \in Seq({c[k] : k \in DOMAIN c})
    /\ \A k \in DOMAIN c : /\ c[k].value \in Int
                           /\ c[k].op = "QBIT" => c[k].arg1 # ""
                           /\ c[k].op = "QMSG" => c[k].arg1 \in Seq(0..255)

MachineInit == stage \in {"compiled", "overrun"} /\ Compiled(code) /\ Cleared

\* main runs the machine that wants_state2 names.
RunMachine ==
    /\ stage = "compiled"
    /\ stage' \in {"byte", "state2"}
    /\ UNCHANGED <<code, pc, machine, out, state2>>

----------------------------------------------------------------------------
(* byte_vm.c: one action for each opcode *)

Running(machine_, op) == stage = machine_ /\ pc <= Len(code) /\ code[pc].op = op
ins == code[pc]

Step == pc' = pc + 1 /\ UNCHANGED <<stage, code, state2>>

Say ==
    /\ Running("byte", "SAY") /\ Step
    /\ out' = Append(out,
                CASE ins.arg1 = "qmsg" ->
                       IF qmsg.encoded THEN <<"register", qmsg.bits>> ELSE <<"error", "encode">>
                  [] ins.arg1 # "qmsg" /\ ins.arg1 \in DOMAIN qbits -> Shown(qbits[ins.arg1])
                  [] ins.arg1 # "qmsg" /\ ins.arg1 \notin DOMAIN qbits ->
                       IF ins.arg1 \in DOMAIN vars THEN <<"number", vars[ins.arg1]>>
                       ELSE <<"text", ins.arg1>>)
    /\ UNCHANGED machine

\* set_var
Let ==
    /\ Running("byte", "LET") /\ Step
    /\ \/ /\ ins.arg1 \in DOMAIN vars \/ Cardinality(DOMAIN vars) < MAX_VARS
          /\ vars' = Put(vars, ins.arg1, ins.value) /\ UNCHANGED out
       \/ /\ ins.arg1 \notin DOMAIN vars /\ Cardinality(DOMAIN vars) >= MAX_VARS
          /\ out' = Append(out, <<"error", "variable limit">>) /\ UNCHANGED vars
    /\ UNCHANGED <<qbits, loops, draws, qmsg, chained>>

\* create_qbit leaves entangled_with of a qbit that exists.
Qbit ==
    /\ Running("byte", "QBIT") /\ Step
    /\ \/ /\ ins.arg1 \in DOMAIN qbits \/ Cardinality(DOMAIN qbits) < MAX_QBITS
          /\ qbits' = Put(qbits, ins.arg1,
                [state |-> ins.arg2, rounded |-> FALSE, measured |-> FALSE, result |-> -1,
                 entangled_with |-> IF ins.arg1 \in DOMAIN qbits
                                    THEN qbits[ins.arg1].entangled_with ELSE ""])
          /\ UNCHANGED out
       \/ /\ ins.arg1 \notin DOMAIN qbits /\ Cardinality(DOMAIN qbits) >= MAX_QBITS
          /\ out' = Append(out, <<"error", "qbit limit">>) /\ UNCHANGED qbits
    /\ UNCHANGED <<vars, loops, draws, qmsg, chained>>

Missing(name) == name \notin DOMAIN qbits /\ out' = Append(out, <<"error", name>>)

hadamard(q) ==
    [q EXCEPT !.state = AfterH(@), !.rounded = TRUE, !.measured = FALSE, !.result = -1]

Hadamard ==
    /\ Running("byte", "HADAMARD") /\ Step
    /\ \/ Missing(ins.arg1) /\ UNCHANGED qbits
       \/ /\ ins.arg1 \in DOMAIN qbits
          /\ qbits' = [qbits EXCEPT ![ins.arg1] = hadamard(@)]
          /\ UNCHANGED out
    /\ UNCHANGED <<vars, loops, draws, qmsg, chained>>

\* cnot_qbits and entangle_qbits: the second qbit becomes a copy of the first.
Link ==
    LET a == ins.arg1
        b == ins.arg2
    IN  /\ Running("byte", "CNOT") \/ Running("byte", "ENTANGLE")
        /\ Step
        /\ \/ /\ ~({a, b} \subseteq DOMAIN qbits)
              /\ out' = Append(out, <<"error", a, b>>)
              /\ UNCHANGED <<qbits, chained>>
           \/ /\ {a, b} \subseteq DOMAIN qbits
              /\ qbits' = [qbits EXCEPT
                    ![a].entangled_with = b,
                    ![b] = [@ EXCEPT !.entangled_with = a, !.state = qbits[a].state,
                                     !.rounded = qbits[a].rounded, !.measured = FALSE,
                                     !.result = 0]]
              /\ chained' = (chained \/ qbits[a].entangled_with \notin {"", b}
                                     \/ qbits[b].entangled_with \notin {"", a})
              /\ out' = Append(out, <<ins.op, a, b>>)
        /\ UNCHANGED <<vars, loops, draws, qmsg>>

\* What r > prob0 may find for a draw r in [0, 1]: r = 0 finds 0 whatever the state,
\* and r = 1 finds 1 when rounding left prob0 below 1.
Results(q) == IF q.state = "|0>" /\ ~q.rounded THEN {0} ELSE {0, 1}

\* Mutant: the partner is not collapsed.
MeasureAlone(q, result) ==
    qbits' = [qbits EXCEPT ![q] = [@ EXCEPT !.state = Basis(result), !.rounded = FALSE,
                                            !.measured = TRUE, !.result = result]]
measure_linked(q, result) ==
    LET partner == qbits[q].entangled_with
    IN  qbits' = [n \in DOMAIN qbits |->
                    IF n = q \/ (n = partner /\ partner # "")
                    THEN [qbits[n] EXCEPT !.state = Basis(result), !.rounded = FALSE,
                                          !.measured = TRUE, !.result = result]
                    ELSE qbits[n]]

Measure ==
    /\ Running("byte", "MEASURE") /\ ins.arg1 # "qmsg" /\ Step
    /\ \/ Missing(ins.arg1) /\ UNCHANGED <<qbits, draws>>
       \/ /\ ins.arg1 \in DOMAIN qbits
          /\ \E result \in Results(qbits[ins.arg1]) :
               /\ measure_linked(ins.arg1, result)
               /\ draws' = Append(draws, result)
          /\ out' = IF qbits[ins.arg1].entangled_with \in DOMAIN qbits \ {""}
                    THEN Append(out, <<"collapse", ins.arg1>>) ELSE out
    /\ UNCHANGED <<vars, loops, qmsg, chained>>

----------------------------------------------------------------------------
(* byte_vm.c: blocks *)

Opens(i) == code[i].op \in {"CHECK", "REPEAT"}
Closes(i) == code[i].op = "END"

\* The END of the block that opens at p, as a set of at most one place.
MatchingEnd(p) ==
    LET Level(i) == Cardinality({j \in p + 1..i - 1 : Opens(j)})
                      - Cardinality({j \in p + 1..i - 1 : Closes(j)})
        ends == {i \in p + 1..Len(code) : Closes(i) /\ Level(i) = 0}
    IN  {i \in ends : \A j \in ends : i <= j}

\* A check that fails goes on behind its END, or behind the last instruction.
Check ==
    /\ Running("byte", "CHECK")
    /\ LET known == ins.arg1 \in DOMAIN vars
           pass == known /\ Compare(vars[ins.arg1], ins.arg2, ins.value)
       IN  /\ pc' \in IF pass THEN {pc + 1}
                      ELSE IF MatchingEnd(pc) = {} THEN {Len(code) + 1}
                      ELSE {i + 1 : i \in MatchingEnd(pc)}
           /\ out' = IF known THEN out ELSE Append(out, <<"error", ins.arg1>>)
    /\ UNCHANGED <<stage, code, machine, state2>>

\* The machine stops with a message when the stack is full.
Repeat ==
    /\ Running("byte", "REPEAT")
    /\ \E end \in MatchingEnd(pc) :
         \/ /\ ins.value <= 0
            /\ pc' = end + 1 /\ UNCHANGED <<stage, loops, out>>
         \/ /\ ins.value > 0 /\ Len(loops) >= MAX_REPEATS
            /\ out' = Append(out, <<"error", "repeat stack">>)
            /\ stage' = "stopped" /\ UNCHANGED <<pc, loops>>
         \/ /\ ins.value > 0 /\ Len(loops) < MAX_REPEATS
            /\ loops' = Append(loops, [start |-> pc, end |-> end, left |-> ins.value])
            /\ pc' = pc + 1 /\ UNCHANGED <<stage, out>>
    /\ UNCHANGED <<code, vars, qbits, draws, qmsg, chained, state2>>

\* Mutant: the loop is left when its last pass is still to come.
Again(left) == left > 1
\* repeat_left after the decrement: is there another pass?
MorePasses(left) == left > 0

\* Mutant: repeat_left is not decremented.
Uncounted(left) == left
Counted(left) == left - 1

End ==
    /\ Running("byte", "END")
    /\ LET last == loops[Len(loops)]
       IN  IF loops # <<>> /\ last.end = pc
           THEN IF MorePasses(Counted(last.left))
                THEN /\ pc' = last.start + 1
                     /\ loops' = [loops EXCEPT ![Len(loops)].left = Counted(@)]
                ELSE pc' = pc + 1 /\ loops' = SubSeq(loops, 1, Len(loops) - 1)
           ELSE pc' = pc + 1 /\ UNCHANGED loops
    /\ UNCHANGED <<stage, code, vars, qbits, draws, qmsg, chained, out, state2>>

----------------------------------------------------------------------------
(* byte_vm.c: messages and actions *)

\* The eight bits of a character, high to low.
BitsOf(ch) == [b \in 1..8 |-> (ch \div Pow2[8 - b]) % 2]

\* strncpy keeps up to QMSG_MAX_CHARS - 1 characters.
Kept(message) ==
    IF Len(message) < QMSG_MAX_CHARS THEN message ELSE SubSeq(message, 1, QMSG_MAX_CHARS - 1)

\* Mutant: the bits of the message before stay.
LoadKeepsBits(message) == qmsg' = [qmsg EXCEPT !.text = Kept(message), !.loaded = TRUE]
qmsg_set(message) ==
    qmsg' = [text |-> Kept(message), bits |-> <<>>, loaded |-> TRUE, encoded |-> FALSE,
             measured |-> FALSE]

Qmsg ==
    /\ Running("byte", "QMSG") /\ Step
    /\ IF ins.arg1 = <<>>
       THEN out' = Append(out, <<"error", "empty">>) /\ UNCHANGED qmsg
       ELSE out' = Append(out, <<"loaded">>) /\ qmsg_set(ins.arg1)
    /\ UNCHANGED <<vars, qbits, loops, draws, chained>>

QMSG_MAX_BITS == QMSG_MAX_CHARS * 8 + 1

\* The loop stops where the next character might not fit the buffer.
EncodedBits(text) ==
    LET after[k \in 0..Len(text)] ==
            IF k = 0 THEN <<>>
            ELSE IF Len(after[k - 1]) < QMSG_MAX_BITS - 9 THEN after[k - 1] \o BitsOf(text[k])
            ELSE after[k - 1]
    IN  after[Len(text)]

EncodeQmsg ==
    /\ Running("byte", "ENCODE") /\ Step
    /\ IF ins.arg1 # "qmsg" \/ ~qmsg.loaded
       THEN out' = Append(out, <<"error", ins.arg1>>) /\ UNCHANGED qmsg
       ELSE /\ qmsg' = [qmsg EXCEPT !.bits = EncodedBits(qmsg.text), !.encoded = TRUE,
                                    !.measured = FALSE]
            /\ out' = Append(out, <<"bits", EncodedBits(qmsg.text)>>)
    /\ UNCHANGED <<vars, qbits, loops, draws, chained>>

MeasureQmsg ==
    /\ Running("byte", "MEASURE") /\ ins.arg1 = "qmsg" /\ Step
    /\ IF ~qmsg.encoded
       THEN out' = Append(out, <<"error", "encode">>) /\ UNCHANGED qmsg
       ELSE /\ qmsg' = [qmsg EXCEPT !.measured = TRUE]
            /\ out' = Append(out, <<"measured", Len(qmsg.bits)>>)
    /\ UNCHANGED <<vars, qbits, loops, draws, chained>>

DecodeQmsg ==
    /\ Running("byte", "DECODE") /\ Step
    /\ out' = IF ins.arg1 # "qmsg" \/ ~qmsg.encoded
              THEN Append(out, <<"error", ins.arg1>>)
              ELSE (IF qmsg.measured THEN out ELSE Append(out, <<"warning">>))
                     \o << <<"decoded", qmsg.text>> >>
    /\ UNCHANGED machine

\* adapter_dispatch_safe
Allowed == {"led_on", "led_off", "servo_up", "servo_down", "buzzer_beep"}

SafeAction ==
    /\ Running("byte", "ACTION") /\ Step
    /\ out' = Append(out, <<IF ins.arg1 \in Allowed THEN "dispatched" ELSE "blocked", ins.arg1>>)
    /\ UNCHANGED machine

\* The machine, either one, is behind the last instruction.
Finish ==
    /\ stage \in {"byte", "state2"} /\ pc > Len(code)
    /\ stage' = IF stage = "byte" THEN "byte done" ELSE "state2 done"
    /\ UNCHANGED <<code, pc, machine, out, state2>>

----------------------------------------------------------------------------
(* state2_vm.c over state2.c: every instruction once, in order *)

OnFirst == state2.names # <<>> /\ ins.arg1 = state2.names[1]
OnSecond(name) == Len(state2.names) = 2 /\ name = state2.names[2]

StatePrinted(s) == IF s.collapsed THEN <<"pair", s.bits>> ELSE <<"amplitudes", s.amp, s.half>>

State2Step(op) ==
    /\ Running("state2", op)
    /\ pc' = pc + 1
    /\ UNCHANGED <<stage, code, machine>>

State2Say ==
    /\ State2Step("SAY")
    /\ out' = Append(out,
                IF OnFirst THEN IF state2.measured THEN <<"bit", state2.bits[1]>> ELSE StatePrinted(state2)
                ELSE IF OnSecond(ins.arg1)
                THEN IF state2.measured THEN <<"bit", state2.bits[2]>> ELSE StatePrinted(state2)
                ELSE <<"text", ins.arg1>>)
    /\ UNCHANGED state2

\* The state a qbit is declared with is not used.
State2Qbit ==
    /\ State2Step("QBIT")
    /\ IF Len(state2.names) < 2
       THEN /\ state2' = [state2 EXCEPT !.names = Append(@, ins.arg1)]
            /\ out' = Append(out, <<"mapped", ins.arg1>>)
       ELSE out' = Append(out, <<"only two">>) /\ UNCHANGED state2

\* Mutant: the second qubit is turned.
HSecond(s) ==
    [s EXCEPT !.amp = [i \in 0..3 |-> IF i % 2 = 0 THEN s.amp[i] + s.amp[i + 1]
                                      ELSE s.amp[i - 1] - s.amp[i]],
              !.half = @ + 1, !.collapsed = FALSE]
qstate2_h_first(s) ==
    [s EXCEPT !.amp = [i \in 0..3 |-> IF i < 2 THEN s.amp[i] + s.amp[i + 2]
                                      ELSE s.amp[i - 2] - s.amp[i]],
              !.half = @ + 1, !.collapsed = FALSE]

qstate2_cnot_first_to_second(s) ==
    [s EXCEPT !.amp = [@ EXCEPT ![2] = s.amp[3], ![3] = s.amp[2]], !.collapsed = FALSE]

State2Gate ==
    LET supported == IF ins.op = "HADAMARD" THEN OnFirst ELSE OnFirst /\ OnSecond(ins.arg2)
    IN  /\ State2Step("HADAMARD") \/ State2Step("CNOT")
        /\ IF supported
           THEN /\ state2' = IF ins.op = "HADAMARD" THEN qstate2_h_first(state2)
                             ELSE qstate2_cnot_first_to_second(state2)
                /\ out' = Append(out, StatePrinted(state2'))
           ELSE out' = Append(out, <<"todo">>) /\ UNCHANGED state2

\* A draw of 0 picks index 0; a sum rounded below 1 leaves index 3 to the draw 1.
State2Measure ==
    /\ State2Step("MEASURE")
    /\ \E i \in {i \in 0..3 : state2.amp[i] # 0} \cup {0} \cup {3 : h \in 1..state2.half} :
         state2' = [state2 EXCEPT !.amp = [j \in 0..3 |-> IF j = i THEN 1 ELSE 0], !.half = 0,
                                  !.collapsed = TRUE, !.measured = TRUE,
                                  !.bits = <<i \div 2, i % 2>>]
    /\ out' = Append(out, StatePrinted(state2'))

State2Skip ==
    /\ \E op \in {"LET", "ENTANGLE", "CHECK", "REPEAT", "END", "ACTION", "QMSG", "ENCODE",
                   "DECODE"} : State2Step(op)
    /\ UNCHANGED <<out, state2>>

----------------------------------------------------------------------------
(* qasm_export.c *)

\* The names of the qbits in the order of their first declaration.
QasmNames(c) ==
    LET names[k \in 0..Len(c)] ==
            IF k = 0 THEN <<>>
            ELSE IF c[k].op = "QBIT" /\ \A q \in DOMAIN names[k - 1] : names[k - 1][q] # c[k].arg1
            THEN Append(names[k - 1], c[k].arg1)
            ELSE names[k - 1]
    IN  names[Len(c)]

\* The number of a qbit, by its name.
Number(names, name) == CHOOSE q \in 0..Len(names) - 1 : names[q + 1] = name

\* h and cx of known qbits; a measurement is <<"measure", q>>, the rest are comments.
Known(names, i) ==
    LET Found(name) == \E q \in DOMAIN names : names[q] = name
    IN  \/ i.op \in {"HADAMARD", "MEASURE"} /\ Found(i.arg1)
        \/ i.op = "CNOT" /\ Found(i.arg1) /\ Found(i.arg2)

Line(names, i) ==
    CASE i.op = "HADAMARD" -> <<"h", Number(names, i.arg1)>>
      [] i.op = "CNOT" -> <<"cx", Number(names, i.arg1), Number(names, i.arg2)>>
      [] i.op = "MEASURE" -> <<"measure", Number(names, i.arg1)>>

export_openqasm(c) ==
    LET names == QasmNames(c)
        gates[k \in 0..Len(c)] ==
            IF k = 0 THEN <<>>
            ELSE IF Known(names, c[k]) THEN Append(gates[k - 1], Line(names, c[k]))
            ELSE gates[k - 1]
    IN  [qubits |-> Len(names), gates |-> gates[Len(c)]]

\* The exporter prints nothing for a program without a qbit or with a declaration
\* after MAX_QBITS names.
Export ==
    /\ stage = "compiled"
    /\ LET full == {k \in DOMAIN code : /\ code[k].op = "QBIT"
                                       /\ Len(QasmNames(SubSeq(code, 1, k - 1))) >= MAX_QBITS}
       IN  out' = IF full # {} \/ QasmNames(code) = <<>> THEN <<"error">>
                  ELSE <<export_openqasm(code)>>
    /\ stage' = "exported"
    /\ UNCHANGED <<code, pc, machine, state2>>

MachineNext ==
    \/ RunMachine \/ Export
    \/ Say \/ Let \/ Qbit \/ Hadamard \/ Link \/ Measure
    \/ Check \/ Repeat \/ End
    \/ Qmsg \/ EncodeQmsg \/ MeasureQmsg \/ DecodeQmsg \/ SafeAction
    \/ State2Say \/ State2Qbit \/ State2Gate \/ State2Measure \/ State2Skip
    \/ Finish

\* The machines on any bytecode.
MachineSpec == MachineInit /\ [][MachineNext]_machinevars

----------------------------------------------------------------------------
(* Properties *)

\* Two measured qbits that name each other as partners show the same bit, as long
\* as no qbit was linked anew while it had another partner.
PairsAgree ==
    ~chained =>
      \A a, b \in DOMAIN qbits :
        /\ qbits[a].entangled_with = b /\ qbits[b].entangled_with = a
        /\ qbits[a].measured /\ qbits[b].measured
        => qbits[a].result = qbits[b].result

\* An encoded message is never stale: eight bits at a time, its bits denote the
\* text that decode prints.
QmsgFresh ==
    qmsg.encoded =>
      /\ qmsg.loaded
      /\ Len(qmsg.bits) = 8 * Len(qmsg.text)
      /\ \A k \in DOMAIN qmsg.text :
           qmsg.text[k] = Index([b \in 0..7 |-> qmsg.bits[8 * k - 7 + b]], 8)

\* Up to the first measurement the state2 machine holds the state that OpenQASM
\* gives the exported program, for two qbits and the gates that it supports.
State2IsExported ==
    LET exported == export_openqasm(SubSeq(code, 1, pc - 1))
    IN  /\ stage \in {"state2", "state2 done"}
        /\ ~state2.measured /\ exported.qubits = 2
        /\ \A k \in DOMAIN out : out[k] \notin {<<"todo">>, <<"only two">>}
        => LET meaning == Meaning(exported)
           IN  /\ state2.half = meaning.half
               /\ \A v \in Vectors(2) : Constant(state2.amp[Index(v, 2)]) = meaning.a[v]
=============================================================================
