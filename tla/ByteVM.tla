------------------------------- MODULE ByteVM -------------------------------
(***************************************************************************)
(* qnova runs a .qn file (qnova.c): it parses and compiles the program and *)
(* runs the bytecode on one of its machines; qnova-qasm parses and         *)
(* compiles it the same way and prints OpenQASM.                           *)
(***************************************************************************)
EXTENDS NovaLanguage, ByteMachine

CONSTANT Programs     \* syntax trees of the programs that are written

VARIABLES
    program,          \* what was written
    source,           \* its tokens, or a part of them
    nodes             \* what the parser made of them

syntax == <<program, source, nodes>>

\* The source, and the source that ends one token early.
Sources(p) ==
    LET toks == Source(p)
    IN  {toks, SubSeq(toks, 1, Len(toks) - 2) \o <<toks[Len(toks)]>>}

\* Neither the parser nor the compiler leaves the arrays.  A parser that passes EOF goes
\* on through the zeroes of the token array and beyond it; nor is any array checked for
\* its end.
Held == parse(source).inside /\ Fits(source, compile(nodes))

\* main up to the compiled program.
Init ==
    /\ program \in Programs
    /\ source \in Sources(program)
    /\ nodes = parse(source).nodes
    /\ \/ Held /\ stage = "compiled" /\ code = compile(nodes)
       \/ ~Held /\ stage = "overrun" /\ code = <<>>
    /\ Cleared

Next == MachineNext /\ UNCHANGED syntax

Spec == Init /\ [][Next]_<<syntax, machinevars>> /\ WF_<<syntax, machinevars>>(Next)

----------------------------------------------------------------------------
(* Properties *)

\* From the text of a program to its output: for a whole program the parser never
\* reads past EOF, and nothing is written past an array when its tokens and its texts
\* fit; the compiler makes bytecode that the machines expect; and what the bytecode
\* machine prints is what the interpreter of syntax trees prints for the tree that
\* was written, given the same measurements, when both claim to run every statement
\* and no check compares with a number that is not an int.
MachinesAgree ==
    /\ source = Source(program) =>
         (stage = "overrun" => ~Fits(source, compile(program)))
    /\ Compiled(code)
    /\ stage = "byte done" =>
         LET written == IF source = Source(program) THEN program ELSE nodes
             tree == execute(written, Fresh(draws))
         IN  tree.same => out = tree.out /\ tree.draws = <<>>

\* Every program that parses comes to an end on either machine.
ProgramsEnd ==
    <>(stage \in {"overrun", "exported", "stopped", "byte done", "state2 done"})
=============================================================================
