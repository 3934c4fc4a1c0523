------------------------------- MODULE MCNova -------------------------------
(* Families of small programs for ByteVM.                                  *)
EXTENDS ByteVM

Say_(kind, name) == Node("SAY", "say", <<kind, name>>, <<>>)
Let_(x, n) == Node("LET", x, <<"NUMBER", n>>, <<>>)
Qbit_(q, state) == Node("QBIT", q, <<"STATE", state>>, <<>>)
Do(type, name) == Node(type, name, <<>>, <<>>)
Two(type, a, b) == Node(type, a, <<"IDENT", b>>, <<>>)
Check_(x, op, n, body) == Node("CHECK", "check", <<"BINOP", x, op, n>>, body)
Repeat_(n, body) == Node("REPEAT", "repeat", <<"NUMBER", n>>, body)
Message(text_) == Node("QMSG", "qmsg", <<"MESSAGE", text_>>, <<>>)

UpTo(S, n) == UNION {[1..k -> S] : k \in 0..n}

\* Blocks in blocks, around statements that change what the checks see.
Plain == {Let_("x", 0), Let_("x", 2), Say_("IDENT", "x")}
Blocks(S, n) ==
    LET bodies == UpTo(S, n)
    IN  {Check_("x", ">", 1, b) : b \in bodies} \cup {Repeat_(k, b) : k \in {0, 2}, b \in bodies}
Inner == Plain \cup Blocks(Plain, 2)
Control ==
    {<<Let_("x", 2), b, Say_("IDENT", "x")>> : b \in Blocks(Inner, 2)}
      \cup {<<Let_("x", 2), Check_("x", op, n, <<Say_("STRING", "yes")>>)>> :
              op \in {">", "<", "==", ">=", "<="}, n \in 1..3}
      \cup {<<Check_("y", ">", 0, <<>>), Do("IDENT", "stray"), Say_("IDENT", "y"),
              Let_("x", 1), Let_("y", 1), Let_("z", 1), Say_("STRING", "x")>>,
            <<Repeat_(1, <<Repeat_(1, <<Repeat_(1, <<Say_("STRING", "deep")>>)>>)>>)>>}

\* Numbers beyond int and beyond long, names and texts that an argument does not hold,
\* and a program with too many tokens.
Limits ==
    {<<Let_("x", k), Check_("x", op, n, <<Say_("IDENT", "x")>>), Say_("STRING", "end")>> :
       k \in {2, 9}, op \in {">", "<", "=="}, n \in {3, 4, 8, 10, 17}}
      \cup {<<Repeat_(n, <<Say_("STRING", "again")>>)>> : n \in {3, 4, 8, 10, 17}}
      \cup {<<s, Say_("STRING", "end")>> :
              s \in {Say_("STRING", "long"), Let_("long", 1), Qbit_("long", "|0>"),
                     Two("CNOT", "q", "long"), Do("IDENT", "long"), Message(<<1, 2, 3, 4>>)}}
      \cup {[k \in 1..n |-> Say_("STRING", "line")] : n \in {29, 30}}

\* Three qbits, and a fourth that does not fit.
Gates ==
    {Qbit_("q", "|1>"), Do("HADAMARD", "q"), Do("MEASURE", "q"), Do("MEASURE", "p"),
     Two("CNOT", "q", "p"), Two("ENTANGLE", "p", "r"), Say_("IDENT", "q"), Say_("IDENT", "p")}
Quantum ==
    {<<Qbit_("q", "|0>"), Qbit_("p", "|+>"), Qbit_("r", "|1>")>> \o g : g \in UpTo(Gates, 4)}
      \cup {<<Do("HADAMARD", "q"), Do("MEASURE", "q"), Two("CNOT", "q", "p"), Qbit_("q", "|->"),
              Qbit_("p", "|0>"), Qbit_("r", "|0>"), Qbit_("s", "|0>"), Say_("IDENT", "s")>>}

\* Two qbits.
Pair ==
    {<<Qbit_("q", "|0>"), Qbit_("p", "|0>")>> \o g :
       g \in UpTo({Do("HADAMARD", "q"), Two("CNOT", "q", "p"), Do("HADAMARD", "p"),
                   Do("MEASURE", "q"), Say_("IDENT", "p")}, 4)}

\* Messages within the buffer and beyond it, in every order of the operations.
Messages ==
    UpTo({Message(<<72>>), Message(<<1, 128, 255>>), Message(<<>>), Do("ENCODE", "qmsg"),
          Do("MEASURE", "qmsg"), Say_("IDENT", "qmsg"), Do("DECODE", "qmsg")}, 4)
      \cup {<<Message(<<72, 73>>), Do("ENCODE", "qmsg"), Do("DECODE", "qmsg")>>,
            <<Do("ENCODE", "q"), Do("DECODE", "q"), Do("ACTION", "led_on"), Do("ACTION", "fire")>>}

SomePrograms == Control \cup Limits \cup Quantum \cup Pair \cup (Messages \ {<<>>})
=============================================================================
