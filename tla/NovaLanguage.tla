---------------------------- MODULE NovaLanguage ----------------------------
(***************************************************************************)
(* The .qn language: what tokens a program is written with, the parser,    *)
(* the compiler to bytecode, and the interpreter of syntax trees           *)
(* (parser/parser.c, compiler/compiler.c, vm/interpreter.c).               *)
(*                                                                         *)
(* A list of statements, which the code links by next, is a sequence of    *)
(* nodes.  A number is the integer its digits denote; the text of a qmsg   *)
(* is the sequence of its character codes, any other text a string.        *)
(***************************************************************************)
EXTENDS Bytecode, PowersOfTwo

CONSTANTS
    MAX_TOKENS,             \* size of the lexer's array
    ARG_CHARS,              \* size of arg1 and of arg2, with the final 0
    LongTexts,              \* the names and strings that do not fit an argument
    INT_BITS, LONG_BITS     \* widths of int and of long

ASSUME LanguageAssumption ==
    /\ {MAX_TOKENS, ARG_CHARS} \subseteq Nat \ {0}
    /\ INT_BITS \in Nat \ {0} /\ LONG_BITS \in Nat /\ INT_BITS <= LONG_BITS

Node(type, value, left, body) ==
    [type |-> type, value |-> value, left |-> left, body |-> body]

----------------------------------------------------------------------------
(* Tokens *)

Token(type, value) == [type |-> type, value |-> value]

\* tokenize makes qmsg a keyword wherever it stands.
Word(name) == Token(IF name = "qmsg" THEN "QMSG" ELSE "IDENT", name)

\* The tokens of a program, without directives and EOF, as the grammar writes it.
RECURSIVE Written(_)
Written(nodes) ==
    IF nodes = <<>> THEN <<>>
    ELSE LET n == Head(nodes)
             key == Token(n.type, n.type)
             block == <<Token("LBRACE", "{")>> \o Written(n.body) \o <<Token("RBRACE", "}")>>
             tokens ==
               CASE n.type = "QMSG" -> <<key, Token("STRING", n.left[2])>>
                 [] n.type = "SAY" ->
                      <<key, IF n.left[1] = "STRING" THEN Token("STRING", n.left[2])
                             ELSE Word(n.left[2])>>
                 [] n.type = "LET" ->
                      <<key, Word(n.value), Token("EQ", "="), Token("NUMBER", n.left[2])>>
                 [] n.type = "CHECK" ->
                      <<key, Word(n.left[2]), Token("OP", n.left[3]), Token("NUMBER", n.left[4])>>
                        \o block
                 [] n.type = "REPEAT" -> <<key, Token("NUMBER", n.left[2])>> \o block
                 [] n.type = "QBIT" ->
                      <<key, Word(n.value), Token("EQ", "="), Token("STATE", n.left[2])>>
                 [] n.type \in {"ENTANGLE", "CNOT"} -> <<key, Word(n.value), Word(n.left[2])>>
                 [] n.type = "IDENT" -> <<Word(n.value)>>
                 [] OTHER -> <<key, Word(n.value)>>
         IN  tokens \o Written(Tail(nodes))

Source(nodes) == <<Token("DIRECTIVE", "nova.v1")>> \o Written(nodes) \o <<Token("EOF", "EOF")>>

----------------------------------------------------------------------------
(* parser.c *)

\* What the static array holds at p: past EOF it is still zero, and 0 is SAY.
At(toks, p) == IF p <= Len(toks) THEN toks[p] ELSE Token("SAY", "")

\* A statement that is not a block at p, and how many tokens it takes.
Statement(toks, p) ==
    LET t == At(toks, p)
        Value(i) == At(toks, p + i).value
        Named(left, n) == [node |-> Node(t.type, Value(1), left, <<>>), pos |-> p + n]
    IN  CASE t.type = "SAY" ->
               [node |-> Node("SAY", "say",
                              <<IF At(toks, p + 1).type = "STRING" THEN "STRING" ELSE "IDENT",
                                Value(1)>>, <<>>),
                pos |-> p + 2]
          [] t.type = "QMSG" ->
               [node |-> Node("QMSG", "qmsg", <<"MESSAGE", Value(1)>>, <<>>), pos |-> p + 2]
          [] t.type = "LET" -> Named(<<"NUMBER", Value(3)>>, 4)
          [] t.type = "QBIT" -> Named(<<"STATE", Value(3)>>, 4)
          [] t.type \in {"ENTANGLE", "CNOT"} -> Named(<<"IDENT", Value(2)>>, 3)
          [] t.type \in {"ENCODE", "DECODE", "HADAMARD", "MEASURE", "ACTION"} -> Named(<<>>, 2)
          [] OTHER -> [node |-> Node("IDENT", t.value, <<>>, <<>>), pos |-> p + 1]

\* Where the block of a check or a repeat begins, and the node without its block.
Opening(toks, p) ==
    LET Value(i) == At(toks, p + i).value
    IN  IF At(toks, p).type = "CHECK"
        THEN [node |-> Node("CHECK", "check", <<"BINOP", Value(1), Value(2), Value(3)>>, <<>>),
              pos |-> p + 4]
        ELSE [node |-> Node("REPEAT", "repeat", <<"NUMBER", Value(1)>>, <<>>), pos |-> p + 2]

\* The loops of parse (top) and parse_block: the statements from p on and the place
\* of the token that ends them, which is past EOF when the loop overruns it.
RECURSIVE parse_list(_, _, _)
parse_list(toks, p, top) ==
    LET t == At(toks, p)
        Then(node, rest) == [nodes |-> <<node>> \o rest.nodes, pos |-> rest.pos]
    IN  IF p > Len(toks) \/ t.type = "EOF" \/ (~top /\ t.type = "RBRACE")
        THEN [nodes |-> <<>>, pos |-> p]
        ELSE IF top /\ t.type = "DIRECTIVE" THEN parse_list(toks, p + 1, top)
        ELSE IF t.type \in {"CHECK", "REPEAT"}
        THEN LET o == Opening(toks, p)
                 block == parse_list(toks, o.pos + 1, FALSE)
             IN  Then([o.node EXCEPT !.body = block.nodes], parse_list(toks, block.pos + 1, top))
        ELSE LET s == Statement(toks, p)
             IN  Then(s.node, parse_list(toks, s.pos, top))

\* inside: every loop of the parser ended at a token of the program.
parse(toks) ==
    LET list == parse_list(toks, 1, TRUE)
    IN  [nodes |-> list.nodes, inside |-> list.pos <= Len(toks)]

----------------------------------------------------------------------------
(* compiler.c *)

\* atoi of digits, as the C library has it: the long that strtol finds, which is the
\* largest one for more than that, cut to an int.
atoi(n) ==
    LET long == IF n < Pow2[LONG_BITS - 1] THEN n ELSE Pow2[LONG_BITS - 1] - 1
        low == long % Pow2[INT_BITS]
    IN  IF low < Pow2[INT_BITS - 1] THEN low ELSE low - Pow2[INT_BITS]

\* LET's number is kept in value; the code keeps its digits in arg2 until atof.
RECURSIVE compile(_)
compile(nodes) ==
    IF nodes = <<>> THEN <<>>
    ELSE LET n == Head(nodes)
             end == Ins("END", "", "", 0)
             code ==
               CASE n.type \in {"SAY", "QMSG"} -> <<Ins(n.type, n.left[2], "", 0)>>
                 [] n.type = "LET" -> <<Ins("LET", n.value, "", n.left[2])>>
                 [] n.type \in {"QBIT", "ENTANGLE", "CNOT"} ->
                      <<Ins(n.type, n.value, n.left[2], 0)>>
                 [] n.type = "CHECK" ->
                      <<Ins("CHECK", n.left[2], n.left[3], atoi(n.left[4]))>> \o compile(n.body)
                        \o <<end>>
                 [] n.type = "REPEAT" ->
                      <<Ins("REPEAT", "", "", atoi(n.left[2]))>> \o compile(n.body) \o <<end>>
                 [] n.type = "IDENT" -> <<>>
                 [] OTHER -> <<Ins(n.type, n.value, "", 0)>>
         IN  code \o compile(Tail(nodes))

\* The strcpy calls of emit stay in arg1 and arg2.
EmitFits(i) ==
    IF i.op = "QMSG" THEN Len(i.arg1) < ARG_CHARS ELSE {i.arg1, i.arg2} \cap LongTexts = {}

\* tokenize stays in its array, and so does emit, whose array is as large: a program
\* has fewer instructions than tokens.
Fits(toks, code) == Len(toks) <= MAX_TOKENS /\ \A k \in DOMAIN code : EmitFits(code[k])

----------------------------------------------------------------------------
(* interpreter.c, run with the measurements draws finds *)

\* same: nothing was done so far that the bytecode machine does another way, and no
\* table was written past its end.
Fresh(draws) ==
    [vars |-> <<>>, qbits |-> <<>>, out |-> <<>>, draws |-> draws, same |-> TRUE]

\* One statement without a block.
ExecuteSimple(n, m) ==
    CASE n.type = "SAY" ->
           LET name == n.left[2]
               known == name \in DOMAIN m.vars
           IN  IF name \in DOMAIN m.qbits
               THEN [m EXCEPT !.out = Append(@, Shown(m.qbits[name]))]
               ELSE IF n.left[1] = "STRING"
               THEN [m EXCEPT !.out = Append(@, <<"text", name>>), !.same = @ /\ ~known]
               ELSE [m EXCEPT !.out = Append(@, <<"number", IF known THEN m.vars[name] ELSE 0>>),
                              !.same = @ /\ known]
      [] n.type = "LET" ->
           [m EXCEPT !.vars = Put(@, n.value, n.left[2]),
                     !.same = @ /\ Cardinality(DOMAIN m.vars \cup {n.value}) <= MAX_VARS]
      [] n.type = "QBIT" ->
           IF n.value \in DOMAIN m.qbits \/ Cardinality(DOMAIN m.qbits) = MAX_QBITS
           THEN [m EXCEPT !.same = FALSE]
           ELSE [m EXCEPT !.qbits =
                   Put(@, n.value, [state |-> n.left[2], measured |-> FALSE, result |-> 0])]
      [] n.type = "HADAMARD" /\ n.value \in DOMAIN m.qbits ->
           [m EXCEPT !.qbits[n.value].state = AfterH(@),
                     !.qbits[n.value].measured = FALSE]
      [] n.type = "MEASURE" /\ n.value \in DOMAIN m.qbits ->
           IF m.draws = <<>> THEN [m EXCEPT !.same = FALSE]
           ELSE [m EXCEPT !.qbits[n.value] = [state |-> Basis(Head(m.draws)), measured |-> TRUE,
                                              result |-> Head(m.draws)],
                          !.draws = Tail(@)]
      [] n.type = "IDENT" -> m
      [] OTHER -> [m EXCEPT !.same = FALSE]

RECURSIVE execute(_, _), Repeated(_, _, _)
execute(nodes, m) ==
    IF nodes = <<>> THEN m
    ELSE LET n == Head(nodes)
             after ==
               CASE n.type = "CHECK" ->
                      LET known == n.left[2] \in DOMAIN m.vars
                          lhs == IF known THEN m.vars[n.left[2]] ELSE 0
                          seen == [m EXCEPT !.same = @ /\ known /\ atoi(n.left[4]) = n.left[4]]
                      IN  IF Compare(lhs, n.left[3], n.left[4]) THEN execute(n.body, seen) ELSE seen
                 [] n.type = "REPEAT" -> Repeated(atoi(n.left[2]), n.body, m)
                 [] OTHER -> ExecuteSimple(n, m)
         IN  execute(Tail(nodes), after)
Repeated(count, body, m) ==
    IF count <= 0 THEN m ELSE Repeated(count - 1, body, execute(body, m))
=============================================================================
