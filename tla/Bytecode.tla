------------------------------ MODULE Bytecode ------------------------------
(***************************************************************************)
(* What the interpreter of syntax trees and the bytecode machine share:    *)
(* instructions, conditions, and qbits whose amplitudes stay in four       *)
(* states.                                                                 *)
(***************************************************************************)
EXTENDS Integers, Sequences, FiniteSets

CONSTANTS MAX_VARS, MAX_QBITS   \* of both machines

Ins(op, arg1, arg2, value) == [op |-> op, arg1 |-> arg1, arg2 |-> arg2, value |-> value]

Compare(lhs, op, rhs) ==
    CASE op = ">" -> lhs > rhs [] op = "<" -> lhs < rhs [] op = "==" -> lhs = rhs
      [] op = ">=" -> lhs >= rhs [] op = "<=" -> lhs <= rhs [] OTHER -> FALSE

AfterH(state) ==
    CASE state = "|0>" -> "|+>" [] state = "|1>" -> "|->"
      [] state = "|+>" -> "|0>" [] state = "|->" -> "|1>"

Basis(result) == IF result = 0 THEN "|0>" ELSE "|1>"

\* What print_qbit shows.
Shown(q) == IF q.measured THEN <<"bit", q.result>> ELSE <<"state", q.state>>

\* A table with the entry x, which a name that is new adds.
Put(f, x, v) == [y \in DOMAIN f \cup {x} |-> IF y = x THEN v ELSE f[y]]
=============================================================================
