----------------------------- MODULE Amplitudes -----------------------------
(***************************************************************************)
(* Exact complex amplitudes for the gates h x y z s t.  With w the eighth  *)
(* root of unity exp(i pi/4), every amplitude these gates produce is       *)
(* (z[0] + z[1] w + z[2] w^2 + z[3] w^3) / sqrt(2)^half with integers z;   *)
(* w^4 = -1, i = w^2 and sqrt(2) = w - w^3.  A vector of amplitudes is     *)
(* [a |-> a function to such z, half |-> their common power].              *)
(***************************************************************************)
EXTENDS Integers

Constant(n) == [k \in 0..3 |-> IF k = 0 THEN n ELSE 0]

Plus(x, y) == [k \in 0..3 |-> x[k] + y[k]]

\* w^e times x.
Turn(e, x) ==
    [k \in 0..3 |-> IF (k - e) % 8 < 4 THEN x[(k - e) % 4] ELSE -x[(k - e) % 4]]

Times(x, y) ==
    LET Term(i) == [k \in 0..3 |-> x[i] * Turn(i, y)[k]]
    IN  Plus(Plus(Term(0), Term(1)), Plus(Term(2), Term(3)))

IsZero(x) == x = Constant(0)
=============================================================================
