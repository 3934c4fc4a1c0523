---------------------------- MODULE BasisStates -----------------------------
(***************************************************************************)
(* Indexes of a state vector, and what a loop adds up over them.           *)
(***************************************************************************)
EXTENDS Integers, FiniteSetsExt, PowersOfTwo

\* Sums(f, n)[m] is f[0] + ... + f[m - 1].
Sums(f, n) ==
    LET sum[m \in 0..n] == IF m = 0 THEN 0 ELSE sum[m - 1] + f[m - 1]
    IN  sum

Vectors(n) == [0..n - 1 -> {0, 1}]
Zeros(n) == [q \in 0..n - 1 |-> 0]
Ones(n) == [q \in 0..n - 1 |-> 1]

\* LeadingDigits(v, n)[m] is the number whose binary digits are the first m of v.
LeadingDigits(v, n) ==
    LET prefix[m \in 0..n] == IF m = 0 THEN 0 ELSE 2 * prefix[m - 1] + v[m - 1]
    IN  prefix

\* The place of a basis state in an array, the first qubit the most significant bit.
Index(v, n) == LeadingDigits(v, n)[n]

\* Vectors of amplitudes: a basis state, the GHZ state in units of 1/sqrt(2), and
\* what the gates of a textbook make of a vector, H in units of 1/sqrt(2).
OnlyOf(n, v) == [w \in Vectors(n) |-> IF w = v THEN 1 ELSE 0]

GhzOf(n) == [v \in Vectors(n) |-> IF v \in {Zeros(n), Ones(n)} THEN 1 ELSE 0]

HadamardOf(a, n, q) ==
    [v \in Vectors(n) |-> LET zero == a[[v EXCEPT ![q] = 0]]
                              one == a[[v EXCEPT ![q] = 1]]
                          IN  IF v[q] = 0 THEN zero + one ELSE zero - one]

NotOf(a, n, q) == [v \in Vectors(n) |-> a[[v EXCEPT ![q] = 1 - @]]]

ControlledNotOf(a, n, c, t) ==
    [v \in Vectors(n) |-> a[[v EXCEPT ![t] = IF v[c] = 1 THEN 1 - @ ELSE @]]]

\* a / sqrt(2)^h in lowest terms, whatever the amplitudes are indexed by.
Reduced(a, h) ==
    LET j == Max({i \in 0..h \div 2 : \A v \in DOMAIN a : a[v] % Pow2[i] = 0})
    IN  [a |-> [v \in DOMAIN a |-> a[v] \div Pow2[j]], half |-> h - 2 * j]
=============================================================================
