----------------------------- MODULE QcpuKernel -----------------------------
(***************************************************************************)
(* src/quantum/qcpu_kernel.c: a state vector of 2^n amplitudes, gates as   *)
(* loops over it that work in place, sampling, measurement and shots.      *)
(*                                                                         *)
(* H, X and CX keep amplitudes real, so one is an integer over             *)
(* sqrt(2)^half, exactly.  The code multiplies by a rounded 1/sqrt(2) in   *)
(* every H and never scales back (two H on one qubit leave the amplitude   *)
(* 0.9999999999999998), so from the first H on the squares may add up to   *)
(* less than a draw: rounded says so, and Sample then takes the last       *)
(* state.  H, X and CX make all nonzero amplitudes of a register equally   *)
(* large, rounded too, so a difference that is 0 is exactly 0.             *)
(***************************************************************************)
EXTENDS BasisStates, FiniteSets

CONSTANTS
    Widths,     \* values of qubit_count that callers pass
    Shots,      \* values of shots that callers pass
    MaxSampled  \* a bound: the widest register the free program samples

ASSUME KernelAssumption == Widths \subseteq Nat /\ Shots \subseteq Nat /\ MaxSampled \in Nat

VARIABLES
    kernel,     \* *kernel
    result,     \* *result of the last run_shots, until it is freed
    status      \* what the last call returned

kernelVars == <<kernel, result, status>>

QCPU_KERNEL_MAX_QUBITS == 20

\* memset(kernel, 0, ...); amplitudes of one element stands for NULL.
Zeroed ==
    [qubit_count |-> 0, amplitudes |-> [i \in 0..0 |-> 0], half |-> 0,
     rounded |-> FALSE, measured |-> FALSE, measured_state |-> 0]

NoResult == [shots |-> 0, counts |-> << >>]

qcpu_kernel_ready(k) == k.qubit_count # 0

state_count(k) == Pow2[k.qubit_count]

states(k) == 0..state_count(k) - 1

Register ==
    INSTANCE QuantumRegister WITH
        width <- kernel.qubit_count,
        half <- kernel.half,
        psi <- [v \in Vectors(kernel.qubit_count) |->
                  kernel.amplitudes[Index(v, kernel.qubit_count)]]

\* The amplitudes after an operation that multiplied them by 1/sqrt(2)^h.
Amplitudes(k, a, h) ==
    LET r == Reduced(a, k.half + h)
    IN  [k EXCEPT !.amplitudes = r.a, !.half = r.half, !.rounded = @ \/ h # 0]

\* One amplitude is 1.0, after memset.
Collapsed(k, index) ==
    [k EXCEPT !.amplitudes = [i \in states(k) |-> IF i = index THEN 1 ELSE 0], !.half = 0,
              !.rounded = FALSE]

Reset(k) == [Collapsed(k, 0) EXCEPT !.measured = FALSE, !.measured_state = 0]

qcpu_qubit_mask(k, qubit) == Pow2[k.qubit_count - 1 - qubit]

\* (index & mask) != 0, for a mask of one bit
Has(index, mask) == (index \div mask) % 2 = 1

\* for (index = 0; index < state_count; ++index) on the array in place
Loop(k, Body(_, _)) ==
    LET after[n \in 0..state_count(k)] ==
            IF n = 0 THEN k.amplitudes ELSE Body(after[n - 1], n - 1)
    IN  after[state_count(k)]

ApplyH(k, qubit) ==
    LET mask == qcpu_qubit_mask(k, qubit)
        Body(a, index) ==
            LET paired == index + mask
            IN  IF Has(index, mask) THEN a
                ELSE [a EXCEPT ![index] = a[index] + a[paired], ![paired] = a[index] - a[paired]]
    IN  [Amplitudes(k, Loop(k, Body), 1) EXCEPT !.measured = FALSE]

ApplyX(k, qubit) ==
    LET mask == qcpu_qubit_mask(k, qubit)
        Body(a, index) ==
            LET paired == index + mask
            IN  IF Has(index, mask) THEN a
                ELSE [a EXCEPT ![index] = a[paired], ![paired] = a[index]]
    IN  [Amplitudes(k, Loop(k, Body), 0) EXCEPT !.measured = FALSE]

ApplyCX(k, control, target) ==
    LET control_mask == qcpu_qubit_mask(k, control)
        target_mask == qcpu_qubit_mask(k, target)
        Body(a, index) ==
            LET paired == index + target_mask
            IN  IF ~Has(index, control_mask) \/ Has(index, target_mask) THEN a
                ELSE [a EXCEPT ![index] = a[paired], ![paired] = a[index]]
    IN  [Amplitudes(k, Loop(k, Body), 0) EXCEPT !.measured = FALSE]

\* Mutant: the last qubit is left out of the chain.
ApplyGhzShort(k) ==
    LET after[qubit \in 0..k.qubit_count - 1] ==
            IF qubit = 0 THEN ApplyH(Reset(k), 0) ELSE ApplyCX(after[qubit - 1], qubit - 1, qubit)
    IN  after[Max({0, k.qubit_count - 2})]

\* Mutant: the state is not reset first.
ApplyGhzFromFirst(k) ==
    LET after[qubit \in 0..k.qubit_count - 1] ==
            IF qubit = 0 THEN ApplyH(k, 0) ELSE ApplyCX(after[qubit - 1], qubit - 1, qubit)
    IN  after[k.qubit_count - 1]

ApplyGhz(k) ==
    LET after[qubit \in 0..k.qubit_count - 1] ==
            IF qubit = 0 THEN ApplyH(Reset(k), 0) ELSE ApplyCX(after[qubit - 1], qubit - 1, qubit)
    IN  after[k.qubit_count - 1]

\* qcpu_kernel_norm, in units of 1/2^half: Cumulative(k)[i] is its sum after i terms.
Cumulative(k) ==
    Sums([i \in states(k) |-> k.amplitudes[i] * k.amplitudes[i]], state_count(k))

norm_is_one(k) == Cumulative(k)[state_count(k)] = Pow2[k.half]

\* qcpu_rng_unit: any number of [0, 1), of which only its place among the sums
\* matters; half a unit is as fine as is needed.  The second component says
\* that rounding has made the sums short.
Draws(k) == (0..Pow2[k.half + 1] - 1) \X (IF k.rounded THEN {0, 1} ELSE {0})

\* qcpu_kernel_sample: the first index above the draw, or the last one.
Sample(k, draw) ==
    Min({i \in states(k) : \/ draw[1] + draw[2] < 2 * Cumulative(k)[i + 1]
                           \/ i + 1 = state_count(k)})

Outcomes(k) == {Sample(k, draw) : draw \in Draws(k)}

Measured(k, state) ==
    [Collapsed(k, state) EXCEPT !.measured = TRUE, !.measured_state = state]

\* The loop of qcpu_kernel_run_shots over the states it sampled.
Counted(k, sampled) ==
    [i \in states(k) |-> Cardinality({n \in DOMAIN sampled : sampled[n] = i})]

-----------------------------------------------------------------------------
(* The calls.  An error leaves *kernel as it was.                          *)

Returns(s) == status' = s

Refuse(s) == Returns(s) /\ UNCHANGED <<kernel, result>>

Ok(k) == Returns("OK") /\ kernel' = k /\ UNCHANGED result

\* A call on a kernel that is not ready, or with an argument out of range.
Checked(inRange, Effect) ==
    \/ ~qcpu_kernel_ready(kernel) /\ Refuse("ARGUMENT")
    \/ qcpu_kernel_ready(kernel) /\ ~inRange /\ Refuse("RANGE")
    \/ qcpu_kernel_ready(kernel) /\ inRange /\ Effect

\* calloc may fail.
qcpu_kernel_init(n) ==
    IF n \in 1..QCPU_KERNEL_MAX_QUBITS
    THEN \/ Ok(Reset([Zeroed EXCEPT !.qubit_count = n]))
         \/ Returns("ALLOC") /\ kernel' = Zeroed /\ UNCHANGED result
    ELSE Refuse("RANGE")

qcpu_kernel_free == kernel' = Zeroed /\ UNCHANGED <<result, status>>

qcpu_kernel_reset == Checked(TRUE, Ok(Reset(kernel)))

qcpu_kernel_apply_h(q) == Checked(q < kernel.qubit_count, Ok(ApplyH(kernel, q)))

qcpu_kernel_apply_x(q) == Checked(q < kernel.qubit_count, Ok(ApplyX(kernel, q)))

qcpu_kernel_apply_cx(c, t) ==
    Checked(c < kernel.qubit_count /\ t < kernel.qubit_count /\ c # t,
            Ok(ApplyCX(kernel, c, t)))

qcpu_kernel_apply_ghz == Checked(TRUE, Ok(ApplyGhz(kernel)))

\* Its tolerances are far above what rounding does to the norm.
qcpu_kernel_validate ==
    Checked(TRUE, IF norm_is_one(kernel) THEN Ok(kernel) ELSE Refuse("STATE"))

qcpu_kernel_measure ==
    Checked(TRUE, \E state \in Outcomes(kernel) : Ok(Measured(kernel, state)))

\* The amplitudes stay as they are.
qcpu_kernel_run_shots(shots) ==
    IF ~qcpu_kernel_ready(kernel) \/ shots = 0
    THEN Refuse("ARGUMENT")
    ELSE \/ \E sampled \in [1..shots -> Outcomes(kernel)] :
              /\ result' = [shots |-> shots, counts |-> Counted(kernel, sampled)]
              /\ Returns("OK")
              /\ UNCHANGED kernel
         \/ result' = NoResult /\ Returns("ALLOC") /\ UNCHANGED kernel

qcpu_shot_result_free == result' = NoResult /\ UNCHANGED <<kernel, status>>

-----------------------------------------------------------------------------
(* A program that calls the library as it likes, but frees what it got     *)
(* before it asks for another.                                             *)

KernelInit == kernel = Zeroed /\ result = NoResult /\ status = "OK"

KernelNext ==
    \/ result # NoResult /\ qcpu_shot_result_free
    \/ /\ result = NoResult
       /\ \/ ~qcpu_kernel_ready(kernel) /\ \E n \in Widths : qcpu_kernel_init(n)
          \/ qcpu_kernel_free
          \/ qcpu_kernel_reset
          \/ \E q \in 0..kernel.qubit_count :
               \/ qcpu_kernel_apply_h(q)
               \/ qcpu_kernel_apply_x(q)
               \/ \E t \in 0..kernel.qubit_count : qcpu_kernel_apply_cx(q, t)
          \/ qcpu_kernel_apply_ghz
          \/ qcpu_kernel_validate
          \/ /\ kernel.qubit_count <= MaxSampled
             /\ \/ qcpu_kernel_measure
                \/ \E shots \in Shots : qcpu_kernel_run_shots(shots)

-----------------------------------------------------------------------------
(* Properties.                                                             *)

\* The one call that is not a step of the register: the sum of the squares fell
\* short of the draw, and the measurement finds the last state although its
\* amplitude is 0.
MeasuredPastTheSum ==
    LET last == state_count(kernel) - 1
    IN  kernel.rounded /\ kernel.amplitudes[last] = 0 /\ kernel' = Measured(kernel, last)

\* The loops over the array, in place and through masks, are the gates of the
\* textbook with qubit 0 as the most significant bit, apply_ghz makes the GHZ
\* state from whatever state the kernel was in, and a measurement finds a state
\* whose amplitude is not 0: every call that changes the amplitudes is a step of
\* the register, but for a measurement whose draw lies past the rounded sum.
ImplementsRegister ==
    /\ Register!Off
    /\ [][Register!Next \/ MeasuredPastTheSum]_(Register!registerVars)

=============================================================================
