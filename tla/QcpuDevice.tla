----------------------------- MODULE QcpuDevice -----------------------------
(***************************************************************************)
(* What a client of the QCPU device may rely on, as a state machine over   *)
(* the fields GET_STATUS reports (struct qcpu_uapi_status_v1): one session,*)
(* one request in flight, a request settles exactly once, the session      *)
(* cannot close while a request runs.  It says nothing of threads, workers,*)
(* cancellation or memory.                                                 *)
(***************************************************************************)
EXTENDS Naturals

CONSTANT CounterMod

VARIABLES
    exists,             \* the device handle is valid
    session,            \* active_client_sessions = 1
    attached,           \* a backend is registered
    state,              \* device_state
    inflight,           \* "none", "pending", or "abandoned" after a timeout
    completed, failed   \* the execution counters

vars == <<exists, session, attached, state, inflight, completed, failed>>

Bump(n) == IF n + 1 = CounterMod THEN 0 ELSE n + 1

RestState == IF attached THEN {"IDLE", "OFFLINE"} ELSE {"OFFLINE"}

Init ==
    /\ exists = TRUE /\ session = FALSE
    /\ attached \in BOOLEAN
    /\ state = (IF attached THEN "IDLE" ELSE "OFFLINE")
    /\ inflight = "none"
    /\ completed = 0 /\ failed = 0

Create ==
    /\ ~exists
    /\ exists' = TRUE /\ session' = FALSE
    /\ attached' \in BOOLEAN
    /\ state' = (IF attached' THEN "IDLE" ELSE "OFFLINE")
    /\ inflight' = "none"
    /\ completed' = 0 /\ failed' = 0

Attach ==
    /\ exists /\ inflight = "none"
    /\ attached' \in BOOLEAN
    /\ state' = (IF attached' THEN "IDLE" ELSE "OFFLINE")
    /\ UNCHANGED <<exists, session, inflight, completed, failed>>

Open ==
    /\ exists /\ ~session
    /\ session' = TRUE
    /\ UNCHANGED <<exists, attached, state, inflight, completed, failed>>

Close ==
    /\ session /\ inflight = "none"
    /\ session' = FALSE
    /\ UNCHANGED <<exists, attached, state, inflight, completed, failed>>

\* A rejected request may reveal that no backend is attached.
Reject ==
    /\ ~attached /\ inflight = "none"
    /\ state' = "OFFLINE"
    /\ UNCHANGED <<exists, session, attached, inflight, completed, failed>>

Admit ==
    /\ exists /\ session /\ attached /\ inflight = "none"
    /\ inflight' = "pending"
    /\ state' = "BUSY"
    /\ UNCHANGED <<exists, session, attached, completed, failed>>

\* An admitted request for which no worker could be started.
FailAtOnce ==
    /\ exists /\ session /\ attached /\ inflight = "none"
    /\ failed' = Bump(failed)
    /\ state' = "IDLE"
    /\ UNCHANGED <<exists, session, attached, inflight, completed>>

Settle ==
    /\ inflight = "pending"
    /\ inflight' = "none"
    /\ \/ completed' = Bump(completed) /\ state' = "IDLE" /\ UNCHANGED failed
       \/ failed' = Bump(failed) /\ state' \in RestState /\ UNCHANGED completed
    /\ UNCHANGED <<exists, session, attached>>

\* The caller gives up; the device stays BUSY until the backend lets go.
Abandon ==
    /\ inflight = "pending"
    /\ inflight' = "abandoned"
    /\ failed' = Bump(failed)
    /\ UNCHANGED <<exists, session, attached, state, completed>>

LetGo ==
    /\ inflight = "abandoned"
    /\ inflight' = "none"
    /\ state' \in RestState
    /\ UNCHANGED <<exists, session, attached, completed, failed>>

Destroy ==
    /\ exists /\ ~session /\ inflight = "none"
    /\ exists' = FALSE
    /\ UNCHANGED <<session, attached, state, inflight, completed, failed>>

Next ==
    \/ Create \/ Attach \/ Open \/ Close \/ Reject \/ Admit \/ FailAtOnce
    \/ Settle \/ Abandon \/ LetGo \/ Destroy

Spec == Init /\ [][Next]_vars
=============================================================================
