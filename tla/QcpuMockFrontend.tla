-------------------------- MODULE QcpuMockFrontend --------------------------
(***************************************************************************)
(* The userspace QCPU device frontend, src/device/qcpu_mock_frontend.c:    *)
(* one struct qcpu_mock shared by client threads, and one detached worker  *)
(* thread per admitted exchange.                                           *)
(*                                                                         *)
(* A step is a stretch of code under mock->mutex (nothing in it blocks), a *)
(* backend callback, or an atomic reference-count update.  The code        *)
(* releases the mutex in four places and so does the model: while a caller *)
(* waits for its worker, around the cancel callbacks of the exchange and   *)
(* of close, while close waits for BUSY to end, and between the check and  *)
(* the free of destroy.  A deadline may expire at any time, so a timed     *)
(* wait may return ETIMEDOUT in any state, done or not.                    *)
(*                                                                         *)
(* A call that only reports an error and changes nothing (the EBUSY of     *)
(* set_backend, the EINVAL of close, GET_STATUS, GET_CAPS) is a stuttering *)
(* step and has no action.                                                 *)
(***************************************************************************)
EXTENDS Integers, QcpuUapi

CONSTANTS
    Threads,          \* client threads; each may call exchange
    Owners,           \* the threads that also open, close, attach and destroy
    Tasks, NoTask,    \* heap cells for struct qcpu_exchange_task, and NULL
    Backends, NoBackend,
    Cancelable,       \* the backends whose ops have a cancel callback
    Exchanges,        \* the exchange arguments clients submit
    BackendOutcomes,  \* what an exchange callback may return
    CounterMod        \* 2^64: the request counters are uint64_t

ASSUME FrontendAssumption ==
    /\ Owners \subseteq Threads
    /\ NoTask \notin Tasks
    /\ NoBackend \notin Backends
    /\ Cancelable \subseteq Backends
    /\ Exchanges \subseteq Exchange
    /\ BackendOutcomes \subseteq BackendOutcome
    /\ CounterMod \in Nat /\ CounterMod > 1

VARIABLES
    allocated,           \* the struct exists: created and not yet freed
    session_open, lock_fd,
    flock_owner,         \* who holds the flock() on the lock file
    backend,             \* backend_ops and backend_context; NoBackend: not attached
    busy, cancel_requested, cancel_sent, active_task,
    device_state,
    last,                \* last_errno and last_protocol_status
    completed_requests, failed_requests,
    task,                \* Tasks -> struct qcpu_exchange_task
    worker,              \* Tasks -> where the worker thread of the task is
    pc, local,           \* Threads -> where the call is, and its C locals
    admitted             \* history: exchanges that passed validation

sessionVars == <<session_open, lock_fd, flock_owner>>
requestVars == <<busy, cancel_requested, cancel_sent, active_task>>
statusVars == <<device_state, last, completed_requests, failed_requests, admitted>>
mockVars == <<allocated, backend, sessionVars, requestVars, statusVars>>
threadVars == <<pc, local>>
taskVars == <<task, worker>>
vars == <<mockVars, threadVars, taskVars>>

\* A task that has not run.  "canceled" is history: the backend has
\* received a cancel callback while the task was active.
NewTask(references, b, request) ==
    [references |-> references, backend |-> b, request |-> request, outcome |-> ZeroOutcome,
     done |-> FALSE, caller_abandoned |-> FALSE, canceled |-> FALSE]

\* A cell that is not allocated.
FreeTask == NewTask(0, NoBackend, ZeroRequest)

\* The C locals of a call: those of the exchange, and the copy of the backend
\* that close makes before it drops the mutex.
Locals(t, b, timed_out, call_cancel) ==
    [task |-> t, backend |-> b, timed_out |-> timed_out, call_cancel |-> call_cancel,
     errno |-> "0"]

IdleLocal == Locals(NoTask, NoBackend, FALSE, FALSE)

DetachedState(b) == IF b = NoBackend THEN "OFFLINE" ELSE "IDLE"

Init ==
    /\ allocated = TRUE
    /\ session_open = FALSE /\ lock_fd = -1 /\ flock_owner = "none"
    /\ backend \in Backends \cup {NoBackend}
    /\ busy = FALSE /\ cancel_requested = FALSE /\ cancel_sent = FALSE
    /\ active_task = NoTask
    /\ device_state = DetachedState(backend)
    /\ last = Accepted
    /\ completed_requests = 0 /\ failed_requests = 0 /\ admitted = 0
    /\ task = [t \in Tasks |-> FreeTask]
    /\ worker = [t \in Tasks |-> "none"]
    /\ pc = [th \in Threads |-> "idle"]
    /\ local = [th \in Threads |-> IdleLocal]

-----------------------------------------------------------------------------
(* Helpers that run under the mutex, and the atomic reference count.       *)

\* A client calls into the frontend.  Callers do not start a call on a struct
\* that is freed or that a destroy has already found quiescent.
MayCall(th) ==
    /\ pc[th] = "idle"
    /\ allocated
    /\ \A u \in Threads : pc[u] # "destroy_free"

Goto(th, label) == pc' = [pc EXCEPT ![th] = label]

Return(th) ==
    /\ Goto(th, "idle")
    /\ local' = [local EXCEPT ![th] = IdleLocal]

Increment(n) == IF n + 1 = CounterMod THEN 0 ELSE n + 1

\* qcpu_request_cancel_locked(): at most one caller is told to cancel.
CancelNow == busy /\ ~cancel_sent

qcpu_request_cancel_locked ==
    /\ cancel_requested' = (cancel_requested \/ CancelNow)
    /\ cancel_sent' = (cancel_sent \/ CancelNow)

\* Mutant: the caller looks at cancel_sent after it was set.
CallCancelLate == busy /\ ~(cancel_sent \/ CancelNow) /\ backend \in Cancelable

CallCancel == CancelNow /\ backend \in Cancelable

\* qcpu_finalize_exchange_locked(), with the active_task = NULL of its callers.
qcpu_finalize_exchange_locked(verdict) ==
    /\ completed_requests' =
          IF verdict = Accepted THEN Increment(completed_requests) ELSE completed_requests
    /\ failed_requests' =
          IF verdict = Accepted THEN failed_requests ELSE Increment(failed_requests)
    /\ last' = verdict
    /\ busy' = FALSE
    /\ cancel_requested' = FALSE
    /\ cancel_sent' = FALSE
    /\ active_task' = NoTask
    /\ device_state' =
          IF verdict.status = "BACKEND_ABSENT" \/ backend = NoBackend
          THEN "OFFLINE" ELSE "IDLE"

\* qcpu_task_release(): the last reference frees the cell.
qcpu_task_release(t) ==
    task' = IF task[t].references = 1
            THEN [task EXCEPT ![t] = FreeTask]
            ELSE [task EXCEPT ![t].references = @ - 1]

\* The cancel callback of backend b, which may be running active_task.
InvokeCancel(b) ==
    task' = IF active_task # NoTask /\ task[active_task].backend = b
            THEN [task EXCEPT ![active_task].canceled = TRUE]
            ELSE task
-----------------------------------------------------------------------------
(* qcpu_mock_create, set_backend, open.                                    *)

qcpu_mock_create(b) ==
    /\ ~allocated
    /\ \A th \in Threads : pc[th] = "idle"
    /\ allocated' = TRUE
    /\ session_open' = FALSE /\ lock_fd' = -1
    /\ backend' = b
    /\ busy' = FALSE /\ cancel_requested' = FALSE /\ cancel_sent' = FALSE
    /\ active_task' = NoTask
    /\ device_state' = DetachedState(b)
    /\ last' = Accepted
    /\ completed_requests' = 0 /\ failed_requests' = 0 /\ admitted' = 0
    /\ UNCHANGED <<flock_owner, threadVars, taskVars>>

qcpu_mock_set_backend(th, b) ==
    /\ MayCall(th)
    /\ ~busy
    /\ backend' = b
    /\ device_state' = DetachedState(b)
    /\ UNCHANGED <<allocated, sessionVars, requestVars, last, completed_requests,
                   failed_requests, admitted, threadVars, taskVars>>

qcpu_mock_open(th) ==
    /\ MayCall(th)
    /\ ~session_open
    /\ flock_owner = "none"
    /\ flock_owner' = "mock"
    /\ lock_fd' = 0
    /\ session_open' = TRUE
    /\ UNCHANGED <<allocated, backend, requestVars, statusVars, threadVars, taskVars>>

\* Another process using the same runtime directory takes or drops the flock.
OtherProcess ==
    /\ \/ flock_owner = "none" /\ flock_owner' = "other"
       \/ flock_owner = "other" /\ flock_owner' = "none"
    /\ UNCHANGED <<allocated, backend, session_open, lock_fd, requestVars,
                   statusVars, threadVars, taskVars>>
-----------------------------------------------------------------------------
(* qcpu_exchange_ioctl, caller side.                                       *)

Prevalidate(x, clock) ==
    qcpu_prevalidate_exchange(x, clock, session_open, busy, backend # NoBackend)

RecordReject(verdict) ==
    /\ last' = verdict
    /\ device_state' = IF verdict.status = "BACKEND_ABSENT" THEN "OFFLINE" ELSE device_state
    /\ UNCHANGED <<allocated, backend, sessionVars, requestVars, completed_requests,
                   failed_requests, admitted, threadVars, taskVars>>

ExchangeReject(th, x, clock) ==
    /\ MayCall(th)
    /\ Prevalidate(x, clock) # Accepted
    /\ RecordReject(Prevalidate(x, clock))

ExchangeNull(th) ==
    /\ MayCall(th)
    /\ RecordReject(IF session_open THEN V("EINVAL", "RANGE") ELSE V("EBUSY", "BUSY"))

\* calloc(), pthread_attr_init() or pthread_create() failed: nothing is
\* dispatched, yet the request is finalized as a failed one.
ExchangeNoWorker(th, x) ==
    /\ MayCall(th)
    /\ Prevalidate(x, "ok") = Accepted
    /\ \E errno \in {"ENOMEM", "EAGAIN"} : qcpu_finalize_exchange_locked(V(errno, "IO"))
    /\ admitted' = Increment(admitted)
    /\ UNCHANGED <<allocated, backend, sessionVars, threadVars, taskVars>>

ExchangeDispatch(th, x, t) ==
    /\ MayCall(th)
    /\ Prevalidate(x, "ok") = Accepted
    /\ task[t].references = 0
    /\ task' = [task EXCEPT ![t] = NewTask(2, backend, x.request)]
    /\ worker' = [worker EXCEPT ![t] = "created"]
    /\ busy' = TRUE
    /\ cancel_requested' = FALSE
    /\ cancel_sent' = FALSE
    /\ active_task' = t
    /\ device_state' = "BUSY"
    /\ admitted' = Increment(admitted)
    /\ Goto(th, "exchange_wait")
    /\ local' = [local EXCEPT ![th].task = t]
    /\ UNCHANGED <<allocated, backend, sessionVars, last, completed_requests, failed_requests>>

\* The timed wait returns and finds the task done; the mutex is dropped and
\* taken again all the same.
ExchangeWake(th) ==
    /\ pc[th] = "exchange_wait"
    /\ allocated
    /\ task[local[th].task].done
    /\ Goto(th, "exchange_unlocked")
    /\ UNCHANGED <<mockVars, local, taskVars>>

\* Mutant: the caller waits with no deadline.
WaitForever(th) ==
    /\ pc[th] = "exchange_wait"
    /\ task[local[th].task].done
    /\ Goto(th, "exchange_unlocked")
    /\ UNCHANGED <<mockVars, local, taskVars>>

\* The timed wait returns ETIMEDOUT.  The second test of the wait loop breaks
\* out of it even when the task has become done meanwhile.
ExchangeTimeout(th) ==
    /\ pc[th] = "exchange_wait"
    /\ allocated
    /\ qcpu_request_cancel_locked
    /\ local' = [local EXCEPT ![th] = Locals(@.task, NoBackend, TRUE, CallCancel)]
    /\ Goto(th, "exchange_unlocked")
    /\ UNCHANGED <<allocated, backend, sessionVars, busy, active_task, statusVars, taskVars>>

ExchangeCancel(th) ==
    /\ pc[th] = "exchange_unlocked"
    /\ local[th].call_cancel
    /\ InvokeCancel(task[local[th].task].backend)
    /\ local' = [local EXCEPT ![th].call_cancel = FALSE]
    /\ UNCHANGED <<mockVars, pc, worker>>

Unanswered(th) == local[th].timed_out /\ ~task[local[th].task].done

ExchangeGrace(th) ==
    /\ pc[th] = "exchange_unlocked"
    /\ allocated
    /\ ~local[th].call_cancel
    /\ Unanswered(th)
    /\ Goto(th, "grace_wait")
    /\ UNCHANGED <<mockVars, local, taskVars>>

\* Mutant: a caller that gives up releases BUSY itself.
AbandonReleasesBusy(th) ==
    /\ pc[th] = "grace_wait"
    /\ allocated
    /\ ~task[local[th].task].done
    /\ qcpu_finalize_exchange_locked(V("ETIMEDOUT", "TIMEOUT"))
    /\ local' = [local EXCEPT ![th].errno = "ETIMEDOUT"]
    /\ Goto(th, "exchange_release")
    /\ UNCHANGED <<allocated, backend, sessionVars, admitted, taskVars>>

\* The grace period ends without an answer: the caller reports the timeout and
\* leaves the device BUSY for the worker to release.
ExchangeAbandon(th) ==
    /\ pc[th] = "grace_wait"
    /\ allocated
    /\ ~task[local[th].task].done
    /\ task' = [task EXCEPT ![local[th].task].caller_abandoned = TRUE]
    /\ failed_requests' = Increment(failed_requests)
    /\ last' = V("ETIMEDOUT", "TIMEOUT")
    /\ local' = [local EXCEPT ![th].errno = "ETIMEDOUT"]
    /\ Goto(th, "exchange_release")
    /\ UNCHANGED <<allocated, backend, sessionVars, requestVars, device_state,
                   completed_requests, admitted, worker>>

ExchangeFinish(th) ==
    LET t == task[local[th].task]
        verdict == Classify(local[th].timed_out, cancel_requested, t.request, t.outcome)
    IN  /\ \/ pc[th] = "exchange_unlocked" /\ ~local[th].call_cancel /\ ~Unanswered(th)
           \/ pc[th] = "grace_wait" /\ t.done
        /\ allocated
        /\ qcpu_finalize_exchange_locked(verdict)
        /\ local' = [local EXCEPT ![th].errno = verdict.errno]
        /\ Goto(th, "exchange_release")
        /\ UNCHANGED <<allocated, backend, sessionVars, admitted, taskVars>>

\* Mutant: the caller frees the task although the worker still uses it.
FreeOnReturn(th) ==
    /\ pc[th] = "exchange_release"
    /\ task' = [task EXCEPT ![local[th].task] = FreeTask]
    /\ Return(th)
    /\ UNCHANGED <<mockVars, worker>>

ExchangeRelease(th) ==
    /\ pc[th] = "exchange_release"
    /\ qcpu_task_release(local[th].task)
    /\ Return(th)
    /\ UNCHANGED <<mockVars, worker>>
-----------------------------------------------------------------------------
(* qcpu_exchange_worker.                                                   *)

WorkerCall(t) ==
    /\ worker[t] = "created"
    /\ worker' = [worker EXCEPT ![t] = "exchange"]
    /\ UNCHANGED <<mockVars, threadVars, task>>

\* The exchange callback returns.
WorkerReturn(t, outcome) ==
    /\ worker[t] = "exchange"
    /\ worker' = [worker EXCEPT ![t] = "returned"]
    /\ task' = [task EXCEPT ![t].outcome = outcome]
    /\ UNCHANGED <<mockVars, threadVars>>

\* Mutants: the worker of an abandoned exchange counts it as failed once more,
\* or leaves BUSY to a caller that is gone.
DoneCountsAgain(t) ==
    /\ worker[t] = "returned"
    /\ allocated
    /\ worker' = [worker EXCEPT ![t] = "release"]
    /\ task' = [task EXCEPT ![t].done = TRUE]
    /\ IF task[t].caller_abandoned
       THEN qcpu_finalize_exchange_locked(V("ETIMEDOUT", "TIMEOUT"))
       ELSE UNCHANGED <<requestVars, device_state, last, completed_requests, failed_requests>>
    /\ UNCHANGED <<allocated, backend, sessionVars, admitted, threadVars>>

DoneKeepsBusy(t) ==
    /\ worker[t] = "returned"
    /\ worker' = [worker EXCEPT ![t] = "release"]
    /\ task' = [task EXCEPT ![t].done = TRUE]
    /\ UNCHANGED <<mockVars, threadVars>>

\* The worker reports; it also ends BUSY when the caller has given up.
WorkerDone(t) ==
    /\ worker[t] = "returned"
    /\ allocated
    /\ worker' = [worker EXCEPT ![t] = "release"]
    /\ task' = [task EXCEPT ![t].done = TRUE]
    /\ IF task[t].caller_abandoned /\ active_task = t
       THEN /\ active_task' = NoTask
            /\ busy' = FALSE
            /\ cancel_requested' = FALSE
            /\ cancel_sent' = FALSE
            /\ device_state' =
                  IF backend = NoBackend \/ task[t].outcome.result = "-ENODEV"
                  THEN "OFFLINE" ELSE "IDLE"
       ELSE UNCHANGED <<requestVars, device_state>>
    /\ UNCHANGED <<allocated, backend, sessionVars, last, completed_requests,
                   failed_requests, admitted, threadVars>>

WorkerRelease(t) ==
    /\ worker[t] = "release"
    /\ worker' = [worker EXCEPT ![t] = "none"]
    /\ qcpu_task_release(t)
    /\ UNCHANGED <<mockVars, threadVars>>
-----------------------------------------------------------------------------
(* qcpu_mock_close and qcpu_mock_destroy.                                  *)

ReleaseSession ==
    /\ session_open' = FALSE
    /\ lock_fd' = -1
    /\ flock_owner' = IF lock_fd = -1 THEN flock_owner ELSE "none"

CloseIdle(th) ==
    /\ MayCall(th)
    /\ session_open
    /\ ~busy
    /\ ReleaseSession
    /\ UNCHANGED <<allocated, backend, requestVars, statusVars, threadVars, taskVars>>

\* Close finds a request in flight, not yet abandoned (that would be EBUSY):
\* it asks for cancellation and drops the mutex to call the backend.
CloseBusy(th) ==
    /\ MayCall(th)
    /\ session_open
    /\ busy
    /\ ~(active_task # NoTask /\ task[active_task].caller_abandoned)
    /\ qcpu_request_cancel_locked
    /\ local' = [local EXCEPT ![th] = Locals(NoTask, backend, FALSE, CallCancel)]
    /\ Goto(th, "close_cancel")
    /\ UNCHANGED <<allocated, backend, sessionVars, busy, active_task, statusVars, taskVars>>

CloseCancel(th) ==
    /\ pc[th] = "close_cancel"
    /\ IF local[th].call_cancel THEN InvokeCancel(local[th].backend) ELSE UNCHANGED task
    /\ local' = [local EXCEPT ![th].call_cancel = FALSE]
    /\ Goto(th, "close_wait")
    /\ UNCHANGED <<mockVars, worker>>

\* Mutant: close does not wait for BUSY to end.
CloseWithoutWait(th) ==
    /\ pc[th] = "close_wait"
    /\ allocated
    /\ ReleaseSession
    /\ Return(th)
    /\ UNCHANGED <<allocated, backend, requestVars, statusVars, taskVars>>

\* BUSY has ended.  The code does not look at session_open again.
CloseFinish(th) ==
    /\ pc[th] = "close_wait"
    /\ allocated
    /\ ~busy
    /\ ReleaseSession
    /\ Return(th)
    /\ UNCHANGED <<allocated, backend, requestVars, statusVars, taskVars>>

\* Mutant: destroy does not look for a session or a request.
DestroyUnchecked(th) ==
    /\ MayCall(th)
    /\ Goto(th, "destroy_free")
    /\ UNCHANGED <<mockVars, local, taskVars>>

DestroyCheck(th) ==
    /\ MayCall(th)
    /\ ~session_open
    /\ ~busy
    /\ Goto(th, "destroy_free")
    /\ UNCHANGED <<mockVars, local, taskVars>>

DestroyFree(th) ==
    /\ pc[th] = "destroy_free"
    /\ allocated' = FALSE
    /\ Return(th)
    /\ UNCHANGED <<backend, sessionVars, requestVars, statusVars, taskVars>>
-----------------------------------------------------------------------------
(* A call starts only because a client makes it; once started, a thread    *)
(* keeps running.                                                          *)

StartCall(th) ==
    \/ \E x \in Exchanges, clock \in ClockReadings : ExchangeReject(th, x, clock)
    \/ ExchangeNull(th)
    \/ \E x \in Exchanges : ExchangeNoWorker(th, x)
    \/ \E x \in Exchanges, t \in Tasks : ExchangeDispatch(th, x, t)

StartOwnerCall(th) ==
    \/ \E b \in Backends \cup {NoBackend} : qcpu_mock_set_backend(th, b)
    \/ qcpu_mock_open(th)
    \/ CloseIdle(th)
    \/ CloseBusy(th)
    \/ DestroyCheck(th)

ExchangeStep(th) ==
    \/ ExchangeWake(th)
    \/ ExchangeTimeout(th)
    \/ ExchangeCancel(th)
    \/ ExchangeGrace(th)
    \/ ExchangeAbandon(th)
    \/ ExchangeFinish(th)
    \/ ExchangeRelease(th)

WorkerStep(t) ==
    \/ WorkerCall(t)
    \/ WorkerDone(t)
    \/ WorkerRelease(t)

BackendReturns(t) == \E outcome \in BackendOutcomes : WorkerReturn(t, outcome)

Next ==
    \/ \E b \in Backends \cup {NoBackend} : qcpu_mock_create(b)
    \/ OtherProcess
    \/ \E th \in Threads :
         \/ StartCall(th)
         \/ ExchangeStep(th)
         \/ CloseCancel(th)
         \/ CloseFinish(th)
         \/ DestroyFree(th)
    \/ \E th \in Owners : StartOwnerCall(th)
    \/ \E t \in Tasks : WorkerStep(t) \/ BackendReturns(t)

Spec == Init /\ [][Next]_vars
-----------------------------------------------------------------------------
(* Fairness.  A thread inside a call is scheduled and its deadlines expire; *)
(* a worker thread runs.  Nothing is assumed of the clients that start      *)
(* calls, nor that an exchange callback returns, nor of who gets the mutex: *)
(* a close that wakes up may find BUSY set again by the next caller.        *)

ThreadFairness ==
    /\ \A th \in Threads :
         /\ WF_vars(ExchangeStep(th))
         /\ WF_vars(CloseCancel(th))
         /\ WF_vars(CloseFinish(th))
         /\ WF_vars(DestroyFree(th))
    /\ \A t \in Tasks : WF_vars(WorkerStep(t))

FairSpec == Spec /\ ThreadFairness
-----------------------------------------------------------------------------
(* Properties.                                                             *)

Labels ==
    {"idle", "exchange_wait", "exchange_unlocked", "grace_wait", "exchange_release",
     "close_cancel", "close_wait", "destroy_free"}

InExchange(th) == pc[th] \in {"exchange_wait", "exchange_unlocked", "grace_wait"}
HoldsTask(th, t) == pc[th] \in {"exchange_wait", "exchange_unlocked", "grace_wait",
                                "exchange_release"} /\ local[th].task = t
InCallback(t) == worker[t] \in {"created", "exchange", "returned"}

TaskRecord ==
    [references : 0..2, backend : Backends \cup {NoBackend},
     request : Request, outcome : BackendOutcome,
     done : BOOLEAN, caller_abandoned : BOOLEAN, canceled : BOOLEAN]

LocalRecord ==
    [task : Tasks \cup {NoTask}, backend : Backends \cup {NoBackend},
     timed_out : BOOLEAN, call_cancel : BOOLEAN, errno : Errnos]

\* Every field of the struct, of the tasks and of the C locals has its type.
TypeOK ==
    /\ allocated \in BOOLEAN
    /\ session_open \in BOOLEAN
    /\ lock_fd \in {-1, 0}
    /\ flock_owner \in {"none", "mock", "other"}
    /\ backend \in Backends \cup {NoBackend}
    /\ busy \in BOOLEAN /\ cancel_requested \in BOOLEAN /\ cancel_sent \in BOOLEAN
    /\ active_task \in Tasks \cup {NoTask}
    /\ device_state \in DeviceStates
    /\ last \in Verdict
    /\ completed_requests \in 0..CounterMod - 1
    /\ failed_requests \in 0..CounterMod - 1
    /\ admitted \in 0..CounterMod - 1
    /\ task \in [Tasks -> TaskRecord]
    /\ worker \in [Tasks -> {"none", "created", "exchange", "returned", "release"}]
    /\ pc \in [Threads -> Labels]
    /\ local \in [Threads -> LocalRecord]

\* QCPU_UAPI_MAX_INFLIGHT is 1: two exchange callbacks never overlap, not even
\* when the caller of the first has timed out and gone away.
OneInFlight ==
    \A t, u \in Tasks : InCallback(t) /\ InCallback(u) => t = u

\* An exchange callback runs only inside the session it was admitted in: close
\* cannot drop the cross-process lock under a running callback.
SessionCoversCallback ==
    \A t \in Tasks : InCallback(t) => session_open /\ flock_owner = "mock"

\* The task's reference count is the number of threads that still use it, so
\* neither the caller, nor the worker, nor close (which looks at
\* active_task->caller_abandoned) reads a freed task.
ReferencesCounted ==
    /\ \A t \in Tasks :
         task[t].references = (IF worker[t] # "none" THEN 1 ELSE 0)
                            + (IF \E th \in Threads : HoldsTask(th, t) THEN 1 ELSE 0)
    /\ active_task # NoTask => task[active_task].references > 0

\* GET_STATUS never lies about BUSY, and the attached backend cannot be swapped
\* under the exchange that runs on it.
BusyIsActiveTask ==
    /\ busy <=> device_state = "BUSY"
    /\ busy <=> active_task # NoTask
    /\ busy => backend # NoBackend /\ task[active_task].backend = backend
    /\ cancel_requested \/ cancel_sent => busy

\* The exchange in flight that neither counter has seen yet, if any.
Unsettled ==
    IF active_task # NoTask /\ ~task[active_task].caller_abandoned THEN 1 ELSE 0

\* Each admitted exchange is counted exactly once, as completed or as failed,
\* modulo the wrap of the counters; one that is abandoned by its caller is not
\* counted again when its worker comes back.
CountedOnce ==
    completed_requests + failed_requests + Unsettled \in {admitted, admitted + CounterMod}

\* No call and no worker is left inside a struct that destroy has freed.
NoUseAfterFree ==
    ~allocated => /\ \A th \in Threads : pc[th] \in {"idle", "exchange_release"}
                  /\ \A t \in Tasks : ~InCallback(t)

-----------------------------------------------------------------------------
(* The inductive invariant behind the safety properties.                   *)

UsesTask(th) == InExchange(th) \/ pc[th] = "exchange_release"

\* A caller that waits for its worker owns the active task; one that is about
\* to drop its reference has settled it or abandoned it.
CallerOwnsTask ==
    /\ \A th \in Threads :
         /\ InExchange(th) => /\ local[th].task = active_task
                              /\ active_task # NoTask
                              /\ ~task[active_task].caller_abandoned
         /\ pc[th] = "exchange_unlocked" => local[th].timed_out \/ task[active_task].done
         /\ pc[th] = "exchange_release" =>
              /\ local[th].task \in Tasks
              /\ local[th].task = active_task => task[active_task].caller_abandoned
    /\ \A th, u \in Threads :
         UsesTask(th) /\ UsesTask(u) /\ local[th].task = local[u].task => th = u

\* A running worker owns the active task, and the active task always has
\* somebody who will settle it: its caller, or its worker once abandoned.
WorkerOwnsTask ==
    /\ \A t \in Tasks : /\ InCallback(t) => active_task = t /\ ~task[t].done
                        /\ worker[t] = "release" => task[t].done
    /\ active_task # NoTask =>
         /\ InCallback(active_task) \/ task[active_task].done
         /\ IF task[active_task].caller_abandoned
            THEN InCallback(active_task)
            ELSE \E th \in Threads : InExchange(th)

\* A request needs a session, a session holds the lock, and destroy frees the
\* struct only when there is neither.
SessionOwnsLock ==
    /\ busy => session_open
    /\ session_open <=> lock_fd = 0
    /\ session_open <=> flock_owner = "mock"
    /\ session_open => allocated
    /\ \A th \in Threads :
         /\ pc[th] = "destroy_free" => allocated /\ ~session_open
         /\ pc[th] \in {"close_cancel", "close_wait", "destroy_free"} => th \in Owners
         /\ \A u \in Threads : pc[th] = "destroy_free" /\ pc[u] = "destroy_free" => th = u

\* Callers, workers, session and counters agree at every step of every thread.
IInv ==
    /\ TypeOK
    /\ CallerOwnsTask
    /\ WorkerOwnsTask
    /\ SessionOwnsLock
    /\ ReferencesCounted
    /\ BusyIsActiveTask
    /\ CountedOnce
-----------------------------------------------------------------------------
(* Liveness, and what the documents say of the frontend.                   *)

\* An exchange that passed its deadline returns even if the backend hangs.
ExchangeReturns == \A th \in Threads : InExchange(th) ~> pc[th] = "idle"

\* What a backend promises: its exchange callback returns.
CallbacksReturn == \A t \in Tasks : worker[t] = "exchange" ~> worker[t] # "exchange"

\* From some point on no client gets an exchange admitted.
AdmissionsEnd ==
    <>[][\A th \in Threads : pc'[th] = "exchange_wait" => pc[th] = "exchange_wait"]_vars

\* On a backend that keeps its promise, nothing but further exchanges keeps a
\* close waiting: once no more are admitted, whatever became of the ones before
\* (answered, timed out, canceled, abandoned), every close returns.  A client that
\* is admitted again and again before the close gets the mutex can keep it waiting.
CloseReturns ==
    CallbacksReturn /\ AdmissionsEnd =>
        \A th \in Threads : pc[th] = "close_wait" ~> pc[th] = "idle"

\* While an abandoned exchange still runs, its backend has been asked to cancel
\* it, if it can be asked: by the caller, or by the one close that was told to
\* under the mutex and may not have made its call yet.
AbandonedWasAsked ==
    active_task # NoTask =>
      LET t == task[active_task]
      IN  t.caller_abandoned /\ t.backend \in Cancelable =>
            \/ t.canceled
            \/ \E th \in Owners : pc[th] = "close_cancel" /\ local[th].call_cancel

\* The (errno, status) pairs of the design document's error map, and the pair
\* of an exchange for which no task or worker could be created.
ErrorMap ==
    {V("0", "OK"), V("EPROTO", "BAD_MAGIC"), V("EPROTONOSUPPORT", "BAD_VERSION"),
     V("EOPNOTSUPP", "BAD_COMMAND"), V("ERANGE", "RANGE"), V("EINVAL", "RANGE"),
     V("EIO", "KERNEL"), V("EIO", "IO"), V("ENODEV", "BACKEND_ABSENT"), V("EBUSY", "BUSY"),
     V("ETIMEDOUT", "TIMEOUT"), V("ECANCELED", "CANCELED"), V("ENOMEM", "IO"),
     V("EAGAIN", "IO")}

\* What the design document asks of a response that is delivered as a success,
\* as one conjunction instead of an ordered sequence of tests.
ValidResponse(request, response) ==
    /\ response.magic /\ response.version /\ response.flags
    /\ response.status = "OK"
    /\ response.qubits = request.qubits /\ response.shots = request.shots
    /\ response.norm_q32_32 <= NormOne
    /\ request.command = "RUN_GHZ" =>
          /\ response.basis_states = Pow2[request.qubits]
          /\ response.measured_state \in {0, response.basis_states - 1}
          /\ response.invalid_results = 0

\* What the backend of the active task said: it is gone.
BackendGone ==
    \/ task[active_task].outcome.result = "-ENODEV"
    \/ task[active_task].outcome.response.status = "BACKEND_ABSENT"

\* GET_STATUS reports an errno and a status that belong together, and the device
\* goes OFFLINE whenever it reports BACKEND_ABSENT and back to IDLE when BUSY ends
\* on a backend that did not disconnect, whichever of the many error paths the
\* request took.
ResultAgrees ==
    [][/\ last' # last /\ allocated /\ allocated' =>
            /\ last' \in ErrorMap
            /\ last'.status = "BACKEND_ABSENT" => device_state' = "OFFLINE"
       /\ busy /\ ~busy' /\ ~BackendGone => device_state' = "IDLE"]_vars

\* The design document's "A backend disconnect returns the frontend to OFFLINE":
\* when BUSY ends on an exchange whose callback returned -ENODEV, the device is
\* OFFLINE.
DisconnectGoesOffline ==
    [][busy /\ ~busy' /\ task[active_task].outcome.result = "-ENODEV"
         => device_state' = "OFFLINE"]_vars

\* An exchange is completed, and its response handed to the caller, exactly
\* when it was neither timed out nor canceled and the backend's answer is valid
\* for the request that this caller made.
CompletedIsValid ==
    [][\A th \in Threads :
         InExchange(th) /\ pc'[th] = "exchange_release" =>
           LET t == task[local[th].task]
           IN  completed_requests' # completed_requests
                 <=> /\ ~local[th].timed_out
                     /\ ~cancel_requested
                     /\ t.done
                     /\ t.outcome.result = "0"
                     /\ ValidResponse(t.request, t.outcome.response)]_vars

\* The frontend seen through the fields that GET_STATUS reports.
Device ==
    INSTANCE QcpuDevice WITH
        exists <- allocated,
        session <- session_open,
        attached <- (backend # NoBackend),
        state <- device_state,
        inflight <- IF active_task = NoTask THEN "none"
                    ELSE IF task[active_task].caller_abandoned THEN "abandoned"
                    ELSE "pending",
        completed <- completed_requests,
        failed <- failed_requests

\* The frontend implements the device a client sees: threads, workers, cancel
\* callbacks and abandoned tasks never show through the reported fields.
DeviceSpec == Device!Spec
=============================================================================
