----------------------- MODULE FrontendExchangeProofs -----------------------
(***************************************************************************)
(* Facts about the operators of QcpuMockFrontend that the proofs share,    *)
(* and the steps of an exchange up to the end of its wait: they preserve   *)
(* the inductive invariant, one lemma for each action of the calling       *)
(* thread and in it one step for each conjunct.  A step that needs to      *)
(* know a Boolean's value goes to Zenon, the others to SMT.                *)
(***************************************************************************)
EXTENDS QcpuMockFrontend, TLAPS

\* The time a leaf is given, by SMT and then by Zenon.
USE SMTT(60), ZenonT(60)

-----------------------------------------------------------------------------
(* The types of what the actions assign, and what an action that leaves a  *)
(* part of the state alone preserves.                                      *)

\* A task as qcpu_exchange_ioctl() allocates it is well typed.
LEMMA NewTaskType ==
    ASSUME NEW n \in 0..2, NEW b \in Backends \cup {NoBackend}, NEW r \in Request
    PROVE  NewTask(n, b, r) \in TaskRecord
BY DEF NewTask, TaskRecord, ZeroOutcome, BackendOutcome, Response, Statuses

\* So is a cell that is not allocated.
LEMMA FreeTaskType == FreeTask \in TaskRecord
<1>1. ZeroRequest \in Request
  BY DEF ZeroRequest, Request
<1>2. 0 \in 0..2
  OBVIOUS
<1> QED BY <1>1, <1>2, NewTaskType DEF FreeTask

\* The request counters wrap within their range.
LEMMA IncrementType ==
    ASSUME NEW n \in 0..CounterMod - 1
    PROVE  Increment(n) \in 0..CounterMod - 1
BY FrontendAssumption DEF Increment

\* The classification of an exchange yields an errno and a status of the UAPI.
LEMMA VerdictType ==
    ASSUME NEW request \in Request, NEW outcome \in BackendOutcome,
           NEW timed_out \in BOOLEAN, NEW canceled \in BOOLEAN
    PROVE  Classify(timed_out, canceled, request, outcome) \in Verdict
<1>1. \A s \in Statuses : V(qcpu_status_to_errno(s), s) \in Verdict
  BY DEF V, Verdict, qcpu_status_to_errno, Errnos, Statuses
<1>2. outcome.response.status # "UNKNOWN" => outcome.response.status \in Statuses
  BY DEF BackendOutcome, Response
<1>3. qcpu_validate_backend_response(request, outcome.response) \in Verdict
  BY <1>1, <1>2 DEF qcpu_validate_backend_response, qcpu_status_known, Accepted, V, Verdict,
       Errnos, Statuses
<1> QED
  BY <1>1, <1>2, <1>3 DEF Classify, qcpu_status_known, V, Verdict, Errnos, Statuses

\* So does the validation of its arguments.
LEMMA PrevalidateType ==
    ASSUME NEW x \in Exchange, NEW clock \in ClockReadings
    PROVE  Prevalidate(x, clock) \in Verdict
BY DEF Prevalidate, qcpu_prevalidate_exchange, Accepted, V, Verdict, Errnos, Statuses

\* Setting task->done keeps the task records well typed.
LEMMA TaskDone ==
    ASSUME TypeOK, NEW t \in Tasks
    PROVE  [task EXCEPT ![t].done = TRUE] \in [Tasks -> TaskRecord]
BY ZenonT(40) DEF TypeOK, TaskRecord

\* Setting task->caller_abandoned keeps the task records well typed.
LEMMA TaskAbandoned ==
    ASSUME TypeOK, NEW t \in Tasks
    PROVE  [task EXCEPT ![t].caller_abandoned = TRUE] \in [Tasks -> TaskRecord]
BY ZenonT(40) DEF TypeOK, TaskRecord

\* Storing the backend's answer keeps the task records well typed.
LEMMA TaskAnswered ==
    ASSUME TypeOK, NEW t \in Tasks, NEW outcome \in BackendOutcome
    PROVE  [task EXCEPT ![t].outcome = outcome] \in [Tasks -> TaskRecord]
BY ZenonT(40) DEF TypeOK, TaskRecord

\* Clearing call_cancel keeps the C locals well typed.
LEMMA LocalCanceled ==
    ASSUME TypeOK, NEW th \in Threads
    PROVE  [local EXCEPT ![th].call_cancel = FALSE] \in [Threads -> LocalRecord]
BY ZenonT(40) DEF TypeOK, LocalRecord

\* Setting the error number keeps the C locals well typed.
LEMMA LocalErrno ==
    ASSUME TypeOK, NEW th \in Threads, NEW errno \in Errnos
    PROVE  [local EXCEPT ![th].errno = errno] \in [Threads -> LocalRecord]
BY ZenonT(40) DEF TypeOK, LocalRecord

\* The locals an exchange or a close writes are well typed.
LEMMA LocalsType ==
    ASSUME NEW t \in Tasks \cup {NoTask}, NEW b \in Backends \cup {NoBackend},
           NEW timed_out \in BOOLEAN, NEW call_cancel \in BOOLEAN
    PROVE  Locals(t, b, timed_out, call_cancel) \in LocalRecord
BY DEF Locals, LocalRecord, Errnos

\* qcpu_task_release() drops one reference of one task; while the other
\* reference remains it changes nothing else.
LEMMA TaskReleased ==
    ASSUME TypeOK, NEW t \in Tasks, task[t].references \in 1..2, qcpu_task_release(t)
    PROVE  /\ task' \in [Tasks -> TaskRecord]
           /\ task'[t].references = task[t].references - 1
           /\ \A u \in Tasks : u # t => task'[u] = task[u]
           /\ task[t].references = 2 =>
                /\ task'[t].done = task[t].done
                /\ task'[t].caller_abandoned = task[t].caller_abandoned
                /\ task'[t].backend = task[t].backend
<1>1. CASE task[t].references = 1
  <2>1. task' = [task EXCEPT ![t] = FreeTask]
    BY <1>1 DEF qcpu_task_release
  <2> QED
    BY <1>1, <2>1, FreeTaskType DEF TypeOK, FreeTask, NewTask
<1>2. CASE task[t].references = 2
  <2>1. task' = [task EXCEPT ![t].references = 1]
    BY <1>2 DEF qcpu_task_release
  <2>2. task' \in [Tasks -> TaskRecord]
    BY <2>1 DEF TypeOK, TaskRecord
  <2> QED
    BY <1>2, <2>1, <2>2 DEF TypeOK, TaskRecord
<1> QED BY <1>1, <1>2

\* A cancel callback changes no field that the frontend reads.
LEMMA CancelInvoked ==
    ASSUME TypeOK, NEW b, InvokeCancel(b)
    PROVE  /\ task' \in [Tasks -> TaskRecord]
           /\ \A t \in Tasks : /\ task'[t].references = task[t].references
                              /\ task'[t].backend = task[t].backend
                              /\ task'[t].done = task[t].done
                              /\ task'[t].caller_abandoned = task[t].caller_abandoned
<1>1. CASE task' = task
  BY <1>1 DEF TypeOK
<1>2. CASE /\ active_task # NoTask
           /\ task' = [task EXCEPT ![active_task].canceled = TRUE]
  <2>1. active_task \in Tasks
    BY <1>2 DEF TypeOK
  <2> HIDE DEF TypeOK
  <2>3. task \in [Tasks -> TaskRecord]
    BY DEF TypeOK
  <2>4. task' \in [Tasks -> TaskRecord]
    BY <1>2, <2>1, <2>3 DEF TaskRecord
  <2> QED
    BY <1>2, <2>1, <2>3, <2>4 DEF TaskRecord
<1> QED BY <1>1, <1>2 DEF InvokeCancel

\* A step that touches no call, no task and no worker keeps their ownership.
LEMMA SameUsers ==
    ASSUME IInv, UNCHANGED <<pc, local, task, worker, active_task>>
    PROVE  CallerOwnsTask' /\ WorkerOwnsTask' /\ ReferencesCounted'
<1>1. CallerOwnsTask'
  BY DEF IInv, CallerOwnsTask, InExchange, UsesTask
<1>2. WorkerOwnsTask'
  BY DEF IInv, WorkerOwnsTask, InCallback, InExchange
<1>3. ReferencesCounted'
  BY DEF IInv, ReferencesCounted, HoldsTask
<1> QED BY <1>1, <1>2, <1>3

\* A step that touches neither the counters nor the active task keeps the sum.
LEMMA SameCounters ==
    ASSUME IInv,
           UNCHANGED <<task, active_task, completed_requests, failed_requests, admitted>>
    PROVE  CountedOnce'
BY DEF IInv, CountedOnce, Unsettled

\* A step of a thread that is not inside an exchange keeps the ownership of
\* the tasks, even if it tells the backend to cancel one.
LEMMA OutsideExchange ==
    ASSUME IInv, NEW th \in Threads,
           ~UsesTask(th), ~UsesTask(th)',
           \A u \in Threads : u # th => pc'[u] = pc[u] /\ local'[u] = local[u],
           worker' = worker, active_task' = active_task,
           \A t \in Tasks : /\ task'[t].references = task[t].references
                            /\ task'[t].done = task[t].done
                            /\ task'[t].caller_abandoned = task[t].caller_abandoned
    PROVE  CallerOwnsTask' /\ WorkerOwnsTask' /\ ReferencesCounted'
<1>0. active_task \in Tasks \cup {NoTask}
  BY DEF IInv, TypeOK
<1>1. \A u \in Threads : /\ InExchange(u)' <=> InExchange(u)
                         /\ UsesTask(u)' <=> UsesTask(u)
                         /\ UsesTask(u) => pc'[u] = pc[u] /\ local'[u] = local[u]
  BY DEF InExchange, UsesTask
<1>2. CallerOwnsTask'
  BY <1>0, <1>1 DEF IInv, CallerOwnsTask, UsesTask, InExchange
<1>3. WorkerOwnsTask'
  BY <1>0, <1>1 DEF IInv, WorkerOwnsTask, InCallback
<1>4. \A u \in Threads, t \in Tasks : HoldsTask(u, t)' <=> HoldsTask(u, t)
  BY <1>1 DEF HoldsTask, UsesTask, InExchange
<1>5. ReferencesCounted'
  BY <1>0, <1>4 DEF IInv, ReferencesCounted
<1> QED BY <1>2, <1>3, <1>5
-----------------------------------------------------------------------------
(* The calling thread of an exchange.                                      *)

\* Dispatching an exchange preserves the invariant: the cell it takes has no
\* user, and no other exchange is in flight.
LEMMA DispatchInv ==
    ASSUME IInv, NEW th \in Threads, NEW x \in Exchanges, NEW t \in Tasks,
           ExchangeDispatch(th, x, t)
    PROVE  IInv'
<1> USE FrontendAssumption DEF ExchangeDispatch, MayCall, Goto, sessionVars, IInv
<1>0. /\ ~busy /\ session_open /\ backend # NoBackend
      /\ active_task = NoTask
      /\ worker[t] = "none"
      /\ \A u \in Threads : ~InExchange(u) /\ ~HoldsTask(u, t)
  <2>1. ~busy /\ session_open /\ backend # NoBackend
    BY DEF Prevalidate, qcpu_prevalidate_exchange, Accepted, V
  <2>2. active_task = NoTask
    BY <2>1 DEF BusyIsActiveTask
  <2>3. \A u \in Threads : ~InExchange(u)
    BY <2>2 DEF CallerOwnsTask
  <2>4. worker[t] = "none" /\ \A u \in Threads : ~HoldsTask(u, t)
    BY DEF ReferencesCounted
  <2> QED BY <2>1, <2>2, <2>3, <2>4
<1>1. TypeOK'
  <2>1. task' \in [Tasks -> TaskRecord]
    <3>1. x.request \in Request
      BY DEF Exchange
    <3>2. NewTask(2, backend, x.request) \in TaskRecord
      BY <3>1, NewTaskType DEF TypeOK
    <3> QED BY <3>2 DEF TypeOK
  <2>2. pc' \in [Threads -> Labels] /\ local' \in [Threads -> LocalRecord]
    BY DEF TypeOK, LocalRecord, Labels
  <2>3. admitted' \in 0..CounterMod - 1
    BY IncrementType DEF TypeOK
  <2> QED
    BY ZenonT(60), <2>1, <2>2, <2>3 DEF TypeOK, DeviceStates
<1>2. CallerOwnsTask'
  BY <1>0 DEF CallerOwnsTask, InExchange, UsesTask, HoldsTask, TypeOK, NewTask
<1>3. WorkerOwnsTask'
  BY <1>0 DEF WorkerOwnsTask, InCallback, TypeOK, NewTask, InExchange
<1>4. SessionOwnsLock'
  BY <1>0 DEF SessionOwnsLock, TypeOK
<1>5. ReferencesCounted'
  BY <1>0 DEF ReferencesCounted, HoldsTask, NewTask, TypeOK
<1>6. BusyIsActiveTask'
  BY <1>0 DEF BusyIsActiveTask, NewTask, TypeOK
<1>7. CountedOnce'
  BY <1>0 DEF CountedOnce, Unsettled, TypeOK, Increment, NewTask
<1> QED
  BY <1>1, <1>2, <1>3, <1>4, <1>5, <1>6, <1>7 DEF IInv

\* Rejecting an exchange preserves the invariant: only a request that found
\* the device not busy can report an absent backend.
LEMMA RejectInv ==
    ASSUME IInv, NEW th \in Threads, NEW x \in Exchanges, NEW clock \in ClockReadings,
          ExchangeReject(th, x, clock)
    PROVE  IInv'
<1> USE FrontendAssumption DEF ExchangeReject, RecordReject, MayCall, mockVars, sessionVars,
     requestVars, statusVars, threadVars, taskVars, IInv
<1>1. TypeOK'
  <2>1. last' \in Verdict
    BY PrevalidateType
  <2> QED BY <2>1 DEF TypeOK, DeviceStates
<1>2. CallerOwnsTask' /\ WorkerOwnsTask' /\ ReferencesCounted'
  BY SameUsers
<1>4. SessionOwnsLock'
  BY DEF SessionOwnsLock, TypeOK, BusyIsActiveTask
<1>6. BusyIsActiveTask'
  <2>1. Prevalidate(x, clock).status = "BACKEND_ABSENT" => ~busy
    BY DEF Prevalidate, qcpu_prevalidate_exchange, V, Accepted
  <2> QED BY <2>1 DEF BusyIsActiveTask, TypeOK
<1>7. CountedOnce'
  BY SameCounters
<1> QED
  BY <1>1, <1>2, <1>4, <1>6, <1>7 DEF IInv

\* Rejecting a null exchange preserves the invariant.
LEMMA NullInv ==
    ASSUME IInv, NEW th \in Threads, ExchangeNull(th)
    PROVE  IInv'
<1> USE FrontendAssumption DEF ExchangeNull, RecordReject, MayCall, mockVars, sessionVars,
     requestVars, statusVars, threadVars, taskVars, IInv
<1>1. TypeOK'
  <2>1. last' \in Verdict
    BY DEF V, Verdict, Errnos, Statuses
  <2> QED BY <2>1 DEF TypeOK, DeviceStates
<1>2. CallerOwnsTask' /\ WorkerOwnsTask' /\ ReferencesCounted'
  BY SameUsers
<1>4. SessionOwnsLock'
  BY DEF SessionOwnsLock, TypeOK, BusyIsActiveTask
<1>6. BusyIsActiveTask'
  BY DEF BusyIsActiveTask, TypeOK, V
<1>7. CountedOnce'
  BY SameCounters
<1> QED
  BY <1>1, <1>2, <1>4, <1>6, <1>7 DEF IInv

\* Failing to create the task or its worker preserves the invariant.
LEMMA NoWorkerInv ==
    ASSUME IInv, NEW th \in Threads, NEW x \in Exchanges, ExchangeNoWorker(th, x)
    PROVE  IInv'
<1> USE FrontendAssumption DEF ExchangeNoWorker, qcpu_finalize_exchange_locked, MayCall,
     mockVars, sessionVars, requestVars, statusVars, threadVars, taskVars, IInv
<1>0. ~busy /\ active_task = NoTask /\ last'.status # "BACKEND_ABSENT" /\ last' \in Verdict
      /\ last' # Accepted
  BY DEF Prevalidate, qcpu_prevalidate_exchange, Accepted, V, BusyIsActiveTask, Verdict,
       Errnos, Statuses
<1>1. TypeOK'
  <2>1. completed_requests' = completed_requests /\ failed_requests' =
        Increment(failed_requests)
    BY <1>0
  <2>2. failed_requests' \in 0..CounterMod - 1 /\ admitted' \in 0..CounterMod - 1
    BY <2>1, IncrementType DEF TypeOK
  <2>3. busy' \in BOOLEAN /\ cancel_requested' \in BOOLEAN /\ cancel_sent' \in BOOLEAN
    BY ZenonT(40)
  <2> QED BY <1>0, <2>1, <2>2, <2>3 DEF TypeOK, DeviceStates
<1>2. CallerOwnsTask' /\ WorkerOwnsTask' /\ ReferencesCounted'
  BY <1>0, SameUsers
<1>4. SessionOwnsLock'
  BY <1>0 DEF SessionOwnsLock, TypeOK, BusyIsActiveTask
<1>6. BusyIsActiveTask'
  BY DEF BusyIsActiveTask, TypeOK
<1>7. CountedOnce'
  BY <1>0 DEF CountedOnce, Unsettled, TypeOK, Increment
<1> QED
  BY <1>1, <1>2, <1>4, <1>6, <1>7 DEF IInv

\* Waking up on a done task preserves the invariant.
LEMMA WakeInv ==
    ASSUME IInv, NEW th \in Threads, ExchangeWake(th)
    PROVE  IInv'
<1> USE FrontendAssumption DEF ExchangeWake, Goto, mockVars, sessionVars, requestVars,
     statusVars, threadVars, taskVars, IInv
<1>1. TypeOK'
  BY FreeTaskType, IncrementType DEF TypeOK, LocalRecord, IdleLocal, Locals, Labels,
       DeviceStates, TaskRecord
<1>2. CallerOwnsTask'
  BY DEF CallerOwnsTask, InExchange, UsesTask, TypeOK
<1>3. WorkerOwnsTask'
  BY DEF WorkerOwnsTask, InCallback, TypeOK, InExchange
<1>4. SessionOwnsLock'
  BY DEF SessionOwnsLock, TypeOK, BusyIsActiveTask
<1>5. ReferencesCounted'
  BY DEF ReferencesCounted, HoldsTask, TypeOK
<1>6. BusyIsActiveTask'
  BY DEF BusyIsActiveTask, TypeOK
<1>7. CountedOnce'
  BY DEF CountedOnce, Unsettled, TypeOK, Increment
<1> QED
  BY <1>1, <1>2, <1>3, <1>4, <1>5, <1>6, <1>7 DEF IInv

\* Running into the deadline preserves the invariant.
LEMMA TimeoutInv ==
    ASSUME IInv, NEW th \in Threads, ExchangeTimeout(th)
    PROVE  IInv'
<1> USE FrontendAssumption DEF ExchangeTimeout, Goto, qcpu_request_cancel_locked, CancelNow,
     CallCancel, mockVars, sessionVars, requestVars, statusVars, threadVars, taskVars, IInv
<1>1. TypeOK'
  <2>1. cancel_requested' \in BOOLEAN /\ cancel_sent' \in BOOLEAN /\ CallCancel \in BOOLEAN
    BY ZenonT(40) DEF TypeOK
  <2>2. local[th].task \in Tasks \cup {NoTask}
    BY DEF TypeOK, LocalRecord
  <2> HIDE DEF qcpu_request_cancel_locked, CallCancel
  <2>3. Locals(local[th].task, NoBackend, TRUE, CallCancel) \in LocalRecord
    BY <2>1, <2>2, LocalsType, ZenonT(40)
  <2>4. local' \in [Threads -> LocalRecord]
    <3>1. local \in [Threads -> LocalRecord]
      BY DEF TypeOK
    <3> QED BY <2>3, <3>1, ZenonT(40)
  <2>5. pc' \in [Threads -> Labels]
    BY DEF TypeOK, Labels
  <2> QED BY <2>1, <2>4, <2>5, ZenonT(40) DEF TypeOK
<1>2. CallerOwnsTask'
  BY DEF CallerOwnsTask, InExchange, UsesTask, TypeOK, Locals
<1>3. WorkerOwnsTask'
  BY DEF WorkerOwnsTask, InCallback, TypeOK, InExchange
<1>4. SessionOwnsLock'
  BY DEF SessionOwnsLock, TypeOK, BusyIsActiveTask
<1>5. ReferencesCounted'
  BY DEF ReferencesCounted, HoldsTask, TypeOK, Locals
<1>6. BusyIsActiveTask'
  BY DEF BusyIsActiveTask, TypeOK
<1>7. CountedOnce'
  BY DEF CountedOnce, Unsettled, TypeOK, Increment
<1> QED
  BY <1>1, <1>2, <1>3, <1>4, <1>5, <1>6, <1>7 DEF IInv

\* The cancel callback of an exchange preserves the invariant.
LEMMA CancelInv ==
    ASSUME IInv, NEW th \in Threads, ExchangeCancel(th)
    PROVE  IInv'
<1> USE FrontendAssumption DEF ExchangeCancel, InvokeCancel, mockVars, sessionVars,
     requestVars, statusVars, threadVars, taskVars, IInv
<1>0. InvokeCancel(task[local[th].task].backend)
  OBVIOUS
<1> HIDE DEF InvokeCancel
<1>1. TypeOK'
  <2>1. local' \in [Threads -> LocalRecord]
    BY LocalCanceled
  <2>2. task' \in [Tasks -> TaskRecord]
    BY <1>0, CancelInvoked
  <2> QED BY <2>1, <2>2 DEF TypeOK
<1>2. CallerOwnsTask'
  BY <1>0, CancelInvoked DEF CallerOwnsTask, InExchange, UsesTask, TypeOK
<1>3. WorkerOwnsTask'
  BY <1>0, CancelInvoked DEF WorkerOwnsTask, InCallback, TypeOK, InExchange
<1>4. SessionOwnsLock'
  BY DEF SessionOwnsLock, TypeOK, BusyIsActiveTask
<1>5. ReferencesCounted'
  BY <1>0, CancelInvoked DEF ReferencesCounted, HoldsTask, TypeOK
<1>6. BusyIsActiveTask'
  BY <1>0, CancelInvoked DEF BusyIsActiveTask, TypeOK
<1>7. CountedOnce'
  BY <1>0, CancelInvoked DEF CountedOnce, Unsettled, TypeOK
<1> QED
  BY <1>1, <1>2, <1>3, <1>4, <1>5, <1>6, <1>7 DEF IInv

\* Entering the grace period preserves the invariant.
LEMMA GraceInv ==
    ASSUME IInv, NEW th \in Threads, ExchangeGrace(th)
    PROVE  IInv'
<1> USE FrontendAssumption DEF ExchangeGrace, Goto, mockVars, sessionVars, requestVars,
     statusVars, threadVars, taskVars, IInv
<1>1. TypeOK'
  BY FreeTaskType, IncrementType DEF TypeOK, LocalRecord, IdleLocal, Locals, Labels,
       DeviceStates, TaskRecord
<1>2. CallerOwnsTask'
  BY DEF CallerOwnsTask, InExchange, UsesTask, TypeOK
<1>3. WorkerOwnsTask'
  BY DEF WorkerOwnsTask, InCallback, TypeOK, InExchange
<1>4. SessionOwnsLock'
  BY DEF SessionOwnsLock, TypeOK, BusyIsActiveTask
<1>5. ReferencesCounted'
  BY DEF ReferencesCounted, HoldsTask, TypeOK
<1>6. BusyIsActiveTask'
  BY DEF BusyIsActiveTask, TypeOK
<1>7. CountedOnce'
  BY DEF CountedOnce, Unsettled, TypeOK, Increment
<1> QED
  BY <1>1, <1>2, <1>3, <1>4, <1>5, <1>6, <1>7 DEF IInv

\* Abandoning an exchange preserves the invariant: its worker is still in the
\* callback, and takes over the duty to end BUSY.
LEMMA AbandonInv ==
    ASSUME IInv, NEW th \in Threads, ExchangeAbandon(th)
    PROVE  IInv'
<1> USE FrontendAssumption DEF ExchangeAbandon, Goto, mockVars, sessionVars, requestVars,
     statusVars, threadVars, taskVars, IInv
<1>0. /\ local[th].task = active_task /\ active_task \in Tasks
      /\ ~task[active_task].caller_abandoned
      /\ InCallback(active_task)
  BY DEF CallerOwnsTask, WorkerOwnsTask, InExchange, TypeOK
<1>1. TypeOK'
  <2>1. task' \in [Tasks -> TaskRecord]
    BY <1>0, TaskAbandoned
  <2>2. local' \in [Threads -> LocalRecord]
    <3>1. "ETIMEDOUT" \in Errnos
      BY DEF Errnos
    <3> QED BY <3>1, LocalErrno, ZenonT(40)
  <2>3. failed_requests' \in 0..CounterMod - 1
    BY IncrementType DEF TypeOK
  <2>4. last' \in Verdict
    BY DEF V, Verdict, Errnos, Statuses
  <2> QED BY <2>1, <2>2, <2>3, <2>4 DEF TypeOK, Labels
<1>2. CallerOwnsTask'
  BY DEF CallerOwnsTask, InExchange, UsesTask, TypeOK
<1>3. WorkerOwnsTask'
  BY <1>0 DEF WorkerOwnsTask, InCallback, TypeOK, TaskRecord
<1>4. SessionOwnsLock'
  BY DEF SessionOwnsLock, TypeOK, BusyIsActiveTask
<1>5. ReferencesCounted'
  BY DEF ReferencesCounted, HoldsTask, TypeOK
<1>6. BusyIsActiveTask'
  BY DEF BusyIsActiveTask, TypeOK
<1>7. CountedOnce'
  <2>1. Unsettled = 1 /\ Unsettled' = 0
    BY <1>0 DEF Unsettled, TypeOK, TaskRecord
  <2> QED BY <2>1 DEF CountedOnce, TypeOK, Increment
<1> QED
  BY <1>1, <1>2, <1>3, <1>4, <1>5, <1>6, <1>7 DEF IInv
=============================================================================
