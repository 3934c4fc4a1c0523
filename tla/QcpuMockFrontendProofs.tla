----------------------- MODULE QcpuMockFrontendProofs -----------------------
(***************************************************************************)
(* The safety properties of QcpuMockFrontend, for every value of its       *)
(* constants.  IInv is the inductive invariant; FrontendExchangeProofs and *)
(* FrontendSessionProofs have one lemma for each action.  Then: destroy,   *)
(* the refinement of QcpuDevice, cancellation, and the verdicts.           *)
(***************************************************************************)
EXTENDS FrontendSessionProofs

\* The time a leaf is given, by SMT and then by Zenon.
USE SMTT(60), ZenonT(60)

\* The invariant holds after qcpu_mock_create().
LEMMA InitInv == Init => IInv
<1> SUFFICES ASSUME Init PROVE IInv
  OBVIOUS
<1> USE DEF Init
<1>1. TypeOK
  <2>1. task \in [Tasks -> TaskRecord]
    BY FreeTaskType
  <2>2. local \in [Threads -> LocalRecord]
    BY DEF IdleLocal, Locals, LocalRecord, Errnos
  <2>3. last \in Verdict
    BY DEF Accepted, V, Verdict, Errnos, Statuses
  <2>4. /\ worker \in [Tasks -> {"none", "created", "exchange", "returned", "release"}]
        /\ pc \in [Threads -> Labels]
    BY DEF Labels
  <2>5. 0 \in 0..CounterMod - 1
    BY FrontendAssumption
  <2> QED
    BY ZenonT(60), <2>1, <2>2, <2>3, <2>4, <2>5 DEF TypeOK, DetachedState, DeviceStates
<1>2. CallerOwnsTask
  BY DEF CallerOwnsTask, InExchange, UsesTask
<1>3. WorkerOwnsTask
  BY DEF WorkerOwnsTask, InCallback
<1>4. SessionOwnsLock
  BY DEF SessionOwnsLock
<1>5. ReferencesCounted
  BY DEF ReferencesCounted, HoldsTask, FreeTask, NewTask
<1>6. BusyIsActiveTask
  BY DEF BusyIsActiveTask, DetachedState
<1>7. CountedOnce
  BY FrontendAssumption DEF CountedOnce, Unsettled
<1> QED
  BY <1>1, <1>2, <1>3, <1>4, <1>5, <1>6, <1>7 DEF IInv

\* Every step of every thread, worker and process preserves the invariant.
LEMMA NextInv == IInv /\ [Next]_vars => IInv'
<1> SUFFICES ASSUME IInv, [Next]_vars PROVE IInv'
  OBVIOUS
<1>1. ASSUME NEW b \in Backends \cup {NoBackend}, qcpu_mock_create(b) PROVE IInv'
  BY <1>1, CreateInv
<1>2. CASE OtherProcess
  BY <1>2, OtherProcessInv
<1>3. ASSUME NEW th \in Threads, StartCall(th) PROVE IInv'
  BY <1>3, RejectInv, NullInv, NoWorkerInv, DispatchInv DEF StartCall
<1>4. ASSUME NEW th \in Threads, ExchangeStep(th) PROVE IInv'
  BY <1>4, WakeInv, TimeoutInv, CancelInv, GraceInv, AbandonInv, FinishInv, ReleaseInv
     DEF ExchangeStep
<1>5. ASSUME NEW th \in Threads, CloseCancel(th) \/ CloseFinish(th) \/ DestroyFree(th) PROVE
      IInv'
  BY <1>5, CloseCancelInv, CloseFinishInv, DestroyFreeInv
<1>6. ASSUME NEW th \in Owners, StartOwnerCall(th) PROVE IInv'
  BY <1>6, SetBackendInv, OpenInv, CloseIdleInv, CloseBusyInv, DestroyCheckInv
     DEF StartOwnerCall
<1>7. ASSUME NEW t \in Tasks, WorkerStep(t) \/ BackendReturns(t) PROVE IInv'
  BY <1>7, WorkerCallInv, WorkerReturnInv, WorkerDoneInv, WorkerReleaseInv, FrontendAssumption
     DEF WorkerStep, BackendReturns
<1>8. CASE UNCHANGED vars
  <2>1. UNCHANGED <<pc, local, task, worker, active_task, completed_requests,
                    failed_requests, admitted>>
    BY <1>8 DEF vars, mockVars, statusVars, requestVars, threadVars, taskVars
  <2>2. UNCHANGED <<allocated, backend, session_open, lock_fd, flock_owner, busy,
                    cancel_requested, cancel_sent, device_state, last>>
    BY <1>8 DEF vars, mockVars, sessionVars, requestVars, statusVars
  <2>3. TypeOK'
    BY <2>1, <2>2, ZenonT(40) DEF IInv, TypeOK
  <2>4. SessionOwnsLock' /\ BusyIsActiveTask'
    BY <2>1, <2>2 DEF IInv, SessionOwnsLock, BusyIsActiveTask
  <2> QED BY <2>1, <2>3, <2>4, SameUsers, SameCounters DEF IInv
<1> QED
  BY <1>1, <1>2, <1>3, <1>4, <1>5, <1>6, <1>7, <1>8 DEF Next

\* The invariant holds in every reachable state, for any number of threads,
\* owners, tasks and backends and any backend behaviour.
THEOREM Invariance == Spec => []IInv
<1>1. Init => IInv
  BY InitInv
<1>2. IInv /\ [Next]_vars => IInv'
  BY NextInv
<1> QED BY <1>1, <1>2, PTL DEF Spec

\* Type correctness of the frontend's state.
THEOREM TypeCorrect == Spec => []TypeOK
<1>1. IInv => TypeOK
  BY DEF IInv
<1> QED BY <1>1, Invariance, PTL

\* Two exchange callbacks never overlap, although a caller may time out and
\* leave its callback running.
THEOREM OneInFlightHolds == Spec => []OneInFlight
<1>1. IInv => OneInFlight
  BY DEF IInv, WorkerOwnsTask, OneInFlight
<1> QED BY <1>1, Invariance, PTL

\* A callback runs only under an open session that holds the lock.
THEOREM SessionCoversCallbackHolds == Spec => []SessionCoversCallback
<1>1. IInv => SessionCoversCallback
  BY FrontendAssumption
     DEF IInv, WorkerOwnsTask, SessionOwnsLock, BusyIsActiveTask, SessionCoversCallback
<1> QED BY <1>1, Invariance, PTL

\* The reference count of a task is the number of its users; no task is freed
\* while a caller, a worker or close may look at it.
THEOREM ReferencesCountedHolds == Spec => []ReferencesCounted
<1>1. IInv => ReferencesCounted
  BY DEF IInv
<1> QED BY <1>1, Invariance, PTL

\* BUSY, the active task and the attached backend agree.
THEOREM BusyIsActiveTaskHolds == Spec => []BusyIsActiveTask
<1>1. IInv => BusyIsActiveTask
  BY DEF IInv
<1> QED BY <1>1, Invariance, PTL

\* The two execution counters account for every admitted exchange exactly
\* once, across timeouts, abandonments and the wrap of the counters.
THEOREM CountedOnceHolds == Spec => []CountedOnce
<1>1. IInv => CountedOnce
  BY DEF IInv
<1> QED BY <1>1, Invariance, PTL
-----------------------------------------------------------------------------
(* Destroy.  With one owner thread the struct is freed only when nobody is *)
(* inside it.  The run frontend_double_close shows that two owners are one *)
(* too many.                                                               *)

SingleOwner == \A o, p \in Owners : o = p

ClosesAllocated ==
    \A th \in Threads : pc[th] \in {"close_cancel", "close_wait"} => allocated

\* A step of a single-owner frontend leaves no close in a freed struct.
LEMMA ClosesAllocatedStep ==
    ASSUME SingleOwner, IInv, ClosesAllocated, [Next]_vars
    PROVE  ClosesAllocated'
<1> USE DEF mockVars, sessionVars, requestVars, statusVars, threadVars, taskVars,
        ClosesAllocated, Goto, Return
<1>0. pc \in [Threads -> Labels]
  BY DEF IInv, TypeOK
<1>1. ASSUME NEW b \in Backends \cup {NoBackend}, qcpu_mock_create(b) PROVE ClosesAllocated'
  BY <1>1, ZenonT(40) DEF qcpu_mock_create
<1>2. ASSUME NEW th \in Threads, StartCall(th) PROVE ClosesAllocated'
  BY <1>0, <1>2 DEF StartCall, ExchangeReject, RecordReject, ExchangeNull, ExchangeNoWorker,
       ExchangeDispatch
<1>3. ASSUME NEW th \in Threads, ExchangeStep(th) PROVE ClosesAllocated'
  <2>1. /\ allocated' = allocated
        /\ pc' = pc \/ \E l \in {"exchange_unlocked", "grace_wait", "exchange_release",
              "idle"} :
                          pc' = [pc EXCEPT ![th] = l]
    BY <1>3, ZenonT(40) DEF ExchangeStep, ExchangeWake, ExchangeTimeout, ExchangeCancel,
         ExchangeGrace,
         ExchangeAbandon, ExchangeFinish, ExchangeRelease
  <2> QED BY <1>0, <2>1
<1>4. ASSUME NEW th \in Threads, CloseCancel(th) \/ CloseFinish(th) PROVE ClosesAllocated'
  BY <1>0, <1>4 DEF CloseCancel, CloseFinish
<1>5. ASSUME NEW th \in Threads, DestroyFree(th) PROVE ClosesAllocated'
  <2>1. \A u \in Threads : pc[u] \notin {"close_cancel", "close_wait"}
    BY <1>5 DEF DestroyFree, IInv, SessionOwnsLock, SingleOwner
  <2> QED BY <1>0, <1>5, <2>1 DEF DestroyFree
<1>6. ASSUME NEW th \in Owners, StartOwnerCall(th) PROVE ClosesAllocated'
  <2>1. allocated' = allocated /\ allocated
    BY <1>6, ZenonT(40) DEF StartOwnerCall, qcpu_mock_set_backend, qcpu_mock_open, CloseIdle,
         CloseBusy,
         DestroyCheck, MayCall
  <2> QED BY <2>1
<1>7. ASSUME NEW t \in Tasks, WorkerStep(t) \/ BackendReturns(t) PROVE ClosesAllocated'
  <2>1. allocated' = allocated /\ pc' = pc
    BY <1>7 DEF WorkerStep, BackendReturns, WorkerCall, WorkerReturn, WorkerDone, WorkerRelease
  <2> QED BY <2>1
<1>8. CASE OtherProcess \/ UNCHANGED vars
  <2>1. allocated' = allocated /\ pc' = pc
    BY <1>8 DEF OtherProcess, vars
  <2> QED BY <2>1
<1> QED
  BY <1>1, <1>2, <1>3, <1>4, <1>5, <1>6, <1>7, <1>8 DEF Next

\* With a single owner, destroy frees the struct only when no call and no
\* exchange callback is inside it.
THEOREM NoUseAfterFreeHolds ==
    ASSUME SingleOwner
    PROVE  Spec => []NoUseAfterFree
<1>1. Init => ClosesAllocated
  BY DEF Init, ClosesAllocated
<1>2. IInv /\ ClosesAllocated /\ [Next]_vars => ClosesAllocated'
  BY SingleOwner, ClosesAllocatedStep
<1>3. IInv /\ ClosesAllocated => NoUseAfterFree
  <2> SUFFICES ASSUME IInv, ClosesAllocated, ~allocated PROVE NoUseAfterFree
    BY DEF NoUseAfterFree
  <2>1. active_task = NoTask
    BY DEF IInv, SessionOwnsLock, BusyIsActiveTask
  <2>2. \A th \in Threads : pc[th] \in {"idle", "exchange_release"}
    BY <2>1 DEF IInv, TypeOK, Labels, CallerOwnsTask, InExchange, SessionOwnsLock,
         ClosesAllocated
  <2>3. \A t \in Tasks : ~InCallback(t)
    BY <2>1, FrontendAssumption DEF IInv, WorkerOwnsTask
  <2> QED BY <2>2, <2>3 DEF NoUseAfterFree
<1> QED BY <1>1, <1>2, <1>3, Invariance, PTL DEF Spec
-----------------------------------------------------------------------------
(* Every step of the frontend is a step of QcpuDevice or does not show.    *)
(* The mapping is the INSTANCE in QcpuMockFrontend; the steps are taken    *)
(* from states that satisfy the inductive invariant.                       *)

\* The mapped value of QcpuDevice's variable inflight.
Inflight ==
    IF active_task = NoTask THEN "none"
    ELSE IF task[active_task].caller_abandoned THEN "abandoned" ELSE "pending"

\* A step that changes none of the fields GET_STATUS reports.
Hidden ==
    /\ UNCHANGED <<allocated, session_open, backend, device_state, completed_requests,
                   failed_requests>>
    /\ Inflight' = Inflight

\* A created frontend is a device at rest.
LEMMA InitRefines == Init => Device!Init
BY ZenonT(40) DEF Init, Device!Init, DetachedState

\* A hidden step of the frontend is a stuttering step of the device.
LEMMA HiddenRefines == Hidden => UNCHANGED Device!vars
BY DEF Hidden, Inflight, Device!vars

\* Creating the frontend creates the device.
LEMMA CreateRefines ==
    ASSUME IInv, NEW b \in Backends \cup {NoBackend}, qcpu_mock_create(b)
    PROVE  Device!Create
BY ZenonT(40) DEF qcpu_mock_create, Device!Create, DetachedState

\* qcpu_mock_set_backend() attaches or detaches, never under a request.
LEMMA SetBackendRefines ==
    ASSUME IInv, NEW th \in Threads, NEW b \in Backends \cup {NoBackend},
           qcpu_mock_set_backend(th, b)
    PROVE  Device!Attach
BY ZenonT(40) DEF qcpu_mock_set_backend, MayCall, Device!Attach, DetachedState, sessionVars,
   requestVars, taskVars, IInv, BusyIsActiveTask

\* Dispatching an exchange admits one request.
LEMMA DispatchRefines ==
    ASSUME IInv, NEW th \in Threads, NEW x \in Exchanges, NEW t \in Tasks,
           ExchangeDispatch(th, x, t)
    PROVE  Device!Admit
<1>1. ~busy /\ session_open /\ backend # NoBackend
  BY DEF ExchangeDispatch, Prevalidate, qcpu_prevalidate_exchange, Accepted, V
<1>2. active_task = NoTask
  BY <1>1 DEF IInv, BusyIsActiveTask
<1>3. active_task' = t /\ t # NoTask /\ ~task'[t].caller_abandoned
  BY FrontendAssumption DEF ExchangeDispatch, IInv, TypeOK, NewTask
<1> QED
  BY <1>1, <1>2, <1>3 DEF ExchangeDispatch, MayCall, Device!Admit, sessionVars

\* A rejected exchange at most reveals that the backend is absent.
LEMMA RejectRefines ==
    ASSUME IInv, NEW th \in Threads, NEW x \in Exchanges, NEW clock \in ClockReadings,
           ExchangeReject(th, x, clock)
    PROVE  Device!Reject \/ Hidden
<1> USE DEF ExchangeReject, RecordReject, sessionVars, requestVars, taskVars, Inflight
<1>1. CASE last'.status = "BACKEND_ABSENT"
  <2>1. ~busy /\ backend = NoBackend
    BY <1>1 DEF Prevalidate, qcpu_prevalidate_exchange, Accepted, V
  <2>2. active_task = NoTask
    BY <2>1 DEF IInv, BusyIsActiveTask
  <2> QED BY <1>1, <2>1, <2>2 DEF Device!Reject
<1>2. CASE last'.status # "BACKEND_ABSENT"
  BY <1>2 DEF Hidden
<1> QED BY <1>1, <1>2

\* A rejected null exchange shows nothing.
LEMMA NullRefines ==
    ASSUME NEW th \in Threads, ExchangeNull(th)
    PROVE  Hidden
BY DEF ExchangeNull, RecordReject, sessionVars, requestVars, taskVars, Inflight, Hidden, V

\* An exchange without a worker fails at once.
LEMMA NoWorkerRefines ==
    ASSUME IInv, NEW th \in Threads, NEW x \in Exchanges, ExchangeNoWorker(th, x)
    PROVE  Device!FailAtOnce
<1>1. ~busy /\ session_open /\ backend # NoBackend
  BY DEF ExchangeNoWorker, Prevalidate, qcpu_prevalidate_exchange, Accepted, V
<1>2. active_task = NoTask
  BY <1>1 DEF IInv, BusyIsActiveTask
<1>3. /\ completed_requests' = completed_requests /\ failed_requests' = Increment(failed_requests)
      /\ device_state' = "IDLE" /\ active_task' = NoTask
  BY <1>1 DEF ExchangeNoWorker, qcpu_finalize_exchange_locked, Accepted, V
<1> QED
  BY <1>1, <1>2, <1>3
     DEF ExchangeNoWorker, MayCall, Device!FailAtOnce, Device!Bump, Increment, sessionVars

\* Giving up on the worker abandons the pending request.
LEMMA AbandonRefines ==
    ASSUME IInv, NEW th \in Threads, ExchangeAbandon(th)
    PROVE  Device!Abandon
<1>1. active_task \in Tasks /\ local[th].task = active_task /\ ~task[active_task].caller_abandoned
  BY DEF ExchangeAbandon, IInv, CallerOwnsTask, InExchange, TypeOK
<1>2. active_task' = active_task /\ task'[active_task].caller_abandoned
  BY <1>1 DEF ExchangeAbandon, requestVars, IInv, TypeOK, TaskRecord
<1> QED
  BY <1>1, <1>2, FrontendAssumption
     DEF ExchangeAbandon, Device!Abandon, Device!Bump, Increment, sessionVars

\* Finalizing an exchange settles the pending request once.
LEMMA FinishRefines ==
    ASSUME IInv, NEW th \in Threads, ExchangeFinish(th)
    PROVE  Device!Settle
<1>1. active_task \in Tasks /\ ~task[active_task].caller_abandoned
  <2>1. InExchange(th)
    BY DEF ExchangeFinish, InExchange
  <2>2. active_task \in Tasks \cup {NoTask}
    BY DEF IInv, TypeOK
  <2> QED BY <2>1, <2>2 DEF IInv, CallerOwnsTask
<1>2. backend # NoBackend
  <2>1. BusyIsActiveTask
    BY DEF IInv
  <2>2. active_task # NoTask
    BY ZenonT(60), <1>1, FrontendAssumption
  <2> QED BY <2>1, <2>2 DEF BusyIsActiveTask
<1>3. /\ active_task' = NoTask
      /\ UNCHANGED <<allocated, backend, session_open>>
      /\ \/ /\ completed_requests' = Increment(completed_requests)
            /\ device_state' = "IDLE" /\ UNCHANGED failed_requests
         \/ /\ failed_requests' = Increment(failed_requests)
            /\ device_state' \in {"IDLE", "OFFLINE"} /\ UNCHANGED completed_requests
  <2> DEFINE t == task[local[th].task]
             verdict == Classify(local[th].timed_out, cancel_requested, t.request, t.outcome)
  <2>1. /\ qcpu_finalize_exchange_locked(verdict)
        /\ UNCHANGED <<allocated, backend, session_open>>
    BY DEF ExchangeFinish, sessionVars
  <2>2. verdict = Accepted => verdict.status # "BACKEND_ABSENT"
    BY DEF Accepted, V
  <2> HIDE DEF verdict
  <2> QED BY ZenonT(30), <1>2, <2>1, <2>2 DEF qcpu_finalize_exchange_locked
<1> QED
  BY <1>1, <1>2, <1>3, FrontendAssumption
     DEF Device!Settle, Device!Bump, Device!RestState, Increment

\* The worker's report lets an abandoned request go and is otherwise hidden.
LEMMA WorkerDoneRefines ==
    ASSUME IInv, NEW t \in Tasks, WorkerDone(t)
    PROVE  Device!LetGo \/ Hidden
<1>1. active_task = t /\ t # NoTask /\ backend # NoBackend
  BY FrontendAssumption DEF WorkerDone, IInv, WorkerOwnsTask, InCallback, BusyIsActiveTask
<1>2. CASE task[t].caller_abandoned
  <2>1. /\ active_task' = NoTask /\ device_state' \in {"IDLE", "OFFLINE"}
        /\ UNCHANGED <<allocated, backend, session_open, completed_requests, failed_requests>>
    BY <1>1, <1>2, ZenonT(40) DEF WorkerDone, sessionVars
  <2> QED BY <1>1, <1>2, <2>1 DEF Device!LetGo, Device!RestState
<1>3. CASE ~task[t].caller_abandoned
  <2>1. active_task' = t /\ task'[t].caller_abandoned = task[t].caller_abandoned
    BY <1>1, <1>3 DEF WorkerDone, requestVars, IInv, TypeOK, TaskRecord
  <2> QED
    BY <1>1, <1>3, <2>1 DEF Hidden, Inflight, WorkerDone, sessionVars, requestVars
<1> QED BY <1>2, <1>3

\* qcpu_mock_open() opens the session.
LEMMA OpenRefines ==
    ASSUME NEW th \in Threads, qcpu_mock_open(th)
    PROVE  Device!Open
BY ZenonT(40) DEF qcpu_mock_open, MayCall, Device!Open, requestVars, statusVars, taskVars

\* Closing an idle frontend closes the session.
LEMMA CloseIdleRefines ==
    ASSUME IInv, NEW th \in Threads, CloseIdle(th)
    PROVE  Device!Close
BY ZenonT(40) DEF CloseIdle, ReleaseSession, Device!Close, requestVars, statusVars, taskVars, IInv,
   BusyIsActiveTask

\* A close that has waited closes the session, or finds it closed already.
LEMMA CloseFinishRefines ==
    ASSUME IInv, NEW th \in Threads, CloseFinish(th)
    PROVE  Device!Close \/ Hidden
<1>1. active_task = NoTask
  BY DEF CloseFinish, IInv, BusyIsActiveTask
<1>2. CASE session_open
  BY <1>1, <1>2, ZenonT(40) DEF CloseFinish, ReleaseSession, Device!Close, requestVars,
       statusVars, taskVars
<1>3. CASE ~session_open
  <2>1. session_open' = session_open
    BY <1>3, ZenonT(40) DEF CloseFinish, ReleaseSession, IInv, TypeOK
  <2> QED
    BY <2>1, ZenonT(40) DEF CloseFinish, Hidden, Inflight, requestVars, statusVars, taskVars
<1> QED BY <1>2, <1>3

\* Freeing the struct destroys a device without session and request.
LEMMA DestroyFreeRefines ==
    ASSUME IInv, NEW th \in Threads, DestroyFree(th)
    PROVE  Device!Destroy
BY ZenonT(40) DEF DestroyFree, Device!Destroy, sessionVars, requestVars, statusVars, taskVars, IInv,
   SessionOwnsLock, BusyIsActiveTask

\* A cancel callback does not show.
LEMMA InvokeCancelHidden ==
    ASSUME IInv, NEW b, InvokeCancel(b), UNCHANGED active_task
    PROVE  Inflight' = Inflight
<1>1. active_task # NoTask =>
       task'[active_task].caller_abandoned = task[active_task].caller_abandoned
  BY CancelInvoked DEF IInv, TypeOK
<1> QED BY <1>1 DEF Inflight

\* Dropping a reference does not show: the active task keeps its other one.
LEMMA ReleaseHidden ==
    ASSUME IInv, NEW t \in Tasks, task[t].references \in 1..2, qcpu_task_release(t),
           UNCHANGED active_task, active_task = t => task[t].references = 2
    PROVE  Inflight' = Inflight
<1>1. active_task # NoTask =>
       task'[active_task].caller_abandoned = task[active_task].caller_abandoned
  BY TaskReleased DEF IInv, TypeOK
<1> QED BY <1>1 DEF Inflight

\* What the caller's side of an exchange may show.
LEMMA ExchangeStepRefines ==
    ASSUME IInv, NEW th \in Threads, ExchangeStep(th)
    PROVE  Device!Abandon \/ Device!Settle \/ Hidden
<1> USE DEF mockVars, sessionVars, requestVars, statusVars, taskVars, Hidden
<1>1. CASE ExchangeWake(th) \/ ExchangeGrace(th)
  BY <1>1 DEF ExchangeWake, ExchangeGrace, Inflight
<1>2. CASE ExchangeTimeout(th)
  BY <1>2, ZenonT(40) DEF ExchangeTimeout, Inflight
<1>3. CASE ExchangeCancel(th)
  BY <1>3, InvokeCancelHidden DEF ExchangeCancel
<1>4. CASE ExchangeAbandon(th)
  BY <1>4, AbandonRefines
<1>5. CASE ExchangeFinish(th)
  BY <1>5, FinishRefines
<1>6. CASE ExchangeRelease(th)
  <2> DEFINE t == local[th].task
  <2>1. pc[th] = "exchange_release" /\ qcpu_task_release(t) /\ active_task' = active_task
    BY <1>6 DEF ExchangeRelease
  <2>2. t \in Tasks /\ HoldsTask(th, t) /\ (active_task = t => task[t].caller_abandoned)
    BY <2>1 DEF IInv, CallerOwnsTask, HoldsTask
  <2>3. task[t].references = 1 + (IF worker[t] # "none" THEN 1 ELSE 0)
    BY <2>2 DEF IInv, ReferencesCounted
  <2>4. active_task = t => worker[t] # "none"
    BY <2>1, <2>2, FrontendAssumption DEF IInv, CallerOwnsTask, WorkerOwnsTask, InCallback
  <2>5. Inflight' = Inflight
    BY <2>1, <2>2, <2>3, <2>4, ReleaseHidden
  <2> QED BY <1>6, <2>5 DEF ExchangeRelease
<1> QED BY <1>1, <1>2, <1>3, <1>4, <1>5, <1>6 DEF ExchangeStep

\* The return of a callback does not show, whatever it returned.
LEMMA WorkerReturnHidden ==
    ASSUME IInv, NEW t \in Tasks, NEW outcome, WorkerReturn(t, outcome)
    PROVE  Hidden
<1>1. active_task # NoTask =>
       task'[active_task].caller_abandoned = task[active_task].caller_abandoned
  BY DEF WorkerReturn, IInv, TypeOK, TaskRecord
<1> QED
  BY <1>1 DEF WorkerReturn, mockVars, sessionVars, requestVars, statusVars, Hidden, Inflight

\* What the worker's side of an exchange may show.
LEMMA WorkerStepRefines ==
    ASSUME IInv, NEW t \in Tasks, WorkerStep(t) \/ BackendReturns(t)
    PROVE  Device!LetGo \/ Hidden
<1> USE DEF mockVars, sessionVars, requestVars, statusVars, taskVars, Hidden
<1>1. CASE WorkerCall(t)
  BY <1>1 DEF WorkerCall, Inflight
<1>2. ASSUME NEW outcome \in BackendOutcomes, WorkerReturn(t, outcome) PROVE Hidden
  BY <1>2, WorkerReturnHidden
<1>3. CASE WorkerDone(t)
  BY <1>3, WorkerDoneRefines
<1>4. CASE WorkerRelease(t)
  <2>1. worker[t] = "release" /\ qcpu_task_release(t) /\ active_task' = active_task
    BY <1>4 DEF WorkerRelease
  <2>2. task[t].references = 1 + (IF \E th \in Threads : HoldsTask(th, t) THEN 1 ELSE 0)
    BY <2>1 DEF IInv, ReferencesCounted
  <2>3. active_task = t => \E th \in Threads : InExchange(th)
    BY <2>1, FrontendAssumption DEF IInv, WorkerOwnsTask, InCallback
  <2>4. \A th \in Threads : InExchange(th) /\ active_task = t => HoldsTask(th, t)
    BY DEF IInv, CallerOwnsTask, InExchange, HoldsTask
  <2>5. Inflight' = Inflight
    BY <2>1, <2>2, <2>3, <2>4, ReleaseHidden
  <2> QED BY <1>4, <2>5 DEF WorkerRelease
<1> QED BY <1>1, <1>2, <1>3, <1>4 DEF WorkerStep, BackendReturns

\* Lock traffic, cancellation by close and the check of destroy do not show.
LEMMA QuietRefines ==
    ASSUME IInv, NEW th \in Threads,
           OtherProcess \/ CloseBusy(th) \/ CloseCancel(th) \/ DestroyCheck(th)
    PROVE  Hidden
<1> USE DEF mockVars, sessionVars, requestVars, statusVars, taskVars, Hidden
<1>1. CASE OtherProcess
  BY <1>1, ZenonT(40) DEF OtherProcess, Inflight
<1>2. CASE CloseBusy(th)
  BY <1>2, ZenonT(40) DEF CloseBusy, Inflight
<1>3. CASE CloseCancel(th)
  <2>1. CASE local[th].call_cancel
    BY <1>3, <2>1, InvokeCancelHidden DEF CloseCancel
  <2>2. CASE ~local[th].call_cancel
    BY <1>3, <2>2, ZenonT(40) DEF CloseCancel, Inflight
  <2> QED BY <2>1, <2>2
<1>4. CASE DestroyCheck(th)
  BY <1>4, ZenonT(40) DEF DestroyCheck, Inflight
<1> QED BY <1>1, <1>2, <1>3, <1>4

\* Every step of the frontend is a step of the device or hidden.
LEMMA StepRefines == IInv /\ [Next]_vars => [Device!Next]_(Device!vars)
<1> SUFFICES ASSUME IInv, [Next]_vars PROVE Device!Next \/ UNCHANGED Device!vars
  OBVIOUS
<1>1. ASSUME NEW b \in Backends \cup {NoBackend}, qcpu_mock_create(b) PROVE Device!Next
  BY <1>1, CreateRefines DEF Device!Next
<1>2. ASSUME NEW th \in Threads, StartCall(th) PROVE Device!Next \/ Hidden
  BY <1>2, RejectRefines, NullRefines, NoWorkerRefines, DispatchRefines DEF StartCall, Device!Next
<1>3. ASSUME NEW th \in Threads, ExchangeStep(th) PROVE Device!Next \/ Hidden
  BY <1>3, ExchangeStepRefines DEF Device!Next
<1>4. ASSUME NEW th \in Threads, CloseCancel(th) \/ CloseFinish(th) \/ DestroyFree(th)
      PROVE  Device!Next \/ Hidden
  BY <1>4, QuietRefines, CloseFinishRefines, DestroyFreeRefines DEF Device!Next
<1>5. ASSUME NEW th \in Owners, StartOwnerCall(th) PROVE Device!Next \/ Hidden
  <2>1. th \in Threads
    BY FrontendAssumption
  <2> QED
    BY <1>5, <2>1, SetBackendRefines, OpenRefines, CloseIdleRefines, QuietRefines
       DEF StartOwnerCall, Device!Next
<1>6. ASSUME NEW t \in Tasks, WorkerStep(t) \/ BackendReturns(t) PROVE Device!Next \/ Hidden
  BY <1>6, WorkerStepRefines DEF Device!Next
<1>7. OtherProcess => Hidden
  BY ZenonT(40) DEF OtherProcess, Hidden, Inflight, requestVars, statusVars, taskVars
<1>8. UNCHANGED vars => Hidden
  BY DEF vars, mockVars, sessionVars, requestVars, statusVars, taskVars, Hidden, Inflight
<1> QED
  BY <1>1, <1>2, <1>3, <1>4, <1>5, <1>6, <1>7, <1>8, HiddenRefines DEF Next

\* The frontend implements the client-visible device: whatever the threads,
\* workers, cancellations and late answers do, the fields that GET_STATUS
\* reports move only as QcpuDevice allows.
THEOREM FrontendImplementsDevice == Spec => DeviceSpec
<1>1. Init => Device!Init
  BY InitRefines
<1>2. IInv /\ [Next]_vars => [Device!Next]_(Device!vars)
  BY StepRefines
<1> QED BY <1>1, <1>2, Invariance, PTL DEF Spec, DeviceSpec, Device!Spec
-----------------------------------------------------------------------------
(* Cancellation.  AskedInv strengthens AbandonedWasAsked.                  *)

\* A thread that was told under the mutex to call the backend's cancel and has
\* not done so yet: the caller of the exchange, or a close.
AboutToAsk(th) ==
    /\ local[th].call_cancel
    /\ \/ pc[th] = "exchange_unlocked"
       \/ pc[th] = "close_cancel" /\ local[th].backend = backend

\* Whoever set cancel_sent has called the backend or is about to, and a caller
\* that has timed out finds it set.
AskedInv ==
    /\ cancel_sent /\ backend \in Cancelable =>
         task[active_task].canceled \/ \E th \in Threads : AboutToAsk(th)
    /\ \A th \in Threads :
         /\ pc[th] \in {"idle", "exchange_wait"} => ~local[th].timed_out
         /\ pc[th] = "exchange_unlocked" /\ local[th].timed_out => cancel_sent
         /\ pc[th] = "grace_wait" => cancel_sent
    /\ active_task # NoTask /\ task[active_task].caller_abandoned => cancel_sent

\* A step that ends BUSY, or starts it, leaves nobody who has to be asked.
LEMMA NobodyToAsk ==
    ASSUME ~cancel_sent',
           active_task' # NoTask => ~task'[active_task'].caller_abandoned,
           \A th \in Threads :
              /\ pc'[th] \notin {"exchange_unlocked", "grace_wait"}
              /\ pc'[th] \in {"idle", "exchange_wait"} => ~local'[th].timed_out
    PROVE  AskedInv'
BY DEF AskedInv

\* A step of one thread, or of none, that neither cancels nor ends a request.
LEMMA StillAsked ==
    ASSUME IInv, AskedInv, NEW S \in SUBSET Threads,
           UNCHANGED <<cancel_sent, backend, active_task>>,
           active_task # NoTask =>
              /\ task[active_task].canceled => task'[active_task].canceled
              /\ task'[active_task].caller_abandoned =>
                    task[active_task].caller_abandoned \/ cancel_sent,
           \A th \in Threads \ S : pc'[th] = pc[th] /\ local'[th] = local[th],
           \A th \in S :
              /\ AboutToAsk(th) => task'[active_task].canceled
              /\ pc'[th] \in {"idle", "exchange_wait"} => ~local'[th].timed_out
              /\ pc'[th] = "exchange_unlocked" /\ local'[th].timed_out => cancel_sent
              /\ pc'[th] = "grace_wait" => cancel_sent
    PROVE  AskedInv'
<1>1. ASSUME cancel_sent', backend' \in Cancelable
      PROVE  task'[active_task'].canceled \/ \E th \in Threads : AboutToAsk(th)'
  <2>1. active_task # NoTask
    BY <1>1 DEF IInv, BusyIsActiveTask
  <2>2. CASE task[active_task].canceled
    BY <2>1, <2>2
  <2>3. ASSUME NEW th \in Threads, AboutToAsk(th)
        PROVE  task'[active_task'].canceled \/ AboutToAsk(th)'
    BY <2>3 DEF AboutToAsk
  <2> QED BY <1>1, <2>2, <2>3 DEF AskedInv
<1>2. ASSUME NEW th \in Threads
      PROVE  /\ pc'[th] \in {"idle", "exchange_wait"} => ~local'[th].timed_out
             /\ pc'[th] = "exchange_unlocked" /\ local'[th].timed_out => cancel_sent'
             /\ pc'[th] = "grace_wait" => cancel_sent'
  BY DEF AskedInv
<1>3. active_task' # NoTask /\ task'[active_task'].caller_abandoned => cancel_sent'
  BY DEF AskedInv
<1> QED BY <1>1, <1>2, <1>3 DEF AskedInv

\* A caller or a worker that drops its reference leaves the active task as it
\* is: its other user still holds it.
LEMMA ReleaseKeepsActive ==
    ASSUME IInv, \/ \E th \in Threads : ExchangeRelease(th)
                 \/ \E t \in Tasks : WorkerRelease(t),
           active_task # NoTask
    PROVE  /\ task'[active_task].canceled = task[active_task].canceled
           /\ task'[active_task].caller_abandoned = task[active_task].caller_abandoned
<1>0. active_task \in Tasks /\ task \in [Tasks -> TaskRecord]
  BY DEF IInv, TypeOK
<1>1. ASSUME NEW t \in Tasks, qcpu_task_release(t), t = active_task => task[t].references = 2
      PROVE  /\ task'[active_task].canceled = task[active_task].canceled
             /\ task'[active_task].caller_abandoned = task[active_task].caller_abandoned
  BY <1>0, <1>1 DEF qcpu_task_release, TaskRecord
<1>2. ASSUME NEW th \in Threads, ExchangeRelease(th)
      PROVE  /\ local[th].task \in Tasks /\ qcpu_task_release(local[th].task)
             /\ local[th].task = active_task => task[local[th].task].references = 2
  <2>1. HoldsTask(th, local[th].task) /\ local[th].task \in Tasks
    BY <1>2 DEF ExchangeRelease, HoldsTask, IInv, CallerOwnsTask
  <2>2. local[th].task = active_task => worker[active_task] # "none"
    BY <1>2 DEF ExchangeRelease, IInv, CallerOwnsTask, WorkerOwnsTask, InCallback
  <2> QED BY <1>2, <2>1, <2>2 DEF ExchangeRelease, IInv, ReferencesCounted
<1>3. ASSUME NEW t \in Tasks, WorkerRelease(t)
      PROVE  qcpu_task_release(t) /\ (t = active_task => task[t].references = 2)
  <2>1. t = active_task => \E th \in Threads : HoldsTask(th, t)
    BY <1>3 DEF WorkerRelease, IInv, WorkerOwnsTask, InCallback, CallerOwnsTask, InExchange,
         HoldsTask
  <2> QED BY <1>3, <2>1 DEF WorkerRelease, IInv, ReferencesCounted
<1> QED BY <1>1, <1>2, <1>3

\* While no request is in flight, or its caller has gone, nobody is inside an
\* exchange; a caller inside one is alone in it.
LEMMA OneCaller ==
    ASSUME IInv
    PROVE  /\ active_task = NoTask \/ task[active_task].caller_abandoned =>
                \A th \in Threads : ~InExchange(th)
           /\ \A th, u \in Threads : InExchange(th) /\ InExchange(u) => th = u
BY DEF IInv, CallerOwnsTask, UsesTask

\* Timing out, and finding a request in flight at close: the one that sets
\* cancel_sent is told to call the backend.
LEMMA AskingAsks ==
    ASSUME IInv, AskedInv, NEW th \in Threads, ExchangeTimeout(th) \/ CloseBusy(th)
    PROVE  AskedInv'
<1>0. /\ pc \in [Threads -> Labels] /\ local \in [Threads -> LocalRecord]
      /\ pc[th] \in {"idle", "exchange_wait"}
      /\ UNCHANGED <<backend, active_task, task>>
  BY ZenonT(30) DEF IInv, TypeOK, ExchangeTimeout, CloseBusy, MayCall, taskVars
<1>1. busy
  <2>1. CASE ExchangeTimeout(th)
    BY <2>1 DEF ExchangeTimeout, IInv, CallerOwnsTask, InExchange, BusyIsActiveTask
  <2>2. CASE CloseBusy(th)
    BY <2>2 DEF CloseBusy
  <2> QED BY <2>1, <2>2
<1>2. cancel_sent' /\ (cancel_sent \/ (CallCancel <=> backend \in Cancelable))
  BY <1>1, ZenonT(30) DEF ExchangeTimeout, CloseBusy, qcpu_request_cancel_locked, CancelNow,
       CallCancel
<1>3. /\ \A u \in Threads \ {th} : pc'[u] = pc[u] /\ local'[u] = local[u]
      /\ pc'[th] \in {"exchange_unlocked", "close_cancel"}
      /\ pc'[th] = "close_cancel" => local'[th].backend = backend
      /\ local'[th].call_cancel = CallCancel
  BY <1>0 DEF ExchangeTimeout, CloseBusy, Goto, Locals
<1>4. ASSUME backend' \in Cancelable
      PROVE  task'[active_task'].canceled \/ \E u \in Threads : AboutToAsk(u)'
  <2>1. CASE ~cancel_sent
    <3>1. local'[th].call_cancel
      BY <1>0, <1>2, <1>3, <1>4, <2>1, ZenonT(30)
    <3> QED BY <1>0, <1>3, <3>1 DEF AboutToAsk
  <2>2. ASSUME NEW u \in Threads, AboutToAsk(u) PROVE AboutToAsk(u)'
    BY <1>0, <1>3, <2>2 DEF AboutToAsk
  <2> QED BY <1>0, <1>4, <2>1, <2>2 DEF AskedInv
<1>5. \A u \in Threads :
        /\ pc'[u] \in {"idle", "exchange_wait"} => ~local'[u].timed_out
        /\ pc'[u] = "exchange_unlocked" /\ local'[u].timed_out => cancel_sent'
        /\ pc'[u] = "grace_wait" => cancel_sent'
  BY <1>2, <1>3 DEF AskedInv
<1> QED BY <1>0, <1>2, <1>4, <1>5 DEF AskedInv

\* The caller of an exchange, after its wait.
LEMMA ExchangeStepAsks ==
    ASSUME IInv, AskedInv, NEW th \in Threads, ExchangeStep(th)
    PROVE  AskedInv'
<1> USE DEF mockVars, requestVars, taskVars, Goto
<1>0. /\ pc \in [Threads -> Labels] /\ local \in [Threads -> LocalRecord]
      /\ task \in [Tasks -> TaskRecord] /\ active_task \in Tasks \cup {NoTask}
      /\ {th} \in SUBSET Threads
  BY DEF IInv, TypeOK
<1>1. CASE ExchangeWake(th)
  <2>1. \A u \in {th} : /\ ~AboutToAsk(u) /\ ~local'[u].timed_out
                        /\ pc'[u] = "exchange_unlocked"
    BY <1>0, <1>1 DEF ExchangeWake, AboutToAsk, AskedInv
  <2> QED BY ZenonT(30), <1>0, <1>1, <2>1, StillAsked DEF ExchangeWake
<1>2. CASE ExchangeTimeout(th)
  BY <1>2, AskingAsks
<1>3. CASE ExchangeCancel(th)
  <2>1. local[th].task = active_task /\ active_task \in Tasks
    BY <1>0, <1>3 DEF ExchangeCancel, IInv, CallerOwnsTask, InExchange
  <2>2. task' = [task EXCEPT ![active_task].canceled = TRUE]
    BY <1>3, <2>1, FrontendAssumption DEF ExchangeCancel, InvokeCancel
  <2>3. /\ task'[active_task].canceled
        /\ task'[active_task].caller_abandoned = task[active_task].caller_abandoned
    BY <1>0, <2>1, <2>2 DEF TaskRecord
  <2>4. /\ \A u \in Threads \ {th} : pc'[u] = pc[u] /\ local'[u] = local[u]
        /\ pc'[th] = "exchange_unlocked" /\ local'[th].timed_out = local[th].timed_out
    BY <1>0, <1>3 DEF ExchangeCancel, LocalRecord
  <2>5. local[th].timed_out => cancel_sent
    BY <1>3 DEF ExchangeCancel, AskedInv
  <2> QED BY ZenonT(30), <1>0, <1>3, <2>3, <2>4, <2>5, StillAsked DEF ExchangeCancel
<1>4. CASE ExchangeGrace(th)
  <2>1. ~AboutToAsk(th) /\ cancel_sent /\ pc'[th] = "grace_wait"
    BY <1>0, <1>4 DEF ExchangeGrace, AboutToAsk, AskedInv, Unanswered
  <2>2. \A u \in Threads \ {th} : pc'[u] = pc[u] /\ local'[u] = local[u]
    BY <1>0, <1>4 DEF ExchangeGrace
  <2> QED BY ZenonT(30), <1>0, <1>4, <2>1, <2>2, StillAsked DEF ExchangeGrace
<1>5. CASE ExchangeAbandon(th)
  <2>1. local[th].task = active_task /\ active_task \in Tasks
    BY <1>0, <1>5 DEF ExchangeAbandon, IInv, CallerOwnsTask, InExchange
  <2>2. task'[active_task].canceled = task[active_task].canceled
    BY <1>0, <1>5, <2>1 DEF ExchangeAbandon, TaskRecord
  <2>3. ~AboutToAsk(th) /\ cancel_sent /\ pc'[th] = "exchange_release"
    BY <1>0, <1>5 DEF ExchangeAbandon, AboutToAsk, AskedInv
  <2>4. \A u \in Threads \ {th} : pc'[u] = pc[u] /\ local'[u] = local[u]
    BY <1>0, <1>5 DEF ExchangeAbandon
  <2> QED BY ZenonT(30), <1>0, <1>5, <2>2, <2>3, <2>4, StillAsked DEF ExchangeAbandon
<1>6. CASE ExchangeFinish(th)
  <2>1. InExchange(th)
    BY <1>6 DEF ExchangeFinish, InExchange
  <2>2. ~cancel_sent' /\ active_task' = NoTask
    BY <1>6, ZenonT(30) DEF ExchangeFinish, qcpu_finalize_exchange_locked
  <2>3. /\ \A u \in Threads \ {th} : pc'[u] = pc[u] /\ local'[u] = local[u]
        /\ pc'[th] = "exchange_release"
    BY <1>0, <1>6 DEF ExchangeFinish
  <2> QED BY <2>1, <2>2, <2>3, OneCaller, NobodyToAsk DEF InExchange, AskedInv
<1>7. CASE ExchangeRelease(th)
  <2>1. /\ \A u \in Threads \ {th} : pc'[u] = pc[u] /\ local'[u] = local[u]
        /\ pc'[th] = "idle" /\ ~local'[th].timed_out /\ ~AboutToAsk(th)
    BY <1>0, <1>7 DEF ExchangeRelease, Return, IdleLocal, Locals, AboutToAsk
  <2>2. active_task # NoTask =>
          /\ task'[active_task].canceled = task[active_task].canceled
          /\ task'[active_task].caller_abandoned = task[active_task].caller_abandoned
    BY <1>7, ReleaseKeepsActive
  <2> QED BY ZenonT(30), <1>0, <1>7, <2>1, <2>2, StillAsked DEF ExchangeRelease
<1> QED BY <1>1, <1>2, <1>3, <1>4, <1>5, <1>6, <1>7 DEF ExchangeStep

\* The callback's worker, whose report ends BUSY for an abandoned request.
LEMMA WorkerStepAsks ==
    ASSUME IInv, AskedInv, NEW t \in Tasks, WorkerStep(t) \/ BackendReturns(t)
    PROVE  AskedInv'
<1> USE DEF mockVars, requestVars, threadVars
<1>0. /\ task \in [Tasks -> TaskRecord] /\ active_task \in Tasks \cup {NoTask}
      /\ {} \in SUBSET Threads
  BY DEF IInv, TypeOK
<1>1. CASE WorkerCall(t)
  BY ZenonT(30), <1>0, <1>1, StillAsked DEF WorkerCall
<1>2. ASSUME NEW outcome \in BackendOutcomes, WorkerReturn(t, outcome) PROVE AskedInv'
  <2>1. active_task # NoTask =>
          /\ task'[active_task].canceled = task[active_task].canceled
          /\ task'[active_task].caller_abandoned = task[active_task].caller_abandoned
    BY <1>0, <1>2 DEF WorkerReturn, TaskRecord
  <2> QED BY ZenonT(30), <1>0, <1>2, <2>1, StillAsked DEF WorkerReturn
<1>3. CASE WorkerDone(t)
  <2>1. CASE task[t].caller_abandoned /\ active_task = t
    <3>1. ~cancel_sent' /\ active_task' = NoTask /\ UNCHANGED <<pc, local>>
      BY <1>3, <2>1, ZenonT(30) DEF WorkerDone
    <3> QED BY <2>1, <3>1, OneCaller, NobodyToAsk DEF InExchange, AskedInv
  <2>2. CASE ~(task[t].caller_abandoned /\ active_task = t)
    <3>1. active_task # NoTask =>
            /\ task'[active_task].canceled = task[active_task].canceled
            /\ task'[active_task].caller_abandoned = task[active_task].caller_abandoned
      BY <1>0, <1>3 DEF WorkerDone, TaskRecord
    <3>2. UNCHANGED <<cancel_sent, backend, active_task, pc, local>>
      BY <1>3, <2>2, ZenonT(30) DEF WorkerDone
    <3> QED BY ZenonT(30), <1>0, <3>1, <3>2, StillAsked
  <2> QED BY <2>1, <2>2
<1>4. CASE WorkerRelease(t)
  BY ZenonT(30), <1>0, <1>4, ReleaseKeepsActive, StillAsked DEF WorkerRelease
<1> QED BY <1>1, <1>2, <1>3, <1>4 DEF WorkerStep, BackendReturns

\* The later steps of close and destroy.
LEMMA CloseStepAsks ==
    ASSUME IInv, AskedInv, NEW th \in Threads,
           CloseCancel(th) \/ CloseFinish(th) \/ DestroyCheck(th) \/ DestroyFree(th)
    PROVE  AskedInv'
<1> USE DEF mockVars, requestVars, taskVars, Goto, Return
<1>0. /\ pc \in [Threads -> Labels] /\ local \in [Threads -> LocalRecord]
      /\ task \in [Tasks -> TaskRecord] /\ active_task \in Tasks \cup {NoTask}
      /\ {th} \in SUBSET Threads
  BY DEF IInv, TypeOK
<1>1. CASE CloseCancel(th)
  <2>1. /\ \A u \in Threads \ {th} : pc'[u] = pc[u] /\ local'[u] = local[u]
        /\ pc'[th] = "close_wait"
        /\ UNCHANGED <<cancel_sent, backend, active_task>>
    BY <1>0, <1>1, ZenonT(30) DEF CloseCancel, Labels
  <2>2. active_task # NoTask =>
          /\ task[active_task].canceled => task'[active_task].canceled
          /\ task'[active_task].caller_abandoned = task[active_task].caller_abandoned
    BY <1>0, <1>1 DEF CloseCancel, InvokeCancel, TaskRecord
  <2>3. AboutToAsk(th) /\ active_task # NoTask => task'[active_task].canceled
    <3> SUFFICES ASSUME AboutToAsk(th), active_task # NoTask PROVE task'[active_task].canceled
      OBVIOUS
    <3>1. local[th].call_cancel /\ local[th].backend = task[active_task].backend
      BY <1>1 DEF CloseCancel, AboutToAsk, IInv, BusyIsActiveTask
    <3>2. task' = [task EXCEPT ![active_task].canceled = TRUE]
      BY <1>1, <3>1 DEF CloseCancel, InvokeCancel
    <3> QED BY <1>0, <3>2 DEF TaskRecord
  <2>4. CASE active_task # NoTask
    BY ZenonT(30), <1>0, <2>1, <2>2, <2>3, <2>4, StillAsked
  <2>5. CASE active_task = NoTask
    <3>1. ~cancel_sent
      BY <2>5 DEF IInv, BusyIsActiveTask
    <3> QED BY <2>1, <2>5, <3>1, OneCaller, NobodyToAsk DEF InExchange, AskedInv
  <2> QED BY <2>4, <2>5
<1>2. CASE CloseFinish(th) \/ DestroyCheck(th) \/ DestroyFree(th)
  <2>1. /\ \A u \in Threads \ {th} : pc'[u] = pc[u] /\ local'[u] = local[u]
        /\ pc'[th] \in {"idle", "destroy_free"}
        /\ pc'[th] = "idle" => ~local'[th].timed_out
        /\ ~AboutToAsk(th)
    BY <1>0, <1>2 DEF CloseFinish, DestroyCheck, DestroyFree, MayCall, AboutToAsk, IdleLocal,
         Locals
  <2>2. UNCHANGED <<cancel_sent, backend, active_task, task>>
    BY <1>2 DEF CloseFinish, DestroyCheck, DestroyFree
  <2> QED BY ZenonT(30), <1>0, <2>1, <2>2, StillAsked
<1> QED BY <1>1, <1>2

\* A step of the frontend preserves AskedInv.
LEMMA NextAsks == IInv /\ AskedInv /\ [Next]_vars => AskedInv'
<1> SUFFICES ASSUME IInv, AskedInv, [Next]_vars PROVE AskedInv'
  OBVIOUS
<1> USE DEF mockVars, sessionVars, requestVars, statusVars, threadVars, taskVars
<1>0. {} \in SUBSET Threads
  OBVIOUS
<1>1. ASSUME NEW b \in Backends \cup {NoBackend}, qcpu_mock_create(b) PROVE AskedInv'
  <2>1. /\ ~cancel_sent' /\ active_task' = NoTask /\ UNCHANGED <<pc, local>>
        /\ \A th \in Threads : pc[th] = "idle"
    BY <1>1, ZenonT(30) DEF qcpu_mock_create
  <2> QED BY <2>1, NobodyToAsk DEF AskedInv
<1>2. ASSUME NEW th \in Threads, StartCall(th) PROVE AskedInv'
  <2>1. ASSUME NEW x \in Exchanges, NEW t \in Tasks, ExchangeDispatch(th, x, t) PROVE AskedInv'
    <3>1. /\ pc \in [Threads -> Labels] /\ local \in [Threads -> LocalRecord]
          /\ task \in [Tasks -> TaskRecord]
      BY DEF IInv, TypeOK
    <3>2. active_task = NoTask
      BY <2>1 DEF ExchangeDispatch, Prevalidate, qcpu_prevalidate_exchange, Accepted, V, IInv,
           BusyIsActiveTask
    <3>3. ~cancel_sent' /\ active_task' = t
      BY <2>1, ZenonT(30) DEF ExchangeDispatch
    <3>4. ~task'[t].caller_abandoned
      BY <2>1, <3>1 DEF ExchangeDispatch, NewTask
    <3>5. /\ \A u \in Threads \ {th} : pc'[u] = pc[u] /\ local'[u] = local[u]
          /\ pc'[th] = "exchange_wait" /\ local'[th].timed_out = local[th].timed_out
          /\ pc[th] = "idle"
      BY <2>1, <3>1 DEF ExchangeDispatch, Goto, LocalRecord, MayCall
    <3> QED BY ZenonT(30), <3>2, <3>3, <3>4, <3>5, OneCaller, NobodyToAsk DEF InExchange, AskedInv
  <2>2. ASSUME NEW x \in Exchanges, ExchangeNoWorker(th, x) PROVE AskedInv'
    <3>1. active_task = NoTask
      BY <2>2 DEF ExchangeNoWorker, Prevalidate, qcpu_prevalidate_exchange, Accepted, V, IInv,
           BusyIsActiveTask
    <3>2. ~cancel_sent' /\ active_task' = NoTask /\ UNCHANGED <<pc, local>>
      BY <2>2, ZenonT(30) DEF ExchangeNoWorker, qcpu_finalize_exchange_locked
    <3> QED BY ZenonT(30), <3>1, <3>2, OneCaller, NobodyToAsk DEF InExchange, AskedInv
  <2>3. CASE \/ \E x \in Exchanges, clock \in ClockReadings : ExchangeReject(th, x, clock)
             \/ ExchangeNull(th)
    <3>1. UNCHANGED <<cancel_sent, backend, active_task, task, pc, local>>
      BY <2>3, ZenonT(30) DEF ExchangeReject, ExchangeNull, RecordReject
    <3> QED BY ZenonT(30), <1>0, <3>1, StillAsked
  <2> QED BY <1>2, <2>1, <2>2, <2>3 DEF StartCall
<1>3. ASSUME NEW th \in Owners, StartOwnerCall(th) PROVE AskedInv'
  <2>0. th \in Threads
    BY FrontendAssumption
  <2>1. ASSUME NEW b \in Backends \cup {NoBackend}, qcpu_mock_set_backend(th, b) PROVE AskedInv'
    <3>1. ~busy /\ UNCHANGED <<cancel_sent, active_task, pc, local>>
      BY <2>1, ZenonT(30) DEF qcpu_mock_set_backend
    <3>2. ~cancel_sent /\ active_task = NoTask
      BY <3>1 DEF IInv, BusyIsActiveTask
    <3> QED BY <3>1, <3>2, OneCaller, NobodyToAsk DEF InExchange, AskedInv
  <2>2. CASE qcpu_mock_open(th) \/ CloseIdle(th)
    <3>1. UNCHANGED <<cancel_sent, backend, active_task, task, pc, local>>
      BY <2>2, ZenonT(30) DEF qcpu_mock_open, CloseIdle
    <3> QED BY ZenonT(30), <1>0, <3>1, StillAsked
  <2> QED BY <1>3, <2>0, <2>1, <2>2, AskingAsks, CloseStepAsks DEF StartOwnerCall
<1>4. CASE OtherProcess \/ UNCHANGED vars
  <2>1. UNCHANGED <<cancel_sent, backend, active_task, task, pc, local>>
    BY <1>4, ZenonT(30) DEF OtherProcess, vars
  <2> QED BY ZenonT(30), <1>0, <2>1, StillAsked
<1> QED
  BY <1>1, <1>2, <1>3, <1>4, ExchangeStepAsks, CloseStepAsks, WorkerStepAsks DEF Next

\* While an abandoned exchange still runs its backend has been asked to cancel
\* it, or the close that was told to ask is about to: with any number of
\* callers, closes and backends nobody is left to run on unasked.
THEOREM AbandonedWasAskedHolds == Spec => []AbandonedWasAsked
<1>1. Init => AskedInv
  BY DEF Init, AskedInv, IdleLocal, Locals
<1>2. IInv /\ AskedInv /\ [Next]_vars => AskedInv'
  BY NextAsks
<1>3. IInv /\ AskedInv => AbandonedWasAsked
  <2> SUFFICES ASSUME IInv, AskedInv, active_task # NoTask, task[active_task].caller_abandoned,
                      task[active_task].backend \in Cancelable, ~task[active_task].canceled
               PROVE  \E th \in Owners : pc[th] = "close_cancel" /\ local[th].call_cancel
    BY DEF AbandonedWasAsked
  <2>1. PICK th \in Threads : AboutToAsk(th)
    BY DEF IInv, BusyIsActiveTask, AskedInv
  <2>2. pc[th] = "close_cancel"
    BY <2>1, OneCaller DEF AboutToAsk, InExchange
  <2> QED BY <2>1, <2>2 DEF AboutToAsk, IInv, SessionOwnsLock
<1> QED BY <1>1, <1>2, <1>3, Invariance, PTL DEF Spec
-----------------------------------------------------------------------------
(* Verdicts.  What an exchange is counted and reported as.                 *)

\* The ordered tests of qcpu_validate_backend_response() and of the end of
\* qcpu_exchange_ioctl() accept exactly the answers ValidResponse describes,
\* and only before the deadline and without a cancellation.
LEMMA ClassifyAccepts ==
    ASSUME NEW request \in Request, NEW outcome \in BackendOutcome,
           NEW timed_out \in BOOLEAN, NEW canceled \in BOOLEAN
    PROVE  Classify(timed_out, canceled, request, outcome) = Accepted
             <=> /\ ~timed_out /\ ~canceled
                 /\ outcome.result = "0"
                 /\ ValidResponse(request, outcome.response)
<1> DEFINE r == outcome.response
<1>1. /\ r \in Response /\ r.norm_q32_32 \in Nat /\ NormOne \in Nat
      /\ r.status \in Statuses \cup {"UNKNOWN"}
  BY UapiAssumption DEF BackendOutcome, Response
<1>2. r.norm_q32_32 > NormOne <=> ~(r.norm_q32_32 <= NormOne)
  BY <1>1
<1>3. \A e \in {"EIO", "ETIMEDOUT", "ECANCELED", "ENODEV"}, s \in Statuses :
        V(e, s) # Accepted
  BY ZenonT(30) DEF V, Accepted
<1>4. \A s : s # "OK" => V(qcpu_status_to_errno(s), s) # Accepted
  BY DEF V, Accepted
<1>5. qcpu_validate_backend_response(request, r) = Accepted <=> ValidResponse(request, r)
  <2>1. "IO" \in Statuses /\ "KERNEL" \in Statuses /\ "OK" \in Statuses
    BY DEF Statuses
  <2> HIDE DEF r
  <2> QED BY <1>2, <1>3, <1>4, <2>1
          DEF qcpu_validate_backend_response, qcpu_status_known, ValidResponse
<1> HIDE DEF r
<1>6. "IO" \in Statuses /\ "TIMEOUT" \in Statuses /\ "CANCELED" \in Statuses
      /\ "BACKEND_ABSENT" \in Statuses
  BY DEF Statuses
<1> QED BY <1>3, <1>4, <1>5, <1>6 DEF Classify, r

\* Every verdict on an admitted exchange is a pair of the error map.
LEMMA ClassifyMapped ==
    ASSUME NEW request \in Request, NEW outcome \in BackendOutcome,
           NEW timed_out \in BOOLEAN, NEW canceled \in BOOLEAN
    PROVE  Classify(timed_out, canceled, request, outcome) \in ErrorMap
<1>1. \A s \in Statuses : V(qcpu_status_to_errno(s), s) \in ErrorMap
  BY DEF qcpu_status_to_errno, Statuses, ErrorMap
<1>2. /\ V("EIO", "IO") \in ErrorMap /\ V("EIO", "KERNEL") \in ErrorMap /\ Accepted \in ErrorMap
      /\ V("ETIMEDOUT", "TIMEOUT") \in ErrorMap /\ V("ECANCELED", "CANCELED") \in ErrorMap
      /\ V("ENODEV", "BACKEND_ABSENT") \in ErrorMap
  BY DEF ErrorMap, Accepted
<1>3. qcpu_validate_backend_response(request, outcome.response) \in ErrorMap
  BY <1>1, <1>2 DEF qcpu_validate_backend_response, qcpu_status_known
<1> QED BY <1>1, <1>2, <1>3 DEF Classify, qcpu_status_known

\* So is every verdict that rejects one.
LEMMA PrevalidateMapped ==
    ASSUME NEW x, NEW clock
    PROVE  Prevalidate(x, clock) \in ErrorMap
BY DEF Prevalidate, qcpu_prevalidate_exchange, ErrorMap, Accepted

\* An exchange that ends has an answer, and is counted as its verdict says.
LEMMA FinishCounts ==
    ASSUME IInv, NEW th \in Threads, ExchangeFinish(th)
    PROVE  LET t == task[local[th].task]
               verdict == Classify(local[th].timed_out, cancel_requested, t.request, t.outcome)
           IN  /\ t.done /\ t.request \in Request /\ t.outcome \in BackendOutcome
               /\ local[th].timed_out \in BOOLEAN /\ cancel_requested \in BOOLEAN
               /\ completed_requests' # completed_requests <=> verdict = Accepted
               /\ last' = verdict
               /\ verdict.status = "BACKEND_ABSENT" => device_state' = "OFFLINE"
               /\ verdict.status # "BACKEND_ABSENT" => device_state' = "IDLE"
<1> DEFINE t == task[local[th].task]
           verdict == Classify(local[th].timed_out, cancel_requested, t.request, t.outcome)
<1>1. /\ InExchange(th) /\ local[th].task = active_task /\ active_task \in Tasks
      /\ backend # NoBackend
  BY DEF ExchangeFinish, InExchange, IInv, CallerOwnsTask, BusyIsActiveTask, TypeOK
<1>2. /\ t.request \in Request /\ t.outcome \in BackendOutcome /\ local[th].timed_out \in BOOLEAN
      /\ cancel_requested \in BOOLEAN /\ completed_requests \in 0..CounterMod - 1
  BY <1>1 DEF IInv, TypeOK, TaskRecord, LocalRecord
<1>3. t.done
  BY <1>1 DEF ExchangeFinish, Unanswered, IInv, CallerOwnsTask
<1>4. Increment(completed_requests) # completed_requests
  BY <1>2, FrontendAssumption DEF Increment
<1>5. qcpu_finalize_exchange_locked(verdict)
  BY DEF ExchangeFinish
<1> HIDE DEF verdict
<1>6. /\ completed_requests' # completed_requests <=> verdict = Accepted
      /\ last' = verdict
      /\ verdict.status = "BACKEND_ABSENT" => device_state' = "OFFLINE"
      /\ verdict.status # "BACKEND_ABSENT" => device_state' = "IDLE"
  BY <1>1, <1>4, <1>5, ZenonT(30) DEF qcpu_finalize_exchange_locked
<1> QED BY ZenonT(30), <1>2, <1>3, <1>6 DEF verdict

\* A caller inside an exchange leaves it only by its own abandoning or
\* finishing step.
LEMMA OwnStepLeaves ==
    ASSUME IInv, Next, NEW th \in Threads, InExchange(th), pc'[th] = "exchange_release"
    PROVE  ExchangeAbandon(th) \/ ExchangeFinish(th)
<1> USE DEF threadVars, Goto, Return
<1>0. pc \in [Threads -> Labels] /\ pc[th] # "exchange_release" /\ pc[th] # "idle"
  BY DEF IInv, TypeOK, InExchange
<1>1. ASSUME NEW u \in Threads, ExchangeStep(u) PROVE ExchangeAbandon(th) \/ ExchangeFinish(th)
  <2>1. CASE u = th
    BY ZenonT(30), <1>0, <1>1, <2>1 DEF ExchangeStep, ExchangeWake, ExchangeTimeout, ExchangeCancel,
         ExchangeGrace, ExchangeRelease
  <2>2. CASE u # th
    <3>1. \E l : pc' = pc \/ pc' = [pc EXCEPT ![u] = l]
      BY <1>1, ZenonT(30) DEF ExchangeStep, ExchangeWake, ExchangeTimeout, ExchangeCancel,
           ExchangeGrace, ExchangeAbandon, ExchangeFinish, ExchangeRelease
    <3> QED BY <1>0, <2>2, <3>1
  <2> QED BY <2>1, <2>2
<1>2. ASSUME NEW u \in Threads,
             StartCall(u) \/ CloseCancel(u) \/ CloseFinish(u) \/ DestroyFree(u)
      PROVE  pc'[th] # "exchange_release"
  <2>1. \/ pc' = pc
        \/ \E l \in {"exchange_wait", "close_wait", "idle"} : pc' = [pc EXCEPT ![u] = l]
    BY <1>2, ZenonT(30) DEF StartCall, ExchangeReject, ExchangeNull, ExchangeNoWorker,
         RecordReject, ExchangeDispatch, CloseCancel, CloseFinish, DestroyFree
  <2> QED BY <1>0, <2>1
<1>3. ASSUME NEW u \in Owners, StartOwnerCall(u) PROVE pc'[th] # "exchange_release"
  <2>1. \/ pc' = pc
        \/ \E l \in {"close_cancel", "destroy_free"} : pc' = [pc EXCEPT ![u] = l]
    BY <1>3, ZenonT(30) DEF StartOwnerCall, qcpu_mock_set_backend, qcpu_mock_open, CloseIdle,
         CloseBusy, DestroyCheck
  <2> QED BY <1>0, <2>1
<1>4. \/ \E b \in Backends \cup {NoBackend} : qcpu_mock_create(b)
      \/ OtherProcess
      \/ \E t \in Tasks : WorkerStep(t) \/ BackendReturns(t)
      => pc' = pc
  BY ZenonT(30) DEF qcpu_mock_create, OtherProcess, WorkerStep, BackendReturns, WorkerCall,
     WorkerReturn, WorkerDone, WorkerRelease
<1> QED BY <1>0, <1>1, <1>2, <1>3, <1>4 DEF Next

\* An exchange is counted as completed exactly when it was neither timed out
\* nor canceled and its backend's answer is valid for the request its own
\* caller made, for every request and every answer a backend can give.
THEOREM CompletedIsValidHolds == Spec => CompletedIsValid
<1>1. ASSUME IInv, Next, NEW th \in Threads, InExchange(th), pc'[th] = "exchange_release"
      PROVE  LET t == task[local[th].task]
             IN  completed_requests' # completed_requests
                   <=> /\ ~local[th].timed_out
                       /\ ~cancel_requested
                       /\ t.done
                       /\ t.outcome.result = "0"
                       /\ ValidResponse(t.request, t.outcome.response)
  <2>1. CASE ExchangeAbandon(th)
    BY <2>1 DEF ExchangeAbandon
  <2>2. CASE ExchangeFinish(th)
    BY <1>1, <2>2, FinishCounts, ClassifyAccepts
  <2> QED BY <1>1, <2>1, <2>2, OwnStepLeaves
<1>2. IInv /\ [Next]_vars =>
        [\A th \in Threads :
           InExchange(th) /\ pc'[th] = "exchange_release" =>
             LET t == task[local[th].task]
             IN  completed_requests' # completed_requests
                   <=> /\ ~local[th].timed_out
                       /\ ~cancel_requested
                       /\ t.done
                       /\ t.outcome.result = "0"
                       /\ ValidResponse(t.request, t.outcome.response)]_vars
  BY <1>1
<1> QED BY <1>2, Invariance, PTL DEF Spec, CompletedIsValid

\* A verdict says BACKEND_ABSENT only when the backend said so.
LEMMA ClassifyAbsent ==
    ASSUME NEW request \in Request, NEW outcome \in BackendOutcome,
           NEW timed_out \in BOOLEAN, NEW canceled \in BOOLEAN,
           Classify(timed_out, canceled, request, outcome).status = "BACKEND_ABSENT"
    PROVE  outcome.result = "-ENODEV" \/ outcome.response.status = "BACKEND_ABSENT"
<1>1. \A e, s : V(e, s).status = s
  BY DEF V
<1>2. qcpu_validate_backend_response(request, outcome.response).status = "BACKEND_ABSENT"
        => outcome.response.status = "BACKEND_ABSENT"
  BY <1>1 DEF qcpu_validate_backend_response, Accepted
<1> QED BY <1>1, <1>2 DEF Classify

\* BUSY ends in two ways only: the caller finishes its exchange, or the worker of
\* an exchange that its caller abandoned reports.
LEMMA BusyEnds ==
    ASSUME IInv, Next, busy, ~busy'
    PROVE  \/ \E th \in Threads : ExchangeFinish(th)
           \/ \E t \in Tasks : WorkerDone(t) /\ task[t].caller_abandoned /\ active_task = t
<1> USE DEF mockVars, requestVars
<1>1. ASSUME NEW th \in Threads, StartCall(th) PROVE FALSE
  <2>1. ASSUME NEW x \in Exchanges, Prevalidate(x, "ok") = Accepted PROVE FALSE
    BY <2>1 DEF Prevalidate, qcpu_prevalidate_exchange, Accepted, V
  <2>2. ASSUME \/ \E x \in Exchanges, clock \in ClockReadings : ExchangeReject(th, x, clock)
               \/ ExchangeNull(th)
        PROVE  FALSE
    BY <2>2, ZenonT(30) DEF ExchangeReject, ExchangeNull, RecordReject
  <2> QED BY <1>1, <2>1, <2>2 DEF StartCall, ExchangeNoWorker, ExchangeDispatch
<1>2. ASSUME NEW th \in Threads,
             \/ ExchangeWake(th) \/ ExchangeTimeout(th) \/ ExchangeCancel(th)
             \/ ExchangeGrace(th) \/ ExchangeAbandon(th) \/ ExchangeRelease(th)
             \/ CloseCancel(th) \/ CloseFinish(th) \/ DestroyFree(th)
      PROVE  FALSE
  BY <1>2, ZenonT(30) DEF ExchangeWake, ExchangeTimeout, ExchangeCancel, ExchangeGrace,
       ExchangeAbandon, ExchangeRelease, CloseCancel, CloseFinish, DestroyFree
<1>3. ASSUME NEW th \in Owners, StartOwnerCall(th) PROVE FALSE
  BY <1>3, ZenonT(30) DEF StartOwnerCall, qcpu_mock_set_backend, qcpu_mock_open, CloseIdle,
       CloseBusy, DestroyCheck
<1>4. ASSUME NEW t \in Tasks, WorkerCall(t) \/ WorkerRelease(t) \/ BackendReturns(t)
      PROVE  FALSE
  BY <1>4, ZenonT(30) DEF BackendReturns, WorkerCall, WorkerReturn, WorkerRelease
<1>5. ASSUME NEW t \in Tasks, WorkerDone(t)
      PROVE  task[t].caller_abandoned /\ active_task = t
  BY <1>5, ZenonT(30) DEF WorkerDone
<1>6. ~OtherProcess
  BY ZenonT(30) DEF OtherProcess
<1>7. ~\E b \in Backends \cup {NoBackend} : qcpu_mock_create(b)
  BY DEF qcpu_mock_create, IInv, SessionOwnsLock
<1> QED BY <1>1, <1>2, <1>3, <1>4, <1>5, <1>6, <1>7 DEF Next, ExchangeStep, WorkerStep

\* Every result GET_STATUS reports is a pair of the error map, the device is
\* OFFLINE with a result that says BACKEND_ABSENT, and IDLE once BUSY ends on a
\* backend that did not disconnect.
THEOREM ResultAgreesHolds == Spec => ResultAgrees
<1>1. ASSUME IInv, Next, last' # last, allocated, allocated'
      PROVE  /\ last' \in ErrorMap
             /\ last'.status = "BACKEND_ABSENT" => device_state' = "OFFLINE"
  <2> USE DEF mockVars, statusVars, requestVars
  <2>1. ASSUME NEW th \in Threads, NEW x \in Exchanges, NEW clock \in ClockReadings,
               ExchangeReject(th, x, clock)
        PROVE  /\ last' \in ErrorMap
               /\ last'.status = "BACKEND_ABSENT" => device_state' = "OFFLINE"
    BY <2>1, PrevalidateMapped, ZenonT(30) DEF ExchangeReject, RecordReject
  <2>2. ASSUME NEW th \in Threads, ExchangeNull(th)
        PROVE  /\ last' \in ErrorMap
               /\ last'.status = "BACKEND_ABSENT" => device_state' = "OFFLINE"
    BY <2>2 DEF ExchangeNull, RecordReject, ErrorMap, V
  <2>3. ASSUME NEW th \in Threads, NEW x \in Exchanges, ExchangeNoWorker(th, x)
        PROVE  last' \in ErrorMap /\ last'.status # "BACKEND_ABSENT"
    BY <2>3 DEF ExchangeNoWorker, qcpu_finalize_exchange_locked, ErrorMap, V
  <2>4. ASSUME NEW th \in Threads, ExchangeAbandon(th)
        PROVE  last' \in ErrorMap /\ last'.status # "BACKEND_ABSENT"
    BY <2>4 DEF ExchangeAbandon, ErrorMap, V
  <2>5. ASSUME NEW th \in Threads, ExchangeFinish(th)
        PROVE  /\ last' \in ErrorMap
               /\ last'.status = "BACKEND_ABSENT" => device_state' = "OFFLINE"
    BY <1>1, <2>5, FinishCounts, ClassifyMapped
  <2>6. ASSUME NEW th \in Threads,
               \/ \E x \in Exchanges, t \in Tasks : ExchangeDispatch(th, x, t)
               \/ ExchangeWake(th) \/ ExchangeTimeout(th) \/ ExchangeCancel(th)
               \/ ExchangeGrace(th) \/ ExchangeRelease(th)
               \/ CloseCancel(th) \/ CloseFinish(th) \/ DestroyFree(th)
        PROVE  last' = last
    BY <2>6, ZenonT(30) DEF ExchangeDispatch, ExchangeWake, ExchangeTimeout, ExchangeCancel,
         ExchangeGrace, ExchangeRelease, CloseCancel, CloseFinish, DestroyFree
  <2>7. ASSUME NEW th \in Owners, StartOwnerCall(th) PROVE last' = last
    BY <2>7, ZenonT(30) DEF StartOwnerCall, qcpu_mock_set_backend, qcpu_mock_open, CloseIdle,
         CloseBusy, DestroyCheck
  <2>8. ASSUME NEW t \in Tasks, WorkerStep(t) \/ BackendReturns(t) PROVE last' = last
    BY <2>8, ZenonT(30) DEF WorkerStep, BackendReturns, WorkerCall, WorkerReturn, WorkerDone,
         WorkerRelease
  <2>9. OtherProcess => last' = last
    BY ZenonT(30) DEF OtherProcess
  <2>10. ~\E b \in Backends \cup {NoBackend} : qcpu_mock_create(b)
    BY <1>1 DEF qcpu_mock_create
  <2> QED
    BY <1>1, <2>1, <2>2, <2>3, <2>4, <2>5, <2>6, <2>7, <2>8, <2>9, <2>10
       DEF Next, StartCall, ExchangeStep
<1>2. ASSUME IInv, Next, busy, ~busy', ~BackendGone PROVE device_state' = "IDLE"
  <2>1. ASSUME NEW th \in Threads, ExchangeFinish(th) PROVE device_state' = "IDLE"
    <3>1. local[th].task = active_task
      BY <1>2, <2>1 DEF ExchangeFinish, IInv, CallerOwnsTask, InExchange
    <3> QED BY <1>2, <2>1, <3>1, FinishCounts, ClassifyAbsent DEF BackendGone
  <2>2. ASSUME NEW t \in Tasks, WorkerDone(t), task[t].caller_abandoned, active_task = t
        PROVE  device_state' = "IDLE"
    BY <1>2, <2>2 DEF WorkerDone, BackendGone, IInv, BusyIsActiveTask
  <2> QED BY <1>2, <2>1, <2>2, BusyEnds
<1>3. IInv /\ [Next]_vars =>
        [/\ last' # last /\ allocated /\ allocated' =>
             /\ last' \in ErrorMap
             /\ last'.status = "BACKEND_ABSENT" => device_state' = "OFFLINE"
         /\ busy /\ ~busy' /\ ~BackendGone => device_state' = "IDLE"]_vars
  BY <1>1, <1>2
<1> QED BY <1>3, Invariance, PTL DEF Spec, ResultAgrees
=============================================================================
