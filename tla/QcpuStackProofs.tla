-------------------------- MODULE QcpuStackProofs ---------------------------
(***************************************************************************)
(* The frontend and the adapter together, for any number of threads,       *)
(* tasks, descriptors and answers of the daemon.  The invariants of the    *)
(* two components are those of their own proofs; what the composition adds *)
(* is the coupling of a worker thread with its call inside the adapter.    *)
(***************************************************************************)
EXTENDS QcpuStack, QcpuMockFrontendProofs

\* The proofs of the adapter, for the adapter that QcpuStack instantiates.
Proved ==
    INSTANCE QcpudAdapterProofs WITH
        Calls <- Tasks, Requests <- {x.request : x \in Exchanges},
        active <- adapter_active, cancel_requested <- adapter_cancel_requested

\* A task's call is in the adapter exactly while its worker is to make it or
\* is making it.
Coupled ==
    \A t \in Tasks :
      /\ worker[t] = "created" => at[t] = "begin"
      /\ worker[t] = "exchange" => at[t] # "idle"
      /\ worker[t] \notin {"created", "exchange"} => at[t] = "idle"

\* The inductive invariant of the composition.
StackInv == IInv /\ Proved!AdapterInv /\ Coupled

-----------------------------------------------------------------------------
(* The adapter of QcpuStack is the one the adapter's proofs are about.     *)

\* The constants of QcpuStack satisfy what the adapter's proofs assume.
LEMMA AdapterConstants ==
    /\ "nobody" \notin Tasks /\ "other" \notin Tasks
    /\ Fds \subseteq Nat
    /\ {x.request : x \in Exchanges} \subseteq Proved!Request
    /\ Frames \subseteq Proved!Frame
<1>1. {x.request : x \in Exchanges} \subseteq Proved!Request
  BY FrontendAssumption DEF Exchange, Request, Proved!Request
<1>2. Frames \subseteq Proved!Frame
  BY StackAssumption DEF Adapter!Frame, Proved!Frame, Adapter!DeviceStatuses,
     Proved!DeviceStatuses
<1> QED BY <1>1, <1>2, StackAssumption

\* The steps of a call inside the callback are the same.
LEMMA SameCallStep ==
    ASSUME NEW t, Adapter!CallStep(t)
    PROVE  Proved!CallStep(t)
<1> USE DEF Adapter!Goto, Proved!Goto, Adapter!Store, Proved!Store, Adapter!Fail, Proved!Fail,
        Adapter!structVars, Proved!structVars, Adapter!NoFd, Proved!NoFd, Adapter!ZeroOutcome,
        Proved!ZeroOutcome
<1>1. Adapter!qcpu_adapter_begin(t) => Proved!qcpu_adapter_begin(t)
  BY DEF Adapter!qcpu_adapter_begin, Proved!qcpu_adapter_begin
<1>2. Adapter!OutOfTime(t) => Proved!OutOfTime(t)
  BY DEF Adapter!OutOfTime, Proved!OutOfTime
<1>3. Adapter!ConnectGetsFd(t) => Proved!ConnectGetsFd(t)
  BY DEF Adapter!ConnectGetsFd, Proved!ConnectGetsFd, Adapter!File, Proved!File
<1>4. Adapter!ConnectFails(t) => Proved!ConnectFails(t)
  BY DEF Adapter!ConnectFails, Proved!ConnectFails
<1>5. Adapter!qcpu_adapter_register_fd(t) => Proved!qcpu_adapter_register_fd(t)
  BY DEF Adapter!qcpu_adapter_register_fd, Proved!qcpu_adapter_register_fd, Adapter!Shutdown,
         Proved!Shutdown
<1>6. Adapter!StartIo(t) => Proved!StartIo(t)
  BY DEF Adapter!StartIo, Proved!StartIo
<1>7. Adapter!qcpu_device_write_all(t) => Proved!qcpu_device_write_all(t)
  BY DEF Adapter!qcpu_device_write_all, Proved!qcpu_device_write_all, Adapter!Flows,
         Proved!Flows, Adapter!Connection, Proved!Connection
<1>8. Adapter!ShutdownWrite(t) => Proved!ShutdownWrite(t)
  BY DEF Adapter!ShutdownWrite, Proved!ShutdownWrite
<1>9. Adapter!qcpu_device_read_all(t) => Proved!qcpu_device_read_all(t)
  BY DEF Adapter!qcpu_device_read_all, Proved!qcpu_device_read_all, Adapter!Connection,
         Proved!Connection, Adapter!Answer, Proved!Answer,
         Adapter!qcpu_adapter_translate_response, Proved!qcpu_adapter_translate_response,
         Adapter!NormRejected, Proved!NormRejected, Adapter!NormUnits, Proved!NormUnits,
         Adapter!NormTolerance, Proved!NormTolerance, Adapter!qcpu_adapter_status,
         Proved!qcpu_adapter_status, Adapter!DeviceStatuses, Proved!DeviceStatuses,
         Adapter!qcpu_adapter_status_result, Proved!qcpu_adapter_status_result,
         Adapter!qcpu_mock_norm_to_q32_32, Proved!qcpu_mock_norm_to_q32_32
<1>10. Adapter!IoError(t) => Proved!IoError(t)
  BY DEF Adapter!IoError, Proved!IoError, Adapter!Flows, Proved!Flows, Adapter!Connection,
         Proved!Connection
<1>11. Adapter!IoTimeout(t) => Proved!IoTimeout(t)
  BY DEF Adapter!IoTimeout, Proved!IoTimeout
<1>12. Adapter!qcpu_adapter_io_result(t) => Proved!qcpu_adapter_io_result(t)
  BY DEF Adapter!qcpu_adapter_io_result, Proved!qcpu_adapter_io_result
<1>13. Adapter!qcpu_adapter_finish(t) => Proved!qcpu_adapter_finish(t)
  BY DEF Adapter!qcpu_adapter_finish, Proved!qcpu_adapter_finish
<1>14. Adapter!FinishClose(t) => Proved!FinishClose(t)
  BY DEF Adapter!FinishClose, Proved!FinishClose, Adapter!Closed, Proved!Closed, Adapter!File,
         Proved!File
<1> QED BY <1>1, <1>2, <1>3, <1>4, <1>5, <1>6, <1>7, <1>8, <1>9, <1>10, <1>11, <1>12, <1>13,
           <1>14
       DEF Adapter!CallStep, Proved!CallStep

\* So are the steps that start and end a call, those of the daemon and of the
\* clock, and the cancel callback.
LEMMA SameOtherSteps ==
    /\ Adapter!Init => Proved!Init
    /\ \A t, r : Adapter!Arrive(t, r) => Proved!Arrive(t, r)
    /\ \A t : Adapter!Return(t) => Proved!Return(t)
    /\ \A t : Adapter!DaemonStep(t) => Proved!DaemonStep(t)
    /\ \A t : Adapter!Expire(t) => Proved!Expire(t)
    /\ Adapter!qcpu_qcpud_cancel => Proved!qcpu_qcpud_cancel
    /\ UNCHANGED adapterVars => UNCHANGED Proved!vars
<1> USE DEF Adapter!Goto, Proved!Goto, Adapter!Store, Proved!Store, Adapter!structVars,
        Proved!structVars, Adapter!NoFd, Proved!NoFd, Adapter!ZeroOutcome, Proved!ZeroOutcome,
        Adapter!ZeroRequest, Proved!ZeroRequest, Adapter!Closed, Proved!Closed, Adapter!File,
        Proved!File, Adapter!Connection, Proved!Connection
<1>1. Adapter!Init => Proved!Init
  BY DEF Adapter!Init, Proved!Init
<1>2. \A t, r : Adapter!Arrive(t, r) => Proved!Arrive(t, r)
  BY DEF Adapter!Arrive, Proved!Arrive
<1>3. \A t : Adapter!Return(t) => Proved!Return(t)
  BY DEF Adapter!Return, Proved!Return
<1>4. \A t : Adapter!DaemonStep(t) => Proved!DaemonStep(t)
  BY DEF Adapter!DaemonStep, Proved!DaemonStep, Adapter!DaemonAnswers, Proved!DaemonAnswers,
         Adapter!DaemonDrops, Proved!DaemonDrops
<1>5. \A t : Adapter!Expire(t) => Proved!Expire(t)
  BY DEF Adapter!Expire, Proved!Expire
<1>6. Adapter!qcpu_qcpud_cancel => Proved!qcpu_qcpud_cancel
  BY DEF Adapter!qcpu_qcpud_cancel, Proved!qcpu_qcpud_cancel, Adapter!IsActive, Proved!IsActive,
         Adapter!Shutdown, Proved!Shutdown
<1>7. UNCHANGED adapterVars => UNCHANGED Proved!vars
  BY DEF adapterVars, Proved!vars
<1> QED BY <1>1, <1>2, <1>3, <1>4, <1>5, <1>6, <1>7
-----------------------------------------------------------------------------
(* Every step is a step of the frontend, of the adapter, or of both.       *)

\* What the callback hands to the frontend is an outcome the frontend knows.
LEMMA CallbackOutcomeType ==
    ASSUME StackInv, NEW t \in Tasks
    PROVE  CallbackOutcome(t) \in BackendOutcome
<1>1. outcome[t] \in [result : Proved!Results, response : Proved!Response]
  BY DEF StackInv, Proved!AdapterInv, Proved!TypeOK
<1>2. Proved!Response = Response
  BY DEF Proved!Response, Response, Proved!Statuses, Statuses
<1> QED BY <1>1, <1>2 DEF CallbackOutcome, BackendOutcome

\* A step of the composition is a step of the frontend, or the return of a
\* callback, or does not concern the frontend.
LEMMA FrontendPart ==
    ASSUME [StackNext]_stackVars
    PROVE  \/ [Next]_vars
           \/ \E t \in Tasks : WorkerReturn(t, CallbackOutcome(t)) /\ Adapter!Return(t)
<1>1. ASSUME NEW th \in Threads, ClientCall(th) \/ CallerStep(th) \/ OwnerStep(th)
      PROVE  StartCall(th) \/ ExchangeStep(th) \/ CloseCancel(th) \/ CloseFinish(th)
             \/ DestroyFree(th)
  BY <1>1, ZenonT(30) DEF ClientCall, Dispatch, CallerStep, DeadlinePasses, CallerCancels,
     OwnerStep, CloseCancels, StartCall, ExchangeStep
<1>2. ASSUME NEW t \in Tasks, Worker(t) \/ Clock(t) \/ Daemon(t)
      PROVE  \/ WorkerStep(t) \/ UNCHANGED vars
             \/ WorkerReturn(t, CallbackOutcome(t)) /\ Adapter!Return(t)
  BY <1>2, ZenonT(30) DEF Worker, Clock, Daemon
<1>3. UNCHANGED stackVars => UNCHANGED vars
  BY DEF stackVars
<1> QED BY <1>1, <1>2, <1>3, ZenonT(30) DEF StackNext, Next

\* The frontend's invariant is preserved.
LEMMA FrontendStep == StackInv /\ [StackNext]_stackVars => IInv'
<1> SUFFICES ASSUME StackInv, [StackNext]_stackVars PROVE IInv'
  OBVIOUS
<1>1. ASSUME NEW t \in Tasks, WorkerReturn(t, CallbackOutcome(t)) PROVE IInv'
  <2>1. PICK o \in BackendOutcome : o = CallbackOutcome(t)
    BY CallbackOutcomeType
  <2> QED BY <1>1, <2>1, WorkerReturnInv DEF StackInv
<1> QED BY <1>1, FrontendPart, NextInv DEF StackInv

\* A step of the composition is a step of the adapter, or the passing of a
\* deadline, or does not concern the adapter.
LEMMA AdapterPart ==
    ASSUME [StackNext]_stackVars
    PROVE  \/ \E t \in Tasks, x \in Exchanges : Adapter!Arrive(t, x.request)
           \/ \E t \in Tasks : \/ Adapter!CallStep(t) \/ Adapter!Return(t)
                               \/ Adapter!DaemonStep(t) \/ Adapter!Expire(t)
           \/ Adapter!qcpu_qcpud_cancel
           \/ UNCHANGED adapterVars
<1>1. ASSUME NEW th \in Threads, ClientCall(th) \/ CallerStep(th) \/ OwnerStep(th)
      PROVE  \/ \E t \in Tasks, x \in Exchanges : Adapter!Arrive(t, x.request)
             \/ Adapter!qcpu_qcpud_cancel
             \/ UNCHANGED adapterVars
  BY <1>1, ZenonT(30) DEF ClientCall, Dispatch, CallerStep, DeadlinePasses, CallerCancels,
     OwnerStep, CloseCancels
<1>2. ASSUME NEW t \in Tasks, Worker(t) \/ Clock(t) \/ Daemon(t)
      PROVE  \/ Adapter!CallStep(t) \/ Adapter!Return(t)
             \/ Adapter!DaemonStep(t) \/ Adapter!Expire(t)
             \/ UNCHANGED adapterVars
  BY <1>2, ZenonT(30) DEF Worker, Clock, Daemon
<1>3. UNCHANGED stackVars => UNCHANGED adapterVars
  BY DEF stackVars
<1> QED BY <1>1, <1>2, <1>3, ZenonT(30) DEF StackNext

\* The adapter's invariant is preserved.
LEMMA AdapterStep == StackInv /\ [StackNext]_stackVars => Proved!AdapterInv'
<1> SUFFICES ASSUME StackInv, [StackNext]_stackVars PROVE Proved!AdapterInv'
  OBVIOUS
<1>0. Proved!AdapterInv
  BY DEF StackInv
<1>1. [Proved!Next]_(Proved!vars) => Proved!AdapterInv'
  <2> HIDE DEF Proved!Next, Proved!vars, Proved!AdapterInv
  <2> QED BY <1>0, AdapterConstants, UapiAssumption, Proved!NextInv
<1>2. ASSUME NEW t \in Tasks, Proved!Expire(t) PROVE Proved!AdapterInv'
  <2> HIDE DEF Proved!Expire, Proved!AdapterInv
  <2> QED BY <1>0, <1>2, AdapterConstants, UapiAssumption, Proved!ExpireInv
<1>3. ASSUME NEW t \in Tasks, NEW x \in Exchanges, Adapter!Arrive(t, x.request)
      PROVE  Proved!Next
  BY <1>3, SameOtherSteps DEF Proved!Next
<1>4. ASSUME NEW t \in Tasks,
             Adapter!CallStep(t) \/ Adapter!Return(t) \/ Adapter!DaemonStep(t)
      PROVE  Proved!Next
  BY <1>4, SameCallStep, SameOtherSteps DEF Proved!Next
<1>5. Adapter!qcpu_qcpud_cancel => Proved!Next
  BY SameOtherSteps DEF Proved!Next
<1> QED BY <1>1, <1>2, <1>3, <1>4, <1>5, AdapterPart, SameOtherSteps

\* A step inside the callback stays inside it.
LEMMA CallStepStays ==
    ASSUME NEW t, Proved!CallStep(t)
    PROVE  \E l : l # "idle" /\ at' = [at EXCEPT ![t] = l]
<1> USE DEF Proved!Goto, Proved!Fail
<1>1. CASE \/ Proved!qcpu_adapter_begin(t) \/ Proved!OutOfTime(t) \/ Proved!ConnectFails(t)
           \/ Proved!qcpu_adapter_register_fd(t) \/ Proved!qcpu_adapter_io_result(t)
           \/ Proved!qcpu_adapter_finish(t) \/ Proved!FinishClose(t)
  BY <1>1 DEF Proved!qcpu_adapter_begin, Proved!OutOfTime, Proved!ConnectFails,
     Proved!qcpu_adapter_register_fd, Proved!qcpu_adapter_io_result,
     Proved!qcpu_adapter_finish, Proved!FinishClose
<1>2. CASE \/ Proved!ConnectGetsFd(t) \/ Proved!StartIo(t) \/ Proved!qcpu_device_write_all(t)
           \/ Proved!ShutdownWrite(t) \/ Proved!qcpu_device_read_all(t) \/ Proved!IoError(t)
           \/ Proved!IoTimeout(t)
  BY <1>2 DEF Proved!ConnectGetsFd, Proved!StartIo, Proved!qcpu_device_write_all,
     Proved!ShutdownWrite, Proved!qcpu_device_read_all, Proved!IoError, Proved!IoTimeout
<1> QED BY <1>1, <1>2 DEF Proved!CallStep

\* A step of one task's worker and call keeps the coupling if it keeps its own.
LEMMA OneCoupled ==
    ASSUME StackInv, NEW t \in Tasks, NEW w, NEW l,
           worker' = [worker EXCEPT ![t] = w], at' = [at EXCEPT ![t] = l],
           w = "created" => l = "begin",
           w = "exchange" => l # "idle",
           w \notin {"created", "exchange"} => l = "idle"
    PROVE  Coupled'
<1>1. DOMAIN worker = Tasks /\ DOMAIN at = Tasks
  BY DEF StackInv, IInv, TypeOK, Proved!AdapterInv, Proved!TypeOK
<1>2. Coupled
  BY DEF StackInv
<1>3. ASSUME NEW u \in Tasks
      PROVE  IF u = t THEN worker'[u] = w /\ at'[u] = l
                      ELSE worker'[u] = worker[u] /\ at'[u] = at[u]
  BY <1>1
<1> QED BY <1>2, <1>3 DEF Coupled

\* The coupling is preserved.
LEMMA CoupledStep == StackInv /\ [StackNext]_stackVars => Coupled'
<1> SUFFICES ASSUME StackInv, [StackNext]_stackVars PROVE Coupled'
  OBVIOUS
<1> USE DEF mockVars, threadVars, taskVars
<1>0. /\ Coupled
      /\ worker \in [Tasks -> {"none", "created", "exchange", "returned", "release"}]
      /\ at \in [Tasks -> Proved!Labels]
  BY DEF StackInv, IInv, TypeOK, Proved!AdapterInv, Proved!TypeOK
<1>1. UNCHANGED <<worker, at>> => Coupled'
  BY <1>0 DEF Coupled
<1>2. ASSUME NEW th \in Threads, Dispatch(th) PROVE Coupled'
  <2>1. PICK x \in Exchanges, t \in Tasks :
          ExchangeDispatch(th, x, t) /\ Proved!Arrive(t, x.request)
    BY <1>2, SameOtherSteps DEF Dispatch
  <2> QED BY <2>1, OneCoupled DEF ExchangeDispatch, Proved!Arrive, Proved!Goto
<1>3. ASSUME NEW t \in Tasks, Worker(t) PROVE Coupled'
  <2>1. CASE worker[t] = "exchange" /\ Adapter!CallStep(t) /\ UNCHANGED vars
    <3>1. PICK l : l # "idle" /\ at' = [at EXCEPT ![t] = l]
      BY <2>1, SameCallStep, CallStepStays
    <3>2. worker' = [worker EXCEPT ![t] = "exchange"]
      BY <1>0, <2>1 DEF vars
    <3> QED BY <3>1, <3>2, OneCoupled
  <2>2. CASE WorkerReturn(t, CallbackOutcome(t)) /\ Adapter!Return(t)
    <3>1. Proved!Return(t)
      BY <2>2, SameOtherSteps
    <3> QED BY <2>2, <3>1, OneCoupled DEF WorkerReturn, Proved!Return, Proved!Goto
  <2>3. CASE WorkerStep(t) /\ UNCHANGED adapterVars
    <3>1. at' = [at EXCEPT ![t] = at[t]]
      BY <1>0, <2>3 DEF adapterVars
    <3>2. PICK w : /\ worker' = [worker EXCEPT ![t] = w]
                   /\ \/ worker[t] = "created" /\ w = "exchange"
                      \/ worker[t] \in {"returned", "release"} /\ w \in {"release", "none"}
      BY <2>3 DEF WorkerStep, WorkerCall, WorkerDone, WorkerRelease
    <3> QED BY <1>0, <3>1, <3>2, OneCoupled DEF Coupled
  <2> QED BY <1>3, <2>1, <2>2, <2>3 DEF Worker
<1>4. ASSUME NEW t \in Tasks, Clock(t) \/ Daemon(t) PROVE Coupled'
  <2>1. Proved!Expire(t) \/ Proved!DaemonStep(t)
    BY <1>4, SameOtherSteps DEF Clock, Daemon
  <2>2. UNCHANGED <<worker, at>>
    BY <1>4, <2>1 DEF Clock, Daemon, vars, Proved!Expire, Proved!DaemonStep,
         Proved!DaemonAnswers, Proved!DaemonDrops
  <2> QED BY <1>1, <2>2
<1>5. ASSUME NEW th \in Threads, ClientCall(th) \/ CallerStep(th) \/ OwnerStep(th), ~Dispatch(th)
      PROVE  Coupled'
  <2>1. worker' = worker
    BY <1>5, ZenonT(30) DEF ClientCall, CallerStep, OwnerStep, DeadlinePasses, CallerCancels,
       CloseCancels, ExchangeReject, ExchangeNull, RecordReject, ExchangeNoWorker,
       ExchangeTimeout, ExchangeCancel, ExchangeWake, ExchangeGrace, ExchangeAbandon,
       ExchangeFinish, ExchangeRelease, CloseCancel, CloseFinish, DestroyFree
  <2>2. UNCHANGED adapterVars \/ Proved!qcpu_qcpud_cancel
    BY <1>5, SameOtherSteps, ZenonT(30) DEF ClientCall, CallerStep, OwnerStep, DeadlinePasses,
       CallerCancels, CloseCancels
  <2>3. at' = at
    BY <2>2 DEF adapterVars, Proved!qcpu_qcpud_cancel
  <2> QED BY <1>1, <2>1, <2>3
<1>6. ASSUME NEW b \in Backends \cup {NoBackend}, qcpu_mock_create(b), UNCHANGED adapterVars
      PROVE  Coupled'
  BY <1>1, <1>6 DEF qcpu_mock_create, adapterVars
<1>7. ASSUME NEW th \in Owners, StartOwnerCall(th), UNCHANGED adapterVars PROVE Coupled'
  <2>1. worker' = worker
    BY <1>7, ZenonT(30) DEF StartOwnerCall, qcpu_mock_set_backend, qcpu_mock_open, CloseIdle,
       CloseBusy, DestroyCheck
  <2> QED BY <1>1, <1>7, <2>1 DEF adapterVars
<1>8. UNCHANGED stackVars => Coupled'
  BY <1>1 DEF stackVars, vars, adapterVars
<1> QED BY <1>2, <1>3, <1>4, <1>5, <1>6, <1>7, <1>8 DEF StackNext
-----------------------------------------------------------------------------
(* What holds of the composition.                                          *)

\* The invariants of the frontend and of the adapter hold together with the
\* coupling, whatever the daemon, the clock and the cancellations do.
THEOREM StackInvariance == StackSpec => []StackInv
<1>1. StackInit => StackInv
  <2> SUFFICES ASSUME StackInit PROVE StackInv
    OBVIOUS
  <2>1. Proved!Init
    BY SameOtherSteps DEF StackInit
  <2>2. Proved!AdapterInv
    BY <2>1, AdapterConstants, UapiAssumption, Proved!InitInv
  <2>3. IInv
    BY InitInv DEF StackInit
  <2>4. Coupled
    BY <2>1 DEF StackInit, Init, Proved!Init, Coupled
  <2> QED BY <2>2, <2>3, <2>4 DEF StackInv
<1>2. StackInv /\ [StackNext]_stackVars => StackInv'
  BY FrontendStep, AdapterStep, CoupledStep DEF StackInv
<1>3. StackSpec => StackInit /\ [][StackNext]_stackVars
  BY PTL DEF StackSpec
<1> QED BY <1>1, <1>2, <1>3, PTL

\* While the frontend is not BUSY no call is inside the adapter and it owns no
\* descriptor, so set_backend may detach it and its owner may destroy it.
THEOREM AdapterQuiescentHolds == StackSpec => []AdapterQuiescent
<1>1. StackInv => AdapterQuiescent
  <2> SUFFICES ASSUME StackInv, ~busy PROVE AdapterQuiescent
    BY DEF AdapterQuiescent
  <2>1. \A t \in Tasks : ~InCallback(t)
    BY FrontendAssumption DEF StackInv, IInv, BusyIsActiveTask, WorkerOwnsTask
  <2>2. \A t \in Tasks : at[t] = "idle"
    BY <2>1 DEF StackInv, Coupled, InCallback
  <2>3. ~adapter_active
    BY <2>2 DEF StackInv, Proved!AdapterInv, Proved!ActiveCall, Proved!IsActive
  <2>4. \A t \in Tasks : fd[t] = Proved!NoFd
    BY <2>2 DEF StackInv, Proved!AdapterInv, Proved!StructInv, Proved!CallInv, Proved!HoldsFd
  <2>5. \A f \in Fds : file[f].owner \notin Tasks
    BY <2>4, StackAssumption DEF StackInv, Proved!AdapterInv, Proved!DescriptorsOwned,
       Proved!NoFd
  <2> QED BY <2>2, <2>3, <2>5 DEF AdapterQuiescent
<1> QED BY <1>1, StackInvariance, PTL

\* A callback that is about to enter the adapter finds it free.
NeverRefused == \A t \in Tasks : at[t] = "begin" => ~adapter_active

\* qcpu_adapter_begin() never finds the adapter active: its -EBUSY is dead code
\* behind this frontend, although a caller that timed out is gone before its
\* callback has left the adapter.
THEOREM NeverRefusedHolds == StackSpec => []NeverRefused
<1>1. StackInv => NeverRefused
  <2> SUFFICES ASSUME StackInv, NEW t \in Tasks, at[t] = "begin" PROVE ~adapter_active
    BY DEF NeverRefused
  <2>1. InCallback(t)
    BY DEF StackInv, Coupled, InCallback
  <2>2. \A u \in Tasks : InCallback(u) => u = t
    BY <2>1 DEF StackInv, IInv, WorkerOwnsTask
  <2>3. \A u \in Tasks : at[u] \in {"idle", "begin"}
    BY <2>2 DEF StackInv, Coupled, InCallback
  <2> QED BY <2>3 DEF StackInv, Proved!AdapterInv, Proved!ActiveCall, Proved!IsActive
<1> QED BY <1>1, StackInvariance, PTL

\* With the adapter behind it the frontend is still the device that clients see.
THEOREM StackImplementsDevice == StackSpec => DeviceSpec
<1>1. StackInit => Device!Init
  BY InitRefines DEF StackInit
<1>2. StackInv /\ [StackNext]_stackVars => [Device!Next]_(Device!vars)
  <2> SUFFICES ASSUME StackInv, [StackNext]_stackVars PROVE [Device!Next]_(Device!vars)
    OBVIOUS
  <2>1. IInv
    BY DEF StackInv
  <2>2. [Next]_vars => [Device!Next]_(Device!vars)
    BY <2>1, StepRefines
  <2>3. ASSUME NEW t \in Tasks, WorkerReturn(t, CallbackOutcome(t)) PROVE UNCHANGED Device!vars
    <3>1. PICK o \in BackendOutcome : o = CallbackOutcome(t)
      BY CallbackOutcomeType
    <3> QED BY <2>1, <2>3, <3>1, WorkerReturnHidden, HiddenRefines
  <2> QED BY <2>2, <2>3, FrontendPart
<1>3. StackSpec => StackInit /\ [][StackNext]_stackVars
  BY PTL DEF StackSpec
<1> QED BY <1>1, <1>2, <1>3, StackInvariance, PTL DEF DeviceSpec, Device!Spec
=============================================================================
