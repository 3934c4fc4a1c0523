----------------------------- MODULE QcpuStack ------------------------------
(***************************************************************************)
(* The frontend of QcpuMockFrontend with the adapter of QcpudAdapter as    *)
(* its backend, as a client of qcpud runs them: the worker thread of a     *)
(* task runs the adapter's exchange callback, and the cancel callbacks of  *)
(* a timed-out caller and of close run the adapter's cancel.               *)
(*                                                                         *)
(* Both components get the same absolute deadline, so here the caller's    *)
(* timed wait returns ETIMEDOUT only once that deadline has passed.  The    *)
(* other users of the lock file and of the descriptor table, which the two *)
(* modules have on their own, are left out.                                *)
(***************************************************************************)
EXTENDS QcpuMockFrontend

CONSTANTS Fds, Frames

VARIABLES
    adapter_active, active_fd, adapter_cancel_requested,
    at, request, fd, expired, io_status, outcome, file, canceled

adapterVars ==
    <<adapter_active, active_fd, adapter_cancel_requested, at, request, fd, expired,
      io_status, outcome, file, canceled>>

stackVars == <<vars, adapterVars>>

Adapter ==
    INSTANCE QcpudAdapter WITH
        Calls <- Tasks, Requests <- {x.request : x \in Exchanges},
        active <- adapter_active, cancel_requested <- adapter_cancel_requested

\* Task cells are not the two other kinds of descriptor owner.
ASSUME StackAssumption ==
    /\ "nobody" \notin Tasks /\ "other" \notin Tasks
    /\ Fds \subseteq Nat
    /\ Frames \subseteq Adapter!Frame

StackInit == Init /\ Adapter!Init

\* What qcpu_exchange_ioctl() tells apart in the result of a callback.
CallbackOutcome(t) ==
    [outcome[t] EXCEPT
       !.result = IF @ \in {"0", "-ENODEV", "-ETIMEDOUT", "-ECANCELED"} THEN @ ELSE "-EIO"]

\* A client starts an exchange: the task carries the request and the deadline.
Dispatch(th) ==
    \E x \in Exchanges, t \in Tasks : ExchangeDispatch(th, x, t) /\ Adapter!Arrive(t, x.request)

DeadlinePasses(th) == ExchangeTimeout(th) /\ expired[local[th].task] /\ UNCHANGED adapterVars

\* The two places that call ops->cancel.
CallerCancels(th) == ExchangeCancel(th) /\ Adapter!qcpu_qcpud_cancel

CloseCancels(th) ==
    /\ CloseCancel(th)
    /\ IF local[th].call_cancel THEN Adapter!qcpu_qcpud_cancel ELSE UNCHANGED adapterVars

CallerStep(th) ==
    \/ DeadlinePasses(th)
    \/ CallerCancels(th)
    \/ /\ \/ ExchangeWake(th)
          \/ ExchangeGrace(th)
          \/ ExchangeAbandon(th)
          \/ ExchangeFinish(th)
          \/ ExchangeRelease(th)
       /\ UNCHANGED adapterVars

OwnerStep(th) ==
    \/ CloseCancels(th)
    \/ (CloseFinish(th) \/ DestroyFree(th)) /\ UNCHANGED adapterVars

\* The worker thread, inside and outside the callback.
Worker(t) ==
    \/ worker[t] = "exchange" /\ Adapter!CallStep(t) /\ UNCHANGED vars
    \/ WorkerReturn(t, CallbackOutcome(t)) /\ Adapter!Return(t)
    \/ WorkerStep(t) /\ UNCHANGED adapterVars

Clock(t) == task[t].references > 0 /\ Adapter!Expire(t) /\ UNCHANGED vars

ClientCall(th) ==
    \/ Dispatch(th)
    \/ /\ \/ \E x \in Exchanges, clock \in ClockReadings : ExchangeReject(th, x, clock)
          \/ ExchangeNull(th)
          \/ \E x \in Exchanges : ExchangeNoWorker(th, x)
       /\ UNCHANGED adapterVars

Daemon(t) == Adapter!DaemonStep(t) /\ UNCHANGED vars

StackNext ==
    \/ \E b \in Backends \cup {NoBackend} : qcpu_mock_create(b) /\ UNCHANGED adapterVars
    \/ \E th \in Threads : ClientCall(th) \/ CallerStep(th) \/ OwnerStep(th)
    \/ \E th \in Owners : StartOwnerCall(th) /\ UNCHANGED adapterVars
    \/ \E t \in Tasks : Worker(t) \/ Clock(t) \/ Daemon(t)

\* Threads run; nothing is assumed of the daemon.
StackThreads ==
    /\ \A th \in Threads : WF_stackVars(CallerStep(th)) /\ WF_stackVars(OwnerStep(th))
    /\ \A t \in Tasks : WF_stackVars(Worker(t))

StackSpec == StackInit /\ [][StackNext]_stackVars /\ StackThreads

\* Time passes as well.
TimedStackSpec == StackSpec /\ \A t \in Tasks : WF_stackVars(Clock(t))

-----------------------------------------------------------------------------
(* Properties.                                                             *)

\* When the frontend is not BUSY the adapter is out of use: no call is inside
\* it and it owns no descriptor.  So it may be detached and destroyed, and the
\* next exchange is never refused with -EBUSY, although a caller that timed out
\* was gone long before its callback returned.
AdapterQuiescent ==
    ~busy => /\ ~adapter_active
             /\ \A t \in Tasks : at[t] = "idle"
             /\ \A f \in Fds : file[f].owner \notin Tasks

\* Whatever the daemon does, BUSY ends: the deadline that was handed down ends
\* the callback, also when the one cancellation came too early to be noticed.
StackBusyEnds == busy ~> ~busy
=============================================================================
