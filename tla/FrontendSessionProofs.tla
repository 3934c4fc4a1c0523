----------------------- MODULE FrontendSessionProofs ------------------------
(***************************************************************************)
(* The steps that end an exchange, those of the worker thread and the two  *)
(* releases of the task among them, and the steps that create, open, close *)
(* and destroy the mock preserve the inductive invariant.                  *)
(***************************************************************************)
EXTENDS FrontendExchangeProofs

\* The time a leaf is given, by SMT and then by Zenon.
USE SMTT(60), ZenonT(60)

\* Settling an exchange preserves the invariant: its worker has reported, so
\* no callback is left running without an active task.
LEMMA FinishInv ==
    ASSUME IInv, NEW th \in Threads, ExchangeFinish(th)
    PROVE  IInv'
<1> USE FrontendAssumption DEF ExchangeFinish, Goto, qcpu_finalize_exchange_locked, mockVars,
     sessionVars, requestVars, statusVars, threadVars, taskVars, IInv
<1>0. /\ local[th].task = active_task /\ active_task \in Tasks
      /\ ~task[active_task].caller_abandoned
      /\ task[active_task].done
      /\ \A u \in Threads : InExchange(u) => u = th
  BY DEF CallerOwnsTask, WorkerOwnsTask, InExchange, TypeOK, UsesTask, Unanswered
<1> DEFINE verdict == Classify(local[th].timed_out, cancel_requested,
                              task[active_task].request, task[active_task].outcome)
<1>a. last' = verdict /\ last' \in Verdict
  BY <1>0, VerdictType DEF TypeOK, LocalRecord, TaskRecord
<1>b. local' = [local EXCEPT ![th].errno = verdict.errno] /\ verdict.errno \in Errnos
  BY <1>0, <1>a DEF Verdict
<1> HIDE DEF verdict
<1>1. TypeOK'
  <2>1. local' \in [Threads -> LocalRecord]
    BY <1>b, LocalErrno, ZenonT(40)
  <2>2. /\ completed_requests' \in 0..CounterMod - 1
        /\ failed_requests' \in 0..CounterMod - 1
    BY IncrementType DEF TypeOK
  <2>3. busy' \in BOOLEAN /\ cancel_requested' \in BOOLEAN /\ cancel_sent' \in BOOLEAN
    BY ZenonT(40)
  <2> QED BY <1>a, <2>1, <2>2, <2>3 DEF TypeOK, Labels, DeviceStates
<1>2. CallerOwnsTask'
  BY <1>0 DEF CallerOwnsTask, InExchange, UsesTask, TypeOK
<1>3. WorkerOwnsTask'
  BY <1>0 DEF WorkerOwnsTask, InCallback, TypeOK, InExchange
<1>4. SessionOwnsLock'
  BY DEF SessionOwnsLock, TypeOK, BusyIsActiveTask
<1>5. ReferencesCounted'
  BY DEF ReferencesCounted, HoldsTask, TypeOK
<1>6. BusyIsActiveTask'
  BY DEF BusyIsActiveTask, TypeOK
<1>7. CountedOnce'
  <2>1. Unsettled = 1 /\ Unsettled' = 0
    BY <1>0 DEF Unsettled, TypeOK
  <2> QED BY <2>1 DEF CountedOnce, TypeOK, Increment
<1> QED
  BY <1>1, <1>2, <1>3, <1>4, <1>5, <1>6, <1>7 DEF IInv

\* The caller's release of its task preserves the invariant.
LEMMA ReleaseInv ==
    ASSUME IInv, NEW th \in Threads, ExchangeRelease(th)
    PROVE  IInv'
<1>p. PICK t \in Tasks : t = local[th].task
  BY DEF IInv, CallerOwnsTask, ExchangeRelease
<1>f. /\ pc[th] = "exchange_release" /\ pc' = [pc EXCEPT ![th] = "idle"]
      /\ local' = [local EXCEPT ![th] = IdleLocal]
      /\ qcpu_task_release(t) /\ worker' = worker
  BY <1>p DEF ExchangeRelease, Return, Goto
<1>m. /\ UNCHANGED <<allocated, backend, session_open, lock_fd, flock_owner, busy>>
      /\ UNCHANGED <<cancel_requested, cancel_sent, active_task, device_state, last>>
      /\ UNCHANGED <<completed_requests, failed_requests, admitted>>
  BY DEF ExchangeRelease, mockVars, sessionVars, requestVars, statusVars
<1>t. /\ pc \in [Threads -> Labels] /\ local \in [Threads -> LocalRecord]
      /\ active_task \in Tasks \cup {NoTask}
  BY DEF IInv, TypeOK
<1>0. /\ t \in Tasks /\ HoldsTask(th, t)
      /\ task[t].references \in 1..2
      /\ task[t].references = 1 => worker[t] = "none"
      /\ active_task = t => worker[t] # "none"
  <2>1. t \in Tasks /\ HoldsTask(th, t)
    BY <1>f, <1>p DEF HoldsTask
  <2>2. task[t].references = (IF worker[t] # "none" THEN 1 ELSE 0) + 1
    BY <2>1 DEF IInv, ReferencesCounted
  <2>3. active_task = t => InCallback(t)
    BY ZenonT(40), <1>f, <1>p, <2>1, FrontendAssumption DEF IInv, CallerOwnsTask, WorkerOwnsTask
  <2> QED BY <2>1, <2>2, <2>3 DEF InCallback
<1>a. /\ task' \in [Tasks -> TaskRecord]
      /\ task'[t].references = task[t].references - 1
      /\ \A u \in Tasks : u # t => task'[u] = task[u]
      /\ task[t].references = 2 =>
           /\ task'[t].done = task[t].done
           /\ task'[t].caller_abandoned = task[t].caller_abandoned
           /\ task'[t].backend = task[t].backend
  BY <1>0, <1>f, TaskReleased DEF IInv
<1>b. \A u \in Threads : UsesTask(u) /\ u # th => local[u].task # t
  BY <1>f, <1>p DEF IInv, CallerOwnsTask, UsesTask
<1>c. /\ ~UsesTask(th)'
      /\ \A u \in Threads : u # th => pc'[u] = pc[u] /\ local'[u] = local[u]
      /\ \A u \in Threads : InExchange(u)' <=> InExchange(u)
  BY <1>f, <1>t DEF UsesTask, InExchange
<1>d. /\ active_task # NoTask =>
           /\ active_task \in Tasks
           /\ task'[active_task].done = task[active_task].done
           /\ task'[active_task].caller_abandoned = task[active_task].caller_abandoned
           /\ task'[active_task].backend = task[active_task].backend
           /\ task'[active_task].references > 0
  <2>1. active_task # NoTask => active_task \in Tasks /\ task[active_task].references > 0
    BY <1>t DEF IInv, ReferencesCounted
  <2>2. active_task = t => task[t].references = 2
    BY <1>0
  <2> QED BY <1>0, <1>a, <1>t, <2>1, <2>2 DEF IInv, TypeOK, TaskRecord
<1>1. TypeOK'
  <2>1. local' \in [Threads -> LocalRecord] /\ pc' \in [Threads -> Labels]
    BY <1>f, <1>t DEF IdleLocal, Locals, LocalRecord, Labels, Errnos
  <2> QED BY <1>a, <1>f, <1>m, <2>1, ZenonT(40) DEF IInv, TypeOK
<1>2. CallerOwnsTask'
  <2>1. \A u \in Threads : UsesTask(u)' => u # th /\ UsesTask(u)
    BY <1>c DEF UsesTask, InExchange
  <2>2. \A u \in Threads :
          UsesTask(u)' => /\ pc'[u] = pc[u] /\ local'[u] = local[u]
                          /\ InExchange(u)' <=> InExchange(u)
    BY <1>c, <2>1
  <2>3. active_task' = active_task
    BY <1>m
  <2>4. ASSUME NEW u \in Threads
        PROVE  /\ InExchange(u)' => /\ local'[u].task = active_task'
                                    /\ active_task' # NoTask
                                    /\ ~task'[active_task'].caller_abandoned
               /\ pc'[u] = "exchange_unlocked" =>
                     local'[u].timed_out \/ task'[active_task'].done
               /\ pc'[u] = "exchange_release" =>
                    /\ local'[u].task \in Tasks
                    /\ local'[u].task = active_task' =>
                          task'[active_task'].caller_abandoned
    <3>1. CASE UsesTask(u)'
      <4>1. /\ pc'[u] = pc[u] /\ local'[u] = local[u]
            /\ InExchange(u)' <=> InExchange(u)
        BY <2>2, <3>1
      <4>2. /\ InExchange(u) => /\ local[u].task = active_task
                                /\ active_task # NoTask
                                /\ ~task[active_task].caller_abandoned
            /\ pc[u] = "exchange_unlocked" =>
                  local[u].timed_out \/ task[active_task].done
            /\ pc[u] = "exchange_release" =>
                 /\ local[u].task \in Tasks
                 /\ local[u].task = active_task => task[active_task].caller_abandoned
        BY ZenonT(40) DEF IInv, CallerOwnsTask
      <4>3. NoTask \notin Tasks /\ (pc[u] = "exchange_unlocked" => InExchange(u))
        BY FrontendAssumption DEF InExchange
      <4> QED BY <1>d, <2>3, <4>1, <4>2, <4>3
    <3>2. CASE ~UsesTask(u)'
      BY <3>2 DEF UsesTask, InExchange
    <3> QED BY ZenonT(40), <3>1, <3>2
  <2>5. \A u, v \in Threads :
          UsesTask(u)' /\ UsesTask(v)' /\ local'[u].task = local'[v].task => u = v
    BY <2>1, <2>2 DEF IInv, CallerOwnsTask
  <2> QED BY ZenonT(40), <2>4, <2>5 DEF CallerOwnsTask
<1>3. WorkerOwnsTask'
  <2>1. \A u \in Tasks : InCallback(u)' <=> InCallback(u)
    BY <1>f DEF InCallback
  <2>2. \A u \in Tasks : worker[u] # "none" => task'[u].done = task[u].done
    BY <1>0, <1>a
  <2> QED
    BY <1>c, <1>d, <1>f, <1>m, <2>1, <2>2 DEF IInv, WorkerOwnsTask, InCallback
<1>4. SessionOwnsLock'
  BY <1>m, <1>f, <1>t DEF IInv, SessionOwnsLock
<1>5. ReferencesCounted'
  <2>1. \A u \in Threads : ~HoldsTask(u, t)'
    <3> SUFFICES ASSUME NEW u \in Threads PROVE ~HoldsTask(u, t)'
      OBVIOUS
    <3>1. CASE u = th
      BY <1>c, <3>1 DEF HoldsTask, UsesTask, InExchange
    <3>2. CASE u # th
      BY <1>b, <1>c, <3>2 DEF HoldsTask, UsesTask, InExchange
    <3> QED BY <3>1, <3>2
  <2>2. \A u \in Threads, k \in Tasks : k # t => (HoldsTask(u, k)' <=> HoldsTask(u, k))
    <3> SUFFICES ASSUME NEW u \in Threads, NEW k \in Tasks, k # t
                 PROVE  HoldsTask(u, k)' <=> HoldsTask(u, k)
      OBVIOUS
    <3>1. CASE u = th
      BY <1>c, <1>p, <3>1 DEF HoldsTask, UsesTask, InExchange
    <3>2. CASE u # th
      BY <1>c, <3>2 DEF HoldsTask
    <3> QED BY <3>1, <3>2
  <2>3. ASSUME NEW k \in Tasks
        PROVE  task'[k].references = (IF worker'[k] # "none" THEN 1 ELSE 0)
                                   + (IF \E u \in Threads : HoldsTask(u, k)' THEN 1 ELSE 0)
    <3>1. task[k].references = (IF worker[k] # "none" THEN 1 ELSE 0)
                             + (IF \E u \in Threads : HoldsTask(u, k) THEN 1 ELSE 0)
      BY DEF IInv, ReferencesCounted
    <3>2. CASE k = t
      BY <1>0, <1>a, <1>f, <2>1, <3>1, <3>2
    <3>3. CASE k # t
      <4>1. task'[k] = task[k] /\ worker'[k] = worker[k]
        BY <1>a, <1>f, <3>3
      <4>2. (\E u \in Threads : HoldsTask(u, k)') <=> (\E u \in Threads : HoldsTask(u, k))
        BY <2>2, <3>3
      <4> QED BY <3>1, <4>1, <4>2
    <3> QED BY <3>2, <3>3
  <2> QED BY ZenonT(40), <1>d, <1>m, <2>3 DEF ReferencesCounted
<1>6. BusyIsActiveTask'
  BY <1>d, <1>m DEF IInv, BusyIsActiveTask
<1>7. CountedOnce'
  BY <1>d, <1>m DEF IInv, CountedOnce, Unsettled
<1> QED
  BY <1>1, <1>2, <1>3, <1>4, <1>5, <1>6, <1>7 DEF IInv

\* Entering the exchange callback preserves the invariant.
LEMMA WorkerCallInv ==
    ASSUME IInv, NEW t \in Tasks, WorkerCall(t)
    PROVE  IInv'
<1> USE FrontendAssumption DEF WorkerCall, mockVars, sessionVars, requestVars, statusVars,
     threadVars, taskVars, IInv
<1>1. TypeOK'
  BY FreeTaskType, IncrementType DEF TypeOK, LocalRecord, IdleLocal, Locals, Labels,
       DeviceStates, TaskRecord
<1>2. CallerOwnsTask'
  BY DEF CallerOwnsTask, InExchange, UsesTask, TypeOK
<1>3. WorkerOwnsTask'
  BY DEF WorkerOwnsTask, InCallback, TypeOK, InExchange
<1>4. SessionOwnsLock'
  BY DEF SessionOwnsLock, TypeOK, BusyIsActiveTask
<1>5. ReferencesCounted'
  BY DEF ReferencesCounted, HoldsTask, TypeOK
<1>6. BusyIsActiveTask'
  BY DEF BusyIsActiveTask, TypeOK
<1>7. CountedOnce'
  BY DEF CountedOnce, Unsettled, TypeOK, Increment
<1> QED
  BY <1>1, <1>2, <1>3, <1>4, <1>5, <1>6, <1>7 DEF IInv

\* Returning from the exchange callback preserves the invariant.
LEMMA WorkerReturnInv ==
    ASSUME IInv, NEW t \in Tasks, NEW outcome \in BackendOutcome, WorkerReturn(t, outcome)
    PROVE  IInv'
<1> USE FrontendAssumption DEF WorkerReturn, mockVars, sessionVars, requestVars, statusVars,
     threadVars, taskVars, IInv
<1>1. TypeOK'
  <2>1. task' \in [Tasks -> TaskRecord]
    BY TaskAnswered
  <2> QED BY <2>1 DEF TypeOK
<1>2. CallerOwnsTask'
  BY DEF CallerOwnsTask, InExchange, UsesTask, TypeOK
<1>3. WorkerOwnsTask'
  BY DEF WorkerOwnsTask, InCallback, TypeOK, InExchange
<1>4. SessionOwnsLock'
  BY DEF SessionOwnsLock, TypeOK, BusyIsActiveTask
<1>5. ReferencesCounted'
  BY DEF ReferencesCounted, HoldsTask, TypeOK
<1>6. BusyIsActiveTask'
  BY DEF BusyIsActiveTask, TypeOK
<1>7. CountedOnce'
  BY DEF CountedOnce, Unsettled, TypeOK, Increment
<1> QED
  BY <1>1, <1>2, <1>3, <1>4, <1>5, <1>6, <1>7 DEF IInv

\* The worker's report preserves the invariant, abandoned or not.
LEMMA WorkerDoneInv ==
    ASSUME IInv, NEW t \in Tasks, WorkerDone(t)
    PROVE  IInv'
<1> USE FrontendAssumption DEF WorkerDone, mockVars, sessionVars, requestVars, statusVars,
     threadVars, taskVars, IInv
<1>1. TypeOK'
  <2>1. task' \in [Tasks -> TaskRecord]
    BY TaskDone
  <2>2. busy' \in BOOLEAN /\ cancel_requested' \in BOOLEAN /\ cancel_sent' \in BOOLEAN
    BY ZenonT(40) DEF TypeOK
  <2> QED BY <2>1, <2>2 DEF TypeOK, DeviceStates
<1>2. CallerOwnsTask'
  BY DEF CallerOwnsTask, InExchange, UsesTask, TypeOK
<1>3. WorkerOwnsTask'
  BY DEF WorkerOwnsTask, InCallback, TypeOK, InExchange
<1>4. SessionOwnsLock'
  BY DEF SessionOwnsLock, TypeOK, BusyIsActiveTask
<1>5. ReferencesCounted'
  BY DEF ReferencesCounted, HoldsTask, TypeOK
<1>6. BusyIsActiveTask'
  BY DEF BusyIsActiveTask, TypeOK
<1>7. CountedOnce'
  BY DEF CountedOnce, Unsettled, TypeOK, Increment
<1> QED
  BY <1>1, <1>2, <1>3, <1>4, <1>5, <1>6, <1>7 DEF IInv

\* The worker's release of its task preserves the invariant.
LEMMA WorkerReleaseInv ==
    ASSUME IInv, NEW t \in Tasks, WorkerRelease(t)
    PROVE  IInv'
<1>f. /\ worker[t] = "release" /\ worker' = [worker EXCEPT ![t] = "none"]
      /\ qcpu_task_release(t) /\ pc' = pc /\ local' = local
  BY DEF WorkerRelease, threadVars
<1>m. /\ UNCHANGED <<allocated, backend, session_open, lock_fd, flock_owner, busy>>
      /\ UNCHANGED <<cancel_requested, cancel_sent, active_task, device_state, last>>
      /\ UNCHANGED <<completed_requests, failed_requests, admitted>>
  BY DEF WorkerRelease, mockVars, sessionVars, requestVars, statusVars
<1>t. /\ worker \in [Tasks -> {"none", "created", "exchange", "returned", "release"}]
      /\ active_task \in Tasks \cup {NoTask}
  BY DEF IInv, TypeOK
<1>0. /\ task[t].references \in 1..2
      /\ task[t].references = 1 => \A th \in Threads : ~HoldsTask(th, t)
      /\ active_task = t => \E th \in Threads : HoldsTask(th, t)
  <2>1. task[t].references = 1 + (IF \E th \in Threads : HoldsTask(th, t) THEN 1 ELSE 0)
    BY <1>f DEF IInv, ReferencesCounted
  <2>2. active_task = t => \E th \in Threads : InExchange(th)
    BY <1>f, FrontendAssumption DEF IInv, WorkerOwnsTask, InCallback
  <2>3. \A th \in Threads : InExchange(th) /\ active_task = t => HoldsTask(th, t)
    BY DEF IInv, CallerOwnsTask, InExchange, HoldsTask
  <2> QED BY <2>1, <2>2, <2>3
<1>a. /\ task' \in [Tasks -> TaskRecord]
      /\ task'[t].references = task[t].references - 1
      /\ \A u \in Tasks : u # t => task'[u] = task[u]
      /\ task[t].references = 2 =>
           /\ task'[t].done = task[t].done
           /\ task'[t].caller_abandoned = task[t].caller_abandoned
           /\ task'[t].backend = task[t].backend
  BY <1>0, <1>f, TaskReleased DEF IInv
<1>d. active_task # NoTask =>
        /\ active_task \in Tasks
        /\ task'[active_task].done = task[active_task].done
        /\ task'[active_task].caller_abandoned = task[active_task].caller_abandoned
        /\ task'[active_task].backend = task[active_task].backend
        /\ task'[active_task].references > 0
  <2>1. active_task # NoTask => active_task \in Tasks /\ task[active_task].references > 0
    BY <1>t DEF IInv, ReferencesCounted
  <2>2. active_task = t => task[t].references = 2
    BY <1>0
  <2> QED BY <1>0, <1>a, <1>t, <2>1, <2>2 DEF IInv, TypeOK, TaskRecord
<1>1. TypeOK'
  <2>1. worker' \in [Tasks -> {"none", "created", "exchange", "returned", "release"}]
    BY <1>f, <1>t
  <2> QED BY <1>a, <1>f, <1>m, <2>1, ZenonT(40) DEF IInv, TypeOK
<1>2. CallerOwnsTask'
  <2>1. \A th \in Threads : /\ InExchange(th)' <=> InExchange(th)
                            /\ UsesTask(th)' <=> UsesTask(th)
    BY <1>f DEF InExchange, UsesTask
  <2>2. active_task' = active_task /\ pc' = pc /\ local' = local
    BY <1>f, <1>m
  <2>3. ASSUME NEW th \in Threads
        PROVE  /\ InExchange(th)' => /\ local'[th].task = active_task'
                                     /\ active_task' # NoTask
                                     /\ ~task'[active_task'].caller_abandoned
               /\ pc'[th] = "exchange_unlocked" =>
                     local'[th].timed_out \/ task'[active_task'].done
               /\ pc'[th] = "exchange_release" =>
                    /\ local'[th].task \in Tasks
                    /\ local'[th].task = active_task' =>
                          task'[active_task'].caller_abandoned
    <3>1. /\ InExchange(th) => /\ local[th].task = active_task
                               /\ active_task # NoTask
                               /\ ~task[active_task].caller_abandoned
          /\ pc[th] = "exchange_unlocked" => local[th].timed_out \/ task[active_task].done
          /\ pc[th] = "exchange_release" =>
               /\ local[th].task \in Tasks
               /\ local[th].task = active_task => task[active_task].caller_abandoned
      BY ZenonT(40) DEF IInv, CallerOwnsTask
    <3>2. pc[th] = "exchange_unlocked" => InExchange(th)
      BY DEF InExchange
    <3>3. InExchange(th)' <=> InExchange(th)
      BY <2>1
    <3>4. local[th].task \in Tasks /\ local[th].task = active_task => active_task # NoTask
      BY FrontendAssumption
    <3> QED BY ZenonT(40), <1>d, <2>2, <3>1, <3>2, <3>3, <3>4
  <2> QED BY ZenonT(40), <2>1, <2>2, <2>3 DEF IInv, CallerOwnsTask
<1>3. WorkerOwnsTask'
  <2>1. \A u \in Tasks : /\ InCallback(u)' <=> InCallback(u)
                         /\ u # t => worker'[u] = worker[u] /\ task'[u] = task[u]
    BY <1>a, <1>f, <1>t DEF InCallback
  <2>2. \A u \in Tasks : /\ InCallback(u)' => active_task' = u /\ ~task'[u].done
                         /\ worker'[u] = "release" => task'[u].done
    BY <1>f, <1>m, <1>t, <2>1 DEF IInv, WorkerOwnsTask, InCallback
  <2>3. \A th \in Threads : InExchange(th)' <=> InExchange(th)
    BY <1>f DEF InExchange
  <2> QED
    BY <1>d, <1>m, <2>1, <2>2, <2>3 DEF IInv, WorkerOwnsTask
<1>4. SessionOwnsLock'
  BY <1>f, <1>m DEF IInv, SessionOwnsLock
<1>5. ReferencesCounted'
  <2>1. \A th \in Threads, k \in Tasks : HoldsTask(th, k)' <=> HoldsTask(th, k)
    BY <1>f DEF HoldsTask
  <2>2. ASSUME NEW k \in Tasks
        PROVE  task'[k].references = (IF worker'[k] # "none" THEN 1 ELSE 0)
                                   + (IF \E th \in Threads : HoldsTask(th, k)' THEN 1 ELSE 0)
    <3>1. (\E th \in Threads : HoldsTask(th, k)') <=> (\E th \in Threads : HoldsTask(th, k))
      BY <2>1
    <3>2. task[k].references = (IF worker[k] # "none" THEN 1 ELSE 0)
                             + (IF \E th \in Threads : HoldsTask(th, k) THEN 1 ELSE 0)
      BY DEF IInv, ReferencesCounted
    <3>3. CASE k = t
      <4>1. worker[k] # "none" /\ worker'[k] = "none"
        BY <1>f, <1>t, <3>3
      <4>2. task'[k].references = task[k].references - 1
        BY <1>a, <3>3
      <4> QED BY <3>1, <3>2, <4>1, <4>2
    <3>4. CASE k # t
      <4>1. worker'[k] = worker[k] /\ task'[k] = task[k]
        BY <1>a, <1>f, <1>t, <3>4
      <4> QED BY <3>1, <3>2, <4>1
    <3> QED BY <3>3, <3>4
  <2> QED BY <1>d, <1>m, <2>2 DEF ReferencesCounted
<1>6. BusyIsActiveTask'
  BY <1>d, <1>m DEF IInv, BusyIsActiveTask
<1>7. CountedOnce'
  BY <1>d, <1>m DEF IInv, CountedOnce, Unsettled
<1> QED
  BY <1>1, <1>2, <1>3, <1>4, <1>5, <1>6, <1>7 DEF IInv
-----------------------------------------------------------------------------
(* Create, open, close and destroy.                                        *)

\* Creating the frontend again preserves the invariant.
LEMMA CreateInv ==
    ASSUME IInv, NEW b \in Backends \cup {NoBackend}, qcpu_mock_create(b)
    PROVE  IInv'
<1> USE FrontendAssumption DEF qcpu_mock_create, DetachedState, mockVars, sessionVars,
     requestVars, statusVars, threadVars, taskVars, IInv
<1>0. active_task = NoTask
  BY DEF SessionOwnsLock, BusyIsActiveTask
<1>1. TypeOK'
  <2>1. last' \in Verdict
    BY DEF Accepted, V, Verdict, Errnos, Statuses
  <2>2. /\ completed_requests' \in 0..CounterMod - 1
        /\ failed_requests' \in 0..CounterMod - 1
        /\ admitted' \in 0..CounterMod - 1
    OBVIOUS
  <2>3. /\ allocated' \in BOOLEAN /\ session_open' \in BOOLEAN /\ busy' \in BOOLEAN
        /\ cancel_requested' \in BOOLEAN /\ cancel_sent' \in BOOLEAN
    BY ZenonT(40)
  <2> QED BY <2>1, <2>2, <2>3 DEF TypeOK, DeviceStates
<1>2. CallerOwnsTask'
  BY DEF CallerOwnsTask, InExchange, UsesTask, TypeOK
<1>3. WorkerOwnsTask'
  BY <1>0 DEF WorkerOwnsTask, InCallback, TypeOK, InExchange
<1>4. SessionOwnsLock'
  BY DEF SessionOwnsLock, TypeOK, BusyIsActiveTask
<1>5. ReferencesCounted'
  BY DEF ReferencesCounted, HoldsTask, TypeOK
<1>6. BusyIsActiveTask'
  BY DEF BusyIsActiveTask, TypeOK
<1>7. CountedOnce'
  BY DEF CountedOnce, Unsettled, TypeOK, Increment
<1> QED
  BY <1>1, <1>2, <1>3, <1>4, <1>5, <1>6, <1>7 DEF IInv

\* Attaching or detaching a backend preserves the invariant.
LEMMA SetBackendInv ==
    ASSUME IInv, NEW th \in Owners, NEW b \in Backends \cup {NoBackend},
          qcpu_mock_set_backend(th, b)
    PROVE  IInv'
<1> USE FrontendAssumption DEF qcpu_mock_set_backend, MayCall, DetachedState, mockVars,
     sessionVars, requestVars, statusVars, threadVars, taskVars, IInv
<1>1. TypeOK'
  BY FreeTaskType, IncrementType DEF TypeOK, LocalRecord, IdleLocal, Locals, Labels,
       DeviceStates, TaskRecord
<1>2. CallerOwnsTask' /\ WorkerOwnsTask' /\ ReferencesCounted'
  BY SameUsers
<1>4. SessionOwnsLock'
  BY DEF SessionOwnsLock, TypeOK, BusyIsActiveTask
<1>6. BusyIsActiveTask'
  BY DEF BusyIsActiveTask, TypeOK
<1>7. CountedOnce'
  BY SameCounters
<1> QED
  BY <1>1, <1>2, <1>4, <1>6, <1>7 DEF IInv

\* Opening a session preserves the invariant.
LEMMA OpenInv ==
    ASSUME IInv, NEW th \in Owners, qcpu_mock_open(th)
    PROVE  IInv'
<1> USE FrontendAssumption DEF qcpu_mock_open, MayCall, mockVars, sessionVars, requestVars,
     statusVars, threadVars, taskVars, IInv
<1>1. TypeOK'
  BY FreeTaskType, IncrementType DEF TypeOK, LocalRecord, IdleLocal, Locals, Labels,
       DeviceStates, TaskRecord
<1>2. CallerOwnsTask' /\ WorkerOwnsTask' /\ ReferencesCounted'
  BY SameUsers
<1>4. SessionOwnsLock'
  BY DEF SessionOwnsLock, TypeOK, BusyIsActiveTask
<1>6. BusyIsActiveTask'
  BY DEF BusyIsActiveTask, TypeOK
<1>7. CountedOnce'
  BY SameCounters
<1> QED
  BY <1>1, <1>2, <1>4, <1>6, <1>7 DEF IInv

\* Another process taking or dropping the lock preserves the invariant.
LEMMA OtherProcessInv ==
    ASSUME IInv, OtherProcess
    PROVE  IInv'
<1> USE FrontendAssumption DEF OtherProcess, mockVars, sessionVars, requestVars, statusVars,
     threadVars, taskVars, IInv
<1>1. TypeOK'
  BY FreeTaskType, IncrementType DEF TypeOK, LocalRecord, IdleLocal, Locals, Labels,
       DeviceStates, TaskRecord
<1>2. CallerOwnsTask' /\ WorkerOwnsTask' /\ ReferencesCounted'
  BY SameUsers
<1>4. SessionOwnsLock'
  BY DEF SessionOwnsLock, TypeOK, BusyIsActiveTask
<1>6. BusyIsActiveTask'
  BY DEF BusyIsActiveTask, TypeOK
<1>7. CountedOnce'
  BY SameCounters
<1> QED
  BY <1>1, <1>2, <1>4, <1>6, <1>7 DEF IInv

\* Closing an idle session preserves the invariant.
LEMMA CloseIdleInv ==
    ASSUME IInv, NEW th \in Owners, CloseIdle(th)
    PROVE  IInv'
<1> USE FrontendAssumption DEF CloseIdle, ReleaseSession, MayCall, mockVars, sessionVars,
     requestVars, statusVars, threadVars, taskVars, IInv
<1>1. TypeOK'
  <2>1. session_open' \in BOOLEAN
    BY ZenonT(40)
  <2> QED BY <2>1 DEF TypeOK
<1>2. CallerOwnsTask' /\ WorkerOwnsTask' /\ ReferencesCounted'
  BY SameUsers
<1>4. SessionOwnsLock'
  BY DEF SessionOwnsLock, TypeOK, BusyIsActiveTask
<1>6. BusyIsActiveTask'
  BY DEF BusyIsActiveTask, TypeOK
<1>7. CountedOnce'
  BY SameCounters
<1> QED
  BY <1>1, <1>2, <1>4, <1>6, <1>7 DEF IInv

\* A close that finds a request in flight preserves the invariant.
LEMMA CloseBusyInv ==
    ASSUME IInv, NEW th \in Owners, CloseBusy(th)
    PROVE  IInv'
<1> USE FrontendAssumption DEF CloseBusy, MayCall, Goto, qcpu_request_cancel_locked,
     CancelNow, CallCancel, mockVars, sessionVars, requestVars, statusVars, threadVars,
     taskVars, IInv
<1>1. TypeOK'
  <2>1. cancel_requested' \in BOOLEAN /\ cancel_sent' \in BOOLEAN /\ CallCancel \in BOOLEAN
    BY ZenonT(40) DEF TypeOK
  <2>2. backend \in Backends \cup {NoBackend}
    BY DEF TypeOK
  <2> HIDE DEF qcpu_request_cancel_locked, CallCancel
  <2>3. Locals(NoTask, backend, FALSE, CallCancel) \in LocalRecord
    BY <2>1, <2>2, LocalsType, ZenonT(40)
  <2>4. local' \in [Threads -> LocalRecord]
    <3>1. local \in [Threads -> LocalRecord]
      BY DEF TypeOK
    <3> QED BY <2>3, <3>1, ZenonT(40)
  <2>5. pc' \in [Threads -> Labels]
    BY DEF TypeOK, Labels
  <2> QED BY <2>1, <2>4, <2>5, ZenonT(40) DEF TypeOK
<1>2. CallerOwnsTask' /\ WorkerOwnsTask' /\ ReferencesCounted'
  <2>1. ~UsesTask(th) /\ ~UsesTask(th)'
    BY DEF UsesTask, InExchange, TypeOK
  <2>2. \A u \in Threads : u # th => pc'[u] = pc[u] /\ local'[u] = local[u]
    BY ZenonT(40) DEF TypeOK
  <2>3. th \in Threads /\ worker' = worker /\ active_task' = active_task /\ task' = task
    OBVIOUS
  <2> HIDE DEF CloseBusy, IInv
  <2> QED BY <2>1, <2>2, <2>3, OutsideExchange
<1>4. SessionOwnsLock'
  BY DEF SessionOwnsLock, TypeOK, BusyIsActiveTask
<1>6. BusyIsActiveTask'
  BY DEF BusyIsActiveTask, TypeOK
<1>7. CountedOnce'
  BY SameCounters
<1> QED
  BY <1>1, <1>2, <1>4, <1>6, <1>7 DEF IInv

\* The cancel callback of close, late or not, preserves the invariant.
LEMMA CloseCancelInv ==
    ASSUME IInv, NEW th \in Threads, CloseCancel(th)
    PROVE  IInv'
<1> USE FrontendAssumption DEF CloseCancel, InvokeCancel, Goto, mockVars, sessionVars,
     requestVars, statusVars, threadVars, taskVars, IInv
<1> HIDE DEF InvokeCancel
<1>0. /\ task' \in [Tasks -> TaskRecord]
      /\ \A t \in Tasks : /\ task'[t].references = task[t].references
                         /\ task'[t].backend = task[t].backend
                         /\ task'[t].done = task[t].done
                         /\ task'[t].caller_abandoned = task[t].caller_abandoned
  BY CancelInvoked DEF TypeOK
<1>1. TypeOK'
  <2>1. local' \in [Threads -> LocalRecord]
    BY LocalCanceled
  <2>2. pc' \in [Threads -> Labels]
    BY DEF TypeOK, Labels
  <2> QED BY <1>0, <2>1, <2>2 DEF TypeOK
<1>2. CallerOwnsTask' /\ WorkerOwnsTask' /\ ReferencesCounted'
  <2>1. ~UsesTask(th) /\ ~UsesTask(th)'
    BY DEF UsesTask, InExchange, TypeOK
  <2>2. \A u \in Threads : u # th => pc'[u] = pc[u] /\ local'[u] = local[u]
    BY DEF TypeOK
  <2> QED BY <1>0, <2>1, <2>2, OutsideExchange
<1>4. SessionOwnsLock'
  BY DEF SessionOwnsLock, TypeOK, BusyIsActiveTask
<1>6. BusyIsActiveTask'
  BY <1>0 DEF BusyIsActiveTask, TypeOK
<1>7. CountedOnce'
  BY <1>0 DEF CountedOnce, Unsettled, TypeOK
<1> QED
  BY <1>1, <1>2, <1>4, <1>6, <1>7 DEF IInv

\* The end of a close preserves the invariant.
LEMMA CloseFinishInv ==
    ASSUME IInv, NEW th \in Threads, CloseFinish(th)
    PROVE  IInv'
<1> USE FrontendAssumption DEF CloseFinish, ReleaseSession, Return, Goto, mockVars,
     sessionVars, requestVars, statusVars, threadVars, taskVars, IInv
<1>1. TypeOK'
  <2>1. local' \in [Threads -> LocalRecord]
    BY DEF TypeOK, IdleLocal, Locals, LocalRecord, Errnos
  <2>2. session_open' \in BOOLEAN
    BY ZenonT(40)
  <2> QED BY <2>1, <2>2 DEF TypeOK, Labels
<1>2. CallerOwnsTask' /\ WorkerOwnsTask' /\ ReferencesCounted'
  <2>1. ~UsesTask(th) /\ ~UsesTask(th)'
    BY DEF UsesTask, InExchange, TypeOK
  <2>2. \A u \in Threads : u # th => pc'[u] = pc[u] /\ local'[u] = local[u]
    BY DEF TypeOK
  <2> QED BY <2>1, <2>2, OutsideExchange
<1>4. SessionOwnsLock'
  BY DEF SessionOwnsLock, TypeOK, BusyIsActiveTask
<1>6. BusyIsActiveTask'
  BY DEF BusyIsActiveTask, TypeOK
<1>7. CountedOnce'
  BY SameCounters
<1> QED
  BY <1>1, <1>2, <1>4, <1>6, <1>7 DEF IInv

\* The check of destroy preserves the invariant.
LEMMA DestroyCheckInv ==
    ASSUME IInv, NEW th \in Owners, DestroyCheck(th)
    PROVE  IInv'
<1> USE FrontendAssumption DEF DestroyCheck, MayCall, Goto, mockVars, sessionVars,
     requestVars, statusVars, threadVars, taskVars, IInv
<1>1. TypeOK'
  BY FreeTaskType, IncrementType DEF TypeOK, LocalRecord, IdleLocal, Locals, Labels,
       DeviceStates, TaskRecord
<1>2. CallerOwnsTask' /\ WorkerOwnsTask' /\ ReferencesCounted'
  <2>1. ~UsesTask(th) /\ ~UsesTask(th)'
    BY DEF UsesTask, InExchange, TypeOK
  <2>2. \A u \in Threads : u # th => pc'[u] = pc[u] /\ local'[u] = local[u]
    BY DEF TypeOK
  <2> QED BY ZenonT(40), <2>1, <2>2, OutsideExchange
<1>4. SessionOwnsLock'
  BY DEF SessionOwnsLock, TypeOK, BusyIsActiveTask
<1>6. BusyIsActiveTask'
  BY DEF BusyIsActiveTask, TypeOK
<1>7. CountedOnce'
  BY SameCounters
<1> QED
  BY <1>1, <1>2, <1>4, <1>6, <1>7 DEF IInv

\* The free of destroy preserves the invariant.
LEMMA DestroyFreeInv ==
    ASSUME IInv, NEW th \in Threads, DestroyFree(th)
    PROVE  IInv'
<1> USE FrontendAssumption DEF DestroyFree, Return, Goto, mockVars, sessionVars, requestVars,
     statusVars, threadVars, taskVars, IInv
<1>1. TypeOK'
  <2>1. local' \in [Threads -> LocalRecord]
    BY DEF TypeOK, IdleLocal, Locals, LocalRecord, Errnos
  <2>2. allocated' \in BOOLEAN
    BY ZenonT(40)
  <2> QED BY <2>1, <2>2 DEF TypeOK, Labels
<1>2. CallerOwnsTask' /\ WorkerOwnsTask' /\ ReferencesCounted'
  <2>1. ~UsesTask(th) /\ ~UsesTask(th)'
    BY DEF UsesTask, InExchange, TypeOK
  <2>2. \A u \in Threads : u # th => pc'[u] = pc[u] /\ local'[u] = local[u]
    BY DEF TypeOK
  <2> QED BY <2>1, <2>2, OutsideExchange
<1>4. SessionOwnsLock'
  BY DEF SessionOwnsLock, TypeOK, BusyIsActiveTask
<1>6. BusyIsActiveTask'
  BY DEF BusyIsActiveTask, TypeOK
<1>7. CountedOnce'
  BY SameCounters
<1> QED
  BY <1>1, <1>2, <1>4, <1>6, <1>7 DEF IInv
=============================================================================
