------------------------- MODULE QcpudAdapterProofs -------------------------
(***************************************************************************)
(* The safety properties of QcpudAdapter, for any number of calls that     *)
(* run at the same time, any descriptors, requests and answers.            *)
(***************************************************************************)
EXTENDS QcpudAdapter, TLAPS

USE SMTT(30), ZenonT(30)

Outcome == [result : Results, response : Response]

Openfile == [owner : {"nobody", "other"} \cup Calls, peer : PeerStates, shut : BOOLEAN]

-----------------------------------------------------------------------------
(* What the helpers return.                                                *)

\* The errors of the adapter leave a zeroed response.
LEMMA ErrorOutcome ==
    /\ ZeroOutcome \in Outcome
    /\ \A r \in Results : /\ [ZeroOutcome EXCEPT !.result = r] \in Outcome
                          /\ [ZeroOutcome EXCEPT !.result = r].result = r
  BY ZenonT(60) DEF ZeroOutcome, Outcome, Results, Response, Statuses

\* The norm of an accepted frame is converted to a natural number.
LEMMA NormIsNat ==
    ASSUME NEW norm \in Int, ~NormRejected(norm)
    PROVE  qcpu_mock_norm_to_q32_32(norm) \in Nat
  BY UapiAssumption DEF NormRejected, qcpu_mock_norm_to_q32_32, NormUnits, NormTolerance

\* Whatever the daemon answers, the call does not report a cancellation by it.
LEMMA AnswerOutcome ==
    ASSUME NEW frame \in Frame
    PROVE  Answer(frame) \in Outcome /\ Answer(frame).result # "-ECANCELED"
<1> DEFINE o == qcpu_adapter_translate_response(frame)
<1>1. CASE ~(frame.magic /\ frame.version)
  BY <1>1, ErrorOutcome DEF Answer, Results
<1>2. CASE frame.magic /\ frame.version
  <2>1. frame.norm \in Int
    BY DEF Frame
  <2>2. o.response.norm_q32_32 \in Nat
    BY <2>1, NormIsNat DEF qcpu_adapter_translate_response
  <2>3. /\ o.response.status \in DeviceStatuses
        /\ o.result = qcpu_adapter_status_result(o.response.status)
    BY DEF qcpu_adapter_translate_response, qcpu_adapter_status, DeviceStatuses
  <2>4. o.result \in Results \ {"-ECANCELED"}
    BY <2>3 DEF qcpu_adapter_status_result, Results, DeviceStatuses
  <2>5. o.response \in Response
    BY <2>2, <2>3
       DEF qcpu_adapter_translate_response, Frame, Response, Statuses, DeviceStatuses
  <2>6. o = [result |-> o.result, response |-> o.response]
    BY DEF qcpu_adapter_translate_response
  <2> QED BY <1>2, <2>4, <2>5, <2>6 DEF Answer, Outcome
<1> QED BY <1>1, <1>2

-----------------------------------------------------------------------------
(* Types.                                                                  *)

\* The types of the two variables that hold records.
LEMMA RecordTypes ==
    /\ TypeOK => outcome \in [Calls -> Outcome] /\ file \in [Fds -> Openfile]
    /\ File("other", "none") \in Openfile /\ Closed \in Openfile
    /\ \A c \in Calls, peer \in PeerStates : File(c, peer) \in Openfile
  BY DEF TypeOK, Outcome, Openfile, File, Closed, PeerStates

\* A call leaves with an error.
LEMMA FailType ==
    ASSUME TypeOK, NEW c \in Calls, NEW r \in Results, Fail(c, r)
    PROVE  at' \in [Calls -> Labels] /\ outcome' \in [Calls -> Outcome]
  BY ErrorOutcome, RecordTypes DEF TypeOK, Fail, Goto, Store, Labels

\* shutdown() changes one field of one open file.
LEMMA ShutdownType ==
    ASSUME TypeOK, NEW f \in Fds, Shutdown(f)
    PROVE  /\ file' \in [Fds -> Openfile]
           /\ \A g \in Fds : /\ file'[g].owner = file[g].owner
                             /\ g # f => file'[g] = file[g]
  BY ZenonT(60), RecordTypes DEF Shutdown, Openfile

\* So does the daemon at the other end.
LEMMA PeerType ==
    ASSUME TypeOK, NEW f \in Fds, NEW peer \in PeerStates,
           file' = [file EXCEPT ![f].peer = peer]
    PROVE  /\ file' \in [Fds -> Openfile]
           /\ \A g \in Fds : file'[g].owner = file[g].owner /\ file'[g].shut = file[g].shut
  BY RecordTypes DEF Openfile

\* A step of a call keeps the types.
LEMMA CallStepType ==
    ASSUME AdapterInv, NEW c \in Calls, CallStep(c)
    PROVE  TypeOK'
<1> USE DEF structVars
<1> DEFINE Rest == /\ outcome' \in [Calls -> Outcome]
                   /\ file' \in [Fds -> Openfile]
                   /\ at' \in [Calls -> Labels]
<1>0. TypeOK
  BY DEF AdapterInv
<1>1. CASE qcpu_adapter_begin(c)
  <2>1. Rest
    BY ZenonT(60), <1>0, <1>1, ErrorOutcome, RecordTypes, FailType
       DEF qcpu_adapter_begin, TypeOK, Goto, Store, Labels, Results
  <2> QED BY ZenonT(60), <1>0, <1>1, <2>1 DEF qcpu_adapter_begin, TypeOK, Outcome, Openfile
<1>2. CASE OutOfTime(c) \/ ConnectFails(c) \/ qcpu_adapter_io_result(c)
  <2>1. Rest
    BY <1>0, <1>2, RecordTypes, FailType
       DEF OutOfTime, ConnectFails, qcpu_adapter_io_result, Results
  <2> QED
    BY <1>0, <1>2, <2>1
       DEF OutOfTime, ConnectFails, qcpu_adapter_io_result, TypeOK, Outcome, Openfile
<1>3. CASE ConnectGetsFd(c)
  <2>1. Rest /\ fd' \in [Calls -> Fds \cup {NoFd}]
    BY <1>0, <1>3, RecordTypes DEF ConnectGetsFd, TypeOK, Goto, Labels, PeerStates
  <2> QED BY <1>0, <1>3, <2>1 DEF ConnectGetsFd, TypeOK, Outcome, Openfile
<1>4. CASE qcpu_adapter_register_fd(c)
  <2>1. fd[c] \in Fds
    BY <1>0, <1>4 DEF AdapterInv, StructInv, CallInv, HoldsFd, TypeOK, qcpu_adapter_register_fd
  <2>2. Rest
    BY <1>0, <1>4, <2>1, RecordTypes, FailType, ShutdownType
       DEF qcpu_adapter_register_fd, TypeOK, Goto, Labels, Results
  <2> QED BY <1>0, <1>4, <2>1, <2>2 DEF qcpu_adapter_register_fd, TypeOK, Outcome, Openfile
<1>5. CASE StartIo(c) \/ qcpu_device_write_all(c) \/ ShutdownWrite(c) \/ IoError(c) \/ IoTimeout(c)
  BY ZenonT(60), <1>0, <1>5
     DEF StartIo, qcpu_device_write_all, ShutdownWrite, IoError, IoTimeout, TypeOK, Goto, Labels
<1>6. CASE qcpu_device_read_all(c)
  <2>1. Rest
    BY <1>0, <1>6, RecordTypes, AnswerOutcome, AdapterAssumption
       DEF qcpu_device_read_all, TypeOK, Goto, Store, Labels
  <2> QED BY <1>0, <1>6, <2>1 DEF qcpu_device_read_all, TypeOK, Outcome, Openfile
<1>7. CASE qcpu_adapter_finish(c)
  <2>1. \A o \in Outcome, r \in Results : [o EXCEPT !.result = r] \in Outcome
    BY DEF Outcome
  <2>2. (IF cancel_requested THEN "-ECANCELED" ELSE outcome[c].result) \in Results
    BY <1>0, RecordTypes DEF Outcome, Results
  <2>3. Rest
    BY <1>0, <1>7, <2>1, <2>2, RecordTypes DEF qcpu_adapter_finish, TypeOK, Goto, Store, Labels
  <2> QED BY ZenonT(60), <1>0, <1>7, <2>3 DEF qcpu_adapter_finish, TypeOK, Outcome, Openfile
<1>8. CASE FinishClose(c)
  <2>1. Rest /\ fd' \in [Calls -> Fds \cup {NoFd}]
    BY ZenonT(60), <1>0, <1>8, RecordTypes DEF FinishClose, TypeOK, Goto, Labels
  <2> QED BY <1>0, <1>8, <2>1 DEF FinishClose, TypeOK, Outcome, Openfile
<1> QED BY <1>1, <1>2, <1>3, <1>4, <1>5, <1>6, <1>7, <1>8 DEF CallStep

\* Every step keeps the types.
LEMMA NextType == AdapterInv /\ [Next]_vars => TypeOK'
<1> SUFFICES ASSUME AdapterInv, [Next]_vars PROVE TypeOK'
  OBVIOUS
<1> USE DEF structVars
<1>0. TypeOK
  BY DEF AdapterInv
<1>1. ASSUME NEW c \in Calls, NEW r \in Requests, Arrive(c, r) PROVE TypeOK'
  BY <1>0, <1>1, AdapterAssumption DEF Arrive, TypeOK, Goto, Labels
<1>2. ASSUME NEW c \in Calls, CallStep(c) PROVE TypeOK'
  BY <1>2, CallStepType
<1>3. ASSUME NEW c \in Calls, Return(c) PROVE TypeOK'
  <2>1. ZeroRequest \in Request
    BY DEF ZeroRequest, Request
  <2>2. outcome' \in [Calls -> Outcome] /\ request' \in [Calls -> Request]
    BY <1>0, <1>3, <2>1, ErrorOutcome, RecordTypes DEF Return, TypeOK, Store
  <2> QED BY <1>0, <1>3, <2>2 DEF Return, TypeOK, Goto, Labels, Outcome
<1>4. ASSUME NEW c \in Calls, DaemonStep(c) PROVE TypeOK'
  <2>1. fd[c] \in Fds
    BY <1>0, <1>4
       DEF DaemonStep, DaemonAnswers, DaemonDrops, AdapterInv, StructInv, CallInv, HoldsFd, TypeOK
  <2>2. file' \in [Fds -> Openfile]
    BY <1>0, <1>4, <2>1, PeerType DEF DaemonStep, DaemonAnswers, DaemonDrops, PeerStates
  <2> QED BY <1>0, <1>4, <2>2 DEF DaemonStep, DaemonAnswers, DaemonDrops, TypeOK, Openfile
<1>5. ASSUME NEW c \in Calls, Expire(c) PROVE TypeOK'
  BY <1>0, <1>5 DEF Expire, TypeOK
<1>6. CASE qcpu_qcpud_cancel
  <2>1. file' \in [Fds -> Openfile]
    BY <1>0, <1>6, RecordTypes, ShutdownType DEF qcpu_qcpud_cancel, TypeOK
  <2>2. canceled' \in [Calls -> BOOLEAN] /\ cancel_requested' \in BOOLEAN
    BY ZenonT(60), <1>0, <1>6 DEF qcpu_qcpud_cancel, TypeOK, IsActive
  <2> QED BY <1>0, <1>6, <2>1, <2>2 DEF qcpu_qcpud_cancel, TypeOK, Openfile
<1>7. ASSUME NEW f \in Fds, OtherUse(f) PROVE TypeOK'
  <2>1. file' \in [Fds -> Openfile]
    BY <1>0, <1>7, RecordTypes DEF OtherUse
  <2> QED BY <1>0, <1>7, <2>1 DEF OtherUse, TypeOK, Openfile
<1>8. CASE UNCHANGED vars
  BY <1>0, <1>8 DEF vars, TypeOK
<1> QED BY <1>1, <1>2, <1>3, <1>4, <1>5, <1>6, <1>7, <1>8 DEF Next

-----------------------------------------------------------------------------
(* Who is active, who owns a descriptor, who was canceled.                 *)

Safe == ActiveCall /\ OnlyOwnSocketShut /\ DescriptorsOwned /\ CanceledIffAsked /\ StructInv

\* A step of one call inside the callback that touches neither the struct, nor
\* a descriptor, nor the history.
LEMMA QuietSafe ==
    ASSUME AdapterInv, NEW c \in Calls,
           UNCHANGED <<structVars, fd, file, canceled>>,
           NEW l \in Labels, at' = [at EXCEPT ![c] = l],
           IsActive(c), l \notin {"idle", "begin", "close", "returned"},
           fd[c] # NoFd => l \in HoldsFd \cup {"finish"},
           l \in HoldsFd => fd[c] # NoFd,
           \A d \in Calls \ {c} : outcome'[d] = outcome[d],
           l = "finish" /\ outcome'[c].result = "-ECANCELED" => cancel_requested
    PROVE  Safe'
<1> USE DEF AdapterInv, structVars
<1>1. \A d \in Calls : IsActive(d)' <=> IsActive(d)
  BY DEF TypeOK, IsActive
<1>2. ActiveCall'
  BY <1>1 DEF ActiveCall
<1>3. OnlyOwnSocketShut' /\ DescriptorsOwned'
  BY DEF OnlyOwnSocketShut, DescriptorsOwned
<1>4. CanceledIffAsked'
  BY DEF CanceledIffAsked, TypeOK
<1>5. StructInv'
  <2>1. active_fd' # NoFd => \E d \in Calls : IsActive(d)' /\ fd'[d] = active_fd'
    BY <1>1 DEF StructInv
  <2>2. ASSUME NEW d \in Calls
        PROVE  CallInv(d)'
    <3>1. CASE d = c
      BY <1>1, <3>1 DEF StructInv, CallInv, TypeOK
    <3>2. CASE d # c
      BY <1>1, <3>2 DEF StructInv, CallInv, TypeOK
    <3> QED BY <3>1, <3>2
  <2> QED BY <2>1, <2>2 DEF StructInv
<1> QED BY <1>2, <1>3, <1>4, <1>5 DEF Safe

\* The steps of a call between connect and finish that QuietSafe is about.
LEMMA QuietSteps ==
    ASSUME AdapterInv, NEW c \in Calls,
           \/ OutOfTime(c) \/ ConnectFails(c) \/ StartIo(c) \/ qcpu_device_write_all(c)
           \/ ShutdownWrite(c) \/ qcpu_device_read_all(c) \/ IoError(c) \/ IoTimeout(c)
           \/ qcpu_adapter_io_result(c)
    PROVE  Safe'
<1> USE DEF structVars
<1>0. TypeOK /\ StructInv
  BY DEF AdapterInv
<1>1. CASE OutOfTime(c) \/ ConnectFails(c) \/ qcpu_adapter_io_result(c)
  <2>1. PICK r \in Results : Fail(c, r) /\ (r = "-ECANCELED" => cancel_requested)
    BY <1>1 DEF OutOfTime, ConnectFails, qcpu_adapter_io_result, Results
  <2>2. /\ at' = [at EXCEPT ![c] = "finish"]
        /\ outcome'[c].result = r
        /\ \A d \in Calls \ {c} : outcome'[d] = outcome[d]
    BY <1>0, <2>1, ErrorOutcome DEF Fail, Goto, Store, TypeOK
  <2>3. IsActive(c) /\ UNCHANGED <<structVars, fd, file, canceled>>
    BY <1>1 DEF OutOfTime, ConnectFails, qcpu_adapter_io_result, IsActive
  <2> QED BY ZenonT(60), <2>1, <2>2, <2>3, QuietSafe DEF Labels, HoldsFd
<1>2. CASE qcpu_device_read_all(c)
  <2>1. /\ at' = [at EXCEPT ![c] = "finish"]
        /\ outcome'[c].result # "-ECANCELED"
        /\ \A d \in Calls \ {c} : outcome'[d] = outcome[d]
    BY <1>0, <1>2, AnswerOutcome, AdapterAssumption DEF qcpu_device_read_all, Goto, Store, TypeOK
  <2>2. IsActive(c) /\ UNCHANGED <<structVars, fd, file, canceled>>
    BY <1>2 DEF qcpu_device_read_all, IsActive
  <2> QED BY ZenonT(60), <2>1, <2>2, QuietSafe DEF Labels, HoldsFd
<1>3. CASE \/ StartIo(c) \/ qcpu_device_write_all(c) \/ ShutdownWrite(c) \/ IoError(c)
           \/ IoTimeout(c)
  <2>1. PICK l \in {"writing", "reading", "shutdown", "read", "io_failed"} :
          at' = [at EXCEPT ![c] = l]
    BY <1>3 DEF StartIo, qcpu_device_write_all, ShutdownWrite, IoError, IoTimeout, Goto
  <2>2. at[c] \in {"write", "read", "writing", "reading", "shutdown"}
    BY <1>3 DEF StartIo, qcpu_device_write_all, ShutdownWrite, IoError, IoTimeout
  <2>3. UNCHANGED <<structVars, fd, file, canceled, outcome>>
    BY <1>3 DEF StartIo, qcpu_device_write_all, ShutdownWrite, IoError, IoTimeout
  <2>4. IsActive(c) /\ fd[c] # NoFd
    BY <1>0, <2>2 DEF IsActive, StructInv, CallInv, HoldsFd
  <2> QED BY ZenonT(60), <2>1, <2>3, <2>4, QuietSafe DEF Labels, HoldsFd
<1> QED BY <1>1, <1>2, <1>3

\* A call enters the adapter, or finds another one in it.
LEMMA BeginSafe ==
    ASSUME AdapterInv, NEW c \in Calls, qcpu_adapter_begin(c)
    PROVE  Safe'
<1> USE DEF AdapterInv, structVars, Goto
<1>0. /\ at[c] = "begin" /\ ~IsActive(c) /\ ~canceled[c] /\ fd[c] = NoFd
      /\ UNCHANGED <<fd, file, canceled>>
  BY DEF qcpu_adapter_begin, IsActive, StructInv, CallInv, HoldsFd
<1>1. OnlyOwnSocketShut' /\ DescriptorsOwned'
  BY <1>0 DEF OnlyOwnSocketShut, DescriptorsOwned
<1>2. CASE active
  <2>1. /\ at' = [at EXCEPT ![c] = "returned"] /\ UNCHANGED structVars
        /\ outcome'[c].result = "-EBUSY"
        /\ \A d \in Calls \ {c} : outcome'[d] = outcome[d]
    BY ZenonT(60), <1>2, ErrorOutcome DEF qcpu_adapter_begin, Store, TypeOK, Results
  <2>2. \A d \in Calls : IsActive(d)' <=> IsActive(d)
    BY <1>0, <2>1 DEF TypeOK, IsActive
  <2>3. ActiveCall'
    BY <2>1, <2>2 DEF ActiveCall
  <2>4. CanceledIffAsked'
    BY <1>0, <2>1 DEF CanceledIffAsked, TypeOK
  <2>5. StructInv'
    BY <1>0, <2>1, <2>2 DEF StructInv, CallInv, TypeOK, HoldsFd
  <2> QED BY <1>1, <2>3, <2>4, <2>5 DEF Safe
<1>3. CASE ~active
  <2>1. /\ at'[c] \in {"finish", "connect"}
        /\ at'[c] = "finish" => outcome'[c].result = "-EOPNOTSUPP"
        /\ \A d \in Calls \ {c} : at'[d] = at[d] /\ outcome'[d] = outcome[d]
        /\ active' /\ ~cancel_requested' /\ active_fd' = NoFd
    BY ZenonT(60), <1>3, ErrorOutcome DEF qcpu_adapter_begin, Fail, Store, TypeOK, Results
  <2>2. \A d \in Calls : ~IsActive(d)
    BY <1>3 DEF ActiveCall
  <2>3. IsActive(c)' /\ \A d \in Calls \ {c} : ~IsActive(d)'
    BY <2>1, <2>2 DEF IsActive
  <2>4. ActiveCall'
    BY <2>1, <2>3 DEF ActiveCall
  <2>5. CanceledIffAsked'
    BY <1>0, <2>1 DEF CanceledIffAsked
  <2>6. StructInv'
    <3>1. ASSUME NEW d \in Calls
          PROVE  CallInv(d)'
      BY <1>0, <2>1, <2>3 DEF StructInv, CallInv, HoldsFd
    <3> QED BY <2>1, <3>1 DEF StructInv
  <2> QED BY <1>1, <2>4, <2>5, <2>6 DEF Safe
<1> QED BY <1>2, <1>3 DEF TypeOK

\* connect() gives the call a descriptor that nobody uses.
LEMMA ConnectSafe ==
    ASSUME AdapterInv, NEW c \in Calls, ConnectGetsFd(c)
    PROVE  Safe'
<1> USE DEF AdapterInv, structVars, Goto
<1>0. TypeOK /\ at[c] = "connect" /\ fd[c] = NoFd
      /\ at' = [at EXCEPT ![c] = "register"]
      /\ UNCHANGED <<structVars, outcome, canceled>>
  BY DEF ConnectGetsFd, StructInv, CallInv, HoldsFd
<1>1. PICK f \in Fds, peer \in {"serving", "none"} :
         /\ file[f].owner = "nobody"
         /\ file' = [file EXCEPT ![f] = File(c, peer)]
         /\ fd' = [fd EXCEPT ![c] = f]
  BY ZenonT(60) DEF ConnectGetsFd
<1>2. \A d \in Calls : IsActive(d)' <=> IsActive(d)
  BY <1>0 DEF TypeOK, IsActive
<1>3. ActiveCall'
  BY <1>0, <1>2 DEF ActiveCall
<1>4. /\ file'[f].owner = c /\ ~file'[f].shut
      /\ \A g \in Fds \ {f} : file'[g] = file[g]
  BY <1>0, <1>1, RecordTypes DEF File
<1>5. OnlyOwnSocketShut'
  BY <1>4 DEF OnlyOwnSocketShut
<1>6. DescriptorsOwned'
  <2>1. \A d \in Calls : fd[d] # f
    BY <1>1, AdapterAssumption DEF DescriptorsOwned
  <2>2. fd'[c] = f /\ \A d \in Calls \ {c} : fd'[d] = fd[d]
    BY <1>0, <1>1 DEF TypeOK
  <2>3. \A g \in Fds : file[g].owner # c
    BY <1>0, AdapterAssumption DEF DescriptorsOwned, NoFd
  <2>4. ASSUME NEW d \in Calls, NEW g \in Fds PROVE file'[g].owner = d <=> fd'[d] = g
    <3>1. CASE g = f
      BY <1>4, <2>1, <2>2, <3>1
    <3>2. CASE g # f
      BY <1>4, <2>2, <2>3, <3>2 DEF DescriptorsOwned
    <3> QED BY <3>1, <3>2
  <2> QED BY <2>4 DEF DescriptorsOwned
<1>7. CanceledIffAsked'
  BY <1>0 DEF CanceledIffAsked, TypeOK
<1>8. StructInv'
  <2>1. fd'[c] = f /\ f # NoFd /\ \A d \in Calls \ {c} : fd'[d] = fd[d]
    BY <1>0, <1>1, AdapterAssumption DEF TypeOK, NoFd
  <2>2. at'[c] = "register" /\ \A d \in Calls \ {c} : at'[d] = at[d]
    BY <1>0 DEF TypeOK
  <2>3. active_fd' # NoFd => \E d \in Calls : IsActive(d)' /\ fd'[d] = active_fd'
    BY <1>0, <1>2, <2>1 DEF StructInv
  <2>4. ASSUME NEW d \in Calls
        PROVE  CallInv(d)'
    BY <1>0, <1>2, <2>1, <2>2 DEF StructInv, CallInv, HoldsFd
  <2> QED BY <2>3, <2>4 DEF StructInv
<1> QED BY <1>3, <1>5, <1>6, <1>7, <1>8 DEF Safe

\* The descriptor becomes the one a cancel shuts down.
LEMMA RegisterSafe ==
    ASSUME AdapterInv, NEW c \in Calls, qcpu_adapter_register_fd(c)
    PROVE  Safe'
<1> USE DEF AdapterInv, structVars, Goto
<1>0. /\ TypeOK /\ at[c] = "register" /\ fd[c] \in Fds /\ IsActive(c)
      /\ active_fd' = fd[c]
      /\ UNCHANGED <<active, cancel_requested, fd, canceled>>
  BY DEF qcpu_adapter_register_fd, StructInv, CallInv, HoldsFd, TypeOK, IsActive
<1>1. /\ at'[c] \in {"write", "finish"}
      /\ at'[c] = "finish" => cancel_requested
      /\ \A d \in Calls \ {c} : at'[d] = at[d] /\ outcome'[d] = outcome[d]
  BY <1>0 DEF qcpu_adapter_register_fd, Fail, Store, TypeOK
<1>2. \A d \in Calls : IsActive(d)' <=> IsActive(d)
  BY <1>0, <1>1 DEF IsActive
<1>3. ActiveCall'
  BY <1>0, <1>2 DEF ActiveCall
<1>4. /\ \A g \in Fds : file'[g].owner = file[g].owner
      /\ \A g \in Fds : g # fd[c] => file'[g] = file[g]
  BY <1>0, ShutdownType DEF qcpu_adapter_register_fd
<1>5. OnlyOwnSocketShut' /\ DescriptorsOwned'
  <2>1. file[fd[c]].owner = c
    BY <1>0 DEF DescriptorsOwned
  <2>2. OnlyOwnSocketShut'
    BY <1>0, <1>4, <2>1, AdapterAssumption DEF OnlyOwnSocketShut
  <2>3. DescriptorsOwned'
    BY <1>0, <1>4 DEF DescriptorsOwned
  <2> QED BY <2>2, <2>3
<1>6. CanceledIffAsked'
  BY <1>0, <1>1 DEF CanceledIffAsked
<1>7. StructInv'
  <2>1. active_fd' # NoFd => \E d \in Calls : IsActive(d)' /\ fd'[d] = active_fd'
    BY <1>0, <1>2
  <2>2. ASSUME NEW d \in Calls
        PROVE  CallInv(d)'
    BY <1>0, <1>1, <1>2 DEF StructInv, CallInv, HoldsFd
  <2> QED BY <2>1, <2>2 DEF StructInv
<1> QED BY <1>3, <1>5, <1>6, <1>7 DEF Safe

\* The end of a call: the struct is free again before the descriptor is closed.
LEMMA FinishSafe ==
    ASSUME AdapterInv, NEW c \in Calls, qcpu_adapter_finish(c)
    PROVE  Safe'
<1> USE DEF AdapterInv, structVars, Goto
<1>0. /\ TypeOK /\ at[c] = "finish" /\ IsActive(c)
      /\ ~active' /\ ~cancel_requested' /\ active_fd' = NoFd
      /\ UNCHANGED <<fd, file, canceled>>
  BY DEF qcpu_adapter_finish, IsActive
<1>1. /\ at'[c] = IF fd[c] = NoFd THEN "returned" ELSE "close"
      /\ \A d \in Calls \ {c} : at'[d] = at[d] /\ outcome'[d] = outcome[d]
      /\ outcome'[c].result = IF cancel_requested THEN "-ECANCELED" ELSE outcome[c].result
  BY <1>0, RecordTypes DEF qcpu_adapter_finish, Store, TypeOK, Outcome
<1>2. \A d \in Calls : ~IsActive(d)'
  BY <1>0, <1>1 DEF IsActive, ActiveCall
<1>3. ActiveCall'
  BY <1>0, <1>2 DEF ActiveCall
<1>4. OnlyOwnSocketShut' /\ DescriptorsOwned'
  BY <1>0 DEF OnlyOwnSocketShut, DescriptorsOwned
<1>5. outcome'[c].result = "-ECANCELED" <=> canceled[c]
  BY <1>0, <1>1 DEF StructInv, CallInv
<1>6. CanceledIffAsked'
  BY <1>0, <1>1, <1>5 DEF CanceledIffAsked
<1>7. ASSUME NEW d \in Calls PROVE CallInv(d)'
  BY <1>0, <1>1, <1>2 DEF StructInv, CallInv, HoldsFd
<1>8. StructInv'
  BY <1>0, <1>7 DEF StructInv
<1> QED BY <1>3, <1>4, <1>6, <1>8 DEF Safe

\* The call closes its own descriptor, which no cancel can mean any more.
LEMMA CloseSafe ==
    ASSUME AdapterInv, NEW c \in Calls, FinishClose(c)
    PROVE  Safe'
<1> USE DEF AdapterInv, structVars, Goto
<1>0. /\ TypeOK /\ at[c] = "close" /\ fd[c] \in Fds /\ fd[c] # NoFd /\ ~IsActive(c)
      /\ UNCHANGED <<structVars, outcome, canceled>>
  BY DEF FinishClose, StructInv, CallInv, HoldsFd, TypeOK, IsActive
<1>1. /\ at'[c] = "returned" /\ fd'[c] = NoFd
      /\ \A d \in Calls \ {c} : at'[d] = at[d] /\ fd'[d] = fd[d]
  BY <1>0 DEF FinishClose, TypeOK
<1>2. /\ file'[fd[c]].owner = "nobody"
      /\ \A g \in Fds \ {fd[c]} : file'[g] = file[g]
  BY <1>0, RecordTypes DEF FinishClose, Closed, File
<1>3. \A d \in Calls : IsActive(d)' <=> IsActive(d)
  BY <1>0, <1>1 DEF IsActive
<1>4. ActiveCall'
  BY <1>0, <1>3 DEF ActiveCall
<1>5. OnlyOwnSocketShut'
  BY <1>2 DEF OnlyOwnSocketShut
<1>6. ASSUME NEW d \in Calls, NEW g \in Fds PROVE file'[g].owner = d <=> fd'[d] = g
  <2>1. file[fd[c]].owner = c
    BY <1>0 DEF DescriptorsOwned
  <2>2. NoFd # g
    BY AdapterAssumption DEF NoFd
  <2>3. CASE g = fd[c]
    BY <1>0, <1>1, <1>2, <2>1, <2>2, <2>3, AdapterAssumption DEF DescriptorsOwned
  <2>4. CASE g # fd[c]
    BY <1>0, <1>1, <1>2, <2>1, <2>2, <2>4 DEF DescriptorsOwned
  <2> QED BY <2>3, <2>4
<1>7. DescriptorsOwned'
  BY <1>6 DEF DescriptorsOwned
<1>8. CanceledIffAsked'
  BY <1>0, <1>1 DEF CanceledIffAsked
<1>9. ASSUME NEW d \in Calls PROVE CallInv(d)'
  BY <1>0, <1>1, <1>3 DEF StructInv, CallInv, HoldsFd
<1>10. active_fd' # NoFd => \E d \in Calls : IsActive(d)' /\ fd'[d] = active_fd'
  BY <1>0, <1>1, <1>3 DEF StructInv
<1>11. StructInv'
  BY <1>9, <1>10 DEF StructInv
<1> QED BY <1>4, <1>5, <1>7, <1>8, <1>11 DEF Safe

\* A call arrives or returns: the adapter is not concerned.
LEMMA OutsideSafe ==
    ASSUME AdapterInv, NEW c \in Calls,
           Return(c) \/ \E r \in Requests : Arrive(c, r)
    PROVE  Safe'
<1> USE DEF AdapterInv, structVars, Goto
<1>0. /\ TypeOK /\ at[c] \in {"idle", "returned"} /\ at'[c] \in {"begin", "idle"}
      /\ \A d \in Calls \ {c} : at'[d] = at[d] /\ outcome'[d] = outcome[d]
                                /\ canceled'[d] = canceled[d]
      /\ UNCHANGED <<structVars, fd, file>>
      /\ ~canceled'[c]
  BY DEF Return, Arrive, Store, TypeOK, StructInv, CallInv
<1>1. \A d \in Calls : IsActive(d)' <=> IsActive(d)
  BY <1>0 DEF IsActive
<1>2. ActiveCall'
  BY ZenonT(60), <1>0, <1>1 DEF ActiveCall
<1>3. OnlyOwnSocketShut' /\ DescriptorsOwned'
  BY <1>0 DEF OnlyOwnSocketShut, DescriptorsOwned
<1>4. CanceledIffAsked'
  BY <1>0 DEF CanceledIffAsked
<1>5. ASSUME NEW d \in Calls PROVE CallInv(d)'
  <2>1. CASE d = c
    BY <1>0, <1>1, <2>1 DEF StructInv, CallInv, HoldsFd, IsActive
  <2>2. CASE d # c
    BY <1>0, <1>1, <2>2 DEF StructInv, CallInv
  <2> QED BY <2>1, <2>2
<1>6. StructInv'
  BY <1>0, <1>1, <1>5 DEF StructInv
<1> QED BY <1>2, <1>3, <1>4, <1>6 DEF Safe

\* The cancel callback reaches the active call, and its descriptor only.
LEMMA CancelSafe ==
    ASSUME AdapterInv, qcpu_qcpud_cancel
    PROVE  Safe'
<1> USE DEF AdapterInv, structVars
<1>0. TypeOK /\ UNCHANGED <<active, active_fd, at, fd, outcome>>
  BY DEF qcpu_qcpud_cancel
<1>1. \A d \in Calls : IsActive(d)' <=> IsActive(d)
  BY <1>0 DEF IsActive
<1>2. ActiveCall'
  BY <1>0, <1>1 DEF ActiveCall
<1>3. /\ \A g \in Fds : file'[g].owner = file[g].owner
      /\ \A g \in Fds : g # active_fd => file'[g] = file[g]
  BY <1>0, ShutdownType DEF qcpu_qcpud_cancel, TypeOK
<1>4. active_fd # NoFd => file[active_fd].owner \in Calls
  BY <1>0 DEF StructInv, DescriptorsOwned, TypeOK
<1>5. OnlyOwnSocketShut'
  BY <1>3, <1>4, AdapterAssumption DEF OnlyOwnSocketShut, NoFd
<1>6. DescriptorsOwned'
  BY <1>0, <1>3 DEF DescriptorsOwned
<1>7. /\ \A d \in Calls : ~IsActive(d) => canceled'[d] = canceled[d]
      /\ \A d \in Calls : IsActive(d) => (cancel_requested' <=> canceled'[d])
      /\ \A d \in Calls : canceled[d] => canceled'[d]
  BY <1>0 DEF qcpu_qcpud_cancel, TypeOK, StructInv, CallInv, ActiveCall
<1>8. CanceledIffAsked'
  BY <1>0, <1>7 DEF CanceledIffAsked, IsActive
<1>9. ASSUME NEW d \in Calls PROVE CallInv(d)'
  BY <1>0, <1>1, <1>7 DEF StructInv, CallInv, IsActive
<1>10. StructInv'
  BY <1>0, <1>1, <1>9 DEF StructInv
<1> QED BY <1>2, <1>5, <1>6, <1>8, <1>10 DEF Safe

\* Other steps change no more than the far end of a socket, the clock, or a
\* descriptor that is not the adapter's.
LEMMA OthersSafe ==
    ASSUME AdapterInv, UNCHANGED <<structVars, at, fd, outcome, canceled>>,
           \A f \in Fds : \/ /\ file'[f].owner = file[f].owner
                            /\ file'[f].shut = file[f].shut
                         \/ /\ file[f].owner \in {"nobody", "other"}
                            /\ file'[f].owner \in {"nobody", "other"}
                            /\ ~file'[f].shut
    PROVE  Safe'
<1> USE DEF AdapterInv, structVars
<1>1. ActiveCall' /\ StructInv' /\ CanceledIffAsked'
  BY DEF ActiveCall, StructInv, CallInv, CanceledIffAsked, IsActive
<1>2. OnlyOwnSocketShut'
  BY DEF OnlyOwnSocketShut
<1>3. DescriptorsOwned'
  BY AdapterAssumption DEF DescriptorsOwned
<1> QED BY <1>1, <1>2, <1>3 DEF Safe

\* The deadline of a call passes: this may also happen after the call, as long
\* as the frontend keeps the task.
LEMMA ExpireInv ==
    ASSUME AdapterInv, NEW c \in Calls, Expire(c)
    PROVE  AdapterInv'
<1>1. TypeOK'
  BY DEF AdapterInv, Expire, structVars, TypeOK
<1>2. Safe'
  BY OthersSafe DEF Expire
<1> QED BY <1>1, <1>2 DEF Safe, AdapterInv

\* Every step of the callbacks, the daemon, the clock and the process keeps the
\* invariant.
LEMMA NextInv == AdapterInv /\ [Next]_vars => AdapterInv'
<1> SUFFICES ASSUME AdapterInv, [Next]_vars PROVE AdapterInv'
  OBVIOUS
<1>0. TypeOK' /\ TypeOK
  BY NextType DEF AdapterInv
<1>1. ASSUME NEW c \in Calls, Return(c) \/ \E r \in Requests : Arrive(c, r) PROVE Safe'
  BY <1>1, OutsideSafe
<1>2. ASSUME NEW c \in Calls, CallStep(c) PROVE Safe'
  BY <1>2, BeginSafe, ConnectSafe, RegisterSafe, FinishSafe, CloseSafe, QuietSteps DEF CallStep
<1>3. ASSUME NEW c \in Calls, DaemonStep(c) PROVE Safe'
  <2>1. fd[c] \in Fds
    BY <1>0, <1>3
       DEF DaemonStep, DaemonAnswers, DaemonDrops, AdapterInv, StructInv, CallInv, HoldsFd, TypeOK
  <2>2. \A g \in Fds : file'[g].owner = file[g].owner /\ file'[g].shut = file[g].shut
    BY <1>0, <1>3, <2>1, PeerType DEF DaemonStep, DaemonAnswers, DaemonDrops, PeerStates
  <2> QED BY <1>3, <2>2, OthersSafe DEF DaemonStep, DaemonAnswers, DaemonDrops
<1>4. ASSUME NEW c \in Calls, Expire(c) PROVE Safe'
  BY <1>4, OthersSafe DEF Expire
<1>5. ASSUME NEW f \in Fds, OtherUse(f) PROVE Safe'
  <2>1. /\ file[f].owner \in {"nobody", "other"}
        /\ file'[f].owner \in {"nobody", "other"} /\ ~file'[f].shut
        /\ \A g \in Fds \ {f} : file'[g] = file[g]
    BY <1>0, <1>5, RecordTypes DEF OtherUse, File, Closed
  <2> QED BY <1>5, <2>1, OthersSafe DEF OtherUse
<1>6. ASSUME UNCHANGED vars PROVE Safe'
  BY <1>6, OthersSafe DEF vars
<1> QED
  <2>1. Safe'
    BY <1>1, <1>2, <1>3, <1>4, <1>5, <1>6, CancelSafe DEF Next
  <2> QED BY <1>0, <2>1 DEF Safe, AdapterInv

\* The invariant holds after qcpu_qcpud_adapter_create().
LEMMA InitInv == Init => AdapterInv
<1> SUFFICES ASSUME Init PROVE AdapterInv
  OBVIOUS
<1>1. TypeOK
  <2>1. outcome \in [Calls -> Outcome] /\ file \in [Fds -> Openfile]
    BY ErrorOutcome, RecordTypes DEF Init
  <2>2. ZeroRequest \in Request
    BY DEF ZeroRequest, Request
  <2> QED BY ZenonT(60), <2>1, <2>2 DEF Init, TypeOK, Labels, Outcome, Openfile
<1>2. OnlyOwnSocketShut /\ DescriptorsOwned
  BY AdapterAssumption DEF Init, OnlyOwnSocketShut, DescriptorsOwned, Closed, File, NoFd
<1>3. ActiveCall /\ CanceledIffAsked /\ StructInv
  BY DEF Init, ActiveCall, CanceledIffAsked, StructInv, CallInv, IsActive, HoldsFd
<1> QED BY <1>1, <1>2, <1>3 DEF AdapterInv

\* The adapter's state is consistent at every step of every call, whenever a
\* cancel arrives and whatever the daemon and the rest of the process do.
THEOREM AdapterInvariance == Spec => []AdapterInv
  BY InitInv, NextInv, PTL DEF Spec

\* There is never a second call between begin and finish.
THEOREM ActiveCallHolds == Spec => []ActiveCall
  BY AdapterInvariance, PTL DEF AdapterInv

\* A cancel that races with the end of a call never shuts down a descriptor that
\* the rest of the process has got meanwhile.
THEOREM OnlyOwnSocketShutHolds == Spec => []OnlyOwnSocketShut
  BY AdapterInvariance, PTL DEF AdapterInv

\* No exit of the exchange callback leaks a descriptor or closes one twice.
THEOREM DescriptorsOwnedHolds == Spec => []DescriptorsOwned
  BY AdapterInvariance, PTL DEF AdapterInv

\* A call reports -ECANCELED exactly when a cancel callback met it.
THEOREM CanceledIffAskedHolds == Spec => []CanceledIffAsked
  BY AdapterInvariance, PTL DEF AdapterInv
=============================================================================
