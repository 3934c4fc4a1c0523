----------------------- MODULE DeviceLifecycleProofs ------------------------
(***************************************************************************)
(* scripts/qcpu_device_lifecycle.sh, for any number of invocations and     *)
(* daemons: no running daemon is lost but by the two steps that            *)
(* DeviceLifecycle names, a daemon that serves keeps its socket, and what  *)
(* start and stop report is true.                                          *)
(***************************************************************************)
EXTENDS DeviceLifecycle, QcpudProofs

-----------------------------------------------------------------------------
(* The inductive invariant.                                                *)

StartSteps == {"start", "start_match", "start_unpid", "start_socket", "start_launch",
               "start_poll", "start_check", "start_kill", "start_wait", "start_write"}
StopSteps == {"stop", "stop_match", "stop_kill", "stop_poll", "stop_unpid", "stop_socket"}
StatusSteps == {"status", "status_match", "status_unpid"}

ScriptType ==
    /\ step \in [Scripts -> StartSteps \cup StopSteps \cup StatusSteps \cup {"passed", "failed"}]
    /\ pid \in [Scripts -> Daemons \cup {Nobody}]
    /\ lock \in Scripts \cup {Nobody}
    /\ pid_file \in Daemons \cup {Nobody}
    /\ log \in BOOLEAN
    /\ process \in [Daemons -> {"own", "gone", "foreign"}]
    /\ orphaned \subseteq Daemons

\* The lock is held by the one start or stop under way.
LockInv == \A s \in Scripts : lock = s <=> step[s] \in StartSteps \cup StopSteps

\* An identifier is given away after its daemon was waited for, and nobody
\* knows that of a daemon that was not started.
ProcessInv ==
    /\ \A d \in Daemons : process[d] # "own" => Ended(d)
    /\ \A d \in Daemons : at[d] = "new" => pid_file # d /\ \A s \in Scripts : pid[s] # d

\* Steps that act on the daemon that the PID file named when they read it.
HasRead == {"start_match", "start_unpid", "stop_match", "stop_kill", "stop_poll", "stop_unpid"}
\* Steps for which the PID file is gone.
FileGone == {"start_socket", "start_launch", "start_poll", "start_check", "start_kill",
             "start_wait", "start_write", "stop_socket"}

\* What the command that holds the lock knows of the PID file: only a status
\* can have removed it since.
FileInv ==
    \A s \in Scripts :
      /\ step[s] \in HasRead => pid[s] \in Daemons /\ pid_file \in {pid[s], Nobody}
      /\ step[s] \in FileGone => pid_file = Nobody
      /\ step[s] \in {"start_unpid", "stop_unpid"} => Ended(pid[s])
      /\ Starting(s) => pid[s] \in Daemons
      /\ step[s] \in {"status_match", "status_unpid"} => pid[s] \in Daemons

\* Every daemon that runs is known.
KnownInv ==
    \A d \in Daemons : Alive(d) =>
      d \in orphaned \/ pid_file = d \/ \E s \in Scripts : Starting(s) /\ pid[s] = d

\* A daemon to which no stop signal was sent serves until it ends.
Unstopped(d) ==
    /\ ~stop_requested[d]
    /\ at[d] \notin {"once_failed", "close", "unlink"}
    /\ listener[d] = "closed" => Ended(d)

Serving == {"accept", "read", "write", "served", "failed"}

\* A start has sent no signal before start_kill, the log is what its daemon
\* wrote, and a daemon that serves has told its handler of the socket.
ReadyInv ==
    /\ \A d \in Daemons :
         /\ ~once[d]
         /\ at[d] = "new" => Unstopped(d)
         /\ at[d] \in Serving => server_fd_for_signal[d]
    /\ \A s \in Scripts :
         /\ step[s] \in {"start_poll", "start_check", "start_write"} => Unstopped(pid[s])
         /\ orphaned = {} /\ Starting(s) /\ log
              => at[pid[s]] \notin {"handlers", "lstat", "unlink_stale", "bind", "chmod",
                                    "listen", "ready"}
         /\ orphaned = {} /\ step[s] = "start_write"
              => Ended(pid[s]) \/ server_fd_for_signal[pid[s]]

\* The inductive invariant of the lifecycle.
LifecycleInv ==
    /\ TypeOK
    /\ ScriptType
    /\ LockInv
    /\ ProcessInv
    /\ FileInv
    /\ KnownInv
    /\ ReadyInv
    /\ orphaned = {} => PathInv

-----------------------------------------------------------------------------
(* What the steps of a daemon mean to the scripts.                         *)

Before == {"handlers", "lstat", "unlink_stale", "bind", "chmod", "listen", "ready"}

\* Daemons go forward: none starts, none comes back, none is less ready.
Evolves ==
    /\ once' = once
    /\ \A e \in Daemons :
         /\ Alive(e)' => Alive(e)
         /\ Ended(e) => Ended(e)'
         /\ at'[e] = "new" => at[e] = "new" /\ Unstopped(e)'
         /\ at'[e] \in Before => at[e] \in Before
         /\ at'[e] \in Serving => server_fd_for_signal'[e]

\* No stop signal is sent to e.
Kept(e) ==
    /\ Unstopped(e) => Unstopped(e)'
    /\ Unstopped(e) /\ (Ended(e) \/ server_fd_for_signal[e])
         => Ended(e)' \/ server_fd_for_signal'[e]

\* The daemons may also do nothing.
LEMMA SameEvolves ==
    ASSUME LifecycleInv, UNCHANGED <<at, once, signalVars, listener>>
    PROVE  Evolves /\ \A e \in Daemons : Kept(e)
  BY DEF LifecycleInv, ReadyInv, Evolves, Kept, Alive, Ended, Unstopped, signalVars

\* A step of one daemon is forward for all of them.
LEMMA OneEvolves ==
    ASSUME LifecycleInv, NEW d \in Daemons, Alive(d), once' = once,
           \A e \in Daemons \ {d} :
             /\ at'[e] = at[e] /\ listener'[e] = listener[e]
             /\ stop_requested'[e] = stop_requested[e]
             /\ server_fd_for_signal'[e] = server_fd_for_signal[e],
           at'[d] # "new",
           at'[d] \in Before => at[d] \in Before,
           at'[d] \in Serving => server_fd_for_signal'[d]
    PROVE  Evolves /\ \A e \in Daemons \ {d} : Kept(e)
  BY DEF LifecycleInv, ReadyInv, Evolves, Kept, Alive, Ended, Unstopped

\* A daemon that is not signalled reads no stop.
LEMMA DaemonStepKept ==
    ASSUME LifecycleInv, NEW d \in Daemons, DaemonStep(d) \/ AcceptFails(d)
    PROVE  Alive(d) /\ Evolves /\ \A e \in Daemons : Kept(e)
<1> USE DEF Goto, signalVars, socketVars, CloseListener
<1>1. Alive(d) /\ once' = once
  BY DEF DaemonStep, AcceptFails, install_signal_handlers, Lstat, UnlinkStale,
     StartFails, Bind, Chmod, Listen, SetupFails, Ready, accept, AcceptStopped,
     ReadRequest, ReadFails, WriteResponse, AfterServed, AfterFailed, OnceFailed,
     CloseServer, CloseFails, Unlink, Alive, Ended
<1>2. /\ ~once[d] /\ (at[d] \in Serving => server_fd_for_signal[d])
      /\ at \in [Daemons -> Labels]
      /\ listener \in [Daemons -> {"none", "bound", "listening", "closed"}]
      /\ stop_requested \in [Daemons -> BOOLEAN]
      /\ server_fd_for_signal \in [Daemons -> BOOLEAN]
  BY DEF LifecycleInv, ReadyInv, TypeOK
<1>3. \A e \in Daemons \ {d} :
        /\ at'[e] = at[e] /\ listener'[e] = listener[e]
        /\ stop_requested'[e] = stop_requested[e]
        /\ server_fd_for_signal'[e] = server_fd_for_signal[e]
  BY <1>2 DEF DaemonStep, AcceptFails, install_signal_handlers, Lstat, UnlinkStale,
     StartFails, Bind, Chmod, Listen, SetupFails, Ready, accept, AcceptStopped,
     ReadRequest, ReadFails, WriteResponse, AfterServed, AfterFailed, OnceFailed,
     CloseServer, CloseFails, Unlink
<1>4. /\ at'[d] # "new"
      /\ at'[d] \in Before => at[d] \in Before
      /\ at'[d] \in Serving => server_fd_for_signal'[d]
  BY <1>2 DEF DaemonStep, AcceptFails, install_signal_handlers, Lstat, UnlinkStale,
     StartFails, Bind, Chmod, Listen, SetupFails, Ready, accept, AcceptStopped,
     ReadRequest, ReadFails, WriteResponse, AfterServed, AfterFailed, OnceFailed,
     CloseServer, CloseFails, Unlink, Before, Serving
<1>5. Unstopped(d) => Unstopped(d)'
  BY <1>2 DEF DaemonStep, AcceptFails, install_signal_handlers, Lstat, UnlinkStale,
     StartFails, Bind, Chmod, Listen, SetupFails, Ready, accept, AcceptStopped,
     ReadRequest, ReadFails, WriteResponse, AfterServed, AfterFailed, OnceFailed,
     CloseServer, CloseFails, Unlink, Unstopped, Ended
<1>6. Unstopped(d) /\ server_fd_for_signal[d] => Ended(d)' \/ server_fd_for_signal'[d]
  BY <1>2 DEF DaemonStep, AcceptFails, install_signal_handlers, Lstat, UnlinkStale,
     StartFails, Bind, Chmod, Listen, SetupFails, Ready, accept, AcceptStopped,
     ReadRequest, ReadFails, WriteResponse, AfterServed, AfterFailed, OnceFailed,
     CloseServer, CloseFails, Unlink, Unstopped, Ended
<1> QED BY <1>1, <1>3, <1>4, <1>5, <1>6, OneEvolves DEF Kept, Alive

\* A daemon that dies is not stopped, it has ended.
LEMMA DieEvolves ==
    ASSUME LifecycleInv, NEW d \in Daemons, Alive(d), Die(d)
    PROVE  Evolves /\ \A e \in Daemons : Kept(e)
<1>1. /\ at'[d] = "killed" /\ once' = once /\ UNCHANGED signalVars
      /\ \A e \in Daemons \ {d} :
           /\ at'[e] = at[e] /\ listener'[e] = listener[e]
           /\ stop_requested'[e] = stop_requested[e]
           /\ server_fd_for_signal'[e] = server_fd_for_signal[e]
  BY DEF LifecycleInv, TypeOK, Die, Goto, signalVars
<1>2. Kept(d)
  BY <1>1 DEF Kept, Unstopped, Ended, signalVars
<1> QED BY <1>1, <1>2, OneEvolves DEF Before, Serving

\* kill -TERM.
LEMMA TermEvolves ==
    ASSUME LifecycleInv, NEW d \in Daemons, Term(d)
    PROVE  Evolves /\ TypeOK' /\ (PathInv => PathInv')
<1>0. TypeOK
  BY DEF LifecycleInv
<1>1. CASE handle_stop_signal(d)
  <2>1. TypeOK'
    BY <1>0, <1>1, NextType DEF Next
  <2>2. PathInv => PathInv'
    BY <1>0, <1>1, KilledPath
  <2>3. Evolves
    <3>1. CASE Alive(d) /\ Die(d)
      BY <3>1, DieEvolves
    <3>2. CASE Alive(d) /\ at[d] # "handlers"
      <4>1. /\ at' = at /\ once' = once /\ server_fd_for_signal' = server_fd_for_signal
            /\ \A e \in Daemons \ {d} : listener'[e] = listener[e]
                                        /\ stop_requested'[e] = stop_requested[e]
        BY <1>0, <1>1, <3>2 DEF handle_stop_signal, TypeOK, CloseListener
      <4>2. at[d] \in Serving => server_fd_for_signal[d]
        BY DEF LifecycleInv, ReadyInv
      <4> QED BY <3>2, <4>1, <4>2, OneEvolves DEF Alive
    <3> QED BY <1>1, <3>1, <3>2 DEF handle_stop_signal
  <2> QED BY <2>1, <2>2, <2>3
<1>2. CASE UNCHANGED vars
  <2>1. TypeOK'
    BY <1>0, <1>2, NextType
  <2>2. UNCHANGED <<at, once, signalVars, listener, path>>
    BY <1>2 DEF vars, socketVars
  <2> QED BY <2>1, <2>2, SameEvolves DEF PathInv, Alive, Ended
<1> QED BY <1>1, <1>2 DEF Term

-----------------------------------------------------------------------------
(* A step of a script.                                                     *)

LockSteps == StartSteps \cup StopSteps
Steps == LockSteps \cup StatusSteps \cup {"passed", "failed"}
StartingSteps == {"start_poll", "start_check", "start_kill", "start_wait", "start_write"}
Early == {"start_poll", "start_check", "start_write"}

\* s goes to label with x in its variable pid.
Moves(s, label, x) ==
    /\ step' = [step EXCEPT ![s] = label]
    /\ pid' = [pid EXCEPT ![s] = x]
    /\ x \in {pid[s], pid_file, Nobody}
    /\ \/ label \in LockSteps /\ lock' = s /\ lock \in {s, Nobody}
       \/ label \notin LockSteps /\ lock' = IF lock = s THEN Nobody ELSE lock

\* No daemon is forgotten that runs: not the one in the PID file, and not the
\* one that s is starting.
Remembers(s, label, x) ==
    /\ orphaned \subseteq orphaned' /\ orphaned' \subseteq Daemons
    /\ pid_file' \in {pid_file, Nobody} \/ (lock = s /\ pid_file' = pid[s])
    /\ \A d \in Daemons : Alive(d) /\ pid_file = d => pid_file' = d \/ d \in orphaned'
    /\ \A d \in Daemons : Alive(d) /\ pid[s] = d /\ Starting(s) =>
         (label \in StartingSteps /\ x = d) \/ pid_file' = d \/ d \in orphaned'

\* What FileInv and ReadyInv say of a script at label.
Arrives(s, label, x) ==
    /\ label \in HasRead => x \in Daemons /\ pid_file' \in {x, Nobody}
    /\ label \in FileGone => pid_file' = Nobody
    /\ label \in {"start_unpid", "stop_unpid"} => Ended(x)'
    /\ label \in {"status_match", "status_unpid"} => x \in Daemons
    /\ label \in StartingSteps => Starting(s) /\ x = pid[s]
    /\ label \in Early => step[s] \in Early
    /\ label = "start_write" /\ orphaned' = {} => Ended(x)' \/ server_fd_for_signal'[x]

\* A step that remembers what it should and arrives where it may preserves the
\* invariant.
LEMMA ScriptMoves ==
    ASSUME LifecycleInv, Evolves, TypeOK', orphaned' = {} => PathInv',
           NEW s \in Scripts, NEW label \in Steps, NEW x,
           Moves(s, label, x), Remembers(s, label, x), Arrives(s, label, x),
           UNCHANGED <<log, process>>,
           (\A e \in Daemons : Kept(e)) \/ (lock = s /\ label \notin Early)
    PROVE  LifecycleInv'
<1>0. /\ step \in [Scripts -> Steps] /\ pid \in [Scripts -> Daemons \cup {Nobody}]
      /\ lock \in Scripts \cup {Nobody} /\ pid_file \in Daemons \cup {Nobody}
      /\ Nobody \notin Daemons /\ Nobody \notin Scripts
  BY LifecycleAssumption, DaemonAssumption DEF LifecycleInv, ScriptType, Steps, LockSteps
<1>1. /\ step'[s] = label /\ pid'[s] = x
      /\ \A t \in Scripts : t # s => step'[t] = step[t] /\ pid'[t] = pid[t]
  BY <1>0 DEF Moves
<1>2. x \in Daemons \cup {Nobody} /\ pid_file' \in Daemons \cup {Nobody}
  BY <1>0 DEF Moves, Remembers
<1>3. ScriptType'
  <2>1. step' \in [Scripts -> Steps] /\ pid' \in [Scripts -> Daemons \cup {Nobody}]
    BY <1>0, <1>2 DEF Moves
  <2>2. lock' \in Scripts \cup {Nobody}
    BY <1>0 DEF Moves
  <2> QED BY <1>2, <2>1, <2>2 DEF LifecycleInv, ScriptType, Steps, LockSteps, Remembers
<1>4. \A t \in Scripts : lock = t <=> step[t] \in LockSteps
  BY DEF LifecycleInv, LockInv, LockSteps
<1>5. LockInv'
  <2>1. \A t \in Scripts : lock' = t <=> step'[t] \in LockSteps
    BY <1>0, <1>1, <1>4 DEF Moves
  <2> QED BY <2>1 DEF LockInv, LockSteps
<1>6. ProcessInv'
  <2>1. \A d \in Daemons : process'[d] # "own" => Ended(d)'
    BY DEF LifecycleInv, ProcessInv, Evolves
  <2>2. ASSUME NEW d \in Daemons, at'[d] = "new"
        PROVE  pid_file' # d /\ \A t \in Scripts : pid'[t] # d
    <3>1. pid_file # d /\ \A t \in Scripts : pid[t] # d
      BY <2>2 DEF LifecycleInv, ProcessInv, Evolves
    <3> QED BY <1>0, <1>1, <3>1 DEF Moves, Remembers
  <2> QED BY <2>1, <2>2 DEF ProcessInv
<1>7. \A t \in Scripts : t # s /\ step[t] \in HasRead \cup FileGone => pid_file' \in {pid_file, Nobody}
  <2>1. HasRead \cup FileGone \subseteq LockSteps
    BY DEF HasRead, FileGone, LockSteps, StartSteps, StopSteps
  <2> QED BY <1>4, <2>1 DEF Remembers
<1>8. FileInv'
  <2> SUFFICES ASSUME NEW t \in Scripts
               PROVE  /\ step'[t] \in HasRead => pid'[t] \in Daemons /\ pid_file' \in {pid'[t], Nobody}
                      /\ step'[t] \in FileGone => pid_file' = Nobody
                      /\ step'[t] \in {"start_unpid", "stop_unpid"} => Ended(pid[t])'
                      /\ step'[t] \in StartingSteps => pid'[t] \in Daemons
                      /\ step'[t] \in {"status_match", "status_unpid"} => pid'[t] \in Daemons
    BY DEF FileInv, Starting, StartingSteps
  <2>1. CASE t # s
    <3>1. /\ step[t] \in HasRead => pid[t] \in Daemons /\ pid_file \in {pid[t], Nobody}
          /\ step[t] \in FileGone => pid_file = Nobody
          /\ step[t] \in {"start_unpid", "stop_unpid"} => Ended(pid[t]) /\ pid[t] \in Daemons
          /\ step[t] \in StartingSteps => pid[t] \in Daemons
          /\ step[t] \in {"status_match", "status_unpid"} => pid[t] \in Daemons
      BY DEF LifecycleInv, FileInv, Starting, StartingSteps, HasRead
    <3>2. pid[t] \in Daemons /\ Ended(pid[t]) => at'[pid[t]] \in {"success", "failure", "killed"}
      BY DEF Evolves, Ended
    <3>3. /\ step'[t] \in {"start_unpid", "stop_unpid"} => Ended(pid[t])'
      BY <1>1, <2>1, <3>1, <3>2 DEF Ended
    <3> QED BY <1>1, <1>7, <2>1, <3>1, <3>3
  <2>2. CASE t = s
    <3>1. Starting(s) => pid[s] \in Daemons
      BY DEF LifecycleInv, FileInv
    <3>2. label \in {"start_unpid", "stop_unpid"} => Ended(pid[t])'
      BY <1>1, <2>2 DEF Arrives, Ended
    <3> QED BY <1>1, <2>2, <3>1, <3>2 DEF Arrives
  <2> QED BY <2>1, <2>2
<1>9. KnownInv'
  <2> SUFFICES ASSUME NEW d \in Daemons, Alive(d)'
               PROVE  \/ d \in orphaned' \/ pid_file' = d
                      \/ \E t \in Scripts : Starting(t)' /\ pid'[t] = d
    BY DEF KnownInv
  <2>1. Alive(d)
    BY DEF Evolves
  <2>2. CASE d \in orphaned \/ pid_file = d
    BY <2>1, <2>2 DEF Remembers
  <2>3. ASSUME NEW t \in Scripts, Starting(t), pid[t] = d
        PROVE  \/ d \in orphaned' \/ pid_file' = d
               \/ \E u \in Scripts : Starting(u)' /\ pid'[u] = d
    <3>1. CASE t # s
      BY <1>1, <2>3, <3>1 DEF Starting
    <3>2. CASE t = s
      BY <1>1, <2>1, <2>3, <3>2 DEF Remembers, Starting, StartingSteps
    <3> QED BY <3>1, <3>2
  <2> QED BY <2>1, <2>2, <2>3 DEF LifecycleInv, KnownInv
<1>10. ReadyInv'
  <2>1. ASSUME NEW d \in Daemons
        PROVE  /\ ~once'[d]
               /\ at'[d] = "new" => Unstopped(d)'
               /\ at'[d] \in Serving => server_fd_for_signal'[d]
    BY DEF LifecycleInv, ReadyInv, Evolves
  <2>2. ASSUME NEW t \in Scripts, step'[t] \in Early
        PROVE  /\ Unstopped(pid[t])'
               /\ orphaned' = {} /\ step'[t] = "start_write"
                    => Ended(pid[t])' \/ server_fd_for_signal'[pid'[t]]
    <3>1. step[t] \in Early /\ pid'[t] = pid[t] /\ pid[t] \in Daemons
      BY <1>1, <2>2 DEF LifecycleInv, FileInv, Arrives, Early, StartingSteps, Starting
    <3>2. Early \subseteq LockSteps
      BY DEF Early, LockSteps, StartSteps
    <3>3. PICK d \in Daemons : d = pid[t] /\ d = pid'[t]
      BY <3>1
    <3>4. Kept(d)
      BY <1>1, <1>4, <2>2, <3>1, <3>2
    <3>5. Unstopped(d)
      BY <3>1, <3>3 DEF LifecycleInv, ReadyInv, Early
    <3>6. Unstopped(d)'
      BY <3>4, <3>5 DEF Kept
    <3>7. orphaned' = {} /\ step'[t] = "start_write" => Ended(d)' \/ server_fd_for_signal'[d]
      <4>1. CASE t = s
        BY <1>1, <3>3, <4>1 DEF Arrives
      <4>2. CASE t # s
        <5>1. orphaned' = {} /\ step[t] = "start_write" => Ended(d) \/ server_fd_for_signal[d]
          BY ZenonT(30), <3>3 DEF LifecycleInv, ReadyInv, Remembers
        <5> QED BY <1>1, <3>4, <3>5, <4>2, <5>1 DEF Kept
      <4> QED BY <4>1, <4>2
    <3> QED BY <3>3, <3>6, <3>7 DEF Unstopped, Ended
  <2>3. ASSUME NEW t \in Scripts, orphaned' = {}, Starting(t)', log'
        PROVE  at'[pid'[t]] \notin Before
    <3>1. Starting(t) /\ pid'[t] = pid[t]
      BY <1>1, <2>3 DEF Arrives, Starting, StartingSteps
    <3>2. orphaned = {} /\ log /\ pid[t] \in Daemons
      BY <2>3, <3>1 DEF Remembers, LifecycleInv, FileInv
    <3> QED BY <3>1, <3>2 DEF LifecycleInv, ReadyInv, Evolves, Before
  <2> QED BY <2>1, <2>2, <2>3 DEF ReadyInv, Early, Before
<1> QED BY <1>3, <1>5, <1>6, <1>8, <1>9, <1>10 DEF LifecycleInv

\* What the script learns of a process from kill -0, /proc/PID/stat and
\* /proc/PID/exe is true, though the identifier may have been used again.
LEMMA Identity ==
    ASSUME LifecycleInv, NEW d \in Daemons, at[d] # "new"
    PROVE  /\ ~kill0(d) => Ended(d)
           /\ ~Running(d) => Ended(d)
           /\ process_matches_qcpud(d) <=> Alive(d)
  BY DEF LifecycleInv, ProcessInv, kill0, Running, process_is_zombie, process_matches_qcpud,
     Alive, Ended

\* The daemon that a script knows was started.
LEMMA KnownDaemon ==
    ASSUME LifecycleInv, NEW s \in Scripts,
           step[s] \in HasRead \cup StartingSteps \cup {"status_match", "status_unpid"}
    PROVE  pid[s] \in Daemons /\ at[pid[s]] # "new"
  BY DEF LifecycleInv, ProcessInv, FileInv, Starting, StartingSteps, HasRead

\* A step that only looks, or removes or writes the PID file.
LEMMA QuietMoves ==
    ASSUME LifecycleInv, UNCHANGED <<vars, log, process>>,
           NEW s \in Scripts, NEW label \in Steps, NEW x,
           Moves(s, label, x), Remembers(s, label, x), Arrives(s, label, x)
    PROVE  LifecycleInv'
<1>1. TypeOK'
  BY NextType DEF LifecycleInv
<1>2. UNCHANGED <<at, once, signalVars, listener, path>>
  BY DEF vars, socketVars
<1>3. orphaned' = {} => PathInv'
  BY <1>2 DEF LifecycleInv, PathInv, Alive, Ended, Remembers
<1>4. Evolves /\ \A e \in Daemons : Kept(e)
  BY <1>2, SameEvolves
<1> QED BY <1>1, <1>3, <1>4, ScriptMoves

\* The end of a script.
LEMMA ExitMoves ==
    ASSUME LifecycleInv, NEW s \in Scripts, NEW outcome \in {"passed", "failed"}, Exit(s, outcome)
    PROVE  outcome \in Steps /\ Moves(s, outcome, Nobody) /\ Arrives(s, outcome, Nobody)
  BY DEF Exit, Moves, Arrives, Steps, LockSteps, StartSteps, StopSteps, HasRead, FileGone,
     StartingSteps, Early

\* The next step of a script that keeps its pid, with or without the lock.
LEMMA ToMoves ==
    ASSUME LifecycleInv, NEW s \in Scripts, NEW label, To(s, label),
           step[s] \in LockSteps <=> label \in LockSteps,
           NEW x, x = pid[s]
    PROVE  Moves(s, label, x)
  BY LifecycleAssumption
     DEF LifecycleInv, ScriptType, LockInv, LockSteps, To, Goes, Moves

\* Nothing is forgotten when the PID file and the daemon being started stay.
LEMMA Unforgetting ==
    ASSUME NEW s \in Scripts, NEW label, NEW x, UNCHANGED <<pid_file, orphaned>>,
           LifecycleInv,
           Starting(s) => \/ label \in StartingSteps /\ x = pid[s]
                          \/ \A d \in Daemons : pid[s] = d => ~Alive(d)
    PROVE  Remembers(s, label, x)
  BY DEF LifecycleInv, ScriptType, Remembers

\* The lock is taken or waited for in vain; status takes none.
LEMMA BeginInv ==
    ASSUME LifecycleInv, NEW s \in Scripts,
           \/ with_lifecycle_lock(s, "start") \/ with_lifecycle_lock(s, "stop")
           \/ WithoutLock(s, "status")
    PROVE  LifecycleInv'
<1>0. /\ UNCHANGED <<vars, log, process, orphaned, pid_file>>
      /\ step[s] \in {"passed", "failed"}
  BY DEF with_lifecycle_lock, WithoutLock, MayBegin, Idle, Quiet
<1>1. ~Starting(s) /\ lock # s
  BY <1>0 DEF Starting, LifecycleInv, LockInv, StartSteps, StopSteps
<1>2. \A label, x : Remembers(s, label, x)
  BY <1>0, <1>1, Unforgetting
<1>3. ASSUME NEW label \in {"start", "stop", "status"}
      PROVE  label \in Steps /\ \A x : Arrives(s, label, x)
  BY <1>3 DEF Steps, LockSteps, StartSteps, StopSteps, StatusSteps, Arrives, HasRead, FileGone,
     StartingSteps, Early
<1>4. PICK x : x = pid[s]
  OBVIOUS
<1>5. ASSUME NEW label \in {"start", "stop"}, lock = Nobody, lock' = s,
             step' = [step EXCEPT ![s] = label], UNCHANGED pid
      PROVE  LifecycleInv'
  <2>1. Moves(s, label, x)
    BY <1>4, <1>5 DEF Moves, LockSteps, StartSteps, StopSteps, LifecycleInv, ScriptType
  <2> QED BY <1>0, <1>2, <1>3, <1>5, <2>1, QuietMoves
<1>6. CASE Exit(s, "failed")
  BY <1>0, <1>2, <1>6, ExitMoves, QuietMoves
<1>7. CASE WithoutLock(s, "status")
  <2>1. Moves(s, "status", x)
    BY <1>0, <1>4, <1>7, ToMoves DEF WithoutLock, LockSteps, StartSteps, StopSteps
  <2> QED BY <1>0, <1>2, <1>3, <2>1, QuietMoves
<1> QED BY <1>5, <1>6, <1>7 DEF with_lifecycle_lock

\* read_pid under the lock.
LEMMA ReadPidInv ==
    ASSUME LifecycleInv, NEW s \in Scripts, StartPid(s) \/ StopPid(s)
    PROVE  LifecycleInv'
<1> USE DEF LockSteps, StartSteps, StopSteps
<1>0. /\ UNCHANGED <<vars, log, process, orphaned, pid_file, lock>>
      /\ pid' = [pid EXCEPT ![s] = pid_file] /\ step[s] \in {"start", "stop"}
  BY DEF StartPid, StopPid, ReadPid, Quiet, Goes
<1>1. PICK x : x = pid_file
  OBVIOUS
<1>2. PICK label \in {"start_socket", "start_match", "stop_socket", "stop_match"} :
        /\ step' = [step EXCEPT ![s] = label]
        /\ label \in {"start_socket", "stop_socket"} <=> x = Nobody
  BY <1>1 DEF StartPid, StopPid, ReadPid, Goes
<1>3. label \in Steps
  BY <1>2 DEF Steps
<1>4. Moves(s, label, x)
  BY <1>0, <1>1, <1>2 DEF Moves, LifecycleInv, LockInv
<1>5. Remembers(s, label, x)
  BY <1>0, Unforgetting DEF Starting
<1>6. Arrives(s, label, x)
  <2>1. label \in {"start_match", "stop_match"} => x \in Daemons /\ pid_file' = x
    BY <1>0, <1>1, <1>2 DEF LifecycleInv, ScriptType
  <2>2. label \in {"start_socket", "stop_socket"} => pid_file' = Nobody
    BY <1>0, <1>1, <1>2
  <2> QED BY <1>2, <2>1, <2>2 DEF Arrives, HasRead, FileGone, StartingSteps, Early
<1> QED BY <1>0, <1>3, <1>4, <1>5, <1>6, QuietMoves

\* What start and stop decide on the identity of the process, and stop on its
\* end: only one that has ended is forgotten.
LEMMA MatchInv ==
    ASSUME LifecycleInv, NEW s \in Scripts, StartMatch(s) \/ StopMatch(s) \/ StopPoll(s)
    PROVE  LifecycleInv'
<1> USE DEF LockSteps, StartSteps, StopSteps
<1>0. /\ UNCHANGED <<vars, log, process, orphaned, pid_file>>
      /\ step[s] \in {"start_match", "stop_match", "stop_poll"}
  BY DEF StartMatch, StopMatch, StopPoll, Quiet
<1>1. \A label, x : Remembers(s, label, x)
  BY <1>0, Unforgetting DEF Starting
<1>2. CASE Exit(s, "passed") \/ Exit(s, "failed")
  BY <1>0, <1>1, <1>2, ExitMoves, QuietMoves
<1>3. PICK x \in Daemons : x = pid[s] /\ at[x] # "new" /\ pid_file' \in {x, Nobody}
  BY <1>0, KnownDaemon DEF HasRead, LifecycleInv, FileInv
<1>4. CASE (To(s, "start_unpid") \/ To(s, "stop_unpid")) /\ ~Running(pid[s])
  <2>1. Ended(x) /\ UNCHANGED at
    BY <1>0, <1>3, <1>4, Identity DEF vars
  <2>2. ASSUME NEW label \in {"start_unpid", "stop_unpid"}, To(s, label) PROVE LifecycleInv'
    <3>1. Moves(s, label, x)
      BY <1>0, <1>3, <2>2, ToMoves
    <3>2. Arrives(s, label, x)
      BY <1>3, <2>1 DEF Arrives, HasRead, FileGone, StartingSteps, Early, Ended
    <3> QED BY <1>0, <1>1, <3>1, <3>2, QuietMoves DEF Steps
  <2> QED BY <1>4, <2>2
<1>5. CASE To(s, "stop_kill")
  <2>1. Moves(s, "stop_kill", x)
    BY <1>0, <1>3, <1>5, ToMoves
  <2>2. Arrives(s, "stop_kill", x)
    BY <1>3 DEF Arrives, HasRead, FileGone, StartingSteps, Early
  <2> QED BY <1>0, <1>1, <2>1, <2>2, QuietMoves DEF Steps
<1> QED BY <1>2, <1>4, <1>5 DEF StartMatch, StopMatch, StopPoll

\* rm -f "$PID_FILE" under the lock.
LEMMA UnpidInv ==
    ASSUME LifecycleInv, NEW s \in Scripts, StartUnpid(s) \/ StopUnpid(s)
    PROVE  LifecycleInv'
<1> USE DEF LockSteps, StartSteps, StopSteps
<1>0. /\ UNCHANGED <<vars, log, process, orphaned>> /\ pid_file' = Nobody
      /\ step[s] \in {"start_unpid", "stop_unpid"}
  BY DEF StartUnpid, StopUnpid, RemovePidFile
<1>1. PICK x : x = pid[s]
  OBVIOUS
<1>2. PICK label \in {"start_socket", "stop_socket"} : To(s, label)
  BY DEF StartUnpid, StopUnpid
<1>3. Moves(s, label, x)
  BY <1>0, <1>1, <1>2, ToMoves
<1>4. Remembers(s, label, x)
  <2>1. \A d \in Daemons : pid_file = d => ~Alive(d)
    BY <1>0, DaemonAssumption DEF LifecycleInv, FileInv, HasRead, Alive
  <2> QED BY <1>0, <2>1 DEF Remembers, Starting, LifecycleInv, ScriptType
<1>5. Arrives(s, label, x)
  BY <1>0, <1>2 DEF Arrives, HasRead, FileGone, StartingSteps, Early
<1> QED BY <1>0, <1>2, <1>3, <1>4, <1>5, QuietMoves DEF Steps

\* Under the lock, once the PID file is gone, no daemon runs that is not lost.
LEMMA NoneRuns ==
    ASSUME LifecycleInv, NEW s \in Scripts,
           step[s] \in {"start_socket", "start_launch", "stop_socket"}
    PROVE  pid_file = Nobody /\ \A d \in Daemons : Alive(d) => d \in orphaned
<1>1. pid_file = Nobody /\ lock = s
  BY DEF LifecycleInv, FileInv, FileGone, LockInv, StartSteps, StopSteps
<1>2. \A t \in Scripts : ~Starting(t)
  BY <1>1 DEF LifecycleInv, LockInv, Starting, StartSteps
<1> QED BY <1>1, <1>2, DaemonAssumption DEF LifecycleInv, KnownInv

\* rm -f "$SOCKET_PATH": no daemon of the script's has that socket.
LEMMA SocketInv ==
    ASSUME LifecycleInv, NEW s \in Scripts, StartSocket(s) \/ StopSocket(s)
    PROVE  LifecycleInv'
<1> USE DEF LockSteps, StartSteps, StopSteps
<1>0. /\ UNCHANGED <<at, once, signalVars, socketVars, sent, log, process, orphaned, pid_file>>
      /\ path' = Nobody /\ step[s] \in {"start_socket", "stop_socket"}
  BY DEF StartSocket, StopSocket, RemoveSocket
<1>1. TypeOK'
  BY <1>0 DEF LifecycleInv, TypeOK, signalVars, socketVars
<1>2. orphaned' = {} => PathInv'
  <2>1. orphaned = {} => \A d \in Daemons : ~Alive(d)
    BY <1>0, NoneRuns
  <2> QED BY <1>0, <2>1, DaemonAssumption DEF PathInv, HasPath, Alive, Ended
<1>3. Evolves /\ \A e \in Daemons : Kept(e)
  BY <1>0, SameEvolves DEF socketVars
<1>4. \A label, x : Remembers(s, label, x)
  BY <1>0, Unforgetting DEF Starting
<1>5. CASE Exit(s, "passed")
  BY <1>0, <1>1, <1>2, <1>3, <1>4, <1>5, ExitMoves, ScriptMoves
<1>6. CASE To(s, "start_launch")
  <2>1. PICK x : x = pid[s]
    OBVIOUS
  <2>2. Moves(s, "start_launch", x)
    BY <1>0, <1>6, <2>1, ToMoves
  <2>3. pid_file' = Nobody
    BY <1>0, NoneRuns
  <2>4. Arrives(s, "start_launch", x)
    BY <2>3 DEF Arrives, HasRead, FileGone, StartingSteps, Early
  <2> QED BY <1>0, <1>1, <1>2, <1>3, <1>4, <2>2, <2>4, ScriptMoves DEF Steps
<1> QED BY <1>5, <1>6 DEF StartSocket, StopSocket

\* nohup ... &: the new daemon is the only one that is not lost.
LEMMA LaunchInv ==
    ASSUME LifecycleInv, NEW s \in Scripts, StartLaunch(s)
    PROVE  LifecycleInv'
<1> USE DEF LockSteps, StartSteps, StopSteps
<1>0. /\ step[s] = "start_launch" /\ pid_file = Nobody
      /\ \A d \in Daemons : Alive(d) => d \in orphaned
      /\ lock = s /\ \A t \in Scripts \ {s} : step[t] \notin LockSteps
  BY NoneRuns DEF StartLaunch, LifecycleInv, LockInv
<1>1. CASE Exit(s, "failed") /\ Quiet /\ UNCHANGED pid_file
  <2>1. Remembers(s, "failed", Nobody)
    BY <1>0, <1>1, Unforgetting DEF Quiet, Starting
  <2> QED BY <1>1, <2>1, ExitMoves, QuietMoves DEF Quiet
<1>2. ASSUME NEW d \in Daemons, Start(d), pid' = [pid EXCEPT ![s] = d], log' = FALSE,
             Goes(s, "start_poll"), UNCHANGED <<pid_file, process, orphaned>>
      PROVE  LifecycleInv'
  <2>0. /\ at[d] = "new" /\ at' = [at EXCEPT ![d] = "handlers"]
        /\ UNCHANGED <<once, signalVars, listener, path, lock>>
        /\ step' = [step EXCEPT ![s] = "start_poll"]
    BY <1>2 DEF Start, Goto, Goes, socketVars
  <2>1. /\ at'[d] = "handlers" /\ \A e \in Daemons : e # d => at'[e] = at[e]
        /\ step'[s] = "start_poll" /\ pid'[s] = d
        /\ \A t \in Scripts : t # s => step'[t] = step[t] /\ pid'[t] = pid[t]
    BY <1>2, <2>0 DEF LifecycleInv, TypeOK, ScriptType
  <2>2. TypeOK'
    BY <1>2, NextType DEF LifecycleInv, Next
  <2>3. ScriptType'
    BY ZenonT(30), <1>2, <2>0 DEF LifecycleInv, ScriptType
  <2>4. LockInv'
    BY <1>0, <2>0, <2>1 DEF LifecycleInv, LockInv
  <2>5. ProcessInv'
    <3>1. \A e \in Daemons : process'[e] # "own" => Ended(e)'
      BY <1>2, <2>0, <2>1 DEF LifecycleInv, ProcessInv, Ended
    <3>2. \A e \in Daemons : at'[e] = "new" => e # d /\ at[e] = "new"
      BY <2>1
    <3>3. \A e \in Daemons : at'[e] = "new" => pid_file' # e /\ \A t \in Scripts : pid'[t] # e
      BY <1>2, <2>1, <3>2 DEF LifecycleInv, ProcessInv
    <3> QED BY <3>1, <3>3 DEF ProcessInv
  <2>6. FileInv'
    <3> SUFFICES ASSUME NEW t \in Scripts
                 PROVE  /\ step'[t] \in HasRead => pid'[t] \in Daemons /\ pid_file' \in {pid'[t], Nobody}
                        /\ step'[t] \in FileGone => pid_file' = Nobody
                        /\ step'[t] \in {"start_unpid", "stop_unpid"} => Ended(pid[t])'
                        /\ step'[t] \in StartingSteps => pid'[t] \in Daemons
                        /\ step'[t] \in {"status_match", "status_unpid"} => pid'[t] \in Daemons
      BY DEF FileInv, Starting, StartingSteps
    <3>1. CASE t = s
      BY <1>0, <1>2, <2>1, <3>1 DEF HasRead
    <3>2. CASE t # s
      <4>1. step'[t] \notin HasRead \cup FileGone \cup StartingSteps
        BY <1>0, <2>1, <3>2 DEF HasRead, FileGone, StartingSteps
      <4> QED BY ZenonT(30), <1>2, <2>1, <3>2, <4>1 DEF LifecycleInv, FileInv, HasRead
    <3> QED BY <3>1, <3>2
  <2>7. KnownInv'
    <3>1. Starting(s)' /\ pid'[s] = d
      BY <2>1 DEF Starting
    <3>2. \A e \in Daemons : e # d /\ Alive(e)' => e \in orphaned'
      BY <1>0, <1>2, <2>1 DEF Alive, Ended
    <3> QED BY <3>1, <3>2 DEF KnownInv
  <2>8. ReadyInv'
    <3>1. Unstopped(d)'
      BY <2>0, <2>1 DEF LifecycleInv, ReadyInv, Unstopped, Ended, signalVars
    <3>2. ASSUME NEW e \in Daemons
          PROVE  /\ ~once'[e]
                 /\ at'[e] = "new" => Unstopped(e)'
                 /\ at'[e] \in Serving => server_fd_for_signal'[e]
      BY <2>0, <2>1 DEF LifecycleInv, ReadyInv, Unstopped, Ended, signalVars, Serving
    <3>3. \A t \in Scripts : step'[t] \in Early => t = s
      BY <1>0, <2>1 DEF Early
    <3>4. \A t \in Scripts : step'[t] \in Early => Unstopped(pid[t])'
      BY <2>1, <3>1, <3>3 DEF Unstopped, Ended
    <3>5. \A t \in Scripts : step'[t] # "start_write"
      BY <2>1, <3>3 DEF Early
    <3> QED BY <1>2, <3>2, <3>4, <3>5 DEF ReadyInv, Early
  <2>9. orphaned' = {} => PathInv'
    BY <1>0, <1>2, StartPath DEF LifecycleInv
  <2> QED BY <2>2, <2>3, <2>4, <2>5, <2>6, <2>7, <2>8, <2>9 DEF LifecycleInv
<1> QED BY ZenonT(30), <1>1, <1>2 DEF StartLaunch

\* start waits for READY, looks at the process and writes the PID file, or
\* gives up once the process has ended.
LEMMA AwaitInv ==
    ASSUME LifecycleInv, NEW s \in Scripts,
           StartPoll(s) \/ StartCheck(s) \/ StartWait(s) \/ StartWrite(s)
    PROVE  LifecycleInv'
<1> USE DEF LockSteps, StartSteps, StopSteps
<1>0. /\ UNCHANGED <<vars, log, process, orphaned>>
      /\ step[s] \in {"start_poll", "start_check", "start_wait", "start_write"}
      /\ Starting(s) /\ pid_file = Nobody /\ lock = s
  BY ZenonT(30) DEF StartPoll, StartCheck, StartWait, StartWrite, Quiet, Starting, LifecycleInv, FileInv,
     FileGone, LockInv
<1>1. PICK x \in Daemons : x = pid[s] /\ at[x] # "new"
  BY <1>0, KnownDaemon DEF StartingSteps
<1>2. UNCHANGED <<at, server_fd_for_signal>>
  BY <1>0 DEF vars, signalVars
<1>3. CASE Exit(s, "failed") /\ Ended(x) /\ UNCHANGED pid_file
  <2>1. Remembers(s, "failed", Nobody)
    BY ZenonT(30), <1>0, <1>1, <1>3, Unforgetting DEF Alive
  <2> QED BY <1>0, <1>3, <2>1, ExitMoves, QuietMoves
<1>4. ASSUME NEW label \in {"start_check", "start_kill", "start_write"}, To(s, label),
             UNCHANGED pid_file, label = "start_check" => step[s] = "start_poll",
             label = "start_write" => step[s] = "start_check" /\ log /\ Alive(x)
      PROVE  LifecycleInv'
  <2>1. Moves(s, label, x)
    BY ZenonT(30), <1>0, <1>1, <1>4, ToMoves
  <2>2. Remembers(s, label, x)
    BY ZenonT(30), <1>0, <1>1, <1>4, Unforgetting DEF StartingSteps
  <2>3. label = "start_write" /\ orphaned = {} => server_fd_for_signal[x]
    <3>1. orphaned = {} /\ log => at[x] \notin Before
      BY ZenonT(30), <1>0, <1>1 DEF LifecycleInv, ReadyInv, Before
    <3>2. step[s] = "start_check" => Unstopped(x)
      BY <1>1 DEF LifecycleInv, ReadyInv
    <3>3. label = "start_write" /\ orphaned = {} => at[x] \in Serving
      BY <1>4, <3>1, <3>2
         DEF LifecycleInv, TypeOK, Labels, Unstopped, Before, Serving, Alive, Ended
    <3> QED BY ZenonT(30), <3>3 DEF LifecycleInv, ReadyInv
  <2>4. Arrives(s, label, x)
    BY <1>0, <1>1, <1>2, <1>4, <2>3 DEF Arrives, HasRead, FileGone, StartingSteps, Early
  <2> QED BY <1>0, <1>4, <2>1, <2>2, <2>4, QuietMoves DEF Steps
<1>5. CASE StartPoll(s)
  BY ZenonT(30), <1>1, <1>3, <1>4, <1>5, Identity DEF StartPoll
<1>6. CASE StartCheck(s)
  <2>1. process_matches_qcpud(x) => Alive(x)
    BY <1>1, Identity
  <2>2. CASE path # Nobody /\ log /\ process_matches_qcpud(pid[s])
    BY <1>1, <1>4, <1>6, <2>1, <2>2 DEF StartCheck
  <2>3. CASE ~(path # Nobody /\ log /\ process_matches_qcpud(pid[s]))
    BY <1>4, <1>6, <2>3 DEF StartCheck
  <2> QED BY <2>2, <2>3
<1>7. CASE StartWait(s)
  BY <1>1, <1>3, <1>7 DEF StartWait
<1>8. CASE StartWrite(s)
  <2>1. Exit(s, "passed") /\ pid_file' = x
    BY <1>1, <1>8 DEF StartWrite
  <2>2. Remembers(s, "passed", Nobody)
    BY <1>0, <1>1, <2>1, DaemonAssumption DEF Remembers, LifecycleInv, ScriptType
  <2> QED BY <1>0, <2>1, <2>2, ExitMoves, QuietMoves
<1> QED BY <1>5, <1>6, <1>7, <1>8

\* kill -TERM by the command that holds the lock.
LEMMA KillInv ==
    ASSUME LifecycleInv, NEW s \in Scripts, StartKill(s) \/ StopKill(s)
    PROVE  LifecycleInv'
<1> USE DEF LockSteps, StartSteps, StopSteps
<1>0. /\ UNCHANGED <<log, process, orphaned, pid_file>> /\ Term(pid[s])
      /\ step[s] \in {"start_kill", "stop_kill"} /\ lock = s
  BY ZenonT(30) DEF StartKill, StopKill, LifecycleInv, LockInv
<1>1. PICK x \in Daemons : x = pid[s]
  BY <1>0, KnownDaemon DEF StartingSteps, HasRead
<1>2. Evolves /\ TypeOK' /\ (orphaned' = {} => PathInv')
  BY <1>0, <1>1, TermEvolves DEF LifecycleInv
<1>3. CASE StartKill(s)
  <2>1. Moves(s, "start_wait", x)
    BY <1>1, <1>3, ToMoves DEF StartKill
  <2>2. Remembers(s, "start_wait", x)
    BY <1>0, <1>1, Unforgetting DEF StartingSteps
  <2>3. pid_file = Nobody /\ Starting(s)
    BY <1>3 DEF StartKill, LifecycleInv, FileInv, FileGone, Starting
  <2>4. Arrives(s, "start_wait", x)
    BY ZenonT(30), <1>0, <1>1, <2>3 DEF Arrives, HasRead, FileGone, StartingSteps, Early
  <2> QED BY <1>0, <1>2, <2>1, <2>2, <2>4, ScriptMoves DEF Steps, Early
<1>4. CASE StopKill(s)
  <2>0. ~Starting(s)
    BY ZenonT(30), <1>4 DEF StopKill, Starting
  <2>1. \A label, y : Remembers(s, label, y)
    BY <1>0, <2>0, Unforgetting
  <2>2. CASE To(s, "stop_poll")
    <3>1. Moves(s, "stop_poll", x)
      BY <1>0, <1>1, <2>2, ToMoves
    <3>2. pid_file \in {x, Nobody}
      BY <1>1, <1>4 DEF StopKill, LifecycleInv, FileInv, HasRead
    <3>3. Arrives(s, "stop_poll", x)
      BY ZenonT(30), <1>0, <1>1, <3>2 DEF Arrives, HasRead, FileGone, StartingSteps, Early
    <3> QED BY <1>0, <1>2, <2>1, <3>1, <3>3, ScriptMoves DEF Steps, Early
  <2>3. CASE Exit(s, "failed")
    BY ZenonT(30), <1>0, <1>2, <2>1, <2>3, ExitMoves, ScriptMoves DEF Early
  <2> QED BY ZenonT(30), <1>4, <2>2, <2>3 DEF StopKill
<1> QED BY <1>0, <1>3, <1>4

\* status and run-ghz, which hold no lock: what they lose is counted.
LEMMA StatusInv ==
    ASSUME LifecycleInv, NEW s \in Scripts, StatusPid(s) \/ StatusMatch(s) \/ StatusUnpid(s)
    PROVE  LifecycleInv'
<1> USE DEF LockSteps, StartSteps, StopSteps
<1>0. /\ UNCHANGED <<vars, log, process>>
      /\ step[s] \in {"status", "status_match", "status_unpid"} /\ ~Starting(s) /\ lock # s
  BY DEF StatusPid, StatusMatch, StatusUnpid, Quiet, RemovePidFile, Starting, LifecycleInv, LockInv
<1>1. CASE StatusPid(s) \/ StatusMatch(s)
  <2>0. UNCHANGED <<pid_file, orphaned>>
    BY <1>1 DEF StatusPid, StatusMatch, Quiet
  <2>1. \A label, x : Remembers(s, label, x)
    BY ZenonT(30), <1>0, <2>0, Unforgetting
  <2>2. CASE Exit(s, "passed") \/ Exit(s, "failed")
    BY <1>0, <2>1, <2>2, ExitMoves, QuietMoves
  <2>3. ASSUME NEW label \in {"status_match", "status_unpid"}, NEW x \in Daemons,
               Moves(s, label, x)
        PROVE  LifecycleInv'
    <3>1. Arrives(s, label, x)
      BY ZenonT(30) DEF Arrives, HasRead, FileGone, StartingSteps, Early
    <3> QED BY <1>0, <2>1, <2>3, <3>1, QuietMoves DEF Steps, StatusSteps
  <2>4. CASE To(s, "status_unpid") /\ step[s] = "status_match"
    <3>1. PICK x \in Daemons : x = pid[s]
      BY <2>4, KnownDaemon
    <3> QED BY <2>3, <2>4, <3>1, ToMoves
  <2>5. CASE /\ pid_file # Nobody /\ Goes(s, "status_match")
             /\ pid' = [pid EXCEPT ![s] = pid_file]
    <3>1. PICK x \in Daemons : x = pid_file
      BY <2>5 DEF LifecycleInv, ScriptType
    <3>2. Moves(s, "status_match", x)
      BY <1>0, <2>5, <3>1 DEF Moves, Goes
    <3> QED BY <2>3, <3>2
  <2> QED BY <1>1, <2>2, <2>4, <2>5 DEF StatusPid, StatusMatch
<1>2. CASE StatusUnpid(s)
  <2>1. /\ pid_file' = Nobody /\ Exit(s, "failed")
        /\ orphaned' = orphaned \cup {d \in Daemons : Alive(d) /\ pid_file = d}
    BY <1>2 DEF StatusUnpid, RemovePidFile
  <2>2. Remembers(s, "failed", Nobody)
    BY <1>0, <2>1 DEF Remembers, LifecycleInv, ScriptType
  <2> QED BY <1>0, <2>1, <2>2, ExitMoves, QuietMoves
<1> QED BY <1>1, <1>2

\* A script that is killed.
LEMMA ScriptDiesInv ==
    ASSUME LifecycleInv, NEW s \in Scripts, ScriptDies(s)
    PROVE  LifecycleInv'
<1>1. Remembers(s, "failed", Nobody)
  BY DEF ScriptDies, Remembers, Starting, LifecycleInv, ScriptType
<1> QED BY <1>1, ExitMoves, QuietMoves DEF ScriptDies

-----------------------------------------------------------------------------
(* A step of a daemon.                                                     *)

\* A step of the daemons that no script takes part in preserves the invariant.
LEMMA DaemonMoves ==
    ASSUME LifecycleInv, Evolves, \A e \in Daemons : Kept(e), TypeOK',
           PathInv => PathInv', UNCHANGED <<scriptVars, orphaned>>,
           process' \in [Daemons -> {"own", "gone", "foreign"}],
           \A d \in Daemons : process'[d] # "own" => Ended(d)',
           log' \in BOOLEAN,
           log' => log \/ \E d \in Daemons : Alive(d) /\ at'[d] \notin Before
    PROVE  LifecycleInv'
<1>0. UNCHANGED <<step, pid, lock, pid_file, orphaned>>
  BY DEF scriptVars
<1>1. ScriptType' /\ LockInv'
  BY <1>0 DEF LifecycleInv, ScriptType, LockInv
<1>2. ProcessInv'
  BY <1>0 DEF LifecycleInv, ProcessInv, Evolves
<1>3. FileInv'
  <2>1. \A t \in Scripts : step[t] \in {"start_unpid", "stop_unpid"} => pid[t] \in Daemons
    BY DEF LifecycleInv, FileInv, HasRead
  <2>2. \A t \in Scripts : step'[t] \in {"start_unpid", "stop_unpid"} => Ended(pid[t])'
    BY ZenonT(30), <1>0, <2>1 DEF LifecycleInv, FileInv, Evolves, Ended
  <2> QED BY <1>0, <2>2 DEF LifecycleInv, FileInv, Starting
<1>4. KnownInv'
  BY ZenonT(30), <1>0 DEF LifecycleInv, KnownInv, Starting, Evolves
<1>5. ReadyInv'
  <2>1. ASSUME NEW d \in Daemons
        PROVE  /\ ~once'[d]
               /\ at'[d] = "new" => Unstopped(d)'
               /\ at'[d] \in Serving => server_fd_for_signal'[d]
    BY ZenonT(30) DEF LifecycleInv, ReadyInv, Evolves
  <2>2. ASSUME NEW t \in Scripts, step'[t] \in Early
        PROVE  /\ Unstopped(pid[t])'
               /\ orphaned' = {} /\ step'[t] = "start_write"
                    => Ended(pid[t])' \/ server_fd_for_signal'[pid'[t]]
    <3>1. PICK d \in Daemons : d = pid[t] /\ d = pid'[t]
      BY ZenonT(30), <1>0, <2>2 DEF LifecycleInv, FileInv, Starting, Early
    <3>2. /\ Unstopped(d)
          /\ orphaned = {} /\ step[t] = "start_write" => Ended(d) \/ server_fd_for_signal[d]
      BY ZenonT(30), <1>0, <2>2, <3>1 DEF LifecycleInv, ReadyInv, Early
    <3>3. /\ Unstopped(d)'
          /\ orphaned = {} /\ step[t] = "start_write" => Ended(d)' \/ server_fd_for_signal'[d]
      BY <3>2 DEF Kept
    <3> QED BY ZenonT(30), <1>0, <3>1, <3>3 DEF Unstopped, Ended
  <2>3. ASSUME NEW t \in Scripts, orphaned' = {}, Starting(t)', log'
        PROVE  at'[pid'[t]] \notin Before
    <3>1. /\ orphaned = {} /\ Starting(t) /\ pid'[t] = pid[t] /\ pid[t] \in Daemons
          /\ pid_file = Nobody /\ lock = t
      BY ZenonT(30), <1>0, <2>3 DEF Starting, LifecycleInv, FileInv, FileGone, LockInv, StartSteps
    <3>2. CASE log
      BY ZenonT(30), <3>1, <3>2 DEF LifecycleInv, ReadyInv, Evolves, Before
    <3>3. ASSUME NEW d \in Daemons, Alive(d), at'[d] \notin Before
          PROVE  at'[pid'[t]] \notin Before
      <4>1. PICK u \in Scripts : Starting(u) /\ pid[u] = d
        BY ZenonT(30), <3>1, <3>3, DaemonAssumption DEF LifecycleInv, KnownInv
      <4>2. lock = u
        BY ZenonT(30), <4>1 DEF LifecycleInv, LockInv, Starting, StartSteps
      <4> QED BY ZenonT(30), <3>1, <3>3, <4>1, <4>2
    <3> QED BY <2>3, <3>2, <3>3
  <2> QED BY ZenonT(30), <2>1, <2>2, <2>3 DEF ReadyInv, Early, Before
<1> QED BY <1>0, <1>1, <1>2, <1>3, <1>4, <1>5 DEF LifecycleInv

\* main(), its failures and crashes preserve the invariant.
LEMMA DaemonRunsInv ==
    ASSUME LifecycleInv, NEW d \in Daemons, DaemonRuns(d)
    PROVE  LifecycleInv'
<1>0. UNCHANGED <<scriptVars, process, orphaned>> /\ TypeOK
  BY DEF DaemonRuns, LifecycleInv
<1>1. ASSUME Evolves, \A e \in Daemons : Kept(e), TypeOK', PathInv => PathInv',
             log' \in BOOLEAN, log' => log \/ (Alive(d) /\ at'[d] \notin Before)
      PROVE  LifecycleInv'
  <2>1. \A e \in Daemons : process'[e] # "own" => Ended(e)'
    BY ZenonT(30), <1>0, <1>1 DEF LifecycleInv, ProcessInv, Evolves
  <2>2. process' \in [Daemons -> {"own", "gone", "foreign"}]
    BY <1>0 DEF LifecycleInv, ScriptType
  <2>3. log' => log \/ \E e \in Daemons : Alive(e) /\ at'[e] \notin Before
    BY <1>1
  <2> QED BY <1>0, <1>1, <2>1, <2>2, <2>3, DaemonMoves
<1>2. log \in BOOLEAN
  BY DEF LifecycleInv, ScriptType
<1>3. CASE DaemonStep(d) /\ log' = (log \/ at[d] = "ready")
  <2>1. Alive(d) /\ Evolves /\ \A e \in Daemons : Kept(e)
    BY <1>3, DaemonStepKept
  <2>2. TypeOK' /\ (PathInv => PathInv')
    BY <1>0, <1>3, DaemonStepType, DaemonStepPath
  <2>3. at[d] = "ready" => at'[d] = "accept"
    <3>1. at[d] = "ready" => Ready(d)
      BY ZenonT(30), <1>3 DEF DaemonStep, install_signal_handlers, Lstat, UnlinkStale,
         StartFails, Bind, Chmod, Listen, SetupFails, Ready, accept, AcceptStopped,
         ReadRequest, ReadFails, WriteResponse, AfterServed, AfterFailed, OnceFailed,
         CloseServer, CloseFails, Unlink
    <3> QED BY <1>0, <3>1 DEF Ready, Goto, TypeOK
  <2> QED BY <1>1, <1>2, <1>3, <2>1, <2>2, <2>3 DEF Before
<1>4. CASE AcceptFails(d) /\ UNCHANGED log
  <2>1. Evolves /\ \A e \in Daemons : Kept(e)
    BY <1>4, DaemonStepKept
  <2>2. TypeOK' /\ (PathInv => PathInv')
    BY <1>0, <1>4, DaemonStepType, DaemonStepPath
  <2> QED BY <1>1, <1>2, <1>4, <2>1, <2>2
<1>5. CASE Crash(d) /\ UNCHANGED log
  <2>1. Evolves /\ \A e \in Daemons : Kept(e)
    BY <1>5, DieEvolves DEF Crash
  <2>2. TypeOK' /\ (PathInv => PathInv')
    BY <1>0, <1>5, DieType, KilledPath DEF Crash
  <2> QED BY <1>1, <1>2, <1>5, <2>1, <2>2
<1> QED BY <1>3, <1>4, <1>5 DEF DaemonRuns

\* An identifier is given away and used again.
LEMMA ReapInv ==
    ASSUME LifecycleInv, NEW d \in Daemons, Reap(d)
    PROVE  LifecycleInv'
<1>0. /\ Ended(d) /\ UNCHANGED <<at, once, socketVars, path, sent, scriptVars, log, orphaned>>
      /\ stop_requested' = [stop_requested EXCEPT ![d] = FALSE]
      /\ server_fd_for_signal' = [server_fd_for_signal EXCEPT ![d] = FALSE]
      /\ process' = [process EXCEPT ![d] = IF @ = "gone" THEN "foreign" ELSE "gone"]
  BY DEF Reap
<1>1. TypeOK'
  BY <1>0 DEF LifecycleInv, TypeOK, socketVars
<1>2. PathInv => PathInv'
  BY <1>0 DEF PathInv, Alive, Ended
<1>3. /\ UNCHANGED <<at, once, listener>>
      /\ \A e \in Daemons : e # d => /\ stop_requested'[e] = stop_requested[e]
                                     /\ server_fd_for_signal'[e] = server_fd_for_signal[e]
      /\ stop_requested'[d] = FALSE
  BY <1>0 DEF LifecycleInv, TypeOK, socketVars
<1>4. Evolves /\ \A e \in Daemons : Kept(e)
  BY ZenonT(30), <1>0, <1>3 DEF LifecycleInv, ReadyInv, Evolves, Kept, Unstopped, Alive, Ended, Serving
<1>5. process' \in [Daemons -> {"own", "gone", "foreign"}]
  BY <1>0 DEF LifecycleInv, ScriptType
<1>6. \A e \in Daemons : process'[e] # "own" => Ended(e)'
  BY <1>0 DEF LifecycleInv, ScriptType, ProcessInv, Ended
<1>7. log' \in BOOLEAN /\ (log' => log)
  BY <1>0 DEF LifecycleInv, ScriptType
<1> QED BY <1>0, <1>1, <1>2, <1>4, <1>5, <1>6, <1>7, DaemonMoves

-----------------------------------------------------------------------------
(* The theorems.                                                           *)

\* Before the first command there is no daemon, no file and no lock.
LEMMA LifecycleInitInv == LifecycleInit => LifecycleInv
<1> SUFFICES ASSUME LifecycleInit PROVE LifecycleInv
  OBVIOUS
<1> USE DEF LifecycleInit
<1>1. TypeOK
  BY DaemonAssumption DEF Init, TypeOK, Labels
<1>2. ScriptType /\ LockInv
  BY ZenonT(30), LifecycleAssumption DEF ScriptType, LockInv, StartSteps, StopSteps
<1>3. ProcessInv /\ FileInv
  BY DaemonAssumption DEF ProcessInv, FileInv, HasRead, FileGone, Starting
<1>4. KnownInv /\ ReadyInv
  BY DEF Init, KnownInv, ReadyInv, Alive, Unstopped, Starting, Serving
<1>5. PathInv
  BY DaemonAssumption DEF Init, PathInv, Alive, HasPath
<1> QED BY <1>1, <1>2, <1>3, <1>4, <1>5 DEF LifecycleInv

\* Every step of a script or of a daemon preserves the invariant.
LEMMA LifecycleNextInv == LifecycleInv /\ [LifecycleNext]_lifecycleVars => LifecycleInv'
<1> SUFFICES ASSUME LifecycleInv, [LifecycleNext]_lifecycleVars PROVE LifecycleInv'
  OBVIOUS
<1>1. ASSUME NEW s \in Scripts, ScriptStep(s) PROVE LifecycleInv'
  BY <1>1, ReadPidInv, MatchInv, UnpidInv, SocketInv, LaunchInv, AwaitInv, KillInv, StatusInv
     DEF ScriptStep
<1>2. CASE UNCHANGED lifecycleVars
  <2>1. UNCHANGED <<vars, scriptVars, log, process, orphaned>>
    BY <1>2 DEF lifecycleVars
  <2>2. TypeOK'
    BY <2>1, NextType DEF LifecycleInv
  <2>3. UNCHANGED <<at, once, signalVars, listener, path>>
    BY <2>1 DEF vars, socketVars
  <2>4. PathInv => PathInv'
    BY <2>3 DEF PathInv, Alive, Ended
  <2>5. /\ process' \in [Daemons -> {"own", "gone", "foreign"}] /\ log' \in BOOLEAN
        /\ \A d \in Daemons : process'[d] # "own" => Ended(d)'
    BY <2>1, <2>3 DEF LifecycleInv, ScriptType, ProcessInv, Ended
  <2> QED BY <2>1, <2>2, <2>3, <2>4, <2>5, SameEvolves, DaemonMoves
<1> QED BY <1>1, <1>2, BeginInv, ScriptDiesInv, DaemonRunsInv, ReapInv DEF LifecycleNext

\* The inductive invariant of the lifecycle script holds of every state.
THEOREM LifecycleInvariance == LifecycleSpec => []LifecycleInv
<1>1. LifecycleSpec => LifecycleInit /\ [][LifecycleNext]_lifecycleVars
  BY PTL DEF LifecycleSpec
<1> QED BY <1>1, LifecycleInitInv, LifecycleNextInv, PTL

\* start_daemon and stop_daemon lose no daemon, and never run two, through
\* failed starts and stops, crashes and identifiers that are used again.
THEOREM RunningIsRecordedHolds == LifecycleSpec => []RunningIsRecorded
<1>1. LifecycleInv => RunningIsRecorded
  <2> SUFFICES ASSUME LifecycleInv PROVE RunningIsRecorded
    OBVIOUS
  <2>1. \A s \in Scripts : Starting(s) => lock = s /\ pid_file = Nobody
    BY DEF Starting, LifecycleInv, LockInv, StartSteps, FileInv, FileGone
  <2>2. \A d \in Daemons : Alive(d) =>
          d \in orphaned \/ pid_file = d \/ \E s \in Scripts : Starting(s) /\ pid[s] = d /\ lock = s
    BY <2>1 DEF LifecycleInv, KnownInv
  <2>3. orphaned = {} => \A d, e \in Daemons : Alive(d) /\ Alive(e) => d = e
    BY DEF LifecycleInv, PathInv
  <2> QED BY <2>2, <2>3 DEF RunningIsRecorded
<1> QED BY <1>1, LifecycleInvariance, PTL

\* The rm -f "$SOCKET_PATH" of start and stop never takes the socket of a
\* daemon that serves.
THEOREM ServedPathKeptHolds == LifecycleSpec => []ServedPathKept
<1>1. LifecycleInv => ServedPathKept
  BY DEF LifecycleInv, PathInv, HasPath, ServedPathKept
<1> QED BY <1>1, LifecycleInvariance, PTL

\* Which step of a script a change of its verdict is.
LEMMA StepsOf ==
    ASSUME LifecycleInv, LifecycleNext, NEW s \in Scripts,
           step[s] \in {"stop_socket", "start_write"}, step'[s] = "passed"
    PROVE  \/ step[s] = "stop_socket" /\ StopSocket(s)
           \/ step[s] = "start_write" /\ StartWrite(s)
<1>0. step \in [Scripts -> Steps]
  BY DEF LifecycleInv, ScriptType, Steps, LockSteps
<1>1. step' # step
  OBVIOUS
<1>2. PICK t \in Scripts :
        \/ with_lifecycle_lock(t, "start") \/ with_lifecycle_lock(t, "stop")
        \/ WithoutLock(t, "status") \/ ScriptStep(t) \/ ScriptDies(t)
  BY <1>1 DEF LifecycleNext, DaemonRuns, Reap, scriptVars
<1>3. PICK label : step' = [step EXCEPT ![t] = label]
  BY ZenonT(30), <1>2 DEF with_lifecycle_lock, WithoutLock, ScriptStep, ScriptDies, To, Goes, Exit, ReadPid,
     StartPid, StartMatch, StartUnpid, StartSocket, StartLaunch, StartPoll, StartCheck, StartKill,
     StartWait, StartWrite, StopPid, StopMatch, StopKill, StopPoll, StopUnpid, StopSocket,
     StatusPid, StatusMatch, StatusUnpid
<1>4. t = s /\ label = "passed"
  BY <1>0, <1>3
<1>5. CASE \/ with_lifecycle_lock(s, "start") \/ with_lifecycle_lock(s, "stop")
           \/ WithoutLock(s, "status")
  BY <1>5 DEF with_lifecycle_lock, WithoutLock, MayBegin, Idle
<1>6. CASE ScriptDies(s)
  BY <1>0, <1>6 DEF ScriptDies, Exit
<1>7. CASE ScriptStep(s)
  <2>1. ~StartPid(s) /\ ~StartMatch(s) /\ ~StartUnpid(s) /\ ~StartSocket(s) /\ ~StartLaunch(s)
    BY ZenonT(30) DEF StartPid, StartMatch, StartUnpid, StartSocket, StartLaunch
  <2>2. ~StartPoll(s) /\ ~StartCheck(s) /\ ~StartKill(s) /\ ~StartWait(s)
    BY ZenonT(30) DEF StartPoll, StartCheck, StartKill, StartWait
  <2>3. ~StopPid(s) /\ ~StopMatch(s) /\ ~StopKill(s) /\ ~StopPoll(s) /\ ~StopUnpid(s)
    BY DEF StopPid, StopMatch, StopKill, StopPoll, StopUnpid
  <2>4. ~StatusPid(s) /\ ~StatusMatch(s) /\ ~StatusUnpid(s)
    BY DEF StatusPid, StatusMatch, StatusUnpid
  <2>5. StopSocket(s) \/ StartWrite(s)
    BY ZenonT(30), <1>7, <2>1, <2>2, <2>3, <2>4 DEF ScriptStep
  <2>6. StopSocket(s) => step[s] = "stop_socket"
    BY DEF StopSocket
  <2>7. StartWrite(s) => step[s] = "start_write"
    BY DEF StartWrite
  <2> QED BY <2>5, <2>6, <2>7
<1> QED BY <1>2, <1>4, <1>5, <1>6, <1>7

\* stop reports success only when no daemon, PID file and socket is left, and
\* start only for a daemon that has announced READY.
THEOREM VerdictsTrueHold == LifecycleSpec => VerdictsTrue
<1>1. ASSUME LifecycleInv, LifecycleNext, orphaned = {}, NEW s \in Scripts,
             step[s] = "stop_socket", step'[s] = "passed"
      PROVE  pid_file' = Nobody /\ path' = Nobody /\ \A d \in Daemons : ~Alive(d)'
  <2>1. StopSocket(s)
    BY <1>1, StepsOf
  <2>2. pid_file = Nobody /\ \A d \in Daemons : ~Alive(d)
    BY <1>1, NoneRuns
  <2> QED BY <2>1, <2>2 DEF StopSocket, RemoveSocket, Alive, Ended
<1>2. ASSUME LifecycleInv, LifecycleNext, orphaned = {}, NEW s \in Scripts,
             step[s] = "start_write", step'[s] = "passed", NEW d \in Daemons, pid[s] = d
      PROVE  pid_file' = d /\ (Ended(d)' \/ server_fd_for_signal'[d])
  <2>1. StartWrite(s)
    BY <1>2, StepsOf
  <2>2. Ended(d) \/ server_fd_for_signal[d]
    BY <1>2 DEF LifecycleInv, ReadyInv
  <2> QED BY <1>2, <2>1, <2>2 DEF StartWrite, Quiet, vars, signalVars, Ended
<1>3. LifecycleInv /\ [LifecycleNext]_lifecycleVars =>
        [orphaned = {} => \A s \in Scripts :
           /\ step[s] = "stop_socket" /\ step'[s] = "passed" =>
                pid_file' = Nobody /\ path' = Nobody /\ \A d \in Daemons : ~Alive(d)'
           /\ step[s] = "start_write" /\ step'[s] = "passed" =>
                \A d \in Daemons : pid[s] = d =>
                  /\ pid_file' = d
                  /\ Ended(d)' \/ server_fd_for_signal'[d]]_lifecycleVars
  BY <1>1, <1>2
<1>4. LifecycleSpec => [][LifecycleNext]_lifecycleVars
  BY PTL DEF LifecycleSpec
<1> QED BY <1>3, <1>4, LifecycleInvariance, PTL DEF VerdictsTrue
=============================================================================
