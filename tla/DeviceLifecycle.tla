-------------------------- MODULE DeviceLifecycle ---------------------------
(***************************************************************************)
(* scripts/qcpu_device_lifecycle.sh around the daemon of Qcpud: start and  *)
(* stop under the lifecycle lock, status and run-ghz without it, the PID   *)
(* file, the log in which start looks for READY, process identifiers that  *)
(* the system gives to others, and scripts and daemons that die.           *)
(*                                                                         *)
(* A step of a script is one look at or one change of what others can see. *)
(* A process identifier is named after the daemon that had it first.       *)
(***************************************************************************)
EXTENDS Qcpud

CONSTANTS
    Scripts,        \* invocations of the script that may run at the same time
    FewAfterLoss    \* a bound: once a daemon has been lost, no start begins, and
                    \* the other commands begin one at a time

ASSUME LifecycleAssumption == Nobody \notin Scripts /\ FewAfterLoss \in BOOLEAN

VARIABLES
    step,       \* Scripts -> where the command is, or whether the last one passed
    pid,        \* Scripts -> its shell variable pid
    lock,       \* the invocation for which flock holds the lifecycle lock
    pid_file,   \* the daemon whose identifier is in the PID file
    log,        \* the log has "PASS: QCPUD_SOCKET_READY" since it was emptied
    process,    \* Daemons -> whose process the identifier names
    orphaned    \* daemons that run while no file or command knows of them

scriptVars == <<step, pid, lock, pid_file>>
lifecycleVars == <<vars, scriptVars, log, process, orphaned>>

LifecycleInit ==
    /\ Init /\ once = [d \in Daemons |-> FALSE]
    /\ step = [s \in Scripts |-> "failed"]
    /\ pid = [s \in Scripts |-> Nobody]
    /\ lock = Nobody
    /\ pid_file = Nobody
    /\ log = FALSE
    /\ process = [d \in Daemons |-> "own"]
    /\ orphaned = {}

\* kill -0; a process that ended is a zombie until it is waited for.
kill0(d) == process[d] = "foreign" \/ (process[d] = "own" /\ at[d] # "new")
process_is_zombie(d) == process[d] = "own" /\ Ended(d)
process_matches_qcpud(d) == process[d] = "own" /\ Alive(d)
Running(d) == kill0(d) /\ ~process_is_zombie(d)

-----------------------------------------------------------------------------
(* Building blocks of a script step.                                       *)

Idle(s) == step[s] \in {"passed", "failed"}

Goes(s, label) == step' = [step EXCEPT ![s] = label] /\ UNCHANGED lock
To(s, label) == Goes(s, label) /\ UNCHANGED pid

\* The script exits, and flock, which waited for it, gives the lock up.
Exit(s, outcome) ==
    /\ step' = [step EXCEPT ![s] = outcome]
    /\ pid' = [pid EXCEPT ![s] = Nobody]
    /\ lock' = IF lock = s THEN Nobody ELSE lock

Quiet == UNCHANGED <<vars, log, process, orphaned>>

\* rm -f "$SOCKET_PATH"
RemoveSocket ==
    /\ path' = Nobody
    /\ UNCHANGED <<at, once, signalVars, socketVars, sent, log, process, orphaned>>

\* read_pid
ReadPid(s, absent, present) ==
    /\ pid' = [pid EXCEPT ![s] = pid_file]
    /\ Goes(s, IF pid_file = Nobody THEN absent ELSE present)
    /\ Quiet /\ UNCHANGED pid_file

\* rm -f "$PID_FILE"
RemovePidFile == pid_file' = Nobody /\ UNCHANGED <<vars, log, process>>

-----------------------------------------------------------------------------
(* with_lifecycle_lock: flock -o -w 15, so a waiting command gives up.     *)

MayBegin(s, command) ==
    /\ Idle(s)
    /\ FewAfterLoss /\ orphaned # {} => command # "start" /\ \A t \in Scripts : Idle(t)

WithoutLock(s, command) ==
    /\ MayBegin(s, command)
    /\ To(s, command)
    /\ Quiet /\ UNCHANGED pid_file

with_lifecycle_lock(s, command) ==
    /\ MayBegin(s, command)
    /\ \/ /\ lock = Nobody
          /\ lock' = s
          /\ step' = [step EXCEPT ![s] = command]
          /\ UNCHANGED pid
       \/ lock # Nobody /\ Exit(s, "failed")
    /\ Quiet /\ UNCHANGED pid_file

-----------------------------------------------------------------------------
(* start_daemon.                                                           *)

StartPid(s) == step[s] = "start" /\ ReadPid(s, "start_socket", "start_match")

StartMatch(s) ==
    /\ step[s] = "start_match"
    /\ \/ process_matches_qcpud(pid[s]) /\ Exit(s, "passed")
       \/ ~process_matches_qcpud(pid[s]) /\ Running(pid[s]) /\ Exit(s, "failed")
       \/ ~Running(pid[s]) /\ To(s, "start_unpid")
    /\ Quiet /\ UNCHANGED pid_file

StartUnpid(s) ==
    /\ step[s] = "start_unpid"
    /\ RemovePidFile /\ UNCHANGED orphaned
    /\ To(s, "start_socket")

StartSocket(s) ==
    /\ step[s] = "start_socket"
    /\ RemoveSocket
    /\ To(s, "start_launch") /\ UNCHANGED pid_file

\* build_device, the empty log and nohup ... &; a failed build ends the script.
StartLaunch(s) ==
    /\ step[s] = "start_launch"
    /\ \/ \E d \in Daemons :
            /\ Start(d)
            /\ pid' = [pid EXCEPT ![s] = d]
            /\ log' = FALSE
            /\ Goes(s, "start_poll")
            /\ UNCHANGED <<pid_file, process, orphaned>>
       \/ Exit(s, "failed") /\ Quiet /\ UNCHANGED pid_file

\* The loop of 200 attempts, which may end without READY.
StartPoll(s) ==
    /\ step[s] = "start_poll"
    /\ \/ kill0(pid[s]) /\ To(s, "start_check")
       \/ ~kill0(pid[s]) /\ Exit(s, "failed")
    /\ Quiet /\ UNCHANGED pid_file

\* Mutant: the process is taken to be ready.
StartCheckTrusting(s) ==
    /\ step[s] = "start_check"
    /\ To(s, "start_write")
    /\ Quiet /\ UNCHANGED pid_file

\* READY, then the identity of the process.
StartCheck(s) ==
    /\ step[s] = "start_check"
    /\ To(s, IF path # Nobody /\ log /\ process_matches_qcpud(pid[s])
             THEN "start_write" ELSE "start_kill")
    /\ Quiet /\ UNCHANGED pid_file

\* kill -TERM; the identifier may name nobody, or somebody else.
Term(d) ==
    \/ Alive(d) /\ process[d] = "own" /\ handle_stop_signal(d)
    \/ ~(Alive(d) /\ process[d] = "own") /\ UNCHANGED vars

\* Mutant: the script does not wait for the daemon it gave up.
StartKillNoWait(s) ==
    /\ step[s] = "start_kill"
    /\ Term(pid[s])
    /\ Exit(s, "failed")
    /\ UNCHANGED <<pid_file, log, process, orphaned>>

\* Mutant: it waits without having sent the signal.
StartKillUnsent(s) ==
    /\ step[s] = "start_kill"
    /\ To(s, "start_wait")
    /\ Quiet /\ UNCHANGED pid_file

StartKill(s) ==
    /\ step[s] = "start_kill"
    /\ Term(pid[s])
    /\ To(s, "start_wait")
    /\ UNCHANGED <<pid_file, log, process, orphaned>>

\* wait has no time limit.
StartWait(s) ==
    /\ step[s] = "start_wait"
    /\ Ended(pid[s])
    /\ Exit(s, "failed")
    /\ Quiet /\ UNCHANGED pid_file

\* The temporary file and mv -f, which puts it in place at once.
StartWrite(s) ==
    /\ step[s] = "start_write"
    /\ pid_file' = pid[s]
    /\ Exit(s, "passed")
    /\ Quiet

-----------------------------------------------------------------------------
(* stop_daemon.                                                            *)

StopPid(s) == step[s] = "stop" /\ ReadPid(s, "stop_socket", "stop_match")

StopMatch(s) ==
    /\ step[s] = "stop_match"
    /\ \/ process_matches_qcpud(pid[s]) /\ To(s, "stop_kill")
       \/ ~process_matches_qcpud(pid[s]) /\ Running(pid[s]) /\ Exit(s, "failed")
       \/ ~Running(pid[s]) /\ To(s, "stop_unpid")
    /\ Quiet /\ UNCHANGED pid_file

\* kill fails when the process is gone, and set -e ends the script.
StopKill(s) ==
    /\ step[s] = "stop_kill"
    /\ Term(pid[s])
    /\ IF kill0(pid[s]) THEN To(s, "stop_poll") ELSE Exit(s, "failed")
    /\ UNCHANGED <<pid_file, log, process, orphaned>>

\* Mutant: the PID file is removed whether or not the daemon ended.
StopPollForgets(s) ==
    /\ step[s] = "stop_poll"
    /\ To(s, "stop_unpid")
    /\ Quiet /\ UNCHANGED pid_file

\* 100 attempts; the PID file stays when the daemon does not end in time.
StopPoll(s) ==
    /\ step[s] = "stop_poll"
    /\ \/ ~Running(pid[s]) /\ To(s, "stop_unpid")
       \/ Running(pid[s]) /\ Exit(s, "failed")
    /\ Quiet /\ UNCHANGED pid_file

StopUnpid(s) ==
    /\ step[s] = "stop_unpid"
    /\ RemovePidFile /\ UNCHANGED orphaned
    /\ To(s, "stop_socket")

StopSocket(s) ==
    /\ step[s] = "stop_socket"
    /\ RemoveSocket
    /\ Exit(s, "passed") /\ UNCHANGED pid_file

-----------------------------------------------------------------------------
(* status_daemon and run_ghz: require_running_pid, then the client.        *)

StatusPid(s) ==
    /\ step[s] = "status"
    /\ IF pid_file = Nobody
       THEN Exit(s, "failed")
       ELSE Goes(s, "status_match") /\ pid' = [pid EXCEPT ![s] = pid_file]
    /\ Quiet /\ UNCHANGED pid_file

StatusMatch(s) ==
    /\ step[s] = "status_match"
    /\ \/ process_matches_qcpud(pid[s]) /\ path # Nobody /\ Exit(s, "passed")
       \/ process_matches_qcpud(pid[s]) /\ path = Nobody /\ Exit(s, "failed")
       \/ ~process_matches_qcpud(pid[s]) /\ Running(pid[s]) /\ Exit(s, "failed")
       \/ ~Running(pid[s]) /\ To(s, "status_unpid")
    /\ Quiet /\ UNCHANGED pid_file

\* Without the lock: the file may by now name another daemon, which is lost.
StatusUnpid(s) ==
    /\ step[s] = "status_unpid"
    /\ RemovePidFile
    /\ orphaned' = orphaned \cup {d \in Daemons : Alive(d) /\ pid_file = d}
    /\ Exit(s, "failed")

-----------------------------------------------------------------------------
(* Processes.                                                              *)

\* The terminal or the system ends a script; a daemon it was starting is left
\* to itself.
ScriptDies(s) ==
    /\ ~Idle(s)
    /\ Exit(s, "failed")
    /\ orphaned' = orphaned \cup
         {d \in Daemons : Alive(d) /\ pid[s] = d /\ pid_file # d
                          /\ step[s] \in {"start_poll", "start_check", "start_kill",
                                          "start_wait", "start_write"}}
    /\ UNCHANGED <<vars, pid_file, log, process>>

\* An ended daemon is waited for, and what it knew is gone with it; later its
\* identifier is used again, and free again.
Reap(d) ==
    /\ Ended(d)
    /\ process' = [process EXCEPT ![d] = IF @ = "gone" THEN "foreign" ELSE "gone"]
    /\ stop_requested' = [stop_requested EXCEPT ![d] = FALSE]
    /\ server_fd_for_signal' = [server_fd_for_signal EXCEPT ![d] = FALSE]
    /\ UNCHANGED <<at, once, socketVars, path, sent, scriptVars, log, orphaned>>

\* The daemon's own steps; Ready is the one that writes to the log.
DaemonRuns(d) ==
    /\ \/ DaemonStep(d) /\ log' = (log \/ at[d] = "ready")
       \/ (AcceptFails(d) \/ Crash(d)) /\ UNCHANGED log
    /\ UNCHANGED <<scriptVars, process, orphaned>>

ScriptStep(s) ==
    \/ StartPid(s) \/ StartMatch(s) \/ StartUnpid(s) \/ StartSocket(s) \/ StartLaunch(s)
    \/ StartPoll(s) \/ StartCheck(s) \/ StartKill(s) \/ StartWait(s) \/ StartWrite(s)
    \/ StopPid(s) \/ StopMatch(s) \/ StopKill(s) \/ StopPoll(s) \/ StopUnpid(s) \/ StopSocket(s)
    \/ StatusPid(s) \/ StatusMatch(s) \/ StatusUnpid(s)

LifecycleNext ==
    \/ \E s \in Scripts :
         \/ with_lifecycle_lock(s, "start") \/ with_lifecycle_lock(s, "stop")
         \/ WithoutLock(s, "status") \/ ScriptStep(s) \/ ScriptDies(s)
    \/ \E d \in Daemons : DaemonRuns(d) \/ Reap(d)

LifecycleSpec ==
    /\ LifecycleInit /\ [][LifecycleNext]_lifecycleVars
    /\ \A s \in Scripts : WF_lifecycleVars(ScriptStep(s))
    /\ \A d \in Daemons : WF_lifecycleVars(DaemonStep(d) /\ DaemonRuns(d))
-----------------------------------------------------------------------------
(* Properties.                                                             *)

Starting(s) == step[s] \in {"start_poll", "start_check", "start_kill", "start_wait", "start_write"}

\* Every daemon that runs is named by the PID file or is being started by the
\* command that holds the lock, through failed starts, failed stops, crashes and
\* reused identifiers: only a status that removes a file it did not read, or a
\* start that is killed, loses one.  While none is lost, one daemon runs at most.
RunningIsRecorded ==
    /\ \A d \in Daemons : Alive(d) =>
         \/ d \in orphaned
         \/ pid_file = d
         \/ \E s \in Scripts : Starting(s) /\ pid[s] = d /\ lock = s
    /\ orphaned = {} => \A d, e \in Daemons : Alive(d) /\ Alive(e) => d = e

\* While none has been lost, a daemon that announced READY keeps the path: no
\* command removes the socket of a daemon that serves.
ServedPathKept ==
    orphaned = {} =>
      \A d \in Daemons : at[d] \in {"accept", "read", "write", "served", "failed"} => path = d

\* A stop that reports success leaves no daemon, no PID file and no socket; a
\* start that reports success leaves a daemon that has announced READY, unless
\* it died since.
VerdictsTrue ==
    [][orphaned = {} => \A s \in Scripts :
         /\ step[s] = "stop_socket" /\ step'[s] = "passed" =>
              pid_file' = Nobody /\ path' = Nobody /\ \A d \in Daemons : ~Alive(d)'
         /\ step[s] = "start_write" /\ step'[s] = "passed" =>
              \A d \in Daemons : pid[s] = d =>
                /\ pid_file' = d
                /\ Ended(d)' \/ server_fd_for_signal'[d]]_lifecycleVars

\* A stop signal that arrived before READY was noted and then forgotten.
StopForgotten(d) == stop_requested[d] /\ at[d] = "accept" /\ listener[d] = "listening"

\* Every command ends, a start that waits for the daemon it gave up included,
\* unless that daemon is one that forgot its stop signal.
CommandsEnd ==
    \A s \in Scripts :
        ~Idle(s) ~> (Idle(s) \/ \E d \in Daemons : StopForgotten(d))
=============================================================================
