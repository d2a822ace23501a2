------------------------------- MODULE Lifecycle -------------------------------
(***************************************************************************)
(* Starting, stopping, crashing and restarting the daemon: check_singleton *)
(* and daemon_init, daemon_cleanup (src/src/daemon.c), setup_ipc and       *)
(* cleanup_ipc (src/src/ipc.c), and the start, stop, restart, backup and   *)
(* transfer commands of init.d/report_daemon.  Each start makes an         *)
(* instance of its own.                                                    *)
(*                                                                         *)
(* The resources that outlive a process are the PID file, the FIFO's path, *)
(* the lock file and the modes of the directories; the last two are        *)
(* detailed in DirectoryLock and change together here.                     *)
(***************************************************************************)
EXTENDS FiniteSets

CONSTANTS
  Inst,         \* the daemons started, one after another: a bound
  NoInst,       \* no instance
  Empty,        \* content of a PID file between its truncation and the write
  Crashes,      \* SIGKILL, or the end of the process for another reason
  StopTimesOut, \* the 30 seconds of "stop" may pass
  Faults        \* what may fail in daemon_init(), and "chmod" anywhere

ASSUME LifecycleAssumption ==
  /\ NoInst \notin Inst /\ Empty \notin Inst /\ Empty # NoInst
  /\ Crashes \in BOOLEAN /\ StopTimesOut \in BOOLEAN
  /\ Faults \subseteq {"fork", "pid_file", "fifo", "chmod"}

VARIABLES
  stage,        \* where each instance is in main()
  daemon_exit,  \* SIGTERM has been handled by the instance
  pid_file,     \* NoInst, Empty, or the instance whose pid PID_FILE holds
  fifo_path,    \* NoInst, or the instance that made the FIFO at FIFO_PATH
  fifo_fd,      \* the FIFO each instance has open, named in the same way
  lock_file,    \* NoInst, or the instance that made LOCK_FILE
  locked,       \* the directories have LOCKED_PERMISSIONS
  chmod_failed, \* history: instances of which a chmod() has failed
  patient,      \* the administrator waits for a started daemon to be ready
  script        \* what the init script does

processVars == <<stage, daemon_exit>>
modeVars == <<locked, chmod_failed>>
fileVars == <<pid_file, fifo_path, fifo_fd, lock_file, modeVars>>
scriptVars == <<patient, script>>
lifecycleVars == <<processVars, fileVars, scriptVars>>

\* Up to "handlers" signals have their default action: they kill.
DefaultSignals == {"check_singleton", "fork", "truncate_pid", "write_pid", "handlers"}
Starting == DefaultSignals \cup {"make_fifo", "open_fifo", "permissions"}
Loop == {"loop", "rest"}              \* before, after the transfer's block
Window == {"transfer", "backup"}      \* inside one of the two blocks
Ready == Loop \cup Window
Stopping == {"unlink_pid", "unlink_fifo"}
Stage == {"unborn", "dead"} \cup Starting \cup Ready \cup Stopping

Alive(i) == stage[i] \in Starting \cup Ready \cup Stopping
Recorded == pid_file \in Inst /\ Alive(pid_file)

LifecycleInit ==
  /\ stage = [i \in Inst |-> "unborn"] /\ daemon_exit = [i \in Inst |-> FALSE]
  /\ pid_file = NoInst /\ fifo_path = NoInst /\ fifo_fd = [i \in Inst |-> NoInst]
  /\ lock_file = NoInst /\ locked = FALSE /\ chmod_failed = {}
  /\ patient \in BOOLEAN /\ script = [command |-> "idle", inst |-> NoInst]

Step(i, from, to) == stage[i] = from /\ stage' = [stage EXCEPT ![i] = to]
--------------------------------------------------------------------------------
(***************************************************************************)
(* daemon_init().                                                          *)
(***************************************************************************)
\* The file is opened, read and its pid probed with kill(pid, 0).  A file
\* that holds no number, or the pid of no process, does not count.
CheckSingleton(i) ==
  /\ IF Recorded THEN Step(i, "check_singleton", "dead")
                 ELSE Step(i, "check_singleton", "fork")
  /\ UNCHANGED <<daemon_exit, fileVars, scriptVars>>

\* fork(); the parent exits at once and with it the command of the script.
Fork(i) ==
  /\ \/ Step(i, "fork", "truncate_pid")
     \/ "fork" \in Faults /\ Step(i, "fork", "dead")
  /\ UNCHANGED <<daemon_exit, fileVars, scriptVars>>

\* create_pid_file(): fopen(PID_FILE, "w") truncates the file ...
TruncatePid(i) ==
  /\ \/ /\ Step(i, "truncate_pid", "write_pid")
        /\ pid_file' = Empty
     \/ /\ "pid_file" \in Faults /\ Step(i, "truncate_pid", "dead")
        /\ UNCHANGED pid_file
  /\ UNCHANGED <<daemon_exit, fifo_path, fifo_fd, lock_file, modeVars, scriptVars>>

\* Mutant: the file is not closed, so the pid stays in the buffer.
WritePidUnflushed(i) ==
  /\ Step(i, "write_pid", "handlers")
  /\ UNCHANGED <<daemon_exit, fileVars, scriptVars>>

\* Mutant: the pid written is that of the parent, which has exited.
WritePidOfParent(i) ==
  /\ Step(i, "write_pid", "handlers")
  /\ pid_file' = "parent"
  /\ UNCHANGED <<daemon_exit, fifo_path, fifo_fd, lock_file, modeVars, scriptVars>>

\* ... and fclose() writes the pid.
WritePid(i) ==
  /\ Step(i, "write_pid", "handlers")
  /\ pid_file' = i
  /\ UNCHANGED <<daemon_exit, fifo_path, fifo_fd, lock_file, modeVars, scriptVars>>

SetupSignalHandlers(i) ==
  /\ Step(i, "handlers", "make_fifo")
  /\ UNCHANGED <<daemon_exit, fileVars, scriptVars>>

\* setup_ipc(): "Create FIFO if it doesn't exist".  On failure main() returns
\* without daemon_cleanup(), so the PID file stays.
MakeFifo(i) ==
  /\ \/ /\ Step(i, "make_fifo", "open_fifo")
        /\ fifo_path' = IF fifo_path = NoInst THEN i ELSE fifo_path
     \/ /\ "fifo" \in Faults /\ Step(i, "make_fifo", "dead")
        /\ UNCHANGED fifo_path
  /\ UNCHANGED <<daemon_exit, pid_file, fifo_fd, lock_file, modeVars, scriptVars>>

\* Mutant: a local variable hides the static fifo_fd.
OpenFifoShadowed(i) ==
  /\ Step(i, "open_fifo", "permissions") /\ fifo_path # NoInst
  /\ UNCHANGED <<daemon_exit, fileVars, scriptVars>>

OpenFifo(i) ==
  /\ \/ /\ Step(i, "open_fifo", "permissions") /\ fifo_path # NoInst
        /\ fifo_fd' = [fifo_fd EXCEPT ![i] = fifo_path]
     \/ /\ "fifo" \in Faults \/ fifo_path = NoInst
        /\ Step(i, "open_fifo", "dead")
        /\ UNCHANGED fifo_fd
  /\ UNCHANGED <<daemon_exit, pid_file, fifo_path, lock_file, modeVars, scriptVars>>

\* Mutant: the initial permissions are not set.
SetInitialPermissionsSkipped(i) ==
  /\ Step(i, "permissions", "loop")
  /\ UNCHANGED <<daemon_exit, fileVars, scriptVars>>

\* chmod() on both directories, here and in unlock_directories(): a failure
\* has no consequence but that they stay as they are.
OpenDirectories(i) ==
  \/ locked' = FALSE /\ UNCHANGED chmod_failed
  \/ "chmod" \in Faults /\ chmod_failed' = chmod_failed \cup {i} /\ UNCHANGED locked

\* "Set initial directory permissions"; LOCK_FILE is left as it is.
SetInitialPermissions(i) ==
  /\ Step(i, "permissions", "loop")
  /\ OpenDirectories(i)
  /\ UNCHANGED <<daemon_exit, pid_file, fifo_path, fifo_fd, lock_file, scriptVars>>
--------------------------------------------------------------------------------
(***************************************************************************)
(* The main loop, reduced to its two blocks, and daemon_cleanup().  Only   *)
(* the top of the loop looks at daemon_exit.                               *)
(***************************************************************************)
\* The block of the scheduled or forced transfer, or that of the forced
\* backup, begins.
EnterWindow(i) ==
  /\ \/ Step(i, "loop", "transfer") /\ ~daemon_exit[i]
     \/ Step(i, "rest", "backup")
  /\ lock_file = NoInst
  /\ lock_file' = i /\ locked' = TRUE
  /\ UNCHANGED <<daemon_exit, pid_file, fifo_path, fifo_fd, chmod_failed, scriptVars>>

LeaveWindow(i) ==
  /\ Step(i, "transfer", "rest") \/ Step(i, "backup", "loop")
  /\ lock_file' = NoInst
  /\ OpenDirectories(i)
  /\ UNCHANGED <<daemon_exit, pid_file, fifo_path, fifo_fd, scriptVars>>

\* Nothing is due, or the directories could not be locked.
PassBlock(i) ==
  /\ \/ Step(i, "loop", "rest") /\ ~daemon_exit[i]
     \/ Step(i, "rest", "loop")
  /\ UNCHANGED <<daemon_exit, fileVars, scriptVars>>

ExitMainLoop(i) ==
  /\ daemon_exit[i] /\ Step(i, "loop", "unlink_pid")
  /\ UNCHANGED <<daemon_exit, fileVars, scriptVars>>

\* daemon_cleanup() unlinks both paths without asking whose they are.
UnlinkPid(i) ==
  /\ Step(i, "unlink_pid", "unlink_fifo")
  /\ pid_file' = NoInst
  /\ UNCHANGED <<daemon_exit, fifo_path, fifo_fd, lock_file, modeVars, scriptVars>>

\* cleanup_ipc(), then main() returns.
CleanupIpc(i) ==
  /\ Step(i, "unlink_fifo", "dead")
  /\ fifo_path' = NoInst
  /\ fifo_fd' = [fifo_fd EXCEPT ![i] = NoInst]
  /\ UNCHANGED <<daemon_exit, pid_file, lock_file, modeVars, scriptVars>>

InstanceStep(i) ==
  \/ CheckSingleton(i) \/ Fork(i) \/ TruncatePid(i) \/ WritePid(i)
  \/ SetupSignalHandlers(i) \/ MakeFifo(i) \/ OpenFifo(i)
  \/ SetInitialPermissions(i) \/ LeaveWindow(i) \/ PassBlock(i)
  \/ ExitMainLoop(i) \/ UnlinkPid(i) \/ CleanupIpc(i)

\* A process that dies takes its descriptors with it and nothing else.
Killed(S) ==
  /\ stage' = [i \in Inst |-> IF i \in S THEN "dead" ELSE stage[i]]
  /\ fifo_fd' = [i \in Inst |-> IF i \in S THEN NoInst ELSE fifo_fd[i]]

Crash(i) ==
  /\ Crashes /\ Alive(i)
  /\ Killed({i})
  /\ UNCHANGED <<daemon_exit, pid_file, fifo_path, lock_file, modeVars, scriptVars>>
--------------------------------------------------------------------------------
(***************************************************************************)
(* The init script, used by one administrator.                             *)
(***************************************************************************)
Run(command, i) == script' = [command |-> command, inst |-> i] /\ UNCHANGED patient
Idle == script.command \in {"idle", "stopped"}
StopCommands == {"stop", "restart"}
StopDone == {"stopped", "restarting"}

\* The next command is given: with a patient administrator, only when no
\* daemon is on its way up.
Command == Idle /\ (patient => \A i \in Inst : stage[i] \notin Starting)

\* start-stop-daemon --start finds a recorded daemon, or runs a new one.
DoStart ==
  /\ Command \/ script.command = "restarting"
  /\ \/ Recorded /\ Run("idle", NoInst) /\ UNCHANGED stage
     \/ ~Recorded /\ \E i \in Inst : /\ Step(i, "unborn", "check_singleton")
                                     /\ Run("start", i)
  /\ UNCHANGED <<daemon_exit, fileVars>>

\* The process that was started has exited; its child may still be starting.
StartReturns ==
  /\ script.command = "start" /\ stage[script.inst] \notin {"check_singleton", "fork"}
  /\ Run("idle", NoInst)
  /\ UNCHANGED <<processVars, fileVars>>

\* A signal for the recorded daemon.  Before setup_signal_handlers() it kills.
SignalRecorded(handled) ==
  IF Recorded /\ stage[pid_file] \in DefaultSignals
    THEN Killed({pid_file}) /\ UNCHANGED daemon_exit
    ELSE /\ UNCHANGED <<stage, fifo_fd>>
         /\ daemon_exit' = [i \in Inst |-> daemon_exit[i] \/ (handled /\ Recorded /\ i = pid_file)]

\* Mutant: the daemon is asked to stop with SIGHUP.
DoStopHangup ==
  /\ Command
  /\ SignalRecorded(FALSE)
  /\ \E command \in StopCommands : Run(command, IF Recorded THEN pid_file ELSE NoInst)
  /\ UNCHANGED <<pid_file, fifo_path, lock_file, modeVars>>

\* do_stop, for stop and for restart: SIGTERM to the recorded daemon, and a
\* wait of 30 seconds.
DoStop ==
  /\ Command
  /\ SignalRecorded(TRUE)
  /\ \E command \in StopCommands : Run(command, IF Recorded THEN pid_file ELSE NoInst)
  /\ UNCHANGED <<pid_file, fifo_path, lock_file, modeVars>>

\* "--retry=TERM/30/KILL/5".
StopKills ==
  /\ StopTimesOut
  /\ script.command \in StopCommands /\ script.inst # NoInst /\ Alive(script.inst)
  /\ Killed({script.inst})
  /\ UNCHANGED <<daemon_exit, pid_file, fifo_path, lock_file, modeVars, scriptVars>>

\* "Wait for children to finish too": every process that runs the executable
\* is killed in the end; then rm -f $PIDFILE.  A restart goes on with do_start.
StopRest ==
  /\ script.command \in StopCommands /\ (script.inst # NoInst => ~Alive(script.inst))
  /\ Killed({i \in Inst : Alive(i)})
  /\ pid_file' = NoInst
  /\ Run(IF script.command = "stop" THEN "stopped" ELSE "restarting", NoInst)
  /\ UNCHANGED <<daemon_exit, fifo_path, lock_file, modeVars>>

\* do_force_backup and do_force_transfer: kill -USR1 or -USR2 $(cat $PIDFILE).
DoForce ==
  /\ Command /\ Recorded
  /\ SignalRecorded(FALSE)
  /\ UNCHANGED <<pid_file, fifo_path, lock_file, modeVars, scriptVars>>

ScriptStep == DoStart \/ StartReturns \/ DoStop \/ StopKills \/ StopRest \/ DoForce

LifecycleNext ==
  \/ \E i \in Inst : InstanceStep(i) \/ EnterWindow(i) \/ Crash(i)
  \/ ScriptStep

\* The processes run, and a stop command that is under way goes on.
LifecycleSpec ==
  /\ LifecycleInit /\ [][LifecycleNext]_lifecycleVars
  /\ \A i \in Inst : WF_lifecycleVars(InstanceStep(i))
  /\ WF_lifecycleVars(StopRest)
--------------------------------------------------------------------------------
LifecycleTypeOK ==
  /\ stage \in [Inst -> Stage] /\ daemon_exit \in [Inst -> BOOLEAN]
  /\ pid_file \in Inst \cup {NoInst, Empty}
  /\ fifo_path \in Inst \cup {NoInst} /\ fifo_fd \in [Inst -> Inst \cup {NoInst}]
  /\ lock_file \in Inst \cup {NoInst} /\ locked \in BOOLEAN /\ chmod_failed \subseteq Inst
  /\ patient \in BOOLEAN
  /\ script \in [command : {"idle", "start"} \cup StopCommands \cup StopDone,
                 inst : Inst \cup {NoInst}]

(***************************************************************************)
(* "Check if another instance of the daemon is already running"            *)
(* (daemon.c:97): as long as nobody starts a daemon while another is on    *)
(* its way up, no two are in their main loops together, after any series   *)
(* of starts, stops, crashes and failed starts.  (check_singleton() and    *)
(* create_pid_file() are not one step, so more cannot be claimed.)         *)
(***************************************************************************)
SingleInstance ==
  patient => \A i, j \in Inst : stage[i] \in Ready /\ stage[j] \in Ready => i = j

(***************************************************************************)
(* The commands and the clients reach the daemon that runs: the PID file   *)
(* holds its pid and FIFO_PATH leads to the FIFO it reads, whatever files  *)
(* crashes and failed starts have left.                                    *)
(***************************************************************************)
DaemonIsReachable ==
  patient => \A i \in Inst : stage[i] \in Ready =>
    pid_file = i /\ fifo_path # NoInst /\ fifo_fd[i] = fifo_path

(***************************************************************************)
(* A restart repairs what a crash inside the window left: while a daemon   *)
(* none of whose chmod() calls has failed is in its loop, and none in a    *)
(* window, the directories are open.                                       *)
(***************************************************************************)
RestartOpensDirectories ==
  /\ patient
  /\ \E i \in Inst \ chmod_failed : stage[i] \in Loop
  /\ \A i \in Inst : stage[i] \notin Window
  => ~locked

(***************************************************************************)
(* do_stop returns although only SIGTERM is sent: the daemon leaves its    *)
(* window and its loop by itself.                                          *)
(***************************************************************************)
StopReturns == script.command \in StopCommands ~> script.command \in StopDone
--------------------------------------------------------------------------------
(***************************************************************************)
(* The inductive invariant.  A daemon leaves its loop only under a stop    *)
(* command, which ends them all; hence a patient administrator, who waits  *)
(* for those on their way up, never has two.  The one daemon there is has  *)
(* its own files from the moment it made them.                             *)
(***************************************************************************)
ExitIsStop == \A i \in Inst :
  /\ stage[i] \in Stopping => daemon_exit[i]
  /\ stage[i] = "unborn" => ~daemon_exit[i]
  /\ daemon_exit[i] /\ Alive(i) => script.command \in StopCommands

OneAlive == \A i, j \in Inst : Alive(i) /\ Alive(j) => i = j

HasPidFile == \A i \in Inst :
  stage[i] \in {"handlers", "make_fifo", "open_fifo", "permissions"} \cup Ready => pid_file = i

HasFifo == \A i \in Inst :
  stage[i] \in {"permissions"} \cup Ready => fifo_path # NoInst /\ fifo_fd[i] = fifo_path

LoopIsOpen == \A i \in Inst \ chmod_failed : stage[i] \in Loop => ~locked

NoneAfterStop == script.command \in StopDone => \A i \in Inst : ~Alive(i)

LifecycleInv ==
  /\ LifecycleTypeOK /\ NoneAfterStop /\ ExitIsStop
  /\ patient => OneAlive /\ HasPidFile /\ HasFifo /\ LoopIsOpen
================================================================================
