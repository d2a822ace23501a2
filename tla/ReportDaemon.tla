------------------------------ MODULE ReportDaemon ------------------------------
(***************************************************************************)
(* The main loop of the daemon (src/src/daemon.c) with everything that     *)
(* moves while it runs: signals, the children made by                      *)
(* create_reporting_process(), clients that write to the FIFO, and the     *)
(* clock.  Directories and lock file are those of DirectoryLock, the FIFO  *)
(* that of IpcFifo.                                                        *)
(*                                                                         *)
(* "pc" is the statement of daemon_main_loop() that comes next.  A signal  *)
(* handler only sets a flag, so it may run between any two statements.     *)
(***************************************************************************)
EXTENDS DirectoryLock, IpcFifo

CONSTANTS
  Daemon,         \* this process; the others of Proc died before it started
  Child,          \* the process ids fork() can give out
  ClientMessage,  \* what clients built on the IPCMessage struct may write
  ScriptRuns,     \* whether the init script's urgent_change is used
  MaxSends,       \* bound: how many writes all clients make together
  ForkFails,      \* whether fork() may fail while process ids are left
  Clock           \* bound: the values at_one may take

Operation == {"transfer", "backup"}

\* The completion message of a child that ran operation o.
Completion(o, c) ==
  [type |-> IF o = "transfer" THEN "MSG_TRANSFER_COMPLETE" ELSE "MSG_BACKUP_COMPLETE",
   sender_pid |-> c]

ASSUME DaemonAssumption ==
  /\ Daemon \in Proc
  /\ {Completion(o, c) : o \in Operation, c \in Child} \subseteq Message
  /\ ClientMessage \subseteq Message
  /\ MaxSends \in Nat
  /\ ScriptRuns \in BOOLEAN /\ ForkFails \in BOOLEAN
  /\ Clock \subseteq BOOLEAN

VARIABLES
  pc,              \* the next statement of the daemon
  op,              \* which of its two blocks the daemon is in
  daemon_exit, force_backup, force_transfer,
  child,           \* what each child process is doing
  at_one,          \* the wall clock reads 01:00
  tm_now,          \* *tm_now reads 01:00
  last_check,      \* last_check_hour and last_check_minute read 01:00
  client_budget,   \* writes the clients may still make
  starts,          \* history: scheduled blocks begun since the last Tick, up to 2
  checked          \* history: the loop has read the clock since the last Tick

loopVars == <<pc, op>>
flagVars == <<daemon_exit, force_backup, force_transfer>>
checkVars == <<tm_now, last_check>>
historyVars == <<starts, checked>>
daemonVars == <<lockVars, fifoVars, loopVars, flagVars, checkVars, child,
                at_one, client_budget, historyVars>>

\* The statements between a successful lock_directories() and the call of
\* unlock_directories().
WindowPc == {"spawn_transfer", "transfer_main", "missing", "spawn_backup",
             "backup_main", "sleep"}
UrgentPc == {"urgent_write", "urgent_restore"}
DaemonPc == WindowPc \cup UrgentPc \cup
            {"check", "lock", "unlock", "reset", "monitor", "manual", "receive",
             "urgent", "end", "cleanup", "stopped"}

ChildState == {"free"} \cup Operation \cup {"transfer_done", "backup_done"}
DoneState(o) == IF o = "transfer" THEN "transfer_done" ELSE "backup_done"

\* daemon_init() has just returned SUCCESS.  It chmods both directories,
\* ignoring failures, and leaves a lock file of a dead predecessor alone.
DaemonInit ==
  /\ lock_file \in (Proc \ {Daemon}) \cup {NoProc}
  /\ perm \in [Dir -> Mode]
  /\ \A d \in Dir : \/ perm[d] = NormalPermissions[d]
                    \/ d \in ChmodFaults /\ perm[d] = LOCKED_PERMISSIONS
  /\ lpc = [p \in Proc |-> IF p = Daemon THEN "idle" ELSE "killed"]
  /\ lresult = [p \in Proc |-> "SUCCESS"]
  /\ chmod_failed = (perm # NormalPermissions)
  /\ FifoInit
  /\ pc = "check" /\ op = "transfer"
  /\ daemon_exit = FALSE /\ force_backup = FALSE /\ force_transfer = FALSE
  /\ child = [c \in Child |-> "free"]
  /\ at_one \in Clock /\ tm_now = FALSE /\ last_check = FALSE
  /\ client_budget = MaxSends
  /\ starts = 0 /\ checked = FALSE

\* tm_now points to the static buffer of localtime(), which every log call
\* of the daemon overwrites with its own time (get_timestamp_string).  Only
\* the last log call before the end of the iteration matters.
Log == tm_now' = at_one
MayLog == tm_now' \in {tm_now, at_one}

Environment == <<at_one, client_budget, historyVars>>

\* What the history variables record of the check at the top of the loop.
ReadClock(due) ==
  /\ checked' = TRUE
  /\ starts' = IF due /\ starts < 2 THEN starts + 1 ELSE starts
--------------------------------------------------------------------------------
(***************************************************************************)
(* The top of the loop and the block of the scheduled or forced transfer.  *)
(***************************************************************************)
ExitLoop ==
  /\ pc = "check" /\ daemon_exit
  /\ pc' = "cleanup"
  /\ Log
  /\ ReadClock(FALSE)
  /\ UNCHANGED <<lockVars, fifoVars, op, flagVars, last_check, child, at_one,
                 client_budget>>

\* 01:00, and the last iteration did not end in that minute.
ScheduleDue == at_one /\ ~last_check

\* Mutant: the loop does not look at daemon_exit.
CheckTimeForever ==
  /\ pc = "check"
  /\ \/ /\ ScheduleDue \/ force_transfer
        /\ pc' = "lock" /\ op' = "transfer"
     \/ /\ ~(ScheduleDue \/ force_transfer)
        /\ pc' = "monitor" /\ UNCHANGED op
  /\ Log
  /\ ReadClock(ScheduleDue)
  /\ UNCHANGED <<lockVars, fifoVars, flagVars, last_check, child, at_one,
                 client_budget>>

CheckTime ==
  /\ pc = "check" /\ ~daemon_exit
  /\ \/ /\ ScheduleDue \/ force_transfer
        /\ pc' = "lock" /\ op' = "transfer"
     \/ /\ ~(ScheduleDue \/ force_transfer)
        /\ pc' = "monitor" /\ UNCHANGED op
  /\ Log
  /\ ReadClock(ScheduleDue)
  /\ UNCHANGED <<lockVars, fifoVars, flagVars, last_check, child, at_one,
                 client_budget>>

\* Mutant: the result of lock_directories() is not looked at.
LockDirectoriesUnchecked ==
  /\ pc = "lock"
  /\ LockStep(Daemon)
  /\ pc' = IF lpc'[Daemon] \notin {"locked", "idle"} THEN "lock"
           ELSE IF op = "transfer" THEN "spawn_transfer" ELSE "spawn_backup"
  /\ tm_now' = IF lpc'[Daemon] = "idle" THEN at_one ELSE tm_now
  /\ UNCHANGED <<fifoVars, op, flagVars, last_check, child, Environment>>

\* One step of lock_directories().  SUCCESS leads into the window, FAILURE
\* ("aborting") straight to the reset of the flag.
LockDirectories ==
  /\ pc = "lock"
  /\ LockStep(Daemon)
  /\ pc' = IF lpc'[Daemon] = "locked"
             THEN IF op = "transfer" THEN "spawn_transfer" ELSE "spawn_backup"
             ELSE IF lpc'[Daemon] = "idle" THEN "reset" ELSE "lock"
  /\ tm_now' = IF lpc'[Daemon] = "idle" THEN at_one ELSE tm_now
  /\ UNCHANGED <<fifoVars, op, flagVars, last_check, child, Environment>>

\* create_reporting_process(): a new child, or -1 and the operation is run
\* in the main process.
CreateReportingProcess(o, created, failed) ==
  \/ \E c \in Child : /\ child[c] = "free"
                      /\ child' = [child EXCEPT ![c] = o]
                      /\ pc' = created
  \/ /\ ForkFails \/ \A c \in Child : child[c] # "free"
     /\ pc' = failed
     /\ UNCHANGED child

SpawnTransfer ==
  /\ pc = "spawn_transfer"
  /\ CreateReportingProcess("transfer", "missing", "transfer_main")
  /\ Log
  /\ UNCHANGED <<lockVars, fifoVars, op, flagVars, last_check, Environment>>

SpawnBackup ==
  /\ pc = "spawn_backup"
  /\ CreateReportingProcess("backup", "sleep", "backup_main")
  /\ Log
  /\ UNCHANGED <<lockVars, fifoVars, op, flagVars, last_check, Environment>>

\* Mutant: a sleep() that SIGTERM interrupts ends the loop at once.
RunInWindowInterrupted ==
  /\ \/ pc = "transfer_main" /\ pc' = "missing"
     \/ pc = "missing" /\ pc' = "spawn_backup"
     \/ pc = "backup_main" /\ pc' = "sleep"
     \/ pc = "sleep" /\ pc' = IF daemon_exit THEN "cleanup" ELSE "unlock"
  /\ Log
  /\ UNCHANGED <<lockVars, fifoVars, op, flagVars, last_check, child, Environment>>

\* The statements of the window that only work on files and log:
\* transfer_reports(), check_missing_reports() and backup_dashboard() in the
\* main process, then sleep(), which does not wait for the children.
RunInWindow ==
  /\ \/ pc = "transfer_main" /\ pc' = "missing"
     \/ pc = "missing" /\ pc' = "spawn_backup"
     \/ pc = "backup_main" /\ pc' = "sleep"
     \/ pc = "sleep" /\ pc' = "unlock"
  /\ Log
  /\ UNCHANGED <<lockVars, fifoVars, op, flagVars, last_check, child, Environment>>

\* One step of unlock_directories(), whose result is ignored.
UnlockDirectories ==
  /\ pc = "unlock"
  /\ UnlockStep(Daemon)
  /\ pc' = IF lpc'[Daemon] = "idle" THEN "reset" ELSE "unlock"
  /\ IF lpc[Daemon] = "locked" THEN Log ELSE MayLog
  /\ UNCHANGED <<fifoVars, op, flagVars, last_check, child, Environment>>

\* Mutant: one reset for both flags.
ResetFlagBoth ==
  /\ pc = "reset"
  /\ force_transfer' = FALSE /\ force_backup' = FALSE
  /\ pc' = IF op = "transfer" THEN "monitor" ELSE "receive"
  /\ UNCHANGED <<lockVars, fifoVars, op, daemon_exit, checkVars, child, Environment>>

\* "Reset forced transfer flag" or "Reset forced backup flag".
ResetFlag ==
  /\ pc = "reset"
  /\ \/ /\ op = "transfer" /\ force_transfer' = FALSE
        /\ pc' = "monitor" /\ UNCHANGED force_backup
     \/ /\ op = "backup" /\ force_backup' = FALSE
        /\ pc' = "receive" /\ UNCHANGED force_transfer
  /\ UNCHANGED <<lockVars, fifoVars, op, daemon_exit, checkVars, child, Environment>>
--------------------------------------------------------------------------------
(***************************************************************************)
(* The rest of the loop.                                                   *)
(***************************************************************************)
\* monitor_directory_changes(), every fifth second; it logs what it finds.
MonitorDirectory ==
  /\ pc = "monitor"
  /\ pc' = "manual"
  /\ MayLog
  /\ UNCHANGED <<lockVars, fifoVars, op, flagVars, last_check, child, Environment>>

\* "Handle force_backup flag".
HandleForceBackup ==
  /\ pc = "manual"
  /\ \/ force_backup /\ pc' = "lock" /\ op' = "backup" /\ Log
     \/ ~force_backup /\ pc' = "receive" /\ UNCHANGED <<op, tm_now>>
  /\ UNCHANGED <<lockVars, fifoVars, flagVars, last_check, child, Environment>>

MsgType(m) == IF m \in Message THEN m.type ELSE "unknown"

\* "Check for IPC messages": one turn of the while loop, or its end.  Every
\* type but MSG_URGENT_CHANGE is only logged.
ReceiveMessage ==
  /\ pc = "receive"
  /\ \/ /\ ReceiveSucceeds
        /\ pc' = IF MsgType(msg') = "MSG_URGENT_CHANGE" THEN "urgent" ELSE "receive"
        /\ Log
     \/ /\ ReceiveFails
        /\ pc' = "end"
        /\ IF fifo = <<>> THEN UNCHANGED tm_now ELSE Log
  /\ UNCHANGED <<lockVars, op, flagVars, last_check, child, Environment>>

\* make_urgent_change() up to the first chmod(); a message without its two
\* separators, or a file that does not exist, is the end of it.
BeginUrgentChange ==
  /\ pc = "urgent"
  /\ \/ pc' = "receive" /\ UNCHANGED modeVars
     \/ /\ pc' = "urgent_write"
        /\ \/ SetDirectoryPermissions("dashboard", "0777")
           \/ SetDirectoryPermissionsFails("dashboard")
  /\ Log
  /\ UNCHANGED <<lock_file, lpc, lresult, fifoVars, op, flagVars, last_check,
                 child, Environment>>

\* fopen() and fputs(): on each of their outcomes the permissions are
\* restored next.
WriteUrgentChange ==
  /\ pc = "urgent_write"
  /\ pc' = "urgent_restore"
  /\ MayLog
  /\ UNCHANGED <<lockVars, fifoVars, op, flagVars, last_check, child, Environment>>

RestoreDashboard ==
  /\ pc = "urgent_restore"
  /\ pc' = "receive"
  /\ \/ SetDirectoryPermissions("dashboard", DASHBOARD_PERMISSIONS)
     \/ SetDirectoryPermissionsFails("dashboard")
  /\ Log
  /\ UNCHANGED <<lock_file, lpc, lresult, fifoVars, op, flagVars, last_check,
                 child, Environment>>

\* Mutant: the time of the last check is not updated.
EndIterationForgets ==
  /\ pc = "end"
  /\ pc' = "check"
  /\ UNCHANGED <<lockVars, fifoVars, op, flagVars, checkVars, child, Environment>>

\* "Update last check time for scheduled tasks", from the shared buffer; then
\* sleep(1).
EndIteration ==
  /\ pc = "end"
  /\ last_check' = tm_now
  /\ pc' = "check"
  /\ UNCHANGED <<lockVars, fifoVars, op, flagVars, tm_now, child, Environment>>

\* daemon_cleanup() and the return of main(): cleanup_ipc() unlinks the FIFO.
\* Children still have it open; what they write is never read.
DaemonCleanup ==
  /\ pc = "cleanup"
  /\ pc' = "stopped"
  /\ Log
  /\ UNCHANGED <<lockVars, fifoVars, op, flagVars, last_check, child, Environment>>

DaemonStep ==
  \/ ExitLoop \/ CheckTime \/ LockDirectories \/ SpawnTransfer \/ SpawnBackup
  \/ RunInWindow \/ UnlockDirectories \/ ResetFlag
  \/ MonitorDirectory \/ HandleForceBackup \/ ReceiveMessage
  \/ BeginUrgentChange \/ WriteUrgentChange \/ RestoreDashboard
  \/ EndIteration \/ DaemonCleanup
--------------------------------------------------------------------------------
(***************************************************************************)
(* Everybody else.                                                         *)
(***************************************************************************)
\* signal_handler().  The handlers are in place before the loop starts.
Signal == {"SIGTERM", "SIGINT", "SIGUSR1", "SIGUSR2", "SIGHUP"}

SignalHandler(sig) ==
  /\ pc # "stopped"
  /\ daemon_exit' = (daemon_exit \/ sig \in {"SIGTERM", "SIGINT"})
  /\ force_backup' = (force_backup \/ sig = "SIGUSR1")
  /\ force_transfer' = (force_transfer \/ sig = "SIGUSR2")
  /\ UNCHANGED <<lockVars, fifoVars, loopVars, checkVars, child, Environment>>

\* function() returns in a child.
ChildFinish(c) ==
  /\ \E o \in Operation : /\ child[c] = o
                          /\ child' = [child EXCEPT ![c] = DoneState(o)]
  /\ UNCHANGED <<lockVars, fifoVars, loopVars, flagVars, checkVars, Environment>>

\* The child sends its completion message, accepted or not, and exits.
ChildReport(c) ==
  /\ \E o \in Operation : /\ child[c] = DoneState(o)
                          /\ SendIpcMessage(Completion(o, c))
  /\ child' = [child EXCEPT ![c] = "free"]
  /\ UNCHANGED <<lockVars, msg, loopVars, flagVars, checkVars, Environment>>

\* A client writes to the FIFO.  daemon_cleanup() unlinks it.
ClientSend ==
  /\ pc # "stopped"
  /\ client_budget > 0
  /\ client_budget' = client_budget - 1
  /\ \/ \E m \in ClientMessage : ClientWrite(m)
     \/ ScriptRuns /\ ScriptWrite
  /\ UNCHANGED <<lockVars, msg, loopVars, flagVars, checkVars, child, at_one,
                 historyVars>>

\* The wall clock enters or leaves the minute 01:00.
Tick ==
  /\ at_one' \in Clock \ {at_one}
  /\ starts' = 0 /\ checked' = FALSE
  /\ UNCHANGED <<lockVars, fifoVars, loopVars, flagVars, checkVars, child, client_budget>>

DaemonNext ==
  \/ DaemonStep
  \/ \E sig \in Signal : SignalHandler(sig)
  \/ \E c \in Child : ChildFinish(c) \/ ChildReport(c)
  \/ ClientSend
  \/ Tick

DaemonSpec == DaemonInit /\ [][DaemonNext]_daemonVars

\* The scheduler runs the daemon, and a child finishes: both loops of its
\* work run over the finitely many entries of a directory.
DaemonFairness ==
  /\ WF_daemonVars(DaemonStep)
  /\ \A c \in Child : WF_daemonVars(ChildFinish(c) \/ ChildReport(c))

FairDaemonSpec == DaemonSpec /\ DaemonFairness

\* The loop is fast enough to read the clock at least once in the minute
\* 01:00, and at least once outside it.
PromptSpec ==
  DaemonInit /\ [][DaemonNext /\ (at_one' # at_one => checked)]_daemonVars
--------------------------------------------------------------------------------
DaemonTypeOK ==
  /\ LockTypeOK /\ FifoTypeOK
  /\ pc \in DaemonPc /\ op \in Operation
  /\ daemon_exit \in BOOLEAN /\ force_backup \in BOOLEAN /\ force_transfer \in BOOLEAN
  /\ child \in [Child -> ChildState]
  /\ at_one \in BOOLEAN /\ tm_now \in BOOLEAN /\ last_check \in BOOLEAN
  /\ client_budget \in 0..MaxSends
  /\ starts \in 0..2 /\ checked \in BOOLEAN

(***************************************************************************)
(* Whatever fails on the way - open, write, chmod, unlink, fork - and      *)
(* whatever signals, children and clients do meanwhile: the daemon starts  *)
(* transfers and backups, and sleeps for them, only while the lock file is *)
(* its own and both directories are closed ("Lock directories before       *)
(* operations", daemon.c:269).                                             *)
(***************************************************************************)
WindowGuarded ==
  pc \in WindowPc =>
    /\ lpc[Daemon] = "locked" /\ lock_file = Daemon
    /\ \A d \in Dir : perm[d] = LOCKED_PERMISSIONS

(***************************************************************************)
(* Everywhere else in the loop, and after the daemon has stopped, users    *)
(* find the directories with their normal permissions and the daemon's     *)
(* lock file is gone: no early way out of a block, neither SIGTERM nor an  *)
(* abort, leaves them closed, and an urgent change gives write access back.*)
(* This holds up to the first chmod() that fails: nothing tries it again.  *)
(***************************************************************************)
BlockPc == {"lock", "unlock", "reset"} \cup WindowPc

OutsideIsOpen ==
  ~chmod_failed /\ pc \notin (BlockPc \ {"reset"}) \cup UrgentPc =>
    perm = NormalPermissions /\ lock_file # Daemon

(***************************************************************************)
(* A SIGUSR1 or SIGUSR2 that arrives outside the block it asks for leads   *)
(* to an attempt to lock the directories for that block, unless the daemon *)
(* is told to stop.  (One that arrives inside the block is erased with the *)
(* flag at the end of it.)                                                 *)
(***************************************************************************)
Requested(o) == IF o = "transfer" THEN force_transfer ELSE force_backup
InBlock(o) == op = o /\ pc \in BlockPc

RequestIsTried ==
  \A o \in Operation :
    Requested(o) /\ ~InBlock(o) ~> (op = o /\ pc = "lock") \/ daemon_exit

(***************************************************************************)
(* SIGTERM stops the daemon from wherever it is in the loop.               *)
(***************************************************************************)
TerminationIsHonoured == daemon_exit ~> pc = "stopped"

(***************************************************************************)
(* A message that was accepted into the FIFO reaches the daemon's switch,  *)
(* unless the daemon is told to stop: the loop of daemon.c:253 ends        *)
(* without another look at the FIFO, and daemon_cleanup() unlinks it with  *)
(* whatever is unread.                                                     *)
(***************************************************************************)
AcceptedIsReceived ==
  \A m \in Message :
    (\E i \in 1..Len(fifo) : fifo[i].msg = m) ~> msg = m \/ daemon_exit

(***************************************************************************)
(* The scheduled transfer starts at most once in the minute 01:00, however *)
(* fast the loop is and whatever else it does in that minute: what         *)
(* last_check_hour and last_check_minute are for.                          *)
(***************************************************************************)
OncePerMinute == starts <= 1

(***************************************************************************)
(* "Check if it's time to transfer files (1:00 AM)" (daemon.c:259): a      *)
(* daemon that runs through the minute 01:00 and reads the clock in it     *)
(* starts the scheduled transfer.                                          *)
(***************************************************************************)
ScheduledTransferRuns ==
  [][at_one /\ ~at_one' => starts > 0 \/ daemon_exit]_<<at_one, starts>>
--------------------------------------------------------------------------------
(***************************************************************************)
(* The inductive invariants.  PcFollowsLock ties the statement the daemon  *)
(* is at to its position in lock/unlock_directories(), OwnLock that        *)
(* position to the lock file and the modes.                                *)
(***************************************************************************)
LockingPc == {"idle", "write", "lock_upload", "lock_dashboard", "restore_upload",
              "remove", "remove_again"}
UnlockingPc == {"locked", "unlock_dashboard", "unlock_file"}

PcFollowsLock ==
  /\ pc \in WindowPc => lpc[Daemon] = "locked"
  /\ pc = "lock" => lpc[Daemon] \in LockingPc
  /\ pc = "unlock" => lpc[Daemon] \in UnlockingPc
  /\ pc \notin WindowPc \cup {"lock", "unlock"} => lpc[Daemon] = "idle"

OwnLock ==
  /\ lpc[Daemon] \in {"write", "lock_upload"} =>
       lresult[Daemon] = "SUCCESS" /\ lock_file = Daemon
  /\ lpc[Daemon] = "lock_dashboard" /\ lresult[Daemon] = "SUCCESS" =>
       lock_file = Daemon /\ perm["upload"] = LOCKED_PERMISSIONS
  /\ lpc[Daemon] = "locked" =>
       /\ lock_file = Daemon
       /\ \A d \in Dir : perm[d] = LOCKED_PERMISSIONS

(***************************************************************************)
(* What WindowGuarded rests on; every call may fail.                       *)
(***************************************************************************)
WindowInv == LockTypeOK /\ PcFollowsLock /\ OwnLock

(***************************************************************************)
(* What the implementation of WindowSpec rests on: how far the directories *)
(* are open at each position of the daemon, the only process there is.     *)
(***************************************************************************)
OthersAreDead == \A p \in Proc \ {Daemon} : lpc[p] = "killed"

OpenSoFar ==
  LET at == lpc[Daemon]
  IN /\ at \notin {"restore_upload", "remove", "remove_again"}
     /\ at \in {"write", "lock_upload", "lock_dashboard"} => lresult[Daemon] = "SUCCESS"
     /\ at \in {"idle", "write", "lock_upload", "unlock_dashboard", "unlock_file"} =>
          perm["upload"] = UPLOAD_PERMISSIONS
     /\ at \in {"idle", "write", "lock_upload", "lock_dashboard", "unlock_file"}
          /\ pc \notin UrgentPc => perm["dashboard"] = DASHBOARD_PERMISSIONS

OpenInv == LockTypeOK /\ PcFollowsLock /\ OthersAreDead /\ (~chmod_failed => OpenSoFar)

(***************************************************************************)
(* What OutsideIsOpen needs besides, while unlink() does not fail.         *)
(***************************************************************************)
FileRemoved == ~chmod_failed /\ lpc[Daemon] = "idle" => lock_file # Daemon

(***************************************************************************)
(* What OncePerMinute rests on: once the scheduled block has begun, every  *)
(* log call up to the end of the iteration stores 01:00 in *tm_now, and    *)
(* last_check holds it when the loop comes to its top again.               *)
(***************************************************************************)
OnceInv ==
  /\ starts <= 1
  /\ starts > 0 => at_one /\ tm_now
  /\ starts > 0 /\ pc = "check" => last_check
================================================================================
