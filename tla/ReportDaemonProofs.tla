--------------------------- MODULE ReportDaemonProofs ---------------------------
(***************************************************************************)
(* Proofs about ReportDaemon, for every set of processes and children,     *)
(* every FIFO and every choice of faults.                                  *)
(***************************************************************************)
EXTENDS ReportDaemon, DirectoryLockProofs, IpcFifoProofs

\* A step either leaves lock file, modes and positions alone, or is one of
\* the four actions that do not.
LEMMA OtherStepsLeaveLock ==
  ASSUME [DaemonNext]_daemonVars,
         ~LockDirectories, ~UnlockDirectories, ~BeginUrgentChange, ~RestoreDashboard
  PROVE  UNCHANGED lockVars
  BY DEF DaemonNext, DaemonStep, daemonVars, ExitLoop, CheckTime, SpawnTransfer,
         SpawnBackup, RunInWindow, ResetFlag, MonitorDirectory, HandleForceBackup,
         ReceiveMessage, WriteUrgentChange, EndIteration, DaemonCleanup,
         SignalHandler, ChildFinish, ChildReport, ClientSend, Tick

\* An urgent change only touches the mode of the dashboard.
LEMMA UrgentStep ==
  ASSUME LockTypeOK, BeginUrgentChange \/ RestoreDashboard
  PROVE  /\ UNCHANGED <<lock_file, lpc, lresult>>
         /\ perm' \in [Dir -> Mode] /\ perm'["upload"] = perm["upload"]
         /\ chmod_failed' \in BOOLEAN /\ (chmod_failed => chmod_failed')
  BY DEF BeginUrgentChange, RestoreDashboard, SetDirectoryPermissions,
         SetDirectoryPermissionsFails, LockTypeOK, Mode, Dir, modeVars, UPLOAD_PERMISSIONS,
         DASHBOARD_PERMISSIONS

LEMMA DaemonLockTypes ==
  ASSUME LockTypeOK, [DaemonNext]_daemonVars
  PROVE  LockTypeOK'
<1>1. CASE LockDirectories
  BY <1>1, LockTypeStep, DaemonAssumption DEF LockDirectories, LockNext
<1>2. CASE UnlockDirectories
  BY <1>2, LockTypeStep, DaemonAssumption DEF UnlockDirectories, LockNext
<1>3. CASE BeginUrgentChange \/ RestoreDashboard
  BY <1>3, UrgentStep DEF LockTypeOK
<1>4. CASE UNCHANGED lockVars
  BY <1>4 DEF lockVars, modeVars, LockTypeOK
<1>5. QED
  BY <1>1, <1>2, <1>3, <1>4, OtherStepsLeaveLock
--------------------------------------------------------------------------------
(***************************************************************************)
(* Type correctness of the whole daemon: directories, FIFO, flags,         *)
(* children and clock, whatever fails.                                     *)
(***************************************************************************)
THEOREM DaemonTypeCorrect == DaemonSpec => []DaemonTypeOK
<1>1. DaemonInit => DaemonTypeOK
  <2> SUFFICES ASSUME DaemonInit PROVE DaemonTypeOK
    OBVIOUS
  <2>1. LockTypeOK
    BY LockAssumption DEF DaemonInit, LockTypeOK, LockPc
  <2>2. FifoTypeOK
    BY FifoAssumption DEF DaemonInit, FifoTypeOK, FifoInit
  <2>3. pc \in DaemonPc /\ op \in Operation /\ child \in [Child -> ChildState]
    BY DEF DaemonInit, DaemonPc, Operation, ChildState
  <2>4. client_budget \in 0..MaxSends
    BY DaemonAssumption DEF DaemonInit
  <2>5. at_one \in BOOLEAN
    BY DaemonAssumption DEF DaemonInit
  <2>6. starts \in 0..2 /\ checked \in BOOLEAN
    <3>1. starts = 0 /\ checked = FALSE
      BY DEF DaemonInit
    <3>2. starts \in 0..2
      BY <3>1
    <3>3. checked \in BOOLEAN
      BY <3>1
    <3>4. QED
      BY <3>2, <3>3
  <2>7. QED
    BY <2>1, <2>2, <2>3, <2>4, <2>5, <2>6 DEF DaemonInit, DaemonTypeOK
<1>2. DaemonTypeOK /\ [DaemonNext]_daemonVars => DaemonTypeOK'
  <2> SUFFICES ASSUME DaemonTypeOK, [DaemonNext]_daemonVars PROVE DaemonTypeOK'
    OBVIOUS
  <2>1. LockTypeOK'
    BY DaemonLockTypes DEF DaemonTypeOK
  <2> USE DaemonAssumption DEF DaemonTypeOK
  <2>2. ASSUME DaemonStep PROVE DaemonTypeOK'
    <3> USE <2>1 DEF DaemonPc, WindowPc, UrgentPc, Operation, flagVars, checkVars,
                     fifoVars, FifoTypeOK, Log, MayLog, Environment,
                     historyVars
    <3>1. CASE ExitLoop BY <3>1 DEF ExitLoop, ReadClock
    <3>2. CASE CheckTime BY <3>2 DEF CheckTime, ReadClock
    <3>3. CASE LockDirectories BY <3>3 DEF LockDirectories
    <3>4. CASE SpawnTransfer
      BY <3>4 DEF SpawnTransfer, CreateReportingProcess, ChildState
    <3>5. CASE SpawnBackup
      BY <3>5 DEF SpawnBackup, CreateReportingProcess, ChildState
    <3>6. CASE RunInWindow BY <3>6 DEF RunInWindow
    <3>7. CASE UnlockDirectories BY <3>7 DEF UnlockDirectories
    <3>8. CASE ResetFlag BY <3>8 DEF ResetFlag
    <3>9. CASE MonitorDirectory BY <3>9 DEF MonitorDirectory
    <3>10. CASE HandleForceBackup BY <3>10 DEF HandleForceBackup
    <3>11. CASE ReceiveMessage
      <4>1. FifoTypeOK'
        BY <3>11, ReceiveTypes DEF ReceiveMessage
      <4>2. QED
        BY <3>11, <4>1 DEF ReceiveMessage
    <3>12. CASE BeginUrgentChange BY <3>12 DEF BeginUrgentChange
    <3>13. CASE WriteUrgentChange BY <3>13 DEF WriteUrgentChange
    <3>14. CASE RestoreDashboard BY <3>14 DEF RestoreDashboard
    <3>15. CASE EndIteration BY <3>15 DEF EndIteration
    <3>16. CASE DaemonCleanup BY <3>16 DEF DaemonCleanup
    <3>17. QED
      BY <2>2, <3>1, <3>2, <3>3, <3>4, <3>5, <3>6, <3>7, <3>8, <3>9, <3>10, <3>11,
         <3>12, <3>13, <3>14, <3>15, <3>16 DEF DaemonStep
  <2>3. ASSUME NEW sig \in Signal, SignalHandler(sig) PROVE DaemonTypeOK'
    BY <2>1, <2>3 DEF SignalHandler, fifoVars, FifoTypeOK, loopVars, checkVars, Environment,
                  historyVars
  <2>4. ASSUME NEW c \in Child, ChildFinish(c) PROVE DaemonTypeOK'
    BY <2>1, <2>4 DEF ChildFinish, ChildState, DoneState, Operation, fifoVars, FifoTypeOK,
                      loopVars, flagVars, checkVars, Environment, historyVars
  <2>5. ASSUME NEW c \in Child, ChildReport(c) PROVE DaemonTypeOK'
    <3>1. PICK o \in Operation : SendIpcMessage(Completion(o, c))
      BY <2>5 DEF ChildReport
    <3>2. Completion(o, c) \in Message
      OBVIOUS
    <3>3. FifoTypeOK'
      BY <2>5, <3>1, <3>2, SendTypes DEF ChildReport, FifoTypeOK
    <3>4. QED
      BY <2>1, <2>5, <3>3 DEF ChildReport, ChildState, loopVars, flagVars, checkVars,
                              Environment, historyVars
  <2>6. ASSUME ClientSend PROVE DaemonTypeOK'
    <3>1. FifoTypeOK'
      BY <2>6, SendTypes, ScriptTypes DEF ClientSend, FifoTypeOK
    <3>2. QED
      BY <2>1, <2>6, <3>1 DEF ClientSend, loopVars, flagVars, checkVars, historyVars
  <2>7. ASSUME Tick PROVE DaemonTypeOK'
    <3>1. starts' \in 0..2
      BY <2>7 DEF Tick
    <3>2. checked' \in BOOLEAN
      BY <2>7 DEF Tick
    <3>3. QED
      BY <2>1, <2>7, <3>1, <3>2
         DEF Tick, fifoVars, FifoTypeOK, loopVars, flagVars, checkVars
  <2>8. CASE UNCHANGED daemonVars
    BY <2>1, <2>8 DEF daemonVars, fifoVars, FifoTypeOK, loopVars, flagVars, checkVars, historyVars
  <2>9. QED
    BY <2>2, <2>3, <2>4, <2>5, <2>6, <2>7, <2>8 DEF DaemonNext
<1>3. QED
  BY <1>1, <1>2, PTL DEF DaemonSpec
--------------------------------------------------------------------------------
\* The actions that neither lock, unlock nor change a mode move between
\* statements of the same kind.
LEMMA PcStep ==
  ASSUME PcFollowsLock, pc \in DaemonPc, op \in Operation,
         [DaemonNext]_daemonVars, UNCHANGED lockVars,
         ~LockDirectories, ~UnlockDirectories, ~BeginUrgentChange, ~RestoreDashboard
  PROVE  PcFollowsLock'
<1> USE DEF PcFollowsLock, DaemonPc, WindowPc, UrgentPc, LockingPc, UnlockingPc,
            lockVars
<1>1. CASE UNCHANGED pc
  BY <1>1
<1>2. CASE ExitLoop \/ CheckTime \/ HandleForceBackup
  BY <1>2 DEF ExitLoop, CheckTime, HandleForceBackup
<1>3. CASE SpawnTransfer \/ SpawnBackup
  BY <1>3 DEF SpawnTransfer, SpawnBackup, CreateReportingProcess
<1>4. CASE RunInWindow
  BY <1>4 DEF RunInWindow
<1>5. CASE ResetFlag \/ MonitorDirectory \/ EndIteration \/ DaemonCleanup
  BY <1>5 DEF ResetFlag, MonitorDirectory, EndIteration, DaemonCleanup
<1>6. CASE ReceiveMessage \/ WriteUrgentChange
  BY <1>6 DEF ReceiveMessage, WriteUrgentChange
<1>7. QED
  BY <1>1, <1>2, <1>3, <1>4, <1>5, <1>6
     DEF DaemonNext, DaemonStep, daemonVars, SignalHandler, ChildFinish, ChildReport,
         ClientSend, Tick, loopVars

\* The steps of lock_directories() and unlock_directories() lead where the
\* main loop expects them to.
LEMMA PcLockStep ==
  ASSUME LockTypeOK, PcFollowsLock, LockDirectories \/ UnlockDirectories
  PROVE  PcFollowsLock'
<1> USE DaemonAssumption
    DEF LockTypeOK, PcFollowsLock, WindowPc, LockingPc, UnlockingPc, Goto
<1>1. CASE LockDirectories
  <2>1. lpc'[Daemon] \in LockingPc \cup {"locked"}
    BY <1>1 DEF LockDirectories, LockStep, CreateLockFile, WriteLockFile, LockUpload,
                LockDashboard, RestoreUpload, RemoveAfterRestore, RemoveAgain
  <2>2. QED
    BY <1>1, <2>1 DEF LockDirectories
<1>2. CASE UnlockDirectories
  <2>1. lpc'[Daemon] \in {"unlock_dashboard", "unlock_file", "idle"}
    BY <1>2 DEF UnlockDirectories, UnlockStep, UnlockUpload, UnlockDashboard, UnlockFile
  <2>2. QED
    BY <1>2, <2>1 DEF UnlockDirectories
<1>3. QED
  BY <1>1, <1>2

LEMMA PcUrgentStep ==
  ASSUME LockTypeOK, PcFollowsLock, BeginUrgentChange \/ RestoreDashboard
  PROVE  PcFollowsLock' /\ lpc[Daemon] = "idle" /\ lpc'[Daemon] = "idle"
  BY UrgentStep DEF BeginUrgentChange, RestoreDashboard, PcFollowsLock, WindowPc,
                    LockingPc, UnlockingPc

LEMMA PcFollowsLockStep ==
  ASSUME LockTypeOK, PcFollowsLock, pc \in DaemonPc, op \in Operation,
         [DaemonNext]_daemonVars
  PROVE  PcFollowsLock'
  BY PcStep, PcLockStep, PcUrgentStep, OtherStepsLeaveLock
--------------------------------------------------------------------------------
\* A step of lock_directories() keeps OwnLock: a failing chmod() is recorded
\* in lresult, which is looked at before "locked" is reached.
LEMMA OwnLockLockStep ==
  ASSUME LockTypeOK, OwnLock, LockStep(Daemon)
  PROVE  OwnLock'
<1> USE DaemonAssumption, LockAssumption
    DEF LockTypeOK, OwnLock, Dir, Goto, Return, LOCKED_PERMISSIONS
<1>1. CASE CreateLockFile(Daemon) BY <1>1 DEF CreateLockFile
<1>2. CASE WriteLockFile(Daemon) BY <1>2 DEF WriteLockFile
<1>3. CASE LockUpload(Daemon)
  BY <1>3 DEF LockUpload, SetDirectoryPermissions, Mode
<1>4. CASE LockDashboard(Daemon)
  BY <1>4 DEF LockDashboard, SetDirectoryPermissions, Mode
<1>5. CASE RestoreUpload(Daemon) BY <1>5 DEF RestoreUpload
<1>6. CASE RemoveAfterRestore(Daemon) BY <1>6 DEF RemoveAfterRestore
<1>7. CASE RemoveAgain(Daemon) BY <1>7 DEF RemoveAgain
<1>8. QED
  BY <1>1, <1>2, <1>3, <1>4, <1>5, <1>6, <1>7 DEF LockStep

LEMMA OwnLockStep ==
  ASSUME LockTypeOK, PcFollowsLock, OwnLock, [DaemonNext]_daemonVars
  PROVE  OwnLock'
<1>1. CASE LockDirectories
  BY <1>1, OwnLockLockStep DEF LockDirectories
<1>2. CASE UnlockDirectories
  <2>1. lpc'[Daemon] \in {"unlock_dashboard", "unlock_file", "idle"}
    BY <1>2, DaemonAssumption
       DEF UnlockDirectories, UnlockStep, UnlockUpload, UnlockDashboard, UnlockFile,
           Goto, LockTypeOK
  <2>2. QED
    BY <2>1 DEF OwnLock
<1>3. CASE BeginUrgentChange \/ RestoreDashboard
  BY <1>3, PcUrgentStep DEF OwnLock
<1>4. CASE UNCHANGED lockVars
  BY <1>4 DEF lockVars, modeVars, OwnLock
<1>5. QED
  BY <1>1, <1>2, <1>3, <1>4, OtherStepsLeaveLock

THEOREM DaemonWindowInvariant == DaemonSpec => []WindowInv
<1>1. DaemonInit => WindowInv
  <2> SUFFICES ASSUME DaemonInit PROVE WindowInv
    OBVIOUS
  <2>1. LockTypeOK
    BY LockAssumption DEF DaemonInit, LockTypeOK, LockPc
  <2>2. lpc[Daemon] = "idle" /\ pc = "check"
    BY DaemonAssumption DEF DaemonInit
  <2>3. QED
    BY <2>1, <2>2 DEF WindowInv, PcFollowsLock, OwnLock, WindowPc
<1>2. DaemonTypeOK /\ WindowInv /\ [DaemonNext]_daemonVars => WindowInv'
  BY DaemonLockTypes, PcFollowsLockStep, OwnLockStep DEF WindowInv, DaemonTypeOK
<1>3. QED
  BY <1>1, <1>2, DaemonTypeCorrect, PTL DEF DaemonSpec

(***************************************************************************)
(* The daemon works on the directories only inside its own window, with    *)
(* any failing system calls, signals, children and clients, and any lock   *)
(* file left by a predecessor.                                             *)
(***************************************************************************)
THEOREM DaemonWindowGuarded == DaemonSpec => []WindowGuarded
<1>1. WindowInv => WindowGuarded
  BY DEF WindowInv, WindowGuarded, PcFollowsLock, OwnLock
<1>2. QED
  BY <1>1, DaemonWindowInvariant, PTL
--------------------------------------------------------------------------------
\* No step of the daemon moves another process.
LEMMA OthersStayDead ==
  ASSUME LockTypeOK, OthersAreDead, [DaemonNext]_daemonVars
  PROVE  OthersAreDead'
<1> USE DaemonAssumption DEF LockTypeOK, OthersAreDead, Goto
<1>1. CASE LockDirectories
  BY <1>1 DEF LockDirectories, LockStep, CreateLockFile, WriteLockFile, LockUpload,
              LockDashboard, RestoreUpload, RemoveAfterRestore, RemoveAgain
<1>2. CASE UnlockDirectories
  BY <1>2 DEF UnlockDirectories, UnlockStep, UnlockUpload, UnlockDashboard, UnlockFile
<1>3. CASE BeginUrgentChange \/ RestoreDashboard
  BY <1>3, UrgentStep
<1>4. CASE UNCHANGED lockVars
  BY <1>4 DEF lockVars
<1>5. QED
  BY <1>1, <1>2, <1>3, <1>4, OtherStepsLeaveLock

LEMMA OpenLockStep ==
  ASSUME OpenInv, LockDirectories, LockTypeOK', PcFollowsLock', OthersAreDead'
  PROVE  OpenInv'
<1> USE DaemonAssumption, LockAssumption
    DEF OpenInv, OpenSoFar, LockTypeOK, Dir, Goto, Return, modeVars, UPLOAD_PERMISSIONS,
        DASHBOARD_PERMISSIONS, LOCKED_PERMISSIONS
<1>1. pc \notin UrgentPc
  BY DEF LockDirectories, UrgentPc
<1>2. CASE CreateLockFile(Daemon)
  BY <1>1, <1>2 DEF CreateLockFile
<1>3. CASE WriteLockFile(Daemon)
  <2>1. lpc'[Daemon] \in {"lock_upload", "idle"} /\ perm' = perm
    BY <1>3 DEF WriteLockFile
  <2>2. QED
    BY <1>1, <1>3, <2>1 DEF WriteLockFile
<1>4. CASE LockUpload(Daemon)
  BY <1>1, <1>4 DEF LockUpload, SetDirectoryPermissions, SetDirectoryPermissionsFails
<1>5. CASE LockDashboard(Daemon)
  BY <1>1, <1>5 DEF LockDashboard, SetDirectoryPermissions, SetDirectoryPermissionsFails
<1>6. CASE RestoreUpload(Daemon) \/ RemoveAfterRestore(Daemon) \/ RemoveAgain(Daemon)
  <2>1. chmod_failed'
    BY <1>6 DEF RestoreUpload, RemoveAfterRestore, RemoveAgain,
                SetDirectoryPermissions, SetDirectoryPermissionsFails
  <2>2. QED
    BY <2>1
<1>7. QED
  BY <1>2, <1>3, <1>4, <1>5, <1>6 DEF LockDirectories, LockStep

LEMMA OpenUnlockStep ==
  ASSUME OpenInv, UnlockDirectories, LockTypeOK', PcFollowsLock', OthersAreDead'
  PROVE  OpenInv'
<1> USE DaemonAssumption, LockAssumption
    DEF OpenInv, OpenSoFar, LockTypeOK, Dir, Goto, modeVars, UPLOAD_PERMISSIONS,
        DASHBOARD_PERMISSIONS, LOCKED_PERMISSIONS
<1>1. pc \notin UrgentPc
  BY DEF UnlockDirectories, UrgentPc
<1>2. CASE UnlockUpload(Daemon)
  BY <1>1, <1>2 DEF UnlockUpload, SetDirectoryPermissions, SetDirectoryPermissionsFails
<1>3. CASE UnlockDashboard(Daemon)
  BY <1>1, <1>3 DEF UnlockDashboard, SetDirectoryPermissions, SetDirectoryPermissionsFails
<1>4. CASE UnlockFile(Daemon)
  BY <1>1, <1>4 DEF UnlockFile
<1>5. QED
  BY <1>2, <1>3, <1>4 DEF UnlockDirectories, UnlockStep

\* An urgent change opens the dashboard only until it has restored it.
LEMMA OpenUrgentStep ==
  ASSUME OpenInv, BeginUrgentChange \/ RestoreDashboard,
         LockTypeOK', PcFollowsLock', OthersAreDead'
  PROVE  OpenInv'
<1>1. /\ UNCHANGED <<lock_file, lpc, lresult>>
      /\ perm'["upload"] = perm["upload"] /\ lpc[Daemon] = "idle"
  BY UrgentStep, PcUrgentStep DEF OpenInv
<1>2. ~chmod_failed' /\ pc' \notin UrgentPc => perm'["dashboard"] = DASHBOARD_PERMISSIONS
  BY <1>1 DEF BeginUrgentChange, RestoreDashboard, SetDirectoryPermissions,
              SetDirectoryPermissionsFails, OpenInv, OpenSoFar, LockTypeOK, UrgentPc, Dir,
              modeVars
<1>3. QED
  BY <1>1, <1>2, UrgentStep DEF OpenInv, OpenSoFar

\* Only RestoreDashboard leaves the statements of an urgent change.
LEMMA OpenOtherStep ==
  ASSUME OpenInv, [DaemonNext]_daemonVars, UNCHANGED lockVars,
         ~LockDirectories, ~UnlockDirectories, ~BeginUrgentChange, ~RestoreDashboard,
         LockTypeOK', PcFollowsLock', OthersAreDead'
  PROVE  OpenInv'
<1>1. pc \in UrgentPc => pc' \in UrgentPc
  BY DEF DaemonNext, DaemonStep, daemonVars, ExitLoop, CheckTime, SpawnTransfer,
         SpawnBackup, RunInWindow, ResetFlag, MonitorDirectory, HandleForceBackup,
         ReceiveMessage, WriteUrgentChange, EndIteration, DaemonCleanup,
         SignalHandler, ChildFinish, ChildReport, ClientSend, Tick, UrgentPc,
         loopVars
<1>2. QED
  BY <1>1 DEF OpenInv, OpenSoFar, lockVars, modeVars

LEMMA DaemonInitIsOpen ==
  ASSUME DaemonInit
  PROVE  OpenInv /\ FileRemoved
<1>1. LockTypeOK
  BY LockAssumption DEF DaemonInit, LockTypeOK, LockPc
<1>2. lpc[Daemon] = "idle" /\ pc = "check" /\ lock_file # Daemon /\ OthersAreDead
  BY DaemonAssumption, LockAssumption DEF DaemonInit, OthersAreDead
<1>3. ~chmod_failed => /\ perm["upload"] = UPLOAD_PERMISSIONS
                       /\ perm["dashboard"] = DASHBOARD_PERMISSIONS
  BY DEF DaemonInit, NormalPermissions, Dir
<1>4. QED
  BY <1>1, <1>2, <1>3 DEF OpenInv, OpenSoFar, FileRemoved, PcFollowsLock, WindowPc

THEOREM DaemonOpenInvariant == DaemonSpec => []OpenInv
<1>1. DaemonTypeOK /\ OpenInv /\ [DaemonNext]_daemonVars => OpenInv'
  <2> SUFFICES ASSUME DaemonTypeOK, OpenInv, [DaemonNext]_daemonVars PROVE OpenInv'
    OBVIOUS
  <2>1. LockTypeOK' /\ PcFollowsLock' /\ OthersAreDead'
    BY DaemonLockTypes, PcFollowsLockStep, OthersStayDead DEF OpenInv, DaemonTypeOK
  <2>2. QED
    BY <2>1, OpenLockStep, OpenUnlockStep, OpenUrgentStep, OpenOtherStep,
       OtherStepsLeaveLock
<1>2. QED
  BY <1>1, DaemonInitIsOpen, DaemonTypeCorrect, PTL DEF DaemonSpec
--------------------------------------------------------------------------------
\* While unlink() works the daemon comes out of lock_directories() and of
\* unlock_directories() without a lock file of its own.
LEMMA FileRemovedStep ==
  ASSUME "unlink" \notin FileFaults, OpenInv, OpenInv', FileRemoved, [DaemonNext]_daemonVars
  PROVE  FileRemoved'
<1> USE DaemonAssumption, LockAssumption
    DEF OpenInv, OpenSoFar, FileRemoved, LockTypeOK, Goto, modeVars
<1>1. chmod_failed => chmod_failed'
  <2>1. CASE LockDirectories
    BY <2>1 DEF LockDirectories, LockStep, CreateLockFile, WriteLockFile, LockUpload,
                LockDashboard, RestoreUpload, RemoveAfterRestore, RemoveAgain,
                SetDirectoryPermissions, SetDirectoryPermissionsFails
  <2>2. CASE UnlockDirectories
    BY <2>2 DEF UnlockDirectories, UnlockStep, UnlockUpload, UnlockDashboard, UnlockFile,
                SetDirectoryPermissions, SetDirectoryPermissionsFails
  <2>3. CASE BeginUrgentChange \/ RestoreDashboard
    BY <2>3, UrgentStep
  <2>4. CASE UNCHANGED lockVars
    BY <2>4 DEF lockVars
  <2>5. QED
    BY <2>1, <2>2, <2>3, <2>4, OtherStepsLeaveLock
<1>2. CASE LockDirectories
  <2>1. CASE CreateLockFile(Daemon)
    BY <1>1, <2>1 DEF CreateLockFile
  <2>2. CASE WriteLockFile(Daemon)
    BY <2>2 DEF WriteLockFile, RemoveLockFile
  <2>3. CASE LockUpload(Daemon)
    BY <2>3 DEF LockUpload
  <2>4. CASE LockDashboard(Daemon)
    BY <2>4 DEF LockDashboard
  <2>5. CASE RestoreUpload(Daemon) \/ RemoveAfterRestore(Daemon)
    BY <2>5 DEF RestoreUpload, RemoveAfterRestore
  <2>6. CASE RemoveAgain(Daemon)
    BY <2>6 DEF RemoveAgain, RemoveLockFile
  <2>7. QED
    BY <1>2, <2>1, <2>2, <2>3, <2>4, <2>5, <2>6 DEF LockDirectories, LockStep
<1>3. CASE UnlockDirectories
  BY <1>3 DEF UnlockDirectories, UnlockStep, UnlockUpload, UnlockDashboard, UnlockFile,
              RemoveLockFile
<1>4. CASE BeginUrgentChange \/ RestoreDashboard
  BY <1>1, <1>4, UrgentStep
<1>5. CASE UNCHANGED lockVars
  BY <1>5 DEF lockVars
<1>6. QED
  BY <1>2, <1>3, <1>4, <1>5, OtherStepsLeaveLock

(***************************************************************************)
(* Outside its blocks the daemon leaves the directories as users expect    *)
(* them and no lock file behind, in particular when it has stopped, as     *)
(* long as no chmod() has failed.  (Where unlink() fails, the lock file of *)
(* a finished window stays.)                                               *)
(***************************************************************************)
THEOREM DaemonOutsideIsOpen ==
  ASSUME "unlink" \notin FileFaults
  PROVE  DaemonSpec => []OutsideIsOpen
<1>1. OpenInv /\ OpenInv' /\ FileRemoved /\ [DaemonNext]_daemonVars => FileRemoved'
  BY FileRemovedStep
<1>2. OpenInv /\ FileRemoved => OutsideIsOpen
  <2> SUFFICES ASSUME OpenInv, FileRemoved, ~chmod_failed,
                      pc \notin (BlockPc \ {"reset"}) \cup UrgentPc
               PROVE  perm = NormalPermissions /\ lock_file # Daemon
    BY DEF OutsideIsOpen
  <2>1. lpc[Daemon] = "idle"
    BY DEF OpenInv, PcFollowsLock, BlockPc, WindowPc
  <2>2. /\ lock_file # Daemon
        /\ perm["upload"] = UPLOAD_PERMISSIONS
        /\ perm["dashboard"] = DASHBOARD_PERMISSIONS
    BY <2>1 DEF OpenInv, OpenSoFar, FileRemoved
  <2>3. perm = [d \in Dir |-> perm[d]]
    BY DEF OpenInv, LockTypeOK
  <2>4. QED
    BY <2>2, <2>3 DEF NormalPermissions, Dir
<1>3. QED
  BY <1>1, <1>2, DaemonInitIsOpen, DaemonOpenInvariant, PTL DEF DaemonSpec
--------------------------------------------------------------------------------
\* What the abstract maintenance window sees of each step of the daemon.
LEMMA DaemonStepSimulates ==
  ASSUME WindowInv, OpenInv, [DaemonNext]_daemonVars
  PROVE  [Window!Next]_(Window!vars)
<1> DEFINE Held == {p \in Proc : lpc[p] = "locked"}
           Closed == \A d \in Dir : perm[d] = LOCKED_PERMISSIONS
<1> USE DaemonAssumption, LockAssumption
    DEF OpenInv, OpenSoFar, OthersAreDead, LockTypeOK, Dir, Goto, modeVars,
        UPLOAD_PERMISSIONS, DASHBOARD_PERMISSIONS, LOCKED_PERMISSIONS
<1>1. Closed <=> perm["upload"] = LOCKED_PERMISSIONS /\ perm["dashboard"] = LOCKED_PERMISSIONS
  OBVIOUS
<1>2. Closed' <=> perm'["upload"] = LOCKED_PERMISSIONS /\ perm'["dashboard"] = LOCKED_PERMISSIONS
  OBVIOUS
<1> SUFFICES ASSUME ~chmod_failed'
             PROVE  Window!Next \/ UNCHANGED <<Held, Closed, chmod_failed>>
  BY DEF Window!Next, Window!vars
<1>3. Held = IF lpc[Daemon] = "locked" THEN {Daemon} ELSE {}
  OBVIOUS
<1>4. CASE LockDirectories
  <2>0. ~chmod_failed
    BY <1>4 DEF LockDirectories, LockStep, CreateLockFile, WriteLockFile, LockUpload,
                LockDashboard, RestoreUpload, RemoveAfterRestore, RemoveAgain,
                SetDirectoryPermissions, SetDirectoryPermissionsFails
  <2>1. pc \notin UrgentPc
    BY <1>4 DEF LockDirectories, UrgentPc
  <2>2. CASE LockDashboard(Daemon)
    <3>1. lpc[Daemon] = "lock_dashboard" /\ lpc' = [lpc EXCEPT ![Daemon] = "locked"]
      BY <2>0, <2>2 DEF LockDashboard, SetDirectoryPermissionsFails
    <3>2. Held = {} /\ Held' = {Daemon}
      BY <1>3, <3>1
    <3>3. ~Closed
      BY <1>1, <2>0, <2>1, <3>1
    <3>4. Closed'
      <4>1. perm["upload"] = LOCKED_PERMISSIONS
        BY <2>0, <3>1 DEF WindowInv, OwnLock
      <4>2. QED
        BY <1>2, <2>2, <4>1
           DEF LockDashboard, SetDirectoryPermissions, SetDirectoryPermissionsFails
    <3>5. QED
      BY <2>0, <3>2, <3>3, <3>4 DEF Window!Next, Window!Open
  <2>3. CASE LockUpload(Daemon)
    <3>1. ~Closed /\ ~Closed'
      BY <1>1, <1>2, <2>0, <2>1, <2>3
         DEF LockUpload, SetDirectoryPermissions, SetDirectoryPermissionsFails
    <3>2. QED
      BY <2>0, <2>3, <3>1
         DEF LockUpload, SetDirectoryPermissions, SetDirectoryPermissionsFails
  <2>4. CASE CreateLockFile(Daemon) \/ WriteLockFile(Daemon)
    BY <2>4 DEF CreateLockFile, WriteLockFile
  <2>5. ~(RestoreUpload(Daemon) \/ RemoveAfterRestore(Daemon) \/ RemoveAgain(Daemon))
    BY <2>0 DEF RestoreUpload, RemoveAfterRestore, RemoveAgain
  <2>6. QED
    BY <1>4, <2>2, <2>3, <2>4, <2>5 DEF LockDirectories, LockStep
<1>5. CASE UnlockDirectories
  <2>0. ~chmod_failed
    BY <1>5 DEF UnlockDirectories, UnlockStep, UnlockUpload, UnlockDashboard, UnlockFile,
                SetDirectoryPermissions, SetDirectoryPermissionsFails
  <2>1. CASE UnlockUpload(Daemon)
    <3>1. Held = {Daemon} /\ Held' = {}
      BY <1>3, <2>1 DEF UnlockUpload
    <3>2. ~Closed'
      BY <1>2, <2>1
         DEF UnlockUpload, SetDirectoryPermissions, SetDirectoryPermissionsFails
    <3>3. QED
      BY <2>0, <3>1, <3>2 DEF Window!Next, Window!Close
  <2>2. CASE UnlockDashboard(Daemon)
    <3>1. ~Closed /\ ~Closed'
      BY <1>1, <1>2, <2>0, <2>2
         DEF UnlockDashboard, SetDirectoryPermissions, SetDirectoryPermissionsFails
    <3>2. QED
      BY <2>0, <2>2, <3>1
         DEF UnlockDashboard, SetDirectoryPermissions, SetDirectoryPermissionsFails
  <2>3. CASE UnlockFile(Daemon)
    BY <2>3 DEF UnlockFile
  <2>4. QED
    BY <1>5, <2>1, <2>2, <2>3 DEF UnlockDirectories, UnlockStep
<1>6. CASE BeginUrgentChange \/ RestoreDashboard
  <2>1. /\ UNCHANGED lpc /\ perm'["upload"] = perm["upload"]
        /\ ~chmod_failed /\ lpc[Daemon] = "idle" /\ chmod_failed' \in BOOLEAN
    BY <1>6, UrgentStep, PcUrgentStep
  <2>2. ~Closed /\ ~Closed'
    BY <1>1, <1>2, <2>1
  <2>3. QED
    BY <2>1, <2>2
<1>7. CASE UNCHANGED lockVars
  BY <1>7 DEF lockVars
<1>8. QED
  BY <1>4, <1>5, <1>6, <1>7, OtherStepsLeaveLock

(***************************************************************************)
(* The daemon as a whole implements the maintenance window: its two        *)
(* blocks, urgent changes in between, signals, children and clients, and   *)
(* any failing call, open and close windows one at a time.                 *)
(***************************************************************************)
THEOREM DaemonImplementsWindow == DaemonSpec => WindowSpec
<1>1. DaemonInit => Window!Init
  <2> SUFFICES ASSUME DaemonInit PROVE Window!Init
    OBVIOUS
  <2>1. {p \in Proc : lpc[p] = "locked"} = {}
    BY DEF DaemonInit
  <2>2. chmod_failed \in BOOLEAN
    BY DEF DaemonInit
  <2>3. chmod_failed \/ (\A d \in Dir : perm[d] = LOCKED_PERMISSIONS) = FALSE
    BY DEF DaemonInit, NormalPermissions, Dir, UPLOAD_PERMISSIONS, LOCKED_PERMISSIONS
  <2>4. QED
    BY <2>1, <2>2, <2>3 DEF Window!Init
<1>2. WindowInv /\ OpenInv /\ [DaemonNext]_daemonVars => [Window!Next]_(Window!vars)
  BY DaemonStepSimulates
<1>3. QED
  BY <1>1, <1>2, DaemonWindowInvariant, DaemonOpenInvariant, PTL
     DEF DaemonSpec, WindowSpec, Window!Spec
--------------------------------------------------------------------------------
(***************************************************************************)
(* The check-time bookkeeping through the shared buffer of localtime() is  *)
(* enough for one thing: no scheduled transfer starts twice in a minute.   *)
(***************************************************************************)
THEOREM DaemonOncePerMinute == DaemonSpec => []OncePerMinute
<1>1. DaemonInit => OnceInv
  BY DEF DaemonInit, OnceInv
<1>2. DaemonTypeOK /\ OnceInv /\ [DaemonNext]_daemonVars => OnceInv'
  <2> SUFFICES ASSUME DaemonTypeOK, OnceInv, [DaemonNext]_daemonVars PROVE OnceInv'
    OBVIOUS
  <2> USE DEF DaemonTypeOK, OnceInv, Log, MayLog, Environment, historyVars, checkVars,
              loopVars
  <2>1. CASE ExitLoop \/ CheckTime
    BY <2>1 DEF ExitLoop, CheckTime, ReadClock, ScheduleDue
  <2>2. CASE LockDirectories \/ UnlockDirectories
    BY <2>2 DEF LockDirectories, UnlockDirectories
  <2>3. CASE SpawnTransfer \/ SpawnBackup
    BY <2>3 DEF SpawnTransfer, SpawnBackup, CreateReportingProcess
  <2>4. CASE RunInWindow \/ ResetFlag \/ MonitorDirectory \/ HandleForceBackup
    BY <2>4 DEF RunInWindow, ResetFlag, MonitorDirectory, HandleForceBackup
  <2>5. CASE ReceiveMessage \/ BeginUrgentChange \/ WriteUrgentChange \/ RestoreDashboard
    BY <2>5 DEF ReceiveMessage, BeginUrgentChange, WriteUrgentChange, RestoreDashboard
  <2>6. CASE EndIteration \/ DaemonCleanup
    BY <2>6 DEF EndIteration, DaemonCleanup
  <2>7. ASSUME NEW sig \in Signal, SignalHandler(sig) PROVE OnceInv'
    BY <2>7 DEF SignalHandler
  <2>8. ASSUME NEW c \in Child, ChildFinish(c) \/ ChildReport(c) PROVE OnceInv'
    BY <2>8 DEF ChildFinish, ChildReport
  <2>9. CASE ClientSend
    BY <2>9 DEF ClientSend
  <2>10. CASE Tick
    BY <2>10 DEF Tick
  <2>11. CASE UNCHANGED daemonVars
    BY <2>11 DEF daemonVars
  <2>12. QED
    BY <2>1, <2>2, <2>3, <2>4, <2>5, <2>6, <2>7, <2>8, <2>9, <2>10, <2>11
       DEF DaemonNext, DaemonStep
<1>3. OnceInv => OncePerMinute
  BY DEF OnceInv, OncePerMinute
<1>4. QED
  BY <1>1, <1>2, <1>3, DaemonTypeCorrect, PTL DEF DaemonSpec
--------------------------------------------------------------------------------
(***************************************************************************)
(* The FIFO within the daemon: children and clients send, the loop reads,  *)
(* and nobody else touches the stream, unless the init script writes text. *)
(***************************************************************************)
LEMMA DaemonStepIsFifoStep ==
  ASSUME DaemonNext, ~ScriptRuns
  PROVE  [FifoNext]_fifoVars
<1> USE DaemonAssumption DEF FifoNext, fifoVars
<1>1. CASE ReceiveMessage
  BY <1>1 DEF ReceiveMessage, Receive
<1>2. ASSUME NEW c \in Child, ChildReport(c) PROVE [FifoNext]_fifoVars
  <2>1. PICK o \in Operation : SendIpcMessage(Completion(o, c)) /\ UNCHANGED msg
    BY <1>2 DEF ChildReport
  <2>2. Completion(o, c) \in Message
    OBVIOUS
  <2>3. QED BY <2>1, <2>2
<1>3. CASE ClientSend
  BY <1>3 DEF ClientSend
<1>4. CASE UNCHANGED fifoVars
  BY <1>4
<1>5. QED
  BY <1>1, <1>2, <1>3, <1>4
     DEF DaemonNext, DaemonStep, ExitLoop, CheckTime, LockDirectories, SpawnTransfer, SpawnBackup,
         RunInWindow, UnlockDirectories, ResetFlag, MonitorDirectory, HandleForceBackup,
         BeginUrgentChange, WriteUrgentChange, RestoreDashboard, EndIteration, DaemonCleanup,
         SignalHandler, ChildFinish, Tick

LEMMA DaemonRunsFifo ==
  ASSUME ~ScriptRuns
  PROVE  DaemonSpec => FifoSpec
<1>1. DaemonInit => FifoInit
  BY DEF DaemonInit
<1>2. [DaemonNext]_daemonVars => [FifoNext]_fifoVars
  BY DaemonStepIsFifoStep DEF daemonVars, fifoVars
<1>3. QED BY <1>1, <1>2, PTL DEF DaemonSpec, FifoSpec

(***************************************************************************)
(* As long as the script's urgent_change is not used, every read of the    *)
(* daemon's loop begins at the beginning of a message, whoever wrote it    *)
(* and however many writes the full FIFO refused.                          *)
(***************************************************************************)
THEOREM DaemonFifoIsFramed ==
  ASSUME ~ScriptRuns
  PROVE  DaemonSpec => []Framed
BY DaemonRunsFifo, FifoIsFramed

(***************************************************************************)
(* ... and what children and clients send reaches the switch of the loop   *)
(* (daemon.c:373) as through a bounded queue: whole, once and in order.    *)
(***************************************************************************)
THEOREM DaemonImplementsQueue ==
  ASSUME ~ScriptRuns
  PROVE  DaemonSpec => QueueSpec
BY DaemonRunsFifo, FifoImplementsQueue
================================================================================
