-------------------------- MODULE DirectoryLockProofs --------------------------
(***************************************************************************)
(* Proofs about DirectoryLock, for every set of processes.                 *)
(*                                                                         *)
(* Every call may fail and SIGKILL may hit any process.  Types hold        *)
(* throughout, the rest up to the first chmod() that fails: after it       *)
(* lock_directories() removes the lock file twice (backup.c:141 and 154),  *)
(* the second time perhaps another process's.                              *)
(***************************************************************************)
EXTENDS DirectoryLock, TLAPS

LEMMA LockTypeStep ==
  ASSUME LockTypeOK, [LockNext]_lockVars
  PROVE  LockTypeOK'
<1> USE LockAssumption DEF LockTypeOK, LockPc, Mode, Dir, Goto, Return, modeVars,
        LOCKED_PERMISSIONS, UPLOAD_PERMISSIONS, DASHBOARD_PERMISSIONS
<1>1. ASSUME NEW p \in Proc, LockStep(p) PROVE LockTypeOK'
  <2>1. CASE CreateLockFile(p) BY <2>1 DEF CreateLockFile
  <2>2. CASE WriteLockFile(p) BY <2>2 DEF WriteLockFile, RemoveLockFile
  <2>3. CASE LockUpload(p)
    BY <2>3 DEF LockUpload, RemoveLockFile, SetDirectoryPermissions,
                SetDirectoryPermissionsFails
  <2>4. CASE LockDashboard(p)
    BY <2>4 DEF LockDashboard, SetDirectoryPermissions, SetDirectoryPermissionsFails
  <2>5. CASE RestoreUpload(p)
    BY <2>5 DEF RestoreUpload, SetDirectoryPermissions, SetDirectoryPermissionsFails
  <2>6. CASE RemoveAfterRestore(p)
    BY <2>6 DEF RemoveAfterRestore, RemoveLockFile
  <2>7. CASE RemoveAgain(p) BY <2>7 DEF RemoveAgain, RemoveLockFile
  <2>8. QED
    BY <1>1, <2>1, <2>2, <2>3, <2>4, <2>5, <2>6, <2>7 DEF LockStep
<1>2. ASSUME NEW p \in Proc, UnlockStep(p) PROVE LockTypeOK'
  <2>1. CASE UnlockUpload(p)
    BY <2>1 DEF UnlockUpload, SetDirectoryPermissions, SetDirectoryPermissionsFails
  <2>2. CASE UnlockDashboard(p)
    BY <2>2 DEF UnlockDashboard, SetDirectoryPermissions, SetDirectoryPermissionsFails
  <2>3. CASE UnlockFile(p) BY <2>3 DEF UnlockFile, RemoveLockFile
  <2>4. QED BY <1>2, <2>1, <2>2, <2>3 DEF UnlockStep
<1>3. ASSUME NEW p \in Proc, Kill(p) PROVE LockTypeOK'
  BY <1>3 DEF Kill
<1>4. CASE UNCHANGED lockVars
  BY <1>4 DEF lockVars
<1>5. QED
  BY <1>1, <1>2, <1>3, <1>4 DEF LockNext

(***************************************************************************)
(* Type correctness, whatever fails: every step of lock_directories() and  *)
(* unlock_directories() leaves modes, positions and results in their sets. *)
(***************************************************************************)
THEOREM LockTypeCorrect == LockSpec => []LockTypeOK
<1>1. LockInit => LockTypeOK
  BY LockAssumption
     DEF LockInit, LockTypeOK, NormalPermissions, LockPc, Mode, Dir,
         LOCKED_PERMISSIONS, UPLOAD_PERMISSIONS, DASHBOARD_PERMISSIONS
<1>2. LockTypeOK /\ [LockNext]_lockVars => LockTypeOK'
  BY LockTypeStep
<1>3. QED
  BY <1>1, <1>2, PTL DEF LockSpec

--------------------------------------------------------------------------------
LEMMA LockInvInit == LockInit => LockInv
  BY LockAssumption
     DEF LockInit, LockInv, LockTypeOK, NoErrorPath, HolderOwnsFile, HoldingPc,
         UploadFollows, DashboardFollows, ClosedHasOwner, NormalPermissions,
         Dir, Mode, LockPc, UPLOAD_PERMISSIONS, DASHBOARD_PERMISSIONS,
         LOCKED_PERMISSIONS

LEMMA LockInvStep ==
  ASSUME LockInv, [LockNext]_lockVars, LockTypeOK'
  PROVE  LockInv'
<1> USE LockAssumption
    DEF LockInv, LockTypeOK, NoErrorPath, HolderOwnsFile, HoldingPc, UploadFollows,
        DashboardFollows, ClosedHasOwner, Dir, Mode, LockPc, Goto, Return, modeVars,
        UPLOAD_PERMISSIONS, DASHBOARD_PERMISSIONS, LOCKED_PERMISSIONS
<1>1. ASSUME NEW p \in Proc, CreateLockFile(p) PROVE LockInv'
  BY <1>1 DEF CreateLockFile
<1>2. ASSUME NEW p \in Proc, WriteLockFile(p) PROVE LockInv'
  BY <1>2 DEF WriteLockFile, RemoveLockFile
<1>3. ASSUME NEW p \in Proc, LockUpload(p) PROVE LockInv'
  BY <1>3 DEF LockUpload, SetDirectoryPermissions, SetDirectoryPermissionsFails
<1>4. ASSUME NEW p \in Proc, LockDashboard(p) PROVE LockInv'
  BY <1>4 DEF LockDashboard, SetDirectoryPermissions, SetDirectoryPermissionsFails
<1>5. ASSUME NEW p \in Proc, RestoreUpload(p) \/ RemoveAfterRestore(p) \/ RemoveAgain(p)
      PROVE LockInv'
  <2>1. chmod_failed'
    BY <1>5 DEF RestoreUpload, RemoveAfterRestore, RemoveAgain,
                SetDirectoryPermissions, SetDirectoryPermissionsFails
  <2>2. QED
    BY <2>1
<1>6. ASSUME NEW p \in Proc, UnlockUpload(p) PROVE LockInv'
  BY <1>6 DEF UnlockUpload, SetDirectoryPermissions, SetDirectoryPermissionsFails
<1>7. ASSUME NEW p \in Proc, UnlockDashboard(p) PROVE LockInv'
  BY <1>7 DEF UnlockDashboard, SetDirectoryPermissions, SetDirectoryPermissionsFails
<1>8. ASSUME NEW p \in Proc, UnlockFile(p) PROVE LockInv'
  BY <1>8 DEF UnlockFile, RemoveLockFile
<1>9. ASSUME NEW p \in Proc, Kill(p) PROVE LockInv'
  BY <1>9 DEF Kill
<1>10. CASE UNCHANGED lockVars
  BY <1>10 DEF lockVars
<1>11. QED
  BY <1>1, <1>2, <1>3, <1>4, <1>5, <1>6, <1>7, <1>8, <1>9, <1>10
     DEF LockNext, LockStep, UnlockStep

THEOREM LockInvariant == LockSpec => []LockInv
<1>1. LockTypeOK /\ LockTypeOK' /\ LockInv /\ [LockNext]_lockVars => LockInv'
  BY LockInvStep
<1>2. QED
  BY LockInvInit, LockTypeCorrect, <1>1, PTL DEF LockSpec

(***************************************************************************)
(* backup.c:133, the purpose of the lock file: no two processes are in     *)
(* their window at once, for any number of processes and with SIGKILL.     *)
(***************************************************************************)
THEOREM LockMutualExclusion == LockSpec => []MutualExclusion
<1>1. LockInv => MutualExclusion
  BY DEF LockInv, HolderOwnsFile, HoldingPc, MutualExclusion
<1>2. QED BY LockInvariant, <1>1, PTL

(***************************************************************************)
(* A process whose lock_directories() succeeded finds its own lock file    *)
(* and both directories closed, until it unlocks.                          *)
(***************************************************************************)
THEOREM LockWindowIsLocked == LockSpec => []WindowIsLocked
<1>1. LockInv => WindowIsLocked
  BY DEF LockInv, HolderOwnsFile, HoldingPc, UploadFollows, DashboardFollows,
         WindowIsLocked, Dir
<1>2. QED BY LockInvariant, <1>1, PTL

LEMMA LeftoversOwnedStep ==
  ASSUME "unlink" \notin FileFaults, LockInv, LockInv', LeftoversOwned, [LockNext]_lockVars
  PROVE  LeftoversOwned'
<1> USE LockAssumption
    DEF LockInv, LockTypeOK, NoErrorPath, HolderOwnsFile, HoldingPc, LeftoversOwned, OwnedBy,
        Dir, Mode, LockPc, Goto, modeVars,
        UPLOAD_PERMISSIONS, DASHBOARD_PERMISSIONS, LOCKED_PERMISSIONS
<1>1. ASSUME NEW p \in Proc, CreateLockFile(p) PROVE LeftoversOwned'
  BY <1>1 DEF CreateLockFile
<1>2. ASSUME NEW p \in Proc, WriteLockFile(p) PROVE LeftoversOwned'
  BY <1>2 DEF WriteLockFile, RemoveLockFile
<1>3. ASSUME NEW p \in Proc, LockUpload(p) PROVE LeftoversOwned'
  BY <1>3 DEF LockUpload, SetDirectoryPermissions, SetDirectoryPermissionsFails
<1>4. ASSUME NEW p \in Proc, LockDashboard(p) PROVE LeftoversOwned'
  BY <1>4 DEF LockDashboard, SetDirectoryPermissions, SetDirectoryPermissionsFails
<1>5. ASSUME NEW p \in Proc, RestoreUpload(p) \/ RemoveAfterRestore(p) \/ RemoveAgain(p)
      PROVE LeftoversOwned'
  <2>1. chmod_failed'
    BY <1>5 DEF RestoreUpload, RemoveAfterRestore, RemoveAgain,
                SetDirectoryPermissions, SetDirectoryPermissionsFails
  <2>2. QED
    BY <2>1
<1>6. ASSUME NEW p \in Proc, UnlockUpload(p) PROVE LeftoversOwned'
  BY <1>6 DEF UnlockUpload, SetDirectoryPermissions, SetDirectoryPermissionsFails
<1>7. ASSUME NEW p \in Proc, UnlockDashboard(p) PROVE LeftoversOwned'
  BY <1>7 DEF UnlockDashboard, SetDirectoryPermissions, SetDirectoryPermissionsFails
<1>8. ASSUME NEW p \in Proc, UnlockFile(p) PROVE LeftoversOwned'
  BY <1>8 DEF UnlockFile, RemoveLockFile
<1>9. ASSUME NEW p \in Proc, Kill(p) PROVE LeftoversOwned'
  BY <1>9 DEF Kill
<1>10. CASE UNCHANGED lockVars
  BY <1>10 DEF lockVars
<1>11. QED
  BY <1>1, <1>2, <1>3, <1>4, <1>5, <1>6, <1>7, <1>8, <1>9, <1>10
     DEF LockNext, LockStep, UnlockStep

(***************************************************************************)
(* As long as chmod() and unlink() work, processes that are refused the    *)
(* lock, fail to write it or finish their window leave no lock file and no *)
(* closed directory behind, for any number of them in any order.  Where    *)
(* unlink() fails the file of a finished window does stay.                 *)
(***************************************************************************)
THEOREM LockQuiescentIsOpen ==
  ASSUME "unlink" \notin FileFaults
  PROVE  LockSpec => []QuiescentIsOpen
<1>1. LockInit => LeftoversOwned
  BY DEF LockInit, LeftoversOwned, NormalPermissions, Dir
<1>2. LockInv /\ LockInv' /\ LeftoversOwned /\ [LockNext]_lockVars => LeftoversOwned'
  BY LeftoversOwnedStep
<1>3. LockInv /\ LeftoversOwned => QuiescentIsOpen
  <2> SUFFICES ASSUME LockInv, LeftoversOwned, ~chmod_failed, \A p \in Proc : lpc[p] = "idle"
               PROVE  lock_file = NoProc /\ perm = NormalPermissions
    BY DEF QuiescentIsOpen
  <2>1. lock_file = NoProc
    BY DEF LockInv, LockTypeOK, LeftoversOwned, OwnedBy, HoldingPc
  <2>2. perm["upload"] = UPLOAD_PERMISSIONS /\ perm["dashboard"] = DASHBOARD_PERMISSIONS
    BY <2>1 DEF LeftoversOwned, OwnedBy
  <2>3. QED BY <2>1, <2>2 DEF LockInv, LockTypeOK, NormalPermissions, Dir
<1>4. QED
  BY LockInvariant, <1>1, <1>2, <1>3, PTL DEF LockSpec

(***************************************************************************)
(* The unlink() calls of one process never remove the lock of another.     *)
(***************************************************************************)
THEOREM LockIsNotStolen == LockSpec => LockNotStolen
<1> DEFINE Kept == ~chmod_failed' => \A p \in Proc :
             lock_file = p /\ lock_file' # p => lpc'[p] # lpc[p]
<1>1. LockInv /\ [LockNext]_lockVars => [Kept]_lockVars
  <2> SUFFICES ASSUME LockInv, LockNext PROVE Kept
    OBVIOUS
  <2> USE LockAssumption DEF LockInv, LockTypeOK, NoErrorPath, HolderOwnsFile,
          HoldingPc, LockPc, Goto, Return, modeVars
  <2>1. PICK q \in Proc : LockStep(q) \/ UnlockStep(q) \/ Kill(q)
    BY DEF LockNext
  <2>2. CASE LockStep(q)
    BY <2>2 DEF LockStep, CreateLockFile, WriteLockFile, LockUpload, LockDashboard,
                RestoreUpload, RemoveAfterRestore, RemoveAgain, RemoveLockFile,
                SetDirectoryPermissions, SetDirectoryPermissionsFails
  <2>3. CASE UnlockStep(q)
    BY <2>3 DEF UnlockStep, UnlockUpload, UnlockDashboard, UnlockFile, RemoveLockFile
  <2>4. CASE Kill(q)
    BY <2>4 DEF Kill
  <2>5. QED BY <2>1, <2>2, <2>3, <2>4
<1>2. QED BY LockInvariant, <1>1, PTL DEF LockSpec, LockNotStolen

(***************************************************************************)
(* lock_directories() and unlock_directories() implement the maintenance   *)
(* window: every step of the detailed specification opens, closes or       *)
(* abandons a window, or changes nothing the abstract specification sees.  *)
(***************************************************************************)
LEMMA LockStepSimulates ==
  ASSUME LockInv, [LockNext]_lockVars
  PROVE  [Window!Next]_(Window!vars)
<1> DEFINE Held == {p \in Proc : lpc[p] = "locked"}
           Closed == \A d \in Dir : perm[d] = LOCKED_PERMISSIONS
<1> USE LockAssumption
    DEF LockInv, LockTypeOK, NoErrorPath, HolderOwnsFile, HoldingPc, UploadFollows,
        DashboardFollows, ClosedHasOwner, Dir, Mode, LockPc, Goto, Return, modeVars,
        UPLOAD_PERMISSIONS, DASHBOARD_PERMISSIONS, LOCKED_PERMISSIONS
<1>1. Closed <=> perm["upload"] = LOCKED_PERMISSIONS /\ perm["dashboard"] = LOCKED_PERMISSIONS
  OBVIOUS
<1>2. Closed' <=> perm'["upload"] = LOCKED_PERMISSIONS /\ perm'["dashboard"] = LOCKED_PERMISSIONS
  OBVIOUS
<1> SUFFICES ASSUME LockNext, ~chmod_failed'
             PROVE  Window!Next \/ UNCHANGED <<Held, Closed, chmod_failed>>
  <2>1. CASE UNCHANGED lockVars
    BY <2>1 DEF lockVars, Window!vars
  <2>2. CASE chmod_failed'
    BY <2>2 DEF Window!Next
  <2>3. QED
    BY <2>1, <2>2 DEF Window!vars
<1>c. ~chmod_failed
  BY DEF LockNext, LockStep, UnlockStep, CreateLockFile, WriteLockFile, LockUpload,
         LockDashboard, RestoreUpload, RemoveAfterRestore, RemoveAgain, UnlockUpload,
         UnlockDashboard, UnlockFile, Kill, SetDirectoryPermissions,
         SetDirectoryPermissionsFails
<1> USE <1>c
<1>3. \A p \in Proc : lpc[p] = "locked" => Held = {p}
  OBVIOUS
<1>4. ASSUME NEW p \in Proc, LockDashboard(p) PROVE Window!Next
  <2>1. lpc[p] = "lock_dashboard" /\ lpc' = [lpc EXCEPT ![p] = "locked"]
    BY <1>4 DEF LockDashboard, SetDirectoryPermissionsFails
  <2>2. Held = {}
    BY <2>1
  <2>3. Held' = {p}
    BY <2>1, <2>2
  <2>4. ~Closed /\ Closed'
    BY <2>1, <1>1, <1>2, <1>4
       DEF LockDashboard, SetDirectoryPermissions, SetDirectoryPermissionsFails
  <2>5. QED
    BY <2>2, <2>3, <2>4 DEF Window!Next, Window!Open
<1>5. ASSUME NEW p \in Proc, UnlockUpload(p) PROVE Window!Next
  <2>1. Held = {p}
    BY <1>3, <1>5 DEF UnlockUpload
  <2>2. Held' = {}
    BY <2>1, <1>5 DEF UnlockUpload
  <2>3. ~Closed'
    BY <1>2, <1>5
       DEF UnlockUpload, SetDirectoryPermissions, SetDirectoryPermissionsFails
  <2>4. QED
    BY <2>1, <2>2, <2>3 DEF Window!Next, Window!Close
<1>6. ASSUME NEW p \in Proc, Kill(p) PROVE Window!Next \/ UNCHANGED <<Held, Closed, chmod_failed>>
  <2>1. Closed' = Closed
    BY <1>6 DEF Kill
  <2>2. CASE lpc[p] = "locked"
    <3>1. Held = {p} /\ Held' = {}
      BY <1>3, <1>6, <2>2 DEF Kill
    <3>2. QED
      BY <3>1, <2>1 DEF Window!Next, Window!Die
  <2>3. CASE lpc[p] # "locked"
    BY <1>6, <2>1, <2>3 DEF Kill
  <2>4. QED BY <2>2, <2>3
<1>7. ASSUME NEW p \in Proc, LockUpload(p) PROVE UNCHANGED <<Held, Closed, chmod_failed>>
  <2>1. ~Closed /\ ~Closed'
    BY <1>1, <1>2, <1>7
       DEF LockUpload, SetDirectoryPermissions, SetDirectoryPermissionsFails
  <2>2. QED
    BY <2>1, <1>7
       DEF LockUpload, SetDirectoryPermissions, SetDirectoryPermissionsFails
<1>8. ASSUME NEW p \in Proc, UnlockDashboard(p) PROVE UNCHANGED <<Held, Closed, chmod_failed>>
  <2>1. ~Closed /\ ~Closed'
    BY <1>1, <1>2, <1>8
       DEF UnlockDashboard, SetDirectoryPermissions, SetDirectoryPermissionsFails
  <2>2. QED
    BY <2>1, <1>8
       DEF UnlockDashboard, SetDirectoryPermissions, SetDirectoryPermissionsFails
<1>9. ASSUME NEW p \in Proc, CreateLockFile(p) \/ WriteLockFile(p) \/ UnlockFile(p)
      PROVE UNCHANGED <<Held, Closed, chmod_failed>>
  BY <1>9 DEF CreateLockFile, WriteLockFile, UnlockFile
<1>10. ASSUME NEW p \in Proc PROVE ~(RestoreUpload(p) \/ RemoveAfterRestore(p) \/ RemoveAgain(p))
  BY DEF RestoreUpload, RemoveAfterRestore, RemoveAgain
<1>11. QED
  BY <1>4, <1>5, <1>6, <1>7, <1>8, <1>9, <1>10 DEF LockNext, LockStep, UnlockStep

THEOREM LockImplementsWindow == LockSpec => WindowSpec
<1>1. LockInit => Window!Init
  BY DEF LockInit, Window!Init, NormalPermissions, Dir, UPLOAD_PERMISSIONS,
         LOCKED_PERMISSIONS
<1>2. LockInv /\ [LockNext]_lockVars => [Window!Next]_(Window!vars)
  BY LockStepSimulates
<1>3. QED
  BY LockInvariant, <1>1, <1>2, PTL DEF LockSpec, WindowSpec, Window!Spec

================================================================================
