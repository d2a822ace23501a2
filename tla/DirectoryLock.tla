----------------------------- MODULE DirectoryLock -----------------------------
(***************************************************************************)
(* The locking of the upload and reporting directories (src/src/backup.c): *)
(* a lock file created with O_EXCL, then chmod of the two directories to   *)
(* LOCKED_PERMISSIONS, and the way back.  Every system call is a step of   *)
(* its own, so several processes may interleave and any call may fail.     *)
(*                                                                         *)
(* A process runs lock_directories() from "idle".  It ends in "locked"     *)
(* (the function returned SUCCESS) or in "idle" (it returned FAILURE).     *)
(* From "locked" it runs unlock_directories() back to "idle".              *)
(***************************************************************************)
EXTENDS FiniteSets

CONSTANTS
  Proc,         \* the daemons that lock the directories
  NoProc,       \* content of an absent lock file
  ChmodFaults,  \* the directories on which chmod() may fail
  FileFaults,   \* which calls on the lock file may fail
  Killable      \* the processes that SIGKILL may hit

Dir == {"upload", "dashboard"}

ASSUME LockAssumption == /\ NoProc \notin Proc
                         /\ ChmodFaults \subseteq Dir
                         /\ FileFaults \subseteq {"open", "write", "unlink"}
                         /\ Killable \subseteq Proc

UPLOAD_PERMISSIONS == "0777"
DASHBOARD_PERMISSIONS == "0755"
LOCKED_PERMISSIONS == "0000"
Mode == {UPLOAD_PERMISSIONS, DASHBOARD_PERMISSIONS, LOCKED_PERMISSIONS}

VARIABLES
  lock_file,    \* NoProc, or the process that created LOCK_FILE
  perm,         \* the mode of each directory
  lpc,          \* where each process is in lock/unlock_directories()
  lresult,      \* the local variable "result" of lock_directories()
  chmod_failed  \* history: some chmod() of a directory has failed

modeVars == <<perm, chmod_failed>>
lockVars == <<lock_file, modeVars, lpc, lresult>>

LockPc == {"idle", "write", "lock_upload", "lock_dashboard", "restore_upload",
           "remove", "remove_again", "locked", "unlock_dashboard",
           "unlock_file", "killed"}

\* From the creation of the lock file to its removal, on the paths where
\* every chmod() succeeds.
HoldingPc == {"write", "lock_upload", "lock_dashboard", "locked",
              "unlock_dashboard", "unlock_file"}

NormalPermissions ==
  [d \in Dir |-> IF d = "upload" THEN UPLOAD_PERMISSIONS ELSE DASHBOARD_PERMISSIONS]

LockInit == /\ lock_file = NoProc
            /\ perm = NormalPermissions
            /\ lpc = [p \in Proc |-> "idle"]
            /\ lresult = [p \in Proc |-> "SUCCESS"]
            /\ chmod_failed = FALSE

Goto(p, to) == lpc' = [lpc EXCEPT ![p] = to]
Return(p, r) == lresult' = [lresult EXCEPT ![p] = r]
--------------------------------------------------------------------------------
(***************************************************************************)
(* The system calls.                                                       *)
(***************************************************************************)
\* set_directory_permissions() returning SUCCESS, and returning FAILURE.
SetDirectoryPermissions(d, mode) ==
  perm' = [perm EXCEPT ![d] = mode] /\ UNCHANGED chmod_failed
SetDirectoryPermissionsFails(d) ==
  d \in ChmodFaults /\ chmod_failed' = TRUE /\ UNCHANGED perm

\* remove_lock_file(): unlink() does not ask who created the file, and an
\* absent file (ENOENT) is a success.
RemoveLockFile ==
  \/ lock_file' = NoProc
  \/ "unlink" \in FileFaults /\ lock_file # NoProc /\ UNCHANGED lock_file

--------------------------------------------------------------------------------
(***************************************************************************)
(* lock_directories().                                                     *)
(***************************************************************************)
\* Mutant: the lock file is opened without O_EXCL.
CreateLockFileNoExcl(p) ==
  /\ lpc[p] = "idle"
  /\ lock_file' = p
  /\ Goto(p, "write") /\ Return(p, "SUCCESS")
  /\ UNCHANGED modeVars

\* open(LOCK_FILE, O_WRONLY | O_CREAT | O_EXCL) in create_lock_file().
CreateLockFile(p) ==
  /\ lpc[p] = "idle"
  /\ UNCHANGED modeVars
  /\ \/ /\ lock_file = NoProc
        /\ lock_file' = p
        /\ Goto(p, "write") /\ Return(p, "SUCCESS")
     \/ /\ lock_file # NoProc \/ "open" \in FileFaults
        /\ Return(p, "FAILURE")
        /\ UNCHANGED <<lock_file, lpc>>

\* The pid is written.  When that fails the file is unlinked at once, with
\* the result of unlink() ignored, and lock_directories() returns.
WriteLockFile(p) ==
  /\ lpc[p] = "write"
  /\ UNCHANGED modeVars
  /\ \/ /\ Goto(p, "lock_upload")
        /\ UNCHANGED <<lock_file, lresult>>
     \/ /\ "write" \in FileFaults
        /\ RemoveLockFile
        /\ Goto(p, "idle") /\ Return(p, "FAILURE")

\* Mutant: the lock of the upload directory is left out.
LockUploadSkipped(p) ==
  /\ lpc[p] = "lock_upload"
  /\ Goto(p, "lock_dashboard")
  /\ UNCHANGED <<lock_file, modeVars, lresult>>

\* chmod of the upload directory.  On failure the lock file is removed and
\* result becomes FAILURE, but control goes on to the dashboard.
LockUpload(p) ==
  /\ lpc[p] = "lock_upload"
  /\ Goto(p, "lock_dashboard")
  /\ \/ /\ SetDirectoryPermissions("upload", LOCKED_PERMISSIONS)
        /\ UNCHANGED <<lock_file, lresult>>
     \/ /\ SetDirectoryPermissionsFails("upload")
        /\ RemoveLockFile
        /\ Return(p, "FAILURE")

\* chmod of the dashboard.
LockDashboard(p) ==
  /\ lpc[p] = "lock_dashboard"
  /\ UNCHANGED <<lock_file, lresult>>
  /\ \/ /\ SetDirectoryPermissions("dashboard", LOCKED_PERMISSIONS)
        /\ Goto(p, IF lresult[p] = "SUCCESS" THEN "locked" ELSE "remove_again")
     \/ /\ SetDirectoryPermissionsFails("dashboard")
        /\ Goto(p, "restore_upload")

\* "Try to restore upload directory permissions": the result is ignored.
RestoreUpload(p) ==
  /\ lpc[p] = "restore_upload"
  /\ Goto(p, "remove")
  /\ \/ SetDirectoryPermissions("upload", UPLOAD_PERMISSIONS)
     \/ SetDirectoryPermissionsFails("upload")
  /\ UNCHANGED <<lock_file, lresult>>

\* The remove_lock_file() of the branch in which the dashboard failed.
RemoveAfterRestore(p) ==
  /\ lpc[p] = "remove"
  /\ RemoveLockFile
  /\ Return(p, "FAILURE")
  /\ Goto(p, "remove_again")
  /\ UNCHANGED modeVars

\* "if (result != SUCCESS) remove_lock_file()": a second removal on every
\* path that gets here.
RemoveAgain(p) ==
  /\ lpc[p] = "remove_again"
  /\ RemoveLockFile
  /\ Goto(p, "idle")
  /\ UNCHANGED <<modeVars, lresult>>

--------------------------------------------------------------------------------
(***************************************************************************)
(* unlock_directories().                                                   *)
(***************************************************************************)
UnlockUpload(p) ==
  /\ lpc[p] = "locked"
  /\ \/ SetDirectoryPermissions("upload", UPLOAD_PERMISSIONS)
     \/ SetDirectoryPermissionsFails("upload")
  /\ Goto(p, "unlock_dashboard")
  /\ UNCHANGED <<lock_file, lresult>>

UnlockDashboard(p) ==
  /\ lpc[p] = "unlock_dashboard"
  /\ \/ SetDirectoryPermissions("dashboard", DASHBOARD_PERMISSIONS)
     \/ SetDirectoryPermissionsFails("dashboard")
  /\ Goto(p, "unlock_file")
  /\ UNCHANGED <<lock_file, lresult>>

\* Mutant: unlock_directories() forgets remove_lock_file().
UnlockFileForgotten(p) ==
  /\ lpc[p] = "unlock_file"
  /\ Goto(p, "idle")
  /\ UNCHANGED <<lock_file, modeVars, lresult>>

UnlockFile(p) ==
  /\ lpc[p] = "unlock_file"
  /\ RemoveLockFile
  /\ Goto(p, "idle")
  /\ UNCHANGED <<modeVars, lresult>>

--------------------------------------------------------------------------------
\* SIGKILL: the last resort of the init script's "stop".  The lock file and
\* the permissions stay as they are.
Kill(p) == /\ p \in Killable /\ lpc[p] # "killed"
           /\ Goto(p, "killed")
           /\ UNCHANGED <<lock_file, modeVars, lresult>>

LockStep(p) == \/ CreateLockFile(p) \/ WriteLockFile(p)
               \/ LockUpload(p) \/ LockDashboard(p)
               \/ RestoreUpload(p) \/ RemoveAfterRestore(p) \/ RemoveAgain(p)

UnlockStep(p) == UnlockUpload(p) \/ UnlockDashboard(p) \/ UnlockFile(p)

LockNext == \E p \in Proc : LockStep(p) \/ UnlockStep(p) \/ Kill(p)

\* A process that is inside one of the two functions goes on; whether it ever
\* calls lock_directories() is the caller's affair.
LockFairness == \A p \in Proc :
  WF_lockVars(lpc[p] # "idle" /\ (LockStep(p) \/ UnlockStep(p)))

LockSpec == LockInit /\ [][LockNext]_lockVars
FairLockSpec == LockSpec /\ LockFairness
--------------------------------------------------------------------------------
LockTypeOK == /\ lock_file \in Proc \cup {NoProc}
              /\ perm \in [Dir -> Mode]
              /\ lpc \in [Proc -> LockPc]
              /\ lresult \in [Proc -> {"SUCCESS", "FAILURE"}]
              /\ chmod_failed \in BOOLEAN

(***************************************************************************)
(* "Create lock file to prevent race conditions" (backup.c:133): no two    *)
(* processes are between a successful lock_directories() and the end of    *)
(* unlock_directories() at the same time.  This, like everything said of   *)
(* the lock below, holds up to the first chmod() that fails: from then on  *)
(* lock_directories() unlinks the lock file twice (backup.c:141, 154), the *)
(* second time perhaps another process's.                                  *)
(***************************************************************************)
MutualExclusion ==
  ~chmod_failed => \A p, q \in Proc :
    /\ lpc[p] \in {"locked", "unlock_dashboard", "unlock_file"}
    /\ lpc[q] \in {"locked", "unlock_dashboard", "unlock_file"}
    => p = q

(***************************************************************************)
(* While a process works on the directories, the lock file is its own and  *)
(* both directories are closed, whatever the other processes do meanwhile. *)
(***************************************************************************)
WindowIsLocked ==
  ~chmod_failed => \A p \in Proc : lpc[p] = "locked" =>
    /\ lock_file = p
    /\ \A d \in Dir : perm[d] = LOCKED_PERMISSIONS

(***************************************************************************)
(* When nobody is inside lock or unlock_directories() nothing is left      *)
(* behind by any of the error paths: users can work and the next lock      *)
(* attempt finds no lock file.                                             *)
(***************************************************************************)
QuiescentIsOpen ==
  ~chmod_failed /\ (\A p \in Proc : lpc[p] = "idle") =>
    lock_file = NoProc /\ perm = NormalPermissions

(***************************************************************************)
(* The lock file of p disappears only by a step of p itself: the error     *)
(* paths of one process, which unlink without looking, never remove the    *)
(* lock of another.                                                        *)
(***************************************************************************)
LockNotStolen ==
  [][~chmod_failed' => \A p \in Proc :
       lock_file = p /\ lock_file' # p => lpc'[p] # lpc[p]]_lockVars

(***************************************************************************)
(* A lock file that was created is removed again, along every error path   *)
(* and whatever chmod() calls fail, unless its process is killed.          *)
(***************************************************************************)
LockIsReleased == \A p \in Proc : lock_file = p ~> lock_file # p \/ lpc[p] = "killed"

(***************************************************************************)
(* The abstract specification, with the refinement mapping.                *)
(***************************************************************************)
Window == INSTANCE MaintenanceWindow WITH
  holders <- {p \in Proc : lpc[p] = "locked"},
  protected <- \A d \in Dir : perm[d] = LOCKED_PERMISSIONS,
  void <- chmod_failed

WindowSpec == Window!Spec
--------------------------------------------------------------------------------
(***************************************************************************)
(* The inductive invariant.  The lock file names the one process that is   *)
(* past its creation; the modes follow the position of that process; and   *)
(* a closed dashboard always has an owner, possibly a dead one.            *)
(***************************************************************************)
NoErrorPath == \A p \in Proc : lpc[p] \notin {"restore_upload", "remove", "remove_again"}

HolderOwnsFile == \A p \in Proc :
  lpc[p] \in HoldingPc => lock_file = p /\ lresult[p] = "SUCCESS"

UploadFollows == \A p \in Proc :
  /\ lpc[p] \in {"lock_dashboard", "locked"} => perm["upload"] = LOCKED_PERMISSIONS
  /\ lpc[p] = "unlock_dashboard" => perm["upload"] = UPLOAD_PERMISSIONS

DashboardFollows == \A p \in Proc :
  lpc[p] = "locked" => perm["dashboard"] = LOCKED_PERMISSIONS

ClosedHasOwner ==
  perm["dashboard"] = LOCKED_PERMISSIONS =>
    \E p \in Proc : /\ lock_file = p
                    /\ lpc[p] \in {"locked", "unlock_dashboard", "killed"}

(***************************************************************************)
(* The invariant the proofs of DirectoryLockProofs rest on: as it stands,  *)
(* every step of every process preserves it.                               *)
(***************************************************************************)
LockInv == /\ LockTypeOK
           /\ ~chmod_failed => /\ NoErrorPath
                               /\ HolderOwnsFile
                               /\ UploadFollows
                               /\ DashboardFollows
                               /\ ClosedHasOwner

(***************************************************************************)
(* Where unlink() works, whatever is not as it was has an owner on its way *)
(* to put it right, unless that one was killed.                            *)
(***************************************************************************)
OwnedBy(pcs) == lock_file # NoProc /\ lpc[lock_file] \in pcs

LeftoversOwned == ~chmod_failed =>
  /\ lock_file # NoProc => OwnedBy(HoldingPc \cup {"killed"})
  /\ perm["upload"] # UPLOAD_PERMISSIONS => OwnedBy({"lock_dashboard", "locked", "killed"})
  /\ perm["dashboard"] # DASHBOARD_PERMISSIONS =>
       OwnedBy({"locked", "unlock_dashboard", "killed"})
================================================================================
