----------------------------- MODULE DashboardBackup -----------------------------
(***************************************************************************)
(* backup_dashboard() and cleanup_old_backups() (src/src/backup.c) and     *)
(* make_urgent_change() (src/src/file_operations.c), composed with the     *)
(* users and the transfers of ReportTransfer: all of them work on the      *)
(* dashboard, and a child that was forked in a window goes on after the    *)
(* daemon has closed it.  The mode of the dashboard itself is the affair   *)
(* of ReportDaemon.                                                        *)
(*                                                                         *)
(* A backup directory is named after the second in which its backup began, *)
(* so a second of the clock stands for the directory.                      *)
(***************************************************************************)
EXTENDS ReportTransfer

CONSTANTS
  Backup,        \* the backup children
  NoDir,         \* there is no directory of that name
  MaxClock,      \* bound: the seconds of the instance
  MaxBackupAge,  \* MAX_BACKUP_AGE in these seconds
  MaxChanges,    \* bound: the urgent changes of the instance
  UploadModes,   \* the modes users give their files
  BackupFaults   \* the calls of a backup or an urgent change that may fail

ASSUME BackupAssumption ==
  /\ MaxClock \in Nat /\ MaxBackupAge \in Nat /\ MaxChanges \in Nat
  /\ NoDir \notin [Report -> File \cup {NoFile}]
  /\ UploadModes # {} /\ UploadModes \subseteq {"0644", "0666"}
  /\ BackupFaults \subseteq {"mkdir", "opendir", "open", "write", "chmod", "fopen", "fputs"}

VARIABLES
  forked,       \* the daemon has forked the backup of this window
  clock,
  dirs,         \* the backup directories
  bpc, name, left, bcur, bhold,
                \* of each backup: position, its directory, the entries not yet
                \* read, the entry it copies, the data it has read
  failed,       \* success_count < file_count
  old, found,   \* of its clean-up: the old directories it has not yet looked
                \* at, the one it is to remove
  atstart,      \* history: the dashboard when the backup opened it
  torn,         \* history: reports that became partial or were rewritten in
                \* place while the backup was copying
  upc, target, modified,
                \* make_urgent_change(): position, file, and whether the file
                \* it has open is still the dashboard's
  mode, old_permissions,
                \* the mode of each dashboard file, and the one saved
  changes,      \* how many urgent changes there have been
  own,          \* history: the mode a file of the dashboard came with
  excused       \* history: the files an urgent change could not give their mode
                \* back, or that took the place of the one it worked on

copyVars == <<name, left, bcur, bhold, failed, atstart>>
cleanupVars == <<old, found>>
backupVars == <<dirs, bpc, copyVars, cleanupVars>>
modeVars == <<mode, own, excused>>
changeVars == <<upc, target, modified, changes, old_permissions, modeVars>>
urgentVars == <<torn, changeVars>>
windowVars == <<forked, clock>>
systemVars == <<allVars, windowVars, backupVars, urgentVars>>

Second == 0..MaxClock
Copying == {"next", "copy", "write"}
Cleaning == {"cleanup", "entries", "rmdir"}
Running == Copying \cup Cleaning \cup {"mkdir", "opendir"}
NoFiles == [r \in Report |-> NoFile]

BackupInit ==
  /\ TransferInit /\ forked = FALSE /\ clock = 0
  /\ dirs = [s \in Second |-> NoDir]
  /\ bpc = [b \in Backup |-> "idle"] /\ name = [b \in Backup |-> 0]
  /\ left = [b \in Backup |-> {}] /\ bhold = [b \in Backup |-> NoFile]
  /\ bcur \in [Backup -> Report]
  /\ failed = [b \in Backup |-> FALSE] /\ atstart = [b \in Backup |-> NoFiles]
  /\ old = [b \in Backup |-> {}] /\ found = [b \in Backup |-> 0]
  /\ torn = [b \in Backup |-> {}] /\ upc = "idle" /\ target \in Report /\ modified = FALSE
  /\ changes = 0
  /\ mode \in [Report -> UploadModes \cup {"0644"}] /\ own = mode /\ excused = {}
  /\ \A r \in Report : IF dashboard[r] = NoFile THEN mode[r] = "0644" ELSE mode[r] \in UploadModes
  /\ old_permissions = "0644"

\* The reports S are not, or no longer, whole, or not what they were.
Tear(S) == torn' = [b \in Backup |-> IF bpc[b] \in Copying THEN torn[b] \cup S ELSE torn[b]]

BackupGoto(b, from, to) == bpc[b] = from /\ bpc' = [bpc EXCEPT ![b] = to]
--------------------------------------------------------------------------------
(***************************************************************************)
(* The daemon's windows: a scheduled one forks a transfer and then a       *)
(* backup, a forced one only the backup.  An urgent change runs in the     *)
(* daemon itself, hence outside both.                                      *)
(***************************************************************************)
ScheduledWindow(t) == upc = "idle" /\ LockAndFork(t) /\ UNCHANGED <<windowVars, backupVars, urgentVars>>

ForcedWindow ==
  /\ upc = "idle" /\ open /\ open' = FALSE
  /\ UNCHANGED <<dirVars, userVars, same_fs, transferVars, historyVars, windowVars, backupVars,
                 urgentVars>>

ForkBackup(b) ==
  /\ ~open /\ ~forked /\ forked' = TRUE
  /\ BackupGoto(b, "idle", "mkdir")
  /\ UNCHANGED <<allVars, clock, dirs, copyVars, cleanupVars, urgentVars>>

EndWindow == /\ forked /\ forked' = FALSE
             /\ Unlock
             /\ UNCHANGED <<clock, backupVars, urgentVars>>

\* rename() puts a file into the place of the one that an urgent change has
\* open or has made writable, and the file keeps the mode its user gave it;
\* a copy is created with 0644 and otherwise rewrites the file in place.
TransferWorks(t) ==
  /\ TransferStep(t)
  /\ LET replaced == IF tpc[t] = "rename" /\ tpc'[t] = "next" THEN {cur[t]} ELSE {}
         rewritten == {r \in Report : tpc[t] \in {"copy", "write"} /\ dashboard'[r] # dashboard[r]}
         inuse == {r \in replaced : upc # "idle" /\ r = target}
     IN /\ \E m \in UploadModes :
             /\ mode' = [r \in Report |-> IF r \in replaced THEN m ELSE mode[r]]
             /\ own' = [r \in Report |-> IF r \in replaced THEN m ELSE own[r]]
        /\ excused' = (excused \ replaced) \cup inuse
        /\ modified' = (modified /\ target \notin replaced)
        /\ Tear(rewritten \cup {r \in replaced : ~upload[r].whole})
  /\ UNCHANGED <<windowVars, backupVars, upc, target, changes, old_permissions>>

UserWorks(r) == (BeginUpload(r) \/ EndUpload(r)) /\ UNCHANGED <<windowVars, backupVars, urgentVars>>

Tick == clock < MaxClock /\ clock' = clock + 1 /\ UNCHANGED <<allVars, forked, backupVars, urgentVars>>
--------------------------------------------------------------------------------
(***************************************************************************)
(* backup_dashboard().                                                     *)
(***************************************************************************)
\* Mutant: a directory that exists already is taken as it is.
MakeDirectoryExists(b) ==
  /\ BackupGoto(b, "mkdir", "opendir")
  /\ name' = [name EXCEPT ![b] = clock]
  /\ dirs' = IF dirs[clock] = NoDir THEN [dirs EXCEPT ![clock] = NoFiles] ELSE dirs
  /\ UNCHANGED <<allVars, windowVars, left, bcur, bhold, failed, atstart, cleanupVars,
                 urgentVars>>

\* mkdir() of the directory of this second, which fails when it exists.
MakeDirectory(b) ==
  /\ name' = [name EXCEPT ![b] = clock]
  /\ \/ /\ dirs[clock] = NoDir
        /\ BackupGoto(b, "mkdir", "opendir")
        /\ dirs' = [dirs EXCEPT ![clock] = NoFiles]
     \/ /\ dirs[clock] # NoDir \/ "mkdir" \in BackupFaults
        /\ BackupGoto(b, "mkdir", "failure")
        /\ UNCHANGED dirs
  /\ UNCHANGED <<allVars, windowVars, left, bcur, bhold, failed, atstart, cleanupVars,
                 urgentVars>>

\* Mutant: "." and ".." are not skipped.
OpenDashboardDots(b) ==
  /\ BackupGoto(b, "opendir", "next")
  /\ left' = [left EXCEPT ![b] = Report \cup {".", ".."}]
  /\ atstart' = [atstart EXCEPT ![b] = dashboard]
  /\ UNCHANGED <<allVars, windowVars, dirs, name, bcur, bhold, failed, cleanupVars, urgentVars>>

\* When the dashboard cannot be opened the empty directory stays.
OpenDashboard(b) ==
  /\ \/ /\ BackupGoto(b, "opendir", "next")
        /\ left' = [left EXCEPT ![b] = Report]
        /\ atstart' = [atstart EXCEPT ![b] = dashboard]
     \/ /\ "opendir" \in BackupFaults /\ BackupGoto(b, "opendir", "failure")
        /\ UNCHANGED <<left, atstart>>
  /\ UNCHANGED <<allVars, windowVars, dirs, name, bcur, bhold, failed, cleanupVars, urgentVars>>

\* readdir() returns, in any order, what was there at opendir(); of a file
\* that has come since it may.
NextFile(b) ==
  \E r \in left[b] :
    /\ BackupGoto(b, "next", "copy") /\ dashboard[r] # NoFile
    /\ left' = [left EXCEPT ![b] = @ \ {r}]
    /\ bcur' = [bcur EXCEPT ![b] = r]
    /\ UNCHANGED <<allVars, windowVars, dirs, name, bhold, failed, atstart, cleanupVars, urgentVars>>

LastFile(b) ==
  /\ BackupGoto(b, "next", "cleanup")
  /\ \A r \in left[b] : atstart[b][r] = NoFile
  /\ UNCHANGED <<allVars, windowVars, dirs, copyVars, cleanupVars, urgentVars>>

\* copy_file(): the source is opened and read, the copy created empty.  The
\* backup directory may be gone.
OpenCopy(b) ==
  LET d == name[b]
  IN /\ \/ /\ dirs[d] # NoDir
           /\ BackupGoto(b, "copy", "write")
           /\ bhold' = [bhold EXCEPT ![b] = dashboard[bcur[b]]]
           /\ dirs' = [dirs EXCEPT ![d][bcur[b]] = [ver |-> 0, whole |-> FALSE]]
           /\ UNCHANGED failed
        \/ /\ dirs[d] = NoDir \/ "open" \in BackupFaults
           /\ BackupGoto(b, "copy", "next")
           /\ failed' = [failed EXCEPT ![b] = TRUE]
           /\ UNCHANGED <<bhold, dirs>>
     /\ UNCHANGED <<allVars, windowVars, name, left, bcur, atstart, cleanupVars, urgentVars>>

\* Mutant: a copy that breaks off is counted as a success.
WriteCopyUnchecked(b) ==
  /\ BackupGoto(b, "write", "next")
  /\ dirs' \in {dirs, [dirs EXCEPT ![name[b]][bcur[b]] = bhold[b]]}
  /\ UNCHANGED <<allVars, windowVars, name, left, bcur, bhold, failed, atstart, cleanupVars,
                 urgentVars>>

WriteCopy(b) ==
  /\ BackupGoto(b, "write", "next")
  /\ \/ /\ dirs' = [dirs EXCEPT ![name[b]][bcur[b]] = bhold[b]]
        /\ UNCHANGED failed
     \/ /\ "write" \in BackupFaults
        /\ failed' = [failed EXCEPT ![b] = TRUE]
        /\ UNCHANGED dirs
  /\ bhold' = [bhold EXCEPT ![b] = NoFile]
  /\ UNCHANGED <<allVars, windowVars, name, left, bcur, atstart, cleanupVars, urgentVars>>

(***************************************************************************)
(* cleanup_old_backups(), after which the backup reports how much of the   *)
(* dashboard it has.                                                       *)
(***************************************************************************)
\* The result is logged, and the history of the backup forgotten.
Finish(b, from) ==
  /\ BackupGoto(b, from, IF failed[b] THEN "partial" ELSE "complete")
  /\ atstart' = [atstart EXCEPT ![b] = NoFiles] /\ torn' = [torn EXCEPT ![b] = {}]

\* The cutoff is computed and the directory opened.  A backup directory is as
\* old as its name says, or younger once it has files; what comes into the
\* directory later is never too old.
CleanupOldBackups(b) ==
  /\ \/ /\ BackupGoto(b, "cleanup", "entries")
        /\ old' = [old EXCEPT ![b] = {s \in Second : dirs[s] # NoDir /\ s + MaxBackupAge < clock}]
        /\ UNCHANGED <<atstart, torn>>
     \/ "opendir" \in BackupFaults /\ Finish(b, "cleanup") /\ UNCHANGED old
  /\ UNCHANGED <<allVars, windowVars, dirs, name, left, bcur, bhold, failed, found, changeVars>>

\* readdir() and stat(): an entry that is gone or has become younger is left
\* alone.
StatEntry(b) ==
  \E s \in old[b] :
    /\ old' = [old EXCEPT ![b] = @ \ {s}]
    /\ \/ /\ dirs[s] # NoDir
          /\ BackupGoto(b, "entries", "rmdir")
          /\ found' = [found EXCEPT ![b] = s]
       \/ /\ dirs[s] # NoFiles
          /\ BackupGoto(b, "entries", "entries") /\ UNCHANGED found
    /\ UNCHANGED <<allVars, windowVars, dirs, copyVars, urgentVars>>

\* rmdir() fails, which is only logged, unless the directory is empty.
RemoveDirectory(b) ==
  /\ BackupGoto(b, "rmdir", "entries")
  /\ dirs' = IF dirs[found[b]] = NoFiles THEN [dirs EXCEPT ![found[b]] = NoDir] ELSE dirs
  /\ found' = [found EXCEPT ![b] = 0]
  /\ UNCHANGED <<allVars, windowVars, copyVars, old, urgentVars>>

EndCleanup(b) ==
  /\ old[b] = {} /\ Finish(b, "entries")
  /\ UNCHANGED <<allVars, windowVars, dirs, name, left, bcur, bhold, failed, old, found, changeVars>>

CleanupStep(b) == CleanupOldBackups(b) \/ StatEntry(b) \/ RemoveDirectory(b) \/ EndCleanup(b)

BackupStep(b) == \/ MakeDirectory(b) \/ OpenDashboard(b) \/ NextFile(b) \/ LastFile(b)
                 \/ OpenCopy(b) \/ WriteCopy(b) \/ CleanupStep(b)
--------------------------------------------------------------------------------
(***************************************************************************)
(* make_urgent_change() of one report.                                     *)
(***************************************************************************)
UrgentGoto(from, to) == upc = from /\ upc' = to

\* stat(): a file that is not there is the end of it.
BeginUrgent(r) ==
  /\ open /\ dashboard[r] # NoFile
  /\ changes < MaxChanges /\ changes' = changes + 1
  /\ UrgentGoto("idle", "chmod") /\ target' = r
  /\ old_permissions' = mode[r]
  /\ UNCHANGED <<allVars, windowVars, backupVars, torn, modified, modeVars>>

\* chmod(filepath, 0666), whose result is ignored like those of the others.
MakeWritable ==
  /\ UrgentGoto("chmod", "fopen")
  /\ \/ mode' = [mode EXCEPT ![target] = "0666"]
     \/ "chmod" \in BackupFaults /\ UNCHANGED mode
  /\ UNCHANGED <<allVars, windowVars, backupVars, torn, target, modified, changes, old_permissions,
                 own, excused>>

\* fopen(filepath, "w") truncates the file that has the name now.
TruncateReport ==
  /\ upc = "fopen"
  /\ \/ /\ upc' = "fputs" /\ modified' = TRUE
        /\ dashboard' = [dashboard EXCEPT ![target].whole = FALSE]
        /\ Tear({target})
     \/ /\ "fopen" \in BackupFaults /\ upc' = "restore"
        /\ UNCHANGED <<dashboard, modified, torn>>
  /\ UNCHANGED <<upload, userVars, envVars, transferVars, historyVars, windowVars, backupVars,
                 target, changes, modeVars, old_permissions>>

\* Mutant: the way out after a failing fputs() forgets the file's mode.
WriteReportForgets ==
  /\ upc = "fputs" /\ modified' = FALSE
  /\ \/ /\ upc' = "restore"
        /\ dashboard' = IF modified THEN [dashboard EXCEPT ![target].whole = TRUE] ELSE dashboard
     \/ "fputs" \in BackupFaults /\ upc' = "idle" /\ UNCHANGED dashboard
  /\ UNCHANGED <<upload, userVars, envVars, transferVars, historyVars, windowVars, backupVars,
                 torn, target, changes, modeVars, old_permissions>>

\* fputs() and fclose().
WriteReport ==
  /\ UrgentGoto("fputs", "restore") /\ modified' = FALSE
  /\ \/ dashboard' = IF modified THEN [dashboard EXCEPT ![target].whole = TRUE] ELSE dashboard
     \/ "fputs" \in BackupFaults /\ UNCHANGED dashboard
  /\ UNCHANGED <<upload, userVars, envVars, transferVars, historyVars, windowVars, backupVars,
                 torn, target, changes, modeVars, old_permissions>>

\* chmod(filepath, old_permissions), on every way out.
RestoreMode ==
  /\ UrgentGoto("restore", "idle") /\ old_permissions' = "0644"
  /\ \/ mode' = [mode EXCEPT ![target] = old_permissions] /\ UNCHANGED excused
     \/ /\ "chmod" \in BackupFaults /\ UNCHANGED mode
        /\ excused' = excused \cup {target}
  /\ UNCHANGED <<allVars, windowVars, backupVars, torn, target, modified, changes, own>>

UrgentStep == \/ \E r \in Report : BeginUrgent(r)
              \/ MakeWritable \/ TruncateReport \/ WriteReport \/ RestoreMode

SystemNext ==
  \/ \E r \in Report : UserWorks(r)
  \/ \E t \in Transfer : ScheduledWindow(t) \/ TransferWorks(t)
  \/ ForcedWindow \/ EndWindow \/ Tick
  \/ \E b \in Backup : ForkBackup(b) \/ BackupStep(b)
  \/ UrgentStep

SystemSpec == BackupInit /\ [][SystemNext]_systemVars
--------------------------------------------------------------------------------
SystemTypeOK ==
  /\ TransferTypeOK
  /\ forked \in BOOLEAN /\ clock \in Second
  /\ dirs \in [Second -> [Report -> File \cup {NoFile}] \cup {NoDir}]
  /\ bpc \in [Backup -> Running \cup {"idle", "failure", "partial", "complete"}]
  /\ name \in [Backup -> Second] /\ left \in [Backup -> SUBSET Report]
  /\ bcur \in [Backup -> Report] /\ bhold \in [Backup -> File \cup {NoFile}]
  /\ old \in [Backup -> SUBSET Second] /\ found \in [Backup -> Second]
  /\ failed \in [Backup -> BOOLEAN] /\ atstart \in [Backup -> [Report -> File \cup {NoFile}]]
  /\ torn \in [Backup -> SUBSET Report] /\ target \in Report /\ modified \in BOOLEAN
  /\ upc \in {"idle", "chmod", "fopen", "fputs", "restore"}
  /\ mode \in [Report -> {"0644", "0666"}] /\ own \in [Report -> {"0644", "0666"}]
  /\ old_permissions \in {"0644", "0666"} /\ excused \subseteq Report
  /\ changes \in 0..MaxChanges

(***************************************************************************)
(* A backup that ended with "Backup completed successfully" (backup.c:115) *)
(* has a copy of every report that was on the dashboard when it began, no  *)
(* older than it was then, and whole if it was whole: although users       *)
(* upload, any number of transfers fill the dashboard at the same time,    *)
(* urgent changes rewrite reports, and other backups clean up.  Of a       *)
(* report that was rewritten in place during the backup, by an urgent      *)
(* change or by a transfer that has to copy, or that a transfer moved in   *)
(* while its user was still writing, there is a copy, but it may be part   *)
(* of one.                                                                 *)
(***************************************************************************)
CompleteBackupIsCurrent ==
  [][\A b \in Backup : bpc[b] # "complete" /\ bpc'[b] = "complete" =>
       \A r \in Report : atstart[b][r] # NoFile =>
         /\ dirs[name[b]] # NoDir /\ dirs[name[b]][r] # NoFile
         /\ r \notin torn[b] => /\ dirs[name[b]][r].ver >= atstart[b][r].ver
                                /\ ~atstart[b][r].whole \/ dirs[name[b]][r].whole]_bpc

(***************************************************************************)
(* What a backup has copied stays as it is once it has come to the end of  *)
(* the dashboard: no other backup writes into its directory, even one that *)
(* begins in the same second, and no clean-up removes more than a          *)
(* directory that has stayed empty.                                        *)
(***************************************************************************)
FinishedIsFrozen ==
  [][\A b \in Backup : bpc[b] \in Cleaning \cup {"partial", "complete"} =>
       LET d == name[b]
       IN dirs'[d] = dirs[d] \/ (dirs[d] = NoFiles /\ dirs'[d] = NoDir)]_dirs

(***************************************************************************)
(* "Restore file permissions" (file_operations.c:751, :763, :771): once an *)
(* urgent change is over, whichever way it ended, each report has the mode *)
(* that its user, or the copy of a transfer, gave it.  Exempt are the      *)
(* report whose restoring chmod() failed and the one that a transfer put   *)
(* into the place of the report being changed: by its name, it gets the    *)
(* mode of the file it has replaced.                                       *)
(***************************************************************************)
ModesRestored == upc = "idle" => \A r \in Report \ excused : mode[r] = own[r]
--------------------------------------------------------------------------------
(***************************************************************************)
(* The inductive invariants.  No step makes a file of the dashboard        *)
(* disappear, so an urgent change finds the one it opens.                  *)
(***************************************************************************)
TargetIsThere == upc # "idle" => dashboard[target] # NoFile

OnlyTargetWritable ==
  /\ \A r \in Report \ excused : upc = "idle" \/ r # target => mode[r] = own[r]
  /\ upc # "idle" /\ target \notin excused => old_permissions = own[target]

(***************************************************************************)
(* A backup whose mkdir() succeeded is the only one with its directory,    *)
(* which nobody removes once it has a file.                                *)
(***************************************************************************)
HasDir(b) == bpc[b] \in Copying \cup Cleaning \cup {"opendir", "partial", "complete"}

OwnsDirectory ==
  /\ \A b \in Backup : HasDir(b) =>
       name[b] < clock \/ (name[b] = clock /\ dirs[clock] # NoDir)
  /\ \A b, c \in Backup : HasDir(b) /\ HasDir(c) /\ name[b] = name[c] => b = c
  /\ \A b \in Backup : bpc[b] = "write" =>
       dirs[name[b]] # NoDir /\ dirs[name[b]][bcur[b]] # NoFile

\* What a clean-up takes for old is of an earlier second.
FoundIsOld == \A b \in Backup :
  /\ \A s \in old[b] : s < clock
  /\ bpc[b] = "rmdir" => found[b] < clock

BackupInv ==
  /\ SystemTypeOK /\ WriterHasFile /\ TargetIsThere /\ OnlyTargetWritable /\ OwnsDirectory
  /\ FoundIsOld

(***************************************************************************)
(* What CompleteBackupIsCurrent needs of transfers that overlap.           *)
(***************************************************************************)
VersionsGrow == UploadIsNewest /\ NoneIsNewer

(***************************************************************************)
(* While a backup copies, each report it found is on the dashboard in a    *)
(* state fit to be copied, and what it has copied was.                     *)
(***************************************************************************)
Fit(f, b, r) ==
  /\ f # NoFile
  /\ r \notin torn[b] => f.ver >= atstart[b][r].ver /\ (f.whole \/ ~atstart[b][r].whole)

Copied(b, r) == dirs[name[b]] # NoDir /\ Fit(dirs[name[b]][r], b, r)

CopyFit(b, r) == atstart[b][r] # NoFile =>
  /\ bpc[b] \in Copying => Fit(dashboard[r], b, r)
  /\ bpc[b] \in Copying /\ r \notin left[b] /\ ~failed[b] =>
       \/ bpc[b] = "copy" /\ bcur[b] = r
       \/ bpc[b] = "write" /\ bcur[b] = r /\ Fit(bhold[b], b, r)
       \/ ~(bpc[b] \in {"copy", "write"} /\ bcur[b] = r) /\ Copied(b, r)
  /\ bpc[b] \in Cleaning /\ ~failed[b] => Copied(b, r)

CopyIsFit == \A b \in Backup, r \in Report : CopyFit(b, r)

CompleteInv == BackupInv /\ VersionsGrow /\ CopyIsFit
================================================================================
