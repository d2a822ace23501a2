# Verification of the report management daemon

The program is a daemon (`src/src/*.c`) that collects department reports. Users put XML
files into an upload directory; at 01:00, or on request, the daemon closes the upload and
the reporting directory ("dashboard"), moves the reports over in a child process, backs the
dashboard up in another child, and opens the directories again. An init script starts and
stops it and passes requests on. This directory holds TLA+ models of it, their TLC runs and
TLAPS proofs. Paths below are those of the repository, with `src/` for its root.

## 1. The system

| part | state | operations | talks to |
|---|---|---|---|
| main loop (`daemon.c:242`) | `daemon_exit`, `force_backup`, `force_transfer`, `last_check_*`, `*tm_now`, `msg` | schedule and forced blocks, monitor, IPC loop, exit | all others |
| start, stop (`daemon.c:100-237`, `init.d`) | PID file, path and descriptor of the FIFO, installed handlers | `daemon_init`, `daemon_cleanup`, start, stop, restart, backup, transfer | files in `/var/run`, signals |
| directory locking (`backup.c:128-202`, `332-380`) | lock file, modes of the two directories | lock, unlock | called by the main loop |
| FIFO (`ipc.c`) | a stream of bytes | send, receive | children and clients write, the loop reads |
| reporting processes (`ipc.c:131`) | children | run one operation, send a message, exit | FIFO |
| report transfer (`file_operations.c:29`, `513`, `543`) | files of both directories | validate, move, copy | users |
| urgent change (`file_operations.c:712`) | mode of the dashboard, one file and its mode | rewrite a report | called for a FIFO message |
| backup (`backup.c:17`, `265`) | directories below `BACKUP_DIR` | copy all, delete old | runs as a child |
| change monitor (`file_operations.c:223`, `318`) | the previous scan | scan, compare, log | every 5 s |
| report checks (`file_operations.c:116`, `189`, `601`, `666`) | none | missing, department, valid, late | called by the transfer and the loop |
| logging (`utils.c`) | log files and their rotations, the buffer of `localtime()` | log, rotate | called by everybody |

What makes it hard: signal handlers run between any two statements; children are never waited
for and outlive the window, and the daemon itself; the FIFO has no framing but the size of its
reads and writes; users and clients act at any time; each system call may fail and each error
path undoes a different part; processes are killed and started again, and PID file, lock file,
FIFO and modes survive them. `PROJECT.json` lists these hazards at their lines.

What makes it correct, part by part:

* locking: one process at a time, closed directories while it works, nothing left behind by
  any error path;
* main loop: no operation without the lock, no way out of a block that leaves directories
  closed, requests and SIGTERM take effect, one scheduled transfer a night;
* FIFO: messages arrive whole, once, in order;
* start and stop: one daemon at a time, reachable through PID file and FIFO; a restart repairs,
  a stop returns;
* transfer: never loses or reverts a report;
* backup: one that reports success has every report, and nobody writes to it or removes it afterwards;
* urgent change: leaves each report the mode it came with;
* monitor: its log can be replayed, reports nothing that nobody did, and its picture of the directory becomes right;
* missing reports: none that was there (what a report of a department is called, comment and code disagree about);
* logging: every call returns, rotated logs stay in order and only the oldest goes.

## 2. The modules

| module | models | composes |
|---|---|---|
| `MaintenanceWindow` | what locking promises, abstractly: holders, and whether both directories are closed | |
| `DirectoryLock` | `lock_directories`, `unlock_directories`, `create_lock_file`, `remove_lock_file` | implements `MaintenanceWindow` |
| `MessageQueue` | what the FIFO promises: a bounded queue | |
| `IpcFifo` | `send_ipc_message`, `receive_ipc_message`, and the writes of client and script | implements `MessageQueue` |
| `ReportDaemon` | `daemon_main_loop`, `signal_handler`, `create_reporting_process`, clients, clock | extends `DirectoryLock` and `IpcFifo` |
| `Lifecycle` | `check_singleton`, `daemon_init`, `daemon_cleanup`, `setup_ipc`, `cleanup_ipc`, the script's commands, crashes | |
| `ReportTransfer` | `transfer_reports`, `move_file`, `copy_file` against users | |
| `DashboardBackup` | `backup_dashboard`, `cleanup_old_backups`, `make_urgent_change`'s file, the daemon's windows | extends `ReportTransfer` |
| `DirectoryWatch` | `monitor_directory_changes`, `scan_directory`, `get_file_owner`, `log_file_change`, `check_missing_reports` | |
| `LogRotation` | `log_error`, `log_operation`, `check_and_rotate_log` | |

`MC*` modules hold the constants of the TLC instances, `*Proofs` modules the theorems. Operators
marked "Mutant" in a comment are plausible slips of a definition; `PROJECT.json` ("mutants")
says which property each one breaks. They are used by no specification.

`DashboardBackup` is where the children meet: it takes the users, the transfer and the directories of `ReportTransfer`, and
adds the windows that fork, the backups and the urgent changes. `ReportDaemon` forks the same children but knows of them only that they end.

**DirectoryLock.** `lpc[p]` is the position of process p in the two functions, `lresult[p]`
the local `result`. Every system call is an action; `ChmodFaults` and `FileFaults` say which
calls may fail, `Killable` who may be killed; the history variable `chmod_failed` remembers that a chmod has. `unlink` is modelled as it behaves: it removes the
file whoever made it, and an absent file is a success.

**IpcFifo.** It has no fairness of its own: the loop that reads may end, and `ReportDaemon` says when. The stream is a sequence of units, `RecordSize` to an `IPCMessage`, one to a line of
the init script (all that matters is that it is shorter than a record). `sizeof(IPCMessage)` is
2060 and below `PIPE_BUF`, so a write happens whole or not at all, and an `O_NONBLOCK` one that does not
fit is refused. `Decoded` says what a read that starts at a given unit yields; inside a record
that is message text or uninitialised stack of the sender, hence any type.

**ReportDaemon.** `pc` is the next statement of the loop and `op` the block it is in. `LockDirectories`
and `UnlockDirectories` are single steps of `DirectoryLock`, taken by `Daemon`; the other members
of `Proc` are dead predecessors, one of which may have left a lock file. `SignalHandler` sets flags between any two
statements. `at_one` is the wall clock reduced to "it is 01:00", `tm_now` what the static
buffer of `localtime()` holds, `last_check` the pair `last_check_hour`, `last_check_minute`.
Each log call sets `tm_now`; where only some paths of a step log, `MayLog` leaves it open.
Two history variables never restrict a step: `starts` counts the scheduled blocks begun since the clock last
entered or left the minute 01:00, `checked` records that the loop has read the clock since then.

**Lifecycle.** `stage[i]` is the position of instance i in `main()`. The main loop is reduced to its top, where alone
`daemon_exit` is looked at, the block of the transfer, the rest, and the block of the forced backup: the latter may still begin after SIGTERM.
`chmod_failed` holds the instances of which a `chmod()` has failed, at the start or when a window ended. Up to `handlers` a signal kills. The script is used by one administrator; `patient`, chosen
in the initial state, says whether he waits for a started daemon to be up before he gives the next command.

**ReportTransfer.** A file is a version of its report and whether it is whole. Users hold
descriptors that follow the file through `rename` and survive `chmod`. The daemon is reduced to
closing, forking and opening. `same_fs`, chosen in the initial state, says whether `rename()` from upload to dashboard
works or every move is a copy. `astray` holds the transfers that write to a copy whose name another transfer's `rename()` has taken. Two
history variables: `raced` holds the reports whose newest version was begun while a transfer was
moving the one before, `clashed` those that two transfers have moved at the same time. `Delivered` lets a report of an earlier day be on the dashboard at the start.

**DashboardBackup.** `bpc[b]`, `upc` are the positions of a backup child and of `make_urgent_change()`. A backup
directory is named by the second, so `dirs` is a function of seconds; `rmdir()` removes only empty ones, which are as
old as their names. The clean-up reads its directory entry by entry (`old`), and what it has found old (`found`) may have been filled or removed by the time of
its `rmdir()`. `mode` has the mode of each report, which a file moved by `rename()` brings with it from its user (`UploadModes`), `old_permissions` the local of that name, and `modified` says whether the
file an urgent change has open is still the one on the dashboard: the transfer's `rename()` may have put another there. Every `chmod()` of the file may fail; `own` and `excused` are history: the mode a report came with, and
the reports that a failing `chmod()` or such a `rename()` has left with another.
`atstart[b]` and `torn[b]` are history: what backup b found, and the reports that became partial
while it copied, by an urgent change or by a `rename()` of a file its user was still writing.

**DirectoryWatch.** `dpc` is the position in the scan, in the two loops of comparison or in the check. A scan makes two
`stat()` calls per file, in separate steps; `previous` is `previous_files`, `NoScan` standing for NULL. The loops of the comparison find the one element of a name, so
a function of names stands for the arrays. `replayed`, `lost`, `steady`, `atstart` and the field `change` are history. A name is reduced to the parts
between its underscores and whether `.xml` occurs in it; `ExtractDepartment` takes the first part, as `extract_department_from_filename()` does.

**LogRotation.** `slot[0]` is the log and `slot[k]` the backup `.k`, each the number of its creation. `stack[p]` holds the log
calls a process is in, innermost first, with the check each is at: `log_error()` checks the same path twice, and a failing
rotation calls `log_error()`. `disturbed` is history: two rotations have overlapped, or an `unlink()` or `rename()` of one has failed. Where the code does not look at the
result, in the deletion of the oldest backup and in the shift, `FailsUnnoticed` is the failure.

## 3. The runs

Passing runs (bounds in brackets):

| run | shows |
|---|---|
| `LockSafety` [3 daemons, one killable; chmod, open and write may fail; fair] | exclusion, no theft, nothing left behind when all is quiet; `WindowSpec`: `DirectoryLock` implements `MaintenanceWindow`; every lock file goes again, unless its process is killed |
| `DaemonSafety` [1 child, 1 write by a client or the script, dead predecessor, clock; open, write, chmod of the dashboard and fork may fail] | directories open wherever the loop is not in a block, `WindowSpec` for the whole daemon, at most one scheduled start in the minute 01:00 |
| `DaemonFaults` [1 child, 1 write by a client, room for 2 records of 2 units and 1 unit, daytime; every call may fail; fair] | operations only inside the window, requests and SIGTERM take effect; framing, and `QueueSpec` for the whole daemon: its FIFO implements `MessageQueue`; accepted messages are received unless the daemon is told to stop |
| `LifecycleAll` [3 starts, restarts, crashes, failing starts, failing chmod, SIGKILL by stop; patient or not; fair] | one daemon, reachable, directories repaired by a restart whose chmod works; stop returns |
| `TransferAll` [2 reports, 2 versions, 2 transfers, one filesystem or two, every call may fail; fair] | no report lost or reverted that the two do not move at the same time, only whole ones are moved, valid ones are moved in the end |
| `BackupAll` [1 report, 2 versions, 1 transfer, 2 backups, 2 seconds, `MaxBackupAge` 0, 1 urgent change, files uploaded with 0644 or 0666; opendir and write of a backup and chmod, fopen and fputs of an urgent change may fail, mkdir and the open of a copy for want of a free name or of the directory] | complete backups are complete and current, frozen afterwards; modes restored |
| `WatchAll` [a report and another file, 2 departments, 2 files put, 2 seconds, 2 failures or restarts; fair] | the change log replays to the last scan, scans see what is steady, no false "modify", the picture becomes right |
| `LogAll` [daemon and child, 3 backups, 2 log calls, 2 failing calls of rename or unlink on log or backups, opening and creating may fail; fair] | rotated logs in order, only the oldest goes, every log call returns |

Runs that find a disagreement between the code and one of its comments or messages (the findings in
`PROJECT.json` quote the lines):

| run | what TLC shows |
|---|---|
| `FifoScript` | the script's urgent change is not an `IPCMessage` |
| `DaemonMissesSchedule` | the shared `localtime()` buffer suppresses the night's transfer |
| `TransferOverlap` | a second transfer, whose `rename()` finds the source gone, copies and unlinks a report that its user is just writing |
| `WatchFormat` | a report named as the comment of `extract_department_from_filename()` expects leaves its department "missing" |

What the passing properties leave out, and why. Each of these behaviours is in the models, so removing the
condition named makes TLC show it:

* *A failing chmod.* When closing the upload directory fails, `lock_directories()` goes on, closes the dashboard and never
  reopens it (`backup.c:139-145`); and it removes the lock file where the chmod failed and once more at the end
  (`backup.c:154`), by when the file may be another process's. Hence the properties on exclusion and on open directories, and
  the promise of `MaintenanceWindow`, end with the first failing chmod (`chmod_failed`); the runs go on past it.
  `WindowGuarded` and `LockIsReleased` hold after it as well, but say nothing of the second unlink. In `Lifecycle`, `RestartOpensDirectories` is about
  instances whose own chmods work.
* *SIGKILL inside a window.* The lock file names a process that is no more, `create_lock_file()` does not look, and every
  later lock fails until somebody removes it. `WindowSpec` has `Die` for this, and `LockIsReleased` is about live owners.
* *A signal inside the block that serves it.* The flag is cleared at the end of the block (`daemon.c:322`), so the
  request is erased. `RequestIsTried` is about a request raised outside its block.
* *Two starts in quick succession.* Both pass `check_singleton()` before either has written the PID file. `SingleInstance`
  is for a `patient` administrator; so is what follows from it.
* *SIGUSR1 before the handlers are installed* kills the daemon (`Lifecycle` has it, no property speaks of it).
* *A version begun while the one before is copied.* On two filesystems the unlink of `move_file()` removes a file that nobody has read:
  `NewestVersionKept` exempts `raced` reports there. On one filesystem a version begun between validation and
  `rename()` is moved half-written, and its user writes on into the dashboard: `OnlyValidReports` exempts it.
* *Two transfers of one report.* Nobody waits for the first (`daemon.c:273`). The second one's `rename()` fails for want of the source, and what follows is the copy and
  unlink of whatever comes next under that name. `NewestVersionKept` and `DashboardNeverOlder` hold for overlapping transfers, but exempt a report that two of them have moved
  at the same time (`clashed`) until its next version is begun; `MoveNeverLoses` makes no such exemption, and `TransferOverlap` refutes it.
* *Messages unread at the end.* The loop ends on `daemon_exit` without another look at the FIFO (`daemon.c:253`) and `cleanup_ipc()` unlinks it.
  `AcceptedIsReceived` ends with the request to terminate.
* *Children that outlive the window.* `sleep(5)` does not wait for them, though a comment says so (`daemon.c:309`). `ReportTransfer` and
  `DashboardBackup` open the directories under a running child, and their properties hold all the same.
* *A change to a report while it is copied into a backup.* A backup has no older version than it began with, but a version
  that is rewritten in place, by an urgent change or by a transfer that has to copy, or moved in half-written while the backup copies, may be copied half-written (`torn[b]`), as may
  one that was partial when it began. The run is about one filesystem; the theorem about either.
* *An incomplete backup.* One failing copy leaves a partial backup, which returns SUCCESS all the same if any file was
  copied (`backup.c:119`); only the log line differs, and `CompleteBackupIsCurrent` is about that line.
* *Retention.* `rmdir()` removes only empty directories, so no backup with a file ever goes, and nobody reads `MAX_BACKUPS` (`backup.h:20`).
  That cleaning up achieves so little, against "Delete old backups to prevent excessive disk usage" (`backup.c:262`), is visible in `RemoveDirectory`; no property speaks of it.
* *An urgent change that a transfer overtakes.* The content is written to the file that `rename()` has replaced and is lost;
  `modified` has this, no text of the repository excludes it. The `chmod()` that follows goes by name, so the new file gets the mode of the old one: `ModesRestored` exempts it
  (`excused`), and likewise a report whose last `chmod()` has failed, whose result nobody looks at.
* *A lasting failure of rename().* `check_and_rotate_log()` then calls `log_error()`, which rotates, without end (`utils.c:173`); `crashed` is
  the exhausted stack. `LoggingEnds` assumes fewer failures than nested calls fit on it.
* *Overlapping rotations.* The later one renames the fresh, nearly empty log over the backup just made, and `fopen(log, "w")` empties a log that
  another process has begun. The order of the backups survives this, `KeepsRotated` does not and exempts it, as it does a failing
  `unlink()` or `rename()`: a backup that cannot be shifted is overwritten by the next one.
* *Files that change faster than the monitor looks.* A file that comes and goes between scans is not logged at all; a change within the second of the
  recorded time stamp, or by a file moved in with an older one, is not logged as "modify" (`file_operations.c:256`). The converse, `ModifiedWasTouched`, holds.
* *A file that vanishes between the two stat() calls of a scan.* Its owner is logged as whatever `malloc()` left
  (`Unset` in the model). `MonitorConverges` says that such an entry does not stay in the picture.
* *Restart.* The first scan is not logged, so what changed while no daemon ran is in no log. `LogReplays` starts anew with it.
* *Names of departments.* The comment at `file_operations.c:182` gives the format `report_Department_YYYY-MM-DD.xml`; the code takes what precedes the
  first underscore, hence "report" (`WatchFormat`). With the names of `setup_test.sh`, `warehouse_DATE.xml`, it finds the department. That the check finds then what was there is plain,
  since no report leaves the dashboard, and not a property of its own.
* *Reports on their way.* One that a transfer moves to the dashboard while the check reads it may be logged as missing; the code promises nothing else.

Why the bounds are enough. Three processes are needed for a theft (one that removes, one that
is robbed, one that gets in); a fourth only repeats a role. The FIFO of the daemon runs holds one or two records, so children meet a full one; in `DaemonFaults` its
size is no multiple of a record, so refusal with room to spare occurs. `Child` bounds the children alive at once, not how many are
forked: `fork` without a free id stands for one that fails. `MaxSends` bounds the clients' writes, and since the
loop keeps no memory of a message after handling it, further ones repeat. `Clock` = {FALSE}
where the schedule plays no part. `Inst` bounds the starts: one that crashes, one that fails, one that runs.
Two transfers clash, which a third would only repeat. `MaxVersion` 2 gives a version on the dashboard and one that is uploaded behind it; with `Delivered` = {1}, one on the
dashboard when a backup begins and one moved in while it copies. Two backups and two seconds give two of the same second, and one that is older than
`MaxBackupAge` = 0 when the other cleans up; since that one's copy then fails for want of its directory, a failing open has nothing to add. One urgent change at a time is all the daemon makes,
and one that ends with a failing `chmod()` leaves what the next would find. Three backups of the log have one that is oldest, one that is shifted and one that is new. In `WatchAll` two files put
suffice for a file that is replaced and for one that comes while another goes; two failures, for a restart after a lost line.
Data is reduced to what the properties tell apart; symmetry is used for the two backups of `BackupAll`, which checks no liveness.

`CHECK_DEADLOCK FALSE` is set where the system may really stop: the daemon has exited and its
children are gone, or the administrator has used up the starts.

Fairness. `LockFairness`: a process inside a function goes on. `DaemonFairness`: the daemon and each child are run by the
scheduler; a child's work is a loop over the entries of a directory, which ends. Clients, signals and the clock get none.
`LifecycleSpec`: processes run, and `StopRest` goes on (`start-stop-daemon` polls);
no fairness for `EnterWindow` (a pass of the loop goes on without it), for crashes or for the commands. `TransferSpec`: a forked transfer runs; users promise
nothing. `LogSpec`: a process inside a log call goes on. `WatchSpec`: what the daemon has begun goes on, and whatever it does in
between, the loop reaches the monitor again (strong fairness of `OpenUpload`: the loop runs once a second, a check or another block only
delays it); users and failures get none, both are bounded. `BackupAll` checks safety only. `PromptSpec` lets the clock move only after the loop has read it: the run that uses it shows a
missed transfer in spite of a loop fast enough to see 01:00.

## 4. The proofs

Every safety property that a passing run checks is also a theorem: for every number of processes, children, starts, transfers, backups,
files and messages, every record and pipe size, every choice of failing calls and every bound. Apart from the types hardly any is inductive as it stands. The inductive invariants are
at the end of each component's module, with what they say in a comment; each was checked with TLC on its module's run before it was proved.

* `DirectoryLockProofs`. `LockTypeCorrect` holds whatever fails. `LockInv`, whose parts hold until a chmod has failed
  (section 3 says why no longer), is inductive. Its point is `HolderOwnsFile`: every process past the creation of the lock file is the one named in
  it, so two of them are the same; `MutualExclusion` alone says nothing about the processes on their
  way in. `ClosedHasOwner` is what lets a step out of the window be matched:
  a closed dashboard has an owner, possibly a dead one. From it follow `LockMutualExclusion`,
  `LockWindowIsLocked`, `LockIsNotStolen`, and `LockImplementsWindow`: each step of `DirectoryLock`
  is `Open`, `Close`, `Die` or a stutter of `MaintenanceWindow`. `LockQuiescentIsOpen` adds `LeftoversOwned`: a lock file or a closed
  directory names a process that has still to put it right, or was killed.
* `IpcFifoProofs`. `FifoTypeCorrect`: the FIFO never exceeds its size, with writers of text as well. Where only whole messages are written, `WholeRecords`
  holds: the stream is a number n of records. It is stated with that n because `Framed`, which says the same unit by unit with `%`, gives a read no first
  record to take; lemmas on `RecordSize * n` carry it through a write at the end and a read at the front. `FifoImplementsQueue`: a write that is accepted
  is a `Put`, a read a `Get`, and a refused write or a read of nothing a stutter of `MessageQueue`.
* `ReportDaemonProofs`. `DaemonTypeCorrect`; `DaemonWindowInvariant` and `DaemonWindowGuarded`, whatever fails:
  `WindowGuarded` speaks only of the window, so `PcFollowsLock` ties the loop's position to that in
  locking, and `OwnLock` ties the latter to lock file and modes (after a failing chmod `LockInv`
  says nothing, so it cannot be used here). `DaemonOpenInvariant`: `OpenInv` says how far the directories are open at each position until a chmod has failed, in
  particular that an urgent change happens with the daemon's position `idle`, and that the other processes are dead. From both follows `DaemonImplementsWindow`: the whole daemon,
  not only its locking, is a `MaintenanceWindow`. `DaemonOutsideIsOpen` adds `FileRemoved`.
  `DaemonFifoIsFramed` and `DaemonImplementsQueue` carry the two theorems on the FIFO over to the whole daemon: each of its steps is one of `IpcFifo` or leaves the stream alone.
  `DaemonOncePerMinute` follows from `OnceInv`: once the scheduled block has begun,
  each log call up to the end of the iteration stores 01:00 in the shared buffer, and `last_check` holds it when the
  loop is at its top again.
* `LifecycleProofs`. `LifecycleInv` joins all the properties: a daemon leaves its loop only under a stop command (`ExitIsStop`), and stop commands end with nobody alive
  (`NoneAfterStop`), so a patient administrator never has two daemons alive, in whatever stage (`OneAlive`). The one there is made PID file and FIFO itself and nobody
  unlinked them since (`HasPidFile`, `HasFifo`), and opened the directories before its loop, if its `chmod()` worked (`LoopIsOpen`). Hence `LifecycleSingleInstance`, `LifecycleReachable` and
  `LifecycleRestartOpens`.
* `ReportTransferProofs`. All of it is for any number of overlapping transfers. `OverlapInv`, hence `TransferOnlyValid`: where `rename()` works an entry that a transfer has validated and
  nobody replaced is whole, or another transfer has moved it. `TransferInv`: two transfers that move one report have clashed over it (`ClashesAreKnown`), and of a report without a clash
  `UploadIsNewest` and `DashboardHasNewest` say where the newest version is at each position of its writer, `MovesNewest` what a transfer has in its hands, `NoneIsNewer` that nothing
  overtakes it. Hence `TransferKeepsNewest` and `TransferNeverOlder`.
* `DashboardBackupProofs`. `BackupInv`, for any number of transfers and backups: `OwnsDirectory` (a backup whose mkdir succeeded is alone with its directory, and one
  that writes has a directory that is not empty) with `FoundIsOld` (what a clean-up is to remove is of an earlier second) gives `BackupFinishedFrozen`, `OnlyTargetWritable` gives `BackupModesRestored`.
  `CompleteInv`, hence `BackupCompleteIsCurrent`: `VersionsGrow` says that no upload is older than what is on the dashboard, so each report that a backup found stays fit to be copied (`Fit`), or
  is torn, and `CopyFit` follows one report through `left`, `bcur` and `bhold` into the copy.
* `DirectoryWatchProofs`. `WatchInv` follows the three loops: `ListIsBuilt` says what the list holds at each turn of the scan, `LogFollows` what the log says of a name before
  and after its turn in either loop of the comparison. `ChangesIdentify` (files of one name with the same last change are the same) turns a greater time stamp into a change by somebody. Hence
  `WatchLogReplays`, `WatchSeesSteady` and `WatchModifiedWasTouched`.
* `LogRotationProofs`. `LogRotatedInOrder`: for any number of processes that rotate at once and any number of
  backups, `.k` is younger than `.k+1`, whatever fails. `LogInv` adds that no file is newer than the last one created, so the
  log, which `Rotate` puts before all backups, is the youngest; that the loop index stays within the backups (`LogTypeOK`, and `i` while shifting), so a
  shift moves a file one place into a gap or over an older one (lemma `MovedInOrder`); and that a process in a call has a stack.
  `LogKeepsRotated`: until rotations overlap or fail, `KeepInv` says that one process rotates at a time (`OneRotation`) and that the backups in use are the first ones but for the gap above the shift's loop variable (`GapMoves`).
  So a shift or a rename overwrites nothing, and the unlink takes a file only when all are there.

The assumptions are the named `ASSUME`s of the modules, which TLC evaluates in every run, and two hypotheses of single theorems:

* `~ScriptRuns`, in `DaemonFifoIsFramed` and `DaemonImplementsQueue`: the script's text is no message, which `FifoScript` shows.
* `"unlink" \notin FileFaults`, in `LockQuiescentIsOpen` and `DaemonOutsideIsOpen`: where unlink of the lock file fails the file stays, and nothing tries again.

Only model-checked: all liveness (`LockIsReleased`, `AcceptedIsReceived`, `RequestIsTried`,
`TerminationIsHonoured`, `StopReturns`, `ReportIsMoved`, `LoggingEnds`, `MonitorConverges`), since liveness under fairness and `ENABLED` are
out of the prover's reach. The runs with `expect` violation are counterexamples, for which there is nothing to prove. `LockWindowIsLocked`,
and the types of `LogRotation`, are proved and not run; the types of `ReportTransfer` are part of `SystemTypeOK`.

## 5. What is not modelled

* `is_file_uploaded_on_time()`: it compares a file's mtime with 23:30 of the day on which it runs and its result is only logged. (For the transfer at
  01:00 that time is still to come, so no report of the evening before is late.)
* Hidden files, directories and overlong paths, which the loops skip.
* The content and format of log lines, and the `transfer` and `urgent_change` lines of the change log.
* The daemon runs as root, as the init script has it: the mode 0000 does not bind it.
* Reuse of a pid by an unrelated process; `stop` giving up (status 2) after SIGKILL.
* A report fits into one `read()` (4096 bytes), so a copy is one read and one write.
* `sleep()` only takes time; since no step waits for another, a shorter sleep adds no behaviour.

## 6. Plan

1. (done) `DirectoryLock`, `IpcFifo`, `ReportDaemon` with their proofs; `Lifecycle`, `ReportTransfer`.
2. (done) `LogRotation` with its proofs, `DashboardBackup`, `DirectoryWatch`; failing calls in `ReportTransfer`; restart in `Lifecycle`.
3. (done) Proofs of every safety property of the runs, and of the refinements of `MaintenanceWindow` and `MessageQueue`.
4. (done) Transfers that overlap, in model, runs and proofs; every `chmod()` that may fail; the clean-up entry by entry; the queue carried over to the whole daemon.
5. An abstract specification of the monitor (a set of names and the lines that change it) and of the backup (a snapshot that is taken report by report), with `DirectoryWatch` and
   `DashboardBackup` proved to implement them.
6. The monitor and the transfer in one module, so that the lines "transfer" of the change log can be compared with those of the monitor.
