----------------------------- MODULE DirectoryWatch -----------------------------
(***************************************************************************)
(* The daemon's two readers of directories (src/src/file_operations.c):    *)
(* monitor_directory_changes() with scan_directory() and log_file_change(),*)
(* which turns what happens in the upload directory into a change log, and *)
(* check_missing_reports(), which looks for a report of every department   *)
(* on the dashboard.  Both read name after name while users and a transfer *)
(* that is still running change the directories.                           *)
(***************************************************************************)
EXTENDS Naturals, Sequences

CONSTANTS
  Name,         \* visible names: the parts that underscores separate, in lower
                \* case and without ".xml", and whether ".xml" occurs in it
  Department,   \* the departments that have to report
  User,         \* owners of files
  Unset,        \* the owner field before anything is stored in it
  NoFile,       \* there is no file of that name
  NoScan,       \* previous_files == NULL
  MaxTime,      \* bound: the clock in seconds
  MaxChanges,   \* bound: files put into the upload directory
  MaxFaults     \* bound: restarts, and calls of the daemon that fail

ASSUME WatchAssumption ==
  /\ MaxTime \in Nat /\ MaxChanges \in Nat /\ MaxFaults \in Nat
  /\ \A n \in Name : n.parts # <<>> /\ n.xml \in BOOLEAN
  /\ Unset \notin User
  /\ LET Element == [timestamp : 0..MaxTime, owner : User \cup {Unset}, change : 1..MaxChanges]
     IN NoFile \notin Element /\ NoScan \notin [Name -> Element \cup {NoFile}]

VARIABLES
  now, changes, faults,       \* the clock; what has happened so far
  upload, dashboard,          \* the files of the one, the names on the other
  dpc, todo, file,            \* position in the daemon, names not yet read
  current, previous,          \* current_files, previous_files
  entry,                      \* the last line of the change log, in a comparison
  replayed,                   \* history: who reads the log takes these to exist
  lost,                       \* history: names whose last line was not written
  steady,                     \* history: names that were there, or not there,
                              \* ever since the scan began
  found,                      \* of check_missing_reports()
  atstart                     \* history: the dashboard when the check began

worldVars == <<now, changes, upload, dashboard>>
scanVars == <<todo, file, current, previous>>
logVars == <<entry, replayed, lost>>
checkVars == <<found, atstart>>
watchVars == <<worldVars, faults, dpc, scanVars, logVars, steady, checkVars>>

Time == 0..MaxTime
\* An element of current_files or previous_files; "change" is a history field
\* that tells apart two files of the same second.
ReportFile == [timestamp : Time, owner : User \cup {Unset}, change : 1..MaxChanges]
Nothing == [n \in Name |-> NoFile]
NoEntry == [action |-> "none"]
Names(files) == {n \in Name : files[n] # NoFile}

WatchInit ==
  /\ now = 0 /\ changes = 0 /\ faults = 0
  /\ upload = Nothing /\ dashboard \in SUBSET Name
  /\ dpc = "idle" /\ todo = {} /\ file = NoFile
  /\ current = Nothing /\ previous = NoScan
  /\ entry = NoEntry /\ replayed = {} /\ lost = {} /\ steady = {}
  /\ found = {} /\ atstart = {}

DaemonGoto(from, to) == dpc = from /\ dpc' = to
Fault == faults < MaxFaults /\ faults' = faults + 1
--------------------------------------------------------------------------------
(***************************************************************************)
(* Users and the transfer.                                                 *)
(***************************************************************************)
Tick == now < MaxTime /\ now' = now + 1
        /\ UNCHANGED <<changes, upload, dashboard, faults, dpc, scanVars, logVars, steady, checkVars>>

\* A file is written, or moved here with the time stamp it had.
Put(n, u, t) ==
  /\ changes < MaxChanges /\ changes' = changes + 1
  /\ upload' = [upload EXCEPT ![n] = [timestamp |-> t, owner |-> u, change |-> changes']]
  /\ steady' = IF upload[n] = NoFile THEN steady \ {n} ELSE steady
  /\ UNCHANGED <<now, dashboard, faults, dpc, scanVars, logVars, checkVars>>

\* A user removes the file, or a transfer moves the report to the dashboard.
Take(n) ==
  /\ upload[n] # NoFile /\ upload' = [upload EXCEPT ![n] = NoFile]
  /\ dashboard' = dashboard \/ (n.xml /\ dashboard' = dashboard \cup {n})
  /\ steady' = steady \ {n}
  /\ UNCHANGED <<now, changes, faults, dpc, scanVars, logVars, checkVars>>
--------------------------------------------------------------------------------
(***************************************************************************)
(* scan_directory().                                                       *)
(***************************************************************************)
OpenUpload ==
  /\ \/ DaemonGoto("idle", "scan") /\ UNCHANGED faults
     \/ DaemonGoto("idle", "idle") /\ Fault
  /\ IF dpc' = "scan" THEN todo' = Name /\ steady' = Name ELSE UNCHANGED <<todo, steady>>
  /\ UNCHANGED <<worldVars, file, current, previous, logVars, checkVars>>

\* Mutant: a name that has vanished since readdir() ends the scan.
StatEntryBreak ==
  \E n \in todo :
    /\ IF upload[n] # NoFile
         THEN /\ DaemonGoto("scan", "owner") /\ todo' = todo \ {n} /\ file' = n
              /\ current' = [current EXCEPT ![n] = [upload[n] EXCEPT !.owner = Unset]]
         ELSE DaemonGoto("scan", "scan") /\ todo' = {} /\ UNCHANGED <<file, current>>
    /\ UNCHANGED <<worldVars, faults, previous, logVars, steady, checkVars>>

\* Mutant: the result of stat() is not looked at.
StatEntryUnchecked ==
  \E n \in todo :
    /\ DaemonGoto("scan", "owner") /\ todo' = todo \ {n} /\ file' = n
    /\ current' = [current EXCEPT ![n] = [timestamp |-> Unset, owner |-> Unset, change |-> 1]]
    /\ UNCHANGED <<worldVars, faults, previous, logVars, steady, checkVars>>

\* readdir() returns the names in any order; one that is gone by the time of
\* its stat() is skipped.
StatEntry ==
  \E n \in todo :
    /\ todo' = todo \ {n}
    /\ IF upload[n] # NoFile
         THEN /\ DaemonGoto("scan", "owner") /\ file' = n
              /\ current' = [current EXCEPT ![n] = [upload[n] EXCEPT !.owner = Unset]]
         ELSE DaemonGoto("scan", "scan") /\ UNCHANGED <<file, current>>
    /\ UNCHANGED <<worldVars, faults, previous, logVars, steady, checkVars>>

\* get_file_owner() has a stat() of its own; its failure is not looked at, and
\* the element keeps what malloc() has left there.
GetFileOwner ==
  /\ DaemonGoto("owner", "scan")
  /\ current' = IF upload[file] = NoFile THEN current
                ELSE [current EXCEPT ![file].owner = upload[file].owner]
  /\ file' = NoFile
  /\ UNCHANGED <<worldVars, faults, todo, previous, logVars, steady, checkVars>>

\* The list of this scan is gone, saved or freed.
EndOfScan == todo' = {} /\ current' = Nothing /\ steady' = {}

\* realloc() fails: the scan is given up, and what is known stays.
ScanFails ==
  /\ DaemonGoto("scan", "idle") /\ Fault /\ EndOfScan
  /\ UNCHANGED <<worldVars, file, previous, logVars, checkVars>>

\* The first scan is saved without a line in the log.
EndScan ==
  /\ todo = {}
  /\ IF previous = NoScan
       THEN /\ DaemonGoto("scan", "idle") /\ EndOfScan
            /\ previous' = current /\ replayed' = Names(current) /\ lost' = {}
       ELSE /\ DaemonGoto("scan", "compare") /\ todo' = Name
            /\ UNCHANGED <<current, previous, replayed, lost, steady>>
  /\ UNCHANGED <<worldVars, faults, file, entry, checkVars>>
--------------------------------------------------------------------------------
(***************************************************************************)
(* monitor_directory_changes().                                            *)
(***************************************************************************)
\* log_file_change(): when the file cannot be opened the line is lost.
LogFileChange(owner, n, action) ==
  \/ /\ entry' = [user |-> owner, name |-> n, action |-> action]
     /\ replayed' = CASE action = "create" -> replayed \cup {n}
                      [] action = "delete" -> replayed \ {n}
                      [] OTHER -> replayed
     /\ lost' = IF action = "modify" THEN lost ELSE lost \ {n}
     /\ UNCHANGED faults
  \/ Fault /\ lost' = lost \cup {n} /\ UNCHANGED <<entry, replayed>>

NothingLogged == UNCHANGED <<faults, logVars>>

\* Mutant: a file with the same time stamp counts as modified.
CompareSameTime ==
  \E n \in todo :
    /\ DaemonGoto("compare", "compare") /\ todo' = todo \ {n}
    /\ IF current[n] = NoFile THEN NothingLogged
       ELSE IF previous[n] = NoFile THEN LogFileChange(current[n].owner, n, "create")
       ELSE IF current[n].timestamp >= previous[n].timestamp
         THEN LogFileChange(current[n].owner, n, "modify")
       ELSE NothingLogged
    /\ UNCHANGED <<worldVars, file, current, previous, steady, checkVars>>

\* "Look for new or modified files".
Compare ==
  \E n \in todo :
    /\ DaemonGoto("compare", "compare") /\ todo' = todo \ {n}
    /\ IF current[n] = NoFile THEN NothingLogged
       ELSE IF previous[n] = NoFile THEN LogFileChange(current[n].owner, n, "create")
       ELSE IF current[n].timestamp > previous[n].timestamp
         THEN LogFileChange(current[n].owner, n, "modify")
       ELSE NothingLogged
    /\ UNCHANGED <<worldVars, file, current, previous, steady, checkVars>>

EndCompare ==
  /\ todo = {} /\ todo' = Name /\ DaemonGoto("compare", "deleted")
  /\ UNCHANGED <<worldVars, faults, file, current, previous, logVars, steady, checkVars>>

\* Mutant: "found" is not reset, so only the first file is looked at.
LookForDeletedFoundKept ==
  \E n \in todo :
    /\ DaemonGoto("deleted", "deleted") /\ todo' = todo \ {n}
    /\ IF previous[n] # NoFile /\ Names(current) = {}
         THEN LogFileChange(previous[n].owner, n, "delete")
         ELSE NothingLogged
    /\ UNCHANGED <<worldVars, file, current, previous, steady, checkVars>>

\* "Look for deleted files".
LookForDeleted ==
  \E n \in todo :
    /\ DaemonGoto("deleted", "deleted") /\ todo' = todo \ {n}
    /\ IF previous[n] # NoFile /\ current[n] = NoFile
         THEN LogFileChange(previous[n].owner, n, "delete")
         ELSE NothingLogged
    /\ UNCHANGED <<worldVars, file, current, previous, steady, checkVars>>

\* Mutant: the new list replaces the old one only when it is longer.
EndMonitorKeepsLonger ==
  /\ todo = {} /\ DaemonGoto("deleted", "idle") /\ EndOfScan
  /\ previous' = IF Names(previous) \subseteq Names(current) THEN current ELSE previous
  /\ entry' = NoEntry
  /\ UNCHANGED <<worldVars, faults, file, replayed, lost, checkVars>>

EndMonitor ==
  /\ todo = {} /\ DaemonGoto("deleted", "idle") /\ EndOfScan
  /\ previous' = current
  /\ entry' = NoEntry
  /\ UNCHANGED <<worldVars, faults, file, replayed, lost, checkVars>>

\* previous_files belongs to the process.
Restart ==
  /\ Fault /\ dpc' = "idle" /\ EndOfScan /\ file' = NoFile /\ previous' = NoScan
  /\ found' = {} /\ atstart' = {} /\ entry' = NoEntry
  /\ UNCHANGED <<worldVars, replayed, lost>>
--------------------------------------------------------------------------------
(***************************************************************************)
(* check_missing_reports(), in the window, while the transfer child works. *)
(***************************************************************************)
\* When the directory cannot be opened no department is named.
OpenDashboard ==
  /\ \/ DaemonGoto("idle", "check") /\ UNCHANGED faults
     \/ DaemonGoto("idle", "idle") /\ Fault
  /\ IF dpc' = "check" THEN todo' = Name /\ atstart' = dashboard ELSE UNCHANGED <<todo, atstart>>
  /\ UNCHANGED <<worldVars, file, current, previous, logVars, steady, found>>

\* What is before the first underscore or, without one, before the extension.
ExtractDepartment(n) == Head(n.parts)

MarkFound ==
  \E n \in todo :
    /\ DaemonGoto("check", "check") /\ todo' = todo \ {n}
    /\ found' = IF n \in dashboard /\ n.xml
                  THEN found \cup (Department \cap {ExtractDepartment(n)}) ELSE found
    /\ UNCHANGED <<worldVars, faults, file, current, previous, logVars, steady, atstart>>

\* "Log missing reports"; it does nothing else about them.
Missing == Department \ found

LogMissing ==
  /\ todo = {} /\ DaemonGoto("check", "idle")
  /\ found' = {} /\ atstart' = {}
  /\ UNCHANGED <<worldVars, faults, scanVars, logVars, steady>>
--------------------------------------------------------------------------------
WatchStep == \/ StatEntry \/ GetFileOwner \/ EndScan \/ Compare \/ EndCompare
             \/ LookForDeleted \/ EndMonitor \/ MarkFound \/ LogMissing

WatchNext ==
  \/ \E n \in Name : Take(n) \/ \E u \in User, t \in 0..now : Put(n, u, t)
  \/ Tick \/ Restart
  \/ OpenUpload \/ OpenDashboard \/ ScanFails \/ WatchStep

\* What the daemon has begun goes on, and every few seconds, whatever it does
\* in between, its loop comes to the monitor.
WatchSpec == /\ WatchInit /\ [][WatchNext]_watchVars
             /\ WF_watchVars(WatchStep) /\ SF_watchVars(OpenUpload)
--------------------------------------------------------------------------------
WatchTypeOK ==
  /\ now \in Time /\ changes \in 0..MaxChanges /\ faults \in 0..MaxFaults
  /\ upload \in [Name -> ReportFile \cup {NoFile}] /\ dashboard \subseteq Name
  /\ dpc \in {"idle", "scan", "owner", "compare", "deleted", "check"}
  /\ todo \subseteq Name /\ file \in Name \cup {NoFile}
  /\ current \in [Name -> ReportFile \cup {NoFile}]
  /\ previous \in [Name -> ReportFile \cup {NoFile}] \cup {NoScan}
  /\ \/ entry = NoEntry
     \/ entry \in [user : User \cup {Unset}, name : Name, action : {"create", "modify", "delete"}]
  /\ replayed \subseteq Name /\ lost \subseteq Name /\ steady \subseteq Name
  /\ found \subseteq Department /\ atstart \subseteq Name

(***************************************************************************)
(* The change log is complete and consistent: who starts with the files of *)
(* the first scan and follows the "create" and "delete" lines has, between *)
(* two scans, exactly the files of the last one, whatever vanished or came *)
(* during the scans and whichever of them failed; but for a name whose     *)
(* last line could not be written.                                         *)
(***************************************************************************)
LogReplays ==
  dpc = "idle" /\ previous # NoScan =>
    \A n \in Name \ lost : n \in replayed <=> previous[n] # NoFile

(***************************************************************************)
(* A scan is as good as a photograph: a name that was there from its       *)
(* beginning on is in the list, one that was not there is not in it,       *)
(* although other names vanish between readdir() and stat().               *)
(***************************************************************************)
ScanSeesSteady ==
  dpc = "compare" => \A n \in steady : current[n] = NoFile <=> upload[n] = NoFile

(***************************************************************************)
(* "Check if file was modified" (file_operations.c:256): a file that       *)
(* nobody has touched between two scans is not logged as modified.  (The   *)
(* converse is not so: a change within the second of the time stamp, or by *)
(* a file that keeps an older one, escapes the comparison.)                *)
(***************************************************************************)
ModifiedWasTouched ==
  [][dpc = "compare" /\ entry' # entry /\ entry'.action = "modify" =>
       LET n == entry'.name IN current[n].change # previous[n].change]_entry

(***************************************************************************)
(* Once the directory comes to rest, the daemon's picture of it is right   *)
(* for good: names, time stamps and owners, those left unset by a file     *)
(* that vanished during a scan included.                                   *)
(***************************************************************************)
MonitorConverges == <>[](previous = upload)

ExpectedFormat(n, d) == n.xml /\ Len(n.parts) = 3 /\ n.parts[1] = "report" /\ n.parts[2] = d

(***************************************************************************)
(* "Expected format: report_Department_YYYY-MM-DD.xml" (file_operations.c: *)
(* 182): a department is not named as missing (171) when its report, in    *)
(* that format, was on the dashboard before the check began.  The code     *)
(* breaks it: what precedes the first underscore is "report".              *)
(***************************************************************************)
MissingWasAbsent ==
  dpc = "check" /\ todo = {} =>
    \A d \in Missing : \A n \in atstart : ~ExpectedFormat(n, d)
--------------------------------------------------------------------------------
(***************************************************************************)
(* The inductive invariant.  A list of files is built up from nothing, the *)
(* names still to be read being absent from it, and the element whose      *)
(* owner is looked up is in it.                                            *)
(***************************************************************************)
ListIsBuilt ==
  /\ dpc \in {"idle", "check"} => current = Nothing
  /\ dpc \in {"scan", "owner"} => \A n \in todo : current[n] = NoFile
  /\ dpc \in {"scan", "owner"} =>
       \A n \in steady \ todo : current[n] = NoFile <=> upload[n] = NoFile
  /\ dpc = "owner" => file \in Name \ todo /\ current[file] # NoFile
  /\ dpc \in {"compare", "deleted"} => previous # NoScan

(***************************************************************************)
(* Files of one name with the same change are one file, wherever they are. *)
(***************************************************************************)
SameChange(f, g) ==
  f # NoFile /\ g # NoFile /\ f.change = g.change => f.timestamp = g.timestamp

ChangesIdentify == \A n \in Name :
  /\ upload[n] # NoFile => upload[n].change <= changes
  /\ current[n] # NoFile => current[n].change <= changes
  /\ SameChange(current[n], upload[n])
  /\ previous # NoScan =>
       /\ previous[n] # NoFile => previous[n].change <= changes
       /\ SameChange(previous[n], upload[n]) /\ SameChange(previous[n], current[n])

(***************************************************************************)
(* What the log says of a name lags behind by the names not yet compared.  *)
(***************************************************************************)
Known(n) ==
  CASE dpc = "compare" -> previous[n] # NoFile \/ (n \notin todo /\ current[n] # NoFile)
    [] dpc = "deleted" -> current[n] # NoFile \/ (n \in todo /\ previous[n] # NoFile)
    [] OTHER -> previous[n] # NoFile

LogFollows == previous # NoScan => \A n \in Name \ lost : n \in replayed <=> Known(n)

WatchInv == WatchTypeOK /\ ListIsBuilt /\ ScanSeesSteady /\ ChangesIdentify /\ LogFollows
================================================================================
