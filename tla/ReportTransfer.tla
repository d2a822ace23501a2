----------------------------- MODULE ReportTransfer -----------------------------
(***************************************************************************)
(* transfer_reports() and move_file() (src/src/file_operations.c), one     *)
(* system call after the other, while users upload new versions of their   *)
(* reports.  The daemon closes the directories, forks a transfer and opens *)
(* them again without waiting for it (see ReportDaemon), so a transfer     *)
(* meets users and earlier transfers.                                      *)
(*                                                                         *)
(* A version of a report is "whole" once its user has written it to the    *)
(* end; is_valid_xml_report() accepts exactly the whole ones (the closing  *)
(* tag is the last thing written).  Modes do not bind open descriptors:    *)
(* who has a file open writes on, wherever the file has been moved.        *)
(***************************************************************************)
EXTENDS Naturals

CONSTANTS
  Report,       \* names of report files, each uploaded by one user
  Transfer,     \* how many transfers may overlap
  NoFile,       \* there is no file of that name
  MaxVersion,   \* bound: versions of a report that its user uploads
  Delivered,    \* bound: the versions that earlier days may have left on the
                \* dashboard, 0 for none
  SameFs,       \* bound: the values same_fs may take
  Faults        \* the calls that may fail: on the directory, on a copy

ASSUME TransferAssumption ==
  /\ MaxVersion \in Nat
  /\ SameFs \subseteq BOOLEAN
  /\ Faults \subseteq {"opendir", "open", "write", "unlink"}
  /\ Delivered \subseteq [Report -> 0..MaxVersion]
  /\ NoFile \notin [ver : 0..MaxVersion, whole : BOOLEAN]

VARIABLES
  upload, dashboard,    \* the files of the two directories
  writer,               \* where the file is that the user of a report has open
  version,              \* the newest version begun
  open,                 \* the directories have their normal permissions
  same_fs,              \* rename() from upload to dashboard works
  tpc, todo, cur, hold, \* of each transfer: position, entries not yet read,
                        \* the entry it works on, the data it has read
  astray,               \* the transfers whose open destination has lost its
                        \* name to a rename()
  raced,                \* history: the reports whose newest version was begun
                        \* while a transfer was moving the previous one
  clashed               \* history: the reports that two transfers have moved at
                        \* the same time, up to the next version

userVars == <<writer, version>>
dirVars == <<upload, dashboard>>
transferVars == <<tpc, todo, cur, hold, astray>>
envVars == <<open, same_fs>>
historyVars == <<raced, clashed>>
allVars == <<dirVars, userVars, envVars, transferVars, historyVars>>

File == [ver : 0..MaxVersion, whole : BOOLEAN]
Whole(f) == f # NoFile /\ f.whole

TransferInit ==
  /\ upload = [r \in Report |-> NoFile] /\ writer = [r \in Report |-> "none"]
  /\ version \in Delivered
  /\ dashboard = [r \in Report |-> IF version[r] = 0 THEN NoFile
                                    ELSE [ver |-> version[r], whole |-> TRUE]]
  /\ open = TRUE /\ same_fs \in SameFs /\ raced = {} /\ clashed = {}
  /\ tpc = [t \in Transfer |-> "idle"] /\ todo = [t \in Transfer |-> {}]
  /\ cur \in [Transfer -> Report] /\ hold = [t \in Transfer |-> NoFile] /\ astray = {}

Goto(t, from, to) == tpc[t] = from /\ tpc' = [tpc EXCEPT ![t] = to]
--------------------------------------------------------------------------------
(***************************************************************************)
(* Users.                                                                  *)
(***************************************************************************)
Mover == {"rename", "copy", "write", "unlink"}

\* A transfer has validated r and not yet finished with it.
Moving(r) == \E t \in Transfer : cur[t] = r /\ tpc[t] \in Mover

\* open(O_CREAT | O_TRUNC): takes an open directory.
BeginUpload(r) ==
  /\ open /\ writer[r] = "none" /\ version[r] < MaxVersion
  /\ version' = [version EXCEPT ![r] = @ + 1]
  /\ upload' = [upload EXCEPT ![r] = [ver |-> version'[r], whole |-> FALSE]]
  /\ writer' = [writer EXCEPT ![r] = "upload"]
  /\ IF Moving(r) THEN raced' = raced \cup {r} /\ UNCHANGED clashed
     ELSE raced' = raced \ {r} /\ clashed' = clashed \ {r}
  /\ UNCHANGED <<dashboard, envVars, transferVars>>

\* The last write() and close().
EndUpload(r) ==
  /\ writer[r] # "none"
  /\ writer' = [writer EXCEPT ![r] = "none"]
  /\ upload' = IF writer[r] = "upload" THEN [upload EXCEPT ![r].whole = TRUE] ELSE upload
  /\ dashboard' = IF writer[r] = "dashboard" THEN [dashboard EXCEPT ![r].whole = TRUE]
                  ELSE dashboard
  /\ UNCHANGED <<version, envVars, transferVars, historyVars>>
--------------------------------------------------------------------------------
(***************************************************************************)
(* The daemon.                                                             *)
(***************************************************************************)
\* A transfer that cannot open the upload directory ends at once.
LockAndFork(t) ==
  /\ open /\ open' = FALSE
  /\ \/ Goto(t, "idle", "next") /\ todo' = [todo EXCEPT ![t] = Report]
     \/ "opendir" \in Faults /\ Goto(t, "idle", "idle") /\ UNCHANGED todo
  /\ UNCHANGED <<dirVars, userVars, same_fs, cur, hold, astray, historyVars>>

\* After sleep(5), whatever the child does.
Unlock == /\ ~open /\ open' = TRUE
          /\ UNCHANGED <<dirVars, userVars, same_fs, transferVars, historyVars>>
--------------------------------------------------------------------------------
(***************************************************************************)
(* transfer_reports().                                                     *)
(***************************************************************************)
\* Another transfer has validated r already and is still at it.
Clash(t, r) ==
  clashed' = IF tpc'[t] = "rename" /\ Moving(r) THEN clashed \cup {r} ELSE clashed

\* Mutant: an invalid file ends the loop instead of being skipped.
NextEntryBreak(t) ==
  \E r \in todo[t] :
    /\ Goto(t, "next", IF Whole(upload[r]) THEN "rename"
                       ELSE IF upload[r] = NoFile THEN "next" ELSE "idle")
    /\ todo' = [todo EXCEPT ![t] = @ \ {r}]
    /\ cur' = [cur EXCEPT ![t] = r]
    /\ Clash(t, r)
    /\ UNCHANGED <<dirVars, userVars, envVars, hold, astray, raced>>

\* Mutant: the file is not validated.
NextEntryUnchecked(t) ==
  \E r \in todo[t] :
    /\ Goto(t, "next", IF upload[r] # NoFile THEN "rename" ELSE "next")
    /\ todo' = [todo EXCEPT ![t] = @ \ {r}]
    /\ cur' = [cur EXCEPT ![t] = r]
    /\ Clash(t, r)
    /\ UNCHANGED <<dirVars, userVars, envVars, hold, astray, raced>>

\* readdir() and is_valid_xml_report(): entries come in any order, one that
\* is gone or invalid is skipped.
NextEntry(t) ==
  \E r \in todo[t] :
    /\ Goto(t, "next", IF Whole(upload[r]) THEN "rename" ELSE "next")
    /\ todo' = [todo EXCEPT ![t] = @ \ {r}]
    /\ cur' = [cur EXCEPT ![t] = r]
    /\ Clash(t, r)
    /\ UNCHANGED <<dirVars, userVars, envVars, hold, astray, raced>>

LastEntry(t) ==
  /\ todo[t] = {} /\ Goto(t, "next", "idle")
  /\ UNCHANGED <<dirVars, userVars, envVars, todo, cur, hold, astray, historyVars>>

\* Writers of the file that has had the name go on with a file that has none.
Astray(r) == {u \in Transfer : tpc[u] = "write" /\ cur[u] = r}

\* Mutant: no return after a successful rename.
RenameThenUnlink(t) ==
  LET r == cur[t]
  IN /\ IF same_fs /\ upload[r] # NoFile
          THEN /\ Goto(t, "rename", "unlink")
               /\ dashboard' = [dashboard EXCEPT ![r] = upload[r]]
               /\ upload' = [upload EXCEPT ![r] = NoFile]
               /\ writer' = [writer EXCEPT ![r] = IF @ = "upload" THEN "dashboard" ELSE @]
               /\ astray' = astray \cup Astray(r)
          ELSE Goto(t, "rename", "copy") /\ UNCHANGED <<dirVars, writer, astray>>
     /\ UNCHANGED <<version, envVars, todo, cur, hold, historyVars>>

\* Mutant: the file is copied although it could be renamed.
RenameNotTried(t) ==
  /\ Goto(t, "rename", "copy")
  /\ UNCHANGED <<dirVars, userVars, envVars, todo, cur, hold, astray, historyVars>>

\* move_file(): rename() replaces the dashboard's file in one step, and a
\* user who still writes to the file goes with it.  Any failure, that of an
\* absent file included, leads to the copy.
Rename(t) ==
  LET r == cur[t]
  IN /\ IF same_fs /\ upload[r] # NoFile
          THEN /\ Goto(t, "rename", "next")
               /\ dashboard' = [dashboard EXCEPT ![r] = upload[r]]
               /\ upload' = [upload EXCEPT ![r] = NoFile]
               /\ writer' = [writer EXCEPT ![r] = IF @ = "upload" THEN "dashboard" ELSE @]
               /\ astray' = astray \cup Astray(r)
          ELSE Goto(t, "rename", "copy") /\ UNCHANGED <<dirVars, writer, astray>>
     /\ UNCHANGED <<version, envVars, todo, cur, hold, historyVars>>

\* copy_file(): the source is opened and read, the destination truncated.  A
\* report fits into one read().
OpenAndRead(t) ==
  LET r == cur[t]
  IN /\ \/ /\ upload[r] # NoFile
           /\ Goto(t, "copy", "write")
           /\ hold' = [hold EXCEPT ![t] = upload[r]]
           /\ dashboard' = [dashboard EXCEPT ![r] = [ver |-> 0, whole |-> FALSE]]
        \/ /\ upload[r] = NoFile \/ "open" \in Faults
           /\ Goto(t, "copy", "next")
           /\ UNCHANGED <<dashboard, hold>>
     /\ UNCHANGED <<upload, userVars, envVars, todo, cur, astray, historyVars>>

Write(t) ==
  /\ \/ /\ Goto(t, "write", "unlink")
        /\ dashboard' = IF t \in astray THEN dashboard
                        ELSE [dashboard EXCEPT ![cur[t]] = hold[t]]
     \/ /\ "write" \in Faults /\ Goto(t, "write", "next")
        /\ UNCHANGED dashboard
  /\ hold' = [hold EXCEPT ![t] = NoFile] /\ astray' = astray \ {t}
  /\ UNCHANGED <<upload, userVars, envVars, todo, cur, historyVars>>

\* unlink(source): whatever is there now under that name.  When it fails both
\* copies stay.
Unlink(t) ==
  LET r == cur[t]
  IN /\ Goto(t, "unlink", "next")
     /\ \/ /\ upload' = [upload EXCEPT ![r] = NoFile]
           /\ writer' = [writer EXCEPT ![r] = IF @ = "upload" THEN "gone" ELSE @]
        \/ "unlink" \in Faults /\ UNCHANGED <<upload, writer>>
     /\ UNCHANGED <<dashboard, version, envVars, todo, cur, hold, astray, historyVars>>

TransferStep(t) == \/ NextEntry(t) \/ LastEntry(t) \/ Rename(t)
                   \/ OpenAndRead(t) \/ Write(t) \/ Unlink(t)

TransferNext ==
  \/ \E r \in Report : BeginUpload(r) \/ EndUpload(r)
  \/ \E t \in Transfer : LockAndFork(t) \/ TransferStep(t)
  \/ Unlock

\* A forked transfer runs.  Users promise nothing.
TransferSpec == /\ TransferInit /\ [][TransferNext]_allVars
                /\ \A t \in Transfer : WF_allVars(TransferStep(t))
--------------------------------------------------------------------------------
TransferTypeOK ==
  /\ upload \in [Report -> File \cup {NoFile}]
  /\ dashboard \in [Report -> File \cup {NoFile}]
  /\ writer \in [Report -> {"none", "upload", "dashboard", "gone"}]
  /\ version \in [Report -> 0..MaxVersion]
  /\ open \in BOOLEAN /\ same_fs \in BOOLEAN
  /\ raced \subseteq Report /\ clashed \subseteq Report
  /\ tpc \in [Transfer -> {"idle", "next", "rename", "copy", "write", "unlink"}]
  /\ todo \in [Transfer -> SUBSET Report] /\ cur \in [Transfer -> Report]
  /\ hold \in [Transfer -> File \cup {NoFile}] /\ astray \subseteq Transfer

(***************************************************************************)
(* "Move a file from source to destination" (file_operations.c:507), where *)
(* transfers may overlap: the newest version of a report that its user has *)
(* written to the end is there, whole, in one of the two directories.      *)
(* Where rename() works this says so whatever the user does and however    *)
(* copying may fail; where reports are copied, except for a version that   *)
(* was begun between the validation of the previous one and its unlink().  *)
(* The code breaks it: see Rename.                                         *)
(***************************************************************************)
MoveNeverLoses ==
  \A r \in Report : version[r] > 0 /\ writer[r] = "none" /\ (same_fs \/ r \notin raced) =>
    [ver |-> version[r], whole |-> TRUE] \in {upload[r], dashboard[r]}

(***************************************************************************)
(* What the code does keep, however many transfers overlap: the same for   *)
(* every report but those that two transfers have moved at the same time.  *)
(***************************************************************************)
NewestVersionKept ==
  \A r \in Report \ clashed : version[r] > 0 /\ writer[r] = "none" /\ (same_fs \/ r \notin raced) =>
    [ver |-> version[r], whole |-> TRUE] \in {upload[r], dashboard[r]}

(***************************************************************************)
(* Where rename() works, readers of the dashboard never see a report       *)
(* disappear or replaced by an older one, however many transfers run,      *)
(* unless two of them have moved that report at the same time.             *)
(***************************************************************************)
DashboardNeverOlder ==
  [][\A r \in Report \ clashed : same_fs /\ dashboard[r] # NoFile =>
       dashboard'[r] # NoFile /\ dashboard'[r].ver >= dashboard[r].ver]_dashboard

(***************************************************************************)
(* "Skipping invalid XML file" (file_operations.c:80): what a transfer     *)
(* renames into the dashboard is valid, except for a version that was      *)
(* begun between the validation by name and the rename by name.            *)
(***************************************************************************)
OnlyValidReports ==
  [][\A r \in Report : same_fs /\ dashboard'[r] # dashboard[r] =>
       Whole(dashboard'[r]) \/ r \in raced]_dashboard

(***************************************************************************)
(* A valid report that a transfer has still to visit leaves the upload     *)
(* directory, unless its user is replacing it; where it has to be copied,  *)
(* which may fail, the transfer comes to it at least.                      *)
(***************************************************************************)
ReportIsMoved ==
  \A r \in Report, t \in Transfer :
    tpc[t] = "next" /\ r \in todo[t] /\ Whole(upload[r])
      ~> upload[r] = NoFile \/ writer[r] = "upload" \/ (~same_fs /\ r \notin todo[t])
--------------------------------------------------------------------------------
(***************************************************************************)
(* The inductive invariants.  However many transfers overlap, who writes   *)
(* has a file to write to, and where rename() works an entry that nobody   *)
(* replaced since its validation is still whole, or moved by another.      *)
(***************************************************************************)
WriterHasFile ==
  /\ \A r \in Report : /\ writer[r] = "upload" => upload[r] # NoFile
                       /\ writer[r] = "dashboard" => dashboard[r] # NoFile
  /\ \A t \in Transfer : tpc[t] = "write" => hold[t] # NoFile

ValidatedIsWhole ==
  same_fs => \A t \in Transfer : tpc[t] \in Mover /\ cur[t] \notin raced =>
    /\ tpc[t] \in {"rename", "copy"}
    /\ upload[cur[t]] # NoFile => Whole(upload[cur[t]]) /\ tpc[t] = "rename"

OverlapInv == TransferTypeOK /\ WriterHasFile /\ ValidatedIsWhole

(***************************************************************************)
(* Two transfers that move one report have clashed over it.  Of a report   *)
(* without a clash: the upload directory has the newest version, or the    *)
(* dashboard has; while a transfer moves a version that nobody replaces,   *)
(* the source, the data read and the copy are the newest.                  *)
(***************************************************************************)
ClashesAreKnown ==
  /\ \A t, u \in Transfer : t # u /\ tpc[t] \in Mover /\ tpc[u] \in Mover /\ cur[t] = cur[u] =>
       cur[t] \in clashed
  /\ \A t \in astray : tpc[t] = "write" /\ cur[t] \in clashed

IsNewest(f, r) == Whole(f) /\ f.ver = version[r]

UploadIsNewest == \A r \in Report : upload[r] # NoFile =>
  upload[r].ver = version[r] /\ (upload[r].whole <=> writer[r] # "upload")

NoneIsNewer ==
  /\ \A r \in Report : dashboard[r] # NoFile => dashboard[r].ver <= version[r]
  /\ \A t \in Transfer : tpc[t] = "write" => hold[t].ver <= version[cur[t]]

DashboardHasNewest == \A r \in Report \ clashed :
  /\ version[r] > 0 /\ writer[r] = "none" /\ upload[r] = NoFile /\ (same_fs \/ r \notin raced)
       => IsNewest(dashboard[r], r)
  /\ writer[r] = "dashboard" => same_fs /\ upload[r] = NoFile /\ dashboard[r].ver = version[r]
  /\ writer[r] = "gone" => ~same_fs /\ r \in raced

MovesNewest == \A t \in Transfer : tpc[t] \in Mover /\ cur[t] \notin clashed =>
  /\ same_fs => tpc[t] = "rename" /\ upload[cur[t]] # NoFile
  /\ cur[t] \notin raced =>
       /\ IsNewest(upload[cur[t]], cur[t])
       /\ tpc[t] = "write" => hold[t] = upload[cur[t]]
       /\ tpc[t] = "unlink" => dashboard[cur[t]] = upload[cur[t]]

TransferInv ==
  /\ OverlapInv /\ ClashesAreKnown /\ UploadIsNewest /\ NoneIsNewer
  /\ DashboardHasNewest /\ MovesNewest
================================================================================
