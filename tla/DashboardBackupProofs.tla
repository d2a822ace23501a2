------------------------- MODULE DashboardBackupProofs -------------------------
(***************************************************************************)
(* Proofs about DashboardBackup: for any number of reports, transfers and  *)
(* backups, any lengths of their work in seconds, and whatever call fails. *)
(***************************************************************************)
EXTENDS DashboardBackup, ReportTransferProofs

--------------------------------------------------------------------------------
(***************************************************************************)
(* What the steps of the users and the transfers keep.                     *)
(***************************************************************************)
LEMMA DashboardStays ==
  ASSUME TransferTypeOK, WriterHasFile, [TransferNext]_allVars
  PROVE  \A r \in Report : dashboard[r] # NoFile => dashboard'[r] # NoFile
<1> USE DEF TransferTypeOK, Goto
<1>1. ASSUME NEW q \in Report, EndUpload(q)
      PROVE  \A r \in Report : dashboard[r] # NoFile => dashboard'[r] # NoFile
  <2>1. dashboard' = IF writer[q] = "dashboard"
                       THEN [dashboard EXCEPT ![q] = [ver |-> dashboard[q].ver, whole |-> TRUE]]
                       ELSE dashboard
    BY <1>1, EndUploadEffect
  <2>2. CASE writer[q] = "dashboard"
    <3>1. dashboard[q].ver \in 0..MaxVersion
      BY <2>2 DEF WriterHasFile, File
    <3>2. [ver |-> dashboard[q].ver, whole |-> TRUE] # NoFile
      BY <3>1, FileRecord
    <3>3. QED BY <2>1, <2>2, <3>2
  <2>3. QED BY <2>1, <2>2
<1>2. ASSUME NEW t \in Transfer, Rename(t)
      PROVE  \A r \in Report : dashboard[r] # NoFile => dashboard'[r] # NoFile
  BY <1>2 DEF Rename, dirVars
<1>3. ASSUME NEW t \in Transfer, OpenAndRead(t)
      PROVE  \A r \in Report : dashboard[r] # NoFile => dashboard'[r] # NoFile
  <2>1. [ver |-> 0, whole |-> FALSE] # NoFile
    BY FileRecord, TransferAssumption, 0 \in 0..MaxVersion
  <2>2. QED BY <1>3, <2>1 DEF OpenAndRead
<1>4. ASSUME NEW t \in Transfer, Write(t)
      PROVE  \A r \in Report : dashboard[r] # NoFile => dashboard'[r] # NoFile
  BY <1>4 DEF Write, WriterHasFile
<1>5. QED
  BY <1>1, <1>2, <1>3, <1>4
     DEF TransferNext, TransferStep, BeginUpload, LockAndFork, Unlock, NextEntry, LastEntry,
         Unlink, dirVars, transferVars, userVars, allVars

\* Users, transfers, windows and the clock leave the backups alone.
LEMMA OutsideStep ==
  ASSUME BackupInv,
         \/ \E r \in Report : UserWorks(r)
         \/ \E t \in Transfer : ScheduledWindow(t)
         \/ ForcedWindow \/ EndWindow \/ Tick
  PROVE  BackupInv'
<1>1. UNCHANGED <<backupVars, urgentVars>>
  BY DEF UserWorks, ScheduledWindow, ForcedWindow, EndWindow, Tick
<1>2. clock' \in Second /\ clock' >= clock /\ forked' \in BOOLEAN
  <2>1. CASE Tick
    BY <2>1, BackupAssumption DEF Tick, BackupInv, SystemTypeOK, Second
  <2>2. CASE ~Tick
    <3>1. clock' = clock /\ (forked' = forked \/ forked' = FALSE)
      BY <2>2 DEF UserWorks, ScheduledWindow, ForcedWindow, EndWindow, windowVars
    <3>2. forked \in BOOLEAN /\ clock \in Second
      BY DEF BackupInv, SystemTypeOK
    <3>3. forked' \in BOOLEAN
      BY <3>1, <3>2
    <3>4. clock' \in Second /\ clock' >= clock
      BY <3>1, <3>2, BackupAssumption DEF Second
    <3>5. QED BY <3>3, <3>4
  <2>3. QED BY <2>1, <2>2
<1>3. /\ TransferTypeOK' /\ WriterHasFile'
      /\ \A r \in Report : dashboard[r] # NoFile => dashboard'[r] # NoFile
  <2>1. CASE ForcedWindow \/ Tick
    BY <2>1 DEF ForcedWindow, Tick, BackupInv, SystemTypeOK, TransferTypeOK, WriterHasFile,
                allVars, dirVars, userVars, transferVars, envVars, historyVars
  <2>2. CASE TransferNext
    BY <2>2, TransferTypeStep, DashboardStays DEF BackupInv, SystemTypeOK
  <2>3. QED BY <2>1, <2>2 DEF UserWorks, ScheduledWindow, EndWindow, TransferNext
<1>4. SystemTypeOK'
  BY <1>1, <1>2, <1>3
     DEF BackupInv, SystemTypeOK, backupVars, copyVars, cleanupVars, urgentVars, changeVars, modeVars
<1>5. TargetIsThere' /\ OnlyTargetWritable'
  BY <1>1, <1>3
     DEF BackupInv, SystemTypeOK, TargetIsThere, OnlyTargetWritable, urgentVars, changeVars, modeVars
<1>6. OwnsDirectory' /\ FoundIsOld'
  <2>1. /\ clock \in Nat /\ clock' \in Nat /\ \A s \in Second : s \in Nat
        /\ \A b \in Backup : /\ name[b] \in Nat /\ found[b] \in Nat
                            /\ old[b] \subseteq Second
    BY <1>2, BackupAssumption DEF BackupInv, SystemTypeOK, Second
  <2>2. UNCHANGED <<dirs, bpc, name, bcur, old, found>>
    BY <1>1 DEF backupVars, copyVars, cleanupVars
  <2>3. OwnsDirectory'
    BY <1>2, <2>1, <2>2 DEF BackupInv, OwnsDirectory, HasDir, Copying
  <2>4. FoundIsOld'
    <3>1. \A n \in Nat : n < clock => n < clock'
      BY <1>2, <2>1
    <3>2. ASSUME NEW b \in Backup
          PROVE  (\A s \in old'[b] : s < clock') /\ (bpc'[b] = "rmdir" => found'[b] < clock')
      <4>1. (\A s \in old[b] : s < clock) /\ (bpc[b] = "rmdir" => found[b] < clock)
        BY DEF BackupInv, FoundIsOld
      <4>2. found[b] \in Nat /\ \A s \in old[b] : s \in Nat
        BY <2>1
      <4>3. old'[b] = old[b] /\ found'[b] = found[b] /\ bpc'[b] = bpc[b]
        BY <2>2
      <4>4. QED BY <3>1, <4>1, <4>2, <4>3
    <3>3. QED BY <3>2 DEF FoundIsOld
  <2>5. QED BY <2>3, <2>4
<1>7. QED BY <1>3, <1>4, <1>5, <1>6 DEF BackupInv

LEMMA TransferWorksStep ==
  ASSUME BackupInv, NEW t \in Transfer, TransferWorks(t)
  PROVE  BackupInv'
<1>1. /\ TransferTypeOK' /\ WriterHasFile'
      /\ \A r \in Report : dashboard[r] # NoFile => dashboard'[r] # NoFile
  BY TransferTypeStep, DashboardStays
     DEF TransferWorks, TransferNext, BackupInv, SystemTypeOK
<1> DEFINE replaced == IF tpc[t] = "rename" /\ tpc'[t] = "next" THEN {cur[t]} ELSE {}
           rewritten == {r \in Report : tpc[t] \in {"copy", "write"} /\ dashboard'[r] # dashboard[r]}
           inuse == {r \in replaced : upc # "idle" /\ r = target}
<1>2. PICK m \in UploadModes :
        /\ mode' = [r \in Report |-> IF r \in replaced THEN m ELSE mode[r]]
        /\ own' = [r \in Report |-> IF r \in replaced THEN m ELSE own[r]]
  BY DEF TransferWorks
<1>3. /\ excused' = (excused \ replaced) \cup inuse
      /\ modified' = (modified /\ target \notin replaced)
      /\ Tear(rewritten \cup {r \in replaced : ~upload[r].whole})
      /\ UNCHANGED <<windowVars, backupVars, upc, target, changes, old_permissions>>
  BY DEF TransferWorks
<1>4. modified' \in BOOLEAN
  BY <1>3, Zenon
<1>5. /\ replaced \subseteq Report /\ rewritten \subseteq Report /\ m \in {"0644", "0666"}
      /\ {r \in replaced : ~upload[r].whole} \subseteq Report
      /\ inuse \subseteq replaced /\ (upc # "idle" /\ target \in replaced => target \in inuse)
  BY BackupAssumption DEF BackupInv, SystemTypeOK, TransferTypeOK
<1> HIDE DEF replaced, rewritten, inuse
<1>6. /\ mode' \in [Report -> {"0644", "0666"}] /\ own' \in [Report -> {"0644", "0666"}]
      /\ excused' \subseteq Report
  BY <1>2, <1>3, <1>5 DEF BackupInv, SystemTypeOK
<1>7. torn' \in [Backup -> SUBSET Report]
  BY <1>3, <1>5 DEF BackupInv, SystemTypeOK, Tear
<1>8. SystemTypeOK'
  BY <1>1, <1>3, <1>4, <1>6, <1>7
     DEF BackupInv, SystemTypeOK, windowVars, backupVars, copyVars, cleanupVars
<1>9. TargetIsThere'
  BY <1>1, <1>3 DEF BackupInv, SystemTypeOK, TargetIsThere
<1>10. OnlyTargetWritable'
  <2>1. /\ mode \in [Report -> {"0644", "0666"}] /\ own \in [Report -> {"0644", "0666"}]
        /\ target \in Report
    BY DEF BackupInv, SystemTypeOK
  <2>2. \A r \in Report : r \notin excused' /\ (upc' = "idle" \/ r # target') => mode'[r] = own'[r]
    BY <1>2, <1>3, <2>1 DEF BackupInv, OnlyTargetWritable
  <2>3. upc' # "idle" /\ target' \notin excused' => old_permissions' = own'[target']
    BY <1>2, <1>3, <1>5, <2>1 DEF BackupInv, OnlyTargetWritable
  <2>4. QED BY <2>2, <2>3 DEF OnlyTargetWritable
<1>11. OwnsDirectory' /\ FoundIsOld'
  BY <1>3
     DEF BackupInv, OwnsDirectory, FoundIsOld, HasDir, windowVars, backupVars, copyVars, cleanupVars
<1>12. QED BY <1>1, <1>8, <1>9, <1>10, <1>11 DEF BackupInv

--------------------------------------------------------------------------------
(***************************************************************************)
(* What the steps of a backup and of an urgent change keep.                *)
(***************************************************************************)
\* A backup directory stays one when a file in it is written.
LEMMA WriteIntoDirectory ==
  ASSUME SystemTypeOK, NEW d \in Second, dirs[d] # NoDir, NEW r \in Report,
         NEW f \in File \cup {NoFile}, dirs' = [dirs EXCEPT ![d][r] = f]
  PROVE  /\ dirs' \in [Second -> [Report -> File \cup {NoFile}] \cup {NoDir}]
         /\ dirs'[d] # NoDir /\ dirs'[d] = [dirs[d] EXCEPT ![r] = f]
         /\ \A s \in Second \ {d} : dirs'[s] = dirs[s]
<1> DEFINE Content == [Report -> File \cup {NoFile}]
<1>1. dirs \in [Second -> Content \cup {NoDir}] /\ NoDir \notin Content
  BY BackupAssumption DEF SystemTypeOK
<1>2. [dirs[d] EXCEPT ![r] = f] \in Content
  BY <1>1
<1> HIDE DEF Content
<1>3. dirs' = [dirs EXCEPT ![d] = [dirs[d] EXCEPT ![r] = f]]
  OBVIOUS
<1>4. /\ dirs' \in [Second -> Content \cup {NoDir}]
      /\ dirs'[d] # NoDir /\ dirs'[d] = [dirs[d] EXCEPT ![r] = f]
      /\ \A s \in Second \ {d} : dirs'[s] = dirs[s]
  BY <1>1, <1>2, <1>3
<1>5. QED BY <1>4 DEF Content

LEMMA BackupTypeStep ==
  ASSUME BackupInv, NEW b \in Backup, ForkBackup(b) \/ BackupStep(b)
  PROVE  SystemTypeOK'
<1> USE BackupAssumption
    DEF BackupInv, SystemTypeOK, BackupGoto, windowVars, copyVars, cleanupVars, urgentVars,
        changeVars, modeVars
<1>1. TransferTypeOK'
  <2>1. UNCHANGED allVars
    BY DEF ForkBackup, BackupStep, MakeDirectory, OpenDashboard, NextFile, LastFile, OpenCopy,
           WriteCopy, CleanupStep, CleanupOldBackups, StatEntry, RemoveDirectory, EndCleanup
  <2>2. QED
    BY <2>1 DEF allVars, dirVars, userVars, envVars, transferVars, historyVars, TransferTypeOK
<1>2. CASE ForkBackup(b) BY <1>1, <1>2 DEF ForkBackup, Running
<1>3. CASE MakeDirectory(b)
  <2>1. NoFiles \in [Report -> File \cup {NoFile}]
    BY DEF NoFiles
  <2>2. dirs' \in [Second -> [Report -> File \cup {NoFile}] \cup {NoDir}]
    BY <1>3, <2>1 DEF MakeDirectory
  <2>3. QED BY <1>1, <1>3, <2>2 DEF MakeDirectory, Running
<1>4. CASE OpenDashboard(b)
  <2> DEFINE Content == [Report -> File \cup {NoFile}]
  <2>0. dashboard \in Content /\ atstart \in [Backup -> Content]
    BY DEF TransferTypeOK
  <2> HIDE DEF Content
  <2>a. left' \in [Backup -> SUBSET Report]
    BY <1>4 DEF OpenDashboard
  <2>b. atstart' \in [Backup -> Content]
    BY <1>4, <2>0 DEF OpenDashboard
  <2>1. left' \in [Backup -> SUBSET Report] /\ atstart' \in [Backup -> [Report -> File \cup {NoFile}]]
    BY <2>a, <2>b DEF Content
  <2>2. bpc' \in [Backup -> Running \cup {"idle", "failure", "partial", "complete"}]
    BY <1>4 DEF OpenDashboard, Running, Copying
  <2>3. QED BY <1>1, <1>4, <2>1, <2>2 DEF OpenDashboard
<1>5. CASE NextFile(b) BY <1>1, <1>5 DEF NextFile, Running, Copying
<1>6. CASE LastFile(b) BY <1>1, <1>6 DEF LastFile, Running, Cleaning
<1>7. CASE OpenCopy(b)
  <2>1. [ver |-> 0, whole |-> FALSE] \in File
    BY FileRecord, TransferAssumption, 0 \in 0..MaxVersion
  <2>2. dirs' \in [Second -> [Report -> File \cup {NoFile}] \cup {NoDir}]
    <3>1. CASE dirs' = dirs
      BY <3>1
    <3>2. CASE /\ dirs[name[b]] # NoDir
               /\ dirs' = [dirs EXCEPT ![name[b]][bcur[b]] = [ver |-> 0, whole |-> FALSE]]
      BY <2>1, <3>2, WriteIntoDirectory
    <3>3. QED BY <1>7, <3>1, <3>2 DEF OpenCopy
  <2>a. dashboard[bcur[b]] \in File \cup {NoFile}
    BY DEF TransferTypeOK
  <2>3. bhold' \in [Backup -> File \cup {NoFile}]
    BY <1>7, <2>a DEF OpenCopy
  <2>4. failed' \in [Backup -> BOOLEAN]
    BY <1>7 DEF OpenCopy
  <2>5. bpc' \in [Backup -> Running \cup {"idle", "failure", "partial", "complete"}]
    BY <1>7 DEF OpenCopy, Running, Copying
  <2>6. QED BY <1>1, <1>7, <2>2, <2>3, <2>4, <2>5 DEF OpenCopy
<1>8. CASE WriteCopy(b)
  <2>0. dirs[name[b]] # NoDir
    BY <1>8 DEF WriteCopy, OwnsDirectory
  <2>1. dirs' \in [Second -> [Report -> File \cup {NoFile}] \cup {NoDir}]
    <3>1. CASE dirs' = dirs
      BY <3>1
    <3>2. CASE dirs' = [dirs EXCEPT ![name[b]][bcur[b]] = bhold[b]]
      BY <2>0, <3>2, WriteIntoDirectory
    <3>3. QED BY <1>8, <3>1, <3>2 DEF WriteCopy
  <2>2. failed' \in [Backup -> BOOLEAN]
    BY <1>8 DEF WriteCopy
  <2>3. bpc' \in [Backup -> Running \cup {"idle", "failure", "partial", "complete"}]
    BY <1>8 DEF WriteCopy, Running, Copying
  <2>4. bhold' \in [Backup -> File \cup {NoFile}]
    BY <1>8 DEF WriteCopy
  <2>5. QED BY <1>1, <1>8, <2>1, <2>2, <2>3, <2>4 DEF WriteCopy
<1>9. CASE CleanupStep(b)
  <2>0. NoFiles \in [Report -> File \cup {NoFile}]
    BY DEF NoFiles
  <2>1. ASSUME NEW from, Finish(b, from)
        PROVE  /\ bpc' \in [Backup -> Running \cup {"idle", "failure", "partial", "complete"}]
               /\ atstart' \in [Backup -> [Report -> File \cup {NoFile}]]
               /\ torn' \in [Backup -> SUBSET Report]
    <3>1. bpc' \in [Backup -> Running \cup {"idle", "failure", "partial", "complete"}]
      BY <2>1 DEF Finish
    <3>2. atstart' \in [Backup -> [Report -> File \cup {NoFile}]]
      BY <2>0, <2>1 DEF Finish
    <3>3. torn' \in [Backup -> SUBSET Report]
      BY <2>1 DEF Finish
    <3>4. QED BY <3>1, <3>2, <3>3
  <2>2. CASE CleanupOldBackups(b)
    <3> DEFINE S == {s \in Second : dirs[s] # NoDir /\ s + MaxBackupAge < clock}
    <3>0. old' = old \/ old' = [old EXCEPT ![b] = S]
      BY <2>2 DEF CleanupOldBackups
    <3>a. S \subseteq Second
      OBVIOUS
    <3> HIDE DEF S
    <3>b. \A X \in SUBSET Second : [old EXCEPT ![b] = X] \in [Backup -> SUBSET Second]
      OBVIOUS
    <3>c. S \in SUBSET Second
      BY <3>a
    <3>d. old \in [Backup -> SUBSET Second]
      OBVIOUS
    <3>1. old' \in [Backup -> SUBSET Second]
      BY <3>0, <3>b, <3>c, <3>d, Zenon
    <3>2. CASE Finish(b, "cleanup")
      BY <1>1, <2>1, <2>2, <3>1, <3>2 DEF CleanupOldBackups
    <3>3. CASE bpc' = [bpc EXCEPT ![b] = "entries"] /\ UNCHANGED <<atstart, torn>>
      <4>1. bpc' \in [Backup -> Running \cup {"idle", "failure", "partial", "complete"}]
        BY <3>3 DEF Running, Cleaning
      <4>2. QED BY <1>1, <2>2, <3>1, <3>3, <4>1 DEF CleanupOldBackups
    <3>4. QED BY <2>2, <3>2, <3>3 DEF CleanupOldBackups
  <2>3. CASE StatEntry(b)
    <3>0. bpc' \in {[bpc EXCEPT ![b] = "rmdir"], [bpc EXCEPT ![b] = "entries"]}
      BY <2>3 DEF StatEntry
    <3>1. bpc' \in [Backup -> Running \cup {"idle", "failure", "partial", "complete"}]
      BY <3>0 DEF Running, Cleaning
    <3>a. PICK s \in old[b] : /\ old' = [old EXCEPT ![b] = @ \ {s}]
                              /\ found' = found \/ found' = [found EXCEPT ![b] = s]
      BY <2>3 DEF StatEntry
    <3>2. old' \in [Backup -> SUBSET Second] /\ found' \in [Backup -> Second]
      BY <3>a
    <3>3. QED BY <1>1, <2>3, <3>1, <3>2 DEF StatEntry
  <2>4. CASE RemoveDirectory(b)
    <3>1. dirs' \in [Second -> [Report -> File \cup {NoFile}] \cup {NoDir}]
      BY <2>4 DEF RemoveDirectory
    <3>2. found' \in [Backup -> Second]
      BY <2>4 DEF RemoveDirectory, Second
    <3>3. bpc' \in [Backup -> Running \cup {"idle", "failure", "partial", "complete"}]
      BY <2>4 DEF RemoveDirectory, Running, Cleaning
    <3>4. QED BY <1>1, <2>4, <3>1, <3>2, <3>3 DEF RemoveDirectory
  <2>5. CASE EndCleanup(b)
    BY <1>1, <2>1, <2>5 DEF EndCleanup
  <2>6. QED BY <1>9, <2>2, <2>3, <2>4, <2>5 DEF CleanupStep
<1>10. QED
  BY <1>2, <1>3, <1>4, <1>5, <1>6, <1>7, <1>8, <1>9 DEF BackupStep

LEMMA OwnsDirectoryStep ==
  ASSUME BackupInv, NEW b \in Backup, ForkBackup(b) \/ BackupStep(b)
  PROVE  OwnsDirectory'
<1> USE DEF OwnsDirectory, HasDir, Copying, Cleaning, BackupGoto, copyVars, cleanupVars
<1>1. /\ clock \in Nat /\ MaxBackupAge \in Nat /\ clock \in Second
      /\ name \in [Backup -> Second] /\ \A c \in Backup : name[c] \in Nat
      /\ bcur \in [Backup -> Report] /\ DOMAIN bpc = Backup /\ DOMAIN dirs = Second
  BY BackupAssumption DEF BackupInv, SystemTypeOK, Second
<1>2. OwnsDirectory /\ SystemTypeOK /\ NoFiles # NoDir
  BY BackupAssumption DEF BackupInv, NoFiles
<1>3. CASE ForkBackup(b)
  BY <1>1, <1>2, <1>3 DEF ForkBackup
<1>4. CASE MakeDirectory(b)
  <2>1. clock' = clock /\ bcur' = bcur /\ name' = [name EXCEPT ![b] = clock]
    BY <1>4 DEF MakeDirectory, windowVars
  <2>2. CASE dirs[clock] = NoDir /\ bpc' = [bpc EXCEPT ![b] = "opendir"]
             /\ dirs' = [dirs EXCEPT ![clock] = NoFiles]
    <3>1. \A c \in Backup : HasDir(c) => name[c] # clock
      BY <1>1, <1>2, <2>2
    <3>2. QED BY <1>1, <1>2, <1>4, <2>1, <2>2, <3>1 DEF MakeDirectory
  <2>3. CASE bpc' = [bpc EXCEPT ![b] = "failure"] /\ dirs' = dirs
    BY <1>1, <1>2, <2>1, <2>3
  <2>4. QED BY <1>4, <2>2, <2>3 DEF MakeDirectory
<1>5. CASE OpenDashboard(b) \/ NextFile(b) \/ LastFile(b)
  <2>1. /\ clock' = clock /\ name' = name /\ dirs' = dirs
        /\ HasDir(b) /\ bpc'[b] # "write"
        /\ \A c \in Backup \ {b} : bpc'[c] = bpc[c] /\ bcur'[c] = bcur[c]
    BY <1>1, <1>5 DEF OpenDashboard, NextFile, LastFile, windowVars
  <2>2. QED BY <1>1, <1>2, <2>1
<1>6. CASE OpenCopy(b)
  <2>1. /\ clock' = clock /\ name' = name /\ bcur' = bcur /\ HasDir(b)
        /\ \A c \in Backup \ {b} : bpc'[c] = bpc[c]
    BY <1>1, <1>6 DEF OpenCopy, windowVars
  <2>2. CASE dirs' = dirs /\ bpc'[b] = "next"
    BY <1>1, <1>2, <2>1, <2>2
  <2>3. CASE /\ dirs[name[b]] # NoDir
             /\ dirs' = [dirs EXCEPT ![name[b]][bcur[b]] = [ver |-> 0, whole |-> FALSE]]
    <3>1. [ver |-> 0, whole |-> FALSE] \in File \ {NoFile}
      BY FileRecord, TransferAssumption, 0 \in 0..MaxVersion
    <3>2. /\ dirs'[name[b]] # NoDir
          /\ dirs'[name[b]] = [dirs[name[b]] EXCEPT ![bcur[b]] = [ver |-> 0, whole |-> FALSE]]
          /\ \A s \in Second \ {name[b]} : dirs'[s] = dirs[s]
      BY <1>1, <1>2, <2>3, <3>1, WriteIntoDirectory
    <3>3. dirs[name[b]] \in [Report -> File \cup {NoFile}]
      BY <1>1, <1>2, <2>3 DEF SystemTypeOK
    <3>4. dirs'[name[b]][bcur[b]] # NoFile
      BY <1>1, <3>1, <3>2, <3>3
    <3>5. \A c \in Backup \ {b} : HasDir(c) => name[c] # name[b]
      BY <1>2, <2>1
    <3>6. HasDir(b)'
      BY <1>1, <1>6 DEF OpenCopy
    <3>7. \A c \in Backup : HasDir(c)' <=> HasDir(c)
      BY <2>1, <3>6
    <3>8. \A c \in Backup : dirs[name[c]] # NoDir => dirs'[name[c]] # NoDir
      BY <1>1, <3>2
    <3>9. \A c \in Backup : bpc'[c] = "write" =>
            dirs'[name[c]] # NoDir /\ dirs'[name[c]][bcur[c]] # NoFile
      <4> SUFFICES ASSUME NEW c \in Backup, bpc'[c] = "write"
                   PROVE  dirs'[name[c]] # NoDir /\ dirs'[name[c]][bcur[c]] # NoFile
        OBVIOUS
      <4>1. CASE c = b
        BY <3>2, <3>4, <4>1
      <4>2. CASE c # b
        <5>1. bpc[c] = "write"
          BY <2>1, <4>2
        <5>2. name[c] \in Second \ {name[b]}
          BY <1>1, <3>5, <4>2, <5>1
        <5>3. dirs'[name[c]] = dirs[name[c]]
          BY <3>2, <5>2
        <5>4. QED BY <1>2, <5>1, <5>3
      <4>3. QED BY <4>1, <4>2
    <3> HIDE DEF HasDir
    <3>10. QED BY <1>2, <2>1, <3>7, <3>8, <3>9
  <2>4. QED BY <1>1, <1>6, <2>2, <2>3 DEF OpenCopy
<1>7. CASE WriteCopy(b)
  <2>1. /\ clock' = clock /\ name' = name /\ bcur' = bcur /\ HasDir(b)
        /\ HasDir(b)' /\ bpc'[b] # "write" /\ \A c \in Backup \ {b} : bpc'[c] = bpc[c]
    BY <1>1, <1>7 DEF WriteCopy, windowVars
  <2>2. CASE dirs' = dirs
    BY <1>1, <1>2, <2>1, <2>2
  <2>3. CASE dirs' = [dirs EXCEPT ![name[b]][bcur[b]] = bhold[b]]
    <3>1. dirs[name[b]] # NoDir /\ bhold[b] \in File \cup {NoFile}
      BY <1>2, <1>7 DEF WriteCopy, SystemTypeOK
    <3>2. /\ dirs'[name[b]] # NoDir
          /\ \A s \in Second \ {name[b]} : dirs'[s] = dirs[s]
      BY <1>1, <1>2, <2>3, <3>1, WriteIntoDirectory
    <3>3. \A c \in Backup \ {b} : HasDir(c) => name[c] # name[b]
      BY <1>2, <2>1
    <3>4. QED BY <1>1, <1>2, <2>1, <3>2, <3>3
  <2>4. QED BY <1>7, <2>2, <2>3 DEF WriteCopy
<1>8. CASE CleanupStep(b)
  <2>1. \A s \in Second : dirs'[s] = dirs[s] \/ (dirs[s] = NoFiles /\ s < clock)
    BY <1>1, <1>8
       DEF CleanupStep, CleanupOldBackups, StatEntry, RemoveDirectory, EndCleanup, BackupInv,
           FoundIsOld
  <2>2. /\ clock' = clock /\ name' = name /\ bcur' = bcur
        /\ HasDir(b) /\ bpc'[b] # "write"
        /\ \A c \in Backup \ {b} : bpc'[c] = bpc[c]
    BY <1>1, <1>8
       DEF CleanupStep, CleanupOldBackups, StatEntry, RemoveDirectory, EndCleanup, Finish, windowVars
  <2>3. \A c \in Backup : bpc[c] = "write" => dirs[name[c]] # NoFiles
    BY <1>1, <1>2 DEF NoFiles
  <2>4. QED BY <1>1, <1>2, <2>1, <2>2, <2>3
<1>9. QED
  BY <1>3, <1>4, <1>5, <1>6, <1>7, <1>8 DEF BackupStep

LEMMA FoundIsOldStep ==
  ASSUME BackupInv, NEW b \in Backup, ForkBackup(b) \/ BackupStep(b)
  PROVE  FoundIsOld'
<1> USE DEF FoundIsOld, BackupGoto, copyVars, cleanupVars
<1>1. /\ FoundIsOld /\ clock \in Nat /\ MaxBackupAge \in Nat /\ \A s \in Second : s \in Nat
      /\ old \in [Backup -> SUBSET Second] /\ found \in [Backup -> Second] /\ DOMAIN bpc = Backup
  BY BackupAssumption DEF BackupInv, SystemTypeOK, Second
<1>2. CASE CleanupOldBackups(b)
  <2>1. \A s \in Second : s + MaxBackupAge < clock => s < clock
    BY <1>1
  <2>2. \A c \in Backup : \A s \in old'[c] : s < clock
    BY <1>1, <1>2, <2>1 DEF CleanupOldBackups
  <2>3. UNCHANGED <<clock, found>> /\ \A c \in Backup : bpc'[c] = "rmdir" => bpc[c] = "rmdir"
    BY <1>1, <1>2 DEF CleanupOldBackups, Finish, windowVars
  <2>4. QED BY <1>1, <2>2, <2>3
<1>3. CASE StatEntry(b)
  BY <1>1, <1>3 DEF StatEntry, windowVars
<1>4. CASE RemoveDirectory(b) \/ EndCleanup(b)
  BY <1>1, <1>4 DEF RemoveDirectory, EndCleanup, Finish, windowVars
<1>5. CASE ~CleanupStep(b)
  <2>1. UNCHANGED <<clock, old, found>> /\ \A c \in Backup : bpc'[c] = "rmdir" => bpc[c] = "rmdir"
    BY <1>1, <1>5
       DEF ForkBackup, BackupStep, MakeDirectory, OpenDashboard, NextFile, LastFile, OpenCopy,
           WriteCopy, windowVars
  <2>2. QED BY <1>1, <2>1
<1>6. QED BY <1>2, <1>3, <1>4, <1>5 DEF CleanupStep

LEMMA BackupInvBackup ==
  ASSUME BackupInv, NEW b \in Backup, ForkBackup(b) \/ BackupStep(b)
  PROVE  BackupInv'
<1>1. UNCHANGED <<allVars, changeVars>>
  BY DEF ForkBackup, BackupStep, MakeDirectory, OpenDashboard, NextFile, LastFile, OpenCopy,
         WriteCopy, CleanupStep, CleanupOldBackups, StatEntry, RemoveDirectory, EndCleanup,
         urgentVars
<1>2. WriterHasFile' /\ TargetIsThere' /\ OnlyTargetWritable'
  BY <1>1
     DEF BackupInv, WriterHasFile, TargetIsThere, OnlyTargetWritable, changeVars, modeVars,
         allVars, dirVars, userVars, transferVars
<1>3. QED BY <1>2, BackupTypeStep, OwnsDirectoryStep, FoundIsOldStep DEF BackupInv

LEMMA BackupInvUrgent ==
  ASSUME BackupInv, UrgentStep
  PROVE  BackupInv'
<1> USE DEF UrgentGoto, changeVars, modeVars
<1>1. UNCHANGED <<windowVars, backupVars, upload, userVars, envVars, transferVars, historyVars>>
  BY DEF UrgentStep, BeginUrgent, MakeWritable, TruncateReport, WriteReport, RestoreMode,
         allVars, dirVars
<1>2. OwnsDirectory' /\ FoundIsOld'
  BY <1>1
     DEF BackupInv, OwnsDirectory, FoundIsOld, HasDir, windowVars, backupVars, copyVars, cleanupVars
<1>3. /\ dashboard' \in [Report -> File \cup {NoFile}]
      /\ \A r \in Report : dashboard[r] # NoFile => dashboard'[r] # NoFile
  <2>1. CASE dashboard' = dashboard
    BY <2>1 DEF BackupInv, SystemTypeOK, TransferTypeOK
  <2>2. ASSUME NEW w \in BOOLEAN, upc # "idle", dashboard' = [dashboard EXCEPT ![target].whole = w]
        PROVE  <1>3
    <3>1. dashboard[target] \in File /\ target \in Report
      BY <2>2 DEF BackupInv, SystemTypeOK, TransferTypeOK, TargetIsThere
    <3>2. [dashboard[target] EXCEPT !.whole = w] \in File \ {NoFile}
      BY <3>1, TransferAssumption DEF File
    <3>3. dashboard' = [dashboard EXCEPT ![target] = [dashboard[target] EXCEPT !.whole = w]]
      BY <2>2
    <3>4. QED BY <3>1, <3>2, <3>3 DEF BackupInv, SystemTypeOK, TransferTypeOK
  <2>3. QED
    BY <2>1, <2>2 DEF UrgentStep, BeginUrgent, MakeWritable, TruncateReport, WriteReport,
                      RestoreMode, allVars, dirVars
<1>4. TransferTypeOK' /\ WriterHasFile'
  BY <1>1, <1>3
     DEF BackupInv, SystemTypeOK, TransferTypeOK, WriterHasFile, userVars, envVars, transferVars,
         historyVars
<1>5. /\ upc' \in {"idle", "chmod", "fopen", "fputs", "restore"} /\ target' \in Report
      /\ mode' \in [Report -> {"0644", "0666"}] /\ old_permissions' \in {"0644", "0666"}
      /\ own' = own /\ excused' \subseteq Report
  BY DEF UrgentStep, BeginUrgent, MakeWritable, TruncateReport, WriteReport, RestoreMode,
         BackupInv, SystemTypeOK
<1>12. changes' \in 0..MaxChanges
  <2>1. changes' = changes \/ (changes < MaxChanges /\ changes' = changes + 1)
    BY DEF UrgentStep, BeginUrgent, MakeWritable, TruncateReport, WriteReport, RestoreMode
  <2>2. QED BY <2>1, BackupAssumption DEF BackupInv, SystemTypeOK
<1>11. torn' \in [Backup -> SUBSET Report]
  <2>1. torn' = torn \/ Tear({target})
    BY DEF UrgentStep, BeginUrgent, MakeWritable, TruncateReport, WriteReport, RestoreMode
  <2>2. torn \in [Backup -> SUBSET Report] /\ target \in Report
    BY DEF BackupInv, SystemTypeOK
  <2>3. CASE torn' = torn
    BY <2>2, <2>3
  <2>4. CASE Tear({target})
    BY <2>2, <2>4 DEF Tear
  <2>5. QED BY <2>1, <2>3, <2>4
<1>6. modified' \in BOOLEAN
  BY DEF UrgentStep, BeginUrgent, MakeWritable, TruncateReport, WriteReport, RestoreMode,
         BackupInv, SystemTypeOK
<1>7. SystemTypeOK'
  BY <1>1, <1>4, <1>5, <1>6, <1>11, <1>12
     DEF BackupInv, SystemTypeOK, windowVars, backupVars, copyVars, cleanupVars
<1>8. TargetIsThere'
  <2>1. ASSUME NEW r \in Report, BeginUrgent(r) PROVE TargetIsThere'
    <3>1. dashboard[r] # NoFile /\ target' = r
      BY <2>1 DEF BeginUrgent
    <3>2. QED BY <1>3, <3>1 DEF TargetIsThere
  <2>2. CASE MakeWritable \/ TruncateReport \/ WriteReport \/ RestoreMode
    <3>1. upc # "idle" /\ target' = target
      BY <2>2 DEF MakeWritable, TruncateReport, WriteReport, RestoreMode
    <3>2. dashboard[target] # NoFile /\ target \in Report
      BY <3>1 DEF BackupInv, SystemTypeOK, TargetIsThere
    <3>3. QED BY <1>3, <3>1, <3>2 DEF TargetIsThere
  <2>3. QED
    BY <2>1, <2>2 DEF UrgentStep
<1>9. OnlyTargetWritable'
  BY DEF UrgentStep, BeginUrgent, MakeWritable, TruncateReport, WriteReport, RestoreMode,
         BackupInv, SystemTypeOK, OnlyTargetWritable
<1>10. QED BY <1>2, <1>4, <1>7, <1>8, <1>9 DEF BackupInv

LEMMA BackupInvStep ==
  ASSUME BackupInv, [SystemNext]_systemVars
  PROVE  BackupInv'
<1>1. CASE UNCHANGED systemVars
  BY <1>1
     DEF systemVars, allVars, dirVars, userVars, envVars, transferVars, historyVars, windowVars,
         backupVars, copyVars, cleanupVars, urgentVars, changeVars, modeVars, BackupInv,
         SystemTypeOK, TransferTypeOK, WriterHasFile, TargetIsThere, OnlyTargetWritable,
         OwnsDirectory, FoundIsOld, HasDir
<1>2. QED
  BY <1>1, OutsideStep, TransferWorksStep, BackupInvBackup, BackupInvUrgent DEF SystemNext

LEMMA BackupInitially == BackupInit => BackupInv
<1> SUFFICES ASSUME BackupInit PROVE BackupInv
  OBVIOUS
<1>1. TransferTypeOK /\ WriterHasFile
  BY TransferInitially DEF BackupInit, OverlapInv
<1>2. NoFiles \in [Report -> File \cup {NoFile}] /\ 0 \in Second
  BY BackupAssumption DEF NoFiles, Second
<1>3. SystemTypeOK
  <2>1. mode \in [Report -> {"0644", "0666"}] /\ own \in [Report -> {"0644", "0666"}]
    BY BackupAssumption DEF BackupInit
  <2>2. /\ bpc \in [Backup -> Running \cup {"idle", "failure", "partial", "complete"}]
        /\ name \in [Backup -> Second] /\ left \in [Backup -> SUBSET Report]
        /\ bcur \in [Backup -> Report] /\ bhold \in [Backup -> File \cup {NoFile}]
        /\ old \in [Backup -> SUBSET Second] /\ found \in [Backup -> Second]
        /\ failed \in [Backup -> BOOLEAN] /\ torn \in [Backup -> SUBSET Report]
    BY <1>2 DEF BackupInit
  <2>3. /\ atstart \in [Backup -> [Report -> File \cup {NoFile}]]
        /\ dirs \in [Second -> [Report -> File \cup {NoFile}] \cup {NoDir}]
    BY <1>2 DEF BackupInit
  <2>4. /\ clock \in Second /\ target \in Report /\ changes \in 0..MaxChanges
        /\ upc \in {"idle", "chmod", "fopen", "fputs", "restore"} /\ excused \subseteq Report
        /\ old_permissions \in {"0644", "0666"}
    BY <1>2, BackupAssumption DEF BackupInit
  <2>5. forked \in BOOLEAN /\ modified \in BOOLEAN
    BY DEF BackupInit
  <2>6. QED BY <1>1, <2>1, <2>2, <2>3, <2>4, <2>5 DEF SystemTypeOK
<1>4. TargetIsThere /\ OnlyTargetWritable /\ OwnsDirectory /\ FoundIsOld
  BY DEF BackupInit, TargetIsThere, OnlyTargetWritable, OwnsDirectory, FoundIsOld, HasDir, Copying,
         Cleaning
<1>5. QED BY <1>1, <1>3, <1>4 DEF BackupInv

THEOREM BackupInvariant == SystemSpec => []BackupInv
BY BackupInitially, BackupInvStep, PTL DEF SystemSpec

(***************************************************************************)
(* Type correctness of users, transfers, backups and urgent changes on one *)
(* dashboard: no step reads or writes a file or a directory that is not    *)
(* there.                                                                  *)
(***************************************************************************)
THEOREM BackupTypeCorrect == SystemSpec => []SystemTypeOK
<1>1. BackupInv => SystemTypeOK
  BY DEF BackupInv
<1>2. QED BY BackupInvariant, <1>1, PTL

(***************************************************************************)
(* "Restore file permissions" (file_operations.c:751, :763, :771): after   *)
(* an urgent change every report has the mode it came with, whichever call *)
(* failed on the way, unless a transfer replaced the report meanwhile or   *)
(* the restoring chmod() itself failed.                                    *)
(***************************************************************************)
THEOREM BackupModesRestored == SystemSpec => []ModesRestored
<1>1. BackupInv => ModesRestored
  BY DEF BackupInv, OnlyTargetWritable, ModesRestored
<1>2. QED BY BackupInvariant, <1>1, PTL

(***************************************************************************)
(* backup.c:51: two backups of one second do not share a directory, so     *)
(* what has been finished is never written to again.                       *)
(***************************************************************************)
THEOREM BackupFinishedFrozen == SystemSpec => FinishedIsFrozen
<1> DEFINE Frozen == \A b \in Backup : bpc[b] \in Cleaning \cup {"partial", "complete"} =>
             LET d == name[b]
             IN dirs'[d] = dirs[d] \/ (dirs[d] = NoFiles /\ dirs'[d] = NoDir)
<1>1. BackupInv /\ [SystemNext]_systemVars => [Frozen]_dirs
  <2> SUFFICES ASSUME BackupInv, SystemNext, dirs' # dirs,
                      NEW c \in Backup, bpc[c] \in Cleaning \cup {"partial", "complete"}
               PROVE  \/ dirs'[name[c]] = dirs[name[c]]
                      \/ dirs[name[c]] = NoFiles /\ dirs'[name[c]] = NoDir
    BY DEF systemVars, backupVars
  <2>1. PICK b \in Backup : BackupStep(b)
    BY DEF SystemNext, UserWorks, ScheduledWindow, TransferWorks, ForcedWindow, EndWindow, Tick,
           ForkBackup, UrgentStep, BeginUrgent, MakeWritable, TruncateReport, WriteReport,
           RestoreMode, backupVars
  <2>2. SystemTypeOK /\ OwnsDirectory /\ name[c] \in Second /\ name[b] \in Second /\ HasDir(c)
    BY DEF BackupInv, SystemTypeOK, HasDir
  <2>3. CASE MakeDirectory(b)
    <3>1. dirs[clock] = NoDir /\ dirs' = [dirs EXCEPT ![clock] = NoFiles]
      BY <2>3 DEF MakeDirectory
    <3>2. name[c] # clock
      BY <2>2, <3>1, BackupAssumption DEF OwnsDirectory, SystemTypeOK, Second
    <3>3. QED BY <2>2, <3>1, <3>2 DEF SystemTypeOK
  <2>4. CASE OpenCopy(b) \/ WriteCopy(b)
    <3>1. HasDir(b) /\ b # c
      BY <2>4 DEF OpenCopy, WriteCopy, BackupGoto, HasDir, Copying, Cleaning
    <3>2. name[b] # name[c]
      BY <2>2, <3>1 DEF OwnsDirectory
    <3>3. QED BY <2>2, <2>4, <3>2 DEF OpenCopy, WriteCopy, SystemTypeOK
  <2>5. CASE RemoveDirectory(b)
    BY <2>2, <2>5 DEF RemoveDirectory, SystemTypeOK
  <2>6. QED
    BY <2>1, <2>3, <2>4, <2>5
       DEF BackupStep, OpenDashboard, NextFile, LastFile, CleanupStep, CleanupOldBackups, StatEntry,
           EndCleanup
<1>2. QED BY BackupInvariant, <1>1, PTL DEF SystemSpec, FinishedIsFrozen

--------------------------------------------------------------------------------
(***************************************************************************)
(* A complete backup is current: the versions on the dashboard only grow.  *)
(***************************************************************************)
\* An urgent change keeps the version, and what it makes partial is noted.
LEMMA UrgentRewrites ==
  ASSUME BackupInv, UrgentStep
  PROVE  /\ UNCHANGED <<upload, writer, version, tpc, cur, hold, backupVars>>
         /\ \A r \in Report : dashboard[r] # NoFile =>
              /\ dashboard'[r] # NoFile /\ dashboard'[r].ver = dashboard[r].ver
              /\ \/ dashboard'[r].whole \/ ~dashboard[r].whole
                 \/ \A b \in Backup : bpc[b] \in Copying => r \in torn'[b]
         /\ \A r \in Report : dashboard[r] = NoFile => dashboard'[r] = NoFile
         /\ \A b \in Backup : torn[b] \subseteq torn'[b]
<1>1. UNCHANGED <<upload, writer, version, tpc, cur, hold, backupVars>>
  BY DEF UrgentStep, BeginUrgent, MakeWritable, TruncateReport, WriteReport, RestoreMode,
         allVars, dirVars, userVars, envVars, transferVars
<1>2. torn \in [Backup -> SUBSET Report] /\ dashboard \in [Report -> File \cup {NoFile}]
      /\ target \in Report
  BY DEF BackupInv, SystemTypeOK, TransferTypeOK
<1>3. CASE dashboard' = dashboard /\ torn' = torn
  BY <1>1, <1>3
<1>4. ASSUME upc # "idle", NEW w \in BOOLEAN, dashboard' = [dashboard EXCEPT ![target].whole = w],
             (w = TRUE /\ torn' = torn) \/ Tear({target})
      PROVE  /\ \A r \in Report : dashboard[r] # NoFile =>
                  /\ dashboard'[r] # NoFile /\ dashboard'[r].ver = dashboard[r].ver
                  /\ \/ dashboard'[r].whole \/ ~dashboard[r].whole
                     \/ \A b \in Backup : bpc[b] \in Copying => r \in torn'[b]
             /\ \A r \in Report : dashboard[r] = NoFile => dashboard'[r] = NoFile
             /\ \A b \in Backup : torn[b] \subseteq torn'[b]
  <2>1. dashboard[target] \in File
    BY <1>2, <1>4 DEF BackupInv, TargetIsThere
  <2> DEFINE g == [dashboard[target] EXCEPT !.whole = w]
  <2>2. g \in File /\ g # NoFile /\ g.ver = dashboard[target].ver /\ g.whole = w
    BY <2>1, TransferAssumption DEF File
  <2>3. dashboard' = [dashboard EXCEPT ![target] = g]
    BY <1>4
  <2> HIDE DEF g
  <2>4. dashboard'[target] = g /\ \A r \in Report \ {target} : dashboard'[r] = dashboard[r]
    BY <1>2, <2>3
  <2>5. /\ \A b \in Backup : torn[b] \subseteq torn'[b]
        /\ w \/ \A b \in Backup : bpc[b] \in Copying => target \in torn'[b]
    BY <1>2, <1>4 DEF Tear
  <2>6. QED BY <1>2, <2>1, <2>2, <2>4, <2>5, TransferAssumption DEF File
<1>5. \/ dashboard' = dashboard /\ torn' = torn
      \/ /\ upc # "idle"
         /\ \E w \in BOOLEAN : /\ dashboard' = [dashboard EXCEPT ![target].whole = w]
                               /\ (w = TRUE /\ torn' = torn) \/ Tear({target})
  BY DEF UrgentStep, BeginUrgent, MakeWritable, TruncateReport, WriteReport, RestoreMode, allVars,
         dirVars, UrgentGoto, changeVars, modeVars
<1>6. QED BY <1>1, <1>3, <1>4, <1>5

\* A transfer makes a report of the dashboard older or partial only by
\* rewriting it in place or by moving in what its user is writing.
LEMMA TransferGrows ==
  ASSUME TransferTypeOK, WriterHasFile, VersionsGrow, NEW t \in Transfer, TransferStep(t),
         NEW r \in Report, dashboard[r] # NoFile
  PROVE  \/ /\ dashboard'[r].ver >= dashboard[r].ver
            /\ dashboard'[r].whole \/ ~dashboard[r].whole
         \/ tpc[t] \in {"copy", "write"} /\ dashboard'[r] # dashboard[r]
         \/ tpc[t] = "rename" /\ tpc'[t] = "next" /\ cur[t] = r /\ ~upload[r].whole
<1> USE DEF Goto
<1>1. /\ dashboard[r].ver \in Nat /\ version[r] \in Nat /\ dashboard[r].ver <= version[r]
      /\ upload[r] # NoFile => upload[r].ver = version[r]
      /\ DOMAIN dashboard = Report /\ DOMAIN tpc = Transfer
  BY TransferAssumption DEF TransferTypeOK, File, VersionsGrow, UploadIsNewest, NoneIsNewer
<1>2. CASE Rename(t)
  <2>1. CASE dashboard'[r] = dashboard[r]
    BY <1>1, <2>1
  <2>2. CASE dashboard'[r] # dashboard[r]
    <3>1. /\ tpc[t] = "rename" /\ tpc'[t] = "next" /\ cur[t] = r /\ upload[r] # NoFile
          /\ dashboard'[r] = upload[r]
      BY <1>1, <1>2, <2>2 DEF Rename, dirVars
    <3>2. QED BY <1>1, <3>1
  <2>3. QED BY <2>1, <2>2
<1>3. CASE OpenAndRead(t) \/ Write(t)
  BY <1>1, <1>3 DEF OpenAndRead, Write
<1>4. CASE NextEntry(t) \/ LastEntry(t) \/ Unlink(t)
  BY <1>1, <1>4 DEF NextEntry, LastEntry, Unlink, dirVars
<1>5. QED BY <1>2, <1>3, <1>4 DEF TransferStep

\* Nobody else does.
LEMMA UsersGrow ==
  ASSUME TransferTypeOK, WriterHasFile, NEW r \in Report, dashboard[r] # NoFile,
         \/ \E q \in Report : BeginUpload(q) \/ EndUpload(q)
         \/ \E t \in Transfer : LockAndFork(t)
         \/ Unlock
  PROVE  /\ dashboard'[r].ver >= dashboard[r].ver
         /\ dashboard'[r].whole \/ ~dashboard[r].whole
<1>1. dashboard[r].ver \in Nat /\ DOMAIN dashboard = Report
  BY TransferAssumption DEF TransferTypeOK, File
<1>2. CASE dashboard' = dashboard
  BY <1>1, <1>2
<1>3. ASSUME NEW q \in Report, EndUpload(q)
      PROVE  /\ dashboard'[r].ver >= dashboard[r].ver
             /\ dashboard'[r].whole \/ ~dashboard[r].whole
  BY <1>1, <1>3, EndUploadEffect
<1>4. QED
  BY <1>2, <1>3 DEF BeginUpload, LockAndFork, Unlock, dirVars

LEMMA SystemGrows ==
  ASSUME BackupInv, VersionsGrow, [SystemNext]_systemVars
  PROVE  /\ VersionsGrow'
         /\ \A r \in Report : dashboard[r] # NoFile =>
              /\ dashboard'[r] # NoFile
              /\ \/ /\ dashboard'[r].ver >= dashboard[r].ver
                    /\ dashboard'[r].whole \/ ~dashboard[r].whole
                 \/ \A b \in Backup : bpc[b] \in Copying => r \in torn'[b]
         /\ \A b \in Backup : torn[b] \subseteq torn'[b] \/ atstart'[b] = NoFiles
<1> DEFINE Better(r) == /\ dashboard'[r].ver >= dashboard[r].ver
                        /\ dashboard'[r].whole \/ ~dashboard[r].whole
           Kept == /\ \A r \in Report : dashboard[r] # NoFile =>
                        /\ dashboard'[r] # NoFile
                        /\ Better(r) \/ \A b \in Backup : bpc[b] \in Copying => r \in torn'[b]
                   /\ \A b \in Backup : torn[b] \subseteq torn'[b] \/ atstart'[b] = NoFiles
<1>1. /\ TransferTypeOK /\ WriterHasFile /\ torn \in [Backup -> SUBSET Report]
      /\ atstart \in [Backup -> [Report -> File \cup {NoFile}]]
      /\ \A r \in Report : dashboard[r] # NoFile => dashboard[r].ver \in Nat
  BY TransferAssumption DEF BackupInv, SystemTypeOK, TransferTypeOK, File
<1>2. ASSUME TransferNext
      PROVE  VersionsGrow' /\ \A r \in Report : dashboard[r] # NoFile => dashboard'[r] # NoFile
  <2>1. VersionsGrow'
    BY <1>1, <1>2, UploadStep, VersionStep DEF VersionsGrow
  <2>2. \A r \in Report : dashboard[r] # NoFile => dashboard'[r] # NoFile
    BY <1>1, <1>2, DashboardStays
  <2>3. QED BY <2>1, <2>2
<1>3. ASSUME NEW t \in Transfer, TransferWorks(t) PROVE VersionsGrow' /\ Kept
  <2>1. TransferStep(t) /\ TransferNext
    BY <1>3 DEF TransferWorks, TransferNext
  <2> DEFINE replaced == IF tpc[t] = "rename" /\ tpc'[t] = "next" THEN {cur[t]} ELSE {}
             rewritten == {r \in Report : tpc[t] \in {"copy", "write"} /\ dashboard'[r] # dashboard[r]}
             new == rewritten \cup {r \in replaced : ~upload[r].whole}
  <2>2. torn' = [b \in Backup |-> IF bpc[b] \in Copying THEN torn[b] \cup new ELSE torn[b]]
    BY <1>3 DEF TransferWorks, Tear
  <2>3. \A r \in Report : dashboard[r] # NoFile => Better(r) \/ r \in new
    <3> SUFFICES ASSUME NEW r \in Report, dashboard[r] # NoFile, ~Better(r) PROVE r \in new
      OBVIOUS
    <3>1. CASE tpc[t] \in {"copy", "write"} /\ dashboard'[r] # dashboard[r]
      BY <3>1
    <3>2. CASE tpc[t] = "rename" /\ tpc'[t] = "next" /\ cur[t] = r /\ ~upload[r].whole
      BY <3>2
    <3>3. QED BY <1>1, <2>1, <3>1, <3>2, TransferGrows
  <2> HIDE DEF new
  <2>4. \A b \in Backup : torn[b] \subseteq torn'[b] /\ (bpc[b] \in Copying => new \subseteq torn'[b])
    BY <1>1, <2>2
  <2>5. VersionsGrow' /\ \A r \in Report : dashboard[r] # NoFile => dashboard'[r] # NoFile
    BY <1>2, <2>1
  <2> HIDE DEF Better
  <2>6. QED BY <2>3, <2>4, <2>5
<1>4. CASE \/ \E r \in Report : UserWorks(r)
           \/ \E t \in Transfer : ScheduledWindow(t)
           \/ EndWindow
  <2>1. /\ \/ \E q \in Report : BeginUpload(q) \/ EndUpload(q)
           \/ \E t \in Transfer : LockAndFork(t)
           \/ Unlock
        /\ torn' = torn
    BY <1>4 DEF UserWorks, ScheduledWindow, EndWindow, urgentVars
  <2>2. TransferNext
    BY <2>1 DEF TransferNext
  <2>3. \A r \in Report : dashboard[r] # NoFile => Better(r)
    BY <1>1, <2>1, UsersGrow
  <2>4. Kept
    BY <1>2, <2>1, <2>2, <2>3
  <2>5. QED BY <1>2, <2>2, <2>4
<1>5. CASE UrgentStep
  <2>1. /\ UNCHANGED <<upload, writer, version, tpc, cur, hold>>
        /\ \A r \in Report : dashboard[r] # NoFile =>
              /\ dashboard'[r] # NoFile /\ dashboard'[r].ver = dashboard[r].ver
              /\ \/ dashboard'[r].whole \/ ~dashboard[r].whole
                 \/ \A b \in Backup : bpc[b] \in Copying => r \in torn'[b]
        /\ \A r \in Report : dashboard[r] = NoFile => dashboard'[r] = NoFile
        /\ \A b \in Backup : torn[b] \subseteq torn'[b]
    BY <1>5, UrgentRewrites
  <2>2. VersionsGrow'
    BY <1>1, <2>1 DEF VersionsGrow, UploadIsNewest, NoneIsNewer
  <2>3. Kept
    BY <1>1, <2>1
  <2>4. QED BY <2>2, <2>3
<1>6. CASE \/ \E b \in Backup : ForkBackup(b) \/ BackupStep(b)
           \/ ForcedWindow \/ Tick \/ UNCHANGED systemVars
  <2>1. UNCHANGED <<upload, writer, dashboard, version, tpc, cur, hold>>
    BY <1>6
       DEF ForkBackup, BackupStep, MakeDirectory, OpenDashboard, NextFile, LastFile, OpenCopy,
           WriteCopy, CleanupStep, CleanupOldBackups, StatEntry, RemoveDirectory, EndCleanup,
           ForcedWindow, Tick, systemVars, allVars, dirVars, userVars, transferVars
  <2>2. VersionsGrow'
    BY <2>1 DEF VersionsGrow, UploadIsNewest, NoneIsNewer
  <2>3. \A b \in Backup : torn[b] \subseteq torn'[b] \/ atstart'[b] = NoFiles
    <3>1. CASE torn' = torn
      BY <3>1
    <3>2. ASSUME NEW b \in Backup, NEW from, Finish(b, from)
          PROVE  \A c \in Backup : torn[c] \subseteq torn'[c] \/ atstart'[c] = NoFiles
      BY <1>1, <3>2 DEF Finish
    <3>3. \/ torn' = torn
          \/ \E b \in Backup : Finish(b, "cleanup") \/ Finish(b, "entries")
      BY <1>6
         DEF ForkBackup, BackupStep, MakeDirectory, OpenDashboard, NextFile, LastFile, OpenCopy,
             WriteCopy, CleanupStep, CleanupOldBackups, StatEntry, RemoveDirectory, EndCleanup,
             ForcedWindow, Tick, systemVars, urgentVars
    <3>4. QED BY <3>1, <3>2, <3>3
  <2>4. Kept
    BY <1>1, <2>1, <2>3
  <2>5. QED BY <2>2, <2>4
<1>7. QED
  BY <1>3, <1>4, <1>5, <1>6 DEF SystemNext

\* What a backup has copied stays: no other writes there, and no clean-up
\* removes a directory that is not empty.
LEMMA CopyStays ==
  ASSUME BackupInv, [SystemNext]_systemVars, NEW c \in Backup, NEW r \in Report, HasDir(c),
         dirs[name[c]] # NoDir, dirs[name[c]][r] # NoFile,
         ~((OpenCopy(c) \/ WriteCopy(c)) /\ bcur[c] = r)
  PROVE  dirs'[name[c]] # NoDir /\ dirs'[name[c]][r] = dirs[name[c]][r]
<1>1. CASE dirs' = dirs
  BY <1>1
<1>2. CASE dirs' # dirs
  <2>1. PICK b \in Backup : BackupStep(b)
    BY <1>2
       DEF SystemNext, UserWorks, ScheduledWindow, TransferWorks, ForcedWindow, EndWindow, Tick,
           ForkBackup, UrgentStep, BeginUrgent, MakeWritable, TruncateReport, WriteReport,
           RestoreMode, backupVars, systemVars
  <2>2. SystemTypeOK /\ OwnsDirectory /\ name[c] \in Second /\ name[b] \in Second
        /\ bcur[b] \in Report /\ dirs[name[c]] \in [Report -> File \cup {NoFile}]
        /\ DOMAIN dirs = Second
    BY DEF BackupInv, SystemTypeOK
  <2>3. CASE MakeDirectory(b)
    BY <2>2, <2>3 DEF MakeDirectory
  <2>4. CASE OpenCopy(b) \/ WriteCopy(b)
    <3>1. HasDir(b) /\ (b = c => bcur[c] # r)
      BY <2>4 DEF OpenCopy, WriteCopy, BackupGoto, HasDir, Copying
    <3>2. PICK f \in File \cup {NoFile} : dirs' = [dirs EXCEPT ![name[b]][bcur[b]] = f]
      <4>1. [ver |-> 0, whole |-> FALSE] \in File
        BY FileRecord, TransferAssumption, 0 \in 0..MaxVersion
      <4>2. bhold[b] \in File \cup {NoFile}
        BY <2>2 DEF SystemTypeOK
      <4>3. QED BY <1>2, <2>4, <4>1, <4>2 DEF OpenCopy, WriteCopy
    <3>3. dirs[name[b]] # NoDir
      BY <1>2, <2>2, <2>4 DEF OpenCopy, WriteCopy, OwnsDirectory, BackupGoto
    <3>4. /\ dirs'[name[b]] # NoDir /\ dirs'[name[b]] = [dirs[name[b]] EXCEPT ![bcur[b]] = f]
          /\ \A s \in Second \ {name[b]} : dirs'[s] = dirs[s]
      BY <2>2, <3>2, <3>3, WriteIntoDirectory
    <3>5. CASE b = c
      BY <2>2, <3>1, <3>4, <3>5
    <3>6. CASE b # c
      <4>1. name[b] # name[c]
        BY <2>2, <3>1, <3>6 DEF OwnsDirectory
      <4>2. QED BY <2>2, <3>4, <4>1
    <3>7. QED BY <3>5, <3>6
  <2>5. CASE RemoveDirectory(b)
    <3>1. dirs[name[c]] # NoFiles
      BY DEF NoFiles
    <3>2. QED BY <2>2, <2>5, <3>1 DEF RemoveDirectory
  <2>6. QED
    BY <1>2, <2>1, <2>3, <2>4, <2>5
       DEF BackupStep, OpenDashboard, NextFile, LastFile, CleanupStep, CleanupOldBackups, StatEntry,
           EndCleanup
<1>3. QED BY <1>1, <1>2

\* Only a backup's own steps touch its variables.
LEMMA OthersLeaveBackup ==
  ASSUME BackupInv, [SystemNext]_systemVars, NEW c \in Backup,
         ~(ForkBackup(c) \/ BackupStep(c))
  PROVE  /\ bpc'[c] = bpc[c] /\ name'[c] = name[c] /\ left'[c] = left[c] /\ bcur'[c] = bcur[c]
         /\ bhold'[c] = bhold[c] /\ failed'[c] = failed[c] /\ atstart'[c] = atstart[c]
<1>1. CASE UNCHANGED backupVars
  BY <1>1 DEF backupVars, copyVars
<1>2. ASSUME NEW b \in Backup, ForkBackup(b) \/ BackupStep(b)
      PROVE  /\ bpc'[c] = bpc[c] /\ name'[c] = name[c] /\ left'[c] = left[c] /\ bcur'[c] = bcur[c]
             /\ bhold'[c] = bhold[c] /\ failed'[c] = failed[c] /\ atstart'[c] = atstart[c]
  <2>1. b # c
    BY <1>2
  <2>2. /\ DOMAIN bpc = Backup /\ DOMAIN name = Backup /\ DOMAIN left = Backup
        /\ DOMAIN bcur = Backup /\ DOMAIN bhold = Backup /\ DOMAIN failed = Backup
        /\ DOMAIN atstart = Backup
    BY DEF BackupInv, SystemTypeOK
  <2>3. QED
    BY <1>2, <2>1, <2>2
       DEF ForkBackup, BackupStep, MakeDirectory, OpenDashboard, NextFile, LastFile, OpenCopy,
           WriteCopy, CleanupStep, CleanupOldBackups, StatEntry, RemoveDirectory, EndCleanup, Finish,
           BackupGoto, copyVars
<1>3. QED
  BY <1>1, <1>2
     DEF SystemNext, UserWorks, ScheduledWindow, TransferWorks, ForcedWindow, EndWindow, Tick,
         UrgentStep, BeginUrgent, MakeWritable, TruncateReport, WriteReport, RestoreMode,
         systemVars

\* What was fit to be copied, or was copied, stays so.
LEMMA FitStays ==
  ASSUME BackupInv, VersionsGrow, [SystemNext]_systemVars,
         NEW c \in Backup, NEW r \in Report, atstart[c][r] # NoFile, atstart'[c] = atstart[c]
  PROVE  /\ \A f : Fit(f, c, r) => Fit(f, c, r)'
         /\ bpc[c] \in Copying /\ Fit(dashboard[r], c, r) => Fit(dashboard[r], c, r)'
         /\ Copied(c, r) /\ HasDir(c) /\ name'[c] = name[c]
            /\ ~((OpenCopy(c) \/ WriteCopy(c)) /\ bcur[c] = r) => Copied(c, r)'
<1>1. /\ torn[c] \subseteq torn'[c]
      /\ dashboard[r] # NoFile =>
           /\ dashboard'[r] # NoFile
           /\ \/ /\ dashboard'[r].ver >= dashboard[r].ver
                 /\ dashboard'[r].whole \/ ~dashboard[r].whole
              \/ bpc[c] \in Copying => r \in torn'[c]
  BY SystemGrows DEF NoFiles
<1>2. /\ atstart[c][r].ver \in Nat
      /\ dashboard[r] # NoFile => dashboard[r].ver \in Nat
      /\ dashboard'[r] # NoFile => dashboard'[r].ver \in Nat
  <2>1. BackupInv'
    BY BackupInvStep
  <2>2. \A f \in File : f.ver \in Nat
    BY TransferAssumption DEF File
  <2>3. atstart[c][r] \in File
    BY DEF BackupInv, SystemTypeOK
  <2>4. dashboard[r] \in File \cup {NoFile} /\ dashboard'[r] \in File \cup {NoFile}
    BY <2>1 DEF BackupInv, SystemTypeOK, TransferTypeOK
  <2>5. QED BY <2>2, <2>3, <2>4
<1>3. \A f : Fit(f, c, r) => Fit(f, c, r)'
  BY <1>1 DEF Fit
<1>4. ASSUME bpc[c] \in Copying, Fit(dashboard[r], c, r) PROVE Fit(dashboard[r], c, r)'
  <2>1. dashboard[r] # NoFile /\ dashboard'[r] # NoFile
    BY <1>1, <1>4 DEF Fit
  <2>2. CASE r \in torn'[c]
    BY <2>1, <2>2 DEF Fit
  <2>3. CASE r \notin torn'[c]
    <3>1. /\ dashboard'[r].ver >= dashboard[r].ver
          /\ dashboard'[r].whole \/ ~dashboard[r].whole
          /\ r \notin torn[c]
      BY <1>1, <1>4, <2>1, <2>3
    <3>2. /\ dashboard[r].ver >= atstart[c][r].ver
          /\ dashboard[r].whole \/ ~atstart[c][r].whole
      BY <1>4, <3>1 DEF Fit
    <3>3. dashboard'[r].ver >= atstart[c][r].ver
      BY <1>2, <2>1, <3>1, <3>2
    <3>4. dashboard'[r].whole \/ ~atstart[c][r].whole
      BY <3>1, <3>2, Zenon
    <3>5. QED BY <2>1, <3>3, <3>4 DEF Fit
  <2>4. QED BY <2>2, <2>3
<1>5. ASSUME Copied(c, r), HasDir(c), name'[c] = name[c],
             ~((OpenCopy(c) \/ WriteCopy(c)) /\ bcur[c] = r)
      PROVE  Copied(c, r)'
  <2>1. dirs'[name[c]] # NoDir /\ dirs'[name[c]][r] = dirs[name[c]][r]
    BY <1>5, CopyStays DEF Copied, Fit
  <2>2. QED BY <1>3, <1>5, <2>1 DEF Copied, Fit
<1>6. QED BY <1>3, <1>4, <1>5

LEMMA CopyFitStep ==
  ASSUME CompleteInv, [SystemNext]_systemVars,
         NEW c \in Backup, NEW r \in Report
  PROVE  CopyFit(c, r)'
<1> USE DEF Copying, Cleaning
<1>1. BackupInv /\ VersionsGrow /\ (atstart[c][r] # NoFile => CopyFit(c, r))
  BY DEF CompleteInv, CopyIsFit
<1>2. /\ DOMAIN bpc = Backup /\ DOMAIN left = Backup /\ DOMAIN bcur = Backup
      /\ DOMAIN bhold = Backup /\ DOMAIN failed = Backup /\ DOMAIN atstart = Backup
      /\ name[c] \in Second /\ bcur[c] \in Report
  BY <1>1 DEF BackupInv, SystemTypeOK
<1> DEFINE Kept == /\ \A f : Fit(f, c, r) => Fit(f, c, r)'
                   /\ bpc[c] \in Copying /\ Fit(dashboard[r], c, r) => Fit(dashboard[r], c, r)'
                   /\ Copied(c, r) /\ HasDir(c) /\ name'[c] = name[c]
                      /\ ~((OpenCopy(c) \/ WriteCopy(c)) /\ bcur[c] = r) => Copied(c, r)'
<1>3. atstart[c][r] # NoFile /\ atstart'[c] = atstart[c] => Kept
  BY <1>1, FitStays
<1> HIDE DEF Kept
<1>4. CASE ~(ForkBackup(c) \/ BackupStep(c))
  <2>1. /\ bpc'[c] = bpc[c] /\ name'[c] = name[c] /\ left'[c] = left[c] /\ bcur'[c] = bcur[c]
        /\ bhold'[c] = bhold[c] /\ failed'[c] = failed[c] /\ atstart'[c] = atstart[c]
    BY <1>1, <1>4, OthersLeaveBackup
  <2>2. ~OpenCopy(c) /\ ~WriteCopy(c)
    BY <1>4 DEF BackupStep
  <2> SUFFICES ASSUME atstart[c][r] # NoFile PROVE CopyFit(c, r)'
    BY <2>1 DEF CopyFit
  <2>3. HasDir(c) /\ Copied(c, r) => Copied(c, r)'
    BY <1>3, <2>1, <2>2 DEF Kept
  <2>4. bpc[c] \in Copying \cup Cleaning => HasDir(c)
    BY DEF HasDir
  <2>5. bpc[c] \in Copying => Fit(dashboard[r], c, r)'
    BY <1>1, <1>3, <2>1 DEF CopyFit, Kept
  <2>6. Fit(bhold[c], c, r) => Fit(bhold[c], c, r)'
    <3>1. Fit(bhold[c], c, r) => \E f : f = bhold[c] /\ f = bhold'[c] /\ Fit(f, c, r)'
      BY <1>3, <2>1 DEF Kept
    <3>2. QED BY <3>1 DEF Fit
  <2>7. bpc'[c] \in Copying /\ r \notin left'[c] /\ ~failed'[c] =>
          \/ bpc'[c] = "copy" /\ bcur'[c] = r
          \/ bpc'[c] = "write" /\ bcur'[c] = r /\ Fit(bhold[c], c, r)'
          \/ ~(bpc'[c] \in {"copy", "write"} /\ bcur'[c] = r) /\ Copied(c, r)'
    BY <1>1, <2>1, <2>3, <2>4, <2>6 DEF CopyFit
  <2>8. bpc'[c] \in Cleaning /\ ~failed'[c] => Copied(c, r)'
    BY <1>1, <2>1, <2>3, <2>4 DEF CopyFit
  <2>9. QED BY <2>1, <2>5, <2>7, <2>8 DEF CopyFit
<1>5. CASE ForkBackup(c) \/ MakeDirectory(c)
  BY <1>2, <1>5 DEF ForkBackup, MakeDirectory, BackupGoto, CopyFit
<1>6. CASE OpenDashboard(c)
  <2>1. CASE bpc' = [bpc EXCEPT ![c] = "failure"]
    BY <1>2, <2>1 DEF CopyFit
  <2>2. CASE /\ bpc' = [bpc EXCEPT ![c] = "next"]
             /\ left' = [left EXCEPT ![c] = Report]
             /\ atstart' = [atstart EXCEPT ![c] = dashboard]
    <3>1. bpc'[c] = "next" /\ left'[c] = Report /\ atstart'[c] = dashboard
      BY <1>2, <2>2
    <3>2. dashboard' = dashboard
      BY <1>6 DEF OpenDashboard, allVars, dirVars
    <3>3. dashboard[r] # NoFile => dashboard[r].ver \in Nat
      BY <1>1, TransferAssumption DEF BackupInv, SystemTypeOK, TransferTypeOK, File
    <3>4. dashboard[r] # NoFile => Fit(dashboard[r], c, r)'
      BY <3>1, <3>2, <3>3 DEF Fit
    <3>5. QED BY <3>1, <3>4 DEF CopyFit
  <2>3. QED BY <1>6, <2>1, <2>2 DEF OpenDashboard, BackupGoto
<1>7. CASE NextFile(c)
  <2>1. PICK q \in left[c] : /\ bpc[c] = "next" /\ bpc'[c] = "copy" /\ bcur'[c] = q
                             /\ left'[c] = left[c] \ {q}
    BY <1>2, <1>7 DEF NextFile, BackupGoto
  <2>2. UNCHANGED <<dashboard, name, failed, atstart>> /\ ~OpenCopy(c) /\ ~WriteCopy(c)
    BY <1>7, <2>1 DEF NextFile, OpenCopy, WriteCopy, BackupGoto, allVars, dirVars
  <2> SUFFICES ASSUME atstart[c][r] # NoFile PROVE CopyFit(c, r)'
    BY <2>2 DEF CopyFit
  <2>3. Fit(dashboard[r], c, r)'
    BY <1>1, <1>3, <2>1, <2>2 DEF CopyFit, Kept
  <2>4. Copied(c, r) => Copied(c, r)'
    BY <1>3, <2>1, <2>2 DEF Kept, HasDir
  <2>5. r \notin left'[c] /\ ~failed'[c] => r = q \/ Copied(c, r)'
    BY <1>1, <2>1, <2>2, <2>4 DEF CopyFit
  <2>6. QED BY <2>1, <2>3, <2>5 DEF CopyFit
<1>8. CASE LastFile(c)
  <2>1. bpc[c] = "next" /\ bpc'[c] = "cleanup" /\ (atstart[c][r] # NoFile => r \notin left[c])
    BY <1>2, <1>8 DEF LastFile, BackupGoto
  <2>2. UNCHANGED <<name, failed, atstart>> /\ ~OpenCopy(c) /\ ~WriteCopy(c)
    BY <1>8, <2>1 DEF LastFile, OpenCopy, WriteCopy, BackupGoto, copyVars
  <2>3. Copied(c, r) /\ atstart[c][r] # NoFile => Copied(c, r)'
    BY <1>3, <2>1, <2>2 DEF Kept, HasDir
  <2>4. QED BY <1>1, <2>1, <2>2, <2>3 DEF CopyFit
<1>9. CASE OpenCopy(c)
  <2>1. bpc[c] = "copy" /\ UNCHANGED <<dashboard, name, left, bcur, atstart>> /\ ~WriteCopy(c)
    BY <1>9 DEF OpenCopy, WriteCopy, BackupGoto, allVars, dirVars
  <2> SUFFICES ASSUME atstart[c][r] # NoFile PROVE CopyFit(c, r)'
    BY <2>1 DEF CopyFit
  <2>2. Fit(dashboard[r], c, r) /\ Fit(dashboard[r], c, r)'
    BY <1>1, <1>3, <2>1 DEF CopyFit, Kept
  <2>3. CASE bpc' = [bpc EXCEPT ![c] = "next"] /\ failed' = [failed EXCEPT ![c] = TRUE]
    BY <1>2, <2>2, <2>3 DEF CopyFit
  <2>4. CASE /\ bpc' = [bpc EXCEPT ![c] = "write"] /\ failed' = failed
             /\ bhold' = [bhold EXCEPT ![c] = dashboard[bcur[c]]]
    <3>1. bpc'[c] = "write" /\ bhold'[c] = dashboard[bcur[c]]
      BY <1>2, <2>4
    <3>2. bcur[c] = r => Fit(bhold[c], c, r)'
      BY <2>1, <2>2, <3>1 DEF Fit
    <3>3. Copied(c, r) /\ bcur[c] # r => Copied(c, r)'
      BY <1>3, <2>1 DEF Kept, HasDir
    <3>4. QED BY <1>1, <2>1, <2>2, <2>4, <3>1, <3>2, <3>3 DEF CopyFit
  <2>5. QED BY <1>9, <2>3, <2>4 DEF OpenCopy, BackupGoto
<1>10. CASE WriteCopy(c)
  <2>1. /\ bpc[c] = "write" /\ bpc'[c] = "next" /\ ~OpenCopy(c)
        /\ UNCHANGED <<dashboard, name, left, bcur, atstart>>
    BY <1>2, <1>10 DEF OpenCopy, WriteCopy, BackupGoto, allVars, dirVars
  <2> SUFFICES ASSUME atstart[c][r] # NoFile PROVE CopyFit(c, r)'
    BY <2>1 DEF CopyFit
  <2>2. Fit(dashboard[r], c, r)'
    BY <1>1, <1>3, <2>1 DEF CopyFit, Kept
  <2>3. CASE failed' = [failed EXCEPT ![c] = TRUE]
    BY <1>2, <2>1, <2>2, <2>3 DEF CopyFit
  <2>4. CASE failed' = failed /\ dirs' = [dirs EXCEPT ![name[c]][bcur[c]] = bhold[c]]
    <3>1. CASE bcur[c] = r
      <4>1. dirs[name[c]] # NoDir /\ bhold[c] \in File \cup {NoFile}
            /\ dirs[name[c]] \in [Report -> File \cup {NoFile}]
        BY <1>1, <2>1 DEF BackupInv, OwnsDirectory, SystemTypeOK
      <4>2. dirs'[name[c]] # NoDir /\ dirs'[name[c]][r] = bhold[c]
        BY <1>1, <1>2, <2>4, <3>1, <4>1, WriteIntoDirectory DEF BackupInv
      <4>3. Fit(bhold[c], c, r) => Copied(c, r)'
        BY <1>3, <2>1, <4>2 DEF Kept, Copied, Fit
      <4>4. QED BY <1>1, <2>1, <2>2, <2>4, <3>1, <4>3 DEF CopyFit
    <3>2. CASE bcur[c] # r
      <4>1. Copied(c, r) => Copied(c, r)'
        BY <1>3, <2>1, <3>2 DEF Kept, HasDir
      <4>2. QED BY <1>1, <2>1, <2>2, <2>4, <3>2, <4>1 DEF CopyFit
    <3>3. QED BY <3>1, <3>2
  <2>5. QED BY <1>10, <2>3, <2>4 DEF WriteCopy
<1>11. CASE CleanupStep(c)
  <2>1. CASE \E from : Finish(c, from)
    <3>1. atstart'[c] = NoFiles
      BY <1>2, <2>1 DEF Finish
    <3>2. QED BY <3>1 DEF CopyFit, NoFiles
  <2>2. CASE ~\E from : Finish(c, from)
    <3>1. /\ bpc[c] \in Cleaning /\ bpc'[c] \in Cleaning
          /\ UNCHANGED <<name, failed, atstart>>
      BY <1>2, <1>11, <2>2
         DEF CleanupStep, CleanupOldBackups, StatEntry, RemoveDirectory, EndCleanup, BackupGoto,
             copyVars
    <3>2. ~OpenCopy(c) /\ ~WriteCopy(c)
      BY <3>1 DEF OpenCopy, WriteCopy, BackupGoto
    <3>3. Copied(c, r) /\ atstart[c][r] # NoFile => Copied(c, r)'
      BY <1>3, <3>1, <3>2 DEF Kept, HasDir
    <3>4. QED BY <1>1, <3>1, <3>3 DEF CopyFit
  <2>3. QED BY <2>1, <2>2
<1>12. QED
  BY <1>4, <1>5, <1>6, <1>7, <1>8, <1>9, <1>10, <1>11 DEF BackupStep

LEMMA CompleteInitially == BackupInit => CompleteInv
<1> SUFFICES ASSUME BackupInit PROVE CompleteInv
  OBVIOUS
<1>1. BackupInv
  BY BackupInitially
<1>2. VersionsGrow
  BY TransferInvInitially DEF BackupInit, TransferInv, VersionsGrow
<1>3. CopyIsFit
  BY DEF BackupInit, CopyIsFit, CopyFit, NoFiles
<1>4. QED BY <1>1, <1>2, <1>3 DEF CompleteInv

(***************************************************************************)
(* What the last theorem rests on: for any number of transfers that        *)
(* overlap in any way, whether rename() works or not.                      *)
(***************************************************************************)
THEOREM CompleteInvariant == SystemSpec => []CompleteInv
<1>1. CompleteInv /\ [SystemNext]_systemVars => CompleteInv'
  <2> SUFFICES ASSUME CompleteInv, [SystemNext]_systemVars PROVE CompleteInv'
    OBVIOUS
  <2>1. BackupInv' /\ VersionsGrow'
    BY BackupInvStep, SystemGrows DEF CompleteInv
  <2>2. CopyIsFit'
    BY CopyFitStep DEF CopyIsFit
  <2>3. QED BY <2>1, <2>2 DEF CompleteInv
<1>2. QED BY CompleteInitially, <1>1, PTL DEF SystemSpec

(***************************************************************************)
(* backup.c:115: a backup that reports success has every report that was   *)
(* on the dashboard when it began, no older and whole, for any number of   *)
(* users, reports, backups and overlapping transfers, unless the report    *)
(* was rewritten or moved in half written meanwhile.                       *)
(***************************************************************************)
THEOREM BackupCompleteIsCurrent == SystemSpec => CompleteBackupIsCurrent
<1> DEFINE Current == \A b \in Backup : bpc[b] # "complete" /\ bpc'[b] = "complete" =>
       \A r \in Report : atstart[b][r] # NoFile =>
         /\ dirs[name[b]] # NoDir /\ dirs[name[b]][r] # NoFile
         /\ r \notin torn[b] => /\ dirs[name[b]][r].ver >= atstart[b][r].ver
                                /\ ~atstart[b][r].whole \/ dirs[name[b]][r].whole
<1>1. CompleteInv /\ [SystemNext]_systemVars => [Current]_bpc
  <2> SUFFICES ASSUME CompleteInv, [SystemNext]_systemVars,
                      NEW b \in Backup, bpc[b] # "complete", bpc'[b] = "complete",
                      NEW r \in Report, atstart[b][r] # NoFile
               PROVE  Copied(b, r)
    BY DEF Copied, Fit
  <2>1. BackupInv /\ CopyFit(b, r)
    BY DEF CompleteInv, CopyIsFit
  <2>2. ForkBackup(b) \/ BackupStep(b)
    BY <2>1, OthersLeaveBackup
  <2>3. DOMAIN bpc = Backup
    BY <2>1 DEF BackupInv, SystemTypeOK
  <2>4. bpc[b] \in Cleaning /\ ~failed[b]
    BY <2>2, <2>3
       DEF ForkBackup, BackupStep, MakeDirectory, OpenDashboard, NextFile, LastFile, OpenCopy,
           WriteCopy, CleanupStep, CleanupOldBackups, StatEntry, RemoveDirectory, EndCleanup, Finish,
           BackupGoto, Cleaning
  <2>5. QED BY <2>1, <2>4 DEF CopyFit
<1>2. QED BY CompleteInvariant, <1>1, PTL DEF SystemSpec, CompleteBackupIsCurrent
================================================================================
