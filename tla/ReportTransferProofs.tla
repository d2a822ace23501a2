-------------------------- MODULE ReportTransferProofs --------------------------
(***************************************************************************)
(* Proofs about ReportTransfer: for any number of reports, versions and    *)
(* transfers, overlapping or not, whichever calls fail and wherever users  *)
(* write.                                                                  *)
(***************************************************************************)
EXTENDS ReportTransfer, TLAPS

\* The whole versions and the partial ones are the files.
LEMMA FileRecord ==
  ASSUME NEW v \in 0..MaxVersion, NEW w \in BOOLEAN
  PROVE  [ver |-> v, whole |-> w] \in File /\ [ver |-> v, whole |-> w] # NoFile
BY TransferAssumption DEF File

LEMMA TransferTypeStep ==
  ASSUME TransferTypeOK, WriterHasFile, [TransferNext]_allVars
  PROVE  TransferTypeOK' /\ WriterHasFile'
<1> USE TransferAssumption
    DEF TransferTypeOK, WriterHasFile, Goto, userVars, dirVars, transferVars, envVars, historyVars
<1>1. ASSUME NEW r \in Report, BeginUpload(r) PROVE TransferTypeOK' /\ WriterHasFile'
  <2>1. version[r] + 1 \in 0..MaxVersion
    BY <1>1 DEF BeginUpload
  <2>2. version' \in [Report -> 0..MaxVersion] /\ version'[r] = version[r] + 1
    BY <1>1, <2>1 DEF BeginUpload
  <2>3. [ver |-> version'[r], whole |-> FALSE] \in File \ {NoFile}
    BY <2>1, <2>2, FileRecord
  <2>4. upload' \in [Report -> File \cup {NoFile}] /\ raced' \subseteq Report
        /\ clashed' \subseteq Report
    BY <1>1, <2>3 DEF BeginUpload
  <2>5. QED
    BY <1>1, <2>2, <2>3, <2>4 DEF BeginUpload
<1>2. ASSUME NEW r \in Report, EndUpload(r) PROVE TransferTypeOK' /\ WriterHasFile'
  <2>1. \A f \in File : [f EXCEPT !.whole = TRUE] \in File \ {NoFile}
    BY DEF File
  <2>2. CASE writer[r] = "upload"
    <3>1. /\ upload' = [upload EXCEPT ![r] = [upload[r] EXCEPT !.whole = TRUE]]
          /\ dashboard' = dashboard /\ writer' = [writer EXCEPT ![r] = "none"]
      BY <1>2, <2>2 DEF EndUpload
    <3>2. upload[r] \in File
      BY <2>2
    <3>3. upload' \in [Report -> File \cup {NoFile}] /\ upload'[r] # NoFile
      BY <2>1, <3>1, <3>2
    <3>4. UNCHANGED <<version, envVars, transferVars, historyVars>>
      BY <1>2 DEF EndUpload
    <3>5. QED BY <3>1, <3>3, <3>4
  <2>3. CASE writer[r] = "dashboard"
    <3>1. /\ dashboard' = [dashboard EXCEPT ![r] = [dashboard[r] EXCEPT !.whole = TRUE]]
          /\ upload' = upload /\ writer' = [writer EXCEPT ![r] = "none"]
      BY <1>2, <2>3 DEF EndUpload
    <3>2. dashboard[r] \in File
      BY <2>3
    <3>3. dashboard' \in [Report -> File \cup {NoFile}] /\ dashboard'[r] # NoFile
      BY <2>1, <3>1, <3>2
    <3>4. UNCHANGED <<version, envVars, transferVars, historyVars>>
      BY <1>2 DEF EndUpload
    <3>5. QED BY <3>1, <3>3, <3>4
  <2>4. CASE writer[r] \notin {"upload", "dashboard"}
    BY <1>2, <2>4 DEF EndUpload
  <2>5. QED BY <2>2, <2>3, <2>4
<1>3. ASSUME NEW t \in Transfer, LockAndFork(t) PROVE TransferTypeOK' /\ WriterHasFile'
  <2>1. todo' \in [Transfer -> SUBSET Report]
    BY <1>3 DEF LockAndFork
  <2>2. tpc' \in [Transfer -> {"idle", "next", "rename", "copy", "write", "unlink"}]
    BY <1>3 DEF LockAndFork
  <2>3. QED BY <1>3, <2>1, <2>2 DEF LockAndFork
<1>4. CASE Unlock
  BY <1>4 DEF Unlock
<1>5. ASSUME NEW t \in Transfer, NextEntry(t) PROVE TransferTypeOK' /\ WriterHasFile'
  BY <1>5 DEF NextEntry, Clash
<1>6. ASSUME NEW t \in Transfer, LastEntry(t) PROVE TransferTypeOK' /\ WriterHasFile'
  BY <1>6 DEF LastEntry
<1>7. ASSUME NEW t \in Transfer, Rename(t) PROVE TransferTypeOK' /\ WriterHasFile'
  BY <1>7 DEF Rename, Astray
<1>8. ASSUME NEW t \in Transfer, OpenAndRead(t) PROVE TransferTypeOK' /\ WriterHasFile'
  <2>1. [ver |-> 0, whole |-> FALSE] \in File \ {NoFile}
    BY FileRecord, 0 \in 0..MaxVersion
  <2>2. /\ dashboard' \in {dashboard, [dashboard EXCEPT ![cur[t]] = [ver |-> 0, whole |-> FALSE]]}
        /\ cur[t] \in Report
    BY <1>8 DEF OpenAndRead
  <2>3. dashboard' \in [Report -> File \cup {NoFile}]
    BY <2>1, <2>2
  <2>4. \A r \in Report : dashboard[r] # NoFile => dashboard'[r] # NoFile
    BY <2>1, <2>2
  <2>5. QED
    BY <1>8, <2>3, <2>4 DEF OpenAndRead
<1>9. ASSUME NEW t \in Transfer, Write(t) PROVE TransferTypeOK' /\ WriterHasFile'
  BY <1>9 DEF Write
<1>10. ASSUME NEW t \in Transfer, Unlink(t) PROVE TransferTypeOK' /\ WriterHasFile'
  BY <1>10 DEF Unlink
<1>11. CASE UNCHANGED allVars
  BY <1>11 DEF allVars
<1>12. QED
  BY <1>1, <1>2, <1>3, <1>4, <1>5, <1>6, <1>7, <1>8, <1>9, <1>10, <1>11
     DEF TransferNext, TransferStep

\* The last write makes the file whole that the user has open, wherever it is.
LEMMA EndUploadEffect ==
  ASSUME TransferTypeOK, WriterHasFile, NEW r \in Report, EndUpload(r)
  PROVE  /\ upload' = IF writer[r] = "upload"
                        THEN [upload EXCEPT ![r] = [ver |-> upload[r].ver, whole |-> TRUE]]
                        ELSE upload
         /\ dashboard' = IF writer[r] = "dashboard"
                           THEN [dashboard EXCEPT ![r] = [ver |-> dashboard[r].ver, whole |-> TRUE]]
                           ELSE dashboard
<1>1. \A f \in File : [f EXCEPT !.whole = TRUE] = [ver |-> f.ver, whole |-> TRUE]
  <2> SUFFICES ASSUME NEW f \in File
               PROVE  [f EXCEPT !.whole = TRUE] = [ver |-> f.ver, whole |-> TRUE]
    OBVIOUS
  <2> DEFINE g == [f EXCEPT !.whole = TRUE]
             h == [ver |-> f.ver, whole |-> TRUE]
  <2>1. g \in File /\ g.ver = f.ver /\ g.whole = TRUE
    BY DEF File
  <2>2. h \in File /\ h.ver = f.ver /\ h.whole = TRUE
    BY DEF File
  <2> HIDE DEF g, h
  <2>3. g = h
    BY <2>1, <2>2 DEF File
  <2>4. QED BY <2>3 DEF g, h
<1>2. /\ writer[r] = "upload" => upload[r] \in File
      /\ writer[r] = "dashboard" => dashboard[r] \in File
  BY DEF TransferTypeOK, WriterHasFile
<1>3. QED
  BY <1>1, <1>2 DEF EndUpload

LEMMA ValidatedStep ==
  ASSUME OverlapInv, [TransferNext]_allVars, TransferTypeOK'
  PROVE  ValidatedIsWhole'
<1> SUFFICES ASSUME same_fs', NEW u \in Transfer, tpc'[u] \in Mover, cur'[u] \notin raced'
             PROVE  /\ tpc'[u] \in {"rename", "copy"}
                    /\ upload'[cur'[u]] # NoFile => Whole(upload'[cur'[u]]) /\ tpc'[u] = "rename"
  BY DEF ValidatedIsWhole, Whole
<1> USE TransferAssumption
    DEF OverlapInv, TransferTypeOK, ValidatedIsWhole, Whole, Mover, Goto, userVars,
        dirVars, transferVars, envVars, historyVars
<1> DEFINE Goal == /\ tpc'[u] \in {"rename", "copy"}
                   /\ upload'[cur'[u]] # NoFile =>
                        Whole(upload'[cur'[u]]) /\ tpc'[u] = "rename"
<1>1. ASSUME NEW r \in Report, BeginUpload(r) PROVE Goal
  BY <1>1 DEF BeginUpload, Moving
<1>2. ASSUME NEW r \in Report, EndUpload(r) PROVE Goal
  <2>1. upload' = IF writer[r] = "upload"
                    THEN [upload EXCEPT ![r] = [ver |-> upload[r].ver, whole |-> TRUE]]
                    ELSE upload
    BY <1>2, EndUploadEffect
  <2>2. writer[r] = "upload" => upload[r] # NoFile
    BY DEF WriterHasFile
  <2>3. QED BY <1>2, <2>1, <2>2 DEF EndUpload
<1>3. ASSUME NEW t \in Transfer, LockAndFork(t) PROVE Goal
  BY <1>3 DEF LockAndFork
<1>4. CASE Unlock
  BY <1>4 DEF Unlock
<1>5. ASSUME NEW t \in Transfer, NextEntry(t) PROVE Goal
  BY <1>5 DEF NextEntry, Clash
<1>6. ASSUME NEW t \in Transfer, LastEntry(t) PROVE Goal
  BY <1>6 DEF LastEntry
<1>7. ASSUME NEW t \in Transfer, Rename(t) PROVE Goal
  BY <1>7 DEF Rename
<1>8. ASSUME NEW t \in Transfer, OpenAndRead(t) PROVE Goal
  BY <1>8 DEF OpenAndRead
<1>9. ASSUME NEW t \in Transfer, Write(t) PROVE Goal
  BY <1>9 DEF Write
<1>10. ASSUME NEW t \in Transfer, Unlink(t) PROVE Goal
  BY <1>10 DEF Unlink
<1>11. CASE UNCHANGED allVars
  BY <1>11 DEF allVars
<1>12. QED
  BY <1>1, <1>2, <1>3, <1>4, <1>5, <1>6, <1>7, <1>8, <1>9, <1>10, <1>11
     DEF TransferNext, TransferStep

LEMMA TransferInitially == TransferInit => OverlapInv
<1> SUFFICES ASSUME TransferInit PROVE OverlapInv
  OBVIOUS
<1> USE TransferAssumption DEF TransferInit
<1>1. version \in [Report -> 0..MaxVersion]
  OBVIOUS
<1>2. dashboard \in [Report -> File \cup {NoFile}]
  BY <1>1, FileRecord
<1>3. TransferTypeOK
  BY <1>1, <1>2 DEF TransferTypeOK
<1>4. QED
  BY <1>3 DEF OverlapInv, WriterHasFile, ValidatedIsWhole, Mover

THEOREM TransferOverlapInvariant == TransferSpec => []OverlapInv
<1>1. TransferInit => OverlapInv
  BY TransferInitially
<1>2. OverlapInv /\ [TransferNext]_allVars => OverlapInv'
  BY TransferTypeStep, ValidatedStep DEF OverlapInv
<1>3. QED
  BY <1>1, <1>2, PTL DEF TransferSpec

(***************************************************************************)
(* file_operations.c:80, "Skipping invalid XML file": where rename()       *)
(* works, what appears in the dashboard is valid or was begun after the    *)
(* validation; for any number of transfers, overlapping or not.            *)
(***************************************************************************)
THEOREM TransferOnlyValid == TransferSpec => OnlyValidReports
<1> DEFINE Valid == \A r \in Report : same_fs /\ dashboard'[r] # dashboard[r] =>
             Whole(dashboard'[r]) \/ r \in raced
<1>1. OverlapInv /\ [TransferNext]_allVars => [Valid]_dashboard
  <2> SUFFICES ASSUME OverlapInv, TransferNext, dashboard' # dashboard PROVE Valid
    BY DEF allVars, dirVars
  <2> USE DEF OverlapInv, TransferTypeOK, ValidatedIsWhole, Whole, Mover, Goto
  <2>1. ASSUME NEW r \in Report, EndUpload(r) PROVE Valid
    <3>1. dashboard' = [dashboard EXCEPT ![r] = [ver |-> dashboard[r].ver, whole |-> TRUE]]
      BY <2>1, EndUploadEffect
    <3>2. dashboard[r].ver \in 0..MaxVersion
      BY <2>1, <3>1 DEF WriterHasFile, EndUpload, File
    <3>3. [ver |-> dashboard[r].ver, whole |-> TRUE] # NoFile
      BY <3>2, FileRecord
    <3>4. QED BY <3>1, <3>3
  <2>2. ASSUME NEW t \in Transfer, Rename(t) PROVE Valid
    <3> SUFFICES ASSUME NEW r \in Report, same_fs, dashboard'[r] # dashboard[r], r \notin raced
                 PROVE  Whole(dashboard'[r])
      OBVIOUS
    <3>1. r = cur[t] /\ dashboard'[r] = upload[r] /\ upload[r] # NoFile /\ tpc[t] = "rename"
      BY <2>2 DEF Rename, dirVars
    <3>2. QED BY <3>1
  <2>3. ASSUME NEW t \in Transfer, OpenAndRead(t) PROVE Valid
    BY <2>3 DEF OpenAndRead
  <2>4. ASSUME NEW t \in Transfer, Write(t) PROVE Valid
    BY <2>4 DEF Write
  <2>5. QED
    BY <2>1, <2>2, <2>3, <2>4
       DEF TransferNext, TransferStep, BeginUpload, LockAndFork, Unlock, NextEntry,
           LastEntry, Unlink, dirVars, transferVars, userVars, historyVars
<1>2. QED
  BY TransferOverlapInvariant, <1>1, PTL DEF TransferSpec, OnlyValidReports

--------------------------------------------------------------------------------
\* An upload that begins touches one report.
LEMMA BeginUploadEffect ==
  ASSUME TransferTypeOK, NEW r \in Report, BeginUpload(r)
  PROVE  /\ writer[r] = "none" /\ writer'[r] = "upload"
         /\ version'[r] = version[r] + 1 /\ version'[r] \in Nat
         /\ upload'[r] # NoFile /\ upload'[r].ver = version'[r] /\ upload'[r].whole = FALSE
         /\ \A q \in Report \ {r} :
              /\ writer'[q] = writer[q] /\ version'[q] = version[q] /\ upload'[q] = upload[q]
              /\ (q \in raced' <=> q \in raced) /\ (q \in clashed' <=> q \in clashed)
         /\ Moving(r) => r \in raced' /\ (r \in clashed' <=> r \in clashed)
         /\ UNCHANGED <<dashboard, same_fs, tpc, cur, hold, astray>>
<1> USE TransferAssumption DEF TransferTypeOK
<1>1. version[r] + 1 \in 0..MaxVersion /\ version'[r] = version[r] + 1
  BY DEF BeginUpload
<1>2. /\ upload' = [upload EXCEPT ![r] = [ver |-> version'[r], whole |-> FALSE]]
      /\ upload'[r] # NoFile
  BY <1>1, FileRecord DEF BeginUpload
<1>3. QED
  BY <1>1, <1>2 DEF BeginUpload, envVars, transferVars

LEMMA ClashStep ==
  ASSUME TransferInv, [TransferNext]_allVars
  PROVE  ClashesAreKnown'
<1> USE TransferAssumption
    DEF TransferInv, OverlapInv, TransferTypeOK, ClashesAreKnown, Mover, Goto,
        userVars, dirVars, transferVars, envVars, historyVars
<1>1. ASSUME NEW r \in Report, BeginUpload(r) PROVE ClashesAreKnown'
  <2>1. \A t \in Transfer : tpc[t] \in Mover /\ cur[t] \in clashed => cur[t] \in clashed'
    BY <1>1 DEF BeginUpload, Moving
  <2>2. tpc' = tpc /\ cur' = cur /\ astray' = astray
    BY <1>1 DEF BeginUpload
  <2>3. QED BY <2>1, <2>2
<1>2. ASSUME NEW r \in Report, EndUpload(r) PROVE ClashesAreKnown'
  BY <1>2 DEF EndUpload
<1>3. ASSUME NEW t \in Transfer, LockAndFork(t) PROVE ClashesAreKnown'
  BY <1>3 DEF LockAndFork
<1>4. CASE Unlock
  BY <1>4 DEF Unlock
<1>5. ASSUME NEW t \in Transfer, NextEntry(t) PROVE ClashesAreKnown'
  <2> PICK r \in todo[t] : /\ tpc[t] = "next" /\ cur' = [cur EXCEPT ![t] = r] /\ Clash(t, r)
                           /\ tpc' \in {[tpc EXCEPT ![t] = "rename"], [tpc EXCEPT ![t] = "next"]}
    BY <1>5 DEF NextEntry
  <2>1. UNCHANGED astray
    BY <1>5 DEF NextEntry
  <2>2. QED BY <2>1 DEF Clash, Moving
<1>6. ASSUME NEW t \in Transfer, LastEntry(t) PROVE ClashesAreKnown'
  BY <1>6 DEF LastEntry
<1>7. ASSUME NEW t \in Transfer, Rename(t) PROVE ClashesAreKnown'
  BY <1>7 DEF Rename, Astray
<1>8. ASSUME NEW t \in Transfer, OpenAndRead(t) PROVE ClashesAreKnown'
  BY <1>8 DEF OpenAndRead
<1>9. ASSUME NEW t \in Transfer, Write(t) PROVE ClashesAreKnown'
  BY <1>9 DEF Write
<1>10. ASSUME NEW t \in Transfer, Unlink(t) PROVE ClashesAreKnown'
  BY <1>10 DEF Unlink
<1>11. CASE UNCHANGED allVars
  BY <1>11 DEF allVars
<1>12. QED
  BY <1>1, <1>2, <1>3, <1>4, <1>5, <1>6, <1>7, <1>8, <1>9, <1>10, <1>11
     DEF TransferNext, TransferStep

LEMMA UploadStep ==
  ASSUME TransferTypeOK, WriterHasFile, UploadIsNewest, [TransferNext]_allVars
  PROVE  UploadIsNewest'
<1> USE TransferAssumption
    DEF TransferTypeOK, WriterHasFile, UploadIsNewest, Goto,
        userVars, dirVars, transferVars, envVars, historyVars
<1>1. ASSUME NEW r \in Report, BeginUpload(r) PROVE UploadIsNewest'
  <2>1. /\ upload'[r].ver = version'[r] /\ upload'[r].whole = FALSE /\ writer'[r] = "upload"
        /\ \A q \in Report \ {r} :
             writer'[q] = writer[q] /\ version'[q] = version[q] /\ upload'[q] = upload[q]
    BY <1>1, BeginUploadEffect, TransferTypeOK
  <2>2. QED BY <2>1
<1>2. ASSUME NEW r \in Report, EndUpload(r) PROVE UploadIsNewest'
  <2>1. writer[r] = "upload" =>
          /\ upload[r].ver = version[r] /\ [ver |-> version[r], whole |-> TRUE] # NoFile
    BY FileRecord
  <2>2. QED BY <1>2, <2>1, EndUploadEffect DEF EndUpload
<1>3. ASSUME NEW t \in Transfer, LockAndFork(t) PROVE UploadIsNewest'
  BY <1>3 DEF LockAndFork
<1>4. CASE Unlock
  BY <1>4 DEF Unlock
<1>5. ASSUME NEW t \in Transfer, NextEntry(t) PROVE UploadIsNewest'
  BY <1>5 DEF NextEntry
<1>6. ASSUME NEW t \in Transfer, LastEntry(t) PROVE UploadIsNewest'
  BY <1>6 DEF LastEntry
<1>7. ASSUME NEW t \in Transfer, Rename(t) PROVE UploadIsNewest'
  BY <1>7 DEF Rename
<1>8. ASSUME NEW t \in Transfer, OpenAndRead(t) PROVE UploadIsNewest'
  BY <1>8 DEF OpenAndRead
<1>9. ASSUME NEW t \in Transfer, Write(t) PROVE UploadIsNewest'
  BY <1>9 DEF Write
<1>10. ASSUME NEW t \in Transfer, Unlink(t) PROVE UploadIsNewest'
  BY <1>10 DEF Unlink
<1>11. CASE UNCHANGED allVars
  BY <1>11 DEF allVars
<1>12. QED
  BY <1>1, <1>2, <1>3, <1>4, <1>5, <1>6, <1>7, <1>8, <1>9, <1>10, <1>11
     DEF TransferNext, TransferStep

LEMMA VersionStep ==
  ASSUME TransferTypeOK, WriterHasFile, UploadIsNewest, NoneIsNewer, [TransferNext]_allVars
  PROVE  NoneIsNewer'
<1> USE TransferAssumption
    DEF TransferTypeOK, NoneIsNewer, Goto,
        userVars, dirVars, transferVars, envVars, historyVars
<1>1. ASSUME NEW r \in Report, BeginUpload(r) PROVE NoneIsNewer'
  <2>1. \A f \in File : f.ver \in Nat
    BY DEF File
  <2>2. \A q \in Report : version[q] <= version'[q] /\ version[q] \in Nat /\ version'[q] \in Nat
    <3>1. /\ version'[r] = version[r] + 1 /\ version'[r] \in Nat
          /\ \A q \in Report \ {r} : version'[q] = version[q]
      BY <1>1, BeginUploadEffect, TransferTypeOK
    <3>2. \A q \in Report : version[q] \in Nat
      OBVIOUS
    <3>3. QED BY <3>1, <3>2
  <2>3. \A t \in Transfer : tpc[t] = "write" => hold[t].ver \in Nat
    BY <2>1 DEF WriterHasFile
  <2>4. \A q \in Report : dashboard[q] # NoFile => dashboard[q].ver \in Nat
    BY <2>1
  <2>5. UNCHANGED <<dashboard, tpc, cur, hold>>
    BY <1>1, BeginUploadEffect
  <2>6. QED BY <2>2, <2>3, <2>4, <2>5
<1>2. ASSUME NEW r \in Report, EndUpload(r) PROVE NoneIsNewer'
  <2>1. writer[r] = "dashboard" => dashboard[r] # NoFile
    BY DEF WriterHasFile
  <2>2. QED BY <1>2, <2>1, EndUploadEffect DEF EndUpload
<1>3. ASSUME NEW t \in Transfer, LockAndFork(t) PROVE NoneIsNewer'
  BY <1>3 DEF LockAndFork
<1>4. CASE Unlock
  BY <1>4 DEF Unlock
<1>5. ASSUME NEW t \in Transfer, NextEntry(t) PROVE NoneIsNewer'
  BY <1>5 DEF NextEntry
<1>6. ASSUME NEW t \in Transfer, LastEntry(t) PROVE NoneIsNewer'
  BY <1>6 DEF LastEntry
<1>7. ASSUME NEW t \in Transfer, Rename(t) PROVE NoneIsNewer'
  <2>1. upload[cur[t]] # NoFile => upload[cur[t]].ver = version[cur[t]]
    BY DEF UploadIsNewest
  <2>2. \A q \in Report : version[q] \in Nat
    OBVIOUS
  <2>3. QED BY <1>7, <2>1, <2>2 DEF Rename
<1>8. ASSUME NEW t \in Transfer, OpenAndRead(t) PROVE NoneIsNewer'
  <2>1. upload[cur[t]] # NoFile => upload[cur[t]].ver = version[cur[t]]
    BY DEF UploadIsNewest
  <2>2. \A q \in Report : version[q] \in Nat
    OBVIOUS
  <2>3. CASE tpc'[t] = "write"
    <3>1. /\ upload[cur[t]] # NoFile /\ hold' = [hold EXCEPT ![t] = upload[cur[t]]]
          /\ dashboard' = [dashboard EXCEPT ![cur[t]] = [ver |-> 0, whole |-> FALSE]]
          /\ tpc' = [tpc EXCEPT ![t] = "write"] /\ UNCHANGED <<version, cur>>
      BY <1>8, <2>3 DEF OpenAndRead
    <3>2. NoneIsNewer!1'
      BY <2>2, <3>1
    <3>3. NoneIsNewer!2'
      BY <2>1, <2>2, <3>1
    <3>4. QED BY <3>2, <3>3
  <2>4. CASE tpc'[t] # "write"
    BY <1>8, <2>4 DEF OpenAndRead
  <2>5. QED BY <2>3, <2>4
<1>9. ASSUME NEW t \in Transfer, Write(t) PROVE NoneIsNewer'
  BY <1>9 DEF Write
<1>10. ASSUME NEW t \in Transfer, Unlink(t) PROVE NoneIsNewer'
  BY <1>10 DEF Unlink
<1>11. CASE UNCHANGED allVars
  BY <1>11 DEF allVars
<1>12. QED
  BY <1>1, <1>2, <1>3, <1>4, <1>5, <1>6, <1>7, <1>8, <1>9, <1>10, <1>11
     DEF TransferNext, TransferStep

LEMMA BeginUploadKeeps ==
  ASSUME TransferInv, NEW r \in Report, BeginUpload(r)
  PROVE  MovesNewest' /\ DashboardHasNewest'
<1>1. /\ writer'[r] = "upload" /\ version'[r] = version[r] + 1 /\ upload'[r] # NoFile
      /\ \A q \in Report \ {r} :
           /\ writer'[q] = writer[q] /\ version'[q] = version[q] /\ upload'[q] = upload[q]
           /\ (q \in raced' <=> q \in raced) /\ (q \in clashed' <=> q \in clashed)
      /\ Moving(r) => r \in raced' /\ (r \in clashed' <=> r \in clashed)
      /\ UNCHANGED <<dashboard, same_fs, tpc, cur, hold, astray>>
  BY BeginUploadEffect DEF TransferInv, OverlapInv
<1>2. cur \in [Transfer -> Report]
  BY DEF TransferInv, OverlapInv, TransferTypeOK
<1>3. \A t \in Transfer : cur[t] = r /\ tpc[t] \in Mover =>
        r \in raced' /\ (r \in clashed' <=> r \in clashed)
  BY <1>1 DEF Moving
<1>4. MovesNewest'
  BY <1>1, <1>2, <1>3 DEF TransferInv, MovesNewest, IsNewest, Whole
<1>5. DashboardHasNewest'
  BY <1>1 DEF TransferInv, DashboardHasNewest, IsNewest, Whole
<1>6. QED BY <1>4, <1>5

LEMMA EndUploadKeeps ==
  ASSUME TransferInv, NEW r \in Report, EndUpload(r)
  PROVE  MovesNewest' /\ DashboardHasNewest'
<1>1. /\ writer' = [writer EXCEPT ![r] = "none"] /\ writer[r] # "none"
      /\ upload' = IF writer[r] = "upload"
                     THEN [upload EXCEPT ![r] = [ver |-> upload[r].ver, whole |-> TRUE]]
                     ELSE upload
      /\ dashboard' = IF writer[r] = "dashboard"
                        THEN [dashboard EXCEPT ![r] = [ver |-> dashboard[r].ver, whole |-> TRUE]]
                        ELSE dashboard
      /\ UNCHANGED <<version, raced, clashed, same_fs, tpc, cur, hold, astray>>
  BY EndUploadEffect DEF EndUpload, TransferInv, OverlapInv, envVars, transferVars, historyVars
<1>2. /\ cur \in [Transfer -> Report] /\ version[r] \in 0..MaxVersion
      /\ writer \in [Report -> {"none", "upload", "dashboard", "gone"}]
      /\ DOMAIN upload = Report /\ DOMAIN dashboard = Report
  BY DEF TransferInv, OverlapInv, TransferTypeOK
<1>3. [ver |-> version[r], whole |-> TRUE] # NoFile
  BY <1>2, FileRecord
<1>4. CASE writer[r] = "upload"
  <2>1. upload' = [upload EXCEPT ![r] = [ver |-> version[r], whole |-> TRUE]] /\ dashboard' = dashboard
    BY <1>1, <1>4 DEF TransferInv, OverlapInv, WriterHasFile, UploadIsNewest
  <2>2. MovesNewest'
    BY <1>1, <1>2, <1>3, <1>4, <2>1
       DEF TransferInv, OverlapInv, WriterHasFile, UploadIsNewest, MovesNewest, IsNewest, Whole
  <2>3. DashboardHasNewest'
    BY <1>1, <1>2, <1>3, <1>4, <2>1 DEF TransferInv, DashboardHasNewest, IsNewest, Whole
  <2>4. QED BY <2>2, <2>3
<1>5. CASE writer[r] = "dashboard"
  <2>1. upload' = upload
    BY <1>1, <1>5
  <2>2. CASE r \in clashed
    <3>1. \A q \in Report \ {r} : dashboard'[q] = dashboard[q] /\ writer'[q] = writer[q]
      BY <1>1, <1>2
    <3>2. MovesNewest'
      BY <1>1, <1>2, <2>1, <2>2, <3>1 DEF TransferInv, MovesNewest, IsNewest, Whole
    <3>3. DashboardHasNewest'
      BY <1>1, <1>2, <2>1, <2>2, <3>1 DEF TransferInv, DashboardHasNewest, IsNewest, Whole
    <3>4. QED BY <3>2, <3>3
  <2>3. CASE r \notin clashed
    <3>1. /\ dashboard' = [dashboard EXCEPT ![r] = [ver |-> version[r], whole |-> TRUE]]
          /\ upload[r] = NoFile
      BY <1>1, <1>5, <2>3 DEF TransferInv, DashboardHasNewest
    <3>2. MovesNewest'
      BY <1>1, <1>2, <1>3, <2>1, <3>1 DEF TransferInv, MovesNewest, IsNewest, Whole
    <3>3. DashboardHasNewest'
      BY <1>1, <1>2, <1>3, <1>5, <2>1, <3>1
         DEF TransferInv, DashboardHasNewest, IsNewest, Whole
    <3>4. QED BY <3>2, <3>3
  <2>4. QED BY <2>2, <2>3
<1>6. CASE writer[r] = "gone"
  <2>1. upload' = upload /\ dashboard' = dashboard
    BY <1>1, <1>6
  <2>2. MovesNewest'
    BY <1>1, <2>1 DEF TransferInv, MovesNewest, IsNewest, Whole
  <2>3. DashboardHasNewest'
    BY <1>1, <1>2, <1>6, <2>1 DEF TransferInv, DashboardHasNewest, IsNewest, Whole
  <2>4. QED BY <2>2, <2>3
<1>7. QED BY <1>1, <1>2, <1>4, <1>5, <1>6

LEMMA MovesStep ==
  ASSUME TransferInv, [TransferNext]_allVars
  PROVE  MovesNewest'
<1> USE TransferAssumption
    DEF TransferInv, OverlapInv, TransferTypeOK, WriterHasFile, ClashesAreKnown, UploadIsNewest,
        MovesNewest, Mover, IsNewest, Whole, Goto, userVars, dirVars, transferVars, envVars, historyVars
<1>1. ASSUME NEW r \in Report, BeginUpload(r) PROVE MovesNewest'
  BY <1>1, BeginUploadKeeps
<1>2. ASSUME NEW r \in Report, EndUpload(r) PROVE MovesNewest'
  BY <1>2, EndUploadKeeps
<1>3. ASSUME NEW t \in Transfer, LockAndFork(t) PROVE MovesNewest'
  BY <1>3 DEF LockAndFork
<1>4. CASE Unlock
  BY <1>4 DEF Unlock
<1>5. ASSUME NEW t \in Transfer, NextEntry(t) PROVE MovesNewest'
  BY <1>5 DEF NextEntry, Clash
<1>6. ASSUME NEW t \in Transfer, LastEntry(t) PROVE MovesNewest'
  BY <1>6 DEF LastEntry
<1>7. ASSUME NEW t \in Transfer, Rename(t) PROVE MovesNewest'
  BY <1>7 DEF Rename
<1>8. ASSUME NEW t \in Transfer, OpenAndRead(t) PROVE MovesNewest'
  BY <1>8 DEF OpenAndRead
<1>9. ASSUME NEW t \in Transfer, Write(t) PROVE MovesNewest'
  BY <1>9 DEF Write
<1>10. ASSUME NEW t \in Transfer, Unlink(t) PROVE MovesNewest'
  BY <1>10 DEF Unlink
<1>11. CASE UNCHANGED allVars
  BY <1>11 DEF allVars
<1>12. QED
  BY <1>1, <1>2, <1>3, <1>4, <1>5, <1>6, <1>7, <1>8, <1>9, <1>10, <1>11
     DEF TransferNext, TransferStep

LEMMA DashboardStep ==
  ASSUME TransferInv, [TransferNext]_allVars
  PROVE  DashboardHasNewest'
<1> USE TransferAssumption
    DEF TransferInv, OverlapInv, TransferTypeOK, WriterHasFile, ClashesAreKnown, UploadIsNewest,
        MovesNewest, DashboardHasNewest, Mover, IsNewest, Whole, Goto,
        userVars, dirVars, transferVars, envVars, historyVars
<1>1. ASSUME NEW r \in Report, BeginUpload(r) PROVE DashboardHasNewest'
  BY <1>1, BeginUploadKeeps
<1>2. ASSUME NEW r \in Report, EndUpload(r) PROVE DashboardHasNewest'
  BY <1>2, EndUploadKeeps
<1>3. ASSUME NEW t \in Transfer, LockAndFork(t) PROVE DashboardHasNewest'
  BY <1>3 DEF LockAndFork
<1>4. CASE Unlock
  BY <1>4 DEF Unlock
<1>5. ASSUME NEW t \in Transfer, NextEntry(t) PROVE DashboardHasNewest'
  BY <1>5 DEF NextEntry, Clash
<1>6. ASSUME NEW t \in Transfer, LastEntry(t) PROVE DashboardHasNewest'
  BY <1>6 DEF LastEntry
<1>7. ASSUME NEW t \in Transfer, Rename(t) PROVE DashboardHasNewest'
  BY <1>7 DEF Rename
<1>8. ASSUME NEW t \in Transfer, OpenAndRead(t) PROVE DashboardHasNewest'
  BY <1>8 DEF OpenAndRead
<1>9. ASSUME NEW t \in Transfer, Write(t) PROVE DashboardHasNewest'
  BY <1>9 DEF Write
<1>10. ASSUME NEW t \in Transfer, Unlink(t) PROVE DashboardHasNewest'
  BY <1>10 DEF Unlink
<1>11. CASE UNCHANGED allVars
  BY <1>11 DEF allVars
<1>12. QED
  BY <1>1, <1>2, <1>3, <1>4, <1>5, <1>6, <1>7, <1>8, <1>9, <1>10, <1>11
     DEF TransferNext, TransferStep

\* At the start everything on the dashboard is the newest version.
LEMMA TransferInvInitially == TransferInit => TransferInv
<1> SUFFICES ASSUME TransferInit, OverlapInv PROVE TransferInv
  BY TransferInitially
<1> USE TransferAssumption DEF TransferInit
<1>1. \A r \in Report : version[r] \in 0..MaxVersion
  BY DEF OverlapInv, TransferTypeOK
<1>2. DashboardHasNewest /\ NoneIsNewer
  <2> SUFFICES ASSUME NEW r \in Report
               PROVE  /\ version[r] > 0 => IsNewest(dashboard[r], r)
                      /\ dashboard[r] # NoFile => dashboard[r].ver <= version[r]
    BY DEF DashboardHasNewest, NoneIsNewer
  <2>1. CASE version[r] = 0
    BY <2>1
  <2>2. CASE version[r] # 0
    <3>1. dashboard[r] = [ver |-> version[r], whole |-> TRUE]
      BY <2>2
    <3>2. dashboard[r] # NoFile /\ dashboard[r].ver = version[r] /\ dashboard[r].whole = TRUE
      BY <1>1, <3>1, FileRecord
    <3>3. QED BY <1>1, <3>2 DEF IsNewest, Whole
  <2>3. QED BY <2>1, <2>2
<1>3. ClashesAreKnown /\ UploadIsNewest /\ MovesNewest
  BY DEF ClashesAreKnown, UploadIsNewest, MovesNewest, Mover
<1>4. QED BY <1>2, <1>3 DEF TransferInv

LEMMA TransferInvStep ==
  ASSUME TransferInv, [TransferNext]_allVars
  PROVE  TransferInv'
<1>1. OverlapInv'
  BY TransferTypeStep, ValidatedStep DEF TransferInv, OverlapInv
<1>2. ClashesAreKnown' /\ UploadIsNewest' /\ NoneIsNewer'
  BY ClashStep, UploadStep, VersionStep DEF TransferInv, OverlapInv
<1>3. DashboardHasNewest' /\ MovesNewest'
  BY MovesStep, DashboardStep
<1>4. QED BY <1>1, <1>2, <1>3 DEF TransferInv

(***************************************************************************)
(* What the two theorems below rest on, for any number of transfers that   *)
(* overlap in any way (daemon.c:273 forks without waiting for the last).   *)
(***************************************************************************)
THEOREM TransferInvariant == TransferSpec => []TransferInv
<1>1. QED
  BY TransferInvInitially, TransferInvStep, PTL DEF TransferSpec

(***************************************************************************)
(* file_operations.c:507, "Move a file from source to destination": what a *)
(* user has written to the end is, whole, in one of the directories,       *)
(* however many transfers run, up to a report that two of them move at the *)
(* same time (which does lose it: the run TransferOverlap).                *)
(***************************************************************************)
THEOREM TransferKeepsNewest == TransferSpec => []NewestVersionKept
<1>1. TransferInv => NewestVersionKept
  <2> SUFFICES ASSUME TransferInv, NEW r \in Report, r \notin clashed, version[r] > 0,
                      writer[r] = "none", same_fs \/ r \notin raced
               PROVE  [ver |-> version[r], whole |-> TRUE] \in {upload[r], dashboard[r]}
    BY DEF NewestVersionKept
  <2> DEFINE newest == [ver |-> version[r], whole |-> TRUE]
  <2>1. /\ newest \in File /\ newest.ver = version[r] /\ newest.whole = TRUE
        /\ upload[r] \in File \cup {NoFile} /\ dashboard[r] \in File \cup {NoFile}
    BY FileRecord DEF TransferInv, OverlapInv, TransferTypeOK
  <2> HIDE DEF newest
  <2>2. \A f \in File : f.ver = version[r] /\ f.whole => f = newest
    BY <2>1 DEF File
  <2>3. CASE upload[r] = NoFile
    BY <2>1, <2>2, <2>3 DEF TransferInv, DashboardHasNewest, IsNewest, Whole, newest
  <2>4. CASE upload[r] # NoFile
    BY <2>1, <2>2, <2>4 DEF TransferInv, UploadIsNewest, newest
  <2>5. QED BY <2>3, <2>4
<1>2. QED BY TransferInvariant, <1>1, PTL

(***************************************************************************)
(* Where rename() works, a report of the dashboard is only ever replaced   *)
(* by a newer version and never disappears, however many transfers run, up *)
(* to a report that two of them move at the same time.                     *)
(***************************************************************************)
THEOREM TransferNeverOlder == TransferSpec => DashboardNeverOlder
<1> DEFINE Newer == \A r \in Report \ clashed : same_fs /\ dashboard[r] # NoFile =>
             dashboard'[r] # NoFile /\ dashboard'[r].ver >= dashboard[r].ver
<1>1. TransferInv /\ [TransferNext]_allVars => [Newer]_dashboard
  <2> SUFFICES ASSUME TransferInv, TransferNext, dashboard' # dashboard,
                      NEW r \in Report, r \notin clashed, same_fs, dashboard[r] # NoFile
               PROVE  dashboard'[r] # NoFile /\ dashboard'[r].ver >= dashboard[r].ver
    BY DEF allVars, dirVars
  <2>1. /\ dashboard \in [Report -> File \cup {NoFile}] /\ version[r] \in 0..MaxVersion
        /\ dashboard[r].ver \in 0..MaxVersion /\ cur \in [Transfer -> Report]
    BY TransferAssumption DEF TransferInv, OverlapInv, TransferTypeOK, File
  <2>2. ASSUME NEW q \in Report, EndUpload(q)
        PROVE  dashboard'[r] # NoFile /\ dashboard'[r].ver >= dashboard[r].ver
    <3>1. dashboard' = [dashboard EXCEPT ![q] = [ver |-> dashboard[q].ver, whole |-> TRUE]]
      BY <2>2, EndUploadEffect DEF TransferInv, OverlapInv
    <3>2. [ver |-> dashboard[r].ver, whole |-> TRUE] # NoFile
      BY <2>1, FileRecord
    <3>3. QED BY <2>1, <3>1, <3>2, TransferAssumption
  <2>3. ASSUME NEW t \in Transfer, Rename(t)
        PROVE  dashboard'[r] # NoFile /\ dashboard'[r].ver >= dashboard[r].ver
    <3>1. /\ dashboard' = [dashboard EXCEPT ![cur[t]] = upload[cur[t]]]
          /\ upload[cur[t]] # NoFile
      BY <2>3 DEF Rename, dirVars
    <3>2. CASE r = cur[t]
      <4>1. upload[r].ver = version[r] /\ dashboard[r].ver <= version[r]
        BY <3>1, <3>2 DEF TransferInv, UploadIsNewest, NoneIsNewer
      <4>2. QED BY <2>1, <3>1, <3>2, <4>1, TransferAssumption
    <3>3. CASE r # cur[t]
      BY <2>1, <3>1, <3>3, TransferAssumption
    <3>4. QED BY <3>2, <3>3
  <2>4. ASSUME NEW t \in Transfer, OpenAndRead(t) \/ Write(t)
        PROVE  dashboard'[r] # NoFile /\ dashboard'[r].ver >= dashboard[r].ver
    <3>1. cur[t] # r
      BY <2>4 DEF OpenAndRead, Write, Goto, TransferInv, MovesNewest, Mover
    <3>2. dashboard'[r] = dashboard[r]
      BY <2>1, <2>4, <3>1 DEF OpenAndRead, Write
    <3>3. QED BY <2>1, <3>2, TransferAssumption
  <2>5. QED
    BY <2>2, <2>3, <2>4
       DEF TransferNext, TransferStep, BeginUpload, LockAndFork, Unlock, NextEntry,
           LastEntry, Unlink, dirVars, transferVars, userVars
<1>2. QED
  BY TransferInvariant, <1>1, PTL DEF TransferSpec, DashboardNeverOlder
================================================================================
