-------------------------- MODULE DirectoryWatchProofs --------------------------
(***************************************************************************)
(* Proofs about DirectoryWatch, for any names, users and departments, and  *)
(* whatever happens in the directories while they are read.                *)
(***************************************************************************)
EXTENDS DirectoryWatch, TLAPS

--------------------------------------------------------------------------------
(***************************************************************************)
(* Elements of the lists of files.                                         *)
(***************************************************************************)
LEMMA Elements ==
  /\ NoFile \notin ReportFile /\ NoScan \notin [Name -> ReportFile \cup {NoFile}]
  /\ Nothing \in [Name -> ReportFile \cup {NoFile}]
BY WatchAssumption DEF ReportFile, Time, Nothing

LEMMA OwnerStored ==
  ASSUME NEW f \in ReportFile, NEW o \in User \cup {Unset}
  PROVE  /\ [f EXCEPT !.owner = o] \in ReportFile
         /\ [f EXCEPT !.owner = o].change = f.change
         /\ [f EXCEPT !.owner = o].timestamp = f.timestamp
BY DEF ReportFile

LEMMA FileWritten ==
  ASSUME WatchTypeOK, NEW n \in Name, NEW u \in User, NEW t \in 0..now, Put(n, u, t)
  PROVE  \E f \in ReportFile : /\ f.change = changes + 1 /\ changes' = changes + 1
                               /\ changes + 1 \in 0..MaxChanges
                               /\ upload' = [upload EXCEPT ![n] = f]
<1> DEFINE f == [timestamp |-> t, owner |-> u, change |-> changes']
<1>1. changes' = changes + 1 /\ changes' \in 1..MaxChanges
  BY WatchAssumption DEF Put, WatchTypeOK
<1>2. t \in Time
  BY WatchAssumption DEF WatchTypeOK, Time
<1>3. f \in ReportFile
  BY <1>1, <1>2 DEF ReportFile
<1>4. f.change = changes + 1
  BY <1>1
<1>5. upload' = [upload EXCEPT ![n] = f]
  BY DEF Put
<1>6. changes + 1 \in 0..MaxChanges
  BY <1>1, WatchAssumption
<1> HIDE DEF f
<1>7. WITNESS f \in ReportFile
<1>8. QED BY <1>1, <1>4, <1>5, <1>6

\* A line of the log, written or not, concerns one name.
LEMMA LineOfLog ==
  ASSUME WatchTypeOK, NEW o \in User \cup {Unset}, NEW n \in Name,
         NEW a \in {"create", "modify", "delete"}, LogFileChange(o, n, a)
  PROVE  /\ entry' = entry \/ entry' = [user |-> o, name |-> n, action |-> a]
         /\ faults' \in 0..MaxFaults /\ lost' \subseteq Name /\ replayed' \subseteq Name
         /\ \A m \in Name \ {n} : (m \in lost' <=> m \in lost) /\ (m \in replayed' <=> m \in replayed)
         /\ n \notin lost' => \/ a = "create" /\ n \in replayed'
                              \/ a = "delete" /\ n \notin replayed'
                              \/ a = "modify" /\ n \notin lost /\ replayed' = replayed
BY WatchAssumption DEF LogFileChange, WatchTypeOK, Fault

--------------------------------------------------------------------------------
\* The two comparisons, each name's file having the type it should.
LEMMA CompareEffect ==
  ASSUME WatchTypeOK, ListIsBuilt, Compare
  PROVE  /\ dpc = "compare" /\ dpc' = "compare"
         /\ UNCHANGED <<worldVars, file, current, previous, steady, checkVars>>
         /\ \E n \in todo :
              /\ todo' = todo \ {n}
              /\ \/ /\ NothingLogged
                    /\ current[n] = NoFile \/ previous[n] # NoFile
                 \/ /\ current[n] \in ReportFile /\ previous[n] = NoFile
                    /\ LogFileChange(current[n].owner, n, "create")
                 \/ /\ current[n] \in ReportFile /\ previous[n] \in ReportFile
                    /\ current[n].timestamp > previous[n].timestamp
                    /\ LogFileChange(current[n].owner, n, "modify")
BY DEF WatchTypeOK, ListIsBuilt, Compare, DaemonGoto

LEMMA LookForDeletedEffect ==
  ASSUME WatchTypeOK, ListIsBuilt, LookForDeleted
  PROVE  /\ dpc = "deleted" /\ dpc' = "deleted"
         /\ UNCHANGED <<worldVars, file, current, previous, steady, checkVars>>
         /\ \E n \in todo :
              /\ todo' = todo \ {n}
              /\ \/ /\ NothingLogged
                    /\ previous[n] = NoFile \/ current[n] # NoFile
                 \/ /\ previous[n] \in ReportFile /\ current[n] = NoFile
                    /\ LogFileChange(previous[n].owner, n, "delete")
BY DEF WatchTypeOK, ListIsBuilt, LookForDeleted, DaemonGoto

LEMMA ComparisonTypes ==
  ASSUME WatchTypeOK, ListIsBuilt, Compare \/ LookForDeleted
  PROVE  WatchTypeOK'
<1>1. /\ UNCHANGED <<worldVars, file, current, previous, steady, checkVars>>
      /\ dpc' = dpc
      /\ \E n \in todo :
           /\ todo' = todo \ {n}
           /\ \/ NothingLogged
              \/ \E f \in ReportFile, a \in {"create", "modify", "delete"} :
                   LogFileChange(f.owner, n, a)
  BY CompareEffect, LookForDeletedEffect
<1>2. PICK n \in todo :
           /\ todo' = todo \ {n}
           /\ \/ NothingLogged
              \/ \E f \in ReportFile, a \in {"create", "modify", "delete"} :
                   LogFileChange(f.owner, n, a)
  BY <1>1
<1>3. n \in Name
  BY DEF WatchTypeOK
<1>4. CASE NothingLogged
  BY <1>1, <1>2, <1>4 DEF WatchTypeOK, NothingLogged, logVars, worldVars, checkVars
<1>5. ASSUME NEW f \in ReportFile, NEW a \in {"create", "modify", "delete"},
             LogFileChange(f.owner, n, a)
      PROVE  WatchTypeOK'
  <2>1. f.owner \in User \cup {Unset}
    BY DEF ReportFile
  <2>2. /\ entry' = entry \/ entry' = [user |-> f.owner, name |-> n, action |-> a]
        /\ faults' \in 0..MaxFaults /\ lost' \subseteq Name /\ replayed' \subseteq Name
    BY <1>3, <1>5, <2>1, LineOfLog
  <2>3. \/ entry' = NoEntry
        \/ entry' \in [user : User \cup {Unset}, name : Name, action : {"create", "modify", "delete"}]
    BY <1>3, <2>1, <2>2 DEF WatchTypeOK
  <2>4. QED
    BY <1>1, <1>2, <2>2, <2>3 DEF WatchTypeOK, worldVars, checkVars
<1>6. QED BY <1>2, <1>4, <1>5

LEMMA WatchTypeStep ==
  ASSUME WatchTypeOK, ListIsBuilt, [WatchNext]_watchVars
  PROVE  WatchTypeOK'
<1> USE WatchAssumption, Elements
<1>1. ASSUME NEW n \in Name, NEW u \in User, NEW t \in 0..now, Put(n, u, t) PROVE WatchTypeOK'
  <2>1. PICK f \in ReportFile : changes' = changes + 1 /\ changes + 1 \in 0..MaxChanges
                                /\ upload' = [upload EXCEPT ![n] = f]
    BY <1>1, FileWritten
  <2>2. upload' \in [Name -> ReportFile \cup {NoFile}] /\ steady' \subseteq Name
    BY <1>1, <2>1 DEF WatchTypeOK, Put
  <2>3. QED
    BY <1>1, <2>1, <2>2 DEF WatchTypeOK, Put, scanVars, logVars, checkVars
<1>2. ASSUME NEW n \in Name, Take(n) PROVE WatchTypeOK'
  BY <1>2 DEF WatchTypeOK, Take, scanVars, logVars, checkVars
<1>3. CASE Tick
  BY <1>3 DEF WatchTypeOK, Tick, scanVars, logVars, checkVars, Time
<1>4. CASE Restart
  BY <1>4 DEF WatchTypeOK, Restart, Fault, EndOfScan, worldVars
<1>5. CASE OpenUpload
  BY <1>5 DEF WatchTypeOK, OpenUpload, DaemonGoto, Fault, worldVars, logVars, checkVars
<1>6. CASE OpenDashboard
  BY <1>6 DEF WatchTypeOK, OpenDashboard, DaemonGoto, Fault, worldVars, logVars
<1>7. CASE ScanFails
  BY <1>7 DEF WatchTypeOK, ScanFails, DaemonGoto, Fault, EndOfScan, worldVars, logVars, checkVars
<1>8. CASE StatEntry
  <2>1. PICK n \in todo :
          /\ todo' = todo \ {n} /\ dpc' \in {"scan", "owner"} /\ file' \in {file, n}
          /\ \/ current' = current
             \/ /\ upload[n] \in ReportFile
                /\ current' = [current EXCEPT ![n] = [upload[n] EXCEPT !.owner = Unset]]
    BY <1>8 DEF WatchTypeOK, StatEntry, DaemonGoto
  <2>2. current' \in [Name -> ReportFile \cup {NoFile}]
    <3>1. CASE current' = current
      BY <3>1 DEF WatchTypeOK
    <3>2. CASE /\ upload[n] \in ReportFile
               /\ current' = [current EXCEPT ![n] = [upload[n] EXCEPT !.owner = Unset]]
      <4>1. [upload[n] EXCEPT !.owner = Unset] \in ReportFile
        BY <3>2, OwnerStored
      <4>2. QED BY <3>2, <4>1 DEF WatchTypeOK
    <3>3. QED BY <2>1, <3>1, <3>2
  <2>3. QED
    BY <1>8, <2>1, <2>2 DEF WatchTypeOK, StatEntry, worldVars, logVars, checkVars
<1>9. CASE GetFileOwner
  <2>1. dpc = "owner" /\ dpc' = "scan" /\ file' = NoFile
    BY <1>9 DEF GetFileOwner, DaemonGoto
  <2>2. file \in Name /\ current[file] \in ReportFile
    BY <2>1 DEF WatchTypeOK, ListIsBuilt
  <2>3. current' \in [Name -> ReportFile \cup {NoFile}]
    <3>1. CASE upload[file] = NoFile
      BY <1>9, <3>1 DEF GetFileOwner, WatchTypeOK
    <3>2. CASE upload[file] # NoFile
      <4>1. upload[file].owner \in User \cup {Unset}
        BY <2>2, <3>2 DEF WatchTypeOK, ReportFile
      <4>2. [current[file] EXCEPT !.owner = upload[file].owner] \in ReportFile
        BY <2>2, <4>1, OwnerStored
      <4>3. current' = [current EXCEPT ![file] = [current[file] EXCEPT !.owner = upload[file].owner]]
        BY <1>9, <3>2 DEF GetFileOwner
      <4>4. QED BY <4>2, <4>3 DEF WatchTypeOK
    <3>3. QED BY <3>1, <3>2
  <2>4. QED
    BY <1>9, <2>1, <2>3 DEF WatchTypeOK, GetFileOwner, worldVars, logVars, checkVars
<1>10. CASE EndScan
  BY <1>10 DEF WatchTypeOK, EndScan, DaemonGoto, EndOfScan, Names, worldVars, checkVars
<1>11. CASE EndCompare
  BY <1>11 DEF WatchTypeOK, EndCompare, DaemonGoto, worldVars, logVars, checkVars
<1>12. CASE EndMonitor
  BY <1>12 DEF WatchTypeOK, EndMonitor, DaemonGoto, EndOfScan, worldVars, checkVars
<1>13. CASE MarkFound
  BY <1>13 DEF WatchTypeOK, MarkFound, DaemonGoto, worldVars, logVars
<1>14. CASE LogMissing
  BY <1>14 DEF WatchTypeOK, LogMissing, DaemonGoto, worldVars, scanVars, logVars
<1>15. CASE Compare \/ LookForDeleted
  BY <1>15, ComparisonTypes
<1>16. CASE UNCHANGED watchVars
  BY <1>16 DEF WatchTypeOK, watchVars, worldVars, scanVars, logVars, checkVars
<1>17. QED
  BY <1>1, <1>2, <1>3, <1>4, <1>5, <1>6, <1>7, <1>8, <1>9, <1>10, <1>11, <1>12, <1>13, <1>14,
     <1>15, <1>16 DEF WatchNext, WatchStep

--------------------------------------------------------------------------------
LEMMA ListIsBuiltStep ==
  ASSUME WatchTypeOK, ListIsBuilt, ScanSeesSteady, [WatchNext]_watchVars
  PROVE  ListIsBuilt' /\ ScanSeesSteady'
<1> USE Elements DEF ListIsBuilt, ScanSeesSteady
<1>1. ASSUME NEW n \in Name, NEW u \in User, NEW t \in 0..now, Put(n, u, t)
      PROVE  ListIsBuilt' /\ ScanSeesSteady'
  <2>1. PICK f \in ReportFile : upload' = [upload EXCEPT ![n] = f]
    BY <1>1, FileWritten
  <2>2. upload'[n] # NoFile /\ \A m \in Name \ {n} : upload'[m] = upload[m]
    BY <2>1 DEF WatchTypeOK
  <2>3. steady' \subseteq steady /\ (upload[n] = NoFile => n \notin steady')
    BY <1>1 DEF Put
  <2>4. UNCHANGED <<dpc, scanVars>> /\ steady \subseteq Name
    BY <1>1 DEF Put, WatchTypeOK
  <2>5. QED BY <2>2, <2>3, <2>4 DEF scanVars
<1>2. ASSUME NEW n \in Name, Take(n) PROVE ListIsBuilt' /\ ScanSeesSteady'
  <2>1. \A m \in Name \ {n} : upload'[m] = upload[m]
    BY <1>2 DEF Take, WatchTypeOK
  <2>2. UNCHANGED <<dpc, scanVars>> /\ steady' = steady \ {n} /\ steady \subseteq Name
    BY <1>2 DEF Take, WatchTypeOK
  <2>3. QED BY <2>1, <2>2 DEF scanVars
<1>3. CASE Tick \/ MarkFound \/ LogMissing
  BY <1>3 DEF Tick, MarkFound, LogMissing, DaemonGoto, scanVars, worldVars
<1>4. CASE Restart
  BY <1>4 DEF Restart, EndOfScan
<1>5. CASE OpenUpload
  BY <1>5 DEF OpenUpload, DaemonGoto, worldVars, Nothing
<1>6. CASE OpenDashboard
  BY <1>6 DEF OpenDashboard, DaemonGoto, worldVars
<1>7. CASE ScanFails
  BY <1>7 DEF ScanFails, DaemonGoto, EndOfScan
<1>8. CASE StatEntry
  <2>1. PICK n \in todo :
          /\ todo' = todo \ {n}
          /\ IF upload[n] # NoFile
               THEN /\ dpc' = "owner" /\ file' = n
                    /\ current' = [current EXCEPT ![n] = [upload[n] EXCEPT !.owner = Unset]]
               ELSE dpc' = "scan" /\ UNCHANGED <<file, current>>
    BY <1>8 DEF StatEntry, DaemonGoto
  <2>2. dpc = "scan" /\ n \in Name /\ todo \subseteq Name /\ steady \subseteq Name
        /\ UNCHANGED <<upload, steady, previous>>
    BY <1>8 DEF StatEntry, DaemonGoto, WatchTypeOK, worldVars
  <2>3. upload[n] # NoFile => current'[n] # NoFile
    <3>1. upload[n] # NoFile => [upload[n] EXCEPT !.owner = Unset] \in ReportFile
      BY <2>2, OwnerStored DEF WatchTypeOK
    <3>2. QED BY <2>1, <2>2, <3>1 DEF WatchTypeOK
  <2>4. \A m \in Name \ {n} : current'[m] = current[m]
    BY <2>1, <2>2 DEF WatchTypeOK
  <2>5. current[n] = NoFile /\ (upload[n] = NoFile => current'[n] = NoFile)
    BY <2>1, <2>2
  <2>6. QED BY <2>1, <2>2, <2>3, <2>4, <2>5
<1>9. CASE GetFileOwner
  <2>1. /\ dpc = "owner" /\ dpc' = "scan"
        /\ UNCHANGED <<todo, previous, steady, upload>>
    BY <1>9 DEF GetFileOwner, DaemonGoto, worldVars
  <2>2. file \in Name /\ current[file] \in ReportFile
    BY <2>1 DEF WatchTypeOK
  <2>3. \A m \in Name : current'[m] = NoFile <=> current[m] = NoFile
    <3>1. CASE upload[file] = NoFile
      BY <1>9, <3>1 DEF GetFileOwner
    <3>2. CASE upload[file] # NoFile
      <4>1. [current[file] EXCEPT !.owner = upload[file].owner] \in ReportFile
        <5>1. upload[file].owner \in User \cup {Unset}
          BY <2>2, <3>2 DEF WatchTypeOK, ReportFile
        <5>2. QED BY <2>2, <5>1, OwnerStored
      <4>2. current' = [current EXCEPT ![file] = [current[file] EXCEPT !.owner = upload[file].owner]]
        BY <1>9, <3>2 DEF GetFileOwner
      <4>3. QED BY <2>2, <4>1, <4>2 DEF WatchTypeOK
    <3>3. QED BY <3>1, <3>2
  <2>4. todo \subseteq Name /\ steady \subseteq Name
    BY DEF WatchTypeOK
  <2>5. QED BY <2>1, <2>3, <2>4
<1>10. CASE EndScan
  <2>1. steady \subseteq Name
    BY DEF WatchTypeOK
  <2>2. QED BY <1>10, <2>1 DEF EndScan, DaemonGoto, EndOfScan, worldVars
<1>11. CASE EndCompare
  BY <1>11 DEF EndCompare, DaemonGoto
<1>12. CASE EndMonitor
  BY <1>12 DEF EndMonitor, DaemonGoto, EndOfScan
<1>13. CASE Compare \/ LookForDeleted
  BY <1>13, CompareEffect, LookForDeletedEffect DEF worldVars
<1>14. CASE UNCHANGED watchVars
  BY <1>14 DEF watchVars, worldVars, scanVars
<1>15. QED
  BY <1>1, <1>2, <1>3, <1>4, <1>5, <1>6, <1>7, <1>8, <1>9, <1>10, <1>11, <1>12, <1>13, <1>14
     DEF WatchNext, WatchStep

LEMMA ChangesIdentifyStep ==
  ASSUME WatchTypeOK, ListIsBuilt, ChangesIdentify, [WatchNext]_watchVars
  PROVE  ChangesIdentify'
<1> USE Elements DEF ChangesIdentify, SameChange
<1>1. /\ changes \in Nat /\ \A f \in ReportFile : f.change \in Nat
      /\ upload \in [Name -> ReportFile \cup {NoFile}] /\ current \in [Name -> ReportFile \cup {NoFile}]
      /\ previous \in [Name -> ReportFile \cup {NoFile}] \cup {NoScan}
  BY WatchAssumption DEF WatchTypeOK, ReportFile
<1>2. ASSUME NEW n \in Name, NEW u \in User, NEW t \in 0..now, Put(n, u, t)
      PROVE  ChangesIdentify'
  <2>1. PICK f \in ReportFile : /\ f.change = changes + 1 /\ changes' = changes + 1
                                /\ upload' = [upload EXCEPT ![n] = f]
    BY <1>2, FileWritten
  <2>2. UNCHANGED <<current, previous>>
    BY <1>2 DEF Put, scanVars
  <2>3. QED BY <1>1, <2>1, <2>2
<1>3. ASSUME NEW n \in Name, Take(n) PROVE ChangesIdentify'
  <2>1. upload' = [upload EXCEPT ![n] = NoFile] /\ UNCHANGED <<changes, current, previous>>
    BY <1>3 DEF Take, scanVars
  <2>2. QED BY <1>1, <2>1
<1>4. CASE StatEntry
  <2>1. PICK n \in todo : \/ current' = current
                          \/ /\ upload[n] # NoFile
                             /\ current' = [current EXCEPT ![n] = [upload[n] EXCEPT !.owner = Unset]]
    BY <1>4 DEF StatEntry, DaemonGoto
  <2>2. UNCHANGED <<changes, upload, previous>> /\ n \in Name
    BY <1>4 DEF StatEntry, worldVars, WatchTypeOK
  <2>3. CASE current' = current
    BY <2>2, <2>3
  <2>4. CASE /\ upload[n] # NoFile
             /\ current' = [current EXCEPT ![n] = [upload[n] EXCEPT !.owner = Unset]]
    <3>1. upload[n] \in ReportFile
      BY <1>1, <2>2, <2>4
    <3> DEFINE g == [upload[n] EXCEPT !.owner = Unset]
    <3>2. g.change = upload[n].change /\ g.timestamp = upload[n].timestamp
      BY <3>1, OwnerStored
    <3>3. current' = [current EXCEPT ![n] = g]
      BY <2>4
    <3> HIDE DEF g
    <3>4. QED BY <1>1, <2>2, <3>1, <3>2, <3>3
  <2>5. QED BY <2>1, <2>3, <2>4
<1>5. CASE GetFileOwner
  <2>1. UNCHANGED <<changes, upload, previous>> /\ file \in Name /\ current[file] \in ReportFile
    BY <1>1, <1>5 DEF GetFileOwner, worldVars, DaemonGoto, ListIsBuilt
  <2>2. CASE upload[file] = NoFile
    BY <1>5, <2>1, <2>2 DEF GetFileOwner
  <2>3. CASE upload[file] # NoFile
    <3>1. upload[file].owner \in User \cup {Unset}
      BY <1>1, <2>1, <2>3 DEF ReportFile
    <3> DEFINE g == [current[file] EXCEPT !.owner = upload[file].owner]
    <3>2. g.change = current[file].change /\ g.timestamp = current[file].timestamp
      BY <2>1, <3>1, OwnerStored
    <3>3. current' = [current EXCEPT ![file] = g]
      BY <1>5, <2>3 DEF GetFileOwner
    <3> HIDE DEF g
    <3>4. QED BY <1>1, <2>1, <3>2, <3>3
  <2>4. QED BY <2>2, <2>3
<1>6. CASE Restart \/ ScanFails
  <2>1. UNCHANGED <<changes, upload>> /\ current' = Nothing /\ previous' \in {previous, NoScan}
    BY <1>6 DEF Restart, ScanFails, EndOfScan, worldVars
  <2>2. QED BY <1>1, <2>1 DEF Nothing
<1>7. CASE EndScan \/ EndMonitor
  <2>1. /\ UNCHANGED <<changes, upload>>
        /\ \/ UNCHANGED <<current, previous>>
           \/ current' = Nothing /\ previous' = current
    BY <1>7 DEF EndScan, EndMonitor, EndOfScan, worldVars
  <2>2. QED BY <1>1, <2>1 DEF Nothing
<1>8. CASE \/ Tick \/ OpenUpload \/ OpenDashboard \/ EndCompare \/ MarkFound \/ LogMissing
           \/ Compare \/ LookForDeleted \/ UNCHANGED watchVars
  <2>1. UNCHANGED <<changes, upload, current, previous>>
    BY <1>8 DEF Tick, OpenUpload, OpenDashboard, EndCompare, MarkFound, LogMissing, Compare,
                LookForDeleted, watchVars, worldVars, scanVars
  <2>2. QED BY <2>1
<1>9. QED
  BY <1>2, <1>3, <1>4, <1>5, <1>6, <1>7, <1>8 DEF WatchNext, WatchStep

--------------------------------------------------------------------------------
\* The name that is compared gets the line it needs, or is noted as lost.
LEMMA LogFollowsStep ==
  ASSUME WatchTypeOK, ListIsBuilt, LogFollows, [WatchNext]_watchVars
  PROVE  LogFollows'
<1> USE DEF LogFollows, Known
<1>1. todo \subseteq Name /\ \A f \in ReportFile : f.owner \in User \cup {Unset}
  BY DEF WatchTypeOK, ReportFile
<1>2. CASE Compare
  <2>1. /\ dpc = "compare" /\ dpc' = "compare" /\ UNCHANGED <<current, previous>>
        /\ previous # NoScan
    BY <1>2, CompareEffect DEF ListIsBuilt
  <2>2. PICK n \in todo :
          /\ todo' = todo \ {n}
          /\ \/ /\ NothingLogged
                /\ current[n] = NoFile \/ previous[n] # NoFile
             \/ /\ current[n] \in ReportFile /\ previous[n] = NoFile
                /\ LogFileChange(current[n].owner, n, "create")
             \/ /\ current[n] \in ReportFile /\ previous[n] \in ReportFile
                /\ current[n].timestamp > previous[n].timestamp
                /\ LogFileChange(current[n].owner, n, "modify")
    BY <1>2, CompareEffect
  <2>3. \A m \in Name \ lost : m \in replayed <=>
          previous[m] # NoFile \/ (m \notin todo /\ current[m] # NoFile)
    BY <2>1
  <2>4. \A m \in Name \ lost' : m \in replayed' <=>
          previous[m] # NoFile \/ (m \notin todo' /\ current[m] # NoFile)
    <3>1. CASE NothingLogged /\ (current[n] = NoFile \/ previous[n] # NoFile)
      BY <1>1, <2>2, <2>3, <3>1 DEF NothingLogged, logVars
    <3>2. CASE /\ current[n] \in ReportFile /\ previous[n] = NoFile
               /\ LogFileChange(current[n].owner, n, "create")
      <4>1. /\ \A m \in Name \ {n} : (m \in lost' <=> m \in lost) /\ (m \in replayed' <=> m \in replayed)
            /\ n \notin lost' => n \in replayed'
        BY <1>1, <2>2, <3>2, LineOfLog
      <4>2. QED BY <1>1, <2>2, <2>3, <3>2, <4>1, Elements
    <3>3. CASE /\ current[n] \in ReportFile /\ previous[n] \in ReportFile
               /\ LogFileChange(current[n].owner, n, "modify")
      <4>1. /\ \A m \in Name \ {n} : (m \in lost' <=> m \in lost) /\ (m \in replayed' <=> m \in replayed)
            /\ n \notin lost' => n \notin lost /\ replayed' = replayed
        BY <1>1, <2>2, <3>3, LineOfLog
      <4>2. QED BY <1>1, <2>2, <2>3, <3>3, <4>1, Elements
    <3>4. QED BY <2>2, <3>1, <3>2, <3>3
  <2>5. QED BY <2>1, <2>4
<1>3. CASE LookForDeleted
  <2>1. /\ dpc = "deleted" /\ dpc' = "deleted" /\ UNCHANGED <<current, previous>>
        /\ previous # NoScan
    BY <1>3, LookForDeletedEffect DEF ListIsBuilt
  <2>2. PICK n \in todo :
          /\ todo' = todo \ {n}
          /\ \/ /\ NothingLogged
                /\ previous[n] = NoFile \/ current[n] # NoFile
             \/ /\ previous[n] \in ReportFile /\ current[n] = NoFile
                /\ LogFileChange(previous[n].owner, n, "delete")
    BY <1>3, LookForDeletedEffect
  <2>3. \A m \in Name \ lost : m \in replayed <=>
          current[m] # NoFile \/ (m \in todo /\ previous[m] # NoFile)
    BY <2>1
  <2>4. \A m \in Name \ lost' : m \in replayed' <=>
          current[m] # NoFile \/ (m \in todo' /\ previous[m] # NoFile)
    <3>1. CASE NothingLogged /\ (previous[n] = NoFile \/ current[n] # NoFile)
      BY <1>1, <2>2, <2>3, <3>1 DEF NothingLogged, logVars
    <3>2. CASE /\ previous[n] \in ReportFile /\ current[n] = NoFile
               /\ LogFileChange(previous[n].owner, n, "delete")
      <4>1. /\ \A m \in Name \ {n} : (m \in lost' <=> m \in lost) /\ (m \in replayed' <=> m \in replayed)
            /\ n \notin lost' => n \notin replayed'
        BY <1>1, <2>2, <3>2, LineOfLog
      <4>2. QED BY <1>1, <2>2, <2>3, <3>2, <4>1
    <3>3. QED BY <2>2, <3>1, <3>2
  <2>5. QED BY <2>1, <2>4
<1>4. CASE EndScan
  <2>1. CASE previous = NoScan
    <3>1. /\ dpc' = "idle" /\ previous' = current /\ replayed' = Names(current)
      BY <1>4, <2>1 DEF EndScan, DaemonGoto
    <3>2. QED BY <3>1 DEF Names
  <2>2. CASE previous # NoScan
    <3>1. /\ dpc = "scan" /\ dpc' = "compare" /\ todo' = Name
          /\ UNCHANGED <<current, previous, replayed, lost>>
      BY <1>4, <2>2 DEF EndScan, DaemonGoto
    <3>2. QED BY <3>1
  <2>3. QED BY <2>1, <2>2
<1>5. CASE EndCompare
  <2>1. /\ dpc = "compare" /\ dpc' = "deleted" /\ todo = {} /\ todo' = Name
        /\ UNCHANGED <<current, previous, replayed, lost>>
    BY <1>5 DEF EndCompare, DaemonGoto, logVars
  <2>2. QED BY <2>1
<1>6. CASE EndMonitor
  <2>1. /\ dpc = "deleted" /\ dpc' = "idle" /\ todo = {} /\ previous' = current
        /\ UNCHANGED <<replayed, lost>> /\ previous # NoScan
    BY <1>6 DEF EndMonitor, DaemonGoto, ListIsBuilt
  <2>2. QED BY <2>1
<1>7. CASE Restart
  BY <1>7 DEF Restart
<1>8. CASE \/ OpenUpload \/ OpenDashboard \/ StatEntry \/ GetFileOwner \/ ScanFails
           \/ MarkFound \/ LogMissing
  <2>1. /\ UNCHANGED <<previous, replayed, lost>>
        /\ dpc \notin {"compare", "deleted"} /\ dpc' \notin {"compare", "deleted"}
    BY <1>8 DEF OpenUpload, OpenDashboard, StatEntry, GetFileOwner, ScanFails, MarkFound,
                LogMissing, DaemonGoto, scanVars, logVars
  <2>2. QED BY <2>1
<1>9. CASE \/ \E n \in Name : Take(n) \/ \E u \in User, t \in 0..now : Put(n, u, t)
           \/ Tick \/ UNCHANGED watchVars
  <2>1. UNCHANGED <<dpc, todo, current, previous, replayed, lost>>
    BY <1>9 DEF Take, Put, Tick, watchVars, scanVars, logVars
  <2>2. QED BY <2>1
<1>10. QED
  BY <1>2, <1>3, <1>4, <1>5, <1>6, <1>7, <1>8, <1>9 DEF WatchNext, WatchStep

--------------------------------------------------------------------------------
LEMMA WatchInitially == WatchInit => WatchInv
<1> SUFFICES ASSUME WatchInit PROVE WatchInv
  OBVIOUS
<1> USE WatchAssumption, Elements DEF WatchInit
<1>1. WatchTypeOK
  BY DEF WatchTypeOK, Time
<1>2. ListIsBuilt /\ ScanSeesSteady /\ LogFollows
  BY DEF ListIsBuilt, ScanSeesSteady, LogFollows
<1>3. ChangesIdentify
  BY DEF ChangesIdentify, SameChange, Nothing
<1>4. QED BY <1>1, <1>2, <1>3 DEF WatchInv

THEOREM WatchInvariant == WatchSpec => []WatchInv
<1>1. WatchInv /\ [WatchNext]_watchVars => WatchInv'
  BY WatchTypeStep, ListIsBuiltStep, ChangesIdentifyStep, LogFollowsStep
     DEF WatchInv
<1>2. QED BY WatchInitially, <1>1, PTL DEF WatchSpec

(***************************************************************************)
(* Type correctness of the scan, the comparison and the check: none looks  *)
(* at an element that is not in a list, whatever vanishes while it reads.  *)
(***************************************************************************)
THEOREM WatchTypeCorrect == WatchSpec => []WatchTypeOK
<1>1. WatchInv => WatchTypeOK
  BY DEF WatchInv
<1>2. QED BY WatchInvariant, <1>1, PTL

(***************************************************************************)
(* file_operations.c:245 and 278, "Look for new or modified files", "Look  *)
(* for deleted files": the change log, replayed, gives the files of the    *)
(* last scan, for any number of names, users, changes and failing scans.   *)
(***************************************************************************)
THEOREM WatchLogReplays == WatchSpec => []LogReplays
<1>1. WatchInv => LogReplays
  BY DEF WatchInv, LogFollows, Known, LogReplays
<1>2. QED BY WatchInvariant, <1>1, PTL

(***************************************************************************)
(* A scan sees what was there, or was not there, all the time it lasted.   *)
(***************************************************************************)
THEOREM WatchSeesSteady == WatchSpec => []ScanSeesSteady
<1>1. WatchInv => ScanSeesSteady
  BY DEF WatchInv
<1>2. QED BY WatchInvariant, <1>1, PTL

(***************************************************************************)
(* file_operations.c:256: a line "modify" is only written for a file that  *)
(* has been touched since the last scan, for any clock and any time stamp. *)
(***************************************************************************)
THEOREM WatchModifiedWasTouched == WatchSpec => ModifiedWasTouched
<1> DEFINE Touched == dpc = "compare" /\ entry' # entry /\ entry'.action = "modify" =>
             LET n == entry'.name IN current[n].change # previous[n].change
<1>1. WatchInv /\ [WatchNext]_watchVars => [Touched]_entry
  <2> SUFFICES ASSUME WatchInv, WatchNext, dpc = "compare", entry' # entry,
                      entry'.action = "modify"
               PROVE  current[entry'.name].change # previous[entry'.name].change
    BY DEF watchVars, logVars
  <2>1. Compare
    <3>1. ~Restart
      BY DEF Restart, NoEntry
    <3>2. QED
      BY <3>1 DEF WatchNext, WatchStep, Take, Put, Tick, OpenUpload, OpenDashboard, ScanFails,
             StatEntry, GetFileOwner, EndScan, EndCompare, LookForDeleted, EndMonitor, MarkFound,
             LogMissing, DaemonGoto, logVars
  <2>2. PICK n \in todo :
           \/ NothingLogged
           \/ current[n] \in ReportFile /\ LogFileChange(current[n].owner, n, "create")
           \/ /\ current[n] \in ReportFile /\ previous[n] \in ReportFile
              /\ current[n].timestamp > previous[n].timestamp
              /\ LogFileChange(current[n].owner, n, "modify")
    BY <2>1, CompareEffect DEF WatchInv
  <2>3. /\ entry' = [user |-> current[n].owner, name |-> n, action |-> "modify"]
        /\ current[n] \in ReportFile /\ previous[n] \in ReportFile
        /\ current[n].timestamp > previous[n].timestamp
    BY <2>2 DEF LogFileChange, NothingLogged, logVars
  <2>4. n \in Name /\ previous # NoScan /\ entry'.name = n
    BY <2>3 DEF WatchInv, WatchTypeOK, ListIsBuilt
  <2>5. SameChange(previous[n], current[n]) /\ current[n].timestamp # previous[n].timestamp
    BY <2>3, <2>4, WatchAssumption DEF WatchInv, ChangesIdentify, ReportFile, Time
  <2>6. QED BY <2>3, <2>4, <2>5, Elements DEF SameChange
<1>2. QED BY WatchInvariant, <1>1, PTL DEF WatchSpec, ModifiedWasTouched
================================================================================
