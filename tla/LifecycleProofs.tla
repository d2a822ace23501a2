--------------------------- MODULE LifecycleProofs ---------------------------
(***************************************************************************)
(* Proofs about Lifecycle, for any number of starts and whatever fails,    *)
(* crashes or times out.                                                   *)
(***************************************************************************)
EXTENDS Lifecycle, TLAPS

\* What a signal for the recorded daemon may change: the stage of an instance
\* stays or ends, and only SIGTERM to a handling daemon sets daemon_exit.
LEMMA SignalEffect ==
  ASSUME LifecycleTypeOK, NEW handled \in BOOLEAN, SignalRecorded(handled)
  PROVE  /\ stage' \in [Inst -> Stage]
         /\ \A i \in Inst : stage'[i] = stage[i] \/ (stage'[i] = "dead" /\ Alive(i))
         /\ fifo_fd' \in [Inst -> Inst \cup {NoInst}]
         /\ \A i \in Inst : stage'[i] # "dead" => fifo_fd'[i] = fifo_fd[i]
         /\ daemon_exit' \in [Inst -> BOOLEAN]
         /\ \A i \in Inst : daemon_exit[i] => daemon_exit'[i]
         /\ \A i \in Inst : daemon_exit'[i] => daemon_exit[i] \/ (handled /\ Alive(i))
<1> USE DEF LifecycleTypeOK
<1>1. CASE Recorded /\ stage[pid_file] \in DefaultSignals
  <2>1. /\ stage' = [i \in Inst |-> IF i \in {pid_file} THEN "dead" ELSE stage[i]]
        /\ fifo_fd' = [i \in Inst |-> IF i \in {pid_file} THEN NoInst ELSE fifo_fd[i]]
        /\ daemon_exit' = daemon_exit
    BY <1>1 DEF SignalRecorded, Killed
  <2>2. Alive(pid_file) /\ "dead" \in Stage
    BY <1>1 DEF Recorded, Stage
  <2>3. stage' \in [Inst -> Stage] /\ fifo_fd' \in [Inst -> Inst \cup {NoInst}]
    BY <2>1, <2>2
  <2>4. /\ \A i \in Inst : stage'[i] = stage[i] \/ (stage'[i] = "dead" /\ Alive(i))
        /\ \A i \in Inst : stage'[i] # "dead" => fifo_fd'[i] = fifo_fd[i]
    BY <2>1, <2>2
  <2>5. /\ daemon_exit' \in [Inst -> BOOLEAN]
        /\ \A i \in Inst : daemon_exit[i] => daemon_exit'[i]
        /\ \A i \in Inst : daemon_exit'[i] => daemon_exit[i] \/ (handled /\ Alive(i))
    BY <2>1, Zenon
  <2>6. QED BY <2>3, <2>4, <2>5, Zenon
<1>2. CASE ~(Recorded /\ stage[pid_file] \in DefaultSignals)
  <2>1. /\ stage' = stage /\ fifo_fd' = fifo_fd
        /\ daemon_exit' = [i \in Inst |-> daemon_exit[i] \/ (handled /\ Recorded /\ i = pid_file)]
    BY <1>2 DEF SignalRecorded
  <2>2. \A i \in Inst : daemon_exit'[i] = (daemon_exit[i] \/ (handled /\ Recorded /\ i = pid_file))
    BY <2>1, Zenon
  <2>3. daemon_exit' \in [Inst -> BOOLEAN]
    BY <2>1, Zenon
  <2>4. \A i \in Inst : daemon_exit[i] => daemon_exit'[i]
    BY <2>2, Zenon
  <2>5. \A i \in Inst : Recorded /\ i = pid_file => Alive(i)
    BY DEF Recorded
  <2>6. \A i \in Inst : daemon_exit'[i] => daemon_exit[i] \/ (handled /\ Alive(i))
    BY <2>2, <2>5, Zenon
  <2>7. /\ stage' \in [Inst -> Stage] /\ fifo_fd' \in [Inst -> Inst \cup {NoInst}]
        /\ \A i \in Inst : stage'[i] = stage[i] \/ (stage'[i] = "dead" /\ Alive(i))
        /\ \A i \in Inst : stage'[i] # "dead" => fifo_fd'[i] = fifo_fd[i]
    BY <2>1
  <2>8. QED
    BY <2>3, <2>4, <2>6, <2>7, Zenon
<1>3. QED BY <1>1, <1>2

LEMMA LifecycleTypeStep ==
  ASSUME LifecycleTypeOK, [LifecycleNext]_lifecycleVars
  PROVE  LifecycleTypeOK'
<1> USE LifecycleAssumption
    DEF LifecycleTypeOK, Stage, DefaultSignals, Starting, Ready, Loop, Window, Stopping, Step,
        StopCommands, StopDone, processVars, fileVars, modeVars, scriptVars
<1>1. ASSUME NEW i \in Inst, InstanceStep(i) PROVE LifecycleTypeOK'
  <2>1. CASE CheckSingleton(i) BY <2>1 DEF CheckSingleton
  <2>2. CASE Fork(i) BY <2>2 DEF Fork
  <2>3. CASE TruncatePid(i) BY <2>3 DEF TruncatePid
  <2>4. CASE WritePid(i) BY <2>4 DEF WritePid
  <2>5. CASE SetupSignalHandlers(i) BY <2>5 DEF SetupSignalHandlers
  <2>6. CASE MakeFifo(i) BY <2>6 DEF MakeFifo
  <2>7. CASE OpenFifo(i) BY <2>7 DEF OpenFifo
  <2>8. CASE SetInitialPermissions(i) BY <2>8 DEF SetInitialPermissions, OpenDirectories
  <2>9. CASE LeaveWindow(i)
    <3>1. stage' \in [Inst -> Stage] /\ lock_file' \in Inst \cup {NoInst}
      BY <2>9 DEF LeaveWindow
    <3>2. locked' \in BOOLEAN /\ chmod_failed' \subseteq Inst
      BY <2>9 DEF LeaveWindow, OpenDirectories
    <3>3. QED BY <2>9, <3>1, <3>2 DEF LeaveWindow
  <2>10. CASE PassBlock(i) BY <2>10 DEF PassBlock
  <2>11. CASE ExitMainLoop(i) BY <2>11 DEF ExitMainLoop
  <2>12. CASE UnlinkPid(i) BY <2>12 DEF UnlinkPid
  <2>13. CASE CleanupIpc(i) BY <2>13 DEF CleanupIpc
  <2>14. QED
    BY <1>1, <2>1, <2>2, <2>3, <2>4, <2>5, <2>6, <2>7, <2>8, <2>9, <2>10, <2>11, <2>12, <2>13
       DEF InstanceStep
<1>2. ASSUME NEW i \in Inst, EnterWindow(i) PROVE LifecycleTypeOK'
  BY <1>2 DEF EnterWindow
<1>3. ASSUME NEW i \in Inst, Crash(i) PROVE LifecycleTypeOK'
  BY <1>3 DEF Crash, Killed
<1>4. CASE DoStart BY <1>4 DEF DoStart, Run
<1>5. CASE StartReturns BY <1>5 DEF StartReturns, Run
<1>6. CASE DoStop
  <2>1. stage' \in [Inst -> Stage] /\ fifo_fd' \in [Inst -> Inst \cup {NoInst}]
    BY <1>6, SignalEffect DEF DoStop
  <2>2. daemon_exit' \in [Inst -> BOOLEAN]
    BY <1>6, SignalEffect DEF DoStop
  <2>3. QED
    BY <1>6, <2>1, <2>2 DEF DoStop, Recorded, Run
<1>7. CASE StopKills BY <1>7 DEF StopKills, Killed
<1>8. CASE StopRest BY <1>8 DEF StopRest, Killed, Run
<1>9. CASE DoForce
  <2>1. stage' \in [Inst -> Stage] /\ fifo_fd' \in [Inst -> Inst \cup {NoInst}]
    BY <1>9, SignalEffect DEF DoForce
  <2>2. daemon_exit' \in [Inst -> BOOLEAN]
    BY <1>9, SignalEffect DEF DoForce
  <2>3. QED
    BY <1>9, <2>1, <2>2 DEF DoForce
<1>10. CASE UNCHANGED lifecycleVars BY <1>10 DEF lifecycleVars
<1>11. QED
  BY <1>1, <1>2, <1>3, <1>4, <1>5, <1>6, <1>7, <1>8, <1>9, <1>10
     DEF LifecycleNext, ScriptStep

(***************************************************************************)
(* Type correctness: every step of daemon_init(), the loop's window,       *)
(* daemon_cleanup() and the init script leaves the state in its sets.      *)
(***************************************************************************)
THEOREM LifecycleTypeCorrect == LifecycleSpec => []LifecycleTypeOK
<1>1. LifecycleInit => LifecycleTypeOK
  <2> SUFFICES ASSUME LifecycleInit PROVE LifecycleTypeOK
    OBVIOUS
  <2>1. stage \in [Inst -> Stage] /\ fifo_fd \in [Inst -> Inst \cup {NoInst}]
    BY DEF LifecycleInit, Stage
  <2>2. daemon_exit \in [Inst -> BOOLEAN]
    BY DEF LifecycleInit
  <2>3. QED
    BY <2>1, <2>2 DEF LifecycleInit, LifecycleTypeOK
<1>2. LifecycleTypeOK /\ [LifecycleNext]_lifecycleVars => LifecycleTypeOK'
  BY LifecycleTypeStep
<1>3. QED
  BY <1>1, <1>2, PTL DEF LifecycleSpec

--------------------------------------------------------------------------------
\* A step of an instance that is alive leaves the script and the others alone.
LEMMA InstanceStepEffect ==
  ASSUME LifecycleTypeOK, NEW i \in Inst,
         InstanceStep(i) \/ EnterWindow(i) \/ Crash(i)
  PROVE  /\ Alive(i) /\ stage'[i] # "unborn"
         /\ \A j \in Inst \ {i} : stage'[j] = stage[j]
         /\ daemon_exit' = daemon_exit /\ script' = script /\ patient' = patient
         /\ stage'[i] \in Stopping => stage[i] \in Stopping \/ daemon_exit[i]
<1> USE DEF LifecycleTypeOK, Step, Alive, Starting, DefaultSignals, Ready, Loop, Window, Stopping,
            scriptVars, fileVars, modeVars
<1>1. CASE CheckSingleton(i) BY <1>1 DEF CheckSingleton
<1>2. CASE Fork(i) BY <1>2 DEF Fork
<1>3. CASE TruncatePid(i) BY <1>3 DEF TruncatePid
<1>4. CASE WritePid(i) BY <1>4 DEF WritePid
<1>5. CASE SetupSignalHandlers(i) BY <1>5 DEF SetupSignalHandlers
<1>6. CASE MakeFifo(i) BY <1>6 DEF MakeFifo
<1>7. CASE OpenFifo(i) BY <1>7 DEF OpenFifo
<1>8. CASE SetInitialPermissions(i) BY <1>8 DEF SetInitialPermissions, OpenDirectories
<1>9. CASE LeaveWindow(i) BY <1>9 DEF LeaveWindow, OpenDirectories
<1>10. CASE PassBlock(i) BY <1>10 DEF PassBlock
<1>11. CASE ExitMainLoop(i) BY <1>11 DEF ExitMainLoop
<1>12. CASE UnlinkPid(i) BY <1>12 DEF UnlinkPid
<1>13. CASE CleanupIpc(i) BY <1>13 DEF CleanupIpc
<1>14. CASE EnterWindow(i) BY <1>14 DEF EnterWindow
<1>15. CASE Crash(i) BY <1>15 DEF Crash, Killed
<1>16. QED
  BY <1>1, <1>2, <1>3, <1>4, <1>5, <1>6, <1>7, <1>8, <1>9, <1>10, <1>11, <1>12,
     <1>13, <1>14, <1>15 DEF InstanceStep

\* The part of the invariant that holds for an impatient administrator too.
LEMMA StopStep ==
  ASSUME LifecycleTypeOK, NoneAfterStop, ExitIsStop, [LifecycleNext]_lifecycleVars
  PROVE  NoneAfterStop' /\ ExitIsStop'
<1> USE LifecycleAssumption DEF NoneAfterStop, ExitIsStop, StopCommands, StopDone
<1>1. ASSUME NEW i \in Inst, InstanceStep(i) \/ EnterWindow(i) \/ Crash(i)
      PROVE  NoneAfterStop' /\ ExitIsStop'
  <2>1. /\ Alive(i) /\ stage'[i] # "unborn"
        /\ \A j \in Inst \ {i} : stage'[j] = stage[j]
        /\ daemon_exit' = daemon_exit /\ script' = script
        /\ stage'[i] \in Stopping => stage[i] \in Stopping \/ daemon_exit[i]
    BY <1>1, InstanceStepEffect
  <2>2. NoneAfterStop'
    BY <2>1
  <2>3. ExitIsStop'
    BY <2>1 DEF Alive
  <2>4. QED BY <2>2, <2>3
<1>2. CASE DoStart
  <2>1. CASE stage' = stage
    BY <1>2, <2>1 DEF DoStart, Run, Command, Idle, Alive, fileVars
  <2>2. CASE \E i \in Inst : Step(i, "unborn", "check_singleton")
    <3>1. PICK i \in Inst : Step(i, "unborn", "check_singleton")
      BY <2>2
    <3>2. /\ stage[i] = "unborn" /\ stage'[i] = "check_singleton"
          /\ \A j \in Inst \ {i} : stage'[j] = stage[j]
      BY <3>1 DEF Step, LifecycleTypeOK
    <3>3. script'.command \in {"idle", "start"} /\ daemon_exit' = daemon_exit
      BY <1>2 DEF DoStart, Run
    <3>4. NoneAfterStop'
      BY <3>3
    <3>5. \A j \in Inst : daemon_exit[j] => ~Alive(j)
      BY <1>2 DEF DoStart, Command, Idle
    <3>6. ExitIsStop'
      BY <3>2, <3>3, <3>5 DEF Alive, Stopping
    <3>7. QED BY <3>4, <3>6
  <2>3. QED BY <1>2, <2>1, <2>2 DEF DoStart
<1>3. CASE StartReturns
  BY <1>3 DEF StartReturns, Run, Alive, processVars, fileVars
<1>4. CASE DoStop
  <2>1. /\ \A i \in Inst : stage'[i] = stage[i] \/ (stage'[i] = "dead" /\ Alive(i))
        /\ \A i \in Inst : daemon_exit[i] => daemon_exit'[i]
        /\ \A i \in Inst : daemon_exit'[i] => daemon_exit[i] \/ Alive(i)
    BY <1>4, SignalEffect DEF DoStop
  <2>2. script'.command \in StopCommands
    BY <1>4 DEF DoStop, Run
  <2>3. QED
    BY <2>1, <2>2 DEF Alive, Stopping, Starting, Ready, Loop, Window, DefaultSignals
<1>5. CASE StopKills
  <2>1. /\ \A i \in Inst : stage'[i] = stage[i] \/ stage'[i] = "dead"
        /\ daemon_exit' = daemon_exit /\ script' = script
    BY <1>5 DEF StopKills, Killed, scriptVars
  <2>2. QED
    BY <1>5, <2>1 DEF StopKills, Alive, Stopping, Starting, Ready, Loop, Window, DefaultSignals
<1>6. CASE StopRest
  <2>1. /\ \A i \in Inst : stage'[i] = IF Alive(i) THEN "dead" ELSE stage[i]
        /\ daemon_exit' = daemon_exit
    BY <1>6 DEF StopRest, Killed
  <2>2. \A i \in Inst : stage'[i] \notin Starting \cup Ready \cup Stopping
    BY <2>1 DEF Alive, Stopping, Starting, Ready, Loop, Window, DefaultSignals
  <2>3. QED
    BY <2>1, <2>2 DEF Alive
<1>7. CASE DoForce
  <2>1. /\ \A i \in Inst : stage'[i] = stage[i] \/ (stage'[i] = "dead" /\ Alive(i))
        /\ \A i \in Inst : daemon_exit'[i] = daemon_exit[i]
        /\ script' = script
    <3>1. /\ \A i \in Inst : daemon_exit[i] => daemon_exit'[i]
          /\ \A i \in Inst : daemon_exit'[i] => daemon_exit[i]
          /\ daemon_exit' \in [Inst -> BOOLEAN]
      BY <1>7, SignalEffect DEF DoForce
    <3>2. \A i \in Inst : stage'[i] = stage[i] \/ (stage'[i] = "dead" /\ Alive(i))
      BY <1>7, SignalEffect DEF DoForce
    <3>3. \A i \in Inst : daemon_exit'[i] = daemon_exit[i]
      BY <3>1 DEF LifecycleTypeOK
    <3>4. QED
      BY <1>7, <3>2, <3>3 DEF DoForce, scriptVars
  <2>2. QED
    BY <1>7, <2>1 DEF DoForce, Command, Idle, Recorded, Alive, Stopping, Starting, Ready, Loop, Window,
                      DefaultSignals
<1>8. CASE UNCHANGED lifecycleVars
  BY <1>8 DEF lifecycleVars, processVars, fileVars, modeVars, scriptVars, Alive
<1>9. QED
  BY <1>1, <1>2, <1>3, <1>4, <1>5, <1>6, <1>7, <1>8 DEF LifecycleNext, ScriptStep

\* The part of the invariant that needs a patient administrator: one daemon at
\* most, and the files it made are still its own.
LEMMA PatientStep ==
  ASSUME LifecycleInv, patient, [LifecycleNext]_lifecycleVars
  PROVE  OneAlive' /\ HasPidFile' /\ HasFifo' /\ LoopIsOpen'
<1> USE LifecycleAssumption
    DEF LifecycleInv, LifecycleTypeOK, OneAlive, HasPidFile, HasFifo, LoopIsOpen, Alive,
        Starting, DefaultSignals, Ready, Loop, Window, Stopping, Step, processVars, fileVars, modeVars, scriptVars
<1>1. ASSUME NEW i \in Inst, InstanceStep(i)
      PROVE  OneAlive' /\ HasPidFile' /\ HasFifo' /\ LoopIsOpen'
  <2>1. CASE CheckSingleton(i) BY <2>1 DEF CheckSingleton
  <2>2. CASE Fork(i) BY <2>2 DEF Fork
  <2>3. CASE TruncatePid(i) BY <2>3 DEF TruncatePid
  <2>4. CASE WritePid(i) BY <2>4 DEF WritePid
  <2>5. CASE SetupSignalHandlers(i) BY <2>5 DEF SetupSignalHandlers
  <2>6. CASE MakeFifo(i) BY <2>6 DEF MakeFifo
  <2>7. CASE OpenFifo(i) BY <2>7 DEF OpenFifo
  <2>8. CASE SetInitialPermissions(i) BY <2>8 DEF SetInitialPermissions, OpenDirectories
  <2>9. CASE LeaveWindow(i) BY <2>9 DEF LeaveWindow, OpenDirectories
  <2>10. CASE PassBlock(i) BY <2>10 DEF PassBlock
  <2>11. CASE ExitMainLoop(i) BY <2>11 DEF ExitMainLoop
  <2>12. CASE UnlinkPid(i) BY <2>12 DEF UnlinkPid
  <2>13. CASE CleanupIpc(i) BY <2>13 DEF CleanupIpc
  <2>14. QED
    BY <1>1, <2>1, <2>2, <2>3, <2>4, <2>5, <2>6, <2>7, <2>8, <2>9, <2>10, <2>11, <2>12, <2>13
       DEF InstanceStep
<1>2. ASSUME NEW i \in Inst, EnterWindow(i)
      PROVE  OneAlive' /\ HasPidFile' /\ HasFifo' /\ LoopIsOpen'
  BY <1>2 DEF EnterWindow
<1>3. ASSUME NEW i \in Inst, Crash(i)
      PROVE  OneAlive' /\ HasPidFile' /\ HasFifo' /\ LoopIsOpen'
  BY <1>3 DEF Crash, Killed
<1>4. CASE DoStart
  <2>1. CASE stage' = stage
    BY <1>4, <2>1 DEF DoStart
  <2>2. CASE ~Recorded /\ \E i \in Inst : Step(i, "unborn", "check_singleton")
    <3>1. PICK i \in Inst : Step(i, "unborn", "check_singleton")
      BY <2>2
    <3>2. \A j \in Inst : ~Alive(j)
      <4>1. CASE script.command = "restarting"
        BY <4>1 DEF NoneAfterStop, StopDone
      <4>2. CASE Command
        <5>1. \A j \in Inst : stage[j] \notin Starting
          BY <4>2 DEF Command
        <5>2. \A j \in Inst : stage[j] \notin Stopping
          BY <4>2 DEF Command, Idle, ExitIsStop, StopCommands
        <5>3. \A j \in Inst : stage[j] \notin Ready
          BY <2>2 DEF Recorded
        <5>4. QED BY <5>1, <5>2, <5>3
      <4>3. QED BY <1>4, <4>1, <4>2 DEF DoStart
    <3>3. QED
      BY <1>4, <3>1, <3>2 DEF DoStart
  <2>3. QED BY <1>4, <2>1, <2>2 DEF DoStart
<1>5. CASE StartReturns
  BY <1>5 DEF StartReturns
<1>6. CASE DoStop \/ DoForce
  <2>1. /\ \A i \in Inst : stage'[i] = stage[i] \/ stage'[i] = "dead"
        /\ \A i \in Inst : stage'[i] # "dead" => fifo_fd'[i] = fifo_fd[i]
        /\ pid_file' = pid_file /\ fifo_path' = fifo_path /\ locked' = locked
        /\ chmod_failed' = chmod_failed
    BY <1>6, SignalEffect DEF DoStop, DoForce
  <2>2. QED BY <2>1
<1>7. CASE StopKills
  BY <1>7 DEF StopKills, Killed
<1>8. CASE StopRest
  <2>1. \A i \in Inst : stage'[i] = IF Alive(i) THEN "dead" ELSE stage[i]
    BY <1>8 DEF StopRest, Killed
  <2>2. \A i \in Inst : stage'[i] \notin Starting \cup Ready \cup Stopping
    BY <2>1
  <2>3. QED BY <2>2
<1>9. CASE UNCHANGED lifecycleVars
  BY <1>9 DEF lifecycleVars
<1>10. QED
  BY <1>1, <1>2, <1>3, <1>4, <1>5, <1>6, <1>7, <1>8, <1>9 DEF LifecycleNext, ScriptStep

LEMMA PatientKept ==
  ASSUME LifecycleTypeOK, [LifecycleNext]_lifecycleVars
  PROVE  patient' = patient
<1> USE DEF scriptVars, Run
<1>1. ASSUME NEW i \in Inst, InstanceStep(i) \/ EnterWindow(i) \/ Crash(i)
      PROVE  patient' = patient
  BY <1>1, InstanceStepEffect
<1>2. CASE ScriptStep
  BY <1>2 DEF ScriptStep, DoStart, StartReturns, DoStop, StopKills, StopRest, DoForce
<1>3. CASE UNCHANGED lifecycleVars
  BY <1>3 DEF lifecycleVars
<1>4. QED BY <1>1, <1>2, <1>3 DEF LifecycleNext

THEOREM LifecycleInvariant == LifecycleSpec => []LifecycleInv
<1>1. LifecycleInit => LifecycleInv
  <2> SUFFICES ASSUME LifecycleInit PROVE LifecycleInv
    OBVIOUS
  <2>1. LifecycleTypeOK
    BY DEF LifecycleInit, LifecycleTypeOK, Stage, StopCommands, StopDone
  <2>2. \A i \in Inst : stage[i] = "unborn" /\ ~daemon_exit[i]
    BY DEF LifecycleInit
  <2>3. NoneAfterStop /\ ExitIsStop
    BY <2>2 DEF LifecycleInit, NoneAfterStop, StopDone, ExitIsStop, Stopping
  <2>4. OneAlive /\ HasPidFile /\ HasFifo /\ LoopIsOpen
    BY <2>2 DEF OneAlive, HasPidFile, HasFifo, LoopIsOpen, Alive, Starting,
                DefaultSignals, Ready, Loop, Window, Stopping
  <2>5. QED BY <2>1, <2>3, <2>4 DEF LifecycleInv
<1>2. LifecycleInv /\ [LifecycleNext]_lifecycleVars => LifecycleInv'
  <2> SUFFICES ASSUME LifecycleInv, [LifecycleNext]_lifecycleVars PROVE LifecycleInv'
    OBVIOUS
  <2>1. LifecycleTypeOK'
    BY LifecycleTypeStep DEF LifecycleInv
  <2>2. NoneAfterStop' /\ ExitIsStop'
    BY StopStep DEF LifecycleInv
  <2>3. patient' => OneAlive' /\ HasPidFile' /\ HasFifo' /\ LoopIsOpen'
    BY PatientStep, PatientKept DEF LifecycleInv
  <2>4. QED BY <2>1, <2>2, <2>3 DEF LifecycleInv
<1>3. QED
  BY <1>1, <1>2, PTL DEF LifecycleSpec

(***************************************************************************)
(* daemon.c:97, "Check if another instance of the daemon is already        *)
(* running": with an administrator who waits, no two are in their loops.   *)
(***************************************************************************)
THEOREM LifecycleSingleInstance == LifecycleSpec => []SingleInstance
<1>1. LifecycleInv => SingleInstance
  BY DEF LifecycleInv, OneAlive, Alive, SingleInstance
<1>2. QED BY LifecycleInvariant, <1>1, PTL

(***************************************************************************)
(* PID_FILE names the daemon that runs and FIFO_PATH leads to the FIFO it  *)
(* reads, for any number of crashes and failed starts before it.           *)
(***************************************************************************)
THEOREM LifecycleReachable == LifecycleSpec => []DaemonIsReachable
<1>1. LifecycleInv => DaemonIsReachable
  BY DEF LifecycleInv, HasPidFile, HasFifo, DaemonIsReachable
<1>2. QED BY LifecycleInvariant, <1>1, PTL

(***************************************************************************)
(* The permissions that daemon_init() sets make up for a crash inside a    *)
(* window: a daemon in its loop has open directories, unless a chmod() of  *)
(* its own has failed.                                                     *)
(***************************************************************************)
THEOREM LifecycleRestartOpens == LifecycleSpec => []RestartOpensDirectories
<1>1. LifecycleInv => RestartOpensDirectories
  BY DEF LifecycleInv, LoopIsOpen, RestartOpensDirectories
<1>2. QED BY LifecycleInvariant, <1>1, PTL
================================================================================
