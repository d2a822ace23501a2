---------------------------- MODULE LogRotationProofs ----------------------------
(***************************************************************************)
(* Proofs about LogRotation, for every number of processes and backups and *)
(* every choice of faults and bounds.                                      *)
(***************************************************************************)
EXTENDS LogRotation, SequenceTheorems, TLAPS

\* The stack after a push, and after a pop that leaves something.
LEMMA StackTypes ==
  ASSUME NEW s \in Seq({1, 2})
  PROVE  /\ <<1>> \o s \in Seq({1, 2}) /\ <<1>> \o s # <<>>
         /\ s # <<>> => /\ <<2>> \o Tail(s) \in Seq({1, 2}) /\ <<2>> \o Tail(s) # <<>>
                        /\ Tail(s) \in Seq({1, 2})
                        /\ Len(s) # 1 => Tail(s) # <<>>
<1>1. <<1>> \in Seq({1, 2}) /\ <<2>> \in Seq({1, 2}) /\ Len(<<1>>) = 1 /\ Len(<<2>>) = 1
  OBVIOUS
<1>2. ASSUME NEW a \in Seq({1, 2}), NEW b \in Seq({1, 2}), Len(a) = 1
      PROVE  a \o b \in Seq({1, 2}) /\ a \o b # <<>>
  <2>1. a \o b \in Seq({1, 2}) /\ Len(a \o b) = Len(a) + Len(b) /\ Len(b) \in Nat
    BY ConcatProperties, LenProperties
  <2>2. QED
    BY <1>2, <2>1, EmptySeq
<1>3. ASSUME s # <<>>
      PROVE  Tail(s) \in Seq({1, 2}) /\ (Len(s) # 1 => Tail(s) # <<>>)
  <2>1. Tail(s) \in Seq({1, 2}) /\ Len(Tail(s)) = Len(s) - 1 /\ Len(s) \in Nat
    BY <1>3, HeadTailProperties, LenProperties
  <2>2. QED
    BY <2>1, EmptySeq
<1>4. QED
  BY <1>1, <1>2, <1>3

\* A rename to the next higher number keeps the order.
LEMMA MovedInOrder ==
  ASSUME LogInv, NEW s \in Slot, s + 1 \in Slot, slot[s] # Absent,
         slot' = Moved(slot, s, s + 1), newest' = newest
  PROVE  slot' \in [Slot -> Nat] /\ RotatedInOrder' /\ \A k \in Slot : slot'[k] <= newest'
<1> USE DEF Slot, Absent
<1>1. slot \in [Slot -> Nat] /\ newest \in Nat /\ MAX_LOG_BACKUPS \in Nat
  BY LogAssumption DEF LogInv, LogTypeOK
<1>2. \A k \in Slot : slot'[k] = IF k = s THEN 0 ELSE IF k = s + 1 THEN slot[s] ELSE slot[k]
  BY <1>1 DEF Moved
<1>3. slot' \in [Slot -> Nat]
  BY <1>1 DEF Moved
<1>4. \A k \in Slot : slot'[k] <= newest'
  BY <1>1, <1>2 DEF LogInv
<1>5. RotatedInOrder'
  <2> SUFFICES ASSUME NEW k \in Slot, NEW l \in Slot, k < l, slot'[k] # 0, slot'[l] # 0
               PROVE  slot'[k] > slot'[l]
    BY DEF RotatedInOrder
  <2>1. \A x, y \in Slot : x < y /\ slot[x] # 0 /\ slot[y] # 0 => slot[x] > slot[y]
    BY DEF LogInv, RotatedInOrder
  <2>2. CASE l = s + 1
    BY <1>1, <1>2, <2>1, <2>2
  <2>3. CASE l # s + 1 /\ k = s + 1
    BY <1>1, <1>2, <2>1, <2>3
  <2>4. CASE l # s + 1 /\ k # s + 1
    BY <1>1, <1>2, <2>1, <2>4
  <2>5. QED
    BY <2>2, <2>3, <2>4
<1>6. QED
  BY <1>3, <1>4, <1>5

LEMMA CreatedInOrder ==
  ASSUME LogInv, Created
  PROVE  /\ slot' \in [Slot -> Nat] /\ newest' \in Nat
         /\ RotatedInOrder' /\ \A k \in Slot : slot'[k] <= newest'
<1> USE DEF Slot, Absent
<1>1. slot \in [Slot -> Nat] /\ newest \in Nat /\ 0 \in Slot
  BY LogAssumption DEF LogInv, LogTypeOK
<1>2. CASE slot[0] # 0
  BY <1>1, <1>2 DEF Created, LogInv, RotatedInOrder
<1>3. CASE slot[0] = 0
  <2>1. /\ newest' = newest + 1 /\ slot' \in [Slot -> Nat]
        /\ \A k \in Slot : slot'[k] = IF k = 0 THEN newest + 1 ELSE slot[k]
    BY <1>1, <1>3 DEF Created
  <2>2. \A k \in Slot : slot'[k] <= newest'
    BY <1>1, <2>1 DEF LogInv
  <2>3. RotatedInOrder'
    BY <1>1, <2>1 DEF LogInv, RotatedInOrder
  <2>4. QED
    BY <1>1, <2>1, <2>2, <2>3
<1>4. QED
  BY <1>2, <1>3

\* What the files contribute to LogInv.
FilesOK == /\ slot \in [Slot -> Nat] /\ full \in BOOLEAN /\ newest \in Nat
           /\ RotatedInOrder /\ \A k \in Slot : slot[k] <= newest

\* What the processes contribute, besides the number of the loop.
CallsOK == /\ pc \in [Proc -> LogPc] /\ stack \in [Proc -> Seq({1, 2})]
           /\ \A p \in Proc : pc[p] # "idle" => stack[p] # <<>>

\* The ways in which a log call goes on leave a stack for it.
LEMMA CallsStep ==
  ASSUME CallsOK, NEW p \in Proc, pc[p] # "idle",
         \/ AfterCheck(p, stack[p]) \/ ReturnFromLog(p) \/ NestedLogError(p)
  PROVE  CallsOK' /\ \A q \in Proc : pc'[q] = "shift" => pc[q] = "shift" /\ q # p
<1>0. stack[p] \in Seq({1, 2}) /\ stack[p] # <<>>
  BY DEF CallsOK
<1>1. ASSUME NEW s \in Seq({1, 2}), s # <<>>, AfterCheck(p, s)
      PROVE  CallsOK' /\ \A q \in Proc : pc'[q] = "shift" => pc[q] = "shift" /\ q # p
  <2>1. <<2>> \o Tail(s) \in Seq({1, 2}) /\ <<2>> \o Tail(s) # <<>>
    BY <1>1, StackTypes
  <2> DEFINE again == <<2>> \o Tail(s)
  <2> HIDE DEF again
  <2>2. \/ pc' = [pc EXCEPT ![p] = "stat"] /\ stack' = [stack EXCEPT ![p] = again]
        \/ pc' = [pc EXCEPT ![p] = "append"] /\ stack' = [stack EXCEPT ![p] = s]
    BY <1>1 DEF AfterCheck, Goto, again
  <2>3. QED
    BY <1>1, <2>1, <2>2 DEF CallsOK, LogPc, again
<1>2. CASE NestedLogError(p)
  <2> DEFINE deeper == <<1>> \o stack[p]
  <2>1. deeper \in Seq({1, 2}) /\ deeper # <<>>
    BY <1>0, StackTypes
  <2> HIDE DEF deeper
  <2>2. \/ pc' = [pc EXCEPT ![p] = "stat"] /\ stack' = [stack EXCEPT ![p] = deeper]
        \/ pc' = [pc EXCEPT ![p] = "crashed"] /\ stack' = stack
    BY <1>2 DEF NestedLogError, Goto, deeper
  <2>3. QED
    BY <1>0, <2>1, <2>2 DEF CallsOK, LogPc
<1>3. CASE ReturnFromLog(p) /\ Len(stack[p]) = 1
  <2>1. <<>> \in Seq({1, 2})
    BY EmptySeq
  <2>2. QED
    BY <1>3, <2>1 DEF ReturnFromLog, CallsOK, Goto, LogPc
<1>4. CASE ReturnFromLog(p) /\ Len(stack[p]) # 1
  BY <1>0, <1>1, <1>4, StackTypes DEF ReturnFromLog
<1>5. QED
  BY <1>0, <1>1, <1>2, <1>3, <1>4

\* A failure that nobody notices is counted.
LEMMA FailureCounted ==
  ASSUME failures_left \in 0..MaxFailures, disturbed \in BOOLEAN,
         UNCHANGED <<failures_left, disturbed>> \/ \E s \in Slot : FailsUnnoticed(s)
  PROVE  failures_left' \in 0..MaxFailures /\ disturbed' \in BOOLEAN
<1>1. failures_left' = failures_left \/ (failures_left > 0 /\ failures_left' = failures_left - 1)
  BY DEF FailsUnnoticed
<1>2. failures_left' \in 0..MaxFailures
  BY <1>1, LogAssumption
<1>3. disturbed' = disturbed \/ disturbed' = TRUE
  BY DEF FailsUnnoticed
<1>4. QED
  BY <1>2, <1>3

\* A step changes the files as one of the lemmas above says, and moves one
\* process only.
LEMMA LogInvStep ==
  ASSUME LogInv, LogNext
  PROVE  LogInv'
<1> DEFINE LoopOK == \A p \in Proc : pc[p] = "shift" => i[p] \in 1..(MAX_LOG_BACKUPS - 1)
           RestOK == /\ i \in [Proc -> 0..MAX_LOG_BACKUPS] /\ fd \in [Proc -> Nat]
                     /\ failures_left \in 0..MaxFailures
                     /\ calls_left \in 0..MaxCalls /\ fills_left \in 0..MaxFills
                     /\ disturbed \in BOOLEAN
<1>1. LogInv <=> FilesOK /\ CallsOK /\ RestOK /\ LoopOK
  BY DEF LogInv, LogTypeOK, FilesOK, CallsOK
<1>2. (FilesOK /\ CallsOK /\ RestOK /\ LoopOK)' => LogInv'
  BY DEF LogInv, LogTypeOK, FilesOK, CallsOK
<1> USE LogAssumption
<1>3. UNCHANGED fileVars => FilesOK'
  BY <1>1 DEF fileVars, FilesOK, RotatedInOrder
<1>4. PICK p \in Proc : LogOperation(p) \/ LogError(p) \/ LogStep(p)
  BY DEF LogNext
<1>5. CASE LogOperation(p) \/ LogError(p)
  <2>1. <<1>> \in Seq({1, 2}) /\ <<1>> # <<>> /\ <<2>> \in Seq({1, 2}) /\ <<2>> # <<>>
    OBVIOUS
  <2>2. CallsOK' /\ LoopOK'
    <3>1. \/ /\ pc' = [pc EXCEPT ![p] = "append"] /\ stack' = [stack EXCEPT ![p] = <<2>>]
          \/ /\ pc' = [pc EXCEPT ![p] = "stat"] /\ stack' = [stack EXCEPT ![p] = <<1>>]
      BY <1>5 DEF LogOperation, LogError, At, Goto
    <3>2. CallsOK'
      BY <1>1, <2>1, <3>1 DEF CallsOK, LogPc
    <3>3. LoopOK'
      BY <1>1, <1>5, <3>1 DEF CallsOK, LogOperation, LogError
    <3>4. QED
      BY <3>2, <3>3
  <2>3. FilesOK' /\ RestOK'
    BY <1>1, <1>3, <1>5 DEF LogOperation, LogError
  <2>4. QED
    BY <1>2, <2>2, <2>3
<1>6. CASE Stat(p)
  <2>1. FilesOK' /\ RestOK'
    BY <1>1, <1>3, <1>6 DEF Stat, boundVars
  <2>2. CallsOK' /\ LoopOK'
    <3>1. CASE AfterCheck(p, stack[p])
      BY <1>1, <1>6, <3>1, CallsStep DEF Stat
    <3>2. CASE Goto(p, "unlink") /\ UNCHANGED stack
      BY <1>1, <1>6, <3>2 DEF Stat, CallsOK, Goto, LogPc, RotatingPc
    <3>3. QED
      BY <1>6, <3>1, <3>2 DEF Stat
  <2>3. QED
    BY <1>2, <2>1, <2>2
<1>7. CASE UnlinkOldest(p)
  <2>0. MAX_LOG_BACKUPS \in Slot
    BY DEF Slot
  <2>1. FilesOK'
    <3>1. CASE slot' = slot
      BY <1>1, <1>7, <3>1 DEF UnlinkOldest, FilesOK, RotatedInOrder
    <3>2. CASE slot' = [slot EXCEPT ![MAX_LOG_BACKUPS] = Absent]
      BY <1>1, <1>7, <3>2 DEF UnlinkOldest, FilesOK, RotatedInOrder, Slot, Absent
    <3>3. QED
      BY <1>7, <3>1, <3>2 DEF UnlinkOldest, FailsUnnoticed
  <2>2. CallsOK' /\ LoopOK'
    BY <1>1, <1>7 DEF UnlinkOldest, CallsOK, At, Goto, LogPc, RotatingPc
  <2>3. failures_left' \in 0..MaxFailures /\ disturbed' \in BOOLEAN
    BY <1>1, <1>7, <2>0, FailureCounted DEF UnlinkOldest
  <2>4. RestOK'
    BY <1>1, <1>7, <2>3 DEF UnlinkOldest
  <2>5. QED
    BY <1>2, <2>1, <2>2, <2>4
<1>8. CASE Shift(p)
  <2>1. i[p] \in 1..(MAX_LOG_BACKUPS - 1)
    BY <1>1, <1>8 DEF Shift, At
  <2>2. FilesOK'
    <3>1. i[p] \in Slot /\ i[p] + 1 \in Slot
      BY <2>1 DEF Slot
    <3>2. CASE slot' = slot
      BY <1>1, <1>8, <3>2 DEF Shift, FilesOK, RotatedInOrder
    <3>3. CASE slot' # slot
      BY <1>1, <1>8, <3>1, <3>3, MovedInOrder DEF Shift, FailsUnnoticed, FilesOK
    <3>4. QED
      BY <3>2, <3>3
  <2>3. CallsOK' /\ LoopOK'
    BY <1>1, <1>8, <2>1 DEF Shift, CallsOK, At, Goto, LogPc, RotatingPc
  <2>4. failures_left' \in 0..MaxFailures /\ disturbed' \in BOOLEAN
    <3>1. i[p] \in Slot
      BY <2>1 DEF Slot
    <3>2. QED
      BY <1>1, <1>8, <3>1, FailureCounted DEF Shift
  <2>5. RestOK'
    BY <1>1, <1>8, <2>1, <2>4 DEF Shift
  <2>6. QED
    BY <1>2, <2>2, <2>3, <2>5
<1>9. CASE Rotate(p)
  <2>1. CASE slot' = Moved(slot, 0, 1) /\ slot[0] # Absent /\ full' = FALSE
             /\ Goto(p, "create") /\ UNCHANGED <<stack, failures_left, disturbed>>
    <3>0. 0 \in Slot /\ 0 + 1 \in Slot /\ Moved(slot, 0, 0 + 1) = Moved(slot, 0, 1)
      BY DEF Slot
    <3>1. FilesOK'
      BY <1>1, <1>9, <2>1, <3>0, MovedInOrder DEF Rotate, FilesOK
    <3>2. CallsOK' /\ LoopOK' /\ RestOK'
      BY <1>1, <1>9, <2>1 DEF Rotate, CallsOK, Goto, LogPc, RotatingPc
    <3>3. QED
      BY <1>2, <3>1, <3>2
  <2>2. CASE NestedLogError(p) /\ disturbed' = TRUE /\ UNCHANGED <<slot, full>>
    <3>1. FilesOK' /\ RestOK'
      <4>1. FilesOK'
        BY <1>3, <1>9, <2>2 DEF Rotate, fileVars
      <4>2. failures_left' \in 0..MaxFailures
        <5>1. failures_left \in 0..MaxFailures
          BY <1>1
        <5>2. \/ failures_left' = failures_left
              \/ failures_left > 0 /\ failures_left' = failures_left - 1
          BY <1>9 DEF Rotate
        <5>3. QED
          BY <5>1, <5>2
      <4>3. QED
        BY <1>1, <1>9, <2>2, <4>1, <4>2 DEF Rotate
    <3>2. CallsOK' /\ LoopOK'
      BY <1>1, <1>9, <2>2, CallsStep DEF Rotate
    <3>3. QED
      BY <1>2, <3>1, <3>2
  <2>3. QED
    BY <1>9, <2>1, <2>2 DEF Rotate
<1>10. CASE Create(p)
  <2>1. FilesOK' /\ RestOK'
    BY <1>1, <1>3, <1>10, CreatedInOrder DEF Create, FilesOK, boundVars
  <2>2. CallsOK' /\ LoopOK'
    BY <1>1, <1>10, CallsStep DEF Create
  <2>3. QED
    BY <1>2, <2>1, <2>2
<1>11. CASE OpenAppend(p)
  <2>1. FilesOK' /\ RestOK'
    <3>1. 0 \in Slot
      BY DEF Slot
    <3>2. CASE Created /\ UNCHANGED full /\ fd' = [fd EXCEPT ![p] = slot'[0]]
      BY <1>1, <1>11, <3>1, <3>2, CreatedInOrder DEF OpenAppend, FilesOK, boundVars
    <3>3. CASE UNCHANGED <<fileVars, fd>>
      BY <1>1, <1>3, <1>11, <3>3 DEF OpenAppend, boundVars
    <3>4. QED
      BY <1>11, <3>2, <3>3 DEF OpenAppend
  <2>2. CallsOK' /\ LoopOK'
    <3>1. CASE ReturnFromLog(p)
      BY <1>1, <1>11, <3>1, CallsStep DEF OpenAppend
    <3>2. CASE Goto(p, "write") /\ UNCHANGED stack
      BY <1>1, <1>11, <3>2 DEF OpenAppend, CallsOK, Goto, LogPc
    <3>3. QED
      BY <1>11, <3>1, <3>2 DEF OpenAppend
  <2>3. QED
    BY <1>2, <2>1, <2>2
<1>12. CASE WriteEntry(p)
  <2>1. FilesOK' /\ RestOK'
    <3>1. FilesOK'
      BY <1>1, <1>12 DEF WriteEntry, FilesOK, RotatedInOrder
    <3>2. fills_left' \in 0..MaxFills
      BY <1>1, <1>12 DEF WriteEntry
    <3>3. QED
      BY <1>1, <1>12, <3>1, <3>2 DEF WriteEntry, Absent
  <2>2. CallsOK' /\ LoopOK'
    BY <1>1, <1>12, CallsStep DEF WriteEntry
  <2>3. QED
    BY <1>2, <2>1, <2>2
<1>13. QED
  BY <1>4, <1>5, <1>6, <1>7, <1>8, <1>9, <1>10, <1>11, <1>12 DEF LogStep

THEOREM LogInvariant == LogSpec => []LogInv
<1>1. LogInit => LogInv
  <2> SUFFICES ASSUME LogInit PROVE LogInv
    OBVIOUS
  <2> USE LogAssumption DEF LogInit, Slot, Absent
  <2>1. PICK k \in 0..MAX_LOG_BACKUPS : \E log \in {Absent, k + 1} :
          /\ slot = [s \in Slot |-> IF s = 0 THEN log ELSE IF s <= k THEN k + 1 - s ELSE Absent]
          /\ newest = k + 1 /\ full \in {FALSE, log # Absent}
    OBVIOUS
  <2>2. slot \in [Slot -> Nat] /\ newest \in Nat /\ full \in BOOLEAN
    BY <2>1
  <2>3. RotatedInOrder /\ \A x \in Slot : slot[x] <= newest
    BY <2>1 DEF RotatedInOrder
  <2>4. stack \in [Proc -> Seq({1, 2})]
    BY EmptySeq
  <2>5. /\ pc \in [Proc -> LogPc] /\ i \in [Proc -> 0..MAX_LOG_BACKUPS]
        /\ fd \in [Proc -> Nat] /\ disturbed \in BOOLEAN
        /\ \A p \in Proc : pc[p] = "idle"
    <3>1. pc \in [Proc -> LogPc] /\ \A p \in Proc : pc[p] = "idle"
      BY DEF LogPc
    <3>2. i \in [Proc -> 0..MAX_LOG_BACKUPS]
      OBVIOUS
    <3>3. fd \in [Proc -> Nat] /\ disturbed \in BOOLEAN
      OBVIOUS
    <3>4. QED
      BY <3>1, <3>2, <3>3
  <2>6. /\ failures_left \in 0..MaxFailures /\ calls_left \in 0..MaxCalls
        /\ fills_left \in 0..MaxFills
    OBVIOUS
  <2>7. LogTypeOK
    BY <2>2, <2>4, <2>5, <2>6 DEF LogTypeOK
  <2>8. \A p \in Proc : pc[p] # "shift" /\ pc[p] = "idle"
    BY <2>5
  <2>9. QED
    BY <2>3, <2>7, <2>8 DEF LogInv
<1>2. LogInv /\ UNCHANGED logVars => LogInv'
  BY DEF LogInv, LogTypeOK, RotatedInOrder, logVars, fileVars, boundVars
<1>3. QED
  BY <1>1, <1>2, LogInvStep, PTL DEF LogSpec

(***************************************************************************)
(* The backups' numbers follow the age of the logs, however many processes *)
(* rotate at once, whatever fails, and however many backups are kept.      *)
(***************************************************************************)
THEOREM LogRotatedInOrder == LogSpec => []RotatedInOrder
<1>1. LogInv => RotatedInOrder
  BY DEF LogInv
<1>2. QED
  BY LogInvariant, <1>1, PTL
--------------------------------------------------------------------------------
\* Where the gap is while a process shifts: among the backups.
LEMMA GapInSlot ==
  ASSUME LogInv, GapMoves, NEW q \in Proc, Shifting(q)
  PROVE  i[q] \in Nat /\ i[q] + 1 \in Slot \ {0}
<1>1. i[q] \in 0..MAX_LOG_BACKUPS /\ MAX_LOG_BACKUPS \in Nat \ {0}
  BY LogAssumption DEF LogInv, LogTypeOK
<1>2. CASE pc[q] = "shift"
  BY <1>1, <1>2 DEF LogInv, Slot
<1>3. CASE pc[q] = "rotate"
  BY <1>1, <1>3 DEF GapMoves, Slot
<1>4. QED
  BY <1>2, <1>3 DEF Shifting

\* A process that shifts nothing, and goes where nothing is rotated, leaves the
\* gap where it is.
LEMMA QuietStep ==
  ASSUME LogInv, OneRotation, GapMoves, NEW p \in Proc, ~Shifting(p),
         NEW to \in LogPc \ RotatingPc, pc' = [pc EXCEPT ![p] = to], i' = i,
         \A k \in Slot \ {0} : slot'[k] = slot[k]
  PROVE  OneRotation' /\ GapMoves'
<1>1. \A q \in Proc : pc'[q] = IF q = p THEN to ELSE pc[q]
  BY DEF LogInv, LogTypeOK
<1>2. OneRotation'
  BY <1>1 DEF OneRotation
<1>3. \A q \in Proc : (Shifting(q)' <=> Shifting(q)) /\ (pc'[q] = "rotate" => pc[q] = "rotate")
  BY <1>1 DEF Shifting, RotatingPc
<1>4. \A gap : Contiguous(gap) => \A k, l \in Slot \ {0, gap} :
                k < l /\ slot'[l] # Absent => slot'[k] # Absent
  BY DEF Contiguous
<1>5. (\A q \in Proc : ~Shifting(q)') => Contiguous(0)'
  BY <1>3, <1>4 DEF GapMoves, Contiguous
<1>6. ASSUME NEW q \in Proc, Shifting(q)'
      PROVE  slot'[i'[q] + 1] = Absent /\ Contiguous(i[q] + 1)'
  <2>1. Shifting(q)
    BY <1>3, <1>6
  <2>2. slot[i[q] + 1] = Absent /\ Contiguous(i[q] + 1)
    BY <2>1 DEF GapMoves
  <2>3. i[q] + 1 \in Slot \ {0}
    BY <2>1, GapInSlot
  <2>4. Contiguous(i[q] + 1)'
    BY <1>4, <2>2 DEF Contiguous
  <2>5. QED
    BY <2>2, <2>3, <2>4
<1>7. \A q \in Proc : pc'[q] = "rotate" => i'[q] = 0
  BY <1>3 DEF GapMoves
<1>8. QED
  BY <1>2, <1>5, <1>6, <1>7 DEF GapMoves

\* However a log call goes on, it is not in the middle of a rotation.
LEMMA CallsGoOn ==
  ASSUME NEW p \in Proc,
         (\E s : AfterCheck(p, s)) \/ ReturnFromLog(p) \/ NestedLogError(p)
  PROVE  \E to \in LogPc \ RotatingPc : pc' = [pc EXCEPT ![p] = to]
<1>1. {"idle", "stat", "append", "crashed"} \subseteq LogPc \ RotatingPc
  BY DEF LogPc, RotatingPc
<1>2. ASSUME NEW s, AfterCheck(p, s)
      PROVE  pc' = [pc EXCEPT ![p] = "stat"] \/ pc' = [pc EXCEPT ![p] = "append"]
  BY <1>2 DEF AfterCheck, Goto
<1>3. CASE NestedLogError(p)
  BY <1>1, <1>3 DEF NestedLogError, Goto
<1>4. CASE ReturnFromLog(p)
  BY <1>1, <1>2, <1>4 DEF ReturnFromLog, Goto
<1>5. QED
  BY <1>1, <1>2, <1>3, <1>4

\* A rotation that is disturbed stays so.
LEMMA DisturbedStays == LogNext /\ disturbed => disturbed'
BY DEF LogNext, LogOperation, LogError, LogStep, Stat, UnlinkOldest, Shift, Rotate,
       Create, OpenAppend, WriteEntry, FailsUnnoticed

\* One rotation at a time, and its gap moves down to the first backup.
LEMMA KeepInvStep ==
  ASSUME LogInv, OneRotation, GapMoves, LogNext, ~disturbed'
  PROVE  OneRotation' /\ GapMoves'
<1> USE LogAssumption
<1>1. PICK p \in Proc : LogOperation(p) \/ LogError(p) \/ LogStep(p)
  BY DEF LogNext
<1>2. /\ slot \in [Slot -> Nat] /\ pc \in [Proc -> LogPc] /\ 0 \in Slot
      /\ i \in [Proc -> 0..MAX_LOG_BACKUPS] /\ MAX_LOG_BACKUPS \in Nat \ {0}
  BY DEF LogInv, LogTypeOK, Slot
<1>3. Created => \A k \in Slot \ {0} : slot'[k] = slot[k]
  BY <1>2 DEF Created
<1>4. CASE LogOperation(p) \/ LogError(p)
  <2>1. /\ pc' = [pc EXCEPT ![p] = "append"] \/ pc' = [pc EXCEPT ![p] = "stat"]
        /\ i' = i /\ slot' = slot /\ ~Shifting(p)
    BY <1>4 DEF LogOperation, LogError, At, Goto, fileVars, Shifting
  <2>2. {"append", "stat"} \subseteq LogPc \ RotatingPc
    BY DEF LogPc, RotatingPc
  <2>3. QED
    BY <2>1, <2>2, QuietStep
<1>5. CASE Stat(p)
  <2>1. i' = i /\ slot' = slot /\ ~Shifting(p)
    BY <1>5 DEF Stat, Shifting, fileVars
  <2>2. CASE AfterCheck(p, stack[p])
    <3>1. PICK to \in LogPc \ RotatingPc : pc' = [pc EXCEPT ![p] = to]
      BY <2>2, CallsGoOn
    <3>2. QED
      BY <2>1, <3>1, QuietStep
  <2>3. CASE Goto(p, "unlink") /\ disturbed' = (disturbed \/ \E q \in Proc : pc[q] \in RotatingPc)
    <3>1. \A q \in Proc : pc[q] \notin RotatingPc /\ ~Shifting(q)
      BY <2>3 DEF Shifting, RotatingPc
    <3>2. \A q \in Proc : pc'[q] = IF q = p THEN "unlink" ELSE pc[q]
      BY <1>2, <2>3 DEF Goto
    <3>3. \A q \in Proc : (pc'[q] \in RotatingPc => q = p) /\ ~Shifting(q)'
      BY <3>1, <3>2 DEF Shifting
    <3>4. Contiguous(0)'
      BY <2>1, <3>1 DEF GapMoves, Contiguous
    <3>5. QED
      BY <3>3, <3>4 DEF OneRotation, GapMoves, Shifting
  <2>4. QED
    BY <1>5, <2>2, <2>3 DEF Stat
<1>6. CASE UnlinkOldest(p)
  <2>1. /\ pc[p] = "unlink" /\ i' = [i EXCEPT ![p] = MAX_LOG_BACKUPS - 1]
        /\ slot' = [slot EXCEPT ![MAX_LOG_BACKUPS] = Absent]
        /\ pc' = [pc EXCEPT ![p] = IF MAX_LOG_BACKUPS > 1 THEN "shift" ELSE "rotate"]
    BY <1>6 DEF UnlinkOldest, FailsUnnoticed, At, Goto
  <2>2. \A q \in Proc : pc[q] \in RotatingPc => q = p
    BY <2>1 DEF OneRotation, RotatingPc
  <2>3. \A q \in Proc : q # p => pc'[q] = pc[q] /\ pc'[q] \notin RotatingPc
    BY <1>2, <2>1, <2>2
  <2>4. OneRotation' /\ \A q \in Proc : Shifting(q)' => q = p
    BY <2>3 DEF OneRotation, Shifting, RotatingPc
  <2>5. Contiguous(0)
    BY <2>1, <2>2 DEF GapMoves, Shifting, RotatingPc
  <2>6. MAX_LOG_BACKUPS \in Slot
    BY DEF Slot
  <2>7. i'[p] = MAX_LOG_BACKUPS - 1 /\ i'[p] + 1 = MAX_LOG_BACKUPS
    BY <1>2, <2>1
  <2>8. slot'[i'[p] + 1] = Absent /\ Contiguous(MAX_LOG_BACKUPS)'
    BY <1>2, <2>1, <2>5, <2>6, <2>7 DEF Contiguous
  <2>9. Shifting(p)' /\ (pc'[p] = "rotate" => i'[p] = 0)
    <3>1. CASE MAX_LOG_BACKUPS > 1
      BY <1>2, <2>1, <3>1 DEF Shifting
    <3>2. CASE MAX_LOG_BACKUPS = 1
      BY <1>2, <2>1, <2>7, <3>2 DEF Shifting
    <3>3. QED
      BY <3>1, <3>2
  <2>10. \A q \in Proc : pc'[q] = "rotate" => i'[q] = 0
    BY <2>4, <2>9 DEF Shifting
  <2>11. QED
    BY <2>4, <2>7, <2>8, <2>9, <2>10 DEF GapMoves
<1>7. CASE Shift(p)
  <2> DEFINE s == i[p]
  <2>1. /\ pc[p] = "shift" /\ i' = [i EXCEPT ![p] = s - 1]
        /\ slot' = IF slot[s] = Absent THEN slot ELSE Moved(slot, s, s + 1)
        /\ pc' = [pc EXCEPT ![p] = IF s > 1 THEN "shift" ELSE "rotate"]
    BY <1>7 DEF Shift, FailsUnnoticed, At, Goto
  <2>2. \A q \in Proc : pc[q] \in RotatingPc => q = p
    BY <2>1 DEF OneRotation, RotatingPc
  <2>3. \A q \in Proc : q # p => pc'[q] = pc[q] /\ pc'[q] \notin RotatingPc
    BY <1>2, <2>1, <2>2
  <2>4. OneRotation' /\ \A q \in Proc : Shifting(q)' => q = p
    BY <2>3 DEF OneRotation, Shifting, RotatingPc
  <2>5. s \in 1..(MAX_LOG_BACKUPS - 1) /\ s \in Slot \ {0} /\ s + 1 \in Slot \ {0}
    BY <1>2, <2>1 DEF LogInv, Slot
  <2>6. slot[s + 1] = Absent /\ Contiguous(s + 1)
    BY <2>1 DEF GapMoves, Shifting
  <2>7. i'[p] = s - 1 /\ i'[p] + 1 = s
    BY <1>2, <2>1, <2>5
  <2>8. /\ slot'[s] = Absent
        /\ \A k, l \in Slot \ {0, s} : k < l /\ slot'[l] # Absent => slot'[k] # Absent
    <3> HIDE DEF s
    <3>1. \A k, l \in Slot \ {0, s + 1} : k < l /\ slot[l] # 0 => slot[k] # 0
      BY <2>6 DEF Contiguous, Absent
    <3>2. CASE slot[s] = 0
      <4>1. slot' = slot /\ slot[s + 1] = 0
        BY <2>1, <2>6, <3>2 DEF Absent
      <4>2. \A l \in Slot : l > s => slot[l] = 0
        BY <2>5, <3>1, <3>2, <4>1 DEF Slot
      <4>3. ASSUME NEW k \in Slot \ {0, s}, NEW l \in Slot \ {0, s}, k < l, slot[l] # 0
            PROVE  slot[k] # 0
        BY <2>5, <3>1, <4>2, <4>3 DEF Slot
      <4>4. QED
        BY <3>2, <4>1, <4>3 DEF Absent
    <3>3. CASE slot[s] # 0
      <4>1. \A k \in Slot : slot'[k] = IF k = s THEN 0 ELSE IF k = s + 1 THEN slot[s] ELSE slot[k]
        BY <1>2, <2>1, <2>5, <3>3 DEF Moved, Absent, Slot
      <4>2. ASSUME NEW k \in Slot \ {0, s}, NEW l \in Slot \ {0, s}, k < l, slot'[l] # 0
            PROVE  slot'[k] # 0
        BY <2>5, <3>1, <3>3, <4>1, <4>2 DEF Slot
      <4>3. QED
        BY <2>5, <4>1, <4>2 DEF Absent
    <3>4. QED
      BY <3>2, <3>3
  <2>9. Shifting(p)' /\ (pc'[p] = "rotate" => i'[p] = 0)
    <3>1. CASE s > 1
      BY <1>2, <2>1, <3>1 DEF Shifting
    <3>2. CASE s = 1
      BY <1>2, <2>1, <2>7, <3>2 DEF Shifting
    <3>3. QED
      BY <2>5, <3>1, <3>2
  <2>10. \A q \in Proc : pc'[q] = "rotate" => i'[q] = 0
    BY <2>4, <2>9 DEF Shifting
  <2>11. slot'[i'[p] + 1] = Absent /\ Contiguous(i[p] + 1)'
    BY <2>7, <2>8 DEF Contiguous
  <2>12. QED
    BY <2>4, <2>9, <2>10, <2>11 DEF GapMoves
<1>8. CASE Rotate(p)
  <2>1. /\ pc[p] = "rotate" /\ slot' = Moved(slot, 0, 1) /\ slot[0] # Absent
        /\ pc' = [pc EXCEPT ![p] = "create"]
    BY <1>8 DEF Rotate, Goto
  <2>2. \A q \in Proc : pc[q] \in RotatingPc => q = p
    BY <2>1 DEF OneRotation, RotatingPc
  <2>3. \A q \in Proc : pc'[q] = IF q = p THEN "create" ELSE pc[q]
    BY <1>2, <2>1
  <2>4. OneRotation' /\ \A q \in Proc : ~Shifting(q)'
    BY <2>2, <2>3 DEF OneRotation, Shifting, RotatingPc
  <2>5. i[p] = 0 /\ Contiguous(i[p] + 1)
    BY <2>1 DEF GapMoves, Shifting
  <2>6. \A k, l \in Slot \ {0, 1} : k < l /\ slot[l] # 0 => slot[k] # 0
    BY <2>5 DEF Contiguous, Absent
  <2>7. slot[0] # 0 /\ \A k \in Slot \ {0} : slot'[k] = IF k = 1 THEN slot[0] ELSE slot[k]
    BY <1>2, <2>1 DEF Moved, Absent, Slot
  <2>8. Contiguous(0)'
    <3>1. ASSUME NEW k \in Slot \ {0}, NEW l \in Slot \ {0}, k < l, slot'[l] # 0
          PROVE  slot'[k] # 0
      BY <2>6, <2>7, <3>1 DEF Slot
    <3>2. QED
      BY <3>1 DEF Contiguous, Absent
  <2>9. QED
    BY <2>4, <2>8 DEF GapMoves, Shifting
<1>9. CASE Create(p)
  <2>1. /\ i' = i /\ ~Shifting(p)
        /\ \A k \in Slot \ {0} : slot'[k] = slot[k]
    BY <1>3, <1>9 DEF Create, Shifting, fileVars
  <2>2. PICK to \in LogPc \ RotatingPc : pc' = [pc EXCEPT ![p] = to]
    BY <1>9, CallsGoOn DEF Create
  <2>3. QED
    BY <2>1, <2>2, QuietStep
<1>10. CASE OpenAppend(p)
  <2>1. /\ i' = i /\ ~Shifting(p)
        /\ \A k \in Slot \ {0} : slot'[k] = slot[k]
    BY <1>3, <1>10 DEF OpenAppend, Shifting, fileVars
  <2>2. PICK to \in LogPc \ RotatingPc : pc' = [pc EXCEPT ![p] = to]
    BY <1>10, CallsGoOn DEF OpenAppend, Goto, LogPc, RotatingPc
  <2>3. QED
    BY <2>1, <2>2, QuietStep
<1>11. CASE WriteEntry(p)
  <2>1. i' = i /\ ~Shifting(p) /\ slot' = slot
    BY <1>11 DEF WriteEntry, Shifting
  <2>2. PICK to \in LogPc \ RotatingPc : pc' = [pc EXCEPT ![p] = to]
    BY <1>11, CallsGoOn DEF WriteEntry
  <2>3. QED
    BY <2>1, <2>2, QuietStep
<1>12. QED
  BY <1>1, <1>4, <1>5, <1>6, <1>7, <1>8, <1>9, <1>10, <1>11 DEF LogStep

THEOREM LogKeepInvariant == LogSpec => []KeepInv
<1>1. LogInit => OneRotation /\ GapMoves
  <2> SUFFICES ASSUME LogInit PROVE OneRotation /\ GapMoves
    OBVIOUS
  <2>1. \A p \in Proc : pc[p] \notin RotatingPc /\ ~Shifting(p) /\ pc[p] # "rotate"
    BY DEF LogInit, Shifting, RotatingPc
  <2>2. PICK k \in 0..MAX_LOG_BACKUPS : \E log \in {Absent, k + 1} :
          slot = [s \in Slot |-> IF s = 0 THEN log ELSE IF s <= k THEN k + 1 - s ELSE Absent]
    BY DEF LogInit
  <2>3. Contiguous(0)
    BY <2>2, LogAssumption DEF Contiguous, Slot, Absent
  <2>4. QED
    BY <2>1, <2>3 DEF OneRotation, GapMoves
<1>2. LogInv /\ LogInv' /\ KeepInv /\ [LogNext]_logVars => KeepInv'
  <2> SUFFICES ASSUME LogInv, LogInv', KeepInv, [LogNext]_logVars, ~disturbed'
               PROVE  OneRotation' /\ GapMoves'
    BY DEF KeepInv
  <2>1. CASE LogNext
    <3>1. ~disturbed
      BY <2>1, DisturbedStays
    <3>2. QED
      BY <2>1, <3>1, KeepInvStep DEF KeepInv
  <2>2. CASE UNCHANGED logVars
    <3>1. OneRotation /\ GapMoves
      BY <2>2 DEF KeepInv, logVars
    <3>2. QED
      BY <2>2, <3>1 DEF OneRotation, GapMoves, Contiguous, Shifting, logVars, fileVars
  <2>3. QED
    BY <2>1, <2>2
<1>3. LogInv /\ OneRotation /\ GapMoves => KeepInv
  BY DEF KeepInv
<1>4. QED
  BY <1>1, <1>2, <1>3, LogInvariant, PTL DEF LogSpec

\* What a step takes from the backups.
LEMMA BackupsStep ==
  ASSUME LogInv, OneRotation, GapMoves, LogNext, ~disturbed',
         ~(Backups(slot) \subseteq Backups(slot'))
  PROVE  /\ \A k \in Slot \ {0} : slot[k] # Absent
         /\ Backups(slot) \ Backups(slot') = {slot[MAX_LOG_BACKUPS]}
<1> USE LogAssumption
<1>1. PICK p \in Proc : LogOperation(p) \/ LogError(p) \/ LogStep(p)
  BY DEF LogNext
<1>2. slot \in [Slot -> Nat] /\ 0 \in Slot /\ MAX_LOG_BACKUPS \in Slot \ {0}
  BY DEF LogInv, LogTypeOK, Slot
<1>3. ~\A k \in Slot \ {0} : slot'[k] = slot[k]
  BY DEF Backups
<1>4. CASE UnlinkOldest(p)
  <2>1. pc[p] = "unlink" /\ slot' = [slot EXCEPT ![MAX_LOG_BACKUPS] = Absent]
    BY <1>4 DEF UnlinkOldest, FailsUnnoticed, At
  <2>2. \A k \in Slot : slot'[k] = IF k = MAX_LOG_BACKUPS THEN 0 ELSE slot[k]
    BY <1>2, <2>1 DEF Absent
  <2>3. slot[MAX_LOG_BACKUPS] # 0
    BY <1>3, <2>2
  <2>4. \A q \in Proc : ~Shifting(q)
    BY <2>1 DEF OneRotation, Shifting, RotatingPc
  <2>5. \A k, l \in Slot \ {0} : k < l /\ slot[l] # 0 => slot[k] # 0
    BY <2>4 DEF GapMoves, Contiguous, Absent
  <2>6. \A k \in Slot \ {0} : slot[k] # 0
    <3>1. \A k \in Slot \ {0} : k = MAX_LOG_BACKUPS \/ k < MAX_LOG_BACKUPS
      BY DEF Slot
    <3>2. QED
      BY <1>2, <2>3, <2>5, <3>1
  <2>7. \A k \in Slot \ {0} : k # MAX_LOG_BACKUPS => slot[k] # slot[MAX_LOG_BACKUPS]
    <3>1. \A k, l \in Slot : k < l /\ slot[k] # 0 /\ slot[l] # 0 => slot[k] > slot[l]
      BY DEF LogInv, RotatedInOrder, Absent
    <3>2. \A k \in Slot : k # MAX_LOG_BACKUPS => k < MAX_LOG_BACKUPS
      BY DEF Slot
    <3>3. QED
      BY <1>2, <2>6, <3>1, <3>2
  <2>8. Backups(slot) = {slot[k] : k \in Slot \ {0}}
    BY <2>6 DEF Backups, Absent
  <2>9. Backups(slot') = {slot[k] : k \in Slot \ {0, MAX_LOG_BACKUPS}}
    <3>1. \A x : x \in Backups(slot') <=> x # 0 /\ \E k \in Slot \ {0} : x = slot'[k]
      BY DEF Backups, Absent
    <3>2. QED
      BY <2>2, <2>6, <3>1
  <2>10. QED
    BY <1>2, <2>6, <2>7, <2>8, <2>9 DEF Absent
<1>5. CASE Shift(p)
  <2> DEFINE s == i[p]
  <2>1. /\ pc[p] = "shift"
        /\ slot' = IF slot[s] = Absent THEN slot ELSE Moved(slot, s, s + 1)
    BY <1>5 DEF Shift, FailsUnnoticed, At
  <2>2. s \in Slot \ {0} /\ s + 1 \in Slot \ {0} /\ s # s + 1
    BY <2>1 DEF LogInv, Slot
  <2>3. slot[s + 1] = 0
    BY <2>1 DEF GapMoves, Shifting, Absent
  <2> HIDE DEF s
  <2>4. slot' = Moved(slot, s, s + 1)
    BY <1>3, <2>1
  <2>5. \A k \in Slot : slot'[k] = IF k = s THEN 0 ELSE IF k = s + 1 THEN slot[s] ELSE slot[k]
    BY <1>2, <2>2, <2>4 DEF Moved, Absent
  <2>6. Backups(slot) \subseteq Backups(slot')
    BY <2>2, <2>3, <2>5 DEF Backups, Absent
  <2>7. QED
    BY <2>6
<1>6. CASE Rotate(p)
  <2>1. pc[p] = "rotate" /\ slot' = Moved(slot, 0, 1)
    BY <1>6 DEF Rotate
  <2>2. 1 \in Slot \ {0} /\ slot[1] = 0
    BY <2>1 DEF GapMoves, Shifting, Absent, Slot
  <2>3. \A k \in Slot \ {0} : slot'[k] = IF k = 1 THEN slot[0] ELSE slot[k]
    BY <1>2, <2>1 DEF Moved
  <2>4. Backups(slot) \subseteq Backups(slot')
    BY <2>2, <2>3 DEF Backups, Absent
  <2>5. QED
    BY <2>4
<1>7. ASSUME \/ LogOperation(p) \/ LogError(p) \/ Stat(p) \/ Create(p)
             \/ OpenAppend(p) \/ WriteEntry(p)
      PROVE  FALSE
  <2>1. Created \/ slot' = slot
    BY <1>7 DEF LogOperation, LogError, Stat, Create, OpenAppend, WriteEntry, fileVars
  <2>2. \A k \in Slot \ {0} : slot'[k] = slot[k]
    BY <1>2, <2>1 DEF Created
  <2>3. QED
    BY <1>3, <2>2
<1>8. QED
  BY <1>1, <1>4, <1>5, <1>6, <1>7 DEF LogStep

(***************************************************************************)
(* As long as rotations neither overlap nor fail, the only backup that     *)
(* ever goes is the oldest one of MAX_LOG_BACKUPS, for every number of     *)
(* processes and of backups.                                               *)
(***************************************************************************)
THEOREM LogKeepsRotated == LogSpec => KeepsRotated
<1>1. ASSUME KeepInv, [LogNext]_logVars
      PROVE  [~disturbed' /\ ~(Backups(slot) \subseteq Backups(slot')) =>
                /\ \A k \in Slot \ {0} : slot[k] # Absent
                /\ Backups(slot) \ Backups(slot') = {slot[MAX_LOG_BACKUPS]}]_<<slot, disturbed>>
  <2>1. CASE UNCHANGED logVars
    BY <2>1 DEF logVars, fileVars
  <2>2. CASE LogNext /\ ~disturbed'
    <3>1. ~disturbed
      BY <2>2, DisturbedStays
    <3>2. QED
      BY <1>1, <2>2, <3>1, BackupsStep DEF KeepInv
  <2>3. QED
    BY <1>1, <2>1, <2>2
<1>2. QED
  BY <1>1, LogKeepInvariant, PTL DEF LogSpec, KeepsRotated
================================================================================
