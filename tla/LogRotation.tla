------------------------------- MODULE LogRotation -------------------------------
(***************************************************************************)
(* log_error(), log_operation() and check_and_rotate_log() (src/src/       *)
(* utils.c), one system call after the other.  The daemon and its children *)
(* write the same log: ERROR_LOG and OPERATION_LOG are one path (utils.h), *)
(* so every log_error() checks it twice.  Only the files' identities count *)
(* here: a log is the number of its creation, and all that is known of its *)
(* size is whether the current one has reached MAX_LOG_SIZE.               *)
(*                                                                         *)
(* A rotation that fails reports it with log_error(), which begins with a  *)
(* rotation.  The stack of a process holds, for each of its unfinished log *)
(* calls, innermost first, which of the two checks it is at.               *)
(***************************************************************************)
EXTENDS Naturals, Sequences

CONSTANTS
  Proc,               \* the daemon and its children
  MAX_LOG_BACKUPS,
  Faults,             \* the calls on the new log that may fail at any time
  MaxFailures,        \* how often unlink() or rename() fails: it does not last
  MaxCalls,           \* bound: log calls made, nested ones not counted
  MaxFills,           \* bound: how often a log reaches MAX_LOG_SIZE meanwhile
  MaxDepth            \* nested log calls that exhaust the stack

ASSUME LogAssumption == /\ MAX_LOG_BACKUPS \in Nat \ {0}
                        /\ Faults \subseteq {"create", "append"}
                        /\ MaxFailures \in Nat /\ MaxCalls \in Nat
                        /\ MaxFills \in Nat
                        /\ MaxDepth \in Nat \ {0}

VARIABLES
  slot,       \* slot[0] is the log, slot[k] its backup ".k"; 0: no such file
  full,       \* the log has reached MAX_LOG_SIZE
  newest,     \* the number of the log created last
  pc, stack,  \* of each process: the next system call, and the calls it is in
  i,          \* the variable of the loop that shifts the backups
  fd,         \* the log that a process has open for appending
  failures_left, calls_left, fills_left,
  disturbed   \* history: two rotations overlapped, or a call of one failed

fileVars == <<slot, full, newest>>
boundVars == <<failures_left, calls_left, fills_left>>
logVars == <<fileVars, pc, stack, i, fd, boundVars, disturbed>>

Absent == 0
Slot == 0..MAX_LOG_BACKUPS
RotatingPc == {"unlink", "shift", "rotate", "create"}
LogPc == RotatingPc \cup {"idle", "stat", "append", "write", "crashed"}

\* k backups, the newest first, and perhaps a log: what earlier rotations,
\* none of them disturbed, have left.
LogInit ==
  /\ \E k \in 0..MAX_LOG_BACKUPS : \E log \in {Absent, k + 1} :
       /\ slot = [s \in Slot |-> IF s = 0 THEN log ELSE IF s <= k THEN k + 1 - s ELSE Absent]
       /\ newest = k + 1
       /\ full \in {FALSE, log # Absent}
  /\ pc = [p \in Proc |-> "idle"] /\ stack = [p \in Proc |-> <<>>]
  /\ i = [p \in Proc |-> MAX_LOG_BACKUPS] /\ fd = [p \in Proc |-> Absent]
  /\ failures_left = MaxFailures /\ calls_left = MaxCalls
  /\ fills_left = MaxFills
  /\ disturbed = FALSE

Goto(p, to) == pc' = [pc EXCEPT ![p] = to]
At(p, from, to) == pc[p] = from /\ Goto(p, to)

\* rename() of one file of the log to another.
Moved(s, from, to) == [s EXCEPT ![to] = s[from], ![from] = Absent]

\* A log call of p that is in the calls s goes on after a check.
AfterCheck(p, s) ==
  IF Head(s) = 1
    THEN Goto(p, "stat") /\ stack' = [stack EXCEPT ![p] = <<2>> \o Tail(s)]
    ELSE Goto(p, "append") /\ stack' = [stack EXCEPT ![p] = s]

\* The innermost log call of p returns: to its caller, or to the check that
\* reports its failure, and returns FAILURE in turn.
ReturnFromLog(p) ==
  IF Len(stack[p]) = 1
    THEN Goto(p, "idle") /\ stack' = [stack EXCEPT ![p] = <<>>]
    ELSE AfterCheck(p, Tail(stack[p]))

\* log_error() within a rotation.
NestedLogError(p) ==
  IF Len(stack[p]) < MaxDepth
    THEN Goto(p, "stat") /\ stack' = [stack EXCEPT ![p] = <<1>> \o stack[p]]
    ELSE Goto(p, "crashed") /\ UNCHANGED stack
--------------------------------------------------------------------------------
\* log_operation() does not look at the size: it is a call past both checks.
LogOperation(p) ==
  /\ At(p, "idle", "append") /\ calls_left > 0
  /\ stack' = [stack EXCEPT ![p] = <<2>>]
  /\ calls_left' = calls_left - 1
  /\ UNCHANGED <<fileVars, i, fd, failures_left, fills_left, disturbed>>

LogError(p) ==
  /\ At(p, "idle", "stat") /\ calls_left > 0
  /\ stack' = [stack EXCEPT ![p] = <<1>>]
  /\ calls_left' = calls_left - 1
  /\ UNCHANGED <<fileVars, i, fd, failures_left, fills_left, disturbed>>

\* stat(): no log, or one that is not full, needs no rotation.
Stat(p) ==
  /\ pc[p] = "stat"
  /\ IF slot[0] # Absent /\ full
       THEN /\ Goto(p, "unlink") /\ UNCHANGED stack
            /\ disturbed' = (disturbed \/ \E q \in Proc : pc[q] \in RotatingPc)
       ELSE AfterCheck(p, stack[p]) /\ UNCHANGED disturbed
  /\ UNCHANGED <<fileVars, i, fd, boundVars>>

\* unlink() or rename() of the backup in slot s fails, which nobody looks at.
FailsUnnoticed(s) ==
  /\ slot[s] # Absent /\ failures_left > 0
  /\ failures_left' = failures_left - 1
  /\ disturbed' = TRUE
  /\ UNCHANGED slot

\* "Delete the oldest backup if it exists".
UnlinkOldest(p) ==
  /\ At(p, "unlink", IF MAX_LOG_BACKUPS > 1 THEN "shift" ELSE "rotate")
  /\ i' = [i EXCEPT ![p] = MAX_LOG_BACKUPS - 1]
  /\ \/ /\ slot' = [slot EXCEPT ![MAX_LOG_BACKUPS] = Absent]
        /\ UNCHANGED <<failures_left, disturbed>>
     \/ FailsUnnoticed(MAX_LOG_BACKUPS)
  /\ UNCHANGED <<full, newest, stack, fd, calls_left, fills_left>>

\* Mutant: the loop counts upwards.
ShiftUpwards(p) ==
  LET s == MAX_LOG_BACKUPS - i[p]
  IN /\ At(p, "shift", IF i[p] > 1 THEN "shift" ELSE "rotate")
     /\ slot' = IF slot[s] = Absent THEN slot ELSE Moved(slot, s, s + 1)
     /\ i' = [i EXCEPT ![p] = @ - 1]
     /\ UNCHANGED <<full, newest, stack, fd, boundVars, disturbed>>

\* One turn of "Shift all backups": a backup that is absent is passed over.
Shift(p) ==
  LET s == i[p]
  IN /\ At(p, "shift", IF s > 1 THEN "shift" ELSE "rotate")
     /\ i' = [i EXCEPT ![p] = s - 1]
     /\ \/ /\ slot' = IF slot[s] = Absent THEN slot ELSE Moved(slot, s, s + 1)
           /\ UNCHANGED <<failures_left, disturbed>>
        \/ FailsUnnoticed(s)
     /\ UNCHANGED <<full, newest, stack, fd, calls_left, fills_left>>

\* Mutant: the log is renamed to the name of the oldest backup.
RotateToOldest(p) ==
  /\ slot[0] # Absent /\ At(p, "rotate", "create")
  /\ slot' = Moved(slot, 0, MAX_LOG_BACKUPS) /\ full' = FALSE
  /\ UNCHANGED <<newest, stack, i, fd, boundVars, disturbed>>

\* Mutant: a rename() that fails is tried again until it succeeds.
RotateRetries(p) ==
  /\ pc[p] = "rotate"
  /\ \/ /\ slot[0] # Absent
        /\ slot' = Moved(slot, 0, 1) /\ full' = FALSE
        /\ Goto(p, "create")
        /\ UNCHANGED <<failures_left, disturbed>>
     \/ /\ \/ slot[0] = Absent /\ UNCHANGED failures_left
           \/ slot[0] # Absent /\ failures_left > 0 /\ failures_left' = failures_left - 1
        /\ disturbed' = TRUE
        /\ UNCHANGED <<slot, full, pc>>
  /\ UNCHANGED <<newest, stack, i, fd, calls_left, fills_left>>

\* rename(log, log.1), which fails when another process was faster.
Rotate(p) ==
  /\ pc[p] = "rotate"
  /\ \/ /\ slot[0] # Absent
        /\ slot' = Moved(slot, 0, 1) /\ full' = FALSE
        /\ Goto(p, "create")
        /\ UNCHANGED <<stack, failures_left, disturbed>>
     \/ /\ \/ slot[0] = Absent /\ UNCHANGED failures_left
           \/ slot[0] # Absent /\ failures_left > 0 /\ failures_left' = failures_left - 1
        /\ NestedLogError(p)
        /\ disturbed' = TRUE
        /\ UNCHANGED <<slot, full>>
  /\ UNCHANGED <<newest, i, fd, calls_left, fills_left>>

\* fopen() creates the log where there is none.
Created == IF slot[0] = Absent
             THEN newest' = newest + 1 /\ slot' = [slot EXCEPT ![0] = newest']
             ELSE UNCHANGED <<newest, slot>>

\* "Touch empty log file": fopen(log, "w") empties a log that another process
\* has created since the rename.
Create(p) ==
  /\ pc[p] = "create"
  /\ \/ Created /\ full' = FALSE /\ AfterCheck(p, stack[p])
     \/ "create" \in Faults /\ NestedLogError(p) /\ UNCHANGED fileVars
  /\ UNCHANGED <<i, fd, boundVars, disturbed>>

\* fopen(log, "a"); a log that cannot be opened is passed over for syslog.
OpenAppend(p) ==
  /\ pc[p] = "append"
  /\ \/ /\ Created /\ UNCHANGED full
        /\ fd' = [fd EXCEPT ![p] = slot'[0]]
        /\ Goto(p, "write") /\ UNCHANGED stack
     \/ /\ "append" \in Faults
        /\ ReturnFromLog(p)
        /\ UNCHANGED <<fileVars, fd>>
  /\ UNCHANGED <<i, boundVars, disturbed>>

\* fclose() writes the entry to the log that was opened, wherever that is now.
WriteEntry(p) ==
  /\ pc[p] = "write"
  /\ \/ UNCHANGED <<full, fills_left>>
     \/ /\ fd[p] = slot[0] /\ ~full /\ fills_left > 0
        /\ full' = TRUE /\ fills_left' = fills_left - 1
  /\ fd' = [fd EXCEPT ![p] = Absent]
  /\ ReturnFromLog(p)
  /\ UNCHANGED <<slot, newest, i, failures_left, calls_left, disturbed>>

LogStep(p) == \/ Stat(p) \/ UnlinkOldest(p) \/ Shift(p) \/ Rotate(p) \/ Create(p)
              \/ OpenAppend(p) \/ WriteEntry(p)

LogNext == \E p \in Proc : LogOperation(p) \/ LogError(p) \/ LogStep(p)

\* A process inside a log call goes on.
LogSpec == /\ LogInit /\ [][LogNext]_logVars
           /\ \A p \in Proc : WF_logVars(LogStep(p))
--------------------------------------------------------------------------------
LogTypeOK ==
  /\ slot \in [Slot -> Nat] /\ full \in BOOLEAN /\ newest \in Nat
  /\ pc \in [Proc -> LogPc] /\ stack \in [Proc -> Seq({1, 2})]
  /\ i \in [Proc -> 0..MAX_LOG_BACKUPS] /\ fd \in [Proc -> Nat]
  /\ failures_left \in 0..MaxFailures /\ calls_left \in 0..MaxCalls
  /\ fills_left \in 0..MaxFills
  /\ disturbed \in BOOLEAN

(***************************************************************************)
(* The numbers of the backups follow the age of the logs, ".1" being the   *)
(* youngest (utils.c:161), although any number of processes shift them at  *)
(* the same time and any unlink() or rename() may fail.                    *)
(***************************************************************************)
RotatedInOrder ==
  \A k, l \in Slot : k < l /\ slot[k] # Absent /\ slot[l] # Absent => slot[k] > slot[l]

(***************************************************************************)
(* "Keep 5 rotated logs" (utils.h:19): a rotated log goes only when there  *)
(* are MAX_LOG_BACKUPS of them, and it is the oldest that goes.  Two       *)
(* rotations that overlap break this (the second renames the fresh log     *)
(* over the backup that the first has just made), and so does a call that  *)
(* fails: a backup that could not be shifted is overwritten by the next,   *)
(* and each new attempt after a failed rename() of the log drops another.  *)
(***************************************************************************)
Backups(s) == {s[k] : k \in Slot \ {0}} \ {Absent}

KeepsRotated ==
  [][~disturbed' /\ ~(Backups(slot) \subseteq Backups(slot')) =>
       /\ \A k \in Slot \ {0} : slot[k] # Absent
       /\ Backups(slot) \ Backups(slot') = {slot[MAX_LOG_BACKUPS]}]_<<slot, disturbed>>

(***************************************************************************)
(* Every log call returns, although a rotation that fails logs its own     *)
(* failure: provided the failure of rename() does not last.  (One that     *)
(* lasts, on a directory that has become read-only, makes log_error() call *)
(* itself until the stack is exhausted: utils.c:171-173.)                  *)
(***************************************************************************)
LoggingEnds == \A p \in Proc : pc[p] # "idle" ~> pc[p] = "idle"
--------------------------------------------------------------------------------
(***************************************************************************)
(* What RotatedInOrder rests on: no file is newer than the log created     *)
(* last, the loop stays within the backups, and a process inside a log     *)
(* call knows which.                                                       *)
(***************************************************************************)
LogInv ==
  /\ LogTypeOK /\ RotatedInOrder
  /\ \A k \in Slot : slot[k] <= newest
  /\ \A p \in Proc : pc[p] = "shift" => i[p] \in 1..(MAX_LOG_BACKUPS - 1)
  /\ \A p \in Proc : pc[p] # "idle" => stack[p] # <<>>

(***************************************************************************)
(* What KeepsRotated rests on.  As long as rotations do not overlap and    *)
(* their calls work, the backups in use are the first ones; while a        *)
(* process shifts them there is one gap, at the slot above its loop        *)
(* variable.                                                               *)
(***************************************************************************)
\* The backups in use are the first ones, slot gap aside.
Contiguous(gap) ==
  \A k, l \in Slot \ {0, gap} : k < l /\ slot[l] # Absent => slot[k] # Absent

OneRotation == \A p, q \in Proc : pc[p] \in RotatingPc /\ pc[q] \in RotatingPc => p = q

Shifting(p) == pc[p] \in {"shift", "rotate"}

GapMoves ==
  /\ (\A p \in Proc : ~Shifting(p)) => Contiguous(0)
  /\ \A p \in Proc : Shifting(p) => slot[i[p] + 1] = Absent /\ Contiguous(i[p] + 1)
  /\ \A p \in Proc : pc[p] = "rotate" => i[p] = 0

KeepInv == LogInv /\ (~disturbed => OneRotation /\ GapMoves)
================================================================================
