-------------------------------- MODULE IpcFifo --------------------------------
(***************************************************************************)
(* The FIFO between the daemon, its children and its clients               *)
(* (src/src/ipc.c).  A FIFO is a stream of bytes: nothing but the size of  *)
(* the reads and writes separates one message from the next.               *)
(*                                                                         *)
(* The stream is modelled in units.  An IPCMessage is RecordSize of them,  *)
(* and both write() and read() move a whole IPCMessage: sizeof(IPCMessage) *)
(* is 2060, below PIPE_BUF, so such a write is atomic.  The init script    *)
(* writes text instead, which is shorter than an IPCMessage: one unit.     *)
(***************************************************************************)
EXTENDS Naturals, Sequences

CONSTANTS
  Message,      \* the IPCMessage values that are written
  NoMessage,    \* the daemon's IPCMessage variable before the first receive
  Garbage,      \* an IPCMessage whose type is none of those of ipc.h
  RecordSize,   \* the units of an IPCMessage
  PipeSize      \* the units the FIFO holds

ASSUME FifoAssumption == /\ RecordSize \in Nat \ {0}
                         /\ PipeSize \in Nat
                         /\ Garbage \notin Message
                         /\ NoMessage \notin Message \cup {Garbage}

VARIABLES
  fifo,         \* the units written and not yet read
  msg           \* the IPCMessage variable of daemon_main_loop()

fifoVars == <<fifo, msg>>

Unit == [msg : Message \cup {Garbage}, part : 0..RecordSize]

\* The bytes of an IPCMessage, and those of a line of text.
Record(m) == [i \in 1..RecordSize |-> [msg |-> m, part |-> i]]
Text == <<[msg |-> Garbage, part |-> 0]>>

Room(n) == Len(fifo) + n <= PipeSize

FifoInit == fifo = <<>> /\ msg = NoMessage
--------------------------------------------------------------------------------
\* Mutant: a write that does not fit is cut short instead of refused.
SendIpcMessageCut(m) ==
  LET all == fifo \o Record(m)
  IN fifo' = SubSeq(all, 1, IF Len(all) <= PipeSize THEN Len(all) ELSE PipeSize)

\* Mutant: the write does not look whether there is room.
SendIpcMessageUnbounded(m) == fifo' = fifo \o Record(m)

\* send_ipc_message(): the descriptor is O_NONBLOCK, so a message for which
\* there is no room is refused (EAGAIN) and the sender gives it up.
SendIpcMessage(m) ==
  \/ Room(RecordSize) /\ fifo' = fifo \o Record(m)
  \/ ~Room(RecordSize) /\ UNCHANGED fifo

\* A client opens the FIFO O_WRONLY without O_NONBLOCK: its write() waits
\* for room.
ClientWrite(m) == Room(RecordSize) /\ fifo' = fifo \o Record(m)

\* echo -e "6\n$(cat $PIDFILE)\n0\n$MESSAGE" in do_urgent_change().
ScriptWrite == Room(1) /\ fifo' = fifo \o Text

\* What the daemon finds in its IPCMessage after a read that began with unit
\* u.  The first bytes are the type: those of a record's beginning are the
\* message's; those of the script's text are "6\n" and a pid, no known type;
\* those further inside a record are message text and, after its end, stack
\* contents of the sender that were never initialised.
Decoded(u) == IF u.part = 1 THEN {u.msg}
              ELSE IF u.part = 0 THEN {Garbage}
              ELSE Message \cup {Garbage}

\* Mutant: the read starts one unit late.
ReceiveSucceedsLate ==
  /\ Len(fifo) > RecordSize
  /\ fifo' = SubSeq(fifo, RecordSize + 2, Len(fifo))
  /\ msg' \in Decoded(fifo[2])

\* Mutant: what is left behind the record is thrown away with it.
ReceiveSucceedsFlush ==
  /\ Len(fifo) >= RecordSize
  /\ fifo' = <<>>
  /\ msg' \in Decoded(fifo[1])

\* receive_ipc_message() returning SUCCESS: read() gave a full record.
ReceiveSucceeds ==
  /\ Len(fifo) >= RecordSize
  /\ fifo' = SubSeq(fifo, RecordSize + 1, Len(fifo))
  /\ msg' \in Decoded(fifo[1])

\* ... returning FAILURE: the FIFO was empty (EAGAIN), or a shorter piece was
\* left, which has been read and is dropped ("Partial read from FIFO").
ReceiveFails ==
  /\ Len(fifo) < RecordSize
  /\ fifo' = <<>>
  /\ UNCHANGED msg

--------------------------------------------------------------------------------
(***************************************************************************)
(* The FIFO on its own: children that send, clients that write, and the    *)
(* daemon's receive loop, which may end at any time (see ReportDaemon).    *)
(***************************************************************************)
Receive == ReceiveSucceeds \/ ReceiveFails

FifoNext == \/ \E m \in Message : (SendIpcMessage(m) \/ ClientWrite(m)) /\ UNCHANGED msg
            \/ Receive

FifoSpec == FifoInit /\ [][FifoNext]_fifoVars

ScriptFifoSpec == FifoInit /\ [][FifoNext \/ (ScriptWrite /\ UNCHANGED msg)]_fifoVars
--------------------------------------------------------------------------------
FifoTypeOK == /\ fifo \in Seq(Unit)
              /\ Len(fifo) <= PipeSize
              /\ msg \in Message \cup {Garbage, NoMessage}

(***************************************************************************)
(* Between any two steps the FIFO holds whole messages only, so that every *)
(* read starts at the beginning of one: what the atomicity of the writes   *)
(* and the fixed size of the reads are relied on for.                      *)
(***************************************************************************)
Framed == \A i \in 1..Len(fifo) :
            /\ fifo[i].part = 1 + ((i - 1) % RecordSize)
            /\ fifo[i].part # 1 => fifo[i].msg = fifo[i - 1].msg
            /\ i = Len(fifo) => fifo[i].part = RecordSize

(***************************************************************************)
(* The FIFO is a queue: messages come out whole, once, in order.           *)
(***************************************************************************)
Queue == INSTANCE MessageQueue WITH
  queue <- [k \in 1..(Len(fifo) \div RecordSize) |-> fifo[RecordSize * (k - 1) + 1].msg],
  got <- msg,
  QueueBound <- PipeSize \div RecordSize

QueueSpec == Queue!Spec

(***************************************************************************)
(* "Format the message for the IPC" (init.d/report_daemon:108): what the   *)
(* init script's urgent_change writes reaches the daemon as a message it   *)
(* knows, so the daemon never reads anything else.                         *)
(***************************************************************************)
ScriptMessageUnderstood == msg # Garbage
--------------------------------------------------------------------------------
(***************************************************************************)
(* The inductive invariant: the stream is a sequence of whole records.     *)
(***************************************************************************)
Records(n) ==
  /\ Len(fifo) = RecordSize * n
  /\ \A k \in 0..(n - 1), j \in 1..RecordSize :
       /\ fifo[RecordSize * k + j].part = j
       /\ fifo[RecordSize * k + j].msg = fifo[RecordSize * k + 1].msg

WholeRecords == FifoTypeOK /\ \E n \in 0..Len(fifo) : Records(n)
================================================================================
