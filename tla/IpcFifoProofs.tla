----------------------------- MODULE IpcFifoProofs -----------------------------
(***************************************************************************)
(* Proofs about IpcFifo, for every record size and pipe size.              *)
(***************************************************************************)
EXTENDS IpcFifo, SequenceTheorems, TLAPS

\* What is written are units, and as many as the write is long.
LEMMA RecordIsUnits ==
  ASSUME NEW m \in Message
  PROVE  Record(m) \in Seq(Unit) /\ Len(Record(m)) = RecordSize
  BY FifoAssumption DEF Record, Unit

LEMMA TextIsUnit == Text \in Seq(Unit) /\ Len(Text) = 1
  BY FifoAssumption DEF Text, Unit

\* A write keeps the stream within the pipe.
LEMMA SendTypes ==
  ASSUME FifoTypeOK, NEW m \in Message, SendIpcMessage(m) \/ ClientWrite(m)
  PROVE  fifo' \in Seq(Unit) /\ Len(fifo') <= PipeSize
<1>1. Record(m) \in Seq(Unit) /\ Len(Record(m)) = RecordSize
  BY RecordIsUnits
<1>2. CASE Room(RecordSize) /\ fifo' = fifo \o Record(m)
  BY <1>1, <1>2, FifoAssumption, ConcatProperties DEF FifoTypeOK, Room
<1>3. CASE UNCHANGED fifo
  BY <1>3 DEF FifoTypeOK
<1>4. QED
  BY <1>2, <1>3 DEF SendIpcMessage, ClientWrite

LEMMA ScriptTypes ==
  ASSUME FifoTypeOK, ScriptWrite
  PROVE  fifo' \in Seq(Unit) /\ Len(fifo') <= PipeSize
  BY TextIsUnit, FifoAssumption, ConcatProperties DEF FifoTypeOK, ScriptWrite, Room

\* A read takes units from the front and yields a message or garbage.
LEMMA ReceiveTypes ==
  ASSUME FifoTypeOK, ReceiveSucceeds \/ ReceiveFails
  PROVE  FifoTypeOK'
<1>1. CASE ReceiveSucceeds
  <2>1. fifo \in Seq(Unit) /\ Len(fifo) >= RecordSize /\ RecordSize \in Nat \ {0}
    BY <1>1, FifoAssumption DEF ReceiveSucceeds, FifoTypeOK
  <2>2. fifo[1] \in Unit
    BY <2>1
  <2>3. msg' \in Message \cup {Garbage}
    BY <1>1, <2>2 DEF ReceiveSucceeds, Decoded, Unit
  <2>4. /\ fifo' \in Seq(Unit)
        /\ Len(fifo') = Len(fifo) - RecordSize
    BY <1>1, <2>1, SubSeqProperties DEF ReceiveSucceeds
  <2>5. QED
    BY <2>1, <2>3, <2>4, FifoAssumption DEF FifoTypeOK
<1>2. CASE ReceiveFails
  BY <1>2, FifoAssumption DEF ReceiveFails, FifoTypeOK
<1>3. QED
  BY <1>1, <1>2

(***************************************************************************)
(* Type correctness of the FIFO with clients, children and the init        *)
(* script: the pipe never holds more than it has room for, and the         *)
(* daemon's IPCMessage is always a message, garbage or still unset.        *)
(***************************************************************************)
THEOREM FifoTypeCorrect == ScriptFifoSpec => []FifoTypeOK
<1>1. FifoInit => FifoTypeOK
  BY FifoAssumption DEF FifoInit, FifoTypeOK
<1>2. FifoTypeOK /\ [FifoNext \/ (ScriptWrite /\ UNCHANGED msg)]_fifoVars => FifoTypeOK'
  <2> SUFFICES ASSUME FifoTypeOK, [FifoNext \/ (ScriptWrite /\ UNCHANGED msg)]_fifoVars
               PROVE  FifoTypeOK'
    OBVIOUS
  <2>1. ASSUME NEW m \in Message, SendIpcMessage(m) \/ ClientWrite(m), UNCHANGED msg
        PROVE  FifoTypeOK'
    BY <2>1, SendTypes DEF FifoTypeOK
  <2>2. CASE ScriptWrite /\ UNCHANGED msg
    BY <2>2, ScriptTypes DEF FifoTypeOK
  <2>3. CASE Receive
    BY <2>3, ReceiveTypes DEF Receive
  <2>4. CASE UNCHANGED fifoVars
    BY <2>4 DEF FifoTypeOK, fifoVars
  <2>5. QED
    BY <2>1, <2>2, <2>3, <2>4 DEF FifoNext
<1>3. QED
  BY <1>1, <1>2, PTL DEF ScriptFifoSpec

--------------------------------------------------------------------------------
(***************************************************************************)
(* Numbers: the unit at R * k + j is the j-th of the record after k.       *)
(***************************************************************************)
LEMMA DivideByRecordSize ==
  ASSUME NEW R \in Nat \ {0}, NEW a \in Nat
  PROVE  a = R * (a \div R) + (a % R) /\ a % R \in 0..(R - 1) /\ a \div R \in Nat
OBVIOUS

LEMMA LaterRecord ==
  ASSUME NEW R \in Nat \ {0}, NEW x \in Int, NEW y \in Int, x < y
  PROVE  R * x + R <= R * y
<1>1. R * (x + 1) <= R * y
  OBVIOUS
<1>2. R * (x + 1) = R * x + R
  OBVIOUS
<1>3. QED BY <1>1, <1>2

LEMMA UniqueRecord ==
  ASSUME NEW R \in Nat \ {0}, NEW q \in Nat, NEW r \in 0..(R - 1)
  PROVE  (R * q + r) % R = r /\ (R * q + r) \div R = q
<1> DEFINE a == R * q + r
<1>1. a \in Nat
  OBVIOUS
<1> HIDE DEF a
<1>2. a = R * (a \div R) + (a % R) /\ a % R \in 0..(R - 1) /\ a \div R \in Nat
  BY <1>1, DivideByRecordSize
<1>3. a = R * q + r
  BY DEF a
<1>4. ~(a \div R < q) /\ ~(q < a \div R)
  BY <1>2, <1>3, LaterRecord
<1>5. a \div R = q
  BY <1>2, <1>4
<1>6. QED BY <1>2, <1>3, <1>5 DEF a

--------------------------------------------------------------------------------
\* A write adds a record to whole records, a read takes the first one off.
LEMMA SendKeepsRecords ==
  ASSUME FifoTypeOK, NEW m \in Message, NEW n \in Nat, Records(n), fifo' = fifo \o Record(m)
  PROVE  /\ Records(n + 1)'
         /\ \A i \in 1..(RecordSize * n) : fifo'[i] = fifo[i]
         /\ fifo'[RecordSize * n + 1].msg = m
<1> DEFINE R == RecordSize
<1>1. R \in Nat \ {0} /\ fifo \in Seq(Unit) /\ Len(fifo) = R * n /\ R * n \in Nat
  BY FifoAssumption DEF FifoTypeOK, Records
<1>2. Record(m) \in Seq(Unit) /\ Len(Record(m)) = R
  BY RecordIsUnits
<1>3. \A j \in 1..R : Record(m)[j].msg = m /\ Record(m)[j].part = j
  BY DEF Record
<1>4. \A k \in 0..(n - 1), j \in 1..R :
        /\ fifo[R * k + j].part = j
        /\ fifo[R * k + j].msg = fifo[R * k + 1].msg
  BY DEF Records
<1> HIDE DEF R
<1> DEFINE N == R * n
<1>5. N \in Nat /\ Len(fifo) = N /\ R * (n + 1) = N + R
  BY <1>1
<1> HIDE DEF N
<1>6. /\ Len(fifo') = N + R
      /\ \A i \in 1..N : fifo'[i] = fifo[i]
      /\ \A j \in 1..R : fifo'[N + j] = Record(m)[j]
  <2>1. Len(fifo') = N + R
    BY <1>1, <1>2, <1>5, ConcatProperties
  <2>2. \A i \in 1..N : fifo'[i] = fifo[i]
    BY <1>1, <1>2, <1>5, ConcatProperties
  <2>3. \A j \in 1..R : fifo'[N + j] = Record(m)[j]
    <3> SUFFICES ASSUME NEW j \in 1..R PROVE fifo'[N + j] = Record(m)[j]
      OBVIOUS
    <3>1. N + j \in 1..(Len(fifo) + Len(Record(m))) /\ N + j > Len(fifo)
          /\ (N + j) - Len(fifo) = j
      BY <1>1, <1>2, <1>5
    <3>2. QED BY <1>1, <1>2, <3>1, ConcatProperties
  <2>4. QED BY <2>1, <2>2, <2>3
<1>7. \A j \in 1..R : fifo'[N + j].msg = m /\ fifo'[N + j].part = j
  BY <1>3, <1>6
<1>8. ASSUME NEW k \in 0..n, NEW j \in 1..R
      PROVE  fifo'[R * k + j].part = j /\ fifo'[R * k + j].msg = fifo'[R * k + 1].msg
  <2>1. CASE k = n
    <3>1. R * k = N /\ 1 \in 1..R
      BY <1>1, <2>1 DEF N
    <3>2. QED BY <1>7, <3>1
  <2>2. CASE k < n
    <3>1. R * k + R <= N /\ R * k \in Nat
      BY <1>1, <2>2, LaterRecord DEF N
    <3>2. R * k + j \in 1..N /\ R * k + 1 \in 1..N
      <4> DEFINE K == R * k
      <4> HIDE DEF K
      <4>1. K + R <= N /\ K \in Nat => K + j \in 1..N /\ K + 1 \in 1..N
        BY <1>1, <1>5
      <4>2. QED BY <3>1, <4>1 DEF K
    <3>3. k \in 0..(n - 1)
      BY <2>2
    <3>4. QED BY <1>4, <1>6, <3>2, <3>3
  <2>3. k = n \/ k < n
    OBVIOUS
  <2>4. QED BY <2>1, <2>2, <2>3, Zenon
<1>9. 1 \in 1..R /\ (n + 1) - 1 = n
  BY <1>1
<1>10. QED BY <1>1, <1>5, <1>6, <1>7, <1>8, <1>9 DEF Records, R, N

LEMMA ReceiveKeepsRecords ==
  ASSUME FifoTypeOK, NEW n \in Nat, Records(n), ReceiveSucceeds
  PROVE  /\ n > 0 /\ Records(n - 1)' /\ msg' = fifo[1].msg
         /\ \A i \in 1..(RecordSize * (n - 1)) : fifo'[i] = fifo[i + RecordSize]
<1> DEFINE R == RecordSize
<1>1. R \in Nat \ {0} /\ fifo \in Seq(Unit) /\ Len(fifo) = R * n /\ R * n \in Nat
      /\ Len(fifo) >= R
  BY FifoAssumption DEF FifoTypeOK, Records, ReceiveSucceeds
<1>2. \A k \in 0..(n - 1), j \in 1..R :
        /\ fifo[R * k + j].part = j
        /\ fifo[R * k + j].msg = fifo[R * k + 1].msg
  BY DEF Records
<1>3. fifo' = SubSeq(fifo, R + 1, Len(fifo)) /\ msg' \in Decoded(fifo[1])
  BY DEF ReceiveSucceeds
<1> HIDE DEF R
<1>4. n > 0
  BY <1>1
<1>5. R * n - R = R * (n - 1) /\ R * (n - 1) \in Nat
  BY <1>1, <1>4
<1>6. Len(fifo') = R * (n - 1) /\ \A i \in 1..(R * (n - 1)) : fifo'[i] = fifo[i + R]
  BY <1>1, <1>3, <1>5
<1>7. ASSUME NEW k \in 0..(n - 2), NEW j \in 1..R
      PROVE  fifo'[R * k + j].part = j /\ fifo'[R * k + j].msg = fifo'[R * k + 1].msg
  <2>1. R * k + R <= R * (n - 1) /\ R * k \in Nat
    BY <1>1, LaterRecord
  <2>2. R * k + j \in 1..(R * (n - 1)) /\ R * k + 1 \in 1..(R * (n - 1))
    BY <1>1, <1>5, <2>1
  <2>3. (R * k + j) + R = R * (k + 1) + j /\ (R * k + 1) + R = R * (k + 1) + 1
    BY <1>1
  <2>4. k + 1 \in 0..(n - 1)
    OBVIOUS
  <2>5. QED BY <1>2, <1>6, <2>2, <2>3, <2>4
<1>8. fifo[1].part = 1
  <2>1. 0 \in 0..(n - 1) /\ 1 \in 1..R /\ R * 0 + 1 = 1
    BY <1>1, <1>4
  <2>2. QED BY <1>2, <2>1
<1>9. msg' = fifo[1].msg
  BY <1>3, <1>8 DEF Decoded
<1>10. (n - 1) - 1 = n - 2
  OBVIOUS
<1>11. QED BY <1>4, <1>6, <1>7, <1>9, <1>10 DEF Records, R

\* A read that fails found nothing: there is never a shorter piece to drop.
LEMMA NothingDropped ==
  ASSUME FifoTypeOK, NEW n \in Nat, Records(n), ReceiveFails
  PROVE  fifo = <<>> /\ fifo' = <<>>
<1>1. RecordSize * n < RecordSize /\ RecordSize \in Nat \ {0} /\ fifo \in Seq(Unit)
  BY FifoAssumption DEF FifoTypeOK, Records, ReceiveFails
<1>2. n = 0
  BY <1>1
<1>3. Len(fifo) = 0
  BY <1>1, <1>2 DEF Records
<1>4. QED BY <1>1, <1>3 DEF ReceiveFails

LEMMA FewerRecords ==
  ASSUME FifoTypeOK, NEW n \in Nat, Records(n)
  PROVE  n \in 0..Len(fifo)
<1>1. RecordSize \in Nat \ {0} /\ Len(fifo) = RecordSize * n /\ Len(fifo) \in Nat
  BY FifoAssumption DEF FifoTypeOK, Records
<1>2. RecordSize * n >= n
  BY <1>1
<1>3. QED BY <1>1, <1>2

LEMMA WholeRecordsStep ==
  ASSUME WholeRecords, [FifoNext]_fifoVars
  PROVE  WholeRecords'
<1>1. PICK n \in 0..Len(fifo) : Records(n)
  BY DEF WholeRecords
<1>2. n \in Nat /\ FifoTypeOK
  BY DEF WholeRecords, FifoTypeOK
<1>3. FifoTypeOK'
  <2>1. ASSUME NEW m \in Message, SendIpcMessage(m) \/ ClientWrite(m), UNCHANGED msg
        PROVE  FifoTypeOK'
    BY <1>2, <2>1, SendTypes DEF FifoTypeOK
  <2>2. CASE Receive
    BY <1>2, <2>2, ReceiveTypes DEF Receive
  <2>3. CASE UNCHANGED fifoVars
    BY <1>2, <2>3 DEF FifoTypeOK, fifoVars
  <2>4. QED BY <2>1, <2>2, <2>3 DEF FifoNext
<1>4. \E k \in Nat : Records(k)'
  <2>1. ASSUME NEW m \in Message, fifo' = fifo \o Record(m) PROVE Records(n + 1)'
    BY <1>1, <1>2, <2>1, SendKeepsRecords
  <2>2. CASE fifo' = fifo
    BY <1>1, <1>2, <2>2 DEF Records
  <2>3. CASE ReceiveSucceeds
    <3>1. n > 0 /\ Records(n - 1)'
      BY <1>1, <1>2, <2>3, ReceiveKeepsRecords
    <3>2. n - 1 \in Nat
      BY <1>2, <3>1
    <3>3. QED BY <3>1, <3>2
  <2>4. CASE ReceiveFails
    BY <1>1, <1>2, <2>2, <2>4, NothingDropped
  <2>5. n + 1 \in Nat
    BY <1>2
  <2>6. \/ fifo' = fifo \/ ReceiveSucceeds \/ ReceiveFails
        \/ \E m \in Message : fifo' = fifo \o Record(m)
    BY DEF FifoNext, SendIpcMessage, ClientWrite, Receive, fifoVars
  <2>7. QED BY <2>1, <2>2, <2>3, <2>4, <2>5, <2>6
<1>5. PICK k \in Nat : Records(k)'
  BY <1>4
<1>6. k \in 0..Len(fifo')
  <2>1. RecordSize \in Nat \ {0} /\ Len(fifo') = RecordSize * k /\ Len(fifo') \in Nat
    BY <1>3, <1>5, FifoAssumption DEF FifoTypeOK, Records
  <2>2. RecordSize * k >= k
    BY <2>1
  <2>3. QED BY <2>1, <2>2
<1>7. QED BY <1>3, <1>5, <1>6 DEF WholeRecords

LEMMA WholeRecordsInitially == FifoInit => WholeRecords
<1>1. FifoInit => FifoTypeOK
  BY FifoAssumption DEF FifoInit, FifoTypeOK
<1>2. FifoInit => Len(fifo) = 0 /\ Records(0)
  BY FifoAssumption DEF FifoInit, Records
<1>3. QED BY <1>1, <1>2 DEF WholeRecords

THEOREM FifoInvariant == FifoSpec => []WholeRecords
BY WholeRecordsInitially, WholeRecordsStep, PTL DEF FifoSpec

(***************************************************************************)
(* ipc.c:81 and ipc.c:105 write and read sizeof(IPCMessage) bytes and      *)
(* rely on nothing else to find where a message begins: for every record   *)
(* size and every pipe, also one that is no multiple of a record, the      *)
(* stream is made of whole records at every moment.                        *)
(***************************************************************************)
THEOREM FifoIsFramed == FifoSpec => []Framed
<1>1. WholeRecords => Framed
  <2> SUFFICES ASSUME WholeRecords, NEW i \in 1..Len(fifo)
               PROVE  /\ fifo[i].part = 1 + ((i - 1) % RecordSize)
                      /\ fifo[i].part # 1 => fifo[i].msg = fifo[i - 1].msg
                      /\ i = Len(fifo) => fifo[i].part = RecordSize
    BY DEF Framed
  <2>1. PICK n \in 0..Len(fifo) : Records(n)
    BY DEF WholeRecords
  <2> DEFINE R == RecordSize
             k == (i - 1) \div R
             j == 1 + ((i - 1) % R)
  <2>2. R \in Nat \ {0} /\ Len(fifo) = R * n /\ n \in Nat /\ i - 1 \in Nat
    BY <2>1, FifoAssumption DEF WholeRecords, FifoTypeOK, Records
  <2>3. i - 1 = R * ((i - 1) \div R) + ((i - 1) % R) /\ (i - 1) % R \in 0..(R - 1)
        /\ (i - 1) \div R \in Nat
    BY <2>2, DivideByRecordSize
  <2>4. i = R * k + j /\ j \in 1..R /\ k \in Nat /\ R * k \in Nat
    BY <2>2, <2>3
  <2>5. \A q \in 0..(n - 1), p \in 1..R :
          fifo[R * q + p].part = p /\ fifo[R * q + p].msg = fifo[R * q + 1].msg
    BY <2>1 DEF Records
  <2> HIDE DEF R, k, j
  <2>6. k \in 0..(n - 1)
    <3>1. ~(n < k) /\ n # k
      <4>1. n < k => R * n + R <= R * k
        BY <2>2, <2>4, LaterRecord
      <4>2. R * n >= R * k + j
        BY <2>2, <2>4
      <4>3. QED BY <2>2, <2>4, <4>1, <4>2
    <3>2. QED BY <2>2, <2>4, <3>1
  <2>7. fifo[i].part = j /\ fifo[i].msg = fifo[R * k + 1].msg
    BY <2>4, <2>5, <2>6
  <2>8. j # 1 => fifo[i - 1].msg = fifo[R * k + 1].msg
    <3>1. j # 1 => j - 1 \in 1..R /\ R * k + (j - 1) = i - 1
      BY <2>2, <2>4
    <3>2. QED BY <2>5, <2>6, <3>1
  <2>9. i = Len(fifo) => j = R
    <3>1. k < n - 1 => R * k + R <= R * (n - 1)
      BY <2>2, <2>4, LaterRecord
    <3>2. R * (n - 1) = R * n - R
      BY <2>2
    <3>3. i = R * n => ~(k < n - 1)
      BY <2>2, <2>4, <3>1, <3>2
    <3>4. i = R * n => k = n - 1
      BY <2>6, <3>3
    <3>5. QED BY <2>2, <2>4, <3>2, <3>4
  <2>10. QED BY <2>7, <2>8, <2>9 DEF R, j
<1>2. QED BY FifoInvariant, <1>1, PTL

--------------------------------------------------------------------------------
(***************************************************************************)
(* Refinement: the k-th message of the queue is what the first unit of the *)
(* k-th record carries.                                                    *)
(***************************************************************************)
Content(s) == [k \in 1..(Len(s) \div RecordSize) |-> s[RecordSize * (k - 1) + 1].msg]

LEMMA ContentOfRecords ==
  ASSUME NEW s \in Seq(Unit), NEW n \in Nat, Len(s) = RecordSize * n
  PROVE  /\ Content(s) \in Seq(Message \cup {Garbage}) /\ Len(Content(s)) = n
         /\ \A k \in 1..n : Content(s)[k] = s[RecordSize * (k - 1) + 1].msg
<1> DEFINE R == RecordSize
<1>1. R \in Nat \ {0} /\ Len(s) = R * n
  BY FifoAssumption
<1>2. Len(s) \div R = n
  <2>1. (R * n + 0) \div R = n
    BY <1>1, UniqueRecord
  <2>2. R * n + 0 = R * n
    BY <1>1
  <2>3. QED BY <1>1, <2>1, <2>2
<1>3. Content(s) = [k \in 1..n |-> s[R * (k - 1) + 1].msg]
  BY <1>2 DEF Content
<1> HIDE DEF R
<1>4. ASSUME NEW k \in 1..n PROVE s[R * (k - 1) + 1].msg \in Message \cup {Garbage}
  <2>1. R * (k - 1) + R <= R * n /\ R * (k - 1) \in Nat
    BY <1>1, LaterRecord
  <2>2. R * (k - 1) + 1 \in 1..Len(s)
    BY <1>1, <2>1
  <2>3. s[R * (k - 1) + 1] \in Unit
    BY <2>2, ElementOfSeq
  <2>4. QED BY <2>3 DEF Unit
<1>5. QED BY <1>3, <1>4 DEF R

Carried == Content(fifo)

LEMMA FifoStepSimulates ==
  ASSUME WholeRecords, WholeRecords', [FifoNext]_fifoVars
  PROVE  \/ \E m \in Message : /\ Len(Carried) < PipeSize \div RecordSize
                               /\ Carried' = Append(Carried, m) /\ msg' = msg
         \/ Carried # <<>> /\ msg' = Head(Carried) /\ Carried' = Tail(Carried)
         \/ Carried' = Carried /\ msg' = msg
<1> DEFINE R == RecordSize
           M == Message \cup {Garbage}
<1>1. PICK n \in Nat : Records(n)
  BY DEF WholeRecords, FifoTypeOK
<1>2. FifoTypeOK /\ FifoTypeOK' /\ R \in Nat \ {0} /\ PipeSize \in Nat
  BY FifoAssumption DEF WholeRecords
<1>3. /\ Carried \in Seq(M) /\ Len(Carried) = n
      /\ \A k \in 1..n : Carried[k] = fifo[R * (k - 1) + 1].msg
  BY <1>1, <1>2, ContentOfRecords DEF FifoTypeOK, Records, Carried
<1>4. ASSUME NEW k \in Nat, Records(k)'
      PROVE  /\ Carried' \in Seq(M) /\ Len(Carried') = k
             /\ \A i \in 1..k : Carried'[i] = fifo'[R * (i - 1) + 1].msg
  BY <1>2, <1>4, ContentOfRecords DEF FifoTypeOK, Records, Carried
<1>5. ASSUME NEW m \in Message, Room(R), fifo' = fifo \o Record(m), msg' = msg
      PROVE  Len(Carried) < PipeSize \div R /\ Carried' = Append(Carried, m)
  <2>0. n + 1 \in Nat
    OBVIOUS
  <2>1. /\ Records(n + 1)'
        /\ \A i \in 1..(R * n) : fifo'[i] = fifo[i]
        /\ fifo'[R * n + 1].msg = m
    BY <1>1, <1>2, <1>5, SendKeepsRecords
  <2>2. /\ Carried' \in Seq(M) /\ Len(Carried') = n + 1
        /\ \A i \in 1..(n + 1) : Carried'[i] = fifo'[R * (i - 1) + 1].msg
    BY <1>4, <2>0, <2>1
  <2> HIDE DEF R
  <2>3. ASSUME NEW i \in 1..(n + 1) PROVE Carried'[i] = Append(Carried, m)[i]
    <3>1. CASE i = n + 1
      <4>1. i - 1 = n /\ Carried'[i] = m
        BY <2>1, <2>2, <3>1
      <4>2. QED BY <1>3, <3>1, <4>1, AppendProperties
    <3>2. CASE i <= n
      <4>1. R * (i - 1) + R <= R * n /\ R * (i - 1) \in Nat
        BY <1>2, <3>2, LaterRecord
      <4>2. R * (i - 1) + 1 \in 1..(R * n)
        BY <1>2, <4>1
      <4>3. Carried'[i] = Carried[i]
        <5> DEFINE u == R * (i - 1) + 1
        <5>1. Carried'[i] = fifo'[u].msg
          BY <2>2
        <5>2. Carried[i] = fifo[u].msg
          <6>1. i \in 1..n
            BY <3>2
          <6>2. QED BY <1>3, <6>1 DEF R
        <5> HIDE DEF u
        <5>3. fifo'[u] = fifo[u]
          BY <2>1, <4>2 DEF u
        <5>4. QED BY <5>1, <5>2, <5>3
      <4>4. QED BY <1>3, <3>2, <4>3, AppendProperties
    <3>3. i = n + 1 \/ i <= n
      OBVIOUS
    <3>4. QED BY <3>1, <3>2, <3>3, Zenon
  <2>4. Append(Carried, m) \in Seq(M) /\ Len(Append(Carried, m)) = n + 1
    BY <1>3
  <2>5. Carried' = Append(Carried, m)
    BY <2>2, <2>3, <2>4, SeqEqual
  <2>6. n < PipeSize \div R
    <3>1. R * n + R <= PipeSize
      BY <1>1, <1>5 DEF Room, Records, R
    <3>2. /\ PipeSize = R * (PipeSize \div R) + (PipeSize % R) /\ PipeSize % R \in 0..(R - 1)
          /\ PipeSize \div R \in Nat
      BY <1>2, DivideByRecordSize
    <3>3. PipeSize \div R < n => R * (PipeSize \div R) + R <= R * n
      BY <1>2, <3>2, LaterRecord
    <3>4. R * n \in Nat
      BY <1>2
    <3>5. ~(PipeSize \div R < n) /\ PipeSize \div R # n
      BY <1>2, <3>1, <3>2, <3>3, <3>4
    <3>6. QED BY <3>2, <3>5
  <2>7. QED BY <1>3, <2>5, <2>6
<1>6. CASE ReceiveSucceeds
  <2>1. /\ n > 0 /\ Records(n - 1)' /\ msg' = fifo[1].msg /\ n - 1 \in Nat
        /\ \A i \in 1..(R * (n - 1)) : fifo'[i] = fifo[i + R]
    BY <1>1, <1>2, <1>6, ReceiveKeepsRecords
  <2>2. /\ Carried' \in Seq(M) /\ Len(Carried') = n - 1
        /\ \A i \in 1..(n - 1) : Carried'[i] = fifo'[R * (i - 1) + 1].msg
    BY <1>4, <2>1
  <2> HIDE DEF R
  <2>3. Carried # <<>> /\ Head(Carried) = Carried[1] /\ R * (1 - 1) + 1 = 1
    BY <1>2, <1>3, <2>1
  <2>4. msg' = Head(Carried)
    BY <1>3, <2>1, <2>3
  <2>5. Tail(Carried) \in Seq(M) /\ Len(Tail(Carried)) = n - 1
        /\ \A i \in 1..(n - 1) : Tail(Carried)[i] = Carried[i + 1]
    BY <1>3, <2>3, HeadTailProperties
  <2>6. ASSUME NEW i \in 1..(n - 1) PROVE Carried'[i] = Tail(Carried)[i]
    <3>1. R * (i - 1) + R <= R * (n - 1) /\ R * (i - 1) \in Nat
      BY <1>2, LaterRecord
    <3>2. R * (i - 1) + 1 \in 1..(R * (n - 1)) /\ R * (i - 1) + 1 + R = R * ((i + 1) - 1) + 1
      BY <1>2, <3>1
    <3>3. Carried'[i] = fifo[R * ((i + 1) - 1) + 1].msg
      BY <2>1, <2>2, <3>2
    <3>4. i + 1 \in 1..n
      OBVIOUS
    <3>5. QED BY <1>3, <2>5, <3>3, <3>4
  <2>7. Carried' = Tail(Carried)
    BY <2>2, <2>5, <2>6, SeqEqual
  <2>8. QED BY <2>3, <2>4, <2>7
<1>7. CASE ReceiveFails
  <2>1. fifo' = fifo /\ msg' = msg
    BY <1>1, <1>2, <1>7, NothingDropped DEF ReceiveFails
  <2>2. QED BY <2>1 DEF Carried
<1>8. CASE fifo' = fifo /\ msg' = msg
  BY <1>8 DEF Carried
<1>9. QED
  BY <1>5, <1>6, <1>7, <1>8 DEF FifoNext, SendIpcMessage, ClientWrite, Receive, fifoVars, R

(***************************************************************************)
(* ipc.h: the daemon's FIFO is a queue of whole messages, whose bound is   *)
(* the number of records that fit into the pipe.  Every message that was   *)
(* accepted comes out once, whole, and in order.                           *)
(***************************************************************************)
THEOREM FifoImplementsQueue == FifoSpec => QueueSpec
<1>1. FifoInit => Queue!Init
  <2> SUFFICES ASSUME FifoInit PROVE Queue!Init
    OBVIOUS
  <2>1. Carried \in Seq(Message \cup {Garbage}) /\ Len(Carried) = 0
    <3>1. FifoTypeOK /\ Records(0)
      BY FifoAssumption DEF FifoInit, FifoTypeOK, Records
    <3>2. fifo \in Seq(Unit) /\ Len(fifo) = RecordSize * 0
      BY <3>1 DEF FifoTypeOK, Records
    <3>3. QED BY <3>2, ContentOfRecords DEF Carried
  <2>2. Carried = <<>>
    BY <2>1
  <2>3. msg \notin Message
    BY FifoAssumption DEF FifoInit
  <2>4. QED BY <2>2, <2>3 DEF Queue!Init, Carried, Content
<1>2. WholeRecords /\ WholeRecords' /\ [FifoNext]_fifoVars => [Queue!Next]_(Queue!vars)
  BY FifoStepSimulates
     DEF Queue!Next, Queue!Put, Queue!Get, Queue!vars, Carried, Content
<1>3. QED
  BY FifoInvariant, <1>1, <1>2, PTL DEF FifoSpec, QueueSpec, Queue!Spec
================================================================================
