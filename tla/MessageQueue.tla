------------------------------ MODULE MessageQueue ------------------------------
(***************************************************************************)
(* What the daemon's FIFO is used as: a bounded queue of whole messages,   *)
(* delivered once each and in the order in which they were accepted.  A    *)
(* message offered to a full queue is not accepted.  IpcFifo is the        *)
(* detailed specification.                                                 *)
(***************************************************************************)
EXTENDS Naturals, Sequences

CONSTANTS Message,      \* the messages
          QueueBound    \* the number of messages the queue holds

VARIABLES queue,        \* accepted and not yet delivered
          got           \* the message delivered last

vars == <<queue, got>>

Put(m) == /\ Len(queue) < QueueBound
          /\ queue' = Append(queue, m)
          /\ UNCHANGED got

Get == /\ queue # <<>>
       /\ got' = Head(queue)
       /\ queue' = Tail(queue)

Init == queue = <<>> /\ got \notin Message

Next == (\E m \in Message : Put(m)) \/ Get

Spec == Init /\ [][Next]_vars
================================================================================
