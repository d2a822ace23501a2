------------------------------- MODULE MCIpcFifo -------------------------------
(***************************************************************************)
(* Instance of IpcFifo for TLC: two children that report.                  *)
(***************************************************************************)
EXTENDS IpcFifo

CONSTANTS c1, c2        \* two children

Reports == {[type |-> "MSG_TRANSFER_COMPLETE", sender_pid |-> c1, status |-> "SUCCESS"],
            [type |-> "MSG_BACKUP_COMPLETE", sender_pid |-> c2, status |-> "FAILURE"]}
================================================================================
