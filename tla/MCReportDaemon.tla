----------------------------- MODULE MCReportDaemon -----------------------------
(***************************************************************************)
(* Instances of ReportDaemon for TLC: one daemon whose predecessor may have*)
(* died with the lock, up to two children at a time.                       *)
(***************************************************************************)
EXTENDS ReportDaemon

CONSTANTS reportd, predecessor,   \* the daemon, and one that died before it
          c1, c2,                 \* two children
          client                  \* the process of a client

JustDaemon == {reportd}
TwoProcs == {reportd, predecessor}
OneChild == {c1}
TwoChildren == {c1, c2}

Nothing == {}
DashboardOnly == {"dashboard"}
DayTime == {FALSE}
DayAndNight == {FALSE, TRUE}
FileOpsFail == {"open", "write"}
AllFileOpsFail == {"open", "write", "unlink"}

UrgentRequest == {[type |-> "MSG_URGENT_CHANGE", sender_pid |-> client]}
AllMessages == {Completion(o, c) : o \in Operation, c \in Child} \cup ClientMessage
================================================================================
