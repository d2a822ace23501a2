----------------------------- MODULE MCLogRotation -----------------------------
(***************************************************************************)
(* Instances of LogRotation for TLC: the daemon and a child.               *)
(***************************************************************************)
EXTENDS LogRotation

CONSTANTS reportd, c1

DaemonAndChild == {reportd, c1}
AnyFault == {"create", "append"}
================================================================================
