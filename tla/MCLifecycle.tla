------------------------------ MODULE MCLifecycle ------------------------------
(***************************************************************************)
(* Instances of Lifecycle for TLC: three starts.                           *)
(***************************************************************************)
EXTENDS Lifecycle

CONSTANTS i1, i2, i3    \* the daemons that are started

ThreeStarts == {i1, i2, i3}
AnyFault == {"fork", "pid_file", "fifo", "chmod"}
================================================================================
