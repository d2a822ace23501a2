---------------------------- MODULE MCDirectoryLock ----------------------------
(***************************************************************************)
(* Instances of DirectoryLock for TLC.                                     *)
(***************************************************************************)
EXTENDS DirectoryLock

CONSTANTS d1, d2, d3    \* three daemons

NoFaults == {}
FileOpsFail == {"open", "write"}
ThreeDaemons == {d1, d2, d3}
OneKillable == {d1}
================================================================================
