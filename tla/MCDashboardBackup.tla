---------------------------- MODULE MCDashboardBackup ----------------------------
(***************************************************************************)
(* Instances of DashboardBackup for TLC: one transfer and two backups.     *)
(***************************************************************************)
EXTENDS DashboardBackup, MCReportTransfer, TLC

CONSTANTS b1, b2    \* two backups

TwoBackups == {b1, b2}
Interchangeable == Permutations(TwoBackups)
AnyBackupFault == {"opendir", "write", "chmod", "fopen", "fputs"}
AnyMode == {"0644", "0666"}
================================================================================
