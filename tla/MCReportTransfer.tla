---------------------------- MODULE MCReportTransfer ----------------------------
(***************************************************************************)
(* Instances of ReportTransfer for TLC.                                    *)
(***************************************************************************)
EXTENDS ReportTransfer

CONSTANTS r1, r2,   \* two reports
          t1, t2    \* two transfers

OneReport == {r1}
TwoReports == {r1, r2}
OneTransfer == {t1}
TwoTransfers == {t1, t2}
RenameWorks == {TRUE}
Nothing == {[r \in OneReport |-> 0]}
FirstVersion == {[r \in OneReport |-> 1]}
OneIsNew == {[r \in TwoReports |-> IF r = r1 THEN 0 ELSE 1]}
EitherWay == {FALSE, TRUE}
NoFaults == {}
AnyFault == {"opendir", "open", "write", "unlink"}
================================================================================
