---------------------------- MODULE MCDirectoryWatch ----------------------------
(***************************************************************************)
(* Instances of DirectoryWatch for TLC: a department's report, named as    *)
(* setup_test.sh does, and a file that is none; or a report in the format  *)
(* that a comment expects.                                                 *)
(***************************************************************************)
EXTENDS DirectoryWatch

ReportAndNote == {[parts |-> <<"warehouse", "date">>, xml |-> TRUE],
                  [parts |-> <<"sales">>, xml |-> FALSE]}
ExpectedReport == {[parts |-> <<"report", "warehouse", "date">>, xml |-> TRUE]}
TwoDepartments == {"warehouse", "sales"}
OneUser == {"user"}
================================================================================
