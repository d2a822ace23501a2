--------------------------- MODULE MaintenanceWindow ---------------------------
(***************************************************************************)
(* What lock_directories() and unlock_directories() promise to the code    *)
(* that calls them: a process that has locked the directories is alone in  *)
(* doing so, and for as long as it works both directories are closed to    *)
(* users.  The promise is void from the first chmod() that fails.          *)
(* DirectoryLock is the detailed specification that implements this one.   *)
(***************************************************************************)
CONSTANT Proc           \* the processes that may lock the directories

VARIABLES holders,      \* the processes between a successful lock and the unlock
          protected,    \* both directories have LOCKED_PERMISSIONS
          void          \* a chmod() has failed

vars == <<holders, protected, void>>

Init == holders = {} /\ void \in BOOLEAN /\ (void \/ protected = FALSE)

\* lock_directories() returns SUCCESS to p.
Open(p) == /\ holders = {} /\ ~protected
           /\ holders' = {p}
           /\ protected' = TRUE

\* p calls unlock_directories().
Close(p) == /\ holders = {p}
            /\ holders' = {}
            /\ protected' = FALSE

\* p dies inside its window.  The directories stay closed, and since nobody
\* is left who would call unlock_directories(), no window opens again.
Die(p) == /\ holders = {p}
          /\ holders' = {}
          /\ UNCHANGED protected

Next == \/ void'
        \/ ~void' /\ \E p \in Proc : Open(p) \/ Close(p) \/ Die(p)

Spec == Init /\ [][Next]_vars
================================================================================
