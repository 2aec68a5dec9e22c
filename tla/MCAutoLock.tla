----------------------------- MODULE MCAutoLock -----------------------------
(* Small instances of AutoLock for TLC.                                    *)
EXTENDS AutoLock

\* The states the lock providers of this repository can report.
ReportedStates == {"Locked", "Unlocked", "Jammed"}
=============================================================================
