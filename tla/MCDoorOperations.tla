-------------------------- MODULE MCDoorOperations --------------------------
(* Small instances of DoorOperations for TLC.                              *)
EXTENDS DoorOperations, TLC

AnyReport == {"Locked", "Unlocked", "Jammed", "Unknown"}
AllContacts == {"Closed", "Open"}

\* Everything the surroundings can do that leaves a successful publish true.
HonestFaults == {"throw", "manual", "restart", "configure", "delete"}

OneSetting == {[autoLock |-> TRUE, retry |-> TRUE]}
TwoSettings == OneSetting \cup {[autoLock |-> FALSE, retry |-> TRUE]}

\* Timers, threads and callers are interchangeable (safety runs only).
Symmetry == Permutations(Timer) \cup Permutations(Worker) \cup Permutations(Caller)
=============================================================================
