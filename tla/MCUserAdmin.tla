---------------------------- MODULE MCUserAdmin ----------------------------
(* Small instance of UserAdmin for TLC.                                    *)
EXTENDS UserAdmin, TLC

Policies == [scheduleType : ScheduleType, remainingUses : 1..MaxUses \cup {Unset}]

\* Calls and PINs are interchangeable.
Symmetry == Permutations(Request) \cup Permutations(Pin)
=============================================================================
