-------------------------- MODULE AutoLockContract --------------------------
(***************************************************************************)
(* What an AutoLockStateMachine promises to whoever watches its Status: as *)
(* long as it shows CountingDown or JammedRetry, something is scheduled    *)
(* that will move it again, and a machine that comes to rest schedules     *)
(* nothing new.  A machine that was switched off stays off.                *)
(***************************************************************************)
VARIABLES
    status,  \* the Status that is shown
    wake     \* something is scheduled or under way that will set the status

vars == <<status, wake>>

Waiting == {"CountingDown", "JammedRetry"}
Resting == {"Disabled", "Idle", "PausedDoorOpen", "Locked"}

Init == status = "Locked" /\ wake = FALSE

\* The machine starts, or goes on, waiting for its timer.
Track ==
    /\ status # "Disabled"
    /\ status' \in Waiting
    /\ wake' = TRUE

\* The machine comes to rest, or stays there; what was scheduled may remain.
Rest ==
    /\ status' \in Resting
    /\ status = "Disabled" => status' = "Disabled"
    /\ wake' \in {wake, FALSE}

Next == Track \/ Rest

Spec == Init /\ [][Next]_vars
=============================================================================
