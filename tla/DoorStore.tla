----------------------------- MODULE DoorStore -----------------------------
(***************************************************************************)
(* useDoorStore, the browser's copy of the doors, and the handlers of      *)
(* /api/doors that answer it.  The server is modelled as far as the store  *)
(* can tell: a row for each door and the lock state that the service has   *)
(* in its cache.  Contact states never change there (nothing calls         *)
(* UpdateDoorStates) and remaining seconds are always null.                *)
(***************************************************************************)
EXTENDS ApiClient, Integers, SequencesExt

CONSTANTS
    Door,       \* the doors, those still to be created included
    Setting,    \* what a row and its edits hold: a name, a keypad, and the rest
    Null,       \* no keypad, as the wizard sends it
    None,       \* no keypad, as the table and the form have it
    NoRow,      \* the door is not created yet, or deleted again
    NoState,    \* an answer that has no lockState
    DaySeconds  \* autoLockDaySeconds, or the 300 that stand in for it; small for TLC

LockState == {"Locked", "Unlocked"}
Operation == {"lock", "unlock"}

ASSUME DoorAssumption == IsFiniteSet(Door)
ASSUME SecondsAssumption == DaySeconds \in Nat \ {0}
ASSUME StateAssumption == NoState \notin LockState

VARIABLES
    rows,               \* [Door -> Setting, or NoRow]: the table AccessPoints
    unborn,             \* doors that have never existed
    lockStates,         \* [Door -> LockState]: the cache of DoorOperationService
    doors,              \* the list of the store
    autoLockCountdowns, \* [Door -> seconds]; undefined and null count as 0
    isOperating,        \* [Door -> BOOLEAN]
    isLoading

server == <<rows, unborn, lockStates>>
store == <<doors, autoLockCountdowns, isOperating, isLoading>>

DoorRecord == [id : Door, setting : Setting, lock : LockState \cup {NoState}]

----------------------------------------------------------------------------
(* The server *)

After(op) == IF op = "lock" THEN "Locked" ELSE "Unlocked"

Exists(d) == rows[d] # NoRow

\* A row as the repository writes it.
Stored(setting) == [setting EXCEPT !.keypad = IF @ = Null THEN None ELSE @]

\* The doors as a list shows them; the order is that of the table.
Table ==
    LET listed == SetToSeq({d \in Door : Exists(d)})
    IN  [i \in DOMAIN listed |->
            [id |-> listed[i], setting |-> rows[listed[i]], lock |-> lockStates[listed[i]]]]

\* GET /api/doors
ServeList(r) ==
    /\ Asks(r, "list", "sent")
    /\ Ok(r, Table)
    /\ UNCHANGED server

\* POST /api/doors/{id}/lock and .../unlock
ServeOperation(r) ==
    /\ \E op \in Operation : Asks(r, op, "sent")
    /\ IF Exists(wire[r].to)
         THEN /\ lockStates' = [lockStates EXCEPT ![wire[r].to] = After(wire[r].kind)]
              /\ Ok(r, <<>>)
         ELSE UNCHANGED lockStates /\ Refuse(r)
    /\ UNCHANGED <<rows, unborn>>

\* POST /api/doors: the answer is the row as it was sent, without a lock state.
ServeCreate(r) ==
    /\ Asks(r, "create", "sent")
    /\ \E d \in unborn :
        /\ rows' = [rows EXCEPT ![d] = Stored(wire[r].body)]
        /\ unborn' = unborn \ {d}
        /\ Ok(r, <<[id |-> d, setting |-> wire[r].body, lock |-> NoState]>>)
    /\ UNCHANGED lockStates

\* PUT /api/doors/{id}: the whole row, and again no lock state in the answer.
ServeUpdate(r) ==
    /\ Asks(r, "update", "sent")
    /\ IF Exists(wire[r].to)
         THEN /\ rows' = [rows EXCEPT ![wire[r].to] = Stored(wire[r].body)]
              /\ Ok(r, <<[id |-> wire[r].to, setting |-> wire[r].body, lock |-> NoState]>>)
         ELSE UNCHANGED rows /\ Refuse(r)
    /\ UNCHANGED <<unborn, lockStates>>

\* The auto-lock, another browser or a tool of the MCP server.
Elsewhere ==
    \E d \in Door :
        /\ Exists(d)
        /\ \/ \E s \in LockState : lockStates' = [lockStates EXCEPT ![d] = s] /\ UNCHANGED rows
           \/ rows' = [rows EXCEPT ![d] = NoRow] /\ UNCHANGED lockStates
        /\ UNCHANGED unborn

----------------------------------------------------------------------------
(* The store *)

\* The door's entries of the list are replaced by what `changed` makes of them.
Replace(d, changed(_)) == [i \in DOMAIN doors |->
    IF doors[i].id = d THEN changed(doors[i]) ELSE doors[i]]

Listed(list) == {list[i].id : i \in DOMAIN list}

Loading(r, kind, to, body) ==
    /\ Send(r, kind, to, body)
    /\ isLoading' = TRUE
    /\ UNCHANGED <<doors, autoLockCountdowns, isOperating>>

\* Mutated: the spinner is left on when a call fails.
LoadingFailed_KeepsLoading(r, kind) ==
    /\ Rejected(r, kind)
    /\ UNCHANGED store

\* Any of the loading calls throws.
LoadingFailed(r, kind) ==
    /\ Rejected(r, kind)
    /\ isLoading' = FALSE
    /\ UNCHANGED <<doors, autoLockCountdowns, isOperating>>

fetchDoors(r) == Loading(r, "list", Nothing, Nothing)

\* Mutated: only doors that are not known yet are taken over.
fetchDoorsEnds_KeepsKnown(r) ==
    LET unknown(door) == door.id \notin Listed(doors)
    IN  /\ Resolved(r, "list")
        /\ doors' = doors \o SelectSeq(wire[r].answer, unknown)
        /\ isLoading' = FALSE
        /\ UNCHANGED <<isOperating, autoLockCountdowns>>

\* Every listed door comes with remainingCountdownSeconds: null.
fetchDoorsEnds(r) ==
    /\ Resolved(r, "list")
    /\ doors' = wire[r].answer
    /\ autoLockCountdowns' = [d \in Door |->
            IF d \in Listed(wire[r].answer) THEN 0 ELSE autoLockCountdowns[d]]
    /\ isLoading' = FALSE
    /\ UNCHANGED isOperating

createDoorEnds(r) ==
    /\ Resolved(r, "create")
    /\ doors' = doors \o wire[r].answer
    /\ isLoading' = FALSE
    /\ UNCHANGED <<autoLockCountdowns, isOperating>>

updateDoorEnds(r) ==
    LET updated(door) == wire[r].answer[1]
    IN  /\ Resolved(r, "update")
        /\ doors' = Replace(wire[r].to, updated)
        /\ isLoading' = FALSE
        /\ UNCHANGED <<autoLockCountdowns, isOperating>>

\* unlockDoor and lockDoor up to the await, ...
operate(r, op, d) ==
    /\ Send(r, op, d, Nothing)
    /\ isOperating' = [isOperating EXCEPT ![d] = TRUE]
    /\ UNCHANGED <<doors, autoLockCountdowns, isLoading>>

\* Mutated: a lock does not reset the countdown.
operateEnds_KeepsCountdown(r, op) ==
    LET d == wire[r].to
        operated(door) == [door EXCEPT !.lock = After(op)]
    IN  /\ Resolved(r, op)
        /\ doors' = Replace(d, operated)
        /\ isOperating' = [isOperating EXCEPT ![d] = FALSE]
        /\ autoLockCountdowns' =
            [autoLockCountdowns EXCEPT ![d] = IF op = "lock" THEN @ ELSE DaySeconds]
        /\ UNCHANGED isLoading

\* ... the "optimistic" update after it, ...
operateEnds(r, op) ==
    LET d == wire[r].to
        operated(door) == [door EXCEPT !.lock = After(op)]
    IN  /\ Resolved(r, op)
        /\ doors' = Replace(d, operated)
        /\ isOperating' = [isOperating EXCEPT ![d] = FALSE]
        /\ autoLockCountdowns' =
            [autoLockCountdowns EXCEPT ![d] = IF op = "lock" THEN 0 ELSE DaySeconds]
        /\ UNCHANGED isLoading

\* ... and the catch.
operateFailed(r, op) ==
    /\ Rejected(r, op)
    /\ isOperating' = [isOperating EXCEPT ![wire[r].to] = FALSE]
    /\ UNCHANGED <<doors, autoLockCountdowns, isLoading>>

\* Mutated: a countdown goes on below zero.
tickCountdowns_BelowZero ==
    /\ autoLockCountdowns' = [d \in Door |-> autoLockCountdowns[d] - 1]
    /\ UNCHANGED <<doors, isOperating, isLoading>>

tickCountdowns ==
    /\ \E d \in Door : autoLockCountdowns[d] > 0
    /\ autoLockCountdowns' = [d \in Door |->
            IF autoLockCountdowns[d] > 0 THEN autoLockCountdowns[d] - 1 ELSE 0]
    /\ UNCHANGED <<doors, isOperating, isLoading>>
=============================================================================
