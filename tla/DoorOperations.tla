--------------------------- MODULE DoorOperations ---------------------------
(***************************************************************************)
(* DoorOperationService for one door: the API and the MCP tools lock and   *)
(* unlock it, the auto-lock machine of the door calls LockDoorAsync when a *)
(* timer fires, and UpdateDoorStates takes what the hardware reports.      *)
(* The doors of the static dictionaries never touch each other, so one     *)
(* door stands for all.                                                    *)
(*                                                                         *)
(* Each await and each dictionary write is a step of its own: an operation *)
(* reads the row, publishes, writes _lockStates, and tells the machine;    *)
(* operations of several callers and of the machine's own callbacks        *)
(* interleave between any two of them.                                     *)
(***************************************************************************)
EXTENDS Naturals, FiniteSets

CONSTANTS
    Timer, Worker, NoTimer,   \* as in AutoLock
    Report,     \* the lock states UpdateDoorStates is called with
    Contact,    \* the contact states UpdateDoorStates is called with
    Caller,     \* concurrent API requests and MCP tool calls
    Setting,    \* the auto-lock settings a row is given
    NoDoor,     \* no row for the door
    NoOp,       \* a process that runs no operation
    Fault       \* what the environment does in an instance, see FaultKind

FaultKind ==
    {"offline",     \* the MQTT client loses its connection for a while
     "throw",       \* PublishAsync throws something else than not-connected
     "jam",         \* a command that was published does not move the bolt
     "manual",      \* the bolt is turned by hand
     "restart",     \* the process stops and starts again
     "configure",   \* PUT /api/doors/{id}
     "delete"}      \* DELETE and POST of the door

ASSUME SettingAssumption == Setting \subseteq [autoLock : BOOLEAN, retry : BOOLEAN]
ASSUME FaultAssumption == Fault \subseteq FaultKind
ASSUME ContactAssumption == Contact \subseteq {"Closed", "Open"}
ASSUME ReportAssumption == Report \subseteq {"Locked", "Unlocked", "Jammed", "Unknown"}
ASSUME ProcessAssumption == Caller \cap Worker = {} /\ NoOp \notin Caller \cup Worker
ASSUME TimerAssumption == NoTimer \notin Timer

VARIABLES
    \* the machine of the door in _autoLockStateMachines
    status, lockState, contact, enabled, retryOnFailure,
    countdownTimer, retryTimer, countdowns, retries, attempt,
    machineExists,  \* the dictionary has an entry for the door
    \* DoorOperationService and its surroundings
    lockStates,     \* _lockStates[doorId]; an absent entry reads as Locked
    contactStates,  \* _contactStates[doorId]; an absent entry reads as Closed
    row,            \* the door's row, as far as the machine is built from it
    connected,      \* IsConnected of the MQTT client
    bolt,           \* the physical bolt (external)
    op,             \* what each process is doing in the service
    alone           \* history: the operation nothing else has overlapped so far

Machine == INSTANCE AutoLock

machineVars == <<status, lockState, contact, enabled, retryOnFailure,
                 countdownTimer, retryTimer, countdowns, retries, attempt>>
serviceVars == <<lockStates, contactStates, machineExists>>
world == <<row, connected, bolt>>
vars == <<machineVars, serviceVars, world, op, alone>>

Process == Caller \cup Worker
Config == [autoLock : BOOLEAN, retry : BOOLEAN]
NoConfig == CHOOSE s \in Config : TRUE  \* what an operation that builds nothing keeps of the row
Call == {"lock", "unlock", "report", "contact"}
Stage == {"found", "published", "written", "told"}
Operation == [call : Call, stage : Stage, value : Machine!LockState \cup Machine!DoorContactState,
              seen : Config]

ASSUME NoOpAssumption == NoOp \notin Operation

\* While there is no machine its variables hold what a constructor would give
\* them; its settings are read from the row when the first unlock creates it.
Init ==
    /\ Machine!Init /\ enabled /\ retryOnFailure
    /\ machineExists = FALSE
    /\ lockStates = "Locked"
    /\ contactStates = "Closed"
    /\ row \in Setting
    /\ connected = TRUE
    /\ bolt = "Locked"
    /\ op = [p \in Process |-> NoOp]
    /\ alone = NoOp

----------------------------------------------------------------------------
(* Operations *)

Running(p, call, stage) == op[p] # NoOp /\ op[p].call \in call /\ op[p].stage = stage

\* An operation of the service, or a callback that has asked for the lock and not
\* yet applied the answer.
Busy(p) ==
    \/ op[p] # NoOp
    \/ p \in Worker /\ attempt[p] \in {"requested", "succeeded", "failed"}

Quiescent == \A p \in Process : ~Busy(p)

Begin(p, call, stage, value, seen) ==
    /\ op[p] = NoOp
    /\ op' = [op EXCEPT ![p] = [call |-> call, stage |-> stage, value |-> value, seen |-> seen]]
    /\ alone' = IF \A q \in Process \ {p} : ~Busy(q) THEN p ELSE NoOp

Moves(p, stage) == op' = [op EXCEPT ![p].stage = stage] /\ UNCHANGED alone

Ends(p) == op' = [op EXCEPT ![p] = NoOp]

\* UnlockDoorAsync and LockDoorAsync of a request: GetByIdAsync finds the door.
\* (A door that is not found answers false and changes nothing.)
CallUnlock(c) ==
    /\ row # NoDoor
    /\ Begin(c, "unlock", "found", "Unlocked", row)
    /\ UNCHANGED <<machineVars, serviceVars, world>>

CallLock(c) ==
    /\ row # NoDoor
    /\ Begin(c, "lock", "found", "Locked", NoConfig)
    /\ UNCHANGED <<machineVars, serviceVars, world>>

\* The callback of the machine: LockDoorAsync(id).
CallLockFromTimer(w) ==
    /\ attempt[w] = "requested"
    /\ row # NoDoor
    /\ Begin(w, "lock", "found", "Locked", NoConfig)
    /\ UNCHANGED <<machineVars, serviceVars, world>>

\* The same for a door that has been deleted: LockDoorAsync returns false.
LockFromTimerFindsNoDoor(w) ==
    /\ op[w] = NoOp
    /\ row = NoDoor
    /\ Machine!Answer(w, "failed")
    /\ UNCHANGED <<serviceVars, world, op, alone>>

\* provider.LockAsync or UnlockAsync publishes and returns true, also when the
\* client is offline: InvalidOperationException is swallowed.
Publish(p) ==
    /\ Running(p, {"lock", "unlock"}, "found")
    /\ \/ connected /\ bolt' = op[p].value
       \/ (~connected \/ "jam" \in Fault) /\ UNCHANGED bolt
    /\ Moves(p, "published")
    /\ UNCHANGED <<machineVars, serviceVars, row, connected>>

\* Any other failure leaves the operation at once; the command may have gone out.
PublishThrows(p) ==
    /\ "throw" \in Fault
    /\ Running(p, {"lock", "unlock"}, "found")
    /\ bolt' \in {bolt, op[p].value}
    /\ Ends(p) /\ alone' = NoOp
    /\ IF p \in Worker THEN Machine!Answer(p, "failed") ELSE UNCHANGED machineVars
    /\ UNCHANGED <<serviceVars, row, connected>>

\* _lockStates[doorId] = ...
WriteState(p) ==
    /\ Running(p, {"lock", "unlock"}, "published")
    /\ lockStates' = op[p].value
    /\ Moves(p, "written")
    /\ UNCHANGED <<machineVars, contactStates, machineExists, world>>

\* UpdateDoorStates writes the cache first.
ReportLock(c, r) ==
    /\ lockStates' = r
    /\ Begin(c, "report", "written", r, NoConfig)
    /\ UNCHANGED <<machineVars, contactStates, machineExists, world>>

ReportContact(c, s) ==
    /\ contactStates' = s
    /\ Begin(c, "contact", "written", s, NoConfig)
    /\ UNCHANGED <<machineVars, lockStates, machineExists, world>>

\* GetOrCreateStateMachine: the machine is built from the row this unlock read,
\* locked and shut whatever the caches say.
Construct(p) ==
    /\ Running(p, {"unlock"}, "written")
    /\ ~machineExists
    /\ machineExists' = TRUE
    /\ Machine!Construct(op[p].seen.autoLock, op[p].seen.retry)
    /\ UNCHANGED <<lockStates, contactStates, world, op, alone>>

\* Mutated: UnlockDoorAsync tells the machine only if there is one already.
Tell_UnlockBuildsNone(p) ==
    /\ op[p] # NoOp /\ op[p].stage = "written"
    /\ IF machineExists /\ op[p].call # "contact"
         THEN Machine!OnLockStateChanged(op[p].value)
         ELSE UNCHANGED machineVars
    /\ IF p \in Worker THEN Moves(p, "told") ELSE Ends(p) /\ alone' = NoOp
    /\ UNCHANGED <<serviceVars, world>>

\* Mutated: LockDoorAsync leaves the machine as it is.
Tell_LockUntold(p) ==
    /\ op[p] # NoOp /\ op[p].stage = "written"
    /\ IF machineExists /\ op[p].call = "unlock"
         THEN Machine!OnLockStateChanged(op[p].value)
         ELSE UNCHANGED machineVars
    /\ IF p \in Worker THEN Moves(p, "told") ELSE Ends(p) /\ alone' = NoOp
    /\ UNCHANGED <<serviceVars, world>>

\* The machine, if there is one, is told what was written.  A callback then has
\* its answer still to return; every other operation is over.
Tell(p) ==
    /\ op[p] # NoOp /\ op[p].stage = "written"
    /\ \/ /\ machineExists
          /\ p \in Caller /\ op[p].value # "Locked" => Machine!RoomForReport
          /\ IF op[p].call = "contact"
               THEN Machine!OnDoorContactChanged(op[p].value)
               ELSE Machine!OnLockStateChanged(op[p].value)
       \/ /\ ~machineExists /\ op[p].call # "unlock"
          /\ UNCHANGED machineVars
    /\ IF p \in Worker THEN Moves(p, "told") ELSE Ends(p) /\ alone' = NoOp
    /\ UNCHANGED <<serviceVars, world>>

\* Mutated: the operation is left as it was when its answer is known.
ReturnToTimer_Unended(w) ==
    /\ Running(w, {"lock"}, "told")
    /\ Machine!Answer(w, "succeeded")
    /\ UNCHANGED <<op, serviceVars, world, alone>>

\* LockDoorAsync returns true to the callback that awaits it.
ReturnToTimer(w) ==
    /\ Running(w, {"lock"}, "told")
    /\ Machine!Answer(w, "succeeded")
    /\ Ends(w)
    /\ UNCHANGED <<serviceVars, world, alone>>

\* The steps of the machine's callbacks that do not go through the service.
MachineStep ==
    /\ machineExists
    /\ \/ Machine!Fire /\ UNCHANGED alone
       \/ \E w \in Worker :
            /\ Machine!Run(w)
            /\ alone' = IF alone = w THEN NoOp ELSE alone
    /\ UNCHANGED <<serviceVars, world, op>>
----------------------------------------------------------------------------
(* Surroundings *)

Disconnect ==
    /\ "offline" \in Fault
    /\ connected /\ connected' = FALSE
    /\ UNCHANGED <<machineVars, serviceVars, row, bolt, op, alone>>

Connect ==
    /\ ~connected /\ connected' = TRUE
    /\ UNCHANGED <<machineVars, serviceVars, row, bolt, op, alone>>

TurnByHand ==
    /\ "manual" \in Fault
    /\ bolt' \in {"Locked", "Unlocked"} \ {bolt}
    /\ alone' = NoOp
    /\ UNCHANGED <<machineVars, serviceVars, row, connected, op>>

\* The row is read by operations only; no machine hears of a PUT.
Configure ==
    /\ "configure" \in Fault
    /\ row # NoDoor /\ row' \in Setting
    /\ UNCHANGED <<machineVars, serviceVars, connected, bolt, op, alone>>

\* DELETE removes the row and POST may create it again under the same id; the
\* dictionaries keep their entries.
DeleteOrCreate ==
    /\ "delete" \in Fault
    /\ row' \in IF row = NoDoor THEN Setting ELSE {NoDoor}
    /\ UNCHANGED <<machineVars, serviceVars, connected, bolt, op, alone>>

\* The process is stopped and started: the static dictionaries, the machine, its
\* timers and every operation under way are gone.
Restart ==
    /\ "restart" \in Fault
    /\ Machine!Construct(TRUE, TRUE)
    /\ machineExists' = FALSE
    /\ lockStates' = "Locked"
    /\ contactStates' = "Closed"
    /\ op' = [p \in Process |-> NoOp]
    /\ alone' = NoOp
    /\ UNCHANGED world

----------------------------------------------------------------------------
Request ==
    \E c \in Caller :
        \/ CallUnlock(c)
        \/ CallLock(c)
        \/ \E r \in Report : ReportLock(c, r)
        \/ \E s \in Contact : ReportContact(c, s)

Surroundings == Disconnect \/ TurnByHand \/ Configure \/ DeleteOrCreate \/ Restart

\* What a process that runs an operation does next.
Step(p) ==
    \/ Publish(p)
    \/ PublishThrows(p)
    \/ WriteState(p)
    \/ Construct(p)
    \/ Tell(p)
    \/ p \in Worker /\ (CallLockFromTimer(p) \/ LockFromTimerFindsNoDoor(p) \/ ReturnToTimer(p))

Next ==
    \/ Request
    \/ \E p \in Process : Step(p)
    \/ MachineStep
    \/ Connect
    \/ Surroundings

Spec == Init /\ [][Next]_vars

\* Operations run on, timers fire and callbacks run; nothing makes requests arrive or
\* the client reconnect.  An attempt may throw, but not every time.
Fairness ==
    /\ \A p \in Process : WF_vars(Step(p))
    /\ \A t \in Timer :
        WF_vars((\E w \in Worker : Machine!FireCountdown(w, t) \/ Machine!FireRetry(w, t)) /\ MachineStep)
    /\ \A w \in Worker : WF_vars(Machine!Run(w) /\ MachineStep)
    /\ SF_vars(\E w \in Worker : Publish(w))

FairSpec == Spec /\ Fairness

----------------------------------------------------------------------------
(* Properties *)

\* Every variable has its type, and a callback runs an operation only while its
\* machine awaits the answer.
TypeOK ==
    /\ Machine!TypeOK
    /\ machineExists \in BOOLEAN
    /\ lockStates \in Machine!LockState
    /\ contactStates \in Machine!DoorContactState
    /\ row \in Config \cup {NoDoor}
    /\ connected \in BOOLEAN
    /\ bolt \in {"Locked", "Unlocked"}
    /\ op \in [Process -> Operation \cup {NoOp}]
    /\ alone \in Process \cup {NoOp}
    /\ \A w \in Worker : op[w] # NoOp => attempt[w] = "requested"

\* The step in which an operation that locks or unlocks has succeeded.
Succeeds(p) ==
    \/ p \in Caller /\ Running(p, {"lock", "unlock"}, "written") /\ Tell(p)
    \/ p \in Worker /\ Machine!ApplySuccess(p)

\* An operation that succeeded and that no other operation overlapped leaves the
\* cache, the machine and the bolt in agreement: what UnlockDoorAsync,
\* LockDoorAsync and a whole auto-lock attempt promise when nothing interferes,
\* whatever races, restarts and failures came before.
AloneLeavesAgreement ==
    [][alone # NoOp /\ Succeeds(alone) =>
        /\ lockStates' = bolt'
        /\ machineExists => lockState' = bolt']_vars

\* A door that the API shows as unlocked always has a machine, or is about to get
\* one: between the two writes of UnlockDoorAsync only.  (Where the hardware
\* reports nothing: UpdateDoorStates creates no machine.)
UnlockedHasMachine ==
    lockStates # "Locked" =>
        machineExists \/ \E p \in Process : Running(p, {"unlock"}, "written")

\* The machine's own promise survives its composition with the service, which
\* reports Locked to it in the middle of its own attempt.
MachineNeverStranded == Machine!NeverStranded

\* Once requests cease and the surroundings come to rest, every operation ends
\* and the machine settles, if the door still has its row and the last report was
\* not Unknown, which leaves a paused machine deaf to the closing of the door.
DoorSettles ==
    <>[][~(Request \/ Surroundings)]_vars /\ <>[](row # NoDoor) /\ <>[](lockState # "Unknown")
        => <>[](Quiescent /\ Machine!Settled)

\* "Trigger: Lock transitions to unlocked (by any method ...)" and, at zero,
\* "CodeMaster issues LockAsync" (design document, 6.3): with nothing under way a
\* door that is unlocked and shut has a lock attempt coming.
UnlockedBoltIsPursued ==
    Quiescent /\ machineExists /\ enabled /\ bolt = "Unlocked" /\ contactStates = "Closed"
        => status \in {"CountingDown", "JammedRetry"}
=============================================================================
