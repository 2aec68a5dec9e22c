------------------------ MODULE DoorOperationsProofs ------------------------
(***************************************************************************)
(* Proofs about DoorOperations for any callers, callbacks, timers and      *)
(* settings.  The machine is used as a part: a lemma for each thing that   *)
(* the service does to it, and one for the steps that it takes by itself.  *)
(***************************************************************************)
EXTENDS DoorOperations, TLAPS

\* What a step of the service does: the disjuncts of Next, an operation's step by step.
LEMMA NextSplit ==
    ASSUME Next
    PROVE  \/ Request
           \/ \E p \in Process :
                \/ Publish(p) \/ PublishThrows(p) \/ WriteState(p) \/ Construct(p) \/ Tell(p)
           \/ \E w \in Worker :
                \/ CallLockFromTimer(w) \/ LockFromTimerFindsNoDoor(w) \/ ReturnToTimer(w)
           \/ MachineStep
           \/ Connect
           \/ Surroundings
  BY DEF Next, Step

----------------------------------------------------------------------------
(* The machine as a part *)

\* Each timer operation keeps the timers in their ranges and apart.
TimersOK ==
    /\ countdownTimer \in Timer \cup {NoTimer}
    /\ retryTimer \in Timer \cup {NoTimer}
    /\ countdowns \subseteq Timer
    /\ retries \subseteq Timer
    /\ countdowns \cap retries = {}
    /\ countdownTimer \notin retries
    /\ retryTimer \notin countdowns

LEMMA TimersKept ==
    ASSUME TimersOK
    PROVE  /\ Machine!CancelAllTimers => TimersOK'
           /\ Machine!CancelCountdownTimer /\ Machine!KeepRetryTimer => TimersOK'
           /\ Machine!ArmCountdownTimer /\ Machine!KeepRetryTimer => TimersOK'
           /\ Machine!ArmRetryTimer /\ Machine!KeepCountdownTimer => TimersOK'
           /\ Machine!CancelRetryTimer /\ Machine!ArmCountdownTimer => TimersOK'
           /\ Machine!CancelCountdownTimer /\ Machine!ArmRetryTimer => TimersOK'
           /\ UNCHANGED Machine!timers => TimersOK'
  <1> USE TimerAssumption
      DEF TimersOK, Machine!CancelAllTimers, Machine!CancelCountdownTimer,
          Machine!CancelRetryTimer, Machine!KeepCountdownTimer, Machine!KeepRetryTimer
  <1>1. Machine!CancelAllTimers => TimersOK'
    OBVIOUS
  <1>2. Machine!CancelCountdownTimer /\ Machine!KeepRetryTimer => TimersOK'
    OBVIOUS
  <1>3. Machine!ArmCountdownTimer /\ Machine!KeepRetryTimer => TimersOK'
    BY DEF Machine!ArmCountdownTimer, Machine!FreeTimer
  <1>4. Machine!ArmRetryTimer /\ Machine!KeepCountdownTimer => TimersOK'
    BY DEF Machine!ArmRetryTimer, Machine!FreeTimer
  <1>5. Machine!CancelRetryTimer /\ Machine!ArmCountdownTimer => TimersOK'
    BY DEF Machine!ArmCountdownTimer, Machine!FreeTimer
  <1>6. Machine!CancelCountdownTimer /\ Machine!ArmRetryTimer => TimersOK'
    BY DEF Machine!ArmRetryTimer, Machine!FreeTimer
  <1>7. UNCHANGED Machine!timers => TimersOK'
    BY DEF Machine!timers
  <1>8. QED
    BY <1>1, <1>2, <1>3, <1>4, <1>5, <1>6, <1>7

\* Where the callbacks stand after one of them has moved.
Moved(w, from, to) ==
    /\ attempt[w] \in from
    /\ \E a \in to : attempt' = [attempt EXCEPT ![w] = a]

LEMMA MovedType ==
    ASSUME Machine!TypeOK, NEW w \in Worker, NEW from, NEW to, to \subseteq Machine!AttemptState,
           Moved(w, from, to)
    PROVE  /\ attempt' \in [Worker -> Machine!AttemptState]
           /\ attempt'[w] \in to
           /\ \A v \in Worker \ {w} : attempt'[v] = attempt[v]
  BY DEF Machine!TypeOK, Moved

\* A report of the lock keeps the machine's types, and arms what its status waits for.
LEMMA LockReported ==
    ASSUME Machine!TypeOK, NEW r \in Machine!LockState, Machine!OnLockStateChanged(r)
    PROVE  /\ Machine!TypeOK'
           /\ attempt' = attempt
           /\ lockState' = r
           /\ Machine!NeverStranded => Machine!NeverStranded'
  <1> USE DEF Machine!OnLockStateChanged
  <1>1. TimersOK'
    <2>1. TimersOK
      BY DEF Machine!TypeOK, TimersOK
    <2>2. QED
      BY <2>1, TimersKept
  <1>2. status' \in Machine!AutoLockStatus
    BY DEF Machine!TypeOK, Machine!AutoLockStatus
  <1>3. Machine!TypeOK'
    BY <1>1, <1>2 DEF Machine!TypeOK, TimersOK, Machine!config
  <1>4. \/ UNCHANGED <<status, Machine!timers>>
        \/ status' = "CountingDown" /\ countdowns' # {}
        \/ status' = "JammedRetry" /\ retries' # {}
        \/ status' \notin {"CountingDown", "JammedRetry"}
    BY DEF Machine!ArmCountdownTimer, Machine!ArmRetryTimer
  <1>5. Machine!NeverStranded => Machine!NeverStranded'
    BY <1>4 DEF Machine!NeverStranded, Machine!Active, Machine!timers
  <1>6. QED
    BY <1>3, <1>5

\* And so does a report of the contact.
LEMMA ContactReported ==
    ASSUME Machine!TypeOK, NEW c \in Machine!DoorContactState, Machine!OnDoorContactChanged(c)
    PROVE  /\ Machine!TypeOK'
           /\ attempt' = attempt
           /\ lockState' = lockState
           /\ Machine!NeverStranded => Machine!NeverStranded'
  <1> USE DEF Machine!OnDoorContactChanged
  <1>1. TimersOK'
    <2>1. TimersOK
      BY DEF Machine!TypeOK, TimersOK
    <2>2. QED
      BY <2>1, TimersKept
  <1>2. status' \in Machine!AutoLockStatus
    BY DEF Machine!TypeOK, Machine!AutoLockStatus
  <1>3. Machine!TypeOK'
    BY <1>1, <1>2 DEF Machine!TypeOK, TimersOK, Machine!config
  <1>4. \/ UNCHANGED <<status, Machine!timers>>
        \/ status' = "CountingDown" /\ countdowns' # {}
        \/ status' \notin {"CountingDown", "JammedRetry"}
    BY DEF Machine!ArmCountdownTimer
  <1>5. Machine!NeverStranded => Machine!NeverStranded'
    BY <1>4 DEF Machine!NeverStranded, Machine!Active, Machine!timers
  <1>6. QED
    BY <1>3, <1>5

\* An answer that reaches the callback leaves it under way.
LEMMA Answered ==
    ASSUME Machine!TypeOK, NEW w \in Worker, NEW outcome \in {"succeeded", "failed"},
           Machine!Answer(w, outcome)
    PROVE  /\ Machine!TypeOK'
           /\ lockState' = lockState
           /\ Moved(w, {"requested"}, {outcome})
           /\ Machine!NeverStranded => Machine!NeverStranded'
  <1> USE DEF Machine!Answer, Machine!Goes
  <1>1. Moved(w, {"requested"}, {outcome})
    BY DEF Moved
  <1>2. attempt' \in [Worker -> Machine!AttemptState] /\ attempt'[w] = outcome
    BY <1>1, MovedType DEF Machine!AttemptState
  <1>3. Machine!TypeOK'
    BY <1>2 DEF Machine!TypeOK, Machine!config, Machine!timers
  <1>4. Machine!NeverStranded'
    BY <1>2 DEF Machine!NeverStranded, Machine!Active
  <1>5. QED
    BY <1>1, <1>3, <1>4

\* A machine that is built waits for nothing.
LEMMA Constructed ==
    ASSUME NEW s \in Config, Machine!Construct(s.autoLock, s.retry)
    PROVE  /\ Machine!TypeOK'
           /\ Machine!NeverStranded'
           /\ lockState' = "Locked"
           /\ attempt' = [w \in Worker |-> "none"]
  BY TimerAssumption
  DEF Config, Machine!Construct, Machine!TypeOK, Machine!NeverStranded, Machine!AutoLockStatus,
      Machine!LockState, Machine!DoorContactState, Machine!AttemptState

\* A timer that fires puts an idle callback under way.
LEMMA Fired ==
    ASSUME Machine!TypeOK, Machine!Fire
    PROVE  /\ Machine!TypeOK'
           /\ lockState' = lockState
           /\ \E w \in Worker : Moved(w, {"none"}, {"countdownFired", "retryFired"})
           /\ Machine!NeverStranded => Machine!NeverStranded'
  <1>1. PICK w \in Worker :
            (\E t \in countdowns : Machine!FireCountdown(w, t)) \/ (\E t \in retries : Machine!FireRetry(w, t))
    BY DEF Machine!Fire
  <1>2. Moved(w, {"none"}, {"countdownFired", "retryFired"})
    BY <1>1 DEF Moved, Machine!FireCountdown, Machine!FireRetry, Machine!Goes
  <1>3. attempt' \in [Worker -> Machine!AttemptState] /\ attempt'[w] # "none"
    BY <1>2, MovedType DEF Machine!AttemptState
  <1>4. Machine!TypeOK'
    BY <1>1, <1>3 DEF Machine!FireCountdown, Machine!FireRetry, Machine!TypeOK, Machine!config
  <1>5. Machine!NeverStranded'
    BY <1>1, <1>3 DEF Machine!NeverStranded, Machine!Active, Machine!FireCountdown, Machine!FireRetry
  <1>6. lockState' = lockState
    BY <1>1 DEF Machine!FireCountdown, Machine!FireRetry
  <1>7. QED
    BY <1>2, <1>4, <1>5, <1>6

\* Where a callback stands when it is neither idle nor awaiting an answer, and where it
\* may go from there by itself.
Underway == {"countdownFired", "retryFired", "countdownDisposed", "retryDisposed",
             "succeeded", "failed"}
Reached == {"none", "countdownDisposed", "retryDisposed", "requested"}

\* A callback that moves before it has its answer goes on, and does not touch the status.
LEMMA RanOn ==
    ASSUME Machine!TypeOK, NEW w \in Worker,
           \/ Machine!DisposeCountdown(w) \/ Machine!DisposeRetry(w)
           \/ Machine!RequestAfterCountdown(w) \/ Machine!RequestAfterRetry(w)
    PROVE  /\ Machine!TypeOK'
           /\ lockState' = lockState
           /\ Moved(w, Underway \ {"succeeded", "failed"}, Reached \ {"none"})
           /\ Machine!NeverStranded'
  <1> USE DEF Machine!DisposeCountdown, Machine!DisposeRetry,
              Machine!RequestAfterCountdown, Machine!RequestAfterRetry
  <1>1. Moved(w, Underway \ {"succeeded", "failed"}, Reached \ {"none"})
    BY DEF Moved, Machine!Goes, Underway, Reached
  <1>2. attempt' \in [Worker -> Machine!AttemptState] /\ attempt'[w] # "none"
    BY <1>1, MovedType DEF Machine!AttemptState, Reached
  <1>3. Machine!TypeOK'
    BY <1>2, TimerAssumption DEF Machine!TypeOK, Machine!config
  <1>4. Machine!NeverStranded'
    BY <1>2 DEF Machine!NeverStranded, Machine!Active
  <1>5. QED
    BY <1>1, <1>3, <1>4

LEMMA Succeeded ==
    ASSUME Machine!TypeOK, NEW w \in Worker, Machine!ApplySuccess(w)
    PROVE  /\ Machine!TypeOK'
           /\ lockState' = "Locked"
           /\ Moved(w, {"succeeded"}, {"none"})
           /\ Machine!NeverStranded'
  <1> USE DEF Machine!ApplySuccess
  <1>1. Moved(w, {"succeeded"}, {"none"})
    BY DEF Moved, Machine!Goes
  <1>2. attempt' \in [Worker -> Machine!AttemptState]
    BY <1>1, MovedType DEF Machine!AttemptState
  <1>3. TimersOK'
    <2>1. TimersOK
      BY DEF Machine!TypeOK, TimersOK
    <2>2. QED
      BY <2>1, TimersKept
  <1>4. Machine!TypeOK'
    BY <1>2, <1>3
    DEF Machine!TypeOK, TimersOK, Machine!config, Machine!LockState, Machine!AutoLockStatus
  <1>5. Machine!NeverStranded'
    BY DEF Machine!NeverStranded
  <1>6. QED
    BY <1>1, <1>4, <1>5

LEMMA FailureApplied ==
    ASSUME Machine!TypeOK, NEW w \in Worker, Machine!ApplyFailure(w)
    PROVE  /\ Machine!TypeOK'
           /\ lockState' = lockState
           /\ Moved(w, {"failed"}, {"none"})
           /\ Machine!NeverStranded'
  <1> USE DEF Machine!ApplyFailure
  <1>1. Moved(w, {"failed"}, {"none"})
    BY DEF Moved, Machine!Goes
  <1>2. attempt' \in [Worker -> Machine!AttemptState]
    BY <1>1, MovedType DEF Machine!AttemptState
  <1>3. TimersOK'
    <2>1. TimersOK
      BY DEF Machine!TypeOK, TimersOK
    <2>2. QED
      BY <2>1, TimersKept
  <1>4. Machine!TypeOK'
    BY <1>2, <1>3 DEF Machine!TypeOK, TimersOK, Machine!config, Machine!AutoLockStatus
  <1>5. Machine!NeverStranded'
    BY DEF Machine!NeverStranded, Machine!ArmRetryTimer
  <1>6. QED
    BY <1>1, <1>4, <1>5

\* All of a callback's own steps.
LEMMA Ran ==
    ASSUME Machine!TypeOK, NEW w \in Worker, Machine!Run(w)
    PROVE  /\ Machine!TypeOK'
           /\ lockState' = lockState \/ Machine!ApplySuccess(w)
           /\ Moved(w, Underway, Reached)
           /\ Machine!NeverStranded'
  <1>1. CASE \/ Machine!DisposeCountdown(w) \/ Machine!DisposeRetry(w)
             \/ Machine!RequestAfterCountdown(w) \/ Machine!RequestAfterRetry(w)
    BY <1>1, RanOn DEF Moved
  <1>2. CASE Machine!ApplySuccess(w)
    BY <1>2, Succeeded DEF Moved, Underway, Reached
  <1>3. CASE Machine!ApplyFailure(w)
    BY <1>3, FailureApplied DEF Moved, Underway, Reached
  <1>4. QED
    BY <1>1, <1>2, <1>3 DEF Machine!Run

----------------------------------------------------------------------------
(* Type correctness, and the machine's promise inside the service *)

\* What the calls are about.
ValueOf(call) ==
    CASE call = "lock" -> {"Locked"}
      [] call = "unlock" -> {"Unlocked"}
      [] call = "report" -> Machine!LockState
      [] call = "contact" -> Machine!DoorContactState

\* The invariant has three parts: what the service keeps, ...
ServiceTypes ==
    /\ machineExists \in BOOLEAN
    /\ lockStates \in Machine!LockState
    /\ contactStates \in Machine!DoorContactState
    /\ row \in Config \cup {NoDoor}
    /\ connected \in BOOLEAN
    /\ bolt \in {"Locked", "Unlocked"}
    /\ alone \in Process \cup {NoOp}

\* ... the operations, each with the value of its call, a callback's being a lock its machine
\* awaits, ...
OpTypes ==
    /\ op \in [Process -> Operation \cup {NoOp}]
    /\ \A p \in Process : op[p] # NoOp => op[p].value \in ValueOf(op[p].call)
    /\ \A w \in Worker : op[w] # NoOp => op[w].call = "lock" /\ attempt[w] = "requested"

\* ... and the machine: no callback is under way before there is one.
MachineInv ==
    /\ Machine!TypeOK /\ Machine!NeverStranded
    /\ ~machineExists => \A w \in Worker : attempt[w] = "none"

ServiceInv == ServiceTypes /\ OpTypes /\ MachineInv

LEMMA InvIsType == ServiceInv => TypeOK /\ MachineNeverStranded
  BY DEF ServiceInv, TypeOK, MachineNeverStranded, ServiceTypes, OpTypes, MachineInv

LEMMA ServiceInit == Init => ServiceInv
  <1> SUFFICES ASSUME Init
               PROVE  ServiceInv
    OBVIOUS
  <1>1. MachineInv
    BY TimerAssumption
    DEF Init, Machine!Init, MachineInv, Machine!TypeOK, Machine!NeverStranded,
        Machine!AutoLockStatus, Machine!LockState, Machine!DoorContactState, Machine!AttemptState
  <1>2. ServiceTypes
    BY SettingAssumption
    DEF Init, ServiceTypes, Machine!LockState, Machine!DoorContactState, Config
  <1>3. OpTypes
    BY DEF Init, OpTypes, Process
  <1>4. QED
    BY <1>1, <1>2, <1>3 DEF ServiceInv

\* An operation begins ...
LEMMA BeginTypes ==
    ASSUME OpTypes, ServiceTypes, UNCHANGED attempt, NEW p \in Process,
           NEW call \in Call, NEW stage \in Stage, NEW value \in ValueOf(call), NEW seen \in Config,
           p \in Worker => call = "lock" /\ attempt[p] = "requested",
           Begin(p, call, stage, value, seen)
    PROVE  OpTypes' /\ alone' \in Process \cup {NoOp}
  <1>1. value \in Machine!LockState \cup Machine!DoorContactState
    BY DEF ValueOf, Call, Machine!LockState, Machine!DoorContactState
  <1>2. [call |-> call, stage |-> stage, value |-> value, seen |-> seen] \in Operation
    BY <1>1 DEF Operation
  <1>3. QED
    BY <1>2 DEF OpTypes, Begin

\* ... moves to another stage ...
LEMMA MovesTypes ==
    ASSUME OpTypes, UNCHANGED attempt, NEW p \in Process, op[p] # NoOp,
           NEW stage \in Stage, Moves(p, stage)
    PROVE  OpTypes'
  <1>1. [op[p] EXCEPT !.stage = stage] \in Operation
    BY DEF OpTypes, Operation
  <1>2. /\ [op[p] EXCEPT !.stage = stage].call = op[p].call
        /\ [op[p] EXCEPT !.stage = stage].value = op[p].value
    BY DEF OpTypes, Operation
  <1>3. QED
    BY <1>1, <1>2 DEF OpTypes, Moves

\* ... and ends.
LEMMA EndsTypes ==
    ASSUME OpTypes, NEW p \in Process, Ends(p),
           \A w \in Worker \ {p} : attempt'[w] = attempt[w]
    PROVE  OpTypes'
  BY DEF OpTypes, Ends

LEMMA RequestTypes == ServiceInv /\ Request => ServiceInv'
  <1> SUFFICES ASSUME ServiceTypes, OpTypes, MachineInv, Request
               PROVE  ServiceTypes' /\ OpTypes' /\ MachineInv'
    BY DEF ServiceInv
  <1>c. \A c \in Caller : c \in Process /\ c \notin Worker
    BY ProcessAssumption DEF Process
  <1>n. NoConfig \in Config
    <2>1. [autoLock |-> TRUE, retry |-> TRUE] \in Config
      BY DEF Config
    <2>2. QED
      BY <2>1 DEF NoConfig
  <1>m. ASSUME UNCHANGED machineVars, UNCHANGED machineExists
        PROVE  MachineInv' /\ UNCHANGED attempt
    BY <1>m DEF MachineInv, machineVars, Machine!TypeOK, Machine!NeverStranded, Machine!Active
  <1>1. ASSUME NEW c \in Caller, CallUnlock(c)
        PROVE  ServiceTypes' /\ OpTypes' /\ MachineInv'
    <2>1. row \in Config
      BY <1>1 DEF CallUnlock, ServiceTypes
    <2>2. MachineInv' /\ UNCHANGED attempt
      BY <1>1, <1>m DEF CallUnlock, serviceVars
    <2>3. OpTypes' /\ alone' \in Process \cup {NoOp}
      BY <1>1, <1>c, <2>1, <2>2, BeginTypes DEF CallUnlock, Call, Stage, ValueOf
    <2>4. QED
      BY <1>1, <2>2, <2>3 DEF CallUnlock, ServiceTypes, serviceVars, world
  <1>2. ASSUME NEW c \in Caller, CallLock(c)
        PROVE  ServiceTypes' /\ OpTypes' /\ MachineInv'
    <2>1. MachineInv' /\ UNCHANGED attempt
      BY <1>2, <1>m DEF CallLock, serviceVars
    <2>2. OpTypes' /\ alone' \in Process \cup {NoOp}
      BY <1>2, <1>c, <1>n, <2>1, BeginTypes DEF CallLock, Call, Stage, ValueOf
    <2>3. QED
      BY <1>2, <2>1, <2>2 DEF CallLock, ServiceTypes, serviceVars, world
  <1>3. ASSUME NEW c \in Caller, NEW r \in Report, ReportLock(c, r)
        PROVE  ServiceTypes' /\ OpTypes' /\ MachineInv'
    <2>1. MachineInv' /\ UNCHANGED attempt
      BY <1>3, <1>m DEF ReportLock
    <2>2. r \in Machine!LockState
      BY ReportAssumption DEF Machine!LockState
    <2>3. OpTypes' /\ alone' \in Process \cup {NoOp}
      BY <1>3, <1>c, <1>n, <2>1, <2>2, BeginTypes DEF ReportLock, Call, Stage, ValueOf
    <2>4. QED
      BY <1>3, <2>1, <2>2, <2>3 DEF ReportLock, ServiceTypes, world
  <1>4. ASSUME NEW c \in Caller, NEW s \in Contact, ReportContact(c, s)
        PROVE  ServiceTypes' /\ OpTypes' /\ MachineInv'
    <2>1. MachineInv' /\ UNCHANGED attempt
      BY <1>4, <1>m DEF ReportContact
    <2>2. s \in Machine!DoorContactState
      BY ContactAssumption DEF Machine!DoorContactState
    <2>3. OpTypes' /\ alone' \in Process \cup {NoOp}
      BY <1>4, <1>c, <1>n, <2>1, <2>2, BeginTypes DEF ReportContact, Call, Stage, ValueOf
    <2>4. QED
      BY <1>4, <2>1, <2>2, <2>3 DEF ReportContact, ServiceTypes, world
  <1>5. QED
    BY <1>1, <1>2, <1>3, <1>4 DEF Request

LEMMA StepTypes ==
    ASSUME ServiceInv, NEW p \in Process,
           Publish(p) \/ PublishThrows(p) \/ WriteState(p) \/ Construct(p) \/ Tell(p)
    PROVE  ServiceInv'
  <1> SUFFICES ServiceTypes' /\ OpTypes' /\ MachineInv'
    BY DEF ServiceInv
  <1>a. ServiceTypes /\ OpTypes /\ MachineInv
    BY DEF ServiceInv
  <1>m. ASSUME UNCHANGED machineVars, UNCHANGED machineExists
        PROVE  MachineInv' /\ UNCHANGED attempt
    BY <1>a, <1>m DEF MachineInv, machineVars, Machine!TypeOK, Machine!NeverStranded, Machine!Active
  <1>v. ASSUME NEW calls, NEW stage, Running(p, calls, stage), calls \subseteq {"lock", "unlock"}
        PROVE  op[p] # NoOp /\ op[p].value \in {"Locked", "Unlocked"}
    BY <1>a, <1>v DEF Running, OpTypes, ValueOf
  <1>1. CASE Publish(p)
    <2>1. MachineInv' /\ UNCHANGED attempt
      BY <1>1, <1>m DEF Publish, serviceVars
    <2>2. OpTypes'
      BY <1>1, <1>a, <1>v, <2>1, MovesTypes DEF Publish, Stage
    <2>3. QED
      BY <1>1, <1>a, <1>v, <2>1, <2>2 DEF Publish, Moves, ServiceTypes, serviceVars
  <1>2. CASE PublishThrows(p)
    <2>1. ServiceTypes'
      BY <1>2, <1>a, <1>v DEF PublishThrows, ServiceTypes, serviceVars
    <2>2. CASE p \in Worker
      <3>1. Machine!Answer(p, "failed")
        BY <1>2, <2>2 DEF PublishThrows
      <3>2. Machine!TypeOK' /\ Machine!NeverStranded' /\ Moved(p, {"requested"}, {"failed"})
        BY <1>a, <2>2, <3>1, Answered DEF MachineInv
      <3>3. machineExists /\ machineExists'
        BY <1>2, <1>a, <2>2, <3>2 DEF PublishThrows, serviceVars, MachineInv, Moved, ServiceTypes
      <3>4. OpTypes'
        BY <1>2, <1>a, <2>2, <3>2, MovedType, EndsTypes
        DEF PublishThrows, MachineInv, Machine!AttemptState
      <3>5. QED
        BY <2>1, <3>2, <3>3, <3>4 DEF MachineInv
    <2>3. CASE p \notin Worker
      <3>1. MachineInv' /\ UNCHANGED attempt
        BY <1>2, <2>3, <1>m DEF PublishThrows, serviceVars
      <3>2. OpTypes'
        BY <1>2, <1>a, <3>1, EndsTypes DEF PublishThrows
      <3>3. QED
        BY <2>1, <3>1, <3>2
    <2>4. QED
      BY <2>2, <2>3
  <1>3. CASE WriteState(p)
    <2>1. MachineInv' /\ UNCHANGED attempt
      BY <1>3, <1>m DEF WriteState
    <2>2. OpTypes'
      BY <1>3, <1>a, <1>v, <2>1, MovesTypes DEF WriteState, Stage
    <2>3. QED
      BY <1>3, <1>a, <1>v, <2>1, <2>2
      DEF WriteState, Moves, ServiceTypes, world, Machine!LockState
  <1>4. CASE Construct(p)
    <2>1. op[p].seen \in Config
      BY <1>4, <1>a DEF Construct, Running, OpTypes, Operation
    <2>2. Machine!TypeOK' /\ Machine!NeverStranded' /\ attempt' = [w \in Worker |-> "none"]
      BY <1>4, <2>1, Constructed DEF Construct
    <2>3. OpTypes'
      BY <1>4, <1>a, <2>2 DEF Construct, OpTypes, MachineInv
    <2>4. QED
      BY <1>4, <1>a, <2>2, <2>3 DEF Construct, ServiceTypes, MachineInv, world
  <1>5. CASE Tell(p)
    <2>1. op[p] # NoOp /\ op[p].call \in Call /\ op[p].value \in ValueOf(op[p].call)
      BY <1>5, <1>a DEF Tell, OpTypes, Operation
    <2>2. MachineInv' /\ UNCHANGED attempt
      <3>1. CASE machineExists /\ op[p].call = "contact"
        <4>1. Machine!OnDoorContactChanged(op[p].value) /\ op[p].value \in Machine!DoorContactState
          BY <1>5, <2>1, <3>1 DEF Tell, ValueOf
        <4>2. QED
          BY <1>5, <1>a, <3>1, <4>1, ContactReported DEF Tell, MachineInv, serviceVars
      <3>2. CASE machineExists /\ op[p].call # "contact"
        <4>1. Machine!OnLockStateChanged(op[p].value) /\ op[p].value \in Machine!LockState
          BY <1>5, <2>1, <3>2 DEF Tell, ValueOf, Call, Machine!LockState
        <4>2. QED
          BY <1>5, <1>a, <3>2, <4>1, LockReported DEF Tell, MachineInv, serviceVars
      <3>3. CASE ~machineExists
        BY <1>5, <3>3, <1>m DEF Tell, serviceVars
      <3>4. QED
        BY <3>1, <3>2, <3>3
    <2>3. OpTypes'
      <3>1. CASE p \in Worker
        BY <1>5, <1>a, <2>1, <2>2, <3>1, MovesTypes DEF Tell, Stage
      <3>2. CASE p \notin Worker
        BY <1>5, <1>a, <2>2, <3>2, EndsTypes DEF Tell
      <3>3. QED
        BY <3>1, <3>2
    <2>4. QED
      BY <1>5, <1>a, <2>2, <2>3 DEF Tell, Moves, ServiceTypes, serviceVars, world
  <1>6. QED
    BY <1>1, <1>2, <1>3, <1>4, <1>5

LEMMA CallbackTypes ==
    ASSUME ServiceInv, NEW w \in Worker,
           CallLockFromTimer(w) \/ LockFromTimerFindsNoDoor(w) \/ ReturnToTimer(w)
    PROVE  ServiceInv'
  <1> SUFFICES ServiceTypes' /\ OpTypes' /\ MachineInv'
    BY DEF ServiceInv
  <1>a. ServiceTypes /\ OpTypes /\ MachineInv
    BY DEF ServiceInv
  <1>w. w \in Process
    BY DEF Process
  <1>1. CASE CallLockFromTimer(w)
    <2>1. MachineInv' /\ UNCHANGED attempt
      BY <1>1, <1>a
      DEF CallLockFromTimer, serviceVars, MachineInv, machineVars, Machine!TypeOK,
          Machine!NeverStranded, Machine!Active
    <2>2. NoConfig \in Config
      <3>1. [autoLock |-> TRUE, retry |-> TRUE] \in Config
        BY DEF Config
      <3>2. QED
        BY <3>1 DEF NoConfig
    <2>3. OpTypes' /\ alone' \in Process \cup {NoOp}
      BY <1>1, <1>a, <1>w, <2>1, <2>2, BeginTypes DEF CallLockFromTimer, Call, Stage, ValueOf
    <2>4. QED
      BY <1>1, <1>a, <2>1, <2>3 DEF CallLockFromTimer, ServiceTypes, serviceVars, world
  <1>2. ASSUME NEW outcome \in {"succeeded", "failed"}, Machine!Answer(w, outcome),
               UNCHANGED <<serviceVars, world, alone>>,
               Ends(w) \/ (op[w] = NoOp /\ UNCHANGED op)
        PROVE  ServiceTypes' /\ OpTypes' /\ MachineInv'
    <2>1. Machine!TypeOK' /\ Machine!NeverStranded' /\ Moved(w, {"requested"}, {outcome})
      BY <1>2, <1>a, Answered DEF MachineInv
    <2>2. \A v \in Worker \ {w} : attempt'[v] = attempt[v]
      BY <1>a, <2>1, MovedType DEF MachineInv, Machine!AttemptState
    <2>3. machineExists /\ machineExists'
      BY <1>2, <1>a, <2>1 DEF serviceVars, MachineInv, Moved, ServiceTypes
    <2>4. OpTypes'
      <3>1. CASE Ends(w)
        BY <1>a, <1>w, <2>2, <3>1, EndsTypes
      <3>2. CASE op[w] = NoOp /\ UNCHANGED op
        BY <1>a, <2>2, <3>2 DEF OpTypes
      <3>3. QED
        BY <1>2, <3>1, <3>2
    <2>5. QED
      BY <1>2, <1>a, <2>1, <2>3, <2>4 DEF MachineInv, ServiceTypes, serviceVars, world
  <1>3. CASE LockFromTimerFindsNoDoor(w)
    BY <1>3, <1>2 DEF LockFromTimerFindsNoDoor
  <1>4. CASE ReturnToTimer(w)
    BY <1>4, <1>2 DEF ReturnToTimer
  <1>5. QED
    BY <1>1, <1>3, <1>4

\* The machine's own steps do not meet the operations: a callback that runs one awaits
\* its answer.
LEMMA MachineStepTypes == ServiceInv /\ MachineStep => ServiceInv'
  <1> SUFFICES ASSUME ServiceTypes, OpTypes, MachineInv, MachineStep
               PROVE  ServiceTypes' /\ OpTypes' /\ MachineInv'
    BY DEF ServiceInv
  <1>1. ASSUME NEW w \in Worker, NEW from, NEW to \in SUBSET Machine!AttemptState,
               "requested" \notin from, Moved(w, from, to),
               Machine!TypeOK', Machine!NeverStranded', alone' \in Process \cup {NoOp}
        PROVE  ServiceTypes' /\ OpTypes' /\ MachineInv'
    <2>1. attempt[w] # "requested" /\ \A v \in Worker \ {w} : attempt'[v] = attempt[v]
      BY <1>1, MovedType DEF MachineInv, Moved
    <2>2. OpTypes'
      BY <2>1 DEF MachineStep, OpTypes
    <2>3. QED
      BY <1>1, <2>2 DEF MachineStep, ServiceTypes, MachineInv, serviceVars, world
  <1>2. CASE Machine!Fire /\ UNCHANGED alone
    <2>1. PICK w \in Worker : Moved(w, {"none"}, {"countdownFired", "retryFired"})
      BY <1>2, Fired DEF MachineInv
    <2>2. {"countdownFired", "retryFired"} \in SUBSET Machine!AttemptState
      BY DEF Machine!AttemptState
    <2>3. Machine!TypeOK' /\ Machine!NeverStranded' /\ alone' \in Process \cup {NoOp}
      BY <1>2, Fired DEF MachineInv, ServiceTypes
    <2>4. QED
      BY <1>1, <2>1, <2>2, <2>3
  <1>3. ASSUME NEW w \in Worker, Machine!Run(w), alone' = IF alone = w THEN NoOp ELSE alone
        PROVE  ServiceTypes' /\ OpTypes' /\ MachineInv'
    <2>1. Machine!TypeOK' /\ Machine!NeverStranded' /\ Moved(w, Underway, Reached)
      BY <1>3, Ran DEF MachineInv
    <2>2. Reached \in SUBSET Machine!AttemptState /\ "requested" \notin Underway
      BY DEF Machine!AttemptState, Reached, Underway
    <2>3. QED
      BY <1>1, <1>3, <2>1, <2>2 DEF ServiceTypes
  <1>4. QED
    BY <1>2, <1>3 DEF MachineStep

LEMMA SurroundingsTypes == ServiceInv /\ (Connect \/ Surroundings) => ServiceInv'
  <1> SUFFICES ASSUME ServiceTypes, OpTypes, MachineInv, Connect \/ Surroundings
               PROVE  ServiceTypes' /\ OpTypes' /\ MachineInv'
    BY DEF ServiceInv
  <1>1. ASSUME UNCHANGED <<machineVars, serviceVars, op>>
        PROVE  OpTypes' /\ MachineInv'
    BY <1>1
    DEF OpTypes, MachineInv, machineVars, serviceVars, Machine!TypeOK, Machine!NeverStranded,
        Machine!Active
  <1>2. CASE Connect
    BY <1>1, <1>2 DEF Connect, ServiceTypes, serviceVars
  <1>3. CASE Disconnect
    BY <1>1, <1>3 DEF Disconnect, ServiceTypes, serviceVars
  <1>4. CASE TurnByHand
    BY <1>1, <1>4 DEF TurnByHand, ServiceTypes, serviceVars
  <1>5. CASE Configure
    BY <1>1, <1>5, SettingAssumption DEF Configure, ServiceTypes, serviceVars, Config
  <1>6. CASE DeleteOrCreate
    BY <1>1, <1>6, SettingAssumption DEF DeleteOrCreate, ServiceTypes, serviceVars, Config
  <1>7. CASE Restart
    <2>1. Machine!TypeOK' /\ Machine!NeverStranded' /\ attempt' = [w \in Worker |-> "none"]
      <3> DEFINE fresh == [autoLock |-> TRUE, retry |-> TRUE]
      <3>1. fresh \in Config /\ Machine!Construct(fresh.autoLock, fresh.retry)
        BY <1>7 DEF Restart, Config
      <3>2. QED
        BY <3>1, Constructed
    <2>2. OpTypes'
      BY <1>7 DEF Restart, OpTypes, Process
    <2>3. QED
      BY <1>7, <2>1, <2>2
      DEF Restart, ServiceTypes, MachineInv, world, Machine!LockState, Machine!DoorContactState
  <1>8. QED
    BY <1>2, <1>3, <1>4, <1>5, <1>6, <1>7 DEF Surroundings

LEMMA ServiceNext == ServiceInv /\ [Next]_vars => ServiceInv'
  <1> SUFFICES ASSUME ServiceInv, [Next]_vars
               PROVE  ServiceInv'
    OBVIOUS
  <1>1. CASE UNCHANGED vars
    BY <1>1
    DEF vars, ServiceInv, ServiceTypes, OpTypes, MachineInv, machineVars, serviceVars, world,
        Machine!TypeOK, Machine!NeverStranded, Machine!Active
  <1>2. CASE Next
    BY <1>2, NextSplit, RequestTypes, StepTypes, CallbackTypes, MachineStepTypes, SurroundingsTypes
  <1>3. QED
    BY <1>1, <1>2

LEMMA ServiceInvariant == Spec => []ServiceInv
  BY ServiceInit, ServiceNext, PTL DEF Spec

\* Every variable of the service and of the machine inside it keeps its type, and a
\* callback runs an operation only while its machine awaits the answer.
THEOREM ServiceTypeCorrect == Spec => []TypeOK
  BY ServiceInvariant, InvIsType, PTL

\* The promise of the machine survives its life inside the service: built late by an
\* unlock, told Locked in the middle of its own attempt, gone and back after a restart,
\* it never waits for a timer or an answer that will not come.
THEOREM MachineKeepsPromise == Spec => []MachineNeverStranded
  BY ServiceInvariant, InvIsType, PTL

----------------------------------------------------------------------------
(* A door that is shown unlocked has a machine *)

Unlocking(p) == Running(p, {"unlock"}, "written")

\* An unlock that has written its state stays where it is until it has told a machine.
LEMMA UnlockingStays ==
    ASSUME ServiceInv, [Next]_vars, NEW p \in Process, Unlocking(p), ~machineExists
    PROVE  machineExists' \/ Unlocking(p)' \/ lockStates' = "Locked"
  <1> USE DEF Unlocking, Running
  <1>t. op \in [Process -> Operation \cup {NoOp}] /\ machineExists \in BOOLEAN
    BY DEF ServiceInv, OpTypes, ServiceTypes
  <1>1. ASSUME op'[p] = op[p]
        PROVE  Unlocking(p)'
    BY <1>1
  <1>2. CASE Request
    <2>1. \A c \in Caller : op[c] = NoOp => c # p
      OBVIOUS
    <2>2. op'[p] = op[p]
      BY <1>2, <1>t, <2>1
      DEF Request, CallUnlock, CallLock, ReportLock, ReportContact, Begin, Process
    <2>3. QED
      BY <1>1, <2>2
  <1>3. ASSUME NEW q \in Process,
               Publish(q) \/ PublishThrows(q) \/ WriteState(q) \/ Construct(q) \/ Tell(q)
        PROVE  machineExists' \/ Unlocking(p)'
    <2>1. CASE q = p
      BY <1>3, <2>1, <1>t DEF Publish, PublishThrows, WriteState, Construct, Tell
    <2>2. CASE q # p
      BY <1>3, <2>2, <1>t, <1>1
      DEF Publish, PublishThrows, WriteState, Construct, Tell, Moves, Ends
    <2>3. QED
      BY <2>1, <2>2
  <1>4. ASSUME NEW w \in Worker,
               CallLockFromTimer(w) \/ LockFromTimerFindsNoDoor(w) \/ ReturnToTimer(w)
        PROVE  Unlocking(p)'
    <2>1. attempt[w] = "none"
      BY DEF ServiceInv, MachineInv
    <2>2. attempt[w] = "requested"
      BY <1>4
      DEF CallLockFromTimer, LockFromTimerFindsNoDoor, ReturnToTimer, Machine!Answer, Machine!Goes
    <2>3. QED
      BY <2>1, <2>2
  <1>5. CASE MachineStep \/ Connect \/ Disconnect \/ TurnByHand \/ Configure \/ DeleteOrCreate
    BY <1>5
    DEF MachineStep, Connect, Disconnect, TurnByHand, Configure, DeleteOrCreate
  <1>6. CASE Restart
    BY <1>6 DEF Restart
  <1>7. CASE UNCHANGED vars
    BY <1>7 DEF vars
  <1>8. QED
    BY <1>2, <1>3, <1>4, <1>5, <1>6, <1>7, NextSplit DEF Surroundings

LEMMA UnlockedNext ==
    ASSUME Report \subseteq {"Locked"}
    PROVE  ServiceInv /\ UnlockedHasMachine /\ [Next]_vars => UnlockedHasMachine'
  <1> SUFFICES ASSUME ServiceInv, UnlockedHasMachine, [Next]_vars, lockStates' # "Locked"
               PROVE  machineExists' \/ \E p \in Process : Unlocking(p)'
    BY DEF UnlockedHasMachine, Unlocking
  <1>1. ASSUME machineExists
        PROVE  machineExists'
    <2>1. CASE Restart
      BY <2>1 DEF Restart
    <2>2. CASE UNCHANGED machineExists
      BY <1>1, <2>2
    <2>3. machineExists' \/ Restart \/ UNCHANGED machineExists
      BY NextSplit
      DEF Request, CallUnlock, CallLock, ReportLock, ReportContact, Publish, PublishThrows,
          WriteState, Construct, Tell, CallLockFromTimer, LockFromTimerFindsNoDoor,
          ReturnToTimer, MachineStep, Connect, Surroundings, Disconnect, TurnByHand, Configure,
          DeleteOrCreate, serviceVars, vars
    <2>4. QED
      BY <1>1, <2>1, <2>2, <2>3
  <1>2. CASE lockStates = "Locked"
    <2>1. PICK p \in Process : WriteState(p)
      BY <1>2, NextSplit
      DEF Request, CallUnlock, CallLock, ReportLock, ReportContact, Publish, PublishThrows,
          Construct, Tell, CallLockFromTimer, LockFromTimerFindsNoDoor,
          ReturnToTimer, MachineStep, Connect, Surroundings, Disconnect, TurnByHand, Configure,
          DeleteOrCreate, Restart, serviceVars, vars
    <2>2. op \in [Process -> Operation \cup {NoOp}] /\ op[p].value \in ValueOf(op[p].call)
      BY <2>1 DEF WriteState, Running, ServiceInv, OpTypes
    <2>3. op[p].call = "unlock"
      BY <2>1, <2>2 DEF WriteState, Running, ValueOf
    <2>4. op'[p] \in Operation /\ op[p] \in Operation
      BY <2>1, <2>2 DEF WriteState, Running, Moves, Operation, Stage
    <2>5. op'[p].call = "unlock" /\ op'[p].stage = "written"
      BY <2>1, <2>2, <2>3, <2>4 DEF WriteState, Moves, Operation
    <2>6. op'[p] # NoOp
      BY <2>4, NoOpAssumption
    <2>7. QED
      BY <2>5, <2>6 DEF Unlocking, Running
  <1>3. CASE lockStates # "Locked"
    BY <1>1, <1>3, UnlockingStays DEF UnlockedHasMachine, Unlocking
  <1>4. QED
    BY <1>2, <1>3

\* A door that the API shows as unlocked has a machine, or the unlock that showed it is about to
\* build one - if the hardware reports nothing but Locked.
THEOREM UnlockedDoorsHaveMachines ==
    ASSUME Report \subseteq {"Locked"}
    PROVE  Spec => []UnlockedHasMachine
  <1>1. Init => UnlockedHasMachine
    BY DEF Init, UnlockedHasMachine
  <1>2. QED
    BY <1>1, UnlockedNext, ServiceInvariant, PTL DEF Spec

----------------------------------------------------------------------------
(* An operation that nothing overlapped *)

\* A publish moves the bolt: the client stays online and the lock never jams.
Honest == Fault \cap {"offline", "jam"} = {}

\* How far an operation has brought the bolt and the cache.
Effect(o) ==
    o.call \in {"lock", "unlock"} =>
        /\ o.stage \in {"published", "written", "told"} => bolt = o.value
        /\ o.stage \in {"written", "told"} => lockStates = o.value

\* A callback that was alone has its answer, and has yet to apply it.
Answering(p) == p \in Worker /\ attempt[p] = "succeeded"

\* While an operation is alone nothing else is under way that could change what it does, and
\* it has done so far what it is to do.
AloneInv ==
    /\ connected
    /\ alone # NoOp =>
        /\ \A q \in Process \ {alone} : op[q] = NoOp /\ ~Answering(q)
        /\ op[alone] # NoOp => Effect(op[alone])
        /\ op[alone] = NoOp => Answering(alone) /\ bolt = "Locked" /\ lockStates = "Locked"

\* An operation that begins is alone if nothing else is busy.
LEMMA BeginAlone ==
    ASSUME ServiceInv, AloneInv, UNCHANGED <<attempt, connected>>, NEW p \in Process,
           NEW call \in Call, NEW stage \in Stage, NEW value \in ValueOf(call), NEW seen \in Config,
           call \in {"lock", "unlock"} => stage = "found",
           Begin(p, call, stage, value, seen)
    PROVE  AloneInv'
  <1> DEFINE o == [call |-> call, stage |-> stage, value |-> value, seen |-> seen]
  <1>1. op \in [Process -> Operation \cup {NoOp}]
    BY DEF ServiceInv, OpTypes
  <1>2. o \in Operation
    BY DEF Operation, ValueOf, Call, Machine!LockState, Machine!DoorContactState
  <1>3. op'[p] = o /\ o # NoOp /\ \A q \in Process \ {p} : op'[q] = op[q]
    BY <1>1, <1>2, NoOpAssumption DEF Begin
  <1>4. alone' # NoOp => alone' = p /\ \A q \in Process \ {p} : ~Busy(q)
    BY DEF Begin
  <1>5. Effect(o)'
    BY DEF Effect
  <1>6. alone' # NoOp => \A q \in Process \ {p} : op'[q] = NoOp /\ ~Answering(q)'
    BY <1>3, <1>4 DEF Busy, Answering
  <1>7. QED
    BY <1>3, <1>4, <1>5, <1>6 DEF AloneInv, Effect

LEMMA AloneRequest == ServiceInv /\ AloneInv /\ Request => AloneInv'
  <1> SUFFICES ASSUME ServiceInv, AloneInv, Request
               PROVE  AloneInv'
    OBVIOUS
  <1>c. \A c \in Caller : c \in Process
    BY DEF Process
  <1>n. NoConfig \in Config
    <2>1. [autoLock |-> TRUE, retry |-> TRUE] \in Config
      BY DEF Config
    <2>2. QED
      BY <2>1 DEF NoConfig
  <1> USE DEF machineVars, world, Call, Stage, ValueOf
  <1>1. ASSUME NEW c \in Caller, CallUnlock(c)
        PROVE  AloneInv'
    <2>1. row \in Config
      BY <1>1 DEF CallUnlock, ServiceInv, ServiceTypes
    <2>2. QED
      BY <1>1, <1>c, <2>1, BeginAlone DEF CallUnlock
  <1>2. ASSUME NEW c \in Caller, CallLock(c)
        PROVE  AloneInv'
    BY <1>2, <1>c, <1>n, BeginAlone DEF CallLock
  <1>3. ASSUME NEW c \in Caller, NEW r \in Report, ReportLock(c, r)
        PROVE  AloneInv'
    <2>1. r \in Machine!LockState
      BY ReportAssumption DEF Machine!LockState
    <2>2. QED
      BY <1>3, <1>c, <1>n, <2>1, BeginAlone DEF ReportLock
  <1>4. ASSUME NEW c \in Caller, NEW s \in Contact, ReportContact(c, s)
        PROVE  AloneInv'
    <2>1. s \in Machine!DoorContactState
      BY ContactAssumption DEF Machine!DoorContactState
    <2>2. QED
      BY <1>4, <1>c, <1>n, <2>1, BeginAlone DEF ReportContact
  <1>5. QED
    BY <1>1, <1>2, <1>3, <1>4 DEF Request

\* While some operation is alone, it is the one that runs.
LEMMA AloneIsRunning ==
    ASSUME AloneInv, NEW p \in Process, op[p] # NoOp, alone # NoOp
    PROVE  alone = p /\ Effect(op[p])
  BY DEF AloneInv

LEMMA AloneStep ==
    ASSUME Honest, ServiceInv, AloneInv, NEW p \in Process,
           Publish(p) \/ PublishThrows(p) \/ WriteState(p) \/ Construct(p) \/ Tell(p)
    PROVE  AloneInv'
  <1>t. op \in [Process -> Operation \cup {NoOp}] /\ connected
    BY DEF ServiceInv, OpTypes, AloneInv
  <1>0. CASE alone' = NoOp
    BY <1>0, <1>t
    DEF AloneInv, Publish, PublishThrows, WriteState, Construct, Tell, Moves, world
  <1>1. ASSUME alone' # NoOp, UNCHANGED <<alone, attempt, connected>>, op[p] # NoOp,
               NEW stage \in Stage, op' = [op EXCEPT ![p].stage = stage],
               alone = p => Effect(op[p])'
        PROVE  AloneInv'
    <2>1. alone = p
      BY <1>1, AloneIsRunning
    <2>2. op'[p] \in Operation /\ \A q \in Process \ {p} : op'[q] = op[q]
      BY <1>t, <1>1 DEF Operation
    <2>3. op'[p] # NoOp
      BY <2>2, NoOpAssumption
    <2>4. \A q \in Process \ {p} : op[q] = NoOp /\ ~Answering(q)
      BY <1>1, <2>1 DEF AloneInv
    <2>5. QED
      BY <1>1, <1>t, <2>1, <2>2, <2>3, <2>4 DEF AloneInv, Answering, Effect
  <1>f. ASSUME op[p] # NoOp, NEW stage \in Stage, op' = [op EXCEPT ![p].stage = stage]
        PROVE  op'[p].call = op[p].call /\ op'[p].value = op[p].value /\ op'[p].stage = stage
    BY <1>f, <1>t DEF Operation
  <1>2. CASE Publish(p) /\ alone' # NoOp
    <2>1. bolt' = op[p].value
      BY <1>2, <1>t DEF Publish, Honest
    <2>2. op[p] # NoOp /\ op' = [op EXCEPT ![p].stage = "published"] /\ "published" \in Stage
      BY <1>2 DEF Publish, Moves, Running, Stage
    <2>3. Effect(op[p])'
      BY <2>1, <2>2, <1>f DEF Effect
    <2>4. QED
      BY <1>1, <1>2, <2>2, <2>3 DEF Publish, Moves, machineVars
  <1>3. CASE WriteState(p) /\ alone' # NoOp
    <2>1. op[p] # NoOp /\ op' = [op EXCEPT ![p].stage = "written"] /\ "written" \in Stage
      BY <1>3 DEF WriteState, Moves, Running, Stage
    <2>2. alone # NoOp /\ Effect(op[p])
      BY <1>3, <2>1, AloneIsRunning DEF WriteState, Moves
    <2>3. Effect(op[p])'
      BY <1>3, <2>1, <2>2, <1>f DEF Effect, WriteState, Running, world
    <2>4. QED
      BY <1>1, <1>3, <2>1, <2>3 DEF WriteState, Moves, machineVars, world
  <1>4. CASE Construct(p) /\ alone' # NoOp
    <2>1. alone = p /\ op[p] # NoOp /\ Effect(op[p])
      BY <1>4, AloneIsRunning DEF Construct, Running
    <2>2. attempt' = [w \in Worker |-> "none"]
      BY <1>4 DEF Construct, Machine!Construct
    <2>3. QED
      BY <1>4, <1>t, <2>1, <2>2 DEF Construct, AloneInv, Answering, Effect, world
  <1>5. CASE Tell(p) /\ alone' # NoOp
    <2>1. p \in Worker /\ UNCHANGED alone
      BY <1>5 DEF Tell, Moves
    <2>2. op[p] # NoOp /\ op' = [op EXCEPT ![p].stage = "told"] /\ "told" \in Stage
      BY <1>5, <2>1 DEF Tell, Moves, Stage
    <2>3. Effect(op[p]) /\ op[p].stage = "written"
      BY <1>5, <2>1, <2>2, AloneIsRunning DEF Tell
    <2>4. Effect(op[p])'
      BY <1>5, <2>2, <2>3, <1>f DEF Effect, Tell, serviceVars, world
    <2>5. UNCHANGED attempt
      BY <1>5
      DEF Tell, Machine!OnDoorContactChanged, Machine!OnLockStateChanged, machineVars
    <2>6. QED
      BY <1>1, <1>5, <2>1, <2>2, <2>4, <2>5 DEF Tell, world
  <1>6. QED
    BY <1>0, <1>2, <1>3, <1>4, <1>5 DEF PublishThrows

LEMMA AloneCallback ==
    ASSUME ServiceInv, AloneInv, NEW w \in Worker,
           CallLockFromTimer(w) \/ LockFromTimerFindsNoDoor(w) \/ ReturnToTimer(w)
    PROVE  AloneInv'
  <1>t. /\ op \in [Process -> Operation \cup {NoOp}]
        /\ attempt \in [Worker -> Machine!AttemptState]
        /\ w \in Process
    BY DEF ServiceInv, OpTypes, MachineInv, Machine!TypeOK, Process
  <1>1. CASE CallLockFromTimer(w)
    <2>1. NoConfig \in Config
      <3>1. [autoLock |-> TRUE, retry |-> TRUE] \in Config
        BY DEF Config
      <3>2. QED
        BY <3>1 DEF NoConfig
    <2>2. QED
      BY <1>1, <1>t, <2>1, BeginAlone
      DEF CallLockFromTimer, machineVars, world, Call, Stage, ValueOf
  <1>2. ASSUME NEW outcome \in {"succeeded", "failed"}, Machine!Answer(w, outcome)
        PROVE  /\ attempt[w] = "requested" /\ attempt'[w] = outcome
               /\ \A v \in Worker \ {w} : attempt'[v] = attempt[v]
    BY <1>2, <1>t DEF Machine!Answer, Machine!Goes
  <1>3. CASE LockFromTimerFindsNoDoor(w)
    <2>1. alone # NoOp => alone # w
      BY <1>2, <1>3 DEF LockFromTimerFindsNoDoor, AloneInv, Answering
    <2>2. QED
      BY <1>2, <1>3, <2>1
      DEF LockFromTimerFindsNoDoor, AloneInv, Answering, Effect, serviceVars, world
  <1>4. CASE ReturnToTimer(w)
    <2>1. op[w] # NoOp /\ op[w].call = "lock" /\ op[w].stage = "told"
      BY <1>4 DEF ReturnToTimer, Running
    <2>2. op[w].value = "Locked"
      BY <1>t, <2>1 DEF ServiceInv, OpTypes, ValueOf
    <2>3. alone # NoOp => alone = w /\ bolt = "Locked" /\ lockStates = "Locked"
      BY <1>t, <2>1, <2>2, AloneIsRunning DEF Effect
    <2>4. Machine!Answer(w, "succeeded") /\ UNCHANGED <<bolt, lockStates, connected, alone>>
          /\ op' = [op EXCEPT ![w] = NoOp]
      BY <1>4 DEF ReturnToTimer, Ends, serviceVars, world
    <2>5. op'[w] = NoOp /\ \A q \in Process \ {w} : op'[q] = op[q]
      BY <1>t, <2>4
    <2>6. \A q \in Process \ {w} : Answering(q)' <=> Answering(q)
      BY <1>2, <2>4 DEF Answering
    <2>7. Answering(w)'
      BY <1>2, <2>4 DEF Answering
    <2>8. QED
      BY <2>3, <2>4, <2>5, <2>6, <2>7 DEF AloneInv
  <1>5. QED
    BY <1>1, <1>3, <1>4

\* The steps of a machine's callbacks are not theirs who are alone.
LEMMA AloneMachineStep == ServiceInv /\ AloneInv /\ MachineStep => AloneInv'
  <1> SUFFICES ASSUME ServiceInv, AloneInv, MachineStep
               PROVE  AloneInv'
    OBVIOUS
  <1>t. Machine!TypeOK /\ \A w \in Worker : op[w] # NoOp => attempt[w] = "requested"
    BY DEF ServiceInv, OpTypes, MachineInv
  <1>u. UNCHANGED <<lockStates, bolt, connected, op>>
    BY DEF MachineStep, serviceVars, world
  <1>1. ASSUME NEW w \in Worker, NEW from, NEW to \in SUBSET Machine!AttemptState,
               Moved(w, from, to), "succeeded" \notin to, alone' = alone, alone # NoOp => alone # w
        PROVE  AloneInv'
    <2>1. \A q \in Process : Answering(q)' => Answering(q)
      BY <1>1, <1>t, MovedType DEF Answering
    <2>2. alone # NoOp /\ Answering(alone) => Answering(alone)'
      BY <1>1, <1>t, MovedType DEF Answering
    <2>3. QED
      BY <1>1, <1>u, <2>1, <2>2 DEF AloneInv, Effect
  <1>2. CASE Machine!Fire /\ UNCHANGED alone
    <2>1. PICK w \in Worker : Moved(w, {"none"}, {"countdownFired", "retryFired"})
      BY <1>2, <1>t, Fired
    <2>2. {"countdownFired", "retryFired"} \in SUBSET Machine!AttemptState
      BY DEF Machine!AttemptState
    <2>3. alone # NoOp => alone # w
      BY <2>1, <1>t DEF AloneInv, Answering, Moved
    <2>4. QED
      BY <1>1, <1>2, <2>1, <2>2, <2>3
  <1>3. ASSUME NEW w \in Worker, Machine!Run(w), alone' = IF alone = w THEN NoOp ELSE alone
        PROVE  AloneInv'
    <2>1. Moved(w, Underway, Reached) /\ Reached \in SUBSET Machine!AttemptState
      BY <1>3, <1>t, Ran DEF Machine!AttemptState, Reached
    <2>2. CASE alone = w
      BY <1>3, <1>u, <2>2 DEF AloneInv
    <2>3. CASE alone # w
      BY <1>1, <1>3, <2>1, <2>3 DEF Reached
    <2>4. QED
      BY <2>2, <2>3
  <1>4. QED
    BY <1>2, <1>3 DEF MachineStep

LEMMA AloneSurroundings ==
    ASSUME Honest, ServiceInv, AloneInv, Connect \/ Surroundings
    PROVE  AloneInv'
  <1>1. CASE Restart \/ TurnByHand
    BY <1>1 DEF Restart, TurnByHand, AloneInv, world
  <1>2. CASE Connect \/ Configure \/ DeleteOrCreate
    BY <1>2
    DEF Connect, Configure, DeleteOrCreate, AloneInv, Effect, Answering, serviceVars, machineVars
  <1>3. CASE Disconnect
    BY <1>3 DEF Disconnect, Honest
  <1>4. QED
    BY <1>1, <1>2, <1>3 DEF Surroundings

LEMMA AloneInvariant ==
    ASSUME Honest
    PROVE  Spec => []AloneInv
  <1>1. Init => AloneInv
    BY DEF Init, AloneInv
  <1>2. ServiceInv /\ AloneInv /\ [Next]_vars => AloneInv'
    <2> SUFFICES ASSUME ServiceInv, AloneInv, [Next]_vars
                 PROVE  AloneInv'
      OBVIOUS
    <2>1. CASE UNCHANGED vars
      BY <2>1 DEF vars, AloneInv, Effect, Answering, serviceVars, machineVars, world
    <2>2. CASE Next
      BY <2>2, NextSplit, AloneRequest, AloneStep, AloneCallback, AloneMachineStep, AloneSurroundings
    <2>3. QED
      BY <2>1, <2>2
  <1>3. QED
    BY <1>1, <1>2, ServiceInvariant, PTL DEF Spec

\* The step that applies a successful answer leaves cache and bolt alone, unless the process is
\* restarted by it.
LEMMA ApplyingKeeps ==
    ASSUME ServiceInv, Next, NEW w \in Worker, Machine!ApplySuccess(w)
    PROVE  UNCHANGED bolt /\ lockStates' \in {lockStates, "Locked"}
  <1>1. attempt[w] = "succeeded" /\ attempt'[w] = "none"
    BY DEF Machine!ApplySuccess, Machine!Goes, ServiceInv, MachineInv, Machine!TypeOK
  <1>2. ASSUME NEW p \in Worker, Machine!Answer(p, "failed")
        PROVE  FALSE
    BY <1>1, <1>2
    DEF Machine!Answer, Machine!Goes, ServiceInv, MachineInv, Machine!TypeOK
  <1>3. CASE Request
    BY <1>1, <1>3
    DEF Request, CallUnlock, CallLock, ReportLock, ReportContact, machineVars
  <1>4. ASSUME NEW p \in Process, Publish(p) \/ PublishThrows(p) \/ WriteState(p)
        PROVE  FALSE
    BY <1>1, <1>2, <1>4 DEF Publish, PublishThrows, WriteState, machineVars
  <1>5. ASSUME NEW p \in Process, Construct(p) \/ Tell(p)
        PROVE  UNCHANGED <<bolt, lockStates>>
    BY <1>5 DEF Construct, Tell, world, serviceVars
  <1>6. ASSUME NEW v \in Worker,
               CallLockFromTimer(v) \/ LockFromTimerFindsNoDoor(v) \/ ReturnToTimer(v)
        PROVE  UNCHANGED <<bolt, lockStates>>
    BY <1>6 DEF CallLockFromTimer, LockFromTimerFindsNoDoor, ReturnToTimer, world, serviceVars
  <1>7. CASE MachineStep \/ Connect \/ Disconnect \/ Configure \/ DeleteOrCreate
    BY <1>7 DEF MachineStep, Connect, Disconnect, Configure, DeleteOrCreate, world, serviceVars
  <1>8. CASE TurnByHand \/ Restart
    BY <1>1, <1>8 DEF TurnByHand, Restart, machineVars, world
  <1>9. QED
    BY <1>3, <1>4, <1>5, <1>6, <1>7, <1>8, NextSplit DEF Surroundings

LEMMA AloneSucceeds ==
    ASSUME ServiceInv, AloneInv, Next, alone # NoOp, Succeeds(alone)
    PROVE  lockStates' = bolt' /\ (machineExists => lockState' = bolt')
  <1>1. CASE /\ alone \in Caller
             /\ Running(alone, {"lock", "unlock"}, "written") /\ Tell(alone)
    <2>1. alone \in Process /\ op[alone] # NoOp /\ Effect(op[alone])
      BY <1>1 DEF AloneInv, Running, Process
    <2>2. op[alone].value = bolt /\ lockStates = bolt
      BY <1>1, <2>1 DEF Effect, Running
    <2>3. machineExists => Machine!OnLockStateChanged(op[alone].value)
      BY <1>1 DEF Running, Tell
    <2>4. QED
      BY <1>1, <2>2, <2>3 DEF Tell, serviceVars, world, Machine!OnLockStateChanged
  <1>2. CASE alone \in Worker /\ Machine!ApplySuccess(alone)
    <2>1. attempt[alone] = "succeeded" /\ lockState' = "Locked"
      BY <1>2 DEF Machine!ApplySuccess, Machine!Goes
    <2>2. op[alone] = NoOp
      BY <1>2, <2>1 DEF ServiceInv, OpTypes
    <2>3. bolt = "Locked" /\ lockStates = "Locked"
      BY <2>2 DEF AloneInv
    <2>4. QED
      BY <1>2, <2>1, <2>3, ApplyingKeeps
  <1>3. QED
    BY <1>1, <1>2 DEF Succeeds

\* An unlock, a lock or a whole auto-lock attempt that succeeds and that nothing else overlapped
\* leaves cache, machine and bolt in agreement, whatever raced, failed or was restarted before -
\* if the client stays online and the lock does not jam.
THEOREM UndisturbedOperationsAgree ==
    ASSUME Honest
    PROVE  Spec => AloneLeavesAgreement
  <1>1. ServiceInv /\ AloneInv /\ [Next]_vars =>
            [alone # NoOp /\ Succeeds(alone) =>
                /\ lockStates' = bolt'
                /\ machineExists => lockState' = bolt']_vars
    BY AloneSucceeds
  <1>2. QED
    BY <1>1, AloneInvariant, ServiceInvariant, PTL DEF Spec, AloneLeavesAgreement
----------------------------------------------------------------------------
(* The contract of the machine, inside the service *)

Contract == INSTANCE AutoLockContract WITH wake <- Machine!Scheduled

\* Between the step that builds the machine and the restart that loses it the machine keeps
\* the contract of AutoLockContract, and each of the two steps leaves it as the contract
\* begins.
LifeKeepsContract ==
    /\ Contract!Init
    /\ [][IF machineExists' = machineExists
            THEN [Contract!Next]_(Contract!vars)
            ELSE (Contract!Init)']_vars

\* A machine that was built with auto-lock off schedules nothing, and only such a machine is
\* Disabled; before there is a machine nothing is scheduled either.
Inert ==
    /\ status = "Disabled" => ~enabled
    /\ ~enabled => ~Machine!Scheduled

InertInv == Inert /\ (~machineExists => Contract!Init)

Keeps == [Contract!Next]_(Contract!vars)

\* What a report or an answer does to the timers, as the contract sees it.
LEMMA RestKeeps ==
    ASSUME Inert, enabled, UNCHANGED <<enabled, attempt>>,
           status' \in {"Idle", "Locked", "PausedDoorOpen"},
           Machine!CancelAllTimers \/ (Machine!CancelCountdownTimer /\ Machine!KeepRetryTimer)
    PROVE  Keeps /\ Inert'
  <1>1. Machine!Scheduled' => Machine!Scheduled
    BY DEF Machine!Scheduled, Machine!Active, Machine!CancelAllTimers,
           Machine!CancelCountdownTimer, Machine!CancelRetryTimer, Machine!KeepRetryTimer
  <1>2. Machine!Scheduled' \in {Machine!Scheduled, FALSE}
    BY <1>1 DEF Machine!Scheduled
  <1>3. Contract!Rest
    BY <1>2 DEF Inert, Contract!Rest, Contract!Resting
  <1>4. QED
    BY <1>3 DEF Keeps, Contract!Next, Inert

LEMMA DisabledKeeps ==
    ASSUME Inert, ~enabled, Machine!CancelAllTimers, UNCHANGED <<enabled, attempt>>,
           status' = "Disabled"
    PROVE  Keeps /\ Inert'
  <1>1. ~Machine!Scheduled /\ ~Machine!Scheduled'
    BY DEF Inert, Machine!Scheduled, Machine!Active, Machine!CancelAllTimers,
           Machine!CancelCountdownTimer, Machine!CancelRetryTimer
  <1>2. Machine!Scheduled' \in {Machine!Scheduled, FALSE}
    BY <1>1 DEF Machine!Scheduled
  <1>3. Contract!Rest
    BY <1>2 DEF Contract!Rest, Contract!Resting
  <1>4. QED
    BY <1>1, <1>3 DEF Keeps, Contract!Next, Inert

LEMMA TrackKeeps ==
    ASSUME Inert, enabled, UNCHANGED enabled, status' \in {"CountingDown", "JammedRetry"},
           Machine!ArmCountdownTimer \/ Machine!ArmRetryTimer
    PROVE  Keeps /\ Inert'
  <1>1. Machine!Scheduled' = TRUE
    BY DEF Machine!Scheduled, Machine!ArmCountdownTimer, Machine!ArmRetryTimer
  <1>2. Contract!Track
    BY <1>1 DEF Inert, Contract!Track, Contract!Waiting
  <1>3. QED
    BY <1>2 DEF Keeps, Contract!Next, Inert

LEMMA StayKeeps ==
    ASSUME UNCHANGED <<status, Machine!Scheduled>>
    PROVE  Keeps
  BY DEF Keeps, Contract!vars

LEMMA IgnoredKeeps ==
    ASSUME Inert, UNCHANGED <<status, enabled, Machine!timers, attempt>>
    PROVE  Keeps /\ Inert' /\ UNCHANGED Machine!Scheduled
  <1>1. UNCHANGED Machine!Scheduled
    BY DEF Machine!Scheduled, Machine!Active, Machine!timers
  <1>2. QED
    BY <1>1, StayKeeps DEF Inert

LEMMA LockReportKeeps ==
    ASSUME Inert, NEW r \in Machine!LockState, Machine!OnLockStateChanged(r)
    PROVE  Keeps /\ Inert'
  <1>1. \/ ~enabled /\ Machine!CancelAllTimers /\ status' = "Disabled"
        \/ /\ enabled /\ Machine!CancelAllTimers
           /\ status' \in {"Idle", "Locked", "PausedDoorOpen"}
        \/ /\ enabled /\ (Machine!ArmCountdownTimer \/ Machine!ArmRetryTimer)
           /\ status' \in {"CountingDown", "JammedRetry"}
        \/ UNCHANGED <<status, Machine!timers>>
    BY DEF Machine!OnLockStateChanged
  <1>2. UNCHANGED <<enabled, attempt>>
    BY DEF Machine!OnLockStateChanged, Machine!config
  <1>3. QED
    BY <1>1, <1>2, RestKeeps, DisabledKeeps, TrackKeeps, IgnoredKeeps

LEMMA ContactReportKeeps ==
    ASSUME Inert, NEW c \in Machine!DoorContactState, Machine!OnDoorContactChanged(c)
    PROVE  Keeps /\ Inert'
  <1>1. \/ ~enabled /\ Machine!CancelAllTimers /\ status' = "Disabled"
        \/ /\ enabled /\ Machine!CancelCountdownTimer /\ Machine!KeepRetryTimer
           /\ status' = "PausedDoorOpen"
        \/ enabled /\ Machine!ArmCountdownTimer /\ status' = "CountingDown"
        \/ UNCHANGED <<status, Machine!timers>>
    BY DEF Machine!OnDoorContactChanged
  <1>2. UNCHANGED <<enabled, attempt>>
    BY DEF Machine!OnDoorContactChanged, Machine!config
  <1>3. QED
    BY <1>1, <1>2, RestKeeps, DisabledKeeps, TrackKeeps, IgnoredKeeps

\* A callback that only goes on is a stutter of the contract: it was scheduled and is.
LEMMA GoingOnKeeps ==
    ASSUME Machine!TypeOK, Inert, NEW w \in Worker, UNCHANGED <<status, enabled>>,
           NEW from, NEW to, Moved(w, from, to), to \subseteq Machine!AttemptState \ {"none"},
           \/ "none" \notin from
           \/ countdowns \cup retries # {}
    PROVE  Keeps /\ Inert'
  <1>1. Machine!Scheduled
    BY DEF Machine!Scheduled, Machine!Active, Moved
  <1>2. attempt'[w] \in to
    BY MovedType
  <1>3. Machine!Scheduled'
    BY <1>2 DEF Machine!Scheduled, Machine!Active
  <1>4. UNCHANGED Machine!Scheduled
    BY <1>1, <1>3 DEF Machine!Scheduled
  <1>5. QED
    BY <1>1, <1>4, StayKeeps DEF Inert

LEMMA AnswerKeeps ==
    ASSUME Machine!TypeOK, Inert, NEW w \in Worker, NEW outcome \in {"succeeded", "failed"},
           Machine!Answer(w, outcome)
    PROVE  Keeps /\ Inert'
  <1>1. Moved(w, {"requested"}, {outcome}) /\ UNCHANGED <<status, enabled>>
    BY Answered DEF Machine!Answer, Machine!config
  <1>2. {outcome} \subseteq Machine!AttemptState \ {"none"}
    BY DEF Machine!AttemptState
  <1>3. QED
    BY <1>1, <1>2, GoingOnKeeps

LEMMA FireKeeps ==
    ASSUME Machine!TypeOK, Inert, Machine!Fire
    PROVE  Keeps /\ Inert'
  <1>1. PICK w \in Worker : Moved(w, {"none"}, {"countdownFired", "retryFired"})
    BY Fired
  <1>2. countdowns \cup retries # {} /\ UNCHANGED <<status, enabled>>
    BY DEF Machine!Fire, Machine!FireCountdown, Machine!FireRetry, Machine!config
  <1>3. {"countdownFired", "retryFired"} \subseteq Machine!AttemptState \ {"none"}
    BY DEF Machine!AttemptState
  <1>4. QED
    BY <1>1, <1>2, <1>3, GoingOnKeeps

LEMMA RunKeeps ==
    ASSUME Machine!TypeOK, Inert, NEW w \in Worker, Machine!Run(w)
    PROVE  Keeps /\ Inert'
  <1>1. CASE \/ Machine!DisposeCountdown(w) \/ Machine!DisposeRetry(w)
             \/ Machine!RequestAfterCountdown(w) \/ Machine!RequestAfterRetry(w)
    <2>1. Moved(w, Underway \ {"succeeded", "failed"}, Reached \ {"none"})
      BY <1>1, RanOn
    <2>2. UNCHANGED <<status, enabled>>
      BY <1>1
      DEF Machine!DisposeCountdown, Machine!DisposeRetry, Machine!RequestAfterCountdown,
          Machine!RequestAfterRetry, Machine!config
    <2>3. /\ Reached \ {"none"} \subseteq Machine!AttemptState \ {"none"}
          /\ "none" \notin Underway \ {"succeeded", "failed"}
      BY DEF Reached, Underway, Machine!AttemptState
    <2>4. QED
      BY <2>1, <2>2, <2>3, GoingOnKeeps
  <1>2. CASE Machine!ApplySuccess(w) \/ Machine!ApplyFailure(w)
    <2>1. Machine!Scheduled /\ enabled /\ status # "Disabled" /\ enabled' = enabled
      BY <1>2
      DEF Machine!ApplySuccess, Machine!ApplyFailure, Machine!Goes, Machine!Scheduled,
          Machine!Active, Machine!config, Inert
    <2>2. CASE status' \in {"Locked", "Idle"}
      <3>1. Machine!Scheduled' \in {Machine!Scheduled, FALSE}
        BY <2>1 DEF Machine!Scheduled
      <3>2. QED
        BY <2>1, <2>2, <3>1
        DEF Keeps, Inert, Contract!Next, Contract!Rest, Contract!Resting
    <2>3. CASE status' = "JammedRetry" /\ Machine!ArmRetryTimer
      BY <2>1, <2>3, TrackKeeps
    <2>4. QED
      BY <1>2, <2>2, <2>3 DEF Machine!ApplySuccess, Machine!ApplyFailure
  <1>3. QED
    BY <1>1, <1>2 DEF Machine!Run

\* A machine that is built is as the contract begins.
LEMMA ConstructKeeps ==
    ASSUME NEW autoLock, NEW retry, Machine!Construct(autoLock, retry)
    PROVE  (Contract!Init)' /\ Inert'
  BY DEF Machine!Construct, Contract!Init, Inert, Machine!Scheduled, Machine!Active

LEMMA UntouchedKeeps ==
    ASSUME InertInv, UNCHANGED <<machineVars, machineExists>>
    PROVE  Keeps /\ InertInv'
  <1>1. UNCHANGED <<status, enabled, Machine!timers, attempt>>
    BY DEF machineVars, Machine!timers
  <1>2. Keeps /\ Inert' /\ UNCHANGED Machine!Scheduled
    BY <1>1, IgnoredKeeps DEF InertInv
  <1>3. QED
    BY <1>1, <1>2 DEF InertInv, Contract!Init

\* A step of the service keeps the contract of a machine there is, or leaves it as it begins.
LEMMA LifeNext ==
    ASSUME ServiceInv, InertInv, [Next]_vars
    PROVE  /\ InertInv'
           /\ IF machineExists' = machineExists THEN Keeps ELSE (Contract!Init)'
  <1> DEFINE Goal == /\ InertInv'
                     /\ IF machineExists' = machineExists THEN Keeps ELSE (Contract!Init)'
  <1>a. Machine!TypeOK /\ OpTypes /\ machineExists \in BOOLEAN
    BY DEF ServiceInv, MachineInv, ServiceTypes
  <1>1. ASSUME UNCHANGED <<machineVars, machineExists>>
        PROVE  Goal
    BY <1>1, UntouchedKeeps
  <1>2. ASSUME Keeps, Inert', machineExists, machineExists'
        PROVE  Goal
    BY <1>2, <1>a DEF InertInv
  <1>3. ASSUME NEW w \in Worker, NEW outcome \in {"succeeded", "failed"},
               Machine!Answer(w, outcome), UNCHANGED machineExists
        PROVE  Goal
    <2>1. machineExists
      BY <1>3 DEF Machine!Answer, Machine!Goes, ServiceInv, MachineInv
    <2>2. Keeps /\ Inert'
      BY <1>3, <1>a, AnswerKeeps DEF InertInv
    <2>3. QED
      BY <1>2, <1>3, <2>1, <2>2
  <1>4. ASSUME NEW p \in Process,
               Publish(p) \/ PublishThrows(p) \/ WriteState(p) \/ Construct(p) \/ Tell(p)
        PROVE  Goal
    <2>1. CASE Publish(p) \/ WriteState(p)
      BY <1>1, <2>1 DEF Publish, WriteState, serviceVars
    <2>2. CASE PublishThrows(p)
      BY <1>1, <1>3, <2>2 DEF PublishThrows, serviceVars
    <2>3. CASE Construct(p)
      <3>1. (Contract!Init)' /\ Inert' /\ ~machineExists /\ machineExists'
        BY <2>3, ConstructKeeps DEF Construct
      <3>2. QED
        BY <3>1 DEF InertInv
    <2>4. CASE Tell(p)
      <3>1. op[p] # NoOp /\ op[p].call \in Call /\ op[p].value \in ValueOf(op[p].call)
        BY <2>4, <1>a DEF Tell, OpTypes, Operation
      <3>2. machineExists' = machineExists
        BY <2>4 DEF Tell, serviceVars
      <3>3. CASE machineExists /\ op[p].call = "contact"
        <4>1. Machine!OnDoorContactChanged(op[p].value) /\ op[p].value \in Machine!DoorContactState
          BY <2>4, <3>1, <3>3 DEF Tell, ValueOf
        <4>2. Keeps /\ Inert'
          BY <4>1, ContactReportKeeps DEF InertInv
        <4>3. QED
          BY <1>2, <3>2, <3>3, <4>2
      <3>4. CASE machineExists /\ op[p].call # "contact"
        <4>1. Machine!OnLockStateChanged(op[p].value) /\ op[p].value \in Machine!LockState
          BY <2>4, <3>1, <3>4 DEF Tell, ValueOf, Call, Machine!LockState
        <4>2. Keeps /\ Inert'
          BY <4>1, LockReportKeeps DEF InertInv
        <4>3. QED
          BY <1>2, <3>2, <3>4, <4>2
      <3>5. CASE ~machineExists
        BY <1>1, <2>4, <3>2, <3>5 DEF Tell
      <3>6. QED
        BY <3>3, <3>4, <3>5
    <2>5. QED
      BY <1>4, <2>1, <2>2, <2>3, <2>4
  <1>5. ASSUME NEW w \in Worker,
               CallLockFromTimer(w) \/ LockFromTimerFindsNoDoor(w) \/ ReturnToTimer(w)
        PROVE  Goal
    BY <1>1, <1>3, <1>5
    DEF CallLockFromTimer, LockFromTimerFindsNoDoor, ReturnToTimer, serviceVars
  <1>6. CASE MachineStep
    <2>1. machineExists /\ machineExists'
      BY <1>6 DEF MachineStep, serviceVars
    <2>2. Keeps /\ Inert'
      BY <1>6, <1>a, FireKeeps, RunKeeps DEF MachineStep, InertInv
    <2>3. QED
      BY <1>2, <2>1, <2>2
  <1>7. CASE Restart
    <2>1. (Contract!Init)' /\ Inert' /\ machineExists' = FALSE
      BY <1>7, ConstructKeeps DEF Restart
    <2>2. InertInv'
      BY <2>1 DEF InertInv
    <2>3. CASE machineExists
      BY <2>1, <2>2, <2>3
    <2>4. CASE ~machineExists
      <3>1. Contract!Init
        BY <2>4 DEF InertInv
      <3>2. UNCHANGED <<status, Machine!Scheduled>>
        BY <2>1, <3>1 DEF Contract!Init
      <3>3. QED
        BY <2>2, <3>2, <2>1, <2>4, <1>a, StayKeeps
    <2>5. QED
      BY <2>3, <2>4
  <1>8. CASE Request \/ Connect \/ Disconnect \/ TurnByHand \/ Configure \/ DeleteOrCreate
    BY <1>1, <1>8
    DEF Request, CallUnlock, CallLock, ReportLock, ReportContact, Connect, Disconnect, TurnByHand,
        Configure, DeleteOrCreate, serviceVars
  <1>9. CASE UNCHANGED vars
    BY <1>1, <1>9 DEF vars, serviceVars
  <1>10. QED
    BY <1>4, <1>5, <1>6, <1>7, <1>8, <1>9, NextSplit DEF Surroundings

LEMMA LifeInit == Init => InertInv /\ Contract!Init
  BY DEF Init, Machine!Init, InertInv, Inert, Contract!Init, Machine!Scheduled, Machine!Active

\* The machine's contract survives its life inside the service: from the unlock that builds it to
\* the restart that loses it the Status that the service shows moves as AutoLockContract says,
\* though requests, reports and the machine's own calls of LockDoorAsync reach it in any order.
THEOREM ServiceKeepsContract == Spec => LifeKeepsContract
  <1>1. ServiceInv /\ InertInv /\ [Next]_vars => InertInv'
    BY LifeNext
  <1>2. ServiceInv /\ InertInv /\ [Next]_vars =>
            [IF machineExists' = machineExists
               THEN [Contract!Next]_(Contract!vars)
               ELSE (Contract!Init)']_vars
    BY LifeNext DEF Keeps
  <1>3. QED
    BY <1>1, <1>2, LifeInit, ServiceInvariant, PTL DEF Spec, LifeKeepsContract
=============================================================================
