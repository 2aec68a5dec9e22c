--------------------------- MODULE AutoLockProofs ---------------------------
(***************************************************************************)
(* Proofs about AutoLock for any timers, any number of callbacks on the    *)
(* thread pool and any reports.                                            *)
(***************************************************************************)
EXTENDS AutoLock, TLAPS

\* A step is a report, a timer that fires, or a step of one callback.
LEMMA NextSplit ==
    ASSUME Next
    PROVE  \/ \E r \in Report : OnLockStateChanged(r)
           \/ \E c \in DoorContactState : OnDoorContactChanged(c)
           \/ \E w \in Worker : \E t \in countdowns : FireCountdown(w, t)
           \/ \E w \in Worker : \E t \in retries : FireRetry(w, t)
           \/ \E w \in Worker : DisposeCountdown(w)
           \/ \E w \in Worker : DisposeRetry(w)
           \/ \E w \in Worker : RequestAfterCountdown(w)
           \/ \E w \in Worker : RequestAfterRetry(w)
           \/ \E w \in Worker : \E outcome \in {"succeeded", "failed"} : Answer(w, outcome)
           \/ \E w \in Worker : ApplySuccess(w)
           \/ \E w \in Worker : ApplyFailure(w)
  <1>1. ASSUME Reported
        PROVE  \/ \E r \in Report : OnLockStateChanged(r)
               \/ \E c \in DoorContactState : OnDoorContactChanged(c)
    BY <1>1 DEF Reported
  <1>2. ASSUME Fire
        PROVE  \/ \E w \in Worker : \E t \in countdowns : FireCountdown(w, t)
               \/ \E w \in Worker : \E t \in retries : FireRetry(w, t)
    BY <1>2 DEF Fire
  <1>3. ASSUME NEW w \in Worker, Run(w)
        PROVE  \/ DisposeCountdown(w)
               \/ DisposeRetry(w)
               \/ RequestAfterCountdown(w)
               \/ RequestAfterRetry(w)
               \/ ApplySuccess(w)
               \/ ApplyFailure(w)
    BY <1>3 DEF Run
  <1>4. QED
    BY <1>1, <1>2, <1>3 DEF Next, Callback

----------------------------------------------------------------------------
(* Type correctness *)

LEMMA TypeInit == Init => TypeOK
  BY NoTimerAssumption
  DEF Init, TypeOK, AutoLockStatus, LockState, DoorContactState, AttemptState

\* Where a callback stands stays in its range.
LEMMA GoesType ==
    ASSUME TypeOK, NEW w \in Worker, NEW from, NEW to \in AttemptState, Goes(w, from, to)
    PROVE  attempt' \in [Worker -> AttemptState]
  BY DEF TypeOK, Goes

\* Each timer operation keeps the timers in their ranges and apart.
TimersOK ==
    /\ countdownTimer \in Timer \cup {NoTimer}
    /\ retryTimer \in Timer \cup {NoTimer}
    /\ countdowns \subseteq Timer
    /\ retries \subseteq Timer
    /\ countdowns \cap retries = {}
    /\ countdownTimer \notin retries
    /\ retryTimer \notin countdowns

LEMMA TimerOperations ==
    ASSUME TimersOK
    PROVE  /\ CancelAllTimers => TimersOK'
           /\ CancelCountdownTimer /\ KeepRetryTimer => TimersOK'
           /\ ArmCountdownTimer /\ KeepRetryTimer => TimersOK'
           /\ ArmRetryTimer /\ KeepCountdownTimer => TimersOK'
           /\ CancelRetryTimer /\ ArmCountdownTimer => TimersOK'
           /\ CancelCountdownTimer /\ ArmRetryTimer => TimersOK'
           /\ UNCHANGED timers => TimersOK'
  <1> USE NoTimerAssumption
      DEF TimersOK, CancelAllTimers, CancelCountdownTimer, CancelRetryTimer,
          KeepCountdownTimer, KeepRetryTimer
  <1>1. CancelAllTimers => TimersOK'
    OBVIOUS
  <1>2. CancelCountdownTimer /\ KeepRetryTimer => TimersOK'
    OBVIOUS
  <1>3. ArmCountdownTimer /\ KeepRetryTimer => TimersOK'
    BY DEF ArmCountdownTimer, FreeTimer
  <1>4. ArmRetryTimer /\ KeepCountdownTimer => TimersOK'
    BY DEF ArmRetryTimer, FreeTimer
  <1>5. CancelRetryTimer /\ ArmCountdownTimer => TimersOK'
    BY DEF ArmCountdownTimer, FreeTimer
  <1>6. CancelCountdownTimer /\ ArmRetryTimer => TimersOK'
    BY DEF ArmRetryTimer, FreeTimer
  <1>7. UNCHANGED timers => TimersOK'
    BY DEF timers
  <1>8. QED
    BY <1>1, <1>2, <1>3, <1>4, <1>5, <1>6, <1>7

LEMMA TypeNext == TypeOK /\ [Next]_vars => TypeOK'
  <1> SUFFICES ASSUME TypeOK, [Next]_vars
               PROVE  TypeOK'
    OBVIOUS
  <1> USE DEF AutoLockStatus, DoorContactState
  <1>a. TimersOK
    BY DEF TypeOK, TimersOK
  <1>1. ASSUME NEW r \in Report, OnLockStateChanged(r)
        PROVE  TypeOK'
    <2>1. TimersOK'
      BY <1>1, <1>a, TimerOperations DEF OnLockStateChanged
    <2>2. status' \in AutoLockStatus
      BY <1>1 DEF OnLockStateChanged, TypeOK
    <2>3. QED
      BY <1>1, <2>1, <2>2, ReportAssumption DEF OnLockStateChanged, TypeOK, TimersOK, config
  <1>2. ASSUME NEW c \in DoorContactState, OnDoorContactChanged(c)
        PROVE  TypeOK'
    <2>1. TimersOK'
      BY <1>2, <1>a, TimerOperations DEF OnDoorContactChanged
    <2>2. status' \in AutoLockStatus
      BY <1>2 DEF OnDoorContactChanged, TypeOK
    <2>3. QED
      BY <1>2, <2>1, <2>2 DEF OnDoorContactChanged, TypeOK, TimersOK, config
  <1>3. ASSUME NEW w \in Worker, NEW t \in countdowns, FireCountdown(w, t)
        PROVE  TypeOK'
    <2>1. attempt' \in [Worker -> AttemptState]
      BY <1>3, GoesType DEF FireCountdown, AttemptState
    <2>2. QED
      BY <1>3, <2>1 DEF FireCountdown, TypeOK, config
  <1>4. ASSUME NEW w \in Worker, NEW t \in retries, FireRetry(w, t)
        PROVE  TypeOK'
    <2>1. attempt' \in [Worker -> AttemptState]
      BY <1>4, GoesType DEF FireRetry, AttemptState
    <2>2. QED
      BY <1>4, <2>1 DEF FireRetry, TypeOK, config
  <1>5. ASSUME NEW w \in Worker, DisposeCountdown(w)
        PROVE  TypeOK'
    <2>1. attempt' \in [Worker -> AttemptState]
      BY <1>5, GoesType DEF DisposeCountdown, AttemptState
    <2>2. QED
      BY <1>5, <2>1 DEF DisposeCountdown, TypeOK, config
  <1>6. ASSUME NEW w \in Worker, DisposeRetry(w)
        PROVE  TypeOK'
    <2>1. attempt' \in [Worker -> AttemptState]
      BY <1>6, GoesType DEF DisposeRetry, AttemptState
    <2>2. QED
      BY <1>6, <2>1 DEF DisposeRetry, TypeOK, config
  <1>7. ASSUME NEW w \in Worker, RequestAfterCountdown(w)
        PROVE  TypeOK'
    <2>1. attempt' \in [Worker -> AttemptState]
      BY <1>7, GoesType DEF RequestAfterCountdown, AttemptState
    <2>2. QED
      BY <1>7, <2>1, NoTimerAssumption DEF RequestAfterCountdown, TypeOK, config
  <1>8. ASSUME NEW w \in Worker, RequestAfterRetry(w)
        PROVE  TypeOK'
    <2>1. attempt' \in [Worker -> AttemptState]
      BY <1>8, GoesType DEF RequestAfterRetry, AttemptState
    <2>2. QED
      BY <1>8, <2>1, NoTimerAssumption DEF RequestAfterRetry, TypeOK, config
  <1>9. ASSUME NEW w \in Worker, NEW outcome \in {"succeeded", "failed"}, Answer(w, outcome)
        PROVE  TypeOK'
    <2>1. attempt' \in [Worker -> AttemptState]
      BY <1>9, GoesType DEF Answer, AttemptState
    <2>2. QED
      BY <1>9, <2>1 DEF Answer, TypeOK, config, timers
  <1>10. ASSUME NEW w \in Worker, ApplySuccess(w)
         PROVE  TypeOK'
    <2>1. attempt' \in [Worker -> AttemptState]
      BY <1>10, GoesType DEF ApplySuccess, AttemptState
    <2>2. TimersOK'
      BY <1>10, <1>a, TimerOperations DEF ApplySuccess
    <2>3. QED
      BY <1>10, <2>1, <2>2 DEF ApplySuccess, TypeOK, TimersOK, config, LockState
  <1>11. ASSUME NEW w \in Worker, ApplyFailure(w)
         PROVE  TypeOK'
    <2>1. attempt' \in [Worker -> AttemptState]
      BY <1>11, GoesType DEF ApplyFailure, AttemptState
    <2>2. TimersOK'
      BY <1>11, <1>a, TimerOperations DEF ApplyFailure
    <2>3. status' \in AutoLockStatus
      BY <1>11 DEF ApplyFailure
    <2>4. QED
      BY <1>11, <2>1, <2>2, <2>3 DEF ApplyFailure, TypeOK, TimersOK, config
  <1>12. CASE UNCHANGED vars
    BY <1>12 DEF vars, config, timers, TypeOK
  <1>13. QED
    BY <1>1, <1>2, <1>3, <1>4, <1>5, <1>6, <1>7, <1>8, <1>9, <1>10, <1>11, <1>12, NextSplit

\* Every field keeps its type, and a timer field never refers to an armed timer
\* of the other kind.
THEOREM TypeCorrect == Spec => []TypeOK
  BY TypeInit, TypeNext, PTL DEF Spec

----------------------------------------------------------------------------
(* A waiting machine is never stranded *)

\* A callback that moves to a state other than "none" is active afterwards.
LEMMA GoesActive ==
    ASSUME TypeOK, NEW w \in Worker, NEW from, NEW to, to # "none", Goes(w, from, to)
    PROVE  Active(w)'
  BY DEF TypeOK, Goes, Active

\* A report or an answer that leaves the machine waiting has armed the timer for
\* it; only a report that is ignored leaves everything as it was.
LEMMA ReportArms ==
    ASSUME TypeOK,
           \/ \E r \in Report : OnLockStateChanged(r)
           \/ \E c \in DoorContactState : OnDoorContactChanged(c)
    PROVE  \/ UNCHANGED <<status, timers, attempt>>
           \/ status' = "CountingDown" /\ countdowns' # {}
           \/ status' = "JammedRetry" /\ retries' # {}
           \/ status' \notin {"CountingDown", "JammedRetry"}
  <1>1. ASSUME NEW r \in Report, OnLockStateChanged(r)
        PROVE  \/ UNCHANGED <<status, timers, attempt>>
               \/ status' = "CountingDown" /\ countdowns' # {}
               \/ status' = "JammedRetry" /\ retries' # {}
               \/ status' \notin {"CountingDown", "JammedRetry"}
    BY <1>1 DEF OnLockStateChanged, ArmCountdownTimer, ArmRetryTimer
  <1>2. ASSUME NEW c \in DoorContactState, OnDoorContactChanged(c)
        PROVE  \/ UNCHANGED <<status, timers, attempt>>
               \/ status' = "CountingDown" /\ countdowns' # {}
               \/ status' = "JammedRetry" /\ retries' # {}
               \/ status' \notin {"CountingDown", "JammedRetry"}
    BY <1>2 DEF OnDoorContactChanged, ArmCountdownTimer
  <1>3. QED
    BY <1>1, <1>2

\* A step of a callback before it applies its answer leaves it active, and the
\* status as it was.
LEMMA CallbackGoesOn ==
    ASSUME TypeOK, NEW w \in Worker,
           \/ \E t \in countdowns : FireCountdown(w, t)
           \/ \E t \in retries : FireRetry(w, t)
           \/ DisposeCountdown(w)
           \/ DisposeRetry(w)
           \/ RequestAfterCountdown(w)
           \/ RequestAfterRetry(w)
           \/ \E outcome \in {"succeeded", "failed"} : Answer(w, outcome)
    PROVE  Active(w)' /\ UNCHANGED <<status, lockState, contact>>
  BY GoesActive
  DEF FireCountdown, FireRetry, DisposeCountdown, DisposeRetry, RequestAfterCountdown,
      RequestAfterRetry, Answer

LEMMA StrandedNext == TypeOK /\ NeverStranded /\ [Next]_vars => NeverStranded'
  <1> SUFFICES ASSUME TypeOK, NeverStranded, [Next]_vars
               PROVE  NeverStranded'
    OBVIOUS
  <1>1. CASE \/ \E r \in Report : OnLockStateChanged(r)
             \/ \E c \in DoorContactState : OnDoorContactChanged(c)
    BY <1>1, ReportArms DEF NeverStranded, timers, Active
  <1>2. ASSUME NEW w \in Worker, Active(w)', UNCHANGED <<status, lockState, contact>>
        PROVE  NeverStranded'
    BY <1>2 DEF NeverStranded
  <1>3. ASSUME NEW w \in Worker, ApplySuccess(w)
        PROVE  NeverStranded'
    BY <1>3 DEF NeverStranded, ApplySuccess
  <1>4. ASSUME NEW w \in Worker, ApplyFailure(w)
        PROVE  NeverStranded'
    BY <1>4 DEF NeverStranded, ApplyFailure, ArmRetryTimer
  <1>5. CASE UNCHANGED vars
    BY <1>5 DEF NeverStranded, vars, timers, Active
  <1>6. QED
    BY <1>1, <1>2, <1>3, <1>4, <1>5, CallbackGoesOn, NextSplit

\* Whatever the unlocked cancellations of firing callbacks do to a timer that was
\* armed a moment before, a machine in CountingDown or JammedRetry has a timer or
\* a callback that will set its status again.
THEOREM WaitingIsNeverStranded == Spec => []NeverStranded
  <1>1. Init => NeverStranded
    BY DEF Init, NeverStranded
  <1>2. QED
    BY <1>1, StrandedNext, TypeCorrect, PTL DEF Spec

----------------------------------------------------------------------------
(* The status agrees with what is believed of the lock and the door *)

LEMMA TrackedNext == TypeOK /\ UnlockedIsTracked /\ [Next]_vars => UnlockedIsTracked'
  <1> SUFFICES ASSUME TypeOK, UnlockedIsTracked, [Next]_vars
               PROVE  UnlockedIsTracked'
    OBVIOUS
  <1> USE DEF UnlockedIsTracked, config
  <1>1. ASSUME NEW r \in Report, OnLockStateChanged(r)
        PROVE  UnlockedIsTracked'
    BY <1>1 DEF OnLockStateChanged
  <1>2. ASSUME NEW c \in DoorContactState, OnDoorContactChanged(c)
        PROVE  UnlockedIsTracked'
    BY <1>2 DEF OnDoorContactChanged
  <1>3. ASSUME UNCHANGED <<status, lockState, config>>
        PROVE  UnlockedIsTracked'
    BY <1>3
  <1>4. ASSUME NEW w \in Worker, ApplySuccess(w)
        PROVE  UnlockedIsTracked'
    BY <1>4 DEF ApplySuccess
  <1>5. ASSUME NEW w \in Worker, ApplyFailure(w)
        PROVE  UnlockedIsTracked'
    BY <1>5 DEF ApplyFailure
  <1>6. ASSUME NEW w \in Worker,
               \/ \E t \in countdowns : FireCountdown(w, t)
               \/ \E t \in retries : FireRetry(w, t)
               \/ DisposeCountdown(w)
               \/ DisposeRetry(w)
               \/ RequestAfterCountdown(w)
               \/ RequestAfterRetry(w)
               \/ \E outcome \in {"succeeded", "failed"} : Answer(w, outcome)
        PROVE  UNCHANGED <<status, lockState, config>>
    BY <1>6
    DEF FireCountdown, FireRetry, DisposeCountdown, DisposeRetry, RequestAfterCountdown,
        RequestAfterRetry, Answer
  <1>7. CASE UNCHANGED vars
    BY <1>7 DEF vars
  <1>8. QED
    BY <1>1, <1>2, <1>3, <1>4, <1>5, <1>6, <1>7, NextSplit

\* An enabled machine that believes its door unlocked never rests in Locked or
\* Disabled, in whatever order reports and late answers arrive.
THEOREM UnlockedTracked == Spec => []UnlockedIsTracked
  <1>1. Init => UnlockedIsTracked
    BY DEF Init, UnlockedIsTracked
  <1>2. QED
    BY <1>1, TrackedNext, TypeCorrect, PTL DEF Spec

----------------------------------------------------------------------------
(* What the current timers and the pause say of the door, if Unknown is never *)
(* reported                                                                   *)

DoorKnowledge ==
    /\ CountdownOnlyWhileClosed
    /\ RetryOutsideJammed
    /\ PausedMeansOpen

LEMMA KnowledgeNext ==
    ASSUME "Unknown" \notin Report, TypeOK, DoorKnowledge, [Next]_vars
    PROVE  DoorKnowledge'
  <1> USE DEF DoorKnowledge, CountdownOnlyWhileClosed, RetryOutsideJammed, PausedMeansOpen, config
  <1>1. ASSUME NEW r \in Report, OnLockStateChanged(r)
        PROVE  DoorKnowledge'
    BY <1>1, NoTimerAssumption
    DEF OnLockStateChanged, TypeOK, CancelAllTimers, CancelCountdownTimer, CancelRetryTimer,
        ArmCountdownTimer, ArmRetryTimer
  <1>2. ASSUME NEW c \in DoorContactState, OnDoorContactChanged(c)
        PROVE  DoorKnowledge'
    BY <1>2, NoTimerAssumption
    DEF OnDoorContactChanged, TypeOK, CancelAllTimers, CancelCountdownTimer, CancelRetryTimer,
        ArmCountdownTimer, KeepRetryTimer, timers, DoorContactState
  <1>3. ASSUME NEW w \in Worker,
               \/ \E t \in countdowns : FireCountdown(w, t)
               \/ \E t \in retries : FireRetry(w, t)
        PROVE  DoorKnowledge'
    BY <1>3 DEF FireCountdown, FireRetry
  <1>4. ASSUME NEW w \in Worker, DisposeCountdown(w) \/ DisposeRetry(w)
        PROVE  DoorKnowledge'
    BY <1>4 DEF DisposeCountdown, DisposeRetry
  <1>5. ASSUME NEW w \in Worker, RequestAfterCountdown(w) \/ RequestAfterRetry(w)
        PROVE  DoorKnowledge'
    BY <1>5, NoTimerAssumption DEF RequestAfterCountdown, RequestAfterRetry, TypeOK
  <1>6. ASSUME NEW w \in Worker, NEW outcome \in {"succeeded", "failed"}, Answer(w, outcome)
        PROVE  DoorKnowledge'
    BY <1>6 DEF Answer, timers
  <1>7. ASSUME NEW w \in Worker, ApplySuccess(w)
        PROVE  DoorKnowledge'
    BY <1>7, NoTimerAssumption
    DEF ApplySuccess, TypeOK, CancelAllTimers, CancelCountdownTimer, CancelRetryTimer
  <1>8. ASSUME NEW w \in Worker, ApplyFailure(w)
        PROVE  DoorKnowledge'
    BY <1>8, NoTimerAssumption
    DEF ApplyFailure, TypeOK, CancelAllTimers, CancelCountdownTimer, CancelRetryTimer,
        ArmRetryTimer, KeepCountdownTimer
  <1>9. CASE UNCHANGED vars
    BY <1>9 DEF vars, timers
  <1>10. QED
    BY <1>1, <1>2, <1>3, <1>4, <1>5, <1>6, <1>7, <1>8, <1>9, NextSplit

\* The three facts about the door hold together from Init on.
LEMMA KnowledgeInvariant ==
    ASSUME "Unknown" \notin Report
    PROVE  Spec => []DoorKnowledge
  <1>1. Init => DoorKnowledge
    BY DEF Init, DoorKnowledge, CountdownOnlyWhileClosed, RetryOutsideJammed, PausedMeansOpen
  <1>2. TypeOK /\ DoorKnowledge /\ [Next]_vars => DoorKnowledge'
    BY KnowledgeNext
  <1>3. QED
    BY <1>1, <1>2, TypeCorrect, PTL DEF Spec

\* The countdown that the field refers to is armed only while the door is
\* unlocked and shut.
THEOREM CountdownClosed ==
    ASSUME "Unknown" \notin Report
    PROVE  Spec => []CountdownOnlyWhileClosed
  BY KnowledgeInvariant, PTL DEF DoorKnowledge

\* A current retry outlives JammedRetry only on a door that is still unlocked.
THEOREM RetryOutside ==
    ASSUME "Unknown" \notin Report
    PROVE  Spec => []RetryOutsideJammed
  BY KnowledgeInvariant, PTL DEF DoorKnowledge

\* A paused machine has an open, unlocked door.
THEOREM PausedOpen ==
    ASSUME "Unknown" \notin Report
    PROVE  Spec => []PausedMeansOpen
  BY KnowledgeInvariant, PTL DEF DoorKnowledge

----------------------------------------------------------------------------
(* The machine implements its contract *)

\* A machine constructed with auto-lock off arms nothing and runs no callback, and
\* only such a machine is ever Disabled.
DisabledIsInert ==
    /\ status = "Disabled" => ~enabled
    /\ ~enabled => ~Scheduled

LEMMA InertNext == TypeOK /\ DisabledIsInert /\ [Next]_vars => DisabledIsInert'
  <1> SUFFICES ASSUME TypeOK, DisabledIsInert, [Next]_vars
               PROVE  DisabledIsInert'
    OBVIOUS
  <1> USE DEF DisabledIsInert, Scheduled, Active, config
  <1>1. ASSUME NEW r \in Report, OnLockStateChanged(r)
        PROVE  DisabledIsInert'
    BY <1>1 DEF OnLockStateChanged, CancelAllTimers, CancelCountdownTimer, CancelRetryTimer
  <1>2. ASSUME NEW c \in DoorContactState, OnDoorContactChanged(c)
        PROVE  DisabledIsInert'
    BY <1>2 DEF OnDoorContactChanged, CancelAllTimers, CancelCountdownTimer, CancelRetryTimer
  <1>3. ASSUME enabled, UNCHANGED <<status, config>>
        PROVE  DisabledIsInert'
    BY <1>3
  <1>4. ASSUME NEW w \in Worker,
               \/ \E t \in countdowns : FireCountdown(w, t)
               \/ \E t \in retries : FireRetry(w, t)
               \/ DisposeCountdown(w)
               \/ DisposeRetry(w)
               \/ RequestAfterCountdown(w)
               \/ RequestAfterRetry(w)
               \/ \E outcome \in {"succeeded", "failed"} : Answer(w, outcome)
        PROVE  enabled /\ UNCHANGED <<status, config>>
    BY <1>4
    DEF TypeOK, Goes, FireCountdown, FireRetry, DisposeCountdown, DisposeRetry,
        RequestAfterCountdown, RequestAfterRetry, Answer
  <1>5. ASSUME NEW w \in Worker, ApplySuccess(w) \/ ApplyFailure(w)
        PROVE  DisabledIsInert'
    BY <1>5 DEF TypeOK, Goes, ApplySuccess, ApplyFailure
  <1>6. CASE UNCHANGED vars
    BY <1>6 DEF vars, timers
  <1>7. QED
    BY <1>1, <1>2, <1>3, <1>4, <1>5, <1>6, NextSplit

LEMMA InertInvariant == Spec => []DisabledIsInert
  <1>1. Init => DisabledIsInert
    BY DEF Init, DisabledIsInert, Scheduled, Active
  <1>2. QED
    BY <1>1, InertNext, TypeCorrect, PTL DEF Spec

LEMMA ContractInit == Init => Contract!Init
  BY DEF Init, Contract!Init, Scheduled, Active

\* A report tracks when it arms a timer, rests when it cancels them, and stutters
\* when it is ignored.
LEMMA ReportKeepsContract ==
    ASSUME TypeOK, DisabledIsInert,
           \/ \E r \in Report : OnLockStateChanged(r)
           \/ \E c \in DoorContactState : OnDoorContactChanged(c)
    PROVE  Contract!Track \/ Contract!Rest \/ UNCHANGED Contract!vars
  <1> USE DEF DisabledIsInert, Contract!Track, Contract!Rest, Contract!vars,
              Contract!Waiting, Contract!Resting
  <1>1. ASSUME ~enabled, CancelAllTimers, UNCHANGED attempt, status' = "Disabled"
        PROVE  Contract!Rest
    <2>1. ~Scheduled /\ ~Scheduled'
      BY <1>1 DEF Scheduled, Active, CancelAllTimers, CancelCountdownTimer, CancelRetryTimer
    <2>2. Scheduled' \in {Scheduled, FALSE}
      BY <2>1 DEF Scheduled
    <2>3. QED
      BY <1>1, <2>2
  <1>2. ASSUME enabled, UNCHANGED attempt, status' \in {"Idle", "Locked", "PausedDoorOpen"},
               CancelAllTimers \/ (CancelCountdownTimer /\ KeepRetryTimer)
        PROVE  Contract!Rest
    <2>1. Scheduled' => Scheduled
      BY <1>2
      DEF Scheduled, Active, CancelAllTimers, CancelCountdownTimer, CancelRetryTimer,
          KeepRetryTimer
    <2>2. Scheduled' \in {Scheduled, FALSE}
      BY <2>1 DEF Scheduled
    <2>3. QED
      BY <1>2, <2>2
  <1>3. ASSUME enabled, ArmCountdownTimer \/ ArmRetryTimer,
               status' \in {"CountingDown", "JammedRetry"}
        PROVE  Contract!Track
    BY <1>3 DEF Scheduled, ArmCountdownTimer, ArmRetryTimer
  <1>4. ASSUME UNCHANGED <<status, timers, attempt>>
        PROVE  UNCHANGED Contract!vars
    BY <1>4 DEF Scheduled, Active, timers
  <1>5. ASSUME NEW r \in Report, OnLockStateChanged(r)
        PROVE  Contract!Track \/ Contract!Rest \/ UNCHANGED Contract!vars
    <2>1. \/ ~enabled /\ CancelAllTimers /\ status' = "Disabled"
          \/ /\ enabled /\ CancelAllTimers
             /\ status' \in {"Idle", "Locked", "PausedDoorOpen"}
          \/ /\ enabled /\ (ArmCountdownTimer \/ ArmRetryTimer)
             /\ status' \in {"CountingDown", "JammedRetry"}
          \/ UNCHANGED <<status, timers>>
      BY <1>5 DEF OnLockStateChanged
    <2>2. UNCHANGED attempt
      BY <1>5 DEF OnLockStateChanged
    <2>3. QED
      BY <1>1, <1>2, <1>3, <1>4, <2>1, <2>2
  <1>6. ASSUME NEW c \in DoorContactState, OnDoorContactChanged(c)
        PROVE  Contract!Track \/ Contract!Rest \/ UNCHANGED Contract!vars
    <2>1. \/ ~enabled /\ CancelAllTimers /\ status' = "Disabled"
          \/ /\ enabled /\ CancelCountdownTimer /\ KeepRetryTimer
             /\ status' = "PausedDoorOpen"
          \/ enabled /\ ArmCountdownTimer /\ status' = "CountingDown"
          \/ UNCHANGED <<status, timers>>
      BY <1>6 DEF OnDoorContactChanged
    <2>2. UNCHANGED attempt
      BY <1>6 DEF OnDoorContactChanged
    <2>3. QED
      BY <1>1, <1>2, <1>3, <1>4, <2>1, <2>2
  <1>7. QED
    BY <1>5, <1>6

LEMMA ContractNext == TypeOK /\ DisabledIsInert /\ [Next]_vars => [Contract!Next]_(Contract!vars)
  <1> SUFFICES ASSUME TypeOK, DisabledIsInert, [Next]_vars
               PROVE  Contract!Track \/ Contract!Rest \/ UNCHANGED Contract!vars
    BY DEF Contract!Next
  <1>1. ASSUME NEW w \in Worker,
               \/ \E t \in countdowns : FireCountdown(w, t)
               \/ \E t \in retries : FireRetry(w, t)
               \/ DisposeCountdown(w)
               \/ DisposeRetry(w)
               \/ RequestAfterCountdown(w)
               \/ RequestAfterRetry(w)
               \/ \E outcome \in {"succeeded", "failed"} : Answer(w, outcome)
        PROVE  UNCHANGED Contract!vars
    <2>1. Scheduled
      BY <1>1
      DEF Scheduled, Active, Goes, FireCountdown, FireRetry, DisposeCountdown, DisposeRetry,
          RequestAfterCountdown, RequestAfterRetry, Answer
    <2>2. Scheduled' /\ status' = status
      BY <1>1, CallbackGoesOn DEF Scheduled
    <2>3. QED
      BY <2>1, <2>2 DEF Contract!vars, Scheduled
  <1>2. CASE \/ \E r \in Report : OnLockStateChanged(r)
             \/ \E c \in DoorContactState : OnDoorContactChanged(c)
    BY <1>2, ReportKeepsContract
  <1>3. ASSUME NEW w \in Worker, ApplySuccess(w) \/ ApplyFailure(w)
        PROVE  Contract!Track \/ Contract!Rest
    <2>1. Scheduled /\ enabled /\ status # "Disabled"
      BY <1>3 DEF ApplySuccess, ApplyFailure, Goes, Scheduled, Active, DisabledIsInert
    <2>2. CASE status' \in {"Locked", "Idle"}
      <3>1. Scheduled' \in {Scheduled, FALSE}
        BY <2>1 DEF Scheduled
      <3>2. QED
        BY <2>1, <2>2, <3>1 DEF Contract!Rest, Contract!Resting
    <2>3. CASE status' = "JammedRetry" /\ ArmRetryTimer
      BY <2>1, <2>3 DEF Contract!Track, Contract!Waiting, ArmRetryTimer, Scheduled
    <2>4. QED
      BY <1>3, <2>2, <2>3 DEF ApplySuccess, ApplyFailure
  <1>4. CASE UNCHANGED vars
    BY <1>4 DEF vars, timers, Contract!vars, Scheduled, Active
  <1>5. QED
    BY <1>1, <1>2, <1>3, <1>4, NextSplit

\* The machine with its timers and threads implements the contract that knows
\* only whether something is scheduled: while it shows CountingDown or
\* JammedRetry something is, and a machine that rests schedules nothing new.
THEOREM ImplementsContract == Spec => KeepsContract
  BY ContractInit, ContractNext, TypeCorrect, InertInvariant, PTL
  DEF Spec, KeepsContract, Contract!Spec
=============================================================================
