------------------------------ MODULE AutoLock ------------------------------
(***************************************************************************)
(* One AutoLockStateMachine: the object that decides when an unlocked door *)
(* is to be locked again.  Reports of the lock and of the door contact     *)
(* arrive on any thread and are handled under the object's lock; one-shot  *)
(* timers fire on thread-pool threads, which first cancel the timer field  *)
(* WITHOUT the lock, then await the lock request with no lock held, and    *)
(* take the lock only to apply the answer.                                 *)
(*                                                                         *)
(* A method body under lock(_syncLock) is one step.  The unlocked          *)
(* cancellation of a firing timer is two: dispose what the field holds,    *)
(* then overwrite the field; the second is merged with the call of the     *)
(* callback that follows it in the same thread.                            *)
(*                                                                         *)
(* Delays are not modelled: an armed timer may fire at any later moment.   *)
(***************************************************************************)
EXTENDS Naturals, FiniteSets

CONSTANTS
    Timer,      \* identities of ITimer objects; a bound, reused once forgotten
    Worker,     \* callbacks that can run at once on the thread pool; a bound
    NoTimer,    \* the null of the two timer fields
    Report      \* the lock states that are reported to this machine

LockState == {"Locked", "Unlocked", "Jammed", "Unknown"}
DoorContactState == {"Closed", "Open"}
AutoLockStatus ==
    {"Disabled", "Idle", "CountingDown", "PausedDoorOpen", "JammedRetry", "Locked"}

ASSUME TimerAssumption == IsFiniteSet(Timer) /\ IsFiniteSet(Worker)
ASSUME NoTimerAssumption == NoTimer \notin Timer
ASSUME ReportAssumption == Report \subseteq LockState

VARIABLES
    status,         \* Status
    lockState,      \* LockState: the last report, or the last successful attempt
    contact,        \* DoorContactState
    enabled,        \* IsEnabled, given at construction
    retryOnFailure, \* RetryOnFailure, given at construction
    countdownTimer, \* _countdownTimer
    retryTimer,     \* _retryTimer
    countdowns,     \* countdown timers that are armed: they will fire
    retries,        \* retry timers that are armed
    attempt         \* what each callback of the thread pool is doing

config == <<enabled, retryOnFailure>>
timers == <<countdownTimer, retryTimer, countdowns, retries>>
vars == <<status, lockState, contact, config, timers, attempt>>

AttemptState ==
    {"none",            \* no callback on this thread
     "countdownFired",  \* TriggerCountdownExpiredAsync entered
     "retryFired",      \* TriggerRetryExpiredAsync entered
     "countdownDisposed", "retryDisposed",  \* field disposed, not yet null
     "requested",       \* awaiting the lock request
     "succeeded", "failed"}  \* answer known, object's lock not yet taken

Init ==
    /\ status = "Locked"
    /\ lockState = "Locked"
    /\ contact = "Closed"
    /\ enabled \in BOOLEAN
    /\ retryOnFailure \in BOOLEAN
    /\ countdownTimer = NoTimer
    /\ retryTimer = NoTimer
    /\ countdowns = {}
    /\ retries = {}
    /\ attempt = [w \in Worker |-> "none"]

\* The constructor, for the modules that build a machine later than Init.
Construct(autoLockEnabled, retry) ==
    /\ status' = "Locked"
    /\ lockState' = "Locked"
    /\ contact' = "Closed"
    /\ enabled' = autoLockEnabled
    /\ retryOnFailure' = retry
    /\ countdownTimer' = NoTimer
    /\ retryTimer' = NoTimer
    /\ countdowns' = {}
    /\ retries' = {}
    /\ attempt' = [w \in Worker |-> "none"]

----------------------------------------------------------------------------
(* Timers *)

\* Identities CreateTimer may return: no armed timer's, nor that of a fired timer
\* the other field still refers to.
FreeTimer(otherField) == Timer \ (countdowns \cup retries \cup {otherField})

CancelCountdownTimer ==
    /\ countdowns' = countdowns \ {countdownTimer}
    /\ countdownTimer' = NoTimer

CancelRetryTimer ==
    /\ retries' = retries \ {retryTimer}
    /\ retryTimer' = NoTimer

CancelAllTimers == CancelCountdownTimer /\ CancelRetryTimer

ArmCountdownTimer ==
    \E t \in FreeTimer(retryTimer) :
        /\ countdowns' = (countdowns \ {countdownTimer}) \cup {t}
        /\ countdownTimer' = t

\* Mutated: the timer object of the countdown is started again for the retry.
ArmRetryTimer_ReusesCountdown ==
    \E t \in IF countdownTimer = NoTimer THEN FreeTimer(NoTimer) ELSE {countdownTimer} :
        /\ retries' = (retries \ {retryTimer}) \cup {t}
        /\ retryTimer' = t

ArmRetryTimer ==
    \E t \in FreeTimer(countdownTimer) :
        /\ retries' = (retries \ {retryTimer}) \cup {t}
        /\ retryTimer' = t

KeepCountdownTimer == UNCHANGED <<countdownTimer, countdowns>>
KeepRetryTimer == UNCHANGED <<retryTimer, retries>>

----------------------------------------------------------------------------
(* Reports, each handled under the object's lock *)

\* The lock says that it is locked, unlocked, jammed, or something unknown.
OnLockStateChanged(r) ==
    /\ lockState' = r
    /\ \/ /\ ~enabled
          /\ CancelAllTimers
          /\ status' = "Disabled"
       \/ /\ enabled /\ r = "Locked"
          /\ CancelAllTimers
          /\ status' = "Locked"
       \/ /\ enabled /\ r = "Unlocked" /\ contact = "Open"
          /\ CancelAllTimers
          /\ status' = "PausedDoorOpen"
       \/ /\ enabled /\ r = "Unlocked" /\ contact = "Closed"
          /\ CancelRetryTimer
          /\ ArmCountdownTimer
          /\ status' = "CountingDown"
       \/ /\ enabled /\ r = "Jammed" /\ retryOnFailure
          /\ CancelCountdownTimer
          /\ ArmRetryTimer
          /\ status' = "JammedRetry"
       \/ /\ enabled /\ r = "Jammed" /\ ~retryOnFailure
          /\ CancelAllTimers
          /\ status' = "Idle"
       \/ /\ enabled /\ r = "Unknown"
          /\ UNCHANGED <<status, timers>>
    /\ UNCHANGED <<contact, config, attempt>>

\* Mutated: opening the door does not cancel the countdown.
OnDoorContactChanged_NoCancel(c) ==
    /\ enabled /\ lockState = "Unlocked" /\ c = "Open"
    /\ contact' = c
    /\ status' = "PausedDoorOpen"
    /\ UNCHANGED <<lockState, config, attempt, timers>>

\* Mutated: the branch for a door that closes is missing.
OnDoorContactChanged_NoResume(c) ==
    /\ enabled /\ contact' = c
    /\ IF lockState = "Unlocked" /\ c = "Open"
         THEN CancelCountdownTimer /\ KeepRetryTimer /\ status' = "PausedDoorOpen"
         ELSE UNCHANGED <<status, timers>>
    /\ UNCHANGED <<lockState, config, attempt>>

\* The door contact opens or closes.  A retry timer is left alone.
OnDoorContactChanged(c) ==
    /\ contact' = c
    /\ \/ /\ ~enabled
          /\ CancelAllTimers
          /\ status' = "Disabled"
       \/ /\ enabled /\ lockState # "Unlocked"
          /\ UNCHANGED <<status, timers>>
       \/ /\ enabled /\ lockState = "Unlocked" /\ c = "Open"
          /\ CancelCountdownTimer /\ KeepRetryTimer
          /\ status' = "PausedDoorOpen"
       \/ /\ enabled /\ lockState = "Unlocked" /\ c = "Closed"
          /\ ArmCountdownTimer /\ KeepRetryTimer
          /\ status' = "CountingDown"
    /\ UNCHANGED <<lockState, config, attempt>>

----------------------------------------------------------------------------
(* A timer callback *)

\* Where a callback stands moves from one state to another.
Goes(w, from, to) ==
    /\ attempt[w] = from
    /\ attempt' = [attempt EXCEPT ![w] = to]

\* A one-shot timer elapses: its callback is queued and no longer cancellable.
FireCountdown(w, t) ==
    /\ t \in countdowns
    /\ countdowns' = countdowns \ {t}
    /\ Goes(w, "none", "countdownFired")
    /\ UNCHANGED <<status, lockState, contact, config, countdownTimer, retryTimer, retries>>

FireRetry(w, t) ==
    /\ t \in retries
    /\ retries' = retries \ {t}
    /\ Goes(w, "none", "retryFired")
    /\ UNCHANGED <<status, lockState, contact, config, countdownTimer, retryTimer, countdowns>>

\* _countdownTimer?.Dispose() with no lock held: it disposes whatever the field
\* holds NOW, which may be a newer timer than the one that fired.
DisposeCountdown(w) ==
    /\ Goes(w, "countdownFired", "countdownDisposed")
    /\ countdowns' = countdowns \ {countdownTimer}
    /\ UNCHANGED <<status, lockState, contact, config, countdownTimer, retryTimer, retries>>

DisposeRetry(w) ==
    /\ Goes(w, "retryFired", "retryDisposed")
    /\ retries' = retries \ {retryTimer}
    /\ UNCHANGED <<status, lockState, contact, config, countdownTimer, retryTimer, countdowns>>

\* The field is set to null, whatever it holds by now, and the lock is requested.
RequestAfterCountdown(w) ==
    /\ Goes(w, "countdownDisposed", "requested")
    /\ countdownTimer' = NoTimer
    /\ UNCHANGED <<status, lockState, contact, config, retryTimer, countdowns, retries>>

RequestAfterRetry(w) ==
    /\ Goes(w, "retryDisposed", "requested")
    /\ retryTimer' = NoTimer
    /\ UNCHANGED <<status, lockState, contact, config, countdownTimer, countdowns, retries>>

\* The awaited request returns true, or it returns false or throws.
Answer(w, outcome) ==
    /\ Goes(w, "requested", outcome)
    /\ UNCHANGED <<status, lockState, contact, config, timers>>

\* Mutated: the last reported state is not updated by a success.
ApplySuccess_KeepsLockState(w) ==
    /\ Goes(w, "succeeded", "none")
    /\ CancelAllTimers
    /\ status' = "Locked"
    /\ UNCHANGED <<lockState, contact, config>>

\* Mutated: a success forgets the retry timer.
ApplySuccess_KeepsRetry(w) ==
    /\ Goes(w, "succeeded", "none")
    /\ CancelCountdownTimer /\ KeepRetryTimer
    /\ lockState' = "Locked"
    /\ status' = "Locked"
    /\ UNCHANGED <<contact, config>>

\* The answer is applied under the object's lock, whatever was reported meanwhile.
ApplySuccess(w) ==
    /\ Goes(w, "succeeded", "none")
    /\ CancelAllTimers
    /\ lockState' = "Locked"
    /\ status' = "Locked"
    /\ UNCHANGED <<contact, config>>

\* Mutated: a failed attempt shows JammedRetry but arms no retry.
ApplyFailure_NoRetry(w) ==
    /\ Goes(w, "failed", "none")
    /\ status' = IF retryOnFailure THEN "JammedRetry" ELSE "Idle"
    /\ IF retryOnFailure THEN UNCHANGED timers ELSE CancelAllTimers
    /\ UNCHANGED <<lockState, contact, config>>

ApplyFailure(w) ==
    /\ Goes(w, "failed", "none")
    /\ \/ /\ retryOnFailure
          /\ ArmRetryTimer /\ KeepCountdownTimer
          /\ status' = "JammedRetry"
       \/ /\ ~retryOnFailure
          /\ CancelAllTimers
          /\ status' = "Idle"
    /\ UNCHANGED <<lockState, contact, config>>

----------------------------------------------------------------------------
Active(w) == attempt[w] # "none"

\* Bound: a report is taken only while the timers armed and the callbacks under
\* way leave a timer identity for each of them to arm another.
RoomForReport ==
    Cardinality(countdowns \cup retries) + Cardinality({w \in Worker : Active(w)}) + 1
        < Cardinality(Timer)

Reported ==
    /\ RoomForReport
    /\ \/ \E r \in Report : OnLockStateChanged(r)
       \/ \E c \in DoorContactState : OnDoorContactChanged(c)

Fire ==
    \E w \in Worker :
        \/ \E t \in countdowns : FireCountdown(w, t)
        \/ \E t \in retries : FireRetry(w, t)

\* The steps of a callback that its own thread takes without waiting.
Run(w) ==
    \/ DisposeCountdown(w)
    \/ DisposeRetry(w)
    \/ RequestAfterCountdown(w)
    \/ RequestAfterRetry(w)
    \/ ApplySuccess(w)
    \/ ApplyFailure(w)

Callback ==
    \E w \in Worker : Run(w) \/ (\E outcome \in {"succeeded", "failed"} : Answer(w, outcome))

Next == Reported \/ Fire \/ Callback

Spec == Init /\ [][Next]_vars

----------------------------------------------------------------------------
(* Fairness: the runtime fires an armed timer and runs its callback, an      *)
(* awaited request returns, and a request that is made again and again       *)
(* succeeds in the end (the lock is not jammed for ever).  Nothing makes     *)
(* reports arrive.                                                           *)
Fairness ==
    /\ \A t \in Timer : WF_vars(\E w \in Worker : FireCountdown(w, t) \/ FireRetry(w, t))
    /\ \A w \in Worker : WF_vars(Run(w))
    /\ \A w \in Worker : WF_vars(\E outcome \in {"succeeded", "failed"} : Answer(w, outcome))
    /\ SF_vars(\E w \in Worker : Answer(w, "succeeded"))

FairSpec == Spec /\ Fairness

----------------------------------------------------------------------------
(* Properties *)

\* Every field has its declared type, and refers to timers of its own kind only.
TypeOK ==
    /\ status \in AutoLockStatus
    /\ lockState \in LockState
    /\ contact \in DoorContactState
    /\ enabled \in BOOLEAN
    /\ retryOnFailure \in BOOLEAN
    /\ countdownTimer \in Timer \cup {NoTimer}
    /\ retryTimer \in Timer \cup {NoTimer}
    /\ countdowns \subseteq Timer
    /\ retries \subseteq Timer
    /\ countdowns \cap retries = {}
    /\ countdownTimer \notin retries
    /\ retryTimer \notin countdowns
    /\ attempt \in [Worker -> AttemptState]

\* A machine that shows CountingDown or JammedRetry is never stranded: a timer
\* that will fire is armed, or a callback is under way that will set the status
\* again.  The unlocked cancellation in TriggerCountdownExpiredAsync and
\* TriggerRetryExpiredAsync can dispose a timer armed a moment before by
\* OnLockStateChanged, so this is not a property of any one handler.
NeverStranded ==
    /\ status = "CountingDown" => countdowns # {} \/ \E w \in Worker : Active(w)
    /\ status = "JammedRetry" => retries # {} \/ \E w \in Worker : Active(w)

\* While the machine believes an enabled door unlocked it never rests in Locked
\* or Disabled, whatever the order of reports and late answers.
UnlockedIsTracked ==
    enabled /\ lockState = "Unlocked" => status \notin {"Locked", "Disabled"}

\* The countdown the field still refers to is armed only while the door is
\* unlocked and shut: OnLockStateChanged and OnDoorContactChanged cancel it on
\* every way out, if no Unknown state is ever reported.
CountdownOnlyWhileClosed ==
    countdownTimer \in countdowns => lockState = "Unlocked" /\ contact = "Closed"

\* The retry the field refers to outlives JammedRetry in one way only: the door
\* contact moved after a failed attempt on a door that is still unlocked
\* (OnDoorContactChanged leaves _retryTimer alone).
RetryOutsideJammed ==
    retryTimer \in retries /\ status # "JammedRetry" =>
        lockState = "Unlocked" /\ status \in {"CountingDown", "PausedDoorOpen"}

\* A paused machine has an open, unlocked door (if Unknown is never reported).
PausedMeansOpen ==
    status = "PausedDoorOpen" => lockState = "Unlocked" /\ contact = "Open"

\* Nothing armed, nothing under way, and a status that waits for a report.
Settled ==
    /\ countdowns \cup retries = {}
    /\ \A w \in Worker : ~Active(w)
    /\ \/ status \in {"Locked", "Disabled"}
       \/ status = "PausedDoorOpen" /\ contact = "Open"
       \/ status = "Idle" /\ ~retryOnFailure

\* Once reports cease, the machine settles: no timer is left armed, no attempt
\* is under way, and a door that is unlocked and shut has been locked (or given
\* up, when RetryOnFailure is off).
QuietSettles == <>[][~Reported]_vars => <>[]Settled

\* The machine keeps the contract of AutoLockContract, which knows neither timers
\* nor threads: what is scheduled is a timer that is armed or a callback that has
\* not yet applied its answer.
Scheduled == countdowns \cup retries # {} \/ \E w \in Worker : Active(w)

Contract == INSTANCE AutoLockContract WITH wake <- Scheduled

KeepsContract == Contract!Spec
=============================================================================
