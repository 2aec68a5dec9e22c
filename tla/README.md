# CodeMaster in TLA+

TLA+ models of CodeMaster, the access-control server in this repository: which
door is locked again and when, which codes a lock holds, who is admitted when,
whether the process keeps its connection to the MQTT broker, and what the pages
of the dashboard show. TLC checks the models on small instances; TLAPS proves
what matters most for every instance. Paths below are relative to the C# solution
(`src/CodeMaster.*`) unless they say otherwise; `CodeMaster.UI` is the dashboard,
in TypeScript.

Contents: 1 inventory, 2 plan, 3 modules and how they follow the code, 4 runs,
5 fairness, 6 proofs, 7 what is known not to hold, 8 what is not modelled.

To repeat the checks: `tlc -config X.cfg M` for a row of the table in section 4,
`tlapm M.tla` for each of the modules of section 6.

## 1. Inventory

CodeMaster is one ASP.NET Core process and a page in a browser. Everything a client
does arrives on a thread-pool thread (an API request, an MCP tool call); the MQTT
client runs as a background service; timers fire on the thread pool; SQLite holds
the tables. `Program.cs` registers the services; repositories and
`DoorOperationService` are created per scope, but the latter keeps its state in
static dictionaries, so that all requests and all timer callbacks share it. The
browser runs one thread: a handler runs to its next `await`, and any number of
handlers wait for answers at the same time.

| Component | State | Operations | Talks to | Hard behaviour | Correct when |
|---|---|---|---|---|---|
| `AutoLockStateMachine` (Engine) | status, last lock state, contact, two timer fields | reports of lock and contact; countdown and retry callbacks; lock attempt | calls a delegate that locks the door | callbacks cancel the timer fields **without** the lock; the answer of a request is applied to whatever the state is by then | it never waits for a timer that will not fire; it counts down only on a shut, unlocked door; it settles |
| `DoorOperationService` (Engine) | static caches of lock state, contact state, machine per door | unlock, lock, `UpdateDoorStates` | providers, repository, the machine, which calls it back | cache, machine and bolt are written in separate steps of concurrent operations | an undisturbed operation leaves the three in agreement; the machine keeps its promise inside the service |
| Lock providers (Z-Wave JS, generic MQTT) | cached state of a provider object | lock, unlock, set and clear a code | MQTT client | "not connected" is swallowed, and the Z-Wave provider answers true all the same | true means done |
| `HardwareSlotSyncWorker` (Engine) and `HardwareSlotRepository` (Data) | rows of `HardwareSlots`; the codes in the lock | one reconciliation pass | users, policies and credentials; the lock | crash, refusal or exception between any two steps; administrators change what the pass has read | an undisturbed pass leaves exactly the wanted codes; no code is forgotten in a lock |
| `AccessPolicyEvaluator`, `AccessPolicy` (Engine, Core) | remaining uses of a policy | window arithmetic; evaluating a PIN and consuming a use | tables of users, PINs, policies, assignments | two evaluations both read the row of a one-time pass and both write it back; windows across midnight | one use admits once; a schedule admits in the period it stands for |
| Users and credentials API, MCP `revoke_user` | rows of users and credentials | create and delete a user, set and delete a PIN, save a policy, revoke | slot rows, by foreign keys and by `ClearSlotAsync` | run between the steps of a pass | what is revoked disappears from the locks |
| Access points API, MCP door tools | rows of doors | list, create, update, delete; lock and unlock | `DoorOperationService` | a row changes while a machine built from it lives on | the machine follows the row |
| Access log API | rows of `AccessLogs` | `GetLogs` with filters and a limit | its repository | rows are written at any time | a page of the newest matching rows |
| `MqttClientService` (Engine) | completion source, backoff, the client's connection | connect, subscribe, wait, back off; disconnection handler; shutdown | broker, inbound channel | a disconnection races with the renewal of the source it should complete; the handler is late | it reconnects and subscribes again; shutdown ends |
| Doors page: `App`, `DoorCard`, `DoorSetupWizard`, `useDoorStore` | list of doors, countdowns, spinner and busy flags, the form of the wizard | refresh, lock, unlock, create, edit | doors API | answers out of order or lost; a wizard that is closed and reopened while it saves | flags and countdowns agree with the calls under way; a refreshed page shows the server's doors |
| Users page: `UserManagement`, `ScheduleEditor`, `useUserStore` | list of users, PINs per user, two dialogs, the draft of a schedule | add and delete users, set and delete PINs | users API | no button is ever disabled; a handler ends after its dialog or its page is gone | a card shows what is there; one dialog at a time; a one-time pass has uses |
| Logs page: `LiveEventFeed`, `useAuditStore` | filter, list of events | choose, refresh, open | logs API | answers to older filters arrive late | the feed matches the filter |
| MQTT inbound channel | at most 5000 messages | write, read | MQTT client writes; nobody reads | full channel | bounded memory |
| `AccessEventBroadcaster`, log stream | list of subscriber channels | publish, subscribe, unsubscribe | SSE connections | subscribers that come and go while events are written | everybody sees every later event once |
| MCP server | session channel, keep-alive timer | SSE loop, messages | tools | two waits in one loop | every answer reaches its session |
| Keypads, contact sensor, notifications, discovery, forward-auth, database access, composition root | next to none | parsing, formatting, registration | | | |

Three facts about the wiring shape the models. Nothing under `src/` calls
`HardwareSlotSyncWorker`, `AccessPolicyEvaluator.EvaluateAsync` or `UpdateDoorStates`,
and nothing reads the inbound channel. They are modelled as what they offer to a
caller: their inputs may come at any time (`Reported` in AutoLock, `Report` and
`Contact` in DoorOperations, `Start` in SlotSync, `Begin` in PolicyEvaluator), and the
runs that depend on such input say so. And several operations of the browser's
stores are called by no component; only those with a caller are modelled
(section 8 names the others).

## 2. Plan

In the order of importance to somebody who relies on a locked door. Done:

1. **AutoLock**, **AutoLockContract**: the machine and what it promises, proved.
2. **DoorOperations**: the service composed with one machine, for one door, proved.
3. **SlotSync**: the pass, the tables and the administrators, for one lock, proved.
4. **MqttClient**: connection and shutdown, with every set of faults, proved.
5. **AccessPolicy**, **PolicyEvaluator**: window arithmetic against a reference
   definition; concurrent evaluations and policy edits, proved.
6. **ApiClient**, **DoorStore**, **Dashboard**: the doors page and the doors API, proved.
7. **UserStore**, **UserAdmin**: the users page and the users API, proved.
8. **AuditFeed**: the logs page and the log API, proved.

Proved for every instance: the safety invariants of all of them, the refinement of the contract, by
the machine alone and inside the service, the agreement of an undisturbed operation, and that an
undisturbed pass reconciles the lock. What is left to TLC is liveness (section 6).

Left to model: the duration of an unlock, which `UnlockDoorAsync` writes into the
machine for good (`DoorOperationService.cs:75`; it needs a machine that keeps its
delays); and the components of section 8, once something in the repository reads
what they produce.

## 3. The modules

### AutoLock (`Services/AutoLockStateMachine.cs`)

The variables are the object's fields: `status`, `lockState`, `contact`, `enabled`,
`retryOnFailure`, `countdownTimer`, `retryTimer`. Two sets, `countdowns` and `retries`,
say which timer objects are armed, which the code leaves to the runtime; `attempt`
says where each callback on the thread pool stands.

| Action | Code |
|---|---|
| `OnLockStateChanged`, `OnDoorContactChanged` | the two report handlers, one step each: their bodies run under `lock (_syncLock)` |
| `FireCountdown`, `FireRetry` | a one-shot timer elapses; its callback can no longer be cancelled |
| `DisposeCountdown`, `RequestAfterCountdown` (and the two for a retry) | `_countdownTimer?.Dispose(); _countdownTimer = null;` with no lock held: two steps, and the field may hold a newer timer in each |
| `Answer` | the awaited delegate returns true, or returns false or throws |
| `ApplySuccess`, `ApplyFailure` | the answer is applied under the lock |

Why a step may be that large: a body under the lock excludes every other one, and the
unlocked accesses of a callback to the fields are steps of their own. The one
combination that is not a single access, overwriting the field and calling the
delegate, touches nothing shared in its second half. An unlocked access that falls
inside a body leaves a state that some order of whole steps leaves too: a timer is
disposed twice, or a field that is about to be overwritten is set to null. Delays are abstracted: an armed timer
fires at any later time, so every order of timers and reports is covered.

**AutoLockContract** is what a watcher of `Status` may rely on: it waits
(`CountingDown`, `JammedRetry`) only while something is scheduled to move it, coming
to rest schedules nothing, and what was switched off stays off. `Contract` in AutoLock
instantiates it with `wake <- Scheduled` (a timer armed or a callback under way), and
`KeepsContract` is the refinement. It is not a consequence of the handlers one by one:
a callback can dispose a timer another thread has just armed, and the promise is
kept only because that callback's own answer will set the status again.

### DoorOperations (`Services/DoorOperationService.cs` with providers and controllers)

One door; the dictionaries are keyed by door and doors share nothing else.
`Machine == INSTANCE AutoLock` shares the machine's variables with the service, so
every step of the machine inside the service is a step of AutoLock.

An operation is a record in `op`: which call, how far it is, its value, and the row it
read. Its steps are `CallUnlock`/`CallLock` (the row is read), `Publish` or
`PublishThrows` (the provider), `WriteState` (`_lockStates[id] = ...`), `Construct`
(`GetOrCreateStateMachine`, unlock only) and `Tell` (the machine's handler). The
machine's callback runs the same steps through `CallLockFromTimer` and
`ReturnToTimer`; in the middle it reports Locked to the machine that called it.
`ReportLock` and `ReportContact` are `UpdateDoorStates`.

Outside the code: `bolt` is the physical bolt, moved by a publish that gets through or
by hand; `connected` is the MQTT client, as offline and online again;
`row` is the door's row, changed by PUT, DELETE and POST; `Restart` loses everything
that is static memory. `alone` is a history variable: the operation that nothing has
overlapped so far.

`Fault` names what an instance lets happen; with the empty set the surroundings
are quiet.

### SlotSync (`Services/HardwareSlotSyncWorker.cs`, `HardwareSlotRepository.cs`)

One lock. `rows` is the table, `codes` the lock's memory, `users`, `entitled`, `creds` what
the pass reads, `pass` where each pass stands with its local variables (`desired`, the
obsolete slots `left`, the rows it re-read as `view`, the slot it is busy with), and
`revocation` the progress of `codemaster__revoke_user`. A credential stands for its
PIN. The list `desired` is a set from which the pass takes users by name (`Want`), since the
code builds it in that order and each user is in it once. `fault` is what may go wrong or be
asked for in one execution, chosen at its start from `Faults`.

Each repository call and each command to the lock is an action: `Start` (the desired
list), `ReadSlots`, then per obsolete slot `MarkDeleting`, `ClearSlotCode`, `ClearSlot`,
`MarkCleared`; `Refresh`; then per desired user `Skip`, or `MarkAdding` for a slot that
exists and is not synced, or `Allocate`, `GetSlot` and `MarkAllocated` for a new one, followed by
`SetSlotCode` and `MarkSet`; `Finish`. The reads that build the desired list are one
step: what they return can be stale at every later step anyway. `AllocateSlotAsync`
stores a row that says Synced, as the code does, and throws when a foreign key fails; it then
reads the row again on a second connection, which finds what a revocation in between has left of it.
`SetNull` is what the foreign keys do on a deletion. `Command` is a provider's answer:
done, swallowed while offline, refused, or thrown, in which case it may have been sent. Of the two
providers the Z-Wave one never refuses. The generic one refuses every code
(`GenericMqttLockProvider.cs:86-95`), but lacks the capability that a pass looks for first, so that
no pass runs for it; a refusal is what `ILockProvider` leaves open to any other.

### MqttClient (`Mqtt/MqttClientService.cs`)

`loop` is where `ExecuteAsync` stands, `signalled` whether the source in
`_disconnectTcs` is completed, `delay` the backoff in seconds, `stop` where `StopAsync`
stands. `connected`, `subscribed` and `events` belong to the MQTT library: it queues a
run of `HandleDisconnectedAsync` for each lost connection, each disconnection and each
failed attempt to connect, and the handler completes whatever source the field holds
when it runs. `Renew` is the moment the loop installs a fresh source. `fault` is what the
surroundings do in one execution, chosen at its start from `Faults`; properties that
need the absence of a fault name it.

### AccessPolicy and PolicyEvaluator (`Models/AccessPolicy.cs`, `Services/AccessPolicyEvaluator.cs`)

AccessPolicy has the code's `IsActiveAt`, with its four cases of a missing bound and
its comparison of the two bounds, and next to it `Admits`, which says what a schedule
stands for without those cases: the hand of a clock that starts at the beginning of
the window meets the time of the event before it has left the end behind (`InWindow`). A
time is a number of ticks. The uses of a row are any integer, as the API checks none; a negative
number is no use left, in the code and in `Admits`.

PolicyEvaluator is `EvaluateAsync` with one step per `await`: `Begin` (the users),
`MatchPin`, `ReadUserPolicies`, `ChoosePolicy` (which ends the evaluation, or leaves it
with a copy of a one-time pass) and `Spend`, the full-row update with a use less.
`SavePolicy`, `Assign` and `EditUser` are the API between any two of them. Three history
variables say what the property is about: `spent` and `uses` count admissions and uses
since a row was saved, `raced` names the policies of which a changed row was written
over.

### ApiClient, DoorStore and Dashboard (`CodeMaster.UI`: `App.tsx`, `components/doors`, `useDoorStore.ts`; `AccessPointsController.cs`)

ApiClient is shared by the three pages: `wire` holds the calls under way, each `sent`,
then `answered` or `failed`, then continued in the store. Calls are served and
continued in any order, and `Lost` loses a call before or after the server has carried
it out.

DoorStore has both ends of `/api/doors`. On the server: a row per door (`rows`, ids that
never existed are `unborn`) and the service's cached lock state; the answers to POST and
PUT are the row **as it was sent**, without lock state, while the table stores `None` for a
missing keypad (`Stored`). In the store: each operation up to its await (`fetchDoors`,
`operate`, `Loading`), after it (`fetchDoorsEnds`, `createDoorEnds`, `updateDoorEnds`,
`operateEnds`) and its catch (`LoadingFailed`, `operateFailed`).

Dashboard adds what a person can do: a button can be pressed unless it is disabled or
covered by the wizard's backdrop (`Press`, `Refresh`, `Open`, `Edit`, `handleSubmit`,
`Close`). The wizard is closed by its cross also while it saves, stays mounted, and the
end of the save closes whatever wizard is open by then (`SaveEnds`). `FormOf` is what the form
takes from a row: the name, and of each JSON configuration its topic, under whichever of its names.
`SettingOf` is what a save writes: the trimmed name and `{topic: ...}`. What a row says besides
is its `rest`, which the first forgets and the second writes as `Plain`.

### UserStore and UserAdmin (`components/users`, `useUserStore.ts`, `UsersController.cs`)

UserStore has both ends of `/api/users`. The list is kept as a number of entries per user, because
a creation appends without looking (`createUserEnds`) and a user may be in it twice; `Shown` are the
users with a card. `ServeSetPin` adds a PIN whatever the user has,
`ServePolicy` changes nothing, because a policy without an id is given a random one and
then updated, which finds no row. UserAdmin is the page: no button is disabled, so every
handler may be started again while it waits; `handleSavePinAndSchedule` continues with
the policy in the same turn as its first answer; a handler ends in the page it was
started in or, after `Leave`, in one that is gone (`mine`). `unsure` is a history
variable: what the browser cannot know to be gone.

### AuditFeed (`components/logs`, `useAuditStore.ts`, `AccessLogsController.cs`)

The filter, the list, the calls under way, and the answer of `GetLogs`: the newest rows
of a door up to the limit and only then the method filter (`OfDoor`, `OfMethod`, both by
`Where`, the filtering of a list as a recursive function); the type filter is
never sent. Rows are written at any time, and those of a door go when it is deleted (`DeleteDoor`),
in a cascade of the table. `order` (which of two calls under way was sent first) and `overtaken` (one of
them ended out of turn or failed) are history variables for the condition under which a
feed can be trusted.

## 4. Runs

The MC modules give the constants their values. Two runs fail, as they should: each
shows that the code does not do what its documentation says.

| Run | Module | Expected | Properties | States | Bounds |
|---|---|---|---|---|---|
| AutoLockMachine | MCAutoLock | holds | TypeOK, NeverStranded, UnlockedIsTracked, CountdownOnlyWhileClosed, RetryOutsideJammed, PausedMeansOpen, KeepsContract, QuietSettles | 412,707 | 5 timers, 3 callbacks |
| DoorAlone | MCDoorOperations | holds | UnlockedHasMachine, AloneLeavesAgreement | 286,000 | 2 callers, 1 callback, 3 timers, 2 settings |
| DoorLive | MCDoorOperations | holds | TypeOK, MachineNeverStranded, DoorSettles | 330,064 | 1 caller, 1 callback, 3 timers |
| DoorLateLock | MCDoorOperations | fails | UnlockedBoltIsPursued | | 1 caller, 1 callback |
| SlotPass | MCSlotSync | holds | TypeOK, PassReconciles | 2.1 million | 3 users and PINs, 2 slots |
| SlotFaults | MCSlotSync | holds | NoForgottenCode, OneSlotPerCredential | 4.7 million | 2 users, 3 PINs (at most one is added to a user that has one), 2 slots |
| MqttLoop | MCMqttClient | holds | ClientTypeOK, DropWakes, MaintainsConnection, MaintainsSubscriptions, StopEnds | 1,822 | delays 3 and 2, 2 queued handlers, every set of faults |
| PolicyEvaluator | MCPolicyEvaluator | holds | TypeOK, AdmissionsAreCounted, ActiveInPeriod, PassesRunOut | 72,304 | 2 evaluations, 1 policy with 8 rows, days of 4 ticks, weeks of 2 days |
| Dashboard | MCDashboard | holds | TypeOK, OneOperationPerDoor, NoCountdownWhileLocked, LoadingHasRequest, OneSaveInFlight, RefreshConverges | 1,084,526 | 2 calls, 1 door, 1 keypad, rows with a rest and without, 1 second |
| DashboardBadge | MCDashboard | fails | SavingKeepsBadges | | the same |
| UserAdmin | MCUserAdmin | holds | TypeOK, ShownIsThere, PassesCountUses | 1,152,426 | 2 calls, 1 user, 2 PINs, 2 types of schedule, 2 uses |
| AuditFeed | MCAuditFeed | holds | TypeOK, SettledFeedMatches, FeedConverges | 819,440 | 2 calls, answers of 1 row, a log of 3 |

**AutoLockMachine** asks whether unlocked cancellation, late answers and reports can
together leave the machine waiting for nothing, counting down on an open door, or
paused on a shut one. Three callbacks suffice for one to have cleared a field, one to
be about to, and one to hold an answer; `RoomForReport` takes a report only while a timer
identity is left for every callback to arm another, and identities are reused. The
lock states are the three that the providers can report; what an Unknown does to
the proofs is said in section 6.

**DoorAlone** asks what a caller may rely on when nobody interferes, after any
interference before. It has two API callers and the machine's own attempt, exceptions,
restarts, edits, deletions and a bolt that is turned by hand. It has no reports
(`UpdateDoorStates` overwrites the cache with what the hardware says, right or wrong) and
no swallowed command, for which agreement with the bolt is not to be had. (With reports an operation that ran
undisturbed still leaves agreement: section 6.)
**DoorLive** has every report, Unknown included, contact changes, exceptions,
deletions, restarts, jams, and a client that may stay offline for ever.

**SlotPass** has more users than slots, so slots come free in one pass for users left out before;
refusals and exceptions leave rows in every status. In **SlotFaults** an execution has one of
three sets of faults: refusals, exceptions and a stop between any two steps; commands swallowed
by an offline client; or revocations and deletions, the operations that make the table forget,
next to refusals. One pass runs at a
time: the worker has no caller, so no overlap can be read from the code; one revocation at a
time is a bound. `unborn` bounds the PINs ever given out.

**MqttLoop** chooses the faults at the start of each execution, so that a fault that does not
occur in an execution really does not. The initial delay is above the maximum, which the
options allow. More than two queued handlers behave as two: a handler only completes the
source.

**PolicyEvaluator** has the policies that matter to window arithmetic (a window over midnight, one
with equal bounds, one open at either side, dates within a day, switched off) next to passes for one
use, for two and for less than none; every event time of two days is a
possible one. Two evaluations are enough for one to overwrite the other's row, and a saved
policy or a change of assignments may come between any two of their steps.

**Dashboard** asks whether the flags of the page can be left wrong by calls that overtake
each other or fail and by a wizard that is closed and opened again while it saves, with the door
changed and deleted elsewhere. Two calls are enough for every pair of kinds to overlap, and
a third and later ones reuse their places. The store keeps one entry per door and no operation reads
two, so one door suffices but for the order of the list, which no property reads. A countdown of
one second has both of its cases, running and run out.

**UserAdmin** has repeated presses of every button, two PINs for one user, deletions elsewhere and answers lost on
either way. A user that is deleted while a list is under way may come back as a card; the
condition of `ShownIsThere` names these cases through `unsure`.

**AuditFeed** has one filter value against "any" in each field and rows that match and do not.
A log of three rows with answers of one has the case that the limit cuts off a row the method filter
would have kept, and the case that a deleted door uncovers it again.

Deadlock is checked in the runs of the server. It is not in MqttLoop, where `stop` ends the
client, nor in the runs of the three pages, where nobody has to press anything.

## 5. Fairness

- AutoLock: an armed timer fires, a callback on the thread pool runs on, an awaited
  request returns (weak fairness: runtime and scheduler). Strong fairness of a
  successful answer says the lock is not jammed for ever; without it retrying goes on
  for ever, as the code intends. Nothing makes reports arrive; `QuietSettles` is about
  executions in which they stop.
- DoorOperations: operations run on, timers fire, callbacks run. A publish of the
  callback does not throw every time (strong fairness of `Publish`); the client need
  not come back online, nor the caller ever call.
- MqttClient: the loop and the shutdown run on, a queued handler runs, and a broker that
  is asked again and again lets the client in at some time (strong fairness of
  `Connect`).
- Dashboard and AuditFeed: a call is served and its answer continued, unless it is lost
  (weak fairness of the two together, for each call). Nobody has to press anything:
  `RefreshConverges` and `FeedConverges` are about a page that is refreshed again and again.
- PolicyEvaluator, SlotSync and UserAdmin state none. `PassesRunOut` needs none, as it says what
  does not go on for ever; nothing in the code schedules a pass.

## 6. Proofs

Each theorem holds for every value of the constants under the assumptions that the modules name
(`TimerAssumption`, `ProcessAssumption`, `OrderAssumption` and so on) and those the table names: any
numbers of timers, callbacks, callers, users, slots, calls and keypads, any faults. The modules with an
ASSUME are all extended by a checked instance, so TLC evaluates the assumptions there.

**AutoLockProofs**

| Theorem | Says | Argument |
|---|---|---|
| `TypeCorrect` | `TypeOK` always | inductive as it stands; timer identities are handed out so that a field never refers to an armed timer of the other kind, which is why that conjunct is part of it |
| `WaitingIsNeverStranded` | `NeverStranded` always | inductive together with `TypeOK`: a step that disposes a waiting machine's timer is a step of a callback, which is itself the wake-up |
| `UnlockedTracked` | `UnlockedIsTracked` always | needs the converse knowledge that a disabled machine shows Disabled or its initial Locked |
| `CountdownClosed`, `RetryOutside`, `PausedOpen` | the three properties about contact and timers, if Unknown is never reported | one invariant (`DoorKnowledge`) that ties status, contact and armed fields together and is inductive only as a whole |
| `ImplementsContract` | `Spec => KeepsContract` | step simulation: reports map to `Track` or `Rest`, timer steps to stutters, answers to either; `InertInvariant` (a disabled machine has nothing armed or under way) rules out that an answer wakes a disabled machine |

The assumption `"Unknown" \notin Report` is necessary: an Unknown between an
unlock and a contact change leaves a paused machine on a shut door. No provider in
the repository reports Unknown, but the enumeration has it.

**DoorOperationsProofs**

| Theorem | Says | Argument |
|---|---|---|
| `ServiceTypeCorrect` | `TypeOK` always | `ServiceInv`, in three parts: the service's caches, the operations (a callback's is a lock of the door, run only while the machine awaits the answer), and the machine's own `TypeOK` and `NeverStranded` with every callback idle before there is a machine |
| `MachineKeepsPromise` | `MachineNeverStranded` always | the same invariant. One lemma for each operation of the machine says what it keeps, and every step of the service is one of these next to a change of caches; the step that needs the link between operation and callback is the answer (`ReturnToTimer`) |
| `UnlockedDoorsHaveMachines` | `UnlockedHasMachine` always, if nothing but Locked is reported | inductive next to `ServiceInv`; a reported unlock writes the cache and builds no machine, so the assumption is necessary |
| `UndisturbedOperationsAgree` | `AloneLeavesAgreement`, with any reports, callers and callbacks, if the client stays online and the bolt does not jam (`Honest`) | `AloneInv`: an operation that nothing overlapped is the only one that runs, has brought bolt and cache as far as its stage says, and a callback that is alone has an answer to apply |
| `ServiceKeepsContract` | `LifeKeepsContract`: from the unlock that builds the machine to the restart that loses it, its status moves as AutoLockContract says, and each of these two steps leaves it as the contract begins | step simulation as for the machine alone, with calls of any process in the place of reports; `InertInv`: a machine built with auto-lock off schedules nothing, nor is anything scheduled before there is a machine |

**SlotSyncProofs**

| Theorem | Says | Argument |
|---|---|---|
| `SlotSyncTypeCorrect` | `TypeOK` always, for any number of passes at a time | `TypeInv`: a row never goes away, so every slot that a pass or a revocation remembers has one; a pass that serves somebody has somebody left on its list (`GoodPass`) |
| `CredentialsHaveOneSlot` | `OneSlotPerCredential` always, for one pass at a time (`OnePass`), with every fault | `OwnInv`: a row that names a credential names its owner, who still has it, and a row that holds a desired user is in the view of the pass, but for the slot it has just given (`Knows`). All other steps only let rows fade (`Fades`) |
| `CodesAreNotForgotten` | `NoForgottenCode` always, for one pass at a time | `CodeInv` (`Trusts`): a slot is empty in the lock when its row is forgotten, so is every slot the pass may give away, and no taken row changes hands after it was read |
| `PassesReconcile` | `PassReconciles`, for one pass at a time, if commands are refused or throw and nothing else goes wrong (`GentleFaults`) | two invariants on top of the three before, see below |

The argument of `PassesReconcile`: `Tells` says what the table knows of the lock at every stage of any
pass - a row that says Synced has its code set, unless it was allocated a moment ago - so that the
remains of refused and broken passes are rows that are not Synced, which a pass sets again. `OnCourse`
says what a pass has achieved that nothing has disturbed: while it clears, every row nobody wants is still
ahead of it (`Removes`); while it sets, every taken row is wanted, and everybody it has served
has a code where the row says so or found every slot taken (`Installs`). At the end, if anybody was left out,
every slot is taken by a desired user whose code is there, and, as no credential has two slots, the slots
and the users with a code are as many as each other (`FullLock`, a bijection). `GentleFaults` is
necessary: a stop, a revocation, a deletion and a swallowed command each leave what no later pass puts right,
the first a Synced row without a code (section 7).

`OnePass` is necessary for the second and the third: a pass that has read an empty table and a list
without a user who was given a PIN since overwrites the row that a second pass has just given to
that user and set, and the second, which does not see it, gives the next user of its list another
slot. The code has no caller that could start two passes.

**MqttClientProofs**

| Theorem | Says | Argument |
|---|---|---|
| `ClientTypeCorrect` | `ClientTypeOK` always; the backoff stays in the range of the two options, whichever is larger | inductive as it stands |
| `WaitingLoopIsWoken` | `DropWakes` always, if no connection is lost between connecting and the renewal of the source | strengthened by `UpUntilRenewed`: until the renewal the connection is there unless the host is stopping |

**PolicyEvaluatorProofs**

| Theorem | Says | Argument |
|---|---|---|
| `IsActiveAtAgrees` | `IsActiveAt` and `Admits` agree on every row and time, for days and weeks of any length | the windows by cases of their bounds (modular arithmetic of a day), the rest by definition |
| `EvaluatorTypes` | `TypeOK` always | strengthened by what an evaluation has read at each stage: only a one-time pass with a use left reaches `Spend` |
| `AdmissionsCounted` | `AdmissionsAreCounted` always, for any number of evaluations | inductive with the types: the row that is written has one use less than the row it was copied from, or `raced` says so |
| `PeriodsKept` | `ActiveInPeriod` always | `IsActiveAtAgrees` for the rows there are |

**DashboardProofs**

| Theorem | Says | Argument |
|---|---|---|
| `SavingLosesTheRest` | a door that is opened in the wizard and saved unedited keeps what the form shows and loses the rest of its row: it keeps its row exactly if there was no rest, and the form shows afterwards what it showed before | the conversions composed (`FormOf`, `SettingOf`, and `Stored` at the server), for either form in which the browser may have the row |
| `DashboardTypes` | `TypeOK` always | an answer has the shape its kind of call asks for (`CallOK`) |
| `OperationsAreExclusive`, `SavesAreExclusive` | `OneOperationPerDoor` and `OneSaveInFlight` always | inductive together (`Exclusive`): a button that starts a call is disabled while one runs |
| `SpinnerHasRequest` | `LoadingHasRequest` always | inductive: whatever ends such a call clears the flag |
| `CountdownsAreForUnlocked` | `NoCountdownWhileLocked` always | strengthened by `SavesReportNoState`: no answer to a save reports a lock state, and so none can turn a card with a countdown to Locked |

**UserAdminProofs**

| Theorem | Says | Argument |
|---|---|---|
| `UserAdminTypes` | `TypeOK` always, with one dialog at a time | the rows of an answer are of the kind asked for |
| `PassesAreCounted` | `PassesCountUses` always | every way through the dialog sets or clears the number with the type; a draft that is sent is a draft that was made |
| `CardsAreTrue` | `ShownIsThere` always | `ShownInvariant`: who was never created is nowhere; what is shown or about to be shown is there, is being removed, or is `unsure`; a PIN has one user; one that is about to be shown is shown nowhere yet |

**AuditFeedProofs**

| Theorem | Says | Argument |
|---|---|---|
| `AnswerIsNewest` | an answer of the log API has at most `Limit` rows, all of the door and method asked for and newest first; a row that matches is missing only behind `Limit` newer rows of its door | the lemma `WherePicks`, once for the door and once for the method: `Where` keeps the wanted rows of a list of any length, in their order |
| `FeedTypeCorrect` | `TypeOK` always, for any number of calls and a log of any length | inductive with `Honest`: an answer under way has at most `Limit` rows, all matching the filter of its call. The calls under way are in the order in which they were sent (`SentInTurn`, a part of `TypeOK`) |
| `SettledFeedIsChosen` | `SettledFeedMatches` always | `Current`, with the two above: unless a call was overtaken or failed, the one sent last asks for what is chosen, and when none is under way the list matches it |

Induction over the length of a list is done here over the set of lengths for which the claim holds
(`EveryNumber`), which needs no theorem with an operator as its parameter.

Only model-checked:

- liveness (`QuietSettles`, `DoorSettles`, `MaintainsConnection`, `MaintainsSubscriptions`, `StopEnds`,
  `RefreshConverges`, `FeedConverges`, `PassesRunOut`): it rests on fairness and so on ENABLED, or on
  a descent that has to be counted.

## 7. What is known not to hold

Two runs show it. **DoorLateLock**: an auto-lock attempt has its answer, the door is
unlocked meanwhile, and the answer cancels the new countdown and shows Locked
(`AutoLockStateMachine.cs:185`); a door that is unlocked and shut is never locked again.
**DashboardBadge**: the answer to `PUT /api/doors/{id}` has no lock state, and the card of an
unlocked door shows Locked once its configuration is saved (`DoorCard.tsx:46`).

The rest are situations the modules describe in which an expectation fails, without a run of
their own.

The machine and the doors:

- A countdown fires and clears the timer field without the lock just after a report has
  put a newer timer there; the door then opens, the machine pauses, and the newer countdown,
  which no field refers to, still runs and locks the open door (`AutoLockStateMachine.cs:148`). A
  retry left armed by `OnDoorContactChanged` does the same (`:135`). `README.md:148` promises
  "If reopened mid-countdown, the timer aborts immediately."
- A lock command, or a code for a Z-Wave lock, that is issued while the client is offline is answered with true; an auto-lock
  attempt then counts as done and a slot as Synced (`"offline"` in DoorOperations and SlotSync).
- A machine is built by the first unlock only, from that moment's row, and believes
  the door shut: an unlock by hand before that arms nothing, a PUT is not seen, and an
  open contact reported before is ignored (`Construct`, `Tell`, `Configure`).
- A restart loses caches and machines: a door that was unlocked reads as locked and no countdown
  locks it (`DoorOperationService.cs:18`, `Restart`).

The slots:

- A stop right after `AllocateSlotAsync` leaves a row that says Synced though no code was set,
  which every later pass skips (`HardwareSlotRepository.cs:92`).
- Revoking or deleting a user forgets rows whose codes are still in the lock
  (`ForgetRevoked`, `DeleteUser`).
- Two passes at the same time could overwrite each other's slots; nothing starts even one, so that
  the runs have one and the theorems assume it (`OnePass`).

The MQTT client:

- A connection lost after subscribing and before `_disconnectTcs` is renewed is never
  noticed (`MqttClientService.cs:121`).
- A subscription that throws on a live connection is not tried again (`SubscribeFails` with
  `"timeout"`), and a wait on a completed source returns at once while the client is
  connected (`Wake`).
- `StopAsync` disconnects before it cancels the token, so the loop can connect once
  more in between (`Disconnect`, `CancelToken`).

The evaluator:

- Two evaluations of a one-time pass that overlap both admit, and the second write takes the
  same use again (`AccessPolicyEvaluator.cs:111`); `README.md:157` promises "Automatically revokes the PIN
  credential after a single successful unlock." `raced` is what
  `AdmissionsAreCounted` excludes.
- The write is the whole row, so it also undoes what an administrator saved meanwhile.
- A user none of whose policies is assigned to the door is judged by all of them (`Candidates`).
- A weekly window over midnight counts for the calendar day of the event, so its second half
  belongs to the next day.

The pages:

- An answer to an older list overwrites newer states; a list that overlaps `createDoor` or `createUser`
  shows the new door or user twice. The loading flag is one for all calls: the first that ends stops the
  spinner of the others. After every refresh an unlocked card shows `AutoLocking...` without seconds, because
  the API always sends `remainingCountdownSeconds: null`; the countdown after an unlock uses the day's
  seconds also at night.
- The end of a save closes a wizard that was opened after it, and a user dialog likewise. The wizard
  saves the whole row from what it read when it was opened, and of its three JSON configurations only the
  topics: any other key that was stored there is gone after a save, edited or not, and so are blanks
  around the name (`DoorSetupWizard.tsx:46-65,125-131`, the theorem `SavingLosesTheRest`).
- Saving a schedule changes nothing on the server, and no assignment is ever made (`ServePolicy`);
  setting a PIN adds one while the page shows it as the only one, and after a reload it shows
  "No PIN Assigned"; when the policy fails after the PIN was installed, the page says it could not save
  the PIN. A schedule drafted for one user is proposed for the next.
- A button of the users page that is pressed twice creates two users or PINs.
- The type filter of the log is never sent, the limit is applied before the method filter (what an
  answer misses by it is `AnswerIsNewest`), and
  late answers to older filters are shown (`overtaken`).
- `ScheduleEditor` shows 08:00 and 18:00 for bounds that are not set and that `IsActiveAt` takes for no
  bound, and shows "Always 24/7" although dates left over from another type still count.

## 8. What is not modelled

- Time: delays, day and night durations, the duration of an unlock, the 15 seconds of the
  design document. Timers fire "later", so the models cover every duration but say nothing about one.
- The inside of parsers and payloads (keypads, contact sensor, discovery, notifications):
  stateless, and in this repository not connected to the services above.
- The MQTT inbound channel and the event stream: nothing under `src/` reads either, so that there
  is no consumer to state a property for. The audit rows that accompany each operation appear as
  `Write` in AuditFeed.
- The MCP server's SSE loop: what could go wrong is a second wait on a `PeriodicTimer`
  whose first is pending, which is the behaviour of a .NET class that the source does not show.
- `StatusChanged` has no subscriber and `Dispose` of the machine no caller.
- Operations of the stores that no component calls: `updateDoorState`, `selectDoor`, `deleteDoor`,
  `addLogEvent`, `clearFilter`, `selectUser`, `updateUser`, `fetchCredentials`, `fetchPolicies`; and `error`,
  which no component shows. `GetById` endpoints only read.
- The wizard's topic suggestions (`DoorSetupWizard.tsx:81`), the settings page, the theme and the layout.
- Concurrent passes over one lock: the constant `Pass` allows them, no run does.
- Forward-auth (a function of the request's headers), database access and the composition root.
