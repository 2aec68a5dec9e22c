----------------------------- MODULE Dashboard -----------------------------
(***************************************************************************)
(* The doors page: App with its door cards and the wizard that creates and *)
(* edits doors, on top of useDoorStore.  A handler of a button runs to its *)
(* first await in one step, and from there on when the answer is there;    *)
(* meanwhile every other button that is not disabled may be pressed.       *)
(*                                                                         *)
(* The page is left and entered again at will, and its cards keep nothing  *)
(* but a confirmation that fades, so that neither is modelled.  A wizard   *)
(* that is closed stays mounted: its variables live on.                    *)
(***************************************************************************)
EXTENDS DoorStore

CONSTANTS
    Name,       \* names of doors; the empty one is Blank
    Blank,      \* ''
    Keypad,     \* types of keypads with their topics
    DefaultKeypad,  \* what a new form proposes
    Rest,       \* what a row may say besides: keys of its JSON configurations other than
                \* `topic`, the older names of that key, and blanks around its name
    Plain,      \* it says nothing besides
    NoDoor      \* no door is edited: the wizard creates one

ASSUME NullAssumption == {Null, None} \cap Keypad = {} /\ Null # None /\ Blank \notin Name
ASSUME NoDoorAssumption == NoDoor \notin Door
ASSUME DefaultAssumption == DefaultKeypad \in Keypad
ASSUME PlainAssumption == Plain \in Rest

\* What the wizard saves: the trimmed name, and of each JSON configuration {topic: ...}
\* and nothing else.  The keypad stands for the two optional sections; the lock, its
\* topic and the timers are fields like the name.
SettingOf(fields) ==
    [name |-> fields.name,
     keypad |-> IF fields.keypad = None THEN Null ELSE fields.keypad,
     rest |-> Plain]

ASSUME SettingAssumption ==
    Setting = [name : Name, keypad : Keypad \cup {Null, None}, rest : Rest]

Form == [name : Name \cup {Blank}, keypad : Keypad \cup {None}]

VARIABLES
    isWizardOpen,
    editingDoor,        \* the door the wizard was opened for, or NoDoor
    form,               \* the fields of the wizard
    isSaving

wizard == <<isWizardOpen, editingDoor, form, isSaving>>
vars == <<wire, server, store, wizard>>

\* initialData as the form shows it, be it a row of the list or the answer to a save: of
\* each JSON configuration it keeps the topic.  And the form of a new door.
FormOf(setting) ==
    [name |-> setting.name, keypad |-> IF setting.keypad = Null THEN None ELSE setting.keypad]

NewForm == [name |-> Blank, keypad |-> DefaultKeypad]

\* The page has just been loaded and asks for the doors.
Init ==
    /\ \E r \in Request :
        wire = [q \in Request |-> IF q = r THEN Call("list", Nothing, Nothing) ELSE NoCall]
    /\ rows \in [Door -> {Stored(s) : s \in Setting} \cup {NoRow}]
    /\ unborn = {d \in Door : rows[d] = NoRow}
    /\ lockStates = [d \in Door |-> "Locked"]
    /\ doors = <<>>
    /\ autoLockCountdowns = [d \in Door |-> 0]
    /\ isOperating = [d \in Door |-> FALSE]
    /\ isLoading = TRUE
    /\ isWizardOpen = FALSE
    /\ editingDoor = NoDoor
    /\ form = NewForm
    /\ isSaving = FALSE

----------------------------------------------------------------------------
(* The page *)

\* While the wizard is open its backdrop covers the page.
Refresh(r) ==
    /\ ~isWizardOpen /\ ~isLoading
    /\ fetchDoors(r)
    /\ UNCHANGED <<server, wizard>>

\* Mutated: the buttons of a card are not disabled while it operates.
Press_Again(r, op, d) ==
    /\ ~isWizardOpen
    /\ d \in Listed(doors)
    /\ operate(r, op, d)
    /\ UNCHANGED <<server, wizard>>

\* The two buttons of a card.
Press(r, op, d) ==
    /\ ~isWizardOpen
    /\ d \in Listed(doors) /\ ~isOperating[d]
    /\ operate(r, op, d)
    /\ UNCHANGED <<server, wizard>>

\* The gear of a card and the buttons that add a door.  The effect of the wizard
\* fills the form.
Open(d, fields) ==
    /\ ~isWizardOpen /\ isWizardOpen' = TRUE
    /\ editingDoor' = d
    /\ form' = fields
    /\ UNCHANGED <<wire, server, store, isSaving>>

handleOpenEdit == \E i \in DOMAIN doors : Open(doors[i].id, FormOf(doors[i].setting))
handleOpenAdd == Open(NoDoor, NewForm)

Tick == tickCountdowns /\ UNCHANGED <<wire, server, wizard>>

----------------------------------------------------------------------------
(* The wizard *)

\* A field is edited.
Edit ==
    /\ isWizardOpen
    /\ \/ \E n \in Name \cup {Blank} : form' = [form EXCEPT !.name = n]
       \/ \E k \in Keypad \cup {None} : form' = [form EXCEPT !.keypad = k]
    /\ UNCHANGED <<wire, server, store, isWizardOpen, editingDoor, isSaving>>

\* handleSubmit with handleSaveDoor up to the await.  A name is required.
handleSubmit(r) ==
    /\ isWizardOpen /\ ~isSaving
    /\ form.name # Blank
    /\ IF editingDoor = NoDoor
         THEN unborn # {} /\ Loading(r, "create", Nothing, SettingOf(form))
         ELSE Loading(r, "update", editingDoor, SettingOf(form))
    /\ isSaving' = TRUE
    /\ UNCHANGED <<server, isWizardOpen, editingDoor, form>>

\* What the wizard was about is set anew when it is opened again.
Closed ==
    /\ isWizardOpen' = FALSE
    /\ editingDoor' = NoDoor
    /\ form' = NewForm

\* Mutated: the wizard forgets that it saves when it is closed.
Close_Resets ==
    /\ isWizardOpen
    /\ Closed
    /\ isSaving' = FALSE
    /\ UNCHANGED <<wire, server, store>>

\* The cross and the backdrop, also while a save is under way.
Close ==
    /\ isWizardOpen
    /\ Closed
    /\ UNCHANGED <<wire, server, store, isSaving>>

----------------------------------------------------------------------------
(* Answers *)

DoorsArrive(r) ==
    /\ fetchDoorsEnds(r) \/ LoadingFailed(r, "list")
    /\ UNCHANGED <<server, wizard>>

OperationEnds(r) ==
    /\ \E op \in Operation : operateEnds(r, op) \/ operateFailed(r, op)
    /\ UNCHANGED <<server, wizard>>

\* The save is done: whatever wizard is open by now is closed.
SaveEnds(r) ==
    /\ createDoorEnds(r) \/ updateDoorEnds(r)
    /\ Closed
    /\ isSaving' = FALSE
    /\ UNCHANGED server

\* It is not: the message of the exception is shown.
SaveFails(r) ==
    /\ \E kind \in {"create", "update"} : LoadingFailed(r, kind)
    /\ isSaving' = FALSE
    /\ UNCHANGED <<server, isWizardOpen, editingDoor, form>>

Arrive(r) ==
    DoorsArrive(r) \/ OperationEnds(r) \/ SaveEnds(r) \/ SaveFails(r)

----------------------------------------------------------------------------
(* The server *)

Serve(r) ==
    /\ ServeOperation(r) \/ ServeList(r) \/ ServeCreate(r) \/ ServeUpdate(r)
    /\ UNCHANGED <<store, wizard>>

Lose(r) == Lost(r) /\ UNCHANGED <<server, store, wizard>>

ChangeElsewhere == Elsewhere /\ UNCHANGED <<wire, store, wizard>>

----------------------------------------------------------------------------

Use ==
    \/ \E r \in Request, op \in Operation, d \in Door : Press(r, op, d)
    \/ \E r \in Request : handleSubmit(r)
    \/ handleOpenEdit \/ handleOpenAdd \/ Edit \/ Close

Next ==
    \/ Use
    \/ \E r \in Request : Refresh(r) \/ Serve(r) \/ Lose(r) \/ Arrive(r)
    \/ Tick
    \/ ChangeElsewhere

Spec == Init /\ [][Next]_vars

\* A call is served, and what is answered is continued.  Nobody has to press anything.
Fairness == \A r \in Request : WF_vars(Serve(r) \/ Arrive(r))

FairSpec == Spec /\ Fairness

----------------------------------------------------------------------------
(* Properties *)

Kind == {"list", "create", "update"} \cup Operation

\* Every variable has its type, and a call has the parameters of its kind.
TypeOK ==
    /\ wire \in [Request -> CallType(Kind, Door, Setting, DoorRecord)]
    /\ \A r \in Request :
        /\ wire[r].kind \in Operation \cup {"update"} => wire[r].to \in Door
        /\ wire[r].kind \in {"create", "update"} => wire[r].body \in Setting
        /\ Asks(r, "create", "answered") \/ Asks(r, "update", "answered")
            => Len(wire[r].answer) = 1
    /\ rows \in [Door -> Setting \cup {NoRow}]
    /\ unborn \subseteq {d \in Door : rows[d] = NoRow}
    /\ lockStates \in [Door -> LockState]
    /\ doors \in Seq(DoorRecord)
    /\ autoLockCountdowns \in [Door -> 0..DaySeconds]
    /\ isOperating \in [Door -> BOOLEAN]
    /\ isLoading \in BOOLEAN
    /\ isWizardOpen \in BOOLEAN
    /\ editingDoor \in Door \cup {NoDoor}
    /\ form \in Form
    /\ isSaving \in BOOLEAN

Operating(d) == {r \in InFlight(Operation) : wire[r].to = d}
Saving == InFlight({"create", "update"})

AtMostOne(S) == \A a, b \in S : a = b

\* A card operates exactly while one lock or unlock of its door is under way, and
\* there is never a second, whatever else is fetched, saved or lost meanwhile.
OneOperationPerDoor ==
    \A d \in Door : AtMostOne(Operating(d)) /\ (isOperating[d] <=> Operating(d) # {})

\* A countdown runs only next to a door that is not shown as locked by a report,
\* however lists, locks and saves overlap.
NoCountdownWhileLocked ==
    \A i \in DOMAIN doors : autoLockCountdowns[doors[i].id] > 0 => doors[i].lock # "Locked"

\* The spinner turns, and the refresh button is disabled, only while a call that
\* will end it is under way: one that ends clears it for all of them.
LoadingHasRequest == isLoading => InFlight({"list", "create", "update"}) # {}

\* The wizard says it is saving exactly while one save is under way, also when it
\* was closed and opened for another door meanwhile.
OneSaveInFlight == AtMostOne(Saving) /\ (isSaving <=> Saving # {})

\* The list of the store is the table of the server.
Agrees == doors = Table

\* Once the server no longer changes, no call fails and nothing is being saved, a
\* page that asks for the doors again and again ends up with those of the server for
\* good, whatever older lists and answers were still under way, and whatever the
\* buttons and the wizard are used for meanwhile.
RefreshConverges ==
    /\ <>[][UNCHANGED server]_vars
    /\ <>[](Saving = {} /\ \A r \in Request : wire[r].stage # "failed")
    /\ []<>(InFlight({"list"}) # {})
    => <>[]Agrees

\* "Monitor lock state" (App.tsx), "Real-Time Lock Status" (README.md): saving the
\* configuration of a door does not change the state its card shows.  It does not
\* hold: the answer to an update has no lock state, and the card then shows its
\* default, Locked.
Badge(door) == IF door.lock = NoState THEN "Locked" ELSE door.lock

SavingKeepsBadges ==
    [][(\E r \in Request : SaveEnds(r))
            => \A i \in DOMAIN doors : Badge(doors'[i]) = Badge(doors[i])]_vars
=============================================================================
