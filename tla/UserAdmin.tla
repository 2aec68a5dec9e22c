----------------------------- MODULE UserAdmin -----------------------------
(***************************************************************************)
(* The users page: UserManagement with its cards, the dialog that adds a   *)
(* user and the dialog that sets a PIN with a schedule (ScheduleEditor),   *)
(* on top of useUserStore.  No button of it is ever disabled: whatever is  *)
(* not covered by the backdrop of a dialog may be pressed again while its  *)
(* call is under way.                                                      *)
(*                                                                         *)
(* The name and the digits that are typed are left out: a form is sent     *)
(* when they are there.  The schedule is a draft that outlives its dialog. *)
(* A page that is left loses it, and the handlers still under way then     *)
(* end in a page that is gone.                                             *)
(***************************************************************************)
EXTENDS UserStore

CONSTANTS
    ScheduleType,   \* days, times and dates are fields that nothing here depends on
    MaxUses,        \* the uses to choose from for a one-time pass; 5 in the code
    Unset           \* remainingUses: null, or not there

ASSUME MaxUsesAssumption == MaxUses \in Nat \ {0}
ASSUME UnsetAssumption == Unset \notin 1..MaxUses
ASSUME TypeAssumption == {"Always", "OneTime"} \subseteq ScheduleType
ASSUME PolicyAssumption ==
    Policy = [scheduleType : ScheduleType, remainingUses : 1..MaxUses \cup {Unset}]

VARIABLES
    isAddUserOpen,
    pinModalUser,   \* the user whose PIN dialog is open, or NoUser
    policyData,     \* the draft of the schedule
    mine,           \* the calls whose handlers belong to the page as it is mounted
    unsure          \* history: users and PINs the browser cannot know to be gone

page == <<isAddUserOpen, pinModalUser, policyData, mine>>
vars == <<wire, server, store, page, unsure>>

StandardAccess == [scheduleType |-> "Always", remainingUses |-> Unset]

\* The dashboard has just been loaded and asks for the users.
Init ==
    /\ \E r \in Request :
        wire = [q \in Request |-> IF q = r THEN Call("users", Nothing, Nothing) ELSE NoCall]
    /\ members \in SUBSET User
    /\ owner \in [Pin -> members \cup {NoUser}]
    /\ unborn = (User \ members) \cup {c \in Pin : owner[c] = NoUser}
    /\ users = [u \in User |-> 0]
    /\ credentials = [u \in User |-> {}]
    /\ isAddUserOpen = FALSE
    /\ pinModalUser = NoUser
    /\ policyData = StandardAccess
    /\ mine = {}
    /\ unsure = {}

----------------------------------------------------------------------------
(* The cards *)

\* Both dialogs come with a backdrop over the whole page.
Uncovered == ~isAddUserOpen /\ pinModalUser = NoUser

Ask(r, kind, to, body) ==
    /\ Send(r, kind, to, body)
    /\ mine' = mine \cup {r}
    /\ UNCHANGED <<server, store, unsure>>

deleteUser(r, u) ==
    /\ Uncovered /\ u \in Shown
    /\ Ask(r, "deleteUser", u, Nothing)
    /\ UNCHANGED <<isAddUserOpen, pinModalUser, policyData>>

\* The first PIN that is listed for the user.
deleteCredential(r, u) ==
    /\ Uncovered /\ u \in Shown
    /\ \E c \in credentials[u] : Ask(r, "deletePin", u, c)
    /\ UNCHANGED <<isAddUserOpen, pinModalUser, policyData>>

OpenAddUser ==
    /\ Uncovered
    /\ isAddUserOpen' = TRUE
    /\ UNCHANGED <<wire, server, store, pinModalUser, policyData, mine, unsure>>

\* Mutated: the other dialog has no backdrop.
OpenPinModal_Beside(u) ==
    /\ pinModalUser = NoUser /\ u \in Shown
    /\ pinModalUser' = u
    /\ UNCHANGED <<wire, server, store, isAddUserOpen, policyData, mine, unsure>>

OpenPinModal(u) ==
    /\ Uncovered /\ u \in Shown
    /\ pinModalUser' = u
    /\ UNCHANGED <<wire, server, store, isAddUserOpen, policyData, mine, unsure>>

\* Another tab of the dashboard is opened, and later this one again.
Leave ==
    /\ Uncovered
    /\ policyData' = StandardAccess
    /\ mine' = {}
    /\ UNCHANGED <<wire, server, store, isAddUserOpen, pinModalUser, unsure>>

----------------------------------------------------------------------------
(* The dialogs *)

Close ==
    /\ ~Uncovered
    /\ isAddUserOpen' = FALSE /\ pinModalUser' = NoUser
    /\ UNCHANGED <<wire, server, store, policyData, mine, unsure>>

\* Mutated: a pass that had no uses is given none.
handleTypeChange_KeepsUses(type) ==
    policyData' = [scheduleType |-> type,
                   remainingUses |-> IF type = "OneTime" THEN policyData.remainingUses ELSE Unset]

\* The type of the schedule; a one-time pass starts with one use.
handleTypeChange(type) ==
    policyData' = [scheduleType |-> type,
                   remainingUses |-> IF type # "OneTime" THEN Unset
                                     ELSE IF policyData.remainingUses = Unset THEN 1
                                     ELSE policyData.remainingUses]

chooseUses(uses) ==
    /\ policyData.scheduleType = "OneTime"
    /\ policyData' = [policyData EXCEPT !.remainingUses = uses]

EditSchedule ==
    /\ pinModalUser # NoUser
    /\ (\E type \in ScheduleType : handleTypeChange(type)) \/ (\E n \in 1..MaxUses : chooseUses(n))
    /\ UNCHANGED <<wire, server, store, isAddUserOpen, pinModalUser, mine, unsure>>

\* handleCreateUser up to the await.
handleCreateUser(r) ==
    /\ isAddUserOpen
    /\ unborn \cap User # {}        \* the bound on users
    /\ Ask(r, "createUser", Nothing, Nothing)
    /\ UNCHANGED <<isAddUserOpen, pinModalUser, policyData>>

\* handleSavePinAndSchedule up to the first await.
handleSavePinAndSchedule(r) ==
    /\ pinModalUser # NoUser
    /\ unborn \cap Pin # {}         \* the bound on PINs
    /\ Ask(r, "setPin", pinModalUser, policyData)
    /\ UNCHANGED <<isAddUserOpen, pinModalUser, policyData>>

----------------------------------------------------------------------------
(* Answers *)

UsersArrive(r) ==
    /\ fetchUsersEnds(r)
    /\ UNCHANGED <<server, page, unsure>>

\* The dialog that is open by now is closed, if the page is still the same.
UserCreated(r) ==
    /\ createUserEnds(r)
    /\ isAddUserOpen' = (isAddUserOpen /\ r \notin mine)
    /\ mine' = mine \ {r}
    /\ UNCHANGED <<server, pinModalUser, policyData, unsure>>

\* A list, or the answer to the creation, that is still under way may bring the user
\* back.
UserDeleted(r) ==
    /\ deleteUserEnds(r)
    /\ unsure' = IF InFlight({"users", "createUser"}) = {} THEN unsure
                 ELSE unsure \cup {wire[r].to}
    /\ mine' = mine \ {r}
    /\ UNCHANGED <<server, isAddUserOpen, pinModalUser, policyData>>

PinSet(r) ==
    /\ setPinEnds(r)
    /\ UNCHANGED <<server, page, unsure>>

PolicySaved(r) ==
    /\ savePolicyEnds(r)
    /\ pinModalUser' = IF r \in mine THEN NoUser ELSE pinModalUser
    /\ mine' = mine \ {r}
    /\ UNCHANGED <<server, isAddUserOpen, policyData, unsure>>

PinDeleted(r) ==
    /\ deletePinEnds(r)
    /\ mine' = mine \ {r}
    /\ UNCHANGED <<server, isAddUserOpen, pinModalUser, policyData, unsure>>

Kind == {"users", "createUser", "deleteUser", "setPin", "policy", "deletePin"}

\* A call throws; no handler does more than show that.  A deletion that throws may
\* have been carried out.
Fail(r) ==
    /\ \E kind \in Kind : Throws(r, kind)
    /\ unsure' = unsure \cup CASE wire[r].kind = "deleteUser" -> {wire[r].to}
                               [] wire[r].kind = "deletePin" -> {wire[r].body}
                               [] OTHER -> {}
    /\ mine' = mine \ {r}
    /\ UNCHANGED <<server, isAddUserOpen, pinModalUser, policyData>>

Arrive(r) ==
    \/ UsersArrive(r) \/ UserCreated(r) \/ UserDeleted(r)
    \/ PinSet(r) \/ PolicySaved(r) \/ PinDeleted(r) \/ Fail(r)

Serve(r) ==
    /\ \/ ServeUsers(r) \/ ServeCreateUser(r) \/ ServeDeleteUser(r)
       \/ ServeSetPin(r) \/ ServeDeletePin(r) \/ ServePolicy(r)
    /\ UNCHANGED <<store, page, unsure>>

Lose(r) == Lost(r) /\ UNCHANGED <<server, store, page, unsure>>

\* Another browser, or revoke_user of the MCP server.
DeleteElsewhere ==
    /\ \/ \E u \in members : RemoveUser(u) /\ unsure' = unsure \cup {u}
       \/ \E c \in Pin :
            /\ owner[c] # NoUser
            /\ owner' = [owner EXCEPT ![c] = NoUser]
            /\ unsure' = unsure \cup {c}
            /\ UNCHANGED members
    /\ UNCHANGED <<wire, unborn, store, page>>

Use ==
    \/ \E r \in Request, u \in User : deleteUser(r, u) \/ deleteCredential(r, u)
    \/ \E u \in User : OpenPinModal(u)
    \/ \E r \in Request : handleCreateUser(r) \/ handleSavePinAndSchedule(r)
    \/ OpenAddUser \/ Leave \/ Close \/ EditSchedule

Next ==
    \/ Use
    \/ \E r \in Request : Serve(r) \/ Lose(r) \/ Arrive(r)
    \/ DeleteElsewhere

Spec == Init /\ [][Next]_vars

----------------------------------------------------------------------------
(* Properties *)

\* Every variable has its type, a call has the parameters of its kind, and at most one
\* dialog is open, however late the handlers of other dialogs end.
TypeOK ==
    /\ wire \in [Request -> CallType(Kind, User, Pin \cup Policy, User \cup Pin)]
    /\ \A r \in Request :
        /\ wire[r].kind \in {"deleteUser", "deletePin", "setPin", "policy"} => wire[r].to \in User
        /\ wire[r].kind = "deletePin" => wire[r].body \in Pin
        /\ wire[r].kind \in {"setPin", "policy"} => wire[r].body \in Policy
    /\ members \subseteq User
    /\ owner \in [Pin -> User \cup {NoUser}]
    /\ unborn \subseteq User \cup Pin
    /\ users \in [User -> Nat]
    /\ credentials \in [User -> SUBSET Pin]
    /\ isAddUserOpen \in BOOLEAN
    /\ pinModalUser \in User \cup {NoUser}
    /\ isAddUserOpen => pinModalUser = NoUser
    /\ policyData \in Policy
    /\ mine \subseteq Request
    /\ unsure \subseteq User \cup Pin

\* Some call is under way that deletes it.
UserGoes(u) == \E r \in Request : wire[r].kind = "deleteUser" /\ wire[r].to = u
PinGoes(c) == \E r \in Request : wire[r].kind = "deletePin" /\ wire[r].body = c

\* A card shows a user, and a PIN of that user, that is really there - unless it is
\* being removed, or the browser cannot know: its deletion threw, was ordered
\* elsewhere, or was overtaken by an older list or answer.  Answers come in any order, handlers
\* overlap, and cards may be pressed twice.
ShownIsThere ==
    \A u \in Shown :
        /\ u \in members \cup unsure \/ UserGoes(u)
        /\ u \in members => \A c \in credentials[u] :
            owner[c] = u \/ c \in unsure \/ PinGoes(c)

\* A schedule that is drafted or on its way counts uses exactly when it is a one-time
\* pass, whichever types it went through and for whichever user it was begun: without
\* a number a pass would never be used up.
PassesCountUses ==
    LET counted(p) == p.scheduleType = "OneTime" <=> p.remainingUses # Unset
    IN  /\ counted(policyData)
        /\ \A r \in Request : wire[r].kind \in {"setPin", "policy"} => counted(wire[r].body)
=============================================================================
