------------------------------ MODULE SlotSync ------------------------------
(***************************************************************************)
(* HardwareSlotSyncWorker for one lock with user-code slots: a pass reads  *)
(* who should have a code, removes the codes of those who should not, and  *)
(* installs the missing ones.  Every repository call and every command to  *)
(* the lock is a step of its own, so that requests of administrators, a    *)
(* failing command or a crash can fall between any two of them.            *)
(*                                                                         *)
(* The reads that build the desired list (users, policies, credentials)    *)
(* are one step; what they read may be stale at every later one.  Whether  *)
(* a user's policies are active now is one bit per user.  A credential     *)
(* stands for its PIN.                                                     *)
(***************************************************************************)
EXTENDS Integers, Sequences, FiniteSets

CONSTANTS
    UserOrder,  \* the users, each once, ordered by name as GetAllAsync returns them
    Cred,       \* PIN credentials that may be given out
    Owner,      \* [Cred -> user]: whom a credential is given to
    MaxSlot,    \* slots of the lock; 30 in the code
    Pass,       \* reconciliations that may run at the same time
    Nobody,     \* the NULL of UserId and CredentialId
    NoRow,      \* a slot number that has no row yet
    NoCode,     \* an empty slot of the lock
    Faults      \* what may go wrong or be asked for in an execution: sets of FaultKind

Slot == 1..MaxSlot
User == {UserOrder[i] : i \in DOMAIN UserOrder}

FaultKind ==
    {"refuse",   \* a provider answers false, as ILockProvider allows
     "throw",    \* a publish throws; the command may have gone out
     "offline",  \* the provider swallows that the client is not connected
     "crash",    \* the process stops in the middle of a pass
     "revoke",   \* codemaster__revoke_user
     "delete"}   \* DELETE /api/users/{id}

ASSUME FaultAssumption == Faults \subseteq SUBSET FaultKind
ASSUME SlotAssumption == MaxSlot \in Nat \ {0}
ASSUME OrderAssumption ==
    /\ UserOrder \in Seq(User)
    /\ \A i, j \in DOMAIN UserOrder : UserOrder[i] = UserOrder[j] => i = j
ASSUME OwnerAssumption == Owner \in [Cred -> User]
ASSUME NullAssumption == Nobody \notin User \cup Cred /\ NoCode \notin Cred

SlotSyncStatus == {"Synced", "Adding", "Deleting", "Error"}
Row == [user : User \cup {Nobody}, cred : Cred \cup {Nobody}, sync : SlotSyncStatus]

ASSUME NoRowAssumption == NoRow \notin Row

VARIABLES
    users,      \* rows of Users
    entitled,   \* users that are active and whose policies are active now
    creds,      \* [User -> the user's PIN credentials, oldest first]
    unborn,     \* credentials not yet given out: a bound on PIN changes
    rows,       \* [Slot -> row of HardwareSlots]
    codes,      \* [Slot -> the code in the lock's memory] (external)
    pass,       \* [Pass -> where a reconciliation stands]
    revocation, \* where a call of codemaster__revoke_user stands; one at a time, a bound
    calm,       \* history: the running pass met no failure and no change so far
    fault       \* which of Faults this execution has; it never changes

people == <<users, entitled, creds, unborn>>
vars == <<people, rows, codes, pass, revocation, calm, fault>>

PassState ==
    {"idle", "read", "remove", "clearing", "cleared", "clearRefused", "forgotten",
     "add", "inserted", "allocated", "setting", "set", "setRefused"}

\* A pass keeps its desired list, the slots it has still to clear, the rows it
\* read after clearing, and the slot it is busy with, freshly allocated or not; of
\* one that is, the row it found when it read it back.
NoPass ==
    [at |-> "idle", desired |-> {}, view |-> [s \in Slot |-> NoRow],
     left |-> {}, slot |-> 0, fresh |-> FALSE, found |-> NoRow]

\* A revocation has deactivated the user, then keeps the slots it read as the user's.
NoRevocation == [at |-> "idle", user |-> Nobody, left |-> {}]

Init ==
    /\ users = User
    /\ entitled \in SUBSET User
    /\ creds = [u \in User |-> <<>>]
    /\ unborn = Cred
    /\ rows = [s \in Slot |-> NoRow]
    /\ codes = [s \in Slot |-> NoCode]
    /\ pass = [w \in Pass |-> NoPass]
    /\ revocation = NoRevocation
    /\ calm = FALSE
    /\ fault \in Faults

----------------------------------------------------------------------------
(* What a pass decides on *)

\* Who should have a code: the entitled users, with their oldest PIN.
Desired ==
    {[user |-> u, cred |-> Head(creds[u])] : u \in {v \in users \cap entitled : creds[v] # <<>>}}

Wants(desired, row) == \E d \in desired : d.user = row.user /\ d.cred = row.cred

Taken(row) == row # NoRow /\ row.user # Nobody

\* The slots of a view that belong to somebody who is not to have a code.
Obsolete(desired, view) == {s \in Slot : Taken(view[s]) /\ ~Wants(desired, view[s])}

Least(S) == CHOOSE s \in S : \A t \in S : s <= t

Holds(row, want) == Taken(row) /\ row.user = want.user /\ row.cred = want.cred

FreeSlots(view) == {s \in Slot : ~Taken(view[s])}

----------------------------------------------------------------------------
(* Steps of a pass *)

At(w, state) == pass[w].at = state

\* Repository and lock calls are made for the slot the pass is busy with.
UpdateSlotSyncStatus(s, status) == rows' = [rows EXCEPT ![s].sync = status]

Goes(w, changed) == pass' = [pass EXCEPT ![w] = changed]

Abort(w) == Goes(w, NoPass)

\* The desired list is computed.
Start(w) ==
    /\ At(w, "idle")
    /\ Goes(w, [NoPass EXCEPT !.at = "read", !.desired = Desired])
    /\ calm' = \A v \in Pass \ {w} : At(v, "idle")
    /\ UNCHANGED <<people, rows, codes>>

ReadSlots(w) ==
    /\ At(w, "read")
    /\ Goes(w, [pass[w] EXCEPT !.at = "remove", !.left = Obsolete(pass[w].desired, rows)])
    /\ UNCHANGED <<people, rows, codes, calm>>

\* Mutated: the row forgets its user before the command to the lock.
MarkDeleting_ForgetsFirst(w) ==
    /\ At(w, "remove") /\ pass[w].left # {}
    /\ LET s == Least(pass[w].left) IN
        /\ rows' = [rows EXCEPT ![s] = [user |-> Nobody, cred |-> Nobody, sync |-> "Deleting"]]
        /\ Goes(w, [pass[w] EXCEPT !.at = "clearing", !.slot = s, !.left = @ \ {s}])
    /\ UNCHANGED <<people, codes, calm>>

MarkDeleting(w) ==
    /\ At(w, "remove") /\ pass[w].left # {}
    /\ LET s == Least(pass[w].left) IN
        /\ UpdateSlotSyncStatus(s, "Deleting")
        /\ Goes(w, [pass[w] EXCEPT !.at = "clearing", !.slot = s, !.left = @ \ {s}])
    /\ UNCHANGED <<people, codes, calm>>

\* A command to the lock leaves the slot with a new content and the pass where it
\* goes on; it may be swallowed as if it had been sent, refused, or throw.
Command(w, content, done, refused) ==
    LET s == pass[w].slot
        sent == codes' = [codes EXCEPT ![s] = content]
    IN  \/ sent /\ Goes(w, [pass[w] EXCEPT !.at = done]) /\ UNCHANGED calm
        \/ /\ "offline" \in fault
           /\ Goes(w, [pass[w] EXCEPT !.at = done]) /\ UNCHANGED codes /\ calm' = FALSE
        \/ /\ "refuse" \in fault
           /\ Goes(w, [pass[w] EXCEPT !.at = refused]) /\ UNCHANGED codes /\ calm' = FALSE
        \/ /\ "throw" \in fault
           /\ Abort(w) /\ (sent \/ UNCHANGED codes) /\ calm' = FALSE

ClearSlotCode(w) ==
    /\ At(w, "clearing")
    /\ Command(w, NoCode, "cleared", "clearRefused")
    /\ UNCHANGED <<people, rows>>

\* Mutated: the emptied slot keeps an empty code instead of NULL.
ClearSlot_EmptyCode(w) ==
    /\ At(w, "cleared")
    /\ rows' = [rows EXCEPT ![pass[w].slot].user = Nobody, ![pass[w].slot].cred = NoCode]
    /\ Goes(w, [pass[w] EXCEPT !.at = "forgotten"])
    /\ UNCHANGED <<people, codes, calm>>

\* ClearSlotAsync, and only then the status.
ClearSlot(w) ==
    /\ At(w, "cleared")
    /\ rows' = [rows EXCEPT ![pass[w].slot].user = Nobody, ![pass[w].slot].cred = Nobody]
    /\ Goes(w, [pass[w] EXCEPT !.at = "forgotten"])
    /\ UNCHANGED <<people, codes, calm>>

MarkCleared(w) ==
    /\ \/ At(w, "forgotten") /\ UpdateSlotSyncStatus(pass[w].slot, "Synced")
       \/ At(w, "clearRefused") /\ UpdateSlotSyncStatus(pass[w].slot, "Error")
    /\ Goes(w, [pass[w] EXCEPT !.at = "remove", !.slot = 0])
    /\ UNCHANGED <<people, codes, calm>>

\* All obsolete slots are done: the rows are read again.
Refresh(w) ==
    /\ At(w, "remove") /\ pass[w].left = {}
    /\ Goes(w, [pass[w] EXCEPT !.at = "add", !.view = rows])
    /\ UNCHANGED <<people, rows, codes, calm>>

\* The desired users are served by name.
Place(u) == CHOOSE i \in DOMAIN UserOrder : UserOrder[i] = u

Want(w) == CHOOSE d \in pass[w].desired :
                \A e \in pass[w].desired : Place(d.user) <= Place(e.user)

\* Mutated: only a synced slot counts as the user's.
Existing_SyncedOnly(w) ==
    {s \in Slot : Holds(pass[w].view[s], Want(w)) /\ pass[w].view[s].sync = "Synced"}

Existing(w) == {s \in Slot : Holds(pass[w].view[s], Want(w))}
ToAdd(w) == At(w, "add") /\ pass[w].desired # {}

\* Mutated: a slot that is not synced is skipped like one that is.
Skip_AnyStatus(w) ==
    /\ ToAdd(w)
    /\ Existing(w) # {} \/ FreeSlots(pass[w].view) = {}
    /\ Goes(w, [pass[w] EXCEPT !.desired = @ \ {Want(w)}])
    /\ UNCHANGED <<people, rows, codes, calm>>

\* The desired user has a synced slot, or there is none left to give.
Skip(w) ==
    /\ ToAdd(w)
    /\ IF Existing(w) # {}
         THEN pass[w].view[Least(Existing(w))].sync = "Synced"
         ELSE FreeSlots(pass[w].view) = {}
    /\ Goes(w, [pass[w] EXCEPT !.desired = @ \ {Want(w)}])
    /\ UNCHANGED <<people, rows, codes, calm>>

\* The desired user has a slot that is not synced: its code is set again.
MarkAdding(w) ==
    /\ ToAdd(w) /\ Existing(w) # {}
    /\ LET s == Least(Existing(w)) IN
        /\ pass[w].view[s].sync # "Synced"
        /\ UpdateSlotSyncStatus(s, "Adding")
        /\ Goes(w, [pass[w] EXCEPT !.at = "setting", !.slot = s, !.fresh = FALSE])
    /\ UNCHANGED <<people, codes, calm>>

\* AllocateSlotAsync first inserts or overwrites the row, already marked Synced.
\* A user or credential that is gone by now violates a foreign key and throws.
Allocate(w) ==
    /\ ToAdd(w) /\ Existing(w) = {} /\ FreeSlots(pass[w].view) # {}
    /\ LET s == Least(FreeSlots(pass[w].view))
           want == Want(w)
           known == want.user \in users /\ \E i \in DOMAIN creds[want.user] :
                                                creds[want.user][i] = want.cred
       IN  \/ /\ known
              /\ rows' = [rows EXCEPT ![s] = [user |-> want.user, cred |-> want.cred,
                                              sync |-> "Synced"]]
              /\ Goes(w, [pass[w] EXCEPT !.at = "inserted", !.slot = s, !.fresh = TRUE])
           \/ ~known /\ Abort(w) /\ UNCHANGED rows
    /\ UNCHANGED <<people, codes, calm>>

\* Then it reads the row back, on another connection: what a request has made of it
\* in between is what the pass takes for its new slot.  (A row never goes.)
GetSlot(w) ==
    /\ At(w, "inserted")
    /\ Goes(w, [pass[w] EXCEPT !.at = "allocated", !.found = rows[pass[w].slot]])
    /\ UNCHANGED <<people, rows, codes, calm>>

MarkAllocated(w) ==
    /\ At(w, "allocated")
    /\ UpdateSlotSyncStatus(pass[w].slot, "Adding")
    /\ Goes(w, [pass[w] EXCEPT !.at = "setting"])
    /\ UNCHANGED <<people, codes, calm>>

SetSlotCode(w) ==
    /\ At(w, "setting")
    /\ Command(w, Want(w).cred, "set", "setRefused")
    /\ UNCHANGED <<people, rows>>

\* A slot that was set is Synced, and a fresh one joins the view as it was read
\* back after the allocation; one that was refused is an Error, and a fresh one stays
\* free in the view.
MarkSet(w) ==
    LET s == pass[w].slot
        next == [pass[w] EXCEPT !.at = "add", !.desired = @ \ {Want(w)},
                                !.slot = 0, !.fresh = FALSE, !.found = NoRow]
    IN  /\ \/ /\ At(w, "set")
              /\ UpdateSlotSyncStatus(s, "Synced")
              /\ Goes(w, IF pass[w].fresh THEN [next EXCEPT !.view[s] = pass[w].found] ELSE next)
           \/ /\ At(w, "setRefused")
              /\ UpdateSlotSyncStatus(s, "Error")
              /\ Goes(w, next)
        /\ UNCHANGED <<people, codes, calm>>

Finish(w) ==
    /\ At(w, "add") /\ pass[w].desired = {}
    /\ Abort(w)
    /\ UNCHANGED <<people, rows, codes, calm>>

Step(w) ==
    /\ \/ Start(w) \/ ReadSlots(w)
       \/ MarkDeleting(w) \/ ClearSlotCode(w) \/ ClearSlot(w) \/ MarkCleared(w)
       \/ Refresh(w) \/ Skip(w) \/ MarkAdding(w)
       \/ Allocate(w) \/ GetSlot(w) \/ MarkAllocated(w) \/ SetSlotCode(w) \/ MarkSet(w)
       \/ Finish(w)
    /\ UNCHANGED revocation

----------------------------------------------------------------------------
(* Administration, between any two steps of a pass *)

\* A schedule opens or closes, a policy or the user is edited.
ChangeEntitlement(u) ==
    /\ entitled' = IF u \in entitled THEN entitled \ {u} ELSE entitled \cup {u}
    /\ calm' = FALSE
    /\ UNCHANGED <<users, creds, unborn, rows, codes, pass, revocation>>

\* POST /api/users/{id}/credentials/pin adds a credential and removes none.
SetPin(c) ==
    /\ c \in unborn /\ Owner[c] \in users
    /\ unborn' = unborn \ {c}
    /\ creds' = [creds EXCEPT ![Owner[c]] = Append(@, c)]
    /\ calm' = FALSE
    /\ UNCHANGED <<users, entitled, rows, codes, pass, revocation>>

\* ON DELETE SET NULL of the two foreign keys of a slot row.
SetNull(u, gone) ==
    rows' = [s \in Slot |->
        IF rows[s] = NoRow THEN NoRow
        ELSE [rows[s] EXCEPT !.user = IF @ = u THEN Nobody ELSE @,
                             !.cred = IF @ \in gone THEN Nobody ELSE @]]

\* DELETE /api/users/{id}/credentials/{credentialId}
DeleteCredential(u, i) ==
    /\ i \in DOMAIN creds[u]
    /\ creds' = [creds EXCEPT ![u] = SubSeq(@, 1, i - 1) \o SubSeq(@, i + 1, Len(@))]
    /\ SetNull(Nobody, {creds[u][i]})
    /\ calm' = FALSE
    /\ UNCHANGED <<users, entitled, unborn, codes, pass, revocation>>

\* DELETE /api/users/{id}: the credentials go with the user (ON DELETE CASCADE).
DeleteUser(u) ==
    /\ "delete" \in fault
    /\ u \in users
    /\ users' = users \ {u}
    /\ creds' = [creds EXCEPT ![u] = <<>>]
    /\ SetNull(u, {creds[u][i] : i \in DOMAIN creds[u]})
    /\ calm' = FALSE
    /\ UNCHANGED <<entitled, unborn, codes, pass, revocation>>

\* codemaster__revoke_user: the user is made inactive, ...
DeactivateUser(u) ==
    /\ "revoke" \in fault
    /\ revocation = NoRevocation
    /\ u \in users
    /\ entitled' = entitled \ {u}
    /\ revocation' = [at |-> "deactivated", user |-> u, left |-> {}]
    /\ calm' = FALSE
    /\ UNCHANGED <<users, creds, unborn, rows, codes, pass>>

\* ... its slots are read, ...
ReadRevoked ==
    /\ revocation.at = "deactivated"
    /\ revocation' = [revocation EXCEPT !.at = "clearing",
                        !.left = {s \in Slot : Taken(rows[s]) /\ rows[s].user = revocation.user}]
    /\ UNCHANGED <<people, rows, codes, pass, calm>>

\* ... and their rows forget whatever user they name by now, one by one; no command
\* goes to any lock.
ForgetRevoked ==
    /\ revocation.at = "clearing"
    /\ \/ \E s \in revocation.left :
            /\ s = Least(revocation.left)
            /\ rows' = [rows EXCEPT ![s].user = Nobody, ![s].cred = Nobody]
            /\ revocation' = [revocation EXCEPT !.left = @ \ {s}]
            /\ calm' = FALSE
       \/ /\ revocation.left = {}
          /\ revocation' = NoRevocation
          /\ UNCHANGED <<rows, calm>>
    /\ UNCHANGED <<people, codes, pass>>

\* The process stops; what is in the database and in the lock stays.
Crash ==
    /\ "crash" \in fault
    /\ pass' = [w \in Pass |-> NoPass]
    /\ revocation' = NoRevocation
    /\ calm' = FALSE
    /\ UNCHANGED <<people, rows, codes>>

Administration ==
    \/ \E u \in User :
        \/ ChangeEntitlement(u)
        \/ \E i \in DOMAIN creds[u] : DeleteCredential(u, i)
        \/ DeleteUser(u)
        \/ DeactivateUser(u)
    \/ \E c \in Cred : SetPin(c)
    \/ ReadRevoked
    \/ ForgetRevoked

Next ==
    /\ \/ \E w \in Pass : Step(w)
       \/ Administration
       \/ Crash
    /\ UNCHANGED fault

Spec == Init /\ [][Next]_vars

----------------------------------------------------------------------------
(* Properties *)

\* Every variable has its type: rows name users and credentials or nobody.
TypeOK ==
    /\ users \subseteq User
    /\ entitled \subseteq User
    /\ creds \in [User -> Seq(Cred)]
    /\ unborn \subseteq Cred
    /\ rows \in [Slot -> Row \cup {NoRow}]
    /\ codes \in [Slot -> Cred \cup {NoCode}]
    /\ revocation \in [at : {"idle", "deactivated", "clearing"}, user : User \cup {Nobody},
                       left : SUBSET Slot]
    /\ calm \in BOOLEAN
    /\ fault \in Faults
    /\ \A w \in Pass :
        /\ pass[w].at \in PassState
        /\ pass[w].desired \subseteq [user : User, cred : Cred]
        /\ pass[w].view \in [Slot -> Row \cup {NoRow}]
        /\ pass[w].left \subseteq Slot
        /\ pass[w].slot \in Slot \cup {0}
        /\ pass[w].fresh \in BOOLEAN
        /\ pass[w].found \in Row \cup {NoRow}

\* No code is forgotten in the lock: whatever code it holds, the slot's row still
\* names its owner, so that a later pass finds it and clears it when the owner is
\* no longer entitled.  (With neither of the ways the code has to lose it: user
\* deletion, revocation, a clear command swallowed while offline.)
NoForgottenCode ==
    {"delete", "revoke", "offline"} \cap fault = {} =>
        \A s \in Slot : codes[s] # NoCode => rows[s] # NoRow /\ rows[s].user = Owner[codes[s]]

\* The table never names one credential in two slots, even though a pass allocates
\* from rows it read long before, refusals leave rows it does not look at again,
\* and requests rewrite the rows under it (one pass at a time).
OneSlotPerCredential ==
    \A s, t \in Slot :
        s # t /\ rows[s] # NoRow /\ rows[t] # NoRow /\ rows[s].cred # Nobody
            => rows[s].cred # rows[t].cred

\* The lock holds the codes of the desired users and no others, as far as its
\* slots go.
Reconciled ==
    LET installed == {d \in Desired : \E s \in Slot : codes[s] = d.cred /\ Holds(rows[s], d)}
    IN  /\ \A s \in Slot : codes[s] # NoCode => \E d \in installed : d.cred = codes[s]
        /\ installed = Desired \/ Cardinality(installed) = MaxSlot

\* A pass during which nothing failed and nothing changed reconciles the lock,
\* whatever refused or broken passes it finds the remains of.
PassReconciles == [][\A w \in Pass : Finish(w) /\ calm => Reconciled]_vars
=============================================================================
