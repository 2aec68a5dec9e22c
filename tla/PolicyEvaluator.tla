-------------------------- MODULE PolicyEvaluator --------------------------
(***************************************************************************)
(* AccessPolicyEvaluator.EvaluateAsync: PINs of one user that are entered  *)
(* at one door, evaluated at the same time by as many threads, while the   *)
(* API saves policies, gives and takes PINs and suspends the user.         *)
(*                                                                         *)
(* Each await is a step: the users, the credentials, the policies of the   *)
(* user, the policies of the door, and for a one-time pass the row that is *)
(* written back as it was read, with a use less.  Nothing in src/ calls    *)
(* the evaluator yet; its callers are whoever will.                        *)
(***************************************************************************)
EXTENDS AccessPolicy, FiniteSets

CONSTANTS
    Policy,     \* rows of AccessPolicies
    Worker,     \* threads that evaluate
    Time,       \* timestamps of keypad events
    Saved,      \* rows that the API writes
    Free        \* nothing is evaluated; not on the list

ASSUME SavedAssumption == Saved \subseteq PolicyRow
ASSUME FreeAssumption == Free \notin PolicyRow
ASSUME TimesAssumption == Time \subseteq Nat

VARIABLES
    policies,   \* [Policy -> PolicyRow]
    ofUser,     \* policies assigned to the user, by name or by group
    ofDoor,     \* policies assigned to the door, to whomever
    isActive,   \* the user is not suspended
    hasPin,     \* the PIN that is entered is the user's
    evaluation, \* [Worker -> how far it has come and what it has read]
    spent,      \* history: [Policy -> uses admitted since the row was saved]
    uses,       \* history: [Policy -> uses it was saved with]
    raced       \* history: policies of which a row was overwritten that had changed

tables == <<policies, ofUser, ofDoor, isActive, hasPin>>
history == <<spent, uses, raced>>
vars == <<tables, evaluation, history>>

\* The rows of a list as they are read.
Copies == [Policy -> PolicyRow \cup {Free}]
Read(assigned) == [p \in Policy |-> IF p \in assigned THEN policies[p] ELSE Free]
On(list) == {p \in Policy : list[p] # Free}

\* A pass without a number is good for one use.
UsesOf(p) == IF p.remainingUses = Unset THEN 1 ELSE p.remainingUses

Init ==
    /\ policies \in [Policy -> Saved]
    /\ ofUser \in SUBSET Policy /\ ofDoor \in SUBSET Policy
    /\ isActive = TRUE /\ hasPin = TRUE
    /\ evaluation = [w \in Worker |-> Free]
    /\ spent = [p \in Policy |-> 0]
    /\ uses = [p \in Policy |-> UsesOf(policies[p])]
    /\ raced = {}

----------------------------------------------------------------------------
(* EvaluateAsync *)

At(w, stage) == evaluation[w] # Free /\ evaluation[w].stage = stage
Goes(w, state) == evaluation' = [evaluation EXCEPT ![w] = state]
Ends(w) == Goes(w, Free)

\* The users are read.
Begin(w) ==
    /\ evaluation[w] = Free
    /\ Goes(w, [stage |-> "user", active |-> isActive])
    /\ UNCHANGED <<tables, history>>

\* The credentials are read: an unknown PIN is denied, and so is a suspended user.
MatchPin(w) ==
    /\ At(w, "user")
    /\ IF hasPin /\ evaluation[w].active THEN Goes(w, [stage |-> "matched"]) ELSE Ends(w)
    /\ UNCHANGED <<tables, history>>

ReadUserPolicies(w) ==
    /\ At(w, "matched")
    /\ Goes(w, [stage |-> "policies", list |-> Read(ofUser)])
    /\ UNCHANGED <<tables, history>>

\* The user's policies for this door, else all of the user's, else all of the door's.
Candidates(w) ==
    LET list == evaluation[w].list
        both == On(list) \cap ofDoor
    IN  CASE On(list) = {} -> Read(ofDoor)
          [] On(list) # {} /\ both = {} -> list
          [] On(list) # {} /\ both # {} ->
                [p \in Policy |-> IF p \in both THEN list[p] ELSE Free]

\* Mutated: a pass that is down to its last use keeps it.
Used_KeepsLast(p) == [p EXCEPT !.remainingUses = IF UsesOf(p) > 1 THEN UsesOf(p) - 1 ELSE UsesOf(p)]

\* A row with a use less.
Used(p) == [p EXCEPT !.remainingUses = IF UsesOf(p) > 0 THEN UsesOf(p) - 1 ELSE 0]

\* Mutated: whatever the type, a use is taken.
Admit_TakesUseOfAny(w, p, copy) ==
    Goes(w, [stage |-> "spending", policy |-> p, copy |-> copy])

\* The first active policy admits, at once or after a use of it is taken.
Admit(w, p, copy) ==
    IF copy.scheduleType = "OneTime"
      THEN Goes(w, [stage |-> "spending", policy |-> p, copy |-> copy])
      ELSE Ends(w)

\* The policies of the door are read, and one that is active is looked for in an order
\* that the lists leave open.  The event has a timestamp of any value.
ChoosePolicy(w) ==
    /\ At(w, "policies")
    /\ \E t \in Time :
        LET candidates == Candidates(w)
            active == {p \in On(candidates) : IsActiveAt(candidates[p], t)}
        IN  IF active = {} THEN Ends(w)
            ELSE \E p \in active : Admit(w, p, candidates[p])
    /\ UNCHANGED <<tables, history>>

\* The whole row is written back, and the door opens.
Spend(w) ==
    /\ At(w, "spending")
    /\ LET p == evaluation[w].policy
           copy == evaluation[w].copy
       IN  /\ policies' = [policies EXCEPT ![p] = Used(copy)]
           /\ raced' = IF policies[p] = copy THEN raced ELSE raced \cup {p}
           /\ spent' = IF p \in raced' THEN spent ELSE [spent EXCEPT ![p] = @ + 1]
    /\ Ends(w)
    /\ UNCHANGED <<ofUser, ofDoor, isActive, hasPin, uses>>

Evaluate(w) ==
    Begin(w) \/ MatchPin(w) \/ ReadUserPolicies(w) \/ ChoosePolicy(w) \/ Spend(w)

----------------------------------------------------------------------------
(* The API *)

\* POST /api/users/{id}/policies with the id of a row.
SavePolicy(p, row) ==
    /\ policies' = [policies EXCEPT ![p] = row]
    /\ spent' = [spent EXCEPT ![p] = 0]
    /\ uses' = [uses EXCEPT ![p] = UsesOf(row)]
    /\ raced' = raced \ {p}
    /\ UNCHANGED <<ofUser, ofDoor, isActive, hasPin, evaluation>>

\* Assignments come with a user and go with a door or a user.
Assign ==
    /\ ofUser' \in SUBSET Policy /\ ofDoor' \in SUBSET Policy
    /\ UNCHANGED <<policies, isActive, hasPin, evaluation, history>>

\* A PIN is set or removed, the user is suspended or not.
EditUser ==
    /\ isActive' \in BOOLEAN /\ hasPin' \in BOOLEAN
    /\ UNCHANGED <<policies, ofUser, ofDoor, evaluation, history>>

Save == \E p \in Policy, row \in Saved : SavePolicy(p, row)

Next == (\E w \in Worker : Evaluate(w)) \/ Save \/ Assign \/ EditUser

Spec == Init /\ [][Next]_vars

----------------------------------------------------------------------------
(* Properties *)

EvaluationState ==
    [stage : {"user"}, active : BOOLEAN]
    \cup [stage : {"matched"}]
    \cup [stage : {"policies"}, list : Copies]
    \cup [stage : {"spending"}, policy : Policy, copy : PolicyRow]

\* Every variable has its type, and only a one-time pass that has a use left is about
\* to lose one.
TypeOK ==
    /\ policies \in [Policy -> PolicyRow]
    /\ ofUser \subseteq Policy /\ ofDoor \subseteq Policy
    /\ isActive \in BOOLEAN /\ hasPin \in BOOLEAN
    /\ evaluation \in [Worker -> {Free} \cup EvaluationState]
    /\ \A w \in Worker : At(w, "spending") =>
        evaluation[w].copy.scheduleType = "OneTime" /\ UsesOf(evaluation[w].copy) > 0
    /\ spent \in [Policy -> Nat] /\ uses \in [Policy -> Int]
    /\ raced \subseteq Policy

\* "RemainingUses: Decremented on unlock for OneTime schedules": since it was saved,
\* a one-time pass has admitted as often as its uses went down - as long as no
\* evaluation wrote over a row that had changed since it was read.
AdmissionsAreCounted ==
    \A p \in Policy : policies[p].scheduleType = "OneTime" /\ p \notin raced
        => spent[p] + UsesOf(policies[p]) = uses[p]

\* Unless policies are saved again and again, no pass admits for ever, however the
\* evaluations overwrite one another's rows.
PassesRunOut ==
    <>[][~Save]_vars => ~ []<><<\E w \in Worker : Spend(w)>>_vars

\* The rows in use admit exactly in the periods their schedules stand for: windows over
\* midnight, open windows, days, dates and uses included.
ActiveInPeriod ==
    \A p \in Policy, t \in Time : IsActiveAt(policies[p], t) <=> Admits(policies[p], t)
=============================================================================
