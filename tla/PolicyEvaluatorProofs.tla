----------------------- MODULE PolicyEvaluatorProofs -----------------------
(***************************************************************************)
(* Proofs about AccessPolicy and PolicyEvaluator, for any rows, times,     *)
(* threads and lengths of days and weeks.                                  *)
(***************************************************************************)
EXTENDS PolicyEvaluator, TLAPS

LEMMA ClockType ==
    ASSUME NEW t \in Nat
    PROVE  ClockAt(t) \in Clock
BY TimeAssumption DEF ClockAt, Clock

LEMMA HandMeets ==
    ASSUME NEW start \in Clock, NEW end \in Clock, NEW c \in Clock
    PROVE  (IF start <= end THEN c >= start /\ c <= end ELSE c >= start \/ c <= end)
                <=> Turn(start, c) <= Turn(start, end)
BY TimeAssumption DEF Clock, Turn

\* The hand of a clock that comes from the start meets a time of day before it has
\* left the end behind exactly when the comparisons of the code say so.
LEMMA WindowsAgree ==
    ASSUME NEW p \in PolicyRow, NEW t \in Nat
    PROVE  IsTimeWindowActive(p, t) <=> InWindow(p, t)
<1> DEFINE start == IF p.startTime = Unset THEN 0 ELSE p.startTime
           end == IF p.endTime = Unset THEN Ticks - 1 ELSE p.endTime
           c == ClockAt(t)
<1>1. p.startTime \in Clock \cup {Unset} /\ p.endTime \in Clock \cup {Unset}
    BY DEF PolicyRow
<1>2. start \in Clock /\ end \in Clock /\ c \in Clock
    BY <1>1, ClockType, TimeAssumption DEF Clock
<1>3. InWindow(p, t)
        <=> (IF start <= end THEN c >= start /\ c <= end ELSE c >= start \/ c <= end)
    <2>1. InWindow(p, t) <=> Turn(start, c) <= Turn(start, end)
        BY DEF InWindow
    <2> HIDE DEF start, end, c
    <2> QED
        BY <1>2, <2>1, HandMeets
<1>4. Unset \notin Clock
    BY UnsetAssumption DEF Clock
<1>5. CASE p.startTime = Unset /\ p.endTime = Unset
    <2>1. IsTimeWindowActive(p, t)
        BY <1>5 DEF IsTimeWindowActive
    <2> QED
        BY <2>1, <1>2, <1>3, <1>5, TimeAssumption DEF Clock
<1>6. CASE p.startTime # Unset /\ p.endTime = Unset
    <2>1. IsTimeWindowActive(p, t) <=> c >= start
        BY <1>6 DEF IsTimeWindowActive
    <2> QED
        BY <2>1, <1>2, <1>3, <1>6, TimeAssumption DEF Clock
<1>7. CASE p.startTime = Unset /\ p.endTime # Unset
    <2>1. IsTimeWindowActive(p, t) <=> c <= end
        BY <1>7 DEF IsTimeWindowActive
    <2> QED
        BY <2>1, <1>2, <1>3, <1>7, TimeAssumption DEF Clock
<1>8. CASE p.startTime # Unset /\ p.endTime # Unset
    <2>1. IsTimeWindowActive(p, t)
            <=> (IF start <= end THEN c >= start /\ c <= end ELSE c >= start \/ c <= end)
        BY <1>8 DEF IsTimeWindowActive
    <2> QED
        BY <2>1, <1>3
<1> QED
    BY <1>5, <1>6, <1>7, <1>8

\* AccessPolicy.IsActiveAt admits exactly in the period that the schedule stands for,
\* for every row and every time: windows over midnight, windows that are open on one
\* side, days, dates and uses included.
THEOREM IsActiveAtAgrees ==
    ASSUME NEW p \in PolicyRow, NEW t \in Nat
    PROVE  IsActiveAt(p, t) <=> Admits(p, t)
<1> DEFINE dated == /\ p.validFrom # Unset => t >= p.validFrom
                    /\ p.validUntil # Unset => t <= p.validUntil
<1>1. dated <=> /\ ~ (p.validFrom # Unset /\ t < p.validFrom)
                /\ ~ (p.validUntil # Unset /\ p.validUntil < t)
    BY DEF PolicyRow
<1>2. IsTimeWindowActive(p, t) <=> InWindow(p, t)
    BY WindowsAgree
<1>3. (p.remainingUses = Unset \/ p.remainingUses > 0)
        <=> p.remainingUses \in {Unset} \cup (Nat \ {0})
    BY UnsetAssumption DEF PolicyRow
<1>4. p.scheduleType \in ScheduleType
    BY DEF PolicyRow
<1>5. IsActiveAt(p, t) <=> p.isEnabled /\ dated
        /\ (p.scheduleType = "OneTime" => (p.remainingUses = Unset \/ p.remainingUses > 0))
        /\ (p.scheduleType = "WeeklyRecurring" => IsDayOfWeekActive(p, t))
        /\ (p.scheduleType \in {"WeeklyRecurring", "DateRange"} => IsTimeWindowActive(p, t))
    <2>1. CASE p.scheduleType = "Always"
        BY <2>1 DEF IsActiveAt
    <2>2. CASE p.scheduleType = "OneTime"
        BY <2>2 DEF IsActiveAt
    <2>3. CASE p.scheduleType = "DateRange"
        BY <2>3 DEF IsActiveAt
    <2>4. CASE p.scheduleType = "WeeklyRecurring"
        BY <2>4 DEF IsActiveAt
    <2> QED
        BY <1>4, <2>1, <2>2, <2>3, <2>4 DEF ScheduleType
<1> HIDE DEF dated
<1> QED
    BY <1>1, <1>2, <1>3, <1>5 DEF Admits, IsDayOfWeekActive

----------------------------------------------------------------------------
(* The evaluations *)

LEMMA UsesOfType ==
    ASSUME NEW p \in PolicyRow
    PROVE  UsesOf(p) \in Int
BY DEF PolicyRow, UsesOf

LEMMA UsedType ==
    ASSUME NEW p \in PolicyRow, UsesOf(p) > 0
    PROVE  /\ Used(p) \in PolicyRow
           /\ UsesOf(Used(p)) = UsesOf(p) - 1
           /\ Used(p).scheduleType = p.scheduleType
<1>1. UsesOf(p) - 1 \in Int
    BY UsesOfType
<1>2. Used(p) = [p EXCEPT !.remainingUses = UsesOf(p) - 1]
    BY DEF Used
<1>3. Used(p) \in PolicyRow /\ Used(p).scheduleType = p.scheduleType
        /\ Used(p).remainingUses = UsesOf(p) - 1
    BY <1>1, <1>2 DEF PolicyRow
<1>4. UsesOf(Used(p)) = UsesOf(p) - 1
    BY <1>1, <1>3, UnsetAssumption DEF UsesOf
<1> QED
    BY <1>3, <1>4

\* What an evaluation has read, at each of its stages.
LEMMA StageType ==
    ASSUME TypeOK, NEW w \in Worker
    PROVE  /\ At(w, "policies") => evaluation[w].list \in Copies
           /\ At(w, "spending") => /\ evaluation[w].policy \in Policy
                                  /\ evaluation[w].copy \in PolicyRow
<1>1. evaluation[w] \in {Free} \cup EvaluationState
    BY DEF TypeOK
<1> QED
    BY <1>1 DEF EvaluationState, At

LEMMA CandidatesType ==
    ASSUME TypeOK, NEW w \in Worker, At(w, "policies")
    PROVE  Candidates(w) \in Copies
<1>1. evaluation[w].list \in Copies
    BY StageType
<1>2. ofUser \subseteq Policy /\ ofDoor \subseteq Policy /\ policies \in [Policy -> PolicyRow]
    BY DEF TypeOK
<1>3. Read(ofDoor) \in Copies
    BY <1>2 DEF Read, Copies
<1> QED
    BY <1>1, <1>3 DEF Candidates, Copies, On

\* A thread goes on in a state that has its type.
LEMMA GoesType ==
    ASSUME TypeOK, NEW w \in Worker, NEW state \in {Free} \cup EvaluationState, Goes(w, state),
           state # Free /\ state.stage = "spending"
             => state.copy.scheduleType = "OneTime" /\ UsesOf(state.copy) > 0
    PROVE  /\ evaluation' \in [Worker -> {Free} \cup EvaluationState]
           /\ \A v \in Worker : At(v, "spending")' =>
                evaluation'[v].copy.scheduleType = "OneTime" /\ UsesOf(evaluation'[v].copy) > 0
BY DEF TypeOK, Goes, At, UsesOf

\* Types: every variable keeps its type, and only a one-time pass that has a use left
\* is about to lose one.
THEOREM EvaluatorTypes == Spec => []TypeOK
<1>1. Init => TypeOK
    <2> SUFFICES ASSUME Init PROVE TypeOK
        OBVIOUS
    <2>1. policies \in [Policy -> PolicyRow]
        BY SavedAssumption DEF Init
    <2>2. uses \in [Policy -> Int]
        BY <2>1, UsesOfType DEF Init
    <2> QED
        BY <2>1, <2>2 DEF Init, TypeOK, At
<1>2. TypeOK /\ [Next]_vars => TypeOK'
    <2> SUFFICES ASSUME TypeOK, [Next]_vars PROVE TypeOK'
        OBVIOUS
    <2>1. ASSUME NEW w \in Worker, Begin(w) PROVE TypeOK'
        <3>1. [stage |-> "user", active |-> isActive] \in EvaluationState
            BY DEF TypeOK, EvaluationState
        <3> QED
            BY <2>1, <3>1, GoesType DEF Begin, TypeOK, tables, history
    <2>2. ASSUME NEW w \in Worker, MatchPin(w) PROVE TypeOK'
        <3>1. [stage |-> "matched"] \in EvaluationState
            BY DEF EvaluationState
        <3>2. Goes(w, [stage |-> "matched"]) \/ Goes(w, Free)
            BY <2>2 DEF MatchPin, Ends
        <3> QED
            BY <2>2, <3>1, <3>2, GoesType DEF MatchPin, TypeOK, tables, history
    <2>3. ASSUME NEW w \in Worker, ReadUserPolicies(w) PROVE TypeOK'
        <3>1. [stage |-> "policies", list |-> Read(ofUser)] \in EvaluationState
            BY DEF TypeOK, EvaluationState, Read, Copies
        <3> QED
            BY <2>3, <3>1, GoesType DEF ReadUserPolicies, TypeOK, tables, history
    <2>4. ASSUME NEW w \in Worker, ChoosePolicy(w) PROVE TypeOK'
        <3>1. At(w, "policies")
            BY <2>4 DEF ChoosePolicy
        <3>2. UNCHANGED <<tables, history>>
            BY <2>4 DEF ChoosePolicy
        <3>3. CASE Goes(w, Free)
            BY <3>2, <3>3, GoesType DEF TypeOK, tables, history
        <3>4. ASSUME NEW t \in Time, NEW p \in On(Candidates(w)),
                     IsActiveAt(Candidates(w)[p], t), ~ Goes(w, Free),
                     Admit(w, p, Candidates(w)[p])
              PROVE  TypeOK'
            <4> DEFINE copy == Candidates(w)[p]
                       state == [stage |-> "spending", policy |-> p, copy |-> copy]
            <4>1. p \in Policy /\ copy \in PolicyRow
                BY <3>1, CandidatesType DEF On, Copies
            <4>2. copy.scheduleType = "OneTime" /\ Goes(w, state)
                BY <3>4 DEF Admit, Ends
            <4>3. UsesOf(copy) > 0
                BY <3>4, <4>2 DEF IsActiveAt, UsesOf
            <4>4. state \in EvaluationState
                BY <4>1 DEF EvaluationState
            <4> QED
                BY <3>2, <4>2, <4>3, <4>4, GoesType DEF TypeOK, tables, history
        <3> QED
            BY <2>4, <3>3, <3>4 DEF ChoosePolicy, Ends
    <2>5. ASSUME NEW w \in Worker, Spend(w) PROVE TypeOK'
        <3> DEFINE p == evaluation[w].policy
                   copy == evaluation[w].copy
        <3>1. p \in Policy /\ copy \in PolicyRow /\ UsesOf(copy) > 0
            BY <2>5, StageType DEF Spend, TypeOK
        <3>2. policies' = [policies EXCEPT ![p] = Used(copy)]
            BY <2>5 DEF Spend
        <3>3. policies' \in [Policy -> PolicyRow]
            BY <3>1, <3>2, UsedType DEF TypeOK
        <3>4. raced' \subseteq Policy /\ spent' \in [Policy -> Nat]
            BY <2>5, <3>1 DEF Spend, TypeOK
        <3>5. Goes(w, Free)
            BY <2>5 DEF Spend, Ends
        <3> QED
            BY <2>5, <3>3, <3>4, <3>5, GoesType DEF Spend, TypeOK
    <2>6. ASSUME NEW p \in Policy, NEW row \in Saved, SavePolicy(p, row) PROVE TypeOK'
        <3>1. row \in PolicyRow /\ UsesOf(row) \in Int
            BY SavedAssumption, UsesOfType
        <3> QED
            BY <2>6, <3>1 DEF SavePolicy, TypeOK, At
    <2>7. CASE Assign \/ EditUser
        BY <2>7 DEF Assign, EditUser, TypeOK, At, history
    <2>8. CASE UNCHANGED vars
        BY <2>8 DEF vars, tables, history, TypeOK, At
    <2> QED
        BY <2>1, <2>2, <2>3, <2>4, <2>5, <2>6, <2>7, <2>8 DEF Next, Evaluate, Save
<1> QED
    BY <1>1, <1>2, PTL DEF Spec

\* Uses: as long as no evaluation wrote over a row that had changed, a one-time pass
\* has admitted as often as its uses went down.
THEOREM AdmissionsCounted == Spec => []AdmissionsAreCounted
<1>1. Init => AdmissionsAreCounted
    <2> SUFFICES ASSUME Init, NEW p \in Policy PROVE spent[p] + UsesOf(policies[p]) = uses[p]
        BY DEF AdmissionsAreCounted
    <2>1. UsesOf(policies[p]) \in Int
        BY SavedAssumption, UsesOfType DEF Init
    <2> QED
        BY <2>1 DEF Init
<1>2. TypeOK /\ AdmissionsAreCounted /\ [Next]_vars => AdmissionsAreCounted'
    <2> SUFFICES ASSUME TypeOK, AdmissionsAreCounted, [Next]_vars PROVE AdmissionsAreCounted'
        OBVIOUS
    <2>1. ASSUME NEW w \in Worker, Spend(w) PROVE AdmissionsAreCounted'
        <3> DEFINE p == evaluation[w].policy
                   copy == evaluation[w].copy
        <3>1. p \in Policy /\ copy \in PolicyRow
                /\ copy.scheduleType = "OneTime" /\ UsesOf(copy) > 0
            BY <2>1, StageType DEF Spend, TypeOK
        <3>2. policies' = [policies EXCEPT ![p] = Used(copy)] /\ UNCHANGED uses
            BY <2>1 DEF Spend
        <3>3. raced' = IF policies[p] = copy THEN raced ELSE raced \cup {p}
            BY <2>1 DEF Spend
        <3>4. spent' = IF p \in raced' THEN spent ELSE [spent EXCEPT ![p] = @ + 1]
            BY <2>1 DEF Spend
        <3> SUFFICES ASSUME NEW q \in Policy,
                            policies'[q].scheduleType = "OneTime", q \notin raced'
                     PROVE  spent'[q] + UsesOf(policies'[q]) = uses[q]
            BY <3>2 DEF AdmissionsAreCounted, UsesOf
        <3>5. CASE q # p
            BY <3>1, <3>2, <3>3, <3>4, <3>5 DEF AdmissionsAreCounted, TypeOK
        <3>6. CASE q = p
            <4>1. policies[p] = copy /\ p \notin raced
                BY <3>3, <3>6
            <4>2. spent[p] + UsesOf(copy) = uses[p]
                BY <3>1, <4>1 DEF AdmissionsAreCounted
            <4>3. spent'[p] = spent[p] + 1 /\ policies'[p] = Used(copy)
                BY <3>1, <3>2, <3>4, <3>6 DEF TypeOK
            <4>4. UsesOf(Used(copy)) = UsesOf(copy) - 1 /\ UsesOf(copy) \in Int /\ spent[p] \in Nat
                BY <3>1, UsedType, UsesOfType DEF TypeOK
            <4> HIDE DEF p, copy
            <4> QED
                BY <3>6, <4>2, <4>3, <4>4
        <3> QED
            BY <3>5, <3>6
    <2>2. ASSUME NEW p \in Policy, NEW row \in Saved, SavePolicy(p, row)
          PROVE  AdmissionsAreCounted'
        <3>1. UsesOf(row) \in Int
            BY SavedAssumption, UsesOfType
        <3> SUFFICES ASSUME NEW q \in Policy,
                            policies'[q].scheduleType = "OneTime", q \notin raced'
                     PROVE  spent'[q] + UsesOf(policies'[q]) = uses'[q]
            BY DEF AdmissionsAreCounted, UsesOf
        <3>2. CASE q = p
            BY <2>2, <3>1, <3>2 DEF SavePolicy, TypeOK
        <3>3. CASE q # p
            BY <2>2, <3>3 DEF SavePolicy, AdmissionsAreCounted, TypeOK
        <3> QED
            BY <3>2, <3>3
    <2>3. ASSUME UNCHANGED <<policies, spent, uses, raced>> PROVE AdmissionsAreCounted'
        BY <2>3 DEF AdmissionsAreCounted, UsesOf
    <2>4. ASSUME NEW w \in Worker,
                 Begin(w) \/ MatchPin(w) \/ ReadUserPolicies(w) \/ ChoosePolicy(w)
          PROVE  AdmissionsAreCounted'
        BY <2>3, <2>4 DEF Begin, MatchPin, ReadUserPolicies, ChoosePolicy, tables, history
    <2>5. CASE Assign \/ EditUser \/ UNCHANGED vars
        BY <2>3, <2>5 DEF Assign, EditUser, vars, tables, history
    <2> QED
        BY <2>1, <2>2, <2>4, <2>5 DEF Next, Evaluate, Save
<1> QED
    BY <1>1, <1>2, EvaluatorTypes, PTL DEF Spec

\* Periods: whatever rows the API saves, they admit in the periods of their schedules.
THEOREM PeriodsKept == Spec => []ActiveInPeriod
<1>1. TypeOK => ActiveInPeriod
    BY IsActiveAtAgrees, TimesAssumption DEF TypeOK, ActiveInPeriod
<1> QED
    BY <1>1, EvaluatorTypes, PTL
=============================================================================
