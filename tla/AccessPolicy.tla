---------------------------- MODULE AccessPolicy ----------------------------
(***************************************************************************)
(* When an access policy admits: AccessPolicy.IsActiveAt, and next to it   *)
(* what the four kinds of schedule mean.  A time is a number of ticks, of  *)
(* which a day has Ticks and the first day is a Monday.                    *)
(***************************************************************************)
EXTENDS Integers

CONSTANTS
    Ticks,  \* ticks of a day: 864,000,000,000 of 100 ns; few for TLC
    Week,   \* days of a week: 7
    Unset   \* a column that is NULL

ASSUME TimeAssumption == Ticks \in Nat \ {0} /\ Week \in Nat \ {0}
ASSUME UnsetAssumption == Unset \notin Int

ScheduleType == {"Always", "WeeklyRecurring", "DateRange", "OneTime"}

\* The bits of daysOfWeek that are set, Monday first.
DayOfWeek == 0..(Week - 1)
Clock == 0..(Ticks - 1)

\* The API saves any number of uses, also a negative one.
PolicyRow == [
    scheduleType : ScheduleType,
    daysOfWeek : SUBSET DayOfWeek,
    startTime : Clock \cup {Unset}, endTime : Clock \cup {Unset},
    validFrom : Nat \cup {Unset}, validUntil : Nat \cup {Unset},
    remainingUses : Int \cup {Unset},
    isEnabled : BOOLEAN]

DayAt(t) == (t \div Ticks) % Week
ClockAt(t) == t % Ticks

----------------------------------------------------------------------------
(* The code *)

IsDayOfWeekActive(p, t) == DayAt(t) \in p.daysOfWeek

\* Mutated: a window over midnight is taken for one within a day.
IsTimeWindowActive_NoMidnight(p, t) ==
    /\ p.startTime # Unset => ClockAt(t) >= p.startTime
    /\ p.endTime # Unset => ClockAt(t) <= p.endTime

IsTimeWindowActive(p, t) ==
    LET started == ClockAt(t) >= p.startTime
        notEnded == ClockAt(t) <= p.endTime
    IN  CASE p.startTime = Unset /\ p.endTime = Unset -> TRUE
          [] p.startTime # Unset /\ p.endTime = Unset -> started
          [] p.startTime = Unset /\ p.endTime # Unset -> notEnded
          [] p.startTime # Unset /\ p.endTime # Unset ->
                IF p.startTime <= p.endTime THEN started /\ notEnded ELSE started \/ notEnded

\* The dates count for every type, also those left over from another one.
IsActiveAt(p, t) ==
    /\ p.isEnabled
    /\ p.validFrom # Unset => t >= p.validFrom
    /\ p.validUntil # Unset => t <= p.validUntil
    /\ CASE p.scheduleType = "Always" -> TRUE
         [] p.scheduleType = "OneTime" -> p.remainingUses = Unset \/ p.remainingUses > 0
         [] p.scheduleType = "DateRange" -> IsTimeWindowActive(p, t)
         [] p.scheduleType = "WeeklyRecurring" ->
                IsDayOfWeekActive(p, t) /\ IsTimeWindowActive(p, t)

----------------------------------------------------------------------------
(* What it stands for *)

\* How far the hand of a clock turns to get from one time of day to another.
Turn(from, to) == IF from <= to THEN to - from ELSE to - from + Ticks

\* A window that is open on a side reaches to midnight there.  The hand, coming from
\* the start, meets the time before it has left the end behind.
InWindow(p, t) ==
    LET start == IF p.startTime = Unset THEN 0 ELSE p.startTime
        end == IF p.endTime = Unset THEN Ticks - 1 ELSE p.endTime
    IN  Turn(start, ClockAt(t)) <= Turn(start, end)

Admits(p, t) ==
    /\ p.isEnabled
    /\ ~ (p.validFrom # Unset /\ t < p.validFrom)
    /\ ~ (p.validUntil # Unset /\ p.validUntil < t)
    /\ p.scheduleType = "OneTime" => p.remainingUses \in {Unset} \cup (Nat \ {0})
    /\ p.scheduleType = "WeeklyRecurring" => DayAt(t) \in p.daysOfWeek
    /\ p.scheduleType \in {"WeeklyRecurring", "DateRange"} => InWindow(p, t)
=============================================================================
