------------------------- MODULE MCPolicyEvaluator -------------------------
(* Small instance of PolicyEvaluator for TLC, with days of four ticks and  *)
(* weeks of two days.                                                      *)
EXTENDS PolicyEvaluator

Row(type, days, start, end, from, until, n, enabled) == [
    scheduleType |-> type, daysOfWeek |-> days, startTime |-> start, endTime |-> end,
    validFrom |-> from, validUntil |-> until, remainingUses |-> n, isEnabled |-> enabled]

Pass(n) == Row("OneTime", DayOfWeek, Unset, Unset, Unset, Unset, n, TRUE)

\* A night shift, one tick of a day, mornings, a stay with an end, access that is switched
\* off, and passes for one use, for two, and for less than none.
Rows == {
    Row("WeeklyRecurring", {0}, 3, 1, Unset, Unset, Unset, TRUE),
    Row("WeeklyRecurring", {0, 1}, 2, 2, Unset, Unset, Unset, TRUE),
    Row("DateRange", {}, Unset, 1, Unset, Unset, Unset, TRUE),
    Row("DateRange", {0, 1}, 1, Unset, 2, 6, Unset, TRUE),
    Row("Always", {}, Unset, Unset, Unset, Unset, Unset, FALSE),
    Pass(Unset), Pass(2), Pass(-1)}

TwoDays == 0..(2 * Ticks - 1)
=============================================================================
