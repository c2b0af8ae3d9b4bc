---------------------------- MODULE BillingCycle ----------------------------
(* The billing calendar of src/api/src/common/billing-cycle.util.ts and     *)
(* dueDateFor of invoices.service.ts.  A day is a number; the last instant  *)
(* of a period is the number of its last day.  The calendar is data:        *)
(* FirstDay[m] is the first day of month m and MonthOf[d] the month of day  *)
(* d, so that the months of a model may be a few days long.                 *)
EXTENDS Integers

CONSTANTS
  LastMonth,    \* months 0 .. LastMonth + 1 are on the calendar
  FirstDay,     \* the first day of each of them
  MonthOf,      \* the month a day falls in
  MaxCycleDay   \* MAX_BILLING_CYCLE_DAY: every month has that many days

Months == 1 .. LastMonth
Days == FirstDay[0] .. (FirstDay[LastMonth + 1] - 1)
WorkDays == FirstDay[1] .. (FirstDay[LastMonth + 1] - 1)

\* "Capped at 28 so every month actually has the day" is the third line.
ASSUME CalendarAssumption ==
  /\ LastMonth \in Nat \ {0}
  /\ MaxCycleDay \in Nat \ {0}
  /\ FirstDay \in [0 .. (LastMonth + 1) -> Nat]
  /\ \A m \in 0 .. LastMonth : FirstDay[m + 1] - FirstDay[m] >= MaxCycleDay
  /\ \A m, n \in 0 .. (LastMonth + 1) : m < n => FirstDay[m] < FirstDay[n]
  /\ MonthOf \in [Days -> 0 .. LastMonth]
  /\ \A d \in Days : FirstDay[MonthOf[d]] <= d /\ d < FirstDay[MonthOf[d] + 1]

CycleDaysAllowed == 1 .. MaxCycleDay
DayOfMonth(d) == d - FirstDay[MonthOf[d]] + 1

\* cyclePeriod: a period is named by the month its last day falls in.
PeriodStart(m, D) == IF D <= 1 THEN FirstDay[m] ELSE FirstDay[m - 1] + D - 1
PeriodEnd(m, D) == IF D <= 1 THEN FirstDay[m + 1] - 1 ELSE FirstDay[m] + D - 2

\* Mutant: the closing day itself still counts as the old cycle.
CycleContaining_Later(d, D) ==
  IF D > 1 /\ DayOfMonth(d) > D THEN MonthOf[d] + 1 ELSE MonthOf[d]
\* cycleContaining: the competencia whose period contains a day.
CycleContaining(d, D) ==
  IF D > 1 /\ DayOfMonth(d) >= D THEN MonthOf[d] + 1 ELSE MonthOf[d]

\* lastClosedCycle: the most recent competencia fully closed on a day.
LastClosedCycle(d, D) == CycleContaining(d, D) - 1

\* competenciaKey: the month of a period's last day.
Competencia(end) == MonthOf[end]

\* dueDateFor: the first billingDay after the period closes, clamped to the
\* length of its month; the loop ends in the period's month or the next one.
MonthLength(m) == FirstDay[m + 1] - FirstDay[m]
BillingDayIn(m, billingDay) ==
  FirstDay[m] - 1 + (IF billingDay < MonthLength(m) THEN billingDay ELSE MonthLength(m))
DueDate(end, billingDay) ==
  IF BillingDayIn(MonthOf[end], billingDay) > end
  THEN BillingDayIn(MonthOf[end], billingDay)
  ELSE BillingDayIn(MonthOf[end] + 1, billingDay)
=============================================================================
