----------------------------- MODULE MCInvoicing -----------------------------
(* Calendars of short months for the invoicing runs.  "Short": four months  *)
(* of two days.  "Long": months of three and four days, cycle days 1 to 3.  *)
EXTENDS Invoicing, TLC

ShortFirstDay == [m \in 0 .. 3 |-> 2 * m]
ShortMonthOf == [d \in 0 .. 5 |-> d \div 2]
LongFirstDay == [m \in 0 .. 4 |-> CASE m = 0 -> 0 [] m = 1 -> 3 [] m = 2 -> 6 [] m = 3 -> 10 [] m = 4 -> 13]
LongMonthOf == [d \in 0 .. 12 |-> CHOOSE m \in 0 .. 3 : LongFirstDay[m] <= d /\ d < LongFirstDay[m + 1]]

\* A customer with one open contract since the first day of the calendar.
OpenContract == <<[start |-> 0, end |-> Open, status |-> "ACTIVE"]>>
RenewalDates == {3}

\* Staff requests are alike; the nightly job is not one of them.
StaffSymmetry == Permutations(Staff)

NewCustomer == [D \in FirstCycleDays |-> [s \in Days |-> NoInvoice]]
=============================================================================
