------------------------------- MODULE MCStaff -------------------------------
(* What staff meet in the panel, for one TLC run: the invoices of one       *)
(* customer and the pages themselves.  In "requests" one request at a time  *)
(* is made beside the nightly job, in "change" the cycle day of a steady    *)
(* customer changes once, in "panel" someone uses the pages; the others     *)
(* rest in their initial state.                                             *)
EXTENDS Panel, Invoicing

VARIABLE subject

\* Months of three and four days; "requests" ends with day 10.
MCFirstDay == [m \in 0 .. 5 |-> CASE m = 0 -> 0 [] m = 1 -> 3 [] m = 2 -> 6 [] m = 3 -> 10
                                  [] m = 4 -> 13 [] m = 5 -> 16]
MCMonthOf == [d \in 0 .. 15 |-> CHOOSE m \in 0 .. 4 : MCFirstDay[m] <= d /\ d < MCFirstDay[m + 1]]
LastRequestDay == 10

\* A customer with one open contract since the first day of the calendar, new
\* or with its closed months billed on the day after they closed.
OpenContract == <<[start |-> 0, end |-> 16, status |-> "ACTIVE"]>>
NewCustomer == [D \in 1 .. 3 |-> [s \in 0 .. 15 |-> NoInvoice]]
SteadyFrom == 10
BilledMonths == {m \in Months : PeriodEnd(m, cycleDay) < SteadyFrom}
SteadyCustomer ==
  [s \in Days |->
     IF \E m \in BilledMonths : PeriodStart(m, cycleDay) = s
     THEN LET m == CHOOSE n \in BilledMonths : PeriodStart(n, cycleDay) = s
          IN [status |-> "PENDING", end |-> PeriodEnd(m, cycleDay), paid |-> FALSE,
              generated |-> PeriodEnd(m, cycleDay) + 1, contract |-> 1]
     ELSE NoInvoice]

\* Viewers of a tenant with nothing yet, and of one with all there is.
AllStock == {"customers", "devices", "tickets", "notices"}
Viewers == [scope : {"staff", "customer", "operator"}, stock : {{}, AllStock}]
SomeKeys == Presets \cup {{}, {"notifications"}}

SteadyInit ==
  /\ ContractsInit /\ today = SteadyFrom /\ dayChanges = 0
  /\ cycleDay \in FirstCycleDays /\ invoices = SteadyCustomer
  /\ pc = [w \in Workers |-> "idle"] /\ req = [w \in Workers |-> NoRequest]
  /\ missed = 0 /\ cronRun = "waits"
StaffInit ==
  /\ subject \in {"requests", "change", "panel"}
  /\ IF subject = "change" THEN SteadyInit ELSE InvoicingInit
  /\ subject = "requests" => cycleDay \in {1, 3}
  /\ subject = "panel" => cycleDay = 1
  /\ PanelInit
  /\ subject # "panel" => who.scope = "operator" /\ who.stock = {} /\ cookie = "none"

RequestsNext == Next /\ UNCHANGED dayChanges /\ today' <= LastRequestDay
ChangeNext == Next /\ \A w \in Staff : Idle(w)'
StaffNext ==
  \/ subject = "requests" /\ RequestsNext /\ UNCHANGED <<subject, panelVars>>
  \/ subject = "change" /\ ChangeNext /\ UNCHANGED <<subject, panelVars>>
  \/ subject = "panel" /\ PanelNext /\ UNCHANGED <<subject, vars>>
StaffSpec == StaffInit /\ [][StaffNext]_<<subject, vars, panelVars>>

(* The type invariants of the parts.                                        *)
StaffTypesOK == InvoicingTypeOK /\ PanelTypeOK
(* Every day that a contract covers is billed in its turn: as soon as a     *)
(* period closes the nightly job bills it, once per month; and one change   *)
(* of a steady customer's cycle day bills no day twice, leaves none between *)
(* the invoices of two months in a row and bills none before its period     *)
(* closed (periodFor's stitching and generate's check of the end).          *)
EveryDayBilledInTurn ==
  /\ subject = "requests" => ClosedCyclesInvoiced /\ OnePerCompetencia
  /\ subject = "change" => LivePeriodsDisjoint /\ NoUnbilledDays /\ OnlyClosedPeriods
=============================================================================
