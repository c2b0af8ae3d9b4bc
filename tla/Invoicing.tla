------------------------------ MODULE Invoicing ------------------------------
(* One customer's invoices (src/api/src/invoices/invoices.service.ts with   *)
(* periodFor and resolveBilling of contracts.service.ts).  The nightly cron *)
(* and staff requests run at once; every query is a step of its own, and    *)
(* none of them shares a transaction.  The table is keyed by periodStart,   *)
(* the unique key (customerId, periodStart) of prisma/schema.prisma.        *)
EXTENDS Contracts

CONSTANTS
  Staff,         \* staff requests that may be in flight at once
  Cron,          \* the nightly job
  CycleDays,     \* the billingCycleDays staff may set
  FirstCycleDays, \* the one the customer starts with is among these
  InitInvoices,  \* the invoices the customer starts with, for each of them
  StaffMay,      \* what staff requests do: a subset of StaffKinds
  MaxMissed,     \* bound on the nights in a row the job does not complete
  MaxDayChanges  \* bound on the changes of the cycle day

VARIABLES
  cycleDay,   \* Customer.billingCycleDay
  invoices,   \* periodStart -> invoice row or NoInvoice
  pc,         \* the next query of each operation
  req,        \* what it was asked for and has read so far
  missed,     \* nights in a row without a completed run of the job
  cronRun,    \* whether the job "waits", "runs", is "done" or has "failed" today
  dayChanges  \* changes of the cycle day so far

invoiceVars == <<cycleDay, invoices, pc, req, missed, cronRun, dayChanges>>
vars == <<invoiceVars, contractVars, today>>

NoInvoice == [status |-> "NONE"]
InvoiceStatus == {"PENDING", "PAID", "CANCELLED"}
InvoiceRow ==
  [status : InvoiceStatus, end : Days, paid : BOOLEAN, generated : WorkDays, contract : Nat]
StaffKinds == {"generate", "pay", "cancel", "setCycleDay", "contracts"}
Workers == Staff \cup {Cron}
Request ==
  [month : Months \cup {0}, day : CycleDaysAllowed, start : Days, end : Days,
   replacing : BOOLEAN, contract : Nat]
NoRequest ==
  [month |-> 0, day |-> 1, start |-> FirstDay[0], end |-> FirstDay[0],
   replacing |-> FALSE, contract |-> 0]

\* The rows a customer starts with are those of months billed on its cycle.
OnCycle(D, table) ==
  \A s \in Days : table[s] # NoInvoice =>
    \E m \in Months :
      /\ s = PeriodStart(m, D) /\ table[s].end = PeriodEnd(m, D)
      /\ table[s].end < table[s].generated

ASSUME InvoicingAssumption ==
  /\ Cron \notin Staff
  /\ CycleDays \subseteq CycleDaysAllowed
  /\ FirstCycleDays \subseteq CycleDaysAllowed
  /\ StaffMay \subseteq StaffKinds
  /\ MaxMissed \in Nat /\ MaxDayChanges \in Nat
  /\ InitInvoices \in [FirstCycleDays -> [Days -> InvoiceRow \cup {NoInvoice}]]
  /\ \A D \in FirstCycleDays : OnCycle(D, InitInvoices[D])

Exists(s) == invoices[s] # NoInvoice
Live(s) == Exists(s) /\ invoices[s].status # "CANCELLED"
Idle(w) == pc[w] = "idle"
\* Mutant: on its last day a period counts as closed.
Closed_OnLastDay(end) == end <= today

\* "periodEnd.getTime() > Date.now()" refuses the period.
Closed(end) == end < today

InvoicingInit ==
  /\ ContractsInit
  /\ today = FirstToday
  /\ cycleDay \in FirstCycleDays
  /\ dayChanges = 0
  /\ invoices = InitInvoices[cycleDay]
  /\ pc = [w \in Workers |-> "idle"]
  /\ req = [w \in Workers |-> NoRequest]
  /\ missed = 0
  /\ cronRun = "waits"

Finish(w) ==
  /\ pc' = [pc EXCEPT ![w] = "idle"]
  /\ req' = [req EXCEPT ![w] = NoRequest]
  /\ cronRun' = IF w = Cron THEN "done" ELSE cronRun
NotByCron == UNCHANGED <<missed, cronRun>>
-----------------------------------------------------------------------------
\* generateDueInvoices: the customer has a contract; the month is the last
\* closed cycle by the cycle day the job read.
CronStart ==
  /\ cronRun = "waits"
  /\ Len(contracts) > 0
  /\ LastClosedCycle(today, cycleDay) \in Months
  /\ pc' = [pc EXCEPT ![Cron] = "customer"]
  /\ req' = [req EXCEPT ![Cron] = [NoRequest EXCEPT !.month = LastClosedCycle(today, cycleDay)]]
  /\ cronRun' = "runs"
  /\ UNCHANGED <<cycleDay, dayChanges, invoices, missed>>

\* The manual "Gerar" of any month.
StaffGenerate(w) ==
  /\ "generate" \in StaffMay
  /\ Idle(w)
  /\ \E m \in Months :
       /\ pc' = [pc EXCEPT ![w] = "customer"]
       /\ req' = [req EXCEPT ![w] = [NoRequest EXCEPT !.month = m]]
  /\ UNCHANGED <<cycleDay, dayChanges, invoices>> /\ NotByCron

\* requireCustomer.
ReadCustomer(w) ==
  /\ pc[w] = "customer"
  /\ pc' = [pc EXCEPT ![w] = "period"]
  /\ req' = [req EXCEPT ![w].day = cycleDay]
  /\ UNCHANGED <<cycleDay, dayChanges, invoices>> /\ NotByCron

\* periodFor: the live invoice that ends last among those ending before this
\* period does; it is stitched to when it reaches into the period or is last
\* month's.  StartsFor is a set of one day: rows that end together agree.
Previous(e) == {s \in Days : Live(s) /\ invoices[s].end < e}
Latest(S) == {s \in S : \A t \in S : invoices[t].end <= invoices[s].end}
Stitches(m, D, s) ==
  \/ invoices[s].end >= PeriodStart(m, D)
  \/ Competencia(invoices[s].end) = m - 1
\* Mutant: stitched to the last billed day instead of the day after it.
StartsFor_SameDay(m, D) ==
  LET prev == Previous(PeriodEnd(m, D))
  IN IF prev = {} THEN {PeriodStart(m, D)}
     ELSE {IF Stitches(m, D, s) THEN invoices[s].end ELSE PeriodStart(m, D) : s \in Latest(prev)}
StartsFor(m, D) ==
  LET prev == Previous(PeriodEnd(m, D))
  IN IF prev = {} THEN {PeriodStart(m, D)}
     ELSE {IF Stitches(m, D, s) THEN invoices[s].end + 1 ELSE PeriodStart(m, D) :
             s \in Latest(prev)}

ReadPeriod(w) ==
  /\ pc[w] = "period"
  /\ LET e == PeriodEnd(req[w].month, req[w].day) IN
     \/ /\ ~Closed(e)
        /\ Finish(w)
     \/ /\ Closed(e)
        /\ pc' = [pc EXCEPT ![w] = "existing"]
        /\ \E s \in StartsFor(req[w].month, req[w].day) :
             req' = [req EXCEPT ![w].start = s, ![w].end = e]
        /\ UNCHANGED cronRun
  /\ UNCHANGED <<cycleDay, dayChanges, invoices, missed>>

\* Mutants: the job replaces too; a live row is replaced too.
Replaces_ByCron(w, s) == Exists(s) /\ invoices[s].status = "CANCELLED"
Replaces_Live(w, s) == w # Cron /\ Exists(s)

\* findUnique by periodStart; only the manual call replaces a CANCELLED row.
Replaces(w, s) == w # Cron /\ Exists(s) /\ invoices[s].status = "CANCELLED"
ReadExisting(w) ==
  /\ pc[w] = "existing"
  /\ LET s == req[w].start IN
     \/ /\ Exists(s) /\ ~Replaces(w, s)
        /\ Finish(w)
     \/ /\ ~Exists(s) \/ Replaces(w, s)
        /\ pc' = [pc EXCEPT ![w] = "bill"]
        /\ req' = [req EXCEPT ![w].replacing = Replaces(w, s)]
        /\ UNCHANGED cronRun
  /\ UNCHANGED <<cycleDay, dayChanges, invoices, missed>>

\* resolveBilling: no contract covers the period, or the snapshot is taken.
ResolveBilling(w) ==
  /\ pc[w] = "bill"
  /\ \/ /\ Covering(req[w].start, req[w].end) = {}
        /\ Finish(w)
     \/ \E c \in BilledBy(req[w].start, req[w].end) :
          /\ pc' = [pc EXCEPT ![w] = "write"]
          /\ req' = [req EXCEPT ![w].contract = c]
          /\ UNCHANGED cronRun
  /\ UNCHANGED <<cycleDay, dayChanges, invoices, missed>>

Snapshot(w) ==
  [status |-> "PENDING", end |-> req[w].end, paid |-> FALSE, generated |-> today,
   contract |-> req[w].contract]
\* update of the cancelled row, or create; a row that won the race is returned.
WriteInvoice(w) ==
  /\ pc[w] = "write"
  /\ LET s == req[w].start IN
     invoices' = IF req[w].replacing \/ ~Exists(s)
                 THEN [invoices EXCEPT ![s] = Snapshot(w)] ELSE invoices
  /\ Finish(w)
  /\ UNCHANGED <<cycleDay, dayChanges, missed>>
-----------------------------------------------------------------------------
\* markPaid: reads the row, then writes it by id.
Payable(s) == Live(s)
MarkPaid(w) ==
  /\ "pay" \in StaffMay
  /\ Idle(w)
  /\ \E s \in Days :
       /\ Payable(s)
       /\ pc' = [pc EXCEPT ![w] = "pay"]
       /\ req' = [req EXCEPT ![w].start = s]
  /\ UNCHANGED <<cycleDay, dayChanges, invoices>> /\ NotByCron
WritePaid(w) ==
  /\ pc[w] = "pay"
  /\ invoices' = [invoices EXCEPT ![req[w].start].status = "PAID", ![req[w].start].paid = TRUE]
  /\ Finish(w)
  /\ UNCHANGED <<cycleDay, dayChanges, missed>>

\* cancel: refused for a PAID row, then writes the status by id.
Cancellable(s) == Exists(s) /\ invoices[s].status # "PAID"
CancelInvoice(w) ==
  /\ "cancel" \in StaffMay
  /\ Idle(w)
  /\ \E s \in Days :
       /\ Cancellable(s)
       /\ pc' = [pc EXCEPT ![w] = "cancel"]
       /\ req' = [req EXCEPT ![w].start = s]
  /\ UNCHANGED <<cycleDay, dayChanges, invoices>> /\ NotByCron
WriteCancelled(w) ==
  /\ pc[w] = "cancel"
  /\ invoices' = [invoices EXCEPT ![req[w].start].status = "CANCELLED"]
  /\ Finish(w)
  /\ UNCHANGED <<cycleDay, dayChanges, missed>>

\* CustomersService.update of billingCycleDay: one write.
SetCycleDay ==
  /\ "setCycleDay" \in StaffMay
  /\ dayChanges < MaxDayChanges
  /\ \E D \in CycleDays : D # cycleDay /\ cycleDay' = D
  /\ dayChanges' = dayChanges + 1
  /\ UNCHANGED <<invoices, pc, req>> /\ NotByCron

\* A query of the operation throws, or the process stops: the job logs it and
\* comes back the next night, a request answers an error.
Abort(w) ==
  /\ ~Idle(w)
  /\ w = Cron => missed < MaxMissed
  /\ pc' = [pc EXCEPT ![w] = "idle"]
  /\ req' = [req EXCEPT ![w] = NoRequest]
  /\ cronRun' = IF w = Cron THEN "failed" ELSE cronRun
  /\ UNCHANGED <<cycleDay, dayChanges, invoices, missed>>

\* The next day.  The job of a day ends on that day; a night it did not run
\* or failed counts as missed.
NothingToBill == Len(contracts) = 0 \/ LastClosedCycle(today, cycleDay) \notin Months
NextDay ==
  /\ today + 1 \in WorkDays
  /\ cronRun # "runs"
  /\ cronRun = "waits" /\ ~NothingToBill => missed < MaxMissed
  /\ today' = today + 1
  /\ missed' = IF cronRun = "done" \/ NothingToBill THEN 0 ELSE missed + 1
  /\ cronRun' = "waits"
  /\ UNCHANGED <<cycleDay, dayChanges, invoices, pc, req>>

GenerateStep(w) ==
  \/ ReadCustomer(w) \/ ReadPeriod(w) \/ ReadExisting(w)
  \/ ResolveBilling(w) \/ WriteInvoice(w)
StaffStep(w) ==
  \/ StaffGenerate(w)
  \/ MarkPaid(w) \/ WritePaid(w)
  \/ CancelInvoice(w) \/ WriteCancelled(w)

Next ==
  \/ /\ \/ CronStart
        \/ \E w \in Workers : GenerateStep(w) \/ Abort(w)
        \/ \E w \in Staff : StaffStep(w)
        \/ SetCycleDay
     /\ UNCHANGED <<contractVars, today>>
  \/ NextDay /\ UNCHANGED contractVars
  \/ /\ "contracts" \in StaffMay
     /\ \E o \in ContractOps : ContractStep(o)
     /\ UNCHANGED <<invoiceVars, today>>

Spec == InvoicingInit /\ [][Next]_vars
-----------------------------------------------------------------------------
(* Type correctness: rows, requests and the job's state keep their shape.   *)
InvoicingTypeOK ==
  /\ ContractsTypeOK
  /\ cycleDay \in CycleDaysAllowed
  /\ invoices \in [Days -> InvoiceRow \cup {NoInvoice}]
  /\ pc \in [Workers -> {"idle", "customer", "period", "existing", "bill", "write",
                         "pay", "cancel"}]
  /\ req \in [Workers -> Request]
  /\ missed \in Nat
  /\ dayChanges \in Nat
  /\ cronRun \in {"waits", "runs", "done", "failed"}

(* "invoices can only be generated after the period ends" (generate): also  *)
(* when the day, the cycle day or the table changes between its queries.    *)
OnlyClosedPeriods ==
  \A s \in Days : Exists(s) =>
    s <= invoices[s].end /\ invoices[s].end < invoices[s].generated

(* No day is on two live invoices of the customer (periodFor's comment      *)
(* promises it of any history; it holds while the cycle day never changes). *)
LivePeriodsDisjoint ==
  \A s, t \in Days : (Live(s) /\ Live(t) /\ s < t) => invoices[s].end < t

(* "only one exists per month" (generate's comment): the key is periodStart,*)
(* so two rows of one month would need two periods that start differently.  *)
OnePerCompetencia ==
  \A s, t \in Days : (Exists(s) /\ Exists(t) /\ s # t) =>
    Competencia(invoices[s].end) # Competencia(invoices[t].end)

(* A cancelled row becomes a bill again only by a request that chose to     *)
(* replace it, never by the nightly job (generate's comment on              *)
(* replaceCancelled).  Without being billed again it can only become paid,  *)
(* by a payment under way that read it before it was cancelled, and which   *)
(* leaves the bill as it was.                                               *)
OnlyReplacingRevives ==
  [][\A s \in Days : (Exists(s) /\ ~Live(s) /\ Live(s)') =>
       \E w \in Staff :
         /\ req[w].start = s
         /\ \/ pc[w] = "write" /\ req[w].replacing /\ invoices'[s].status = "PENDING"
            \/ /\ pc[w] = "pay"
               /\ invoices'[s] = [invoices[s] EXCEPT !.status = "PAID", !.paid = TRUE]]_vars

(* "cannot mark a cancelled invoice as paid" (markPaid): a cancelled        *)
(* invoice does not become a paid one.                                      *)
CancelledNeverPaid ==
  [][\A s \in Days : (Exists(s) /\ invoices[s].status = "CANCELLED") =>
       invoices[s].status' # "PAID"]_vars

(* "cannot cancel an invoice that was already paid" (cancel): no step takes *)
(* a PAID invoice to another status.                                        *)
PaidStaysPaid ==
  [][\A s \in Days : (Exists(s) /\ invoices[s].status = "PAID") =>
       invoices[s].status' = "PAID"]_vars

(* An invoice is a frozen snapshot: while it is live no step changes what   *)
(* it bills, whatever the job and a request write at once.                  *)
SnapshotFrozen ==
  [][\A s \in Days : Live(s) =>
       /\ invoices'[s].end = invoices[s].end
       /\ invoices'[s].contract = invoices[s].contract
       /\ invoices'[s].generated = invoices[s].generated]_vars

(* An invoice keeps its past: a paid one stays paid and a live one is a     *)
(* frozen snapshot, with one request of staff at a time beside the job.     *)
InvoicesKeepTheirPast == PaidStaysPaid /\ SnapshotFrozen

(* As soon as a period closes the nightly job bills it: with at most        *)
(* MaxMissed nights lost in a row a covered period that closed in the       *)
(* model's time has an invoice after one night more.                        *)
ClosedCyclesInvoiced ==
  \A m \in Months :
    LET e == PeriodEnd(m, cycleDay)
    IN (/\ FirstToday <= e /\ e + MaxMissed + 1 < today
        /\ Covering(PeriodStart(m, cycleDay), e) # {}) =>
          \E s \in Days : Exists(s) /\ Competencia(invoices[s].end) = m

(* "or leaving days unbilled" (periodFor): the invoices of two consecutive  *)
(* months leave no day between them.                                        *)
NoUnbilledDays ==
  \A s, t \in Days :
    (/\ Live(s) /\ Live(t)
     /\ Competencia(invoices[t].end) = Competencia(invoices[s].end) + 1) =>
       \A d \in (invoices[s].end + 1) .. (t - 1) :
         \E u \in Days : Live(u) /\ u <= d /\ d <= invoices[u].end
=============================================================================
